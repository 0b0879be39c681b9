---------------------------- MODULE FeatureFlags ----------------------------
(***************************************************************************)
(* The feature flags of the agent: OpenvSwitch (ovs), GRE acceleration     *)
(* (gre), Opensync, the Ethernet backhaul, the backhaul cache and the      *)
(* reduced retry, next to mesh_enable, on which some of them depend.       *)
(*                                                                         *)
(* A flag is kept twice, in syscfg and in g_pMeshAgent.  One setter per    *)
(* flag compares the wish with syscfg, may lower the wish, stores it and   *)
(* then publishes it.  Setters call each other: enabling ovs first turns   *)
(* gre off, disabling mesh first turns both off.  The setters of a thread  *)
(* that are still to run are its stack of operations (todo); nothing       *)
(* orders the threads, so what an operation read may be old when it stores.*)
(*                                                                         *)
(* handleMeshEnable is the subject of MeshEnable; here it only matters     *)
(* that a failed enabling takes mesh_enable back.                          *)
(***************************************************************************)
EXTENDS Naturals, Sequences, FiniteSets

CONSTANTS
  Flags,   \* the flags of this instance
  XB3,     \* isXB3Platform: the platform with GRE acceleration
  Faults   \* what may fail, a subset of FaultKinds

FaultKinds == {"get", "set", "commit", "start", "crash"}
AllFlags == {"mesh", "ethbhaul", "opensync", "ovs", "cache", "retry", "gre"}

ASSUME FlagsAssumption ==
  /\ Flags \subseteq AllFlags
  /\ {"mesh", "ovs", "gre", "opensync"} \subseteq Flags
  /\ XB3 \in BOOLEAN
  /\ Faults \subseteq FaultKinds

VARIABLES
  up,          \* "down", "boot" (Mesh_SetDefaults) or "up"
  store,       \* the flags as syscfg has them
  ram,         \* the flags as g_pMeshAgent has them
  todo,        \* per thread, the operations it has not finished
  enabling,    \* an enabling of mesh is with handleMeshEnable
  undisturbed  \* history: no failure and no overlap since the agent started

vars == <<up, store, ram, todo, enabling, undisturbed>>

Threads == {"boot", "dml", "sysevent", "webconfig"}

Op == [flag: Flags, want: BOOLEAN, init: BOOLEAN, commit: BOOLEAN,
       pc: {"load", "decide", "store", "publish"}]

FieldsOK ==
  /\ up \in {"down", "boot", "up"}
  /\ store \in [Flags -> BOOLEAN] /\ ram \in [Flags -> BOOLEAN]
  /\ todo \in [Threads -> Seq(Op)]
  /\ enabling \in BOOLEAN /\ undisturbed \in BOOLEAN

(* A setter that was asked for has at most two others called before it     *)
(* stores, whatever they find: below the third operation of a stack there  *)
(* are only flags the boot has yet to set.                                 *)
TypeOK ==
  /\ FieldsOK
  /\ \A t \in Threads : \A k \in DOMAIN todo[t] : k > 3 => todo[t][k].init

(* syscfg may hold whatever earlier failures left in it.                   *)
Init ==
  /\ up = "down"
  /\ store \in {s \in [Flags -> BOOLEAN] : s["gre"] => XB3}
  /\ ram = [f \in Flags |-> FALSE]
  /\ todo = [t \in Threads |-> <<>>]
  /\ enabling = FALSE /\ undisturbed = FALSE

-----------------------------------------------------------------------------
Busy(t) == todo[t] # <<>>
Quiet == up = "up" /\ ~enabling /\ \A t \in Threads : ~Busy(t)
Settled == Quiet /\ undisturbed

(* The boot is over with its last operation.                               *)
Pop(t) == /\ todo' = [todo EXCEPT ![t] = Tail(@)]
          /\ up' = IF Len(todo[t]) = 1 THEN "up" ELSE up
Advance(t, pc) == todo' = [todo EXCEPT ![t] = <<[Head(@) EXCEPT !.pc = pc]>>
                                                \o Tail(@)]
At(t, pc) == Busy(t) /\ Head(todo[t]).pc = pc

SetOp(f, v) == [flag |-> f, want |-> v, init |-> FALSE, commit |-> TRUE,
                pc |-> "decide"]

(* Mesh_GetEnabled of several flags in a row: a read that fails is FALSE.  *)
Views == {store} \cup IF "get" \in Faults
                        THEN {[store EXCEPT ![f] = FALSE] : f \in Flags}
                        ELSE {}

-----------------------------------------------------------------------------
(* Requests.                                                               *)

(* GRE acceleration exists on the XB3 only.                                *)
Supported == {f \in Flags : f = "gre" => XB3}

(* What a thread may ask for: the data model knows all flags, the sysevent *)
(* handler and webconfig mesh_enable, and webconfig the Ethernet backhaul. *)
Settable(t) ==
  CASE t = "dml"       -> Supported
    [] t = "sysevent"  -> {"mesh"}
    [] t = "webconfig" -> {"mesh", "ethbhaul"} \cap Flags
    [] t = "boot"      -> {}

(* webconfig's own mesh_set_enabled does not turn ovs and gre off.         *)
Request(t, f, v) ==
  /\ up = "up" /\ ~Busy(t)
  /\ f \in Settable(t)
  /\ todo' = [todo EXCEPT ![t] = <<SetOp(f, v)>>]
  /\ undisturbed' = (Settled /\ ~(t = "webconfig" /\ f = "mesh" /\ ~v))
  /\ UNCHANGED <<up, store, ram, enabling>>

(* The flags in the order Mesh_SetDefaults sets them.                      *)
IfSupported(f) == IF f \in Supported THEN <<f>> ELSE <<>>
BootOrder ==
  IfSupported("mesh") \o IfSupported("ethbhaul") \o IfSupported("opensync")
    \o IfSupported("ovs") \o IfSupported("cache") \o IfSupported("retry")
    \o IfSupported("gre")

Boot ==
  /\ up = "down"
  /\ up' = "boot"
  /\ todo' = [todo EXCEPT !["boot"] =
       [i \in 1..Len(BootOrder) |->
          [SetOp(BootOrder[i], FALSE) EXCEPT !.init = TRUE, !.pc = "load"]]]
  /\ undisturbed' = TRUE
  /\ UNCHANGED <<store, ram, enabling>>

Default(f) == f = "retry"

(* A flag is set to what syscfg says, without storing it again, or stored  *)
(* as its default when it cannot be read; mesh_enable is then whatever the *)
(* recovery flag or a retry says.                                          *)
Load ==
  /\ At("boot", "load")
  /\ LET op == Head(todo["boot"])
         Set(v, commit) ==
           todo' = [todo EXCEPT !["boot"] =
             <<[op EXCEPT !.want = v, !.commit = commit, !.pc = "decide"]>>
             \o Tail(@)]
     IN \/ Set(store[op.flag], FALSE)
        \/ /\ "get" \in Faults
           /\ \E v \in IF op.flag = "mesh" THEN BOOLEAN ELSE {Default(op.flag)} :
                Set(v, TRUE)
  /\ UNCHANGED <<up, store, ram, enabling, undisturbed>>

-----------------------------------------------------------------------------
(* A setter, in three steps.                                               *)

(* Mutant of Granted: gre does not look at ovs.                            *)
GrantedGreAnyway(op, seen) ==
  CASE op.flag = "gre"      -> op.want /\ seen["mesh"]
    [] op.flag = "ovs"      -> op.want /\ (XB3 => seen["mesh"])
    [] op.flag = "opensync" -> op.want /\ seen["ovs"]
    [] OTHER                -> op.want

(* What is left of a wish.                                                 *)
Granted(op, seen) ==
  CASE op.flag = "gre"      -> op.want /\ seen["mesh"] /\ ~seen["ovs"]
    [] op.flag = "ovs"      -> op.want /\ (XB3 => seen["mesh"])
    [] op.flag = "opensync" -> op.want /\ seen["ovs"]
    [] OTHER                -> op.want

(* Mutant of First: turning mesh off forgets GRE acceleration.             *)
FirstOvsOnly(t, op, seen) ==
  IF ~XB3 THEN <<>>
  ELSE IF op.flag = "mesh" /\ ~op.want /\ t # "webconfig"
    THEN <<SetOp("ovs", FALSE)>>
  ELSE IF op.flag = "ovs" /\ op.want /\ seen["mesh"] /\ seen["gre"]
    THEN <<SetOp("gre", FALSE)>>
  ELSE <<>>

(* Mutant of First: turning ovs off turns gre off, too.                    *)
FirstGreAnyway(t, op, seen) ==
  IF ~XB3 THEN <<>>
  ELSE IF op.flag = "mesh" /\ ~op.want /\ t # "webconfig"
    THEN <<SetOp("ovs", FALSE), SetOp("gre", FALSE)>>
  ELSE IF op.flag = "ovs" /\ seen["mesh"] /\ seen["gre"]
    THEN <<SetOp("gre", FALSE)>>
  ELSE <<>>

(* The setters a setter calls before it stores, on the XB3.                *)
First(t, op, seen) ==
  IF ~XB3 THEN <<>>
  ELSE IF op.flag = "mesh" /\ ~op.want /\ t # "webconfig"
    THEN <<SetOp("ovs", FALSE), SetOp("gre", FALSE)>>
  ELSE IF op.flag = "ovs" /\ op.want /\ seen["mesh"] /\ seen["gre"]
    THEN <<SetOp("gre", FALSE)>>
  ELSE <<>>

(* Nothing happens when syscfg has the value already, except at boot.      *)
Decide(t) ==
  /\ At(t, "decide")
  /\ LET op == Head(todo[t])
     IN \E seen \in Views :
       /\ undisturbed' = (undisturbed /\ seen = store)
       /\ \/ ~op.init /\ seen[op.flag] = op.want /\ Pop(t)
          \/ /\ op.init \/ seen[op.flag] # op.want
             /\ todo' = [todo EXCEPT ![t] =
                  First(t, op, seen)
                  \o <<[op EXCEPT !.want = Granted(op, seen), !.pc = "store"]>>
                  \o Tail(@)]
             /\ UNCHANGED up
  /\ UNCHANGED <<store, ram, enabling>>

(* These setters give up when syscfg does; the others go on regardless.    *)
Checked == {"ovs", "gre", "opensync"}

Stores(op) == op.commit \/ (op.flag = "mesh" /\ XB3)

(* Five or six attempts, all of which fail at syscfg_set or syscfg_commit. *)
StoreFails(t) ==
  /\ At(t, "store")
  /\ LET op == Head(todo[t])
     IN /\ Stores(op)
        /\ \/ "set" \in Faults /\ UNCHANGED store
           \/ "commit" \in Faults /\ store' = [store EXCEPT ![op.flag] = op.want]
        /\ IF op.flag \in Checked THEN Pop(t)
                                  ELSE Advance(t, "publish") /\ UNCHANGED up
  /\ undisturbed' = FALSE
  /\ UNCHANGED <<ram, enabling>>

Store(t) ==
  /\ At(t, "store")
  /\ LET op == Head(todo[t])
     IN store' = IF Stores(op) THEN [store EXCEPT ![op.flag] = op.want] ELSE store
  /\ Advance(t, "publish")
  /\ UNCHANGED <<up, ram, enabling, undisturbed>>

(* Mutant of Publish: the data model is not told.                          *)
PublishNothing(t) ==
  /\ At(t, "publish")
  /\ Pop(t)
  /\ UNCHANGED <<store, ram, enabling, undisturbed>>

(* The value becomes visible and the vendor is told (Mesh_sendRFCUpdate);  *)
(* for mesh, handleMeshEnable is started, or called by webconfig.          *)
Publish(t) ==
  /\ At(t, "publish")
  /\ LET op == Head(todo[t])
     IN IF op.flag = "mesh"
          THEN enabling' = (enabling \/ op.want) /\ ram' = ram
          ELSE ram' = [ram EXCEPT ![op.flag] = op.want] /\ enabling' = enabling
  /\ Pop(t)
  /\ UNCHANGED <<store, undisturbed>>

-----------------------------------------------------------------------------
(* handleMeshEnable ends an enabling; a failed one takes the wish back.    *)
EnablingEnds ==
  /\ enabling
  /\ enabling' = FALSE
  /\ \/ UNCHANGED <<store, undisturbed>>
     \/ /\ "start" \in Faults
        /\ store' = [store EXCEPT !["mesh"] = FALSE]
        /\ undisturbed' = FALSE
  /\ UNCHANGED <<up, ram, todo>>

(* The process dies; systemd starts it again (Boot).                       *)
Crash ==
  /\ "crash" \in Faults
  /\ up # "down"
  /\ up' = "down"
  /\ ram' = [f \in Flags |-> FALSE]
  /\ todo' = [t \in Threads |-> <<>>]
  /\ enabling' = FALSE /\ undisturbed' = FALSE
  /\ UNCHANGED store

Next ==
  \/ \E t \in Threads, f \in Flags, v \in BOOLEAN : Request(t, f, v)
  \/ Boot
  \/ Load
  \/ \E t \in Threads : Decide(t) \/ Store(t) \/ StoreFails(t) \/ Publish(t)
  \/ EnablingEnds
  \/ Crash

Spec == Init /\ [][Next]_vars

-----------------------------------------------------------------------------
(* "mesh_ovs_enable has higher priority over mesh_gre_acc_enable": once an *)
(* undisturbed agent is at rest, the two are never both on in syscfg,      *)
(* whatever an earlier run left there: each boot repairs it.               *)
OneAccelerator == Settled => ~(store["ovs"] /\ store["gre"])

(* "if mesh is being disabled, then also disable ovs": on the XB3 no       *)
(* acceleration outlives mesh, in syscfg or in the data model.             *)
FlagsFollowMesh ==
  Settled /\ XB3 => \A f \in {"ovs", "gre"} : store[f] \/ ram[f] => store["mesh"]

(* What the data model shows is what syscfg keeps.  Opensync alone may be  *)
(* kept without being shown: without ovs a boot only hides it.             *)
ShownIsKept ==
  Settled => \A f \in Flags \ {"mesh"} :
               IF f = "opensync" THEN ram[f] => store[f] ELSE ram[f] = store[f]
=============================================================================
