------------------------------ MODULE WebConfig ------------------------------
(***************************************************************************)
(* Webconfig documents: mesh_enable and the Ethernet backhaul set together.*)
(*                                                                         *)
(* A document arrives through the data model, is unpacked and handed to    *)
(* the webconfig framework (external), whose executor runs one at a time:  *)
(* Process_MB_WebConfigRequest, then setBlobVersion when it reports        *)
(* success, or rollback_MeshBackhaul when it reports an error.  Nothing is *)
(* assumed of the order it takes them in.  The cloud sends a document      *)
(* again as long as its version is not the one stored.                     *)
(*                                                                         *)
(* mb_cache and mb_cache_bkup start out all false: init_mb_cache, which    *)
(* would read the stored values, has no caller.                            *)
(*                                                                         *)
(* handleMeshEnable is one step here; MeshEnable models its own.           *)
(***************************************************************************)
EXTENDS Naturals, Sequences

CONSTANTS
  Docs,       \* the documents the cloud may send: sequences of entries
  MaxCrashes, \* crashes of the agent
  Faults      \* what may fail, a subset of FaultKinds

FaultKinds == {"bridge", "radio", "precheck", "start", "stop", "store", "dml"}
Keys == {"Enable", "Ethbhaul", "bare"}

ASSUME WebConfigAssumption ==
  /\ Docs \subseteq Seq([key: Keys, value: BOOLEAN]) \ {<<>>}
  /\ MaxCrashes \in Nat
  /\ Faults \subseteq FaultKinds

VARIABLES
  stored,    \* syscfg: mesh_enable and the Ethernet backhaul
  version,   \* syscfg: the document whose version is stored, or None
  lastSet,   \* handleMeshEnable's last_set
  meshError, \* the error code of the last handling
  cache,     \* mb_cache
  backup,    \* mb_cache_bkup
  waiting,   \* documents handed to the framework
  exec,      \* the executor
  crashes,   \* crashes so far
  before,    \* history: stored when the execution began
  tainted,   \* history: something else than this document had its say
  wanted     \* history: settings on at the start, or asked for since

vars == <<stored, version, lastSet, meshError, cache, backup, waiting, exec,
          crashes, before, tainted, wanted>>

Conf == [mesh: BOOLEAN, eth: BOOLEAN]
Off == [mesh |-> FALSE, eth |-> FALSE]
None == <<>>
Errors == {"ok", "start", "stop"}
Pcs == {"idle", "validate", "mesh", "eth", "answer",
        "undo_mesh", "undo_eth", "undo_cache"}

(* A document without the wrapper "mesh" has one entry here.               *)
Bare(d) == d[1].key = "bare"

(* process_meshdocparams: only Ethbhaul is waited for.  What comes before  *)
(* it is read; an Enable that comes after it is not, and reads as false.   *)
(* Of a bare document helper_convert reads nothing, and takes it all the   *)
(* same: it turns both off.                                                *)
Unpack(d) == IF Bare(d) THEN Off ELSE
  LET e == CHOOSE i \in 1..Len(d) :
             /\ d[i].key = "Ethbhaul"
             /\ \A k \in 1..(i - 1) : d[k].key # "Ethbhaul"
      On(i) == d[i] = [key |-> "Enable", value |-> TRUE]
  IN [mesh |-> \E i \in 1..(e - 1) :
                 /\ On(i)
                 /\ \A k \in (i + 1)..(e - 1) : d[k].key # "Enable",
      eth  |-> d[e].value]

Complete(d) == Bare(d) \/ \E i \in 1..Len(d) : d[i].key = "Ethbhaul"

NoDoc == [pc |-> "idle", doc |-> None, ret |-> "ok"]

(* The answer is set by the last thing that is done for a document: only   *)
(* one that is refused is rolled back, and none is applied after it.       *)
Executions ==
  {x \in [pc: Pcs, doc: Docs \cup {None}, ret: {"ok", "refused", "true"}] :
     /\ x.pc \in {"validate", "mesh", "eth"} => x.ret = "ok"
     /\ x.pc \in {"undo_mesh", "undo_eth", "undo_cache"} => x.ret = "refused"}

TypeOK ==
  /\ stored \in Conf /\ cache \in Conf /\ backup \in Conf /\ before \in Conf
  /\ wanted \in Conf
  /\ version \in Docs \cup {None}
  /\ lastSet \in BOOLEAN /\ tainted \in BOOLEAN
  /\ meshError \in Errors
  /\ waiting \subseteq Docs
  /\ exec \in Executions
  /\ crashes \in 0..MaxCrashes

Init ==
  /\ stored \in Conf
  /\ lastSet = stored.mesh
  /\ version = None /\ meshError = "ok"
  /\ cache = Off /\ backup = Off
  /\ waiting = {} /\ exec = NoDoc
  /\ crashes = 0 /\ before = Off /\ tainted = FALSE
  /\ wanted = stored

-----------------------------------------------------------------------------
(* A document arrives (the data model's Data parameter).  One that has no  *)
(* Ethbhaul is dropped, and the cloud is told that it was taken.           *)
Receive(d) ==
  /\ Complete(d)
  /\ d # version
  /\ waiting' = waiting \cup {d}
  /\ UNCHANGED <<stored, version, lastSet, meshError, cache, backup, exec,
                 crashes, before, tainted, wanted>>

(* The framework has a document executed, which one is its business: the   *)
(* cache is saved.                                                         *)
Take(d) ==
  /\ exec.pc = "idle"
  /\ d \in waiting
  /\ waiting' = waiting \ {d}
  /\ exec' = [pc |-> "validate", doc |-> d, ret |-> "ok"]
  /\ backup' = cache
  /\ before' = stored
  /\ tainted' = (meshError # "ok" \/ lastSet # stored.mesh)
  /\ UNCHANGED <<stored, version, lastSet, meshError, cache, crashes, wanted>>

(* Mutant of Validate: a refused document is applied all the same.         *)
ValidateGoesOn ==
  /\ exec.pc = "validate"
  /\ \/ cache' = Unpack(exec.doc) /\ exec' = [exec EXCEPT !.pc = "mesh"]
     \/ /\ Unpack(exec.doc).mesh
        /\ Faults \cap {"bridge", "radio"} # {}
        /\ cache' = backup
        /\ exec' = [exec EXCEPT !.pc = "mesh", !.ret = "refused"]
  /\ UNCHANGED <<stored, version, lastSet, meshError, backup, waiting, crashes,
                 before, tainted, wanted>>

(* Mutant of Validate: a refused document stays in the cache.              *)
ValidateKeepsCache ==
  /\ exec.pc = "validate"
  /\ cache' = Unpack(exec.doc)
  /\ \/ exec' = [exec EXCEPT !.pc = "mesh"]
     \/ /\ Unpack(exec.doc).mesh
        /\ Faults \cap {"bridge", "radio"} # {}
        /\ exec' = [exec EXCEPT !.pc = "answer", !.ret = "refused"]
  /\ UNCHANGED <<stored, version, lastSet, meshError, backup, waiting, crashes,
                 before, tainted, wanted>>

(* set_meshbackhaul_conf: an enabling is refused in bridge mode, or when   *)
(* the channel selection of a radio cannot be turned off.                  *)
Validate ==
  /\ exec.pc = "validate"
  /\ \/ cache' = Unpack(exec.doc) /\ exec' = [exec EXCEPT !.pc = "mesh"]
     \/ /\ Unpack(exec.doc).mesh
        /\ Faults \cap {"bridge", "radio"} # {}
        /\ cache' = backup
        /\ exec' = [exec EXCEPT !.pc = "answer", !.ret = "refused"]
  /\ UNCHANGED <<stored, version, lastSet, meshError, backup, waiting, crashes,
                 before, tainted, wanted>>

(* meshSetSyscfg, whose store may fail six times over, unnoticed.          *)
Written(old, v) == {v} \cup IF "store" \in Faults THEN {old} ELSE {}

(* What handleMeshEnable may come to: its last_set and what failed.        *)
Outcomes(last, v) ==
  {[last |-> v, err |-> "ok"]}
  \cup IF last = v THEN {} ELSE
    {[last |-> last, err |-> f] :
        f \in Faults \cap IF v THEN {"precheck", "start"} ELSE {"stop"}}

(* The value stored by v's request, which the handler takes back when it   *)
(* fails: either store may leave things as they are.                       *)
Stores(old, v, o) ==
  UNION {IF o.err = "ok" THEN {s} ELSE Written(s, FALSE) : s \in Written(old, v)}

(* Storing a new mesh_enable and having it handled.  A handler in a thread *)
(* of its own keeps its error code to itself, and a failed precondition    *)
(* returns before the code is set.                                         *)
SetMesh(v, thread) ==
  /\ stored.mesh # v
  /\ \E o \in Outcomes(lastSet, v) :
       /\ \E w \in Stores(stored.mesh, v, o) : stored' = [stored EXCEPT !.mesh = w]
       /\ lastSet' = o.last
       /\ meshError' = IF lastSet # v /\ (thread \/ o.err = "precheck")
                         THEN meshError ELSE o.err

(* mesh_set_enabled(v): nothing is done when syscfg has the value; either  *)
(* way the error code of the last handling is what counts, whose it was.   *)
MeshSetEnabled(v) ==
  \/ stored.mesh = v /\ UNCHANGED <<stored, lastSet, meshError>>
  \/ SetMesh(v, FALSE)

(* Mesh_SetMeshEthBhaul, whose store may fail unnoticed.                   *)
SetEth(v) == \E w \in Written(stored.eth, v) : stored' = [stored EXCEPT !.eth = w]

(* A setting did not take: from here on the outcome is not the document's. *)
Taint(conf) ==
  tainted' = (tainted \/ stored' # conf \/ lastSet' # stored'.mesh)

(* Either setting is wanted once somebody has got as far as setting it.    *)
Wants(conf) == wanted' = [s \in {"mesh", "eth"} |-> wanted[s] \/ conf[s]]
MeshOf(v) == [mesh |-> v, eth |-> FALSE]
EthOf(v) == [mesh |-> FALSE, eth |-> v]

(* Mutant of ApplyMesh: a document that failed stays in the cache.         *)
ApplyMeshKeepsCache ==
  /\ exec.pc = "mesh"
  /\ MeshSetEnabled(cache.mesh)
  /\ Taint([stored EXCEPT !.mesh = cache.mesh])
  /\ Wants(MeshOf(cache.mesh))
  /\ exec' = IF meshError' = "ok" THEN [exec EXCEPT !.pc = "eth"]
                  ELSE [exec EXCEPT !.pc = "answer", !.ret = "true"]
  /\ UNCHANGED <<version, cache, backup, waiting, crashes, before>>

(* apply_mb_cache_ToDB, first half.  The code comes back as a bool.        *)
ApplyMesh ==
  /\ exec.pc = "mesh"
  /\ MeshSetEnabled(cache.mesh)
  /\ Taint([stored EXCEPT !.mesh = cache.mesh])
  /\ Wants(MeshOf(cache.mesh))
  /\ IF meshError' = "ok"
       THEN exec' = [exec EXCEPT !.pc = "eth"] /\ cache' = cache
       ELSE exec' = [exec EXCEPT !.pc = "answer", !.ret = "true"] /\ cache' = backup
  /\ UNCHANGED <<version, backup, waiting, crashes, before>>

ApplyEth ==
  /\ exec.pc = "eth"
  /\ SetEth(cache.eth)
  /\ exec' = [exec EXCEPT !.pc = "answer"]
  /\ UNCHANGED <<version, lastSet, meshError, cache, backup, waiting, crashes,
                 before>>
  /\ Taint([stored EXCEPT !.eth = cache.eth])
  /\ Wants(EthOf(cache.eth))

(* The executor looks at the answer.  An error of the mesh part is 1 by    *)
(* now, none of the codes it is compared with, so the answer is still the  *)
(* success it started as.                                                  *)
Reported(ret) == ret # "refused"

(* Success stores the version (setBlobVersion); an error rolls back, when  *)
(* is_cash_matches_db finds mesh_enable changed from the saved cache.      *)
Answer ==
  /\ exec.pc = "answer"
  /\ IF Reported(exec.ret)
       THEN /\ version' \in {exec.doc} \cup
                            IF "store" \in Faults THEN {version} ELSE {}
            /\ exec' = NoDoc
       ELSE /\ version' = version
            /\ exec' = IF stored.mesh = backup.mesh
                         THEN NoDoc ELSE [exec EXCEPT !.pc = "undo_mesh"]
  /\ UNCHANGED <<stored, lastSet, meshError, cache, backup, waiting, crashes,
                 before, tainted, wanted>>

UndoMesh ==
  /\ exec.pc = "undo_mesh"
  /\ MeshSetEnabled(backup.mesh)
  /\ exec' = [exec EXCEPT !.pc = IF meshError' = "ok" THEN "undo_eth"
                                                      ELSE "undo_cache"]
  /\ UNCHANGED <<version, cache, backup, waiting, crashes, before, tainted,
                 wanted>>

UndoEth ==
  /\ exec.pc = "undo_eth"
  /\ SetEth(backup.eth)
  /\ exec' = [exec EXCEPT !.pc = "undo_cache"]
  /\ UNCHANGED <<version, lastSet, meshError, cache, backup, waiting, crashes,
                 before, tainted, wanted>>

UndoCache ==
  /\ exec.pc = "undo_cache"
  /\ cache' = backup
  /\ exec' = NoDoc
  /\ UNCHANGED <<stored, version, lastSet, meshError, backup, waiting, crashes,
                 before, tainted, wanted>>

-----------------------------------------------------------------------------
(* The data model sets one of the two between the executor's steps.        *)
DmlSets(v) ==
  /\ "dml" \in Faults
  /\ \/ SetMesh(v, TRUE) /\ Wants(MeshOf(v))
     \/ SetEth(v) /\ Wants(EthOf(v)) /\ UNCHANGED <<lastSet, meshError>>
  /\ tainted' = TRUE
  /\ UNCHANGED <<version, cache, backup, waiting, exec, crashes, before>>

(* The agent dies: documents in hand and caches are gone.  The boot code   *)
(* has handleMeshEnable do what syscfg says, with a last_set that is FALSE *)
(* again.                                                                  *)
Crash ==
  /\ crashes < MaxCrashes
  /\ crashes' = crashes + 1
  /\ \E o \in Outcomes(FALSE, stored.mesh) :
       /\ \E w \in Stores(stored.mesh, stored.mesh, o) :
             stored' = [stored EXCEPT !.mesh = w]
       /\ lastSet' = o.last
  /\ meshError' = "ok" /\ wanted' = stored'
  /\ cache' = Off /\ backup' = Off /\ waiting' = {} /\ exec' = NoDoc
  /\ UNCHANGED <<version, before, tainted>>

Execute == (\E d \in waiting : Take(d)) \/ Validate \/ ApplyMesh \/ ApplyEth
           \/ Answer \/ UndoMesh \/ UndoEth \/ UndoCache

Next ==
  \/ \E d \in Docs : Receive(d)
  \/ Execute
  \/ \E v \in BOOLEAN : DmlSets(v)
  \/ Crash

Spec == Init /\ [][Next]_vars

-----------------------------------------------------------------------------
(* A document that is refused, or whose first setting fails, turns nothing *)
(* on that nobody else asked for: not itself, and not later through the    *)
(* cache, when Process_MB_WebConfigRequest fails for another document and  *)
(* rollback_MeshBackhaul applies what was saved.                           *)
RefusedStaysOff == \A s \in {"mesh", "eth"} : stored[s] => wanted[s]

Ends == exec.pc # "idle" /\ exec'.pc = "idle" /\ crashes' = crashes

(* The saved cache is what was stored, as a rollback takes for granted;    *)
(* the first document of an agent may find it otherwise.                   *)
Fresh == backup = before

(* Process_MB_WebConfigRequest and mb_cache: after a document whose steps  *)
(* all took, and after one that was refused, the cache is again what is    *)
(* stored, so that the next document is rolled back to the truth.          *)
CacheFollows ==
  [][Ends /\ ~tainted' /\ (Fresh \/ Reported(exec.ret)) => cache' = stored']_vars
=============================================================================
