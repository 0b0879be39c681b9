----------------------------- MODULE MeshEnable -----------------------------
(***************************************************************************)
(* Turning the mesh service on and off.                                    *)
(*                                                                         *)
(* A request to change mesh_enable comes from one of four threads of the   *)
(* agent: the data model ("dml"), the sysevent handler ("sysevent"), the   *)
(* webconfig executor ("webconfig") and the boot code ("boot").  Each      *)
(* request is a job: the calling thread compares the wish with syscfg,     *)
(* stores it in syscfg and in the recovery flag of /nvram, and hands it to *)
(* handleMeshEnable, which runs in a thread of its own (webconfig calls it *)
(* directly) and does its work under mesh_handler_mutex.  pthread_create   *)
(* says nothing about which of two such threads locks the mutex first.     *)
(*                                                                         *)
(* Two stores keep mesh_enable: the working copy of syscfg, which the      *)
(* agent reads and which outlives the agent's process, and its committed   *)
(* copy, which outlives the device.  syscfg_set writes the one and         *)
(* syscfg_commit copies it to the other: two calls, with room for a crash, *)
(* a reboot or a second request between them.  The state of the meshwifi   *)
(* service belongs to systemd and outlives the agent as well.              *)
(***************************************************************************)
EXTENDS Naturals, FiniteSets

CONSTANTS
  Jobs,    \* requests that can be in flight at the same time
  NoJob,   \* the mutex is free
  XB3,     \* isXB3Platform: every value is committed to syscfg
  Retries, \* how often a failed store is tried again (5)
  Serial,  \* the agent is asked for one thing at a time
  Faults   \* what the environment may do wrong, a subset of FaultKinds

FaultKinds == {"syscfg_set", "syscfg_commit", "syscfg_get", "popen", "flag",
               "precheck", "start", "stop", "state", "crash"}

ASSUME EnableAssumption ==
  /\ NoJob \notin Jobs
  /\ XB3 \in BOOLEAN
  /\ Retries \in Nat
  /\ Serial \in BOOLEAN
  /\ Faults \subseteq FaultKinds

VARIABLES
  up,          \* the process: "down", "boot" (Mesh_SetDefaults) or "up"
  syscfg,      \* mesh_enable as syscfg_get returns it
  disk,        \* mesh_enable as last committed
  flag,        \* the file /nvram/mesh_enabled exists
  service,     \* systemd runs meshwifi
  published,   \* the value of the sysevent mesh_enable is MESH|true
  meshEnable,  \* g_pMeshAgent->meshEnable
  lastSet,     \* handleMeshEnable's static last_set
  meshError,   \* the error code webconfig reads
  mutex,       \* the job that holds mesh_handler_mutex, or NoJob
  job,         \* the requests in flight
  reset        \* what a WIFI_RESET event is about to do to the service

storeVars == <<syscfg, disk>>
vars == <<up, syscfg, disk, flag, service, published, meshEnable, lastSet,
          meshError, mutex, job, reset>>

Callers == {"dml", "sysevent", "webconfig", "boot"}
Errors == {"ok", "precondition", "start_fail", "stop_fail"}
Calling == {"store", "commit", "flag"}
Locked == {"check", "service", "publish", "announce", "remember",
           "undo_store", "undo_commit", "undo_flag"}
Pcs == {"idle", "ready"} \cup Calling \cup Locked

JobState == [pc: Pcs, by: Callers \cup {"thread"}, want: BOOLEAN,
             commit: BOOLEAN, tries: 0..Retries, err: Errors]

Asked(c, v, commit) == [pc |-> "store", by |-> c, want |-> v,
                        commit |-> commit, tries |-> 0, err |-> "ok"]

(* The handler knows no more of its request than bit_mask says: the value, *)
(* and whether it has a thread of its own.                                 *)
Handed(c, v) == [Asked(IF c = "webconfig" THEN c ELSE "thread", v, FALSE)
                   EXCEPT !.pc = "ready"]

Idle == [Asked("thread", FALSE, FALSE) EXCEPT !.pc = "idle"]

TypeOK ==
  /\ up \in {"down", "boot", "up"}
  /\ syscfg \in BOOLEAN /\ disk \in BOOLEAN /\ flag \in BOOLEAN
  /\ service \in BOOLEAN /\ published \in BOOLEAN
  /\ meshEnable \in BOOLEAN /\ lastSet \in BOOLEAN
  /\ meshError \in Errors
  /\ mutex \in Jobs \cup {NoJob}
  /\ job \in [Jobs -> JobState]
  /\ reset \in {"none", "start", "stop"}

Init ==
  /\ up = "down"
  /\ syscfg \in BOOLEAN /\ disk = syscfg /\ flag \in BOOLEAN
  /\ service = FALSE /\ published = FALSE
  /\ meshEnable = FALSE /\ lastSet = FALSE /\ meshError = "ok"
  /\ mutex = NoJob /\ job = [j \in Jobs |-> Idle] /\ reset = "none"

-----------------------------------------------------------------------------
Quiescent ==
  /\ up = "up"
  /\ reset = "none"
  /\ \A j \in Jobs : job[j].pc = "idle"

(* A caller is busy until it has spawned the handler's thread; webconfig,  *)
(* which runs the handler itself, until the handler returns.               *)
Busy(c) ==
  \/ \E j \in Jobs : /\ job[j].by = c
                     /\ job[j].pc \in IF c = "webconfig" THEN Pcs \ {"idle"}
                                                         ELSE Calling
  \/ c = "sysevent" /\ reset # "none"

MayAct(c) == up = "up" /\ ~Busy(c) /\ (Serial => Quiescent)

Goto(j, pc) == job' = [job EXCEPT ![j].pc = pc]

(* Mesh_GetEnabled: a failing syscfg_get reads as disabled.                *)
GetEnabled == {syscfg} \cup IF "syscfg_get" \in Faults THEN {FALSE} ELSE {}

(* meshSetSyscfg goes on after a store that worked, or that failed for the *)
(* last time.                                                              *)
Stored(j, done) == job' = [job EXCEPT ![j].pc = done, ![j].tries = 0]

(* Mutant of Again: the loop runs once too often.                          *)
OnceTooOften(j, set, done) ==
  IF job[j].tries <= Retries
    THEN job' = [job EXCEPT ![j].pc = set, ![j].tries = @ + 1]
    ELSE Stored(j, done)

(* After a failed store it tries again, from the set.                      *)
Again(j, set, done) ==
  IF job[j].tries < Retries
    THEN job' = [job EXCEPT ![j].pc = set, ![j].tries = @ + 1]
    ELSE Stored(j, done)

(* The two calls of Mesh_SysCfgSetStr: syscfg_set changes the working      *)
(* copy, and syscfg_commit writes all of it, whoever set what is in it.    *)
SyscfgSet(j, v, set, commit, done) ==
  \/ syscfg' = v /\ Goto(j, commit)
  \/ "syscfg_set" \in Faults /\ UNCHANGED syscfg /\ Again(j, set, done)

SyscfgCommit(j, set, done) ==
  \/ disk' = syscfg /\ Stored(j, done)
  \/ "syscfg_commit" \in Faults /\ UNCHANGED disk /\ Again(j, set, done)

(* fopen or remove of the recovery flag, which may fail unnoticed.         *)
SetFlag(v) ==
  \/ flag' = v
  \/ "flag" \in Faults /\ UNCHANGED flag

-----------------------------------------------------------------------------
(* The calling thread.                                                     *)

(* Mesh_SetEnabled(v, false, true) and mesh_set_enabled(v): nothing is     *)
(* done when syscfg already has the value.  The data model refuses TRUE in *)
(* bridge mode and the sysevent handler turns it into FALSE, before they   *)
(* call; either way the call is one of these.                              *)
Request(j, c, v) ==
  /\ c # "boot"
  /\ MayAct(c)
  /\ job[j].pc = "idle"
  /\ \E cur \in GetEnabled : cur # v
  /\ job' = [job EXCEPT ![j] = Asked(c, v, TRUE)]
  /\ UNCHANGED <<up, storeVars, flag, service, published, meshEnable,
                 lastSet, meshError, mutex, reset>>

(* Where Mesh_SetDefaults finds mesh_enable: in syscfg; in syscfg after a  *)
(* retry; or, when every read fails, in the recovery flag.  (The value it  *)
(* greps from syscfg.db keeps its newline and matches neither word.)       *)
BootValue(v, commit) ==
  \/ v = syscfg /\ ~commit
  \/ "syscfg_get" \in Faults /\ commit /\ v \in {syscfg, flag}

(* The agent starts and calls Mesh_SetEnabled(v, true, commit).            *)
Boot(j) ==
  /\ up = "down"
  /\ job[j].pc = "idle"
  /\ up' = "boot"
  /\ \E v, commit \in BOOLEAN :
       /\ BootValue(v, commit)
       /\ job' = [job EXCEPT ![j] = Asked("boot", v, commit)]
  /\ UNCHANGED <<storeVars, flag, service, published, meshEnable, lastSet,
                 meshError, mutex, reset>>

(* Every read of syscfg and the first popen of syscfg.db fail, the second  *)
(* popen works: Mesh_SetDefaults does not read what it gave and asks for   *)
(* nothing.                                                                *)
BootSkips ==
  /\ up = "down"
  /\ {"syscfg_get", "popen"} \subseteq Faults
  /\ up' = "up"
  /\ UNCHANGED <<storeVars, flag, service, published, meshEnable, lastSet,
                 meshError, mutex, job, reset>>

(* meshSetSyscfg, first half: syscfg, set and then committed.  An initial  *)
(* value that came from syscfg is not stored again, except on an XB3.      *)
StoreStep(j) ==
  /\ job[j].pc = "store"
  /\ \/ /\ job[j].commit \/ XB3
        /\ SyscfgSet(j, job[j].want, "store", "commit", "flag")
     \/ ~(job[j].commit \/ XB3) /\ Stored(j, "flag") /\ UNCHANGED syscfg
  /\ UNCHANGED <<up, disk, flag, service, published, meshEnable, lastSet,
                 meshError, mutex, reset>>

(* Mutant of CommitStep: the value is set and never committed.             *)
CommitForgotten(j) ==
  /\ job[j].pc = "commit"
  /\ Stored(j, "flag")
  /\ UNCHANGED <<up, storeVars, flag, service, published, meshEnable, lastSet,
                 meshError, mutex, reset>>

CommitStep(j) ==
  /\ job[j].pc = "commit"
  /\ SyscfgCommit(j, "store", "flag")
  /\ UNCHANGED <<up, syscfg, flag, service, published, meshEnable, lastSet,
                 meshError, mutex, reset>>

(* meshSetSyscfg, second half: the flag file.  Then the handler's thread   *)
(* exists (or the handler is called).                                      *)
FlagStep(j) ==
  /\ job[j].pc = "flag"
  /\ SetFlag(job[j].want)
  /\ up' = IF job[j].by = "boot" THEN "up" ELSE up
  /\ job' = [job EXCEPT ![j] = Handed(job[j].by, job[j].want)]
  /\ UNCHANGED <<storeVars, service, published, meshEnable, lastSet,
                 meshError, mutex, reset>>

-----------------------------------------------------------------------------
(* handleMeshEnable.                                                       *)

Release(j) == mutex' = NoJob /\ job' = [job EXCEPT ![j] = Idle]

(* Mutant of Acquire: the handler goes on without waiting for the mutex.   *)
AcquireWithoutWaiting(j) ==
  /\ job[j].pc = "ready"
  /\ mutex' = j
  /\ Goto(j, "check")
  /\ UNCHANGED <<up, storeVars, flag, service, published, meshEnable,
                 lastSet, meshError, reset>>

Acquire(j) ==
  /\ job[j].pc = "ready"
  /\ mutex = NoJob
  /\ mutex' = j
  /\ Goto(j, "check")
  /\ UNCHANGED <<up, storeVars, flag, service, published, meshEnable,
                 lastSet, meshError, reset>>

(* The value last set: nothing to do.                                      *)
SkipRedundant(j) ==
  /\ job[j].pc = "check"
  /\ lastSet = job[j].want
  /\ meshError' = "ok"
  /\ Release(j)
  /\ UNCHANGED <<up, storeVars, flag, service, published, meshEnable,
                 lastSet, reset>>

(* A radio is down, the gateway is a bridge or band steering stays on.     *)
PrecheckFails(j) ==
  /\ job[j].pc = "check"
  /\ lastSet # job[j].want
  /\ job[j].want /\ "precheck" \in Faults
  /\ job' = [job EXCEPT ![j].pc = "undo_store", ![j].err = "precondition"]
  /\ UNCHANGED <<up, storeVars, flag, service, published, meshEnable,
                 lastSet, meshError, mutex, reset>>

PrecheckPasses(j) ==
  /\ job[j].pc = "check"
  /\ lastSet # job[j].want
  /\ Goto(j, "service")
  /\ UNCHANGED <<up, storeVars, flag, service, published, meshEnable,
                 lastSet, meshError, mutex, reset>>

(* systemctl is asked for the service's state and, when that is not the    *)
(* one wanted, to change it.  A state it cannot tell counts as the one     *)
(* wanted.                                                                 *)
SetService(j) ==
  /\ job[j].pc = "service"
  /\ \/ service' = job[j].want
     \/ "state" \in Faults /\ service' = service
  /\ Goto(j, "publish")
  /\ UNCHANGED <<up, storeVars, flag, published, meshEnable, lastSet,
                 meshError, mutex, reset>>

ServiceFails(j) ==
  /\ job[j].pc = "service"
  /\ service # job[j].want
  /\ (IF job[j].want THEN "start" ELSE "stop") \in Faults
  /\ job' = [job EXCEPT ![j].pc = "undo_store",
               ![j].err = IF job[j].want THEN "start_fail" ELSE "stop_fail"]
  /\ UNCHANGED <<up, storeVars, flag, service, published, meshEnable,
                 lastSet, meshError, mutex, reset>>

Publish(j) ==
  /\ job[j].pc = "publish"
  /\ meshEnable' = job[j].want
  /\ Goto(j, "announce")
  /\ UNCHANGED <<up, storeVars, flag, service, published, lastSet,
                 meshError, mutex, reset>>

Announce(j) ==
  /\ job[j].pc = "announce"
  /\ published' = job[j].want
  /\ Goto(j, "remember")
  /\ UNCHANGED <<up, storeVars, flag, service, meshEnable, lastSet,
                 meshError, mutex, reset>>

(* Mutant of Remember: last_set is left as it was.                         *)
RememberNothing(j) ==
  /\ job[j].pc = "remember"
  /\ Release(j)
  /\ UNCHANGED <<up, storeVars, flag, service, published, meshEnable, lastSet,
                 meshError, reset>>

Remember(j) ==
  /\ job[j].pc = "remember"
  /\ lastSet' = job[j].want
  /\ meshError' = IF job[j].by = "webconfig" THEN "ok" ELSE meshError
  /\ Release(j)
  /\ UNCHANGED <<up, storeVars, flag, service, published, meshEnable, reset>>

(* Mutant of UndoStore: a failed enabling leaves its wish in syscfg.       *)
UndoStoreForgotten(j) ==
  /\ job[j].pc = "undo_store"
  /\ Goto(j, "undo_flag")
  /\ UNCHANGED <<up, storeVars, flag, service, published, meshEnable, lastSet,
                 meshError, mutex, reset>>

(* meshSetSyscfg(0, true) on every failure, the flag followed by the       *)
(* unlock.  Only the service's failures reach the line that stores the *)
(* error for webconfig.                                                    *)
UndoStore(j) ==
  /\ job[j].pc = "undo_store"
  /\ SyscfgSet(j, FALSE, "undo_store", "undo_commit", "undo_flag")
  /\ UNCHANGED <<up, disk, flag, service, published, meshEnable, lastSet,
                 meshError, mutex, reset>>

UndoCommit(j) ==
  /\ job[j].pc = "undo_commit"
  /\ SyscfgCommit(j, "undo_store", "undo_flag")
  /\ UNCHANGED <<up, syscfg, flag, service, published, meshEnable, lastSet,
                 meshError, mutex, reset>>

(* Mutant of UndoFlag: the early return of a failed precondition keeps     *)
(* mesh_handler_mutex.                                                     *)
UndoFlagKeepsMutex(j) ==
  /\ job[j].pc = "undo_flag"
  /\ SetFlag(FALSE)
  /\ mutex' = IF job[j].err = "precondition" THEN mutex ELSE NoJob
  /\ job' = [job EXCEPT ![j] = Idle]
  /\ UNCHANGED <<up, storeVars, service, published, meshEnable, lastSet,
                 meshError, reset>>

UndoFlag(j) ==
  /\ job[j].pc = "undo_flag"
  /\ SetFlag(FALSE)
  /\ meshError' = IF job[j].by = "webconfig" /\ job[j].err # "precondition"
                    THEN job[j].err ELSE meshError
  /\ Release(j)
  /\ UNCHANGED <<up, storeVars, service, published, meshEnable, lastSet, reset>>

-----------------------------------------------------------------------------
(* The other threads that touch this state.                                *)

(* MeshAgent_Rollback, after the data model refused a set.                 *)
Rollback ==
  /\ MayAct("dml")
  /\ meshEnable' \in GetEnabled
  /\ UNCHANGED <<up, storeVars, flag, service, published, lastSet,
                 meshError, mutex, job, reset>>

(* Mutant of ResetArrives: the service is restarted although mesh is off.  *)
ResetArrivesAlways(v) ==
  /\ MayAct("sysevent")
  /\ reset' = v
  /\ UNCHANGED <<up, storeVars, flag, service, published, meshEnable,
                 lastSet, meshError, mutex, job>>

(* The sysevent thread gets a WIFI_RESET and reads meshEnable, unlocked.   *)
(* The radio is coming down at "start" and is back at "stop".              *)
ResetArrives(v) ==
  /\ MayAct("sysevent")
  /\ meshEnable
  /\ reset' = v
  /\ UNCHANGED <<up, storeVars, flag, service, published, meshEnable,
                 lastSet, meshError, mutex, job>>

(* Then it stops or starts the service and ignores whether that worked.    *)
ResetActs ==
  /\ reset # "none"
  /\ \/ service' = (reset = "stop")
     \/ reset = "start" /\ "stop" \in Faults /\ service' = service
     \/ reset = "stop" /\ "start" \in Faults /\ service' = service
  /\ reset' = "none"
  /\ UNCHANGED <<up, storeVars, flag, published, meshEnable, lastSet,
                 meshError, mutex, job>>

(* syscfg is one store for the whole device: another setter of the agent   *)
(* or another process commits it, with whatever it finds in it.            *)
OthersCommit ==
  /\ disk # syscfg
  /\ disk' = syscfg
  /\ UNCHANGED <<up, syscfg, flag, service, published, meshEnable, lastSet,
                 meshError, mutex, job, reset>>

(* The process dies; systemd starts it again (Boot).                       *)
ProcessGone ==
  /\ up' = "down"
  /\ meshEnable' = FALSE /\ lastSet' = FALSE /\ meshError' = "ok"
  /\ mutex' = NoJob /\ job' = [j \in Jobs |-> Idle] /\ reset' = "none"

Crash ==
  /\ "crash" \in Faults
  /\ up # "down"
  /\ ProcessGone
  /\ UNCHANGED <<storeVars, flag, service, published>>

(* The device restarts: what was not committed is lost.                    *)
Reboot ==
  /\ "crash" \in Faults
  /\ ProcessGone
  /\ syscfg' = disk
  /\ service' = FALSE /\ published' = FALSE
  /\ UNCHANGED <<disk, flag>>

-----------------------------------------------------------------------------
Calls(j) == StoreStep(j) \/ CommitStep(j) \/ FlagStep(j)

Handles(j) ==
  \/ Acquire(j) \/ SkipRedundant(j) \/ PrecheckFails(j) \/ PrecheckPasses(j)
  \/ SetService(j) \/ ServiceFails(j) \/ Publish(j) \/ Announce(j)
  \/ Remember(j) \/ UndoStore(j) \/ UndoCommit(j) \/ UndoFlag(j)

Next ==
  \/ \E j \in Jobs : Boot(j)
  \/ BootSkips
  \/ \E j \in Jobs, c \in Callers, v \in BOOLEAN : Request(j, c, v)
  \/ \E j \in Jobs : Calls(j)
  \/ \E j \in Jobs : Handles(j)
  \/ Rollback
  \/ \E v \in {"start", "stop"} : ResetArrives(v)
  \/ ResetActs
  \/ OthersCommit
  \/ Crash
  \/ Reboot

Spec == Init /\ [][Next]_vars

(* A thread that can run does run.  Nothing is assumed of who gets the     *)
(* mutex, nor that requests ever come.                                     *)
FairSpec ==
  /\ Spec
  /\ \A j \in Jobs : WF_vars(Calls(j)) /\ WF_vars(Handles(j))
  /\ WF_vars(ResetActs)
  /\ WF_vars(\E j \in Jobs : Boot(j))

-----------------------------------------------------------------------------
(* With the mutex free and mesh on for the handler (last_set), the rest of *)
(* the system has been told so: two handlers never interleave their        *)
(* announcement (Mesh_SyseventSetStr) and their bookkeeping (last_set).    *)
LastSetPublished == mutex = NoJob /\ lastSet => published

(* Every path through handleMeshEnable, the early returns of a failed      *)
(* precondition included, gives mesh_handler_mutex back.                   *)
MutexReleased == (mutex # NoJob) ~> (mutex = NoJob)

(* When nothing is in flight, what is stored (syscfg, and the recovery     *)
(* flag of /nvram) is what handleMeshEnable last made happen: a crash      *)
(* between the stores, the service and last_set is repaired by the next    *)
(* boot, and a failed enabling takes its wish back.                        *)
Agreement == Quiescent => syscfg = lastSet /\ flag = syscfg

(* Only an enabling handler, or a WIFI_RESET while mesh is on, starts the  *)
(* meshwifi service (svcagt_set_service_state).                            *)
NoStartWhileDisabled ==
  [][~service /\ service' => \/ lastSet
                             \/ \E j \in Jobs : mutex = j /\ job[j].want]_vars

(* As long as the agent stays up, the stored wish and the state of mesh    *)
(* agree again and again: no request is left half done for ever.           *)
Converges == <>[](up = "up") => []<>(syscfg = lastSet)

(* The working copy is not what is committed, and no call is about to      *)
(* commit it: a crash came between syscfg_set and syscfg_commit.           *)
Torn == /\ syscfg # disk
        /\ \A j \in Jobs : job[j].pc \notin {"commit", "undo_commit"}

(* Asked for one thing at a time, the stores, the handler, the crashes and *)
(* the reboots, between the set and the commit of a value too, together    *)
(* behave like a switch that follows a wish once the wish is kept.         *)
Switch == INSTANCE MeshSwitch WITH wish <- syscfg, kept <- disk,
                                   torn <- Torn, on <- lastSet
ImplementsSwitch == Switch!Spec

(* "If the service is running, stop it": with mesh off and nothing in      *)
(* flight, handleMeshEnable has left no meshwifi service running.          *)
ServiceOffWhenDisabled == Quiescent /\ ~meshEnable => ~service
=============================================================================
