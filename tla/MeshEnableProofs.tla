-------------------------- MODULE MeshEnableProofs --------------------------
(***************************************************************************)
(* Proofs about MeshEnable, for every set of jobs and every environment.   *)
(***************************************************************************)
EXTENDS MeshEnable, TLAPS

USE EnableAssumption

-----------------------------------------------------------------------------
(* The records of the jobs.                                                *)

LEMMA NewJob ==
  ASSUME NEW c \in Callers \cup {"thread"}, NEW w \in BOOLEAN, NEW k \in BOOLEAN,
         NEW p \in Pcs
  PROVE  [Asked(c, w, k) EXCEPT !.pc = p] \in JobState
BY DEF Asked, JobState, Pcs, Calling, Errors

LEMMA AskedIsJob ==
  ASSUME NEW c \in Callers, NEW w \in BOOLEAN, NEW k \in BOOLEAN
  PROVE  Asked(c, w, k) \in JobState
BY DEF Asked, JobState, Pcs, Calling, Errors

LEMMA HandedIsJob ==
  ASSUME NEW c \in Callers \cup {"thread"}, NEW w \in BOOLEAN
  PROVE  Handed(c, w) \in JobState
BY NewJob DEF Handed, Pcs, Callers

LEMMA IdleIsJob == Idle \in JobState
BY NewJob DEF Idle, Pcs

LEMMA GotoIsJob ==
  ASSUME TypeOK, NEW j \in Jobs, NEW p \in Pcs, Goto(j, p)
  PROVE  job' \in [Jobs -> JobState]
BY DEF TypeOK, Goto, JobState

LEMMA FailIsJob ==
  ASSUME TypeOK, NEW j \in Jobs, NEW e \in Errors,
         job' = [job EXCEPT ![j].pc = "undo_store", ![j].err = e]
  PROVE  job' \in [Jobs -> JobState]
<1>1. "undo_store" \in Pcs
  BY DEF Pcs, Locked
<1>2. [job[j] EXCEPT !.pc = "undo_store", !.err = e] \in JobState
  BY <1>1 DEF TypeOK, JobState
<1>3. QED
  BY <1>2 DEF TypeOK

LEMMA StoredIsJob ==
  ASSUME TypeOK, NEW j \in Jobs, NEW p \in Pcs, Stored(j, p)
  PROVE  job' \in [Jobs -> JobState]
<1>1. 0 \in 0..Retries
  BY EnableAssumption
<1>2. job[j] \in JobState
  BY DEF TypeOK
<1>3. [job[j] EXCEPT !.tries = 0] \in JobState
  BY <1>1, <1>2 DEF JobState
<1>4. [job[j] EXCEPT !.pc = p, !.tries = 0] \in JobState
  BY <1>2, <1>3 DEF JobState
<1>5. QED
  BY <1>4 DEF TypeOK, Stored

LEMMA AgainIsJob ==
  ASSUME TypeOK, NEW j \in Jobs, NEW p \in Pcs, NEW q \in Pcs, Again(j, p, q)
  PROVE  job' \in [Jobs -> JobState]
BY StoredIsJob DEF TypeOK, Again, JobState

LEMMA SyscfgSetIsJob ==
  ASSUME TypeOK, NEW j \in Jobs, NEW v \in BOOLEAN,
         NEW p \in Pcs, NEW q \in Pcs, NEW r \in Pcs, SyscfgSet(j, v, p, q, r)
  PROVE  job' \in [Jobs -> JobState] /\ syscfg' \in BOOLEAN
BY GotoIsJob, AgainIsJob DEF TypeOK, SyscfgSet

LEMMA SyscfgCommitIsJob ==
  ASSUME TypeOK, NEW j \in Jobs, NEW p \in Pcs, NEW r \in Pcs,
         SyscfgCommit(j, p, r)
  PROVE  job' \in [Jobs -> JobState] /\ disk' \in BOOLEAN
BY StoredIsJob, AgainIsJob DEF TypeOK, SyscfgCommit

LEMMA ReleaseIsJob ==
  ASSUME TypeOK, NEW j \in Jobs, Release(j)
  PROVE  job' \in [Jobs -> JobState]
BY IdleIsJob DEF TypeOK, Release

-----------------------------------------------------------------------------
(* Every variable keeps its type: no step of handleMeshEnable, of its      *)
(* callers or of the threads around it leaves the values the code uses.    *)
THEOREM TypeCorrect == Spec => []TypeOK
<1>1. Init => TypeOK
  BY IdleIsJob DEF Init, TypeOK, Errors
<1>2. TypeOK /\ [Next]_vars => TypeOK'
  <2> SUFFICES ASSUME TypeOK, [Next]_vars
               PROVE  TypeOK'
    OBVIOUS
  <2>1. ASSUME NEW j \in Jobs, Boot(j)
        PROVE  TypeOK'
    <3>1. job' \in [Jobs -> JobState]
      BY <2>1, AskedIsJob DEF TypeOK, Boot, Callers
    <3>2. QED
      BY <2>1, <3>1 DEF TypeOK, Boot, storeVars
  <2>2. ASSUME NEW j \in Jobs, NEW c \in Callers, NEW v \in BOOLEAN,
              Request(j, c, v)
        PROVE  TypeOK'
    <3>1. job' \in [Jobs -> JobState]
      BY <2>2, AskedIsJob DEF TypeOK, Request
    <3>2. QED
      BY <2>2, <3>1 DEF TypeOK, Request, storeVars
  <2>3. ASSUME NEW j \in Jobs, StoreStep(j)
        PROVE  TypeOK'
    <3>1. /\ {"store", "commit", "flag"} \subseteq Pcs
          /\ job[j].want \in BOOLEAN
      BY DEF TypeOK, JobState, Pcs, Calling
    <3>2. job' \in [Jobs -> JobState] /\ syscfg' \in BOOLEAN
      BY <2>3, <3>1, SyscfgSetIsJob, StoredIsJob DEF TypeOK, StoreStep
    <3>3. QED
      BY <2>3, <3>2 DEF TypeOK, StoreStep
  <2>23. ASSUME NEW j \in Jobs, CommitStep(j)
        PROVE  TypeOK'
    <3>1. {"store", "flag"} \subseteq Pcs
      BY DEF Pcs, Calling
    <3>2. job' \in [Jobs -> JobState] /\ disk' \in BOOLEAN
      BY <2>23, <3>1, SyscfgCommitIsJob DEF CommitStep
    <3>3. QED
      BY <2>23, <3>2 DEF TypeOK, CommitStep
  <2>4. ASSUME NEW j \in Jobs, FlagStep(j)
        PROVE  TypeOK'
    <3>1. Handed(job[j].by, job[j].want) \in JobState /\ job[j].want \in BOOLEAN
      BY HandedIsJob DEF TypeOK, JobState
    <3>2. job' \in [Jobs -> JobState]
      BY <2>4, <3>1 DEF TypeOK, FlagStep
    <3>3. QED
      BY <2>4, <3>1, <3>2 DEF TypeOK, FlagStep, SetFlag, storeVars
  <2>5. ASSUME NEW j \in Jobs, Acquire(j)
        PROVE  TypeOK'
    <3>1. job' \in [Jobs -> JobState]
      BY <2>5, GotoIsJob DEF Acquire, Pcs, Locked, Calling
    <3>2. QED
      BY <2>5, <3>1 DEF TypeOK, Acquire, storeVars
  <2>6. ASSUME NEW j \in Jobs, SkipRedundant(j)
        PROVE  TypeOK'
    <3>1. job' \in [Jobs -> JobState]
      BY <2>6, ReleaseIsJob DEF SkipRedundant
    <3>2. QED
      BY <2>6, <3>1 DEF TypeOK, SkipRedundant, Release, storeVars, JobState, Errors
  <2>7. ASSUME NEW j \in Jobs, PrecheckFails(j)
        PROVE  TypeOK'
    <3>1. job' \in [Jobs -> JobState]
      BY <2>7, FailIsJob DEF PrecheckFails, Errors
    <3>2. QED
      BY <2>7, <3>1 DEF TypeOK, PrecheckFails, storeVars
  <2>8. ASSUME NEW j \in Jobs, PrecheckPasses(j)
        PROVE  TypeOK'
    <3>1. job' \in [Jobs -> JobState]
      BY <2>8, GotoIsJob DEF PrecheckPasses, Pcs, Locked, Calling
    <3>2. QED
      BY <2>8, <3>1 DEF TypeOK, PrecheckPasses, storeVars
  <2>9. ASSUME NEW j \in Jobs, SetService(j)
        PROVE  TypeOK'
    <3>1. job' \in [Jobs -> JobState]
      BY <2>9, GotoIsJob DEF SetService, Pcs, Locked, Calling
    <3>2. QED
      BY <2>9, <3>1 DEF TypeOK, SetService, storeVars, JobState
  <2>10. ASSUME NEW j \in Jobs, ServiceFails(j)
        PROVE  TypeOK'
    <3>1. job' \in [Jobs -> JobState]
      BY <2>10, FailIsJob DEF ServiceFails, Errors
    <3>2. QED
      BY <2>10, <3>1 DEF TypeOK, ServiceFails, storeVars
  <2>11. ASSUME NEW j \in Jobs, Publish(j)
        PROVE  TypeOK'
    <3>1. job' \in [Jobs -> JobState]
      BY <2>11, GotoIsJob DEF Publish, Pcs, Locked, Calling
    <3>2. QED
      BY <2>11, <3>1 DEF TypeOK, Publish, storeVars, JobState
  <2>12. ASSUME NEW j \in Jobs, Announce(j)
        PROVE  TypeOK'
    <3>1. job' \in [Jobs -> JobState]
      BY <2>12, GotoIsJob DEF Announce, Pcs, Locked, Calling
    <3>2. QED
      BY <2>12, <3>1 DEF TypeOK, Announce, storeVars, JobState
  <2>13. ASSUME NEW j \in Jobs, Remember(j)
        PROVE  TypeOK'
    <3>1. job' \in [Jobs -> JobState]
      BY <2>13, ReleaseIsJob DEF Remember
    <3>2. QED
      BY <2>13, <3>1 DEF TypeOK, Remember, Release, storeVars, JobState, Errors
  <2>14. ASSUME NEW j \in Jobs, UndoStore(j)
        PROVE  TypeOK'
    <3>1. {"undo_store", "undo_commit", "undo_flag"} \subseteq Pcs
      BY DEF Pcs, Locked
    <3>2. job' \in [Jobs -> JobState] /\ syscfg' \in BOOLEAN
      BY <2>14, <3>1, SyscfgSetIsJob DEF UndoStore
    <3>3. QED
      BY <2>14, <3>2 DEF TypeOK, UndoStore
  <2>24. ASSUME NEW j \in Jobs, UndoCommit(j)
        PROVE  TypeOK'
    <3>1. {"undo_store", "undo_flag"} \subseteq Pcs
      BY DEF Pcs, Locked
    <3>2. job' \in [Jobs -> JobState] /\ disk' \in BOOLEAN
      BY <2>24, <3>1, SyscfgCommitIsJob DEF UndoCommit
    <3>3. QED
      BY <2>24, <3>2 DEF TypeOK, UndoCommit
  <2>15. ASSUME NEW j \in Jobs, UndoFlag(j)
        PROVE  TypeOK'
    <3>1. job' \in [Jobs -> JobState]
      BY <2>15, ReleaseIsJob DEF UndoFlag
    <3>2. QED
      BY <2>15, <3>1 DEF TypeOK, UndoFlag, SetFlag, Release, storeVars, JobState, Errors
  <2>16. CASE Rollback
    BY <2>16 DEF TypeOK, Rollback, GetEnabled, storeVars
  <2>17. ASSUME NEW v \in {"start", "stop"}, ResetArrives(v)
        PROVE  TypeOK'
    BY <2>17 DEF TypeOK, ResetArrives, storeVars
  <2>18. CASE ResetActs
    BY <2>18 DEF TypeOK, ResetActs, storeVars
  <2>19. CASE Crash
    <3>1. job' \in [Jobs -> JobState]
      BY <2>19, IdleIsJob DEF Crash, ProcessGone
    <3>2. QED
      BY <2>19, <3>1 DEF TypeOK, Crash, ProcessGone, storeVars, Errors
  <2>20. CASE Reboot
    <3>1. job' \in [Jobs -> JobState]
      BY <2>20, IdleIsJob DEF Reboot, ProcessGone
    <3>2. QED
      BY <2>20, <3>1 DEF TypeOK, Reboot, ProcessGone, storeVars, Errors
  <2>21. CASE UNCHANGED vars
    BY <2>21 DEF TypeOK, vars, storeVars
  <2>25. CASE BootSkips
    BY <2>25 DEF TypeOK, BootSkips, storeVars
  <2>26. CASE OthersCommit
    BY <2>26 DEF TypeOK, OthersCommit
  <2>22. QED
    BY <2>1, <2>2, <2>3, <2>4, <2>5, <2>6, <2>7, <2>8, <2>9, <2>10, <2>11,
       <2>12, <2>13, <2>14, <2>15, <2>16, <2>17, <2>18, <2>19, <2>20, <2>21,
       <2>23, <2>24, <2>25, <2>26
       DEF Next, Calls, Handles
<1>3. QED
  BY <1>1, <1>2, PTL DEF Spec

-----------------------------------------------------------------------------
(* What the mutex protects.  A handler is between lock and unlock exactly  *)
(* when it holds mesh_handler_mutex; and a published value that last_set   *)
(* does not have yet is the work of the handler about to set it.           *)

MutexInv == \A j \in Jobs : job[j].pc \in Locked <=> mutex = j

AnnounceInv ==
  /\ \A j \in Jobs : job[j].pc = "remember" => published = job[j].want
  /\ lastSet /\ ~published => \E j \in Jobs : job[j].pc = "remember"

-----------------------------------------------------------------------------
(* The environments in which the stores and the handler agree in the end:  *)
(* requests come one at a time, syscfg and the file system take what they  *)
(* are given, syscfg.db can be opened and the service stops when told to.  *)

Repairable == /\ Serial
              /\ {"syscfg_set", "syscfg_commit", "flag", "popen", "stop"} \cap Faults = {}

AllIdle == \A j \in Jobs : job[j].pc = "idle"

OneAtATime ==
  /\ \A j, k \in Jobs : job[j].pc # "idle" /\ job[k].pc # "idle" => j = k
  /\ reset # "none" => AllIdle /\ up = "up"
  /\ up = "down" => AllIdle /\ ~lastSet
  /\ up = "boot" => ~AllIdle

(* How far a request has got says which stores have its value.             *)
Stage(j) ==
  /\ job[j].pc \in Calling =>
       IF job[j].by = "boot" THEN up = "boot" /\ ~lastSet ELSE up = "up"
  /\ job[j].pc = "store" =>
       IF job[j].by = "boot" THEN job[j].commit \/ job[j].want = syscfg
                             ELSE /\ job[j].commit
                                  /\ syscfg = lastSet /\ flag = lastSet
  /\ job[j].pc \notin Calling \cup {"idle"} => up = "up"
  /\ job[j].pc \in {"commit", "flag", "ready", "check"} => syscfg = job[j].want
  /\ job[j].pc \in {"ready", "check"} => flag = job[j].want
  /\ job[j].pc \in {"service", "publish", "announce", "remember"} =>
       syscfg = job[j].want /\ flag = job[j].want /\ lastSet = ~job[j].want
  /\ job[j].pc = "undo_store" => syscfg /\ ~lastSet
  /\ job[j].pc \in {"undo_commit", "undo_flag"} => ~syscfg /\ ~lastSet

SerialInv ==
  /\ OneAtATime
  /\ \A j \in Jobs : Stage(j)
  /\ up = "up" /\ AllIdle => syscfg = lastSet /\ flag = lastSet

(* What a WIFI_RESET, which reads meshEnable without the mutex, relies on. *)
ResetInv ==
  /\ meshEnable =>
       lastSet \/ \E j \in Jobs : job[j].pc \in {"announce", "remember"} /\ job[j].want
  /\ \A j \in Jobs :
       job[j].pc \in {"announce", "remember"} => meshEnable = job[j].want
  /\ reset # "none" => AllIdle /\ lastSet

(* The mutex works, whoever waits for it.                                  *)
LEMMA MutexStep ==
  TypeOK /\ MutexInv /\ [Next]_vars => MutexInv'
<1> SUFFICES ASSUME TypeOK /\ MutexInv, [Next]_vars
             PROVE  MutexInv'
  OBVIOUS
<1> USE DEF TypeOK, JobState, Calling, Locked, MutexInv
<1>1. ASSUME NEW j \in Jobs, Boot(j)
      PROVE  MutexInv'
  BY <1>1 DEF Boot, Asked
<1>2. ASSUME NEW j \in Jobs, NEW c \in Callers, NEW v \in BOOLEAN,
            Request(j, c, v)
      PROVE  MutexInv'
  BY <1>2 DEF Request, Asked
<1>3. ASSUME NEW j \in Jobs, StoreStep(j)
      PROVE  MutexInv'
  BY <1>3 DEF StoreStep, Goto, SyscfgSet, Again, Stored
<1>23. ASSUME NEW j \in Jobs, CommitStep(j)
      PROVE  MutexInv'
  BY <1>23 DEF CommitStep, SyscfgCommit, Again, Stored
<1>4. ASSUME NEW j \in Jobs, FlagStep(j)
      PROVE  MutexInv'
  BY <1>4 DEF FlagStep, Handed, Asked, SetFlag
<1>5. ASSUME NEW j \in Jobs, Acquire(j)
      PROVE  MutexInv'
  BY <1>5 DEF Acquire, Goto
<1>6. ASSUME NEW j \in Jobs, SkipRedundant(j)
      PROVE  MutexInv'
  BY <1>6 DEF SkipRedundant, Release, Idle, Asked
<1>7. ASSUME NEW j \in Jobs, PrecheckFails(j)
      PROVE  MutexInv'
  BY <1>7 DEF PrecheckFails
<1>8. ASSUME NEW j \in Jobs, PrecheckPasses(j)
      PROVE  MutexInv'
  BY <1>8 DEF PrecheckPasses, Goto
<1>9. ASSUME NEW j \in Jobs, SetService(j)
      PROVE  MutexInv'
  BY <1>9 DEF SetService, Goto
<1>10. ASSUME NEW j \in Jobs, ServiceFails(j)
      PROVE  MutexInv'
  BY <1>10 DEF ServiceFails
<1>11. ASSUME NEW j \in Jobs, Publish(j)
      PROVE  MutexInv'
  BY <1>11 DEF Publish, Goto
<1>12. ASSUME NEW j \in Jobs, Announce(j)
      PROVE  MutexInv'
  BY <1>12 DEF Announce, Goto
<1>13. ASSUME NEW j \in Jobs, Remember(j)
      PROVE  MutexInv'
  BY <1>13 DEF Remember, Release, Idle, Asked
<1>14. ASSUME NEW j \in Jobs, UndoStore(j)
      PROVE  MutexInv'
  BY <1>14 DEF UndoStore, Goto, SyscfgSet, Again, Stored
<1>24. ASSUME NEW j \in Jobs, UndoCommit(j)
      PROVE  MutexInv'
  BY <1>24 DEF UndoCommit, SyscfgCommit, Again, Stored
<1>15. ASSUME NEW j \in Jobs, UndoFlag(j)
      PROVE  MutexInv'
  BY <1>15 DEF UndoFlag, SetFlag, Release, Idle, Asked
<1>16. CASE Rollback
  BY <1>16 DEF Rollback
<1>17. ASSUME NEW v \in {"start", "stop"}, ResetArrives(v)
      PROVE  MutexInv'
  BY <1>17 DEF ResetArrives
<1>18. CASE ResetActs
  BY <1>18 DEF ResetActs
<1>19. CASE Crash
  BY <1>19 DEF Crash, ProcessGone, Idle, Asked
<1>20. CASE Reboot
  BY <1>20 DEF Reboot, ProcessGone, Idle, Asked
<1>21. CASE UNCHANGED vars
  BY <1>21 DEF vars
<1>25. CASE BootSkips
  BY <1>25 DEF BootSkips
<1>26. CASE OthersCommit
  BY <1>26 DEF OthersCommit
<1> HIDE DEF MutexInv, TypeOK
<1>22. QED
  BY <1>1, <1>2, <1>3, <1>4, <1>5, <1>6, <1>7, <1>8, <1>9, <1>10, <1>11,
     <1>12, <1>13, <1>14, <1>15, <1>16, <1>17, <1>18, <1>19, <1>20, <1>21,
     <1>23, <1>24, <1>25, <1>26
     DEF Next, Calls, Handles

LEMMA AnnounceStep ==
  TypeOK /\ MutexInv /\ AnnounceInv /\ [Next]_vars => AnnounceInv'
<1> SUFFICES ASSUME TypeOK /\ MutexInv /\ AnnounceInv, [Next]_vars
             PROVE  AnnounceInv'
  OBVIOUS
<1> USE DEF TypeOK, JobState, Calling, Locked, MutexInv, AnnounceInv
<1>1. ASSUME NEW j \in Jobs, Boot(j)
      PROVE  AnnounceInv'
  BY <1>1 DEF Boot, Asked
<1>2. ASSUME NEW j \in Jobs, NEW c \in Callers, NEW v \in BOOLEAN,
            Request(j, c, v)
      PROVE  AnnounceInv'
  BY <1>2 DEF Request, Asked
<1>3. ASSUME NEW j \in Jobs, StoreStep(j)
      PROVE  AnnounceInv'
  BY <1>3 DEF StoreStep, Goto, SyscfgSet, Again, Stored
<1>23. ASSUME NEW j \in Jobs, CommitStep(j)
      PROVE  AnnounceInv'
  BY <1>23 DEF CommitStep, SyscfgCommit, Again, Stored
<1>4. ASSUME NEW j \in Jobs, FlagStep(j)
      PROVE  AnnounceInv'
  BY <1>4 DEF FlagStep, Handed, Asked, SetFlag
<1>5. ASSUME NEW j \in Jobs, Acquire(j)
      PROVE  AnnounceInv'
  BY <1>5 DEF Acquire, Goto
<1>6. ASSUME NEW j \in Jobs, SkipRedundant(j)
      PROVE  AnnounceInv'
  BY <1>6 DEF SkipRedundant, Release, Idle, Asked
<1>7. ASSUME NEW j \in Jobs, PrecheckFails(j)
      PROVE  AnnounceInv'
  BY <1>7 DEF PrecheckFails
<1>8. ASSUME NEW j \in Jobs, PrecheckPasses(j)
      PROVE  AnnounceInv'
  BY <1>8 DEF PrecheckPasses, Goto
<1>9. ASSUME NEW j \in Jobs, SetService(j)
      PROVE  AnnounceInv'
  BY <1>9 DEF SetService, Goto
<1>10. ASSUME NEW j \in Jobs, ServiceFails(j)
      PROVE  AnnounceInv'
  BY <1>10 DEF ServiceFails
<1>11. ASSUME NEW j \in Jobs, Publish(j)
      PROVE  AnnounceInv'
  BY <1>11 DEF Publish, Goto
<1>12. ASSUME NEW j \in Jobs, Announce(j)
      PROVE  AnnounceInv'
  BY <1>12 DEF Announce, Goto
<1>13. ASSUME NEW j \in Jobs, Remember(j)
      PROVE  AnnounceInv'
  BY <1>13 DEF Remember, Release, Idle, Asked
<1>14. ASSUME NEW j \in Jobs, UndoStore(j)
      PROVE  AnnounceInv'
  BY <1>14 DEF UndoStore, Goto, SyscfgSet, Again, Stored
<1>24. ASSUME NEW j \in Jobs, UndoCommit(j)
      PROVE  AnnounceInv'
  BY <1>24 DEF UndoCommit, SyscfgCommit, Again, Stored
<1>15. ASSUME NEW j \in Jobs, UndoFlag(j)
      PROVE  AnnounceInv'
  BY <1>15 DEF UndoFlag, SetFlag, Release, Idle, Asked
<1>16. CASE Rollback
  BY <1>16 DEF Rollback
<1>17. ASSUME NEW v \in {"start", "stop"}, ResetArrives(v)
      PROVE  AnnounceInv'
  BY <1>17 DEF ResetArrives
<1>18. CASE ResetActs
  BY <1>18 DEF ResetActs
<1>19. CASE Crash
  BY <1>19 DEF Crash, ProcessGone, Idle, Asked
<1>20. CASE Reboot
  BY <1>20 DEF Reboot, ProcessGone, Idle, Asked
<1>21. CASE UNCHANGED vars
  BY <1>21 DEF vars
<1>25. CASE BootSkips
  BY <1>25 DEF BootSkips
<1>26. CASE OthersCommit
  BY <1>26 DEF OthersCommit
<1> HIDE DEF AnnounceInv, MutexInv, TypeOK
<1>22. QED
  BY <1>1, <1>2, <1>3, <1>4, <1>5, <1>6, <1>7, <1>8, <1>9, <1>10, <1>11,
     <1>12, <1>13, <1>14, <1>15, <1>16, <1>17, <1>18, <1>19, <1>20, <1>21,
     <1>23, <1>24, <1>25, <1>26
     DEF Next, Calls, Handles

(* What handleMeshEnable remembers in last_set has been announced through  *)
(* sysevent whenever the mutex is free: for any number of threads and in   *)
(* every environment, crashes included.                                    *)
THEOREM LastSetIsPublished == Spec => []LastSetPublished
<1>1. Init => MutexInv /\ AnnounceInv
  BY DEF Init, MutexInv, AnnounceInv, Idle, Asked, Locked
<1>2. TypeOK /\ MutexInv /\ AnnounceInv => LastSetPublished
  BY DEF TypeOK, MutexInv, AnnounceInv, LastSetPublished, Locked
<1>3. QED
  BY <1>1, <1>2, TypeCorrect, MutexStep, AnnounceStep, PTL DEF Spec
-----------------------------------------------------------------------------
(* The stores follow the handler.                                          *)
LEMMA SerialStep ==
  Repairable /\ TypeOK /\ SerialInv /\ [Next]_vars => SerialInv'
<1> SUFFICES ASSUME Repairable /\ TypeOK /\ SerialInv, [Next]_vars
             PROVE  SerialInv'
  OBVIOUS
<1> USE DEF TypeOK, JobState, Calling, Locked, Repairable, SerialInv, OneAtATime, AllIdle, Stage
<1>1. ASSUME NEW j \in Jobs, Boot(j)
      PROVE  SerialInv'
  BY <1>1 DEF Boot, Asked, storeVars, BootValue
<1>2. ASSUME NEW j \in Jobs, NEW c \in Callers, NEW v \in BOOLEAN,
            Request(j, c, v)
      PROVE  SerialInv'
  BY <1>2 DEF Request, Asked, storeVars, MayAct, Quiescent
<1>3. ASSUME NEW j \in Jobs, StoreStep(j)
      PROVE  SerialInv'
  BY <1>3 DEF StoreStep, Goto, SyscfgSet, Again, Stored, storeVars
<1>23. ASSUME NEW j \in Jobs, CommitStep(j)
      PROVE  SerialInv'
  BY <1>23 DEF CommitStep, SyscfgCommit, Again, Stored, storeVars
<1>4. ASSUME NEW j \in Jobs, FlagStep(j)
      PROVE  SerialInv'
  BY <1>4 DEF FlagStep, Handed, Asked, SetFlag, storeVars
<1>5. ASSUME NEW j \in Jobs, Acquire(j)
      PROVE  SerialInv'
  BY <1>5 DEF Acquire, Goto, storeVars
<1>6. ASSUME NEW j \in Jobs, SkipRedundant(j)
      PROVE  SerialInv'
  BY <1>6 DEF SkipRedundant, Release, Idle, Asked, storeVars
<1>7. ASSUME NEW j \in Jobs, PrecheckFails(j)
      PROVE  SerialInv'
  BY <1>7 DEF PrecheckFails, storeVars
<1>8. ASSUME NEW j \in Jobs, PrecheckPasses(j)
      PROVE  SerialInv'
  BY <1>8 DEF PrecheckPasses, Goto, storeVars
<1>9. ASSUME NEW j \in Jobs, SetService(j)
      PROVE  SerialInv'
  BY <1>9 DEF SetService, Goto, storeVars
<1>10. ASSUME NEW j \in Jobs, ServiceFails(j)
      PROVE  SerialInv'
  BY <1>10 DEF ServiceFails, storeVars
<1>11. ASSUME NEW j \in Jobs, Publish(j)
      PROVE  SerialInv'
  BY <1>11 DEF Publish, Goto, storeVars
<1>12. ASSUME NEW j \in Jobs, Announce(j)
      PROVE  SerialInv'
  BY <1>12 DEF Announce, Goto, storeVars
<1>13. ASSUME NEW j \in Jobs, Remember(j)
      PROVE  SerialInv'
  BY <1>13 DEF Remember, Release, Idle, Asked, storeVars
<1>14. ASSUME NEW j \in Jobs, UndoStore(j)
      PROVE  SerialInv'
  BY <1>14 DEF UndoStore, Goto, SyscfgSet, Again, Stored, storeVars
<1>24. ASSUME NEW j \in Jobs, UndoCommit(j)
      PROVE  SerialInv'
  BY <1>24 DEF UndoCommit, SyscfgCommit, Again, Stored, storeVars
<1>15. ASSUME NEW j \in Jobs, UndoFlag(j)
      PROVE  SerialInv'
  BY <1>15 DEF UndoFlag, SetFlag, Release, Idle, Asked, storeVars
<1>16. CASE Rollback
  BY <1>16 DEF Rollback, storeVars, MayAct, Quiescent
<1>17. ASSUME NEW v \in {"start", "stop"}, ResetArrives(v)
      PROVE  SerialInv'
  BY <1>17 DEF ResetArrives, storeVars, MayAct, Quiescent
<1>18. CASE ResetActs
  BY <1>18 DEF ResetActs, storeVars
<1>19. CASE Crash
  BY <1>19 DEF Crash, ProcessGone, Idle, Asked, storeVars
<1>20. CASE Reboot
  BY <1>20 DEF Reboot, ProcessGone, Idle, Asked, storeVars
<1>21. CASE UNCHANGED vars
  BY <1>21 DEF vars, storeVars
<1>25. CASE BootSkips
  BY <1>25 DEF BootSkips, storeVars
<1>26. CASE OthersCommit
  BY <1>26 DEF OthersCommit, storeVars
<1> HIDE DEF SerialInv, OneAtATime, AllIdle, Stage, Repairable, TypeOK
<1>22. QED
  BY <1>1, <1>2, <1>3, <1>4, <1>5, <1>6, <1>7, <1>8, <1>9, <1>10, <1>11,
     <1>12, <1>13, <1>14, <1>15, <1>16, <1>17, <1>18, <1>19, <1>20, <1>21,
     <1>23, <1>24, <1>25, <1>26
     DEF Next, Calls, Handles

(* Asked for one thing at a time, and with stores and a service that can   *)
(* be told what to do, mesh ends up as stored (Agreement): after any       *)
(* number of requests, failed enablings, WIFI_RESETs, crashes and reboots. *)
THEOREM AgreementWhenSerial ==
  ASSUME Repairable
  PROVE  Spec => []Agreement
<1>1. Init => SerialInv
  BY DEF Init, SerialInv, OneAtATime, AllIdle, Stage, Idle, Asked, Calling
<1>2. TypeOK /\ SerialInv /\ [Next]_vars => SerialInv'
  BY SerialStep
<1>3. SerialInv => Agreement
  BY DEF SerialInv, Agreement, Quiescent, AllIdle
<1>4. QED
  BY <1>1, <1>2, <1>3, TypeCorrect, PTL DEF Spec

(* Under the same assumptions the stores, the handler and the crashes      *)
(* implement the switch of MeshSwitch, with the working copy of syscfg as  *)
(* the wish, the committed one as what is kept and last_set as what is on: *)
(* every step is one of the switch or none.  A crash or a reboot may come  *)
(* between syscfg_set and syscfg_commit.                                   *)
THEOREM SerialImplementsSwitch ==
  ASSUME Repairable
  PROVE  Spec => ImplementsSwitch
<1>1. Init => SerialInv
  BY DEF Init, SerialInv, OneAtATime, AllIdle, Stage, Idle, Asked, Calling
<1>2. TypeOK /\ SerialInv /\ [Next]_vars => SerialInv'
  BY SerialStep
<1>3. Init => Switch!Init
  BY DEF Init, Switch!Init, Torn, Idle, Asked
<1>4. TypeOK /\ SerialInv /\ [Next]_vars => [Switch!Next]_Switch!vars
  <2> SUFFICES ASSUME TypeOK /\ SerialInv, [Next]_vars
               PROVE  [Switch!Next]_Switch!vars
    OBVIOUS
  <2> USE DEF TypeOK, JobState, Calling, Locked, Repairable, SerialInv, OneAtATime, AllIdle, Stage,
           Switch!Next, Switch!Ask, Switch!Keep, Switch!KeepLater, Switch!Obey,
           Switch!Withdraw, Switch!Restart, Switch!PowerCycle, Switch!Settled,
           Switch!StillTorn, Switch!vars, Torn
  <2>1. ASSUME NEW j \in Jobs, Boot(j)
        PROVE  [Switch!Next]_Switch!vars
    BY <2>1 DEF Boot, Asked, storeVars, BootValue
  <2>2. ASSUME NEW j \in Jobs, NEW c \in Callers, NEW v \in BOOLEAN,
              Request(j, c, v)
        PROVE  [Switch!Next]_Switch!vars
    BY <2>2 DEF Request, Asked, storeVars, MayAct, Quiescent
  <2>3. ASSUME NEW j \in Jobs, StoreStep(j)
        PROVE  [Switch!Next]_Switch!vars
    <3>1. Torn <=> syscfg # disk
      BY <2>3 DEF StoreStep
    <3>2. CASE job'[j].pc = "flag"
      BY <2>3, <3>1, <3>2 DEF StoreStep, Goto, SyscfgSet, Again, Stored
    <3>3. CASE job'[j].pc = "commit"
      <4>1. ~Torn' /\ UNCHANGED <<disk, lastSet>> /\ syscfg' = job[j].want
        BY <2>3, <3>3 DEF StoreStep, Goto, SyscfgSet, Again, Stored
      <4>2. job[j].by # "boot" => syscfg = lastSet
        BY <2>3 DEF StoreStep
      <4>3. job[j].by = "boot" => ~lastSet
        BY <2>3 DEF StoreStep
      <4>4. Switch!Settled
        BY <3>1
      <4>5. CASE syscfg' = syscfg
        BY <4>1, <4>5
      <4>6. CASE syscfg' # syscfg
        <5>1. Torn' = (Torn /\ syscfg' # disk')
          BY <3>1, <4>1, <4>6
        <5>2. syscfg' = ~syscfg
          BY <4>1, <4>6
        <5>3. CASE syscfg = lastSet
          BY <4>1, <4>4, <5>1, <5>2, <5>3
        <5>4. CASE syscfg # lastSet
          <6>1. syscfg /\ ~lastSet
            BY <4>2, <4>3, <5>4
          <6>2. Switch!Withdraw
            BY <4>1, <5>1, <5>2, <6>1
          <6>3. QED
            BY <6>2
        <5>5. QED
          BY <5>3, <5>4
      <4>7. QED
        BY <4>5, <4>6
    <3>4. QED
      BY <2>3, <3>2, <3>3 DEF StoreStep, Goto, SyscfgSet, Again, Stored
  <2>23. ASSUME NEW j \in Jobs, CommitStep(j)
        PROVE  [Switch!Next]_Switch!vars
    BY <2>23 DEF CommitStep, SyscfgCommit, Again, Stored, storeVars
  <2>4. ASSUME NEW j \in Jobs, FlagStep(j)
        PROVE  [Switch!Next]_Switch!vars
    BY <2>4 DEF FlagStep, Handed, Asked, SetFlag, storeVars
  <2>5. ASSUME NEW j \in Jobs, Acquire(j)
        PROVE  [Switch!Next]_Switch!vars
    BY <2>5 DEF Acquire, Goto, storeVars
  <2>6. ASSUME NEW j \in Jobs, SkipRedundant(j)
        PROVE  [Switch!Next]_Switch!vars
    BY <2>6 DEF SkipRedundant, Release, Idle, Asked, storeVars
  <2>7. ASSUME NEW j \in Jobs, PrecheckFails(j)
        PROVE  [Switch!Next]_Switch!vars
    BY <2>7 DEF PrecheckFails, storeVars
  <2>8. ASSUME NEW j \in Jobs, PrecheckPasses(j)
        PROVE  [Switch!Next]_Switch!vars
    BY <2>8 DEF PrecheckPasses, Goto, storeVars
  <2>9. ASSUME NEW j \in Jobs, SetService(j)
        PROVE  [Switch!Next]_Switch!vars
    BY <2>9 DEF SetService, Goto, storeVars
  <2>10. ASSUME NEW j \in Jobs, ServiceFails(j)
        PROVE  [Switch!Next]_Switch!vars
    BY <2>10 DEF ServiceFails, storeVars
  <2>11. ASSUME NEW j \in Jobs, Publish(j)
        PROVE  [Switch!Next]_Switch!vars
    BY <2>11 DEF Publish, Goto, storeVars
  <2>12. ASSUME NEW j \in Jobs, Announce(j)
        PROVE  [Switch!Next]_Switch!vars
    BY <2>12 DEF Announce, Goto, storeVars
  <2>13. ASSUME NEW j \in Jobs, Remember(j)
        PROVE  [Switch!Next]_Switch!vars
    BY <2>13 DEF Remember, Release, Idle, Asked, storeVars
  <2>14. ASSUME NEW j \in Jobs, UndoStore(j)
        PROVE  [Switch!Next]_Switch!vars
    <3>1. Torn <=> syscfg # disk
      BY <2>14 DEF UndoStore
    <3>2. ~Torn' /\ UNCHANGED <<disk, lastSet>> /\ syscfg' = FALSE
      BY <2>14 DEF UndoStore, Goto, SyscfgSet, Again, Stored
    <3>3. syscfg /\ ~lastSet
      BY <2>14 DEF UndoStore
    <3>4. QED
      BY <3>1, <3>2, <3>3
  <2>24. ASSUME NEW j \in Jobs, UndoCommit(j)
        PROVE  [Switch!Next]_Switch!vars
    BY <2>24 DEF UndoCommit, SyscfgCommit, Again, Stored, storeVars
  <2>15. ASSUME NEW j \in Jobs, UndoFlag(j)
        PROVE  [Switch!Next]_Switch!vars
    BY <2>15 DEF UndoFlag, SetFlag, Release, Idle, Asked, storeVars
  <2>16. CASE Rollback
    BY <2>16 DEF Rollback, storeVars, MayAct, Quiescent
  <2>17. ASSUME NEW v \in {"start", "stop"}, ResetArrives(v)
        PROVE  [Switch!Next]_Switch!vars
    BY <2>17 DEF ResetArrives, storeVars, MayAct, Quiescent
  <2>18. CASE ResetActs
    BY <2>18 DEF ResetActs, storeVars
  <2>19. CASE Crash
    BY <2>19 DEF Crash, ProcessGone, Idle, Asked, storeVars
  <2>20. CASE Reboot
    BY <2>20 DEF Reboot, ProcessGone, Idle, Asked, storeVars
  <2>21. CASE UNCHANGED vars
    BY <2>21 DEF vars, storeVars
  <2>25. CASE BootSkips
    BY <2>25 DEF BootSkips, storeVars
  <2>26. CASE OthersCommit
    BY <2>26 DEF OthersCommit, storeVars
  <2> HIDE DEF Switch!Next, Switch!vars, Torn, TypeOK, SerialInv, Stage, Repairable
  <2>22. QED
    BY <2>1, <2>2, <2>3, <2>4, <2>5, <2>6, <2>7, <2>8, <2>9, <2>10, <2>11,
       <2>12, <2>13, <2>14, <2>15, <2>16, <2>17, <2>18, <2>19, <2>20, <2>21,
       <2>23, <2>24, <2>25, <2>26
       DEF Next, Calls, Handles
<1>5. QED
  BY <1>1, <1>2, <1>3, <1>4, TypeCorrect, PTL DEF Spec, ImplementsSwitch, Switch!Spec

-----------------------------------------------------------------------------
(* A WIFI_RESET finds meshEnable on only when mesh is on, and acts before  *)
(* anything else is asked for.                                             *)
LEMMA ResetStep ==
  Repairable /\ TypeOK /\ SerialInv /\ ResetInv /\ [Next]_vars => ResetInv'
<1> SUFFICES ASSUME Repairable /\ TypeOK /\ SerialInv /\ ResetInv, [Next]_vars
             PROVE  ResetInv'
  OBVIOUS
<1> USE DEF TypeOK, JobState, Calling, Repairable, SerialInv, OneAtATime, AllIdle, Stage,
         ResetInv
<1>1. ASSUME NEW j \in Jobs, Boot(j)
      PROVE  ResetInv'
  BY <1>1 DEF Boot, Asked
<1>2. ASSUME NEW j \in Jobs, NEW c \in Callers, NEW v \in BOOLEAN,
            Request(j, c, v)
      PROVE  ResetInv'
  BY <1>2 DEF Request, Asked, MayAct, Quiescent
<1>3. ASSUME NEW j \in Jobs, StoreStep(j)
      PROVE  ResetInv'
  BY <1>3 DEF StoreStep, Goto, SyscfgSet, Again, Stored
<1>23. ASSUME NEW j \in Jobs, CommitStep(j)
      PROVE  ResetInv'
  BY <1>23 DEF CommitStep, SyscfgCommit, Again, Stored
<1>4. ASSUME NEW j \in Jobs, FlagStep(j)
      PROVE  ResetInv'
  BY <1>4 DEF FlagStep, Handed, Asked, SetFlag
<1>5. ASSUME NEW j \in Jobs, Acquire(j)
      PROVE  ResetInv'
  BY <1>5 DEF Acquire, Goto
<1>6. ASSUME NEW j \in Jobs, SkipRedundant(j)
      PROVE  ResetInv'
  BY <1>6 DEF SkipRedundant, Release, Idle, Asked
<1>7. ASSUME NEW j \in Jobs, PrecheckFails(j)
      PROVE  ResetInv'
  BY <1>7 DEF PrecheckFails
<1>8. ASSUME NEW j \in Jobs, PrecheckPasses(j)
      PROVE  ResetInv'
  BY <1>8 DEF PrecheckPasses, Goto
<1>9. ASSUME NEW j \in Jobs, SetService(j)
      PROVE  ResetInv'
  BY <1>9 DEF SetService, Goto
<1>10. ASSUME NEW j \in Jobs, ServiceFails(j)
      PROVE  ResetInv'
  BY <1>10 DEF ServiceFails
<1>11. ASSUME NEW j \in Jobs, Publish(j)
      PROVE  ResetInv'
  BY <1>11 DEF Publish, Goto
<1>12. ASSUME NEW j \in Jobs, Announce(j)
      PROVE  ResetInv'
  BY <1>12 DEF Announce, Goto
<1>13. ASSUME NEW j \in Jobs, Remember(j)
      PROVE  ResetInv'
  BY <1>13 DEF Remember, Release, Idle, Asked
<1>14. ASSUME NEW j \in Jobs, UndoStore(j)
      PROVE  ResetInv'
  BY <1>14 DEF UndoStore, Goto, SyscfgSet, Again, Stored
<1>24. ASSUME NEW j \in Jobs, UndoCommit(j)
      PROVE  ResetInv'
  BY <1>24 DEF UndoCommit, SyscfgCommit, Again, Stored
<1>15. ASSUME NEW j \in Jobs, UndoFlag(j)
      PROVE  ResetInv'
  BY <1>15 DEF UndoFlag, SetFlag, Release, Idle, Asked
<1>16. CASE Rollback
  BY <1>16 DEF Rollback, MayAct, Quiescent, GetEnabled
<1>17. ASSUME NEW v \in {"start", "stop"}, ResetArrives(v)
      PROVE  ResetInv'
  BY <1>17 DEF ResetArrives, MayAct, Quiescent
<1>18. CASE ResetActs
  BY <1>18 DEF ResetActs
<1>19. CASE Crash
  BY <1>19 DEF Crash, ProcessGone, Idle, Asked
<1>20. CASE Reboot
  BY <1>20 DEF Reboot, ProcessGone, Idle, Asked
<1>21. CASE UNCHANGED vars
  BY <1>21 DEF vars
<1>25. CASE BootSkips
  BY <1>25 DEF BootSkips
<1>26. CASE OthersCommit
  BY <1>26 DEF OthersCommit
<1> HIDE DEF ResetInv, SerialInv, OneAtATime, AllIdle, Stage, Repairable, TypeOK
<1>22. QED
  BY <1>1, <1>2, <1>3, <1>4, <1>5, <1>6, <1>7, <1>8, <1>9, <1>10, <1>11,
     <1>12, <1>13, <1>14, <1>15, <1>16, <1>17, <1>18, <1>19, <1>20, <1>21,
     <1>23, <1>24, <1>25, <1>26
     DEF Next, Calls, Handles

(* Asked for one thing at a time, nothing but an enabling handler, or the  *)
(* end of a WIFI_RESET while mesh is on, starts the meshwifi service.      *)
THEOREM NoStartWhenSerial ==
  ASSUME Repairable
  PROVE  Spec => NoStartWhileDisabled
<1>1. Init => MutexInv /\ SerialInv /\ ResetInv
  BY DEF Init, MutexInv, SerialInv, OneAtATime, AllIdle, Stage, ResetInv, Idle, Asked, Calling,
         Locked
<1>2. TypeOK /\ MutexInv /\ ResetInv /\ [Next]_vars
        => [~service /\ service' => \/ lastSet
                                   \/ \E j \in Jobs : mutex = j /\ job[j].want]_vars
  <2> SUFFICES ASSUME TypeOK, MutexInv, ResetInv, Next, ~service, service'
               PROVE  lastSet \/ \E j \in Jobs : mutex = j /\ job[j].want
    BY DEF vars
  <2>1. ASSUME NEW j \in Jobs, SetService(j)
        PROVE  mutex = j /\ job[j].want
    BY <2>1 DEF SetService, MutexInv, Locked
  <2>2. ASSUME ResetActs
        PROVE  lastSet
    BY <2>2 DEF ResetActs, ResetInv
  <2>3. \/ ResetActs
        \/ \E j \in Jobs : SetService(j)
    BY DEF Next, Calls, Handles, Boot, BootSkips, Request, StoreStep, CommitStep, FlagStep,
           Acquire, SkipRedundant, PrecheckFails, PrecheckPasses, ServiceFails, Publish,
           Announce, Remember, UndoStore, UndoCommit, UndoFlag, Rollback, ResetArrives,
           OthersCommit, Crash, Reboot
  <2>4. QED
    BY <2>1, <2>2, <2>3
<1>3. Repairable /\ TypeOK /\ SerialInv /\ ResetInv /\ [Next]_vars => ResetInv'
  BY ResetStep
<1>4. QED
  BY <1>1, <1>2, <1>3, TypeCorrect, MutexStep, SerialStep, PTL
     DEF Spec, NoStartWhileDisabled
=============================================================================
