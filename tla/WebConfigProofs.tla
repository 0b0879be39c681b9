--------------------------- MODULE WebConfigProofs ---------------------------
(***************************************************************************)
(* Proofs about the webconfig documents, for any documents and any choice  *)
(* of faults.                                                              *)
(*                                                                         *)
(* Progress says how far a document that nothing has disturbed has come,   *)
(* at each place the executor can be: which of the two settings is the     *)
(* document's already, and what the caches hold.  Owned says, of every     *)
(* document, which of the places a setting can come from hold nothing that *)
(* was not asked for.                                                      *)
(***************************************************************************)
EXTENDS WebConfig, WellFoundedInduction, TLAPS

(* Only documents that have all they need wait and are executed.           *)
Sound ==
  /\ TypeOK
  /\ \A d \in waiting : Complete(d)
  /\ exec.pc # "idle" => exec.doc \in Docs /\ Complete(exec.doc)

(* An execution that has met neither a failure nor another setting.        *)
Progress ==
  exec.pc # "idle" /\ ~tainted =>
    /\ exec.pc \in {"validate", "mesh"} =>
         stored = before /\ lastSet = stored.mesh /\ meshError = "ok"
    /\ exec.pc = "validate" => cache = backup
    /\ exec.pc \in {"mesh", "eth"} => cache = Unpack(exec.doc)
    /\ exec.pc = "eth" => stored.mesh = cache.mesh /\ lastSet = stored.mesh
    /\ exec.pc \in {"validate", "mesh", "eth"} => exec.ret = "ok"
    /\ exec.pc = "answer" =>
         \/ exec.ret = "ok" /\ stored = cache /\ cache = Unpack(exec.doc)
         \/ exec.ret = "refused" /\ stored = before /\ cache = backup
    /\ exec.pc \in {"undo_mesh", "undo_eth", "undo_cache"} =>
         ~Fresh /\ exec.ret = "refused"

(* What is stored, what is saved and, once a document is over or has not   *)
(* been looked at, what is in the cache, was asked for.                    *)
Within(c) == (c.mesh => wanted.mesh) /\ (c.eth => wanted.eth)

Owned ==
  /\ Within(stored)
  /\ Within(backup)
  /\ exec.pc \notin {"mesh", "eth"} => Within(cache)
  /\ exec.pc = "eth" => (cache.mesh => wanted.mesh)

Invariant == Sound /\ Progress /\ Owned

-----------------------------------------------------------------------------
(* What a document comes to.                                               *)

LEMMA LeastOf ==
  ASSUME NEW S \in SUBSET Nat, S # {}
  PROVE  \E x \in S : \A y \in S : x <= y
<1> DEFINE Less == {ss \in Nat \X Nat : ss[1] < ss[2]}
<1>1. IsWellFoundedOn(Less, Nat)
  BY NatLessThanWellFounded, Zenon DEF OpToRel
<1>2. \A x, y \in Nat : <<y, x>> \in Less <=> y < x
  OBVIOUS
<1> HIDE DEF Less
<1>3. \E x \in S : \A y \in S : ~ (<<y, x>> \in Less)
  BY <1>1, WFMin
<1>4. PICK x \in S : \A y \in S : ~ (y < x)
  BY <1>2, <1>3
<1>5. \A y \in S : x <= y
  BY <1>4
<1> QED
  BY <1>5

LEMMA DocType ==
  ASSUME NEW d \in Docs
  PROVE  /\ Len(d) \in Nat \ {0}
         /\ \A i \in 1..Len(d) : d[i] \in [key: Keys, value: BOOLEAN]
<1> DEFINE Entries == [key: Keys, value: BOOLEAN]
<1>1. d \in Seq(Entries) /\ d # << >>
  BY WebConfigAssumption
<1> HIDE DEF Entries
<1>2. Len(d) \in Nat \ {0} /\ \A i \in 1..Len(d) : d[i] \in Entries
  BY <1>1
<1> QED
  BY <1>2 DEF Entries

(* helper_convert and process_meshdocparams give two settings, whatever    *)
(* the order of the entries and however many there are.                    *)
LEMMA UnpackType ==
  ASSUME NEW d \in Docs, Complete(d)
  PROVE  Unpack(d) \in Conf
<1>1. CASE Bare(d)
  BY <1>1 DEF Unpack, Off, Conf
<1>2. CASE ~Bare(d)
  <2> DEFINE First(i) == /\ d[i].key = "Ethbhaul"
                         /\ \A k \in 1..(i - 1) : d[k].key # "Ethbhaul"
             e == CHOOSE i \in 1..Len(d) : First(i)
             On(i) == d[i] = [key |-> "Enable", value |-> TRUE]
             m == \E i \in 1..(e - 1) :
                    /\ On(i)
                    /\ \A k \in (i + 1)..(e - 1) : d[k].key # "Enable"
  <2>1. \E i \in 1..Len(d) : First(i)
    <3> DEFINE S == {i \in 1..Len(d) : d[i].key = "Ethbhaul"}
    <3>1. S \in SUBSET Nat /\ S # {} /\ Len(d) \in Nat
      BY <1>2, DocType DEF Complete
    <3>2. PICK x \in S : \A y \in S : x <= y
      BY <3>1, LeastOf
    <3>3. x \in 1..Len(d) /\ First(x)
      BY <3>1, <3>2
    <3> QED
      BY <3>3
  <2>2. e \in 1..Len(d)
    BY <2>1
  <2>3. d[e].value \in BOOLEAN
    <3> HIDE DEF e
    <3>1. d[e] \in [key: Keys, value: BOOLEAN]
      BY <2>2, DocType
    <3> QED
      BY <3>1
  <2>4. m \in BOOLEAN
    OBVIOUS
  <2>5. Unpack(d) = [mesh |-> m, eth |-> d[e].value]
    BY <1>2 DEF Unpack
  <2> HIDE DEF m, e
  <2> QED
    BY <2>3, <2>4, <2>5 DEF Conf
<1> QED
  BY <1>1, <1>2

(* Two settings are the same when both their parts are.                    *)
LEMMA SameConf ==
  ASSUME NEW c \in Conf, NEW d \in Conf, c.mesh = d.mesh, c.eth = d.eth
  PROVE  c = d
  BY DEF Conf

-----------------------------------------------------------------------------
(* Whatever fails, the value stored is the old one, the one asked for or   *)
(* FALSE.                                                                  *)
LEMMA StoresAre ==
  ASSUME NEW old \in BOOLEAN, NEW v \in BOOLEAN, NEW o, NEW w \in Stores(old, v, o)
  PROVE  w \in BOOLEAN /\ (w => old \/ v)
<1>1. PICK s \in Written(old, v) :
        w \in (IF o.err = "ok" THEN {s} ELSE Written(s, FALSE))
  BY DEF Stores
<1>2. s \in {v, old}
  BY DEF Written
<1>3. w \in {s, FALSE}
  <2>1. CASE o.err = "ok"
    BY <1>1, <2>1
  <2>2. CASE o.err # "ok"
    BY <1>1, <2>2 DEF Written
  <2> QED
    BY <2>1, <2>2
<1>4. CASE w = FALSE
  BY <1>4
<1>5. CASE w = old
  BY <1>5
<1>6. CASE w = v
  BY <1>6
<1> QED
  BY <1>2, <1>3, <1>4, <1>5, <1>6

LEMMA OutcomesAre ==
  ASSUME NEW last \in BOOLEAN, NEW v \in BOOLEAN, NEW o \in Outcomes(last, v)
  PROVE  /\ o.last \in BOOLEAN
         /\ o.err \in {"ok", "precheck", "start", "stop"}
         /\ o.err = "ok" => o.last = v
         /\ o.err # "ok" => o.last = last /\ last # v
<1>1. \/ o = [last |-> v, err |-> "ok"]
      \/ /\ last # v
         /\ \E f \in IF v THEN {"precheck", "start"} ELSE {"stop"} :
              o = [last |-> last, err |-> f]
  BY DEF Outcomes
<1>2. CASE o = [last |-> v, err |-> "ok"]
  BY <1>2
<1>3. CASE /\ last # v
           /\ \E f \in {"precheck", "start", "stop"} :
                o = [last |-> last, err |-> f]
  BY <1>3
<1> QED
  BY <1>1, <1>2, <1>3

(* What mesh_set_enabled can come to, when nothing was wrong before: either *)
(* both syscfg and last_set have the value and there is no error, or they   *)
(* contradict each other or the value.                                      *)
LEMMA SetMeshIs ==
  ASSUME NEW v \in BOOLEAN, NEW thread \in BOOLEAN, stored \in Conf,
         lastSet \in BOOLEAN, meshError \in Errors,
         SetMesh(v, thread) \/ MeshSetEnabled(v)
  PROVE  /\ stored' \in Conf /\ stored'.eth = stored.eth
         /\ lastSet' \in BOOLEAN /\ meshError' \in Errors
         /\ stored'.mesh => stored.mesh \/ v
         /\ lastSet = stored.mesh /\ meshError = "ok" =>
              \/ stored'.mesh = v /\ lastSet' = v /\ meshError' = "ok"
              \/ stored'.mesh # v
              \/ lastSet' # stored'.mesh
<1>1. CASE stored.mesh = v /\ UNCHANGED <<stored, lastSet, meshError>>
  BY <1>1
<1>2. ASSUME NEW t \in BOOLEAN, SetMesh(v, t)
      PROVE  /\ stored' \in Conf /\ stored'.eth = stored.eth
             /\ lastSet' \in BOOLEAN /\ meshError' \in Errors
             /\ stored'.mesh => stored.mesh \/ v
             /\ lastSet = stored.mesh /\ meshError = "ok" =>
                  \/ stored'.mesh = v /\ lastSet' = v /\ meshError' = "ok"
                  \/ stored'.mesh # v
                  \/ lastSet' # stored'.mesh
  <2>1. PICK o \in Outcomes(lastSet, v) :
          /\ \E w \in Stores(stored.mesh, v, o) :
                stored' = [stored EXCEPT !.mesh = w]
          /\ lastSet' = o.last
          /\ meshError' = IF lastSet # v /\ (t \/ o.err = "precheck")
                            THEN meshError ELSE o.err
    BY <1>2 DEF SetMesh
  <2>2. stored.mesh # v /\ stored.mesh \in BOOLEAN
    BY <1>2 DEF SetMesh, Conf
  <2>3. PICK w \in Stores(stored.mesh, v, o) : stored' = [stored EXCEPT !.mesh = w]
    BY <2>1
  <2>4. w \in BOOLEAN /\ (w => stored.mesh \/ v)
    BY <2>2, StoresAre
  <2>5. stored' \in Conf /\ stored'.eth = stored.eth /\ stored'.mesh = w
    BY <2>3, <2>4 DEF Conf
  <2>6. /\ o.last \in BOOLEAN
        /\ o.err \in {"ok", "precheck", "start", "stop"}
        /\ o.err = "ok" => o.last = v
        /\ o.err # "ok" => o.last = lastSet /\ lastSet # v
    BY OutcomesAre
  <2>7. lastSet' \in BOOLEAN /\ meshError' \in Errors
    BY <2>1, <2>6 DEF Errors
  <2>8. ASSUME lastSet = stored.mesh, meshError = "ok", stored'.mesh = v,
               lastSet' = stored'.mesh
        PROVE  meshError' = "ok"
    BY <2>1, <2>6, <2>8
  <2> QED
    BY <2>2, <2>4, <2>5, <2>7, <2>8
<1> QED
  BY <1>1, <1>2 DEF MeshSetEnabled

LEMMA SetEthIs ==
  ASSUME NEW v \in BOOLEAN, stored \in Conf, SetEth(v)
  PROVE  /\ stored' \in Conf /\ stored'.mesh = stored.mesh
         /\ stored'.eth => stored.eth \/ v
  BY DEF SetEth, Written, Conf

(* What is asked for only grows, by what has just been asked for.          *)
LEMMA WantsIs ==
  ASSUME wanted \in Conf, NEW c \in Conf, Wants(c)
  PROVE  /\ wanted' \in Conf
         /\ wanted'.mesh = (wanted.mesh \/ c.mesh)
         /\ wanted'.eth = (wanted.eth \/ c.eth)
  BY DEF Wants, Conf

LEMMA ConfType ==
  /\ Off \in Conf
  /\ \A c \in Conf : c.mesh \in BOOLEAN /\ c.eth \in BOOLEAN
  /\ \A v \in BOOLEAN : /\ MeshOf(v) \in Conf /\ EthOf(v) \in Conf
                        /\ MeshOf(v).mesh = v /\ MeshOf(v).eth = FALSE
                        /\ EthOf(v).mesh = FALSE /\ EthOf(v).eth = v
  BY DEF Off, Conf, MeshOf, EthOf

LEMMA NoDocType == NoDoc \in Executions /\ NoDoc.pc = "idle"
  BY DEF NoDoc, Executions, Pcs

(* The executor goes on with the document it has.                          *)
LEMMA Onward ==
  ASSUME exec \in Executions, NEW pc \in Pcs,
         NEW ret \in {"ok", "refused", "true"},
         pc \in {"validate", "mesh", "eth"} => ret = "ok",
         pc \in {"undo_mesh", "undo_eth", "undo_cache"} => ret = "refused",
         \/ exec' = [exec EXCEPT !.pc = pc, !.ret = ret]
         \/ exec' = [exec EXCEPT !.pc = pc] /\ ret = exec.ret
  PROVE  /\ exec' \in Executions
         /\ exec'.pc = pc /\ exec'.ret = ret /\ exec'.doc = exec.doc
  BY DEF Executions

LEMMA RetType ==
  ASSUME exec \in Executions
  PROVE  /\ exec.ret \in {"ok", "refused", "true"}
         /\ exec.pc \in {"validate", "mesh", "eth"} => exec.ret = "ok"
         /\ exec.pc \in {"undo_mesh", "undo_eth", "undo_cache"} =>
              exec.ret = "refused"
         /\ exec.doc \in Docs \cup {None}
  BY DEF Executions

LEMMA SoundOnward ==
  ASSUME Sound, exec.pc # "idle",
         exec' \in Executions,
         exec'.pc # "idle" => exec'.doc = exec.doc,
         stored' \in Conf, cache' \in Conf, wanted' \in Conf,
         version' \in Docs \cup {None},
         lastSet' \in BOOLEAN, tainted' \in BOOLEAN, meshError' \in Errors,
         UNCHANGED <<backup, before, waiting, crashes>>
  PROVE  Sound'
<1>1. TypeOK'
  BY DEF Sound, TypeOK
<1> QED
  BY <1>1 DEF Sound

-----------------------------------------------------------------------------
(* The initial states, and the steps one by one.                           *)

LEMMA InitInvariant == Init => Invariant
<1> SUFFICES ASSUME Init
             PROVE  Invariant
  OBVIOUS
<1>1. exec \in Executions /\ exec.pc = "idle" /\ waiting = {}
  BY NoDocType DEF Init
<1>2. /\ stored \in Conf /\ cache = Off /\ backup = Off /\ before = Off
      /\ wanted = stored /\ Off \in Conf /\ lastSet \in BOOLEAN
  BY ConfType DEF Init
<1>3. version \in Docs \cup {None} /\ tainted \in BOOLEAN /\ meshError \in Errors
  BY DEF Init, Errors
<1>4. crashes \in 0..MaxCrashes
  BY WebConfigAssumption DEF Init
<1>5. TypeOK
  BY <1>1, <1>2, <1>3, <1>4 DEF TypeOK
<1>6. Owned
  BY <1>1, <1>2 DEF Owned, Within, Off
<1> QED
  BY <1>1, <1>5, <1>6 DEF Invariant, Sound, Progress

LEMMA ReceiveStep ==
  ASSUME Invariant, NEW d \in Docs, Receive(d)
  PROVE  Invariant'
<1>1. /\ Complete(d) /\ waiting' = waiting \cup {d}
      /\ UNCHANGED <<stored, version, lastSet, meshError, cache, backup, exec,
                     crashes, before, tainted, wanted>>
  BY DEF Receive
<1>2. Sound'
  BY <1>1 DEF Invariant, Sound, TypeOK
<1> QED
  BY <1>1, <1>2 DEF Invariant, Progress, Fresh, Owned, Within

LEMMA TakeStep ==
  ASSUME Invariant, NEW d \in waiting, Take(d)
  PROVE  Invariant'
<1>1. /\ exec' = [pc |-> "validate", doc |-> d, ret |-> "ok"]
      /\ exec.pc = "idle" /\ waiting' = waiting \ {d}
      /\ backup' = cache /\ before' = stored
      /\ tainted' = (meshError # "ok" \/ lastSet # stored.mesh)
      /\ UNCHANGED <<stored, version, lastSet, meshError, cache, crashes, wanted>>
  BY DEF Take
<1>2. TypeOK /\ waiting \subseteq Docs /\ d \in Docs /\ Complete(d) /\ Owned
  BY DEF Invariant, Sound, TypeOK
<1>3. exec' \in Executions /\ exec'.pc = "validate" /\ exec'.doc = d
      /\ exec'.ret = "ok"
  BY <1>1, <1>2 DEF Executions, Pcs
<1>4. TypeOK'
  BY <1>1, <1>2, <1>3 DEF TypeOK
<1>5. Sound'
  BY <1>1, <1>2, <1>3, <1>4 DEF Invariant, Sound
<1>6. Progress'
  BY <1>1, <1>3 DEF Progress
<1>7. Owned'
  BY <1>1, <1>2, <1>3 DEF Owned, Within
<1> QED
  BY <1>5, <1>6, <1>7 DEF Invariant

LEMMA ValidateStep ==
  ASSUME Invariant, Validate
  PROVE  Invariant'
<1>1. Sound /\ Progress /\ Owned /\ TypeOK /\ exec.pc = "validate"
      /\ exec \in Executions /\ exec.ret = "ok"
  BY RetType DEF Invariant, Sound, Validate, TypeOK
<1>2. UNCHANGED <<stored, version, lastSet, meshError, backup, waiting, crashes,
                  before, tainted, wanted>>
  BY DEF Validate
<1>3. exec.doc \in Docs /\ Unpack(exec.doc) \in Conf
  BY <1>1, UnpackType DEF Sound
<1>4. CASE cache' = Unpack(exec.doc) /\ exec' = [exec EXCEPT !.pc = "mesh"]
  <2>1. exec' \in Executions /\ exec'.pc = "mesh" /\ exec'.ret = exec.ret
        /\ exec'.doc = exec.doc
    BY <1>1, <1>4, Onward DEF Pcs
  <2>2. Sound'
    BY <1>1, <1>2, <1>3, <1>4, <2>1, SoundOnward DEF TypeOK
  <2>3. Progress'
    BY <1>1, <1>2, <1>4, <2>1 DEF Progress
  <2>4. Owned'
    BY <1>1, <1>2, <2>1 DEF Owned, Within
  <2> QED
    BY <2>2, <2>3, <2>4 DEF Invariant
<1>5. CASE /\ cache' = backup
           /\ exec' = [exec EXCEPT !.pc = "answer", !.ret = "refused"]
  <2>1. exec' \in Executions /\ exec'.pc = "answer" /\ exec'.ret = "refused"
        /\ exec'.doc = exec.doc
    BY <1>1, <1>5, Onward DEF Pcs
  <2>2. Sound'
    BY <1>1, <1>2, <1>5, <2>1, SoundOnward DEF TypeOK
  <2>3. Progress'
    BY <1>1, <1>2, <1>5, <2>1 DEF Progress
  <2>4. Owned'
    BY <1>1, <1>2, <1>5, <2>1 DEF Owned, Within
  <2> QED
    BY <2>2, <2>3, <2>4 DEF Invariant
<1> QED
  BY <1>4, <1>5 DEF Validate

(* The first setting: an answer that is no success, or a mesh that is not  *)
(* what the document says, is not the document's doing.                    *)
LEMMA ApplyMeshStep ==
  ASSUME Invariant, ApplyMesh
  PROVE  Invariant'
<1> DEFINE v == cache.mesh
<1>1. Sound /\ Progress /\ Owned /\ TypeOK /\ exec.pc = "mesh"
      /\ exec \in Executions /\ exec.ret = "ok"
  BY RetType DEF Invariant, Sound, ApplyMesh, TypeOK
<1>2. /\ MeshSetEnabled(v) /\ Taint([stored EXCEPT !.mesh = v])
      /\ Wants(MeshOf(v))
      /\ UNCHANGED <<version, backup, waiting, crashes, before>>
      /\ IF meshError' = "ok"
           THEN exec' = [exec EXCEPT !.pc = "eth"] /\ cache' = cache
           ELSE exec' = [exec EXCEPT !.pc = "answer", !.ret = "true"]
                /\ cache' = backup
  BY DEF ApplyMesh
<1>3. v \in BOOLEAN /\ stored \in Conf /\ lastSet \in BOOLEAN
      /\ meshError \in Errors /\ wanted \in Conf
  BY <1>1, ConfType DEF TypeOK
<1>4. /\ stored' \in Conf /\ stored'.eth = stored.eth
      /\ lastSet' \in BOOLEAN /\ meshError' \in Errors
      /\ stored'.mesh => stored.mesh \/ v
      /\ lastSet = stored.mesh /\ meshError = "ok" =>
           \/ stored'.mesh = v /\ lastSet' = v /\ meshError' = "ok"
           \/ stored'.mesh # v
           \/ lastSet' # stored'.mesh
  BY <1>2, <1>3, SetMeshIs
<1>5. /\ tainted' \in BOOLEAN
      /\ ~tainted' => ~tainted /\ lastSet' = stored'.mesh
                      /\ stored' = [stored EXCEPT !.mesh = v]
  BY <1>2 DEF Taint
<1>6. ~tainted' => stored'.mesh = v
  BY <1>3, <1>5 DEF Conf
<1>7. /\ wanted' \in Conf
      /\ wanted'.mesh = (wanted.mesh \/ v)
      /\ wanted'.eth = wanted.eth
  <2>1. MeshOf(v) \in Conf /\ MeshOf(v).mesh = v /\ MeshOf(v).eth = FALSE
    BY <1>3, ConfType
  <2>2. wanted.eth \in BOOLEAN
    BY <1>3, ConfType
  <2> QED
    BY <1>2, <1>3, <2>1, <2>2, WantsIs
<1>8. Within(stored)' /\ Within(backup)' /\ (v => wanted'.mesh)
  BY <1>1, <1>2, <1>4, <1>7 DEF Owned, Within
<1>9. v = cache.mesh
  OBVIOUS
<1> HIDE DEF v
<1>10. CASE meshError' = "ok"
  <2>1. exec' = [exec EXCEPT !.pc = "eth"] /\ cache' = cache
    BY <1>2, <1>10
  <2>2. exec' \in Executions /\ exec'.pc = "eth" /\ exec'.ret = exec.ret
        /\ exec'.doc = exec.doc
    BY <1>1, <2>1, Onward DEF Pcs
  <2>3. Sound'
    BY <1>1, <1>2, <1>4, <1>5, <1>7, <2>1, <2>2, SoundOnward DEF TypeOK
  <2>4. Progress'
    BY <1>1, <1>5, <1>6, <1>9, <2>1, <2>2 DEF Progress
  <2>5. Owned'
    BY <1>8, <1>9, <2>1, <2>2 DEF Owned
  <2> QED
    BY <2>3, <2>4, <2>5 DEF Invariant
<1>11. CASE meshError' # "ok"
  <2>1. exec' = [exec EXCEPT !.pc = "answer", !.ret = "true"] /\ cache' = backup
    BY <1>2, <1>11
  <2>2. exec' \in Executions /\ exec'.pc = "answer" /\ exec'.ret = "true"
        /\ exec'.doc = exec.doc
    BY <1>1, <2>1, Onward DEF Pcs
  <2>3. Sound'
    BY <1>1, <1>2, <1>4, <1>5, <1>7, <2>1, <2>2, SoundOnward DEF TypeOK
  <2>4. tainted'
    BY <1>1, <1>4, <1>5, <1>6, <1>11 DEF Progress
  <2>5. Owned'
    BY <1>2, <1>8, <2>1, <2>2 DEF Owned, Within
  <2> QED
    BY <2>3, <2>4, <2>5 DEF Invariant, Progress
<1> QED
  BY <1>10, <1>11

(* The second setting.                                                     *)
LEMMA ApplyEthStep ==
  ASSUME Invariant, ApplyEth
  PROVE  Invariant'
<1> DEFINE v == cache.eth
<1>1. Sound /\ Progress /\ Owned /\ TypeOK /\ exec.pc = "eth"
      /\ exec \in Executions /\ exec.ret = "ok"
  BY RetType DEF Invariant, Sound, ApplyEth, TypeOK
<1>2. /\ SetEth(v) /\ Taint([stored EXCEPT !.eth = v]) /\ Wants(EthOf(v))
      /\ exec' = [exec EXCEPT !.pc = "answer"]
      /\ UNCHANGED <<version, lastSet, meshError, cache, backup, waiting, crashes,
                     before>>
  BY DEF ApplyEth
<1>3. v \in BOOLEAN /\ stored \in Conf /\ cache \in Conf /\ wanted \in Conf
  BY <1>1, ConfType DEF TypeOK
<1>4. /\ stored' \in Conf /\ stored'.mesh = stored.mesh
      /\ stored'.eth => stored.eth \/ v
  BY <1>2, <1>3, SetEthIs
<1>5. /\ tainted' \in BOOLEAN
      /\ ~tainted' => ~tainted /\ stored' = [stored EXCEPT !.eth = v]
  BY <1>2 DEF Taint
<1>6. ~tainted' => stored'.eth = v
  BY <1>3, <1>5 DEF Conf
<1>7. exec' \in Executions /\ exec'.pc = "answer" /\ exec'.ret = exec.ret
      /\ exec'.doc = exec.doc
  BY <1>1, <1>2, Onward DEF Pcs
<1>8. /\ wanted' \in Conf
      /\ wanted'.mesh = wanted.mesh
      /\ wanted'.eth = (wanted.eth \/ v)
  <2>1. EthOf(v) \in Conf /\ EthOf(v).mesh = FALSE /\ EthOf(v).eth = v
    BY <1>3, ConfType
  <2>2. wanted.mesh \in BOOLEAN
    BY <1>3, ConfType
  <2> QED
    BY <1>2, <1>3, <2>1, <2>2, WantsIs
<1>9. Sound'
  BY <1>1, <1>2, <1>4, <1>5, <1>7, <1>8, SoundOnward DEF TypeOK
<1>10. ~tainted' => stored' = cache
  <2>1. ~tainted' => stored'.mesh = cache.mesh /\ stored'.eth = cache.eth
    BY <1>1, <1>4, <1>5, <1>6 DEF Progress
  <2> QED
    BY <1>3, <1>4, <2>1, SameConf
<1>11. Progress'
  BY <1>1, <1>2, <1>5, <1>7, <1>10 DEF Progress
<1>12. Owned'
  BY <1>1, <1>2, <1>4, <1>7, <1>8 DEF Owned, Within
<1> QED
  BY <1>9, <1>11, <1>12 DEF Invariant

LEMMA AnswerStep ==
  ASSUME Invariant, Answer
  PROVE  Invariant'
<1>1. Sound /\ Progress /\ Owned /\ TypeOK /\ exec.pc = "answer"
      /\ exec \in Executions /\ exec.ret \in {"ok", "refused", "true"}
  BY RetType DEF Invariant, Sound, Answer, TypeOK
<1>2. UNCHANGED <<stored, lastSet, meshError, cache, backup, waiting, crashes,
                  before, tainted, wanted>>
  BY DEF Answer
<1>3. version' \in {exec.doc, version} /\ exec.doc \in Docs
  BY <1>1 DEF Answer, Sound
<1>4. CASE exec' = NoDoc
  <2>1. Sound'
    BY <1>1, <1>2, <1>3, <1>4, NoDocType, SoundOnward DEF TypeOK
  <2>2. Progress' /\ Owned'
    BY <1>1, <1>2, <1>4, NoDocType DEF Progress, Owned, Within
  <2> QED
    BY <2>1, <2>2 DEF Invariant
<1>5. CASE /\ exec' = [exec EXCEPT !.pc = "undo_mesh"]
           /\ exec.ret = "refused" /\ stored.mesh # backup.mesh
  <2>1. exec' \in Executions /\ exec'.pc = "undo_mesh" /\ exec'.ret = exec.ret
        /\ exec'.doc = exec.doc
    BY <1>1, <1>5, Onward DEF Pcs
  <2>2. Sound'
    BY <1>1, <1>2, <1>3, <2>1, SoundOnward DEF TypeOK
  <2>3. ~tainted => stored = before
    BY <1>1, <1>5 DEF Progress
  <2>4. Progress'
    BY <1>2, <1>5, <2>1, <2>3 DEF Progress, Fresh
  <2>5. Owned'
    BY <1>1, <1>2, <2>1 DEF Owned, Within
  <2> QED
    BY <2>2, <2>4, <2>5 DEF Invariant
<1>6. \/ exec' = NoDoc
      \/ /\ exec' = [exec EXCEPT !.pc = "undo_mesh"]
         /\ exec.ret = "refused" /\ stored.mesh # backup.mesh
  BY DEF Answer, Reported
<1> QED
  BY <1>4, <1>5, <1>6

(* A rollback, which only an unfresh cache calls for.                      *)
LEMMA UndoStep ==
  ASSUME Invariant, UndoMesh \/ UndoEth \/ UndoCache
  PROVE  Invariant'
<1>1. Sound /\ Progress /\ Owned /\ TypeOK
      /\ exec.pc \in {"undo_mesh", "undo_eth", "undo_cache"}
      /\ exec \in Executions /\ exec.ret = "refused"
  BY RetType DEF Invariant, Sound, UndoMesh, UndoEth, UndoCache, TypeOK
<1>2. UNCHANGED <<version, backup, waiting, crashes, before, tainted, wanted>>
  BY DEF UndoMesh, UndoEth, UndoCache
<1>3. /\ stored' \in Conf /\ cache' \in Conf
      /\ lastSet' \in BOOLEAN /\ meshError' \in Errors
      /\ Within(stored)' /\ Within(cache)'
  <2>1. /\ stored \in Conf /\ cache \in Conf /\ backup \in Conf
        /\ lastSet \in BOOLEAN /\ meshError \in Errors
        /\ backup.mesh \in BOOLEAN /\ backup.eth \in BOOLEAN
    BY <1>1, ConfType DEF TypeOK
  <2>2. Within(stored) /\ Within(backup) /\ Within(cache)
    BY <1>1 DEF Owned
  <2>3. CASE UndoMesh
    <3>1. MeshSetEnabled(backup.mesh) /\ cache' = cache
      BY <2>3 DEF UndoMesh
    <3>2. /\ stored' \in Conf /\ stored'.eth = stored.eth
          /\ lastSet' \in BOOLEAN /\ meshError' \in Errors
          /\ stored'.mesh => stored.mesh \/ backup.mesh
      BY <2>1, <3>1, SetMeshIs
    <3> QED
      BY <1>2, <2>1, <2>2, <3>1, <3>2 DEF Within
  <2>4. CASE UndoEth
    <3>1. SetEth(backup.eth) /\ UNCHANGED <<cache, lastSet, meshError>>
      BY <2>4 DEF UndoEth
    <3>2. /\ stored' \in Conf /\ stored'.mesh = stored.mesh
          /\ stored'.eth => stored.eth \/ backup.eth
      BY <2>1, <3>1, SetEthIs
    <3> QED
      BY <1>2, <2>1, <2>2, <3>1, <3>2 DEF Within
  <2>5. CASE UndoCache
    BY <1>2, <2>1, <2>2, <2>5 DEF UndoCache, Within
  <2> QED
    BY <2>3, <2>4, <2>5
<1>4. Within(backup)'
  BY <1>1, <1>2 DEF Owned, Within
<1>5. CASE exec' = NoDoc
  <2>1. Sound'
    BY <1>1, <1>2, <1>3, <1>5, NoDocType, SoundOnward DEF TypeOK
  <2>2. Progress' /\ Owned'
    BY <1>3, <1>4, <1>5, NoDocType DEF Progress, Owned
  <2> QED
    BY <2>1, <2>2 DEF Invariant
<1>6. ASSUME NEW pc \in {"undo_eth", "undo_cache"},
             exec' = [exec EXCEPT !.pc = pc]
      PROVE  Invariant'
  <2>1. exec' \in Executions /\ exec'.pc = pc /\ exec'.ret = exec.ret
        /\ exec'.doc = exec.doc
    BY <1>1, <1>6, Onward DEF Pcs
  <2>2. Sound'
    BY <1>1, <1>2, <1>3, <2>1, SoundOnward DEF TypeOK
  <2>3. Progress'
    BY <1>1, <1>2, <2>1 DEF Progress, Fresh
  <2>4. Owned'
    BY <1>3, <1>4, <2>1 DEF Owned
  <2> QED
    BY <2>2, <2>3, <2>4 DEF Invariant
<1>7. \/ exec' = NoDoc
      \/ \E pc \in {"undo_eth", "undo_cache"} : exec' = [exec EXCEPT !.pc = pc]
  BY DEF UndoMesh, UndoEth, UndoCache
<1> QED
  BY <1>5, <1>6, <1>7

(* The data model's setting is asked for by the data model; a cache that   *)
(* held nothing but what was asked for still does.                         *)
LEMMA DmlStep ==
  ASSUME Invariant, NEW v \in BOOLEAN, DmlSets(v)
  PROVE  Invariant'
<1>1. Sound /\ TypeOK /\ Owned
  BY DEF Invariant, Sound
<1>2. tainted' = TRUE
      /\ UNCHANGED <<version, cache, backup, waiting, exec, crashes, before>>
  BY DEF DmlSets
<1>3. /\ stored \in Conf /\ lastSet \in BOOLEAN /\ meshError \in Errors
      /\ wanted \in Conf /\ wanted.mesh \in BOOLEAN /\ wanted.eth \in BOOLEAN
  BY <1>1, ConfType DEF TypeOK
<1>4. /\ stored' \in Conf /\ lastSet' \in BOOLEAN /\ meshError' \in Errors
      /\ wanted' \in Conf
      /\ wanted.mesh => wanted'.mesh
      /\ wanted.eth => wanted'.eth
      /\ Within(stored)'
  <2>1. CASE SetMesh(v, TRUE) /\ Wants(MeshOf(v))
    <3>1. /\ stored' \in Conf /\ stored'.eth = stored.eth
          /\ lastSet' \in BOOLEAN /\ meshError' \in Errors
          /\ stored'.mesh => stored.mesh \/ v
      BY <1>3, <2>1, SetMeshIs
    <3>2. MeshOf(v) \in Conf /\ MeshOf(v).mesh = v /\ MeshOf(v).eth = FALSE
      BY ConfType
    <3>3. /\ wanted' \in Conf
          /\ wanted'.mesh = (wanted.mesh \/ v)
          /\ wanted'.eth = wanted.eth
      BY <1>3, <2>1, <3>2, WantsIs
    <3> QED
      BY <1>1, <3>1, <3>3 DEF Owned, Within
  <2>2. CASE SetEth(v) /\ Wants(EthOf(v)) /\ UNCHANGED <<lastSet, meshError>>
    <3>1. /\ stored' \in Conf /\ stored'.mesh = stored.mesh
          /\ stored'.eth => stored.eth \/ v
      BY <1>3, <2>2, SetEthIs
    <3>2. EthOf(v) \in Conf /\ EthOf(v).mesh = FALSE /\ EthOf(v).eth = v
      BY ConfType
    <3>3. /\ wanted' \in Conf
          /\ wanted'.mesh = wanted.mesh
          /\ wanted'.eth = (wanted.eth \/ v)
      BY <1>3, <2>2, <3>2, WantsIs
    <3> QED
      BY <1>1, <1>3, <2>2, <3>1, <3>3 DEF Owned, Within
  <2> QED
    BY <2>1, <2>2 DEF DmlSets
<1>5. TypeOK'
  BY <1>1, <1>2, <1>4 DEF TypeOK
<1>6. Owned'
  BY <1>1, <1>2, <1>4 DEF Owned, Within
<1> QED
  BY <1>1, <1>2, <1>5, <1>6 DEF Invariant, Sound, Progress

LEMMA CrashStep ==
  ASSUME Invariant, Crash
  PROVE  Invariant'
<1>1. Sound /\ TypeOK /\ stored \in Conf /\ stored.mesh \in BOOLEAN
  BY ConfType DEF Invariant, Sound, TypeOK
<1>2. /\ exec' \in Executions /\ exec'.pc = "idle" /\ waiting' = {}
      /\ UNCHANGED <<version, before, tainted>>
      /\ cache' = Off /\ backup' = Off /\ Off \in Conf
      /\ meshError' \in Errors /\ wanted' = stored'
  BY ConfType, NoDocType DEF Crash, Errors
<1>3. PICK o \in Outcomes(FALSE, stored.mesh) :
        /\ \E w \in Stores(stored.mesh, stored.mesh, o) :
              stored' = [stored EXCEPT !.mesh = w]
        /\ lastSet' = o.last
  BY DEF Crash
<1>4. PICK w \in Stores(stored.mesh, stored.mesh, o) :
        stored' = [stored EXCEPT !.mesh = w]
  BY <1>3
<1>5. w \in BOOLEAN
  BY <1>1, StoresAre
<1>6. stored' \in Conf
  BY <1>1, <1>4, <1>5 DEF Conf
<1>7. lastSet' \in BOOLEAN
  BY <1>1, <1>3, OutcomesAre
<1>8. crashes' \in 0..MaxCrashes
  BY <1>1, WebConfigAssumption DEF Crash, TypeOK
<1>9. TypeOK'
  BY <1>1, <1>2, <1>6, <1>7, <1>8 DEF TypeOK
<1>10. Owned'
  BY <1>2 DEF Owned, Within, Off
<1> QED
  BY <1>2, <1>9, <1>10 DEF Invariant, Sound, Progress

LEMMA InvariantStep ==
  ASSUME Invariant, [Next]_vars
  PROVE  Invariant'
<1>1. CASE UNCHANGED vars
  BY <1>1 DEF vars, Invariant, Sound, TypeOK, Progress, Fresh, Owned, Within
<1>2. CASE \E d \in Docs : Receive(d)
  BY <1>2, ReceiveStep
<1>3. CASE Execute
  BY <1>3, TakeStep, ValidateStep, ApplyMeshStep, ApplyEthStep, AnswerStep,
     UndoStep DEF Execute
<1>4. CASE \E v \in BOOLEAN : DmlSets(v)
  BY <1>4, DmlStep
<1>5. CASE Crash
  BY <1>5, CrashStep
<1> QED
  BY <1>1, <1>2, <1>3, <1>4, <1>5 DEF Next

-----------------------------------------------------------------------------
(* Every variable has its type, whatever the documents are: unpacking one  *)
(* that has all it needs gives two settings, and nothing of a document is  *)
(* applied after Process_MB_WebConfigRequest has its answer.               *)
THEOREM TypeCorrect == Spec => []TypeOK
<1>1. Init => Invariant
  BY InitInvariant
<1>2. Invariant /\ [Next]_vars => Invariant'
  BY InvariantStep
<1>3. Invariant => TypeOK
  BY DEF Invariant, Sound
<1> QED
  BY <1>1, <1>2, <1>3, PTL DEF Spec

(* For any documents and faults, and with the data model setting what it   *)
(* likes in between: a document that Process_MB_WebConfigRequest refused,  *)
(* or whose first setting failed, turns nothing on that nobody else asked  *)
(* for, neither in its own execution nor through the cache when a later    *)
(* document is rolled back.                                                *)
THEOREM RefusedTurnsNothingOn == Spec => []RefusedStaysOff
<1>1. Init => Invariant
  BY InitInvariant
<1>2. Invariant /\ [Next]_vars => Invariant'
  BY InvariantStep
<1>3. Invariant => RefusedStaysOff
  BY DEF Invariant, Owned, Within, RefusedStaysOff
<1> QED
  BY <1>1, <1>2, <1>3, PTL DEF Spec

(* Where an execution ends, by the answer or after a rollback.             *)
LEMMA EndsOf ==
  ASSUME Sound, Next, Ends
  PROVE  \/ /\ Answer
            /\ UNCHANGED <<stored, cache, backup, before, tainted>>
            /\ exec.ret = "refused" => stored.mesh = backup.mesh
            /\ exec.pc = "answer"
         \/ UndoCache /\ exec.pc = "undo_cache" /\ tainted' = tainted
            /\ before' = before /\ backup' = backup
<1>1. ~Crash
  <2>1. crashes \in Nat /\ crashes' = crashes
    BY WebConfigAssumption DEF Ends, Sound, TypeOK
  <2>2. Crash => crashes' = crashes + 1
    BY DEF Crash
  <2> QED
    BY <2>1, <2>2
<1>2. exec' # exec
  BY DEF Ends
<1>3. /\ ~(\E d \in Docs : Receive(d)) /\ ~(\E v \in BOOLEAN : DmlSets(v))
  BY <1>2 DEF Receive, DmlSets
<1>4. ~(\E d \in waiting : Take(d))
  BY DEF Ends, Take
<1>5. ~Validate /\ ~ApplyMesh /\ ~ApplyEth /\ ~UndoMesh /\ ~UndoEth
  BY DEF Ends, Validate, ApplyMesh, ApplyEth, UndoMesh, UndoEth, Sound, TypeOK,
         Executions
<1>6. CASE Answer
  <2>1. exec.ret = "refused" => stored.mesh = backup.mesh
    BY <1>6 DEF Answer, Ends, Reported, Sound, TypeOK, Executions
  <2> QED
    BY <1>6, <2>1 DEF Answer
<1>7. CASE UndoCache
  BY <1>7 DEF UndoCache
<1> QED
  BY <1>1, <1>3, <1>4, <1>5, <1>6, <1>7 DEF Next, Execute

(* For any documents: after one whose steps all took, and after one that   *)
(* was refused with a saved cache that was true, mb_cache holds what is    *)
(* stored, so that the next document is rolled back to the truth.          *)
THEOREM CacheIsTheTruth == Spec => CacheFollows
<1>1. Init => Invariant
  BY InitInvariant
<1>2. Invariant /\ [Next]_vars => Invariant'
  BY InvariantStep
<1>3. Invariant /\ [Next]_vars =>
        [Ends /\ ~tainted' /\ (Fresh \/ Reported(exec.ret)) =>
           cache' = stored']_vars
  <2> SUFFICES ASSUME Invariant, Next, Ends, ~tainted',
                      Fresh \/ Reported(exec.ret)
               PROVE  cache' = stored'
    OBVIOUS
  <2>1. Sound /\ Progress
    BY DEF Invariant
  <2>2. CASE /\ UNCHANGED <<stored, cache, backup, before, tainted>>
             /\ exec.pc = "answer"
    BY <2>1, <2>2 DEF Progress, Reported, Fresh
  <2>3. CASE exec.pc = "undo_cache" /\ tainted' = tainted
    BY <2>1, <2>3 DEF Progress, Reported
  <2> QED
    BY <2>1, <2>2, <2>3, EndsOf
<1> QED
  BY <1>1, <1>2, <1>3, PTL DEF Spec, CacheFollows
=============================================================================
