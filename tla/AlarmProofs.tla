----------------------------- MODULE AlarmProofs -----------------------------
(***************************************************************************)
(* Proofs about the alarm of a pod that comes up only half way: when       *)
(* EthPods raises it, and what Parodus, which meshHandleTimeout hands it   *)
(* to (notifyEvent), does to get it to the cloud.  The two specifications  *)
(* share no variable and keep their names apart.                           *)
(***************************************************************************)
EXTENDS EthPods, Parodus, SequenceTheorems, TLAPS

(* The watch over Ethernet pods, for any pods, any length of the list, any *)
(* timeout and any setting back of the clock, with the two threads'        *)
(* handlers interleaved between their assignments.                         *)

Entry == [mac: Macs, state: States]

(* The list under TypeOK: a function on 1 .. Len(list).                    *)
LEMMA ListDomain ==
  ASSUME TypeOK
  PROVE  /\ list \in Seq(Entry) /\ Len(list) \in Nat
         /\ DOMAIN list = 1 .. Len(list) /\ DOMAIN list \subseteq Places
         /\ \A i \in DOMAIN list : list[i] \in Entry
<1>1. list \in Seq(Entry) /\ Len(list) <= MaxList
  BY DEF TypeOK, Entry
<1>2. Len(list) \in Nat /\ DOMAIN list = 1 .. Len(list)
  BY <1>1
<1>3. \A i \in DOMAIN list : list[i] \in Entry
  BY <1>1, <1>2
<1>4. DOMAIN list \subseteq Places
  BY <1>1, <1>2, EthPodsAssumption DEF Places
<1> QED
  BY <1>1, <1>2, <1>3, <1>4

LEMMA OutcomeIsHalf ==
  ASSUME NEW e \in Events \cup {"dc"}, NEW i \in Places,
         NEW h \in Outcomes(e, i)
  PROVE  /\ h \in Half /\ h.at = i /\ h # NoMsg
         /\ h.state \in Waiting => e \in Events /\ h.left = Timeout
BY EthPodsAssumption DEF Outcomes, Half, Events, States, Waiting, Past, Far

(* What the first assignment of a handler does to an entry of the list.    *)
LEMMA SetStateEffect ==
  ASSUME TypeOK, NEW t \in Threads, NEW h \in Half, h.at \in DOMAIN list,
         SetState(t, h)
  PROVE  /\ list' \in Seq(Entry) /\ Len(list') = Len(list)
         /\ DOMAIN list' = DOMAIN list
         /\ list'[h.at].state = h.state
         /\ \A i \in DOMAIN list : /\ list'[i].mac = list[i].mac
                                   /\ i # h.at => list'[i] = list[i]
<1> DEFINE e == [list[h.at] EXCEPT !.state = h.state]
<1>1. list \in Seq(Entry) /\ DOMAIN list = 1 .. Len(list) /\ list[h.at] \in Entry
  BY ListDomain
<1>2. e \in Entry /\ e.mac = list[h.at].mac /\ e.state = h.state
  BY <1>1 DEF Entry, Half
<1>3. list' = [list EXCEPT ![h.at] = e]
  BY DEF SetState
<1>4. /\ list' \in Seq(Entry) /\ Len(list') = Len(list)
      /\ \A i \in 1 .. Len(list) : list'[i] = IF i = h.at THEN e ELSE list[i]
  <2> HIDE DEF e
  <2> QED  BY <1>1, <1>2, <1>3, ExceptSeq
<1>5. DOMAIN list' = DOMAIN list
  BY <1>1, <1>4
<1> QED
  BY <1>1, <1>2, <1>4, <1>5
(* What a sweep does to the list.                                          *)
LEMMA SweepEffect ==
  ASSUME TypeOK, Sweep
  PROVE  /\ list' \in Seq(Entry) /\ Len(list') = Len(list)
         /\ DOMAIN list' = DOMAIN list
         /\ \A i \in DOMAIN list :
              /\ list'[i].mac = list[i].mac
              /\ list'[i] # list[i] => list'[i].state = "disconnected"
              /\ Expired(i) => list'[i].state = "disconnected"
<1> DEFINE e(i) == IF Expired(i) THEN [list[i] EXCEPT !.state = "disconnected"]
                                 ELSE list[i]
<1>1. /\ list \in Seq(Entry) /\ Len(list) \in Nat /\ DOMAIN list = 1 .. Len(list)
      /\ \A i \in DOMAIN list : list[i] \in Entry
  BY ListDomain
<1>2. list' = [i \in 1 .. Len(list) |-> e(i)]
  BY <1>1 DEF Sweep
<1>3. \A i \in 1 .. Len(list) :
        /\ e(i) \in Entry /\ e(i).mac = list[i].mac
        /\ e(i) # list[i] => e(i).state = "disconnected"
        /\ Expired(i) => e(i).state = "disconnected"
  BY <1>1 DEF Entry, States
<1> HIDE DEF e
<1>4. list' \in Seq(Entry) /\ Len(list') = Len(list)
  BY <1>1, <1>2, <1>3
<1>5. DOMAIN list' = 1 .. Len(list) /\ \A i \in 1 .. Len(list) : list'[i] = e(i)
  BY <1>2
<1> QED
  BY <1>1, <1>3, <1>4, <1>5

(* What adding a pod does to the list.                                     *)
LEMMA AddPodEffect ==
  ASSUME TypeOK, NEW m \in Macs, AddPod(m)
  PROVE  /\ list' \in Seq(Entry) /\ Len(list') = Len(list) + 1
         /\ Len(list') <= MaxList
         /\ DOMAIN list' = 1 .. Len(list) + 1
         /\ \A i \in DOMAIN list : list'[i] = list[i]
         /\ list'[Len(list) + 1] = [mac |-> m, state |-> "disconnected"]
<1> DEFINE e == [mac |-> m, state |-> "disconnected"]
<1>1. list \in Seq(Entry) /\ Len(list) \in Nat /\ DOMAIN list = 1 .. Len(list)
  BY ListDomain
<1>2. e \in Entry
  BY DEF Entry, States
<1>3. list' = Append(list, e) /\ Len(list) < MaxList
  BY DEF AddPod
<1> HIDE DEF e
<1>4. /\ list' \in Seq(Entry) /\ Len(list') = Len(list) + 1
      /\ \A i \in 1 .. Len(list) : list'[i] = list[i]
      /\ list'[Len(list) + 1] = e
  BY <1>1, <1>2, <1>3, AppendProperties
<1>5. DOMAIN list' = 1 .. Len(list')
  BY <1>4
<1> QED
  BY <1>1, <1>3, <1>4, <1>5, EthPodsAssumption DEF e

(* Every step of Next is one of these.                                     *)
LEMMA EthPodsSteps ==
  ASSUME TypeOK, [Next]_vars
  PROVE  \/ \E m \in Macs : AddPod(m)
         \/ \E t \in Threads, e \in Events \cup {"dc"}, m \in Macs :
              /\ HandleEvent(t, e, m) /\ (t = "dbus" => e = "dc")
              /\ rxBuf' \in (Events \X Macs) \cup {NoMsg}
         \/ \E t \in Threads : SetTimeout(t)
         \/ Sweep
         \/ Tick
         \/ SetBack
         \/ UNCHANGED vars
<1>1. ASSUME NEW e \in Events, NEW m \in Macs, Receive(e, m)
      PROVE  \E t \in Threads, d \in Events \cup {"dc"}, k \in Macs :
               /\ HandleEvent(t, d, k) /\ (t = "dbus" => d = "dc")
               /\ rxBuf' \in (Events \X Macs) \cup {NoMsg}
  <2>1. HandleEvent("lease", e, m) /\ rxBuf' = <<e, m>>
    BY <1>1 DEF Receive
  <2> QED
    BY <2>1 DEF Threads
<1>2. ASSUME SelectFails
      PROVE  \E t \in Threads, d \in Events \cup {"dc"}, k \in Macs :
               /\ HandleEvent(t, d, k) /\ (t = "dbus" => d = "dc")
               /\ rxBuf' \in (Events \X Macs) \cup {NoMsg}
  <2>1. rxBuf \in Events \X Macs
    BY <1>2 DEF SelectFails, TypeOK
  <2>2. rxBuf[1] \in Events /\ rxBuf[2] \in Macs
    BY <2>1
  <2>3. HandleEvent("lease", rxBuf[1], rxBuf[2]) /\ rxBuf' = rxBuf
    BY <1>2 DEF SelectFails
  <2> QED
    BY <2>1, <2>2, <2>3 DEF Threads
<1>3. ASSUME NEW m \in Macs, Offline(m)
      PROVE  \E t \in Threads, d \in Events \cup {"dc"}, k \in Macs :
               /\ HandleEvent(t, d, k) /\ (t = "dbus" => d = "dc")
               /\ rxBuf' \in (Events \X Macs) \cup {NoMsg}
  BY <1>3 DEF Offline, Threads, TypeOK
<1> QED
  BY <1>1, <1>2, <1>3 DEF Next

-----------------------------------------------------------------------------
(* Type correctness.                                                       *)

LEMMA EthPodsTypeStep == TypeOK /\ [Next]_vars => TypeOK'
<1> SUFFICES ASSUME TypeOK, [Next]_vars  PROVE  TypeOK'
  OBVIOUS
<1> USE EthPodsAssumption
<1>1. ASSUME NEW m \in Macs, AddPod(m)  PROVE  TypeOK'
  BY <1>1, AddPodEffect DEF AddPod, TypeOK, Entry
<1>2. ASSUME NEW t \in Threads, NEW e \in Events \cup {"dc"}, NEW m \in Macs,
             HandleEvent(t, e, m), rxBuf' \in (Events \X Macs) \cup {NoMsg}
      PROVE  TypeOK'
  <2>1. ASSUME NEW i \in DOMAIN list, NEW h \in Outcomes(e, i), SetState(t, h)
        PROVE  TypeOK'
    <3>1. i \in Places /\ h \in Half /\ h.at = i
      BY ListDomain, OutcomeIsHalf
    <3>2. list' \in Seq(Entry) /\ Len(list') = Len(list)
      BY <2>1, <3>1, SetStateEffect
    <3>3. half' \in [Threads -> Half \cup {NoMsg}]
      BY <2>1, <3>1 DEF SetState, TypeOK
    <3>4. waited' \in [Places -> 0 .. Timeout]
      BY <2>1, <3>1 DEF SetState, TypeOK
    <3> QED
      BY <1>2, <3>2, <3>3, <3>4 DEF HandleEvent, TypeOK, Entry
  <2> QED
    BY <1>2, <2>1 DEF HandleEvent, TypeOK
<1>3. ASSUME NEW t \in Threads, SetTimeout(t)  PROVE  TypeOK'
  <2>1. half[t] \in Half
    BY <1>3 DEF SetTimeout, TypeOK
  <2>2. half[t].at \in Places /\ half[t].left \in Past .. Far
    BY <2>1 DEF Half
  <2>3. left' \in [Places -> Past .. Far] /\ torn' \subseteq Places
    BY <1>3, <2>2 DEF SetTimeout, TypeOK
  <2> QED
    BY <1>3, <2>3 DEF SetTimeout, TypeOK
<1>4. CASE Sweep
  <2>1. list' \in Seq(Entry) /\ Len(list') = Len(list)
    BY <1>4, SweepEffect
  <2>2. left' \in [Places -> Past .. Far]
    BY <1>4 DEF Sweep, TypeOK, Past, Far
  <2> QED
    BY <1>4, <2>1, <2>2 DEF Sweep, TypeOK, Entry
<1>5. CASE Tick
  <2>1. \A d \in Past .. Far : Nearer(d) \in Past .. Far
    BY DEF Nearer, Past, Far
  <2>2. \A t \in Threads : half'[t] \in Half \cup {NoMsg}
    BY <1>5, <2>1 DEF Tick, TypeOK, Half
  <2>3. half' \in [Threads -> Half \cup {NoMsg}]
    BY <1>5, <2>2 DEF Tick
  <2>4. left' \in [Places -> Past .. Far] /\ waited' \in [Places -> 0 .. Timeout]
    BY <1>5, <2>1 DEF Tick, TypeOK
  <2> QED
    BY <1>5, <2>3, <2>4 DEF Tick, TypeOK
<1>6. CASE SetBack
  <2>1. \A d \in Past .. Far : Further(d) \in Past .. Far
    BY DEF Further, Past, Far
  <2>2. \A t \in Threads : half'[t] \in Half \cup {NoMsg}
    BY <1>6, <2>1 DEF SetBack, TypeOK, Half
  <2>3. half' \in [Threads -> Half \cup {NoMsg}]
    BY <1>6, <2>2 DEF SetBack
  <2>4. left' \in [Places -> Past .. Far]
    BY <1>6, <2>1 DEF SetBack, TypeOK
  <2> QED
    BY <1>6, <2>3, <2>4 DEF SetBack, TypeOK
<1>7. CASE UNCHANGED vars
  BY <1>7 DEF vars, TypeOK
<1> QED
  BY <1>1, <1>2, <1>3, <1>4, <1>5, <1>6, <1>7, EthPodsSteps

(* The state of the watch is well formed, whatever dnsmasq sends.          *)
THEOREM EthPodsTypeCorrect == Spec => []TypeOK
<1>1. Init => TypeOK
  <2> SUFFICES ASSUME Init  PROVE  TypeOK
    OBVIOUS
  <2>1. list \in Seq(Entry) /\ Len(list) = 0
    BY DEF Init
  <2>2. left \in [Places -> Past .. Far]
    BY EthPodsAssumption DEF Init, Past, Far
  <2>3. waited \in [Places -> 0 .. Timeout]
    BY EthPodsAssumption DEF Init
  <2>4. half \in [Threads -> Half \cup {NoMsg}]
    BY DEF Init
  <2>5. /\ rxBuf \in (Events \X Macs) \cup {NoMsg}
        /\ torn \subseteq Places
    BY DEF Init
  <2>6. Len(list) <= MaxList
    BY <2>1, EthPodsAssumption
  <2> QED
    BY <2>1, <2>2, <2>3, <2>4, <2>5, <2>6 DEF TypeOK, Entry
<1> QED
  BY <1>1, EthPodsTypeStep, PTL DEF Spec

-----------------------------------------------------------------------------
(* A pod is watched once, however often it is added to the list.           *)
THEOREM OnePodOneWatch == Spec => []WatchedOnce
<1>1. Init => WatchedOnce
  BY DEF Init, WatchedOnce
<1>2. TypeOK /\ WatchedOnce /\ [Next]_vars => WatchedOnce'
  <2> SUFFICES ASSUME TypeOK, WatchedOnce, [Next]_vars  PROVE  WatchedOnce'
    OBVIOUS
  <2>0. DOMAIN list = 1 .. Len(list) /\ Len(list) \in Nat
    BY ListDomain
  <2>1. ASSUME NEW m \in Macs, AddPod(m)  PROVE  WatchedOnce'
    <3> SUFFICES ASSUME NEW i \in DOMAIN list', NEW k \in 1 .. i - 1,
                        list'[k].mac = list'[i].mac
                 PROVE  list'[i].state = "disconnected"
      BY DEF WatchedOnce
    <3>1. /\ DOMAIN list' = 1 .. Len(list) + 1
          /\ \A j \in DOMAIN list : list'[j] = list[j]
          /\ list'[Len(list) + 1] = [mac |-> m, state |-> "disconnected"]
      BY <2>1, AddPodEffect
    <3>2. CASE i = Len(list) + 1
      BY <3>1, <3>2
    <3>3. CASE i \in 1 .. Len(list)
      BY <2>0, <3>1, <3>3 DEF WatchedOnce
    <3> QED
      BY <2>0, <3>1, <3>2, <3>3
  <2>2. ASSUME NEW t \in Threads, NEW e \in Events \cup {"dc"}, NEW m \in Macs,
               HandleEvent(t, e, m)
        PROVE  WatchedOnce'
    <3>1. ASSUME NEW i \in DOMAIN list, IsFirst(i, m),
                 NEW h \in Outcomes(e, i), SetState(t, h)
          PROVE  WatchedOnce'
      <4>1. i \in Places /\ h \in Half /\ h.at = i
        BY ListDomain, OutcomeIsHalf
      <4>2. /\ DOMAIN list' = DOMAIN list
            /\ \A j \in DOMAIN list : /\ list'[j].mac = list[j].mac
                                      /\ j # i => list'[j] = list[j]
        BY <3>1, <4>1, SetStateEffect
      <4> QED
        BY <2>0, <3>1, <4>2 DEF WatchedOnce, IsFirst
    <3> QED
      BY <2>2, <3>1 DEF HandleEvent, WatchedOnce
  <2>3. ASSUME NEW t \in Threads, SetTimeout(t)  PROVE  WatchedOnce'
    BY <2>3 DEF SetTimeout, WatchedOnce
  <2>4. CASE Sweep
    BY <2>0, <2>4, SweepEffect DEF WatchedOnce
  <2>5. CASE Tick
    BY <2>5 DEF Tick, WatchedOnce
  <2>6. CASE SetBack
    BY <2>6 DEF SetBack, WatchedOnce
  <2>7. CASE UNCHANGED vars
    BY <2>7 DEF vars, WatchedOnce
  <2> QED
    BY <2>1, <2>2, <2>3, <2>4, <2>5, <2>6, <2>7, EthPodsSteps
<1> QED
  BY <1>1, <1>2, EthPodsTypeCorrect, PTL DEF Spec
-----------------------------------------------------------------------------
(* The deadline.  A deadline that counts was set Timeout ticks after the   *)
(* entry's last event and moves closer by a tick at a time: that of an     *)
(* entry in the list, unless its handlers overlapped or leaseServer's is   *)
(* still to set it, and that which leaseServer's is about to set, unless   *)
(* the other thread has changed the state already.                         *)

Pending(i) == half["lease"] # NoMsg /\ half["lease"].at = i

Set(i) ==
  list[i].state \in Waiting /\ i \notin torn /\ ~Pending(i)
    => left[i] + waited[i] >= Timeout

AboutToSet ==
  LET h == half["lease"]
  IN  h # NoMsg => /\ h.at \in DOMAIN list
                   /\ list[h.at].state \in Waiting =>
                        /\ h.state = list[h.at].state
                        /\ h.left + waited[h.at] >= Timeout

OtherEnds ==
  LET h == half["dbus"]
  IN  h # NoMsg => h.at \in DOMAIN list /\ h.state = "disconnected"

DeadlineInv == (\A i \in DOMAIN list : Set(i)) /\ AboutToSet /\ OtherEnds

LEMMA DeadlineStep == TypeOK /\ DeadlineInv /\ [Next]_vars => DeadlineInv'
<1> SUFFICES ASSUME TypeOK, DeadlineInv, [Next]_vars  PROVE  DeadlineInv'
  OBVIOUS
<1> USE EthPodsAssumption
<1>0. /\ DOMAIN list = 1 .. Len(list) /\ DOMAIN list \subseteq Places
      /\ Len(list) \in Nat
      /\ \A i \in DOMAIN list : left[i] \in Int /\ waited[i] \in 0 .. Timeout
      /\ \A t \in Threads : half[t] # NoMsg =>
           half[t] \in Half /\ half[t].left \in Int /\ half[t].at \in Places
  BY ListDomain DEF TypeOK, Half, Past, Far
<1>1. ASSUME NEW m \in Macs, AddPod(m)  PROVE  DeadlineInv'
  <2>0. list'[Len(list) + 1] = [mac |-> m, state |-> "disconnected"]
    BY <1>1, AddPodEffect
  <2>1. /\ DOMAIN list' = 1 .. Len(list) + 1
        /\ \A j \in DOMAIN list : list'[j] = list[j]
        /\ list'[Len(list) + 1].state = "disconnected"
    BY <1>1, <2>0, AddPodEffect
  <2>2. UNCHANGED <<left, half, waited, torn>>
    BY <1>1 DEF AddPod
  <2> QED
    BY <1>0, <2>1, <2>2
       DEF DeadlineInv, Set, Pending, AboutToSet, OtherEnds, Waiting
<1>2. ASSUME NEW t \in Threads, NEW e \in Events \cup {"dc"}, NEW m \in Macs,
             HandleEvent(t, e, m), t = "dbus" => e = "dc"
      PROVE  DeadlineInv'
  <2>1. ASSUME NEW i \in DOMAIN list, NEW h \in Outcomes(e, i), SetState(t, h)
        PROVE  DeadlineInv'
    <3>1. /\ i \in Places /\ h \in Half /\ h.at = i /\ h # NoMsg
          /\ h.state \in Waiting => e \in Events /\ h.left = Timeout
      BY <1>0, OutcomeIsHalf
    <3>2. /\ DOMAIN list' = DOMAIN list
          /\ list'[i].state = h.state
          /\ \A j \in DOMAIN list : j # i => list'[j] = list[j]
      BY <2>1, <3>1, SetStateEffect
    <3>3. /\ half' = [half EXCEPT ![t] = h] /\ waited' = [waited EXCEPT ![i] = 0]
          /\ half[t] = NoMsg /\ UNCHANGED <<left, torn>>
      BY <1>2, <2>1, <3>1 DEF HandleEvent, SetState
    <3>4. waited'[i] = 0 /\ \A j \in Places : j # i => waited'[j] = waited[j]
      BY <3>1, <3>3 DEF TypeOK
    <3>5. half'[t] = h /\ \A u \in Threads : u # t => half'[u] = half[u]
      BY <3>3 DEF TypeOK
    <3>6. CASE t = "lease"
      <4>1. half'["lease"] = h /\ half'["dbus"] = half["dbus"]
        BY <3>5, <3>6 DEF Threads
      <4>2. AboutToSet'
        BY <3>1, <3>2, <3>4, <4>1 DEF AboutToSet
      <4>3. OtherEnds'
        BY <3>2, <4>1 DEF OtherEnds, DeadlineInv
      <4>4. \A j \in DOMAIN list : Set(j)'
        BY <1>0, <3>1, <3>2, <3>3, <3>4, <3>6, <4>1 DEF DeadlineInv, Set, Pending
      <4> QED
        BY <3>2, <4>2, <4>3, <4>4 DEF DeadlineInv
    <3>7. CASE t = "dbus"
      <4>1. half'["dbus"] = h /\ half'["lease"] = half["lease"]
        BY <3>5, <3>7 DEF Threads
      <4>2. h.state = "disconnected"
        BY <1>2, <3>7 DEF Outcomes
      <4>3. AboutToSet'
        BY <1>0, <3>2, <3>4, <4>1, <4>2 DEF DeadlineInv, AboutToSet, Waiting, Threads
      <4>4. OtherEnds'
        BY <3>1, <3>2, <4>1, <4>2 DEF OtherEnds
      <4>5. \A j \in DOMAIN list : Set(j)'
        BY <1>0, <3>2, <3>3, <3>4, <4>1, <4>2
           DEF DeadlineInv, Set, Pending, Waiting
      <4> QED
        BY <3>2, <4>3, <4>4, <4>5 DEF DeadlineInv
    <3> QED
      BY <3>6, <3>7 DEF Threads
  <2> QED
    BY <1>2, <2>1
       DEF HandleEvent, DeadlineInv, Set, Pending, AboutToSet, OtherEnds
<1>3. ASSUME NEW t \in Threads, SetTimeout(t)  PROVE  DeadlineInv'
  <2> DEFINE h == half[t]
  <2>1. h # NoMsg /\ h.at \in DOMAIN list /\ h.at \in Places /\ h.left \in Int
    BY <1>0, <1>3 DEF SetTimeout, DeadlineInv, AboutToSet, OtherEnds, Threads
  <2>2. /\ left'[h.at] = h.left
        /\ \A j \in Places : j # h.at => left'[j] = left[j]
    BY <1>3, <2>1 DEF SetTimeout, TypeOK
  <2>3. /\ half'[t] = NoMsg /\ \A u \in Threads : u # t => half'[u] = half[u]
        /\ UNCHANGED <<list, waited>>
        /\ \A j \in Places : j # h.at => (j \in torn' <=> j \in torn)
        /\ h.at \in torn' <=> list[h.at].state # h.state
    BY <1>3, <2>1 DEF SetTimeout, TypeOK
  <2>4. CASE t = "lease"
    <3>1. half'["lease"] = NoMsg /\ half'["dbus"] = half["dbus"]
      BY <2>3, <2>4 DEF Threads
    <3>2. list[h.at].state \in Waiting => h.left + waited[h.at] >= Timeout
      BY <2>1, <2>4 DEF DeadlineInv, AboutToSet
    <3>3. \A j \in DOMAIN list : j # h.at => ~Pending(j)
      BY <2>4 DEF Pending
    <3>4. \A j \in DOMAIN list : Set(j)'
      BY <1>0, <2>1, <2>2, <2>3, <3>2, <3>3 DEF DeadlineInv, Set
    <3> QED
      BY <2>3, <3>1, <3>4 DEF DeadlineInv, AboutToSet, OtherEnds
  <2>5. CASE t = "dbus"
    <3>1. half'["dbus"] = NoMsg /\ half'["lease"] = half["lease"]
      BY <2>3, <2>5 DEF Threads
    <3>2. h.state = "disconnected"
      BY <2>1, <2>5 DEF DeadlineInv, OtherEnds
    <3>3. \A j \in DOMAIN list : Set(j)'
      BY <1>0, <2>1, <2>2, <2>3, <3>1, <3>2
         DEF DeadlineInv, Set, Pending, Waiting
    <3> QED
      BY <2>3, <3>1, <3>3 DEF DeadlineInv, AboutToSet, OtherEnds
  <2> QED
    BY <2>4, <2>5 DEF Threads
<1>4. CASE Sweep
  <2>1. /\ DOMAIN list' = DOMAIN list
        /\ \A i \in DOMAIN list :
             /\ list'[i] # list[i] => list'[i].state = "disconnected"
             /\ Expired(i) => list'[i].state = "disconnected"
    BY <1>4, SweepEffect
  <2>2. /\ UNCHANGED <<half, waited, torn>> /\ half["lease"] = NoMsg
        /\ \A i \in DOMAIN list : ~Expired(i) => left'[i] = left[i]
    BY <1>0, <1>4 DEF Sweep
  <2> QED
    BY <1>0, <2>1, <2>2
       DEF DeadlineInv, Set, Pending, AboutToSet, OtherEnds, Waiting
<1>5. CASE Tick
  <2>1. /\ UNCHANGED <<list, torn>>
        /\ \A i \in Places : /\ left'[i] = Nearer(left[i])
                             /\ waited'[i] = IF waited[i] = Timeout THEN Timeout
                                             ELSE waited[i] + 1
    BY <1>5 DEF Tick
  <2>2. \A t \in Threads :
          /\ half'[t] = NoMsg <=> half[t] = NoMsg
          /\ half[t] # NoMsg => /\ half'[t].at = half[t].at
                                /\ half'[t].state = half[t].state
                                /\ half'[t].left = Nearer(half[t].left)
    <3> SUFFICES ASSUME NEW t \in Threads, half[t] # NoMsg
                 PROVE  /\ half'[t] # NoMsg /\ half'[t].at = half[t].at
                        /\ half'[t].state = half[t].state
                        /\ half'[t].left = Nearer(half[t].left)
      BY <1>5 DEF Tick
    <3>1. half[t] \in Half
      BY <1>0
    <3>2. half'[t] = [half[t] EXCEPT !.left = Nearer(half[t].left)]
      BY <1>5 DEF Tick
    <3>3. Nearer(half[t].left) \in Past .. Far
      BY <3>1 DEF Half, Nearer, Past, Far
    <3>4. half'[t] \in Half
      BY <3>1, <3>2, <3>3 DEF Half
    <3> QED
      BY <3>1, <3>2, <3>4 DEF Half
  <2>3. \A d \in Int, w \in 0 .. Timeout :
          d + w >= Timeout =>
            Nearer(d) + (IF w = Timeout THEN Timeout ELSE w + 1) >= Timeout
    BY DEF Nearer
  <2>4. \A i \in DOMAIN list : Set(i)'
    <3> SUFFICES ASSUME NEW i \in DOMAIN list, list[i].state \in Waiting,
                        i \notin torn, ~Pending(i)'
                 PROVE  left'[i] + waited'[i] >= Timeout
      BY <2>1 DEF Set
    <3>1. ~Pending(i)
      BY <2>2 DEF Pending, Threads
    <3>2. left[i] + waited[i] >= Timeout
      BY <3>1 DEF DeadlineInv, Set
    <3> QED
      BY <1>0, <2>1, <2>3, <3>2
  <2>5. AboutToSet'
    <3> SUFFICES ASSUME half["lease"] # NoMsg
                 PROVE  LET h == half'["lease"]
                        IN  /\ h.at \in DOMAIN list
                            /\ list[h.at].state \in Waiting =>
                                 /\ h.state = list[h.at].state
                                 /\ h.left + waited'[h.at] >= Timeout
      BY <2>1, <2>2 DEF AboutToSet, Threads
    <3>1. /\ half'["lease"].at = half["lease"].at
          /\ half'["lease"].state = half["lease"].state
      BY <2>2 DEF Threads
    <3>2. half["lease"].left \in Int /\ half["lease"].at \in Places
      BY <1>0 DEF Threads
    <3>3. half["lease"].at \in DOMAIN list
      BY DEF DeadlineInv, AboutToSet
    <3>4. ASSUME list[half["lease"].at].state \in Waiting
          PROVE  /\ half["lease"].state = list[half["lease"].at].state
                 /\ half["lease"].left + waited[half["lease"].at] >= Timeout
      BY <3>4 DEF DeadlineInv, AboutToSet
    <3>5. half'["lease"].left = Nearer(half["lease"].left)
      BY <2>2 DEF Threads
    <3>6. ASSUME list[half["lease"].at].state \in Waiting
          PROVE  half'["lease"].left + waited'[half["lease"].at] >= Timeout
      BY <1>0, <2>1, <2>3, <3>2, <3>3, <3>4, <3>5, <3>6
    <3> QED
      BY <3>1, <3>3, <3>4, <3>6
  <2>6. OtherEnds'
    BY <2>1, <2>2 DEF DeadlineInv, OtherEnds, Threads
  <2> QED
    BY <2>1, <2>4, <2>5, <2>6 DEF DeadlineInv
<1>6. CASE SetBack
  <2>1. /\ UNCHANGED <<list, waited, torn>>
        /\ \A i \in Places : left'[i] = Further(left[i])
    BY <1>6 DEF SetBack
  <2>2. \A t \in Threads :
          /\ half'[t] = NoMsg <=> half[t] = NoMsg
          /\ half[t] # NoMsg => /\ half'[t].at = half[t].at
                                /\ half'[t].state = half[t].state
                                /\ half'[t].left = Further(half[t].left)
    <3> SUFFICES ASSUME NEW t \in Threads, half[t] # NoMsg
                 PROVE  /\ half'[t] # NoMsg /\ half'[t].at = half[t].at
                        /\ half'[t].state = half[t].state
                        /\ half'[t].left = Further(half[t].left)
      BY <1>6 DEF SetBack
    <3>1. half[t] \in Half
      BY <1>0
    <3>2. half'[t] = [half[t] EXCEPT !.left = Further(half[t].left)]
      BY <1>6 DEF SetBack
    <3>3. Further(half[t].left) \in Past .. Far
      BY <3>1 DEF Half, Further, Past, Far
    <3>4. half'[t] \in Half
      BY <3>1, <3>2, <3>3 DEF Half
    <3> QED
      BY <3>1, <3>2, <3>4 DEF Half
  <2>3. \A d \in Int : Further(d) \in Int /\ Further(d) >= d
    BY DEF Further
  <2>4. \A i \in DOMAIN list : Set(i)'
    <3> SUFFICES ASSUME NEW i \in DOMAIN list, list[i].state \in Waiting,
                        i \notin torn, ~Pending(i)'
                 PROVE  left'[i] + waited'[i] >= Timeout
      BY <2>1 DEF Set
    <3>1. ~Pending(i)
      BY <2>2 DEF Pending, Threads
    <3>2. left[i] + waited[i] >= Timeout
      BY <3>1 DEF DeadlineInv, Set
    <3>3. left'[i] \in Int /\ left'[i] >= left[i] /\ left[i] \in Int
      <4>1. i \in Places /\ left[i] \in Int
        BY <1>0
      <4>2. left'[i] = Further(left[i])
        BY <1>6, <4>1 DEF SetBack
      <4> QED
        BY <2>3, <4>1, <4>2
    <3>4. waited'[i] = waited[i] /\ waited[i] \in Int
      BY <1>0, <2>1
    <3> QED
      BY <3>2, <3>3, <3>4
  <2>5. AboutToSet'
    <3> SUFFICES ASSUME half["lease"] # NoMsg
                 PROVE  LET h == half'["lease"]
                        IN  /\ h.at \in DOMAIN list
                            /\ list[h.at].state \in Waiting =>
                                 /\ h.state = list[h.at].state
                                 /\ h.left + waited'[h.at] >= Timeout
      BY <2>1, <2>2 DEF AboutToSet, Threads
    <3>1. /\ half'["lease"].at = half["lease"].at
          /\ half'["lease"].state = half["lease"].state
      BY <2>2 DEF Threads
    <3>2. half["lease"].left \in Int /\ half["lease"].at \in Places
      BY <1>0 DEF Threads
    <3>3. half["lease"].at \in DOMAIN list
      BY DEF DeadlineInv, AboutToSet
    <3>4. ASSUME list[half["lease"].at].state \in Waiting
          PROVE  /\ half["lease"].state = list[half["lease"].at].state
                 /\ half["lease"].left + waited[half["lease"].at] >= Timeout
      BY <3>4 DEF DeadlineInv, AboutToSet
    <3>5. half'["lease"].left = Further(half["lease"].left)
      BY <2>2 DEF Threads
    <3>6. ASSUME list[half["lease"].at].state \in Waiting
          PROVE  half'["lease"].left + waited'[half["lease"].at] >= Timeout
      <4>1. half'["lease"].left \in Int
            /\ half'["lease"].left >= half["lease"].left
        BY <2>3, <3>2, <3>5
      <4>2. waited'[half["lease"].at] = waited[half["lease"].at]
        BY <2>1
      <4>3. waited[half["lease"].at] \in Int
        BY <1>0, <3>3
      <4>4. half["lease"].left + waited[half["lease"].at] >= Timeout
        BY <3>4, <3>6
      <4> QED
        BY <4>1, <4>2, <4>3, <4>4, <3>2
    <3> QED
      BY <3>1, <3>3, <3>4, <3>6
  <2>6. OtherEnds'
    BY <2>1, <2>2 DEF DeadlineInv, OtherEnds, Threads
  <2> QED
    BY <2>1, <2>4, <2>5, <2>6 DEF DeadlineInv
<1>7. CASE UNCHANGED vars
  BY <1>7 DEF vars, DeadlineInv, Set, Pending, AboutToSet, OtherEnds
<1> QED
  BY <1>1, <1>2, <1>3, <1>4, <1>5, <1>6, <1>7, EthPodsSteps

(* No alarm comes early, unless a pod's handlers overlapped.               *)
THEOREM NoEarlyAlarm == Spec => DeadlineKept
<1>1. Init => DeadlineInv
  BY DEF Init, DeadlineInv, AboutToSet, OtherEnds, Threads
<1>2. TypeOK /\ DeadlineInv =>
        (Sweep => \A i \in DOMAIN list :
                    Expired(i) => waited[i] = Timeout \/ i \in torn)
  <2> SUFFICES ASSUME TypeOK, DeadlineInv, Sweep,
                      NEW i \in DOMAIN list, Expired(i), i \notin torn
               PROVE  waited[i] = Timeout
    OBVIOUS
  <2>1. left[i] \in Int /\ waited[i] \in 0 .. Timeout /\ Timeout \in Nat
    BY ListDomain, EthPodsAssumption DEF TypeOK, Past, Far
  <2>2. left[i] <= 0 /\ list[i].state \in Waiting /\ ~Pending(i)
    BY DEF Expired, Sweep, Pending
  <2>3. left[i] + waited[i] >= Timeout
    BY <2>2 DEF DeadlineInv, Set
  <2> QED
    BY <2>1, <2>2, <2>3
<1> QED
  BY <1>1, <1>2, DeadlineStep, EthPodsTypeCorrect, PTL DEF Spec, DeadlineKept

-----------------------------------------------------------------------------
(* The connection to parodus and the notifications over it, for any waits  *)
(* that grow with the exponent, any limit of the exponent and any number   *)
(* of retries.                                                             *)

ConnExps == FirstExp .. MaxExp

(* The waits as numbers, and the longest of each thread.                   *)
LEMMA WaitsBounded ==
  /\ MaxExp \in Nat /\ Retries \in Nat
  /\ Patience \in Nat
  /\ \A c \in ConnExps : Backoff(c) \in Nat /\ Backoff(c) <= Backoff(MaxExp)
  /\ \A c \in FirstExp .. FirstExp + Retries :
       Backoff(c) \in Nat /\ Backoff(c) <= Backoff(FirstExp + Retries)
<1>1. MaxExp \in Nat /\ MaxExp > FirstExp /\ Retries \in Nat /\ FirstExp \in Nat
  BY ParodusAssumption DEF FirstExp
<1>2. /\ ConnExps \subseteq Exponents
      /\ FirstExp .. FirstExp + Retries \subseteq Exponents
      /\ MaxExp - 1 \in Exponents /\ MaxExp \in Exponents
      /\ FirstExp + Retries \in Exponents
  BY <1>1 DEF ConnExps, Exponents
<1>3. Patience \in Nat
  BY <1>2, ParodusAssumption DEF Patience
<1>4. \A c \in ConnExps : Backoff(c) \in Nat /\ Backoff(c) <= Backoff(MaxExp)
  BY <1>1, <1>2, ParodusAssumption DEF ConnExps
<1>5. \A c \in FirstExp .. FirstExp + Retries :
        Backoff(c) \in Nat /\ Backoff(c) <= Backoff(FirstExp + Retries)
  BY <1>1, <1>2, ParodusAssumption
<1> QED
  BY <1>1, <1>3, <1>4, <1>5

(* A wait and the one that follows it, the return to the smallest          *)
(* included, are shorter than Patience.                                    *)
LEMMA TwoWaits ==
  ASSUME NEW c \in ConnExps
  PROVE  /\ NextExp(c) \in ConnExps
         /\ Backoff(c) + Backoff(NextExp(c)) < Patience
<1>1. MaxExp \in Nat /\ MaxExp > FirstExp /\ Retries \in Nat /\ FirstExp \in Nat
  BY ParodusAssumption DEF FirstExp
<1>2. /\ ConnExps \subseteq Exponents
      /\ MaxExp - 1 \in ConnExps /\ MaxExp \in ConnExps /\ FirstExp \in ConnExps
  BY <1>1 DEF ConnExps, Exponents
<1>3. \A d \in ConnExps : Backoff(d) \in Nat
  BY <1>2, ParodusAssumption
<1>4. CASE c = MaxExp
  <2>1. NextExp(c) = FirstExp /\ FirstExp <= MaxExp - 1
    BY <1>1, <1>4 DEF NextExp
  <2>2. Backoff(FirstExp) <= Backoff(MaxExp - 1)
    BY <1>2, <2>1, ParodusAssumption
  <2> QED
    BY <1>2, <1>3, <1>4, <2>1, <2>2 DEF Patience
<1>5. CASE c # MaxExp
  <2>1. NextExp(c) = c + 1 /\ c + 1 \in ConnExps /\ c <= MaxExp - 1 /\ c + 1 <= MaxExp
    BY <1>1, <1>5 DEF NextExp, ConnExps
  <2>2. Backoff(c) <= Backoff(MaxExp - 1) /\ Backoff(c + 1) <= Backoff(MaxExp)
    BY <1>2, <2>1, ParodusAssumption
  <2> QED
    BY <1>2, <1>3, <2>1, <2>2 DEF Patience
<1> QED
  BY <1>4, <1>5

-----------------------------------------------------------------------------
(* The count of attempts and the exponent of a notification go together.   *)
Counted ==
  /\ note.pc # "none" => note.c = FirstExp + note.tried
  /\ note.pc \notin {"none", "asleep"} => note.tried <= Retries
  /\ note.pc = "asleep" => note.tried <= Retries + 1

ParodusInv == ParodusTypeOK /\ Counted

LEMMA ParodusTypeStep ==
  ASSUME ParodusInv, [ParodusNext]_parodusVars
  PROVE  ParodusInv'
<1> USE DEF ParodusInv, ParodusTypeOK, Counted, NotePcs
<1>a. /\ MaxExp \in Nat /\ MaxExp > FirstExp /\ Retries \in Nat /\ FirstExp = 2
      /\ Patience \in Nat
      /\ Backoff(MaxExp) \in Nat /\ Backoff(FirstExp + Retries) \in Nat
  BY WaitsBounded, ParodusAssumption DEF ConnExps, FirstExp
<1>1. CASE ReadUrl
  BY <1>1, <1>a DEF ReadUrl
<1>2. CASE Connect
  <2>1. Backoff(conn.c) \in 0 .. Backoff(MaxExp)
    BY WaitsBounded, <1>a DEF ConnExps
  <2>2. url' \in BOOLEAN
    BY <1>2 DEF Connect
  <2>3. conn' \in [pc: {"read", "try", "asleep", "connected"},
                   c: FirstExp..MaxExp, left: 0..Backoff(MaxExp)]
    BY <1>2, <2>1 DEF Connect
  <2>4. UNCHANGED <<parodus, props, mac, others, note, reachable, early>>
    BY <1>2 DEF Connect
  <2> QED
    BY <2>2, <2>3, <2>4
<1>3. CASE ConnectAgain
  <2>1. NextExp(conn.c) \in FirstExp .. MaxExp
    BY TwoWaits DEF ConnExps
  <2>2. conn' \in [pc: {"read", "try", "asleep", "connected"},
                   c: FirstExp..MaxExp, left: 0..Backoff(MaxExp)]
    BY <1>3, <2>1 DEF ConnectAgain
  <2>3. UNCHANGED <<parodus, props, url, mac, others, note, reachable, early>>
    BY <1>3 DEF ConnectAgain
  <2> QED
    BY <2>2, <2>3
<1>4. CASE Notify
  BY <1>4, <1>a DEF Notify, Idle
<1>5. CASE Look
  BY <1>5, <1>a DEF Look
<1>6. CASE Fetch
  BY <1>6, <1>a DEF Fetch, Idle, Begun
<1>7. CASE Write
  BY <1>7, <1>a DEF Write
<1>8. CASE Compose
  BY <1>8, <1>a DEF Compose
<1>9. CASE Send
  <2>1. note.c \in FirstExp .. FirstExp + Retries
    BY <1>9, <1>a DEF Send
  <2>2. Backoff(note.c) \in 0 .. Backoff(FirstExp + Retries)
    BY <2>1, WaitsBounded, <1>a
  <2>3. note' \in [pc: NotePcs, c: FirstExp..(FirstExp + Retries + 1),
                   tried: 0..(Retries + 1),
                   left: 0..Backoff(FirstExp + Retries),
                   source: {"empty", "part", "full"}]
    <3>1. CASE note' = Idle
      BY <3>1, <1>a DEF Idle
    <3>2. CASE note' = [note EXCEPT !.pc = "asleep", !.tried = note.tried + 1,
                               !.left = Backoff(note.c), !.c = note.c + 1]
      <4>1. /\ note.tried + 1 \in 0..(Retries + 1)
            /\ note.c + 1 \in FirstExp..(FirstExp + Retries + 1)
        BY <1>9, <1>a, <2>1 DEF Send
      <4> QED
        BY <3>2, <4>1, <2>2
    <3> QED
      BY <1>9, <3>1, <3>2 DEF Send
  <2>4. Counted'
    BY <1>9, <1>a, <2>1 DEF Send, Idle
  <2>5. UNCHANGED <<parodus, props, url, conn, mac, others, reachable, early>>
    BY <1>9 DEF Send
  <2> QED
    BY <2>3, <2>4, <2>5
<1>10. CASE SendAgain
  BY <1>10, <1>a DEF SendAgain, Idle
<1>11. CASE OthersWrite
  BY <1>11, <1>a DEF OthersWrite, Begun
<1>12. CASE Environment
  <2>1. parodus' \in BOOLEAN /\ props' \in BOOLEAN
    BY <1>12 DEF Environment
  <2>2. reachable' = 0 /\ UNCHANGED <<url, conn, mac, others, note, early>>
    BY <1>12 DEF Environment
  <2> QED
    BY <1>a, <2>1, <2>2
<1>13. CASE Second
  <2>1. Less(conn.left) \in 0 .. Backoff(MaxExp)
        /\ Less(note.left) \in 0 .. Backoff(FirstExp + Retries)
    BY <1>a DEF Less
  <2>2. reachable' \in 0 .. Patience
    BY <1>13, <1>a DEF Second
  <2> QED
    BY <1>13, <1>a, <2>1, <2>2 DEF Second
<1>14. CASE UNCHANGED parodusVars
  BY <1>14 DEF parodusVars
<1> QED
  BY <1>1, <1>2, <1>3, <1>4, <1>5, <1>6, <1>7, <1>8, <1>9, <1>10, <1>11,
     <1>12, <1>13, <1>14 DEF ParodusNext, Steps

LEMMA ParodusTypeInit == ParodusInit => ParodusInv
<1>1. /\ MaxExp \in Nat /\ MaxExp > FirstExp /\ Retries \in Nat /\ FirstExp = 2
      /\ Patience \in Nat
      /\ Backoff(MaxExp) \in Nat /\ Backoff(FirstExp + Retries) \in Nat
  BY WaitsBounded, ParodusAssumption DEF ConnExps, FirstExp
<1> SUFFICES ASSUME ParodusInit  PROVE  ParodusInv
  OBVIOUS
<1>2. conn \in [pc: {"read", "try", "asleep", "connected"},
                c: FirstExp..MaxExp, left: 0..Backoff(MaxExp)]
  BY <1>1 DEF ParodusInit
<1>3. note \in [pc: NotePcs, c: FirstExp..(FirstExp + Retries + 1),
                tried: 0..(Retries + 1),
                left: 0..Backoff(FirstExp + Retries),
                source: {"empty", "part", "full"}]
  BY <1>1 DEF ParodusInit, Idle, NotePcs
<1>4. /\ parodus \in BOOLEAN /\ props \in BOOLEAN /\ url \in BOOLEAN
      /\ others \in {"none", "looked", "writing"} /\ early \in BOOLEAN
  BY DEF ParodusInit
<1>5. mac \in {"empty", "part", "full"} /\ reachable \in 0..Patience
  BY <1>1 DEF ParodusInit
<1>6. Counted
  BY DEF ParodusInit, Counted, Idle
<1> QED
  BY <1>2, <1>3, <1>4, <1>5, <1>6 DEF ParodusInv, ParodusTypeOK

(* The waits of both threads stay within their limits, and a notification  *)
(* makes Retries + 1 attempts at most (connect_parodus, sendNotification). *)
THEOREM ParodusTypeCorrect == ParodusSpec => []ParodusTypeOK
<1>1. ParodusInit => ParodusInv
  BY ParodusTypeInit
<1>2. ParodusInv /\ [ParodusNext]_parodusVars => ParodusInv'
  BY ParodusTypeStep
<1>3. ParodusInv => ParodusTypeOK
  BY DEF ParodusInv
<1> QED
  BY <1>1, <1>2, <1>3, PTL DEF ParodusSpec

-----------------------------------------------------------------------------
(* How long parodus can have been there, in each state of the connection   *)
(* thread.  Without the URL a wait was begun while there was none to read, *)
(* and after it one more may be needed; with it the next attempt succeeds. *)
Within ==
  /\ reachable > 0 => parodus /\ props
  /\ conn.pc = "read" => reachable = 0
  /\ conn.pc = "try" /\ ~url => reachable + Backoff(conn.c) < Patience
  /\ conn.pc = "try" /\ url => reachable < Patience
  /\ conn.pc = "asleep" /\ ~url => reachable + conn.left <= Backoff(conn.c)
  /\ conn.pc = "asleep" /\ url => reachable + conn.left < Patience

LEMMA WithinStep ==
  ASSUME ParodusInv, Within, [ParodusNext]_parodusVars
  PROVE  Within'
<1> DEFINE B == Backoff(conn.c)
<1>a. /\ conn.c \in ConnExps /\ B \in Nat /\ Patience \in Nat
      /\ conn.left \in Nat /\ reachable \in 0 .. Patience
      /\ Backoff(NextExp(conn.c)) \in Nat
      /\ B + Backoff(NextExp(conn.c)) < Patience
  BY WaitsBounded, TwoWaits DEF ParodusInv, ParodusTypeOK, ConnExps
<1>b. B < Patience
  BY <1>a
<1>1. CASE ReadUrl
  <2>1. conn'.pc = "try" /\ conn'.c = conn.c /\ reachable' = 0
        /\ UNCHANGED <<parodus, props>>
    BY <1>1 DEF ReadUrl, Within, ParodusInv, ParodusTypeOK
  <2> QED
    BY <2>1, <1>a, <1>b DEF Within
<1>2. CASE Connect
  <2>0. /\ conn.pc = "try" /\ reachable' = reachable
        /\ UNCHANGED <<parodus, props>>
    BY <1>2 DEF Connect
  <2>1. CASE parodus /\ url
    <3>1. conn'.pc = "connected"
      BY <1>2, <2>1 DEF Connect, ParodusInv, ParodusTypeOK
    <3> QED
      BY <2>0, <3>1 DEF Within
  <2>2. CASE ~(parodus /\ url)
    <3>1. /\ conn'.pc = "asleep" /\ conn'.c = conn.c /\ conn'.left = B
          /\ url' = (url \/ props)
      BY <1>2, <2>2 DEF Connect, ParodusInv, ParodusTypeOK
    <3>2. ~url' => reachable = 0
      <4>1. ~url' => ~props
        BY <3>1
      <4>2. ~props => ~(reachable > 0)
        BY DEF Within
      <4> QED
        BY <4>1, <4>2, <1>a
    <3>3. reachable + B < Patience
      BY <2>0, <2>2, <1>a, <1>b DEF Within
    <3>4. (reachable > 0 => parodus /\ props)'
      BY <2>0 DEF Within
    <3>5. (conn.pc = "asleep" /\ ~url => reachable + conn.left <= Backoff(conn.c))'
      BY <2>0, <3>1, <3>2, <1>a
    <3>6. (conn.pc = "asleep" /\ url => reachable + conn.left < Patience)'
      BY <2>0, <3>1, <3>3
    <3> QED
      BY <3>1, <3>4, <3>5, <3>6 DEF Within
  <2> QED
    BY <2>1, <2>2
<1>3. CASE ConnectAgain
  <2>1. /\ conn.pc = "asleep" /\ conn.left = 0
        /\ conn'.pc = "try" /\ conn'.c = NextExp(conn.c)
        /\ UNCHANGED <<parodus, props, url, reachable>>
    BY <1>3 DEF ConnectAgain, ParodusInv, ParodusTypeOK
  <2> QED
    BY <2>1, <1>a DEF Within
<1>4. CASE Second
  <2>1. UNCHANGED <<parodus, props, url>>
    BY <1>4 DEF Second
  <2>2. conn'.pc = conn.pc /\ conn'.c = conn.c /\ conn'.left = Less(conn.left)
    BY <1>4 DEF Second, ParodusInv, ParodusTypeOK
  <2>3. conn.pc = "connected" \/ (conn.pc = "asleep" /\ conn.left > 0)
    BY <1>4 DEF Second, Waits
  <2>4. \/ reachable' = reachable
        \/ reachable' = reachable + 1 /\ parodus /\ props
    BY <1>4 DEF Second
  <2>5. conn.left > 0 => Less(conn.left) = conn.left - 1
    BY <1>a DEF Less
  <2> QED
    BY <2>1, <2>2, <2>3, <2>4, <2>5, <1>a DEF Within
<1>5. CASE Environment
  <2>1. reachable' = 0 /\ UNCHANGED <<url, conn>>
    BY <1>5 DEF Environment
  <2> QED
    BY <2>1, <1>a, <1>b DEF Within
<1>6. CASE UNCHANGED <<parodus, props, url, conn, reachable>>
  BY <1>6 DEF Within
<1> QED
  BY <1>1, <1>2, <1>3, <1>4, <1>5, <1>6
  DEF ParodusNext, Steps, Notify, Look, Fetch, Write, Compose, Send, SendAgain,
      OthersWrite, parodusVars

(* connect_parodus gets its connection before parodus and its URL have     *)
(* been there for the two longest waits in a row and a second, although    *)
(* the waits start over and the URL is read only after a failure.          *)
THEOREM ConnectsInTime == ParodusSpec => []ConnectedInTime
<1>1. ParodusInit => ParodusInv /\ Within
  BY ParodusTypeInit DEF ParodusInit, Within
<1>2. ParodusInv /\ Within /\ [ParodusNext]_parodusVars => (ParodusInv /\ Within)'
  BY ParodusTypeStep, WithinStep
<1>3. ParodusInv /\ Within => ConnectedInTime
  <2> SUFFICES ASSUME ParodusInv, Within, reachable = Patience
               PROVE  conn.pc = "connected"
    BY DEF ConnectedInTime
  <2>1. /\ conn.pc \in {"read", "try", "asleep", "connected"}
        /\ conn.left \in Nat /\ Backoff(conn.c) \in Nat /\ Patience \in Nat
        /\ Patience > 0 /\ Backoff(conn.c) < Patience
    BY WaitsBounded, TwoWaits DEF ParodusInv, ParodusTypeOK, ConnExps
  <2> QED
    BY <2>1 DEF Within
<1> QED
  BY <1>1, <1>2, <1>3, PTL DEF ParodusSpec

-----------------------------------------------------------------------------
(* Once deviceMAC is whole it stays so, and every notification that was    *)
(* raised since has a whole one to look at.                                *)
LateIsWhole ==
  /\ note.pc # "none" /\ ~early => mac = "full"
  /\ note.source = "part" => early

(* sendNotification without a lock: whatever other notifications do with   *)
(* deviceMAC, one that was raised when the address was whole carries the   *)
(* whole of it.                                                            *)
THEOREM AddressIsWhole == ParodusSpec => []WholeOnceKnown
<1>1. ParodusInit => LateIsWhole
  BY DEF ParodusInit, LateIsWhole, Idle
<1>2. ParodusTypeOK /\ LateIsWhole /\ [ParodusNext]_parodusVars => LateIsWhole'
  <2> SUFFICES ASSUME ParodusTypeOK, LateIsWhole, [ParodusNext]_parodusVars
               PROVE  LateIsWhole'
    OBVIOUS
  <2> USE DEF ParodusTypeOK, LateIsWhole, NotePcs, Idle
  <2>1. CASE Notify
    BY <2>1 DEF Notify
  <2>2. CASE Look
    BY <2>2 DEF Look
  <2>3. CASE Fetch
    BY <2>3 DEF Fetch, Begun
  <2>4. CASE Write
    BY <2>4 DEF Write
  <2>5. CASE Compose
    BY <2>5 DEF Compose
  <2>6. CASE Send
    BY <2>6 DEF Send
  <2>7. CASE SendAgain
    BY <2>7 DEF SendAgain
  <2>8. CASE OthersWrite
    BY <2>8 DEF OthersWrite, Begun
  <2>9. CASE Second
    BY <2>9 DEF Second
  <2>10. CASE UNCHANGED <<mac, others, note, early>>
    BY <2>10
  <2> QED
    BY <2>1, <2>2, <2>3, <2>4, <2>5, <2>6, <2>7, <2>8, <2>9, <2>10
    DEF ParodusNext, Steps, ReadUrl, Connect, ConnectAgain, Environment, parodusVars
<1>3. LateIsWhole => WholeOnceKnown
  BY DEF LateIsWhole, WholeOnceKnown
<1> QED
  BY <1>1, <1>2, <1>3, ParodusTypeCorrect, PTL DEF ParodusSpec
=============================================================================
