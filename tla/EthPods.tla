------------------------------ MODULE EthPods ------------------------------
(***************************************************************************)
(* Watching the pods that are connected by Ethernet (ethpod_error_det.c).  *)
(* dnsmasq tells the leaseServer thread how far a pod has come: an address *)
(* on the private network, one on the VLAN, one on the backhaul.  A pod    *)
(* that stays between the first and the last for POD_TIMEOUT_MS raises an  *)
(* alarm (notifyEvent) in a sweep the thread makes only when its socket    *)
(* was silent for two seconds.  The data model's thread reports a pod that *)
(* went offline, the vendor's messages add pods to the list; none of the   *)
(* three takes a lock.                                                     *)
(*                                                                         *)
(* A handler is two steps, its assignment to state and its assignment to   *)
(* timeout.  Time is relative: an entry keeps what its deadline is away    *)
(* from the clock that getTime reads.                                      *)
(***************************************************************************)
EXTENDS Integers, Sequences, FiniteSets

CONSTANTS
  Macs,
  Timeout,   \* POD_TIMEOUT_MS, in ticks
  MaxList,   \* bound on the list of pods
  ClockBack, \* how far the wall clock may be set back at once
  NoMsg      \* the empty rxBuf, and no handler under way

States == {"disconnected", "detected", "vlan", "connected"}
Waiting == {"detected", "vlan"}
Events == {"priv", "vlan", "bhaul"}
Threads == {"lease", "dbus"}
Far == Timeout + ClockBack  \* bound on the distance of a deadline
Past == -1                  \* the distance of a timeout of 0, for ever past

VARIABLES
  list,    \* pod_list: mac and state of each entry, oldest first
  left,    \* timeout of each entry, as its distance from the clock
  half,    \* the handlers between their two assignments
  rxBuf,   \* the message leaseServer read last
  waited,  \* history: ticks since the entry's last DHCP event, <= Timeout
  torn     \* history: entries whose last two handlers overlapped

vars == <<list, left, half, rxBuf, waited, torn>>

Places == 1 .. MaxList
Half == [at: Places, state: States, left: Past .. Far]

ASSUME EthPodsAssumption ==
  /\ Timeout \in Nat \ {0} /\ MaxList \in Nat /\ ClockBack \in Nat
  /\ NoMsg \notin Half \cup (Events \X Macs)

TypeOK ==
  /\ list \in Seq([mac: Macs, state: States]) /\ Len(list) <= MaxList
  /\ left \in [Places -> Past .. Far]
  /\ half \in [Threads -> Half \cup {NoMsg}]
  /\ rxBuf \in (Events \X Macs) \cup {NoMsg}
  /\ waited \in [Places -> 0 .. Timeout]
  /\ torn \subseteq Places

Init ==
  /\ list = << >>
  /\ left = [i \in Places |-> Past]
  /\ half = [t \in Threads |-> NoMsg]
  /\ rxBuf = NoMsg
  /\ waited = [i \in Places |-> 0]
  /\ torn = {}

-----------------------------------------------------------------------------
(* Mutant of AddPod: it goes to the head of the list.                      *)
AddPodInFront(m) ==
  /\ Len(list) < MaxList
  /\ list' = <<[mac |-> m, state |-> "disconnected"]>> \o list
  /\ UNCHANGED <<left, half, rxBuf, waited, torn>>

(* meshAddPod: a mac the list has already is added again.                  *)
AddPod(m) ==
  /\ Len(list) < MaxList
  /\ list' = Append(list, [mac |-> m, state |-> "disconnected"])
  /\ UNCHANGED <<left, half, rxBuf, waited, torn>>

Listed(m) == \E i \in DOMAIN list : list[i].mac = m

(* The entry meshHandleEvent picks: the first with that mac.               *)
IsFirst(i, m) == list[i].mac = m /\ \A k \in 1 .. i - 1 : list[k].mac # m

(* What an event makes of the entry; without the time of day a pod that    *)
(* was seen is not watched.                                                *)
Outcomes(e, i) ==
  CASE e = "priv"  -> {[at |-> i, state |-> "detected", left |-> Timeout],
                       [at |-> i, state |-> "disconnected", left |-> Past]}
    [] e = "vlan"  -> {[at |-> i, state |-> "vlan", left |-> Timeout],
                       [at |-> i, state |-> "disconnected", left |-> Past]}
    [] e = "bhaul" -> {[at |-> i, state |-> "connected", left |-> Past]}
    [] e = "dc"    -> {[at |-> i, state |-> "disconnected", left |-> Past]}

(* The first assignment of a handler.                                      *)
SetState(t, h) ==
  /\ list' = [list EXCEPT ![h.at].state = h.state]
  /\ half' = [half EXCEPT ![t] = h]
  /\ waited' = [waited EXCEPT ![h.at] = 0]

(* Mutant of HandleEvent: every entry of the mac is driven.                *)
HandleEventAny(t, e, m) ==
  /\ half[t] = NoMsg
  /\ \E i \in DOMAIN list : /\ list[i].mac = m
                            /\ \E h \in Outcomes(e, i) : SetState(t, h)
  /\ UNCHANGED <<left, torn>>

(* Mutant of HandleEvent: the end of a full list is not noticed.           *)
HandleEventPastEnd(t, e, m) ==
  /\ half[t] = NoMsg
  /\ \/ \E i \in DOMAIN list : /\ IsFirst(i, m)
                                /\ \E h \in Outcomes(e, i) : SetState(t, h)
     \/ ~Listed(m) /\ Len(list) < MaxList /\ UNCHANGED <<list, half, waited>>
     \/ /\ ~Listed(m) /\ Len(list) = MaxList
        /\ \E h \in Outcomes(e, MaxList + 1) : half' = [half EXCEPT ![t] = h]
        /\ UNCHANGED <<list, waited>>
  /\ UNCHANGED <<left, torn>>

(* meshHandleEvent as thread t runs it, for a mac in the list or not; its  *)
(* answer, 0 in both cases, is used by no caller.                          *)
HandleEvent(t, e, m) ==
  /\ half[t] = NoMsg
  /\ \/ \E i \in DOMAIN list : /\ IsFirst(i, m)
                                /\ \E h \in Outcomes(e, i) : SetState(t, h)
     \/ ~Listed(m) /\ UNCHANGED <<list, half, waited>>
  /\ UNCHANGED <<left, torn>>

(* leaseServer dispatches a datagram of dnsmasq.  A select that fails      *)
(* leaves rxBuf as it was, and what is in it is dispatched once more.      *)
Receive(e, m) ==
  /\ HandleEvent("lease", e, m)
  /\ rxBuf' = <<e, m>>

SelectFails ==
  /\ rxBuf # NoMsg
  /\ HandleEvent("lease", rxBuf[1], rxBuf[2])
  /\ UNCHANGED rxBuf

(* Mesh_UpdateConnectedDevice: a pod on an Ethernet port went offline.     *)
Offline(m) ==
  /\ HandleEvent("dbus", "dc", m)
  /\ UNCHANGED rxBuf

(* Mutant of SetTimeout: the deadline is left as it was.                   *)
SetTimeoutLate(t) ==
  /\ half[t] # NoMsg
  /\ LET h == half[t]
     IN  torn' = IF list[h.at].state = h.state THEN torn \ {h.at}
                                               ELSE torn \cup {h.at}
  /\ half' = [half EXCEPT ![t] = NoMsg]
  /\ UNCHANGED <<list, left, rxBuf, waited>>

(* The second assignment of a handler.                                     *)
SetTimeout(t) ==
  /\ half[t] # NoMsg
  /\ LET h == half[t]
     IN  /\ left' = [left EXCEPT ![h.at] = h.left]
         /\ torn' = IF list[h.at].state = h.state THEN torn \ {h.at}
                                                  ELSE torn \cup {h.at}
  /\ half' = [half EXCEPT ![t] = NoMsg]
  /\ UNCHANGED <<list, rxBuf, waited>>

Expired(i) == i \in DOMAIN list /\ left[i] <= 0 /\ list[i].state \in Waiting

(* Mutant of Sweep: only the entry at the head of the list is looked at.   *)
SweepHead ==
  /\ half["lease"] = NoMsg
  /\ list # << >> /\ Expired(1)
  /\ list' = [list EXCEPT ![1].state = "disconnected"]
  /\ left' = [left EXCEPT ![1] = Past]
  /\ UNCHANGED <<half, rxBuf, waited, torn>>

(* leaseServerRead timed out: meshHandleTimeout raises the alarm of every  *)
(* entry that has expired and forgets how far the pod had come.            *)
Sweep ==
  /\ half["lease"] = NoMsg
  /\ list' = [i \in DOMAIN list |->
                IF Expired(i)
                  THEN [list[i] EXCEPT !.state = "disconnected"] ELSE list[i]]
  /\ left' = [i \in Places |-> IF Expired(i) THEN Past ELSE left[i]]
  /\ UNCHANGED <<half, rxBuf, waited, torn>>

(* Time passes.                                                            *)
Nearer(d) == IF d <= 0 THEN d ELSE d - 1

Tick ==
  /\ left' = [i \in Places |-> Nearer(left[i])]
  /\ waited' = [i \in Places |->
                  IF waited[i] = Timeout THEN Timeout ELSE waited[i] + 1]
  /\ half' = [t \in Threads |->
                IF half[t] = NoMsg THEN NoMsg
                ELSE [half[t] EXCEPT !.left = Nearer(@)]]
  /\ UNCHANGED <<list, rxBuf, torn>>

(* The wall clock, which getTime reads, is set back.                       *)
Further(d) == IF d = Past \/ d + ClockBack > Far THEN d ELSE d + ClockBack

SetBack ==
  /\ ClockBack > 0
  /\ left' = [i \in Places |-> Further(left[i])]
  /\ half' = [t \in Threads |->
                IF half[t] = NoMsg THEN NoMsg
                ELSE [half[t] EXCEPT !.left = Further(@)]]
  /\ UNCHANGED <<list, rxBuf, waited, torn>>

Next ==
  \/ \E m \in Macs : AddPod(m)
  \/ \E e \in Events, m \in Macs : Receive(e, m)
  \/ SelectFails
  \/ \E m \in Macs : Offline(m)
  \/ \E t \in Threads : SetTimeout(t)
  \/ Sweep
  \/ Tick
  \/ SetBack

Spec == Init /\ [][Next]_vars

(* Handlers finish, time passes, and a silent socket ends in a sweep.      *)
FairSpec ==
  /\ Spec
  /\ \A t \in Threads : WF_vars(SetTimeout(t))
  /\ WF_vars(Tick)
  /\ WF_vars(Sweep)

-----------------------------------------------------------------------------
(* A pod that is reported to the agent twice is watched once: of several   *)
(* entries with a mac only the first ever leaves POD_DISCONNECTED_ST, so   *)
(* one pod never raises two alarms in a sweep (meshHandleEvent).           *)
WatchedOnce ==
  \A i \in DOMAIN list : \A k \in 1 .. i - 1 :
     list[k].mac = list[i].mac => list[i].state = "disconnected"

(* No alarm before POD_TIMEOUT_MS has gone by since the pod's last DHCP    *)
(* event, whatever meshHandleEvent is called with from the two threads,    *)
(* except after a handler changed the state under another one's hands.     *)
DeadlineKept ==
  [][Sweep => \A i \in DOMAIN list :
       Expired(i) => waited[i] = Timeout \/ i \in torn]_vars

(* When dnsmasq falls silent and the clock is left alone, no pod stays     *)
(* half connected for ever: the alarm of meshHandleTimeout is raised.      *)
Quiet == <>[][/\ ~SetBack
              /\ \A t \in Threads : half[t] = NoMsg => half'[t] = NoMsg]_vars
Stuck(i) == i \in DOMAIN list /\ list[i].state \in Waiting
WaitEnds == Quiet => \A i \in Places : []<>~Stuck(i)
=============================================================================
