----------------------------- MODULE PodBackhaul -----------------------------
(***************************************************************************)
(* The Ethernet backhaul towards dnsmasq and the kernel.                   *)
(*                                                                         *)
(* The vendor tells the agent which Ethernet clients are pods; the agent   *)
(* remembers them (EthPodMacs) and has dnsmasq filter them.  dnsmasq has   *)
(* no memory: it polls for the pods when it starts, and complains of a pod *)
(* it does not filter.  When a filtered pod has its lease dnsmasq asks for *)
(* a GRE tunnel, named after the pod's index in EthPodMacs.                *)
(*                                                                         *)
(* Four threads send to dnsmasq through one descriptor, dnsmasqFd, that    *)
(* each of them opens, uses and closes without a lock.  What a thread has  *)
(* left to do is its sequence of steps (todo).  dnsmasq, the vendor's      *)
(* answer and the kernel are external.                                     *)
(***************************************************************************)
EXTENDS Integers, Sequences, SequencesExt

CONSTANTS
  Pods,      \* the pods on Ethernet
  Setters,   \* the threads that set the flag: the data model's, webconfig's
  MaxPods,   \* MAX_POD_COUNT
  Platform,  \* what is_xf3_xb3_platform finds
  MaxCalls,  \* bound: what others ask of the agent
  MaxFaults  \* bound: crashes, restarts, lost datagrams, failed calls

ASSUME PodBackhaulAssumption ==
  /\ Setters \subseteq {"dml", "exec"} /\ "dml" \in Setters
  /\ MaxPods \in Nat \ {0}
  /\ Platform \in {"XF3", "XB3", "HUB4", "other"}
  /\ MaxCalls \in Nat /\ MaxFaults \in Nat

Dummy == "00:00:00:00:00:00"
None == "none"
Threads == {"lease", "vendor"} \cup Setters

VARIABLES
  ebh,       \* g_pMeshAgent->PodEthernetBackhaulEnable
  stored,    \* the same in syscfg
  pods,      \* EthPodMacs
  fd,        \* dnsmasqFd: "closed" (0), "bad" (-1) or "open"
  gmss,      \* gmssClamped
  todo,      \* per thread, the steps it has left
  filter,    \* dnsmasq: the addresses it filters
  asked,     \* the vendor: the pods it still has to send again
  eb_gre,    \* sysevent eb_gre is "up"
  tunnel,    \* kernel: the pod at the far end of ethpod<i>
  calls, faults,
  disturbed, \* history: a fault or an overlap of threads, "never", only
             \* "before" the flag was last set, or "since"
  known      \* history: tunnels made by this run for a remembered pod

vars == <<ebh, stored, pods, fd, gmss, todo, filter, asked, eb_gre, tunnel,
          calls, faults, disturbed, known>>
agent == <<ebh, stored, pods, gmss>>
outside == <<filter, asked, eb_gre, tunnel>>
history == <<calls, faults, disturbed, known>>

Indices == -1..(MaxPods - 1)
Ops == {"next", "sock", "send", "add", "clean", "unclamp", "clamp",
        "clamped"}
Step(op, mac) == [op |-> op, mac |-> mac, i |-> 1, on |-> FALSE]

TypeOK ==
  /\ ebh \in BOOLEAN /\ stored \in BOOLEAN /\ gmss \in BOOLEAN
  /\ pods \in Seq(Pods) /\ Len(pods) <= MaxPods
  /\ fd \in {"closed", "bad", "open"}
  /\ todo \in [Threads -> Seq([op: Ops, mac: Pods \cup {Dummy, None},
                               i: 1..(MaxPods + 1), on: BOOLEAN])]
  /\ filter \subseteq Pods \cup {Dummy} /\ asked \subseteq Pods
  /\ eb_gre \in BOOLEAN
  /\ tunnel \in [Indices -> Pods \cup {None}]
  /\ calls \in 0..MaxCalls /\ faults \in 0..MaxFaults
  /\ disturbed \in {"never", "before", "since"} /\ known \subseteq Indices

Init ==
  /\ stored \in BOOLEAN /\ ebh = stored
  /\ pods = <<>> /\ fd = "closed" /\ gmss = FALSE
  /\ todo = [t \in Threads |-> <<>>]
  /\ filter = {} /\ asked = {} /\ eb_gre = FALSE
  /\ tunnel = [i \in Indices |-> None]
  /\ calls = 0 /\ faults = 0 /\ disturbed = "never" /\ known = {}

-----------------------------------------------------------------------------
Busy(t) == todo[t] # <<>>
Quiet == \A t \in Threads : ~Busy(t)

At(t, op) == Busy(t) /\ Head(todo[t]).op = op
Become(t, steps) == todo' = [todo EXCEPT ![t] = steps \o Tail(@)]
Start(t, steps) == ~Busy(t) /\ todo' = [todo EXCEPT ![t] = steps]

Call == calls < MaxCalls /\ calls' = calls + 1
Fault == faults < MaxFaults /\ faults' = faults + 1

Overlap == disturbed' = IF Quiet THEN disturbed ELSE "since"
(* A descriptor left at -1 loses the next message, as a fault would.       *)
Set == disturbed' = IF ~Quiet \/ fd = "bad" THEN "since"
                    ELSE IF disturbed = "never" THEN "never" ELSE "before"

-----------------------------------------------------------------------------
(* Mesh_SendEthernetMac, in two steps.                                     *)

(* Mesh_DnsmasqSock: a descriptor that is not 0 is taken for an open one,  *)
(* -1 included.  Then the message is made up from the flag as it is now.   *)
Sock(t) ==
  /\ At(t, "sock")
  /\ \/ /\ fd' = IF fd = "closed" THEN "open" ELSE fd
        /\ Become(t, <<[Head(todo[t]) EXCEPT !.op = "send", !.on = ebh]>>)
        /\ UNCHANGED <<faults, disturbed>>
     \/ /\ fd = "closed" /\ Fault
        /\ fd' \in {"closed", "bad"}    \* popen or socket fails
        /\ Become(t, <<>>)
        /\ disturbed' = "since"
  /\ UNCHANGED <<agent, outside, calls, known>>

(* What a START or a STOP does to dnsmasq.                                 *)
Filtered(m) == IF m.on THEN filter \cup {m.mac} ELSE {}

(* Mutant of Send: a descriptor that is no good is kept.                   *)
SendClosesOpenOnly(t) ==
  /\ At(t, "send")
  /\ \/ /\ filter' = IF fd = "open" THEN Filtered(Head(todo[t])) ELSE filter
        /\ UNCHANGED <<faults, disturbed>>
     \/ Fault /\ disturbed' = "since" /\ UNCHANGED filter
  /\ fd' = IF fd = "open" THEN "closed" ELSE fd
  /\ Become(t, <<>>)
  /\ UNCHANGED <<agent, asked, eb_gre, tunnel, calls, known>>

(* Without an open descriptor, its own or another thread's, nothing goes.  *)
(* Then close and dnsmasqFd = 0, whoever opened it.                        *)
Send(t) ==
  /\ At(t, "send")
  /\ \/ /\ filter' = IF fd = "open" THEN Filtered(Head(todo[t])) ELSE filter
        /\ UNCHANGED <<faults, disturbed>>
     \/ Fault /\ disturbed' = "since" /\ UNCHANGED filter  \* the datagram is lost
  /\ fd' = "closed"
  /\ Become(t, <<>>)
  /\ UNCHANGED <<agent, asked, eb_gre, tunnel, calls, known>>

-----------------------------------------------------------------------------
(* The lease server: what dnsmasq asks for.                                *)

(* Mesh_SendPodAddresses: one pod after the other, as far as the list      *)
(* reaches by then; the vendor is asked for the pods when there is none.   *)
SendPodAddresses ==
  /\ At("lease", "next")
  /\ LET i == Head(todo["lease"]).i
     IN IF i <= Len(pods)
          THEN /\ Become("lease", <<Step("sock", pods[i]),
                                    [Step("next", None) EXCEPT !.i = i + 1]>>)
               /\ UNCHANGED asked
          ELSE /\ Become("lease", <<>>)
               /\ asked' = IF i = 1 /\ ebh THEN Pods ELSE asked
  /\ UNCHANGED <<agent, fd, filter, eb_gre, tunnel, history>>

(* POD_MAC_POLL: dnsmasq asks for the pods.                                *)
Poll ==
  /\ Call
  /\ Start("lease", <<Step("next", None)>>)
  /\ Overlap
  /\ UNCHANGED <<agent, fd, outside, faults, known>>

(* POD_ETH_PORT: a pod it does not filter got a lease.  With the backhaul  *)
(* disabled the cloud is told instead (Parodus).                           *)
Complaint ==
  /\ \E p \in Pods : p \notin filter
  /\ ebh
  /\ Start("lease", <<Step("next", None)>>)
  /\ Overlap
  /\ UNCHANGED <<agent, fd, outside, calls, faults, known>>

(* Mutant of PodIndex: one too many.                                       *)
PodIndexOff(p) ==
  IF p \in ToSet(pods) THEN (CHOOSE i \in 1..Len(pods) : pods[i] = p) % MaxPods
                       ELSE -1

(* Mesh_getEthPodIndex.                                                    *)
PodIndex(p) ==
  IF p \in ToSet(pods) THEN (CHOOSE i \in 1..Len(pods) : pods[i] = p) - 1
                       ELSE -1

(* POD_CREATE_TUNNEL, Mesh_EthPodTunnel: the interface of that name is     *)
(* replaced, whoever was at its end, and backhaul enabled or not.  An XB3  *)
(* has a script do that and returns.                                       *)
CreateTunnel(p) ==
  /\ Call
  /\ Start("lease", IF Platform = "XB3" THEN <<>> ELSE <<Step("clamp", None)>>)
  /\ LET i == PodIndex(p)
     IN /\ \/ tunnel' = [tunnel EXCEPT ![i] = p] /\ UNCHANGED faults
           \/ Fault /\ tunnel' = [tunnel EXCEPT ![i] = None]
        /\ known' = (known \cup {i}) \ {-1}
  /\ Overlap
  /\ UNCHANGED <<agent, fd, filter, asked, eb_gre>>

Clamp ==
  /\ At("lease", "clamp")
  /\ IF Platform = "HUB4" \/ gmss
       THEN Become("lease", <<>>) /\ UNCHANGED eb_gre
       ELSE Become("lease", <<Step("clamped", None)>>) /\ eb_gre' = TRUE
  /\ UNCHANGED <<agent, fd, filter, asked, tunnel, history>>

Clamped ==
  /\ At("lease", "clamped")
  /\ gmss' = TRUE
  /\ Become("lease", <<>>)
  /\ UNCHANGED <<ebh, stored, pods, fd, outside, history>>

-----------------------------------------------------------------------------
(* The vendor's thread: MESH_ETHERNET_MAC_LIST.                            *)

MacList(p) ==
  /\ Start("vendor", (IF ebh THEN <<Step("sock", p)>> ELSE <<>>)
                     \o <<Step("add", p)>>)
  /\ Overlap

(* The vendor tells of a pod by itself.                                    *)
NewPod(p) ==
  /\ Call
  /\ MacList(p)
  /\ UNCHANGED <<agent, fd, outside, faults, known>>

(* It was asked for its pods (MESH_RFC_UPDATE) and sends them once more.   *)
Answer(p) ==
  /\ p \in asked
  /\ asked' = asked \ {p}
  /\ MacList(p)
  /\ UNCHANGED <<agent, fd, filter, eb_gre, tunnel, calls, faults, known>>

(* Mutant of Add: a pod that is there already is added again.              *)
AddAgain ==
  /\ At("vendor", "add")
  /\ pods' = Append(pods, Head(todo["vendor"]).mac)
  /\ Become("vendor", <<>>)
  /\ UNCHANGED <<ebh, stored, gmss, fd, outside, history>>

(* Mesh_PodAddress(mac, TRUE): a full list takes no more.                  *)
Add ==
  /\ At("vendor", "add")
  /\ LET p == Head(todo["vendor"]).mac
     IN pods' = IF p \in ToSet(pods) \/ Len(pods) = MaxPods THEN pods
                ELSE Append(pods, p)
  /\ Become("vendor", <<>>)
  /\ UNCHANGED <<ebh, stored, gmss, fd, outside, history>>

-----------------------------------------------------------------------------
(* The data model and webconfig's executor.                                *)

Disabling == <<Step("clean", None), Step("sock", Dummy)>>

(* Mutant of SetMeshEthBhaul: dnsmasq is told before the flag is set (and  *)
(* the flag with the next call).                                           *)
SetMeshEthBhaulLate(t, v) ==
  /\ Call
  /\ stored # v
  /\ stored' = v
  /\ ebh' = stored
  /\ Start(t, IF v THEN <<>> ELSE Disabling)
  /\ Set
  /\ UNCHANGED <<pods, gmss, fd, outside, faults, known>>

(* Mesh_SetMeshEthBhaul: nothing when syscfg has the value; the flag is    *)
(* set although the store may fail; the vendor is told, and answers an     *)
(* enabling with its pods.                                                 *)
SetMeshEthBhaul(t, v) ==
  /\ Call
  /\ stored # v
  /\ \/ stored' = v /\ Set /\ UNCHANGED faults
     \/ Fault /\ stored' = stored /\ disturbed' = "since"
  /\ ebh' = v
  /\ asked' = IF v THEN Pods ELSE {}
  /\ Start(t, IF v THEN <<>> ELSE Disabling)
  /\ UNCHANGED <<pods, gmss, fd, filter, eb_gre, tunnel, known>>

(* Enable = false: the backhaul is to be disabled as well, but its flag    *)
(* stays, so that what dnsmasq gets is a START for the dummy address.  The *)
(* data model asks that flag first; webconfig, what its document wants of  *)
(* the backhaul, whatever the flag is.                                     *)
DisableMesh(t) ==
  /\ Call
  /\ t = "dml" => ebh
  /\ Start(t, Disabling)
  /\ Overlap
  /\ UNCHANGED <<agent, fd, outside, faults, known>>

(* Mesh_EBCleanup.                                                         *)
Clean(t) ==
  /\ At(t, "clean")
  /\ IF Platform # "HUB4" /\ gmss
       THEN Become(t, <<Step("unclamp", None)>>) /\ eb_gre' = FALSE
       ELSE Become(t, <<>>) /\ UNCHANGED eb_gre
  /\ UNCHANGED <<agent, fd, filter, asked, tunnel, history>>

Unclamp(t) ==
  /\ At(t, "unclamp")
  /\ gmss' = FALSE
  /\ Become(t, <<>>)
  /\ UNCHANGED <<ebh, stored, pods, fd, outside, history>>

-----------------------------------------------------------------------------
(* dnsmasq starts anew, and filters nothing until told.                    *)
DnsmasqRestarts ==
  /\ Fault
  /\ filter' = {}
  /\ disturbed' = "since"
  /\ UNCHANGED <<agent, fd, todo, asked, eb_gre, tunnel, calls, known>>

(* The agent dies and starts again: the pods are forgotten; tunnels, eb_gre*)
(* and dnsmasq's filter are not.  A boot with the backhaul disabled says so.*)
Crash ==
  /\ Fault
  /\ ebh' = stored
  /\ pods' = <<>> /\ fd' = "closed" /\ gmss' = FALSE
  /\ todo' = [t \in Threads |-> IF t = "dml" /\ ~stored THEN Disabling ELSE <<>>]
  /\ disturbed' = "since" /\ known' = {}
  /\ UNCHANGED <<stored, outside, calls>>

Work(t) ==
  \/ Sock(t) \/ Send(t) \/ Clean(t) \/ Unclamp(t)
  \/ t = "lease" /\ (SendPodAddresses \/ Clamp \/ Clamped)
  \/ t = "vendor" /\ Add

Next ==
  \/ \E t \in Threads : Work(t)
  \/ Poll \/ Complaint
  \/ \E p \in Pods : CreateTunnel(p) \/ NewPod(p) \/ Answer(p)
  \/ \E t \in Setters :
       DisableMesh(t) \/ \E v \in BOOLEAN : SetMeshEthBhaul(t, v)
  \/ DnsmasqRestarts
  \/ Crash

(* The threads run, dnsmasq goes on complaining of a pod it does not       *)
(* filter, and the vendor answers.                                         *)
Fairness ==
  /\ \A t \in Threads : WF_vars(Work(t))
  /\ WF_vars(Complaint)
  /\ \A p \in Pods : WF_vars(Answer(p))

Spec == Init /\ [][Next]_vars /\ Fairness

-----------------------------------------------------------------------------
(* Mesh_SendPodAddresses, "Potential Dnsmasq and meshAgent sync issue,     *)
(* resync": whatever was lost on the way, whoever restarted and however    *)
(* the threads met at the descriptor, a pod the agent goes on remembering  *)
(* while the backhaul stays enabled ends up filtered for good.             *)
RememberedPodFiltered ==
  \A p \in Pods : <>[](ebh /\ p \in ToSet(pods)) => <>[](p \in filter)

(* "If ethernet bhaul is disabled, send msg to dnsmasq informing same":    *)
(* a setting that met neither a fault nor another sender leaves dnsmasq    *)
(* without a filter, however pods come and dnsmasq polls afterwards.       *)
DisabledIsUnfiltered == Quiet /\ disturbed # "since" /\ ~ebh => filter = {}

(* Mesh_EthPodTunnel: as long as the agent runs, the tunnel of a pod it    *)
(* remembers is that pod's, and no other pod's request takes it away.      *)
TunnelsApart ==
  \A i \in known :
    tunnel[i] # None => i < Len(pods) /\ tunnel[i] = pods[i + 1]
=============================================================================
