-------------------------- MODULE PodBackhaulProofs --------------------------
(***************************************************************************)
(* Proofs about the Ethernet backhaul, for any pods, setters and bounds.   *)
(*                                                                         *)
(* Scripts says what a thread can have left to do; Disturbed, what a       *)
(* setting that met neither a fault nor another sender has left to do.     *)
(***************************************************************************)
EXTENDS PodBackhaul, SequenceTheorems, TLAPS

Steps == [op: Ops, mac: Pods \cup {Dummy, None}, i: 1..(MaxPods + 1),
          on: BOOLEAN]

(* Which thread takes which step, and about which address.                 *)
StepOf(t, m) ==
  /\ m.op \in {"sock", "send"} => m.mac \in Pods \cup {Dummy}
  /\ m.op = "add" => t = "vendor" /\ m.mac \in Pods
  /\ m.op \in {"clean", "unclamp"} => t \in Setters
  /\ m.op \in {"next", "clamp", "clamped"} => t = "lease"

(* A message that is made up goes out next, and what a setter does last is *)
(* tell dnsmasq.                                                           *)
Script(t, s) ==
  /\ \A k \in 1..Len(s) : StepOf(t, s[k]) /\ (s[k].op = "send" => k = 1)
  /\ t \in Setters /\ s # <<>> => s[Len(s)].op \in {"sock", "send"}

Scripts == \A t \in Threads : Script(t, todo[t])

(* The descriptor is open only for a message that is about to go out.      *)
OpenForSend == fd = "open" => \E t \in Threads : At(t, "send")

Sound == TypeOK /\ Scripts /\ OpenForSend

(* As long as nothing has disturbed the last setting, one thread at most   *)
(* is at work, with a descriptor that is good, and it says what the flag   *)
(* says; a filter that must go is gone, or a setter is on its way.         *)
InOrder ==
  disturbed # "since" =>
    /\ fd # "bad"
    /\ \E t \in Threads :
         /\ \A u \in Threads \ {t} : ~Busy(u)
         /\ At(t, "send") => fd = "open" /\ (Head(todo[t]).on => ebh)
         /\ ~ebh => filter = {} \/ (t \in Setters /\ Busy(t))

(* No tunnel counts as known that has no pod's index.                      *)
Indexed == -1 \notin known


-----------------------------------------------------------------------------
(* What is left of a sequence of steps when its first one is replaced by   *)
(* one, by two or by none.                                                 *)

LEMMA Names ==
  /\ Setters \subseteq Threads /\ "lease" \in Threads /\ "vendor" \in Threads
  /\ "lease" \notin Setters /\ "vendor" \notin Setters /\ "dml" \in Setters
  /\ MaxPods \in Nat \ {0}
  BY PodBackhaulAssumption DEF Threads

LEMMA Rest ==
  ASSUME NEW S, NEW s \in Seq(S), s # << >>
  PROVE  /\ Len(s) \in Nat \ {0} /\ Head(s) = s[1] /\ s[1] \in S
         /\ \A k \in 1..Len(s) : s[k] \in S
         /\ Tail(s) \in Seq(S) /\ Len(Tail(s)) = Len(s) - 1
         /\ \A k \in 1..(Len(s) - 1) : Tail(s)[k] = s[k + 1]
  BY HeadTailProperties

LEMMA Dropped ==
  ASSUME NEW S, NEW s \in Seq(S), s # << >>
  PROVE  LET r == << >> \o Tail(s)
         IN  /\ r \in Seq(S) /\ Len(r) = Len(s) - 1
             /\ \A k \in 1..Len(r) : r[k] = s[k + 1]
<1>1. Tail(s) \in Seq(S) /\ << >> \o Tail(s) = Tail(s)
  BY Rest, ConcatEmptySeq
<1> QED
  BY <1>1, Rest

LEMMA Replaced ==
  ASSUME NEW S, NEW s \in Seq(S), s # << >>, NEW m \in S
  PROVE  LET r == <<m>> \o Tail(s)
         IN  /\ r \in Seq(S) /\ Len(r) = Len(s)
             /\ r[1] = m /\ \A k \in 2..Len(s) : r[k] = s[k]
<1> DEFINE q == Tail(s)
           a == <<m>>
           r == a \o q
<1>1. /\ q \in Seq(S) /\ Len(q) = Len(s) - 1 /\ Len(s) \in Nat \ {0}
      /\ \A k \in 1..(Len(s) - 1) : q[k] = s[k + 1]
  BY Rest
<1>2. a \in Seq(S) /\ Len(a) = 1 /\ a[1] = m
  OBVIOUS
<1> HIDE DEF q, a
<1>3. /\ r \in Seq(S) /\ Len(r) = Len(a) + Len(q)
      /\ \A k \in 1..(Len(a) + Len(q)) : r[k] = IF k <= Len(a) THEN a[k] ELSE q[k - Len(a)]
  BY <1>1, <1>2, ConcatProperties, Zenon
<1> HIDE DEF r
<1>4. r[1] = m
  BY <1>1, <1>2, <1>3
<1>5. \A k \in 2..Len(s) : r[k] = s[k]
  BY <1>1, <1>2, <1>3
<1> QED
  BY <1>1, <1>2, <1>3, <1>4, <1>5 DEF r, a, q

LEMMA ReplacedByTwo ==
  ASSUME NEW S, NEW s \in Seq(S), s # << >>, NEW m \in S, NEW n \in S
  PROVE  LET r == <<m, n>> \o Tail(s)
         IN  /\ r \in Seq(S) /\ Len(r) = Len(s) + 1
             /\ r[1] = m /\ r[2] = n
             /\ \A k \in 3..(Len(s) + 1) : r[k] = s[k - 1]
<1> DEFINE q == Tail(s)
           a == <<m, n>>
           r == a \o q
<1>1. /\ q \in Seq(S) /\ Len(q) = Len(s) - 1 /\ Len(s) \in Nat \ {0}
      /\ \A k \in 1..(Len(s) - 1) : q[k] = s[k + 1]
  BY Rest
<1>2. a \in Seq(S) /\ Len(a) = 2 /\ a[1] = m /\ a[2] = n
  OBVIOUS
<1> HIDE DEF q, a
<1>3. /\ r \in Seq(S) /\ Len(r) = Len(a) + Len(q)
      /\ \A k \in 1..(Len(a) + Len(q)) :
           r[k] = IF k <= Len(a) THEN a[k] ELSE q[k - Len(a)]
  BY <1>1, <1>2, ConcatProperties, Zenon
<1> HIDE DEF r
<1>4. r[1] = m /\ r[2] = n
  BY <1>1, <1>2, <1>3
<1>5. \A k \in 3..(Len(s) + 1) : r[k] = s[k - 1]
  <2> SUFFICES ASSUME NEW k \in 3..(Len(s) + 1)
               PROVE  r[k] = s[k - 1]
    OBVIOUS
  <2>1. k \in 1..(2 + Len(q)) /\ ~(k <= 2) /\ k - 2 \in 1..(Len(s) - 1)
    BY <1>1
  <2>2. q[k - 2] = s[(k - 2) + 1] /\ (k - 2) + 1 = k - 1
    BY <1>1, <2>1
  <2> QED
    BY <1>2, <1>3, <2>1, <2>2
<1> QED
  BY <1>1, <1>2, <1>3, <1>4, <1>5 DEF r, a, q

-----------------------------------------------------------------------------
LEMMA Couple ==
  ASSUME NEW S, NEW m \in S, NEW n \in S
  PROVE  <<m>> \o <<n>> = <<m, n>>
<1> DEFINE a == <<m>>
           b == <<n>>
           c == <<m, n>>
           r == a \o b
<1>1. /\ a \in Seq(S) /\ Len(a) = 1 /\ a[1] = m
      /\ b \in Seq(S) /\ Len(b) = 1 /\ b[1] = n
      /\ c \in Seq(S) /\ Len(c) = 2 /\ c[1] = m /\ c[2] = n
  OBVIOUS
<1> HIDE DEF a, b, c
<1>2. /\ r \in Seq(S) /\ Len(r) = Len(a) + Len(b)
      /\ \A k \in 1..(Len(a) + Len(b)) :
           r[k] = IF k <= Len(a) THEN a[k] ELSE b[k - Len(a)]
  BY <1>1, ConcatProperties, Zenon
<1> HIDE DEF r
<1>3. Len(r) = 2 /\ r[1] = m /\ r[2] = n
  BY <1>1, <1>2
<1>4. r = c
  BY <1>1, <1>2, <1>3, SeqEqual
<1> QED
  BY <1>4 DEF r, a, b, c

(* What a script is followed by.                                           *)

(* The step is done.  A setter is not done before it has told dnsmasq.     *)
LEMMA ScriptDropped ==
  ASSUME NEW t, NEW s \in Seq(Steps), s # << >>, Script(t, s)
  PROVE  LET r == << >> \o Tail(s)
         IN  /\ r \in Seq(Steps) /\ Script(t, r)
             /\ r # << >> => Head(r).op # "send"
             /\ t \in Setters /\ Head(s).op \notin {"sock", "send"} => r # << >>
<1> DEFINE r == << >> \o Tail(s)
<1>1. /\ r \in Seq(Steps) /\ Len(r) = Len(s) - 1
      /\ \A k \in 1..Len(r) : r[k] = s[k + 1]
  BY Dropped
<1>2. Len(s) \in Nat \ {0} /\ Head(s) = s[1]
  BY Rest
<1> HIDE DEF r
<1>3. r # << >> <=> Len(r) # 0
  BY <1>1
<1>4. \A k \in 1..Len(r) : StepOf(t, r[k]) /\ r[k].op # "send"
  BY <1>1, <1>2 DEF Script
<1>5. r # << >> => r[Len(r)] = s[Len(s)] /\ Head(r) = r[1]
  BY <1>1, <1>2, <1>3
<1>6. Script(t, r)
  BY <1>2, <1>4, <1>5 DEF Script
<1>7. r # << >> => Head(r).op # "send"
  BY <1>1, <1>3, <1>4, <1>5
<1>8. t \in Setters /\ Head(s).op \notin {"sock", "send"} => r # << >>
  BY <1>1, <1>2, <1>3 DEF Script
<1> QED
  BY <1>1, <1>6, <1>7, <1>8 DEF r

LEMMA ScriptReplaced ==
  ASSUME NEW t, NEW s \in Seq(Steps), s # << >>, Script(t, s),
         NEW m \in Steps, StepOf(t, m),
         t \in Setters => Len(s) # 1 \/ m.op \in {"sock", "send"}
  PROVE  LET r == <<m>> \o Tail(s)
         IN  r \in Seq(Steps) /\ r # << >> /\ Script(t, r) /\ Head(r) = m
<1> DEFINE r == <<m>> \o Tail(s)
<1>1. /\ r \in Seq(Steps) /\ Len(r) = Len(s)
      /\ r[1] = m /\ \A k \in 2..Len(s) : r[k] = s[k]
  BY Replaced
<1>2. Len(s) \in Nat \ {0}
  BY Rest
<1> HIDE DEF r
<1>3. r # << >> /\ Head(r) = m
  BY <1>1, <1>2
<1>4. \A k \in 1..Len(r) : StepOf(t, r[k]) /\ (r[k].op = "send" => k = 1)
  <2> SUFFICES ASSUME NEW k \in 1..Len(r)
               PROVE  StepOf(t, r[k]) /\ (r[k].op = "send" => k = 1)
    OBVIOUS
  <2>1. CASE k = 1
    BY <1>1, <2>1
  <2>2. CASE k \in 2..Len(s)
    BY <1>1, <1>2, <2>2 DEF Script
  <2> QED
    BY <1>1, <1>2, <2>1, <2>2
<1>5. t \in Setters => r[Len(r)].op \in {"sock", "send"}
  <2>1. CASE Len(s) = 1
    BY <1>1, <2>1
  <2>2. CASE Len(s) # 1
    BY <1>1, <1>2, <2>2 DEF Script
  <2> QED
    BY <2>1, <2>2
<1> QED
  BY <1>1, <1>3, <1>4, <1>5 DEF r, Script

LEMMA ScriptNextPod ==
  ASSUME NEW s \in Seq(Steps), s # << >>, Script("lease", s),
         NEW m \in Steps, NEW n \in Steps, StepOf("lease", m),
         StepOf("lease", n), m.op = "sock", n.op = "next"
  PROVE  LET r == <<m, n>> \o Tail(s)
         IN  r \in Seq(Steps) /\ r # << >> /\ Script("lease", r) /\ Head(r) = m
<1> DEFINE r == <<m, n>> \o Tail(s)
<1>1. /\ r \in Seq(Steps) /\ Len(r) = Len(s) + 1
      /\ r[1] = m /\ r[2] = n /\ \A k \in 3..(Len(s) + 1) : r[k] = s[k - 1]
  BY ReplacedByTwo
<1>2. Len(s) \in Nat \ {0}
  BY Rest
<1> HIDE DEF r
<1>3. r # << >> /\ Head(r) = m
  BY <1>1, <1>2
<1>4. \A k \in 1..Len(r) : StepOf("lease", r[k]) /\ (r[k].op = "send" => k = 1)
  <2> SUFFICES ASSUME NEW k \in 1..Len(r)
               PROVE  StepOf("lease", r[k]) /\ (r[k].op = "send" => k = 1)
    OBVIOUS
  <2>1. CASE k \in 1..2
    BY <1>1, <2>1
  <2>2. CASE k \in 3..(Len(s) + 1)
    <3>1. k - 1 \in 1..Len(s) /\ k - 1 # 1
      BY <1>2, <2>2
    <3> QED
      BY <1>1, <2>2, <3>1 DEF Script
  <2> QED
    BY <1>1, <1>2, <2>1, <2>2
<1> QED
  BY <1>1, <1>3, <1>4, Names DEF r, Script

(* How a thread begins.                                                    *)
LEMMA ScriptOfOne ==
  ASSUME NEW t, NEW m \in Steps, StepOf(t, m), m.op # "send",
         t \notin Setters
  PROVE  /\ <<m>> \in Seq(Steps) /\ Script(t, <<m>>) /\ <<m>> # << >>
         /\ Head(<<m>>) = m
<1> DEFINE r == <<m>>
<1>1. r \in Seq(Steps) /\ Len(r) = 1 /\ r[1] = m /\ r # << >> /\ Head(r) = m
  OBVIOUS
<1> HIDE DEF r
<1>2. \A k \in 1..Len(r) : StepOf(t, r[k]) /\ (r[k].op = "send" => k = 1)
  BY <1>1
<1> QED
  BY <1>1, <1>2 DEF r, Script

LEMMA ScriptOfTwo ==
  ASSUME NEW t, NEW m \in Steps, NEW n \in Steps, StepOf(t, m), StepOf(t, n),
         m.op # "send", n.op # "send", t \in Setters => n.op = "sock"
  PROVE  /\ <<m, n>> \in Seq(Steps) /\ Script(t, <<m, n>>) /\ <<m, n>> # << >>
         /\ Head(<<m, n>>) = m
<1> DEFINE r == <<m, n>>
<1>1. r \in Seq(Steps) /\ Len(r) = 2 /\ r[1] = m /\ r[2] = n /\ r # << >>
      /\ Head(r) = m
  OBVIOUS
<1> HIDE DEF r
<1>2. \A k \in 1..Len(r) : StepOf(t, r[k]) /\ (r[k].op = "send" => k = 1)
  BY <1>1
<1> QED
  BY <1>1, <1>2 DEF r, Script

LEMMA EmptyScript ==
  ASSUME NEW t
  PROVE  << >> \in Seq(Steps) /\ Script(t, << >>)
  BY DEF Script

LEMMA StepType ==
  ASSUME NEW op \in Ops, NEW mac \in Pods \cup {Dummy, None}
  PROVE  /\ Step(op, mac) \in Steps
         /\ Step(op, mac).op = op /\ Step(op, mac).mac = mac
  BY Names DEF Step, Steps

LEMMA ScriptDisabling ==
  ASSUME NEW t \in Setters
  PROVE  /\ Disabling \in Seq(Steps) /\ Script(t, Disabling)
         /\ Disabling # << >> /\ Head(Disabling).op = "clean"
<1> DEFINE m == Step("clean", None)
           n == Step("sock", Dummy)
<1>1. m \in Steps /\ m.op = "clean" /\ n \in Steps /\ n.op = "sock"
      /\ n.mac = Dummy
  BY StepType DEF Ops
<1>2. Disabling = <<m, n>>
  BY DEF Disabling
<1> HIDE DEF m, n
<1>3. StepOf(t, m) /\ StepOf(t, n)
  BY <1>1 DEF StepOf
<1> QED
  BY <1>1, <1>2, <1>3, ScriptOfTwo

-----------------------------------------------------------------------------
(* A thread whose script changes: what this means for each invariant.      *)

LEMMA TodoType ==
  ASSUME TypeOK, Scripts, NEW t \in Threads
  PROVE  todo[t] \in Seq(Steps) /\ Script(t, todo[t])
  BY DEF TypeOK, Scripts, Steps

LEMMA Scheduled ==
  ASSUME TypeOK, Scripts, NEW t \in Threads, NEW r \in Seq(Steps), Script(t, r),
         todo' = [todo EXCEPT ![t] = r]
  PROVE  /\ todo' \in [Threads -> Seq(Steps)] /\ Scripts'
         /\ todo'[t] = r /\ \A u \in Threads \ {t} : todo'[u] = todo[u]
<1>1. todo \in [Threads -> Seq(Steps)]
  BY DEF TypeOK, Steps
<1>2. /\ todo' \in [Threads -> Seq(Steps)]
      /\ todo'[t] = r /\ \A u \in Threads \ {t} : todo'[u] = todo[u]
  BY <1>1
<1>3. \A u \in Threads : Script(u, todo'[u])
  BY <1>2 DEF Scripts
<1> QED
  BY <1>2, <1>3 DEF Scripts

(* The head of a thread's script.                                          *)
LEMMA HeadIs ==
  ASSUME TypeOK, Scripts, NEW t \in Threads, Busy(t)
  PROVE  /\ todo[t] # << >> /\ Head(todo[t]) \in Steps
         /\ StepOf(t, Head(todo[t])) /\ Len(todo[t]) \in Nat \ {0}
         /\ Head(todo[t]) = todo[t][1]
<1> DEFINE s == todo[t]
<1>1. s \in Seq(Steps) /\ Script(t, s) /\ s # << >>
  BY TodoType DEF Busy
<1> HIDE DEF s
<1>2. Len(s) \in Nat \ {0} /\ Head(s) = s[1] /\ s[1] \in Steps
  BY <1>1, Rest
<1>3. StepOf(t, s[1])
  BY <1>1, <1>2 DEF Script
<1> QED
  BY <1>1, <1>2, <1>3 DEF s

(* The descriptor is left as it is, and no message is about to go out.     *)
LEMMA OpenKept ==
  ASSUME OpenForSend, TypeOK, NEW t \in Threads, NEW r,
         todo' = [todo EXCEPT ![t] = r], fd' = fd, ~At(t, "send")
  PROVE  OpenForSend'
<1>1. \A u \in Threads \ {t} : todo'[u] = todo[u]
  BY DEF TypeOK
<1>2. \A u \in Threads \ {t} : At(u, "send") => At(u, "send")'
  BY <1>1 DEF At, Busy
<1> QED
  BY <1>2 DEF OpenForSend

(* A thread that is at work goes on, to what is no message yet; a setter   *)
(* is not done by that.                                                    *)
LEMMA OrderKept ==
  ASSUME InOrder, TypeOK, NEW t \in Threads, NEW r, Busy(t),
         todo' = [todo EXCEPT ![t] = r],
         r # << >> => Head(r).op # "send",
         t \in Setters => r # << >>,
         UNCHANGED <<fd, ebh, filter, disturbed>>
  PROVE  InOrder'
<1>1. todo'[t] = r /\ \A u \in Threads \ {t} : todo'[u] = todo[u]
  BY DEF TypeOK
<1> SUFFICES ASSUME disturbed # "since"
             PROVE  InOrder'
  BY DEF InOrder
<1>2. PICK v \in Threads :
         /\ \A u \in Threads \ {v} : ~Busy(u)
         /\ ~ebh => filter = {} \/ (v \in Setters /\ Busy(v))
  BY DEF InOrder
<1>3. v = t /\ fd # "bad"
  BY <1>2 DEF InOrder
<1>4. \A u \in Threads \ {t} : ~Busy(u)'
  BY <1>1, <1>2, <1>3 DEF Busy
<1>5. ~At(t, "send")'
  BY <1>1 DEF At, Busy
<1>6. t \in Setters => Busy(t)'
  BY <1>1 DEF Busy
<1> QED
  BY <1>2, <1>3, <1>4, <1>5, <1>6 DEF InOrder

(* A thread begins; this is a disturbance unless every thread was idle.    *)
LEMMA OrderStarted ==
  ASSUME InOrder, TypeOK, NEW t \in Threads, NEW r, ~Busy(t),
         todo' = [todo EXCEPT ![t] = r],
         r # << >> => Head(r).op # "send",
         Overlap, UNCHANGED <<fd, ebh, filter>>
  PROVE  InOrder'
<1>1. todo'[t] = r /\ \A u \in Threads \ {t} : todo'[u] = todo[u]
  BY DEF TypeOK
<1> SUFFICES ASSUME disturbed' # "since"
             PROVE  InOrder'
  BY DEF InOrder
<1>2. Quiet /\ disturbed # "since"
  BY DEF Overlap
<1>3. fd # "bad" /\ (~ebh => filter = {})
  BY <1>2 DEF InOrder, Quiet
<1>4. \A u \in Threads \ {t} : ~Busy(u)'
  BY <1>1, <1>2 DEF Busy, Quiet
<1>5. ~At(t, "send")'
  BY <1>1 DEF At, Busy
<1> QED
  BY <1>3, <1>4, <1>5 DEF InOrder

(* What was disturbed stays disturbed until the flag is set again.         *)
LEMMA OrderDisturbed ==
  ASSUME disturbed' = "since"
  PROVE  InOrder'
  BY DEF InOrder

-----------------------------------------------------------------------------
(* The initial states, and the steps one by one.                           *)

Invariant == Sound /\ InOrder

LEMMA InitInvariant == Init => Invariant
<1> SUFFICES ASSUME Init
             PROVE  Invariant
  OBVIOUS
<1>1. \A t \in Threads : todo[t] = << >>
  BY DEF Init
<1>2. todo \in [Threads -> Seq(Steps)]
  BY EmptyScript DEF Init
<1>3. pods \in Seq(Pods) /\ Len(pods) = 0
  BY DEF Init
<1>4. TypeOK
  <2>1. /\ ebh \in BOOLEAN /\ stored \in BOOLEAN /\ gmss \in BOOLEAN
        /\ fd \in {"closed", "bad", "open"} /\ eb_gre \in BOOLEAN
        /\ filter \subseteq Pods \cup {Dummy} /\ asked \subseteq Pods
        /\ disturbed \in {"never", "before", "since"} /\ known \subseteq Indices
    BY DEF Init
  <2>2. tunnel \in [Indices -> Pods \cup {None}]
    BY DEF Init
  <2>3. calls \in 0..MaxCalls /\ faults \in 0..MaxFaults
    BY PodBackhaulAssumption DEF Init
  <2>4. pods \in Seq(Pods) /\ Len(pods) <= MaxPods
    BY <1>3, Names
  <2> QED
    BY <1>2, <2>1, <2>2, <2>3, <2>4 DEF TypeOK, Steps
<1>5. Scripts
  BY <1>1, EmptyScript DEF Scripts
<1>6. OpenForSend /\ InOrder
  BY <1>1, Names DEF Init, OpenForSend, InOrder, Busy, At
<1> QED
  BY <1>4, <1>5, <1>6 DEF Sound, Invariant

(* A message is made up.                                                   *)
LEMMA SockStep ==
  ASSUME Invariant, NEW t \in Threads, Sock(t)
  PROVE  Invariant'
<1> DEFINE s == todo[t]
           m == [Head(s) EXCEPT !.op = "send", !.on = ebh]
<1>1. TypeOK /\ Scripts /\ OpenForSend /\ InOrder /\ Busy(t)
      /\ Head(s).op = "sock"
  BY DEF Invariant, Sound, Sock, At
<1>2. /\ s # << >> /\ Head(s) \in Steps /\ StepOf(t, Head(s))
      /\ s \in Seq(Steps) /\ Script(t, s)
  BY <1>1, HeadIs, TodoType
<1>3. UNCHANGED <<agent, outside, calls, known>>
  BY DEF Sock
<1>4. CASE /\ fd' = IF fd = "closed" THEN "open" ELSE fd
           /\ Become(t, <<m>>)
           /\ UNCHANGED <<faults, disturbed>>
  <2>1. m \in Steps /\ m.op = "send" /\ m.mac = Head(s).mac /\ m.on = ebh
    BY <1>1, <1>2 DEF Steps, Ops, TypeOK
  <2> HIDE DEF m
  <2>2. StepOf(t, m)
    BY <1>1, <1>2, <2>1 DEF StepOf
  <2> DEFINE r == <<m>> \o Tail(s)
  <2>3. r \in Seq(Steps) /\ r # << >> /\ Script(t, r) /\ Head(r) = m
    BY <1>2, <2>1, <2>2, ScriptReplaced
  <2>4. todo' = [todo EXCEPT ![t] = r]
    BY <1>4 DEF Become
  <2> HIDE DEF r, s
  <2>5. /\ todo' \in [Threads -> Seq(Steps)] /\ Scripts'
        /\ todo'[t] = r /\ \A u \in Threads \ {t} : todo'[u] = todo[u]
    BY <1>1, <2>3, <2>4, Scheduled
  <2>6. TypeOK'
    BY <1>1, <1>3, <1>4, <2>5 DEF TypeOK, agent, outside, Steps
  <2>7. At(t, "send")' /\ Head(todo'[t]) = m
    BY <2>1, <2>3, <2>5 DEF At, Busy
  <2>8. OpenForSend'
    BY <2>7 DEF OpenForSend
  <2>9. InOrder'
    <3> SUFFICES ASSUME disturbed # "since"
                 PROVE  InOrder'
      BY <1>4 DEF InOrder
    <3>1. PICK v \in Threads :
             /\ \A u \in Threads \ {v} : ~Busy(u)
             /\ ~ebh => filter = {} \/ (v \in Setters /\ Busy(v))
      BY <1>1 DEF InOrder
    <3>2. v = t
      BY <1>1, <3>1
    <3>3. fd' = "open"
      BY <1>1, <1>4 DEF InOrder, TypeOK
    <3>4. \A u \in Threads \ {t} : ~Busy(u)'
      BY <2>5, <3>1, <3>2 DEF Busy
    <3>5. (Head(todo[t]).on => ebh)'
      <4>1. Head(todo'[t]).on = ebh'
        BY <1>3, <2>1, <2>7 DEF agent
      <4> QED
        BY <4>1, Zenon
    <3>6. Busy(t)'
      BY <2>7 DEF At
    <3>7. ebh' = ebh /\ filter' = filter
      BY <1>3 DEF agent, outside
    <3> QED
      BY <3>1, <3>2, <3>3, <3>4, <3>5, <3>6, <3>7 DEF InOrder
  <2> QED
    BY <2>5, <2>6, <2>8, <2>9 DEF Invariant, Sound
<1>5. CASE /\ fd = "closed" /\ Fault
           /\ fd' \in {"closed", "bad"}
           /\ Become(t, <<>>)
           /\ disturbed' = "since"
  <2> DEFINE r == << >> \o Tail(s)
  <2>1. r \in Seq(Steps) /\ Script(t, r)
    BY <1>2, ScriptDropped
  <2>2. todo' = [todo EXCEPT ![t] = r]
    BY <1>5 DEF Become
  <2> HIDE DEF r, s
  <2>3. todo' \in [Threads -> Seq(Steps)] /\ Scripts'
    BY <1>1, <2>1, <2>2, Scheduled
  <2>4. TypeOK'
    <3>1. faults' \in 0..MaxFaults
      BY <1>1, <1>5, PodBackhaulAssumption DEF Fault, TypeOK
    <3> QED
      BY <1>1, <1>3, <1>5, <2>3, <3>1 DEF TypeOK, agent, outside, Steps
  <2>5. OpenForSend' /\ InOrder'
    BY <1>5, OrderDisturbed DEF OpenForSend
  <2> QED
    BY <2>3, <2>4, <2>5 DEF Invariant, Sound
<1> QED
  BY <1>4, <1>5 DEF Sock

(* A message goes out, or is lost.                                         *)
LEMMA SendStep ==
  ASSUME Invariant, NEW t \in Threads, Send(t)
  PROVE  Invariant'
<1> DEFINE s == todo[t]
           r == << >> \o Tail(s)
<1>1. TypeOK /\ Scripts /\ OpenForSend /\ InOrder /\ Busy(t) /\ At(t, "send")
      /\ Head(s).op = "send"
  BY DEF Invariant, Sound, Send, At
<1>2. /\ s # << >> /\ Head(s) \in Steps /\ StepOf(t, Head(s))
      /\ s \in Seq(Steps) /\ Script(t, s)
  BY <1>1, HeadIs, TodoType
<1>3. /\ fd' = "closed" /\ todo' = [todo EXCEPT ![t] = r]
      /\ UNCHANGED <<agent, asked, eb_gre, tunnel, calls, known>>
      /\ \/ /\ filter' = IF fd = "open" THEN Filtered(Head(s)) ELSE filter
            /\ UNCHANGED <<faults, disturbed>>
         \/ Fault /\ disturbed' = "since" /\ filter' = filter
  BY DEF Send, Become
<1>4. r \in Seq(Steps) /\ Script(t, r) /\ (r # << >> => Head(r).op # "send")
  BY <1>2, ScriptDropped
<1>5. Filtered(Head(s)) \subseteq Pods \cup {Dummy}
  BY <1>1, <1>2 DEF Filtered, TypeOK, StepOf
<1> HIDE DEF r
<1>6. /\ todo' \in [Threads -> Seq(Steps)] /\ Scripts'
      /\ todo'[t] = r /\ \A u \in Threads \ {t} : todo'[u] = todo[u]
  BY <1>1, <1>3, <1>4, Scheduled
<1>7. TypeOK'
  <2>1. filter' \subseteq Pods \cup {Dummy} /\ faults' \in 0..MaxFaults
        /\ disturbed' \in {"never", "before", "since"}
    BY <1>1, <1>3, <1>5, PodBackhaulAssumption DEF TypeOK, Fault
  <2> QED
    BY <1>1, <1>3, <1>6, <2>1 DEF TypeOK, agent, Steps
<1>8. OpenForSend'
  BY <1>3 DEF OpenForSend
<1>9. InOrder'
  <2> SUFFICES ASSUME disturbed' # "since"
               PROVE  InOrder'
    BY DEF InOrder
  <2>1. /\ filter' = IF fd = "open" THEN Filtered(Head(s)) ELSE filter
        /\ disturbed' = disturbed /\ ebh' = ebh
    BY <1>3 DEF agent
  <2>2. PICK v \in Threads :
           /\ \A u \in Threads \ {v} : ~Busy(u)
           /\ At(v, "send") => fd = "open" /\ (Head(todo[v]).on => ebh)
    BY <1>1, <2>1 DEF InOrder
  <2>3. v = t
    BY <1>1, <2>2
  <2>4. fd = "open" /\ (Head(s).on => ebh)
    BY <1>1, <2>2, <2>3
  <2>5. ~ebh => filter' = {}
    BY <2>1, <2>4 DEF Filtered
  <2>6. \A u \in Threads \ {t} : ~Busy(u)'
    BY <1>6, <2>2, <2>3 DEF Busy
  <2>7. ~At(t, "send")'
    BY <1>4, <1>6 DEF At, Busy
  <2>8. fd' # "bad"
    BY <1>3
  <2> QED
    BY <2>1, <2>5, <2>6, <2>7, <2>8 DEF InOrder
<1> QED
  BY <1>6, <1>7, <1>8, <1>9 DEF Invariant, Sound

(* The other steps of a thread that is at work.                            *)
LEMMA WorkStep ==
  ASSUME Invariant, NEW t \in Threads, NEW r \in Seq(Steps), Busy(t),
         Script(t, r), ~At(t, "send"),
         todo' = [todo EXCEPT ![t] = r],
         r # << >> => Head(r).op # "send",
         t \in Setters => r # << >>,
         UNCHANGED <<fd, ebh, stored, filter, tunnel, history>>,
         gmss' \in BOOLEAN, pods' \in Seq(Pods), Len(pods') <= MaxPods,
         asked' \subseteq Pods, eb_gre' \in BOOLEAN
  PROVE  Invariant'
<1>1. TypeOK /\ Scripts /\ OpenForSend /\ InOrder
  BY DEF Invariant, Sound
<1>2. todo' \in [Threads -> Seq(Steps)] /\ Scripts'
  BY <1>1, Scheduled
<1>3. TypeOK'
  BY <1>1, <1>2 DEF TypeOK, history, Steps
<1>4. OpenForSend'
  BY <1>1, OpenKept
<1>5. InOrder'
  BY <1>1, OrderKept DEF history
<1> QED
  BY <1>2, <1>3, <1>4, <1>5 DEF Invariant, Sound

LEMMA PodAddressesStep ==
  ASSUME Invariant, SendPodAddresses
  PROVE  Invariant'
<1> DEFINE s == todo["lease"]
           i == Head(s).i
           m == Step("sock", pods[i])
           n == [Step("next", None) EXCEPT !.i = i + 1]
           r == << >> \o Tail(s)
           q == <<m, n>> \o Tail(s)
<1>1. TypeOK /\ Scripts /\ Busy("lease") /\ Head(s).op = "next"
      /\ ~At("lease", "send") /\ "lease" \in Threads /\ "lease" \notin Setters
  BY Names DEF Invariant, Sound, SendPodAddresses, At
<1>2. /\ s # << >> /\ Head(s) \in Steps
      /\ s \in Seq(Steps) /\ Script("lease", s)
  BY <1>1, HeadIs, TodoType
<1>3. i \in 1..(MaxPods + 1) /\ MaxPods \in Nat
  BY <1>2, Names DEF Steps
<1>4. /\ UNCHANGED <<fd, ebh, stored, pods, gmss, filter, eb_gre, tunnel, history>>
      /\ IF i <= Len(pods)
           THEN todo' = [todo EXCEPT !["lease"] = q] /\ asked' = asked
           ELSE todo' = [todo EXCEPT !["lease"] = r]
                /\ asked' \in {asked, Pods}
  BY DEF SendPodAddresses, Become, agent
<1>5. /\ gmss' \in BOOLEAN /\ pods' \in Seq(Pods) /\ Len(pods') <= MaxPods
      /\ asked' \subseteq Pods /\ eb_gre' \in BOOLEAN
  BY <1>1, <1>4 DEF TypeOK
<1>6. CASE i <= Len(pods)
  <2>1. i \in 1..Len(pods) /\ i + 1 \in 1..(MaxPods + 1)
    BY <1>1, <1>3, <1>6 DEF TypeOK
  <2>2. pods[i] \in Pods
    BY <1>1, <2>1 DEF TypeOK
  <2>3. m \in Steps /\ m.op = "sock" /\ m.mac \in Pods
    BY <2>2, StepType DEF Ops
  <2>4. n \in Steps /\ n.op = "next"
    <3>1. "next" \in Ops
      BY DEF Ops
    <3>2. Step("next", None) \in Steps /\ Step("next", None).op = "next"
      BY <3>1, StepType
    <3> QED
      BY <2>1, <3>2 DEF Steps
  <2> HIDE DEF m, n
  <2>5. StepOf("lease", m) /\ StepOf("lease", n)
    BY <2>3, <2>4 DEF StepOf
  <2>6. q \in Seq(Steps) /\ q # << >> /\ Script("lease", q) /\ Head(q) = m
    BY <1>2, <2>3, <2>4, <2>5, ScriptNextPod
  <2>7. todo' = [todo EXCEPT !["lease"] = q]
    BY <1>4, <1>6
  <2> HIDE DEF q, s, r, i
  <2> QED
    BY <1>1, <1>4, <1>5, <2>3, <2>6, <2>7, WorkStep
<1>7. CASE ~(i <= Len(pods))
  <2>1. r \in Seq(Steps) /\ Script("lease", r)
        /\ (r # << >> => Head(r).op # "send")
    BY <1>2, ScriptDropped
  <2>2. todo' = [todo EXCEPT !["lease"] = r]
    BY <1>4, <1>7
  <2> HIDE DEF q, s, r, i
  <2> QED
    BY <1>1, <1>4, <1>5, <2>1, <2>2, WorkStep
<1> QED
  BY <1>6, <1>7

LEMMA ClampStep ==
  ASSUME Invariant, Clamp \/ Clamped
  PROVE  Invariant'
<1> DEFINE s == todo["lease"]
           m == Step("clamped", None)
           r == << >> \o Tail(s)
           q == <<m>> \o Tail(s)
<1>1. TypeOK /\ Scripts /\ Busy("lease") /\ Head(s).op # "send"
      /\ ~At("lease", "send") /\ "lease" \in Threads /\ "lease" \notin Setters
  BY Names DEF Invariant, Sound, Clamp, Clamped, At
<1>2. s # << >> /\ s \in Seq(Steps) /\ Script("lease", s)
  BY <1>1, HeadIs, TodoType
<1>3. /\ UNCHANGED <<fd, ebh, stored, pods, filter, asked, tunnel, history>>
      /\ gmss' \in {gmss, TRUE} /\ eb_gre' \in {eb_gre, TRUE}
      /\ \/ todo' = [todo EXCEPT !["lease"] = q]
         \/ todo' = [todo EXCEPT !["lease"] = r]
  BY DEF Clamp, Clamped, Become, agent, outside
<1>4. /\ gmss' \in BOOLEAN /\ pods' \in Seq(Pods) /\ Len(pods') <= MaxPods
      /\ asked' \subseteq Pods /\ eb_gre' \in BOOLEAN
  BY <1>1, <1>3 DEF TypeOK
<1>5. m \in Steps /\ m.op = "clamped"
  BY StepType DEF Ops
<1> HIDE DEF m
<1>6. StepOf("lease", m)
  BY <1>5 DEF StepOf
<1>7. q \in Seq(Steps) /\ q # << >> /\ Script("lease", q) /\ Head(q) = m
  BY <1>1, <1>2, <1>5, <1>6, ScriptReplaced
<1>8. r \in Seq(Steps) /\ Script("lease", r)
      /\ (r # << >> => Head(r).op # "send")
  BY <1>2, ScriptDropped
<1> HIDE DEF q, s, r
<1>9. CASE todo' = [todo EXCEPT !["lease"] = q]
  BY <1>1, <1>3, <1>4, <1>5, <1>7, <1>9, WorkStep
<1>10. CASE todo' = [todo EXCEPT !["lease"] = r]
  BY <1>1, <1>3, <1>4, <1>8, <1>10, WorkStep
<1> QED
  BY <1>3, <1>9, <1>10

LEMMA AddStep ==
  ASSUME Invariant, Add
  PROVE  Invariant'
<1> DEFINE s == todo["vendor"]
           p == Head(s).mac
           r == << >> \o Tail(s)
<1>1. TypeOK /\ Scripts /\ Busy("vendor") /\ Head(s).op = "add"
      /\ ~At("vendor", "send") /\ "vendor" \in Threads /\ "vendor" \notin Setters
  BY Names DEF Invariant, Sound, Add, At
<1>2. s # << >> /\ s \in Seq(Steps) /\ Script("vendor", s) /\ p \in Pods
  BY <1>1, HeadIs, TodoType DEF StepOf
<1>3. /\ UNCHANGED <<fd, ebh, stored, gmss, filter, eb_gre, asked, tunnel,
                     history>>
      /\ pods' = IF p \in ToSet(pods) \/ Len(pods) = MaxPods THEN pods
                 ELSE Append(pods, p)
      /\ todo' = [todo EXCEPT !["vendor"] = r]
  BY DEF Add, Become, outside
<1>4. /\ gmss' \in BOOLEAN /\ asked' \subseteq Pods /\ eb_gre' \in BOOLEAN
  BY <1>1, <1>3 DEF TypeOK
<1>5. pods' \in Seq(Pods) /\ Len(pods') <= MaxPods
  <2>1. pods \in Seq(Pods) /\ Len(pods) <= MaxPods /\ Len(pods) \in Nat
    BY <1>1 DEF TypeOK
  <2>2. CASE pods' = pods
    BY <2>1, <2>2
  <2>3. CASE pods' = Append(pods, p) /\ Len(pods) # MaxPods
    BY <1>2, <2>1, <2>3, Names, AppendProperties
  <2> QED
    BY <1>3, <2>2, <2>3
<1>6. r \in Seq(Steps) /\ Script("vendor", r)
      /\ (r # << >> => Head(r).op # "send")
  BY <1>2, ScriptDropped
<1> HIDE DEF s, p, r
<1> QED
  BY <1>1, <1>3, <1>4, <1>5, <1>6, WorkStep

LEMMA CleanStep ==
  ASSUME Invariant, NEW t \in Threads, Clean(t) \/ Unclamp(t)
  PROVE  Invariant'
<1> DEFINE s == todo[t]
           m == Step("unclamp", None)
           r == << >> \o Tail(s)
           q == <<m>> \o Tail(s)
<1>1. TypeOK /\ Scripts /\ Busy(t) /\ Head(s).op \in {"clean", "unclamp"}
      /\ ~At(t, "send")
  BY DEF Invariant, Sound, Clean, Unclamp, At
<1>2. s # << >> /\ s \in Seq(Steps) /\ Script(t, s) /\ t \in Setters
      /\ Head(s) = s[1] /\ Len(s) \in Nat \ {0}
  BY <1>1, HeadIs, TodoType DEF StepOf
<1>3. /\ UNCHANGED <<fd, ebh, stored, pods, filter, asked, tunnel, history>>
      /\ gmss' \in {gmss, FALSE} /\ eb_gre' \in {eb_gre, FALSE}
      /\ \/ todo' = [todo EXCEPT ![t] = q]
         \/ todo' = [todo EXCEPT ![t] = r]
  BY DEF Clean, Unclamp, Become, agent, outside
<1>4. /\ gmss' \in BOOLEAN /\ pods' \in Seq(Pods) /\ Len(pods') <= MaxPods
      /\ asked' \subseteq Pods /\ eb_gre' \in BOOLEAN
  BY <1>1, <1>3 DEF TypeOK
<1>5. m \in Steps /\ m.op = "unclamp"
  BY StepType DEF Ops
<1> HIDE DEF m
<1>6. StepOf(t, m) /\ Len(s) # 1
  BY <1>1, <1>2, <1>5 DEF StepOf, Script
<1>7. q \in Seq(Steps) /\ q # << >> /\ Script(t, q) /\ Head(q) = m
  BY <1>2, <1>5, <1>6, ScriptReplaced
<1>8. r \in Seq(Steps) /\ Script(t, r) /\ r # << >> /\ Head(r).op # "send"
  BY <1>1, <1>2, ScriptDropped
<1> HIDE DEF q, s, r
<1>9. CASE todo' = [todo EXCEPT ![t] = q]
  BY <1>1, <1>3, <1>4, <1>5, <1>7, <1>9, WorkStep
<1>10. CASE todo' = [todo EXCEPT ![t] = r]
  BY <1>1, <1>3, <1>4, <1>8, <1>10, WorkStep
<1> QED
  BY <1>3, <1>9, <1>10

(* The index of a pod is that of its place in EthPodMacs, or -1.           *)
LEMMA IndexOf ==
  ASSUME TypeOK, NEW p \in Pods
  PROVE  /\ PodIndex(p) \in Indices
         /\ PodIndex(p) # -1 =>
              PodIndex(p) + 1 \in 1..Len(pods) /\ pods[PodIndex(p) + 1] = p
<1>1. pods \in Seq(Pods) /\ Len(pods) \in Nat /\ Len(pods) <= MaxPods
      /\ MaxPods \in Nat \ {0} /\ DOMAIN pods = 1..Len(pods)
  BY Names DEF TypeOK
<1>2. CASE p \in ToSet(pods)
  <2> DEFINE i == CHOOSE i \in 1..Len(pods) : pods[i] = p
  <2>1. \E j \in 1..Len(pods) : pods[j] = p
    BY <1>1, <1>2 DEF ToSet
  <2>2. i \in 1..Len(pods) /\ pods[i] = p
    BY <2>1
  <2>3. PodIndex(p) = i - 1
    BY <1>2 DEF PodIndex
  <2> HIDE DEF i
  <2> QED
    BY <1>1, <2>2, <2>3 DEF Indices
<1>3. CASE p \notin ToSet(pods)
  BY <1>1, <1>3 DEF PodIndex, Indices
<1> QED
  BY <1>2, <1>3

(* A thread begins.                                                        *)
LEMMA StartStep ==
  ASSUME Invariant, NEW t \in Threads, NEW r \in Seq(Steps), Script(t, r),
         Start(t, r), r # << >> => Head(r).op # "send",
         Overlap, UNCHANGED <<agent, fd, filter, eb_gre>>,
         asked' \subseteq Pods,
         tunnel' \in [Indices -> Pods \cup {None}],
         calls' \in 0..MaxCalls, faults' \in 0..MaxFaults,
         known' \subseteq Indices
  PROVE  Invariant'
<1>1. TypeOK /\ Scripts /\ OpenForSend /\ InOrder
      /\ ~Busy(t) /\ todo' = [todo EXCEPT ![t] = r]
  BY DEF Invariant, Sound, Start
<1>2. todo' \in [Threads -> Seq(Steps)] /\ Scripts'
  BY <1>1, Scheduled
<1>3. disturbed' \in {"never", "before", "since"}
  BY <1>1 DEF Overlap, TypeOK
<1>4. TypeOK'
  BY <1>1, <1>2, <1>3 DEF TypeOK, agent, Steps
<1>5. OpenForSend'
  BY <1>1, OpenKept DEF At
<1>6. InOrder'
  BY <1>1, OrderStarted DEF agent
<1> QED
  BY <1>2, <1>4, <1>5, <1>6 DEF Invariant, Sound

LEMMA CallType ==
  ASSUME TypeOK, Call
  PROVE  calls' \in 0..MaxCalls
  BY PodBackhaulAssumption DEF TypeOK, Call

LEMMA FaultType ==
  ASSUME TypeOK, Fault
  PROVE  faults' \in 0..MaxFaults
  BY PodBackhaulAssumption DEF TypeOK, Fault

LEMMA PollStep ==
  ASSUME Invariant, Poll \/ Complaint
  PROVE  Invariant'
<1> DEFINE m == Step("next", None)
<1>1. m \in Steps /\ m.op = "next"
  BY StepType DEF Ops
<1>2. Start("lease", <<m>>)
  BY DEF Poll, Complaint
<1> HIDE DEF m
<1>3. StepOf("lease", m)
  BY <1>1 DEF StepOf
<1>4. <<m>> \in Seq(Steps) /\ Script("lease", <<m>>) /\ Head(<<m>>) = m
  BY <1>1, <1>3, Names, ScriptOfOne
<1>5. TypeOK
  BY DEF Invariant, Sound
<1>6. /\ Overlap /\ UNCHANGED <<agent, fd, filter, asked, eb_gre, tunnel, faults,
                               known>>
      /\ calls' \in 0..MaxCalls
  BY <1>5, CallType DEF Poll, Complaint, outside, TypeOK
<1>7. /\ asked' \subseteq Pods /\ tunnel' \in [Indices -> Pods \cup {None}]
      /\ faults' \in 0..MaxFaults /\ known' \subseteq Indices
  BY <1>5, <1>6 DEF TypeOK
<1> QED
  BY <1>1, <1>2, <1>4, <1>6, <1>7, Names, StartStep

LEMMA TunnelStep ==
  ASSUME Invariant, NEW p \in Pods, CreateTunnel(p)
  PROVE  Invariant'
<1> DEFINE m == Step("clamp", None)
           r == IF Platform = "XB3" THEN << >> ELSE <<m>>
           i == PodIndex(p)
<1>1. m \in Steps /\ m.op = "clamp"
  BY StepType DEF Ops
<1>2. Start("lease", r)
  BY DEF CreateTunnel
<1> HIDE DEF m
<1>3. StepOf("lease", m)
  BY <1>1 DEF StepOf
<1>4. /\ r \in Seq(Steps) /\ Script("lease", r)
      /\ (r # << >> => Head(r).op # "send")
  BY <1>1, <1>3, Names, ScriptOfOne, EmptyScript
<1>5. TypeOK
  BY DEF Invariant, Sound
<1>6. i \in Indices
  BY <1>5, IndexOf
<1>7. /\ Overlap /\ UNCHANGED <<agent, fd, filter, asked, eb_gre>>
      /\ calls' \in 0..MaxCalls /\ faults' \in 0..MaxFaults
      /\ known' = (known \cup {i}) \ {-1}
      /\ \/ tunnel' = [tunnel EXCEPT ![i] = p]
         \/ tunnel' = [tunnel EXCEPT ![i] = None]
  BY <1>5, CallType, FaultType DEF CreateTunnel, TypeOK
<1> HIDE DEF i
<1>8. /\ asked' \subseteq Pods /\ tunnel' \in [Indices -> Pods \cup {None}]
      /\ known' \subseteq Indices
  BY <1>5, <1>6, <1>7 DEF TypeOK
<1> HIDE DEF r
<1> QED
  BY <1>2, <1>4, <1>7, <1>8, Names, StartStep

LEMMA MacListStep ==
  ASSUME Invariant, NEW p \in Pods, NewPod(p) \/ Answer(p)
  PROVE  Invariant'
<1> DEFINE m == Step("sock", p)
           n == Step("add", p)
           r == (IF ebh THEN <<m>> ELSE << >>) \o <<n>>
<1>1. /\ m \in Steps /\ m.op = "sock" /\ m.mac = p
      /\ n \in Steps /\ n.op = "add" /\ n.mac = p
  BY StepType DEF Ops
<1>2. Start("vendor", r) /\ Overlap
  BY DEF NewPod, Answer, MacList
<1> HIDE DEF m, n
<1>3. StepOf("vendor", m) /\ StepOf("vendor", n)
  BY <1>1 DEF StepOf
<1>4. r \in Seq(Steps) /\ Script("vendor", r) /\ Head(r).op # "send"
  <2>1. CASE ebh
    <3>1. r = <<m, n>>
      <4>1. r = <<m>> \o <<n>>
        BY <2>1
      <4>2. <<m>> \o <<n>> = <<m, n>>
        BY <1>1, Couple
      <4> QED
        BY <4>1, <4>2
    <3>2. /\ <<m, n>> \in Seq(Steps) /\ Script("vendor", <<m, n>>)
          /\ Head(<<m, n>>) = m
      BY <1>1, <1>3, Names, ScriptOfTwo
    <3> QED
      BY <1>1, <3>1, <3>2
  <2>2. CASE ~ebh
    <3>1. r = <<n>>
      BY <2>2
    <3>2. <<n>> \in Seq(Steps) /\ Script("vendor", <<n>>) /\ Head(<<n>>) = n
      BY <1>1, <1>3, Names, ScriptOfOne
    <3> QED
      BY <1>1, <3>1, <3>2
  <2> QED
    BY <2>1, <2>2
<1>5. TypeOK
  BY DEF Invariant, Sound
<1>6. /\ UNCHANGED <<agent, fd, filter, eb_gre, tunnel, faults, known>>
      /\ asked' \in {asked, asked \ {p}} /\ calls' \in 0..MaxCalls
  BY <1>5, CallType DEF NewPod, Answer, outside, TypeOK
<1>7. /\ asked' \subseteq Pods /\ tunnel' \in [Indices -> Pods \cup {None}]
      /\ faults' \in 0..MaxFaults /\ known' \subseteq Indices
  BY <1>5, <1>6 DEF TypeOK
<1> HIDE DEF r
<1> QED
  BY <1>2, <1>4, <1>6, <1>7, Names, StartStep

LEMMA DisableStep ==
  ASSUME Invariant, NEW t \in Setters, DisableMesh(t)
  PROVE  Invariant'
<1>1. /\ Disabling \in Seq(Steps) /\ Script(t, Disabling)
      /\ Head(Disabling).op # "send"
  BY ScriptDisabling
<1>2. TypeOK /\ t \in Threads
  BY Names DEF Invariant, Sound
<1>3. /\ Start(t, Disabling) /\ Overlap
      /\ UNCHANGED <<agent, fd, filter, asked, eb_gre, tunnel, faults, known>>
      /\ calls' \in 0..MaxCalls
  BY <1>2, CallType DEF DisableMesh, outside
<1>4. /\ asked' \subseteq Pods /\ tunnel' \in [Indices -> Pods \cup {None}]
      /\ faults' \in 0..MaxFaults /\ known' \subseteq Indices
  BY <1>2, <1>3 DEF TypeOK
<1> QED
  BY <1>1, <1>2, <1>3, <1>4, StartStep

(* The flag is set: what came before no longer disturbs, when it is over.  *)
LEMMA SetStep ==
  ASSUME Invariant, NEW t \in Setters, NEW v \in BOOLEAN, SetMeshEthBhaul(t, v)
  PROVE  Invariant'
<1> DEFINE r == IF v THEN << >> ELSE Disabling
<1>1. r \in Seq(Steps) /\ Script(t, r) /\ (r # << >> => Head(r).op # "send")
      /\ (~v => r # << >>)
  BY ScriptDisabling, EmptyScript
<1>2. TypeOK /\ Scripts /\ OpenForSend /\ InOrder /\ t \in Threads
  BY Names DEF Invariant, Sound
<1>3. /\ ~Busy(t) /\ todo' = [todo EXCEPT ![t] = r]
      /\ ebh' = v /\ asked' \in {Pods, {}} /\ stored' \in {v, stored}
      /\ UNCHANGED <<pods, gmss, fd, filter, eb_gre, tunnel, known>>
      /\ (Set /\ faults' = faults) \/ (disturbed' = "since" /\ Fault)
      /\ Call
  BY DEF SetMeshEthBhaul, Start
<1> HIDE DEF r
<1>4. /\ todo' \in [Threads -> Seq(Steps)] /\ Scripts'
      /\ todo'[t] = r /\ \A u \in Threads \ {t} : todo'[u] = todo[u]
  BY <1>1, <1>2, <1>3, Scheduled
<1>5. TypeOK'
  <2>1. calls' \in 0..MaxCalls /\ faults' \in 0..MaxFaults
    BY <1>2, <1>3, CallType, FaultType DEF TypeOK
  <2>2. disturbed' \in {"never", "before", "since"}
    BY <1>3 DEF Set
  <2>3. stored' \in BOOLEAN /\ ebh' \in BOOLEAN /\ asked' \subseteq Pods
    BY <1>2, <1>3 DEF TypeOK
  <2> QED
    BY <1>2, <1>3, <1>4, <2>1, <2>2, <2>3 DEF TypeOK, Steps
<1>6. OpenForSend'
  BY <1>2, <1>3, OpenKept DEF At
<1>7. InOrder'
  <2> SUFFICES ASSUME disturbed' # "since"
               PROVE  InOrder'
    BY DEF InOrder
  <2>1. Quiet /\ fd # "bad"
    BY <1>3 DEF Set
  <2>2. \A u \in Threads \ {t} : ~Busy(u)'
    BY <1>4, <2>1 DEF Busy, Quiet
  <2>3. ~At(t, "send")'
    BY <1>1, <1>4 DEF At, Busy
  <2>4. ~ebh' => Busy(t)'
    BY <1>1, <1>3, <1>4 DEF Busy
  <2> QED
    BY <1>2, <1>3, <2>1, <2>2, <2>3, <2>4 DEF InOrder
<1> QED
  BY <1>4, <1>5, <1>6, <1>7 DEF Invariant, Sound

LEMMA RestartStep ==
  ASSUME Invariant, DnsmasqRestarts
  PROVE  Invariant'
<1>1. TypeOK /\ Scripts /\ OpenForSend
  BY DEF Invariant, Sound
<1>2. faults' \in 0..MaxFaults
  BY <1>1, FaultType DEF DnsmasqRestarts
<1>3. TypeOK'
  BY <1>1, <1>2 DEF DnsmasqRestarts, agent, TypeOK
<1>4. Scripts' /\ OpenForSend'
  BY <1>1 DEF DnsmasqRestarts, Scripts, OpenForSend, At, Busy
<1> QED
  BY <1>3, <1>4, OrderDisturbed DEF DnsmasqRestarts, Invariant, Sound

LEMMA CrashStep ==
  ASSUME Invariant, Crash
  PROVE  Invariant'
<1>1. TypeOK
  BY DEF Invariant, Sound
<1>2. \A u \in Threads :
        todo'[u] = << >> \/ (u = "dml" /\ todo'[u] = Disabling)
  BY DEF Crash
<1>3. \A u \in Threads : todo'[u] \in Seq(Steps) /\ Script(u, todo'[u])
  <2>1. Disabling \in Seq(Steps) /\ Script("dml", Disabling)
    BY ScriptDisabling, Names
  <2>2. SUFFICES ASSUME NEW u \in Threads
                 PROVE  todo'[u] \in Seq(Steps) /\ Script(u, todo'[u])
    OBVIOUS
  <2>3. CASE todo'[u] = << >>
    BY <2>3, EmptyScript
  <2>4. CASE u = "dml" /\ todo'[u] = Disabling
    BY <2>1, <2>4
  <2> QED
    BY <1>2, <2>3, <2>4
<1>4. todo' \in [Threads -> Seq(Steps)]
  <2>1. todo' = [t \in Threads |-> todo'[t]]
    BY DEF Crash
  <2> QED
    BY <1>3, <2>1
<1>5. faults' \in 0..MaxFaults
  BY <1>1, FaultType DEF Crash
<1>6. TypeOK'
  <2>1. pods' \in Seq(Pods) /\ Len(pods') = 0
    BY DEF Crash
  <2>2. Len(pods') <= MaxPods
    BY <2>1, Names
  <2> QED
    BY <1>1, <1>4, <1>5, <2>1, <2>2 DEF Crash, outside, TypeOK, Steps
<1>7. Scripts' /\ OpenForSend'
  BY <1>3 DEF Crash, Scripts, OpenForSend
<1> QED
  BY <1>6, <1>7, OrderDisturbed DEF Crash, Invariant, Sound

LEMMA InvariantStep ==
  ASSUME Invariant, [Next]_vars
  PROVE  Invariant'
<1>1. CASE UNCHANGED vars
  BY <1>1 DEF vars, Invariant, Sound, TypeOK, Scripts, OpenForSend, InOrder, At,
              Busy
<1>2. ASSUME NEW t \in Threads, Work(t)
      PROVE  Invariant'
  BY <1>2, SockStep, SendStep, CleanStep, PodAddressesStep, ClampStep, AddStep
     DEF Work
<1>3. CASE Poll \/ Complaint
  BY <1>3, PollStep
<1>4. ASSUME NEW p \in Pods, CreateTunnel(p) \/ NewPod(p) \/ Answer(p)
      PROVE  Invariant'
  BY <1>4, TunnelStep, MacListStep
<1>5. ASSUME NEW t \in Setters,
             DisableMesh(t) \/ \E v \in BOOLEAN : SetMeshEthBhaul(t, v)
      PROVE  Invariant'
  BY <1>5, DisableStep, SetStep
<1>6. CASE DnsmasqRestarts
  BY <1>6, RestartStep
<1>7. CASE Crash
  BY <1>7, CrashStep
<1> QED
  BY <1>1, <1>2, <1>3, <1>4, <1>5, <1>6, <1>7 DEF Next

-----------------------------------------------------------------------------
(* Every variable has its type, for any pods and setters: EthPodMacs never *)
(* holds more than MAX_POD_COUNT, dnsmasq is only told of an address, and  *)
(* every thread has the rest of its own handler left to do.                *)
THEOREM TypeCorrect == Spec => []TypeOK
<1>1. Init => Invariant
  BY InitInvariant
<1>2. Invariant /\ [Next]_vars => Invariant'
  BY InvariantStep
<1>3. Invariant => TypeOK
  BY DEF Invariant, Sound
<1> QED
  BY <1>1, <1>2, <1>3, PTL DEF Spec

(* "If ethernet bhaul is disabled, send msg to dnsmasq informing same": a  *)
(* disabling that met neither a fault nor another sender of dnsmasqFd      *)
(* leaves dnsmasq without a filter, and no poll, complaint, tunnel or pod  *)
(* that comes afterwards brings one back.                                  *)
THEOREM DisablingArrives == Spec => []DisabledIsUnfiltered
<1>1. Init => Invariant
  BY InitInvariant
<1>2. Invariant /\ [Next]_vars => Invariant'
  BY InvariantStep
<1>3. Invariant => DisabledIsUnfiltered
  BY DEF Invariant, InOrder, DisabledIsUnfiltered, Quiet
<1> QED
  BY <1>1, <1>2, <1>3, PTL DEF Spec

-----------------------------------------------------------------------------
(* A pod's place in EthPodMacs is its own as long as the agent runs.       *)
LEMMA TunnelsStep ==
  ASSUME Invariant, Indexed, TunnelsApart, [Next]_vars
  PROVE  Indexed' /\ TunnelsApart'
<1>1. TypeOK /\ pods \in Seq(Pods) /\ Len(pods) \in Nat
      /\ known \subseteq Indices
  <2>1. TypeOK
    BY DEF Invariant, Sound
  <2>2. pods \in Seq(Pods) /\ known \subseteq Indices
    BY <2>1 DEF TypeOK
  <2> QED
    BY <2>1, <2>2
<1>2. \A i \in known : i \in Nat
  BY <1>1, Names DEF Indexed, Indices
<1>3. CASE UNCHANGED <<known, tunnel, pods>>
  BY <1>3 DEF Indexed, TunnelsApart
<1>4. CASE Add
  <2>1. UNCHANGED <<known, tunnel>>
    BY <1>4 DEF Add, outside, history
  <2>2. PICK p : pods' = pods \/ pods' = Append(pods, p)
    BY <1>4 DEF Add
  <2>3. \A k \in 1..Len(pods) : pods'[k] = pods[k]
    BY <1>1, <2>2
  <2>4. Len(pods') >= Len(pods) /\ Len(pods') \in Nat
    BY <1>1, <2>2
  <2>5. ASSUME NEW i \in known, tunnel[i] # None
        PROVE  i < Len(pods') /\ tunnel[i] = pods'[i + 1]
    <3>1. i < Len(pods) /\ tunnel[i] = pods[i + 1] /\ i \in Nat
      BY <1>2, <2>5 DEF TunnelsApart
    <3> QED
      BY <1>1, <2>3, <2>4, <3>1
  <2> QED
    BY <2>1, <2>5 DEF Indexed, TunnelsApart
<1>5. ASSUME NEW p \in Pods, CreateTunnel(p)
      PROVE  Indexed' /\ TunnelsApart'
  <2> DEFINE i == PodIndex(p)
  <2>1. /\ known' = (known \cup {i}) \ {-1}
        /\ pods' = pods
        /\ \/ tunnel' = [tunnel EXCEPT ![i] = p]
           \/ tunnel' = [tunnel EXCEPT ![i] = None]
    BY <1>5 DEF CreateTunnel, agent
  <2>2. /\ i \in Indices
        /\ i # -1 => i + 1 \in 1..Len(pods) /\ pods[i + 1] = p
    BY <1>1, IndexOf
  <2> HIDE DEF i
  <2>3. tunnel \in [Indices -> Pods \cup {None}]
    BY <1>1 DEF TypeOK
  <2>4. ASSUME NEW k \in known', tunnel'[k] # None
        PROVE  k < Len(pods') /\ tunnel'[k] = pods'[k + 1]
    <3>1. CASE k = i
      <4>1. i # -1 /\ i \in Int
        BY <2>1, <2>2, <3>1 DEF Indices
      <4>2. tunnel'[i] = p
        BY <2>1, <2>2, <2>3, <2>4, <3>1
      <4>3. i < Len(pods)
        BY <1>1, <2>2, <4>1
      <4> QED
        BY <2>1, <2>2, <3>1, <4>1, <4>2, <4>3
    <3>2. CASE k # i
      <4>1. k \in known /\ tunnel'[k] = tunnel[k]
        BY <1>1, <2>1, <2>3, <3>2
      <4> QED
        BY <2>1, <2>4, <4>1 DEF TunnelsApart
    <3> QED
      BY <3>1, <3>2
  <2>5. -1 \notin known'
    BY <2>1
  <2> QED
    BY <2>4, <2>5 DEF Indexed, TunnelsApart
<1>6. CASE Crash
  BY <1>6 DEF Crash, Indexed, TunnelsApart
<1>7. \/ UNCHANGED <<known, tunnel, pods>> \/ Add \/ Crash
      \/ \E p \in Pods : CreateTunnel(p)
  <2>1. CASE UNCHANGED vars
    BY <2>1 DEF vars
  <2>2. CASE \E t \in Threads : Work(t)
    BY <2>2 DEF Work, Sock, Send, Clean, Unclamp, SendPodAddresses, Clamp,
                Clamped, agent, outside, history
  <2>3. CASE Poll \/ Complaint \/ DnsmasqRestarts
    BY <2>3 DEF Poll, Complaint, DnsmasqRestarts, agent, outside
  <2>4. CASE \E p \in Pods : NewPod(p) \/ Answer(p)
    BY <2>4 DEF NewPod, Answer, agent, outside
  <2>5. CASE \E t \in Setters :
               DisableMesh(t) \/ \E v \in BOOLEAN : SetMeshEthBhaul(t, v)
    BY <2>5 DEF DisableMesh, SetMeshEthBhaul, agent, outside
  <2> QED
    BY <2>1, <2>2, <2>3, <2>4, <2>5 DEF Next
<1> QED
  BY <1>3, <1>4, <1>5, <1>6, <1>7

(* Mesh_EthPodTunnel names a tunnel after the pod's index: as long as the  *)
(* agent runs, no other pod gets that index, and so no other pod's request *)
(* takes the tunnel away, for any number of pods.                          *)
THEOREM TunnelsStayApart == Spec => []TunnelsApart
<1> DEFINE Inv == Invariant /\ Indexed /\ TunnelsApart
<1>1. Init => Inv
  BY InitInvariant DEF Init, Indexed, TunnelsApart
<1>2. Inv /\ [Next]_vars => Inv'
  BY InvariantStep, TunnelsStep
<1>3. Inv => TunnelsApart
  OBVIOUS
<1> QED
  BY <1>1, <1>2, <1>3, PTL DEF Spec
=============================================================================
