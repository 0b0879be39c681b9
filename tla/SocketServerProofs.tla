------------------------ MODULE SocketServerProofs ------------------------
(***************************************************************************)
(* Proofs about the socket server, for any peers and number of slots.      *)
(*                                                                         *)
(* Kernel and Control hold however the threads overlap: they say what a    *)
(* descriptor is and where a thread can be, and give the types.            *)
(***************************************************************************)
EXTENDS SocketServer, SequenceTheorems, FiniteSetTheorems, TLAPS

-----------------------------------------------------------------------------
(* A connection has one descriptor, and none while it waits for accept;    *)
(* only one that has a descriptor was sent a RESYNC.                       *)
Kernel ==
  /\ \A fd \in Fds : file[fd] # None => peer[file[fd]] \in {"open", "gone"}
  /\ \A f, g \in Fds : file[f] # None /\ file[f] = file[g] => f = g
  /\ \A i \in 1 .. Len(backlog) : peer[backlog[i]] = "queued"
  /\ \A i, j \in 1 .. Len(backlog) : backlog[i] = backlog[j] => i = j
  /\ \A p \in synced : peer[p] \in {"open", "gone"}

(* What a thread is about goes with where it is.                           *)
ControlOf(t, x) ==
  /\ x.pc \in {"load", "store"} <=> x.todo # "none"
  /\ x.pc \in {"send", "close"} => x.sd \in Fds
  /\ t \in Senders => /\ x.pc \in {"idle", "enter"} \cup Inside
                      /\ x.loop = "scan"
                      /\ x.todo \in {"none", "unmask"}
  /\ x.pc = "read" => x.loop = "read"
  /\ x.pc = "scan" => x.loop = "scan"

Control == \A t \in Threads : ControlOf(t, th[t])

Sound == TypeOK /\ Kernel /\ Control

-----------------------------------------------------------------------------
(* A set of naturals that is not empty has a least element.                *)
LEMMA LeastOf ==
  ASSUME NEW S \in SUBSET Nat, S # {}
  PROVE  Min(S) \in S
<1> DEFINE Less == {ss \in Nat \X Nat : ss[1] < ss[2]}
<1>1. IsWellFoundedOn(Less, Nat)
  BY NatLessThanWellFounded, Zenon DEF OpToRel
<1>2. \A x, y \in Nat : <<y, x>> \in Less <=> y < x
  OBVIOUS
<1> HIDE DEF Less
<1>3. \E x \in S : \A y \in S : ~ (<<y, x>> \in Less)
  BY <1>1, WFMin
<1>4. PICK x \in S : \A y \in S : ~ (y < x)
  BY <1>2, <1>3
<1>5. \A y \in S : x <= y
  BY <1>4
<1> QED
  BY <1>5 DEF Min

(* The numbers that must not be taken for one another.                     *)
LEMMA Numbers ==
  /\ NumSlots \in Nat \ {0} /\ NumFds \in Nat
  /\ Slots \subseteq Nat /\ Fds \subseteq Nat
  /\ 0 \notin Fds /\ Master \notin Fds /\ Master # 0 /\ Sync \notin Slots
  /\ 1 \in Slots
  /\ None \notin Peers
  BY SocketServerAssumption DEF Slots, Fds, Master, Sync

(* While a connection waits for accept, a descriptor is free: every other  *)
(* peer has one at most.                                                   *)
LEMMA FreeDescriptor ==
  ASSUME TypeOK, Kernel, backlog # << >>
  PROVE  \E fd \in Fds : file[fd] = None
<1> SUFFICES ASSUME \A fd \in Fds : file[fd] # None
             PROVE  FALSE
  OBVIOUS
<1> DEFINE p == Head(backlog)
           T == Peers \ {p}
<1>1. p \in Peers /\ peer[p] = "queued"
  BY DEF TypeOK, Kernel
<1>2. file \in [Fds -> T]
  BY <1>1 DEF TypeOK, Kernel
<1>3. file \in Injection(Fds, T)
  BY <1>2 DEF Kernel, Injection, IsInjective
<1>4. IsFiniteSet(T) /\ Cardinality(T) = Cardinality(Peers) - 1
      /\ Cardinality(Peers) \in Nat
  BY <1>1, SocketServerAssumption, FS_RemoveElement, FS_CardinalityType
<1> HIDE DEF T
<1>5. Cardinality(Fds) <= Cardinality(T)
  BY <1>3, <1>4, FS_Injection
<1>6. Cardinality(Fds) = NumFds
  <2>1. NumFds \in Nat
    BY SocketServerAssumption
  <2>2. Cardinality(1 .. NumFds) = IF 1 > NumFds THEN 0 ELSE NumFds - 1 + 1
    BY <2>1, FS_Interval
  <2> QED
    BY <2>1, <2>2 DEF Fds
<1> QED
  BY <1>4, <1>5, <1>6, SocketServerAssumption

-----------------------------------------------------------------------------
(* A thread that moves on.                                                 *)
LEMMA Moved ==
  ASSUME TypeOK, Control, NEW t \in Threads, NEW x \in ThreadState,
         ControlOf(t, x), th' = [th EXCEPT ![t] = x]
  PROVE  /\ th' \in [Threads -> ThreadState]
         /\ Control'
         /\ th'[t] = x /\ \A u \in Threads \ {t} : th'[u] = th[u]
  BY DEF TypeOK, Control

LEMMA GotoIs ==
  ASSUME TypeOK, NEW t \in Threads, NEW pc \in Pcs, Goto(t, pc)
  PROVE  /\ th' = [th EXCEPT ![t] = [th[t] EXCEPT !.pc = pc]]
         /\ [th[t] EXCEPT !.pc = pc] \in ThreadState
  BY DEF TypeOK, Goto, ThreadState

LEMMA ThreadType ==
  ASSUME TypeOK, Control, NEW t \in Threads
  PROVE  th[t] \in ThreadState /\ ControlOf(t, th[t])
  BY DEF TypeOK, Control

LEMMA IdleType ==
  Idle \in ThreadState
  BY Numbers DEF Idle, ThreadState, Pcs, Edits

(* The end of a slot, in the four places a thread can be then.             *)
LEMMA AfterIs ==
  ASSUME TypeOK, Control, NEW t \in Threads
  PROVE  LET x == th[t]
             y == After(t)
         IN  /\ y \in ThreadState /\ ControlOf(t, y)
             /\ y.pc # "store" /\ y.pc \notin {"send", "close", "clear"}
             /\ \/ y.pc = x.loop /\ y.loop = x.loop /\ y.todo = "none"
                \/ t # Server /\ y.pc = "idle" /\ y.todo = "none"
                \/ t = Server /\ y.pc = "build" /\ x.loop = "read"
                   /\ y.todo = "none"
                \/ t = Server /\ y.pc = "load" /\ y.todo = "unsync"
                   /\ x.loop = "scan" /\ y.loop = "scan"
<1> DEFINE x == th[t]
           y == After(t)
<1>1. x \in ThreadState /\ ControlOf(t, x)
  BY ThreadType
<1>2. x.loop \in {"scan", "read"} /\ x.i \in Slots
  BY <1>1 DEF ThreadState
<1>3. CASE x.i < NumSlots
  <2>1. y = [Idle EXCEPT !.pc = x.loop, !.loop = x.loop, !.i = x.i + 1]
    BY <1>3 DEF After
  <2>2. x.i + 1 \in Slots
    BY <1>2, <1>3, Numbers DEF Slots
  <2>3. /\ y \in ThreadState /\ y.pc = x.loop /\ y.loop = x.loop
        /\ y.todo = "none"
    BY <1>2, <2>1, <2>2, IdleType DEF Idle, ThreadState, Pcs, Inside
  <2>4. t \in Senders => x.loop = "scan"
    BY <1>1 DEF ControlOf
  <2> HIDE DEF y, x
  <2>5. ControlOf(t, y)
    BY <1>2, <2>3, <2>4 DEF ControlOf, Inside
  <2> QED
    BY <1>2, <2>3, <2>5 DEF x, y
<1>4. CASE ~(x.i < NumSlots) /\ t # Server
  <2>1. y = Idle
    BY <1>4 DEF After
  <2>2. ControlOf(t, y)
    BY <2>1 DEF Idle, ControlOf
  <2> QED
    BY <1>4, <2>1, <2>2, IdleType DEF Idle
<1>5. CASE ~(x.i < NumSlots) /\ t = Server /\ x.loop = "read"
  <2>1. y = [Idle EXCEPT !.pc = "build"]
    BY <1>5 DEF After
  <2>2. y \in ThreadState /\ y.pc = "build" /\ y.todo = "none"
    BY <2>1, IdleType DEF Idle, ThreadState, Pcs
  <2> HIDE DEF y
  <2>3. ControlOf(t, y)
    BY <1>5, <2>2 DEF ControlOf, Server, Senders
  <2> QED
    BY <1>5, <2>2, <2>3 DEF y
<1>6. CASE ~(x.i < NumSlots) /\ t = Server /\ x.loop # "read"
  <2>1. y = [Idle EXCEPT !.pc = "load", !.todo = "unsync"]
    BY <1>6 DEF After
  <2>2. /\ y \in ThreadState /\ y.pc = "load" /\ y.todo = "unsync"
        /\ y.loop = "scan"
    BY <2>1, IdleType DEF Idle, ThreadState, Pcs, Inside, Edits
  <2> HIDE DEF y
  <2>3. ControlOf(t, y)
    BY <1>6, <2>2 DEF ControlOf, Server, Senders
  <2> QED
    BY <1>2, <1>6, <2>2, <2>3 DEF y
<1> QED
  BY <1>3, <1>4, <1>5, <1>6

-----------------------------------------------------------------------------
(* Every step keeps what holds however the threads overlap.                *)

LEMMA SoundInit == Init => Sound
<1> SUFFICES ASSUME Init
             PROVE  Sound
  OBVIOUS
<1>1. th \in [Threads -> ThreadState]
  <2>1. [Idle EXCEPT !.pc = "build"] \in ThreadState
    BY IdleType DEF Idle, ThreadState, Pcs
  <2> QED
    BY <2>1, IdleType DEF Init
<1>2. TypeOK
  <2>1. backlog \in Seq(Peers) /\ Len(backlog) = 0
    BY DEF Init
  <2> QED
    BY <1>1, <2>1 DEF Init, TypeOK
<1>3. Kernel
  <2>1. Len(backlog) = 0
    BY DEF Init
  <2> QED
    BY <2>1 DEF Init, Kernel
<1>4. Control
  BY DEF Init, Control, ControlOf, Idle, Threads, Server, Senders, Inside
<1> QED
  BY <1>2, <1>3, <1>4 DEF Sound

(* The peers.                                                              *)
LEMMA SoundPeers ==
  ASSUME Sound, NEW p \in Peers, Connect(p) \/ Speak(p) \/ HangUp(p)
  PROVE  Sound'
<1>0. Control' /\ th' = th
  BY DEF Connect, Speak, HangUp, Sound, Control
<1>1. CASE Connect(p)
  <2>1. /\ peer' = [peer EXCEPT ![p] = "queued"] /\ peer[p] = "out"
        /\ backlog' = Append(backlog, p)
        /\ UNCHANGED <<mail, file, slots, mask, readfds, ready, synced, turned>>
    BY <1>1 DEF Connect
  <2>2. backlog \in Seq(Peers) /\ Len(backlog) \in Nat
        /\ \A i \in 1 .. Len(backlog) : backlog[i] \in Peers
    BY DEF Sound, TypeOK
  <2>3. /\ backlog' \in Seq(Peers) /\ Len(backlog') = Len(backlog) + 1
        /\ backlog'[Len(backlog) + 1] = p
        /\ \A i \in 1 .. Len(backlog) : backlog'[i] = backlog[i]
    BY <2>1, <2>2, AppendProperties
  <2>4. TypeOK'
    BY <1>0, <2>1, <2>3 DEF Sound, TypeOK
  <2>5. \A i \in 1 .. Len(backlog') :
          i \in 1 .. Len(backlog) \/ i = Len(backlog) + 1
    BY <2>2, <2>3
  <2>6. \A i \in 1 .. Len(backlog) : backlog[i] # p /\ peer[backlog[i]] = "queued"
    BY <2>1 DEF Sound, Kernel
  <2>7. \A q \in Peers : peer'[q] = IF q = p THEN "queued" ELSE peer[q]
    BY <2>1 DEF Sound, TypeOK
  <2>8. \A fd \in Fds : file'[fd] # None => peer'[file'[fd]] \in {"open", "gone"}
    BY <2>1, <2>7 DEF Sound, TypeOK, Kernel
  <2>9. \A q \in synced' : peer'[q] \in {"open", "gone"}
    BY <2>1, <2>7 DEF Sound, TypeOK, Kernel
  <2>10. \A i \in 1 .. Len(backlog') : peer'[backlog'[i]] = "queued"
    BY <2>2, <2>3, <2>5, <2>6, <2>7
  <2>11. \A i, j \in 1 .. Len(backlog') : backlog'[i] = backlog'[j] => i = j
    BY <2>3, <2>5, <2>6 DEF Sound, Kernel
  <2> QED
    BY <1>0, <2>1, <2>4, <2>8, <2>9, <2>10, <2>11 DEF Sound, Kernel
<1>2. CASE Speak(p)
  BY <1>0, <1>2 DEF Speak, Sound, TypeOK, Kernel
<1>3. CASE HangUp(p)
  <2>1. /\ peer' = [peer EXCEPT ![p] = "gone"] /\ peer[p] = "open"
        /\ UNCHANGED <<backlog, mail, file, slots, mask, readfds, ready, synced,
                       turned>>
    BY <1>3 DEF HangUp
  <2>2. \A q \in Peers : peer'[q] = IF q = p THEN "gone" ELSE peer[q]
    BY <2>1 DEF Sound, TypeOK
  <2>3. \A i \in 1 .. Len(backlog) : backlog[i] \in Peers
    BY DEF Sound, TypeOK
  <2>4. TypeOK'
    BY <1>0, <2>1 DEF Sound, TypeOK
  <2>5. Kernel'
    BY <2>1, <2>2, <2>3 DEF Sound, TypeOK, Kernel
  <2> QED
    BY <1>0, <2>4, <2>5 DEF Sound
<1> QED
  BY <1>1, <1>2, <1>3

(* Steps that move a thread and change neither a connection nor what is    *)
(* known of one.                                                           *)
LEMMA SoundMove ==
  ASSUME Sound, NEW t \in Threads, NEW x \in ThreadState, ControlOf(t, x),
         th' = [th EXCEPT ![t] = x],
         UNCHANGED <<peer, backlog, file, synced, turned>>,
         mail' \subseteq mail, slots' \in [Slots -> {0} \cup Fds],
         mask' \subseteq Bits, readfds' \subseteq Fds \cup {Master},
         ready' \in BOOLEAN
  PROVE  Sound'
<1>1. th' \in [Threads -> ThreadState] /\ Control'
  BY Moved DEF Sound
<1>2. TypeOK'
  BY <1>1 DEF Sound, TypeOK
<1>3. Kernel'
  BY DEF Sound, Kernel
<1> QED
  BY <1>1, <1>2, <1>3 DEF Sound

LEMMA SoundGoto ==
  ASSUME Sound, NEW t \in Threads, NEW pc \in Pcs, Goto(t, pc),
         ControlOf(t, [th[t] EXCEPT !.pc = pc]),
         UNCHANGED <<peer, backlog, file, synced, turned>>,
         mail' \subseteq mail, slots' \in [Slots -> {0} \cup Fds],
         mask' \subseteq Bits, readfds' \subseteq Fds \cup {Master},
         ready' \in BOOLEAN
  PROVE  Sound'
  BY GotoIs, SoundMove DEF Sound

LEMMA SoundEnter ==
  ASSUME Sound, NEW t \in Senders, LeaseUpdate \/ Notify \/ Enter(t)
  PROVE  Sound'
<1>1. Threads = {Server, "leaseServer", "sysevent"} /\ Senders \subseteq Threads
      /\ Server \notin Senders
  BY DEF Threads, Senders, Server
<1>2. UNCHANGED <<peer, backlog, mail, file, slots, mask, readfds, ready, synced,
                  turned>>
  BY DEF LeaseUpdate, Notify, Enter, net
<1>3. PICK u \in Senders, pc \in {"enter", "scan"} :
        Goto(u, pc) /\ th[u].pc \in {"idle", "enter"}
  BY DEF LeaseUpdate, Notify, Enter, Senders
<1>4. th[u] \in ThreadState /\ ControlOf(u, th[u])
  BY <1>1, ThreadType DEF Sound
<1> DEFINE x == [th[u] EXCEPT !.pc = pc]
<1>5. /\ x.pc = pc /\ x.loop = th[u].loop /\ x.todo = th[u].todo
      /\ x.sd = th[u].sd
  BY <1>4 DEF ThreadState
<1> HIDE DEF x
<1>6. ControlOf(u, x)
  BY <1>3, <1>4, <1>5 DEF ControlOf, Inside
<1>7. pc \in Pcs
  BY DEF Pcs, Inside
<1>8. /\ slots' \in [Slots -> {0} \cup Fds] /\ mask' \subseteq Bits
      /\ readfds' \subseteq Fds \cup {Master} /\ ready' \in BOOLEAN
      /\ mail' \subseteq mail
  BY <1>2 DEF Sound, TypeOK
<1> QED
  BY <1>1, <1>2, <1>3, <1>6, <1>7, <1>8, SoundGoto DEF x

LEMMA ThreadNames ==
  /\ Threads = {Server, "leaseServer", "sysevent"}
  /\ Senders \subseteq Threads /\ Server \in Threads /\ Server \notin Senders
  BY DEF Threads, Senders, Server

(* What a step that leaves the tables alone keeps of their types.          *)
LEMMA TablesKept ==
  ASSUME TypeOK, UNCHANGED <<slots, mask, readfds, ready>>
  PROVE  /\ slots' \in [Slots -> {0} \cup Fds] /\ mask' \subseteq Bits
         /\ readfds' \subseteq Fds \cup {Master} /\ ready' \in BOOLEAN
  BY DEF TypeOK

LEMMA SoundScan ==
  ASSUME Sound, NEW t \in Threads, Scan(t)
  PROVE  Sound'
<1> DEFINE x == th[t]
           sd == slots[x.i]
           y == [x EXCEPT !.pc = "send", !.sd = sd]
<1>1. x \in ThreadState /\ ControlOf(t, x)
  BY ThreadType DEF Sound
<1>2. sd \in {0} \cup Fds /\ x.i \in Slots
  BY <1>1 DEF Sound, TypeOK, ThreadState
<1>3. /\ x.pc = "scan"
      /\ th' = [th EXCEPT ![t] = IF sd = 0 THEN After(t) ELSE y]
      /\ UNCHANGED <<net, slots, mask, readfds, ready, synced, turned>>
  BY DEF Scan, TypeOK
<1>4. UNCHANGED <<peer, backlog, mail, file, slots, mask, readfds, ready, synced,
                  turned>>
  BY <1>3 DEF net
<1>5. CASE sd = 0
  <2>1. After(t) \in ThreadState /\ ControlOf(t, After(t))
    BY AfterIs DEF Sound
  <2>2. th' = [th EXCEPT ![t] = After(t)]
    BY <1>3, <1>5
  <2> QED
    BY <1>4, <2>1, <2>2, SoundMove, TablesKept DEF Sound
<1>6. CASE sd # 0
  <2>1. /\ y \in ThreadState /\ y.pc = "send" /\ y.sd = sd /\ y.todo = x.todo
        /\ y.loop = x.loop
    BY <1>1, <1>2 DEF ThreadState, Pcs, Inside
  <2>2. th' = [th EXCEPT ![t] = y]
    BY <1>3, <1>6
  <2> HIDE DEF x, sd, y
  <2>3. ControlOf(t, y)
    BY <1>1, <1>2, <1>3, <1>6, <2>1 DEF ControlOf, Inside
  <2> QED
    BY <1>4, <2>1, <2>2, <2>3, SoundMove, TablesKept DEF Sound
<1> QED
  BY <1>5, <1>6

LEMMA SoundSend ==
  ASSUME Sound, NEW t \in Threads, Send(t)
  PROVE  Sound'
<1> DEFINE x == th[t]
           y == [x EXCEPT !.pc = "close"]
<1>1. x \in ThreadState /\ ControlOf(t, x) /\ x.pc = "send"
  BY ThreadType DEF Sound, Send
<1>2. x.sd \in Fds
  BY <1>1 DEF ControlOf
<1>3. UNCHANGED <<peer, backlog, mail, file, slots, mask, readfds, ready, turned>>
  BY DEF Send, net
<1>4. CASE Reached(x.sd)
  <2>1. After(t) \in ThreadState /\ ControlOf(t, After(t))
    BY AfterIs DEF Sound
  <2>2. th' = [th EXCEPT ![t] = After(t)]
        /\ synced' \subseteq synced \cup {file[x.sd]}
    BY <1>4 DEF Send
  <2>3. th' \in [Threads -> ThreadState] /\ Control'
    BY <2>1, <2>2, Moved DEF Sound
  <2>4. file[x.sd] \in Peers /\ peer[file[x.sd]] = "open"
    BY <1>2, <1>4 DEF Reached, Sound, TypeOK
  <2>5. TypeOK'
    BY <1>3, <2>2, <2>3, <2>4 DEF Sound, TypeOK
  <2>6. Kernel'
    BY <1>3, <2>2, <2>4 DEF Sound, Kernel
  <2> QED
    BY <2>3, <2>5, <2>6 DEF Sound
<1>5. CASE ~Reached(x.sd)
  <2>1. Goto(t, "close") /\ synced' = synced
    BY <1>5 DEF Send
  <2>2. y.pc = "close" /\ y.sd = x.sd /\ y.todo = x.todo /\ y.loop = x.loop
    BY <1>1 DEF ThreadState
  <2> HIDE DEF x, y
  <2>3. ControlOf(t, y)
    BY <1>1, <1>2, <2>2 DEF ControlOf, Inside
  <2>4. "close" \in Pcs
    BY DEF Pcs, Inside
  <2> QED
    BY <1>3, <2>1, <2>3, <2>4, SoundGoto, TablesKept DEF Sound, x, y
<1> QED
  BY <1>4, <1>5

LEMMA SoundClose ==
  ASSUME Sound, NEW t \in Threads, Close(t)
  PROVE  Sound'
<1> DEFINE x == th[t]
           y == [x EXCEPT !.pc = "clear"]
           c == file[x.sd]
<1>1. x \in ThreadState /\ ControlOf(t, x) /\ x.pc = "close"
  BY ThreadType DEF Sound, Close
<1>2. x.sd \in Fds
  BY <1>1 DEF ControlOf
<1>3. /\ UNCHANGED <<backlog, slots, mask, readfds, ready>>
      /\ Goto(t, "clear")
      /\ file' = [file EXCEPT ![x.sd] = None]
      /\ peer' = [p \in Peers |-> IF p = c THEN "out" ELSE peer[p]]
      /\ mail' = mail \ {c}
      /\ synced' = synced \ {c}
      /\ turned' = turned \ {x.sd}
  BY DEF Close, CloseFile
<1>4. y.pc = "clear" /\ y.sd = x.sd /\ y.todo = x.todo /\ y.loop = x.loop
  BY <1>1 DEF ThreadState
<1>5. ControlOf(t, y)
  <2> HIDE DEF x, y
  <2> QED
    BY <1>1, <1>2, <1>4 DEF ControlOf, Inside
<1>6. th' \in [Threads -> ThreadState] /\ Control'
  <2>1. "clear" \in Pcs
    BY DEF Pcs, Inside
  <2> QED
    BY <1>3, <1>5, <2>1, GotoIs, Moved DEF Sound
<1>7. c \in Peers \cup {None}
  BY <1>2 DEF Sound, TypeOK
<1>8. TypeOK'
  BY <1>2, <1>3, <1>6, <1>7 DEF Sound, TypeOK
<1>9. Kernel'
  <2> DEFINE sd == x.sd
  <2> HIDE DEF sd, c
  <2>1. \A f \in Fds : file'[f] = IF f = sd THEN None ELSE file[f]
    BY <1>3 DEF Sound, TypeOK, sd, c
  <2>2. \A p \in Peers : peer'[p] = IF p = c THEN "out" ELSE peer[p]
    BY <1>3 DEF c
  <2>3. sd \in Fds /\ c = file[sd]
    BY <1>2 DEF sd, c
  <2>4. \A f \in Fds : file'[f] # None => peer'[file'[f]] \in {"open", "gone"}
    <3> SUFFICES ASSUME NEW f \in Fds, file'[f] # None
                 PROVE  peer'[file'[f]] \in {"open", "gone"}
      OBVIOUS
    <3>1. f # sd /\ file'[f] = file[f] /\ file[f] \in Peers
      BY <2>1 DEF Sound, TypeOK
    <3>2. file[f] # c
      BY <2>3, <3>1, Numbers DEF Sound, Kernel
    <3> QED
      BY <2>2, <3>1, <3>2 DEF Sound, Kernel
  <2>5. \A f, g \in Fds : file'[f] # None /\ file'[f] = file'[g] => f = g
    BY <2>1 DEF Sound, Kernel
  <2>6. \A i \in 1 .. Len(backlog) : backlog[i] \in Peers /\ backlog[i] # c
    BY <2>3, Numbers DEF Sound, TypeOK, Kernel
  <2>7. /\ \A i \in 1 .. Len(backlog') : peer'[backlog'[i]] = "queued"
        /\ \A i, j \in 1 .. Len(backlog') : backlog'[i] = backlog'[j] => i = j
    BY <1>3, <2>2, <2>6 DEF Sound, Kernel
  <2>8. \A p \in synced' : peer'[p] \in {"open", "gone"}
    BY <1>3, <2>2 DEF Sound, TypeOK, Kernel
  <2> QED
    BY <2>4, <2>5, <2>7, <2>8 DEF Kernel
<1> QED
  BY <1>6, <1>8, <1>9 DEF Sound

LEMMA SoundClear ==
  ASSUME Sound, NEW t \in Threads, Clear(t)
  PROVE  Sound'
<1> DEFINE x == th[t]
           y == [x EXCEPT !.pc = "load", !.sd = 0, !.todo = "unmask"]
<1>1. x \in ThreadState /\ ControlOf(t, x) /\ x.pc = "clear" /\ x.i \in Slots
  BY ThreadType DEF Sound, Clear, ThreadState
<1>2. /\ y \in ThreadState /\ y.pc = "load" /\ y.todo = "unmask"
      /\ y.loop = x.loop
  BY <1>1 DEF ThreadState, Pcs, Inside, Edits
<1>3. ControlOf(t, y)
  <2> HIDE DEF x, y
  <2> QED
    BY <1>1, <1>2 DEF ControlOf, Inside
<1>4. /\ th' = [th EXCEPT ![t] = y]
      /\ slots' = [slots EXCEPT ![x.i] = 0]
      /\ UNCHANGED <<net, mask, readfds, ready, synced, turned>>
  BY DEF Clear, Sound, TypeOK
<1>5. /\ slots' \in [Slots -> {0} \cup Fds] /\ mask' \subseteq Bits
      /\ readfds' \subseteq Fds \cup {Master} /\ ready' \in BOOLEAN
  BY <1>4 DEF Sound, TypeOK
<1> QED
  BY <1>2, <1>3, <1>4, <1>5, SoundMove DEF net

LEMMA SoundLoad ==
  ASSUME Sound, NEW t \in Threads, Load(t)
  PROVE  Sound'
<1> DEFINE x == th[t]
           y == [x EXCEPT !.pc = "store", !.reg = mask]
<1>1. x \in ThreadState /\ ControlOf(t, x) /\ x.pc = "load"
  BY ThreadType DEF Sound, Load
<1>2. y \in ThreadState /\ y.pc = "store" /\ y.todo = x.todo /\ y.loop = x.loop
  BY <1>1 DEF ThreadState, Pcs, Inside, Sound, TypeOK
<1>3. ControlOf(t, y)
  <2> HIDE DEF x, y
  <2> QED
    BY <1>1, <1>2 DEF ControlOf, Inside
<1>4. /\ th' = [th EXCEPT ![t] = y]
      /\ UNCHANGED <<net, slots, mask, readfds, ready, synced, turned>>
  BY DEF Load, Sound, TypeOK
<1> QED
  BY <1>2, <1>3, <1>4, SoundMove, TablesKept DEF net, Sound

(* What follows an assignment to the mask, in each of the four places.     *)
LEMMA AfterEditIs ==
  ASSUME TypeOK, Control, NEW t \in Threads, th[t].pc = "store"
  PROVE  LET x == th[t]
             y == AfterEdit(t)
         IN  /\ y \in ThreadState /\ ControlOf(t, y)
             /\ x.todo \in {"mask", "sync", "unsync", "unmask"}
             /\ x.todo # "unmask" => t = Server
             /\ x.todo = "mask" => y.pc = "load" /\ y.todo = "sync"
             /\ x.todo = "sync" => y.pc = "scan" /\ y.todo = "none"
             /\ x.todo = "unsync" => y.pc = "wait" /\ y.todo = "none"
             /\ x.todo = "unmask" => y = After(t)
             /\ Edited(t) \subseteq Bits
<1> DEFINE x == th[t]
           y == AfterEdit(t)
<1>1. x \in ThreadState /\ ControlOf(t, x)
  BY ThreadType
<1>2. x.todo \in {"mask", "sync", "unsync", "unmask"} /\ x.i \in Slots
      /\ x.reg \subseteq Bits
  BY <1>1 DEF ControlOf, ThreadState, Edits
<1>3. x.todo # "unmask" => t = Server
  BY <1>1, <1>2 DEF ControlOf, Threads
<1>4. Edited(t) \subseteq Bits
  BY <1>2 DEF Edited, Bits
<1>5. CASE x.todo = "mask"
  <2>1. y = [Idle EXCEPT !.pc = "load", !.todo = "sync"]
    BY <1>5 DEF AfterEdit
  <2>2. y \in ThreadState /\ y.pc = "load" /\ y.todo = "sync"
    BY <2>1, IdleType DEF Idle, ThreadState, Pcs, Inside, Edits
  <2> HIDE DEF x, y
  <2>3. ControlOf(t, y)
    BY <1>3, <1>5, <2>2, ThreadNames DEF ControlOf
  <2> QED
    BY <1>2, <1>3, <1>4, <1>5, <2>2, <2>3 DEF x, y
<1>6. CASE x.todo = "sync"
  <2>1. y = [Idle EXCEPT !.pc = "scan"]
    BY <1>6 DEF AfterEdit
  <2>2. y \in ThreadState /\ y.pc = "scan" /\ y.todo = "none" /\ y.loop = "scan"
    BY <2>1, IdleType DEF Idle, ThreadState, Pcs, Inside
  <2> HIDE DEF x, y
  <2>3. ControlOf(t, y)
    BY <1>3, <1>6, <2>2, ThreadNames DEF ControlOf
  <2> QED
    BY <1>2, <1>3, <1>4, <1>6, <2>2, <2>3 DEF x, y
<1>7. CASE x.todo = "unsync"
  <2>1. y = [Idle EXCEPT !.pc = "wait"]
    BY <1>7 DEF AfterEdit
  <2>2. y \in ThreadState /\ y.pc = "wait" /\ y.todo = "none"
    BY <2>1, IdleType DEF Idle, ThreadState, Pcs
  <2> HIDE DEF x, y
  <2>3. ControlOf(t, y)
    BY <1>3, <1>7, <2>2, ThreadNames DEF ControlOf
  <2> QED
    BY <1>2, <1>3, <1>4, <1>7, <2>2, <2>3 DEF x, y
<1>8. CASE x.todo = "unmask"
  <2>1. y = After(t)
    BY <1>8 DEF AfterEdit
  <2>2. y \in ThreadState /\ ControlOf(t, y)
    BY <2>1, AfterIs
  <2> QED
    BY <1>2, <1>3, <1>4, <1>8, <2>1, <2>2
<1> QED
  BY <1>2, <1>5, <1>6, <1>7, <1>8

LEMMA SoundStore ==
  ASSUME Sound, NEW t \in Threads, Store(t)
  PROVE  Sound'
<1>1. AfterEdit(t) \in ThreadState /\ ControlOf(t, AfterEdit(t))
      /\ Edited(t) \subseteq Bits
  BY AfterEditIs DEF Sound, Store
<1>2. /\ th' = [th EXCEPT ![t] = AfterEdit(t)]
      /\ mask' = Edited(t)
      /\ UNCHANGED <<net, slots, readfds, ready, synced, turned>>
  BY DEF Store
<1>3. /\ slots' \in [Slots -> {0} \cup Fds] /\ mask' \subseteq Bits
      /\ readfds' \subseteq Fds \cup {Master} /\ ready' \in BOOLEAN
  BY <1>1, <1>2 DEF Sound, TypeOK
<1> QED
  BY <1>1, <1>2, <1>3, SoundMove DEF net

(* msgQServer moves on, and nothing else changes but what it will select.  *)
LEMMA SoundServer ==
  ASSUME Sound, NEW pc \in {"select", "accept", "wait"},
         th[Server].todo = "none", Goto(Server, pc),
         readfds' \subseteq Fds \cup {Master},
         UNCHANGED <<net, slots, mask, ready, synced, turned>>
  PROVE  Sound'
<1> DEFINE x == th[Server]
           y == [x EXCEPT !.pc = pc]
<1>1. x \in ThreadState /\ ControlOf(Server, x)
  BY ThreadNames, ThreadType DEF Sound
<1>2. y.pc = pc /\ y.todo = "none" /\ y.loop = x.loop
  BY <1>1 DEF ThreadState
<1>3. ControlOf(Server, y)
  <2> HIDE DEF x, y
  <2> QED
    BY <1>2, ThreadNames DEF ControlOf
<1>4. pc \in Pcs
  BY DEF Pcs
<1>5. slots' \in [Slots -> {0} \cup Fds] /\ mask' \subseteq Bits
      /\ ready' \in BOOLEAN
  BY DEF Sound, TypeOK
<1> QED
  BY <1>3, <1>4, <1>5, ThreadNames, SoundGoto DEF net

LEMMA SoundBuild ==
  ASSUME Sound, Build
  PROVE  Sound'
<1>1. th[Server].todo = "none"
  BY ThreadNames, ThreadType DEF Sound, Build, ControlOf
<1>2. readfds' \subseteq Fds \cup {Master}
  BY DEF Build, Sound, TypeOK
<1> QED
  BY <1>1, <1>2, SoundServer DEF Build

LEMMA SoundSelect ==
  ASSUME Sound, Select
  PROVE  Sound'
<1>1. th[Server].todo = "none"
  BY ThreadNames, ThreadType DEF Sound, Select, ServerBlocked, ControlOf
<1>2. readfds' \subseteq Fds \cup {Master}
  BY DEF Select, Results, Selected, Sound, TypeOK
<1> QED
  BY <1>1, <1>2, SoundServer DEF Select

LEMMA SoundAwait ==
  ASSUME Sound, AwaitHandler
  PROVE  Sound'
<1> DEFINE y == [Idle EXCEPT !.pc = "read", !.loop = "read"]
<1>1. y \in ThreadState /\ y.pc = "read" /\ y.loop = "read" /\ y.todo = "none"
  BY IdleType DEF Idle, ThreadState, Pcs
<1>2. th' = [th EXCEPT ![Server] = y]
      /\ UNCHANGED <<net, slots, mask, readfds, ready, synced, turned>>
  BY DEF AwaitHandler
<1> HIDE DEF y
<1>3. ControlOf(Server, y)
  BY <1>1, ThreadNames DEF ControlOf
<1> QED
  BY <1>1, <1>2, <1>3, ThreadNames, SoundMove, TablesKept DEF net, Sound

LEMMA SoundRead ==
  ASSUME Sound, Read
  PROVE  Sound'
<1> DEFINE x == th[Server]
           sd == slots[x.i]
           y == [x EXCEPT !.pc = "close", !.sd = sd]
<1>1. x \in ThreadState /\ ControlOf(Server, x) /\ x.pc = "read"
  BY ThreadNames, ThreadType DEF Sound, Read
<1>2. sd \in {0} \cup Fds
  BY <1>1 DEF Sound, TypeOK, ThreadState
<1>3. UNCHANGED <<peer, backlog, file, slots, mask, readfds, ready, synced,
                  turned>>
      /\ mail' \subseteq mail
  BY DEF Read
<1>4. CASE th' = [th EXCEPT ![Server] = After(Server)]
  <2>1. After(Server) \in ThreadState /\ ControlOf(Server, After(Server))
    BY ThreadNames, AfterIs DEF Sound
  <2> QED
    BY <1>3, <1>4, <2>1, ThreadNames, SoundMove, TablesKept DEF Sound
<1>5. CASE sd \in readfds /\ file[sd] # None /\ th' = [th EXCEPT ![Server] = y]
  <2>1. sd \in Fds
    BY <1>2, <1>5, Numbers DEF Sound, TypeOK
  <2>2. /\ y \in ThreadState /\ y.pc = "close" /\ y.sd = sd /\ y.todo = x.todo
        /\ y.loop = x.loop
    BY <1>1, <2>1 DEF ThreadState, Pcs, Inside
  <2> HIDE DEF x, sd, y
  <2>3. ControlOf(Server, y)
    BY <1>1, <2>1, <2>2, ThreadNames DEF ControlOf
  <2> QED
    BY <1>3, <1>5, <2>2, <2>3, ThreadNames, SoundMove, TablesKept DEF Sound
<1>6. \/ th' = [th EXCEPT ![Server] = After(Server)]
      \/ sd \in readfds /\ file[sd] # None /\ th' = [th EXCEPT ![Server] = y]
  BY ThreadNames DEF Read, Sound, TypeOK
<1> QED
  BY <1>4, <1>5, <1>6

(* What accept takes and where it puts it.                                 *)
LEMMA Accepted ==
  ASSUME Sound, Accept
  PROVE  \E fd \in Fds, p \in Peers :
           /\ file[fd] = None /\ peer[p] = "queued" /\ p = backlog[1]
           /\ \A i \in 1 .. Len(backlog) : i # 1 => backlog[i] # p
           /\ backlog' = Tail(backlog) /\ backlog # << >>
           /\ peer' = [peer EXCEPT ![p] = "open"]
           /\ file' = [file EXCEPT ![fd] = p]
           /\ UNCHANGED <<mail, mask, readfds, ready, synced>>
           /\ \/ /\ \A s \in Slots : slots[s] # 0
                 /\ turned' = turned \cup {fd} /\ Goto(Server, "wait")
                 /\ slots' = slots
              \/ \E s \in Slots :
                   /\ slots[s] = 0
                   /\ slots' = [slots EXCEPT ![s] = fd]
                   /\ th' = [th EXCEPT ![Server] =
                        [Idle EXCEPT !.pc = "load", !.i = s, !.todo = "mask"]]
                   /\ turned' = turned
<1> DEFINE free == {f \in Fds : file[f] = None}
           empty == {s \in Slots : slots[s] = 0}
           fd == Min(free)
           p == Head(backlog)
<1>1. fd \in Fds /\ file[fd] = None
  <2>1. free # {} /\ free \subseteq Nat
    BY FreeDescriptor, Numbers DEF Accept, Sound
  <2>2. fd \in free
    BY <2>1, LeastOf
  <2> QED
    BY <2>2
<1>2. p \in Peers /\ peer[p] = "queued" /\ p = backlog[1]
      /\ \A i \in 1 .. Len(backlog) : i # 1 => backlog[i] # p
  <2>1. backlog \in Seq(Peers) /\ backlog # << >> /\ Len(backlog) \in Nat
    BY DEF Accept, Sound, TypeOK
  <2>2. p = backlog[1] /\ 1 \in 1 .. Len(backlog) /\ p \in Peers
    BY <2>1
  <2> HIDE DEF p
  <2> QED
    BY <2>2 DEF Sound, Kernel
<1>3. empty # {} => Min(empty) \in empty
  BY LeastOf, Numbers
<1>4. /\ backlog' = Tail(backlog) /\ backlog # << >>
      /\ peer' = [peer EXCEPT ![p] = "open"]
      /\ file' = [file EXCEPT ![fd] = p]
      /\ UNCHANGED <<mail, mask, readfds, ready, synced>>
      /\ IF empty = {}
           THEN /\ turned' = turned \cup {fd}
                /\ Goto(Server, "wait")
                /\ UNCHANGED slots
           ELSE /\ slots' = [slots EXCEPT ![Min(empty)] = fd]
                /\ th' = [th EXCEPT ![Server] =
                     [Idle EXCEPT !.pc = "load", !.i = Min(empty),
                                  !.todo = "mask"]]
                /\ UNCHANGED turned
  BY DEF Accept
<1> DEFINE m == Min(empty)
<1>5. \/ /\ \A s \in Slots : slots[s] # 0
         /\ turned' = turned \cup {fd} /\ Goto(Server, "wait")
         /\ slots' = slots
      \/ /\ m \in Slots /\ slots[m] = 0
         /\ slots' = [slots EXCEPT ![m] = fd]
         /\ th' = [th EXCEPT ![Server] =
                        [Idle EXCEPT !.pc = "load", !.i = m, !.todo = "mask"]]
         /\ turned' = turned
  <2>1. CASE empty = {}
    BY <1>4, <2>1
  <2>2. CASE empty # {}
    <3>1. m \in empty
      BY <1>3, <2>2
    <3> QED
      BY <1>4, <2>2, <3>1
  <2> QED
    BY <2>1, <2>2
<1> HIDE DEF m, fd, p
<1> QED
  BY <1>1, <1>2, <1>4, <1>5

LEMMA SoundAccept ==
  ASSUME Sound, Accept
  PROVE  Sound'
<1>1. PICK fd \in Fds, p \in Peers :
           /\ file[fd] = None /\ peer[p] = "queued" /\ p = backlog[1]
           /\ \A i \in 1 .. Len(backlog) : i # 1 => backlog[i] # p
           /\ backlog' = Tail(backlog) /\ backlog # << >>
           /\ peer' = [peer EXCEPT ![p] = "open"]
           /\ file' = [file EXCEPT ![fd] = p]
           /\ UNCHANGED <<mail, mask, readfds, ready, synced>>
           /\ \/ /\ \A s \in Slots : slots[s] # 0
                 /\ turned' = turned \cup {fd} /\ Goto(Server, "wait")
                 /\ slots' = slots
              \/ \E s \in Slots :
                   /\ slots[s] = 0
                   /\ slots' = [slots EXCEPT ![s] = fd]
                   /\ th' = [th EXCEPT ![Server] =
                        [Idle EXCEPT !.pc = "load", !.i = s, !.todo = "mask"]]
                   /\ turned' = turned
  BY Accepted
<1>2. th' \in [Threads -> ThreadState] /\ Control'
      /\ slots' \in [Slots -> {0} \cup Fds] /\ turned' \subseteq Fds
  <2>1. CASE turned' = turned \cup {fd} /\ Goto(Server, "wait") /\ slots' = slots
    <3> DEFINE x == th[Server]
               y == [x EXCEPT !.pc = "wait"]
    <3>1. x \in ThreadState /\ ControlOf(Server, x) /\ x.pc = "accept"
      BY ThreadNames, ThreadType DEF Sound, Accept
    <3>2. y.pc = "wait" /\ y.todo = x.todo
      BY <3>1 DEF ThreadState
    <3>3. ControlOf(Server, y)
      <4> HIDE DEF x, y
      <4> QED
        BY <3>1, <3>2, ThreadNames DEF ControlOf
    <3>4. "wait" \in Pcs
      BY DEF Pcs
    <3>5. th' \in [Threads -> ThreadState] /\ Control'
      BY <2>1, <3>3, <3>4, ThreadNames, GotoIs, Moved DEF Sound
    <3> QED
      BY <2>1, <3>5 DEF Sound, TypeOK
  <2>2. ASSUME NEW s \in Slots, slots' = [slots EXCEPT ![s] = fd],
               th' = [th EXCEPT ![Server] =
                        [Idle EXCEPT !.pc = "load", !.i = s, !.todo = "mask"]],
               turned' = turned
        PROVE  th' \in [Threads -> ThreadState] /\ Control'
               /\ slots' \in [Slots -> {0} \cup Fds] /\ turned' \subseteq Fds
    <3> DEFINE y == [Idle EXCEPT !.pc = "load", !.i = s, !.todo = "mask"]
    <3>1. y \in ThreadState /\ y.pc = "load" /\ y.todo = "mask"
      BY IdleType DEF Idle, ThreadState, Pcs, Inside, Edits
    <3>2. th' = [th EXCEPT ![Server] = y]
      BY <2>2
    <3> HIDE DEF y
    <3>3. ControlOf(Server, y)
      BY <3>1, ThreadNames DEF ControlOf
    <3>4. th' \in [Threads -> ThreadState] /\ Control'
      BY <3>1, <3>2, <3>3, ThreadNames, Moved DEF Sound
    <3>5. slots' \in [Slots -> {0} \cup Fds]
      BY <2>2 DEF Sound, TypeOK
    <3> QED
      BY <2>2, <3>4, <3>5 DEF Sound, TypeOK
  <2> QED
    BY <1>1, <2>1, <2>2
<1>3. /\ file[fd] = None /\ peer[p] = "queued" /\ p = backlog[1]
      /\ \A i \in 1 .. Len(backlog) : i # 1 => backlog[i] # p
      /\ backlog # << >>
  BY <1>1, Zenon
<1>4. /\ backlog' = Tail(backlog)
      /\ peer' = [peer EXCEPT ![p] = "open"]
      /\ file' = [file EXCEPT ![fd] = p]
      /\ UNCHANGED <<mail, mask, readfds, ready, synced>>
  BY <1>1, Zenon
<1>5. /\ backlog \in Seq(Peers) /\ Len(backlog) \in Nat \ {0}
      /\ backlog' \in Seq(Peers) /\ Len(backlog') = Len(backlog) - 1
      /\ \A i \in 1 .. Len(backlog') :
           backlog'[i] = backlog[i + 1] /\ i + 1 \in 1 .. Len(backlog)
  <2>1. backlog \in Seq(Peers) /\ backlog # << >> /\ Len(backlog) \in Nat \ {0}
    BY <1>3, <1>4 DEF Sound, TypeOK
  <2> QED
    BY <1>3, <1>4, <2>1, HeadTailProperties
<1>6. TypeOK'
  BY <1>3, <1>4, <1>2, <1>5 DEF Sound, TypeOK
<1>7. Kernel'
  <2>1. \A q \in Peers : peer'[q] = IF q = p THEN "open" ELSE peer[q]
    BY <1>3, <1>4 DEF Sound, TypeOK
  <2>2. \A f \in Fds : file'[f] = IF f = fd THEN p ELSE file[f]
    BY <1>3, <1>4 DEF Sound, TypeOK
  <2>3. \A f \in Fds : file[f] # None => file[f] \in Peers /\ file[f] # p
    BY <1>3, <1>4 DEF Sound, TypeOK, Kernel
  <2>4. \A f \in Fds : file'[f] # None => peer'[file'[f]] \in {"open", "gone"}
    BY <2>1, <2>2, <2>3 DEF Sound, Kernel
  <2>5. \A f, g \in Fds : file'[f] # None /\ file'[f] = file'[g] => f = g
    BY <2>2, <2>3, Numbers DEF Sound, Kernel
  <2>6. \A i \in 1 .. Len(backlog') : backlog'[i] \in Peers /\ backlog'[i] # p
    BY <1>3, <1>4, <1>5
  <2>7. \A i \in 1 .. Len(backlog') : peer'[backlog'[i]] = "queued"
    BY <1>5, <2>1, <2>6 DEF Sound, Kernel
  <2>8. \A i, j \in 1 .. Len(backlog') : backlog'[i] = backlog'[j] => i = j
    <3> SUFFICES ASSUME NEW i \in 1 .. Len(backlog'), NEW j \in 1 .. Len(backlog'),
                        backlog'[i] = backlog'[j]
                 PROVE  i = j
      OBVIOUS
    <3>1. i + 1 \in 1 .. Len(backlog) /\ j + 1 \in 1 .. Len(backlog)
          /\ backlog[i + 1] = backlog[j + 1]
      BY <1>5
    <3>2. i + 1 = j + 1
      BY <3>1 DEF Sound, Kernel
    <3> QED
      BY <1>5, <3>2
  <2>9. \A q \in synced' : peer'[q] \in {"open", "gone"}
    BY <1>3, <1>4, <2>1 DEF Sound, TypeOK, Kernel
  <2> QED
    BY <2>4, <2>5, <2>7, <2>8, <2>9 DEF Kernel
<1> QED
  BY <1>2, <1>6, <1>7 DEF Sound

LEMMA SoundStep ==
  ASSUME Sound, [Next]_vars
  PROVE  Sound'
<1>1. CASE UNCHANGED vars
  BY <1>1 DEF vars, net, Sound, TypeOK, Kernel, Control
<1>2. CASE \E p \in Peers : Connect(p) \/ Speak(p) \/ HangUp(p)
  BY <1>2, SoundPeers
<1>3. CASE HandlerReady
  <2>1. UNCHANGED <<net, slots, mask, readfds, th, synced, turned>>
        /\ ready' = TRUE
    BY <1>3 DEF HandlerReady
  <2> QED
    BY <2>1 DEF net, Sound, TypeOK, Kernel, Control
<1>4. CASE LeaseUpdate \/ Notify \/ \E t \in Senders : Enter(t)
  <2>1. PICK t \in Senders : LeaseUpdate \/ Notify \/ Enter(t)
    BY <1>4 DEF Senders
  <2> QED
    BY <2>1, SoundEnter
<1>5. CASE \E t \in Threads : Sends(t)
  BY <1>5, SoundScan, SoundSend, SoundClose, SoundClear, SoundLoad, SoundStore
     DEF Sends
<1>6. CASE Serves
  BY <1>6, SoundBuild, SoundAccept, SoundAwait, SoundRead DEF Serves
<1>7. CASE Select
  BY <1>7, SoundSelect
<1> QED
  BY <1>1, <1>2, <1>3, <1>4, <1>5, <1>6, <1>7 DEF Next

(* Every variable has its type, however the threads overlap: no thread     *)
(* leaves the array of slots, closes what is not a descriptor, or stores   *)
(* to the mask without having loaded it, and accept finds a descriptor.    *)
THEOREM TypeCorrect == Spec => []TypeOK
<1>1. Init => Sound
  BY SoundInit
<1>2. Sound /\ [Next]_vars => Sound'
  BY SoundStep
<1>3. Sound => TypeOK
  BY DEF Sound
<1> QED
  BY <1>1, <1>2, <1>3, PTL DEF Spec

=============================================================================
