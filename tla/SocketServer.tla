---------------------------- MODULE SocketServer ----------------------------
(***************************************************************************)
(* The socket on which the vendor's software talks to the agent.           *)
(*                                                                         *)
(* msgQServer accepts connections into the slots of clientSockets, sends   *)
(* each new one the order to read the leases again, and reads messages and *)
(* hang-ups.  Every other thread of the agent sends through msgQSend,      *)
(* which walks over the slots and closes the ones it cannot send to; the   *)
(* leaseServer thread does so only when clientSocketsMask is not 0.  None  *)
(* of them takes a lock.                                                   *)
(*                                                                         *)
(* A peer is one program of the vendor's, a file descriptor a number, and  *)
(* the kernel gives out the lowest one that is free.  An assignment to     *)
(* clientSocketsMask is two steps, its load and its store.                 *)
(***************************************************************************)
EXTENDS Naturals, Sequences, FiniteSets, FiniteSetsExt

CONSTANTS
  Peers,
  None,      \* the connection of a descriptor that is closed
  NumSlots,  \* MAX_CONNECTED_CLIENTS
  NumFds,    \* bound on the descriptors connections take
  Overlap    \* msgQSend runs while another thread is inside

Server == "msgQServer"
Senders == {"leaseServer", "sysevent"}
Threads == {Server} \cup Senders
Slots == 1 .. NumSlots
Fds == 1 .. NumFds
Master == NumFds + 1  \* the listening socket
Sync == NumSlots + 1  \* the bit MAX_CONNECTED_CLIENTS of the mask
Bits == Slots \cup {Sync}

ASSUME SocketServerAssumption ==
  /\ None \notin Peers
  /\ NumSlots \in Nat \ {0}
  /\ NumFds \in Nat /\ IsFiniteSet(Peers) /\ Cardinality(Peers) <= NumFds
  /\ Overlap \in BOOLEAN

VARIABLES
  peer,     \* each peer: "out", "queued", "open", or "gone"
  backlog,  \* the connections that wait for accept, oldest first
  mail,     \* the peers that have written something the agent has not read
  file,     \* the connection behind each descriptor
  slots,    \* clientSockets; 0 is an empty slot
  mask,     \* clientSocketsMask, as the set of its bits
  readfds,  \* msgQServer's set for select
  ready,    \* s_SysEventHandler_ready
  th,       \* where each thread is
  synced,   \* history: connected peers that were sent a RESYNC
  turned    \* history: descriptors accepted when no slot was empty

net == <<peer, backlog, mail, file>>
vars == <<net, slots, mask, readfds, ready, th, synced, turned>>

Inside == {"scan", "send", "close", "clear", "load", "store"}
Pcs == {"idle", "enter", "build", "select", "accept", "wait", "read"} \cup Inside
Edits == {"none", "mask", "sync", "unsync", "unmask"}

ThreadState ==
  [pc: Pcs, loop: {"scan", "read"}, i: Slots, sd: {0} \cup Fds,
   todo: Edits, reg: SUBSET Bits]

Idle == [pc |-> "idle", loop |-> "scan", i |-> 1, sd |-> 0, todo |-> "none",
         reg |-> {}]

TypeOK ==
  /\ peer \in [Peers -> {"out", "queued", "open", "gone"}]
  /\ backlog \in Seq(Peers)
  /\ mail \subseteq Peers
  /\ file \in [Fds -> Peers \cup {None}]
  /\ slots \in [Slots -> {0} \cup Fds]
  /\ mask \subseteq Bits
  /\ readfds \subseteq Fds \cup {Master}
  /\ ready \in BOOLEAN
  /\ th \in [Threads -> ThreadState]
  /\ synced \subseteq Peers
  /\ turned \subseteq Fds

Init ==
  /\ peer = [p \in Peers |-> "out"] /\ backlog = << >> /\ mail = {}
  /\ file = [fd \in Fds |-> None]
  /\ slots = [s \in Slots |-> 0] /\ mask = {}
  /\ readfds = {} /\ ready = FALSE
  /\ th = [t \in Threads |-> IF t = Server THEN [Idle EXCEPT !.pc = "build"]
                                           ELSE Idle]
  /\ synced = {} /\ turned = {}

-----------------------------------------------------------------------------
(* The peers and the sysevent thread.                                      *)

Connect(p) ==
  /\ peer[p] = "out"
  /\ peer' = [peer EXCEPT ![p] = "queued"]
  /\ backlog' = Append(backlog, p)
  /\ UNCHANGED <<mail, file, slots, mask, readfds, ready, th, synced, turned>>

Speak(p) ==
  /\ peer[p] = "open" /\ p \notin mail
  /\ mail' = mail \cup {p}
  /\ UNCHANGED <<peer, backlog, file, slots, mask, readfds, ready, th, synced,
                 turned>>

HangUp(p) ==
  /\ peer[p] = "open"
  /\ peer' = [peer EXCEPT ![p] = "gone"]
  /\ UNCHANGED <<backlog, mail, file, slots, mask, readfds, ready, th, synced,
                 turned>>

HandlerReady ==
  /\ ~ready
  /\ ready' = TRUE
  /\ UNCHANGED <<net, slots, mask, readfds, th, synced, turned>>

-----------------------------------------------------------------------------
(* What the threads have in common.                                        *)

Goto(t, pc) == th' = [th EXCEPT ![t].pc = pc]

(* Mutant of After: the loop runs one slot too far.                        *)
AfterPastEnd(t) ==
  IF th[t].i <= NumSlots
    THEN [Idle EXCEPT !.pc = th[t].loop, !.loop = th[t].loop, !.i = th[t].i + 1]
    ELSE IF t # Server THEN Idle
    ELSE IF th[t].loop = "read" THEN [Idle EXCEPT !.pc = "build"]
    ELSE [Idle EXCEPT !.pc = "load", !.todo = "unsync"]

(* The next slot of the loop a thread is in, or what follows the loop.     *)
After(t) ==
  IF th[t].i < NumSlots
    THEN [Idle EXCEPT !.pc = th[t].loop, !.loop = th[t].loop, !.i = th[t].i + 1]
    ELSE IF t # Server THEN Idle
    ELSE IF th[t].loop = "read" THEN [Idle EXCEPT !.pc = "build"]
    ELSE [Idle EXCEPT !.pc = "load", !.todo = "unsync"]

(* close(fd): whoever is at the other end is disconnected.  An fd that is  *)
(* closed already is an error nobody looks at.                             *)
CloseFile(fd) ==
  /\ file' = [file EXCEPT ![fd] = None]
  /\ peer' = [p \in Peers |-> IF p = file[fd] THEN "out" ELSE peer[p]]
  /\ mail' = mail \ {file[fd]}
  /\ synced' = synced \ {file[fd]}
  /\ turned' = turned \ {fd}

Close(t) ==
  /\ th[t].pc = "close"
  /\ CloseFile(th[t].sd)
  /\ Goto(t, "clear")
  /\ UNCHANGED <<backlog, slots, mask, readfds, ready>>

(* Mutant of Clear: the bit of the mask is forgotten.                      *)
ClearSlotOnly(t) ==
  /\ th[t].pc = "clear"
  /\ slots' = [slots EXCEPT ![th[t].i] = 0]
  /\ th' = [th EXCEPT ![t] = After(t)]
  /\ UNCHANGED <<net, mask, readfds, ready, synced, turned>>

Clear(t) ==
  /\ th[t].pc = "clear"
  /\ slots' = [slots EXCEPT ![th[t].i] = 0]
  /\ th' = [th EXCEPT ![t].pc = "load", ![t].sd = 0, ![t].todo = "unmask"]
  /\ UNCHANGED <<net, mask, readfds, ready, synced, turned>>

(* The four assignments to clientSocketsMask.                              *)
Load(t) ==
  /\ th[t].pc = "load"
  /\ th' = [th EXCEPT ![t].pc = "store", ![t].reg = mask]
  /\ UNCHANGED <<net, slots, mask, readfds, ready, synced, turned>>

(* Mutant of Edited: after a resynchronisation the whole mask is reset.    *)
EditedTooMuch(t) ==
  CASE th[t].todo = "mask"   -> th[t].reg \cup {th[t].i}
    [] th[t].todo = "unmask" -> th[t].reg \ {th[t].i}
    [] th[t].todo = "sync"   -> th[t].reg \cup {Sync}
    [] th[t].todo = "unsync" -> {}

Edited(t) ==
  CASE th[t].todo = "mask"   -> th[t].reg \cup {th[t].i}
    [] th[t].todo = "unmask" -> th[t].reg \ {th[t].i}
    [] th[t].todo = "sync"   -> th[t].reg \cup {Sync}
    [] th[t].todo = "unsync" -> th[t].reg \ {Sync}

AfterEdit(t) ==
  CASE th[t].todo = "mask"   -> [Idle EXCEPT !.pc = "load", !.todo = "sync"]
    [] th[t].todo = "sync"   -> [Idle EXCEPT !.pc = "scan"]
    [] th[t].todo = "unsync" -> [Idle EXCEPT !.pc = "wait"]
    [] th[t].todo = "unmask" -> After(t)

Store(t) ==
  /\ th[t].pc = "store"
  /\ mask' = Edited(t)
  /\ th' = [th EXCEPT ![t] = AfterEdit(t)]
  /\ UNCHANGED <<net, slots, readfds, ready, synced, turned>>

-----------------------------------------------------------------------------
(* msgQSend.                                                               *)

(* One slot: nothing to do when it is empty.                               *)
Scan(t) ==
  /\ th[t].pc = "scan"
  /\ LET sd == slots[th[t].i]
     IN  th' = [th EXCEPT ![t] = IF sd = 0 THEN After(t)
                                 ELSE [@ EXCEPT !.pc = "send", !.sd = sd]]
  /\ UNCHANGED <<net, slots, mask, readfds, ready, synced, turned>>

Reached(fd) == file[fd] # None /\ peer[file[fd]] = "open"

(* send: it reaches a peer that is there; otherwise the slot is given up.  *)
Send(t) ==
  /\ th[t].pc = "send"
  /\ IF Reached(th[t].sd)
       THEN /\ th' = [th EXCEPT ![t] = After(t)]
            /\ synced' = IF t = Server THEN synced \cup {file[th[t].sd]}
                                       ELSE synced
       ELSE Goto(t, "close") /\ UNCHANGED synced
  /\ UNCHANGED <<net, slots, mask, readfds, ready, turned>>

(* dnsmasq reports a lease: Mesh_sendDhcpLeaseUpdate.  With a mask of 0    *)
(* the update is dropped.                                                  *)
LeaseUpdate ==
  /\ th["leaseServer"].pc = "idle"
  /\ mask # {}
  /\ Goto("leaseServer", "enter")
  /\ UNCHANGED <<net, slots, mask, readfds, ready, synced, turned>>

(* A sysevent, a client or a feature flag changed.                         *)
Notify ==
  /\ th["sysevent"].pc = "idle"
  /\ Goto("sysevent", "enter")
  /\ UNCHANGED <<net, slots, mask, readfds, ready, synced, turned>>

NobodyInside(but) == \A t \in Threads \ {but} : th[t].pc \notin Inside
ServerBlocked == th[Server].pc = "select"

Enter(t) ==
  /\ th[t].pc = "enter"
  /\ Overlap \/ (ServerBlocked /\ NobodyInside(t))
  /\ Goto(t, "scan")
  /\ UNCHANGED <<net, slots, mask, readfds, ready, synced, turned>>

-----------------------------------------------------------------------------
(* msgQServer.                                                             *)

Build ==
  /\ th[Server].pc = "build"
  /\ readfds' = {Master} \cup ({slots[s] : s \in Slots} \ {0})
  /\ Goto(Server, "select")
  /\ UNCHANGED <<net, slots, mask, ready, synced, turned>>

Readable(fd) == file[fd] # None /\ (~Reached(fd) \/ file[fd] \in mail)

Selected ==
  {fd \in readfds \ {Master} : Readable(fd)}
    \cup IF backlog = << >> THEN {} ELSE {Master}

(* What select may leave in its set: what can be read; or the whole of it, *)
(* when it fails because another thread closed a descriptor since Build.   *)
Results ==
  {r \in {Selected} : r # {}}
    \cup {r \in {readfds} : Overlap /\ \E fd \in r \cap Fds : file[fd] = None}

Select ==
  /\ ServerBlocked
  /\ Overlap \/ NobodyInside(Server)
  /\ readfds' \in Results
  /\ Goto(Server, IF Master \in readfds' THEN "accept" ELSE "wait")
  /\ UNCHANGED <<net, slots, mask, ready, synced, turned>>

(* accept waits for a connection when there is none.  The connection goes  *)
(* to the lowest empty slot; without one it is neither kept nor closed.    *)
Accept ==
  /\ th[Server].pc = "accept"
  /\ backlog # << >>
  /\ backlog' = Tail(backlog)
  /\ peer' = [peer EXCEPT ![Head(backlog)] = "open"]
  /\ LET fd == Min({f \in Fds : file[f] = None})
         empty == {s \in Slots : slots[s] = 0}
     IN  /\ file' = [file EXCEPT ![fd] = Head(backlog)]
         /\ IF empty = {}
              THEN /\ turned' = turned \cup {fd}
                   /\ Goto(Server, "wait")
                   /\ UNCHANGED slots
              ELSE /\ slots' = [slots EXCEPT ![Min(empty)] = fd]
                   /\ th' = [th EXCEPT ![Server] =
                        [Idle EXCEPT !.pc = "load", !.i = Min(empty),
                                     !.todo = "mask"]]
                   /\ UNCHANGED turned
  /\ UNCHANGED <<mail, mask, readfds, ready, synced>>

AwaitHandler ==
  /\ th[Server].pc = "wait"
  /\ ready
  /\ th' = [th EXCEPT ![Server] = [Idle EXCEPT !.pc = "read", !.loop = "read"]]
  /\ UNCHANGED <<net, slots, mask, readfds, ready, synced, turned>>

(* Mutant of Read: a read of 0 is not taken for a hang-up.                 *)
ReadNoHangUp ==
  /\ th[Server].pc = "read"
  /\ LET sd == slots[th[Server].i]
     IN  IF sd \in readfds /\ file[sd] # None
           THEN /\ Readable(sd)
                /\ th' = [th EXCEPT ![Server] = After(Server)]
                /\ mail' = mail \ {file[sd]}
           ELSE th' = [th EXCEPT ![Server] = After(Server)] /\ UNCHANGED mail
  /\ UNCHANGED <<peer, backlog, file, slots, mask, readfds, ready, synced,
                 turned>>

(* One slot: a message is processed; a hang-up, after the last message,    *)
(* frees the slot; read waits when there is neither.  A read that fails    *)
(* leaves an empty message, which is processed to no effect.               *)
Read ==
  /\ th[Server].pc = "read"
  /\ LET sd == slots[th[Server].i]
     IN  IF sd \in readfds /\ file[sd] # None
           THEN /\ Readable(sd)
                /\ th' = [th EXCEPT ![Server] =
                     IF file[sd] \in mail THEN After(Server)
                     ELSE [@ EXCEPT !.pc = "close", !.sd = sd]]
                /\ mail' = mail \ {file[sd]}
           ELSE th' = [th EXCEPT ![Server] = After(Server)] /\ UNCHANGED mail
  /\ UNCHANGED <<peer, backlog, file, slots, mask, readfds, ready, synced,
                 turned>>

-----------------------------------------------------------------------------
Sends(t) == Scan(t) \/ Send(t) \/ Close(t) \/ Clear(t) \/ Load(t) \/ Store(t)
Serves == Build \/ Accept \/ AwaitHandler \/ Read

Next ==
  \/ \E p \in Peers : Connect(p) \/ Speak(p) \/ HangUp(p)
  \/ HandlerReady
  \/ LeaseUpdate
  \/ Notify
  \/ \E t \in Senders : Enter(t)
  \/ \E t \in Threads : Sends(t)
  \/ Serves
  \/ Select

Spec == Init /\ [][Next]_vars

(* Threads that can run do run, and the sysevent handler comes up.  With   *)
(* ~Overlap a send keeps msgQServer from leaving select; it gets its turn  *)
(* between sends.                                                          *)
FairSpec ==
  /\ Spec
  /\ \A t \in Threads : WF_vars(Sends(t))
  /\ WF_vars(Serves)
  /\ SF_vars(Select)
  /\ WF_vars(HandlerReady)

-----------------------------------------------------------------------------
Still == /\ \A t \in Senders : th[t].pc \notin Inside
         /\ th[Server].pc \in {"build", "select"}

Occupied == {s \in Slots : slots[s] # 0}

(* When no thread is inside, the mask, the slots and the descriptors that  *)
(* are open tell the same story: msgQSend's error path and msgQServer's    *)
(* hang-up leave no bit, slot or descriptor behind, and only a connection  *)
(* that found no empty slot is in none.                                    *)
SlotsAccounted ==
  Still =>
    /\ mask = Occupied
    /\ \A s, r \in Occupied : slots[s] = slots[r] => s = r
    /\ {fd \in Fds : file[fd] # None} = turned \cup {slots[s] : s \in Occupied}

(* A lease update is dropped (a mask of 0 in Mesh_sendDhcpLeaseUpdate)     *)
(* only while no peer would miss it: the ones in a slot, if any, are still *)
(* to be sent the RESYNC that makes them read every lease.                 *)
LeaseNotLost ==
  mask = {} => \A s \in Occupied : file[slots[s]] \notin synced

(* Every connection is accepted, every message of a peer in a slot is      *)
(* read, and every such peer that hangs up has its descriptor released.    *)
Pending(p) ==
  \/ peer[p] = "queued"
  \/ /\ p \in mail \/ peer[p] = "gone"
     /\ \E s \in Occupied : file[slots[s]] = p
EveryClientServed == \A p \in Peers : Pending(p) ~> ~Pending(p)

(* "Maintain a bitfield to see if any connected": with no thread inside,   *)
(* clientSocketsMask is 0 only when no slot is taken.                      *)
MaskShowsConnection == Still /\ mask = {} => Occupied = {}
=============================================================================
