---------------------------- MODULE ClientTable ----------------------------
(***************************************************************************)
(* The table of connected clients (mesh_client_table.c) and the two        *)
(* threads that use it without a lock.  The data model's thread adds and   *)
(* removes a client when it is told of a connection; the sysevent thread,  *)
(* when the vendor's software reports that mesh is in full or monitor      *)
(* mode, adds every host it finds active and then walks the table to       *)
(* announce each client to the vendor.                                     *)
(*                                                                         *)
(* A client is an interface and a MAC address.  An item of the pool is a   *)
(* number; the linked list of a bucket is the sequence of its items.       *)
(* HashAdd is two steps, its HashFind and the rest, so that two threads    *)
(* can be between them at the same time.                                   *)
(***************************************************************************)
EXTENDS Integers, Sequences, FiniteSets, SequencesExt, FiniteSetsExt, Functions

CONSTANTS
  Macs, Ifaces,
  PoolSize,    \* MAX_CONNECTED_CLIENTS
  NumBuckets,  \* MAX_NUMBER_HASH_BUCKETS
  Hash,        \* HashMe: the interface plays no part in it
  MaxPods,     \* MAX_POD_COUNT
  Free         \* the client of an item that is not in use

Buckets == 0 .. NumBuckets - 1
Items == 1 .. PoolSize
NULL == 0
Clients == [mac: Macs, iface: Ifaces]
Threads == {"dbus", "sysevent"}

ASSUME ClientTableAssumption ==
  /\ PoolSize \in Nat /\ NumBuckets \in Nat \ {0}
  /\ Hash \in [Macs -> Buckets]
  /\ MaxPods \in Nat
  /\ Free \notin Clients

VARIABLES
  slot,    \* hashItemPool: the client of each item, Free when not inUse
  bucket,  \* hashTable[b].head and the list it starts
  count,   \* hashTable[b].count
  total,   \* sHashItemCount
  pods,    \* EthPodMacs
  adding,  \* the client a thread did not find and is about to add
  phase,   \* what the sysevent thread does
  iter,    \* its ClientTableIter
  due,     \* history: the clients the walk under way has yet to announce
  cut      \* history: the item that walk stands on has been deleted

table == <<slot, bucket, count, total>>
vars == <<table, pods, adding, phase, iter, due, cut>>

NoIter == [pos |-> -1, last |-> NULL]
Walking == phase \in {"walk", "announce"}

TypeOK ==
  /\ slot \in [Items -> Clients \cup {Free}]
  /\ bucket \in [Buckets -> Seq(Items)]
  /\ count \in [Buckets -> Nat]
  /\ total \in Nat
  /\ pods \subseteq Macs
  /\ adding \in [Threads -> Clients \cup {Free}]
  /\ phase \in {"idle", "load", "walk", "announce"}
  /\ iter \in [pos: {-1} \cup Buckets, last: {NULL} \cup Items]
  /\ due \subseteq Clients
  /\ cut \in BOOLEAN

Init ==
  /\ slot = [i \in Items |-> Free]
  /\ bucket = [b \in Buckets |-> << >>]
  /\ count = [b \in Buckets |-> 0] /\ total = 0
  /\ pods = {}
  /\ adding = [t \in Threads |-> Free]
  /\ phase = "idle" /\ iter = NoIter
  /\ due = {} /\ cut = FALSE

-----------------------------------------------------------------------------
(* The operations of the table.                                            *)

(* HashFind: the bucket of its mac holds the client.                       *)
Holds(c) == \E k \in DOMAIN bucket[Hash[c.mac]] :
               slot[bucket[Hash[c.mac]][k]] = c

(* Mutant of HashAlloc: the loop runs one item past the end of the pool.   *)
HashAllocPastEnd ==
  LET unused == {i \in Items : slot[i] = Free} \cup {PoolSize + 1}
  IN  {Min(unused)}

(* Mutant of HashAlloc: the loop stops before the last item of the pool.   *)
HashAllocTooShort ==
  LET unused == {i \in Items : i < PoolSize /\ slot[i] = Free}
  IN  IF unused = {} THEN {} ELSE {Min(unused)}

(* HashAlloc: the lowest item not in use, none when the pool is full.      *)
HashAlloc ==
  LET unused == {i \in Items : slot[i] = Free}
  IN  IF unused = {} THEN {} ELSE {Min(unused)}

(* The rest of HashAdd: the item goes to the end of its bucket.            *)
Link(c) ==
  IF HashAlloc = {}
    THEN UNCHANGED table
    ELSE \E i \in HashAlloc :
           LET b == Hash[c.mac]
           IN  /\ slot' = [slot EXCEPT ![i] = c]
               /\ bucket' = [bucket EXCEPT ![b] = Append(@, i)]
               /\ count' = [count EXCEPT ![b] = @ + 1]
               /\ total' = total + 1

(* HashDelete: where in its bucket the loop stops.  Its condition lets go  *)
(* of an item only when both the interface and the mac differ.             *)
Victim(c) ==
  LET chain == bucket[Hash[c.mac]]
  IN  Min({k \in DOMAIN chain : \/ slot[chain[k]].iface = c.iface
                                \/ slot[chain[k]].mac = c.mac})

(* Mutant of Unlink: only the total is counted down.                       *)
UnlinkKeepsCount(b, k) ==
  /\ slot' = [slot EXCEPT ![bucket[b][k]] = Free]
  /\ bucket' = [bucket EXCEPT ![b] = RemoveAt(@, k)]
  /\ total' = total - 1
  /\ UNCHANGED count

Unlink(b, k) ==
  /\ slot' = [slot EXCEPT ![bucket[b][k]] = Free]
  /\ bucket' = [bucket EXCEPT ![b] = RemoveAt(@, k)]
  /\ count' = [count EXCEPT ![b] = @ - 1]
  /\ total' = total - 1

(* The iterator at the head of the first bucket that is not empty, from    *)
(* bucket b on.                                                            *)
FirstFrom(b) ==
  LET filled == {x \in Buckets : x >= b /\ bucket[x] # << >>}
  IN  IF filled = {} THEN NoIter
      ELSE [pos |-> Min(filled), last |-> bucket[Min(filled)][1]]

(* Mutant of IterNext: it takes the next bucket after every item.          *)
IterNextSkips ==
  IF iter.pos = -1 THEN FirstFrom(0) ELSE FirstFrom(iter.pos + 1)

(* Mutant of IterNext: past the end of a bucket it begins it again.        *)
IterNextAgain ==
  IF iter.pos = -1
    THEN FirstFrom(0)
    ELSE LET chain == bucket[iter.pos]
             here == {k \in DOMAIN chain : chain[k] = iter.last}
         IN  IF here = {} THEN NoIter
             ELSE IF Min(here) < Len(chain)
               THEN [iter EXCEPT !.last = chain[Min(here) + 1]]
               ELSE FirstFrom(iter.pos)

(* Mesh_ClientTableIterNext: NoIter is the end, also when the item the     *)
(* iterator stands on is no longer in its bucket.                          *)
IterNext ==
  IF iter.pos = -1
    THEN FirstFrom(0)
    ELSE LET chain == bucket[iter.pos]
             here == {k \in DOMAIN chain : chain[k] = iter.last}
         IN  IF here = {} THEN NoIter
             ELSE IF Min(here) < Len(chain)
               THEN [iter EXCEPT !.last = chain[Min(here) + 1]]
               ELSE FirstFrom(iter.pos + 1)

-----------------------------------------------------------------------------
(* The threads.                                                            *)

(* Nothing keeps a thread out of the table but its own unfinished HashAdd. *)
MayEnter(t) == adding[t] = Free

(* Mutant of BeginAdd: HashAdd does not look first.                        *)
BeginAddBlindly(t, c) ==
  /\ MayEnter(t)
  /\ IF t = "dbus" THEN c.mac \notin pods ELSE phase = "load"
  /\ adding' = [adding EXCEPT ![t] = c]
  /\ UNCHANGED <<table, pods, phase, iter, due, cut>>

(* HashAdd up to HashFind.  The data model's thread gets there from        *)
(* Mesh_UpdateConnectedDevice, which ignores pods, the sysevent thread     *)
(* from Mesh_InitClientList with any host of the host table.               *)
BeginAdd(t, c) ==
  /\ MayEnter(t)
  /\ IF t = "dbus" THEN c.mac \notin pods ELSE phase = "load"
  /\ ~Holds(c)
  /\ adding' = [adding EXCEPT ![t] = c]
  /\ UNCHANGED <<table, pods, phase, iter, due, cut>>

EndAdd(t) ==
  /\ adding[t] # Free
  /\ Link(adding[t])
  /\ adding' = [adding EXCEPT ![t] = Free]
  /\ UNCHANGED <<pods, phase, iter, due, cut>>

(* A client is gone: Mesh_UpdateConnectedDevice, then HashDelete.          *)
Disconnect(c) ==
  /\ MayEnter("dbus")
  /\ c.mac \notin pods
  /\ Holds(c)
  /\ LET b == Hash[c.mac]
         item == bucket[b][Victim(c)]
     IN  /\ Unlink(b, Victim(c))
         /\ due' = due \ {slot[item]}
         /\ cut' = (cut \/ (Walking /\ item = iter.last))
  /\ UNCHANGED <<pods, adding, phase, iter>>

(* Mesh_PodAddress(m, TRUE): the vendor's software reports a pod's mac.    *)
PodLearned(m) ==
  /\ m \notin pods
  /\ Cardinality(pods) < MaxPods
  /\ pods' = pods \cup {m}
  /\ due' = {c \in due : c.mac # m}
  /\ UNCHANGED <<table, adding, phase, iter, cut>>

(* Mesh is in full or monitor mode.                                        *)
StatusFull ==
  /\ phase = "idle"
  /\ phase' = "load"
  /\ UNCHANGED <<table, pods, adding, iter, due, cut>>

StartWalk ==
  /\ phase = "load"
  /\ adding["sysevent"] = Free
  /\ phase' = "walk"
  /\ iter' = NoIter
  /\ due' = {c \in Clients : Holds(c) /\ c.mac \notin pods}
  /\ cut' = FALSE
  /\ UNCHANGED <<table, pods, adding>>

Walk ==
  /\ phase = "walk"
  /\ iter' = IterNext
  /\ phase' = IF IterNext = NoIter THEN "idle" ELSE "announce"
  /\ UNCHANGED <<table, pods, adding, due, cut>>

(* The mac is read from the item only now; pods are left out.              *)
Announce ==
  /\ phase = "announce"
  /\ phase' = "walk"
  /\ due' = due \ {slot[iter.last]}
  /\ UNCHANGED <<table, pods, adding, iter, cut>>

Next ==
  \/ \E t \in Threads, c \in Clients : BeginAdd(t, c)
  \/ \E t \in Threads : EndAdd(t)
  \/ \E c \in Clients : Disconnect(c)
  \/ \E m \in Macs : PodLearned(m)
  \/ StatusFull
  \/ StartWalk
  \/ Walk
  \/ Announce

Spec == Init /\ [][Next]_vars

(* The sysevent thread goes on with a walk it has begun.                   *)
FairSpec == Spec /\ WF_vars(Walk) /\ WF_vars(Announce)

-----------------------------------------------------------------------------
(* Nothing of the fixed pool leaks and nothing is linked twice: an item is *)
(* in use exactly when it is in one place of one list, that of its mac's   *)
(* bucket, and the counts DumpHashStats compares are those of the lists.   *)
PoolAccounted ==
  /\ \A b \in Buckets : /\ count[b] = Len(bucket[b])
                        /\ IsInjective(bucket[b])
  /\ total = Cardinality({i \in Items : slot[i] # Free})
  /\ \A i \in Items :
       {b \in Buckets : i \in Range(bucket[b])}
         = IF slot[i] = Free THEN {} ELSE {Hash[slot[i].mac]}

(* "add client connection if it isn't already there" (HashAdd), with two   *)
(* threads between their search and their item: no client is in the table, *)
(* or about to be, more often than there are threads that add.             *)
Copies(c) == Cardinality({i \in Items : slot[i] = c})
Brought(c) == Cardinality({t \in Threads : adding[t] = c})
OncePerThread ==
  \A c \in Clients : Copies(c) + Brought(c) <= Cardinality(Threads)

(* Pool, buckets and counts together are a collection of clients with a    *)
(* count: a client that is there is not added, a removal takes one entry   *)
(* away and only one, and a client is turned away only by a full pool,     *)
(* whichever way two threads interleave (HashAdd, HashDelete,              *)
(* sHashItemCount).                                                        *)
Copied == [c \in Clients |-> Copies(c)]
Abstract == INSTANCE ClientSet WITH
              Universe <- Clients, Users <- Threads, Nobody <- Free,
              Capacity <- PoolSize, size <- total, coming <- adding,
              copies <- Copied
ImplementsClientSet == Abstract!Spec

(* The walk of a report reaches every client that was in the table when it *)
(* began and still is, whatever is added in the meantime, unless the very  *)
(* item the iterator stands on was deleted.                                *)
ReportComplete == [][Walking /\ phase' = "idle" => due = {} \/ cut]_vars

(* Once clients stop disconnecting, a walk over the table comes to an end. *)
Disconnecting == \E c \in Clients : Holds(c) /\ ~Holds(c)'
WalkEnds == <>[][~Disconnecting]_vars => (Walking ~> ~Walking)
=============================================================================
