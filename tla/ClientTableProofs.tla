------------------------- MODULE ClientTableProofs -------------------------
(***************************************************************************)
(* Proofs about the table of connected clients, for any macs, interfaces,  *)
(* hash, size of the pool and number of buckets.                           *)
(***************************************************************************)
EXTENDS ClientTable, SequenceTheorems, FiniteSetTheorems, TLAPS

(* A set of naturals that is not empty has a least element.                *)
LEMMA MinIsLeast ==
  ASSUME NEW S \in SUBSET Nat, S # {}
  PROVE  Min(S) \in S /\ \A y \in S : Min(S) <= y
<1> DEFINE Less == {ss \in Nat \X Nat : ss[1] < ss[2]}
<1>1. IsWellFoundedOn(Less, Nat)
  BY NatLessThanWellFounded, Zenon DEF OpToRel
<1>2. \A x, y \in Nat : <<y, x>> \in Less <=> y < x
  OBVIOUS
<1> HIDE DEF Less
<1>3. \E x \in S : \A y \in S : ~ (<<y, x>> \in Less)
  BY <1>1, WFMin
<1>4. PICK x \in S : \A y \in S : ~ (y < x)
  BY <1>2, <1>3
<1>5. \A y \in S : x <= y
  BY <1>4
<1> QED
  BY <1>5 DEF Min

(* The sequence without its place k: what is left, and nothing twice.      *)
LEMMA RemoveAtEffect ==
  ASSUME NEW S, NEW s \in Seq(S), NEW k \in 1 .. Len(s)
  PROVE  /\ RemoveAt(s, k) \in Seq(S)
         /\ Len(RemoveAt(s, k)) = Len(s) - 1
         /\ \A n \in 1 .. Len(s) - 1 :
              RemoveAt(s, k)[n] = IF n < k THEN s[n] ELSE s[n + 1]
<1> DEFINE a == SubSeq(s, 1, k - 1)
           z == SubSeq(s, k + 1, Len(s))
<1>1. /\ Len(s) \in Nat /\ \A n \in 1 .. Len(s) : s[n] \in S
  BY LenProperties, ElementOfSeq
<1>2. /\ a \in Seq(S) /\ Len(a) = k - 1
      /\ \A n \in 1 .. k - 1 : a[n] = s[n]
  <2>1. /\ 1 \in Int /\ k - 1 \in Int /\ \A n \in 1 .. k - 1 : s[n] \in S
    BY <1>1
  <2> HIDE DEF a
  <2>2. /\ a \in Seq(S) /\ Len(a) = IF 1 <= k - 1 THEN (k - 1) - 1 + 1 ELSE 0
        /\ \A n \in 1 .. (k - 1) - 1 + 1 : a[n] = s[1 + n - 1]
    BY <2>1, SubSeqProperties DEF a
  <2> QED
    BY <2>2, <1>1
<1>3. /\ z \in Seq(S) /\ Len(z) = Len(s) - k
      /\ \A n \in 1 .. Len(s) - k : z[n] = s[k + n]
  <2>1. /\ k + 1 \in Int /\ Len(s) \in Int
        /\ \A n \in k + 1 .. Len(s) : s[n] \in S
    BY <1>1
  <2> HIDE DEF z
  <2>2. /\ z \in Seq(S)
        /\ Len(z) = IF k + 1 <= Len(s) THEN Len(s) - (k + 1) + 1 ELSE 0
        /\ \A n \in 1 .. Len(s) - (k + 1) + 1 : z[n] = s[(k + 1) + n - 1]
    BY <2>1, SubSeqProperties DEF z
  <2> QED
    BY <2>2, <1>1
<1> HIDE DEF a, z
<1>4. /\ a \o z \in Seq(S) /\ Len(a \o z) = Len(a) + Len(z)
      /\ \A n \in 1 .. Len(a) + Len(z) :
           (a \o z)[n] = IF n <= Len(a) THEN a[n] ELSE z[n - Len(a)]
  BY <1>2, <1>3, ConcatProperties
<1>5. RemoveAt(s, k) = a \o z
  BY DEF RemoveAt, a, z
<1>6. Len(a) + Len(z) = Len(s) - 1
  BY <1>1, <1>2, <1>3
<1>7. ASSUME NEW n \in 1 .. Len(s) - 1
      PROVE  (a \o z)[n] = IF n < k THEN s[n] ELSE s[n + 1]
  <2>1. CASE n < k
    BY <2>1, <1>1, <1>2, <1>4, <1>6
  <2>2. CASE ~ (n < k)
    <3>1. /\ n - Len(a) \in 1 .. Len(s) - k /\ ~ (n <= Len(a))
          /\ k + (n - Len(a)) = n + 1
      BY <2>2, <1>1, <1>2
    <3>2. (a \o z)[n] = z[n - Len(a)]
      BY <3>1, <1>4, <1>6
    <3> QED
      BY <3>1, <3>2, <2>2, <1>3
  <2> QED
    BY <2>1, <2>2
<1> QED
  BY <1>4, <1>5, <1>6, <1>7

-----------------------------------------------------------------------------
(* PoolAccounted, clause by clause and with the places spelled out.        *)

InUse == {i \in Items : slot[i] # Free}

Chained(i, b) == \E k \in DOMAIN bucket[b] : bucket[b][k] = i

Lists == \A b \in Buckets : count[b] = Len(bucket[b]) /\ IsInjective(bucket[b])

Placed == \A i \in Items, b \in Buckets :
            Chained(i, b) <=> slot[i] # Free /\ Hash[slot[i].mac] = b

LEMMA ClientFields ==
  ASSUME NEW c \in Clients
  PROVE  c.mac \in Macs /\ c.iface \in Ifaces /\ Hash[c.mac] \in Buckets
BY ClientTableAssumption DEF Clients

LEMMA PoolParts ==
  ASSUME TypeOK
  PROVE  PoolAccounted <=> Lists /\ total = Cardinality(InUse) /\ Placed
<1>1. ASSUME NEW i \in Items, NEW b \in Buckets
      PROVE  i \in Range(bucket[b]) <=> Chained(i, b)
  BY DEF Range, Chained
<1>2. ASSUME NEW i \in Items
      PROVE  /\ slot[i] = Free \/ slot[i] \in Clients
             /\ slot[i] # Free => Hash[slot[i].mac] \in Buckets
  BY ClientFields DEF TypeOK
<1>3. ASSUME NEW i \in Items
      PROVE  ({b \in Buckets : i \in Range(bucket[b])}
                = IF slot[i] = Free THEN {} ELSE {Hash[slot[i].mac]})
             <=> \A b \in Buckets :
                   Chained(i, b) <=> slot[i] # Free /\ Hash[slot[i].mac] = b
  BY <1>1, <1>2
<1> QED
  BY <1>3 DEF PoolAccounted, Lists, Placed, InUse

(* The pool is finite, so whatever part of it is in use can be counted.    *)
LEMMA PoolFinite == IsFiniteSet(InUse)
<1>1. IsFiniteSet(Items)
  BY FS_Interval, ClientTableAssumption DEF Items
<1> QED
  BY <1>1, FS_Subset DEF InUse

(* A list under TypeOK.                                                    *)
LEMMA ListFacts ==
  ASSUME TypeOK, NEW b \in Buckets
  PROVE  /\ bucket[b] \in Seq(Items) /\ Len(bucket[b]) \in Nat
         /\ DOMAIN bucket[b] = 1 .. Len(bucket[b])
         /\ \A k \in DOMAIN bucket[b] : bucket[b][k] \in Items
<1>1. bucket[b] \in Seq(Items)
  BY DEF TypeOK
<1> QED
  BY <1>1, LenProperties, ElementOfSeq

LEMMA AllocIsFree ==
  ASSUME NEW i \in HashAlloc
  PROVE  i \in Items /\ slot[i] = Free
<1> DEFINE unused == {x \in Items : slot[x] = Free}
<1>1. unused # {} /\ i = Min(unused)
  BY DEF HashAlloc
<1>2. unused \in SUBSET Nat
  BY ClientTableAssumption DEF Items
<1>3. i \in unused
  <2> HIDE DEF unused
  <2> QED
    BY <1>1, <1>2, MinIsLeast
<1> QED
  BY <1>3

(* HashDelete finds an item of the list whenever the client is there.      *)
LEMMA VictimIsPlace ==
  ASSUME TypeOK, NEW c \in Clients, Holds(c)
  PROVE  Victim(c) \in DOMAIN bucket[Hash[c.mac]]
<1> DEFINE chain == bucket[Hash[c.mac]]
           stops == {k \in DOMAIN chain : \/ slot[chain[k]].iface = c.iface
                                          \/ slot[chain[k]].mac = c.mac}
<1>1. stops # {}
  BY DEF Holds
<1>2. stops \in SUBSET Nat
  BY ListFacts, ClientFields
<1>3. Victim(c) = Min(stops)
  BY DEF Victim
<1>4. Min(stops) \in stops
  <2> HIDE DEF stops
  <2> QED
    BY <1>1, <1>2, MinIsLeast
<1> QED
  BY <1>3, <1>4

-----------------------------------------------------------------------------
(* The two operations that change the table keep it accounted for.         *)

TableType ==
  /\ slot \in [Items -> Clients \cup {Free}]
  /\ bucket \in [Buckets -> Seq(Items)]
  /\ count \in [Buckets -> Nat]
  /\ total \in Nat

PoolInv == Lists /\ total = Cardinality(InUse) /\ Placed

LEMMA TableUnchanged ==
  ASSUME TableType, PoolInv, UNCHANGED table
  PROVE  TableType' /\ PoolInv'
BY DEF TableType, PoolInv, Lists, InUse, Placed, Chained, table

(* An item that was free goes to the end of one list and into no other.    *)
LEMMA LinkKeeps ==
  ASSUME TypeOK, PoolInv, NEW c \in Clients, Link(c)
  PROVE  TableType' /\ PoolInv'
<1> DEFINE b == Hash[c.mac]
<1>0. TableType
  BY DEF TableType, TypeOK
<1>1. CASE HashAlloc = {}
  BY <1>0, <1>1, TableUnchanged DEF Link
<1>2. CASE HashAlloc # {}
  <2>1. PICK i \in HashAlloc :
           /\ slot' = [slot EXCEPT ![i] = c]
           /\ bucket' = [bucket EXCEPT ![b] = Append(@, i)]
           /\ count' = [count EXCEPT ![b] = @ + 1]
           /\ total' = total + 1
    BY <1>2, SMT DEF Link
  <2>2. i \in Items /\ slot[i] = Free /\ b \in Buckets /\ c # Free
    BY AllocIsFree, ClientFields, ClientTableAssumption
  <2> HIDE DEF b
  <2>3. /\ bucket'[b] \in Seq(Items) /\ Len(bucket'[b]) = Len(bucket[b]) + 1
        /\ \A k \in 1 .. Len(bucket[b]) : bucket'[b][k] = bucket[b][k]
        /\ bucket'[b][Len(bucket[b]) + 1] = i
    <3>1. bucket'[b] = Append(bucket[b], i)
      BY <2>1, <2>2, <1>0 DEF TableType
    <3> QED
      BY <3>1, <2>2, ListFacts, AppendProperties
  <2>4. /\ DOMAIN bucket'[b] = 1 .. Len(bucket[b]) + 1
        /\ DOMAIN bucket[b] = 1 .. Len(bucket[b]) /\ Len(bucket[b]) \in Nat
    BY <2>2, <2>3, ListFacts, LenProperties
  <2>5. \A x \in Buckets : x # b => bucket'[x] = bucket[x] /\ count'[x] = count[x]
    BY <2>1, <1>0 DEF TableType
  <2>6. \A x \in Buckets : ~ Chained(i, x)
    BY <2>2 DEF PoolInv, Placed
  <2>7. TableType'
    BY <1>0, <2>1, <2>2, <2>3 DEF TableType
  <2>8. Lists'
    <3>1. ASSUME NEW x \in Buckets
          PROVE  count'[x] = Len(bucket'[x]) /\ IsInjective(bucket'[x])
      <4>1. count[x] = Len(bucket[x]) /\ IsInjective(bucket[x])
        BY DEF PoolInv, Lists
      <4>2. CASE x # b
        BY <4>1, <4>2, <2>5
      <4>3. CASE x = b
        <5>1. count'[b] = Len(bucket'[b])
          BY <4>1, <4>3, <2>1, <2>2, <2>3, <1>0 DEF TableType
        <5>2. IsInjective(bucket'[b])
          <6>1. SUFFICES ASSUME NEW y \in 1 .. Len(bucket[b]) + 1,
                                NEW z \in 1 .. Len(bucket[b]) + 1,
                                bucket'[b][y] = bucket'[b][z]
                         PROVE  y = z
            BY <2>4 DEF IsInjective
          <6>2. \A m \in 1 .. Len(bucket[b]) : bucket[b][m] # i
            BY <2>2, <2>4, <2>6 DEF Chained
          <6>3. \A m \in 1 .. Len(bucket[b]) + 1 :
                  m # Len(bucket[b]) + 1 => m \in 1 .. Len(bucket[b])
            BY <2>4
          <6>4. CASE y = Len(bucket[b]) + 1 \/ z = Len(bucket[b]) + 1
            BY <6>1, <6>2, <6>3, <6>4, <2>3
          <6>5. CASE y # Len(bucket[b]) + 1 /\ z # Len(bucket[b]) + 1
            BY <6>1, <6>3, <6>5, <4>1, <4>3, <2>3, <2>4 DEF IsInjective
          <6> QED
            BY <6>4, <6>5
        <5> QED
          BY <5>1, <5>2, <4>3
      <4> QED
        BY <4>2, <4>3
    <3> QED
      BY <3>1 DEF Lists
  <2>9. (total = Cardinality(InUse))'
    <3>1. InUse' = InUse \cup {i} /\ i \notin InUse
      BY <1>0, <2>1, <2>2 DEF InUse, TableType
    <3>2. Cardinality(InUse \cup {i}) = Cardinality(InUse) + 1
      BY <3>1, PoolFinite, FS_AddElement
    <3> QED
      BY <3>1, <3>2, <2>1 DEF PoolInv
  <2>10. Placed'
    <3>1. ASSUME NEW j \in Items, NEW x \in Buckets
          PROVE  Chained(j, x)' <=> slot'[j] # Free /\ Hash[slot'[j].mac] = x
      <4>1. Chained(j, x) <=> slot[j] # Free /\ Hash[slot[j].mac] = x
        BY DEF PoolInv, Placed
      <4>2. Chained(j, x)' <=> Chained(j, x) \/ (j = i /\ x = b)
        <5>1. CASE x # b
          BY <5>1, <2>5 DEF Chained
        <5>2. CASE x = b
          <6>1. Chained(j, b) => Chained(j, b)'
            <7>1. 1 .. Len(bucket[b]) \subseteq 1 .. Len(bucket[b]) + 1
              BY <2>4
            <7> QED
              BY <7>1, <2>3, <2>4 DEF Chained
          <6>2. Chained(i, b)'
            BY <2>3, <2>4 DEF Chained
          <6>3. Chained(j, b)' => Chained(j, b) \/ j = i
            <7>1. \A m \in 1 .. Len(bucket[b]) + 1 :
                    m = Len(bucket[b]) + 1 \/ m \in 1 .. Len(bucket[b])
              BY <2>4
            <7> QED
              BY <7>1, <2>3, <2>4 DEF Chained
          <6> QED
            BY <5>2, <6>1, <6>2, <6>3
        <5> QED
          BY <5>1, <5>2
      <4>3. slot'[j] = IF j = i THEN c ELSE slot[j]
        BY <1>0, <2>1, <2>2 DEF TableType
      <4> QED
        BY <4>1, <4>2, <4>3, <2>2, <2>6 DEF b
    <3> QED
      BY <3>1 DEF Placed
  <2> QED
    BY <2>7, <2>8, <2>9, <2>10 DEF PoolInv
<1> QED
  BY <1>1, <1>2

(* The item at a place of a list is taken out of that list and of no other. *)
LEMMA UnlinkKeeps ==
  ASSUME TypeOK, PoolInv, NEW b \in Buckets, NEW k \in DOMAIN bucket[b],
         Unlink(b, k)
  PROVE  TableType' /\ PoolInv'
<1> DEFINE i == bucket[b][k]
           n == Len(bucket[b])
<1>0. TableType
  BY DEF TableType, TypeOK
<1>1. /\ bucket[b] \in Seq(Items) /\ n \in Nat
      /\ DOMAIN bucket[b] = 1 .. n /\ k \in 1 .. n /\ i \in Items
  BY ListFacts
<1>2. /\ slot' = [slot EXCEPT ![i] = Free]
      /\ bucket' = [bucket EXCEPT ![b] = RemoveAt(@, k)]
      /\ count' = [count EXCEPT ![b] = @ - 1]
      /\ total' = total - 1
  BY DEF Unlink
<1>3. slot[i] # Free /\ Hash[slot[i].mac] = b
  <2>1. Chained(i, b)
    BY DEF Chained
  <2> QED
    BY <2>1, <1>1 DEF PoolInv, Placed
<1>4. count[b] = n /\ IsInjective(bucket[b])
  BY DEF PoolInv, Lists
<1> HIDE DEF i, n
<1>5. bucket[b][k] = i /\ Len(bucket[b]) = n
  BY DEF i, n
<1>6. /\ bucket'[b] \in Seq(Items) /\ Len(bucket'[b]) = n - 1
      /\ \A x \in 1 .. n - 1 :
           bucket'[b][x] = IF x < k THEN bucket[b][x] ELSE bucket[b][x + 1]
  <2>1. bucket'[b] = RemoveAt(bucket[b], k)
    BY <1>0, <1>2 DEF TableType
  <2> QED
    BY <2>1, <1>1, <1>5, RemoveAtEffect
<1>7. DOMAIN bucket'[b] = 1 .. n - 1
  BY <1>6, LenProperties
<1>8. \A x \in Buckets : x # b => bucket'[x] = bucket[x] /\ count'[x] = count[x]
  BY <1>0, <1>2 DEF TableType
<1>9. Cardinality(InUse) \in Nat /\ Cardinality(InUse \ {i}) = Cardinality(InUse) - 1
      /\ IsFiniteSet(InUse \ {i})
  <2>1. i \in InUse
    BY <1>1, <1>3 DEF InUse
  <2> QED
    BY <2>1, PoolFinite, FS_RemoveElement, FS_CardinalityType
<1>10. TableType'
  <2>1. count[b] - 1 \in Nat
    BY <1>1, <1>4
  <2>2. total - 1 \in Nat
    BY <1>9, FS_CardinalityType DEF PoolInv
  <2> QED
    BY <1>0, <1>1, <1>2, <1>6, <2>1, <2>2 DEF TableType
<1>11. Lists'
  <2>1. ASSUME NEW x \in Buckets
        PROVE  count'[x] = Len(bucket'[x]) /\ IsInjective(bucket'[x])
    <3>1. CASE x # b
      BY <3>1, <1>8 DEF PoolInv, Lists
    <3>2. CASE x = b
      <4>1. count'[b] = Len(bucket'[b])
        BY <1>0, <1>2, <1>4, <1>6 DEF TableType
      <4>2. IsInjective(bucket'[b])
        <5>1. SUFFICES ASSUME NEW x1 \in 1 .. n - 1, NEW x2 \in 1 .. n - 1,
                              bucket'[b][x1] = bucket'[b][x2]
                       PROVE  x1 = x2
          BY <1>7 DEF IsInjective
        <5> DEFINE y1 == IF x1 < k THEN x1 ELSE x1 + 1
                   y2 == IF x2 < k THEN x2 ELSE x2 + 1
        <5>2. y1 \in 1 .. n /\ y2 \in 1 .. n
          BY <1>1
        <5>3. bucket'[b][x1] = bucket[b][y1] /\ bucket'[b][x2] = bucket[b][y2]
          BY <1>6
        <5>4. bucket[b][y1] = bucket[b][y2]
          BY <5>1, <5>3
        <5>5. y1 = y2
          BY <5>2, <5>4, <1>1, <1>4 DEF IsInjective
        <5> QED
          BY <5>5, <1>1
      <4> QED
        BY <4>1, <4>2, <3>2
    <3> QED
      BY <3>1, <3>2
  <2> QED
    BY <2>1 DEF Lists
<1>12. (total = Cardinality(InUse))'
  <2>1. InUse' = InUse \ {i}
    BY <1>0, <1>1, <1>2 DEF InUse, TableType
  <2> QED
    BY <2>1, <1>2, <1>9 DEF PoolInv
<1>13. Placed'
  <2>1. ASSUME NEW j \in Items, NEW x \in Buckets
        PROVE  Chained(j, x)' <=> slot'[j] # Free /\ Hash[slot'[j].mac] = x
    <3>1. Chained(j, x) <=> slot[j] # Free /\ Hash[slot[j].mac] = x
      BY DEF PoolInv, Placed
    <3>2. slot'[j] = IF j = i THEN Free ELSE slot[j]
      BY <1>0, <1>1, <1>2 DEF TableType
    <3>3. CASE x # b
      BY <3>1, <3>2, <3>3, <1>3, <1>8 DEF Chained
    <3>4. CASE x = b
      <4>1. Chained(j, b)' => Chained(j, b) /\ j # i
        <5>1. SUFFICES ASSUME NEW y \in 1 .. n - 1, bucket'[b][y] = j
                       PROVE  Chained(j, b) /\ j # i
          BY <1>7 DEF Chained
        <5> DEFINE z == IF y < k THEN y ELSE y + 1
        <5>2. z \in 1 .. n /\ bucket[b][z] = j /\ z # k
          BY <5>1, <1>1, <1>6
        <5> QED
          BY <5>2, <1>1, <1>4, <1>5 DEF Chained, IsInjective
      <4>2. ASSUME Chained(j, b), j # i
            PROVE  Chained(j, b)'
        <5>1. PICK z \in 1 .. n : bucket[b][z] = j
          BY <4>2, <1>1 DEF Chained
        <5> DEFINE y == IF z < k THEN z ELSE z - 1
        <5>2. z # k
          BY <5>1, <4>2, <1>5
        <5>3. y \in 1 .. n - 1 /\ bucket'[b][y] = bucket[b][z]
          BY <5>1, <5>2, <1>1, <1>6
        <5> QED
          BY <5>1, <5>3, <1>7 DEF Chained
      <4> QED
        BY <3>1, <3>2, <3>4, <4>1, <4>2
    <3> QED
      BY <3>3, <3>4
  <2> QED
    BY <2>1 DEF Placed
<1> QED
  BY <1>10, <1>11, <1>12, <1>13 DEF PoolInv

-----------------------------------------------------------------------------
(* The threads.                                                            *)

ThreadType ==
  /\ pods \subseteq Macs
  /\ adding \in [Threads -> Clients \cup {Free}]
  /\ phase \in {"idle", "load", "walk", "announce"}
  /\ iter \in [pos: {-1} \cup Buckets, last: {NULL} \cup Items]
  /\ due \subseteq Clients
  /\ cut \in BOOLEAN

LEMMA TypeParts == TypeOK <=> TableType /\ ThreadType
BY DEF TypeOK, TableType, ThreadType

LEMMA FirstFromType ==
  ASSUME TypeOK, NEW b
  PROVE  FirstFrom(b) \in [pos: {-1} \cup Buckets, last: {NULL} \cup Items]
<1> DEFINE filled == {x \in Buckets : x >= b /\ bucket[x] # << >>}
<1>1. CASE filled = {}
  BY <1>1 DEF FirstFrom, NoIter
<1>2. CASE filled # {}
  <2>1. filled \in SUBSET Nat
    BY ClientTableAssumption DEF Buckets
  <2>2. Min(filled) \in filled
    <3> HIDE DEF filled
    <3> QED
      BY <1>2, <2>1, MinIsLeast
  <2>3. bucket[Min(filled)][1] \in Items
    BY <2>2, ListFacts, EmptySeq
  <2> QED
    BY <1>2, <2>2, <2>3 DEF FirstFrom
<1> QED
  BY <1>1, <1>2

LEMMA IterNextType ==
  ASSUME TypeOK
  PROVE  IterNext \in [pos: {-1} \cup Buckets, last: {NULL} \cup Items]
<1>1. CASE iter.pos = -1
  BY <1>1, FirstFromType DEF IterNext
<1>2. CASE iter.pos # -1
  <2> DEFINE chain == bucket[iter.pos]
             here == {k \in DOMAIN chain : chain[k] = iter.last}
  <2>1. iter.pos \in Buckets
    BY <1>2 DEF TypeOK
  <2>2. CASE here = {}
    BY <1>2, <2>2 DEF IterNext, NoIter
  <2>3. CASE here # {} /\ Min(here) < Len(chain)
    <3>1. here \in SUBSET Nat
      BY <2>1, ListFacts
    <3>2. Min(here) \in here
      <4> HIDE DEF here
      <4> QED
        BY <2>3, <3>1, MinIsLeast
    <3>3. chain[Min(here) + 1] \in Items
      <4> DEFINE k == Min(here)
      <4>1. /\ Len(chain) \in Nat /\ DOMAIN chain = 1 .. Len(chain)
            /\ \A x \in DOMAIN chain : chain[x] \in Items
        BY <2>1, ListFacts
      <4>2. k \in DOMAIN chain /\ k < Len(chain)
        BY <2>3, <3>2
      <4> HIDE DEF chain, here, k
      <4>3. k + 1 \in DOMAIN chain
        BY <4>1, <4>2
      <4>4. chain[k + 1] \in Items
        BY <4>1, <4>3
      <4> QED
        BY <4>4 DEF k
    <3>4. IterNext = [iter EXCEPT !.last = chain[Min(here) + 1]]
      BY <1>2, <2>3 DEF IterNext
    <3> QED
      BY <3>3, <3>4 DEF TypeOK
  <2>4. CASE here # {} /\ ~ (Min(here) < Len(chain))
    BY <1>2, <2>4, FirstFromType DEF IterNext
  <2> QED
    BY <2>2, <2>3, <2>4
<1> QED
  BY <1>1, <1>2

IInv == TypeOK /\ PoolInv

LEMMA InitIInv == Init => IInv
<1> SUFFICES ASSUME Init
             PROVE  IInv
  OBVIOUS
<1>1. TypeOK
  <2>1. bucket \in [Buckets -> Seq(Items)]
    BY EmptySeq DEF Init
  <2>2. iter \in [pos: {-1} \cup Buckets, last: {NULL} \cup Items]
    BY DEF Init, NoIter
  <2> QED
    BY <2>1, <2>2 DEF Init, TypeOK
<1>2. Lists
  BY DEF Init, Lists, IsInjective
<1>3. InUse = {} /\ Placed
  BY DEF Init, InUse, Placed, Chained
<1> QED
  BY <1>1, <1>2, <1>3, FS_EmptySet DEF IInv, PoolInv, Init

LEMMA NextIInv == IInv /\ [Next]_vars => IInv'
<1> SUFFICES ASSUME IInv, [Next]_vars
             PROVE  IInv'
  OBVIOUS
<1>0. TypeOK /\ PoolInv /\ TableType
  BY TypeParts DEF IInv
<1>s. ASSUME UNCHANGED table, ThreadType'
      PROVE  IInv'
  <2>1. TableType' /\ PoolInv'
    BY <1>0, <1>s, TableUnchanged
  <2> QED
    BY <1>s, <2>1 DEF IInv, TypeOK, TableType, ThreadType
<1>1. ASSUME NEW t \in Threads, NEW c \in Clients, BeginAdd(t, c)
      PROVE  IInv'
  BY <1>0, <1>1, <1>s DEF BeginAdd, TypeOK, ThreadType
<1>2. ASSUME NEW t \in Threads, EndAdd(t)
      PROVE  IInv'
  <2>1. adding[t] \in Clients
    BY <1>0, <1>2 DEF EndAdd, TypeOK
  <2>2. TableType' /\ PoolInv'
    BY <1>0, <1>2, <2>1, LinkKeeps DEF EndAdd
  <2>3. ThreadType'
    BY <1>0, <1>2 DEF EndAdd, TypeOK, ThreadType
  <2> QED
    BY <2>2, <2>3 DEF IInv, TypeOK, TableType, ThreadType
<1>3. ASSUME NEW c \in Clients, Disconnect(c)
      PROVE  IInv'
  <2>1. Unlink(Hash[c.mac], Victim(c)) /\ Holds(c)
    BY <1>3 DEF Disconnect
  <2>2. Hash[c.mac] \in Buckets /\ Victim(c) \in DOMAIN bucket[Hash[c.mac]]
    BY <1>0, <2>1, ClientFields, VictimIsPlace
  <2>3. TableType' /\ PoolInv'
    BY <1>0, <2>1, <2>2, UnlinkKeeps
  <2>4. ThreadType'
    BY <1>0, <1>3 DEF Disconnect, Walking, TypeOK, ThreadType
  <2> QED
    BY <2>3, <2>4 DEF IInv, TypeOK, TableType, ThreadType
<1>4. ASSUME NEW m \in Macs, PodLearned(m)
      PROVE  IInv'
  BY <1>0, <1>4, <1>s DEF PodLearned, TypeOK, ThreadType
<1>5. CASE StatusFull
  BY <1>0, <1>5, <1>s DEF StatusFull, TypeOK, ThreadType
<1>6. CASE StartWalk
  BY <1>0, <1>6, <1>s DEF StartWalk, TypeOK, ThreadType, NoIter
<1>7. CASE Walk
  BY <1>0, <1>7, <1>s, IterNextType DEF Walk, TypeOK, ThreadType
<1>8. CASE Announce
  BY <1>0, <1>8, <1>s DEF Announce, TypeOK, ThreadType
<1>9. CASE UNCHANGED vars
  BY <1>0, <1>9, <1>s DEF vars, table, TypeOK, ThreadType
<1> QED
  BY <1>1, <1>2, <1>3, <1>4, <1>5, <1>6, <1>7, <1>8, <1>9 DEF Next

THEOREM TableInvariant == Spec => []IInv
BY InitIInv, NextIInv, PTL DEF Spec

(* Every variable keeps its type; for the iterator that means that walking *)
(* on never leaves the buckets nor names an item outside the pool          *)
(* (Mesh_ClientTableIterNext).                                             *)
THEOREM TypeCorrect == Spec => []TypeOK
<1>1. IInv => TypeOK
  BY DEF IInv
<1> QED
  BY <1>1, TableInvariant, PTL

(* Whatever the two threads do between HashAdd's search and its insertion, *)
(* the fixed pool leaks no item, no item is linked twice, and the counts   *)
(* are those of the lists.                                                 *)
THEOREM PoolIsAccounted == Spec => []PoolAccounted
<1>1. IInv => PoolAccounted
  BY PoolParts DEF IInv, PoolInv
<1> QED
  BY <1>1, TableInvariant, PTL

-----------------------------------------------------------------------------
(* How often a client is in the table.                                     *)

(* The search of a client's bucket is a search of the whole pool.          *)
LEMMA HoldsIsInUse ==
  ASSUME IInv, NEW c \in Clients
  PROVE  Holds(c) <=> \E i \in Items : slot[i] = c
<1> DEFINE b == Hash[c.mac]
<1>1. TypeOK /\ Placed /\ b \in Buckets /\ c # Free
  BY ClientFields, ClientTableAssumption DEF IInv, PoolInv
<1>2. Holds(c) => \E i \in Items : slot[i] = c
  BY <1>1, ListFacts DEF Holds
<1>3. ASSUME NEW i \in Items, slot[i] = c
      PROVE  Holds(c)
  <2>1. Chained(i, b)
    BY <1>1, <1>3 DEF Placed
  <2> QED
    BY <2>1, <1>3 DEF Chained, Holds
<1> QED
  BY <1>2, <1>3

Slots(c) == {i \in Items : slot[i] = c}
Bringers(c) == {t \in Threads : adding[t] = c}

LEMMA CopiesType ==
  ASSUME NEW c
  PROVE  IsFiniteSet(Slots(c)) /\ Copies(c) = Cardinality(Slots(c)) /\ Copies(c) \in Nat
<1>1. IsFiniteSet(Items)
  BY FS_Interval, ClientTableAssumption DEF Items
<1>2. IsFiniteSet(Slots(c))
  BY <1>1, FS_Subset DEF Slots
<1> QED
  BY <1>2, FS_CardinalityType DEF Copies, Slots

LEMMA BringersType ==
  ASSUME NEW c
  PROVE  /\ IsFiniteSet(Bringers(c)) /\ Brought(c) = Cardinality(Bringers(c))
         /\ Brought(c) \in Nat /\ Brought(c) <= Cardinality(Threads)
         /\ Cardinality(Threads) \in Nat
<1>1. IsFiniteSet({"dbus"}) /\ Threads = {"dbus"} \cup {"sysevent"}
  BY FS_Singleton DEF Threads
<1>2. IsFiniteSet(Threads)
  BY <1>1, FS_AddElement
<1>3. Bringers(c) \in SUBSET Threads
  BY DEF Bringers
<1> QED
  BY <1>2, <1>3, FS_Subset, FS_CardinalityType DEF Brought, Bringers

(* A client is found exactly when it is there once or more.                *)
LEMMA HoldsIsCopied ==
  ASSUME IInv, NEW c \in Clients
  PROVE  Holds(c) <=> Copies(c) > 0
<1>1. Holds(c) <=> Slots(c) # {}
  BY HoldsIsInUse DEF Slots
<1>2. Slots(c) = {} <=> Cardinality(Slots(c)) = 0
  BY CopiesType, FS_EmptySet
<1> QED
  BY <1>1, <1>2, CopiesType

(* An item that is filled is one copy more of its client, and nobody       *)
(* else's.                                                                 *)
LEMMA OneCopyMore ==
  ASSUME TypeOK, NEW c \in Clients, NEW i \in Items, slot[i] = Free,
         slot' = [slot EXCEPT ![i] = c]
  PROVE  /\ Copies(c)' = Copies(c) + 1
         /\ \A d \in Clients \ {c} : Copies(d)' = Copies(d)
<1>1. \A j \in Items : slot'[j] = IF j = i THEN c ELSE slot[j]
  BY DEF TypeOK
<1>2. Slots(c)' = Slots(c) \cup {i} /\ i \notin Slots(c)
  BY <1>1, ClientTableAssumption DEF Slots
<1>3. Cardinality(Slots(c)') = Cardinality(Slots(c)) + 1
  BY <1>2, CopiesType, FS_AddElement
<1>4. Copies(c)' = Cardinality(Slots(c)')
  BY DEF Copies, Slots
<1>5. ASSUME NEW d \in Clients \ {c}
      PROVE  Slots(d)' = Slots(d)
  BY <1>1, ClientTableAssumption DEF Slots
<1>6. ASSUME NEW d \in Clients \ {c}
      PROVE  Copies(d)' = Copies(d)
  BY <1>5 DEF Copies, Slots
<1> QED
  BY <1>3, <1>4, <1>6, CopiesType

LEMMA OneCopyLess ==
  ASSUME TypeOK, NEW c \in Clients, NEW i \in Items, slot[i] = c,
         slot' = [slot EXCEPT ![i] = Free]
  PROVE  /\ Copies(c) > 0 /\ Copies(c)' = Copies(c) - 1
         /\ \A d \in Clients \ {c} : Copies(d)' = Copies(d)
<1>1. \A j \in Items : slot'[j] = IF j = i THEN Free ELSE slot[j]
  BY DEF TypeOK
<1>2. i \in Slots(c)
  BY DEF Slots
<1>3. Cardinality(Slots(c) \ {i}) = Cardinality(Slots(c)) - 1
  BY <1>2, CopiesType, FS_RemoveElement
<1>4. Slots(c) # {} /\ Cardinality(Slots(c)) # 0
  BY <1>2, CopiesType, FS_EmptySet
<1>5. ASSUME NEW d \in Clients
      PROVE  Slots(d)' = Slots(d) \ {i}
  BY <1>1, ClientTableAssumption DEF Slots
<1>6. ASSUME NEW d \in Clients \ {c}
      PROVE  Slots(d)' = Slots(d)
  BY <1>5 DEF Slots
<1>7. \A d \in Clients : Copies(d)' = Cardinality(Slots(d)')
  BY DEF Copies, Slots
<1>8. \A d : Copies(d) = Cardinality(Slots(d)) /\ Copies(d) \in Nat
  BY CopiesType
<1>9. Copies(c)' = Cardinality(Slots(c) \ {i})
  BY <1>5, <1>7
<1>10. Copies(c) > 0 /\ Copies(c)' = Copies(c) - 1
  BY <1>3, <1>4, <1>8, <1>9
<1>11. \A d \in Clients \ {c} : Copies(d)' = Copies(d)
  BY <1>6, <1>7, <1>8
<1> QED
  BY <1>10, <1>11

(* What HashAdd's second half and HashDelete do to the copies.             *)
LEMMA LinkCopies ==
  ASSUME IInv, NEW c \in Clients, Link(c), HashAlloc # {}
  PROVE  /\ Copies(c)' = Copies(c) + 1
         /\ \A d \in Clients \ {c} : Copies(d)' = Copies(d)
         /\ total' = total + 1
<1>1. PICK i \in HashAlloc :
         slot' = [slot EXCEPT ![i] = c] /\ total' = total + 1
  BY SMT DEF Link
<1>2. i \in Items /\ slot[i] = Free
  BY AllocIsFree
<1> QED
  BY <1>1, <1>2, OneCopyMore DEF IInv

LEMMA UnlinkCopies ==
  ASSUME IInv, NEW b \in Buckets, NEW k \in DOMAIN bucket[b], Unlink(b, k)
  PROVE  \E c \in Clients :
           /\ Copies(c) > 0 /\ Copies(c)' = Copies(c) - 1
           /\ \A d \in Clients \ {c} : Copies(d)' = Copies(d)
           /\ total' = total - 1
<1> DEFINE i == bucket[b][k]
<1>1. /\ i \in Items /\ slot[i] \in Clients
      /\ slot' = [slot EXCEPT ![i] = Free] /\ total' = total - 1
  <2>1. TypeOK /\ Placed
    BY DEF IInv, PoolInv
  <2>2. i \in Items /\ Chained(i, b)
    BY <2>1, ListFacts DEF Chained
  <2> QED
    BY <2>1, <2>2 DEF Placed, Unlink, TypeOK
<1> HIDE DEF i
<1> QED
  BY <1>1, OneCopyLess DEF IInv

LEMMA NextOnce ==
  IInv /\ OncePerThread /\ [Next]_vars => OncePerThread'
<1> SUFFICES ASSUME IInv, OncePerThread, [Next]_vars
             PROVE  OncePerThread'
  OBVIOUS
<1>0. TypeOK
  BY DEF IInv
<1>t. Threads' = Threads /\ Clients' = Clients
  OBVIOUS
<1>b. \A c : /\ Copies(c) \in Nat /\ Brought(c) \in Nat
             /\ Brought(c) <= Cardinality(Threads) /\ Cardinality(Threads) \in Nat
  BY CopiesType, BringersType
<1>s. ASSUME UNCHANGED <<table, adding>>
      PROVE  OncePerThread'
  BY <1>s DEF OncePerThread, Copies, Brought, table
<1>1. ASSUME NEW t \in Threads, NEW c \in Clients, BeginAdd(t, c)
      PROVE  OncePerThread'
  <2>1. /\ adding[t] = Free /\ adding' = [adding EXCEPT ![t] = c]
        /\ ~ Holds(c) /\ slot' = slot
    BY <1>1 DEF BeginAdd, MayEnter, table
  <2>2. \A u \in Threads : adding'[u] = IF u = t THEN c ELSE adding[u]
    BY <2>1, <1>0 DEF TypeOK
  <2>3. Copies(c) = 0
    BY <2>1, <1>b, HoldsIsCopied
  <2>4. \A d \in Clients : Copies(d)' = Copies(d)
    BY <2>1 DEF Copies
  <2>5. {u \in Threads : adding'[u] = c} \in SUBSET Threads
    OBVIOUS
  <2>6. IsFiniteSet(Threads)
    <3>1. IsFiniteSet({"dbus"}) /\ Threads = {"dbus"} \cup {"sysevent"}
      BY FS_Singleton DEF Threads
    <3> QED
      BY <3>1, FS_AddElement
  <2>7. Brought(c)' \in Nat /\ Brought(c)' <= Cardinality(Threads)
    BY <2>5, <2>6, FS_Subset, FS_CardinalityType DEF Brought
  <2>8. ASSUME NEW d \in Clients \ {c}
        PROVE  Brought(d)' = Brought(d)
    <3>1. {u \in Threads : adding'[u] = d} = {u \in Threads : adding[u] = d}
      BY <2>1, <2>2, ClientTableAssumption
    <3> QED
      BY <3>1 DEF Brought
  <2>9. ASSUME NEW d \in Clients
        PROVE  Copies(d)' + Brought(d)' <= Cardinality(Threads)
    BY <2>3, <2>4, <2>7, <2>8, <1>b DEF OncePerThread
  <2> QED
    BY <2>9 DEF OncePerThread
<1>2. ASSUME NEW t \in Threads, EndAdd(t)
      PROVE  OncePerThread'
  <2>0. PICK c \in Clients : c = adding[t]
    BY <1>0, <1>2 DEF EndAdd, TypeOK
  <2>1. Link(c) /\ adding' = [adding EXCEPT ![t] = Free]
    BY <1>2, <2>0 DEF EndAdd
  <2>2. \A u \in Threads : adding'[u] = IF u = t THEN Free ELSE adding[u]
    BY <2>1, <1>0 DEF TypeOK
  <2>3. \A u \in Threads : adding'[u] = c <=> u # t /\ adding[u] = c
    BY <2>0, <2>2, ClientTableAssumption
  <2>4. /\ {u \in Threads : adding'[u] = c} = Bringers(c) \ {t}
        /\ t \in Bringers(c)
    BY <2>0, <2>3 DEF Bringers
  <2>5. ASSUME NEW d \in Clients \ {c}
        PROVE  {u \in Threads : adding'[u] = d} = {u \in Threads : adding[u] = d}
    BY <2>0, <2>2, ClientTableAssumption
  <2>6. Brought(c)' = Brought(c) - 1
    <3>1. Cardinality(Bringers(c) \ {t}) = Cardinality(Bringers(c)) - 1
      BY <2>4, BringersType, FS_RemoveElement
    <3>2. Brought(c)' = Cardinality({u \in Threads : adding'[u] = c})
      BY DEF Brought
    <3> QED
      BY <3>1, <3>2, <2>4, BringersType
  <2>7. \A d \in Clients \ {c} : Brought(d)' = Brought(d)
    BY <2>5 DEF Brought
  <2>8. \A d \in Clients : Copies(d)' <= Copies(d) + (IF d = c THEN 1 ELSE 0)
                          /\ Copies(d)' \in Nat
    <3>1. CASE HashAlloc = {}
      <4>1. slot' = slot
        BY <2>1, <3>1 DEF Link, table
      <4>2. \A d \in Clients : Copies(d)' = Copies(d)
        BY <4>1 DEF Copies
      <4> QED
        BY <4>2, <1>b
    <3>2. CASE HashAlloc # {}
      BY <2>1, <3>2, <1>b, LinkCopies
    <3> QED
      BY <3>1, <3>2
  <2>9. ASSUME NEW d \in Clients
        PROVE  Copies(d)' + Brought(d)' <= Cardinality(Threads)
    BY <2>6, <2>7, <2>8, <1>b DEF OncePerThread
  <2> QED
    BY <2>9 DEF OncePerThread
<1>3. ASSUME NEW c \in Clients, Disconnect(c)
      PROVE  OncePerThread'
  <2> DEFINE h == Hash[c.mac]
  <2>1. /\ Unlink(h, Victim(c)) /\ Holds(c) /\ adding' = adding
    BY <1>3 DEF Disconnect
  <2>2. h \in Buckets /\ Victim(c) \in DOMAIN bucket[h]
    BY <1>0, <2>1, ClientFields, VictimIsPlace
  <2> HIDE DEF h
  <2>3. \A d \in Clients : Copies(d)' <= Copies(d) /\ Copies(d)' \in Nat
    BY <2>1, <2>2, <1>b, UnlinkCopies
  <2>4. \A d \in Clients : Brought(d)' = Brought(d)
    BY <2>1 DEF Brought
  <2>5. ASSUME NEW d \in Clients
        PROVE  Copies(d)' + Brought(d)' <= Cardinality(Threads)
    BY <2>3, <2>4, <1>b DEF OncePerThread
  <2> QED
    BY <2>5 DEF OncePerThread
<1>4. ASSUME NEW m \in Macs, PodLearned(m)
      PROVE  OncePerThread'
  BY <1>4, <1>s DEF PodLearned
<1>5. CASE StatusFull
  BY <1>5, <1>s DEF StatusFull
<1>6. CASE StartWalk
  BY <1>6, <1>s DEF StartWalk
<1>7. CASE Walk
  BY <1>7, <1>s DEF Walk
<1>8. CASE Announce
  BY <1>8, <1>s DEF Announce
<1>9. CASE UNCHANGED vars
  BY <1>9, <1>s DEF vars
<1> QED
  BY <1>1, <1>2, <1>3, <1>4, <1>5, <1>6, <1>7, <1>8, <1>9 DEF Next

(* However many macs, hosts, buckets and items there are and however the   *)
(* two threads interleave between HashAdd's search and its insertion, a    *)
(* client is in the table at most once for each of them.                   *)
THEOREM NoMoreThanOncePerThread == Spec => []OncePerThread
<1>1. Init => OncePerThread
  <2> SUFFICES ASSUME Init
               PROVE  OncePerThread
    OBVIOUS
  <2>1. ASSUME NEW c \in Clients
        PROVE  Copies(c) + Brought(c) <= Cardinality(Threads)
    <3>1. {i \in Items : slot[i] = c} = {} /\ {t \in Threads : adding[t] = c} = {}
      BY ClientTableAssumption DEF Init
    <3>2. Copies(c) = 0 /\ Brought(c) = 0
      BY <3>1, FS_EmptySet DEF Copies, Brought
    <3> QED
      BY <3>2, BringersType
  <2> QED
    BY <2>1 DEF OncePerThread
<1>2. IInv /\ OncePerThread /\ [Next]_vars => OncePerThread'
  BY NextOnce
<1> QED
  BY <1>1, <1>2, TableInvariant, PTL DEF Spec

-----------------------------------------------------------------------------
(* The table as a collection of clients.                                   *)

(* HashAlloc finds nothing exactly when all the pool is in use.            *)
LEMMA FullPool ==
  ASSUME IInv
  PROVE  /\ total \in Nat /\ total <= PoolSize
         /\ HashAlloc = {} <=> total = PoolSize
<1>1. total = Cardinality(InUse) /\ PoolSize \in Nat
  BY ClientTableAssumption DEF IInv, PoolInv
<1>2. IsFiniteSet(Items) /\ Cardinality(Items) = PoolSize
  BY <1>1, FS_Interval DEF Items
<1>3. InUse \in SUBSET Items
  BY DEF InUse
<1>4. Cardinality(InUse) \in Nat /\ Cardinality(InUse) <= PoolSize
  BY <1>2, <1>3, PoolFinite, FS_Subset, FS_CardinalityType
<1>5. HashAlloc = {} <=> InUse = Items
  BY DEF HashAlloc, InUse
<1>6. InUse # Items => Cardinality(InUse) # PoolSize
  BY <1>2, <1>3, FS_Subset
<1> QED
  BY <1>1, <1>2, <1>4, <1>5, <1>6

LEMMA StepsAreOfTheSet ==
  IInv /\ [Next]_vars => [Abstract!Next]_Abstract!setVars
<1> SUFFICES ASSUME IInv, [Next]_vars
             PROVE  [Abstract!Next]_Abstract!setVars
  OBVIOUS
<1>0. TypeOK
  BY DEF IInv
<1>c. /\ Copied \in [Clients -> Nat]
      /\ \A d \in Clients : Copied[d] = Copies(d)
      /\ Copied' = [d \in Clients |-> Copies(d)']
  BY CopiesType DEF Copied
<1>s. ASSUME UNCHANGED <<table, adding>>
      PROVE  [Abstract!Next]_Abstract!setVars
  <2>1. slot' = slot /\ total' = total /\ adding' = adding
    BY <1>s DEF table
  <2> QED
    BY <2>1 DEF Copied, Copies, Abstract!setVars
<1>1. ASSUME NEW t \in Threads, NEW c \in Clients, BeginAdd(t, c)
      PROVE  [Abstract!Next]_Abstract!setVars
  <2>1. /\ adding[t] = Free /\ adding' = [adding EXCEPT ![t] = c]
        /\ ~ Holds(c) /\ slot' = slot /\ total' = total
    BY <1>1 DEF BeginAdd, MayEnter, table
  <2>2. Copied[c] = 0
    BY <2>1, <1>c, HoldsIsCopied, CopiesType
  <2>3. Copied' = Copied
    BY <2>1 DEF Copied, Copies
  <2>4. Abstract!Come(t, c)
    BY <2>1, <2>2, <2>3 DEF Abstract!Come
  <2> QED
    BY <2>4 DEF Abstract!Next
<1>2. ASSUME NEW t \in Threads, EndAdd(t)
      PROVE  [Abstract!Next]_Abstract!setVars
  <2>1. /\ adding[t] \in Clients /\ adding[t] # Free /\ Link(adding[t])
        /\ adding' = [adding EXCEPT ![t] = Free]
    BY <1>0, <1>2 DEF EndAdd, TypeOK
  <2>2. CASE HashAlloc = {}
    <3>1. slot' = slot /\ total' = total
      BY <2>1, <2>2 DEF Link, table
    <3>2. Copied' = Copied
      BY <3>1 DEF Copied, Copies
    <3>3. Abstract!TurnAway(t)
      BY <2>1, <2>2, <3>1, <3>2, FullPool DEF Abstract!TurnAway
    <3> QED
      BY <3>3 DEF Abstract!Next
  <2>3. CASE HashAlloc # {}
    <3>0. PICK c \in Clients : c = adding[t] /\ Link(c)
      BY <2>1
    <3>1. Copied' = [Copied EXCEPT ![adding[t]] = @ + 1] /\ total' = total + 1
      BY <3>0, <2>3, <1>c, LinkCopies
    <3>2. total < PoolSize
      BY <2>3, FullPool, ClientTableAssumption
    <3>3. Abstract!TakeIn(t)
      BY <2>1, <3>1, <3>2 DEF Abstract!TakeIn
    <3> QED
      BY <3>3 DEF Abstract!Next
  <2> QED
    BY <2>2, <2>3
<1>3. ASSUME NEW c \in Clients, Disconnect(c)
      PROVE  [Abstract!Next]_Abstract!setVars
  <2> DEFINE h == Hash[c.mac]
  <2>1. /\ "dbus" \in Threads /\ adding["dbus"] = Free
        /\ Unlink(h, Victim(c)) /\ Holds(c) /\ adding' = adding
    BY <1>3 DEF Disconnect, MayEnter, Threads
  <2>2. h \in Buckets /\ Victim(c) \in DOMAIN bucket[h]
    BY <1>0, <2>1, ClientFields, VictimIsPlace
  <2> HIDE DEF h
  <2>3. PICK d \in Clients :
          /\ Copies(d) > 0 /\ Copies(d)' = Copies(d) - 1
          /\ \A x \in Clients \ {d} : Copies(x)' = Copies(x)
          /\ total' = total - 1
    BY <2>1, <2>2, UnlinkCopies
  <2>4. Copied[d] > 0 /\ Copied' = [Copied EXCEPT ![d] = @ - 1]
    BY <2>3, <1>c
  <2>5. Abstract!Leave("dbus", d)
    BY <2>1, <2>3, <2>4 DEF Abstract!Leave
  <2> QED
    BY <2>1, <2>5 DEF Abstract!Next
<1>4. ASSUME NEW m \in Macs, PodLearned(m)
      PROVE  [Abstract!Next]_Abstract!setVars
  BY <1>4, <1>s DEF PodLearned
<1>5. CASE StatusFull
  BY <1>5, <1>s DEF StatusFull
<1>6. CASE StartWalk
  BY <1>6, <1>s DEF StartWalk
<1>7. CASE Walk
  BY <1>7, <1>s DEF Walk
<1>8. CASE Announce
  BY <1>8, <1>s DEF Announce
<1>9. CASE UNCHANGED vars
  BY <1>9, <1>s DEF vars
<1> QED
  BY <1>1, <1>2, <1>3, <1>4, <1>5, <1>6, <1>7, <1>8, <1>9 DEF Next

(* Pool, buckets and counts are together a collection of clients with room *)
(* for the size of the pool, for any pool and any hash and however the two *)
(* threads interleave between the two halves of HashAdd.                   *)
THEOREM TableImplementsSet == Spec => ImplementsClientSet
<1>1. Init => Abstract!Init
  <2> SUFFICES ASSUME Init
               PROVE  Abstract!Init
    OBVIOUS
  <2>1. ASSUME NEW c \in Clients
        PROVE  Copies(c) = 0
    <3>1. {i \in Items : slot[i] = c} = {}
      BY ClientTableAssumption DEF Init
    <3> QED
      BY <3>1, FS_EmptySet DEF Copies
  <2>2. Copied = [c \in Clients |-> 0]
    BY <2>1 DEF Copied
  <2> QED
    BY <2>2 DEF Init, Abstract!Init
<1>2. IInv /\ [Next]_vars => [Abstract!Next]_Abstract!setVars
  BY StepsAreOfTheSet
<1> QED
  BY <1>1, <1>2, TableInvariant, PTL DEF Spec, ImplementsClientSet, Abstract!Spec

-----------------------------------------------------------------------------
(* The walk of a report.                                                   *)

(* The iterator has yet to come to this place.                             *)
ToCome(b, l) ==
  \/ iter.pos = -1
  \/ b > iter.pos
  \/ /\ b = iter.pos
     /\ \E k \in DOMAIN bucket[b] :
          bucket[b][k] = iter.last /\ (k < l \/ (k = l /\ phase = "announce"))

Owed(c) == \E b \in Buckets : \E l \in DOMAIN bucket[b] :
             slot[bucket[b][l]] = c /\ ToCome(b, l)

(* The iterator stands on an item of its bucket, and every client that is  *)
(* due is still ahead of it.                                               *)
WalkInv ==
  /\ phase = "announce" => iter.pos # -1
  /\ Walking /\ ~cut =>
       /\ iter.pos # -1 =>
            \E k \in DOMAIN bucket[iter.pos] : bucket[iter.pos][k] = iter.last
       /\ \A c \in due : Owed(c)

(* Adding leaves every item in its place.                                  *)
LEMMA LinkKeepsPlaces ==
  ASSUME IInv, NEW c \in Clients, Link(c),
         NEW b \in Buckets, NEW l \in DOMAIN bucket[b]
  PROVE  /\ l \in DOMAIN bucket'[b] /\ bucket'[b][l] = bucket[b][l]
         /\ slot'[bucket[b][l]] = slot[bucket[b][l]]
<1> DEFINE h == Hash[c.mac]
<1>0. TypeOK /\ Placed /\ h \in Buckets
  BY ClientFields DEF IInv, PoolInv
<1>1. CASE HashAlloc = {}
  BY <1>1 DEF Link, table
<1>2. CASE HashAlloc # {}
  <2>1. PICK i \in HashAlloc :
           /\ slot' = [slot EXCEPT ![i] = c]
           /\ bucket' = [bucket EXCEPT ![h] = Append(@, i)]
    BY <1>2, SMT DEF Link
  <2>2. i \in Items /\ slot[i] = Free
    BY AllocIsFree
  <2> HIDE DEF h
  <2>3. slot'[bucket[b][l]] = slot[bucket[b][l]]
    <3>1. bucket[b][l] \in Items /\ slot[bucket[b][l]] # Free
      BY <1>0, ListFacts DEF Placed, Chained
    <3> QED
      BY <3>1, <2>1, <2>2, <1>0 DEF TypeOK
  <2>4. CASE b # h
    BY <2>1, <2>3, <2>4, <1>0 DEF TypeOK
  <2>5. CASE b = h
    <3>1. bucket'[b] = Append(bucket[b], i)
      BY <2>1, <2>5, <1>0 DEF TypeOK
    <3>2. /\ bucket[b] \in Seq(Items) /\ Len(bucket[b]) \in Nat
          /\ l \in 1 .. Len(bucket[b])
      BY <1>0, ListFacts
    <3>3. /\ Append(bucket[b], i) \in Seq(Items)
          /\ Len(Append(bucket[b], i)) = Len(bucket[b]) + 1
          /\ Append(bucket[b], i)[l] = bucket[b][l]
      BY <3>2, <2>2, AppendProperties
    <3>4. DOMAIN Append(bucket[b], i) = 1 .. Len(bucket[b]) + 1
      BY <3>3, LenProperties
    <3> QED
      BY <2>3, <3>1, <3>2, <3>3, <3>4
  <2> QED
    BY <2>4, <2>5
<1> QED
  BY <1>1, <1>2

(* Where the place l of the list x is once place k of b is taken out.      *)
Shifted(x, l, b, k) == IF x = b /\ l > k THEN l - 1 ELSE l

(* Removing leaves every other item in the list, and in its order.         *)
LEMMA UnlinkKeepsOrder ==
  ASSUME IInv, NEW b \in Buckets, NEW k \in DOMAIN bucket[b], Unlink(b, k),
         NEW x \in Buckets, NEW l \in DOMAIN bucket[x], ~ (x = b /\ l = k)
  PROVE  /\ Shifted(x, l, b, k) \in DOMAIN bucket'[x]
         /\ bucket'[x][Shifted(x, l, b, k)] = bucket[x][l]
         /\ bucket[x][l] # bucket[b][k]
         /\ slot'[bucket[x][l]] = slot[bucket[x][l]]
<1>0. TypeOK /\ Lists /\ Placed
  BY DEF IInv, PoolInv
<1>1. bucket[x][l] \in Items /\ bucket[b][k] \in Items
  BY <1>0, ListFacts
<1>2. bucket[x][l] # bucket[b][k]
  <2>1. CASE x = b
    BY <2>1, <1>0 DEF Lists, IsInjective
  <2>2. CASE x # b
    <3>1. /\ Chained(bucket[x][l], x) /\ Chained(bucket[b][k], b)
      BY DEF Chained
    <3> QED
      BY <3>1, <2>2, <1>0, <1>1 DEF Placed
  <2> QED
    BY <2>1, <2>2
<1>3. slot'[bucket[x][l]] = slot[bucket[x][l]]
  BY <1>0, <1>1, <1>2 DEF Unlink, TypeOK
<1>4. CASE x # b
  BY <1>0, <1>2, <1>3, <1>4 DEF Unlink, TypeOK, Shifted
<1>5. CASE x = b
  <2>1. bucket'[b] = RemoveAt(bucket[b], k)
    BY <1>0 DEF Unlink, TypeOK
  <2>2. /\ bucket[b] \in Seq(Items) /\ Len(bucket[b]) \in Nat
        /\ k \in 1 .. Len(bucket[b]) /\ l \in 1 .. Len(bucket[b])
    BY <1>0, <1>5, ListFacts
  <2>3. /\ bucket'[b] \in Seq(Items) /\ Len(bucket'[b]) = Len(bucket[b]) - 1
        /\ \A n \in 1 .. Len(bucket[b]) - 1 :
             bucket'[b][n] = IF n < k THEN bucket[b][n] ELSE bucket[b][n + 1]
    BY <2>1, <2>2, RemoveAtEffect
  <2>4. DOMAIN bucket'[b] = 1 .. Len(bucket[b]) - 1
    BY <2>3, LenProperties
  <2>5. CASE l < k
    BY <2>2, <2>3, <2>4, <2>5, <1>2, <1>3, <1>5 DEF Shifted
  <2>6. CASE l > k
    <3>1. l - 1 \in 1 .. Len(bucket[b]) - 1 /\ ~ (l - 1 < k) /\ (l - 1) + 1 = l
      BY <2>2, <2>6
    <3>2. bucket'[b][l - 1] = bucket[b][l]
      BY <3>1, <2>3
    <3> QED
      BY <3>1, <3>2, <2>4, <2>6, <1>2, <1>3, <1>5 DEF Shifted
  <2> QED
    BY <2>2, <2>5, <2>6, <1>5
<1> QED
  BY <1>4, <1>5

(* The first bucket from n on that is not empty is entered at its head.    *)
LEMMA FirstFromReaches ==
  ASSUME TypeOK, NEW n \in Int
  PROVE  /\ FirstFrom(n).pos = -1 <=> FirstFrom(n) = NoIter
         /\ FirstFrom(n).pos # -1 =>
              /\ FirstFrom(n).pos \in Buckets
              /\ 1 \in DOMAIN bucket[FirstFrom(n).pos]
              /\ bucket[FirstFrom(n).pos][1] = FirstFrom(n).last
         /\ \A b \in Buckets : b >= n /\ bucket[b] # << >> =>
              FirstFrom(n).pos # -1 /\ FirstFrom(n).pos <= b
<1> DEFINE filled == {x \in Buckets : x >= n /\ bucket[x] # << >>}
<1>1. CASE filled = {}
  BY <1>1 DEF FirstFrom, NoIter
<1>2. CASE filled # {}
  <2>1. filled \in SUBSET Nat
    BY ClientTableAssumption DEF Buckets
  <2>2. Min(filled) \in filled /\ \A b \in filled : Min(filled) <= b
    <3> HIDE DEF filled
    <3> QED
      BY <1>2, <2>1, MinIsLeast
  <2>3. FirstFrom(n) = [pos |-> Min(filled), last |-> bucket[Min(filled)][1]]
    BY <1>2 DEF FirstFrom
  <2>4. 1 \in DOMAIN bucket[Min(filled)]
    <3>1. bucket[Min(filled)] # << >>
      BY <2>2
    <3> QED
      BY <2>2, <3>1, ListFacts, EmptySeq
  <2>5. /\ Min(filled) \in Nat /\ Min(filled) \in Buckets
        /\ \A b \in Buckets : b >= n /\ bucket[b] # << >> => Min(filled) <= b
    BY <2>1, <2>2
  <2> HIDE DEF filled
  <2>6. /\ FirstFrom(n).pos = Min(filled)
        /\ FirstFrom(n).last = bucket[Min(filled)][1]
    BY <2>3
  <2>7. Min(filled) # -1
    BY <2>5
  <2>8. FirstFrom(n) # NoIter
    BY <2>6, <2>7 DEF NoIter
  <2> QED
    BY <2>4, <2>5, <2>6, <2>7, <2>8
<1> QED
  BY <1>1, <1>2

(* A walk goes on to a place that is not before any client that is due,    *)
(* and ends only when none is.                                             *)
LEMMA IterNextReaches ==
  ASSUME IInv, WalkInv, phase = "walk", ~cut
  PROVE  /\ IterNext.pos = -1 <=> IterNext = NoIter
         /\ IterNext.pos # -1 =>
              \E k \in DOMAIN bucket[IterNext.pos] :
                bucket[IterNext.pos][k] = IterNext.last
         /\ \A c \in due :
              /\ IterNext.pos # -1
              /\ \E b \in Buckets : \E l \in DOMAIN bucket[b] :
                   /\ slot[bucket[b][l]] = c
                   /\ \/ b > IterNext.pos
                      \/ /\ b = IterNext.pos
                         /\ \E k \in DOMAIN bucket[b] :
                              bucket[b][k] = IterNext.last /\ k <= l
<1>0. /\ TypeOK /\ Lists /\ Walking
      /\ \A c \in due : Owed(c)
      /\ Buckets \subseteq Nat
  BY ClientTableAssumption DEF IInv, PoolInv, WalkInv, Walking, Buckets
<1>1. ASSUME NEW n \in Int, IterNext = FirstFrom(n),
             NEW c \in due, NEW b \in Buckets, NEW l \in DOMAIN bucket[b],
             slot[bucket[b][l]] = c, b >= n
      PROVE  /\ IterNext.pos # -1
             /\ \/ b > IterNext.pos
                \/ /\ b = IterNext.pos
                   /\ \E k \in DOMAIN bucket[b] :
                        bucket[b][k] = IterNext.last /\ k <= l
  <2>1. l \in Nat /\ 1 <= l /\ bucket[b] # << >>
    BY <1>0, ListFacts
  <2>2. IterNext.pos # -1 /\ IterNext.pos <= b
    BY <1>0, <1>1, <2>1, FirstFromReaches
  <2>3. /\ IterNext.pos \in Buckets /\ 1 \in DOMAIN bucket[IterNext.pos]
        /\ bucket[IterNext.pos][1] = IterNext.last
    BY <1>0, <1>1, <2>2, FirstFromReaches
  <2>4. b = IterNext.pos \/ b > IterNext.pos
    BY <1>0, <2>2, <2>3
  <2> QED
    BY <2>1, <2>2, <2>3, <2>4
<1>2. CASE iter.pos = -1
  <2>1. IterNext = FirstFrom(0)
    BY <1>2 DEF IterNext
  <2>2. ASSUME NEW c \in due
        PROVE  \E b \in Buckets : \E l \in DOMAIN bucket[b] :
                 slot[bucket[b][l]] = c /\ b >= 0
    BY <1>0 DEF Owed
  <2>3. /\ IterNext.pos = -1 <=> IterNext = NoIter
        /\ IterNext.pos # -1 =>
             \E k \in DOMAIN bucket[IterNext.pos] :
               bucket[IterNext.pos][k] = IterNext.last
    BY <2>1, <1>0, FirstFromReaches
  <2> QED
    BY <1>1, <2>1, <2>2, <2>3
<1>3. CASE iter.pos # -1
  <2> DEFINE chain == bucket[iter.pos]
             here == {k \in DOMAIN chain : chain[k] = iter.last}
  <2>1. iter.pos \in Buckets
    BY <1>0, <1>3 DEF TypeOK
  <2>2. PICK k0 \in DOMAIN chain : chain[k0] = iter.last
    BY <1>0, <1>3 DEF WalkInv
  <2>3. \A k \in DOMAIN chain : chain[k] = iter.last => k = k0
    <3>1. IsInjective(chain)
      BY <1>0, <2>1 DEF Lists
    <3> HIDE DEF chain
    <3> QED
      BY <2>2, <3>1 DEF IsInjective
  <2>4. here = {k0}
    BY <2>2, <2>3
  <2>5. /\ Len(chain) \in Nat /\ DOMAIN chain = 1 .. Len(chain)
        /\ k0 \in 1 .. Len(chain)
    BY <1>0, <2>1, <2>2, ListFacts
  <2>6. Min(here) = k0
    <3>1. {k0} \in SUBSET Nat /\ {k0} # {}
      BY <2>5
    <3>2. Min({k0}) \in {k0}
      BY <3>1, MinIsLeast
    <3> QED
      BY <3>2, <2>4
  <2>7. IterNext = IF k0 < Len(chain)
                     THEN [iter EXCEPT !.last = chain[k0 + 1]]
                     ELSE FirstFrom(iter.pos + 1)
    <3>1. here # {}
      BY <2>4
    <3> QED
      BY <1>3, <2>6, <3>1 DEF IterNext
  <2>8. ASSUME NEW c \in due
        PROVE  \E b \in Buckets : \E l \in DOMAIN bucket[b] :
                 /\ slot[bucket[b][l]] = c
                 /\ b > iter.pos \/ (b = iter.pos /\ k0 < l)
    <3>1a. PICK b \in Buckets : \E l \in DOMAIN bucket[b] :
            slot[bucket[b][l]] = c /\ ToCome(b, l)
      BY <1>0 DEF Owed
    <3>1. PICK l \in DOMAIN bucket[b] :
            slot[bucket[b][l]] = c /\ ToCome(b, l)
      BY <3>1a
    <3>2. b > iter.pos \/ (b = iter.pos /\ k0 < l)
      BY <3>1, <1>3, <2>3 DEF ToCome
    <3> QED
      BY <3>1, <3>2
  <2>9. CASE k0 < Len(chain)
    <3>1. IterNext.pos = iter.pos /\ IterNext.last = chain[k0 + 1]
      BY <2>7, <2>9, <1>0 DEF TypeOK
    <3>2. k0 + 1 \in DOMAIN chain
      BY <2>5, <2>9
    <3>3. ASSUME NEW c \in due
          PROVE  \E b \in Buckets : \E l \in DOMAIN bucket[b] :
                   /\ slot[bucket[b][l]] = c
                   /\ \/ b > IterNext.pos
                      \/ /\ b = IterNext.pos
                         /\ \E k \in DOMAIN bucket[b] :
                              bucket[b][k] = IterNext.last /\ k <= l
      <4>1a. PICK b \in Buckets : \E l \in DOMAIN bucket[b] :
              /\ slot[bucket[b][l]] = c
              /\ b > iter.pos \/ (b = iter.pos /\ k0 < l)
        BY <2>8
      <4>1. PICK l \in DOMAIN bucket[b] :
              /\ slot[bucket[b][l]] = c
              /\ b > iter.pos \/ (b = iter.pos /\ k0 < l)
        BY <4>1a
      <4>2. l \in Nat
        BY <1>0, ListFacts
      <4>3. k0 < l => k0 + 1 <= l
        BY <4>2, <2>5
      <4> QED
        BY <4>1, <4>3, <3>1, <3>2
    <3>4. IterNext # NoIter
      BY <3>1, <1>3 DEF NoIter
    <3> QED
      BY <1>3, <3>1, <3>2, <3>3, <3>4
  <2>10. CASE ~ (k0 < Len(chain))
    <3>1. IterNext = FirstFrom(iter.pos + 1) /\ iter.pos + 1 \in Int
      BY <2>7, <2>10, <2>1, <1>0
    <3>2. ASSUME NEW c \in due
          PROVE  \E b \in Buckets : \E l \in DOMAIN bucket[b] :
                   slot[bucket[b][l]] = c /\ b >= iter.pos + 1
      <4>1a. PICK b \in Buckets : \E l \in DOMAIN bucket[b] :
              /\ slot[bucket[b][l]] = c
              /\ b > iter.pos \/ (b = iter.pos /\ k0 < l)
        BY <2>8
      <4>1. PICK l \in DOMAIN bucket[b] :
              /\ slot[bucket[b][l]] = c
              /\ b > iter.pos \/ (b = iter.pos /\ k0 < l)
        BY <4>1a
      <4>2. ~ (b = iter.pos /\ k0 < l)
        BY <2>5, <2>10
      <4>3. b \in Nat /\ iter.pos \in Nat
        BY <2>1, <1>0
      <4>4. b > iter.pos
        BY <4>1, <4>2
      <4>5. b >= iter.pos + 1
        BY <4>3, <4>4
      <4> QED
        BY <4>1, <4>5
    <3>3. /\ IterNext.pos = -1 <=> IterNext = NoIter
          /\ IterNext.pos # -1 =>
               \E k \in DOMAIN bucket[IterNext.pos] :
                 bucket[IterNext.pos][k] = IterNext.last
      BY <3>1, <1>0, FirstFromReaches
    <3> QED
      BY <1>1, <3>1, <3>2, <3>3
  <2> QED
    BY <2>9, <2>10
<1> QED
  BY <1>2, <1>3

LEMMA NextWalk == IInv /\ WalkInv /\ [Next]_vars => WalkInv'
<1> SUFFICES ASSUME IInv, WalkInv, [Next]_vars
             PROVE  WalkInv'
  OBVIOUS
<1>0. TypeOK
  BY DEF IInv
<1>s. ASSUME UNCHANGED <<table, phase, iter, cut>>, due' \subseteq due
      PROVE  WalkInv'
  <2>1. /\ slot' = slot /\ bucket' = bucket /\ phase' = phase
        /\ iter' = iter /\ cut' = cut /\ due' \subseteq due
    BY <1>s DEF table
  <2>2. \A c \in due' : Owed(c) => Owed(c)'
    BY <2>1 DEF Owed, ToCome
  <2> QED
    BY <2>1, <2>2 DEF WalkInv, Walking
<1>1. ASSUME NEW t \in Threads, NEW c \in Clients, BeginAdd(t, c)
      PROVE  WalkInv'
  BY <1>1, <1>s DEF BeginAdd
<1>2. ASSUME NEW t \in Threads, EndAdd(t)
      PROVE  WalkInv'
  <2>1. /\ adding[t] \in Clients /\ Link(adding[t])
        /\ phase' = phase /\ iter' = iter /\ due' = due /\ cut' = cut
    BY <1>0, <1>2 DEF EndAdd, TypeOK
  <2>2. \A b \in Buckets : \A l \in DOMAIN bucket[b] :
          /\ l \in DOMAIN bucket'[b] /\ bucket'[b][l] = bucket[b][l]
          /\ slot'[bucket[b][l]] = slot[bucket[b][l]]
    BY <2>1, LinkKeepsPlaces
  <2>3. iter.pos # -1 => iter.pos \in Buckets
    BY <1>0 DEF TypeOK
  <2>4. ASSUME NEW d \in due, Owed(d)
        PROVE  Owed(d)'
    <3>1a. PICK b \in Buckets : \E l \in DOMAIN bucket[b] :
            slot[bucket[b][l]] = d /\ ToCome(b, l)
      BY <2>4 DEF Owed
    <3>1. PICK l \in DOMAIN bucket[b] :
            slot[bucket[b][l]] = d /\ ToCome(b, l)
      BY <3>1a
    <3>2. l \in DOMAIN bucket'[b] /\ slot'[bucket'[b][l]] = d
      BY <3>1, <2>2
    <3>3. ToCome(b, l)'
      BY <3>1, <2>1, <2>2 DEF ToCome
    <3> QED
      BY <3>2, <3>3 DEF Owed
  <2>5. ASSUME NEW k \in DOMAIN bucket[iter.pos], bucket[iter.pos][k] = iter.last,
               iter.pos # -1
        PROVE  \E m \in DOMAIN bucket'[iter.pos] : bucket'[iter.pos][m] = iter.last
    BY <2>2, <2>3, <2>5
  <2> QED
    BY <2>1, <2>4, <2>5 DEF WalkInv, Walking
<1>3. ASSUME NEW c \in Clients, Disconnect(c)
      PROVE  WalkInv'
  <2> DEFINE h == Hash[c.mac]
  <2>0. PICK v : v = Victim(c)
    OBVIOUS
  <2>1. Unlink(h, v) /\ Holds(c)
    BY <1>3, <2>0 DEF Disconnect
  <2>2. h \in Buckets /\ v \in DOMAIN bucket[h]
    BY <1>0, <2>0, <2>1, ClientFields, VictimIsPlace
  <2>3. /\ due' = due \ {slot[bucket[h][v]]}
        /\ cut' = (cut \/ (Walking /\ bucket[h][v] = iter.last))
        /\ phase' = phase /\ iter' = iter
    BY <1>3, <2>0 DEF Disconnect
  <2> HIDE DEF h
  <2>4. ASSUME NEW x \in Buckets, NEW l \in DOMAIN bucket[x], ~ (x = h /\ l = v)
        PROVE  /\ Shifted(x, l, h, v) \in DOMAIN bucket'[x]
               /\ bucket'[x][Shifted(x, l, h, v)] = bucket[x][l]
               /\ bucket[x][l] # bucket[h][v]
               /\ slot'[bucket[x][l]] = slot[bucket[x][l]]
    BY <2>1, <2>2, <2>4, UnlinkKeepsOrder
  <2>5. SUFFICES ASSUME Walking, ~cut, bucket[h][v] # iter.last
                 PROVE  WalkInv'
    BY <2>3 DEF WalkInv, Walking
  <2>6. iter.pos # -1 => iter.pos \in Buckets
    BY <1>0 DEF TypeOK
  <2>7. ASSUME iter.pos # -1
        PROVE  \E m \in DOMAIN bucket'[iter.pos] : bucket'[iter.pos][m] = iter.last
    <3>1. PICK k \in DOMAIN bucket[iter.pos] : bucket[iter.pos][k] = iter.last
      BY <2>5, <2>7 DEF WalkInv
    <3>2. ~ (iter.pos = h /\ k = v)
      BY <3>1, <2>5
    <3> QED
      BY <3>1, <3>2, <2>4, <2>6, <2>7
  <2>8. ASSUME NEW d \in due'
        PROVE  Owed(d)'
    <3>1. d \in due /\ d # slot[bucket[h][v]]
      BY <2>3, <2>8
    <3>2a. PICK b \in Buckets : \E l \in DOMAIN bucket[b] :
            slot[bucket[b][l]] = d /\ ToCome(b, l)
      BY <3>1, <2>5 DEF WalkInv, Owed
    <3>2. PICK l \in DOMAIN bucket[b] :
            slot[bucket[b][l]] = d /\ ToCome(b, l)
      BY <3>2a
    <3> DEFINE l2 == Shifted(b, l, h, v)
    <3>3. ~ (b = h /\ l = v)
      BY <3>1, <3>2
    <3>4. /\ l2 \in DOMAIN bucket'[b] /\ bucket'[b][l2] = bucket[b][l]
          /\ slot'[bucket'[b][l2]] = d
      BY <3>2, <3>3, <2>4
    <3>5. ToCome(b, l2)'
      <4>1. CASE iter.pos = -1 \/ b > iter.pos
        BY <4>1, <2>3 DEF ToCome
      <4>2. CASE iter.pos # -1 /\ ~ (b > iter.pos)
        <5>1. PICK k \in DOMAIN bucket[b] :
                /\ b = iter.pos /\ bucket[b][k] = iter.last
                /\ k < l \/ (k = l /\ phase = "announce")
          BY <4>2, <3>2 DEF ToCome
        <5> DEFINE k2 == Shifted(b, k, h, v)
        <5>2. ~ (b = h /\ k = v)
          BY <5>1, <2>5
        <5>3. k2 \in DOMAIN bucket'[b] /\ bucket'[b][k2] = iter.last
          BY <5>1, <5>2, <2>4
        <5>4. l \in Nat /\ k \in Nat /\ v \in Nat
          BY <1>0, <2>2, ListFacts
        <5>5. k2 < l2 \/ (k2 = l2 /\ phase = "announce")
          BY <5>1, <5>2, <5>4, <3>3 DEF Shifted
        <5> HIDE DEF k2, l2
        <5> QED
          BY <5>1, <5>3, <5>5, <2>3 DEF ToCome
      <4> QED
        BY <4>1, <4>2
    <3> HIDE DEF l2
    <3> QED
      BY <3>4, <3>5 DEF Owed
  <2> QED
    BY <2>3, <2>7, <2>8 DEF WalkInv
<1>4. ASSUME NEW m \in Macs, PodLearned(m)
      PROVE  WalkInv'
  BY <1>4, <1>s DEF PodLearned
<1>5. CASE StatusFull
  BY <1>5 DEF StatusFull, WalkInv, Walking
<1>6. CASE StartWalk
  <2>1. /\ phase' = "walk" /\ iter' = NoIter /\ slot' = slot /\ bucket' = bucket
        /\ \A c \in due' : c \in Clients /\ Holds(c)
    BY <1>6 DEF StartWalk, table
  <2>2. ASSUME NEW c \in due'
        PROVE  Owed(c)'
    <3>1. Hash[c.mac] \in Buckets
      BY <2>1, ClientFields
    <3>2. PICK k \in DOMAIN bucket[Hash[c.mac]] : slot[bucket[Hash[c.mac]][k]] = c
      BY <2>1 DEF Holds
    <3> QED
      BY <2>1, <3>1, <3>2 DEF Owed, ToCome, NoIter
  <2> QED
    BY <2>1, <2>2 DEF WalkInv, NoIter
<1>7. CASE Walk
  <2>1. /\ phase = "walk" /\ iter' = IterNext
        /\ phase' = IF IterNext = NoIter THEN "idle" ELSE "announce"
        /\ slot' = slot /\ bucket' = bucket /\ due' = due /\ cut' = cut
    BY <1>7 DEF Walk, table
  <2>2. CASE IterNext = NoIter
    BY <2>1, <2>2 DEF WalkInv, Walking
  <2>3. CASE IterNext # NoIter
    <3>1. IterNext.pos # -1
      <4>1. CASE iter.pos = -1
        BY <4>1, <2>3, <1>0, FirstFromReaches DEF IterNext
      <4>2. CASE iter.pos # -1
        <5>1. iter.pos \in Buckets /\ iter.pos + 1 \in Int
          BY <4>2, <1>0, ClientTableAssumption DEF TypeOK, Buckets
        <5>2. \/ IterNext = NoIter
              \/ IterNext = FirstFrom(iter.pos + 1)
              \/ \E y : IterNext = [iter EXCEPT !.last = y]
          BY <4>2 DEF IterNext
        <5>3. (\E y : IterNext = [iter EXCEPT !.last = y]) => IterNext.pos = iter.pos
          BY <1>0 DEF TypeOK
        <5> QED
          BY <4>2, <5>1, <5>2, <5>3, <2>3, <1>0, FirstFromReaches
      <4> QED
        BY <4>1, <4>2
    <3>2. ASSUME ~cut
          PROVE  /\ \E k \in DOMAIN bucket[IterNext.pos] :
                      bucket[IterNext.pos][k] = IterNext.last
                 /\ \A c \in due : Owed(c)'
      <4>1. \E k \in DOMAIN bucket[IterNext.pos] :
              bucket[IterNext.pos][k] = IterNext.last
        BY <2>1, <3>1, <3>2, IterNextReaches
      <4>2. ASSUME NEW c \in due
            PROVE  Owed(c)'
        <5>1a. PICK b \in Buckets : \E l \in DOMAIN bucket[b] :
                /\ slot[bucket[b][l]] = c
                /\ \/ b > IterNext.pos
                   \/ /\ b = IterNext.pos
                      /\ \E k \in DOMAIN bucket[b] :
                           bucket[b][k] = IterNext.last /\ k <= l
          BY <2>1, <3>2, IterNextReaches
        <5>1. PICK l \in DOMAIN bucket[b] :
                /\ slot[bucket[b][l]] = c
                /\ \/ b > IterNext.pos
                   \/ /\ b = IterNext.pos
                      /\ \E k \in DOMAIN bucket[b] :
                           bucket[b][k] = IterNext.last /\ k <= l
          BY <5>1a
        <5>2. \A k \in DOMAIN bucket[b] : k <= l => k < l \/ k = l
          BY <1>0, ListFacts
        <5>3. phase' = "announce"
          BY <2>1, <2>3
        <5>4. ToCome(b, l)'
          BY <2>1, <5>1, <5>2, <5>3 DEF ToCome
        <5> QED
          BY <2>1, <5>1, <5>4 DEF Owed
      <4> QED
        BY <4>1, <4>2
    <3> QED
      BY <2>1, <2>3, <3>1, <3>2 DEF WalkInv
  <2> QED
    BY <2>2, <2>3
<1>8. CASE Announce
  <2>1. /\ phase = "announce" /\ phase' = "walk" /\ iter' = iter /\ cut' = cut
        /\ due' = due \ {slot[iter.last]} /\ slot' = slot /\ bucket' = bucket
    BY <1>8 DEF Announce, table
  <2>2. ASSUME ~cut, NEW c \in due'
        PROVE  Owed(c)'
    <3>1. c \in due /\ c # slot[iter.last]
      BY <2>1, <2>2
    <3>2a. PICK b \in Buckets : \E l \in DOMAIN bucket[b] :
            slot[bucket[b][l]] = c /\ ToCome(b, l)
      BY <2>1, <2>2, <3>1 DEF WalkInv, Walking, Owed
    <3>2. PICK l \in DOMAIN bucket[b] :
            slot[bucket[b][l]] = c /\ ToCome(b, l)
      BY <3>2a
    <3>3. ToCome(b, l)'
      BY <2>1, <3>1, <3>2 DEF ToCome
    <3> QED
      BY <2>1, <3>2, <3>3 DEF Owed
  <2> QED
    BY <2>1, <2>2 DEF WalkInv, Walking
<1>9. CASE UNCHANGED vars
  BY <1>9, <1>s DEF vars
<1> QED
  BY <1>1, <1>2, <1>3, <1>4, <1>5, <1>6, <1>7, <1>8, <1>9 DEF Next

(* The walk of a report (Mesh_ClientTableIterNext) reaches every client    *)
(* that was in the table when it began and still is, whatever is added and *)
(* removed in between, unless the item the iterator stands on is deleted:  *)
(* for any pool and hash, and also when both threads are inside HashAdd.   *)
THEOREM ReportsAreComplete == Spec => ReportComplete
<1>1. Init => WalkInv
  BY DEF Init, WalkInv, Walking
<1>2. IInv /\ WalkInv /\ [Next]_vars => WalkInv'
  BY NextWalk
<1>3. IInv /\ WalkInv /\ [Next]_vars =>
        [Walking /\ phase' = "idle" => due = {} \/ cut]_vars
  <2> SUFFICES ASSUME IInv, WalkInv, Next, Walking, phase' = "idle", ~cut
               PROVE  due = {}
    OBVIOUS
  <2>1. Walk
    BY DEF Next, BeginAdd, EndAdd, Disconnect, PodLearned, StatusFull,
           StartWalk, Announce, Walking
  <2>2. phase = "walk" /\ IterNext = NoIter
    BY <2>1 DEF Walk
  <2> QED
    BY <2>2, IterNextReaches DEF NoIter
<1> QED
  BY <1>1, <1>2, <1>3, TableInvariant, PTL DEF Spec, ReportComplete
=============================================================================
