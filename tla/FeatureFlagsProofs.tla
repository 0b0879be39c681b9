------------------------- MODULE FeatureFlagsProofs -------------------------
(***************************************************************************)
(* Proofs about FeatureFlags.                                              *)
(*                                                                         *)
(* The promises are about an agent at rest.  Why it keeps them is seen on  *)
(* the way there: what the stack of a thread can look like (Stacks, which  *)
(* holds always), and how far the flags and the operations under way agree *)
(* as long as nothing failed and no two threads overlapped (Agreement).    *)
(***************************************************************************)
EXTENDS FeatureFlags, SequenceTheorems, TLAPS

-----------------------------------------------------------------------------
(* The stack of a thread: what it was asked for, on top of it the setters  *)
(* that First put there, and at boot the flags that are still to be set.   *)

Rank == [mesh |-> 1, ethbhaul |-> 2, opensync |-> 3, ovs |-> 4, cache |-> 5,
         retry |-> 6, gre |-> 7]

(* From the place n on, the stack holds flags the boot has not loaded yet. *)
WaitsFrom(s, n) == \A k \in DOMAIN s : k >= n => s[k].init /\ s[k].pc = "load"

(* An operation that turns the flag f off for another one.                 *)
TurningOff(op, f) ==
  /\ op.flag = f /\ ~op.want /\ ~op.init /\ op.commit
  /\ op.pc \in {"decide", "store", "publish"}

(* The operation alone; or ovs on, or mesh off, after gre is off; or mesh  *)
(* off after ovs is off and then gre is off.                               *)
Alone(s) == s # <<>> /\ WaitsFrom(s, 2) /\ (s[1].pc = "load" => s[1].init)

AfterGre(s) ==
  /\ XB3
  /\ Len(s) >= 2 /\ WaitsFrom(s, 3)
  /\ TurningOff(s[1], "gre")
  /\ s[2].pc = "store"
  /\ s[2].flag \in {"ovs", "mesh"}
  /\ s[2].flag = "mesh" => ~s[2].want

AfterOvs(s) ==
  /\ XB3
  /\ Len(s) >= 3 /\ WaitsFrom(s, 4)
  /\ TurningOff(s[1], "ovs")
  /\ TurningOff(s[2], "gre") /\ s[2].pc = "decide"
  /\ s[3].pc = "store" /\ s[3].flag = "mesh" /\ ~s[3].want

Shape(s) == s = <<>> \/ Alone(s) \/ AfterGre(s) \/ AfterOvs(s)

(* The boot sets the flags in its order, and gre last.                     *)
InOrder(s) ==
  \A i, j \in DOMAIN s :
    i < j /\ s[i].init /\ s[j].init => Rank[s[i].flag] < Rank[s[j].flag]

OpOK(t, op) ==
  /\ op.flag \in Supported
  /\ op.init => t = "boot"
  /\ ~op.init => op.commit

OpsOK == \A t \in Threads : \A k \in DOMAIN todo[t] : OpOK(t, todo[t][k])
Shapes == \A t \in Threads : Shape(todo[t]) /\ InOrder(todo[t])

(* Who runs: the boot alone, and then anyone but it.                       *)
Phases ==
  /\ up = "down" => ram = [f \in Flags |-> FALSE]
  /\ up # "boot" => todo["boot"] = <<>>
  /\ up # "up" => \A t \in Threads \ {"boot"} : todo[t] = <<>>

(* The platform without GRE acceleration never turns it on.                *)
NoGre == ~XB3 => ~store["gre"] /\ ~ram["gre"]

Stacks == FieldsOK /\ OpsOK /\ Shapes /\ Phases /\ NoGre

-----------------------------------------------------------------------------
(* How the flags, as syscfg (st) and g_pMeshAgent (rm) have them, fit the  *)
(* stack s of the only thread that has something to do.                    *)

(* The boot has yet to set f, or is about it.                              *)
ToBoot(s, f) == \E k \in DOMAIN s : s[k].init /\ s[k].flag = f

Publishing(s, f) == s # <<>> /\ s[1].pc = "publish" /\ s[1].flag = f

(* What an operation publishes is stored, or is not stored again.          *)
KeptIn(st, op) ==
  op.pc # "load" /\ (~op.commit \/ op.pc = "publish") =>
    /\ op.want => st[op.flag]
    /\ op.flag # "opensync" => op.want = st[op.flag]

(* What a decision relied on still holds when it is stored and published.  *)
DecidedIn(st, rm, op) ==
  op.pc \in {"store", "publish"} =>
    /\ op.flag = "ovs" /\ op.want => (XB3 => st["mesh"]) /\ ~st["gre"]
    /\ op.flag = "gre" /\ op.want => st["mesh"] /\ ~st["ovs"]
    /\ op.flag = "mesh" /\ ~op.want /\ XB3 =>
         \A f \in {"ovs", "gre"} : ~st[f] /\ ~rm[f]

(* The same of the operation under one that turns gre off.                 *)
UnderGre(st, rm, op) ==
  /\ op.flag = "ovs" /\ op.want => st["mesh"]
  /\ op.flag = "mesh" => ~st["ovs"] /\ ~rm["ovs"]

Operations(st, rm, t, s) ==
  /\ \A k \in DOMAIN s : KeptIn(st, s[k])
  /\ t = "webconfig" => \A k \in DOMAIN s : s[k].flag = "mesh" => s[k].want
  /\ s # <<>> => DecidedIn(st, rm, s[1])
  /\ AfterGre(s) => UnderGre(st, rm, s[2])

(* The promises, as far as they are kept before the thread is done.        *)
Shown(st, rm, s) ==
  \A f \in Flags \ {"mesh"} :
    \/ Publishing(s, f)
    \/ ToBoot(s, f) /\ ~rm[f]
    \/ IF f = "opensync" THEN rm[f] => st[f] ELSE rm[f] = st[f]

Accelerators(st, s) == st["ovs"] /\ st["gre"] => ToBoot(s, "ovs")

Followers(st, rm, s) ==
  XB3 => \A f \in {"ovs", "gre"} :
           st[f] \/ rm[f] => st["mesh"] \/ ToBoot(s, "mesh")

Fits(st, rm, t, s) ==
  /\ Operations(st, rm, t, s)
  /\ Shown(st, rm, s)
  /\ Accelerators(st, s)
  /\ Followers(st, rm, s)

Agreement ==
  undisturbed => \E t \in Threads :
    /\ \A u \in Threads \ {t} : todo[u] = <<>>
    /\ Fits(store, ram, t, todo[t])

-----------------------------------------------------------------------------
(* The order of the boot.                                                  *)

(* A strictly ordered list of flags, none after the n-th.                  *)
Sorted(s, n) ==
  /\ s \in Seq(Supported)
  /\ \A i \in 1 .. Len(s) : Rank[s[i]] <= n
  /\ \A i, j \in 1 .. Len(s) : i < j => Rank[s[i]] < Rank[s[j]]

(* One more flag, if there is one, keeps the list ordered.                 *)
LEMMA SortedAppend ==
  ASSUME NEW s, NEW n \in 0 .. 7, Sorted(s, n),
         NEW f \in AllFlags, n < Rank[f]
  PROVE  /\ Sorted(s \o IfSupported(f), Rank[f])
         /\ \A i \in 1 .. Len(s) :
              \E j \in 1 .. Len(s \o IfSupported(f)) :
                (s \o IfSupported(f))[j] = s[i]
         /\ f \in Supported =>
              \E j \in 1 .. Len(s \o IfSupported(f)) :
                (s \o IfSupported(f))[j] = f
<1> DEFINE r == s \o IfSupported(f)
<1>0. s \in Seq(Supported) /\ Len(s) \in Nat
  BY DEF Sorted
<1>1. CASE f \in Supported
  <2>1. r = s \o <<f>>
    BY <1>1 DEF IfSupported
  <2>2. r \in Seq(Supported) /\ Len(r) = Len(s) + 1
        /\ r[Len(s) + 1] = f /\ \A i \in 1 .. Len(s) : r[i] = s[i]
    BY <1>0, <1>1, <2>1
  <2> HIDE DEF r
  <2>3. Rank[f] \in Nat /\ \A i \in 1 .. Len(s) : Rank[s[i]] \in Nat
    <3>1. \A g \in AllFlags : Rank[g] \in Nat
      BY DEF AllFlags, Rank
    <3>2. \A i \in 1 .. Len(s) : s[i] \in AllFlags
      BY <1>0, FlagsAssumption DEF Supported
    <3> QED
      BY <3>1, <3>2
  <2>4. Sorted(r, Rank[f])
    <3>1. \A i \in 1 .. Len(r) : i \in 1 .. Len(s) \/ i = Len(s) + 1
      BY <1>0, <2>2
    <3>2. \A i \in 1 .. Len(r) : Rank[r[i]] <= Rank[f]
      BY <2>2, <2>3, <3>1 DEF Sorted
    <3>3. ASSUME NEW i \in 1 .. Len(r), NEW j \in 1 .. Len(r), i < j
          PROVE  Rank[r[i]] < Rank[r[j]]
      <4>1. i \in 1 .. Len(s)
        BY <1>0, <2>2, <3>3
      <4>2. CASE j \in 1 .. Len(s)
        BY <2>2, <3>3, <4>1, <4>2 DEF Sorted
      <4>3. CASE j = Len(s) + 1
        BY <2>2, <2>3, <4>1, <4>3 DEF Sorted
      <4> QED
        BY <3>1, <4>2, <4>3
    <3> QED
      BY <2>2, <3>2, <3>3 DEF Sorted
  <2>5. \A i \in 1 .. Len(s) : i \in 1 .. Len(r)
    BY <1>0, <2>2
  <2>6. Len(s) + 1 \in 1 .. Len(r)
    BY <1>0, <2>2
  <2> QED
    BY <2>2, <2>4, <2>5, <2>6 DEF r
<1>2. CASE f \notin Supported
  <2>1. r = s
    BY <1>0, <1>2, ConcatEmptySeq DEF IfSupported
  <2>2. Rank[f] \in Nat /\ \A i \in 1 .. Len(s) : Rank[s[i]] \in Nat
    <3>1. \A g \in AllFlags : Rank[g] \in Nat
      BY DEF AllFlags, Rank
    <3>2. \A i \in 1 .. Len(s) : s[i] \in AllFlags
      BY <1>0, FlagsAssumption DEF Supported
    <3> QED
      BY <3>1, <3>2
  <2> HIDE DEF r
  <2>3. Sorted(r, Rank[f])
    BY <2>1, <2>2 DEF Sorted
  <2> QED
    BY <1>2, <2>1, <2>3 DEF r
<1> QED
  BY <1>1, <1>2

Covers(s, F) == \A f \in F \cap Supported : \E j \in 1 .. Len(s) : s[j] = f

(* The boot sets every supported flag once, in the order of Rank.          *)
LEMMA BootOrderSorted == Sorted(BootOrder, 7) /\ Covers(BootOrder, AllFlags)
<1> DEFINE s1 == IfSupported("mesh")
           s2 == s1 \o IfSupported("ethbhaul")
           s3 == s2 \o IfSupported("opensync")
           s4 == s3 \o IfSupported("ovs")
           s5 == s4 \o IfSupported("cache")
           s6 == s5 \o IfSupported("retry")
           s7 == s6 \o IfSupported("gre")
<1>1. Sorted(s1, 1) /\ Covers(s1, {"mesh"})
  <2>1. "mesh" \in Supported
    BY FlagsAssumption DEF Supported
  <2>2. s1 = <<"mesh">>
    BY <2>1 DEF IfSupported
  <2> HIDE DEF s1
  <2>3. s1 \in Seq(Supported) /\ Len(s1) = 1 /\ s1[1] = "mesh"
    BY <2>1, <2>2
  <2>4. Rank["mesh"] = 1
    BY DEF Rank
  <2> QED
    BY <2>3, <2>4 DEF Sorted, Covers
<1>a. ASSUME NEW s, NEW n \in 0 .. 7, NEW F, Sorted(s, n), Covers(s, F),
             NEW f \in AllFlags, n < Rank[f]
      PROVE  /\ Sorted(s \o IfSupported(f), Rank[f])
             /\ Covers(s \o IfSupported(f), F \cup {f})
  <2> DEFINE r == s \o IfSupported(f)
  <2>1. /\ Sorted(r, Rank[f])
        /\ \A i \in 1 .. Len(s) : \E j \in 1 .. Len(r) : r[j] = s[i]
        /\ f \in Supported => \E j \in 1 .. Len(r) : r[j] = f
    BY <1>a, SortedAppend
  <2> HIDE DEF r
  <2>2. Covers(r, F \cup {f})
    BY <1>a, <2>1 DEF Covers
  <2> QED
    BY <2>1, <2>2 DEF r
<1>b. /\ Rank["ethbhaul"] = 2 /\ Rank["opensync"] = 3 /\ Rank["ovs"] = 4
      /\ Rank["cache"] = 5 /\ Rank["retry"] = 6 /\ Rank["gre"] = 7
  BY DEF Rank
<1>c. {"ethbhaul", "opensync", "ovs", "cache", "retry", "gre"} \subseteq AllFlags
  BY DEF AllFlags
<1> HIDE DEF s1
<1>2. Sorted(s2, 2) /\ Covers(s2, {"mesh"} \cup {"ethbhaul"})
  BY <1>1, <1>a, <1>b, <1>c
<1> HIDE DEF s2
<1>3. Sorted(s3, 3) /\ Covers(s3, {"mesh"} \cup {"ethbhaul"} \cup {"opensync"})
  BY <1>2, <1>a, <1>b, <1>c
<1> HIDE DEF s3
<1>4. Sorted(s4, 4) /\ Covers(s4, {"mesh"} \cup {"ethbhaul"} \cup {"opensync"}
                                    \cup {"ovs"})
  BY <1>3, <1>a, <1>b, <1>c
<1> HIDE DEF s4
<1>5. Sorted(s5, 5) /\ Covers(s5, {"mesh"} \cup {"ethbhaul"} \cup {"opensync"}
                                    \cup {"ovs"} \cup {"cache"})
  BY <1>4, <1>a, <1>b, <1>c
<1> HIDE DEF s5
<1>6. Sorted(s6, 6) /\ Covers(s6, {"mesh"} \cup {"ethbhaul"} \cup {"opensync"}
                                    \cup {"ovs"} \cup {"cache"} \cup {"retry"})
  BY <1>5, <1>a, <1>b, <1>c
<1> HIDE DEF s6
<1>7. Sorted(s7, 7) /\ Covers(s7, {"mesh"} \cup {"ethbhaul"} \cup {"opensync"}
                                    \cup {"ovs"} \cup {"cache"} \cup {"retry"}
                                    \cup {"gre"})
  BY <1>6, <1>a, <1>b, <1>c
<1> HIDE DEF s7
<1>8. BootOrder = s7
  BY DEF BootOrder, s1, s2, s3, s4, s5, s6, s7
<1> QED
  BY <1>7, <1>8 DEF Covers, AllFlags

-----------------------------------------------------------------------------
(* What the steps do to a stack.                                           *)

(* Finishing the operation on top.                                         *)
LEMMA PopStack ==
  ASSUME NEW s \in Seq(Op), s # <<>>
  PROVE  /\ Tail(s) \in Seq(Op)
         /\ Len(s) \in Nat /\ Len(s) >= 1
         /\ Len(Tail(s)) = Len(s) - 1
         /\ \A k \in DOMAIN Tail(s) : k + 1 \in DOMAIN s /\ Tail(s)[k] = s[k + 1]
         /\ Tail(s) = <<>> <=> Len(s) = 1
         /\ s[1] = Head(s) /\ s[1] \in Op /\ 1 \in DOMAIN s
<1>1. Len(s) \in Nat /\ Len(s) >= 1 /\ DOMAIN s = 1 .. Len(s)
  OBVIOUS
<1>2. Tail(s) \in Seq(Op) /\ Len(Tail(s)) = Len(s) - 1
  OBVIOUS
<1>3. DOMAIN Tail(s) = 1 .. Len(s) - 1
  BY <1>1, <1>2
<1>4. \A k \in 1 .. Len(s) - 1 : Tail(s)[k] = s[k + 1]
  OBVIOUS
<1>5. Tail(s) = <<>> <=> Len(s) = 1
  BY <1>1, <1>2
<1>6. s[1] = Head(s) /\ s[1] \in Op
  BY <1>1
<1> QED
  BY <1>1, <1>2, <1>3, <1>4, <1>5, <1>6

(* Changing it.                                                            *)
LEMMA ChangeTop ==
  ASSUME NEW s \in Seq(Op), s # <<>>, NEW op \in Op
  PROVE  /\ <<op>> \o Tail(s) \in Seq(Op)
         /\ Len(<<op>> \o Tail(s)) = Len(s)
         /\ DOMAIN (<<op>> \o Tail(s)) = DOMAIN s
         /\ (<<op>> \o Tail(s))[1] = op
         /\ \A k \in DOMAIN s : k # 1 => (<<op>> \o Tail(s))[k] = s[k]
         /\ <<op>> \o Tail(s) # <<>>
  OBVIOUS

(* A stack keeps its shape when the operation on top is done,              *)
LEMMA PopShape ==
  ASSUME NEW s \in Seq(Op), s # <<>>, Shape(s), InOrder(s), s[1].pc # "load"
  PROVE  Shape(Tail(s)) /\ InOrder(Tail(s))
<1> DEFINE r == Tail(s)
<1>1. /\ r \in Seq(Op) /\ Len(s) \in Nat /\ Len(s) >= 1
      /\ Len(r) = Len(s) - 1
      /\ \A k \in DOMAIN r : k + 1 \in DOMAIN s /\ r[k] = s[k + 1]
      /\ r = <<>> <=> Len(s) = 1
  BY PopStack
<1>2. DOMAIN r = 1 .. Len(r) /\ DOMAIN s = 1 .. Len(s)
  OBVIOUS
<1> HIDE DEF r
<1>3. InOrder(r)
  BY <1>1, <1>2 DEF InOrder
<1>4. \A n \in Nat : WaitsFrom(s, n + 1) => WaitsFrom(r, n)
  BY <1>1, <1>2 DEF WaitsFrom
<1>5. CASE Alone(s)
  <2>1. WaitsFrom(r, 1)
    BY <1>4, <1>5 DEF Alone
  <2>2. WaitsFrom(r, 2) /\ (r # <<>> => r[1].init)
    BY <1>1, <1>2, <2>1 DEF WaitsFrom
  <2> QED
    BY <1>3, <2>2 DEF Shape, Alone, r
<1>6. CASE AfterGre(s)
  <2>1. WaitsFrom(r, 2) /\ r # <<>> /\ r[1] = s[2]
    BY <1>1, <1>2, <1>4, <1>6 DEF AfterGre
  <2> QED
    BY <1>3, <1>6, <2>1 DEF Shape, Alone, AfterGre, r
<1>7. CASE AfterOvs(s)
  <2>1. /\ WaitsFrom(r, 3) /\ Len(r) >= 2
        /\ r[1] = s[2] /\ r[2] = s[3]
    BY <1>1, <1>2, <1>4, <1>7 DEF AfterOvs
  <2>2. TurningOff(r[1], "gre")
    BY <1>7, <2>1 DEF AfterOvs
  <2> QED
    BY <1>3, <1>7, <2>1, <2>2 DEF Shape, AfterGre, AfterOvs, r
<1> QED
  BY <1>5, <1>6, <1>7 DEF Shape

(* when it goes on,                                                        *)
LEMMA ChangeShape ==
  ASSUME NEW s \in Seq(Op), s # <<>>, Shape(s), InOrder(s), NEW op \in Op,
         op.flag = s[1].flag, op.init = s[1].init, op.pc # "load",
         \A f \in {"gre", "ovs"} : TurningOff(s[1], f) => TurningOff(op, f)
  PROVE  Shape(<<op>> \o Tail(s)) /\ InOrder(<<op>> \o Tail(s))
<1> DEFINE r == <<op>> \o Tail(s)
<1>1. /\ r \in Seq(Op) /\ Len(r) = Len(s) /\ DOMAIN r = DOMAIN s
      /\ r[1] = op /\ r # <<>>
      /\ \A k \in DOMAIN s : k # 1 => r[k] = s[k]
  BY ChangeTop
<1>2. DOMAIN s = 1 .. Len(s) /\ Len(s) \in Nat
  OBVIOUS
<1> HIDE DEF r
<1>3. InOrder(r)
  BY <1>1 DEF InOrder
<1>4. \A n \in Nat : n > 1 /\ WaitsFrom(s, n) => WaitsFrom(r, n)
  BY <1>1, <1>2 DEF WaitsFrom
<1>5. CASE Alone(s)
  BY <1>1, <1>3, <1>4, <1>5 DEF Shape, Alone, r
<1>6. CASE AfterGre(s)
  BY <1>1, <1>2, <1>3, <1>4, <1>6 DEF Shape, AfterGre, r
<1>7. CASE AfterOvs(s)
  BY <1>1, <1>2, <1>3, <1>4, <1>7 DEF Shape, AfterOvs, r
<1> QED
  BY <1>5, <1>6, <1>7 DEF Shape

(* and when it has other flags turned off before it.                       *)
LEMMA PushShape ==
  ASSUME NEW s \in Seq(Op), Alone(s), InOrder(s), XB3, NEW op \in Op,
         op.flag = s[1].flag, op.init = s[1].init, op.pc = "store",
         NEW g \in Op, TurningOff(g, "gre"), g.pc = "decide",
         NEW o \in Op, TurningOff(o, "ovs")
  PROVE  /\ op.flag = "ovs" => /\ AfterGre(<<g>> \o <<op>> \o Tail(s))
                               /\ InOrder(<<g>> \o <<op>> \o Tail(s))
         /\ op.flag = "mesh" /\ ~op.want =>
              /\ AfterOvs(<<o, g>> \o <<op>> \o Tail(s))
              /\ InOrder(<<o, g>> \o <<op>> \o Tail(s))
<1>0. s # <<>> /\ DOMAIN s = 1 .. Len(s) /\ Len(s) \in Nat /\ Len(s) >= 1
  BY DEF Alone
<1>1. ~g.init /\ ~o.init
  BY DEF TurningOff
<1>2. \A k \in 2 .. Len(s) : s[k].init /\ s[k].pc = "load"
  BY <1>0 DEF Alone, WaitsFrom
<1>3. \A i, j \in 1 .. Len(s) :
        i < j /\ s[i].init /\ s[j].init => Rank[s[i].flag] < Rank[s[j].flag]
  BY <1>0 DEF InOrder
<1>4. ASSUME op.flag = "ovs"
      PROVE  /\ AfterGre(<<g>> \o <<op>> \o Tail(s))
             /\ InOrder(<<g>> \o <<op>> \o Tail(s))
  <2> DEFINE r == <<g>> \o <<op>> \o Tail(s)
  <2>1. /\ r \in Seq(Op) /\ Len(r) = 1 + Len(s)
        /\ r[1] = g /\ r[2] = op
        /\ \A k \in 2 .. Len(s) : r[1 + k] = s[k]
    BY <1>0
  <2> HIDE DEF r
  <2>2. DOMAIN r = 1 .. 1 + Len(s)
    BY <1>0, <2>1
  <2>4. ASSUME NEW k \in DOMAIN r, k >= 3
        PROVE  k - 1 \in 2 .. Len(s) /\ r[k] = s[k - 1]
    <3>1. k - 1 \in 2 .. Len(s) /\ k = 1 + (k - 1)
      BY <1>0, <2>1, <2>2, <2>4
    <3> QED
      BY <2>1, <3>1
  <2>5. WaitsFrom(r, 3)
    BY <1>2, <2>1, <2>2, <2>4 DEF WaitsFrom
  <2>6. AfterGre(r)
    BY <1>0, <1>4, <2>1, <2>2, <2>5 DEF AfterGre
  <2>7. ASSUME NEW i \in DOMAIN r, NEW j \in DOMAIN r,
               i < j, r[i].init, r[j].init
        PROVE  Rank[r[i].flag] < Rank[r[j].flag]
    <3>1. i # 1 /\ i >= 2 /\ j >= 3
      BY <1>0, <1>1, <2>1, <2>2, <2>7
    <3>2. j - 1 \in 2 .. Len(s) /\ r[j] = s[j - 1]
      BY <2>4, <3>1
    <3>3. CASE i = 2
      <4>1. s[1].init /\ r[i].flag = s[1].flag
        BY <2>1, <2>2, <2>7, <3>3
      <4> QED
        BY <1>0, <1>2, <1>3, <3>2, <4>1
    <3>4. CASE i >= 3
      <4>1. i - 1 \in 2 .. Len(s) /\ r[i] = s[i - 1] /\ i - 1 < j - 1
        BY <1>0, <2>1, <2>2, <2>4, <2>7, <3>4
      <4> QED
        BY <1>0, <1>2, <1>3, <3>2, <4>1
    <3> QED
      BY <1>0, <2>1, <2>2, <3>1, <3>3, <3>4
  <2> QED
    BY <2>6, <2>7 DEF InOrder, r
<1>5. ASSUME op.flag = "mesh", ~op.want
      PROVE  /\ AfterOvs(<<o, g>> \o <<op>> \o Tail(s))
             /\ InOrder(<<o, g>> \o <<op>> \o Tail(s))
  <2> DEFINE r == <<o, g>> \o <<op>> \o Tail(s)
  <2>1. /\ r \in Seq(Op) /\ Len(r) = 2 + Len(s)
        /\ r[1] = o /\ r[2] = g /\ r[3] = op
        /\ \A k \in 2 .. Len(s) : r[2 + k] = s[k]
    BY <1>0
  <2> HIDE DEF r
  <2>2. DOMAIN r = 1 .. 2 + Len(s)
    BY <1>0, <2>1
  <2>4. ASSUME NEW k \in DOMAIN r, k >= 4
        PROVE  k - 2 \in 2 .. Len(s) /\ r[k] = s[k - 2]
    <3>1. k - 2 \in 2 .. Len(s) /\ k = 2 + (k - 2)
      BY <1>0, <2>1, <2>2, <2>4
    <3> QED
      BY <2>1, <3>1
  <2>5. WaitsFrom(r, 4)
    BY <1>2, <2>1, <2>2, <2>4 DEF WaitsFrom
  <2>6. AfterOvs(r)
    BY <1>0, <1>5, <2>1, <2>2, <2>5 DEF AfterOvs
  <2>7. ASSUME NEW i \in DOMAIN r, NEW j \in DOMAIN r,
               i < j, r[i].init, r[j].init
        PROVE  Rank[r[i].flag] < Rank[r[j].flag]
    <3>1. i # 1 /\ i # 2 /\ i >= 3 /\ j >= 4
      BY <1>0, <1>1, <2>1, <2>2, <2>7
    <3>2. j - 2 \in 2 .. Len(s) /\ r[j] = s[j - 2]
      BY <2>4, <3>1
    <3>3. CASE i = 3
      <4>1. s[1].init /\ r[i].flag = s[1].flag
        BY <2>1, <2>2, <2>7, <3>3
      <4> QED
        BY <1>0, <1>2, <1>3, <3>2, <4>1
    <3>4. CASE i >= 4
      <4>1. i - 2 \in 2 .. Len(s) /\ r[i] = s[i - 2] /\ i - 2 < j - 2
        BY <1>0, <2>1, <2>2, <2>4, <2>7, <3>4
      <4> QED
        BY <1>0, <1>2, <1>3, <3>2, <4>1
    <3> QED
      BY <1>0, <2>1, <2>2, <3>1, <3>3, <3>4
  <2> QED
    BY <2>6, <2>7 DEF InOrder, r
<1> QED
  BY <1>4, <1>5

-----------------------------------------------------------------------------
(* Every step keeps the stacks as they should be.                          *)

(* What is known of a thread that has something to do.                     *)
LEMMA BusyThread ==
  ASSUME Stacks, NEW t \in Threads, Busy(t)
  PROVE  /\ todo[t] \in Seq(Op) /\ todo[t] # <<>>
         /\ Shape(todo[t]) /\ InOrder(todo[t])
         /\ todo[t][1] = Head(todo[t]) /\ todo[t][1] \in Op
         /\ \A k \in DOMAIN todo[t] : OpOK(t, todo[t][k])
         /\ OpOK(t, todo[t][1])
         /\ up = IF t = "boot" THEN "boot" ELSE "up"
<1>1. todo[t] \in Seq(Op) /\ todo[t] # <<>>
  BY DEF Stacks, FieldsOK, Busy
<1>2. todo[t][1] = Head(todo[t]) /\ todo[t][1] \in Op /\ 1 \in DOMAIN todo[t]
  BY <1>1, PopStack
<1>3. \A k \in DOMAIN todo[t] : OpOK(t, todo[t][k])
  BY DEF Stacks, OpsOK
<1>4. up = IF t = "boot" THEN "boot" ELSE "up"
  BY DEF Stacks, FieldsOK, Phases, Busy
<1> QED
  BY <1>1, <1>2, <1>3, <1>4 DEF Stacks, Shapes

(* A thread whose stack is replaced by one of the right shape.             *)
LEMMA NewStack ==
  ASSUME Stacks, NEW t \in Threads, NEW r \in Seq(Op),
         todo' = [todo EXCEPT ![t] = r],
         Shape(r), InOrder(r), \A k \in DOMAIN r : OpOK(t, r[k])
  PROVE  /\ todo' \in [Threads -> Seq(Op)]
         /\ OpsOK' /\ Shapes'
<1>1. todo' \in [Threads -> Seq(Op)]
  BY DEF Stacks, FieldsOK
<1>2. todo'[t] = r /\ \A u \in Threads \ {t} : todo'[u] = todo[u]
  BY DEF Stacks, FieldsOK
<1>3. \A u \in Threads : \A k \in DOMAIN todo[u] : OpOK(u, todo[u][k])
  BY DEF Stacks, OpsOK
<1>4. \A u \in Threads : \A k \in DOMAIN todo'[u] : OpOK(u, todo'[u][k])
  BY <1>2, <1>3
<1>5. \A u \in Threads : Shape(todo'[u]) /\ InOrder(todo'[u])
  BY <1>2 DEF Stacks, Shapes
<1> QED
  BY <1>1, <1>4, <1>5 DEF OpsOK, Shapes

LEMMA Popped ==
  ASSUME Stacks, NEW t \in Threads, Busy(t), todo[t][1].pc # "load", Pop(t)
  PROVE  /\ todo' \in [Threads -> Seq(Op)]
         /\ OpsOK' /\ Shapes'
         /\ up' \in {"boot", "up"}
         /\ up' # "boot" => todo'["boot"] = <<>>
         /\ up' # "up" => \A u \in Threads \ {"boot"} : todo'[u] = <<>>
<1> DEFINE s == todo[t]
           r == Tail(s)
<1>1. /\ s \in Seq(Op) /\ s # <<>> /\ Shape(s) /\ InOrder(s)
      /\ \A k \in DOMAIN s : OpOK(t, s[k])
      /\ up = IF t = "boot" THEN "boot" ELSE "up"
  BY BusyThread
<1>2. /\ r \in Seq(Op)
      /\ \A k \in DOMAIN r : k + 1 \in DOMAIN s /\ r[k] = s[k + 1]
      /\ r = <<>> <=> Len(s) = 1
  BY <1>1, PopStack
<1>3. Shape(r) /\ InOrder(r)
  BY <1>1, PopShape
<1>4. todo' = [todo EXCEPT ![t] = r]
  BY DEF Pop, Stacks, FieldsOK
<1>5. up' = IF Len(s) = 1 THEN "up" ELSE up
  BY DEF Pop
<1> HIDE DEF r, s
<1>6. \A k \in DOMAIN r : OpOK(t, r[k])
  BY <1>1, <1>2
<1>7. todo' \in [Threads -> Seq(Op)] /\ OpsOK' /\ Shapes'
  BY <1>2, <1>3, <1>4, <1>6, NewStack
<1>8. todo'[t] = r /\ \A u \in Threads \ {t} : todo'[u] = todo[u]
  BY <1>4 DEF Stacks, FieldsOK
<1>9. "boot" \in Threads
  BY DEF Threads
<1> QED
  BY <1>1, <1>2, <1>5, <1>7, <1>8, <1>9 DEF Stacks, Phases

LEMMA Changed ==
  ASSUME Stacks, NEW t \in Threads, Busy(t), NEW op \in Op,
         op.flag = todo[t][1].flag, op.init = todo[t][1].init,
         op.pc # "load", OpOK(t, op),
         \A f \in {"gre", "ovs"} : TurningOff(todo[t][1], f) => TurningOff(op, f),
         todo' = [todo EXCEPT ![t] = <<op>> \o Tail(todo[t])]
  PROVE  /\ todo' \in [Threads -> Seq(Op)]
         /\ OpsOK' /\ Shapes'
         /\ \A u \in Threads : todo'[u] = <<>> <=> todo[u] = <<>>
<1> DEFINE s == todo[t]
           r == <<op>> \o Tail(s)
<1>1. /\ s \in Seq(Op) /\ s # <<>> /\ Shape(s) /\ InOrder(s)
      /\ \A k \in DOMAIN s : OpOK(t, s[k])
  BY BusyThread
<1>2. /\ r \in Seq(Op) /\ DOMAIN r = DOMAIN s /\ r[1] = op /\ r # <<>>
      /\ \A k \in DOMAIN s : k # 1 => r[k] = s[k]
  BY <1>1, ChangeTop
<1>3. Shape(r) /\ InOrder(r)
  BY <1>1, ChangeShape
<1>4. todo' = [todo EXCEPT ![t] = r]
  OBVIOUS
<1> HIDE DEF r, s
<1>5. \A k \in DOMAIN r : OpOK(t, r[k])
  BY <1>1, <1>2
<1>6. todo' \in [Threads -> Seq(Op)] /\ OpsOK' /\ Shapes'
  BY <1>2, <1>3, <1>4, <1>5, NewStack
<1>7. todo'[t] = r /\ \A u \in Threads \ {t} : todo'[u] = todo[u]
  BY <1>4 DEF Stacks, FieldsOK
<1> QED
  BY <1>1, <1>2, <1>6, <1>7 DEF s

LEMMA Advanced ==
  ASSUME Stacks, NEW t \in Threads, Busy(t), todo[t][1].pc # "load",
         NEW pc \in {"decide", "store", "publish"}, Advance(t, pc)
  PROVE  /\ todo' \in [Threads -> Seq(Op)]
         /\ OpsOK' /\ Shapes'
         /\ \A u \in Threads : todo'[u] = <<>> <=> todo[u] = <<>>
<1> DEFINE op == [todo[t][1] EXCEPT !.pc = pc]
<1>1. /\ todo[t][1] = Head(todo[t]) /\ todo[t][1] \in Op
      /\ OpOK(t, todo[t][1])
  BY BusyThread
<1>2. /\ op \in Op /\ op.flag = todo[t][1].flag /\ op.init = todo[t][1].init
      /\ op.want = todo[t][1].want /\ op.commit = todo[t][1].commit
      /\ op.pc = pc
  BY <1>1 DEF Op
<1>3. todo' = [todo EXCEPT ![t] = <<op>> \o Tail(todo[t])]
  BY <1>1 DEF Advance, Stacks, FieldsOK
<1> HIDE DEF op
<1>4. OpOK(t, op)
  BY <1>1, <1>2 DEF OpOK
<1>5. \A f \in {"gre", "ovs"} : TurningOff(todo[t][1], f) => TurningOff(op, f)
  BY <1>2 DEF TurningOff
<1> QED
  BY <1>2, <1>3, <1>4, <1>5, Changed

(* What a decision sees and what it makes of a wish are flags.             *)
LEMMA ViewType ==
  ASSUME store \in [Flags -> BOOLEAN], NEW seen \in Views
  PROVE  seen \in [Flags -> BOOLEAN]
  BY DEF Views

LEMMA GrantedType ==
  ASSUME NEW op \in Op, NEW seen \in [Flags -> BOOLEAN]
  PROVE  /\ Granted(op, seen) \in BOOLEAN
         /\ Granted(op, seen) => op.want
  BY FlagsAssumption DEF Granted, Op

LEMMA StacksRequest ==
  ASSUME Stacks, NEW t \in Threads, NEW f \in Flags, NEW v \in BOOLEAN,
         Request(t, f, v)
  PROVE  Stacks'
<1> DEFINE op == SetOp(f, v)
           r == <<op>>
<1>1. op \in Op /\ op.flag = f /\ ~op.init /\ op.commit /\ op.pc = "decide"
  BY DEF SetOp, Op
<1>2. f \in Supported /\ t # "boot" /\ up = "up"
  <2>1. up = "up" /\ f \in Settable(t) /\ t \in {"boot", "dml", "sysevent", "webconfig"}
    BY DEF Request, Threads
  <2>2. CASE t = "dml"
    BY <2>1, <2>2 DEF Settable
  <2>3. CASE t = "sysevent"
    BY <2>1, <2>3 DEF Settable, Supported
  <2>4. CASE t = "webconfig"
    BY <2>1, <2>4 DEF Settable, Supported
  <2>5. CASE t = "boot"
    BY <2>1, <2>5 DEF Settable
  <2> QED
    BY <2>1, <2>2, <2>3, <2>4, <2>5
<1>3. todo' = [todo EXCEPT ![t] = r]
  BY DEF Request
<1> HIDE DEF op
<1>4. r \in Seq(Op) /\ Len(r) = 1 /\ r[1] = op /\ DOMAIN r = {1} /\ r # <<>>
  BY <1>1
<1> HIDE DEF r
<1>5. Shape(r) /\ InOrder(r) /\ \A k \in DOMAIN r : OpOK(t, r[k])
  BY <1>1, <1>2, <1>4 DEF Shape, Alone, WaitsFrom, InOrder, OpOK
<1>6. todo' \in [Threads -> Seq(Op)] /\ OpsOK' /\ Shapes'
  BY <1>3, <1>4, <1>5, NewStack
<1>7. FieldsOK'
  BY <1>6 DEF Request, Stacks, FieldsOK, Settled, Quiet
<1>8. Phases'
  BY <1>2, <1>3 DEF Request, Stacks, FieldsOK, Phases
<1> QED
  BY <1>6, <1>7, <1>8 DEF Request, Stacks, NoGre

LEMMA StacksBoot == Stacks /\ Boot => Stacks'
<1> SUFFICES ASSUME Stacks, Boot
             PROVE  Stacks'
  OBVIOUS
<1> DEFINE N == Len(BootOrder)
           r == [i \in 1 .. N |->
                   [SetOp(BootOrder[i], FALSE) EXCEPT !.init = TRUE, !.pc = "load"]]
<1>1. BootOrder \in Seq(Supported) /\ N \in Nat
      /\ \A i, j \in 1 .. N : i < j => Rank[BootOrder[i]] < Rank[BootOrder[j]]
  BY BootOrderSorted DEF Sorted
<1>2. Supported \subseteq Flags
  BY DEF Supported
<1>3. todo' = [todo EXCEPT !["boot"] = r]
  BY DEF Boot
<1>4. \A i \in 1 .. N : BootOrder[i] \in Supported
  BY <1>1
<1>5. \A i \in 1 .. N :
        /\ r[i] \in Op /\ r[i].flag = BootOrder[i]
        /\ r[i].init /\ r[i].pc = "load"
  BY <1>2, <1>4 DEF SetOp, Op
<1>6. DOMAIN r = 1 .. N
  OBVIOUS
<1>7. r \in Seq(Op)
  <2>1. r \in [1 .. N -> Op]
    BY <1>5
  <2> HIDE DEF N, r
  <2> QED
    BY <1>1, <2>1
<1>8. r = <<>> \/ (r # <<>> /\ 1 \in DOMAIN r)
  <2> HIDE DEF r
  <2> QED
    BY <1>7
<1> HIDE DEF r, N
<1>9. Shape(r) /\ InOrder(r) /\ \A k \in DOMAIN r : OpOK("boot", r[k])
  BY <1>1, <1>4, <1>5, <1>6, <1>8 DEF Shape, Alone, WaitsFrom, InOrder, OpOK
<1>10. "boot" \in Threads
  BY DEF Threads
<1>11. todo' \in [Threads -> Seq(Op)] /\ OpsOK' /\ Shapes'
  BY <1>3, <1>7, <1>9, <1>10, NewStack
<1>12. Phases'
  BY <1>3, <1>10 DEF Boot, Stacks, FieldsOK, Phases
<1> QED
  BY <1>11, <1>12 DEF Boot, Stacks, FieldsOK, NoGre

LEMMA StacksLoad == Stacks /\ Load => Stacks'
<1> SUFFICES ASSUME Stacks, Load
             PROVE  Stacks'
  OBVIOUS
<1>1. "boot" \in Threads /\ Busy("boot")
  BY DEF Load, At, Threads
<1> DEFINE old == todo["boot"][1]
<1>2. /\ old = Head(todo["boot"]) /\ old \in Op /\ OpOK("boot", old)
      /\ Shape(todo["boot"]) /\ up = "boot"
  BY <1>1, BusyThread
<1>3. old.pc = "load"
  BY <1>2 DEF Load, At
<1>4. old.init
  BY <1>1, <1>2, <1>3 DEF Busy, Shape, Alone, AfterGre, AfterOvs, TurningOff
<1>5. PICK v \in BOOLEAN, c \in BOOLEAN :
        todo' = [todo EXCEPT !["boot"] =
          <<[old EXCEPT !.want = v, !.commit = c, !.pc = "decide"]>>
            \o Tail(todo["boot"])]
  <2>1. store[old.flag] \in BOOLEAN
    BY <1>2 DEF Stacks, FieldsOK, Op
  <2>2. todo \in [Threads -> Seq(Op)]
    BY DEF Stacks, FieldsOK
  <2> QED
    BY <1>2, <2>1, <2>2 DEF Load, Default
<1> DEFINE op == [old EXCEPT !.want = v, !.commit = c, !.pc = "decide"]
<1>6. op \in Op /\ op.flag = old.flag /\ op.init = old.init /\ op.pc = "decide"
  BY <1>2 DEF Op
<1>7. todo' = [todo EXCEPT !["boot"] = <<op>> \o Tail(todo["boot"])]
  BY <1>5
<1> HIDE DEF op
<1>8. OpOK("boot", op)
  BY <1>2, <1>4, <1>6 DEF OpOK
<1>9. \A f \in {"gre", "ovs"} : ~TurningOff(old, f)
  BY <1>3 DEF TurningOff
<1>10. /\ todo' \in [Threads -> Seq(Op)] /\ OpsOK' /\ Shapes'
       /\ \A u \in Threads : todo'[u] = <<>> <=> todo[u] = <<>>
  BY <1>1, <1>6, <1>7, <1>8, <1>9, Changed
<1> QED
  BY <1>1, <1>10 DEF Load, Stacks, FieldsOK, Phases, NoGre

(* The operation a decision leaves, with what it put on top of it.         *)
Decided(op, seen) == [op EXCEPT !.want = Granted(op, seen), !.pc = "store"]

LEMMA DecidedType ==
  ASSUME NEW op \in Op, NEW seen \in [Flags -> BOOLEAN]
  PROVE  /\ Decided(op, seen) \in Op
         /\ Decided(op, seen).flag = op.flag
         /\ Decided(op, seen).init = op.init
         /\ Decided(op, seen).commit = op.commit
         /\ Decided(op, seen).pc = "store"
         /\ Decided(op, seen).want = Granted(op, seen)
         /\ Decided(op, seen).want => op.want
<1>1. Granted(op, seen) \in BOOLEAN /\ (Granted(op, seen) => op.want)
  BY GrantedType
<1> QED
  BY <1>1 DEF Decided, Op

(* The three outcomes of a decision.                                       *)
LEMMA DecideCases ==
  ASSUME Stacks, NEW t \in Threads, Decide(t)
  PROVE  LET op == todo[t][1]
         IN \E seen \in [Flags -> BOOLEAN] :
              /\ undisturbed' => undisturbed /\ seen = store
              /\ \/ ~op.init /\ seen[op.flag] = op.want /\ Pop(t)
                 \/ /\ up' = up
                    /\ First(t, op, seen) = <<>>
                    /\ op.init \/ seen[op.flag] # op.want
                    /\ todo' = [todo EXCEPT ![t] =
                                  <<Decided(op, seen)>> \o Tail(todo[t])]
                 \/ /\ up' = up /\ XB3
                    /\ op.flag = "ovs" /\ op.want /\ seen["mesh"]
                    /\ todo' = [todo EXCEPT ![t] =
                                  <<SetOp("gre", FALSE)>> \o <<Decided(op, seen)>>
                                    \o Tail(todo[t])]
                 \/ /\ up' = up /\ XB3
                    /\ op.flag = "mesh" /\ ~op.want
                    /\ todo' = [todo EXCEPT ![t] =
                                  <<SetOp("ovs", FALSE), SetOp("gre", FALSE)>>
                                    \o <<Decided(op, seen)>> \o Tail(todo[t])]
<1> DEFINE op == todo[t][1]
<1>0. Busy(t) /\ store \in [Flags -> BOOLEAN] /\ todo \in [Threads -> Seq(Op)]
      /\ undisturbed \in BOOLEAN
  BY DEF Decide, At, Stacks, FieldsOK
<1>1. /\ todo[t] \in Seq(Op) /\ todo[t] # <<>>
      /\ op = Head(todo[t]) /\ op \in Op
  BY <1>0, BusyThread
<1>2. PICK seen \in Views :
        /\ undisturbed' = (undisturbed /\ seen = store)
        /\ \/ ~op.init /\ seen[op.flag] = op.want /\ Pop(t)
           \/ /\ op.init \/ seen[op.flag] # op.want
              /\ todo' = [todo EXCEPT ![t] =
                   First(t, op, seen)
                   \o <<[op EXCEPT !.want = Granted(op, seen), !.pc = "store"]>>
                   \o Tail(@)]
              /\ UNCHANGED up
  BY <1>1 DEF Decide
<1>3. seen \in [Flags -> BOOLEAN]
  BY <1>0, ViewType
<1>4. undisturbed' => undisturbed /\ seen = store
  BY <1>0, <1>2
<1>5. CASE ~op.init /\ seen[op.flag] = op.want /\ Pop(t)
  BY <1>3, <1>4, <1>5
<1>6. CASE /\ op.init \/ seen[op.flag] # op.want
           /\ todo' = [todo EXCEPT ![t] =
                First(t, op, seen)
                \o <<[op EXCEPT !.want = Granted(op, seen), !.pc = "store"]>>
                \o Tail(@)]
           /\ UNCHANGED up
  <2> DEFINE rest == <<Decided(op, seen)>> \o Tail(todo[t])
  <2>1. todo' = [todo EXCEPT ![t] = First(t, op, seen) \o <<Decided(op, seen)>>
                                      \o Tail(todo[t])]
    BY <1>0, <1>6 DEF Decided
  <2>2. Decided(op, seen) \in Op
    BY <1>1, <1>3, DecidedType
  <2>3. CASE First(t, op, seen) = <<>>
    <3>1. <<>> \o <<Decided(op, seen)>> = <<Decided(op, seen)>>
      BY <2>2
    <3>2. todo' = [todo EXCEPT ![t] = rest]
      BY <2>1, <2>3, <3>1
    <3> HIDE DEF rest
    <3> QED
      BY <1>3, <1>4, <1>6, <2>3, <3>2 DEF rest
  <2>4. CASE /\ First(t, op, seen) # <<>>
             /\ op.flag = "mesh" /\ ~op.want
    <3>1. XB3 /\ First(t, op, seen) = <<SetOp("ovs", FALSE), SetOp("gre", FALSE)>>
      BY <2>4 DEF First
    <3> QED
      BY <1>3, <1>4, <1>6, <2>1, <2>4, <3>1
  <2>5. CASE /\ First(t, op, seen) # <<>>
             /\ ~(op.flag = "mesh" /\ ~op.want)
    <3>1. XB3 /\ op.flag = "ovs" /\ op.want /\ seen["mesh"]
          /\ First(t, op, seen) = <<SetOp("gre", FALSE)>>
      BY <2>5 DEF First
    <3> QED
      BY <1>3, <1>4, <1>6, <2>1, <2>5, <3>1
  <2> QED
    BY <2>3, <2>4, <2>5
<1> QED
  BY <1>2, <1>5, <1>6

LEMMA StacksDecide ==
  ASSUME Stacks, NEW t \in Threads, Decide(t)
  PROVE  Stacks'
<1> DEFINE s == todo[t]
           op == s[1]
<1>0. Busy(t) /\ op.pc = "decide"
  <2>1. Busy(t)
    BY DEF Decide, At
  <2> QED
    BY <2>1, BusyThread DEF Decide, At
<1>1. /\ s \in Seq(Op) /\ s # <<>> /\ op \in Op
      /\ Shape(s) /\ InOrder(s)
      /\ \A k \in DOMAIN s : OpOK(t, s[k])
      /\ OpOK(t, op)
      /\ up = IF t = "boot" THEN "boot" ELSE "up"
      /\ DOMAIN s = 1 .. Len(s) /\ Len(s) \in Nat /\ Len(s) >= 1
  BY <1>0, BusyThread, PopStack
<1>2. UNCHANGED <<store, ram, enabling>>
  BY DEF Decide
<1>3. undisturbed' \in BOOLEAN
  BY DEF Decide, Stacks, FieldsOK
<1>4. PICK seen \in [Flags -> BOOLEAN] :
        \/ Pop(t)
        \/ /\ up' = up
           /\ todo' = [todo EXCEPT ![t] =
                         <<Decided(op, seen)>> \o Tail(s)]
        \/ /\ up' = up /\ XB3
           /\ op.flag = "ovs" /\ op.want
           /\ todo' = [todo EXCEPT ![t] =
                         <<SetOp("gre", FALSE)>> \o <<Decided(op, seen)>>
                           \o Tail(s)]
        \/ /\ up' = up /\ XB3
           /\ op.flag = "mesh" /\ ~op.want
           /\ todo' = [todo EXCEPT ![t] =
                         <<SetOp("ovs", FALSE), SetOp("gre", FALSE)>>
                           \o <<Decided(op, seen)>> \o Tail(s)]
  BY DecideCases
<1> DEFINE new == Decided(op, seen)
<1>5. /\ new \in Op /\ new.flag = op.flag /\ new.init = op.init
      /\ new.commit = op.commit /\ new.pc = "store"
      /\ new.want => op.want
  BY <1>1, DecidedType
<1>6. OpOK(t, new)
  BY <1>1, <1>5 DEF OpOK
<1> DEFINE g == SetOp("gre", FALSE)
           o == SetOp("ovs", FALSE)
<1>7. /\ g \in Op /\ TurningOff(g, "gre") /\ g.pc = "decide"
      /\ o \in Op /\ TurningOff(o, "ovs") /\ o.pc = "decide"
      /\ XB3 => OpOK(t, g) /\ OpOK(t, o)
  BY FlagsAssumption DEF SetOp, Op, TurningOff, OpOK, Supported
<1>8. CASE Pop(t)
  <2>1. op.pc # "load"
    BY <1>0
  <2>2. /\ todo' \in [Threads -> Seq(Op)] /\ OpsOK' /\ Shapes'
        /\ up' \in {"boot", "up"}
        /\ up' # "boot" => todo'["boot"] = <<>>
        /\ up' # "up" => \A u \in Threads \ {"boot"} : todo'[u] = <<>>
    BY <1>0, <1>8, <2>1, Popped
  <2> QED
    BY <1>2, <1>3, <2>2 DEF Stacks, FieldsOK, Phases, NoGre
<1>9. CASE up' = up /\ todo' = [todo EXCEPT ![t] = <<new>> \o Tail(s)]
  <2>1. \A f \in {"gre", "ovs"} : TurningOff(op, f) => TurningOff(new, f)
    BY <1>5 DEF TurningOff
  <2> HIDE DEF new
  <2>2. /\ todo' \in [Threads -> Seq(Op)] /\ OpsOK' /\ Shapes'
        /\ \A u \in Threads : todo'[u] = <<>> <=> todo[u] = <<>>
    BY <1>0, <1>5, <1>6, <1>9, <2>1, Changed
  <2>3. "boot" \in Threads
    BY DEF Threads
  <2> QED
    BY <1>2, <1>3, <1>9, <2>2, <2>3 DEF Stacks, FieldsOK, Phases, NoGre
<1>10. ASSUME NEW r \in Seq(Op), up' = up, r # <<>>,
              todo' = [todo EXCEPT ![t] = r],
              Shape(r), InOrder(r), \A k \in DOMAIN r : OpOK(t, r[k])
       PROVE  Stacks'
  <2>1. todo' \in [Threads -> Seq(Op)] /\ OpsOK' /\ Shapes'
    BY <1>10, NewStack
  <2>2. \A u \in Threads : todo'[u] = <<>> <=> todo[u] = <<>>
    BY <1>1, <1>10 DEF Stacks, FieldsOK
  <2>3. "boot" \in Threads
    BY DEF Threads
  <2> QED
    BY <1>2, <1>3, <1>10, <2>1, <2>2, <2>3 DEF Stacks, FieldsOK, Phases, NoGre
<1>11. op.flag \in {"ovs", "mesh"} /\ (op.flag = "ovs" => op.want) => Alone(s)
  BY <1>1 DEF Shape, AfterGre, AfterOvs, TurningOff
<1> HIDE DEF new, g, o
<1>12. CASE /\ up' = up /\ XB3
            /\ op.flag = "ovs" /\ op.want
            /\ todo' = [todo EXCEPT ![t] = <<g>> \o <<new>> \o Tail(s)]
  <2> DEFINE r == <<g>> \o <<new>> \o Tail(s)
  <2>1. AfterGre(r) /\ InOrder(r)
    BY <1>1, <1>5, <1>7, <1>11, <1>12, PushShape
  <2>2. /\ r \in Seq(Op) /\ Len(r) = 1 + Len(s) /\ r # <<>>
        /\ r[1] = g /\ r[2] = new
        /\ \A k \in 2 .. Len(s) : r[1 + k] = s[k]
    BY <1>1, <1>5, <1>7
  <2>3. todo' = [todo EXCEPT ![t] = r]
    BY <1>12
  <2> HIDE DEF r, s
  <2>4. ASSUME NEW k \in DOMAIN r
        PROVE  OpOK(t, r[k])
    <3>1. k = 1 \/ k = 2 \/ (k - 1 \in 2 .. Len(s) /\ k = 1 + (k - 1))
      BY <1>1, <2>2
    <3> QED
      BY <1>1, <1>6, <1>7, <1>12, <2>2, <3>1
  <2> QED
    BY <1>10, <1>12, <2>1, <2>2, <2>3, <2>4 DEF Shape
<1>13. CASE /\ up' = up /\ XB3
            /\ op.flag = "mesh" /\ ~op.want
            /\ todo' = [todo EXCEPT ![t] = <<o, g>> \o <<new>> \o Tail(s)]
  <2> DEFINE r == <<o, g>> \o <<new>> \o Tail(s)
  <2>1. AfterOvs(r) /\ InOrder(r)
    BY <1>1, <1>5, <1>7, <1>11, <1>13, PushShape
  <2>2. /\ r \in Seq(Op) /\ Len(r) = 2 + Len(s) /\ r # <<>>
        /\ r[1] = o /\ r[2] = g /\ r[3] = new
        /\ \A k \in 2 .. Len(s) : r[2 + k] = s[k]
    BY <1>1, <1>5, <1>7
  <2>3. todo' = [todo EXCEPT ![t] = r]
    BY <1>13
  <2> HIDE DEF r, s
  <2>4. ASSUME NEW k \in DOMAIN r
        PROVE  OpOK(t, r[k])
    <3>1. k = 1 \/ k = 2 \/ k = 3 \/ (k - 2 \in 2 .. Len(s) /\ k = 2 + (k - 2))
      BY <1>1, <2>2
    <3> QED
      BY <1>1, <1>6, <1>7, <1>13, <2>2, <3>1
  <2> QED
    BY <1>10, <1>13, <2>1, <2>2, <2>3, <2>4 DEF Shape
<1> QED
  BY <1>4, <1>8, <1>9, <1>12, <1>13 DEF new, g, o

LEMMA StacksStore ==
  ASSUME Stacks, NEW t \in Threads, Store(t) \/ StoreFails(t)
  PROVE  Stacks'
<1> DEFINE op == todo[t][1]
<1>0. Busy(t) /\ op = Head(todo[t]) /\ op.pc = "store" /\ op \in Op
      /\ OpOK(t, op)
  <2>1. Busy(t)
    BY DEF Store, StoreFails, At
  <2> QED
    BY <2>1, BusyThread DEF Store, StoreFails, At
<1> HIDE DEF op
<1>1. /\ store' \in [Flags -> BOOLEAN] /\ ram' = ram /\ enabling' = enabling
      /\ undisturbed' \in BOOLEAN
      /\ ~XB3 => store'["gre"] = store["gre"]
  <2>1. store' = store \/ store' = [store EXCEPT ![op.flag] = op.want]
    BY <1>0 DEF Store, StoreFails
  <2>2. op.flag \in Flags /\ op.want \in BOOLEAN /\ (~XB3 => op.flag # "gre")
    BY <1>0, FlagsAssumption DEF Op, OpOK, Supported
  <2> QED
    BY <2>1, <2>2, FlagsAssumption DEF Store, StoreFails, Stacks, FieldsOK
<1>2. CASE Advance(t, "publish") /\ up' = up
  <2>1. /\ todo' \in [Threads -> Seq(Op)] /\ OpsOK' /\ Shapes'
        /\ \A u \in Threads : todo'[u] = <<>> <=> todo[u] = <<>>
    BY <1>0, <1>2, Advanced DEF op
  <2>2. "boot" \in Threads
    BY DEF Threads
  <2> QED
    BY <1>1, <1>2, <2>1, <2>2 DEF Stacks, FieldsOK, Phases, NoGre
<1>3. CASE Pop(t)
  <2>1. /\ todo' \in [Threads -> Seq(Op)] /\ OpsOK' /\ Shapes'
        /\ up' \in {"boot", "up"}
        /\ up' # "boot" => todo'["boot"] = <<>>
        /\ up' # "up" => \A u \in Threads \ {"boot"} : todo'[u] = <<>>
    BY <1>0, <1>3, Popped DEF op
  <2> QED
    BY <1>1, <2>1 DEF Stacks, FieldsOK, Phases, NoGre
<1> QED
  BY <1>2, <1>3 DEF Store, StoreFails

LEMMA StacksPublish ==
  ASSUME Stacks, NEW t \in Threads, Publish(t)
  PROVE  Stacks'
<1> DEFINE op == todo[t][1]
<1>0. Busy(t) /\ op = Head(todo[t]) /\ op.pc = "publish" /\ op \in Op
      /\ OpOK(t, op)
  <2>1. Busy(t)
    BY DEF Publish, At
  <2> QED
    BY <2>1, BusyThread DEF Publish, At
<1>1. /\ todo' \in [Threads -> Seq(Op)] /\ OpsOK' /\ Shapes'
      /\ up' \in {"boot", "up"}
      /\ up' # "boot" => todo'["boot"] = <<>>
      /\ up' # "up" => \A u \in Threads \ {"boot"} : todo'[u] = <<>>
  BY <1>0, Popped DEF Publish
<1> HIDE DEF op
<1>2. /\ ram' \in [Flags -> BOOLEAN] /\ enabling' \in BOOLEAN
      /\ store' = store /\ undisturbed' = undisturbed
      /\ ~XB3 => ram'["gre"] = ram["gre"]
  <2>1. op.flag \in Flags /\ op.want \in BOOLEAN /\ (~XB3 => op.flag # "gre")
    BY <1>0, FlagsAssumption DEF Op, OpOK, Supported
  <2> QED
    BY <1>0, <2>1, FlagsAssumption DEF Publish, Stacks, FieldsOK
<1> QED
  BY <1>1, <1>2 DEF Stacks, FieldsOK, Phases, NoGre

(* The stacks are always as described.                                     *)
LEMMA StacksInit == Init => Stacks
<1> SUFFICES ASSUME Init
             PROVE  Stacks
  OBVIOUS
<1>1. \A t \in Threads : todo[t] = <<>>
  BY DEF Init
<1>2. FieldsOK
  <2>1. [t \in Threads |-> <<>>] \in [Threads -> Seq(Op)]
    OBVIOUS
  <2>2. [f \in Flags |-> FALSE] \in [Flags -> BOOLEAN]
    OBVIOUS
  <2> QED
    BY <2>1, <2>2 DEF Init, FieldsOK
<1> QED
  BY <1>1, <1>2, FlagsAssumption
     DEF Init, Stacks, OpsOK, Shapes, Shape, InOrder, Phases, NoGre, Threads

LEMMA StacksStep == Stacks /\ [Next]_vars => Stacks'
<1> SUFFICES ASSUME Stacks, [Next]_vars
             PROVE  Stacks'
  OBVIOUS
<1>1. CASE EnablingEnds
  BY <1>1, FlagsAssumption
     DEF EnablingEnds, Stacks, FieldsOK, OpsOK, Shapes, Phases, NoGre, Threads
<1>2. CASE Crash
  <2>1. \A t \in Threads : todo'[t] = <<>>
    BY <1>2 DEF Crash
  <2>2. FieldsOK'
    <3>1. [t \in Threads |-> <<>>] \in [Threads -> Seq(Op)]
      OBVIOUS
    <3>2. [f \in Flags |-> FALSE] \in [Flags -> BOOLEAN]
      OBVIOUS
    <3> QED
      BY <1>2, <3>1, <3>2 DEF Crash, Stacks, FieldsOK
  <2> QED
    BY <1>2, <2>1, <2>2, FlagsAssumption
       DEF Crash, Stacks, OpsOK, Shapes, Shape, InOrder, Phases, NoGre, Threads
<1>3. CASE UNCHANGED vars
  BY <1>3 DEF vars, Stacks, FieldsOK, OpsOK, Shapes, Phases, NoGre
<1> QED
  BY <1>1, <1>2, <1>3, StacksRequest, StacksBoot, StacksLoad, StacksDecide,
     StacksStore, StacksPublish DEF Next

LEMMA AlwaysStacks == Spec => []Stacks
  BY StacksInit, StacksStep, PTL DEF Spec

(* Every flag stays a flag, and no setter ends up under more than two      *)
(* others it called, whatever fails and whoever overlaps.                  *)
THEOREM TypeCorrect == Spec => []TypeOK
<1>1. Stacks => TypeOK
  <2> SUFFICES ASSUME Stacks, NEW t \in Threads,
                      NEW k \in DOMAIN todo[t], k > 3
               PROVE  todo[t][k].init
    BY DEF Stacks, TypeOK
  <2> DEFINE s == todo[t]
  <2>1. s \in Seq(Op) /\ Shape(s) /\ k \in DOMAIN s
    BY DEF Stacks, FieldsOK, Shapes
  <2>2. k >= 2 /\ k >= 3 /\ k >= 4 /\ s # <<>>
    BY <2>1
  <2> HIDE DEF s
  <2>3. s[k].init
    BY <2>1, <2>2 DEF Shape, Alone, AfterGre, AfterOvs, WaitsFrom
  <2> QED
    BY <2>3 DEF s
<1> QED
  BY <1>1, AlwaysStacks, PTL

-----------------------------------------------------------------------------
(* Every step of a thread that runs alone keeps its stack fitting.         *)

Settings == [Flags -> BOOLEAN]

Proper(t, s) ==
  /\ s \in Seq(Op) /\ s # <<>>
  /\ Shape(s) /\ InOrder(s)
  /\ \A k \in DOMAIN s : OpOK(t, s[k])

LEMMA ProperStack ==
  ASSUME NEW t, NEW s, Proper(t, s)
  PROVE  /\ DOMAIN s = 1 .. Len(s) /\ Len(s) \in Nat /\ Len(s) >= 1
         /\ 1 \in DOMAIN s /\ OpOK(t, s[1])
         /\ \A k \in DOMAIN s : s[k] \in Op
         /\ s[1].want \in BOOLEAN /\ s[1].flag \in Flags
<1>1. s \in Seq(Op) /\ s # <<>> /\ \A k \in DOMAIN s : OpOK(t, s[k])
  BY DEF Proper
<1>2. DOMAIN s = 1 .. Len(s) /\ Len(s) \in Nat /\ Len(s) >= 1
  BY <1>1
<1>3. \A k \in DOMAIN s : s[k] \in Op
  BY <1>1, <1>2
<1>4. 1 \in DOMAIN s
  BY <1>2
<1>5. s[1].want \in BOOLEAN /\ s[1].flag \in Flags
  BY <1>3, <1>4 DEF Op
<1> QED
  BY <1>1, <1>2, <1>3, <1>4, <1>5

(* Under the top only what waits for the boot, a setter that is to be      *)
(* called, or the operation that called the top one, of another flag.      *)
LEMMA UnderTop ==
  ASSUME NEW t, NEW s, Proper(t, s), NEW k \in DOMAIN s, k # 1
  PROVE  \/ s[k].pc = "load"
         \/ s[k].pc = "decide" /\ s[k].commit
         \/ /\ s[k].pc = "store" /\ s[k].flag # s[1].flag
            /\ s[k].flag \in {"ovs", "mesh"} /\ s[1].flag \in {"gre", "ovs"}
<1>1. k \in Nat /\ k >= 2
  BY ProperStack
<1>2. CASE Alone(s)
  BY <1>1, <1>2 DEF Alone, WaitsFrom
<1>3. CASE AfterGre(s)
  BY <1>1, <1>3 DEF AfterGre, WaitsFrom, TurningOff
<1>4. CASE AfterOvs(s)
  BY <1>1, <1>4 DEF AfterOvs, WaitsFrom, TurningOff
<1> QED
  BY <1>2, <1>3, <1>4 DEF Proper, Shape

(* The boot is not about to set a flag it has passed.                      *)
LEMMA BootPassed ==
  ASSUME NEW t, NEW s, Proper(t, s), s[1].init, NEW f \in AllFlags,
         Rank[f] < Rank[s[1].flag]
  PROVE  ~ToBoot(s, f)
<1> SUFFICES ASSUME NEW k \in DOMAIN s, s[k].init, s[k].flag = f
             PROVE  FALSE
  BY DEF ToBoot
<1>1. \A g \in AllFlags : Rank[g] \in Nat
  BY DEF AllFlags, Rank
<1>2. s[1].flag \in AllFlags
  BY ProperStack, FlagsAssumption
<1>3. k # 1
  BY <1>1, <1>2
<1>4. 1 < k /\ 1 \in DOMAIN s
  BY <1>3, ProperStack
<1>5. Rank[s[1].flag] < Rank[f]
  BY <1>4 DEF Proper, InOrder
<1> QED
  BY <1>1, <1>2, <1>5

(* What the boot has to set, when the top operation changes,               *)
LEMMA ToBootChanged ==
  ASSUME NEW t, NEW s, Proper(t, s), NEW op \in Op,
         op.flag = s[1].flag, op.init = s[1].init
  PROVE  \A f : ToBoot(<<op>> \o Tail(s), f) <=> ToBoot(s, f)
<1> DEFINE r == <<op>> \o Tail(s)
<1>1. DOMAIN r = DOMAIN s /\ r[1] = op
      /\ \A k \in DOMAIN s : k # 1 => r[k] = s[k]
  BY ChangeTop DEF Proper
<1> HIDE DEF r
<1>2. \A k \in DOMAIN s : (r[k].init <=> s[k].init) /\ r[k].flag = s[k].flag
  BY <1>1
<1>3. \A f : ToBoot(r, f) <=> ToBoot(s, f)
  BY <1>1, <1>2 DEF ToBoot
<1> QED
  BY <1>3 DEF r

(* and when it is done.                                                    *)
LEMMA ToBootPopped ==
  ASSUME NEW t, NEW s, Proper(t, s)
  PROVE  /\ \A f : ToBoot(Tail(s), f) => ToBoot(s, f)
         /\ \A f : ToBoot(s, f) => \/ ToBoot(Tail(s), f)
                                   \/ s[1].init /\ s[1].flag = f
<1> DEFINE r == Tail(s)
<1>1. /\ r \in Seq(Op) /\ Len(r) = Len(s) - 1
      /\ \A k \in DOMAIN r : k + 1 \in DOMAIN s /\ r[k] = s[k + 1]
  BY PopStack DEF Proper
<1>2. DOMAIN r = 1 .. Len(r)
  BY <1>1
<1> HIDE DEF r
<1>3. ASSUME NEW k \in DOMAIN s, k # 1
      PROVE  k - 1 \in DOMAIN r /\ r[k - 1] = s[k]
  <2>1. k - 1 \in DOMAIN r /\ (k - 1) + 1 = k
    BY <1>1, <1>2, <1>3, ProperStack
  <2> QED
    BY <1>1, <2>1
<1>4. \A f : ToBoot(r, f) => ToBoot(s, f)
  BY <1>1 DEF ToBoot
<1>5. \A f : ToBoot(s, f) => ToBoot(r, f) \/ (s[1].init /\ s[1].flag = f)
  BY <1>3 DEF ToBoot
<1> QED
  BY <1>4, <1>5 DEF r

(* Store: nothing the operation relied on changes under it.                *)
LEMMA FitsStore ==
  ASSUME NEW t, NEW s, Proper(t, s), s[1].pc = "store",
         NEW st \in Settings, NEW rm \in Settings, Fits(st, rm, t, s),
         NEW op \in Op,
         op.flag = s[1].flag, op.want = s[1].want, op.init = s[1].init,
         op.commit = s[1].commit, op.pc = "publish",
         NEW st2 \in Settings,
         \/ st2 = [st EXCEPT ![op.flag] = op.want]
         \/ st2 = st /\ ~op.commit
  PROVE  Fits(st2, rm, t, <<op>> \o Tail(s))
<1> DEFINE r == <<op>> \o Tail(s)
<1>1. /\ DOMAIN r = DOMAIN s /\ Len(r) = Len(s) /\ r[1] = op /\ r # <<>>
      /\ \A k \in DOMAIN s : k # 1 => r[k] = s[k]
  BY ChangeTop DEF Proper
<1>2. \A f : ToBoot(r, f) <=> ToBoot(s, f)
  BY ToBootChanged
<1> HIDE DEF r
<1>3. /\ DOMAIN s = 1 .. Len(s) /\ Len(s) \in Nat /\ Len(s) >= 1
      /\ 1 \in DOMAIN s
      /\ op.flag \in Flags /\ op.want \in BOOLEAN
  BY ProperStack
<1>4. /\ \A f \in Flags \ {op.flag} : st2[f] = st[f]
      /\ op.want => st2[op.flag]
      /\ op.flag # "opensync" => st2[op.flag] = op.want
  <2>1. CASE st2 = [st EXCEPT ![op.flag] = op.want]
    BY <1>3, <2>1 DEF Settings
  <2>2. CASE st2 = st /\ ~op.commit
    <3>1. KeptIn(st, s[1])
      BY <1>3 DEF Fits, Operations
    <3> QED
      BY <2>2, <3>1 DEF KeptIn
  <2> QED
    BY <2>1, <2>2
<1>5. DecidedIn(st, rm, s[1])
  BY DEF Fits, Operations, Proper
<1>6. {"mesh", "ovs", "gre", "opensync"} \subseteq Flags
  BY FlagsAssumption
<1>7. ASSUME NEW k \in DOMAIN r
      PROVE  KeptIn(st2, r[k])
  <2>1. CASE k = 1
    BY <1>1, <1>4, <2>1 DEF KeptIn
  <2>2. CASE k # 1
    <3>1. r[k] = s[k] /\ KeptIn(st, s[k])
      BY <1>1, <2>2 DEF Fits, Operations
    <3>2. \/ s[k].pc = "load"
          \/ s[k].pc = "decide" /\ s[k].commit
          \/ /\ s[k].pc = "store" /\ s[k].flag # s[1].flag
             /\ s[k].flag \in {"ovs", "mesh"}
      BY <1>1, <2>2, UnderTop
    <3> QED
      BY <1>4, <1>6, <3>1, <3>2 DEF KeptIn
  <2> QED
    BY <2>1, <2>2
<1>8. DecidedIn(st2, rm, r[1])
  BY <1>1, <1>4, <1>5, <1>6 DEF DecidedIn
<1>9. ASSUME t = "webconfig", NEW k \in DOMAIN r, r[k].flag = "mesh"
      PROVE  r[k].want
  BY <1>1, <1>9 DEF Fits, Operations
<1>10. AfterGre(r) => UnderGre(st2, rm, r[2])
  <2> SUFFICES ASSUME AfterGre(r)
               PROVE  UnderGre(st2, rm, r[2])
    OBVIOUS
  <2>1. 2 \in DOMAIN s /\ r[2] = s[2] /\ op.flag = "gre"
    BY <1>1, <1>3 DEF AfterGre, TurningOff
  <2>2. WaitsFrom(s, 3)
    BY <1>1, <1>3 DEF AfterGre, WaitsFrom
  <2>3. TurningOff(s[1], "gre")
    BY <1>1 DEF AfterGre, TurningOff
  <2>4. AfterGre(s)
    BY <1>1, <2>1, <2>2, <2>3 DEF AfterGre
  <2>5. UnderGre(st, rm, s[2])
    BY <2>4 DEF Fits, Operations
  <2> QED
    BY <1>4, <1>6, <2>1, <2>5 DEF UnderGre
<1>11. Shown(st2, rm, r)
  <2>1. ASSUME NEW f \in Flags \ {"mesh"}, f # op.flag
        PROVE  \/ ToBoot(r, f) /\ ~rm[f]
               \/ IF f = "opensync" THEN rm[f] => st2[f] ELSE rm[f] = st2[f]
    BY <1>2, <1>4, <2>1 DEF Fits, Shown, Publishing
  <2>2. Publishing(r, op.flag)
    BY <1>1 DEF Publishing
  <2> QED
    BY <2>1, <2>2 DEF Shown
<1>12. Accelerators(st2, r)
  BY <1>2, <1>4, <1>5, <1>6 DEF Fits, Accelerators, DecidedIn
<1>13. Followers(st2, rm, r)
  BY <1>2, <1>4, <1>5, <1>6 DEF Fits, Followers, DecidedIn
<1> QED
  BY <1>7, <1>8, <1>9, <1>10, <1>11, <1>12, <1>13 DEF Fits, Operations, r

(* Publish.                                                                *)
LEMMA FitsPublish ==
  ASSUME NEW t, NEW s, Proper(t, s), s[1].pc = "publish",
         NEW st \in Settings, NEW rm \in Settings, Fits(st, rm, t, s),
         NEW rm2 \in Settings,
         rm2 = IF s[1].flag = "mesh" THEN rm
                                     ELSE [rm EXCEPT ![s[1].flag] = s[1].want]
  PROVE  Fits(st, rm2, t, Tail(s))
<1> DEFINE r == Tail(s)
<1>1. /\ r \in Seq(Op) /\ Len(r) = Len(s) - 1
      /\ \A k \in DOMAIN r : k + 1 \in DOMAIN s /\ r[k] = s[k + 1]
  BY PopStack DEF Proper
<1>2. /\ \A f : ToBoot(r, f) => ToBoot(s, f)
      /\ \A f : ToBoot(s, f) => \/ ToBoot(r, f)
                                \/ s[1].init /\ s[1].flag = f
  BY ToBootPopped
<1> HIDE DEF r
<1>3. /\ DOMAIN s = 1 .. Len(s) /\ Len(s) \in Nat /\ Len(s) >= 1
      /\ 1 \in DOMAIN s
      /\ s[1].flag \in Flags /\ s[1].want \in BOOLEAN
      /\ DOMAIN r = 1 .. Len(r)
  BY <1>1, ProperStack
<1>4. /\ \A f \in Flags \ {s[1].flag} : rm2[f] = rm[f]
      /\ s[1].flag # "mesh" => rm2[s[1].flag] = s[1].want
      /\ s[1].flag = "mesh" => rm2 = rm
  BY <1>3 DEF Settings
<1>5. DecidedIn(st, rm, s[1]) /\ KeptIn(st, s[1])
  BY <1>3 DEF Fits, Operations, Proper
<1>6. {"mesh", "ovs", "gre", "opensync"} \subseteq Flags
  BY FlagsAssumption
<1>7. \A k \in DOMAIN r : KeptIn(st, r[k])
  BY <1>1 DEF Fits, Operations
<1>8. ASSUME t = "webconfig", NEW k \in DOMAIN r, r[k].flag = "mesh"
      PROVE  r[k].want
  BY <1>1, <1>8 DEF Fits, Operations
<1>9. ASSUME r # <<>>
      PROVE  DecidedIn(st, rm2, r[1])
  <2>1. 2 \in DOMAIN s /\ r[1] = s[2]
    BY <1>1, <1>3, <1>9
  <2>2. s[2].pc # "publish"
    BY <2>1, UnderTop
  <2>3. CASE s[2].pc = "store"
    <3>1. AfterGre(s)
      BY <2>1, <2>3 DEF Proper, Shape, Alone, WaitsFrom, AfterOvs
    <3>2. UnderGre(st, rm, s[2]) /\ s[1].flag = "gre" /\ ~s[1].want
          /\ s[2].flag \in {"ovs", "mesh"} /\ XB3
      BY <3>1 DEF Fits, Operations, AfterGre, TurningOff
    <3>3. ~st["gre"] /\ ~rm2["gre"]
      BY <1>4, <1>5, <3>2 DEF KeptIn
    <3> QED
      BY <1>4, <1>6, <2>1, <3>2, <3>3 DEF UnderGre, DecidedIn
  <2>4. CASE s[2].pc \notin {"store", "publish"}
    BY <2>1, <2>4 DEF DecidedIn
  <2> QED
    BY <2>2, <2>3, <2>4
<1>10. AfterGre(r) => UnderGre(st, rm2, r[2])
  <2> SUFFICES ASSUME AfterGre(r)
               PROVE  UnderGre(st, rm2, r[2])
    OBVIOUS
  <2>1. /\ Len(s) >= 3 /\ r[1] = s[2] /\ r[2] = s[3]
        /\ TurningOff(s[2], "gre") /\ s[3].pc = "store"
    BY <1>1, <1>3 DEF AfterGre
  <2>2. AfterOvs(s)
    BY <1>3, <2>1 DEF Proper, Shape, Alone, AfterGre, WaitsFrom, TurningOff
  <2>3. s[1].flag = "ovs" /\ ~s[1].want /\ s[3].flag = "mesh"
    BY <2>2 DEF AfterOvs, TurningOff
  <2>4. ~st["ovs"] /\ ~rm2["ovs"]
    BY <1>4, <1>5, <2>3 DEF KeptIn
  <2> QED
    BY <2>1, <2>3, <2>4 DEF UnderGre
<1>11. Shown(st, rm2, r)
  <2>1. ASSUME NEW f \in Flags \ {"mesh"}, f # s[1].flag
        PROVE  \/ ToBoot(r, f) /\ ~rm2[f]
               \/ IF f = "opensync" THEN rm2[f] => st[f] ELSE rm2[f] = st[f]
    BY <1>2, <1>4, <2>1 DEF Fits, Shown, Publishing
  <2>2. ASSUME NEW f \in Flags \ {"mesh"}, f = s[1].flag
        PROVE  IF f = "opensync" THEN rm2[f] => st[f] ELSE rm2[f] = st[f]
    BY <1>4, <1>5, <2>2 DEF KeptIn
  <2> QED
    BY <2>1, <2>2 DEF Shown
<1>12. Accelerators(st, r)
  BY <1>2, <1>5, <1>6 DEF Fits, Accelerators, DecidedIn, KeptIn
<1>13. Followers(st, rm2, r)
  <2> SUFFICES ASSUME XB3, NEW f \in {"ovs", "gre"}, st[f] \/ rm2[f],
                      ~ToBoot(r, "mesh")
               PROVE  st["mesh"]
    BY DEF Followers
  <2>1. CASE f = s[1].flag /\ s[1].want
    BY <1>5, <2>1 DEF DecidedIn
  <2>2. CASE ~(f = s[1].flag /\ s[1].want)
    <3>1. st[f] \/ rm[f]
      BY <1>4, <1>6, <2>2
    <3>2. CASE ToBoot(s, "mesh")
      <4>1. s[1].flag = "mesh"
        BY <1>2, <3>2
      <4> QED
        BY <1>5, <3>1, <4>1 DEF DecidedIn, KeptIn
    <3> QED
      BY <3>1, <3>2 DEF Fits, Followers
  <2> QED
    BY <2>1, <2>2
<1> QED
  BY <1>7, <1>8, <1>9, <1>10, <1>11, <1>12, <1>13 DEF Fits, Operations, r

(* Decide, when syscfg has the value already.                              *)
LEMMA FitsPop ==
  ASSUME NEW t, NEW s, Proper(t, s), s[1].pc = "decide", ~s[1].init,
         NEW st \in Settings, NEW rm \in Settings, Fits(st, rm, t, s),
         st[s[1].flag] = s[1].want
  PROVE  Fits(st, rm, t, Tail(s))
<1> DEFINE r == Tail(s)
<1>1. /\ r \in Seq(Op) /\ Len(r) = Len(s) - 1
      /\ \A k \in DOMAIN r : k + 1 \in DOMAIN s /\ r[k] = s[k + 1]
  BY PopStack DEF Proper
<1>2. \A f : ToBoot(r, f) <=> ToBoot(s, f)
  BY ToBootPopped
<1> HIDE DEF r
<1>3. /\ DOMAIN s = 1 .. Len(s) /\ Len(s) \in Nat /\ Len(s) >= 1
      /\ s[1].flag \in Flags /\ s[1].want \in BOOLEAN
      /\ DOMAIN r = 1 .. Len(r)
  BY <1>1, ProperStack
<1>4. Shown(st, rm, r)
  BY <1>2 DEF Fits, Shown, Publishing
<1>5. Accelerators(st, r) /\ Followers(st, rm, r)
  BY <1>2 DEF Fits, Accelerators, Followers
<1>6. {"mesh", "ovs", "gre", "opensync"} \subseteq Flags
  BY FlagsAssumption
<1>7. ASSUME NEW f \in {"ovs", "gre"}, s[1].flag = f, ~s[1].want
      PROVE  ~st[f] /\ ~rm[f]
  BY <1>6, <1>7 DEF Fits, Shown, Publishing
<1>8. \A k \in DOMAIN r : KeptIn(st, r[k])
  BY <1>1 DEF Fits, Operations
<1>9. ASSUME t = "webconfig", NEW k \in DOMAIN r, r[k].flag = "mesh"
      PROVE  r[k].want
  BY <1>1, <1>9 DEF Fits, Operations
<1>10. ASSUME r # <<>>
       PROVE  DecidedIn(st, rm, r[1])
  <2>1. 2 \in DOMAIN s /\ r[1] = s[2]
    BY <1>1, <1>3, <1>10
  <2>2. s[2].pc # "publish"
    BY <2>1, UnderTop
  <2>3. CASE s[2].pc = "store"
    <3>1. AfterGre(s)
      BY <2>1, <2>3 DEF Proper, Shape, Alone, WaitsFrom, AfterOvs
    <3>2. UnderGre(st, rm, s[2]) /\ s[1].flag = "gre" /\ ~s[1].want
          /\ s[2].flag \in {"ovs", "mesh"} /\ XB3
      BY <3>1 DEF Fits, Operations, AfterGre, TurningOff
    <3>3. ~st["gre"] /\ ~rm["gre"]
      BY <1>7, <3>2
    <3> QED
      BY <2>1, <3>2, <3>3 DEF UnderGre, DecidedIn
  <2>4. CASE s[2].pc \notin {"store", "publish"}
    BY <2>1, <2>4 DEF DecidedIn
  <2> QED
    BY <2>2, <2>3, <2>4
<1>11. AfterGre(r) => UnderGre(st, rm, r[2])
  <2> SUFFICES ASSUME AfterGre(r)
               PROVE  UnderGre(st, rm, r[2])
    OBVIOUS
  <2>1. /\ Len(s) >= 3 /\ r[1] = s[2] /\ r[2] = s[3]
        /\ TurningOff(s[2], "gre") /\ s[3].pc = "store"
    BY <1>1, <1>3 DEF AfterGre
  <2>2. AfterOvs(s)
    BY <1>3, <2>1 DEF Proper, Shape, Alone, AfterGre, WaitsFrom, TurningOff
  <2>3. s[1].flag = "ovs" /\ ~s[1].want /\ s[3].flag = "mesh"
    BY <2>2 DEF AfterOvs, TurningOff
  <2> QED
    BY <1>7, <2>1, <2>3 DEF UnderGre
<1> QED
  BY <1>4, <1>5, <1>8, <1>9, <1>10, <1>11 DEF Fits, Operations, r

(* What is granted of a flag that is not stored again is what syscfg has:  *)
(* at boot a flag finds those it depends on set.                           *)
LEMMA GrantedKept ==
  ASSUME NEW t, NEW s, Proper(t, s), s[1].pc = "decide",
         NEW st \in Settings, NEW rm \in Settings, Fits(st, rm, t, s),
         NEW new \in Op,
         new.flag = s[1].flag, new.commit = s[1].commit, new.pc = "store",
         new.want = Granted(s[1], st)
  PROVE  KeptIn(st, new)
<1> SUFFICES ASSUME ~s[1].commit
             PROVE  /\ new.want => st[new.flag]
                    /\ new.flag # "opensync" => new.want = st[new.flag]
  BY DEF KeptIn
<1> DEFINE op == s[1]
<1>1. op.init /\ op.flag \in Supported /\ op.flag \in Flags /\ op.want \in BOOLEAN
  BY ProperStack DEF OpOK
<1>2. /\ op.want => st[op.flag]
      /\ op.flag # "opensync" => op.want = st[op.flag]
  <2>1. KeptIn(st, op)
    BY ProperStack DEF Fits, Operations
  <2> QED
    BY <2>1 DEF KeptIn
<1>3. {"mesh", "ovs", "gre", "opensync"} \subseteq Flags
  BY FlagsAssumption
<1> HIDE DEF op
<1>4. CASE op.flag = "gre"
  <2>1. ~ToBoot(s, "mesh") /\ ~ToBoot(s, "ovs")
    BY <1>1, <1>4, BootPassed DEF op, Rank, AllFlags
  <2>2. XB3
    BY <1>1, <1>4 DEF Supported
  <2>3. st["gre"] => st["mesh"] /\ ~st["ovs"]
    BY <1>3, <2>1, <2>2 DEF Fits, Accelerators, Followers
  <2>4. new.want = (op.want /\ st["mesh"] /\ ~st["ovs"])
    BY <1>4 DEF Granted, op
  <2>5. new.flag = "gre" /\ op.want = st["gre"]
    BY <1>2, <1>4 DEF op
  <2> QED
    BY <1>3, <2>3, <2>4, <2>5 DEF Settings
<1>5. CASE op.flag = "ovs"
  <2>1. ~ToBoot(s, "mesh")
    BY <1>1, <1>5, BootPassed DEF op, Rank, AllFlags
  <2>2. XB3 /\ st["ovs"] => st["mesh"]
    BY <1>3, <2>1 DEF Fits, Followers
  <2>3. new.want = (op.want /\ (XB3 => st["mesh"]))
    BY <1>5 DEF Granted, op
  <2>4. new.flag = "ovs" /\ op.want = st["ovs"]
    BY <1>2, <1>5 DEF op
  <2> QED
    BY <1>3, <2>2, <2>3, <2>4 DEF Settings
<1>6. CASE op.flag = "opensync"
  <2>1. new.want = (op.want /\ st["ovs"])
    BY <1>6 DEF Granted, op
  <2> QED
    BY <1>2, <1>6, <2>1 DEF op
<1>7. CASE op.flag \notin {"gre", "ovs", "opensync"}
  <2>1. new.want = op.want
    BY <1>7 DEF Granted, op
  <2> QED
    BY <1>2, <1>7, <2>1 DEF op
<1> QED
  BY <1>4, <1>5, <1>6, <1>7

(* Decide, when no other flag has to be turned off first.                  *)
LEMMA FitsDecide ==
  ASSUME NEW t, NEW s, Proper(t, s), s[1].pc = "decide",
         NEW st \in Settings, NEW rm \in Settings, Fits(st, rm, t, s),
         ~XB3 => ~st["gre"],
         First(t, s[1], st) = <<>>,
         NEW new \in Op,
         new.flag = s[1].flag, new.init = s[1].init,
         new.commit = s[1].commit, new.pc = "store",
         new.want = Granted(s[1], st)
  PROVE  Fits(st, rm, t, <<new>> \o Tail(s))
<1> DEFINE r == <<new>> \o Tail(s)
           op == s[1]
<1>1. /\ DOMAIN r = DOMAIN s /\ Len(r) = Len(s) /\ r[1] = new /\ r # <<>>
      /\ \A k \in DOMAIN s : k # 1 => r[k] = s[k]
  BY ChangeTop DEF Proper
<1>2. \A f : ToBoot(r, f) <=> ToBoot(s, f)
  BY ToBootChanged
<1> HIDE DEF r
<1>3. /\ DOMAIN s = 1 .. Len(s) /\ Len(s) \in Nat /\ Len(s) >= 1
      /\ 1 \in DOMAIN s
      /\ op.flag \in Flags /\ op.want \in BOOLEAN
  BY ProperStack
<1>4. KeptIn(st, new)
  BY GrantedKept
<1>5. {"mesh", "ovs", "gre", "opensync"} \subseteq Flags
  BY FlagsAssumption
<1>6. t = "webconfig" /\ op.flag = "mesh" => op.want
  BY <1>3 DEF Fits, Operations
<1> HIDE DEF op
<1>7. op.flag = "mesh" => new.want = op.want
  BY DEF Granted, op
<1>8. DecidedIn(st, rm, new)
  <2>1. ASSUME new.flag = "ovs", new.want
        PROVE  (XB3 => st["mesh"]) /\ ~st["gre"]
    <3>1. op.flag = "ovs" /\ op.want /\ (XB3 => st["mesh"])
      BY <2>1 DEF Granted, op
    <3>2. XB3 => ~(st["mesh"] /\ st["gre"])
      BY <3>1 DEF First, op
    <3> QED
      BY <3>1, <3>2
  <2>2. ASSUME new.flag = "gre", new.want
        PROVE  st["mesh"] /\ ~st["ovs"]
    BY <2>2 DEF Granted
  <2>3. ASSUME new.flag = "mesh", ~new.want
        PROVE  ~XB3
    <3>1. op.flag = "mesh" /\ ~op.want /\ t # "webconfig"
      BY <1>3, <1>6, <1>7, <2>3 DEF op
    <3> QED
      BY <3>1 DEF First, op
  <2> QED
    BY <2>1, <2>2, <2>3 DEF DecidedIn
<1>9. \A k \in DOMAIN r : KeptIn(st, r[k])
  BY <1>1, <1>4 DEF Fits, Operations
<1>10. ASSUME t = "webconfig", NEW k \in DOMAIN r, r[k].flag = "mesh"
       PROVE  r[k].want
  <2>1. CASE k = 1
    BY <1>1, <1>6, <1>7, <1>10, <2>1 DEF op
  <2>2. CASE k # 1
    BY <1>1, <1>10, <2>2 DEF Fits, Operations
  <2> QED
    BY <2>1, <2>2
<1>11. AfterGre(r) => UnderGre(st, rm, r[2])
  <2> SUFFICES ASSUME AfterGre(r)
               PROVE  UnderGre(st, rm, r[2])
    OBVIOUS
  <2>1. 2 \in DOMAIN s /\ r[2] = s[2] /\ op.flag = "gre" /\ s[2].pc = "store"
    BY <1>1, <1>3 DEF AfterGre, TurningOff, op
  <2>2. AfterGre(s)
    BY <2>1 DEF Proper, Shape, Alone, WaitsFrom, AfterOvs, TurningOff, op
  <2> QED
    BY <2>1, <2>2 DEF Fits, Operations
<1>12. Shown(st, rm, r)
  BY <1>2 DEF Fits, Shown, Publishing
<1>13. Accelerators(st, r) /\ Followers(st, rm, r)
  BY <1>2 DEF Fits, Accelerators, Followers
<1> QED
  BY <1>1, <1>8, <1>9, <1>10, <1>11, <1>12, <1>13 DEF Fits, Operations, r

(* Decide, when ovs takes the place of GRE acceleration,                   *)
LEMMA FitsPushGre ==
  ASSUME NEW t, NEW s, Proper(t, s), s[1].pc = "decide",
         NEW st \in Settings, NEW rm \in Settings, Fits(st, rm, t, s),
         XB3, s[1].flag = "ovs", s[1].want, st["mesh"],
         NEW new \in Op,
         new.flag = s[1].flag, new.init = s[1].init,
         new.commit = s[1].commit, new.pc = "store",
         new.want = Granted(s[1], st),
         NEW g \in Op, TurningOff(g, "gre"), g.pc = "decide"
  PROVE  Fits(st, rm, t, <<g>> \o <<new>> \o Tail(s))
<1> DEFINE r == <<g>> \o <<new>> \o Tail(s)
<1>1. /\ DOMAIN s = 1 .. Len(s) /\ Len(s) \in Nat /\ Len(s) >= 1
      /\ 1 \in DOMAIN s /\ s \in Seq(Op)
  BY ProperStack DEF Proper
<1>2. /\ r \in Seq(Op) /\ Len(r) = 1 + Len(s) /\ r # <<>>
      /\ r[1] = g /\ r[2] = new
      /\ \A k \in 2 .. Len(s) : r[1 + k] = s[k]
  BY <1>1
<1> HIDE DEF r
<1>3. DOMAIN r = 1 .. 1 + Len(s)
  BY <1>1, <1>2
<1>4. ASSUME NEW k \in DOMAIN r
      PROVE  \/ k = 1 \/ k = 2
             \/ k - 1 \in DOMAIN s /\ k - 1 # 1 /\ r[k] = s[k - 1]
  <2>1. k = 1 \/ k = 2 \/ (k - 1 \in 2 .. Len(s) /\ k = 1 + (k - 1))
    BY <1>1, <1>3
  <2> QED
    BY <1>1, <1>2, <2>1
<1>5. ASSUME NEW k \in DOMAIN s, k # 1
      PROVE  k + 1 \in DOMAIN r /\ r[k + 1] = s[k]
  <2>1. k + 1 \in DOMAIN r /\ k \in 2 .. Len(s) /\ k + 1 = 1 + k
    BY <1>1, <1>3, <1>5
  <2> QED
    BY <1>2, <2>1
<1>6. 1 \in DOMAIN r /\ 2 \in DOMAIN r
  BY <1>1, <1>3
<1>7. \A f : ToBoot(r, f) <=> ToBoot(s, f)
  <2>1. ASSUME NEW f, ToBoot(r, f) PROVE ToBoot(s, f)
    BY <1>1, <1>2, <1>4, <2>1 DEF ToBoot, TurningOff
  <2>2. ASSUME NEW f, ToBoot(s, f) PROVE ToBoot(r, f)
    BY <1>2, <1>5, <1>6, <2>2 DEF ToBoot
  <2> QED
    BY <2>1, <2>2
<1>8. KeptIn(st, new)
  BY GrantedKept
<1>9. \A k \in DOMAIN r : KeptIn(st, r[k])
  <2>1. KeptIn(st, g)
    BY DEF KeptIn, TurningOff
  <2> QED
    BY <1>2, <1>4, <1>8, <2>1 DEF Fits, Operations
<1>10. ASSUME t = "webconfig", NEW k \in DOMAIN r, r[k].flag = "mesh"
       PROVE  r[k].want
  <2>1. k # 1 /\ k # 2
    BY <1>2, <1>10 DEF TurningOff
  <2> QED
    BY <1>4, <1>10, <2>1 DEF Fits, Operations
<1>11. DecidedIn(st, rm, r[1])
  BY <1>2 DEF DecidedIn
<1>12. UnderGre(st, rm, r[2])
  BY <1>2 DEF UnderGre
<1>13. Shown(st, rm, r)
  BY <1>7 DEF Fits, Shown, Publishing
<1>14. Accelerators(st, r) /\ Followers(st, rm, r)
  BY <1>7 DEF Fits, Accelerators, Followers
<1> QED
  BY <1>9, <1>10, <1>11, <1>12, <1>13, <1>14 DEF Fits, Operations, r

(* and when mesh takes both with it.                                       *)
LEMMA FitsPushOvs ==
  ASSUME NEW t, NEW s, Proper(t, s), s[1].pc = "decide",
         NEW st \in Settings, NEW rm \in Settings, Fits(st, rm, t, s),
         s[1].flag = "mesh", ~s[1].want,
         NEW new \in Op,
         new.flag = s[1].flag, new.init = s[1].init,
         new.commit = s[1].commit, new.pc = "store",
         new.want = Granted(s[1], st),
         NEW g \in Op, TurningOff(g, "gre"), g.pc = "decide",
         NEW o \in Op, TurningOff(o, "ovs"), o.pc = "decide"
  PROVE  Fits(st, rm, t, <<o, g>> \o <<new>> \o Tail(s))
<1> DEFINE r == <<o, g>> \o <<new>> \o Tail(s)
<1>1. /\ DOMAIN s = 1 .. Len(s) /\ Len(s) \in Nat /\ Len(s) >= 1
      /\ 1 \in DOMAIN s /\ s \in Seq(Op)
  BY ProperStack DEF Proper
<1>2. /\ r \in Seq(Op) /\ Len(r) = 2 + Len(s) /\ r # <<>>
      /\ r[1] = o /\ r[2] = g /\ r[3] = new
      /\ \A k \in 2 .. Len(s) : r[2 + k] = s[k]
  BY <1>1
<1> HIDE DEF r
<1>3. DOMAIN r = 1 .. 2 + Len(s)
  BY <1>1, <1>2
<1>4. ASSUME NEW k \in DOMAIN r
      PROVE  \/ k = 1 \/ k = 2 \/ k = 3
             \/ k - 2 \in DOMAIN s /\ k - 2 # 1 /\ r[k] = s[k - 2]
  <2>1. k = 1 \/ k = 2 \/ k = 3 \/ (k - 2 \in 2 .. Len(s) /\ k = 2 + (k - 2))
    BY <1>1, <1>3
  <2> QED
    BY <1>1, <1>2, <2>1
<1>5. ASSUME NEW k \in DOMAIN s, k # 1
      PROVE  k + 2 \in DOMAIN r /\ r[k + 2] = s[k]
  <2>1. k + 2 \in DOMAIN r /\ k \in 2 .. Len(s) /\ k + 2 = 2 + k
    BY <1>1, <1>3, <1>5
  <2> QED
    BY <1>2, <2>1
<1>6. 1 \in DOMAIN r /\ 2 \in DOMAIN r /\ 3 \in DOMAIN r
  BY <1>1, <1>3
<1>7. \A f : ToBoot(r, f) <=> ToBoot(s, f)
  <2>1. ASSUME NEW f, ToBoot(r, f) PROVE ToBoot(s, f)
    BY <1>1, <1>2, <1>4, <2>1 DEF ToBoot, TurningOff
  <2>2. ASSUME NEW f, ToBoot(s, f) PROVE ToBoot(r, f)
    BY <1>2, <1>5, <1>6, <2>2 DEF ToBoot
  <2> QED
    BY <2>1, <2>2
<1>8. KeptIn(st, new)
  BY GrantedKept
<1>9. \A k \in DOMAIN r : KeptIn(st, r[k])
  <2>1. KeptIn(st, g) /\ KeptIn(st, o)
    BY DEF KeptIn, TurningOff
  <2> QED
    BY <1>2, <1>4, <1>8, <2>1 DEF Fits, Operations
<1>10. t # "webconfig"
  BY <1>1 DEF Fits, Operations
<1>11. DecidedIn(st, rm, r[1])
  BY <1>2 DEF DecidedIn
<1>12. ~AfterGre(r)
  BY <1>2 DEF AfterGre, TurningOff
<1>13. Shown(st, rm, r)
  BY <1>7 DEF Fits, Shown, Publishing
<1>14. Accelerators(st, r) /\ Followers(st, rm, r)
  BY <1>7 DEF Fits, Accelerators, Followers
<1> QED
  BY <1>9, <1>10, <1>11, <1>12, <1>13, <1>14 DEF Fits, Operations, r

(* Load: the boot takes the value syscfg has, or stores another one.       *)
LEMMA FitsLoad ==
  ASSUME NEW s, Proper("boot", s), s[1].pc = "load", s[1].init,
         NEW st \in Settings, NEW rm \in Settings, Fits(st, rm, "boot", s),
         NEW op \in Op,
         op.flag = s[1].flag, op.init = s[1].init, op.pc = "decide",
         op.commit \/ op.want = st[op.flag]
  PROVE  Fits(st, rm, "boot", <<op>> \o Tail(s))
<1> DEFINE r == <<op>> \o Tail(s)
<1>1. /\ DOMAIN r = DOMAIN s /\ Len(r) = Len(s) /\ r[1] = op /\ r # <<>>
      /\ \A k \in DOMAIN s : k # 1 => r[k] = s[k]
  BY ChangeTop DEF Proper
<1>2. \A f : ToBoot(r, f) <=> ToBoot(s, f)
  BY ToBootChanged
<1> HIDE DEF r
<1>3. \A k \in DOMAIN r : KeptIn(st, r[k])
  BY <1>1 DEF Fits, Operations, KeptIn
<1>4. DecidedIn(st, rm, r[1]) /\ ~AfterGre(r)
  BY <1>1 DEF DecidedIn, AfterGre, TurningOff
<1>5. Shown(st, rm, r)
  BY <1>1, <1>2 DEF Fits, Shown, Publishing
<1>6. Accelerators(st, r) /\ Followers(st, rm, r)
  BY <1>2 DEF Fits, Accelerators, Followers
<1> QED
  BY <1>3, <1>4, <1>5, <1>6 DEF Fits, Operations, r

(* Request: an agent at rest begins.                                       *)
LEMMA FitsRequest ==
  ASSUME NEW t, NEW u, NEW st, NEW rm, Fits(st, rm, u, <<>>),
         NEW op \in Op, op.pc = "decide", ~op.init, op.commit,
         t = "webconfig" /\ op.flag = "mesh" => op.want
  PROVE  Fits(st, rm, t, <<op>>)
<1> DEFINE r == <<op>>
<1>1. r \in Seq(Op) /\ DOMAIN r = {1} /\ r[1] = op /\ r # <<>> /\ Len(r) = 1
  OBVIOUS
<1> HIDE DEF r
<1>2. \A f : ~ToBoot(r, f) /\ ~ToBoot(<<>>, f)
  BY <1>1 DEF ToBoot
<1>3. Operations(st, rm, t, r)
  BY <1>1 DEF Operations, KeptIn, DecidedIn, AfterGre
<1>4. Shown(st, rm, r) /\ Accelerators(st, r) /\ Followers(st, rm, r)
  BY <1>1, <1>2 DEF Fits, Shown, Publishing, Accelerators, Followers
<1> QED
  BY <1>3, <1>4 DEF Fits, r

(* Boot: whatever syscfg has, every flag is still to be set.               *)
LEMMA FitsBoot ==
  ASSUME NEW st \in Settings, NEW rm \in Settings, \A f \in Flags : ~rm[f],
         ~XB3 => ~st["gre"],
         NEW s \in Seq(Op), \A k \in DOMAIN s : s[k].init /\ s[k].pc = "load",
         \A f \in Supported : ToBoot(s, f)
  PROVE  Fits(st, rm, "boot", s)
<1>1. s # <<>> => 1 \in DOMAIN s
  OBVIOUS
<1>2. /\ {"mesh", "ovs", "gre", "opensync"} \subseteq Flags
      /\ {"mesh", "ovs"} \subseteq Supported
  BY FlagsAssumption DEF Supported
<1>3. Operations(st, rm, "boot", s)
  BY <1>1 DEF Operations, KeptIn, DecidedIn, AfterGre, TurningOff
<1>4. ASSUME NEW f \in Flags \ {"mesh"}
      PROVE  \/ ToBoot(s, f) /\ ~rm[f]
             \/ IF f = "opensync" THEN rm[f] => st[f] ELSE rm[f] = st[f]
  <2>1. CASE f \in Supported
    BY <2>1
  <2>2. CASE f \notin Supported
    <3>1. f = "gre" /\ ~XB3
      BY <2>2 DEF Supported
    <3>2. st[f] = FALSE /\ rm[f] = FALSE
      BY <3>1, <1>2 DEF Settings
    <3> QED
      BY <3>1, <3>2
  <2> QED
    BY <2>1, <2>2
<1>5. Accelerators(st, s) /\ Followers(st, rm, s)
  BY <1>2 DEF Accelerators, Followers
<1> QED
  BY <1>3, <1>4, <1>5 DEF Fits, Shown

-----------------------------------------------------------------------------
(* An undisturbed agent runs one thread at a time, and its flags fit it.   *)

(* A thread that can do something is the one the others wait for.          *)
LEMMA Running ==
  ASSUME Stacks, Agreement, undisturbed, NEW t \in Threads, Busy(t)
  PROVE  /\ \A u \in Threads \ {t} : todo[u] = <<>>
         /\ Fits(store, ram, t, todo[t])
         /\ Proper(t, todo[t])
         /\ store \in Settings /\ ram \in Settings
<1>1. \A u \in Threads \ {t} : todo[u] = <<>>
  BY DEF Agreement, Busy
<1>2. Fits(store, ram, t, todo[t])
  BY DEF Agreement, Busy
<1>3. Proper(t, todo[t])
  BY BusyThread DEF Proper
<1> QED
  BY <1>1, <1>2, <1>3 DEF Stacks, FieldsOK, Settings

(* It stays the one, with its new stack.                                   *)
LEMMA StillRunning ==
  ASSUME Stacks, NEW t \in Threads, \A u \in Threads \ {t} : todo[u] = <<>>,
         NEW r, todo' = [todo EXCEPT ![t] = r],
         Fits(store', ram', t, r)
  PROVE  Agreement'
<1>1. todo'[t] = r /\ \A u \in Threads \ {t} : todo'[u] = <<>>
  BY DEF Stacks, FieldsOK
<1>2. Fits(store', ram', t, todo'[t])
  BY <1>1
<1> QED
  BY <1>1, <1>2 DEF Agreement

LEMMA AgreementRequest ==
  ASSUME Stacks, Agreement, NEW t \in Threads, NEW f \in Flags,
         NEW v \in BOOLEAN, Request(t, f, v)
  PROVE  Agreement'
<1> SUFFICES ASSUME undisturbed'
             PROVE  Agreement'
  BY DEF Agreement
<1> DEFINE op == SetOp(f, v)
<1>1. op \in Op /\ op.flag = f /\ op.want = v /\ ~op.init /\ op.commit
      /\ op.pc = "decide"
  BY DEF SetOp, Op
<1>2. /\ undisturbed /\ \A u \in Threads : todo[u] = <<>>
      /\ t = "webconfig" /\ f = "mesh" => v
  BY DEF Request, Settled, Quiet, Busy
<1>3. PICK u \in Threads : Fits(store, ram, u, <<>>)
  BY <1>2 DEF Agreement
<1>4. todo' = [todo EXCEPT ![t] = <<op>>] /\ store' = store /\ ram' = ram
  BY DEF Request
<1> HIDE DEF op
<1>5. Fits(store, ram, t, <<op>>)
  BY <1>1, <1>2, <1>3, FitsRequest
<1> QED
  BY <1>2, <1>4, <1>5, StillRunning

LEMMA AgreementBoot == Stacks /\ Boot => Agreement'
<1> SUFFICES ASSUME Stacks, Boot
             PROVE  Agreement'
  OBVIOUS
<1> DEFINE N == Len(BootOrder)
           r == [i \in 1 .. N |->
                   [SetOp(BootOrder[i], FALSE) EXCEPT !.init = TRUE, !.pc = "load"]]
<1>1. /\ BootOrder \in Seq(Supported) /\ N \in Nat
      /\ \A f \in Supported : \E i \in 1 .. N : BootOrder[i] = f
  <2>1. Supported \subseteq AllFlags
    BY FlagsAssumption DEF Supported
  <2> QED
    BY <2>1, BootOrderSorted DEF Sorted, Covers
<1>2. \A i \in 1 .. N : BootOrder[i] \in Flags
  BY <1>1 DEF Supported
<1>3. \A i \in 1 .. N :
        /\ r[i] \in Op /\ r[i].flag = BootOrder[i]
        /\ r[i].init /\ r[i].pc = "load"
  BY <1>2 DEF SetOp, Op
<1>4. DOMAIN r = 1 .. N /\ r \in [1 .. N -> Op]
  BY <1>3
<1>5. todo' = [todo EXCEPT !["boot"] = r] /\ store' = store /\ ram' = ram
      /\ up = "down"
  BY DEF Boot
<1> HIDE DEF r, N
<1>6. r \in Seq(Op)
  BY <1>1, <1>4
<1>7. \A f \in Supported : ToBoot(r, f)
  BY <1>1, <1>3, <1>4 DEF ToBoot
<1>8. store \in Settings /\ ram \in Settings /\ \A f \in Flags : ~ram[f]
  BY <1>5 DEF Stacks, FieldsOK, Phases, Settings
<1>9. ~XB3 => ~store["gre"]
  BY DEF Stacks, NoGre
<1>10. Fits(store, ram, "boot", r)
  BY <1>3, <1>4, <1>6, <1>7, <1>8, <1>9, FitsBoot
<1>11. \A u \in Threads : todo[u] = <<>>
  BY <1>5 DEF Stacks, Phases
<1> QED
  BY <1>5, <1>10, <1>11, StillRunning DEF Threads

LEMMA AgreementLoad == Stacks /\ Agreement /\ Load => Agreement'
<1> SUFFICES ASSUME Stacks, Agreement, Load, undisturbed'
             PROVE  Agreement'
  BY DEF Agreement
<1> DEFINE s == todo["boot"]
<1>1. "boot" \in Threads /\ Busy("boot") /\ undisturbed
      /\ store' = store /\ ram' = ram
  BY DEF Load, At, Threads
<1>2. /\ \A u \in Threads \ {"boot"} : todo[u] = <<>>
      /\ Fits(store, ram, "boot", s)
      /\ Proper("boot", s)
      /\ store \in Settings /\ ram \in Settings
  BY <1>1, Running
<1>3. s[1] = Head(s) /\ s[1] \in Op /\ s[1].pc = "load"
  BY <1>1, BusyThread DEF Load, At
<1>4. s[1].init
  BY <1>2, <1>3 DEF Proper, Shape, Alone, AfterGre, AfterOvs, TurningOff
<1>5. PICK v \in BOOLEAN, c \in BOOLEAN :
        /\ c \/ v = store[s[1].flag]
        /\ todo' = [todo EXCEPT !["boot"] =
             <<[s[1] EXCEPT !.want = v, !.commit = c, !.pc = "decide"]>> \o Tail(s)]
  <2>1. store[s[1].flag] \in BOOLEAN
    BY <1>2, <1>3 DEF Settings, Op
  <2>2. todo \in [Threads -> Seq(Op)]
    BY DEF Stacks, FieldsOK
  <2> QED
    BY <1>3, <2>1, <2>2 DEF Load, Default
<1> DEFINE op == [s[1] EXCEPT !.want = v, !.commit = c, !.pc = "decide"]
<1>6. /\ op \in Op /\ op.flag = s[1].flag /\ op.init = s[1].init
      /\ op.pc = "decide" /\ op.want = v /\ op.commit = c
  BY <1>3 DEF Op
<1>7. todo' = [todo EXCEPT !["boot"] = <<op>> \o Tail(s)]
  BY <1>5
<1> HIDE DEF op, s
<1>8. op.commit \/ op.want = store[op.flag]
  BY <1>5, <1>6
<1>9. Fits(store, ram, "boot", <<op>> \o Tail(s))
  BY <1>2, <1>3, <1>4, <1>6, <1>8, FitsLoad
<1> QED
  BY <1>1, <1>2, <1>7, <1>9, StillRunning

LEMMA AgreementDecide ==
  ASSUME Stacks, Agreement, NEW t \in Threads, Decide(t)
  PROVE  Agreement'
<1> SUFFICES ASSUME undisturbed'
             PROVE  Agreement'
  BY DEF Agreement
<1> DEFINE s == todo[t]
           op == s[1]
           new == Decided(op, store)
           g == SetOp("gre", FALSE)
           o == SetOp("ovs", FALSE)
<1>0. Busy(t) /\ store' = store /\ ram' = ram
  BY DEF Decide, At
<1>1. /\ op \in Op /\ op.pc = "decide" /\ OpOK(t, op)
      /\ ~XB3 => ~store["gre"]
  BY <1>0, BusyThread DEF Decide, At, Stacks, NoGre
<1>2. /\ undisturbed
      /\ \/ ~op.init /\ store[op.flag] = op.want /\ Pop(t)
         \/ /\ First(t, op, store) = <<>>
            /\ todo' = [todo EXCEPT ![t] = <<new>> \o Tail(s)]
         \/ /\ XB3 /\ op.flag = "ovs" /\ op.want /\ store["mesh"]
            /\ todo' = [todo EXCEPT ![t] = <<g>> \o <<new>> \o Tail(s)]
         \/ /\ XB3 /\ op.flag = "mesh" /\ ~op.want
            /\ todo' = [todo EXCEPT ![t] = <<o, g>> \o <<new>> \o Tail(s)]
  BY DecideCases
<1>3. /\ \A u \in Threads \ {t} : todo[u] = <<>>
      /\ Fits(store, ram, t, s)
      /\ Proper(t, s)
      /\ store \in Settings /\ ram \in Settings
  BY <1>0, <1>2, Running
<1>4. /\ new \in Op /\ new.flag = op.flag /\ new.init = op.init
      /\ new.commit = op.commit /\ new.pc = "store"
      /\ new.want = Granted(op, store)
  BY <1>1, <1>3, DecidedType DEF Settings
<1>5. /\ g \in Op /\ TurningOff(g, "gre") /\ g.pc = "decide"
      /\ o \in Op /\ TurningOff(o, "ovs") /\ o.pc = "decide"
  BY FlagsAssumption DEF SetOp, Op, TurningOff
<1> HIDE DEF new, g, o
<1>6. CASE ~op.init /\ store[op.flag] = op.want /\ Pop(t)
  <2>1. todo' = [todo EXCEPT ![t] = Tail(s)]
    BY <1>6 DEF Pop, Stacks, FieldsOK
  <2>2. Fits(store, ram, t, Tail(s))
    BY <1>1, <1>3, <1>6, FitsPop
  <2> QED
    BY <1>0, <1>3, <2>1, <2>2, StillRunning
<1>7. CASE /\ First(t, op, store) = <<>>
           /\ todo' = [todo EXCEPT ![t] = <<new>> \o Tail(s)]
  <2>1. Fits(store, ram, t, <<new>> \o Tail(s))
    BY <1>1, <1>3, <1>4, <1>7, FitsDecide
  <2> QED
    BY <1>0, <1>3, <1>7, <2>1, StillRunning
<1>8. CASE /\ XB3 /\ op.flag = "ovs" /\ op.want /\ store["mesh"]
           /\ todo' = [todo EXCEPT ![t] = <<g>> \o <<new>> \o Tail(s)]
  <2>1. Fits(store, ram, t, <<g>> \o <<new>> \o Tail(s))
    BY <1>1, <1>3, <1>4, <1>5, <1>8, FitsPushGre
  <2> QED
    BY <1>0, <1>3, <1>8, <2>1, StillRunning
<1>9. CASE /\ XB3 /\ op.flag = "mesh" /\ ~op.want
           /\ todo' = [todo EXCEPT ![t] = <<o, g>> \o <<new>> \o Tail(s)]
  <2>1. Fits(store, ram, t, <<o, g>> \o <<new>> \o Tail(s))
    BY <1>1, <1>3, <1>4, <1>5, <1>9, FitsPushOvs
  <2> QED
    BY <1>0, <1>3, <1>9, <2>1, StillRunning
<1> QED
  BY <1>2, <1>6, <1>7, <1>8, <1>9

LEMMA AgreementStore ==
  ASSUME Stacks, Agreement, NEW t \in Threads, Store(t)
  PROVE  Agreement'
<1> SUFFICES ASSUME undisturbed'
             PROVE  Agreement'
  BY DEF Agreement
<1> DEFINE s == todo[t]
           op == [s[1] EXCEPT !.pc = "publish"]
<1>0. Busy(t) /\ undisturbed /\ ram' = ram
  BY DEF Store, At
<1>1. s[1] = Head(s) /\ s[1] \in Op /\ s[1].pc = "store"
  BY <1>0, BusyThread DEF Store, At
<1>2. /\ \A u \in Threads \ {t} : todo[u] = <<>>
      /\ Fits(store, ram, t, s)
      /\ Proper(t, s)
      /\ store \in Settings /\ ram \in Settings
  BY <1>0, Running
<1>3. /\ op \in Op /\ op.flag = s[1].flag /\ op.want = s[1].want
      /\ op.init = s[1].init /\ op.commit = s[1].commit /\ op.pc = "publish"
  BY <1>1 DEF Op
<1>4. todo' = [todo EXCEPT ![t] = <<op>> \o Tail(s)]
  BY <1>1 DEF Store, Advance, Stacks, FieldsOK
<1> HIDE DEF op
<1>5. /\ \/ store' = [store EXCEPT ![op.flag] = op.want]
         \/ store' = store /\ ~op.commit
      /\ store' \in Settings
  <2>1. op.flag \in Flags /\ op.want \in BOOLEAN
    BY <1>3 DEF Op
  <2>2. CASE Stores(s[1])
    <3>1. store' = [store EXCEPT ![op.flag] = op.want]
      BY <1>1, <1>3, <2>2 DEF Store
    <3> QED
      BY <1>2, <2>1, <3>1 DEF Settings
  <2>3. CASE ~Stores(s[1])
    BY <1>1, <1>2, <1>3, <2>3 DEF Store, Stores
  <2> QED
    BY <2>2, <2>3
<1>6. Fits(store', ram, t, <<op>> \o Tail(s))
  BY <1>1, <1>2, <1>3, <1>5, FitsStore
<1> QED
  BY <1>0, <1>2, <1>4, <1>6, StillRunning

LEMMA AgreementPublish ==
  ASSUME Stacks, Agreement, NEW t \in Threads, Publish(t)
  PROVE  Agreement'
<1> SUFFICES ASSUME undisturbed'
             PROVE  Agreement'
  BY DEF Agreement
<1> DEFINE s == todo[t]
<1>0. Busy(t) /\ undisturbed /\ store' = store
  BY DEF Publish, At
<1>1. s[1] = Head(s) /\ s[1] \in Op /\ s[1].pc = "publish"
  BY <1>0, BusyThread DEF Publish, At
<1>2. /\ \A u \in Threads \ {t} : todo[u] = <<>>
      /\ Fits(store, ram, t, s)
      /\ Proper(t, s)
      /\ store \in Settings /\ ram \in Settings
  BY <1>0, Running
<1>3. todo' = [todo EXCEPT ![t] = Tail(s)]
  BY DEF Publish, Pop, Stacks, FieldsOK
<1>4. /\ ram' = IF s[1].flag = "mesh" THEN ram
                ELSE [ram EXCEPT ![s[1].flag] = s[1].want]
      /\ ram' \in Settings
  <2>1. s[1].flag \in Flags /\ s[1].want \in BOOLEAN
    BY <1>1 DEF Op
  <2>2. ram' = IF s[1].flag = "mesh" THEN ram
               ELSE [ram EXCEPT ![s[1].flag] = s[1].want]
    BY <1>1 DEF Publish
  <2> QED
    BY <1>2, <2>1, <2>2 DEF Settings
<1> HIDE DEF s
<1>5. Fits(store, ram', t, Tail(s))
  BY <1>1, <1>2, <1>4, FitsPublish
<1> QED
  BY <1>0, <1>2, <1>3, <1>5, StillRunning

LEMMA AgreementStep == Stacks /\ Agreement /\ [Next]_vars => Agreement'
<1> SUFFICES ASSUME Stacks, Agreement, [Next]_vars
             PROVE  Agreement'
  OBVIOUS
<1>1. CASE EnablingEnds
  BY <1>1 DEF EnablingEnds, Agreement
<1>2. CASE Crash
  BY <1>2 DEF Crash, Agreement
<1>3. CASE UNCHANGED vars
  BY <1>3 DEF vars, Agreement
<1>4. ASSUME NEW t \in Threads, StoreFails(t)
      PROVE  Agreement'
  BY <1>4 DEF StoreFails, Agreement
<1> QED
  BY <1>1, <1>2, <1>3, <1>4, AgreementRequest, AgreementBoot, AgreementLoad,
     AgreementDecide, AgreementStore, AgreementPublish DEF Next

LEMMA AlwaysAgreement == Spec => []Agreement
<1>1. Init => Agreement
  BY DEF Init, Agreement
<1> QED
  BY <1>1, AgreementStep, AlwaysStacks, PTL DEF Spec

-----------------------------------------------------------------------------
(* What is left of the agreement when every stack is empty.                *)
LEMMA AtRest ==
  ASSUME Stacks, Agreement, Settled
  PROVE  \E t \in Threads : Fits(store, ram, t, <<>>)
  BY DEF Agreement, Settled, Quiet, Busy

(* ovs and GRE acceleration are never both on in syscfg once an            *)
(* undisturbed agent is at rest, whatever an earlier run left there.       *)
THEOREM NeverBothAccelerators == Spec => []OneAccelerator
<1>1. Stacks /\ Agreement => OneAccelerator
  BY AtRest DEF OneAccelerator, Fits, Accelerators, ToBoot
<1> QED
  BY <1>1, AlwaysStacks, AlwaysAgreement, PTL

(* No acceleration outlives mesh on the platform that has both.            *)
THEOREM FlagsDoFollowMesh == Spec => []FlagsFollowMesh
<1>1. Stacks /\ Agreement => FlagsFollowMesh
  BY AtRest DEF FlagsFollowMesh, Fits, Followers, ToBoot
<1> QED
  BY <1>1, AlwaysStacks, AlwaysAgreement, PTL

(* The data model shows what syscfg keeps, but for Opensync without ovs.   *)
THEOREM ShownIsAlwaysKept == Spec => []ShownIsKept
<1>1. Stacks /\ Agreement => ShownIsKept
  <2> SUFFICES ASSUME Stacks, Agreement, Settled
               PROVE  \A f \in Flags \ {"mesh"} :
                        IF f = "opensync" THEN ram[f] => store[f]
                                          ELSE ram[f] = store[f]
    BY DEF ShownIsKept
  <2>1. PICK t \in Threads : Fits(store, ram, t, <<>>)
    BY AtRest
  <2> QED
    BY <2>1 DEF Fits, Shown, Publishing, ToBoot
<1> QED
  BY <1>1, AlwaysStacks, AlwaysAgreement, PTL
=============================================================================
