-------------------------- MODULE SyncMessagesProofs --------------------------
(***************************************************************************)
(* Proofs about the messages between the vendor and the gateway, for any   *)
(* tokens in the fields, any number of notifications that wait and other   *)
(* threads that use strtok at any moment.                                  *)
(***************************************************************************)
EXTENDS SyncMessages, SequenceTheorems, TLAPS

Fields(name) == Kinds[name].fields

(* The kinds whose value is taken apart.                                   *)
Apart(name) == Kinds[name].act \notin {"forward", "reset"}

-----------------------------------------------------------------------------
(* What an event that was posted looks like.                               *)
Posted(ev) ==
  /\ ev.name \in Names
  /\ ev.toks \in Seq(Tokens) /\ ev.toks # <<>>
  /\ IF ev.name = "wifi_init" THEN ev.toks[1] \in {"start", "stop", Empty}
                              ELSE ev.toks[1] \in {"RDK", "MESH"}

(* One value for each field of the kind, and a flag is true or false.      *)
Fitting(name, vals) ==
  /\ Len(vals) = Len(Fields(name))
  /\ \A j \in 1..Len(vals) : Fields(name)[j] = "flag" => vals[j] \in {"true", "false"}

HandlerType ==
  [pc: {"idle", "parse", "act", "service"},
   ev: [name: Names \cup {None}, toks: Seq(Tokens)],
   tok: Tokens \cup {Nil}, i: 0..6, vals: Seq(Tokens),
   found: BOOLEAN, mixed: BOOLEAN]

EventsOK ==
  /\ events \in Seq([name: Names, toks: Seq(Tokens)]) /\ Len(events) <= MaxEvents
  /\ \A k \in 1..Len(events) : Posted(events[k])

HandlerOK ==
  /\ h \in HandlerType
  /\ h.pc # "idle" => Posted(h.ev)
  /\ h.pc = "parse" => Apart(h.ev.name)
  /\ h.pc \in {"parse", "act"} /\ Apart(h.ev.name) => Fitting(h.ev.name, h.vals)
  /\ h.pc = "service" => h.ev.name = "wifi_init"

RestOK ==
  /\ rest \in Seq(Tokens)
  /\ told \in [name: Names \cup {None}, vals: Seq(Tokens)]
  /\ reported \in BOOLEAN
  /\ on \in BOOLEAN /\ service \in BOOLEAN
  /\ switch \in {None, "true", "false"} /\ raced \in BOOLEAN

TypeInv == EventsOK /\ HandlerOK /\ RestOK

(* The origin of an event that gets past the first token.                  *)
Heard ==
  /\ h.pc = "parse" => IF h.i = 0 THEN h.tok = h.ev.toks[1] /\ ~h.found
                                  ELSE Listens(h.ev.name, h.ev.toks[1])
  /\ h.pc = "act" /\ Apart(h.ev.name) /\ h.found
       => Listens(h.ev.name, h.ev.toks[1])

(* How far a whole value has been taken apart.                             *)
InStep ==
  /\ h.i <= Len(h.ev.toks)
  /\ h.tok = IF h.i < Len(h.ev.toks) THEN h.ev.toks[h.i + 1] ELSE Nil
  /\ rest = SubSeq(h.ev.toks, h.i + 2, Len(h.ev.toks))
  /\ \A j \in 1..Len(h.vals) :
       h.vals[j] = IF j < h.i THEN AsSet(h.ev)[j] ELSE Blank(Fields(h.ev.name)[j])

Alone == ~h.mixed /\ Whole(h.ev)

TakenApart ==
  /\ h.pc = "parse" /\ Alone => InStep
  /\ h.pc = "act" /\ Alone /\ Apart(h.ev.name) /\ h.found => h.vals = AsSet(h.ev)

(* The service against mesh, where no restart met a switch.                *)
Follows ==
  ~raced => /\ h.pc = "service" => on
            /\ service => on \/ switch = "true"

-----------------------------------------------------------------------------
(* What the proofs use of the nineteen kinds.                              *)
KindOK(kind) ==
  /\ kind.fields \in Seq(Types) /\ Len(kind.fields) <= 5
  /\ kind.act \in {"tell", "url", "enable", "report", "forward", "reset"}
  /\ kind.act \in {"tell", "url", "enable"} => kind.from = "RDK"
  /\ kind.act = "enable" => kind.fields = <<"flag">>
  /\ kind.act \in {"url", "report"} => Len(kind.fields) = 1

LEMMA KindFacts ==
  ASSUME NEW name \in Names
  PROVE  /\ KindOK(Kinds[name])
         /\ Kinds[name].act = "forward" => name = "onewifi_XLE_Extender_mode"
         /\ Kinds[name].act = "reset" <=> name = "wifi_init"
<1>1. Names = {"wifi_RadioChannel", "wifi_RadioChannelMode",
               "wifi_RadioOperatingStd", "wifi_SSIDAdvertisementEnable",
               "wifi_SSIDName", "wifi_SSIDChanged", "wifi_ApSecurity",
               "wifi_kickApAssociatedDevice", "wifi_kickAllApAssociatedDevice",
               "wifi_addApAclDevice", "wifi_delApAclDevice",
               "wifi_MacAddressControlMode", "subnet_change", "wifi_TxRate",
               "mesh_url", "mesh_enable", "mesh_status",
               "onewifi_XLE_Extender_mode", "wifi_init"}
  BY DEF Names, Kinds
<1>2. /\ Kinds["wifi_RadioChannel"] = RadioChannel
      /\ Kinds["wifi_RadioChannelMode"] = RadioMode
      /\ Kinds["wifi_RadioOperatingStd"] = OperatingStd
      /\ Kinds["wifi_SSIDAdvertisementEnable"] = SSIDAdvertise
      /\ Kinds["wifi_SSIDName"] = SSIDName
      /\ Kinds["wifi_SSIDChanged"] = SSIDChanged
      /\ Kinds["wifi_ApSecurity"] = ApSecurity
      /\ Kinds["wifi_kickApAssociatedDevice"] = KickDevice
      /\ Kinds["wifi_kickAllApAssociatedDevice"] = KickAll
      /\ Kinds["wifi_addApAclDevice"] = AddAcl
      /\ Kinds["wifi_delApAclDevice"] = DelAcl
      /\ Kinds["wifi_MacAddressControlMode"] = MacControl
      /\ Kinds["subnet_change"] = Subnet
      /\ Kinds["wifi_TxRate"] = TxRate
      /\ Kinds["mesh_url"] = Url
      /\ Kinds["mesh_enable"] = Enable
      /\ Kinds["mesh_status"] = Status
      /\ Kinds["onewifi_XLE_Extender_mode"] = ExtenderMode
      /\ Kinds["wifi_init"] = WifiInit
  BY DEF Kinds
<1>3. /\ RadioChannel.act = "tell" /\ RadioMode.act = "tell"
      /\ OperatingStd.act = "tell" /\ SSIDAdvertise.act = "tell"
      /\ SSIDName.act = "tell" /\ SSIDChanged.act = "tell"
      /\ ApSecurity.act = "tell" /\ KickDevice.act = "tell"
      /\ KickAll.act = "tell" /\ AddAcl.act = "tell" /\ DelAcl.act = "tell"
      /\ MacControl.act = "tell" /\ Subnet.act = "tell" /\ TxRate.act = "tell"
      /\ Url.act = "url" /\ Enable.act = "enable" /\ Status.act = "report"
      /\ ExtenderMode.act = "forward" /\ WifiInit.act = "reset"
  BY DEF Kind, RadioChannel, RadioMode, OperatingStd, SSIDAdvertise, SSIDName,
         SSIDChanged, ApSecurity, KickDevice, KickAll, AddAcl, DelAcl,
         MacControl, Subnet, TxRate, Url, Enable, Status, ExtenderMode, WifiInit
<1> USE DEF KindOK, Kind, Types
<1>4. KindOK(RadioChannel)
  BY DEF RadioChannel
<1>5. KindOK(RadioMode)
  BY DEF RadioMode
<1>6. KindOK(OperatingStd)
  BY DEF OperatingStd
<1>7. KindOK(SSIDAdvertise)
  BY DEF SSIDAdvertise
<1>8. KindOK(SSIDName)
  BY DEF SSIDName
<1>9. KindOK(SSIDChanged)
  BY DEF SSIDChanged
<1>10. KindOK(ApSecurity)
  BY DEF ApSecurity
<1>11. KindOK(KickDevice)
  BY DEF KickDevice
<1>12. KindOK(KickAll)
  BY DEF KickAll
<1>13. KindOK(AddAcl)
  BY DEF AddAcl
<1>14. KindOK(DelAcl)
  BY DEF DelAcl
<1>15. KindOK(MacControl)
  BY DEF MacControl
<1>16. KindOK(Subnet)
  BY DEF Subnet
<1>17. KindOK(TxRate)
  BY DEF TxRate
<1>18. KindOK(Url)
  BY DEF Url
<1>19. KindOK(Enable)
  BY DEF Enable
<1>20. KindOK(Status)
  BY DEF Status
<1>21. KindOK(ExtenderMode)
  BY DEF ExtenderMode
<1>22. KindOK(WifiInit)
  BY EmptySeq DEF WifiInit
<1> HIDE DEF KindOK
<1> QED
  BY <1>1, <1>2, <1>3, <1>4, <1>5, <1>6, <1>7, <1>8, <1>9, <1>10, <1>11, <1>12,
     <1>13, <1>14, <1>15, <1>16, <1>17, <1>18, <1>19, <1>20, <1>21, <1>22

LEMMA Bounds ==
  /\ MaxEvents \in Nat /\ MaxEvents > 0
  /\ Nil \notin Tokens
  /\ \A type \in Types : Sample(type) \subseteq Tokens
  /\ Numbers \subseteq Tokens
  /\ {"true", "false", "RDK", "MESH", "r", "Off", "start", "stop"} \subseteq Tokens
  /\ Empty \in Tokens /\ Empty # "RDK" /\ Empty # "MESH"
<1>1. Empty # "RDK" /\ Empty # "MESH" /\ Nil # Empty
  BY DEF Empty, Nil
<1> DEFINE A == UNION {Sample(type) : type \in Types}
           B == {Empty, "true", "false", "RDK", "MESH", "r", "Off", "start",
                 "stop"}
<1>2. Tokens = A \cup Numbers \cup B
  BY DEF Tokens
<1>3. Nil \notin A /\ \A type \in Types : Sample(type) \subseteq A
  BY SyncMessagesAssumption
<1>4. Nil \notin Numbers /\ Nil \notin B
  BY <1>1 DEF Nil, Numbers
<1>5. MaxEvents \in Nat /\ MaxEvents > 0
  BY SyncMessagesAssumption
<1> HIDE DEF A, B
<1>6. /\ Nil \notin Tokens /\ \A type \in Types : Sample(type) \subseteq Tokens
      /\ Numbers \subseteq Tokens /\ B \subseteq Tokens
  BY <1>1, <1>2, <1>3, <1>4
<1> QED
  BY <1>1, <1>5, <1>6 DEF B

-----------------------------------------------------------------------------
(* strtok.                                                                 *)

LEMMA StrtokType ==
  ASSUME NEW s \in Seq(Tokens)
  PROVE  Strtok(s).tok \in Tokens \cup {Nil} /\ Strtok(s).rest \in Seq(Tokens)
<1>1. CASE \E i \in DOMAIN s : IsToken(s, i)
  <2> DEFINE i == CHOOSE i \in DOMAIN s : IsToken(s, i)
  <2>1. i \in DOMAIN s
    BY <1>1
  <2>2. Strtok(s) = [tok |-> s[i], rest |-> SubSeq(s, i + 1, Len(s))]
    BY <1>1 DEF Strtok
  <2> HIDE DEF i
  <2>3. i \in Nat /\ Len(s) \in Nat /\ DOMAIN s = 1..Len(s)
        /\ \A k \in 1..Len(s) : s[k] \in Tokens
    BY <2>1, LenProperties, ElementOfSeq
  <2>4. SubSeq(s, i + 1, Len(s)) \in Seq(Tokens)
    <3>1. \A k \in (i + 1)..Len(s) : s[k] \in Tokens
      BY <2>3
    <3> QED
      BY <2>3, <3>1, SubSeqProperties
  <2> QED
    BY <2>1, <2>2, <2>3, <2>4
<1>2. CASE ~ \E i \in DOMAIN s : IsToken(s, i)
  BY <1>2, EmptySeq DEF Strtok
<1> QED
  BY <1>1, <1>2

LEMMA StrtokFirst ==
  ASSUME NEW s \in Seq(Tokens), s # <<>>, s[1] # Empty
  PROVE  Strtok(s) = [tok |-> s[1], rest |-> SubSeq(s, 2, Len(s))]
<1>1. Len(s) \in Nat /\ Len(s) # 0 /\ DOMAIN s = 1..Len(s)
  BY EmptySeq, LenProperties
<1>2. 1 \in DOMAIN s /\ IsToken(s, 1)
  BY <1>1 DEF IsToken
<1>3. ASSUME NEW i \in DOMAIN s, IsToken(s, i)  PROVE  i = 1
  <2>1. i # 1 => 1 \in 1..(i - 1)
    BY <1>1
  <2> QED
    BY <1>3, <2>1 DEF IsToken
<1> DEFINE c == CHOOSE i \in DOMAIN s : IsToken(s, i)
<1>4. c \in DOMAIN s /\ IsToken(s, c)
  BY <1>2
<1>5. Strtok(s) = [tok |-> s[c], rest |-> SubSeq(s, c + 1, Len(s))]
  BY <1>2 DEF Strtok
<1> HIDE DEF c
<1>6. c = 1
  BY <1>3, <1>4
<1> QED
  BY <1>5, <1>6

LEMMA StrtokEnd == Strtok(<<>>) = [tok |-> Nil, rest |-> <<>>]
<1>1. DOMAIN <<>> = {}
  OBVIOUS
<1> QED
  BY <1>1 DEF Strtok

(* What is left of a value from a place on.                                *)
LEMMA Remainder ==
  ASSUME NEW s \in Seq(Tokens), NEW m \in 1..(Len(s) + 1)
  PROVE  /\ SubSeq(s, m, Len(s)) \in Seq(Tokens)
         /\ Len(SubSeq(s, m, Len(s))) = Len(s) - m + 1
         /\ \A i \in 1..(Len(s) - m + 1) : SubSeq(s, m, Len(s))[i] = s[m + i - 1]
<1> DEFINE u == SubSeq(s, m, Len(s))
<1>1. Len(s) \in Nat /\ m \in Int /\ Len(s) \in Int /\ m <= Len(s) + 1
  BY LenProperties
<1>2. \A i \in m..Len(s) : s[i] \in Tokens
  BY <1>1, ElementOfSeq
<1>3. /\ u \in Seq(Tokens) /\ Len(u) = IF m <= Len(s) THEN Len(s) - m + 1 ELSE 0
      /\ \A i \in 1..(Len(s) - m + 1) : u[i] = s[m + i - 1]
  BY <1>1, <1>2, SubSeqProperties
<1>4. CASE m <= Len(s)
  BY <1>3, <1>4
<1>5. CASE ~(m <= Len(s))
  <2>1. Len(s) - m + 1 = 0
    BY <1>1, <1>5
  <2> QED
    BY <1>3, <1>5, <2>1
<1> QED
  BY <1>4, <1>5

(* In a value without an empty field strtok goes from place to place.      *)
LEMMA StrtokSteps ==
  ASSUME NEW s \in Seq(Tokens), Empty \notin ToSet(s), NEW k \in 1..(Len(s) + 1)
  PROVE  /\ Strtok(SubSeq(s, k, Len(s))).tok = IF k <= Len(s) THEN s[k] ELSE Nil
         /\ Strtok(SubSeq(s, k, Len(s))).rest = SubSeq(s, k + 1, Len(s))
<1> DEFINE u == SubSeq(s, k, Len(s))
<1>1. Len(s) \in Nat /\ DOMAIN s = 1..Len(s) /\ k \in Nat
      /\ \A i \in 1..Len(s) : s[i] \in Tokens /\ s[i] # Empty
  BY LenProperties, ElementOfSeq DEF ToSet
<1>2. CASE k <= Len(s)
  <2> DEFINE v == SubSeq(u, 2, Len(u))  w == SubSeq(s, k + 1, Len(s))
  <2>1. k + 1 \in 1..(Len(s) + 1)
    BY <1>1, <1>2
  <2>2. /\ u \in Seq(Tokens) /\ Len(u) = Len(s) - k + 1
        /\ \A i \in 1..(Len(s) - k + 1) : u[i] = s[k + i - 1]
    BY Remainder
  <2>3. /\ w \in Seq(Tokens) /\ Len(w) = Len(s) - (k + 1) + 1
        /\ \A i \in 1..(Len(s) - (k + 1) + 1) : w[i] = s[(k + 1) + i - 1]
    BY <2>1, Remainder
  <2> HIDE DEF u, w
  <2>4. /\ Len(u) \in Nat /\ 2 \in 1..(Len(u) + 1)
        /\ u # <<>> /\ u[1] = s[k] /\ u[1] # Empty
    <3>1. Len(u) >= 1 /\ u[1] = s[k]
      BY <1>1, <1>2, <2>2
    <3> QED
      BY <1>1, <1>2, <2>2, <3>1, EmptySeq
  <2>5. Strtok(u) = [tok |-> u[1], rest |-> v]
    BY <2>2, <2>4, StrtokFirst
  <2>6. /\ v \in Seq(Tokens) /\ Len(v) = Len(u) - 2 + 1
        /\ \A i \in 1..(Len(u) - 2 + 1) : v[i] = u[2 + i - 1]
    BY <2>2, <2>4, Remainder
  <2> HIDE DEF v
  <2>7. Len(v) = Len(w) /\ Len(v) = Len(s) - k /\ Len(u) - 2 + 1 = Len(s) - k
        /\ Len(s) - (k + 1) + 1 = Len(s) - k
    BY <1>1, <2>2, <2>3, <2>6
  <2>8. ASSUME NEW i \in 1..Len(v)  PROVE v[i] = w[i]
    <3>1. /\ i \in Nat /\ 2 + i - 1 \in 1..(Len(s) - k + 1)
          /\ k + (2 + i - 1) - 1 = (k + 1) + i - 1
      BY <1>1, <1>2, <2>7
    <3> QED
      BY <2>2, <2>3, <2>6, <2>7, <3>1
  <2>9. v = w
    BY <2>3, <2>6, <2>7, <2>8, SeqEqual
  <2> QED
    BY <1>2, <2>4, <2>5, <2>9 DEF u, w
<1>3. CASE ~(k <= Len(s))
  <2>1. Len(s) < k /\ Len(s) < k + 1 /\ k \in Int /\ k + 1 \in Int
        /\ Len(s) \in Int
    BY <1>1, <1>3
  <2>2. u = <<>> /\ SubSeq(s, k + 1, Len(s)) = <<>>
    BY <2>1, SubSeqEmpty
  <2>3. Strtok(u).tok = Nil /\ Strtok(u).rest = <<>>
    BY <2>2, StrtokEnd
  <2>4. Strtok(u).tok = IF k <= Len(s) THEN s[k] ELSE Nil
    BY <1>3, <2>3
  <2>5. Strtok(u).rest = SubSeq(s, k + 1, Len(s))
    BY <2>2, <2>3
  <2> QED
    BY <2>4, <2>5
<1> QED
  BY <1>2, <1>3

-----------------------------------------------------------------------------
(* Fields.                                                                 *)

LEMMA FieldType ==
  ASSUME NEW type \in Types, NEW t \in Tokens
  PROVE  /\ Convert(type, t) \in Tokens /\ Blank(type) \in Tokens
         /\ type = "flag" => /\ Convert(type, t) \in {"true", "false"}
                             /\ Blank(type) \in {"true", "false"}
<1>1. /\ "0" \in Tokens /\ "false" \in Tokens /\ "true" \in Tokens
      /\ "Off" \in Tokens /\ "r" \in Tokens /\ Empty \in Tokens
  BY Bounds DEF Numbers
<1>2. type \in {"num", "str", "flag", "rates", "status"}
  BY DEF Types
<1>3. Convert(type, t) \in Tokens
  BY <1>1, <1>2 DEF Convert
<1>4. Blank(type) \in Tokens
  BY <1>1, <1>2 DEF Blank
<1>5. type = "flag" => Convert(type, t) \in {"true", "false"} /\ Blank(type) = "false"
  BY DEF Convert, Blank
<1> QED
  BY <1>3, <1>4, <1>5

LEMMA FieldsType ==
  ASSUME NEW name \in Names
  PROVE  /\ Fields(name) \in Seq(Types)
         /\ Len(Fields(name)) \in Nat /\ Len(Fields(name)) <= 5
         /\ \A i \in 1..Len(Fields(name)) : Fields(name)[i] \in Types
<1>1. Fields(name) \in Seq(Types) /\ Len(Fields(name)) <= 5
  BY KindFacts DEF KindOK, Fields
<1>2. Len(Fields(name)) \in Nat
  BY <1>1, LenProperties
<1>3. \A i \in 1..Len(Fields(name)) : Fields(name)[i] \in Types
  BY <1>1, ElementOfSeq
<1> QED
  BY <1>1, <1>2, <1>3

LEMMA BlankMsgFits ==
  ASSUME NEW name \in Names
  PROVE  /\ BlankMsg(name) \in Seq(Tokens) /\ Fitting(name, BlankMsg(name))
         /\ \A i \in 1..Len(BlankMsg(name)) : BlankMsg(name)[i] = Blank(Fields(name)[i])
<1> DEFINE n == Len(Fields(name))  e(i) == Blank(Fields(name)[i])
<1>1. n \in Nat /\ \A i \in 1..n : Fields(name)[i] \in Types
  BY FieldsType
<1>2. \A i \in 1..n : e(i) \in Tokens
                      /\ (Fields(name)[i] = "flag" => e(i) \in {"true", "false"})
  <2> SUFFICES ASSUME NEW i \in 1..n
               PROVE  e(i) \in Tokens
                      /\ (Fields(name)[i] = "flag" => e(i) \in {"true", "false"})
    OBVIOUS
  <2>1. Empty \in Tokens
    BY Bounds
  <2> QED
    BY <1>1, <2>1, FieldType
<1>3. BlankMsg(name) = [i \in 1..n |-> e(i)]
  BY DEF BlankMsg, Fields
<1> HIDE DEF n, e
<1>4. BlankMsg(name) \in Seq(Tokens) /\ Len(BlankMsg(name)) = n
      /\ \A i \in 1..n : BlankMsg(name)[i] = e(i)
  BY <1>1, <1>2, <1>3
<1> QED
  BY <1>2, <1>4 DEF Fitting, n, e

(* A field that is filled in, whether its token fits or not.               *)
LEMMA FilledFits ==
  ASSUME HandlerOK, h.pc = "parse", h.tok \in Tokens,
         NEW i \in 1..Len(Fields(h.ev.name))
  PROVE  LET g == Filled(h.ev.name, i)
             type == Fields(h.ev.name)[i]
         IN /\ g \in HandlerType /\ Fitting(h.ev.name, g.vals)
            /\ g.pc = h.pc /\ g.ev = h.ev /\ g.tok = h.tok /\ g.i = h.i
            /\ g.mixed = h.mixed
            /\ \A j \in 1..Len(g.vals) :
                 g.vals[j] = IF j = i /\ Fits(type, h.tok) THEN Convert(type, h.tok)
                             ELSE h.vals[j]
<1> DEFINE name == h.ev.name  type == Fields(name)[i]  c == Convert(type, h.tok)
           g == Filled(name, i)
<1>1. /\ h \in HandlerType /\ name \in Names /\ h.vals \in Seq(Tokens)
      /\ Fitting(name, h.vals)
  BY DEF HandlerOK, HandlerType, Posted
<1>2. type \in Types /\ c \in Tokens /\ (type = "flag" => c \in {"true", "false"})
  BY <1>1, FieldsType, FieldType
<1>3. i \in 1..Len(h.vals)
  BY <1>1 DEF Fitting
<1>4. g = IF Fits(type, h.tok) THEN [h EXCEPT !.vals[i] = c, !.found = TRUE] ELSE h
  BY DEF Filled, Fields
<1> HIDE DEF c, type, g
<1>5. CASE Fits(type, h.tok)
  <2> DEFINE v == [h.vals EXCEPT ![i] = c]
  <2>1. g = [h EXCEPT !.vals = v, !.found = TRUE]
    BY <1>1, <1>4, <1>5 DEF HandlerType
  <2>2. /\ v \in Seq(Tokens) /\ Len(v) = Len(h.vals)
        /\ \A j \in 1..Len(h.vals) : v[j] = IF j = i THEN c ELSE h.vals[j]
    BY <1>1, <1>2, <1>3, ExceptSeq
  <2> HIDE DEF v
  <2>3. /\ g \in HandlerType /\ g.vals = v
        /\ g.pc = h.pc /\ g.ev = h.ev /\ g.tok = h.tok /\ g.i = h.i
        /\ g.mixed = h.mixed
    BY <1>1, <2>1, <2>2 DEF HandlerType
  <2>4. Fitting(name, v)
    BY <1>1, <1>2, <2>2 DEF Fitting, type
  <2> QED
    BY <1>5, <2>2, <2>3, <2>4 DEF g, type, c
<1>6. CASE ~Fits(type, h.tok)
  <2>1. g = h
    BY <1>4, <1>6
  <2> QED
    BY <1>1, <1>6, <2>1 DEF g, type
<1> QED
  BY <1>5, <1>6

-----------------------------------------------------------------------------
(* The notifications.                                                      *)

LEMMA PostOK ==
  ASSUME EventsOK, NEW name \in Names, NEW toks \in Seq(Tokens),
         Posted(Event(name, toks)), Len(events) < MaxEvents, Post(name, toks)
  PROVE  EventsOK'
<1> DEFINE S == [name: Names, toks: Seq(Tokens)]  ev == Event(name, toks)
<1>1. events \in Seq(S) /\ Len(events) \in Nat /\ MaxEvents \in Nat
      /\ \A k \in 1..Len(events) : Posted(events[k])
  BY Bounds, LenProperties DEF EventsOK
<1>2. ev \in S
  BY DEF Event
<1>3. events' = Append(events, ev)
  BY DEF Post
<1> HIDE DEF S, ev
<1>4. /\ events' \in Seq(S) /\ Len(events') = Len(events) + 1
      /\ \A k \in 1..Len(events) : events'[k] = events[k]
      /\ events'[Len(events) + 1] = ev
  BY <1>1, <1>2, <1>3, AppendProperties
<1>5. \A k \in 1..Len(events') : Posted(events'[k])
  <2>1. Posted(ev)
    BY DEF ev
  <2>2. \A k \in 1..Len(events') : k \in 1..Len(events) \/ k = Len(events) + 1
    BY <1>1, <1>4
  <2> QED
    BY <1>1, <1>4, <2>1, <2>2
<1>6. Len(events') <= MaxEvents
  BY <1>1, <1>4
<1> QED
  BY <1>4, <1>5, <1>6 DEF EventsOK, S

LEMMA AnnounceOK ==
  ASSUME EventsOK, NEW name \in Names \ {"wifi_init"}, NEW t \in Tokens,
         Announce(name, t)
  PROVE  EventsOK'
<1>1. CASE Len(events) < MaxEvents
  <2> DEFINE toks == <<"MESH", t>>
  <2>1. toks \in Seq(Tokens) /\ toks # <<>> /\ toks[1] = "MESH"
    BY Bounds
  <2>2. Post(name, toks)
    BY <1>1 DEF Announce
  <2> HIDE DEF toks
  <2>3. Posted(Event(name, toks))
    BY <2>1 DEF Posted, Event
  <2> QED
    BY <1>1, <2>1, <2>2, <2>3, PostOK
<1>2. CASE ~(Len(events) < MaxEvents)
  BY <1>2 DEF Announce, EventsOK
<1> QED
  BY <1>1, <1>2

LEMMA HeadOK ==
  ASSUME EventsOK, events # <<>>
  PROVE  /\ Posted(Head(events))
         /\ Head(events) \in [name: Names, toks: Seq(Tokens)]
         /\ events' = Tail(events) => EventsOK'
<1> DEFINE S == [name: Names, toks: Seq(Tokens)]
<1>1. events \in Seq(S) /\ Len(events) \in Nat /\ MaxEvents \in Nat
      /\ Len(events) <= MaxEvents
      /\ \A k \in 1..Len(events) : Posted(events[k])
  BY Bounds, LenProperties DEF EventsOK
<1> HIDE DEF S
<1>2. Len(events) >= 1
  BY <1>1, EmptySeq
<1>3. /\ Head(events) = events[1] /\ Head(events) \in S
      /\ Tail(events) \in Seq(S) /\ Len(Tail(events)) = Len(events) - 1
      /\ \A k \in 1..Len(Tail(events)) : Tail(events)[k] = events[k + 1]
  BY <1>1, <1>2, HeadTailProperties
<1>4. Len(Tail(events)) <= MaxEvents
  BY <1>1, <1>2, <1>3
<1>5. ASSUME NEW k \in 1..Len(Tail(events))  PROVE Posted(Tail(events)[k])
  <2>1. k + 1 \in 1..Len(events)
    BY <1>1, <1>2, <1>3
  <2> QED
    BY <1>1, <1>3, <2>1
<1>6. Posted(events[1])
  BY <1>1, <1>2
<1> QED
  BY <1>3, <1>4, <1>5, <1>6 DEF EventsOK, S

LEMMA ValuesType ==
  ASSUME NEW name \in Names, NEW v \in Values(name)
  PROVE  v \in Seq(Tokens)
<1> DEFINE f == Kinds[name].fields
           X == UNION {Sample(f[i]) : i \in 1..Len(f)}
<1>1. Len(f) \in Nat /\ \A i \in 1..Len(f) : f[i] \in Types
  BY FieldsType DEF Fields
<1>2. X \subseteq Tokens
  BY <1>1, Bounds
<1>3. \E n \in {1, Len(f)} : v \in [1..n -> X]
  BY DEF Values
<1> HIDE DEF f, X
<1> QED
  BY <1>1, <1>2, <1>3

(* An event whose value begins with an origin.                             *)
LEMMA OriginOK ==
  ASSUME NEW name \in Names \ {"wifi_init"}, NEW v \in Seq(Tokens),
         NEW from \in {"RDK", "MESH"}
  PROVE  <<from>> \o v \in Seq(Tokens) /\ Posted(Event(name, <<from>> \o v))
<1> DEFINE w == <<from>> \o v
<1>1. <<from>> \in Seq(Tokens) /\ Len(<<from>>) = 1
  BY Bounds
<1>2. w \in Seq(Tokens) /\ Len(w) = 1 + Len(v) /\ w[1] = from
  BY <1>1, ConcatProperties
<1> HIDE DEF w
<1>3. w # <<>>
  BY <1>2, EmptySeq, LenProperties
<1> QED
  BY <1>2, <1>3 DEF Posted, Event, w

-----------------------------------------------------------------------------
(* The handler's steps.                                                    *)

LEMMA IdleType == Idle \in HandlerType /\ Idle.pc = "idle"
<1>1. <<>> \in Seq(Tokens)
  BY EmptySeq
<1> QED
  BY <1>1 DEF Idle, HandlerType, Event

LEMMA EndsOK ==
  ASSUME Ends
  PROVE  HandlerOK' /\ rest' \in Seq(Tokens) /\ h'.pc = "idle"
<1>1. <<>> \in Seq(Tokens)
  BY EmptySeq
<1>2. Idle \in HandlerType /\ Idle.pc = "idle"
  BY IdleType
<1>3. h' = Idle /\ rest' = <<>>
  BY DEF Ends
<1> QED
  BY <1>1, <1>2, <1>3 DEF HandlerOK

(* A notification is taken.                                                *)
LEMMA HearEffect ==
  ASSUME TypeInv, Hear
  PROVE  /\ h' \in HandlerType /\ rest' \in Seq(Tokens)
         /\ h'.ev = Head(events) /\ Posted(h'.ev) /\ h'.mixed = FALSE
         /\ IF Apart(h'.ev.name)
              THEN /\ h'.pc = "parse" /\ h'.tok = h'.ev.toks[1] /\ h'.i = 0
                   /\ h'.vals = BlankMsg(h'.ev.name) /\ ~h'.found
                   /\ rest' = SubSeq(h'.ev.toks, 2, Len(h'.ev.toks))
              ELSE h'.pc = "act"
<1> DEFINE ev == Head(events)  s == Strtok(ev.toks)
<1>1. Posted(ev) /\ ev \in [name: Names, toks: Seq(Tokens)] /\ <<>> \in Seq(Tokens)
      /\ rest \in Seq(Tokens)
  BY HeadOK, EmptySeq DEF TypeInv, RestOK, Hear
<1>2. ev \in [name: Names \cup {None}, toks: Seq(Tokens)]
  BY <1>1
<1>3. CASE Apart(ev.name)
  <2>1. /\ h' = [Idle EXCEPT !.pc = "parse", !.ev = ev, !.tok = s.tok,
                             !.vals = BlankMsg(ev.name)]
        /\ rest' = s.rest
    BY <1>3 DEF Hear, Apart
  <2>2. ev.toks # <<>> /\ ev.toks[1] \in {"RDK", "MESH"} /\ ev.toks[1] # Empty
    <3>1. ev.name # "wifi_init"
      BY <1>1, <1>3, KindFacts DEF Apart
    <3> QED
      BY <1>1, <3>1, Bounds DEF Posted
  <2>3. s = [tok |-> ev.toks[1], rest |-> SubSeq(ev.toks, 2, Len(ev.toks))]
    BY <1>1, <2>2, StrtokFirst
  <2>4. BlankMsg(ev.name) \in Seq(Tokens) /\ s.tok \in Tokens \cup {Nil}
        /\ s.rest \in Seq(Tokens)
    BY <1>1, BlankMsgFits, StrtokType
  <2> HIDE DEF s, ev
  <2>5. h' \in HandlerType
    BY <1>1, <1>2, <2>1, <2>4, IdleType DEF HandlerType
  <2>6. /\ h'.ev = ev /\ h'.mixed = FALSE /\ h'.pc = "parse" /\ h'.i = 0
        /\ h'.tok = ev.toks[1] /\ h'.vals = BlankMsg(ev.name) /\ ~h'.found
        /\ rest' = SubSeq(ev.toks, 2, Len(ev.toks))
    BY <2>1, <2>3 DEF Idle
  <2> QED
    BY <1>1, <1>3, <2>1, <2>4, <2>5, <2>6 DEF ev
<1>4. CASE ~Apart(ev.name)
  <2>1. h' = [Idle EXCEPT !.pc = "act", !.ev = ev, !.found = TRUE] /\ rest' = rest
    BY <1>4 DEF Hear, Apart
  <2> HIDE DEF ev
  <2>2. h' \in HandlerType
    BY <1>1, <1>2, <2>1, IdleType DEF HandlerType
  <2>3. h'.ev = ev /\ h'.mixed = FALSE /\ h'.pc = "act"
    BY <2>1 DEF Idle
  <2> QED
    BY <1>1, <1>4, <2>1, <2>2, <2>3 DEF ev
<1> QED
  BY <1>3, <1>4

(* One round of the loop: it ends, or goes on to the next token.           *)
Stops == h.tok = Nil \/ (h.i = 0 /\ ~Listens(h.ev.name, h.tok))

Filling(j) == j = h.i /\ Fits(Fields(h.ev.name)[j], h.tok)

LEMMA ParseEffect ==
  ASSUME TypeInv, Parse
  PROVE  /\ h.pc = "parse" /\ Posted(h.ev) /\ Apart(h.ev.name)
         /\ h' \in HandlerType /\ rest' \in Seq(Tokens)
         /\ h'.ev = h.ev /\ h'.mixed = h.mixed /\ Fitting(h.ev.name, h'.vals)
         /\ IF Stops
              THEN h'.pc = "act" /\ h'.found = h.found /\ h'.vals = h.vals
              ELSE /\ h.tok \in Tokens
                   /\ h'.pc = "parse" /\ h'.tok = Strtok(rest).tok
                   /\ rest' = Strtok(rest).rest
                   /\ h'.i # 0 /\ (h.i <= 5 => h'.i = h.i + 1)
                   /\ \A j \in 1..Len(h'.vals) :
                        h'.vals[j] = IF Filling(j)
                                       THEN Convert(Fields(h.ev.name)[j], h.tok)
                                     ELSE h.vals[j]
<1> DEFINE name == h.ev.name  t == Strtok(rest)
<1>1. /\ h.pc = "parse" /\ Posted(h.ev) /\ Apart(name) /\ h \in HandlerType
      /\ Fitting(name, h.vals) /\ HandlerOK /\ rest \in Seq(Tokens)
      /\ name \in Names
  BY DEF Parse, TypeInv, HandlerOK, RestOK, Posted
<1>2. t.tok \in Tokens \cup {Nil} /\ t.rest \in Seq(Tokens)
  BY <1>1, StrtokType
<1>3. Len(Fields(name)) \in Nat /\ Len(Fields(name)) <= 5
  BY <1>1, FieldsType
<1>4. CASE Stops
  <2>1. h' = [h EXCEPT !.pc = "act"] /\ rest' = rest
    BY <1>4 DEF Parse, Stops
  <2>2. /\ h' \in HandlerType /\ h'.ev = h.ev /\ h'.mixed = h.mixed
        /\ h'.vals = h.vals /\ h'.pc = "act" /\ h'.found = h.found
    BY <1>1, <2>1 DEF HandlerType
  <2> QED
    BY <1>1, <1>4, <2>1, <2>2
<1>5. CASE ~Stops
  <2>0. h.tok \in Tokens /\ h.tok # Nil
    BY <1>1, <1>5 DEF Stops, HandlerType
  <2>1. CASE h.i \in 1..Len(Fields(name))
    <3> DEFINE g == Filled(name, h.i)
    <3>1. /\ h' = [g EXCEPT !.tok = t.tok, !.i = g.i + 1] /\ rest' = t.rest
      BY <1>5, <2>1 DEF Parse, Stops, NextToken, Fields
    <3>2. /\ g \in HandlerType /\ Fitting(name, g.vals)
          /\ g.pc = "parse" /\ g.ev = h.ev /\ g.i = h.i /\ g.mixed = h.mixed
          /\ \A j \in 1..Len(g.vals) :
               g.vals[j] = IF j = h.i /\ Fits(Fields(name)[h.i], h.tok)
                             THEN Convert(Fields(name)[h.i], h.tok)
                           ELSE h.vals[j]
      BY <1>1, <2>0, <2>1, FilledFits
    <3> HIDE DEF g, t
    <3>3. h.i + 1 \in 0..6 /\ h.i # 0 /\ h.i \in Nat /\ h.i + 1 # 0
      BY <1>3, <2>1
    <3>4. /\ h' \in HandlerType /\ h'.ev = h.ev /\ h'.mixed = h.mixed
          /\ h'.vals = g.vals /\ h'.pc = "parse" /\ h'.tok = t.tok
          /\ h'.i = h.i + 1
      BY <1>2, <3>1, <3>2, <3>3 DEF HandlerType
    <3>5. \A j \in 1..Len(h'.vals) :
            h'.vals[j] = IF Filling(j) THEN Convert(Fields(name)[j], h.tok)
                         ELSE h.vals[j]
      BY <3>2, <3>4 DEF Filling
    <3> QED
      BY <1>1, <1>2, <1>5, <2>0, <3>1, <3>2, <3>3, <3>4, <3>5 DEF t
  <2>2. CASE h.i \notin 1..Len(Fields(name))
    <3> DEFINE k == IF h.i > 5 THEN 5 ELSE h.i
    <3>1. h' = [h EXCEPT !.tok = t.tok, !.i = k + 1] /\ rest' = t.rest
      <4>1. ~(h.tok = Nil \/ (h.i = 0 /\ ~Listens(name, h.tok)))
        BY <1>5 DEF Stops
      <4>2. NextToken([h EXCEPT !.i = k])
        BY <2>2, <4>1 DEF Parse, Fields
      <4>3. [h EXCEPT !.i = k].i = k
        BY <1>1 DEF HandlerType
      <4> HIDE DEF k
      <4> QED
        BY <1>1, <4>2, <4>3 DEF NextToken, HandlerType
    <3>2. /\ k + 1 \in 0..6 /\ k + 1 # 0 /\ (h.i <= 5 => k + 1 = h.i + 1)
      BY <1>1 DEF HandlerType
    <3> HIDE DEF t, k
    <3>3. /\ h' \in HandlerType /\ h'.ev = h.ev /\ h'.mixed = h.mixed
          /\ h'.vals = h.vals /\ h'.pc = "parse" /\ h'.tok = t.tok
          /\ h'.i = k + 1
      BY <1>1, <1>2, <3>1, <3>2 DEF HandlerType
    <3>4. \A j \in 1..Len(h.vals) : ~Filling(j)
      BY <1>1, <2>2 DEF Filling, Fitting
    <3> QED
      BY <1>1, <1>2, <1>5, <2>0, <3>1, <3>2, <3>3, <3>4 DEF t
  <2> QED
    BY <2>1, <2>2
<1> QED
  BY <1>4, <1>5

LEMMA ActFacts ==
  ASSUME TypeInv, NEW kind, Act(kind)
  PROVE  /\ h.pc = "act" /\ h.found /\ h \in HandlerType
         /\ Posted(h.ev) /\ h.ev.name \in Names /\ h.ev.toks \in Seq(Tokens)
         /\ Kinds[h.ev.name].act = kind
         /\ h.vals \in Seq(Tokens)
         /\ kind \notin {"forward", "reset"} =>
              Apart(h.ev.name) /\ Fitting(h.ev.name, h.vals)
<1>1. h.pc = "act" /\ h.found /\ Kinds[h.ev.name].act = kind /\ HandlerOK
  BY DEF Act, TypeInv
<1> QED
  BY <1>1 DEF HandlerOK, HandlerType, Posted, Apart

(* What is told of an event.                                               *)
LEMMA TellOK ==
  ASSUME TypeInv, NEW v \in Seq(Tokens), h.ev.name \in Names, Tell(v)
  PROVE  told' \in [name: Names \cup {None}, vals: Seq(Tokens)]
BY DEF Tell

LEMMA ActStep ==
  ASSUME TypeInv, TellVendor \/ Forward \/ SetUrl \/ ReportClients \/ SetEnabled
  PROVE  TypeInv'
<1> USE DEF TypeInv, mesh
<1>1. CASE TellVendor
  <2>1. HandlerOK' /\ rest' \in Seq(Tokens) /\ UNCHANGED <<events, reported, mesh>>
    BY <1>1, EndsOK DEF TellVendor
  <2>2. told' \in [name: Names \cup {None}, vals: Seq(Tokens)]
    BY <1>1, ActFacts, TellOK DEF TellVendor
  <2> QED
    BY <2>1, <2>2 DEF EventsOK, RestOK
<1>2. CASE Forward
  <2>1. HandlerOK' /\ rest' \in Seq(Tokens) /\ UNCHANGED <<events, reported, mesh>>
    BY <1>2, EndsOK DEF Forward
  <2>2. told' \in [name: Names \cup {None}, vals: Seq(Tokens)]
    BY <1>2, ActFacts, TellOK DEF Forward
  <2> QED
    BY <2>1, <2>2 DEF EventsOK, RestOK
<1>3. CASE SetUrl
  <2>1. HandlerOK' /\ rest' \in Seq(Tokens) /\ UNCHANGED <<reported, mesh>>
    BY <1>3, EndsOK DEF SetUrl
  <2>2. h.ev.name \in Names /\ h.vals \in Seq(Tokens) /\ h.vals[1] \in Tokens
    <3>1. /\ h.ev.name \in Names /\ Kinds[h.ev.name].act = "url"
          /\ h.vals \in Seq(Tokens) /\ Fitting(h.ev.name, h.vals)
      BY <1>3, ActFacts DEF SetUrl
    <3>2. Len(h.vals) = 1
      BY <3>1, KindFacts DEF KindOK, Fitting, Fields
    <3> QED
      BY <3>1, <3>2, ElementOfSeq
  <2>3. CASE UNCHANGED <<told, events>>
    BY <2>1, <2>3 DEF EventsOK, RestOK
  <2>4. CASE Tell(h.vals) /\ Announce("mesh_url", h.vals[1])
    <3>1. told' \in [name: Names \cup {None}, vals: Seq(Tokens)]
      BY <2>2, <2>4, TellOK
    <3>2. "mesh_url" \in Names \ {"wifi_init"}
      BY DEF Names, Kinds
    <3>3. EventsOK'
      BY <2>2, <2>4, <3>2, AnnounceOK
    <3> QED
      BY <2>1, <3>1, <3>3 DEF RestOK
  <2> QED
    BY <1>3, <2>3, <2>4 DEF SetUrl
<1>4. CASE ReportClients
  <2>1. /\ HandlerOK' /\ rest' \in Seq(Tokens) /\ UNCHANGED <<events, told, mesh>>
    BY <1>4, EndsOK DEF ReportClients
  <2>2. reported' = (h.vals[1] \in Full)
    BY <1>4 DEF ReportClients
  <2>3. reported' \in BOOLEAN
    BY <2>2
  <2> QED
    BY <2>1, <2>3 DEF EventsOK, RestOK
<1>5. CASE SetEnabled
  <2>1. /\ HandlerOK' /\ rest' \in Seq(Tokens)
        /\ UNCHANGED <<events, told, reported, on, service, raced>>
    BY <1>5, EndsOK DEF SetEnabled
  <2>2. h.vals[1] \in {"true", "false"}
    <3>1. /\ h.ev.name \in Names /\ Kinds[h.ev.name].act = "enable"
          /\ h.vals \in Seq(Tokens) /\ Fitting(h.ev.name, h.vals)
      BY <1>5, ActFacts DEF SetEnabled
    <3>2. Fields(h.ev.name) = <<"flag">>
      BY <3>1, KindFacts DEF KindOK, Fields
    <3>3. Fields(h.ev.name)[1] = "flag" /\ Len(h.vals) = 1
      BY <3>1, <3>2 DEF Fitting
    <3> QED
      BY <3>1, <3>3 DEF Fitting
  <2>3. switch' \in {None, "true", "false"}
    BY <1>5, <2>2 DEF SetEnabled, RestOK
  <2> QED
    BY <2>1, <2>3 DEF EventsOK, RestOK
<1> QED
  BY <1>1, <1>2, <1>3, <1>4, <1>5

LEMMA TypeStep ==
  ASSUME TypeInv, [Next]_vars
  PROVE  TypeInv'
<1> USE DEF TypeInv, mesh
<1>e. <<>> \in Seq(Tokens)
  BY EmptySeq
<1>m. NoMsg \in [name: Names \cup {None}, vals: Seq(Tokens)]
  BY <1>e DEF NoMsg
<1>r. ASSUME Rest  PROVE Len(events) < MaxEvents
  BY <1>r, Bounds, EmptySeq DEF Rest
<1>1. ASSUME NEW name \in Names, NEW v \in Values(name), NEW from \in {"RDK", "MESH"},
             name # "wifi_init", Rest, Post(name, <<from>> \o v),
             told' = NoMsg, UNCHANGED <<h, rest, reported, mesh>>
      PROVE  TypeInv'
  <2>1. EventsOK'
    BY <1>1, <1>r, ValuesType, OriginOK, PostOK
  <2> QED
    BY <1>1, <1>m, <2>1 DEF HandlerOK, RestOK
<1>2. ASSUME NEW val \in {"start", "stop", Empty}, WifiRestarts(val)
      PROVE  TypeInv'
  <2>1. <<val>> \in Seq(Tokens) /\ <<val>> # <<>> /\ <<val>>[1] = val
    BY Bounds
  <2>2. "wifi_init" \in Names
    BY DEF Names, Kinds
  <2>3. Posted(Event("wifi_init", <<val>>))
    BY <2>1, <2>2 DEF Posted, Event
  <2>4. EventsOK'
    BY <1>2, <1>r, <2>1, <2>2, <2>3, PostOK DEF WifiRestarts
  <2> QED
    BY <1>2, <1>m, <2>4 DEF WifiRestarts, HandlerOK, RestOK
<1>3. CASE Hear
  <2>1. EventsOK'
    BY <1>3, HeadOK DEF Hear
  <2>2. HandlerOK' /\ rest' \in Seq(Tokens)
    <3>1. /\ h' \in HandlerType /\ rest' \in Seq(Tokens) /\ Posted(h'.ev)
          /\ \/ /\ Apart(h'.ev.name) /\ h'.pc = "parse"
                /\ h'.vals = BlankMsg(h'.ev.name)
             \/ ~Apart(h'.ev.name) /\ h'.pc = "act"
      BY <1>3, HearEffect
    <3>2. Fitting(h'.ev.name, BlankMsg(h'.ev.name))
      BY <3>1, BlankMsgFits DEF Posted
    <3> QED
      BY <3>1, <3>2 DEF HandlerOK
  <2>3. told' = NoMsg /\ reported' = FALSE /\ UNCHANGED mesh
    BY <1>3 DEF Hear
  <2> QED
    BY <1>m, <2>1, <2>2, <2>3 DEF RestOK
<1>4. CASE Parse
  <2>1. /\ Posted(h'.ev) /\ Apart(h'.ev.name) /\ h' \in HandlerType
        /\ Fitting(h'.ev.name, h'.vals) /\ rest' \in Seq(Tokens)
        /\ h'.pc \in {"parse", "act"}
    BY <1>4, ParseEffect
  <2>2. UNCHANGED <<events, told, reported, mesh>>
    BY <1>4 DEF Parse
  <2> QED
    BY <2>1, <2>2 DEF EventsOK, HandlerOK, RestOK
<1>5. CASE Ignore
  <2>1. HandlerOK' /\ rest' \in Seq(Tokens)
    BY <1>5, EndsOK DEF Ignore
  <2> QED
    BY <1>5, <2>1 DEF Ignore, EventsOK, RestOK
<1>6. CASE TellVendor \/ Forward \/ SetUrl \/ ReportClients \/ SetEnabled
  BY <1>6, ActStep
<1>7. CASE WifiReset
  <2>1. /\ h.pc = "act" /\ h \in HandlerType /\ Posted(h.ev)
        /\ h.ev.name = "wifi_init" /\ h.ev.name \in Names
    BY <1>7, ActFacts, KindFacts DEF WifiReset
  <2>2. h' = [h EXCEPT !.pc = "service"] \/ h' = Idle
    BY <1>7 DEF WifiReset
  <2>3. HandlerOK'
    BY <2>1, <2>2, IdleType DEF HandlerOK, HandlerType
  <2>4. told' \in [name: Names \cup {None}, vals: Seq(Tokens)]
    <3>1. <<"true">> \in Seq(Tokens)
      BY Bounds
    <3> QED
      BY <1>7, <2>1, <3>1, TellOK DEF WifiReset, RestOK
  <2> QED
    BY <1>7, <2>3, <2>4 DEF WifiReset, EventsOK, RestOK
<1>8. CASE SetService
  <2>1. HandlerOK' /\ rest' \in Seq(Tokens)
        /\ UNCHANGED <<events, told, reported, on, switch>>
    BY <1>8, EndsOK DEF SetService
  <2>2. service' \in BOOLEAN
    BY <1>8 DEF SetService, RestOK
  <2>3. raced' \in BOOLEAN
    BY <1>8 DEF SetService, RestOK
  <2> QED
    BY <2>1, <2>2, <2>3 DEF EventsOK, RestOK
<1>9. CASE OtherStrtok
  <2>1. rest' \in Seq(Tokens)
    <3>1. <<"0">> \in Seq(Tokens)
      BY Bounds DEF Numbers
    <3>2. Strtok(rest).rest \in Seq(Tokens)
      BY StrtokType DEF RestOK
    <3> QED
      BY <1>9, <3>1, <3>2 DEF OtherStrtok
  <2>2. HandlerOK'
    <3>1. h' = [h EXCEPT !.mixed = h.mixed \/ h.pc = "parse"]
      BY <1>9 DEF OtherStrtok
    <3> QED
      BY <3>1 DEF HandlerOK, HandlerType
  <2> QED
    BY <1>9, <2>1, <2>2 DEF OtherStrtok, EventsOK, RestOK
<1>10. ASSUME NEW v \in {"true", "false"}, Switch(v)
       PROVE  TypeInv'
  <2>1. raced' \in BOOLEAN
    BY <1>10 DEF Switch
  <2> QED
    BY <1>10, <2>1 DEF Switch, EventsOK, HandlerOK, RestOK
<1>11. CASE SwitchService
  BY <1>11 DEF SwitchService, EventsOK, HandlerOK, RestOK
<1>12. CASE SwitchDone
  <2>1. "mesh_status" \in Names \ {"wifi_init"} /\ "Off" \in Tokens
    BY Bounds DEF Names, Kinds
  <2>2. EventsOK'
    BY <1>12, <2>1, AnnounceOK DEF SwitchDone
  <2>3. raced' \in BOOLEAN
    BY <1>12 DEF SwitchDone
  <2> QED
    BY <1>12, <2>2, <2>3 DEF SwitchDone, HandlerOK, RestOK
<1>13. CASE UNCHANGED vars
  BY <1>13 DEF vars, EventsOK, HandlerOK, RestOK
<1>14. ASSUME NEW name \in Names, NEW v \in Values(name), ProcessSyncMessage(name, v)
       PROVE  TypeInv'
  BY <1>1, <1>14 DEF ProcessSyncMessage, VendorNames
<1>15. ASSUME NEW name \in Names, NEW v \in Values(name), GatewaySets(name, v)
       PROVE  TypeInv'
  BY <1>1, <1>15 DEF GatewaySets
<1> QED
  BY <1>2, <1>3, <1>4, <1>5, <1>6, <1>7, <1>8, <1>9, <1>10, <1>11, <1>12, <1>13,
     <1>14, <1>15 DEF Next, Handler

LEMMA TypeInit == Init => TypeInv
<1> SUFFICES ASSUME Init  PROVE TypeInv
  OBVIOUS
<1>1. <<>> \in Seq(Tokens) /\ <<>> \in Seq([name: Names, toks: Seq(Tokens)])
      /\ Len(<<>>) = 0
  BY EmptySeq
<1>2. EventsOK
  BY <1>1, Bounds DEF Init, EventsOK
<1>3. HandlerOK
  BY IdleType DEF Init, HandlerOK
<1>4. RestOK
  BY <1>1 DEF Init, RestOK, NoMsg
<1> QED
  BY <1>2, <1>3, <1>4 DEF TypeInv

(* Every event that waits is one that can be set, a message has a value    *)
(* for each field, and strtok's position is always within some value       *)
(* (Mesh_sysevent_handler, Mesh_ProcessSyncMessage).                       *)
THEOREM TypeCorrect == Spec => []TypeOK
<1>1. TypeInv /\ [Next]_vars => TypeInv'
  BY TypeStep
<1>2. TypeInv => TypeOK
  BY DEF TypeInv, EventsOK, HandlerOK, HandlerType, RestOK, TypeOK
<1> QED
  BY <1>1, <1>2, TypeInit, PTL DEF Spec

-----------------------------------------------------------------------------
(* What any step does to the handler.                                      *)
LEMMA HandlerSteps ==
  ASSUME TypeInv, [Next]_vars
  PROVE  \/ Hear
         \/ Parse
         \/ OtherStrtok /\ h' = [h EXCEPT !.mixed = h.mixed \/ h.pc = "parse"]
         \/ UNCHANGED <<h, rest>>
         \/ h'.pc \in {"idle", "service"}
<1>1. ASSUME Ends  PROVE h'.pc \in {"idle", "service"}
  BY <1>1, EndsOK
<1>2. CASE Ignore \/ TellVendor \/ Forward \/ SetUrl \/ ReportClients
           \/ SetEnabled \/ SetService
  BY <1>1, <1>2 DEF Ignore, TellVendor, Forward, SetUrl, ReportClients, SetEnabled,
                    SetService
<1>3. CASE WifiReset
  <2>1. h \in HandlerType
    BY DEF TypeInv, HandlerOK
  <2> QED
    BY <1>3, <2>1, IdleType DEF WifiReset, HandlerType
<1>4. CASE OtherStrtok
  BY <1>4 DEF OtherStrtok
<1> QED
  BY <1>2, <1>3, <1>4
  DEF Next, Handler, ProcessSyncMessage, GatewaySets, WifiRestarts, Switch,
      SwitchService, SwitchDone, vars

LEMMA HeardStep ==
  ASSUME TypeInv, Heard, [Next]_vars
  PROVE  Heard'
<1>1. CASE Hear
  <2>1. \/ /\ h'.pc = "parse" /\ h'.i = 0 /\ h'.tok = h'.ev.toks[1] /\ ~h'.found
        \/ ~Apart(h'.ev.name) /\ h'.pc = "act"
    BY <1>1, HearEffect
  <2> QED
    BY <2>1 DEF Heard
<1>2. CASE Parse
  <2>1. h.pc = "parse" /\ h'.ev = h.ev
    BY <1>2, ParseEffect
  <2>2. CASE Stops
    <3>1. h'.pc = "act" /\ h'.found = h.found
      BY <1>2, <2>2, ParseEffect
    <3> QED
      BY <2>1, <3>1 DEF Heard
  <2>3. CASE ~Stops
    <3>1. h'.pc = "parse" /\ h'.i # 0
      BY <1>2, <2>3, ParseEffect
    <3>2. Listens(h.ev.name, h.ev.toks[1])
      BY <2>1, <2>3 DEF Heard, Stops
    <3> QED
      BY <2>1, <3>1, <3>2 DEF Heard, Listens
  <2> QED
    BY <2>2, <2>3
<1>3. CASE h' = [h EXCEPT !.mixed = h.mixed \/ h.pc = "parse"]
  <2>1. h \in HandlerType
    BY DEF TypeInv, HandlerOK
  <2>2. /\ h'.pc = h.pc /\ h'.ev = h.ev /\ h'.tok = h.tok /\ h'.i = h.i
        /\ h'.found = h.found
    BY <1>3, <2>1 DEF HandlerType
  <2> QED
    BY <2>2 DEF Heard, Listens
<1>4. CASE h' = h
  BY <1>4 DEF Heard, Listens
<1>5. CASE h'.pc \in {"idle", "service"}
  BY <1>5 DEF Heard
<1> QED
  BY <1>1, <1>2, <1>3, <1>4, <1>5, HandlerSteps

LEMMA HeardInit == Init => Heard
BY IdleType DEF Init, Heard

(* Who sends something to the vendor, and of which event.                  *)
LEMMA WhoTells ==
  ASSUME TypeInv, Heard, [Next]_vars, Tells, h.ev.toks[1] = "MESH"
  PROVE  told'.name = "onewifi_XLE_Extender_mode"
<1>1. TellVendor \/ Forward \/ SetUrl \/ WifiReset
  BY DEF Tells, Next, Handler, ProcessSyncMessage, GatewaySets, WifiRestarts,
         Hear, Parse, Ignore, ReportClients, SetEnabled, SetService, OtherStrtok,
         Switch, SwitchService, SwitchDone, vars
<1>2. ASSUME NEW kind \in {"tell", "url"}, Act(kind)  PROVE FALSE
  <2>1. /\ h.ev.name \in Names /\ Kinds[h.ev.name].act = kind
        /\ Apart(h.ev.name) /\ h.pc = "act" /\ h.found
    BY <1>2, ActFacts
  <2>2. Kinds[h.ev.name].from = "RDK"
    BY <2>1, KindFacts DEF KindOK
  <2>3. Listens(h.ev.name, h.ev.toks[1])
    BY <2>1 DEF Heard
  <2> QED
    BY <2>2, <2>3 DEF Listens
<1>3. CASE TellVendor
  BY <1>2, <1>3 DEF TellVendor
<1>4. CASE SetUrl
  BY <1>2, <1>4 DEF SetUrl
<1>5. CASE WifiReset
  <2>1. h.ev.name = "wifi_init" /\ Posted(h.ev)
    BY <1>5, ActFacts, KindFacts DEF WifiReset
  <2>2. h.ev.toks[1] \in {"start", "stop", Empty}
    BY <2>1 DEF Posted
  <2> QED
    BY <2>2, Bounds
<1>6. CASE Forward
  <2>1. h.ev.name = "onewifi_XLE_Extender_mode"
    BY <1>6, ActFacts, KindFacts DEF Forward
  <2> QED
    BY <1>6, <2>1 DEF Forward, Tell
<1> QED
  BY <1>1, <1>3, <1>4, <1>5, <1>6

(* What the vendor has set itself does not come back to it, however other  *)
(* threads' strtok mixes the tokens up, the extender mode excepted         *)
(* (Mesh_sysevent_handler).                                                *)
THEOREM NothingComesBack == Spec => NoEcho
<1>1. Init => TypeInv /\ Heard
  BY TypeInit, HeardInit
<1>2. TypeInv /\ Heard /\ [Next]_vars => (TypeInv /\ Heard)'
  BY TypeStep, HeardStep
<1>3. TypeInv /\ Heard /\ [Next]_vars
        => [Tells /\ h.ev.toks[1] = "MESH"
              => told'.name = "onewifi_XLE_Extender_mode"]_vars
  BY WhoTells
<1> QED
  BY <1>1, <1>2, <1>3, PTL DEF Spec, NoEcho

-----------------------------------------------------------------------------
(* A handler that was told meshEnable may still start the service, and the *)
(* service may run only with mesh, or while it is being switched on.       *)
LEMMA FollowsStep ==
  ASSUME TypeInv, Follows, [Next]_vars
  PROVE  Follows'
<1> USE DEF Follows, mesh
<1>t. on \in BOOLEAN /\ service \in BOOLEAN /\ raced \in BOOLEAN
      /\ switch \in {None, "true", "false"} /\ None # "true" /\ None # "false"
      /\ h \in HandlerType
  BY DEF TypeInv, RestOK, HandlerOK, None
<1>1. ASSUME NEW name \in Names, NEW v \in Values(name),
             ProcessSyncMessage(name, v) \/ GatewaySets(name, v)
      PROVE  Follows'
  BY <1>1 DEF ProcessSyncMessage, GatewaySets
<1>2. ASSUME NEW val \in {"start", "stop", Empty}, WifiRestarts(val)
      PROVE  Follows'
  BY <1>2 DEF WifiRestarts
<1>3. CASE Hear
  <2>1. h'.pc \in {"parse", "act"}
    BY <1>3, HearEffect
  <2> QED
    BY <1>3, <2>1 DEF Hear
<1>4. CASE Parse
  <2>1. h'.pc \in {"parse", "act"}
    BY <1>4, ParseEffect
  <2> QED
    BY <1>4, <2>1 DEF Parse
<1>5. CASE Ignore \/ TellVendor \/ Forward \/ SetUrl \/ ReportClients
  <2>1. h'.pc = "idle" /\ UNCHANGED mesh
    BY <1>5, EndsOK DEF Ignore, TellVendor, Forward, SetUrl, ReportClients
  <2> QED
    BY <2>1
<1>6. CASE SetEnabled
  <2>1. h'.pc = "idle" /\ UNCHANGED <<on, service, raced>>
    BY <1>6, EndsOK DEF SetEnabled
  <2>2. switch' = switch \/ switch = None
    BY <1>6 DEF SetEnabled
  <2> QED
    BY <1>t, <2>1, <2>2
<1>7. CASE WifiReset
  <2>1. UNCHANGED mesh /\ (on \/ h' = Idle)
    BY <1>7 DEF WifiReset
  <2> QED
    BY <2>1, IdleType
<1>8. CASE SetService
  <2>1. h'.pc = "idle" /\ h.pc = "service" /\ UNCHANGED <<on, switch>>
    BY <1>8, EndsOK DEF SetService
  <2>2. ~raced' => ~raced
    BY <1>8 DEF SetService
  <2> QED
    BY <2>1, <2>2
<1>9. CASE OtherStrtok
  <2>1. h'.pc = h.pc
    BY <1>9, <1>t DEF OtherStrtok, HandlerType
  <2> QED
    BY <1>9, <2>1 DEF OtherStrtok
<1>10. ASSUME NEW v \in {"true", "false"}, Switch(v)
       PROVE  Follows'
  BY <1>10 DEF Switch
<1>11. CASE SwitchService
  BY <1>11, <1>t DEF SwitchService
<1>12. CASE SwitchDone
  BY <1>12, <1>t DEF SwitchDone
<1>13. CASE UNCHANGED vars
  BY <1>13 DEF vars
<1> QED
  BY <1>1, <1>2, <1>3, <1>4, <1>5, <1>6, <1>7, <1>8, <1>9, <1>10, <1>11, <1>12,
     <1>13 DEF Next, Handler

(* A restart of the wifi does not bring the service to life on a gateway   *)
(* where mesh is off, unless it met a switch half way (Mesh_sysevent_      *)
(* handler's wifi_init branch against handleMeshEnable).                   *)
THEOREM NoServiceWithoutMesh == Spec => []ServiceFollowsMesh
<1>1. Init => TypeInv /\ Follows
  BY TypeInit, IdleType DEF Init, Follows
<1>2. TypeInv /\ Follows /\ [Next]_vars => (TypeInv /\ Follows)'
  BY TypeStep, FollowsStep
<1>3. Follows => ServiceFollowsMesh
  BY DEF Follows, ServiceFollowsMesh, None
<1> QED
  BY <1>1, <1>2, <1>3, PTL DEF Spec

-----------------------------------------------------------------------------
(* A value that is whole, taken apart by a handler that is left alone.     *)

LEMMA AsSetType ==
  ASSUME NEW ev, Posted(ev), Whole(ev)
  PROVE  LET f == Fields(ev.name)
         IN /\ Len(f) \in Nat /\ Len(f) <= 5 /\ Len(ev.toks) = Len(f) + 1
            /\ Empty \notin ToSet(ev.toks)
            /\ \A i \in 1..Len(ev.toks) : ev.toks[i] \in Tokens /\ ev.toks[i] # Nil
            /\ AsSet(ev) \in Seq(Tokens) /\ Len(AsSet(ev)) = Len(f)
            /\ \A i \in 1..Len(f) :
                 AsSet(ev)[i] = IF Fits(f[i], ev.toks[i + 1])
                                  THEN Convert(f[i], ev.toks[i + 1]) ELSE Blank(f[i])
<1> DEFINE f == Fields(ev.name)
           e(i) == IF Fits(f[i], ev.toks[i + 1])
                     THEN Convert(f[i], ev.toks[i + 1]) ELSE Blank(f[i])
<1>1. ev.name \in Names /\ ev.toks \in Seq(Tokens)
  BY DEF Posted
<1>2. /\ Len(f) \in Nat /\ Len(f) <= 5 /\ \A i \in 1..Len(f) : f[i] \in Types
      /\ Len(ev.toks) = Len(f) + 1 /\ Empty \notin ToSet(ev.toks)
  BY <1>1, FieldsType DEF Whole, Fields
<1>3. \A i \in 1..Len(ev.toks) : ev.toks[i] \in Tokens /\ ev.toks[i] # Nil
  BY <1>1, ElementOfSeq, Bounds
<1>4. AsSet(ev) = [i \in 1..Len(f) |-> e(i)]
  BY DEF AsSet, Fields
<1>5. \A i \in 1..Len(f) : e(i) \in Tokens
  <2> SUFFICES ASSUME NEW i \in 1..Len(f)  PROVE e(i) \in Tokens
    OBVIOUS
  <2>1. f[i] \in Types /\ ev.toks[i + 1] \in Tokens
    BY <1>2, <1>3
  <2> HIDE DEF f
  <2> QED
    BY <2>1, FieldType
<1> HIDE DEF f, e
<1>6. AsSet(ev) \in Seq(Tokens) /\ Len(AsSet(ev)) = Len(f)
      /\ \A i \in 1..Len(f) : AsSet(ev)[i] = e(i)
  BY <1>2, <1>4, <1>5
<1> QED
  BY <1>2, <1>3, <1>6 DEF f, e

LEMMA InStepHear ==
  ASSUME TypeInv, Hear, Apart(h'.ev.name), Whole(h'.ev)
  PROVE  InStep'
<1> DEFINE n == Len(h'.ev.toks)
<1>1. /\ Posted(h'.ev) /\ h'.tok = h'.ev.toks[1] /\ h'.i = 0
      /\ h'.vals = BlankMsg(h'.ev.name)
      /\ rest' = SubSeq(h'.ev.toks, 2, n)
  BY HearEffect
<1>2. h'.ev.name \in Names
  BY <1>1 DEF Posted
<1>3. n \in Nat /\ n > 0
  BY <1>1, AsSetType
<1> HIDE DEF n
<1>4. h'.tok = IF h'.i < n THEN h'.ev.toks[h'.i + 1] ELSE Nil
  BY <1>1, <1>3
<1>5. \A j \in 1..Len(h'.vals) :
        h'.vals[j] = IF j < h'.i THEN AsSet(h'.ev)[j]
                     ELSE Blank(Fields(h'.ev.name)[j])
  <2>1. \A j \in 1..Len(h'.vals) : ~(j < h'.i)
    BY <1>1
  <2>2. \A j \in 1..Len(h'.vals) : h'.vals[j] = Blank(Fields(h'.ev.name)[j])
    BY <1>1, <1>2, BlankMsgFits
  <2> QED
    BY <2>1, <2>2
<1>6. h'.i <= n /\ h'.i + 2 = 2
  BY <1>1, <1>3
<1> QED
  BY <1>1, <1>4, <1>5, <1>6 DEF InStep, AsSet, Blank, n

LEMMA InStepParse ==
  ASSUME TypeInv, Parse, Whole(h.ev), InStep, ~Stops
  PROVE  InStep'
<1> DEFINE s == h.ev.toks  n == Len(s)  f == Fields(h.ev.name)  i == h.i
           a == AsSet(h.ev)
<1>1. /\ Posted(h.ev) /\ h'.ev = h.ev /\ h'.tok = Strtok(rest).tok
      /\ rest' = Strtok(rest).rest /\ (i <= 5 => h'.i = i + 1)
      /\ Fitting(h.ev.name, h'.vals) /\ h.tok \in Tokens
      /\ \A j \in 1..Len(h'.vals) :
           h'.vals[j] = IF j = i /\ Fits(f[j], h.tok) THEN Convert(f[j], h.tok)
                        ELSE h.vals[j]
  BY ParseEffect DEF Filling
<1>2. /\ n \in Nat /\ n = Len(f) + 1 /\ Len(f) \in Nat /\ Len(f) <= 5
      /\ Empty \notin ToSet(s) /\ s \in Seq(Tokens)
      /\ \A j \in 1..Len(f) : a[j] = IF Fits(f[j], s[j + 1]) THEN Convert(f[j], s[j + 1])
                                     ELSE Blank(f[j])
  BY <1>1, AsSetType DEF Posted
<1>3. i \in Nat /\ Len(h'.vals) = Len(f) /\ Len(h.vals) = Len(f)
  BY <1>1, ParseEffect DEF TypeInv, HandlerOK, HandlerType, Fitting
<1>4. /\ i <= n /\ h.tok = (IF i < n THEN s[i + 1] ELSE Nil)
      /\ rest = SubSeq(s, i + 2, n)
      /\ \A j \in 1..Len(f) : h.vals[j] = IF j < i THEN a[j] ELSE Blank(f[j])
  BY <1>3 DEF InStep
<1> HIDE DEF s, n, f, i, a
<1>5. i < n /\ h.tok = s[i + 1]
  BY <1>1, <1>4, Bounds
<1>6. h'.i = i + 1 /\ i + 1 <= n /\ i + 2 \in 1..(n + 1)
  BY <1>1, <1>2, <1>3, <1>5
<1>7. /\ h'.tok = IF i + 2 <= n THEN s[i + 2] ELSE Nil
      /\ rest' = SubSeq(s, (i + 2) + 1, n)
  BY <1>1, <1>2, <1>4, <1>6, StrtokSteps DEF n
<1>8. ASSUME NEW j \in 1..Len(f)
      PROVE  h'.vals[j] = IF j < i + 1 THEN a[j] ELSE Blank(f[j])
  <2>1. CASE j = i
    <3>1. j < i + 1 /\ h.tok = s[j + 1] /\ h.vals[j] = Blank(f[j])
      BY <1>3, <1>4, <1>5, <2>1
    <3> QED
      BY <1>1, <1>2, <1>3, <2>1, <3>1
  <2>2. CASE j # i
    <3>1. (j < i + 1) = (j < i)
      BY <1>3, <2>2
    <3> QED
      BY <1>1, <1>3, <1>4, <2>2, <3>1
  <2> QED
    BY <2>1, <2>2
<1>9. /\ h'.tok = IF h'.i < n THEN s[h'.i + 1] ELSE Nil
      /\ rest' = SubSeq(s, h'.i + 2, n)
  <2>1. h'.i + 1 = i + 2 /\ h'.i + 2 = (i + 2) + 1 /\ (h'.i < n) = (i + 2 <= n)
    BY <1>2, <1>3, <1>6
  <2> QED
    BY <1>7, <2>1
<1>10. \A j \in 1..Len(h'.vals) :
         h'.vals[j] = IF j < h'.i THEN a[j] ELSE Blank(f[j])
  BY <1>3, <1>6, <1>8
<1>11. /\ h'.ev.toks = s /\ Len(h'.ev.toks) = n
       /\ AsSet(h'.ev) = a /\ Fields(h'.ev.name) = f
  BY <1>1 DEF s, n, f, a
<1>12. \A j \in 1..Len(h'.vals) :
         h'.vals[j] = IF j < h'.i THEN AsSet(h'.ev)[j]
                      ELSE Blank(Fields(h'.ev.name)[j])
  BY <1>10, <1>11
<1>13. /\ h'.i <= Len(h'.ev.toks)
       /\ h'.tok = IF h'.i < Len(h'.ev.toks) THEN h'.ev.toks[h'.i + 1] ELSE Nil
       /\ rest' = SubSeq(h'.ev.toks, h'.i + 2, Len(h'.ev.toks))
  BY <1>6, <1>9, <1>11
<1> QED
  BY <1>12, <1>13 DEF InStep, AsSet, Blank

LEMMA InStepStops ==
  ASSUME TypeInv, Heard, h.pc = "parse", Whole(h.ev), InStep, Stops, h.found
  PROVE  h.vals = AsSet(h.ev)
<1> DEFINE s == h.ev.toks  n == Len(s)  f == Fields(h.ev.name)  i == h.i
           a == AsSet(h.ev)
<1>1. Posted(h.ev) /\ Fitting(h.ev.name, h.vals) /\ h.vals \in Seq(Tokens) /\ i \in Nat
  BY DEF TypeInv, HandlerOK, HandlerType
<1>2. /\ n \in Nat /\ n = Len(f) + 1 /\ Len(f) \in Nat
      /\ \A k \in 1..n : s[k] # Nil
      /\ a \in Seq(Tokens) /\ Len(a) = Len(f)
  BY <1>1, AsSetType
<1>3. h.tok = Nil
  BY DEF Heard, Stops
<1>4. /\ i <= n /\ h.tok = (IF i < n THEN s[i + 1] ELSE Nil)
      /\ \A j \in 1..Len(h.vals) : h.vals[j] = IF j < i THEN a[j] ELSE Blank(f[j])
  BY DEF InStep
<1>5. Len(h.vals) = Len(f)
  BY <1>1 DEF Fitting
<1> HIDE DEF s, n, f, i, a
<1>6. i = n
  <2>1. ASSUME i < n  PROVE FALSE
    <3>1. i + 1 \in 1..n
      BY <1>1, <1>2, <2>1
    <3> QED
      BY <1>2, <1>3, <1>4, <2>1, <3>1
  <2> QED
    BY <1>1, <1>2, <1>4, <2>1
<1>7. \A j \in 1..Len(h.vals) : h.vals[j] = a[j]
  <2>1. \A j \in 1..Len(h.vals) : j < i
    BY <1>2, <1>5, <1>6
  <2> QED
    BY <1>4, <2>1
<1> QED
  BY <1>1, <1>2, <1>5, <1>7, SeqEqual DEF a

LEMMA TakenApartStep ==
  ASSUME TypeInv, Heard, TakenApart, [Next]_vars
  PROVE  TakenApart'
<1>1. CASE Hear
  <2>1. \/ Apart(h'.ev.name) /\ h'.pc = "parse"
        \/ ~Apart(h'.ev.name) /\ h'.pc = "act"
    BY <1>1, HearEffect
  <2>2. Apart(h'.ev.name) /\ Alone' => InStep'
    BY <1>1, InStepHear DEF Alone, Whole
  <2> QED
    BY <2>1, <2>2 DEF TakenApart, Apart
<1>2. CASE Parse
  <2>1. h.pc = "parse" /\ h'.ev = h.ev /\ h'.mixed = h.mixed
    BY <1>2, ParseEffect
  <2>2. Alone' => Alone /\ Whole(h.ev)
    BY <2>1 DEF Alone, Whole
  <2>3. CASE Stops
    <3>1. h'.pc = "act" /\ h'.found = h.found /\ h'.vals = h.vals
      BY <1>2, <2>3, ParseEffect
    <3>2. Alone' /\ h'.found => h.vals = AsSet(h.ev)
      BY <2>1, <2>2, <2>3, <3>1, InStepStops DEF TakenApart
    <3> QED
      BY <2>1, <3>1, <3>2 DEF TakenApart, AsSet, Blank
  <2>4. CASE ~Stops
    <3>1. h'.pc = "parse"
      BY <1>2, <2>4, ParseEffect
    <3>2. Alone' => InStep'
      BY <1>2, <2>1, <2>2, <2>4, InStepParse DEF TakenApart
    <3> QED
      BY <3>1, <3>2 DEF TakenApart
  <2> QED
    BY <2>3, <2>4
<1>3. CASE h' = [h EXCEPT !.mixed = h.mixed \/ h.pc = "parse"]
  <2>1. h \in HandlerType
    BY DEF TypeInv, HandlerOK
  <2>2. /\ h'.pc = h.pc /\ h'.ev = h.ev /\ h'.found = h.found /\ h'.vals = h.vals
        /\ (h'.pc = "parse" => h'.mixed) /\ (h.mixed => h'.mixed)
    BY <1>3, <2>1 DEF HandlerType
  <2>3. h'.pc = "parse" => ~Alone'
    BY <2>2 DEF Alone
  <2>4. Alone' => Alone
    BY <2>2 DEF Alone, Whole
  <2> QED
    BY <2>2, <2>3, <2>4 DEF TakenApart, Apart, AsSet, Blank
<1>4. CASE UNCHANGED <<h, rest>>
  BY <1>4 DEF TakenApart, Alone, Whole, InStep, Apart, AsSet, Blank, Fields
<1>5. CASE h'.pc \in {"idle", "service"}
  BY <1>5 DEF TakenApart
<1> QED
  BY <1>1, <1>2, <1>3, <1>4, <1>5, HandlerSteps

(* A value without an empty field reaches the vendor with each field in    *)
(* its place and converted, unless another thread uses strtok while it is  *)
(* taken apart: for every kind of event the handler has a parser for       *)
(* (Mesh_sysevent_handler).                                                *)
THEOREM ToldFieldByField == Spec => ToldAsSet
<1>1. Init => TypeInv /\ Heard /\ TakenApart
  BY TypeInit, HeardInit, IdleType DEF Init, TakenApart
<1>2. TypeInv /\ Heard /\ TakenApart /\ [Next]_vars => (TypeInv /\ Heard /\ TakenApart)'
  BY TypeStep, HeardStep, TakenApartStep
<1>3. TypeInv /\ TakenApart /\ [Next]_vars
        => [TellVendor /\ Whole(h.ev) /\ ~h.mixed => told'.vals = AsSet(h.ev)]_vars
  <2> SUFFICES ASSUME TypeInv, TakenApart, TellVendor, Whole(h.ev), ~h.mixed
               PROVE  told'.vals = AsSet(h.ev)
    OBVIOUS
  <2>1. Act("tell") /\ told'.vals = h.vals
    BY DEF TellVendor, Tell
  <2>2. h.pc = "act" /\ h.found /\ Apart(h.ev.name)
    BY <2>1, ActFacts
  <2> QED
    BY <2>1, <2>2 DEF TakenApart, Alone
<1> QED
  BY <1>1, <1>2, <1>3, PTL DEF Spec, ToldAsSet
=============================================================================
