---------------------------- MODULE SyncMessages ----------------------------
(***************************************************************************)
(* The messages between the vendor and the rest of the gateway.            *)
(*                                                                         *)
(* What the vendor sends over its socket becomes a sysevent whose value    *)
(* begins with MESH (Mesh_ProcessSyncMessage); what the gateway changes is *)
(* a sysevent that begins with RDK, and is told to the vendor.  The agent  *)
(* is notified of all of them, its own included, and Mesh_sysevent_handler *)
(* takes the values apart with strtok, one branch per kind of event.       *)
(* strtok keeps its position in one variable for the whole process, and    *)
(* the threads that hash an address or read a list of clients use it too.  *)
(*                                                                         *)
(* A value is the sequence of its fields: the origin, then what is between *)
(* the bars.  A field is a token; strtok skips those that are empty.       *)
(* sysevent, the vendor and the switch of mesh (MeshEnable) are external.  *)
(***************************************************************************)
EXTENDS Naturals, Sequences, SequencesExt

Types == {"num", "str", "flag", "rates", "status"}
None == "none"
Nil == "nil"      \* strtok's NULL
Empty == ""       \* an empty field

CONSTANTS
  Sample(_),  \* the tokens a field of a type may hold
  MaxEvents,  \* bound: notifications waiting
  Parsers     \* there are other threads that use strtok

ASSUME SyncMessagesAssumption ==
  /\ MaxEvents \in Nat \ {0} /\ Parsers \in BOOLEAN
  /\ \A type \in Types : Nil \notin Sample(type)

-----------------------------------------------------------------------------
(* The kinds of events: the origin that is listened to, the types of the   *)
(* fields, and what the handler does with them.                            *)

Kind(from, fields, act) == [from |-> from, fields |-> fields, act |-> act]

RadioChannel  == Kind("RDK", <<"num", "num">>, "tell")
RadioMode     == Kind("RDK", <<"num", "str", "flag", "flag", "flag">>, "tell")
OperatingStd  == Kind("RDK", <<"num", "str">>, "tell")
SSIDAdvertise == Kind("RDK", <<"num", "flag">>, "tell")
SSIDName      == Kind("RDK", <<"num", "str">>, "tell")
SSIDChanged   == Kind("RDK", <<"num", "num", "str">>, "tell")
ApSecurity    == Kind("RDK", <<"num", "str", "str", "str">>, "tell")
KickDevice    == Kind("RDK", <<"num", "str">>, "tell")
KickAll       == Kind("RDK", <<"num">>, "tell")
AddAcl        == Kind("RDK", <<"num", "str">>, "tell")
DelAcl        == Kind("RDK", <<"num", "str">>, "tell")
MacControl    == Kind("RDK", <<"num", "flag", "flag">>, "tell")
Subnet        == Kind("RDK", <<"str", "str">>, "tell")
TxRate        == Kind("RDK", <<"num", "rates", "rates">>, "tell")
Url           == Kind("RDK", <<"str">>, "url")
Enable        == Kind("RDK", <<"flag">>, "enable")
Status        == Kind("MESH", <<"status">>, "report")
ExtenderMode  == Kind("any", <<"str">>, "forward")
WifiInit      == Kind("any", <<>>, "reset")

(* meshSyncMsgArr and Get_MeshSyncType: the event's name gives the kind.   *)
Kinds ==
  [wifi_RadioChannel |-> RadioChannel, wifi_RadioChannelMode |-> RadioMode,
   wifi_RadioOperatingStd |-> OperatingStd,
   wifi_SSIDAdvertisementEnable |-> SSIDAdvertise, wifi_SSIDName |-> SSIDName,
   wifi_SSIDChanged |-> SSIDChanged, wifi_ApSecurity |-> ApSecurity,
   wifi_kickApAssociatedDevice |-> KickDevice,
   wifi_kickAllApAssociatedDevice |-> KickAll, wifi_addApAclDevice |-> AddAcl,
   wifi_delApAclDevice |-> DelAcl, wifi_MacAddressControlMode |-> MacControl,
   subnet_change |-> Subnet, wifi_TxRate |-> TxRate, mesh_url |-> Url,
   mesh_enable |-> Enable, mesh_status |-> Status,
   onewifi_XLE_Extender_mode |-> ExtenderMode, wifi_init |-> WifiInit]

Names == DOMAIN Kinds

(* The handler asks sysevent for these, which are all it has a branch for. *)
Registered == Names

(* What the vendor may set in its turn.                                    *)
VendorNames ==
  Names \ {"subnet_change", "wifi_TxRate", "mesh_url", "mesh_enable", "wifi_init"}

-----------------------------------------------------------------------------
(* Fields.                                                                 *)

Numbers == {"0", "1"}
TooLong == "long"
Full == {"Full", "Monitor"}
Tokens == (UNION {Sample(c) : c \in Types}) \cup Numbers
          \cup {Empty, "true", "false", "RDK", "MESH", "r", "Off", "start", "stop"}

(* Mutant of Convert: the text of a flag is passed on as it is.            *)
ConvertText(type, t) == t

(* strtol, strcpy_s, a comparison with "true", what follows the colon of a *)
(* rate, the lookup of a status.                                           *)
Convert(type, t) ==
  CASE type = "num"    -> IF t \in Numbers THEN t ELSE "0"
    [] type = "flag"   -> IF t = "true" THEN t ELSE "false"
    [] type = "status" -> IF t \in Full THEN t ELSE "Off"
    [] type = "rates"  -> IF t = "q:r" THEN "r" ELSE t
    [] type = "str"    -> t

(* strcpy_s refuses what does not fit.                                     *)
Fits(type, t) == type \in {"str", "rates"} => t # TooLong

(* A field that was not filled in.                                         *)
Blank(type) == CASE type = "num"  -> "0"
                 [] type = "flag" -> "false"
                 [] type = "status" -> "Off"
                 [] OTHER -> Empty

BlankMsg(name) == [i \in 1..Len(Kinds[name].fields) |-> Blank(Kinds[name].fields[i])]

-----------------------------------------------------------------------------
VARIABLES
  events,   \* notifications, the oldest first
  h,        \* Mesh_sysevent_handler
  rest,     \* strtok's position: the tokens left, whoever's they are
  told,     \* the message sent for this event, or None
  reported, \* the clients were reported for this event
  on,       \* g_pMeshAgent->meshEnable
  service,  \* the vendor's service runs
  switch,   \* handleMeshEnable: what it is switching to, or None
  raced     \* history: a restart and a switch of the service met

vars == <<events, h, rest, told, reported, on, service, switch,
          raced>>
mesh == <<on, service, switch, raced>>

NoMsg == [name |-> None, vals |-> <<>>]
Event(name, toks) == [name |-> name, toks |-> toks]

Idle == [pc |-> "idle", ev |-> Event(None, <<>>), tok |-> Nil, i |-> 0,
         vals |-> <<>>, found |-> FALSE, mixed |-> FALSE]

(* The fields of an event: as many as its kind has, or only the first ones.*)
Values(name) ==
  LET f == Kinds[name].fields
  IN UNION {{v \in [1..n -> UNION {Sample(f[i]) : i \in 1..Len(f)}] :
               \A i \in 1..n : v[i] \in Sample(f[i])} : n \in {1, Len(f)}}

TypeOK ==
  /\ events \in Seq([name: Names, toks: Seq(Tokens)]) /\ Len(events) <= MaxEvents
  /\ h \in [pc: {"idle", "parse", "act", "service"},
            ev: [name: Names \cup {None}, toks: Seq(Tokens)],
            tok: Tokens \cup {Nil}, i: 0..6, vals: Seq(Tokens),
            found: BOOLEAN, mixed: BOOLEAN]
  /\ rest \in Seq(Tokens)
  /\ told \in [name: Names \cup {None}, vals: Seq(Tokens)]
  /\ reported \in BOOLEAN
  /\ on \in BOOLEAN /\ service \in BOOLEAN
  /\ switch \in {None, "true", "false"} /\ raced \in BOOLEAN

Init ==
  /\ events = <<>> /\ h = Idle /\ rest = <<>>
  /\ told = NoMsg /\ reported = FALSE
  /\ on \in BOOLEAN /\ service = on /\ switch = None /\ raced = FALSE

-----------------------------------------------------------------------------
(* Where events come from.  A new one is made when nothing else goes on in *)
(* the handler: how the handler takes it does not depend on what waits.    *)
Post(name, toks) == events' = Append(events, Event(name, toks))
Announce(name, t) == IF Len(events) < MaxEvents THEN Post(name, <<"MESH", t>>)
                                                ELSE UNCHANGED events
Rest == h.pc = "idle" /\ events = <<>>

(* The gateway changes a setting.                                          *)
GatewaySets(name, v) ==
  /\ Rest
  /\ name \in Registered \ {"wifi_init"}
  /\ Post(name, <<"RDK">> \o v)
  /\ told' = NoMsg
  /\ UNCHANGED <<h, rest, reported, mesh>>

WifiRestarts(val) ==
  /\ Rest
  /\ Post("wifi_init", <<val>>)
  /\ told' = NoMsg
  /\ UNCHANGED <<h, rest, reported, mesh>>

(* Mesh_ProcessSyncMessage: each message of the vendor is set as an event. *)
ProcessSyncMessage(name, v) ==
  /\ Rest
  /\ name \in VendorNames
  /\ Len(v) = Len(Kinds[name].fields)
  /\ Post(name, <<"MESH">> \o v)
  /\ told' = NoMsg
  /\ UNCHANGED <<h, rest, reported, mesh>>

-----------------------------------------------------------------------------
(* strtok: the first token that is not empty, and what is left behind it.  *)
IsToken(s, i) == s[i] # Empty /\ \A k \in 1..(i - 1) : s[k] = Empty

Strtok(s) ==
  IF \E i \in DOMAIN s : IsToken(s, i)
    THEN LET i == CHOOSE i \in DOMAIN s : IsToken(s, i)
         IN [tok |-> s[i], rest |-> SubSeq(s, i + 1, Len(s))]
    ELSE [tok |-> Nil, rest |-> <<>>]

(* Another thread begins on a string of its own, or goes on with what it   *)
(* takes for its own.                                                      *)
OtherStrtok ==
  /\ Parsers
  /\ rest' \in {<<"0">>} \cup IF rest = <<>> THEN {} ELSE {Strtok(rest).rest}
  /\ h' = [h EXCEPT !.mixed = @ \/ h.pc = "parse"]
  /\ UNCHANGED <<events, told, reported, mesh>>

-----------------------------------------------------------------------------
(* The handler.                                                            *)

(* A notification is taken; strtok gives the first token of its value.     *)
(* Two kinds are not taken apart.                                          *)
Hear ==
  /\ h.pc = "idle" /\ events # <<>>
  /\ LET ev == Head(events)
         s  == Strtok(ev.toks)
     IN IF Kinds[ev.name].act \in {"forward", "reset"}
          THEN /\ h' = [Idle EXCEPT !.pc = "act", !.ev = ev, !.found = TRUE]
               /\ rest' = rest
          ELSE /\ h' = [Idle EXCEPT !.pc = "parse", !.ev = ev, !.tok = s.tok,
                                    !.vals = BlankMsg(ev.name)]
               /\ rest' = s.rest
  /\ events' = Tail(events)
  /\ told' = NoMsg /\ reported' = FALSE
  /\ UNCHANGED <<mesh>>

(* Mutant of Listens: any origin will do.                                  *)
ListensToAll(name, from) == from \in {"RDK", "MESH"}

(* Mutant of Listens: the status is listened to like all the others.       *)
ListensToRdk(name, from) == from = "RDK"

(* "We only process RDK sysevent messages"; those of the status are MESH.  *)
Listens(name, from) == from = Kinds[name].from

(* strtok(NULL) after a token has been dealt with.                         *)
NextToken(with) ==
  /\ h' = [with EXCEPT !.tok = Strtok(rest).tok, !.i = @ + 1]
  /\ rest' = Strtok(rest).rest

(* Mutant of Filled: the last field is left out.                           *)
FilledButLast(name, i) ==
  LET type == Kinds[name].fields[i]
  IN IF i = Len(Kinds[name].fields) \/ ~Fits(type, h.tok)
       THEN [h EXCEPT !.found = TRUE]
       ELSE [h EXCEPT !.vals[i] = Convert(type, h.tok), !.found = TRUE]

(* Field i of the message; one that does not fit stays blank.              *)
Filled(name, i) ==
  LET type == Kinds[name].fields[i]
  IN IF Fits(type, h.tok)
       THEN [h EXCEPT !.vals[i] = Convert(type, h.tok), !.found = TRUE]
       ELSE h

(* One round of the loop.                                                  *)
Parse ==
  /\ h.pc = "parse"
  /\ IF h.tok = Nil \/ (h.i = 0 /\ ~Listens(h.ev.name, h.tok))
       THEN h' = [h EXCEPT !.pc = "act"] /\ UNCHANGED rest
     ELSE IF h.i \in 1..Len(Kinds[h.ev.name].fields)
       THEN NextToken(Filled(h.ev.name, h.i))
     ELSE NextToken([h EXCEPT !.i = IF @ > 5 THEN 5 ELSE @])
  /\ UNCHANGED <<events, told, reported, mesh>>

Act(kind) == h.pc = "act" /\ Kinds[h.ev.name].act = kind /\ h.found

(* The tokens that are left are nobody's: forgotten.                       *)
Ends == h' = Idle /\ rest' = <<>>
Tell(vals) == told' = [name |-> h.ev.name, vals |-> vals]

(* Nothing of the event was for the agent.                                 *)
Ignore ==
  /\ h.pc = "act" /\ ~h.found
  /\ Ends
  /\ UNCHANGED <<events, told, reported, mesh>>

(* The message is sent, with blanks for what was missing.                  *)
TellVendor ==
  /\ Act("tell")
  /\ Tell(h.vals)
  /\ Ends
  /\ UNCHANGED <<events, reported, mesh>>

(* MESH_WIFI_EXTENDER_MODE: the whole value, whoever set it.               *)
Forward ==
  /\ Act("forward")
  /\ Tell(h.ev.toks)
  /\ Ends
  /\ UNCHANGED <<events, reported, mesh>>

(* Mesh_SetUrl: a new url is stored, told and announced.                   *)
SetUrl ==
  /\ Act("url")
  /\ \/ UNCHANGED <<told, events>>    \* syscfg has it already
     \/ Tell(h.vals) /\ Announce("mesh_url", h.vals[1])
  /\ Ends
  /\ UNCHANGED <<reported, mesh>>

(* In full and in monitor mode the vendor is told of every client.         *)
ReportClients ==
  /\ Act("report")
  /\ reported' = (h.vals[1] \in Full)
  /\ Ends
  /\ UNCHANGED <<events, told, mesh>>

(* Mesh_SetEnabled, unless in bridge mode, when it is a disabling.         *)
SetEnabled ==
  /\ Act("enable")
  /\ \/ switch # None /\ UNCHANGED switch
     \/ switch = None /\ switch' \in {h.vals[1], "false"}
  /\ Ends
  /\ UNCHANGED <<events, told, reported, on, service, raced>>

(* Mutant of WifiReset: meshEnable is not asked.                           *)
WifiResetAnyway ==
  /\ Act("reset")
  /\ Tell(<<"true">>)
  /\ h' = IF h.ev.toks[1] \in {"start", "stop"}
            THEN [h EXCEPT !.pc = "service"] ELSE Idle
  /\ UNCHANGED <<events, rest, reported, mesh>>

(* wifi_init: the vendor is told, and its service stopped while the wifi   *)
(* restarts ("start" of the restart) and started again afterwards.         *)
WifiReset ==
  /\ Act("reset")
  /\ IF on \/ service THEN Tell(<<"true">>) ELSE UNCHANGED told
  /\ h' = IF on /\ h.ev.toks[1] \in {"start", "stop"}
            THEN [h EXCEPT !.pc = "service"] ELSE Idle
  /\ UNCHANGED <<events, rest, reported, mesh>>

(* meshEnable may have changed since it was looked at.                     *)
SetService ==
  /\ h.pc = "service"
  /\ service' \in {service, h.ev.toks[1] = "stop"}
  /\ raced' = (raced \/ switch # None)
  /\ Ends
  /\ UNCHANGED <<events, told, reported, on, switch>>

-----------------------------------------------------------------------------
(* handleMeshEnable in its own thread: the service first, then meshEnable  *)
(* and the announcement of the status.  It gives up when the service does. *)
Switch(v) ==
  /\ switch = None
  /\ switch' = v
  /\ raced' = (h.pc = "service" \/ (service /\ ~on))
  /\ UNCHANGED <<events, h, rest, told, reported, on, service>>

SwitchService ==
  /\ switch # None
  /\ service # (switch = "true")
  /\ \/ service' = (switch = "true") /\ UNCHANGED switch
     \/ switch' = None /\ UNCHANGED service
  /\ UNCHANGED <<events, h, rest, told, reported, on, raced>>

SwitchDone ==
  /\ switch # None
  /\ service = (switch = "true")
  /\ on' = service
  /\ switch' = None
  /\ raced' = (raced \/ h.pc = "service")
  /\ Announce("mesh_status", "Off")
  /\ UNCHANGED <<h, rest, told, reported, service>>

Handler == Hear \/ Parse \/ Ignore \/ TellVendor \/ Forward \/ SetUrl
           \/ ReportClients \/ SetEnabled \/ WifiReset \/ SetService

Next ==
  \/ \E name \in Names : \E v \in Values(name) :
       ProcessSyncMessage(name, v)
       \/ GatewaySets(name, v)
  \/ \E val \in {"start", "stop", Empty} : WifiRestarts(val)
  \/ Handler
  \/ OtherStrtok
  \/ \E v \in {"true", "false"} : Switch(v)
  \/ SwitchService \/ SwitchDone

Spec == Init /\ [][Next]_vars /\ WF_vars(Handler)

-----------------------------------------------------------------------------
Tells == told' # told /\ told' # NoMsg

(* What was set, field by field, without the loop.                         *)
AsSet(ev) ==
  LET f == Kinds[ev.name].fields
  IN [i \in 1..Len(f) |-> IF Fits(f[i], ev.toks[i + 1])
                            THEN Convert(f[i], ev.toks[i + 1]) ELSE Blank(f[i])]

Whole(ev) == Len(ev.toks) = Len(Kinds[ev.name].fields) + 1
             /\ Empty \notin ToSet(ev.toks)

(* The parsers of Mesh_sysevent_handler: a value without an empty field    *)
(* reaches the vendor with each field in its place, as long as no other    *)
(* thread uses strtok while it is taken apart.                             *)
ToldAsSet ==
  [][TellVendor /\ Whole(h.ev) /\ ~h.mixed => told'.vals = AsSet(h.ev)]_vars

(* "We only process RDK sysevent messages": what the vendor has set itself *)
(* does not come back to it, with the exception of the extender mode, even *)
(* when tokens get mixed up.                                               *)
NoEcho ==
  [][Tells /\ h.ev.toks[1] = "MESH" => told'.name = "onewifi_XLE_Extender_mode"]_vars

(* "if Plume told us that they are in full mode, we should send them the   *)
(* list of connected devices": it gets them, unless another thread's       *)
(* strtok takes the status away.                                           *)
StatusAnswered ==
  LET full == Event("mesh_status", <<"MESH", "Full">>)
  IN (events # <<>> /\ events[1] = full) ~> (reported \/ (h.ev = full /\ h.mixed))

(* A restart of the wifi does not bring the vendor's service to life on a  *)
(* gateway where mesh is off, unless it meets a switch half way.           *)
ServiceFollowsMesh == switch = None /\ ~raced => (service => on)
=============================================================================
