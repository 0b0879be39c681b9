------------------------------- MODULE Parodus -------------------------------
(***************************************************************************)
(* Notifications to the cloud through parodus, in seconds.                 *)
(*                                                                         *)
(* One thread (connect_parodus) connects at start-up, waiting 2^c - 1      *)
(* seconds between attempts, and ends when it is connected.  Each          *)
(* notification is a thread (sendNotification) that sends over that        *)
(* connection, made or not, with waits of its own, and gives up after      *)
(* four attempts.  The two do not know of each other.                      *)
(*                                                                         *)
(* One notification is followed; the others only matter in that they, too, *)
(* write the shared deviceMAC.  parodus, its library and the file with its *)
(* URL are external.  Steps take no time, waits do.  Names that EthPods    *)
(* has as well begin with Parodus, so that one module can take both.       *)
(***************************************************************************)
EXTENDS Naturals

CONSTANTS
  Backoff(_),  \* the wait for an exponent, 2^c - 1
  MaxExp,      \* backoff_max_time of the connection: 5
  Retries      \* the retries of a notification: 3

FirstExp == 2
Exponents == FirstExp..(MaxExp + Retries)

ASSUME ParodusAssumption ==
  /\ MaxExp \in Nat /\ MaxExp > FirstExp /\ Retries \in Nat
  /\ \A c \in Exponents : Backoff(c) \in Nat
  /\ \A c, d \in Exponents : c <= d => Backoff(c) <= Backoff(d)

(* The two longest waits in a row: the URL may turn up during the first.   *)
Patience == Backoff(MaxExp - 1) + Backoff(MaxExp) + 1

VARIABLES
  parodus,   \* parodus takes connections and messages
  props,     \* the file with its URL can be read
  url,       \* the connection thread has the URL
  conn,      \* the connection thread
  mac,       \* deviceMAC: "empty", "part" or "full"
  others,    \* what another notification is about with deviceMAC
  note,      \* the notification
  reachable, \* history: for how long parodus and props have been there
  early      \* history: deviceMAC was not whole when note was raised

parodusVars == <<parodus, props, url, conn, mac, others, note, reachable, early>>

NotePcs == {"none", "look", "fetch", "write", "compose", "send", "asleep"}
Idle == [pc |-> "none", c |-> FirstExp, tried |-> 0, left |-> 0,
         source |-> "empty"]

ParodusTypeOK ==
  /\ parodus \in BOOLEAN /\ props \in BOOLEAN /\ url \in BOOLEAN
  /\ conn \in [pc: {"read", "try", "asleep", "connected"}, c: FirstExp..MaxExp,
               left: 0..Backoff(MaxExp)]
  /\ mac \in {"empty", "part", "full"} /\ others \in {"none", "looked", "writing"}
  /\ note \in [pc: NotePcs, c: FirstExp..(FirstExp + Retries + 1),
               tried: 0..(Retries + 1), left: 0..Backoff(FirstExp + Retries),
               source: {"empty", "part", "full"}]
  /\ reachable \in 0..Patience /\ early \in BOOLEAN

ParodusInit ==
  /\ parodus \in BOOLEAN /\ props \in BOOLEAN
  /\ url = FALSE
  /\ conn = [pc |-> "read", c |-> FirstExp, left |-> 0]
  /\ mac = "empty" /\ others = "none"
  /\ note = Idle
  /\ reachable = 0 /\ early = FALSE

-----------------------------------------------------------------------------
(* connect_parodus.                                                        *)

(* get_parodus_url.                                                        *)
ReadUrl ==
  /\ conn.pc = "read"
  /\ url' = props
  /\ conn' = [conn EXCEPT !.pc = "try"]
  /\ UNCHANGED <<parodus, props, mac, others, note, reachable, early>>

(* Mutant of NextExp: the wait grows to its limit and stays there.         *)
NextExpStays(c) == IF c = MaxExp THEN MaxExp ELSE c + 1

(* The wait grows to its limit and then starts over.                       *)
NextExp(c) == IF c = MaxExp THEN FirstExp ELSE c + 1

(* libparodus_init; after a failure the URL is read again if it is missing.*)
Connect ==
  /\ conn.pc = "try"
  /\ IF parodus /\ url
       THEN conn' = [conn EXCEPT !.pc = "connected"] /\ url' = url
       ELSE /\ conn' = [conn EXCEPT !.pc = "asleep", !.left = Backoff(conn.c)]
            /\ url' = (url \/ props)
  /\ UNCHANGED <<parodus, props, mac, others, note, reachable, early>>

(* The wait is over; libparodus_shutdown.                                  *)
ConnectAgain ==
  /\ conn.pc = "asleep" /\ conn.left = 0
  /\ conn' = [conn EXCEPT !.pc = "try", !.c = NextExp(@)]
  /\ UNCHANGED <<parodus, props, url, mac, others, note, reachable, early>>

-----------------------------------------------------------------------------
(* sendNotification.                                                       *)

(* notifyEvent starts the thread, unless memory or threads are short.      *)
Notify ==
  /\ note.pc = "none"
  /\ note' = [Idle EXCEPT !.pc = "look"]
  /\ early' = (mac # "full")
  /\ UNCHANGED <<parodus, props, url, conn, mac, others, reachable>>

(* "TODO: add lock": deviceMAC is tested without one.                      *)
Look ==
  /\ note.pc = "look"
  /\ note' = [note EXCEPT !.pc = IF mac = "empty" THEN "fetch" ELSE "compose"]
  /\ UNCHANGED <<parodus, props, url, conn, mac, others, reachable, early>>

(* Mutant of Begun: the address is cleared before it is written.           *)
BegunAnew(m) == "part"

(* AnscMacToLower writes the address, one character after the other; over  *)
(* one that is there already it writes the same characters.                *)
Begun(m) == IF m = "empty" THEN "part" ELSE m

(* devinfo_getv runs a script; without an answer the notification is lost. *)
(* Its caller then writes deviceMAC, whatever it has become meanwhile.     *)
Fetch ==
  /\ note.pc = "fetch"
  /\ \/ /\ note' = [note EXCEPT !.pc = "write"]
        /\ mac' = Begun(mac)
     \/ note' = Idle /\ mac' = mac
  /\ UNCHANGED <<parodus, props, url, conn, others, reachable, early>>

Write ==
  /\ note.pc = "write"
  /\ mac' = "full"
  /\ note' = [note EXCEPT !.pc = "compose"]
  /\ UNCHANGED <<parodus, props, url, conn, others, reachable, early>>

Compose ==
  /\ note.pc = "compose"
  /\ note' = [note EXCEPT !.pc = "send", !.source = mac]
  /\ UNCHANGED <<parodus, props, url, conn, mac, others, reachable, early>>

(* libparodus_send; the last failure is waited for as well.                *)
Send ==
  /\ note.pc = "send"
  /\ note' = IF conn.pc = "connected" /\ parodus THEN Idle
             ELSE [note EXCEPT !.pc = "asleep", !.tried = @ + 1,
                               !.left = Backoff(note.c), !.c = @ + 1]
  /\ UNCHANGED <<parodus, props, url, conn, mac, others, reachable, early>>

(* Mutant of SendAgain: one attempt more.                                  *)
SendOnceMore ==
  /\ note.pc = "asleep" /\ note.left = 0
  /\ note' = IF note.tried <= Retries + 1 THEN [note EXCEPT !.pc = "send"] ELSE Idle
  /\ UNCHANGED <<parodus, props, url, conn, mac, others, reachable, early>>

SendAgain ==
  /\ note.pc = "asleep" /\ note.left = 0
  /\ note' = IF note.tried <= Retries THEN [note EXCEPT !.pc = "send"] ELSE Idle
  /\ UNCHANGED <<parodus, props, url, conn, mac, others, reachable, early>>

-----------------------------------------------------------------------------
(* Another notification does the same: it finds deviceMAC empty, gets the  *)
(* address or not, and writes it, whoever has done so by then.             *)
OthersWrite ==
  /\ \/ others = "none" /\ mac = "empty" /\ others' = "looked" /\ mac' = mac
     \/ others = "looked" /\ others' = "none" /\ mac' = mac
     \/ others = "looked" /\ others' = "writing" /\ mac' = Begun(mac)
     \/ others = "writing" /\ others' = "none" /\ mac' = "full"
  /\ UNCHANGED <<parodus, props, url, conn, note, reachable, early>>

(* parodus comes and goes, and so does the file.                           *)
Environment ==
  /\ \/ parodus' = ~parodus /\ props' = props
     \/ props' = ~props /\ parodus' = parodus
  /\ reachable' = 0
  /\ UNCHANGED <<url, conn, mac, others, note, early>>

Steps == ReadUrl \/ Connect \/ ConnectAgain \/ Look \/ Fetch \/ Write
         \/ Compose \/ Send \/ SendAgain

Less(n) == IF n = 0 THEN 0 ELSE n - 1

Waits(thread, end) == thread.pc = end \/ (thread.pc = "asleep" /\ thread.left > 0)

(* A second passes when nobody has anything else to do.                    *)
Second ==
  /\ Waits(conn, "connected") /\ Waits(note, "none")
  /\ conn' = [conn EXCEPT !.left = Less(@)]
  /\ note' = [note EXCEPT !.left = Less(@)]
  /\ reachable' = IF parodus /\ props /\ reachable < Patience THEN reachable + 1
                  ELSE reachable
  /\ UNCHANGED <<parodus, props, url, mac, others, early>>

ParodusNext == Steps \/ Notify \/ OthersWrite \/ Environment \/ Second

ParodusSpec == ParodusInit /\ [][ParodusNext]_parodusVars

-----------------------------------------------------------------------------
(* connect_parodus waits "max_retry_sleep is 31" at most and then starts   *)
(* over: once parodus and its URL have been there for 47 seconds, the agent*)
(* is connected, so that a notification raised 22 seconds after they came  *)
(* (its own four attempts take 25) cannot be lost.                         *)
ConnectedInTime == reachable = Patience => conn.pc = "connected"

(* deviceMAC is tested and written without the lock that the TODO of       *)
(* sendNotification asks for.  Still only a notification raised before the *)
(* address was whole for the first time may carry a part of it: a thread   *)
(* that found it empty and writes it late does no harm.                    *)
WholeOnceKnown == note.source = "part" => early
=============================================================================
