----------------------------- MODULE ClientSet ------------------------------
(***************************************************************************)
(* What the table of connected clients promises: a collection with room    *)
(* for so many clients and a count of them.  Whoever comes is looked for   *)
(* first; a client that is missing is taken in if there is room and is     *)
(* turned away, without a word, if there is none; and one entry at a time  *)
(* goes.  Several users work on it at once, and no user learns whom the    *)
(* others are about to take in: two that miss the same client both bring   *)
(* it, so that a client may have more than one copy.                       *)
(***************************************************************************)
EXTENDS Integers

CONSTANTS Universe, Users, Nobody, Capacity

VARIABLES
  copies,  \* how often each client is there
  size,    \* how many entries there are
  coming   \* the client each user did not find and is about to take in

setVars == <<coming, size, copies>>

Init ==
  /\ copies = [c \in Universe |-> 0]
  /\ size = 0
  /\ coming = [u \in Users |-> Nobody]

Come(u, c) ==
  /\ coming[u] = Nobody
  /\ coming' = [coming EXCEPT ![u] = c]
  /\ copies[c] = 0
  /\ UNCHANGED <<copies, size>>

TakeIn(u) ==
  /\ coming[u] # Nobody /\ size < Capacity
  /\ coming' = [coming EXCEPT ![u] = Nobody]
  /\ size' = size + 1
  /\ copies' = [copies EXCEPT ![coming[u]] = @ + 1]

TurnAway(u) ==
  /\ coming[u] # Nobody /\ size = Capacity
  /\ coming' = [coming EXCEPT ![u] = Nobody]
  /\ UNCHANGED <<copies, size>>

Leave(u, c) ==
  /\ coming[u] = Nobody
  /\ UNCHANGED coming
  /\ size' = size - 1
  /\ copies[c] > 0
  /\ copies' = [copies EXCEPT ![c] = @ - 1]

Next == \E u \in Users :
          \/ \E c \in Universe : Come(u, c) \/ Leave(u, c)
          \/ TakeIn(u)
          \/ TurnAway(u)

Spec == Init /\ [][Next]_setVars
=============================================================================
