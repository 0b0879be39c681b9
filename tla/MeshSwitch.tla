----------------------------- MODULE MeshSwitch -----------------------------
(***************************************************************************)
(* What turning mesh on and off promises, seen from outside and when it is *)
(* asked for one thing at a time: there is a wish, the copy of it that     *)
(* survives a power cycle, and a switch.  The wish changes only while the  *)
(* switch agrees with it; then it is kept, and only then the switch        *)
(* follows, or the wish to be on is withdrawn.  A restart turns the switch *)
(* off and forgets no wish; a power cycle goes back to the wish kept.      *)
(*                                                                         *)
(* A restart that comes before the new wish is kept leaves the two torn:   *)
(* the switch then follows a wish that a power cycle would take back,      *)
(* until the wish is kept or changes again.                                *)
(***************************************************************************)
VARIABLES wish, kept, torn, on

vars == <<wish, kept, torn, on>>

Init == wish \in BOOLEAN /\ kept = wish /\ torn = FALSE /\ on = FALSE

Settled == kept = wish \/ torn
StillTorn == torn' = (torn /\ wish' # kept')

Ask == wish = on /\ Settled /\ wish' = ~wish /\ UNCHANGED <<kept, on>> /\ StillTorn
Keep == kept # wish /\ kept' = wish /\ torn' = FALSE /\ UNCHANGED <<wish, on>>
KeepLater == torn /\ torn' = FALSE /\ UNCHANGED <<wish, kept, on>>
Obey == wish # on /\ Settled /\ on' = wish /\ UNCHANGED <<wish, kept, torn>>
Withdraw == wish /\ ~on /\ wish' = FALSE /\ UNCHANGED <<kept, on>> /\ StillTorn
Restart == on' = FALSE /\ torn' = (wish # kept) /\ UNCHANGED <<wish, kept>>
PowerCycle == wish' = kept /\ on' = FALSE /\ torn' = FALSE /\ UNCHANGED kept

Next == Ask \/ Keep \/ KeepLater \/ Obey \/ Withdraw \/ Restart \/ PowerCycle

Spec == Init /\ [][Next]_vars
=============================================================================
