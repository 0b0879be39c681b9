----------------------------- MODULE MCEthPods -----------------------------
(***************************************************************************)
(* Two pods on a list with room for one of them twice; a deadline two      *)
(* ticks away that one setting of the clock can move by one.               *)
(***************************************************************************)
EXTENDS EthPods

CONSTANTS p1, p2
=============================================================================
