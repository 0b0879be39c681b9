----------------------------- MODULE MCParodus -----------------------------
(* The waits of the code.                                                  *)
EXTENDS Parodus

MCBackoff(c) == 2^c - 1
=============================================================================
