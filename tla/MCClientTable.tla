--------------------------- MODULE MCClientTable ---------------------------
(***************************************************************************)
(* A small client table: three macs on two interfaces are six clients for  *)
(* three pool items and two buckets, so buckets collide and the pool runs  *)
(* out.                                                                    *)
(***************************************************************************)
EXTENDS ClientTable, TLC

CONSTANTS m1, m2, m3

SmallHash == (m1 :> 0) @@ (m2 :> 0) @@ (m3 :> 1)
=============================================================================
