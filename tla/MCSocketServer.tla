--------------------------- MODULE MCSocketServer ---------------------------
(***************************************************************************)
(* More peers than slots, so that a slot is reused, the slots run out and  *)
(* a connection finds none.                                                *)
(***************************************************************************)
EXTENDS SocketServer

CONSTANTS v1, v2, v3
=============================================================================
