--------------------------- MODULE MCSyncMessages ---------------------------
(* One token that is as it should be and one that is not, for each type;   *)
(* a string may be empty.                                                  *)
EXTENDS SyncMessages

MCSample(type) ==
  CASE type = "num"    -> {"1"}
    [] type = "str"    -> {"x", "long", ""}
    [] type = "flag"   -> {"true", "x"}
    [] type = "rates"  -> {"q:r", "long"}
    [] type = "status" -> {"Full", "x"}
=============================================================================
