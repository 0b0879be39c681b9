---------------------------- MODULE MCWebConfig ----------------------------
(* Documents with the two entries in either order, and one without the     *)
(* wrapper, which turns both off.                                          *)
EXTENDS WebConfig

Entry(k, v) == [key |-> k, value |-> v]
MCDocs == {<<Entry("Enable", TRUE), Entry("Ethbhaul", TRUE)>>,
           <<Entry("Ethbhaul", TRUE), Entry("Enable", TRUE)>>,
           <<Entry("bare", FALSE)>>}
MCFaults == FaultKinds
=============================================================================
