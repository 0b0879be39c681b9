--------------------------- MODULE MCFeatureFlags ---------------------------
(* An XB3 with the flags that depend on each other.                        *)
EXTENDS FeatureFlags

MCFlags == {"mesh", "opensync", "ovs", "gre"}
MCFaults == FaultKinds
=============================================================================
