--------------------------- MODULE MCPodBackhaul ---------------------------
(* Two pods, both of which the agent can remember, and both setters.       *)
EXTENDS PodBackhaul

MCPods == {"p1", "p2"}
MCSetters == {"dml", "exec"}
=============================================================================
