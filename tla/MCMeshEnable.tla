---------------------------- MODULE MCMeshEnable ----------------------------
(***************************************************************************)
(* The environments MeshEnable is model-checked in.                        *)
(***************************************************************************)
EXTENDS MeshEnable

(* Stores that fail or lose a commit, radios that are down, a service that *)
(* does not stop, an agent or a device that restarts at any moment.        *)
HostileFaults == {"syscfg_set", "syscfg_commit", "syscfg_get", "popen", "flag",
                  "precheck", "stop", "crash"}

(* As long as syscfg accepts what it is given and systemd can stop the     *)
(* service, whatever else goes wrong is repaired.                          *)
RepairableFaults == {"syscfg_get", "precheck", "start", "state", "crash"}

NoFaults == {}
OnlyCrash == {"crash"}
=============================================================================
