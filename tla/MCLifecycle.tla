----------------------------- MODULE MCLifecycle -----------------------------
(* Instance of Lifecycle for TLC, with a port for every case of the checks on   *)
(* ports; the constants are in Lifecycle.cfg.                                   *)

EXTENDS Lifecycle

================================================================================
