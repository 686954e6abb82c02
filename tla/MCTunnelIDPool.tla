----------------------------- MODULE MCTunnelIDPool -----------------------------
(* TunnelIDPool with a pool small enough to be refilled.                        *)

EXTENDS TunnelIDPool

================================================================================
