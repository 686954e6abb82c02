----------------------------- MODULE MCUdpTunnel -----------------------------
(* UdpTunnel on small sets.                                                     *)

EXTENDS UdpTunnel

================================================================================
