--------------------------- MODULE MCWsClientTunnel ---------------------------
(* Instance of WsClientTunnel for TLC: the constants are in WsClientTunnel.cfg. *)
EXTENDS WsClientTunnel

================================================================================
