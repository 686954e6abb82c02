------------------------------ MODULE TunnelLife ------------------------------
(* What a tunnel promises to those who registered callbacks on it: it goes      *)
(* through the states of Tunnel::State in one direction, says once that it is   *)
(* ready, and ends with exactly one of onError and onDestroy, after which       *)
(* nothing is said any more.  It is the diagram of Tunnel.h with the edge the   *)
(* diagram lacks, from CONNECTING to DESTROYING, and without RECONNECTING,      *)
(* which no code assigns.                                                       *)

EXTENDS Sequences

VARIABLES
  phase,  \* _state.current
  told    \* the callbacks that were triggered, in their order

lifeVars == <<phase, told>>

Init == phase = "INITIAL" /\ told = <<>>

Start == phase = "INITIAL" /\ phase' = "CONNECTING" /\ UNCHANGED told

Connect ==
  /\ phase = "CONNECTING"
  /\ phase' = "CONNECTED" /\ told' = Append(told, "ready")

Fail ==
  /\ phase = "CONNECTING"
  /\ phase' = "ERR" /\ told' = Append(told, "error")

AskDestroy ==
  /\ phase \in {"CONNECTING", "CONNECTED"}
  /\ phase' = "DESTROYING" /\ UNCHANGED told

(* The end of a destroy(), of a connection, or of a destroy() whose close runs  *)
(* onclose before it returns.                                                   *)
Destroyed ==
  /\ phase \in {"CONNECTING", "CONNECTED", "DESTROYING"}
  /\ phase' = "DESTROYED" /\ told' = Append(told, "destroy")

Next == Start \/ Connect \/ Fail \/ AskDestroy \/ Destroyed

Spec == Init /\ [][Next]_lifeVars

================================================================================
