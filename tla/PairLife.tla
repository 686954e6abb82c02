-------------------------------- MODULE PairLife --------------------------------
(* What the server promises of a pair, whichever of its threads works on it:    *)
(* it is made with a socket, goes into the table of its tunnel under its id,    *)
(* where it is alone, leaves it, loses its socket, and is gone; in this order,  *)
(* and every step once.                                                         *)

CONSTANT
  Pair  \* <<tunnel, pair id, object>>

VARIABLE
  phase

Vacant(p) == \A q \in Pair : q[1] = p[1] /\ q[2] = p[2] => phase[q] # "registered"

Init == phase = [p \in Pair |-> "gone"]

(* One thread makes pairs, one at a time.                                       *)
Make(p) ==
  /\ phase[p] = "gone" /\ Vacant(p)
  /\ \A q \in Pair : phase[q] # "made"
  /\ phase' = [phase EXCEPT ![p] = "made"]

Register(p) ==
  /\ phase[p] = "made" /\ Vacant(p)
  /\ phase' = [phase EXCEPT ![p] = "registered"]

Unlink(p) == phase[p] = "registered" /\ phase' = [phase EXCEPT ![p] = "unlinked"]

Stop(p) == phase[p] = "unlinked" /\ phase' = [phase EXCEPT ![p] = "stopped"]

Forget(p) == phase[p] = "stopped" /\ phase' = [phase EXCEPT ![p] = "gone"]

Next == \E p \in Pair : Make(p) \/ Register(p) \/ Unlink(p) \/ Stop(p) \/ Forget(p)

Spec == Init /\ [][Next]_phase

================================================================================
