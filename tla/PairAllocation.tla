----------------------------- MODULE PairAllocation -----------------------------
(* What the client promises about pair ids, without tunnels' states, lists or   *)
(* counters: a slot (an id on a tunnel) belongs to at most one source at a time, *)
(* a source holds at most one slot, a tunnel carries at most Capacity pairs, and *)
(* a slot changes hands only by being given back first.                         *)

EXTENDS Naturals, FiniteSets

CONSTANTS
  Tunnel, PairID, Source, NoSource,
  Capacity,
  Reserved     \* the pair id that never names a pair

VARIABLE owner   \* who holds each slot

Slot == Tunnel \X PairID

Load(t) == Cardinality({s \in PairID : owner[<<t, s>>] # NoSource})

Init == owner = [slot \in Slot |-> NoSource]

Allocate(src, t, s) ==
  /\ \A slot \in Slot : owner[slot] # src
  /\ s # Reserved
  /\ owner[<<t, s>>] = NoSource
  /\ Load(t) < Capacity
  /\ owner' = [owner EXCEPT ![<<t, s>>] = src]

(* A pair is closed alone, or with all the pairs of its tunnel.                 *)
Release(t, s) == owner' = [owner EXCEPT ![<<t, s>>] = NoSource]

ReleaseTunnel(t) ==
  owner' = [slot \in Slot |-> IF slot[1] = t THEN NoSource ELSE owner[slot]]

Next ==
  \E t \in Tunnel :
    \/ \E s \in PairID :
         \/ \E src \in Source : Allocate(src, t, s)
         \/ Release(t, s)
    \/ ReleaseTunnel(t)

Spec == Init /\ [][Next]_owner

================================================================================
