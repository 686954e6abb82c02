-------------------------- MODULE ClientTunnelContext --------------------------
(* What the client keeps for each tunnel: the pool of seat numbers (pair ids)   *)
(* and the pairs that sit on them.  `pairs` holds weak references in the code;  *)
(* ClientForwarder's map owns the pairs, and MapAgreesWithPairs in              *)
(* ClientPairManager is what makes every reference live.                        *)
(*                                                                              *)
(* A tunnel that does not exist has the context its constructor would build.    *)

EXTENDS PairCounter

CONSTANTS
  Source,    \* source addresses, by the hash the forwarder keys them with
  NoSource

ASSUME NoSourceAssumption == NoSource \notin Source

VARIABLES
  seats,     \* _availablePairIDs of each tunnel
  pairs      \* _pairs of each tunnel: the source that holds each pair id

contextVars == <<seats, pairs>>

PairID == 0 .. (PairIdCount - 1)
INVALID_PAIR_ID == 0

(* initAvailablePairIDs puts 1, 2, ... until the pool holds Capacity numbers; a *)
(* PairID is a uint8, so the number after the last one is INVALID_PAIR_ID.      *)
InitialSeatsPastTheEnd == 1 .. (Capacity + 1)  \* mutant: <= for <

InitialSeats == {i % PairIdCount : i \in 1 .. Capacity}

EmptySeats == [s \in PairID |-> NoSource]

UsedSeats(t) == {s \in PairID : pairs[t][s] # NoSource}

vacancy(t) == Cardinality(seats[t])

(* takeSeatNumber returns the first number of an unordered_set, any of them, or *)
(* INVALID_PAIR_ID when there is none.                                          *)
SeatNumbers(t) == IF seats[t] = {} THEN {INVALID_PAIR_ID} ELSE seats[t]

(* takeSeatNumber and bindPair of a pair for src.  INVALID_PAIR_ID is a failure *)
(* to createPair, also when it was in the pool and has now left it.             *)
TakeSeatKeepingIt(t, seat) ==  \* mutant: the number is not erased
  /\ seat \in SeatNumbers(t)
  /\ UNCHANGED seats

TakeSeat(t, seat) ==
  /\ seat \in SeatNumbers(t)
  /\ seats' = [seats EXCEPT ![t] = @ \ {seat}]

BindPair(t, seat, src) == pairs' = [pairs EXCEPT ![t][seat] = src]

(* The close handler bindPair registers: removePair, then putSeatNumber.        *)
UnbindPairKeepingSeat(t, seat) ==  \* mutant: no putSeatNumber
  /\ pairs' = [pairs EXCEPT ![t][seat] = NoSource]
  /\ UNCHANGED seats

UnbindPair(t, seat) ==
  /\ pairs' = [pairs EXCEPT ![t][seat] = NoSource]
  /\ seats' = [seats EXCEPT ![t] = @ \cup {seat}]

(* The context goes with its tunnel.                                            *)
ResetContext(t) ==
  /\ pairs' = [pairs EXCEPT ![t] = EmptySeats]
  /\ seats' = [seats EXCEPT ![t] = InitialSeats]

================================================================================
