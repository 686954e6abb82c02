------------------------------ MODULE PairCounter ------------------------------
(* How many pairs each tunnel carries, and the list of tunnels that can still   *)
(* take one.  The counter and the list are two views of one fact and the code   *)
(* keeps them in step by hand.                                                  *)
(*                                                                              *)
(* Every operation runs under the counter's own mutex and calls nothing else,   *)
(* so each is one action on the two variables.  A tunnel that is not counted    *)
(* has count 0: that is the value addTunnel inserts.                            *)

EXTENDS SequencesExt

CONSTANTS
  Tunnel,       \* the tunnel ids
  PairIdCount,  \* how many values a PairID has: 256 for the code's uint8
  Capacity      \* --carrying-capacity, the pairs one tunnel may carry

(* Beyond PairIdCount the constructor of ClientTunnelContext never returns.     *)
ASSUME CapacityAssumption ==
  /\ PairIdCount \in Nat \ {0}
  /\ Capacity \in 0 .. PairIdCount

VARIABLES
  counter,      \* _tunnelPairCounter
  available     \* _availableTunnelIDs, oldest first

counterVars == <<counter, available>>

NoPairsCounted == [t \in Tunnel |-> 0]

(* addTunnel appends to the list; the count it inserts is the 0 that is there.  *)
AddTunnel(list, t) == Append(list, t)

(* getAvailableTunnelID on the list `list` (createPair may have appended a new  *)
(* tunnel to it just before): count one more pair on the tunnel at the front    *)
(* and drop the tunnel from the list once it is full.                           *)
Increased(t) == IF counter[t] < Capacity THEN counter[t] + 1 ELSE counter[t]

GetAvailableTunnelID(list, t) ==
  /\ list # <<>>
  /\ t = Head(list)
  /\ counter' = [counter EXCEPT ![t] = Increased(t)]
  /\ available' = IF Increased(t) >= Capacity THEN Tail(list) ELSE list

(* pairCounterOperate(t, false): one pair less; a tunnel that now has room and  *)
(* is not listed goes to the back of the list.                                  *)
DecreasedAboveOne(t) == IF counter[t] > 1 THEN counter[t] - 1 ELSE counter[t]  \* mutant

Decreased(t) == IF counter[t] > 0 THEN counter[t] - 1 ELSE 0

(* Mutants: the "not listed yet" test left out; the relisting left out.         *)
DecreaseCounterRelisting(t) ==
  /\ counter' = [counter EXCEPT ![t] = Decreased(t)]
  /\ available' = IF Decreased(t) < Capacity THEN Append(available, t) ELSE available

DecreaseCounterNotListing(t) ==
  /\ counter' = [counter EXCEPT ![t] = Decreased(t)]
  /\ UNCHANGED available

DecreaseCounter(t) ==
  /\ counter' = [counter EXCEPT ![t] = Decreased(t)]
  /\ available' = IF Decreased(t) < Capacity /\ t \notin Range(available)
                  THEN Append(available, t)
                  ELSE available

(* removeTunnel: erase the first entry of the list, if any, and the count.      *)
RemoveCountedTunnel(t) ==
  /\ \/ t \notin Range(available) /\ UNCHANGED available
     \/ \E i \in DOMAIN available :
          /\ available[i] = t
          /\ \A j \in 1 .. (i - 1) : available[j] # t
          /\ available' = RemoveAt(available, i)
  /\ counter' = [counter EXCEPT ![t] = 0]

================================================================================
