-------------------------- MODULE MCServerPairManager --------------------------
(* ServerPairManager on small sets.                                             *)

EXTENDS ServerPairManager, TLC

Symmetry == Permutations(Tunnel) \cup Permutations(PairID) \cup Permutations(Object)

================================================================================
