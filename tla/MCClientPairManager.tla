-------------------------- MODULE MCClientPairManager --------------------------
(* ClientPairManager on small sets.                                             *)

EXTENDS ClientPairManager

Symmetry == Permutations(Tunnel) \cup Permutations(Source)

================================================================================
