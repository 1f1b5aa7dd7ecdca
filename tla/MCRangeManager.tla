---------------------------- MODULE MCRangeManager ----------------------------
(* Small shards of RangeManager for TLC. *)
EXTENDS RangeManager

RangeSymmetry == Permutations(Hosts) \cup Permutations(Services)
===============================================================================
