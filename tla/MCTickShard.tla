----------------------------- MODULE MCTickShard -----------------------------
(* Small shards of TickShard for TLC. *)
EXTENDS TickShard, TLC

Waited == {[tocking |-> TRUE, threshold |-> 0]}
Mixed == Waited \cup {[tocking |-> FALSE, threshold |-> 0],
                      [tocking |-> TRUE, threshold |-> 1]}
OnlyContinuous == {"Continuous"}
BothModes == {"Continuous", "StepByStep"}
HostSymmetry == Permutations(Hosts)
===============================================================================
