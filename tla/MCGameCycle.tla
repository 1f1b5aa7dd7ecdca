----------------------------- MODULE MCGameCycle -----------------------------
(* Small shards of GameCycle for TLC. *)
EXTENDS GameCycle, TLC

CONSTANTS m1, m2, m3, s1, s2, s3

\* One service on each of two machines; two services on one of them.
OneEach == (s1 :> m1) @@ (s2 :> m2)
OnFirst == (s1 :> m1)
Nobody == [s \in {} |-> m1]
TwoOnFirst == (s1 :> m1) @@ (s2 :> m1)
===============================================================================
