------------------------------- MODULE LockStep -------------------------------
(* What the ticks of a shard promise to its services: they play the same game  *)
(* cycles together.  A cycle starts only when every service in the game has    *)
(* played the one before, so no service is ever more than one cycle away from  *)
(* another, while services come and go at any moment.                          *)
EXTENDS Integers

CONSTANT Players

Absent == -1   \* a service that is not in the game

VARIABLES
  cycle,    \* the cycle being played
  played    \* played[p]: the last cycle p has played, or Absent

lockVars == <<cycle, played>>

Present == {p \in Players : played[p] # Absent}

LockInit == cycle = 0 /\ played = [p \in Players |-> Absent]

\* A service comes in with the present cycle played, or still to be played.
Join(p) ==
  /\ played[p] = Absent
  /\ \E c \in {cycle, cycle - 1} : c >= 0 /\ played' = [played EXCEPT ![p] = c]
  /\ UNCHANGED cycle

\* Services leave, several at once when their machine is lost.
Leave(P) ==
  /\ P # {} /\ P \subseteq Present
  /\ played' = [p \in Players |-> IF p \in P THEN Absent ELSE played[p]]
  /\ UNCHANGED cycle

Play(p) ==
  /\ p \in Present /\ played[p] + 1 = cycle
  /\ played' = [played EXCEPT ![p] = cycle]
  /\ UNCHANGED cycle

\* The barrier.
NextCycle ==
  /\ \A p \in Present : played[p] = cycle
  /\ cycle' = cycle + 1
  /\ UNCHANGED played

LockNext ==
  \/ \E p \in Players : Join(p) \/ Play(p)
  \/ \E P \in SUBSET Present : Leave(P)
  \/ NextCycle

LockSpec == LockInit /\ [][LockNext]_lockVars

\* No service is left behind by a cycle, or ahead of the game.
Together ==
  /\ cycle \in Nat
  /\ played \in [Players -> Nat \cup {Absent}]
  /\ \A p \in Present : played[p] \in {cycle, cycle - 1}
================================================================================
