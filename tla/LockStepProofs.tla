---------------------------- MODULE LockStepProofs ----------------------------
(* What the abstract lock step promises, for any set of services.  A shard     *)
(* implements LockSpec (ServicesPlayInLockStep of GameCycle), so the promise   *)
(* is one about its services.                                                  *)
EXTENDS LockStep, TLAPS

\* Every step keeps the services at the present cycle or the one before it.
LEMMA StepTogether ==
  ASSUME Together, [LockNext]_lockVars
  PROVE  Together'
<1> USE DEF Together, Present, Absent
<1>1. ASSUME NEW p \in Players, Join(p)
      PROVE  Together'
  <2>1. PICK c \in {cycle, cycle - 1} : c >= 0 /\ played' = [played EXCEPT ![p] = c]
    BY <1>1 DEF Join
  <2>2. c \in Nat /\ cycle' = cycle
    BY <1>1, <2>1 DEF Join
  <2>3. played' \in [Players -> Nat \cup {Absent}]
    BY <2>1, <2>2
  <2> QED BY <2>1, <2>2, <2>3
<1>2. ASSUME NEW p \in Players, Play(p)
      PROVE  Together'
  BY <1>2 DEF Play
<1>3. ASSUME NEW P \in SUBSET Present, Leave(P)
      PROVE  Together'
  BY <1>3 DEF Leave
<1>4. CASE NextCycle
  BY <1>4 DEF NextCycle
<1>5. CASE UNCHANGED lockVars
  BY <1>5 DEF lockVars
<1> QED BY <1>1, <1>2, <1>3, <1>4, <1>5 DEF LockNext

\* No service of a shard in lock step is ever more than one cycle away from the
\* game, or from another service.
THEOREM LockStepTogether == LockSpec => []Together
<1>1. LockInit => Together
  BY DEF LockInit, Together, Present, Absent
<1>2. Together /\ [LockNext]_lockVars => Together'
  BY StepTogether
<1> QED BY <1>1, <1>2, PTL DEF LockSpec
================================================================================
