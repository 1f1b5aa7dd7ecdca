----------------------------- MODULE ImpulsePipe -----------------------------
(* What the impulse channels of the frontend promise to whoever posts one:     *)
(* impulses are numbered in the order they are posted; a batch of impulses     *)
(* posted one after the other reaches the client as a whole and once, and is   *)
(* confirmed to the server only when the client has it.                        *)
EXTENDS Integers, Sequences, SequencesExt

CONSTANT MaxImpulses   \* bound: impulses posted

VARIABLES
  posted,      \* impulses 1 .. posted have been posted
  delivered,   \* those the client has had, in the order it had them
  confirmed    \* those the server has been told the client has

pipeVars == <<posted, delivered, confirmed>>

PipeInit == posted = 0 /\ delivered = <<>> /\ confirmed = {}

Post ==
  /\ posted < MaxImpulses
  /\ posted' = posted + 1
  /\ UNCHANGED <<delivered, confirmed>>

\* The impulses first .. last, in order.
Batch(first, last) == [i \in 1 .. last - first + 1 |-> first + i - 1]

Deliver(first, last) ==
  /\ first <= last
  /\ (first .. last) \cap ToSet(delivered) = {}
  /\ delivered' = delivered \o Batch(first, last)
  /\ UNCHANGED <<posted, confirmed>>

Confirm(batch) ==
  /\ batch \cap confirmed = {}
  /\ confirmed' = confirmed \cup batch
  /\ UNCHANGED <<posted, delivered>>

PipeNext ==
  \/ Post
  \/ \E first, last \in 1 .. posted : Deliver(first, last)
  \/ \E batch \in SUBSET ToSet(delivered) : Confirm(batch)

PipeSpec == PipeInit /\ [][PipeNext]_pipeVars

\* Nothing is confirmed that the client has not had, nor delivered that nobody
\* has posted, nor delivered twice.
PipePromise ==
  /\ confirmed \subseteq ToSet(delivered)
  /\ ToSet(delivered) \subseteq 1 .. posted
  /\ \A i, j \in DOMAIN delivered : delivered[i] = delivered[j] => i = j
================================================================================
