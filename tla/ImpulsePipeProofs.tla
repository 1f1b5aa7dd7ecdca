-------------------------- MODULE ImpulsePipeProofs --------------------------
(* What the abstract impulse pipe promises, for any number of impulses.  The   *)
(* link of the frontend and a client implements PipeSpec (ImpulsesArriveOnce   *)
(* of ClientLink), so the promise is one about the impulses of a client.       *)
EXTENDS ImpulsePipe, SequenceTheorems, TLAPS

PipeInv == posted \in Nat /\ delivered \in Seq(Nat) /\ PipePromise

\* A batch is a sequence of the impulses from the first to the last, each once.
LEMMA BatchOnce ==
  ASSUME NEW first \in Nat, NEW last \in Nat, first <= last
  PROVE  /\ Batch(first, last) \in Seq(Nat)
         /\ Len(Batch(first, last)) = last - first + 1
         /\ \A i \in 1 .. last - first + 1 : Batch(first, last)[i] = first + i - 1
  BY DEF Batch

\* Every step keeps the promise; a delivery appends impulses that are new.
LEMMA PipeStep ==
  ASSUME PipeInv, [PipeNext]_pipeVars
  PROVE  PipeInv'
<1> USE DEF PipeInv, PipePromise
<1>1. CASE Post
  <2>1. ToSet(delivered) \subseteq 1 .. posted /\ delivered' = delivered /\ confirmed' = confirmed
        /\ posted' = posted + 1 /\ posted \in Nat
    BY <1>1 DEF Post
  <2>2. ToSet(delivered') = ToSet(delivered) /\ 1 .. posted \subseteq 1 .. posted'
    BY <2>1 DEF ToSet
  <2> QED BY <2>1, <2>2
<1>2. ASSUME NEW first \in 1 .. posted, NEW last \in 1 .. posted, Deliver(first, last)
      PROVE  PipeInv'
  <2> DEFINE n == Len(delivered)
             new == Batch(first, last)
  <2>1. /\ first <= last /\ (first .. last) \cap ToSet(delivered) = {}
        /\ delivered' = delivered \o new /\ posted' = posted /\ confirmed' = confirmed
    BY <1>2 DEF Deliver
  <2>2. /\ new \in Seq(Nat) /\ Len(new) = last - first + 1
        /\ \A i \in 1 .. last - first + 1 : new[i] = first + i - 1
    BY <2>1, BatchOnce
  <2> HIDE DEF new
  <2>3. delivered \in Seq(Nat) /\ posted \in Nat /\ n \in Nat /\ DOMAIN delivered = 1 .. n
    OBVIOUS
  <2>4. /\ delivered' \in Seq(Nat) /\ Len(delivered') = n + (last - first + 1)
        /\ \A i \in 1 .. n : delivered'[i] = delivered[i]
        /\ \A i \in n + 1 .. n + (last - first + 1) : delivered'[i] = first + (i - n) - 1
    <3>1. /\ delivered \o new \in Seq(Nat)
          /\ Len(delivered \o new) = Len(delivered) + Len(new)
          /\ \A i \in 1 .. Len(delivered) + Len(new) : (delivered \o new)[i] =
               IF i <= Len(delivered) THEN delivered[i] ELSE new[i - Len(delivered)]
      <4> HIDE DEF n, PipeInv
      <4> QED BY <2>2, <2>3, ConcatProperties, Zenon
    <3> QED BY <2>1, <2>2, <2>3, <3>1
  <2>5. DOMAIN delivered' = 1 .. n + (last - first + 1)
    BY <2>4
  <2> HIDE DEF n
  <2>6. \A i \in 1 .. n : delivered[i] \in 1 .. posted /\ ~(delivered[i] \in first .. last)
    <3>1. \A i \in 1 .. n : delivered[i] \in ToSet(delivered)
      BY <2>3 DEF ToSet
    <3> QED BY <2>1, <3>1
  <2>7. ToSet(delivered') \subseteq 1 .. posted /\ ToSet(delivered) \subseteq ToSet(delivered')
    <3>1. \A i \in DOMAIN delivered' : delivered'[i] \in 1 .. posted
      BY <2>3, <2>4, <2>5, <2>6
    <3>2. \A i \in DOMAIN delivered : i \in DOMAIN delivered' /\ delivered[i] = delivered'[i]
      BY <2>1, <2>3, <2>4, <2>5
    <3> QED BY <3>1, <3>2 DEF ToSet
  <2>8. \A i, j \in DOMAIN delivered' : delivered'[i] = delivered'[j] => i = j
    <3> SUFFICES ASSUME NEW i \in DOMAIN delivered', NEW j \in DOMAIN delivered',
                        delivered'[i] = delivered'[j]
                 PROVE  i = j
      OBVIOUS
    <3>1. CASE i \in 1 .. n /\ j \in 1 .. n
      BY <3>1, <2>3, <2>4, <2>5
    <3>2. CASE i \notin 1 .. n /\ j \notin 1 .. n
      BY <3>2, <2>3, <2>4, <2>5
    <3>3. CASE i \in 1 .. n /\ j \notin 1 .. n
      BY <3>3, <2>3, <2>4, <2>5, <2>6
    <3>4. CASE i \notin 1 .. n /\ j \in 1 .. n
      BY <3>4, <2>3, <2>4, <2>5, <2>6
    <3> QED BY <3>1, <3>2, <3>3, <3>4
  <2> QED BY <2>1, <2>4, <2>7, <2>8
<1>3. ASSUME NEW batch \in SUBSET ToSet(delivered), Confirm(batch)
      PROVE  PipeInv'
  BY <1>3 DEF Confirm, ToSet
<1>4. CASE UNCHANGED pipeVars
  BY <1>4 DEF pipeVars, ToSet
<1> QED BY <1>1, <1>2, <1>3, <1>4 DEF PipeNext

\* No impulse reaches the client twice, none reaches it that was not posted, and
\* none is confirmed before the client has it.
THEOREM PipeKeepsPromise == PipeSpec => []PipePromise
<1>1. PipeInit => PipeInv
  BY DEF PipeInit, PipeInv, PipePromise, ToSet
<1>2. PipeInv /\ [PipeNext]_pipeVars => PipeInv'
  BY PipeStep
<1>3. PipeInv => PipePromise
  BY DEF PipeInv
<1> QED BY <1>1, <1>2, <1>3, PTL DEF PipeSpec
================================================================================
