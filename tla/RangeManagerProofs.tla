-------------------------- MODULE RangeManagerProofs --------------------------
(* Of the ranges of a data set, for any services, mirror services, sizes and   *)
(* number of rows, through losses, restarts and reacquisitions: they never     *)
(* overlap; none is kept that no service holds or is waiting for; a range      *)
(* given out stays in the list of TICKS until TICKS restarts; and a range is   *)
(* refused only when it does not fit.                                          *)
EXTENDS RangeManager, SequenceTheorems, FiniteSetTheorems, WellFoundedInduction, TLAPS

--------------------------------------------------------------------------------
\* Recursive functions.  The handlers go through a sequence step by step; these
\* lemmas say that such a function exists, and what it keeps from step to step.

LEMMA Least ==
  ASSUME NEW T \in SUBSET Nat, T # {}
  PROVE  \E x \in T : \A y \in T : x <= y
<1>1. PICK x \in T : \A y \in T : ~(<<y, x>> \in OpToRel(<, Nat))
  BY NatLessThanWellFounded, WFMin
<1>2. \A y \in T : ~(y < x)
  BY <1>1, Zenon DEF OpToRel
<1> QED BY <1>2

LEMMA StepByStep ==
  ASSUME NEW n \in Nat, NEW F, NEW X,
         F[0] \in X[0], \A i \in 1 .. n : F[i - 1] \in X[i - 1] => F[i] \in X[i]
  PROVE  \A i \in 0 .. n : F[i] \in X[i]
<1> DEFINE Bad == {i \in 0 .. n : F[i] \notin X[i]}
<1>1. SUFFICES ASSUME Bad # {} PROVE FALSE
  OBVIOUS
<1>2. Bad \in SUBSET Nat
  OBVIOUS
<1>3. PICK i \in Bad : \A j \in Bad : i <= j
  BY <1>1, <1>2, Least
<1>4. i # 0 /\ i \in 1 .. n
  BY <1>3
<1>5. i - 1 \in 0 .. n /\ i - 1 \notin Bad
  BY <1>3, <1>4
<1> QED BY <1>3, <1>4, <1>5

\* f goes through n steps in X, from base on.
IsIteration(f, n, X, base, step) ==
  /\ f \in [0 .. n -> X] /\ f[0] = base
  /\ \A i \in 1 .. n : f[i] = step[i][f[i - 1]]

LEMMA Iteration ==
  ASSUME NEW n \in Nat, NEW X, NEW base \in X, NEW step \in [1 .. n -> [X -> X]]
  PROVE  \E f : IsIteration(f, n, X, base, step)
<1> DEFINE Run(k, f) == /\ f \in [0 .. k -> X] /\ f[0] = base
                        /\ \A i \in 1 .. k : f[i] = step[i][f[i - 1]]
           Bad == {k \in 0 .. n : ~\E f : Run(k, f)}
<1>1. SUFFICES ASSUME Bad # {} PROVE FALSE
  <2>1. CASE Bad = {}
    <3>1. n \in 0 .. n
      OBVIOUS
    <3>2. \E f : Run(n, f)
      BY <2>1, <3>1
    <3> QED BY <3>2 DEF IsIteration
  <2> QED BY <1>1, <2>1
<1>2. Bad \in SUBSET Nat
  OBVIOUS
<1>3. PICK k \in Bad : \A j \in Bad : k <= j
  BY <1>1, <1>2, Least
<1>4. k # 0
  <2>1. Run(0, [i \in 0 .. 0 |-> base])
    OBVIOUS
  <2>2. \E f : Run(0, f)
    BY <2>1
  <2> HIDE DEF Run
  <2> QED BY <1>3, <2>2
<1>5. k \in 1 .. n /\ k - 1 \in 0 .. n /\ k - 1 \notin Bad
  BY <1>3, <1>4
<1>6. PICK f : Run(k - 1, f)
  BY <1>5
<1> DEFINE g == [i \in 0 .. k |-> IF i = k THEN step[k][f[k - 1]] ELSE f[i]]
<1>7. f[k - 1] \in X /\ step[k] \in [X -> X]
  BY <1>5, <1>6
<1>8. g \in [0 .. k -> X] /\ g[0] = base
  BY <1>5, <1>6, <1>7
<1>9. ASSUME NEW i \in 1 .. k PROVE g[i] = step[i][g[i - 1]]
  <2>1. CASE i = k
    BY <1>5, <2>1
  <2>2. CASE i # k
    BY <1>5, <1>6, <2>2
  <2> QED BY <2>1, <2>2
<1>10. Run(k, g)
  BY <1>8, <1>9
<1> QED BY <1>3, <1>10

--------------------------------------------------------------------------------
\* Types.  A range that a service is given, or a blank one, is one of at least a row.
GivenRange == {Blank} \cup {r \in [First : Rows, Last : Rows] : r.First <= r.Last}
Entry == [First : Rows, Last : Rows, OwnerServiceId : Services \cup {Nobody},
          MirrorServiceId : Hosts \cup {Nobody}]

\* What RangesApart says of the list, and that row 0 belongs to no mirror service.
Apart(list) ==
  /\ list # <<>> /\ list[1].First = 0
  /\ list[1].OwnerServiceId = Nobody /\ list[1].MirrorServiceId = Nobody
  /\ \A i \in DOMAIN list : list[i].First <= list[i].Last
  /\ \A i \in 1 .. Len(list) - 1 : list[i].Last < list[i + 1].First

Lists == {list \in Seq(Entry) : Apart(list)}

LEMMA ListParts ==
  ASSUME NEW list \in Lists
  PROVE  /\ list \in Seq(Entry) /\ Len(list) \in Nat \ {0} /\ DOMAIN list = 1 .. Len(list)
         /\ \A i \in 1 .. Len(list) :
              /\ list[i] \in Entry /\ list[i].First \in Rows /\ list[i].Last \in Rows
              /\ list[i].First <= list[i].Last
<1>1. list \in Seq(Entry) /\ list # <<>> /\ DOMAIN list = 1 .. Len(list) /\ Len(list) \in Nat
  BY DEF Lists, Apart
<1>2. Len(list) # 0
  BY <1>1, EmptySeq
<1>3. \A i \in 1 .. Len(list) : list[i] \in Entry
  BY <1>1
<1>4. \A i \in 1 .. Len(list) : list[i].First \in Rows /\ list[i].Last \in Rows
  BY <1>3 DEF Entry
<1>5. \A i \in 1 .. Len(list) : list[i].First <= list[i].Last
  BY <1>1 DEF Lists, Apart
<1> QED BY <1>1, <1>2, <1>3, <1>4, <1>5

\* Where a range goes: the first place it fits in, and there is one at the end.
IsPlaced(list, start, n, owner, m, p, prev) ==
  /\ prev = IF p = 1 THEN start ELSE list[p - 1].Last
  /\ Fits(list, p, prev, n)
  /\ \A j \in 1 .. p - 1 : ~Fits(list, j, IF j = 1 THEN start ELSE list[j - 1].Last, n)
  /\ Inserted(list, start, n, owner, m) =
       [list |-> InsertAt(list, p, RowRange(prev + 1, prev + n, owner, m)),
        range |-> [First |-> prev + 1, Last |-> prev + n]]

LEMMA Placed ==
  ASSUME NEW list \in Seq(Entry), NEW start \in Int, NEW n \in Nat, NEW owner, NEW m
  PROVE  \E p \in 1 .. Len(list) + 1, prev \in Int : IsPlaced(list, start, n, owner, m, p, prev)
<1> DEFINE prevLast(k) == IF k = 1 THEN start ELSE list[k - 1].Last
           Places == {k \in 1 .. Len(list) + 1 : Fits(list, k, prevLast(k), n)}
           place == CHOOSE k \in 1 .. Len(list) + 1 :
                      /\ Fits(list, k, prevLast(k), n)
                      /\ \A j \in 1 .. k - 1 : ~Fits(list, j, prevLast(j), n)
<1>1. Len(list) \in Nat
  OBVIOUS
<1>2. Len(list) + 1 \in Places
  BY <1>1 DEF Fits
<1>3. PICK p \in Places : \A j \in Places : p <= j
  <2>1. Places \in SUBSET Nat
    BY <1>1
  <2> HIDE DEF Places
  <2> QED BY <1>2, <2>1, Least
<1>4. p \in 1 .. Len(list) + 1 /\ Fits(list, p, prevLast(p), n)
  BY <1>3
<1>5. ASSUME NEW j \in 1 .. p - 1 PROVE ~Fits(list, j, prevLast(j), n)
  <2>1. j \in 1 .. Len(list) + 1 /\ ~(p <= j)
    BY <1>1, <1>4
  <2> QED BY <1>3, <2>1
<1> HIDE DEF prevLast
<1>6. /\ place \in 1 .. Len(list) + 1 /\ Fits(list, place, prevLast(place), n)
      /\ \A j \in 1 .. place - 1 : ~Fits(list, j, prevLast(j), n)
  BY <1>4, <1>5
<1>7. Inserted(list, start, n, owner, m) =
        [list |-> InsertAt(list, place, RowRange(prevLast(place) + 1, prevLast(place) + n, owner, m)),
         range |-> [First |-> prevLast(place) + 1, Last |-> prevLast(place) + n]]
  BY DEF Inserted, prevLast
<1> HIDE DEF place
<1>8. prevLast(place) \in Int
  <2>1. CASE place = 1
    BY <2>1 DEF prevLast
  <2>2. CASE place # 1
    <3>1. place - 1 \in 1 .. Len(list)
      BY <1>1, <1>6, <2>2
    <3>2. list[place - 1] \in Entry
      BY <3>1
    <3> QED BY <2>2, <3>2 DEF prevLast, Entry, Rows
  <2> QED BY <2>1, <2>2
<1>9. IsPlaced(list, start, n, owner, m, place, prevLast(place))
  BY <1>6, <1>7 DEF IsPlaced, prevLast
<1> QED BY <1>6, <1>8, <1>9

LEMMA InsertAtParts ==
  ASSUME NEW S, NEW s \in Seq(S), NEW p \in 1 .. Len(s) + 1, NEW e \in S
  PROVE  /\ InsertAt(s, p, e) \in Seq(S) /\ Len(InsertAt(s, p, e)) = Len(s) + 1
         /\ \A i \in 1 .. Len(s) + 1 :
              InsertAt(s, p, e)[i] = IF i < p THEN s[i] ELSE IF i = p THEN e ELSE s[i - 1]
<1> DEFINE a == SubSeq(s, 1, p - 1)
           b == SubSeq(s, p, Len(s))
<1>1. Len(s) \in Nat
  OBVIOUS
<1>2. /\ a \in Seq(S) /\ Len(a) = p - 1
      /\ \A i \in 1 .. p - 1 : a[i] = s[i]
  BY <1>1, SubSeqProperties
<1>3. /\ b \in Seq(S) /\ Len(b) = Len(s) - p + 1
      /\ \A i \in 1 .. Len(s) - p + 1 : b[i] = s[p + i - 1]
  BY <1>1, SubSeqProperties
<1>4. <<e>> \in Seq(S) /\ Len(<<e>>) = 1 /\ <<e>>[1] = e
  OBVIOUS
<1> DEFINE c == a \o <<e>>
<1> HIDE DEF a, b
<1>5. /\ c \in Seq(S) /\ Len(c) = p
      /\ \A i \in 1 .. p : c[i] = IF i < p THEN s[i] ELSE e
  <2> DEFINE d == <<e>>
  <2>1. d \in Seq(S) /\ Len(d) = 1 /\ d[1] = e
    BY <1>4
  <2> HIDE DEF d
  <2>2. /\ a \o d \in Seq(S) /\ Len(a \o d) = Len(a) + Len(d)
        /\ \A i \in 1 .. Len(a) + Len(d) :
             (a \o d)[i] = IF i <= Len(a) THEN a[i] ELSE d[i - Len(a)]
    BY <1>2, <2>1, ConcatProperties
  <2>3. Len(a) + Len(d) = p /\ p \in Nat
    BY <1>1, <1>2, <2>1
  <2>4. ASSUME NEW i \in 1 .. p PROVE (a \o d)[i] = IF i < p THEN s[i] ELSE e
    <3>1. CASE i < p
      BY <1>2, <2>2, <2>3, <3>1
    <3>2. CASE i = p
      <4>1. ~(i <= Len(a)) /\ i - Len(a) = 1
        BY <1>2, <2>3, <3>2
      <4> QED BY <2>1, <2>2, <2>3, <3>2, <4>1
    <3> QED BY <2>3, <3>1, <3>2
  <2>5. c = a \o d
    BY DEF d
  <2> HIDE DEF c
  <2> QED BY <2>2, <2>3, <2>4, <2>5
<1> HIDE DEF c
<1>6. /\ c \o b \in Seq(S) /\ Len(c \o b) = Len(s) + 1
      /\ \A i \in 1 .. Len(s) + 1 : (c \o b)[i] = IF i <= p THEN c[i] ELSE b[i - p]
  <2>1. /\ c \o b \in Seq(S) /\ Len(c \o b) = Len(c) + Len(b)
        /\ \A i \in 1 .. Len(c) + Len(b) :
             (c \o b)[i] = IF i <= Len(c) THEN c[i] ELSE b[i - Len(c)]
    BY <1>3, <1>5, ConcatProperties
  <2>2. Len(c) + Len(b) = Len(s) + 1
    BY <1>1, <1>3, <1>5
  <2> QED BY <1>5, <2>1, <2>2
<1>7. InsertAt(s, p, e) = c \o b
  BY DEF InsertAt, a, b, c
<1>8. ASSUME NEW i \in 1 .. Len(s) + 1
      PROVE (c \o b)[i] = IF i < p THEN s[i] ELSE IF i = p THEN e ELSE s[i - 1]
  <2>1. CASE i <= p
    <3>1. (c \o b)[i] = c[i] /\ i \in 1 .. p /\ i \in Int /\ p \in Int
      BY <1>1, <1>6, <2>1
    <3>2. c[i] = IF i < p THEN s[i] ELSE e
      BY <1>5, <3>1
    <3> QED BY <2>1, <3>1, <3>2
  <2>2. CASE i > p
    <3>1. i - p \in 1 .. Len(s) - p + 1 /\ p + (i - p) - 1 = i - 1
      BY <1>1, <2>2
    <3>2. b[i - p] = s[i - 1]
      BY <1>3, <3>1
    <3> QED BY <1>1, <1>6, <2>2, <3>2
  <2>3. i <= p \/ i > p
    BY <1>1
  <2> QED BY <2>1, <2>2, <2>3
<1> QED BY <1>6, <1>7, <1>8

LEMMA InsertAtEntries ==
  \A s \in Seq(Entry), e \in Entry : \A p \in 1 .. Len(s) + 1 :
    /\ InsertAt(s, p, e) \in Seq(Entry) /\ Len(InsertAt(s, p, e)) = Len(s) + 1
    /\ \A i \in 1 .. Len(s) + 1 :
         InsertAt(s, p, e)[i] = IF i < p THEN s[i] ELSE IF i = p THEN e ELSE s[i - 1]
BY InsertAtParts

--------------------------------------------------------------------------------
\* Release.  What the search for the ranges of an owner leaves after i ranges is
\* in order and ends before range i + 1.
LEMMA WithoutSteps ==
  ASSUME NEW list \in Seq(Entry), NEW released
  PROVE  \E kept :
           /\ Without(list, released) = kept[Len(list)]
           /\ kept[0] = <<>>
           /\ \A i \in 1 .. Len(list) :
                kept[i] = IF list[i] \in released THEN kept[i - 1] ELSE Append(kept[i - 1], list[i])
<1> DEFINE n == Len(list)
           Body(f) == [i \in 0 .. n |->
                         IF i = 0 THEN <<>>
                         ELSE IF list[i] \in released THEN f[i - 1] ELSE Append(f[i - 1], list[i])]
           step == [i \in 1 .. n |-> [l \in Seq(Entry) |->
                      IF list[i] \in released THEN l ELSE Append(l, list[i])]]
           kept == CHOOSE f : f = Body(f)
<1>1. n \in Nat /\ <<>> \in Seq(Entry) /\ \A i \in 1 .. n : list[i] \in Entry
  BY EmptySeq
<1>2. step \in [1 .. n -> [Seq(Entry) -> Seq(Entry)]]
  BY <1>1
<1>3. PICK f : IsIteration(f, n, Seq(Entry), <<>>, step)
  <2> HIDE DEF step, n
  <2> QED BY <1>1, <1>2, Iteration
<1>4. ASSUME NEW i \in 0 .. n PROVE f[i] = Body(f)[i]
  <2>1. CASE i = 0
    BY <1>3, <2>1 DEF IsIteration
  <2>2. CASE i # 0
    <3>1. i \in 1 .. n /\ i - 1 \in 0 .. n
      BY <2>2, <1>1
    <3> QED BY <1>3, <3>1 DEF IsIteration
  <2> QED BY <2>1, <2>2
<1>5. f = Body(f)
  BY <1>3, <1>4 DEF IsIteration
<1>6. kept = Body(kept)
  <2> HIDE DEF Body
  <2> QED BY <1>5
<1>7. Without(list, released) = kept[n]
  BY DEF Without
<1> HIDE DEF kept
<1>8. kept[0] = <<>>
  BY <1>1, <1>6
<1>9. ASSUME NEW i \in 1 .. n
      PROVE kept[i] = IF list[i] \in released THEN kept[i - 1] ELSE Append(kept[i - 1], list[i])
  <2>1. i \in 0 .. n /\ i # 0
    BY <1>1
  <2> QED BY <1>6, <2>1
<1> QED BY <1>7, <1>8, <1>9

LEMMA AppendApart ==
  ASSUME NEW list \in Lists, NEW e \in Entry, e.First <= e.Last, list[Len(list)].Last < e.First
  PROVE  Append(list, e) \in Lists /\ Append(list, e)[Len(Append(list, e))] = e
<1> DEFINE n == Len(list)
           longer == Append(list, e)
<1>1. list \in Seq(Entry) /\ n \in Nat \ {0} /\ DOMAIN list = 1 .. n
  BY ListParts
<1>2. /\ longer \in Seq(Entry) /\ Len(longer) = n + 1 /\ DOMAIN longer = 1 .. n + 1
      /\ longer[n + 1] = e /\ \A i \in 1 .. n : longer[i] = list[i]
  BY <1>1
<1> HIDE DEF longer
<1>3. longer[1] = list[1] /\ longer # <<>>
  BY <1>1, <1>2
<1>4. \A i \in DOMAIN longer : longer[i].First <= longer[i].Last
  BY <1>1, <1>2, ListParts
<1>5. ASSUME NEW i \in 1 .. n PROVE longer[i].Last < longer[i + 1].First
  <2>1. CASE i = n
    BY <1>1, <1>2, <2>1
  <2>2. CASE i # n
    <3> HIDE DEF n
    <3>1. i \in 1 .. n - 1 /\ i + 1 \in 1 .. n
      BY <1>1, <2>2
    <3> USE DEF n
    <3>2. list[i].Last < list[i + 1].First
      BY <3>1 DEF Lists, Apart
    <3> QED BY <1>2, <3>1, <3>2
  <2> QED BY <2>1, <2>2
<1>6. Apart(longer)
  BY <1>1, <1>2, <1>3, <1>4, <1>5 DEF Lists, Apart
<1> QED BY <1>1, <1>2, <1>6 DEF Lists, longer

LEMMA WithoutApart ==
  ASSUME NEW list \in Lists, NEW released, list[1] \notin released
  PROVE  Without(list, released) \in Lists
<1> DEFINE n == Len(list)
           X == [i \in 0 .. n |-> IF i = 0 THEN {<<>>}
                                  ELSE {l \in Lists : l[Len(l)].Last <= list[i].Last}]
<1>1. /\ list \in Seq(Entry) /\ n \in Nat \ {0}
      /\ \A i \in 1 .. n : /\ list[i] \in Entry /\ list[i].First \in Rows /\ list[i].Last \in Rows
                           /\ list[i].First <= list[i].Last
  BY ListParts
<1>2. PICK kept :
        /\ Without(list, released) = kept[n]
        /\ kept[0] = <<>>
        /\ \A i \in 1 .. n :
             kept[i] = IF list[i] \in released THEN kept[i - 1] ELSE Append(kept[i - 1], list[i])
  BY <1>1, WithoutSteps
<1>3. kept[0] \in X[0]
  BY <1>1, <1>2
<1>4. ASSUME NEW i \in 1 .. n, kept[i - 1] \in X[i - 1]
      PROVE  kept[i] \in X[i]
  <2>1. CASE i = 1
    <3>0. 1 - 1 = 0 /\ 1 \in 1 .. n
      BY <1>1
    <3>1. kept[1] = <<list[1]>>
      <4>1. kept[1] = Append(kept[1 - 1], list[1])
        BY <1>2, <3>0
      <4>2. kept[1 - 1] = <<>>
        BY <1>2, <3>0
      <4> QED BY <1>1, <3>0, <4>1, <4>2
    <3>2. /\ <<list[1]>> \in Seq(Entry) /\ Len(<<list[1]>>) = 1 /\ DOMAIN <<list[1]>> = 1 .. 1
          /\ <<list[1]>>[1] = list[1] /\ <<list[1]>> # <<>>
      BY <1>1
    <3>3. Apart(<<list[1]>>)
      BY <1>1, <3>2 DEF Lists, Apart
    <3>4. list[1].Last <= list[1].Last
      BY <1>1 DEF Rows
    <3> QED BY <1>1, <2>1, <3>1, <3>2, <3>3, <3>4 DEF Lists
  <2>2. CASE i # 1
    <3>1. i - 1 \in 1 .. n - 1 /\ i - 1 \in 0 .. n /\ i - 1 # 0 /\ (i - 1) + 1 = i
          /\ i \in 0 .. n /\ i # 0 /\ i - 1 \in 1 .. n
      BY <1>1, <2>2
    <3>2. list[i - 1].Last < list[i].First
      BY <3>1 DEF Lists, Apart
    <3> DEFINE l == kept[i - 1]
    <3>3. l \in Lists /\ l[Len(l)].Last <= list[i - 1].Last
      BY <1>4, <3>1
    <3> HIDE DEF l
    <3>4. l[Len(l)].Last \in Rows
      BY <3>3, ListParts
    <3>5. /\ list[i - 1].Last \in Int /\ list[i].First \in Int /\ list[i].Last \in Int
          /\ l[Len(l)].Last \in Int /\ list[i].First <= list[i].Last
      BY <1>1, <3>1, <3>4 DEF Rows
    <3>6. l[Len(l)].Last < list[i].First /\ l[Len(l)].Last <= list[i].Last
      BY <3>2, <3>3, <3>5
    <3>7. /\ Append(l, list[i]) \in Lists
          /\ Append(l, list[i])[Len(Append(l, list[i]))] = list[i]
      BY <1>1, <3>3, <3>6, AppendApart
    <3>8. kept[i] = IF list[i] \in released THEN l ELSE Append(l, list[i])
      BY <1>2 DEF l
    <3>9. kept[i] \in Lists /\ kept[i][Len(kept[i])].Last <= list[i].Last
      BY <3>3, <3>5, <3>6, <3>7, <3>8
    <3> QED BY <3>1, <3>9
  <2> QED BY <2>1, <2>2
<1>5. kept[n] \in X[n]
  <2> HIDE DEF X
  <2>1. \A i \in 0 .. n : kept[i] \in X[i]
    BY <1>1, <1>3, <1>4, StepByStep
  <2> QED BY <1>1, <2>1
<1> QED BY <1>1, <1>2, <1>5

--------------------------------------------------------------------------------
\* Insertion.  No range fits before row 0, so the place comes after a range, which
\* ends before the new one; the next range, if any, starts after it.
LEMMA InsertAtApart ==
  ASSUME NEW list \in Lists, NEW p \in 2 .. Len(list) + 1, NEW e \in Entry,
         e.First <= e.Last, list[p - 1].Last < e.First,
         p = Len(list) + 1 \/ e.Last < list[p].First
  PROVE  InsertAt(list, p, e) \in Lists
<1> DEFINE n == Len(list)
           longer == InsertAt(list, p, e)
<1>1. list \in Seq(Entry) /\ n \in Nat \ {0}
  BY ListParts
<1>2. /\ longer \in Seq(Entry) /\ Len(longer) = n + 1 /\ DOMAIN longer = 1 .. n + 1
      /\ \A i \in 1 .. n + 1 :
           longer[i] = IF i < p THEN list[i] ELSE IF i = p THEN e ELSE list[i - 1]
  <2>1. p \in 1 .. Len(list) + 1
    OBVIOUS
  <2>2. /\ longer \in Seq(Entry) /\ Len(longer) = n + 1
        /\ \A i \in 1 .. n + 1 :
             longer[i] = IF i < p THEN list[i] ELSE IF i = p THEN e ELSE list[i - 1]
    BY <1>1, <2>1, InsertAtEntries
  <2> QED BY <1>1, <2>2
<1> HIDE DEF longer
<1>3. longer[1] = list[1] /\ longer # <<>>
  BY <1>1, <1>2
<1>4. \A i \in 1 .. n : list[i].First <= list[i].Last
  BY ListParts
<1>5. \A i \in 1 .. n - 1 : list[i].Last < list[i + 1].First
  BY DEF Lists, Apart
<1> HIDE DEF n
<1>6. ASSUME NEW i \in 1 .. n + 1 PROVE longer[i].First <= longer[i].Last
  <2>1. CASE i < p
    BY <1>1, <1>2, <1>4, <2>1 DEF n
  <2>2. CASE i = p
    BY <1>1, <1>2, <2>2
  <2>3. CASE i > p
    <3>1. i - 1 \in 1 .. n /\ ~(i < p) /\ i # p
      BY <1>1, <2>3
    <3> QED BY <1>2, <1>4, <3>1
  <2> QED BY <1>1, <2>1, <2>2, <2>3
<1>7. ASSUME NEW i \in 1 .. n PROVE longer[i].Last < longer[i + 1].First
  <2>0. i \in 1 .. n + 1 /\ i + 1 \in 1 .. n + 1 /\ p \in 2 .. n + 1
    BY <1>1 DEF n
  <2>1. CASE i + 1 < p
    <3>1. i \in 1 .. n - 1 /\ i < p
      BY <1>1, <2>0, <2>1
    <3>2. longer[i] = list[i] /\ longer[i + 1] = list[i + 1]
      BY <1>2, <2>0, <2>1, <3>1
    <3> QED BY <1>5, <3>1, <3>2
  <2>2. CASE i + 1 = p
    <3>1. i < p /\ ~(i + 1 < p) /\ i = p - 1
      BY <2>0, <2>2
    <3>2. longer[i] = list[p - 1] /\ longer[i + 1] = e
      BY <1>2, <2>0, <2>2, <3>1
    <3> QED BY <3>2
  <2>3. CASE i = p
    <3>1. ~(i < p) /\ ~(i + 1 < p) /\ i + 1 # p /\ (i + 1) - 1 = p /\ p # n + 1
      BY <1>1, <2>0, <2>3
    <3>2. longer[i] = e /\ longer[i + 1] = list[p]
      BY <1>2, <2>0, <2>3, <3>1
    <3> QED BY <3>1, <3>2 DEF n
  <2>4. CASE i > p
    <3>1. ~(i < p) /\ i # p /\ ~(i + 1 < p) /\ i + 1 # p /\ (i + 1) - 1 = i
      BY <2>0, <2>4
    <3>2. longer[i] = list[i - 1] /\ longer[i + 1] = list[i]
      BY <1>2, <2>0, <3>1
    <3>3. i - 1 \in 1 .. n - 1 /\ (i - 1) + 1 = i
      BY <1>1, <2>0, <2>4
    <3>4. list[i - 1].Last < list[(i - 1) + 1].First
      BY <1>5, <3>3
    <3> QED BY <3>2, <3>3, <3>4
  <2> QED BY <2>0, <2>1, <2>2, <2>3, <2>4
<1>8. (n + 1) - 1 = n
  BY <1>1
<1>9. Apart(longer)
  BY <1>2, <1>3, <1>6, <1>7, <1>8 DEF Lists, Apart
<1> QED BY <1>2, <1>9 DEF Lists, longer

\* Row 0 is taken, so a range comes after another.
LEMMA PlacedAfter ==
  ASSUME NEW list \in Lists, NEW start \in Int, start >= -1, NEW n \in Nat \ {0},
         NEW owner, NEW m
  PROVE  \E p \in 2 .. Len(list) + 1, prev \in Rows :
           /\ p - 1 \in 1 .. Len(list) /\ prev = list[p - 1].Last
           /\ IsPlaced(list, start, n, owner, m, p, prev)
<1>1. /\ list \in Seq(Entry) /\ Len(list) \in Nat \ {0} /\ list[1].First = 0
      /\ \A i \in 1 .. Len(list) : list[i].Last \in Rows /\ list[i].First \in Rows
  BY ListParts DEF Lists, Apart
<1>2. PICK p \in 1 .. Len(list) + 1, prev \in Int :
        IsPlaced(list, start, n, owner, m, p, prev)
  BY <1>1, Placed
<1>3. prev = (IF p = 1 THEN start ELSE list[p - 1].Last) /\ Fits(list, p, prev, n)
  BY <1>2 DEF IsPlaced
<1>4. p # 1
  <2>1. SUFFICES ASSUME p = 1 PROVE FALSE
    OBVIOUS
  <2>2. start + n < 0
    BY <1>1, <1>3, <2>1 DEF Fits
  <2> QED BY <2>2
<1>5. p \in 2 .. Len(list) + 1 /\ p - 1 \in 1 .. Len(list)
      /\ prev = list[p - 1].Last /\ prev \in Rows
  BY <1>1, <1>3, <1>4
<1> QED BY <1>2, <1>5

\* What is left when a range is asked for is a list whose ranges are apart; what
\* is given is a range of the data set, or a blank one.
LEMMA LimitedApart ==
  ASSUME NEW list \in Lists, NEW start \in Int, start >= -1, NEW n \in Nat \ {0},
         NEW owner \in Services, NEW m \in Hosts
  PROVE  LET limited == Limited(list, Inserted(list, start, n, owner, m))
         IN limited.list \in Lists /\ limited.range \in GivenRange
<1>1. PICK p \in 2 .. Len(list) + 1, prev \in Rows :
        /\ p - 1 \in 1 .. Len(list) /\ prev = list[p - 1].Last
        /\ IsPlaced(list, start, n, owner, m, p, prev)
  BY PlacedAfter
<1>2. /\ Fits(list, p, prev, n)
      /\ Inserted(list, start, n, owner, m) =
           [list |-> InsertAt(list, p, RowRange(prev + 1, prev + n, owner, m)),
            range |-> [First |-> prev + 1, Last |-> prev + n]]
  BY <1>1 DEF IsPlaced
<1> DEFINE e == RowRange(prev + 1, prev + n, owner, m)
           range == [First |-> prev + 1, Last |-> prev + n]
           inserted == Inserted(list, start, n, owner, m)
<1>5. inserted.list = InsertAt(list, p, e) /\ inserted.range = range /\ range.Last = prev + n
  BY <1>2
<1>6. CASE prev + n < MaxRows
  <2>1. prev + 1 \in Rows /\ prev + n \in Rows /\ prev + 1 <= prev + n /\ prev < prev + 1
    <3>1. prev \in Int /\ prev >= 0 /\ n \in Int /\ n >= 1 /\ MaxRows \in Int
      BY <1>1, MaxRowsAssumption DEF Rows
    <3> QED BY <1>6, <3>1 DEF Rows
  <2>2. e \in Entry /\ e.First = prev + 1 /\ e.Last = prev + n
    BY <2>1 DEF Entry, RowRange
  <2>3. p = Len(list) + 1 \/ e.Last < list[p].First
    BY <1>2, <2>2 DEF Fits
  <2> HIDE DEF e
  <2>4. InsertAt(list, p, e) \in Lists
    BY <1>1, <2>1, <2>2, <2>3, InsertAtApart
  <2>5. range \in GivenRange
    BY <2>1 DEF GivenRange
  <2> HIDE DEF inserted
  <2>6. Limited(list, inserted) = inserted
    BY <1>5, <1>6 DEF Limited
  <2> QED BY <1>5, <2>4, <2>5, <2>6 DEF inserted
<1>7. CASE ~(prev + n < MaxRows)
  <2> HIDE DEF inserted
  <2>1. Limited(list, inserted) = [list |-> list, range |-> Blank]
    BY <1>5, <1>7 DEF Limited
  <2> QED BY <2>1 DEF GivenRange, inserted
<1> QED BY <1>6, <1>7

LEMMA AcquireApart ==
  ASSUME NEW list \in Lists, NEW n \in Nat \ {0}, NEW owner \in Services, NEW m \in Hosts
  PROVE  /\ AcquireRange(list, owner, m, n).list \in Lists
         /\ AcquireRange(list, owner, m, n).range \in GivenRange
<1>1. -1 \in Int /\ -1 >= -1
  OBVIOUS
<1> QED BY <1>1, LimitedApart DEF AcquireRange

\* A blank range is reacquired as one row, from the end of the data set on.
LEMMA ReacquireApart ==
  ASSUME NEW list \in Lists, NEW range \in GivenRange, NEW owner \in Services, NEW m \in Hosts
  PROVE  ReacquireRange(list, owner, m, range) \in Lists
<1> DEFINE start == range.First - 1
           n == range.Last - range.First + 1
<1>1. range.First \in Nat /\ range.Last \in Nat /\ range.First <= range.Last
  BY MaxRowsAssumption DEF GivenRange, Blank, NoRow, Rows
<1>2. start \in Int /\ start >= -1 /\ n \in Nat \ {0}
  BY <1>1
<1>3. Limited(list, Inserted(list, start, n, owner, m)).list \in Lists
  <2> HIDE DEF start, n
  <2> QED BY <1>2, LimitedApart
<1> QED BY <1>3 DEF ReacquireRange

\* A list of one range is the range of row 0.
LEMMA OnlyRow ==
  ASSUME NEW none \in Seq(Entry), Len(none) = 0, NEW e \in Entry, e.First = 0, e.Last = 0,
         e.OwnerServiceId = Nobody, e.MirrorServiceId = Nobody
  PROVE  InsertAt(none, 1, e) \in Lists /\ Len(InsertAt(none, 1, e)) = 1
<1> DEFINE row == InsertAt(none, 1, e)
<1>1. 1 \in 1 .. Len(none) + 1
  OBVIOUS
<1>2. row \in Seq(Entry) /\ Len(row) = Len(none) + 1
  BY <1>1, InsertAtEntries
<1>3. row[1] = e
  <2>1. \A i \in 1 .. Len(none) + 1 :
          row[i] = IF i < 1 THEN none[i] ELSE IF i = 1 THEN e ELSE none[i - 1]
    BY <1>1, InsertAtEntries
  <2> HIDE DEF row
  <2> QED BY <1>1, <2>1
<1> HIDE DEF row
<1>4. Len(row) = 1 /\ DOMAIN row = 1 .. 1 /\ row # <<>>
  <2>1. Len(row) = 1
    BY <1>2
  <2>2. DOMAIN row = 1 .. Len(row)
    BY <1>2
  <2>3. ASSUME row = <<>> PROVE FALSE
    <3>1. Len(row) = Len(<<>>)
      BY <2>3, Zenon
    <3>2. Len(<<>>) = 0
      OBVIOUS
    <3> QED BY <2>1, <3>1, <3>2
  <2> QED BY <2>1, <2>2, <2>3
<1>5. Apart(row)
  BY <1>3, <1>4 DEF Apart
<1> QED BY <1>2, <1>4, <1>5 DEF Lists, row

LEMMA LimitedFirst ==
  ASSUME NEW empty \in Seq(Entry), Len(empty) = 0, NEW start \in Int, start = -1,
         NEW n \in Nat, n = 1, NEW owner, owner = Nobody, NEW m, m = Nobody
  PROVE  LET first == Limited(empty, Inserted(empty, start, n, owner, m)).list
         IN first \in Lists /\ Len(first) = 1
<1> DEFINE inserted == Inserted(empty, start, n, owner, m)
           e == RowRange(0, 0, Nobody, Nobody)
<1>0. PICK p \in 1 .. Len(empty) + 1, prev \in Int :
        IsPlaced(empty, start, n, owner, m, p, prev)
  BY Placed
<1>1. /\ prev = IF p = 1 THEN start ELSE empty[p - 1].Last
      /\ inserted = [list |-> InsertAt(empty, p, RowRange(prev + 1, prev + n, owner, m)),
                     range |-> [First |-> prev + 1, Last |-> prev + n]]
  BY <1>0 DEF IsPlaced
<1>2. p = 1 /\ prev + 1 = 0 /\ prev + n = 0
  BY <1>1
<1>3. inserted = [list |-> InsertAt(empty, 1, e), range |-> [First |-> 0, Last |-> 0]]
  BY <1>1, <1>2
<1>4. e \in Entry /\ e.First = 0 /\ e.Last = 0
      /\ e.OwnerServiceId = Nobody /\ e.MirrorServiceId = Nobody
  BY MaxRowsAssumption DEF Entry, RowRange, Rows
<1> HIDE DEF inserted, e
<1>5. InsertAt(empty, 1, e) \in Lists /\ Len(InsertAt(empty, 1, e)) = 1
  BY <1>4, OnlyRow
<1> QED BY <1>3, <1>5, MaxRowsAssumption DEF Limited, inserted

LEMMA FirstRowApart == AcquireFirstRow \in Lists /\ Len(AcquireFirstRow) = 1
<1> DEFINE none == <<>>
<1>1. none \in Seq(Entry) /\ Len(none) = 0 /\ -1 \in Int /\ 1 \in Nat
  BY EmptySeq
<1> HIDE DEF none
<1> DEFINE first == Limited(none, Inserted(none, -1, 1, Nobody, Nobody)).list
<1>2. first \in Lists /\ Len(first) = 1
  BY <1>1, LimitedFirst
<1> QED BY <1>2 DEF AcquireFirstRow, AcquireRange, none

\* A range and the service that owns it, as a mirror service tells a new TICKS.
Told == [service : Services, range : GivenRange]

\* A list, reacquired range by range.
IsReacquired(after, list, told, online, m) ==
  /\ Reacquired(list, told, online, m) = after[Len(told)]
  /\ after[0] = list
  /\ \A i \in 1 .. Len(told) :
       after[i] = IF told[i].service \notin online THEN after[i - 1]
                  ELSE ReacquireRange(after[i - 1], told[i].service, m, told[i].range)

LEMMA ReacquiredSteps ==
  ASSUME NEW list \in Lists, NEW told \in Seq(Told), NEW online, NEW m \in Hosts
  PROVE  \E after : IsReacquired(after, list, told, online, m)
<1> DEFINE n == Len(told)
           Body(f) == [i \in 0 .. n |->
                         IF i = 0 THEN list
                         ELSE IF told[i].service \notin online THEN f[i - 1]
                         ELSE ReacquireRange(f[i - 1], told[i].service, m, told[i].range)]
           step == [i \in 1 .. n |-> [l \in Lists |->
                      IF told[i].service \notin online THEN l
                      ELSE ReacquireRange(l, told[i].service, m, told[i].range)]]
           after == CHOOSE f : f = Body(f)
<1>1. n \in Nat /\ \A i \in 1 .. n : told[i].service \in Services /\ told[i].range \in GivenRange
  <2>1. \A i \in 1 .. n : told[i] \in Told
    OBVIOUS
  <2> QED BY <2>1 DEF Told
<1>2. step \in [1 .. n -> [Lists -> Lists]]
  BY <1>1, ReacquireApart
<1>3. PICK f : IsIteration(f, n, Lists, list, step)
  <2> HIDE DEF step, n
  <2> QED BY <1>1, <1>2, Iteration
<1>4. ASSUME NEW i \in 0 .. n PROVE f[i] = Body(f)[i]
  <2>1. CASE i = 0
    BY <1>3, <2>1 DEF IsIteration
  <2>2. CASE i # 0
    <3>1. i \in 1 .. n /\ i - 1 \in 0 .. n
      BY <2>2, <1>1
    <3>2. f[i - 1] \in Lists /\ f[i] = step[i][f[i - 1]]
      BY <1>3, <3>1 DEF IsIteration
    <3> QED BY <2>2, <3>1, <3>2
  <2> QED BY <2>1, <2>2
<1>5. f = Body(f)
  BY <1>3, <1>4 DEF IsIteration
<1>6. after = Body(after)
  <2> HIDE DEF Body
  <2> QED BY <1>5
<1>7. Reacquired(list, told, online, m) = after[n]
  BY DEF Reacquired
<1> HIDE DEF after
<1>8. after[0] = list
  BY <1>1, <1>6
<1>9. ASSUME NEW i \in 1 .. n
      PROVE after[i] = IF told[i].service \notin online THEN after[i - 1]
                       ELSE ReacquireRange(after[i - 1], told[i].service, m, told[i].range)
  <2>1. i \in 0 .. n /\ i # 0
    BY <1>1
  <2> QED BY <1>6, <2>1
<1>10. IsReacquired(after, list, told, online, m)
  BY <1>7, <1>8, <1>9 DEF IsReacquired
<1> QED BY <1>10

LEMMA ReacquiredApart ==
  ASSUME NEW list \in Lists, NEW told \in Seq(Told), NEW online, NEW m \in Hosts
  PROVE  Reacquired(list, told, online, m) \in Lists
<1> DEFINE n == Len(told)
           X == [i \in 0 .. n |-> Lists]
<1>1. n \in Nat /\ \A i \in 1 .. n : told[i].service \in Services /\ told[i].range \in GivenRange
  <2>1. \A i \in 1 .. n : told[i] \in Told
    OBVIOUS
  <2> QED BY <2>1 DEF Told
<1>0. PICK after : IsReacquired(after, list, told, online, m)
  BY ReacquiredSteps
<1>2. /\ Reacquired(list, told, online, m) = after[n]
      /\ after[0] = list
      /\ \A i \in 1 .. n :
           after[i] = IF told[i].service \notin online THEN after[i - 1]
                      ELSE ReacquireRange(after[i - 1], told[i].service, m, told[i].range)
  BY <1>0 DEF IsReacquired
<1>3. ASSUME NEW i \in 1 .. n, after[i - 1] \in Lists PROVE after[i] \in Lists
  <2>1. ReacquireRange(after[i - 1], told[i].service, m, told[i].range) \in Lists
    BY <1>1, <1>3, ReacquireApart
  <2> QED BY <1>2, <1>3, <2>1
<1>4. \A i \in 0 .. n : X[i] = Lists
  OBVIOUS
<1>5. after[n] \in X[n]
  <2> HIDE DEF X, n
  <2>1. 0 \in 0 .. n /\ n \in 0 .. n /\ \A i \in 1 .. n : i - 1 \in 0 .. n /\ i \in 0 .. n
    BY <1>1
  <2>2. after[0] \in X[0]
    BY <1>2, <1>4, <2>1
  <2>3. \A i \in 1 .. n : after[i - 1] \in X[i - 1] => after[i] \in X[i]
    BY <1>3, <1>4, <2>1
  <2>4. \A i \in 0 .. n : after[i] \in X[i]
    BY <1>1, <2>2, <2>3, StepByStep
  <2> QED BY <2>1, <2>4
<1> QED BY <1>1, <1>2, <1>4, <1>5

--------------------------------------------------------------------------------
\* What is told is a sequence of ranges and their services.
LEMMA FlattenSteps ==
  ASSUME NEW S, NEW seqs \in Seq(Seq(S)), Len(seqs) # 0
  PROVE  \E flat :
           /\ FlattenSeq(seqs) = flat[Len(seqs)]
           /\ flat[1] = seqs[1]
           /\ \A i \in 2 .. Len(seqs) : flat[i] = flat[i - 1] \o seqs[i]
<1> DEFINE n == Len(seqs)
           Body(f) == [i \in 1 .. n |-> IF i = 1 THEN seqs[i] ELSE f[i - 1] \o seqs[i]]
           step == [i \in 1 .. n - 1 |-> [l \in Seq(S) |-> l \o seqs[i + 1]]]
           flat == CHOOSE f : f = Body(f)
<1>1. n \in Nat \ {0} /\ n - 1 \in Nat /\ \A i \in 1 .. n : seqs[i] \in Seq(S)
  OBVIOUS
<1>2. step \in [1 .. n - 1 -> [Seq(S) -> Seq(S)]]
  <2>1. \A i \in 1 .. n - 1 : i + 1 \in 1 .. n
    BY <1>1
  <2>2. \A i \in 1 .. n - 1 : \A l \in Seq(S) : l \o seqs[i + 1] \in Seq(S)
    BY <1>1, <2>1
  <2> QED BY <2>2
<1>3. PICK g : IsIteration(g, n - 1, Seq(S), seqs[1], step)
  <2>1. seqs[1] \in Seq(S)
    BY <1>1
  <2> HIDE DEF step, n
  <2> QED BY <1>1, <1>2, <2>1, Iteration
<1> DEFINE f == [i \in 1 .. n |-> g[i - 1]]
<1>4. ASSUME NEW i \in 1 .. n PROVE f[i] = Body(f)[i]
  <2>1. CASE i = 1
    BY <1>3, <2>1 DEF IsIteration
  <2>2. CASE i # 1
    <3>1. i \in 2 .. n /\ i - 1 \in 1 .. n - 1 /\ (i - 1) - 1 \in 0 .. n - 1 /\ (i - 1) + 1 = i
          /\ i - 1 \in 1 .. n
      BY <2>2, <1>1
    <3>2. g[(i - 1) - 1] \in Seq(S) /\ g[i - 1] = step[i - 1][g[(i - 1) - 1]]
      BY <1>3, <3>1 DEF IsIteration
    <3>3. step[i - 1][g[(i - 1) - 1]] = g[(i - 1) - 1] \o seqs[(i - 1) + 1]
      BY <3>1, <3>2
    <3>4. f[i] = g[i - 1] /\ f[i - 1] = g[(i - 1) - 1]
      BY <3>1
    <3>5. f[i] = f[i - 1] \o seqs[i]
      BY <3>1, <3>2, <3>3, <3>4
    <3> HIDE DEF f
    <3> QED BY <2>2, <3>1, <3>5
  <2> QED BY <2>1, <2>2
<1>5. f = Body(f)
  <2> HIDE DEF n
  <2> QED BY <1>4
<1>6. flat = Body(flat)
  <2> HIDE DEF Body, f
  <2> QED BY <1>5
<1>7. FlattenSeq(seqs) = flat[n]
  BY <1>1 DEF FlattenSeq
<1> HIDE DEF flat
<1>8. flat[1] = seqs[1]
  BY <1>1, <1>6
<1>9. ASSUME NEW i \in 2 .. n PROVE flat[i] = flat[i - 1] \o seqs[i]
  <2>1. i \in 1 .. n /\ i # 1
    BY <1>1
  <2> QED BY <1>6, <2>1
<1> QED BY <1>7, <1>8, <1>9

LEMMA FlattenType ==
  ASSUME NEW S, NEW seqs \in Seq(Seq(S))
  PROVE  FlattenSeq(seqs) \in Seq(S)
<1> DEFINE n == Len(seqs)
<1>1. CASE n = 0
  <2>1. seqs = <<>> /\ FlattenSeq(seqs) = seqs
    BY <1>1, EmptySeq DEF FlattenSeq
  <2> QED BY <2>1, EmptySeq
<1>2. CASE n # 0
  <2>1. n \in Nat \ {0} /\ n - 1 \in Nat /\ \A i \in 1 .. n : seqs[i] \in Seq(S)
    BY <1>2
  <2>2. PICK flat :
          /\ FlattenSeq(seqs) = flat[n] /\ flat[1] = seqs[1]
          /\ \A i \in 2 .. n : flat[i] = flat[i - 1] \o seqs[i]
    BY <1>2, FlattenSteps
  <2> DEFINE F == [i \in 0 .. n - 1 |-> flat[i + 1]]
             X == [i \in 0 .. n - 1 |-> Seq(S)]
  <2>3. F[0] \in X[0]
    BY <2>1, <2>2
  <2>4. ASSUME NEW i \in 1 .. n - 1, F[i - 1] \in X[i - 1] PROVE F[i] \in X[i]
    <3>1. /\ i \in 0 .. n - 1 /\ i - 1 \in 0 .. n - 1 /\ i + 1 \in 2 .. n /\ i + 1 \in 1 .. n
          /\ (i - 1) + 1 = i /\ (i + 1) - 1 = i
      BY <2>1
    <3>2. flat[i] \in Seq(S)
      BY <2>4, <3>1
    <3>3. flat[i + 1] = flat[i] \o seqs[i + 1] /\ seqs[i + 1] \in Seq(S)
      BY <2>1, <2>2, <3>1
    <3>4. flat[i + 1] \in Seq(S)
      BY <3>2, <3>3
    <3> QED BY <3>1, <3>4
  <2>5. F[n - 1] \in X[n - 1]
    <3>1. n - 1 \in 0 .. n - 1
      BY <2>1
    <3> HIDE DEF F, X, n
    <3>2. \A i \in 0 .. n - 1 : F[i] \in X[i]
      BY <2>1, <2>3, <2>4, StepByStep
    <3> QED BY <3>1, <3>2
  <2>6. n - 1 \in 0 .. n - 1 /\ (n - 1) + 1 = n
    BY <2>1
  <2> QED BY <2>2, <2>5, <2>6
<1> QED BY <1>1, <1>2
--------------------------------------------------------------------------------
\* The invariant.  The list of a TICKS that runs, or ran, is apart, and what is on
\* its way to change it is well-typed: a range that a mirror service tells a new
\* TICKS is one that a TICKS gave it, or a blank one.
RMMessages == {Down} \cup {GRG(s, n) : s \in Services, n \in Nat \ {0}}
              \cup {RRG(s) : s \in Services} \cup {RARG(told) : told \in Seq(Told)}
MSMessages == {Down} \cup {RG(s, r) : s \in Services, r \in GivenRange}

ServicesInv ==
  /\ rmUp \in BOOLEAN
  /\ rmReady \subseteq msUp /\ msUp \subseteq Hosts
  /\ svcAt \in [Services -> msUp \cup {Nobody}]
  /\ ended \subseteq {s \in Services : svcAt[s] # Nobody}
ListInv == rangeList \in Lists
OwnedInv == owned \in [Hosts -> [Services -> Seq(GivenRange)]]
QueuesInv ==
  /\ toRM \in [Hosts -> Seq(RMMessages)]
  /\ toMS \in [Hosts -> Seq(MSMessages)]
RangeInv == ServicesInv /\ ListInv /\ OwnedInv /\ QueuesInv

LEMMA RMMessageFields ==
  ASSUME NEW msg \in RMMessages
  PROVE  /\ msg.type = "GRG" => msg.service \in Services /\ msg.nbRows \in Nat \ {0}
         /\ msg.type = "RRG" => msg.service \in Services
         /\ msg.type = "RARG" => msg.ranges \in Seq(Told)
BY DEF RMMessages, Down, GRG, RRG, RARG

LEMMA MSMessageFields ==
  ASSUME NEW msg \in MSMessages, msg.type = "RG"
  PROVE  msg.service \in Services /\ msg.range \in GivenRange
BY DEF MSMessages, Down, RG

LEMMA Queues ==
  ASSUME NEW S, NEW q \in Seq(S), NEW x \in S
  PROVE  /\ Append(q, x) \in Seq(S) /\ <<>> \in Seq(S)
         /\ q # <<>> => Head(q) \in S /\ Tail(q) \in Seq(S)
         /\ \A k \in 0 .. Len(q) : SubSeq(q, 1, k) \in Seq(S)
OBVIOUS

\* What TICKS reads, and what is left for it.
LEMMA RMReads ==
  ASSUME RangeInv, NEW m \in Hosts, NEW type, RMHas(m, type)
  PROVE  /\ Head(toRM[m]) \in RMMessages /\ Head(toRM[m]).type = type
         /\ [toRM EXCEPT ![m] = Tail(@)] \in [Hosts -> Seq(RMMessages)]
<1>1. toRM[m] \in Seq(RMMessages) /\ toRM[m] # <<>>
  BY DEF RangeInv, QueuesInv, RMHas
<1>2. Head(toRM[m]) \in RMMessages /\ Tail(toRM[m]) \in Seq(RMMessages)
  BY <1>1
<1> QED BY <1>2 DEF RangeInv, QueuesInv, RMHas

LEMMA MSReads ==
  ASSUME RangeInv, NEW m \in Hosts, NEW type, MSHas(m, type)
  PROVE  /\ Head(toMS[m]) \in MSMessages /\ Head(toMS[m]).type = type
         /\ [toMS EXCEPT ![m] = Tail(@)] \in [Hosts -> Seq(MSMessages)]
<1>1. toMS[m] \in Seq(MSMessages) /\ toMS[m] # <<>>
  BY DEF RangeInv, QueuesInv, MSHas
<1>2. Head(toMS[m]) \in MSMessages /\ Tail(toMS[m]) \in Seq(MSMessages)
  BY <1>1
<1> QED BY <1>2 DEF RangeInv, QueuesInv, MSHas

LEMMA SentType ==
  ASSUME RangeInv, NEW m \in Hosts, NEW msg \in RMMessages
  PROVE  Sent(m, msg) \in [Hosts -> Seq(RMMessages)]
<1>1. toRM[m] \in Seq(RMMessages)
  BY DEF RangeInv, QueuesInv
<1>2. Append(toRM[m], msg) \in Seq(RMMessages)
  BY <1>1
<1> QED BY <1>2 DEF Sent, RangeInv, QueuesInv

--------------------------------------------------------------------------------
\* The handlers of the range manager.

LEMMA GetRangeStep ==
  ASSUME RangeInv, NEW m \in Hosts, GetRange(m) PROVE RangeInv'
<1> DEFINE msg == Head(toRM[m])
           acquired == AcquireRange(rangeList, msg.service, m, msg.nbRows)
<1>1. /\ msg \in RMMessages /\ msg.type = "GRG"
      /\ [toRM EXCEPT ![m] = Tail(@)] \in [Hosts -> Seq(RMMessages)]
  BY RMReads DEF GetRange
<1>2. msg.service \in Services /\ msg.nbRows \in Nat \ {0}
  BY <1>1, RMMessageFields
<1>3. acquired.list \in Lists /\ acquired.range \in GivenRange
  BY <1>2, AcquireApart DEF RangeInv, ListInv
<1> HIDE DEF acquired
<1>4. RG(msg.service, acquired.range) \in MSMessages
  BY <1>2, <1>3 DEF MSMessages
<1> DEFINE answer == RG(msg.service, acquired.range)
<1>5. Append(toMS[m], answer) \in Seq(MSMessages)
  <2>1. toMS[m] \in Seq(MSMessages)
    BY DEF RangeInv, QueuesInv
  <2> HIDE DEF answer
  <2> QED BY <1>4, <2>1 DEF answer
<1>6. rangeList' = acquired.list
      /\ toMS' = IF m \in msUp THEN [toMS EXCEPT ![m] = Append(@, answer)] ELSE toMS
  BY DEF GetRange, acquired
<1> HIDE DEF answer
<1>7. QueuesInv'
  BY <1>1, <1>5, <1>6 DEF GetRange, RangeInv, QueuesInv
<1> QED BY <1>3, <1>6, <1>7
        DEF GetRange, RangeInv, ServicesInv, ListInv, OwnedInv, msState, svcState

LEMMA ReleaseRangesStep ==
  ASSUME RangeInv, NEW m \in Hosts, ReleaseRanges(m) PROVE RangeInv'
<1> DEFINE s == Head(toRM[m]).service
           released == {r \in ToSet(rangeList) : r.OwnerServiceId = s}
<1>1. /\ Head(toRM[m]) \in RMMessages /\ Head(toRM[m]).type = "RRG"
      /\ [toRM EXCEPT ![m] = Tail(@)] \in [Hosts -> Seq(RMMessages)]
  BY RMReads DEF ReleaseRanges
<1>2. s \in Services /\ s # Nobody
  BY <1>1, RMMessageFields, NobodyAssumption
<1>3. rangeList \in Lists /\ rangeList[1] \notin released
  BY <1>2 DEF RangeInv, ListInv, Lists, Apart
<1>4. rangeList' \in Lists
  <2> HIDE DEF released
  <2>1. Without(rangeList, released) \in Lists
    BY <1>3, WithoutApart
  <2> QED BY <2>1 DEF ReleaseRanges, ReleaseRangesOfOwner, released
<1> QED BY <1>1, <1>4 DEF ReleaseRanges, RangeInv, ServicesInv, ListInv, OwnedInv, QueuesInv,
                          msState, svcState

LEMMA ReacquireRangesStep ==
  ASSUME RangeInv, NEW m \in Hosts, ReacquireRanges(m) PROVE RangeInv'
<1>1. /\ Head(toRM[m]) \in RMMessages /\ Head(toRM[m]).type = "RARG"
      /\ [toRM EXCEPT ![m] = Tail(@)] \in [Hosts -> Seq(RMMessages)]
  BY RMReads DEF ReacquireRanges
<1>2. Head(toRM[m]).ranges \in Seq(Told)
  BY <1>1, RMMessageFields
<1>3. rangeList' \in Lists
  BY <1>2, ReacquiredApart DEF ReacquireRanges, RangeInv, ListInv
<1> QED BY <1>1, <1>3 DEF ReacquireRanges, RangeInv, ServicesInv, ListInv, OwnedInv, QueuesInv,
                          msState, svcState

LEMMA CbMSDownStep ==
  ASSUME RangeInv, NEW m \in Hosts, CbMSDown(m) PROVE RangeInv'
<1> DEFINE released == {r \in ToSet(rangeList) : r.MirrorServiceId = m}
<1>1. [toRM EXCEPT ![m] = Tail(@)] \in [Hosts -> Seq(RMMessages)]
  BY RMReads DEF CbMSDown
<1>2. rangeList \in Lists /\ rangeList[1] \notin released
  BY NobodyAssumption DEF RangeInv, ListInv, Lists, Apart
<1>3. rangeList' \in Lists
  <2> HIDE DEF released
  <2>1. Without(rangeList, released) \in Lists
    BY <1>2, WithoutApart
  <2> QED BY <2>1, FirstRowApart DEF CbMSDown, ReleaseRangesOfMS, released
<1> QED BY <1>1, <1>3 DEF CbMSDown, RangeInv, ServicesInv, ListInv, OwnedInv, QueuesInv,
                          msState, svcState

--------------------------------------------------------------------------------
\* The handlers of a mirror service.

LEMMA SetRangeManagerReadyStep ==
  ASSUME RangeInv, NEW m \in Hosts, SetRangeManagerReady(m) PROVE RangeInv'
<1> DEFINE told(s) == [i \in DOMAIN owned[m][s] |-> [service |-> s, range |-> owned[m][s][i]]]
<1>1. PICK order \in SetToSeqs(Services) :
        LET ranges == FlattenSeq([i \in DOMAIN order |-> told(order[i])])
        IN toRM' = IF ranges = <<>> THEN toRM
                   ELSE [toRM EXCEPT ![m] = Append(@, RARG(ranges))]
  BY DEF SetRangeManagerReady
<1>2. ASSUME NEW s \in Services PROVE told(s) \in Seq(Told)
  <2>1. owned[m][s] \in Seq(GivenRange)
    BY DEF RangeInv, OwnedInv
  <2>2. /\ DOMAIN owned[m][s] = 1 .. Len(owned[m][s]) /\ Len(owned[m][s]) \in Nat
        /\ \A i \in 1 .. Len(owned[m][s]) : owned[m][s][i] \in GivenRange
    BY <2>1
  <2>3. told(s) \in [1 .. Len(owned[m][s]) -> Told]
    BY <2>2 DEF Told
  <2> QED BY <2>2, <2>3, SeqDef
<1> DEFINE n == Cardinality(Services)
           parts == [i \in DOMAIN order |-> told(order[i])]
<1>3. n \in Nat
  BY ServicesAssumption, FS_CardinalityType
<1>4. order \in [1 .. n -> Services] /\ DOMAIN order = 1 .. n
  BY DEF SetToSeqs
<1>5. parts \in Seq(Seq(Told))
  <2> HIDE DEF n, told
  <2>1. parts \in [1 .. n -> Seq(Told)]
    BY <1>2, <1>4
  <2> QED BY <1>3, <2>1, SeqDef
<1> DEFINE ranges == FlattenSeq(parts)
<1>6. ranges \in Seq(Told)
  <2> HIDE DEF parts
  <2> QED BY <1>5, FlattenType
<1>7. toRM' = IF ranges = <<>> THEN toRM ELSE [toRM EXCEPT ![m] = Append(@, RARG(ranges))]
  BY <1>1
<1> HIDE DEF ranges
<1>8. Append(toRM[m], RARG(ranges)) \in Seq(RMMessages)
  <2> DEFINE msg == RARG(ranges)
  <2>1. msg \in RMMessages
    BY <1>6 DEF RMMessages
  <2>2. toRM[m] \in Seq(RMMessages)
    BY DEF RangeInv, QueuesInv
  <2> HIDE DEF msg
  <2>3. Append(toRM[m], msg) \in Seq(RMMessages)
    BY <2>1, <2>2
  <2> QED BY <2>3 DEF msg
<1>9. QueuesInv'
  BY <1>7, <1>8 DEF SetRangeManagerReady, RangeInv, QueuesInv
<1>10. ServicesInv'
  BY DEF SetRangeManagerReady, RangeInv, ServicesInv, rmState, svcState
<1> QED BY <1>9, <1>10 DEF SetRangeManagerReady, RangeInv, ListInv, OwnedInv, rmState

LEMMA SetRangeManagerDownStep ==
  ASSUME RangeInv, NEW m \in Hosts, SetRangeManagerDown(m) PROVE RangeInv'
<1>1. [toMS EXCEPT ![m] = Tail(@)] \in [Hosts -> Seq(MSMessages)]
  BY MSReads DEF SetRangeManagerDown
<1> QED BY <1>1 DEF SetRangeManagerDown, RangeInv, ServicesInv, ListInv, OwnedInv, QueuesInv,
                    rmState, svcState

LEMMA DeclareEntityTypeOwnerStep ==
  ASSUME RangeInv, NEW m \in Hosts, NEW s \in Services, DeclareEntityTypeOwner(m, s)
  PROVE  RangeInv'
<1>1. toRM' \in [Hosts -> Seq(RMMessages)]
  <2>1. PICK n \in Sizes : toRM' = Sent(m, GRG(s, n))
    BY DEF DeclareEntityTypeOwner
  <2>2. GRG(s, n) \in RMMessages
    BY SizesAssumption DEF RMMessages
  <2> QED BY <2>1, <2>2, SentType
<1>2. OwnedInv'
  <2>1. owned[m][s] \in Seq(GivenRange) /\ Blank \in GivenRange
    BY DEF RangeInv, OwnedInv, GivenRange
  <2>2. Append(owned[m][s], Blank) \in Seq(GivenRange)
    BY <2>1
  <2> QED BY <2>2 DEF DeclareEntityTypeOwner, RangeInv, OwnedInv
<1> QED BY <1>1, <1>2 DEF DeclareEntityTypeOwner, RangeInv, ServicesInv, ListInv, QueuesInv,
                          rmState, svcState

LEMMA GiveRangeStep ==
  ASSUME RangeInv, NEW m \in Hosts, GiveRange(m) PROVE RangeInv'
<1> DEFINE msg == Head(toMS[m])
           list == owned[m][msg.service]
           blanks == {i \in DOMAIN list : list[i] = Blank}
           first == CHOOSE i \in blanks : \A j \in blanks : i <= j
<1>1. /\ msg \in MSMessages /\ msg.type = "RG"
      /\ [toMS EXCEPT ![m] = Tail(@)] \in [Hosts -> Seq(MSMessages)]
  BY MSReads DEF GiveRange
<1>2. msg.service \in Services /\ msg.range \in GivenRange
  BY <1>1, MSMessageFields
<1>3. list \in Seq(GivenRange)
  BY <1>2 DEF RangeInv, OwnedInv
<1>4. owned' = IF msg.range = Blank \/ blanks = {} THEN owned
               ELSE [owned EXCEPT ![m][msg.service][first] = msg.range]
  BY DEF GiveRange
<1>5. CASE msg.range = Blank \/ blanks = {}
  BY <1>1, <1>4, <1>5 DEF GiveRange, RangeInv, ServicesInv, ListInv, OwnedInv, QueuesInv,
                          rmState, svcState
<1>6. CASE ~(msg.range = Blank \/ blanks = {})
  <2> DEFINE filled == [list EXCEPT ![first] = msg.range]
  <2>1. filled \in Seq(GivenRange)
    <3> HIDE DEF first, list, msg
    <3>1. list \in [1 .. Len(list) -> GivenRange] /\ Len(list) \in Nat
      BY <1>3
    <3>2. filled \in [1 .. Len(list) -> GivenRange]
      BY <1>2, <3>1
    <3> QED BY <3>1, <3>2, SeqDef
  <2>2. owned' = [owned EXCEPT ![m] = [@ EXCEPT ![msg.service] = filled]]
    BY <1>2, <1>4, <1>6 DEF RangeInv, OwnedInv
  <2> HIDE DEF filled
  <2>3. OwnedInv'
    BY <1>2, <2>1, <2>2 DEF RangeInv, OwnedInv
  <2> QED BY <1>1, <2>3 DEF GiveRange, RangeInv, ServicesInv, ListInv, QueuesInv,
                            rmState, svcState
<1> QED BY <1>5, <1>6

LEMMA ReleaseRangesOfServiceStep ==
  ASSUME RangeInv, NEW m \in Hosts, NEW s \in Services, ReleaseRangesOfService(m, s)
  PROVE  RangeInv'
<1>1. toRM' \in [Hosts -> Seq(RMMessages)]
  <2>1. RRG(s) \in RMMessages
    BY DEF RMMessages
  <2> QED BY <2>1, SentType DEF ReleaseRangesOfService, RangeInv, QueuesInv
<1>2. OwnedInv'
  <2>1. [owned[m] EXCEPT ![s] = <<>>] \in [Services -> Seq(GivenRange)]
    BY DEF RangeInv, OwnedInv
  <2> QED BY <2>1 DEF ReleaseRangesOfService, RangeInv, OwnedInv
<1>3. ServicesInv'
  BY DEF ReleaseRangesOfService, RangeInv, ServicesInv, rmState
<1> QED BY <1>1, <1>2, <1>3 DEF ReleaseRangesOfService, RangeInv, ListInv, QueuesInv, rmState

--------------------------------------------------------------------------------
\* Starts, ends and losses.

LEMMA SvcStep ==
  ASSUME RangeInv, NEW s \in Services, SvcEnd(s) \/ \E m \in Hosts : SvcStart(s, m)
  PROVE  RangeInv'
<1>1. CASE SvcEnd(s)
  BY <1>1 DEF SvcEnd, RangeInv, ServicesInv, ListInv, OwnedInv, QueuesInv, rmState, msState
<1>2. ASSUME NEW m \in Hosts, SvcStart(s, m) PROVE RangeInv'
  <2>1. ServicesInv'
    BY <1>2 DEF SvcStart, IdFree, RangeInv, ServicesInv, rmState, msState
  <2> QED BY <1>2, <2>1 DEF SvcStart, RangeInv, ListInv, OwnedInv, QueuesInv, rmState, msState
<1> QED BY <1>1, <1>2

LEMMA MSStartStep ==
  ASSUME RangeInv, NEW m \in Hosts, MSStart(m) PROVE RangeInv'
<1>1. ServicesInv'
  BY DEF MSStart, RangeInv, ServicesInv, rmState, svcState
<1> QED BY <1>1 DEF MSStart, RangeInv, ListInv, OwnedInv, QueuesInv, rmState

LEMMA MSCrashStep ==
  ASSUME RangeInv, NEW m \in Hosts, MSCrash(m) PROVE RangeInv'
<1>1. ServicesInv'
  BY DEF MSCrash, RangeInv, ServicesInv, rmState
<1>2. OwnedInv'
  <2>1. [s \in Services |-> <<>>] \in [Services -> Seq(GivenRange)]
    OBVIOUS
  <2> QED BY <2>1 DEF MSCrash, RangeInv, OwnedInv
<1>3. toMS' \in [Hosts -> Seq(MSMessages)]
  BY DEF MSCrash, RangeInv, QueuesInv
<1>4. toRM' \in [Hosts -> Seq(RMMessages)]
  <2>1. PICK kept \in 0 .. Len(toRM[m]) :
          toRM' = IF rmUp /\ m \in rmReady
                  THEN [toRM EXCEPT ![m] = Append(SubSeq(@, 1, kept), Down)] ELSE toRM
    BY DEF MSCrash
  <2>2. toRM[m] \in Seq(RMMessages) /\ Down \in RMMessages
    BY DEF RangeInv, QueuesInv, RMMessages
  <2>3. SubSeq(toRM[m], 1, kept) \in Seq(RMMessages)
    BY <2>2, Queues
  <2>4. Append(SubSeq(toRM[m], 1, kept), Down) \in Seq(RMMessages)
    BY <2>2, <2>3, Queues
  <2> QED BY <2>1, <2>4 DEF RangeInv, QueuesInv
<1> QED BY <1>1, <1>2, <1>3, <1>4 DEF MSCrash, RangeInv, ListInv, QueuesInv, rmState

LEMMA RMCrashStep ==
  ASSUME RangeInv, RMCrash PROVE RangeInv'
<1>1. toRM' \in [Hosts -> Seq(RMMessages)]
  BY DEF RMCrash
<1>2. toMS' \in [Hosts -> Seq(MSMessages)]
  <2> DEFINE lengths == UNION {0 .. Len(toMS[m]) : m \in Hosts}
  <2>1. lengths \subseteq Nat
    <3>1. \A m \in Hosts : Len(toMS[m]) \in Nat
      BY DEF RangeInv, QueuesInv
    <3> QED BY <3>1
  <2>2. PICK kept \in [Hosts -> lengths] :
          /\ \A m \in Hosts : kept[m] <= Len(toMS[m])
          /\ toMS' = [m \in Hosts |-> IF m \in rmReady
                                      THEN Append(SubSeq(toMS[m], 1, kept[m]), Down)
                                      ELSE toMS[m]]
    BY DEF RMCrash
  <2> HIDE DEF lengths
  <2>3. ASSUME NEW m \in Hosts
        PROVE  Append(SubSeq(toMS[m], 1, kept[m]), Down) \in Seq(MSMessages)
    <3>1. toMS[m] \in Seq(MSMessages) /\ Down \in MSMessages
      BY DEF RangeInv, QueuesInv, MSMessages
    <3>2. kept[m] \in 0 .. Len(toMS[m])
      <4>1. kept[m] \in Nat /\ kept[m] <= Len(toMS[m])
        BY <2>1, <2>2
      <4> QED BY <3>1, <4>1
    <3>3. SubSeq(toMS[m], 1, kept[m]) \in Seq(MSMessages)
      BY <3>1, <3>2, Queues
    <3> QED BY <3>1, <3>3, Queues
  <2> QED BY <2>2, <2>3 DEF RangeInv, QueuesInv
<1> QED BY <1>1, <1>2 DEF RMCrash, RangeInv, ServicesInv, ListInv, OwnedInv, QueuesInv,
                          msState, svcState

LEMMA RMStartStep ==
  ASSUME RangeInv, RMStart PROVE RangeInv'
BY FirstRowApart DEF RMStart, RangeInv, ServicesInv, ListInv, OwnedInv, QueuesInv,
                     msState, svcState

--------------------------------------------------------------------------------
LEMMA RangeInit == Init => RangeInv
BY FirstRowApart DEF Init, RangeInv, ServicesInv, ListInv, OwnedInv, QueuesInv

LEMMA RangeStep == RangeInv /\ [Next]_vars => RangeInv'
<1> SUFFICES ASSUME RangeInv, [Next]_vars PROVE RangeInv'
  OBVIOUS
<1>1. CASE UNCHANGED vars
  BY <1>1 DEF vars, rmState, msState, svcState, failures,
              RangeInv, ServicesInv, ListInv, OwnedInv, QueuesInv
<1>2. ASSUME NEW m \in Hosts,
             GetRange(m) \/ ReleaseRanges(m) \/ CbMSDown(m) \/ ReacquireRanges(m)
      PROVE  RangeInv'
  BY <1>2, GetRangeStep, ReleaseRangesStep, CbMSDownStep, ReacquireRangesStep
<1>3. ASSUME NEW m \in Hosts,
             SetRangeManagerReady(m) \/ SetRangeManagerDown(m) \/ GiveRange(m)
      PROVE  RangeInv'
  BY <1>3, SetRangeManagerReadyStep, SetRangeManagerDownStep, GiveRangeStep
<1>4. ASSUME NEW m \in Hosts, MSStart(m) \/ MSCrash(m) PROVE RangeInv'
  BY <1>4, MSStartStep, MSCrashStep
<1>5. ASSUME NEW s \in Services, NEW m \in Hosts,
             DeclareEntityTypeOwner(m, s) \/ ReleaseRangesOfService(m, s)
      PROVE  RangeInv'
  BY <1>5, DeclareEntityTypeOwnerStep, ReleaseRangesOfServiceStep
<1>6. ASSUME NEW s \in Services, SvcEnd(s) \/ \E m \in Hosts : SvcStart(s, m) PROVE RangeInv'
  BY <1>6, SvcStep
<1>7. CASE RMCrash \/ RMStart
  BY <1>7, RMCrashStep, RMStartStep
<1> QED BY <1>1, <1>2, <1>3, <1>4, <1>5, <1>6, <1>7 DEF Next

\* Every variable keeps its type: no range that is taken, owned or on its way
\* leaves the rows of the data set.
THEOREM RangeTypes == Spec => []TypeOK
<1>1. RangeInv => TypeOK
  <2> SUFFICES ASSUME RangeInv PROVE TypeOK
    OBVIOUS
  <2>1. GivenRange \subseteq RangeType
    BY DEF GivenRange, RangeType
  <2>2. \A q \in Seq(GivenRange) : q \in Seq(RangeType)
    BY <2>1
  <2>3. owned \in [Hosts -> [Services -> Seq(RangeType)]]
    BY <2>2 DEF RangeInv, OwnedInv
  <2>4. rangeList \in Seq(Entry)
    BY DEF RangeInv, ListInv, Lists
  <2> QED BY <2>3, <2>4 DEF RangeInv, ServicesInv, TypeOK, Entry
<1> QED BY <1>1, RangeInit, RangeStep, PTL DEF Spec

\* acquireRange(), reacquireRange() and the releases keep the ranges of the list
\* in order and apart, and row 0 to nobody: two services never own a row.
THEOREM RangesNeverOverlap == Spec => []RangesApart
<1>1. RangeInv => RangesApart
  BY DEF RangeInv, ListInv, Lists, Apart, RangesApart
<1> QED BY <1>1, RangeInit, RangeStep, PTL DEF Spec

--------------------------------------------------------------------------------
\* What a list holds.  All its ranges but row 0 are of S:
TailIn(list, S) == \A i \in 2 .. Len(list) : list[i] \in S

LEMMA AppendContent ==
  ASSUME NEW list \in Seq(Entry), NEW e \in Entry
  PROVE  /\ Append(list, e) \in Seq(Entry) /\ Len(Append(list, e)) = Len(list) + 1
         /\ ToSet(Append(list, e)) = ToSet(list) \cup {e}
         /\ \A S : TailIn(list, S) /\ (list = <<>> \/ e \in S) => TailIn(Append(list, e), S)
<1> DEFINE n == Len(list)
           longer == Append(list, e)
<1>1. n \in Nat /\ DOMAIN list = 1 .. n /\ (list = <<>> => n = 0)
  OBVIOUS
<1>2. /\ longer \in Seq(Entry) /\ Len(longer) = n + 1 /\ DOMAIN longer = 1 .. n + 1
      /\ longer[n + 1] = e /\ \A i \in 1 .. n : longer[i] = list[i]
  OBVIOUS
<1> HIDE DEF longer, n
<1>3. ToSet(longer) = ToSet(list) \cup {e}
  <2>1. ASSUME NEW i \in 1 .. n + 1 PROVE longer[i] \in ToSet(list) \cup {e}
    <3>1. i \in 1 .. n \/ i = n + 1
      BY <1>1
    <3> QED BY <1>1, <1>2, <3>1 DEF ToSet
  <2>2. ASSUME NEW i \in 1 .. n PROVE list[i] \in ToSet(longer)
    <3>1. i \in 1 .. n + 1
      BY <1>1
    <3> QED BY <1>2, <3>1 DEF ToSet
  <2>3. e \in ToSet(longer)
    <3>1. n + 1 \in 1 .. n + 1
      BY <1>1
    <3> QED BY <1>2, <3>1 DEF ToSet
  <2> QED BY <1>1, <1>2, <2>1, <2>2, <2>3 DEF ToSet
<1>4. ASSUME NEW S, TailIn(list, S), list = <<>> \/ e \in S PROVE TailIn(longer, S)
  <2> SUFFICES ASSUME NEW i \in 2 .. n + 1 PROVE longer[i] \in S
    BY <1>2 DEF TailIn
  <2>1. n # 0 /\ e \in S
    BY <1>1, <1>4
  <2>2. CASE i = n + 1
    BY <1>2, <2>1, <2>2
  <2>3. CASE i # n + 1
    <3>1. i \in 2 .. n /\ i \in 1 .. n
      BY <1>1, <2>3
    <3>2. list[i] \in S
      BY <1>4, <3>1 DEF TailIn, n
    <3> QED BY <1>2, <3>1, <3>2
  <2> QED BY <2>2, <2>3
<1> QED BY <1>2, <1>3, <1>4 DEF longer, n

\* A release takes out what is released, and nothing else.
LEMMA WithoutContent ==
  ASSUME NEW list \in Lists, NEW released, list[1] \notin released
  PROVE  /\ \A e \in ToSet(list) : e \in released \/ e \in ToSet(Without(list, released))
         /\ \A S : TailIn(list, S) => TailIn(Without(list, released), S \ released)
<1> DEFINE n == Len(list)
<1>1. list \in Seq(Entry) /\ n \in Nat \ {0} /\ DOMAIN list = 1 .. n /\ \A i \in 1 .. n : list[i] \in Entry
  BY ListParts
<1>2. PICK kept :
        /\ Without(list, released) = kept[n]
        /\ kept[0] = <<>>
        /\ \A i \in 1 .. n :
             kept[i] = IF list[i] \in released THEN kept[i - 1] ELSE Append(kept[i - 1], list[i])
  BY <1>1, WithoutSteps
<1>3. ASSUME NEW S, TailIn(list, S)
      PROVE  /\ \A e \in ToSet(list) : e \in released \/ e \in ToSet(kept[n])
             /\ TailIn(kept[n], S \ released)
  <2> DEFINE X == [i \in 0 .. n |->
                     {l \in Seq(Entry) :
                        /\ l = <<>> => i = 0
                        /\ TailIn(l, S \ released)
                        /\ \A j \in 1 .. i : list[j] \in released \/ list[j] \in ToSet(l)}]
  <2>1. kept[0] \in X[0]
    BY <1>2, EmptySeq DEF TailIn
  <2>2. ASSUME NEW i \in 1 .. n, kept[i - 1] \in X[i - 1] PROVE kept[i] \in X[i]
    <3> DEFINE l == kept[i - 1]
               grown == Append(l, list[i])
    <3>1. i - 1 \in 0 .. n /\ i \in 0 .. n /\ i # 0 /\ list[i] \in Entry /\ (i - 1 = 0 => i = 1)
          /\ (i # 1 => i \in 2 .. n)
      BY <1>1
    <3>2. /\ l \in Seq(Entry) /\ (l = <<>> => i = 1) /\ TailIn(l, S \ released)
          /\ \A j \in 1 .. i - 1 : list[j] \in released \/ list[j] \in ToSet(l)
      BY <2>2, <3>1
    <3>3. kept[i] = IF list[i] \in released THEN l ELSE grown
      BY <1>2
    <3> HIDE DEF l
    <3>4. \A j \in 1 .. i : j \in 1 .. i - 1 \/ j = i
      BY <3>1
    <3>5. CASE list[i] \in released
      <4>1. i # 1
        BY <3>5
      <4>2. l # <<>>
        BY <3>2, <4>1
      <4>3. \A j \in 1 .. i : list[j] \in released \/ list[j] \in ToSet(l)
        BY <3>2, <3>4, <3>5
      <4>4. kept[i] = l
        BY <3>3, <3>5
      <4> QED BY <3>1, <3>2, <4>2, <4>3, <4>4
    <3>6. CASE list[i] \notin released
      <4>1. l = <<>> \/ list[i] \in S \ released
        <5>1. CASE i = 1
          BY <1>2, <5>1 DEF l
        <5>2. CASE i # 1
          <6>1. list[i] \in S
            BY <1>3, <3>1, <5>2 DEF TailIn
          <6> QED BY <3>6, <6>1
        <5> QED BY <5>1, <5>2
      <4>2. /\ grown \in Seq(Entry) /\ Len(grown) = Len(l) + 1
            /\ ToSet(grown) = ToSet(l) \cup {list[i]}
        BY <3>1, <3>2, AppendContent
      <4>3. TailIn(grown, S \ released)
        BY <3>1, <3>2, <4>1, AppendContent
      <4>4. grown # <<>>
        BY <3>1, <3>2
      <4>5. \A j \in 1 .. i : list[j] \in released \/ list[j] \in ToSet(grown)
        BY <3>2, <3>4, <4>2
      <4>6. kept[i] = grown
        BY <3>3, <3>6
      <4> HIDE DEF grown
      <4> QED BY <3>1, <4>2, <4>3, <4>4, <4>5, <4>6
    <3> QED BY <3>5, <3>6
  <2>3. kept[n] \in X[n]
    <3> HIDE DEF X
    <3>1. \A i \in 0 .. n : kept[i] \in X[i]
      BY <1>1, <2>1, <2>2, StepByStep
    <3> QED BY <1>1, <3>1
  <2>4. n \in 0 .. n
    BY <1>1
  <2>5. /\ TailIn(kept[n], S \ released)
        /\ \A j \in 1 .. n : list[j] \in released \/ list[j] \in ToSet(kept[n])
    BY <2>3, <2>4
  <2> HIDE DEF X
  <2> QED BY <1>1, <2>5 DEF ToSet
<1>4. TailIn(list, Entry)
  BY <1>1 DEF TailIn
<1> QED BY <1>2, <1>3, <1>4

\* Ranges for a service of a mirror service.
Of(s, m) == {e \in Entry : e.OwnerServiceId = s /\ e.MirrorServiceId = m}

LEMMA InsertAtContent ==
  ASSUME NEW list \in Seq(Entry), NEW p \in 2 .. Len(list) + 1, NEW e \in Entry
  PROVE  /\ ToSet(InsertAt(list, p, e)) = ToSet(list) \cup {e}
         /\ \A S : TailIn(list, S) /\ e \in S => TailIn(InsertAt(list, p, e), S)
<1> DEFINE n == Len(list)
           longer == InsertAt(list, p, e)
<1>1. n \in Nat /\ DOMAIN list = 1 .. n /\ p \in 1 .. n + 1 /\ p \in 2 .. n + 1
  OBVIOUS
<1> HIDE DEF n, longer
<1>2. /\ longer \in Seq(Entry) /\ Len(longer) = n + 1
      /\ \A i \in 1 .. n + 1 :
           longer[i] = IF i < p THEN list[i] ELSE IF i = p THEN e ELSE list[i - 1]
  <2>1. p \in 1 .. Len(list) + 1 /\ list \in Seq(Entry) /\ e \in Entry
    BY <1>1 DEF n
  <2>2. /\ InsertAt(list, p, e) \in Seq(Entry) /\ Len(InsertAt(list, p, e)) = Len(list) + 1
        /\ \A i \in 1 .. Len(list) + 1 :
             InsertAt(list, p, e)[i] = IF i < p THEN list[i] ELSE IF i = p THEN e ELSE list[i - 1]
    BY <2>1, InsertAtEntries, ZenonT(40)
  <2> QED BY <2>2, Zenon DEF n, longer
<1>3. DOMAIN longer = 1 .. n + 1
  BY <1>2
<1> HIDE DEF longer, n
<1>4. ASSUME NEW i \in 1 .. n + 1 PROVE longer[i] = e \/ \E j \in 1 .. n : longer[i] = list[j] /\ (i >= 2 => j >= 2)
  <2>1. CASE i < p
    <3>1. longer[i] = list[i] /\ i \in 1 .. n
      BY <1>1, <1>2, <2>1
    <3> QED BY <3>1
  <2>2. CASE i = p
    BY <1>1, <1>2, <2>2
  <2>3. CASE i > p
    <3>1. longer[i] = list[i - 1] /\ i - 1 \in 1 .. n /\ i - 1 >= 2
      BY <1>1, <1>2, <2>3
    <3> QED BY <3>1
  <2> QED BY <1>1, <2>1, <2>2, <2>3
<1>5. ASSUME NEW i \in 1 .. n PROVE \E j \in 1 .. n + 1 : longer[j] = list[i]
  <2>1. CASE i < p
    <3>1. longer[i] = list[i] /\ i \in 1 .. n + 1
      BY <1>1, <1>2, <2>1
    <3> QED BY <3>1
  <2>2. CASE ~(i < p)
    <3>1. /\ i + 1 \in 1 .. n + 1 /\ ~(i + 1 < p) /\ i + 1 # p /\ (i + 1) - 1 = i
      BY <1>1, <2>2
    <3>2. longer[i + 1] = list[i]
      BY <1>2, <3>1
    <3> QED BY <3>1, <3>2
  <2> QED BY <2>1, <2>2
<1>6. longer[p] = e
  BY <1>1, <1>2
<1>7. ToSet(longer) = ToSet(list) \cup {e}
  <2>1. ToSet(longer) = {longer[i] : i \in 1 .. n + 1} /\ ToSet(list) = {list[i] : i \in 1 .. n}
    BY <1>1, <1>3 DEF ToSet
  <2>2. {longer[i] : i \in 1 .. n + 1} \subseteq {list[i] : i \in 1 .. n} \cup {e}
    BY <1>4
  <2>3. {list[i] : i \in 1 .. n} \subseteq {longer[i] : i \in 1 .. n + 1}
    BY <1>5
  <2>4. e \in {longer[i] : i \in 1 .. n + 1}
    BY <1>1, <1>6
  <2> QED BY <2>1, <2>2, <2>3, <2>4
<1>8. ASSUME NEW S, TailIn(list, S), e \in S PROVE TailIn(longer, S)
  <2> SUFFICES ASSUME NEW i \in 2 .. n + 1 PROVE longer[i] \in S
    BY <1>2 DEF TailIn
  <2>1. i \in 1 .. n + 1 /\ i >= 2
    BY <1>1
  <2>2. CASE longer[i] = e
    BY <1>8, <2>2
  <2>3. CASE longer[i] # e
    <3>1. PICK j \in 1 .. n : longer[i] = list[j] /\ j >= 2
      BY <1>4, <2>1, <2>3
    <3>2. j \in 2 .. Len(list)
      BY <1>1, <3>1 DEF n
    <3> QED BY <1>8, <3>1, <3>2 DEF TailIn
  <2> QED BY <2>2, <2>3
<1> QED BY <1>7, <1>8 DEF longer

LEMMA LimitedContent ==
  ASSUME NEW list \in Lists, NEW start \in Int, start >= -1, NEW n \in Nat \ {0},
         NEW owner \in Services, NEW m \in Hosts
  PROVE  LET limited == Limited(list, Inserted(list, start, n, owner, m))
         IN /\ ToSet(list) \subseteq ToSet(limited.list)
            /\ \/ limited.range = Blank
               \/ RowRange(limited.range.First, limited.range.Last, owner, m)
                    \in ToSet(limited.list)
            /\ \A S : TailIn(list, S) /\ Of(owner, m) \subseteq S => TailIn(limited.list, S)
<1>1. list \in Seq(Entry)
  BY ListParts
<1>2. PICK p \in 2 .. Len(list) + 1, prev \in Rows :
        /\ p - 1 \in 1 .. Len(list) /\ prev = list[p - 1].Last
        /\ IsPlaced(list, start, n, owner, m, p, prev)
  BY PlacedAfter
<1> DEFINE e == RowRange(prev + 1, prev + n, owner, m)
           range == [First |-> prev + 1, Last |-> prev + n]
           inserted == Inserted(list, start, n, owner, m)
<1>3. /\ inserted.list = InsertAt(list, p, e) /\ inserted.range = range
      /\ range.First = prev + 1 /\ range.Last = prev + n
  BY <1>2 DEF IsPlaced
<1>4. CASE prev + n < MaxRows
  <2>1. prev + 1 \in Rows /\ prev + n \in Rows
    <3>1. prev \in Int /\ prev >= 0 /\ n \in Int /\ n >= 1 /\ MaxRows \in Int
      BY <1>2, MaxRowsAssumption DEF Rows
    <3> QED BY <1>4, <3>1 DEF Rows
  <2>2. e \in Of(owner, m) /\ e \in Entry
    BY <2>1 DEF Entry, RowRange, Of
  <2>3. RowRange(range.First, range.Last, owner, m) = e
    BY <1>3
  <2> HIDE DEF e, range
  <2>4. /\ ToSet(InsertAt(list, p, e)) = ToSet(list) \cup {e}
        /\ \A S : TailIn(list, S) /\ e \in S => TailIn(InsertAt(list, p, e), S)
    BY <1>1, <2>2, InsertAtContent
  <2> HIDE DEF inserted
  <2>5. Limited(list, inserted) = inserted
    BY <1>3, <1>4 DEF Limited
  <2>6. ToSet(list) \subseteq ToSet(inserted.list) /\ e \in ToSet(inserted.list)
    BY <1>3, <2>4
  <2>7. \A S : TailIn(list, S) /\ Of(owner, m) \subseteq S => TailIn(inserted.list, S)
    BY <1>3, <2>2, <2>4
  <2> QED BY <1>3, <2>3, <2>5, <2>6, <2>7 DEF inserted
<1>5. CASE ~(prev + n < MaxRows)
  <2> HIDE DEF inserted
  <2>1. Limited(list, inserted) = [list |-> list, range |-> Blank]
    BY <1>3, <1>5 DEF Limited
  <2> QED BY <2>1 DEF inserted
<1> QED BY <1>4, <1>5

LEMMA AcquireContent ==
  ASSUME NEW list \in Lists, NEW n \in Nat \ {0}, NEW owner \in Services, NEW m \in Hosts
  PROVE  LET acquired == AcquireRange(list, owner, m, n)
         IN /\ ToSet(list) \subseteq ToSet(acquired.list)
            /\ \/ acquired.range = Blank
               \/ RowRange(acquired.range.First, acquired.range.Last, owner, m)
                    \in ToSet(acquired.list)
            /\ \A S : TailIn(list, S) /\ Of(owner, m) \subseteq S => TailIn(acquired.list, S)
<1>1. -1 \in Int /\ -1 >= -1
  OBVIOUS
<1> QED BY <1>1, LimitedContent DEF AcquireRange

LEMMA ReacquireContent ==
  ASSUME NEW list \in Lists, NEW range \in GivenRange, NEW owner \in Services, NEW m \in Hosts
  PROVE  LET reacquired == ReacquireRange(list, owner, m, range)
         IN /\ ToSet(list) \subseteq ToSet(reacquired)
            /\ \A S : TailIn(list, S) /\ Of(owner, m) \subseteq S => TailIn(reacquired, S)
<1> DEFINE start == range.First - 1
           n == range.Last - range.First + 1
<1>1. range.First \in Nat /\ range.Last \in Nat /\ range.First <= range.Last
  BY MaxRowsAssumption DEF GivenRange, Blank, NoRow, Rows
<1>2. start \in Int /\ start >= -1 /\ n \in Nat \ {0}
  BY <1>1
<1> DEFINE limited == Limited(list, Inserted(list, start, n, owner, m))
<1>3. /\ ToSet(list) \subseteq ToSet(limited.list)
      /\ \A S : TailIn(list, S) /\ Of(owner, m) \subseteq S => TailIn(limited.list, S)
  <2> HIDE DEF start, n
  <2> QED BY <1>2, LimitedContent
<1> QED BY <1>3 DEF ReacquireRange

LEMMA ReacquiredContent ==
  ASSUME NEW list \in Lists, NEW told \in Seq(Told), NEW online, NEW m \in Hosts
  PROVE  /\ ToSet(list) \subseteq ToSet(Reacquired(list, told, online, m))
         /\ \A S : TailIn(list, S) /\ (\A i \in 1 .. Len(told) : Of(told[i].service, m) \subseteq S)
                     => TailIn(Reacquired(list, told, online, m), S)
<1> DEFINE n == Len(told)
<1>1. n \in Nat /\ \A i \in 1 .. n : told[i].service \in Services /\ told[i].range \in GivenRange
  <2>1. \A i \in 1 .. n : told[i] \in Told
    OBVIOUS
  <2> QED BY <2>1 DEF Told
<1>0. PICK after : IsReacquired(after, list, told, online, m)
  BY ReacquiredSteps
<1>2. /\ Reacquired(list, told, online, m) = after[n]
      /\ after[0] = list
      /\ \A i \in 1 .. n :
           after[i] = IF told[i].service \notin online THEN after[i - 1]
                      ELSE ReacquireRange(after[i - 1], told[i].service, m, told[i].range)
  BY <1>0 DEF IsReacquired
<1>3. ASSUME NEW S, TailIn(list, S), \A i \in 1 .. n : Of(told[i].service, m) \subseteq S
      PROVE  ToSet(list) \subseteq ToSet(after[n]) /\ TailIn(after[n], S)
  <2> DEFINE Good == {l \in Lists : ToSet(list) \subseteq ToSet(l) /\ TailIn(l, S)}
             X == [i \in 0 .. n |-> Good]
  <2>1. \A i \in 0 .. n : X[i] = Good
    OBVIOUS
  <2>2. ASSUME NEW i \in 1 .. n, after[i - 1] \in Good PROVE after[i] \in Good
    <3> DEFINE l == after[i - 1]
               r == ReacquireRange(l, told[i].service, m, told[i].range)
    <3>1. l \in Lists /\ ToSet(list) \subseteq ToSet(l) /\ TailIn(l, S)
      BY <2>2
    <3> HIDE DEF l
    <3>2. r \in Lists
      BY <1>1, <3>1, ReacquireApart
    <3>3. /\ ToSet(l) \subseteq ToSet(r)
          /\ \A Q : TailIn(l, Q) /\ Of(told[i].service, m) \subseteq Q => TailIn(r, Q)
      BY <1>1, <3>1, ReacquireContent
    <3>4. TailIn(r, S)
      BY <1>3, <3>1, <3>3
    <3>5. after[i] = IF told[i].service \notin online THEN l ELSE r
      BY <1>2 DEF l
    <3> HIDE DEF r
    <3> QED BY <3>1, <3>2, <3>3, <3>4, <3>5
  <2>3. list \in Good
    BY <1>3
  <2> HIDE DEF Good
  <2>4. after[n] \in Good
    <3> HIDE DEF X, n
    <3>1. 0 \in 0 .. n /\ n \in 0 .. n /\ \A i \in 1 .. n : i - 1 \in 0 .. n /\ i \in 0 .. n
      BY <1>1
    <3>2. after[0] \in X[0]
      BY <1>2, <2>1, <2>3, <3>1
    <3>3. \A i \in 1 .. n : after[i - 1] \in X[i - 1] => after[i] \in X[i]
      BY <2>1, <2>2, <3>1
    <3>4. \A i \in 0 .. n : after[i] \in X[i]
      BY <1>1, <3>2, <3>3, StepByStep
    <3> QED BY <2>1, <3>1, <3>4
  <2> QED BY <2>4 DEF Good
<1>4. TailIn(list, Entry) /\ \A i \in 1 .. n : Of(told[i].service, m) \subseteq Entry
  <2>1. \A i \in 1 .. Len(list) : list[i] \in Entry
    BY ListParts
  <2>2. Len(list) \in Nat
    BY ListParts
  <2>3. \A i \in 2 .. Len(list) : i \in 1 .. Len(list)
    BY <2>2
  <2> QED BY <2>1, <2>3 DEF TailIn, Of
<1> QED BY <1>2, <1>3, <1>4

\* A request is refused when no place has that many free rows.
LEMMA Refused ==
  ASSUME NEW list \in Lists, NEW n \in Nat \ {0}, NEW owner \in Services, NEW m \in Hosts,
         AcquireRange(list, owner, m, n).list = list, NEW first \in Rows
  PROVE  ~Free(list, first, n)
<1> SUFFICES ASSUME Free(list, first, n) PROVE FALSE
  OBVIOUS
<1> DEFINE start == -1
           l == Len(list)
           inserted == Inserted(list, start, n, owner, m)
<1>1. /\ list \in Seq(Entry) /\ l \in Nat \ {0} /\ list[1].First = 0 /\ DOMAIN list = 1 .. l
      /\ \A i \in 1 .. l : list[i].Last \in Rows /\ list[i].First \in Rows
                           /\ list[i].First <= list[i].Last
  BY ListParts DEF Lists, Apart
<1>2. start \in Int /\ start >= -1
  OBVIOUS
<1>3. AcquireRange(list, owner, m, n) = Limited(list, inserted)
  BY DEF AcquireRange
<1> HIDE DEF start
<1>4. PICK p \in 2 .. l + 1, prev \in Rows :
        /\ p - 1 \in 1 .. l /\ prev = list[p - 1].Last
        /\ IsPlaced(list, start, n, owner, m, p, prev)
  BY <1>2, PlacedAfter
<1> DEFINE e == RowRange(prev + 1, prev + n, owner, m)
<1>5. /\ inserted.list = InsertAt(list, p, e) /\ inserted.range.Last = prev + n
      /\ Fits(list, p, prev, n)
      /\ \A j \in 1 .. p - 1 : ~Fits(list, j, IF j = 1 THEN start ELSE list[j - 1].Last, n)
  BY <1>4 DEF IsPlaced
<1> HIDE DEF inserted
<1>6. /\ prev \in Int /\ prev >= 0 /\ prev < MaxRows /\ n \in Int /\ n >= 1 /\ MaxRows \in Int
      /\ first \in Int /\ first >= 0
  BY <1>4, MaxRowsAssumption DEF Rows
<1>7. ~(prev + n < MaxRows)
  <2>1. SUFFICES ASSUME prev + n < MaxRows PROVE FALSE
    OBVIOUS
  <2>2. e \in Entry
    <3>1. prev + 1 \in Rows /\ prev + n \in Rows
      BY <1>6, <2>1 DEF Rows
    <3> QED BY <3>1 DEF Entry, RowRange
  <2> HIDE DEF e
  <2>3. p \in 1 .. Len(list) + 1
    BY <1>1, <1>4
  <2>4. Len(InsertAt(list, p, e)) = Len(list) + 1
    BY <1>1, <2>2, <2>3, InsertAtEntries
  <2>5. Limited(list, inserted).list = InsertAt(list, p, e)
    BY <1>5, <2>1 DEF Limited
  <2>6. InsertAt(list, p, e) = list
    BY <1>3, <2>5
  <2> QED BY <1>1, <2>4, <2>6
<1>8. p = l + 1
  <2>1. SUFFICES ASSUME p # l + 1 PROVE FALSE
    OBVIOUS
  <2>2. p \in 1 .. l /\ prev + n < list[p].First
    BY <1>1, <1>4, <1>5, <2>1 DEF Fits
  <2>3. list[p].First \in Int /\ list[p].First < MaxRows
    BY <1>1, <1>6, <2>2 DEF Rows
  <2> QED BY <1>6, <1>7, <2>2, <2>3
<1> DEFINE Behind == {i \in 1 .. l : first <= list[i].Last}
<1>9. l \in Behind
  <2>1. first + n <= MaxRows
    BY DEF Free
  <2>2. prev = list[l].Last /\ l \in 1 .. l
    BY <1>1, <1>4, <1>8
  <2>3. first <= prev
    BY <1>6, <1>7, <2>1
  <2> QED BY <2>2, <2>3
<1>10. PICK i \in Behind : \A j \in Behind : i <= j
  <2>1. Behind \in SUBSET Nat
    BY <1>1
  <2> HIDE DEF Behind
  <2> QED BY <1>9, <2>1, Least
<1>11. i \in 1 .. l /\ first <= list[i].Last
  BY <1>10
<1>12. /\ list[i].Last \in Int /\ list[i].First \in Int
  BY <1>1, <1>6, <1>11 DEF Rows
<1>13. first + n <= list[i].First
  <2>1. list[i].Last < first \/ first + n <= list[i].First
    BY <1>1, <1>11 DEF Free
  <2> QED BY <1>6, <1>11, <1>12, <2>1
<1>14. i # 1
  BY <1>1, <1>6, <1>13
<1>15. /\ i - 1 \in 1 .. l /\ i - 1 \notin Behind /\ i \in 1 .. p - 1
  BY <1>1, <1>8, <1>10, <1>11, <1>14
<1>16. list[i - 1].Last \in Int /\ list[i - 1].Last < first
  BY <1>1, <1>6, <1>15 DEF Rows
<1>17. list[i - 1].Last + n < list[i].First
  <2> DEFINE last == list[i - 1].Last
             next == list[i].First
  <2>1. last \in Int /\ last < first /\ next \in Int /\ first + n <= next
    BY <1>12, <1>13, <1>16
  <2> HIDE DEF last, next
  <2>2. last + n < next
    BY <1>6, <2>1
  <2> QED BY <2>2 DEF last, next
<1>18. ~Fits(list, i, list[i - 1].Last, n)
  BY <1>5, <1>14, <1>15
<1> QED BY <1>17, <1>18 DEF Fits

--------------------------------------------------------------------------------
\* What has been sent to TICKS.  Down is the last message of a mirror service that
\* does not run; a mirror service only keeps ranges of the services connected to it.
LastIsDown ==
  \A m \in Hosts : \A i \in 1 .. Len(toRM[m]) :
    toRM[m][i] = Down => i = Len(toRM[m]) /\ m \notin msUp
OwnedAt == \A m \in Hosts, s \in Services : owned[m][s] # <<>> => svcAt[s] = m
NothingSent == ~rmUp => \A m \in Hosts : toRM[m] = <<>>
SentInv == LastIsDown /\ OwnedAt /\ NothingSent

LEMMA Popped ==
  ASSUME NEW S, NEW q \in Seq(S), q # <<>>
  PROVE  /\ Len(q) \in Nat \ {0} /\ Len(Tail(q)) = Len(q) - 1 /\ Head(q) = q[1]
         /\ \A i \in 1 .. Len(q) - 1 : Tail(q)[i] = q[i + 1] /\ i + 1 \in 1 .. Len(q)
OBVIOUS

LEMMA Appended ==
  ASSUME NEW S, NEW q \in Seq(S), NEW x \in S
  PROVE  /\ Len(q) \in Nat /\ Len(Append(q, x)) = Len(q) + 1 /\ Append(q, x)[Len(q) + 1] = x
         /\ \A i \in 1 .. Len(q) : Append(q, x)[i] = q[i] /\ i \in 1 .. Len(q) + 1
         /\ \A i \in 1 .. Len(q) + 1 : i \in 1 .. Len(q) \/ i = Len(q) + 1
OBVIOUS

LEMMA CutAppended ==
  ASSUME NEW S, NEW q \in Seq(S), NEW x \in S, NEW k \in 0 .. Len(q)
  PROVE  /\ Len(Append(SubSeq(q, 1, k), x)) = k + 1 /\ Append(SubSeq(q, 1, k), x)[k + 1] = x
         /\ \A i \in 1 .. k : Append(SubSeq(q, 1, k), x)[i] = q[i] /\ i \in 1 .. Len(q)
<1> DEFINE c == SubSeq(q, 1, k)
<1>1. c \in Seq(S) /\ Len(c) = k /\ \A i \in 1 .. k : c[i] = q[i] /\ i \in 1 .. Len(q)
  <2>1. Len(q) \in Nat /\ k \in Nat
    OBVIOUS
  <2> QED BY <2>1, SubSeqProperties
<1> HIDE DEF c
<1>2. /\ Len(Append(c, x)) = k + 1 /\ Append(c, x)[k + 1] = x
      /\ \A i \in 1 .. k : Append(c, x)[i] = c[i]
  BY <1>1, Appended
<1> QED BY <1>1, <1>2 DEF c

LEMMA EmptyQueue == \A q : q = <<>> => Len(q) = 0
OBVIOUS

\* The messages by their types.
LEMMA RMMessageKinds ==
  ASSUME NEW msg \in RMMessages
  PROVE  /\ msg.type = "RRG" => msg = RRG(msg.service)
         /\ msg.type = "DOWN" => msg = Down
         /\ msg = Down => msg.type = "DOWN"
         /\ \A s : msg = RRG(s) => msg.type = "RRG" /\ msg.service = s
BY DEF RMMessages, Down, GRG, RRG, RARG

LEMMA SentCases ==
  ASSUME NEW m \in Hosts, NEW msg
  PROVE  \/ /\ rmUp /\ m \in rmReady /\ ~Contains(toMS[m], Down)
            /\ Sent(m, msg) = [toRM EXCEPT ![m] = Append(@, msg)]
         \/ /\ ~(rmUp /\ m \in rmReady /\ ~Contains(toMS[m], Down))
            /\ Sent(m, msg) = toRM
BY DEF Sent

\* Messages that are read leave what follows them.
LEMMA PoppedSent ==
  ASSUME RangeInv, SentInv, NEW m \in Hosts, toRM[m] # <<>>,
         toRM' = [toRM EXCEPT ![m] = Tail(@)], UNCHANGED <<rmUp, msUp, owned, svcAt>>
  PROVE  SentInv'
<1>1. toRM \in [Hosts -> Seq(RMMessages)]
  BY DEF RangeInv, QueuesInv
<1>2. ASSUME NEW h \in Hosts, NEW i \in 1 .. Len(toRM'[h])
      PROVE  \E j \in 1 .. Len(toRM[h]) :
               /\ toRM'[h][i] = toRM[h][j]
               /\ j = Len(toRM[h]) => i = Len(toRM'[h])
  <2>1. CASE h = m
    <3>1. toRM'[m] = Tail(toRM[m]) /\ toRM[m] \in Seq(RMMessages)
      BY <1>1
    <3>2. /\ Len(toRM[m]) \in Nat \ {0} /\ Len(toRM'[m]) = Len(toRM[m]) - 1
          /\ \A k \in 1 .. Len(toRM[m]) - 1 :
               toRM'[m][k] = toRM[m][k + 1] /\ k + 1 \in 1 .. Len(toRM[m])
      BY <3>1, Popped
    <3>3. i \in 1 .. Len(toRM[m]) - 1
      BY <1>2, <2>1, <3>2
    <3>4. i + 1 = Len(toRM[m]) => i = Len(toRM'[m])
      BY <3>2, <3>3
    <3> QED BY <2>1, <3>2, <3>3, <3>4
  <2>2. CASE h # m
    <3>1. toRM'[h] = toRM[h]
      BY <1>1, <2>2
    <3> QED BY <1>2, <3>1
  <2> QED BY <2>1, <2>2
<1>3. LastIsDown'
  BY <1>2 DEF SentInv, LastIsDown
<1>4. NothingSent'
  BY DEF SentInv, NothingSent
<1> QED BY <1>3, <1>4 DEF SentInv, OwnedAt

LEMMA AppendedSent ==
  ASSUME RangeInv, SentInv, NEW m \in msUp, NEW msg \in RMMessages, msg # Down, rmUp,
         toRM' = [toRM EXCEPT ![m] = Append(@, msg)], UNCHANGED <<rmUp, msUp>>,
         OwnedAt'
  PROVE  SentInv'
<1>1. toRM \in [Hosts -> Seq(RMMessages)] /\ m \in Hosts
  BY DEF RangeInv, QueuesInv, ServicesInv
<1>2. ASSUME NEW h \in Hosts, NEW i \in 1 .. Len(toRM'[h])
      PROVE  \/ i \in 1 .. Len(toRM[h]) /\ toRM'[h][i] = toRM[h][i] /\ (h # m => toRM'[h] = toRM[h])
             \/ toRM'[h][i] = msg /\ h = m
  <2>1. CASE h = m
    <3>1. toRM'[m] = Append(toRM[m], msg) /\ toRM[m] \in Seq(RMMessages)
      BY <1>1
    <3> QED BY <1>2, <2>1, <3>1, Appended
  <2>2. CASE h # m
    <3>1. toRM'[h] = toRM[h]
      BY <1>1, <2>2
    <3> QED BY <1>2, <2>2, <3>1
  <2> QED BY <2>1, <2>2
<1>3. LastIsDown'
  <2> SUFFICES ASSUME NEW h \in Hosts, NEW i \in 1 .. Len(toRM'[h]), toRM'[h][i] = Down
               PROVE  i = Len(toRM'[h]) /\ h \notin msUp'
    BY DEF LastIsDown
  <2>1. i \in 1 .. Len(toRM[h]) /\ toRM[h][i] = Down /\ (h # m => toRM'[h] = toRM[h])
    BY <1>2
  <2>2. i = Len(toRM[h]) /\ h \notin msUp
    BY <2>1 DEF SentInv, LastIsDown
  <2> QED BY <2>1, <2>2
<1> QED BY <1>3 DEF SentInv, NothingSent

LEMMA SetRangeManagerReadySent ==
  ASSUME RangeInv, SentInv, NEW m \in Hosts, SetRangeManagerReady(m), RangeInv' PROVE SentInv'
<1>1. PICK ranges : toRM' = IF ranges = <<>> THEN toRM
                            ELSE [toRM EXCEPT ![m] = Append(@, RARG(ranges))]
  BY DEF SetRangeManagerReady
<1>2. m \in msUp /\ rmUp /\ UNCHANGED <<rmUp, msUp, owned, svcAt>>
  BY DEF SetRangeManagerReady, rmState, svcState
<1>3. OwnedAt'
  BY <1>2 DEF SentInv, OwnedAt
<1>4. CASE ranges = <<>>
  BY <1>1, <1>2, <1>3, <1>4 DEF SentInv, LastIsDown, NothingSent
<1>5. CASE ranges # <<>>
  <2> DEFINE msg == RARG(ranges)
  <2>1. msg \in RMMessages
    <3>1. toRM \in [Hosts -> Seq(RMMessages)] /\ toRM' \in [Hosts -> Seq(RMMessages)]
      BY DEF RangeInv, QueuesInv
    <3> HIDE DEF msg
    <3>2. toRM'[m] = Append(toRM[m], msg)
      BY <1>1, <1>5, <3>1 DEF msg
    <3>3. toRM[m] \in Seq(RMMessages) /\ Append(toRM[m], msg) \in Seq(RMMessages)
      BY <3>1, <3>2
    <3>4. Append(toRM[m], msg)[Len(toRM[m]) + 1] = msg /\ Len(toRM[m]) + 1 \in 1 .. Len(Append(toRM[m], msg))
      BY <3>3
    <3>5. \A i \in 1 .. Len(Append(toRM[m], msg)) : Append(toRM[m], msg)[i] \in RMMessages
      BY <3>3
    <3> QED BY <3>4, <3>5
  <2>2. msg # Down
    BY DEF RARG, Down
  <2> HIDE DEF msg
  <2>3. toRM' = [toRM EXCEPT ![m] = Append(@, msg)]
    BY <1>1, <1>5 DEF msg
  <2> QED BY <1>2, <1>3, <2>1, <2>2, <2>3, AppendedSent
<1> QED BY <1>4, <1>5

LEMMA GiveRangeSent ==
  ASSUME RangeInv, SentInv, NEW m \in Hosts, GiveRange(m)
  PROVE  /\ SentInv'
         /\ \A h \in Hosts, s \in Services : (owned'[h][s] = <<>>) = (owned[h][s] = <<>>)
<1> DEFINE msg == Head(toMS[m])
           list == owned[m][msg.service]
           blanks == {i \in DOMAIN list : list[i] = Blank}
           first == CHOOSE i \in blanks : \A j \in blanks : i <= j
<1>1. msg.service \in Services
  BY MSReads, MSMessageFields DEF GiveRange
<1>2. owned' = IF msg.range = Blank \/ blanks = {} THEN owned
               ELSE [owned EXCEPT ![m][msg.service][first] = msg.range]
  BY DEF GiveRange
<1>3. owned \in [Hosts -> [Services -> Seq(GivenRange)]]
  BY DEF RangeInv, OwnedInv
<1>4. ASSUME NEW h \in Hosts, NEW s \in Services
      PROVE  (owned'[h][s] = <<>>) = (owned[h][s] = <<>>)
  <2>1. owned'[h][s] = owned[h][s]
        \/ owned'[h][s] = [owned[h][s] EXCEPT ![first] = msg.range]
    <3> HIDE DEF msg, first, blanks
    <3> QED BY <1>1, <1>2, <1>3
  <2>2. owned[h][s] \in Seq(GivenRange)
    BY <1>3
  <2>3. ASSUME NEW q \in Seq(GivenRange), NEW i, NEW r
        PROVE  ([q EXCEPT ![i] = r] = <<>>) = (q = <<>>)
    <3>1. DOMAIN [q EXCEPT ![i] = r] = DOMAIN q
      OBVIOUS
    <3>2. DOMAIN q = 1 .. Len(q) /\ Len(q) \in Nat
      OBVIOUS
    <3>3. [q EXCEPT ![i] = r] = <<>> => q = <<>>
      <4>1. SUFFICES ASSUME [q EXCEPT ![i] = r] = <<>> PROVE q = <<>>
        OBVIOUS
      <4>2. DOMAIN [q EXCEPT ![i] = r] = {}
        BY <4>1
      <4>3. Len(q) = 0
        BY <3>1, <3>2, <4>2
      <4> QED BY <4>3, EmptySeq
    <3>4. q = <<>> => [q EXCEPT ![i] = r] = <<>>
      OBVIOUS
    <3> QED BY <3>3, <3>4
  <2> HIDE DEF first, msg
  <2>4. ([owned[h][s] EXCEPT ![first] = msg.range] = <<>>) = (owned[h][s] = <<>>)
    BY <2>2, <2>3
  <2> QED BY <2>1, <2>4
<1>5. OwnedAt'
  BY <1>4 DEF SentInv, OwnedAt, GiveRange, svcState
<1> QED BY <1>4, <1>5 DEF GiveRange, SentInv, LastIsDown, NothingSent, rmState, svcState

LEMMA DeclareEntityTypeOwnerSent ==
  ASSUME RangeInv, SentInv, NEW m \in Hosts, NEW s \in Services, DeclareEntityTypeOwner(m, s)
  PROVE  SentInv'
<1>1. PICK n \in Sizes : toRM' = Sent(m, GRG(s, n))
  BY DEF DeclareEntityTypeOwner
<1> DEFINE msg == GRG(s, n)
<1>2. msg \in RMMessages /\ msg # Down
  BY SizesAssumption DEF RMMessages, GRG, Down
<1>3. m \in msUp /\ svcAt[s] = m /\ UNCHANGED <<rmUp, msUp, svcAt>>
  BY DEF DeclareEntityTypeOwner, rmState, svcState
<1>4. OwnedAt'
  BY <1>3 DEF SentInv, OwnedAt, DeclareEntityTypeOwner, RangeInv, OwnedInv
<1> HIDE DEF msg
<1>5. CASE rmUp /\ toRM' = [toRM EXCEPT ![m] = Append(@, msg)]
  BY <1>2, <1>3, <1>4, <1>5, AppendedSent
<1>6. CASE toRM' = toRM
  BY <1>3, <1>4, <1>6 DEF SentInv, LastIsDown, NothingSent
<1> QED BY <1>1, <1>5, <1>6, SentCases DEF msg

LEMMA ReleaseRangesOfServiceSent ==
  ASSUME RangeInv, SentInv, NEW m \in Hosts, NEW s \in Services, ReleaseRangesOfService(m, s)
  PROVE  SentInv'
<1> DEFINE msg == RRG(s)
<1>1. msg \in RMMessages /\ msg # Down
  BY DEF RMMessages, Down, RRG
<1>2. /\ m \in msUp /\ UNCHANGED <<rmUp, msUp>>
      /\ svcAt' = [svcAt EXCEPT ![s] = Nobody] /\ svcAt \in [Services -> msUp \cup {Nobody}]
  BY DEF ReleaseRangesOfService, rmState, RangeInv, ServicesInv
<1>3. OwnedAt'
  BY <1>2 DEF SentInv, OwnedAt, ReleaseRangesOfService, RangeInv, OwnedInv
<1> HIDE DEF msg
<1>4. CASE rmUp /\ toRM' = [toRM EXCEPT ![m] = Append(@, msg)]
  BY <1>1, <1>2, <1>3, <1>4, AppendedSent
<1>5. CASE toRM' = toRM
  BY <1>2, <1>3, <1>5 DEF SentInv, LastIsDown, NothingSent
<1> QED BY <1>4, <1>5, SentCases DEF msg, ReleaseRangesOfService

LEMMA SvcSent ==
  ASSUME RangeInv, SentInv, NEW s \in Services, SvcEnd(s) \/ \E m \in Hosts : SvcStart(s, m)
  PROVE  SentInv'
<1>1. CASE SvcEnd(s)
  BY <1>1 DEF SvcEnd, SentInv, LastIsDown, OwnedAt, NothingSent, rmState, msState
<1>2. ASSUME NEW m \in Hosts, SvcStart(s, m) PROVE SentInv'
  <2>1. /\ svcAt' = [svcAt EXCEPT ![s] = m] /\ svcAt[s] = Nobody
        /\ UNCHANGED <<rmUp, msUp, owned, toRM>>
    BY <1>2 DEF SvcStart, IdFree, rmState, msState
  <2>2. svcAt \in [Services -> msUp \cup {Nobody}] /\ Nobody \notin Hosts
    BY NobodyAssumption DEF RangeInv, ServicesInv
  <2>3. OwnedAt'
    BY <2>1, <2>2 DEF SentInv, OwnedAt
  <2> QED BY <2>1, <2>3 DEF SentInv, LastIsDown, NothingSent
<1> QED BY <1>1, <1>2

LEMMA MSCrashSent ==
  ASSUME RangeInv, SentInv, NEW m \in Hosts, MSCrash(m) PROVE SentInv'
<1>1. PICK kept \in 0 .. Len(toRM[m]) :
        toRM' = IF rmUp /\ m \in rmReady
                THEN [toRM EXCEPT ![m] = Append(SubSeq(@, 1, kept), Down)] ELSE toRM
  BY DEF MSCrash
<1>2. /\ toRM \in [Hosts -> Seq(RMMessages)] /\ m \in msUp /\ msUp' = msUp \ {m}
      /\ svcAt \in [Services -> msUp \cup {Nobody}] /\ UNCHANGED rmUp
      /\ svcAt' = [s \in Services |-> IF svcAt[s] = m THEN Nobody ELSE svcAt[s]]
      /\ owned' = [owned EXCEPT ![m] = [s \in Services |-> <<>>]]
      /\ owned \in [Hosts -> [Services -> Seq(GivenRange)]]
  BY DEF RangeInv, QueuesInv, ServicesInv, OwnedInv, MSCrash, rmState
<1>3. OwnedAt'
  BY <1>2 DEF SentInv, OwnedAt
<1>4. ASSUME NEW h \in Hosts, NEW i \in 1 .. Len(toRM'[h])
      PROVE  \/ /\ i \in 1 .. Len(toRM[h]) /\ toRM'[h][i] = toRM[h][i]
                /\ toRM'[h] = toRM[h] \/ toRM[h][i] # Down
             \/ toRM'[h][i] = Down /\ h = m /\ i = Len(toRM'[h])
  <2>1. CASE h = m /\ rmUp /\ m \in rmReady
    <3> DEFINE q == toRM[m]
               c == Append(SubSeq(q, 1, kept), Down)
    <3>1. toRM'[m] = c /\ q \in Seq(RMMessages) /\ Down \in RMMessages
      <4>1. Down \in RMMessages
        BY DEF RMMessages
      <4>2. q \in Seq(RMMessages)
        BY <1>2
      <4>3. toRM'[m] = c
        BY <1>1, <1>2, <2>1
      <4> QED BY <4>1, <4>2, <4>3
    <3>2. /\ Len(c) = kept + 1 /\ c[kept + 1] = Down
          /\ \A k \in 1 .. kept : c[k] = q[k] /\ k \in 1 .. Len(q)
      <4> HIDE DEF q
      <4>1. kept \in 0 .. Len(q)
        BY DEF q
      <4> QED BY <3>1, <4>1, CutAppended
    <3>3. kept \in Nat /\ i \in 1 .. kept + 1
      BY <1>4, <2>1, <3>1, <3>2
    <3> HIDE DEF c
    <3>4. CASE i = kept + 1
      BY <2>1, <3>1, <3>2, <3>4
    <3>5. CASE i # kept + 1
      <4>1. i \in 1 .. kept
        BY <3>3, <3>5
      <4>2. toRM'[h][i] = q[i] /\ i \in 1 .. Len(q)
        BY <2>1, <3>1, <3>2, <4>1
      <4>3. q[i] # Down
        BY <1>2, <4>2 DEF SentInv, LastIsDown
      <4> QED BY <2>1, <4>2, <4>3
    <3> QED BY <3>4, <3>5
  <2>2. CASE ~(h = m /\ rmUp /\ m \in rmReady)
    <3>1. toRM'[h] = toRM[h]
      BY <1>1, <1>2, <2>2
    <3> QED BY <1>4, <3>1
  <2> QED BY <2>1, <2>2
<1>5. LastIsDown'
  BY <1>2, <1>4 DEF SentInv, LastIsDown
<1>6. NothingSent'
  BY <1>1, <1>2 DEF SentInv, NothingSent
<1> QED BY <1>3, <1>5, <1>6 DEF SentInv

LEMMA SentStep == RangeInv /\ SentInv /\ RangeInv' /\ [Next]_vars => SentInv'
<1> SUFFICES ASSUME RangeInv, SentInv, RangeInv', [Next]_vars PROVE SentInv'
  OBVIOUS
<1>1. CASE UNCHANGED vars
  BY <1>1 DEF vars, rmState, msState, svcState, failures,
              SentInv, LastIsDown, OwnedAt, NothingSent
<1>2. ASSUME NEW m \in Hosts,
             GetRange(m) \/ ReleaseRanges(m) \/ CbMSDown(m) \/ ReacquireRanges(m)
      PROVE  SentInv'
  <2>1. /\ toRM[m] # <<>> /\ toRM' = [toRM EXCEPT ![m] = Tail(@)]
        /\ UNCHANGED <<rmUp, msUp, owned, svcAt>>
    BY <1>2 DEF GetRange, ReleaseRanges, CbMSDown, ReacquireRanges, RMHas, msState, svcState
  <2> QED BY <2>1, PoppedSent
<1>3. ASSUME NEW m \in Hosts,
             SetRangeManagerReady(m) \/ SetRangeManagerDown(m) \/ GiveRange(m)
      PROVE  SentInv'
  <2>1. CASE SetRangeManagerDown(m)
    BY <2>1 DEF SetRangeManagerDown, rmState, svcState,
                SentInv, LastIsDown, OwnedAt, NothingSent
  <2> QED BY <1>3, <2>1, SetRangeManagerReadySent, GiveRangeSent
<1>4. ASSUME NEW m \in Hosts, MSStart(m) PROVE SentInv'
  <2>1. Len(toRM[m]) = 0
    BY <1>4, EmptyQueue DEF MSStart
  <2>2. UNCHANGED <<rmUp, owned, svcAt, toRM>> /\ msUp' = msUp \cup {m}
    BY <1>4 DEF MSStart, rmState, svcState
  <2>3. LastIsDown'
    <3> SUFFICES ASSUME NEW h \in Hosts, NEW i \in 1 .. Len(toRM[h]), toRM[h][i] = Down
                 PROVE  i = Len(toRM[h]) /\ h \notin msUp \cup {m}
      BY <2>2 DEF LastIsDown
    <3>1. h # m
      BY <2>1
    <3> QED BY <3>1 DEF SentInv, LastIsDown
  <2> QED BY <2>2, <2>3 DEF SentInv, OwnedAt, NothingSent
<1>5. ASSUME NEW m \in Hosts, MSCrash(m) PROVE SentInv'
  BY <1>5, MSCrashSent
<1>6. ASSUME NEW s \in Services, NEW m \in Hosts,
             DeclareEntityTypeOwner(m, s) \/ ReleaseRangesOfService(m, s)
      PROVE  SentInv'
  BY <1>6, DeclareEntityTypeOwnerSent, ReleaseRangesOfServiceSent
<1>7. ASSUME NEW s \in Services, SvcEnd(s) \/ \E m \in Hosts : SvcStart(s, m) PROVE SentInv'
  BY <1>7, SvcSent
<1>8. CASE RMCrash
  <2>1. toRM' = [m \in Hosts |-> <<>>] /\ UNCHANGED <<msUp, owned, svcAt>>
    BY <1>8 DEF RMCrash, msState, svcState
  <2>2. \A m \in Hosts : toRM'[m] = <<>> /\ Len(toRM'[m]) = 0
    BY <2>1
  <2> QED BY <2>1, <2>2 DEF SentInv, LastIsDown, OwnedAt, NothingSent
<1>9. CASE RMStart
  BY <1>9 DEF RMStart, msState, svcState, SentInv, LastIsDown, OwnedAt, NothingSent
<1> QED BY <1>1, <1>2, <1>3, <1>4, <1>5, <1>6, <1>7, <1>8, <1>9 DEF Next

LEMMA SentInit == Init => SentInv
<1> SUFFICES ASSUME Init PROVE SentInv
  OBVIOUS
<1>1. \A m \in Hosts : toRM[m] = <<>> /\ Len(toRM[m]) = 0
  BY DEF Init
<1>2. \A m \in Hosts, s \in Services : owned[m][s] = <<>>
  BY DEF Init
<1> QED BY <1>1, <1>2 DEF Init, SentInv, LastIsDown, OwnedAt, NothingSent

--------------------------------------------------------------------------------
\* Nothing leaks.  After message i of the queue of m comes the release of s, or
\* the end of m:
Follows(q, i, s) == \E j \in i + 1 .. Len(q) : q[j] = RRG(s) \/ q[j] = Down

\* What is taken for s, or asked for it, through m is given back some day: s is
\* still connected with what it owns, or the release comes after message i.
Held(s, m, i) == (svcAt[s] = m /\ owned[m][s] # <<>>) \/ Follows(toRM[m], i, s)
HeldEntries ==
  {e \in Entry : /\ e.OwnerServiceId \in Services /\ e.MirrorServiceId \in Hosts
                 /\ Held(e.OwnerServiceId, e.MirrorServiceId, 0)}

\* A message that makes TICKS take a range for s.
Needs(msg, s) ==
  \/ msg.type = "GRG" /\ msg.service = s
  \/ msg.type = "RARG" /\ \E k \in 1 .. Len(msg.ranges) : msg.ranges[k].service = s

NotFrom(m) == {e \in Entry : e.MirrorServiceId # m}

ListHeld == rmUp => TailIn(rangeList, HeldEntries)
AskedHeld ==
  \A m \in Hosts, s \in Services : \A i \in 1 .. Len(toRM[m]) :
    Needs(toRM[m][i], s) => Held(s, m, i)
\* A mirror service that TICKS does not know of has taken nothing.
Unknown(m) == m \notin rmReady \/ Contains(toMS[m], Down)
UnknownTakeNothing ==
  rmUp => \A m \in msUp : Unknown(m) => toRM[m] = <<>> /\ TailIn(rangeList, NotFrom(m))
UsedInv == ListHeld /\ AskedHeld /\ UnknownTakeNothing

LEMMA TailSubset ==
  ASSUME NEW list, NEW S, NEW T, TailIn(list, S), S \subseteq T
  PROVE  TailIn(list, T)
BY DEF TailIn

LEMMA TailBoth ==
  ASSUME NEW list, NEW S, NEW T, NEW U, TailIn(list, S), TailIn(list, T), S \cap T \subseteq U
  PROVE  TailIn(list, U)
BY DEF TailIn

LEMMA TailContent == \A list \in Lists : TailIn(list, ToSet(list))
<1> SUFFICES ASSUME NEW list \in Lists, NEW i \in 2 .. Len(list) PROVE list[i] \in ToSet(list)
  BY DEF TailIn
<1>1. Len(list) \in Nat /\ DOMAIN list = 1 .. Len(list)
  BY ListParts
<1> QED BY <1>1 DEF ToSet

LEMMA FollowsPopped ==
  ASSUME NEW q \in Seq(RMMessages), q # <<>>, NEW i \in Nat, NEW s
  PROVE  /\ Follows(q, i + 1, s) => Follows(Tail(q), i, s)
         /\ Follows(q, 0, s) /\ Head(q) # RRG(s) /\ Head(q) # Down => Follows(Tail(q), 0, s)
<1>1. /\ Len(q) \in Nat \ {0} /\ Len(Tail(q)) = Len(q) - 1 /\ Head(q) = q[1]
      /\ \A k \in 1 .. Len(q) - 1 : Tail(q)[k] = q[k + 1] /\ k + 1 \in 1 .. Len(q)
  BY Popped
<1>2. ASSUME NEW j \in 2 .. Len(q), q[j] = RRG(s) \/ q[j] = Down, NEW k \in Nat, k + 2 <= j
      PROVE  Follows(Tail(q), k, s)
  <2>1. j - 1 \in 1 .. Len(q) - 1 /\ (j - 1) + 1 = j /\ j - 1 \in k + 1 .. Len(Tail(q))
    BY <1>1, <1>2
  <2>2. Tail(q)[j - 1] = q[j]
    BY <1>1, <2>1
  <2> QED BY <1>2, <2>1, <2>2 DEF Follows
<1>3. ASSUME Follows(q, i + 1, s) PROVE Follows(Tail(q), i, s)
  <2>1. PICK j \in (i + 1) + 1 .. Len(q) : q[j] = RRG(s) \/ q[j] = Down
    BY <1>3 DEF Follows
  <2>2. j \in 2 .. Len(q) /\ i + 2 <= j
    BY <2>1
  <2> QED BY <1>2, <2>1, <2>2
<1>4. ASSUME Follows(q, 0, s), Head(q) # RRG(s), Head(q) # Down PROVE Follows(Tail(q), 0, s)
  <2>1. PICK j \in 0 + 1 .. Len(q) : q[j] = RRG(s) \/ q[j] = Down
    BY <1>4 DEF Follows
  <2>2. j # 1
    BY <1>1, <1>4, <2>1
  <2>3. j \in 2 .. Len(q) /\ 0 + 2 <= j /\ 0 \in Nat
    BY <2>1, <2>2
  <2> QED BY <1>2, <2>1, <2>3
<1> QED BY <1>3, <1>4

LEMMA FollowsAppended ==
  ASSUME NEW q \in Seq(RMMessages), NEW x \in RMMessages, NEW i \in Nat, NEW s
  PROVE  /\ Follows(q, i, s) => Follows(Append(q, x), i, s)
         /\ i <= Len(q) /\ x = RRG(s) => Follows(Append(q, x), i, s)
<1>1. /\ Len(q) \in Nat /\ Len(Append(q, x)) = Len(q) + 1 /\ Append(q, x)[Len(q) + 1] = x
      /\ \A k \in 1 .. Len(q) : Append(q, x)[k] = q[k]
  BY Appended
<1>2. ASSUME Follows(q, i, s) PROVE Follows(Append(q, x), i, s)
  <2>1. PICK j \in i + 1 .. Len(q) : q[j] = RRG(s) \/ q[j] = Down
    BY <1>2 DEF Follows
  <2>2. j \in 1 .. Len(q) /\ j \in i + 1 .. Len(Append(q, x))
    BY <1>1, <2>1
  <2> QED BY <1>1, <2>1, <2>2 DEF Follows
<1>3. ASSUME i <= Len(q), x = RRG(s) PROVE Follows(Append(q, x), i, s)
  <2>1. Len(q) + 1 \in i + 1 .. Len(Append(q, x))
    BY <1>1, <1>3
  <2> QED BY <1>1, <1>3, <2>1 DEF Follows
<1> QED BY <1>2, <1>3

LEMMA FollowsCut ==
  ASSUME NEW q \in Seq(RMMessages), NEW k \in 0 .. Len(q), NEW i \in 0 .. k, NEW s
  PROVE  Follows(Append(SubSeq(q, 1, k), Down), i, s)
<1> DEFINE c == Append(SubSeq(q, 1, k), Down)
<1>1. Down \in RMMessages
  BY DEF RMMessages
<1>2. Len(c) = k + 1 /\ c[k + 1] = Down
  BY <1>1, CutAppended
<1>3. k + 1 \in i + 1 .. Len(c)
  BY <1>2
<1> QED BY <1>2, <1>3 DEF Follows

LEMMA FollowsNothing == \A q, i, s : q = <<>> /\ i \in Nat => ~Follows(q, i, s)
BY EmptyQueue DEF Follows

\* Only requests and what is told need something.
LEMMA NeedsKinds ==
  /\ \A s : ~Needs(Down, s) /\ \A t : ~Needs(RRG(t), s)
  /\ \A s, t, n : Needs(GRG(t, n), s) => t = s
BY DEF Needs, Down, RRG, GRG

--------------------------------------------------------------------------------
\* TICKS reads a message of m.
LEMMA PoppedAsked ==
  ASSUME RangeInv, AskedHeld, NEW m \in Hosts, toRM[m] # <<>>,
         toRM' = [toRM EXCEPT ![m] = Tail(@)], UNCHANGED <<owned, svcAt>>
  PROVE  /\ AskedHeld'
         /\ \A s \in Services : Needs(Head(toRM[m]), s) => Held(s, m, 0)'
         /\ \A s \in Services, h \in Hosts :
              Held(s, h, 0) /\ (h = m => Head(toRM[m]) # RRG(s) /\ Head(toRM[m]) # Down)
                => Held(s, h, 0)'
<1> DEFINE q == toRM[m]
<1>1. /\ q \in Seq(RMMessages) /\ q # <<>> /\ toRM'[m] = Tail(q)
      /\ \A h \in Hosts : h # m => toRM'[h] = toRM[h]
  BY DEF RangeInv, QueuesInv
<1>2. /\ Len(q) \in Nat \ {0} /\ Len(Tail(q)) = Len(q) - 1 /\ Head(q) = q[1]
      /\ \A k \in 1 .. Len(q) - 1 : Tail(q)[k] = q[k + 1] /\ k + 1 \in 1 .. Len(q)
  BY <1>1, Popped
<1> HIDE DEF q
<1>3. ASSUME NEW s \in Services, NEW i \in Nat, Held(s, m, i + 1) PROVE Held(s, m, i)'
  BY <1>1, <1>3, FollowsPopped DEF Held, q
<1>4. ASSUME NEW h \in Hosts, NEW s \in Services, NEW i \in 1 .. Len(toRM'[h]),
             Needs(toRM'[h][i], s)
      PROVE  Held(s, h, i)'
  <2>1. CASE h = m
    <3>1. i \in 1 .. Len(q) - 1 /\ i \in Nat
      BY <1>1, <1>2, <2>1
    <3>2. Needs(toRM[m][i + 1], s) /\ i + 1 \in 1 .. Len(toRM[m])
      BY <1>1, <1>2, <1>4, <2>1, <3>1 DEF q
    <3>3. Held(s, m, i + 1)
      BY <3>2 DEF AskedHeld
    <3> QED BY <1>3, <2>1, <3>1, <3>3
  <2>2. CASE h # m
    <3>1. toRM'[h] = toRM[h]
      BY <1>1, <2>2
    <3>2. Held(s, h, i)
      BY <1>4, <3>1 DEF AskedHeld
    <3> QED BY <3>1, <3>2 DEF Held
  <2> QED BY <2>1, <2>2
<1>5. AskedHeld'
  BY <1>4 DEF AskedHeld
<1>6. ASSUME NEW s \in Services, Needs(Head(toRM[m]), s) PROVE Held(s, m, 0)'
  <2>1. 1 \in 1 .. Len(toRM[m]) /\ Needs(toRM[m][1], s)
    BY <1>2, <1>6 DEF q
  <2>2. Held(s, m, 0 + 1) /\ 0 \in Nat
    BY <2>1 DEF AskedHeld
  <2> QED BY <1>3, <2>2
<1>7. ASSUME NEW s \in Services, NEW h \in Hosts, Held(s, h, 0),
             h = m => Head(toRM[m]) # RRG(s) /\ Head(toRM[m]) # Down
      PROVE  Held(s, h, 0)'
  <2>1. CASE h = m
    <3>1. Follows(toRM[m], 0, s) => Follows(toRM'[m], 0, s)
      BY <1>1, <1>7, <2>1, FollowsPopped DEF q
    <3> QED BY <1>7, <2>1, <3>1 DEF Held
  <2>2. CASE h # m
    BY <1>1, <1>7, <2>2 DEF Held
  <2> QED BY <2>1, <2>2
<1> QED BY <1>5, <1>6, <1>7

\* A mirror service whose message is read is known, and stays so.
LEMMA PoppedUnknown ==
  ASSUME RangeInv, UsedInv, rmUp, NEW m \in Hosts, toRM[m] # <<>>,
         toRM' = [toRM EXCEPT ![m] = Tail(@)], UNCHANGED <<rmUp, msUp, rmReady>>,
         \A h \in Hosts : Contains(toMS'[h], Down) => Contains(toMS[h], Down),
         \A h \in Hosts \ {m} : TailIn(rangeList, NotFrom(h)) => TailIn(rangeList', NotFrom(h))
  PROVE  UnknownTakeNothing'
<1> SUFFICES ASSUME NEW h \in msUp, Unknown(h)'
             PROVE  toRM'[h] = <<>> /\ TailIn(rangeList', NotFrom(h))
  BY DEF UnknownTakeNothing, NotFrom, Entry
<1>1. h \in Hosts /\ toRM \in [Hosts -> Seq(RMMessages)]
  BY DEF RangeInv, ServicesInv, QueuesInv
<1>2. Unknown(h)
  BY <1>1 DEF Unknown
<1>3. toRM[h] = <<>> /\ TailIn(rangeList, NotFrom(h))
  BY <1>2 DEF UsedInv, UnknownTakeNothing
<1>4. h # m
  BY <1>3
<1> QED BY <1>1, <1>3, <1>4

\* The ranges of a service of a mirror service, in TICKS's list, need its release.
LEMMA OfHeld ==
  ASSUME NEW s \in Services, NEW m \in Hosts, Held(s, m, 0)'
  PROVE  Of(s, m) \subseteq HeldEntries'
BY DEF Of, HeldEntries

LEMMA HeldStay ==
  ASSUME \A s \in Services, m \in Hosts : Held(s, m, 0) => Held(s, m, 0)'
  PROVE  HeldEntries \subseteq HeldEntries'
BY DEF HeldEntries

LEMMA GetRangeUsed ==
  ASSUME RangeInv, UsedInv, NEW m \in Hosts, GetRange(m) PROVE UsedInv'
<1> DEFINE msg == Head(toRM[m])
           acquired == AcquireRange(rangeList, msg.service, m, msg.nbRows)
<1>1. /\ msg \in RMMessages /\ msg.type = "GRG" /\ toRM[m] # <<>> /\ rmUp
      /\ toRM' = [toRM EXCEPT ![m] = Tail(@)] /\ UNCHANGED <<owned, svcAt, rmUp, msUp, rmReady>>
  BY RMReads DEF GetRange, RMHas, msState, svcState
<1>2. msg.service \in Services /\ msg.nbRows \in Nat \ {0} /\ Needs(msg, msg.service)
  BY <1>1, RMMessageFields DEF Needs
<1>3. msg # Down /\ \A s : msg # RRG(s)
  BY <1>1 DEF Down, RRG
<1> HIDE DEF msg
<1>0. PICK owner \in Services : owner = msg.service
  BY <1>2
<1>4. /\ AskedHeld' /\ Held(owner, m, 0)'
      /\ \A s \in Services, h \in Hosts : Held(s, h, 0) => Held(s, h, 0)'
  <2>1. /\ AskedHeld'
        /\ \A s \in Services : Needs(msg, s) => Held(s, m, 0)'
        /\ \A s \in Services, h \in Hosts :
             Held(s, h, 0) /\ (h = m => msg # RRG(s) /\ msg # Down) => Held(s, h, 0)'
    BY <1>1, PoppedAsked DEF UsedInv, msg
  <2>2. Needs(msg, owner)
    BY <1>0, <1>2
  <2> QED BY <1>3, <2>1, <2>2
<1>5. rangeList' = acquired.list
  BY DEF GetRange, msg
<1>6. \A S : TailIn(rangeList, S) /\ Of(owner, m) \subseteq S => TailIn(rangeList', S)
  <2>1. rangeList \in Lists
    BY DEF RangeInv, ListInv
  <2> QED BY <1>0, <1>2, <1>5, <2>1, AcquireContent
<1>7. ListHeld'
  <2>1. TailIn(rangeList, HeldEntries)
    BY <1>1 DEF UsedInv, ListHeld
  <2>2. HeldEntries \subseteq HeldEntries' /\ Of(owner, m) \subseteq HeldEntries'
    BY <1>4, OfHeld, HeldStay
  <2>3. TailIn(rangeList, HeldEntries')
    BY <2>1, <2>2, TailSubset
  <2>4. TailIn(rangeList', HeldEntries')
    BY <1>6, <2>2, <2>3
  <2> QED BY <2>4 DEF ListHeld
<1>8. \A h \in Hosts : Contains(toMS'[h], Down) => Contains(toMS[h], Down)
  <2> SUFFICES ASSUME NEW h \in Hosts, Contains(toMS'[h], Down) PROVE Contains(toMS[h], Down)
    OBVIOUS
  <2> DEFINE answer == RG(msg.service, acquired.range)
  <2>1. toMS'[h] = toMS[h] \/ toMS'[h] = Append(toMS[h], answer)
    <3>1. toMS' = IF m \in msUp THEN [toMS EXCEPT ![m] = Append(@, answer)] ELSE toMS
      BY DEF GetRange, msg
    <3> HIDE DEF answer
    <3> QED BY <3>1 DEF RangeInv, QueuesInv
  <2>2. CASE toMS'[h] = Append(toMS[h], answer)
    <3>1. answer # Down /\ answer \in MSMessages
      <4>1. acquired.range \in GivenRange
        BY <1>2, AcquireApart DEF RangeInv, ListInv
      <4> HIDE DEF acquired
      <4>2. answer # Down
        BY DEF RG, Down
      <4> QED BY <1>2, <4>1, <4>2 DEF MSMessages
    <3> HIDE DEF answer
    <3>2. toMS[h] \in Seq(MSMessages)
      BY DEF RangeInv, QueuesInv
    <3>3. PICK i \in 1 .. Len(Append(toMS[h], answer)) : Append(toMS[h], answer)[i] = Down
      BY <2>2 DEF Contains
    <3>4. i \in 1 .. Len(toMS[h]) /\ toMS[h][i] = Down
      BY <3>1, <3>2, <3>3, Appended
    <3> QED BY <3>4 DEF Contains
  <2> QED BY <2>1, <2>2
<1>9. \A h \in Hosts \ {m} : TailIn(rangeList, NotFrom(h)) => TailIn(rangeList', NotFrom(h))
  <2>1. \A h \in Hosts \ {m} : Of(owner, m) \subseteq NotFrom(h)
    BY DEF Of, NotFrom
  <2> QED BY <1>6, <2>1
<1> QED BY <1>1, <1>4, <1>7, <1>8, <1>9, PoppedUnknown DEF UsedInv

LEMMA ReleaseRangesUsed ==
  ASSUME RangeInv, UsedInv, NEW m \in Hosts, ReleaseRanges(m) PROVE UsedInv'
<1> DEFINE msg == Head(toRM[m])
           released == {r \in ToSet(rangeList) : r.OwnerServiceId = msg.service}
<1>1. /\ msg \in RMMessages /\ msg.type = "RRG" /\ toRM[m] # <<>> /\ rmUp
      /\ toRM' = [toRM EXCEPT ![m] = Tail(@)]
      /\ UNCHANGED <<owned, svcAt, rmUp, msUp, rmReady, toMS>>
  BY RMReads DEF ReleaseRanges, RMHas, msState, svcState
<1>2. msg.service \in Services /\ msg # Down /\ \A s : msg = RRG(s) => s = msg.service
  BY <1>1, RMMessageFields, RMMessageKinds
<1>3. rangeList \in Lists /\ rangeList[1] \notin released
  BY <1>2, NobodyAssumption DEF RangeInv, ListInv, Lists, Apart
<1>4. /\ AskedHeld'
      /\ \A s \in Services \ {msg.service}, h \in Hosts : Held(s, h, 0) => Held(s, h, 0)'
  <2> HIDE DEF msg
  <2> QED BY <1>1, <1>2, PoppedAsked DEF UsedInv, msg
<1> HIDE DEF released
<1>5. \A S : TailIn(rangeList, S) => TailIn(rangeList', S \ released)
  BY <1>3, WithoutContent DEF ReleaseRanges, ReleaseRangesOfOwner, released
<1>6. ListHeld'
  <2>1. TailIn(rangeList, HeldEntries)
    BY <1>1 DEF UsedInv, ListHeld
  <2>2. TailIn(rangeList, HeldEntries \cap ToSet(rangeList))
    BY <1>3, <2>1, TailContent, TailBoth
  <2>3. TailIn(rangeList', (HeldEntries \cap ToSet(rangeList)) \ released)
    BY <1>5, <2>2
  <2>4. (HeldEntries \cap ToSet(rangeList)) \ released \subseteq HeldEntries'
    <3> SUFFICES ASSUME NEW e \in HeldEntries, e \in ToSet(rangeList), e \notin released
                 PROVE  e \in HeldEntries'
      OBVIOUS
    <3>1. e.OwnerServiceId # msg.service
      BY DEF released
    <3> QED BY <1>4, <3>1 DEF HeldEntries
  <2> QED BY <2>3, <2>4, TailSubset DEF ListHeld
<1>7. \A h \in Hosts \ {m} : TailIn(rangeList, NotFrom(h)) => TailIn(rangeList', NotFrom(h))
  BY <1>5, TailSubset
<1> QED BY <1>1, <1>4, <1>6, <1>7, PoppedUnknown DEF UsedInv

LEMMA ReacquireRangesUsed ==
  ASSUME RangeInv, UsedInv, NEW m \in Hosts, ReacquireRanges(m) PROVE UsedInv'
<1> DEFINE msg == Head(toRM[m])
           told == msg.ranges
<1>1. /\ msg \in RMMessages /\ msg.type = "RARG" /\ toRM[m] # <<>> /\ rmUp
      /\ toRM' = [toRM EXCEPT ![m] = Tail(@)]
      /\ UNCHANGED <<owned, svcAt, rmUp, msUp, rmReady, toMS>>
  BY RMReads DEF ReacquireRanges, RMHas, msState, svcState
<1>2. told \in Seq(Told) /\ msg # Down /\ \A s : msg # RRG(s)
  BY <1>1, RMMessageFields DEF Down, RRG
<1>3. \A i \in 1 .. Len(told) : told[i].service \in Services /\ Needs(msg, told[i].service)
  <2>1. \A i \in 1 .. Len(told) : told[i] \in Told
    BY <1>2
  <2> QED BY <1>1, <2>1 DEF Needs, Told
<1>4. /\ AskedHeld' 
      /\ \A s \in Services : Needs(msg, s) => Held(s, m, 0)'
      /\ \A s \in Services, h \in Hosts : Held(s, h, 0) => Held(s, h, 0)'
  <2>1. /\ AskedHeld'
        /\ \A s \in Services : Needs(msg, s) => Held(s, m, 0)'
        /\ \A s \in Services, h \in Hosts :
             Held(s, h, 0) /\ (h = m => msg # RRG(s) /\ msg # Down) => Held(s, h, 0)'
    <3> HIDE DEF told
    <3> QED BY <1>1, PoppedAsked DEF UsedInv
  <2> HIDE DEF msg
  <2> QED BY <1>2, <2>1
<1>5. \A S : TailIn(rangeList, S) /\ (\A i \in 1 .. Len(told) : Of(told[i].service, m) \subseteq S)
               => TailIn(rangeList', S)
  <2> HIDE DEF told
  <2>1. PICK online : rangeList' = Reacquired(rangeList, told, online, m)
    BY DEF ReacquireRanges, told
  <2>2. rangeList \in Lists
    BY DEF RangeInv, ListInv
  <2> QED BY <1>2, <2>1, <2>2, ReacquiredContent
<1> HIDE DEF msg, told
<1>6. ListHeld'
  <2>1. TailIn(rangeList, HeldEntries)
    BY <1>1 DEF UsedInv, ListHeld
  <2>2. HeldEntries \subseteq HeldEntries'
    BY <1>4, HeldStay
  <2>3. \A i \in 1 .. Len(told) : Of(told[i].service, m) \subseteq HeldEntries'
    <3>1. \A s \in Services : Needs(msg, s) => Of(s, m) \subseteq HeldEntries'
      BY <1>4, OfHeld
    <3> QED BY <1>3, <3>1
  <2>4. TailIn(rangeList, HeldEntries')
    BY <2>1, <2>2, TailSubset
  <2>5. TailIn(rangeList', HeldEntries')
    BY <1>5, <2>3, <2>4
  <2> QED BY <2>5 DEF ListHeld
<1>7. \A h \in Hosts \ {m} : TailIn(rangeList, NotFrom(h)) => TailIn(rangeList', NotFrom(h))
  <2>1. \A h \in Hosts \ {m} : \A s : Of(s, m) \subseteq NotFrom(h)
    BY DEF Of, NotFrom
  <2> QED BY <1>5, <2>1
<1> QED BY <1>1, <1>4, <1>6, <1>7, PoppedUnknown DEF UsedInv

\* A list of one range has no others.
LEMMA FirstRowContent == \A S : TailIn(AcquireFirstRow, S)
BY FirstRowApart DEF TailIn

LEMMA CbMSDownUsed ==
  ASSUME RangeInv, SentInv, UsedInv, NEW m \in Hosts, CbMSDown(m) PROVE UsedInv'
<1> DEFINE q == toRM[m]
           released == {r \in ToSet(rangeList) : r.MirrorServiceId = m}
<1>1. /\ Head(q) \in RMMessages /\ Head(q).type = "DOWN" /\ q # <<>> /\ rmUp
      /\ toRM' = [toRM EXCEPT ![m] = Tail(@)]
      /\ UNCHANGED <<owned, svcAt, rmUp, msUp, rmReady, toMS>>
  BY RMReads DEF CbMSDown, RMHas, msState, svcState
<1>2. m \notin msUp
  <2>1. q \in Seq(RMMessages) /\ Head(q) = Down
    BY <1>1, RMMessageKinds DEF RangeInv, QueuesInv
  <2>2. 1 \in 1 .. Len(q) /\ q[1] = Down
    BY <1>1, <2>1, Popped
  <2> QED BY <2>2 DEF SentInv, LastIsDown
<1>3. rangeList \in Lists /\ rangeList[1] \notin released
  BY NobodyAssumption DEF RangeInv, ListInv, Lists, Apart
<1>4. AskedHeld'
  <2> HIDE DEF q
  <2> QED BY <1>1, PoppedAsked DEF UsedInv, q
<1>5. ASSUME NEW S, TailIn(rangeList, S)
      PROVE  TailIn(rangeList', {e \in S : e.MirrorServiceId # m})
  <2>1. CASE msUp = {}
    BY <2>1, FirstRowContent DEF CbMSDown
  <2>2. CASE msUp # {}
    <3>1. TailIn(rangeList, S \cap ToSet(rangeList))
      BY <1>3, <1>5, TailContent, TailBoth
    <3>2. rangeList' = Without(rangeList, released)
      BY <2>2 DEF CbMSDown, ReleaseRangesOfMS
    <3>3. TailIn(rangeList', (S \cap ToSet(rangeList)) \ released)
      <4> HIDE DEF released
      <4> QED BY <1>3, <3>1, <3>2, WithoutContent
    <3>4. (S \cap ToSet(rangeList)) \ released \subseteq {e \in S : e.MirrorServiceId # m}
      OBVIOUS
    <3> HIDE DEF released
    <3> QED BY <3>3, <3>4, TailSubset
  <2> QED BY <2>1, <2>2
<1>6. ListHeld'
  <2>1. TailIn(rangeList, HeldEntries)
    BY <1>1 DEF UsedInv, ListHeld
  <2>2. TailIn(rangeList', {e \in HeldEntries : e.MirrorServiceId # m})
    BY <1>5, <2>1
  <2>3. {e \in HeldEntries : e.MirrorServiceId # m} \subseteq HeldEntries'
    <3>1. \A h \in Hosts \ {m} : toRM'[h] = toRM[h]
      BY <1>1 DEF RangeInv, QueuesInv
    <3>2. \A s \in Services, h \in Hosts \ {m} : Held(s, h, 0) => Held(s, h, 0)'
      BY <1>1, <3>1 DEF Held
    <3> QED BY <3>2 DEF HeldEntries
  <2> QED BY <2>2, <2>3, TailSubset DEF ListHeld
<1>7. \A h \in Hosts \ {m} : TailIn(rangeList, NotFrom(h)) => TailIn(rangeList', NotFrom(h))
  <2> SUFFICES ASSUME NEW h \in Hosts \ {m}, TailIn(rangeList, NotFrom(h))
               PROVE  TailIn(rangeList', NotFrom(h))
    OBVIOUS
  <2>1. TailIn(rangeList', {e \in NotFrom(h) : e.MirrorServiceId # m})
    BY <1>5
  <2>2. {e \in NotFrom(h) : e.MirrorServiceId # m} \subseteq NotFrom(h)
    OBVIOUS
  <2> QED BY <2>1, <2>2, TailSubset
<1> HIDE DEF q
<1> QED BY <1>1, <1>4, <1>6, <1>7, PoppedUnknown DEF UsedInv, q

\* s stays connected to m with what it owns.
Using(s, m) == svcAt[s] = m /\ owned[m][s] # <<>>

\* Steps that leave the list and what is sent to TICKS as they are.
LEMMA SameQueuesUsed ==
  ASSUME RangeInv, UsedInv, UNCHANGED <<rmUp, rangeList, toRM>>,
         \A s \in Services, m \in Hosts : Using(s, m) => Using(s, m)',
         \A m \in msUp' : m \in msUp /\ (Unknown(m)' => Unknown(m))
  PROVE  UsedInv'
<1>1. ASSUME NEW s \in Services, NEW m \in Hosts, NEW i, Held(s, m, i) PROVE Held(s, m, i)'
  BY <1>1 DEF Held, Using
<1>2. ListHeld'
  <2> SUFFICES ASSUME rmUp PROVE TailIn(rangeList, HeldEntries')
    BY DEF ListHeld
  <2>1. HeldEntries \subseteq HeldEntries'
    BY <1>1, HeldStay
  <2> QED BY <2>1, TailSubset DEF UsedInv, ListHeld
<1>3. AskedHeld'
  BY <1>1 DEF UsedInv, AskedHeld
<1>4. UnknownTakeNothing'
  BY DEF UsedInv, UnknownTakeNothing, NotFrom, Entry
<1> QED BY <1>2, <1>3, <1>4 DEF UsedInv

\* Steps in which a mirror service that is known sends a message: those that it
\* needs a release for use what it is about.
LEMMA AppendedUsed ==
  ASSUME RangeInv, UsedInv, rmUp, NEW m \in Hosts, NEW msg \in RMMessages,
         toRM' = [toRM EXCEPT ![m] = Append(@, msg)], ~Unknown(m)',
         UNCHANGED <<rmUp, rangeList, msUp>>,
         \A h \in Hosts : Unknown(h)' => Unknown(h),
         \A s \in Services, h \in Hosts :
           Using(s, h) => Using(s, h)' \/ (h = m /\ msg = RRG(s)),
         \A s \in Services : Needs(msg, s) => Using(s, m)'
  PROVE  UsedInv'
<1>1. toRM \in [Hosts -> Seq(RMMessages)] /\ msUp \subseteq Hosts
  BY DEF RangeInv, QueuesInv, ServicesInv
<1> DEFINE q == toRM[m]
<1>2. /\ q \in Seq(RMMessages) /\ toRM'[m] = Append(q, msg)
      /\ \A h \in Hosts : h # m => toRM'[h] = toRM[h]
  BY <1>1
<1>3. /\ Len(q) \in Nat /\ Len(Append(q, msg)) = Len(q) + 1 /\ Append(q, msg)[Len(q) + 1] = msg
      /\ \A i \in 1 .. Len(q) : Append(q, msg)[i] = q[i]
      /\ \A i \in 1 .. Len(q) + 1 : i \in 1 .. Len(q) \/ i = Len(q) + 1
  BY <1>2, Appended
<1>4. ASSUME NEW s \in Services, NEW h \in Hosts, NEW i \in Nat, Held(s, h, i),
             h = m => i <= Len(q)
      PROVE  Held(s, h, i)'
  <2>1. CASE h = m /\ msg = RRG(s)
    <3>1. Follows(Append(q, msg), i, s)
      BY <1>2, <1>4, <2>1, FollowsAppended
    <3> QED BY <1>2, <2>1, <3>1 DEF Held
  <2>2. CASE ~(h = m /\ msg = RRG(s))
    <3>1. Using(s, h) => Using(s, h)'
      BY <2>2
    <3>2. Follows(toRM[h], i, s) => Follows(toRM'[h], i, s)
      <4>1. CASE h = m
        BY <1>2, <4>1, FollowsAppended
      <4>2. CASE h # m
        BY <1>2, <4>2
      <4> QED BY <4>1, <4>2
    <3> QED BY <1>4, <3>1, <3>2 DEF Held, Using
  <2> QED BY <2>1, <2>2
<1> HIDE DEF q
<1>5. ListHeld'
  <2>1. TailIn(rangeList, HeldEntries)
    BY DEF UsedInv, ListHeld
  <2>2. \A s \in Services, h \in Hosts : Held(s, h, 0) => Held(s, h, 0)'
    BY <1>3, <1>4
  <2>3. HeldEntries \subseteq HeldEntries'
    BY <2>2, HeldStay
  <2> QED BY <2>1, <2>3, TailSubset DEF ListHeld
<1>6. AskedHeld'
  <2> SUFFICES ASSUME NEW h \in Hosts, NEW s \in Services, NEW i \in 1 .. Len(toRM'[h]),
                      Needs(toRM'[h][i], s)
               PROVE  Held(s, h, i)'
    BY DEF AskedHeld
  <2>1. CASE h = m
    <3>1. i \in 1 .. Len(q) \/ i = Len(q) + 1
      BY <1>2, <1>3, <2>1
    <3>2. CASE i \in 1 .. Len(q)
      <4>1. Needs(toRM[m][i], s) /\ i \in 1 .. Len(toRM[m]) /\ i <= Len(q) /\ i \in Nat
        BY <1>2, <1>3, <2>1, <3>2 DEF q
      <4>2. Held(s, m, i)
        BY <4>1 DEF UsedInv, AskedHeld
      <4> QED BY <1>4, <2>1, <4>1, <4>2
    <3>3. CASE i = Len(q) + 1
      <4>1. Using(s, m)'
        BY <1>2, <1>3, <2>1, <3>3
      <4> QED BY <2>1, <4>1 DEF Held, Using
    <3> QED BY <3>1, <3>2, <3>3
  <2>2. CASE h # m
    <3>1. toRM'[h] = toRM[h]
      BY <1>2, <2>2
    <3>2. Held(s, h, i)
      BY <3>1 DEF UsedInv, AskedHeld
    <3>3. i \in Nat
      OBVIOUS
    <3> QED BY <1>4, <2>2, <3>2, <3>3
  <2> QED BY <2>1, <2>2
<1>7. UnknownTakeNothing'
  <2> SUFFICES ASSUME NEW h \in msUp, Unknown(h)'
               PROVE  toRM'[h] = <<>> /\ TailIn(rangeList, NotFrom(h))
    BY DEF UnknownTakeNothing, NotFrom, Entry
  <2>1. h \in Hosts /\ h # m /\ Unknown(h)
    BY <1>1
  <2> QED BY <1>2, <2>1 DEF UsedInv, UnknownTakeNothing
<1> QED BY <1>5, <1>6, <1>7 DEF UsedInv

LEMMA ContainsPopped ==
  ASSUME NEW q \in Seq(MSMessages), q # <<>>, Contains(Tail(q), Down)
  PROVE  Contains(q, Down)
<1>1. PICK i \in 1 .. Len(Tail(q)) : Tail(q)[i] = Down
  BY DEF Contains
<1>2. q[i + 1] = Down /\ i + 1 \in 1 .. Len(q)
  BY <1>1, Popped
<1> QED BY <1>2 DEF Contains

LEMMA SetRangeManagerReadyUsed ==
  ASSUME RangeInv, SentInv, UsedInv, RangeInv', NEW m \in Hosts, SetRangeManagerReady(m)
  PROVE  UsedInv'
<1> DEFINE told(s) == [i \in DOMAIN owned[m][s] |-> [service |-> s, range |-> owned[m][s][i]]]
           Owning == {t \in Told : owned[m][t.service] # <<>>}
<1>1. PICK order \in SetToSeqs(Services) :
        LET ranges == FlattenSeq([i \in DOMAIN order |-> told(order[i])])
        IN toRM' = IF ranges = <<>> THEN toRM
                   ELSE [toRM EXCEPT ![m] = Append(@, RARG(ranges))]
  BY DEF SetRangeManagerReady
<1>2. ASSUME NEW s \in Services PROVE told(s) \in Seq(Owning)
  <2>1. owned[m][s] \in Seq(GivenRange)
    BY DEF RangeInv, OwnedInv
  <2>2. /\ DOMAIN owned[m][s] = 1 .. Len(owned[m][s]) /\ Len(owned[m][s]) \in Nat
        /\ \A i \in 1 .. Len(owned[m][s]) : owned[m][s][i] \in GivenRange
    BY <2>1
  <2>3. ASSUME NEW i \in 1 .. Len(owned[m][s]) PROVE owned[m][s] # <<>>
    <3>1. Len(owned[m][s]) # 0
      BY <2>2
    <3> QED BY <3>1, EmptyQueue
  <2>4. told(s) \in [1 .. Len(owned[m][s]) -> Owning]
    BY <2>2, <2>3 DEF Told
  <2> QED BY <2>2, <2>4, SeqDef
<1> DEFINE n == Cardinality(Services)
           parts == [i \in DOMAIN order |-> told(order[i])]
<1>3. n \in Nat
  BY ServicesAssumption, FS_CardinalityType
<1>4. order \in [1 .. n -> Services] /\ DOMAIN order = 1 .. n
  BY DEF SetToSeqs
<1>5. parts \in Seq(Seq(Owning))
  <2> HIDE DEF n, told, Owning
  <2>1. parts \in [1 .. n -> Seq(Owning)]
    BY <1>2, <1>4
  <2> QED BY <1>3, <2>1, SeqDef
<1> DEFINE ranges == FlattenSeq(parts)
<1>6. ranges \in Seq(Owning)
  <2> HIDE DEF parts, Owning
  <2> QED BY <1>5, FlattenType
<1>7. toRM' = IF ranges = <<>> THEN toRM ELSE [toRM EXCEPT ![m] = Append(@, RARG(ranges))]
  BY <1>1
<1> HIDE DEF ranges
<1>8. /\ rmUp /\ m \in msUp /\ toMS[m] = <<>> /\ rmReady' = rmReady \cup {m}
      /\ UNCHANGED <<rmUp, rangeList, msUp, owned, svcAt, toMS>>
  BY DEF SetRangeManagerReady, rmState, svcState
<1>9. \A h \in Hosts : Unknown(h)' => Unknown(h)
  BY <1>8 DEF Unknown
<1>10. \A s \in Services, h \in Hosts : Using(s, h) => Using(s, h)'
  BY <1>8 DEF Using
<1>11. CASE ranges = <<>>
  <2>1. \A h \in msUp' : h \in msUp /\ (Unknown(h)' => Unknown(h))
    BY <1>8, <1>9 DEF RangeInv, ServicesInv
  <2> QED BY <1>7, <1>8, <1>10, <1>11, <2>1, SameQueuesUsed
<1>12. CASE ranges # <<>>
  <2> DEFINE msg == RARG(ranges)
  <2>1. msg \in RMMessages
    <3>1. Owning \subseteq Told
      OBVIOUS
    <3>2. ranges \in Seq(Told)
      <4> HIDE DEF Owning
      <4> QED BY <1>6, <3>1
    <3> QED BY <3>2 DEF RMMessages
  <2>2. ~Unknown(m)'
    <3>1. Len(toMS[m]) = 0
      BY <1>8, EmptyQueue
    <3> QED BY <1>8, <3>1 DEF Unknown, Contains
  <2>3. ASSUME NEW s \in Services, Needs(msg, s) PROVE Using(s, m)'
    <3>1. PICK k \in 1 .. Len(ranges) : ranges[k].service = s
      BY <2>3 DEF Needs, RARG
    <3>2. ranges[k] \in Owning
      <4> HIDE DEF Owning
      <4> QED BY <1>6
    <3>3. owned[m][s] # <<>>
      BY <3>1, <3>2
    <3>4. svcAt[s] = m
      BY <3>3 DEF SentInv, OwnedAt
    <3> QED BY <1>8, <3>3, <3>4 DEF Using
  <2> HIDE DEF msg
  <2>4. toRM' = [toRM EXCEPT ![m] = Append(@, msg)]
    BY <1>7, <1>12 DEF msg
  <2> QED BY <1>8, <1>9, <1>10, <2>1, <2>2, <2>3, <2>4, AppendedUsed
<1> QED BY <1>11, <1>12

LEMMA SetRangeManagerDownUsed ==
  ASSUME RangeInv, UsedInv, NEW m \in Hosts, SetRangeManagerDown(m) PROVE UsedInv'
<1>1. /\ toMS[m] # <<>> /\ toMS' = [toMS EXCEPT ![m] = Tail(@)] /\ rmReady' = rmReady \ {m}
      /\ UNCHANGED <<rmUp, rangeList, msUp, owned, svcAt, toRM>>
  BY DEF SetRangeManagerDown, MSHas, rmState, svcState
<1>2. toMS \in [Hosts -> Seq(MSMessages)] /\ msUp \subseteq Hosts
  BY DEF RangeInv, QueuesInv, ServicesInv
<1>3. Unknown(m)
  <2>1. Head(toMS[m]) \in MSMessages /\ Head(toMS[m]).type = "DOWN"
    BY MSReads DEF SetRangeManagerDown
  <2>2. Head(toMS[m]) = Down
    BY <2>1 DEF MSMessages, RG, Down
  <2>3. 1 \in 1 .. Len(toMS[m]) /\ toMS[m][1] = Down
    BY <1>1, <1>2, <2>2, Popped
  <2> QED BY <2>3 DEF Unknown, Contains
<1>4. \A h \in msUp' : h \in msUp /\ (Unknown(h)' => Unknown(h))
  BY <1>1, <1>2, <1>3 DEF Unknown
<1>5. \A s \in Services, h \in Hosts : Using(s, h) => Using(s, h)'
  BY <1>1 DEF Using
<1> QED BY <1>1, <1>4, <1>5, SameQueuesUsed

LEMMA GiveRangeUsed ==
  ASSUME RangeInv, SentInv, UsedInv, NEW m \in Hosts, GiveRange(m) PROVE UsedInv'
<1>1. /\ toMS[m] # <<>> /\ toMS' = [toMS EXCEPT ![m] = Tail(@)]
      /\ UNCHANGED <<rmUp, rangeList, msUp, rmReady, svcAt, toRM>>
  BY DEF GiveRange, MSHas, rmState, svcState
<1>2. toMS \in [Hosts -> Seq(MSMessages)] /\ msUp \subseteq Hosts
  BY DEF RangeInv, QueuesInv, ServicesInv
<1>3. ASSUME NEW h \in msUp, Unknown(h)' PROVE Unknown(h)
  <2>1. CASE h = m
    BY <1>1, <1>2, <1>3, <2>1, ContainsPopped DEF Unknown
  <2>2. CASE h # m
    BY <1>1, <1>2, <1>3, <2>2 DEF Unknown
  <2> QED BY <2>1, <2>2
<1>4. \A s \in Services, h \in Hosts : Using(s, h) => Using(s, h)'
  BY <1>1, GiveRangeSent DEF Using
<1> QED BY <1>1, <1>3, <1>4, SameQueuesUsed

LEMMA DeclareEntityTypeOwnerUsed ==
  ASSUME RangeInv, SentInv, UsedInv, NEW m \in Hosts, NEW s \in Services,
         DeclareEntityTypeOwner(m, s)
  PROVE  UsedInv'
<1>1. PICK n \in Sizes : toRM' = Sent(m, GRG(s, n))
  BY DEF DeclareEntityTypeOwner
<1>2. /\ m \in msUp /\ svcAt[s] = m /\ owned' = [owned EXCEPT ![m][s] = Append(@, Blank)]
      /\ UNCHANGED <<rmUp, rangeList, msUp, rmReady, svcAt, toMS>>
  BY DEF DeclareEntityTypeOwner, rmState, svcState
<1>3. \A h \in Hosts : Unknown(h)' => Unknown(h)
  BY <1>2 DEF Unknown
<1>4. owned'[m][s] # <<>>
  <2>1. owned[m][s] \in Seq(GivenRange) /\ owned'[m][s] = Append(owned[m][s], Blank)
    BY <1>2 DEF RangeInv, OwnedInv
  <2> QED BY <2>1
<1>5. \A t \in Services, h \in Hosts : Using(t, h) => Using(t, h)'
  BY <1>2, <1>4 DEF Using, RangeInv, OwnedInv
<1> DEFINE msg == GRG(s, n)
<1>6. msg \in RMMessages
  BY SizesAssumption DEF RMMessages
<1>7. \A t \in Services : Needs(msg, t) => Using(t, m)'
  BY <1>2, <1>4, NeedsKinds DEF Using
<1> HIDE DEF msg
<1>8. CASE toRM' = toRM
  <2>1. \A h \in msUp' : h \in msUp /\ (Unknown(h)' => Unknown(h))
    BY <1>2, <1>3 DEF RangeInv, ServicesInv
  <2> QED BY <1>2, <1>5, <1>8, <2>1, SameQueuesUsed
<1>9. CASE /\ rmUp /\ m \in rmReady /\ ~Contains(toMS[m], Down)
           /\ toRM' = [toRM EXCEPT ![m] = Append(@, msg)]
  <2>1. ~Unknown(m)'
    BY <1>2, <1>9 DEF Unknown
  <2> QED BY <1>2, <1>3, <1>5, <1>6, <1>7, <1>9, <2>1, AppendedUsed
<1> QED BY <1>1, <1>8, <1>9, SentCases DEF msg

\* The release of a service frees what it owns; one that has asked for nothing, or
\* asked through a mirror service TICKS does not know of, holds nothing.
LEMMA ReleaseRangesOfServiceUsed ==
  ASSUME RangeInv, SentInv, UsedInv, NEW m \in Hosts, NEW s \in Services,
         ReleaseRangesOfService(m, s)
  PROVE  UsedInv'
<1>1. /\ m \in msUp /\ svcAt[s] = m /\ toRM' = IF owned[m][s] = <<>> THEN toRM ELSE Sent(m, RRG(s))
      /\ owned' = [owned EXCEPT ![m][s] = <<>>] /\ svcAt' = [svcAt EXCEPT ![s] = Nobody]
      /\ UNCHANGED <<rmUp, rangeList, msUp, rmReady, toMS>>
  BY DEF ReleaseRangesOfService, rmState
<1>2. /\ owned \in [Hosts -> [Services -> Seq(GivenRange)]] /\ msUp \subseteq Hosts
      /\ svcAt \in [Services -> msUp \cup {Nobody}]
  BY DEF RangeInv, OwnedInv, ServicesInv
<1>3. \A h \in Hosts : Unknown(h)' => Unknown(h)
  BY <1>1 DEF Unknown
<1>4. \A t \in Services, h \in Hosts : Using(t, h) => Using(t, h)' \/ (h = m /\ t = s)
  BY <1>1, <1>2 DEF Using
<1> DEFINE msg == RRG(s)
<1>5. msg \in RMMessages /\ (\A t \in Services : ~Needs(msg, t)) /\ msg = RRG(s)
  BY NeedsKinds DEF RMMessages
<1> HIDE DEF msg
<1>6. CASE owned[m][s] = <<>>
  <2>1. toRM' = toRM
    BY <1>1, <1>6
  <2>2. \A t \in Services, h \in Hosts : Using(t, h) => Using(t, h)'
    BY <1>4, <1>6 DEF Using
  <2>3. \A h \in msUp' : h \in msUp /\ (Unknown(h)' => Unknown(h))
    BY <1>1, <1>2, <1>3
  <2> QED BY <1>1, <2>1, <2>2, <2>3, SameQueuesUsed
<1>7. CASE /\ rmUp /\ m \in rmReady /\ ~Contains(toMS[m], Down)
           /\ toRM' = [toRM EXCEPT ![m] = Append(@, msg)]
  <2>1. ~Unknown(m)'
    BY <1>1, <1>7 DEF Unknown
  <2>2. \A t \in Services, h \in Hosts : Using(t, h) => Using(t, h)' \/ (h = m /\ msg = RRG(t))
    BY <1>4, <1>5
  <2> QED BY <1>1, <1>3, <1>5, <1>7, <2>1, <2>2, AppendedUsed
<1>8. CASE ~(rmUp /\ m \in rmReady /\ ~Contains(toMS[m], Down)) /\ toRM' = toRM
  <2>1. toRM[m] = <<>>
    BY <1>1, <1>8 DEF SentInv, NothingSent, UsedInv, UnknownTakeNothing, Unknown
  <2>2. rmUp => TailIn(rangeList, NotFrom(m))
    BY <1>1, <1>8 DEF UsedInv, UnknownTakeNothing, Unknown
  <2>3. ASSUME NEW t \in Services, NEW h \in Hosts, h # m, NEW i, Held(t, h, i)
        PROVE  Held(t, h, i)'
    BY <1>4, <1>8, <2>3 DEF Held, Using
  <2>4. ListHeld'
    <3> SUFFICES ASSUME rmUp PROVE TailIn(rangeList, HeldEntries')
      BY <1>1 DEF ListHeld
    <3>1. TailIn(rangeList, HeldEntries) /\ TailIn(rangeList, NotFrom(m))
      BY <2>2 DEF UsedInv, ListHeld
    <3>2. HeldEntries \cap NotFrom(m) \subseteq HeldEntries'
      BY <2>3 DEF HeldEntries, NotFrom
    <3> QED BY <3>1, <3>2, TailBoth
  <2>5. AskedHeld'
    <3>1. Len(toRM[m]) = 0
      BY <2>1, EmptyQueue
    <3> SUFFICES ASSUME NEW h \in Hosts, NEW t \in Services, NEW i \in 1 .. Len(toRM[h]),
                        Needs(toRM[h][i], t)
                 PROVE  Held(t, h, i)'
      BY <1>8 DEF AskedHeld
    <3>2. h # m
      BY <3>1
    <3>3. Held(t, h, i)
      BY DEF UsedInv, AskedHeld
    <3> QED BY <2>3, <3>2, <3>3
  <2>6. UnknownTakeNothing'
    BY <1>1, <1>2, <1>3, <1>8 DEF UsedInv, UnknownTakeNothing, NotFrom, Entry
  <2> QED BY <2>4, <2>5, <2>6 DEF UsedInv
<1> QED BY <1>1, <1>6, <1>7, <1>8, SentCases DEF msg

LEMMA SvcUsed ==
  ASSUME RangeInv, SentInv, UsedInv, NEW s \in Services,
         SvcEnd(s) \/ \E m \in Hosts : SvcStart(s, m)
  PROVE  UsedInv'
<1>1. /\ UNCHANGED <<rmUp, rangeList, msUp, rmReady, owned, toRM, toMS>>
      /\ svcAt' = svcAt \/ (svcAt[s] = Nobody /\ \E m \in Hosts : svcAt' = [svcAt EXCEPT ![s] = m])
  BY DEF SvcEnd, SvcStart, IdFree, rmState, msState
<1>2. svcAt \in [Services -> msUp \cup {Nobody}] /\ Nobody \notin Hosts
  BY NobodyAssumption DEF RangeInv, ServicesInv
<1>3. \A t \in Services, h \in Hosts : Using(t, h) => Using(t, h)'
  BY <1>1, <1>2 DEF Using
<1>4. \A h \in msUp' : h \in msUp /\ (Unknown(h)' => Unknown(h))
  BY <1>1 DEF Unknown
<1> QED BY <1>1, <1>3, <1>4, SameQueuesUsed

LEMMA MSStartUsed ==
  ASSUME RangeInv, UsedInv, NEW m \in Hosts, MSStart(m) PROVE UsedInv'
<1>1. /\ m \notin msUp /\ toRM[m] = <<>> /\ msUp' = msUp \cup {m}
      /\ UNCHANGED <<rmUp, rangeList, rmReady, owned, svcAt, toRM, toMS>>
  BY DEF MSStart, rmState, svcState
<1>2. svcAt \in [Services -> msUp \cup {Nobody}] /\ Nobody \notin Hosts
  BY NobodyAssumption DEF RangeInv, ServicesInv
<1>3. \A s \in Services, h \in Hosts, i \in Nat : Held(s, h, i) = Held(s, h, i)'
  BY <1>1 DEF Held
<1>4. HeldEntries' = HeldEntries
  BY <1>3 DEF HeldEntries
<1>5. ListHeld'
  BY <1>1, <1>4 DEF UsedInv, ListHeld
<1>6. AskedHeld'
  <2> SUFFICES ASSUME NEW h \in Hosts, NEW s \in Services, NEW i \in 1 .. Len(toRM[h]),
                      Needs(toRM[h][i], s)
               PROVE  Held(s, h, i)'
    BY <1>1 DEF AskedHeld
  <2>1. Held(s, h, i)
    BY DEF UsedInv, AskedHeld
  <2> QED BY <1>3, <2>1
<1>7. UnknownTakeNothing'
  <2> SUFFICES ASSUME rmUp, NEW h \in msUp \cup {m}, Unknown(h)'
               PROVE  toRM[h] = <<>> /\ TailIn(rangeList, NotFrom(h))
    BY <1>1 DEF UnknownTakeNothing, NotFrom, Entry
  <2>1. CASE h = m
    <3>1. \A s \in Services : ~Held(s, m, 0)
      BY <1>1, <1>2, FollowsNothing DEF Held
    <3>2. HeldEntries \subseteq NotFrom(m)
      BY <3>1 DEF HeldEntries, NotFrom
    <3>3. TailIn(rangeList, HeldEntries)
      BY DEF UsedInv, ListHeld
    <3> QED BY <1>1, <2>1, <3>2, <3>3, TailSubset
  <2>2. CASE h # m
    <3>1. h \in msUp /\ Unknown(h)
      BY <1>1, <2>2 DEF Unknown
    <3> QED BY <3>1 DEF UsedInv, UnknownTakeNothing
  <2> QED BY <2>1, <2>2
<1> QED BY <1>5, <1>6, <1>7 DEF UsedInv

LEMMA MSCrashUsed ==
  ASSUME RangeInv, SentInv, UsedInv, NEW m \in Hosts, MSCrash(m) PROVE UsedInv'
<1>1. PICK kept \in 0 .. Len(toRM[m]) :
        toRM' = IF rmUp /\ m \in rmReady
                THEN [toRM EXCEPT ![m] = Append(SubSeq(@, 1, kept), Down)] ELSE toRM
  BY DEF MSCrash
<1>2. /\ m \in msUp /\ msUp' = msUp \ {m} /\ rmReady' = rmReady \ {m}
      /\ owned' = [owned EXCEPT ![m] = [s \in Services |-> <<>>]]
      /\ svcAt' = [s \in Services |-> IF svcAt[s] = m THEN Nobody ELSE svcAt[s]]
      /\ toMS' = [toMS EXCEPT ![m] = <<>>] /\ UNCHANGED <<rmUp, rangeList>>
  BY DEF MSCrash, rmState
<1>3. /\ toRM \in [Hosts -> Seq(RMMessages)] /\ toMS \in [Hosts -> Seq(MSMessages)]
      /\ owned \in [Hosts -> [Services -> Seq(GivenRange)]] /\ msUp \subseteq Hosts
  BY DEF RangeInv, QueuesInv, OwnedInv, ServicesInv
<1>4. \A h \in Hosts \ {m} : toRM'[h] = toRM[h] /\ toMS'[h] = toMS[h] /\ owned'[h] = owned[h]
  BY <1>1, <1>2, <1>3
<1>5. ASSUME NEW s \in Services, NEW h \in Hosts \ {m}, NEW i, Held(s, h, i)
      PROVE  Held(s, h, i)'
  <2>1. svcAt[s] = h => svcAt'[s] = h
    BY <1>2
  <2> QED BY <1>4, <1>5, <2>1 DEF Held
<1>6. UnknownTakeNothing'
  <2> SUFFICES ASSUME rmUp, NEW h \in msUp \ {m}, Unknown(h)'
               PROVE  toRM'[h] = <<>> /\ TailIn(rangeList, NotFrom(h))
    BY <1>2 DEF UnknownTakeNothing, NotFrom, Entry
  <2>1. h \in Hosts \ {m} /\ Unknown(h)
    BY <1>2, <1>3, <1>4 DEF Unknown
  <2> QED BY <1>4, <2>1 DEF UsedInv, UnknownTakeNothing
<1>7. CASE rmUp /\ m \in rmReady
  <2> DEFINE q == toRM[m]
             c == Append(SubSeq(q, 1, kept), Down)
  <2>1. toRM'[m] = c /\ q \in Seq(RMMessages) /\ kept \in 0 .. Len(q) /\ Len(q) \in Nat
    BY <1>1, <1>3, <1>7
  <2>2. /\ Len(c) = kept + 1 /\ c[kept + 1] = Down
        /\ \A i \in 1 .. kept : c[i] = q[i] /\ i \in 1 .. Len(q)
    <3>1. Down \in RMMessages
      BY DEF RMMessages
    <3> QED BY <2>1, <3>1, CutAppended
  <2>3. ASSUME NEW s \in Services, NEW i \in 0 .. kept PROVE Held(s, m, i)'
    BY <2>1, FollowsCut DEF Held
  <2> HIDE DEF c
  <2>4. ListHeld'
    <3>1. \A s \in Services, h \in Hosts : Held(s, h, 0) => Held(s, h, 0)'
      <4>1. 0 \in 0 .. kept
        BY <2>1
      <4> QED BY <1>5, <2>3, <4>1
    <3>2. HeldEntries \subseteq HeldEntries'
      BY <3>1, HeldStay
    <3>3. TailIn(rangeList, HeldEntries)
      BY <1>7 DEF UsedInv, ListHeld
    <3> QED BY <1>2, <3>2, <3>3, TailSubset DEF ListHeld
  <2>5. AskedHeld'
    <3> SUFFICES ASSUME NEW h \in Hosts, NEW s \in Services, NEW i \in 1 .. Len(toRM'[h]),
                        Needs(toRM'[h][i], s)
                 PROVE  Held(s, h, i)'
      BY DEF AskedHeld
    <3>1. CASE h = m
      <4>1. i \in 1 .. kept + 1 /\ toRM'[h][i] = c[i]
        BY <2>1, <2>2, <3>1
      <4>2. i # kept + 1
        BY <2>2, <4>1, NeedsKinds
      <4>3. i \in 0 .. kept
        BY <2>1, <4>1, <4>2
      <4> QED BY <2>3, <3>1, <4>3
    <3>2. CASE h # m
      <4>1. toRM'[h] = toRM[h]
        BY <1>4, <3>2
      <4>2. Held(s, h, i)
        BY <4>1 DEF UsedInv, AskedHeld
      <4> QED BY <1>5, <3>2, <4>2
    <3> QED BY <3>1, <3>2
  <2> QED BY <1>6, <2>4, <2>5 DEF UsedInv
<1>8. CASE ~(rmUp /\ m \in rmReady)
  <2>1. toRM' = toRM /\ toRM[m] = <<>> /\ (rmUp => TailIn(rangeList, NotFrom(m)))
    BY <1>1, <1>2, <1>8 DEF SentInv, NothingSent, UsedInv, UnknownTakeNothing, Unknown
  <2>2. ListHeld'
    <3> SUFFICES ASSUME rmUp PROVE TailIn(rangeList, HeldEntries')
      BY <1>2 DEF ListHeld
    <3>1. TailIn(rangeList, HeldEntries) /\ TailIn(rangeList, NotFrom(m))
      BY <2>1 DEF UsedInv, ListHeld
    <3>2. HeldEntries \cap NotFrom(m) \subseteq HeldEntries'
      BY <1>5 DEF HeldEntries, NotFrom
    <3> QED BY <3>1, <3>2, TailBoth
  <2>3. AskedHeld'
    <3>1. Len(toRM[m]) = 0
      BY <2>1, EmptyQueue
    <3> SUFFICES ASSUME NEW h \in Hosts, NEW s \in Services, NEW i \in 1 .. Len(toRM[h]),
                        Needs(toRM[h][i], s)
                 PROVE  Held(s, h, i)'
      BY <2>1 DEF AskedHeld
    <3>2. h # m
      BY <3>1
    <3>3. Held(s, h, i)
      BY DEF UsedInv, AskedHeld
    <3> QED BY <1>5, <3>2, <3>3
  <2> QED BY <1>6, <2>2, <2>3 DEF UsedInv
<1> QED BY <1>7, <1>8

LEMMA UsedStep == RangeInv /\ SentInv /\ UsedInv /\ RangeInv' /\ [Next]_vars => UsedInv'
<1> SUFFICES ASSUME RangeInv, SentInv, UsedInv, RangeInv', [Next]_vars PROVE UsedInv'
  OBVIOUS
<1>1. CASE UNCHANGED vars
  <2>1. UNCHANGED <<rmUp, rangeList, toRM, msUp, rmReady, toMS, svcAt, owned>>
    BY <1>1 DEF vars, rmState, msState, svcState
  <2>2. \A m \in msUp' : m \in msUp /\ (Unknown(m)' => Unknown(m))
    BY <2>1 DEF Unknown
  <2>3. \A s \in Services, m \in Hosts : Using(s, m) => Using(s, m)'
    BY <2>1 DEF Using
  <2> QED BY <2>1, <2>2, <2>3, SameQueuesUsed
<1>2. ASSUME NEW m \in Hosts,
             GetRange(m) \/ ReleaseRanges(m) \/ CbMSDown(m) \/ ReacquireRanges(m)
      PROVE  UsedInv'
  BY <1>2, GetRangeUsed, ReleaseRangesUsed, CbMSDownUsed, ReacquireRangesUsed
<1>3. ASSUME NEW m \in Hosts,
             SetRangeManagerReady(m) \/ SetRangeManagerDown(m) \/ GiveRange(m)
      PROVE  UsedInv'
  BY <1>3, SetRangeManagerReadyUsed, SetRangeManagerDownUsed, GiveRangeUsed
<1>4. ASSUME NEW m \in Hosts, MSStart(m) \/ MSCrash(m) PROVE UsedInv'
  BY <1>4, MSStartUsed, MSCrashUsed
<1>5. ASSUME NEW s \in Services, NEW m \in Hosts,
             DeclareEntityTypeOwner(m, s) \/ ReleaseRangesOfService(m, s)
      PROVE  UsedInv'
  BY <1>5, DeclareEntityTypeOwnerUsed, ReleaseRangesOfServiceUsed
<1>6. ASSUME NEW s \in Services, SvcEnd(s) \/ \E m \in Hosts : SvcStart(s, m) PROVE UsedInv'
  BY <1>6, SvcUsed
<1>7. CASE RMCrash
  <2>1. ~rmUp' /\ \A m \in Hosts : Len(toRM'[m]) = 0
    BY <1>7 DEF RMCrash
  <2> QED BY <2>1 DEF UsedInv, ListHeld, AskedHeld, UnknownTakeNothing
<1>8. CASE RMStart
  <2>1. /\ rangeList' = AcquireFirstRow
        /\ UNCHANGED <<msUp, toRM>> /\ \A m \in Hosts : toRM[m] = <<>> /\ Len(toRM[m]) = 0
    BY <1>8, EmptyQueue DEF RMStart, msState, SentInv, NothingSent
  <2>2. msUp \subseteq Hosts
    BY DEF RangeInv, ServicesInv
  <2> QED BY <2>1, <2>2, FirstRowContent DEF UsedInv, ListHeld, AskedHeld, UnknownTakeNothing
<1> QED BY <1>1, <1>2, <1>3, <1>4, <1>5, <1>6, <1>7, <1>8 DEF Next

LEMMA UsedInit == Init => UsedInv
<1> SUFFICES ASSUME Init PROVE UsedInv
  OBVIOUS
<1>1. \A m \in Hosts : Len(toRM[m]) = 0
  BY DEF Init
<1> QED BY <1>1, FirstRowContent DEF Init, UsedInv, ListHeld, AskedHeld, UnknownTakeNothing

\* A range that is taken belongs to a service that is connected to the mirror
\* service it got it through, or its release is on its way (GRG, RRG, RARG and the
\* losses of mirror services and of TICKS in any order): rows never leak.
THEOREM RangesNeverLeak == Spec => []TakenIsUsed
<1>1. RangeInv /\ UsedInv => TakenIsUsed
  <2> SUFFICES ASSUME RangeInv, UsedInv, rmUp, NEW i \in 2 .. Len(rangeList)
               PROVE  LET s == rangeList[i].OwnerServiceId
                          m == rangeList[i].MirrorServiceId
                      IN svcAt[s] = m \/ Contains(toRM[m], RRG(s)) \/ Contains(toRM[m], Down)
    BY DEF TakenIsUsed
  <2> DEFINE s == rangeList[i].OwnerServiceId
             m == rangeList[i].MirrorServiceId
  <2>1. rangeList[i] \in HeldEntries
    BY DEF UsedInv, ListHeld, TailIn
  <2>2. Held(s, m, 0)
    BY <2>1 DEF HeldEntries
  <2> HIDE DEF s, m
  <2>3. svcAt[s] = m \/ Contains(toRM[m], RRG(s)) \/ Contains(toRM[m], Down)
    BY <2>2 DEF Held, Follows, Contains
  <2> QED BY <2>3 DEF s, m
<1> QED BY <1>1, RangeInit, RangeStep, SentInit, SentStep, UsedInit, UsedStep, PTL DEF Spec

--------------------------------------------------------------------------------
\* What has been given.  As long as TICKS has not been restarted, the ranges that
\* a service which is connected has been given, or is about to be, are in the list.
Given(s, m, r) ==
  \/ \E i \in 1 .. Len(owned[m][s]) : owned[m][s][i] = r
  \/ \E i \in 1 .. Len(toMS[m]) :
       toMS[m][i].type = "RG" /\ toMS[m][i].service = s /\ toMS[m][i].range = r
Recorded(s, m, r) == RowRange(r.First, r.Last, s, m) \in ToSet(rangeList)
RecordedInv ==
  /\ restarts \in Nat
  /\ restarts = 0 =>
       /\ rmUp
       /\ \A s \in Services, m \in Hosts : \A r \in GivenRange :
            svcAt[s] = m /\ Given(s, m, r) /\ r # Blank => Recorded(s, m, r)

\* A service whose release TICKS has still to read is connected to no mirror service.
ReleasedGone ==
  \A m \in Hosts, s \in Services : \A i \in 1 .. Len(toRM[m]) :
    toRM[m][i] = RRG(s) => svcAt[s] = Nobody

LEMMA OneMore ==
  ASSUME NEW q \in Seq(RMMessages), NEW x, NEW i \in 1 .. Len(Append(q, x))
  PROVE  (i \in 1 .. Len(q) /\ Append(q, x)[i] = q[i]) \/ Append(q, x)[i] = x
OBVIOUS

\* A step only sends the release of a service that it disconnects.
LEMMA ReleasesSent ==
  ASSUME RangeInv, [Next]_vars, NEW h \in Hosts, NEW s \in Services,
         NEW i \in 1 .. Len(toRM'[h]), toRM'[h][i] = RRG(s)
  PROVE  (\E j \in 1 .. Len(toRM[h]) : toRM[h][j] = RRG(s)) \/ svcAt'[s] = Nobody
<1>1. toRM \in [Hosts -> Seq(RMMessages)] /\ toRM[h] \in Seq(RMMessages)
  BY DEF RangeInv, QueuesInv
<1>2. CASE toRM'[h] = toRM[h]
  BY <1>2
<1>3. ASSUME NEW x, toRM'[h] = Append(toRM[h], x), x = RRG(s) => svcAt'[s] = Nobody PROVE
        (\E j \in 1 .. Len(toRM[h]) : toRM[h][j] = RRG(s)) \/ svcAt'[s] = Nobody
  <2>1. (i \in 1 .. Len(toRM[h]) /\ toRM'[h][i] = toRM[h][i]) \/ toRM'[h][i] = x
    BY <1>1, <1>3, OneMore
  <2> QED BY <1>3, <2>1
<1>4. ASSUME NEW m \in Hosts, RMHas(m, Head(toRM[m]).type), toRM' = [toRM EXCEPT ![m] = Tail(@)]
      PROVE  \E j \in 1 .. Len(toRM[h]) : toRM[h][j] = RRG(s)
  <2>1. CASE h = m
    <3>1. toRM'[h] = Tail(toRM[h]) /\ toRM[h] # <<>>
      BY <1>1, <1>4, <2>1 DEF RMHas
    <3>2. i \in 1 .. Len(toRM[h]) - 1
      BY <1>1, <3>1, Popped
    <3> QED BY <1>1, <3>1, <3>2, Popped
  <2> QED BY <1>1, <1>2, <1>4, <2>1
<1>5. ASSUME NEW m \in Hosts, MSCrash(m)
      PROVE  \E j \in 1 .. Len(toRM[h]) : toRM[h][j] = RRG(s)
  <2>1. PICK kept \in 0 .. Len(toRM[m]) :
          toRM' = IF rmUp /\ m \in rmReady
                  THEN [toRM EXCEPT ![m] = Append(SubSeq(@, 1, kept), Down)] ELSE toRM
    BY <1>5 DEF MSCrash
  <2>2. CASE toRM'[h] = Append(SubSeq(toRM[h], 1, kept), Down) /\ kept \in 0 .. Len(toRM[h])
    <3> DEFINE c == Append(SubSeq(toRM[h], 1, kept), Down)
    <3>1. Down \in RMMessages /\ RRG(s) # Down
      BY DEF RMMessages, Down, RRG
    <3>2. /\ Len(c) = kept + 1 /\ c[kept + 1] = Down
          /\ \A k \in 1 .. kept : c[k] = toRM[h][k] /\ k \in 1 .. Len(toRM[h])
      BY <1>1, <2>2, <3>1, CutAppended
    <3> HIDE DEF c
    <3>3. toRM'[h] = c
      BY <2>2 DEF c
    <3>4. i \in 1 .. kept
      BY <3>1, <3>2, <3>3
    <3> QED BY <3>2, <3>3, <3>4
  <2>3. toRM'[h] = toRM[h] \/ m = h
    BY <1>1, <2>1
  <2>4. m = h =>
          \/ toRM'[h] = toRM[h]
          \/ toRM'[h] = Append(SubSeq(toRM[h], 1, kept), Down) /\ kept \in 0 .. Len(toRM[h])
    BY <1>1, <2>1
  <2> QED BY <1>2, <2>2, <2>3, <2>4
<1>6. ASSUME NEW m \in Hosts,
             GetRange(m) \/ ReleaseRanges(m) \/ CbMSDown(m) \/ ReacquireRanges(m)
      PROVE  \E j \in 1 .. Len(toRM[h]) : toRM[h][j] = RRG(s)
  BY <1>4, <1>6 DEF GetRange, ReleaseRanges, CbMSDown, ReacquireRanges, RMHas
<1>7. ASSUME NEW m \in Hosts, SetRangeManagerReady(m)
      PROVE  \E j \in 1 .. Len(toRM[h]) : toRM[h][j] = RRG(s)
  <2>1. PICK ranges : toRM' = IF ranges = <<>> THEN toRM
                              ELSE [toRM EXCEPT ![m] = Append(@, RARG(ranges))]
    BY <1>7 DEF SetRangeManagerReady
  <2> DEFINE x == RARG(ranges)
  <2>2. x # RRG(s)
    BY DEF RARG, RRG
  <2> HIDE DEF x
  <2>3. toRM'[h] = toRM[h] \/ toRM'[h] = Append(toRM[h], x)
    BY <1>1, <2>1 DEF x
  <2>4. i \in 1 .. Len(toRM[h]) /\ toRM'[h][i] = toRM[h][i]
    BY <1>1, <2>2, <2>3, OneMore
  <2> QED BY <2>4
<1>8. ASSUME NEW m \in Hosts, NEW t \in Services, DeclareEntityTypeOwner(m, t)
      PROVE  \E j \in 1 .. Len(toRM[h]) : toRM[h][j] = RRG(s)
  <2>1. PICK n \in Sizes : toRM' = Sent(m, GRG(t, n))
    BY <1>8 DEF DeclareEntityTypeOwner
  <2> DEFINE x == GRG(t, n)
  <2>2. x # RRG(s)
    BY DEF GRG, RRG
  <2> HIDE DEF x
  <2>3. toRM'[h] = toRM[h] \/ toRM'[h] = Append(toRM[h], x)
    BY <1>1, <2>1, SentCases DEF x
  <2>4. i \in 1 .. Len(toRM[h]) /\ toRM'[h][i] = toRM[h][i]
    BY <1>1, <2>2, <2>3, OneMore
  <2> QED BY <2>4
<1>9. ASSUME NEW m \in Hosts, NEW t \in Services, ReleaseRangesOfService(m, t)
      PROVE  (\E j \in 1 .. Len(toRM[h]) : toRM[h][j] = RRG(s)) \/ svcAt'[s] = Nobody
  <2> DEFINE x == RRG(t)
  <2>1. x = RRG(s) => svcAt'[s] = Nobody
    BY <1>9 DEF ReleaseRangesOfService, RRG, RangeInv, ServicesInv
  <2>2. toRM' = toRM \/ toRM' = Sent(m, x)
    BY <1>9 DEF ReleaseRangesOfService
  <2> HIDE DEF x
  <2>3. toRM'[h] = toRM[h] \/ toRM'[h] = Append(toRM[h], x)
    BY <1>1, <2>2, SentCases
  <2> QED BY <1>2, <1>3, <2>1, <2>3
<1>10. CASE RMCrash
  BY <1>10, EmptyQueue DEF RMCrash
<1>11. CASE UNCHANGED toRM
  BY <1>2, <1>11
<1>12. ASSUME NEW m \in Hosts, SetRangeManagerDown(m) \/ GiveRange(m) \/ MSStart(m)
       PROVE  UNCHANGED toRM
  BY <1>12 DEF SetRangeManagerDown, GiveRange, MSStart, rmState
<1>13. ASSUME NEW t \in Services, SvcEnd(t) \/ \E m \in Hosts : SvcStart(t, m)
       PROVE  UNCHANGED toRM
  BY <1>13 DEF SvcEnd, SvcStart, rmState, msState
<1>14. RMStart \/ UNCHANGED vars => UNCHANGED toRM
  BY DEF RMStart, vars, rmState, msState
<1> QED BY <1>5, <1>6, <1>7, <1>8, <1>9, <1>10, <1>11, <1>12, <1>13, <1>14 DEF Next

LEMMA GoneStep ==
  RangeInv /\ ReleasedGone /\ [Next]_vars /\ SlowStarts => ReleasedGone'
<1> SUFFICES ASSUME RangeInv, ReleasedGone, [Next]_vars, SlowStarts,
                    NEW h \in Hosts, NEW s \in Services, NEW i \in 1 .. Len(toRM'[h]),
                    toRM'[h][i] = RRG(s)
             PROVE  svcAt'[s] = Nobody
  BY DEF ReleasedGone
<1>1. SUFFICES ASSUME NEW j \in 1 .. Len(toRM[h]), toRM[h][j] = RRG(s) PROVE svcAt'[s] = Nobody
  BY ReleasesSent
<1>2. svcAt[s] = Nobody
  BY <1>1 DEF ReleasedGone
<1>3. About(s)
  <2>1. j \in DOMAIN toRM[h]
    BY DEF RangeInv, QueuesInv
  <2> QED BY <1>1, <2>1 DEF About
<1> QED BY <1>2, <1>3 DEF SlowStarts, IdFree

LEMMA RecordedKept ==
  ASSUME RecordedInv, UNCHANGED <<rmUp, restarts>>,
         \A s \in Services, m \in Hosts : \A r \in GivenRange :
           svcAt'[s] = m /\ Given(s, m, r)' /\ r # Blank =>
             \/ svcAt[s] = m /\ Given(s, m, r) /\ (Recorded(s, m, r) => Recorded(s, m, r)')
             \/ Recorded(s, m, r)'
  PROVE  RecordedInv'
BY DEF RecordedInv

LEMMA GetRangeRecorded ==
  ASSUME RangeInv, RecordedInv, NEW h \in Hosts, GetRange(h) PROVE RecordedInv'
<1> DEFINE msg == Head(toRM[h])
           acquired == AcquireRange(rangeList, msg.service, h, msg.nbRows)
<1>1. /\ msg.service \in Services /\ msg.nbRows \in Nat \ {0}
      /\ UNCHANGED <<rmUp, restarts, owned, svcAt>>
  BY RMReads, RMMessageFields DEF GetRange, msState, svcState, failures
<1>2. PICK owner \in Services, nbRows \in Nat \ {0}, range \in GivenRange :
        /\ owner = msg.service /\ nbRows = msg.nbRows /\ range = acquired.range
        /\ acquired = AcquireRange(rangeList, owner, h, nbRows)
  BY <1>1, AcquireApart DEF RangeInv, ListInv
<1> DEFINE answer == RG(owner, range)
<1>3. /\ rangeList' = acquired.list
      /\ toMS' = IF h \in msUp THEN [toMS EXCEPT ![h] = Append(@, answer)] ELSE toMS
  BY <1>2 DEF GetRange
<1>4. /\ ToSet(rangeList) \subseteq ToSet(rangeList')
      /\ range = Blank \/ RowRange(range.First, range.Last, owner, h) \in ToSet(rangeList')
  <2>1. rangeList \in Lists
    BY DEF RangeInv, ListInv
  <2> HIDE DEF acquired
  <2>2. LET a == AcquireRange(rangeList, owner, h, nbRows)
        IN /\ ToSet(rangeList) \subseteq ToSet(a.list)
           /\ \/ a.range = Blank
              \/ RowRange(a.range.First, a.range.Last, owner, h) \in ToSet(a.list)
    BY <2>1, AcquireContent
  <2> QED BY <1>2, <1>3, <2>2
<1> HIDE DEF msg, acquired
<1>5. ASSUME NEW s \in Services, NEW m \in Hosts, NEW r \in GivenRange, Given(s, m, r)'
      PROVE  Given(s, m, r) \/ (s = owner /\ m = h /\ r = range)
  <2>1. CASE \E i \in 1 .. Len(owned'[m][s]) : owned'[m][s][i] = r
    BY <1>1, <2>1 DEF Given
  <2>2. CASE \E i \in 1 .. Len(toMS'[m]) :
               toMS'[m][i].type = "RG" /\ toMS'[m][i].service = s /\ toMS'[m][i].range = r
    <3>1. PICK i \in 1 .. Len(toMS'[m]) :
            toMS'[m][i].type = "RG" /\ toMS'[m][i].service = s /\ toMS'[m][i].range = r
      BY <2>2
    <3>2. answer \in MSMessages /\ answer.service = owner /\ answer.range = range
      BY DEF MSMessages, RG
    <3> HIDE DEF answer
    <3>3. toMS[m] \in Seq(MSMessages)
      BY DEF RangeInv, QueuesInv
    <3>4. toMS'[m] = toMS[m] \/ (toMS'[m] = Append(toMS[m], answer) /\ m = h)
      BY <1>3 DEF RangeInv, QueuesInv
    <3>5. CASE toMS'[m] = toMS[m]
      BY <3>1, <3>5 DEF Given
    <3>6. CASE toMS'[m] = Append(toMS[m], answer) /\ m = h
      <4>1. (i \in 1 .. Len(toMS[m]) /\ toMS'[m][i] = toMS[m][i]) \/ toMS'[m][i] = answer
        BY <3>1, <3>2, <3>3, <3>6, Appended
      <4> QED BY <3>1, <3>2, <3>6, <4>1 DEF Given
    <3> QED BY <3>4, <3>5, <3>6
  <2> QED BY <1>5, <2>1, <2>2 DEF Given
<1>6. \A s \in Services, m \in Hosts : \A r \in GivenRange :
        /\ Recorded(s, m, r) => Recorded(s, m, r)'
        /\ s = owner /\ m = h /\ r = range /\ r # Blank => Recorded(s, m, r)'
  BY <1>4 DEF Recorded
<1> HIDE DEF answer
<1> QED BY <1>1, <1>5, <1>6, RecordedKept

LEMMA ReleaseRangesRecorded ==
  ASSUME RangeInv, ReleasedGone, RecordedInv, NEW h \in Hosts, ReleaseRanges(h) PROVE RecordedInv'
<1> DEFINE msg == Head(toRM[h])
           released == {r \in ToSet(rangeList) : r.OwnerServiceId = msg.service}
<1>1. /\ msg \in RMMessages /\ msg.type = "RRG" /\ toRM[h] # <<>>
      /\ UNCHANGED <<rmUp, restarts, owned, svcAt, toMS>>
  BY RMReads DEF ReleaseRanges, RMHas, msState, svcState, failures
<1>2. msg.service \in Services /\ msg = RRG(msg.service)
  BY <1>1, RMMessageFields, RMMessageKinds
<1>3. rangeList \in Lists /\ rangeList[1] \notin released
  BY <1>2, NobodyAssumption DEF RangeInv, ListInv, Lists, Apart
<1>4. svcAt[msg.service] = Nobody
  <2>1. toRM[h] \in Seq(RMMessages)
    BY DEF RangeInv, QueuesInv
  <2>2. 1 \in 1 .. Len(toRM[h]) /\ toRM[h][1] = RRG(msg.service)
    BY <1>1, <1>2, <2>1, Popped
  <2> HIDE DEF msg
  <2> QED BY <1>2, <2>2 DEF ReleasedGone
<1>5. \A e \in ToSet(rangeList) : e.OwnerServiceId # msg.service => e \in ToSet(rangeList')
  <2>1. \A e \in ToSet(rangeList) : e \in released \/ e \in ToSet(rangeList')
    <3> HIDE DEF released
    <3> QED BY <1>3, WithoutContent DEF ReleaseRanges, ReleaseRangesOfOwner, released
  <2> QED BY <2>1
<1>6. ASSUME NEW s \in Services, NEW m \in Hosts, NEW r \in GivenRange, svcAt[s] = m, Recorded(s, m, r)
      PROVE  Recorded(s, m, r)'
  <2>1. s # msg.service
    BY <1>4, <1>6, NobodyAssumption
  <2>2. RowRange(r.First, r.Last, s, m).OwnerServiceId = s
    BY DEF RowRange
  <2> QED BY <1>5, <1>6, <2>1, <2>2 DEF Recorded
<1>7. \A s \in Services, m \in Hosts : \A r \in GivenRange : Given(s, m, r)' => Given(s, m, r)
  BY <1>1 DEF Given
<1> QED BY <1>1, <1>6, <1>7, RecordedKept

LEMMA ReacquireRangesRecorded ==
  ASSUME RangeInv, RecordedInv, NEW h \in Hosts, ReacquireRanges(h) PROVE RecordedInv'
<1>1. UNCHANGED <<rmUp, restarts, owned, svcAt, toMS>>
  BY DEF ReacquireRanges, msState, svcState, failures
<1>2. ToSet(rangeList) \subseteq ToSet(rangeList')
  <2>1. Head(toRM[h]).ranges \in Seq(Told)
    BY RMReads, RMMessageFields DEF ReacquireRanges
  <2>2. rangeList \in Lists
    BY DEF RangeInv, ListInv
  <2>3. PICK online : rangeList' = Reacquired(rangeList, Head(toRM[h]).ranges, online, h)
    BY DEF ReacquireRanges
  <2> QED BY <2>1, <2>2, <2>3, ReacquiredContent
<1>3. \A s \in Services, m \in Hosts : \A r \in GivenRange :
        (Given(s, m, r)' => Given(s, m, r)) /\ (Recorded(s, m, r) => Recorded(s, m, r)')
  BY <1>1, <1>2 DEF Given, Recorded
<1> QED BY <1>1, <1>3, RecordedKept

LEMMA CbMSDownRecorded ==
  ASSUME RangeInv, SentInv, RecordedInv, NEW h \in Hosts, CbMSDown(h) PROVE RecordedInv'
<1> DEFINE released == {r \in ToSet(rangeList) : r.MirrorServiceId = h}
<1>1. /\ Head(toRM[h]) \in RMMessages /\ Head(toRM[h]).type = "DOWN" /\ toRM[h] # <<>>
      /\ UNCHANGED <<rmUp, restarts, owned, svcAt, toMS>>
  BY RMReads DEF CbMSDown, RMHas, msState, svcState, failures
<1>2. h \notin msUp
  <2>1. toRM[h] \in Seq(RMMessages) /\ Head(toRM[h]) = Down
    BY <1>1, RMMessageKinds DEF RangeInv, QueuesInv
  <2>2. 1 \in 1 .. Len(toRM[h]) /\ toRM[h][1] = Down
    BY <1>1, <2>1, Popped
  <2> QED BY <2>2 DEF SentInv, LastIsDown
<1>3. rangeList \in Lists /\ rangeList[1] \notin released
  BY NobodyAssumption DEF RangeInv, ListInv, Lists, Apart
<1>4. ASSUME NEW s \in Services, NEW m \in Hosts, NEW r \in GivenRange, svcAt[s] = m, Recorded(s, m, r)
      PROVE  Recorded(s, m, r)'
  <2>1. m \in msUp
    BY <1>4, NobodyAssumption DEF RangeInv, ServicesInv
  <2>2. rangeList' = Without(rangeList, released)
    BY <2>1 DEF CbMSDown, ReleaseRangesOfMS
  <2>3. RowRange(r.First, r.Last, s, m) \notin released
    BY <1>2, <2>1 DEF RowRange
  <2> HIDE DEF released
  <2>4. \A e \in ToSet(rangeList) : e \in released \/ e \in ToSet(rangeList')
    BY <1>3, <2>2, WithoutContent
  <2> QED BY <1>4, <2>3, <2>4 DEF Recorded
<1>5. \A s \in Services, m \in Hosts : \A r \in GivenRange : Given(s, m, r)' => Given(s, m, r)
  BY <1>1 DEF Given
<1> QED BY <1>1, <1>4, <1>5, RecordedKept

\* Messages that a mirror service reads leave what follows them.
LEMMA PoppedGiven ==
  ASSUME NEW q \in Seq(MSMessages), q # <<>>, NEW s, NEW r,
         \E i \in 1 .. Len(Tail(q)) :
           Tail(q)[i].type = "RG" /\ Tail(q)[i].service = s /\ Tail(q)[i].range = r
  PROVE  \E i \in 1 .. Len(q) : q[i].type = "RG" /\ q[i].service = s /\ q[i].range = r
<1>1. PICK i \in 1 .. Len(Tail(q)) :
        Tail(q)[i].type = "RG" /\ Tail(q)[i].service = s /\ Tail(q)[i].range = r
  OBVIOUS
<1>2. Tail(q)[i] = q[i + 1] /\ i + 1 \in 1 .. Len(q)
  BY <1>1, Popped
<1> QED BY <1>1, <1>2

LEMMA SetRangeManagerDownRecorded ==
  ASSUME RangeInv, RecordedInv, NEW h \in Hosts, SetRangeManagerDown(h) PROVE RecordedInv'
<1>1. /\ toMS[h] # <<>> /\ toMS' = [toMS EXCEPT ![h] = Tail(@)]
      /\ UNCHANGED <<rmUp, rangeList, owned, svcAt, restarts>>
  BY DEF SetRangeManagerDown, MSHas, rmState, svcState, failures
<1>2. toMS \in [Hosts -> Seq(MSMessages)]
  BY DEF RangeInv, QueuesInv
<1>3. ASSUME NEW s \in Services, NEW m \in Hosts, NEW r \in GivenRange, Given(s, m, r)'
      PROVE  Given(s, m, r)
  <2>1. CASE m = h
    BY <1>1, <1>2, <1>3, <2>1, PoppedGiven DEF Given
  <2>2. CASE m # h
    BY <1>1, <1>2, <1>3, <2>2 DEF Given
  <2> QED BY <2>1, <2>2
<1>4. \A s \in Services, m \in Hosts : \A r \in GivenRange : Recorded(s, m, r) => Recorded(s, m, r)'
  BY <1>1 DEF Recorded
<1> QED BY <1>1, <1>3, <1>4, RecordedKept

LEMMA GiveRangeRecorded ==
  ASSUME RangeInv, RecordedInv, NEW h \in Hosts, GiveRange(h) PROVE RecordedInv'
<1> DEFINE msg == Head(toMS[h])
           list == owned[h][msg.service]
           blanks == {i \in DOMAIN list : list[i] = Blank}
           first == CHOOSE i \in blanks : \A j \in blanks : i <= j
<1>1. /\ toMS[h] # <<>> /\ toMS' = [toMS EXCEPT ![h] = Tail(@)] /\ msg.type = "RG"
      /\ UNCHANGED <<rmUp, rangeList, svcAt, restarts>> /\ msg.service \in Services
  BY MSReads, MSMessageFields DEF GiveRange, MSHas, rmState, svcState, failures
<1>2. toMS \in [Hosts -> Seq(MSMessages)] /\ owned \in [Hosts -> [Services -> Seq(GivenRange)]]
  BY DEF RangeInv, QueuesInv, OwnedInv
<1>3. owned' = IF msg.range = Blank \/ blanks = {} THEN owned
               ELSE [owned EXCEPT ![h][msg.service][first] = msg.range]
  BY DEF GiveRange
<1>4. toMS[h][1] = msg /\ 1 \in 1 .. Len(toMS[h])
  BY <1>1, <1>2, Popped
<1> HIDE DEF msg, first, blanks
<1>5. ASSUME NEW s \in Services, NEW m \in Hosts, NEW i \in 1 .. Len(owned'[m][s])
      PROVE  \/ i \in 1 .. Len(owned[m][s]) /\ owned'[m][s][i] = owned[m][s][i]
             \/ m = h /\ s = msg.service /\ owned'[m][s][i] = msg.range
  <2>1. \/ owned'[m][s] = owned[m][s]
        \/ m = h /\ s = msg.service /\ owned'[m][s] = [owned[m][s] EXCEPT ![first] = msg.range]
    BY <1>1, <1>2, <1>3
  <2>2. owned[m][s] \in Seq(GivenRange)
    BY <1>2
  <2>3. CASE m = h /\ s = msg.service /\ owned'[m][s] = [owned[m][s] EXCEPT ![first] = msg.range]
    <3> DEFINE q == owned[m][s]
               p == [q EXCEPT ![first] = msg.range]
    <3>1. Len(q) \in Nat /\ DOMAIN q = 1 .. Len(q) /\ DOMAIN p = DOMAIN q
      BY <2>2
    <3>2. Len(p) = Len(q)
      BY <3>1, LenProperties, SMT
    <3>3. i \in DOMAIN q
      BY <2>3, <3>1, <3>2
    <3>4. p[i] = q[i] \/ p[i] = msg.range
      BY <3>3
    <3> QED BY <2>3, <3>1, <3>3, <3>4
  <2> QED BY <2>1, <2>3
<1>6. ASSUME NEW s \in Services, NEW m \in Hosts, NEW r \in GivenRange, Given(s, m, r)'
      PROVE  Given(s, m, r)
  <2>1. CASE \E i \in 1 .. Len(owned'[m][s]) : owned'[m][s][i] = r
    <3>1. PICK i \in 1 .. Len(owned'[m][s]) : owned'[m][s][i] = r
      BY <2>1
    <3>2. CASE i \in 1 .. Len(owned[m][s]) /\ owned'[m][s][i] = owned[m][s][i]
      <4>1. owned[m][s][i] = r
        BY <3>1, <3>2
      <4> QED BY <3>2, <4>1 DEF Given
    <3>3. CASE m = h /\ s = msg.service /\ owned'[m][s][i] = msg.range
      <4>1. toMS[m][1].type = "RG" /\ toMS[m][1].service = s /\ toMS[m][1].range = r
        BY <1>1, <1>4, <3>1, <3>3
      <4> QED BY <1>4, <3>3, <4>1 DEF Given
    <3> QED BY <1>5, <3>1, <3>2, <3>3
  <2>2. CASE \E i \in 1 .. Len(toMS'[m]) :
               toMS'[m][i].type = "RG" /\ toMS'[m][i].service = s /\ toMS'[m][i].range = r
    <3>1. CASE m = h
      BY <1>1, <1>2, <2>2, <3>1, PoppedGiven DEF Given
    <3>2. CASE m # h
      BY <1>1, <1>2, <2>2, <3>2 DEF Given
    <3> QED BY <3>1, <3>2
  <2> QED BY <1>6, <2>1, <2>2 DEF Given
<1>7. \A s \in Services, m \in Hosts : \A r \in GivenRange : Recorded(s, m, r) => Recorded(s, m, r)'
  BY <1>1 DEF Recorded
<1> QED BY <1>1, <1>6, <1>7, RecordedKept

LEMMA DeclareEntityTypeOwnerRecorded ==
  ASSUME RangeInv, RecordedInv, NEW h \in Hosts, NEW t \in Services, DeclareEntityTypeOwner(h, t)
  PROVE  RecordedInv'
<1>1. /\ owned' = [owned EXCEPT ![h][t] = Append(@, Blank)]
      /\ UNCHANGED <<rmUp, rangeList, svcAt, toMS, restarts>>
  BY DEF DeclareEntityTypeOwner, rmState, svcState, failures
<1>2. owned \in [Hosts -> [Services -> Seq(GivenRange)]] /\ Blank \in GivenRange
  BY DEF RangeInv, OwnedInv, GivenRange
<1>3. ASSUME NEW s \in Services, NEW m \in Hosts, NEW r \in GivenRange, Given(s, m, r)', r # Blank
      PROVE  Given(s, m, r)
  <2>1. owned'[m][s] = owned[m][s] \/ owned'[m][s] = Append(owned[m][s], Blank)
    BY <1>1, <1>2
  <2>2. owned[m][s] \in Seq(GivenRange)
    BY <1>2
  <2>3. ASSUME NEW i \in 1 .. Len(owned'[m][s]), owned'[m][s][i] = r
        PROVE  i \in 1 .. Len(owned[m][s]) /\ owned[m][s][i] = r
    <3>1. CASE owned'[m][s] = owned[m][s]
      BY <2>3, <3>1
    <3>2. CASE owned'[m][s] = Append(owned[m][s], Blank)
      <4> HIDE DEF Blank
      <4> QED BY <1>2, <1>3, <2>2, <2>3, <3>2, Appended
    <3> QED BY <2>1, <3>1, <3>2
  <2> QED BY <1>1, <1>3, <2>3 DEF Given
<1>4. \A s \in Services, m \in Hosts : \A r \in GivenRange : Recorded(s, m, r) => Recorded(s, m, r)'
  BY <1>1 DEF Recorded
<1> QED BY <1>1, <1>3, <1>4, RecordedKept

LEMMA ReleaseRangesOfServiceRecorded ==
  ASSUME RangeInv, RecordedInv, NEW h \in Hosts, NEW t \in Services, ReleaseRangesOfService(h, t)
  PROVE  RecordedInv'
<1>1. /\ owned' = [owned EXCEPT ![h][t] = <<>>] /\ svcAt' = [svcAt EXCEPT ![t] = Nobody]
      /\ UNCHANGED <<rmUp, rangeList, toMS, restarts>>
  BY DEF ReleaseRangesOfService, rmState, failures
<1>2. /\ owned \in [Hosts -> [Services -> Seq(GivenRange)]] /\ Nobody \notin Hosts
      /\ svcAt \in [Services -> msUp \cup {Nobody}]
  BY NobodyAssumption DEF RangeInv, OwnedInv, ServicesInv
<1>3. ASSUME NEW s \in Services, NEW m \in Hosts, NEW r \in GivenRange, Given(s, m, r)', svcAt'[s] = m
      PROVE  svcAt[s] = m /\ Given(s, m, r)
  <2>1. s # t
    BY <1>1, <1>2, <1>3
  <2>2. svcAt[s] = m /\ owned'[m][s] = owned[m][s]
    BY <1>1, <1>2, <1>3, <2>1
  <2> QED BY <1>1, <1>3, <2>2 DEF Given
<1>4. \A s \in Services, m \in Hosts : \A r \in GivenRange : Recorded(s, m, r) => Recorded(s, m, r)'
  BY <1>1 DEF Recorded
<1> QED BY <1>1, <1>3, <1>4, RecordedKept

LEMMA SvcStartRecorded ==
  ASSUME RangeInv, SentInv, RecordedInv, SlowStarts,
         NEW h \in Hosts, NEW t \in Services, SvcStart(t, h)
  PROVE  RecordedInv'
<1>1. /\ svcAt' = [svcAt EXCEPT ![t] = h] /\ svcAt[t] = Nobody
      /\ UNCHANGED <<rmUp, rangeList, owned, toMS, restarts>>
  BY DEF SvcStart, IdFree, rmState, msState, failures
<1>2. /\ Nobody \notin Hosts /\ svcAt \in [Services -> msUp \cup {Nobody}]
      /\ toMS \in [Hosts -> Seq(MSMessages)]
  BY NobodyAssumption DEF RangeInv, ServicesInv, QueuesInv
<1>3. ASSUME NEW s \in Services, NEW m \in Hosts, NEW r \in GivenRange, Given(s, m, r)', svcAt'[s] = m
      PROVE  svcAt[s] = m /\ Given(s, m, r)
  <2>1. Given(s, m, r)
    BY <1>1, <1>3 DEF Given
  <2>2. s # t
    <3>1. SUFFICES ASSUME s = t PROVE FALSE
      OBVIOUS
    <3>2. Len(owned[m][t]) = 0
      <4>1. owned[m][t] = <<>>
        BY <1>1, <1>2 DEF SentInv, OwnedAt
      <4> QED BY <4>1, EmptyQueue
    <3>3. PICK i \in 1 .. Len(toMS[m]) : toMS[m][i].type = "RG" /\ toMS[m][i].service = t
      BY <2>1, <3>1, <3>2 DEF Given
    <3>4. i \in DOMAIN toMS[m]
      BY <1>2
    <3>5. svcAt'[t] = h /\ svcAt[t] = Nobody
      BY <1>1, <1>2
    <3>6. ~About(t)
      BY <1>2, <3>5 DEF SlowStarts, IdFree
    <3> QED BY <3>3, <3>4, <3>6 DEF About
  <2> QED BY <1>1, <1>2, <1>3, <2>1, <2>2
<1>4. \A s \in Services, m \in Hosts : \A r \in GivenRange : Recorded(s, m, r) => Recorded(s, m, r)'
  BY <1>1 DEF Recorded
<1> QED BY <1>1, <1>3, <1>4, RecordedKept

LEMMA MSCrashRecorded ==
  ASSUME RangeInv, RecordedInv, NEW h \in Hosts, MSCrash(h) PROVE RecordedInv'
<1>1. /\ owned' = [owned EXCEPT ![h] = [s \in Services |-> <<>>]]
      /\ svcAt' = [s \in Services |-> IF svcAt[s] = h THEN Nobody ELSE svcAt[s]]
      /\ toMS' = [toMS EXCEPT ![h] = <<>>] /\ UNCHANGED <<rmUp, rangeList, restarts>>
  BY DEF MSCrash, rmState
<1>2. /\ owned \in [Hosts -> [Services -> Seq(GivenRange)]] /\ Nobody \notin Hosts
      /\ toMS \in [Hosts -> Seq(MSMessages)]
  BY NobodyAssumption DEF RangeInv, OwnedInv, QueuesInv
<1>3. ASSUME NEW s \in Services, NEW m \in Hosts, NEW r \in GivenRange, Given(s, m, r)', svcAt'[s] = m
      PROVE  svcAt[s] = m /\ Given(s, m, r)
  <2>1. svcAt[s] = m /\ m # h
    BY <1>1, <1>2, <1>3
  <2>2. owned'[m] = owned[m] /\ toMS'[m] = toMS[m]
    BY <1>1, <1>2, <2>1
  <2> QED BY <1>3, <2>1, <2>2 DEF Given
<1>4. \A s \in Services, m \in Hosts : \A r \in GivenRange : Recorded(s, m, r) => Recorded(s, m, r)'
  BY <1>1 DEF Recorded
<1> QED BY <1>1, <1>3, <1>4, RecordedKept

LEMMA RecordedStep ==
  RangeInv /\ SentInv /\ ReleasedGone /\ RecordedInv /\ [Next]_vars /\ SlowStarts => RecordedInv'
<1> SUFFICES ASSUME RangeInv, SentInv, ReleasedGone, RecordedInv, [Next]_vars, SlowStarts
             PROVE  RecordedInv'
  OBVIOUS
<1>1. ASSUME UNCHANGED <<rmUp, rangeList, owned, svcAt, toMS, restarts>> PROVE RecordedInv'
  <2>1. \A s \in Services, m \in Hosts : \A r \in GivenRange :
          (Given(s, m, r)' => Given(s, m, r)) /\ (Recorded(s, m, r) => Recorded(s, m, r)')
    BY <1>1 DEF Given, Recorded
  <2> QED BY <1>1, <2>1, RecordedKept
<1>2. CASE UNCHANGED vars
  BY <1>1, <1>2 DEF vars, rmState, msState, svcState, failures
<1>3. ASSUME NEW m \in Hosts,
             GetRange(m) \/ ReleaseRanges(m) \/ CbMSDown(m) \/ ReacquireRanges(m)
      PROVE  RecordedInv'
  BY <1>3, GetRangeRecorded, ReleaseRangesRecorded, CbMSDownRecorded, ReacquireRangesRecorded
<1>4. ASSUME NEW m \in Hosts,
             SetRangeManagerReady(m) \/ SetRangeManagerDown(m) \/ GiveRange(m)
      PROVE  RecordedInv'
  <2>1. CASE SetRangeManagerReady(m)
    BY <1>1, <2>1 DEF SetRangeManagerReady, rmState, svcState, failures
  <2> QED BY <1>4, <2>1, SetRangeManagerDownRecorded, GiveRangeRecorded
<1>5. ASSUME NEW m \in Hosts, MSStart(m) \/ MSCrash(m) PROVE RecordedInv'
  <2>1. CASE MSStart(m)
    BY <1>1, <2>1 DEF MSStart, rmState, svcState, failures
  <2> QED BY <1>5, <2>1, MSCrashRecorded
<1>6. ASSUME NEW s \in Services, NEW m \in Hosts,
             DeclareEntityTypeOwner(m, s) \/ ReleaseRangesOfService(m, s)
      PROVE  RecordedInv'
  BY <1>6, DeclareEntityTypeOwnerRecorded, ReleaseRangesOfServiceRecorded
<1>7. ASSUME NEW s \in Services, SvcEnd(s) \/ \E m \in Hosts : SvcStart(s, m) PROVE RecordedInv'
  <2>1. CASE SvcEnd(s)
    BY <1>1, <2>1 DEF SvcEnd, rmState, msState, failures
  <2> QED BY <1>7, <2>1, SvcStartRecorded
<1>8. CASE RMCrash
  BY <1>8 DEF RMCrash, RecordedInv
<1>9. CASE RMStart
  BY <1>9 DEF RMStart, RecordedInv, failures
<1> QED BY <1>2, <1>3, <1>4, <1>5, <1>6, <1>7, <1>8, <1>9 DEF Next

LEMMA RecordedInit == Init => ReleasedGone /\ RecordedInv
<1> SUFFICES ASSUME Init PROVE ReleasedGone /\ RecordedInv
  OBVIOUS
<1>1. \A s \in Services : svcAt[s] = Nobody
  BY DEF Init
<1> QED BY <1>1, NobodyAssumption DEF Init, RecordedInv, ReleasedGone

LEMMA SlowStep ==
  [Next /\ SlowStarts]_vars => [Next]_vars /\ SlowStarts
<1> SUFFICES ASSUME [Next /\ SlowStarts]_vars PROVE SlowStarts
  OBVIOUS
<1>1. UNCHANGED vars => SlowStarts
  BY DEF vars, rmState, msState, svcState, SlowStarts, IdFree
<1> QED BY <1>1

\* A service that has been given a range keeps it while it runs, whatever other
\* services and mirror services end meanwhile, as long as TICKS is not restarted
\* (releaseRanges(), cbMSDown(), the answers still on their way included), and an
\* id is not used again before the messages about it have been read.
THEOREM GivenRangesStay == SlowStartSpec => []OwnedIsRecordedBeforeRestart
<1>1. RangeInv /\ SentInv /\ RecordedInv => OwnedIsRecordedBeforeRestart
  <2> SUFFICES ASSUME RangeInv, SentInv, RecordedInv, restarts = 0,
                      NEW m \in msUp, NEW s \in Services, NEW i \in DOMAIN owned[m][s],
                      owned[m][s][i] # Blank
               PROVE  Contains(rangeList, RowRange(owned[m][s][i].First, owned[m][s][i].Last, s, m))
    BY DEF OwnedIsRecordedBeforeRestart, OwnedIsRecorded
  <2>1. m \in Hosts /\ owned[m][s] \in Seq(GivenRange)
    BY DEF RangeInv, ServicesInv, OwnedInv
  <2>2. i \in 1 .. Len(owned[m][s]) /\ owned[m][s][i] \in GivenRange
    BY <2>1
  <2> DEFINE r == owned[m][s][i]
  <2>3. owned[m][s] # <<>>
    BY <2>2, EmptyQueue
  <2>4. svcAt[s] = m
    BY <2>1, <2>3 DEF SentInv, OwnedAt
  <2>5. Given(s, m, r)
    BY <2>2 DEF Given
  <2> HIDE DEF r
  <2>6. Recorded(s, m, r)
    BY <2>1, <2>2, <2>4, <2>5 DEF RecordedInv, r
  <2>7. \A e \in ToSet(rangeList) : Contains(rangeList, e)
    <3>1. DOMAIN rangeList = 1 .. Len(rangeList)
      BY ListParts DEF RangeInv, ListInv
    <3> QED BY <3>1 DEF ToSet, Contains
  <2> QED BY <2>6, <2>7 DEF Recorded, r
<1>2. RangeInv /\ SentInv /\ ReleasedGone /\ RecordedInv /\ [Next /\ SlowStarts]_vars
        => RangeInv' /\ SentInv' /\ ReleasedGone' /\ RecordedInv'
  BY RangeStep, SentStep, GoneStep, RecordedStep, SlowStep
<1> QED BY <1>1, <1>2, RangeInit, SentInit, RecordedInit, PTL DEF SlowStartSpec

--------------------------------------------------------------------------------
\* Refusals.

\* Only the handler of a message makes the queue one message shorter.
LEMMA Unread ==
  ASSUME NEW q \in Seq(RMMessages), q # <<>>, NEW x \in RMMessages
  PROVE  Tail(q) # q /\ Tail(q) # Append(q, x)
<1> DEFINE popped == Tail(q)
           longer == Append(q, x)
<1>1. Len(popped) = Len(q) - 1 /\ Len(longer) = Len(q) + 1 /\ Len(q) \in Nat
  BY Popped, Appended
<1> HIDE DEF popped, longer
<1>2. popped # q /\ popped # longer
  BY <1>1
<1> QED BY <1>2 DEF popped, longer

\* acquireRange() finds a place whenever the data set has one: a request that is
\* refused leaves the list as it was, and no place has that many free rows.
THEOREM RefusalsAreRight == Spec => RefusedOnlyIfFull
<1> DEFINE Right ==
      \A m \in Hosts :
        RMHas(m, "GRG") /\ rmUp' /\ toRM'[m] = Tail(toRM[m]) /\ rangeList' = rangeList
          => \A first \in Rows : ~Free(rangeList, first, Head(toRM[m]).nbRows)
<1>1. ASSUME RangeInv, SentInv, RangeInv', [Next]_vars PROVE [Right]_vars
  <2> SUFFICES ASSUME Next, NEW m \in Hosts, RMHas(m, "GRG"), rmUp', toRM'[m] = Tail(toRM[m]),
                      rangeList' = rangeList, NEW first \in Rows
               PROVE  ~Free(rangeList, first, Head(toRM[m]).nbRows)
    BY <1>1
  <2> DEFINE q == toRM[m]
  <2>1. /\ q \in Seq(RMMessages) /\ q # <<>> /\ rmUp /\ toRM'[m] = Tail(q)
        /\ Head(q) \in RMMessages /\ Head(q).type = "GRG"
        /\ toRM \in [Hosts -> Seq(RMMessages)] /\ toRM' \in [Hosts -> Seq(RMMessages)]
    BY <1>1, RMReads DEF RangeInv, QueuesInv, RMHas
  <2>2. Head(q).service \in Services /\ Head(q).nbRows \in Nat \ {0}
    BY <2>1, RMMessageFields
  <2>3. toRM'[m] # toRM[m]
    <3>1. Down \in RMMessages
      BY DEF RMMessages
    <3> QED BY <2>1, <3>1, Unread
  <2>4. ASSUME GetRange(m) PROVE ~Free(rangeList, first, Head(toRM[m]).nbRows)
    <3>1. AcquireRange(rangeList, Head(q).service, m, Head(q).nbRows).list = rangeList
      BY <2>4 DEF GetRange
    <3>2. rangeList \in Lists
      BY <1>1 DEF RangeInv, ListInv
    <3> HIDE DEF q
    <3> QED BY <2>2, <3>1, <3>2, Refused DEF q
  <2>5. ASSUME NEW h \in Hosts,
               GetRange(h) \/ ReleaseRanges(h) \/ CbMSDown(h) \/ ReacquireRanges(h)
        PROVE  ~Free(rangeList, first, Head(toRM[m]).nbRows)
    <3>1. toRM' = [toRM EXCEPT ![h] = Tail(@)]
      BY <2>5 DEF GetRange, ReleaseRanges, CbMSDown, ReacquireRanges
    <3>2. h = m
      BY <2>1, <2>3, <3>1
    <3>3. GetRange(m)
      BY <2>1, <2>5, <3>2 DEF ReleaseRanges, CbMSDown, ReacquireRanges, RMHas
    <3> QED BY <2>4, <3>3
  <2>6. ASSUME NEW h \in Hosts,
               SetRangeManagerReady(h) \/ SetRangeManagerDown(h) \/ GiveRange(h) \/ MSStart(h)
        PROVE  FALSE
    <3>1. CASE SetRangeManagerReady(h)
      <4>1. PICK ranges : toRM' = IF ranges = <<>> THEN toRM
                                  ELSE [toRM EXCEPT ![h] = Append(@, RARG(ranges))]
        BY <3>1 DEF SetRangeManagerReady
      <4> DEFINE msg == RARG(ranges)
      <4>2. toRM'[m] = Append(q, msg)
        <5> HIDE DEF msg
        <5> QED BY <2>1, <2>3, <4>1 DEF msg
      <4> HIDE DEF msg, q
      <4>3. Len(Append(q, msg)) = Len(q) + 1 /\ Len(Tail(q)) = Len(q) - 1 /\ Len(q) \in Nat
        BY <2>1
      <4> QED BY <2>1, <4>2, <4>3
    <3>2. CASE SetRangeManagerDown(h) \/ GiveRange(h) \/ MSStart(h)
      BY <2>3, <3>2 DEF SetRangeManagerDown, GiveRange, MSStart
    <3> QED BY <2>6, <3>1, <3>2
  <2>7. ASSUME NEW h \in Hosts, MSCrash(h) PROVE FALSE
    <3>1. PICK kept \in 0 .. Len(toRM[h]) :
            toRM' = IF rmUp /\ h \in rmReady
                    THEN [toRM EXCEPT ![h] = Append(SubSeq(@, 1, kept), Down)] ELSE toRM
      BY <2>7 DEF MSCrash
    <3>2. h = m /\ m \in msUp /\ kept \in 0 .. Len(q) /\ Tail(q) = Append(SubSeq(q, 1, kept), Down)
      BY <2>1, <2>3, <2>7, <3>1 DEF MSCrash
    <3>3. Down \in RMMessages
      BY DEF RMMessages
    <3> HIDE DEF q
    <3>4. /\ Len(Tail(q)) = kept + 1 /\ Tail(q)[kept + 1] = Down
      <4> DEFINE cut == Append(SubSeq(q, 1, kept), Down)
      <4>1. Len(cut) = kept + 1 /\ cut[kept + 1] = Down
        BY <2>1, <3>2, <3>3, CutAppended
      <4> HIDE DEF cut
      <4> QED BY <3>2, <4>1 DEF cut
    <3>5. /\ Len(Tail(q)) = Len(q) - 1 /\ Len(q) \in Nat
          /\ \A i \in 1 .. Len(q) - 1 : Tail(q)[i] = q[i + 1] /\ i + 1 \in 1 .. Len(q)
      BY <2>1, Popped
    <3>6. kept + 1 \in 1 .. Len(q) - 1
      BY <3>2, <3>4, <3>5
    <3>7. q[(kept + 1) + 1] = Down /\ (kept + 1) + 1 \in 1 .. Len(q)
      BY <3>4, <3>5, <3>6
    <3> QED BY <1>1, <3>2, <3>7 DEF SentInv, LastIsDown, q
  <2>8. ASSUME NEW h \in Hosts, NEW s \in Services,
               DeclareEntityTypeOwner(h, s) \/ ReleaseRangesOfService(h, s)
        PROVE  FALSE
    <3>1. PICK msg \in RMMessages : toRM' = toRM \/ toRM' = Sent(h, msg)
      <4>1. CASE DeclareEntityTypeOwner(h, s)
        <5>1. \A n \in Sizes : GRG(s, n) \in RMMessages
          BY SizesAssumption DEF RMMessages
        <5> QED BY <4>1, <5>1 DEF DeclareEntityTypeOwner
      <4>2. CASE ReleaseRangesOfService(h, s)
        <5>1. RRG(s) \in RMMessages
          BY DEF RMMessages
        <5> QED BY <4>2, <5>1 DEF ReleaseRangesOfService
      <4> QED BY <2>8, <4>1, <4>2
    <3>2. toRM' = [toRM EXCEPT ![h] = Append(@, msg)]
      BY <2>3, <3>1, SentCases
    <3>3. toRM'[m] = Append(q, msg)
      BY <2>1, <2>3, <3>2
    <3> HIDE DEF q
    <3> QED BY <2>1, <3>3, Unread
  <2>9. ASSUME NEW s \in Services, SvcEnd(s) \/ \E h \in Hosts : SvcStart(s, h) PROVE FALSE
    BY <2>3, <2>9 DEF SvcEnd, SvcStart
  <2>10. ~RMCrash /\ ~RMStart
    BY <2>1 DEF RMCrash, RMStart
  <2> QED BY <2>5, <2>6, <2>7, <2>8, <2>9, <2>10 DEF Next
<1> QED BY <1>1, RangeInit, RangeStep, SentInit, SentStep, PTL DEF Spec, RefusedOnlyIfFull
===============================================================================
