----------------------------- MODULE RangeManager -----------------------------
(* The rows of a data set of the mirror are shared out among the services of   *)
(* the shard: a service declares how many it needs to its mirror service (MS), *)
(* which asks the range manager, a part of TICKS, for a range and gives it     *)
(* back when the service ends.  A row belongs to one service, which alone adds *)
(* entities there: ranges may never overlap.                                   *)
(*                                                                             *)
(* One data set is modelled: the code treats each on its own.  Abstracted: the *)
(* type of the entities, and what becomes of the entities in released rows.    *)
EXTENDS Integers, Sequences, FiniteSets, SequencesExt

CONSTANTS
  Hosts,         \* the mirror services, one on every machine
  Services,      \* ids of client services
  Nobody,        \* TServiceId(0), the owner of row 0
  Sizes,         \* the numbers of rows services ask for
  MaxRows,       \* _TotalMaxRows of the data set
  MaxDeclares,   \* bound: entity types a service declares
  MaxUnread,     \* bound: messages that wait for TICKS or for a mirror service
                 \* while a service starts
  MaxCrashes     \* bound: crashes of mirror services and of TICKS

ASSUME ServicesAssumption == IsFiniteSet(Services)
ASSUME SizesAssumption == Sizes \subseteq Nat \ {0}
ASSUME MaxRowsAssumption == MaxRows \in Nat \ {0}
ASSUME BoundsAssumption == {MaxDeclares, MaxUnread, MaxCrashes} \subseteq Nat
ASSUME NobodyAssumption == Nobody \notin Services \cup Hosts

VARIABLES
  rmUp,        \* TICKS runs
  rangeList,   \* CRangeList::_RangeList: the ranges that are taken, in order
  msUp,        \* the mirror services that run
  rmReady,     \* those with _RangeManagerReady
  owned,       \* owned[m][s]: _ClientServices[s].OwnedRanges of mirror service m
  svcAt,       \* svcAt[s]: the machine s is connected to the mirror of, or Nobody
  ended,       \* services that have ended, which their mirror service has not seen
  toRM,        \* toRM[m]: what mirror service m has sent to TICKS, in order
  toMS,        \* toMS[m]: what TICKS has sent to m, in order
  crashes, restarts   \* of mirror services, and of TICKS

rmState == <<rmUp, rangeList>>
msState == <<msUp, rmReady, owned>>
svcState == <<svcAt, ended>>
failures == <<crashes, restarts>>
vars == <<rmState, msState, svcState, toRM, toMS, failures>>

Rows == 0 .. MaxRows - 1
NoRow == MaxRows   \* INVALID_DATASET_INDEX, a row no data set has
Blank == [First |-> NoRow, Last |-> NoRow]   \* declared, not answered yet
RowRange(first, last, owner, m) ==
  [First |-> first, Last |-> last, OwnerServiceId |-> owner, MirrorServiceId |-> m]

GRG(s, n) == [type |-> "GRG", service |-> s, nbRows |-> n]
RRG(s) == [type |-> "RRG", service |-> s]
RARG(ranges) == [type |-> "RARG", ranges |-> ranges]
RG(s, range) == [type |-> "RG", service |-> s, range |-> range]
Down == [type |-> "DOWN"]

--------------------------------------------------------------------------------
\* CRangeList.

\* Mutants of Fits: one row too far, one row too short.
FitsOneTooMany(list, k, prevLast, n) ==
  k = Len(list) + 1 \/ prevLast + n <= list[k].First
FitsOneTooFew(list, k, prevLast, n) ==
  k = Len(list) + 1 \/ prevLast + n + 1 < list[k].First

\* rangeInserted(): n rows after prevLast, before the k-th range or at the end.
Fits(list, k, prevLast, n) ==
  k = Len(list) + 1 \/ prevLast + n < list[k].First

\* The list with a range of n rows in the first place it fits in, from prevLast
\* on: acquireRange() and reacquireRange() only differ in where they start.
Inserted(list, start, n, owner, m) ==
  LET prevLast(k) == IF k = 1 THEN start ELSE list[k - 1].Last
      place == CHOOSE k \in 1 .. Len(list) + 1 :
                 /\ Fits(list, k, prevLast(k), n)
                 /\ \A j \in 1 .. k - 1 : ~Fits(list, j, prevLast(j), n)
  IN [list |-> InsertAt(list, place,
                        RowRange(prevLast(place) + 1, prevLast(place) + n, owner, m)),
      range |-> [First |-> prevLast(place) + 1, Last |-> prevLast(place) + n]]

\* Mutant of Limited: the number of rows of the data set is no limit.
LimitedNever(list, inserted) == inserted

\* A range that exceeds the rows of the data set is taken out again.
Limited(list, inserted) ==
  IF inserted.range.Last < MaxRows THEN inserted ELSE [list |-> list, range |-> Blank]

AcquireRange(list, owner, m, n) ==
  Limited(list, Inserted(list, -1, n, owner, m))
ReacquireRange(list, owner, m, range) ==
  Limited(list, Inserted(list, range.First - 1, range.Last - range.First + 1,
                         owner, m)).list
AcquireFirstRow == AcquireRange(<<>>, Nobody, Nobody, 1).list

\* The list without the ranges in released, taken out one after the other.
Without(list, released) ==
  LET kept[i \in 0 .. Len(list)] ==
        IF i = 0 THEN <<>>
        ELSE IF list[i] \in released THEN kept[i - 1] ELSE Append(kept[i - 1], list[i])
  IN kept[Len(list)]

ReleaseRangesOfOwner(list, s) == Without(list, {r \in ToSet(list) : r.OwnerServiceId = s})
ReleaseRangesOfMS(list, m) == Without(list, {r \in ToSet(list) : r.MirrorServiceId = m})

--------------------------------------------------------------------------------
Init ==
  /\ rmUp = TRUE
  /\ rangeList = AcquireFirstRow
  /\ msUp = {} /\ rmReady = {}
  /\ owned = [m \in Hosts |-> [s \in Services |-> <<>>]]
  /\ svcAt = [s \in Services |-> Nobody]
  /\ ended = {}
  /\ toRM = [m \in Hosts |-> <<>>]
  /\ toMS = [m \in Hosts |-> <<>>]
  /\ crashes = 0 /\ restarts = 0

\* A mirror service sends to TICKS while it is connected to it.
Sent(m, msg) ==
  IF rmUp /\ m \in rmReady /\ ~Contains(toMS[m], Down)
  THEN [toRM EXCEPT ![m] = Append(@, msg)] ELSE toRM

\* What TICKS reads next, and what a mirror service reads next.
RMHas(m, type) == rmUp /\ toRM[m] # <<>> /\ Head(toRM[m]).type = type
MSHas(m, type) == m \in msUp /\ toMS[m] # <<>> /\ Head(toMS[m]).type = type

\* The range manager answers a request, with no range when there is no room.
GetRange(m) ==
  /\ RMHas(m, "GRG")
  /\ LET msg == Head(toRM[m])
         acquired == AcquireRange(rangeList, msg.service, m, msg.nbRows)
     IN /\ rangeList' = acquired.list
        /\ toMS' = IF m \in msUp
                   THEN [toMS EXCEPT ![m] = Append(@, RG(msg.service, acquired.range))]
                   ELSE toMS
  /\ toRM' = [toRM EXCEPT ![m] = Tail(@)]
  /\ UNCHANGED <<rmUp, msState, svcState, failures>>

\* All the ranges of the service, through whichever mirror service it got them.
ReleaseRanges(m) ==
  /\ RMHas(m, "RRG")
  /\ rangeList' = ReleaseRangesOfOwner(rangeList, Head(toRM[m]).service)
  /\ toRM' = [toRM EXCEPT ![m] = Tail(@)]
  /\ UNCHANGED <<rmUp, msState, svcState, toMS, failures>>

\* A range manager that has restarted is told what is owned, service by service.
\* Ranges of a service that is offline are skipped; a blank range is not, and
\* takes a row like any other.
Reacquired(list, told, online, m) ==
  LET after[i \in 0 .. Len(told)] ==
        IF i = 0 THEN list
        ELSE IF told[i].service \notin online THEN after[i - 1]
        ELSE ReacquireRange(after[i - 1], told[i].service, m, told[i].range)
  IN after[Len(told)]

\* The services that are online are those TICKS believes to be: it may see the
\* end of one before the mirror service does, or after it.
ReacquireRanges(m) ==
  /\ RMHas(m, "RARG")
  /\ \E online \in SUBSET Services :
       /\ \A s \in Services \ ended : svcAt[s] # Nobody => s \in online
       /\ rangeList' = Reacquired(rangeList, Head(toRM[m]).ranges, online, m)
  /\ toRM' = [toRM EXCEPT ![m] = Tail(@)]
  /\ UNCHANGED <<rmUp, msState, svcState, toMS, failures>>

\* Mutant of CbMSDown: the other mirror services are not looked for.
CbMSDownClears(m) ==
  /\ RMHas(m, "DOWN")
  /\ rangeList' = AcquireFirstRow
  /\ toRM' = [toRM EXCEPT ![m] = Tail(@)]
  /\ UNCHANGED <<rmUp, msState, svcState, toMS, failures>>

\* A mirror service is lost: its ranges are free, or all when it was the last.
CbMSDown(m) ==
  /\ RMHas(m, "DOWN")
  /\ rangeList' = IF msUp = {} THEN AcquireFirstRow
                               ELSE ReleaseRangesOfMS(rangeList, m)
  /\ toRM' = [toRM EXCEPT ![m] = Tail(@)]
  /\ UNCHANGED <<rmUp, msState, svcState, toMS, failures>>

--------------------------------------------------------------------------------
\* The mirror service sees TICKS: it tells what its services own, if anything.
SetRangeManagerReady(m) ==
  /\ rmUp /\ m \in msUp \ rmReady /\ toMS[m] = <<>>
  /\ rmReady' = rmReady \cup {m}
  /\ LET told(s) == [i \in DOMAIN owned[m][s] |->
                       [service |-> s, range |-> owned[m][s][i]]]
     IN \E order \in SetToSeqs(Services) :
          LET ranges == FlattenSeq([i \in DOMAIN order |-> told(order[i])])
          IN toRM' = IF ranges = <<>> THEN toRM
                     ELSE [toRM EXCEPT ![m] = Append(@, RARG(ranges))]
  /\ UNCHANGED <<rmState, msUp, owned, svcState, toMS, failures>>

\* The mirror service sees that TICKS has ended.
SetRangeManagerDown(m) ==
  /\ MSHas(m, "DOWN")
  /\ rmReady' = rmReady \ {m}
  /\ toMS' = [toMS EXCEPT ![m] = Tail(@)]
  /\ UNCHANGED <<rmState, msUp, owned, svcState, toRM, failures>>

\* A service declares an entity type: a blank range until the answer comes.
DeclareEntityTypeOwner(m, s) ==
  /\ m \in msUp /\ svcAt[s] = m /\ s \notin ended
  /\ Len(owned[m][s]) < MaxDeclares
  /\ owned' = [owned EXCEPT ![m][s] = Append(@, Blank)]
  /\ \E n \in Sizes : toRM' = Sent(m, GRG(s, n))
  /\ UNCHANGED <<rmState, msUp, rmReady, svcState, toMS, failures>>

\* The answer goes into the first blank range of the service, if there is one:
\* the service may have ended since it asked.
GiveRange(m) ==
  /\ MSHas(m, "RG")
  /\ LET msg == Head(toMS[m])
         blanks == {i \in DOMAIN owned[m][msg.service] :
                      owned[m][msg.service][i] = Blank}
     IN owned' = IF msg.range = Blank \/ blanks = {} THEN owned
                 ELSE LET first == CHOOSE i \in blanks : \A j \in blanks : i <= j
                      IN [owned EXCEPT ![m][msg.service][first] = msg.range]
  /\ toMS' = [toMS EXCEPT ![m] = Tail(@)]
  /\ UNCHANGED <<rmState, msUp, rmReady, svcState, toRM, failures>>

\* Mutant of ReleaseRangesOfService: only what has been given is given back.
ReleaseRangesIfGiven(m, s) ==
  /\ m \in msUp /\ svcAt[s] = m /\ s \in ended
  /\ toRM' = IF \A i \in DOMAIN owned[m][s] : owned[m][s][i] = Blank
             THEN toRM ELSE Sent(m, RRG(s))
  /\ owned' = [owned EXCEPT ![m][s] = <<>>]
  /\ svcAt' = [svcAt EXCEPT ![s] = Nobody]
  /\ ended' = ended \ {s}
  /\ UNCHANGED <<rmState, msUp, rmReady, toMS, failures>>

\* The end of a service gives all its ranges back, those still to come included.
ReleaseRangesOfService(m, s) ==
  /\ m \in msUp /\ svcAt[s] = m /\ s \in ended
  /\ toRM' = IF owned[m][s] = <<>> THEN toRM ELSE Sent(m, RRG(s))
  /\ owned' = [owned EXCEPT ![m][s] = <<>>]
  /\ svcAt' = [svcAt EXCEPT ![s] = Nobody]
  /\ ended' = ended \ {s}
  /\ UNCHANGED <<rmState, msUp, rmReady, toMS, failures>>

--------------------------------------------------------------------------------
\* Processes.  The naming service gives the id of a service that has ended to
\* another one only when every service has read of the end, and has done by then
\* what it does about it; but what a mirror service has sent to TICKS about the
\* old service, or TICKS to a mirror service, may still be on its way.  (Only for
\* 10 s does it wait for those that have not read; no service is that late here.)
IdFree(s) == svcAt[s] = Nobody

\* A service connects to the mirror of its machine, which is online when the
\* mirror service has seen TICKS.
SvcStart(s, m) ==
  /\ m \in rmReady /\ IdFree(s)
  /\ \A h \in Hosts : Len(toRM[h]) <= MaxUnread /\ Len(toMS[h]) <= MaxUnread
  /\ svcAt' = [svcAt EXCEPT ![s] = m]
  /\ UNCHANGED <<rmState, msState, ended, toRM, toMS, failures>>

SvcEnd(s) ==
  /\ svcAt[s] # Nobody /\ s \notin ended
  /\ ended' = ended \cup {s}
  /\ UNCHANGED <<rmState, msState, svcAt, toRM, toMS, failures>>

MSStart(m) ==
  /\ m \notin msUp /\ toRM[m] = <<>> /\ toMS[m] = <<>>
  /\ msUp' = msUp \cup {m}
  /\ UNCHANGED <<rmState, rmReady, owned, svcState, toRM, toMS, failures>>

\* The services of the machine quit when their mirror service is gone.
MSCrash(m) ==
  /\ m \in msUp /\ crashes + restarts < MaxCrashes
  /\ crashes' = crashes + 1
  /\ msUp' = msUp \ {m}
  /\ rmReady' = rmReady \ {m}
  /\ owned' = [owned EXCEPT ![m] = [s \in Services |-> <<>>]]
  /\ svcAt' = [s \in Services |-> IF svcAt[s] = m THEN Nobody ELSE svcAt[s]]
  /\ ended' = {s \in ended : svcAt[s] # m}
  /\ toMS' = [toMS EXCEPT ![m] = <<>>]
  /\ \E kept \in 0 .. Len(toRM[m]) :
       toRM' = IF rmUp /\ m \in rmReady
               THEN [toRM EXCEPT ![m] = Append(SubSeq(@, 1, kept), Down)] ELSE toRM
  /\ UNCHANGED <<rmState, restarts>>

\* TICKS ends: what is sent to it is lost, and some of what it has sent.
RMCrash ==
  /\ rmUp /\ crashes + restarts < MaxCrashes
  /\ restarts' = restarts + 1
  /\ rmUp' = FALSE
  /\ toRM' = [m \in Hosts |-> <<>>]
  /\ \E kept \in [Hosts -> UNION {0 .. Len(toMS[m]) : m \in Hosts}] :
       /\ \A m \in Hosts : kept[m] <= Len(toMS[m])
       /\ toMS' = [m \in Hosts |-> IF m \in rmReady
                                  THEN Append(SubSeq(toMS[m], 1, kept[m]), Down)
                                  ELSE toMS[m]]
  /\ UNCHANGED <<rangeList, msState, svcState, crashes>>

\* init(): the list of a new process has row 0 only.
RMStart ==
  /\ ~rmUp
  /\ rmUp' = TRUE
  /\ rangeList' = AcquireFirstRow
  /\ UNCHANGED <<msState, svcState, toRM, toMS, failures>>

--------------------------------------------------------------------------------
Next ==
  \/ \E m \in Hosts :
       \/ GetRange(m) \/ ReleaseRanges(m) \/ CbMSDown(m)
       \/ ReacquireRanges(m) \/ SetRangeManagerReady(m) \/ SetRangeManagerDown(m)
       \/ GiveRange(m) \/ MSStart(m) \/ MSCrash(m)
  \/ \E s \in Services, m \in Hosts :
       DeclareEntityTypeOwner(m, s) \/ ReleaseRangesOfService(m, s) \/ SvcStart(s, m)
  \/ \E s \in Services : SvcEnd(s)
  \/ RMCrash \/ RMStart

Spec == Init /\ [][Next]_vars

\* A process takes longer to start than a message needs: when an id is used again,
\* no message about the service that had it is still unread.
About(s) ==
  \E m \in Hosts :
    \/ \E i \in DOMAIN toRM[m] : toRM[m][i] \in {RRG(s)} \cup {GRG(s, n) : n \in Sizes}
    \/ \E i \in DOMAIN toMS[m] : toMS[m][i].type = "RG" /\ toMS[m][i].service = s
SlowStarts == \A s \in Services : IdFree(s) /\ ~IdFree(s)' => ~About(s)
SlowStartSpec == Init /\ [][Next /\ SlowStarts]_vars

--------------------------------------------------------------------------------
RangeType == {Blank} \cup {[First |-> f, Last |-> l] : f \in Rows, l \in Rows}

\* Every variable has its type: in particular no range leaves the data set.
TypeOK ==
  /\ rmUp \in BOOLEAN
  /\ rangeList \in Seq([First : Rows, Last : Rows,
                        OwnerServiceId : Services \cup {Nobody},
                        MirrorServiceId : Hosts \cup {Nobody}])
  /\ rmReady \subseteq msUp /\ msUp \subseteq Hosts
  /\ owned \in [Hosts -> [Services -> Seq(RangeType)]]
  /\ svcAt \in [Services -> msUp \cup {Nobody}]
  /\ ended \subseteq {s \in Services : svcAt[s] # Nobody}

\* The list is in order and its ranges do not overlap, so two services never
\* own a row; row 0 is never given away.
RangesApart ==
  /\ rangeList # <<>> /\ rangeList[1].First = 0 /\ rangeList[1].OwnerServiceId = Nobody
  /\ \A i \in DOMAIN rangeList : rangeList[i].First <= rangeList[i].Last
  /\ \A i \in 1 .. Len(rangeList) - 1 : rangeList[i].Last < rangeList[i + 1].First

\* The range manager has had all that m has told it since they see each other.
Settled(m) ==
  /\ rmUp /\ m \in rmReady /\ ~Contains(toMS[m], Down)
  /\ \A i \in DOMAIN toRM[m] : toRM[m][i].type # "RARG"

\* A service that has been given a range keeps it while it runs: TICKS has it in
\* its name, whatever other services and mirror services end meanwhile.
\* It is claimed of SlowStartSpec: the late release of the service that had the id
\* would take the ranges of the one that has it now, a late answer give it one.
OwnedIsRecorded ==
  \A m \in msUp, s \in Services \ ended : Settled(m) =>
    \A i \in DOMAIN owned[m][s] :
      LET range == owned[m][s][i]
      IN range # Blank => Contains(rangeList, RowRange(range.First, range.Last, s, m))

\* The same of a TICKS that has not been restarted.
OwnedIsRecordedBeforeRestart == restarts = 0 => OwnedIsRecorded

\* Nothing leaks: a range that is taken has a service that runs, or its release
\* is on its way, even for a service that ended before it got its answer.
TakenIsUsed ==
  rmUp => \A i \in 2 .. Len(rangeList) :
    LET s == rangeList[i].OwnerServiceId
        m == rangeList[i].MirrorServiceId
    IN svcAt[s] = m \/ Contains(toRM[m], RRG(s)) \/ Contains(toRM[m], Down)

\* A request is refused only when no place of the data set has that many free
\* rows in succession: the first-fit search misses none.
Free(list, first, n) ==
  /\ first + n <= MaxRows
  /\ \A i \in DOMAIN list : list[i].Last < first \/ first + n <= list[i].First
RefusedOnlyIfFull ==
  [][\A m \in Hosts :
       RMHas(m, "GRG") /\ rmUp' /\ toRM'[m] = Tail(toRM[m]) /\ rangeList' = rangeList
         => \A first \in Rows : ~Free(rangeList, first, Head(toRM[m]).nbRows)]_vars
================================================================================
