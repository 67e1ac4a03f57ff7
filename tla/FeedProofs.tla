----------------------------- MODULE FeedProofs ------------------------------
(***************************************************************************)
(* Proofs about the change feed and about the processor that reads it.     *)
(*                                                                         *)
(* ChangeFeed: for any number of transactions, rows and page sizes,        *)
(* readers miss nothing, and what is committed is a Feed.  Processor: the  *)
(* order of effects and the hold of a blocked failure, for every number    *)
(* of workers and operators, every feed and every page size.               *)
(***************************************************************************)
EXTENDS ChangeFeed, Processor, FiniteSetTheorems,
        WellFoundedInduction, TLAPS

-----------------------------------------------------------------------------
(* ChangeFeed                                                              *)

USE FeedAssumption

LEMMA InitFeedIInv == FeedInit => FeedIInv
BY DEF FeedInit, FeedIInv, FeedTypeOK, NumbersAhead, ReaderBehind, NothingMissed, Nothing

\* An open transaction's new number is above everything committed and read.
LEMMA WriteIInv ==
    ASSUME FeedIInv, NEW t \in Transactions, NEW r \in Rows, Write(t, r)
    PROVE  FeedIInv'
<1> USE DEF FeedIInv, FeedTypeOK, NumbersAhead, ReaderBehind, NothingMissed
<1> DEFINE n == lastValue + 1
<1>1. n \in Nat /\ n > lastValue /\ n # 0
  OBVIOUS
<1>2. /\ lock' = t /\ lastValue' = n
      /\ written' = [written EXCEPT ![t][r] = n]
      /\ UNCHANGED <<changeSequence, cursor, read>>
      /\ lock \in {t, NoTransaction}
  BY DEF Write, AdvisoryLock
<1>3. \A u \in Transactions, s \in Rows :
         written'[u][s] = IF u = t /\ s = r THEN n ELSE written[u][s]
  BY <1>2
<1>4. FeedTypeOK'
  BY <1>1, <1>2
<1>5. \A u \in Transactions \ {t} : written[u] = Nothing /\ written'[u] = Nothing
  BY <1>2
<1>6. \A u \in Transactions : written'[u] # Nothing => lock' = u
  BY <1>2, <1>5
<1>7. \A u \in Transactions, s \in Rows : written'[u][s] <= lastValue'
  BY <1>1, <1>2, <1>3
<1>8. \A u \in Transactions, s, q \in Rows :
         written'[u][s] # 0 => written'[u][s] > changeSequence'[q]
  BY <1>1, <1>2, <1>3
<1>9. NumbersAhead'
  BY <1>1, <1>2, <1>6, <1>7, <1>8 DEF Nothing
<1>10. ReaderBehind'
  BY <1>1, <1>2, <1>3
<1>11. NothingMissed'
  BY <1>2
<1> QED
  BY <1>4, <1>9, <1>10, <1>11

\* What a transaction has written becomes visible, or is dropped.
LEMMA EndIInv ==
    ASSUME FeedIInv, NEW t \in Transactions, Commit(t) \/ Rollback(t)
    PROVE  FeedIInv'
<1> USE DEF FeedIInv, FeedTypeOK, NumbersAhead, ReaderBehind, NothingMissed
<1>1. /\ written[t] # Nothing
      /\ written' = [written EXCEPT ![t] = Nothing]
      /\ lock' = IF lock = t THEN NoTransaction ELSE lock
      /\ UNCHANGED <<lastValue, cursor, read>>
  BY DEF Commit, Rollback, End
<1>2. \A u \in Transactions, s \in Rows :
         written'[u][s] = IF u = t THEN 0 ELSE written[u][s]
  BY <1>1 DEF Nothing
<1>3. \A u \in Transactions \ {t} : written[u] = Nothing
  BY <1>1
<1>4. \A u \in Transactions : written'[u] = Nothing
  BY <1>1, <1>3
<1>5. \A u \in Transactions, s \in Rows : written'[u][s] = 0
  BY <1>4 DEF Nothing
<1>6. CASE Commit(t)
  <2>1. \A s \in Rows : changeSequence'[s] =
           IF written[t][s] = 0 THEN changeSequence[s] ELSE written[t][s]
    BY <1>6 DEF Commit
  <2>2. changeSequence' \in [Rows -> Nat]
    BY <1>6 DEF Commit
  <2>3. FeedTypeOK'
    BY <1>1, <2>2 DEF Nothing
  <2>4. NumbersAhead'
    BY <1>1, <1>4, <1>5, <2>1
  <2>5. ReaderBehind'
    BY <1>1, <1>5
  <2>6. NothingMissed'
    BY <1>1, <2>1
  <2> QED
    BY <2>3, <2>4, <2>5, <2>6
<1>7. CASE Rollback(t)
  <2>1. changeSequence' = changeSequence
    BY <1>7 DEF Rollback
  <2>2. FeedTypeOK'
    BY <1>1, <2>1 DEF Nothing
  <2>3. NumbersAhead'
    BY <1>1, <1>4, <1>5, <2>1
  <2>4. ReaderBehind' /\ NothingMissed'
    BY <1>1, <1>5, <2>1
  <2> QED
    BY <2>2, <2>3, <2>4
<1> QED
  BY <1>6, <1>7

\* A page has every row between the old cursor and the new one.
LEMMA ReadIInv ==
    ASSUME FeedIInv, NEW page \in SUBSET Rows, NEW last \in Rows,
           ReadPage(page, last)
    PROVE  FeedIInv'
<1> USE DEF FeedIInv, FeedTypeOK, NumbersAhead, ReaderBehind, NothingMissed
<1>1. /\ last \in page
      /\ cursor' = changeSequence[last]
      /\ read' = [r \in Rows |-> IF r \in page THEN changeSequence[r] ELSE read[r]]
      /\ UNCHANGED <<changeSequence, lastValue, lock, written>>
  BY DEF ReadPage
<1>2. \A r \in page : changeSequence[r] > cursor
  BY DEF ReadPage, Pages
<1>3. \A r \in Rows \ page :
         changeSequence[r] > cursor => changeSequence[r] > changeSequence[last]
  BY <1>1 DEF ReadPage, Pages
<1>4. FeedTypeOK'
  BY <1>1
<1>5. NumbersAhead'
  BY <1>1
<1>6. ReaderBehind'
  BY <1>1
<1>7. NothingMissed'
  BY <1>1, <1>2, <1>3
<1> QED
  BY <1>4, <1>5, <1>6, <1>7

LEMMA StepFeedIInv == FeedIInv /\ [FeedNext]_feedVars => FeedIInv'
<1> SUFFICES ASSUME FeedIInv, [FeedNext]_feedVars PROVE FeedIInv'
  OBVIOUS
<1>1. CASE \E t \in Transactions, r \in Rows : Write(t, r)
  BY <1>1, WriteIInv
<1>2. CASE \E t \in Transactions : Commit(t)
  BY <1>2, EndIInv
<1>3. CASE \E t \in Transactions : Rollback(t)
  BY <1>3, EndIInv
<1>4. CASE \E page \in SUBSET Rows, last \in Rows : ReadPage(page, last)
  BY <1>4, ReadIInv
<1>5. CASE UNCHANGED feedVars
  BY <1>5 DEF feedVars, FeedIInv, FeedTypeOK, NumbersAhead, ReaderBehind, NothingMissed
<1> QED
  BY <1>1, <1>2, <1>3, <1>4, <1>5 DEF FeedNext

\* The inductive invariant of the feed: only the holder of the advisory lock
\* has uncommitted numbers, and they are above all that was read.
THEOREM FeedInductive == FeedSpec => []FeedIInv
<1>1. FeedInit => FeedIInv
  BY InitFeedIInv
<1>2. FeedIInv /\ [FeedNext]_feedVars => FeedIInv'
  BY StepFeedIInv
<1> QED
  BY <1>1, <1>2, PTL DEF FeedSpec

\* Whoever reads archive_events page by page has the latest version of every
\* row up to its cursor.
THEOREM ReadersMissNothing == FeedSpec => []NothingMissed
<1>1. FeedIInv => NothingMissed
  BY DEF FeedIInv
<1> QED
  BY <1>1, FeedInductive, PTL

\* Only a commit changes what is visible, and what it makes visible is above
\* everything visible before.
LEMMA StepPublishes ==
    FeedIInv /\ FeedIInv' /\ [FeedNext]_feedVars => [PublishedInOrder!Next]_changeSequence
<1> SUFFICES ASSUME FeedIInv, FeedIInv', [FeedNext]_feedVars, changeSequence' # changeSequence
             PROVE  PublishedInOrder!Publish
  BY DEF PublishedInOrder!Next
<1> USE DEF FeedIInv, FeedTypeOK, NumbersAhead
<1>1. PICK t \in Transactions : Commit(t)
  BY DEF FeedNext, feedVars, Write, Rollback, ReadPage
<1>2. \A r \in Rows : changeSequence'[r] =
         IF written[t][r] = 0 THEN changeSequence[r] ELSE written[t][r]
  BY <1>1 DEF Commit
<1>3. changeSequence' \in [Rows -> Nat \cup {0}]
  OBVIOUS
<1>4. \A r \in Rows : changeSequence'[r] # changeSequence[r] =>
         \A s \in Rows : changeSequence[s] < changeSequence'[r]
  BY <1>2
<1> QED
  BY <1>3, <1>4 DEF PublishedInOrder!Publish, PublishedInOrder!Above

\* The locked transactions of the indexer implement the feed its readers are
\* promised.
THEOREM FeedImplemented == FeedSpec => ImplementsFeed
<1>1. FeedInit => PublishedInOrder!Init
  BY DEF FeedInit, Nothing, PublishedInOrder!Init
<1>2. FeedIInv /\ FeedIInv' /\ [FeedNext]_feedVars => [PublishedInOrder!Next]_changeSequence
  BY StepPublishes
<1> QED
  BY <1>1, <1>2, FeedInductive, PTL DEF FeedSpec, ImplementsFeed, PublishedInOrder!Spec

HIDE FeedAssumption

-----------------------------------------------------------------------------
(* Lowest and highest numbers *)

LEMMA Lowest ==
    ASSUME NEW S \in SUBSET Nat, S # {}
    PROVE  Min(S) \in S /\ \A n \in S : Min(S) <= n
<1>1. \E x \in S : \A y \in S : ~ (<<y, x>> \in OpToRel(<, Nat))
  BY NatLessThanWellFounded, WFMin, Zenon
<1>2. PICK x \in S : \A y \in S : ~ (<<y, x>> \in OpToRel(<, Nat))
  BY <1>1
<1>3. ASSUME NEW y \in S
      PROVE  x <= y
  <2>1. x \in Nat /\ y \in Nat
    OBVIOUS
  <2>2. <<y, x>> \in Nat \X Nat /\ <<y, x>>[1] = y /\ <<y, x>>[2] = x
    BY <2>1
  <2>3. ~ (y < x)
    BY <1>2, <2>2, Zenon DEF OpToRel
  <2> QED
    BY <2>1, <2>3
<1> QED
  BY <1>2, <1>3 DEF Min

LEMMA Highest ==
    ASSUME NEW n \in Nat, NEW S \in SUBSET (0..n), S # {}
    PROVE  Max(S) \in S
<1>1. \A x \in S : n - x \in Nat
  OBVIOUS
<1> DEFINE T == {n - x : x \in S}
<1>2. T \in SUBSET Nat /\ T # {}
  BY <1>1
<1> HIDE DEF T
<1>3. Min(T) \in T /\ \A m \in T : Min(T) <= m
  BY <1>2, Lowest
<1>4. PICK x \in S : Min(T) = n - x
  BY <1>3 DEF T
<1>5. ASSUME NEW y \in S
      PROVE  x >= y
  <2>1. n - x <= n - y
    BY <1>3, <1>4 DEF T
  <2> QED
    BY <2>1
<1> QED
  BY <1>5 DEF Max

LEMMA Higher ==
    ASSUME NEW a \in Nat, NEW b \in Nat
    PROVE  Max({a, b}) = IF a >= b THEN a ELSE b
BY DEF Max
-----------------------------------------------------------------------------
(* Steps of one pass *)

InEvents == {"starting", "attempting", "rejecting", "failing"}

InTarget == {"recovering", "scanning", "superseding", "unblocking"}

LEMMA IdleIsPass == Idle \in Passes
BY ProcessorAssumption DEF Idle, Passes, Steps, States

LEMMA InitIInv == Init => IInv
<1> SUFFICES ASSUME Init PROVE IInv
  OBVIOUS
<1>1. /\ 0 \in 0..MaxSequence /\ 0 \in 0..MaxFaults
      /\ MaxSequence > 0 => 1 \in Versions /\ 1 \in 0..MaxSequence
  BY ProcessorAssumption DEF Versions
<1>2. TypeOK
  <2>1. published \in Seq(Events) /\ Len(published) <= MaxSequence
    <3>1. CASE published = <<>>
      BY <3>1, ProcessorAssumption
    <3>2. CASE MaxSequence > 0 /\ published \in {<<e>> : e \in Events}
      <4>1. PICK e \in Events : published = <<e>>
        BY <3>2
      <4> QED
        BY <4>1, <3>2, ProcessorAssumption
    <3> QED
      BY <3>1, <3>2 DEF Init
  <2>2. offset \in 0..MaxSequence /\ applied \in Seq(Versions)
    <3>1. CASE offset = 0 /\ applied = <<>>
      BY <3>1, <1>1
    <3>2. CASE MaxSequence > 0 /\ offset = 1 /\ applied = <<1>>
      BY <3>2, <1>1
    <3> QED
      BY <3>1, <3>2 DEF Init
  <2>3. failures \in [Versions -> States]
    BY DEF Init, States
  <2> QED
    BY <1>1, <2>1, <2>2, <2>3, IdleIsPass DEF Init, TypeOK
<1>3. InOrder
  BY <1>1 DEF Init, InOrder
<1>4. Equipped /\ HeldUp /\ Caused
  BY DEF Init, Equipped, HeldUp, Caused, Idle, At, Recovery
<1> QED
  BY <1>2, <1>3, <1>4 DEF IInv

LEMMA PageAfterType ==
    ASSUME published \in Seq(Events), Len(published) <= MaxSequence,
           NEW number \in 0..MaxSequence
    PROVE  PageAfter(number) \subseteq Versions /\ PageAfter(number) \subseteq 0..MaxSequence
<1>1. DOMAIN published = 1..Len(published)
  OBVIOUS
<1>2. Current \subseteq Versions
  BY <1>1, ProcessorAssumption DEF Current, Versions
<1>3. PageAfter(number) \subseteq Current
  BY Zenon DEF PageAfter
<1>4. Versions \subseteq 0..MaxSequence
  BY ProcessorAssumption DEF Versions
<1> QED
  BY <1>2, <1>3, <1>4

\* What a step of instance i owes: the invariants of the database, and a pass
\* that fits them.
LEMMA PassStep ==
    ASSUME IInv, NEW i \in Instances, NEW p \in Passes,
           pass' = [pass EXCEPT ![i] = p],
           published' = published, undecodable' = undecodable,
           offset' \in 0..MaxSequence, offset' >= offset,
           applied' \in Seq(Versions), InOrder',
           failures' \in [Versions -> States], Blocked' \subseteq Blocked,
           attemptCount' \in [Versions -> Nat],
           faults' \in 0..MaxFaults,
           p.step \in InEvents => p.page # {},
           p.step \in InTarget => p.target \in Versions,
           Blocked' # {} => p.step \in Recovery,
           p.step = "superseding" => ComesAgain(p.target) \/ offset' >= p.target
    PROVE  IInv'
<1> USE DEF IInv
<1>1. TypeOK'
  BY DEF TypeOK
<1>2. pass \in [Instances -> Passes] /\ offset \in Int /\ offset' \in Int
  BY ProcessorAssumption DEF TypeOK
<1>3. pass'[i] = p /\ \A j \in Instances \ {i} : pass'[j] = pass[j]
  BY <1>2
<1>4. Equipped'
  BY <1>3 DEF Equipped, InEvents, InTarget
<1>5. HeldUp'
  BY <1>3 DEF HeldUp
<1>6. Caused'
  <2> SUFFICES ASSUME NEW j \in Instances, pass'[j].step = "superseding"
               PROVE  \/ \E w \in DOMAIN published' :
                            /\ w > pass'[j].target
                            /\ published'[w] = published'[pass'[j].target]
                      \/ offset' >= pass'[j].target
    BY DEF Caused, At, ComesAgain
  <2>1. CASE j = i
    BY <2>1, <1>3 DEF ComesAgain
  <2>2. CASE j # i
    <3>1. pass[j].target \in Int
      BY <1>2, ProcessorAssumption DEF Passes
    <3>2. pass'[j] = pass[j]
      BY <2>2, <1>3
    <3>3. ComesAgain(pass[j].target) \/ offset >= pass[j].target
      BY <3>2 DEF At, Caused
    <3> QED
      BY <3>1, <3>2, <3>3, <1>2 DEF ComesAgain
  <2> QED
    BY <2>1, <2>2
<1> QED
  BY <1>1, <1>4, <1>5, <1>6

\* A step that leaves the database as it is.
LEMMA ReadingStep ==
    ASSUME IInv, NEW i \in Instances, NEW p \in Passes, Become(i, p),
           UNCHANGED <<published, undecodable, database>>,
           faults' \in 0..MaxFaults,
           p.step \in InEvents => p.page # {},
           p.step \in InTarget => p.target \in Versions,
           Blocked # {} => p.step \in Recovery,
           p.step = "superseding" => ComesAgain(p.target) \/ offset >= p.target
    PROVE  IInv'
<1>1. /\ offset' = offset /\ applied' = applied /\ failures' = failures
      /\ attemptCount' = attemptCount /\ published' = published
      /\ undecodable' = undecodable
  BY DEF database
<1>2. InOrder' /\ Blocked' = Blocked
  BY <1>1 DEF IInv, InOrder, Blocked
<1>3. offset' \in 0..MaxSequence /\ offset' >= offset
  BY <1>1 DEF IInv, TypeOK
<1> QED
  BY <1>1, <1>2, <1>3, PassStep DEF Become, IInv, TypeOK

LEMMA RecoveryIInv ==
    ASSUME IInv, NEW i \in Instances,
           \/ FindBlocked(i) \/ ReadOffset(i) \/ ScanPage(i) \/ RecheckBlocked(i)
           \/ FindBlockedToRetry(i)
    PROVE  IInv'
<1>1. /\ faults \in 0..MaxFaults /\ pass[i] \in Passes
      /\ offset \in 0..MaxSequence /\ published \in Seq(Events)
      /\ \A v \in Blocked : v \in Versions /\ v \in 0..MaxSequence
  BY ProcessorAssumption DEF IInv, TypeOK, Blocked, Versions
<1>2. CASE FindBlocked(i)
  <2>1. CASE Blocked = {} /\ Become(i, [Idle EXCEPT !.step = "resuming"])
    <3> DEFINE p == [Idle EXCEPT !.step = "resuming"]
    <3>1. p \in Passes /\ p.step = "resuming"
      BY IdleIsPass DEF Passes, Idle, Steps
    <3> HIDE DEF p
    <3> QED
      BY <3>1, <2>1, <1>1, <1>2, ReadingStep DEF FindBlocked, InEvents, InTarget, p
  <2>2. ASSUME NEW v \in Blocked,
               Become(i, [Idle EXCEPT !.step = "recovering", !.target = v])
        PROVE  IInv'
    <3> DEFINE p == [Idle EXCEPT !.step = "recovering", !.target = v]
    <3>1. p \in Passes /\ p.step = "recovering" /\ p.target = v
      BY <1>1, IdleIsPass DEF Passes, Idle, Steps
    <3>2. Become(i, p)
      BY <2>2
    <3> HIDE DEF p
    <3> QED
      BY <3>1, <3>2, <1>1, <1>2, ReadingStep
         DEF FindBlocked, InEvents, Recovery
  <2> QED
    BY <1>2, <2>1, <2>2 DEF FindBlocked
<1>3. CASE ReadOffset(i)
  <2> DEFINE p == [pass[i] EXCEPT
                     !.step = IF offset >= pass[i].target
                              THEN "superseding" ELSE "scanning",
                     !.cursor = offset]
  <2>1. /\ p \in Passes /\ p.target = pass[i].target
        /\ p.step = IF offset >= pass[i].target THEN "superseding" ELSE "scanning"
    BY <1>1 DEF Passes, Steps
  <2>2. Become(i, p) /\ pass[i].target \in Versions
    BY <1>3 DEF ReadOffset, At, IInv, Equipped
  <2> HIDE DEF p
  <2> QED
    BY <2>1, <2>2, <1>1, <1>3, ReadingStep DEF ReadOffset, InEvents, Recovery
<1>4. CASE ScanPage(i)
  <2>1. pass[i].target \in Versions /\ pass[i].step = "scanning"
    BY <1>4 DEF ScanPage, At, IInv, Equipped
  <2>6. PageAfter(pass[i].cursor) \subseteq 0..MaxSequence
    <3>1. pass[i].cursor \in 0..MaxSequence
      BY <1>1 DEF Passes
    <3> QED
      BY <3>1, <1>1, PageAfterType DEF IInv, TypeOK
  <2>2. CASE /\ PageAfter(pass[i].cursor) \cap Successors(pass[i].target) # {}
             /\ Become(i, [pass[i] EXCEPT !.step = "superseding"])
    <3> DEFINE p == [pass[i] EXCEPT !.step = "superseding"]
    <3>1. p \in Passes /\ p.target = pass[i].target /\ p.step = "superseding"
      BY <1>1 DEF Passes, Steps
    <3>2. ComesAgain(p.target)
      BY <2>2, <3>1 DEF Successors, ComesAgain
    <3>3. Become(i, p)
      BY <2>2
    <3> HIDE DEF p
    <3> QED
      BY <2>1, <3>1, <3>2, <3>3, <1>1, <1>4, ReadingStep
         DEF ScanPage, InEvents, Recovery
  <2>3. CASE Become(i, [pass[i] EXCEPT !.step = "rechecking"])
    <3> DEFINE p == [pass[i] EXCEPT !.step = "rechecking"]
    <3>1. p \in Passes /\ p.step = "rechecking"
      BY <1>1 DEF Passes, Steps
    <3> HIDE DEF p
    <3> QED
      BY <2>3, <3>1, <1>1, <1>4, ReadingStep
         DEF ScanPage, InEvents, InTarget, Recovery, p
  <2>4. CASE /\ PageAfter(pass[i].cursor) # {}
             /\ Become(i, [pass[i] EXCEPT !.cursor = NextCursor(i)])
    <3> DEFINE p == [pass[i] EXCEPT !.cursor = NextCursor(i)]
    <3>1. NextCursor(i) \in 0..MaxSequence
      BY <2>4, <2>6, Highest, ProcessorAssumption DEF NextCursor
    <3>2. p \in Passes /\ p.step = "scanning" /\ p.target = pass[i].target
      BY <1>1, <2>1, <3>1 DEF Passes
    <3>3. Become(i, p)
      BY <2>4
    <3> HIDE DEF p
    <3> QED
      BY <2>1, <3>2, <3>3, <1>1, <1>4, ReadingStep
         DEF ScanPage, InEvents, Recovery
  <2> QED
    BY <1>4, <2>2, <2>3, <2>4 DEF ScanPage
<1>5. CASE RecheckBlocked(i)
  <2> DEFINE p == IF Unblocked THEN [Idle EXCEPT !.step = "resuming"] ELSE Idle
  <2>1. p \in Passes /\ p.step = IF Unblocked THEN "resuming" ELSE "idle"
    BY IdleIsPass DEF Passes, Idle, Steps
  <2>2. Become(i, p)
    BY <1>5 DEF RecheckBlocked
  <2> HIDE DEF p
  <2> QED
    BY <2>1, <2>2, <1>1, <1>5, ReadingStep
       DEF RecheckBlocked, Unblocked, InEvents, InTarget, Recovery
<1>6. CASE FindBlockedToRetry(i)
  <2>1. PICK v \in Blocked :
           Become(i, [Idle EXCEPT !.step = "unblocking", !.target = v])
    BY <1>6 DEF FindBlockedToRetry
  <2> DEFINE p == [Idle EXCEPT !.step = "unblocking", !.target = v]
  <2>2. p \in Passes /\ p.step = "unblocking" /\ p.target = v
    BY <1>1, IdleIsPass DEF Passes, Idle, Steps
  <2>3. Become(i, p)
    BY <2>1
  <2> HIDE DEF p
  <2> QED
    BY <2>2, <2>3, <1>1, <1>6, ReadingStep
       DEF FindBlockedToRetry, InEvents, Recovery
<1> QED
  BY <1>2, <1>3, <1>4, <1>5, <1>6

\* Beyond the recovery nothing is blocked.
LEMMA NoneBlocked ==
    ASSUME IInv, NEW i \in Instances, pass[i].step \notin Recovery
    PROVE  Blocked = {}
BY DEF IInv, HeldUp

LEMMA EventReadingIInv ==
    ASSUME IInv, NEW i \in Instances,
           \/ Resume(i) \/ FetchPage(i) \/ StartEvent(i) \/ Reject(i)
           \/ Fail(i) \/ Abandon(i)
    PROVE  IInv'
<1>1. /\ faults \in 0..MaxFaults /\ pass[i] \in Passes
      /\ offset \in 0..MaxSequence /\ published \in Seq(Events)
      /\ Len(published) <= MaxSequence
  BY DEF IInv, TypeOK
<1>2. faults < MaxFaults => faults + 1 \in 0..MaxFaults
  BY <1>1, ProcessorAssumption
<1>3. CASE Resume(i)
  <2> DEFINE p == [Idle EXCEPT !.step = "fetching", !.cursor = offset]
  <2>1. p \in Passes /\ p.step = "fetching"
    BY <1>1, IdleIsPass DEF Passes, Idle, Steps
  <2>2. Become(i, p) /\ Blocked = {}
    BY <1>3, NoneBlocked DEF Resume, At, Recovery
  <2> HIDE DEF p
  <2> QED
    BY <2>1, <2>2, <1>1, <1>3, ReadingStep DEF Resume, InEvents, InTarget
<1>4. CASE FetchPage(i)
  <2> DEFINE found == PageAfter(pass[i].cursor)
             p == IF found = {} THEN Idle
                  ELSE [Idle EXCEPT !.step = "starting", !.page = found]
  <2>1. found \subseteq Versions
    <3>1. pass[i].cursor \in 0..MaxSequence
      BY <1>1 DEF Passes
    <3> QED
      BY <3>1, <1>1, PageAfterType
  <2>2. Become(i, p) /\ Blocked = {}
    BY <1>4, NoneBlocked DEF FetchPage, At, Recovery
  <2> HIDE DEF found
  <2>3. /\ p \in Passes /\ p.step \in {"idle", "starting"}
        /\ p.step = "starting" => p.page # {}
    BY <2>1, IdleIsPass DEF Passes, Idle, Steps
  <2> HIDE DEF p
  <2> QED
    BY <2>2, <2>3, <1>1, <1>4, ReadingStep DEF FetchPage, InEvents, InTarget
<1>5. CASE StartEvent(i)
  <2> DEFINE v == Version(i)
             q == [pass[i] EXCEPT
                     !.step = "attempting",
                     !.known = failures[v],
                     !.tries = IF failures[v] = "retrying"
                               THEN attemptCount[v] ELSE 0]
             p == IF failures[v] = "blocked" THEN Idle ELSE q
  <2>1. pass[i].page # {} /\ pass[i].page \in SUBSET Nat /\ pass[i].page \subseteq Versions
    BY <1>1, <1>5, ProcessorAssumption
       DEF StartEvent, At, IInv, Equipped, Passes, Versions
  <2>2. v \in Versions
    BY <2>1, Lowest DEF Version
  <2>3. Become(i, p) /\ Blocked = {}
    BY <1>5, NoneBlocked DEF StartEvent, At, Recovery
  <2> HIDE DEF v
  <2>4. q \in Passes /\ q.step = "attempting" /\ q.page = pass[i].page
    BY <1>1, <2>2 DEF Passes, Steps, IInv, TypeOK
  <2> HIDE DEF q
  <2>5. /\ p \in Passes /\ p.step \in {"idle", "attempting"}
        /\ p.step = "attempting" => p.page # {}
    BY <2>1, <2>4, IdleIsPass DEF Idle
  <2> HIDE DEF p
  <2> QED
    BY <2>3, <2>5, <1>1, <1>5, ReadingStep DEF StartEvent, InEvents, InTarget
<1>6. CASE Reject(i) \/ Fail(i)
  <2>1. PICK step \in {"rejecting", "failing"} :
           Become(i, [pass[i] EXCEPT !.step = step])
    BY <1>6 DEF Reject, Fail
  <2> DEFINE p == [pass[i] EXCEPT !.step = step]
  <2>2. p \in Passes /\ p.step = step /\ p.page = pass[i].page
    BY <1>1 DEF Passes, Steps
  <2>3. pass[i].page # {} /\ Blocked = {}
    BY <1>6, NoneBlocked DEF Reject, Fail, At, Recovery, IInv, Equipped
  <2>4. Become(i, p)
    BY <2>1
  <2> HIDE DEF p
  <2> QED
    BY <2>2, <2>3, <2>4, <1>1, <1>2, <1>6, ReadingStep DEF Reject, Fail, InTarget
<1>7. CASE Abandon(i)
  <2>1. Idle.step = "idle"
    BY DEF Idle
  <2> QED
    BY <2>1, IdleIsPass, <1>1, <1>2, <1>7, ReadingStep
       DEF Abandon, InEvents, InTarget, Recovery
<1> QED
  BY <1>3, <1>4, <1>5, <1>6, <1>7

\* The version at hand, and where the pass may go from it.
LEMMA AtEvent ==
    ASSUME IInv, NEW i \in Instances, pass[i].step \in InEvents
    PROVE  /\ Version(i) \in pass[i].page /\ Version(i) \in Versions
           /\ Version(i) \in 0..MaxSequence /\ Blocked = {}
           /\ pass[i] \in Passes
<1>1. /\ pass[i].page # {} /\ pass[i].page \subseteq Versions
      /\ pass[i] \in Passes
  BY DEF IInv, TypeOK, Equipped, InEvents, Passes
<1>2. Versions \subseteq Nat /\ Versions \subseteq 0..MaxSequence
  BY ProcessorAssumption DEF Versions
<1>3. Version(i) \in pass[i].page
  BY <1>1, <1>2, Lowest DEF Version
<1> QED
  BY <1>1, <1>2, <1>3, NoneBlocked DEF InEvents, Recovery

LEMMA NextEventPass ==
    ASSUME IInv, NEW i \in Instances, pass[i].step \in InEvents, NextEvent(i)
    PROVE  \E p \in Passes :
              /\ Become(i, p)
              /\ p.step \in {"idle", "starting"}
              /\ p.step = "starting" => p.page # {}
<1> DEFINE rest == pass[i].page \ {Version(i)}
           q == [Idle EXCEPT !.step = "starting", !.page = rest]
<1>1. rest \subseteq Versions
  BY AtEvent DEF Passes
<1>2. Become(i, IF rest = {} THEN Idle ELSE q)
  BY DEF NextEvent
<1> HIDE DEF rest
<1>3. q \in Passes /\ q.step = "starting" /\ q.page = rest
  BY <1>1, IdleIsPass DEF Passes, Idle, Steps
<1>4. Idle \in Passes /\ Idle.step = "idle"
  BY IdleIsPass DEF Idle
<1> HIDE DEF q
<1>5. CASE rest = {}
  BY <1>2, <1>4, <1>5
<1>6. CASE rest # {}
  BY <1>2, <1>3, <1>6
<1> QED
  BY <1>5, <1>6

LEMMA AnsweredPass ==
    ASSUME IInv, NEW i \in Instances, pass[i].step \in InEvents, Answered(i)
    PROVE  /\ faults' \in 0..MaxFaults
           /\ \E p \in Passes :
                 /\ Become(i, p)
                 /\ p.step \in {"idle", "starting", "failing"}
                 /\ p.step \in {"starting", "failing"} => p.page # {}
<1>1. faults \in 0..MaxFaults
  BY DEF IInv, TypeOK
<1>2. CASE NextEvent(i) /\ UNCHANGED faults
  BY <1>1, <1>2, NextEventPass
<1>3. CASE /\ faults < MaxFaults /\ faults' = faults + 1
           /\ Become(i, [pass[i] EXCEPT !.step = "failing"])
  <2> DEFINE p == [pass[i] EXCEPT !.step = "failing"]
  <2>1. p \in Passes /\ p.step = "failing" /\ p.page = pass[i].page
    BY AtEvent DEF Passes, Steps
  <2>2. pass[i].page # {} /\ Become(i, p)
    BY <1>3, AtEvent
  <2> HIDE DEF p
  <2>3. faults' \in 0..MaxFaults
    BY <1>1, <1>3, ProcessorAssumption
  <2> QED
    BY <2>1, <2>2, <2>3
<1> QED
  BY <1>2, <1>3 DEF Answered

LEMMA SkipIInv ==
    ASSUME IInv, NEW i \in Instances, Skip(i)
    PROVE  IInv'
<1>1. pass[i].step \in InEvents /\ pass[i].step = "attempting"
  BY DEF Skip, At, InEvents
<1>2. Blocked = {} /\ Version(i) \in Versions
  BY <1>1, AtEvent
<1>3. PICK p \in Passes :
         /\ Become(i, p)
         /\ p.step \in {"idle", "starting", "failing"}
         /\ p.step \in {"starting", "failing"} => p.page # {}
  BY <1>1, AnsweredPass DEF Skip
<1>4. /\ failures' \in [Versions -> States]
      /\ \A v \in Versions : failures'[v] \in {failures[v], "superseded"}
  BY <1>2 DEF Skip, IInv, TypeOK, States
<1>5. Blocked' = {}
  BY <1>2, <1>4 DEF Blocked
<1>6. InOrder' /\ offset' \in 0..MaxSequence /\ offset' >= offset
  BY DEF IInv, TypeOK, InOrder, Skip
<1>7. faults' \in 0..MaxFaults
  BY <1>1, AnsweredPass DEF Skip
<1>8. /\ published' = published /\ undecodable' = undecodable
      /\ applied' \in Seq(Versions) /\ attemptCount' \in [Versions -> Nat]
  BY DEF IInv, TypeOK, Skip
<1> QED
  BY <1>2, <1>3, <1>4, <1>5, <1>6, <1>7, <1>8, PassStep DEF Become, InEvents, InTarget

LEMMA ApplyIInv ==
    ASSUME IInv, NEW i \in Instances, Apply(i)
    PROVE  IInv'
<1> DEFINE v == Version(i)
<1>1. pass[i].step \in InEvents
  BY DEF Apply, At, InEvents
<1>2. /\ Blocked = {} /\ v \in Versions /\ v \in 0..MaxSequence
      /\ pass[i] \in Passes
  BY <1>1, AtEvent
<1>3. PICK p \in Passes :
         /\ Become(i, p)
         /\ p.step \in {"idle", "starting", "failing"}
         /\ p.step \in {"starting", "failing"} => p.page # {}
  BY <1>1, AnsweredPass DEF Apply
<1>4. /\ failures' \in [Versions -> States]
      /\ \A w \in Versions : failures'[w] \in {failures[w], "superseded", "resolved"}
  BY <1>2 DEF Apply, Settled, IInv, TypeOK, States
<1>5. Blocked' = {}
  BY <1>2, <1>4 DEF Blocked
<1>6. /\ offset' = v /\ offset < v /\ applied' = Append(applied, v)
      /\ offset \in 0..MaxSequence /\ applied \in Seq(Versions)
  BY <1>2, ProcessorAssumption DEF Apply, AlreadyProcessed, IInv, TypeOK
<1> HIDE DEF v
<1>7. InOrder'
  <2>1. /\ DOMAIN applied' = 1..(Len(applied) + 1)
        /\ DOMAIN applied = 1..Len(applied) /\ Len(applied) \in Nat
        /\ applied'[Len(applied) + 1] = v
        /\ \A k \in DOMAIN applied : applied'[k] = applied[k] /\ applied[k] \in Versions
    BY <1>2, <1>6
  <2>2. \A k \in DOMAIN applied : applied[k] <= offset
    BY DEF IInv, InOrder
  <2>3. \A k \in DOMAIN applied' : applied'[k] <= v
    BY <2>1, <2>2, <1>2, <1>6, ProcessorAssumption DEF Versions
  <2>4. ASSUME NEW j \in DOMAIN applied', NEW k \in DOMAIN applied', j < k
        PROVE  applied'[j] < applied'[k]
    <3>1. j \in DOMAIN applied
      BY <2>1, <2>4
    <3>2. CASE k = Len(applied) + 1
      BY <2>1, <2>2, <3>1, <3>2, <1>2, <1>6, ProcessorAssumption DEF Versions
    <3>3. CASE k \in DOMAIN applied
      BY <2>1, <2>4, <3>1, <3>3 DEF IInv, InOrder
    <3> QED
      BY <2>1, <3>2, <3>3
  <2> QED
    BY <2>3, <2>4, <1>6 DEF InOrder
<1>8. faults' \in 0..MaxFaults
  BY <1>1, AnsweredPass DEF Apply
<1>9. /\ published' = published /\ undecodable' = undecodable
      /\ applied' \in Seq(Versions) /\ attemptCount' \in [Versions -> Nat]
      /\ offset' \in 0..MaxSequence /\ offset' >= offset
  BY <1>2, <1>6 DEF IInv, TypeOK, Apply
<1> QED
  BY <1>3, <1>4, <1>5, <1>7, <1>8, <1>9, PassStep DEF Become, InEvents, InTarget

LEMMA RecordRejectionIInv ==
    ASSUME IInv, NEW i \in Instances, RecordRejection(i)
    PROVE  IInv'
<1> DEFINE v == Version(i)
<1>1. pass[i].step \in InEvents
  BY DEF RecordRejection, At, InEvents
<1>2. /\ Blocked = {} /\ v \in Versions /\ v \in 0..MaxSequence
      /\ pass[i] \in Passes /\ offset \in 0..MaxSequence
  BY <1>1, AtEvent DEF IInv, TypeOK
<1>3. PICK p \in Passes :
         /\ Become(i, p)
         /\ p.step \in {"idle", "starting"}
         /\ p.step = "starting" => p.page # {}
  BY <1>1, NextEventPass DEF RecordRejection
<1>4. failures' = [failures EXCEPT ![v] = "quarantined"]
  BY DEF RecordRejection
<1>5. failures' \in [Versions -> States] /\ Blocked' = {}
  BY <1>2, <1>4 DEF IInv, TypeOK, States, Blocked
<1>6. offset' = IF offset >= v THEN offset ELSE v
  BY <1>2, Higher, ProcessorAssumption DEF RecordRejection
<1>7. attemptCount' = [attemptCount EXCEPT ![v] = pass[i].tries + 1]
  BY DEF RecordRejection
<1>8. /\ published' = published /\ undecodable' = undecodable
      /\ applied' = applied /\ faults' = faults
  BY DEF RecordRejection
<1> HIDE DEF v
<1>9. offset' \in 0..MaxSequence /\ offset' >= offset
  BY <1>2, <1>6, ProcessorAssumption
<1>10. attemptCount' \in [Versions -> Nat]
  BY <1>2, <1>7 DEF IInv, TypeOK, Passes
<1>11. InOrder'
  BY <1>2, <1>8, <1>9, ProcessorAssumption DEF IInv, TypeOK, InOrder, Versions
<1>12. applied' \in Seq(Versions) /\ faults' \in 0..MaxFaults
  BY <1>8 DEF IInv, TypeOK
<1> QED
  BY <1>3, <1>5, <1>8, <1>9, <1>10, <1>11, <1>12, PassStep
     DEF Become, InEvents, InTarget

LEMMA RecordFailureIInv ==
    ASSUME IInv, NEW i \in Instances, RecordFailure(i)
    PROVE  IInv'
<1> DEFINE v == Version(i)
           q == [pass[i] EXCEPT !.step = "attempting", !.known = "retrying",
                                !.tries = @ + 1, !.attempts = @ + 1]
           p == IF LastAttempt(i) THEN Idle ELSE q
<1>1. pass[i].step \in InEvents
  BY DEF RecordFailure, At, InEvents
<1>2. /\ Blocked = {} /\ v \in Versions /\ v \in pass[i].page
      /\ pass[i] \in Passes
  BY <1>1, AtEvent
<1>3. Become(i, p)
  BY DEF RecordFailure
<1>4. failures' = [failures EXCEPT ![v] = "retrying"]
  BY DEF RecordFailure
<1>5. failures' \in [Versions -> States] /\ Blocked' = {}
  BY <1>2, <1>4 DEF IInv, TypeOK, States, Blocked
<1>6. attemptCount' = [attemptCount EXCEPT ![v] = pass[i].tries + 1]
  BY DEF RecordFailure
<1>7. attemptCount' \in [Versions -> Nat]
  BY <1>2, <1>6 DEF IInv, TypeOK, Passes
<1>8. q \in Passes /\ q.step = "attempting" /\ q.page = pass[i].page
  <2>1. pass[i].tries + 1 \in Nat /\ pass[i].attempts + 1 \in Nat
    BY <1>2 DEF Passes
  <2>2. "attempting" \in Steps /\ "retrying" \in States
    BY DEF Steps, States
  <2>3. q = [pass[i] EXCEPT !.step = "attempting", !.known = "retrying",
                            !.tries = pass[i].tries + 1,
                            !.attempts = pass[i].attempts + 1]
    OBVIOUS
  <2> HIDE DEF q
  <2> QED
    BY <1>2, <2>1, <2>2, <2>3 DEF Passes
<1> HIDE DEF q
<1>9. /\ p \in Passes /\ p.step \in {"idle", "attempting"}
      /\ p.step = "attempting" => p.page # {}
  BY <1>2, <1>8, IdleIsPass DEF Idle
<1> HIDE DEF p
<1>10. /\ published' = published /\ undecodable' = undecodable
       /\ applied' = applied /\ faults' = faults /\ offset' = offset
  BY DEF RecordFailure, HoldLine
<1>11. InOrder'
  BY <1>10 DEF IInv, InOrder
<1>12. /\ applied' \in Seq(Versions) /\ faults' \in 0..MaxFaults
       /\ offset' \in 0..MaxSequence /\ offset' >= offset
  BY <1>10, ProcessorAssumption DEF IInv, TypeOK
<1> QED
  BY <1>3, <1>5, <1>7, <1>9, <1>10, <1>11, <1>12, PassStep
     DEF Become, InEvents, InTarget

LEMMA SettleBlockedIInv ==
    ASSUME IInv, NEW i \in Instances,
           MarkFailureSuperseded(i) \/ SaveRetrying(i)
    PROVE  IInv'
<1> DEFINE v == pass[i].target
<1>1. v \in Versions
  BY DEF MarkFailureSuperseded, SaveRetrying, At, IInv, Equipped
<1>2. PICK step \in {"rechecking", "due"} : Become(i, [Idle EXCEPT !.step = step])
  BY DEF MarkFailureSuperseded, SaveRetrying
<1> DEFINE p == [Idle EXCEPT !.step = step]
<1>3. p \in Passes /\ p.step = step
  BY IdleIsPass DEF Passes, Idle, Steps
<1>4. failures' \in {failures, [failures EXCEPT ![v] = "superseded"],
                     [failures EXCEPT ![v] = "retrying"]}
  BY DEF MarkFailureSuperseded, SaveRetrying
<1>5. failures' \in [Versions -> States] /\ Blocked' \subseteq Blocked
  BY <1>1, <1>4 DEF IInv, TypeOK, States, Blocked
<1>6. attemptCount' \in [Versions -> Nat]
  <2>1. attemptCount' \in {attemptCount, [attemptCount EXCEPT ![v] = 0]}
    BY DEF MarkFailureSuperseded, SaveRetrying
  <2> HIDE DEF v
  <2>2. [attemptCount EXCEPT ![v] = 0] \in [Versions -> Nat]
    BY <1>1 DEF IInv, TypeOK
  <2> QED
    BY <2>1, <2>2 DEF IInv, TypeOK
<1>7. /\ published' = published /\ undecodable' = undecodable
      /\ applied' = applied /\ faults' = faults /\ offset' = offset
  BY DEF MarkFailureSuperseded, SaveRetrying
<1>8. InOrder'
  BY <1>7 DEF IInv, InOrder
<1>9. /\ applied' \in Seq(Versions) /\ faults' \in 0..MaxFaults
      /\ offset' \in 0..MaxSequence /\ offset' >= offset
  BY <1>7, ProcessorAssumption DEF IInv, TypeOK
<1>10. Become(i, p)
  BY <1>2
<1> HIDE DEF p
<1> QED
  BY <1>3, <1>5, <1>6, <1>7, <1>8, <1>9, <1>10, PassStep
     DEF Become, InEvents, InTarget, Recovery

\* The feed and the handlers change under the passes.
LEMMA EnvironmentIInv ==
    ASSUME IInv, (\E e \in Events : Rewrite(e)) \/ Release
    PROVE  IInv'
<1>1. /\ UNCHANGED <<offset, applied, failures, attemptCount, pass, faults>>
      /\ undecodable' \subseteq Events
  BY DEF Rewrite, Release, database, IInv, TypeOK
<1> DEFINE Longer ==
              /\ published' \in Seq(Events) /\ Len(published') <= MaxSequence
              /\ \A w \in DOMAIN published :
                    w \in DOMAIN published' /\ published'[w] = published[w]
<1>2. Longer
  <2>1. CASE Release
    BY <2>1 DEF Release, IInv, TypeOK
  <2>2. ASSUME NEW e \in Events, Rewrite(e)
        PROVE  Longer
    <3>1. published \in Seq(Events) /\ Len(published) \in Nat
      BY DEF IInv, TypeOK
    <3>2. published' = Append(published, e) /\ Len(published) < MaxSequence
      BY <2>2 DEF Rewrite
    <3> QED
      BY <3>1, <3>2, ProcessorAssumption
  <2> QED
    BY <2>1, <2>2
<1>3. TypeOK' /\ InOrder'
  BY <1>1, <1>2 DEF IInv, TypeOK, InOrder
<1>4. Equipped' /\ HeldUp'
  BY <1>1 DEF IInv, Equipped, HeldUp, Blocked
<1>5. ASSUME NEW v \in Versions, ComesAgain(v)
      PROVE  \E w \in DOMAIN published' : w > v /\ published'[w] = published'[v]
  <2>1. PICK w \in DOMAIN published : w > v /\ published[w] = published[v]
    BY <1>5 DEF ComesAgain
  <2>2. DOMAIN published = 1..Len(published) /\ Len(published) \in Nat /\ v \in 1..MaxSequence
    BY DEF IInv, TypeOK, Versions
  <2>3. v \in DOMAIN published
    BY <2>1, <2>2, ProcessorAssumption
  <2> QED
    BY <1>2, <2>1, <2>3
<1>6. Caused'
  <2> SUFFICES ASSUME NEW i \in Instances, pass[i].step = "superseding"
               PROVE  \/ \E w \in DOMAIN published' :
                            /\ w > pass[i].target
                            /\ published'[w] = published'[pass[i].target]
                      \/ offset >= pass[i].target
    BY <1>1 DEF Caused, At, ComesAgain
  <2>1. pass[i].target \in Versions
    BY DEF IInv, Equipped
  <2>2. ComesAgain(pass[i].target) \/ offset >= pass[i].target
    BY DEF IInv, Caused, At
  <2> QED
    BY <1>5, <2>1, <2>2
<1> QED
  BY <1>3, <1>4, <1>6 DEF IInv

LEMMA StepIInv ==
    ASSUME IInv, [Next]_vars
    PROVE  IInv'
<1>1. CASE UNCHANGED vars
  BY <1>1 DEF vars, database, IInv, TypeOK, InOrder, Equipped, HeldUp, Caused,
              At, Blocked, ComesAgain
<1>2. ASSUME NEW i \in Instances,
             Pass(i) \/ Fail(i) \/ FindBlockedToRetry(i) \/ Abandon(i)
      PROVE  IInv'
  BY <1>2, RecoveryIInv, EventReadingIInv, SkipIInv, ApplyIInv,
     RecordRejectionIInv, RecordFailureIInv, SettleBlockedIInv DEF Pass
<1>3. CASE (\E e \in Events : Rewrite(e)) \/ Release
  BY <1>3, EnvironmentIInv
<1> QED
  BY <1>1, <1>2, <1>3 DEF Next

-----------------------------------------------------------------------------
\* The inductive invariant: what each pass holds and where it may be while a
\* failure is blocked (the steps of runProcessOnce).
THEOREM Inductive == Spec => []IInv
<1>1. Init => IInv
  BY InitIInv
<1>2. IInv /\ [Next]_vars => IInv'
  BY StepIInv
<1> QED
  BY <1>1, <1>2, PTL DEF Spec

\* The effects follow the feed, each version once: the offset that is read
\* again under the advisory lock decides, whoever races.
THEOREM EffectsInOrder == Spec => []InOrder
<1>1. IInv => InOrder
  BY DEF IInv
<1> QED
  BY <1>1, Inductive, PTL

\* Nothing is processed past a blocked failure.
THEOREM LineHeld == Spec => BlockedHolds
<1>1. ASSUME IInv, [Next]_vars, Blocked # {}
      PROVE  UNCHANGED <<offset, applied>>
  <2>1. \A i \in Instances : pass[i].step \in Recovery
    BY <1>1 DEF IInv, HeldUp
  <2>2. CASE UNCHANGED vars
    BY <2>2 DEF vars, database
  <2>3. ASSUME NEW i \in Instances,
               Pass(i) \/ Fail(i) \/ FindBlockedToRetry(i) \/ Abandon(i)
        PROVE  UNCHANGED <<offset, applied>>
    BY <2>1, <2>3
       DEF Pass, Recovery, At, database, FindBlocked, ReadOffset, ScanPage,
           MarkFailureSuperseded, RecheckBlocked, Resume, FetchPage, StartEvent,
           Skip, Apply, Reject, RecordRejection, RecordFailure, SaveRetrying,
           Fail, FindBlockedToRetry, Abandon
  <2>4. CASE (\E e \in Events : Rewrite(e)) \/ Release
    BY <2>4 DEF Rewrite, Release, database
  <2> QED
    BY <1>1, <2>2, <2>3, <2>4 DEF Next
<1>2. IInv /\ [Next]_vars => [Blocked # {} => UNCHANGED <<offset, applied>>]_vars
  BY <1>1
<1> QED
  BY <1>2, Inductive, PTL DEF Spec, BlockedHolds

\* A blocked failure is retired when its event has come again, or is behind
\* the offset, and not otherwise.
THEOREM RetiredForCause == Spec => SettledForCause
<1>1. ASSUME IInv, [Next]_vars, NEW v \in Blocked, failures'[v] = "superseded"
      PROVE  ComesAgain(v) \/ offset >= v
  <2>1. failures[v] = "blocked" /\ failures'[v] # failures[v]
    BY <1>1 DEF Blocked
  <2>2. \A i \in Instances : pass[i].step \in Recovery
    BY <1>1 DEF IInv, HeldUp
  <2>3. PICK i \in Instances : MarkFailureSuperseded(i) \/ SaveRetrying(i)
    BY <1>1, <2>1, <2>2
       DEF Next, vars, Pass, Recovery, At, database, FindBlocked, ReadOffset,
           ScanPage, RecheckBlocked, Resume, FetchPage, StartEvent, Skip, Apply,
           Reject, RecordRejection, RecordFailure, Fail, FindBlockedToRetry,
           Abandon, Rewrite, Release
  <2>4. pass[i].target \in Versions /\ failures \in [Versions -> States]
    BY <1>1, <2>3
       DEF MarkFailureSuperseded, SaveRetrying, At, IInv, Equipped, TypeOK
  <2>5. CASE SaveRetrying(i)
    BY <1>1, <2>1, <2>4, <2>5 DEF SaveRetrying, Blocked
  <2>6. CASE MarkFailureSuperseded(i)
    <3>1. v = pass[i].target
      BY <2>1, <2>4, <2>6 DEF MarkFailureSuperseded, Blocked
    <3> QED
      BY <1>1, <2>6, <3>1 DEF MarkFailureSuperseded, IInv, Caused
  <2> QED
    BY <2>3, <2>5, <2>6
<1>2. IInv /\ [Next]_vars =>
         [\A v \in Blocked : failures'[v] = "superseded" =>
             ComesAgain(v) \/ offset >= v]_vars
  BY <1>1
<1> QED
  BY <1>2, Inductive, PTL DEF Spec, SettledForCause

-----------------------------------------------------------------------------
(* One worker, and an operator with nothing to retry *)

Took(v) == \E k \in DOMAIN applied : applied[k] = v

\* A page holds every version up to its last one that is not behind the
\* offset, and none that is, but for the one whose commit was not
\* acknowledged.
PassSound(p) ==
    /\ p.step \in {"idle", "resuming", "fetching"} \cup InEvents
    /\ p.step = "fetching" => p.cursor = offset
    /\ p.step \in InEvents =>
          /\ p.page \subseteq DOMAIN published
          /\ \A v \in Current, n \in p.page :
                v <= n => v <= offset \/ v \in p.page
          /\ \A n \in p.page :
                \/ offset < n
                \/ /\ n = offset /\ Took(n)
                   /\ p.step \in {"attempting", "failing"}

Sole(w) ==
    /\ Blocked = {}
    /\ \A i \in Operators : pass[i].step = "idle"
    /\ PassSound(pass[w])
    /\ offset <= Len(published)
    /\ Accounted

LEMMA InitSole ==
    ASSUME NEW w, Workers = {w}, Init, Unblocked
    PROVE  Sole(w)
<1>1. /\ pass = [i \in Instances |-> Idle] /\ w \in Instances
      /\ Operators \subseteq Instances /\ Idle.step = "idle"
  BY DEF Init, Idle, Instances
<1>2. published = <<>> /\ offset = 0
  <2>1. CASE published \in {<<e>> : e \in Events} /\ MaxSequence > 0
    <3>1. ~ (failures = [v \in Versions |-> IF v = 1 THEN "blocked" ELSE "none"])
      BY <2>1, ProcessorAssumption DEF Unblocked, Blocked, Versions
    <3> QED
      BY <3>1 DEF Init
  <2> QED
    BY <2>1 DEF Init
<1>3. PassSound(pass[w])
  BY <1>1 DEF PassSound, InEvents
<1>4. Accounted
  BY <1>2 DEF Accounted, Current
<1> QED
  BY <1>1, <1>2, <1>3, <1>4 DEF Sole, Unblocked

\* What a step of the worker owes.
LEMMA SoleStep ==
    ASSUME NEW w, Workers = {w}, IInv, Sole(w), NEW p \in Passes, Become(w, p),
           published' = published, Blocked' = {}, PassSound(p)',
           offset' <= Len(published), Accounted'
    PROVE  Sole(w)'
<1>1. w \in Instances /\ w \notin Operators /\ Operators \subseteq Instances
  BY ProcessorAssumption DEF Instances
<1>2. pass'[w] = p /\ \A i \in Operators : pass'[i] = pass[i]
  BY <1>1 DEF Become, IInv, TypeOK
<1> QED
  BY <1>2 DEF Sole

\* A step that reads, or fails, before or in an event.
LEMMA SoleReading ==
    ASSUME NEW w, Workers = {w}, IInv, Sole(w), NEW p \in Passes, Become(w, p),
           UNCHANGED <<published, database>>, PassSound(p)
    PROVE  Sole(w)'
<1>1. /\ published' = published /\ offset' = offset /\ applied' = applied
      /\ failures' = failures
  BY DEF database
<1>2. PassSound(p)'
  BY <1>1 DEF PassSound, Current, Took
<1>3. Accounted' /\ Blocked' = {}
  BY <1>1 DEF Sole, Accounted, Current, Done, Blocked
<1> QED
  BY <1>1, <1>2, <1>3, SoleStep DEF Sole

\* The version at hand is the next one behind the offset.
LEMMA NextVersion ==
    ASSUME NEW w \in Instances, IInv, PassSound(pass[w]), pass[w].step \in InEvents
    PROVE  /\ Version(w) \in pass[w].page
           /\ \A n \in pass[w].page : n \in Nat /\ Version(w) <= n
           /\ offset \in Nat /\ offset <= Version(w)
           /\ Version(w) <= Len(published)
           /\ \A v \in Current : v \in Nat
           /\ \A v \in Current :
                 v <= Version(w) => v <= offset \/ v = Version(w)
<1>1. /\ pass[w].page # {} /\ pass[w].page \subseteq DOMAIN published
      /\ offset \in Nat /\ DOMAIN published = 1..Len(published)
      /\ Len(published) \in Nat
  BY ProcessorAssumption DEF IInv, TypeOK, Equipped, InEvents, PassSound
<1>2. pass[w].page \in SUBSET Nat
  BY <1>1
<1>3. Version(w) \in pass[w].page /\ \A n \in pass[w].page : Version(w) <= n
  BY <1>1, <1>2, Lowest DEF Version
<1>4. \A v \in Current : v \in Nat
  BY <1>1 DEF Current
<1>5. \A v \in Current :
         v <= Version(w) => v <= offset \/ v = Version(w)
  BY <1>2, <1>3, <1>4 DEF PassSound
<1>6. offset <= Version(w)
  BY <1>1, <1>2, <1>3 DEF PassSound
<1> QED
  BY <1>1, <1>2, <1>3, <1>4, <1>5, <1>6

\* The event is behind the worker: it goes on with the rest of the page.
LEMMA NextEventSound ==
    ASSUME NEW w \in Instances, IInv, PassSound(pass[w]),
           pass[w].step \in InEvents, NextEvent(w),
           published' = published, offset' = Version(w)
    PROVE  \E p \in Passes : Become(w, p) /\ PassSound(p)'
<1> DEFINE rest == pass[w].page \ {Version(w)}
           q == [Idle EXCEPT !.step = "starting", !.page = rest]
<1>1. Become(w, IF rest = {} THEN Idle ELSE q)
  BY DEF NextEvent
<1>2. rest \subseteq Versions /\ rest \subseteq pass[w].page
  BY AtEvent DEF Passes
<1>3. Current' = Current /\ DOMAIN published' = DOMAIN published
  BY DEF Current
<1>4. \A n \in rest : offset' < n
  BY NextVersion
<1>5. \A v \in Current', n \in rest : v <= n => v <= offset' \/ v \in rest
  <2> SUFFICES ASSUME NEW v \in Current, NEW n \in rest, v <= n
               PROVE  v <= Version(w) \/ v \in rest
    BY <1>3
  <2>1. v <= offset \/ v \in pass[w].page
    BY <1>2 DEF PassSound
  <2>2. v \in Nat /\ offset \in Nat /\ offset <= Version(w) /\ Version(w) \in Nat
    BY NextVersion
  <2> QED
    BY <2>1, <2>2
<1>6. rest \subseteq DOMAIN published'
  BY <1>2, <1>3 DEF PassSound
<1> HIDE DEF rest
<1>7. q \in Passes /\ q.step = "starting" /\ q.page = rest
  BY <1>2, IdleIsPass DEF Passes, Idle, Steps
<1>8. Idle \in Passes /\ Idle.step = "idle"
  BY IdleIsPass DEF Idle
<1> HIDE DEF q
<1>9. CASE rest = {}
  <2>1. PassSound(Idle)'
    BY <1>8 DEF PassSound, InEvents
  <2> QED
    BY <1>1, <1>8, <1>9, <2>1
<1>10. CASE rest # {}
  <2>1. PICK p \in Passes : p = q /\ p.step = "starting" /\ p.page = rest
    BY <1>7
  <2>2. PassSound(p)'
    BY <1>4, <1>5, <1>6, <2>1 DEF PassSound, InEvents
  <2> QED
    BY <1>1, <1>10, <2>1, <2>2
<1> QED
  BY <1>9, <1>10

\* Or it does not learn that the event took effect.
LEMMA AnsweredSound ==
    ASSUME NEW w \in Instances, IInv, PassSound(pass[w]),
           pass[w].step \in InEvents, Answered(w),
           published' = published, NEW m, m = Version(w), offset' = m, Took(m)'
    PROVE  \E p \in Passes : Become(w, p) /\ PassSound(p)'
<1>1. CASE NextEvent(w)
  BY <1>1, NextEventSound
<1>2. CASE Become(w, [pass[w] EXCEPT !.step = "failing"])
  <2> DEFINE q == [pass[w] EXCEPT !.step = "failing"]
  <2>0. q \in Passes /\ q.step = "failing" /\ q.page = pass[w].page
    BY AtEvent DEF Passes, Steps
  <2>1. PICK p \in Passes : p = q /\ p.step = "failing" /\ p.page = pass[w].page
    BY <2>0
  <2>2. Current' = Current /\ DOMAIN published' = DOMAIN published
    BY DEF Current
  <2>3. Become(w, p)
    BY <1>2, <2>1
  <2> HIDE DEF q
  <2>4. \A n \in p.page : offset' < n \/ (n = offset' /\ Took(n)')
    BY <2>1, NextVersion
  <2>5. \A v \in Current', n \in p.page : v <= n => v <= offset' \/ v \in p.page
    <3> SUFFICES ASSUME NEW v \in Current, NEW n \in pass[w].page, v <= n
                 PROVE  v <= Version(w) \/ v \in pass[w].page
      BY <2>1, <2>2
    <3>1. v <= offset \/ v \in pass[w].page
      BY DEF PassSound
    <3>2. v \in Nat /\ offset \in Nat /\ offset <= Version(w) /\ Version(w) \in Nat
      BY NextVersion
    <3> QED
      BY <3>1, <3>2
  <2>6. p.page \subseteq DOMAIN published'
    BY <2>1, <2>2 DEF PassSound
  <2>7. PassSound(p)'
    BY <2>1, <2>4, <2>5, <2>6 DEF PassSound, InEvents
  <2> QED
    BY <2>1, <2>3, <2>7
<1> QED
  BY <1>1, <1>2 DEF Answered

\* The offset moves to the version at hand, which is done.
LEMMA AccountedStep ==
    ASSUME NEW w \in Instances, IInv, PassSound(pass[w]),
           pass[w].step \in InEvents, Accounted,
           published' = published, NEW m, m = Version(w), offset' = m, Done(m)',
           \A v \in Current : v <= offset /\ Done(v) => Done(v)'
    PROVE  Accounted'
<1>1. Current' = Current
  BY DEF Current
<1> SUFFICES ASSUME NEW v \in Current, v <= m PROVE Done(v)'
  BY <1>1 DEF Accounted
<1>2. v <= offset \/ v = m
  BY NextVersion
<1> QED
  BY <1>2 DEF Accounted

LEMMA FetchSole ==
    ASSUME NEW w, Workers = {w}, IInv, Sole(w), FetchPage(w)
    PROVE  Sole(w)'
<1> DEFINE found == PageAfter(offset)
           q == [Idle EXCEPT !.step = "starting", !.page = found]
<1>1. /\ offset \in 0..MaxSequence /\ published \in Seq(Events)
      /\ Len(published) <= MaxSequence /\ pass[w].cursor = offset
      /\ DOMAIN published = 1..Len(published) /\ Len(published) \in Nat
      /\ BatchSize \in Nat /\ MaxSequence \in Nat
  BY ProcessorAssumption DEF FetchPage, At, IInv, TypeOK, Sole, PassSound
<1>2. /\ Become(w, IF found = {} THEN Idle ELSE q)
      /\ UNCHANGED <<published, database>>
  BY <1>1 DEF FetchPage
<1>3. found \subseteq Versions
  BY <1>1, PageAfterType
<1>4. Current \in SUBSET (1..Len(published)) /\ Current \subseteq DOMAIN published
  BY <1>1 DEF Current
<1> DEFINE above == {v \in Current : v > offset}
           Below(n) == {v \in above : v < n}
<1>5. found = {n \in above : Cardinality(Below(n)) < BatchSize}
  BY DEF PageAfter
<1>6. \A n \in found : offset < n /\ n \in DOMAIN published
  BY <1>1, <1>4, <1>5
<1>7. \A v \in Current, n \in found : v <= n => v <= offset \/ v \in found
  <2> SUFFICES ASSUME NEW v \in Current, NEW n \in found, v <= n, ~ (v <= offset)
               PROVE  v \in found
    OBVIOUS
  <2>1. v \in above /\ n \in above /\ v \in Nat /\ n \in Nat
    BY <1>1, <1>4, <1>5
  <2>2. IsFiniteSet(above)
    <3>1. above \subseteq 1..Len(published)
      BY <1>4
    <3> HIDE DEF above
    <3>2. IsFiniteSet(1..Len(published))
      BY <1>1, FS_Interval
    <3> QED
      BY <3>1, <3>2, FS_Subset
  <2>3. Below(v) \subseteq Below(n) /\ Below(n) \subseteq above
    <3>1. \A x \in above : x \in Nat
      BY <1>4
    <3> HIDE DEF above
    <3>2. ASSUME NEW x \in Below(v)
          PROVE  x \in Below(n)
      <4>1. x \in above /\ x < v /\ x \in Nat
        BY <3>1
      <4>2. x < n
        BY <2>1, <4>1
      <4> QED
        BY <4>1, <4>2
    <3> QED
      BY <3>2
  <2> HIDE DEF above, Below
  <2>4. IsFiniteSet(Below(n)) /\ IsFiniteSet(Below(v))
    BY <2>2, <2>3, FS_Subset
  <2>5. Cardinality(Below(v)) <= Cardinality(Below(n))
    BY <2>3, <2>4, FS_Subset
  <2>6. Cardinality(Below(v)) \in Nat /\ Cardinality(Below(n)) \in Nat
    BY <2>4, FS_CardinalityType
  <2>7. Cardinality(Below(n)) < BatchSize
    BY <1>5
  <2>8. Cardinality(Below(v)) < BatchSize
    BY <2>5, <2>6, <2>7, <1>1
  <2> HIDE DEF found
  <2> QED
    BY <2>1, <2>8, <1>5
<1> HIDE DEF found
<1>8. CASE found = {}
  <2>1. Idle \in Passes /\ Idle.step = "idle"
    BY IdleIsPass DEF Idle
  <2>2. PassSound(Idle) /\ Become(w, Idle)
    BY <1>2, <1>8, <2>1 DEF PassSound, InEvents
  <2> QED
    BY <1>2, <2>1, <2>2, SoleReading
<1>9. CASE found # {}
  <2>1. q \in Passes /\ q.step = "starting" /\ q.page = found
    BY <1>3, IdleIsPass DEF Passes, Idle, Steps
  <2>2. Become(w, q)
    BY <1>2, <1>9
  <2> HIDE DEF q
  <2>3. PassSound(q)
    BY <1>6, <1>7, <2>1 DEF PassSound, InEvents
  <2> QED
    BY <1>2, <2>1, <2>2, <2>3, SoleReading
<1> QED
  BY <1>8, <1>9

LEMMA ReadingSole ==
    ASSUME NEW w, Workers = {w}, IInv, Sole(w),
           \/ FindBlocked(w) \/ Resume(w) \/ StartEvent(w) \/ Reject(w)
           \/ Fail(w) \/ Abandon(w)
    PROVE  Sole(w)'
<1>1. /\ w \in Instances /\ w \in Workers /\ pass[w] \in Passes
      /\ offset \in 0..MaxSequence
  BY DEF Instances, IInv, TypeOK
<1>2. UNCHANGED <<published, database>>
  BY DEF FindBlocked, Resume, StartEvent, Reject, Fail, Abandon
<1>3. CASE FindBlocked(w)
  <2> DEFINE q == [Idle EXCEPT !.step = "resuming"]
  <2>1. q \in Passes /\ q.step = "resuming"
    BY IdleIsPass DEF Passes, Idle, Steps
  <2>2. Become(w, q)
    BY <1>3 DEF FindBlocked, Sole
  <2> HIDE DEF q
  <2> QED
    BY <1>2, <2>1, <2>2, SoleReading DEF PassSound, InEvents
<1>4. CASE Resume(w)
  <2> DEFINE q == [Idle EXCEPT !.step = "fetching", !.cursor = offset]
  <2>1. q \in Passes /\ q.step = "fetching" /\ q.cursor = offset
    BY <1>1, IdleIsPass DEF Passes, Idle, Steps
  <2>2. Become(w, q)
    BY <1>4 DEF Resume
  <2> HIDE DEF q
  <2> QED
    BY <1>2, <2>1, <2>2, SoleReading DEF PassSound, InEvents
<1>5. CASE StartEvent(w)
  <2> DEFINE v == Version(w)
             q == [pass[w] EXCEPT
                     !.step = "attempting",
                     !.known = failures[v],
                     !.tries = IF failures[v] = "retrying"
                               THEN attemptCount[v] ELSE 0]
  <2>1. v \in Versions /\ pass[w].step = "starting"
    BY <1>1, <1>5, AtEvent DEF StartEvent, At, InEvents
  <2>2. failures[v] # "blocked"
    BY <2>1 DEF Sole, Blocked
  <2>3. Become(w, q)
    BY <1>5, <2>2 DEF StartEvent
  <2> HIDE DEF v
  <2>4. q \in Passes /\ q.step = "attempting" /\ q.page = pass[w].page
    BY <1>1, <2>1 DEF Passes, Steps, IInv, TypeOK
  <2> HIDE DEF q
  <2>5. PassSound(q)
    BY <2>1, <2>4 DEF Sole, PassSound, InEvents
  <2> QED
    BY <1>2, <2>3, <2>4, <2>5, SoleReading
<1>6. CASE Reject(w)
  <2> DEFINE q == [pass[w] EXCEPT !.step = "rejecting"]
  <2>1. q \in Passes /\ q.step = "rejecting" /\ q.page = pass[w].page
    BY <1>1 DEF Passes, Steps
  <2>2. Become(w, q) /\ pass[w].step = "attempting" /\ ~ AlreadyProcessed(w)
    BY <1>6 DEF Reject, At
  <2> HIDE DEF q
  <2>3. \A n \in pass[w].page : offset < n
    BY <1>1, <2>2, NextVersion DEF Sole, AlreadyProcessed, InEvents
  <2>4. PassSound(q)
    BY <2>1, <2>2, <2>3 DEF Sole, PassSound, InEvents
  <2> QED
    BY <1>2, <2>1, <2>2, <2>4, SoleReading
<1>7. CASE Fail(w)
  <2> DEFINE q == [pass[w] EXCEPT !.step = "failing"]
  <2>1. q \in Passes /\ q.step = "failing" /\ q.page = pass[w].page
    BY <1>1 DEF Passes, Steps
  <2>2. Become(w, q) /\ pass[w].step = "attempting"
    BY <1>7 DEF Fail, At
  <2> HIDE DEF q
  <2>3. PassSound(q)
    BY <2>1, <2>2 DEF Sole, PassSound, InEvents
  <2> QED
    BY <1>2, <2>1, <2>2, <2>3, SoleReading
<1>8. CASE Abandon(w)
  <2>1. Idle \in Passes /\ Idle.step = "idle" /\ Become(w, Idle)
    BY <1>8, IdleIsPass DEF Idle, Abandon
  <2> QED
    BY <1>2, <2>1, SoleReading DEF PassSound, InEvents
<1> QED
  BY <1>3, <1>4, <1>5, <1>6, <1>7, <1>8

\* A version that was processed already was this worker's.
LEMMA SkipSole ==
    ASSUME NEW w, Workers = {w}, IInv, Sole(w), Skip(w)
    PROVE  Sole(w)'
<1>1. w \in Instances /\ pass[w].step = "attempting" /\ pass[w].step \in InEvents
  BY DEF Instances, Skip, At, InEvents
<1>2. PICK m : m = Version(w)
  OBVIOUS
<1>3. m \in Versions /\ m \in pass[w].page /\ PassSound(pass[w])
  BY <1>1, <1>2, AtEvent DEF Sole
<1>4. m <= Len(published) /\ offset <= m /\ m \in Nat /\ offset \in Nat
  BY <1>1, <1>2, <1>3, NextVersion
<1>5. offset = m /\ Took(m)
  BY <1>1, <1>2, <1>3, <1>4 DEF Skip, AlreadyProcessed, PassSound
<1>6. /\ published' = published /\ offset' = m /\ applied' = applied
      /\ \A v \in Versions : v # m => failures'[v] = failures[v]
      /\ \A v \in Versions : failures'[v] \in {failures[v], "superseded"}
  BY <1>2, <1>3, <1>5 DEF Skip, IInv, TypeOK
<1>7. Took(m)'
  BY <1>5, <1>6 DEF Took
<1>8. PICK p \in Passes : Become(w, p) /\ PassSound(p)'
  BY <1>1, <1>2, <1>3, <1>6, <1>7, AnsweredSound DEF Skip
<1>9. Current \subseteq Versions
  BY ProcessorAssumption DEF Current, Versions, IInv, TypeOK
<1>10. Accounted'
  <2>1. Done(m)'
    BY <1>7 DEF Done, Took
  <2>2. \A v \in Current : v <= offset /\ Done(v) => Done(v)'
    BY <2>1, <1>6, <1>9 DEF Done
  <2> QED
    BY <1>1, <1>2, <1>3, <1>6, <2>1, <2>2, AccountedStep DEF Sole
<1>11. Blocked' = {}
  BY <1>6 DEF Sole, Blocked
<1> QED
  BY <1>4, <1>6, <1>8, <1>10, <1>11, SoleStep

LEMMA ApplySole ==
    ASSUME NEW w, Workers = {w}, IInv, Sole(w), Apply(w)
    PROVE  Sole(w)'
<1>1. w \in Instances /\ pass[w].step \in InEvents
  BY DEF Instances, Apply, At, InEvents
<1>2. PICK m : m = Version(w)
  OBVIOUS
<1>3. m \in Versions /\ m \in pass[w].page /\ PassSound(pass[w])
  BY <1>1, <1>2, AtEvent DEF Sole
<1>4. /\ m <= Len(published) /\ m \in Nat /\ offset \in Nat
      /\ published \in Seq(Events) /\ applied \in Seq(Versions)
  BY <1>1, <1>2, <1>3, NextVersion DEF IInv, TypeOK
<1>5. /\ published' = published /\ offset' = m /\ applied' = Append(applied, m)
      /\ offset < m
  BY <1>2, <1>4 DEF Apply, AlreadyProcessed
<1>6. /\ DOMAIN applied' = 1..(Len(applied) + 1)
      /\ DOMAIN applied = 1..Len(applied) /\ Len(applied) \in Nat
      /\ applied'[Len(applied) + 1] = m
      /\ \A k \in DOMAIN applied : k \in DOMAIN applied' /\ applied'[k] = applied[k]
  BY <1>3, <1>4, <1>5
<1>7. Took(m)'
  BY <1>6 DEF Took
<1>8. PICK p \in Passes : Become(w, p) /\ PassSound(p)'
  BY <1>1, <1>2, <1>3, <1>5, <1>7, AnsweredSound DEF Apply
<1>9. Current \in SUBSET Versions /\ Current \subseteq DOMAIN published
  BY ProcessorAssumption DEF Current, Versions, IInv, TypeOK
<1>10. /\ failures \in [Versions -> States]
       /\ \A v \in Versions :
             /\ failures'[v] \in {failures[v], "resolved", "superseded"}
             /\ v # m /\ (v \in DOMAIN published => published[v] # published[m])
                   => failures'[v] = failures[v]
  BY <1>2, <1>3 DEF Apply, Settled, IInv, TypeOK
<1>11. Accounted'
  <2>1. Done(m)'
    BY <1>7 DEF Done, Took
  <2>2. ASSUME NEW v \in Current, v <= offset, Done(v)
        PROVE  Done(v)'
    <3>1. m \in DOMAIN published
      BY <1>1, <1>3 DEF PassSound
    <3>2. v \in Nat /\ v \in DOMAIN published
      BY <1>9 DEF Versions
    <3>3. ~ (m <= v)
      BY <2>2, <3>2, <1>4, <1>5
    <3>4. published[v] # published[m] /\ v # m
      BY <3>1, <3>2, <3>3, <1>4 DEF Current
    <3>5. failures'[v] = failures[v]
      BY <3>4, <1>9, <1>10
    <3> QED
      BY <2>2, <3>5, <1>6 DEF Done
  <2> QED
    BY <1>1, <1>2, <1>3, <1>5, <2>1, <2>2, AccountedStep DEF Sole
<1>12. Blocked' = {}
  BY <1>10 DEF Sole, Blocked
<1> QED
  BY <1>4, <1>5, <1>8, <1>11, <1>12, SoleStep

LEMMA RejectionSole ==
    ASSUME NEW w, Workers = {w}, IInv, Sole(w), RecordRejection(w)
    PROVE  Sole(w)'
<1>1. w \in Instances /\ pass[w].step = "rejecting" /\ pass[w].step \in InEvents
  BY DEF Instances, RecordRejection, At, InEvents
<1>2. PICK m : m = Version(w)
  OBVIOUS
<1>3. m \in Versions /\ m \in pass[w].page /\ PassSound(pass[w])
  BY <1>1, <1>2, AtEvent DEF Sole
<1>4. m <= Len(published) /\ offset <= m /\ m \in Nat /\ offset \in Nat
  BY <1>1, <1>2, <1>3, NextVersion
<1>5. offset < m
  BY <1>1, <1>3 DEF PassSound
<1>6. /\ published' = published /\ offset' = m /\ applied' = applied
      /\ failures' = [failures EXCEPT ![m] = "quarantined"]
  BY <1>2, <1>4, <1>5, Higher DEF RecordRejection
<1>7. /\ failures'[m] = "quarantined"
      /\ \A v \in Versions : v # m => failures'[v] = failures[v]
  BY <1>3, <1>6 DEF IInv, TypeOK
<1>8. PICK p \in Passes : Become(w, p) /\ PassSound(p)'
  BY <1>1, <1>2, <1>3, <1>6, NextEventSound DEF RecordRejection
<1>9. Current \subseteq Versions
  BY ProcessorAssumption DEF Current, Versions, IInv, TypeOK
<1>10. Accounted'
  <2>1. Done(m)'
    BY <1>7 DEF Done
  <2>2. \A v \in Current : v <= offset /\ Done(v) => Done(v)'
    BY <2>1, <1>6, <1>7, <1>9 DEF Done
  <2> QED
    BY <1>1, <1>2, <1>3, <1>6, <2>1, <2>2, AccountedStep DEF Sole
<1>11. Blocked' = {}
  BY <1>7 DEF Sole, Blocked
<1> QED
  BY <1>4, <1>6, <1>8, <1>10, <1>11, SoleStep

\* The record of a failure overwrites no quarantine of a version behind the
\* offset: what failed is ahead of it, or took effect.
LEMMA FailureSole ==
    ASSUME NEW w, Workers = {w}, IInv, Sole(w), RecordFailure(w)
    PROVE  Sole(w)'
<1> DEFINE q == [pass[w] EXCEPT !.step = "attempting", !.known = "retrying",
                                !.tries = @ + 1, !.attempts = @ + 1]
<1>1. w \in Instances /\ pass[w].step = "failing" /\ pass[w].step \in InEvents
  BY DEF Instances, RecordFailure, At, InEvents
<1>2. PICK m : m = Version(w)
  OBVIOUS
<1>3. /\ m \in Versions /\ m \in pass[w].page /\ PassSound(pass[w])
      /\ pass[w] \in Passes
  BY <1>1, <1>2, AtEvent DEF Sole
<1>4. offset \in Nat /\ m \in Nat /\ (offset < m \/ Took(m))
  BY <1>1, <1>2, <1>3, NextVersion DEF PassSound
<1>5. /\ published' = published /\ offset' = offset /\ applied' = applied
      /\ failures' = [failures EXCEPT ![m] = "retrying"]
      /\ Become(w, IF LastAttempt(w) THEN Idle ELSE q)
  BY <1>2 DEF RecordFailure, HoldLine
<1>6. q \in Passes /\ q.step = "attempting" /\ q.page = pass[w].page
  <2>1. pass[w].tries + 1 \in Nat /\ pass[w].attempts + 1 \in Nat
    BY <1>3 DEF Passes
  <2>2. "attempting" \in Steps /\ "retrying" \in States
    BY DEF Steps, States
  <2>3. q = [pass[w] EXCEPT !.step = "attempting", !.known = "retrying",
                            !.tries = pass[w].tries + 1,
                            !.attempts = pass[w].attempts + 1]
    OBVIOUS
  <2> HIDE DEF q
  <2> QED
    BY <1>3, <2>1, <2>2, <2>3 DEF Passes
<1> HIDE DEF q
<1>7. Idle \in Passes /\ Idle.step = "idle"
  BY IdleIsPass DEF Idle
<1>8. PICK p \in Passes :
         /\ Become(w, p)
         /\ p.step = "idle" \/ (p.step = "attempting" /\ p.page = pass[w].page)
  BY <1>5, <1>6, <1>7
<1>9. PassSound(p)
  BY <1>1, <1>3, <1>8 DEF PassSound, InEvents
<1>10. PassSound(p)'
  BY <1>5, <1>9 DEF PassSound, Current, Took
<1>11. \A v \in Versions :
          failures'[v] = IF v = m THEN "retrying" ELSE failures[v]
  BY <1>3, <1>5 DEF IInv, TypeOK
<1>12. Accounted'
  <2> SUFFICES ASSUME NEW v \in Current, v <= offset
               PROVE  Done(v)'
    BY <1>5 DEF Accounted, Current
  <2>1. Done(v) /\ v \in Versions
    BY ProcessorAssumption DEF Sole, Accounted, Current, Versions, IInv, TypeOK
  <2>2. v = m => Took(v)
    BY <1>4
  <2> QED
    BY <2>1, <2>2, <1>5, <1>11 DEF Done, Took
<1>13. Blocked' = {}
  BY <1>11 DEF Sole, Blocked
<1> QED
  BY <1>5, <1>8, <1>10, <1>12, <1>13, SoleStep DEF Sole

\* A version that is rewritten leaves the feed; its successor is ahead.
LEMMA EnvironmentSole ==
    ASSUME NEW w, Workers = {w}, IInv, Sole(w),
           (\E e \in Events : Rewrite(e)) \/ Release
    PROVE  Sole(w)'
<1>1. /\ offset' = offset /\ applied' = applied /\ failures' = failures
      /\ pass' = pass
  BY DEF Rewrite, Release, database
<1>2. published \in Seq(Events) /\ Len(published) \in Nat /\ offset \in Nat
  BY ProcessorAssumption DEF IInv, TypeOK
<1>3. /\ Len(published) <= Len(published') /\ Len(published') \in Nat
      /\ DOMAIN published' = 1..Len(published')
      /\ \A v \in 1..Len(published) : published'[v] = published[v]
  <2>1. CASE Release
    BY <2>1, <1>2 DEF Release
  <2>2. ASSUME NEW e \in Events, Rewrite(e)
        PROVE  /\ Len(published) <= Len(published') /\ Len(published') \in Nat
               /\ DOMAIN published' = 1..Len(published')
               /\ \A v \in 1..Len(published) : published'[v] = published[v]
    BY <2>2, <1>2 DEF Rewrite
  <2> QED
    BY <2>1, <2>2
<1>4. \A v \in Current' : v <= Len(published) => v \in Current
  BY <1>2, <1>3 DEF Current
<1>5. \A v \in Current' : v \in Nat
  BY <1>3 DEF Current
<1>6. PassSound(pass[w])'
  <2>1. PassSound(pass[w])
    BY DEF Sole
  <2>2. ASSUME pass[w].step \in InEvents, NEW v \in Current', NEW n \in pass[w].page,
               v <= n
        PROVE  v <= offset \/ v \in pass[w].page
    <3>1. n \in 1..Len(published)
      BY <2>1, <2>2, <1>2 DEF PassSound
    <3>2. v \in Current
      BY <2>2, <3>1, <1>2, <1>4, <1>5
    <3> QED
      BY <2>1, <2>2, <3>2 DEF PassSound
  <2>3. pass[w].step \in InEvents => pass[w].page \subseteq DOMAIN published'
    BY <2>1, <1>2, <1>3 DEF PassSound
  <2> QED
    BY <1>1, <2>1, <2>2, <2>3 DEF PassSound, Took
<1>7. Accounted'
  <2> SUFFICES ASSUME NEW v \in Current', v <= offset
               PROVE  Done(v)'
    BY <1>1 DEF Accounted
  <2>1. v \in Current
    BY <1>2, <1>4, <1>5 DEF Sole
  <2> QED
    BY <2>1, <1>1 DEF Sole, Accounted, Done
<1> QED
  BY <1>1, <1>2, <1>3, <1>6, <1>7 DEF Sole, Blocked

LEMMA NextSole ==
    ASSUME NEW w, Workers = {w}, IInv, Sole(w), [Next]_vars
    PROVE  Sole(w)'
<1>1. CASE UNCHANGED vars
  BY <1>1 DEF vars, database, Sole, PassSound, Took, Accounted, Done, Current,
              Blocked
<1>2. ASSUME NEW i \in Instances,
             Pass(i) \/ Fail(i) \/ FindBlockedToRetry(i) \/ Abandon(i)
      PROVE  Sole(w)'
  <2>1. i = w
    BY <1>2 DEF Sole, Instances, Pass, At, Blocked, FindBlocked, ReadOffset,
                ScanPage, MarkFailureSuperseded, RecheckBlocked, Resume, FetchPage,
                StartEvent, Skip, Apply, Reject, RecordRejection, RecordFailure,
                SaveRetrying, Fail, FindBlockedToRetry, Abandon
  <2>2. \/ FindBlocked(w) \/ Resume(w) \/ FetchPage(w) \/ StartEvent(w)
        \/ Skip(w) \/ Apply(w) \/ Reject(w) \/ Fail(w) \/ Abandon(w)
        \/ RecordRejection(w) \/ RecordFailure(w)
    BY <1>2, <2>1
       DEF Pass, Sole, PassSound, InEvents, At, ReadOffset, ScanPage,
           MarkFailureSuperseded, RecheckBlocked, SaveRetrying,
           FindBlockedToRetry
  <2> QED
    BY <2>2, FetchSole, ReadingSole, SkipSole, ApplySole, RejectionSole,
       FailureSole
<1>3. CASE (\E e \in Events : Rewrite(e)) \/ Release
  BY <1>3, EnvironmentSole
<1> QED
  BY <1>1, <1>2, <1>3 DEF Next

\* One worker loses no event, whatever fails and however often its commits
\* are not acknowledged: what is behind the offset took effect or is on record
\* as quarantined (processEventWithRetries, recordEventFailure).
THEOREM NothingLost ==
    ASSUME NEW w, Workers = {w}
    PROVE  Spec => NothingSkipped
<1>1. Init /\ Unblocked => Sole(w)
  BY InitSole
<1>2. IInv /\ Sole(w) /\ [Next]_vars => Sole(w)'
  BY NextSole
<1>3. Sole(w) => Accounted
  BY DEF Sole
<1> QED
  BY <1>1, <1>2, <1>3, Inductive, PTL DEF Spec, NothingSkipped
=============================================================================
