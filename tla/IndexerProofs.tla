---------------------------- MODULE IndexerProofs ----------------------------
(***************************************************************************)
(* The event store against the archive, for every tree of blocks and every *)
(* interleaving of the passes with it.                                     *)
(***************************************************************************)
EXTENDS Indexer, FiniteSetTheorems, WellFoundedInduction, TLAPS

-----------------------------------------------------------------------------
(* The tree.  A branch is the least closed set, so a closed set that has a *)
(* block is an induction hypothesis for the block's ancestors.             *)

LEMMA BranchLeast ==
    ASSUME NEW b \in Blocks, NEW S \in SUBSET Blocks, b \in S, ClosedUnderParent(S)
    PROVE  Branch[b] \subseteq S
BY DEF Branch

LEMMA BranchSelf ==
    ASSUME NEW b \in Blocks
    PROVE  b \in Branch[b] /\ Branch[b] \in SUBSET Blocks
BY DEF Branch

LEMMA BranchClosed ==
    ASSUME NEW b \in Blocks
    PROVE  ClosedUnderParent(Branch[b])
<1> SUFFICES ASSUME NEW a \in Branch[b] \ {Root}
             PROVE  Parent[a] \in Branch[b]
  BY DEF ClosedUnderParent
<1>1. a \in Blocks /\ Parent[a] \in Blocks
  BY IndexerAssumption, BranchSelf
<1>2. ASSUME NEW S \in SUBSET Blocks, b \in S, ClosedUnderParent(S)
      PROVE  Parent[a] \in S
  <2>1. a \in S
    BY <1>2, BranchLeast
  <2> QED
    BY <2>1, <1>2 DEF ClosedUnderParent
<1> QED
  BY <1>1, <1>2 DEF Branch

LEMMA BranchOfAncestor ==
    ASSUME NEW b \in Blocks, NEW a \in Branch[b]
    PROVE  a \in Blocks /\ Branch[a] \subseteq Branch[b]
BY BranchSelf, BranchClosed, BranchLeast

LEMMA BranchStep ==
    ASSUME NEW b \in Blocks \ {Root}
    PROVE  Parent[b] \in Blocks /\ Branch[b] = {b} \cup Branch[Parent[b]]
<1>1. Parent[b] \in Blocks /\ Parent[b] \in Branch[b]
  BY IndexerAssumption, BranchSelf, BranchClosed DEF ClosedUnderParent
<1> DEFINE S == {b} \cup Branch[Parent[b]]
<1>2. S \in SUBSET Blocks /\ b \in S
  BY <1>1, BranchSelf
<1>3. ClosedUnderParent(S)
  BY <1>1, BranchSelf, BranchClosed DEF ClosedUnderParent
<1>4. Branch[b] \subseteq S
  <2> HIDE DEF S
  <2> QED
    BY <1>2, <1>3, BranchLeast
<1>5. S \subseteq Branch[b]
  BY <1>1, BranchSelf, BranchOfAncestor
<1> QED
  BY <1>1, <1>4, <1>5

LEMMA BranchRoot == Branch[Root] = {Root}
<1>1. ClosedUnderParent({Root}) /\ Root \in Blocks
  BY IndexerAssumption DEF ClosedUnderParent
<1> QED
  BY <1>1, BranchLeast, BranchSelf

LEMMA AncestorLower ==
    ASSUME NEW b \in Blocks, NEW a \in Branch[b]
    PROVE  a = b \/ Height[a] < Height[b]
<1> DEFINE S == {x \in Blocks : x = b \/ Height[x] < Height[b]}
<1>1. ClosedUnderParent(S)
  <2> SUFFICES ASSUME NEW x \in S \ {Root}
               PROVE  Parent[x] \in S
    BY DEF ClosedUnderParent
  <2>1. /\ x \in Blocks \ {Root} /\ Parent[x] \in Blocks
        /\ Height[x] = Height[Parent[x]] + 1
        /\ Height[x] \in Nat /\ Height[b] \in Nat /\ Height[Parent[x]] \in Nat
    BY IndexerAssumption
  <2>2. Height[x] <= Height[b]
    BY <2>1
  <2> QED
    BY <2>1, <2>2
<1>2. S \in SUBSET Blocks /\ b \in S
  OBVIOUS
<1>3. a \in S
  <2> HIDE DEF S
  <2> QED
    BY <1>1, <1>2, BranchLeast
<1> QED
  BY <1>3

LEMMA BranchLinear ==
    ASSUME NEW b \in Blocks, NEW a \in Branch[b], NEW c \in Branch[b]
    PROVE  a \in Branch[c] \/ c \in Branch[a]
<1> DEFINE S == {x \in Blocks : x \in Branch[a] \/ a \in Branch[x]}
<1>1. a \in Blocks /\ c \in Blocks
  BY BranchSelf
<1>2. ClosedUnderParent(S)
  <2> SUFFICES ASSUME NEW x \in S \ {Root}
               PROVE  Parent[x] \in S
    BY DEF ClosedUnderParent
  <2>1. x \in Blocks \ {Root} /\ Parent[x] \in Blocks
    BY IndexerAssumption
  <2>2. CASE x \in Branch[a]
    BY <1>1, <2>1, <2>2, BranchClosed DEF ClosedUnderParent
  <2>3. CASE a \in Branch[x] /\ x \notin Branch[a]
    <3>1. a # x
      BY <1>1, <2>3, BranchSelf
    <3>2. a \in Branch[Parent[x]]
      BY <2>1, <2>3, <3>1, BranchStep
    <3> QED
      BY <2>1, <3>2
  <2> QED
    BY <2>2, <2>3
<1>3. S \in SUBSET Blocks /\ b \in S
  OBVIOUS
<1>4. c \in S
  <2> HIDE DEF S
  <2> QED
    BY <1>2, <1>3, BranchLeast
<1> QED
  BY <1>4

\* Of two blocks of a branch the lower one is an ancestor of the other.
LEMMA LowerIsAncestor ==
    ASSUME NEW b \in Blocks, NEW a \in Branch[b], NEW c \in Branch[b],
           Height[a] <= Height[c]
    PROVE  a \in Branch[c]
<1>1. /\ a \in Blocks /\ c \in Blocks
      /\ Height[a] \in Nat /\ Height[c] \in Nat
  BY IndexerAssumption, BranchSelf
<1>2. c \in Branch[a] => a = c
  BY <1>1, AncestorLower
<1> QED
  BY <1>1, <1>2, BranchLinear, BranchSelf

LEMMA OnePerHeight ==
    ASSUME NEW b \in Blocks, NEW a \in Branch[b], NEW c \in Branch[b],
           Height[a] = Height[c]
    PROVE  a = c
<1>1. /\ a \in Blocks /\ c \in Blocks
      /\ Height[a] \in Nat /\ Height[c] \in Nat
  BY IndexerAssumption, BranchSelf
<1>2. a \in Branch[c]
  BY <1>1, LowerIsAncestor
<1> QED
  BY <1>1, <1>2, AncestorLower

-----------------------------------------------------------------------------
(* Numbers *)

LEMMA HigherOfTwo ==
    ASSUME NEW a \in Int, NEW b \in Int
    PROVE  Max({a, b}) = IF a >= b THEN a ELSE b
BY DEF Max

LEMMA LowerOfTwo ==
    ASSUME NEW a \in Int, NEW b \in Int
    PROVE  Min({a, b}) = IF a <= b THEN a ELSE b
BY DEF Min

LEMMA LowestOfSome ==
    ASSUME NEW S \in SUBSET Nat, S # {}
    PROVE  \E x \in S : \A y \in S : x <= y
<1>1. PICK x \in S : \A y \in S : ~ (<<y, x>> \in OpToRel(<, Nat))
  BY NatLessThanWellFounded, WFMin, Zenon
<1>2. ASSUME NEW y \in S
      PROVE  x <= y
  <2>1. <<y, x>> \in Nat \X Nat /\ <<y, x>>[1] = y /\ <<y, x>>[2] = x
    OBVIOUS
  <2>2. ~ (y < x)
    BY <1>1, <2>1, Zenon DEF OpToRel
  <2> QED
    BY <2>1, <2>2
<1> QED
  BY <1>2

LEMMA HighestOfSome ==
    ASSUME NEW S \in SUBSET Nat, S # {}, NEW n \in Nat, \A x \in S : x <= n
    PROVE  Max(S) \in S /\ \A x \in S : x <= Max(S)
<1> DEFINE T == {n - x : x \in S}
<1>1. T \in SUBSET Nat /\ T # {}
  <2>1. \A x \in S : n - x \in Nat
    OBVIOUS
  <2> QED
    BY <2>1
<1>2. PICK m \in T : \A k \in T : m <= k
  <2> HIDE DEF T
  <2> QED
    BY <1>1, LowestOfSome
<1>3. PICK x \in S : m = n - x
  BY <1>2
<1>4. \A y \in S : x >= y
  <2> SUFFICES ASSUME NEW y \in S
               PROVE  x >= y
    OBVIOUS
  <2>1. n - x <= n - y
    BY <1>2, <1>3
  <2> QED
    BY <2>1
<1> QED
  BY <1>4 DEF Max

\* The highest block at hand is not below the canonical one.
LEMMA MaxHeightType ==
    ASSUME canonical \in Blocks, known \subseteq Blocks
    PROVE  MaxHeight \in Nat /\ Height[canonical] <= MaxHeight
<1> DEFINE S == {Height[b] : b \in PendingBlocks \cup {canonical}}
<1>1. PICK top \in Blocks : \A b \in Blocks : Height[b] <= Height[top]
  BY IndexerAssumption
<1>2. PendingBlocks \subseteq Blocks /\ \A b \in Blocks : Height[b] \in Nat
  BY IndexerAssumption DEF PendingBlocks
<1>3. S \in SUBSET Nat /\ Height[canonical] \in S /\ \A x \in S : x <= Height[top]
  BY <1>1, <1>2
<1>4. Height[top] \in Nat
  BY <1>2
<1>5. MaxHeight = Max(S)
  BY DEF MaxHeight
<1> HIDE DEF S
<1> QED
  BY <1>3, <1>4, <1>5, HighestOfSome

-----------------------------------------------------------------------------
(* What holds at the start, and what leaves the store alone *)

LEMMA InitIInv == Init => IInv
<1> SUFFICES ASSUME Init PROVE IInv
  OBVIOUS
<1>1. TypeOK
  BY IndexerAssumption
     DEF Init, TypeOK, Rows, Absent, Cursors, None, NoSnapshot, NoSync, NoSweep
<1>2. ClosedUnderParent(known)
  BY DEF Init, ClosedUnderParent
<1>3. SnapshotSound /\ SyncSound
  BY DEF Init, SnapshotSound, SyncSound, NoSnapshot, NoSync
<1>4. cursor["canonical"] = -1
  BY DEF Init, Cursors, None
<1>5. StoreSound
  BY <1>4, IndexerAssumption DEF Init, StoreSound, Absent
<1>6. CursorCovered
  BY <1>4, IndexerAssumption DEF CursorCovered
<1> QED
  BY <1>1, <1>2, <1>3, <1>5, <1>6 DEF IInv

\* A step of the snapshot that only reads.
LEMMA SnapshotFrame ==
    ASSUME IInv, TypeOK', UNCHANGED <<archive, database, sync>>, SnapshotSound'
    PROVE  IInv'
<1>1. /\ known' = known /\ canonical' = canonical /\ store' = store
      /\ rejections' = rejections /\ cursor' = cursor /\ sync' = sync
  BY DEF archive, database
<1>2. ClosedUnderParent(known)' /\ SyncSound' /\ StoreSound' /\ CursorCovered'
  BY <1>1 DEF IInv, ClosedUnderParent, SyncSound, SyncTo, StoreSound, CursorCovered
<1> QED
  BY <1>2 DEF IInv

\* A step of the canonical pass that only reads.
LEMMA SyncFrame ==
    ASSUME IInv, TypeOK', UNCHANGED <<archive, database, snapshot>>, SyncSound'
    PROVE  IInv'
<1>1. /\ known' = known /\ canonical' = canonical /\ store' = store
      /\ rejections' = rejections /\ cursor' = cursor /\ snapshot' = snapshot
  BY DEF archive, database
<1>2. /\ ClosedUnderParent(known)' /\ StoreSound' /\ CursorCovered'
      /\ SnapshotSound'
  BY <1>1 DEF IInv, ClosedUnderParent, StoreSound, CursorCovered, SnapshotSound,
              Chain, Ambiguous
<1> QED
  BY <1>2 DEF IInv

LEMMA CanonicalKnown ==
    ASSUME IInv
    PROVE  /\ canonical \in Blocks /\ known \subseteq Blocks
           /\ \A b \in Blocks : Height[b] \in Nat
           /\ \A b \in known : Branch[b] \subseteq known
BY IndexerAssumption, BranchLeast DEF IInv, TypeOK

LEMMA LearnBlockIInv ==
    ASSUME IInv, NEW b \in Blocks \ {Root}, LearnBlock(b)
    PROVE  IInv'
<1>1. /\ known' = known \cup {b} /\ Parent[b] \in known
      /\ UNCHANGED <<canonical, database, process, passes>>
  BY DEF LearnBlock
<1>2. /\ canonical' = canonical /\ store' = store /\ rejections' = rejections
      /\ cursor' = cursor /\ snapshot' = snapshot /\ sync' = sync
      /\ sweep' = sweep /\ started' = started /\ settled' = settled
  BY <1>1 DEF database, process, passes
<1>3. TypeOK'
  BY <1>1, <1>2 DEF IInv, TypeOK
<1>4. ClosedUnderParent(known)'
  BY <1>1 DEF IInv, ClosedUnderParent
<1>5. SnapshotSound'
  BY <1>1, <1>2 DEF IInv, SnapshotSound, Chain, Ambiguous
<1>6. SyncSound' /\ StoreSound' /\ CursorCovered'
  BY <1>2 DEF IInv, SyncSound, SyncTo, StoreSound, CursorCovered
<1> QED
  BY <1>3, <1>4, <1>5, <1>6 DEF IInv

LEMMA SyncToType ==
    ASSUME IInv, sync.step # "idle"
    PROVE  /\ SyncTo \in Nat /\ sync.from <= SyncTo /\ SyncTo <= sync.head
           /\ SyncTo <= Height[canonical]
<1>1. /\ sync.from \in Nat /\ sync.head \in Nat /\ sync.from <= sync.head
      /\ sync.head <= Height[canonical] /\ Height[canonical] \in Nat
      /\ BlockBatchSize \in Nat /\ BlockBatchSize # 0
  BY IndexerAssumption, CanonicalKnown DEF IInv, TypeOK, SyncSound
<1>2. SyncTo = IF sync.from + BlockBatchSize - 1 <= sync.head
               THEN sync.from + BlockBatchSize - 1 ELSE sync.head
  BY <1>1, LowerOfTwo DEF SyncTo
<1> QED
  BY <1>1, <1>2

LEMMA InObservations ==
    ASSUME NEW S, NEW from, NEW until, NEW o
    PROVE  o \in ObservationsIn(S, from, until) <=>
              o \in Observations /\ o[1] \in S /\ Height[o[1]] \in from..(until - 1)
<1> DEFINE I == from..(until - 1)
<1>1. ObservationsIn(S, from, until)
         = {p \in Observations : p[1] \in S /\ Height[p[1]] \in I}
  BY Zenon DEF ObservationsIn
<1> HIDE DEF I
<1>2. o \in ObservationsIn(S, from, until) <=>
         o \in Observations /\ o[1] \in S /\ Height[o[1]] \in I
  BY <1>1
<1> QED
  BY <1>2 DEF I

LEMMA SameObservations ==
    ASSUME NEW S, NEW T, NEW from, NEW until,
           \A o \in Observations :
               Height[o[1]] \in from..(until - 1) => (o[1] \in S <=> o[1] \in T)
    PROVE  ObservationsIn(S, from, until) = ObservationsIn(T, from, until)
<1>1. \A o : o \in ObservationsIn(S, from, until) <=> o \in ObservationsIn(T, from, until)
  BY InObservations, Zenon
<1>2. ObservationsIn(S, from, until) \subseteq Observations
      /\ ObservationsIn(T, from, until) \subseteq Observations
  BY InObservations, Zenon
<1> QED
  BY <1>1, <1>2, Zenon

\* The branch grows above everything that was read or passed.
LEMMA FinalizeIInv ==
    ASSUME IInv, NEW b \in Blocks \ {Root}, Finalize(b)
    PROVE  IInv'
<1>1. /\ canonical' = b /\ b \in known /\ Parent[b] = canonical
      /\ UNCHANGED <<known, database, process, passes>>
  BY DEF Finalize
<1>2. /\ known' = known /\ store' = store /\ rejections' = rejections
      /\ cursor' = cursor /\ snapshot' = snapshot /\ sync' = sync
      /\ sweep' = sweep /\ started' = started /\ settled' = settled
  BY <1>1 DEF database, process, passes
<1>3. /\ Branch[b] = {b} \cup Branch[canonical]
      /\ Height[b] = Height[canonical] + 1
      /\ canonical \in Blocks /\ Height[canonical] \in Nat /\ Height[b] \in Nat
  BY <1>1, BranchStep, CanonicalKnown, IndexerAssumption
<1>4. TypeOK'
  BY <1>1, <1>2 DEF IInv, TypeOK
<1>5. SnapshotSound'
  <2>1. ASSUME snapshot.step # "idle"
        PROVE  b # snapshot.anchor
    <3>1. snapshot.anchor \in Branch[canonical] /\ snapshot.anchor \in Blocks
      BY <2>1 DEF IInv, SnapshotSound, TypeOK
    <3>2. Height[snapshot.anchor] <= Height[canonical]
      BY <3>1, <1>3, AncestorLower, IndexerAssumption
    <3> QED
      BY <3>2, <1>3
  <2> QED
    BY <1>1, <1>2, <1>3, <2>1 DEF IInv, SnapshotSound, Chain, Ambiguous
<1>6. SyncSound'
  <2> SUFFICES ASSUME sync.step # "idle"
               PROVE  SyncSound'
    BY <1>2 DEF SyncSound
  <2>1. /\ sync.from <= sync.head /\ sync.head <= Height[canonical]
        /\ sync.from <= IF cursor["canonical"] = None THEN StartHeight
                        ELSE cursor["canonical"] + 1
        /\ sync.step = "ingest" =>
              sync.rows = ObservationsIn(Branch[canonical], sync.from, SyncTo + 1)
        /\ sync.head \in Nat /\ sync.from \in Nat
    BY DEF IInv, SyncSound, TypeOK
  <2>2. sync.head <= Height[b]
    BY <2>1, <1>3
  <2>3. ObservationsIn(Branch[b], sync.from, SyncTo + 1)
           = ObservationsIn(Branch[canonical], sync.from, SyncTo + 1)
    <3>1. SyncTo \in Nat /\ SyncTo <= Height[canonical]
      BY SyncToType
    <3>2. PICK until : until = SyncTo + 1
      OBVIOUS
    <3>3. Height[b] \notin sync.from..(until - 1)
      BY <3>1, <3>2, <1>3, <2>1
    <3>4. \A o \in Observations :
             Height[o[1]] \in sync.from..(until - 1)
             => (o[1] \in Branch[b] <=> o[1] \in Branch[canonical])
      <4> SUFFICES ASSUME NEW o \in Observations,
                          Height[o[1]] \in sync.from..(until - 1)
                   PROVE  o[1] \in Branch[b] <=> o[1] \in Branch[canonical]
        OBVIOUS
      <4>1. o[1] # b
        BY <3>3
      <4> QED
        BY <4>1, <1>3
    <3> QED
      BY <3>2, <3>4, SameObservations
  <2>4. SyncTo' = SyncTo
    BY <1>2 DEF SyncTo
  <2> QED
    BY <1>1, <1>2, <2>1, <2>2, <2>3, <2>4 DEF SyncSound
<1>7. cursor["canonical"] <= Height[canonical] /\ cursor["canonical"] \in Nat \cup {-1}
  BY DEF IInv, StoreSound, TypeOK, Cursors, None
<1>8. StoreSound'
  BY <1>1, <1>2, <1>3, <1>7 DEF IInv, StoreSound
<1>9. CursorCovered'
  <2> SUFFICES ASSUME NEW o \in Observations, o[1] \in Branch[b],
                      Height[o[1]] \in StartHeight..cursor["canonical"]
               PROVE  IF o \in Malformed THEN o \in rejections
                      ELSE store[o[2]].status = "canonical" /\ store[o[2]].block = o[1]
    BY <1>1, <1>2 DEF CursorCovered
  <2>1. o[1] # b
    BY <1>3, <1>7, IndexerAssumption
  <2> QED
    BY <2>1, <1>3 DEF IInv, CursorCovered
<1>10. ClosedUnderParent(known)'
  BY <1>2 DEF IInv, ClosedUnderParent
<1> QED
  BY <1>4, <1>5, <1>6, <1>8, <1>9, <1>10 DEF IInv

\* The process and its surroundings.
LEMMA ProcessIInv ==
    ASSUME IInv, Start \/ Crash \/ FailPass \/ Settle \/ UNCHANGED vars
    PROVE  IInv'
<1>1. UNCHANGED <<archive, database>>
  BY DEF Start, Crash, FailPass, Settle, vars
<1>2. /\ started' \in BOOLEAN /\ settled' \in BOOLEAN
  BY DEF Start, Crash, FailPass, Settle, vars, process, IInv, TypeOK
<1>3. /\ snapshot' \in {snapshot, NoSnapshot} /\ sync' \in {sync, NoSync}
      /\ sweep' \in {sweep, NoSweep}
  BY DEF Start, Crash, FailPass, Settle, vars, passes
<1>4. /\ known' = known /\ canonical' = canonical /\ store' = store
      /\ rejections' = rejections /\ cursor' = cursor
  BY <1>1 DEF archive, database
<1>5. TypeOK'
  <2>1. /\ NoSnapshot \in [step : {"idle", "blocks", "events", "heights", "tips", "ingest"},
                           anchor : Blocks, height : Nat, tips : SUBSET Blocks,
                           from : Nat, rows : SUBSET Observations]
        /\ NoSync \in [step : {"idle", "events", "ingest"}, head : Nat, from : Nat,
                       rows : SUBSET Observations]
        /\ NoSweep \in [step : {"idle", "mark"}, cutoff : Nat]
    BY IndexerAssumption DEF NoSnapshot, NoSync, NoSweep
  <2> QED
    BY <1>2, <1>3, <1>4, <2>1 DEF IInv, TypeOK
<1>6. SnapshotSound'
  <2>1. CASE snapshot' = snapshot
    BY <2>1, <1>4 DEF IInv, SnapshotSound, Chain, Ambiguous
  <2>2. CASE snapshot' = NoSnapshot
    BY <2>2 DEF SnapshotSound, NoSnapshot
  <2> QED
    BY <1>3, <2>1, <2>2
<1>7. SyncSound'
  BY <1>3, <1>4 DEF IInv, SyncSound, SyncTo, NoSync
<1>8. ClosedUnderParent(known)' /\ StoreSound' /\ CursorCovered'
  BY <1>4 DEF IInv, ClosedUnderParent, StoreSound, CursorCovered
<1> QED
  BY <1>5, <1>6, <1>7, <1>8 DEF IInv

-----------------------------------------------------------------------------
(* The snapshot *)

LEMMA SnapshotFields ==
    ASSUME IInv
    PROVE  /\ snapshot.step \in {"idle", "blocks", "events", "heights", "tips", "ingest"}
           /\ snapshot.anchor \in Blocks /\ snapshot.height \in Nat
           /\ snapshot.tips \in SUBSET Blocks /\ snapshot.from \in Nat
           /\ snapshot.rows \in SUBSET Observations
           /\ Height[snapshot.anchor] \in Nat
BY CanonicalKnown DEF IInv, TypeOK

LEMMA ChainType ==
    ASSUME IInv, snapshot.step \notin {"idle", "blocks"}
    PROVE  /\ Chain \subseteq Blocks
           /\ \A b \in Chain : /\ Height[snapshot.anchor] < Height[b]
                               /\ Height[b] <= snapshot.height
<1>1. ASSUME NEW b \in Chain
      PROVE  /\ b \in Blocks /\ Height[snapshot.anchor] < Height[b]
             /\ Height[b] <= snapshot.height
  <2>1. PICK t \in snapshot.tips : b \in Branch[t]
    BY <1>1 DEF Chain
  <2>2. t \in Blocks /\ Height[t] = snapshot.height
    BY SnapshotFields DEF IInv, SnapshotSound
  <2>3. b \in Blocks /\ Height[b] <= Height[t]
    <3>1. b \in Blocks /\ (b = t \/ Height[b] < Height[t])
      BY <2>1, <2>2, AncestorLower, BranchSelf
    <3>2. Height[b] \in Nat /\ Height[t] \in Nat
      BY <3>1, <2>2, CanonicalKnown
    <3> QED
      BY <3>1, <3>2
  <2>4. Height[b] > Height[snapshot.anchor]
    BY <1>1 DEF Chain
  <2> QED
    BY <2>2, <2>3, <2>4, SnapshotFields, CanonicalKnown
<1> QED
  BY <1>1

\* A snapshot step that ends the pass.
LEMMA SnapshotDropped ==
    ASSUME IInv, snapshot' = NoSnapshot,
           UNCHANGED <<archive, database, process, sync, sweep>>
    PROVE  IInv'
<1>1. /\ known' = known /\ canonical' = canonical /\ store' = store
      /\ rejections' = rejections /\ cursor' = cursor /\ started' = started
      /\ settled' = settled
  BY DEF archive, database, process
<1>2. NoSnapshot \in [step : {"idle", "blocks", "events", "heights", "tips", "ingest"},
                      anchor : Blocks, height : Nat, tips : SUBSET Blocks,
                      from : Nat, rows : SUBSET Observations]
  BY IndexerAssumption DEF NoSnapshot
<1>3. TypeOK'
  BY <1>1, <1>2 DEF IInv, TypeOK
<1>4. SnapshotSound'
  BY DEF SnapshotSound, NoSnapshot
<1> QED
  BY <1>3, <1>4, SnapshotFrame

LEMMA ReadHeightsIInv ==
    ASSUME IInv, ReadHeights
    PROVE  IInv'
<1>1. /\ snapshot' = [NoSnapshot EXCEPT !.step = "blocks", !.anchor = canonical,
                                        !.height = MaxHeight]
      /\ UNCHANGED <<archive, database, process, sync, sweep>>
  BY DEF ReadHeights
<1>2. PICK h : h = MaxHeight
  OBVIOUS
<1>3. snapshot' = [step |-> "blocks", anchor |-> canonical, height |-> h,
                   tips |-> {}, from |-> 0, rows |-> {}]
  BY <1>1, <1>2 DEF NoSnapshot
<1>4. h \in Nat /\ Height[canonical] <= h
  BY <1>2, CanonicalKnown, MaxHeightType
<1>5. /\ known' = known /\ canonical' = canonical /\ store' = store
      /\ rejections' = rejections /\ cursor' = cursor /\ started' = started
      /\ settled' = settled
  BY <1>1 DEF archive, database, process
<1>6. TypeOK'
  BY <1>1, <1>3, <1>4, <1>5, CanonicalKnown DEF IInv, TypeOK
<1>7. SnapshotSound'
  BY <1>3, <1>4, <1>5, CanonicalKnown, BranchSelf DEF SnapshotSound
<1> QED
  BY <1>1, <1>6, <1>7, SnapshotFrame

\* A step that keeps the anchor, the height and the tips, and so the chain.
LEMMA SnapshotMoved ==
    ASSUME IInv, NEW step \in {"events", "heights", "tips", "ingest"},
           NEW from \in Nat, NEW rows \in SUBSET Observations,
           snapshot.step \notin {"idle", "blocks"},
           snapshot' = [snapshot EXCEPT !.step = step, !.from = from, !.rows = rows],
           UNCHANGED <<archive, database, process, sync, sweep>>,
           \A o \in rows : o[1] \in Chain,
           step = "events" /\ canonical = snapshot.anchor =>
              rows = {o \in Observations : o[1] \in Chain /\ Height[o[1]] < from},
           \/ step = "heights" /\ canonical = snapshot.anchor
           \/ step \in {"tips", "ingest"}
           => rows = {o \in Observations : o[1] \in Chain}
    PROVE  IInv'
<1>1. /\ known' = known /\ canonical' = canonical /\ store' = store
      /\ rejections' = rejections /\ cursor' = cursor /\ started' = started
      /\ settled' = settled
  BY DEF archive, database, process
<1>2. snapshot \in [step : {"idle", "blocks", "events", "heights", "tips", "ingest"},
                    anchor : Blocks, height : Nat, tips : SUBSET Blocks,
                    from : Nat, rows : SUBSET Observations]
  BY DEF IInv, TypeOK
<1>3. snapshot' \in [step : {"idle", "blocks", "events", "heights", "tips", "ingest"},
                     anchor : Blocks, height : Nat, tips : SUBSET Blocks,
                     from : Nat, rows : SUBSET Observations]
  BY <1>2
<1>4. /\ snapshot'.step = step /\ snapshot'.from = from /\ snapshot'.rows = rows
      /\ snapshot'.anchor = snapshot.anchor /\ snapshot'.height = snapshot.height
      /\ snapshot'.tips = snapshot.tips
  BY <1>2
<1>5. TypeOK'
  BY <1>1, <1>3 DEF IInv, TypeOK
<1>6. Chain' = Chain
  BY <1>4 DEF Chain, Ambiguous
<1>7. SnapshotSound'
  BY <1>1, <1>4, <1>6 DEF IInv, SnapshotSound
<1> QED
  BY <1>5, <1>7, SnapshotFrame

\* The tips that a request finds descend from the anchor, which was canonical
\* when the pass began.
LEMMA TipsDescend ==
    ASSUME IInv, snapshot.step # "idle",
           NEW t \in AtHeight(BestChain, snapshot.height)
    PROVE  /\ t \in known /\ snapshot.anchor \in Branch[t]
           /\ Height[t] = snapshot.height
<1>1. PICK u \in PendingBlocks \cup {canonical} : t \in Branch[u]
  BY DEF AtHeight, BestChain
<1>2. u \in known /\ u \in Blocks /\ canonical \in Branch[u]
  BY CanonicalKnown, BranchSelf DEF PendingBlocks, IInv, TypeOK
<1>3. /\ snapshot.anchor \in Branch[canonical]
      /\ Height[snapshot.anchor] <= snapshot.height
  BY DEF IInv, SnapshotSound
<1>4. t \in known /\ snapshot.anchor \in Branch[u]
  BY <1>1, <1>2, <1>3, CanonicalKnown, BranchOfAncestor
<1>5. Height[t] = snapshot.height
  BY DEF AtHeight
<1> QED
  BY <1>1, <1>2, <1>3, <1>4, <1>5, LowerIsAncestor

LEMMA ReadBlocksIInv ==
    ASSUME IInv, ReadBlocks
    PROVE  IInv'
<1>1. PICK tips : tips = AtHeight(BestChain, snapshot.height)
  OBVIOUS
<1>2. /\ snapshot.step = "blocks"
      /\ snapshot' = IF tips = {} THEN NoSnapshot
                     ELSE [snapshot EXCEPT !.step = "events", !.tips = tips,
                                           !.from = Height[snapshot.anchor] + 1]
      /\ UNCHANGED <<archive, database, process, sync, sweep>>
  BY <1>1 DEF ReadBlocks
<1>3. CASE tips = {}
  BY <1>2, <1>3, SnapshotDropped
<1>4. CASE tips # {}
  <2>1. \A t \in tips : /\ t \in known /\ snapshot.anchor \in Branch[t]
                        /\ Height[t] = snapshot.height
    BY <1>1, <1>2, TipsDescend
  <2>2. /\ known' = known /\ canonical' = canonical /\ store' = store
        /\ rejections' = rejections /\ cursor' = cursor /\ started' = started
        /\ settled' = settled
    BY <1>2 DEF archive, database, process
  <2>3. snapshot \in [step : {"idle", "blocks", "events", "heights", "tips", "ingest"},
                      anchor : Blocks, height : Nat, tips : SUBSET Blocks,
                      from : Nat, rows : SUBSET Observations]
    BY DEF IInv, TypeOK
  <2>4. tips \in SUBSET Blocks /\ Height[snapshot.anchor] + 1 \in Nat
    BY <2>1, CanonicalKnown, SnapshotFields
  <2>5. /\ snapshot' \in [step : {"idle", "blocks", "events", "heights", "tips", "ingest"},
                          anchor : Blocks, height : Nat, tips : SUBSET Blocks,
                          from : Nat, rows : SUBSET Observations]
        /\ snapshot'.step = "events" /\ snapshot'.from = Height[snapshot.anchor] + 1
        /\ snapshot'.rows = snapshot.rows /\ snapshot'.anchor = snapshot.anchor
        /\ snapshot'.height = snapshot.height /\ snapshot'.tips = tips
    BY <1>2, <1>4, <2>3, <2>4
  <2>6. TypeOK'
    BY <1>2, <2>2, <2>5 DEF IInv, TypeOK
  <2>7. /\ snapshot.rows = {} /\ snapshot.anchor \in Branch[canonical]
        /\ Height[snapshot.anchor] <= snapshot.height
    BY <1>2 DEF IInv, SnapshotSound
  <2>8. \A b \in Chain' : b \in Blocks => ~ (Height[b] < Height[snapshot.anchor] + 1)
    <3>1. \A b \in Chain' : Height[b] > Height[snapshot.anchor]
      BY <2>5 DEF Chain
    <3> QED
      BY <3>1, CanonicalKnown, SnapshotFields
  <2>9. {o \in Observations : o[1] \in Chain' /\ Height[o[1]] < Height[snapshot.anchor] + 1}
           = {}
    BY <2>8 DEF Observations
  <2>10. SnapshotSound'
    BY <1>4, <2>1, <2>2, <2>5, <2>7, <2>9 DEF SnapshotSound
  <2> QED
    BY <1>2, <2>6, <2>10, SnapshotFrame
<1> QED
  BY <1>3, <1>4

\* While nothing is finalized, the chain's blocks are pending.
LEMMA ChainPending ==
    ASSUME IInv, snapshot.step \notin {"idle", "blocks"}, canonical = snapshot.anchor
    PROVE  Chain \subseteq PendingBlocks
<1> SUFFICES ASSUME NEW b \in Chain
             PROVE  b \in PendingBlocks
  OBVIOUS
<1>1. PICK t \in snapshot.tips : b \in Branch[t]
  BY DEF Chain
<1>2. t \in known /\ t \in Blocks /\ snapshot.anchor \in Branch[t]
  BY CanonicalKnown DEF IInv, SnapshotSound
<1>3. b \in known /\ b \in Blocks
  BY <1>1, <1>2, CanonicalKnown
<1>4. Height[snapshot.anchor] < Height[b]
  BY ChainType
<1>5. Height[snapshot.anchor] <= Height[b] /\ b # snapshot.anchor
  BY <1>3, <1>4, SnapshotFields, CanonicalKnown
<1>6. snapshot.anchor \in Branch[b]
  BY <1>1, <1>2, <1>5, LowerIsAncestor
<1> QED
  BY <1>3, <1>5, <1>6 DEF PendingBlocks

LEMMA ReadEventsIInv ==
    ASSUME IInv, ReadEvents
    PROVE  IInv'
<1> DEFINE full == snapshot.from + BlockBatchSize
<1>1. /\ snapshot.step = "events"
      /\ UNCHANGED <<archive, database, process, sync, sweep>>
  BY DEF ReadEvents
<1>2. /\ snapshot.from \in Nat /\ snapshot.rows \in SUBSET Observations
      /\ snapshot.height \in Nat /\ full \in Nat /\ full > snapshot.from
      /\ snapshot \in [step : {"idle", "blocks", "events", "heights", "tips", "ingest"},
                       anchor : Blocks, height : Nat, tips : SUBSET Blocks,
                       from : Nat, rows : SUBSET Observations]
  BY SnapshotFields, IndexerAssumption DEF IInv, TypeOK
<1>3. /\ \A o \in snapshot.rows : o[1] \in Chain
      /\ canonical = snapshot.anchor =>
            snapshot.rows = {o \in Observations : /\ o[1] \in Chain
                                                 /\ Height[o[1]] < snapshot.from}
  BY <1>1 DEF IInv, SnapshotSound
<1>4. CASE Chain = {} \/ snapshot.from > snapshot.height
  <2>1. snapshot' = [snapshot EXCEPT !.step = "heights"]
    BY <1>4 DEF ReadEvents
  <2>2. snapshot' = [snapshot EXCEPT !.step = "heights", !.from = snapshot.from,
                                     !.rows = snapshot.rows]
    BY <2>1, <1>2
  <2>3. ASSUME canonical = snapshot.anchor
        PROVE  snapshot.rows = {o \in Observations : o[1] \in Chain}
    <3>1. \A o \in Observations : o[1] \in Chain => Height[o[1]] < snapshot.from
      <4> SUFFICES ASSUME NEW o \in Observations, o[1] \in Chain
                   PROVE  Height[o[1]] < snapshot.from
        OBVIOUS
      <4>1. Height[o[1]] <= snapshot.height /\ o[1] \in Blocks
        BY <1>1, ChainType
      <4>2. Height[o[1]] \in Nat /\ snapshot.from > snapshot.height
        BY <4>1, <1>4, CanonicalKnown
      <4> QED
        BY <4>1, <4>2, <1>2
    <3> QED
      BY <3>1, <2>3, <1>3
  <2> QED
    BY <1>1, <1>2, <1>3, <2>2, <2>3, SnapshotMoved
<1>5. CASE Chain # {} /\ snapshot.from <= snapshot.height
  <2>1. PICK next : next = Min({full, snapshot.height + 1})
    OBVIOUS
  <2>2. next \in Nat /\ snapshot.from <= next
    BY <1>2, <1>5, <2>1, LowerOfTwo
  <2>3. PICK page : page = ObservationsIn(PendingBlocks, snapshot.from, next)
    OBVIOUS
  <2>4. PICK rows : rows = snapshot.rows \cup {o \in page : o[1] \in Chain}
    OBVIOUS
  <2>5. ~ (snapshot.from > snapshot.height)
    BY <1>2, <1>5
  <2>6. snapshot' = [snapshot EXCEPT !.from = next, !.rows = rows]
    BY <1>5, <2>1, <2>3, <2>4, <2>5 DEF ReadEvents
  <2>7. snapshot' = [snapshot EXCEPT !.step = "events", !.from = next, !.rows = rows]
    BY <2>6, <1>1, <1>2
  <2>8. page \subseteq Observations
    BY <2>3, InObservations
  <2>9. rows \in SUBSET Observations /\ \A o \in rows : o[1] \in Chain
    BY <2>4, <2>8, <1>2, <1>3
  <2>10. ASSUME canonical = snapshot.anchor
         PROVE  rows = {o \in Observations : o[1] \in Chain /\ Height[o[1]] < next}
    <3> SUFFICES ASSUME NEW o \in Observations
                 PROVE  o \in rows <=> o[1] \in Chain /\ Height[o[1]] < next
      BY <2>9
    <3>1. o \in rows <=> o \in snapshot.rows \/ (o \in page /\ o[1] \in Chain)
      BY <2>4
    <3>2. o \in page <=> o[1] \in PendingBlocks /\ Height[o[1]] \in snapshot.from..(next - 1)
      BY <2>3, InObservations
    <3>3. o \in snapshot.rows <=> o[1] \in Chain /\ Height[o[1]] < snapshot.from
      BY <2>10, <1>3
    <3>4. o[1] \in Chain => o[1] \in PendingBlocks /\ Height[o[1]] \in Nat
      BY <1>1, <2>10, ChainPending, ChainType, CanonicalKnown
    <3>5. Height[o[1]] \in Nat =>
             (Height[o[1]] < next <=> \/ Height[o[1]] < snapshot.from
                                      \/ Height[o[1]] \in snapshot.from..(next - 1))
      BY <2>2, <1>2
    <3> QED
      BY <3>1, <3>2, <3>3, <3>4, <3>5
  <2> QED
    BY <1>1, <2>2, <2>7, <2>9, <2>10, SnapshotMoved
<1> QED
  BY <1>2, <1>4, <1>5

\* The canonical block of a height does not change, so the heights alone show
\* that nothing was finalized while the chain was read.
LEMMA VerifyHeightsIInv ==
    ASSUME IInv, VerifyHeights
    PROVE  IInv'
<1>1. /\ snapshot.step = "heights"
      /\ UNCHANGED <<archive, database, process, sync, sweep>>
  BY DEF VerifyHeights
<1>2. snapshot \in [step : {"idle", "blocks", "events", "heights", "tips", "ingest"},
                    anchor : Blocks, height : Nat, tips : SUBSET Blocks,
                    from : Nat, rows : SUBSET Observations]
  BY DEF IInv, TypeOK
<1>3. CASE HeightsUnchanged
  <2>1. snapshot' = [snapshot EXCEPT !.step = "tips"]
    BY <1>3 DEF VerifyHeights
  <2>2. snapshot' = [snapshot EXCEPT !.step = "tips", !.from = snapshot.from,
                                     !.rows = snapshot.rows]
    BY <2>1, <1>2
  <2>3. snapshot.anchor \in Branch[canonical] /\ \A o \in snapshot.rows : o[1] \in Chain
    BY <1>1 DEF IInv, SnapshotSound
  <2>4. canonical = snapshot.anchor
    BY <1>3, <2>3, CanonicalKnown, BranchSelf, OnePerHeight DEF HeightsUnchanged
  <2>5. snapshot.rows = {o \in Observations : o[1] \in Chain}
    BY <1>1, <2>4 DEF IInv, SnapshotSound
  <2> QED
    BY <1>1, <1>2, <2>2, <2>3, <2>5, SnapshotFields, SnapshotMoved
<1>4. CASE ~ HeightsUnchanged
  BY <1>1, <1>4, SnapshotDropped DEF VerifyHeights
<1> QED
  BY <1>3, <1>4

LEMMA VerifyTipsIInv ==
    ASSUME IInv, VerifyTips
    PROVE  IInv'
<1>1. /\ snapshot.step = "tips"
      /\ UNCHANGED <<archive, database, process, sync, sweep>>
  BY DEF VerifyTips
<1>2. snapshot \in [step : {"idle", "blocks", "events", "heights", "tips", "ingest"},
                    anchor : Blocks, height : Nat, tips : SUBSET Blocks,
                    from : Nat, rows : SUBSET Observations]
  BY DEF IInv, TypeOK
<1>3. CASE snapshot' = NoSnapshot
  BY <1>1, <1>3, SnapshotDropped
<1>4. CASE snapshot' = [snapshot EXCEPT !.step = "ingest"]
  <2>1. snapshot' = [snapshot EXCEPT !.step = "ingest", !.from = snapshot.from,
                                     !.rows = snapshot.rows]
    BY <1>4, <1>2
  <2>2. /\ snapshot.rows = {o \in Observations : o[1] \in Chain}
        /\ \A o \in snapshot.rows : o[1] \in Chain
    BY <1>1 DEF IInv, SnapshotSound
  <2> QED
    BY <1>1, <2>1, <2>2, SnapshotFields, SnapshotMoved
<1> QED
  BY <1>3, <1>4 DEF VerifyTips

-----------------------------------------------------------------------------
(* The canonical pass and the sweep begin *)

LEMMA CursorType ==
    ASSUME IInv
    PROVE  /\ cursor \in [Cursors -> Nat \cup {None}]
           /\ cursor["canonical"] \in Nat \cup {None}
           /\ cursor["pending"] \in Nat \cup {None}
           /\ cursor["canonical"] <= Height[canonical]
BY DEF IInv, TypeOK, StoreSound, Cursors

LEMMA FirstHeightType ==
    ASSUME IInv
    PROVE  /\ FirstHeight \in Nat
           /\ FirstHeight <= IF cursor["canonical"] = None THEN StartHeight
                             ELSE cursor["canonical"] + 1
<1>1. StartHeight \in Nat /\ CanonicalOverlap \in Nat
  BY IndexerAssumption
<1>2. CASE cursor["canonical"] = None
  BY <1>1, <1>2 DEF FirstHeight
<1>3. CASE cursor["canonical"] # None
  <2>1. cursor["canonical"] \in Nat
    BY <1>3, CursorType
  <2>2. CanonicalOverlap > 0 =>
           Max({0, cursor["canonical"] - CanonicalOverlap + 1})
              = IF 0 >= cursor["canonical"] - CanonicalOverlap + 1 THEN 0
                ELSE cursor["canonical"] - CanonicalOverlap + 1
    BY <1>1, <2>1, HigherOfTwo
  <2> QED
    BY <1>1, <1>3, <2>1, <2>2 DEF FirstHeight
<1> QED
  BY <1>2, <1>3

LEMMA StartSyncIInv ==
    ASSUME IInv, StartSync
    PROVE  IInv'
<1>1. PICK first : first = FirstHeight
  OBVIOUS
<1>2. /\ first <= Height[canonical]
      /\ sync' = [step |-> "events", head |-> Height[canonical], from |-> first, rows |-> {}]
      /\ UNCHANGED <<archive, database, process, snapshot, sweep>>
  BY <1>1 DEF StartSync, NoSync
<1>3. /\ first \in Nat
      /\ first <= IF cursor["canonical"] = None THEN StartHeight
                  ELSE cursor["canonical"] + 1
  BY <1>1, FirstHeightType
<1>4. /\ known' = known /\ canonical' = canonical /\ store' = store
      /\ rejections' = rejections /\ cursor' = cursor /\ started' = started
      /\ settled' = settled
  BY <1>2 DEF archive, database, process
<1>5. Height[canonical] \in Nat
  BY CanonicalKnown
<1>6. TypeOK'
  BY <1>2, <1>3, <1>4, <1>5 DEF IInv, TypeOK
<1>7. SyncSound'
  BY <1>2, <1>3, <1>4, <1>5 DEF SyncSound
<1> QED
  BY <1>2, <1>6, <1>7, SyncFrame

LEMMA ReadCanonicalIInv ==
    ASSUME IInv, ReadCanonical
    PROVE  IInv'
<1>1. PICK rows : rows = ObservationsIn(Branch[canonical], sync.from, SyncTo + 1)
  OBVIOUS
<1>2. /\ sync.step = "events"
      /\ sync' = [sync EXCEPT !.step = "ingest", !.rows = rows]
      /\ UNCHANGED <<archive, database, process, snapshot, sweep>>
  BY <1>1 DEF ReadCanonical, ExclusiveBound
<1>3. /\ known' = known /\ canonical' = canonical /\ store' = store
      /\ rejections' = rejections /\ cursor' = cursor /\ started' = started
      /\ settled' = settled
  BY <1>2 DEF archive, database, process
<1>4. sync \in [step : {"idle", "events", "ingest"}, head : Nat, from : Nat,
                rows : SUBSET Observations]
  BY DEF IInv, TypeOK
<1>5. rows \in SUBSET Observations
  BY <1>1, InObservations
<1>6. /\ sync' \in [step : {"idle", "events", "ingest"}, head : Nat, from : Nat,
                    rows : SUBSET Observations]
      /\ sync'.step = "ingest" /\ sync'.head = sync.head /\ sync'.from = sync.from
      /\ sync'.rows = rows
  BY <1>2, <1>4, <1>5
<1>7. TypeOK'
  BY <1>2, <1>3, <1>6 DEF IInv, TypeOK
<1>8. SyncTo' = SyncTo
  BY <1>6 DEF SyncTo
<1>9. SyncSound'
  <2>1. /\ sync.from <= sync.head /\ sync.head <= Height[canonical]
        /\ sync.from <= IF cursor["canonical"] = None THEN StartHeight
                        ELSE cursor["canonical"] + 1
    BY <1>2 DEF IInv, SyncSound
  <2> QED
    BY <1>1, <1>3, <1>6, <1>8, <2>1 DEF SyncSound
<1> QED
  BY <1>2, <1>7, <1>9, SyncFrame

LEMMA StartSweepIInv ==
    ASSUME IInv, StartSweep
    PROVE  IInv'
<1>1. /\ cursor["canonical"] >= OrphanDepth
      /\ sweep' = [step |-> "mark", cutoff |-> cursor["canonical"] - OrphanDepth]
      /\ UNCHANGED <<archive, database, process, snapshot, sync>>
  BY DEF StartSweep
<1>2. /\ known' = known /\ canonical' = canonical /\ store' = store
      /\ rejections' = rejections /\ cursor' = cursor /\ started' = started
      /\ settled' = settled
  BY <1>1 DEF archive, database, process
<1>3. cursor["canonical"] - OrphanDepth \in Nat
  BY <1>1, CursorType, IndexerAssumption DEF None
<1>4. TypeOK'
  BY <1>1, <1>2, <1>3 DEF IInv, TypeOK
<1>5. SyncSound'
  BY <1>1, <1>2 DEF IInv, SyncSound, SyncTo
<1> QED
  BY <1>1, <1>4, <1>5, SyncFrame

-----------------------------------------------------------------------------
(* The transactions *)

LEMMA RowType ==
    ASSUME IInv, NEW e \in Events
    PROVE  /\ store[e] \in Rows /\ Orphan(store[e]) \in Rows
           /\ Orphan(store[e]).status # "pending"
           /\ store[e].status = "canonical" <=> Orphan(store[e]).status = "canonical"
           /\ store[e].status = "canonical" => Orphan(store[e]) = store[e]
           /\ Orphan(store[e]).block = store[e].block
<1>1. store[e] \in Rows
  BY DEF IInv, TypeOK
<1> QED
  BY <1>1 DEF Orphan, Rows

\* A transaction that leaves the canonical rows and their cursor alone.
LEMMA CanonicalFrame ==
    ASSUME IInv, TypeOK',
           UNCHANGED <<archive, rejections, sync>>, snapshot' \in {snapshot, NoSnapshot},
           cursor'["canonical"] = cursor["canonical"],
           \A e \in Events :
              /\ store[e].status = "canonical" => store'[e] = store[e]
              /\ store'[e].status = "canonical" => store[e].status = "canonical",
           NEW tip \in Blocks,
           \A e \in Events : store'[e].status \in {"pending", "canonical"}
                             => store'[e].block \in Branch[tip]
    PROVE  IInv'
<1>1. /\ known' = known /\ canonical' = canonical /\ rejections' = rejections
      /\ sync' = sync
  BY DEF archive
<1>2. ClosedUnderParent(known)'
  BY <1>1 DEF IInv, ClosedUnderParent
<1>3. SnapshotSound'
  <2>1. CASE snapshot' = snapshot
    BY <2>1, <1>1 DEF IInv, SnapshotSound, Chain, Ambiguous
  <2>2. CASE snapshot' = NoSnapshot
    BY <2>2 DEF SnapshotSound, NoSnapshot
  <2> QED
    BY <2>1, <2>2
<1>4. SyncSound'
  BY <1>1 DEF IInv, SyncSound, SyncTo
<1>5. StoreSound'
  BY <1>1 DEF IInv, StoreSound
<1>6. CursorCovered'
  <2> SUFFICES ASSUME NEW o \in Observations, o[1] \in Branch[canonical],
                      Height[o[1]] \in StartHeight..cursor["canonical"]
               PROVE  IF o \in Malformed THEN o \in rejections
                      ELSE store'[o[2]].status = "canonical" /\ store'[o[2]].block = o[1]
    BY <1>1 DEF CursorCovered
  <2>1. IF o \in Malformed THEN o \in rejections
        ELSE store[o[2]].status = "canonical" /\ store[o[2]].block = o[1]
    BY DEF IInv, CursorCovered
  <2>2. o[2] \in Events
    BY DEF Observations
  <2> QED
    BY <2>1, <2>2
<1> QED
  BY <1>2, <1>3, <1>4, <1>5, <1>6 DEF IInv

LEMMA MarkPendingAsOrphanedIInv ==
    ASSUME IInv, MarkPendingAsOrphaned
    PROVE  IInv'
<1>1. /\ store' = [e \in Events |-> IF store[e].seen <= sweep.cutoff
                                    THEN Orphan(store[e]) ELSE store[e]]
      /\ sweep' = NoSweep
      /\ UNCHANGED <<archive, rejections, cursor, process, snapshot, sync>>
  BY DEF MarkPendingAsOrphaned
<1>2. /\ known' = known /\ canonical' = canonical /\ rejections' = rejections
      /\ cursor' = cursor /\ started' = started /\ settled' = settled
      /\ snapshot' = snapshot /\ sync' = sync
  BY <1>1 DEF archive, process
<1>3. \A e \in Events : store'[e] \in {store[e], Orphan(store[e])}
  BY <1>1
<1>4. store' \in [Events -> Rows]
  <2>1. \A e \in Events : store'[e] \in Rows
    BY <1>3, RowType
  <2>2. store' = [e \in Events |-> store'[e]]
    BY <1>1
  <2> QED
    BY <2>1, <2>2
<1>5. NoSweep \in [step : {"idle", "mark"}, cutoff : Nat]
  BY DEF NoSweep
<1>6. TypeOK'
  BY <1>1, <1>2, <1>4, <1>5 DEF IInv, TypeOK
<1>7. \A e \in Events :
         /\ store[e].status = "canonical" => store'[e] = store[e]
         /\ store'[e].status = "canonical" => store[e].status = "canonical"
  BY <1>3, RowType
<1>8. PICK tip \in Blocks : \A e \in Events :
         store[e].status \in {"pending", "canonical"} => store[e].block \in Branch[tip]
  BY DEF IInv, StoreSound
<1>9. \A e \in Events : store'[e].status \in {"pending", "canonical"}
                        => store'[e].block \in Branch[tip]
  BY <1>3, <1>8, RowType
<1> QED
  BY <1>1, <1>2, <1>6, <1>7, <1>9, CanonicalFrame

\* What a batch leaves in a row.
LEMMA StoreAfterRow ==
    ASSUME NEW rows \in SUBSET Observations, NEW status, NEW retired,
           NEW e \in Events
    PROVE  LET old == IF e \in retired THEN Orphan(store[e]) ELSE store[e]
               new == StoreAfter(rows, status, retired)[e]
           IN  \/ (\A o \in rows : o[2] # e) /\ new = old
               \/ \E o \in rows : o[2] = e /\ new = Upsert(old, status, o[1])
<1> DEFINE old == IF e \in retired THEN Orphan(store[e]) ELSE store[e]
           seen == {o \in rows : o[2] = e}
           new == StoreAfter(rows, status, retired)[e]
<1>1. new = IF seen = {} THEN old ELSE Upsert(old, status, (CHOOSE o \in seen : TRUE)[1])
  BY DEF StoreAfter
<1>2. CASE seen = {}
  BY <1>1, <1>2
<1>3. CASE seen # {}
  <2>1. PICK o : o = CHOOSE p \in seen : TRUE
    OBVIOUS
  <2>2. o \in seen
    BY <1>3, <2>1
  <2>3. new = Upsert(old, status, o[1])
    BY <1>1, <1>3, <2>1
  <2> QED
    BY <2>2, <2>3
<1> QED
  BY <1>2, <1>3

LEMMA StoreAfterType ==
    ASSUME IInv, NEW rows \in SUBSET Observations,
           NEW status \in {"pending", "canonical"}, NEW retired
    PROVE  StoreAfter(rows, status, retired) \in [Events -> Rows]
<1>1. ASSUME NEW e \in Events
      PROVE  StoreAfter(rows, status, retired)[e] \in Rows
  <2> DEFINE old == IF e \in retired THEN Orphan(store[e]) ELSE store[e]
             new == StoreAfter(rows, status, retired)[e]
  <2>1. old \in Rows
    BY RowType
  <2>2. \/ new = old
        \/ \E o \in rows : new = Upsert(old, status, o[1])
    BY StoreAfterRow
  <2>3. \A o \in rows : o[1] \in Blocks /\ Height[o[1]] \in Nat
    BY CanonicalKnown DEF Observations
  <2> HIDE DEF old, new
  <2>4. \A o \in rows : Upsert(old, status, o[1]) \in Rows
    BY <2>1, <2>3 DEF Upsert, Seen, Rows
  <2> QED
    BY <2>1, <2>2, <2>4 DEF new
<1>2. StoreAfter(rows, status, retired)
         = [e \in Events |-> StoreAfter(rows, status, retired)[e]]
  BY DEF StoreAfter
<1> QED
  BY <1>1, <1>2

\* One branch has the tip of an unambiguous snapshot and, in the states that
\* the transaction accepts, the canonical rows.
LEMMA TipOfSnapshot ==
    ASSUME IInv, snapshot.step = "ingest", Compatible
    PROVE  \E tip \in Blocks :
              /\ Chain \subseteq Branch[tip]
              /\ \A e \in Events : store[e].status = "canonical"
                                   => store[e].block \in Branch[tip]
<1>1. \A e \in Events : store[e].status = "canonical"
                        => store[e].block \in Branch[canonical]
  BY DEF IInv, StoreSound
<1>2. CASE Ambiguous
  BY <1>1, <1>2, CanonicalKnown DEF Chain
<1>3. CASE ~ Ambiguous
  <2>1. /\ snapshot.tips # {} /\ snapshot.tips \in SUBSET Blocks
        /\ snapshot.anchor \in Branch[canonical] /\ snapshot.anchor \in Blocks
        /\ \A t \in snapshot.tips : t \in Blocks /\ snapshot.anchor \in Branch[t]
    BY SnapshotFields DEF IInv, SnapshotSound
  <2>2. IsFiniteSet(snapshot.tips)
    BY <2>1, IndexerAssumption, FS_Subset
  <2>3. Cardinality(snapshot.tips) \in Nat /\ Cardinality(snapshot.tips) # 0
    BY <2>1, <2>2, FS_CardinalityType, FS_EmptySet
  <2>4. Cardinality(snapshot.tips) = 1
    BY <1>3, <2>3 DEF Ambiguous
  <2>5. PICK t : snapshot.tips = {t}
    BY <2>2, <2>4, FS_Singleton
  <2>6. t \in Blocks /\ snapshot.anchor \in Branch[t]
    BY <2>1, <2>5
  <2>7. Chain \subseteq Branch[t]
    BY <1>3, <2>5 DEF Chain
  <2>8. Branch[snapshot.anchor] \subseteq Branch[t]
    BY <2>6, BranchOfAncestor
  <2>9. ASSUME NEW e \in Events, store[e].status = "canonical"
        PROVE  store[e].block \in Branch[t]
    <3>1. store[e].block \in Branch[canonical] /\ store[e].block \in Blocks
      BY <1>1, <2>9, CanonicalKnown, BranchSelf
    <3>2. CASE Height[store[e].block] >= Height[snapshot.anchor]
      BY <1>3, <2>6, <2>7, <2>9, <3>2 DEF Compatible
    <3>3. CASE ~ (Height[store[e].block] >= Height[snapshot.anchor])
      <4>1. Height[store[e].block] <= Height[snapshot.anchor]
        BY <3>1, <3>3, <2>1, CanonicalKnown
      <4>2. store[e].block \in Branch[snapshot.anchor]
        BY <3>1, <4>1, <2>1, CanonicalKnown, LowerIsAncestor
      <4> QED
        BY <4>2, <2>8
    <3> QED
      BY <3>2, <3>3
  <2> QED
    BY <2>6, <2>7, <2>9
<1> QED
  BY <1>2, <1>3

LEMMA IngestSnapshotIInv ==
    ASSUME IInv, IngestSnapshot
    PROVE  IInv'
<1> DEFINE shown == snapshot.rows
           unseen == {e \in Events : \A o \in snapshot.rows : o[2] # e}
<1>1. /\ snapshot.step = "ingest" /\ snapshot' = NoSnapshot
      /\ UNCHANGED <<archive, rejections, process, sync, sweep>>
  BY DEF IngestSnapshot
<1>2. /\ known' = known /\ canonical' = canonical /\ started' = started
      /\ settled' = settled /\ sync' = sync /\ sweep' = sweep
      /\ rejections' = rejections
  BY <1>1 DEF archive, process
<1>3. CASE UNCHANGED <<store, cursor>>
  BY <1>1, <1>2, <1>3, SnapshotDropped DEF archive, database, process
<1>4. CASE /\ Compatible /\ store' = StoreAfter(shown, "pending", unseen)
           /\ Advance("pending", snapshot.height)
  <2>1. shown \in SUBSET Observations /\ \A o \in shown : o[1] \in Chain
    BY <1>1, SnapshotFields DEF IInv, SnapshotSound
  <2>2. PICK next : next = Max({cursor["pending"], snapshot.height})
    OBVIOUS
  <2>3. cursor' = [cursor EXCEPT !["pending"] = next]
    BY <1>4, <2>2 DEF Advance
  <2>4. next \in Nat \cup {None}
    BY <2>2, CursorType, SnapshotFields, HigherOfTwo DEF None
  <2>5. /\ cursor' \in [Cursors -> Nat \cup {None}]
        /\ cursor'["canonical"] = cursor["canonical"]
    BY <2>3, <2>4, CursorType DEF Cursors
  <2>6. NoSnapshot \in [step : {"idle", "blocks", "events", "heights", "tips", "ingest"},
                        anchor : Blocks, height : Nat, tips : SUBSET Blocks,
                        from : Nat, rows : SUBSET Observations]
    BY IndexerAssumption DEF NoSnapshot
  <2>7. TypeOK'
    <3>1. store' \in [Events -> Rows]
      BY <1>4, <2>1, StoreAfterType
    <3> QED
      BY <1>1, <1>2, <2>5, <2>6, <3>1 DEF IInv, TypeOK
  <2>8. PICK tip \in Blocks :
              /\ Chain \subseteq Branch[tip]
              /\ \A e \in Events : store[e].status = "canonical"
                                   => store[e].block \in Branch[tip]
    BY <1>1, <1>4, TipOfSnapshot
  <2>9. ASSUME NEW e \in Events
        PROVE  /\ store[e].status = "canonical" => store'[e] = store[e]
               /\ store'[e].status = "canonical" => store[e].status = "canonical"
               /\ store'[e].status \in {"pending", "canonical"}
                  => store'[e].block \in Branch[tip]
    <3> DEFINE old == IF e \in unseen THEN Orphan(store[e]) ELSE store[e]
    <3>1. \/ (\A o \in shown : o[2] # e) /\ store'[e] = old
          \/ \E o \in shown : o[2] = e /\ store'[e] = Upsert(old, "pending", o[1])
      <4> HIDE DEF shown, unseen
      <4> QED
        BY <1>4, <2>1, StoreAfterRow
    <3>2. CASE (\A o \in shown : o[2] # e) /\ store'[e] = old
      <4>1. store'[e] = Orphan(store[e])
        BY <3>2
      <4> QED
        BY <4>1, <2>8, RowType
    <3>3. CASE \E o \in shown : o[2] = e /\ store'[e] = Upsert(old, "pending", o[1])
      <4>1. PICK o \in shown : o[2] = e /\ store'[e] = Upsert(old, "pending", o[1])
        BY <3>3
      <4>2. store'[e] = Upsert(store[e], "pending", o[1])
        BY <4>1
      <4>3. o[1] \in Branch[tip]
        BY <2>1, <2>8
      <4> QED
        BY <4>2, <4>3, <2>8 DEF Upsert
    <3> QED
      BY <3>1, <3>2, <3>3
  <2> QED
    BY <1>1, <1>2, <2>5, <2>7, <2>9, CanonicalFrame
<1> QED
  BY <1>3, <1>4 DEF IngestSnapshot

\* A canonical batch shows an event once.
LEMMA OnceCanonical ==
    ASSUME NEW c \in Blocks, NEW o \in Observations, NEW p \in Observations,
           o[1] \in Branch[c], p[1] \in Branch[c], o[2] = p[2]
    PROVE  o = p
<1>1. o[1] \in Branch[p[1]] \/ p[1] \in Branch[o[1]]
  BY BranchLinear
<1> QED
  BY <1>1, OncePerBranch

\* A batch is of the canonical branch.
LEMMA BatchOfBranch ==
    ASSUME IInv, sync.step = "ingest"
    PROVE  /\ sync.rows \in SUBSET Observations
           /\ \A o \in sync.rows : o[1] \in Branch[canonical]
           /\ \A o \in Observations : /\ o[1] \in Branch[canonical]
                                      /\ Height[o[1]] \in sync.from..SyncTo
                                      => o \in sync.rows
<1>1. PICK until : until = SyncTo + 1
  OBVIOUS
<1>2. sync.rows = ObservationsIn(Branch[canonical], sync.from, until)
  BY <1>1 DEF IInv, SyncSound
<1>3. SyncTo = until - 1
  BY <1>1, SyncToType
<1> QED
  BY <1>2, <1>3, InObservations

\* The rows of a canonical batch; either it changes no row, or it retires all
\* that is pending.
LEMMA CanonicalRows ==
    ASSUME IInv, sync.step = "ingest", NEW accepted \in SUBSET sync.rows,
           store' = StoreAfter(accepted, "canonical", RetiredBy(accepted))
    PROVE  /\ \A e \in Events :
                 store'[e].status = "canonical" =>
                    /\ store'[e].block \in Branch[canonical]
                    /\ e \in EventsIn[store'[e].block]
           /\ \A o \in accepted : store'[o[2]].status = "canonical"
                                  /\ store'[o[2]].block = o[1]
           /\ \A e \in Events : store[e].status = "canonical" =>
                 store'[e].status = "canonical" /\ store'[e].block = store[e].block
           /\ \/ \A e \in Events : store'[e].status # "pending"
              \/ \A e \in Events : store'[e].status = store[e].status
                                   /\ store'[e].block = store[e].block
<1>0. PICK retired : retired = RetiredBy(accepted)
  OBVIOUS
<1> DEFINE old(e) == IF e \in retired THEN Orphan(store[e]) ELSE store[e]
<1>1. /\ accepted \in SUBSET Observations
      /\ \A o \in accepted : /\ o[1] \in Branch[canonical] /\ o[2] \in Events
                             /\ o[2] \in EventsIn[o[1]] /\ o[1] \in Blocks
  BY BatchOfBranch DEF Observations
<1>2. \A e \in Events :
         \/ (\A o \in accepted : o[2] # e) /\ store'[e] = old(e)
         \/ \E o \in accepted : o[2] = e /\ store'[e] = Upsert(old(e), "canonical", o[1])
  <2>1. store' = StoreAfter(accepted, "canonical", retired)
    BY <1>0
  <2> SUFFICES ASSUME NEW e \in Events
               PROVE  \/ (\A o \in accepted : o[2] # e) /\ store'[e] = old(e)
                      \/ \E o \in accepted : /\ o[2] = e
                                              /\ store'[e] = Upsert(old(e), "canonical", o[1])
    OBVIOUS
  <2>2. LET old1 == IF e \in retired THEN Orphan(store[e]) ELSE store[e]
            new == StoreAfter(accepted, "canonical", retired)[e]
        IN  \/ (\A o \in accepted : o[2] # e) /\ new = old1
            \/ \E o \in accepted : o[2] = e /\ new = Upsert(old1, "canonical", o[1])
    <3>1. accepted \in SUBSET Observations
      BY <1>1
    <3> QED
      BY <3>1, StoreAfterRow
  <2> QED
    BY <2>1, <2>2
<1>3. \A e \in Events : store[e].status = "canonical" =>
         store[e].block \in Branch[canonical] /\ e \in EventsIn[store[e].block]
  BY DEF IInv, StoreSound
<1>4. canonical \in Blocks /\ Branch[canonical] \subseteq Blocks
  BY CanonicalKnown, BranchSelf
<1>5. ASSUME NEW e \in Events, NEW o \in accepted, o[2] = e,
             store[e].status = "canonical"
      PROVE  store[e].block = o[1]
  <2> DEFINE p == <<store[e].block, e>>
  <2>1. p \in Observations /\ p[1] \in Branch[canonical] /\ p[2] = e
    BY <1>3, <1>4, <1>5 DEF Observations
  <2>2. o = p
    <3> HIDE DEF p
    <3> QED
      BY <1>1, <1>4, <1>5, <2>1, OnceCanonical
  <2> QED
    BY <2>2
<1>6. ASSUME NEW e \in Events, \A o \in accepted : o[2] # e
      PROVE  store'[e] = old(e)
  BY <1>2, <1>6
<1>7. ASSUME NEW o \in accepted
      PROVE  store'[o[2]].status = "canonical" /\ store'[o[2]].block = o[1]
  <2>1. PICK p \in accepted :
           p[2] = o[2] /\ store'[o[2]] = Upsert(old(o[2]), "canonical", p[1])
    BY <1>1, <1>2
  <2>2. p = o
    BY <1>1, <1>4, <2>1, OnceCanonical
  <2>3. store'[o[2]] = Upsert(old(o[2]), "canonical", o[1])
    BY <2>1, <2>2
  <2> QED
    BY <2>3 DEF Upsert
<1>8. \A e \in Events : /\ old(e).status = "canonical" <=> store[e].status = "canonical"
                        /\ old(e).block = store[e].block
  BY RowType
<1> HIDE DEF old
<1>9. ASSUME NEW e \in Events, store'[e].status = "canonical"
      PROVE  store'[e].block \in Branch[canonical] /\ e \in EventsIn[store'[e].block]
  <2>1. CASE \A o \in accepted : o[2] # e
    BY <1>3, <1>6, <1>8, <1>9, <2>1
  <2>2. CASE \E o \in accepted : o[2] = e
    BY <1>1, <1>7, <2>2
  <2> QED
    BY <2>1, <2>2
<1>10. ASSUME NEW e \in Events, store[e].status = "canonical"
       PROVE  store'[e].status = "canonical" /\ store'[e].block = store[e].block
  <2>1. CASE \A o \in accepted : o[2] # e
    BY <1>6, <1>8, <1>10, <2>1
  <2>2. CASE \E o \in accepted : o[2] = e
    BY <1>5, <1>7, <1>10, <2>2
  <2> QED
    BY <2>1, <2>2
<1>11. CASE \E o \in accepted : store[o[2]].status # "canonical"
  <2>1. retired = Events
    BY <1>0, <1>11 DEF RetiredBy
  <2>2. \A e \in Events : old(e).status # "pending"
    BY <2>1, RowType DEF old
  <2>3. ASSUME NEW e \in Events
        PROVE  store'[e].status # "pending"
    <3>1. CASE \A o \in accepted : o[2] # e
      BY <1>6, <2>2, <3>1
    <3>2. CASE \E o \in accepted : o[2] = e
      BY <1>7, <3>2
    <3> QED
      BY <3>1, <3>2
  <2> QED
    BY <1>7, <1>9, <1>10, <2>3
<1>12. CASE \A o \in accepted : store[o[2]].status = "canonical"
  <2>1. \A e \in Events : old(e) = store[e]
    BY <1>0, <1>12 DEF RetiredBy, old
  <2>2. ASSUME NEW e \in Events
        PROVE  store'[e].status = store[e].status /\ store'[e].block = store[e].block
    <3>1. CASE \A o \in accepted : o[2] # e
      BY <1>6, <2>1, <3>1
    <3>2. CASE \E o \in accepted : o[2] = e
      BY <1>5, <1>7, <1>12, <3>2
    <3> QED
      BY <3>1, <3>2
  <2> QED
    BY <1>7, <1>9, <1>10, <2>2
<1> QED
  BY <1>11, <1>12

LEMMA IngestCanonicalIInv ==
    ASSUME IInv, IngestCanonical
    PROVE  IInv'
<1> DEFINE accepted == sync.rows \ Malformed
<1>1. /\ sync.step = "ingest"
      /\ store' = StoreAfter(accepted, "canonical", RetiredBy(accepted))
      /\ rejections' = rejections \cup (sync.rows \cap Malformed)
      /\ Advance("canonical", SyncTo)
      /\ UNCHANGED <<archive, process, snapshot, sweep>>
  BY DEF IngestCanonical
<1>2. /\ known' = known /\ canonical' = canonical /\ started' = started
      /\ settled' = settled /\ snapshot' = snapshot /\ sweep' = sweep
  BY <1>1 DEF archive, process
<1>3. PICK to : to = SyncTo
  OBVIOUS
<1>4. /\ to \in Nat /\ sync.from <= to /\ to <= sync.head /\ to <= Height[canonical]
      /\ sync.from \in Nat /\ sync.head \in Nat /\ sync.head <= Height[canonical]
      /\ sync.from <= IF cursor["canonical"] = None THEN StartHeight
                      ELSE cursor["canonical"] + 1
      /\ StartHeight \in Nat /\ Height[canonical] \in Nat
  BY <1>1, <1>3, SyncToType, CanonicalKnown, IndexerAssumption DEF IInv, TypeOK, SyncSound
<1>5. PICK next : next = Max({cursor["canonical"], to})
  OBVIOUS
<1>6. next = IF cursor["canonical"] >= to THEN cursor["canonical"] ELSE to
  BY <1>4, <1>5, CursorType, HigherOfTwo DEF None
<1>7. /\ cursor' = [cursor EXCEPT !["canonical"] = next]
      /\ next \in Nat /\ to <= next /\ next <= Height[canonical]
  BY <1>1, <1>3, <1>4, <1>5, <1>6, CursorType DEF Advance, None
<1>8. cursor' \in [Cursors -> Nat \cup {None}] /\ cursor'["canonical"] = next
  BY <1>7, CursorType DEF Cursors
<1>9. sync' = IF to = sync.head THEN NoSync
              ELSE [step |-> "events", head |-> sync.head, from |-> to + 1, rows |-> {}]
  <2>1. CASE to = sync.head
    BY <1>3, <2>1 DEF IngestCanonical
  <2>2. CASE to # sync.head
    <3>1. sync' = [NoSync EXCEPT !.step = "events", !.head = sync.head, !.from = to + 1]
      BY <1>3, <2>2 DEF IngestCanonical
    <3>2. sync' = [step |-> "events", head |-> sync.head, from |-> to + 1, rows |-> {}]
      BY <3>1 DEF NoSync
    <3> QED
      BY <2>2, <3>2
  <2> QED
    BY <2>1, <2>2
<1>10. /\ sync.rows \in SUBSET Observations /\ accepted \in SUBSET Observations
       /\ \A o \in Observations : o[1] \in Branch[canonical] /\ Height[o[1]] \in sync.from..to
                                  => o \in sync.rows
  BY <1>1, <1>3, BatchOfBranch
<1>11. /\ \A e \in Events :
             store'[e].status = "canonical" =>
                store'[e].block \in Branch[canonical] /\ e \in EventsIn[store'[e].block]
       /\ \A o \in accepted : store'[o[2]].status = "canonical"
                              /\ store'[o[2]].block = o[1]
       /\ \A e \in Events : store[e].status = "canonical" =>
             store'[e].status = "canonical" /\ store'[e].block = store[e].block
       /\ \/ \A e \in Events : store'[e].status # "pending"
          \/ \A e \in Events : store'[e].status = store[e].status
                               /\ store'[e].block = store[e].block
  BY <1>1, CanonicalRows
<1>12. TypeOK'
  <2>1. store' \in [Events -> Rows]
    <3> HIDE DEF accepted
    <3> QED
      BY <1>1, <1>10, StoreAfterType
  <2>2. rejections' \subseteq Malformed
    BY <1>1 DEF IInv, TypeOK
  <2>3. sync' \in [step : {"idle", "events", "ingest"}, head : Nat, from : Nat,
                   rows : SUBSET Observations]
    BY <1>4, <1>9 DEF NoSync
  <2> QED
    BY <1>2, <1>8, <2>1, <2>2, <2>3 DEF IInv, TypeOK
<1>13. ClosedUnderParent(known)' /\ SnapshotSound'
  BY <1>2 DEF IInv, ClosedUnderParent, SnapshotSound, Chain, Ambiguous
<1>14. SyncSound'
  <2>1. CASE to = sync.head
    BY <1>9, <2>1 DEF SyncSound, NoSync
  <2>2. CASE to # sync.head
    <3>1. sync' = [step |-> "events", head |-> sync.head, from |-> to + 1, rows |-> {}]
      BY <1>9, <2>2
    <3>2. to + 1 <= sync.head /\ to + 1 <= next + 1 /\ next # None
      BY <1>4, <1>7, <2>2 DEF None
    <3> QED
      BY <1>2, <1>4, <1>8, <3>1, <3>2 DEF SyncSound
  <2> QED
    BY <2>1, <2>2
<1>15. StoreSound'
  <2>1. \E tip \in Blocks : \A e \in Events :
           store'[e].status \in {"pending", "canonical"} => store'[e].block \in Branch[tip]
    <3>1. CASE \A e \in Events : store'[e].status # "pending"
      BY <1>11, <3>1, CanonicalKnown
    <3>2. CASE \A e \in Events : store'[e].status = store[e].status
                                 /\ store'[e].block = store[e].block
      BY <3>2 DEF IInv, StoreSound
    <3> QED
      BY <1>11, <3>1, <3>2
  <2> QED
    BY <1>2, <1>7, <1>8, <1>11, <2>1 DEF StoreSound
<1>16. CursorCovered'
  <2> SUFFICES ASSUME NEW o \in Observations, o[1] \in Branch[canonical],
                      Height[o[1]] \in StartHeight..next
               PROVE  IF o \in Malformed THEN o \in rejections'
                      ELSE store'[o[2]].status = "canonical" /\ store'[o[2]].block = o[1]
    BY <1>2, <1>8 DEF CursorCovered
  <2>1. o[2] \in Events /\ Height[o[1]] \in Nat
    BY CanonicalKnown DEF Observations
  <2>2. CASE Height[o[1]] \in StartHeight..cursor["canonical"]
    <3>1. IF o \in Malformed THEN o \in rejections
          ELSE store[o[2]].status = "canonical" /\ store[o[2]].block = o[1]
      BY <2>2 DEF IInv, CursorCovered
    <3> QED
      BY <1>1, <1>11, <2>1, <3>1
  <2>3. CASE Height[o[1]] \notin StartHeight..cursor["canonical"]
    <3>1. Height[o[1]] \in sync.from..to
      <4>1. CASE cursor["canonical"] = None
        BY <1>4, <1>6, <2>1, <4>1 DEF None
      <4>2. CASE cursor["canonical"] # None
        <5>1. cursor["canonical"] \in Nat
          BY <4>2, CursorType
        <5>2. Height[o[1]] > cursor["canonical"]
          BY <5>1, <1>4, <2>1, <2>3
        <5> QED
          BY <5>1, <5>2, <1>4, <1>6, <2>1, <4>2
      <4> QED
        BY <4>1, <4>2
    <3>2. o \in sync.rows
      BY <1>10, <3>1
    <3> QED
      BY <1>1, <1>11, <3>2
  <2> QED
    BY <2>2, <2>3
<1> QED
  BY <1>12, <1>13, <1>14, <1>15, <1>16 DEF IInv

-----------------------------------------------------------------------------
(* The theorems *)

\* IInv is inductive: the archive's steps, the process's and each pass's keep it.
THEOREM Inductive == Spec => []IInv
<1>1. ASSUME IInv, [Next]_vars
      PROVE  IInv'
  <2>1. CASE \E b \in Blocks \ {Root} : LearnBlock(b) \/ Finalize(b)
    BY <1>1, <2>1, LearnBlockIInv, FinalizeIInv
  <2>2. CASE Start \/ Crash \/ FailPass \/ Settle \/ UNCHANGED vars
    BY <1>1, <2>2, ProcessIInv
  <2>3. CASE Snapshot
    BY <1>1, <2>3, ReadHeightsIInv, ReadBlocksIInv, ReadEventsIInv, VerifyHeightsIInv,
       VerifyTipsIInv, IngestSnapshotIInv DEF Snapshot
  <2>4. CASE Sync
    BY <1>1, <2>4, StartSyncIInv, ReadCanonicalIInv, IngestCanonicalIInv DEF Sync
  <2>5. CASE Sweep
    BY <1>1, <2>5, StartSweepIInv, MarkPendingAsOrphanedIInv DEF Sweep
  <2> QED
    BY <1>1, <2>1, <2>2, <2>3, <2>4, <2>5 DEF Next
<1> QED
  BY <1>1, InitIInv, PTL DEF Spec

\* fetchPendingSnapshot: what is ingested is every event of the chain from the
\* tip down to the anchor, however the archive moves between the requests.
THEOREM SnapshotsWhole == Spec => []Sound
<1>1. IInv => Sound
  BY DEF IInv, SnapshotSound, Sound, SnapshotWhole
<1> QED
  BY <1>1, Inductive, PTL

\* ingest of the two passes: the rows that readers see, pending and canonical,
\* are always of one branch.
THEOREM RowsOfOneBranch == Spec => []OneBranch
<1>1. ASSUME IInv
      PROVE  OneBranch
  <2>1. PICK tip \in Blocks : \A e \in Events :
           store[e].status \in {"pending", "canonical"} => store[e].block \in Branch[tip]
    BY <1>1 DEF IInv, StoreSound
  <2> QED
    BY <2>1, BranchLinear DEF OneBranch
<1> QED
  BY <1>1, Inductive, PTL

\* The canonical cursor never passes an event that is not stored, or rejected,
\* whatever fails between its batches.
THEOREM CursorHasPassed == Spec => []CursorCovered
<1>1. IInv => CursorCovered
  BY DEF IInv
<1> QED
  BY <1>1, Inductive, PTL
=============================================================================
