------------------------------- MODULE Indexer -------------------------------
(***************************************************************************)
(* EventsIndexer and EventsRepository: three passes over an archive node   *)
(* that run concurrently in one process (the snapshot of the pending       *)
(* branch, the canonical sync and the orphan sweep), and the transactions, *)
(* serialized by an advisory lock, that they write the event store with.   *)
(*                                                                         *)
(* The archive is external.  Its blocks are a constant tree, of which it   *)
(* learns more and more; its canonical block advances along the tree.      *)
(***************************************************************************)
EXTENDS Integers, FiniteSetsExt

CONSTANTS
    Blocks, Events, Root,
    Parent,                 \* [Blocks \ {Root} -> Blocks]
    Height,                 \* [Blocks -> Nat]
    EventsIn,               \* [Blocks -> SUBSET Events]
    Malformed,              \* observations <<block, event>> that are invalid
    StartHeight,            \* startHeight
    BlockBatchSize,         \* blockBatchSize
    CanonicalOverlap,       \* canonicalOverlapBlocks
    OrphanDepth             \* orphanDepthBlocks

VARIABLES
    known,                  \* the archive's blocks
    canonical,              \* the archive's last canonical block
    store,                  \* archive_events, per event identity
    rejections,             \* archive_event_rejections
    cursor,                 \* indexer_cursors
    started,
    settled,                \* history: no request, process or database fails any more
    snapshot,               \* the pending pass
    sync,                   \* the canonical pass
    sweep                   \* the orphan sweep

archive == <<known, canonical>>
database == <<store, rejections, cursor>>
process == <<started, settled>>
passes == <<snapshot, sync, sweep>>
vars == <<archive, database, process, passes>>

Observations == {o \in Blocks \X Events : o[2] \in EventsIn[o[1]]}

ASSUME IndexerAssumption ==
    /\ IsFiniteSet(Blocks) /\ Root \in Blocks
    /\ Parent \in [Blocks \ {Root} -> Blocks]
    /\ Height \in [Blocks -> Nat]
    /\ EventsIn \in [Blocks -> SUBSET Events]
    /\ Height[Root] = 0 /\ EventsIn[Root] = {}
    /\ \A b \in Blocks \ {Root} : Height[b] = Height[Parent[b]] + 1
    /\ \E top \in Blocks : \A b \in Blocks : Height[b] <= Height[top]
    /\ Malformed \subseteq Observations
    /\ StartHeight \in Nat /\ CanonicalOverlap \in Nat /\ OrphanDepth \in Nat
    /\ BlockBatchSize \in Nat \ {0}

None == -1                  \* no cursor yet

Cursors == {"pending", "canonical"}

Rows == [status : {"absent", "pending", "canonical", "orphaned"},
         block : Blocks,
         seen : Nat]        \* pending_seen_at_height; 0 for NULL

Absent == [status |-> "absent", block |-> Root, seen |-> 0]

NoSnapshot == [step |-> "idle", anchor |-> Root, height |-> 0, tips |-> {},
               from |-> 0, rows |-> {}]

NoSync == [step |-> "idle", head |-> 0, from |-> 0, rows |-> {}]

NoSweep == [step |-> "idle", cutoff |-> 0]

-----------------------------------------------------------------------------
(* The tree and the archive *)

ClosedUnderParent(S) == \A b \in S \ {Root} : Parent[b] \in S

\* A block and its ancestors: the least set that is closed and has it.
Branch ==
    [b \in Blocks |->
        {a \in Blocks : \A S \in SUBSET Blocks :
                            b \in S /\ ClosedUnderParent(S) => a \in S}]

\* An event is in a branch once: a transaction is included once.
ASSUME OncePerBranch ==
    \A o, p \in Observations : o[2] = p[2] /\ o[1] \in Branch[p[1]] => o = p

\* Blocks that can still become canonical.
PendingBlocks == {b \in known : b # canonical /\ canonical \in Branch[b]}

MaxHeight == Max({Height[b] : b \in PendingBlocks \cup {canonical}})

\* Ancestors of the highest blocks.
BestChain == UNION {Branch[b] : b \in {t \in PendingBlocks \cup {canonical} :
                                          Height[t] = MaxHeight}}

AtHeight(S, h) == {b \in S : Height[b] = h}

\* The events of blocks from height `from` to before height `until`.
ObservationsIn(S, from, until) ==
    {o \in Observations : o[1] \in S /\ Height[o[1]] \in from..(until - 1)}

LearnBlock(b) ==
    /\ b \notin known
    /\ Parent[b] \in known
    /\ known' = known \cup {b}
    /\ UNCHANGED <<canonical, database, process, passes>>

Finalize(b) ==
    /\ b \in known \ {Root}
    /\ Parent[b] = canonical
    /\ canonical' = b
    /\ UNCHANGED <<known, database, process, passes>>

-----------------------------------------------------------------------------
Init ==
    /\ known = {Root}
    /\ canonical = Root
    /\ store = [e \in Events |-> Absent]
    /\ rejections = {}
    /\ cursor = [c \in Cursors |-> None]
    /\ started = FALSE
    /\ settled = FALSE
    /\ snapshot = NoSnapshot
    /\ sync = NoSync
    /\ sweep = NoSweep

\* The timers are installed and the first passes are not awaited.
Start ==
    /\ ~ started
    /\ started' = TRUE
    /\ UNCHANGED <<archive, database, settled, passes>>

\* The process ends in the middle of its passes.
Crash ==
    /\ ~ settled
    /\ started
    /\ started' = FALSE
    /\ snapshot' = NoSnapshot /\ sync' = NoSync /\ sweep' = NoSweep
    /\ UNCHANGED <<archive, database, settled>>

\* A request to the archive or a transaction fails.
FailPass ==
    /\ ~ settled
    /\ \/ snapshot # NoSnapshot /\ snapshot' = NoSnapshot /\ UNCHANGED <<sync, sweep>>
       \/ sync # NoSync /\ sync' = NoSync /\ UNCHANGED <<snapshot, sweep>>
       \/ sweep # NoSweep /\ sweep' = NoSweep /\ UNCHANGED <<snapshot, sync>>
    /\ UNCHANGED <<archive, database, process>>

\* From here on the surroundings are reliable.
Settle ==
    /\ ~ settled
    /\ settled' = TRUE
    /\ UNCHANGED <<archive, database, started, passes>>

\* An event observed on a block, as upsertAccepted stores it over a row.
\* Mutant: the height of the first sighting outlives the orphaning.
FirstSeen(row, b) == IF row.status = "absent" THEN Height[b] ELSE row.seen

Seen(row, b) == IF row.status = "pending" THEN row.seen ELSE Height[b]

Upsert(row, status, b) ==
    IF status = "canonical"
    THEN [status |-> "canonical", block |-> b, seen |-> row.seen]
    ELSE IF row.status = "canonical" THEN row
    ELSE [status |-> "pending", block |-> b, seen |-> Seen(row, b)]

Orphan(row) == IF row.status = "pending" THEN [row EXCEPT !.status = "orphaned"] ELSE row

\* The store after a batch; `retired` are the events it orphans before.
StoreAfter(rows, status, retired) ==
    [e \in Events |->
        LET old == IF e \in retired THEN Orphan(store[e]) ELSE store[e]
            seen == {o \in rows : o[2] = e}
        IN  IF seen = {} THEN old
            ELSE Upsert(old, status, (CHOOSE o \in seen : TRUE)[1])]

Advance(c, height) == cursor' = [cursor EXCEPT ![c] = Max({@, height})]

-----------------------------------------------------------------------------
(* fetchPendingSnapshot and the transaction that follows it *)

\* The heights, and with them the anchor: the canonical block of a height
\* does not change any more.
ReadHeights ==
    /\ started
    /\ snapshot.step = "idle"
    /\ snapshot' = [NoSnapshot EXCEPT !.step = "blocks", !.anchor = canonical,
                                      !.height = MaxHeight]
    /\ UNCHANGED <<archive, database, process, sync, sweep>>

\* The blocks of the best chain.  Without a tip at the height that was read
\* the pass fails.
ReadBlocks ==
    LET tips == AtHeight(BestChain, snapshot.height)
    IN  /\ snapshot.step = "blocks"
        /\ snapshot' = IF tips = {} THEN NoSnapshot
                       ELSE [snapshot EXCEPT !.step = "events", !.tips = tips,
                                             !.from = Height[snapshot.anchor] + 1]
        /\ UNCHANGED <<archive, database, process, sync, sweep>>

Ambiguous == Cardinality(snapshot.tips) > 1

\* selectPendingChain: from the one tip down to the anchor.
Chain ==
    IF Ambiguous THEN {}
    ELSE {b \in UNION {Branch[t] : t \in snapshot.tips} :
             Height[b] > Height[snapshot.anchor]}

\* A page of events of pending blocks, of which those of the chain are kept.
ReadEvents ==
    LET next == Min({snapshot.from + BlockBatchSize, snapshot.height + 1})
    IN  /\ snapshot.step = "events"
        /\ snapshot' = IF Chain = {} \/ snapshot.from > snapshot.height
                       THEN [snapshot EXCEPT !.step = "heights"]
                       ELSE [snapshot EXCEPT
                                !.from = next,
                                !.rows = @ \cup {o \in ObservationsIn(
                                                    PendingBlocks,
                                                    snapshot.from, next) :
                                                 o[1] \in Chain}]
        /\ UNCHANGED <<archive, database, process, sync, sweep>>

\* Mutant: only the selected tip is verified.
AnyHeights == TRUE

HeightsUnchanged ==
    /\ Height[canonical] = Height[snapshot.anchor]
    /\ MaxHeight = snapshot.height

VerifyHeights ==
    /\ snapshot.step = "heights"
    /\ snapshot' = IF HeightsUnchanged THEN [snapshot EXCEPT !.step = "tips"]
                   ELSE NoSnapshot
    /\ UNCHANGED <<archive, database, process, sync, sweep>>

VerifyTips ==
    /\ snapshot.step = "tips"
    /\ snapshot' = IF AtHeight(BestChain, snapshot.height) = snapshot.tips
                   THEN [snapshot EXCEPT !.step = "ingest"]
                   ELSE NoSnapshot
    /\ UNCHANGED <<archive, database, process, sync, sweep>>

\* Mutant: the transaction trusts the snapshot.
Trusted == TRUE

\* No canonical row stands beside the chain from the anchor on.
Compatible ==
    Ambiguous \/
    \A e \in Events :
        /\ store[e].status = "canonical"
        /\ Height[store[e].block] >= Height[snapshot.anchor]
        => store[e].block \in Chain \cup {snapshot.anchor}

\* Every pending row that the snapshot does not show is retired.
IngestSnapshot ==
    /\ snapshot.step = "ingest"
    /\ IF Compatible /\ snapshot.rows \cap Malformed = {}
       THEN /\ store' = StoreAfter(snapshot.rows, "pending",
                            {e \in Events : \A o \in snapshot.rows : o[2] # e})
            /\ Advance("pending", snapshot.height)
       ELSE UNCHANGED <<store, cursor>>
    /\ snapshot' = NoSnapshot
    /\ UNCHANGED <<archive, rejections, process, sync, sweep>>

-----------------------------------------------------------------------------
(* The canonical pass *)

FirstHeight ==
    IF cursor["canonical"] = None THEN StartHeight
    ELSE IF CanonicalOverlap > 0
         THEN Max({0, cursor["canonical"] - CanonicalOverlap + 1})
         ELSE cursor["canonical"] + 1

\* The archive's head and the cursor, which only this pass writes.
StartSync ==
    /\ started
    /\ sync.step = "idle"
    /\ FirstHeight <= Height[canonical]
    /\ sync' = [NoSync EXCEPT !.step = "events", !.head = Height[canonical],
                              !.from = FirstHeight]
    /\ UNCHANGED <<archive, database, process, snapshot, sweep>>

SyncTo == Min({sync.from + BlockBatchSize - 1, sync.head})

\* Mutant: the archive takes `to` to be exclusive.
UpTo(to) == to

\* The bound that the archive is asked with.
ExclusiveBound(to) == to + 1

ReadCanonical ==
    /\ sync.step = "events"
    /\ sync' = [sync EXCEPT
                   !.step = "ingest",
                   !.rows = ObservationsIn(Branch[canonical], sync.from,
                                           ExclusiveBound(SyncTo))]
    /\ UNCHANGED <<archive, database, process, snapshot, sweep>>

\* A row that becomes canonical retires the pending selection.
RetiredBy(accepted) ==
    IF \E o \in accepted : store[o[2]].status # "canonical" THEN Events ELSE {}

IngestCanonical ==
    LET accepted == sync.rows \ Malformed
    IN  /\ sync.step = "ingest"
        /\ store' = StoreAfter(accepted, "canonical", RetiredBy(accepted))
        /\ rejections' = rejections \cup (sync.rows \cap Malformed)
        /\ Advance("canonical", SyncTo)
        /\ sync' = IF SyncTo = sync.head THEN NoSync
                   ELSE [NoSync EXCEPT !.step = "events", !.head = sync.head,
                                       !.from = SyncTo + 1]
        /\ UNCHANGED <<archive, process, snapshot, sweep>>

-----------------------------------------------------------------------------
(* The orphan sweep: its cursor is read before the lock is taken *)

StartSweep ==
    /\ started
    /\ sweep.step = "idle"
    /\ cursor["canonical"] >= OrphanDepth
    /\ sweep' = [step |-> "mark", cutoff |-> cursor["canonical"] - OrphanDepth]
    /\ UNCHANGED <<archive, database, process, snapshot, sync>>

MarkPendingAsOrphaned ==
    /\ sweep.step = "mark"
    /\ store' = [e \in Events |-> IF store[e].seen <= sweep.cutoff
                                  THEN Orphan(store[e]) ELSE store[e]]
    /\ sweep' = NoSweep
    /\ UNCHANGED <<archive, rejections, cursor, process, snapshot, sync>>

-----------------------------------------------------------------------------
Snapshot ==
    \/ ReadHeights \/ ReadBlocks \/ ReadEvents \/ VerifyHeights \/ VerifyTips
    \/ IngestSnapshot

Sync == StartSync \/ ReadCanonical \/ IngestCanonical

Sweep == StartSweep \/ MarkPendingAsOrphaned

Next ==
    \/ \E b \in Blocks \ {Root} : LearnBlock(b) \/ Finalize(b)
    \/ Start \/ Snapshot \/ Sync \/ Sweep
    \/ Crash \/ FailPass \/ Settle

Spec == Init /\ [][Next]_vars

\* Timers start the passes, requests are answered or time out, a process that
\* ends is started again, and faults are not for ever.
FairSpec ==
    /\ Spec
    /\ WF_vars(Start) /\ WF_vars(Snapshot) /\ WF_vars(Sync) /\ WF_vars(Sweep)
    /\ WF_vars(Settle)

-----------------------------------------------------------------------------
(* Properties *)

TypeOK ==
    /\ known \subseteq Blocks /\ canonical \in known
    /\ store \in [Events -> Rows]
    /\ rejections \subseteq Malformed
    /\ cursor \in [Cursors -> Nat \cup {None}]
    /\ started \in BOOLEAN /\ settled \in BOOLEAN
    /\ snapshot \in [step : {"idle", "blocks", "events", "heights", "tips", "ingest"},
                     anchor : Blocks, height : Nat, tips : SUBSET Blocks,
                     from : Nat, rows : SUBSET Observations]
    /\ sync \in [step : {"idle", "events", "ingest"}, head : Nat, from : Nat,
                 rows : SUBSET Observations]
    /\ sweep \in [step : {"idle", "mark"}, cutoff : Nat]

\* A snapshot that is ingested is whole: it has every event of the selected
\* chain, although it was read in many requests while the archive moved.
SnapshotWhole ==
    snapshot.step = "ingest" =>
        snapshot.rows = {o \in Observations : o[1] \in Chain}

Sound == TypeOK /\ SnapshotWhole

\* At every commit the pending and canonical rows are of one branch, although
\* the canonical pass and the snapshots race.
OneBranch ==
    \A e, f \in Events :
        /\ store[e].status \in {"pending", "canonical"}
        /\ store[f].status \in {"pending", "canonical"}
        => \/ store[e].block \in Branch[store[f].block]
           \/ store[f].block \in Branch[store[e].block]

\* What the canonical cursor has passed is stored as canonical, or rejected.
CursorCovered ==
    \A o \in Observations :
        /\ o[1] \in Branch[canonical]
        /\ Height[o[1]] \in StartHeight..cursor["canonical"]
        => IF o \in Malformed THEN o \in rejections
           ELSE store[o[2]].status = "canonical" /\ store[o[2]].block = o[1]

\* What the proofs of these properties rest on.  The canonical block descends
\* from the anchor of a snapshot under way, and so does its tip; what is read
\* of its chain is whole unless the archive has finalized a block meanwhile.
SnapshotSound ==
    snapshot.step # "idle" =>
        /\ snapshot.anchor \in Branch[canonical]
        /\ Height[snapshot.anchor] <= snapshot.height
        /\ snapshot.step = "blocks" => snapshot.rows = {}
        /\ snapshot.step # "blocks" =>
              /\ snapshot.tips # {}
              /\ \A t \in snapshot.tips :
                    /\ t \in known /\ snapshot.anchor \in Branch[t]
                    /\ Height[t] = snapshot.height
              /\ \A o \in snapshot.rows : o[1] \in Chain
        /\ snapshot.step = "events" /\ canonical = snapshot.anchor =>
              snapshot.rows = {o \in Observations : /\ o[1] \in Chain
                                                   /\ Height[o[1]] < snapshot.from}
        /\ \/ snapshot.step = "heights" /\ canonical = snapshot.anchor
           \/ snapshot.step \in {"tips", "ingest"}
           => snapshot.rows = {o \in Observations : o[1] \in Chain}

\* A canonical pass takes up where the cursor is, or earlier, and a batch that
\* was read stays true.
SyncSound ==
    sync.step # "idle" =>
        /\ sync.from <= sync.head /\ sync.head <= Height[canonical]
        /\ sync.from <= IF cursor["canonical"] = None THEN StartHeight
                        ELSE cursor["canonical"] + 1
        /\ sync.step = "ingest" =>
              sync.rows = ObservationsIn(Branch[canonical], sync.from, SyncTo + 1)

\* Canonical rows are of the canonical branch, and all that is selected is of
\* one branch.
StoreSound ==
    /\ cursor["canonical"] <= Height[canonical]
    /\ \A e \in Events :
          store[e].status = "canonical" =>
              store[e].block \in Branch[canonical] /\ e \in EventsIn[store[e].block]
    /\ \E tip \in Blocks : \A e \in Events :
          store[e].status \in {"pending", "canonical"} => store[e].block \in Branch[tip]

IInv ==
    /\ TypeOK
    /\ ClosedUnderParent(known)
    /\ SnapshotSound
    /\ SyncSound
    /\ StoreSound
    /\ CursorCovered

\* The archive's answer, if its tip is unique.
Selected ==
    LET tips == AtHeight(BestChain, MaxHeight)
    IN  IF Cardinality(tips) > 1 THEN {} ELSE BestChain \ Branch[canonical]

Shows(e, status, S) ==
    \E b \in S : /\ e \in EventsIn[b]
                 /\ store[e].status = status
                 /\ store[e].block = b

Told ==
    /\ \A o \in Observations \ Malformed :
          o[1] \in Branch[canonical] /\ Height[o[1]] >= StartHeight
          => Shows(o[2], "canonical", {o[1]})
    /\ \A o \in Observations : o[1] \in Selected => Shows(o[2], "pending", {o[1]})
    /\ \A e \in Events : store[e].status = "pending" => Shows(e, "pending", Selected)

Invalid == \E o \in Malformed : o[1] \in Selected

\* Once the archive rests, the store shows what it tells and keeps showing
\* it, also for events that moved to another block and were swept; unless an
\* invalid event is in the selected chain.
Converges == <>[](Told \/ Invalid)
=============================================================================
