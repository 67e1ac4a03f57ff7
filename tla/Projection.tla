------------------------------ MODULE Projection ------------------------------
(***************************************************************************)
(* The projection of one proposal: ProposalProjectionReconciler and the    *)
(* handlers that call it, in the transactions of the events processor.     *)
(*                                                                         *)
(* Each version of an archive row that is processed becomes a fact, and    *)
(* the proposal is computed anew from the facts that survive.  The archive *)
(* moves on meanwhile: events are promoted, orphaned, and shown again in   *)
(* another block.  After a migration the facts are collected again first   *)
(* (a replay).  Readers post the proposal's content at any time.           *)
(*                                                                         *)
(* The archive's rows are external here; they change as module Indexer     *)
(* lets them: at every commit they are of one branch, and canonical rows   *)
(* stay.  Rows carry the sequence number of their transaction.             *)
(***************************************************************************)
EXTENDS Integers, SequencesExt, FiniteSetsExt

CONSTANTS
    Blocks, Root,
    Parent,                 \* [Blocks \ {Root} -> Blocks]
    Height,                 \* [Blocks -> Nat]
    EventsIn,               \* [Blocks -> Seq(Events)]
    Events,
    Type,                   \* [Events -> the five event types]
    Payload,                \* what a toggle, a vote, a tally, a payout says
    Undecodable,            \* events that no handler accepts
    PayoutLimit,            \* amount and bond
    Workers,
    BatchSize,              \* processorBatchSize
    None,
    MaxObservations,        \* bound: commits of the indexer
    MaxCrashes              \* bound: workers that end

VARIABLES
    final, rows, lastSequence,  \* the archive store and its canonical block
    observations,
    offset,                 \* processor_offsets.last_seen_change_sequence
    quarantined,            \* versions <<event, number>>
    facts,                  \* processor_proposal_event_facts
    replay,                 \* processor_proposal_projection_replay
    proposal,               \* processor_proposals and its child tables
    savedContent,           \* processor_proposal_contents
    ledger,                 \* the lifecycle's staking ledger can be read
    prepared, page,         \* of each worker
    transaction,            \* the one that holds the advisory lock
    crashes

store == <<final, rows, lastSequence, observations>>
progress == <<offset, quarantined>>
projection == <<facts, replay, proposal>>
workers == <<prepared, page, crashes>>
vars == <<store, progress, projection, savedContent, ledger, workers,
          transaction>>

ASSUME ProjectionAssumption ==
    /\ Root \in Blocks /\ Height \in [Blocks -> Nat]
    /\ \A b \in Blocks \ {Root} :
          Parent[b] \in Blocks /\ Height[b] = Height[Parent[b]] + 1
    /\ IsFiniteSet(Events) /\ None \notin Events
    /\ Undecodable \subseteq Events
    /\ EventsIn \in [Blocks -> Seq(Events)] /\ EventsIn[Root] = <<>>
    /\ BatchSize \in Nat \ {0}
    /\ PayoutLimit \in Nat
    /\ None \notin Workers
    /\ MaxObservations \in Nat /\ MaxCrashes \in Nat

Rows == [status : {"absent", "pending", "canonical", "orphaned"},
         block : Blocks, seq : Nat]

Absent == [status |-> "absent", block |-> Root, seq |-> 0]

OfType(S, type) == {e \in S : Type[e] = type}

\* A block and its ancestors: the least set with it and with the parents of
\* its members.
ClosedUnderParent(S) == \A b \in S \ {Root} : Parent[b] \in S

Branch ==
    [b \in Blocks |->
        {a \in Blocks : \A S \in SUBSET Blocks :
                            b \in S /\ ClosedUnderParent(S) => a \in S}]

EventsOf(blocks) == UNION {Range(EventsIn[b]) : b \in blocks}

\* Where a branch has an event, and its place there.
RowAt(e, blocks) == CHOOSE c \in blocks : e \in Range(EventsIn[c])

Place(e, block) == CHOOSE i \in DOMAIN EventsIn[block] : EventsIn[block][i] = e

\* SetToSortSeq by counting: much cheaper to evaluate.
InOrder(S, Before(_, _)) ==
    LET ranked == {<<Cardinality({y \in S : Before(y, x)}), x>> : x \in S}
    IN  [i \in 1..Cardinality(S) |-> (CHOOSE p \in ranked : p[1] = i - 1)[2]]

\* The numbers after n for the members of S, in their order.
NumberedAfter(n, S, Before(_, _)) ==
    [x \in S |-> n + 1 + Cardinality({y \in S : Before(y, x)})]

-----------------------------------------------------------------------------
(* The reconciliation of the facts *)

\* Mutant: only what the facts themselves say.
RecordedAsOrphaned(e, F, R) == FALSE

\* A pending fact that the archive has moved on from.
Outdated(e, F, R) ==
    /\ F[e].status = "pending"
    /\ R[e].status = "orphaned" \/ R[e].block # F[e].block

Surviving(F, R) ==
    {e \in Events : /\ F[e].status \in {"pending", "canonical"}
                    /\ ~ Outdated(e, F, R)}

\* assertCoherentProposalBranch
Coherent(F, S) ==
    \A e, f \in S :
        LET b == F[e].block
            c == F[f].block
        IN  /\ Height[b] = Height[c] => b = c
            /\ Height[c] = Height[b] + 1 => Parent[c] = b

\* compareFacts
Earlier(F, e, f) ==
    LET b == F[e].block
        c == F[f].block
    IN  \/ Height[b] < Height[c]
        \/ Height[b] = Height[c] /\ Place(e, b) < Place(f, c)

SourceOrder(F, S) == InOrder(S, LAMBDA e, f : Earlier(F, e, f))

\* selectCreationFact; more than one is an error.
Creations(F, S) ==
    LET surviving == OfType(S, "created")
        canonical == {e \in surviving : F[e].status = "canonical"}
    IN  IF canonical = {} THEN surviving ELSE canonical

Toggle(status) == IF status = "paused" THEN "unknown" ELSE "paused"

StatusAfter(status, e) ==
    CASE Type[e] = "tallied" -> Payload[e]
      [] Type[e] = "toggled" -> Toggle(status)
      [] OTHER -> status

ContractStatus(order) ==
    LET status[i \in 0..Len(order)] ==
            IF i = 0 THEN "unknown" ELSE StatusAfter(status[i - 1], order[i])
    IN  status[Len(order)]

\* The fact that the status comes from: the last tally or toggle, or the
\* creation.
StatusSource(F, S, creation) ==
    LET order == SourceOrder(F, OfType(S, "tallied") \cup OfType(S, "toggled"))
    IN  IF order = <<>> THEN creation ELSE Last(order)

\* Mutant: the last vote counts.
LastVotes(F, S) ==
    {v \in OfType(S, "voted") :
        \A w \in OfType(S, "voted") :
            Payload[w] = Payload[v] => w = v \/ Earlier(F, w, v)}

\* reconcileVotesAndTallies: the votes that own their voter's nullifier.
Owners(F, S) ==
    {v \in OfType(S, "voted") :
        \A w \in OfType(S, "voted") :
            Payload[w] = Payload[v] => w = v \/ Earlier(F, v, w)}

\* reconcilePause: the payloads do not matter.
Paused(S) == Cardinality(OfType(S, "toggled")) % 2 = 1

\* reconcileExecutions
PaidOut(S) == SumFunctionOnSet(Payload, OfType(S, "executed"))

\* What holds of every branch of the chain: an event is once in it, and the
\* contracts create a proposal once and pay up to its limit.
ASSUME ChainAssumption ==
    \A b \in Blocks :
        /\ \A c, d \in Branch[b] :
              Range(EventsIn[c]) \cap Range(EventsIn[d]) # {} => c = d
        /\ \A e, f \in OfType(EventsOf(Branch[b]), "created") : e = f
        /\ \A e \in OfType(EventsOf(Branch[b]), "executed") : Payload[e] \in Nat
        /\ PaidOut(EventsOf(Branch[b])) <= PayoutLimit

\* What makes the reconciliation throw, but for the checks of single payloads
\* (two observations of one event that differ, a tally's sums, a recipient, a
\* missing height), which what the contracts emit and the indexer
\* stores does not fail.
Refused(F, S) ==
    \/ ~ Coherent(F, S)
    \/ Cardinality(Creations(F, S)) > 1
    \/ Creations(F, S) # {} /\ PaidOut(S) > PayoutLimit

Weighable(F, S) ==
    transaction.ledger \/ Creations(F, S) = {} \/ OfType(S, "voted") = {}

NoProposal == [creation |-> None]

\* reconcileProposal, when it is not refused.
Reconciled(F, S, contents) ==
    IF Creations(F, S) = {} THEN NoProposal
    ELSE LET creation == CHOOSE e \in Creations(F, S) : TRUE
             source == StatusSource(F, S, creation)
         IN  [creation |-> creation,
              finality |-> F[creation].status,
              status |-> ContractStatus(SourceOrder(F, S)),
              statusFinality |-> F[source].status,
              paused |-> Paused(S),
              votes |-> OfType(S, "voted"),
              owners |-> Owners(F, S),
              tallies |-> OfType(S, "tallied"),
              paidOut |-> PaidOut(S),
              contents |-> contents]

-----------------------------------------------------------------------------
(* One transaction: it has read rows, content and ledger, and writes the     *)
(* outcome or throws.                                                       *)

NoTransaction == [worker |-> None]

Throws == [ok |-> FALSE]

Writes(F, r, p) == [ok |-> TRUE, facts |-> F, replay |-> r, proposal |-> p]

Reconcile(F, r) ==
    LET S == Surviving(F, transaction.rows)
    IN  IF Refused(F, S) \/ ~ Weighable(F, S) THEN Throws
        ELSE Writes(F, r, Reconciled(F, S, transaction.contents))

\* Mutant: a quarantined version is missing too.
WithoutFact(F, target) ==
    {e \in Events : /\ rows[e].status # "absent"
                    /\ rows[e].seq <= target
                    /\ F[e].seq # rows[e].seq}

\* countMissingReplayFacts, countStaleReplayFacts
Missing(F, target) ==
    {e \in Events : /\ rows[e].status # "absent"
                    /\ rows[e].seq <= target
                    /\ F[e].seq # rows[e].seq
                    /\ <<e, rows[e].seq>> \notin quarantined}

Stale(F, target) ==
    {e \in Events : /\ F[e].status # "absent"
                    /\ F[e].seq <= target
                    /\ F[e].seq # rows[e].seq}

\* rebuildAllCompleteProposalHistories refuses it.
CanonicalChildAlone(F) ==
    /\ \E e \in Events : F[e].status = "canonical" /\ Type[e] # "created"
    /\ \A e \in OfType(Events, "created") : F[e].status # "canonical"

\* Mutant: the target is not looked up again.
FirstTarget == replay.target

LatestTarget == Max({replay.target, lastSequence})

\* finishReplay, with the archive locked from the second comparison on.
FinishReplay(F, processed) ==
    LET extended == [replay EXCEPT !.target = LatestTarget]
    IN  IF processed < replay.target
        THEN Writes(F, replay, proposal)
        ELSE IF processed < LatestTarget \/ LatestTarget = 0
        THEN Writes(F, extended, proposal)
        ELSE IF \/ Missing(F, LatestTarget) # {}
                \/ Stale(F, LatestTarget) # {}
                \/ CanonicalChildAlone(F)
        THEN Throws
        ELSE Reconcile(F, [extended EXCEPT !.state = "complete"])

\* The conditional upsert.
Newer(old, new) == IF old.seq < new.seq THEN new ELSE old

\* recordAndReconcile
Recorded(e, version) ==
    LET F == [facts EXCEPT ![e] = Newer(@, version)]
    IN  IF F[e].seq > version.seq THEN Writes(F, replay, proposal)
        ELSE IF replay.state = "collecting" THEN FinishReplay(F, version.seq)
        ELSE Reconcile(F, replay)

Begin(w, items) ==
    transaction' = [worker |-> w, items |-> items, rows |-> rows,
                    contents |-> savedContent, ledger |-> ledger]

\* lockArchiveReplaySnapshot
ArchiveLocked ==
    /\ transaction # NoTransaction
    /\ replay.state = "collecting"
    /\ \A i \in Range(transaction.items) :
          i.version.seq >= replay.target /\ i.version.seq >= facts[i.event].seq

-----------------------------------------------------------------------------
(* The archive *)

\* What the indexer stores when the canonical block is b and it selects the
\* branch of t.
Shown(e, b, t) ==
    IF e \in EventsOf(Branch[t])
    THEN LET block == RowAt(e, Branch[t])
         IN  [status |-> IF block \in Branch[b] THEN "canonical" ELSE "pending",
              block |-> block]
    ELSE [status |-> IF rows[e].status = "pending" THEN "orphaned"
                     ELSE rows[e].status,
          block |-> rows[e].block]

Changed(b, t) ==
    {e \in Events : \/ Shown(e, b, t).status # rows[e].status
                    \/ Shown(e, b, t).block # rows[e].block}

\* The order in which the rows that change are numbered: first those that are
\* orphaned.  One statement orphans them in some order, here one of two.
NumberedBefore(b, t, inReverse, e, f) ==
    LET Orphaned(x) == Shown(x, b, t).status = "orphaned"
        after == [x \in Events |-> Shown(x, b, t)]
    IN  \/ Orphaned(e) /\ ~ Orphaned(f)
        \/ /\ Orphaned(e) /\ Orphaned(f)
           /\ IF inReverse THEN rows[f].seq < rows[e].seq
                           ELSE rows[e].seq < rows[f].seq
        \/ ~ Orphaned(e) /\ ~ Orphaned(f) /\ Earlier(after, e, f)

RowsAfter(b, t, inReverse) ==
    LET number == NumberedAfter(lastSequence, Changed(b, t),
                      LAMBDA e, f : NumberedBefore(b, t, inReverse, e, f))
    IN  [e \in Events |->
            IF e \notin Changed(b, t) THEN rows[e]
            ELSE [status |-> Shown(e, b, t).status, block |-> Shown(e, b, t).block,
                  seq |-> number[e]]]

\* A commit of the indexer; it waits for a replay that holds its locks.
Observe(b, t) ==
    /\ observations < MaxObservations
    /\ ~ ArchiveLocked
    /\ final \in Branch[b] /\ b \in Branch[t]
    /\ Changed(b, t) # {}
    /\ \E inReverse \in BOOLEAN : rows' = RowsAfter(b, t, inReverse)
    /\ lastSequence' = lastSequence + Cardinality(Changed(b, t))
    /\ final' = b
    /\ observations' = observations + 1
    /\ UNCHANGED <<progress, projection, savedContent, ledger, workers,
                   transaction>>

\* The lifecycle's database is marked done (module Pipeline).
LedgerBuilt ==
    /\ ~ ledger
    /\ ledger' = TRUE
    /\ UNCHANGED <<store, progress, projection, savedContent, workers,
                   transaction>>

\* POST /proposals/:id/content for a row that is there; the row is not
\* locked yet by the transaction that is about to replace it.
PostContent ==
    /\ proposal # NoProposal
    /\ ~ savedContent
    /\ savedContent' = TRUE
    /\ proposal' = [proposal EXCEPT !.contents = TRUE]
    /\ UNCHANGED <<store, progress, facts, replay, ledger, workers,
                   transaction>>

-----------------------------------------------------------------------------
(* The workers *)

\* beforeProcessing: rewindProposalProjectionReplay
Start(w) ==
    /\ ~ prepared[w]
    /\ prepared' = [prepared EXCEPT ![w] = TRUE]
    /\ offset' = IF replay.state = "collecting" THEN 0 ELSE offset
    /\ UNCHANGED <<store, quarantined, projection, savedContent, ledger, page,
                   crashes, transaction>>

Versions(above) ==
    {e \in Events : rows[e].status # "absent" /\ rows[e].seq > above}

\* The first BatchSize rows above the offset, in the order of their numbers.
FetchPage(w) ==
    LET above == Versions(offset)
        inOrder == InOrder(above, LAMBDA e, f : rows[e].seq < rows[f].seq)
    IN  /\ prepared[w]
        /\ page[w] = <<>>
        /\ above # {}
        /\ page' = [page EXCEPT ![w] =
               [i \in 1..Min({BatchSize, Cardinality(above)}) |->
                   [event |-> inOrder[i], version |-> rows[inOrder[i]]]]]
        /\ UNCHANGED <<store, progress, projection, savedContent, ledger,
                       prepared, crashes, transaction>>

AtHead(w) == transaction = NoTransaction /\ page[w] # <<>>

Item(w) == Head(page[w])

Skip(w) ==
    /\ AtHead(w)
    /\ offset >= Item(w).version.seq
    /\ page' = [page EXCEPT ![w] = Tail(@)]
    /\ UNCHANGED <<store, progress, projection, savedContent, ledger, prepared,
                   crashes, transaction>>

Quarantine(w) ==
    /\ AtHead(w)
    /\ offset < Item(w).version.seq
    /\ Item(w).event \in Undecodable
    /\ quarantined' = quarantined \cup {<<Item(w).event, Item(w).version.seq>>}
    /\ offset' = Item(w).version.seq
    /\ page' = [page EXCEPT ![w] = Tail(@)]
    /\ UNCHANGED <<store, projection, savedContent, ledger, prepared, crashes,
                   transaction>>

\* tryHandle: the reads of the transaction.
Handle(w) ==
    /\ AtHead(w)
    /\ offset < Item(w).version.seq
    /\ Item(w).event \notin Undecodable
    /\ Begin(w, <<Item(w)>>)
    /\ UNCHANGED <<store, progress, projection, savedContent, ledger, workers>>

\* afterProcessing: a replay whose last versions were quarantined.
AfterPass(w) ==
    /\ prepared[w] /\ page[w] = <<>>
    /\ transaction = NoTransaction
    /\ replay.state = "collecting"
    /\ offset >= replay.target /\ LatestTarget > 0
    /\ Begin(w, <<>>)
    /\ UNCHANGED <<store, progress, projection, savedContent, ledger, workers>>

\* Its writes, and the offset; or a rollback, and the pass ends.
Finish(w) ==
    /\ transaction.worker = w
    /\ transaction' = NoTransaction
    /\ LET items == transaction.items
           outcome == IF items = <<>> THEN FinishReplay(facts, offset)
                      ELSE Recorded(items[1].event, items[1].version)
       IN  \/ /\ outcome.ok
              /\ facts' = outcome.facts
              /\ replay' = outcome.replay
              /\ proposal' = outcome.proposal
              /\ IF items = <<>> THEN UNCHANGED <<offset, page>>
                 ELSE /\ offset' = items[1].version.seq
                      /\ page' = [page EXCEPT ![w] = Tail(@)]
           \/ /\ ~ outcome.ok
              /\ page' = [page EXCEPT ![w] = <<>>]
              /\ UNCHANGED <<projection, offset>>
    /\ UNCHANGED <<store, quarantined, savedContent, ledger, prepared, crashes>>

RolledBack(w) == IF transaction.worker = w THEN NoTransaction ELSE transaction

Crash(w) ==
    /\ prepared[w]
    /\ crashes < MaxCrashes
    /\ crashes' = crashes + 1
    /\ prepared' = [prepared EXCEPT ![w] = FALSE]
    /\ page' = [page EXCEPT ![w] = <<>>]
    /\ transaction' = RolledBack(w)
    /\ UNCHANGED <<store, progress, projection, savedContent, ledger>>

-----------------------------------------------------------------------------

\* A database without events; or one that a migration has emptied of facts
\* and rewound, with the rows that the archive had.
Init ==
    /\ \/ /\ final = Root /\ rows = [e \in Events |-> Absent] /\ lastSequence = 0
          /\ replay = [state |-> "complete", target |-> 0]
       \/ \E b, t \in Blocks :
             LET shown == EventsOf(Branch[t])
                 at == [e \in shown |-> [block |-> RowAt(e, Branch[t])]]
                 number == NumberedAfter(0, shown, LAMBDA e, f : Earlier(at, e, f))
             IN  /\ b \in Branch[t] /\ shown # {}
                 /\ final = b /\ lastSequence = Cardinality(shown)
                 /\ rows = [e \in Events |->
                       IF e \notin shown THEN Absent
                       ELSE [status |-> IF at[e].block \in Branch[b]
                                        THEN "canonical" ELSE "pending",
                             block |-> at[e].block,
                             seq |-> number[e]]]
                 /\ replay = [state |-> "collecting", target |-> lastSequence]
    /\ observations = 0
    /\ offset = 0 /\ quarantined = {}
    /\ facts = [e \in Events |-> Absent]
    /\ proposal = NoProposal /\ savedContent = FALSE
    /\ ledger \in BOOLEAN
    /\ prepared = [w \in Workers |-> FALSE]
    /\ page = [w \in Workers |-> <<>>]
    /\ transaction = NoTransaction
    /\ crashes = 0

Poll(w) ==
    \/ Start(w) \/ FetchPage(w) \/ Skip(w) \/ Quarantine(w)
    \/ Handle(w) \/ AfterPass(w)

Next ==
    \/ \E b, t \in Blocks : Observe(b, t)
    \/ LedgerBuilt
    \/ PostContent
    \/ \E w \in Workers : Poll(w) \/ Finish(w) \/ Crash(w)

Spec == Init /\ [][Next]_vars

\* Some worker goes on polling, and transactions end; the archive may stop, and
\* nobody has to post content.
Fairness ==
    /\ WF_vars(LedgerBuilt)
    /\ WF_vars(\E w \in Workers : Poll(w))
    /\ WF_transaction(transaction # NoTransaction /\ transaction' = NoTransaction)

FairSpec == Spec /\ Fairness

-----------------------------------------------------------------------------

Versioned == [event : Events, version : Rows]

TypeOK ==
    /\ final \in Blocks /\ rows \in [Events -> Rows]
    /\ lastSequence \in Nat /\ observations \in 0..MaxObservations
    /\ offset \in 0..lastSequence
    /\ quarantined \subseteq Undecodable \X (1..lastSequence)
    /\ facts \in [Events -> Rows]
    /\ \A e \in Events : facts[e].seq <= rows[e].seq
    /\ replay \in [state : {"collecting", "complete"}, target : 0..lastSequence]
    /\ savedContent \in BOOLEAN /\ ledger \in BOOLEAN
    /\ prepared \in [Workers -> BOOLEAN]
    /\ \A w \in Workers :
          /\ Len(page[w]) <= BatchSize
          /\ Range(page[w]) \subseteq Versioned
          /\ ~ prepared[w] => page[w] = <<>>
    /\ transaction # NoTransaction => prepared[transaction.worker]
    /\ proposal # NoProposal => \E e \in OfType(Events, "created") : facts[e].status # "absent"

\* No reconciliation is refused: whatever the archive did since the facts
\* were recorded, those that survive are of one branch, of one creation and
\* within the payout limit, so that the line is never held for ever.
EveryVersionAccepted == ~ Refused(facts, Surviving(facts, rows))

\* At every step, transactions under way included.
Sound == TypeOK /\ EveryVersionAccepted

\* The contracts' state after one more event: a toggle or a tally leaves the
\* status that its event names, and the first vote of a voter counts.
Untouched ==
    [created |-> None, status |-> "unknown", voters |-> {}, counted |-> {},
     paid |-> 0]

After(s, e) ==
    LET first == Type[e] = "voted" /\ Payload[e] \notin s.voters
    IN  [created |-> IF Type[e] = "created" THEN e ELSE s.created,
         status |-> IF Type[e] \in {"toggled", "tallied"} THEN Payload[e]
                    ELSE s.status,
         voters |-> IF first THEN s.voters \cup {Payload[e]} ELSE s.voters,
         counted |-> IF first THEN s.counted \cup {e} ELSE s.counted,
         paid |-> IF Type[e] = "executed" THEN s.paid + Payload[e] ELSE s.paid]

ContractStates(order) ==
    LET after[i \in 0..Len(order)] ==
            IF i = 0 THEN Untouched ELSE After(after[i - 1], order[i])
    IN  after

\* In the chain, e is before f: in an ancestor of its block, or above it.
Precedes(block, e, f) ==
    \/ block[e] # block[f] /\ block[e] \in Branch[block[f]]
    \/ block[e] = block[f] /\ Place(e, block[e]) < Place(f, block[f])

ChainOrder(S, block) == InOrder(S, LAMBDA e, f : Precedes(block, e, f))

\* What the contracts check of the status: a toggle names the other one
\* (setPaused), a tally is refused of a paused proposal and leaves it unpaused
\* (tallyVotes).  An event of these that cannot be decoded is not foreseen: a
\* projection that has skipped it is wrong from there on.
ASSUME StatusAssumption ==
    \A b \in Blocks :
        LET S == EventsOf(Branch[b])
            order == ChainOrder(S \ Undecodable, [e \in S |-> RowAt(e, Branch[b])])
        IN  \A i \in 1..Len(order) :
                LET before == ContractStates(order)[i - 1].status
                IN  /\ Type[order[i]] = "toggled" => Payload[order[i]] = Toggle(before)
                    /\ Type[order[i]] = "tallied" =>
                          before # "paused" /\ Payload[order[i]] # "paused"

\* What the archive shows of the contracts.
OnChain == {e \in Events \ Undecodable : rows[e].status \in {"pending", "canonical"}}

ContractState ==
    LET order == ChainOrder(OnChain, [e \in Events |-> rows[e].block])
    IN  ContractStates(order)[Len(order)]

Agrees(p) ==
    LET state == ContractState
    IN  /\ p.creation = state.created
        /\ p # NoProposal =>
              /\ p.finality = rows[p.creation].status
              /\ p.status = state.status
              /\ p.paused <=> state.status = "paused"
              /\ p.owners = state.counted
              /\ p.votes = OfType(OnChain, "voted")
              /\ p.tallies = OfType(OnChain, "tallied")
              /\ p.paidOut = state.paid

\* When the processor has nothing left to process, the proposal shows the
\* state of the contract after the events that the archive shows.
ProjectionCurrent ==
    /\ transaction = NoTransaction
    /\ replay.state = "complete"
    /\ Versions(offset) = {}
    => Agrees(proposal)

\* A replay ends only when every row has its fact, or is quarantined; the
\* proposal is then rebuilt from those facts, and nothing is left to process,
\* so that ProjectionCurrent holds of it from the same step on.
ReplayWhole ==
    [][replay.state = "collecting" /\ replay'.state = "complete"
       => /\ \A e \in Events \ Undecodable : facts'[e] = rows[e]
          /\ \E contents \in BOOLEAN :
                proposal' = Reconciled(facts', Surviving(facts', rows), contents)
          /\ rows' = rows /\ Versions(offset)' = {} /\ transaction' = NoTransaction]_vars

\* Once the archive is quiet the projection catches up.
CatchesUp ==
    <>[](/\ replay.state = "complete"
         /\ Versions(offset) = {})

\* Content that was accepted is shown with its proposal.
ContentShown ==
    savedContent /\ proposal # NoProposal /\ transaction = NoTransaction
    => proposal.contents
=============================================================================
