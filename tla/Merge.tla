-------------------------------- MODULE Merge --------------------------------
(***************************************************************************)
(* Proving one lifecycle: StakingLedgerToVotingLedgerProver.digest proves  *)
(* every trace, MergeProofOrchestrator.merge reduces the base proofs to    *)
(* one root proof, and proveExhaust closes it.  The proving scheduler runs *)
(* the three one after another and starts over when one of them fails;     *)
(* what they have stored survives.  An operator may run prove-merge alone. *)
(*                                                                         *)
(* A proof covers the traces from..to.  Its id is that of its trace, or a  *)
(* hash over the ids of the two proofs it was merged from: it stands for   *)
(* the tree of merges, modelled by the set of the spans in that tree.      *)
(***************************************************************************)
EXTENDS Integers, FiniteSets

CONSTANTS
    N,                      \* traces of the lifecycle
    MergeConcurrency,       \* DEFAULT_DIGEST_, DEFAULT_MERGE_CONCURRENCY
    NoProof,
    MaxMergeFaults          \* bound: failures, crashes, interventions

VARIABLES
    \* storage
    stored,                 \* proofs, under their ids
    root,                   \* the proof under ROOT_PROOF_ID
    exhausted,              \* the proof file of prove-exhaust
    \* the command that runs, and its memory
    stage,
    unwritten,              \* entries that setMany has not written
    proving, storing,       \* digest: tasks in flight, answers to be stored
    count, next,            \* base proofs; the first one not yet read or begun
    pending, running,       \* merge: proofs, and pairs being merged
    completed,
    failure,
    callbackError,          \* digest: a proof has not been written
    stalled,                \* history: merge() ended with "Merge stalled"
    mergeFaults

storage == <<stored, root, exhausted>>
memory == <<unwritten, proving, storing, count, next, pending, running,
            completed, failure, callbackError>>
mergeVars == <<storage, stage, memory, stalled, mergeFaults>>

ASSUME MergeAssumption ==
    /\ N \in Nat \ {0}
    /\ MergeConcurrency \in Nat \ {0}
    /\ MaxMergeFaults \in Nat

Traces == 0..(N - 1)
Spans == Traces \X Traces
Proofs == [id : SUBSET Spans, from : Traces, to : Traces]

ASSUME NoProofAssumption == NoProof \notin Proofs

Base(i) == [id |-> {<<i, i>>}, from |-> i, to |-> i]
BaseProofs == {Base(i) : i \in Traces}

\* Mutant: merges are numbered, as they once were.
NumberedId(p, q) == {<<completed, completed>>, <<0, completed>>}

MergeIdFor(p, q) == p.id \cup q.id \cup {<<p.from, q.to>>}

Merged(p, q) == [id |-> MergeIdFor(p, q), from |-> p.from, to |-> q.to]

MergeInit ==
    /\ stored = {}
    /\ root = NoProof
    /\ exhausted = NoProof
    /\ stage = "idle"
    /\ unwritten = {}
    /\ proving = {}
    /\ storing = {}
    /\ count = 0
    /\ next = 0
    /\ pending = {}
    /\ running = {}
    /\ completed = 0
    /\ failure = FALSE
    /\ callbackError = FALSE
    /\ stalled = FALSE
    /\ mergeFaults = 0

MergeFault == mergeFaults < MaxMergeFaults /\ mergeFaults' = mergeFaults + 1

\* A command begins with an empty memory.
Begin(command) ==
    /\ stage' = command
    /\ unwritten' = {}
    /\ proving' = {}
    /\ storing' = {}
    /\ next' = 0
    /\ pending' = {}
    /\ running' = {}
    /\ completed' = 0
    /\ failure' = FALSE
    /\ callbackError' = FALSE

\* persist, and the callback queue of digest: one write of all entries that
\* are not written yet; if it fails they stay for the next one.
Persist(p, ok) ==
    IF ok
    THEN /\ stored' = stored \cup unwritten \cup {p}
         /\ unwritten' = {}
    ELSE /\ unwritten' = unwritten \cup {p}
         /\ UNCHANGED stored

-----------------------------------------------------------------------------
(* digest *)

StartDigest ==
    /\ stage = "idle"
    /\ exhausted = NoProof
    /\ Begin("digesting")
    /\ UNCHANGED <<storage, count, stalled, mergeFaults>>

\* pendingTraces ends with the first index that has no trace.
HasTrace == next < N

\* The next trace is proved, unless an earlier run has stored its proof.
DigestNext ==
    /\ stage = "digesting"
    /\ ~failure
    /\ HasTrace
    /\ Cardinality(proving) < MergeConcurrency
    /\ proving' = IF Base(next) \in stored THEN proving ELSE proving \cup {next}
    /\ next' = next + 1
    /\ UNCHANGED <<storage, stage, unwritten, storing, count, pending, running,
                   completed, failure, callbackError, stalled, mergeFaults>>

DigestAnswer(i) ==
    /\ stage = "digesting"
    /\ i \in proving
    /\ proving' = proving \ {i}
    /\ storing' = storing \cup {i}
    /\ UNCHANGED <<storage, stage, unwritten, count, next, pending, running,
                   completed, failure, callbackError, stalled, mergeFaults>>

\* A task that failed for good stops the pull of further traces.
DigestTaskFails(i) ==
    /\ stage = "digesting"
    /\ i \in proving
    /\ MergeFault
    /\ proving' = proving \ {i}
    /\ failure' = TRUE
    /\ UNCHANGED <<storage, stage, unwritten, storing, count, next, pending,
                   running, completed, callbackError, stalled>>

DigestStore(i, ok) ==
    /\ stage = "digesting"
    /\ i \in storing
    /\ Persist(Base(i), ok)
    /\ storing' = storing \ {i}
    /\ IF ok THEN UNCHANGED <<callbackError, mergeFaults>>
             ELSE callbackError' = TRUE /\ MergeFault
    /\ UNCHANGED <<root, exhausted, stage, proving, count, next, pending,
                   running, completed, failure, stalled>>

\* A task that failed ends the command with answers not stored; a write that
\* failed lets all the other traces be proved first.
DigestEnds ==
    /\ stage = "digesting"
    /\ proving = {}
    /\ failure \/ (~HasTrace /\ storing = {})
    /\ stage' = IF failure \/ callbackError THEN "idle" ELSE "digested"
    /\ UNCHANGED <<storage, memory, stalled, mergeFaults>>

-----------------------------------------------------------------------------
(* merge *)

StartMerge ==
    /\ \/ stage = "digested" /\ UNCHANGED mergeFaults
       \/ stage = "idle" /\ MergeFault
    /\ stored \cap BaseProofs # {}
    /\ count' = Cardinality(stored \cap BaseProofs)
    /\ Begin("merging")
    /\ UNCHANGED <<storage, stalled>>

\* findMergeableProofs takes the lowest of these.
MergeablePairs(proofs) ==
    {pq \in proofs \X proofs : pq[2].from = pq[1].to + 1}

CanPump == ~failure /\ Cardinality(running) < MergeConcurrency

\* pumpOnce: base proofs are read while nothing can be merged.
ReadBaseProof ==
    /\ stage = "merging"
    /\ CanPump
    /\ MergeablePairs(pending) = {}
    /\ next < count
    /\ IF Base(next) \in stored
       THEN /\ pending' = pending \cup {Base(next)}
            /\ next' = next + 1
            /\ UNCHANGED failure
       ELSE /\ failure' = TRUE
            /\ UNCHANGED <<pending, next>>
    /\ UNCHANGED <<storage, stage, unwritten, proving, storing, count, running,
                   completed, callbackError, stalled, mergeFaults>>

\* pumpOnce: a pair leaves the forest as it is chosen.
ChoosePair ==
    /\ stage = "merging"
    /\ CanPump
    /\ \E pq \in MergeablePairs(pending) :
          /\ \A other \in MergeablePairs(pending) : pq[1].from <= other[1].from
          /\ pending' = pending \ {pq[1], pq[2]}
          /\ running' = running \cup {pq}
    /\ UNCHANGED <<storage, stage, unwritten, proving, storing, count, next,
                   completed, failure, callbackError, stalled, mergeFaults>>

\* mergePair, with p as its merged proof.
PairDone(pq, p) ==
    /\ running' = running \ {pq}
    /\ completed' = completed + 1
    /\ pending' = pending \cup {p}

\* An earlier run has stored the merge of this very pair.
Reuse(pq) ==
    /\ stage = "merging"
    /\ pq \in running
    /\ \E p \in stored :
          /\ p.id = MergeIdFor(pq[1], pq[2])
          /\ PairDone(pq, p)
    /\ UNCHANGED <<storage, stage, unwritten, proving, storing, count, next,
                   failure, callbackError, stalled, mergeFaults>>

NotStored(pq) == \A p \in stored : p.id # MergeIdFor(pq[1], pq[2])

MergeAnswer(pq) ==
    /\ stage = "merging"
    /\ pq \in running
    /\ NotStored(pq)
    /\ Persist(Merged(pq[1], pq[2]), TRUE)
    /\ PairDone(pq, Merged(pq[1], pq[2]))
    /\ UNCHANGED <<root, exhausted, stage, proving, storing, count, next,
                   failure, callbackError, stalled, mergeFaults>>

\* The task fails for good, or its proof cannot be written: the merges in
\* flight go on, no other begins.
MergeFails(pq) ==
    /\ stage = "merging"
    /\ pq \in running
    /\ NotStored(pq)
    /\ MergeFault
    /\ \/ UNCHANGED <<stored, unwritten>>
       \/ Persist(Merged(pq[1], pq[2]), FALSE)
    /\ running' = running \ {pq}
    /\ failure' = TRUE
    /\ UNCHANGED <<root, exhausted, stage, proving, storing, count, next,
                   pending, completed, callbackError, stalled>>

\* Mutant: the drain loop does not wait for the chain of pumps.
NothingRuns == stage = "merging" /\ running = {}

Drained ==
    /\ stage = "merging"
    /\ running = {}
    /\ failure \/ (next = count /\ MergeablePairs(pending) = {})

\* The end of merge().
Publish ==
    /\ Drained
    /\ ~failure
    /\ \E p \in pending :
          /\ pending = {p}
          /\ root' = p
    /\ stage' = "merged"
    /\ UNCHANGED <<stored, exhausted, memory, stalled, mergeFaults>>

MergeThrows ==
    /\ Drained
    /\ failure \/ Cardinality(pending) # 1
    /\ stage' = "idle"
    /\ stalled' = (stalled \/ ~failure)
    /\ UNCHANGED <<storage, memory, mergeFaults>>

-----------------------------------------------------------------------------
(* exhaust *)

\* proveExhaust's own check, and the program's: the account after the last
\* one covered is empty.
RootIsWhole ==
    /\ root # NoProof
    /\ root.from = 0
    /\ root.to = N - 1

Exhaust ==
    /\ stage = "merged"
    /\ exhausted' = IF RootIsWhole THEN root ELSE exhausted
    /\ stage' = "idle"
    /\ UNCHANGED <<stored, root, memory, stalled, mergeFaults>>

\* The process dies, or the write of the root fails.
Crash ==
    /\ stage # "idle"
    /\ MergeFault
    /\ Begin("idle")
    /\ UNCHANGED <<storage, count, stalled>>

-----------------------------------------------------------------------------
MergeNext ==
    \/ StartDigest \/ DigestNext \/ DigestEnds
    \/ \E i \in Traces :
          \/ DigestAnswer(i) \/ DigestTaskFails(i)
          \/ \E ok \in BOOLEAN : DigestStore(i, ok)
    \/ StartMerge \/ ReadBaseProof \/ ChoosePair
    \/ \E pq \in running : Reuse(pq) \/ MergeAnswer(pq) \/ MergeFails(pq)
    \/ Publish \/ MergeThrows \/ Exhaust
    \/ Crash

MergeSpec == MergeInit /\ [][MergeNext]_mergeVars

\* The scheduler and the task queue keep going (TaskQueue!EveryTaskEnds).
MergeFairness ==
    /\ WF_mergeVars(StartDigest) /\ WF_mergeVars(DigestNext)
    /\ WF_mergeVars(DigestEnds)
    /\ \A i \in Traces :
          WF_mergeVars(DigestAnswer(i)) /\ WF_mergeVars(DigestStore(i, TRUE))
    /\ WF_mergeVars(StartMerge) /\ WF_mergeVars(ReadBaseProof)
    /\ WF_mergeVars(ChoosePair)
    /\ WF_mergeVars(\E pq \in running : Reuse(pq) \/ MergeAnswer(pq))
    /\ WF_mergeVars(Publish) /\ WF_mergeVars(MergeThrows)
    /\ WF_mergeVars(Exhaust)

FairMergeSpec == MergeSpec /\ MergeFairness

-----------------------------------------------------------------------------
(* Properties *)

MergeTypeOK ==
    /\ stored \in SUBSET Proofs
    /\ unwritten \in SUBSET Proofs
    /\ root \in Proofs \cup {NoProof}
    /\ exhausted \in Proofs \cup {NoProof}
    /\ stage \in {"idle", "digesting", "digested", "merging", "merged"}
    /\ proving \in SUBSET Traces
    /\ storing \in SUBSET Traces
    /\ count \in 0..N
    /\ next \in 0..N
    /\ pending \in SUBSET Proofs
    /\ running \in SUBSET (Proofs \X Proofs)
    /\ completed \in Nat
    /\ failure \in BOOLEAN
    /\ callbackError \in BOOLEAN
    /\ stalled \in BOOLEAN
    /\ mergeFaults \in 0..MaxMergeFaults

\* The id of a proof tells what it covers.
Known(p) ==
    /\ p.from <= p.to
    /\ <<p.from, p.to>> \in p.id
    /\ \A s \in p.id : p.from <= s[1] /\ s[1] <= s[2] /\ s[2] <= p.to

\* Whatever an interrupted run has left in storage covers what its id says,
\* so that a later run which pairs in another order may reuse it.
StoredCoversItsId == \A p \in stored : Known(p)

\* The proofs that a merge holds, pending or claimed by a running merge.
Held == pending \cup {pq[1] : pq \in running} \cup {pq[2] : pq \in running}

\* Until a merge fails, the base proofs it has read are each covered by one
\* of the proofs it holds.
ForestTiles ==
    /\ \A p, q \in Held : p # q => p.to < q.from \/ q.to < p.from
    /\ stage = "merging" /\ ~failure =>
          \A i \in 0..(next - 1) : \E p \in Held : p.from <= i /\ i <= p.to

\* The published root covers every base proof that was counted, and none of
\* the merges was made for nothing: baseProofCount - 1 of them (merge).
RootIsComplete ==
    stage = "merged" =>
        /\ root.from = 0
        /\ root.to = count - 1
        /\ completed = count - 1

\* A merge whose base proofs are numbered from 0 never stalls.
NeverStalls == ~stalled

\* A proof that passes proveExhaust covers the whole ledger, although a merge
\* may run before all base proofs are there and publish the root of a part.
ExhaustedIsWhole ==
    exhausted # NoProof => exhausted.from = 0 /\ exhausted.to = N - 1

\* What the proofs of these properties rest on.  Every proof that exists tells
\* what it covers; running merges are of neighbours and share no proof; only
\* base proofs that were read are covered; and each of them that is not yet
\* gone into a merge is there.
ProofsKnown == \A p \in stored \cup unwritten \cup Held : Known(p)

ForestSound ==
    /\ ForestTiles
    /\ \A pq \in running : /\ pq[2].from = pq[1].to + 1
                           /\ {pq[1], pq[2]} \cap pending = {}
    /\ \A pq, other \in running :
          pq # other => {pq[1], pq[2]} \cap {other[1], other[2]} = {}
    /\ \A p \in Held : p.to < next

CountsSound ==
    /\ IsFiniteSet(pending) /\ IsFiniteSet(running)
    /\ stage = "merging" => 1 <= count /\ next <= count
    /\ stage = "merging" /\ ~failure =>
          next = completed + Cardinality(pending) + 2 * Cardinality(running)

MergeIInv ==
    /\ MergeTypeOK
    /\ ProofsKnown
    /\ ForestSound
    /\ CountsSound
    /\ RootIsComplete
    /\ NeverStalls
    /\ ExhaustedIsWhole

\* Through failures, crashes and merges begun too early, the lifecycle is
\* proved in the end (proving-scheduler).
Proved == <>(exhausted # NoProof)
=============================================================================
