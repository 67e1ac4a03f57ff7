------------------------------ MODULE Pipeline ------------------------------
(***************************************************************************)
(* From a staking ledger to its proof, as the two schedulers drive it.     *)
(*                                                                         *)
(* The voting-ledger scheduler takes the lifecycles that the external      *)
(* snapshot producer has pointed at a ledger, newest first: it hydrates a  *)
(* database from the payload, checks its root, traces it batch by batch    *)
(* and writes a .done marker.  While it traces, snapshots of the database  *)
(* go to S3, from which an interrupted run resumes.  The proving scheduler *)
(* takes the oldest lifecycle that is done, proves it (module Merge) and   *)
(* writes .proven.  They share nothing but files.                          *)
(***************************************************************************)
EXTENDS Integers

CONSTANTS
    Lifecycles,             \* lifecycle ids
    Hashes,                 \* ledger hashes
    N,                      \* batches of every ledger
    Intervals,              \* CHECKPOINT_INTERVAL, 0: no checkpoints
    Unprovable,             \* lifecycles whose proving always fails
    NoHash, NoDb, Nobody,
    MaxFaults               \* bound: crashes, failures, interventions

VARIABLES
    pointer,                \* lifecycle-<id>.hash
    payload,                \* <hash>.json
    db,                     \* <id>.sqlite
    done, failed, proven,   \* <id>.sqlite.done, .failed, .proven
    s3,                     \* <id>.sqlite.checkpoint in the bucket
    \* the voting-ledger scheduler and its child
    interval, step, pending, current, ledgerHash, index,
    sinceCheckpoint, checkpoint, stopping,
    prover,                 \* the lifecycle that the proving scheduler proves
    faults

external == <<pointer, payload>>
markers == <<done, failed, proven>>
task == <<interval, pending, current, ledgerHash>>
tracing == <<index, sinceCheckpoint, checkpoint, stopping>>
scheduler == <<step, task, tracing>>
vars == <<external, db, markers, s3, scheduler, prover, faults>>

ASSUME PipelineAssumption ==
    /\ Lifecycles \subseteq Nat
    /\ N \in Nat \ {0}
    /\ Intervals \subseteq Nat
    /\ Unprovable \subseteq Lifecycles
    /\ NoHash \notin Hashes
    /\ Nobody \notin Lifecycles
    /\ MaxFaults \in Nat

\* A database: the ledger it was hydrated from, the hash it is tagged with,
\* its trace rows, and how many batches its voting ledger has taken in.  Two
\* history fields: does it go back to a torn copy, which holds rows of two
\* states, and does each trace begin where the one before it ended?
Database == [ledger : Hashes, tag : Hashes \cup {NoHash},
             traces : 0..N, delegated : Nat, torn : BOOLEAN, fits : BOOLEAN]

ASSUME NoDbAssumption == NoDb \notin Database

Hydrated(hash) ==
    [ledger |-> hash, tag |-> NoHash, traces |-> 0, delegated |-> 0,
     torn |-> FALSE, fits |-> TRUE]

NoCheckpoint == [phase |-> "none", snapshot |-> NoDb]

CheckpointingEnabled == interval > 0

TypeOK ==
    /\ pointer \in [Lifecycles -> Hashes \cup {NoHash}]
    /\ payload \in [Hashes -> {"absent", "invalid", "valid"}]
    /\ db \in [Lifecycles -> Database \cup {NoDb}]
    /\ done \in [Lifecycles -> Hashes \cup {NoHash}]
    /\ failed \in [Lifecycles -> BOOLEAN]
    /\ proven \in [Lifecycles -> Hashes \cup {NoHash}]
    /\ s3 \in [Lifecycles -> Database \cup {NoDb}]
    /\ interval \in Intervals
    /\ step \in {"idle", "pass", "retire", "restore", "hydrate", "trace",
                 "tail", "closing", "clean", "finish"}
    /\ pending \in SUBSET Lifecycles
    /\ current \in Lifecycles \cup {Nobody}
    /\ ledgerHash \in Hashes \cup {NoHash}
    /\ index \in 0..N
    /\ sinceCheckpoint \in Nat
    /\ sinceCheckpoint = 0 \/ sinceCheckpoint < interval
    /\ checkpoint \in [phase : {"none", "copying", "pushing"},
                       snapshot : Database \cup {NoDb}]
    /\ stopping \in BOOLEAN
    /\ prover \in Lifecycles \cup {Nobody}
    /\ faults \in 0..MaxFaults

Init ==
    /\ pointer = [id \in Lifecycles |-> NoHash]
    /\ payload = [h \in Hashes |-> "absent"]
    /\ db = [id \in Lifecycles |-> NoDb]
    /\ done = [id \in Lifecycles |-> NoHash]
    /\ failed = [id \in Lifecycles |-> FALSE]
    /\ proven = [id \in Lifecycles |-> NoHash]
    /\ s3 = [id \in Lifecycles |-> NoDb]
    /\ interval \in Intervals
    /\ step = "idle"
    /\ pending = {}
    /\ current = Nobody
    /\ ledgerHash = NoHash
    /\ index = 0
    /\ sinceCheckpoint = 0
    /\ checkpoint = NoCheckpoint
    /\ stopping = FALSE
    /\ prover = Nobody
    /\ faults = 0

Fault == faults < MaxFaults /\ faults' = faults + 1

-----------------------------------------------------------------------------
(* The external snapshot producer *)

\* A lifecycle is pointed at a ledger, or at another one later on.
Point(id, hash) ==
    /\ pointer[id] # hash
    /\ IF pointer[id] = NoHash THEN UNCHANGED faults ELSE Fault
    /\ pointer' = [pointer EXCEPT ![id] = hash]
    /\ UNCHANGED <<payload, db, markers, s3, scheduler, prover>>

\* A payload arrives, possibly corrupt at first.
Deliver(hash, quality) ==
    /\ payload[hash] # "valid"
    /\ payload[hash] # quality
    /\ IF quality = "invalid" THEN Fault ELSE UNCHANGED faults
    /\ payload' = [payload EXCEPT ![hash] = quality]
    /\ UNCHANGED <<pointer, db, markers, s3, scheduler, prover>>

-----------------------------------------------------------------------------
(* Selection *)

\* Mutant: a lifecycle that failed once is left to the operator.
NeverFailed(id) ==
    /\ pointer[id] # NoHash
    /\ done[id] = NoHash
    /\ payload[pointer[id]] # "absent"
    /\ ~failed[id]

\* find_unprocessed_lifecycles; a failed one whose backoff has not run out
\* yet may be left for a later pass.
Unprocessed(id) ==
    /\ pointer[id] # NoHash
    /\ done[id] = NoHash
    /\ payload[pointer[id]] # "absent"

\* process_pending
StartPass(skipped) ==
    /\ step = "idle"
    /\ skipped \subseteq {id \in Lifecycles : failed[id]}
    /\ LET selected == {id \in Lifecycles : Unprocessed(id)} \ skipped
       IN  /\ selected # {}
           /\ pending' = selected
    /\ step' = "pass"
    /\ UNCHANGED <<external, db, markers, s3, interval, current, ledgerHash,
                   tracing, prover, faults>>

\* process_candidate begins: rm of the done marker, then of the proven one.
Process(id) ==
    /\ ledgerHash' = pointer[id]
    /\ IF pointer[id] # NoHash /\ payload[pointer[id]] # "absent"
       THEN /\ done' = [done EXCEPT ![id] = NoHash]
            /\ current' = id
            /\ step' = "retire"
            /\ UNCHANGED failed
       ELSE /\ failed' = [failed EXCEPT ![id] = @ \/ pointer[id] # NoHash]
            /\ UNCHANGED <<done, step, current>>

NewestOf(id, ids) == \A other \in ids : other <= id

ProcessNext ==
    /\ step = "pass"
    /\ \E id \in pending :
          /\ NewestOf(id, pending)
          /\ Process(id)
          /\ pending' = pending \ {id}
    /\ UNCHANGED <<external, db, proven, s3, interval, tracing, prover, faults>>

EndPass ==
    /\ step = "pass"
    /\ pending = {}
    /\ step' = "idle"
    /\ UNCHANGED <<external, db, markers, s3, task, tracing, prover, faults>>

\* process-lifecycle, the controlled rebuild: the operator stops the proving
\* scheduler first if it is at work on this lifecycle.
Rebuild(id) ==
    /\ step = "idle"
    /\ prover # id
    /\ Fault
    /\ Process(id)
    /\ UNCHANGED <<external, db, proven, s3, interval, pending, tracing,
                   prover>>

\* Mutant: the proof of the last run stays marked.
KeepProven(id) == UNCHANGED proven

RetireProven(id) == proven' = [proven EXCEPT ![id] = NoHash]

Retire ==
    /\ step = "retire"
    /\ RetireProven(current)
    /\ step' = IF CheckpointingEnabled THEN "restore" ELSE "hydrate"
    /\ UNCHANGED <<external, db, done, failed, s3, task, tracing, prover,
                   faults>>

\* record_failure, and on to the next lifecycle of the pass.
RecordFailure ==
    /\ failed' = [failed EXCEPT ![current] = TRUE]
    /\ step' = "pass"
    /\ current' = Nobody

-----------------------------------------------------------------------------
(* checkpoint-restore and hydration *)

\* Mutant: any checkpoint of the lifecycle is resumed.
AnyCheckpoint(snapshot) == TRUE

Resumable(snapshot) == snapshot.tag = ledgerHash

Restore ==
    /\ step = "restore"
    /\ IF s3[current] = NoDb
       THEN /\ step' = "hydrate"
            /\ UNCHANGED <<db, index>>
       ELSE IF Resumable(s3[current])
       THEN /\ db' = [db EXCEPT ![current] = s3[current]]
            /\ index' = s3[current].traces
            /\ step' = "trace"
       ELSE /\ db' = [db EXCEPT ![current] = NoDb]
            /\ step' = "hydrate"
            /\ UNCHANGED index
    /\ UNCHANGED <<external, markers, s3, task, sinceCheckpoint, checkpoint,
                   stopping, prover, faults>>

\* The download or the reading of it fails, the file may be there or not.
RestoreFails ==
    /\ step = "restore"
    /\ Fault
    /\ \/ UNCHANGED db
       \/ db' = [db EXCEPT ![current] = s3[current]]
    /\ step' = "hydrate"
    /\ UNCHANGED <<external, markers, s3, task, tracing, prover>>

\* rm, from-file, get-root-hash
Hydrate ==
    /\ step = "hydrate"
    /\ db' = [db EXCEPT ![current] = Hydrated(ledgerHash)]
    /\ IF payload[ledgerHash] = "valid"
       THEN /\ step' = "trace"
            /\ index' = 0
            /\ UNCHANGED <<failed, current>>
       ELSE RecordFailure /\ UNCHANGED index
    /\ UNCHANGED <<external, done, proven, s3, interval, pending, ledgerHash,
                   sinceCheckpoint, checkpoint, stopping, prover, faults>>

-----------------------------------------------------------------------------
(* trace-digest and its checkpoints *)

\* Mutant: the tag is what the lifecycle points at by now.
TaggedAsPointed(d) ==
    IF CheckpointingEnabled THEN [d EXCEPT !.tag = pointer[current]] ELSE d

Tagged(d) == IF CheckpointingEnabled THEN [d EXCEPT !.tag = ledgerHash] ELSE d

\* runCheckpoint: the log is written back, then the copy begins.
StartCheckpoint(d) == [phase |-> "copying", snapshot |-> d]

CheckpointDue == sinceCheckpoint + 1 >= interval

\* One batch: its trace and the voting ledger after it are one write.  The
\* trace begins with the voting ledger of the file, however far that is.
\* Every interval batches a checkpoint begins, unless one is in flight.
TraceBatch ==
    /\ step = "trace"
    /\ index < N
    /\ LET d == [Tagged(db[current]) EXCEPT
                    !.traces = index + 1,
                    !.delegated = @ + 1,
                    !.fits = @ /\ db[current].delegated = index]
           due == CheckpointingEnabled /\ ~stopping /\ CheckpointDue
       IN  /\ db' = [db EXCEPT ![current] = d]
           /\ sinceCheckpoint' = IF due \/ ~CheckpointingEnabled THEN 0
                                 ELSE IF stopping THEN sinceCheckpoint
                                 ELSE sinceCheckpoint + 1
           /\ checkpoint' = IF due /\ checkpoint = NoCheckpoint
                            THEN StartCheckpoint(d) ELSE checkpoint
    /\ index' = index + 1
    /\ step' = IF stopping THEN "tail" ELSE step
    /\ UNCHANGED <<external, markers, s3, task, stopping, prover, faults>>

\* No account is left.
TraceEnds ==
    /\ step = "trace"
    /\ index = N
    /\ db' = [db EXCEPT ![current] = Tagged(@)]
    /\ step' = "tail"
    /\ UNCHANGED <<external, markers, s3, task, tracing, prover, faults>>

\* The file old with the trace rows and the voting ledger of later states.
Mixed(old, t, v) ==
    [old EXCEPT !.traces = t, !.delegated = v,
                !.torn = @ \/ t - old.traces # v - old.delegated]

\* SQLite may write its log back while the file is copied: trace rows and
\* voting ledger are each of some state between the first and the present
\* one, and not always of the same.
Copies(old, new) ==
    {Mixed(old, t, v) : t \in old.traces..new.traces,
                        v \in old.delegated..new.delegated}

CopySnapshot ==
    /\ checkpoint.phase = "copying"
    /\ \E snapshot \in Copies(checkpoint.snapshot, db[current]) :
          checkpoint' = [phase |-> "pushing", snapshot |-> snapshot]
    /\ UNCHANGED <<external, db, markers, s3, step, task, index,
                   sinceCheckpoint, stopping, prover, faults>>

\* An upload takes effect as a whole (the last part completes it).
PushCheckpoint ==
    /\ checkpoint.phase = "pushing"
    /\ s3' = [s3 EXCEPT ![current] = checkpoint.snapshot]
    /\ checkpoint' = NoCheckpoint
    /\ UNCHANGED <<external, db, markers, step, task, index, sinceCheckpoint,
                   stopping, prover, faults>>

\* A failure or the upload's time limit: logged and swallowed.
CheckpointFails ==
    /\ checkpoint # NoCheckpoint
    /\ Fault
    /\ checkpoint' = NoCheckpoint
    /\ UNCHANGED <<external, db, markers, s3, step, task, index,
                   sinceCheckpoint, stopping, prover>>

\* The checkpoint in flight is awaited, then the tail gets its own.
TailCheckpoint ==
    /\ step = "tail"
    /\ checkpoint = NoCheckpoint
    /\ checkpoint' = IF CheckpointingEnabled THEN StartCheckpoint(db[current])
                     ELSE NoCheckpoint
    /\ step' = "closing"
    /\ UNCHANGED <<external, db, markers, s3, task, index, sinceCheckpoint,
                   stopping, prover, faults>>

\* A scheduler that starts, maybe with another configuration.
Idle ==
    /\ step' = "idle"
    /\ pending' = {}
    /\ current' = Nobody
    /\ ledgerHash' = NoHash
    /\ index' = 0
    /\ sinceCheckpoint' = 0
    /\ checkpoint' = NoCheckpoint
    /\ stopping' = FALSE
    /\ interval' \in Intervals

\* The command ends: with an error status if it was told to stop.
TraceCloses ==
    /\ step = "closing"
    /\ checkpoint = NoCheckpoint
    /\ IF stopping THEN Idle
       ELSE /\ step' = IF CheckpointingEnabled THEN "clean" ELSE "finish"
            /\ sinceCheckpoint' = 0
            /\ UNCHANGED <<task, index, checkpoint, stopping>>
    /\ UNCHANGED <<external, db, markers, s3, prover, faults>>

\* A write of a batch fails: the command fails, after the checkpoint in
\* flight has settled one way or the other.
TraceFails ==
    /\ step = "trace"
    /\ checkpoint = NoCheckpoint
    /\ Fault
    /\ IF stopping THEN Idle /\ UNCHANGED failed
       ELSE /\ RecordFailure
            /\ sinceCheckpoint' = 0
            /\ UNCHANGED <<interval, pending, ledgerHash, index, checkpoint,
                           stopping>>
    /\ UNCHANGED <<external, db, done, proven, s3, prover>>

CheckpointClean(ok) ==
    /\ step = "clean"
    /\ IF ok THEN UNCHANGED faults ELSE Fault
    /\ s3' = IF ok THEN [s3 EXCEPT ![current] = NoDb] ELSE s3
    /\ step' = "finish"
    /\ UNCHANGED <<external, db, markers, task, tracing, prover>>

\* Mutant: the pointer is not read again.
StillPointed == TRUE

PointerUnchanged == pointer[current] = ledgerHash

MarkDone ==
    /\ step = "finish"
    /\ IF PointerUnchanged
       THEN /\ failed' = [failed EXCEPT ![current] = FALSE]
            /\ done' = [done EXCEPT ![current] = ledgerHash]
            /\ current' = Nobody
            /\ step' = "pass"
       ELSE RecordFailure /\ UNCHANGED done
    /\ UNCHANGED <<external, db, proven, s3, interval, pending, ledgerHash,
                   tracing, prover, faults>>

\* SIGTERM: tracing stops after the batch, any other command at once.
Terminate ==
    /\ step # "idle"
    /\ ~stopping
    /\ Fault
    /\ IF step \in {"trace", "tail", "closing"}
       THEN /\ stopping' = TRUE
            /\ UNCHANGED <<step, task, index, sinceCheckpoint, checkpoint>>
       ELSE Idle
    /\ UNCHANGED <<external, db, markers, s3, prover>>

\* The container is killed, at whatever it is doing.
Crash ==
    /\ step # "idle"
    /\ Fault
    /\ Idle
    /\ UNCHANGED <<external, db, markers, s3, prover>>

-----------------------------------------------------------------------------
(* The proving scheduler *)

Unproven == {id \in Lifecycles : done[id] # NoHash /\ proven[id] = NoHash}

ProveOldest ==
    /\ prover = Nobody
    /\ \E id \in Unproven :
          /\ \A other \in Unproven : id <= other
          /\ prover' = id
    /\ UNCHANGED <<external, db, markers, s3, scheduler, faults>>

\* The merge of two proofs asserts that the second begins with the voting
\* ledger that the first ends with.
CannotBeProven(id) ==
    \/ id \in Unprovable
    \/ db[id] # NoDb /\ ~db[id].fits

MarkProven ==
    /\ prover # Nobody
    /\ ~CannotBeProven(prover)
    /\ proven' = [proven EXCEPT ![prover] = db[prover].ledger]
    /\ prover' = Nobody
    /\ UNCHANGED <<external, db, done, failed, s3, scheduler, faults>>

\* A step of process_candidate fails: the next cycle begins again.
ProvingFails ==
    /\ prover # Nobody
    /\ IF CannotBeProven(prover) THEN UNCHANGED faults ELSE Fault
    /\ prover' = Nobody
    /\ UNCHANGED <<external, db, markers, s3, scheduler>>

-----------------------------------------------------------------------------
Next ==
    \/ \E id \in Lifecycles, hash \in Hashes : Point(id, hash)
    \/ \E hash \in Hashes, quality \in {"invalid", "valid"} :
          Deliver(hash, quality)
    \/ \E skipped \in SUBSET Lifecycles : StartPass(skipped)
    \/ ProcessNext \/ EndPass
    \/ \E id \in Lifecycles : Rebuild(id)
    \/ Retire \/ Restore \/ RestoreFails \/ Hydrate
    \/ TraceBatch \/ TraceEnds \/ TraceFails
    \/ CopySnapshot \/ PushCheckpoint \/ CheckpointFails
    \/ TailCheckpoint \/ TraceCloses
    \/ \E ok \in BOOLEAN : CheckpointClean(ok)
    \/ MarkDone
    \/ Terminate \/ Crash
    \/ ProveOldest \/ MarkProven \/ ProvingFails

Spec == Init /\ [][Next]_vars

\* The producer delivers, the schedulers poll, a backoff runs out, and a
\* command that nothing disturbs ends.
Fairness ==
    /\ \A id \in Lifecycles : WF_vars(\E hash \in Hashes :
                                  pointer[id] = NoHash /\ Point(id, hash))
    /\ \A hash \in Hashes : WF_vars(Deliver(hash, "valid"))
    /\ WF_vars(StartPass({})) /\ WF_vars(ProcessNext) /\ WF_vars(EndPass)
    /\ WF_vars(Retire) /\ WF_vars(Restore) /\ WF_vars(Hydrate)
    /\ WF_vars(TraceBatch) /\ WF_vars(TraceEnds)
    /\ WF_vars(CopySnapshot) /\ WF_vars(PushCheckpoint)
    /\ WF_vars(TailCheckpoint) /\ WF_vars(TraceCloses)
    /\ WF_vars(CheckpointClean(TRUE)) /\ WF_vars(MarkDone)
    /\ WF_vars(ProveOldest)
    /\ WF_vars(MarkProven \/ (/\ prover # Nobody
                              /\ CannotBeProven(prover)
                              /\ ProvingFails))

FairSpec == Spec /\ Fairness

-----------------------------------------------------------------------------
(* Properties *)

\* Rows of one state: the voting ledger has taken in the batches that there
\* are traces of, and each trace begins where the one before it ended.
OneState(d) == d.delegated = d.traces /\ d.fits

OneStateUnlessTorn(d) == ~d.torn => OneState(d)

\* Every batch has its trace and is delegated once, unless the database goes
\* back to a torn copy.
Complete(d, hash) ==
    d # NoDb /\ d.ledger = hash /\ d.traces = N /\ OneStateUnlessTorn(d)

\* A lifecycle is marked done only over a database with the trace of every
\* batch of the ledger in the marker, however often the run was interrupted,
\* resumed or begun anew; and each batch is delegated once, unless a run was
\* resumed from a torn copy (process_candidate).
DoneIsComplete ==
    \A id \in Lifecycles : done[id] # NoHash => Complete(db[id], done[id])

\* A checkpoint is tagged with the ledger it was hydrated from, whatever the
\* lifecycle points at by the time it is written, so that it is resumed for
\* no other; and unless it goes back to a torn copy it is of one state
\* (runCheckpoint, checkpointRestore).
CheckpointsTagged ==
    \A id \in Lifecycles :
        s3[id] # NoDb => /\ s3[id].tag = s3[id].ledger
                         /\ OneStateUnlessTorn(s3[id])

\* What the code says of a checkpoint: a complete, self-consistent snapshot.
CheckpointsConsistent ==
    \A id \in Lifecycles : s3[id] # NoDb => OneState(s3[id])

\* A done lifecycle that is marked proven has been proven for the ledger that
\* it is done with, also after a rebuild for another one (process_candidate
\* takes both markers back first).
ProvenIsDone ==
    \A id \in Lifecycles :
        done[id] # NoHash /\ proven[id] # NoHash => proven[id] = done[id]

\* What the proofs of these properties rest on.  The lifecycle at work is
\* neither done nor waiting, and its old proof is retired before its database
\* is touched.
AtWork == {"retire", "restore", "hydrate", "trace", "tail", "closing", "clean",
           "finish"}

WorkSound ==
    /\ step \in AtWork =>
          /\ current \in Lifecycles \ pending
          /\ ledgerHash \in Hashes
          /\ done[current] = NoHash
    /\ step \in AtWork \ {"retire"} => proven[current] = NoHash
    /\ step = "idle" => pending = {}
    /\ \A id \in pending : done[id] = NoHash
    /\ prover # Nobody => done[prover] # NoHash

\* A database is as far as the tracer is, and tagged before it is copied.
TracedSound ==
    /\ step \in {"trace", "tail", "closing", "clean", "finish"} =>
          /\ db[current] # NoDb
          /\ db[current].ledger = ledgerHash
          /\ db[current].traces = index
          /\ OneStateUnlessTorn(db[current])
    /\ step = "tail" /\ CheckpointingEnabled => db[current].tag = ledgerHash
    /\ step \in {"tail", "closing"} /\ ~stopping => index = N
    /\ step \in {"clean", "finish"} => index = N

SnapshotSound ==
    checkpoint # NoCheckpoint =>
        /\ step \in {"trace", "tail", "closing"}
        /\ checkpoint.snapshot # NoDb
        /\ OneStateUnlessTorn(checkpoint.snapshot)
        /\ checkpoint.snapshot.tag = checkpoint.snapshot.ledger

IInv ==
    /\ TypeOK
    /\ WorkSound
    /\ TracedSound
    /\ SnapshotSound
    /\ DoneIsComplete
    /\ CheckpointsTagged
    /\ ProvenIsDone

\* A lifecycle is marked done for the ledger that it points at in that
\* moment, also if it was pointed elsewhere in the meantime.
MarkedAsPointed ==
    [][\A id \in Lifecycles :
          done'[id] # NoHash /\ done'[id] # done[id] =>
              done'[id] = pointer[id]]_vars

\* Every lifecycle ends up done, and proven unless it or an older one cannot
\* be proven at all; one behind it does not keep it waiting (the poll loops of
\* both schedulers).
EveryLifecycleProven ==
    \A id \in Lifecycles :
        <>[](/\ done[id] # NoHash
             /\ (\A other \in Lifecycles :
                    CannotBeProven(other) => id < other)
                   => proven[id] # NoHash)
=============================================================================
