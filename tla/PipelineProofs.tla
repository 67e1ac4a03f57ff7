---------------------------- MODULE PipelineProofs ----------------------------
(***************************************************************************)
(* Proofs about Pipeline for any lifecycles, ledgers, batches, checkpoint  *)
(* intervals and faults: markers tell the truth, a checkpoint is tagged    *)
(* with its ledger, and what does not go back to a copy that SQLite wrote  *)
(* into is of one state.                                                   *)
(***************************************************************************)
EXTENDS Pipeline, TLAPS

USE PipelineAssumption, NoDbAssumption

-----------------------------------------------------------------------------
(* Parts of the state that many steps leave alone                          *)

Markers == DoneIsComplete /\ CheckpointsTagged /\ ProvenIsDone

LEMMA InvParts ==
    IInv <=> /\ TypeOK /\ WorkSound /\ TracedSound /\ SnapshotSound
             /\ Markers
BY DEF IInv, Markers

LEMMA MarkersFrame ==
    ASSUME Markers, UNCHANGED <<db, done, proven, s3>>
    PROVE  Markers'
BY DEF Markers, DoneIsComplete, Complete, CheckpointsTagged, ProvenIsDone

\* Only the database of the lifecycle at work, which is not done, changes.
LEMMA MarkersWork ==
    ASSUME IInv, step \in AtWork, UNCHANGED <<done, proven, s3>>,
           NEW d, db' = [db EXCEPT ![current] = d]
    PROVE  Markers'
<1>1. db \in [Lifecycles -> Database \cup {NoDb}]
  BY DEF IInv, TypeOK
<1>2. done[current] = NoHash
  BY DEF IInv, WorkSound
<1>3. DoneIsComplete'
  BY <1>1, <1>2 DEF IInv, DoneIsComplete, Complete
<1>. QED
  BY <1>3 DEF IInv, Markers, CheckpointsTagged, ProvenIsDone

LEMMA FaultType ==
    faults \in 0..MaxFaults /\ (Fault \/ UNCHANGED faults)
        => faults' \in 0..MaxFaults
BY DEF Fault

\* The scheduler or its child stops, whatever it was doing.
LEMMA IdleStep ==
    ASSUME IInv, Idle, UNCHANGED <<external, db, markers, s3, prover>>,
           Fault \/ UNCHANGED faults
    PROVE  IInv'
<1>1. TypeOK'
  <2>1. TypeOK /\ faults' \in 0..MaxFaults
    BY FaultType DEF IInv, TypeOK
  <2>2. stopping' \in BOOLEAN
    BY DEF Idle
  <2>3. checkpoint' \in [phase : {"none", "copying", "pushing"},
                         snapshot : Database \cup {NoDb}]
    BY DEF Idle, NoCheckpoint
  <2>4. index' \in 0..N
    BY DEF Idle
  <2>. QED
    BY <2>1, <2>2, <2>3, <2>4 DEF TypeOK, Idle, external, markers
<1>2. WorkSound' /\ TracedSound' /\ SnapshotSound'
  BY DEF IInv, WorkSound, TracedSound, SnapshotSound, Idle, markers, AtWork
<1>3. Markers'
  BY InvParts, MarkersFrame DEF markers
<1>. QED  BY <1>1, <1>2, <1>3 DEF IInv, Markers

-----------------------------------------------------------------------------
(* The producer and the prover                                             *)

\* The scheduler's own state and what it keeps in files.
LEMMA SchedulerFrame ==
    ASSUME WorkSound, TracedSound, SnapshotSound,
           UNCHANGED <<db, done, scheduler>>,
           step \in AtWork \ {"retire"} =>
               proven'[current] = NoHash \/ UNCHANGED proven,
           prover' # Nobody => done[prover'] # NoHash
    PROVE  WorkSound' /\ TracedSound' /\ SnapshotSound'
<1>1. WorkSound'
  BY DEF WorkSound, AtWork, scheduler, task, tracing
<1>2. TracedSound'
  BY DEF TracedSound, CheckpointingEnabled, scheduler, task, tracing
<1>3. SnapshotSound'
  BY DEF SnapshotSound, scheduler, task, tracing
<1>. QED  BY <1>1, <1>2, <1>3

LEMMA SchedulerType ==
    ASSUME TypeOK, UNCHANGED <<db, markers, s3, scheduler>>,
           pointer' \in [Lifecycles -> Hashes \cup {NoHash}],
           payload' \in [Hashes -> {"absent", "invalid", "valid"}],
           prover' \in Lifecycles \cup {Nobody},
           faults' \in 0..MaxFaults
    PROVE  TypeOK'
BY DEF TypeOK, markers, scheduler, task, tracing

LEMMA PointStep ==
    ASSUME IInv, NEW id \in Lifecycles, NEW hash \in Hashes, Point(id, hash)
    PROVE  IInv'
<1>1. faults' \in 0..MaxFaults
  BY FaultType DEF IInv, TypeOK, Point
<1>2. TypeOK'
  <2>1. pointer' \in [Lifecycles -> Hashes \cup {NoHash}]
    BY DEF IInv, TypeOK, Point
  <2>. QED  BY <1>1, <2>1, SchedulerType DEF IInv, TypeOK, Point
<1>3. WorkSound' /\ TracedSound' /\ SnapshotSound'
  BY SchedulerFrame DEF IInv, WorkSound, Point, markers
<1>4. Markers'
  BY InvParts, MarkersFrame DEF Point, markers
<1>. QED  BY <1>2, <1>3, <1>4 DEF IInv, Markers

LEMMA DeliverStep ==
    ASSUME IInv, NEW hash \in Hashes, NEW quality \in {"invalid", "valid"},
           Deliver(hash, quality)
    PROVE  IInv'
<1>1. faults' \in 0..MaxFaults
  BY FaultType DEF IInv, TypeOK, Deliver
<1>2. TypeOK'
  <2>1. payload' \in [Hashes -> {"absent", "invalid", "valid"}]
    BY DEF IInv, TypeOK, Deliver
  <2>. QED  BY <1>1, <2>1, SchedulerType DEF IInv, TypeOK, Deliver
<1>3. WorkSound' /\ TracedSound' /\ SnapshotSound'
  BY SchedulerFrame DEF IInv, WorkSound, Deliver, markers
<1>4. Markers'
  BY InvParts, MarkersFrame DEF Deliver, markers
<1>. QED  BY <1>2, <1>3, <1>4 DEF IInv, Markers

LEMMA ProverTurnStep ==
    ASSUME IInv, ProveOldest \/ ProvingFails
    PROVE  IInv'
<1>1. /\ prover' \in Lifecycles \cup {Nobody}
      /\ prover' # Nobody => done[prover'] # NoHash
      /\ UNCHANGED <<external, db, markers, s3, scheduler>>
      /\ faults' \in 0..MaxFaults
  BY FaultType DEF IInv, TypeOK, ProveOldest, ProvingFails, Unproven
<1>2. TypeOK'
  BY <1>1, SchedulerType DEF IInv, TypeOK, external
<1>3. WorkSound' /\ TracedSound' /\ SnapshotSound'
  BY <1>1, SchedulerFrame DEF IInv, markers
<1>4. Markers'
  BY <1>1, InvParts, MarkersFrame DEF markers
<1>. QED  BY <1>2, <1>3, <1>4 DEF IInv, Markers

\* What is being proven is done, so the mark is for the ledger it is done with.
LEMMA MarkProvenStep == IInv /\ MarkProven => IInv'
<1>. SUFFICES ASSUME IInv, MarkProven PROVE IInv'
  OBVIOUS
<1>1. /\ prover \in Lifecycles /\ done[prover] # NoHash
      /\ db[prover] # NoDb /\ db[prover].ledger = done[prover]
  BY DEF IInv, TypeOK, WorkSound, DoneIsComplete, Complete, MarkProven
<1>2. db[prover].ledger \in Hashes
  <2>1. db[prover] \in Database
    BY <1>1 DEF IInv, TypeOK
  <2>. QED  BY <2>1 DEF Database
<1>3. /\ proven' = [proven EXCEPT ![prover] = db[prover].ledger]
      /\ prover' = Nobody
      /\ UNCHANGED <<external, db, done, failed, s3, scheduler, faults>>
  BY DEF MarkProven
<1>4. TypeOK'
  <2>1. TypeOK
    BY DEF IInv
  <2>2. proven' \in [Lifecycles -> Hashes \cup {NoHash}]
    BY <1>2, <1>3, <2>1 DEF TypeOK
  <2>. QED  BY <1>3, <2>1, <2>2 DEF TypeOK, external, scheduler, task, tracing
<1>5. WorkSound' /\ TracedSound' /\ SnapshotSound'
  <2>1. step \in AtWork \ {"retire"} => proven'[current] = NoHash
    BY <1>1, <1>3 DEF IInv, WorkSound, AtWork
  <2>. QED  BY <1>3, <2>1, SchedulerFrame DEF IInv
<1>6. Markers'
  <2>1. DoneIsComplete' /\ CheckpointsTagged'
    BY <1>3 DEF IInv, DoneIsComplete, Complete, CheckpointsTagged
  <2>2. ProvenIsDone'
    BY <1>1, <1>3 DEF IInv, TypeOK, ProvenIsDone
  <2>. QED  BY <2>1, <2>2 DEF Markers
<1>. QED  BY <1>4, <1>5, <1>6 DEF IInv, Markers

-----------------------------------------------------------------------------
(* Selection                                                               *)

LEMMA StartPassStep ==
    ASSUME IInv, NEW skipped \in SUBSET Lifecycles, StartPass(skipped)
    PROVE  IInv'
<1>1. /\ pending' \subseteq Lifecycles
      /\ \A id \in pending' : done[id] = NoHash
  BY DEF StartPass, Unprocessed
<1>2. TypeOK'
  <2>1. TypeOK
    BY DEF IInv
  <2>. QED
    BY <1>1, <2>1 DEF TypeOK, StartPass, external, markers, tracing
<1>3. WorkSound' /\ TracedSound' /\ SnapshotSound'
  BY <1>1 DEF IInv, WorkSound, TracedSound, SnapshotSound, StartPass, AtWork,
              markers, tracing
<1>4. Markers'
  BY InvParts, MarkersFrame DEF StartPass, markers
<1>. QED  BY <1>2, <1>3, <1>4 DEF IInv, Markers

\* process_candidate begins on a lifecycle that is not being proven.
LEMMA ProcessStep ==
    ASSUME IInv, step \in {"idle", "pass"}, NEW id \in Lifecycles, Process(id),
           prover # id,
           pending' = pending \ {id},
           faults' \in 0..MaxFaults,
           UNCHANGED <<external, db, proven, s3, interval, tracing, prover>>
    PROVE  IInv'
<1>1. CASE pointer[id] # NoHash /\ payload[pointer[id]] # "absent"
  <2>1. /\ ledgerHash' = pointer[id] /\ current' = id /\ step' = "retire"
        /\ done' = [done EXCEPT ![id] = NoHash] /\ failed' = failed
    BY <1>1 DEF Process
  <2>2. TypeOK
    BY DEF IInv
  <2>3. ledgerHash' \in Hashes
    BY <1>1, <2>1, <2>2 DEF TypeOK
  <2>4. TypeOK'
    BY <2>1, <2>2, <2>3 DEF TypeOK, external, tracing
  <2>5. WorkSound'
    BY <2>1, <2>2, <2>3 DEF IInv, TypeOK, WorkSound, AtWork
  <2>6. TracedSound' /\ SnapshotSound'
    BY <2>1 DEF IInv, TracedSound, SnapshotSound, tracing
  <2>7. Markers'
    BY <2>1, <2>2 DEF IInv, TypeOK, Markers, DoneIsComplete, Complete,
                      CheckpointsTagged, ProvenIsDone
  <2>. QED  BY <2>4, <2>5, <2>6, <2>7 DEF IInv, Markers
<1>2. CASE ~(pointer[id] # NoHash /\ payload[pointer[id]] # "absent")
  <2>1. /\ ledgerHash' = pointer[id]
        /\ failed' = [failed EXCEPT ![id] = @ \/ pointer[id] # NoHash]
        /\ UNCHANGED <<done, step, current>>
    BY <1>2 DEF Process
  <2>2. TypeOK
    BY DEF IInv
  <2>3. failed' \in [Lifecycles -> BOOLEAN]
    BY <2>1, <2>2 DEF TypeOK
  <2>4. ledgerHash' \in Hashes \cup {NoHash}
    BY <2>1, <2>2 DEF TypeOK
  <2>5. TypeOK'
    BY <2>1, <2>2, <2>3, <2>4 DEF TypeOK, external, tracing
  <2>6. WorkSound' /\ TracedSound' /\ SnapshotSound'
    BY <2>1 DEF IInv, WorkSound, TracedSound, SnapshotSound, AtWork, tracing
  <2>7. Markers'
    BY <2>1, InvParts, MarkersFrame
  <2>. QED  BY <2>5, <2>6, <2>7 DEF IInv, Markers
<1>. QED  BY <1>1, <1>2

LEMMA ProcessNextStep == IInv /\ ProcessNext => IInv'
<1>. SUFFICES ASSUME IInv, ProcessNext PROVE IInv'
  OBVIOUS
<1>1. PICK id \in pending : Process(id) /\ pending' = pending \ {id}
  BY DEF ProcessNext
<1>2. id \in Lifecycles /\ prover # id
  BY DEF IInv, TypeOK, WorkSound
<1>3. faults' \in 0..MaxFaults
  BY DEF IInv, TypeOK, ProcessNext
<1>. QED  BY <1>1, <1>2, <1>3, ProcessStep DEF ProcessNext

LEMMA RebuildStep ==
    ASSUME IInv, NEW id \in Lifecycles, Rebuild(id)
    PROVE  IInv'
<1>1. pending' = pending \ {id}
  BY DEF IInv, WorkSound, Rebuild
<1>2. faults' \in 0..MaxFaults
  BY FaultType DEF IInv, TypeOK, Rebuild
<1>. QED  BY <1>1, <1>2, ProcessStep DEF Rebuild

LEMMA EndPassStep == IInv /\ EndPass => IInv'
<1>. SUFFICES ASSUME IInv, EndPass PROVE IInv'
  OBVIOUS
<1>1. TypeOK'
  <2>1. TypeOK
    BY DEF IInv
  <2>. QED  BY <2>1 DEF TypeOK, EndPass, external, markers, task, tracing
<1>2. WorkSound' /\ TracedSound' /\ SnapshotSound'
  BY DEF IInv, WorkSound, TracedSound, SnapshotSound, EndPass, AtWork, markers,
         task, tracing
<1>3. Markers'
  BY InvParts, MarkersFrame DEF EndPass, markers
<1>. QED  BY <1>1, <1>2, <1>3 DEF IInv, Markers

LEMMA RetireStep == IInv /\ Retire => IInv'
<1>. SUFFICES ASSUME IInv, Retire PROVE IInv'
  OBVIOUS
<1>1. /\ step = "retire" /\ step' \in {"restore", "hydrate"}
      /\ proven' = [proven EXCEPT ![current] = NoHash]
      /\ UNCHANGED <<external, db, done, failed, s3, task, tracing, prover,
                     faults>>
  BY DEF Retire, RetireProven
<1>2. TypeOK /\ current \in Lifecycles
  BY <1>1 DEF IInv, WorkSound, AtWork
<1>3. TypeOK'
  BY <1>1, <1>2 DEF TypeOK, external, task, tracing
<1>4. WorkSound' /\ TracedSound' /\ SnapshotSound'
  BY <1>1, <1>2 DEF IInv, TypeOK, WorkSound, TracedSound, SnapshotSound,
                    AtWork, task, tracing
<1>5. Markers'
  BY <1>1, <1>2 DEF IInv, TypeOK, Markers, DoneIsComplete, Complete,
                    CheckpointsTagged, ProvenIsDone
<1>. QED  BY <1>3, <1>4, <1>5 DEF IInv, Markers

-----------------------------------------------------------------------------
(* checkpoint-restore and hydration                                        *)

LEMMA AtWorkFacts ==
    ASSUME IInv, step \in AtWork
    PROVE  /\ TypeOK /\ Markers
           /\ current \in Lifecycles \ pending
           /\ ledgerHash \in Hashes
           /\ done[current] = NoHash
BY DEF IInv, WorkSound, Markers

\* What was restored is of one state, or marked as torn.
LEMMA RestoreStep == IInv /\ Restore => IInv'
<1>. SUFFICES ASSUME IInv, Restore PROVE IInv'
  OBVIOUS
<1>1. /\ step = "restore"
      /\ UNCHANGED <<external, markers, s3, task, sinceCheckpoint, checkpoint,
                     stopping, prover, faults>>
  BY DEF Restore
<1>2. /\ TypeOK /\ Markers /\ current \in Lifecycles \ pending
      /\ ledgerHash \in Hashes /\ done[current] = NoHash
  BY <1>1, AtWorkFacts DEF AtWork
<1>3. checkpoint = NoCheckpoint
  BY <1>1 DEF IInv, SnapshotSound
<1>4. CASE s3[current] # NoDb /\ Resumable(s3[current])
  <2>1. /\ db' = [db EXCEPT ![current] = s3[current]]
        /\ index' = s3[current].traces /\ step' = "trace"
    BY <1>4 DEF Restore
  <2>2. /\ s3[current] \in Database
        /\ OneStateUnlessTorn(s3[current])
        /\ s3[current].tag = ledgerHash /\ s3[current].ledger = ledgerHash
    BY <1>2, <1>4 DEF TypeOK, Markers, CheckpointsTagged, Resumable
  <2>3. index' \in 0..N
    BY <2>1, <2>2 DEF Database
  <2>4. TypeOK'
    BY <1>1, <1>2, <2>1, <2>2, <2>3 DEF TypeOK, external, markers, task
  <2>5. WorkSound'
    BY <1>1, <1>2, <2>1 DEF IInv, WorkSound, AtWork, markers, task
  <2>6. TracedSound'
    BY <1>1, <1>2, <2>1, <2>2, <1>4 DEF TypeOK, TracedSound, task
  <2>7. SnapshotSound'
    BY <1>1, <1>3 DEF SnapshotSound
  <2>8. Markers'
    BY <1>1, <2>1, MarkersWork DEF AtWork, markers
  <2>. QED  BY <2>4, <2>5, <2>6, <2>7, <2>8 DEF IInv, Markers
<1>5. CASE ~(s3[current] # NoDb /\ Resumable(s3[current]))
  <2>1. /\ \/ db' = db
           \/ db' = [db EXCEPT ![current] = NoDb]
        /\ index' = index /\ step' = "hydrate"
    BY <1>5 DEF Restore
  <2>2. TypeOK'
    BY <1>1, <1>2, <2>1 DEF TypeOK, external, markers, task
  <2>3. WorkSound' /\ TracedSound' /\ SnapshotSound'
    BY <1>1, <1>2, <1>3, <2>1
       DEF IInv, WorkSound, TracedSound, SnapshotSound, AtWork, markers, task
  <2>4. Markers'
    <3>1. CASE db' = db
      BY <1>1, <1>2, <3>1, MarkersFrame DEF markers
    <3>2. CASE db' = [db EXCEPT ![current] = NoDb]
      BY <1>1, <3>2, MarkersWork DEF AtWork, markers
    <3>. QED  BY <2>1, <3>1, <3>2
  <2>. QED  BY <2>2, <2>3, <2>4 DEF IInv, Markers
<1>. QED  BY <1>4, <1>5

LEMMA RestoreFailsStep == IInv /\ RestoreFails => IInv'
<1>. SUFFICES ASSUME IInv, RestoreFails PROVE IInv'
  OBVIOUS
<1>1. /\ step = "restore" /\ step' = "hydrate"
      /\ UNCHANGED <<external, markers, s3, task, tracing, prover>>
      /\ \/ db' = db
         \/ db' = [db EXCEPT ![current] = s3[current]]
  BY DEF RestoreFails
<1>2. /\ TypeOK /\ Markers /\ current \in Lifecycles \ pending
      /\ ledgerHash \in Hashes /\ done[current] = NoHash
  BY <1>1, AtWorkFacts DEF AtWork
<1>3. faults' \in 0..MaxFaults
  BY <1>2, FaultType DEF TypeOK, RestoreFails
<1>4. TypeOK'
  BY <1>1, <1>2, <1>3 DEF TypeOK, external, markers, task, tracing
<1>5. WorkSound' /\ TracedSound' /\ SnapshotSound'
  BY <1>1, <1>2 DEF IInv, WorkSound, TracedSound, SnapshotSound, AtWork,
                    markers, task, tracing
<1>6. Markers'
  <2>1. CASE db' = db
    BY <1>1, <1>2, <2>1, MarkersFrame DEF markers
  <2>2. CASE db' = [db EXCEPT ![current] = s3[current]]
    BY <1>1, <2>2, MarkersWork DEF AtWork, markers
  <2>. QED  BY <1>1, <2>1, <2>2
<1>. QED  BY <1>4, <1>5, <1>6 DEF IInv, Markers

LEMMA HydrateStep == IInv /\ Hydrate => IInv'
<1>. SUFFICES ASSUME IInv, Hydrate PROVE IInv'
  OBVIOUS
<1>. DEFINE d == Hydrated(ledgerHash)
<1>1. /\ step = "hydrate"
      /\ db' = [db EXCEPT ![current] = d]
      /\ UNCHANGED <<external, done, proven, s3, interval, pending, ledgerHash,
                     sinceCheckpoint, checkpoint, stopping, prover, faults>>
  BY DEF Hydrate
<1>2. /\ TypeOK /\ Markers /\ current \in Lifecycles \ pending
      /\ ledgerHash \in Hashes /\ done[current] = NoHash
  BY <1>1, AtWorkFacts DEF AtWork
<1>3. /\ d \in Database /\ d # NoDb
      /\ d.ledger = ledgerHash /\ d.traces = 0 /\ OneStateUnlessTorn(d)
  <2>1. d \in Database
    BY <1>2 DEF Hydrated, Database
  <2>. QED  BY <2>1 DEF Hydrated, OneStateUnlessTorn, OneState
<1>4. db'[current] = d
  BY <1>1, <1>2 DEF TypeOK
<1>. HIDE DEF d
<1>5. Markers'
  BY <1>1, MarkersWork DEF AtWork
<1>6. checkpoint = NoCheckpoint
  BY <1>1 DEF IInv, SnapshotSound
<1>7. \/ /\ step' = "trace" /\ index' = 0
         /\ UNCHANGED <<failed, current>>
      \/ /\ step' = "pass" /\ current' = Nobody
         /\ failed' = [failed EXCEPT ![current] = TRUE]
         /\ index' = index
  BY DEF Hydrate, RecordFailure
<1>8. TypeOK'
  <2>1. failed' \in [Lifecycles -> BOOLEAN]
    <3>1. CASE failed' = failed
      BY <1>2, <3>1 DEF TypeOK
    <3>2. CASE failed' = [failed EXCEPT ![current] = TRUE]
      BY <1>2, <3>2 DEF TypeOK
    <3>. QED  BY <1>7, <3>1, <3>2
  <2>2. /\ index' \in 0..N
        /\ current' \in Lifecycles \cup {Nobody}
        /\ step' \in {"trace", "pass"}
    BY <1>2, <1>7 DEF TypeOK
  <2>. QED  BY <1>1, <1>2, <1>3, <2>1, <2>2 DEF TypeOK, external
<1>9. WorkSound' /\ TracedSound' /\ SnapshotSound'
  BY <1>1, <1>2, <1>3, <1>4, <1>6, <1>7
     DEF IInv, WorkSound, TracedSound, SnapshotSound, AtWork
<1>. QED  BY <1>5, <1>8, <1>9 DEF IInv, Markers

-----------------------------------------------------------------------------
(* trace-digest and its checkpoints                                        *)

LEMMA TracedFacts ==
    ASSUME IInv, step \in {"trace", "tail", "closing", "clean", "finish"}
    PROVE  /\ db[current] \in Database
           /\ db[current].ledger = ledgerHash
           /\ db[current].traces = index
           /\ OneStateUnlessTorn(db[current])
           /\ index \in 0..N
           /\ proven[current] = NoHash
BY AtWorkFacts DEF IInv, TypeOK, WorkSound, TracedSound, AtWork

\* A batch is traced and delegated, as one write.
LEMMA TraceBatchStep == IInv /\ TraceBatch => IInv'
<1>. SUFFICES ASSUME IInv, TraceBatch PROVE IInv'
  OBVIOUS
<1>. DEFINE d == [Tagged(db[current]) EXCEPT
                    !.traces = index + 1,
                    !.delegated = @ + 1,
                    !.fits = @ /\ db[current].delegated = index]
            due == CheckpointingEnabled /\ ~stopping /\ CheckpointDue
<1>1. /\ step = "trace" /\ index < N /\ index' = index + 1
      /\ db' = [db EXCEPT ![current] = d]
      /\ sinceCheckpoint' = IF due \/ ~CheckpointingEnabled THEN 0
                            ELSE IF stopping THEN sinceCheckpoint
                            ELSE sinceCheckpoint + 1
      /\ checkpoint' = IF due /\ checkpoint = NoCheckpoint
                       THEN StartCheckpoint(d) ELSE checkpoint
      /\ step' = IF stopping THEN "tail" ELSE step
      /\ UNCHANGED <<external, markers, s3, task, stopping, prover, faults>>
  BY DEF TraceBatch
<1>2. /\ TypeOK /\ Markers /\ current \in Lifecycles \ pending
      /\ ledgerHash \in Hashes /\ done[current] = NoHash
  BY <1>1, AtWorkFacts DEF AtWork
<1>3. /\ db[current] \in Database
      /\ db[current].ledger = ledgerHash
      /\ db[current].traces = index
      /\ OneStateUnlessTorn(db[current])
      /\ index \in 0..N
  BY <1>1, TracedFacts
<1>4. /\ d \in Database /\ d.ledger = ledgerHash
      /\ d.traces = index + 1 /\ OneStateUnlessTorn(d)
      /\ CheckpointingEnabled => d.tag = ledgerHash
  <2>. DEFINE o == db[current]
              t == Tagged(o)
              fits == t.fits /\ o.delegated = index
  <2>1. /\ t \in Database /\ t.ledger = ledgerHash
        /\ t.delegated = o.delegated /\ t.torn = o.torn /\ t.fits = o.fits
        /\ CheckpointingEnabled => t.tag = ledgerHash
    BY <1>2, <1>3 DEF Tagged, Database
  <2>2. d = [t EXCEPT !.traces = index + 1, !.delegated = @ + 1,
                      !.fits = fits]
    OBVIOUS
  <2>3. index + 1 \in 0..N /\ fits \in BOOLEAN /\ t.delegated + 1 \in Nat
    <3>1. t.fits \in BOOLEAN /\ t.delegated \in Nat
      BY <2>1 DEF Database
    <3>. QED  BY <1>1, <1>3, <3>1
  <2>4. ~o.torn => o.delegated = index /\ o.fits
    BY <1>3 DEF OneStateUnlessTorn, OneState
  <2>5. ~t.torn => t.delegated = index /\ fits
    BY <2>1, <2>4
  <2>. HIDE DEF t, o, d, fits
  <2>6. /\ d \in Database /\ d.ledger = t.ledger /\ d.tag = t.tag
        /\ d.traces = index + 1 /\ d.delegated = t.delegated + 1
        /\ d.torn = t.torn /\ d.fits = fits
    BY <2>1, <2>2, <2>3 DEF Database
  <2>7. OneStateUnlessTorn(d)
    BY <2>5, <2>6 DEF OneStateUnlessTorn, OneState
  <2>. QED  BY <2>1, <2>6, <2>7
<1>5. d # NoDb
  BY <1>4
<1>6. due => CheckpointingEnabled
  OBVIOUS
<1>7. sinceCheckpoint' \in Nat
      /\ (sinceCheckpoint' = 0 \/ sinceCheckpoint' < interval)
  <2>1. interval \in Nat /\ sinceCheckpoint \in Nat
        /\ (sinceCheckpoint = 0 \/ sinceCheckpoint < interval)
    BY <1>2 DEF TypeOK
  <2>2. CASE due \/ ~CheckpointingEnabled
    BY <1>1, <2>2
  <2>3. CASE ~due /\ CheckpointingEnabled /\ stopping
    BY <1>1, <2>1, <2>3
  <2>4. CASE ~due /\ CheckpointingEnabled /\ ~stopping
    <3>1. sinceCheckpoint + 1 < interval
      BY <2>1, <2>4 DEF CheckpointDue
    <3>. QED  BY <1>1, <2>1, <2>4, <3>1
  <2>. QED  BY <2>2, <2>3, <2>4
<1>. HIDE DEF d, due
<1>8. db'[current] = d
  BY <1>1, <1>2 DEF TypeOK
<1>9. TypeOK'
  <2>1. checkpoint' \in [phase : {"none", "copying", "pushing"},
                         snapshot : Database \cup {NoDb}]
    BY <1>1, <1>2, <1>4 DEF TypeOK, StartCheckpoint
  <2>2. index' \in 0..N /\ step' \in {"trace", "tail"}
    BY <1>1, <1>3
  <2>. QED
    BY <1>1, <1>2, <1>4, <1>7, <2>1, <2>2 DEF TypeOK, external, markers, task
<1>10. WorkSound'
  BY <1>1, <1>2 DEF IInv, WorkSound, AtWork, markers, task
<1>11. TracedSound'
  BY <1>1, <1>4, <1>5, <1>8 DEF TracedSound, CheckpointingEnabled, task
<1>12. SnapshotSound'
  BY <1>1, <1>4, <1>5, <1>6 DEF IInv, SnapshotSound, StartCheckpoint
<1>13. Markers'
  BY <1>1, MarkersWork DEF AtWork, markers
<1>. QED  BY <1>9, <1>10, <1>11, <1>12, <1>13 DEF IInv, Markers

LEMMA TraceEndsStep == IInv /\ TraceEnds => IInv'
<1>. SUFFICES ASSUME IInv, TraceEnds PROVE IInv'
  OBVIOUS
<1>. DEFINE d == Tagged(db[current])
<1>1. /\ step = "trace" /\ index = N /\ step' = "tail"
      /\ UNCHANGED <<external, markers, s3, task, tracing, prover, faults>>
  BY DEF TraceEnds
<1>2. /\ TypeOK /\ Markers /\ current \in Lifecycles \ pending
      /\ ledgerHash \in Hashes /\ done[current] = NoHash
  BY <1>1, AtWorkFacts DEF AtWork
<1>3. /\ db[current] \in Database
      /\ db[current].ledger = ledgerHash
      /\ db[current].traces = index
      /\ OneStateUnlessTorn(db[current])
  BY <1>1, TracedFacts
<1>4. db' = [db EXCEPT ![current] = d]
  BY <1>2 DEF TypeOK, TraceEnds
<1>5. /\ d \in Database /\ d.ledger = ledgerHash
      /\ d.traces = index /\ OneStateUnlessTorn(d)
      /\ CheckpointingEnabled => d.tag = ledgerHash
  BY <1>2, <1>3 DEF Tagged, Database, OneStateUnlessTorn, OneState
<1>6. d # NoDb
  BY <1>5
<1>. HIDE DEF d
<1>7. db'[current] = d
  BY <1>2, <1>4 DEF TypeOK
<1>8. TypeOK'
  BY <1>1, <1>2, <1>4, <1>5 DEF TypeOK, external, markers, task, tracing
<1>9. WorkSound'
  BY <1>1, <1>2 DEF IInv, WorkSound, AtWork, markers, task
<1>10. TracedSound'
  BY <1>1, <1>5, <1>6, <1>7 DEF TracedSound, CheckpointingEnabled, task, tracing
<1>11. SnapshotSound'
  BY <1>1 DEF IInv, SnapshotSound, tracing
<1>12. Markers'
  BY <1>1, <1>4, MarkersWork DEF AtWork, markers
<1>. QED  BY <1>8, <1>9, <1>10, <1>11, <1>12 DEF IInv, Markers

LEMMA TraceFailsStep == IInv /\ TraceFails => IInv'
<1>. SUFFICES ASSUME IInv, TraceFails PROVE IInv'
  OBVIOUS
<1>1. /\ step = "trace" /\ checkpoint = NoCheckpoint
      /\ UNCHANGED <<external, db, done, proven, s3, prover>>
      /\ Fault
  BY DEF TraceFails
<1>2. CASE stopping
  BY <1>1, <1>2, IdleStep DEF TraceFails, markers
<1>3. CASE ~stopping
  <2>1. /\ failed' = [failed EXCEPT ![current] = TRUE]
        /\ step' = "pass" /\ current' = Nobody /\ sinceCheckpoint' = 0
        /\ UNCHANGED <<interval, pending, ledgerHash, index, checkpoint,
                       stopping>>
    BY <1>3 DEF TraceFails, RecordFailure
  <2>2. TypeOK /\ faults' \in 0..MaxFaults
    BY <1>1, FaultType DEF IInv, TypeOK
  <2>3. failed' \in [Lifecycles -> BOOLEAN]
    BY <2>1, <2>2 DEF TypeOK
  <2>4. TypeOK'
    BY <1>1, <2>1, <2>2, <2>3 DEF TypeOK, external
  <2>5. WorkSound' /\ TracedSound' /\ SnapshotSound'
    BY <1>1, <2>1 DEF IInv, WorkSound, TracedSound, SnapshotSound, AtWork
  <2>6. Markers'
    BY <1>1, InvParts, MarkersFrame
  <2>. QED  BY <2>4, <2>5, <2>6 DEF IInv, Markers
<1>. QED  BY <1>2, <1>3

LEMMA SnapshotFacts ==
    ASSUME IInv, checkpoint # NoCheckpoint
    PROVE  /\ step \in {"trace", "tail", "closing"}
           /\ checkpoint.snapshot \in Database
           /\ OneStateUnlessTorn(checkpoint.snapshot)
           /\ checkpoint.snapshot.tag = checkpoint.snapshot.ledger
           /\ current \in Lifecycles
BY AtWorkFacts DEF IInv, TypeOK, SnapshotSound, AtWork

\* What only the checkpoint in flight, and maybe the bucket, is changed by.
LEMMA CheckpointFrame ==
    ASSUME IInv, UNCHANGED <<external, db, markers, step, task, index,
                             sinceCheckpoint, stopping, prover>>,
           checkpoint' \in [phase : {"none", "copying", "pushing"},
                            snapshot : Database \cup {NoDb}],
           s3' \in [Lifecycles -> Database \cup {NoDb}],
           faults' \in 0..MaxFaults
    PROVE  TypeOK' /\ WorkSound' /\ TracedSound'
<1>1. TypeOK'
  <2>1. TypeOK
    BY DEF IInv
  <2>. QED  BY <2>1 DEF TypeOK, external, markers, task
<1>. QED
  BY <1>1 DEF IInv, WorkSound, TracedSound, CheckpointingEnabled, AtWork,
              markers, task

\* A copy is of one state or marked as torn, and its tag is that of the file.
LEMMA CopyFacts ==
    ASSUME NEW old \in Database, NEW new \in Database,
           OneStateUnlessTorn(old), old.tag = old.ledger,
           NEW s \in Copies(old, new)
    PROVE  s \in Database /\ OneStateUnlessTorn(s) /\ s.tag = s.ledger
<1>1. PICK t \in old.traces..new.traces, v \in old.delegated..new.delegated :
          s = Mixed(old, t, v)
  BY DEF Copies
<1>2. /\ old.traces \in 0..N /\ new.traces \in 0..N
      /\ old.delegated \in Nat /\ new.delegated \in Nat
  BY DEF Database
<1>3. t \in 0..N /\ v \in Nat
  BY <1>1, <1>2
<1>. DEFINE torn == old.torn \/ t - old.traces # v - old.delegated
<1>4. torn \in BOOLEAN
  OBVIOUS
<1>5. s = [old EXCEPT !.traces = t, !.delegated = v, !.torn = torn]
  BY <1>1 DEF Mixed
<1>6. ~torn => ~old.torn /\ v - old.delegated = t - old.traces
  OBVIOUS
<1>. HIDE DEF torn
<1>7. /\ s \in Database /\ s.tag = old.tag /\ s.ledger = old.ledger
      /\ s.traces = t /\ s.delegated = v /\ s.torn = torn /\ s.fits = old.fits
  BY <1>3, <1>4, <1>5 DEF Database
<1>8. OneStateUnlessTorn(s)
  <2>1. SUFFICES ASSUME ~torn PROVE s.delegated = s.traces /\ s.fits
    BY <1>7 DEF OneStateUnlessTorn, OneState
  <2>2. old.delegated = old.traces /\ old.fits
    BY <1>6, <2>1 DEF OneStateUnlessTorn, OneState
  <2>3. v = t
    BY <1>2, <1>3, <1>6, <2>1, <2>2
  <2>. QED  BY <1>7, <2>2, <2>3
<1>. QED  BY <1>7, <1>8

LEMMA CopySnapshotStep == IInv /\ CopySnapshot => IInv'
<1>. SUFFICES ASSUME IInv, CopySnapshot PROVE IInv'
  OBVIOUS
<1>1. /\ checkpoint.phase = "copying"
      /\ UNCHANGED <<external, db, markers, s3, step, task, index,
                     sinceCheckpoint, stopping, prover, faults>>
  BY DEF CopySnapshot
<1>2. PICK s \in Copies(checkpoint.snapshot, db[current]) :
          checkpoint' = [phase |-> "pushing", snapshot |-> s]
  BY DEF CopySnapshot
<1>3. checkpoint # NoCheckpoint
  BY <1>1 DEF NoCheckpoint
<1>4. /\ step \in {"trace", "tail", "closing"}
      /\ s \in Database /\ OneStateUnlessTorn(s) /\ s.tag = s.ledger
  BY <1>3, SnapshotFacts, TracedFacts, CopyFacts
<1>5. /\ checkpoint'.snapshot = s
      /\ checkpoint' \in [phase : {"none", "copying", "pushing"},
                          snapshot : Database \cup {NoDb}]
  BY <1>2, <1>4
<1>6. TypeOK' /\ WorkSound' /\ TracedSound'
  BY <1>1, <1>5, CheckpointFrame DEF IInv, TypeOK
<1>7. SnapshotSound'
  BY <1>1, <1>4, <1>5 DEF SnapshotSound
<1>8. Markers'
  BY <1>1, InvParts, MarkersFrame DEF markers
<1>. QED  BY <1>6, <1>7, <1>8 DEF IInv, Markers

LEMMA PushCheckpointStep == IInv /\ PushCheckpoint => IInv'
<1>. SUFFICES ASSUME IInv, PushCheckpoint PROVE IInv'
  OBVIOUS
<1>. DEFINE s == checkpoint.snapshot
<1>1. /\ s3' = [s3 EXCEPT ![current] = s]
      /\ checkpoint' = NoCheckpoint
      /\ UNCHANGED <<external, db, markers, step, task, index, sinceCheckpoint,
                     stopping, prover, faults>>
      /\ checkpoint.phase = "pushing"
  BY DEF PushCheckpoint
<1>2. checkpoint # NoCheckpoint
  BY <1>1 DEF NoCheckpoint
<1>3. /\ s \in Database /\ OneStateUnlessTorn(s) /\ s.tag = s.ledger
      /\ current \in Lifecycles
  BY <1>2, SnapshotFacts
<1>. HIDE DEF s
<1>4. TypeOK' /\ WorkSound' /\ TracedSound'
  <2>1. s3' \in [Lifecycles -> Database \cup {NoDb}] /\ faults' \in 0..MaxFaults
    BY <1>1, <1>3 DEF IInv, TypeOK
  <2>2. checkpoint' \in [phase : {"none", "copying", "pushing"},
                         snapshot : Database \cup {NoDb}]
    BY <1>1 DEF NoCheckpoint
  <2>. QED  BY <1>1, <2>1, <2>2, CheckpointFrame
<1>5. SnapshotSound'
  BY <1>1 DEF SnapshotSound
<1>6. CheckpointsTagged'
  BY <1>1, <1>3 DEF IInv, TypeOK, CheckpointsTagged
<1>7. DoneIsComplete' /\ ProvenIsDone'
  BY <1>1 DEF IInv, DoneIsComplete, Complete, ProvenIsDone, markers
<1>. QED  BY <1>4, <1>5, <1>6, <1>7 DEF IInv

LEMMA CheckpointFailsStep == IInv /\ CheckpointFails => IInv'
<1>. SUFFICES ASSUME IInv, CheckpointFails PROVE IInv'
  OBVIOUS
<1>1. /\ checkpoint' = NoCheckpoint
      /\ UNCHANGED <<external, db, markers, s3, step, task, index,
                     sinceCheckpoint, stopping, prover>>
  BY DEF CheckpointFails
<1>2. faults' \in 0..MaxFaults
  BY FaultType DEF IInv, TypeOK, CheckpointFails
<1>3. checkpoint' \in [phase : {"none", "copying", "pushing"},
                       snapshot : Database \cup {NoDb}]
  BY <1>1 DEF NoCheckpoint
<1>4. TypeOK' /\ WorkSound' /\ TracedSound'
  BY <1>1, <1>2, <1>3, CheckpointFrame DEF IInv, TypeOK
<1>5. SnapshotSound'
  BY <1>1 DEF SnapshotSound
<1>6. Markers'
  BY <1>1, InvParts, MarkersFrame DEF markers
<1>. QED  BY <1>4, <1>5, <1>6 DEF IInv, Markers

LEMMA TailCheckpointStep == IInv /\ TailCheckpoint => IInv'
<1>. SUFFICES ASSUME IInv, TailCheckpoint PROVE IInv'
  OBVIOUS
<1>1. /\ step = "tail" /\ step' = "closing" /\ checkpoint = NoCheckpoint
      /\ checkpoint' = IF CheckpointingEnabled THEN StartCheckpoint(db[current])
                       ELSE NoCheckpoint
      /\ UNCHANGED <<external, db, markers, s3, task, index, sinceCheckpoint,
                     stopping, prover, faults>>
  BY DEF TailCheckpoint
<1>2. /\ db[current] \in Database
      /\ db[current].ledger = ledgerHash
      /\ OneStateUnlessTorn(db[current])
      /\ CheckpointingEnabled => db[current].tag = ledgerHash
  BY <1>1, TracedFacts DEF IInv, TracedSound
<1>3. db[current] # NoDb
  BY <1>2
<1>4. TypeOK'
  <2>1. TypeOK
    BY DEF IInv
  <2>2. checkpoint' \in [phase : {"none", "copying", "pushing"},
                         snapshot : Database \cup {NoDb}]
    BY <1>1, <1>2 DEF NoCheckpoint, StartCheckpoint
  <2>. QED  BY <1>1, <2>1, <2>2 DEF TypeOK, external, markers, task
<1>5. WorkSound' /\ TracedSound'
  BY <1>1 DEF IInv, WorkSound, TracedSound, AtWork, markers, task
<1>6. SnapshotSound'
  <2>1. CASE CheckpointingEnabled
    BY <1>1, <1>2, <1>3, <2>1 DEF SnapshotSound, StartCheckpoint
  <2>2. CASE ~CheckpointingEnabled
    BY <1>1, <2>2 DEF SnapshotSound
  <2>. QED  BY <2>1, <2>2
<1>7. Markers'
  BY <1>1, InvParts, MarkersFrame DEF markers
<1>. QED  BY <1>4, <1>5, <1>6, <1>7 DEF IInv, Markers

LEMMA TraceClosesStep == IInv /\ TraceCloses => IInv'
<1>. SUFFICES ASSUME IInv, TraceCloses PROVE IInv'
  OBVIOUS
<1>1. /\ step = "closing" /\ checkpoint = NoCheckpoint
      /\ UNCHANGED <<external, db, markers, s3, prover, faults>>
  BY DEF TraceCloses
<1>2. CASE stopping
  BY <1>1, <1>2, IdleStep DEF TraceCloses
<1>3. CASE ~stopping
  <2>1. /\ step' \in {"clean", "finish"} /\ sinceCheckpoint' = 0
        /\ UNCHANGED <<task, index, checkpoint, stopping>>
    BY <1>3 DEF TraceCloses
  <2>2. TypeOK'
    <3>1. TypeOK
      BY DEF IInv
    <3>. QED  BY <1>1, <2>1, <3>1 DEF TypeOK, external, markers, task
  <2>3. WorkSound' /\ TracedSound' /\ SnapshotSound'
    BY <1>1, <1>3, <2>1
       DEF IInv, WorkSound, TracedSound, SnapshotSound, AtWork, markers, task
  <2>4. Markers'
    BY <1>1, InvParts, MarkersFrame DEF markers
  <2>. QED  BY <2>2, <2>3, <2>4 DEF IInv, Markers
<1>. QED  BY <1>2, <1>3

LEMMA CheckpointCleanStep ==
    ASSUME IInv, NEW ok \in BOOLEAN, CheckpointClean(ok)
    PROVE  IInv'
<1>1. /\ step = "clean" /\ step' = "finish"
      /\ \/ s3' = s3
         \/ s3' = [s3 EXCEPT ![current] = NoDb]
      /\ UNCHANGED <<external, db, markers, task, tracing, prover>>
      /\ Fault \/ UNCHANGED faults
  BY DEF CheckpointClean
<1>2. TypeOK /\ current \in Lifecycles
  BY <1>1, AtWorkFacts DEF AtWork
<1>3. faults' \in 0..MaxFaults
  BY <1>1, <1>2, FaultType DEF TypeOK
<1>4. TypeOK'
  BY <1>1, <1>2, <1>3 DEF TypeOK, external, markers, task, tracing
<1>5. WorkSound' /\ TracedSound' /\ SnapshotSound'
  BY <1>1 DEF IInv, WorkSound, TracedSound, SnapshotSound, AtWork, markers,
              task, tracing
<1>6. CheckpointsTagged'
  BY <1>1, <1>2 DEF IInv, TypeOK, CheckpointsTagged
<1>7. DoneIsComplete' /\ ProvenIsDone'
  BY <1>1 DEF IInv, DoneIsComplete, Complete, ProvenIsDone, markers
<1>. QED  BY <1>4, <1>5, <1>6, <1>7 DEF IInv

-----------------------------------------------------------------------------
(* The end of a lifecycle's turn                                           *)

LEMMA MarkDoneStep == IInv /\ MarkDone => IInv'
<1>. SUFFICES ASSUME IInv, MarkDone PROVE IInv'
  OBVIOUS
<1>1. /\ step = "finish" /\ step' = "pass" /\ current' = Nobody
      /\ UNCHANGED <<external, db, proven, s3, interval, pending, ledgerHash,
                     tracing, prover, faults>>
      /\ \/ /\ failed' = [failed EXCEPT ![current] = FALSE]
            /\ done' = [done EXCEPT ![current] = ledgerHash]
         \/ /\ failed' = [failed EXCEPT ![current] = TRUE]
            /\ done' = done
  BY DEF MarkDone, RecordFailure
<1>2. /\ TypeOK /\ Markers /\ current \in Lifecycles \ pending
      /\ ledgerHash \in Hashes /\ done[current] = NoHash
  BY <1>1, AtWorkFacts DEF AtWork
<1>3. /\ db[current] \in Database
      /\ db[current].ledger = ledgerHash
      /\ db[current].traces = N /\ OneStateUnlessTorn(db[current])
      /\ proven[current] = NoHash
  BY <1>1, TracedFacts DEF IInv, TracedSound
<1>4. Complete(db[current], ledgerHash)
  BY <1>3 DEF Complete
<1>5. TypeOK'
  <2>1. failed' \in [Lifecycles -> BOOLEAN]
    <3>1. CASE failed' = [failed EXCEPT ![current] = FALSE]
      BY <1>2, <3>1 DEF TypeOK
    <3>2. CASE failed' = [failed EXCEPT ![current] = TRUE]
      BY <1>2, <3>2 DEF TypeOK
    <3>. QED  BY <1>1, <3>1, <3>2
  <2>2. done' \in [Lifecycles -> Hashes \cup {NoHash}]
    BY <1>1, <1>2 DEF TypeOK
  <2>. QED  BY <1>1, <1>2, <2>1, <2>2 DEF TypeOK, external, tracing
<1>6. WorkSound' /\ TracedSound' /\ SnapshotSound'
  BY <1>1, <1>2 DEF IInv, TypeOK, WorkSound, TracedSound, SnapshotSound,
                    AtWork, tracing
<1>7. DoneIsComplete'
  BY <1>1, <1>2, <1>4 DEF TypeOK, Markers, DoneIsComplete, Complete
<1>8. ProvenIsDone'
  BY <1>1, <1>2, <1>3 DEF TypeOK, Markers, ProvenIsDone
<1>9. CheckpointsTagged'
  BY <1>1, <1>2 DEF Markers, CheckpointsTagged
<1>. QED  BY <1>5, <1>6, <1>7, <1>8, <1>9 DEF IInv

LEMMA StopStep == IInv /\ (Terminate \/ Crash) => IInv'
<1>. SUFFICES ASSUME IInv, Terminate \/ Crash PROVE IInv'
  OBVIOUS
<1>1. CASE Idle
  BY <1>1, IdleStep DEF Terminate, Crash
<1>2. CASE Terminate /\ ~Idle
  <2>1. /\ step \in {"trace", "tail", "closing"}
        /\ stopping' = TRUE
        /\ UNCHANGED <<step, task, index, sinceCheckpoint, checkpoint>>
        /\ UNCHANGED <<external, db, markers, s3, prover>>
        /\ Fault
    BY <1>2 DEF Terminate
  <2>2. TypeOK /\ faults' \in 0..MaxFaults /\ stopping' \in BOOLEAN
    BY <2>1, FaultType DEF IInv, TypeOK
  <2>3. TypeOK'
    BY <2>1, <2>2 DEF TypeOK, external, markers, task
  <2>4. WorkSound' /\ TracedSound' /\ SnapshotSound'
    BY <2>1 DEF IInv, WorkSound, TracedSound, SnapshotSound, AtWork,
                CheckpointingEnabled, markers, task
  <2>5. Markers'
    BY <2>1, InvParts, MarkersFrame DEF markers
  <2>. QED  BY <2>3, <2>4, <2>5 DEF IInv, Markers
<1>. QED  BY <1>1, <1>2 DEF Crash

-----------------------------------------------------------------------------
(* Theorems *)

LEMMA InitIInv == Init => IInv
<1>. SUFFICES ASSUME Init PROVE IInv
  OBVIOUS
<1>1. TypeOK
  <2>1. stopping \in BOOLEAN /\ failed \in [Lifecycles -> BOOLEAN]
    BY DEF Init
  <2>2. checkpoint \in [phase : {"none", "copying", "pushing"},
                        snapshot : Database \cup {NoDb}]
    BY DEF Init, NoCheckpoint
  <2>. QED  BY <2>1, <2>2 DEF Init, TypeOK
<1>2. WorkSound /\ TracedSound /\ SnapshotSound
  BY DEF Init, WorkSound, TracedSound, SnapshotSound, AtWork
<1>3. DoneIsComplete /\ CheckpointsTagged /\ ProvenIsDone
  BY DEF Init, DoneIsComplete, CheckpointsTagged, ProvenIsDone
<1>. QED  BY <1>1, <1>2, <1>3 DEF IInv

LEMMA NextIInv ==
    ASSUME IInv, [Next]_vars
    PROVE  IInv'
<1>1. CASE UNCHANGED vars
  <2>1. TypeOK'
    BY <1>1, SchedulerType DEF IInv, TypeOK, vars, external
  <2>2. WorkSound' /\ TracedSound' /\ SnapshotSound'
    BY <1>1, SchedulerFrame DEF IInv, WorkSound, vars, markers
  <2>3. Markers'
    BY <1>1, InvParts, MarkersFrame DEF vars, markers
  <2>. QED  BY <2>1, <2>2, <2>3 DEF IInv, Markers
<1>2. ASSUME NEW id \in Lifecycles, NEW hash \in Hashes, Point(id, hash)
      PROVE  IInv'
  BY <1>2, PointStep
<1>3. ASSUME NEW hash \in Hashes, NEW quality \in {"invalid", "valid"},
             Deliver(hash, quality)
      PROVE  IInv'
  BY <1>3, DeliverStep
<1>4. ASSUME NEW skipped \in SUBSET Lifecycles, StartPass(skipped)
      PROVE  IInv'
  BY <1>4, StartPassStep
<1>5. CASE ProcessNext \/ EndPass
  BY <1>5, ProcessNextStep, EndPassStep
<1>6. ASSUME NEW id \in Lifecycles, Rebuild(id)
      PROVE  IInv'
  BY <1>6, RebuildStep
<1>7. CASE Retire \/ Restore \/ RestoreFails \/ Hydrate
  BY <1>7, RetireStep, RestoreStep, RestoreFailsStep, HydrateStep
<1>8. CASE TraceBatch \/ TraceEnds \/ TraceFails
  BY <1>8, TraceBatchStep, TraceEndsStep, TraceFailsStep
<1>9. CASE CopySnapshot \/ PushCheckpoint \/ CheckpointFails
  BY <1>9, CopySnapshotStep, PushCheckpointStep, CheckpointFailsStep
<1>10. CASE TailCheckpoint \/ TraceCloses
  BY <1>10, TailCheckpointStep, TraceClosesStep
<1>11. ASSUME NEW ok \in BOOLEAN, CheckpointClean(ok)
       PROVE  IInv'
  BY <1>11, CheckpointCleanStep
<1>12. CASE MarkDone
  BY <1>12, MarkDoneStep
<1>13. CASE Terminate \/ Crash
  BY <1>13, StopStep
<1>14. CASE ProveOldest \/ MarkProven \/ ProvingFails
  BY <1>14, ProverTurnStep, MarkProvenStep
<1>. QED
  BY <1>1, <1>2, <1>3, <1>4, <1>5, <1>6, <1>7, <1>8, <1>9, <1>10, <1>11,
     <1>12, <1>13, <1>14 DEF Next

\* Databases are as far as their tracer, those and the snapshots are of one
\* state unless they go back to a torn copy, and the lifecycle at work is
\* neither done nor marked proven.
THEOREM Inductive ==
    Spec => []IInv
<1>. QED  BY InitIInv, NextIInv, PTL DEF Spec

\* The done marker is only ever over a database traced to its end from the
\* ledger in the marker, through any interruption and resumption, and with
\* every batch delegated once unless a torn copy was resumed
\* (process_candidate of the voting-ledger scheduler).
THEOREM DoneMarkersAreTrue ==
    Spec => []DoneIsComplete
<1>1. IInv => DoneIsComplete
  BY DEF IInv
<1>. QED  BY <1>1, Inductive, PTL

\* What is in the bucket is tagged with its own ledger, and of one state
\* unless it is, or goes back to, a torn copy (runCheckpoint).
THEOREM CheckpointsAreTagged ==
    Spec => []CheckpointsTagged
<1>1. IInv => CheckpointsTagged
  BY DEF IInv
<1>. QED  BY <1>1, Inductive, PTL

\* A lifecycle is not marked done with one ledger and proven with another.
THEOREM ProvenMarkersAreTrue ==
    Spec => []ProvenIsDone
<1>1. IInv => ProvenIsDone
  BY DEF IInv
<1>. QED  BY <1>1, Inductive, PTL

\* The done marker names the ledger that the lifecycle points at when it is
\* written.
THEOREM DoneMarksTheLedgerPointedAt ==
    Spec => MarkedAsPointed
<1>1. ASSUME IInv, [Next]_vars
      PROVE  [\A id \in Lifecycles :
                 done'[id] # NoHash /\ done'[id] # done[id] =>
                     done'[id] = pointer[id]]_vars
  <2>1. done \in [Lifecycles -> Hashes \cup {NoHash}]
    BY <1>1 DEF IInv, TypeOK
  <2>2. CASE UNCHANGED done
    BY <2>2
  <2>3. ASSUME NEW i \in Lifecycles, Process(i)
        PROVE  \A id \in Lifecycles : done'[id] \in {NoHash, done[id]}
    BY <2>1, <2>3 DEF Process
  <2>4. CASE MarkDone
    BY <2>1, <2>4 DEF MarkDone, PointerUnchanged
  <2>5. UNCHANGED done \/ MarkDone \/ \E i \in Lifecycles : Process(i)
    BY <1>1 DEF Next, vars, Point, Deliver, StartPass, ProcessNext, EndPass,
                Rebuild, Retire, Restore, RestoreFails, Hydrate, TraceBatch,
                TraceEnds, TraceFails, CopySnapshot, PushCheckpoint,
                CheckpointFails, TailCheckpoint, TraceCloses, CheckpointClean,
                Terminate, Crash, ProveOldest, MarkProven, ProvingFails,
                markers, IInv, TypeOK
  <2>. QED  BY <2>2, <2>3, <2>4, <2>5
<1>. QED  BY <1>1, Inductive, PTL DEF Spec, MarkedAsPointed
=============================================================================
