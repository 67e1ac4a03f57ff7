# A TLA+ model of the decentralised treasury

This directory holds TLA+ models of the decentralised treasury, the TLC runs
that check them on small instances, and TLAPS proofs of the properties that
matter most. Every definition is a translation of the TypeScript (and, for the
schedulers, the shell) under `src/`; `PROJECT.json` names the lines each one
stands for, and the hazards that each property is there for.

Check a module from this directory with `tlc -config X.cfg M` and prove one with
`tlapm M.tla`.

## 1. The system

A treasury on the Mina blockchain grants money to proposals that stakers vote
on. Money and votes live on chain; proofs made off chain turn votes and staking
ledgers into numbers that the chain can check; an indexer and a processor
rebuild for the API what happened.

```
  wallets, CLI ──transactions──► Treasury Owner ──► Treasury Proposal (one account each)
                                     │   ▲ ▲
        Pause Controller ◄──flag─────┘   │ └── proof: VoteReducer      (actions → tally)
                                         └──── proof: StakingLedgerToVotingLedger
                                                        (staking ledger → weights)
  snapshots ──► voting-ledger scheduler ──► tracer ──► checkpoints (S3)
                      │ .done                                     ▲ Tracer's database
                      └──► proving scheduler ──► provers ──► task queue ──► workers

  chain ──► Archive node ──► Events Indexer ──► archive_events (change feed)
                                                     │ GET /events
                                    Events Processor ▼──► projections ──► API ──► web
```

| component | state | operations | what is hard about it | what makes it correct |
|---|---|---|---|---|
| Treasury Owner (`treasury-owner.ts`) | balance, deployment slot, Pause Controller address | receive, createProposal, vote, tallyVotes, executeProposal, togglePauseProposal, signed withdrawal if deployed so | slot boundaries in UInt32, one balance for all proposals, a tally bound to what the ledger still knows of the votes | results are those of all votes; money leaves only for approved proposals, up to a cap; no vote after the voting period |
| Treasury Proposal (`treasury-proposal.ts`) | recipient, amount, lifecycle, staking snapshot, status, paid-out amount, pause nonce | vote, tallyVotes, execute, setPaused | an unpause erases a stored result and not the payouts; several payouts, several tallies | the same, after any number of pauses |
| Pause Controller (`treasury-pause-controller/`) | committee hash, nonce, paused flag | pauseTreasury, unpauseTreasury, rotateMultisigKeys, verifyTogglePauseProposal | signed messages outlive rotations and are relayed by anybody | each message applied at most once, in order, under the committee in office |
| Vote Reducer (`vote-reducer.ts`) | none (a proof program) | reduceBatch, merge | batches in parallel, dummies, nullifiers, a search for five action states | a complete proof is worth the voters' first votes |
| StakingLedgerToVotingLedger | none (a proof program) | digest, merge, exhaust | batches in parallel, the end of the ledger inside a batch | a complete proof gives every key what is delegated to it |
| Schedulers (`devops/docker/*-entrypoint.sh`) | pointer files, databases, markers, the bucket | poll, rebuild, trace, mark, prove | interrupted runs, re-pointed lifecycles, leftovers of other runs | a marker tells the truth about the ledger it names; every lifecycle that can be proven is |
| Tracer and `trace-digest` | the database of traces and voting ledger, checkpoints | a batch, a checkpoint, restore, clean | a crash or a copy between the writes of one batch | a restart continues from a state that was reached |
| Provers (`sdk/src/proving/prover`) | proofs in storage, the merge forest in memory | digest, merge, exhaust | interrupted runs pair in another order, tasks fail | ends with the proof of all base proofs |
| Task queue and workers (`task-queue.ts`, `worker.ts`) | jobs, locks, announcements, subprocesses | add, wait, work, retry | time limits racing late answers, killed subprocesses, lost notifications | every task ends once, with its own output |
| Events Indexer (`packages/indexer`) | `archive_events`, rejections, cursors | pending snapshot, canonical sync, orphan sweep | three passes in one process, each of many requests to an archive that moves | rows of one branch; nothing behind the cursor is missing; the store converges to the archive |
| Change feed (triggers on `archive_events`) | `change_sequence` | every write, GET /events | a number is drawn before its transaction commits | a reader with one cursor misses nothing |
| Events Processor (`packages/processor`) | offset, failures, projections | poll, retryBlockedEvent | two instances, commits that are not acknowledged, retries, quarantine, rows rewritten during a pass | effects once and in order; nothing lost behind the offset; it catches up |
| API projection (`apps/api/src/processors/proposals`) | proposals, votes, tallies, executions, facts, replay state | one handler per event type, replay, posted content | facts out of order, orphaned and re-created branches, parity with the contract | equal to what the contract's state is on the selected branch |
| API routes, CLI, web, back office, UI | none of their own, or a session | queries, transactions | – | – |
| SDK ledgers, storage, services, signing | SQLite and key-value stores | tree updates, transaction assembly | – | – |

## 2. Modules

| module | models | depends on |
|---|---|---|
| `Ballots` | votes, vote actions, the ballot they add up to, its weight | |
| `Acceptance` | the arithmetic of participation and approval curves (integer division as in the circuit) | |
| `Treasury` | both contracts, the pause flag, slots, the ledger's action states | `Ballots`, `Acceptance` |
| `Grants` | abstract: a grant has one vote per voter, closes, and pays up to its cap if approved | |
| `TreasuryGrants` | the refinement mapping from `Treasury` to `Grants` | `Treasury`, `Grants` |
| `PauseController` | committee, nonces, the signatures in circulation, the toggle together with the proposal's nonce | |
| `VoteReducer` | the proofs a prover can obtain about one chain of vote actions | `Ballots` |
| `VotingLedger` | the proofs a prover can obtain about one staking ledger | |
| `Tally` | both provers at work, and the pairs of proofs that `tallyVotes` accepts | `VoteReducer`, `VotingLedger` |
| `Pipeline` | both schedulers, the tracer and its checkpoints, over files that others write too | |
| `Merge` | proving one lifecycle: digest, the pending forest, reuse of stored merges, exhaust | |
| `TaskService` | abstract: a task that was asked for ends once, with its own output or a failure | |
| `TaskQueue` | provers, jobs, workers and their subprocesses; implements `TaskService` | `TaskService` |
| `Feed` | abstract: a change gets a number above all that could be read | |
| `ChangeFeed` | transactions, the triggers' lock and sequence, readers; implements `Feed` | `Feed` |
| `Indexer` | the three passes, the ingestion transactions, the archive | |
| `Processor` | workers and retry commands over one offset | |
| `Projection` | one proposal's facts, reconciliation and replay in the transactions of several workers | |
| `MCTreasury`, `MCPauseController`, `MCTally`, `MCIndexer`, `MCProcessor`, `MCProjection` | values for TLC | |
| `TreasuryProofs`, `CircuitProofs`, `FeedProofs`, `IndexerProofs`, `ProvingProofs`, `PipelineProofs`, `ProjectionProofs` | theorems | the modules they are about, `Sums` |
| `Sums` | lemmas: minima, counting, and sums over finite sets | |

How they relate. `Treasury` takes tallies as ballots of the actions it is bound
to, because `Tally` shows that an accepted pair of proofs counts every account
once for its delegate's first vote. `Treasury` has the global pause as a flag
that anybody moves; `PauseController` says who may. `Merge` has tasks that end
with their own output or fail, which `TaskService` promises and `TaskQueue`
provides. `Pipeline` has the proving of a lifecycle as one action that may
fail, because `Merge` shows that a retry is never in worse shape than a first
run. `Indexer` writes a store whose rows are numbered as `ChangeFeed` says;
`Processor` reads rows and numbers through its `PageAfter`, which relies on what
`NothingMissed` says of a reader; `Projection` has the archive's rows move as
`Indexer` lets them (rows of one branch, canonical rows stay) and runs inside
the transactions that `Processor` orders.

### Treasury

State: `slot`, the balance, the pause flag, per proposal its account state
(`proposals`), the votes it dispatched (`actions`), the action states that the
ledger keeps of it (`actionStateHistory`, one per slot with a vote, at most
`HistoryLength`), and two history variables, `received` and `netDeposits`. A
Mina transaction is atomic, so an Owner method and the Proposal method it calls
are one action: `CreateProposal`, `Vote`, `TallyVotes`, `ExecuteProposal`,
`TogglePauseProposal`, `Receive`, `SetTreasuryPaused`, `EmergencyWithdraw`,
`NextSlot`. An action state is a hash chain over votes; it is modelled by the
number of votes it covers. The prover of `TallyVotes` chooses how many votes it
covers and the contract binds that to the ledger's history (`BoundToHistory`).
A method whose assertion or UInt32 addition fails is a disabled action.

### PauseController

Keys sign any message of any nonce (`Sign`), in office or not; anybody submits
what is signed. `log` is a history of the messages applied and the committee
they were applied under. The fifth message, the proposal toggle, is verified here
and applied to the proposal's own pause nonce (`SetPaused`).

### VoteReducer, VotingLedger, Tally

A prover holds a set of proofs and calls the circuits with any inputs that they
accept. The target action states, the nullifier set and the ledger are what the
public inputs commit to; hashes are taken to be injective. `Tally` lets both
provers work at the same time, on parts too, and asks which pairs of their
proofs `tallyVotes` takes.

### Pipeline

Files are the only thing the processes share, so they are the state: `pointer`
and `payload` (the external snapshot producer's), `db`, the markers `done`,
`failed` and `proven`, the bucket `s3`. The voting-ledger scheduler is a program
counter (`step`) with the shell variables and the tracer's memory that live
across commands. `TraceBatch` is the tracer's one transaction per batch;
`CopySnapshot` and `PushCheckpoint` run beside it. A copy may be torn: SQLite
may write later states into the file while it is copied, so `Copies` takes the
trace rows and the voting ledger each from any state in between. Two history
fields of a database say whether it goes back to such a copy (`torn`) and
whether its traces follow from each other (`fits`), which the proofs' merge
asserts. `Terminate` is SIGTERM, which
the tracer answers with a last checkpoint, and `Crash` is a kill or a container
restart, possibly with another configuration. `ProveOldest`, `MarkProven` and
`ProvingFails` are the other scheduler.

### Merge

Storage (`stored`, `root`, `exhausted`) outlives the command that runs, its
memory does not. The id of a merged proof is a hash of the ids and the range it
was made from; it is modelled by the set of spans in the tree of merges. A merge
reads base proofs lazily (`ReadBaseProof`), picks any two neighbours
(`ChoosePair`), takes their merge from storage (`Reuse`) or has it computed
(`MergeAnswer`, `MergeFails`), and ends with `Publish` or `MergeThrows`. An
operator may start a merge before all base proofs are there.

### TaskQueue

`job`, `attempts`, `lock` and `ended` are the queue, modelled from how the code
uses BullMQ; `doing`, `subprocess` and `children` are the workers. Answers of a
subprocess carry no task, so what ties them together is only the order of the
worker's steps: `Take`, `Ready`, `Answer`, `TaskError`, `Timeout`, `ChildDies`,
`Exit`. `Stall` takes a job from a worker that has not renewed its lock.

### ChangeFeed

`Write` draws a number under the row's lock and, because of the statement
trigger, under a transaction-level advisory lock; `Commit` and `Rollback` end a
transaction in any order; a reader takes pages of `Limit` rows. The row trigger
gives no number to a write that changes none of the columns it lists, so such a
write is no step.

### Indexer

The archive is a fixed tree of blocks of which it learns more and more, with a
canonical block that advances. The snapshot is read in five kinds of requests,
the canonical pass in batches, the sweep reads the cursor before it locks; every
request is a step, and every transaction is one. `Crash` and `FailPass` may
happen until `Settle`. The pending overlap of the configuration is not used by
the code and so is no constant.

### Processor

One record per instance, `pass`, holds its program counter and the local
variables that live across an `await`. Each action is the code between two
awaits that touch shared state: `FindBlocked`, `ReadOffset`, `ScanPage`,
`MarkFailureSuperseded`, `RecheckBlocked` (recovery of a blocked failure),
`Resume`, `FetchPage`, `StartEvent` (a page), `Skip`, `Apply`, `Reject` (the
transaction), `Fail`, `RecordRejection`, `RecordFailure` (errors), and
`FindBlockedToRetry`, `SaveRetrying` (the operator's command). A commit whose
answer is lost is the second disjunct of `Answered`: the state has changed and
the instance takes the error path. `Abandon` ends a pass anywhere: a crash, a
stop, or an error outside of an event. `Rewrite` gives an event a new number at
any time, and `Release` deploys handlers that accept what was rejected before.
A backoff delay is the time an instance rests between two steps.

### Projection

`rows` is the archive (it changes in whole commits, canonical rows stay);
`facts`, `replay` and `proposal` are what the processor keeps. `transaction` is
the one that holds the advisory lock, with the rows, content and ledger it has
read: between its begin and its end the archive moves on, which is what
`FinishReplay` locks it for. `Reconciled` computes the proposal from the facts
that survive, taken by height. `ContractState` is the reference it is compared
with: the contracts' state, event by event, in the order of the chain.

## 3. Runs

| run | instance | distinct states | properties |
|---|---|---|---|
| `treasury` | two proposals, two voters, two lifecycles, two snapshots, up to three votes, history of two, withdrawals by signature | 213,640 | `IInv`, `StatusIsFullTally`, `PaidOnlyIfApproved`, `Conservation`, `GlobalPauseFreezes`, `ImplementsGrants` |
| `pause_controller` | two committees of three, one key in both and listed twice in the second, threshold two, two nonces, four signatures | 708,935 | `NoReplay`, `ChainOfAuthority`, `DistinctSigners` |
| `tally` | ledgers of three to five accounts in batches of two; chains of three votes in batches of two | 584,818 | `CompleteProofsDelegateAll`, `CompleteProofsTallyTheBallot`, `FoundIsPassed`, `TallyCountsAccounts` |
| `change_feed` | two transactions, three rows, six numbers, pages of two | 28,168 | `NothingMissed`, `ImplementsFeed` |
| `processor` | a worker and an operator, two events, three numbers, pages of two, two attempts, two faults | 759,719 | `InOrder`, `BlockedHolds`, `SettledForCause`, `NothingSkipped`, `CatchesUp` |
| `indexer` | five blocks in two branches of heights one and three, three events, an invalid observation, batches of two | 304,350 | `Sound`, `OneBranch`, `CursorCovered`, `Converges` |
| `merge` | five traces, three tasks at a time, three faults | 48,264 | `StoredCoversItsId`, `RootIsComplete`, `NeverStalls`, `Proved` |
| `task_queue` | two tasks, two workers, two attempts, three faults | 336,947 | `OneTaskPerChild`, `ProvidesService`, `EveryTaskEnds` |
| `pipeline` | two lifecycles, two ledgers of three batches, with checkpoints and without, two faults; the later lifecycle cannot be proven | 578,578 | `DoneIsComplete`, `CheckpointsTagged`, `ProvenIsDone`, `MarkedAsPointed`, `EveryLifecycleProven` |
| `projection` | four blocks, eight events of one proposal, two workers, pages of two, one commit of the indexer during the run, one crash | 557,168 | `Sound`, `ProjectionCurrent`, `ReplayWhole`, `CatchesUp` |
| `processor_quarantine` | expected violation | – | `Accounted` |
| `pipeline_torn` | expected violation | – | `CheckpointsConsistent` |

Why the bounds are enough:

* `treasury`: three votes of two voters include a repeated vote, a vote that
  decides and one that turns the decision; a history of two states is shorter
  than the slots votes may fall in, so a prover can try to pass off old or
  repeated states; two lifecycles of four periods of two slots give every period
  a first and a last slot, and the second lifecycle's range overflows
  `MaxUInt32`. The weights make all three outcomes occur. The constraint
  `Explored` cuts the product: one proposal is taken through every order of
  votes, and a second one exists only beside votes that approve, where the two
  compete for a balance that covers one of them.
* `pause_controller`: four signatures suffice for two messages of threshold
  two, signed before and used after a rotation. The key that stays is listed
  twice in the second committee, so that its one signature counts as two there.
* `tally`: lengths around the batch size, so that the end falls inside and at
  the edge of a batch, and merges on both sides. A proof, once made, stays
  valid, so ledgers are first proved in every way, and then votes counted in
  every way with the digests of a part and of the whole of one ledger.
* `change_feed`: two transactions that each write several rows, more rows than
  a page.
* `processor`: two instances are enough for every pairwise race on one offset;
  two events give a successor and an event in between. One fault is an error, a
  lost answer or a crash at every step; two reach the last attempt. The feed
  starts empty or with a failure that an earlier version of the code left
  blocked, because no present code path writes that state. The events are
  interchangeable, so which one was blocked is fixed (`MCInit`).
* `indexer`: both branches carry two of the events, at different heights, so
  that an event moves to another block of another height, and the longer one
  takes two batches; the canonical block can finalize either branch while
  a snapshot is under way.
* `merge`: with five traces two runs that pair in different orders can leave
  trees that overlap without one containing the other, and three tasks at a time let a pump wait for a base proof while a merge ends.
* `task_queue`: two workers for a job that changes hands, three faults for a
  time limit, the death that follows and one more; two attempts so that one can
  be the last.
* `pipeline`: with three batches and an interval of two there is a checkpoint in
  the middle and a tail without one; the later lifecycle always fails, so that
  it stands in the way of the earlier one. One fault is enough to resume from a
  torn copy, a second one for whatever comes after that.
* `projection`: both branches have a creation at the same height and share a
  vote; the longer one votes again, tallies, pays and pauses, so that the order
  of the chain matters. It starts with an empty archive, or, after a migration,
  with any branch whose blocks may be canonical up to any height, and one commit
  that may change all rows comes at any time. `MCInit` lets the staking ledger be
  missing only where the archive starts with one block or none: a vote waits for
  it there, and may be orphaned while it waits.

### Fairness

* `Processor!FairSpec`: weak fairness of every instance's pass: `setInterval`
  starts one whenever none is active, and its awaits are answered or time out.
  Faults are bounded by `MaxFaults`, rewrites by `MaxSequence`, which is how
  "errors end and the feed rests" is said. The operator's command is not fair to
  start: it need never be run.
* `Indexer!FairSpec`: weak fairness of `Start` (a process supervisor restarts
  the process) and of each of the three passes (timers; requests have a timeout).
  `Settle` is fair: after it neither `Crash` nor `FailPass` happens. Nothing is
  assumed about the archive: it may stop learning at any point.
* `Merge!MergeFairness`: the scheduler begins again after every failure and the
  queue answers (`TaskQueue!EveryTaskEnds`). No failure has to happen or to stop
  happening, but `MaxMergeFaults` bounds them.
* `TaskQueue!Fairness`: provers, announcements, workers and computations go on.
  `ListensInTime` is an assumption: `task-queue.ts:99` installs the listener
  after the job has been added, and a job that ended in between would be waited
  for without end. Redis answers the prover long before a worker has computed a
  proof, so the run sets it to TRUE; with FALSE TLC shows the wait.
* `Pipeline!Fairness`: the producer points and delivers, the schedulers poll
  and commands that nothing disturbs end.
* `Projection!FairSpec`: some worker polls, a transaction ends, and the
  staking ledger is built at last. Nobody has to post content.

### Disagreements between code and documents

* `processor_quarantine`: the record of an event that no handler accepts can be
  lost. After `retry-blocked-event` the worker and the command both hold the
  failure as `retrying`. The first one to fail quarantines the event and moves
  the offset. The other one then finds the offset moved and, as its own copy is
  not `quarantined`, overwrites the record with `superseded`. The event was
  never processed and is no longer listed. With one worker alone, and nothing
  for the operator to retry, `NothingSkipped` holds (and is proved).
* `pipeline_torn`: a snapshot is copied from the database file while the tracer
  writes on. SQLite's automatic write-back of its log is not switched off, so the
  copy can hold the rows of two states, under a tag that makes it resumable.
  `pipeline`, with the same copies, shows what remains true: the lifecycle is
  still marked done with the trace of every batch of its ledger, but only a
  database that does not go back to a torn copy has each batch delegated once.
  The traces of the others need not fit together, so that they cannot be proven
  and, as the oldest, keep the later ones waiting.
* Without a run of their own:
  * `packages/processor/README.md:31,51` says that the recovery of a blocked
    failure looks at one page; the code (`events-processor.ts:591`) follows the
    cursor through all pages.
  * `apps/api/README.md:351` says that an event is retried five times and then
    blocks; the code (`events-processor.ts:862`) records it as `retrying` and
    tries again at every poll.
  * `apps/api/README.md:217` says that the route updates the proposal's row with
    the posted content; content that is posted while a reconciliation has already read the content table is
    overwritten (`proposal-projection-reconciler.ts:840`) until the next event.
    Adding `INVARIANT ContentShown` to `Projection.cfg` gives the trace.
  * A lifecycle that always fails to prove, being the oldest, hides the later
    ones (`proving-scheduler-entrypoint.sh:141`), while the system case
    OPS-QUEUE-006 (`system-cases.ts:658`) says that the queue moves on. The
    property `EveryLifecycleProven` says what does hold.
  * `packages/indexer/README.md:67` says that startup rejects if an initial sync
    fails; the code does not await the first syncs, which its comment and its
    test explain. `Start` models the code.

## 4. Proofs

All theorems hold for every value of the constants that satisfies the
assumptions named in the modules, which TLC evaluates in the runs. Each component
follows the same plan: an inductive invariant (`IInv`, or `PauseIInv`,
`TallyInv`, `FeedIInv`, `MergeIInv` where a module is about two components), one
lemma per action that keeps it, and the properties as consequences. Every
invariant and every action property of the passing runs is proved,
`NothingSkipped` under a condition that its bullet names.

* `Sums` replaces induction over data, which the provers cannot do with an
  operator as hypothesis, by smallest counterexamples. `SumFunctionOnSet` is a
  CHOOSE of a recursive function, so the first result is that such a function
  exists over every finite set (a smallest subset over which it did not would
  have one element more than one over which it does) and that any two agree.
  `SumWithout`, `SumAdd`, `SumUnion`, `SumByGroups` and `SumRenamed` follow.

* `TreasuryProofs`. `StatusIsFullTally` is not inductive: it needs
  `HistoryIsCurrent` (the newest state the ledger keeps covers all votes) and
  `DecidedAfterVoting` (no vote can follow a tally). That the prover cannot omit
  votes is a pigeonhole argument: `HistoryLength` different states that the
  proof found are all the states the ledger keeps. `PeriodsTile` shows that the
  four periods of a lifecycle follow each other without gap or overlap.
  `ContractsImplementGrants` is the refinement: a proposal's first votes are
  found by well-foundedness (the least index with that voter), every action maps
  to a step of `Grants` or leaves it alone. `MoneyConserved` carries the balance
  equation through each method with the sums over proposals and recipients: an
  action changes one summand. `PayoutsBounded`, `ParityCorrect` and
  `BallotFinal` are proved and not run: the invariant that is run contains them.
* `CircuitProofs`, the Pause Controller. `NoReplay` needs `CountersAhead`: a
  message that was applied is behind its counter. `ThresholdOfSigners` counts the
  keys that did not sign: each of them has a place without a valid signature, so
  a committee that repeats a key, which the code allows, is short of a threshold
  of different signers by at most the places it repeats.
* `CircuitProofs`, the provers. A digest is worth what the accounts of its range
  delegate (`DigestSound`), a vote proof what the actions of its range are worth
  whose voter is not in the nullifiers yet (`ProofSound`); both are kept by a
  batch and by a merge, because sums over adjacent ranges add up and the
  nullifiers in the middle split the counted votes into those before and after.
  `ProofsTallyTheBallot` renames the counted places into voters, which is one to
  one as each voter is counted at one place only. `AcceptedTallyCountsAccounts`
  groups the ledger's accounts by delegate. `VotersDelegate` says that a voter
  is a key that the digest can have.
* `FeedProofs`, the change feed. `NothingMissed` needs that only the lock's
  holder has uncommitted numbers and that these are above every committed number
  and every cursor. `FeedImplemented` maps a commit to a step of `Feed`.
* `FeedProofs`, the processor. `BlockedHolds` needs `HeldUp` (no instance is
  beyond the recovery while a failure is blocked), `SettledForCause` needs
  `Caused` (who is about to settle a failure has seen a successor or an offset
  beyond it); both follow from "blocked" never being written by a pass.
  `NothingLost` (the theorem of `NothingSkipped`) assumes one worker and uses
  another invariant, `Sole`: a page holds every current version from the offset
  up to its last one, so what is behind the offset took effect or was
  quarantined, also when a commit is not acknowledged and its event is handled
  twice. `processor_quarantine` shows that it is false for two instances.
* `IndexerProofs`. A branch is defined as the least set of blocks that is closed
  under parents, so that choosing a closed set is an induction over ancestors
  without an induction theorem: `BranchLinear` (two blocks of a branch are
  ancestors of each other) and `OnePerHeight` follow. `SnapshotWhole` needs
  `SnapshotSound`: equal heights at the end mean that the canonical block is the
  anchor still, and while it is, the blocks of the chain are pending and their
  pages complete. `OneBranch` needs one tip above all selected rows (`StoreSound`),
  which a snapshot may only replace if the canonical rows lie below it
  (`Compatible`), and which a canonical batch may only leave if it retires
  nothing (`CanonicalRows`). `CursorCovered` needs that a batch begins no later
  than the cursor ends, and that a batch that was read stays true when the
  archive finalizes further blocks (`SyncSound`). `OncePerBranch` is an
  assumption about the chain: a transaction is included once in a branch.
* `ProvingProofs`, the merge. The id of a proof determines what it covers, so a
  stored proof is as good as a merge just made; the proofs in hand tile the
  traces that were read, so when no neighbours are left there is one, and it
  covers them all.
* `ProvingProofs`, the task queue. The invariant has two halves, one of the
  queue and the provers, one of the workers and their children, because most
  actions disturb one of them. `QueueProvidesService` maps every action to a step
  of `TaskService` or a stutter.
* `PipelineProofs`. The database of the lifecycle at work is as far as its tracer
  (`WorkSound`, `TracedSound`), a snapshot under way is tagged with its ledger
  (`SnapshotSound`), both are of one state unless they go back to a torn copy,
  and databases of other lifecycles do not change. `CopyFacts` is the step that
  matters: a copy with rows of two states is marked as torn, any other is a
  state that the file has been in.
* `ProjectionProofs` has three layers.
  * `SafeInv`: the shown rows are exactly the events of one branch, each with a
    number of its own (`RowsSound`), and a fact or a version in a page is a row
    as it is or was (`Known`). A fact that survives the comparison with the rows
    is a shown row, so the survivors lie on one branch and are not refused:
    `VersionsAccepted`, the theorem of `Sound`.
  * `ArchiveHeld`: the rows do not move while a replay that has counted them is
    about to end; with that, a replay ends with a fact for every row
    (`ReplaysEndWhole`). `NoGap` (a page has every version between the offset and
    its end), `FactsFollow` (a row behind the offset has its fact) and
    `ProposalFollows` (the proposal is the reconciliation of the facts) make
    `IInv`; once nothing is left to process the proposal is the reconciliation of
    the archive's rows.
  * `ProjectionFollowsContracts`, the theorem of `ProjectionCurrent`: the order
    by height in which the reconciler takes facts is the order of the chain
    (`PrecedesEarlier`: on a branch, a lower block is an ancestor), and along it
    the reconciler's status, owners and payouts are the contracts' (`HistoryOf`,
    by the smallest prefix on which they differ).

  `ChainAssumption` says what the chain and the contracts allow: an event is in
  one block of a branch, a proposal is created once, and its payouts stay within
  its amount (which `PayoutsBounded` proves of `Treasury`). `StatusAssumption`
  says what the contracts check of the status: `setPaused` names the other state,
  and `tallyVotes` refuses a paused proposal. It speaks of the events that can
  be decoded: were a toggle undecodable, the projection, which flips what it has,
  would be wrong from there on, where the contract's event names the state.

Out of the prover's reach, and only model-checked, is liveness: `CatchesUp` of
`Processor` and of `Projection`, `Converges`, `Proved`, `EveryTaskEnds`,
`EveryLifecycleProven`.

## 5. Not modelled

* Signatures, hashes, Merkle witnesses and proofs are ideal: what verifies was
  made from what it commits to. The ledgers' trees appear as the sets,
  sequences and functions they commit to.
* Encodings, HTTP, configuration checks and logging; runtime status rows and the
  readiness routes that read them. A `retrying` record of a version that was
  rewritten before its retry is never read again and keeps
  `processor-status-routes.ts:216` degraded; no model keeps these records' ages.
* `Processor`, `Indexer`: the order in which `start` and `stop` open and close
  timers and data sources; a stop is a crash at the same point. `Indexer`: the
  operator's mark on a rejection, which nothing else reads.
* `Pipeline`: a torn copy that SQLite itself refuses to read. When it is found
  while it is restored, that is `RestoreFails`; found only later, it would fail
  every run that resumes from it.
* `Projection`: events that change their proposal, vote weights and running
  tallies (numbers only), bond and price checks of payloads. Of what makes a
  reconciliation throw, `Refused` leaves out the checks of single payloads in
  `proposal-projection-reconciler.ts`: two observations of one event that differ
  (491), a tally's sums (227, 908), the recipient of a payout (1251) and a
  missing block height (1054, 1180).
* The vote reducer's prover shares `Merge`; its one-pass batch and its tracer,
  which runs in a browser and restarts from nothing, have no module.
* The ledger services' registries, transaction assembly in the services and
  CLI: each command sends one transaction, which is an action of `Treasury` or
  `PauseController` whoever builds it.
* Web application, back office, UI package, documentation site and deployment
  charts: forms and views over the API and the wallet, a large part of the
  repository's lines and no protocol state. The browser's prover runtime loads compiled
  artefacts and calls the SDK; its one piece of control is a message per request.

## 6. What could follow

1. A composition of `Indexer`, `ChangeFeed` and `Processor` over one store, in
   place of the three pairwise arguments of section 2.
2. `Projection` with two proposals and events that change theirs.
3. A theorem that `Projection` reads its pages from any store that implements
   `Feed`, so that `NothingMissed` need not be restated by `NoGap`.
