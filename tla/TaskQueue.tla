------------------------------ MODULE TaskQueue ------------------------------
(***************************************************************************)
(* Proving tasks: a prover adds them to the queue (TaskQueue.addTask) and  *)
(* listens for their end; workers take them and have each one computed by  *)
(* a forked subprocess under a time limit (Worker.workJob).                *)
(*                                                                         *)
(* The queue itself is BullMQ over Redis: a job is waiting, or active      *)
(* under the lock of one worker, and ends completed or failed; its end is  *)
(* announced by an event to whoever listens at that moment.  A job has the *)
(* name of its task here; after obliterate a worker may still compute the  *)
(* job of before, but it no longer holds the lock.                         *)
(***************************************************************************)
EXTENDS Integers, FiniteSets

CONSTANTS
    Tasks, Workers,
    Concurrency,            \* tasks a prover keeps in flight
    Attempts,               \* TASK_ATTEMPTS, 5 by default
    ListensInTime,          \* no job ends before its prover listens for it
    NoTask, NoWorker,
    MaxFaults               \* bound of the exploration

VARIABLES
    phase, result,          \* of each task, in the prover
    job,                    \* of each task, in the queue
    attempts,               \* attemptsMade of the job
    lock,                   \* the worker that holds the job
    ended,                  \* announcements under way
    doing,                  \* what each worker process awaits
    subprocess,             \* this.subprocess of each worker, 0: undefined
    children,               \* the processes each worker has forked
    faults

prover == <<phase, result>>
queue == <<job, attempts, lock, ended>>
workers == <<doing, subprocess, children>>
vars == <<prover, queue, workers, faults>>

ASSUME TaskQueueAssumption ==
    /\ Concurrency \in Nat \ {0}
    /\ Attempts \in Nat \ {0}
    /\ ListensInTime \in BOOLEAN
    /\ NoTask \notin Tasks
    /\ NoWorker \notin Workers
    /\ MaxFaults \in Nat

\* Names for child processes: one in use, one exiting, the rest forgotten.
Pids == 1..(MaxFaults + 2)

Child == [state : {"none", "starting", "ready", "dead"}, work : SUBSET Tasks]
NoChild == [state |-> "none", work |-> {}]

\* "ensuring" awaits that the child is ready, "running" its answer.
Doing == [step : {"idle", "ensuring", "running"},
          task : Tasks \cup {NoTask}, pid : Pids \cup {0}]
Idle == [step |-> "idle", task |-> NoTask, pid |-> 0]

TypeOK ==
    /\ phase \in [Tasks -> {"new", "added", "listening", "done", "failed"}]
    /\ result \in [Tasks -> Tasks \cup {NoTask}]
    /\ job \in [Tasks -> {"none", "waiting", "active", "completed", "failed"}]
    /\ attempts \in [Tasks -> 0..Attempts]
    /\ lock \in [Tasks -> Workers \cup {NoWorker}]
    /\ ended \in SUBSET (Tasks \X ({"failed"} \cup Tasks))
    /\ doing \in [Workers -> Doing]
    /\ subprocess \in [Workers -> Pids \cup {0}]
    /\ children \in [Workers -> [Pids -> Child]]
    /\ faults \in 0..MaxFaults

Init ==
    /\ phase = [t \in Tasks |-> "new"]
    /\ result = [t \in Tasks |-> NoTask]
    /\ job = [t \in Tasks |-> "none"]
    /\ attempts = [t \in Tasks |-> 0]
    /\ lock = [t \in Tasks |-> NoWorker]
    /\ ended = {}
    /\ doing = [w \in Workers |-> Idle]
    \* start() has forked the first child.
    /\ subprocess = [w \in Workers |-> 1]
    /\ children = [w \in Workers |-> [p \in Pids |->
                      IF p = 1 THEN [NoChild EXCEPT !.state = "ready"] ELSE NoChild]]
    /\ faults = 0

Fault == faults < MaxFaults /\ faults' = faults + 1

-----------------------------------------------------------------------------
(* The prover *)

InFlight == {t \in Tasks : phase[t] \in {"added", "listening"}}

AddTask(t) ==
    /\ phase[t] = "new"
    /\ Cardinality(InFlight) < Concurrency
    /\ phase' = [phase EXCEPT ![t] = "added"]
    /\ job' = [job EXCEPT ![t] = "waiting"]
    /\ UNCHANGED <<result, attempts, lock, ended, workers, faults>>

\* onTaskComplete, once queue.add has returned the job's id.
Listen(t) ==
    /\ phase[t] = "added"
    /\ phase' = [phase EXCEPT ![t] = "listening"]
    /\ UNCHANGED <<result, queue, workers, faults>>

\* Mutant: the prover listens for completed jobs only.
NotifyCompleted(t) ==
    \E how \in {"failed"} \cup Tasks :
        /\ <<t, how>> \in ended
        /\ ListensInTime => phase[t] # "added"
        /\ ended' = ended \ {<<t, how>>}
        /\ IF phase[t] # "listening" \/ how = "failed" THEN UNCHANGED prover
           ELSE /\ phase' = [phase EXCEPT ![t] = "done"]
                /\ result' = [result EXCEPT ![t] = how]
        /\ UNCHANGED <<job, attempts, lock, workers, faults>>

\* onCompleted, onFailed: an announcement that nobody listens for is lost.
Notify(t) ==
    \E how \in {"failed"} \cup Tasks :
        /\ <<t, how>> \in ended
        /\ ListensInTime => phase[t] # "added"
        /\ ended' = ended \ {<<t, how>>}
        /\ IF phase[t] # "listening" THEN UNCHANGED prover
           ELSE IF how = "failed"
           THEN /\ phase' = [phase EXCEPT ![t] = "failed"]
                /\ UNCHANGED result
           ELSE /\ phase' = [phase EXCEPT ![t] = "done"]
                /\ result' = [result EXCEPT ![t] = how]
        /\ UNCHANGED <<job, attempts, lock, workers, faults>>

\* The prover dies or gives up and is started again.  It begins with
\* obliterate, which also removes active jobs, and skips what it has stored.
Restart ==
    /\ \/ \E t \in Tasks : phase[t] = "failed"
       \/ InFlight # {}
    /\ Fault
    /\ phase' = [t \in Tasks |-> IF phase[t] = "done" THEN "done" ELSE "new"]
    /\ job' = [t \in Tasks |-> "none"]
    /\ attempts' = [t \in Tasks |-> 0]
    /\ lock' = [t \in Tasks |-> NoWorker]
    /\ ended' = {}
    /\ UNCHANGED <<result, workers>>

-----------------------------------------------------------------------------
(* The end of an attempt, in the queue.  A worker without the lock gets an *)
(* error instead and the job is none of its business.                      *)

Completed(w, t, output) ==
    IF lock[t] = w
    THEN /\ job' = [job EXCEPT ![t] = "completed"]
         /\ lock' = [lock EXCEPT ![t] = NoWorker]
         /\ ended' = ended \cup {<<t, output>>}
         /\ UNCHANGED attempts
    ELSE UNCHANGED queue

AttemptFailed(w, t) ==
    IF lock[t] = w
    THEN /\ attempts' = [attempts EXCEPT ![t] = @ + 1]
         /\ lock' = [lock EXCEPT ![t] = NoWorker]
         /\ IF attempts[t] + 1 < Attempts
            THEN /\ job' = [job EXCEPT ![t] = "waiting"]
                 /\ UNCHANGED ended
            ELSE /\ job' = [job EXCEPT ![t] = "failed"]
                 /\ ended' = ended \cup {<<t, "failed">>}
    ELSE UNCHANGED queue

\* The lock runs out, and another worker finds the job stalled.
Stall(t) ==
    /\ job[t] = "active"
    /\ Fault
    /\ job' = [job EXCEPT ![t] = "waiting"]
    /\ lock' = [lock EXCEPT ![t] = NoWorker]
    /\ UNCHANGED <<prover, attempts, ended, workers>>

-----------------------------------------------------------------------------
(* A worker and its children *)

\* The child that this.subprocess names has died.
Disconnected(w) ==
    /\ subprocess[w] # 0
    /\ children[w][subprocess[w]].state = "dead"

\* The child of w that dies: its answers are over, its exit is not yet known.
Killed(w, p) ==
    [children EXCEPT ![w][p] = [state |-> "dead", work |-> {}]]

\* Mutant: the child that exceeded its time is left running and kept.
SpareSubprocess(w) == UNCHANGED <<subprocess, children>>

TerminateSubprocess(w) ==
    IF subprocess[w] = 0 THEN UNCHANGED <<subprocess, children>>
    ELSE /\ children' = Killed(w, subprocess[w])
         /\ subprocess' = [subprocess EXCEPT ![w] = 0]

\* runSubprocessJobWithTimeout sends the job to this.subprocess, which need
\* not be the child that ensureSubprocess waited for, or throws if there is
\* none.  Nothing is sent to a child that has died.
Send(w, t, forked) ==
    LET p == subprocess[w]
    IN  IF p = 0
        THEN /\ AttemptFailed(w, t)
             /\ doing' = [doing EXCEPT ![w] = Idle]
             /\ children' = forked
        ELSE /\ doing' = [doing EXCEPT ![w] =
                   [step |-> "running", task |-> t, pid |-> p]]
             /\ children' = IF forked[w][p].state = "dead" THEN forked
                            ELSE [forked EXCEPT ![w][p].work = @ \cup {t}]
             /\ UNCHANGED queue

\* A job is taken while the channel of the current child is open, which a
\* child that has just died may seem to have.
TakeWithChild(w, t) ==
    /\ doing[w] = Idle
    /\ job[t] = "waiting"
    /\ subprocess[w] # 0
    /\ job' = [job EXCEPT ![t] = "active"]
    /\ lock' = [lock EXCEPT ![t] = w]
    /\ doing' = [doing EXCEPT ![w] =
          [step |-> "running", task |-> t, pid |-> subprocess[w]]]
    /\ children' = IF Disconnected(w) THEN children
                   ELSE [children EXCEPT ![w][subprocess[w]].work = @ \cup {t}]
    /\ UNCHANGED <<prover, attempts, ended, subprocess, faults>>

\* ensureSubprocess forks a child if there is none or its channel is closed.
TakeAndFork(w, t) ==
    /\ doing[w] = Idle
    /\ job[t] = "waiting"
    /\ subprocess[w] = 0 \/ Disconnected(w)
    /\ job' = [job EXCEPT ![t] = "active"]
    /\ lock' = [lock EXCEPT ![t] = w]
    /\ \E p \in Pids :
          /\ children[w][p].state = "none"
          /\ \A q \in Pids : children[w][q].state = "none" => p <= q
          /\ children' = [children EXCEPT ![w][p].state = "starting"]
          /\ subprocess' = [subprocess EXCEPT ![w] = p]
          /\ doing' = [doing EXCEPT ![w] =
                [step |-> "ensuring", task |-> t, pid |-> p]]
    /\ UNCHANGED <<prover, attempts, ended, faults>>

Take(w, t) == TakeWithChild(w, t) \/ TakeAndFork(w, t)

\* The child has imported and prepared its tasks: the job that waits for it
\* is sent.
Ready(w, p) ==
    /\ children[w][p].state = "starting"
    /\ LET forked == [children EXCEPT ![w][p].state = "ready"]
       IN  IF doing[w].step = "ensuring" /\ doing[w].pid = p
           THEN Send(w, doing[w].task, forked)
           ELSE children' = forked /\ UNCHANGED <<queue, doing>>
    /\ UNCHANGED <<prover, subprocess, faults>>

\* onMessage: an answer carries no task; it goes to the job that listens on
\* this child, if there is one.
Answer(w, p, t) ==
    /\ children[w][p].state = "ready"
    /\ t \in children[w][p].work
    /\ children' = [children EXCEPT ![w][p].work = @ \ {t}]
    /\ IF doing[w].step = "running" /\ doing[w].pid = p
       THEN /\ Completed(w, doing[w].task, t)
            /\ doing' = [doing EXCEPT ![w] = Idle]
       ELSE UNCHANGED <<queue, doing>>
    /\ UNCHANGED <<prover, subprocess, faults>>

\* The task throws in the child, which reports the error.
TaskError(w) ==
    LET t == doing[w].task
        p == doing[w].pid
    IN  /\ doing[w].step = "running"
        /\ t \in children[w][p].work
        /\ Fault
        /\ children' = [children EXCEPT ![w][p].work = @ \ {t}]
        /\ AttemptFailed(w, t)
        /\ doing' = [doing EXCEPT ![w] = Idle]
        /\ UNCHANGED <<prover, subprocess>>

\* MAX_TASK_DURATION has passed, or the channel reports an error.
Timeout(w) ==
    /\ doing[w].step = "running"
    /\ IF children[w][doing[w].pid].state = "dead" THEN UNCHANGED faults ELSE Fault
    /\ TerminateSubprocess(w)
    /\ AttemptFailed(w, doing[w].task)
    /\ doing' = [doing EXCEPT ![w] = Idle]
    /\ UNCHANGED prover

\* A child is killed (out of memory) or fails to start.
ChildDies(w, p) ==
    /\ children[w][p].state \in {"starting", "ready"}
    /\ Fault
    /\ children' = Killed(w, p)
    /\ UNCHANGED <<prover, queue, doing, subprocess>>

\* The exit handlers of ensureSubprocess clear the reference, whichever child
\* it names by now.
ClearSubprocess(w, p) == [subprocess EXCEPT ![w] = 0]

\* The exit of a child reaches the worker; a job that waits for it to be
\* ready or for its answer fails.
Exit(w, p) ==
    /\ children[w][p].state = "dead"
    /\ children' = [children EXCEPT ![w][p] = NoChild]
    /\ subprocess' = ClearSubprocess(w, p)
    /\ IF doing[w] # Idle /\ doing[w].pid = p
       THEN /\ AttemptFailed(w, doing[w].task)
            /\ doing' = [doing EXCEPT ![w] = Idle]
       ELSE UNCHANGED <<queue, doing>>
    /\ UNCHANGED <<prover, faults>>

-----------------------------------------------------------------------------
Next ==
    \/ Restart
    \/ \E t \in Tasks : AddTask(t) \/ Listen(t) \/ Notify(t) \/ Stall(t)
    \/ \E w \in Workers :
          \/ TaskError(w) \/ Timeout(w)
          \/ \E t \in Tasks : Take(w, t)
          \/ \E p \in Pids :
                \/ Ready(w, p) \/ ChildDies(w, p) \/ Exit(w, p)
                \/ \E t \in Tasks : Answer(w, p, t)

Spec == Init /\ [][Next]_vars

\* The prover, the queue's announcements, the workers and the computation all
\* go on; nothing has to go wrong.
Fairness ==
    /\ \A t \in Tasks :
          WF_vars(AddTask(t)) /\ WF_vars(Listen(t)) /\ WF_vars(Notify(t))
    /\ \A w \in Workers :
          /\ WF_vars(\E t \in Tasks : Take(w, t))
          /\ \A p \in Pids :
                /\ WF_vars(Ready(w, p)) /\ WF_vars(Exit(w, p))
                /\ \A t \in Tasks : WF_vars(Answer(w, p, t))

FairSpec == Spec /\ Fairness

-----------------------------------------------------------------------------
(* Properties *)

\* A prover is given the output of its own task, although answers carry no
\* task, time limits cut tasks short and children are forked anew
\* (Worker.runSubprocessJobWithTimeout).
ResultIsOwn == \A t \in Tasks : phase[t] = "done" => result[t] = t

\* No child works on two tasks, also when a time limit has cut the first one
\* short: tasks of one process share the ledgers they prove about
\* (worker-job-process, stakingLedgerToVotingLedgerContext).
OneTaskPerChild ==
    \A w \in Workers, p \in Pids : Cardinality(children[w][p].work) <= 1

\* A job is locked exactly while it is active; it is only retried while it
\* has attempts left, and there is none before its task is added.
JobsSound ==
    \A t \in Tasks :
        /\ lock[t] # NoWorker <=> job[t] = "active"
        /\ job[t] \in {"waiting", "active"} => attempts[t] < Attempts
        /\ phase[t] = "new" => job[t] = "none" /\ attempts[t] = 0

\* A worker awaits the child that it would send the next task to, or that
\* child is gone; this child computes nothing but the task awaited.
WorkerSound(w) ==
    /\ doing[w].step = "idle" =>
          /\ doing[w] = Idle
          /\ subprocess[w] # 0 => children[w][subprocess[w]].work = {}
    /\ doing[w].step # "idle" =>
          /\ doing[w].task \in Tasks
          /\ doing[w].pid \in Pids
          /\ subprocess[w] \in {0, doing[w].pid}
    /\ subprocess[w] # 0 => children[w][subprocess[w]].state # "none"
    /\ doing[w].step = "ensuring" => children[w][doing[w].pid].work = {}
    /\ doing[w].step = "running" =>
          children[w][doing[w].pid].work \subseteq {doing[w].task}
    /\ \A p \in Pids :
          /\ children[w][p].state = "none" => children[w][p].work = {}
          /\ \A t, u \in children[w][p].work : t = u

ChildrenSound == \A w \in Workers : WorkerSound(w)

AnswersSound ==
    /\ \A e \in ended : e[2] \in {"failed", e[1]}
    /\ ResultIsOwn

\* The inductive invariant behind ResultIsOwn and OneTaskPerChild.
IInv == TypeOK /\ JobsSound /\ ChildrenSound /\ AnswersSound

Abstract == INSTANCE TaskService WITH
    phase <- [t \in Tasks |-> IF phase[t] \in {"added", "listening"}
                              THEN "waiting" ELSE phase[t]],
    NoResult <- NoTask

\* The queue and its workers are the task service that provers rely on.
ProvidesService == Abstract!Spec

\* Every task ends for the prover that awaits it, through failed attempts,
\* stalls, lost children and restarts (TaskQueue.addTask).
EveryTaskEnds == <>[](\A t \in Tasks : phase[t] \in {"done", "failed"})
=============================================================================
