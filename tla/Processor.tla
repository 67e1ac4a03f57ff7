------------------------------ MODULE Processor ------------------------------
(***************************************************************************)
(* EventsProcessor: instances that follow the change feed of the indexer   *)
(* (the worker, the operator's --retry-blocked command, or two workers     *)
(* while a release rolls out), dispatch each row to its handler in one     *)
(* database transaction with the offset, retry what fails and quarantine   *)
(* what no handler accepts.                                                *)
(*                                                                         *)
(* The n-th number of the feed is given to the event published[n]; a row   *)
(* carries only its last number, so an earlier version disappears when its *)
(* event is rewritten (Feed, ChangeFeed).                                  *)
(***************************************************************************)
EXTENDS Integers, SequencesExt

CONSTANTS
    Workers,                \* processes that poll
    Operators,              \* runs of the --retry-blocked command
    Events,
    BatchSize,              \* processorBatchSize
    MaxAttempts,            \* maxAttempts, 5 by default
    MaxSequence,            \* bound of the exploration: numbers of the feed
    MaxFaults               \* bound of the exploration: errors and crashes

VARIABLES
    published,              \* the feed
    undecodable,            \* the events that no handler accepts yet
    offset,                 \* processor_offsets.last_seen_change_sequence
    applied,                \* history: the versions dispatched and committed
    failures,               \* state of processor_event_failures, per version
    attemptCount,           \* its attempt_count
    pass,                   \* of each instance: where it is, and its variables
    faults

database == <<offset, applied, failures, attemptCount>>
vars == <<published, undecodable, database, pass, faults>>

Instances == Workers \cup Operators

ASSUME ProcessorAssumption ==
    /\ Workers \cap Operators = {}
    /\ BatchSize \in Nat \ {0}
    /\ MaxAttempts \in Nat \ {0}
    /\ MaxSequence \in Nat
    /\ MaxFaults \in Nat

States == {"none", "retrying", "blocked", "quarantined", "superseded", "resolved"}

Versions == 1..MaxSequence

Steps == {"idle", "due", "recovering", "scanning", "superseding",
          "rechecking", "resuming", "fetching", "starting", "attempting",
          "rejecting", "failing", "unblocking"}

Passes ==
    [step : Steps,
     cursor : 0..MaxSequence,
     target : 0..MaxSequence,       \* the blocked failure that was found
     page : SUBSET Versions,        \* what is left of it
     known : States,                \* the failure of the event at hand
     tries : Nat,                   \* its attemptCount
     attempts : Nat]                \* attemptsThisPass

Idle == [step |-> "idle", cursor |-> 0, target |-> 0, page |-> {},
         known |-> "none", tries |-> 0, attempts |-> 0]

-----------------------------------------------------------------------------
(* The feed *)

Current == {v \in DOMAIN published :
               \A w \in DOMAIN published : published[w] = published[v] => w <= v}

\* getEventsPage: the lowest BatchSize numbers above the cursor.
PageAfter(number) ==
    LET above == {v \in Current : v > number}
    IN  {v \in above : Cardinality({w \in above : w < v}) < BatchSize}

\* Mutant: any newer event will do.
SuccessorsOfAny(v) == {w \in Versions : w > v}

\* isImmutableSuccessor.
Successors(v) == {w \in DOMAIN published : w > v /\ published[w] = published[v]}

Rewrite(e) ==
    /\ Len(published) < MaxSequence
    /\ published' = Append(published, e)
    /\ UNCHANGED <<undecodable, database, pass, faults>>

\* Handlers that accept the events are deployed.
Release ==
    /\ undecodable # {}
    /\ undecodable' = {}
    /\ UNCHANGED <<published, database, pass, faults>>

-----------------------------------------------------------------------------
(* A database as this version of the code finds it: new, or with a failure *)
(* that an earlier version left blocked.                                   *)
Init ==
    /\ undecodable \in SUBSET Events
    /\ attemptCount = [v \in Versions |-> 0]
    /\ \/ /\ published = <<>>
          /\ offset = 0
          /\ applied = <<>>
          /\ failures = [v \in Versions |-> "none"]
       \/ /\ published \in {<<e>> : e \in Events}
          /\ MaxSequence > 0
          /\ \/ offset = 0 /\ applied = <<>>
             \/ offset = 1 /\ applied = <<1>>
          /\ failures = [v \in Versions |-> IF v = 1 THEN "blocked" ELSE "none"]
    /\ pass = [i \in Instances |-> Idle]
    /\ faults = 0

At(i, step) == pass[i].step = step

Become(i, p) == pass' = [pass EXCEPT ![i] = p]

Blocked == {v \in Versions : failures[v] = "blocked"}

-----------------------------------------------------------------------------
(* runProcessOnce: recovery of a blocked failure *)

\* A worker at its poll interval, an operator once.
FindBlocked(i) ==
    /\ At(i, IF i \in Workers THEN "idle" ELSE "due")
    /\ \/ /\ Blocked = {}
          /\ Become(i, [Idle EXCEPT !.step = "resuming"])
       \/ \E v \in Blocked :
             Become(i, [Idle EXCEPT !.step = "recovering", !.target = v])
    /\ UNCHANGED <<published, undecodable, database, faults>>

\* trySupersedeBlockedFailure, before the loop.
ReadOffset(i) ==
    /\ At(i, "recovering")
    /\ Become(i, [pass[i] EXCEPT
          !.step = IF offset >= pass[i].target THEN "superseding" ELSE "scanning",
          !.cursor = offset])
    /\ UNCHANGED <<published, undecodable, database, faults>>

\* Mutant: the scan does not advance its own cursor.
SameCursor(i) == pass[i].cursor

\* nextCursor of the page.
NextCursor(i) == Max(PageAfter(pass[i].cursor))

\* An iteration of the loop.
ScanPage(i) ==
    LET found == PageAfter(pass[i].cursor)
        successors == found \cap Successors(pass[i].target)
    IN  /\ At(i, "scanning")
        /\ \/ /\ successors # {}
              /\ Become(i, [pass[i] EXCEPT !.step = "superseding"])
           \/ /\ found = {}
              /\ Become(i, [pass[i] EXCEPT !.step = "rechecking"])
           \/ /\ found # {} /\ successors = {}
              /\ Become(i, [pass[i] EXCEPT !.cursor = NextCursor(i)])
        /\ UNCHANGED <<published, undecodable, database, faults>>

MarkFailureSuperseded(i) ==
    LET v == pass[i].target
    IN  /\ At(i, "superseding")
        /\ failures' = IF failures[v] = "blocked"
                       THEN [failures EXCEPT ![v] = "superseded"]
                       ELSE failures
        /\ Become(i, [Idle EXCEPT !.step = "rechecking"])
        /\ UNCHANGED <<published, undecodable, offset, applied, attemptCount,
                       faults>>

\* Mutant: the pass goes on after a recovery that found no successor.
NothingBlocks == TRUE

Unblocked == Blocked = {}

RecheckBlocked(i) ==
    /\ At(i, "rechecking")
    /\ Become(i, IF Unblocked THEN [Idle EXCEPT !.step = "resuming"] ELSE Idle)
    /\ UNCHANGED <<published, undecodable, database, faults>>

-----------------------------------------------------------------------------
(* processOnceFromIndexerApi *)

Resume(i) ==
    /\ At(i, "resuming")
    /\ Become(i, [Idle EXCEPT !.step = "fetching", !.cursor = offset])
    /\ UNCHANGED <<published, undecodable, database, faults>>

FetchPage(i) ==
    LET found == PageAfter(pass[i].cursor)
    IN  /\ At(i, "fetching")
        /\ Become(i, IF found = {} THEN Idle
                     ELSE [Idle EXCEPT !.step = "starting", !.page = found])
        /\ UNCHANGED <<published, undecodable, database, faults>>

\* The version that the instance is working on.
Version(i) == Min(pass[i].page)

\* processEventWithRetries, before the loop.
StartEvent(i) ==
    LET v == Version(i)
    IN  /\ At(i, "starting")
        /\ Become(i, IF failures[v] = "blocked" THEN Idle
                     ELSE [pass[i] EXCEPT
                              !.step = "attempting",
                              !.known = failures[v],
                              !.tries = IF failures[v] = "retrying"
                                        THEN attemptCount[v] ELSE 0])
        /\ UNCHANGED <<published, undecodable, database, faults>>

NextEvent(i) ==
    LET rest == pass[i].page \ {Version(i)}
    IN  Become(i, IF rest = {} THEN Idle
                  ELSE [Idle EXCEPT !.step = "starting", !.page = rest])

\* The transaction commits, and the instance learns it or sees an error.
Answered(i) ==
    \/ NextEvent(i) /\ UNCHANGED faults
    \/ /\ faults < MaxFaults
       /\ faults' = faults + 1
       /\ Become(i, [pass[i] EXCEPT !.step = "failing"])

\* Mutant: only the failure record tells what is done.
RecordedAsDone(i) == failures[Version(i)] \in {"resolved", "quarantined"}

\* The offset is read again under the advisory lock.
AlreadyProcessed(i) == offset >= Version(i)

Skip(i) ==
    /\ At(i, "attempting")
    /\ AlreadyProcessed(i)
    /\ failures' = IF pass[i].known \in {"none", "quarantined"} THEN failures
                   ELSE [failures EXCEPT ![Version(i)] = "superseded"]
    /\ Answered(i)
    /\ UNCHANGED <<published, undecodable, offset, applied, attemptCount>>

\* What the transaction does to the failures of the event.
Settled(i) ==
    LET done == Version(i)
    IN  [v \in Versions |->
            IF v = done
            THEN IF pass[i].known = "none" THEN failures[v] ELSE "resolved"
            ELSE IF /\ v \in DOMAIN published
                    /\ published[v] = published[done]
                    /\ failures[v] \in {"retrying", "quarantined"}
                 THEN "superseded"
                 ELSE failures[v]]

Apply(i) ==
    /\ At(i, "attempting")
    /\ ~ AlreadyProcessed(i)
    /\ published[Version(i)] \notin undecodable
    /\ applied' = Append(applied, Version(i))
    /\ offset' = Version(i)
    /\ failures' = Settled(i)
    /\ Answered(i)
    /\ UNCHANGED <<published, undecodable, attemptCount>>

\* No handler accepts the event; the transaction is rolled back.
Reject(i) ==
    /\ At(i, "attempting")
    /\ ~ AlreadyProcessed(i)
    /\ published[Version(i)] \in undecodable
    /\ Become(i, [pass[i] EXCEPT !.step = "rejecting"])
    /\ UNCHANGED <<published, undecodable, database, faults>>

\* A handler or the database fails; the transaction is rolled back.
Fail(i) ==
    /\ At(i, "attempting")
    /\ faults < MaxFaults
    /\ faults' = faults + 1
    /\ Become(i, [pass[i] EXCEPT !.step = "failing"])
    /\ UNCHANGED <<published, undecodable, database>>

-----------------------------------------------------------------------------
(* recordEventFailure *)

RecordRejection(i) ==
    /\ At(i, "rejecting")
    /\ offset' = Max({offset, Version(i)})
    /\ failures' = [failures EXCEPT ![Version(i)] = "quarantined"]
    /\ attemptCount' = [attemptCount EXCEPT ![Version(i)] = pass[i].tries + 1]
    /\ NextEvent(i)
    /\ UNCHANGED <<published, undecodable, applied, faults>>

LastAttempt(i) == pass[i].attempts + 1 >= MaxAttempts

\* Mutant: an event that was tried often enough lets the next one pass.
PassOver(i) ==
    offset' = IF LastAttempt(i) THEN Max({offset, Version(i)}) ELSE offset

\* An operational failure holds up the events behind it.
HoldLine(i) == offset' = offset

\* Without the lock, and whatever the offset is by now.
RecordFailure(i) ==
    /\ At(i, "failing")
    /\ HoldLine(i)
    /\ failures' = [failures EXCEPT ![Version(i)] = "retrying"]
    /\ attemptCount' = [attemptCount EXCEPT ![Version(i)] = pass[i].tries + 1]
    /\ Become(i, IF LastAttempt(i) THEN Idle
                 ELSE [pass[i] EXCEPT !.step = "attempting",
                                      !.known = "retrying",
                                      !.tries = @ + 1,
                                      !.attempts = @ + 1])
    /\ UNCHANGED <<published, undecodable, applied, faults>>

-----------------------------------------------------------------------------
(* retryBlockedEvent *)

FindBlockedToRetry(i) ==
    /\ i \in Operators
    /\ At(i, "idle")
    /\ \E v \in Blocked :
          Become(i, [Idle EXCEPT !.step = "unblocking", !.target = v])
    /\ UNCHANGED <<published, undecodable, database, faults>>

SaveRetrying(i) ==
    LET v == pass[i].target
    IN  /\ At(i, "unblocking")
        /\ failures' = [failures EXCEPT ![v] = "retrying"]
        /\ attemptCount' = [attemptCount EXCEPT ![v] = 0]
        /\ Become(i, [Idle EXCEPT !.step = "due"])
        /\ UNCHANGED <<published, undecodable, offset, applied, faults>>

\* The process stops, or the database or the indexer cannot be reached: the
\* pass ends and what it held in memory is lost.
Abandon(i) ==
    /\ ~ At(i, "idle")
    /\ faults < MaxFaults
    /\ faults' = faults + 1
    /\ Become(i, Idle)
    /\ UNCHANGED <<published, undecodable, database>>

Pass(i) ==
    \/ FindBlocked(i) \/ ReadOffset(i) \/ ScanPage(i)
    \/ MarkFailureSuperseded(i) \/ RecheckBlocked(i)
    \/ Resume(i) \/ FetchPage(i) \/ StartEvent(i)
    \/ Skip(i) \/ Apply(i) \/ Reject(i)
    \/ RecordRejection(i) \/ RecordFailure(i) \/ SaveRetrying(i)

Next ==
    \/ \E i \in Instances :
          Pass(i) \/ Fail(i) \/ FindBlockedToRetry(i) \/ Abandon(i)
    \/ \E e \in Events : Rewrite(e)
    \/ Release

Spec == Init /\ [][Next]_vars

\* setInterval starts a pass when none is active, and a pass goes on by
\* itself: timers, answers and database replies come.
Fairness == \A i \in Instances : WF_vars(Pass(i))

FairSpec == Spec /\ Fairness

-----------------------------------------------------------------------------
(* Properties *)

TypeOK ==
    /\ published \in Seq(Events) /\ Len(published) <= MaxSequence
    /\ undecodable \subseteq Events
    /\ offset \in 0..MaxSequence
    /\ applied \in Seq(Versions)
    /\ failures \in [Versions -> States]
    /\ attemptCount \in [Versions -> Nat]
    /\ pass \in [Instances -> Passes]
    /\ faults \in 0..MaxFaults

\* Versions take effect in the order of the feed, each at most once, however
\* many instances race and whatever fails, also when a commit is not
\* acknowledged and retried.
InOrder ==
    /\ \A j, k \in DOMAIN applied : j < k => applied[j] < applied[k]
    /\ \A k \in DOMAIN applied : applied[k] <= offset

\* What a pass holds at the steps that use it.
Equipped ==
    \A i \in Instances :
        /\ pass[i].step \in {"starting", "attempting", "rejecting", "failing"} =>
              pass[i].page # {}
        /\ pass[i].step \in {"recovering", "scanning", "superseding", "unblocking"} =>
              pass[i].target \in Versions

Recovery == {"idle", "due", "recovering", "scanning", "superseding",
             "rechecking", "unblocking"}

\* No pass is beyond the recovery while a failure is blocked.
HeldUp == Blocked # {} => \A i \in Instances : pass[i].step \in Recovery

ComesAgain(v) == \E w \in DOMAIN published : w > v /\ published[w] = published[v]

\* Who is about to settle a blocked failure has a reason.
Caused ==
    \A i \in Instances : At(i, "superseding") =>
        ComesAgain(pass[i].target) \/ offset >= pass[i].target

\* The inductive invariant behind InOrder, BlockedHolds and SettledForCause.
IInv == TypeOK /\ InOrder /\ Equipped /\ HeldUp /\ Caused

Done(v) == \/ \E k \in DOMAIN applied : applied[k] = v
           \/ failures[v] = "quarantined"

\* No event is lost behind the offset: its last version took effect or its
\* quarantine is on record.
Accounted == \A v \in Current : v <= offset => Done(v)

\* As long as the operator has nothing to retry, one worker keeps to that,
\* whatever fails.
NothingSkipped == Unblocked => []Accounted

\* As long as a failure is blocked, nothing moves.
BlockedHolds == [][Blocked # {} => UNCHANGED <<offset, applied>>]_vars

\* Without the operator a blocked failure is settled only when its event has
\* come again, or has been processed.
SettledForCause ==
    [][\A v \in Blocked : failures'[v] = "superseded" =>
          ComesAgain(v) \/ offset >= v]_vars

\* Once errors end and the feed rests, the offset passes the last version of
\* every event, unless a blocked failure has no successor.
CatchesUp ==
    <>[](\/ \A v \in Current : v <= offset
         \/ \E v \in Blocked : ~ ComesAgain(v))
=============================================================================
