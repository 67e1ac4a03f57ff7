----------------------------- MODULE TaskService -----------------------------
(***************************************************************************)
(* What a prover relies on when it hands a task to the queue: a task that  *)
(* was added ends once, with the result of its own input or with a         *)
(* failure.  TaskQueue is shown to provide it; Merge is built on it.       *)
(***************************************************************************)
CONSTANTS Tasks, NoResult

VARIABLES
    phase,                  \* of each task, as the prover sees it
    result                  \* the task whose output it was given

vars == <<phase, result>>

Init ==
    /\ phase = [t \in Tasks |-> "new"]
    /\ result = [t \in Tasks |-> NoResult]

Ask(t) ==
    /\ phase[t] = "new"
    /\ phase' = [phase EXCEPT ![t] = "waiting"]
    /\ UNCHANGED result

Complete(t) ==
    /\ phase[t] = "waiting"
    /\ phase' = [phase EXCEPT ![t] = "done"]
    /\ result' = [result EXCEPT ![t] = t]

Fail(t) ==
    /\ phase[t] = "waiting"
    /\ phase' = [phase EXCEPT ![t] = "failed"]
    /\ UNCHANGED result

\* The prover stops and starts again; what it has stored it does not ask for.
Restart ==
    /\ \E t \in Tasks : phase[t] \in {"waiting", "failed"}
    /\ phase' = [t \in Tasks |-> IF phase[t] = "done" THEN "done" ELSE "new"]
    /\ UNCHANGED result

Next ==
    \/ Restart
    \/ \E t \in Tasks : Ask(t) \/ Complete(t) \/ Fail(t)

Spec == Init /\ [][Next]_vars
=============================================================================
