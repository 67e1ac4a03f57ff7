--------------------------------- MODULE Feed ---------------------------------
(***************************************************************************)
(* What the indexer promises to whoever follows its change feed: a row     *)
(* that changes gets a number above every number that could be read        *)
(* before.  A reader that has seen everything up to a number will find     *)
(* all later changes above it.                                             *)
(***************************************************************************)
EXTENDS Integers

CONSTANTS Rows, Sequences

VARIABLE changeSequence     \* of each row; 0 before it is inserted

Above(n) == \A r \in Rows : changeSequence[r] < n

Init == changeSequence = [r \in Rows |-> 0]

\* A transaction becomes visible as a whole; rows that it does not change
\* keep their numbers.
Publish ==
    /\ changeSequence' \in [Rows -> Sequences \cup {0}]
    /\ \A r \in Rows :
          changeSequence'[r] # changeSequence[r] => Above(changeSequence'[r])

Next == Publish

Spec == Init /\ [][Next]_changeSequence
=============================================================================
