----------------------------- MODULE MCProjection -----------------------------
(* A proposal that is created on two branches; a block stands for the blocks *)
(* of some periods.  Both branches have one of its votes.  On the longer one *)
(* the voter votes again, the result is approved and paid in part, and the   *)
(* proposal is paused; the other one has a vote that no handler accepts.     *)
EXTENDS Projection

MCBlocks == {"g", "a1", "a2", "b1"}

MCParent == [b \in MCBlocks \ {"g"} |-> IF b = "a2" THEN "a1" ELSE "g"]

MCHeight == [b \in MCBlocks |->
    CASE b = "g" -> 0 [] b = "a2" -> 2 [] OTHER -> 1]

MCEventsIn == [b \in MCBlocks |->
    CASE b = "a1" -> <<"create", "vote">>
      [] b = "a2" -> <<"again", "tally", "pay", "pause">>
      [] b = "b1" -> <<"recreate", "vote", "odd">>
      [] OTHER -> <<>>]

MCEvents == {"create", "recreate", "vote", "again", "pause", "tally", "pay", "odd"}

MCType == [e \in MCEvents |->
    CASE e \in {"create", "recreate"} -> "created"
      [] e \in {"vote", "again", "odd"} -> "voted"
      [] e = "pause" -> "toggled"
      [] e = "tally" -> "tallied"
      [] e = "pay" -> "executed"]

MCPayload == [e \in MCEvents |->
    CASE e \in {"vote", "again", "odd"} -> "voter"
      [] e = "pause" -> "paused"
      [] e = "tally" -> "approved"
      [] e = "pay" -> 2
      [] OTHER -> "unknown"]

\* The staking ledger is awaited only where the archive starts with one block
\* or none, which halves the states.
MCInit == Init /\ (ledger <=> lastSequence > 2)

MCSpec == MCInit /\ [][Next]_vars /\ Fairness
=============================================================================
