------------------------------- MODULE MCTally -------------------------------
(***************************************************************************)
(* Ledgers of three to five accounts of two delegates, one of them with    *)
(* another token, in batches of two: an odd number of accounts ends inside *)
(* a batch, an even one at the end of it.  Chains of three votes, so that  *)
(* dummies or three batches are needed.                                    *)
(***************************************************************************)
EXTENDS Tally

CONSTANTS v1, v2

Of(d, b) == [delegate |-> d, balance |-> b, isMinaAccount |-> TRUE]
Token(d, b) == [Of(d, b) EXCEPT !.isMinaAccount = FALSE]

\* The ledger that votes are counted with: v1 has 1, and later 3; v2 has 1.
Small == <<Of(v1, 1), Of(v2, 1), Of(v1, 2), Token(v2, 4)>>

MCStakingLedgers ==
    {<<Of(v1, 1), Of(x, 2), Token(v1, 4), Of(y, 8), Of(v2, 16)>> :
        x, y \in Delegates}
    \cup {<<Of(v1, 1), Of(v1, 1), Of(x, 2), Of(v2, 1)>> : x \in Delegates}
    \cup {<<Token(x, 1), Of(v2, 1), Of(v1, 1)>> : x \in Delegates}
    \cup {Small}

Patterns == {<<"YAY", "NAY", "ABSTRAIN">>, <<"NAY", "NAY", "YAY">>}
MCChains ==
    {[i \in 1..3 |-> [voter |-> who[i], vote |-> pattern[i]]] :
        who \in [1..3 -> Voters], pattern \in Patterns}
MCTargets == {<<3, 1>>, <<3, 2>>, <<0, 3>>}

First == CHOOSE c \in MCChains : TRUE

\* One batch of the Small ledger, and the two that are all of it.
Part == [fromIndex |-> 0, fromLedger |-> EmptyVotingLedger, toIndex |-> 1,
         toLedger |-> [d \in Delegates |-> 1], exhausted |-> FALSE]
Rest == [Part EXCEPT !.fromIndex = 2, !.fromLedger = Part.toLedger,
                     !.toIndex = 3, !.toLedger[v1] = 3]
Whole == [Part EXCEPT !.toIndex = 3, !.toLedger = Rest.toLedger]
Exhausted == [Whole EXCEPT !.exhausted = TRUE]

\* The votes are counted, in every way, with the voting ledger of the Small
\* ledger and of its first batch; before that the ledgers are proved in every
\* way.
MCConsidered == {{Part, Exhausted}}

Explored ==
    \/ proofs = {} /\ chain = First /\ target = <<3, 1>>
    \/ stakingLedger = Small /\
       \/ proofs = {} /\ digests \subseteq {Part, Rest, Whole, Exhausted}
       \/ digests = {Part, Exhausted}
=============================================================================
