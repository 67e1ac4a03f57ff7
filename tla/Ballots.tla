------------------------------- MODULE Ballots -------------------------------
(***************************************************************************)
(* What a list of dispatched votes means: the reference that the Treasury  *)
(* decides by and that the Vote Reducer's proofs are checked against.      *)
(***************************************************************************)
EXTENDS Integers, Sequences, FiniteSetsExt, Functions

CONSTANT Voters             \* delegate keys that may vote

\* DUMMY, the fourth value of the circuit, never reaches the chain.
Votes == {"YAY", "NAY", "ABSTRAIN"}

VoteAction == [voter : Voters, vote : Votes]

NoVote == "NONE"

\* The first action of a voter counts; the later ones are nullified.
CastVote(list, voter) ==
    LET casts == {i \in 1..Len(list) : list[i].voter = voter}
    IN  IF casts = {} THEN NoVote ELSE list[Min(casts)].vote

Ballot(list) == [v \in Voters |-> CastVote(list, v)]

\* The weight behind one vote, for the balances delegated to each voter.
Weight(weight, ballot, vote) ==
    SumFunctionOnSet(weight, {v \in Voters : ballot[v] = vote})
=============================================================================
