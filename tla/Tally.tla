-------------------------------- MODULE Tally --------------------------------
(***************************************************************************)
(* The two proofs of a tally together: one turns the staking ledger that   *)
(* the proposal has recorded into a voting ledger, the other counts the    *)
(* votes with the weights of a voting ledger.  Provers of both work at the *)
(* same time, on parts of either; TreasuryProposal.tallyVotes decides      *)
(* which pair it accepts.                                                  *)
(***************************************************************************)
EXTENDS VotingLedger, VoteReducer

CONSTANT Considered         \* bound: digests at hand when votes are counted

ASSUME VotersDelegate == Voters \subseteq Delegates

vars == <<ledgerVars, reducerVars>>

Init == LedgerInit /\ ReducerInit

\* The two provers do not wait for each other; a proof, once made, stays
\* valid, so it is enough to explore the counting of votes with the digests
\* that are Considered, and no digest after that.
Next ==
    \/ /\ proofs = {}
       /\ LedgerNext
       /\ UNCHANGED reducerVars
    \/ /\ digests \in Considered
       /\ ReducerNext(Ledgers)
       /\ UNCHANGED ledgerVars

Spec == Init /\ [][Next]_vars

\* Mutant: the votes may be weighed with another voting ledger.
AnyLedger(p, d) == TRUE

SameLedger(p, d) == p.ledger = d.toLedger

\* What tallyVotes asks of the two proofs (that the ledger still holds the
\* action states they found is Treasury!BoundToHistory).
Accepted(p, d) == Complete(p) /\ CompleteDigest(d) /\ SameLedger(p, d)

-----------------------------------------------------------------------------
\* The first vote of the key that the account delegates to.
VoteOf(account, to) ==
    IF account.delegate \in Voters
    THEN CastVote(Segment(0, to), account.delegate) ELSE NoVote

\* A tally that is accepted counts every MINA account of the recorded ledger
\* once, for what its delegate has voted first, whoever proved which part of
\* it in which order, with whatever was at hand.
TallyCountsAccounts ==
    \A p \in proofs, d \in digests : Accepted(p, d) =>
        \A vote \in Votes :
            p.tally[vote] =
                SumFunctionOnSet(Balance,
                    {i \in DOMAIN stakingLedger :
                        /\ stakingLedger[i].isMinaAccount
                        /\ VoteOf(stakingLedger[i], p.toActions) = vote})
=============================================================================
