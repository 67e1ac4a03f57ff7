----------------------------- MODULE VotingLedger -----------------------------
(***************************************************************************)
(* The StakingLedgerToVotingLedger program: proofs that digest the next    *)
(* accounts of a staking ledger into the voting ledger, which holds what   *)
(* is delegated to each key, proofs that merge two adjacent ones, and the  *)
(* proof that nothing is left to digest.                                   *)
(*                                                                         *)
(* A batch always has ACCOUNT_BATCH_SIZE accounts; past the end of the     *)
(* ledger they are empty accounts.                                         *)
(***************************************************************************)
EXTENDS Integers, Sequences, FiniteSets, Functions

CONSTANTS
    Delegates,
    StakingLedgers,         \* accounts in the order of their indexes
    ACCOUNT_BATCH_SIZE,
    MaxDigests              \* proofs a prover holds at a time

VARIABLES stakingLedger, digests

ledgerVars == <<stakingLedger, digests>>

Account == [delegate : Delegates, balance : Nat, isMinaAccount : BOOLEAN]

ASSUME LedgerAssumption ==
    /\ StakingLedgers \subseteq Seq(Account)
    /\ ACCOUNT_BATCH_SIZE \in Nat \ {0}
    /\ MaxDigests \in Nat

-----------------------------------------------------------------------------
EmptyVotingLedger == [d \in Delegates |-> 0]

\* Indexes count from 0; past the end the leaves are empty accounts.
Occupied(index) == index < Len(stakingLedger)
AccountAt(index) == stakingLedger[index + 1]

\* Only MINA counts; other tokens have accounts in the same ledger.
BalanceToAdd ==
    [index \in {i \in 0..Len(stakingLedger) : Occupied(i)} |->
        IF AccountAt(index).isMinaAccount THEN AccountAt(index).balance ELSE 0]

\* Balances of the accounts from..to that delegate to d.
Delegated(d, from, to) ==
    SumFunctionOnSet(BalanceToAdd,
        {i \in from..to : Occupied(i) /\ AccountAt(i).delegate = d})

LastIndex(from) == from + ACCOUNT_BATCH_SIZE - 1

\* A batch starts at any index and with any voting ledger that some batches
\* have led to.
Digest(from, ledger) ==
    /\ Cardinality(digests) < MaxDigests
    /\ digests' = digests \cup
           {[fromIndex |-> from, fromLedger |-> ledger,
             toIndex |-> LastIndex(from),
             toLedger |-> [d \in Delegates |->
                 ledger[d]
                   + Delegated(d, from, from + ACCOUNT_BATCH_SIZE - 1)],
             exhausted |-> FALSE]}
    /\ UNCHANGED stakingLedger

AdjacentDigests(p1, p2) ==
    /\ p1.toIndex + 1 = p2.fromIndex
    /\ p1.toLedger = p2.fromLedger

MergeDigests(p1, p2) ==
    /\ AdjacentDigests(p1, p2)
    /\ digests' = (digests \ {p1, p2}) \cup
           {[fromIndex |-> p1.fromIndex, fromLedger |-> p1.fromLedger,
             toIndex |-> p2.toIndex, toLedger |-> p2.toLedger,
             exhausted |-> FALSE]}
    /\ UNCHANGED stakingLedger

\* Mutant: the leaf after the last digested one is not looked at.
LeafNotChecked(index) == TRUE

LeafEmpty(index) == ~Occupied(index)

Exhaust(p) ==
    /\ LeafEmpty(p.toIndex + 1)
    /\ digests' = (digests \ {p}) \cup {[p EXCEPT !.exhausted = TRUE]}
    /\ UNCHANGED stakingLedger

LedgerInit ==
    /\ stakingLedger \in StakingLedgers
    /\ digests = {}

\* The voting ledgers that some batches have led to.
Ledgers == {EmptyVotingLedger} \cup {p.toLedger : p \in digests}

LedgerNext ==
    \/ \E from \in 0..Len(stakingLedger), ledger \in Ledgers :
          Digest(from, ledger)
    \/ \E p1, p2 \in digests : MergeDigests(p1, p2)
    \/ \E p \in digests : Exhaust(p)

-----------------------------------------------------------------------------
(* Properties *)

\* What a tally asks of the proof it is given: from the first account and an
\* empty voting ledger, and exhausted.
CompleteDigest(p) ==
    p.fromIndex = 0 /\ p.fromLedger = EmptyVotingLedger /\ p.exhausted

Balance == [i \in DOMAIN stakingLedger |-> stakingLedger[i].balance]

\* Such a proof gives every key the MINA of exactly the accounts that
\* delegate to it: no account is left out or counted twice, however the
\* ledger was cut into batches and whatever was merged first.
CompleteProofsDelegateAll ==
    \A p \in digests : CompleteDigest(p) =>
        \A d \in Delegates :
            p.toLedger[d] =
                SumFunctionOnSet(Balance,
                    {i \in DOMAIN stakingLedger :
                        /\ stakingLedger[i].isMinaAccount
                        /\ stakingLedger[i].delegate = d})
=============================================================================
