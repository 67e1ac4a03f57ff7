------------------------------ MODULE Treasury ------------------------------
(***************************************************************************)
(* The on-chain treasury: the Treasury Owner contract, the Proposal        *)
(* accounts it creates under its token, and the global pause flag it reads *)
(* from the Pause Controller.  A Mina transaction applies atomically, so   *)
(* an Owner method and the Proposal method it calls are one action.        *)
(*                                                                         *)
(* Votes are dispatched as actions and only counted later: the ledger      *)
(* keeps, per account, the action state after each of the last             *)
(* HistoryLength slots that held a vote, and a tally is bound to those.    *)
(* An action state is a hash chain over the dispatched votes, so it is     *)
(* modelled by the number of votes it covers (0: initialActionState).      *)
(***************************************************************************)
EXTENDS Ballots, Acceptance

CONSTANTS
    Proposals,              \* proposal account keys
    Recipients,
    Snapshots,              \* staking epoch ledgers a proposal may record
    LifecycleIds,
    TreasuryDeployedAtSlot,
    LifecyclePeriodDuration,
    MaxUInt32,
    HistoryLength,          \* action states the ledger keeps (5 on Mina)
    BOND_AMOUNT_DIVISOR,
    MIN_PROPOSAL_AMOUNT,
    WithdrawalPermission,   \* "proof" or "proofOrSignature"
    NoProposal,             \* an account that does not exist
    \* amounts offered to the operations, and bounds of the exploration
    Amounts, Payouts, Deposits,
    MaxSlot, MaxVotes, MaxPauseNonce, MaxDeposits

VARIABLES
    slot,                   \* globalSlotSinceGenesis
    treasuryBalance,
    treasuryPaused,         \* Pause Controller's flag
    proposals,              \* state of each Proposal account
    actions,                \* votes dispatched by each Proposal, oldest first
    actionStateHistory,     \* what the ledger keeps of them, newest first
    lastActionSlot,
    received,               \* nanomina paid out to each recipient
    netDeposits             \* funding minus emergency withdrawals

vars == <<slot, treasuryBalance, treasuryPaused, proposals, actions,
          actionStateHistory, lastActionSlot, received, netDeposits>>

Statuses == {"UNKNOWN", "APPROVED", "REJECTED", "PAUSED"}

Snapshot ==
    [weight : [Voters -> Nat], ownerBalance : Nat, totalCurrency : Nat]

ProposalState ==
    [recipient : Recipients, amount : Nat, lifecycleId : Nat,
     snapshot : Snapshots, status : Statuses, paidOutAmount : Nat,
     pauseNonce : Nat]

ASSUME SlotAssumption ==
    /\ LifecycleIds \subseteq Nat
    /\ TreasuryDeployedAtSlot \in Nat
    /\ LifecyclePeriodDuration \in Nat \ {0}
    /\ MaxUInt32 \in Nat
    /\ MaxSlot \in 0..MaxUInt32

ASSUME AmountAssumption ==
    /\ BOND_AMOUNT_DIVISOR \in Nat \ {0}
    /\ MIN_PROPOSAL_AMOUNT \in Nat
    /\ Amounts \subseteq Nat
    /\ Payouts \subseteq Nat
    /\ Deposits \subseteq Nat
    /\ MaxDeposits \in Nat

ASSUME ContractAssumption ==
    /\ Snapshots \subseteq Snapshot
    /\ HistoryLength \in Nat \ {0}
    /\ WithdrawalPermission \in {"proof", "proofOrSignature"}
    /\ MaxVotes \in Nat
    /\ MaxPauseNonce \in Nat
    /\ NoProposal \notin ProposalState

-----------------------------------------------------------------------------
(* Lifecycle periods *)

PROPOSAL == 0
EXPLORATION == 1
VOTING == 2
COOLDOWN == 3
NUMBER_OF_PERIODS == 4

FromSlot(period, lifecycleId) ==
    TreasuryDeployedAtSlot
      + LifecyclePeriodDuration * (NUMBER_OF_PERIODS * lifecycleId)
      + LifecyclePeriodDuration * period

\* Mutant: the upper bound is the first slot of the next period.
ToSlotInclusive(period, lifecycleId) ==
    FromSlot(period, lifecycleId) + LifecyclePeriodDuration

ToSlot(period, lifecycleId) ==
    FromSlot(period, lifecycleId) + LifecyclePeriodDuration - 1

\* Both ends are computed in UInt32, also when the upper one is not used.
SlotRangeFits(period, lifecycleId) ==
    FromSlot(period, lifecycleId) + LifecyclePeriodDuration <= MaxUInt32

RequireLifecyclePeriod(period, lifecycleId) ==
    /\ SlotRangeFits(period, lifecycleId)
    /\ FromSlot(period, lifecycleId) <= slot
    /\ slot <= ToSlot(period, lifecycleId)

RequireLifecyclePeriodGreaterThanOrEqual(period, lifecycleId) ==
    /\ SlotRangeFits(period, lifecycleId)
    /\ FromSlot(period, lifecycleId) <= slot

-----------------------------------------------------------------------------
(* What a tally decides *)

Bond(amount) == amount \div BOND_AMOUNT_DIVISOR

MinParticipation(amount, snapshot) ==
    RequiredParticipation(RatioBp(amount, snapshot.ownerBalance),
                          snapshot.totalCurrency)

\* The two assertions of tallyVotes that keep a proposal undecided.
Decidable(amount, snapshot, ballot) ==
    LET yay == Weight(snapshot.weight, ballot, "YAY")
        nay == Weight(snapshot.weight, ballot, "NAY")
        abstain == Weight(snapshot.weight, ballot, "ABSTRAIN")
    IN  /\ ParticipationMet(yay, nay, abstain,
                            MinParticipation(amount, snapshot))
        /\ HasApprovalVotes(yay, nay)

VoteResult(amount, snapshot, ballot) ==
    LET yay == Weight(snapshot.weight, ballot, "YAY")
        nay == Weight(snapshot.weight, ballot, "NAY")
        abstain == Weight(snapshot.weight, ballot, "ABSTRAIN")
    IN  IF Approved(yay, nay, abstain, MinParticipation(amount, snapshot),
                    RequiredApprovalBp(RatioBp(amount, snapshot.ownerBalance)))
        THEN "APPROVED" ELSE "REJECTED"

-----------------------------------------------------------------------------
Exists(p) == proposals[p] # NoProposal

\* The ledger's rule for an account's action states: a new slot pushes the
\* new state, another vote in the same slot replaces the newest.
PushActionState(history, state, sameSlot) ==
    [i \in 1..HistoryLength |->
        IF i = 1 THEN state
        ELSE IF sameSlot THEN history[i] ELSE history[i - 1]]

\* Mutant: the Owner does not ask the Pause Controller.
PauseIgnored == TRUE

RequireNotPaused == ~treasuryPaused

\* No account's balance goes below zero.
DebitTreasury(amount) ==
    amount <= treasuryBalance /\ treasuryBalance' = treasuryBalance - amount

Init ==
    /\ slot = 0
    /\ treasuryBalance = 0
    /\ treasuryPaused = FALSE
    /\ proposals = [p \in Proposals |-> NoProposal]
    /\ actions = [p \in Proposals |-> <<>>]
    /\ actionStateHistory =
           [p \in Proposals |-> [i \in 1..HistoryLength |-> 0]]
    /\ lastActionSlot = [p \in Proposals |-> 0]
    /\ received = [r \in Recipients |-> 0]
    /\ netDeposits = 0

\* The chain moves on; a slot need not hold a block.
NextSlot(s) ==
    /\ s > slot
    /\ slot' = s
    /\ UNCHANGED <<treasuryBalance, treasuryPaused, proposals, actions,
                   actionStateHistory, lastActionSlot, received, netDeposits>>

Receive(amount) ==
    /\ netDeposits + amount <= MaxDeposits
    /\ treasuryBalance' = treasuryBalance + amount
    /\ netDeposits' = netDeposits + amount
    /\ UNCHANGED <<slot, treasuryPaused, proposals, actions,
                   actionStateHistory, lastActionSlot, received>>

CreateProposal(p, recipient, amount, lifecycleId, snapshot) ==
    /\ amount >= MIN_PROPOSAL_AMOUNT
    /\ snapshot.ownerBalance > 0
    /\ RequireLifecyclePeriod(PROPOSAL, lifecycleId)
    /\ RequireNotPaused
    /\ ~Exists(p)
    /\ treasuryBalance' = treasuryBalance + Bond(amount)
    /\ proposals' = [proposals EXCEPT ![p] =
           [recipient |-> recipient, amount |-> amount,
            lifecycleId |-> lifecycleId, snapshot |-> snapshot,
            status |-> "UNKNOWN", paidOutAmount |-> 0, pauseNonce |-> 0]]
    /\ UNCHANGED <<slot, treasuryPaused, actions, actionStateHistory,
                   lastActionSlot, received, netDeposits>>

Vote(p, voter, vote) ==
    /\ Len(actions[p]) < MaxVotes
    /\ Exists(p)
    /\ RequireNotPaused
    /\ RequireLifecyclePeriod(VOTING, proposals[p].lifecycleId)
    /\ proposals[p].status # "PAUSED"
    /\ actions' = [actions EXCEPT ![p] =
           Append(@, [voter |-> voter, vote |-> vote])]
    /\ actionStateHistory' = [actionStateHistory EXCEPT ![p] =
           PushActionState(@, Len(actions[p]) + 1, lastActionSlot[p] = slot)]
    /\ lastActionSlot' = [lastActionSlot EXCEPT ![p] = slot]
    /\ UNCHANGED <<slot, treasuryBalance, treasuryPaused, proposals, received,
                   netDeposits>>

\* Mutant: one kept state may be reported several times.
BoundWithRepeats(p, n, targets) ==
    /\ targets[1] = n
    /\ \A i \in 1..HistoryLength :
           \E k \in 1..HistoryLength : actionStateHistory[p][k] = targets[i]

\* The Owner's binding of a Vote Reducer proof to the account: the prover
\* reduced the first n votes and reports HistoryLength distinct, non-initial
\* states it met on the way, each of which the ledger still holds.
BoundToHistory(p, n, targets) ==
    /\ targets[1] = n
    /\ \A i \in 1..HistoryLength :
           /\ \E k \in 1..HistoryLength :
                  actionStateHistory[p][k] = targets[i]
           /\ targets[i] \in 1..n
           /\ \A j \in (i + 1)..HistoryLength : targets[i] # targets[j]

TallyVotes(p, n, targets) ==
    /\ RequireNotPaused
    /\ Exists(p)
    /\ RequireLifecyclePeriodGreaterThanOrEqual(
           COOLDOWN, proposals[p].lifecycleId)
    /\ BoundToHistory(p, n, targets)
    /\ proposals[p].status = "UNKNOWN"
    /\ LET amount == proposals[p].amount
           snapshot == proposals[p].snapshot
           reduced == Ballot(SubSeq(actions[p], 1, n))
       IN  /\ Decidable(amount, snapshot, reduced)
           /\ proposals' = [proposals EXCEPT ![p].status =
                  VoteResult(amount, snapshot, reduced)]
    /\ UNCHANGED <<slot, treasuryBalance, treasuryPaused, actions,
                   actionStateHistory, lastActionSlot, received, netDeposits>>

AmountWithBond(amount) == amount + Bond(amount)

\* Mutant: earlier payouts are forgotten.
RemainingIgnoresPaid(p) == AmountWithBond(proposals[p].amount)

Remaining(p) ==
    AmountWithBond(proposals[p].amount) - proposals[p].paidOutAmount

\* Mutant: the recipient is not compared with the stored one.
AnyRecipient(p, recipient) == TRUE

IsRecipient(p, recipient) == recipient = proposals[p].recipient

ExecuteProposal(p, recipient, amountToPayOut) ==
    /\ RequireNotPaused
    /\ Exists(p)
    /\ RequireLifecyclePeriodGreaterThanOrEqual(
           PROPOSAL, proposals[p].lifecycleId + 1)
    /\ DebitTreasury(amountToPayOut)
    /\ proposals[p].status = "APPROVED"
    /\ amountToPayOut <= Remaining(p)
    /\ IsRecipient(p, recipient)
    /\ received' = [received EXCEPT ![recipient] = @ + amountToPayOut]
    /\ proposals' = [proposals EXCEPT ![p].paidOutAmount =
           @ + amountToPayOut]
    /\ UNCHANGED <<slot, treasuryPaused, actions, actionStateHistory,
                   lastActionSlot, netDeposits>>

\* Mutant: unpausing restores an approval instead of erasing the result.
ToggledToApproved(paused) == IF paused THEN "PAUSED" ELSE "APPROVED"

ToggledStatus(paused) == IF paused THEN "PAUSED" ELSE "UNKNOWN"

PauseChanges(p, paused) == (proposals[p].status = "PAUSED") # paused

\* The break-glass signers approve one change of one proposal: the message
\* names its pause nonce and the target.  No global pause check.
TogglePauseProposal(p, nonce, paused) ==
    /\ Exists(p)
    /\ proposals[p].pauseNonce = nonce
    /\ PauseChanges(p, paused)
    /\ proposals' = [proposals EXCEPT ![p] =
           [@ EXCEPT !.status = ToggledStatus(paused),
                     !.pauseNonce = nonce + 1]]
    /\ UNCHANGED <<slot, treasuryBalance, treasuryPaused, actions,
                   actionStateHistory, lastActionSlot, received, netDeposits>>

\* The same signers set the global flag (the module PauseController models
\* their signatures and nonces).
SetTreasuryPaused(paused) ==
    /\ treasuryPaused' = paused
    /\ UNCHANGED <<slot, treasuryBalance, proposals, actions,
                   actionStateHistory, lastActionSlot, received, netDeposits>>

\* A signed debit of the Owner account, in deployments that permit it.
EmergencyWithdraw(amount) ==
    /\ WithdrawalPermission = "proofOrSignature"
    /\ amount > 0
    /\ DebitTreasury(amount)
    /\ netDeposits' = netDeposits - amount
    /\ UNCHANGED <<slot, treasuryPaused, proposals, actions,
                   actionStateHistory, lastActionSlot, received>>

Next ==
    \/ \E s \in 0..MaxSlot : NextSlot(s)
    \/ \E amount \in Deposits : Receive(amount)
    \/ \E p \in Proposals, r \in Recipients, amount \in Amounts,
          id \in LifecycleIds, snapshot \in Snapshots :
             CreateProposal(p, r, amount, id, snapshot)
    \/ \E p \in Proposals, v \in Voters, vote \in Votes : Vote(p, v, vote)
    \/ \E p \in Proposals : \E n \in 1..Len(actions[p]) :
          \E targets \in [1..HistoryLength -> 1..n] : TallyVotes(p, n, targets)
    \/ \E p \in Proposals, r \in Recipients, amount \in Payouts :
          ExecuteProposal(p, r, amount)
    \/ \E p \in Proposals, nonce \in 0..MaxPauseNonce, paused \in BOOLEAN :
          TogglePauseProposal(p, nonce, paused)
    \/ \E paused \in BOOLEAN : SetTreasuryPaused(paused)
    \/ \E amount \in Deposits : EmergencyWithdraw(amount)

Spec == Init /\ [][Next]_vars

-----------------------------------------------------------------------------
(* Properties *)

\* Every variable keeps to the type the contracts and the ledger give it.
TypeOK ==
    /\ slot \in Nat
    /\ treasuryBalance \in Nat
    /\ treasuryPaused \in BOOLEAN
    /\ proposals \in [Proposals -> ProposalState \cup {NoProposal}]
    /\ actions \in [Proposals -> Seq(VoteAction)]
    /\ actionStateHistory \in [Proposals -> [1..HistoryLength -> Nat]]
    /\ lastActionSlot \in [Proposals -> Nat]
    /\ received \in [Recipients -> Nat]
    /\ netDeposits \in Int

\* The result of every vote the proposal has dispatched.
FullResult(p) ==
    VoteResult(proposals[p].amount, proposals[p].snapshot, Ballot(actions[p]))

\* A stored result is the result of every vote that was ever dispatched: the
\* prover of tallyVotes cannot leave out the newest votes, and none can be
\* dispatched once a tally is possible.
StatusIsFullTally ==
    \A p \in Proposals :
        Exists(p) /\ proposals[p].status \in {"APPROVED", "REJECTED"} =>
            /\ Decidable(proposals[p].amount, proposals[p].snapshot,
                         Ballot(actions[p]))
            /\ proposals[p].status = FullResult(p)

\* Money has left for a proposal only if all of its votes approve it, also
\* after a pause and an unpause have erased the stored result.
PaidOnlyIfApproved ==
    \A p \in Proposals :
        Exists(p) /\ proposals[p].paidOutAmount > 0 =>
            FullResult(p) = "APPROVED"

\* However a payout is split, paused or tallied again in between, a proposal
\* never costs more than its amount and its bond.
PayoutCap ==
    \A p \in Proposals :
        Exists(p) =>
            proposals[p].paidOutAmount <=
                AmountWithBond(proposals[p].amount)

\* The pause nonce says whether the proposal is paused: a signed message for
\* one nonce can only ever move it in one direction.  The API rebuilds the
\* pause flag from the parity of the pause events.
PauseParity ==
    \A p \in Proposals :
        Exists(p) =>
            (proposals[p].status = "PAUSED" <=> proposals[p].pauseNonce % 2 = 1)

\* The newest state the ledger keeps covers every vote of the account.
HistoryIsCurrent ==
    \A p \in Proposals : actionStateHistory[p][1] = Len(actions[p])

\* A proposal is decided, or paid, only after its voting period.
DecidedAfterVoting ==
    \A p \in Proposals :
        /\ Exists(p)
        /\ \/ proposals[p].status \in {"APPROVED", "REJECTED"}
           \/ proposals[p].paidOutAmount > 0
        => slot >= FromSlot(COOLDOWN, proposals[p].lifecycleId)

\* The inductive invariant behind the three properties above: the stored
\* result and the payouts agree with votes that can no longer change.
IInv ==
    /\ TypeOK
    /\ HistoryIsCurrent
    /\ DecidedAfterVoting
    /\ StatusIsFullTally
    /\ PaidOnlyIfApproved
    /\ PayoutCap
    /\ PauseParity

Existing == {p \in Proposals : Exists(p)}

Bonds == [p \in Existing |-> Bond(proposals[p].amount)]

Paid == [p \in Existing |-> proposals[p].paidOutAmount]

\* Bonds and deposits enter the one shared balance, payouts and emergency
\* withdrawals leave it, and nothing else moves it; what a recipient received
\* is what its own proposals have paid out.
Conservation ==
    /\ treasuryBalance = netDeposits + SumFunction(Bonds) - SumFunction(Paid)
    /\ \A r \in Recipients :
          received[r] =
             SumFunctionOnSet(Paid, {p \in Existing : proposals[p].recipient = r})

\* While the treasury is paused only deposits, signed withdrawals and pause
\* toggles go through: no proposal appears, gains votes, is decided or paid.
GlobalPauseFreezes ==
    [][treasuryPaused =>
         /\ UNCHANGED <<actions, received>>
         /\ \A p \in Proposals :
               proposals'[p] # proposals[p] =>
                  /\ Exists(p)
                  /\ proposals'[p].pauseNonce = proposals[p].pauseNonce + 1
                  /\ proposals'[p].status \in {"PAUSED", "UNKNOWN"}]_vars

\* Once votes can be tallied, no vote is dispatched any more.
VotesClosed ==
    [][\A p \in Proposals :
         Exists(p) /\ slot >= FromSlot(COOLDOWN, proposals[p].lifecycleId)
            => actions'[p] = actions[p]]_vars
=============================================================================
