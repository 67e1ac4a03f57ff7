--------------------------- MODULE TreasuryProofs ---------------------------
(***************************************************************************)
(* Proofs about Treasury for every value of its constants.                 *)
(***************************************************************************)
EXTENDS TreasuryGrants, Sums, SequenceTheorems, TLAPS

USE SlotAssumption, AmountAssumption, ContractAssumption, GrantAssumption

-----------------------------------------------------------------------------
(* Lifecycle arithmetic *)

\* A slot of a period is a natural number.
LEMMA FromSlotType ==
    ASSUME NEW period \in Nat, NEW id \in Nat
    PROVE  FromSlot(period, id) \in Nat
<1>1. LifecyclePeriodDuration * (NUMBER_OF_PERIODS * id) \in Nat
  BY DEF NUMBER_OF_PERIODS
<1>2. LifecyclePeriodDuration * period \in Nat
  OBVIOUS
<1>. QED  BY <1>1, <1>2 DEF FromSlot

\* The periods of a lifecycle follow each other without gap or overlap, and
\* the cooldown is followed by the next lifecycle's proposal period.
THEOREM PeriodsTile ==
    ASSUME NEW id \in Nat
    PROVE  /\ ToSlot(PROPOSAL, id) + 1 = FromSlot(EXPLORATION, id)
           /\ ToSlot(EXPLORATION, id) + 1 = FromSlot(VOTING, id)
           /\ ToSlot(VOTING, id) + 1 = FromSlot(COOLDOWN, id)
           /\ ToSlot(COOLDOWN, id) + 1 = FromSlot(PROPOSAL, id + 1)
<1>. DEFINE D == LifecyclePeriodDuration
<1>1. D * (NUMBER_OF_PERIODS * (id + 1)) = D * (NUMBER_OF_PERIODS * id) + D * 4
  BY DEF NUMBER_OF_PERIODS
<1>2. D * (NUMBER_OF_PERIODS * id) \in Nat
  BY DEF NUMBER_OF_PERIODS
<1>. QED
  BY <1>1, <1>2 DEF FromSlot, ToSlot, PROPOSAL, EXPLORATION, VOTING, COOLDOWN

-----------------------------------------------------------------------------
(* Action states *)

\* HistoryLength distinct targets, all of them kept by the ledger, are all
\* the states it keeps.
LEMMA EveryStateTargeted ==
    ASSUME NEW history \in [1..HistoryLength -> Nat],
           NEW targets \in [1..HistoryLength -> Nat],
           \A i \in 1..HistoryLength :
              /\ \E k \in 1..HistoryLength : history[k] = targets[i]
              /\ \A j \in (i + 1)..HistoryLength : targets[i] # targets[j]
    PROVE  \A k \in 1..HistoryLength :
              \E i \in 1..HistoryLength : targets[i] = history[k]
<1>. DEFINE Index == 1..HistoryLength
            f == [i \in Index |-> CHOOSE k \in Index : history[k] = targets[i]]
<1>1. \A i \in Index : f[i] \in Index /\ history[f[i]] = targets[i]
  OBVIOUS
<1>2. \A i, j \in Index : i # j => targets[i] # targets[j]
  OBVIOUS
<1>3. f \in [Index -> Index]
  BY <1>1
<1>. HIDE DEF f
<1>4. ASSUME NEW i \in Index, NEW j \in Index, f[i] = f[j]
      PROVE  i = j
  <2>1. targets[i] = targets[j]
    BY <1>1, <1>4
  <2>. QED  BY <2>1, <1>2, Zenon
<1>5. f \in Injection(Index, Index)
  BY <1>3, <1>4 DEF Injection, IsInjective
<1>6. IsFiniteSet(Index)
  BY FS_Interval
<1>7. f \in Surjection(Index, Index)
  BY <1>5, <1>6, FS_Injection
<1>8. SUFFICES ASSUME NEW k \in Index
               PROVE  \E i \in Index : targets[i] = history[k]
  OBVIOUS
<1>9. PICK i \in Index : f[i] = k
  BY <1>7 DEF Surjection
<1>. QED  BY <1>1, <1>9

\* So a reduction that ends at the first target has reduced every vote.
LEMMA TallyCoversAllVotes ==
    ASSUME TypeOK, HistoryIsCurrent, NEW p \in Proposals,
           NEW n \in 1..Len(actions[p]),
           NEW targets \in [1..HistoryLength -> 1..n],
           BoundToHistory(p, n, targets)
    PROVE  SubSeq(actions[p], 1, n) = actions[p]
<1>1. actionStateHistory[p] \in [1..HistoryLength -> Nat]
  BY DEF TypeOK
<1>2. targets \in [1..HistoryLength -> Nat]
  OBVIOUS
<1>3. PICK i \in 1..HistoryLength : targets[i] = actionStateHistory[p][1]
  <2>. DEFINE history == actionStateHistory[p]
  <2>1. \A i \in 1..HistoryLength :
           /\ \E k \in 1..HistoryLength : history[k] = targets[i]
           /\ \A j \in (i + 1)..HistoryLength : targets[i] # targets[j]
    BY DEF BoundToHistory
  <2>2. history \in [1..HistoryLength -> Nat]
    BY <1>1
  <2>. HIDE DEF history
  <2>3. \A k \in 1..HistoryLength :
           \E i \in 1..HistoryLength : targets[i] = history[k]
    BY <1>2, <2>1, <2>2, EveryStateTargeted
  <2>4. 1 \in 1..HistoryLength
    OBVIOUS
  <2>. QED  BY <2>3, <2>4 DEF history
<1>4. targets[i] = Len(actions[p])
  BY <1>3 DEF HistoryIsCurrent
<1>5. actions[p] \in Seq(VoteAction)
  BY DEF TypeOK
<1>6. n = Len(actions[p])
  BY <1>4, <1>5
<1>. QED  BY <1>5, <1>6, SubSeqFull

-----------------------------------------------------------------------------
(* Type correctness *)

\* A vote is decided one way or the other.
LEMMA VoteResultType ==
    ASSUME NEW amount, NEW snapshot, NEW ballot
    PROVE  VoteResult(amount, snapshot, ballot) \in {"APPROVED", "REJECTED"}
BY DEF VoteResult

\* Bonds are truncating quotients of natural numbers.
LEMMA BondType == ASSUME NEW amount \in Nat PROVE Bond(amount) \in Nat
BY DEF Bond

\* The rotating history stays a history of HistoryLength states.
LEMMA PushActionStateType ==
    ASSUME NEW history \in [1..HistoryLength -> Nat],
           NEW state \in Nat, NEW sameSlot \in BOOLEAN
    PROVE  /\ PushActionState(history, state, sameSlot)
                 \in [1..HistoryLength -> Nat]
           /\ PushActionState(history, state, sameSlot)[1] = state
BY DEF PushActionState

\* The contracts start with well-typed accounts.
LEMMA InitTypeOK == Init => TypeOK
<1> SUFFICES ASSUME Init PROVE TypeOK
  OBVIOUS
<1>1. actions \in [Proposals -> Seq(VoteAction)]
  BY DEF Init
<1>2. actionStateHistory \in [Proposals -> [1..HistoryLength -> Nat]]
  BY DEF Init
<1>3. /\ proposals \in [Proposals -> ProposalState \cup {NoProposal}]
      /\ lastActionSlot \in [Proposals -> Nat]
      /\ received \in [Recipients -> Nat]
  BY DEF Init
<1>4. slot \in Nat /\ treasuryBalance \in Nat /\ netDeposits \in Int
  BY DEF Init
<1>5. treasuryPaused \in BOOLEAN
  BY DEF Init
<1>. QED  BY <1>1, <1>2, <1>3, <1>4, <1>5 DEF TypeOK

\* An account that exists has the state of a proposal.
LEMMA ExistingType ==
    ASSUME TypeOK, NEW p \in Proposals, Exists(p)
    PROVE  proposals[p] \in ProposalState
BY DEF TypeOK, Exists

LEMMA CreateProposalType ==
    ASSUME TypeOK, NEW p \in Proposals, NEW r \in Recipients,
           NEW amount \in Amounts, NEW id \in LifecycleIds,
           NEW snapshot \in Snapshots,
           CreateProposal(p, r, amount, id, snapshot)
    PROVE  TypeOK'
<1>1. amount \in Nat /\ id \in Nat
  OBVIOUS
<1>2. Bond(amount) \in Nat
  BY <1>1, BondType
<1>3. [recipient |-> r, amount |-> amount, lifecycleId |-> id,
       snapshot |-> snapshot, status |-> "UNKNOWN", paidOutAmount |-> 0,
       pauseNonce |-> 0] \in ProposalState
  BY <1>1 DEF ProposalState, Statuses
<1>. QED  BY <1>2, <1>3 DEF TypeOK, CreateProposal

LEMMA VoteType ==
    ASSUME TypeOK, NEW p \in Proposals, NEW v \in Voters, NEW vote \in Votes,
           Vote(p, v, vote)
    PROVE  TypeOK'
<1>1. [voter |-> v, vote |-> vote] \in VoteAction
  BY DEF VoteAction
<1>2. Append(actions[p], [voter |-> v, vote |-> vote]) \in Seq(VoteAction)
  BY <1>1 DEF TypeOK
<1>3. actions' \in [Proposals -> Seq(VoteAction)]
  BY <1>2 DEF TypeOK, Vote
<1>4. PushActionState(actionStateHistory[p], Len(actions[p]) + 1,
                      lastActionSlot[p] = slot) \in [1..HistoryLength -> Nat]
  <2>. DEFINE sameSlot == lastActionSlot[p] = slot
  <2>1. sameSlot \in BOOLEAN
    OBVIOUS
  <2>. HIDE DEF sameSlot
  <2>2. actionStateHistory[p] \in [1..HistoryLength -> Nat]
    BY DEF TypeOK
  <2>3. Len(actions[p]) + 1 \in Nat
    BY DEF TypeOK
  <2>4. PushActionState(actionStateHistory[p], Len(actions[p]) + 1, sameSlot)
          \in [1..HistoryLength -> Nat]
    BY <2>1, <2>2, <2>3, PushActionStateType
  <2>. QED  BY <2>4 DEF sameSlot
<1>5. actionStateHistory' \in [Proposals -> [1..HistoryLength -> Nat]]
  BY <1>4 DEF TypeOK, Vote
<1>. QED  BY <1>3, <1>5 DEF TypeOK, Vote

LEMMA TallyVotesType ==
    ASSUME TypeOK, NEW p \in Proposals, NEW n \in 1..Len(actions[p]),
           NEW targets \in [1..HistoryLength -> 1..n],
           TallyVotes(p, n, targets)
    PROVE  TypeOK'
<1>. DEFINE result == VoteResult(proposals[p].amount, proposals[p].snapshot,
                                 Ballot(SubSeq(actions[p], 1, n)))
<1>1. result \in Statuses
  BY VoteResultType DEF Statuses
<1>2. proposals' = [proposals EXCEPT ![p].status = result]
  BY DEF TallyVotes
<1>3. proposals[p] \in ProposalState
  BY ExistingType DEF TallyVotes
<1>. HIDE DEF result
<1>4. [proposals[p] EXCEPT !.status = result] \in ProposalState
  BY <1>1, <1>3 DEF ProposalState
<1>. QED  BY <1>2, <1>4 DEF TypeOK, TallyVotes

LEMMA ExecuteProposalType ==
    ASSUME TypeOK, NEW p \in Proposals, NEW r \in Recipients,
           NEW amount \in Payouts, ExecuteProposal(p, r, amount)
    PROVE  TypeOK'
<1>1. amount \in Nat
  OBVIOUS
<1>2. proposals[p] \in ProposalState
  BY ExistingType DEF ExecuteProposal
<1>3. [proposals[p] EXCEPT !.paidOutAmount = @ + amount] \in ProposalState
  BY <1>1, <1>2 DEF ProposalState
<1>4. proposals' \in [Proposals -> ProposalState \cup {NoProposal}]
  BY <1>3 DEF TypeOK, ExecuteProposal
<1>5. treasuryBalance' \in Nat
  <2>1. /\ treasuryBalance' = treasuryBalance - amount
        /\ amount <= treasuryBalance
    BY DEF ExecuteProposal, DebitTreasury
  <2>2. treasuryBalance \in Nat
    BY DEF TypeOK
  <2>. QED  BY <1>1, <2>1, <2>2
<1>6. received' \in [Recipients -> Nat]
  <2>1. received' = [received EXCEPT ![r] = @ + amount]
    BY DEF ExecuteProposal
  <2>2. received \in [Recipients -> Nat]
    BY DEF TypeOK
  <2>. QED  BY <1>1, <2>1, <2>2
<1>. QED  BY <1>4, <1>5, <1>6 DEF TypeOK, ExecuteProposal

LEMMA TogglePauseProposalType ==
    ASSUME TypeOK, NEW p \in Proposals, NEW nonce \in 0..MaxPauseNonce,
           NEW paused \in BOOLEAN, TogglePauseProposal(p, nonce, paused)
    PROVE  TypeOK'
<1>1. proposals[p] \in ProposalState
  BY ExistingType DEF TogglePauseProposal
<1>. DEFINE status == ToggledStatus(paused)
<1>2. status \in Statuses
  BY DEF Statuses, ToggledStatus
<1>. DEFINE new == [proposals[p] EXCEPT !.status = status,
                                        !.pauseNonce = nonce + 1]
<1>3. proposals' = [proposals EXCEPT ![p] = new]
  BY DEF TypeOK, TogglePauseProposal
<1>. HIDE DEF status
<1>4. new \in ProposalState
  <2>. DEFINE old == [proposals[p] EXCEPT !.status = status]
  <2>1. old \in ProposalState
    BY <1>1, <1>2 DEF ProposalState
  <2>2. new = [old EXCEPT !.pauseNonce = nonce + 1]
    BY <1>1 DEF ProposalState
  <2>. HIDE DEF old
  <2>3. [old EXCEPT !.pauseNonce = nonce + 1] \in ProposalState
    BY <2>1 DEF ProposalState
  <2>. HIDE DEF new
  <2>. QED  BY <2>2, <2>3
<1>. HIDE DEF new
<1>. QED  BY <1>3, <1>4 DEF TypeOK, TogglePauseProposal

\* Every step keeps every variable in its type; in particular no sequence of
\* deposits, payouts and withdrawals drives the balance below zero.
LEMMA NextTypeOK == TypeOK /\ [Next]_vars => TypeOK'
<1> SUFFICES ASSUME TypeOK, [Next]_vars PROVE TypeOK'
  OBVIOUS
<1>1. ASSUME NEW s \in 0..MaxSlot, NextSlot(s) PROVE TypeOK'
  BY <1>1 DEF TypeOK, NextSlot
<1>2. ASSUME NEW amount \in Deposits, Receive(amount) PROVE TypeOK'
  BY <1>2 DEF TypeOK, Receive
<1>3. ASSUME NEW paused \in BOOLEAN, SetTreasuryPaused(paused) PROVE TypeOK'
  BY <1>3 DEF TypeOK, SetTreasuryPaused
<1>4. ASSUME NEW amount \in Deposits, EmergencyWithdraw(amount) PROVE TypeOK'
  BY <1>4 DEF TypeOK, EmergencyWithdraw, DebitTreasury
<1>5. CASE UNCHANGED vars
  BY <1>5 DEF TypeOK, vars
<1>. QED
  BY <1>1, <1>2, <1>3, <1>4, <1>5, CreateProposalType, VoteType,
     TallyVotesType, ExecuteProposalType, TogglePauseProposalType DEF Next

\* The state of every account keeps the type its contract declares.
THEOREM TypeCorrect == Spec => []TypeOK
BY InitTypeOK, NextTypeOK, PTL DEF Spec

-----------------------------------------------------------------------------
(* The inductive invariant, one proposal at a time *)

\* What IInv says of one proposal account.
Sound(p) ==
    /\ actionStateHistory[p][1] = Len(actions[p])
    /\ Exists(p) =>
         LET q == proposals[p]
         IN  /\ q.status \in {"APPROVED", "REJECTED"} \/ q.paidOutAmount > 0
                  => slot >= FromSlot(COOLDOWN, q.lifecycleId)
             /\ q.status \in {"APPROVED", "REJECTED"}
                  => /\ Decidable(q.amount, q.snapshot, Ballot(actions[p]))
                     /\ q.status = FullResult(p)
             /\ q.paidOutAmount > 0 => FullResult(p) = "APPROVED"
             /\ q.paidOutAmount <= AmountWithBond(q.amount)
             /\ q.status = "PAUSED" <=> q.pauseNonce % 2 = 1

LEMMA IInvPerProposal == IInv <=> TypeOK /\ \A p \in Proposals : Sound(p)
BY Zenon DEF IInv, HistoryIsCurrent, DecidedAfterVoting, StatusIsFullTally,
             PaidOnlyIfApproved, PayoutCap, PauseParity, Sound

\* Time passing keeps a proposal sound when a step leaves its state alone.
LEMMA SoundFrame ==
    ASSUME TypeOK, TypeOK', NEW p \in Proposals, Sound(p),
           slot' >= slot,
           proposals'[p] = proposals[p],
           actions'[p] = actions[p],
           actionStateHistory'[p] = actionStateHistory[p]
    PROVE  Sound(p)'
<1>1. CASE ~Exists(p)
  BY <1>1 DEF Sound, Exists
<1>2. CASE Exists(p)
  <2>. DEFINE start == FromSlot(COOLDOWN, proposals[p].lifecycleId)
  <2>1. proposals[p].lifecycleId \in Nat
    BY <1>2, ExistingType DEF ProposalState
  <2>2. start \in Nat
    BY <2>1, FromSlotType DEF COOLDOWN
  <2>3. slot \in Nat /\ slot' \in Nat
    BY DEF TypeOK
  <2>4. slot >= start => slot' >= start
    BY <2>2, <2>3
  <2>5. FullResult(p)' = FullResult(p)
    BY DEF FullResult
  <2>. QED  BY <1>2, <2>4, <2>5 DEF Sound, Exists
<1>. QED  BY <1>1, <1>2

\* The invariant after a step, from its parts after the step.
LEMMA IInvAfter ==
    ASSUME TypeOK', \A p \in Proposals : Sound(p)'
    PROVE  IInv'
BY Zenon DEF IInv, HistoryIsCurrent, DecidedAfterVoting, StatusIsFullTally,
             PaidOnlyIfApproved, PayoutCap, PauseParity, Sound

\* A step that changes no proposal account preserves the invariant.
LEMMA FundsStep ==
    ASSUME IInv, TypeOK', slot' >= slot,
           UNCHANGED <<proposals, actions, actionStateHistory>>
    PROVE  IInv'
BY IInvPerProposal, SoundFrame, IInvAfter

\* A step that changes one proposal account preserves the invariant if that
\* account is sound afterwards.
LEMMA ProposalStep ==
    ASSUME IInv, TypeOK', slot' = slot, NEW p \in Proposals, Sound(p)',
           \A q \in Proposals \ {p} :
              /\ proposals'[q] = proposals[q]
              /\ actions'[q] = actions[q]
              /\ actionStateHistory'[q] = actionStateHistory[q]
    PROVE  IInv'
<1>1. TypeOK /\ \A q \in Proposals : Sound(q)
  BY IInvPerProposal
<1>2. slot' >= slot
  BY <1>1 DEF TypeOK
<1>3. ASSUME NEW q \in Proposals \ {p} PROVE Sound(q)'
  BY <1>1, <1>2, SoundFrame
<1>. QED  BY <1>3, IInvAfter

\* A new proposal is undecided and unpaid.
LEMMA CreateProposalStep ==
    ASSUME IInv, NEW p \in Proposals, NEW r \in Recipients,
           NEW amount \in Amounts, NEW id \in LifecycleIds,
           NEW snapshot \in Snapshots,
           CreateProposal(p, r, amount, id, snapshot)
    PROVE  IInv'
<1>1. TypeOK /\ Sound(p)
  BY IInvPerProposal
<1>2. TypeOK'
  BY <1>1, CreateProposalType
<1>3. /\ proposals'[p].status = "UNKNOWN"
      /\ proposals'[p].paidOutAmount = 0
      /\ proposals'[p].pauseNonce = 0
      /\ proposals'[p].amount = amount
      /\ UNCHANGED <<slot, actions, actionStateHistory>>
  BY <1>1 DEF TypeOK, CreateProposal
<1>4. AmountWithBond(amount) \in Nat
  BY BondType DEF AmountWithBond
<1>5. Sound(p)'
  BY <1>1, <1>3, <1>4 DEF Sound
<1>6. \A q \in Proposals \ {p} : proposals'[q] = proposals[q]
  BY <1>1 DEF TypeOK, CreateProposal
<1>. QED  BY <1>2, <1>3, <1>5, <1>6, ProposalStep

\* The voting period ends before the cooldown.
LEMMA VoteBeforeCooldown ==
    ASSUME TypeOK, NEW p \in Proposals, NEW v \in Voters, NEW vote \in Votes,
           Vote(p, v, vote)
    PROVE  ~(slot >= FromSlot(COOLDOWN, proposals[p].lifecycleId))
<1>. DEFINE id == proposals[p].lifecycleId
<1>1. id \in Nat
  BY ExistingType DEF Vote, ProposalState
<1>2. VOTING \in Nat /\ COOLDOWN \in Nat
  BY DEF VOTING, COOLDOWN
<1>3. ToSlot(VOTING, id) + 1 = FromSlot(COOLDOWN, id)
  BY <1>1, PeriodsTile
<1>4. FromSlot(COOLDOWN, id) \in Nat
  BY <1>1, <1>2, FromSlotType
<1>5. ToSlot(VOTING, id) \in Int
  <2>1. FromSlot(VOTING, id) \in Nat
    BY <1>1, <1>2, FromSlotType
  <2>. QED  BY <2>1 DEF ToSlot
<1>6. slot \in Nat /\ slot <= ToSlot(VOTING, id)
  BY DEF TypeOK, Vote, RequireLifecyclePeriod
<1>. HIDE DEF id
<1>. QED  BY <1>3, <1>4, <1>5, <1>6 DEF id

\* So a proposal that can still receive a vote is undecided and unpaid.
LEMMA VoteStep ==
    ASSUME IInv, NEW p \in Proposals, NEW v \in Voters, NEW vote \in Votes,
           Vote(p, v, vote)
    PROVE  IInv'
<1>. DEFINE q == proposals[p]
<1>1. TypeOK /\ Sound(p)
  BY IInvPerProposal
<1>2. TypeOK'
  BY <1>1, VoteType
<1>3. Exists(p) /\ q \in ProposalState
  BY <1>1, ExistingType DEF Vote
<1>4. ~(slot >= FromSlot(COOLDOWN, q.lifecycleId))
  BY <1>1, VoteBeforeCooldown
<1>5. ~(q.status \in {"APPROVED", "REJECTED"} \/ q.paidOutAmount > 0)
  BY <1>1, <1>3, <1>4, Zenon DEF Sound
<1>6. actionStateHistory'[p][1] = Len(actions'[p])
  <2>1. actions[p] \in Seq(VoteAction)
    BY <1>1 DEF TypeOK
  <2>2. actions'[p] = Append(actions[p], [voter |-> v, vote |-> vote])
    BY <1>1 DEF TypeOK, Vote
  <2>3. Len(actions'[p]) = Len(actions[p]) + 1
    BY <2>1, <2>2
  <2>4. actionStateHistory'[p][1] = Len(actions[p]) + 1
    BY <1>1 DEF TypeOK, Vote, PushActionState
  <2>. QED  BY <2>3, <2>4
<1>7. UNCHANGED <<slot, proposals>>
  BY DEF Vote
<1>8. Sound(p)'
  BY <1>1, <1>5, <1>6, <1>7, Zenon DEF Sound, Exists
<1>9. \A o \in Proposals \ {p} :
         /\ actions'[o] = actions[o]
         /\ actionStateHistory'[o] = actionStateHistory[o]
  BY <1>1 DEF TypeOK, Vote
<1>. QED  BY <1>2, <1>7, <1>8, <1>9, ProposalStep

\* A result that is stored is the result of every vote.
LEMMA TallyVotesStep ==
    ASSUME IInv, NEW p \in Proposals, NEW n \in 1..Len(actions[p]),
           NEW targets \in [1..HistoryLength -> 1..n],
           TallyVotes(p, n, targets)
    PROVE  IInv'
<1>. DEFINE q == proposals[p]
            result == VoteResult(q.amount, q.snapshot, Ballot(actions[p]))
<1>1. TypeOK /\ HistoryIsCurrent /\ Sound(p)
  BY IInvPerProposal DEF IInv
<1>2. TypeOK'
  BY <1>1, TallyVotesType
<1>3. Exists(p) /\ q \in ProposalState
  BY <1>1, ExistingType DEF TallyVotes
<1>4. SubSeq(actions[p], 1, n) = actions[p]
  BY <1>1, TallyCoversAllVotes DEF TallyVotes
<1>5. /\ Decidable(q.amount, q.snapshot, Ballot(actions[p]))
      /\ proposals' = [proposals EXCEPT ![p].status = result]
  BY <1>4 DEF TallyVotes
<1>6. result \in {"APPROVED", "REJECTED"}
  BY VoteResultType
<1>7. slot >= FromSlot(COOLDOWN, q.lifecycleId)
  BY DEF TallyVotes, RequireLifecyclePeriodGreaterThanOrEqual
<1>8. UNCHANGED <<slot, actions, actionStateHistory>>
  BY DEF TallyVotes
<1>. HIDE DEF result
<1>9. /\ proposals'[p].status = result
      /\ proposals'[p].amount = q.amount
      /\ proposals'[p].snapshot = q.snapshot
      /\ proposals'[p].lifecycleId = q.lifecycleId
      /\ proposals'[p].paidOutAmount = q.paidOutAmount
      /\ proposals'[p].pauseNonce = q.pauseNonce
  BY <1>1, <1>3, <1>5 DEF TypeOK, ProposalState
<1>10. FullResult(p)' = result /\ FullResult(p) = result
  BY <1>8, <1>9 DEF FullResult, result
<1>11. (proposals'[p].status = "PAUSED") <=> (proposals'[p].pauseNonce % 2 = 1)
  <2>1. q.status # "PAUSED"
    BY DEF TallyVotes
  <2>2. ~(q.pauseNonce % 2 = 1)
    BY <1>1, <1>3, <2>1 DEF Sound
  <2>. QED  BY <1>6, <1>9, <2>2
<1>12. Sound(p)'
  BY <1>1, <1>3, <1>5, <1>6, <1>7, <1>8, <1>9, <1>10, <1>11 DEF Sound
<1>13. \A o \in Proposals \ {p} : proposals'[o] = proposals[o]
  BY <1>1, <1>5 DEF TypeOK
<1>. QED  BY <1>2, <1>8, <1>12, <1>13, ProposalStep

\* A payout needs a stored approval, which is that of every vote.
LEMMA ExecuteProposalStep ==
    ASSUME IInv, NEW p \in Proposals, NEW r \in Recipients,
           NEW amount \in Payouts, ExecuteProposal(p, r, amount)
    PROVE  IInv'
<1>. DEFINE q == proposals[p]
<1>1. TypeOK /\ Sound(p)
  BY IInvPerProposal
<1>2. TypeOK'
  BY <1>1, ExecuteProposalType
<1>3. Exists(p) /\ q \in ProposalState
  BY <1>1, ExistingType DEF ExecuteProposal
<1>4. /\ q.status = "APPROVED"
      /\ amount <= AmountWithBond(q.amount) - q.paidOutAmount
      /\ proposals' = [proposals EXCEPT ![p].paidOutAmount = @ + amount]
      /\ UNCHANGED <<slot, actions, actionStateHistory>>
  BY DEF ExecuteProposal, Remaining
<1>5. /\ proposals'[p].status = "APPROVED"
      /\ proposals'[p].amount = q.amount
      /\ proposals'[p].snapshot = q.snapshot
      /\ proposals'[p].lifecycleId = q.lifecycleId
      /\ proposals'[p].paidOutAmount = q.paidOutAmount + amount
      /\ proposals'[p].pauseNonce = q.pauseNonce
  BY <1>1, <1>3, <1>4 DEF TypeOK, ProposalState
<1>6. FullResult(p)' = FullResult(p)
  BY <1>4, <1>5 DEF FullResult
<1>7. AmountWithBond(q.amount) \in Nat
  BY <1>3, BondType DEF AmountWithBond, ProposalState
<1>8. proposals'[p].paidOutAmount <= AmountWithBond(q.amount)
  BY <1>3, <1>4, <1>5, <1>7 DEF ProposalState
<1>9. Sound(p)'
  <2>1. slot >= FromSlot(COOLDOWN, q.lifecycleId)
    BY <1>1, <1>3, <1>4 DEF Sound
  <2>2. FullResult(p) = "APPROVED"
    BY <1>1, <1>3, <1>4 DEF Sound
  <2>. QED  BY <1>1, <1>3, <1>4, <1>5, <1>6, <1>8, <2>1, <2>2 DEF Sound
<1>10. \A o \in Proposals \ {p} : proposals'[o] = proposals[o]
  BY <1>1, <1>4 DEF TypeOK
<1>. QED  BY <1>2, <1>4, <1>9, <1>10, ProposalStep

\* A toggle erases the stored result and flips the parity of the nonce.
LEMMA TogglePauseProposalStep ==
    ASSUME IInv, NEW p \in Proposals, NEW nonce \in 0..MaxPauseNonce,
           NEW paused \in BOOLEAN, TogglePauseProposal(p, nonce, paused)
    PROVE  IInv'
<1>. DEFINE q == proposals[p]
<1>1. TypeOK /\ Sound(p)
  BY IInvPerProposal
<1>2. TypeOK'
  BY <1>1, TogglePauseProposalType
<1>3. Exists(p) /\ q \in ProposalState
  BY <1>1, ExistingType DEF TogglePauseProposal
<1>4. /\ q.pauseNonce = nonce
      /\ UNCHANGED <<slot, actions, actionStateHistory>>
  BY DEF TogglePauseProposal
<1>5. /\ proposals'[p].status = ToggledStatus(paused)
      /\ proposals'[p].amount = q.amount
      /\ proposals'[p].snapshot = q.snapshot
      /\ proposals'[p].lifecycleId = q.lifecycleId
      /\ proposals'[p].paidOutAmount = q.paidOutAmount
      /\ proposals'[p].pauseNonce = nonce + 1
  BY <1>1, <1>3 DEF TypeOK, ProposalState, TogglePauseProposal
<1>6. FullResult(p)' = FullResult(p)
  BY <1>4, <1>5 DEF FullResult
<1>7. (proposals'[p].status = "PAUSED") <=> (proposals'[p].pauseNonce % 2 = 1)
  <2>1. (nonce % 2 = 1) <=> ~((nonce + 1) % 2 = 1)
    OBVIOUS
  <2>2. (q.status = "PAUSED") <=> (nonce % 2 = 1)
    BY <1>1, <1>3, <1>4 DEF Sound
  <2>3. (q.status = "PAUSED") <=> ~paused
    BY Zenon DEF TogglePauseProposal, PauseChanges
  <2>. QED  BY <1>5, <2>1, <2>2, <2>3 DEF ToggledStatus
<1>8. proposals'[p].status \notin {"APPROVED", "REJECTED"}
  BY <1>5 DEF ToggledStatus
<1>9. Sound(p)'
  BY <1>1, <1>3, <1>4, <1>5, <1>6, <1>7, <1>8 DEF Sound
<1>10. \A o \in Proposals \ {p} : proposals'[o] = proposals[o]
  BY <1>1 DEF TypeOK, TogglePauseProposal
<1>. QED  BY <1>2, <1>4, <1>9, <1>10, ProposalStep

LEMMA InitIInv == Init => IInv
<1> SUFFICES ASSUME Init PROVE IInv
  OBVIOUS
<1>1. TypeOK
  BY InitTypeOK
<1>2. ASSUME NEW p \in Proposals PROVE Sound(p)
  <2>1. ~Exists(p)
    BY DEF Init, Exists
  <2>2. actionStateHistory[p][1] = Len(actions[p])
    BY DEF Init
  <2>. QED  BY <2>1, <2>2 DEF Sound
<1>. QED  BY <1>1, <1>2, IInvPerProposal

LEMMA NextIInv == IInv /\ [Next]_vars => IInv'
<1> SUFFICES ASSUME IInv, [Next]_vars PROVE IInv'
  OBVIOUS
<1>1. TypeOK /\ TypeOK'
  BY NextTypeOK DEF IInv
<1>2. ASSUME NEW s \in 0..MaxSlot, NextSlot(s) PROVE IInv'
  <2>1. slot' >= slot
    BY <1>1, <1>2 DEF TypeOK, NextSlot
  <2>. QED  BY <1>1, <1>2, <2>1, FundsStep DEF NextSlot
<1>3. slot' = slot => slot' >= slot
  BY <1>1 DEF TypeOK
<1>4. ASSUME NEW amount \in Deposits, Receive(amount) PROVE IInv'
  BY <1>1, <1>3, <1>4, FundsStep DEF Receive
<1>5. ASSUME NEW paused \in BOOLEAN, SetTreasuryPaused(paused) PROVE IInv'
  BY <1>1, <1>3, <1>5, FundsStep DEF SetTreasuryPaused
<1>6. ASSUME NEW amount \in Deposits, EmergencyWithdraw(amount) PROVE IInv'
  BY <1>1, <1>3, <1>6, FundsStep DEF EmergencyWithdraw
<1>7. CASE UNCHANGED vars
  BY <1>1, <1>3, <1>7, FundsStep DEF vars
<1>. QED
  BY <1>2, <1>4, <1>5, <1>6, <1>7, CreateProposalStep, VoteStep,
     TallyVotesStep, ExecuteProposalStep, TogglePauseProposalStep DEF Next

\* The inductive invariant holds of every reachable state.
THEOREM Inductive == Spec => []IInv
BY InitIInv, NextIInv, PTL DEF Spec

-----------------------------------------------------------------------------
(* The safety properties *)

\* A stored result is the result of every vote ever dispatched, for any
\* number of votes, voters, slots and kept action states.
THEOREM ResultCorrect == Spec => []StatusIsFullTally
<1>. IInv => StatusIsFullTally
  BY DEF IInv
<1>. QED  BY Inductive, PTL

\* No proposal is ever paid that its full ballot does not approve.
THEOREM PayoutsApproved == Spec => []PaidOnlyIfApproved
<1>. IInv => PaidOnlyIfApproved
  BY DEF IInv
<1>. QED  BY Inductive, PTL

\* No sequence of partial payouts exceeds the amount and the bond.
THEOREM PayoutsBounded == Spec => []PayoutCap
<1>. IInv => PayoutCap
  BY DEF IInv
<1>. QED  BY Inductive, PTL

\* The parity of the pause nonce is the pause flag.
THEOREM ParityCorrect == Spec => []PauseParity
<1>. IInv => PauseParity
  BY DEF IInv
<1>. QED  BY Inductive, PTL

-----------------------------------------------------------------------------
(* What a step may never do *)

\* The ballot of a proposal is final from the start of its cooldown.
THEOREM BallotFinal == Spec => VotesClosed
<1>. DEFINE Closed(p) ==
        Exists(p) /\ slot >= FromSlot(COOLDOWN, proposals[p].lifecycleId)
            => actions'[p] = actions[p]
<1>1. ASSUME TypeOK, [Next]_vars, NEW p \in Proposals
      PROVE  Closed(p)
  <2>1. ASSUME NEW q \in Proposals, NEW v \in Voters, NEW vote \in Votes,
               Vote(q, v, vote)
        PROVE  Closed(p)
    <3>1. CASE q = p
      BY <1>1, <2>1, <3>1, VoteBeforeCooldown
    <3>2. CASE q # p
      BY <1>1, <2>1, <3>2 DEF TypeOK, Vote
    <3>. QED  BY <3>1, <3>2
  <2>2. CASE UNCHANGED actions
    BY <2>2
  <2>3. ASSUME NEW q \in Proposals, NEW n \in 1..Len(actions[q]),
               NEW targets \in [1..HistoryLength -> 1..n],
               TallyVotes(q, n, targets)
        PROVE  UNCHANGED actions
    BY <2>3 DEF TallyVotes
  <2>. QED
    BY <1>1, <2>1, <2>2, <2>3
       DEF Next, vars, NextSlot, Receive, CreateProposal, ExecuteProposal,
           TogglePauseProposal, SetTreasuryPaused, EmergencyWithdraw
<1>2. TypeOK /\ [Next]_vars => [\A p \in Proposals : Closed(p)]_vars
  BY <1>1
<1>. QED  BY <1>2, TypeCorrect, PTL DEF Spec, VotesClosed

\* A paused treasury lets through pause toggles and movements of the Owner's
\* own balance, and nothing else.
THEOREM PauseHolds == Spec => GlobalPauseFreezes
<1>. DEFINE Toggled(p) ==
        /\ Exists(p)
        /\ proposals'[p].pauseNonce = proposals[p].pauseNonce + 1
        /\ proposals'[p].status \in {"PAUSED", "UNKNOWN"}
            Frozen ==
        /\ UNCHANGED <<actions, received>>
        /\ \A p \in Proposals :
              proposals'[p] # proposals[p] => Toggled(p)
<1>1. ASSUME TypeOK, [Next]_vars, treasuryPaused
      PROVE  Frozen
  <2>1. CASE UNCHANGED <<proposals, actions, received>>
    BY <2>1
  <2>2. ASSUME NEW p \in Proposals, NEW nonce \in 0..MaxPauseNonce,
               NEW paused \in BOOLEAN, TogglePauseProposal(p, nonce, paused)
        PROVE  Frozen
    <3>1. UNCHANGED <<actions, received>>
      BY <2>2 DEF TogglePauseProposal
    <3>2. Exists(p) /\ proposals[p] \in ProposalState
      BY <1>1, <2>2, ExistingType DEF TogglePauseProposal
    <3>3. /\ proposals'[p].pauseNonce = nonce + 1
          /\ proposals'[p].status = ToggledStatus(paused)
          /\ proposals[p].pauseNonce = nonce
          /\ \A q \in Proposals \ {p} : proposals'[q] = proposals[q]
      BY <1>1, <2>2, <3>2 DEF TypeOK, ProposalState, TogglePauseProposal
    <3>4. Toggled(p)
      BY <3>2, <3>3 DEF ToggledStatus
    <3>. HIDE DEF Toggled
    <3>. QED  BY <3>1, <3>3, <3>4
  <2>. HIDE DEF Frozen
  <2>. QED
    BY <1>1, <2>1, <2>2
       DEF Next, vars, NextSlot, Receive, CreateProposal, Vote, TallyVotes,
           ExecuteProposal, SetTreasuryPaused, EmergencyWithdraw,
           RequireNotPaused
<1>2. TypeOK /\ [Next]_vars => [treasuryPaused => Frozen]_vars
  BY <1>1
<1>. QED  BY <1>2, TypeCorrect, PTL DEF Spec, GlobalPauseFreezes

-----------------------------------------------------------------------------
(* Conservation of the shared balance *)

\* The sums that Conservation speaks of, over a set of proposals.
BondsOf(S) == SumFunctionOnSet(Bonds, S)
PaidBy(S) == SumFunctionOnSet(Paid, S)
Requested(r) == {p \in Existing : proposals[p].recipient = r}

\* Conservation, over the finitely many proposals that there are.
Conserved ==
    /\ IsFiniteSet(Existing)
    /\ treasuryBalance = netDeposits + BondsOf(Existing) - PaidBy(Existing)
    /\ \A r \in Recipients : received[r] = PaidBy(Requested(r))

LEMMA ConservedConserves == Conserved => Conservation
<1>1. DOMAIN Bonds = Existing /\ DOMAIN Paid = Existing
  BY DEF Bonds, Paid
<1>. QED
  BY <1>1 DEF Conserved, Conservation, SumFunction, BondsOf, PaidBy, Requested

\* Bonds and payouts are natural numbers, so their sums are.
LEMMA MoneyType ==
    ASSUME TypeOK, IsFiniteSet(Existing)
    PROVE  /\ \A p \in Existing : Bonds[p] \in Nat /\ Paid[p] \in Nat
           /\ \A S \in SUBSET Existing :
                 IsFiniteSet(S) /\ BondsOf(S) \in Nat /\ PaidBy(S) \in Nat
<1>1. ASSUME NEW p \in Existing
      PROVE  Bonds[p] \in Nat /\ Paid[p] \in Nat
  <2>1. proposals[p] \in ProposalState
    BY ExistingType DEF Existing
  <2>2. Bond(proposals[p].amount) \in Nat
    BY <2>1, BondType DEF ProposalState
  <2>. QED  BY <2>1, <2>2 DEF Bonds, Paid, ProposalState
<1>. QED  BY <1>1, SumType, FS_Subset DEF BondsOf, PaidBy

\* A step that leaves the terms and payouts of all proposals alone.
LEMMA SameTermsConserve ==
    ASSUME Conserved, Existing' = Existing,
           \A p \in Existing :
              /\ proposals'[p].amount = proposals[p].amount
              /\ proposals'[p].recipient = proposals[p].recipient
              /\ proposals'[p].paidOutAmount = proposals[p].paidOutAmount,
           TypeOK, netDeposits' \in Int,
           treasuryBalance' - treasuryBalance = netDeposits' - netDeposits,
           treasuryBalance' \in Nat,
           received' = received
    PROVE  Conserved'
<1>1. Bonds' = Bonds /\ Paid' = Paid
  BY DEF Bonds, Paid
<1>2. \A r : Requested(r)' = Requested(r)
  BY DEF Requested
<1>3. BondsOf(Existing)' = BondsOf(Existing) /\ PaidBy(Existing)' = PaidBy(Existing)
  BY <1>1 DEF BondsOf, PaidBy
<1>4. \A r : PaidBy(Requested(r))' = PaidBy(Requested(r))
  BY <1>1, <1>2 DEF PaidBy
<1>5. IsFiniteSet(Existing)'
  BY DEF Conserved
<1>6. BondsOf(Existing) \in Nat /\ PaidBy(Existing) \in Nat
  BY MoneyType DEF Conserved
<1>7. treasuryBalance' = netDeposits' + BondsOf(Existing)' - PaidBy(Existing)'
  BY <1>3, <1>6 DEF TypeOK, Conserved
<1>8. \A r \in Recipients : received'[r] = PaidBy(Requested(r))'
  BY <1>4 DEF Conserved
<1>. QED  BY <1>5, <1>7, <1>8, Zenon DEF Conserved

\* A new proposal brings its bond and has not been paid.
LEMMA CreateProposalConserves ==
    ASSUME TypeOK, Conserved, NEW p \in Proposals, NEW r \in Recipients,
           NEW amount \in Amounts, NEW id \in LifecycleIds,
           NEW snapshot \in Snapshots,
           CreateProposal(p, r, amount, id, snapshot)
    PROVE  Conserved'
<1>. DEFINE T == Existing \cup {p}
<1>1. TypeOK'
  BY CreateProposalType
<1>2. p \notin Existing /\ Bond(amount) \in Nat
  BY BondType DEF Existing, CreateProposal
<1>3. /\ proposals'[p].amount = amount
      /\ proposals'[p].paidOutAmount = 0
      /\ \A q \in Existing : proposals'[q] = proposals[q]
      /\ treasuryBalance' = treasuryBalance + Bond(amount)
      /\ UNCHANGED <<received, netDeposits>>
  BY <1>2 DEF TypeOK, CreateProposal, Existing
<1>4. Existing' = T
  <2>. DEFINE new == [recipient |-> r, amount |-> amount, lifecycleId |-> id,
                      snapshot |-> snapshot, status |-> "UNKNOWN",
                      paidOutAmount |-> 0, pauseNonce |-> 0]
  <2>3. new \in ProposalState
    BY DEF ProposalState, Statuses
  <2>1. proposals'[p] # NoProposal
    BY <2>3 DEF TypeOK, CreateProposal
  <2>2. \A q \in Proposals \ {p} : proposals'[q] = proposals[q]
    BY DEF TypeOK, CreateProposal
  <2>. QED  BY <2>1, <2>2 DEF Existing, Exists
<1>5. IsFiniteSet(T) /\ IsFiniteSet(Existing)
  BY FS_AddElement DEF Conserved
<1>6. /\ Bonds'[p] = Bond(amount) /\ Paid'[p] = 0
      /\ \A q \in Existing : Bonds'[q] = Bonds[q] /\ Paid'[q] = Paid[q]
  BY <1>3, <1>4 DEF Bonds, Paid
<1>7. \A q \in T : Bonds'[q] \in Nat /\ Paid'[q] \in Nat
  BY <1>2, <1>5, <1>6, MoneyType
<1>8. BondsOf(Existing)' = Bond(amount) + BondsOf(Existing)
  <2>1. SumFunctionOnSet(Bonds', T)
          = Bonds'[p] + SumFunctionOnSet(Bonds', Existing)
    BY <1>2, <1>5, <1>7, SumAdd
  <2>2. SumFunctionOnSet(Bonds', Existing) = SumFunctionOnSet(Bonds, Existing)
    BY <1>5, <1>6, SumSame
  <2>. QED  BY <1>4, <1>6, <2>1, <2>2 DEF BondsOf
<1>9. ASSUME NEW S \in SUBSET Existing
      PROVE  /\ SumFunctionOnSet(Paid', S) = PaidBy(S)
             /\ SumFunctionOnSet(Paid', S \cup {p}) = PaidBy(S)
  <2>1. IsFiniteSet(S) /\ PaidBy(S) \in Nat
    BY <1>5, MoneyType
  <2>2. SumFunctionOnSet(Paid', S) = PaidBy(S)
    BY <1>6, <2>1, SumSame DEF PaidBy
  <2>3. SumFunctionOnSet(Paid', S \cup {p})
          = Paid'[p] + SumFunctionOnSet(Paid', S)
    BY <1>2, <1>7, <2>1, SumAdd
  <2>. QED  BY <1>6, <2>1, <2>2, <2>3
<1>10. PaidBy(Existing)' = PaidBy(Existing)
  BY <1>4, <1>9 DEF PaidBy
<1>11. ASSUME NEW s \in Recipients
       PROVE  PaidBy(Requested(s))' = PaidBy(Requested(s))
  <2>1. \/ Requested(s)' = Requested(s)
        \/ Requested(s)' = Requested(s) \cup {p}
    BY <1>3, <1>4 DEF Requested
  <2>2. Requested(s) \in SUBSET Existing
    BY DEF Requested
  <2>3. PaidBy(Requested(s))' = SumFunctionOnSet(Paid', Requested(s)')
    BY DEF PaidBy
  <2>. QED  BY <1>9, <2>1, <2>2, <2>3
<1>12. BondsOf(Existing) \in Nat /\ PaidBy(Existing) \in Nat
  BY <1>5, MoneyType
<1>13. treasuryBalance' = netDeposits' + BondsOf(Existing)' - PaidBy(Existing)'
  BY <1>2, <1>3, <1>8, <1>10, <1>12 DEF TypeOK, Conserved
<1>14. \A s \in Recipients : received'[s] = PaidBy(Requested(s))'
  BY <1>3, <1>11 DEF Conserved
<1>. QED  BY <1>4, <1>5, <1>13, <1>14, Zenon DEF Conserved

\* A payout leaves the balance for the recipient of its proposal.
LEMMA ExecuteProposalConserves ==
    ASSUME TypeOK, Conserved, NEW p \in Proposals, NEW r \in Recipients,
           NEW amount \in Payouts, ExecuteProposal(p, r, amount)
    PROVE  Conserved'
<1>1. /\ p \in Existing /\ amount \in Nat /\ proposals[p].recipient = r
      /\ proposals[p] \in ProposalState
  BY ExistingType DEF ExecuteProposal, Existing, IsRecipient
<1>2. /\ proposals' = [proposals EXCEPT ![p].paidOutAmount = @ + amount]
      /\ received' = [received EXCEPT ![r] = @ + amount]
      /\ treasuryBalance' = treasuryBalance - amount
      /\ netDeposits' = netDeposits
  BY DEF ExecuteProposal, DebitTreasury
<1>3. /\ proposals'[p] = [proposals[p] EXCEPT !.paidOutAmount = @ + amount]
      /\ \A q \in Proposals \ {p} : proposals'[q] = proposals[q]
  BY <1>2 DEF TypeOK
<1>4. /\ proposals'[p].amount = proposals[p].amount
      /\ proposals'[p].recipient = proposals[p].recipient
      /\ proposals'[p].paidOutAmount = proposals[p].paidOutAmount + amount
      /\ proposals'[p] \in ProposalState
  BY <1>1, <1>3 DEF ProposalState
<1>5. Existing' = Existing
  BY <1>1, <1>3, <1>4 DEF Existing, Exists
<1>6. Bonds' = Bonds
  BY <1>3, <1>4, <1>5 DEF Bonds, Existing
<1>7. \A s : Requested(s)' = Requested(s)
  BY <1>3, <1>4, <1>5 DEF Requested, Existing
<1>8. /\ Paid'[p] = Paid[p] + amount
      /\ \A q \in Existing : q # p => Paid'[q] = Paid[q]
  BY <1>1, <1>3, <1>4, <1>5 DEF Paid, Existing
<1>9. IsFiniteSet(Existing)
  BY DEF Conserved
<1>10. /\ \A q \in Existing : Paid[q] \in Nat /\ Paid'[q] \in Nat
       /\ \A S \in SUBSET Existing : IsFiniteSet(S) /\ PaidBy(S) \in Nat
  BY <1>1, <1>8, <1>9, MoneyType
<1>11. ASSUME NEW S \in SUBSET Existing
       PROVE  SumFunctionOnSet(Paid', S)
                = IF p \in S THEN PaidBy(S) + amount ELSE PaidBy(S)
  <2>1. CASE p \in S
    <3>1. SumFunctionOnSet(Paid', S) = SumFunctionOnSet(Paid, S) + Paid'[p] - Paid[p]
      BY <1>8, <1>10, <2>1, SumUpdate
    <3>. QED  BY <1>1, <1>8, <1>10, <2>1, <3>1 DEF PaidBy
  <2>2. CASE p \notin S
    BY <1>8, <1>10, <2>2, SumSame DEF PaidBy
  <2>. QED  BY <2>1, <2>2
<1>12. PaidBy(Existing)' = PaidBy(Existing) + amount
  BY <1>1, <1>5, <1>11 DEF PaidBy
<1>13. ASSUME NEW s \in Recipients
       PROVE  received'[s] = PaidBy(Requested(s))'
  <2>1. Requested(s) \in SUBSET Existing /\ (p \in Requested(s) <=> s = r)
    BY <1>1 DEF Requested
  <2>2. PaidBy(Requested(s))' = SumFunctionOnSet(Paid', Requested(s))
    BY <1>7 DEF PaidBy
  <2>3. received[s] = PaidBy(Requested(s)) /\ received[s] \in Nat
    BY DEF TypeOK, Conserved
  <2>4. received'[s] = IF s = r THEN received[s] + amount ELSE received[s]
    BY <1>2 DEF TypeOK
  <2>. QED  BY <1>11, <2>1, <2>2, <2>3, <2>4
<1>14. BondsOf(Existing)' = BondsOf(Existing)
  BY <1>5, <1>6 DEF BondsOf
<1>15. BondsOf(Existing) \in Nat /\ PaidBy(Existing) \in Nat
  BY <1>9, MoneyType
<1>16. treasuryBalance' = netDeposits' + BondsOf(Existing)' - PaidBy(Existing)'
  <2>1. /\ treasuryBalance = netDeposits + BondsOf(Existing) - PaidBy(Existing)
        /\ netDeposits \in Int
    BY DEF TypeOK, Conserved
  <2>. QED  BY <1>1, <1>2, <1>12, <1>14, <1>15, <2>1
<1>. QED  BY <1>5, <1>9, <1>13, <1>16, Zenon DEF Conserved

LEMMA InitConserved == Init => Conserved
<1>. SUFFICES ASSUME Init PROVE Conserved
  OBVIOUS
<1>1. Existing = {}
  BY DEF Init, Existing, Exists
<1>2. \A r : Requested(r) = {}
  BY <1>1 DEF Requested
<1>3. BondsOf({}) = 0 /\ PaidBy({}) = 0
  BY SumEmpty DEF BondsOf, PaidBy
<1>4. treasuryBalance = netDeposits + BondsOf(Existing) - PaidBy(Existing)
  BY <1>1, <1>3 DEF Init
<1>5. ASSUME NEW r \in Recipients PROVE received[r] = PaidBy(Requested(r))
  BY <1>2, <1>3 DEF Init
<1>. QED  BY <1>1, <1>4, <1>5, FS_EmptySet DEF Conserved

LEMMA NextConserved == TypeOK /\ Conserved /\ [Next]_vars => Conserved'
<1>. SUFFICES ASSUME TypeOK, Conserved, [Next]_vars PROVE Conserved'
  OBVIOUS
<1>1. TypeOK'
  BY NextTypeOK
<1>. DEFINE Quiet == /\ UNCHANGED <<proposals, received>>
                     /\ treasuryBalance' - treasuryBalance
                           = netDeposits' - netDeposits
<1>2. ASSUME Quiet PROVE Conserved'
  <2>1. Existing' = Existing
    BY <1>2 DEF Existing, Exists
  <2>. QED  BY <1>1, <1>2, <2>1, SameTermsConserve DEF TypeOK
<1>3. ASSUME NEW s \in 0..MaxSlot, NextSlot(s) PROVE Quiet
  BY <1>3 DEF TypeOK, NextSlot
<1>4. ASSUME NEW amount \in Deposits, Receive(amount) PROVE Quiet
  BY <1>4 DEF TypeOK, Receive
<1>5. ASSUME NEW amount \in Deposits, EmergencyWithdraw(amount) PROVE Quiet
  BY <1>5 DEF TypeOK, EmergencyWithdraw, DebitTreasury
<1>6. ASSUME NEW p \in Proposals, NEW v \in Voters, NEW vote \in Votes,
             Vote(p, v, vote)
      PROVE  Quiet
  BY <1>6 DEF TypeOK, Vote
<1>7. ASSUME NEW paused \in BOOLEAN, SetTreasuryPaused(paused) PROVE Quiet
  BY <1>7 DEF TypeOK, SetTreasuryPaused
<1>8. ASSUME NEW p \in Proposals, NEW new \in ProposalState, Exists(p),
             proposals' = [proposals EXCEPT ![p] = new],
             new.amount = proposals[p].amount,
             new.recipient = proposals[p].recipient,
             new.paidOutAmount = proposals[p].paidOutAmount,
             UNCHANGED <<treasuryBalance, received, netDeposits>>
      PROVE  Conserved'
  <2>1. proposals'[p] = new /\ \A q \in Proposals \ {p} : proposals'[q] = proposals[q]
    BY <1>8 DEF TypeOK
  <2>2. Existing' = Existing
    BY <1>8, <2>1 DEF Existing, Exists
  <2>3. \A q \in Existing :
           /\ proposals'[q].amount = proposals[q].amount
           /\ proposals'[q].recipient = proposals[q].recipient
           /\ proposals'[q].paidOutAmount = proposals[q].paidOutAmount
    BY <1>8, <2>1 DEF Existing
  <2>. QED  BY <1>1, <1>8, <2>2, <2>3, SameTermsConserve DEF TypeOK
<1>9. ASSUME NEW p \in Proposals, NEW n \in 1..Len(actions[p]),
             NEW targets \in [1..HistoryLength -> 1..n],
             TallyVotes(p, n, targets)
      PROVE  Conserved'
  <2>. DEFINE result == VoteResult(proposals[p].amount, proposals[p].snapshot,
                                   Ballot(SubSeq(actions[p], 1, n)))
              new == [proposals[p] EXCEPT !.status = result]
  <2>1. /\ Exists(p) /\ proposals' = [proposals EXCEPT ![p].status = result]
        /\ UNCHANGED <<treasuryBalance, received, netDeposits>>
    BY <1>9 DEF TallyVotes
  <2>2. proposals[p] \in ProposalState /\ result \in Statuses
    BY <2>1, ExistingType, VoteResultType DEF Statuses
  <2>. HIDE DEF result
  <2>3. /\ new \in ProposalState /\ new.amount = proposals[p].amount
        /\ new.recipient = proposals[p].recipient
        /\ new.paidOutAmount = proposals[p].paidOutAmount
    BY <2>2 DEF ProposalState
  <2>4. proposals' = [proposals EXCEPT ![p] = new]
    BY <2>1 DEF TypeOK
  <2>. HIDE DEF new
  <2>. QED  BY <1>8, <2>1, <2>3, <2>4
<1>10. ASSUME NEW p \in Proposals, NEW nonce \in 0..MaxPauseNonce,
              NEW paused \in BOOLEAN, TogglePauseProposal(p, nonce, paused)
       PROVE  Conserved'
  <2>. DEFINE status == ToggledStatus(paused)
              old == proposals[p]
              new == [old EXCEPT !.status = status, !.pauseNonce = nonce + 1]
  <2>1. /\ Exists(p) /\ proposals' = [proposals EXCEPT ![p] = new]
        /\ UNCHANGED <<treasuryBalance, received, netDeposits>>
    BY <1>10 DEF TogglePauseProposal
  <2>2. old \in ProposalState /\ status \in Statuses
    BY <2>1, ExistingType DEF Statuses, ToggledStatus
  <2>. HIDE DEF status, old
  <2>3. /\ new \in ProposalState /\ new.amount = old.amount
        /\ new.recipient = old.recipient
        /\ new.paidOutAmount = old.paidOutAmount
    <3>. DEFINE mid == [old EXCEPT !.status = status]
    <3>1. /\ mid \in ProposalState /\ mid.amount = old.amount
          /\ mid.recipient = old.recipient
          /\ mid.paidOutAmount = old.paidOutAmount
      BY <2>2 DEF ProposalState
    <3>2. new = [mid EXCEPT !.pauseNonce = nonce + 1]
      BY <2>2 DEF ProposalState
    <3>. HIDE DEF mid
    <3>3. LET x == [mid EXCEPT !.pauseNonce = nonce + 1]
          IN  /\ x \in ProposalState /\ x.amount = mid.amount
              /\ x.recipient = mid.recipient
              /\ x.paidOutAmount = mid.paidOutAmount
      BY <3>1 DEF ProposalState
    <3>. HIDE DEF new
    <3>. QED  BY <3>1, <3>2, <3>3
  <2>. HIDE DEF new
  <2>. QED  BY <1>8, <2>1, <2>3 DEF old
<1>11. CASE UNCHANGED vars
  <2>1. Quiet
    BY <1>11 DEF TypeOK, vars
  <2>. QED  BY <1>2, <2>1
<1>. HIDE DEF Quiet
<1>. QED
  BY <1>2, <1>3, <1>4, <1>5, <1>6, <1>7, <1>9, <1>10, <1>11,
     CreateProposalConserves, ExecuteProposalConserves DEF Next

\* Money is conserved: however many proposals share the balance, and in
\* whatever order they are created, paid in parts, paused or decided again,
\* the balance is what came in less what went out, and each recipient has
\* what its own proposals have paid.
THEOREM MoneyConserved == Spec => []Conservation
<1>1. Spec => []Conserved
  BY InitConserved, NextConserved, TypeCorrect, PTL DEF Spec
<1>. QED  BY <1>1, ConservedConserves, PTL

-----------------------------------------------------------------------------
(* The contracts implement Grants *)

\* The actions of one voter, whose first one counts.
Casts(list, voter) == {i \in 1..Len(list) : list[i].voter = voter}

LEMMA CastVoteOf ==
    ASSUME NEW list, NEW voter
    PROVE  CastVote(list, voter) =
               IF Casts(list, voter) = {} THEN NoVote
               ELSE list[Min(Casts(list, voter))].vote
BY Zenon DEF CastVote, Casts

\* Another vote leaves the ballot as it is, or fills in a voter's first one.
LEMMA BallotAfterVote ==
    ASSUME NEW list \in Seq(VoteAction), NEW v \in Voters, NEW vote \in Votes
    PROVE  LET list2 == Append(list, [voter |-> v, vote |-> vote])
           IN  \/ Ballot(list2) = Ballot(list)
               \/ /\ Ballot(list)[v] = NoVote
                  /\ Ballot(list2) = [Ballot(list) EXCEPT ![v] = vote]
<1>. DEFINE n == Len(list) + 1
            list2 == Append(list, [voter |-> v, vote |-> vote])
<1>1. /\ Len(list2) = n /\ n \in Nat /\ Len(list) \in Nat
      /\ list2[n].voter = v /\ list2[n].vote = vote
      /\ \A i \in 1..Len(list) : list2[i] = list[i]
  OBVIOUS
<1>. SUFFICES \/ Ballot(list2) = Ballot(list)
              \/ /\ Ballot(list)[v] = NoVote
                 /\ Ballot(list2) = [Ballot(list) EXCEPT ![v] = vote]
  OBVIOUS
<1>. HIDE DEF list2
<1>2. ASSUME NEW u \in Voters \ {v}
      PROVE  CastVote(list2, u) = CastVote(list, u)
  <2>1. Casts(list2, u) = Casts(list, u)
    BY <1>1 DEF Casts
  <2>2. CASE Casts(list, u) = {}
    BY <2>1, <2>2, CastVoteOf
  <2>3. CASE Casts(list, u) # {}
    <3>1. Casts(list, u) \in SUBSET Nat
      BY <1>1 DEF Casts
    <3>2. Min(Casts(list, u)) \in 1..Len(list)
      BY <2>3, <3>1, NatMin DEF Casts
    <3>. QED  BY <1>1, <2>1, <2>3, <3>2, CastVoteOf
  <2>. QED  BY <2>2, <2>3
<1>3. Casts(list2, v) = Casts(list, v) \cup {n}
  BY <1>1 DEF Casts
<1>4. CASE Casts(list, v) = {}
  <2>1. Casts(list2, v) = {n}
    BY <1>3, <1>4
  <2>2. Min({n}) = n
    BY <1>1 DEF Min
  <2>3. CastVote(list, v) = NoVote /\ CastVote(list2, v) = vote
    BY <1>1, <1>4, <2>1, <2>2, CastVoteOf
  <2>4. Ballot(list)[v] = NoVote
    BY Zenon, <2>3 DEF Ballot
  <2>5. \A u \in Voters :
           CastVote(list2, u) = IF u = v THEN vote ELSE CastVote(list, u)
    BY <1>2, <2>3
  <2>6. [Ballot(list) EXCEPT ![v] = vote]
           = [u \in Voters |-> IF u = v THEN vote ELSE CastVote(list, u)]
    BY Zenon DEF Ballot
  <2>7. Ballot(list2) = [Ballot(list) EXCEPT ![v] = vote]
    BY Zenon, <2>5, <2>6 DEF Ballot
  <2>. QED  BY <2>4, <2>7
<1>5. CASE Casts(list, v) # {}
  <2>1. /\ Casts(list, v) \in SUBSET Nat /\ Casts(list2, v) \in SUBSET Nat
        /\ Casts(list2, v) # {}
    BY <1>1, <1>3, <1>5 DEF Casts
  <2>2. /\ Min(Casts(list, v)) \in Casts(list, v)
        /\ \A i \in Casts(list, v) : Min(Casts(list, v)) <= i
        /\ Min(Casts(list2, v)) \in Casts(list2, v)
        /\ \A i \in Casts(list2, v) : Min(Casts(list2, v)) <= i
    BY <1>5, <2>1, NatMin
  <2>3. \A i \in Casts(list, v) : i \in Nat /\ i < n
    BY <1>1 DEF Casts
  <2>4. Min(Casts(list2, v)) = Min(Casts(list, v))
    <3>. DEFINE m == Min(Casts(list, v))
                m2 == Min(Casts(list2, v))
                C == Casts(list, v)
                D == Casts(list2, v)
    <3>1. /\ m \in C /\ \A i \in C : m <= i
          /\ m2 \in D /\ \A i \in D : m2 <= i
          /\ D = C \cup {n}
      BY <1>3, <2>2
    <3>2. \A i \in C : i \in Nat /\ i < n
      BY <2>3
    <3>3. n \in Nat
      BY <1>1
    <3>. HIDE DEF m, m2, C, D, n
    <3>4. m2 = m
      BY <3>1, <3>2, <3>3
    <3>. QED  BY <3>4 DEF m, m2
  <2>5. Min(Casts(list, v)) \in 1..Len(list)
    BY <2>2 DEF Casts
  <2>6. CastVote(list2, v) = CastVote(list, v)
    BY <1>1, <1>5, <2>1, <2>4, <2>5, CastVoteOf
  <2>. QED  BY <1>2, <2>6 DEF Ballot
<1>. QED  BY <1>4, <1>5

LEMMA EmptyBallot == Ballot(<<>>) = [v \in Voters |-> NoVote]
<1>1. \A v \in Voters : Casts(<<>>, v) = {}
  BY DEF Casts
<1>. QED  BY <1>1, CastVoteOf DEF Ballot

\* The first slot of the cooldown comes after the proposal period and not
\* after the next lifecycle.
LEMMA CooldownStarts ==
    ASSUME NEW id \in Nat
    PROVE  /\ ToSlot(PROPOSAL, id) < FromSlot(COOLDOWN, id)
           /\ FromSlot(COOLDOWN, id) <= FromSlot(PROPOSAL, id + 1)
           /\ FromSlot(COOLDOWN, id) \in Nat
<1>1. /\ FromSlot(PROPOSAL, id) \in Nat /\ FromSlot(EXPLORATION, id) \in Nat
      /\ FromSlot(VOTING, id) \in Nat /\ FromSlot(COOLDOWN, id) \in Nat
      /\ FromSlot(PROPOSAL, id + 1) \in Nat
  <2>1. /\ PROPOSAL \in Nat /\ EXPLORATION \in Nat
        /\ VOTING \in Nat /\ COOLDOWN \in Nat
    BY DEF PROPOSAL, EXPLORATION, VOTING, COOLDOWN
  <2>2. \A period \in Nat : FromSlot(period, id) \in Nat
    BY FromSlotType
  <2>3. \A period \in Nat : FromSlot(period, id + 1) \in Nat
    <3>1. id + 1 \in Nat
      OBVIOUS
    <3>. QED  BY <3>1, FromSlotType
  <2>. QED  BY <2>1, <2>2, <2>3
<1>2. /\ ToSlot(PROPOSAL, id) + 1 = FromSlot(EXPLORATION, id)
      /\ ToSlot(EXPLORATION, id) + 1 = FromSlot(VOTING, id)
      /\ ToSlot(VOTING, id) + 1 = FromSlot(COOLDOWN, id)
      /\ ToSlot(COOLDOWN, id) + 1 = FromSlot(PROPOSAL, id + 1)
  BY PeriodsTile
<1>. QED  BY <1>1, <1>2 DEF ToSlot

LEMMA VotingOverIsFinal ==
    ASSUME TypeOK, NEW p \in Proposals, VotingOver(p), slot' >= slot,
           slot' \in Nat, proposals' = proposals
    PROVE  VotingOver(p)'
<1>1. proposals[p].lifecycleId \in Nat
  BY ExistingType DEF VotingOver, ProposalState
<1>2. FromSlot(COOLDOWN, proposals[p].lifecycleId) \in Nat
  BY <1>1, CooldownStarts
<1>. QED  BY <1>2 DEF VotingOver, Exists, TypeOK

\* A step that leaves a proposal's terms, lifecycle and payouts alone.
SameGrant(p) ==
    /\ Exists(p)' = Exists(p)
    /\ Exists(p) =>
          /\ proposals'[p].recipient = proposals[p].recipient
          /\ proposals'[p].amount = proposals[p].amount
          /\ proposals'[p].lifecycleId = proposals[p].lifecycleId
          /\ proposals'[p].snapshot = proposals[p].snapshot
          /\ proposals'[p].paidOutAmount = proposals[p].paidOutAmount

LEMMA SameGrants ==
    ASSUME \A p \in Proposals : SameGrant(p), slot' = slot
    PROVE  UNCHANGED <<termsBar, closedBar, paidBar>>
BY DEF SameGrant, termsBar, closedBar, paidBar, VotingOver, Exists

GrantsVars == <<termsBar, ballotBar, closedBar, paidBar, treasuryBalance>>

LEMMA InitRefines == Init => GrantsSpec!Init
<1>. SUFFICES ASSUME Init PROVE GrantsSpec!Init
  OBVIOUS
<1>1. \A p \in Proposals : ~Exists(p) /\ Ballot(actions[p]) = Ballot(<<>>)
  BY DEF Init, Exists
<1>2. termsBar = [p \in Proposals |-> NoProposal]
  BY <1>1 DEF termsBar
<1>3. ballotBar = [p \in Proposals |-> [v \in Voters |-> NoVote]]
  BY <1>1, EmptyBallot DEF ballotBar
<1>4. closedBar = [p \in Proposals |-> FALSE]
  BY <1>1 DEF closedBar, VotingOver
<1>5. paidBar = [p \in Proposals |-> 0]
  BY <1>1 DEF paidBar
<1>. QED  BY <1>2, <1>3, <1>4, <1>5 DEF Init, GrantsSpec!Init

\* An account that exists is a grant.
LEMMA ExistingGrant ==
    ASSUME TypeOK, NEW p \in Proposals
    PROVE  /\ Exists(p) <=> GrantsSpec!Granted(p)
           /\ Exists(p) =>
                 /\ termsBar[p] \in GrantTerms
                 /\ termsBar[p].amount = proposals[p].amount
                 /\ termsBar[p].snapshot = proposals[p].snapshot
<1>1. CASE ~Exists(p)
  BY <1>1 DEF termsBar, GrantsSpec!Granted
<1>2. CASE Exists(p)
  <2>1. proposals[p] \in ProposalState
    BY <1>2, ExistingType
  <2>2. termsBar[p] = [recipient |-> proposals[p].recipient,
                       amount |-> proposals[p].amount,
                       lifecycleId |-> proposals[p].lifecycleId,
                       snapshot |-> proposals[p].snapshot]
    BY <1>2 DEF termsBar
  <2>3. termsBar[p] \in GrantTerms
    BY <2>1, <2>2 DEF GrantTerms, ProposalState
  <2>. QED  BY <1>2, <2>2, <2>3 DEF GrantsSpec!Granted
<1>. QED  BY <1>1, <1>2

\* Time passes: voting periods end.
LEMMA NextSlotRefines ==
    ASSUME IInv, NEW s \in 0..MaxSlot, NextSlot(s)
    PROVE  GrantsSpec!Next
<1>. DEFINE over == {p \in Proposals : VotingOver(p)'}
<1>1. TypeOK /\ slot' \in Nat /\ slot' >= slot
      /\ UNCHANGED <<proposals, actions, treasuryBalance>>
  BY DEF IInv, TypeOK, NextSlot
<1>2. UNCHANGED <<termsBar, ballotBar, paidBar>>
  BY <1>1 DEF termsBar, ballotBar, paidBar, Exists
<1>3. \A p \in over : GrantsSpec!Granted(p)
  <2>1. \A p \in over : Exists(p)
    BY <1>1 DEF VotingOver, Exists
  <2>. QED  BY <1>1, <2>1, ExistingGrant
<1>4. closedBar' = [p \in Proposals |-> closedBar[p] \/ p \in over]
  <2>1. \A p \in Proposals : VotingOver(p) => VotingOver(p)'
    BY <1>1, VotingOverIsFinal
  <2>2. \A p \in Proposals : closedBar[p] = VotingOver(p)
    BY DEF closedBar
  <2>3. \A p \in Proposals : VotingOver(p)' = (closedBar[p] \/ p \in over)
    BY <2>1, <2>2 DEF VotingOver
  <2>. HIDE DEF over
  <2>. QED  BY <2>3, Zenon DEF closedBar
<1>5. over \in SUBSET Proposals
  OBVIOUS
<1>. HIDE DEF over
<1>6. GrantsSpec!Close(over)
  BY <1>1, <1>2, <1>3, <1>4 DEF GrantsSpec!Close
<1>. QED  BY <1>5, <1>6 DEF GrantsSpec!Next

\* The Owner's balance moves on its own.
LEMMA FundsRefine ==
    ASSUME IInv, UNCHANGED <<slot, proposals, actions>>,
           treasuryBalance' \in Nat,
           \/ treasuryBalance' >= treasuryBalance
           \/ WithdrawalPermission = "proofOrSignature"
    PROVE  GrantsSpec!Next
<1>1. \A p \in Proposals : SameGrant(p)
  BY DEF SameGrant, Exists
<1>2. UNCHANGED <<termsBar, closedBar, paidBar>>
  BY <1>1, SameGrants
<1>3. UNCHANGED ballotBar
  BY DEF ballotBar
<1>4. GrantsSpec!Transfer
  BY <1>2, <1>3 DEF GrantsSpec!Transfer
<1>. QED  BY <1>4 DEF GrantsSpec!Next

LEMMA CreateProposalRefines ==
    ASSUME IInv, NEW p \in Proposals, NEW r \in Recipients,
           NEW amount \in Amounts, NEW id \in LifecycleIds,
           NEW snapshot \in Snapshots,
           CreateProposal(p, r, amount, id, snapshot)
    PROVE  GrantsSpec!Next
<1>. DEFINE t == [recipient |-> r, amount |-> amount, lifecycleId |-> id,
                  snapshot |-> snapshot]
            new == [recipient |-> r, amount |-> amount,
                    lifecycleId |-> id, snapshot |-> snapshot,
                    status |-> "UNKNOWN", paidOutAmount |-> 0,
                    pauseNonce |-> 0]
<1>1. /\ TypeOK /\ ~Exists(p)
      /\ proposals' = [proposals EXCEPT ![p] = new]
      /\ treasuryBalance' = treasuryBalance + Bond(amount)
      /\ UNCHANGED <<slot, actions>>
  BY DEF IInv, CreateProposal
<1>2. new \in ProposalState
  BY DEF ProposalState, Statuses
<1>3. /\ proposals'[p] = new
      /\ \A q \in Proposals \ {p} : proposals'[q] = proposals[q]
  BY <1>1 DEF TypeOK
<1>4. Exists(p)'
  BY <1>2, <1>3 DEF Exists
<1>5. \A q \in Proposals \ {p} : Exists(q)' = Exists(q)
  BY <1>3 DEF Exists
<1>6. termsBar' = [termsBar EXCEPT ![p] = t]
  <2>1. [recipient |-> proposals'[p].recipient,
         amount |-> proposals'[p].amount,
         lifecycleId |-> proposals'[p].lifecycleId,
         snapshot |-> proposals'[p].snapshot] = t
    BY <1>3
  <2>. HIDE DEF t, new
  <2>. QED  BY <1>3, <1>4, <1>5, <2>1 DEF termsBar
<1>7. t \in GrantTerms /\ termsBar'[p] = t
  BY <1>6 DEF GrantTerms, termsBar
<1>8. ~VotingOver(p)' /\ ~VotingOver(p)
  <2>1. slot \in Nat /\ slot <= ToSlot(PROPOSAL, id) /\ id \in Nat
    BY <1>1 DEF TypeOK, CreateProposal, RequireLifecyclePeriod
  <2>2. slot < FromSlot(COOLDOWN, id)
    <3>1. /\ ToSlot(PROPOSAL, id) < FromSlot(COOLDOWN, id)
          /\ FromSlot(COOLDOWN, id) \in Nat
      BY <2>1, CooldownStarts
    <3>2. ToSlot(PROPOSAL, id) \in Int
      <4>1. PROPOSAL \in Nat
        BY DEF PROPOSAL
      <4>2. FromSlot(PROPOSAL, id) \in Nat
        BY <2>1, <4>1, FromSlotType
      <4>. QED  BY <4>2 DEF ToSlot
    <3>. QED  BY <2>1, <3>1, <3>2
  <2>3. FromSlot(COOLDOWN, id) \in Nat
    BY <2>1, CooldownStarts
  <2>. QED  BY <1>1, <1>3, <2>1, <2>2, <2>3 DEF VotingOver
<1>9. closedBar' = closedBar
  BY <1>1, <1>3, <1>5, <1>8 DEF closedBar, VotingOver
<1>10. paidBar' = paidBar
  BY <1>1, <1>3, <1>4, <1>5 DEF paidBar
<1>11. ballotBar' = ballotBar
  BY <1>1 DEF ballotBar
<1>12. GrantBond(t) = Bond(amount)
  BY DEF GrantBond
<1>13. ~GrantsSpec!Granted(p)
  BY <1>1, ExistingGrant
<1>. HIDE DEF t, new
<1>14. GrantsSpec!Propose(p)
  BY <1>1, <1>6, <1>7, <1>9, <1>10, <1>11, <1>12, <1>13 DEF GrantsSpec!Propose
<1>. QED  BY <1>14 DEF GrantsSpec!Next

\* The first vote of a voter is cast, any other one changes nothing.
LEMMA VoteRefines ==
    ASSUME IInv, NEW p \in Proposals, NEW v \in Voters, NEW vote \in Votes,
           Vote(p, v, vote)
    PROVE  GrantsSpec!Next \/ UNCHANGED GrantsVars
<1>1. /\ TypeOK /\ Exists(p)
      /\ actions' = [actions EXCEPT ![p] =
                        Append(@, [voter |-> v, vote |-> vote])]
      /\ UNCHANGED <<slot, treasuryBalance, proposals>>
  BY DEF IInv, Vote
<1>2. UNCHANGED <<termsBar, closedBar, paidBar>>
  <2>1. \A q \in Proposals : SameGrant(q)
    BY <1>1 DEF SameGrant, Exists
  <2>. QED  BY <1>1, <2>1, SameGrants
<1>3. /\ actions[p] \in Seq(VoteAction)
      /\ actions'[p] = Append(actions[p], [voter |-> v, vote |-> vote])
      /\ \A q \in Proposals \ {p} : actions'[q] = actions[q]
  BY <1>1 DEF TypeOK
<1>4. CASE Ballot(actions'[p]) = Ballot(actions[p])
  <2>1. ballotBar' = ballotBar
    BY <1>3, <1>4 DEF ballotBar
  <2>. QED  BY <1>1, <1>2, <2>1 DEF GrantsVars
<1>5. CASE /\ Ballot(actions[p])[v] = NoVote
           /\ Ballot(actions'[p]) = [Ballot(actions[p]) EXCEPT ![v] = vote]
  <2>1. ballotBar' = [ballotBar EXCEPT ![p] = [ballotBar[p] EXCEPT ![v] = vote]]
    BY <1>3, <1>5 DEF ballotBar
  <2>2. ballotBar[p][v] = NoVote
    BY <1>5 DEF ballotBar
  <2>3. GrantsSpec!Granted(p)
    BY <1>1, ExistingGrant
  <2>4. ~closedBar[p]
    BY <1>1, VoteBeforeCooldown DEF closedBar, VotingOver
  <2>5. GrantsSpec!Cast(p, v, vote)
    BY <1>1, <1>2, <2>1, <2>2, <2>3, <2>4 DEF GrantsSpec!Cast
  <2>. QED  BY <2>5 DEF GrantsSpec!Next
<1>6. \/ Ballot(actions'[p]) = Ballot(actions[p])
      \/ /\ Ballot(actions[p])[v] = NoVote
         /\ Ballot(actions'[p]) = [Ballot(actions[p]) EXCEPT ![v] = vote]
  <2>. DEFINE old == actions[p]
              new == actions'[p]
  <2>1. old \in Seq(VoteAction) /\ new = Append(old, [voter |-> v, vote |-> vote])
    BY <1>3
  <2>. HIDE DEF old, new
  <2>2. \/ Ballot(new) = Ballot(old)
        \/ /\ Ballot(old)[v] = NoVote
           /\ Ballot(new) = [Ballot(old) EXCEPT ![v] = vote]
    BY <2>1, BallotAfterVote, Zenon
  <2>. QED  BY <2>2 DEF old, new
<1>. QED  BY <1>4, <1>5, <1>6

\* A tally, or a pause, decides nothing that the ballot does not.
LEMMA StatusRefines ==
    ASSUME IInv, NEW p \in Proposals, Exists(p),
           NEW status \in Statuses, NEW nonce \in Nat,
           proposals'[p] = [proposals[p] EXCEPT !.status = status,
                                                !.pauseNonce = nonce],
           \A q \in Proposals \ {p} : proposals'[q] = proposals[q],
           UNCHANGED <<slot, treasuryBalance, actions>>
    PROVE  UNCHANGED GrantsVars
<1>. DEFINE old == proposals[p]
            new == proposals'[p]
<1>1. old \in ProposalState
  BY ExistingType DEF IInv
<1>2. new = [old EXCEPT !.status = status, !.pauseNonce = nonce]
  OBVIOUS
<1>3. /\ new \in ProposalState
      /\ new.recipient = old.recipient
      /\ new.amount = old.amount
      /\ new.lifecycleId = old.lifecycleId
      /\ new.snapshot = old.snapshot
      /\ new.paidOutAmount = old.paidOutAmount
  <2>. HIDE DEF old, new
  <2>. QED  BY <1>1, <1>2 DEF ProposalState
<1>4. SameGrant(p)
  BY <1>3 DEF SameGrant, Exists
<1>5. \A q \in Proposals \ {p} : SameGrant(q)
  BY DEF SameGrant, Exists
<1>6. UNCHANGED <<termsBar, closedBar, paidBar>>
  BY <1>4, <1>5, SameGrants
<1>7. UNCHANGED ballotBar
  BY DEF ballotBar
<1>. QED  BY <1>6, <1>7 DEF GrantsVars

LEMMA TallyVotesRefines ==
    ASSUME IInv, NEW p \in Proposals, NEW n \in 1..Len(actions[p]),
           NEW targets \in [1..HistoryLength -> 1..n],
           TallyVotes(p, n, targets)
    PROVE  UNCHANGED GrantsVars
<1>. DEFINE result == VoteResult(proposals[p].amount, proposals[p].snapshot,
                                 Ballot(SubSeq(actions[p], 1, n)))
            nonce == proposals[p].pauseNonce
<1>1. /\ Exists(p)
      /\ proposals' = [proposals EXCEPT ![p].status = result]
      /\ UNCHANGED <<slot, treasuryBalance, actions>>
  BY DEF TallyVotes
<1>2. result \in Statuses
  BY VoteResultType DEF Statuses
<1>. HIDE DEF result
<1>3. TypeOK /\ proposals[p] \in ProposalState /\ nonce \in Nat
  BY <1>1, ExistingType DEF IInv, ProposalState
<1>4. /\ proposals'[p] = [proposals[p] EXCEPT !.status = result]
      /\ \A q \in Proposals \ {p} : proposals'[q] = proposals[q]
  BY <1>1, <1>3 DEF TypeOK
<1>5. [proposals[p] EXCEPT !.status = result] =
          [proposals[p] EXCEPT !.status = result, !.pauseNonce = nonce]
  BY <1>3 DEF ProposalState
<1>6. proposals'[p] =
          [proposals[p] EXCEPT !.status = result, !.pauseNonce = nonce]
  BY <1>4, <1>5
<1>. HIDE DEF nonce
<1>. QED  BY <1>1, <1>2, <1>3, <1>4, <1>6, StatusRefines

LEMMA TogglePauseRefines ==
    ASSUME IInv, NEW p \in Proposals, NEW nonce \in 0..MaxPauseNonce,
           NEW paused \in BOOLEAN, TogglePauseProposal(p, nonce, paused)
    PROVE  UNCHANGED GrantsVars
<1>. DEFINE status == ToggledStatus(paused)
            next == nonce + 1
<1>1. status \in Statuses /\ next \in Nat
  BY DEF ToggledStatus, Statuses
<1>2. /\ Exists(p) /\ TypeOK
      /\ proposals' = [proposals EXCEPT ![p] =
             [@ EXCEPT !.status = status, !.pauseNonce = next]]
      /\ UNCHANGED <<slot, treasuryBalance, actions>>
  BY DEF IInv, TogglePauseProposal
<1>. HIDE DEF status, next
<1>3. /\ proposals'[p] = [proposals[p] EXCEPT !.status = status,
                                              !.pauseNonce = next]
      /\ \A q \in Proposals \ {p} : proposals'[q] = proposals[q]
  BY <1>2 DEF TypeOK
<1>. QED  BY <1>1, <1>2, <1>3, StatusRefines

\* A payout is within the cap of a closed grant that its ballot approves.
LEMMA ExecuteProposalRefines ==
    ASSUME IInv, NEW p \in Proposals, NEW r \in Recipients,
           NEW amount \in Payouts, ExecuteProposal(p, r, amount)
    PROVE  GrantsSpec!Next
<1>. DEFINE q == proposals[p]
<1>1. TypeOK /\ Exists(p) /\ q \in ProposalState
  BY ExistingType DEF IInv, ExecuteProposal
<1>2. /\ q.status = "APPROVED"
      /\ amount <= AmountWithBond(q.amount) - q.paidOutAmount
      /\ amount <= treasuryBalance
      /\ treasuryBalance' = treasuryBalance - amount
      /\ proposals' = [proposals EXCEPT ![p].paidOutAmount = @ + amount]
      /\ UNCHANGED <<slot, actions>>
  BY DEF ExecuteProposal, Remaining, DebitTreasury
<1>3. /\ proposals'[p] = [q EXCEPT !.paidOutAmount = q.paidOutAmount + amount]
      /\ \A o \in Proposals \ {p} : proposals'[o] = proposals[o]
  BY <1>1, <1>2 DEF TypeOK
<1>4. /\ proposals'[p] \in ProposalState
      /\ proposals'[p].paidOutAmount = q.paidOutAmount + amount
      /\ proposals'[p].recipient = q.recipient
      /\ proposals'[p].amount = q.amount
      /\ proposals'[p].lifecycleId = q.lifecycleId
      /\ proposals'[p].snapshot = q.snapshot
  BY <1>1, <1>3 DEF ProposalState
<1>5. Exists(p)' /\ \A o \in Proposals \ {p} : Exists(o)' = Exists(o)
  BY <1>3, <1>4 DEF Exists
<1>6. termsBar' = termsBar
  BY <1>1, <1>3, <1>4, <1>5 DEF termsBar
<1>7. closedBar' = closedBar
  BY <1>1, <1>2, <1>3, <1>4, <1>5 DEF closedBar, VotingOver
<1>8. ballotBar' = ballotBar
  BY <1>2 DEF ballotBar
<1>9. paidBar' = [paidBar EXCEPT ![p] = q.paidOutAmount + amount]
      /\ paidBar[p] = q.paidOutAmount
  BY <1>1, <1>3, <1>4, <1>5 DEF paidBar
<1>10. closedBar[p]
  <2>1. q.lifecycleId \in Nat /\ slot \in Nat
    BY <1>1 DEF ProposalState, TypeOK
  <2>2. FromSlot(PROPOSAL, q.lifecycleId + 1) <= slot
    BY DEF ExecuteProposal, RequireLifecyclePeriodGreaterThanOrEqual
  <2>3. /\ FromSlot(COOLDOWN, q.lifecycleId) <=
               FromSlot(PROPOSAL, q.lifecycleId + 1)
        /\ FromSlot(COOLDOWN, q.lifecycleId) \in Nat
    BY <2>1, CooldownStarts
  <2>4. FromSlot(PROPOSAL, q.lifecycleId + 1) \in Nat
    <3>1. PROPOSAL \in Nat
      BY DEF PROPOSAL
    <3>. QED  BY <2>1, <3>1, FromSlotType
  <2>5. VotingOver(p)
    BY <1>1, <2>1, <2>2, <2>3, <2>4 DEF VotingOver
  <2>. QED  BY <2>5 DEF closedBar
<1>11. GrantsSpec!Granted(p) /\ termsBar[p].amount = q.amount
       /\ termsBar[p].snapshot = q.snapshot
  BY <1>1, ExistingGrant
<1>12. GrantApproves(termsBar[p], ballotBar[p])
  <2>1. FullResult(p) = "APPROVED"
    BY <1>1, <1>2 DEF IInv, StatusIsFullTally
  <2>. QED  BY <1>11, <2>1 DEF FullResult, GrantApproves, ballotBar
<1>13. /\ q.paidOutAmount \in Nat /\ amount \in Nat
       /\ AmountWithBond(q.amount) \in Nat
       /\ treasuryBalance \in Nat
  <2>1. q.amount \in Nat /\ q.paidOutAmount \in Nat
    BY <1>1 DEF ProposalState
  <2>2. Bond(q.amount) \in Nat
    BY <2>1, BondType
  <2>3. treasuryBalance \in Nat
    BY <1>1 DEF TypeOK
  <2>. QED  BY <2>1, <2>2, <2>3 DEF AmountWithBond
<1>14. paidBar'[p] = q.paidOutAmount + amount
  BY <1>9 DEF paidBar
<1>15. GrantCap(termsBar[p]) = AmountWithBond(q.amount)
  BY <1>11 DEF GrantCap
<1>. HIDE DEF q
<1>16. /\ paidBar'[p] \in paidBar[p]..GrantCap(termsBar[p])
       /\ paidBar' = [paidBar EXCEPT ![p] = paidBar'[p]]
       /\ treasuryBalance' = treasuryBalance - (paidBar'[p] - paidBar[p])
       /\ treasuryBalance' >= 0
  <2>1. q.paidOutAmount + amount
            \in q.paidOutAmount..AmountWithBond(q.amount)
    BY <1>2, <1>13
  <2>2. amount = (q.paidOutAmount + amount) - q.paidOutAmount
    BY <1>13
  <2>3. treasuryBalance' >= 0
    BY <1>2, <1>13
  <2>. QED  BY <1>2, <1>9, <1>14, <1>15, <2>1, <2>2, <2>3
<1>17. GrantsSpec!Pay(p)
  BY <1>6, <1>7, <1>8, <1>10, <1>11, <1>12, <1>16 DEF GrantsSpec!Pay
<1>. QED  BY <1>17 DEF GrantsSpec!Next

LEMMA NextRefines ==
    IInv /\ [Next]_vars => GrantsSpec!Next \/ UNCHANGED GrantsVars
<1>. SUFFICES ASSUME IInv, [Next]_vars
              PROVE  GrantsSpec!Next \/ UNCHANGED GrantsVars
  OBVIOUS
<1>1. CASE UNCHANGED <<slot, proposals, actions, treasuryBalance>>
  BY <1>1 DEF GrantsVars, termsBar, ballotBar, closedBar, paidBar, VotingOver,
              Exists
<1>2. CASE /\ UNCHANGED <<slot, proposals, actions>>
           /\ treasuryBalance' \in Nat
           /\ \/ treasuryBalance' >= treasuryBalance
              \/ WithdrawalPermission = "proofOrSignature"
  BY <1>2, FundsRefine
<1>3. ASSUME NEW amount \in Deposits, Receive(amount) \/ EmergencyWithdraw(amount)
      PROVE  /\ UNCHANGED <<slot, proposals, actions>>
             /\ treasuryBalance' \in Nat
             /\ \/ treasuryBalance' >= treasuryBalance
                \/ WithdrawalPermission = "proofOrSignature"
  BY <1>3 DEF IInv, TypeOK, Receive, EmergencyWithdraw, DebitTreasury
<1>4. ASSUME NEW s \in 0..MaxSlot, NextSlot(s)
      PROVE  GrantsSpec!Next
  BY <1>4, NextSlotRefines
<1>5. ASSUME NEW p \in Proposals, NEW r \in Recipients, NEW amount \in Amounts,
             NEW id \in LifecycleIds, NEW snapshot \in Snapshots,
             CreateProposal(p, r, amount, id, snapshot)
      PROVE  GrantsSpec!Next
  BY <1>5, CreateProposalRefines
<1>6. ASSUME NEW p \in Proposals, NEW v \in Voters, NEW vote \in Votes,
             Vote(p, v, vote)
      PROVE  GrantsSpec!Next \/ UNCHANGED GrantsVars
  BY <1>6, VoteRefines
<1>7. ASSUME NEW p \in Proposals, NEW n \in 1..Len(actions[p]),
             NEW targets \in [1..HistoryLength -> 1..n],
             TallyVotes(p, n, targets)
      PROVE  UNCHANGED GrantsVars
  BY <1>7, TallyVotesRefines
<1>8. ASSUME NEW p \in Proposals, NEW r \in Recipients, NEW amount \in Payouts,
             ExecuteProposal(p, r, amount)
      PROVE  GrantsSpec!Next
  BY <1>8, ExecuteProposalRefines
<1>9. ASSUME NEW p \in Proposals, NEW nonce \in 0..MaxPauseNonce,
             NEW paused \in BOOLEAN, TogglePauseProposal(p, nonce, paused)
      PROVE  UNCHANGED GrantsVars
  BY <1>9, TogglePauseRefines
<1>10. ASSUME NEW paused \in BOOLEAN, SetTreasuryPaused(paused)
       PROVE  UNCHANGED <<slot, proposals, actions, treasuryBalance>>
  BY <1>10 DEF SetTreasuryPaused
<1>. HIDE DEF GrantsVars
<1>. QED
  BY <1>1, <1>2, <1>3, <1>4, <1>5, <1>6, <1>7, <1>8, <1>9, <1>10 DEF Next, vars

\* Whatever the slots, pauses, tallies and withdrawals, the contracts only do
\* what the abstract grants allow: one irrevocable vote per voter, and payouts
\* up to the cap of a closed grant that its whole ballot approves.
THEOREM ContractsImplementGrants == Spec => ImplementsGrants
<1>1. IInv /\ [Next]_vars => [GrantsSpec!Next]_(GrantsSpec!gvars)
  BY NextRefines DEF GrantsVars, GrantsSpec!gvars
<1>. QED
  BY <1>1, InitRefines, Inductive, PTL DEF Spec, ImplementsGrants, GrantsSpec!Spec
=============================================================================
