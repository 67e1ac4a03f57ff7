----------------------------- MODULE Acceptance -----------------------------
(***************************************************************************)
(* The acceptance arithmetic of TreasuryProposalSmartContract: what share  *)
(* of the total currency must vote, and what share of the YAY and NAY      *)
(* weight must be YAY, for a proposal of a given size relative to the      *)
(* treasury.  Every division is the truncating UInt96 division.            *)
(***************************************************************************)
EXTENDS Integers

BASIS_POINTS == 10000
MIN_PARTICIPATION_BP == 2000
MAX_PARTICIPATION_BP == 5000
MIN_APPROVAL_BP == 5100
MAX_APPROVAL_BP == 7000
CURVE_CONSTANT_PARTICIPATION_BP == 500
CURVE_CONSTANT_APPROVAL_BP == 1000

\* The proposal's share of the treasury in basis points, capped at 100%.
\* A zero balance has no quotient: the circuit fails on it.
RatioBp(proposalAmount, treasuryBalance) ==
    LET ratio == (proposalAmount * BASIS_POINTS) \div treasuryBalance
    IN  IF ratio < BASIS_POINTS THEN ratio ELSE BASIS_POINTS

\* ratio / (ratio + c * (1 - ratio)) in basis points.
CurveDenominator(ratioBp, c) ==
    ratioBp + (c * (BASIS_POINTS - ratioBp)) \div BASIS_POINTS

CurveBp(ratioBp, c) ==
    (ratioBp * BASIS_POINTS) \div CurveDenominator(ratioBp, c)

RequiredParticipationBp(ratioBp) ==
    MIN_PARTICIPATION_BP
    + ((MAX_PARTICIPATION_BP - MIN_PARTICIPATION_BP)
         * CurveBp(ratioBp, CURVE_CONSTANT_PARTICIPATION_BP)) \div BASIS_POINTS

RequiredApprovalBp(ratioBp) ==
    MIN_APPROVAL_BP
    + ((MAX_APPROVAL_BP - MIN_APPROVAL_BP)
         * CurveBp(ratioBp, CURVE_CONSTANT_APPROVAL_BP)) \div BASIS_POINTS

RequiredParticipation(ratioBp, totalCurrency) ==
    (totalCurrency * RequiredParticipationBp(ratioBp)) \div BASIS_POINTS

ParticipationMet(yay, nay, abstain, requiredParticipation) ==
    yay + nay + abstain >= requiredParticipation

HasApprovalVotes(yay, nay) == yay + nay > 0

\* approvalBp, with the denominator 1 standing in for an empty vote.
ApprovalBp(yay, nay) ==
    (yay * BASIS_POINTS)
      \div (IF HasApprovalVotes(yay, nay) THEN yay + nay ELSE 1)

Approved(yay, nay, abstain, requiredParticipation, requiredApprovalBp) ==
    /\ ParticipationMet(yay, nay, abstain, requiredParticipation)
    /\ HasApprovalVotes(yay, nay)
    /\ ApprovalBp(yay, nay) >= requiredApprovalBp
=============================================================================
