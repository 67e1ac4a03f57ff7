--------------------------- MODULE TreasuryGrants ---------------------------
(***************************************************************************)
(* The contracts implement Grants: a grant is a Proposal account, its      *)
(* ballot the first vote of each voter, and it is closed once the slot     *)
(* reaches the cooldown of its lifecycle, whatever its status says.        *)
(***************************************************************************)
EXTENDS Treasury

GrantTerms == [recipient : Recipients, amount : Nat, lifecycleId : Nat,
               snapshot : Snapshots]

ASSUME GrantAssumption == NoProposal \notin GrantTerms

GrantCap(t) == AmountWithBond(t.amount)
GrantBond(t) == Bond(t.amount)
GrantApproves(t, ballot) ==
    VoteResult(t.amount, t.snapshot, ballot) = "APPROVED"

VotingOver(p) ==
    Exists(p) /\ slot >= FromSlot(COOLDOWN, proposals[p].lifecycleId)

termsBar ==
    [p \in Proposals |->
        IF Exists(p)
        THEN [recipient |-> proposals[p].recipient,
              amount |-> proposals[p].amount,
              lifecycleId |-> proposals[p].lifecycleId,
              snapshot |-> proposals[p].snapshot]
        ELSE NoProposal]
ballotBar == [p \in Proposals |-> Ballot(actions[p])]
closedBar == [p \in Proposals |-> VotingOver(p)]
paidBar ==
    [p \in Proposals |-> IF Exists(p) THEN proposals[p].paidOutAmount ELSE 0]

GrantsSpec == INSTANCE Grants
    WITH Terms <- GrantTerms, NoGrant <- NoProposal,
         Withdrawable <- (WithdrawalPermission = "proofOrSignature"), Cap <- GrantCap,
         BondOf <- GrantBond, Approves <- GrantApproves,
         terms <- termsBar, ballot <- ballotBar, closed <- closedBar,
         paid <- paidBar, fund <- treasuryBalance

\* Through pauses, lost results and repeated tallies, the contracts only ever
\* do what the abstract grants allow: one irrevocable vote per voter, and
\* payouts up to the cap that a closed and approving ballot entitles to.
ImplementsGrants == GrantsSpec!Spec
=============================================================================
