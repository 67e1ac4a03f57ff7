\* Two proposals, two voters, two lifecycles.
SPECIFICATION Spec
CONSTRAINT Explored
CONSTANTS
    v1 = v1
    v2 = v2
    p1 = p1
    p2 = p2
    r1 = r1
    Proposals = {p1, p2}
    Voters = {v1, v2}
    Recipients = {r1, r2}
    Snapshots <- MCSnapshots
    LifecycleIds = {0, 1}
    TreasuryDeployedAtSlot = 1
    LifecyclePeriodDuration = 2
    MaxUInt32 = 12
    HistoryLength = 2
    BOND_AMOUNT_DIVISOR = 10
    MIN_PROPOSAL_AMOUNT = 10
    WithdrawalPermission = "proofOrSignature"
    NoProposal = NoProposal
    Amounts = {9, 20}
    Payouts = {11, 12}
    Deposits = {20}
    MaxSlot = 9
    MaxVotes = 3
    MaxPauseNonce = 1
    MaxDeposits = 40
INVARIANTS
    IInv
    StatusIsFullTally
    PaidOnlyIfApproved
    Conservation
PROPERTIES
    GlobalPauseFreezes
    ImplementsGrants
