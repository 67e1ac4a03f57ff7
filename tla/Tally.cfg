SPECIFICATION Spec
CONSTRAINT Explored
CONSTANTS
    v1 = v1
    v2 = v2
    Delegates = {v1, v2}
    StakingLedgers <- MCStakingLedgers
    ACCOUNT_BATCH_SIZE = 2
    MaxDigests = 3
    Voters = {v1, v2}
    Chains <- MCChains
    Targets <- MCTargets
    Index = {1, 2}
    VOTE_ACTION_BATCH_SIZE = 2
    MaxProofs = 2
    Considered <- MCConsidered
INVARIANTS
    CompleteProofsDelegateAll
    CompleteProofsTallyTheBallot
    FoundIsPassed
    TallyCountsAccounts
CHECK_DEADLOCK FALSE
