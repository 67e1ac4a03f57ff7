SPECIFICATION FeedSpec
CONSTANTS
    Transactions = {t1, t2}
    Rows = {r1, r2, r3}
    NoTransaction = NoTransaction
    MaxLastValue = 6
    Limit = 2
INVARIANTS
    NothingMissed
PROPERTIES
    ImplementsFeed
CHECK_DEADLOCK FALSE
