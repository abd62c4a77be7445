SPECIFICATION FairSpec
CONSTANTS
    Workers = {w1}
    NoAddress = NoAddress
    Slots = {Sweeper, s1}
    Sweeper = Sweeper
    claimTTL = 1
    submitTTL = 1
    disputeWindow = 1
    LastEntry = 3
    MaxTime = 5
INVARIANTS TypeOK FinalRowsAreTrue
PROPERTIES RowsSettle
CHECK_DEADLOCK FALSE
