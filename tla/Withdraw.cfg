SPECIFICATION Spec
CONSTANTS
    r1 = r1  r2 = r2  r3 = r3  alice = alice  wallet = wallet
    Treasury = Treasury
    Invocations = {r1, r2, r3}
    Pairs <- MCPairs
    Calls <- MCCalls
    maxAttempts = 2
    FeeLevels = {0, 1}
    Nobody = Nobody
    NoNonce = NoNonce
    NoPair = NoPair
    NoRow = NoRow
    WITHDRAW_FEE_BPS = 200
    MIN_WITHDRAW_USDC = 100
INVARIANTS TypeOK FeeOnlyAfterPayout RowIsTrue HashIsKept NoGap OneDriver
SYMMETRY Requests
CHECK_DEADLOCK FALSE
