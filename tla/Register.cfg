SPECIFICATION Spec
CONSTANTS
    n1 = n1  n2 = n2  n3 = n3  w1 = w1  w2 = w2  r1 = r1  r2 = r2  r3 = r3
    Nullifiers = {n1, n2, n3}
    Workers = {w1, w2}
    Requests = {r1, r2, r3}
    NoHuman = NoHuman
    NoAddress = NoAddress
    Attestations <- MCAttestations
    Seedings <- MCSeedings
    Resettable = {n1, n2, n3}
    DEADLINE_S = 0
    NotVerified = NotVerified
    NULL = NULL
    MaxTime = 2
SYMMETRY Alike
INVARIANTS TypeOK BoundOrBeaten LockedOutOnlyByLoss SessionsAreOfWorkers SessionsHaveRows
CHECK_DEADLOCK FALSE
