SPECIFICATION Spec
CONSTANTS
    p1 = p1
    Requests = {r1, r2, r3}
    Nonces = {n1, n2}
    Payers = {p1}
    PayerOf <- MCPayerOf
    MAX_OPEN_TASKS = 2
    DAILY_CAP = 2
SYMMETRY Symmetry
INVARIANTS ChargedHasTask ReservationsAreHeld CompletedHasRow FloatIsAccountedFor SpendIsRecorded SecondTaskNeedsARelease
PROPERTIES ChargesAreKept
CHECK_DEADLOCK FALSE
