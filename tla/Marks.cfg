SPECIFICATION Spec
CONSTANTS
    Requests = {r1, r2, r3}
    AgentIds = {a1}
    SpecHashes = {s1, s2}
    Cooldowns = {1, 2}
    DefaultCooldown = 2
    MaxTime = 3
SYMMETRY Symmetry
INVARIANTS MarksAreDistinct MarksArePaced MarkedRowsAreMarksOrBeaten
