SPECIFICATION FairSpec
CONSTANTS
    w1 = w1  w2 = w2  n1 = n1  n2 = n2  b1 = b1  b2 = b2  a1 = a1  s1 = s1
    Workers = {w1, w2}
    Nullifiers = {n1, n2}
    Buyers = {b1, b2}
    AgentIds = {a1}
    NoHuman = NoHuman
    NoAddress = NoAddress
    NoAgent = NoAgent
    Escrow = Escrow
    Relayer = Relayer
    Treasury = Treasury
    Attestations <- MCAttestations
    Seedings = {}
    Resettable = {}
    Allowlistable = {}
    SpecHashes = {}
    Cooldowns = {1}
    DefaultCooldown = 1
    Rated <- MCHumans
    Raters <- MCRaters
    Endowment <- MCEndowment
    PostParams <- MCPostParams
    FEE_BPS = 1500
    MIN_TASK_AMOUNT = 7
    MAX_TASK_AMOUNT = 7
    CLAIM_COOLDOWN = 1
    MIN_WINDOW = 1
    MAX_WINDOW = 2
    maxOpenTasksPerBuyer = 1
    MaxTasks = 2
    MaxTime = 5
    LastEntry = 2
PROPERTIES EveryTaskSettles
