------------------------------ MODULE AbuseMark ------------------------------
(***************************************************************************)
(* AbuseMark.sol: the agent-side record, written to the ERC-8004           *)
(* reputation registry, which is external: what matters of it is, for each *)
(* agent, how many entries it was given and their sum.                     *)
(***************************************************************************)
EXTENDS BlockTime, FiniteSets, Outcomes

CONSTANTS
    AgentIds,       \* ERC-8004 agent ids (0 is not one)
    SpecHashes,     \* hashes of refused task specs
    Cooldowns,      \* the cooldowns the owner may set
    DefaultCooldown \* the one the contract is deployed with

ASSUME AbuseMarkAssumption == Cooldowns \subseteq Nat /\ DefaultCooldown \in Cooldowns

VARIABLES
    marked,         \* the <<agent, spec>> pairs marked so far
    lastMarkAt,     \* 0: never
    marksOf,
    markCooldown,   \* seconds between two marks of one agent
    entriesOf,      \* ERC-8004: feedback entries given to the agent
    standingOf      \* ERC-8004: sum of their values

abuseMarkVars == <<marked, lastMarkAt, marksOf, markCooldown, entriesOf, standingOf>>

AbuseMarkTypeOK ==
    /\ marked \subseteq AgentIds \X SpecHashes
    /\ lastMarkAt \in [AgentIds -> Nat]
    /\ marksOf \in [AgentIds -> Nat]
    /\ markCooldown \in Cooldowns
    /\ entriesOf \in [AgentIds -> Nat]
    /\ standingOf \in [AgentIds -> Int]

AbuseMarkInit ==
    /\ marked = {}
    /\ lastMarkAt = [a \in AgentIds |-> 0]
    /\ marksOf = [a \in AgentIds |-> 0]
    /\ markCooldown = DefaultCooldown
    /\ entriesOf = [a \in AgentIds |-> 0]
    /\ standingOf = [a \in AgentIds |-> 0]

-----------------------------------------------------------------------------
giveFeedback(a, value) ==
    /\ entriesOf' = [entriesOf EXCEPT ![a] = @ + 1]
    /\ standingOf' = [standingOf EXCEPT ![a] = @ + value]

\* Mutants: no idempotency; a cooldown that has always passed.
NeverMarked(a, s) == FALSE
NeverCooling(a) == lastMarkAt[a] # 0 /\ now < lastMarkAt[a]

AlreadyMarked(a, s) == <<a, s>> \in marked

CoolingDown(a) == lastMarkAt[a] # 0 /\ now < lastMarkAt[a] + markCooldown

\* A repeat of a marked pair returns false and changes nothing, which is a
\* stuttering step; a mark inside the cooldown reverts.
mark(a, s) ==
    /\ ~AlreadyMarked(a, s)
    /\ ~CoolingDown(a)
    /\ marked' = marked \cup {<<a, s>>}
    /\ lastMarkAt' = [lastMarkAt EXCEPT ![a] = now]
    /\ marksOf' = [marksOf EXCEPT ![a] = @ + 1]
    /\ giveFeedback(a, -1)
    /\ UNCHANGED markCooldown

setMarkCooldown(c) ==
    /\ markCooldown' = c
    /\ UNCHANGED <<marked, lastMarkAt, marksOf, entriesOf, standingOf>>

\* Mutant: the sign of a rejected dispute is lost.
agentAlwaysGains(o) == 1

\* A dispute the owner rejected counts against the agent; a payment, or a
\* dispute upheld, counts for it.
agentValue(o) == IF o = RESOLVED_TO_WORKER THEN -1 ELSE 1

outcome(a, o) ==
    /\ giveFeedback(a, agentValue(o))
    /\ UNCHANGED <<marked, lastMarkAt, marksOf, markCooldown>>

-----------------------------------------------------------------------------
\* A refused spec marks an agent once however often it is retried: the
\* counter the API and the dashboard read is the number of distinct refused
\* specs.
MarksAreDistinct ==
    \A a \in AgentIds :
        marksOf[a] = Cardinality({s \in SpecHashes : <<a, s>> \in marked})

\* The cooldown paces marks: an agent with k marks has been known for at
\* least k - 1 of the shortest cooldown the owner ever allowed, whatever the
\* operator's retries.
MarksArePaced ==
    \A a \in AgentIds : marksOf[a] # 0 =>
        \E c \in Cooldowns : lastMarkAt[a] > (marksOf[a] - 1) * c
==============================================================================
