------------------------------ MODULE FakeChain ------------------------------
(***************************************************************************)
(* packages/chain/src/fake.ts: the chain in memory that every route test,  *)
(* every lifecycle test and the demo harness run against, said to have the *)
(* contracts' rules and the contracts' revert names.  Each write is one    *)
(* synchronous body that checks before it mutates, so one action; a call   *)
(* it refuses leaves nothing behind, and the name it refuses with is the   *)
(* method's ...Refusal.  Its maps are partial functions where the code     *)
(* asks whether a key is there, and total with the default of `?? 0n`      *)
(* where it does not.                                                      *)
(*                                                                         *)
(* Of the log only the events a record is made of are kept: Feedback,      *)
(* Outcome and Marked.  The test controls failNextWith and setWorker, the  *)
(* recorded calls, hashes and block numbers are left out.                  *)
(***************************************************************************)
EXTENDS Integers, FiniteSets, Functions, Outcomes

CONSTANTS
    Workers, Nullifiers, NoHuman, NoAddress, Attestations, Buyers, NoAgent,
    AgentIds, SpecHashes, Raters, Escrow, Relayer, Treasury,
    Endowment,          \* what mintUsdc gave each account
    \* What a test may call the writes with, 0 for a worker, a nullifier or a
    \* buyer included.
    PostParams, Seedings, Resettable, Allowlistable, Cooldowns, DefaultCooldown,
    FEE_BPS, MIN_TASK_AMOUNT, MAX_TASK_AMOUNT, CLAIM_COOLDOWN, MIN_WINDOW,
    MAX_WINDOW, maxOpenTasksPerBuyer,
    MaxTasks, MaxTime   \* model bounds: tasks ever posted, the last second

Accounts == Workers \cup Buyers \cup {Escrow, Relayer, Treasury}

\* The keys of the maps: 0 is one like another.
Holders == Workers \cup {NoAddress}
Posters == Buyers \cup {NoAddress}
Anyone == Accounts \cup {NoAddress}
Humans == Nullifiers \cup {NoHuman}

\* The bytes that may come with a registration: the verifier's signature over
\* it, another of the verifier's, somebody else's, or none.
Signed == {"signed", "signed again"}
Signatures == Signed \cup {"forged", "empty"}

\* Nobody shares an address with the escrow, and 0 is nobody's.
ASSUME FakeAssumption ==
    /\ NoHuman \notin Nullifiers /\ NoAgent \notin AgentIds
    /\ Escrow \notin Workers \cup Buyers \cup {Relayer, Treasury}
    /\ NoAddress \notin Accounts
    /\ Endowment \in [Anyone -> Nat] /\ Endowment[Escrow] = 0
    /\ Raters = AgentIds \cup Buyers
    /\ Attestations \subseteq
          [nullifier : Humans, worker : Holders, deadline : Nat, signature : Signatures]
    /\ PostParams \subseteq
          [buyer : Posters, buyerAgentId : AgentIds \cup {NoAgent}, amount : Nat,
           claimTTL : Nat, submitTTL : Nat, disputeWindow : Nat]
    /\ Seedings \subseteq Holders \X Humans
    /\ Resettable \subseteq Humans /\ Allowlistable \subseteq Posters
    /\ Cooldowns \subseteq Nat /\ DefaultCooldown \in Cooldowns
    /\ {FEE_BPS, MIN_TASK_AMOUNT, MAX_TASK_AMOUNT, CLAIM_COOLDOWN, MIN_WINDOW,
        MAX_WINDOW, maxOpenTasksPerBuyer, MaxTasks} \subseteq Nat
    /\ MaxTime \in Nat \ {0}

VARIABLES
    clock, tasks, taskCounter, balances, openTasks, activeClaims, cooldowns,
    workers, workerByNullifier, usedAttestations, allowlist, isPaused,
    reputation, marks, lastMarks, markCounts, cooldownSeconds, log

taskVars == <<tasks, taskCounter, balances, openTasks, activeClaims, cooldowns>>
peopleVars == <<workers, workerByNullifier, usedAttestations>>
ruleVars == <<clock, allowlist, isPaused, cooldownSeconds>>
markVars == <<marks, lastMarks, markCounts>>
recordVars == <<reputation, log>>
vars == <<taskVars, peopleVars, ruleVars, markVars, recordVars>>

Init ==
    /\ clock = 1
    /\ tasks = <<>> /\ taskCounter = 0
    /\ balances = Endowment
    /\ openTasks = [b \in Posters |-> 0]
    /\ activeClaims = [w \in Holders |-> 0]
    /\ cooldowns = [w \in Holders |-> 0]
    /\ workers = <<>> /\ workerByNullifier = <<>> /\ usedAttestations = {}
    /\ allowlist = {} /\ isPaused = FALSE
    /\ reputation = [n \in Humans |->
          [score |-> 0, completed |-> 0, distinctRaters |-> 0, slots |-> <<>>]]
    /\ marks = {}
    /\ lastMarks = [a \in AgentIds |-> 0] /\ markCounts = [a \in AgentIds |-> 0]
    /\ cooldownSeconds = DefaultCooldown
    /\ log = {}

-----------------------------------------------------------------------------
(******************************* Internals *********************************)

Accepted == "passes"

\* Map.set and Map.delete.
Put(map, key, value) ==
    [k \in DOMAIN map \cup {key} |-> IF k = key THEN value ELSE map[k]]
Without(map, key) == Restrict(map, DOMAIN map \ {key})

credit(b, to, units) == [b EXCEPT ![to] = @ + units]
debit(b, from, units) == [b EXCEPT ![from] = @ - units]

feeOn(amount) == (amount * FEE_BPS) \div 10000

stateOf(t) == IF t \in DOMAIN tasks THEN tasks[t].state ELSE "None"
isSeeded(w) == w \in DOMAIN workers /\ workers[w].seeded
nullifierFor(w) == IF w \in DOMAIN workers THEN workers[w].nullifier ELSE NoHuman
raterKey(task) == IF task.buyerAgentId # NoAgent THEN task.buyerAgentId ELSE task.buyer

\* Mutant: the slot of a settled or displaced worker is kept.
claimKept(w) == activeClaims
clearClaim(w) == [activeClaims EXCEPT ![w] = 0]

closeTask(b) == [openTasks EXCEPT ![b] = IF @ > 0 THEN @ - 1 ELSE @]

outcomeValue(o) == IF o = RESOLVED_TO_BUYER THEN -1 ELSE 1

\* A repeat from the same rater updates its slot and does not add a voice.
recorded(record, key, o) ==
    LET newRater == key \notin DOMAIN record.slots IN
    [score |-> record.score + outcomeValue(o)
                  - (IF newRater THEN 0 ELSE outcomeValue(record.slots[key])),
     completed |-> record.completed
                      + (IF o \in {PAID, RESOLVED_TO_WORKER} THEN 1 ELSE 0),
     distinctRaters |-> record.distinctRaters + (IF newRater THEN 1 ELSE 0),
     slots |-> Put(record.slots, key, o)]

\* The Feedback of a settlement, and the Outcome if the buyer is an agent.
feedback(t, o) ==
    LET task == tasks[t]
        nullifier == nullifierFor(task.worker)
    IN  /\ reputation' =
              [reputation EXCEPT ![nullifier] = recorded(@, raterKey(task), o)]
        /\ log' = log
              \cup {[name |-> "Feedback", taskId |-> t, outcome |-> o]}
              \cup {[name |-> "Outcome", agentId |-> a, taskId |-> t, outcome |-> o] :
                       a \in {task.buyerAgentId} \ {NoAgent}}
-----------------------------------------------------------------------------
(***************************** Escrow writes *******************************)

\* post and postAsBuyer differ in who pays, and postAsBuyer asks first who sends it.
postRefusal(p, payer, goodType) ==
    IF payer \notin {p.buyer, Relayer} THEN "NotBuyer"
    ELSE IF isPaused THEN "EnforcedPause"
    ELSE IF p.amount > MAX_TASK_AMOUNT \/ p.amount < MIN_TASK_AMOUNT THEN "AmountOutOfRange"
    ELSE IF openTasks[p.buyer] >= maxOpenTasksPerBuyer THEN "OverOpenCap"
    ELSE IF ~goodType THEN "BadTaskType"
    ELSE IF balances[payer] < p.amount + feeOn(p.amount) THEN "ERC20InsufficientBalance"
    ELSE Accepted

postFrom(p, payer) ==
    LET total == p.amount + feeOn(p.amount) IN
    /\ postRefusal(p, payer, TRUE) = Accepted /\ taskCounter < MaxTasks
    /\ balances' = credit(debit(balances, payer, total), Escrow, total)
    /\ taskCounter' = taskCounter + 1
    /\ tasks' = Put(tasks, taskCounter + 1,
          [amount |-> p.amount, fee |-> feeOn(p.amount), buyer |-> p.buyer,
           buyerAgentId |-> p.buyerAgentId, worker |-> NoAddress, state |-> "Open",
           postedAt |-> clock, claimedAt |-> 0, submittedAt |-> 0,
           claimTTL |-> p.claimTTL, submitTTL |-> p.submitTTL,
           disputeWindow |-> p.disputeWindow])
    /\ openTasks' = [openTasks EXCEPT ![p.buyer] = @ + 1]
    /\ UNCHANGED <<activeClaims, cooldowns, peopleVars, ruleVars, markVars, recordVars>>

\* Mutant: the task is looked at before the cooldown.
claimStateFirst(t, w) ==
    IF isPaused THEN "EnforcedPause"
    ELSE IF w \notin DOMAIN workers THEN "NotWorker"
    ELSE IF activeClaims[w] # 0 THEN "HasActiveClaim"
    ELSE IF stateOf(t) \notin {"Claimed", "Open"} THEN "BadState"
    ELSE IF clock < cooldowns[w] THEN "InCooldown"
    ELSE IF isSeeded(w) /\ tasks[t].buyer \notin allowlist THEN "SeededCannotClaimExternal"
    ELSE IF stateOf(t) = "Claimed" /\ clock =< tasks[t].claimedAt + tasks[t].claimTTL
    THEN "AlreadyClaimed"
    ELSE Accepted

claimRefusal(t, w) ==
    IF isPaused THEN "EnforcedPause"
    ELSE IF w \notin DOMAIN workers THEN "NotWorker"
    ELSE IF activeClaims[w] # 0 THEN "HasActiveClaim"
    ELSE IF clock < cooldowns[w] THEN "InCooldown"
    ELSE IF t \notin DOMAIN tasks THEN "BadState"
    ELSE IF isSeeded(w) /\ tasks[t].buyer \notin allowlist THEN "SeededCannotClaimExternal"
    ELSE IF stateOf(t) = "Claimed" /\ clock =< tasks[t].claimedAt + tasks[t].claimTTL
    THEN "AlreadyClaimed"
    ELSE IF stateOf(t) \notin {"Claimed", "Open"} THEN "BadState"
    ELSE Accepted

\* The next claimant clears a stale claim on the way past.
claimBy(t, w) ==
    /\ claimRefusal(t, w) = Accepted
    /\ LET stale == tasks[t].worker
           freed == IF stateOf(t) = "Claimed" THEN clearClaim(stale) ELSE activeClaims
       IN /\ cooldowns' = IF stateOf(t) = "Claimed"
                          THEN [cooldowns EXCEPT ![stale] = clock + CLAIM_COOLDOWN]
                          ELSE cooldowns
          /\ activeClaims' = [freed EXCEPT ![w] = t]
    /\ tasks' = [tasks EXCEPT ![t].state = "Claimed", ![t].worker = w,
                              ![t].claimedAt = clock]
    /\ UNCHANGED <<taskCounter, balances, openTasks, peopleVars, ruleVars, markVars,
          recordVars>>

releaseClaimRefusal(t, w) ==
    IF stateOf(t) # "Claimed" THEN "BadState"
    ELSE IF tasks[t].worker # w THEN "NotClaimant"
    ELSE Accepted

\* Giving up inside the TTL is free: no cooldown.
releaseClaimBy(t, w) ==
    /\ releaseClaimRefusal(t, w) = Accepted
    /\ tasks' = [tasks EXCEPT ![t].state = "Open", ![t].worker = NoAddress,
                              ![t].claimedAt = 0]
    /\ activeClaims' = clearClaim(w)
    /\ UNCHANGED <<taskCounter, balances, openTasks, cooldowns, peopleVars, ruleVars,
          markVars, recordVars>>

submitRefusal(t, w) ==
    IF stateOf(t) # "Claimed" THEN "BadState"
    ELSE IF tasks[t].worker # w THEN "NotClaimant"
    ELSE IF clock > tasks[t].claimedAt + tasks[t].submitTTL THEN "SubmitWindowClosed"
    ELSE Accepted

submitBy(t, w) ==
    /\ submitRefusal(t, w) = Accepted
    /\ tasks' = [tasks EXCEPT ![t].state = "Submitted", ![t].submittedAt = clock]
    /\ UNCHANGED <<taskCounter, balances, openTasks, activeClaims, cooldowns,
          peopleVars, ruleVars, markVars, recordVars>>

disputeRefusal(t) ==
    IF stateOf(t) # "Submitted" THEN "BadState"
    ELSE IF clock >= tasks[t].submittedAt + tasks[t].disputeWindow
    THEN "DisputeWindowClosed"
    ELSE Accepted

dispute(t) ==
    /\ disputeRefusal(t) = Accepted
    /\ tasks' = [tasks EXCEPT ![t].state = "Disputed"]
    /\ UNCHANGED <<taskCounter, balances, openTasks, activeClaims, cooldowns,
          peopleVars, ruleVars, markVars, recordVars>>

\* The task is over: its slot and its place are freed, and the escrow pays
\* the amount to one account and the fee to another.
Settle(t, final, toAmount, toFee) ==
    LET task == tasks[t] IN
    /\ tasks' = [tasks EXCEPT ![t].state = final]
    /\ activeClaims' = clearClaim(task.worker)
    /\ openTasks' = closeTask(task.buyer)
    /\ balances' = credit(credit(debit(balances, Escrow, task.amount + task.fee),
                                 toAmount, task.amount), toFee, task.fee)
    /\ UNCHANGED <<taskCounter, cooldowns, peopleVars, ruleVars, markVars>>

release(t) == Settle(t, "Released", tasks[t].worker, Treasury) /\ feedback(t, PAID)

approveRefusal(t) == IF stateOf(t) # "Submitted" THEN "BadState" ELSE Accepted

approve(t) == approveRefusal(t) = Accepted /\ release(t)

autoReleaseRefusal(t) ==
    IF stateOf(t) # "Submitted" THEN "BadState"
    ELSE IF clock < tasks[t].submittedAt + tasks[t].disputeWindow
    THEN "DisputeWindowOpen"
    ELSE Accepted

autoRelease(t) == autoReleaseRefusal(t) = Accepted /\ release(t)

resolveRefusal(t) == IF stateOf(t) # "Disputed" THEN "BadState" ELSE Accepted

\* The treasury takes nothing from a task that went wrong.
resolve(t, toBuyer) ==
    /\ resolveRefusal(t) = Accepted
    /\ Settle(t, "Resolved", IF toBuyer THEN tasks[t].buyer ELSE tasks[t].worker,
              tasks[t].buyer)
    /\ feedback(t, IF toBuyer THEN RESOLVED_TO_BUYER ELSE RESOLVED_TO_WORKER)

expireRefusal(t) ==
    IF \/ stateOf(t) = "Open" /\ clock > tasks[t].postedAt + tasks[t].claimTTL
       \/ stateOf(t) = "Claimed" /\ clock > tasks[t].claimedAt + tasks[t].submitTTL
    THEN Accepted
    ELSE IF stateOf(t) \in {"Open", "Claimed"} THEN "NotExpired" ELSE "BadState"

\* The buyer's deadline passed: no cooldown for the worker.
expire(t) ==
    /\ expireRefusal(t) = Accepted
    /\ Settle(t, "Refunded", tasks[t].buyer, tasks[t].buyer)
    /\ UNCHANGED recordVars

-----------------------------------------------------------------------------
(************************ Owner, registry, marks, time *********************)

\* A call that sets what is set already is a stutter, here and in the next.
setPaused(p) ==
    /\ isPaused # p
    /\ isPaused' = p
    /\ UNCHANGED <<taskVars, peopleVars, clock, allowlist, cooldownSeconds, markVars,
          recordVars>>

setAllowlistedBuyer(b, allowed) ==
    /\ (b \in allowlist) # allowed
    /\ allowlist' = IF allowed THEN allowlist \cup {b} ELSE allowlist \ {b}
    /\ UNCHANGED <<taskVars, peopleVars, clock, isPaused, cooldownSeconds, markVars,
          recordVars>>

setWorker(w, n, seeded) ==
    /\ workers' = Put(workers, w, [nullifier |-> n, seeded |-> seeded])
    /\ workerByNullifier' = Put(workerByNullifier, n, w)

\* Nothing is asked of the address or of the nullifier, and any attestation
\* that is not empty stands for a valid signature.
registerForRefusal(a) ==
    IF a.nullifier \in DOMAIN workerByNullifier THEN "DuplicateNullifier"
    ELSE IF a.worker \in DOMAIN workers THEN "WorkerAlreadyBound"
    ELSE IF clock > a.deadline THEN "AttestationExpired"
    ELSE IF a.signature = "empty" THEN "BadAttestation"
    ELSE IF a \in usedAttestations THEN "AttestationUsed"
    ELSE Accepted

registerFor(a) ==
    /\ registerForRefusal(a) = Accepted
    /\ usedAttestations' = usedAttestations \cup {a}
    /\ setWorker(a.worker, a.nullifier, FALSE)
    /\ UNCHANGED <<taskVars, ruleVars, markVars, recordVars>>

\* Here nothing is asked at all.
seedWorker(w, n) ==
    /\ setWorker(w, n, TRUE)
    /\ UNCHANGED <<usedAttestations, taskVars, ruleVars, markVars, recordVars>>

resetWorkerRefusal(n) ==
    IF n \notin DOMAIN workerByNullifier THEN "UnknownNullifier" ELSE Accepted

resetWorker(n) ==
    /\ resetWorkerRefusal(n) = Accepted
    /\ workers' = Without(workers, workerByNullifier[n])
    /\ workerByNullifier' = Without(workerByNullifier, n)
    /\ UNCHANGED <<usedAttestations, taskVars, ruleVars, markVars, recordVars>>

markRefusal(a, s) ==
    IF <<a, s>> \in marks THEN Accepted
    ELSE IF lastMarks[a] # 0 /\ clock < lastMarks[a] + cooldownSeconds THEN "MarkCooldown"
    ELSE Accepted

\* A repeat of a mark already written answers written: false and does nothing.
mark(a, s) ==
    /\ markRefusal(a, s) = Accepted
    /\ <<a, s>> \notin marks
    /\ marks' = marks \cup {<<a, s>>}
    /\ lastMarks' = [lastMarks EXCEPT ![a] = clock]
    /\ markCounts' = [markCounts EXCEPT ![a] = @ + 1]
    /\ log' = log \cup {[name |-> "Marked", agentId |-> a, specHash |-> s]}
    /\ UNCHANGED <<taskVars, peopleVars, ruleVars, reputation>>

setMarkCooldown(c) ==
    /\ cooldownSeconds' = c
    /\ UNCHANGED <<taskVars, peopleVars, clock, allowlist, isPaused, markVars, recordVars>>

\* There is no other way time passes here; a longer warp is several of these.
warp ==
    /\ clock < MaxTime
    /\ clock' = clock + 1
    /\ UNCHANGED <<taskVars, peopleVars, allowlist, isPaused, cooldownSeconds, markVars,
          recordVars>>

TaskIds == 1 .. MaxTasks

\* A write of one task.
OnTask(t) ==
    \/ \E w \in Holders : claimBy(t, w) \/ releaseClaimBy(t, w) \/ submitBy(t, w)
    \/ dispute(t) \/ approve(t) \/ autoRelease(t) \/ expire(t)
    \/ \E toBuyer \in BOOLEAN : resolve(t, toBuyer)

Next ==
    \/ \E p \in PostParams : \E payer \in {Relayer, p.buyer} : postFrom(p, payer)
    \/ \E t \in TaskIds : OnTask(t)
    \/ \E p \in BOOLEAN : setPaused(p)
    \/ \E b \in Allowlistable, allowed \in BOOLEAN : setAllowlistedBuyer(b, allowed)
    \/ \E a \in Attestations : registerFor(a)
    \/ \E s \in Seedings : seedWorker(s[1], s[2])
    \/ \E n \in Resettable : resetWorker(n)
    \/ \E a \in AgentIds, s \in SpecHashes : mark(a, s)
    \/ \E c \in Cooldowns : setMarkCooldown(c)
    \/ warp

Spec == Init /\ [][Next]_vars

-----------------------------------------------------------------------------
(************************ The contracts it stands for **********************)

NoRecord == [nullifier |-> NoHuman, seeded |-> FALSE, bound |-> FALSE]

NoTerms == [buyer |-> NoAddress, buyerAgentId |-> NoAgent, amount |-> 0, fee |-> 0,
            postedAt |-> 0, claimTTL |-> 0, submitTTL |-> 0, disputeWindow |-> 0]

\* Each mapping of the contracts as a test reads it here, at every key that
\* is not 0; a task nobody posted has the values getTask gives for one.
recordsMap == [w \in Workers |->
    IF w \in DOMAIN workers
    THEN [nullifier |-> workers[w].nullifier, seeded |-> workers[w].seeded, bound |-> TRUE]
    ELSE NoRecord]
workerOfMap == [n \in Nullifiers |->
    IF n \in DOMAIN workerByNullifier THEN workerByNullifier[n] ELSE NoAddress]
openTasksMap == [b \in Buyers |-> openTasks[b]]
activeClaimMap == [w \in Workers |-> activeClaims[w]]
cooldownMap == [w \in Workers |-> cooldowns[w]]
usdcMap == [x \in Accounts |-> balances[x]]
endowmentMap == [x \in Accounts |-> Endowment[x]]
allowlistedMap == [b \in Buyers |-> b \in allowlist]

scoreMap == [n \in DOMAIN reputation |-> reputation[n].score]
completedMap == [n \in DOMAIN reputation |-> reputation[n].completed]
ratersMap == [n \in DOMAIN reputation |-> reputation[n].distinctRaters]
slotMap == [n \in DOMAIN reputation |-> [r \in Raters |->
    IF r \in DOMAIN reputation[n].slots THEN reputation[n].slots[r] ELSE NoOutcome]]

stateMap == [t \in TaskIds |-> stateOf(t)]
workerMap == [t \in TaskIds |-> IF t \in DOMAIN tasks THEN tasks[t].worker ELSE NoAddress]
claimedAtMap == [t \in TaskIds |-> IF t \in DOMAIN tasks THEN tasks[t].claimedAt ELSE 0]
submittedAtMap == [t \in TaskIds |-> IF t \in DOMAIN tasks THEN tasks[t].submittedAt ELSE 0]

\* What a post fixes of a task for good.
termsOf(task) ==
    [buyer |-> task.buyer, buyerAgentId |-> task.buyerAgentId, amount |-> task.amount,
     fee |-> task.fee, postedAt |-> task.postedAt, claimTTL |-> task.claimTTL,
     submitTTL |-> task.submitTTL, disputeWindow |-> task.disputeWindow]
termsMap == [t \in TaskIds |-> IF t \in DOMAIN tasks THEN termsOf(tasks[t]) ELSE NoTerms]

\* The verdict of a task, and what the ERC-8004 registry would have been told
\* of an agent.
Verdicts(t) == {e \in log : e.name = "Feedback" /\ e.taskId = t}
verdictMap == [t \in TaskIds |->
    IF Verdicts(t) = {} THEN NoOutcome ELSE (CHOOSE e \in Verdicts(t) : TRUE).outcome]

Marked(a) == {e \in log : e.name = "Marked" /\ e.agentId = a}
Judged(a, codes) ==
    {e \in log : e.name = "Outcome" /\ e.agentId = a /\ e.outcome \in codes}
entriesMap == [a \in AgentIds |->
    Cardinality(Marked(a)) + Cardinality(Judged(a, OutcomeCodes))]
standingMap == [a \in AgentIds |->
    Cardinality(Judged(a, {PAID, RESOLVED_TO_BUYER}))
        - Cardinality(Judged(a, {RESOLVED_TO_WORKER})) - Cardinality(Marked(a))]

\* What the verifier signs; the contracts' digest is of this alone.
Message(a) == [nullifier |-> a.nullifier, worker |-> a.worker, deadline |-> a.deadline]

\* The verifier signed it, and for somebody.
Genuine(a) == a.signature \in Signed /\ a.worker # NoAddress /\ a.nullifier # NoHuman

spentMap == {Message(a) : a \in {x \in usedAttestations : Genuine(x)}}

Contract == INSTANCE EscrowReverts WITH
    Attestations <- {Message(a) : a \in {x \in Attestations : Genuine(x)}},
    PostParams <- {p \in PostParams : p.buyer # NoAddress},
    Seedings <- Seedings \cap (Workers \X Nullifiers),
    Resettable <- Resettable \cap Nullifiers, Allowlistable <- Allowlistable \cap Buyers,
    Endowment <- endowmentMap, LastEntry <- MaxTime, Rated <- Humans, now <- clock,
    records <- recordsMap, workerOf <- workerOfMap, usedDigest <- spentMap,
    score <- scoreMap, completed <- completedMap, distinctRaters <- ratersMap,
    slotOf <- slotMap, marked <- marks, lastMarkAt <- lastMarks, marksOf <- markCounts,
    markCooldown <- cooldownSeconds, entriesOf <- entriesMap, standingOf <- standingMap,
    state <- stateMap, worker <- workerMap, claimedAt <- claimedAtMap,
    submittedAt <- submittedAtMap, terms <- termsMap, verdict <- verdictMap,
    taskCount <- taskCounter, openTasksOf <- openTasksMap,
    activeClaimOf <- activeClaimMap, cooldownUntil <- cooldownMap,
    allowlistedBuyer <- allowlistedMap, paused <- isPaused, usdc <- usdcMap

-----------------------------------------------------------------------------
(**************** What the fake takes and the contracts refuse *************)

Windows(p) == {p.claimTTL, p.submitTTL, p.disputeWindow}

InRange(p) == Windows(p) \subseteq MIN_WINDOW .. MAX_WINDOW

\* For buyer 0, or with a window out of range.
PostUnchecked(p) == p.buyer = NoAddress \/ ~InRange(p)

\* Over a binding, of address 0 or with nullifier 0.
SeedUnchecked(w, n) ==
    \/ w \in DOMAIN workers \/ n \in DOMAIN workerByNullifier
    \/ w = NoAddress \/ n = NoHuman

\* A message spent with other bytes: the fake's digest is of both.
Respent(a) == Message(a) \in spentMap /\ a \notin usedAttestations

\* For address 0 or nullifier 0, not signed by the verifier, or spent already.
RegisterUnchecked(a) == ~Genuine(a) \/ Respent(a)

PostsUnchecked ==
    \E p \in PostParams : \E payer \in {Relayer, p.buyer} :
        PostUnchecked(p) /\ postFrom(p, payer)

SeedsUnchecked == \E s \in Seedings : SeedUnchecked(s[1], s[2]) /\ seedWorker(s[1], s[2])

RegistersUnchecked == \E a \in Attestations : RegisterUnchecked(a) /\ registerFor(a)

\* Nullifier 0 is nobody's in the contracts, so nobody could reset it.
ResetsNobody == NoHuman \in Resettable /\ resetWorker(NoHuman)

\* Tasks the contracts cannot have: for buyer 0, or held by worker 0.
OfNobody(t) ==
    /\ t \in DOMAIN tasks
    /\ \/ tasks[t].buyer = NoAddress
       \/ tasks[t].state # "Open" /\ tasks[t].worker = NoAddress

WritesForNobody ==
    \E t \in TaskIds : claimBy(t, NoAddress) \/ (OfNobody(t) /\ OnTask(t))

\* "The escrow state machine, in memory, with the same rules" (fake.ts:70):
\* whatever sequence of calls a test makes, the fake does what the contracts
\* would do, to the task, its worker, the money and both records, but for the
\* writes above, and after those as well.  What a route test shows of the
\* state it leaves is so shown of the chain.
DoesWhatContractsDo ==
    /\ Contract!Init
    /\ [][WritesForNobody \/ Contract!Next \/ PostsUnchecked \/ SeedsUnchecked
             \/ RegistersUnchecked \/ ResetsNobody]_(Contract!vars)

\* The contracts read such a nullifier as unbound.
BoundToNobody(n) ==
    n \in DOMAIN workerByNullifier /\ workerByNullifier[n] = NoAddress

\* "a fake that reports BadState where the contract reports InCooldown
\* teaches a route the wrong 409" (fake.ts:75): the fake refuses what the
\* contracts refuse, and by the same name, through every order of two
\* failing checks.  It is not so of the writes above, which the contracts
\* refuse, nor of a worker, a buyer or a binding that is 0's.  And the names
\* differ in four places, where the fake's order is not the contracts': a
\* seeded worker and an unknown task, a post of a bad type, a stranger's post
\* while paused, and an attestation that is spent or late and also for someone
\* already bound.
RefusesByTheSameName ==
    /\ \A t \in TaskIds, w \in Workers :
          /\ ~isSeeded(w) \/ (t \in DOMAIN tasks /\ tasks[t].buyer # NoAddress)
                => claimRefusal(t, w) = Contract!claimRevert(t, w)
          /\ releaseClaimRefusal(t, w) = Contract!releaseClaimRevert(t, w)
          /\ submitRefusal(t, w) = Contract!submitRevert(t, w)
    /\ \A t \in TaskIds :
          /\ disputeRefusal(t) = Contract!disputeRevert(t)
          /\ approveRefusal(t) = Contract!approveRevert(t)
          /\ autoReleaseRefusal(t) = Contract!autoReleaseRevert(t)
          /\ resolveRefusal(t) = Contract!resolveRevert(t)
          /\ expireRefusal(t) = Contract!expireRevert(t)
    /\ \A p \in PostParams, payer \in Buyers \cup {Relayer}, goodType \in BOOLEAN :
          LET fakes == postRefusal(p, payer, goodType)
              contracts == Contract!postRevert(p, payer, goodType)
          IN  IF PostUnchecked(p) THEN contracts # Accepted
              ELSE /\ fakes = Accepted <=> contracts = Accepted
                   /\ goodType /\ (~isPaused \/ payer \in {p.buyer, Relayer})
                         => fakes = contracts
    /\ \A n \in Nullifiers :
          ~BoundToNobody(n) => resetWorkerRefusal(n) = Contract!resetWorkerRevert(n)
    /\ \A a \in AgentIds, s \in SpecHashes : markRefusal(a, s) = Contract!markRevert(a, s)
    /\ \A s \in Seedings :
          BoundToNobody(s[2])
             \/ (SeedUnchecked(s[1], s[2]) <=> Contract!seedWorkerRevert(s[1], s[2]) # Accepted)
    /\ \A a \in Attestations :
          LET fakes == registerForRefusal(a)
              contracts == Contract!registerForRevert(Message(a), a.signature \in Signed)
              unbound == /\ a.nullifier \notin DOMAIN workerByNullifier
                         /\ a.worker \notin DOMAIN workers
              fresh == clock =< a.deadline /\ a \notin usedAttestations
              empty == a.signature = "empty" /\ Message(a) \notin spentMap
          IN  /\ RegisterUnchecked(a) => contracts # Accepted
              /\ unbound /\ empty /\ a.worker # NoAddress /\ a.nullifier # NoHuman =>
                    fakes = contracts
              /\ ~RegisterUnchecked(a) /\ ~BoundToNobody(a.nullifier) =>
                    /\ fakes = Accepted <=> contracts = Accepted
                    /\ unbound \/ fresh => fakes = contracts
==============================================================================
