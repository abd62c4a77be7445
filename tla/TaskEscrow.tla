----------------------------- MODULE TaskEscrow -----------------------------
(***************************************************************************)
(* TaskEscrow.sol, the money path of a task, together with the contracts   *)
(* it calls: WorkerRegistry (who may claim, and whose record an outcome    *)
(* goes to), Reputation and AbuseMark (the records a settlement writes)    *)
(* and USDC.  A transaction is atomic: each is one action, and one that    *)
(* would revert is not enabled.  Where the relayer and the account itself  *)
(* may both send a call (claim and claimFor, submit and submitFor, ...)    *)
(* the effect is the same and the action is one.                           *)
(*                                                                         *)
(* The Task struct is split: `terms` holds what _post fixes for good, and  *)
(* state, worker, claimedAt and submittedAt are the fields that change.    *)
(* Task type, spec hash, area and proof hash are payload and left out.     *)
(***************************************************************************)
EXTENDS WorkerRegistry, Reputation, AbuseMark

CONSTANTS
    Buyers, NoAgent,                \* NoAgent: buyerAgentId = 0
    Escrow, Relayer, Treasury,      \* the other USDC accounts
    Seedings,                       \* the rows the owner may seed: <<worker, nullifier>>
    Resettable, Allowlistable,      \* nullifiers it may reset, buyers it may allowlist
    Endowment,                      \* USDC of each account before the first post
    PostParams,                     \* the parameters a post may come with
    FEE_BPS, MIN_TASK_AMOUNT, MAX_TASK_AMOUNT,
    CLAIM_COOLDOWN, MIN_WINDOW, MAX_WINDOW, maxOpenTasksPerBuyer,
    MaxTasks,                       \* model bound: tasks ever posted
    LastEntry                       \* model bound: no post or claim after this time

Accounts == Workers \cup Buyers \cup {Escrow, Relayer, Treasury}

ASSUME EscrowAssumption ==
    /\ Rated = Humans
    /\ Raters = AgentIds \cup Buyers
    /\ NoAgent \notin AgentIds
    /\ Escrow \notin Workers \cup Buyers \cup {Relayer, Treasury}
    /\ NoAddress \notin Accounts
    /\ Endowment \in [Accounts -> Nat] /\ Endowment[Escrow] = 0
    /\ PostParams \subseteq
          [buyer : Buyers, buyerAgentId : AgentIds \cup {NoAgent}, amount : Nat,
           claimTTL : Nat, submitTTL : Nat, disputeWindow : Nat]
    /\ Seedings \subseteq Workers \X Nullifiers
    /\ Resettable \subseteq Nullifiers /\ Allowlistable \subseteq Buyers
    /\ {FEE_BPS, MIN_TASK_AMOUNT, MAX_TASK_AMOUNT, CLAIM_COOLDOWN, MIN_WINDOW,
        MAX_WINDOW, maxOpenTasksPerBuyer, MaxTasks, LastEntry} \subseteq Nat

VARIABLES
    state, worker, claimedAt, submittedAt,
    terms,
    verdict,            \* the outcome code of the task's Feedback event
    taskCount, openTasksOf, activeClaimOf, cooldownUntil, allowlistedBuyer,
    paused,
    usdc                \* USDC.balanceOf

settleVars == <<state, activeClaimOf, openTasksOf, usdc, verdict>>
taskVars == <<state, worker, claimedAt, submittedAt, terms, verdict, taskCount,
              openTasksOf, activeClaimOf, cooldownUntil, allowlistedBuyer, paused, usdc>>
vars == <<now, registryVars, reputationVars, abuseMarkVars, taskVars>>

TaskIds == 1 .. MaxTasks
NoTask == 0

States == {"None", "Open", "Claimed", "Submitted",
           "Released", "Refunded", "Disputed", "Resolved"}
Held == {"Claimed", "Submitted", "Disputed"}    \* a worker is on the task
Live == Held \cup {"Open"}                      \* the escrow holds its money
Final == {"Released", "Refunded", "Resolved"}

Terms == [buyer : Buyers \cup {NoAddress}, buyerAgentId : AgentIds \cup {NoAgent}, amount : Nat,
          fee : Nat, postedAt : Nat, claimTTL : Nat, submitTTL : Nat,
          disputeWindow : Nat]

NoTerms == [buyer |-> NoAddress, buyerAgentId |-> NoAgent, amount |-> 0, fee |-> 0,
            postedAt |-> 0, claimTTL |-> 0, submitTTL |-> 0, disputeWindow |-> 0]

TaskTypeOK ==
    /\ state \in [TaskIds -> States]
    /\ worker \in [TaskIds -> Workers \cup {NoAddress}]
    /\ claimedAt \in [TaskIds -> Nat]
    /\ submittedAt \in [TaskIds -> Nat]
    /\ taskCount \in 0 .. MaxTasks
    /\ terms \in [TaskIds -> Terms]
    /\ verdict \in [TaskIds -> OutcomeCodes \cup {NoOutcome}]
    /\ openTasksOf \in [Buyers -> Nat]
    /\ activeClaimOf \in [Workers -> TaskIds \cup {NoTask}]
    /\ cooldownUntil \in [Workers -> Nat]
    /\ allowlistedBuyer \in [Buyers -> BOOLEAN]
    /\ paused \in BOOLEAN
    /\ usdc \in [Accounts -> Nat]

\* Every field keeps its type; in particular no balance and no count of open
\* tasks ever goes below zero.
TypeOK ==
    /\ now \in Times
    /\ RegistryTypeOK /\ ReputationTypeOK /\ AbuseMarkTypeOK /\ TaskTypeOK

Init ==
    /\ ClockInit /\ RegistryInit /\ ReputationInit /\ AbuseMarkInit
    /\ state = [t \in TaskIds |-> "None"]
    /\ worker = [t \in TaskIds |-> NoAddress]
    /\ claimedAt = [t \in TaskIds |-> 0]
    /\ submittedAt = [t \in TaskIds |-> 0]
    /\ terms = [t \in TaskIds |-> NoTerms]
    /\ verdict = [t \in TaskIds |-> NoOutcome]
    /\ taskCount = 0
    /\ openTasksOf = [b \in Buyers |-> 0]
    /\ activeClaimOf = [w \in Workers |-> NoTask]
    /\ cooldownUntil = [w \in Workers |-> 0]
    /\ allowlistedBuyer = [b \in Buyers |-> FALSE]
    /\ paused = FALSE
    /\ usdc = Endowment

-----------------------------------------------------------------------------
(***************************** Money and time ******************************)

transfer(balance, from, to, amount) ==
    [balance EXCEPT ![from] = @ - amount, ![to] = @ + amount]

feeOn(amount) == (amount * FEE_BPS) \div 10000

Total(t) == terms[t].amount + terms[t].fee

windowOutOfRange(window) == window < MIN_WINDOW \/ window > MAX_WINDOW

\* Mutant: a token that does not revert.
unchecked(account, amount) == TRUE

\* USDC reverts a transfer the balance does not cover.
affords(account, amount) == usdc[account] >= amount

\* Each comparison is its own: no two functions share one in the code.
ClaimStale(t) == now > claimedAt[t] + terms[t].claimTTL
ListingExpired(t) == now > terms[t].postedAt + terms[t].claimTTL
CanSubmit(t) == now =< claimedAt[t] + terms[t].submitTTL
SubmitExpired(t) == now > claimedAt[t] + terms[t].submitTTL
\* Mutant: the buyer's last second is given to both.
DisputeIsInclusive(t) == now =< submittedAt[t] + terms[t].disputeWindow
CanDispute(t) == now < submittedAt[t] + terms[t].disputeWindow
DisputeWindowOver(t) == now >= submittedAt[t] + terms[t].disputeWindow

\* activeClaimOf and openTasksOf once a worker's slot, a buyer's place is given back.
\* Mutants: the index is not touched.
SlotKept(w) == activeClaimOf
PlaceKept(b) == openTasksOf

SlotFreed(w) ==
    IF w = NoAddress THEN activeClaimOf ELSE [activeClaimOf EXCEPT ![w] = NoTask]
PlaceFreed(b) == [openTasksOf EXCEPT ![b] = @ - 1]

-----------------------------------------------------------------------------
(******************************** Posting **********************************)

\* post: the relayer pays from its float for the x402 payer.
\* postAsBuyer: the buyer pays.
post(payer, p) ==
    LET t == taskCount + 1
        fee == feeOn(p.amount)
        lock == p.amount + fee
    IN  /\ ~paused /\ now =< LastEntry /\ taskCount < MaxTasks
        /\ MIN_TASK_AMOUNT =< p.amount /\ p.amount =< MAX_TASK_AMOUNT
        /\ ~windowOutOfRange(p.claimTTL)
        /\ ~windowOutOfRange(p.submitTTL)
        /\ ~windowOutOfRange(p.disputeWindow)
        /\ openTasksOf[p.buyer] < maxOpenTasksPerBuyer
        /\ affords(payer, lock)
        /\ taskCount' = t
        /\ terms' = [terms EXCEPT ![t] =
              [buyer |-> p.buyer, buyerAgentId |-> p.buyerAgentId, amount |-> p.amount,
               fee |-> fee, postedAt |-> now, claimTTL |-> p.claimTTL,
               submitTTL |-> p.submitTTL, disputeWindow |-> p.disputeWindow]]
        /\ state' = [state EXCEPT ![t] = "Open"]
        /\ openTasksOf' = [openTasksOf EXCEPT ![p.buyer] = @ + 1]
        /\ usdc' = transfer(usdc, payer, Escrow, lock)
        /\ UNCHANGED <<now, registryVars, reputationVars, abuseMarkVars, worker,
              claimedAt, submittedAt, verdict, activeClaimOf, cooldownUntil,
              allowlistedBuyer, paused>>

-----------------------------------------------------------------------------
(******************************** Claiming *********************************)

\* A task that was never posted has buyer 0, whom nobody allowlisted.
SeededOutside(t, w) ==
    isSeeded(w) /\ (terms[t].buyer \in Buyers => ~allowlistedBuyer[terms[t].buyer])

\* Mutant: _claim without HasActiveClaim.
MayClaimTwice(t, w) ==
    /\ isWorker(w)
    /\ now >= cooldownUntil[w]
    /\ ~SeededOutside(t, w)

\* What _claim asks of the claimant, whatever the task's state.
MayClaim(t, w) ==
    /\ isWorker(w)
    /\ activeClaimOf[w] = NoTask
    /\ now >= cooldownUntil[w]
    /\ ~SeededOutside(t, w)

TakeTask(t, w) ==
    /\ worker' = [worker EXCEPT ![t] = w]
    /\ state' = [state EXCEPT ![t] = "Claimed"]
    /\ claimedAt' = [claimedAt EXCEPT ![t] = now]
    /\ UNCHANGED <<now, registryVars, reputationVars, abuseMarkVars, submittedAt,
          terms, verdict, taskCount, openTasksOf, allowlistedBuyer, paused, usdc>>

claimOpen(t, w) ==
    /\ ~paused /\ now =< LastEntry
    /\ state[t] = "Open"
    /\ MayClaim(t, w)
    /\ activeClaimOf' = [activeClaimOf EXCEPT ![w] = t]
    /\ UNCHANGED cooldownUntil
    /\ TakeTask(t, w)

\* Lazy expiry: no keeper retires a stale claim, the claim that displaces it does.
claimStale(t, w) ==
    /\ ~paused /\ now =< LastEntry
    /\ state[t] = "Claimed" /\ ClaimStale(t)
    /\ MayClaim(t, w)
    /\ activeClaimOf' = [SlotFreed(worker[t]) EXCEPT ![w] = t]
    /\ cooldownUntil' = [cooldownUntil EXCEPT ![worker[t]] = now + CLAIM_COOLDOWN]
    /\ TakeTask(t, w)

\* Not gated by pause, and no cooldown: handing a task back is not a failure.
releaseClaim(t, w) ==
    /\ state[t] = "Claimed" /\ worker[t] = w
    /\ state' = [state EXCEPT ![t] = "Open"]
    /\ worker' = [worker EXCEPT ![t] = NoAddress]
    /\ claimedAt' = [claimedAt EXCEPT ![t] = 0]
    /\ activeClaimOf' = SlotFreed(w)
    /\ UNCHANGED <<now, registryVars, reputationVars, abuseMarkVars, submittedAt,
          terms, verdict, taskCount, openTasksOf, cooldownUntil, allowlistedBuyer,
          paused, usdc>>

-----------------------------------------------------------------------------
(************************* Submitting and disputing ************************)

\* The claimant's slot stays taken through Submitted and Disputed.
submit(t, w) ==
    /\ state[t] = "Claimed" /\ worker[t] = w
    /\ CanSubmit(t)
    /\ state' = [state EXCEPT ![t] = "Submitted"]
    /\ submittedAt' = [submittedAt EXCEPT ![t] = now]
    /\ UNCHANGED <<now, registryVars, reputationVars, abuseMarkVars, worker,
          claimedAt, terms, verdict, taskCount, openTasksOf, activeClaimOf,
          cooldownUntil, allowlistedBuyer, paused, usdc>>

\* Moves no money: the task waits for the owner.
dispute(t) ==
    /\ state[t] = "Submitted"
    /\ CanDispute(t)
    /\ state' = [state EXCEPT ![t] = "Disputed"]
    /\ UNCHANGED <<now, registryVars, reputationVars, abuseMarkVars, worker,
          claimedAt, submittedAt, terms, verdict, taskCount, openTasksOf,
          activeClaimOf, cooldownUntil, allowlistedBuyer, paused, usdc>>

-----------------------------------------------------------------------------
(******************************** Settling *********************************)

raterKey(t) ==
    IF terms[t].buyerAgentId # NoAgent THEN terms[t].buyerAgentId ELSE terms[t].buyer

\* The outcome goes to whoever stands behind the worker's address now.
writeOutcome(t, code) ==
    /\ feedback(nullifierOf(worker[t]), raterKey(t), code)
    /\ verdict' = [verdict EXCEPT ![t] = code]
    /\ IF terms[t].buyerAgentId # NoAgent
       THEN outcome(terms[t].buyerAgentId, code)
       ELSE UNCHANGED abuseMarkVars

\* The task leaves the live set: its worker's slot and its buyer's count are freed.
Close(t, final) ==
    /\ state' = [state EXCEPT ![t] = final]
    /\ openTasksOf[terms[t].buyer] > 0      \* checked arithmetic
    /\ activeClaimOf' = SlotFreed(worker[t])
    /\ openTasksOf' = PlaceFreed(terms[t].buyer)
    /\ UNCHANGED <<now, registryVars, worker, claimedAt, submittedAt, terms,
          taskCount, cooldownUntil, allowlistedBuyer, paused>>

\* Mutant: only the rate leaves the escrow.
PayRateOnly(t, toAmount, toFee) ==
    usdc' = transfer(usdc, Escrow, toAmount, terms[t].amount)

\* The escrow pays the two shares of what it locked for the task.
PayOut(t, toAmount, toFee) ==
    /\ affords(Escrow, Total(t))
    /\ usdc' = transfer(transfer(usdc, Escrow, toAmount, terms[t].amount),
                        Escrow, toFee, terms[t].fee)

release(t) ==
    /\ Close(t, "Released")
    /\ PayOut(t, worker[t], Treasury)
    /\ writeOutcome(t, PAID)

approve(t) == state[t] = "Submitted" /\ release(t)

\* Mutant: pause gates settlement as it gates claims.
autoReleaseUnlessPaused(t) ==
    ~paused /\ state[t] = "Submitted" /\ DisputeWindowOver(t) /\ release(t)

autoRelease(t) == state[t] = "Submitted" /\ DisputeWindowOver(t) /\ release(t)

\* Mutant: the treasury earns on arbitration too.
resolveForAFee(t, toBuyer) ==
    /\ state[t] = "Disputed"
    /\ Close(t, "Resolved")
    /\ PayOut(t, IF toBuyer THEN terms[t].buyer ELSE worker[t], Treasury)
    /\ writeOutcome(t, IF toBuyer THEN RESOLVED_TO_BUYER ELSE RESOLVED_TO_WORKER)

\* The owner arbitrates.  No fee is earned on either branch.
resolve(t, toBuyer) ==
    /\ state[t] = "Disputed"
    /\ Close(t, "Resolved")
    /\ PayOut(t, IF toBuyer THEN terms[t].buyer ELSE worker[t], terms[t].buyer)
    /\ writeOutcome(t, IF toBuyer THEN RESOLVED_TO_BUYER ELSE RESOLVED_TO_WORKER)

\* Anyone may expire; the refund goes to the buyer, never to the relayer.
expire(t) ==
    /\ \/ state[t] = "Open" /\ ListingExpired(t)
       \/ state[t] = "Claimed" /\ SubmitExpired(t)
    /\ Close(t, "Refunded")
    /\ PayOut(t, terms[t].buyer, terms[t].buyer)
    /\ UNCHANGED <<reputationVars, abuseMarkVars, verdict>>

-----------------------------------------------------------------------------
(************************* The owner, the registry, time *******************)

setPaused(p) ==
    /\ paused # p
    /\ paused' = p
    /\ UNCHANGED <<now, registryVars, reputationVars, abuseMarkVars, state, worker,
          claimedAt, submittedAt, terms, verdict, taskCount, openTasksOf,
          activeClaimOf, cooldownUntil, allowlistedBuyer, usdc>>

setAllowlistedBuyer(b, allowed) ==
    /\ allowlistedBuyer' = [allowlistedBuyer EXCEPT ![b] = allowed]
    /\ UNCHANGED <<now, registryVars, reputationVars, abuseMarkVars, state, worker,
          claimedAt, submittedAt, terms, verdict, taskCount, openTasksOf,
          activeClaimOf, cooldownUntil, paused, usdc>>

Registry ==
    /\ \/ \E a \in Attestations : registerFor(a)
       \/ \E s \in Seedings : seedWorker(s[1], s[2])
       \/ \E n \in Resettable : resetWorker(n)
    /\ UNCHANGED <<now, reputationVars, abuseMarkVars, taskVars>>

Mark ==
    /\ \/ \E a \in AgentIds, s \in SpecHashes : mark(a, s)
       \/ \E c \in Cooldowns : setMarkCooldown(c)
    /\ UNCHANGED <<now, registryVars, reputationVars, taskVars>>

Tick ==
    /\ ClockTick
    /\ UNCHANGED <<registryVars, reputationVars, abuseMarkVars, taskVars>>

Next ==
    \/ \E p \in PostParams : \E payer \in {Relayer, p.buyer} : post(payer, p)
    \/ \E t \in TaskIds :
          \/ \E w \in Workers :
                claimOpen(t, w) \/ claimStale(t, w) \/ releaseClaim(t, w) \/ submit(t, w)
          \/ dispute(t) \/ approve(t) \/ autoRelease(t) \/ expire(t)
          \/ \E toBuyer \in BOOLEAN : resolve(t, toBuyer)
    \/ \E p \in BOOLEAN : setPaused(p)
    \/ \E b \in Allowlistable, allowed \in BOOLEAN : setAllowlistedBuyer(b, allowed)
    \/ Registry \/ Mark \/ Tick

Spec == Init /\ [][Next]_vars

\* Blocks keep coming; the API's sweeper calls expire and autoRelease on what
\* is due (anyone may); the owner arbitrates.  Nobody is obliged to unpause,
\* claim, submit, approve or dispute.
Fairness ==
    /\ WF_vars(Tick)
    /\ \A t \in TaskIds :
          /\ WF_vars(expire(t))
          /\ WF_vars(autoRelease(t))
          /\ WF_vars(\E toBuyer \in BOOLEAN : resolve(t, toBuyer))

FairSpec == Spec /\ Fairness

-----------------------------------------------------------------------------
(******************************* Properties ********************************)

\* The slot index and the task table agree: activeClaimOf points at exactly
\* the task the worker is on, through claims, displacements, hand-backs,
\* disputes and settlements, so nobody is locked out or on two tasks
\* (TaskEscrow.sol keeps activeClaimOf by hand in seven places).
ClaimsAgree ==
    \A t \in TaskIds, w \in Workers :
        activeClaimOf[w] = t <=> state[t] \in Held /\ worker[t] = w

LiveOf(b) == {t \in TaskIds : state[t] \in Live /\ terms[t].buyer = b}

\* openTasksOf goes down exactly once per task, whichever way it ends, so
\* it always counts the buyer's live tasks and never passes the cap.
OpenTasksCounted ==
    \A b \in Buyers :
        /\ openTasksOf[b] = Cardinality(LiveOf(b))
        /\ openTasksOf[b] =< maxOpenTasksPerBuyer

\* What is counted or paid for t as a set of units, so that sums over tasks
\* and workers are cardinalities.
Units(t, k) == {t} \X (1 .. k)
LockedUnits == UNION {Units(t, Total(t)) : t \in {u \in TaskIds : state[u] \in Live}}

\* The escrow holds, to the unit, rate plus fee of every live task: no
\* settlement pays out of another task's money and none leaves money behind.
Solvent == usdc[Escrow] = Cardinality(LockedUnits)

EarnedUnits(w) ==
    UNION {Units(t, terms[t].amount) :
              t \in {u \in TaskIds : worker[u] = w
                        /\ verdict[u] \in {PAID, RESOLVED_TO_WORKER}}}
FeeUnits ==
    UNION {Units(t, terms[t].fee) : t \in {u \in TaskIds : verdict[u] = PAID}}

\* A worker gets the whole posted rate, once, for each task paid or resolved
\* to them, and the treasury a fee only where nobody arbitrated.
PaidAsPromised ==
    /\ \A w \in Workers \ (Buyers \cup {Relayer, Treasury}) :
          usdc[w] = Endowment[w] + Cardinality(EarnedUnits(w))
    /\ Treasury \notin Workers \cup Buyers \cup {Relayer} =>
          usdc[Treasury] = Endowment[Treasury] + Cardinality(FeeUnits)

\* The tasks completed, and what the workers' records add up to.
CompletedTasks == {t \in TaskIds : verdict[t] \in {PAID, RESOLVED_TO_WORKER}}
CompletedUnits == UNION {Units(n, completed[n]) : n \in Rated}

Judged(a, codes) ==
    {t \in TaskIds : terms[t].buyerAgentId = a /\ verdict[t] \in codes}

\* "Both records move": a settlement writes the hiring agent's ERC-8004
\* record once, with the sign of who was right, and marks are the only
\* other entries; and each paid task is counted as completed by one worker.
BothRecordsMove ==
    /\ \A a \in AgentIds :
          /\ entriesOf[a] = marksOf[a] + Cardinality(Judged(a, OutcomeCodes))
          /\ standingOf[a] = Cardinality(Judged(a, {PAID, RESOLVED_TO_BUYER}))
                - Cardinality(Judged(a, {RESOLVED_TO_WORKER})) - marksOf[a]
    /\ Cardinality(CompletedUnits) = Cardinality(CompletedTasks)

\* The boundary instants: at every time exactly one party may move.  Before
\* the dispute window closes the buyer may dispute and nobody may release
\* unasked; from then on the reverse.  Until the submit window closes the
\* claimant may submit and nobody may take the task back for good; after it
\* the reverse.  Neither pause nor the escrow's balance gets in the way.
ExactlyOneMove ==
    \A t \in TaskIds :
        /\ state[t] = "Submitted" => (ENABLED dispute(t) <=> ~ENABLED autoRelease(t))
        /\ state[t] = "Claimed" =>
              (ENABLED submit(t, worker[t]) <=> ~ENABLED expire(t))

\* Every task that was posted reaches Released, Refunded or Resolved, and so
\* its money its owner and its worker their next task, even if the operator
\* pauses the escrow and never comes back.
EveryTaskSettles == \A t \in TaskIds : state[t] \in Live ~> state[t] \in Final

\* "Worker-side feedback is keyed by the World ID nullifier, so a rotated
\* payout address neither resets a history nor sheds one"
\* (TaskEscrow.sol:353): no outcome is ever filed under nullifier 0.
OutcomesHaveAnOwner == \A r \in Raters : slotOf[NoHuman][r] = NoOutcome

\* Stages as the promise names them.
StageOf(t) ==
    CASE state[t] = "None" -> "unposted"
      [] state[t] = "Open" -> "listed"
      [] state[t] = "Claimed" -> "held"
      [] state[t] = "Submitted" -> "proven"
      [] state[t] = "Disputed" -> "contested"
      [] state[t] = "Refunded" -> "refunded"
      [] OTHER -> "settled"

HolderOf(t) == IF state[t] \in Held THEN worker[t] ELSE NoAddress

Promise == INSTANCE EscrowPromise WITH
    Tasks <- TaskIds, Nobody <- NoAddress, Cap <- maxOpenTasksPerBuyer,
    stage <- [t \in TaskIds |-> StageOf(t)],
    buyer <- [t \in TaskIds |-> terms[t].buyer],
    holder <- [t \in TaskIds |-> HolderOf(t)]

\* The contract, deciding by its counters and timestamps, implements the
\* promise, which decides by looking at every task.
KeepsPromise == Promise!Spec
==============================================================================
