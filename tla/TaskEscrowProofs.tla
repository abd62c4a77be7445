-------------------------- MODULE TaskEscrowProofs --------------------------
(***************************************************************************)
(* Theorems about the escrow, for any workers, buyers, offers and windows: *)
(* its invariants, the promise it implements (EscrowPromise), and what its *)
(* index says of it (Subgraph).                                            *)
(***************************************************************************)
EXTENDS Subgraph, RegistryProofs, FiniteSetTheorems

-----------------------------------------------------------------------------
(******************************* Registry **********************************)

\* Every registry operation keeps the binding one to one.
LEMMA RegistryStep ==
    ASSUME RegistryInv,
           \/ \E a \in Attestations : registerFor(a)
           \/ \E s \in Seedings : seedWorker(s[1], s[2])
           \/ \E n \in Resettable : resetWorker(n)
    PROVE  RegistryInv'
<1>1. \A s \in Seedings : s[1] \in Workers /\ s[2] \in Nullifiers
  BY EscrowAssumption
<1>2. Resettable \subseteq Nullifiers
  BY EscrowAssumption
<1> QED
  BY <1>1, <1>2, RegisterForKeeps, SeedWorkerKeeps, ResetWorkerKeeps

-----------------------------------------------------------------------------
(****************************** Reputation *********************************)

\* A feedback call keeps the types of the four mappings.
LEMMA FeedbackTypes ==
    ASSUME ReputationTypeOK,
           NEW n \in Rated, NEW r \in Raters, NEW o \in OutcomeCodes,
           feedback(n, r, o)
    PROVE  ReputationTypeOK'
<1>1. scoreDelta(slotOf[n][r], o) \in Int
  BY DEF scoreDelta, slotValue
<1>2. score' \in [Rated -> Int]
  BY <1>1 DEF ReputationTypeOK, feedback
<1>3. /\ completed' \in [Rated -> Nat]
      /\ distinctRaters' \in [Rated -> Nat]
  BY DEF ReputationTypeOK, feedback
<1>4. slotOf' \in [Rated -> [Raters -> OutcomeCodes \cup {NoOutcome}]]
  BY DEF ReputationTypeOK, feedback
<1> QED
  BY <1>2, <1>3, <1>4 DEF ReputationTypeOK

\* Both sides of a rater set are finite, so their sizes are numbers.
LEMMA SidesAreFinite ==
    ASSUME NEW n \in Rated
    PROVE  /\ IsFiniteSet(For(n)) /\ Cardinality(For(n)) \in Nat
           /\ IsFiniteSet(Against(n)) /\ Cardinality(Against(n)) \in Nat
<1>1. For(n) \subseteq Raters /\ Against(n) \subseteq Raters
  BY DEF For, Against
<1> QED
  BY <1>1, ReputationAssumption, FS_Subset, FS_CardinalityType

\* One rater, one voice survives a feedback call: whichever of the two sides
\* the rater's slot was on, the totals move by what the slots do.
LEMMA FeedbackKeepsVoices ==
    ASSUME ReputationTypeOK, OneRaterOneVoice,
           NEW n \in Rated, NEW r \in Raters, NEW o \in OutcomeCodes,
           feedback(n, r, o)
    PROVE  OneRaterOneVoice'
<1> DEFINE old == slotOf[n][r]
           f == Cardinality(For(n))
           g == Cardinality(Against(n))
<1> USE DEF OutcomeCodes, PAID, RESOLVED_TO_WORKER, RESOLVED_TO_BUYER, NoOutcome
<1>1. \A m \in Rated : m # n =>
        /\ For(m)' = For(m) /\ Against(m)' = Against(m)
        /\ distinctRaters'[m] = distinctRaters[m] /\ score'[m] = score[m]
  BY DEF For, Against, feedback, ReputationTypeOK
<1>2. /\ IsFiniteSet(For(n)) /\ f \in Nat
      /\ IsFiniteSet(Against(n)) /\ g \in Nat
  BY SidesAreFinite
<1>3. /\ distinctRaters[n] = f + g /\ score[n] = f - g
      /\ distinctRaters'[n] = IF old = NoOutcome THEN f + g + 1 ELSE f + g
      /\ score'[n] = f - g + scoreDelta(old, o)
      /\ old \in OutcomeCodes \cup {NoOutcome}
  BY DEF feedback, ReputationTypeOK, OneRaterOneVoice
<1>4. \A q \in Raters : slotOf'[n][q] = IF q = r THEN o ELSE slotOf[n][q]
  BY DEF feedback, ReputationTypeOK
<1>5. /\ Cardinality(For(n)') = IF o = RESOLVED_TO_BUYER
                THEN (IF r \in For(n) THEN f - 1 ELSE f)
                ELSE (IF r \in For(n) THEN f ELSE f + 1)
  <2>1. CASE o = RESOLVED_TO_BUYER
    <3>1. For(n)' = For(n) \ {r}
      BY <1>4, <2>1 DEF For
    <3> QED
      BY <3>1, <2>1, <1>2, FS_RemoveElement
  <2>2. CASE o # RESOLVED_TO_BUYER
    <3>1. For(n)' = For(n) \cup {r}
      BY <1>4, <2>2 DEF For
    <3> QED
      BY <3>1, <2>2, <1>2, FS_AddElement
  <2> QED
    BY <2>1, <2>2
<1>6. /\ Cardinality(Against(n)') = IF o = RESOLVED_TO_BUYER
                THEN (IF r \in Against(n) THEN g ELSE g + 1)
                ELSE (IF r \in Against(n) THEN g - 1 ELSE g)
  <2>1. CASE o = RESOLVED_TO_BUYER
    <3>1. Against(n)' = Against(n) \cup {r}
      BY <1>4, <2>1 DEF Against
    <3> QED
      BY <3>1, <2>1, <1>2, FS_AddElement
  <2>2. CASE o # RESOLVED_TO_BUYER
    <3>1. Against(n)' = Against(n) \ {r}
      BY <1>4, <2>2 DEF Against
    <3> QED
      BY <3>1, <2>2, <1>2, FS_RemoveElement
  <2> QED
    BY <2>1, <2>2
<1>7. /\ r \in For(n) <=> old \in {PAID, RESOLVED_TO_WORKER}
      /\ r \in Against(n) <=> old = RESOLVED_TO_BUYER
  BY DEF For, Against
<1>8. /\ distinctRaters'[n] = Cardinality(For(n)') + Cardinality(Against(n)')
      /\ score'[n] = Cardinality(For(n)') - Cardinality(Against(n)')
  BY <1>2, <1>3, <1>5, <1>6, <1>7 DEF scoreDelta, slotValue
<1>9. \A m \in Rated :
        /\ distinctRaters'[m] = Cardinality(For(m)') + Cardinality(Against(m)')
        /\ score'[m] = Cardinality(For(m)') - Cardinality(Against(m)')
  BY <1>1, <1>8 DEF OneRaterOneVoice
<1> QED
  BY <1>9 DEF OneRaterOneVoice

-----------------------------------------------------------------------------
(************************** The task table *********************************)

\* What the stage of a task says about its other fields.
WellFormed ==
    \A t \in TaskIds :
        /\ state[t] # "None" => t =< taskCount /\ terms[t].buyer \in Buyers
        /\ state[t] \in Held => worker[t] \in Workers
        /\ state[t] \in {"None", "Open"} => worker[t] = NoAddress

\* The inductive invariant of the task table.
TableInv == TaskTypeOK /\ WellFormed /\ ClaimsAgree

\* A timestamp of the model is a natural number.
LEMMA TimesAreNat == now \in Times => now \in Nat
BY BlockTimeAssumption DEF Times

\* No task, no claim: the two agree.
LEMMA TableInitial == Init => TableInv
<1> SUFFICES ASSUME Init PROVE TableInv
  OBVIOUS
<1>1. MaxTasks \in Nat /\ Endowment \in [Accounts -> Nat]
  BY EscrowAssumption
<1>2. NoTerms \in Terms
  BY DEF NoTerms, Terms
<1>3. allowlistedBuyer \in [Buyers -> BOOLEAN] /\ paused \in BOOLEAN
  BY Zenon DEF Init
<1>4. TaskTypeOK
  BY <1>1, <1>2, <1>3 DEF Init, TaskTypeOK, States, NoTask
<1>5. WellFormed
  BY DEF Init, WellFormed, Held
<1>6. ClaimsAgree
  BY DEF Init, ClaimsAgree, Held, TaskIds, NoTask
<1> QED
  BY <1>4, <1>5, <1>6 DEF TableInv

\* post opens a task nobody is on.
LEMMA TablePost ==
    ASSUME TableInv, now \in Times,
           NEW p \in PostParams, NEW payer \in {Relayer, p.buyer}, post(payer, p)
    PROVE  TableInv'
<1> DEFINE t == taskCount + 1
<1>1. /\ p \in [buyer : Buyers, buyerAgentId : AgentIds \cup {NoAgent}, amount : Nat,
                claimTTL : Nat, submitTTL : Nat, disputeWindow : Nat]
      /\ MaxTasks \in Nat /\ FEE_BPS \in Nat /\ payer \in Accounts /\ Escrow \in Accounts
      /\ payer # Escrow /\ now \in Nat
  BY EscrowAssumption, TimesAreNat DEF Accounts
<1>2. feeOn(p.amount) \in Nat
  BY <1>1 DEF feeOn
<1>3. t \in TaskIds
  BY <1>1 DEF TableInv, TaskTypeOK, TaskIds, post
<1>4. state[t] = "None" /\ worker[t] = NoAddress
  BY <1>3, <1>1 DEF TableInv, TaskTypeOK, WellFormed
<1>5. terms' \in [TaskIds -> Terms] /\ terms'[t].buyer \in Buyers
  BY <1>1, <1>2, <1>3 DEF TableInv, TaskTypeOK, post, Terms
<1>6. usdc' \in [Accounts -> Nat]
  BY <1>1, <1>2 DEF TableInv, TaskTypeOK, post, transfer, affords
<1>7. /\ taskCount' = t /\ taskCount' \in 0 .. MaxTasks
      /\ state' = [state EXCEPT ![t] = "Open"]
      /\ openTasksOf' \in [Buyers -> Nat]
      /\ UNCHANGED <<worker, claimedAt, submittedAt, verdict, activeClaimOf,
                     cooldownUntil, allowlistedBuyer, paused>>
      /\ \A u \in TaskIds : u # t => terms'[u] = terms[u]
  <2>1. /\ taskCount' = t /\ state' = [state EXCEPT ![t] = "Open"]
        /\ openTasksOf' = [openTasksOf EXCEPT ![p.buyer] = @ + 1]
        /\ UNCHANGED <<worker, claimedAt, submittedAt, verdict, activeClaimOf,
                       cooldownUntil, allowlistedBuyer, paused>>
    BY DEF post
  <2>2. t \in 0 .. MaxTasks
    BY <1>3, EscrowAssumption DEF TaskIds
  <2>3. openTasksOf' \in [Buyers -> Nat]
    BY <1>1, <2>1 DEF TableInv, TaskTypeOK
  <2>4. \A u \in TaskIds : u # t => terms'[u] = terms[u]
    BY <1>3 DEF TableInv, TaskTypeOK, post
  <2> QED
    BY <2>1, <2>2, <2>3, <2>4
<1>8. \A u \in TaskIds : state'[u] = IF u = t THEN "Open" ELSE state[u]
  BY <1>7, <1>3 DEF TableInv, TaskTypeOK
<1>9. TaskTypeOK'
  BY <1>5, <1>6, <1>7, <1>8 DEF TableInv, TaskTypeOK, States
<1>10. WellFormed'
  BY <1>3, <1>4, <1>5, <1>7, <1>8 DEF TableInv, TaskTypeOK, WellFormed, TaskIds, Held
<1>11. ClaimsAgree'
  BY <1>4, <1>7, <1>8 DEF TableInv, ClaimsAgree, Held
<1> QED
  BY <1>9, <1>10, <1>11 DEF TableInv

\* A worker with no claim takes a task nobody else holds any more.
LEMMA TableTake ==
    ASSUME TableInv, now \in Times, NEW t \in TaskIds, NEW w \in Workers,
           state[t] \in {"Open", "Claimed"}, activeClaimOf[w] = NoTask,
           activeClaimOf' = [SlotFreed(worker[t]) EXCEPT ![w] = t],
           cooldownUntil' \in [Workers -> Nat],
           TakeTask(t, w)
    PROVE  TableInv'
<1>1. /\ worker' = [worker EXCEPT ![t] = w]
      /\ state' = [state EXCEPT ![t] = "Claimed"]
      /\ claimedAt' = [claimedAt EXCEPT ![t] = now]
      /\ UNCHANGED <<submittedAt, terms, verdict, taskCount, openTasksOf,
                     allowlistedBuyer, paused, usdc>>
  BY DEF TakeTask
<1>2. worker[t] \in Workers \cup {NoAddress} /\ now \in Nat
  BY TimesAreNat DEF TableInv, TaskTypeOK
<1>3. SlotFreed(worker[t]) \in [Workers -> TaskIds \cup {NoTask}]
  BY <1>2, RegistryAssumption DEF TableInv, TaskTypeOK, SlotFreed
<1>4. TaskTypeOK'
  BY <1>1, <1>2, <1>3 DEF TableInv, TaskTypeOK, States
<1>5. \A u \in TaskIds :
        /\ state'[u] = IF u = t THEN "Claimed" ELSE state[u]
        /\ worker'[u] = IF u = t THEN w ELSE worker[u]
  BY <1>1 DEF TableInv, TaskTypeOK
<1>6. WellFormed'
  BY <1>1, <1>5 DEF TableInv, WellFormed, Held
<1>7. \A v \in Workers : activeClaimOf'[v] =
        IF v = w THEN t ELSE IF v = worker[t] THEN NoTask ELSE activeClaimOf[v]
  BY <1>2, <1>3, RegistryAssumption DEF SlotFreed, TableInv, TaskTypeOK
<1>8. ClaimsAgree'
  <2> SUFFICES ASSUME NEW u \in TaskIds, NEW v \in Workers
               PROVE  activeClaimOf'[v] = u <=> state'[u] \in Held /\ worker'[u] = v
    BY DEF ClaimsAgree
  <2>1. /\ activeClaimOf[v] = u <=> state[u] \in Held /\ worker[u] = v
        /\ activeClaimOf[v] = t <=> state[t] \in Held /\ worker[t] = v
        /\ ~(state[u] \in Held /\ worker[u] = w)
    BY DEF TableInv, ClaimsAgree, TaskIds, NoTask
  <2>2. u # NoTask /\ (state[t] = "Open" => worker[t] = NoAddress) /\ v # NoAddress
    BY RegistryAssumption DEF TableInv, WellFormed, TaskIds, NoTask
  <2> QED
    BY <1>5, <1>7, <2>1, <2>2 DEF Held
<1> QED
  BY <1>4, <1>6, <1>8 DEF TableInv

\* A claim of an open task, and one that displaces a stale claim, keep the
\* slot index and the table in agreement.
LEMMA TableClaim ==
    ASSUME TableInv, now \in Times, NEW t \in TaskIds, NEW w \in Workers,
           claimOpen(t, w) \/ claimStale(t, w)
    PROVE  TableInv'
<1>1. CASE claimOpen(t, w)
  <2>1. worker[t] = NoAddress /\ SlotFreed(worker[t]) = activeClaimOf
    BY <1>1 DEF claimOpen, TableInv, WellFormed, SlotFreed
  <2>2. cooldownUntil' \in [Workers -> Nat]
    BY <1>1 DEF claimOpen, TableInv, TaskTypeOK
  <2> QED
    BY <1>1, <2>1, <2>2, TableTake DEF claimOpen, MayClaim
<1>2. CASE claimStale(t, w)
  <2>1. CLAIM_COOLDOWN \in Nat /\ now \in Nat
    BY EscrowAssumption, TimesAreNat
  <2>2. cooldownUntil' = [cooldownUntil EXCEPT ![worker[t]] = now + CLAIM_COOLDOWN]
    BY <1>2 DEF claimStale
  <2>3. now + CLAIM_COOLDOWN \in Nat /\ cooldownUntil \in [Workers -> Nat]
    BY <2>1 DEF TableInv, TaskTypeOK
  <2>4. cooldownUntil' \in [Workers -> Nat]
    BY <2>2, <2>3
  <2> QED
    BY <1>2, <2>4, TableTake DEF claimStale, MayClaim
<1> QED
  BY <1>1, <1>2

\* A hand-back frees the slot of the one worker who was on the task.
LEMMA TableRelease ==
    ASSUME TableInv, NEW t \in TaskIds, NEW w \in Workers, releaseClaim(t, w)
    PROVE  TableInv'
<1>1. /\ state[t] = "Claimed" /\ worker[t] = w /\ w # NoAddress
      /\ state' = [state EXCEPT ![t] = "Open"]
      /\ worker' = [worker EXCEPT ![t] = NoAddress]
      /\ claimedAt' = [claimedAt EXCEPT ![t] = 0]
      /\ activeClaimOf' = [activeClaimOf EXCEPT ![w] = NoTask]
      /\ UNCHANGED <<submittedAt, terms, verdict, taskCount, openTasksOf,
                     cooldownUntil, allowlistedBuyer, paused, usdc>>
  BY RegistryAssumption DEF releaseClaim, SlotFreed
<1>2. TaskTypeOK'
  BY <1>1 DEF TableInv, TaskTypeOK, States
<1>3. \A u \in TaskIds :
        /\ state'[u] = IF u = t THEN "Open" ELSE state[u]
        /\ worker'[u] = IF u = t THEN NoAddress ELSE worker[u]
  BY <1>1 DEF TableInv, TaskTypeOK
<1>4. WellFormed'
  BY <1>1, <1>3 DEF TableInv, WellFormed, Held
<1>5. \A v \in Workers : activeClaimOf'[v] = IF v = w THEN NoTask ELSE activeClaimOf[v]
  BY <1>1 DEF TableInv, TaskTypeOK
<1>6. ClaimsAgree'
  BY <1>1, <1>3, <1>5 DEF TableInv, ClaimsAgree, Held, TaskIds, NoTask
<1> QED
  BY <1>2, <1>4, <1>6 DEF TableInv

\* The claimant who hands in stays on the task.
LEMMA TableSubmit ==
    ASSUME TableInv, now \in Times, NEW t \in TaskIds, NEW w \in Workers, submit(t, w)
    PROVE  TableInv'
<1>1. /\ state[t] = "Claimed" /\ worker[t] = w /\ now \in Nat
      /\ state' = [state EXCEPT ![t] = "Submitted"]
      /\ submittedAt' = [submittedAt EXCEPT ![t] = now]
      /\ UNCHANGED <<worker, claimedAt, terms, verdict, taskCount, openTasksOf,
                     activeClaimOf, cooldownUntil, allowlistedBuyer, paused, usdc>>
  BY TimesAreNat DEF submit
<1>2. \A u \in TaskIds : state'[u] = IF u = t THEN "Submitted" ELSE state[u]
  BY <1>1 DEF TableInv, TaskTypeOK
<1>3. TaskTypeOK' /\ WellFormed'
  BY <1>1, <1>2 DEF TableInv, TaskTypeOK, States, WellFormed, Held
<1>4. ClaimsAgree'
  BY <1>1, <1>2 DEF TableInv, ClaimsAgree, Held
<1> QED
  BY <1>3, <1>4 DEF TableInv

\* A disputed task keeps its worker.
LEMMA TableDispute ==
    ASSUME TableInv, NEW t \in TaskIds, dispute(t)
    PROVE  TableInv'
<1>1. /\ state[t] = "Submitted"
      /\ state' = [state EXCEPT ![t] = "Disputed"]
      /\ UNCHANGED <<worker, claimedAt, submittedAt, terms, verdict, taskCount,
                     openTasksOf, activeClaimOf, cooldownUntil, allowlistedBuyer,
                     paused, usdc>>
  BY DEF dispute
<1>2. \A u \in TaskIds : state'[u] = IF u = t THEN "Disputed" ELSE state[u]
  BY <1>1 DEF TableInv, TaskTypeOK
<1>3. TaskTypeOK' /\ WellFormed'
  BY <1>1, <1>2 DEF TableInv, TaskTypeOK, States, WellFormed, Held
<1>4. ClaimsAgree'
  BY <1>1, <1>2 DEF TableInv, ClaimsAgree, Held
<1> QED
  BY <1>3, <1>4 DEF TableInv


-----------------------------------------------------------------------------
(******************************* Settling **********************************)

\* What approve, autoRelease, resolve and expire have in common: a live task
\* ends, its slot and place are freed, and the escrow pays two accounts that
\* are not itself.
Settles(t, final, a, f) ==
    /\ state[t] \in Live /\ final \in Final
    /\ a \in Accounts \ {Escrow} /\ f \in Accounts \ {Escrow}
    /\ Close(t, final)
    /\ PayOut(t, a, f)
    /\ verdict' \in [TaskIds -> OutcomeCodes \cup {NoOutcome}]

\* What the four ways to end a task have in common: each closes a live task
\* and pays all of what it locked.
LEMMA SettleShape ==
    ASSUME TableInv, NEW t \in TaskIds,
           \/ approve(t) \/ autoRelease(t) \/ expire(t)
           \/ \E toBuyer \in BOOLEAN : resolve(t, toBuyer)
    PROVE  \E final \in Final, a, f \in Accounts \ {Escrow} : Settles(t, final, a, f)
<1>1. /\ Workers \cup Buyers \subseteq Accounts \ {Escrow}
      /\ Treasury \in Accounts \ {Escrow}
  BY EscrowAssumption DEF Accounts
<1>2. /\ state[t] \in Held => worker[t] \in Workers
      /\ state[t] \in Live => terms[t].buyer \in Buyers
  BY DEF TableInv, WellFormed, Live, Held
<1>3. \A code \in OutcomeCodes : writeOutcome(t, code) =>
        verdict' \in [TaskIds -> OutcomeCodes \cup {NoOutcome}]
  BY DEF writeOutcome, TableInv, TaskTypeOK
<1>4. /\ PAID \in OutcomeCodes /\ RESOLVED_TO_WORKER \in OutcomeCodes
      /\ RESOLVED_TO_BUYER \in OutcomeCodes
  BY DEF OutcomeCodes
<1>5. CASE approve(t) \/ autoRelease(t)
  <2>1. state[t] = "Submitted" /\ release(t)
    BY <1>5 DEF approve, autoRelease
  <2>2. Settles(t, "Released", worker[t], Treasury)
    BY <2>1, <1>1, <1>2, <1>3, <1>4 DEF release, Settles, Live, Held, Final
  <2> QED
    BY <2>2, <1>1, <1>2, <2>1 DEF Final, Held
<1>6. CASE expire(t)
  <2>1. /\ state[t] \in {"Open", "Claimed"}
        /\ Close(t, "Refunded") /\ PayOut(t, terms[t].buyer, terms[t].buyer)
        /\ verdict' = verdict
    BY <1>6 DEF expire
  <2>2. Settles(t, "Refunded", terms[t].buyer, terms[t].buyer)
    BY <2>1, <1>1, <1>2 DEF Settles, Live, Held, Final, TableInv, TaskTypeOK
  <2> QED
    BY <2>1, <2>2, <1>1, <1>2 DEF Final, Live, Held
<1>7. ASSUME NEW toBuyer \in BOOLEAN, resolve(t, toBuyer)
      PROVE  \E final \in Final, a, f \in Accounts \ {Escrow} : Settles(t, final, a, f)
  <2> DEFINE a == IF toBuyer THEN terms[t].buyer ELSE worker[t]
             code == IF toBuyer THEN RESOLVED_TO_BUYER ELSE RESOLVED_TO_WORKER
  <2>1. /\ state[t] = "Disputed" /\ Close(t, "Resolved")
        /\ PayOut(t, a, terms[t].buyer) /\ writeOutcome(t, code)
    BY <1>7 DEF resolve
  <2>2. /\ a \in Accounts \ {Escrow} /\ terms[t].buyer \in Accounts \ {Escrow}
        /\ code \in OutcomeCodes
    BY <2>1, <1>1, <1>2, <1>4 DEF Live, Held
  <2>3. Settles(t, "Resolved", a, terms[t].buyer)
    BY <2>1, <2>2, <1>3 DEF Settles, Live, Held, Final
  <2> QED
    BY <2>2, <2>3 DEF Final
<1> QED
  BY <1>5, <1>6, <1>7

\* Ending a task frees the slot of the worker who was on it, and no other.
LEMMA TableSettle ==
    ASSUME TableInv, NEW t \in TaskIds, NEW final \in Final,
           NEW a \in Accounts, NEW f \in Accounts, Settles(t, final, a, f)
    PROVE  TableInv'
<1>1. /\ state[t] \in Live
      /\ state' = [state EXCEPT ![t] = final]
      /\ activeClaimOf' = SlotFreed(worker[t])
      /\ UNCHANGED <<worker, claimedAt, submittedAt, terms, taskCount,
                     cooldownUntil, allowlistedBuyer, paused>>
      /\ verdict' \in [TaskIds -> OutcomeCodes \cup {NoOutcome}]
  BY DEF Settles, Close
<1>2. openTasksOf' \in [Buyers -> Nat]
  <2> DEFINE b == terms[t].buyer
  <2>1. /\ openTasksOf' = [openTasksOf EXCEPT ![b] = @ - 1]
        /\ openTasksOf[b] > 0
    BY DEF Settles, Close, PlaceFreed
  <2>2. b \in Buyers /\ openTasksOf \in [Buyers -> Nat]
    BY <1>1 DEF TableInv, WellFormed, TaskTypeOK, Live, Held
  <2>3. openTasksOf[b] - 1 \in Nat
    BY <2>1, <2>2
  <2> HIDE DEF b
  <2> QED
    BY <2>1, <2>2, <2>3
<1>3. usdc' \in [Accounts -> Nat]
  <2>1. terms[t].amount \in Nat /\ terms[t].fee \in Nat
    BY DEF TableInv, TaskTypeOK, Terms
  <2>2. Escrow \in Accounts
    BY DEF Accounts
  <2> QED
    BY <2>1, <2>2 DEF Settles, PayOut, transfer, affords, Total, TableInv, TaskTypeOK
<1>4. SlotFreed(worker[t]) \in [Workers -> TaskIds \cup {NoTask}]
  BY DEF TableInv, TaskTypeOK, SlotFreed
<1>5. TaskTypeOK'
  BY <1>1, <1>2, <1>3, <1>4 DEF TableInv, TaskTypeOK, Final, States
<1>6. \A u \in TaskIds : state'[u] = IF u = t THEN final ELSE state[u]
  BY <1>1 DEF TableInv, TaskTypeOK
<1>7. WellFormed'
  BY <1>1, <1>6 DEF TableInv, WellFormed, Held, Live, Final
<1>8. ClaimsAgree'
  <2>1. \A v \in Workers : activeClaimOf'[v] =
          IF v = worker[t] THEN NoTask ELSE activeClaimOf[v]
    BY <1>1, RegistryAssumption DEF TableInv, TaskTypeOK, SlotFreed
  <2>2. state[t] = "Open" => worker[t] = NoAddress
    BY DEF TableInv, WellFormed
  <2> QED
    BY <1>1, <1>6, <2>1, <2>2, RegistryAssumption
    DEF TableInv, ClaimsAgree, Held, Live, Final, TaskIds, NoTask
<1> QED
  BY <1>5, <1>7, <1>8 DEF TableInv


-----------------------------------------------------------------------------
(************************* Counts and money ********************************)

\* The cap and the balance, with the finiteness the cardinalities need.
MoneyInv == OpenTasksCounted /\ IsFiniteSet(LockedUnits) /\ Solvent

\* A step that leaves every task live or not as it was, and touches neither
\* the terms, the counts nor the balances.
Quiet ==
    /\ UNCHANGED <<terms, openTasksOf, usdc>>
    /\ \A t \in TaskIds : state'[t] \in Live <=> state[t] \in Live

\* A step that touches no balance, no count and nobody's liveness keeps the
\* money invariant.
LEMMA QuietKeepsMoney ==
    ASSUME MoneyInv, Quiet
    PROVE  MoneyInv'
<1>1. \A b \in Buyers : LiveOf(b)' = LiveOf(b)
  BY DEF Quiet, LiveOf
<1>2. LockedUnits' = LockedUnits
  <2>1. {t \in TaskIds : state[t] \in Live}' = {t \in TaskIds : state[t] \in Live}
    BY DEF Quiet
  <2>2. \A t \in TaskIds : Total(t)' = Total(t)
    BY DEF Quiet, Total
  <2>3. {Units(t, Total(t)) : t \in {u \in TaskIds : state[u] \in Live}}'
          = {Units(t, Total(t)) : t \in {u \in TaskIds : state[u] \in Live}}
    BY <2>1, <2>2
  <2> QED
    BY <2>3 DEF LockedUnits
<1> QED
  BY <1>1, <1>2 DEF MoneyInv, Quiet, OpenTasksCounted, Solvent

\* A task has as many units as it locked USDC.
LEMMA UnitsCardinality ==
    ASSUME NEW t, NEW k \in Nat
    PROVE  IsFiniteSet(Units(t, k)) /\ Cardinality(Units(t, k)) = k
<1>1. IsFiniteSet({t}) /\ Cardinality({t}) = 1
  BY FS_Singleton
<1>2. IsFiniteSet(1 .. k) /\ Cardinality(1 .. k) = k
  BY FS_Interval
<1>3. /\ IsFiniteSet({t} \X (1 .. k))
      /\ Cardinality({t} \X (1 .. k)) = Cardinality({t}) * Cardinality(1 .. k)
  <2> DEFINE A == {t}
             B == 1 .. k
  <2>1. IsFiniteSet(A) /\ IsFiniteSet(B)
    BY <1>1, <1>2
  <2> HIDE DEF A, B
  <2>2. IsFiniteSet(A \X B) /\ Cardinality(A \X B) = Cardinality(A) * Cardinality(B)
    BY <2>1, FS_Product
  <2> QED
    BY <2>2 DEF A, B
<1> QED
  BY <1>1, <1>2, <1>3 DEF Units

\* Disjoint sets of units add up.
LEMMA AddingUnits ==
    ASSUME NEW L, NEW U, IsFiniteSet(U), L \cap U = {},
           IsFiniteSet(L) \/ IsFiniteSet(L \cup U)
    PROVE  /\ IsFiniteSet(L) /\ IsFiniteSet(L \cup U) /\ Cardinality(L) \in Nat
           /\ Cardinality(L \cup U) = Cardinality(L) + Cardinality(U)
<1>1. IsFiniteSet(L)
  BY FS_Subset
<1>2. /\ IsFiniteSet(L \cup U)
      /\ Cardinality(L \cup U) = Cardinality(L) + Cardinality(U) - Cardinality(L \cap U)
  BY <1>1, FS_Union
<1>3. Cardinality(L \cap U) = 0 /\ Cardinality(L) \in Nat /\ Cardinality(U) \in Nat
  BY <1>1, FS_EmptySet, FS_CardinalityType
<1> QED
  BY <1>1, <1>2, <1>3

\* A unit is locked iff it belongs to a live task, in this state and the next.
LEMMA InLockedUnits ==
    /\ \A x : x \in LockedUnits <=>
          \E u \in TaskIds : state[u] \in Live /\ x \in Units(u, Total(u))
    /\ \A x : x \in LockedUnits' <=>
          \E u \in TaskIds : state'[u] \in Live /\ x \in Units(u, Total(u)')
BY DEF LockedUnits

\* The live tasks of a buyer are finite in number.
LEMMA LiveOfFinite ==
    ASSUME NEW b
    PROVE  IsFiniteSet(LiveOf(b)) /\ Cardinality(LiveOf(b)) \in Nat
<1>1. IsFiniteSet(TaskIds)
  BY EscrowAssumption, FS_Interval DEF TaskIds
<1>2. LiveOf(b) \subseteq TaskIds
  BY DEF LiveOf
<1> QED
  BY <1>1, <1>2, FS_Subset, FS_CardinalityType

\* Posting adds one task to its buyer's live set and its units to the pot.
LEMMA MoneyPost ==
    ASSUME TableInv, MoneyInv,
           NEW p \in PostParams, NEW payer \in {Relayer, p.buyer}, post(payer, p)
    PROVE  MoneyInv'
<1> DEFINE lock == p.amount + feeOn(p.amount)
<1>1. /\ p.buyer \in Buyers /\ p.amount \in Nat /\ FEE_BPS \in Nat
      /\ payer \in Accounts /\ Escrow \in Accounts /\ payer # Escrow
      /\ maxOpenTasksPerBuyer \in Nat /\ MaxTasks \in Nat
  BY EscrowAssumption DEF Accounts
<1>2. lock \in Nat
  BY <1>1 DEF feeOn
<1>3. PICK t \in TaskIds : t = taskCount + 1 /\ state[t] = "None"
  BY <1>1 DEF TableInv, TaskTypeOK, TaskIds, WellFormed, post
<1>4. \A u \in TaskIds :
        /\ state'[u] = IF u = t THEN "Open" ELSE state[u]
        /\ u # t => terms'[u] = terms[u]
  BY <1>3 DEF TableInv, TaskTypeOK, post
<1>5. terms'[t].buyer = p.buyer /\ Total(t)' = lock
  <2>1. terms'[t] =
          [buyer |-> p.buyer, buyerAgentId |-> p.buyerAgentId, amount |-> p.amount,
           fee |-> feeOn(p.amount), postedAt |-> now, claimTTL |-> p.claimTTL,
           submitTTL |-> p.submitTTL, disputeWindow |-> p.disputeWindow]
    BY <1>3 DEF TableInv, TaskTypeOK, post
  <2>2. Total(t)' = terms'[t].amount + terms'[t].fee
    BY DEF Total
  <2>3. terms'[t].amount + terms'[t].fee = lock
    BY <2>1
  <2> QED
    BY <2>1, <2>2, <2>3
<1>6. /\ openTasksOf' = [openTasksOf EXCEPT ![p.buyer] = @ + 1]
      /\ openTasksOf[p.buyer] < maxOpenTasksPerBuyer
      /\ usdc'[Escrow] = usdc[Escrow] + lock
  BY <1>1, <1>2 DEF post, transfer, TableInv, TaskTypeOK
<1>7. OpenTasksCounted'
  <2> SUFFICES ASSUME NEW b \in Buyers
               PROVE  /\ openTasksOf'[b] = Cardinality(LiveOf(b)')
                      /\ openTasksOf'[b] =< maxOpenTasksPerBuyer
    BY DEF OpenTasksCounted
  <2>1. /\ openTasksOf[b] = Cardinality(LiveOf(b)) /\ openTasksOf[b] \in Nat
        /\ openTasksOf[b] =< maxOpenTasksPerBuyer
        /\ openTasksOf'[b] = IF b = p.buyer THEN openTasksOf[b] + 1 ELSE openTasksOf[b]
    BY <1>1, <1>6 DEF MoneyInv, OpenTasksCounted, TableInv, TaskTypeOK
  <2>2. CASE b = p.buyer
    <3>1. LiveOf(b)' = LiveOf(b) \cup {t} /\ t \notin LiveOf(b)
      BY <1>3, <1>4, <1>5, <2>2 DEF LiveOf, Live, Held
    <3>2. Cardinality(LiveOf(b)') = Cardinality(LiveOf(b)) + 1
      BY <3>1, LiveOfFinite, FS_AddElement
    <3> QED
      BY <3>2, <2>1, <2>2, <1>1, <1>6
  <2>3. CASE b # p.buyer
    <3>1. LiveOf(b)' = LiveOf(b)
      BY <1>3, <1>4, <1>5, <2>3 DEF LiveOf, Live, Held
    <3> QED
      BY <3>1, <2>1, <2>3
  <2> QED
    BY <2>2, <2>3
<1>8. LockedUnits' = LockedUnits \cup Units(t, lock)
  <2>1. \A u \in TaskIds : u # t => Total(u)' = Total(u)
    BY <1>4 DEF Total
  <2>2. \A u \in TaskIds :
          state'[u] \in Live <=> u = t \/ state[u] \in Live
    BY <1>4 DEF Live
  <2>3. state[t] \notin Live
    BY <1>3 DEF Live, Held
  <2> HIDE DEF lock
  <2> SUFFICES ASSUME NEW x
               PROVE  x \in LockedUnits' <=> x \in LockedUnits \cup Units(t, lock)
    OBVIOUS
  <2>4. CASE x \in Units(t, lock)
    BY <1>3, <1>5, <2>2, <2>4, InLockedUnits
  <2>5. CASE x \notin Units(t, lock)
    <3>1. x \in LockedUnits' =>
            \E u \in TaskIds : u # t /\ state[u] \in Live /\ x \in Units(u, Total(u))
      BY <1>5, <2>1, <2>2, <2>5, InLockedUnits
    <3>2. x \in LockedUnits =>
            \E u \in TaskIds : u # t /\ state'[u] \in Live /\ x \in Units(u, Total(u)')
      BY <2>1, <2>2, <2>3, InLockedUnits
    <3> QED
      BY <3>1, <3>2, <2>5, InLockedUnits
  <2> QED
    BY <2>4, <2>5
<1>9. LockedUnits \cap Units(t, lock) = {}
  BY <1>3 DEF LockedUnits, Units, Live, Held
<1>10. /\ IsFiniteSet(LockedUnits')
       /\ Cardinality(LockedUnits) \in Nat
       /\ Cardinality(LockedUnits') = Cardinality(LockedUnits) + lock
  <2> DEFINE L == LockedUnits
             U == Units(t, lock)
  <2>1. IsFiniteSet(U) /\ Cardinality(U) = lock
    BY <1>2, UnitsCardinality
  <2>2. IsFiniteSet(L) /\ L \cap U = {} /\ LockedUnits' = L \cup U
    BY <1>8, <1>9 DEF MoneyInv
  <2> HIDE DEF L, U, lock
  <2>3. /\ IsFiniteSet(L \cup U) /\ Cardinality(L) \in Nat
        /\ Cardinality(L \cup U) = Cardinality(L) + lock
    BY <2>1, <2>2, AddingUnits
  <2> QED
    BY <2>2, <2>3 DEF L
<1> QED
  BY <1>6, <1>7, <1>10 DEF MoneyInv, Solvent

\* A transfer takes the amount, once, from an account that does not pay itself.
LEMMA TransferTakes ==
    ASSUME NEW b \in [Accounts -> Int], NEW from \in Accounts, NEW to \in Accounts,
           from # to, NEW n \in Int
    PROVE  /\ transfer(b, from, to, n)[from] = b[from] - n
           /\ transfer(b, from, to, n) \in [Accounts -> Int]
BY DEF transfer

\* The two transfers of a settlement take both parts from the pot.
LEMMA TwoTransfersTake ==
    ASSUME NEW b \in [Accounts -> Int], NEW from \in Accounts,
           NEW first \in Accounts, NEW second \in Accounts,
           from # first, from # second, NEW m \in Int, NEW n \in Int
    PROVE  transfer(transfer(b, from, first, m), from, second, n)[from]
             = b[from] - m - n
<1>1. PICK mid \in [Accounts -> Int] :
        /\ mid = transfer(b, from, first, m)
        /\ mid[from] = b[from] - m
  BY TransferTakes, ZenonT(30)
<1>2. transfer(mid, from, second, n)[from] = mid[from] - n
  BY TransferTakes
<1> QED
  BY <1>1, <1>2

\* A settlement takes one task out of its buyer's live set, and exactly its
\* units out of the pot.
LEMMA MoneySettle ==
    ASSUME TableInv, MoneyInv, NEW t \in TaskIds, NEW final \in Final,
           NEW a \in Accounts \ {Escrow}, NEW f \in Accounts \ {Escrow},
           Settles(t, final, a, f)
    PROVE  MoneyInv'
<1> DEFINE c == terms[t].buyer
           lock == Total(t)
<1>1. /\ state[t] \in Live /\ c \in Buyers /\ openTasksOf[c] > 0
      /\ UNCHANGED terms
      /\ openTasksOf' = [openTasksOf EXCEPT ![c] = @ - 1]
      /\ \A u \in TaskIds : state'[u] = IF u = t THEN final ELSE state[u]
  BY DEF Settles, Close, PlaceFreed, TableInv, TaskTypeOK, WellFormed, Live, Held
<1>2. \A u \in TaskIds : state'[u] \in Live <=> u # t /\ state[u] \in Live
  BY <1>1 DEF Live, Held, Final
<1>3. /\ terms[t].amount \in Nat /\ terms[t].fee \in Nat
      /\ lock = terms[t].amount + terms[t].fee /\ lock \in Nat
  BY DEF TableInv, TaskTypeOK, Terms, Total
<1>4. usdc'[Escrow] = usdc[Escrow] - lock
  <2>1. /\ usdc' = transfer(transfer(usdc, Escrow, a, terms[t].amount),
                            Escrow, f, terms[t].fee)
        /\ usdc \in [Accounts -> Int] /\ usdc[Escrow] \in Int /\ Escrow \in Accounts
        /\ a \in Accounts /\ f \in Accounts /\ a # Escrow /\ f # Escrow
    BY DEF Settles, PayOut, TableInv, TaskTypeOK, Accounts
  <2>2. terms[t].amount \in Int /\ terms[t].fee \in Int
    BY <1>3
  <2>3. usdc'[Escrow] = usdc[Escrow] - terms[t].amount - terms[t].fee
    BY <2>1, <2>2, TwoTransfersTake
  <2> QED
    BY <2>1, <2>3, <1>3
<1>5. OpenTasksCounted'
  <2> SUFFICES ASSUME NEW b \in Buyers
               PROVE  /\ openTasksOf'[b] = Cardinality(LiveOf(b)')
                      /\ openTasksOf'[b] =< maxOpenTasksPerBuyer
    BY DEF OpenTasksCounted
  <2>1. /\ openTasksOf[b] = Cardinality(LiveOf(b)) /\ openTasksOf[b] \in Nat
        /\ openTasksOf[b] =< maxOpenTasksPerBuyer /\ maxOpenTasksPerBuyer \in Nat
        /\ openTasksOf'[b] = IF b = c THEN openTasksOf[b] - 1 ELSE openTasksOf[b]
    BY <1>1, EscrowAssumption DEF MoneyInv, OpenTasksCounted, TableInv, TaskTypeOK
  <2>2. CASE b = c
    <3>1. LiveOf(b)' = LiveOf(b) \ {t} /\ t \in LiveOf(b)
      BY <1>1, <1>2, <2>2 DEF LiveOf
    <3>2. IsFiniteSet(LiveOf(b)) /\ Cardinality(LiveOf(b)) \in Nat
      BY LiveOfFinite
    <3>3. Cardinality(LiveOf(b)') = Cardinality(LiveOf(b)) - 1
      BY <3>1, <3>2, FS_RemoveElement, ZenonT(30)
    <3> QED
      BY <3>3, <2>1, <2>2
  <2>3. CASE b # c
    <3>1. LiveOf(b)' = LiveOf(b)
      BY <1>1, <1>2, <2>3 DEF LiveOf
    <3> QED
      BY <3>1, <2>1, <2>3
  <2> QED
    BY <2>2, <2>3
<1>6. \A u \in TaskIds : Total(u)' = Total(u)
  BY <1>1 DEF Total
<1>7. LockedUnits = LockedUnits' \cup Units(t, lock)
  <2> SUFFICES ASSUME NEW x
               PROVE  x \in LockedUnits <=> x \in LockedUnits' \/ x \in Units(t, lock)
    OBVIOUS
  <2>1. x \in LockedUnits =>
          \/ x \in Units(t, lock)
          \/ \E u \in TaskIds : state'[u] \in Live /\ x \in Units(u, Total(u)')
    BY <1>2, <1>6, InLockedUnits
  <2>2. x \in LockedUnits' =>
          \E u \in TaskIds : state[u] \in Live /\ x \in Units(u, Total(u))
    BY <1>2, <1>6, InLockedUnits
  <2>3. x \in Units(t, lock) => x \in LockedUnits
    BY <1>1, InLockedUnits
  <2> QED
    BY <2>1, <2>2, <2>3, InLockedUnits
<1>8. LockedUnits' \cap Units(t, lock) = {}
  BY <1>2 DEF LockedUnits, Units
<1>9. /\ IsFiniteSet(LockedUnits') /\ Cardinality(LockedUnits') \in Nat
      /\ Cardinality(LockedUnits) = Cardinality(LockedUnits') + lock
  <2> DEFINE L == LockedUnits'
             U == Units(t, lock)
  <2>1. IsFiniteSet(U) /\ Cardinality(U) = lock
    BY <1>3, UnitsCardinality
  <2>2. IsFiniteSet(L \cup U) /\ L \cap U = {} /\ LockedUnits = L \cup U
    BY <1>7, <1>8 DEF MoneyInv
  <2> HIDE DEF L, U, lock
  <2>3. /\ IsFiniteSet(L) /\ Cardinality(L) \in Nat
        /\ Cardinality(L \cup U) = Cardinality(L) + lock
    BY <2>1, <2>2, AddingUnits
  <2> QED
    BY <2>2, <2>3 DEF L
<1>10. Solvent'
  <2> HIDE DEF lock
  <2> QED
    BY <1>3, <1>4, <1>9 DEF MoneyInv, Solvent
<1> QED
  BY <1>5, <1>9, <1>10 DEF MoneyInv

-----------------------------------------------------------------------------
(***************************** The records *********************************)

RecordsInv == ReputationTypeOK /\ AbuseMarkTypeOK /\ OneRaterOneVoice

\* Empty records are well typed and sum to nothing.
LEMMA RecordsInitial == Init => RecordsInv
<1> SUFFICES ASSUME Init PROVE RecordsInv
  OBVIOUS
<1>1. ReputationTypeOK
  BY DEF Init, ReputationInit, ReputationTypeOK
<1>2. AbuseMarkTypeOK
  BY AbuseMarkAssumption DEF Init, AbuseMarkInit, AbuseMarkTypeOK
<1>3. \A n \in Rated : For(n) = {} /\ Against(n) = {}
  BY DEF Init, ReputationInit, For, Against, NoOutcome, PAID, RESOLVED_TO_WORKER,
     RESOLVED_TO_BUYER
<1>4. OneRaterOneVoice
  <2>1. Cardinality({}) = 0
    BY FS_EmptySet
  <2>2. \A n \in Rated : distinctRaters[n] = 0 /\ score[n] = 0
    BY DEF Init, ReputationInit
  <2> QED
    BY <1>3, <2>1, <2>2 DEF OneRaterOneVoice
<1> QED
  BY <1>1, <1>2, <1>4 DEF RecordsInv

\* A step that leaves both records alone keeps them right.
LEMMA RecordsUnchanged ==
    ASSUME RecordsInv, UNCHANGED <<reputationVars, abuseMarkVars>>
    PROVE  RecordsInv'
BY DEF RecordsInv, reputationVars, abuseMarkVars, ReputationTypeOK, AbuseMarkTypeOK,
    OneRaterOneVoice, For, Against

\* A mark, or a new cooldown, touches the agent side only.
LEMMA RecordsMark ==
    ASSUME RecordsInv, now \in Times, Mark
    PROVE  RecordsInv'
<1>1. ASSUME NEW a \in AgentIds, NEW s \in SpecHashes, mark(a, s)
      PROVE  AbuseMarkTypeOK'
  BY <1>1, TimesAreNat DEF RecordsInv, AbuseMarkTypeOK, mark, giveFeedback
<1>2. AbuseMarkTypeOK'
  BY <1>1 DEF Mark, setMarkCooldown, RecordsInv, AbuseMarkTypeOK
<1>3. ReputationTypeOK' /\ OneRaterOneVoice'
  BY DEF Mark, RecordsInv, reputationVars, ReputationTypeOK, OneRaterOneVoice, For, Against
<1> QED
  BY <1>2, <1>3 DEF RecordsInv

\* An outcome is filed under a key of the record, by a rater of the record.
LEMMA RecordsOutcome ==
    ASSUME RecordsInv, RegistryInv, TableInv, NEW t \in TaskIds, state[t] \in Held,
           NEW code \in OutcomeCodes, writeOutcome(t, code)
    PROVE  RecordsInv'
<1>1. worker[t] \in Workers /\ terms[t].buyer \in Buyers
  BY DEF TableInv, WellFormed, Held
<1>2. nullifierOf(worker[t]) \in Rated
  BY <1>1, EscrowAssumption DEF nullifierOf, RegistryInv, RegistryTypeOK, Record
<1>3. terms[t].buyerAgentId \in AgentIds \cup {NoAgent}
  BY DEF TableInv, TaskTypeOK, Terms
<1>4. raterKey(t) \in Raters
  BY <1>1, <1>3, EscrowAssumption DEF raterKey
<1>5. feedback(nullifierOf(worker[t]), raterKey(t), code)
  BY DEF writeOutcome
<1>6. ReputationTypeOK' /\ OneRaterOneVoice'
  BY <1>2, <1>4, <1>5, FeedbackTypes, FeedbackKeepsVoices DEF RecordsInv
<1>7. AbuseMarkTypeOK'
  <2>1. CASE terms[t].buyerAgentId # NoAgent
    BY <2>1, <1>3 DEF writeOutcome, outcome, giveFeedback, agentValue, RecordsInv,
       AbuseMarkTypeOK
  <2>2. CASE terms[t].buyerAgentId = NoAgent
    BY <2>2 DEF writeOutcome, abuseMarkVars, RecordsInv, AbuseMarkTypeOK
  <2> QED
    BY <2>1, <2>2
<1> QED
  BY <1>6, <1>7 DEF RecordsInv

\* Each way to end a task keeps both records right.
LEMMA RecordsSettle ==
    ASSUME RecordsInv, RegistryInv, TableInv, NEW t \in TaskIds,
           \/ approve(t) \/ autoRelease(t) \/ expire(t)
           \/ \E toBuyer \in BOOLEAN : resolve(t, toBuyer)
    PROVE  RecordsInv'
<1>1. CASE approve(t) \/ autoRelease(t)
  <2>1. state[t] \in Held /\ writeOutcome(t, PAID) /\ PAID \in OutcomeCodes
    BY <1>1 DEF approve, autoRelease, release, Held, OutcomeCodes
  <2> QED
    BY <2>1, RecordsOutcome
<1>2. CASE expire(t)
  BY <1>2, RecordsUnchanged DEF expire
<1>3. ASSUME NEW toBuyer \in BOOLEAN, resolve(t, toBuyer)
      PROVE  RecordsInv'
  <2>1. PICK code \in OutcomeCodes : writeOutcome(t, code)
    BY <1>3 DEF resolve, OutcomeCodes
  <2>2. state[t] \in Held
    BY <1>3 DEF resolve, Held
  <2> QED
    BY <2>1, <2>2, RecordsOutcome
<1> QED
  BY <1>1, <1>2, <1>3

-----------------------------------------------------------------------------
(************************* The inductive invariant *************************)

Inv == now \in Times /\ RegistryInv /\ RecordsInv /\ TableInv /\ MoneyInv

\* With no task the escrow is empty and nothing is counted.
LEMMA MoneyInitial == Init => MoneyInv
<1> SUFFICES ASSUME Init PROVE MoneyInv
  OBVIOUS
<1>1. {u \in TaskIds : state[u] \in Live} = {}
  BY DEF Init, Live, Held
<1>2. LockedUnits = {} /\ \A b \in Buyers : LiveOf(b) = {}
  BY <1>1 DEF LockedUnits, LiveOf
<1>3. /\ usdc[Escrow] = 0 /\ maxOpenTasksPerBuyer \in Nat
      /\ \A b \in Buyers : openTasksOf[b] = 0
  BY EscrowAssumption DEF Init
<1>4. IsFiniteSet({}) /\ Cardinality({}) = 0
  BY FS_EmptySet
<1> QED
  BY <1>2, <1>3, <1>4 DEF MoneyInv, OpenTasksCounted, Solvent

\* The invariant holds at the start.
LEMMA InvInitial == Init => Inv
BY RegistryInitial, RecordsInitial, TableInitial, MoneyInitial, BlockTimeAssumption
DEF Init, ClockInit, Inv, Times

\* A transaction of a worker or of a buyer on a live task moves no money.
LEMMA InvQuietTransaction ==
    ASSUME Inv, NEW t \in TaskIds,
           \/ \E w \in Workers :
                 claimOpen(t, w) \/ claimStale(t, w) \/ releaseClaim(t, w) \/ submit(t, w)
           \/ dispute(t)
    PROVE  Inv'
<1>1. TableInv'
  BY TableClaim, TableRelease, TableSubmit, TableDispute DEF Inv
<1>2. UNCHANGED <<now, registryVars, reputationVars, abuseMarkVars, terms, openTasksOf, usdc>>
  BY DEF claimOpen, claimStale, TakeTask, releaseClaim, submit, dispute
<1>3. \E s \in Live : state' = [state EXCEPT ![t] = s]
  BY DEF claimOpen, claimStale, TakeTask, releaseClaim, submit, dispute, Live, Held
<1>4. state[t] \in Live
  BY DEF claimOpen, claimStale, releaseClaim, submit, dispute, Live, Held
<1>5. Quiet
  BY <1>2, <1>3, <1>4 DEF Quiet, Inv, TableInv, TaskTypeOK
<1> QED
  BY <1>1, <1>2, <1>5, RegistryUnchanged, RecordsUnchanged, QuietKeepsMoney
  DEF Inv

\* post keeps the invariant.
LEMMA InvPost ==
    ASSUME Inv, NEW p \in PostParams, NEW payer \in {Relayer, p.buyer}, post(payer, p)
    PROVE  Inv'
<1>1. UNCHANGED <<now, registryVars, reputationVars, abuseMarkVars>>
  BY DEF post
<1> QED
  BY <1>1, TablePost, MoneyPost, RegistryUnchanged, RecordsUnchanged DEF Inv

\* Ending a task, in any of the four ways, keeps the invariant.
LEMMA InvSettle ==
    ASSUME Inv, NEW t \in TaskIds,
           \/ approve(t) \/ autoRelease(t) \/ expire(t)
           \/ \E toBuyer \in BOOLEAN : resolve(t, toBuyer)
    PROVE  Inv'
<1>1. PICK final \in Final, a \in Accounts \ {Escrow}, f \in Accounts \ {Escrow} :
        Settles(t, final, a, f)
  BY SettleShape DEF Inv
<1>2. TableInv' /\ MoneyInv'
  BY <1>1, TableSettle, MoneySettle DEF Inv
<1>3. UNCHANGED <<now, registryVars>>
  BY <1>1 DEF Settles, Close
<1> QED
  BY <1>2, <1>3, RecordsSettle, RegistryUnchanged DEF Inv

\* The owner's switches, the registry, the operator's marks and the clock
\* leave the task table, the counts and the money alone.
LEMMA InvAround ==
    ASSUME Inv,
           \/ \E p \in BOOLEAN : setPaused(p)
           \/ \E b \in Allowlistable, allowed \in BOOLEAN : setAllowlistedBuyer(b, allowed)
           \/ Registry \/ Mark \/ Tick \/ UNCHANGED vars
    PROVE  Inv'
<1>1. /\ UNCHANGED <<state, worker, claimedAt, submittedAt, terms, verdict, taskCount,
                     openTasksOf, activeClaimOf, cooldownUntil, usdc>>
  BY DEF setPaused, setAllowlistedBuyer, Registry, Mark, Tick, vars, taskVars
<1>2. paused' \in BOOLEAN
  BY Zenon DEF Inv, TableInv, TaskTypeOK, setPaused, setAllowlistedBuyer, Registry,
     Mark, Tick, vars, taskVars
<1>3. allowlistedBuyer' \in [Buyers -> BOOLEAN]
  <2>1. CASE \E b \in Allowlistable, allowed \in BOOLEAN : setAllowlistedBuyer(b, allowed)
    BY <2>1 DEF Inv, TableInv, TaskTypeOK, setAllowlistedBuyer
  <2>2. CASE UNCHANGED allowlistedBuyer
    BY <2>2 DEF Inv, TableInv, TaskTypeOK
  <2> QED
    BY <2>1, <2>2 DEF setPaused, Registry, Mark, Tick, vars, taskVars
<1>4. TaskTypeOK'
  BY <1>1, <1>2, <1>3 DEF Inv, TableInv, TaskTypeOK
<1>5. TableInv'
  BY <1>1, <1>4 DEF Inv, TableInv, WellFormed, ClaimsAgree
<1>6. MoneyInv'
  BY <1>1, QuietKeepsMoney DEF Quiet, Inv
<1>7. RegistryInv'
  <2>1. CASE Registry
    BY <2>1, RegistryStep DEF Registry, Inv
  <2>2. CASE ~Registry
    BY <2>2, RegistryUnchanged DEF Inv, setPaused, setAllowlistedBuyer, Mark, Tick, vars
  <2> QED
    BY <2>1, <2>2
<1>8. RecordsInv'
  <2>1. CASE Mark
    BY <2>1, RecordsMark DEF Inv
  <2>2. CASE ~Mark
    BY <2>2, RecordsUnchanged DEF Inv, setPaused, setAllowlistedBuyer, Registry, Tick, vars
  <2> QED
    BY <2>1, <2>2
<1>9. (now \in Times)'
  BY BlockTimeAssumption DEF Inv, Times, setPaused, setAllowlistedBuyer, Registry, Mark,
     Tick, ClockTick, vars
<1> QED
  BY <1>5, <1>6, <1>7, <1>8, <1>9 DEF Inv

\* Every step of the escrow keeps the invariant.
LEMMA InvStep == Inv /\ [Next]_vars => Inv'
<1> SUFFICES ASSUME Inv, [Next]_vars PROVE Inv'
  OBVIOUS
<1>1. ASSUME NEW p \in PostParams, NEW payer \in {Relayer, p.buyer}, post(payer, p)
      PROVE  Inv'
  BY <1>1, InvPost
<1>2. ASSUME NEW t \in TaskIds,
             \/ \E w \in Workers :
                   claimOpen(t, w) \/ claimStale(t, w) \/ releaseClaim(t, w) \/ submit(t, w)
             \/ dispute(t)
      PROVE  Inv'
  BY <1>2, InvQuietTransaction
<1>3. ASSUME NEW t \in TaskIds,
             \/ approve(t) \/ autoRelease(t) \/ expire(t)
             \/ \E toBuyer \in BOOLEAN : resolve(t, toBuyer)
      PROVE  Inv'
  BY <1>3, InvSettle
<1> QED
  BY <1>1, <1>2, <1>3, InvAround DEF Next

\* The invariant of every behaviour of the escrow.
THEOREM Invariance == Spec => []Inv
BY InvInitial, InvStep, PTL DEF Spec

\* Every field of the four contracts keeps its type: no balance, and no count
\* of open tasks, is ever decremented below zero.
THEOREM TypeCorrect == Spec => []TypeOK
<1>1. Inv => TypeOK
  BY DEF Inv, TypeOK, RegistryInv, RecordsInv, TableInv
<1> QED
  BY <1>1, Invariance, PTL

\* activeClaimOf never disagrees with the task table.
THEOREM ClaimIndexAgrees == Spec => []ClaimsAgree
<1>1. Inv => ClaimsAgree
  BY DEF Inv, TableInv
<1> QED
  BY <1>1, Invariance, PTL

\* openTasksOf counts a buyer's live tasks and never passes the cap.
THEOREM BuyersStayUnderCap == Spec => []OpenTasksCounted
<1>1. Inv => OpenTasksCounted
  BY DEF Inv, MoneyInv
<1> QED
  BY <1>1, Invariance, PTL

\* The escrow's USDC is, to the unit, what its live tasks locked.
THEOREM EscrowIsSolvent == Spec => []Solvent
<1>1. Inv => Solvent
  BY DEF Inv, MoneyInv
<1> QED
  BY <1>1, Invariance, PTL

\* The two mappings of the registry are one binding: no human has two
\* addresses and no address two humans, through registrations, seedings and
\* resets.
THEOREM RegistryIsOneToOne == Spec => []OneHumanOneWorker
<1>1. Inv => OneHumanOneWorker
  BY DEF Inv, RegistryInv
<1> QED
  BY <1>1, Invariance, PTL

\* A binding that is not a seeded row has its spent attestation: nobody is a
\* worker on the relayer's word alone.
THEOREM WorkersAreAttested == Spec => []AttestedOrSeeded
<1>1. Inv => AttestedOrSeeded
  BY DEF Inv, RegistryInv
<1> QED
  BY <1>1, Invariance, PTL

\* A worker's score is one voice per rater, whatever the order of outcomes.
THEOREM ScoresAreVoices == Spec => []OneRaterOneVoice
<1>1. Inv => OneRaterOneVoice
  BY DEF Inv, RecordsInv
<1> QED
  BY <1>1, Invariance, PTL

-----------------------------------------------------------------------------
(********************** What the settlements added up to *******************)

\* A verdict is given once, with the settlement.
VerdictsAreFinal == \A t \in TaskIds : verdict[t] # NoOutcome => state[t] \in Final

\* Workers that are nothing else: nobody but a settlement pays them.
OnlyWorkers == Workers \ (Buyers \cup {Relayer, Treasury})

PaidInv ==
    /\ VerdictsAreFinal /\ PaidAsPromised
    /\ \A w \in Workers : IsFiniteSet(EarnedUnits(w))
    /\ IsFiniteSet(FeeUnits)

\* A settlement of t, the outcome it files (none for a refund) and the
\* accounts it pays rate and fee to.
SettlesAs(t, code, a, f) ==
    /\ \E final \in Final : Settles(t, final, a, f)
    /\ verdict' = [verdict EXCEPT ![t] = code]
    /\ \/ code = PAID /\ a = worker[t] /\ f = Treasury
       \/ code = RESOLVED_TO_WORKER /\ a = worker[t] /\ f = terms[t].buyer
       \/ code \in {RESOLVED_TO_BUYER, NoOutcome} /\ a = terms[t].buyer /\ f = terms[t].buyer
    /\ IF code = NoOutcome
       THEN UNCHANGED <<reputationVars, abuseMarkVars>>
       ELSE state[t] \in Held /\ writeOutcome(t, code)

\* The four ways to end a task are settlements of this kind.
LEMMA SettleOutcome ==
    ASSUME TableInv, VerdictsAreFinal, NEW t \in TaskIds,
           \/ approve(t) \/ autoRelease(t) \/ expire(t)
           \/ \E toBuyer \in BOOLEAN : resolve(t, toBuyer)
    PROVE  \E code \in OutcomeCodes \cup {NoOutcome}, a, f \in Accounts \ {Escrow} :
               SettlesAs(t, code, a, f)
<1>1. /\ Workers \cup Buyers \subseteq Accounts \ {Escrow}
      /\ Treasury \in Accounts \ {Escrow}
  BY EscrowAssumption DEF Accounts
<1>2. /\ state[t] \in Held => worker[t] \in Workers
      /\ state[t] \in Live => terms[t].buyer \in Buyers
  BY DEF TableInv, WellFormed, Live, Held
<1>3. \A code \in OutcomeCodes : writeOutcome(t, code) =>
        /\ verdict' = [verdict EXCEPT ![t] = code]
        /\ verdict' \in [TaskIds -> OutcomeCodes \cup {NoOutcome}]
  BY DEF writeOutcome, TableInv, TaskTypeOK
<1>4. /\ PAID \in OutcomeCodes /\ RESOLVED_TO_WORKER \in OutcomeCodes
      /\ RESOLVED_TO_BUYER \in OutcomeCodes /\ NoOutcome \notin OutcomeCodes
  BY DEF OutcomeCodes, PAID, RESOLVED_TO_WORKER, RESOLVED_TO_BUYER, NoOutcome
<1>5. CASE approve(t) \/ autoRelease(t)
  <2>1. state[t] = "Submitted" /\ release(t)
    BY <1>5 DEF approve, autoRelease
  <2>2. state[t] \in Held /\ writeOutcome(t, PAID)
    BY <2>1 DEF release, Held
  <2>3. Settles(t, "Released", worker[t], Treasury) /\ "Released" \in Final
    BY <2>1, <2>2, <1>1, <1>2, <1>3, <1>4 DEF release, Settles, Live, Final
  <2>4. SettlesAs(t, PAID, worker[t], Treasury)
    BY <2>2, <2>3, <1>3, <1>4 DEF SettlesAs
  <2> QED
    BY <2>2, <2>4, <1>1, <1>2, <1>4
<1>6. CASE expire(t)
  <2>1. /\ state[t] \in {"Open", "Claimed"}
        /\ Close(t, "Refunded") /\ PayOut(t, terms[t].buyer, terms[t].buyer)
        /\ UNCHANGED <<reputationVars, abuseMarkVars>> /\ verdict' = verdict
    BY <1>6 DEF expire
  <2>2. state[t] \in Live /\ state[t] \notin Final
    BY <2>1 DEF Live, Held, Final
  <2>3. Settles(t, "Refunded", terms[t].buyer, terms[t].buyer) /\ "Refunded" \in Final
    BY <2>1, <2>2, <1>1, <1>2 DEF Settles, Final, TableInv, TaskTypeOK
  <2>4. verdict' = [verdict EXCEPT ![t] = NoOutcome]
    BY <2>1, <2>2 DEF VerdictsAreFinal, TableInv, TaskTypeOK
  <2>5. SettlesAs(t, NoOutcome, terms[t].buyer, terms[t].buyer)
    BY <2>1, <2>3, <2>4, <1>4 DEF SettlesAs
  <2> QED
    BY <2>2, <2>5, <1>1, <1>2
<1>7. ASSUME NEW toBuyer \in BOOLEAN, resolve(t, toBuyer)
      PROVE  \E code \in OutcomeCodes \cup {NoOutcome}, a, f \in Accounts \ {Escrow} :
                 SettlesAs(t, code, a, f)
  <2> DEFINE a == IF toBuyer THEN terms[t].buyer ELSE worker[t]
             code == IF toBuyer THEN RESOLVED_TO_BUYER ELSE RESOLVED_TO_WORKER
  <2>1. /\ state[t] = "Disputed" /\ Close(t, "Resolved")
        /\ PayOut(t, a, terms[t].buyer) /\ writeOutcome(t, code)
    BY <1>7 DEF resolve
  <2>2. /\ a \in Accounts \ {Escrow} /\ terms[t].buyer \in Accounts \ {Escrow}
        /\ code \in OutcomeCodes /\ state[t] \in Held /\ state[t] \in Live
    BY <2>1, <1>1, <1>2, <1>4 DEF Live, Held
  <2>3. Settles(t, "Resolved", a, terms[t].buyer) /\ "Resolved" \in Final
    BY <2>1, <2>2, <1>3 DEF Settles, Final
  <2>4. SettlesAs(t, code, a, terms[t].buyer)
    BY <2>1, <2>2, <2>3, <1>3, <1>4 DEF SettlesAs
  <2> QED
    BY <2>2, <2>4
<1> QED
  BY <1>5, <1>6, <1>7

\* The two shares of a settlement reach exactly the two accounts paid.
LEMMA SettlementPays ==
    ASSUME TableInv, NEW t \in TaskIds, NEW code \in OutcomeCodes \cup {NoOutcome},
           NEW a \in Accounts \ {Escrow}, NEW f \in Accounts \ {Escrow}, SettlesAs(t, code, a, f),
           NEW x \in Accounts \ {Escrow}
    PROVE  usdc'[x] = usdc[x] + (IF x = a THEN terms[t].amount ELSE 0)
                              + (IF x = f THEN terms[t].fee ELSE 0)
<1>1. usdc' = transfer(transfer(usdc, Escrow, a, terms[t].amount), Escrow, f, terms[t].fee)
  BY DEF SettlesAs, Settles, PayOut
<1>2. /\ terms[t].amount \in Nat /\ terms[t].fee \in Nat /\ usdc \in [Accounts -> Nat]
      /\ Escrow \in Accounts
  BY DEF TableInv, TaskTypeOK, Terms, Accounts
<1> DEFINE mid == transfer(usdc, Escrow, a, terms[t].amount)
<1>3. /\ mid \in [Accounts -> Int]
      /\ mid[x] = usdc[x] + (IF x = a THEN terms[t].amount ELSE 0)
  BY <1>2 DEF transfer
<1>4. usdc' = transfer(mid, Escrow, f, terms[t].fee)
  BY <1>1
<1> HIDE DEF mid
<1>5. usdc'[x] = mid[x] + (IF x = f THEN terms[t].fee ELSE 0)
  BY <1>2, <1>3, <1>4 DEF transfer
<1> QED
  BY <1>3, <1>5

\* A unit is earned iff it belongs to a task settled in the worker's favour,
\* a unit of a fee iff it belongs to a task nobody arbitrated.
LEMMA InEarnedUnits ==
    /\ \A w, x : x \in EarnedUnits(w) <=>
          \E u \in TaskIds : /\ worker[u] = w /\ verdict[u] \in {PAID, RESOLVED_TO_WORKER}
                             /\ x \in Units(u, terms[u].amount)
    /\ \A w, x : x \in EarnedUnits(w)' <=>
          \E u \in TaskIds : /\ worker'[u] = w /\ verdict'[u] \in {PAID, RESOLVED_TO_WORKER}
                             /\ x \in Units(u, terms'[u].amount)
    /\ \A x : x \in FeeUnits <=>
          \E u \in TaskIds : verdict[u] = PAID /\ x \in Units(u, terms[u].fee)
    /\ \A x : x \in FeeUnits' <=>
          \E u \in TaskIds : verdict'[u] = PAID /\ x \in Units(u, terms'[u].fee)
BY DEF EarnedUnits, FeeUnits

\* A step that gives no verdict and changes nothing of a task that has one.
NoVerdict ==
    /\ verdict' = verdict
    /\ \A t \in TaskIds : verdict[t] # NoOutcome =>
          state'[t] = state[t] /\ worker'[t] = worker[t] /\ terms'[t] = terms[t]

\* Without a verdict, and without a payment to who only works, nothing is earned.
LEMMA NoVerdictKeepsPaid ==
    ASSUME PaidInv, NoVerdict,
           \A w \in OnlyWorkers : usdc'[w] = usdc[w],
           Treasury \notin Workers \cup Buyers \cup {Relayer} =>
               usdc'[Treasury] = usdc[Treasury]
    PROVE  PaidInv'
<1> USE DEF PAID, RESOLVED_TO_WORKER, RESOLVED_TO_BUYER, NoOutcome
<1>1. VerdictsAreFinal'
  BY DEF PaidInv, VerdictsAreFinal, NoVerdict
<1>2. ASSUME NEW w \in Workers
      PROVE  EarnedUnits(w)' = EarnedUnits(w)
  <2>1. \A x : x \in EarnedUnits(w)' <=> x \in EarnedUnits(w)
    BY InEarnedUnits DEF NoVerdict
  <2> QED
    BY <2>1
<1>3. FeeUnits' = FeeUnits
  <2>1. \A x : x \in FeeUnits' <=> x \in FeeUnits
    BY InEarnedUnits DEF NoVerdict
  <2> QED
    BY <2>1
<1> QED
  BY <1>1, <1>2, <1>3 DEF PaidInv, PaidAsPromised, OnlyWorkers

\* A verdict adds the units of its task to what the worker earned, if it is in
\* the worker's favour, and to nothing else.
LEMMA EarnedGrows ==
    ASSUME TableInv, VerdictsAreFinal, NEW t \in TaskIds,
           NEW code \in OutcomeCodes \cup {NoOutcome},
           verdict' = [verdict EXCEPT ![t] = code], UNCHANGED <<worker, terms>>,
           verdict[t] = NoOutcome, NEW w \in Workers
    PROVE  /\ EarnedUnits(w)' =
                IF worker[t] = w /\ code \in {PAID, RESOLVED_TO_WORKER}
                THEN EarnedUnits(w) \cup Units(t, terms[t].amount) ELSE EarnedUnits(w)
           /\ EarnedUnits(w) \cap Units(t, terms[t].amount) = {}
<1> USE DEF PAID, RESOLVED_TO_WORKER, RESOLVED_TO_BUYER, NoOutcome, OutcomeCodes
<1>1. /\ verdict'[t] = code
      /\ \A u \in TaskIds : u # t => verdict'[u] = verdict[u]
  BY DEF TableInv, TaskTypeOK
<1>2. \A x : x \in EarnedUnits(w) \cap Units(t, terms[t].amount) => FALSE
  BY InEarnedUnits DEF Units
<1>3. CASE worker[t] = w /\ code \in {PAID, RESOLVED_TO_WORKER}
  <2>1. \A x : x \in EarnedUnits(w)' <=>
                 x \in EarnedUnits(w) \/ x \in Units(t, terms[t].amount)
    BY <1>1, <1>3, InEarnedUnits
  <2> QED
    BY <2>1, <1>2, <1>3
<1>4. CASE ~(worker[t] = w /\ code \in {PAID, RESOLVED_TO_WORKER})
  <2>1. \A x : x \in EarnedUnits(w)' <=> x \in EarnedUnits(w)
    BY <1>1, <1>4, InEarnedUnits
  <2> QED
    BY <2>1, <1>2, <1>4
<1> QED
  BY <1>3, <1>4

\* A payment nobody arbitrated adds its fee, any other verdict none.
LEMMA FeesGrow ==
    ASSUME TableInv, VerdictsAreFinal, NEW t \in TaskIds,
           NEW code \in OutcomeCodes \cup {NoOutcome},
           verdict' = [verdict EXCEPT ![t] = code], UNCHANGED terms,
           verdict[t] = NoOutcome
    PROVE  /\ FeeUnits' = IF code = PAID THEN FeeUnits \cup Units(t, terms[t].fee) ELSE FeeUnits
           /\ FeeUnits \cap Units(t, terms[t].fee) = {}
<1> USE DEF PAID, RESOLVED_TO_WORKER, RESOLVED_TO_BUYER, NoOutcome, OutcomeCodes
<1>1. /\ verdict'[t] = code
      /\ \A u \in TaskIds : u # t => verdict'[u] = verdict[u]
  BY DEF TableInv, TaskTypeOK
<1>2. \A x : x \in FeeUnits \cap Units(t, terms[t].fee) => FALSE
  BY InEarnedUnits DEF Units
<1>3. CASE code = PAID
  <2>1. \A x : x \in FeeUnits' <=> x \in FeeUnits \/ x \in Units(t, terms[t].fee)
    BY <1>1, <1>3, InEarnedUnits
  <2> QED
    BY <2>1, <1>2, <1>3
<1>4. CASE code # PAID
  <2>1. \A x : x \in FeeUnits' <=> x \in FeeUnits
    BY <1>1, <1>4, InEarnedUnits
  <2> QED
    BY <2>1, <1>2, <1>4
<1> QED
  BY <1>3, <1>4

\* A settlement pays what it adds to the units earned.
LEMMA PaidSettle ==
    ASSUME TableInv, PaidInv, NEW t \in TaskIds,
           NEW code \in OutcomeCodes \cup {NoOutcome},
           NEW a \in Accounts \ {Escrow}, NEW f \in Accounts \ {Escrow},
           SettlesAs(t, code, a, f)
    PROVE  PaidInv'
<1> USE DEF PAID, RESOLVED_TO_WORKER, RESOLVED_TO_BUYER, NoOutcome, OutcomeCodes
<1>1. PICK final \in Final : Settles(t, final, a, f)
  BY DEF SettlesAs
<1>2. /\ state[t] \in Live /\ UNCHANGED <<worker, terms>>
      /\ verdict' = [verdict EXCEPT ![t] = code]
      /\ \A u \in TaskIds : state'[u] = IF u = t THEN final ELSE state[u]
      /\ \A u \in TaskIds : verdict'[u] = IF u = t THEN code ELSE verdict[u]
  BY <1>1 DEF Settles, Close, SettlesAs, TableInv, TaskTypeOK
<1>3. verdict[t] = NoOutcome /\ terms[t].buyer \in Buyers
  BY <1>2 DEF PaidInv, VerdictsAreFinal, Live, Held, Final, TableInv, WellFormed
<1>4. VerdictsAreFinal'
  BY <1>2 DEF PaidInv, VerdictsAreFinal
<1>5. terms[t].amount \in Nat /\ terms[t].fee \in Nat /\ VerdictsAreFinal
  BY DEF TableInv, TaskTypeOK, Terms, PaidInv
<1> DEFINE U == Units(t, terms[t].amount)
           F == Units(t, terms[t].fee)
           earns(w) == worker[t] = w /\ code \in {PAID, RESOLVED_TO_WORKER}
<1>6. /\ IsFiniteSet(U) /\ Cardinality(U) = terms[t].amount
      /\ IsFiniteSet(F) /\ Cardinality(F) = terms[t].fee
  BY <1>5, UnitsCardinality
<1>7. ASSUME NEW w \in Workers
      PROVE  /\ IsFiniteSet(EarnedUnits(w)') /\ Cardinality(EarnedUnits(w)) \in Nat
             /\ Cardinality(EarnedUnits(w)') = Cardinality(EarnedUnits(w))
                    + (IF earns(w) THEN terms[t].amount ELSE 0)
  <2>1. /\ EarnedUnits(w)' = IF earns(w) THEN EarnedUnits(w) \cup U ELSE EarnedUnits(w)
        /\ EarnedUnits(w) \cap U = {}
    BY <1>2, <1>3, <1>5, EarnedGrows
  <2>2. IsFiniteSet(EarnedUnits(w))
    BY DEF PaidInv
  <2> DEFINE L == EarnedUnits(w)
             M == EarnedUnits(w)'
  <2>3. /\ M = IF earns(w) THEN L \cup U ELSE L
        /\ L \cap U = {} /\ IsFiniteSet(L)
    BY <2>1, <2>2
  <2> HIDE DEF L, M, U, earns
  <2>4. Cardinality(L) \in Nat /\ IsFiniteSet(L \cup U)
        /\ Cardinality(L \cup U) = Cardinality(L) + terms[t].amount
    BY <1>6, <2>3, AddingUnits
  <2>5. /\ IsFiniteSet(M) /\ Cardinality(L) \in Nat
        /\ Cardinality(M) = Cardinality(L) + (IF earns(w) THEN terms[t].amount ELSE 0)
    BY <2>3, <2>4
  <2> QED
    BY <2>5 DEF L, M
<1>8. /\ IsFiniteSet(FeeUnits') /\ Cardinality(FeeUnits) \in Nat
      /\ Cardinality(FeeUnits') = Cardinality(FeeUnits)
             + (IF code = PAID THEN terms[t].fee ELSE 0)
  <2>1. /\ FeeUnits' = IF code = PAID THEN FeeUnits \cup F ELSE FeeUnits
        /\ FeeUnits \cap F = {}
    BY <1>2, <1>3, <1>5, FeesGrow
  <2> DEFINE L == FeeUnits
             M == FeeUnits'
  <2>3. /\ M = IF code = PAID THEN L \cup F ELSE L
        /\ L \cap F = {} /\ IsFiniteSet(L)
    BY <2>1 DEF PaidInv
  <2> HIDE DEF L, M, F
  <2>4. Cardinality(L) \in Nat /\ IsFiniteSet(L \cup F)
        /\ Cardinality(L \cup F) = Cardinality(L) + terms[t].fee
    BY <1>6, <2>3, AddingUnits
  <2>5. /\ IsFiniteSet(M) /\ Cardinality(L) \in Nat
        /\ Cardinality(M) = Cardinality(L) + (IF code = PAID THEN terms[t].fee ELSE 0)
    BY <2>3, <2>4
  <2> QED
    BY <2>5 DEF L, M
<1>9. /\ code = PAID => a = worker[t] /\ f = Treasury
      /\ code = RESOLVED_TO_WORKER => a = worker[t] /\ f = terms[t].buyer
      /\ code \notin {PAID, RESOLVED_TO_WORKER} => a = terms[t].buyer /\ f = terms[t].buyer
      /\ code \in {PAID, RESOLVED_TO_WORKER} => worker[t] \in Workers
  BY DEF SettlesAs, TableInv, WellFormed, Held
<1>10. /\ \A x \in Accounts \ {Escrow} :
            usdc'[x] = usdc[x] + (IF x = a THEN terms[t].amount ELSE 0)
                               + (IF x = f THEN terms[t].fee ELSE 0)
       /\ OnlyWorkers \cup {Treasury} \subseteq Accounts \ {Escrow}
       /\ \A x \in Accounts : usdc[x] \in Nat /\ Endowment[x] \in Nat
  <2>1. \A x \in Accounts \ {Escrow} :
            usdc'[x] = usdc[x] + (IF x = a THEN terms[t].amount ELSE 0)
                               + (IF x = f THEN terms[t].fee ELSE 0)
    <3> TAKE x \in Accounts \ {Escrow}
    <3> HIDE DEF U, F, earns
    <3> QED
      BY SettlementPays
  <2>2. OnlyWorkers \cup {Treasury} \subseteq Accounts \ {Escrow}
    BY EscrowAssumption DEF OnlyWorkers, Accounts
  <2>3. \A x \in Accounts : usdc[x] \in Nat /\ Endowment[x] \in Nat
    BY EscrowAssumption DEF TableInv, TaskTypeOK
  <2> QED
    BY <2>1, <2>2, <2>3
<1>11. ASSUME NEW w \in OnlyWorkers
       PROVE  usdc'[w] = Endowment[w] + Cardinality(EarnedUnits(w)')
  <2>1. w \in Workers /\ w # Treasury /\ w # terms[t].buyer
    BY <1>3 DEF OnlyWorkers
  <2>2. usdc[w] = Endowment[w] + Cardinality(EarnedUnits(w))
    BY DEF PaidInv, PaidAsPromised, OnlyWorkers
  <2>3. usdc'[w] = usdc[w] + (IF earns(w) THEN terms[t].amount ELSE 0)
    BY <2>1, <1>5, <1>9, <1>10
  <2> HIDE DEF earns
  <2> QED
    BY <2>1, <2>2, <2>3, <1>5, <1>7, <1>10
<1>12. ASSUME Treasury \notin Workers \cup Buyers \cup {Relayer}
       PROVE  usdc'[Treasury] = Endowment[Treasury] + Cardinality(FeeUnits')
  <2>1. Treasury # terms[t].buyer /\ (code \in {PAID, RESOLVED_TO_WORKER} => Treasury # worker[t])
    BY <1>3, <1>9, <1>12
  <2>2. usdc[Treasury] = Endowment[Treasury] + Cardinality(FeeUnits)
    BY <1>12 DEF PaidInv, PaidAsPromised
  <2>3. usdc'[Treasury] = usdc[Treasury] + (IF code = PAID THEN terms[t].fee ELSE 0)
    BY <2>1, <1>5, <1>9, <1>10
  <2> QED
    BY <2>2, <2>3, <1>5, <1>8, <1>10
<1> QED
  BY <1>4, <1>7, <1>8, <1>11, <1>12 DEF PaidInv, PaidAsPromised, OnlyWorkers

\* Nothing is settled at the start, and nobody has earned anything.
LEMMA PaidInitial == Init => PaidInv
<1> SUFFICES ASSUME Init PROVE PaidInv
  OBVIOUS
<1> USE DEF PAID, RESOLVED_TO_WORKER, RESOLVED_TO_BUYER, NoOutcome
<1>1. \A t \in TaskIds : verdict[t] = NoOutcome
  BY DEF Init
<1>2. FeeUnits = {} /\ \A w \in Workers : EarnedUnits(w) = {}
  BY <1>1 DEF FeeUnits, EarnedUnits
<1>3. IsFiniteSet({}) /\ Cardinality({}) = 0
  BY FS_EmptySet
<1>4. \A x \in Accounts : usdc[x] = Endowment[x] + 0
  BY EscrowAssumption DEF Init
<1>5. \A w \in Workers : w \in Accounts /\ Cardinality(EarnedUnits(w)) = 0
  BY <1>2, <1>3 DEF Accounts
<1>6. Treasury \in Accounts /\ Cardinality(FeeUnits) = 0
  BY <1>2, <1>3 DEF Accounts
<1>7. PaidAsPromised
  BY <1>4, <1>5, <1>6 DEF PaidAsPromised
<1> QED
  BY <1>1, <1>2, <1>3, <1>7 DEF PaidInv, VerdictsAreFinal

\* No call on a settled task changes it, and posting only writes a new one.
LEMMA OthersGiveNoVerdict ==
    ASSUME TableInv, VerdictsAreFinal,
           \/ \E p \in PostParams : \E payer \in {Relayer, p.buyer} : post(payer, p)
           \/ \E t \in TaskIds :
                 \/ \E w \in Workers :
                       claimOpen(t, w) \/ claimStale(t, w) \/ releaseClaim(t, w) \/ submit(t, w)
                 \/ dispute(t)
           \/ \E p \in BOOLEAN : setPaused(p)
           \/ \E b \in Allowlistable, allowed \in BOOLEAN : setAllowlistedBuyer(b, allowed)
           \/ Registry \/ Mark \/ Tick \/ UNCHANGED vars
    PROVE  NoVerdict
<1> USE DEF NoVerdict, Final
<1>1. ASSUME NEW p \in PostParams, NEW payer \in {Relayer, p.buyer}, post(payer, p)
      PROVE  NoVerdict
  <2>1. state[taskCount + 1] = "None" \/ taskCount + 1 \notin TaskIds
    BY DEF TableInv, TaskTypeOK, WellFormed
  <2> QED
    BY <1>1, <2>1 DEF post, VerdictsAreFinal, TableInv, TaskTypeOK
<1>2. ASSUME NEW t \in TaskIds,
             \/ \E w \in Workers :
                   claimOpen(t, w) \/ claimStale(t, w) \/ releaseClaim(t, w) \/ submit(t, w)
             \/ dispute(t)
      PROVE  NoVerdict
  <2>1. state[t] \notin Final
    BY <1>2 DEF claimOpen, claimStale, releaseClaim, submit, dispute
  <2>2. /\ verdict' = verdict /\ terms' = terms
        /\ \A u \in TaskIds : u # t => state'[u] = state[u] /\ worker'[u] = worker[u]
    BY <1>2 DEF claimOpen, claimStale, TakeTask, releaseClaim, submit, dispute,
       TableInv, TaskTypeOK
  <2> QED
    BY <2>1, <2>2 DEF VerdictsAreFinal
<1>3. CASE \/ \E p \in BOOLEAN : setPaused(p)
           \/ \E b \in Allowlistable, allowed \in BOOLEAN : setAllowlistedBuyer(b, allowed)
           \/ Registry \/ Mark \/ Tick \/ UNCHANGED vars
  BY <1>3 DEF setPaused, setAllowlistedBuyer, Registry, Mark, Tick, vars, taskVars
<1> QED
  BY <1>1, <1>2, <1>3

\* Every step keeps what was paid in step with the verdicts.
LEMMA PaidStep == Inv /\ PaidInv /\ [Next]_vars => PaidInv'
<1> SUFFICES ASSUME Inv, PaidInv, [Next]_vars PROVE PaidInv'
  OBVIOUS
<1>1. TableInv /\ VerdictsAreFinal
  BY DEF Inv, PaidInv
<1>2. ASSUME NEW t \in TaskIds,
             \/ approve(t) \/ autoRelease(t) \/ expire(t)
             \/ \E toBuyer \in BOOLEAN : resolve(t, toBuyer)
      PROVE  PaidInv'
  BY <1>1, <1>2, SettleOutcome, PaidSettle
<1>3. ASSUME NEW p \in PostParams, NEW payer \in {Relayer, p.buyer}, post(payer, p)
      PROVE  PaidInv'
  <2>1. NoVerdict
    BY <1>1, <1>3, OthersGiveNoVerdict
  <2>2. p.buyer \in Buyers
    BY EscrowAssumption
  <2>3. \A x \in Accounts : x # Escrow /\ x # payer => usdc'[x] = usdc[x]
    BY <1>1, <1>3 DEF post, transfer, TableInv, TaskTypeOK
  <2>4. /\ \A w \in OnlyWorkers : w \in Accounts /\ w # Escrow /\ w # payer
        /\ Treasury \notin Workers \cup Buyers \cup {Relayer} =>
              Treasury \in Accounts /\ Treasury # Escrow /\ Treasury # payer
    BY <2>2, EscrowAssumption DEF OnlyWorkers, Accounts
  <2> QED
    BY <2>1, <2>3, <2>4, NoVerdictKeepsPaid
<1>4. CASE \/ \E t \in TaskIds :
                 \/ \E w \in Workers :
                       claimOpen(t, w) \/ claimStale(t, w) \/ releaseClaim(t, w) \/ submit(t, w)
                 \/ dispute(t)
           \/ \E p \in BOOLEAN : setPaused(p)
           \/ \E b \in Allowlistable, allowed \in BOOLEAN : setAllowlistedBuyer(b, allowed)
           \/ Registry \/ Mark \/ Tick \/ UNCHANGED vars
  <2>1. NoVerdict
    BY <1>1, <1>4, OthersGiveNoVerdict
  <2>2. usdc' = usdc
    BY <1>4 DEF claimOpen, claimStale, TakeTask, releaseClaim, submit, dispute,
       setPaused, setAllowlistedBuyer, Registry, Mark, Tick, vars, taskVars
  <2> QED
    BY <2>1, <2>2, NoVerdictKeepsPaid
<1> QED
  BY <1>2, <1>3, <1>4 DEF Next

\* A worker receives the whole posted rate once for each task settled in its
\* favour, and the treasury a fee only for tasks nobody arbitrated, whoever
\* posts, claims, disputes, marks and resets in between.
THEOREM WorkersGetTheRate == Spec => []PaidAsPromised
<1>1. PaidInv => PaidAsPromised
  BY DEF PaidInv
<1> QED
  BY <1>1, PaidInitial, PaidStep, Invariance, PTL DEF Spec

-----------------------------------------------------------------------------
(************************** Both records move ******************************)

RecordedInv == BothRecordsMove /\ IsFiniteSet(CompletedUnits)

\* The tasks are finite in number, and so is any set of them that was judged.
LEMMA JudgedFinite ==
    ASSUME NEW a, NEW codes
    PROVE  /\ IsFiniteSet(Judged(a, codes)) /\ Cardinality(Judged(a, codes)) \in Nat
           /\ IsFiniteSet(CompletedTasks) /\ Cardinality(CompletedTasks) \in Nat
<1>1. IsFiniteSet(TaskIds)
  BY EscrowAssumption, FS_Interval DEF TaskIds
<1>2. Judged(a, codes) \subseteq TaskIds /\ CompletedTasks \subseteq TaskIds
  BY DEF Judged, CompletedTasks
<1> QED
  BY <1>1, <1>2, FS_Subset, FS_CardinalityType

\* The verdict of a task, given once.
GivesVerdict(t, code) ==
    /\ verdict[t] = NoOutcome /\ verdict' = [verdict EXCEPT ![t] = code]
    /\ UNCHANGED terms

\* A verdict is one more task judged, for its agent and its outcome.
LEMMA JudgedGrows ==
    ASSUME TableInv, NEW t \in TaskIds, NEW code \in OutcomeCodes \cup {NoOutcome},
           GivesVerdict(t, code), NEW a \in AgentIds, NEW codes \in SUBSET OutcomeCodes
    PROVE  Cardinality(Judged(a, codes)') = Cardinality(Judged(a, codes))
               + (IF terms[t].buyerAgentId = a /\ code \in codes THEN 1 ELSE 0)
<1>1. /\ verdict'[t] = code /\ terms' = terms /\ verdict[t] \notin codes
      /\ \A u \in TaskIds : u # t => verdict'[u] = verdict[u]
  BY DEF GivesVerdict, TableInv, TaskTypeOK, OutcomeCodes, NoOutcome, PAID,
     RESOLVED_TO_WORKER, RESOLVED_TO_BUYER
<1>2. IsFiniteSet(Judged(a, codes)) /\ Cardinality(Judged(a, codes)) \in Nat
  BY JudgedFinite
<1>3. t \notin Judged(a, codes)
  BY <1>1 DEF Judged
<1>4. CASE terms[t].buyerAgentId = a /\ code \in codes
  <2>1. Judged(a, codes)' = Judged(a, codes) \cup {t}
    BY <1>1, <1>4 DEF Judged
  <2> QED
    BY <2>1, <1>2, <1>3, <1>4, FS_AddElement
<1>5. CASE ~(terms[t].buyerAgentId = a /\ code \in codes)
  <2>1. Judged(a, codes)' = Judged(a, codes)
    BY <1>1, <1>5 DEF Judged
  <2> QED
    BY <2>1, <1>2, <1>5
<1> QED
  BY <1>4, <1>5

\* A step that gives no verdict leaves what was judged as it was.
LEMMA NoVerdictKeepsJudged ==
    ASSUME NoVerdict
    PROVE  /\ \A a \in AgentIds, codes \in SUBSET OutcomeCodes :
                 Judged(a, codes)' = Judged(a, codes)
           /\ CompletedTasks' = CompletedTasks
<1>1. ASSUME NEW a \in AgentIds, NEW codes \in SUBSET OutcomeCodes
      PROVE  Judged(a, codes)' = Judged(a, codes)
  <2>1. \A u \in TaskIds : verdict[u] \in codes => verdict[u] # NoOutcome
    BY DEF OutcomeCodes, NoOutcome, PAID, RESOLVED_TO_WORKER, RESOLVED_TO_BUYER
  <2> QED
    BY <2>1 DEF NoVerdict, Judged
<1>2. CompletedTasks' = CompletedTasks
  BY DEF NoVerdict, CompletedTasks
<1> QED
  BY <1>1, <1>2

\* A unit of a record, in this state and the next.
LEMMA InCompletedUnits ==
    /\ \A x : x \in CompletedUnits <=> \E n \in Rated : \E i \in 1 .. completed[n] : x = <<n, i>>
    /\ \A x : x \in CompletedUnits' <=> \E n \in Rated : \E i \in 1 .. completed'[n] : x = <<n, i>>
BY DEF CompletedUnits, Units

\* A feedback call counts a completed task once, under one worker's record.
LEMMA FeedbackCounts ==
    ASSUME ReputationTypeOK, IsFiniteSet(CompletedUnits), NEW n \in Rated, NEW r \in Raters,
           NEW o \in OutcomeCodes, feedback(n, r, o)
    PROVE  /\ IsFiniteSet(CompletedUnits') /\ Cardinality(CompletedUnits) \in Nat
           /\ Cardinality(CompletedUnits') = Cardinality(CompletedUnits)
                  + (IF o \in {PAID, RESOLVED_TO_WORKER} THEN 1 ELSE 0)
<1> USE DEF PAID, RESOLVED_TO_WORKER, RESOLVED_TO_BUYER, OutcomeCodes
<1>1. /\ \A m \in Rated : completed[m] \in Nat
      /\ \A m \in Rated : m # n => completed'[m] = completed[m]
      /\ completed'[n] = IF o = RESOLVED_TO_BUYER THEN completed[n] ELSE completed[n] + 1
  BY DEF ReputationTypeOK, feedback
<1>2. Cardinality(CompletedUnits) \in Nat
  BY FS_CardinalityType
<1>3. CASE o = RESOLVED_TO_BUYER
  <2>1. \A x : x \in CompletedUnits' <=> x \in CompletedUnits
    BY <1>1, <1>3, InCompletedUnits
  <2>2. CompletedUnits' = CompletedUnits /\ o \notin {PAID, RESOLVED_TO_WORKER}
    BY <2>1, <1>3
  <2> QED
    BY <2>2, <1>2
<1>4. CASE o # RESOLVED_TO_BUYER
  <2> DEFINE y == <<n, completed[n] + 1>>
  <2>1. y \notin CompletedUnits
    BY <1>1, InCompletedUnits
  <2>2. ASSUME NEW x
        PROVE  x \in CompletedUnits' <=> x \in CompletedUnits \/ x = y
    <3>1. ASSUME x \in CompletedUnits' PROVE x \in CompletedUnits \/ x = y
      <4>1. PICK m \in Rated : \E i \in 1 .. completed'[m] : x = <<m, i>>
        BY <3>1, InCompletedUnits
      <4>2. PICK i \in 1 .. completed'[m] : x = <<m, i>>
        BY <4>1
      <4>3. m # n \/ i \in 1 .. completed[n] \/ i = completed[n] + 1
        BY <1>1, <1>4, <4>2
      <4> QED
        BY <1>1, <4>2, <4>3, InCompletedUnits
    <3>2. ASSUME x \in CompletedUnits PROVE x \in CompletedUnits'
      <4>1. PICK m \in Rated : \E i \in 1 .. completed[m] : x = <<m, i>>
        BY <3>2, InCompletedUnits
      <4>2. 1 .. completed[m] \subseteq 1 .. completed'[m]
        BY <1>1, <1>4
      <4> QED
        BY <4>1, <4>2, InCompletedUnits
    <3>3. y \in CompletedUnits'
      <4>1. completed[n] + 1 \in 1 .. completed'[n]
        BY <1>1, <1>4
      <4> QED
        BY <4>1, InCompletedUnits
    <3> QED
      BY <3>1, <3>2, <3>3
  <2>3. CompletedUnits' = CompletedUnits \cup {y}
    BY <2>2
  <2> HIDE DEF y
  <2>4. /\ IsFiniteSet(CompletedUnits')
        /\ Cardinality(CompletedUnits') = Cardinality(CompletedUnits) + 1
    BY <2>1, <2>3, FS_AddElement
  <2> QED
    BY <2>4, <1>2, <1>4
<1> QED
  BY <1>3, <1>4

\* A settlement moves the record of the agent that hired, by its outcome.
LEMMA AgentRecordSettles ==
    ASSUME TableInv, AbuseMarkTypeOK, BothRecordsMove, NEW t \in TaskIds,
           NEW code \in OutcomeCodes, writeOutcome(t, code),
           verdict[t] = NoOutcome, UNCHANGED terms, NEW a \in AgentIds
    PROVE  /\ entriesOf'[a] = marksOf'[a] + Cardinality(Judged(a, OutcomeCodes)')
           /\ standingOf'[a] = Cardinality(Judged(a, {PAID, RESOLVED_TO_BUYER})')
                - Cardinality(Judged(a, {RESOLVED_TO_WORKER})') - marksOf'[a]
<1> DEFINE J == Cardinality(Judged(a, OutcomeCodes))
           F == Cardinality(Judged(a, {PAID, RESOLVED_TO_BUYER}))
           G == Cardinality(Judged(a, {RESOLVED_TO_WORKER}))
           mine == terms[t].buyerAgentId = a
<1>1. GivesVerdict(t, code) /\ code \in OutcomeCodes \cup {NoOutcome}
  BY DEF writeOutcome, GivesVerdict
<1>2. {PAID, RESOLVED_TO_BUYER} \in SUBSET OutcomeCodes
      /\ {RESOLVED_TO_WORKER} \in SUBSET OutcomeCodes /\ OutcomeCodes \in SUBSET OutcomeCodes
  BY DEF OutcomeCodes
<1>3. /\ Cardinality(Judged(a, OutcomeCodes)') = J + (IF mine THEN 1 ELSE 0)
      /\ Cardinality(Judged(a, {PAID, RESOLVED_TO_BUYER})') =
            F + (IF mine /\ code \in {PAID, RESOLVED_TO_BUYER} THEN 1 ELSE 0)
      /\ Cardinality(Judged(a, {RESOLVED_TO_WORKER})') =
            G + (IF mine /\ code \in {RESOLVED_TO_WORKER} THEN 1 ELSE 0)
  <2>1. ASSUME NEW codes \in SUBSET OutcomeCodes
        PROVE  Cardinality(Judged(a, codes)') = Cardinality(Judged(a, codes))
                   + (IF mine /\ code \in codes THEN 1 ELSE 0)
    BY <1>1, JudgedGrows
  <2>2. Cardinality(Judged(a, OutcomeCodes)') = J + (IF mine THEN 1 ELSE 0)
    BY <2>1, <1>2
  <2>3. Cardinality(Judged(a, {PAID, RESOLVED_TO_BUYER})') =
            F + (IF mine /\ code \in {PAID, RESOLVED_TO_BUYER} THEN 1 ELSE 0)
    BY <2>1, <1>2
  <2>4. Cardinality(Judged(a, {RESOLVED_TO_WORKER})') =
            G + (IF mine /\ code \in {RESOLVED_TO_WORKER} THEN 1 ELSE 0)
    BY <2>1, <1>2
  <2> HIDE DEF J, F, G, mine
  <2> QED
    BY <2>2, <2>3, <2>4
<1>4. J \in Nat /\ F \in Nat /\ G \in Nat
  BY JudgedFinite
<1>5. /\ entriesOf[a] = marksOf[a] + J /\ standingOf[a] = F - G - marksOf[a]
      /\ marksOf[a] \in Nat
  BY DEF BothRecordsMove, AbuseMarkTypeOK
<1>6. CASE mine
  <2>1. outcome(a, code)
    BY <1>6, EscrowAssumption DEF writeOutcome
  <2>2. /\ marksOf'[a] = marksOf[a] /\ entriesOf'[a] = entriesOf[a] + 1
        /\ standingOf'[a] = standingOf[a] + agentValue(code)
    BY <2>1 DEF outcome, giveFeedback, AbuseMarkTypeOK
  <2>3. \/ code \in {PAID, RESOLVED_TO_BUYER} /\ code \notin {RESOLVED_TO_WORKER}
              /\ agentValue(code) = 1
        \/ code \notin {PAID, RESOLVED_TO_BUYER} /\ code \in {RESOLVED_TO_WORKER}
              /\ agentValue(code) = -1
    BY DEF OutcomeCodes, PAID, RESOLVED_TO_WORKER, RESOLVED_TO_BUYER, agentValue
  <2> HIDE DEF J, F, G, mine
  <2> QED
    BY <1>3, <1>4, <1>5, <1>6, <2>2, <2>3
<1>7. CASE ~mine
  <2>1. /\ marksOf'[a] = marksOf[a] /\ entriesOf'[a] = entriesOf[a]
        /\ standingOf'[a] = standingOf[a]
    BY <1>7 DEF writeOutcome, outcome, giveFeedback, AbuseMarkTypeOK, abuseMarkVars
  <2> HIDE DEF J, F, G, mine
  <2> QED
    BY <1>3, <1>4, <1>5, <1>7, <2>1
<1> QED
  BY <1>6, <1>7

\* A settlement moves the record of the worker, and counts its task there.
LEMMA CompletedSettles ==
    ASSUME TableInv, NEW t \in TaskIds, NEW code \in OutcomeCodes,
           verdict[t] = NoOutcome, verdict' = [verdict EXCEPT ![t] = code]
    PROVE  Cardinality(CompletedTasks') = Cardinality(CompletedTasks)
               + (IF code \in {PAID, RESOLVED_TO_WORKER} THEN 1 ELSE 0)
<1> USE DEF PAID, RESOLVED_TO_WORKER, RESOLVED_TO_BUYER, OutcomeCodes, NoOutcome
<1>1. /\ verdict'[t] = code /\ t \notin CompletedTasks
      /\ \A u \in TaskIds : u # t => verdict'[u] = verdict[u]
  BY DEF TableInv, TaskTypeOK, CompletedTasks
<1>2. IsFiniteSet(CompletedTasks) /\ Cardinality(CompletedTasks) \in Nat
  BY JudgedFinite
<1>3. CASE code \in {PAID, RESOLVED_TO_WORKER}
  <2>1. CompletedTasks' = CompletedTasks \cup {t}
    BY <1>1, <1>3 DEF CompletedTasks
  <2> QED
    BY <2>1, <1>1, <1>2, <1>3, FS_AddElement
<1>4. CASE code \notin {PAID, RESOLVED_TO_WORKER}
  <2>1. CompletedTasks' = CompletedTasks
    BY <1>1, <1>4 DEF CompletedTasks
  <2> QED
    BY <2>1, <1>2, <1>4
<1> QED
  BY <1>3, <1>4

\* With no verdict the records are right as long as they are left alone.
LEMMA NoVerdictKeepsRecorded ==
    ASSUME RecordedInv, NoVerdict, UNCHANGED reputationVars,
           \A a \in AgentIds :
               /\ entriesOf'[a] - marksOf'[a] = entriesOf[a] - marksOf[a]
               /\ standingOf'[a] + marksOf'[a] = standingOf[a] + marksOf[a],
           AbuseMarkTypeOK, AbuseMarkTypeOK'
    PROVE  RecordedInv'
<1>1. CompletedUnits' = CompletedUnits /\ CompletedTasks' = CompletedTasks
  BY NoVerdictKeepsJudged DEF CompletedUnits, reputationVars
<1>2. ASSUME NEW a \in AgentIds
      PROVE  /\ entriesOf'[a] = marksOf'[a] + Cardinality(Judged(a, OutcomeCodes)')
             /\ standingOf'[a] = Cardinality(Judged(a, {PAID, RESOLVED_TO_BUYER})')
                  - Cardinality(Judged(a, {RESOLVED_TO_WORKER})') - marksOf'[a]
  <2> DEFINE J == Cardinality(Judged(a, OutcomeCodes))
             F == Cardinality(Judged(a, {PAID, RESOLVED_TO_BUYER}))
             G == Cardinality(Judged(a, {RESOLVED_TO_WORKER}))
  <2>1. /\ Cardinality(Judged(a, OutcomeCodes)') = J
        /\ Cardinality(Judged(a, {PAID, RESOLVED_TO_BUYER})') = F
        /\ Cardinality(Judged(a, {RESOLVED_TO_WORKER})') = G
    BY NoVerdictKeepsJudged DEF OutcomeCodes
  <2>2. J \in Nat /\ F \in Nat /\ G \in Nat
    BY JudgedFinite
  <2>3. /\ entriesOf[a] = marksOf[a] + J /\ standingOf[a] = F - G - marksOf[a]
        /\ marksOf[a] \in Nat /\ marksOf'[a] \in Nat
        /\ entriesOf'[a] \in Nat /\ standingOf'[a] \in Int
    BY DEF RecordedInv, BothRecordsMove, AbuseMarkTypeOK
  <2> HIDE DEF J, F, G
  <2> QED
    BY <2>1, <2>2, <2>3
<1> QED
  BY <1>1, <1>2 DEF RecordedInv, BothRecordsMove

\* A settlement keeps both records in step with the verdicts.
LEMMA RecordedSettle ==
    ASSUME Inv, PaidInv, RecordedInv, NEW t \in TaskIds,
           NEW code \in OutcomeCodes \cup {NoOutcome},
           NEW a \in Accounts \ {Escrow}, NEW f \in Accounts \ {Escrow},
           SettlesAs(t, code, a, f)
    PROVE  RecordedInv'
<1>1. /\ TableInv /\ RecordsInv /\ RegistryInv /\ AbuseMarkTypeOK /\ ReputationTypeOK
      /\ VerdictsAreFinal /\ BothRecordsMove /\ IsFiniteSet(CompletedUnits)
  BY DEF Inv, RecordsInv, PaidInv, RecordedInv
<1>2. PICK final \in Final : Settles(t, final, a, f)
  BY DEF SettlesAs
<1>3. /\ state[t] \in Live /\ UNCHANGED <<worker, terms>>
      /\ verdict' = [verdict EXCEPT ![t] = code]
  BY <1>2 DEF Settles, Close, SettlesAs
<1>4. verdict[t] = NoOutcome
  BY <1>1, <1>3 DEF VerdictsAreFinal, Live, Held, Final
<1>5. CASE code = NoOutcome
  <2>1. UNCHANGED <<reputationVars, abuseMarkVars>>
    BY <1>5 DEF SettlesAs
  <2>2. verdict' = verdict
    BY <1>1, <1>3, <1>4, <1>5 DEF TableInv, TaskTypeOK
  <2>3. \A u \in TaskIds : u # t => state'[u] = state[u]
    BY <1>1, <1>2 DEF Settles, Close, TableInv, TaskTypeOK
  <2>4. NoVerdict
    BY <1>3, <1>4, <2>2, <2>3 DEF NoVerdict
  <2>5. /\ UNCHANGED reputationVars /\ entriesOf' = entriesOf /\ marksOf' = marksOf
        /\ standingOf' = standingOf /\ AbuseMarkTypeOK'
    BY <2>1, <1>1 DEF abuseMarkVars, AbuseMarkTypeOK
  <2> QED
    BY <2>4, <2>5, <1>1, NoVerdictKeepsRecorded
<1>6. CASE code # NoOutcome
  <2>1. state[t] \in Held /\ writeOutcome(t, code) /\ code \in OutcomeCodes
    BY <1>6 DEF SettlesAs
  <2>2. \A x \in AgentIds :
          /\ entriesOf'[x] = marksOf'[x] + Cardinality(Judged(x, OutcomeCodes)')
          /\ standingOf'[x] = Cardinality(Judged(x, {PAID, RESOLVED_TO_BUYER})')
               - Cardinality(Judged(x, {RESOLVED_TO_WORKER})') - marksOf'[x]
    BY <2>1, <1>1, <1>3, <1>4, AgentRecordSettles
  <2>3. worker[t] \in Workers /\ terms[t].buyer \in Buyers
    BY <2>1, <1>1 DEF TableInv, WellFormed, Held
  <2>4. nullifierOf(worker[t]) \in Rated
    BY <2>3, <1>1, EscrowAssumption DEF nullifierOf, RegistryInv, RegistryTypeOK, Record
  <2>5. terms[t].buyerAgentId \in AgentIds \cup {NoAgent}
    BY <1>1 DEF TableInv, TaskTypeOK, Terms
  <2>6. raterKey(t) \in Raters
    BY <2>3, <2>5, EscrowAssumption DEF raterKey
  <2>7. feedback(nullifierOf(worker[t]), raterKey(t), code)
    BY <2>1 DEF writeOutcome
  <2> DEFINE n == nullifierOf(worker[t])
             r == raterKey(t)
  <2>8. n \in Rated /\ r \in Raters /\ feedback(n, r, code)
    BY <2>4, <2>6, <2>7
  <2> HIDE DEF n, r
  <2>9. /\ IsFiniteSet(CompletedUnits') /\ Cardinality(CompletedUnits) \in Nat
        /\ Cardinality(CompletedUnits') = Cardinality(CompletedUnits)
               + (IF code \in {PAID, RESOLVED_TO_WORKER} THEN 1 ELSE 0)
    BY <2>1, <2>8, <1>1, FeedbackCounts
  <2>10. Cardinality(CompletedTasks') = Cardinality(CompletedTasks)
               + (IF code \in {PAID, RESOLVED_TO_WORKER} THEN 1 ELSE 0)
    BY <2>1, <1>1, <1>3, <1>4, CompletedSettles
  <2>11. Cardinality(CompletedUnits) = Cardinality(CompletedTasks)
    BY <1>1 DEF BothRecordsMove
  <2> QED
    BY <2>2, <2>9, <2>10, <2>11 DEF RecordedInv, BothRecordsMove
<1> QED
  BY <1>5, <1>6

\* Nothing is recorded at the start.
LEMMA RecordedInitial == Init => RecordedInv
<1> SUFFICES ASSUME Init PROVE RecordedInv
  OBVIOUS
<1> USE DEF PAID, RESOLVED_TO_WORKER, RESOLVED_TO_BUYER, NoOutcome, OutcomeCodes
<1>1. \A t \in TaskIds : verdict[t] = NoOutcome
  BY DEF Init
<1>2. \A a \in AgentIds : entriesOf[a] = 0 /\ marksOf[a] = 0 /\ standingOf[a] = 0
  BY DEF Init, AbuseMarkInit
<1>3. /\ \A a \in AgentIds, codes \in SUBSET OutcomeCodes : Judged(a, codes) = {}
      /\ CompletedTasks = {}
  BY <1>1 DEF Judged, CompletedTasks
<1>4. CompletedUnits = {}
  <2>1. \A n \in Rated : completed[n] = 0
    BY DEF Init, ReputationInit
  <2> QED
    BY <2>1, InCompletedUnits
<1>5. IsFiniteSet({}) /\ Cardinality({}) = 0
  BY FS_EmptySet
<1>6. ASSUME NEW a \in AgentIds
      PROVE  /\ entriesOf[a] = marksOf[a] + Cardinality(Judged(a, OutcomeCodes))
             /\ standingOf[a] = Cardinality(Judged(a, {PAID, RESOLVED_TO_BUYER}))
                  - Cardinality(Judged(a, {RESOLVED_TO_WORKER})) - marksOf[a]
  <2>1. /\ Judged(a, OutcomeCodes) = {} /\ Judged(a, {PAID, RESOLVED_TO_BUYER}) = {}
        /\ Judged(a, {RESOLVED_TO_WORKER}) = {}
    BY <1>3
  <2> QED
    BY <2>1, <1>2, <1>5
<1> QED
  BY <1>3, <1>4, <1>5, <1>6 DEF RecordedInv, BothRecordsMove

\* Every step keeps both records in step with the verdicts.
LEMMA RecordedStep == Inv /\ Inv' /\ PaidInv /\ RecordedInv /\ [Next]_vars => RecordedInv'
<1> SUFFICES ASSUME Inv, Inv', PaidInv, RecordedInv, [Next]_vars PROVE RecordedInv'
  OBVIOUS
<1>1. /\ TableInv /\ VerdictsAreFinal /\ AbuseMarkTypeOK /\ AbuseMarkTypeOK'
      /\ now \in Nat
  BY TimesAreNat DEF Inv, PaidInv, RecordsInv
<1>2. ASSUME NEW t \in TaskIds,
             \/ approve(t) \/ autoRelease(t) \/ expire(t)
             \/ \E toBuyer \in BOOLEAN : resolve(t, toBuyer)
      PROVE  RecordedInv'
  BY <1>1, <1>2, SettleOutcome, RecordedSettle
<1>3. CASE Mark
  <2>1. NoVerdict
    BY <1>1, <1>3, OthersGiveNoVerdict
  <2>2. UNCHANGED reputationVars
    BY <1>3 DEF Mark
  <2>3. \A a \in AgentIds :
          /\ entriesOf'[a] - marksOf'[a] = entriesOf[a] - marksOf[a]
          /\ standingOf'[a] + marksOf'[a] = standingOf[a] + marksOf[a]
    <3>1. ASSUME NEW a \in AgentIds, NEW b \in AgentIds, NEW s \in SpecHashes, mark(b, s)
          PROVE  /\ entriesOf'[a] - marksOf'[a] = entriesOf[a] - marksOf[a]
                 /\ standingOf'[a] + marksOf'[a] = standingOf[a] + marksOf[a]
      BY <1>1, <3>1 DEF mark, giveFeedback, AbuseMarkTypeOK
    <3> QED
      BY <1>3, <3>1 DEF Mark, setMarkCooldown
  <2> QED
    BY <2>1, <2>2, <2>3, <1>1, NoVerdictKeepsRecorded
<1>4. CASE \/ \E p \in PostParams : \E payer \in {Relayer, p.buyer} : post(payer, p)
           \/ \E t \in TaskIds :
                 \/ \E w \in Workers :
                       claimOpen(t, w) \/ claimStale(t, w) \/ releaseClaim(t, w) \/ submit(t, w)
                 \/ dispute(t)
           \/ \E p \in BOOLEAN : setPaused(p)
           \/ \E b \in Allowlistable, allowed \in BOOLEAN : setAllowlistedBuyer(b, allowed)
           \/ Registry \/ Tick \/ UNCHANGED vars
  <2>1. NoVerdict
    BY <1>1, <1>4, OthersGiveNoVerdict
  <2>2. UNCHANGED <<reputationVars, abuseMarkVars>>
    BY <1>4 DEF post, claimOpen, claimStale, TakeTask, releaseClaim, submit, dispute,
       setPaused, setAllowlistedBuyer, Registry, Tick, vars
  <2>3. entriesOf' = entriesOf /\ marksOf' = marksOf /\ standingOf' = standingOf
    BY <2>2 DEF abuseMarkVars
  <2> QED
    BY <2>1, <2>2, <2>3, <1>1, NoVerdictKeepsRecorded
<1> QED
  BY <1>2, <1>3, <1>4 DEF Next

\* Both records move, together and once: an agent's ERC-8004 entries are its
\* settled tasks and its marks, with the sign of who was right, and the
\* completed tasks of all workers are the tasks paid.
THEOREM BothRecordsAgree == Spec => []BothRecordsMove
<1>1. RecordedInv => BothRecordsMove
  BY DEF RecordedInv
<1>2. Spec => []Inv
  BY Invariance
<1>3. Spec => []PaidInv
  BY PaidInitial, PaidStep, Invariance, PTL DEF Spec
<1> QED
  BY <1>1, <1>2, <1>3, RecordedInitial, RecordedStep, PTL DEF Spec

-----------------------------------------------------------------------------
(******************************* The promise *******************************)
(* TaskEscrow implements EscrowPromise: every step of the contracts is one *)
(* step of the promise or leaves the stages and the holders as they were.  *)
(***************************************************************************)

stageMap == [t \in TaskIds |-> StageOf(t)]
buyerMap == [t \in TaskIds |-> terms[t].buyer]
holderMap == [t \in TaskIds |-> HolderOf(t)]

\* A step that changes one task's state and worker changes that task's stage
\* and holder, and no other.
LEMMA OneTaskMoves ==
    ASSUME TableInv, NEW t \in TaskIds, NEW s \in States,
           state' = [state EXCEPT ![t] = s],
           \A u \in TaskIds \ {t} : worker'[u] = worker[u]
    PROVE  /\ stageMap' = [stageMap EXCEPT ![t] = StageOf(t)']
           /\ holderMap' = [holderMap EXCEPT ![t] = HolderOf(t)']
           /\ state'[t] = s
<1>1. \A u \in TaskIds : state'[u] = IF u = t THEN s ELSE state[u]
  BY DEF TableInv, TaskTypeOK
<1>2. \A u \in TaskIds \ {t} : StageOf(u)' = StageOf(u) /\ HolderOf(u)' = HolderOf(u)
  BY <1>1 DEF StageOf, HolderOf
<1>3. stageMap' = [u \in TaskIds |-> StageOf(u)']
      /\ holderMap' = [u \in TaskIds |-> HolderOf(u)']
  BY DEF stageMap, holderMap
<1> QED
  BY <1>1, <1>2, <1>3 DEF stageMap, holderMap

\* The contract starts where the promise starts.
LEMMA PromiseStart == Init => Promise!Init
<1> SUFFICES ASSUME Init PROVE Promise!Init
  OBVIOUS
<1>1. \A t \in TaskIds :
        StageOf(t) = "unposted" /\ terms[t].buyer = NoAddress /\ HolderOf(t) = NoAddress
  BY DEF Init, StageOf, HolderOf, Held, NoTerms
<1> QED
  BY <1>1 DEF Promise!Init

\* The promise counts with the same cardinality.
LEMMA SameCount ==
    ASSUME NEW S
    PROVE  Promise!Cardinality(S) = Cardinality(S)
BY DEF Promise!Cardinality, Cardinality

\* The task a post makes was not there.
LEMMA PostedIsNew ==
    ASSUME Inv, NEW p \in PostParams, NEW payer, post(payer, p)
    PROVE  /\ p.buyer \in Buyers /\ taskCount + 1 \in TaskIds
           /\ state[taskCount + 1] = "None" /\ worker[taskCount + 1] = NoAddress
<1>1. taskCount < MaxTasks
  BY DEF post
<1>2. p.buyer \in Buyers /\ MaxTasks \in Nat
  BY EscrowAssumption
<1>3. taskCount \in 0 .. MaxTasks /\ WellFormed
  BY DEF Inv, TableInv, TaskTypeOK
<1>4. taskCount + 1 \in TaskIds /\ ~(taskCount + 1 =< taskCount)
  BY <1>1, <1>2, <1>3 DEF TaskIds
<1>5. state[taskCount + 1] = "None"
  BY <1>3, <1>4 DEF WellFormed
<1> QED
  BY <1>2, <1>3, <1>4, <1>5 DEF WellFormed

\* post lists a task.
LEMMA PostLists ==
    ASSUME Inv, NEW p \in PostParams, NEW payer \in {Relayer, p.buyer}, post(payer, p)
    PROVE  Promise!Next
<1>1. p.buyer \in Buyers /\ MaxTasks \in Nat /\ maxOpenTasksPerBuyer \in Nat
  BY EscrowAssumption
<1>2. PICK t \in TaskIds : t = taskCount + 1 /\ state[t] = "None" /\ worker[t] = NoAddress
  BY PostedIsNew
<1>3. state' = [state EXCEPT ![t] = "Open"] /\ worker' = worker
  BY <1>2 DEF post
<1>4. /\ stageMap' = [stageMap EXCEPT ![t] = StageOf(t)']
      /\ holderMap' = [holderMap EXCEPT ![t] = HolderOf(t)']
      /\ state'[t] = "Open"
  BY <1>3, OneTaskMoves DEF Inv, States
<1>5. stageMap[t] = "unposted" /\ stageMap' = [stageMap EXCEPT ![t] = "listed"]
  BY <1>2, <1>4 DEF stageMap, StageOf
<1>6. holderMap' = holderMap
  BY <1>2, <1>4 DEF holderMap, HolderOf, Held
<1>7. buyerMap' = [buyerMap EXCEPT ![t] = p.buyer]
  <2>1. \A u \in TaskIds : terms'[u].buyer = IF u = t THEN p.buyer ELSE terms[u].buyer
    BY <1>2 DEF Inv, TableInv, TaskTypeOK, post
  <2> QED
    BY <2>1 DEF buyerMap
<1>8. Promise!AliveOf(p.buyer) = LiveOf(p.buyer)
  BY DEF Promise!AliveOf, Promise!Alive, LiveOf, Live, Held, StageOf, Inv, TableInv,
     TaskTypeOK, States
<1>9. Cardinality(LiveOf(p.buyer)) < maxOpenTasksPerBuyer
  BY <1>1 DEF Inv, MoneyInv, OpenTasksCounted, post
<1>10. Promise!List(t, p.buyer)
  <2>1. Promise!Cardinality(Promise!AliveOf(p.buyer)) < maxOpenTasksPerBuyer
    BY <1>8, <1>9, SameCount
  <2>2. Promise!Move(t, "unposted", "listed")
    BY <1>5 DEF Promise!Move, stageMap
  <2>3. [u \in TaskIds |-> terms[u].buyer]'
          = [[u \in TaskIds |-> terms[u].buyer] EXCEPT ![t] = p.buyer]
    BY <1>7 DEF buyerMap
  <2>4. [u \in TaskIds |-> HolderOf(u)]' = [u \in TaskIds |-> HolderOf(u)]
    BY <1>6 DEF holderMap
  <2> QED
    BY <2>1, <2>2, <2>3, <2>4, Zenon DEF Promise!List
<1> QED
  BY <1>10, <1>1 DEF Promise!Next

\* A claim, fresh or displacing a stale one, takes the task for a free worker.
LEMMA ClaimTakes ==
    ASSUME Inv, NEW t \in TaskIds, NEW w \in Workers, claimOpen(t, w) \/ claimStale(t, w)
    PROVE  Promise!Next
<1>1. /\ state[t] \in {"Open", "Claimed"} /\ activeClaimOf[w] = NoTask
      /\ state' = [state EXCEPT ![t] = "Claimed"]
      /\ worker' = [worker EXCEPT ![t] = w] /\ terms' = terms
  BY DEF claimOpen, claimStale, TakeTask, MayClaim
<1>2. \A u \in TaskIds : HolderOf(u) # w
  BY <1>1, RegistryAssumption
  DEF Inv, TableInv, ClaimsAgree, HolderOf, TaskIds, NoTask
<1>3. worker'[t] = w /\ \A u \in TaskIds \ {t} : worker'[u] = worker[u]
  BY <1>1 DEF Inv, TableInv, TaskTypeOK
<1>4. /\ stageMap' = [stageMap EXCEPT ![t] = StageOf(t)']
      /\ holderMap' = [holderMap EXCEPT ![t] = HolderOf(t)']
      /\ state'[t] = "Claimed"
  BY <1>1, <1>3, OneTaskMoves DEF Inv, States
<1>5. /\ stageMap[t] \in {"listed", "held"}
      /\ stageMap' = [stageMap EXCEPT ![t] = "held"]
  BY <1>1, <1>4 DEF stageMap, StageOf
<1>6. holderMap' = [holderMap EXCEPT ![t] = w]
  BY <1>3, <1>4 DEF HolderOf, Held
<1>7. buyerMap' = buyerMap
  BY <1>1 DEF buyerMap
<1>8. Promise!Take(t, w)
  BY <1>2, <1>5, <1>6, <1>7
  DEF Promise!Take, Promise!Free, Promise!Move, Promise!Hold, stageMap, buyerMap, holderMap
<1> QED
  BY <1>8 DEF Promise!Next

\* releaseClaim hands back, submit proves, dispute contests.
LEMMA OthersMove ==
    ASSUME Inv, NEW t \in TaskIds,
           (\E w \in Workers : releaseClaim(t, w) \/ submit(t, w)) \/ dispute(t)
    PROVE  Promise!Next
<1>1. terms' = terms /\ buyerMap' = buyerMap
  BY DEF releaseClaim, submit, dispute, buyerMap
<1>2. ASSUME NEW w \in Workers, releaseClaim(t, w)
      PROVE  Promise!HandBack(t)
  <2>1. /\ state[t] = "Claimed" /\ state' = [state EXCEPT ![t] = "Open"]
        /\ \A u \in TaskIds \ {t} : worker'[u] = worker[u]
    BY <1>2 DEF releaseClaim, Inv, TableInv, TaskTypeOK
  <2>2. /\ stageMap' = [stageMap EXCEPT ![t] = StageOf(t)']
        /\ holderMap' = [holderMap EXCEPT ![t] = HolderOf(t)']
        /\ state'[t] = "Open"
    BY <2>1, OneTaskMoves DEF Inv, States
  <2>3. /\ stageMap[t] = "held" /\ stageMap' = [stageMap EXCEPT ![t] = "listed"]
        /\ holderMap' = [holderMap EXCEPT ![t] = NoAddress]
    BY <2>1, <2>2 DEF stageMap, StageOf, HolderOf, Held
  <2> QED
    BY <2>3, <1>1
    DEF Promise!HandBack, Promise!Move, Promise!Hold, stageMap, buyerMap, holderMap
<1>3. ASSUME NEW w \in Workers, submit(t, w)
      PROVE  Promise!Prove(t)
  <2>1. /\ state[t] = "Claimed" /\ state' = [state EXCEPT ![t] = "Submitted"]
        /\ worker' = worker
    BY <1>3 DEF submit
  <2>2. /\ stageMap' = [stageMap EXCEPT ![t] = StageOf(t)']
        /\ holderMap' = [holderMap EXCEPT ![t] = HolderOf(t)']
        /\ state'[t] = "Submitted"
    BY <2>1, OneTaskMoves DEF Inv, States
  <2>3. /\ stageMap[t] = "held" /\ stageMap' = [stageMap EXCEPT ![t] = "proven"]
        /\ HolderOf(t)' = HolderOf(t)
    BY <2>1, <2>2 DEF stageMap, StageOf, HolderOf, Held
  <2>4. holderMap' = holderMap
    BY <2>2, <2>3 DEF holderMap
  <2> QED
    BY <2>3, <2>4, <1>1 DEF Promise!Prove, Promise!Move, stageMap, buyerMap, holderMap
<1>4. ASSUME dispute(t)
      PROVE  Promise!Contest(t)
  <2>1. /\ state[t] = "Submitted" /\ state' = [state EXCEPT ![t] = "Disputed"]
        /\ worker' = worker
    BY <1>4 DEF dispute
  <2>2. /\ stageMap' = [stageMap EXCEPT ![t] = StageOf(t)']
        /\ holderMap' = [holderMap EXCEPT ![t] = HolderOf(t)']
        /\ state'[t] = "Disputed"
    BY <2>1, OneTaskMoves DEF Inv, States
  <2>3. /\ stageMap[t] = "proven" /\ stageMap' = [stageMap EXCEPT ![t] = "contested"]
        /\ HolderOf(t)' = HolderOf(t)
    BY <2>1, <2>2 DEF stageMap, StageOf, HolderOf, Held
  <2>4. holderMap' = holderMap
    BY <2>2, <2>3 DEF holderMap
  <2> QED
    BY <2>3, <2>4, <1>1 DEF Promise!Contest, Promise!Move, stageMap, buyerMap, holderMap
<1> QED
  BY <1>2, <1>3, <1>4 DEF Promise!Next

\* approve, autoRelease and resolve settle work that was handed in; expire
\* refunds what nobody did.
LEMMA EndsMove ==
    ASSUME Inv, NEW t \in TaskIds,
           \/ approve(t) \/ autoRelease(t) \/ expire(t)
           \/ \E toBuyer \in BOOLEAN : resolve(t, toBuyer)
    PROVE  Promise!Next
<1>1. PICK final \in Final : Close(t, final) /\ (final = "Refunded" <=> expire(t))
                             /\ (~expire(t) => state[t] \in {"Submitted", "Disputed"})
  BY DEF approve, autoRelease, release, expire, resolve, Final
<1>2. /\ state' = [state EXCEPT ![t] = final] /\ worker' = worker /\ terms' = terms
      /\ buyerMap' = buyerMap
  BY <1>1 DEF Close, buyerMap
<1>3. /\ stageMap' = [stageMap EXCEPT ![t] = StageOf(t)']
      /\ holderMap' = [holderMap EXCEPT ![t] = HolderOf(t)']
      /\ state'[t] = final
  BY <1>2, OneTaskMoves DEF Inv, States, Final
<1>4. holderMap' = [holderMap EXCEPT ![t] = NoAddress]
  BY <1>3 DEF HolderOf, Held, Final
<1>5. CASE expire(t)
  <2>1. state[t] \in {"Open", "Claimed"} /\ final = "Refunded"
    BY <1>1, <1>5 DEF expire
  <2>2. /\ stageMap[t] \in {"listed", "held"}
        /\ stageMap' = [stageMap EXCEPT ![t] = "refunded"]
    BY <1>3, <2>1 DEF stageMap, StageOf
  <2>3. Promise!Refund(t)
    BY <1>2, <1>4, <2>2
    DEF Promise!Refund, Promise!Move, Promise!Hold, stageMap, buyerMap, holderMap
  <2> QED
    BY <2>3 DEF Promise!Next
<1>6. CASE ~expire(t)
  <2>1. state[t] \in {"Submitted", "Disputed"} /\ final \in {"Released", "Resolved"}
    BY <1>1, <1>6 DEF Final
  <2>2. /\ stageMap[t] \in {"proven", "contested"}
        /\ stageMap' = [stageMap EXCEPT ![t] = "settled"]
    BY <1>3, <2>1 DEF stageMap, StageOf
  <2>3. Promise!Settle(t)
    BY <1>2, <1>4, <2>2
    DEF Promise!Settle, Promise!Move, Promise!Hold, stageMap, buyerMap, holderMap
  <2> QED
    BY <2>3 DEF Promise!Next
<1> QED
  BY <1>5, <1>6

\* The owner, the registry, the operator's marks and the clock stutter.
LEMMA AroundStutters ==
    ASSUME \/ \E p \in BOOLEAN : setPaused(p)
           \/ \E b \in Allowlistable, allowed \in BOOLEAN : setAllowlistedBuyer(b, allowed)
           \/ Registry \/ Mark \/ Tick \/ UNCHANGED vars
    PROVE  UNCHANGED <<stageMap, buyerMap, holderMap>>
<1>1. UNCHANGED <<state, worker, terms>>
  BY DEF setPaused, setAllowlistedBuyer, Registry, Mark, Tick, vars, taskVars
<1> QED
  BY <1>1 DEF stageMap, buyerMap, holderMap, StageOf, HolderOf

\* Every step of the contract is a step of the promise or a stutter.
LEMMA PromiseStep == Inv /\ [Next]_vars => [Promise!Next]_(Promise!promiseVars)
<1> SUFFICES ASSUME Inv, [Next]_vars
             PROVE  Promise!Next \/ UNCHANGED Promise!promiseVars
  OBVIOUS
<1>1. ASSUME NEW p \in PostParams, NEW payer \in {Relayer, p.buyer}, post(payer, p)
      PROVE  Promise!Next
  BY <1>1, PostLists
<1>2. ASSUME NEW t \in TaskIds, NEW w \in Workers, claimOpen(t, w) \/ claimStale(t, w)
      PROVE  Promise!Next
  BY <1>2, ClaimTakes
<1>3. ASSUME NEW t \in TaskIds,
             (\E w \in Workers : releaseClaim(t, w) \/ submit(t, w)) \/ dispute(t)
      PROVE  Promise!Next
  BY <1>3, OthersMove
<1>4. ASSUME NEW t \in TaskIds,
             \/ approve(t) \/ autoRelease(t) \/ expire(t)
             \/ \E toBuyer \in BOOLEAN : resolve(t, toBuyer)
      PROVE  Promise!Next
  BY <1>4, EndsMove
<1>5. UNCHANGED <<stageMap, buyerMap, holderMap>> => UNCHANGED Promise!promiseVars
  BY DEF Promise!promiseVars, stageMap, buyerMap, holderMap
<1> QED
  BY <1>1, <1>2, <1>3, <1>4, <1>5, AroundStutters DEF Next

\* The escrow keeps its promise to buyers and workers, for any number of
\* tasks, workers and buyers, and any windows, caps and cooldowns.
THEOREM EscrowKeepsPromise == Spec => KeepsPromise
BY PromiseStart, PromiseStep, Invariance, PTL DEF Spec, KeepsPromise, Promise!Spec

-----------------------------------------------------------------------------
(******************************** The index ********************************)
(* The board the index serves and the records it counts by address are the *)
(* contracts' own.                                                         *)
(***************************************************************************)

\* Every indexed transaction is a transaction of the contracts.
LEMMA IndexedIsNext == [IndexedNext]_indexedVars => [Next]_vars
<1> SUFFICES ASSUME IndexedNext \/ UNCHANGED indexedVars PROVE Next \/ UNCHANGED vars
  OBVIOUS
<1>1. ASSUME NEW t \in TaskIds, IndexedTask(t)
      PROVE  \/ \E w \in Workers :
                   claimOpen(t, w) \/ claimStale(t, w) \/ releaseClaim(t, w) \/ submit(t, w)
             \/ dispute(t) \/ approve(t) \/ autoRelease(t) \/ expire(t)
             \/ \E toBuyer \in BOOLEAN : resolve(t, toBuyer)
  BY <1>1, Zenon DEF IndexedTask
<1>2. IndexedRegistry => Registry
  BY DEF IndexedRegistry, Registry
<1>3. IndexedMark => Mark
  BY DEF IndexedMark, Mark
<1>4. UNCHANGED indexedVars => UNCHANGED vars
  BY DEF indexedVars
<1> QED
  BY <1>1, <1>2, <1>3, <1>4, Zenon DEF IndexedNext, Next

\* Under the index the contracts are what they are without it.
LEMMA IndexedInvariance == IndexedSpec => []Inv
<1>1. Inv /\ [IndexedNext]_indexedVars => Inv'
  BY IndexedIsNext, InvStep
<1> QED
  BY <1>1, InvInitial, PTL DEF IndexedSpec

-----------------------------------------------------------------------------
(**************************** The index's fields ***************************)

Outcome == OutcomeCodes \cup {NoOutcome}

BoardRow == [state : States, worker : Workers \cup {NoAddress}, seeded : BOOLEAN]
WorkerRow == [nullifier : Humans, seeded : BOOLEAN, reset : BOOLEAN,
              completed : Nat, score : Int, distinctRaters : Nat]
BuyerRow == [allowlisted : BOOLEAN, taskCount : Nat, countedExternal : BOOLEAN]
StatsRow == [distinctExternalBuyers : Nat, externalTasks : Nat]
EntriesRow == [marks : Nat, outcomes : Nat]

IndexTypeOK ==
    /\ board \in [TaskIds -> BoardRow]
    /\ people \in [Workers -> WorkerRow]
    /\ slot \in [Workers -> [Raters -> Outcome]]
    /\ posters \in [Buyers -> BuyerRow]
    /\ stats \in StatsRow
    /\ entries \in [AgentIds -> EntriesRow]

EntriesAgree ==
    \A a \in AgentIds :
        /\ entries[a].marks = marksOf[a]
        /\ entries[a].marks + entries[a].outcomes = entriesOf[a]

\* A settlement and its handlers: an outcome is filed for who is on the task.
IndexedSettlement(t, final, code) ==
    /\ state[t] \in Held
    /\ state' = [state EXCEPT ![t] = final] /\ worker' = worker
    /\ UNCHANGED registryVars
    /\ writeOutcome(t, code)
    /\ Settled(t, final, code)

Settling(t) ==
    \E final \in Final, code \in OutcomeCodes : IndexedSettlement(t, final, code)

\* Of the transactions on one task, those that settle it and the others.
LEMMA TaskShape ==
    ASSUME NEW t \in TaskIds, IndexedTask(t)
    PROVE  \/ Settling(t)
           \/ \E w \in Workers :
                 \/ (claimOpen(t, w) \/ claimStale(t, w)) /\ handleTaskClaimed(t, w)
                 \/ releaseClaim(t, w) /\ unclaim(t)
                 \/ submit(t, w) /\ Moved(t, "Submitted")
           \/ dispute(t) /\ Moved(t, "Disputed")
           \/ expire(t) /\ Moved(t, "Refunded")
<1>1. CASE (approve(t) \/ autoRelease(t)) /\ Settled(t, "Released", PAID)
  <2>1. IndexedSettlement(t, "Released", PAID)
    BY <1>1 DEF IndexedSettlement, approve, autoRelease, release, Close, Held
  <2> QED
    BY <2>1 DEF Settling, Final, OutcomeCodes
<1>2. CASE resolve(t, TRUE) /\ Settled(t, "Resolved", RESOLVED_TO_BUYER)
  <2>1. IndexedSettlement(t, "Resolved", RESOLVED_TO_BUYER)
    BY <1>2 DEF IndexedSettlement, resolve, Close, Held
  <2> QED
    BY <2>1 DEF Settling, Final, OutcomeCodes
<1>3. CASE resolve(t, FALSE) /\ Settled(t, "Resolved", RESOLVED_TO_WORKER)
  <2>1. IndexedSettlement(t, "Resolved", RESOLVED_TO_WORKER)
    BY <1>3 DEF IndexedSettlement, resolve, Close, Held
  <2> QED
    BY <2>1 DEF Settling, Final, OutcomeCodes
<1> QED
  BY <1>1, <1>2, <1>3, Zenon DEF IndexedTask

\* A settlement is of a worker's task, by a rater of the record.
LEMMA SettlementTypes ==
    ASSUME Inv, NEW t \in TaskIds, state[t] \in Held
    PROVE  /\ worker[t] \in Workers /\ raterKey(t) \in Raters
           /\ terms[t].buyerAgentId \in AgentIds \cup {NoAgent}
           /\ nullifierOf(worker[t]) \in Rated
<1>1. worker[t] \in Workers /\ terms[t].buyer \in Buyers
  BY DEF Inv, TableInv, WellFormed, Held
<1>2. terms[t].buyerAgentId \in AgentIds \cup {NoAgent}
  BY DEF Inv, TableInv, TaskTypeOK, Terms
<1>3. raterKey(t) \in Raters
  BY <1>1, <1>2, EscrowAssumption DEF raterKey
<1>4. nullifierOf(worker[t]) \in Rated
  BY <1>1, EscrowAssumption DEF nullifierOf, Inv, RegistryInv, RegistryTypeOK, Record
<1> QED
  BY <1>1, <1>2, <1>3, <1>4

\* The index starts as empty as the contracts.
LEMMA IndexTypesInitial == IndexInit => IndexTypeOK
BY RegistryAssumption
DEF IndexInit, IndexTypeOK, BoardRow, WorkerRow, BuyerRow, StatsRow, EntriesRow, NewTask,
    getOrCreateWorker, getOrCreateBuyer, getPosterStats, States, Humans, Outcome

\* A handler that moves one task's row keeps the rows in their type.
LEMMA MovedTypes ==
    ASSUME IndexTypeOK, NEW t \in TaskIds, NEW row \in BoardRow,
           board' = [board EXCEPT ![t] = row], UNCHANGED <<people, slot, posters, stats, entries>>
    PROVE  IndexTypeOK'
BY DEF IndexTypeOK

\* A row moved to another state is still a row.
LEMMA MovedRow ==
    ASSUME IndexTypeOK, NEW t \in TaskIds, NEW s \in States, board' = [board EXCEPT ![t].state = s]
    PROVE  \E row \in BoardRow :
              /\ board' = [board EXCEPT ![t] = row]
              /\ row.state = s /\ row.worker = board[t].worker /\ row.seeded = board[t].seeded
<1> DEFINE row == [state |-> s, worker |-> board[t].worker, seeded |-> board[t].seeded]
<1>1. board[t] \in BoardRow
  BY DEF IndexTypeOK
<1>2. row \in BoardRow /\ row = [board[t] EXCEPT !.state = s]
  BY <1>1 DEF BoardRow
<1>3. board' = [board EXCEPT ![t] = row]
  BY <1>2
<1> QED
  BY <1>2, <1>3

\* Posting keeps the types of the buyers' rows and of the totals.
LEMMA PostedTypes ==
    ASSUME IndexTypeOK, NEW t \in TaskIds, NEW b \in Buyers, handleTaskPosted(t, b)
    PROVE  IndexTypeOK'
<1> DEFINE row == [NewTask EXCEPT !.state = "Open"]
           counted == posters[b].countedExternal \/ ~posters[b].allowlisted
<1>1. row \in BoardRow
  BY DEF BoardRow, NewTask, States
<1>2. posters[b] \in BuyerRow /\ stats \in StatsRow
  BY DEF IndexTypeOK
<1>3. counted \in BOOLEAN
  OBVIOUS
<1>4. PICK buyer : buyer = [posters[b] EXCEPT !.taskCount = @ + 1, !.countedExternal = counted]
  OBVIOUS
<1>5. buyer \in BuyerRow
  <2>1. ASSUME NEW q \in BuyerRow, NEW n \in Nat, NEW c \in BOOLEAN
        PROVE  [q EXCEPT !.taskCount = n, !.countedExternal = c] \in BuyerRow
    BY DEF BuyerRow
  <2>2. posters[b].taskCount + 1 \in Nat
    BY <1>2 DEF BuyerRow
  <2> HIDE DEF counted
  <2> QED
    BY <1>2, <1>3, <1>4, <2>1, <2>2
<1>6. posters' = [posters EXCEPT ![b] = buyer]
  BY <1>4 DEF handleTaskPosted
<1>7. posters' \in [Buyers -> BuyerRow]
  BY <1>5, <1>6 DEF IndexTypeOK
<1>8. stats' \in StatsRow
  BY <1>2 DEF handleTaskPosted, StatsRow, Increment
<1>9. board' \in [TaskIds -> BoardRow]
  BY <1>1 DEF handleTaskPosted, IndexTypeOK
<1> QED
  BY <1>7, <1>8, <1>9 DEF handleTaskPosted, IndexTypeOK

\* What a slot may move a score by.
LEMMA DeltaIsInt == \A old, o : scoreDelta(old, o) \in Int /\ slotValue(o) \in Int
BY DEF scoreDelta, slotValue

\* The row of a worker with other totals.
Totals(row, c, s, d) == [row EXCEPT !.completed = c, !.score = s, !.distinctRaters = d]

\* A settlement counts in the worker's row and leaves who that is alone.
LEMMA TotalsOnly ==
    ASSUME NEW row \in WorkerRow, NEW c \in Nat, NEW s \in Int, NEW d \in Nat
    PROVE  LET next == Totals(row, c, s, d)
           IN  /\ next \in WorkerRow
               /\ next.nullifier = row.nullifier
               /\ next.seeded = row.seeded /\ next.reset = row.reset
               /\ next.completed = c /\ next.score = s /\ next.distinctRaters = d
BY DEF WorkerRow, Totals

\* What a settlement does to the index: the worker's row and slot, and the
\* agent's entries.
LEMMA SettledRows ==
    ASSUME Inv, IndexTypeOK, BoardAgrees, NEW t \in TaskIds, NEW final \in Final,
           NEW code \in OutcomeCodes, IndexedSettlement(t, final, code)
    PROVE  LET w == worker[t]
               r == raterKey(t)
           IN  /\ w \in Workers /\ r \in Raters
               /\ people' = [people EXCEPT ![w] = Totals(people[w],
                     Increment(people[w].completed, code # RESOLVED_TO_BUYER),
                     people[w].score + scoreDelta(slot[w][r], code),
                     Increment(people[w].distinctRaters,
                               slotOf[nullifierOf(w)][r] = NoOutcome))]
               /\ slot' = [slot EXCEPT ![w][r] = code]
<1>1. worker[t] \in Workers /\ raterKey(t) \in Raters
  BY SettlementTypes DEF IndexedSettlement
<1>2. board[t].worker = worker[t]
  BY DEF BoardAgrees
<1> QED
  BY <1>1, <1>2 DEF IndexedSettlement, Settled, Totals, Scored

\* A settlement keeps the types of the index.
LEMMA SettledTypes ==
    ASSUME Inv, IndexTypeOK, BoardAgrees, NEW t \in TaskIds, Settling(t)
    PROVE  IndexTypeOK'
<1>1. PICK final \in Final, code \in OutcomeCodes : IndexedSettlement(t, final, code)
  BY DEF Settling
<1> DEFINE w == worker[t]
           r == raterKey(t)
           agent == terms[t].buyerAgentId
           c == Increment(people[w].completed, code # RESOLVED_TO_BUYER)
           s == people[w].score + scoreDelta(slot[w][r], code)
           d == Increment(people[w].distinctRaters, slotOf[nullifierOf(w)][r] = NoOutcome)
           row == Totals(people[w], c, s, d)
<1>2. /\ w \in Workers /\ r \in Raters
      /\ people' = [people EXCEPT ![w] = row]
      /\ slot' = [slot EXCEPT ![w][r] = code]
  BY <1>1, SettledRows
<1>3. row \in WorkerRow
  <2>1. people[w] \in WorkerRow
    BY <1>2 DEF IndexTypeOK
  <2>2. c \in Nat /\ s \in Int /\ d \in Nat
    BY <2>1, DeltaIsInt DEF Increment, WorkerRow
  <2> HIDE DEF c, s, d
  <2> QED
    BY <2>1, <2>2, TotalsOnly
<1>4. people' \in [Workers -> WorkerRow]
  <2> HIDE DEF row, w
  <2> QED
    BY <1>2, <1>3 DEF IndexTypeOK
<1>5. slot' \in [Workers -> [Raters -> Outcome]]
  BY <1>2 DEF IndexTypeOK, Outcome
<1>6. entries' \in [AgentIds -> EntriesRow]
  <2>1. agent \in AgentIds \cup {NoAgent}
    BY <1>1, SettlementTypes DEF IndexedSettlement
  <2>2. entries' = IF agent = NoAgent THEN entries
                   ELSE [entries EXCEPT ![agent].outcomes = @ + 1]
    BY <1>1 DEF IndexedSettlement, Settled
  <2> QED
    BY <2>1, <2>2 DEF IndexTypeOK, EntriesRow
<1>7. board' \in [TaskIds -> BoardRow]
  <2>1. board' = [board EXCEPT ![t].state = final]
    BY <1>1 DEF IndexedSettlement, Settled
  <2>2. final \in States
    BY DEF Final, States
  <2> QED
    BY <2>1, <2>2 DEF IndexTypeOK, BoardRow
<1>8. UNCHANGED <<posters, stats>>
  BY <1>1 DEF IndexedSettlement, Settled
<1> QED
  BY <1>4, <1>5, <1>6, <1>7, <1>8 DEF IndexTypeOK

\* A registry event writes one worker's row.
LEMMA RegistryTypes ==
    ASSUME Inv, IndexTypeOK, IndexedRegistry
    PROVE  IndexTypeOK'
<1>1. ASSUME NEW w \in Workers, NEW row \in WorkerRow, people' = [people EXCEPT ![w] = row],
             UNCHANGED <<board, slot, posters, stats, entries>>
      PROVE  IndexTypeOK'
  BY <1>1 DEF IndexTypeOK
<1>2. ASSUME NEW a \in Attestations, handleWorkerRegistered(a.worker, a.nullifier)
      PROVE  IndexTypeOK'
  <2> DEFINE w == a.worker
             row == [getOrCreateWorker EXCEPT !.nullifier = a.nullifier, !.seeded = people[w].seeded]
  <2>1. w \in Workers /\ a.nullifier \in Humans
    BY RegistryAssumption DEF Humans
  <2>2. people[w].seeded \in BOOLEAN
    BY <2>1 DEF IndexTypeOK, WorkerRow
  <2>3. row \in WorkerRow
    <3>1. ASSUME NEW q \in WorkerRow, NEW m \in Humans, NEW b \in BOOLEAN
          PROVE  [q EXCEPT !.nullifier = m, !.seeded = b] \in WorkerRow
      BY DEF WorkerRow
    <3>2. getOrCreateWorker \in WorkerRow
      BY DEF WorkerRow, getOrCreateWorker, Humans
    <3> QED
      BY <2>1, <2>2, <3>1, <3>2
  <2>4. people' = [people EXCEPT ![w] = row] /\ UNCHANGED <<board, slot, posters, stats, entries>>
    BY <1>2 DEF handleWorkerRegistered
  <2> HIDE DEF row
  <2> QED
    BY <1>1, <2>1, <2>3, <2>4
<1>3. ASSUME NEW w \in Workers, NEW n \in Nullifiers, handleWorkerSeeded(w, n)
      PROVE  IndexTypeOK'
  <2>1. PICK row : row = [people[w] EXCEPT !.nullifier = n, !.seeded = TRUE]
    OBVIOUS
  <2>2. row \in WorkerRow
    BY <2>1 DEF IndexTypeOK, WorkerRow, Humans
  <2>3. people' = [people EXCEPT ![w] = row] /\ UNCHANGED <<board, slot, posters, stats, entries>>
    BY <1>3, <2>1 DEF handleWorkerSeeded
  <2> QED
    BY <1>1, <2>2, <2>3
<1>4. ASSUME NEW w \in Workers, handleWorkerReset(w)
      PROVE  IndexTypeOK'
  <2>1. PICK row : row = [people[w] EXCEPT !.reset = TRUE]
    OBVIOUS
  <2>2. row \in WorkerRow
    BY <2>1 DEF IndexTypeOK, WorkerRow
  <2>3. people' = [people EXCEPT ![w] = row] /\ UNCHANGED <<board, slot, posters, stats, entries>>
    BY <1>4, <2>1 DEF handleWorkerReset
  <2> QED
    BY <1>1, <2>2, <2>3
<1>5. \A s \in Seedings : s[1] \in Workers /\ s[2] \in Nullifiers
  BY EscrowAssumption
<1>6. \A n \in Resettable : resetWorker(n) => workerOf[n] \in Workers
  BY EscrowAssumption DEF resetWorker, Inv, RegistryInv, RegistryTypeOK
<1> QED
  BY <1>2, <1>3, <1>4, <1>5, <1>6, Zenon DEF IndexedRegistry

\* The index keeps its type.
LEMMA IndexTypesStep ==
    ASSUME Inv, IndexTypeOK, BoardAgrees, [IndexedNext]_indexedVars
    PROVE  IndexTypeOK'
<1>1. ASSUME NEW p \in PostParams, NEW payer, post(payer, p),
             handleTaskPosted(taskCount + 1, p.buyer)
      PROVE  IndexTypeOK'
  <2>1. p.buyer \in Buyers /\ taskCount + 1 \in TaskIds
    BY <1>1, PostedIsNew
  <2> QED
    BY <1>1, <2>1, PostedTypes
<1>2. ASSUME NEW t \in TaskIds, IndexedTask(t)
      PROVE  IndexTypeOK'
  <2>1. ASSUME NEW s \in States, Moved(t, s)
        PROVE  IndexTypeOK'
    <3>1. \E row \in BoardRow : board' = [board EXCEPT ![t] = row]
      BY <2>1, MovedRow DEF Moved
    <3> QED
      BY <2>1, <3>1, MovedTypes DEF Moved
  <2>2. ASSUME NEW w \in Workers, handleTaskClaimed(t, w)
        PROVE  IndexTypeOK'
    <3> DEFINE row == [state |-> "Claimed", worker |-> w, seeded |-> people[w].seeded]
    <3>1. row \in BoardRow
      BY DEF IndexTypeOK, BoardRow, WorkerRow, States
    <3> QED
      BY <2>2, <3>1, MovedTypes DEF handleTaskClaimed
  <2>3. CASE unclaim(t)
    <3>1. [NewTask EXCEPT !.state = "Open"] \in BoardRow
      BY DEF BoardRow, NewTask, States
    <3> QED
      BY <2>3, <3>1, MovedTypes DEF unclaim
  <2>4. {"Submitted", "Disputed", "Refunded"} \subseteq States
    BY DEF States
  <2> QED
    BY <1>2, <2>1, <2>2, <2>3, <2>4, TaskShape, SettledTypes
<1>3. ASSUME NEW b \in Buyers, NEW allowed \in BOOLEAN, handleBuyerAllowlisted(b, allowed)
      PROVE  IndexTypeOK'
  <2>1. posters' = [posters EXCEPT ![b] = [posters[b] EXCEPT !.allowlisted = allowed]]
    BY <1>3 DEF handleBuyerAllowlisted
  <2>2. [posters[b] EXCEPT !.allowlisted = allowed] \in BuyerRow
    BY DEF IndexTypeOK, BuyerRow
  <2> QED
    BY <1>3, <2>1, <2>2 DEF handleBuyerAllowlisted, IndexTypeOK
<1>4. ASSUME NEW a \in AgentIds, handleMarked(a)
      PROVE  IndexTypeOK'
  BY <1>4 DEF handleMarked, IndexTypeOK, EntriesRow
<1>5. UNCHANGED indexVars => IndexTypeOK'
  BY DEF indexVars, IndexTypeOK
<1>6. Allowlistable \subseteq Buyers
  BY EscrowAssumption
<1>7. UNCHANGED indexedVars => UNCHANGED indexVars
  BY DEF indexedVars
<1>8. IndexedMark => IndexTypeOK'
  BY <1>4, <1>5 DEF IndexedMark
<1>9. ASSUME NEW b \in Allowlistable, NEW allowed \in BOOLEAN, handleBuyerAllowlisted(b, allowed)
      PROVE  IndexTypeOK'
  BY <1>3, <1>6, <1>9
<1> QED
  BY <1>1, <1>2, <1>5, <1>7, <1>8, <1>9, RegistryTypes, Zenon DEF IndexedNext

-----------------------------------------------------------------------------
(******************************** The board ********************************)

\* A handler that gives one row what the transaction gave the task.
LEMMA BoardRowAgrees ==
    ASSUME Inv, IndexTypeOK, BoardAgrees, NEW t \in TaskIds, NEW row \in BoardRow,
           board' = [board EXCEPT ![t] = row], state' = [state EXCEPT ![t] = row.state],
           row.worker = worker'[t], row.state = "Open" => ~row.seeded,
           \A u \in TaskIds \ {t} : worker'[u] = worker[u]
    PROVE  BoardAgrees'
<1>1. \A u \in TaskIds :
        /\ board'[u] = IF u = t THEN row ELSE board[u]
        /\ state'[u] = IF u = t THEN row.state ELSE state[u]
  BY DEF IndexTypeOK, Inv, TableInv, TaskTypeOK
<1> QED
  BY <1>1 DEF BoardAgrees

\* Moving the state alone, to a state that is not Open.
LEMMA BoardMoved ==
    ASSUME Inv, IndexTypeOK, BoardAgrees, NEW t \in TaskIds, NEW s \in States \ {"Open"},
           board' = [board EXCEPT ![t].state = s], state' = [state EXCEPT ![t] = s],
           worker' = worker
    PROVE  BoardAgrees'
<1>1. PICK row \in BoardRow :
        board' = [board EXCEPT ![t] = row] /\ row.state = s /\ row.worker = board[t].worker
  <2>1. s \in States
    OBVIOUS
  <2>2. \E row \in BoardRow :
           /\ board' = [board EXCEPT ![t] = row]
           /\ row.state = s /\ row.worker = board[t].worker /\ row.seeded = board[t].seeded
    BY <2>1, MovedRow
  <2> QED
    BY <2>2, Zenon
<1>2. row.worker = worker'[t]
  BY <1>1 DEF BoardAgrees
<1> QED
  BY <1>1, <1>2, BoardRowAgrees

\* Every transaction on a task leaves its row saying what the task says.
LEMMA BoardTask ==
    ASSUME Inv, IndexTypeOK, BoardAgrees, NEW t \in TaskIds, IndexedTask(t)
    PROVE  BoardAgrees'
<1>1. CASE Settling(t)
  <2>1. PICK final \in Final, code \in OutcomeCodes : IndexedSettlement(t, final, code)
    BY <1>1 DEF Settling
  <2>2. /\ board' = [board EXCEPT ![t].state = final] /\ state' = [state EXCEPT ![t] = final]
        /\ worker' = worker
    BY <2>1 DEF IndexedSettlement, Settled
  <2>3. final \in States \ {"Open"}
    BY DEF Final, States
  <2> QED
    BY <2>2, <2>3, BoardMoved
<1>2. ASSUME NEW w \in Workers, claimOpen(t, w) \/ claimStale(t, w), handleTaskClaimed(t, w)
      PROVE  BoardAgrees'
  <2> DEFINE row == [state |-> "Claimed", worker |-> w, seeded |-> people[w].seeded]
  <2>1. row \in BoardRow
    BY DEF IndexTypeOK, BoardRow, WorkerRow, States
  <2>2. worker' = [worker EXCEPT ![t] = w] /\ state' = [state EXCEPT ![t] = "Claimed"]
    BY <1>2 DEF claimOpen, claimStale, TakeTask
  <2>3. board' = [board EXCEPT ![t] = row]
    BY <1>2 DEF handleTaskClaimed
  <2>4. worker'[t] = w /\ \A u \in TaskIds \ {t} : worker'[u] = worker[u]
    BY <2>2 DEF Inv, TableInv, TaskTypeOK
  <2> QED
    BY <2>1, <2>2, <2>3, <2>4, BoardRowAgrees
<1>3. ASSUME NEW w \in Workers, releaseClaim(t, w), unclaim(t)
      PROVE  BoardAgrees'
  <2> DEFINE row == [NewTask EXCEPT !.state = "Open"]
  <2>1. row \in BoardRow /\ row.state = "Open" /\ row.worker = NoAddress /\ ~row.seeded
    BY DEF BoardRow, NewTask, States
  <2>2. worker' = [worker EXCEPT ![t] = NoAddress] /\ state' = [state EXCEPT ![t] = "Open"]
    BY <1>3 DEF releaseClaim
  <2>3. board' = [board EXCEPT ![t] = row]
    BY <1>3 DEF unclaim
  <2>4. worker'[t] = NoAddress /\ \A u \in TaskIds \ {t} : worker'[u] = worker[u]
    BY <2>2 DEF Inv, TableInv, TaskTypeOK
  <2> HIDE DEF row
  <2> QED
    BY <2>1, <2>2, <2>3, <2>4, BoardRowAgrees
<1>4. ASSUME NEW w \in Workers, submit(t, w), Moved(t, "Submitted")
      PROVE  BoardAgrees'
  BY <1>4, BoardMoved DEF submit, Moved, States
<1>5. CASE dispute(t) /\ Moved(t, "Disputed")
  BY <1>5, BoardMoved DEF dispute, Moved, States
<1>6. CASE expire(t) /\ Moved(t, "Refunded")
  BY <1>6, BoardMoved DEF expire, Close, Moved, States
<1> QED
  BY <1>1, <1>2, <1>3, <1>4, <1>5, <1>6, TaskShape

\* Every other step leaves the tasks and their rows alone, but for the row of
\* the task it posts.
LEMMA BoardStep ==
    ASSUME Inv, IndexTypeOK, BoardAgrees, [IndexedNext]_indexedVars
    PROVE  BoardAgrees'
<1>1. ASSUME NEW p \in PostParams, NEW payer, post(payer, p),
             handleTaskPosted(taskCount + 1, p.buyer)
      PROVE  BoardAgrees'
  <2> DEFINE t == taskCount + 1
             row == [NewTask EXCEPT !.state = "Open"]
  <2>1. t \in TaskIds /\ state[t] = "None" /\ worker[t] = NoAddress
    BY <1>1, PostedIsNew
  <2>2. row \in BoardRow /\ row.state = "Open" /\ row.worker = NoAddress /\ ~row.seeded
    BY DEF BoardRow, NewTask, States
  <2>3. /\ board' = [board EXCEPT ![t] = row]
        /\ worker' = worker /\ state' = [state EXCEPT ![t] = "Open"]
    BY <1>1 DEF post, handleTaskPosted
  <2> HIDE DEF row, t
  <2> QED
    BY <2>1, <2>2, <2>3, BoardRowAgrees
<1>2. UNCHANGED <<board, state, worker>> => BoardAgrees'
  BY DEF BoardAgrees
<1>3. ASSUME NEW b, NEW allowed, setAllowlistedBuyer(b, allowed),
             handleBuyerAllowlisted(b, allowed)
      PROVE  BoardAgrees'
  BY <1>2, <1>3 DEF setAllowlistedBuyer, handleBuyerAllowlisted
<1>4. CASE IndexedRegistry \/ IndexedMark \/ (Tick /\ UNCHANGED indexVars) \/ UNCHANGED indexedVars
  BY <1>2, <1>4 DEF setAllowlistedBuyer, handleBuyerAllowlisted, IndexedRegistry, IndexedMark, Tick,
     handleWorkerRegistered, handleWorkerSeeded, handleWorkerReset, handleMarked,
     indexVars, indexedVars, taskVars, vars
<1> QED
  BY <1>1, <1>3, <1>4, BoardTask, Zenon DEF IndexedNext

-----------------------------------------------------------------------------
(******************************* The entries *******************************)

\* An agent gets a row for every entry the contracts give it.
LEMMA EntriesStep ==
    ASSUME Inv, IndexTypeOK, EntriesAgree, [IndexedNext]_indexedVars
    PROVE  EntriesAgree'
<1>0. AbuseMarkTypeOK
  BY DEF Inv, RecordsInv
<1>1. UNCHANGED <<entries, marksOf, entriesOf>> => EntriesAgree'
  BY DEF EntriesAgree
<1>2. ASSUME NEW t \in TaskIds, IndexedTask(t)
      PROVE  EntriesAgree'
  <2>1. CASE Settling(t)
    <3>1. PICK final \in Final, code \in OutcomeCodes : IndexedSettlement(t, final, code)
      BY <2>1 DEF Settling
    <3> DEFINE agent == terms[t].buyerAgentId
    <3>2. agent \in AgentIds \cup {NoAgent}
      BY <3>1, SettlementTypes DEF IndexedSettlement
    <3>3. CASE agent = NoAgent
      BY <3>1, <3>3, <1>1 DEF IndexedSettlement, Settled, writeOutcome, abuseMarkVars
    <3>4. CASE agent # NoAgent
      <4>1. /\ entries' = [entries EXCEPT ![agent].outcomes = @ + 1]
            /\ marksOf' = marksOf /\ entriesOf' = [entriesOf EXCEPT ![agent] = @ + 1]
        BY <3>1, <3>4 DEF IndexedSettlement, Settled, writeOutcome, outcome, giveFeedback
      <4> HIDE DEF agent
      <4> QED
        BY <4>1, <3>2, <3>4, <1>0 DEF EntriesAgree, IndexTypeOK, EntriesRow, AbuseMarkTypeOK
    <3> QED
      BY <3>3, <3>4
  <2>2. CASE ~Settling(t)
    BY <1>1, <1>2, <2>2, TaskShape
    DEF claimOpen, claimStale, TakeTask, releaseClaim, submit, dispute, expire,
        handleTaskClaimed, unclaim, Moved, abuseMarkVars
  <2> QED
    BY <2>1, <2>2
<1>3. ASSUME NEW a \in AgentIds, NEW s \in SpecHashes, mark(a, s), handleMarked(a)
      PROVE  EntriesAgree'
  <2>1. /\ entries' = [entries EXCEPT ![a].marks = @ + 1]
        /\ marksOf' = [marksOf EXCEPT ![a] = @ + 1]
        /\ entriesOf' = [entriesOf EXCEPT ![a] = @ + 1]
    BY <1>3 DEF mark, giveFeedback, handleMarked
  <2> QED
    BY <2>1, <1>0 DEF EntriesAgree, IndexTypeOK, EntriesRow, AbuseMarkTypeOK
<1>4. ASSUME NEW c, setMarkCooldown(c), UNCHANGED indexVars
      PROVE  EntriesAgree'
  BY <1>1, <1>4 DEF setMarkCooldown, indexVars
<1>5. ASSUME NEW p, NEW payer, post(payer, p), handleTaskPosted(taskCount + 1, p.buyer)
      PROVE  EntriesAgree'
  BY <1>1, <1>5 DEF post, handleTaskPosted, abuseMarkVars
<1>6. ASSUME NEW b, NEW allowed, setAllowlistedBuyer(b, allowed),
             handleBuyerAllowlisted(b, allowed)
      PROVE  EntriesAgree'
  BY <1>1, <1>6 DEF setAllowlistedBuyer, handleBuyerAllowlisted, abuseMarkVars
<1>7. CASE IndexedRegistry \/ (Tick /\ UNCHANGED indexVars) \/ UNCHANGED indexedVars
  BY <1>1, <1>7 DEF post, handleTaskPosted, setAllowlistedBuyer, handleBuyerAllowlisted,
     IndexedRegistry, Tick, handleWorkerRegistered, handleWorkerSeeded, handleWorkerReset,
     indexVars, indexedVars, abuseMarkVars, vars
<1> QED
  BY <1>2, <1>3, <1>4, <1>5, <1>6, <1>7, Zenon DEF IndexedNext, IndexedMark

-----------------------------------------------------------------------------
(*************************** The workers' records **************************)

\* Somebody stands or once stood behind the address.
HasBeenBound(w) == isWorker(w) \/ people[w].reset

BlankRow(w) ==
    /\ people[w].completed = 0 /\ people[w].score = 0 /\ people[w].distinctRaters = 0
    /\ \A r \in Raters : slot[w][r] = NoOutcome
BlankRecord(n) ==
    /\ completed[n] = 0 /\ score[n] = 0 /\ distinctRaters[n] = 0
    /\ \A r \in Raters : slotOf[n][r] = NoOutcome

\* A binding leaves its trace: a spent attestation, or it was the owner's to make.
BindingsLeaveTraces ==
    \A w \in Workers :
        /\ isSeeded(w) => <<w, nullifierOf(w)>> \in Seedings
        /\ HasBeenBound(w) =>
              \/ \E a \in usedDigest : a.worker = w
              \/ \E s \in Seedings : s[1] = w

\* Nothing is filed by an address, or under a human, that was never bound.
NewAddressesAreBlank ==
    \A w \in Workers :
        ~HasBeenBound(w) => BlankRow(w) /\ \A t \in TaskIds : worker[t] # w
NewHumansAreBlank ==
    \A n \in Nullifiers :
        /\ \A a \in usedDigest : a.nullifier # n
        /\ \A w \in Workers : <<w, n>> \in Seedings => ~HasBeenBound(w)
        => BlankRecord(n)

\* The index's record of w, slot by slot, is the contract's.
SameRecord(w) ==
    LET n == nullifierOf(w)
    IN  /\ people[w].completed = completed[n]
        /\ people[w].score = score[n]
        /\ people[w].distinctRaters = distinctRaters[n]
        /\ \A r \in Raters : slot[w][r] = slotOf[n][r]

RowsAgree ==
    \A w \in Workers :
        /\ isWorker(w) => people[w].nullifier = nullifierOf(w)
        /\ FirstTime(w) => SameRecord(w)

PeopleInv == BindingsLeaveTraces /\ NewAddressesAreBlank /\ NewHumansAreBlank /\ RowsAgree

\* An empty index agrees with empty contracts.
LEMMA PeopleInitial == Init /\ IndexInit => PeopleInv
<1> SUFFICES ASSUME Init, IndexInit PROVE PeopleInv
  OBVIOUS
<1>1. /\ \A w \in Workers : ~isWorker(w) /\ ~isSeeded(w) /\ ~people[w].reset
      /\ \A w \in Workers : BlankRow(w)
      /\ \A w \in Workers, t \in TaskIds : worker[t] # w
  BY RegistryAssumption
  DEF Init, RegistryInit, NoRecord, IndexInit, getOrCreateWorker, isWorker, isSeeded, BlankRow
<1>2. \A n \in Nullifiers : BlankRecord(n)
  BY EscrowAssumption DEF Init, ReputationInit, BlankRecord, Humans
<1> QED
  BY <1>1, <1>2
  DEF PeopleInv, BindingsLeaveTraces, NewAddressesAreBlank, NewHumansAreBlank, RowsAgree,
      HasBeenBound, FirstTime

\* Nobody is bound to nullifier 0.
LEMMA BoundToHuman ==
    ASSUME Inv, BindingsLeaveTraces, NEW w \in Workers, isWorker(w)
    PROVE  nullifierOf(w) \in Nullifiers
<1>1. CASE isSeeded(w)
  <2>1. <<w, nullifierOf(w)>> \in Workers \X Nullifiers
    BY <1>1, EscrowAssumption DEF BindingsLeaveTraces
  <2> QED
    BY <2>1
<1>2. CASE ~isSeeded(w)
  <2>1. PICK a \in usedDigest : a.nullifier = nullifierOf(w)
    BY <1>2 DEF Inv, RegistryInv, AttestedOrSeeded, isWorker, isSeeded, nullifierOf
  <2>2. a \in Attestations
    BY DEF Inv, RegistryInv, RegistryTypeOK
  <2> QED
    BY <2>1, <2>2, RegistryAssumption
<1> QED
  BY <1>1, <1>2

\* Who is new to the registry after a binding elsewhere was new before it.
LEMMA FirstTimeBefore ==
    ASSUME NEW w, records'[w] = records[w], people'[w].reset = people[w].reset,
           usedDigest \subseteq usedDigest', FirstTime(w)'
    PROVE  FirstTime(w)
BY DEF FirstTime, Concerns, isWorker, isSeeded, nullifierOf

\* What a step that leaves the registry, the records and the rows alone asks
\* of the workers it puts on tasks.
LEMMA PeopleUnchanged ==
    ASSUME PeopleInv, UNCHANGED <<people, slot, registryVars, reputationVars>>,
           \A t \in TaskIds, w \in Workers : worker'[t] = w => worker[t] = w \/ isWorker(w)
    PROVE  PeopleInv'
<1>1. /\ \A w : HasBeenBound(w)' <=> HasBeenBound(w)
      /\ \A w : (isWorker(w)' <=> isWorker(w)) /\ (isSeeded(w)' <=> isSeeded(w))
                   /\ nullifierOf(w)' = nullifierOf(w)
      /\ \A w : FirstTime(w)' => FirstTime(w)
      /\ \A w : SameRecord(w) => SameRecord(w)'
      /\ \A w : BlankRow(w) => BlankRow(w)'
      /\ \A n : BlankRecord(n) => BlankRecord(n)'
      /\ usedDigest' = usedDigest
  BY DEF HasBeenBound, isWorker, isSeeded, nullifierOf, FirstTime, Concerns, SameRecord, BlankRow,
     BlankRecord, registryVars, reputationVars
<1>2. BindingsLeaveTraces' /\ NewHumansAreBlank'
  BY <1>1 DEF PeopleInv, BindingsLeaveTraces, NewHumansAreBlank
<1>3. NewAddressesAreBlank'
  BY <1>1 DEF PeopleInv, NewAddressesAreBlank, HasBeenBound
<1>4. RowsAgree'
  BY <1>1 DEF PeopleInv, RowsAgree
<1> QED
  BY <1>2, <1>3, <1>4 DEF PeopleInv

\* A settlement moves the row of the worker and the record of the human behind
\* it by the same, and no row or record of anybody who was never bound.
LEMMA PeopleSettle ==
    ASSUME Inv, IndexTypeOK, BoardAgrees, PeopleInv, NEW t \in TaskIds, Settling(t)
    PROVE  PeopleInv'
<1>1. PICK final \in Final, code \in OutcomeCodes : IndexedSettlement(t, final, code)
  BY DEF Settling
<1> DEFINE v == worker[t]
           r == raterKey(t)
           m == nullifierOf(v)
           c == Increment(people[v].completed, code # RESOLVED_TO_BUYER)
           s == people[v].score + scoreDelta(slot[v][r], code)
           d == Increment(people[v].distinctRaters, slotOf[m][r] = NoOutcome)
           row == Totals(people[v], c, s, d)
<1>2. /\ v \in Workers /\ r \in Raters /\ m \in Rated
      /\ people' = [people EXCEPT ![v] = row] /\ slot' = [slot EXCEPT ![v][r] = code]
      /\ feedback(m, r, code)
      /\ UNCHANGED registryVars /\ worker' = worker
  <2>1. v \in Workers /\ r \in Raters /\ m \in Rated
    BY <1>1, SettlementTypes DEF IndexedSettlement
  <2>2. people' = [people EXCEPT ![v] = row] /\ slot' = [slot EXCEPT ![v][r] = code]
    BY <1>1, SettledRows
  <2>3. feedback(m, r, code) /\ UNCHANGED registryVars /\ worker' = worker
    BY <1>1 DEF IndexedSettlement, writeOutcome
  <2> QED
    BY <2>1, <2>2, <2>3
<1>3. /\ row.nullifier = people[v].nullifier /\ row.reset = people[v].reset
      /\ row.completed = c /\ row.score = s /\ row.distinctRaters = d
  <2>1. people[v] \in WorkerRow
    BY <1>2 DEF IndexTypeOK
  <2>2. c \in Nat /\ s \in Int /\ d \in Nat
    <3>1. /\ people[v].completed \in Nat /\ people[v].score \in Int
          /\ people[v].distinctRaters \in Nat
      BY <2>1 DEF WorkerRow
    <3>2. c \in Nat /\ d \in Nat
      BY <3>1 DEF Increment
    <3>3. scoreDelta(slot[v][r], code) \in Int
      BY DeltaIsInt
    <3> QED
      BY <3>1, <3>2, <3>3
  <2> HIDE DEF c, s, d
  <2>3. LET next == Totals(people[v], c, s, d)
        IN  /\ next \in WorkerRow
            /\ next.nullifier = people[v].nullifier
            /\ next.seeded = people[v].seeded /\ next.reset = people[v].reset
            /\ next.completed = c /\ next.score = s /\ next.distinctRaters = d
    <3>1. PICK old \in WorkerRow : old = people[v]
      BY <2>1
    <3>2. LET next == Totals(old, c, s, d)
          IN  /\ next \in WorkerRow
              /\ next.nullifier = old.nullifier
              /\ next.seeded = old.seeded /\ next.reset = old.reset
              /\ next.completed = c /\ next.score = s /\ next.distinctRaters = d
      BY <2>2, TotalsOnly
    <3> QED
      BY <3>1, <3>2
  <2> QED
    BY <2>3
<1>4. /\ \A w \in Workers : people'[w] = IF w = v THEN row ELSE people[w]
      /\ \A w \in Workers : w # v => slot'[w] = slot[w]
      /\ \A q \in Raters : slot'[v][q] = IF q = r THEN code ELSE slot[v][q]
  <2> HIDE DEF row, v, r
  <2> QED
    BY <1>2 DEF IndexTypeOK
<1>5. \A w \in Workers :
        /\ people'[w].nullifier = people[w].nullifier /\ people'[w].reset = people[w].reset
  <2> HIDE DEF row, v
  <2> QED
    BY <1>3, <1>4
<1>6. /\ \A w \in Workers : isWorker(w)' <=> isWorker(w)
      /\ \A w \in Workers : isSeeded(w)' <=> isSeeded(w)
      /\ \A w \in Workers : nullifierOf(w)' = nullifierOf(w)
      /\ usedDigest' = usedDigest /\ records' = records
  BY <1>2 DEF isWorker, isSeeded, nullifierOf, registryVars
<1>7. \A w \in Workers : HasBeenBound(w)' <=> HasBeenBound(w)
  BY <1>5, <1>6 DEF HasBeenBound
<1>8. \A w \in Workers : FirstTime(w)' => FirstTime(w)
  BY <1>5, <1>6, FirstTimeBefore
<1>9. BindingsLeaveTraces'
  BY <1>6, <1>7 DEF PeopleInv, BindingsLeaveTraces
<1>10. HasBeenBound(v)
  BY <1>2 DEF PeopleInv, NewAddressesAreBlank
<1>11. NewAddressesAreBlank'
  <2> SUFFICES ASSUME NEW w \in Workers, ~HasBeenBound(w)'
               PROVE  BlankRow(w)' /\ \A u \in TaskIds : worker'[u] # w
    BY DEF NewAddressesAreBlank
  <2>1. BlankRow(w) /\ w # v /\ \A u \in TaskIds : worker[u] # w
    BY <1>7, <1>10 DEF PeopleInv, NewAddressesAreBlank
  <2> HIDE DEF row, v
  <2> QED
    BY <1>2, <1>4, <2>1 DEF BlankRow
<1>12. \A n \in Rated : n # m =>
         /\ completed'[n] = completed[n] /\ score'[n] = score[n]
         /\ distinctRaters'[n] = distinctRaters[n] /\ slotOf'[n] = slotOf[n]
  BY <1>2 DEF feedback, Inv, RecordsInv, ReputationTypeOK
<1>13. Nullifiers \subseteq Rated
  BY EscrowAssumption DEF Humans
<1>14. NewHumansAreBlank'
  <2> SUFFICES ASSUME NEW n \in Nullifiers, \A a \in usedDigest' : a.nullifier # n,
                      \A w \in Workers : <<w, n>> \in Seedings => ~HasBeenBound(w)'
               PROVE  BlankRecord(n)'
    BY DEF NewHumansAreBlank
  <2>1. BlankRecord(n)
    BY <1>6, <1>7 DEF PeopleInv, NewHumansAreBlank
  <2>2. ASSUME m = n PROVE FALSE
    <3>1. isWorker(v)
      BY <1>2, <2>2, RegistryAssumption
      DEF Inv, RegistryInv, UnboundIsBlank, isWorker, nullifierOf, NoRecord
    <3>2. CASE isSeeded(v)
      BY <1>2, <1>7, <1>10, <2>2, <3>2 DEF PeopleInv, BindingsLeaveTraces
    <3>3. CASE ~isSeeded(v)
      BY <1>2, <1>6, <2>2, <3>1, <3>3
      DEF Inv, RegistryInv, AttestedOrSeeded, isWorker, isSeeded, nullifierOf
    <3> QED
      BY <3>2, <3>3
  <2> HIDE DEF m
  <2> QED
    BY <1>12, <1>13, <2>1, <2>2 DEF BlankRecord
<1>15. RowsAgree'
  <2> SUFFICES ASSUME NEW w \in Workers
               PROVE  /\ isWorker(w)' => people'[w].nullifier = nullifierOf(w)'
                      /\ FirstTime(w)' => SameRecord(w)'
    BY DEF RowsAgree
  <2>1. isWorker(w)' => people'[w].nullifier = nullifierOf(w)'
    BY <1>5, <1>6 DEF PeopleInv, RowsAgree
  <2>2. ASSUME FirstTime(w)' PROVE SameRecord(w)'
    <3>1. FirstTime(w) /\ SameRecord(w) /\ isWorker(w)
      BY <1>8, <2>2 DEF PeopleInv, RowsAgree, FirstTime
    <3>2. CASE w = v
      <4>1. /\ people[v].completed = completed[m] /\ people[v].score = score[m]
            /\ people[v].distinctRaters = distinctRaters[m]
            /\ \A q \in Raters : slot[v][q] = slotOf[m][q]
        BY <3>1, <3>2 DEF SameRecord
      <4>2. /\ completed'[m] = c /\ score'[m] = s /\ distinctRaters'[m] = d
            /\ \A q \in Raters : slotOf'[m][q] = IF q = r THEN code ELSE slotOf[m][q]
        BY <1>2, <4>1 DEF feedback, Increment, Inv, RecordsInv, ReputationTypeOK
      <4>3. nullifierOf(w)' = m
        BY <1>6, <3>2
      <4> HIDE DEF row, v, m, c, s, d, r
      <4> QED
        BY <1>3, <1>4, <3>2, <4>1, <4>2, <4>3 DEF SameRecord
    <3>3. CASE w # v
      <4>1. nullifierOf(w) \in Nullifiers
        BY <3>1, BoundToHuman DEF PeopleInv
      <4>2. m # nullifierOf(w)
        BY <1>2, <3>1, <3>3, <4>1, RegistryAssumption
        DEF Inv, RegistryInv, OneHumanOneWorker, UnboundIsBlank, isWorker, nullifierOf, NoRecord
      <4> HIDE DEF row, v, m
      <4> QED
        BY <1>4, <1>6, <1>12, <1>13, <3>1, <3>3, <4>1, <4>2 DEF SameRecord
    <3> QED
      BY <3>2, <3>3
  <2> QED
    BY <2>1, <2>2
<1> QED
  BY <1>9, <1>11, <1>14, <1>15 DEF PeopleInv

\* A binding of w to n, by an attestation or by the owner, starts w's row over
\* or finds it blank: whoever is then new to the registry has no record on
\* either side.
LEMMA PeopleBind ==
    ASSUME Inv, PeopleInv, NEW w \in Workers, NEW n \in Nullifiers, NEW seeded \in BOOLEAN,
           NEW row, Unbound(n, w), Bind(n, w, seeded), usedDigest \subseteq usedDigest',
           people' = [people EXCEPT ![w] = row], people \in [Workers -> WorkerRow],
           UNCHANGED <<slot, reputationVars, worker>>, row.nullifier = n,
           \/ \E a \in usedDigest' : a.worker = w
           \/ \E s \in Seedings : s[1] = w,
           seeded => <<w, n>> \in Seedings,
           FirstTime(w)' =>
              /\ ~HasBeenBound(w)
              /\ \A a \in usedDigest : a.nullifier # n
              /\ \A v \in Workers : <<v, n>> \in Seedings => v = w
              /\ row.completed = people[w].completed /\ row.score = people[w].score
              /\ row.distinctRaters = people[w].distinctRaters
    PROVE  PeopleInv'
<1>1. /\ \A v \in Workers : records'[v] = IF v = w
             THEN [nullifier |-> n, seeded |-> seeded, bound |-> TRUE] ELSE records[v]
      /\ \A v \in Workers : people'[v] = IF v = w THEN row ELSE people[v]
      /\ ~isWorker(w)
  BY DEF Bind, Unbound, isWorker, Inv, RegistryInv, RegistryTypeOK
<1>2. /\ \A v \in Workers \ {w} : isWorker(v)' <=> isWorker(v)
      /\ \A v \in Workers \ {w} : isSeeded(v)' <=> isSeeded(v)
      /\ \A v \in Workers \ {w} : nullifierOf(v)' = nullifierOf(v)
      /\ \A v \in Workers \ {w} : HasBeenBound(v)' <=> HasBeenBound(v)
      /\ isWorker(w)' /\ (isSeeded(w)' <=> seeded) /\ nullifierOf(w)' = n /\ HasBeenBound(w)'
  BY <1>1 DEF isWorker, isSeeded, nullifierOf, HasBeenBound
<1>3. \A v \in Workers : HasBeenBound(v) => HasBeenBound(v)'
  BY <1>2
<1>4. BindingsLeaveTraces'
  BY <1>2 DEF PeopleInv, BindingsLeaveTraces
<1>5. \A v \in Workers \ {w} : BlankRow(v) => BlankRow(v)'
  BY <1>1 DEF BlankRow
<1>6. NewAddressesAreBlank'
  BY <1>2, <1>5 DEF PeopleInv, NewAddressesAreBlank
<1>7. \A m : BlankRecord(m) => BlankRecord(m)'
  BY DEF BlankRecord, reputationVars
<1>8. NewHumansAreBlank'
  BY <1>3, <1>7 DEF PeopleInv, NewHumansAreBlank
<1>9. ASSUME NEW v \in Workers \ {w}
      PROVE  /\ isWorker(v)' => people'[v].nullifier = nullifierOf(v)'
             /\ FirstTime(v)' => SameRecord(v)'
  <2>1. FirstTime(v)' => FirstTime(v)
    BY <1>1, FirstTimeBefore
  <2>2. SameRecord(v) => SameRecord(v)'
    BY <1>1, <1>2 DEF SameRecord, reputationVars
  <2> QED
    BY <1>1, <1>2, <2>1, <2>2 DEF PeopleInv, RowsAgree
<1>10. ASSUME FirstTime(w)' PROVE SameRecord(w)'
  <2>1. BlankRow(w) /\ ~HasBeenBound(w)
    BY <1>10 DEF PeopleInv, NewAddressesAreBlank
  <2>2. BlankRecord(n)
    BY <1>10, <2>1 DEF PeopleInv, NewHumansAreBlank
  <2>3. /\ row.completed = people[w].completed /\ row.score = people[w].score
        /\ row.distinctRaters = people[w].distinctRaters
    BY <1>10
  <2> QED
    BY <1>1, <1>2, <2>1, <2>2, <2>3 DEF BlankRow, BlankRecord, SameRecord, reputationVars
<1>11. RowsAgree'
  BY <1>1, <1>2, <1>9, <1>10 DEF RowsAgree
<1> QED
  BY <1>4, <1>6, <1>8, <1>11 DEF PeopleInv

\* A registration by attestation.
LEMMA PeopleRegister ==
    ASSUME Inv, IndexTypeOK, PeopleInv, NEW a \in Attestations, registerFor(a),
           handleWorkerRegistered(a.worker, a.nullifier), UNCHANGED <<reputationVars, worker>>
    PROVE  PeopleInv'
<1> SUFFICES ASSUME NEW w \in Workers, NEW n \in Nullifiers,
                    w = a.worker, n = a.nullifier
             PROVE  PeopleInv'
  BY RegistryAssumption
<1>1. PICK row : row = [getOrCreateWorker EXCEPT !.nullifier = n, !.seeded = people[w].seeded]
  OBVIOUS
<1>2. /\ a \notin usedDigest /\ usedDigest' = usedDigest \cup {a}
      /\ Unbound(n, w) /\ Bind(n, w, FALSE)
      /\ people' = [people EXCEPT ![w] = row] /\ slot' = slot
  BY <1>1 DEF registerFor, handleWorkerRegistered
<1>3. /\ row.nullifier = n
      /\ row.completed = 0 /\ row.score = 0 /\ row.distinctRaters = 0
  BY <1>1 DEF getOrCreateWorker
<1>4. ~isSeeded(w)' /\ nullifierOf(w)' = n
  BY <1>1, <1>2 DEF Bind, isSeeded, nullifierOf, Inv, RegistryInv, RegistryTypeOK
<1>5. ASSUME FirstTime(w)'
      PROVE  /\ ~HasBeenBound(w)
             /\ \A b \in usedDigest : b.nullifier # n
             /\ \A v \in Workers : <<v, n>> \in Seedings => v = w
             /\ row.completed = people[w].completed /\ row.score = people[w].score
             /\ row.distinctRaters = people[w].distinctRaters
  <2>1. \A s \in Seedings : s[1] # w /\ s[2] # n
    BY <1>4, <1>5 DEF FirstTime, Concerns
  <2>2. \A b \in usedDigest : b.worker # w /\ b.nullifier # n
    BY <1>2, <1>4, <1>5 DEF FirstTime, Concerns
  <2>3. ~HasBeenBound(w)
    BY <1>1, <2>1, <2>2 DEF PeopleInv, BindingsLeaveTraces
  <2>4. BlankRow(w)
    BY <1>1, <2>3 DEF PeopleInv, NewAddressesAreBlank
  <2> QED
    BY <1>3, <2>1, <2>2, <2>3, <2>4 DEF BlankRow
<1>6. people \in [Workers -> WorkerRow] /\ usedDigest \subseteq usedDigest'
      /\ \E b \in usedDigest' : b.worker = w
  BY <1>2 DEF IndexTypeOK
<1>7. UNCHANGED <<slot, reputationVars, worker>>
  BY <1>2
<1> QED
  BY <1>2, <1>3, <1>5, <1>6, <1>7, PeopleBind

\* A row the owner seeds.
LEMMA PeopleSeed ==
    ASSUME Inv, IndexTypeOK, PeopleInv, NEW w \in Workers, NEW n \in Nullifiers,
           <<w, n>> \in Seedings, seedWorker(w, n), handleWorkerSeeded(w, n),
           UNCHANGED <<reputationVars, worker>>
    PROVE  PeopleInv'
<1>1. PICK row : row = [people[w] EXCEPT !.nullifier = n, !.seeded = TRUE]
  OBVIOUS
<1>2. /\ Unbound(n, w) /\ Bind(n, w, TRUE) /\ usedDigest' = usedDigest
      /\ people' = [people EXCEPT ![w] = row] /\ slot' = slot
  BY <1>1 DEF seedWorker, handleWorkerSeeded
<1>3. /\ row.nullifier = n /\ row.reset = people[w].reset
      /\ row.completed = people[w].completed /\ row.score = people[w].score
      /\ row.distinctRaters = people[w].distinctRaters
  <2>1. people[w] \in WorkerRow
    BY DEF IndexTypeOK
  <2> QED
    BY <1>1, <2>1 DEF WorkerRow
<1>4. isSeeded(w)' /\ nullifierOf(w)' = n
  BY <1>2 DEF Bind, isSeeded, nullifierOf, Inv, RegistryInv, RegistryTypeOK
<1>5. people'[w] = row
  BY <1>2 DEF IndexTypeOK
<1>6. ASSUME FirstTime(w)'
      PROVE  /\ ~HasBeenBound(w)
             /\ \A b \in usedDigest : b.nullifier # n
             /\ \A v \in Workers : <<v, n>> \in Seedings => v = w
             /\ row.completed = people[w].completed /\ row.score = people[w].score
             /\ row.distinctRaters = people[w].distinctRaters
  <2>1. ~people[w].reset
    BY <1>3, <1>5, <1>6 DEF FirstTime
  <2>2. ~HasBeenBound(w)
    BY <1>2, <2>1 DEF HasBeenBound, Unbound, isWorker
  <2>3. \A b \in usedDigest : b.nullifier # n
    BY <1>2, <1>4, <1>6 DEF FirstTime, Concerns
  <2>4. \A s \in Seedings : s[2] = n => s = <<w, n>>
    BY <1>4, <1>6 DEF FirstTime, Concerns
  <2> QED
    BY <1>3, <2>2, <2>3, <2>4
<1>7. people \in [Workers -> WorkerRow] /\ usedDigest \subseteq usedDigest'
      /\ \E s \in Seedings : s[1] = w
  BY <1>2 DEF IndexTypeOK
<1>8. UNCHANGED <<slot, reputationVars, worker>>
  BY <1>2
<1> QED
  BY <1>2, <1>3, <1>6, <1>7, <1>8, PeopleBind

\* A reset unbinds one worker, whom the index remembers by the flag.
LEMMA PeopleReset ==
    ASSUME Inv, IndexTypeOK, PeopleInv, NEW n \in Nullifiers, resetWorker(n),
           handleWorkerReset(workerOf[n]), UNCHANGED <<reputationVars, worker>>
    PROVE  PeopleInv'
<1>1. PICK w \in Workers : w = workerOf[n] /\ isWorker(w)
  BY DEF resetWorker, Inv, RegistryInv, RegistryTypeOK, OneHumanOneWorker, isWorker
<1>2. /\ records' = [records EXCEPT ![w] = NoRecord] /\ usedDigest' = usedDigest
      /\ people' = [people EXCEPT ![w] = [people[w] EXCEPT !.reset = TRUE]] /\ slot' = slot
  BY <1>1 DEF resetWorker, handleWorkerReset
<1>3. /\ \A v \in Workers : records'[v] = IF v = w THEN NoRecord ELSE records[v]
      /\ \A v \in Workers \ {w} : people'[v] = people[v]
      /\ people'[w].reset
  BY <1>1, <1>2 DEF Inv, RegistryInv, RegistryTypeOK, IndexTypeOK, WorkerRow
<1>4. /\ \A v \in Workers \ {w} : isWorker(v)' <=> isWorker(v)
      /\ \A v \in Workers \ {w} : isSeeded(v)' <=> isSeeded(v)
      /\ \A v \in Workers \ {w} : nullifierOf(v)' = nullifierOf(v)
      /\ ~isWorker(w)' /\ ~isSeeded(w)'
  BY <1>1, <1>3 DEF isWorker, isSeeded, nullifierOf, NoRecord
<1>5. \A v \in Workers : HasBeenBound(v)' <=> HasBeenBound(v)
  BY <1>1, <1>3, <1>4 DEF HasBeenBound
<1>6. BindingsLeaveTraces'
  BY <1>2, <1>4, <1>5 DEF PeopleInv, BindingsLeaveTraces
<1>7. \A v \in Workers \ {w} : BlankRow(v) => BlankRow(v)'
  BY <1>2, <1>3 DEF BlankRow
<1>8. NewAddressesAreBlank'
  BY <1>1, <1>5, <1>7 DEF PeopleInv, NewAddressesAreBlank, HasBeenBound
<1>9. \A m : BlankRecord(m) => BlankRecord(m)'
  BY DEF BlankRecord, reputationVars
<1>10. NewHumansAreBlank'
  BY <1>2, <1>5, <1>9 DEF PeopleInv, NewHumansAreBlank
<1>11. ASSUME NEW v \in Workers \ {w}
       PROVE  /\ isWorker(v)' => people'[v].nullifier = nullifierOf(v)'
              /\ FirstTime(v)' => SameRecord(v)'
  <2>1. FirstTime(v)' => FirstTime(v)
    BY <1>2, <1>3, FirstTimeBefore
  <2>2. SameRecord(v) => SameRecord(v)'
    BY <1>2, <1>3, <1>4 DEF SameRecord, reputationVars
  <2> QED
    BY <1>3, <1>4, <2>1, <2>2 DEF PeopleInv, RowsAgree
<1>12. RowsAgree'
  BY <1>4, <1>11 DEF RowsAgree, FirstTime
<1> QED
  BY <1>6, <1>8, <1>10, <1>12 DEF PeopleInv

\* A transaction on one task either settles it or leaves the rows alone.
LEMMA PeopleTask ==
    ASSUME Inv, IndexTypeOK, BoardAgrees, PeopleInv, NEW t \in TaskIds, IndexedTask(t)
    PROVE  PeopleInv'
<1>1. ASSUME NEW w \in Workers, claimOpen(t, w) \/ claimStale(t, w), handleTaskClaimed(t, w)
      PROVE  PeopleInv'
  <2>1. isWorker(w)
    BY <1>1 DEF claimOpen, claimStale, MayClaim
  <2>2. /\ UNCHANGED <<people, slot, registryVars, reputationVars>>
        /\ worker' = [worker EXCEPT ![t] = w]
    BY <1>1 DEF claimOpen, claimStale, TakeTask, handleTaskClaimed
  <2>3. \A u \in TaskIds : worker'[u] = worker[u] \/ worker'[u] = w
    BY <2>2 DEF Inv, TableInv, TaskTypeOK
  <2> QED
    BY <2>1, <2>2, <2>3, PeopleUnchanged
<1>2. ASSUME NEW w \in Workers, releaseClaim(t, w), unclaim(t)
      PROVE  PeopleInv'
  <2>1. /\ UNCHANGED <<people, slot, registryVars, reputationVars>>
        /\ worker' = [worker EXCEPT ![t] = NoAddress]
    BY <1>2 DEF releaseClaim, unclaim
  <2>2. \A u \in TaskIds : worker'[u] = worker[u] \/ worker'[u] = NoAddress
    BY <2>1 DEF Inv, TableInv, TaskTypeOK
  <2> QED
    BY <2>1, <2>2, RegistryAssumption, PeopleUnchanged
<1>3. ASSUME NEW s, Moved(t, s), (\E w \in Workers : submit(t, w)) \/ dispute(t) \/ expire(t)
      PROVE  PeopleInv'
  <2>1. UNCHANGED <<people, slot, registryVars, reputationVars, worker>>
    BY <1>3 DEF submit, dispute, expire, Close, Moved
  <2> QED
    BY <2>1, PeopleUnchanged
<1> QED
  BY <1>1, <1>2, <1>3, TaskShape, PeopleSettle, Zenon

\* Every step keeps the two records of a worker together.
LEMMA PeopleStep ==
    ASSUME Inv, IndexTypeOK, BoardAgrees, PeopleInv, [IndexedNext]_indexedVars
    PROVE  PeopleInv'
<1>1. UNCHANGED <<people, slot, registryVars, reputationVars, worker>> => PeopleInv'
  BY PeopleUnchanged
<1>2. ASSUME NEW p, NEW payer, post(payer, p), handleTaskPosted(taskCount + 1, p.buyer)
      PROVE  PeopleInv'
  BY <1>1, <1>2 DEF post, handleTaskPosted
<1>3. ASSUME NEW b, NEW allowed, setAllowlistedBuyer(b, allowed),
             handleBuyerAllowlisted(b, allowed)
      PROVE  PeopleInv'
  BY <1>1, <1>3 DEF setAllowlistedBuyer, handleBuyerAllowlisted
<1>4. CASE IndexedRegistry
  <2>1. UNCHANGED <<reputationVars, worker>>
    BY <1>4 DEF IndexedRegistry, taskVars
  <2>2. ASSUME NEW a \in Attestations, registerFor(a),
               handleWorkerRegistered(a.worker, a.nullifier)
        PROVE  PeopleInv'
    BY <2>1, <2>2, PeopleRegister
  <2>3. ASSUME NEW s \in Seedings, seedWorker(s[1], s[2]), handleWorkerSeeded(s[1], s[2])
        PROVE  PeopleInv'
    <3>1. PICK w \in Workers, n \in Nullifiers : s = <<w, n>>
      BY EscrowAssumption
    <3>2. <<w, n>> \in Seedings /\ seedWorker(w, n) /\ handleWorkerSeeded(w, n)
      BY <2>3, <3>1
    <3> QED
      BY <2>1, <3>2, PeopleSeed
  <2>4. ASSUME NEW n \in Resettable, resetWorker(n), handleWorkerReset(workerOf[n])
        PROVE  PeopleInv'
    <3>1. n \in Nullifiers
      BY EscrowAssumption
    <3> QED
      BY <2>1, <2>4, <3>1, PeopleReset
  <2> QED
    BY <1>4, <2>2, <2>3, <2>4, Zenon DEF IndexedRegistry
<1>5. CASE IndexedMark \/ (Tick /\ UNCHANGED indexVars) \/ UNCHANGED indexedVars
  BY <1>1, <1>5 DEF IndexedMark, handleMarked, Tick, indexVars, indexedVars, taskVars, vars
<1> QED
  BY <1>2, <1>3, <1>4, <1>5, PeopleTask, Zenon DEF IndexedNext

-----------------------------------------------------------------------------
(************************ What the index can be asked **********************)

IndexInv == IndexTypeOK /\ BoardAgrees /\ EntriesAgree /\ PeopleInv

LEMMA IndexInvInitial == Init /\ IndexInit => IndexInv
<1> SUFFICES ASSUME Init, IndexInit PROVE IndexInv
  OBVIOUS
<1>1. BoardAgrees
  BY DEF Init, IndexInit, BoardAgrees, NewTask
<1>2. EntriesAgree
  BY DEF Init, AbuseMarkInit, IndexInit, EntriesAgree
<1> QED
  BY <1>1, <1>2, IndexTypesInitial, PeopleInitial DEF IndexInv

LEMMA IndexInvariance == IndexedSpec => []IndexInv
<1>1. Inv /\ IndexInv /\ [IndexedNext]_indexedVars => IndexInv'
  BY IndexTypesStep, BoardStep, EntriesStep, PeopleStep DEF IndexInv
<1> QED
  BY <1>1, IndexedInvariance, IndexInvInitial, PTL DEF IndexedSpec

\* Every entity of the index has its type: a count never goes below zero, a
\* task is only ever shown on a worker of the contract or on none, and no row
\* exists but of a task, a worker, a buyer or an agent there is (the handlers
\* of subgraph/src).
THEOREM IndexTypes == IndexedSpec => []IndexTypeOK
<1>1. IndexInv => IndexTypeOK
  BY DEF IndexInv
<1> QED
  BY <1>1, IndexInvariance, PTL

\* The board says what the escrow says of every task's state and worker, and
\* an open task carries no seeded chip, whatever claims were displaced, handed
\* back or refunded on the way (task-escrow.ts).
THEOREM BoardIsTheEscrow == IndexedSpec => []BoardAgrees
<1>1. IndexInv => BoardAgrees
  BY DEF IndexInv
<1> QED
  BY <1>1, IndexInvariance, PTL

\* The index counts completions, score and voices by address and by its own
\* slots, the contract by human: for a worker whose binding is the only one
\* that ever concerned it or its human they are one record; and an agent has a
\* row for each of its entries (Settled of task-escrow.ts and reputation.ts,
\* handleMarked of abuse-mark.ts).
THEOREM RecordsAreTheContracts == IndexedSpec => []RecordsAgree
<1>1. Inv /\ IndexInv => RecordsAgree
  BY DEF IndexInv, PeopleInv, RowsAgree, SameRecord, FirstTime, EntriesAgree, RecordsAgree
<1> QED
  BY <1>1, IndexedInvariance, IndexInvariance, PTL
==============================================================================
