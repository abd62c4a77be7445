--------------------------- MODULE FakeChainProofs ---------------------------
(***************************************************************************)
(* Theorems about the chain in memory: it refuses what the contracts       *)
(* refuse and does what the contracts do, for any accounts, tasks, windows *)
(* and sequence of calls.                                                  *)
(***************************************************************************)
EXTENDS FakeChain, FiniteSetTheorems, TLAPS

Voices == Raters \cup {NoAddress}
Held == {"Claimed", "Submitted", "Disputed"}
Live == Held \cup {"Open"}
Final == {"Released", "Refunded", "Resolved"}

TaskRow == [amount : Nat, fee : Nat, buyer : Posters, buyerAgentId : AgentIds \cup {NoAgent},
            worker : Holders, state : Live \cup Final, postedAt : Nat,
            claimedAt : Nat, submittedAt : Nat, claimTTL : Nat, submitTTL : Nat,
            disputeWindow : Nat]
Person == [nullifier : Humans, seeded : BOOLEAN]
Tally == [score : Int, completed : Nat, distinctRaters : Nat,
          slots : UNION {[D -> OutcomeCodes] : D \in SUBSET Voices}]
Feedbacks == [name : {"Feedback"}, taskId : TaskIds, outcome : OutcomeCodes]
Judgements == [name : {"Outcome"}, agentId : AgentIds, taskId : TaskIds,
               outcome : OutcomeCodes]
Marks == [name : {"Marked"}, agentId : AgentIds, specHash : SpecHashes]

\* The tables of tasks, workers and rules, and the records.
TasksOK ==
    /\ clock \in 1 .. MaxTime
    /\ taskCounter \in 0 .. MaxTasks
    /\ tasks \in [1 .. taskCounter -> TaskRow]
    /\ balances \in [Anyone -> Int]
    /\ openTasks \in [Posters -> Nat]
    /\ activeClaims \in [Holders -> Nat]
    /\ cooldowns \in [Holders -> Nat]
PeopleOK ==
    /\ \E D \in SUBSET Holders : workers \in [D -> Person]
    /\ \E D \in SUBSET Humans : workerByNullifier \in [D -> Holders]
    /\ usedAttestations \subseteq Attestations
RulesOK ==
    /\ allowlist \subseteq Posters /\ isPaused \in BOOLEAN
    /\ cooldownSeconds \in Cooldowns
MarksOK ==
    /\ marks \subseteq AgentIds \X SpecHashes
    /\ lastMarks \in [AgentIds -> Nat] /\ markCounts \in [AgentIds -> Nat]
RecordsOK ==
    /\ reputation \in [Humans -> Tally]
    /\ log \subseteq Feedbacks \cup Judgements \cup Marks /\ IsFiniteSet(log)

FakeTypeOK == TasksOK /\ PeopleOK /\ RulesOK /\ MarksOK /\ RecordsOK

\* The tables start empty.
LEMMA TypesInitial == Init => FakeTypeOK
<1> SUFFICES ASSUME Init PROVE FakeTypeOK
  OBVIOUS
<1>1. TasksOK
  BY FakeAssumption DEF Init, TasksOK
<1>2. PeopleOK
  <2>1. workers \in [{} -> Person] /\ workerByNullifier \in [{} -> Holders]
    BY DEF Init
  <2> QED
    BY <2>1 DEF PeopleOK, Init
<1>3. RulesOK /\ MarksOK
  BY FakeAssumption DEF Init, RulesOK, MarksOK
<1>4. RecordsOK
  <2>1. <<>> \in [{} -> OutcomeCodes]
    OBVIOUS
  <2>2. <<>> \in UNION {[D -> OutcomeCodes] : D \in SUBSET Voices}
    BY <2>1
  <2>3. [score |-> 0, completed |-> 0, distinctRaters |-> 0, slots |-> <<>>] \in Tally
    BY <2>2 DEF Tally
  <2>4. reputation \in [Humans -> Tally]
    BY <2>3 DEF Init, Humans
  <2> QED
    BY <2>4, FS_EmptySet DEF Init, RecordsOK
<1> QED
  BY <1>1, <1>2, <1>3, <1>4 DEF FakeTypeOK

-----------------------------------------------------------------------------
(******************************** The tasks ********************************)

\* Task t goes on in state s, with w on it, claimed at c and submitted at b;
\* what its post fixed, and every other task, stay.
Rewrites(t, s, w, c, b) ==
    /\ tasks' \in [1 .. taskCounter -> TaskRow]
    /\ \A u \in DOMAIN tasks \ {t} : tasks'[u] = tasks[u]
    /\ tasks'[t].state = s /\ tasks'[t].worker = w
    /\ tasks'[t].claimedAt = c /\ tasks'[t].submittedAt = b
    /\ termsOf(tasks'[t]) = termsOf(tasks[t])

\* The row of a task, field by field.
LEMMA RowFields ==
    ASSUME NEW q \in TaskRow
    PROVE  /\ q.state \in Live \cup Final /\ q.worker \in Holders
           /\ q.claimedAt \in Nat /\ q.submittedAt \in Nat /\ q.buyer \in Posters
           /\ q.amount \in Nat /\ q.fee \in Nat /\ q.buyerAgentId \in AgentIds \cup {NoAgent}
           /\ q.postedAt \in Nat /\ q.claimTTL \in Nat /\ q.submitTTL \in Nat
           /\ q.disputeWindow \in Nat
BY DEF TaskRow

\* Each write of one task rewrites its row; a field it does not name keeps its
\* value.
LEMMA WriteState ==
    ASSUME TasksOK, NEW t \in DOMAIN tasks, NEW s \in Live \cup Final,
           tasks' = [tasks EXCEPT ![t].state = s]
    PROVE  Rewrites(t, s, tasks[t].worker, tasks[t].claimedAt, tasks[t].submittedAt)
<1>1. tasks \in [1 .. taskCounter -> TaskRow] /\ tasks[t] \in TaskRow
  BY DEF TasksOK
<1>2. ASSUME NEW q \in TaskRow
      PROVE  LET row == [q EXCEPT !.state = s]
             IN  /\ row \in TaskRow /\ termsOf(row) = termsOf(q) /\ row.state = s
                 /\ row.worker = q.worker /\ row.claimedAt = q.claimedAt
                 /\ row.submittedAt = q.submittedAt
  BY DEF TaskRow, termsOf
<1> DEFINE row == [tasks[t] EXCEPT !.state = s]
<1>3. /\ row \in TaskRow /\ termsOf(row) = termsOf(tasks[t]) /\ row.state = s
      /\ row.worker = tasks[t].worker /\ row.claimedAt = tasks[t].claimedAt
      /\ row.submittedAt = tasks[t].submittedAt
  BY <1>1, <1>2
<1>4. tasks' = [tasks EXCEPT ![t] = row]
  OBVIOUS
<1> HIDE DEF row
<1> QED
  BY <1>1, <1>3, <1>4 DEF Rewrites

LEMMA WriteClaim ==
    ASSUME TasksOK, NEW t \in DOMAIN tasks, NEW s \in Live \cup Final,
           NEW w \in Holders, NEW c \in Nat,
           tasks' = [tasks EXCEPT ![t].state = s, ![t].worker = w, ![t].claimedAt = c]
    PROVE  Rewrites(t, s, w, c, tasks[t].submittedAt)
<1>1. tasks \in [1 .. taskCounter -> TaskRow] /\ tasks[t] \in TaskRow
  BY DEF TasksOK
<1>2. ASSUME NEW q \in TaskRow
      PROVE  LET row == [q EXCEPT !.state = s, !.worker = w, !.claimedAt = c]
             IN  /\ row \in TaskRow /\ termsOf(row) = termsOf(q) /\ row.state = s
                 /\ row.worker = w /\ row.claimedAt = c /\ row.submittedAt = q.submittedAt
  BY DEF TaskRow, termsOf
<1> DEFINE row == [tasks[t] EXCEPT !.state = s, !.worker = w, !.claimedAt = c]
<1>3. /\ row \in TaskRow /\ termsOf(row) = termsOf(tasks[t]) /\ row.state = s
      /\ row.worker = w /\ row.claimedAt = c /\ row.submittedAt = tasks[t].submittedAt
  BY <1>1, <1>2
<1>4. tasks' = [tasks EXCEPT ![t] = row]
  BY <1>1
<1> HIDE DEF row
<1> QED
  BY <1>1, <1>3, <1>4 DEF Rewrites

LEMMA WriteSubmission ==
    ASSUME TasksOK, NEW t \in DOMAIN tasks, NEW s \in Live \cup Final, NEW b \in Nat,
           tasks' = [tasks EXCEPT ![t].state = s, ![t].submittedAt = b]
    PROVE  Rewrites(t, s, tasks[t].worker, tasks[t].claimedAt, b)
<1>1. tasks \in [1 .. taskCounter -> TaskRow] /\ tasks[t] \in TaskRow
  BY DEF TasksOK
<1>2. ASSUME NEW q \in TaskRow
      PROVE  LET row == [q EXCEPT !.state = s, !.submittedAt = b]
             IN  /\ row \in TaskRow /\ termsOf(row) = termsOf(q) /\ row.state = s
                 /\ row.worker = q.worker /\ row.claimedAt = q.claimedAt
                 /\ row.submittedAt = b
  BY DEF TaskRow, termsOf
<1> DEFINE row == [tasks[t] EXCEPT !.state = s, !.submittedAt = b]
<1>3. /\ row \in TaskRow /\ termsOf(row) = termsOf(tasks[t]) /\ row.state = s
      /\ row.worker = tasks[t].worker /\ row.claimedAt = tasks[t].claimedAt
      /\ row.submittedAt = b
  BY <1>1, <1>2
<1>4. tasks' = [tasks EXCEPT ![t] = row]
  BY <1>1
<1> HIDE DEF row
<1> QED
  BY <1>1, <1>3, <1>4 DEF Rewrites

\* The contracts' mappings of a task's fields move with its row.
LEMMA TaskIsThere ==
    ASSUME TasksOK
    PROVE  /\ DOMAIN tasks = 1 .. taskCounter /\ DOMAIN tasks \subseteq TaskIds
           /\ \A t \in DOMAIN tasks :
                 /\ tasks[t] \in TaskRow /\ stateOf(t) = tasks[t].state
                 /\ stateMap[t] = tasks[t].state /\ workerMap[t] = tasks[t].worker
                 /\ claimedAtMap[t] = tasks[t].claimedAt
                 /\ submittedAtMap[t] = tasks[t].submittedAt
                 /\ termsMap[t] = termsOf(tasks[t])
<1>1. DOMAIN tasks = 1 .. taskCounter /\ \A t \in DOMAIN tasks : tasks[t] \in TaskRow
  BY DEF TasksOK
<1>2. DOMAIN tasks \subseteq TaskIds
  BY <1>1, FakeAssumption DEF TasksOK, TaskIds
<1> QED
  BY <1>1, <1>2 DEF stateOf, stateMap, workerMap, claimedAtMap, submittedAtMap, termsMap

LEMMA MapsMove ==
    ASSUME TasksOK, NEW t \in DOMAIN tasks, NEW s, NEW w, NEW c, NEW b,
           Rewrites(t, s, w, c, b)
    PROVE  /\ stateMap' = [stateMap EXCEPT ![t] = s]
           /\ workerMap' = [workerMap EXCEPT ![t] = w]
           /\ claimedAtMap' = [claimedAtMap EXCEPT ![t] = c]
           /\ submittedAtMap' = [submittedAtMap EXCEPT ![t] = b]
           /\ termsMap' = termsMap
<1>1. DOMAIN tasks' = DOMAIN tasks /\ DOMAIN tasks \subseteq TaskIds
  BY TaskIsThere DEF Rewrites
<1>2. /\ \A u \in DOMAIN tasks \ {t} : tasks'[u] = tasks[u]
      /\ tasks'[t].state = s /\ tasks'[t].worker = w
      /\ tasks'[t].claimedAt = c /\ tasks'[t].submittedAt = b
      /\ termsOf(tasks'[t]) = termsOf(tasks[t])
  BY DEF Rewrites
<1>3. stateMap' = [stateMap EXCEPT ![t] = s]
  BY <1>1, <1>2 DEF stateMap, stateOf
<1>4. workerMap' = [workerMap EXCEPT ![t] = w]
  BY <1>1, <1>2 DEF workerMap
<1>5. claimedAtMap' = [claimedAtMap EXCEPT ![t] = c]
  BY <1>1, <1>2 DEF claimedAtMap
<1>6. submittedAtMap' = [submittedAtMap EXCEPT ![t] = b]
  BY <1>1, <1>2 DEF submittedAtMap
<1>7. termsMap' = [u \in TaskIds |-> IF u \in DOMAIN tasks THEN termsOf(tasks[u]) ELSE NoTerms]
  <2>1. \A u \in DOMAIN tasks : termsOf(tasks'[u]) = termsOf(tasks[u])
    BY <1>2
  <2> QED
    BY <1>1, <2>1 DEF termsMap
<1> QED
  BY <1>3, <1>4, <1>5, <1>6, <1>7 DEF termsMap

\* A field that is written with what it holds does not change.
LEMMA Stays ==
    ASSUME TasksOK, NEW t \in DOMAIN tasks
    PROVE  /\ [workerMap EXCEPT ![t] = tasks[t].worker] = workerMap
           /\ [claimedAtMap EXCEPT ![t] = tasks[t].claimedAt] = claimedAtMap
           /\ [submittedAtMap EXCEPT ![t] = tasks[t].submittedAt] = submittedAtMap
<1>1. t \in TaskIds
  BY TaskIsThere
<1>2. [workerMap EXCEPT ![t] = tasks[t].worker] = workerMap
  BY <1>1, TaskIsThere DEF workerMap
<1>3. [claimedAtMap EXCEPT ![t] = tasks[t].claimedAt] = claimedAtMap
  BY <1>1, TaskIsThere DEF claimedAtMap
<1>4. [submittedAtMap EXCEPT ![t] = tasks[t].submittedAt] = submittedAtMap
  BY <1>1, TaskIsThere DEF submittedAtMap
<1> QED
  BY <1>2, <1>3, <1>4

\* What is not written stays as the contracts read it.
LEMMA PeopleStay ==
    UNCHANGED peopleVars => UNCHANGED <<recordsMap, workerOfMap, spentMap>>
BY DEF peopleVars, recordsMap, workerOfMap, spentMap

LEMMA RecordsStay ==
    UNCHANGED recordVars => UNCHANGED <<scoreMap, completedMap, ratersMap, slotMap, verdictMap,
                                        entriesMap, standingMap>>
BY DEF recordVars, scoreMap, completedMap, ratersMap, slotMap, verdictMap, Verdicts,
       entriesMap, standingMap, Marked, Judged

LEMMA RulesStay ==
    UNCHANGED ruleVars => UNCHANGED <<clock, allowlistedMap, isPaused, cooldownSeconds>>
BY DEF ruleVars, allowlistedMap

LEMMA TasksStay ==
    UNCHANGED tasks => UNCHANGED <<stateMap, workerMap, claimedAtMap, submittedAtMap, termsMap>>
BY DEF stateMap, stateOf, workerMap, claimedAtMap, submittedAtMap, termsMap

-----------------------------------------------------------------------------
(************************* The invariant of the fake ***********************)

\* Nobody is on a listed task.
Staged ==
    \A t \in DOMAIN tasks :
        tasks[t].state = "Open" => tasks[t].worker = NoAddress

\* A buyer's count is of its live tasks, and the escrow holds what they locked.
LiveOf(b) == {t \in DOMAIN tasks : tasks[t].state \in Live /\ tasks[t].buyer = b}
Units(t, k) == {t} \X (1 .. k)
Lock(t) == tasks[t].amount + tasks[t].fee
Locked == UNION {Units(t, Lock(t)) : t \in {u \in DOMAIN tasks : tasks[u].state \in Live}}

Counted == \A b \in Posters : openTasks[b] = Cardinality(LiveOf(b))
Funded == IsFiniteSet(Locked) /\ balances[Escrow] = Cardinality(Locked)

\* A task is judged once, when it ends; a mark is made once.
JudgedOnce ==
    /\ \A e \in log \cap (Feedbacks \cup Judgements) :
          e.taskId \in DOMAIN tasks /\ tasks[e.taskId].state \in Final
    /\ \A e, f \in log \cap Feedbacks : e.taskId = f.taskId => e = f
MarkedOnce == \A e \in log \cap Marks : <<e.agentId, e.specHash>> \in marks

FakeInv == FakeTypeOK /\ Staged /\ Counted /\ Funded /\ JudgedOnce /\ MarkedOnce

\* A step that rewrites a live task to a live state and moves no money.
LEMMA RewritesKeep ==
    ASSUME FakeInv, NEW t \in DOMAIN tasks, tasks[t].state \in Live,
           NEW s \in Live, NEW w \in Holders, NEW c \in Nat, NEW b \in Nat,
           Rewrites(t, s, w, c, b), s = "Open" => w = NoAddress,
           activeClaims' \in [Holders -> Nat], cooldowns' \in [Holders -> Nat],
           UNCHANGED <<taskCounter, balances, openTasks, peopleVars, ruleVars, markVars,
                       recordVars>>
    PROVE  FakeInv'
<1>1. /\ DOMAIN tasks' = DOMAIN tasks
      /\ \A u \in DOMAIN tasks \ {t} : tasks'[u] = tasks[u]
      /\ tasks'[t].state = s /\ tasks'[t].worker = w
      /\ tasks'[t].buyer = tasks[t].buyer /\ tasks'[t].amount = tasks[t].amount
      /\ tasks'[t].fee = tasks[t].fee
  BY TaskIsThere DEF Rewrites, termsOf, FakeInv, FakeTypeOK
<1>2. TasksOK'
  BY DEF Rewrites, FakeInv, FakeTypeOK, TasksOK, ruleVars
<1>3. PeopleOK' /\ RulesOK' /\ MarksOK' /\ RecordsOK'
  BY DEF FakeInv, FakeTypeOK, PeopleOK, RulesOK, MarksOK, RecordsOK, peopleVars, ruleVars,
         markVars, recordVars
<1>4. Staged'
  BY <1>1 DEF FakeInv, Staged
<1>5. Counted'
  <2>1. \A q \in Posters : LiveOf(q)' = LiveOf(q)
    BY <1>1 DEF LiveOf
  <2> QED
    BY <2>1 DEF FakeInv, Counted
<1>6. Funded'
  <2>1. \A u \in DOMAIN tasks : Lock(u)' = Lock(u) /\ (tasks'[u].state \in Live <=> tasks[u].state \in Live)
    BY <1>1 DEF Lock
  <2>2. {u \in DOMAIN tasks' : tasks'[u].state \in Live} = {u \in DOMAIN tasks : tasks[u].state \in Live}
    BY <1>1, <2>1
  <2>3. Locked' = Locked
    BY <2>1, <2>2 DEF Locked
  <2> QED
    BY <2>3 DEF FakeInv, Funded
<1>7. JudgedOnce' /\ MarkedOnce'
  BY <1>1 DEF FakeInv, JudgedOnce, MarkedOnce, Live, Held, Final, recordVars, markVars
<1> QED
  BY <1>2, <1>3, <1>4, <1>5, <1>6, <1>7 DEF FakeInv, FakeTypeOK

-----------------------------------------------------------------------------
(************************ Claims, hand-backs, proofs ***********************)

\* A write is let through when every check of it passes.
LEMMA ClaimGuards ==
    ASSUME FakeInv, NEW t \in TaskIds, NEW w \in Holders, claimRefusal(t, w) = Accepted
    PROVE  /\ ~isPaused /\ w \in DOMAIN workers /\ activeClaims[w] = 0
           /\ ~(clock < cooldowns[w]) /\ t \in DOMAIN tasks
           /\ isSeeded(w) => tasks[t].buyer \in allowlist
           /\ tasks[t].state \in {"Open", "Claimed"}
           /\ tasks[t].state = "Claimed" =>
                 ~(clock =< tasks[t].claimedAt + tasks[t].claimTTL)
<1>1. t \in DOMAIN tasks => stateOf(t) = tasks[t].state
  BY DEF stateOf
<1> QED
  BY <1>1 DEF claimRefusal, Accepted

LEMMA ClaimKeeps ==
    ASSUME FakeInv, NEW t \in TaskIds, NEW w \in Holders, claimBy(t, w)
    PROVE  /\ FakeInv' /\ t \in DOMAIN tasks
           /\ Rewrites(t, "Claimed", w, clock, tasks[t].submittedAt)
<1>1. t \in DOMAIN tasks /\ tasks[t].state \in {"Open", "Claimed"} /\ tasks[t] \in TaskRow
  BY ClaimGuards, TaskIsThere DEF claimBy, FakeInv, FakeTypeOK
<1>2. clock \in Nat /\ CLAIM_COOLDOWN \in Nat /\ TasksOK /\ TaskIds \subseteq Nat
  <2>1. TasksOK
    BY DEF FakeInv, FakeTypeOK
  <2>2. clock \in Nat
    BY <2>1, FakeAssumption DEF TasksOK
  <2>3. CLAIM_COOLDOWN \in Nat /\ TaskIds \subseteq Nat
    BY FakeAssumption DEF TaskIds
  <2> QED
    BY <2>1, <2>2, <2>3
<1>3. "Claimed" \in Live /\ Live \subseteq Live \cup Final
  BY DEF Live, Held
<1>4. Rewrites(t, "Claimed", w, clock, tasks[t].submittedAt)
  BY <1>1, <1>2, <1>3, WriteClaim DEF claimBy
<1>5. activeClaims' \in [Holders -> Nat]
  BY <1>2 DEF claimBy, clearClaim, TasksOK
<1>6. cooldowns' \in [Holders -> Nat]
  <2>1. cooldowns \in [Holders -> Nat] /\ clock + CLAIM_COOLDOWN \in Nat
    BY <1>2 DEF TasksOK
  <2> QED
    BY <2>1 DEF claimBy
<1>7. UNCHANGED <<taskCounter, balances, openTasks, peopleVars, ruleVars, markVars, recordVars>>
  BY DEF claimBy
<1>8. tasks[t].state \in Live /\ tasks[t].submittedAt \in Nat
  BY <1>1, RowFields DEF Live, Held
<1>9. FakeInv'
  BY <1>1, <1>2, <1>3, <1>4, <1>5, <1>6, <1>7, <1>8, RewritesKeep DEF Live, Held
<1> QED
  BY <1>1, <1>4, <1>9

LEMMA ReleaseClaimKeeps ==
    ASSUME FakeInv, NEW t \in TaskIds, NEW w \in Holders, releaseClaimBy(t, w)
    PROVE  /\ FakeInv' /\ t \in DOMAIN tasks
           /\ tasks[t].state = "Claimed" /\ tasks[t].worker = w
           /\ Rewrites(t, "Open", NoAddress, 0, tasks[t].submittedAt)
<1>1. t \in DOMAIN tasks /\ tasks[t].state = "Claimed" /\ tasks[t].worker = w
  BY DEF releaseClaimBy, releaseClaimRefusal, Accepted, stateOf
<1>2. TasksOK /\ tasks[t] \in TaskRow
  BY <1>1, TaskIsThere DEF FakeInv, FakeTypeOK
<1>3. "Open" \in Live /\ Live \subseteq Live \cup Final /\ "Open" \notin Held
      /\ "Claimed" \in Live
  BY DEF Live, Held
<1>4. Rewrites(t, "Open", NoAddress, 0, tasks[t].submittedAt)
  BY <1>1, <1>2, <1>3, WriteClaim DEF releaseClaimBy, Holders
<1>5. activeClaims' \in [Holders -> Nat] /\ cooldowns' \in [Holders -> Nat]
  BY <1>2 DEF releaseClaimBy, clearClaim, TasksOK
<1>6. UNCHANGED <<taskCounter, balances, openTasks, peopleVars, ruleVars, markVars, recordVars>>
  BY DEF releaseClaimBy
<1>7. tasks[t].submittedAt \in Nat
  BY <1>2, RowFields
<1>8. FakeInv'
  BY <1>1, <1>3, <1>4, <1>5, <1>6, <1>7, RewritesKeep DEF Holders
<1> QED
  BY <1>1, <1>4, <1>8

LEMMA SubmitKeeps ==
    ASSUME FakeInv, NEW t \in TaskIds, NEW w \in Holders, submitBy(t, w)
    PROVE  /\ FakeInv' /\ t \in DOMAIN tasks
           /\ tasks[t].state = "Claimed" /\ tasks[t].worker = w
           /\ ~(clock > tasks[t].claimedAt + tasks[t].submitTTL)
           /\ Rewrites(t, "Submitted", tasks[t].worker, tasks[t].claimedAt, clock)
<1>1. t \in DOMAIN tasks /\ tasks[t].state = "Claimed" /\ tasks[t].worker = w
      /\ ~(clock > tasks[t].claimedAt + tasks[t].submitTTL)
  BY DEF submitBy, submitRefusal, Accepted, stateOf
<1>2. TasksOK /\ tasks[t] \in TaskRow /\ clock \in Nat
  BY <1>1, TaskIsThere DEF FakeInv, FakeTypeOK, TasksOK
<1>3. "Submitted" \in Live /\ Live \subseteq Live \cup Final /\ "Submitted" # "Open"
      /\ "Claimed" \in Live
  BY DEF Live, Held
<1>4. Rewrites(t, "Submitted", tasks[t].worker, tasks[t].claimedAt, clock)
  BY <1>1, <1>2, <1>3, WriteSubmission DEF submitBy
<1>5. activeClaims' \in [Holders -> Nat] /\ cooldowns' \in [Holders -> Nat]
  BY <1>2 DEF submitBy, TasksOK
<1>6. UNCHANGED <<taskCounter, balances, openTasks, peopleVars, ruleVars, markVars, recordVars>>
  BY DEF submitBy
<1>7. tasks[t].claimedAt \in Nat
  BY <1>2, RowFields
<1>8. FakeInv'
  BY <1>1, <1>2, <1>3, <1>4, <1>5, <1>6, <1>7, RewritesKeep
<1> QED
  BY <1>1, <1>4, <1>8

LEMMA DisputeKeeps ==
    ASSUME FakeInv, NEW t \in TaskIds, dispute(t)
    PROVE  /\ FakeInv' /\ t \in DOMAIN tasks /\ tasks[t].state = "Submitted"
           /\ ~(clock >= tasks[t].submittedAt + tasks[t].disputeWindow)
           /\ Rewrites(t, "Disputed", tasks[t].worker, tasks[t].claimedAt, tasks[t].submittedAt)
<1>1. t \in DOMAIN tasks /\ tasks[t].state = "Submitted"
      /\ ~(clock >= tasks[t].submittedAt + tasks[t].disputeWindow)
  BY DEF dispute, disputeRefusal, Accepted, stateOf
<1>2. TasksOK /\ tasks[t] \in TaskRow
  BY <1>1, TaskIsThere DEF FakeInv, FakeTypeOK
<1>3. "Disputed" \in Live /\ Live \subseteq Live \cup Final /\ "Disputed" # "Open"
      /\ "Submitted" \in Live /\ "Submitted" \in Held
  BY DEF Live, Held
<1>4. Rewrites(t, "Disputed", tasks[t].worker, tasks[t].claimedAt, tasks[t].submittedAt)
  BY <1>1, <1>2, <1>3, WriteState DEF dispute
<1>5. activeClaims' \in [Holders -> Nat] /\ cooldowns' \in [Holders -> Nat]
  BY <1>2 DEF dispute, TasksOK
<1>6. UNCHANGED <<taskCounter, balances, openTasks, peopleVars, ruleVars, markVars, recordVars>>
  BY DEF dispute
<1>7. tasks[t].claimedAt \in Nat /\ tasks[t].submittedAt \in Nat /\ tasks[t].worker \in Holders
  BY <1>1, <1>2, <1>3, RowFields
<1>8. FakeInv'
  BY <1>1, <1>3, <1>4, <1>5, <1>6, <1>7, RewritesKeep
<1> QED
  BY <1>1, <1>4, <1>8

-----------------------------------------------------------------------------
(******************************* Settlements *******************************)

\* A task has as many units as it locked USDC.
LEMMA UnitsCardinality ==
    ASSUME NEW t, NEW k \in Nat
    PROVE  IsFiniteSet(Units(t, k)) /\ Cardinality(Units(t, k)) = k
<1>1. IsFiniteSet({t}) /\ Cardinality({t}) = 1
  BY FS_Singleton
<1>2. IsFiniteSet(1 .. k) /\ Cardinality(1 .. k) = k
  BY FS_Interval
<1> DEFINE A == {t}
           B == 1 .. k
<1>3. IsFiniteSet(A) /\ IsFiniteSet(B)
  BY <1>1, <1>2
<1> HIDE DEF A, B
<1>4. IsFiniteSet(A \X B) /\ Cardinality(A \X B) = Cardinality(A) * Cardinality(B)
  BY <1>3, FS_Product
<1> QED
  BY <1>1, <1>2, <1>4 DEF Units, A, B

\* Units of two tasks do not meet, and add up.
LEMMA AddingUnits ==
    ASSUME NEW L, NEW U, IsFiniteSet(U), L \cap U = {},
           IsFiniteSet(L) \/ IsFiniteSet(L \cup U)
    PROVE  /\ IsFiniteSet(L) /\ IsFiniteSet(L \cup U) /\ Cardinality(L) \in Nat
           /\ Cardinality(L \cup U) = Cardinality(L) + Cardinality(U)
<1>1. IsFiniteSet(L)
  BY FS_Subset
<1>2. /\ IsFiniteSet(L \cup U)
      /\ Cardinality(L \cup U) = Cardinality(L) + Cardinality(U) - Cardinality(L \cap U)
  BY <1>1, FS_Union
<1>3. Cardinality(L \cap U) = 0 /\ Cardinality(L) \in Nat /\ Cardinality(U) \in Nat
  BY <1>1, FS_EmptySet, FS_CardinalityType
<1> QED
  BY <1>1, <1>2, <1>3

\* The tasks are finite in number.
LEMMA LiveOfFinite ==
    ASSUME TasksOK, NEW b
    PROVE  IsFiniteSet(LiveOf(b)) /\ Cardinality(LiveOf(b)) \in Nat
<1>1. IsFiniteSet(1 .. taskCounter)
  BY FS_Interval DEF TasksOK
<1>2. LiveOf(b) \subseteq 1 .. taskCounter
  BY DEF LiveOf, TasksOK
<1> QED
  BY <1>1, <1>2, FS_Subset, FS_CardinalityType

\* One live task's units, and the rest.
LEMMA LockedWithout ==
    ASSUME TasksOK, NEW t \in DOMAIN tasks, tasks[t].state \in Live, IsFiniteSet(Locked)
    PROVE  LET rest == UNION {Units(v, Lock(v)) :
                                 v \in {u \in DOMAIN tasks \ {t} : tasks[u].state \in Live}}
           IN  /\ Locked = rest \cup Units(t, Lock(t))
               /\ IsFiniteSet(rest) /\ Cardinality(rest) \in Nat
               /\ Cardinality(Locked) = Cardinality(rest) + Lock(t)
<1> DEFINE rest == UNION {Units(v, Lock(v)) :
                             v \in {u \in DOMAIN tasks \ {t} : tasks[u].state \in Live}}
           U == Units(t, Lock(t))
<1>1. Locked = rest \cup U
  BY DEF Locked
<1>2. rest \cap U = {}
  BY DEF Units
<1>3. Lock(t) \in Nat
  BY TaskIsThere, RowFields DEF Lock
<1>4. IsFiniteSet(U) /\ Cardinality(U) = Lock(t)
  BY <1>3, UnitsCardinality
<1> HIDE DEF rest, U
<1>5. /\ IsFiniteSet(rest) /\ Cardinality(rest) \in Nat
      /\ Cardinality(Locked) = Cardinality(rest) + Cardinality(U)
  BY <1>1, <1>2, <1>4, AddingUnits
<1> QED
  BY <1>1, <1>4, <1>5 DEF rest, U

\* A settlement takes one task out of its buyer's count and its units out of
\* the escrow.
LEMMA SettleKeeps ==
    ASSUME FakeInv, NEW t \in DOMAIN tasks, tasks[t].state \in Live, NEW final \in Final,
           NEW x \in Anyone \ {Escrow}, NEW y \in Anyone \ {Escrow},
           Settle(t, final, x, y)
    PROVE  /\ TasksOK' /\ Staged' /\ Counted' /\ Funded'
           /\ Rewrites(t, final, tasks[t].worker, tasks[t].claimedAt, tasks[t].submittedAt)
           /\ openTasks[tasks[t].buyer] > 0 /\ balances[Escrow] >= Lock(t)
           /\ openTasks' = [openTasks EXCEPT ![tasks[t].buyer] = @ - 1]
<1>1. TasksOK /\ tasks[t] \in TaskRow /\ t \in TaskIds
  BY TaskIsThere DEF FakeInv, FakeTypeOK
<1>2. PICK q \in Posters : q = tasks[t].buyer
  BY <1>1, RowFields
<1>3. final \in Live \cup Final /\ final \notin Live /\ final \notin Held /\ final # "Open"
  BY DEF Live, Held, Final
<1>4. Rewrites(t, final, tasks[t].worker, tasks[t].claimedAt, tasks[t].submittedAt)
  BY <1>1, <1>3, WriteState DEF Settle
<1>5. /\ DOMAIN tasks' = DOMAIN tasks
      /\ \A u \in DOMAIN tasks \ {t} : tasks'[u] = tasks[u]
      /\ tasks'[t].state = final
  BY <1>1, <1>4, TaskIsThere DEF Rewrites
<1>6. Cardinality(LiveOf(q)) \in Nat /\ LiveOf(q)' = LiveOf(q) \ {t} /\ t \in LiveOf(q)
      /\ Cardinality(LiveOf(q)') = Cardinality(LiveOf(q)) - 1
  <2>1. IsFiniteSet(LiveOf(q)) /\ Cardinality(LiveOf(q)) \in Nat
    BY <1>1, LiveOfFinite
  <2>2. t \in LiveOf(q)
    BY <1>2 DEF LiveOf
  <2>3. \A u \in DOMAIN tasks : (tasks'[u].state \in Live /\ tasks'[u].buyer = q)
                               <=> (u # t /\ tasks[u].state \in Live /\ tasks[u].buyer = q)
    BY <1>3, <1>5
  <2>4. LiveOf(q)' = LiveOf(q) \ {t}
    BY <1>5, <2>3 DEF LiveOf
  <2>5. Cardinality(LiveOf(q) \ {t}) = Cardinality(LiveOf(q)) - 1
    BY <2>1, <2>2, FS_RemoveElement
  <2> QED
    BY <2>1, <2>2, <2>4, <2>5
<1>7. openTasks[q] \in Nat /\ openTasks[q] = Cardinality(LiveOf(q)) /\ openTasks[q] > 0
  <2>1. IsFiniteSet(LiveOf(q)) /\ LiveOf(q) # {}
    BY <1>1, <1>6, LiveOfFinite
  <2>2. Cardinality(LiveOf(q)) # 0
    BY <2>1, FS_EmptySet
  <2> QED
    BY <1>6, <2>2 DEF FakeInv, Counted
<1>8. openTasks' = [openTasks EXCEPT ![q] = openTasks[q] - 1]
  BY <1>2, <1>7 DEF Settle, closeTask
<1>9. Counted'
  <2>1. \A p \in Posters \ {q} : LiveOf(p)' = LiveOf(p)
    <3>1. tasks'[t].state \notin Live
      BY <1>3, <1>5
    <3> QED
      BY <1>2, <1>5, <3>1 DEF LiveOf
  <2>2. \A p \in Posters : openTasks'[p] = IF p = q THEN openTasks[q] - 1 ELSE openTasks[p]
    BY <1>1, <1>8 DEF TasksOK
  <2> QED
    BY <1>6, <1>7, <2>1, <2>2 DEF FakeInv, Counted
<1>10. /\ IsFiniteSet(Locked') /\ Cardinality(Locked') \in Nat /\ Lock(t) \in Nat
       /\ Cardinality(Locked) = Cardinality(Locked') + Lock(t)
  <2> DEFINE live == {u \in DOMAIN tasks \ {t} : tasks[u].state \in Live}
             rest == UNION {Units(v, Lock(v)) : v \in live}
  <2>1. {u \in DOMAIN tasks' : tasks'[u].state \in Live} = live
    BY <1>3, <1>5
  <2>2. \A v \in live : Lock(v)' = Lock(v)
    BY <1>5 DEF Lock
  <2>3. Locked' = rest
    BY <2>1, <2>2 DEF Locked
  <2>4. /\ IsFiniteSet(rest) /\ Cardinality(rest) \in Nat
        /\ Cardinality(Locked) = Cardinality(rest) + Lock(t)
    BY <1>1, LockedWithout DEF FakeInv, Funded
  <2>5. Lock(t) \in Nat
    BY <1>1, RowFields DEF Lock
  <2> HIDE DEF rest, live
  <2> QED
    BY <2>3, <2>4, <2>5
<1>11. balances' \in [Anyone -> Int] /\ balances'[Escrow] = balances[Escrow] - Lock(t)
  <2>1. PICK m \in Int, n \in Int : m = tasks[t].amount /\ n = tasks[t].fee
    BY <1>1, RowFields
  <2>2. PICK b \in [Anyone -> Int] : b = balances
    BY <1>1 DEF TasksOK
  <2>3. PICK d : d = debit(b, Escrow, m + n)
    OBVIOUS
  <2>4. d \in [Anyone -> Int] /\ d[Escrow] = b[Escrow] - (m + n)
    BY <2>3 DEF debit, Anyone, Accounts
  <2>5. PICK e : e = credit(d, x, m)
    OBVIOUS
  <2>6. e \in [Anyone -> Int] /\ e[Escrow] = d[Escrow]
    BY <2>4, <2>5 DEF credit, Anyone, Accounts
  <2>7. PICK r : r = credit(e, y, n)
    OBVIOUS
  <2>8. r \in [Anyone -> Int] /\ r[Escrow] = e[Escrow]
    BY <2>6, <2>7 DEF credit, Anyone, Accounts
  <2>9. balances' = r
    BY <2>1, <2>2, <2>3, <2>5, <2>7 DEF Settle
  <2>10. Lock(t) = m + n
    BY <2>1 DEF Lock
  <2> QED
    BY <2>2, <2>4, <2>6, <2>8, <2>9, <2>10
<1>12. Funded' /\ balances[Escrow] >= Lock(t)
  BY <1>1, <1>10, <1>11 DEF FakeInv, Funded, TasksOK, Anyone, Accounts
<1>13. Staged'
  BY <1>3, <1>5 DEF FakeInv, Staged
<1>14. TasksOK'
  <2>1. activeClaims' \in [Holders -> Nat]
    BY <1>1 DEF Settle, clearClaim, TasksOK
  <2>2. openTasks' \in [Posters -> Nat]
    BY <1>1, <1>7, <1>8 DEF TasksOK
  <2>3. UNCHANGED <<taskCounter, cooldowns, clock>>
    BY DEF Settle, ruleVars
  <2> QED
    BY <1>1, <1>4, <1>11, <2>1, <2>2, <2>3 DEF TasksOK, Rewrites
<1> QED
  BY <1>2, <1>4, <1>7, <1>8, <1>9, <1>12, <1>13, <1>14

-----------------------------------------------------------------------------
(******************************* The records *******************************)

\* What a record says of a rater.
slotIn(record, r) == IF r \in DOMAIN record.slots THEN record.slots[r] ELSE NoOutcome

\* A record moves as the contract moves it: by the old slot and the new one.
LEMMA RecordedIs ==
    ASSUME NEW q \in Tally, NEW key \in Voices, NEW o \in OutcomeCodes
    PROVE  LET new == recorded(q, key, o)
               old == slotIn(q, key)
           IN  /\ new \in Tally
               /\ new.score = q.score + Contract!scoreDelta(old, o)
               /\ new.completed = (IF o = RESOLVED_TO_BUYER THEN q.completed ELSE q.completed + 1)
               /\ new.distinctRaters = (IF old = NoOutcome THEN q.distinctRaters + 1
                                        ELSE q.distinctRaters)
               /\ \A r \in Voices : slotIn(new, r) = IF r = key THEN o ELSE slotIn(q, r)
<1>1. /\ q.score \in Int /\ q.completed \in Nat /\ q.distinctRaters \in Nat
      /\ q.slots \in UNION {[D -> OutcomeCodes] : D \in SUBSET Voices}
  BY DEF Tally
<1>2. PICK D \in SUBSET Voices : q.slots \in [D -> OutcomeCodes]
  BY <1>1
<1>3. PICK slots : slots = Put(q.slots, key, o)
  OBVIOUS
<1>4. /\ slots \in [D \cup {key} -> OutcomeCodes] /\ DOMAIN slots = D \cup {key}
      /\ \A k \in D \cup {key} : slots[k] = IF k = key THEN o ELSE q.slots[k]
  BY <1>2, <1>3 DEF Put
<1>5. slots \in UNION {[C -> OutcomeCodes] : C \in SUBSET Voices}
  BY <1>4
<1>6. NoOutcome \notin OutcomeCodes
  BY DEF NoOutcome, OutcomeCodes, PAID, RESOLVED_TO_WORKER, RESOLVED_TO_BUYER
<1>7. DOMAIN q.slots = D /\ (slotIn(q, key) = NoOutcome <=> key \notin D)
      /\ (key \in D => slotIn(q, key) = q.slots[key])
  BY <1>2, <1>6 DEF slotIn
<1>8. \A v \in OutcomeCodes \cup {NoOutcome} :
         outcomeValue(v) \in Int /\ outcomeValue(v) = Contract!slotValue(v)
  BY DEF outcomeValue, Contract!slotValue, RESOLVED_TO_BUYER, Contract!RESOLVED_TO_BUYER
<1> DEFINE new == recorded(q, key, o)
           delta == outcomeValue(o) - (IF key \notin D THEN 0 ELSE outcomeValue(q.slots[key]))
<1>9. delta \in Int /\ delta = Contract!scoreDelta(slotIn(q, key), o)
  <2>1. outcomeValue(o) \in Int /\ outcomeValue(o) = Contract!slotValue(o)
    BY <1>8
  <2>2. CASE key \notin D
    BY <1>7, <2>1, <2>2 DEF Contract!scoreDelta, NoOutcome, Contract!NoOutcome
  <2>3. CASE key \in D
    <3>1. slotIn(q, key) = q.slots[key] /\ q.slots[key] \in OutcomeCodes
      BY <1>2, <1>7, <2>3
    <3>2. PICK v \in OutcomeCodes : v = q.slots[key]
      BY <3>1
    <3>3. outcomeValue(v) \in Int /\ outcomeValue(v) = Contract!slotValue(v) /\ v # NoOutcome
      BY <1>6, <1>8
    <3> QED
      BY <2>1, <2>3, <3>1, <3>2, <3>3 DEF Contract!scoreDelta, NoOutcome, Contract!NoOutcome
  <2> QED
    BY <2>2, <2>3
<1>10. new = [score |-> q.score + outcomeValue(o)
                           - (IF key \notin D THEN 0 ELSE outcomeValue(q.slots[key])),
              completed |-> q.completed
                               + (IF o \in {PAID, RESOLVED_TO_WORKER} THEN 1 ELSE 0),
              distinctRaters |-> q.distinctRaters + (IF key \notin D THEN 1 ELSE 0),
              slots |-> slots]
  BY <1>3, <1>7 DEF recorded
<1>11. q.score + outcomeValue(o) - (IF key \notin D THEN 0 ELSE outcomeValue(q.slots[key]))
          = q.score + delta
  <2>1. outcomeValue(o) \in Int /\ (key \in D => outcomeValue(q.slots[key]) \in Int)
    BY <1>2, <1>8
  <2> QED
    BY <1>1, <2>1
<1> HIDE DEF new, delta
<1>12. new.score = q.score + delta /\ new.score \in Int
  BY <1>1, <1>9, <1>10, <1>11
<1>13. /\ new.completed = (IF o = RESOLVED_TO_BUYER THEN q.completed ELSE q.completed + 1)
       /\ new.completed \in Nat
  BY <1>1, <1>10 DEF OutcomeCodes, PAID, RESOLVED_TO_WORKER, RESOLVED_TO_BUYER
<1>14. /\ new.distinctRaters = (IF key \notin D THEN q.distinctRaters + 1 ELSE q.distinctRaters)
       /\ new.distinctRaters \in Nat
  BY <1>1, <1>10
<1>15. new \in Tally
  BY <1>5, <1>10, <1>12, <1>13, <1>14 DEF Tally
<1>16. \A r \in Voices : slotIn(new, r) = IF r = key THEN o ELSE slotIn(q, r)
  <2>1. new.slots = slots
    BY <1>10
  <2> QED
    BY <1>4, <1>7, <2>1 DEF slotIn
<1> QED
  BY <1>7, <1>9, <1>12, <1>13, <1>14, <1>15, <1>16 DEF new

\* The two kinds of event a settlement logs.
FeedbackOf(t, o) == [name |-> "Feedback", taskId |-> t, outcome |-> o]
OutcomeOf(a, t, o) == [name |-> "Outcome", agentId |-> a, taskId |-> t, outcome |-> o]

\* Which events of the log are which.
LEMMA LogIs ==
    ASSUME RecordsOK, NEW e \in log
    PROVE  /\ e.name = "Feedback" <=> e \in Feedbacks
           /\ e.name = "Outcome" <=> e \in Judgements
           /\ e.name = "Marked" <=> e \in Marks
<1>1. e \in Feedbacks \/ e \in Judgements \/ e \in Marks
  BY DEF RecordsOK
<1>2. (e \in Feedbacks => e.name = "Feedback") /\ (e \in Judgements => e.name = "Outcome")
      /\ (e \in Marks => e.name = "Marked")
  BY DEF Feedbacks, Judgements, Marks
<1> QED
  BY <1>1, <1>2

\* Who is judged, by whom, and for whom it is told.
LEMMA JudgedWho ==
    ASSUME FakeInv, NEW t \in DOMAIN tasks
    PROVE  /\ nullifierFor(tasks[t].worker) \in Humans
           /\ raterKey(tasks[t]) \in Voices
           /\ tasks[t].buyerAgentId \in AgentIds \cup {NoAgent} /\ t \in TaskIds
<1>1. tasks[t] \in TaskRow /\ t \in TaskIds
  BY TaskIsThere DEF FakeInv, FakeTypeOK
<1>2. PICK D \in SUBSET Holders : workers \in [D -> Person]
  BY DEF FakeInv, FakeTypeOK, PeopleOK
<1>3. nullifierFor(tasks[t].worker) \in Humans
  <2>1. \A w \in D : workers[w].nullifier \in Humans
    BY <1>2 DEF Person
  <2> QED
    BY <1>2, <2>1 DEF nullifierFor, Humans
<1>4. raterKey(tasks[t]) \in Voices
  BY <1>1, RowFields, FakeAssumption DEF raterKey, Voices, Posters
<1> QED
  BY <1>1, <1>3, <1>4, RowFields

\* The events a settlement adds to the log.
LEMMA LogGrows ==
    ASSUME FakeInv, NEW t \in DOMAIN tasks, NEW o \in OutcomeCodes, feedback(t, o)
    PROVE  LET a == tasks[t].buyerAgentId
           IN  /\ FeedbackOf(t, o) \in Feedbacks
               /\ a # NoAgent => OutcomeOf(a, t, o) \in Judgements
               /\ log' = IF a # NoAgent THEN log \cup {FeedbackOf(t, o), OutcomeOf(a, t, o)}
                                        ELSE log \cup {FeedbackOf(t, o)}
<1>1. PICK a \in AgentIds \cup {NoAgent} : a = tasks[t].buyerAgentId
  BY JudgedWho
<1>2. t \in TaskIds
  BY JudgedWho
<1>3. log' = log \cup {FeedbackOf(t, o)} \cup {OutcomeOf(x, t, o) : x \in {a} \ {NoAgent}}
  BY <1>1 DEF feedback, FeedbackOf, OutcomeOf
<1>4. FeedbackOf(t, o) \in Feedbacks
  BY <1>2 DEF Feedbacks, FeedbackOf
<1>5. a # NoAgent => OutcomeOf(a, t, o) \in Judgements
  BY <1>2 DEF Judgements, OutcomeOf
<1>6. log' = IF a # NoAgent THEN log \cup {FeedbackOf(t, o), OutcomeOf(a, t, o)}
                            ELSE log \cup {FeedbackOf(t, o)}
  BY <1>3
<1> QED
  BY <1>1, <1>4, <1>5, <1>6

\* Nothing is known of a live task yet.
LEMMA NotJudgedYet ==
    ASSUME FakeInv, NEW t \in DOMAIN tasks, tasks[t].state \in Live, NEW e \in log,
           e \in Feedbacks \cup Judgements
    PROVE  e.taskId # t
<1>1. Live \cap Final = {}
  BY DEF Live, Held, Final
<1> QED
  BY <1>1 DEF FakeInv, JudgedOnce

LEMMA FeedbackKeeps ==
    ASSUME FakeInv, NEW t \in DOMAIN tasks, tasks[t].state \in Live, NEW o \in OutcomeCodes,
           feedback(t, o), DOMAIN tasks' = DOMAIN tasks, tasks'[t].state \in Final,
           \A u \in DOMAIN tasks \ {t} : tasks'[u] = tasks[u], UNCHANGED marks
    PROVE  RecordsOK' /\ JudgedOnce' /\ MarkedOnce'
<1>1. PICK n \in Humans, key \in Voices, a \in AgentIds \cup {NoAgent} :
         /\ n = nullifierFor(tasks[t].worker) /\ key = raterKey(tasks[t])
         /\ a = tasks[t].buyerAgentId
  BY JudgedWho
<1>2. /\ FeedbackOf(t, o) \in Feedbacks /\ (a # NoAgent => OutcomeOf(a, t, o) \in Judgements)
      /\ log' = IF a # NoAgent THEN log \cup {FeedbackOf(t, o), OutcomeOf(a, t, o)}
                               ELSE log \cup {FeedbackOf(t, o)}
  BY <1>1, LogGrows
<1>3. /\ reputation \in [Humans -> Tally] /\ IsFiniteSet(log)
      /\ log \subseteq Feedbacks \cup Judgements \cup Marks
  BY DEF FakeInv, FakeTypeOK, RecordsOK
<1>4. reputation' = [reputation EXCEPT ![n] = recorded(reputation[n], key, o)]
  BY <1>1 DEF feedback
<1>5. recorded(reputation[n], key, o) \in Tally
  BY <1>3, RecordedIs
<1>6. IsFiniteSet(log') /\ log' \subseteq Feedbacks \cup Judgements \cup Marks
  <2>1. IsFiniteSet(log \cup {FeedbackOf(t, o)})
    BY <1>3, FS_AddElement
  <2>2. IsFiniteSet((log \cup {FeedbackOf(t, o)}) \cup {OutcomeOf(a, t, o)})
    BY <2>1, FS_AddElement
  <2>3. log \cup {FeedbackOf(t, o), OutcomeOf(a, t, o)}
           = (log \cup {FeedbackOf(t, o)}) \cup {OutcomeOf(a, t, o)}
    OBVIOUS
  <2>4. IsFiniteSet(log')
    BY <1>2, <2>1, <2>2, <2>3
  <2>5. log' \subseteq Feedbacks \cup Judgements \cup Marks
    BY <1>2, <1>3
  <2> QED
    BY <2>4, <2>5
<1>7. RecordsOK'
  BY <1>3, <1>4, <1>5, <1>6 DEF RecordsOK
<1>8. /\ FeedbackOf(t, o).taskId = t /\ FeedbackOf(t, o).name = "Feedback"
      /\ OutcomeOf(a, t, o).taskId = t /\ OutcomeOf(a, t, o).name = "Outcome"
  BY DEF FeedbackOf, OutcomeOf
<1>9. /\ \A e \in Feedbacks : e.name = "Feedback"
      /\ \A e \in Judgements : e.name = "Outcome"
      /\ \A e \in Marks : e.name = "Marked"
  BY DEF Feedbacks, Judgements, Marks
<1>10. JudgedOnce'
  <2>1. ASSUME NEW e \in log' \cap (Feedbacks \cup Judgements)
        PROVE  e.taskId \in DOMAIN tasks' /\ tasks'[e.taskId].state \in Final
    <3>1. CASE e \in log
      BY <2>1, <3>1, NotJudgedYet DEF FakeInv, JudgedOnce
    <3>2. CASE e \notin log
      <4>1. e.taskId = t
        BY <1>2, <1>8, <2>1, <3>2
      <4> QED
        BY <4>1
    <3> QED
      BY <3>1, <3>2
  <2>2. ASSUME NEW e \in log' \cap Feedbacks, NEW f \in log' \cap Feedbacks, e.taskId = f.taskId
        PROVE  e = f
    <3>1. \A x \in log' \cap Feedbacks : x \in log \/ x = FeedbackOf(t, o)
      BY <1>2, <1>8, <1>9
    <3>2. \A x \in log \cap Feedbacks : x.taskId # t
      BY NotJudgedYet
    <3> QED
      BY <1>8, <2>2, <3>1, <3>2 DEF FakeInv, JudgedOnce
  <2> QED
    BY <2>1, <2>2 DEF JudgedOnce
<1>11. MarkedOnce'
  <2>1. log' \cap Marks = log \cap Marks
    BY <1>2, <1>8, <1>9
  <2> QED
    BY <2>1 DEF FakeInv, MarkedOnce
<1> QED
  BY <1>7, <1>10, <1>11

\* Nobody but the escrow is paid.
LEMMA Payees ==
    ASSUME FakeInv, NEW t \in DOMAIN tasks
    PROVE  /\ tasks[t].buyer \in Anyone \ {Escrow} /\ Treasury \in Anyone \ {Escrow}
           /\ tasks[t].worker \in Anyone \ {Escrow}
<1>1. tasks[t] \in TaskRow
  BY TaskIsThere DEF FakeInv, FakeTypeOK
<1>2. tasks[t].buyer \in Posters /\ tasks[t].worker \in Holders
  BY <1>1, RowFields
<1> QED
  BY <1>2, FakeAssumption DEF Posters, Holders, Anyone, Accounts

\* A settlement keeps the invariant, with a verdict or without.
LEMMA SettlementKeeps ==
    ASSUME FakeInv, NEW t \in DOMAIN tasks, tasks[t].state \in Live, NEW final \in Final,
           NEW x \in Anyone \ {Escrow}, NEW y \in Anyone \ {Escrow},
           Settle(t, final, x, y),
           UNCHANGED recordVars \/ \E o \in OutcomeCodes : feedback(t, o)
    PROVE  FakeInv'
<1>1. /\ TasksOK' /\ Staged' /\ Counted' /\ Funded'
      /\ Rewrites(t, final, tasks[t].worker, tasks[t].claimedAt, tasks[t].submittedAt)
  BY SettleKeeps
<1>2. PeopleOK' /\ RulesOK' /\ MarksOK' /\ UNCHANGED marks
  BY DEF Settle, FakeInv, FakeTypeOK, PeopleOK, RulesOK, MarksOK, peopleVars, ruleVars, markVars
<1>3. /\ DOMAIN tasks' = DOMAIN tasks /\ tasks'[t].state \in Final
      /\ \A u \in DOMAIN tasks \ {t} : tasks'[u] = tasks[u]
  BY <1>1, TaskIsThere DEF Rewrites, FakeInv, FakeTypeOK
<1>4. RecordsOK' /\ JudgedOnce' /\ MarkedOnce'
  <2>1. CASE UNCHANGED recordVars
    <3>1. RecordsOK'
      BY <2>1 DEF FakeInv, FakeTypeOK, RecordsOK, recordVars
    <3>2. JudgedOnce' /\ MarkedOnce'
      BY <1>2, <1>3, <2>1 DEF FakeInv, JudgedOnce, MarkedOnce, recordVars
    <3> QED
      BY <3>1, <3>2
  <2>2. CASE \E o \in OutcomeCodes : feedback(t, o)
    <3>1. PICK o \in OutcomeCodes : feedback(t, o)
      BY <2>2
    <3> QED
      BY <1>2, <1>3, <3>1, FeedbackKeeps
  <2> QED
    BY <2>1, <2>2
<1> QED
  BY <1>1, <1>2, <1>4 DEF FakeInv, FakeTypeOK

\* Each way a task ends.
LEMMA ReleaseKeeps ==
    ASSUME FakeInv, NEW t \in TaskIds, stateOf(t) = "Submitted", release(t)
    PROVE  /\ FakeInv' /\ t \in DOMAIN tasks /\ tasks[t].state = "Submitted"
           /\ tasks[t].worker \in Anyone \ {Escrow} /\ Treasury \in Anyone \ {Escrow}
<1>1. t \in DOMAIN tasks /\ tasks[t].state = "Submitted"
  BY DEF stateOf
<1>2. "Submitted" \in Live /\ "Submitted" \in Held /\ "Released" \in Final /\ PAID \in OutcomeCodes
  BY DEF Live, Held, Final, OutcomeCodes
<1>3. tasks[t].worker \in Anyone \ {Escrow} /\ Treasury \in Anyone \ {Escrow}
  BY <1>1, <1>2, Payees
<1>4. Settle(t, "Released", tasks[t].worker, Treasury) /\ feedback(t, PAID)
  BY DEF release
<1>5. FakeInv'
  BY <1>1, <1>2, <1>3, <1>4, SettlementKeeps
<1> QED
  BY <1>1, <1>3, <1>5

LEMMA ResolveKeeps ==
    ASSUME FakeInv, NEW t \in TaskIds, NEW toBuyer \in BOOLEAN, resolve(t, toBuyer)
    PROVE  /\ FakeInv' /\ t \in DOMAIN tasks /\ tasks[t].state = "Disputed"
           /\ tasks[t].worker \in Anyone \ {Escrow} /\ tasks[t].buyer \in Anyone \ {Escrow}
<1>1. t \in DOMAIN tasks /\ tasks[t].state = "Disputed"
  BY DEF resolve, resolveRefusal, Accepted, stateOf
<1>2. "Disputed" \in Live /\ "Disputed" \in Held /\ "Resolved" \in Final
      /\ RESOLVED_TO_BUYER \in OutcomeCodes /\ RESOLVED_TO_WORKER \in OutcomeCodes
  BY DEF Live, Held, Final, OutcomeCodes
<1>3. tasks[t].worker \in Anyone \ {Escrow} /\ tasks[t].buyer \in Anyone \ {Escrow}
  BY <1>1, <1>2, Payees
<1>4. PICK x \in Anyone \ {Escrow}, o \in OutcomeCodes :
         Settle(t, "Resolved", x, tasks[t].buyer) /\ feedback(t, o)
  <2>1. CASE toBuyer
    BY <1>2, <1>3, <2>1 DEF resolve
  <2>2. CASE ~toBuyer
    BY <1>2, <1>3, <2>2 DEF resolve
  <2> QED
    BY <2>1, <2>2
<1>5. FakeInv'
  BY <1>1, <1>2, <1>3, <1>4, SettlementKeeps
<1> QED
  BY <1>1, <1>3, <1>5

LEMMA ExpireKeeps ==
    ASSUME FakeInv, NEW t \in TaskIds, expire(t)
    PROVE  /\ FakeInv' /\ t \in DOMAIN tasks /\ tasks[t].buyer \in Anyone \ {Escrow}
           /\ \/ tasks[t].state = "Open" /\ clock > tasks[t].postedAt + tasks[t].claimTTL
              \/ tasks[t].state = "Claimed" /\ clock > tasks[t].claimedAt + tasks[t].submitTTL
<1>1. /\ t \in DOMAIN tasks
      /\ \/ tasks[t].state = "Open" /\ clock > tasks[t].postedAt + tasks[t].claimTTL
         \/ tasks[t].state = "Claimed" /\ clock > tasks[t].claimedAt + tasks[t].submitTTL
  BY DEF expire, expireRefusal, Accepted, stateOf
<1>2. "Open" \in Live /\ "Claimed" \in Live /\ "Refunded" \in Final
  BY DEF Live, Held, Final
<1>3. tasks[t].buyer \in Anyone \ {Escrow}
  BY <1>1, Payees
<1>4. Settle(t, "Refunded", tasks[t].buyer, tasks[t].buyer) /\ UNCHANGED recordVars
  BY DEF expire
<1>5. FakeInv'
  BY <1>1, <1>2, <1>3, <1>4, SettlementKeeps
<1> QED
  BY <1>1, <1>3, <1>5

-----------------------------------------------------------------------------
(*********************************** Posts *********************************)

\* The row of a new task.
NewRow(p) ==
    [amount |-> p.amount, fee |-> feeOn(p.amount), buyer |-> p.buyer,
     buyerAgentId |-> p.buyerAgentId, worker |-> NoAddress, state |-> "Open",
     postedAt |-> clock, claimedAt |-> 0, submittedAt |-> 0,
     claimTTL |-> p.claimTTL, submitTTL |-> p.submitTTL,
     disputeWindow |-> p.disputeWindow]

\* What a post comes with.
LEMMA PostFields ==
    ASSUME NEW p \in PostParams
    PROVE  /\ p.buyer \in Posters /\ p.buyerAgentId \in AgentIds \cup {NoAgent}
           /\ p.amount \in Nat /\ p.claimTTL \in Nat /\ p.submitTTL \in Nat
           /\ p.disputeWindow \in Nat /\ feeOn(p.amount) \in Nat
<1>1. /\ p.buyer \in Posters /\ p.buyerAgentId \in AgentIds \cup {NoAgent}
      /\ p.amount \in Nat /\ p.claimTTL \in Nat /\ p.submitTTL \in Nat
      /\ p.disputeWindow \in Nat
  BY FakeAssumption
<1>2. FEE_BPS \in Nat
  BY FakeAssumption
<1>3. \A i, j \in Nat : (i * j) \div 10000 \in Nat
  OBVIOUS
<1> QED
  BY <1>1, <1>2, <1>3 DEF feeOn

\* A post is let through when every check of it passes, and adds one task.
LEMMA PostAdds ==
    ASSUME FakeInv, NEW p \in PostParams, NEW payer \in {Relayer, p.buyer}, postFrom(p, payer)
    PROVE  /\ ~isPaused /\ p.amount =< MAX_TASK_AMOUNT /\ MIN_TASK_AMOUNT =< p.amount
           /\ openTasks[p.buyer] < maxOpenTasksPerBuyer
           /\ balances[payer] >= p.amount + feeOn(p.amount)
           /\ payer \in Anyone \ {Escrow}
           /\ taskCounter + 1 \in TaskIds /\ taskCounter + 1 \notin DOMAIN tasks
           /\ NewRow(p) \in TaskRow
           /\ taskCounter' = taskCounter + 1
           /\ tasks' \in [1 .. taskCounter' -> TaskRow]
           /\ tasks'[taskCounter + 1] = NewRow(p)
           /\ DOMAIN tasks' = DOMAIN tasks \cup {taskCounter + 1}
           /\ \A u \in DOMAIN tasks : tasks'[u] = tasks[u]
<1>1. /\ p.buyer \in Posters /\ p.buyerAgentId \in AgentIds \cup {NoAgent}
      /\ p.amount \in Nat /\ p.claimTTL \in Nat /\ p.submitTTL \in Nat
      /\ p.disputeWindow \in Nat /\ feeOn(p.amount) \in Nat
  BY PostFields
<1>2. /\ clock \in 1 .. MaxTime /\ taskCounter \in 0 .. MaxTasks /\ openTasks \in [Posters -> Nat]
      /\ balances \in [Anyone -> Int] /\ tasks \in [1 .. taskCounter -> TaskRow]
  BY DEF FakeInv, FakeTypeOK, TasksOK
<1>3. /\ {MIN_TASK_AMOUNT, MAX_TASK_AMOUNT, maxOpenTasksPerBuyer, MaxTasks} \subseteq Nat
      /\ Escrow \notin Workers \cup Buyers \cup {Relayer, Treasury, NoAddress}
      /\ MaxTime \in Nat \ {0}
  BY FakeAssumption DEF Accounts
<1>4. payer \in Anyone \ {Escrow}
  BY <1>1, <1>3 DEF Posters, Anyone, Accounts
<1>5. /\ ~isPaused /\ ~(p.amount > MAX_TASK_AMOUNT) /\ ~(p.amount < MIN_TASK_AMOUNT)
      /\ ~(openTasks[p.buyer] >= maxOpenTasksPerBuyer)
      /\ ~(balances[payer] < p.amount + feeOn(p.amount))
  BY DEF postFrom, postRefusal, Accepted
<1>6. openTasks[p.buyer] \in Nat /\ balances[payer] \in Int
  BY <1>1, <1>2, <1>4
<1>7. /\ ~isPaused /\ p.amount =< MAX_TASK_AMOUNT /\ MIN_TASK_AMOUNT =< p.amount
      /\ openTasks[p.buyer] < maxOpenTasksPerBuyer
      /\ balances[payer] >= p.amount + feeOn(p.amount)
  BY <1>1, <1>3, <1>5, <1>6
<1>8. NewRow(p) \in TaskRow
  <2>1. clock \in Nat
    BY <1>2, <1>3
  <2>2. "Open" \in Live \cup Final
    BY DEF Live
  <2> QED
    BY <1>1, <2>1, <2>2 DEF NewRow, TaskRow, Holders
<1>9. taskCounter' = taskCounter + 1 /\ tasks' = Put(tasks, taskCounter + 1, NewRow(p))
      /\ taskCounter < MaxTasks
  BY DEF postFrom, NewRow
<1>10. /\ taskCounter + 1 \in TaskIds /\ taskCounter + 1 \notin DOMAIN tasks
       /\ (1 .. taskCounter) \cup {taskCounter + 1} = 1 .. (taskCounter + 1)
       /\ DOMAIN tasks = 1 .. taskCounter
  BY <1>2, <1>3, <1>9 DEF TaskIds
<1> DEFINE row == NewRow(p)
           id == taskCounter + 1
<1>11. row \in TaskRow /\ tasks' = Put(tasks, id, row) /\ id \notin DOMAIN tasks
  BY <1>8, <1>9, <1>10
<1> HIDE DEF row, id
<1>12. /\ tasks' \in [(1 .. taskCounter) \cup {id} -> TaskRow] /\ tasks'[id] = row
       /\ DOMAIN tasks' = DOMAIN tasks \cup {id}
       /\ \A u \in DOMAIN tasks : tasks'[u] = tasks[u]
  BY <1>2, <1>11 DEF Put
<1> QED
  BY <1>4, <1>7, <1>8, <1>9, <1>10, <1>12 DEF row, id

\* A debit of the payer and a credit of the escrow.
LEMMA EscrowIsPaid ==
    ASSUME NEW b \in [Anyone -> Int], NEW x \in Anyone \ {Escrow}, NEW k \in Int, NEW r,
           r = credit(debit(b, x, k), Escrow, k)
    PROVE  r \in [Anyone -> Int] /\ r[Escrow] = b[Escrow] + k
<1>1. PICK d : d = debit(b, x, k)
  OBVIOUS
<1>2. d \in [Anyone -> Int] /\ d[Escrow] = b[Escrow]
  BY <1>1 DEF debit, Anyone, Accounts
<1>3. r = [d EXCEPT ![Escrow] = d[Escrow] + k]
  BY <1>1 DEF credit
<1> QED
  BY <1>2, <1>3 DEF Anyone, Accounts

LEMMA PostKeeps ==
    ASSUME FakeInv, NEW p \in PostParams, NEW payer \in {Relayer, p.buyer}, postFrom(p, payer)
    PROVE  FakeInv'
<1>1. PICK id : id = taskCounter + 1
  OBVIOUS
<1>2. PICK row \in TaskRow : row = NewRow(p)
  BY PostAdds
<1>3. /\ id \in TaskIds /\ id \notin DOMAIN tasks
      /\ taskCounter' = id /\ tasks' \in [1 .. taskCounter' -> TaskRow] /\ tasks'[id] = row
      /\ DOMAIN tasks' = DOMAIN tasks \cup {id}
      /\ \A u \in DOMAIN tasks : tasks'[u] = tasks[u]
  BY <1>1, <1>2, PostAdds
<1>4. PICK q \in Posters : q = p.buyer
  BY PostFields
<1>5. /\ row.buyer = q /\ row.state = "Open" /\ row.worker = NoAddress
      /\ row.amount = p.amount /\ row.fee = feeOn(p.amount)
  BY <1>2, <1>4 DEF NewRow
<1>6. PICK k \in Nat : k = p.amount + feeOn(p.amount)
  BY PostFields
<1>7. TasksOK /\ payer \in Anyone \ {Escrow}
  BY PostAdds DEF FakeInv, FakeTypeOK
<1>8. balances' \in [Anyone -> Int] /\ balances'[Escrow] = balances[Escrow] + k
  <2>1. balances' = credit(debit(balances, payer, k), Escrow, k)
    BY <1>6 DEF postFrom
  <2>2. balances \in [Anyone -> Int] /\ k \in Int
    BY <1>7 DEF TasksOK
  <2>3. PICK b, r : b \in [Anyone -> Int] /\ b = balances /\ r = balances'
    BY <2>2
  <2>4. r = credit(debit(b, payer, k), Escrow, k)
    BY <2>1, <2>3
  <2>5. r \in [Anyone -> Int] /\ r[Escrow] = b[Escrow] + k
    BY <1>7, <2>2, <2>3, <2>4, EscrowIsPaid
  <2> QED
    BY <2>3, <2>5
<1>9. openTasks' = [openTasks EXCEPT ![q] = openTasks[q] + 1] /\ openTasks \in [Posters -> Nat]
  BY <1>4, <1>7 DEF postFrom, TasksOK
<1>10. UNCHANGED <<activeClaims, cooldowns, peopleVars, ruleVars, markVars, recordVars>>
  BY DEF postFrom
<1>11. TasksOK'
  <2>1. id \in 0 .. MaxTasks
    BY <1>3, FakeAssumption DEF TaskIds
  <2> QED
    BY <1>3, <1>7, <1>8, <1>9, <1>10, <2>1 DEF TasksOK, ruleVars
<1>12. PeopleOK' /\ RulesOK' /\ MarksOK' /\ RecordsOK'
  BY <1>10 DEF FakeInv, FakeTypeOK, PeopleOK, RulesOK, MarksOK, RecordsOK, peopleVars, ruleVars,
               markVars, recordVars
<1>13. Staged'
  BY <1>3, <1>5 DEF FakeInv, Staged, Held
<1>14. Counted'
  <2>1. IsFiniteSet(LiveOf(q)) /\ Cardinality(LiveOf(q)) \in Nat
    BY <1>7, LiveOfFinite
  <2>2. LiveOf(q)' = LiveOf(q) \cup {id} /\ id \notin LiveOf(q)
    BY <1>3, <1>5 DEF LiveOf, Live
  <2>3. Cardinality(LiveOf(q)') = Cardinality(LiveOf(q)) + 1
    BY <2>1, <2>2, FS_AddElement
  <2>4. \A x \in Posters \ {q} : LiveOf(x)' = LiveOf(x)
    BY <1>3, <1>5 DEF LiveOf
  <2>5. \A x \in Posters : openTasks'[x] = IF x = q THEN openTasks[q] + 1 ELSE openTasks[x]
    BY <1>9
  <2> QED
    BY <2>3, <2>4, <2>5 DEF FakeInv, Counted
<1>15. Funded'
  <2> DEFINE live == {u \in DOMAIN tasks : tasks[u].state \in Live}
  <2>1. {u \in DOMAIN tasks' : tasks'[u].state \in Live} = live \cup {id}
    BY <1>3, <1>5 DEF Live
  <2>2. Lock(id)' = k /\ \A v \in live : Lock(v)' = Lock(v)
    BY <1>3, <1>5, <1>6 DEF Lock
  <2>3. Locked' = Locked \cup Units(id, k)
    BY <2>1, <2>2 DEF Locked
  <2>4. Locked \cap Units(id, k) = {}
    BY <1>3 DEF Locked, Units
  <2>5. IsFiniteSet(Units(id, k)) /\ Cardinality(Units(id, k)) = k
    BY UnitsCardinality
  <2>6. IsFiniteSet(Locked) /\ balances[Escrow] = Cardinality(Locked)
    BY DEF FakeInv, Funded
  <2>7. /\ IsFiniteSet(Locked \cup Units(id, k))
        /\ Cardinality(Locked \cup Units(id, k)) = Cardinality(Locked) + Cardinality(Units(id, k))
    BY <2>4, <2>5, <2>6, AddingUnits
  <2> HIDE DEF live
  <2> QED
    BY <1>8, <2>3, <2>5, <2>6, <2>7 DEF Funded
<1>16. JudgedOnce' /\ MarkedOnce'
  BY <1>3, <1>10 DEF FakeInv, JudgedOnce, MarkedOnce, recordVars, markVars
<1> QED
  BY <1>11, <1>12, <1>13, <1>14, <1>15, <1>16 DEF FakeInv, FakeTypeOK

-----------------------------------------------------------------------------
(************************ Owner, registry, marks, time *********************)

\* The calls below touch no task.
LEMMA TasksKept ==
    ASSUME FakeInv, UNCHANGED taskVars, clock' \in 1 .. MaxTime
    PROVE  TasksOK' /\ Staged' /\ Counted' /\ Funded'
<1>1. UNCHANGED <<tasks, taskCounter, balances, openTasks, activeClaims, cooldowns>>
  BY DEF taskVars
<1>2. TasksOK'
  BY <1>1 DEF FakeInv, FakeTypeOK, TasksOK
<1>3. Staged'
  BY <1>1 DEF FakeInv, Staged
<1>4. Counted'
  BY <1>1 DEF FakeInv, Counted, LiveOf
<1>5. Funded'
  <2>1. Locked' = Locked
    BY <1>1 DEF Locked, Lock
  <2> QED
    BY <1>1, <2>1 DEF FakeInv, Funded
<1> QED
  BY <1>2, <1>3, <1>4, <1>5

LEMMA RecordsKept ==
    ASSUME FakeInv, UNCHANGED <<tasks, markVars, recordVars>>
    PROVE  MarksOK' /\ RecordsOK' /\ JudgedOnce' /\ MarkedOnce'
BY DEF FakeInv, FakeTypeOK, MarksOK, RecordsOK, JudgedOnce, MarkedOnce, markVars, recordVars

LEMMA PeopleKept ==
    ASSUME FakeInv, UNCHANGED peopleVars
    PROVE  PeopleOK'
BY DEF FakeInv, FakeTypeOK, PeopleOK, peopleVars

\* Writing a binding.
LEMMA SetWorkerKeeps ==
    ASSUME PeopleOK, NEW w \in Holders, NEW n \in Humans, NEW seeded \in BOOLEAN,
           setWorker(w, n, seeded), usedAttestations' \subseteq Attestations
    PROVE  PeopleOK'
<1>1. PICK D \in SUBSET Holders, E \in SUBSET Humans :
         workers \in [D -> Person] /\ workerByNullifier \in [E -> Holders]
  BY DEF PeopleOK
<1>2. PICK person \in Person : person = [nullifier |-> n, seeded |-> seeded]
  BY DEF Person
<1>3. workers' = Put(workers, w, person) /\ workerByNullifier' = Put(workerByNullifier, n, w)
  BY <1>2 DEF setWorker
<1>4. workers' \in [D \cup {w} -> Person]
  BY <1>1, <1>3 DEF Put
<1>5. workerByNullifier' \in [E \cup {n} -> Holders]
  BY <1>1, <1>3 DEF Put
<1>6. D \cup {w} \in SUBSET Holders /\ E \cup {n} \in SUBSET Humans
  OBVIOUS
<1> QED
  BY <1>4, <1>5, <1>6 DEF PeopleOK

LEMMA ResetKeeps ==
    ASSUME PeopleOK, NEW n \in Humans, resetWorker(n)
    PROVE  PeopleOK'
<1>1. PICK D \in SUBSET Holders, E \in SUBSET Humans :
         workers \in [D -> Person] /\ workerByNullifier \in [E -> Holders]
  BY DEF PeopleOK
<1>2. PICK w : w = workerByNullifier[n]
  OBVIOUS
<1>3. workers' = Without(workers, w) /\ workerByNullifier' = Without(workerByNullifier, n)
      /\ UNCHANGED usedAttestations
  BY <1>2 DEF resetWorker
<1>4. workers' \in [D \ {w} -> Person] /\ workerByNullifier' \in [E \ {n} -> Holders]
  BY <1>1, <1>3 DEF Without, Restrict
<1>5. D \ {w} \in SUBSET Holders /\ E \ {n} \in SUBSET Humans
  OBVIOUS
<1> QED
  BY <1>3, <1>4, <1>5 DEF PeopleOK

\* A mark is made of a spec the agent was not marked for.
MarkedEvent(a, s) == [name |-> "Marked", agentId |-> a, specHash |-> s]

LEMMA MarkKeeps ==
    ASSUME FakeInv, NEW a \in AgentIds, NEW s \in SpecHashes, mark(a, s)
    PROVE  MarksOK' /\ RecordsOK' /\ JudgedOnce' /\ MarkedOnce'
<1>1. /\ log' = log \cup {MarkedEvent(a, s)} /\ marks' = marks \cup {<<a, s>>}
      /\ lastMarks' = [lastMarks EXCEPT ![a] = clock]
      /\ markCounts' = [markCounts EXCEPT ![a] = markCounts[a] + 1]
      /\ UNCHANGED <<reputation, tasks>>
  BY DEF mark, MarkedEvent, taskVars
<1>2. MarkedEvent(a, s) \in Marks /\ MarkedEvent(a, s).agentId = a
      /\ MarkedEvent(a, s).specHash = s /\ MarkedEvent(a, s).name = "Marked"
  BY DEF MarkedEvent, Marks
<1>3. /\ \A e \in Feedbacks : e.name = "Feedback"
      /\ \A e \in Judgements : e.name = "Outcome"
  BY DEF Feedbacks, Judgements
<1>4. MarksOK'
  <2>1. clock \in Nat
    BY DEF FakeInv, FakeTypeOK, TasksOK
  <2> QED
    BY <1>1, <2>1 DEF FakeInv, FakeTypeOK, MarksOK
<1>5. RecordsOK'
  BY <1>1, <1>2, FS_AddElement DEF FakeInv, FakeTypeOK, RecordsOK
<1>6. log' \cap Feedbacks = log \cap Feedbacks
      /\ log' \cap (Feedbacks \cup Judgements) = log \cap (Feedbacks \cup Judgements)
  BY <1>1, <1>2, <1>3
<1>7. JudgedOnce'
  BY <1>1, <1>6 DEF FakeInv, JudgedOnce
<1>8. MarkedOnce'
  BY <1>1, <1>2 DEF FakeInv, MarkedOnce
<1> QED
  BY <1>4, <1>5, <1>7, <1>8

\* Each call keeps the invariant.
LEMMA RuleCallsKeep ==
    ASSUME FakeInv,
           \/ \E p \in BOOLEAN : setPaused(p)
           \/ \E b \in Allowlistable, allowed \in BOOLEAN : setAllowlistedBuyer(b, allowed)
           \/ \E c \in Cooldowns : setMarkCooldown(c)
           \/ warp
    PROVE  FakeInv'
<1>1. UNCHANGED taskVars /\ UNCHANGED peopleVars /\ UNCHANGED markVars /\ UNCHANGED recordVars
  BY DEF setPaused, setAllowlistedBuyer, setMarkCooldown, warp
<1>2. clock \in 1 .. MaxTime /\ RulesOK
  BY DEF FakeInv, FakeTypeOK, TasksOK
<1>3. clock' \in 1 .. MaxTime
  BY <1>2, FakeAssumption DEF setPaused, setAllowlistedBuyer, setMarkCooldown, warp
<1>4. RulesOK'
  <2>1. ASSUME NEW p \in BOOLEAN, setPaused(p) PROVE RulesOK'
    BY <1>2, <2>1 DEF setPaused, RulesOK
  <2>2. ASSUME NEW b \in Allowlistable, NEW allowed \in BOOLEAN, setAllowlistedBuyer(b, allowed)
        PROVE  RulesOK'
    BY <1>2, <2>2, FakeAssumption DEF setAllowlistedBuyer, RulesOK
  <2>3. ASSUME NEW c \in Cooldowns, setMarkCooldown(c) PROVE RulesOK'
    BY <1>2, <2>3 DEF setMarkCooldown, RulesOK
  <2>4. ASSUME warp PROVE RulesOK'
    BY <1>2, <2>4 DEF warp, RulesOK
  <2> QED
    BY <2>1, <2>2, <2>3, <2>4
<1>5. UNCHANGED tasks
  BY <1>1 DEF taskVars
<1> QED
  BY <1>1, <1>3, <1>4, <1>5, TasksKept, RecordsKept, PeopleKept DEF FakeInv, FakeTypeOK

LEMMA PeopleCallsKeep ==
    ASSUME FakeInv,
           \/ \E a \in Attestations : registerFor(a)
           \/ \E s \in Seedings : seedWorker(s[1], s[2])
           \/ \E n \in Resettable : resetWorker(n)
    PROVE  FakeInv'
<1>1. /\ UNCHANGED taskVars /\ UNCHANGED ruleVars /\ UNCHANGED markVars /\ UNCHANGED recordVars
      /\ UNCHANGED tasks /\ UNCHANGED clock
  BY DEF registerFor, seedWorker, resetWorker, taskVars, ruleVars
<1>2. PeopleOK /\ usedAttestations \subseteq Attestations
  BY DEF FakeInv, FakeTypeOK, PeopleOK
<1>3. PeopleOK'
  <2>1. ASSUME NEW a \in Attestations, registerFor(a) PROVE PeopleOK'
    <3>1. a.worker \in Holders /\ a.nullifier \in Humans
      BY FakeAssumption
    <3>2. setWorker(a.worker, a.nullifier, FALSE) /\ usedAttestations' \subseteq Attestations
      BY <1>2, <2>1 DEF registerFor
    <3> QED
      BY <1>2, <3>1, <3>2, SetWorkerKeeps
  <2>2. ASSUME NEW s \in Seedings, seedWorker(s[1], s[2]) PROVE PeopleOK'
    <3>1. s[1] \in Holders /\ s[2] \in Humans
      BY FakeAssumption
    <3>2. setWorker(s[1], s[2], TRUE) /\ usedAttestations' \subseteq Attestations
      BY <1>2, <2>2 DEF seedWorker
    <3> QED
      BY <1>2, <3>1, <3>2, SetWorkerKeeps
  <2>3. ASSUME NEW n \in Resettable, resetWorker(n) PROVE PeopleOK'
    BY <1>2, <2>3, ResetKeeps, FakeAssumption
  <2> QED
    BY <2>1, <2>2, <2>3
<1>4. RulesOK' /\ clock' \in 1 .. MaxTime
  BY <1>1 DEF FakeInv, FakeTypeOK, RulesOK, TasksOK, ruleVars
<1> QED
  BY <1>1, <1>3, <1>4, TasksKept, RecordsKept DEF FakeInv, FakeTypeOK

LEMMA MarkCallsKeep ==
    ASSUME FakeInv, NEW a \in AgentIds, NEW s \in SpecHashes, mark(a, s)
    PROVE  FakeInv'
<1>1. /\ UNCHANGED taskVars /\ UNCHANGED peopleVars /\ UNCHANGED ruleVars
  BY DEF mark
<1>2. RulesOK' /\ clock' \in 1 .. MaxTime
  BY <1>1 DEF FakeInv, FakeTypeOK, RulesOK, TasksOK, ruleVars
<1> QED
  BY <1>1, <1>2, TasksKept, PeopleKept, MarkKeeps DEF FakeInv, FakeTypeOK

-----------------------------------------------------------------------------
(****************************** The invariant ******************************)

LEMMA FakeInitial == Init => FakeInv
<1> SUFFICES ASSUME Init PROVE FakeInv
  OBVIOUS
<1>1. FakeTypeOK
  BY TypesInitial
<1>2. DOMAIN tasks = {} /\ log = {} /\ \A b \in Posters : openTasks[b] = 0
  BY DEF Init
<1>3. Staged /\ JudgedOnce /\ MarkedOnce
  BY <1>2 DEF Staged, JudgedOnce, MarkedOnce
<1>4. Counted
  <2>1. \A b \in Posters : LiveOf(b) = {}
    BY <1>2 DEF LiveOf
  <2> QED
    BY <1>2, <2>1, FS_EmptySet DEF Counted
<1>5. Funded
  <2>1. Locked = {}
    BY <1>2 DEF Locked
  <2>2. balances[Escrow] = 0
    BY FakeAssumption DEF Init
  <2> QED
    BY <2>1, <2>2, FS_EmptySet DEF Funded
<1> QED
  BY <1>1, <1>3, <1>4, <1>5 DEF FakeInv

LEMMA NextKeeps == FakeInv /\ [Next]_vars => FakeInv'
<1> SUFFICES ASSUME FakeInv, [Next]_vars PROVE FakeInv'
  OBVIOUS
<1>1. ASSUME NEW p \in PostParams, NEW payer \in {Relayer, p.buyer}, postFrom(p, payer)
      PROVE  FakeInv'
  BY <1>1, PostKeeps
<1>2. ASSUME NEW t \in TaskIds, NEW w \in Holders,
             claimBy(t, w) \/ releaseClaimBy(t, w) \/ submitBy(t, w)
      PROVE  FakeInv'
  BY <1>2, ClaimKeeps, ReleaseClaimKeeps, SubmitKeeps
<1>3. ASSUME NEW t \in TaskIds, dispute(t) \/ expire(t)
      PROVE  FakeInv'
  BY <1>3, DisputeKeeps, ExpireKeeps
<1>4. ASSUME NEW t \in TaskIds, approve(t) \/ autoRelease(t)
      PROVE  FakeInv'
  <2>1. stateOf(t) = "Submitted" /\ release(t)
    BY <1>4 DEF approve, approveRefusal, autoRelease, autoReleaseRefusal, Accepted
  <2> QED
    BY <2>1, ReleaseKeeps
<1>5. ASSUME NEW t \in TaskIds, NEW toBuyer \in BOOLEAN, resolve(t, toBuyer)
      PROVE  FakeInv'
  BY <1>5, ResolveKeeps
<1>6. ASSUME NEW a \in AgentIds, NEW s \in SpecHashes, mark(a, s)
      PROVE  FakeInv'
  BY <1>6, MarkCallsKeep
<1>7. CASE \/ \E p \in BOOLEAN : setPaused(p)
           \/ \E b \in Allowlistable, allowed \in BOOLEAN : setAllowlistedBuyer(b, allowed)
           \/ \E c \in Cooldowns : setMarkCooldown(c)
           \/ warp
  BY <1>7, RuleCallsKeep
<1>8. CASE \/ \E a \in Attestations : registerFor(a)
           \/ \E s \in Seedings : seedWorker(s[1], s[2])
           \/ \E n \in Resettable : resetWorker(n)
  BY <1>8, PeopleCallsKeep
<1>9. CASE UNCHANGED vars
  <2>1. UNCHANGED taskVars /\ UNCHANGED peopleVars /\ UNCHANGED ruleVars /\ UNCHANGED markVars
        /\ UNCHANGED recordVars /\ UNCHANGED tasks /\ UNCHANGED clock
    BY <1>9 DEF vars, taskVars, ruleVars
  <2>2. RulesOK' /\ clock' \in 1 .. MaxTime
    BY <2>1 DEF FakeInv, FakeTypeOK, RulesOK, TasksOK, ruleVars
  <2> QED
    BY <2>1, <2>2, TasksKept, PeopleKept, RecordsKept DEF FakeInv, FakeTypeOK
<1>10. ASSUME NEW t \in TaskIds, OnTask(t)
       PROVE  FakeInv'
  BY <1>2, <1>3, <1>4, <1>5, <1>10, Zenon DEF OnTask
<1> QED
  BY <1>1, <1>6, <1>7, <1>8, <1>9, <1>10, Zenon DEF Next

\* Through any sequence of calls the fake's counters and balances are those
\* of its table of tasks, and no task is judged twice.
THEOREM FakeInvariant == Spec => []FakeInv
<1>1. Init => FakeInv
  BY FakeInitial
<1>2. FakeInv /\ [Next]_vars => FakeInv'
  BY NextKeeps
<1> QED
  BY <1>1, <1>2, PTL DEF Spec

-----------------------------------------------------------------------------
(****************************** The refusals *******************************)

\* What the contracts would read.
LEMMA WorkersAreThere ==
    ASSUME FakeInv, NEW w \in Workers
    PROVE  /\ Contract!isWorker(w) <=> w \in DOMAIN workers
           /\ Contract!isSeeded(w) <=> isSeeded(w)
           /\ Contract!nullifierOf(w) = nullifierFor(w)
           /\ recordsMap[w].bound <=> w \in DOMAIN workers
BY DEF Contract!isWorker, Contract!isSeeded, Contract!nullifierOf, recordsMap, NoRecord, isSeeded,
       nullifierFor

LEMMA HumansAreThere ==
    ASSUME FakeInv, NEW n \in Nullifiers
    PROVE  workerOfMap[n] = NoAddress
              <=> n \notin DOMAIN workerByNullifier \/ BoundToNobody(n)
BY DEF workerOfMap, BoundToNobody

\* The deadlines of a task that is there.
LEMMA DeadlinesAre ==
    ASSUME FakeInv, NEW t \in DOMAIN tasks
    PROVE  /\ Contract!ClaimStale(t) <=> ~(clock =< tasks[t].claimedAt + tasks[t].claimTTL)
           /\ Contract!ListingExpired(t) <=> clock > tasks[t].postedAt + tasks[t].claimTTL
           /\ Contract!CanSubmit(t) <=> ~(clock > tasks[t].claimedAt + tasks[t].submitTTL)
           /\ Contract!SubmitExpired(t) <=> clock > tasks[t].claimedAt + tasks[t].submitTTL
           /\ Contract!CanDispute(t)
                 <=> ~(clock >= tasks[t].submittedAt + tasks[t].disputeWindow)
           /\ Contract!DisputeWindowOver(t)
                 <=> ~(clock < tasks[t].submittedAt + tasks[t].disputeWindow)
<1>1. /\ tasks[t] \in TaskRow /\ claimedAtMap[t] = tasks[t].claimedAt
      /\ submittedAtMap[t] = tasks[t].submittedAt /\ termsMap[t] = termsOf(tasks[t])
  BY TaskIsThere DEF FakeInv, FakeTypeOK
<1>2. /\ termsMap[t].claimTTL = tasks[t].claimTTL /\ termsMap[t].postedAt = tasks[t].postedAt
      /\ termsMap[t].submitTTL = tasks[t].submitTTL
      /\ termsMap[t].disputeWindow = tasks[t].disputeWindow
  BY <1>1 DEF termsOf
<1>3. clock \in Int
  BY DEF FakeInv, FakeTypeOK, TasksOK
<1>4. /\ tasks[t].claimedAt \in Int /\ tasks[t].submittedAt \in Int /\ tasks[t].postedAt \in Int
      /\ tasks[t].claimTTL \in Int /\ tasks[t].submitTTL \in Int /\ tasks[t].disputeWindow \in Int
  BY <1>1, RowFields
<1> QED
  BY <1>1, <1>2, <1>3, <1>4 DEF Contract!ClaimStale, Contract!ListingExpired, Contract!CanSubmit,
     Contract!SubmitExpired, Contract!CanDispute, Contract!DisputeWindowOver

LEMMA StateIs ==
    ASSUME FakeInv, NEW t \in TaskIds
    PROVE  /\ stateMap[t] = stateOf(t)
           /\ stateOf(t) # "None" <=> t \in DOMAIN tasks
           /\ t \in DOMAIN tasks => /\ stateOf(t) = tasks[t].state
                                    /\ workerMap[t] = tasks[t].worker
<1>1. \A u \in DOMAIN tasks : tasks[u].state # "None" /\ workerMap[u] = tasks[u].worker
  BY TaskIsThere, RowFields DEF FakeInv, FakeTypeOK, Live, Held, Final
<1> QED
  BY <1>1 DEF stateMap, stateOf

\* A seeded worker is kept from the same tasks, buyer 0's left aside.
LEMMA OutsideAlike ==
    ASSUME FakeInv, NEW t \in DOMAIN tasks, NEW w \in Workers,
           ~isSeeded(w) \/ tasks[t].buyer # NoAddress
    PROVE  Contract!SeededOutside(t, w) <=> isSeeded(w) /\ tasks[t].buyer \notin allowlist
<1>1. Contract!isSeeded(w) <=> isSeeded(w)
  BY WorkersAreThere
<1>2. CASE ~isSeeded(w)
  BY <1>1, <1>2 DEF Contract!SeededOutside
<1>3. CASE tasks[t].buyer # NoAddress
  <2>1. tasks[t] \in TaskRow /\ termsMap[t] = termsOf(tasks[t])
    BY TaskIsThere DEF FakeInv, FakeTypeOK
  <2>2. PICK b \in Buyers : b = tasks[t].buyer /\ b = termsMap[t].buyer
    BY <1>3, <2>1, RowFields DEF termsOf, Posters
  <2>3. allowlistedMap[b] <=> b \in allowlist
    BY DEF allowlistedMap
  <2>4. Contract!SeededOutside(t, w) <=> isSeeded(w) /\ ~allowlistedMap[b]
    BY <1>1, <2>2 DEF Contract!SeededOutside
  <2> QED
    BY <2>2, <2>3, <2>4
<1> QED
  BY <1>2, <1>3

LEMMA ClaimRefusedAlike ==
    ASSUME FakeInv, NEW t \in TaskIds, NEW w \in Workers,
           ~isSeeded(w) \/ (t \in DOMAIN tasks /\ tasks[t].buyer # NoAddress)
    PROVE  claimRefusal(t, w) = Contract!claimRevert(t, w)
<1>1. (Contract!isWorker(w) <=> w \in DOMAIN workers) /\ (Contract!isSeeded(w) <=> isSeeded(w))
  BY WorkersAreThere
<1>2. stateMap[t] = stateOf(t) /\ (stateOf(t) # "None" <=> t \in DOMAIN tasks)
  BY StateIs
<1>3. activeClaimMap[w] = activeClaims[w] /\ cooldownMap[w] = cooldowns[w]
  BY DEF activeClaimMap, cooldownMap
<1>4. CASE t \in DOMAIN tasks
  <2>1. Contract!ClaimStale(t) <=> ~(clock =< tasks[t].claimedAt + tasks[t].claimTTL)
    BY <1>4, DeadlinesAre
  <2>2. Contract!SeededOutside(t, w) <=> isSeeded(w) /\ tasks[t].buyer \notin allowlist
    BY <1>4, OutsideAlike
  <2> QED
    BY <1>1, <1>2, <1>3, <1>4, <2>1, <2>2
       DEF claimRefusal, Contract!claimRevert, Accepted, Contract!Passes, Contract!NoTask
<1>5. CASE t \notin DOMAIN tasks
  <2>1. ~Contract!SeededOutside(t, w) /\ stateMap[t] = "None" /\ ~isSeeded(w)
    BY <1>1, <1>2, <1>5 DEF Contract!SeededOutside
  <2> QED
    BY <1>1, <1>2, <1>3, <1>5, <2>1
       DEF claimRefusal, Contract!claimRevert, Accepted, Contract!Passes, Contract!NoTask
<1> QED
  BY <1>4, <1>5

LEMMA HolderRefusedAlike ==
    ASSUME FakeInv, NEW t \in TaskIds, NEW w \in Workers
    PROVE  /\ releaseClaimRefusal(t, w) = Contract!releaseClaimRevert(t, w)
           /\ submitRefusal(t, w) = Contract!submitRevert(t, w)
<1>1. stateMap[t] = stateOf(t) /\ (stateOf(t) # "None" <=> t \in DOMAIN tasks)
  BY StateIs
<1>2. CASE t \in DOMAIN tasks
  <2>1. workerMap[t] = tasks[t].worker
        /\ (Contract!CanSubmit(t) <=> ~(clock > tasks[t].claimedAt + tasks[t].submitTTL))
    BY <1>2, StateIs, DeadlinesAre
  <2> QED
    BY <1>1, <2>1 DEF releaseClaimRefusal, Contract!releaseClaimRevert, submitRefusal,
       Contract!submitRevert, Accepted, Contract!Passes
<1>3. CASE t \notin DOMAIN tasks
  BY <1>1, <1>3 DEF releaseClaimRefusal, Contract!releaseClaimRevert, submitRefusal,
     Contract!submitRevert
<1> QED
  BY <1>2, <1>3

LEMMA EndingRefusedAlike ==
    ASSUME FakeInv, NEW t \in TaskIds
    PROVE  /\ disputeRefusal(t) = Contract!disputeRevert(t)
           /\ approveRefusal(t) = Contract!approveRevert(t)
           /\ autoReleaseRefusal(t) = Contract!autoReleaseRevert(t)
           /\ resolveRefusal(t) = Contract!resolveRevert(t)
           /\ expireRefusal(t) = Contract!expireRevert(t)
<1>1. stateMap[t] = stateOf(t) /\ (stateOf(t) # "None" <=> t \in DOMAIN tasks)
  BY StateIs
<1>2. CASE t \in DOMAIN tasks
  <2>1. /\ Contract!ListingExpired(t) <=> clock > tasks[t].postedAt + tasks[t].claimTTL
        /\ Contract!SubmitExpired(t) <=> clock > tasks[t].claimedAt + tasks[t].submitTTL
        /\ Contract!CanDispute(t)
                 <=> ~(clock >= tasks[t].submittedAt + tasks[t].disputeWindow)
        /\ Contract!DisputeWindowOver(t)
                 <=> ~(clock < tasks[t].submittedAt + tasks[t].disputeWindow)
    BY <1>2, DeadlinesAre
  <2>2. /\ disputeRefusal(t) = Contract!disputeRevert(t)
        /\ approveRefusal(t) = Contract!approveRevert(t)
        /\ autoReleaseRefusal(t) = Contract!autoReleaseRevert(t)
        /\ resolveRefusal(t) = Contract!resolveRevert(t)
    BY <1>1, <2>1 DEF disputeRefusal, approveRefusal, autoReleaseRefusal, resolveRefusal,
       Contract!disputeRevert, Contract!approveRevert, Contract!autoReleaseRevert,
       Contract!resolveRevert, Accepted, Contract!Passes
  <2>3. expireRefusal(t) = Contract!expireRevert(t)
    BY <1>1, <2>1 DEF expireRefusal, Contract!expireRevert, Accepted, Contract!Passes
  <2> QED
    BY <2>2, <2>3
<1>3. CASE t \notin DOMAIN tasks
  BY <1>1, <1>3 DEF disputeRefusal, approveRefusal, autoReleaseRefusal, resolveRefusal,
     expireRefusal, Contract!disputeRevert, Contract!approveRevert, Contract!autoReleaseRevert,
     Contract!resolveRevert, Contract!expireRevert
<1> QED
  BY <1>2, <1>3

LEMMA PostRefusedAlike ==
    ASSUME FakeInv, NEW p \in PostParams, NEW payer \in Buyers \cup {Relayer},
           NEW goodType \in BOOLEAN, ~PostUnchecked(p)
    PROVE  LET fakes == postRefusal(p, payer, goodType)
               contracts == Contract!postRevert(p, payer, goodType)
           IN  /\ fakes = Accepted <=> contracts = Accepted
               /\ goodType /\ (~isPaused \/ payer \in {p.buyer, Relayer})
                     => fakes = contracts
<1>1. ~\E w \in {p.claimTTL, p.submitTTL, p.disputeWindow} : Contract!windowOutOfRange(w)
  <2>1. MIN_WINDOW \in Nat /\ MAX_WINDOW \in Nat
    BY FakeAssumption
  <2>2. \A w \in Windows(p) : w \in MIN_WINDOW .. MAX_WINDOW
    BY DEF PostUnchecked, InRange
  <2>3. \A w \in Windows(p) : ~Contract!windowOutOfRange(w)
    BY <2>1, <2>2 DEF Contract!windowOutOfRange
  <2> QED
    BY <2>3 DEF Windows
<1>2. feeOn(p.amount) = Contract!feeOn(p.amount)
  BY DEF feeOn, Contract!feeOn
<1>3. Contract!affords(payer, p.amount + feeOn(p.amount))
         <=> ~(balances[payer] < p.amount + feeOn(p.amount))
  <2>1. payer \in Accounts /\ payer \in Anyone
    BY DEF Accounts, Anyone
  <2>2. usdcMap[payer] = balances[payer] /\ balances[payer] \in Int
    BY <2>1 DEF usdcMap, FakeInv, FakeTypeOK, TasksOK
  <2>3. p.amount + feeOn(p.amount) \in Int
    BY PostFields
  <2> QED
    BY <2>2, <2>3 DEF Contract!affords
<1>4. PICK broke \in BOOLEAN : broke <=> balances[payer] < p.amount + feeOn(p.amount)
  OBVIOUS
<1>5. PICK outside \in BOOLEAN :
         outside <=> (p.amount > MAX_TASK_AMOUNT \/ p.amount < MIN_TASK_AMOUNT)
  OBVIOUS
<1>6. PICK full \in BOOLEAN : full <=> openTasks[p.buyer] >= maxOpenTasksPerBuyer
  OBVIOUS
<1>7. PICK stranger \in BOOLEAN : stranger <=> payer \notin {p.buyer, Relayer}
  OBVIOUS
<1>8. postRefusal(p, payer, goodType) =
         IF stranger THEN "NotBuyer"
         ELSE IF isPaused THEN "EnforcedPause"
         ELSE IF outside THEN "AmountOutOfRange"
         ELSE IF full THEN "OverOpenCap"
         ELSE IF ~goodType THEN "BadTaskType"
         ELSE IF broke THEN "ERC20InsufficientBalance" ELSE Accepted
  BY <1>4, <1>5, <1>6, <1>7 DEF postRefusal
<1>9. Contract!postRevert(p, payer, goodType) =
         IF isPaused THEN "EnforcedPause"
         ELSE IF stranger THEN "NotBuyer"
         ELSE IF ~goodType THEN "BadTaskType"
         ELSE IF outside THEN "AmountOutOfRange"
         ELSE IF full THEN "OverOpenCap"
         ELSE IF broke THEN "ERC20InsufficientBalance" ELSE Accepted
  <2>1. Contract!postRevert(p, payer, goodType) =
           IF isPaused THEN "EnforcedPause"
           ELSE IF payer \notin {p.buyer, Relayer} THEN "NotBuyer"
           ELSE IF ~goodType THEN "BadTaskType"
           ELSE IF p.amount < MIN_TASK_AMOUNT \/ p.amount > MAX_TASK_AMOUNT
                THEN "AmountOutOfRange"
           ELSE IF openTasksMap[p.buyer] >= maxOpenTasksPerBuyer THEN "OverOpenCap"
           ELSE IF ~Contract!affords(payer, p.amount + feeOn(p.amount))
                THEN "ERC20InsufficientBalance"
           ELSE Accepted
    BY <1>1, <1>2 DEF Contract!postRevert, Accepted, Contract!Passes, PostUnchecked
  <2>2. /\ (p.amount < MIN_TASK_AMOUNT \/ p.amount > MAX_TASK_AMOUNT) <=> outside
        /\ ~Contract!affords(payer, p.amount + feeOn(p.amount)) <=> broke
    BY <1>3, <1>4, <1>5
  <2>3. openTasksMap[p.buyer] = openTasks[p.buyer]
    <3>1. p.buyer \in Buyers
      BY PostFields DEF PostUnchecked, Posters
    <3> QED
      BY <3>1 DEF openTasksMap
  <2> QED
    BY <1>6, <1>7, <2>1, <2>2, <2>3
<1>10. isPaused \in BOOLEAN
  BY DEF FakeInv, FakeTypeOK, RulesOK
<1> QED
  BY <1>7, <1>8, <1>9, <1>10 DEF Accepted

\* What the fake takes unchecked, the contract does not.
LEMMA UncheckedRefused ==
    ASSUME NEW p \in PostParams, NEW payer \in Buyers \cup {Relayer}, NEW goodType \in BOOLEAN,
           PostUnchecked(p)
    PROVE  Contract!postRevert(p, payer, goodType) # Accepted
<1>1. p.buyer = NoAddress
         \/ \E w \in {p.claimTTL, p.submitTTL, p.disputeWindow} : Contract!windowOutOfRange(w)
  <2>1. MIN_WINDOW \in Nat /\ MAX_WINDOW \in Nat /\ Windows(p) \subseteq Nat
    BY FakeAssumption DEF Windows
  <2>2. \A w \in Windows(p) : w \notin MIN_WINDOW .. MAX_WINDOW => Contract!windowOutOfRange(w)
    BY <2>1 DEF Contract!windowOutOfRange
  <2> QED
    BY <2>2 DEF PostUnchecked, InRange, Windows
<1> QED
  BY <1>1 DEF Contract!postRevert, Accepted

\* A message is spent in the contracts just when these bytes are spent here.
LEMMA SpentAlike ==
    ASSUME FakeInv, NEW a \in Attestations, ~RegisterUnchecked(a)
    PROVE  /\ a.worker \in Workers /\ a.nullifier \in Nullifiers /\ a.deadline \in Nat
           /\ a.signature \in Signed /\ a.signature # "empty"
           /\ Message(a) \in spentMap <=> a \in usedAttestations
<1>1. a.worker \in Workers /\ a.nullifier \in Nullifiers /\ a.deadline \in Nat
  BY FakeAssumption DEF RegisterUnchecked, Genuine, Holders, Humans
<1>2. a.signature \in Signed /\ a.signature # "empty"
  BY DEF RegisterUnchecked, Genuine, Signed
<1>3. a \in usedAttestations => Message(a) \in spentMap
  BY DEF spentMap, RegisterUnchecked
<1>4. Message(a) \in spentMap => a \in usedAttestations
  BY DEF RegisterUnchecked, Respent
<1> QED
  BY <1>1, <1>2, <1>3, <1>4

LEMMA RegistrationRefusedAlike ==
    ASSUME FakeInv, NEW a \in Attestations
    PROVE  LET fakes == registerForRefusal(a)
               contracts == Contract!registerForRevert(Message(a), a.signature \in Signed)
               unbound == /\ a.nullifier \notin DOMAIN workerByNullifier
                          /\ a.worker \notin DOMAIN workers
               fresh == clock =< a.deadline /\ a \notin usedAttestations
               empty == a.signature = "empty" /\ Message(a) \notin spentMap
           IN  /\ RegisterUnchecked(a) => contracts # Accepted
               /\ unbound /\ empty /\ a.worker # NoAddress /\ a.nullifier # NoHuman =>
                     fakes = contracts
               /\ ~RegisterUnchecked(a) /\ ~BoundToNobody(a.nullifier) =>
                     /\ fakes = Accepted <=> contracts = Accepted
                     /\ unbound \/ fresh => fakes = contracts
<1>1. /\ Message(a).worker = a.worker /\ Message(a).nullifier = a.nullifier
      /\ Message(a).deadline = a.deadline
  BY DEF Message
<1>2. PICK late \in BOOLEAN : late <=> clock > a.deadline
  OBVIOUS
<1>3. clock =< a.deadline <=> ~late
  <2>1. a.deadline \in Int /\ clock \in Int
    BY FakeAssumption DEF FakeInv, FakeTypeOK, TasksOK
  <2> QED
    BY <1>2, <2>1
<1>4. PICK spent \in BOOLEAN : spent <=> Message(a) \in spentMap
  OBVIOUS
<1>5. Contract!registerForRevert(Message(a), a.signature \in Signed) =
         IF a.worker = NoAddress THEN "ZeroWorker"
         ELSE IF a.nullifier = NoHuman THEN "ZeroNullifier"
         ELSE IF late THEN "AttestationExpired"
         ELSE IF spent THEN "AttestationUsed"
         ELSE IF ~(a.signature \in Signed) THEN "BadAttestation"
         ELSE IF workerOfMap[a.nullifier] # NoAddress THEN "DuplicateNullifier"
         ELSE IF recordsMap[a.worker].bound THEN "WorkerAlreadyBound"
         ELSE Accepted
  BY <1>1, <1>2, <1>4 DEF Contract!registerForRevert, Accepted, Contract!Passes
<1>6. registerForRefusal(a) =
         IF a.nullifier \in DOMAIN workerByNullifier THEN "DuplicateNullifier"
         ELSE IF a.worker \in DOMAIN workers THEN "WorkerAlreadyBound"
         ELSE IF late THEN "AttestationExpired"
         ELSE IF a.signature = "empty" THEN "BadAttestation"
         ELSE IF a \in usedAttestations THEN "AttestationUsed"
         ELSE Accepted
  BY <1>2 DEF registerForRefusal
<1>7. RegisterUnchecked(a)
         => Contract!registerForRevert(Message(a), a.signature \in Signed) # Accepted
  BY <1>4, <1>5 DEF RegisterUnchecked, Genuine, Respent, Accepted
<1>8. a.worker # NoAddress => /\ a.worker \in Workers
                              /\ recordsMap[a.worker].bound <=> a.worker \in DOMAIN workers
  BY WorkersAreThere, FakeAssumption DEF Holders
<1>9. a.nullifier # NoHuman =>
         workerOfMap[a.nullifier] = NoAddress
            <=> a.nullifier \notin DOMAIN workerByNullifier \/ BoundToNobody(a.nullifier)
  BY HumansAreThere, FakeAssumption DEF Humans
<1>10. ASSUME a.nullifier \notin DOMAIN workerByNullifier, a.worker \notin DOMAIN workers,
              a.signature = "empty", Message(a) \notin spentMap,
              a.worker # NoAddress, a.nullifier # NoHuman
       PROVE  registerForRefusal(a)
                 = Contract!registerForRevert(Message(a), a.signature \in Signed)
  BY <1>4, <1>5, <1>6, <1>8, <1>9, <1>10 DEF Signed
<1>11. ASSUME ~RegisterUnchecked(a), ~BoundToNobody(a.nullifier)
       PROVE  LET fakes == registerForRefusal(a)
                  contracts == Contract!registerForRevert(Message(a), a.signature \in Signed)
                  unbound == /\ a.nullifier \notin DOMAIN workerByNullifier
                             /\ a.worker \notin DOMAIN workers
                  fresh == clock =< a.deadline /\ a \notin usedAttestations
              IN  /\ fakes = Accepted <=> contracts = Accepted
                  /\ unbound \/ fresh => fakes = contracts
  <2>1. /\ a.signature \in Signed /\ a.signature # "empty"
        /\ spent <=> a \in usedAttestations
        /\ a.worker # NoAddress /\ a.nullifier # NoHuman
    BY <1>4, <1>11, SpentAlike, FakeAssumption DEF Accounts
  <2> QED
    BY <1>3, <1>5, <1>6, <1>8, <1>9, <1>11, <2>1 DEF Accepted
<1> QED
  BY <1>7, <1>10, <1>11

LEMMA RegistryRefusedAlike ==
    ASSUME FakeInv
    PROVE  /\ \A n \in Nullifiers :
                 ~BoundToNobody(n) => resetWorkerRefusal(n) = Contract!resetWorkerRevert(n)
           /\ \A s \in Seedings :
                 BoundToNobody(s[2])
                    \/ (SeedUnchecked(s[1], s[2])
                           <=> Contract!seedWorkerRevert(s[1], s[2]) # Accepted)
<1>1. ASSUME NEW n \in Nullifiers, ~BoundToNobody(n)
      PROVE  resetWorkerRefusal(n) = Contract!resetWorkerRevert(n)
  BY <1>1, HumansAreThere DEF resetWorkerRefusal, Contract!resetWorkerRevert, Accepted,
     Contract!Passes
<1>2. ASSUME NEW s \in Seedings, ~BoundToNobody(s[2])
      PROVE  SeedUnchecked(s[1], s[2]) <=> Contract!seedWorkerRevert(s[1], s[2]) # Accepted
  <2>1. PICK w \in Holders, n \in Humans : w = s[1] /\ n = s[2]
    BY FakeAssumption
  <2>2. CASE w = NoAddress \/ n = NoHuman
    BY <2>1, <2>2 DEF SeedUnchecked, Contract!seedWorkerRevert, Accepted
  <2>3. CASE w # NoAddress /\ n # NoHuman
    <3>1. w \in Workers /\ n \in Nullifiers
      BY <2>3 DEF Holders, Humans
    <3>2. /\ recordsMap[w].bound <=> w \in DOMAIN workers
          /\ workerOfMap[n] = NoAddress <=> n \notin DOMAIN workerByNullifier
      BY <1>2, <2>1, <3>1, WorkersAreThere, HumansAreThere
    <3> QED
      BY <2>1, <2>3, <3>2 DEF SeedUnchecked, Contract!seedWorkerRevert, Accepted,
         Contract!Passes
  <2> QED
    BY <2>2, <2>3
<1> QED
  BY <1>1, <1>2

LEMMA MarkRefusedAlike ==
    ASSUME NEW a \in AgentIds, NEW s \in SpecHashes
    PROVE  markRefusal(a, s) = Contract!markRevert(a, s)
BY DEF markRefusal, Contract!markRevert, Contract!AlreadyMarked, Contract!CoolingDown, Accepted,
       Contract!Passes

\* "A fake that reports BadState where the contract reports InCooldown
\* teaches a route the wrong 409" (fake.ts:75): in every state any sequence
\* of calls leaves, whatever the accounts, the tasks, their windows and the
\* signatures, the fake refuses what the contracts refuse, and by the same
\* name: but for what it takes unchecked (0 for a worker, a nullifier or a
\* buyer, a window out of range, a seed over a binding, an attestation the
\* verifier did not sign or one spent under other bytes), which the contracts
\* refuse, and but for the order of two checks in four places.
THEOREM NamesAreTheContracts == Spec => []RefusesByTheSameName
<1>1. FakeInv => RefusesByTheSameName
  <2> SUFFICES ASSUME FakeInv PROVE RefusesByTheSameName
    OBVIOUS
  <2>1. \A t \in TaskIds, w \in Workers :
           /\ ~isSeeded(w) \/ (t \in DOMAIN tasks /\ tasks[t].buyer # NoAddress)
                 => claimRefusal(t, w) = Contract!claimRevert(t, w)
           /\ releaseClaimRefusal(t, w) = Contract!releaseClaimRevert(t, w)
           /\ submitRefusal(t, w) = Contract!submitRevert(t, w)
    BY ClaimRefusedAlike, HolderRefusedAlike
  <2>2. \A t \in TaskIds :
           /\ disputeRefusal(t) = Contract!disputeRevert(t)
           /\ approveRefusal(t) = Contract!approveRevert(t)
           /\ autoReleaseRefusal(t) = Contract!autoReleaseRevert(t)
           /\ resolveRefusal(t) = Contract!resolveRevert(t)
           /\ expireRefusal(t) = Contract!expireRevert(t)
    BY EndingRefusedAlike
  <2>3. \A p \in PostParams, payer \in Buyers \cup {Relayer}, goodType \in BOOLEAN :
           LET fakes == postRefusal(p, payer, goodType)
               contracts == Contract!postRevert(p, payer, goodType)
           IN  IF PostUnchecked(p) THEN contracts # Accepted
               ELSE /\ fakes = Accepted <=> contracts = Accepted
                    /\ goodType /\ (~isPaused \/ payer \in {p.buyer, Relayer})
                          => fakes = contracts
    BY PostRefusedAlike, UncheckedRefused
  <2>4. \A a \in AgentIds, s \in SpecHashes : markRefusal(a, s) = Contract!markRevert(a, s)
    BY MarkRefusedAlike
  <2> QED
    BY <2>1, <2>2, <2>3, <2>4, RegistryRefusedAlike, RegistrationRefusedAlike
       DEF RefusesByTheSameName
<1> QED
  BY <1>1, FakeInvariant, PTL

-----------------------------------------------------------------------------
(************************ The steps of the contracts ***********************)

LEMMA StartsAsTheContracts == Init => Contract!Init
<1> SUFFICES ASSUME Init PROVE Contract!Init
  OBVIOUS
<1>1. /\ DOMAIN tasks = {} /\ DOMAIN workers = {} /\ DOMAIN workerByNullifier = {}
      /\ log = {} /\ allowlist = {} /\ DOMAIN reputation = Humans
  BY DEF Init
<1>2. Contract!ClockInit
  BY DEF Init, Contract!ClockInit
<1>3. Contract!RegistryInit
  <2>1. spentMap = {}
    BY DEF Init, spentMap
  <2> QED
    BY <1>1, <2>1 DEF Contract!RegistryInit, recordsMap, workerOfMap, NoRecord,
       Contract!NoRecord
<1>4. Contract!ReputationInit
  <2>1. \A n \in DOMAIN reputation :
           /\ reputation[n].score = 0 /\ reputation[n].completed = 0
           /\ reputation[n].distinctRaters = 0 /\ DOMAIN reputation[n].slots = {}
    BY DEF Init
  <2> QED
    BY <1>1, <2>1 DEF Contract!ReputationInit, scoreMap, completedMap, ratersMap, slotMap,
       NoOutcome, Contract!NoOutcome, Humans
<1>5. Contract!AbuseMarkInit
  <2>1. \A a \in AgentIds : Marked(a) = {} /\ \A codes : Judged(a, codes) = {}
    BY <1>1 DEF Marked, Judged
  <2>2. entriesMap = [a \in AgentIds |-> 0] /\ standingMap = [a \in AgentIds |-> 0]
    BY <2>1, FS_EmptySet DEF entriesMap, standingMap
  <2> QED
    BY <2>2 DEF Init, Contract!AbuseMarkInit
<1>6. verdictMap = [t \in TaskIds |-> NoOutcome]
  <2>1. \A t \in TaskIds : Verdicts(t) = {}
    BY <1>1 DEF Verdicts
  <2> QED
    BY <2>1 DEF verdictMap
<1>7. /\ stateMap = [t \in TaskIds |-> "None"] /\ workerMap = [t \in TaskIds |-> NoAddress]
      /\ claimedAtMap = [t \in TaskIds |-> 0] /\ submittedAtMap = [t \in TaskIds |-> 0]
      /\ termsMap = [t \in TaskIds |-> NoTerms]
  BY <1>1 DEF stateMap, stateOf, workerMap, claimedAtMap, submittedAtMap, termsMap
<1>8. allowlistedMap = [b \in Buyers |-> FALSE]
  <2>1. \A b \in Buyers : (b \in {}) = FALSE
    BY SMT
  <2>2. \A b \in Buyers : (b \in allowlist) = FALSE
    BY <1>1, <2>1, Zenon
  <2> QED
    BY <2>2, Zenon DEF allowlistedMap
<1>9. /\ openTasksMap = [b \in Buyers |-> 0] /\ activeClaimMap = [w \in Workers |-> 0]
      /\ cooldownMap = [w \in Workers |-> 0] /\ usdcMap = endowmentMap
  BY DEF Init, openTasksMap, activeClaimMap, cooldownMap, usdcMap, endowmentMap, Posters, Holders
<1> QED
  BY <1>2, <1>3, <1>4, <1>5, <1>6, <1>7, <1>8, <1>9 DEF Init, Contract!Init, TaskIds, Contract!TaskIds,
     NoTerms, Contract!NoTerms, NoOutcome, Contract!NoOutcome, Contract!NoTask

\* What a step on one task leaves alone, as the contracts read it.
LEMMA RestStays ==
    ASSUME UNCHANGED peopleVars, UNCHANGED ruleVars
    PROVE  /\ UNCHANGED Contract!registryVars
           /\ UNCHANGED clock /\ UNCHANGED allowlistedMap /\ UNCHANGED isPaused
           /\ UNCHANGED cooldownSeconds
BY PeopleStay, RulesStay DEF Contract!registryVars

LEMMA RecordVarsStay ==
    ASSUME UNCHANGED recordVars, UNCHANGED markVars, UNCHANGED ruleVars
    PROVE  /\ UNCHANGED Contract!reputationVars /\ UNCHANGED Contract!abuseMarkVars
           /\ UNCHANGED verdictMap
BY RecordsStay, RulesStay DEF Contract!reputationVars, Contract!abuseMarkVars, markVars

\* A map read at some of its keys moves as the whole does.
LEMMA ReadAtKeys ==
    ASSUME NEW S, NEW m, S \subseteq DOMAIN m, NEW k, NEW v
    PROVE  [x \in S |-> [m EXCEPT ![k] = v][x]] = [[x \in S |-> m[x]] EXCEPT ![k] = v]
OBVIOUS

LEMMA CountersStay ==
    /\ UNCHANGED openTasks => UNCHANGED openTasksMap
    /\ UNCHANGED activeClaims => UNCHANGED activeClaimMap
    /\ UNCHANGED cooldowns => UNCHANGED cooldownMap
    /\ UNCHANGED balances => UNCHANGED usdcMap
BY DEF openTasksMap, activeClaimMap, cooldownMap, usdcMap

\* The slot of 0 is in no mapping of the contracts.
LEMMA SlotCleared ==
    ASSUME FakeInv, NEW w \in Holders, NEW slots, slots = clearClaim(w)
    PROVE  /\ [x \in Workers |-> slots[x]] = Contract!SlotFreed(w)
           /\ DOMAIN slots = Holders
<1>1. DOMAIN activeClaims = Holders /\ NoAddress \notin Workers
  BY FakeAssumption DEF Accounts, FakeInv, FakeTypeOK, TasksOK
<1>2. [x \in Workers |-> slots[x]] = [activeClaimMap EXCEPT ![w] = 0]
  BY <1>1, ReadAtKeys DEF clearClaim, activeClaimMap, Holders
<1>3. [activeClaimMap EXCEPT ![NoAddress] = 0] = activeClaimMap
  BY <1>1 DEF activeClaimMap
<1> QED
  BY <1>1, <1>2, <1>3 DEF clearClaim, Contract!SlotFreed, Contract!NoTask

\* A task the contracts can have is a buyer's, and a worker's once it is held.
LEMMA Somebodys ==
    ASSUME FakeInv, NEW t \in DOMAIN tasks, ~OfNobody(t)
    PROVE  /\ tasks[t].buyer \in Buyers /\ tasks[t].buyer \in Accounts \ {Escrow}
           /\ tasks[t].state # "Open" => /\ tasks[t].worker \in Workers
                                          /\ tasks[t].worker \in Accounts \ {Escrow}
           /\ tasks[t].state = "Open" => tasks[t].worker = NoAddress
           /\ Treasury \in Accounts \ {Escrow}
<1>1. tasks[t].buyer \in Posters /\ tasks[t].worker \in Holders
  BY TaskIsThere, RowFields DEF FakeInv, FakeTypeOK
<1>2. tasks[t].buyer \in Buyers /\ (tasks[t].state # "Open" => tasks[t].worker \in Workers)
  BY <1>1 DEF OfNobody, Posters, Holders
<1> QED
  BY <1>2, FakeAssumption DEF Accounts, FakeInv, Staged

\* What the contracts ask of a claimant.
LEMMA ClaimantMay ==
    ASSUME FakeInv, NEW t \in TaskIds, NEW w \in Workers, claimRefusal(t, w) = Accepted,
           ~OfNobody(t)
    PROVE  Contract!MayClaim(t, w) /\ ~isPaused
<1>1. /\ ~isPaused /\ w \in DOMAIN workers /\ activeClaims[w] = 0
      /\ ~(clock < cooldowns[w]) /\ t \in DOMAIN tasks
      /\ isSeeded(w) => tasks[t].buyer \in allowlist
  BY ClaimGuards DEF Holders
<1>2. cooldowns[w] \in Nat /\ clock >= cooldowns[w]
  BY <1>1 DEF FakeInv, FakeTypeOK, TasksOK, Holders
<1>3. activeClaimMap[w] = activeClaims[w] /\ cooldownMap[w] = cooldowns[w]
  BY DEF activeClaimMap, cooldownMap
<1>4. tasks[t].buyer # NoAddress
  BY <1>1 DEF OfNobody
<1>5. ~Contract!SeededOutside(t, w)
  BY <1>1, <1>4, OutsideAlike
<1> QED
  BY <1>1, <1>2, <1>3, <1>5, WorkersAreThere DEF Contract!MayClaim, Contract!NoTask

LEMMA ClaimsAsTheContracts ==
    ASSUME FakeInv, NEW t \in TaskIds, NEW w \in Workers, claimBy(t, w), ~OfNobody(t)
    PROVE  Contract!claimOpen(t, w) \/ Contract!claimStale(t, w)
<1>1. /\ t \in DOMAIN tasks /\ tasks[t].state \in {"Open", "Claimed"}
      /\ tasks[t].state = "Claimed" => ~(clock =< tasks[t].claimedAt + tasks[t].claimTTL)
      /\ claimRefusal(t, w) = Accepted /\ w \in Holders
  BY ClaimGuards DEF claimBy, Holders
<1>2. /\ stateMap' = [stateMap EXCEPT ![t] = "Claimed"]
      /\ workerMap' = [workerMap EXCEPT ![t] = w]
      /\ claimedAtMap' = [claimedAtMap EXCEPT ![t] = clock]
      /\ submittedAtMap' = submittedAtMap /\ termsMap' = termsMap
  BY <1>1, ClaimKeeps, MapsMove, Stays DEF FakeInv, FakeTypeOK
<1>3. /\ UNCHANGED taskCounter /\ UNCHANGED openTasksMap /\ UNCHANGED usdcMap
      /\ UNCHANGED peopleVars /\ UNCHANGED ruleVars /\ UNCHANGED markVars
      /\ UNCHANGED recordVars
  BY CountersStay DEF claimBy
<1>4. Contract!TakeTask(t, w)
  BY <1>2, <1>3, RestStays, RecordVarsStay DEF Contract!TakeTask
<1>5. clock =< MaxTime
  BY FakeAssumption DEF FakeInv, FakeTypeOK, TasksOK
<1>6. stateMap[t] = tasks[t].state /\ workerMap[t] = tasks[t].worker
  BY <1>1, TaskIsThere DEF FakeInv, FakeTypeOK
<1>7. Contract!MayClaim(t, w) /\ ~isPaused
  BY <1>1, ClaimantMay
<1>8. stateOf(t) = tasks[t].state
  BY <1>1 DEF stateOf
<1>9. /\ Workers \subseteq DOMAIN activeClaims /\ Workers \subseteq DOMAIN cooldowns
  BY DEF FakeInv, FakeTypeOK, TasksOK, Holders
<1>10. CASE tasks[t].state = "Open"
  <2>1. activeClaims' = [activeClaims EXCEPT ![w] = t] /\ UNCHANGED cooldowns
    BY <1>8, <1>10 DEF claimBy
  <2>2. activeClaimMap' = [activeClaimMap EXCEPT ![w] = t] /\ UNCHANGED cooldownMap
    BY <1>9, <2>1, ReadAtKeys, CountersStay DEF activeClaimMap
  <2> QED
    BY <1>4, <1>5, <1>6, <1>7, <1>10, <2>2 DEF Contract!claimOpen
<1>11. CASE tasks[t].state = "Claimed"
  <2>1. PICK stale \in Workers : stale = tasks[t].worker
    BY <1>1, <1>11, Somebodys
  <2>2. PICK freed : freed = clearClaim(stale)
    OBVIOUS
  <2>3. /\ activeClaims' = [freed EXCEPT ![w] = t]
        /\ cooldowns' = [cooldowns EXCEPT ![stale] = clock + CLAIM_COOLDOWN]
    BY <1>8, <1>11, <2>1, <2>2 DEF claimBy
  <2>4. [x \in Workers |-> freed[x]] = Contract!SlotFreed(stale) /\ DOMAIN freed = Holders
    BY <2>2, SlotCleared DEF Holders
  <2>5. activeClaimMap' = [Contract!SlotFreed(stale) EXCEPT ![w] = t]
    BY <2>3, <2>4, ReadAtKeys DEF activeClaimMap, Holders
  <2>6. cooldownMap' = [cooldownMap EXCEPT ![stale] = clock + CLAIM_COOLDOWN]
    BY <1>9, <2>3, ReadAtKeys DEF cooldownMap
  <2>7. Contract!ClaimStale(t)
    BY <1>1, <1>11, DeadlinesAre
  <2> QED
    BY <1>4, <1>5, <1>6, <1>7, <1>11, <2>1, <2>5, <2>6, <2>7 DEF Contract!claimStale
<1> QED
  BY <1>1, <1>10, <1>11

LEMMA HandsBackAsTheContracts ==
    ASSUME FakeInv, NEW t \in TaskIds, NEW w \in Workers, releaseClaimBy(t, w)
    PROVE  Contract!releaseClaim(t, w)
<1>1. /\ t \in DOMAIN tasks /\ tasks[t].state = "Claimed" /\ tasks[t].worker = w
      /\ w \in Holders
  BY ReleaseClaimKeeps DEF Holders
<1>2. /\ stateMap' = [stateMap EXCEPT ![t] = "Open"]
      /\ workerMap' = [workerMap EXCEPT ![t] = NoAddress]
      /\ claimedAtMap' = [claimedAtMap EXCEPT ![t] = 0]
      /\ submittedAtMap' = submittedAtMap /\ termsMap' = termsMap
  BY <1>1, ReleaseClaimKeeps, MapsMove, Stays DEF FakeInv, FakeTypeOK
<1>3. /\ UNCHANGED taskCounter /\ UNCHANGED openTasksMap /\ UNCHANGED usdcMap
      /\ UNCHANGED cooldownMap /\ UNCHANGED peopleVars /\ UNCHANGED ruleVars
      /\ UNCHANGED markVars /\ UNCHANGED recordVars
  BY CountersStay DEF releaseClaimBy
<1>4. stateMap[t] = "Claimed" /\ workerMap[t] = w
  BY <1>1, TaskIsThere DEF FakeInv, FakeTypeOK
<1>5. activeClaimMap' = Contract!SlotFreed(w)
  <2>1. PICK freed : freed = clearClaim(w) /\ activeClaims' = freed
    BY DEF releaseClaimBy
  <2> QED
    BY <1>1, <2>1, SlotCleared DEF activeClaimMap
<1> QED
  BY <1>2, <1>3, <1>4, <1>5, RestStays, RecordVarsStay DEF Contract!releaseClaim

LEMMA SubmitsAsTheContracts ==
    ASSUME FakeInv, NEW t \in TaskIds, NEW w \in Workers, submitBy(t, w)
    PROVE  Contract!submit(t, w)
<1>1. /\ t \in DOMAIN tasks /\ tasks[t].state = "Claimed" /\ tasks[t].worker = w
      /\ ~(clock > tasks[t].claimedAt + tasks[t].submitTTL) /\ w \in Holders
  BY SubmitKeeps DEF Holders
<1>2. /\ stateMap' = [stateMap EXCEPT ![t] = "Submitted"]
      /\ workerMap' = workerMap /\ claimedAtMap' = claimedAtMap
      /\ submittedAtMap' = [submittedAtMap EXCEPT ![t] = clock] /\ termsMap' = termsMap
  BY <1>1, SubmitKeeps, MapsMove, Stays DEF FakeInv, FakeTypeOK
<1>3. /\ UNCHANGED taskCounter /\ UNCHANGED openTasksMap /\ UNCHANGED usdcMap
      /\ UNCHANGED activeClaimMap /\ UNCHANGED cooldownMap /\ UNCHANGED peopleVars
      /\ UNCHANGED ruleVars /\ UNCHANGED markVars /\ UNCHANGED recordVars
  BY CountersStay DEF submitBy
<1>4. stateMap[t] = "Claimed" /\ workerMap[t] = w
  BY <1>1, TaskIsThere DEF FakeInv, FakeTypeOK
<1>5. Contract!CanSubmit(t)
  BY <1>1, DeadlinesAre
<1> QED
  BY <1>2, <1>3, <1>4, <1>5, RestStays, RecordVarsStay DEF Contract!submit

LEMMA DisputesAsTheContracts ==
    ASSUME FakeInv, NEW t \in TaskIds, dispute(t)
    PROVE  Contract!dispute(t)
<1>1. /\ t \in DOMAIN tasks /\ tasks[t].state = "Submitted"
      /\ ~(clock >= tasks[t].submittedAt + tasks[t].disputeWindow)
  BY DisputeKeeps
<1>2. /\ stateMap' = [stateMap EXCEPT ![t] = "Disputed"]
      /\ workerMap' = workerMap /\ claimedAtMap' = claimedAtMap
      /\ submittedAtMap' = submittedAtMap /\ termsMap' = termsMap
  BY DisputeKeeps, MapsMove, Stays DEF FakeInv, FakeTypeOK
<1>3. /\ UNCHANGED taskCounter /\ UNCHANGED openTasksMap /\ UNCHANGED usdcMap
      /\ UNCHANGED activeClaimMap /\ UNCHANGED cooldownMap /\ UNCHANGED peopleVars
      /\ UNCHANGED ruleVars /\ UNCHANGED markVars /\ UNCHANGED recordVars
  BY CountersStay DEF dispute
<1>4. stateMap[t] = "Submitted"
  BY <1>1, TaskIsThere DEF FakeInv, FakeTypeOK
<1>5. Contract!CanDispute(t)
  BY <1>1, DeadlinesAre
<1> QED
  BY <1>2, <1>3, <1>4, <1>5, RestStays, RecordVarsStay DEF Contract!dispute

\* A debit of what a task locked and two credits are two transfers.
LEMMA TwoTransfers ==
    ASSUME NEW b \in [Accounts -> Int], NEW x \in Accounts \ {Escrow},
           NEW y \in Accounts \ {Escrow}, NEW m \in Int, NEW n \in Int, NEW r,
           r = credit(credit(debit(b, Escrow, m + n), x, m), y, n)
    PROVE  r = Contract!transfer(Contract!transfer(b, Escrow, x, m), Escrow, y, n)
<1>1. PICK d : d = [b EXCEPT ![Escrow] = b[Escrow] - (m + n)]
  OBVIOUS
<1>2. PICK e : e = [d EXCEPT ![x] = d[x] + m]
  OBVIOUS
<1>3. r = [e EXCEPT ![y] = e[y] + n]
  BY <1>1, <1>2 DEF credit, debit
<1>4. PICK f : f = [[b EXCEPT ![Escrow] = b[Escrow] - m] EXCEPT ![x] = b[x] + m]
  OBVIOUS
<1>5. PICK g : g = [[f EXCEPT ![Escrow] = f[Escrow] - n] EXCEPT ![y] = f[y] + n]
  OBVIOUS
<1>6. f = Contract!transfer(b, Escrow, x, m)
  BY <1>4 DEF Contract!transfer, Accounts
<1>7. g = Contract!transfer(f, Escrow, y, n)
  <2>1. f \in [Accounts -> Int]
    BY <1>4
  <2> QED
    BY <1>5, <2>1 DEF Contract!transfer, Accounts
<1>8. r = g
  <2>1. r \in [Accounts -> Int] /\ g \in [Accounts -> Int]
    BY <1>1, <1>2, <1>3, <1>4, <1>5
  <2>2. \A z \in Accounts : r[z] = g[z]
    BY <1>1, <1>2, <1>3, <1>4, <1>5
  <2> QED
    BY <2>1, <2>2
<1> QED
  BY <1>6, <1>7, <1>8

\* What the contracts' accounts hold moves as what all accounts hold.
Purse(b) == [x \in Accounts |-> b[x]]

LEMMA PurseMoves ==
    ASSUME NEW b \in [Anyone -> Int], NEW x \in Accounts, NEW k \in Int
    PROVE  /\ credit(b, x, k) \in [Anyone -> Int] /\ debit(b, x, k) \in [Anyone -> Int]
           /\ Purse(credit(b, x, k)) = credit(Purse(b), x, k)
           /\ Purse(debit(b, x, k)) = debit(Purse(b), x, k)
<1>1. /\ Accounts \subseteq DOMAIN b /\ Purse(b)[x] = b[x]
      /\ b[x] + k \in Int /\ b[x] - k \in Int
  BY DEF Purse, Anyone
<1>2. credit(b, x, k) \in [Anyone -> Int] /\ debit(b, x, k) \in [Anyone -> Int]
  BY <1>1 DEF credit, debit
<1>3. Purse(credit(b, x, k)) = credit(Purse(b), x, k)
  BY <1>1, ReadAtKeys DEF Purse, credit
<1>4. Purse(debit(b, x, k)) = debit(Purse(b), x, k)
  BY <1>1, ReadAtKeys DEF Purse, debit
<1> QED
  BY <1>2, <1>3, <1>4

\* A settlement frees, pays and closes as the contracts do.
LEMMA SettlesAsTheContracts ==
    ASSUME FakeInv, NEW t \in DOMAIN tasks, tasks[t].state \in Live, NEW final \in Final,
           NEW x \in Accounts \ {Escrow}, NEW y \in Accounts \ {Escrow},
           Settle(t, final, x, y), ~OfNobody(t)
    PROVE  Contract!Close(t, final) /\ Contract!PayOut(t, x, y)
<1>1. /\ tasks[t] \in TaskRow /\ termsMap[t] = termsOf(tasks[t])
      /\ workerMap[t] = tasks[t].worker /\ tasks[t].worker \in Holders
  BY TaskIsThere, RowFields DEF FakeInv, FakeTypeOK
<1>2. PICK m \in Int, n \in Int : m = tasks[t].amount /\ n = tasks[t].fee
  BY <1>1, RowFields
<1>3. PICK q \in Buyers : q = tasks[t].buyer
  BY Somebodys
<1>4. /\ termsMap[t].buyer = q /\ termsMap[t].amount = m /\ termsMap[t].fee = n
  BY <1>1, <1>2, <1>3 DEF termsOf
<1>5. /\ Rewrites(t, final, tasks[t].worker, tasks[t].claimedAt, tasks[t].submittedAt)
      /\ openTasks[q] > 0 /\ balances[Escrow] >= Lock(t)
      /\ openTasks' = [openTasks EXCEPT ![q] = openTasks[q] - 1]
  BY <1>3, SettleKeeps DEF Anyone
<1>6. /\ stateMap' = [stateMap EXCEPT ![t] = final]
      /\ workerMap' = workerMap /\ claimedAtMap' = claimedAtMap
      /\ submittedAtMap' = submittedAtMap /\ termsMap' = termsMap
  BY <1>5, MapsMove, Stays DEF FakeInv, FakeTypeOK
<1>7. /\ UNCHANGED taskCounter /\ UNCHANGED cooldownMap /\ UNCHANGED peopleVars
      /\ UNCHANGED ruleVars
  BY CountersStay DEF Settle
<1>8. activeClaimMap' = Contract!SlotFreed(tasks[t].worker)
  <2>1. PICK w \in Holders : w = tasks[t].worker
    BY <1>1
  <2>2. PICK freed : freed = clearClaim(w) /\ activeClaims' = freed
    BY <2>1 DEF Settle
  <2> QED
    BY <2>1, <2>2, SlotCleared DEF activeClaimMap
<1>9. openTasksMap[q] = openTasks[q]
      /\ openTasksMap' = [openTasksMap EXCEPT ![q] = openTasksMap[q] - 1]
  <2>1. Buyers \subseteq DOMAIN openTasks
    BY DEF FakeInv, FakeTypeOK, TasksOK, Posters
  <2> QED
    BY <1>5, <2>1, ReadAtKeys DEF openTasksMap
<1>10. Contract!Close(t, final)
  BY <1>1, <1>4, <1>5, <1>6, <1>7, <1>8, <1>9, RestStays DEF Contract!Close, Contract!PlaceFreed
<1>11. PICK b \in [Anyone -> Int] : b = balances
  BY DEF FakeInv, FakeTypeOK, TasksOK
<1>12. usdcMap = Purse(b) /\ Purse(b) \in [Accounts -> Int] /\ Escrow \in Accounts
  BY <1>11 DEF usdcMap, Purse, Anyone, Accounts
<1>13. Contract!affords(Escrow, Contract!Total(t))
  BY <1>2, <1>4, <1>5, <1>11, <1>12 DEF Contract!affords, Contract!Total, Lock, Purse
<1>14. usdcMap' = Contract!transfer(Contract!transfer(usdcMap, Escrow, x, m), Escrow, y, n)
  <2>1. PICK d, e, r : d = debit(b, Escrow, m + n) /\ e = credit(d, x, m) /\ r = credit(e, y, n)
    OBVIOUS
  <2>2. balances' = r
    BY <1>2, <1>11, <2>1 DEF Settle
  <2>3. d \in [Anyone -> Int] /\ Purse(d) = debit(Purse(b), Escrow, m + n)
    BY <1>12, <2>1, PurseMoves
  <2>4. e \in [Anyone -> Int] /\ Purse(e) = credit(Purse(d), x, m)
    BY <2>1, <2>3, PurseMoves
  <2>5. Purse(r) = credit(Purse(e), y, n)
    BY <2>1, <2>4, PurseMoves
  <2>6. Purse(r) = credit(credit(debit(Purse(b), Escrow, m + n), x, m), y, n)
    BY <2>3, <2>4, <2>5
  <2>7. Purse(r) = Contract!transfer(Contract!transfer(Purse(b), Escrow, x, m), Escrow, y, n)
    BY <1>12, <2>6, TwoTransfers
  <2>8. usdcMap' = Purse(r)
    BY <2>2 DEF usdcMap, Purse
  <2> QED
    BY <1>12, <2>7, <2>8
<1>15. Contract!PayOut(t, x, y)
  BY <1>4, <1>13, <1>14 DEF Contract!PayOut
<1> QED
  BY <1>10, <1>15

\* The worker's record.
LEMMA RecordsAsTheContracts ==
    ASSUME FakeInv, NEW n \in Humans, NEW key \in Raters, NEW o \in OutcomeCodes,
           reputation' = [reputation EXCEPT ![n] = recorded(reputation[n], key, o)]
    PROVE  Contract!feedback(n, key, o)
<1>1. reputation \in [Humans -> Tally]
  BY DEF FakeInv, FakeTypeOK, RecordsOK
<1>2. PICK q, new : q \in Tally /\ q = reputation[n] /\ new = recorded(q, key, o)
  BY <1>1
<1>3. PICK old : old = slotIn(q, key)
  OBVIOUS
<1>4. /\ new.score = q.score + Contract!scoreDelta(old, o)
      /\ new.completed = (IF o = RESOLVED_TO_BUYER THEN q.completed ELSE q.completed + 1)
      /\ new.distinctRaters = (IF old = NoOutcome THEN q.distinctRaters + 1
                               ELSE q.distinctRaters)
      /\ \A r \in Raters : slotIn(new, r) = IF r = key THEN o ELSE slotIn(q, r)
  BY <1>2, <1>3, RecordedIs DEF Voices
<1>5. reputation' = [reputation EXCEPT ![n] = new] /\ DOMAIN reputation' = Humans
      /\ DOMAIN reputation = Humans
  BY <1>1, <1>2
<1>6. scoreMap' = [scoreMap EXCEPT ![n] = scoreMap[n] + Contract!scoreDelta(old, o)]
  <2>1. scoreMap[n] = q.score
    BY <1>2, <1>5 DEF scoreMap
  <2>2. scoreMap' = [scoreMap EXCEPT ![n] = new.score]
    BY <1>5 DEF scoreMap
  <2> QED
    BY <1>4, <2>1, <2>2
<1>7. completedMap' = [completedMap EXCEPT ![n] =
                          IF o = RESOLVED_TO_BUYER THEN completedMap[n] ELSE completedMap[n] + 1]
  <2>1. completedMap[n] = q.completed
    BY <1>2, <1>5 DEF completedMap
  <2>2. completedMap' = [completedMap EXCEPT ![n] = new.completed]
    BY <1>5 DEF completedMap
  <2> QED
    BY <1>4, <2>1, <2>2
<1>8. ratersMap' = [ratersMap EXCEPT ![n] =
                       IF old = NoOutcome THEN ratersMap[n] + 1 ELSE ratersMap[n]]
  <2>1. ratersMap[n] = q.distinctRaters
    BY <1>2, <1>5 DEF ratersMap
  <2>2. ratersMap' = [ratersMap EXCEPT ![n] = new.distinctRaters]
    BY <1>5 DEF ratersMap
  <2> QED
    BY <1>4, <2>1, <2>2
<1>9. slotMap = [h \in Humans |-> [r \in Raters |-> slotIn(reputation[h], r)]]
      /\ slotMap' = [h \in Humans |-> [r \in Raters |-> slotIn(reputation'[h], r)]]
  BY <1>5 DEF slotMap, slotIn
<1>10. slotMap[n][key] = old
  BY <1>2, <1>3, <1>9
<1>11. slotMap' = [slotMap EXCEPT ![n] = [slotMap[n] EXCEPT ![key] = o]]
  <2>1. [r \in Raters |-> slotIn(new, r)] = [slotMap[n] EXCEPT ![key] = o]
    BY <1>2, <1>4, <1>9
  <2>2. PICK row : row = [slotMap[n] EXCEPT ![key] = o]
    OBVIOUS
  <2>3. reputation'[n] = new /\ \A h \in Humans \ {n} : reputation'[h] = reputation[h]
    BY <1>5
  <2>4. \A h \in Humans :
           [r \in Raters |-> slotIn(reputation'[h], r)] = IF h = n THEN row ELSE slotMap[h]
    BY <1>9, <2>1, <2>2, <2>3
  <2>5. slotMap' = [h \in Humans |-> IF h = n THEN row ELSE slotMap[h]]
    BY <1>9, <2>4
  <2>6. slotMap' = [slotMap EXCEPT ![n] = row]
    BY <1>9, <2>5
  <2> QED
    BY <2>2, <2>6
<1> QED
  BY <1>6, <1>7, <1>8, <1>10, <1>11 DEF Contract!feedback, NoOutcome, Contract!NoOutcome,
     RESOLVED_TO_BUYER, Contract!RESOLVED_TO_BUYER

\* What a set of verdicts says.
SaidBy(S) == IF S = {} THEN NoOutcome ELSE (CHOOSE e \in S : TRUE).outcome

LEMMA SaidByOne ==
    ASSUME NEW e
    PROVE  SaidBy({e}) = e.outcome
<1>1. (CHOOSE f \in {e} : TRUE) = e
  OBVIOUS
<1>2. {e} # {}
  OBVIOUS
<1> QED
  BY <1>1, <1>2, Zenon DEF SaidBy

LEMMA VerdictsAsTheContracts ==
    ASSUME FakeInv, NEW t \in DOMAIN tasks, tasks[t].state \in Live, NEW o \in OutcomeCodes,
           feedback(t, o)
    PROVE  verdictMap' = [verdictMap EXCEPT ![t] = o]
<1>1. PICK a \in AgentIds \cup {NoAgent} : a = tasks[t].buyerAgentId /\ t \in TaskIds
  BY JudgedWho
<1>2. /\ FeedbackOf(t, o).name = "Feedback" /\ FeedbackOf(t, o).taskId = t
      /\ FeedbackOf(t, o).outcome = o /\ OutcomeOf(a, t, o).name = "Outcome"
  BY DEF FeedbackOf, OutcomeOf
<1>3. log' = IF a # NoAgent THEN log \cup {FeedbackOf(t, o), OutcomeOf(a, t, o)}
                            ELSE log \cup {FeedbackOf(t, o)}
  BY <1>1, LogGrows
<1>4. \A e \in log : e.name = "Feedback" => e.taskId # t
  BY NotJudgedYet, LogIs DEF FakeInv, FakeTypeOK
<1>5. \A u \in TaskIds \ {t} : Verdicts(u)' = Verdicts(u)
  BY <1>2, <1>3 DEF Verdicts
<1>6. Verdicts(t)' = {FeedbackOf(t, o)}
  BY <1>2, <1>3, <1>4 DEF Verdicts
<1>7. SaidBy(Verdicts(t)') = o
  BY <1>2, <1>6, SaidByOne
<1>8. /\ verdictMap = [u \in TaskIds |-> SaidBy(Verdicts(u))]
      /\ verdictMap' = [u \in TaskIds |-> SaidBy(Verdicts(u)')]
  BY Zenon DEF verdictMap, SaidBy
<1>9. \A u \in TaskIds : SaidBy(Verdicts(u)') = IF u = t THEN o ELSE SaidBy(Verdicts(u))
  BY <1>5, <1>7
<1>10. verdictMap' = [u \in TaskIds |-> IF u = t THEN o ELSE verdictMap[u]]
  BY <1>8, <1>9
<1> QED
  BY <1>1, <1>8, <1>10

\* What the registry was told of an agent is finite.
LEMMA ToldIsFinite ==
    ASSUME RecordsOK, NEW a, NEW codes
    PROVE  /\ IsFiniteSet(Marked(a)) /\ Cardinality(Marked(a)) \in Nat
           /\ IsFiniteSet(Judged(a, codes)) /\ Cardinality(Judged(a, codes)) \in Nat
<1>1. Marked(a) \subseteq log /\ Judged(a, codes) \subseteq log
  BY DEF Marked, Judged
<1> QED
  BY <1>1, FS_Subset, FS_CardinalityType DEF RecordsOK

\* The agent's record, where the buyer is an agent.
LEMMA TellsAsTheContracts ==
    ASSUME FakeInv, NEW t \in DOMAIN tasks, tasks[t].state \in Live, NEW o \in OutcomeCodes,
           feedback(t, o), tasks[t].buyerAgentId # NoAgent
    PROVE  Contract!giveFeedback(tasks[t].buyerAgentId, Contract!agentValue(o))
<1>1. PICK a \in AgentIds : a = tasks[t].buyerAgentId
  BY JudgedWho
<1>2. PICK out : out = OutcomeOf(a, t, o)
  OBVIOUS
<1>3. /\ out.name = "Outcome" /\ out.agentId = a /\ out.taskId = t /\ out.outcome = o
      /\ FeedbackOf(t, o).name = "Feedback"
  BY <1>2 DEF OutcomeOf, FeedbackOf
<1>4. log' = log \cup {FeedbackOf(t, o), out}
  BY <1>1, <1>2, LogGrows
<1>5. out \notin log
  <2>1. out \in Judgements
    BY <1>1, <1>2, LogGrows
  <2> QED
    BY <1>3, <2>1, NotJudgedYet
<1>6. \A x : Marked(x)' = Marked(x)
  BY <1>3, <1>4 DEF Marked
<1>7. \A x, codes : x # a \/ o \notin codes => Judged(x, codes)' = Judged(x, codes)
  BY <1>3, <1>4 DEF Judged
<1>8. \A codes : o \in codes => Judged(a, codes)' = Judged(a, codes) \cup {out}
  BY <1>3, <1>4 DEF Judged
<1>9. ASSUME NEW codes, o \in codes
      PROVE  Cardinality(Judged(a, codes)') = Cardinality(Judged(a, codes)) + 1
  <2>1. IsFiniteSet(Judged(a, codes)) /\ out \notin Judged(a, codes)
    BY <1>5, ToldIsFinite DEF Judged, FakeInv, FakeTypeOK
  <2> QED
    BY <1>8, <1>9, <2>1, FS_AddElement
<1> DEFINE entries(x) == Cardinality(Marked(x)) + Cardinality(Judged(x, OutcomeCodes))
           right(x) == Cardinality(Judged(x, {PAID, RESOLVED_TO_BUYER}))
           wrong(x) == Cardinality(Judged(x, {RESOLVED_TO_WORKER}))
           marked(x) == Cardinality(Marked(x))
<1>10. \A x : entries(x) \in Nat /\ right(x) \in Nat /\ wrong(x) \in Nat /\ marked(x) \in Nat
  BY ToldIsFinite DEF FakeInv, FakeTypeOK
<1>11. entriesMap' = [entriesMap EXCEPT ![a] = entriesMap[a] + 1]
  <2>1. \A x \in AgentIds : entries(x)' = IF x = a THEN entries(x) + 1 ELSE entries(x)
    <3>1. \A x \in AgentIds \ {a} : entries(x)' = entries(x)
      BY <1>6, <1>7
    <3>2. entries(a)' = entries(a) + 1
      <4>1. Cardinality(Judged(a, OutcomeCodes)') = Cardinality(Judged(a, OutcomeCodes)) + 1
        BY <1>9
      <4>2. Cardinality(Marked(a)') = Cardinality(Marked(a))
        BY <1>6
      <4>3. Cardinality(Marked(a)) \in Nat /\ Cardinality(Judged(a, OutcomeCodes)) \in Nat
        BY ToldIsFinite DEF FakeInv, FakeTypeOK
      <4> QED
        BY <4>1, <4>2, <4>3
    <3> QED
      BY <3>1, <3>2
  <2>2. entriesMap = [x \in AgentIds |-> entries(x)]
    BY DEF entriesMap
  <2>3. entriesMap' = [x \in AgentIds |-> entries(x)']
    BY DEF entriesMap
  <2> HIDE DEF entries
  <2> QED
    BY <2>1, <2>2, <2>3
<1>12. standingMap' = [standingMap EXCEPT ![a] = standingMap[a] + Contract!agentValue(o)]
  <2>1. Contract!agentValue(o) = IF o = RESOLVED_TO_WORKER THEN -1 ELSE 1
    BY DEF Contract!agentValue, RESOLVED_TO_WORKER, Contract!RESOLVED_TO_WORKER
  <2>2. \A x \in AgentIds : marked(x)' = marked(x)
    BY <1>6
  <2>3. \A x \in AgentIds \ {a} : right(x)' = right(x) /\ wrong(x)' = wrong(x)
    BY <1>7
  <2>4. CASE o = RESOLVED_TO_WORKER
    <3>1. o \notin {PAID, RESOLVED_TO_BUYER} /\ o \in {RESOLVED_TO_WORKER}
      BY <2>4 DEF PAID, RESOLVED_TO_WORKER, RESOLVED_TO_BUYER
    <3>2. right(a)' = right(a) /\ wrong(a)' = wrong(a) + 1
      BY <1>7, <1>9, <3>1
    <3> HIDE DEF right, wrong, marked
    <3>3. \A x \in AgentIds : right(x)' - wrong(x)' - marked(x)' =
             IF x = a THEN (right(x) - wrong(x) - marked(x)) + (-1)
             ELSE right(x) - wrong(x) - marked(x)
      BY <1>10, <2>2, <2>3, <3>2
    <3>4. /\ standingMap = [x \in AgentIds |-> right(x) - wrong(x) - marked(x)]
          /\ standingMap' = [x \in AgentIds |-> right(x)' - wrong(x)' - marked(x)']
      BY DEF standingMap, right, wrong, marked
    <3> QED
      BY <2>1, <2>4, <3>3, <3>4
  <2>5. CASE o # RESOLVED_TO_WORKER
    <3>1. o \in {PAID, RESOLVED_TO_BUYER} /\ o \notin {RESOLVED_TO_WORKER}
      BY <2>5 DEF OutcomeCodes
    <3>2. right(a)' = right(a) + 1 /\ wrong(a)' = wrong(a)
      BY <1>7, <1>9, <3>1
    <3> HIDE DEF right, wrong, marked
    <3>3. \A x \in AgentIds : right(x)' - wrong(x)' - marked(x)' =
             IF x = a THEN (right(x) - wrong(x) - marked(x)) + 1
             ELSE right(x) - wrong(x) - marked(x)
      BY <1>10, <2>2, <2>3, <3>2
    <3>4. /\ standingMap = [x \in AgentIds |-> right(x) - wrong(x) - marked(x)]
          /\ standingMap' = [x \in AgentIds |-> right(x)' - wrong(x)' - marked(x)']
      BY DEF standingMap, right, wrong, marked
    <3> QED
      BY <2>1, <2>5, <3>3, <3>4
  <2> QED
    BY <2>4, <2>5
<1> QED
  BY <1>1, <1>11, <1>12 DEF Contract!giveFeedback

\* Where the buyer is nobody's agent the registry is told nothing.
LEMMA TellsNobody ==
    ASSUME FakeInv, NEW t \in DOMAIN tasks, NEW o \in OutcomeCodes,
           feedback(t, o), tasks[t].buyerAgentId = NoAgent
    PROVE  UNCHANGED <<entriesMap, standingMap>>
<1>1. log' = log \cup {FeedbackOf(t, o)} /\ FeedbackOf(t, o).name = "Feedback"
  BY LogGrows DEF FeedbackOf
<1>2. \A x : Marked(x)' = Marked(x) /\ \A codes : Judged(x, codes)' = Judged(x, codes)
  BY <1>1 DEF Marked, Judged
<1> QED
  BY <1>2 DEF entriesMap, standingMap

\* The outcome of a settlement, with all it writes.
LEMMA JudgesAsTheContracts ==
    ASSUME FakeInv, NEW t \in DOMAIN tasks, tasks[t].state \in Held, NEW o \in OutcomeCodes,
           feedback(t, o), UNCHANGED markVars, UNCHANGED ruleVars, ~OfNobody(t)
    PROVE  Contract!writeOutcome(t, o)
<1>1. tasks[t].state \in Live /\ tasks[t].worker \in Workers /\ tasks[t].buyer \in Buyers
  BY Somebodys DEF Live, Held
<1>2. /\ tasks[t] \in TaskRow /\ termsMap[t] = termsOf(tasks[t])
      /\ workerMap[t] = tasks[t].worker
  BY TaskIsThere DEF FakeInv, FakeTypeOK
<1>3. PICK n \in Humans, key \in Raters, a \in AgentIds \cup {NoAgent} :
         /\ n = nullifierFor(tasks[t].worker) /\ key = raterKey(tasks[t])
         /\ a = tasks[t].buyerAgentId
  BY <1>1, JudgedWho, FakeAssumption DEF raterKey
<1>4. n = Contract!nullifierOf(workerMap[t])
  BY <1>1, <1>2, <1>3, WorkersAreThere
<1>5. termsMap[t].buyerAgentId = a /\ key = Contract!raterKey(t)
  BY <1>2, <1>3 DEF termsOf, raterKey, Contract!raterKey
<1>6. reputation' = [reputation EXCEPT ![n] = recorded(reputation[n], key, o)]
  BY <1>3 DEF feedback
<1>7. Contract!feedback(n, key, o)
  BY <1>6, RecordsAsTheContracts
<1>8. verdictMap' = [verdictMap EXCEPT ![t] = o]
  BY <1>1, VerdictsAsTheContracts
<1>9. UNCHANGED <<marks, lastMarks, markCounts, cooldownSeconds>>
  BY DEF markVars, ruleVars
<1>10. CASE a = NoAgent
  <2>1. UNCHANGED Contract!abuseMarkVars
    BY <1>3, <1>9, <1>10, TellsNobody DEF Contract!abuseMarkVars
  <2> QED
    BY <1>4, <1>5, <1>7, <1>8, <1>10, <2>1 DEF Contract!writeOutcome
<1>11. CASE a # NoAgent
  <2>1. Contract!outcome(a, o)
    BY <1>1, <1>3, <1>9, <1>11, TellsAsTheContracts DEF Contract!outcome
  <2> QED
    BY <1>4, <1>5, <1>7, <1>8, <1>11, <2>1 DEF Contract!writeOutcome
<1> QED
  BY <1>10, <1>11

LEMMA ReleasesAsTheContracts ==
    ASSUME FakeInv, NEW t \in TaskIds, stateOf(t) = "Submitted", release(t), ~OfNobody(t)
    PROVE  Contract!release(t) /\ stateMap[t] = "Submitted" /\ t \in DOMAIN tasks
<1>1. /\ t \in DOMAIN tasks /\ tasks[t].state = "Submitted"
      /\ tasks[t].worker \in Accounts \ {Escrow} /\ Treasury \in Accounts \ {Escrow}
  BY ReleaseKeeps, Somebodys
<1>2. "Submitted" \in Live /\ "Submitted" \in Held /\ "Released" \in Final /\ PAID \in OutcomeCodes
  BY DEF Live, Held, Final, OutcomeCodes
<1>3. Settle(t, "Released", tasks[t].worker, Treasury) /\ feedback(t, PAID)
  BY DEF release
<1>4. UNCHANGED markVars /\ UNCHANGED ruleVars
  BY <1>3 DEF Settle
<1>5. Contract!Close(t, "Released") /\ Contract!PayOut(t, tasks[t].worker, Treasury)
  BY <1>1, <1>2, <1>3, SettlesAsTheContracts
<1>6. Contract!writeOutcome(t, PAID)
  BY <1>1, <1>2, <1>3, <1>4, JudgesAsTheContracts
<1>7. workerMap[t] = tasks[t].worker /\ stateMap[t] = tasks[t].state
  BY <1>1, TaskIsThere DEF FakeInv, FakeTypeOK
<1> QED
  BY <1>1, <1>5, <1>6, <1>7 DEF Contract!release, PAID, Contract!PAID

LEMMA ApprovesAsTheContracts ==
    ASSUME FakeInv, NEW t \in TaskIds, ~OfNobody(t)
    PROVE  /\ approve(t) => Contract!approve(t)
           /\ autoRelease(t) => Contract!autoRelease(t)
<1>1. ASSUME approve(t) PROVE Contract!approve(t)
  <2>1. stateOf(t) = "Submitted" /\ release(t)
    BY <1>1 DEF approve, approveRefusal, Accepted
  <2> QED
    BY <2>1, ReleasesAsTheContracts DEF Contract!approve
<1>2. ASSUME autoRelease(t) PROVE Contract!autoRelease(t)
  <2>1. /\ stateOf(t) = "Submitted" /\ release(t)
        /\ ~(clock < tasks[t].submittedAt + tasks[t].disputeWindow)
    BY <1>2 DEF autoRelease, autoReleaseRefusal, Accepted
  <2>2. Contract!release(t) /\ stateMap[t] = "Submitted" /\ t \in DOMAIN tasks
    BY <2>1, ReleasesAsTheContracts
  <2>3. Contract!DisputeWindowOver(t)
    BY <2>1, <2>2, DeadlinesAre
  <2> QED
    BY <2>2, <2>3 DEF Contract!autoRelease
<1> QED
  BY <1>1, <1>2

\* A task's state, worker and buyer, as the contracts read them.
LEMMA PartiesAre ==
    ASSUME FakeInv, NEW t \in DOMAIN tasks
    PROVE  /\ workerMap[t] = tasks[t].worker /\ stateMap[t] = tasks[t].state
           /\ termsMap[t].buyer = tasks[t].buyer
<1>1. /\ workerMap[t] = tasks[t].worker /\ stateMap[t] = tasks[t].state
      /\ termsMap[t] = termsOf(tasks[t])
  BY TaskIsThere DEF FakeInv, FakeTypeOK
<1> QED
  BY <1>1 DEF termsOf

LEMMA ResolvesAsTheContracts ==
    ASSUME FakeInv, NEW t \in TaskIds, NEW toBuyer \in BOOLEAN, resolve(t, toBuyer),
           ~OfNobody(t)
    PROVE  Contract!resolve(t, toBuyer)
<1>1. /\ t \in DOMAIN tasks /\ tasks[t].state = "Disputed"
      /\ tasks[t].worker \in Accounts \ {Escrow} /\ tasks[t].buyer \in Accounts \ {Escrow}
  BY ResolveKeeps, Somebodys
<1>2. "Disputed" \in Live /\ "Disputed" \in Held /\ "Resolved" \in Final
  BY DEF Live, Held, Final
<1>3. PICK x, o :
         /\ x = IF toBuyer THEN tasks[t].buyer ELSE tasks[t].worker
         /\ o = IF toBuyer THEN RESOLVED_TO_BUYER ELSE RESOLVED_TO_WORKER
  OBVIOUS
<1>4. x \in Accounts \ {Escrow} /\ o \in OutcomeCodes
  BY <1>1, <1>3 DEF OutcomeCodes
<1>5. Settle(t, "Resolved", x, tasks[t].buyer) /\ feedback(t, o)
  BY <1>3 DEF resolve
<1>6. UNCHANGED markVars /\ UNCHANGED ruleVars
  BY <1>5 DEF Settle
<1>7. Contract!Close(t, "Resolved") /\ Contract!PayOut(t, x, tasks[t].buyer)
  BY <1>1, <1>2, <1>4, <1>5, SettlesAsTheContracts
<1>8. Contract!writeOutcome(t, o)
  BY <1>1, <1>2, <1>4, <1>5, <1>6, JudgesAsTheContracts
<1>9. /\ workerMap[t] = tasks[t].worker /\ stateMap[t] = "Disputed"
      /\ termsMap[t].buyer = tasks[t].buyer
  BY <1>1, PartiesAre
<1>10. x = IF toBuyer THEN termsMap[t].buyer ELSE workerMap[t]
  BY <1>3, <1>9
<1>11. o = IF toBuyer THEN Contract!RESOLVED_TO_BUYER ELSE Contract!RESOLVED_TO_WORKER
  BY <1>3 DEF RESOLVED_TO_BUYER, Contract!RESOLVED_TO_BUYER, RESOLVED_TO_WORKER,
     Contract!RESOLVED_TO_WORKER
<1> QED
  BY <1>7, <1>8, <1>9, <1>10, <1>11 DEF Contract!resolve

LEMMA ExpiresAsTheContracts ==
    ASSUME FakeInv, NEW t \in TaskIds, expire(t), ~OfNobody(t)
    PROVE  Contract!expire(t)
<1>1. /\ t \in DOMAIN tasks /\ tasks[t].buyer \in Accounts \ {Escrow}
      /\ \/ tasks[t].state = "Open" /\ clock > tasks[t].postedAt + tasks[t].claimTTL
         \/ tasks[t].state = "Claimed" /\ clock > tasks[t].claimedAt + tasks[t].submitTTL
  BY ExpireKeeps, Somebodys
<1>2. "Open" \in Live /\ "Claimed" \in Live /\ "Refunded" \in Final
  BY DEF Live, Held, Final
<1>3. Settle(t, "Refunded", tasks[t].buyer, tasks[t].buyer) /\ UNCHANGED recordVars
  BY DEF expire
<1>4. UNCHANGED markVars /\ UNCHANGED ruleVars
  BY <1>3 DEF Settle
<1>5. /\ Contract!Close(t, "Refunded")
      /\ Contract!PayOut(t, tasks[t].buyer, tasks[t].buyer)
  BY <1>1, <1>2, <1>3, SettlesAsTheContracts
<1>6. stateMap[t] = tasks[t].state /\ termsMap[t].buyer = tasks[t].buyer
  BY <1>1, PartiesAre
<1>7. /\ Contract!ListingExpired(t) <=> clock > tasks[t].postedAt + tasks[t].claimTTL
      /\ Contract!SubmitExpired(t) <=> clock > tasks[t].claimedAt + tasks[t].submitTTL
  BY <1>1, DeadlinesAre
<1>8. /\ UNCHANGED Contract!reputationVars /\ UNCHANGED Contract!abuseMarkVars
      /\ UNCHANGED verdictMap
  BY <1>3, <1>4, RecordVarsStay
<1> QED
  BY <1>1, <1>5, <1>6, <1>7, <1>8 DEF Contract!expire

LEMMA OneTransfer ==
    ASSUME NEW b \in [Accounts -> Int], NEW x \in Accounts \ {Escrow}, NEW k \in Int, NEW r,
           r = credit(debit(b, x, k), Escrow, k)
    PROVE  r = Contract!transfer(b, x, Escrow, k)
<1>1. PICK d : d = [b EXCEPT ![x] = b[x] - k]
  OBVIOUS
<1>2. r = [d EXCEPT ![Escrow] = d[Escrow] + k]
  BY <1>1 DEF credit, debit
<1>3. d[Escrow] = b[Escrow]
  BY <1>1 DEF Accounts
<1>4. r = [[b EXCEPT ![x] = b[x] - k] EXCEPT ![Escrow] = b[Escrow] + k]
  BY <1>1, <1>2, <1>3
<1>5. Contract!transfer(b, x, Escrow, k)
         = [[b EXCEPT ![x] = b[x] - k] EXCEPT ![Escrow] = b[Escrow] + k]
  BY DEF Contract!transfer
<1> QED
  BY <1>4, <1>5

\* A post for a buyer, with every window in range, is a post of the contract.
LEMMA PostsAsTheContracts ==
    ASSUME FakeInv, NEW p \in PostParams, NEW payer \in {Relayer, p.buyer}, postFrom(p, payer),
           ~PostUnchecked(p)
    PROVE  Contract!post(payer, p)
<1>1. PICK id : id = taskCounter + 1
  OBVIOUS
<1>2. PICK row : row = NewRow(p)
  OBVIOUS
<1>3. /\ id \in TaskIds /\ id \notin DOMAIN tasks
      /\ taskCounter' = id /\ tasks'[id] = row
      /\ DOMAIN tasks' = DOMAIN tasks \cup {id}
      /\ \A u \in DOMAIN tasks : tasks'[u] = tasks[u]
  BY <1>1, <1>2, PostAdds
<1>4. /\ row.state = "Open" /\ row.worker = NoAddress /\ row.claimedAt = 0
      /\ row.submittedAt = 0
  BY <1>2 DEF NewRow
<1>5. termsOf(row) = [buyer |-> p.buyer, buyerAgentId |-> p.buyerAgentId, amount |-> p.amount,
                      fee |-> feeOn(p.amount), postedAt |-> clock, claimTTL |-> p.claimTTL,
                      submitTTL |-> p.submitTTL, disputeWindow |-> p.disputeWindow]
  BY <1>2 DEF NewRow, termsOf
<1>6. stateMap' = [stateMap EXCEPT ![id] = "Open"]
  BY <1>3, <1>4 DEF stateMap, stateOf
<1>7. workerMap' = workerMap
  BY <1>3, <1>4 DEF workerMap
<1>8. claimedAtMap' = claimedAtMap
  BY <1>3, <1>4 DEF claimedAtMap
<1>9. submittedAtMap' = submittedAtMap
  BY <1>3, <1>4 DEF submittedAtMap
<1>10. termsMap' = [termsMap EXCEPT ![id] = termsOf(row)]
  <2>1. PICK fixed : fixed = termsOf(row)
    OBVIOUS
  <2>2. \A u \in DOMAIN tasks' : termsOf(tasks'[u]) = IF u = id THEN fixed ELSE termsOf(tasks[u])
    BY <1>3, <2>1
  <2>3. termsMap' = [u \in TaskIds |-> IF u = id THEN fixed ELSE termsMap[u]]
    BY <1>3, <2>2 DEF termsMap
  <2>4. termsMap = [u \in TaskIds |-> termsMap[u]]
    BY DEF termsMap
  <2> QED
    BY <2>1, <2>3, <2>4
<1>11. feeOn(p.amount) = Contract!feeOn(p.amount)
  BY DEF feeOn, Contract!feeOn
<1>12. PICK k \in Int : k = p.amount + feeOn(p.amount)
  BY PostFields
<1>13. usdcMap' = Contract!transfer(usdcMap, payer, Escrow, k) /\ Contract!affords(payer, k)
  <2>1. PICK b \in [Anyone -> Int] : b = balances
    BY DEF FakeInv, FakeTypeOK, TasksOK
  <2>2. usdcMap = Purse(b) /\ Purse(b) \in [Accounts -> Int] /\ Escrow \in Accounts
    BY <2>1 DEF usdcMap, Purse, Anyone, Accounts
  <2>3. payer \in Accounts \ {Escrow}
    BY PostAdds, PostFields, FakeAssumption DEF PostUnchecked, Posters, Accounts
  <2>4. PICK d, r : d = debit(b, payer, k) /\ r = credit(d, Escrow, k) /\ balances' = r
    BY <1>12, <2>1 DEF postFrom
  <2>5. d \in [Anyone -> Int] /\ Purse(d) = debit(Purse(b), payer, k)
    BY <2>3, <2>4, PurseMoves
  <2>6. Purse(r) = credit(Purse(d), Escrow, k)
    BY <2>2, <2>4, <2>5, PurseMoves
  <2>7. Purse(r) = Contract!transfer(Purse(b), payer, Escrow, k)
    BY <2>2, <2>3, <2>5, <2>6, OneTransfer
  <2>8. usdcMap' = Purse(r)
    BY <2>4 DEF usdcMap, Purse
  <2>9. Contract!affords(payer, k)
    BY <1>12, <2>1, <2>2, <2>3, PostAdds DEF Contract!affords, Purse
  <2> QED
    BY <2>2, <2>7, <2>8, <2>9
<1>14. /\ p.buyer \in Buyers /\ openTasksMap[p.buyer] = openTasks[p.buyer]
       /\ openTasksMap' = [openTasksMap EXCEPT ![p.buyer] = @ + 1]
  <2>1. PICK q \in Buyers : q = p.buyer
    BY PostFields DEF PostUnchecked, Posters
  <2>2. openTasks' = [openTasks EXCEPT ![q] = openTasks[q] + 1] /\ Buyers \subseteq DOMAIN openTasks
    BY <2>1 DEF postFrom, FakeInv, FakeTypeOK, TasksOK, Posters
  <2>3. openTasksMap' = [openTasksMap EXCEPT ![q] = openTasks[q] + 1]
    BY <2>2, ReadAtKeys DEF openTasksMap
  <2> QED
    BY <2>1, <2>3 DEF openTasksMap
<1>15. /\ ~Contract!windowOutOfRange(p.claimTTL) /\ ~Contract!windowOutOfRange(p.submitTTL)
       /\ ~Contract!windowOutOfRange(p.disputeWindow)
  <2>1. MIN_WINDOW \in Nat /\ MAX_WINDOW \in Nat
    BY FakeAssumption
  <2>2. \A v \in MIN_WINDOW .. MAX_WINDOW : ~Contract!windowOutOfRange(v)
    BY <2>1 DEF Contract!windowOutOfRange
  <2> QED
    BY <2>2 DEF PostUnchecked, InRange, Windows
<1>16. clock =< MaxTime /\ taskCounter < MaxTasks
  BY FakeAssumption DEF postFrom, FakeInv, FakeTypeOK, TasksOK
<1>17. /\ ~isPaused /\ p.amount =< MAX_TASK_AMOUNT /\ MIN_TASK_AMOUNT =< p.amount
       /\ openTasks[p.buyer] < maxOpenTasksPerBuyer
  BY PostAdds
<1>18. /\ UNCHANGED activeClaimMap /\ UNCHANGED cooldownMap /\ UNCHANGED peopleVars
       /\ UNCHANGED ruleVars /\ UNCHANGED markVars /\ UNCHANGED recordVars
  BY CountersStay DEF postFrom
<1>19. /\ UNCHANGED Contract!registryVars /\ UNCHANGED Contract!reputationVars
       /\ UNCHANGED Contract!abuseMarkVars /\ UNCHANGED verdictMap
       /\ UNCHANGED clock /\ UNCHANGED allowlistedMap /\ UNCHANGED isPaused
  BY <1>18, RestStays, RecordVarsStay
<1> QED
  BY <1>1, <1>3, <1>5, <1>6, <1>7, <1>8, <1>9, <1>10, <1>11, <1>12, <1>13, <1>14, <1>15, <1>16,
     <1>17, <1>18, <1>19 DEF Contract!post

-----------------------------------------------------------------------------
\* What a call that touches no task leaves alone, as the contracts read it.
LEMMA TaskVarsStay ==
    ASSUME UNCHANGED taskVars
    PROVE  UNCHANGED <<stateMap, workerMap, claimedAtMap, submittedAtMap, termsMap, taskCounter,
                       openTasksMap, activeClaimMap, cooldownMap, usdcMap>>
BY TasksStay, CountersStay DEF taskVars

\* A binding is written as the contracts write it.
LEMMA BindsAsTheContracts ==
    ASSUME FakeInv, NEW w \in Workers, NEW n \in Nullifiers, NEW seeded \in BOOLEAN,
           setWorker(w, n, seeded)
    PROVE  Contract!Bind(n, w, seeded)
<1>1. PICK person : person = [nullifier |-> n, seeded |-> seeded]
  OBVIOUS
<1>2. /\ DOMAIN workers' = DOMAIN workers \cup {w}
      /\ \A x \in DOMAIN workers' : workers'[x] = IF x = w THEN person ELSE workers[x]
  BY <1>1 DEF setWorker, Put
<1>3. /\ DOMAIN workerByNullifier' = DOMAIN workerByNullifier \cup {n}
      /\ \A x \in DOMAIN workerByNullifier' :
            workerByNullifier'[x] = IF x = n THEN w ELSE workerByNullifier[x]
  BY DEF setWorker, Put
<1>4. person.nullifier = n /\ person.seeded = seeded
  BY <1>1
<1>5. PICK record : record = [nullifier |-> n, seeded |-> seeded, bound |-> TRUE]
  OBVIOUS
<1>6. recordsMap' = [recordsMap EXCEPT ![w] = record]
  <2>1. recordsMap' = [x \in Workers |-> IF x = w THEN record ELSE recordsMap[x]]
    BY <1>2, <1>4, <1>5 DEF recordsMap
  <2>2. recordsMap = [x \in Workers |-> recordsMap[x]]
    BY DEF recordsMap
  <2> QED
    BY <2>1, <2>2
<1>7. workerOfMap' = [workerOfMap EXCEPT ![n] = w]
  BY <1>3 DEF workerOfMap
<1> QED
  BY <1>5, <1>6, <1>7 DEF Contract!Bind

\* The contracts spend the message where the fake spends the bytes.
LEMMA RegistersAsTheContracts ==
    ASSUME FakeInv, NEW a \in Attestations, registerFor(a), ~RegisterUnchecked(a)
    PROVE  Contract!registerFor(Message(a))
<1>1. /\ a.worker \in Workers /\ a.nullifier \in Nullifiers /\ a.deadline \in Nat
      /\ Message(a) \in spentMap <=> a \in usedAttestations
  BY SpentAlike
<1>2. /\ a.nullifier \notin DOMAIN workerByNullifier /\ a.worker \notin DOMAIN workers
      /\ ~(clock > a.deadline) /\ a \notin usedAttestations
      /\ usedAttestations' = usedAttestations \cup {a}
      /\ setWorker(a.worker, a.nullifier, FALSE)
  BY DEF registerFor, registerForRefusal, Accepted
<1>3. clock =< a.deadline
  BY <1>1, <1>2 DEF FakeInv, FakeTypeOK, TasksOK
<1>4. Contract!Unbound(a.nullifier, a.worker)
  BY <1>1, <1>2, HumansAreThere, WorkersAreThere DEF Contract!Unbound
<1>5. Contract!Bind(a.nullifier, a.worker, FALSE)
  BY <1>1, <1>2, BindsAsTheContracts
<1>6. spentMap' = spentMap \cup {Message(a)}
  BY <1>2 DEF spentMap, RegisterUnchecked
<1>7. /\ Message(a).worker = a.worker /\ Message(a).nullifier = a.nullifier
      /\ Message(a).deadline = a.deadline
  BY DEF Message
<1> QED
  BY <1>1, <1>2, <1>3, <1>4, <1>5, <1>6, <1>7 DEF Contract!registerFor

LEMMA SeedsAsTheContracts ==
    ASSUME FakeInv, NEW w \in Workers, NEW n \in Nullifiers, seedWorker(w, n),
           ~SeedUnchecked(w, n)
    PROVE  Contract!seedWorker(w, n)
<1>1. setWorker(w, n, TRUE) /\ UNCHANGED spentMap
  BY DEF seedWorker, spentMap
<1>2. Contract!Unbound(n, w)
  BY HumansAreThere, WorkersAreThere DEF Contract!Unbound, SeedUnchecked
<1> QED
  BY <1>1, <1>2, BindsAsTheContracts DEF Contract!seedWorker

\* What a reset takes out of the two maps.
LEMMA ResetTakes ==
    ASSUME FakeInv, NEW n \in Humans, resetWorker(n)
    PROVE  \E w \in Holders :
              /\ n \in DOMAIN workerByNullifier /\ w = workerByNullifier[n]
              /\ DOMAIN workers' = DOMAIN workers \ {w}
              /\ \A x \in DOMAIN workers' : workers'[x] = workers[x]
              /\ DOMAIN workerByNullifier' = DOMAIN workerByNullifier \ {n}
              /\ \A x \in DOMAIN workerByNullifier' :
                    workerByNullifier'[x] = workerByNullifier[x]
              /\ UNCHANGED spentMap
<1>1. n \in DOMAIN workerByNullifier
  BY DEF resetWorker, resetWorkerRefusal, Accepted
<1>2. PICK D \in SUBSET Holders, E \in SUBSET Humans :
         workers \in [D -> Person] /\ workerByNullifier \in [E -> Holders]
  BY DEF FakeInv, FakeTypeOK, PeopleOK
<1>3. PICK w \in Holders : w = workerByNullifier[n]
  BY <1>1, <1>2
<1>4. workers' = Without(workers, w) /\ workerByNullifier' = Without(workerByNullifier, n)
      /\ UNCHANGED spentMap
  BY <1>3 DEF resetWorker, spentMap
<1>5. /\ workers' \in [D \ {w} -> Person]
      /\ \A x \in D \ {w} : workers'[x] = workers[x]
  BY <1>2, <1>4 DEF Without, Restrict
<1>6. /\ workerByNullifier' \in [E \ {n} -> Holders]
      /\ \A x \in E \ {n} : workerByNullifier'[x] = workerByNullifier[x]
  BY <1>2, <1>4 DEF Without, Restrict
<1>7. DOMAIN workers = D /\ DOMAIN workerByNullifier = E
  BY <1>2
<1>8. DOMAIN workers' = D \ {w} /\ DOMAIN workerByNullifier' = E \ {n}
  BY <1>5, <1>6
<1> QED
  BY <1>1, <1>3, <1>4, <1>5, <1>6, <1>7, <1>8

LEMMA ResetsAsTheContracts ==
    ASSUME FakeInv, NEW n \in Nullifiers, resetWorker(n), ~BoundToNobody(n)
    PROVE  Contract!resetWorker(n)
<1>1. PICK w \in Holders :
         /\ n \in DOMAIN workerByNullifier /\ w = workerByNullifier[n]
         /\ DOMAIN workers' = DOMAIN workers \ {w}
         /\ \A x \in DOMAIN workers' : workers'[x] = workers[x]
         /\ DOMAIN workerByNullifier' = DOMAIN workerByNullifier \ {n}
         /\ \A x \in DOMAIN workerByNullifier' :
               workerByNullifier'[x] = workerByNullifier[x]
         /\ UNCHANGED spentMap
  BY ResetTakes DEF Humans
<1>2. w \in Workers /\ w # NoAddress
  BY <1>1 DEF BoundToNobody, Holders
<1>3. recordsMap' = [recordsMap EXCEPT ![w] = NoRecord]
  <2>1. PICK none : none = NoRecord
    OBVIOUS
  <2>2. recordsMap' = [x \in Workers |-> IF x = w THEN none ELSE recordsMap[x]]
    BY <1>1, <2>1 DEF recordsMap
  <2>3. recordsMap = [x \in Workers |-> recordsMap[x]]
    BY DEF recordsMap
  <2> QED
    BY <2>1, <2>2, <2>3
<1>4. workerOfMap' = [workerOfMap EXCEPT ![n] = NoAddress]
  BY <1>1 DEF workerOfMap
<1>5. workerOfMap[n] = w
  BY <1>1 DEF workerOfMap
<1>6. NoRecord = Contract!NoRecord
  BY DEF NoRecord, Contract!NoRecord
<1> QED
  BY <1>1, <1>2, <1>3, <1>4, <1>5, <1>6 DEF Contract!resetWorker

\* The contracts would find nothing to reset.
LEMMA ResetsNothing ==
    ASSUME FakeInv, NEW n \in Nullifiers, resetWorker(n), BoundToNobody(n)
    PROVE  UNCHANGED Contract!registryVars
<1>1. PICK w \in Holders :
         /\ n \in DOMAIN workerByNullifier /\ w = workerByNullifier[n]
         /\ DOMAIN workers' = DOMAIN workers \ {w}
         /\ \A x \in DOMAIN workers' : workers'[x] = workers[x]
         /\ DOMAIN workerByNullifier' = DOMAIN workerByNullifier \ {n}
         /\ \A x \in DOMAIN workerByNullifier' :
               workerByNullifier'[x] = workerByNullifier[x]
         /\ UNCHANGED spentMap
  BY ResetTakes DEF Humans
<1>2. w \notin Workers /\ workerByNullifier[n] = NoAddress
  BY <1>1, FakeAssumption DEF BoundToNobody, Accounts
<1>3. recordsMap' = recordsMap
  BY <1>1, <1>2 DEF recordsMap
<1>4. workerOfMap' = workerOfMap
  BY <1>1, <1>2 DEF workerOfMap
<1> QED
  BY <1>1, <1>3, <1>4 DEF Contract!registryVars

\* A call to the registry, with all it leaves alone.
LEMMA PeopleCallsAsTheContracts ==
    ASSUME FakeInv,
           \/ \E a \in Attestations : registerFor(a)
           \/ \E s \in Seedings : seedWorker(s[1], s[2])
           \/ \E n \in Resettable : resetWorker(n)
    PROVE  \/ Contract!Registry \/ SeedsUnchecked \/ RegistersUnchecked \/ ResetsNobody
           \/ UNCHANGED Contract!vars
<1>1. /\ UNCHANGED taskVars /\ UNCHANGED ruleVars /\ UNCHANGED markVars /\ UNCHANGED recordVars
  BY DEF registerFor, seedWorker, resetWorker
<1>2. /\ UNCHANGED Contract!reputationVars /\ UNCHANGED Contract!abuseMarkVars
      /\ UNCHANGED verdictMap
  BY <1>1, RecordVarsStay
<1>3. UNCHANGED Contract!taskVars /\ UNCHANGED clock
  BY <1>1, <1>2, TaskVarsStay, RulesStay DEF Contract!taskVars
<1>4. ASSUME NEW a \in Attestations, registerFor(a)
      PROVE  Contract!Registry \/ RegistersUnchecked
  <2>1. CASE RegisterUnchecked(a)
    BY <1>4, <2>1 DEF RegistersUnchecked
  <2>2. CASE ~RegisterUnchecked(a)
    <3>1. Contract!registerFor(Message(a))
      BY <1>4, <2>2, RegistersAsTheContracts
    <3>2. Message(a) \in {Message(x) : x \in {y \in Attestations : Genuine(y)}}
      BY <2>2 DEF RegisterUnchecked
    <3> QED
      BY <1>2, <1>3, <3>1, <3>2 DEF Contract!Registry
  <2> QED
    BY <2>1, <2>2
<1>5. ASSUME NEW s \in Seedings, seedWorker(s[1], s[2])
      PROVE  Contract!Registry \/ SeedsUnchecked
  <2>1. CASE SeedUnchecked(s[1], s[2])
    BY <1>5, <2>1 DEF SeedsUnchecked
  <2>2. CASE ~SeedUnchecked(s[1], s[2])
    <3>1. s[1] \in Workers /\ s[2] \in Nullifiers /\ s \in Workers \X Nullifiers
      BY <2>2, FakeAssumption DEF SeedUnchecked, Holders, Humans
    <3>2. Contract!seedWorker(s[1], s[2])
      BY <1>5, <2>2, <3>1, SeedsAsTheContracts
    <3> QED
      BY <1>2, <1>3, <3>1, <3>2 DEF Contract!Registry
  <2> QED
    BY <2>1, <2>2
<1>6. ASSUME NEW n \in Resettable, resetWorker(n)
      PROVE  Contract!Registry \/ ResetsNobody \/ UNCHANGED Contract!vars
  <2>1. CASE n = NoHuman
    BY <1>6, <2>1 DEF ResetsNobody
  <2>2. CASE n \in Nullifiers /\ ~BoundToNobody(n)
    <3>1. Contract!resetWorker(n)
      BY <1>6, <2>2, ResetsAsTheContracts
    <3> QED
      BY <1>2, <1>3, <2>2, <3>1 DEF Contract!Registry
  <2>3. CASE n \in Nullifiers /\ BoundToNobody(n)
    <3>1. UNCHANGED Contract!registryVars
      BY <1>6, <2>3, ResetsNothing
    <3> QED
      BY <1>2, <1>3, <3>1 DEF Contract!vars
  <2> QED
    BY <2>1, <2>2, <2>3, FakeAssumption DEF Humans
<1> QED
  BY <1>4, <1>5, <1>6

\* A mark is told of once, where it is made.
LEMMA MarksAsTheContracts ==
    ASSUME FakeInv, NEW a \in AgentIds, NEW s \in SpecHashes, mark(a, s)
    PROVE  Contract!mark(a, s)
<1>1. PICK made : made = MarkedEvent(a, s)
  OBVIOUS
<1>2. /\ made.name = "Marked" /\ made.agentId = a /\ made.specHash = s /\ made \in Marks
  BY <1>1 DEF MarkedEvent, Marks
<1>3. log' = log \cup {made} /\ <<a, s>> \notin marks /\ UNCHANGED ruleVars
  BY <1>1 DEF mark, MarkedEvent
<1>4. made \notin log
  BY <1>2, <1>3 DEF FakeInv, MarkedOnce
<1>5. Marked(a)' = Marked(a) \cup {made} /\ \A x \in AgentIds \ {a} : Marked(x)' = Marked(x)
  BY <1>2, <1>3 DEF Marked
<1>6. \A x, codes : Judged(x, codes)' = Judged(x, codes)
  BY <1>2, <1>3 DEF Judged
<1>7. Cardinality(Marked(a)') = Cardinality(Marked(a)) + 1
  <2>1. IsFiniteSet(Marked(a)) /\ made \notin Marked(a)
    BY <1>4, ToldIsFinite DEF Marked, FakeInv, FakeTypeOK
  <2> QED
    BY <1>5, <2>1, FS_AddElement
<1> DEFINE told(x) == Cardinality(Judged(x, OutcomeCodes))
           standing(x) == Cardinality(Judged(x, {PAID, RESOLVED_TO_BUYER}))
                             - Cardinality(Judged(x, {RESOLVED_TO_WORKER}))
           count(x) == Cardinality(Marked(x))
<1>8. \A x : told(x) \in Int /\ standing(x) \in Int /\ count(x) \in Int
  BY ToldIsFinite DEF FakeInv, FakeTypeOK
<1>9. \A x : told(x)' = told(x) /\ standing(x)' = standing(x)
  BY <1>6
<1>10. \A x \in AgentIds : count(x)' = IF x = a THEN count(x) + 1 ELSE count(x)
  BY <1>5, <1>7
<1>11. /\ entriesMap = [x \in AgentIds |-> count(x) + told(x)]
       /\ entriesMap' = [x \in AgentIds |-> count(x)' + told(x)']
       /\ standingMap = [x \in AgentIds |-> standing(x) - count(x)]
       /\ standingMap' = [x \in AgentIds |-> standing(x)' - count(x)']
  BY DEF entriesMap, standingMap
<1> HIDE DEF told, standing, count
<1>12. entriesMap' = [entriesMap EXCEPT ![a] = entriesMap[a] + 1]
  <2>1. \A x \in AgentIds : count(x)' + told(x)' =
           IF x = a THEN (count(x) + told(x)) + 1 ELSE count(x) + told(x)
    BY <1>8, <1>9, <1>10
  <2> QED
    BY <1>11, <2>1
<1>13. standingMap' = [standingMap EXCEPT ![a] = standingMap[a] + (-1)]
  <2>1. \A x \in AgentIds : standing(x)' - count(x)' =
           IF x = a THEN (standing(x) - count(x)) + (-1) ELSE standing(x) - count(x)
    BY <1>8, <1>9, <1>10
  <2> QED
    BY <1>11, <2>1
<1>14. Contract!giveFeedback(a, -1)
  BY <1>12, <1>13 DEF Contract!giveFeedback
<1>15. ~Contract!AlreadyMarked(a, s) /\ ~Contract!CoolingDown(a)
  BY DEF mark, markRefusal, Accepted, Contract!AlreadyMarked, Contract!CoolingDown
<1>16. /\ marks' = marks \cup {<<a, s>>} /\ lastMarks' = [lastMarks EXCEPT ![a] = clock]
       /\ markCounts' = [markCounts EXCEPT ![a] = @ + 1] /\ UNCHANGED cooldownSeconds
  BY DEF mark, ruleVars
<1> QED
  BY <1>14, <1>15, <1>16 DEF Contract!mark

LEMMA MarkCallsAsTheContracts ==
    ASSUME FakeInv, NEW a \in AgentIds, NEW s \in SpecHashes, mark(a, s)
    PROVE  Contract!Mark
<1>1. /\ UNCHANGED taskVars /\ UNCHANGED peopleVars /\ UNCHANGED ruleVars
      /\ UNCHANGED reputation
  BY DEF mark
<1>2. UNCHANGED Contract!reputationVars
  BY <1>1 DEF Contract!reputationVars, scoreMap, completedMap, ratersMap, slotMap
<1>3. UNCHANGED verdictMap
  <2>1. log' = log \cup {MarkedEvent(a, s)} /\ MarkedEvent(a, s).name # "Feedback"
    BY DEF mark, MarkedEvent
  <2>2. \A u : Verdicts(u)' = Verdicts(u)
    BY <2>1 DEF Verdicts
  <2>3. /\ verdictMap = [u \in TaskIds |-> SaidBy(Verdicts(u))]
        /\ verdictMap' = [u \in TaskIds |-> SaidBy(Verdicts(u)')]
    BY Zenon DEF verdictMap, SaidBy
  <2> QED
    BY <2>2, <2>3
<1>4. UNCHANGED Contract!registryVars /\ UNCHANGED clock /\ UNCHANGED Contract!taskVars
  BY <1>1, <1>3, RestStays, TaskVarsStay DEF Contract!taskVars
<1> QED
  BY <1>2, <1>4, MarksAsTheContracts DEF Contract!Mark

\* The owner's switches, and time.
LEMMA RuleCallsAsTheContracts ==
    ASSUME FakeInv
    PROVE  /\ \A p \in BOOLEAN : setPaused(p) => Contract!setPaused(p)
           /\ \A b \in Allowlistable, allowed \in BOOLEAN :
                 setAllowlistedBuyer(b, allowed) =>
                    IF b = NoAddress THEN UNCHANGED Contract!vars
                    ELSE Contract!setAllowlistedBuyer(b, allowed)
           /\ \A c \in Cooldowns : setMarkCooldown(c) => Contract!Mark
           /\ warp => Contract!Tick
<1>1. ASSUME UNCHANGED taskVars, UNCHANGED peopleVars, UNCHANGED markVars, UNCHANGED recordVars
      PROVE  /\ UNCHANGED <<stateMap, workerMap, claimedAtMap, submittedAtMap, termsMap,
                            taskCounter, openTasksMap, activeClaimMap, cooldownMap, usdcMap>>
             /\ UNCHANGED Contract!registryVars /\ UNCHANGED Contract!reputationVars
             /\ UNCHANGED <<marks, lastMarks, markCounts, entriesMap, standingMap>>
             /\ UNCHANGED verdictMap
  <2>1. UNCHANGED <<scoreMap, completedMap, ratersMap, slotMap, verdictMap, entriesMap,
                    standingMap>>
    BY <1>1, RecordsStay
  <2>2. UNCHANGED <<marks, lastMarks, markCounts>>
    BY <1>1 DEF markVars
  <2>3. UNCHANGED Contract!registryVars
    BY <1>1, PeopleStay DEF Contract!registryVars
  <2>4. UNCHANGED Contract!reputationVars
    BY <2>1 DEF Contract!reputationVars
  <2> QED
    BY <1>1, <2>1, <2>2, <2>3, <2>4, TaskVarsStay
<1>2. ASSUME NEW p \in BOOLEAN, setPaused(p) PROVE Contract!setPaused(p)
  <2>1. allowlistedMap' = allowlistedMap
    BY <1>2 DEF setPaused, allowlistedMap
  <2> QED
    BY <1>1, <1>2, <2>1 DEF setPaused, Contract!setPaused, Contract!abuseMarkVars
<1>3. ASSUME NEW b \in Allowlistable, NEW allowed \in BOOLEAN, setAllowlistedBuyer(b, allowed)
      PROVE  IF b = NoAddress THEN UNCHANGED Contract!vars
             ELSE Contract!setAllowlistedBuyer(b, allowed)
  <2>1. \A x \in Buyers : (x \in allowlist') = (IF x = b THEN allowed ELSE x \in allowlist)
    BY <1>3 DEF setAllowlistedBuyer
  <2>2. allowlistedMap' = [x \in Buyers |-> IF x = b THEN allowed ELSE x \in allowlist]
    BY <2>1, Zenon DEF allowlistedMap
  <2>3. [x \in Buyers |-> IF x = b THEN allowed ELSE x \in allowlist]
           = [[x \in Buyers |-> x \in allowlist] EXCEPT ![b] = allowed]
    BY Zenon
  <2>4. allowlistedMap' = [allowlistedMap EXCEPT ![b] = allowed]
    BY <2>2, <2>3, Zenon DEF allowlistedMap
  <2>5. UNCHANGED taskVars /\ UNCHANGED peopleVars /\ UNCHANGED markVars /\ UNCHANGED recordVars
        /\ UNCHANGED <<clock, isPaused, cooldownSeconds>>
    BY <1>3 DEF setAllowlistedBuyer
  <2>6. CASE b = NoAddress
    <3>1. NoAddress \notin Buyers
      BY FakeAssumption DEF Accounts
    <3>2. allowlistedMap' = allowlistedMap
      BY <2>4, <2>6, <3>1 DEF allowlistedMap
    <3> QED
      BY <1>1, <2>5, <2>6, <3>2 DEF Contract!vars, Contract!taskVars, Contract!abuseMarkVars
  <2>7. CASE b # NoAddress
    BY <1>1, <2>4, <2>5, <2>7 DEF Contract!setAllowlistedBuyer, Contract!abuseMarkVars
  <2> QED
    BY <2>6, <2>7
<1>4. ASSUME NEW c \in Cooldowns, setMarkCooldown(c) PROVE Contract!Mark
  <2>1. allowlistedMap' = allowlistedMap
    BY <1>4 DEF setMarkCooldown, allowlistedMap
  <2>2. Contract!setMarkCooldown(c)
    BY <1>1, <1>4 DEF setMarkCooldown, Contract!setMarkCooldown
  <2>3. UNCHANGED Contract!taskVars /\ UNCHANGED clock
    BY <1>1, <1>4, <2>1 DEF setMarkCooldown, Contract!taskVars
  <2> QED
    BY <1>1, <1>4, <2>2, <2>3 DEF setMarkCooldown, Contract!Mark
<1>5. ASSUME warp PROVE Contract!Tick
  <2>1. allowlistedMap' = allowlistedMap
    BY <1>5 DEF warp, allowlistedMap
  <2>2. UNCHANGED Contract!taskVars /\ UNCHANGED Contract!abuseMarkVars
    BY <1>1, <1>5, <2>1 DEF warp, Contract!taskVars, Contract!abuseMarkVars
  <2> QED
    BY <1>1, <1>5, <2>2 DEF warp, Contract!Tick, Contract!ClockTick
<1> QED
  BY <1>2, <1>3, <1>4, <1>5

-----------------------------------------------------------------------------
(******************************* The refinement ****************************)

\* A write of a task the contracts can have, by a worker, is the contracts' own.
LEMMA OnTaskAsTheContracts ==
    ASSUME FakeInv, NEW t \in TaskIds, OnTask(t), ~OfNobody(t), ~claimBy(t, NoAddress)
    PROVE  Contract!Next
<1>1. TaskIds = Contract!TaskIds
  BY DEF TaskIds, Contract!TaskIds
<1>2. ASSUME NEW w \in Holders, claimBy(t, w) \/ releaseClaimBy(t, w) \/ submitBy(t, w)
      PROVE  Contract!Next
  <2>1. w \in Workers
    <3>1. CASE claimBy(t, w)
      BY <3>1 DEF Holders
    <3>2. CASE releaseClaimBy(t, w) \/ submitBy(t, w)
      <4>1. t \in DOMAIN tasks /\ tasks[t].state = "Claimed" /\ tasks[t].worker = w
        BY <3>2, ReleaseClaimKeeps, SubmitKeeps
      <4> QED
        BY <4>1, Somebodys
    <3> QED
      BY <1>2, <3>1, <3>2
  <2>2. \/ Contract!claimOpen(t, w) \/ Contract!claimStale(t, w)
        \/ Contract!releaseClaim(t, w) \/ Contract!submit(t, w)
    BY <1>2, <2>1, ClaimsAsTheContracts, HandsBackAsTheContracts, SubmitsAsTheContracts
  <2> QED
    BY <1>1, <2>1, <2>2 DEF Contract!Next
<1>3. ASSUME dispute(t) \/ approve(t) \/ autoRelease(t) \/ expire(t)
      PROVE  Contract!Next
  <2>1. \/ Contract!dispute(t) \/ Contract!approve(t) \/ Contract!autoRelease(t)
        \/ Contract!expire(t)
    BY <1>3, DisputesAsTheContracts, ApprovesAsTheContracts, ExpiresAsTheContracts
  <2> QED
    BY <1>1, <2>1 DEF Contract!Next
<1>4. ASSUME NEW toBuyer \in BOOLEAN, resolve(t, toBuyer)
      PROVE  Contract!Next
  BY <1>1, <1>4, ResolvesAsTheContracts DEF Contract!Next
<1> QED
  BY <1>2, <1>3, <1>4 DEF OnTask

\* What the contracts refuse.
Unchecked ==
    \/ WritesForNobody \/ PostsUnchecked \/ SeedsUnchecked \/ RegistersUnchecked
    \/ ResetsNobody

\* Each step of the fake is a step of the contracts, or one of the writes the
\* contracts would refuse, or changes nothing the contracts could read.
LEMMA StepsAsTheContracts ==
    ASSUME FakeInv, Next
    PROVE  Contract!Next \/ Unchecked \/ UNCHANGED Contract!vars
<1>1. ASSUME NEW p \in PostParams, NEW payer \in {Relayer, p.buyer}, postFrom(p, payer)
      PROVE  Contract!Next \/ PostsUnchecked
  <2>1. CASE PostUnchecked(p)
    BY <1>1, <2>1 DEF PostsUnchecked
  <2>2. CASE ~PostUnchecked(p)
    <3>1. p \in {x \in PostParams : x.buyer # NoAddress}
      BY <2>2 DEF PostUnchecked
    <3> QED
      BY <1>1, <2>2, <3>1, PostsAsTheContracts DEF Contract!Next
  <2> QED
    BY <2>1, <2>2
<1>2. ASSUME NEW t \in TaskIds, OnTask(t)
      PROVE  Contract!Next \/ WritesForNobody
  BY <1>2, OnTaskAsTheContracts DEF WritesForNobody
<1>3. ASSUME NEW p \in BOOLEAN, setPaused(p)
      PROVE  Contract!Next
  BY <1>3, RuleCallsAsTheContracts DEF Contract!Next
<1>4. ASSUME NEW b \in Allowlistable, NEW allowed \in BOOLEAN, setAllowlistedBuyer(b, allowed)
      PROVE  Contract!Next \/ UNCHANGED Contract!vars
  <2>1. CASE b = NoAddress
    BY <1>4, <2>1, RuleCallsAsTheContracts
  <2>2. CASE b # NoAddress
    <3>1. b \in Allowlistable \cap Buyers
      BY <2>2, FakeAssumption DEF Posters
    <3> QED
      BY <1>4, <2>2, <3>1, RuleCallsAsTheContracts DEF Contract!Next
  <2> QED
    BY <2>1, <2>2
<1>5. CASE \/ \E a \in Attestations : registerFor(a)
           \/ \E s \in Seedings : seedWorker(s[1], s[2])
           \/ \E n \in Resettable : resetWorker(n)
  <2>1. \/ Contract!Registry \/ SeedsUnchecked \/ RegistersUnchecked \/ ResetsNobody
        \/ UNCHANGED Contract!vars
    BY <1>5, PeopleCallsAsTheContracts
  <2> QED
    BY <2>1, Zenon DEF Contract!Next, Unchecked
<1>6. ASSUME NEW a \in AgentIds, NEW s \in SpecHashes, mark(a, s)
      PROVE  Contract!Next
  BY <1>6, MarkCallsAsTheContracts DEF Contract!Next
<1>7. ASSUME NEW c \in Cooldowns, setMarkCooldown(c)
      PROVE  Contract!Next
  BY <1>7, RuleCallsAsTheContracts DEF Contract!Next
<1>8. ASSUME warp
      PROVE  Contract!Next
  BY <1>8, RuleCallsAsTheContracts DEF Contract!Next
<1> QED
  BY <1>1, <1>2, <1>3, <1>4, <1>5, <1>6, <1>7, <1>8, Zenon DEF Next, Unchecked

LEMMA StutterAsTheContracts ==
    ASSUME UNCHANGED vars
    PROVE  UNCHANGED Contract!vars
<1>1. /\ UNCHANGED taskVars /\ UNCHANGED peopleVars /\ UNCHANGED ruleVars
      /\ UNCHANGED markVars /\ UNCHANGED recordVars
  BY DEF vars
<1>2. /\ UNCHANGED Contract!registryVars /\ UNCHANGED clock /\ UNCHANGED allowlistedMap
      /\ UNCHANGED isPaused
  BY <1>1, RestStays
<1>3. /\ UNCHANGED Contract!reputationVars /\ UNCHANGED Contract!abuseMarkVars
      /\ UNCHANGED verdictMap
  BY <1>1, RecordVarsStay
<1>4. UNCHANGED Contract!taskVars
  BY <1>1, <1>2, <1>3, TaskVarsStay DEF Contract!taskVars
<1> QED
  BY <1>2, <1>3, <1>4 DEF Contract!vars

\* "The escrow state machine, in memory, with the same rules" (fake.ts:70):
\* for any accounts, tasks, windows, rates and clock, and any sequence of
\* calls, each step of the fake is one the contracts would take on the same
\* task, worker, money and records, but for the writes the contracts refuse:
\* posts for buyer 0 or out of range, seeds over a binding or of 0, attestations
\* of 0, unsigned or spent, a reset of nullifier 0, and what is then done with
\* a task that is buyer 0's or worker 0's.
THEOREM FakeIsTheContracts == Spec => DoesWhatContractsDo
<1>1. Init => Contract!Init
  BY StartsAsTheContracts
<1>2. FakeInv /\ [Next]_vars
         => [WritesForNobody \/ Contract!Next \/ PostsUnchecked \/ SeedsUnchecked
                \/ RegistersUnchecked \/ ResetsNobody]_(Contract!vars)
  BY StepsAsTheContracts, StutterAsTheContracts DEF Unchecked
<1> QED
  BY <1>1, <1>2, FakeInvariant, PTL DEF Spec, DoesWhatContractsDo
=============================================================================
