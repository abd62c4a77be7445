------------------------------ MODULE Subgraph ------------------------------
(***************************************************************************)
(* The index of the four contracts (subgraph/src), composed with them.     *)
(* graph-node hands every event to its handler once, in log order, so the  *)
(* index after a block is a function of the transactions up to it: each    *)
(* action below is a transaction together with the handlers of its events. *)
(* Entities keep the fields a rule of the handlers or a reader depends on; *)
(* a row that was never stored reads as the one getOrCreate would make.    *)
(***************************************************************************)
EXTENDS TaskEscrow

VARIABLES
    board,      \* Task: id -> [state, worker, seeded]
    people,     \* Worker: address -> [nullifier, seeded, reset, completed, score, distinctRaters]
    slot,       \* Feedback: address -> rater -> the last outcome
    posters,    \* Buyer: address -> [allowlisted, taskCount, countedExternal]
    stats,      \* PosterStats
    entries     \* agent -> how many Mark and Outcome rows it has

indexVars == <<board, people, slot, posters, stats, entries>>
indexedVars == <<vars, indexVars>>

NewTask == [state |-> "None", worker |-> NoAddress, seeded |-> FALSE]
getOrCreateWorker ==
    [nullifier |-> NoHuman, seeded |-> FALSE, reset |-> FALSE, completed |-> 0,
     score |-> 0, distinctRaters |-> 0]
getOrCreateBuyer == [allowlisted |-> FALSE, taskCount |-> 0, countedExternal |-> FALSE]
getPosterStats == [distinctExternalBuyers |-> 0, externalTasks |-> 0]

IndexInit ==
    /\ board = [t \in TaskIds |-> NewTask]
    /\ people = [w \in Workers |-> getOrCreateWorker]
    /\ slot = [w \in Workers |-> [r \in Raters |-> NoOutcome]]
    /\ posters = [b \in Buyers |-> getOrCreateBuyer]
    /\ stats = getPosterStats
    /\ entries = [a \in AgentIds |-> [marks |-> 0, outcomes |-> 0]]

-----------------------------------------------------------------------------
(************************* handlers of task-escrow.ts **********************)

Increment(n, if) == IF if THEN n + 1 ELSE n

\* Only demand from buyers the operator has not allowlisted is counted.
handleTaskPosted(t, b) ==
    LET external == ~posters[b].allowlisted
    IN  /\ board' = [board EXCEPT ![t] = [NewTask EXCEPT !.state = "Open"]]
        /\ posters' = [posters EXCEPT ![b].taskCount = @ + 1,
                                      ![b].countedExternal = @ \/ external]
        /\ stats' = [externalTasks |-> Increment(stats.externalTasks, external),
                     distinctExternalBuyers |->
                        Increment(stats.distinctExternalBuyers,
                                  external /\ ~posters[b].countedExternal)]
        /\ UNCHANGED <<people, slot, entries>>

\* Also what is left of a task when handleClaimExpired comes first: the claim
\* overwrites all of it.
handleTaskClaimed(t, w) ==
    /\ board' = [board EXCEPT ![t] =
                    [state |-> "Claimed", worker |-> w, seeded |-> people[w].seeded]]
    /\ UNCHANGED <<people, slot, posters, stats, entries>>

\* Mutant: the worker and the chip stay on the task.
unclaimStateOnly(t) ==
    /\ board' = [board EXCEPT ![t].state = "Open"]
    /\ UNCHANGED <<people, slot, posters, stats, entries>>

unclaim(t) ==
    /\ board' = [board EXCEPT ![t] = [NewTask EXCEPT !.state = "Open"]]
    /\ UNCHANGED <<people, slot, posters, stats, entries>>

\* Submitted, disputed and refunded move the state alone.
Moved(t, s) ==
    /\ board' = [board EXCEPT ![t].state = s]
    /\ UNCHANGED <<people, slot, posters, stats, entries>>

handleBuyerAllowlisted(b, allowed) ==
    /\ posters' = [posters EXCEPT ![b].allowlisted = allowed]
    /\ UNCHANGED <<board, people, slot, stats, entries>>

-----------------------------------------------------------------------------
(*************** handlers of reputation.ts and abuse-mark.ts ***************)

\* Mutant: a repeat accumulates.
ScoredTwice(row, old, o) == row.score + slotValue(o)

\* The slot's old value is backed out, if there is a slot.
Scored(row, old, o) == row.score + scoreDelta(old, o)

\* A settlement logs TaskReleased or TaskResolved first (a completion for who
\* was paid), then Feedback for the worker and Outcome for the agent.  Whether
\* the voice is new is what the contract says, by nullifier.
Settled(t, final, o) ==
    LET w == board[t].worker
        r == raterKey(t)
        agent == terms[t].buyerAgentId
        newRater == slotOf[nullifierOf(w)][r] = NoOutcome
    IN  /\ board' = [board EXCEPT ![t].state = final]
        /\ people' = [people EXCEPT ![w] =
              [people[w] EXCEPT !.completed = Increment(@, o # RESOLVED_TO_BUYER),
                                !.score = Scored(people[w], slot[w][r], o),
                                !.distinctRaters = Increment(@, newRater)]]
        /\ slot' = [slot EXCEPT ![w][r] = o]
        /\ entries' = IF agent = NoAgent THEN entries
                      ELSE [entries EXCEPT ![agent].outcomes = @ + 1]
        /\ UNCHANGED <<posters, stats>>

handleMarked(a) ==
    /\ entries' = [entries EXCEPT ![a].marks = @ + 1]
    /\ UNCHANGED <<board, people, slot, posters, stats>>

-----------------------------------------------------------------------------
(*********************** handlers of worker-registry.ts ********************)

\* Everything starts over but `seeded`, and the Feedback rows stay.
handleWorkerRegistered(w, n) ==
    /\ people' = [people EXCEPT ![w] =
                     [getOrCreateWorker EXCEPT !.nullifier = n, !.seeded = people[w].seeded]]
    /\ UNCHANGED <<board, slot, posters, stats, entries>>

handleWorkerSeeded(w, n) ==
    /\ people' = [people EXCEPT ![w].nullifier = n, ![w].seeded = TRUE]
    /\ UNCHANGED <<board, slot, posters, stats, entries>>

\* The row stays: readers leave it out by the flag.
handleWorkerReset(w) ==
    /\ people' = [people EXCEPT ![w].reset = TRUE]
    /\ UNCHANGED <<board, slot, posters, stats, entries>>

-----------------------------------------------------------------------------
IndexedTask(t) ==
    \/ \E w \in Workers :
          \/ (claimOpen(t, w) \/ claimStale(t, w)) /\ handleTaskClaimed(t, w)
          \/ releaseClaim(t, w) /\ unclaim(t)
          \/ submit(t, w) /\ Moved(t, "Submitted")
    \/ dispute(t) /\ Moved(t, "Disputed")
    \/ expire(t) /\ Moved(t, "Refunded")
    \/ (approve(t) \/ autoRelease(t)) /\ Settled(t, "Released", PAID)
    \/ resolve(t, TRUE) /\ Settled(t, "Resolved", RESOLVED_TO_BUYER)
    \/ resolve(t, FALSE) /\ Settled(t, "Resolved", RESOLVED_TO_WORKER)

IndexedRegistry ==
    /\ \/ \E a \in Attestations :
             registerFor(a) /\ handleWorkerRegistered(a.worker, a.nullifier)
       \/ \E s \in Seedings : seedWorker(s[1], s[2]) /\ handleWorkerSeeded(s[1], s[2])
       \/ \E n \in Resettable : resetWorker(n) /\ handleWorkerReset(workerOf[n])
    /\ UNCHANGED <<now, reputationVars, abuseMarkVars, taskVars>>

IndexedMark ==
    /\ \/ \E a \in AgentIds, s \in SpecHashes : mark(a, s) /\ handleMarked(a)
       \/ \E c \in Cooldowns : setMarkCooldown(c) /\ UNCHANGED indexVars
    /\ UNCHANGED <<now, registryVars, reputationVars, taskVars>>

\* Pause is left out: it emits nothing the index reads, and only forbids
\* transactions.
IndexedNext ==
    \/ \E p \in PostParams : \E payer \in {Relayer, p.buyer} :
          post(payer, p) /\ handleTaskPosted(taskCount + 1, p.buyer)
    \/ \E t \in TaskIds : IndexedTask(t)
    \/ \E b \in Allowlistable, allowed \in BOOLEAN :
          setAllowlistedBuyer(b, allowed) /\ handleBuyerAllowlisted(b, allowed)
    \/ IndexedRegistry \/ IndexedMark
    \/ Tick /\ UNCHANGED indexVars

IndexedSpec == Init /\ IndexInit /\ [][IndexedNext]_indexedVars

-----------------------------------------------------------------------------
\* The board the dashboard and the MCP tools read says what the escrow says,
\* through displaced claims, hand-backs and refunds, and "the seeded chip can
\* never outlive" the claim it was copied at (task-escrow.ts:92).
BoardAgrees ==
    \A t \in TaskIds :
        /\ board[t].state = state[t] /\ board[t].worker = worker[t]
        /\ state[t] = "Open" => ~board[t].seeded

\* A binding of v to n is about the worker or about the human behind it.
Concerns(w, v, n) == v = w \/ n = nullifierOf(w)

\* Neither the worker's address nor the human behind it was ever bound to
\* anyone before: the binding that holds is the only one that concerns either.
FirstTime(w) ==
    /\ isWorker(w) /\ ~people[w].reset
    /\ \A s \in Seedings :
          Concerns(w, s[1], s[2]) => isSeeded(w) /\ s = <<w, nullifierOf(w)>>
    /\ \A a, b \in usedDigest :
          Concerns(w, a.worker, a.nullifier) /\ Concerns(w, b.worker, b.nullifier)
             => ~isSeeded(w) /\ a = b

\* "That is what keeps Worker.completed equal to the on-chain
\* completed(nullifier)" (task-escrow.ts:158): the index counts by address and
\* by its own slots, the contract by human; for who was never reset they give
\* one record, whatever the raters repeat or flip.  (A reset breaks it: the
\* score starts over and the Feedback rows it is adjusted by do not.)  An agent
\* has a row for every entry the contracts gave it.
RecordsAgree ==
    /\ \A w \in Workers : FirstTime(w) =>
          LET n == nullifierOf(w)
          IN  /\ people[w].nullifier = n
              /\ people[w].completed = completed[n]
              /\ people[w].score = score[n]
              /\ people[w].distinctRaters = distinctRaters[n]
    /\ \A a \in AgentIds :
          /\ entries[a].marks = marksOf[a]
          /\ entries[a].marks + entries[a].outcomes = entriesOf[a]
==============================================================================
