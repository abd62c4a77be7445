-------------------------------- MODULE Mirror --------------------------------
(***************************************************************************)
(* One task twice: the escrow's record, and the row the API keeps of it.   *)
(* Routes, sweeps and status reads run at once; each asks the row, sends   *)
(* through the transaction queue, and then either reads the chain back     *)
(* over the row (services/lifecycle.ts, reconcile.ts, sweeper.ts) or, for  *)
(* the buyer's and operator's verbs, writes the state its transaction was  *)
(* sent for (services/statusBus.ts).  Others use the contract directly.    *)
(***************************************************************************)
EXTENDS BlockTime

CONSTANTS
    Workers, NoAddress,
    Slots,              \* requests served at the same time
    Sweeper,            \* the slot that only sweeps
    claimTTL, submitTTL, disputeWindow,
    LastEntry           \* model bound: no claim after this time

ASSUME MirrorAssumption ==
    /\ Sweeper \in Slots /\ NoAddress \notin Workers
    /\ claimTTL \in Nat /\ submitTTL \in Nat /\ disputeWindow \in Nat

VARIABLES
    task,           \* TaskEscrow's record, the fields the row mirrors
    row,            \* the same columns of the tasks row
    invocation,     \* slot -> the request it serves
    mistaken        \* history: a route wrote the settlement a reverted call did not make

vars == <<now, task, row, invocation, mistaken>>

States == {"Open", "Claimed", "Submitted", "Disputed", "Released", "Refunded", "Resolved"}
Final == {"Released", "Refunded", "Resolved"}
Clock == 0 .. MaxTime + 1

Records ==
    [state : States, worker : Workers \cup {NoAddress}, claimedAt : Clock,
     submittedAt : Clock]

\* The task was posted one unit before the first step.  Its row is stamped by
\* the API's clock, when the post had been mined, and never mirrored.
postedAt == 0
rowPostedAt == 1
Posted == [state |-> "Open", worker |-> NoAddress, claimedAt |-> 0, submittedAt |-> 0]

\* The verbs that write a state instead of reading the chain back.
TransitionVerbs == {"approve", "dispute", "refund", "resolve"}
WorkerVerbs == {"claim", "release-claim", "submit"}
Verbs == TransitionVerbs \cup WorkerVerbs \cup {"sweep"}

StateAfter ==
    [claimFor |-> "Claimed", releaseClaimFor |-> "Open", submitFor |-> "Submitted",
     dispute |-> "Disputed", approve |-> "Released", autoRelease |-> "Released",
     resolve |-> "Resolved", expire |-> "Refunded"]

Calls == DOMAIN StateAfter

Invocations ==
    [verb : Verbs \cup {"none"}, caller : Workers \cup {NoAddress},
     at : {"idle", "pull", "patch", "send", "sent", "mined", "mirror"},
     seen : Records, call : Calls \cup {"none"}, reverted : BOOLEAN]

Idle ==
    [verb |-> "none", at |-> "idle", caller |-> NoAddress,
     seen |-> Posted, call |-> "none", reverted |-> FALSE]

Init ==
    /\ ClockInit
    /\ task = Posted /\ row = Posted
    /\ invocation = [s \in Slots |-> Idle]
    /\ mistaken = FALSE

-----------------------------------------------------------------------------
(************************ The escrow, seen from one task *******************)

\* isClaimable: a claim that outlived its TTL is open to others.
Claimable ==
    \/ task.state = "Open"
    \/ task.state = "Claimed" /\ now > task.claimedAt + claimTTL

Claimant(w) == task.state = "Claimed" /\ task.worker = w

CanSubmit(w) == Claimant(w) /\ now =< task.claimedAt + submitTTL

\* What the contract does not revert.
Accepts(call, w) ==
    \/ call = "claimFor" /\ w \in Workers /\ now =< LastEntry /\ Claimable /\ ~Claimant(w)
    \/ call = "releaseClaimFor" /\ Claimant(w)
    \/ call = "submitFor" /\ CanSubmit(w)
    \/ call = "dispute" /\ task.state = "Submitted" /\ now < task.submittedAt + disputeWindow
    \/ call = "approve" /\ task.state = "Submitted"
    \/ call = "autoRelease" /\ task.state = "Submitted" /\ now >= task.submittedAt + disputeWindow
    \/ call = "resolve" /\ task.state = "Disputed"
    \/ call = "expire" /\ task.state = "Open" /\ now > postedAt + claimTTL
    \/ call = "expire" /\ task.state = "Claimed" /\ now > task.claimedAt + submitTTL

\* Mutant: giving a claim back deletes the record.
Deleted(call, w) ==
    [task EXCEPT !.state = IF call = "releaseClaimFor" THEN "None" ELSE StateAfter[call],
                 !.worker = IF call = "claimFor" THEN w ELSE @]

After(call, w) ==
    [state |-> StateAfter[call],
     worker |-> CASE call = "claimFor" -> w
                  [] call = "releaseClaimFor" -> NoAddress
                  [] OTHER -> task.worker,
     claimedAt |-> CASE call = "claimFor" -> now
                     [] call = "releaseClaimFor" -> 0
                     [] OTHER -> task.claimedAt,
     submittedAt |-> IF call = "submitFor" THEN now ELSE task.submittedAt]

\* Workers, buyers and the owner may also call the contract themselves.
Outside(call, w) ==
    /\ Accepts(call, w)
    /\ task' = After(call, w)
    /\ UNCHANGED <<now, row, invocation, mistaken>>

-----------------------------------------------------------------------------
(***************************** What a row allows ***************************)

\* Mutant: the sweep sees no listing expire.
ForgetsListings(r, clock) == r.state = "Claimed" /\ clock > r.claimedAt + submitTTL

Expires(r, clock) ==
    \/ r.state = "Open" /\ clock > rowPostedAt + claimTTL
    \/ r.state = "Claimed" /\ r.claimedAt # 0 /\ clock > r.claimedAt + submitTTL

AutoReleases(r, clock) ==
    r.state = "Submitted" /\ r.submittedAt # 0 /\ clock >= r.submittedAt + disputeWindow

eligibleAction(r, clock) ==
    CASE Expires(r, clock) -> "expire"
      [] AutoReleases(r, clock) -> "autoRelease"
      [] OTHER -> "none"

Eligible(r, clock) == eligibleAction(r, clock) # "none"

-----------------------------------------------------------------------------
(******************************** Requests *********************************)

\* Everything a request sets at a step; what it no longer needs is forgotten.
Becomes(s, i) == invocation' = [invocation EXCEPT ![s] = i]

\* To the transaction queue, with the call the verb stands for.
Calling(verb, call, w) ==
    [Idle EXCEPT !.verb = verb, !.at = "send", !.call = call, !.caller = w]

\* Mirror the task, then settle it if it is due.
Sweeping == [Idle EXCEPT !.verb = "sweep", !.at = "pull"]

\* Requests that ask the chain before they send: the row does not matter.
claim(s, w) == Claimable /\ ~Claimant(w) /\ Becomes(s, Calling("claim", "claimFor", w))
submit(s, w) == CanSubmit(w) /\ Becomes(s, Calling("submit", "submitFor", w))

\* Requests that ask the row.
releaseClaim(s, w) ==
    /\ row.state = "Claimed" /\ row.worker = w
    /\ Becomes(s, Calling("release-claim", "releaseClaimFor", w))

approve(s) ==
    row.state = "Submitted" /\ Becomes(s, Calling("approve", "approve", NoAddress))

resolve(s) ==
    row.state = "Disputed" /\ Becomes(s, Calling("resolve", "resolve", NoAddress))

\* Two routes compare with the server's own clock, at most one unit ahead.
dispute(s, wall) ==
    /\ row.state = "Submitted" /\ row.submittedAt # 0
    /\ wall < row.submittedAt + disputeWindow
    /\ Becomes(s, Calling("dispute", "dispute", NoAddress))

refund(s, wall) ==
    Expires(row, wall) /\ Becomes(s, Calling("refund", "expire", NoAddress))

\* GET /tasks/:id settles what the row says is due.
status(s, wall) == Eligible(row, wall) /\ Becomes(s, Sweeping)

\* Mutant: a sweep that trusts the row to say what is due.
sweepDue(s) == Eligible(row, now) /\ Becomes(s, Sweeping)

\* reconcileOpen's query: every row that is not final.
sweep(s) == row.state \notin Final /\ Becomes(s, Sweeping)

Request(s) ==
    /\ invocation[s].at = "idle"
    /\ \/ sweep(s)
       \/ /\ s # Sweeper
          /\ \/ \E w \in Workers : claim(s, w) \/ submit(s, w) \/ releaseClaim(s, w)
             \/ approve(s) \/ resolve(s)
             \/ \E wall \in {now, now + 1} : dispute(s, wall) \/ refund(s, wall) \/ status(s, wall)
    /\ UNCHANGED <<now, task, row, mistaken>>

-----------------------------------------------------------------------------
(************************* Mirroring, before a sweep ***********************)

\* getTask, the clock, and what they say is due: the row is about to become
\* what was read.  A sweep asks for the clock before it asks for the rows: an
\* earlier clock finds nothing due that this one does not, and what it leaves
\* for the next sweep is a request that ends here.
Pull(s) ==
    /\ invocation[s].at = "pull"
    /\ Becomes(s, [invocation[s] EXCEPT !.at = "patch", !.seen = task,
                     !.call = eligibleAction(task, now)])
    /\ UNCHANGED <<now, task, row, mistaken>>

\* mirrorFromChain, then the settlement the mirrored row is due, if any.
Patch(s) ==
    LET i == invocation[s]
    IN  /\ i.at = "patch"
        /\ row' = i.seen
        /\ Becomes(s, IF i.call = "none" THEN Idle ELSE Calling("sweep", i.call, NoAddress))
        /\ UNCHANGED <<now, task, mistaken>>

-----------------------------------------------------------------------------
(************************** Sending and afterwards *************************)

\* The queue estimates against the last block before it sends.
Send(s) ==
    LET i == invocation[s]
    IN  /\ i.at = "send"
        /\ Accepts(i.call, i.caller)
        /\ Becomes(s, [i EXCEPT !.at = "sent"])
        /\ UNCHANGED <<now, task, row, mistaken>>

\* A revert at the estimate is somebody else winning: the request is over.
Refused(s) ==
    LET i == invocation[s]
    IN  /\ i.at = "send"
        /\ ~Accepts(i.call, i.caller)
        /\ Becomes(s, Idle)
        /\ UNCHANGED <<now, task, row, mistaken>>

\* A block takes the transaction.  It may have lost its race since the
\* estimate; either way there is a receipt.
Execute(s) ==
    LET i == invocation[s]
        accepted == Accepts(i.call, i.caller)
    IN  /\ i.at = "sent"
        /\ task' = IF accepted THEN After(i.call, i.caller) ELSE task
        /\ Becomes(s, [i EXCEPT !.at = "mined", !.reverted = ~accepted])
        /\ UNCHANGED <<now, row, mistaken>>

\* applyTransition: a hash came back, so the state is written.
Transition(s) ==
    LET i == invocation[s]
    IN  /\ i.at = "mined" /\ i.verb \in TransitionVerbs
        /\ row' = [row EXCEPT !.state = StateAfter[i.call]]
        /\ mistaken' = (mistaken \/ (i.reverted /\ StateAfter[i.call] \in Final))
        /\ Becomes(s, Idle)
        /\ UNCHANGED <<now, task>>

\* Mutant: the state is guessed from the call.
ReadBackGuessed(s) ==
    /\ invocation[s].at = "mined" /\ invocation[s].verb \notin TransitionVerbs
    /\ Becomes(s, [invocation[s] EXCEPT !.at = "mirror",
                     !.seen = [task EXCEPT !.state = StateAfter[invocation[s].call]]])
    /\ UNCHANGED <<now, task, row, mistaken>>

ReadBack(s) ==
    /\ invocation[s].at = "mined" /\ invocation[s].verb \notin TransitionVerbs
    /\ Becomes(s, [invocation[s] EXCEPT !.at = "mirror", !.seen = task,
                     !.reverted = FALSE])
    /\ UNCHANGED <<now, task, row, mistaken>>

\* mirrorFromChain once more.  A proof that was used before, or was taken too
\* far away, is submitted and then disputed.
MirrorBack(s) ==
    LET i == invocation[s]
    IN  /\ i.at = "mirror"
        /\ row' = i.seen
        /\ \/ Becomes(s, Idle)
           \/ i.call = "submitFor" /\ Becomes(s, Calling("submit", "dispute", NoAddress))
        /\ UNCHANGED <<now, task, mistaken>>

\* A request may end anywhere: timed out, thrown or killed with its
\* invocation.  What it sent stays sent, and is from then on one of Outside's.
Ends(s) ==
    /\ invocation[s].at # "idle"
    /\ Becomes(s, Idle)
    /\ UNCHANGED <<now, task, row, mistaken>>

Tick == ClockTick /\ UNCHANGED <<task, row, invocation, mistaken>>

Next ==
    \/ \E s \in Slots :
          \/ Request(s) \/ Pull(s) \/ Patch(s)
          \/ Send(s) \/ Refused(s) \/ Execute(s)
          \/ Transition(s) \/ ReadBack(s) \/ MirrorBack(s) \/ Ends(s)
    \/ \E call \in Calls, w \in Workers \cup {NoAddress} : Outside(call, w)
    \/ Tick

Spec == Init /\ [][Next]_vars

\* Blocks are made, sweeps are asked for again and again, and no sweep is cut
\* off at the same step every time; the owner arbitrates what is disputed.
FairSpec ==
    /\ Spec
    /\ WF_vars(Tick)
    /\ WF_vars(Request(Sweeper))
    /\ SF_vars(Pull(Sweeper)) /\ SF_vars(Patch(Sweeper))
    /\ SF_vars(Send(Sweeper)) /\ SF_vars(Execute(Sweeper))
    /\ WF_vars(Refused(Sweeper)) /\ WF_vars(ReadBack(Sweeper)) /\ WF_vars(MirrorBack(Sweeper))
    /\ WF_vars(Outside("resolve", NoAddress))

-----------------------------------------------------------------------------
(******************************* Properties ********************************)

TypeOK ==
    /\ now \in Times /\ task \in Records /\ row \in Records
    /\ invocation \in [Slots -> Invocations]
    /\ mistaken \in BOOLEAN
    /\ \A s \in Slots :
          invocation[s].at \in {"send", "sent", "mined", "mirror"} => invocation[s].call \in Calls

\* A row that says a task is settled says how the escrow settled it, whatever
\* stale reads are written over each other, unless a route took a reverted
\* receipt for its settlement (reconcile.ts:20, statusBus.ts:187).
FinalRowsAreTrue == row.state \in Final /\ ~mistaken => row.state = task.state

\* Sweeps alone bring every task to its end, and its row to saying so for good:
\* whatever requests die where, whoever else moves the task, and however many
\* stale reads are written over a row that was already right (sweeper.ts:4-9,
\* reconcile.ts:30-37).
RowsSettle == []~mistaken => <>[](row.state \in Final /\ row.state = task.state)

\* "Every caller reaches it only after the chain has returned a transaction
\* hash, so the row never claims a settlement that did not happen"
\* (statusBus.ts:187-188).
SettlementsHappened == row.state \in Final => task.state \in Final
===============================================================================
