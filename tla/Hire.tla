-------------------------------- MODULE Hire --------------------------------
(***************************************************************************)
(* POST /tasks (services/hire.ts): a signed payment authorization buys one *)
(* escrowed task.  Requests, retries of one authorization among them, run  *)
(* side by side and touch four stores that no transaction spans: the       *)
(* idempotency table, the tasks table, the caps ledger and the chain.      *)
(* Every await is a step boundary, and a place where an invocation may die *)
(* or throw.                                                               *)
(*                                                                         *)
(* Left out: marking a refusal (Marks.tla), the buyer token, and           *)
(* idempotency.settle_tx, which nothing reads back.  All prices are 1.     *)
(***************************************************************************)
EXTENDS Integers, FiniteSets, Sequences

CONSTANTS
    Requests,           \* POST /tasks requests, each with a valid authorization
    Nonces,             \* EIP-3009 authorization nonces
    Payers, PayerOf,    \* who signed each of them
    MAX_OPEN_TASKS,     \* the same limit in the API and in the escrow
    DAILY_CAP           \* in tasks per payer; the model is one UTC day

ASSUME HireAssumption ==
    /\ IsFiniteSet(Requests) /\ PayerOf \in [Nonces -> Payers]
    /\ MAX_OPEN_TASKS \in Nat /\ DAILY_CAP \in Nat

VARIABLES
    pc,             \* where a request is
    auth,           \* the nonce it came with
    taskId,         \* the task it posted, or found
    idem,           \* idempotency: nonce -> Absent, Reserved or a task id
    rows,           \* tasks: task id -> row
    ledger,         \* caps_ledger.daily_units of today
    charged,        \* USDC: the authorizations settled, each at most once
    mempool,        \* the relayer's sent posts, in nonce order
    posted,         \* chain: the request behind each task ever posted
    ended,          \* chain: tasks whose money is no longer locked
    receipt         \* request -> what its transaction came to

dbVars == <<idem, rows, ledger>>
chainVars == <<charged, mempool, posted, ended, receipt>>
vars == <<pc, auth, taskId, dbVars, chainVars>>

TaskIds == 1 .. Cardinality(Requests)
Reserved == 0           \* RESERVED_TASK_ID
Absent == -1
Reverted == -2
NoNonce == "none"
NoRow == [authNonce |-> NoNonce, open |-> FALSE, floatAbsorbed |-> FALSE]

Init ==
    /\ pc = [r \in Requests |-> "idle"]
    /\ auth = [r \in Requests |-> NoNonce]
    /\ taskId = [r \in Requests |-> Absent]
    /\ idem = [n \in Nonces |-> Absent]
    /\ rows = [t \in TaskIds |-> NoRow]
    /\ ledger = [p \in Payers |-> 0]
    /\ charged = {}
    /\ mempool = <<>> /\ posted = <<>> /\ ended = {}
    /\ receipt = [r \in Requests |-> Absent]

Goto(r, from, to) == pc[r] = from /\ pc' = [pc EXCEPT ![r] = to]
Payer(r) == PayerOf[auth[r]]
HasRow(t) == rows[t] # NoRow

-----------------------------------------------------------------------------
(****************************** Reserving **********************************)

\* The facilitator verified the authorization: no money has moved.
Verify(r, n) ==
    /\ Goto(r, "idle", "verified")
    /\ auth' = [auth EXCEPT ![r] = n]
    /\ UNCHANGED <<taskId, dbVars, chainVars>>

\* Mutant: a reservation is told from a purchase, but not from none.
ReserveInsertAnyway(r) ==
    /\ \/ /\ Goto(r, "verified", "screening")
          /\ idem[auth[r]] \in {Absent, Reserved}
          /\ idem' = [idem EXCEPT ![auth[r]] = Reserved]
       \/ Goto(r, "verified", "reading") /\ idem[auth[r]] \in TaskIds /\ UNCHANGED idem
    /\ UNCHANGED <<auth, taskId, rows, ledger, chainVars>>

\* INSERT ... ON CONFLICT DO NOTHING: the insert is the lock.
ReserveInsert(r) ==
    /\ \/ /\ Goto(r, "verified", "screening")
          /\ idem[auth[r]] = Absent
          /\ idem' = [idem EXCEPT ![auth[r]] = Reserved]
       \/ Goto(r, "verified", "reading") /\ idem[auth[r]] # Absent /\ UNCHANGED idem
    /\ UNCHANGED <<auth, taskId, rows, ledger, chainVars>>

\* A row released between the insert and this read counts as reserved, and
\* nothing is inserted for it.
ReserveRead(r) ==
    LET found == idem[auth[r]] IN
    /\ \/ Goto(r, "reading", "screening") /\ found = Absent /\ UNCHANGED taskId
       \/ Goto(r, "reading", "in_progress") /\ found = Reserved /\ UNCHANGED taskId
       \/ /\ Goto(r, "reading", "replaying") /\ found \in TaskIds
          /\ taskId' = [taskId EXCEPT ![r] = found]
    /\ UNCHANGED <<auth, dbVars, chainVars>>

Replay(r) ==
    /\ \/ Goto(r, "replaying", "replayed") /\ HasRow(taskId[r])
       \/ Goto(r, "replaying", "not_found") /\ ~HasRow(taskId[r])
    /\ UNCHANGED <<auth, taskId, dbVars, chainVars>>

\* Mutant: DELETE whatever the row says.
ReleasedAnyway(n) == [idem EXCEPT ![n] = Absent]

\* DELETE ... WHERE task_id = 0
Released(n) == [idem EXCEPT ![n] = IF @ = Reserved THEN Absent ELSE @]

\* Every refusal, and a post that failed, ends here; the answer is 4xx or 503.
Release(r) ==
    /\ Goto(r, "releasing", "rejected")
    /\ idem' = Released(auth[r])
    /\ UNCHANGED <<auth, taskId, rows, ledger, chainVars>>

-----------------------------------------------------------------------------
(************************** Screening and posting **************************)

\* Mutant: a refusal answers without the release.
ScreenAndKeep(r) ==
    /\ Goto(r, "screening", "capping") \/ Goto(r, "screening", "rejected")
    /\ UNCHANGED <<auth, taskId, dbVars, chainVars>>

Screen(r) ==
    /\ Goto(r, "screening", "capping") \/ Goto(r, "screening", "releasing")
    /\ UNCHANGED <<auth, taskId, dbVars, chainVars>>

OpenRows(p) == {t \in TaskIds : rows[t].open /\ PayerOf[rows[t].authNonce] = p}

\* The caps are read here and charged only after the post.
CheckCaps(r) ==
    LET over == \/ Cardinality(OpenRows(Payer(r))) >= MAX_OPEN_TASKS
                \/ ledger[Payer(r)] + 1 > DAILY_CAP
    IN  /\ \/ Goto(r, "capping", "releasing") /\ over
           \/ Goto(r, "capping", "posting") /\ ~over
        /\ UNCHANGED <<auth, taskId, dbVars, chainVars>>

OpenTasksOf(p) ==
    {t \in 1 .. Len(posted) : PayerOf[auth[posted[t]]] = p /\ t \notin ended}
OverOpenCap(r) == Cardinality(OpenTasksOf(Payer(r))) >= MAX_OPEN_TASKS

\* The queue estimates gas before it sends, so a post the escrow would revert
\* now is not sent at all.
SendPost(r) ==
    /\ Goto(r, "posting", "sent")
    /\ ~OverOpenCap(r)
    /\ mempool' = Append(mempool, r)
    /\ UNCHANGED <<auth, taskId, dbVars, charged, posted, ended, receipt>>

SendFails(r) ==
    /\ Goto(r, "posting", "releasing")
    /\ UNCHANGED <<auth, taskId, dbVars, chainVars>>

\* A block executes the relayer's next transaction: TaskEscrow.post.
Execute ==
    /\ mempool # <<>>
    /\ mempool' = Tail(mempool)
    /\ LET r == Head(mempool)
       IN  \/ /\ ~OverOpenCap(r)
              /\ posted' = Append(posted, r)
              /\ receipt' = [receipt EXCEPT ![r] = Len(posted) + 1]
           \/ /\ OverOpenCap(r)
              /\ receipt' = [receipt EXCEPT ![r] = Reverted] /\ UNCHANGED posted
    /\ UNCHANGED <<pc, auth, taskId, dbVars, charged, ended>>

\* Mutant: the row is forgotten.
PostReturnsUnrecorded(r) ==
    /\ receipt[r] \in TaskIds /\ Goto(r, "sent", "completing")
    /\ taskId' = [taskId EXCEPT ![r] = receipt[r]]
    /\ UNCHANGED <<auth, dbVars, chainVars>>

\* A receipt without a TaskPosted event throws inside the adapter.
PostReturns(r) ==
    /\ \/ /\ receipt[r] \in TaskIds /\ Goto(r, "sent", "inserting")
          /\ taskId' = [taskId EXCEPT ![r] = receipt[r]]
       \/ receipt[r] = Reverted /\ Goto(r, "sent", "releasing") /\ UNCHANGED taskId
    /\ UNCHANGED <<auth, dbVars, chainVars>>

\* Mutant: the catch forgets to return.
TimesOutAndSettles(r) ==
    /\ Goto(r, "sent", "settling")
    /\ UNCHANGED <<auth, taskId, dbVars, chainVars>>

\* waitForTransactionReceipt gives up, or the answer to the send was lost.
\* The catch releases the nonce; the transaction is still out there.
PostTimesOut(r) ==
    /\ Goto(r, "sent", "releasing")
    /\ UNCHANGED <<auth, taskId, dbVars, chainVars>>

-----------------------------------------------------------------------------
(************************* Recording and settling **************************)

InsertRow(r) ==
    /\ Goto(r, "inserting", "recording")
    /\ rows' = [rows EXCEPT ![taskId[r]] =
                   [authNonce |-> auth[r], open |-> TRUE, floatAbsorbed |-> FALSE]]
    /\ UNCHANGED <<auth, taskId, idem, ledger, chainVars>>

\* Mutant: the posted task is not counted.
RecordNothing(r) ==
    /\ Goto(r, "recording", "completing")
    /\ UNCHANGED <<auth, taskId, dbVars, chainVars>>

RecordCaps(r) ==
    /\ Goto(r, "recording", "completing")
    /\ ledger' = [ledger EXCEPT ![Payer(r)] = @ + 1]
    /\ UNCHANGED <<auth, taskId, idem, rows, chainVars>>

\* INSERT ... ON CONFLICT DO UPDATE: the last request to get here wins.
Complete(r) ==
    /\ Goto(r, "completing", "settling")
    /\ idem' = [idem EXCEPT ![auth[r]] = taskId[r]]
    /\ UNCHANGED <<auth, taskId, rows, ledger, chainVars>>

\* USDC honours an authorization once.  The facilitator may settle and still
\* report a failure.
Settle(r) ==
    /\ \/ /\ auth[r] \notin charged
          /\ charged' = charged \cup {auth[r]}
          /\ Goto(r, "settling", "accepted") \/ Goto(r, "settling", "absorbing")
       \/ Goto(r, "settling", "absorbing") /\ UNCHANGED charged
    /\ UNCHANGED <<auth, taskId, dbVars, mempool, posted, ended, receipt>>

\* Mutant: the failed settle is only logged.
OnlyLogAbsorbed(r) ==
    /\ Goto(r, "absorbing", "accepted")
    /\ UNCHANGED <<auth, taskId, dbVars, chainVars>>

MarkAbsorbed(r) ==
    /\ Goto(r, "absorbing", "accepted")
    /\ rows' = [rows EXCEPT ![taskId[r]].floatAbsorbed = TRUE]
    /\ UNCHANGED <<auth, taskId, idem, ledger, chainVars>>

-----------------------------------------------------------------------------
Answers == {"in_progress", "replayed", "not_found", "rejected", "accepted"}

\* The invocation dies, or an await outside the one try block throws: a 500,
\* and nothing it did is undone.
Throws(r) ==
    /\ pc[r] \notin Answers \cup {"idle", "dead"}
    /\ pc' = [pc EXCEPT ![r] = "dead"]
    /\ UNCHANGED <<auth, taskId, dbVars, chainVars>>

\* The task runs its course, and its row follows the chain.
TaskEnds(t) ==
    /\ t \in 1 .. Len(posted) /\ t \notin ended
    /\ ended' = ended \cup {t}
    /\ rows' = IF HasRow(t) THEN [rows EXCEPT ![t].open = FALSE] ELSE rows
    /\ UNCHANGED <<pc, auth, taskId, idem, ledger, charged, mempool, posted, receipt>>

Next ==
    \/ \E r \in Requests :
          \/ \E n \in Nonces : Verify(r, n)
          \/ ReserveInsert(r) \/ ReserveRead(r) \/ Replay(r) \/ Release(r)
          \/ Screen(r) \/ CheckCaps(r) \/ SendPost(r) \/ SendFails(r)
          \/ PostReturns(r) \/ PostTimesOut(r) \/ InsertRow(r) \/ RecordCaps(r)
          \/ Complete(r) \/ Settle(r) \/ MarkAbsorbed(r) \/ Throws(r)
    \/ \E t \in TaskIds : TaskEnds(t)
    \/ Execute

Spec == Init /\ [][Next]_vars

-----------------------------------------------------------------------------
(******************************* Properties ********************************)

\* "A refused task moves no money": an authorization is only ever charged
\* once a task bought with it is in escrow and its row is in the table, also
\* when other requests carry the same authorization (settle comes last).
ChargedHasTask ==
    \A n \in charged :
        \E t \in 1 .. Len(posted) : rows[t].authNonce = n /\ auth[posted[t]] = n

\* A replay always finds its task, and one that this authorization paid for:
\* the reservation is completed only after the row is in.
CompletedHasRow ==
    \A n \in Nonces : idem[n] \in TaskIds => rows[idem[n]].authNonce = n

\* "Only a reservation is releasable. A settled row is the record of a
\* charge": no release, late or stray, ever frees an authorization that has
\* bought its task.
ChargesAreKept ==
    [][\A n \in Nonces : idem[n] \in TaskIds => idem'[n] \in TaskIds]_vars

\* "Every early exit releases the reservation" (hire.ts:386): one that no
\* request is at work under was left by an invocation that died or threw (no
\* sweep frees those), never by an answered one, whoever released whose.
ReservationsAreHeld ==
    \A n \in Nonces : idem[n] = Reserved =>
        \E r \in Requests :
            auth[r] = n /\ pc[r] \notin Answers \cup {"verified", "reading", "replaying"}

\* The float is never short in silence: of all the tasks one authorization
\* bought and was told 201 for, at most one is not flagged float_absorbed,
\* and that one's payment did arrive.
FloatIsAccountedFor ==
    \A n \in Nonces :
        LET unflagged == {r \in Requests : /\ pc[r] = "accepted" /\ auth[r] = n
                                           /\ ~rows[taskId[r]].floatAbsorbed}
        IN  Cardinality(unflagged) =< (IF n \in charged THEN 1 ELSE 0)

\* The daily budget counts every authorization that bought a task, retries
\* and crashes included, and nothing that is not in escrow.
SpendIsRecorded ==
    \A p \in Payers :
        LET bought == {n \in Nonces : PayerOf[n] = p /\ idem[n] \in TaskIds}
            escrowed == {t \in 1 .. Len(posted) : PayerOf[auth[posted[t]]] = p}
        IN  Cardinality(bought) =< ledger[p] /\ ledger[p] =< Cardinality(escrowed)

\* "One signed authorization buys one task however many times it is sent"
\* (hire.ts:40), up to a request that gave its reservation back: its post may
\* only have been late, or another request may have read the table between the
\* delete and the next insert.
SecondTaskNeedsARelease ==
    \A t, u \in 1 .. Len(posted) :
        t # u /\ auth[posted[t]] = auth[posted[u]] =>
            \E r \in Requests : auth[r] = auth[posted[t]] /\ pc[r] = "rejected"
=============================================================================
