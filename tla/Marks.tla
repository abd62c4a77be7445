-------------------------------- MODULE Marks --------------------------------
(***************************************************************************)
(* Marking a refusal: the API's requests (services/abuseMark.ts) against   *)
(* the contract, with the signer's transaction queue in between.  A        *)
(* request reads the contract, decides, and may send one transaction;      *)
(* other requests, blocks and the owner move between any two of its reads. *)
(***************************************************************************)
EXTENDS AbuseMark, Sequences

CONSTANT Requests       \* refusals of verified agents, retries included

Unread == -1
Unseen == [lastMarkAt |-> Unread, markCooldown |-> Unread, now |-> Unread]

VARIABLES
    pc,         \* where a request is
    subject,    \* request -> <<agent, spec>> it refused
    seen,       \* request -> what it read of the contract and the clock
    mempool,    \* the signer's sent transactions, in nonce order
    marksLog    \* marks_log: request -> outcome

apiVars == <<pc, subject, seen, mempool, marksLog>>
vars == <<now, abuseMarkVars, apiVars>>

Subjects == AgentIds \X SpecHashes
NoSubject == <<>>
MarkOutcomes == {"marked", "already_marked", "cooldown", "tx_failed"}

Init ==
    /\ ClockInit /\ AbuseMarkInit
    /\ pc = [r \in Requests |-> "idle"]
    /\ subject = [r \in Requests |-> NoSubject]
    /\ seen = [r \in Requests |-> Unseen]
    /\ mempool = <<>>
    /\ marksLog = [r \in Requests |-> "none"]

AgentOf(r) == subject[r][1]
SpecOf(r) == subject[r][2]

-----------------------------------------------------------------------------
Goto(r, from, to) == pc[r] = from /\ pc' = [pc EXCEPT ![r] = to]

\* The row is the last thing a request writes.
Answer(r, from, o) ==
    /\ Goto(r, from, "done")
    /\ marksLog' = [marksLog EXCEPT ![r] = o]

Refuse(r, s) ==
    /\ Goto(r, "idle", "refused")
    /\ subject' = [subject EXCEPT ![r] = s]
    /\ UNCHANGED <<now, abuseMarkVars, seen, mempool, marksLog>>

\* Step 3: the same refusal twice is one mark.
ReadMarked(r) ==
    /\ \/ subject[r] \in marked /\ Answer(r, "refused", "already_marked")
       \/ subject[r] \notin marked /\ Goto(r, "refused", "reading") /\ UNCHANGED marksLog
    /\ UNCHANGED <<now, abuseMarkVars, subject, seen, mempool>>

\* Step 4: three reads in one Promise.all, in whatever order they come back.
OnChain(r) ==
    [lastMarkAt |-> lastMarkAt[AgentOf(r)], markCooldown |-> markCooldown, now |-> now]

Read(r, field) ==
    /\ pc[r] = "reading" /\ seen[r][field] = Unread
    /\ seen' = [seen EXCEPT ![r][field] = OnChain(r)[field]]
    /\ UNCHANGED <<now, abuseMarkVars, pc, subject, mempool, marksLog>>

LooksCooling(s) == s.lastMarkAt # 0 /\ s.now < s.lastMarkAt + s.markCooldown

Decide(r) ==
    /\ \A field \in DOMAIN Unseen : seen[r][field] # Unread
    /\ seen' = [seen EXCEPT ![r] = Unseen]
    /\ \/ LooksCooling(seen[r]) /\ Answer(r, "reading", "cooldown")
       \/ ~LooksCooling(seen[r]) /\ Goto(r, "reading", "sending") /\ UNCHANGED marksLog
    /\ UNCHANGED <<now, abuseMarkVars, subject, mempool>>

\* Step 5.  The queue estimates gas against the last block before it sends:
\* that is where a lost race still comes back as the contract's error.
Send(r) ==
    /\ pc[r] = "sending"
    /\ \/ /\ CoolingDown(AgentOf(r)) /\ subject[r] \notin marked
          /\ Answer(r, "sending", "cooldown") /\ UNCHANGED mempool
       \/ /\ ~CoolingDown(AgentOf(r)) \/ subject[r] \in marked
          /\ Goto(r, "sending", "sent")
          /\ mempool' = Append(mempool, r) /\ UNCHANGED marksLog
    /\ UNCHANGED <<now, abuseMarkVars, subject, seen>>

SendFails(r) ==
    /\ Answer(r, "sending", "tx_failed")
    /\ UNCHANGED <<now, abuseMarkVars, subject, seen, mempool>>

\* A block executes the signer's transactions in nonce order.  A repeat
\* returns false, and one inside the cooldown reverts: both leave a receipt.
Execute ==
    /\ mempool # <<>>
    /\ mempool' = Tail(mempool)
    /\ LET r == Head(mempool)
       IN  /\ pc' = IF pc[r] = "sent" THEN [pc EXCEPT ![r] = "mined"] ELSE pc
           /\ \/ mark(AgentOf(r), SpecOf(r))
              \/ /\ AlreadyMarked(AgentOf(r), SpecOf(r)) \/ CoolingDown(AgentOf(r))
                 /\ UNCHANGED abuseMarkVars
    /\ UNCHANGED <<now, subject, seen, marksLog>>

\* Nobody looks at the receipt's status, or at `written`.
LogMarked(r) ==
    /\ Answer(r, "mined", "marked")
    /\ UNCHANGED <<now, abuseMarkVars, subject, seen, mempool>>

\* Mutant: a hash is taken for a mark.
GiveUpMarked(r) ==
    /\ Answer(r, "sent", "marked")
    /\ UNCHANGED <<now, abuseMarkVars, subject, seen, mempool>>

\* waitForTransactionReceipt gives up; the transaction does not.
GiveUp(r) ==
    /\ Answer(r, "sent", "tx_failed")
    /\ UNCHANGED <<now, abuseMarkVars, subject, seen, mempool>>

\* The invocation dies between any two steps; what it sent lives on.
Crash(r) ==
    /\ pc[r] \notin {"idle", "done", "dead"}
    /\ pc' = [pc EXCEPT ![r] = "dead"]
    /\ seen' = [seen EXCEPT ![r] = Unseen]
    /\ UNCHANGED <<now, abuseMarkVars, subject, mempool, marksLog>>

Owner == (\E c \in Cooldowns : setMarkCooldown(c)) /\ UNCHANGED <<now, apiVars>>

Tick == ClockTick /\ UNCHANGED <<abuseMarkVars, apiVars>>

Next ==
    \/ \E r \in Requests :
          \/ \E s \in Subjects : Refuse(r, s)
          \/ \E field \in DOMAIN Unseen : Read(r, field)
          \/ ReadMarked(r) \/ Decide(r)
          \/ Send(r) \/ SendFails(r) \/ LogMarked(r) \/ GiveUp(r) \/ Crash(r)
    \/ Execute \/ Owner \/ Tick

Spec == Init /\ [][Next]_vars

-----------------------------------------------------------------------------
\* "A pre-check that passes and then loses a race still comes back as
\* MarkCooldown [...] so both roads end at the same outcome" (abuseMark.ts:20)
\* is true of races lost before the estimate only: a refusal logged and
\* answered as marked is a mark, or another refusal of that agent was marked
\* in a block before it.
MarkedRowsAreMarksOrBeaten ==
    \A r \in Requests :
        /\ marksLog[r] = "already_marked" => subject[r] \in marked
        /\ marksLog[r] = "marked" =>
              \/ subject[r] \in marked
              \/ \E s \in Requests : subject[s] \in marked /\ AgentOf(s) = AgentOf(r)
==============================================================================
