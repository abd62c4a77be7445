------------------------------ MODULE Withdraw ------------------------------
(***************************************************************************)
(* POST /me/withdraw (services/withdraw.ts) over the relayer's queue.  A   *)
(* phone signs a pair of EIP-3009 authorizations, the payout and the fee;  *)
(* a request relays first one, then the other.  The token executes an      *)
(* authorization at most once.  `Invocations` are the requests.            *)
(***************************************************************************)
EXTENDS TxQueue

CONSTANTS
    Pairs,          \* signed pairs, told apart by the payout leg's nonce
    Treasury,
    WITHDRAW_FEE_BPS,
    MIN_WITHDRAW_USDC,
    NoPair,
    NoRow

Legs == {"payout", "fee"}
Rows == [payoutTx : BOOLEAN, feeTx : BOOLEAN, feePending : BOOLEAN]

ASSUME WithdrawAssumption ==
    /\ Calls = Pairs \X Legs
    /\ NoPair \notin Pairs /\ NoRow \notin Rows
    /\ WITHDRAW_FEE_BPS \in Nat /\ MIN_WITHDRAW_USDC \in Nat
    /\ \A p \in Pairs : p.payout \in Nat /\ p.fee \in Nat

VARIABLES
    at,         \* request -> where its handler is
    pairOf,     \* request -> the pair it carries
    rows,       \* the withdrawals table: payout nonce -> row
    answer      \* request -> what it was answered

withdrawVars == <<at, pairOf, rows, answer>>
vars == <<queueVars, withdrawVars>>

Reserved == [payoutTx |-> FALSE, feeTx |-> FALSE, feePending |-> FALSE]
Places == {"new", "conflict", "payout", "undo", "fee", "save_paid", "save_pending",
           "answered", "dead"}
Answers == {"none", "refused", "in_progress", "replay", "failed", "paid"}

Init ==
    /\ QueueInit
    /\ at = [r \in Invocations |-> "new"]
    /\ pairOf = [r \in Invocations |-> NoPair]
    /\ rows = [p \in Pairs |-> NoRow]
    /\ answer = [r \in Invocations |-> "none"]

withdrawFeeOn(amount) == (amount * WITHDRAW_FEE_BPS) \div 10000

\* The refusals that look at the request alone.
Acceptable(p) ==
    /\ p.signer = p.session
    /\ p.to = p.typed
    /\ p.feeTo = Treasury
    /\ p.fee = withdrawFeeOn(p.payout + p.fee)
    /\ p.payout + p.fee >= MIN_WITHDRAW_USDC

-----------------------------------------------------------------------------
Goto(r, from, to) == at[r] = from /\ at' = [at EXCEPT ![r] = to]

Reply(r, from, a) ==
    /\ Goto(r, from, "answered")
    /\ answer' = [answer EXCEPT ![r] = a]

Carries(r, p) == pairOf' = [pairOf EXCEPT ![r] = p]

\* Unacceptable, or outside its window by the server's clock, which may be any.
Refuse(r, p) ==
    /\ Reply(r, "new", "refused") /\ Carries(r, p)
    /\ UNCHANGED <<queueVars, rows>>

\* Mutant: a row without a payout hash is taken for an abandoned one.
ReserveAgain(r, p) ==
    /\ Acceptable(p) /\ Carries(r, p)
    /\ \/ /\ rows[p] \in {NoRow, Reserved}
          /\ Goto(r, "new", "payout")
          /\ rows' = [rows EXCEPT ![p] = Reserved]
          /\ Begin(r)
       \/ rows[p] \notin {NoRow, Reserved} /\ Goto(r, "new", "conflict")
          /\ UNCHANGED <<rows, q>>
    /\ UNCHANGED <<holder, nextNonce, pool, chain, answer>>

\* INSERT ... ON CONFLICT DO NOTHING on the payout nonce.
Reserve(r, p) ==
    /\ Acceptable(p) /\ Carries(r, p)
    /\ \/ /\ rows[p] = NoRow
          /\ Goto(r, "new", "payout")
          /\ rows' = [rows EXCEPT ![p] = Reserved]
          /\ Begin(r)
       \/ rows[p] # NoRow /\ Goto(r, "new", "conflict") /\ UNCHANGED <<rows, q>>
    /\ UNCHANGED <<holder, nextNonce, pool, chain, answer>>

\* The row behind the conflict may have gone, or been filled, since.
ReadRow(r) ==
    /\ LET paid == rows[pairOf[r]] # NoRow /\ rows[pairOf[r]].payoutTx
       IN  Reply(r, "conflict", IF paid THEN "replay" ELSE "in_progress")
    /\ UNCHANGED <<queueVars, pairOf, rows>>

\* Mutant: the fee goes first.
LegSwapped(r) == IF at[r] = "fee" THEN "payout" ELSE "fee"

LegOf(r) == IF at[r] = "fee" THEN "fee" ELSE "payout"

Relay(r) ==
    /\ at[r] \in Legs
    /\ Send(r, <<pairOf[r], LegOf(r)>>)
    /\ UNCHANGED withdrawVars

\* The payout's receipt says success: on to the fee.
PayoutLanded(r) ==
    /\ q[r].pc = "landed" /\ Goto(r, "payout", "fee")
    /\ Begin(r)
    /\ UNCHANGED <<holder, nextNonce, pool, chain, pairOf, rows, answer>>

\* Anything else, a receipt that never came included, is a failure that
\* moved nothing.
PayoutFailed(r) ==
    /\ q[r].pc = "failed" /\ Goto(r, "payout", "undo")
    /\ UNCHANGED <<queueVars, pairOf, rows, answer>>

Undo(r) ==
    /\ Reply(r, "undo", "failed")
    /\ rows' = [rows EXCEPT ![pairOf[r]] =
                    IF rows[pairOf[r]] # NoRow /\ ~rows[pairOf[r]].payoutTx THEN NoRow ELSE @]
    /\ UNCHANGED <<queueVars, pairOf>>

FeeDone(r) ==
    /\ \/ q[r].pc = "landed" /\ Goto(r, "fee", "save_paid")
       \/ q[r].pc = "failed" /\ Goto(r, "fee", "save_pending")
    /\ UNCHANGED <<queueVars, pairOf, rows, answer>>

Save(r) ==
    /\ \/ Reply(r, "save_paid", "paid")
       \/ Reply(r, "save_pending", "paid")
    /\ rows' = [rows EXCEPT ![pairOf[r]] =
                    IF @ = NoRow THEN @
                    ELSE [payoutTx |-> TRUE, feeTx |-> at[r] = "save_paid",
                          feePending |-> at[r] = "save_pending"]]
    /\ UNCHANGED <<queueVars, pairOf>>

\* The invocation dies.  Its connection closes: the lock is freed and the nonce
\* rolled back.  What it sent, and its reservation, stay.
Crash(r) ==
    /\ at[r] \notin {"new", "answered", "dead"}
    /\ at' = [at EXCEPT ![r] = "dead"]
    /\ q' = [q EXCEPT ![r] = Idle]
    /\ RollBack(r)
    /\ UNCHANGED <<pool, chain, pairOf, rows, answer>>

Next ==
    \/ \E r \in Invocations :
          \/ \E p \in Pairs : Refuse(r, p) \/ Reserve(r, p)
          \/ ReadRow(r) \/ Relay(r)
          \/ PayoutLanded(r) \/ PayoutFailed(r) \/ Undo(r) \/ FeeDone(r) \/ Save(r)
          \/ Crash(r)
    \/ Mine /\ UNCHANGED withdrawVars

Spec == Init /\ [][Next]_vars

-----------------------------------------------------------------------------
TypeOK ==
    /\ QueueTypeOK
    /\ at \in [Invocations -> Places]
    /\ pairOf \in [Invocations -> Pairs \cup {NoPair}]
    /\ rows \in [Pairs -> Rows \cup {NoRow}]
    /\ answer \in [Invocations -> Answers]

\* "Fee first means [...] the worker paid a fee for a withdrawal that never
\* happened" (withdraw.ts:46): whatever crashes and times out, a fee is taken
\* only for a payout that was made.
FeeOnlyAfterPayout ==
    \A p \in Pairs : <<p, "fee">> \in Executed => <<p, "payout">> \in Executed

\* A row with a hash, the only thing a replay is answered from, and every 200
\* say what the token did.
RowIsTrue ==
    /\ \A p \in Pairs :
          rows[p] # NoRow =>
              /\ rows[p].payoutTx => <<p, "payout">> \in Executed
              /\ rows[p].feeTx => <<p, "fee">> \in Executed
    /\ \A r \in Invocations :
          answer[r] \in {"paid", "replay"} => <<pairOf[r], "payout">> \in Executed

\* Once `send` has answered a hash, its transaction stays in the mempool or in
\* the chain at its nonce: no other invocation of the key takes the nonce
\* or replaces it (tx-queue.ts:62, "the only writer of a Legwork key").
HashIsKept ==
    \A r \in Invocations :
        q[r].pc = "waiting" =>
            LET n == q[r].nonce
                call == <<pairOf[r], LegOf(r)>>
            IN  IF n < Len(chain) THEN chain[n + 1].call = call
                                  ELSE Signed(r, call) \in pool

\* No rollback, crash or resync leaves a hole below a nonce in use, behind which
\* every later transaction of the key would wait for ever.
NoGap ==
    /\ PoolNonces = Len(chain) .. PendingCount - 1
    /\ nextNonce # NoNonce => nextNonce <= PendingCount

\* One reservation, one request: no two invocations drive the same pair.
OneDriver ==
    \A r, s \in Invocations :
        /\ at[r] \in Legs \cup {"undo", "save_paid", "save_pending"}
        /\ at[s] \in Legs \cup {"undo", "save_paid", "save_pending"}
        /\ pairOf[r] = pairOf[s]
        => r = s

\* "503 [...] the payout leg failed, so nothing moved" (withdraw.ts:17).
NothingMoved ==
    \A r \in Invocations : answer[r] = "failed" => <<pairOf[r], "payout">> \notin Executed
==============================================================================
