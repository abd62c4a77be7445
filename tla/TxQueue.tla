------------------------------- MODULE TxQueue -------------------------------
(***************************************************************************)
(* The transaction queue of one Legwork key (packages/chain tx-queue.ts)   *)
(* behind the Postgres lock (nonce-lock.ts), with the chain it sends to.   *)
(* Serverless invocations share the key: each is its own TxQueue object,   *)
(* and only the lock, the stored nonce and the chain are common to them.   *)
(* A step is the code between two awaits.                                  *)
(***************************************************************************)
EXTENDS Integers, Sequences

CONSTANTS
    Invocations,    \* concurrent users of the key
    Calls,          \* what they send: transactions that succeed at most once
    maxAttempts,
    FeeLevels,      \* what estimateFeesPerGas may answer, 15 % apart
    Nobody,         \* the lock is free
    NoNonce         \* next_nonce is NULL, or an invocation has none yet

ASSUME QueueAssumption ==
    /\ maxAttempts \in Nat \ {0}
    /\ FeeLevels \subseteq Nat
    /\ NoNonce \notin Nat
    /\ Nobody \notin Invocations

VARIABLES
    holder,     \* who is inside the advisory lock's database transaction
    nextNonce,  \* nonces.next_nonce, as committed
    pool,       \* the node's mempool: transactions not yet in a block
    chain,      \* the key's transactions in blocks; the nth has nonce n - 1
    q           \* invocation -> the call it is sending and how far it is

queueVars == <<holder, nextNonce, pool, chain, q>>

Tx == [nonce : Nat, call : Calls, fee : Nat]
MinedTx == [call : Calls, ok : BOOLEAN]

HasNonce == {"read", "signed", "sent", "waiting"}
Idle == [pc |-> "idle", attempt |-> 1, nonce |-> NoNonce, fee |-> 0]

QueueInit ==
    /\ holder = Nobody
    /\ nextNonce = NoNonce
    /\ pool = {}
    /\ chain = <<>>
    /\ q = [i \in Invocations |-> Idle]

Executed == {chain[n].call : n \in {m \in DOMAIN chain : chain[m].ok}}
PoolNonces == {t.nonce : t \in pool}

\* eth_getTransactionCount(pending): the first nonce nothing occupies.
PendingCount ==
    CHOOSE n \in {Len(chain)} \cup {m + 1 : m \in PoolNonces} :
        /\ n \notin PoolNonces
        /\ Len(chain) .. n - 1 \subseteq PoolNonces

\* A retry no longer trusts the stored nonce, and pays one bump more each time.
Resync(i) == q[i].attempt > 1
Bumps(i) == q[i].attempt - 1

-----------------------------------------------------------------------------
Step(i, from, to) == q[i].pc = from /\ q' = [q EXCEPT ![i].pc = to]

\* The end of the database transaction, however it ends, frees the lock.
Unlock(i) == holder' = IF holder = i THEN Nobody ELSE holder

Begin(i) == q' = [q EXCEPT ![i] = [Idle EXCEPT !.pc = "queued"]]

Throw(i) == q' = [q EXCEPT ![i] = [Idle EXCEPT !.pc = "failed"]]

\* A throw inside the lock rolls back the nonce with everything else.
\* Mutant: the nonce is kept although what used it was not sent.
RollBackKeeping(i) ==
    /\ Unlock(i)
    /\ nextNonce' = IF q[i].nonce = NoNonce THEN nextNonce ELSE q[i].nonce + 1

RollBack(i) == Unlock(i) /\ UNCHANGED nextNonce

TakeLock(i) ==
    /\ holder = Nobody /\ holder' = i
    /\ Step(i, "queued", "locked")
    /\ UNCHANGED <<nextNonce, pool, chain>>

\* SET LOCAL lock_timeout = '10s'
LockTimesOut(i) ==
    /\ q[i].pc = "queued" /\ holder # Nobody
    /\ Throw(i)
    /\ UNCHANGED <<holder, nextNonce, pool, chain>>

\* Mutant: NULL is not told from a stored nonce.
ReadNull(i) ==
    /\ q[i].pc = "locked"
    /\ q' = [q EXCEPT ![i].pc = "read",
                      ![i].nonce = IF Resync(i) THEN PendingCount ELSE nextNonce]
    /\ UNCHANGED <<holder, nextNonce, pool, chain>>

ReadNonce(i) ==
    /\ q[i].pc = "locked"
    /\ q' = [q EXCEPT ![i].pc = "read",
                      ![i].nonce = IF Resync(i) \/ nextNonce = NoNonce
                                   THEN PendingCount ELSE nextNonce]
    /\ UNCHANGED <<holder, nextNonce, pool, chain>>

\* estimateGas runs the call on the last block: one that would revert is
\* not sent.  That is no nonce error, so there is no second attempt.
Estimate(i, call) ==
    /\ q[i].pc = "read"
    /\ \/ /\ call \notin Executed
          /\ \E level \in FeeLevels :
                q' = [q EXCEPT ![i].pc = "signed", ![i].fee = level + Bumps(i)]
          /\ UNCHANGED holder
       \/ Throw(i) /\ Unlock(i)
    /\ UNCHANGED <<nextNonce, pool, chain>>

\* What the node accepts: a free nonce, or a replacement that pays more.
Signed(i, call) == [nonce |-> q[i].nonce, call |-> call, fee |-> q[i].fee]
Rivals(i) == {t \in pool : t.nonce = q[i].nonce}
IsNonceError(i) ==
    \/ q[i].nonce < Len(chain)                       \* nonce too low
    \/ \E t \in Rivals(i) : t.fee >= q[i].fee        \* already known, underpriced

Broadcast(i, call) ==
    /\ Step(i, "signed", "sent")
    /\ ~IsNonceError(i)
    /\ pool' = (pool \ Rivals(i)) \cup {Signed(i, call)}
    /\ UNCHANGED <<holder, nextNonce, chain>>

Retry(i) ==
    /\ q[i].pc = "signed" /\ IsNonceError(i)
    /\ \/ /\ q[i].attempt < maxAttempts
          /\ q' = [q EXCEPT ![i] = [Idle EXCEPT !.pc = "queued",
                                                !.attempt = q[i].attempt + 1]]
       \/ q[i].attempt = maxAttempts /\ Throw(i)
    /\ RollBack(i)
    /\ UNCHANGED <<pool, chain>>

\* Mutant: store.set(next), off by one.
CommitSame(i) ==
    /\ Step(i, "sent", "waiting")
    /\ nextNonce' = q[i].nonce
    /\ Unlock(i)
    /\ UNCHANGED <<pool, chain>>

\* store.set(next + 1) and COMMIT: only then do others see the nonce.
Commit(i) ==
    /\ Step(i, "sent", "waiting")
    /\ nextNonce' = q[i].nonce + 1
    /\ Unlock(i)
    /\ UNCHANGED <<pool, chain>>

\* The node took the transaction and its answer, or the COMMIT, was lost.
SendFails(i) ==
    /\ q[i].pc = "sent"
    /\ Throw(i) /\ RollBack(i)
    /\ UNCHANGED <<pool, chain>>

\* Mutant: a receipt is taken for a success.
ReceiptUnread(i) ==
    /\ q[i].nonce # NoNonce /\ q[i].nonce < Len(chain)
    /\ Step(i, "waiting", "landed")
    /\ UNCHANGED <<holder, nextNonce, pool, chain>>

\* waitForTransactionReceipt, outside the lock: the receipt says whether the
\* transaction at that nonce succeeded, or the wait gives up before there is one.
Receipt(i) ==
    /\ q[i].pc = "waiting" /\ q[i].nonce < Len(chain)
    /\ q' = [q EXCEPT ![i].pc = IF chain[q[i].nonce + 1].ok THEN "landed" ELSE "failed"]
    /\ UNCHANGED <<holder, nextNonce, pool, chain>>

ReceiptTimesOut(i) ==
    /\ q[i].pc = "waiting" /\ Throw(i)
    /\ UNCHANGED <<holder, nextNonce, pool, chain>>

\* A block takes the next nonce.  A call that was executed before reverts, and
\* any call may (out of funds, expired).
Mine ==
    /\ \E t \in pool, ok \in BOOLEAN :
          /\ t.nonce = Len(chain)
          /\ ok => t.call \notin Executed
          /\ pool' = pool \ {t}
          /\ chain' = Append(chain, [call |-> t.call, ok |-> ok])
    /\ UNCHANGED <<holder, nextNonce, q>>

Send(i, call) ==
    \/ TakeLock(i) \/ LockTimesOut(i) \/ ReadNonce(i)
    \/ Estimate(i, call) \/ Broadcast(i, call) \/ Retry(i)
    \/ Commit(i) \/ SendFails(i) \/ Receipt(i) \/ ReceiptTimesOut(i)

-----------------------------------------------------------------------------
QueueTypeOK ==
    /\ holder \in Invocations \cup {Nobody}
    /\ nextNonce \in Nat \cup {NoNonce}
    /\ pool \subseteq Tx
    /\ chain \in Seq(MinedTx)
    /\ q \in [Invocations ->
                [pc : HasNonce \cup {"idle", "queued", "locked", "landed", "failed"},
                 attempt : 1 .. maxAttempts,
                 nonce : Nat \cup {NoNonce}, fee : Nat]]
    /\ \A i \in Invocations : q[i].pc \in HasNonce => q[i].nonce \in Nat
==============================================================================
