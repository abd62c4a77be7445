--------------------------- MODULE WithdrawProofs ---------------------------
(***************************************************************************)
(* The safety of Withdraw for any number of requests, pairs and attempts.  *)
(* First the queue on its own: the lock makes one invocation at a time the *)
(* reader of the stored nonce, so the nonces in use have no hole, and the  *)
(* stored one lies above every nonce whose hash was answered (NonceOrder). *)
(* On it rests the withdrawal: a hash once answered stays that transaction *)
(* (HashIsKept), so a receipt speaks of the request's own leg, and the fee *)
(* follows a payout that was made.                                         *)
(***************************************************************************)
EXTENDS Withdraw, TLAPS

Locked == {"locked", "read", "signed", "sent"}

\* Whoever is between taking the lock and the end of the transaction has it.
LockIsHeld == \A i \in Invocations : q[i].pc \in Locked => holder = i

\* One transaction to a nonce, and the nonces of the pool follow the chain's.
OnePerNonce == \A t, u \in pool : t.nonce = u.nonce => t = u
Contiguous ==
    /\ PendingCount \in Nat /\ Len(chain) =< PendingCount
    /\ PoolNonces = Len(chain) .. PendingCount - 1

Below(n) == nextNonce = NoNonce \/ nextNonce =< n

\* The stored nonce is above every nonce a hash was answered for, at or below
\* the one the lock's holder works with, and leaves no hole.
NonceOrder ==
    /\ Below(PendingCount)
    /\ \A i \in Invocations :
          /\ q[i].pc \in {"read", "signed"} => Below(q[i].nonce) /\ q[i].nonce =< PendingCount
          /\ q[i].pc = "sent" => Below(q[i].nonce) /\ q[i].nonce < PendingCount
          /\ q[i].pc = "waiting" => nextNonce # NoNonce /\ q[i].nonce < nextNonce

QueueInv == QueueTypeOK /\ LockIsHeld /\ OnePerNonce /\ Contiguous /\ NonceOrder

\* The transaction a request is sending, where the answered hash says it is.
Leg(r) == <<pairOf[r], LegOf(r)>>
Kept(r) == IF q[r].nonce < Len(chain) THEN chain[q[r].nonce + 1].call = Leg(r)
                                      ELSE Signed(r, Leg(r)) \in pool

\* A request sends while it is at a leg, and its transaction is its own.
LegsAreRelayed ==
    \A r \in Invocations :
        /\ at[r] # "new" => pairOf[r] \in Pairs
        /\ q[r].pc \in Locked \cup {"queued", "waiting"} => at[r] \in Legs
        /\ q[r].pc \in {"sent", "waiting"} => Kept(r)
        /\ q[r].pc = "landed" /\ at[r] \in Legs => Leg(r) \in Executed

Paid(p) == <<p, "payout">> \in Executed

\* A request at the fee, or after it, has a payout that was made; so has every
\* fee that is on its way.
FeesFollow ==
    /\ \A r \in Invocations :
          /\ at[r] \in {"fee", "save_paid", "save_pending"} => Paid(pairOf[r])
          /\ at[r] = "save_paid" => <<pairOf[r], "fee">> \in Executed
    /\ \A t \in pool, p \in Pairs : t.call = <<p, "fee">> => Paid(p)

Driving == Legs \cup {"undo", "save_paid", "save_pending"}

\* A request that drives a pair has its row; so no other gets past the insert.
DriversHaveRows == \A r \in Invocations : at[r] \in Driving => rows[pairOf[r]] # NoRow

\* An answer is the end of a request.
AnswersEnd == \A r \in Invocations : answer[r] # "none" => at[r] = "answered"

Inv == /\ QueueInv /\ TypeOK /\ LegsAreRelayed /\ FeesFollow /\ FeeOnlyAfterPayout
       /\ RowIsTrue /\ DriversHaveRows /\ OneDriver /\ AnswersEnd

QueuePCs == HasNonce \cup {"idle", "queued", "locked", "landed", "failed"}
QueueEntry == [pc : QueuePCs, attempt : 1 .. maxAttempts, nonce : Nat \cup {NoNonce}, fee : Nat]

USE DEF HasNonce, Locked, Legs, Driving

-----------------------------------------------------------------------------
\* What the node answers for the next nonce, when there is no hole.
LEMMA FirstFree ==
    ASSUME NEW len \in Nat, NEW nonces, NEW k \in Nat, len =< k,
           nonces = len .. k - 1
    PROVE  (CHOOSE n \in {len} \cup {m + 1 : m \in nonces} :
                n \notin nonces /\ len .. n - 1 \subseteq nonces) = k
<1> DEFINE S == {len} \cup {m + 1 : m \in nonces}
           P(n) == n \notin nonces /\ len .. n - 1 \subseteq nonces
<1>1. k \in S /\ P(k)
  <2>1. k = len \/ k - 1 \in nonces
    OBVIOUS
  <2> QED
    BY <2>1
<1>2. ASSUME NEW n \in S, P(n)
      PROVE  n = k
  <2>1. n \in Nat /\ len =< n /\ n =< k
    OBVIOUS
  <2>2. ~(n < k)
    BY <1>2, <2>1
  <2> QED
    BY <2>1, <2>2
<1> HIDE DEF S, P
<1>3. (CHOOSE n \in S : P(n)) = k
  BY <1>1, <1>2
<1> QED
  BY <1>3 DEF S, P

\* An entry that has a nonce has a number.
LEMMA NoncesTyped ==
    ASSUME QueueTypeOK, NEW i \in Invocations
    PROVE  /\ q[i] \in QueueEntry
           /\ q[i].pc \in HasNonce => q[i].nonce \in Nat
           /\ Idle \in QueueEntry /\ NoNonce \notin Nat
           /\ Len(chain) \in Nat
BY QueueAssumption DEF QueueTypeOK, QueueEntry, QueuePCs, Idle

\* An invocation that leaves the queue, or starts over in it, takes nothing
\* with it: the chain, the pool and the committed nonce stay.
Leaves(i) ==
    /\ q' \in [Invocations -> QueueEntry]
    /\ q'[i].pc \notin Locked \cup {"waiting"}
    /\ \A j \in Invocations \ {i} : q'[j] = q[j]
    /\ holder' = holder \/ (holder = i /\ holder' = Nobody)
    /\ UNCHANGED <<nextNonce, pool, chain>>

LEMMA LeavesKeeps ==
    ASSUME QueueInv, NEW i \in Invocations, Leaves(i)
    PROVE  QueueInv'
<1>1. QueueTypeOK'
  BY DEF QueueInv, QueueTypeOK, QueueEntry, QueuePCs, Leaves
<1>2. LockIsHeld'
  BY DEF QueueInv, LockIsHeld, Leaves
<1>3. OnePerNonce' /\ Contiguous'
  BY DEF QueueInv, OnePerNonce, Contiguous, PendingCount, PoolNonces, Leaves
<1>4. NonceOrder'
  <2>1. PendingCount' = PendingCount /\ nextNonce' = nextNonce
    BY DEF PendingCount, PoolNonces, Leaves
  <2> QED
    BY <2>1 DEF QueueInv, NonceOrder, Below, Leaves
<1> QED
  BY <1>1, <1>2, <1>3, <1>4 DEF QueueInv

LEMMA TakeLockKeeps ==
    ASSUME QueueInv, NEW i \in Invocations, TakeLock(i)
    PROVE  QueueInv'
<1>1. /\ holder = Nobody /\ holder' = i /\ UNCHANGED <<nextNonce, pool, chain>>
      /\ q' = [q EXCEPT ![i].pc = "locked"] /\ q[i].pc = "queued"
  BY DEF TakeLock, Step
<1>2. q' \in [Invocations -> QueueEntry] /\ q'[i].pc = "locked"
      /\ \A j \in Invocations \ {i} : q'[j] = q[j]
  BY <1>1, NoncesTyped DEF QueueInv, QueueTypeOK, QueueEntry, QueuePCs
<1>3. QueueTypeOK'
  BY <1>1, <1>2 DEF QueueInv, QueueTypeOK, QueueEntry, QueuePCs
<1>4. LockIsHeld'
  BY <1>1, <1>2, QueueAssumption DEF QueueInv, LockIsHeld
<1>5. OnePerNonce' /\ Contiguous'
  BY <1>1 DEF QueueInv, OnePerNonce, Contiguous, PendingCount, PoolNonces
<1>6. NonceOrder'
  <2>1. PendingCount' = PendingCount
    BY <1>1 DEF PendingCount, PoolNonces
  <2> QED
    BY <1>1, <1>2, <2>1 DEF QueueInv, NonceOrder, Below
<1> QED
  BY <1>3, <1>4, <1>5, <1>6 DEF QueueInv

\* The nonce read is the stored one, or the first free: never below the
\* stored one, and nothing is free below it.
LEMMA ReadNonceKeeps ==
    ASSUME QueueInv, NEW i \in Invocations, ReadNonce(i)
    PROVE  QueueInv'
<1> DEFINE n == IF Resync(i) \/ nextNonce = NoNonce THEN PendingCount ELSE nextNonce
<1>1. /\ UNCHANGED <<holder, nextNonce, pool, chain>> /\ q[i].pc = "locked"
      /\ q' = [q EXCEPT ![i].pc = "read", ![i].nonce = n]
  BY DEF ReadNonce
<1>2. n \in Nat /\ n =< PendingCount /\ Below(n)
  BY DEF QueueInv, QueueTypeOK, Contiguous, NonceOrder, Below
<1> HIDE DEF n
<1>3. q' \in [Invocations -> QueueEntry] /\ q'[i].pc = "read" /\ q'[i].nonce = n
      /\ \A j \in Invocations \ {i} : q'[j] = q[j]
  BY <1>1, <1>2, NoncesTyped DEF QueueInv, QueueTypeOK, QueueEntry, QueuePCs
<1>4. QueueTypeOK'
  BY <1>1, <1>2, <1>3 DEF QueueInv, QueueTypeOK, QueueEntry, QueuePCs
<1>5. LockIsHeld'
  BY <1>1, <1>3 DEF QueueInv, LockIsHeld
<1>6. OnePerNonce' /\ Contiguous'
  BY <1>1 DEF QueueInv, OnePerNonce, Contiguous, PendingCount, PoolNonces
<1>7. NonceOrder'
  <2>1. PendingCount' = PendingCount
    BY <1>1 DEF PendingCount, PoolNonces
  <2> QED
    BY <1>1, <1>2, <1>3, <2>1 DEF QueueInv, NonceOrder, Below
<1> QED
  BY <1>4, <1>5, <1>6, <1>7 DEF QueueInv

LEMMA SignKeeps ==
    ASSUME QueueInv, NEW i \in Invocations, NEW level \in FeeLevels,
           q[i].pc = "read", UNCHANGED <<holder, nextNonce, pool, chain>>,
           q' = [q EXCEPT ![i].pc = "signed", ![i].fee = level + Bumps(i)]
    PROVE  QueueInv'
<1>1. level + Bumps(i) \in Nat
  BY QueueAssumption, NoncesTyped DEF Bumps, QueueInv, QueueEntry
<1>2. q' \in [Invocations -> QueueEntry] /\ q'[i].pc = "signed" /\ q'[i].nonce = q[i].nonce
      /\ \A j \in Invocations \ {i} : q'[j] = q[j]
  BY <1>1, NoncesTyped DEF QueueInv, QueueTypeOK, QueueEntry, QueuePCs
<1>3. QueueTypeOK'
  BY <1>1, <1>2 DEF QueueInv, QueueTypeOK, QueueEntry, QueuePCs
<1>4. LockIsHeld'
  BY <1>2 DEF QueueInv, LockIsHeld
<1>5. OnePerNonce' /\ Contiguous'
  BY <1>1 DEF QueueInv, OnePerNonce, Contiguous, PendingCount, PoolNonces
<1>6. NonceOrder'
  <2>1. PendingCount' = PendingCount
    BY <1>1 DEF PendingCount, PoolNonces
  <2> QED
    BY <1>1, <1>2, <2>1 DEF QueueInv, NonceOrder, Below
<1> QED
  BY <1>3, <1>4, <1>5, <1>6 DEF QueueInv

\* What the node accepts replaces the transaction at its nonce, or takes the
\* first free one: still one to a nonce, still no hole.
LEMMA BroadcastKeeps ==
    ASSUME QueueInv, NEW i \in Invocations, NEW call \in Calls, Broadcast(i, call)
    PROVE  QueueInv'
<1> DEFINE n == q[i].nonce
           k == IF n = PendingCount THEN PendingCount + 1 ELSE PendingCount
<1>1. /\ UNCHANGED <<holder, nextNonce, chain>> /\ q[i].pc = "signed"
      /\ q' = [q EXCEPT ![i].pc = "sent"]
      /\ pool' = (pool \ Rivals(i)) \cup {Signed(i, call)}
      /\ n >= Len(chain)
  BY NoncesTyped DEF Broadcast, Step, IsNonceError, QueueInv
<1>2. n \in Nat /\ n =< PendingCount /\ Below(n) /\ PendingCount \in Nat
      /\ Len(chain) \in Nat /\ Len(chain) =< PendingCount
  BY <1>1, NoncesTyped DEF QueueInv, NonceOrder, Contiguous
<1>3. /\ q' \in [Invocations -> QueueEntry] /\ q'[i].pc = "sent" /\ q'[i].nonce = n
      /\ \A j \in Invocations \ {i} : q'[j] = q[j]
  BY <1>1, <1>2, NoncesTyped DEF QueueInv, QueueTypeOK, QueueEntry, QueuePCs
<1>4. Signed(i, call) \in Tx /\ Signed(i, call).nonce = n
  BY <1>2, NoncesTyped DEF Signed, Tx, QueueInv, QueueEntry
<1>5. \A t \in pool' : t = Signed(i, call) \/ (t \in pool /\ t.nonce # n)
  BY <1>1 DEF Rivals
<1>6. PoolNonces' = PoolNonces \cup {n}
  BY <1>1, <1>4 DEF PoolNonces, Rivals
<1>7. PoolNonces' = Len(chain) .. k - 1 /\ k \in Nat /\ Len(chain) =< k
  BY <1>1, <1>2, <1>6 DEF QueueInv, Contiguous
<1> HIDE DEF n, k
<1>8. PendingCount' = k
  BY <1>1, <1>2, <1>7, FirstFree DEF PendingCount
<1>9. QueueTypeOK'
  <2>1. pool' \subseteq Tx
    BY <1>4, <1>5 DEF QueueInv, QueueTypeOK
  <2> QED
    BY <1>1, <1>2, <1>3, <2>1 DEF QueueInv, QueueTypeOK, QueueEntry, QueuePCs
<1>10. LockIsHeld'
  BY <1>1, <1>3 DEF QueueInv, LockIsHeld
<1>11. OnePerNonce'
  BY <1>4, <1>5 DEF QueueInv, OnePerNonce
<1>12. Contiguous'
  BY <1>1, <1>7, <1>8 DEF Contiguous
<1>13. NonceOrder'
  <2>1. PendingCount =< k /\ n < k
    BY <1>2 DEF k
  <2>2. \A j \in Invocations : q[j].pc \in HasNonce => q[j].nonce \in Nat
    BY NoncesTyped DEF QueueInv
  <2>3. nextNonce = NoNonce \/ nextNonce \in Nat
    BY DEF QueueInv, QueueTypeOK
  <2>4. Below(PendingCount) /\ \A j \in Invocations :
          /\ q[j].pc \in {"read", "signed"} => Below(q[j].nonce) /\ q[j].nonce =< PendingCount
          /\ q[j].pc = "sent" => Below(q[j].nonce) /\ q[j].nonce < PendingCount
          /\ q[j].pc = "waiting" => nextNonce # NoNonce /\ q[j].nonce < nextNonce
    BY DEF QueueInv, NonceOrder
  <2>5. Below(k)
    BY <1>2, <1>7, <2>1, <2>3, <2>4 DEF Below
  <2> SUFFICES ASSUME NEW j \in Invocations
               PROVE  /\ q'[j].pc \in {"read", "signed"} => Below(q'[j].nonce) /\ q'[j].nonce =< k
                      /\ q'[j].pc = "sent" => Below(q'[j].nonce) /\ q'[j].nonce < k
                      /\ q'[j].pc = "waiting" => nextNonce # NoNonce /\ q'[j].nonce < nextNonce
    BY <1>1, <1>8, <2>5 DEF NonceOrder, Below
  <2>6. CASE j = i
    BY <1>2, <1>3, <2>1, <2>6
  <2>7. CASE j # i
    BY <1>2, <1>3, <1>7, <2>1, <2>2, <2>4, <2>7
  <2> QED
    BY <2>6, <2>7
<1> QED
  BY <1>9, <1>10, <1>11, <1>12, <1>13 DEF QueueInv

\* The commit stores the next nonce: above all that were answered, and the
\* lock kept every other invocation from reading the old one.
LEMMA CommitKeeps ==
    ASSUME QueueInv, NEW i \in Invocations, Commit(i)
    PROVE  QueueInv'
<1> DEFINE n == q[i].nonce
<1>1. /\ UNCHANGED <<pool, chain>> /\ q[i].pc = "sent" /\ nextNonce' = n + 1
      /\ q' = [q EXCEPT ![i].pc = "waiting"]
      /\ holder' = (IF holder = i THEN Nobody ELSE holder) /\ holder = i
  BY DEF Commit, Step, Unlock, QueueInv, LockIsHeld
<1>2. n \in Nat /\ n < PendingCount /\ Below(n) /\ PendingCount \in Nat
  BY <1>1, NoncesTyped DEF QueueInv, NonceOrder, Contiguous
<1>3. /\ q' \in [Invocations -> QueueEntry] /\ q'[i].pc = "waiting" /\ q'[i].nonce = n
      /\ \A j \in Invocations \ {i} : q'[j] = q[j]
  BY <1>1, <1>2, NoncesTyped DEF QueueInv, QueueTypeOK, QueueEntry, QueuePCs
<1>4. \A j \in Invocations \ {i} : q[j].pc \notin Locked
  BY <1>1 DEF QueueInv, LockIsHeld
<1> HIDE DEF n
<1>5. QueueTypeOK'
  BY <1>1, <1>2, <1>3 DEF QueueInv, QueueTypeOK, QueueEntry, QueuePCs
<1>6. LockIsHeld'
  BY <1>3, <1>4 DEF LockIsHeld
<1>7. OnePerNonce' /\ Contiguous'
  BY <1>1 DEF QueueInv, OnePerNonce, Contiguous, PendingCount, PoolNonces
<1>8. NonceOrder'
  <2>1. PendingCount' = PendingCount
    BY <1>1 DEF PendingCount, PoolNonces
  <2>2. nextNonce' \in Nat /\ nextNonce' # NoNonce /\ n < nextNonce' /\ nextNonce' =< PendingCount
    BY <1>1, <1>2, QueueAssumption
  <2>3. nextNonce # NoNonce => nextNonce =< n /\ nextNonce \in Nat
    BY <1>2 DEF Below, QueueInv, QueueTypeOK
  <2>4. \A j \in Invocations \ {i} :
            q'[j].pc = "waiting" => q'[j].nonce \in Nat /\ q'[j].nonce < nextNonce'
    BY <1>1, <1>2, <1>3, <2>3, NoncesTyped DEF QueueInv, NonceOrder
  <2> QED
    BY <1>3, <1>4, <2>1, <2>2, <2>4 DEF NonceOrder, Below
<1> QED
  BY <1>5, <1>6, <1>7, <1>8 DEF QueueInv

\* A block moves the transaction at the chain's next nonce from the pool.
LEMMA MineKeeps ==
    ASSUME QueueInv, Mine
    PROVE  /\ QueueInv' /\ PendingCount' = PendingCount
           /\ \E t \in pool :
                 /\ t.nonce = Len(chain) /\ pool' = pool \ {t}
                 /\ Len(chain') = Len(chain) + 1
                 /\ \A m \in 1 .. Len(chain) : chain'[m] = chain[m]
                 /\ chain'[Len(chain) + 1].call = t.call
                 /\ chain' \in Seq(MinedTx)
<1>1. PICK t \in pool, ok \in BOOLEAN :
          /\ t.nonce = Len(chain) /\ pool' = pool \ {t}
          /\ chain' = Append(chain, [call |-> t.call, ok |-> ok])
  BY DEF Mine
<1>2. UNCHANGED <<holder, nextNonce, q>>
  BY DEF Mine
<1>3. chain \in Seq(MinedTx) /\ Len(chain) \in Nat
      /\ [call |-> t.call, ok |-> ok] \in MinedTx
  BY DEF QueueInv, QueueTypeOK, Tx, MinedTx
<1>4. /\ Len(chain') = Len(chain) + 1 /\ chain' \in Seq(MinedTx)
      /\ \A m \in 1 .. Len(chain) : chain'[m] = chain[m]
      /\ chain'[Len(chain) + 1] = [call |-> t.call, ok |-> ok]
  BY <1>1, <1>3
<1>5. PoolNonces' = PoolNonces \ {Len(chain)}
  <2>1. \A u \in pool : u.nonce = Len(chain) => u = t
    BY <1>1 DEF QueueInv, OnePerNonce
  <2> QED
    BY <1>1, <2>1 DEF PoolNonces
<1>6. Len(chain) \in PoolNonces
  BY <1>1 DEF PoolNonces
<1>7. /\ PendingCount \in Nat /\ Len(chain') =< PendingCount
      /\ PoolNonces' = Len(chain') .. PendingCount - 1
  BY <1>3, <1>4, <1>5, <1>6 DEF QueueInv, Contiguous
<1>8. PendingCount' = PendingCount
  <2> DEFINE k == PendingCount
  <2>1. k \in Nat /\ Len(chain') \in Nat /\ Len(chain') =< k /\ PoolNonces' = Len(chain') .. k - 1
    BY <1>3, <1>4, <1>7
  <2> HIDE DEF k
  <2>2. PendingCount' = k
    BY <2>1, FirstFree DEF PendingCount
  <2> QED
    BY <2>2 DEF k
<1>9. QueueInv'
  <2>1. QueueTypeOK'
    BY <1>1, <1>2, <1>4 DEF QueueInv, QueueTypeOK
  <2>2. LockIsHeld' /\ OnePerNonce'
    BY <1>1, <1>2 DEF QueueInv, LockIsHeld, OnePerNonce
  <2>3. Contiguous'
    BY <1>7, <1>8 DEF Contiguous
  <2>4. NonceOrder'
    BY <1>2, <1>8 DEF QueueInv, NonceOrder, Below
  <2> QED
    BY <2>1, <2>2, <2>3, <2>4 DEF QueueInv
<1> QED
  BY <1>1, <1>4, <1>8, <1>9

-----------------------------------------------------------------------------
\* The first state.
LEMMA InitInv == Init => Inv
<1> SUFFICES ASSUME Init PROVE Inv
  OBVIOUS
<1>1. /\ chain = <<>> /\ pool = {} /\ Len(chain) = 0 /\ PoolNonces = {} /\ Executed = {}
      /\ \A r \in Invocations : q[r] = Idle
  BY DEF Init, QueueInit, PoolNonces, Executed
<1>2. QueueInv
  <2>1. Idle \in QueueEntry /\ Idle.pc = "idle"
    BY QueueAssumption DEF Idle, QueueEntry, QueuePCs
  <2>2. QueueTypeOK
    <3>1. q \in [Invocations -> QueueEntry]
      BY <2>1 DEF Init, QueueInit
    <3>2. chain \in Seq(MinedTx) /\ pool \subseteq Tx
      BY <1>1
    <3> QED
      BY <1>1, <2>1, <3>1, <3>2 DEF Init, QueueInit, QueueTypeOK, QueueEntry, QueuePCs
  <2>3. PendingCount = 0
    <3>1. 0 \in Nat /\ PoolNonces = 0 .. 0 - 1
      BY <1>1
    <3> QED
      BY <1>1, <3>1, FirstFree DEF PendingCount
  <2>4. LockIsHeld /\ OnePerNonce
    BY <1>1, <2>1 DEF LockIsHeld, OnePerNonce
  <2>5. Contiguous
    BY <1>1, <2>3 DEF Contiguous
  <2>6. NonceOrder
    BY <1>1, <2>1 DEF Init, QueueInit, NonceOrder, Below
  <2> QED
    BY <2>2, <2>4, <2>5, <2>6 DEF QueueInv
<1>3. TypeOK
  BY <1>2 DEF Init, TypeOK, QueueInv, Places, Answers
<1>4. LegsAreRelayed /\ FeesFollow /\ DriversHaveRows /\ AnswersEnd
  BY <1>1 DEF Init, Idle, LegsAreRelayed, FeesFollow, DriversHaveRows, AnswersEnd
<1>5. FeeOnlyAfterPayout /\ RowIsTrue /\ OneDriver
  BY <1>1 DEF Init, FeeOnlyAfterPayout, RowIsTrue, OneDriver
<1> QED
  BY <1>2, <1>3, <1>4, <1>5 DEF Inv

-----------------------------------------------------------------------------
\* A step of the queue for one request, with what it has to show of its own
\* transaction, of the others' and of the fees on their way.
LEMMA RelayKeeps ==
    ASSUME Inv, QueueInv', NEW r \in Invocations, at[r] \in Legs,
           UNCHANGED <<chain, withdrawVars>>,
           \A s \in Invocations \ {r} :
               q'[s] = q[s] /\ (q[s].pc \in {"sent", "waiting"} => Kept(s)'),
           q'[r].pc \in {"sent", "waiting"} => Kept(r)',
           q'[r].pc = "landed" => Leg(r) \in Executed,
           \A t \in pool', p \in Pairs : t.call = <<p, "fee">> => Paid(p)
    PROVE  Inv'
<1>1. UNCHANGED <<at, pairOf, rows, answer, chain>> /\ Executed' = Executed
  BY DEF withdrawVars, Executed
<1>2. TypeOK'
  BY <1>1 DEF Inv, TypeOK, QueueInv
<1>3. LegsAreRelayed'
  BY <1>1 DEF Inv, LegsAreRelayed, Leg, LegOf
<1>4. FeesFollow'
  BY <1>1 DEF Inv, FeesFollow, Paid
<1>5. FeeOnlyAfterPayout' /\ RowIsTrue' /\ DriversHaveRows' /\ OneDriver' /\ AnswersEnd'
  BY <1>1 DEF Inv, FeeOnlyAfterPayout, RowIsTrue, DriversHaveRows, OneDriver, AnswersEnd
<1> QED
  BY <1>2, <1>3, <1>4, <1>5 DEF Inv

\* Where nothing enters or leaves the pool, the others' transactions stay.
LEMMA OthersKept ==
    ASSUME NEW r \in Invocations, UNCHANGED <<pool, chain, at, pairOf>>, q'[r] = q[r]
    PROVE  Kept(r)' <=> Kept(r)
BY DEF Kept, Leg, LegOf, Signed

LEMMA PoolStays ==
    ASSUME Inv, QueueInv', NEW r \in Invocations, at[r] \in Legs,
           UNCHANGED <<pool, chain, withdrawVars>>,
           \A s \in Invocations \ {r} : q'[s] = q[s],
           q'[r].pc \in {"sent", "waiting"} => Kept(r)',
           q'[r].pc = "landed" => Leg(r) \in Executed
    PROVE  Inv'
<1>1. UNCHANGED <<at, pairOf>>
  BY DEF withdrawVars
<1>2. \A s \in Invocations \ {r} : q[s].pc \in {"sent", "waiting"} => Kept(s)'
  BY <1>1, OthersKept DEF Inv, LegsAreRelayed
<1>3. \A t \in pool', p \in Pairs : t.call = <<p, "fee">> => Paid(p)
  BY DEF Inv, FeesFollow
<1> QED
  BY <1>2, <1>3, RelayKeeps

\* A request's turn is over, or starts again.
LEMMA LeavesRelay ==
    ASSUME Inv, NEW r \in Invocations, at[r] \in Legs, Leaves(r), UNCHANGED withdrawVars,
           q'[r].pc = "landed" => Leg(r) \in Executed
    PROVE  Inv'
<1>1. QueueInv'
  BY LeavesKeeps DEF Inv
<1> QED
  BY <1>1, PoolStays DEF Leaves

\* The ways a turn ends, or starts again, without a receipt.
LEMMA ThrowLeaves ==
    ASSUME QueueInv, NEW i \in Invocations,
           Throw(i) \/ Begin(i) \/ q' = [q EXCEPT ![i] = Idle]
              \/ (q[i].attempt < maxAttempts
                  /\ q' = [q EXCEPT ![i] = [Idle EXCEPT !.pc = "queued",
                                                        !.attempt = q[i].attempt + 1]]),
           UNCHANGED holder \/ Unlock(i), UNCHANGED <<nextNonce, pool, chain>>
    PROVE  Leaves(i) /\ q'[i].pc \in {"failed", "queued", "idle"}
<1>1. q \in [Invocations -> QueueEntry] /\ q[i] \in QueueEntry /\ Idle \in QueueEntry
  BY NoncesTyped DEF QueueInv, QueueTypeOK, QueueEntry, QueuePCs
<1>2. PICK e \in QueueEntry :
          q' = [q EXCEPT ![i] = e] /\ e.pc \in {"failed", "queued", "idle"}
  <2> DEFINE f == [Idle EXCEPT !.pc = "failed"]
             b == [Idle EXCEPT !.pc = "queued"]
  <2>0. /\ f \in QueueEntry /\ f.pc = "failed"
        /\ b \in QueueEntry /\ b.pc = "queued" /\ Idle.pc = "idle"
    BY <1>1 DEF Idle, QueueEntry, QueuePCs
  <2>1. CASE Throw(i) \/ Begin(i) \/ q' = [q EXCEPT ![i] = Idle]
    <3>1. q' = [q EXCEPT ![i] = f] \/ q' = [q EXCEPT ![i] = b] \/ q' = [q EXCEPT ![i] = Idle]
      BY <2>1 DEF Throw, Begin
    <3> QED
      BY <1>1, <2>0, <3>1
  <2>2. CASE q[i].attempt < maxAttempts
             /\ q' = [q EXCEPT ![i] = [Idle EXCEPT !.pc = "queued",
                                                   !.attempt = q[i].attempt + 1]]
    <3>1. q[i].attempt + 1 \in 1 .. maxAttempts
      BY <1>1, <2>2, QueueAssumption DEF QueueEntry
    <3>2. PICK g : g = [Idle EXCEPT !.pc = "queued", !.attempt = q[i].attempt + 1]
      OBVIOUS
    <3>3. g \in QueueEntry /\ g.pc = "queued"
      BY <1>1, <3>1, <3>2 DEF QueueEntry, QueuePCs
    <3>4. q' = [q EXCEPT ![i] = g]
      BY <2>2, <3>2, Zenon
    <3> QED
      BY <3>3, <3>4
  <2> QED
    BY <2>1, <2>2
<1>3. holder' = holder \/ (holder = i /\ holder' = Nobody)
  BY DEF Unlock
<1> QED
  BY <1>1, <1>2, <1>3 DEF Leaves

LEMMA LegIsCall ==
    ASSUME Inv, NEW r \in Invocations, at[r] \in Legs
    PROVE  pairOf[r] \in Pairs /\ Leg(r) \in Calls
BY WithdrawAssumption DEF Inv, LegsAreRelayed, Leg, LegOf

\* The node takes the request's transaction.  It replaces no transaction whose
\* hash was answered: those lie below the stored nonce.
LEMMA BroadcastRelays ==
    ASSUME Inv, NEW r \in Invocations, at[r] \in Legs, Broadcast(r, Leg(r)),
           UNCHANGED withdrawVars
    PROVE  Inv'
<1>1. QueueInv'
  BY LegIsCall, BroadcastKeeps DEF Inv
<1>2. /\ UNCHANGED <<holder, nextNonce, chain, at, pairOf>> /\ q[r].pc = "signed"
      /\ q' = [q EXCEPT ![r].pc = "sent"]
      /\ pool' = (pool \ Rivals(r)) \cup {Signed(r, Leg(r))}
      /\ ~(q[r].nonce < Len(chain))
  BY DEF Broadcast, Step, IsNonceError, withdrawVars
<1>3. /\ \A s \in Invocations \ {r} : q'[s] = q[s]
      /\ q'[r].pc = "sent" /\ q'[r].nonce = q[r].nonce /\ q'[r].fee = q[r].fee
  BY <1>2, NoncesTyped DEF Inv, QueueInv, QueueTypeOK, QueueEntry
<1>4. Kept(r)'
  BY <1>2, <1>3 DEF Kept, Signed, Leg, LegOf
<1>5. ASSUME NEW s \in Invocations \ {r}, q[s].pc \in {"sent", "waiting"}
      PROVE  Kept(s)'
  <2>1. q[s].pc = "waiting"
    BY <1>2, <1>5 DEF Inv, QueueInv, LockIsHeld
  <2>2. q[s].nonce # q[r].nonce
    <3>1. nextNonce # NoNonce /\ q[s].nonce < nextNonce /\ nextNonce =< q[r].nonce
      BY <1>2, <2>1 DEF Inv, QueueInv, NonceOrder, Below
    <3>2. q[s].nonce \in Nat /\ q[r].nonce \in Nat /\ nextNonce \in Nat
      BY <1>2, <2>1, <3>1, NoncesTyped DEF Inv, QueueInv, QueueTypeOK
    <3> QED
      BY <3>1, <3>2
  <2>3. Kept(s)
    BY <2>1 DEF Inv, LegsAreRelayed
  <2>4. Signed(s, Leg(s)) \notin Rivals(r)
    BY <2>2 DEF Rivals, Signed
  <2>5. Signed(s, Leg(s))' = Signed(s, Leg(s)) /\ Leg(s)' = Leg(s)
    BY <1>2, <1>3 DEF Signed, Leg, LegOf
  <2> QED
    BY <1>2, <1>3, <2>3, <2>4, <2>5 DEF Kept
<1>6. ASSUME NEW t \in pool', NEW p \in Pairs, t.call = <<p, "fee">>
      PROVE  Paid(p)
  <2>1. CASE t \in pool
    BY <1>6, <2>1 DEF Inv, FeesFollow
  <2>2. CASE t = Signed(r, Leg(r))
    <3>1. Leg(r) = <<p, "fee">>
      BY <1>6, <2>2 DEF Signed
    <3>2. pairOf[r] = p /\ at[r] = "fee"
      BY <3>1 DEF Leg, LegOf
    <3> QED
      BY <3>2 DEF Inv, FeesFollow
  <2> QED
    BY <1>2, <2>1, <2>2
<1>7. q'[r].pc # "landed"
  BY <1>3
<1> QED
  BY <1>1, <1>2, <1>3, <1>4, <1>5, <1>6, <1>7, RelayKeeps

\* The receipt is of the request's own transaction.
LEMMA ReceiptRelays ==
    ASSUME Inv, NEW r \in Invocations, at[r] \in Legs, Receipt(r), UNCHANGED withdrawVars
    PROVE  Inv'
<1> DEFINE n == q[r].nonce
           e == [q[r] EXCEPT !.pc = IF chain[n + 1].ok THEN "landed" ELSE "failed"]
<1>1. /\ UNCHANGED <<holder, nextNonce, pool, chain>> /\ q[r].pc = "waiting"
      /\ n < Len(chain) /\ q' = [q EXCEPT ![r] = e]
  BY DEF Receipt
<1>2. q[r] \in QueueEntry /\ e \in QueueEntry /\ e.pc \in {"landed", "failed"}
      /\ (e.pc = "landed" => chain[n + 1].ok)
  BY NoncesTyped DEF Inv, QueueInv, QueueEntry, QueuePCs
<1>3. Leaves(r) /\ q'[r] = e
  <2>1. q \in [Invocations -> QueueEntry]
    BY DEF Inv, QueueInv, QueueTypeOK, QueueEntry, QueuePCs
  <2> QED
    BY <1>1, <1>2, <2>1 DEF Leaves
<1>4. q'[r].pc = "landed" => Leg(r) \in Executed
  <2>1. n \in Nat /\ Len(chain) \in Nat
    BY <1>1, NoncesTyped DEF Inv, QueueInv
  <2>2. n + 1 \in DOMAIN chain
    BY <1>1, <2>1 DEF Inv, QueueInv, QueueTypeOK
  <2>3. chain[n + 1].call = Leg(r)
    BY <1>1 DEF Inv, LegsAreRelayed, Kept
  <2> QED
    BY <1>2, <1>3, <2>2, <2>3 DEF Executed
<1> QED
  BY <1>3, <1>4, LeavesRelay

\* Every step of the queue keeps the invariant.
LEMMA RelayStep ==
    ASSUME Inv, NEW r \in Invocations, Relay(r)
    PROVE  Inv'
<1>1. at[r] \in Legs /\ Send(r, Leg(r)) /\ UNCHANGED withdrawVars
  BY DEF Relay, Leg
<1>2. QueueInv /\ QueueTypeOK /\ q \in [Invocations -> QueueEntry] /\ q[r] \in QueueEntry
  BY NoncesTyped DEF Inv, QueueInv, QueueTypeOK, QueueEntry, QueuePCs
<1>3. CASE TakeLock(r)
  <2>1. QueueInv'
    BY <1>2, <1>3, TakeLockKeeps
  <2>2. UNCHANGED <<pool, chain>> /\ q' = [q EXCEPT ![r].pc = "locked"]
    BY <1>3 DEF TakeLock, Step
  <2> QED
    BY <1>1, <1>2, <2>1, <2>2, PoolStays DEF QueueEntry
<1>4. CASE LockTimesOut(r) \/ SendFails(r) \/ ReceiptTimesOut(r)
  <2>1. Throw(r) /\ (UNCHANGED holder \/ Unlock(r)) /\ UNCHANGED <<nextNonce, pool, chain>>
    BY <1>4 DEF LockTimesOut, SendFails, ReceiptTimesOut, RollBack
  <2>2. Leaves(r) /\ q'[r].pc # "landed"
    BY <1>2, <2>1, ThrowLeaves
  <2> QED
    BY <1>1, <2>2, LeavesRelay
<1>5. CASE ReadNonce(r)
  <2>1. QueueInv'
    BY <1>2, <1>5, ReadNonceKeeps
  <2>2. UNCHANGED <<pool, chain>> /\ q'[r].pc = "read"
        /\ \A s \in Invocations \ {r} : q'[s] = q[s]
    BY <1>2, <1>5 DEF ReadNonce, QueueEntry
  <2> QED
    BY <1>1, <2>1, <2>2, PoolStays
<1>6. CASE Estimate(r, Leg(r))
  <2>1. CASE Throw(r) /\ Unlock(r)
    <3>1. UNCHANGED <<nextNonce, pool, chain>>
      BY <1>6 DEF Estimate
    <3>2. Leaves(r) /\ q'[r].pc # "landed"
      BY <1>2, <2>1, <3>1, ThrowLeaves
    <3> QED
      BY <1>1, <3>2, LeavesRelay
  <2>2. CASE ~(Throw(r) /\ Unlock(r))
    <3>1. PICK level \in FeeLevels :
            q' = [q EXCEPT ![r].pc = "signed", ![r].fee = level + Bumps(r)]
      BY <1>6, <2>2 DEF Estimate
    <3>2. q[r].pc = "read" /\ UNCHANGED <<holder, nextNonce, pool, chain>>
      BY <1>6, <2>2 DEF Estimate
    <3>3. QueueInv'
      BY <1>2, <3>1, <3>2, SignKeeps
    <3>4. q'[r].pc = "signed" /\ \A s \in Invocations \ {r} : q'[s] = q[s]
      BY <1>2, <3>1 DEF QueueEntry
    <3> QED
      BY <1>1, <3>2, <3>3, <3>4, PoolStays
  <2> QED
    BY <2>1, <2>2
<1>7. CASE Broadcast(r, Leg(r))
  BY <1>1, <1>7, BroadcastRelays
<1>8. CASE Retry(r)
  <2>1. Unlock(r) /\ UNCHANGED <<nextNonce, pool, chain>>
    BY <1>8 DEF Retry, RollBack
  <2>2. Leaves(r) /\ q'[r].pc # "landed"
    BY <1>2, <1>8, <2>1, ThrowLeaves DEF Retry
  <2> QED
    BY <1>1, <2>2, LeavesRelay
<1>9. CASE Commit(r)
  <2>1. QueueInv'
    BY <1>2, <1>9, CommitKeeps
  <2>2. UNCHANGED <<pool, chain, at, pairOf>> /\ q[r].pc = "sent"
        /\ q' = [q EXCEPT ![r].pc = "waiting"]
    BY <1>1, <1>9 DEF Commit, Step, withdrawVars
  <2>3. /\ \A s \in Invocations \ {r} : q'[s] = q[s]
        /\ q'[r].pc = "waiting" /\ q'[r].nonce = q[r].nonce /\ q'[r].fee = q[r].fee
    BY <1>2, <2>2 DEF QueueEntry
  <2>4. Kept(r)'
    <3>1. Kept(r)
      BY <2>2 DEF Inv, LegsAreRelayed
    <3> QED
      BY <2>2, <2>3, <3>1 DEF Kept, Signed, Leg, LegOf
  <2> QED
    BY <1>1, <2>1, <2>2, <2>3, <2>4, PoolStays
<1>10. CASE Receipt(r)
  BY <1>1, <1>10, ReceiptRelays
<1> QED
  BY <1>1, <1>3, <1>4, <1>5, <1>6, <1>7, <1>8, <1>9, <1>10 DEF Send

-----------------------------------------------------------------------------
\* What a step of the handler of one request, outside the queue, has to show of
\* the request's place, its answer and the rows.
HandlerMoves(r, to, p, a) ==
    /\ to \in Places /\ p \in Pairs /\ a \in Answers
    /\ at' = [at EXCEPT ![r] = to]
    /\ pairOf' = [pairOf EXCEPT ![r] = p]
    /\ answer' = [answer EXCEPT ![r] = a]
    /\ q'[r].pc = "queued" => to \in Legs
    /\ q'[r].pc = "landed" => to \notin Legs
    /\ to \in {"fee", "save_paid", "save_pending"} => Paid(p)
    /\ to = "save_paid" => <<p, "fee">> \in Executed
    /\ to \in Driving => rows'[p] # NoRow
    /\ \A s \in Invocations \ {r} :
          at[s] \in Driving => rows'[pairOf[s]] # NoRow /\ (to \in Driving => pairOf[s] # p)
    /\ rows' \in [Pairs -> Rows \cup {NoRow}]
    /\ \A x \in Pairs : rows'[x] # NoRow =>
          (rows'[x].payoutTx => Paid(x)) /\ (rows'[x].feeTx => <<x, "fee">> \in Executed)
    /\ a \in {"paid", "replay"} => Paid(p)
    /\ a # "none" => to = "answered"

LEMMA HandlerKeeps ==
    ASSUME Inv, NEW r \in Invocations, Leaves(r), NEW to, NEW p, NEW a,
           HandlerMoves(r, to, p, a)
    PROVE  Inv'
<1> USE DEF HandlerMoves
<1>1. QueueInv'
  BY LeavesKeeps DEF Inv
<1>2. /\ at \in [Invocations -> Places] /\ pairOf \in [Invocations -> Pairs \cup {NoPair}]
      /\ answer \in [Invocations -> Answers]
  BY DEF Inv, TypeOK
<1>3. /\ at'[r] = to /\ pairOf'[r] = p /\ answer'[r] = a
      /\ \A s \in Invocations \ {r} :
            at'[s] = at[s] /\ pairOf'[s] = pairOf[s] /\ answer'[s] = answer[s] /\ q'[s] = q[s]
  BY <1>2 DEF Leaves
<1>4. UNCHANGED <<pool, chain>> /\ Executed' = Executed
  BY DEF Leaves, Executed
<1>5. TypeOK'
  BY <1>1, <1>2 DEF TypeOK, QueueInv
<1>6. LegsAreRelayed'
  <2> SUFFICES ASSUME NEW s \in Invocations
               PROVE  /\ at'[s] # "new" => pairOf'[s] \in Pairs
                      /\ q'[s].pc \in Locked \cup {"queued", "waiting"} => at'[s] \in Legs
                      /\ q'[s].pc \in {"sent", "waiting"} => Kept(s)'
                      /\ q'[s].pc = "landed" /\ at'[s] \in Legs => Leg(s)' \in Executed'
    BY DEF LegsAreRelayed
  <2>1. CASE s = r
    BY <1>3, <2>1 DEF Leaves
  <2>2. CASE s # r
    <3>1. Leg(s)' = Leg(s) /\ Signed(s, Leg(s))' = Signed(s, Leg(s))
      BY <1>3, <2>2 DEF Leg, LegOf, Signed
    <3>2. Kept(s)' <=> Kept(s)
      BY <1>3, <1>4, <2>2, <3>1 DEF Kept
    <3> QED
      BY <1>3, <1>4, <2>2, <3>1, <3>2 DEF Inv, LegsAreRelayed
  <2> QED
    BY <2>1, <2>2
<1>7. FeesFollow' /\ FeeOnlyAfterPayout'
  BY <1>3, <1>4 DEF Inv, FeesFollow, FeeOnlyAfterPayout, Paid
<1>8. RowIsTrue'
  <2>1. \A s \in Invocations : answer'[s] \in {"paid", "replay"} => Paid(pairOf'[s])
    BY <1>3 DEF Inv, RowIsTrue, Paid
  <2> QED
    BY <1>4, <2>1 DEF RowIsTrue, Paid
<1>9. DriversHaveRows' /\ OneDriver'
  BY <1>3 DEF Inv, DriversHaveRows, OneDriver
<1>10. AnswersEnd'
  <2> SUFFICES ASSUME NEW s \in Invocations, answer'[s] # "none" PROVE at'[s] = "answered"
    BY DEF AnswersEnd
  <2> QED
    BY <1>3 DEF Inv, AnswersEnd
<1> QED
  BY <1>1, <1>5, <1>6, <1>7, <1>8, <1>9, <1>10 DEF Inv

\* A request that is at no leg, or whose transaction has ended, is not in the
\* queue: what its handler does leaves the queue alone.
LEMMA StaysLeaves ==
    ASSUME Inv, NEW r \in Invocations, UNCHANGED queueVars,
           at[r] \notin Legs \/ q[r].pc \in {"landed", "failed"}
    PROVE  Leaves(r) /\ q'[r] = q[r] /\ q'[r].pc # "queued"
BY DEF queueVars, Inv, LegsAreRelayed, QueueInv, QueueTypeOK, QueueEntry, QueuePCs, Leaves

\* What the invariant says of a request that is past its first step.
LEMMA Begun ==
    ASSUME Inv, NEW r \in Invocations, at[r] \notin {"new", "answered"}
    PROVE  /\ pairOf[r] \in Pairs /\ answer[r] = "none"
           /\ pairOf = [pairOf EXCEPT ![r] = pairOf[r]]
           /\ answer = [answer EXCEPT ![r] = "none"]
BY DEF Inv, TypeOK, LegsAreRelayed, AnswersEnd

\* What it says of the rows, and of the others that drive a pair.
LEMMA RowsTold ==
    ASSUME Inv
    PROVE  /\ rows \in [Pairs -> Rows \cup {NoRow}]
           /\ \A x \in Pairs : rows[x] # NoRow =>
                 (rows[x].payoutTx => Paid(x)) /\ (rows[x].feeTx => <<x, "fee">> \in Executed)
           /\ \A s \in Invocations : at[s] \in Driving => rows[pairOf[s]] # NoRow
           /\ \A r, s \in Invocations :
                 at[r] \in Driving /\ at[s] \in Driving /\ pairOf[r] = pairOf[s] => r = s
BY DEF Inv, TypeOK, RowIsTrue, Paid, DriversHaveRows, OneDriver

\* A request that goes on with its pair, and leaves the rows as they are.
LEMMA Continues ==
    ASSUME Inv, NEW r \in Invocations, Leaves(r), NEW to \in Places,
           at[r] \in Driving \cup {"conflict"}, at' = [at EXCEPT ![r] = to],
           UNCHANGED <<pairOf, rows, answer>>,
           to \in Driving => at[r] \in Driving,
           q'[r].pc = "queued" => to \in Legs,
           q'[r].pc = "landed" => to \notin Legs,
           to \in {"fee", "save_paid", "save_pending"} => Paid(pairOf[r]),
           to = "save_paid" => <<pairOf[r], "fee">> \in Executed
    PROVE  Inv'
<1>1. at[r] \notin {"new", "answered"}
  OBVIOUS
<1>2. /\ pairOf[r] \in Pairs
      /\ pairOf' = [pairOf EXCEPT ![r] = pairOf[r]]
      /\ answer' = [answer EXCEPT ![r] = "none"]
  BY <1>1, Begun
<1>3. "none" \in Answers
  BY DEF Answers
<1>4. \A s \in Invocations \ {r} : at[r] \in Driving /\ at[s] \in Driving => pairOf[s] # pairOf[r]
  BY RowsTold
<1>5. "none" \notin {"paid", "replay"}
  OBVIOUS
<1>6. /\ to \in Driving => rows'[pairOf[r]] # NoRow
      /\ \A s \in Invocations \ {r} :
            at[s] \in Driving =>
                rows'[pairOf[s]] # NoRow /\ (to \in Driving => pairOf[s] # pairOf[r])
  BY <1>4, RowsTold
<1>7. /\ rows' \in [Pairs -> Rows \cup {NoRow}]
      /\ \A x \in Pairs : rows'[x] # NoRow =>
            (rows'[x].payoutTx => Paid(x)) /\ (rows'[x].feeTx => <<x, "fee">> \in Executed)
  BY RowsTold
<1>8. HandlerMoves(r, to, pairOf[r], "none")
  BY <1>2, <1>3, <1>5, <1>6, <1>7 DEF HandlerMoves
<1> QED
  BY <1>8, HandlerKeeps

LEMMA NoRowIsNone == NoRow \notin Rows
BY WithdrawAssumption, Zenon

\* The refusal and the insert of a request that comes in.
LEMMA RefuseStep ==
    ASSUME Inv, NEW r \in Invocations, NEW p \in Pairs, Refuse(r, p)
    PROVE  Inv'
<1>1. /\ at[r] = "new" /\ at' = [at EXCEPT ![r] = "answered"]
      /\ answer' = [answer EXCEPT ![r] = "refused"]
      /\ pairOf' = [pairOf EXCEPT ![r] = p] /\ UNCHANGED <<queueVars, rows>>
  BY DEF Refuse, Reply, Goto, Carries
<1>2. Leaves(r) /\ q'[r].pc # "queued"
  BY <1>1, StaysLeaves
<1>3. "answered" \in Places /\ "refused" \in Answers /\ rows' = rows
  BY <1>1 DEF Places, Answers
<1>4. HandlerMoves(r, "answered", p, "refused")
  BY <1>1, <1>2, <1>3, RowsTold DEF HandlerMoves
<1> QED
  BY <1>2, <1>4, HandlerKeeps

\* The insert gives the pair to one request: another that drove it would have
\* had its row.
LEMMA ReserveStep ==
    ASSUME Inv, NEW r \in Invocations, NEW p \in Pairs, Reserve(r, p)
    PROVE  Inv'
<1>1. /\ at[r] = "new" /\ pairOf' = [pairOf EXCEPT ![r] = p]
      /\ UNCHANGED <<holder, nextNonce, pool, chain, answer>>
  BY DEF Reserve, Goto, Carries
<1>2. "none" \in Answers /\ answer' = [answer EXCEPT ![r] = "none"]
      /\ "payout" \in Places /\ "conflict" \in Places
  BY <1>1 DEF Inv, TypeOK, AnswersEnd, Answers, Places
<1>3. CASE rows[p] = NoRow /\ Goto(r, "new", "payout") /\ Begin(r)
           /\ rows' = [rows EXCEPT ![p] = Reserved]
  <2>1. Leaves(r)
    BY <1>1, <1>3, ThrowLeaves DEF Inv
  <2>2. at' = [at EXCEPT ![r] = "payout"] /\ q'[r].pc = "queued"
    BY <1>3 DEF Goto, Begin, Idle, Inv, TypeOK, QueueTypeOK
  <2>3. ~Reserved.payoutTx /\ ~Reserved.feeTx /\ Reserved \in Rows /\ Reserved # NoRow
    <3>1. Reserved \in Rows
      BY Zenon DEF Reserved, Rows
    <3>2. ~Reserved.payoutTx /\ ~Reserved.feeTx
      BY DEF Reserved
    <3> QED
      BY <3>1, <3>2, NoRowIsNone
  <2>4. /\ rows' \in [Pairs -> Rows \cup {NoRow}] /\ rows'[p] = Reserved
        /\ \A x \in Pairs \ {p} : rows'[x] = rows[x]
    BY <1>3, <2>3, RowsTold
  <2>5. \A s \in Invocations : at[s] \in Driving => pairOf[s] # p
    BY <1>3, RowsTold
  <2>6. \A s \in Invocations \ {r} : at[s] \in Driving => rows'[pairOf[s]] # NoRow
    <3>1. \A s \in Invocations : at[s] \in Driving => pairOf[s] \in Pairs
      BY DEF Inv, LegsAreRelayed
    <3> QED
      BY <2>4, <2>5, <3>1, RowsTold
  <2>7. \A x \in Pairs : rows'[x] # NoRow =>
            (rows'[x].payoutTx => Paid(x)) /\ (rows'[x].feeTx => <<x, "fee">> \in Executed)
    BY <2>3, <2>4, RowsTold
  <2>8. HandlerMoves(r, "payout", p, "none")
    BY <1>1, <1>2, <2>2, <2>3, <2>4, <2>5, <2>6, <2>7 DEF HandlerMoves
  <2> QED
    BY <2>1, <2>8, HandlerKeeps
<1>4. CASE Goto(r, "new", "conflict") /\ UNCHANGED <<rows, q>>
  <2>1. Leaves(r) /\ q'[r].pc # "queued"
    BY <1>1, <1>4, StaysLeaves DEF queueVars
  <2>2. at' = [at EXCEPT ![r] = "conflict"] /\ rows' = rows
    BY <1>4 DEF Goto
  <2>3. HandlerMoves(r, "conflict", p, "none")
    BY <1>1, <1>2, <2>1, <2>2, RowsTold DEF HandlerMoves
  <2> QED
    BY <2>1, <2>3, HandlerKeeps
<1> QED
  BY <1>3, <1>4 DEF Reserve

\* A replay is answered from a row with a hash.
LEMMA ReadRowStep ==
    ASSUME Inv, NEW r \in Invocations, ReadRow(r)
    PROVE  Inv'
<1> DEFINE a == IF rows[pairOf[r]] # NoRow /\ rows[pairOf[r]].payoutTx
                THEN "replay" ELSE "in_progress"
<1>1. /\ at[r] = "conflict" /\ at' = [at EXCEPT ![r] = "answered"]
      /\ answer' = [answer EXCEPT ![r] = a] /\ UNCHANGED <<queueVars, pairOf, rows>>
  BY DEF ReadRow, Reply, Goto
<1>2. Leaves(r) /\ q'[r].pc # "queued"
  BY <1>1, StaysLeaves
<1>3. pairOf[r] \in Pairs /\ pairOf' = [pairOf EXCEPT ![r] = pairOf[r]]
  BY <1>1, Begun
<1>4. "answered" \in Places /\ a \in Answers /\ rows' = rows /\ (a = "replay" => Paid(pairOf[r]))
      /\ a # "paid"
  BY <1>1, <1>3, RowsTold DEF Places, Answers
<1> HIDE DEF a
<1>5. HandlerMoves(r, "answered", pairOf[r], a)
  BY <1>1, <1>2, <1>3, <1>4, RowsTold DEF HandlerMoves
<1> QED
  BY <1>2, <1>5, HandlerKeeps

\* On to the fee, or to the failure, by what the receipt said.
LEMMA PayoutStep ==
    ASSUME Inv, NEW r \in Invocations, PayoutLanded(r) \/ PayoutFailed(r)
    PROVE  Inv'
<1>1. at[r] = "payout" /\ UNCHANGED <<pairOf, rows, answer>>
  BY DEF PayoutLanded, PayoutFailed, Goto
<1>2. "fee" \in Places /\ "undo" \in Places
  BY DEF Places
<1>3. CASE PayoutLanded(r)
  <2>1. q[r].pc = "landed" /\ at' = [at EXCEPT ![r] = "fee"] /\ Begin(r)
        /\ UNCHANGED <<holder, nextNonce, pool, chain>>
    BY <1>3 DEF PayoutLanded, Goto
  <2>2. Leaves(r) /\ q'[r].pc # "landed"
    BY <2>1, ThrowLeaves DEF Inv
  <2>3. Paid(pairOf[r])
    BY <1>1, <2>1 DEF Inv, LegsAreRelayed, Leg, LegOf, Paid
  <2> QED
    BY <1>1, <1>2, <2>1, <2>2, <2>3, Continues
<1>4. CASE PayoutFailed(r)
  <2>1. q[r].pc = "failed" /\ at' = [at EXCEPT ![r] = "undo"] /\ UNCHANGED queueVars
    BY <1>4 DEF PayoutFailed, Goto
  <2>2. Leaves(r) /\ q'[r].pc # "queued"
    BY <2>1, StaysLeaves
  <2> QED
    BY <1>1, <1>2, <2>1, <2>2, Continues
<1> QED
  BY <1>3, <1>4

\* The row that is taken back is the request's own.
LEMMA UndoStep ==
    ASSUME Inv, NEW r \in Invocations, Undo(r)
    PROVE  Inv'
<1> DEFINE p == pairOf[r]
           row == IF rows[p] # NoRow /\ ~rows[p].payoutTx THEN NoRow ELSE rows[p]
<1>1. /\ at[r] = "undo" /\ at' = [at EXCEPT ![r] = "answered"]
      /\ answer' = [answer EXCEPT ![r] = "failed"] /\ UNCHANGED <<queueVars, pairOf>>
  BY DEF Undo, Reply, Goto
<1>2. Leaves(r) /\ q'[r].pc # "queued"
  BY <1>1, StaysLeaves
<1>3. p \in Pairs /\ pairOf' = [pairOf EXCEPT ![r] = p]
  BY <1>1, Begun
<1>4. /\ rows' \in [Pairs -> Rows \cup {NoRow}] /\ rows'[p] \in {NoRow, rows[p]}
      /\ \A x \in Pairs \ {p} : rows'[x] = rows[x]
  <2>1. rows' = [rows EXCEPT ![p] = row] /\ row \in {NoRow, rows[p]}
    BY RowsTold DEF Undo
  <2> HIDE DEF row
  <2> QED
    BY <1>3, <2>1, RowsTold
<1>5. \A s \in Invocations \ {r} : at[s] \in Driving => rows'[pairOf[s]] # NoRow
  <2>1. \A s \in Invocations : at[s] \in Driving => pairOf[s] \in Pairs
    BY DEF Inv, LegsAreRelayed
  <2>2. \A s \in Invocations \ {r} : at[s] \in Driving => pairOf[s] # p
    BY <1>1, RowsTold
  <2> QED
    BY <1>4, <2>1, <2>2, RowsTold
<1>6. \A x \in Pairs : rows'[x] # NoRow =>
          (rows'[x].payoutTx => Paid(x)) /\ (rows'[x].feeTx => <<x, "fee">> \in Executed)
  BY <1>4, RowsTold
<1>7. "answered" \in Places /\ "failed" \in Answers
  BY DEF Places, Answers
<1> HIDE DEF p, row
<1>8. HandlerMoves(r, "answered", p, "failed")
  BY <1>1, <1>2, <1>3, <1>4, <1>5, <1>6, <1>7 DEF HandlerMoves
<1> QED
  BY <1>2, <1>8, HandlerKeeps

\* The fee's receipt decides which row is written.
LEMMA FeeStep ==
    ASSUME Inv, NEW r \in Invocations, FeeDone(r)
    PROVE  Inv'
<1>1. at[r] = "fee" /\ UNCHANGED <<queueVars, pairOf, rows, answer>>
      /\ q[r].pc \in {"landed", "failed"}
  BY DEF FeeDone, Goto
<1>2. PICK to \in {"save_paid", "save_pending"} :
          at' = [at EXCEPT ![r] = to] /\ (to = "save_paid" => q[r].pc = "landed")
  BY DEF FeeDone, Goto
<1>3. Leaves(r) /\ q'[r].pc # "queued"
  BY <1>1, StaysLeaves
<1>4. Paid(pairOf[r])
  BY <1>1 DEF Inv, FeesFollow
<1>5. to = "save_paid" => <<pairOf[r], "fee">> \in Executed
  BY <1>1, <1>2 DEF Inv, LegsAreRelayed, Leg, LegOf
<1>6. to \in Places
  BY DEF Places
<1> QED
  BY <1>1, <1>2, <1>3, <1>4, <1>5, <1>6, Continues

\* The row is written with what the receipts said.
LEMMA SaveStep ==
    ASSUME Inv, NEW r \in Invocations, Save(r)
    PROVE  Inv'
<1> DEFINE p == pairOf[r]
           row == [payoutTx |-> TRUE, feeTx |-> at[r] = "save_paid",
                   feePending |-> at[r] = "save_pending"]
<1>1. /\ at[r] \in {"save_paid", "save_pending"} /\ at' = [at EXCEPT ![r] = "answered"]
      /\ answer' = [answer EXCEPT ![r] = "paid"] /\ UNCHANGED <<queueVars, pairOf>>
  BY DEF Save, Reply, Goto
<1>2. Leaves(r) /\ q'[r].pc # "queued"
  BY <1>1, StaysLeaves
<1>3. p \in Pairs /\ pairOf' = [pairOf EXCEPT ![r] = p]
  BY <1>1, Begun
<1>4. Paid(p) /\ (at[r] = "save_paid" => <<p, "fee">> \in Executed)
  BY <1>1 DEF Inv, FeesFollow
<1>5. row \in Rows /\ row # NoRow /\ (row.feeTx <=> at[r] = "save_paid")
  <2>1. row \in Rows
    BY Zenon DEF Rows
  <2>2. row.feeTx <=> at[r] = "save_paid"
    OBVIOUS
  <2> HIDE DEF row
  <2> QED
    BY <2>1, <2>2, NoRowIsNone
<1>6. /\ rows' \in [Pairs -> Rows \cup {NoRow}] /\ rows'[p] = row
      /\ \A x \in Pairs \ {p} : rows'[x] = rows[x]
  <2>1. rows[p] # NoRow
    BY <1>1, RowsTold
  <2>2. rows' = [rows EXCEPT ![p] = row]
    BY <1>3, <2>1, RowsTold DEF Save
  <2> HIDE DEF row
  <2> QED
    BY <1>3, <1>5, <2>2, RowsTold
<1>7. \A s \in Invocations \ {r} : at[s] \in Driving => rows'[pairOf[s]] # NoRow
  <2>1. \A s \in Invocations : at[s] \in Driving => pairOf[s] \in Pairs
    BY DEF Inv, LegsAreRelayed
  <2> HIDE DEF row
  <2> QED
    BY <1>5, <1>6, <2>1, RowsTold
<1>8. \A x \in Pairs : rows'[x] # NoRow =>
          (rows'[x].payoutTx => Paid(x)) /\ (rows'[x].feeTx => <<x, "fee">> \in Executed)
  <2> HIDE DEF row
  <2> QED
    BY <1>4, <1>5, <1>6, RowsTold
<1>9. "answered" \in Places /\ "paid" \in Answers
  BY DEF Places, Answers
<1> HIDE DEF p, row
<1>10. HandlerMoves(r, "answered", p, "paid")
  BY <1>1, <1>2, <1>3, <1>4, <1>6, <1>7, <1>8, <1>9 DEF HandlerMoves
<1> QED
  BY <1>2, <1>10, HandlerKeeps

\* A crash frees the lock and leaves what was sent, and the reservation.
LEMMA CrashStep ==
    ASSUME Inv, NEW r \in Invocations, Crash(r)
    PROVE  Inv'
<1>1. /\ at[r] \notin {"new", "answered", "dead"} /\ at' = [at EXCEPT ![r] = "dead"]
      /\ q' = [q EXCEPT ![r] = Idle] /\ Unlock(r) /\ UNCHANGED <<nextNonce, pool, chain>>
      /\ UNCHANGED <<pairOf, rows, answer>>
  BY DEF Crash, RollBack
<1>2. at[r] \in Driving \cup {"conflict"} /\ "dead" \in Places
  BY <1>1 DEF Inv, TypeOK, Places
<1>3. Leaves(r) /\ q'[r].pc = "idle"
  <2>1. Leaves(r)
    BY <1>1, ThrowLeaves DEF Inv
  <2>2. q'[r] = Idle
    BY <1>1 DEF Inv, TypeOK, QueueTypeOK
  <2> QED
    BY <2>1, <2>2 DEF Idle
<1> QED
  BY <1>1, <1>2, <1>3, Continues

\* A block executes at most the call it takes; what it takes stays at its nonce.
LEMMA MineStep ==
    ASSUME Inv, Mine, UNCHANGED withdrawVars
    PROVE  Inv'
<1>1. QueueInv'
  BY MineKeeps DEF Inv
<1>2. PICK t \in pool :
          /\ t.nonce = Len(chain) /\ pool' = pool \ {t}
          /\ Len(chain') = Len(chain) + 1
          /\ \A m \in 1 .. Len(chain) : chain'[m] = chain[m]
          /\ chain'[Len(chain) + 1].call = t.call
          /\ chain' \in Seq(MinedTx)
  BY MineKeeps DEF Inv
<1>3. UNCHANGED <<at, pairOf, rows, answer, q>> /\ Len(chain) \in Nat
  BY NoncesTyped DEF Mine, withdrawVars, Inv, QueueInv
<1>4. DOMAIN chain = 1 .. Len(chain) /\ DOMAIN chain' = 1 .. Len(chain) + 1
  BY <1>2 DEF Inv, QueueInv, QueueTypeOK
<1>5. Executed \subseteq Executed' /\ Executed' \subseteq Executed \cup {t.call}
  BY <1>2, <1>3, <1>4 DEF Executed
<1>6. \A p \in Pairs : Paid(p) => Paid(p)'
  BY <1>5 DEF Paid
<1>7. TypeOK'
  BY <1>1, <1>3 DEF Inv, TypeOK, QueueInv
<1>8. LegsAreRelayed'
  <2>1. ASSUME NEW s \in Invocations, q[s].pc \in {"sent", "waiting"}
        PROVE  Kept(s)'
    <3> DEFINE n == q[s].nonce
               x == Signed(s, Leg(s))
    <3>1. n \in Nat /\ Kept(s) /\ x.nonce = n
      BY <2>1, NoncesTyped DEF Inv, QueueInv, LegsAreRelayed, Signed
    <3>2. x' = x /\ Leg(s)' = Leg(s) /\ n' = n
      BY <1>3 DEF Signed, Leg, LegOf
    <3>3. CASE n < Len(chain)
      BY <1>2, <1>3, <3>1, <3>2, <3>3 DEF Kept
    <3>4. CASE ~(n < Len(chain)) /\ x = t
      <4>1. n = Len(chain) /\ t.call = Leg(s)
        BY <1>2, <3>1, <3>4 DEF Signed
      <4> QED
        BY <1>2, <1>3, <3>2, <4>1 DEF Kept
    <3>5. CASE ~(n < Len(chain)) /\ x # t
      <4>1. x \in pool
        BY <3>1, <3>5 DEF Kept
      <4>2. n # Len(chain)
        BY <1>2, <3>1, <3>5, <4>1 DEF Inv, QueueInv, OnePerNonce
      <4>3. ~(n < Len(chain')) /\ x \in pool'
        BY <1>2, <1>3, <3>1, <3>5, <4>1, <4>2
      <4> QED
        BY <3>2, <4>3 DEF Kept
    <3> QED
      BY <3>3, <3>4, <3>5
  <2>2. \A s \in Invocations : Leg(s)' = Leg(s)
    BY <1>3 DEF Leg, LegOf
  <2> QED
    BY <1>3, <1>5, <2>1, <2>2 DEF Inv, LegsAreRelayed
<1>9. FeesFollow'
  <2>1. \A s \in Invocations :
            at[s] \in {"fee", "save_paid", "save_pending"} => pairOf[s] \in Pairs
    BY DEF Inv, LegsAreRelayed
  <2> QED
    BY <1>2, <1>3, <1>5, <1>6, <2>1 DEF Inv, FeesFollow
<1>10. FeeOnlyAfterPayout'
  <2> SUFFICES ASSUME NEW p \in Pairs, <<p, "fee">> \in Executed'
               PROVE  Paid(p)'
    BY DEF FeeOnlyAfterPayout, Paid
  <2>1. CASE <<p, "fee">> \in Executed
    BY <1>6, <2>1 DEF Inv, FeeOnlyAfterPayout, Paid
  <2>2. CASE <<p, "fee">> = t.call
    BY <1>6, <2>2 DEF Inv, FeesFollow
  <2> QED
    BY <1>5, <2>1, <2>2
<1>11. RowIsTrue'
  BY <1>3, <1>5 DEF Inv, RowIsTrue
<1>12. DriversHaveRows' /\ OneDriver' /\ AnswersEnd'
  BY <1>3 DEF Inv, DriversHaveRows, OneDriver, AnswersEnd
<1> QED
  BY <1>1, <1>7, <1>8, <1>9, <1>10, <1>11, <1>12 DEF Inv

LEMMA StutterStep == Inv /\ UNCHANGED vars => Inv'
<1> SUFFICES ASSUME Inv, UNCHANGED vars PROVE Inv'
  OBVIOUS
<1>1. UNCHANGED <<holder, nextNonce, pool, chain, q, at, pairOf, rows, answer>>
  BY DEF vars, queueVars, withdrawVars
<1>2. Executed' = Executed /\ PendingCount' = PendingCount /\ PoolNonces' = PoolNonces
  BY <1>1 DEF Executed, PendingCount, PoolNonces
<1>3. QueueInv'
  BY <1>1, <1>2 DEF Inv, QueueInv, QueueTypeOK, LockIsHeld, OnePerNonce, Contiguous,
                    NonceOrder, Below
<1>4. TypeOK'
  BY <1>1, <1>3 DEF Inv, TypeOK, QueueInv
<1>5. LegsAreRelayed' /\ FeesFollow'
  BY <1>1, <1>2 DEF Inv, LegsAreRelayed, Kept, Leg, LegOf, Signed, FeesFollow, Paid
<1>6. FeeOnlyAfterPayout' /\ RowIsTrue' /\ DriversHaveRows' /\ OneDriver' /\ AnswersEnd'
  BY <1>1, <1>2 DEF Inv, FeeOnlyAfterPayout, RowIsTrue, DriversHaveRows, OneDriver, AnswersEnd
<1> QED
  BY <1>3, <1>4, <1>5, <1>6 DEF Inv

\* The invariant holds in every state: whatever crashes, times out or is mined,
\* the nonces have no hole, an answered hash stays its transaction and a fee
\* follows a payout that was made.
THEOREM WithdrawInvariant == Spec => []Inv
<1>1. Init => Inv
  BY InitInv
<1>2. Inv /\ [Next]_vars => Inv'
  <2> SUFFICES ASSUME Inv, [Next]_vars PROVE Inv'
    OBVIOUS
  <2>1. CASE UNCHANGED vars
    BY <2>1, StutterStep
  <2>2. CASE Mine /\ UNCHANGED withdrawVars
    BY <2>2, MineStep
  <2>3. ASSUME NEW r \in Invocations, NEW p \in Pairs, Refuse(r, p) \/ Reserve(r, p)
        PROVE  Inv'
    BY <2>3, RefuseStep, ReserveStep
  <2>4. ASSUME NEW r \in Invocations, ReadRow(r)
        PROVE  Inv'
    BY <2>4, ReadRowStep
  <2>5. ASSUME NEW r \in Invocations, Relay(r)
        PROVE  Inv'
    BY <2>5, RelayStep
  <2>6. ASSUME NEW r \in Invocations, PayoutLanded(r) \/ PayoutFailed(r)
        PROVE  Inv'
    BY <2>6, PayoutStep
  <2>7. ASSUME NEW r \in Invocations, Undo(r) \/ FeeDone(r) \/ Save(r) \/ Crash(r)
        PROVE  Inv'
    BY <2>7, UndoStep, FeeStep, SaveStep, CrashStep
  <2> QED
    BY <2>1, <2>2, <2>3, <2>4, <2>5, <2>6, <2>7 DEF Next
<1> QED
  BY <1>1, <1>2, PTL DEF Spec

\* Every variable of the route and of the queue keeps its type: a nonce is a
\* number where one is needed, an attempt is within the limit.
THEOREM WithdrawTypes == Spec => []TypeOK
<1>1. Inv => TypeOK
  BY DEF Inv
<1> QED
  BY <1>1, WithdrawInvariant, PTL

\* "Fee first means [...] the worker paid a fee for a withdrawal that never
\* happened" (withdraw.ts:46): no fee is taken for a payout that was not made.
THEOREM FeesFollowPayouts == Spec => []FeeOnlyAfterPayout
<1>1. Inv => FeeOnlyAfterPayout
  BY DEF Inv
<1> QED
  BY <1>1, WithdrawInvariant, PTL

\* A row with a hash, the only thing a replay is answered from, and every 200
\* say what the token did.
THEOREM RowsAreTrue == Spec => []RowIsTrue
<1>1. Inv => RowIsTrue
  BY DEF Inv
<1> QED
  BY <1>1, WithdrawInvariant, PTL

\* A hash once answered stays that transaction, in the mempool or in the chain:
\* no other invocation of the key takes or replaces its nonce.
THEOREM HashesAreKept == Spec => []HashIsKept
<1>1. Inv => HashIsKept
  BY DEF Inv, LegsAreRelayed, Kept, Leg, HashIsKept
<1> QED
  BY <1>1, WithdrawInvariant, PTL

\* No rollback, crash or resync leaves a hole below a nonce in use.
THEOREM NoncesHaveNoGap == Spec => []NoGap
<1>1. Inv => NoGap
  BY DEF Inv, QueueInv, Contiguous, NonceOrder, Below, NoGap
<1> QED
  BY <1>1, WithdrawInvariant, PTL

\* One reservation, one request: no two invocations drive the same pair.
THEOREM PairsHaveOneDriver == Spec => []OneDriver
<1>1. Inv => OneDriver
  BY DEF Inv
<1> QED
  BY <1>1, WithdrawInvariant, PTL
=============================================================================
