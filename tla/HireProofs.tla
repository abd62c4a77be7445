----------------------------- MODULE HireProofs -----------------------------
(***************************************************************************)
(* The properties of Hire for any number of requests and authorizations.   *)
(* Two facts carry them.  A task belongs to the one request that posted    *)
(* it, and what is stored under the task is written for its owner's nonce  *)
(* (OwnTask, BoughtTask).  And until a request of a nonce has given its    *)
(* reservation back, at most one request of that nonce is buying           *)
(* (OneBuyer): the insert into idempotency is a lock only for so long.     *)
(***************************************************************************)
EXTENDS Hire, FiniteSetTheorems, TLAPS

\* Past the insert into idempotency, in the order of the steps.
BeforePost == {"screening", "capping", "posting"}
WithTask == {"inserting", "recording", "completing", "settling", "absorbing", "accepted"}
AfterSend == WithTask \cup {"sent", "releasing", "rejected", "dead"}
Waiting == {"verified", "reading", "replaying"}
PCs == {"idle"} \cup Answers \cup Waiting \cup BeforePost \cup AfterSend

TypeOK ==
    /\ pc \in [Requests -> PCs]
    /\ auth \in [Requests -> Nonces \cup {NoNonce}]
    /\ \A r \in Requests : pc[r] # "idle" => auth[r] \in Nonces
    /\ taskId \in [Requests -> TaskIds \cup {Absent}]
    /\ idem \in [Nonces -> TaskIds \cup {Absent, Reserved}]
    /\ rows \in [TaskIds -> [authNonce : Nonces \cup {NoNonce}, open : BOOLEAN,
                             floatAbsorbed : BOOLEAN]]
    /\ ledger \in [Payers -> Nat]
    /\ charged \in SUBSET Nonces
    /\ mempool \in Seq(Requests) /\ posted \in Seq(Requests)
    /\ ended \in SUBSET TaskIds
    /\ receipt \in [Requests -> Nat \cup {Absent, Reverted}]

\* A request sends once, and what it sent is executed at most once.
SentOnce ==
    /\ \A i \in 1 .. Len(mempool) : pc[mempool[i]] \in AfterSend
    /\ \A t \in 1 .. Len(posted) : pc[posted[t]] \in AfterSend
    /\ \A i, j \in 1 .. Len(mempool) : mempool[i] = mempool[j] => i = j
    /\ \A t, u \in 1 .. Len(posted) : posted[t] = posted[u] => t = u
    /\ \A i \in 1 .. Len(mempool), t \in 1 .. Len(posted) : mempool[i] # posted[t]

\* The receipt of a task names a task of the request's own.
Receipts ==
    \A r \in Requests : receipt[r] \in TaskIds =>
        receipt[r] \in 1 .. Len(posted) /\ posted[receipt[r]] = r

Owns(r) == taskId[r] \in 1 .. Len(posted) /\ posted[taskId[r]] = r

\* From the receipt to the answer a request works on its own task, whose row,
\* once it is in, carries the request's nonce.
OwnTask ==
    \A r \in Requests :
        /\ pc[r] \in WithTask => taskId[r] \in TaskIds /\ Owns(r)
        /\ pc[r] \in WithTask \ {"inserting"} => rows[taskId[r]].authNonce = auth[r]
        /\ pc[r] \in {"settling", "absorbing", "accepted"} => idem[auth[r]] \in TaskIds

\* A nonce is completed with a task that a request of that nonce posted.
BoughtTask ==
    \A n \in Nonces : idem[n] \in TaskIds =>
        /\ idem[n] \in 1 .. Len(posted) /\ auth[posted[idem[n]]] = n
        /\ rows[idem[n]].authNonce = n

\* A request that got past the reservation, or whose post is out there.
Buying(r) ==
    \/ pc[r] \in BeforePost \cup WithTask \cup {"sent", "releasing"}
    \/ \E i \in 1 .. Len(mempool) : mempool[i] = r
    \/ \E t \in 1 .. Len(posted) : posted[t] = r

GaveBack(n) == \E r \in Requests : auth[r] = n /\ pc[r] = "rejected"

\* Until one gives its reservation back, the requests of a nonce are locked
\* out by the first: while nothing is reserved, none has got past it or seen
\* a reservation, and afterwards one has.
OneBuyer ==
    \A n \in Nonces : ~GaveBack(n) =>
        /\ idem[n] = Absent =>
              \A r \in Requests : auth[r] = n => ~Buying(r) /\ pc[r] # "reading"
        /\ \A r, s \in Requests :
              auth[r] = n /\ auth[s] = n /\ Buying(r) /\ Buying(s) => r = s

\* A reservation is held by a request past the insert, or by a dead one.
Held ==
    \A n \in Nonces : idem[n] = Reserved =>
        \E r \in Requests :
            auth[r] = n /\ pc[r] \notin Answers \cup Waiting \cup {"idle"}

Unflagged(n) ==
    {r \in Requests : pc[r] = "accepted" /\ auth[r] = n /\ ~rows[taskId[r]].floatAbsorbed}

\* Without a charge every accepted request is flagged, with one all but one.
OneUnflagged ==
    \A n \in Nonces :
        /\ n \notin charged => Unflagged(n) = {}
        /\ \A r, s \in Unflagged(n) : r = s

\* The nonces whose task the ledger has counted: completed, or about to be.
Counted(p) ==
    {n \in Nonces : PayerOf[n] = p /\ \/ idem[n] \in TaskIds
                                      \/ \E r \in Requests : pc[r] = "completing" /\ auth[r] = n}

\* The tasks the ledger may have counted: the poster is past recording.
Countable(p) ==
    {t \in 1 .. Len(posted) : /\ PayerOf[auth[posted[t]]] = p
                              /\ pc[posted[t]] \notin {"sent", "inserting", "recording"}}

LedgerBetween ==
    \A p \in Payers :
        /\ IsFiniteSet(Counted(p)) /\ Cardinality(Counted(p)) =< ledger[p]
        /\ ledger[p] =< Cardinality(Countable(p))

\* What was charged was bought.
ChargedIsBought == \A n \in charged : idem[n] \in TaskIds

Inv == /\ TypeOK /\ SentOnce /\ Receipts /\ OwnTask /\ BoughtTask /\ OneBuyer
       /\ Held /\ OneUnflagged /\ LedgerBetween /\ ChargedIsBought

USE DEF PCs, Answers, Waiting, BeforePost, WithTask, AfterSend

-----------------------------------------------------------------------------
\* The payer of a nonce, the constants a step computes with.
LEMMA ConstantsTyped ==
    /\ \A n \in Nonces : PayerOf[n] \in Payers
    /\ IsFiniteSet(TaskIds) /\ TaskIds \in SUBSET Nat
    /\ Absent \notin TaskIds /\ Reserved \notin TaskIds /\ Reverted \notin TaskIds
    /\ Absent # Reserved /\ Absent # Reverted
<1>1. Cardinality(Requests) \in Nat
  BY HireAssumption, FS_CardinalityType
<1> QED
  BY <1>1, HireAssumption, FS_Interval DEF TaskIds, Absent, Reserved, Reverted

\* The tasks of a payer can be counted.
LEMMA CountableIsFinite ==
    ASSUME TypeOK, NEW p \in Payers
    PROVE  IsFiniteSet(Countable(p)) /\ Cardinality(Countable(p)) \in Nat
<1>1. Len(posted) \in Nat
  BY DEF TypeOK
<1>2. IsFiniteSet(1 .. Len(posted)) /\ Countable(p) \in SUBSET (1 .. Len(posted))
  BY <1>1, FS_Interval DEF Countable
<1> QED
  BY <1>2, FS_Subset, FS_CardinalityType

\* And after a step too.
LEMMA CountableStaysFinite ==
    ASSUME TypeOK', NEW p \in Payers
    PROVE  IsFiniteSet(Countable(p)') /\ Cardinality(Countable(p)') \in Nat
<1>1. Len(posted') \in Nat
  BY DEF TypeOK
<1>2. IsFiniteSet(1 .. Len(posted'))
  BY <1>1, FS_Interval
<1>3. Countable(p)' \in SUBSET (1 .. Len(posted'))
  BY DEF Countable
<1> QED
  BY <1>2, <1>3, FS_Subset, FS_CardinalityType

\* A step that counts nothing keeps the ledger between its bounds.
LEMMA LedgerKept ==
    ASSUME TypeOK, TypeOK', LedgerBetween, UNCHANGED ledger,
           \A p \in Payers : /\ Counted(p)' \subseteq Counted(p)
                             /\ Countable(p) \subseteq Countable(p)'
    PROVE  LedgerBetween'
<1> SUFFICES ASSUME NEW p \in Payers
             PROVE  /\ IsFiniteSet(Counted(p)') /\ Cardinality(Counted(p)') =< ledger[p]
                    /\ ledger[p] =< Cardinality(Countable(p)')
  BY DEF LedgerBetween
<1>1. IsFiniteSet(Counted(p)') /\ Cardinality(Counted(p)') =< Cardinality(Counted(p))
  BY FS_Subset DEF LedgerBetween
<1>2. Cardinality(Counted(p)') \in Nat /\ Cardinality(Counted(p)) \in Nat
  BY <1>1, FS_CardinalityType DEF LedgerBetween
<1>3. IsFiniteSet(Countable(p)') /\ Cardinality(Countable(p)') \in Nat
  BY CountableStaysFinite
<1>4. Cardinality(Countable(p)) =< Cardinality(Countable(p)')
  BY <1>3, FS_Subset
<1>5. Cardinality(Countable(p)) \in Nat /\ ledger[p] \in Nat
  BY CountableIsFinite DEF TypeOK
<1> QED
  BY <1>1, <1>2, <1>3, <1>4, <1>5 DEF LedgerBetween

\* The elements of the two queues are requests.
LEMMA QueuesTyped ==
    ASSUME TypeOK
    PROVE  /\ Len(mempool) \in Nat /\ \A i \in 1 .. Len(mempool) : mempool[i] \in Requests
           /\ Len(posted) \in Nat /\ \A t \in 1 .. Len(posted) : posted[t] \in Requests
BY DEF TypeOK

\* Nothing of a request that has not sent is in the mempool or on chain.
LEMMA NothingSent ==
    ASSUME TypeOK, SentOnce, NEW r \in Requests, pc[r] \notin AfterSend
    PROVE  /\ \A i \in 1 .. Len(mempool) : mempool[i] \in Requests \ {r}
           /\ \A t \in 1 .. Len(posted) : posted[t] \in Requests \ {r}
BY QueuesTyped DEF SentOnce

\* A step that lets nobody new past the reservations, and takes none back
\* without a rejection, keeps one buyer to a nonce.
LEMMA OneBuyerKept ==
    ASSUME OneBuyer, UNCHANGED auth,
           \A s \in Requests : /\ Buying(s)' => Buying(s)
                               /\ pc'[s] = "reading" => pc[s] = "reading"
                               /\ pc[s] = "rejected" => pc'[s] = "rejected",
           \A n \in Nonces : idem'[n] = Absent => idem[n] = Absent \/ GaveBack(n)'
    PROVE  OneBuyer'
<1> SUFFICES ASSUME NEW n \in Nonces, ~GaveBack(n)'
             PROVE  /\ idem'[n] = Absent =>
                          \A r \in Requests :
                              auth[r] = n => ~Buying(r)' /\ pc'[r] # "reading"
                    /\ \A r, s \in Requests :
                          auth[r] = n /\ auth[s] = n /\ Buying(r)' /\ Buying(s)' => r = s
  BY DEF OneBuyer
<1>1. ~GaveBack(n)
  BY DEF GaveBack
<1> QED
  BY <1>1 DEF OneBuyer

\* The first state.
LEMMA InitInv == Init => Inv
<1> SUFFICES ASSUME Init PROVE Inv
  OBVIOUS
<1>1. TypeOK
  BY ConstantsTyped DEF Init, TypeOK, NoRow, Reverted, Absent
<1>2. SentOnce /\ Receipts /\ OwnTask /\ BoughtTask /\ Held
  BY ConstantsTyped DEF Init, SentOnce, Receipts, OwnTask, BoughtTask, Held
<1>3. OneBuyer
  BY DEF Init, OneBuyer, Buying
<1>4. OneUnflagged /\ ChargedIsBought
  BY DEF Init, OneUnflagged, Unflagged, ChargedIsBought
<1>5. LedgerBetween
  <2> SUFFICES ASSUME NEW p \in Payers
               PROVE  /\ IsFiniteSet(Counted(p)) /\ Cardinality(Counted(p)) =< ledger[p]
                      /\ ledger[p] =< Cardinality(Countable(p))
    BY DEF LedgerBetween
  <2>1. Counted(p) = {} /\ Countable(p) = {} /\ ledger[p] = 0
    BY ConstantsTyped DEF Init, Counted, Countable
  <2> QED
    BY <2>1, FS_EmptySet
<1> QED
  BY <1>1, <1>2, <1>3, <1>4, <1>5 DEF Inv

-----------------------------------------------------------------------------
\* A step of one request that stores nothing, buys nothing and takes up no
\* task: an answer without a purchase, a check passed or failed, a death.
Quiet(r, to) ==
    /\ pc' = [pc EXCEPT ![r] = to]
    /\ \/ to \in {"in_progress", "replaying", "replayed", "not_found"}
          /\ pc[r] \in {"reading", "replaying"}
       \/ to \in {"capping", "posting", "releasing"} /\ pc[r] \in BeforePost \cup {"sent"}
          /\ (pc[r] = "sent" => to = "releasing")
       \/ to = "dead" /\ pc[r] \notin Answers \cup {"idle"}
    /\ \A s \in Requests \ {r} : taskId'[s] = taskId[s]
    /\ taskId' \in [Requests -> TaskIds \cup {Absent}]
    /\ UNCHANGED <<auth, dbVars, chainVars>>

LEMMA QuietKeeps ==
    ASSUME Inv, NEW r \in Requests, NEW to, Quiet(r, to)
    PROVE  Inv'
<1>1. TypeOK'
  BY DEF Inv, TypeOK, Quiet, dbVars, chainVars
<1>2. /\ UNCHANGED <<auth, idem, rows, ledger, charged, mempool, posted, receipt>>
      /\ \A s \in Requests : pc'[s] = IF s = r THEN to ELSE pc[s]
  BY DEF Inv, TypeOK, Quiet, dbVars, chainVars
<1>3. SentOnce' /\ Receipts'
  BY <1>2 DEF Inv, TypeOK, SentOnce, Receipts, Quiet
<1>4. OwnTask' /\ BoughtTask'
  BY <1>2 DEF Inv, TypeOK, OwnTask, Owns, BoughtTask, Quiet
<1>5. OneBuyer'
  <2>1. \A s \in Requests : /\ Buying(s)' => Buying(s)
                            /\ pc'[s] = "reading" => pc[s] = "reading"
                            /\ pc[s] = "rejected" => pc'[s] = "rejected"
    BY <1>2 DEF Buying, Quiet
  <2> QED
    BY <1>2, <2>1, OneBuyerKept DEF Inv
<1>6. Held'
  BY <1>2 DEF Inv, TypeOK, Held, Quiet
<1>7. OneUnflagged'
  BY <1>2 DEF Inv, TypeOK, OneUnflagged, Unflagged, Quiet
<1>8. LedgerBetween'
  <2>1. \A p \in Payers : Counted(p)' \subseteq Counted(p)
    BY <1>2 DEF Inv, TypeOK, Counted, Quiet
  <2>2. \A p \in Payers : Countable(p) \subseteq Countable(p)'
    BY <1>2 DEF Inv, TypeOK, Countable, Quiet
  <2> QED
    BY <1>1, <1>2, <2>1, <2>2, LedgerKept DEF Inv
<1>9. ChargedIsBought'
  BY <1>2 DEF Inv, ChargedIsBought
<1> QED
  BY <1>1, <1>3, <1>4, <1>5, <1>6, <1>7, <1>8, <1>9 DEF Inv

-----------------------------------------------------------------------------
\* A request gets its nonce, and has sent nothing yet.
LEMMA VerifyKeeps ==
    ASSUME Inv, NEW r \in Requests, NEW n \in Nonces, Verify(r, n)
    PROVE  Inv'
<1>1. /\ UNCHANGED <<taskId, idem, rows, ledger, charged, mempool, posted, receipt, ended>>
      /\ pc[r] = "idle" /\ pc' = [pc EXCEPT ![r] = "verified"]
      /\ auth' = [auth EXCEPT ![r] = n]
  BY DEF Verify, Goto, dbVars, chainVars
<1>2. /\ \A s \in Requests : pc'[s] = IF s = r THEN "verified" ELSE pc[s]
      /\ \A s \in Requests : auth'[s] = IF s = r THEN n ELSE auth[s]
  BY <1>1 DEF Inv, TypeOK
<1>3. /\ \A i \in 1 .. Len(mempool) : mempool[i] \in Requests \ {r}
      /\ \A t \in 1 .. Len(posted) : posted[t] \in Requests \ {r}
  BY <1>1, NothingSent DEF Inv
<1>4. TypeOK'
  BY <1>1 DEF Inv, TypeOK
<1>5. SentOnce' /\ Receipts'
  BY <1>1, <1>2, <1>3 DEF Inv, SentOnce, Receipts
<1>6. OwnTask' /\ BoughtTask'
  BY <1>1, <1>2, <1>3 DEF Inv, OwnTask, Owns, BoughtTask
<1>7. OneBuyer'
  <2>1. \A s \in Requests : Buying(s)' <=> Buying(s) /\ s # r
    BY <1>1, <1>2, <1>3 DEF Buying
  <2>2. \A m \in Nonces : GaveBack(m) => GaveBack(m)'
    BY <1>1, <1>2 DEF GaveBack
  <2> QED
    BY <1>1, <1>2, <2>1, <2>2 DEF Inv, OneBuyer
<1>8. Held' /\ OneUnflagged'
  BY <1>1, <1>2 DEF Inv, Held, OneUnflagged, Unflagged
<1>9. LedgerBetween'
  <2>1. \A p \in Payers : Counted(p)' \subseteq Counted(p)
    BY <1>1, <1>2 DEF Counted
  <2>2. \A p \in Payers : Countable(p) \subseteq Countable(p)'
    BY <1>1, <1>2, <1>3 DEF Countable
  <2> QED
    BY <1>1, <1>4, <2>1, <2>2, LedgerKept DEF Inv
<1>10. ChargedIsBought'
  BY <1>1, <1>2, <1>3 DEF Inv, ChargedIsBought
<1> QED
  BY <1>4, <1>5, <1>6, <1>7, <1>8, <1>9, <1>10 DEF Inv

\* The insert lets a request past when nothing is reserved: by OneBuyer no
\* other of its nonce is buying then, unless one gave its reservation back.
LEMMA ReserveKeeps ==
    ASSUME Inv, NEW r \in Requests,
           \/ ReserveInsert(r)
           \/ ReserveRead(r) /\ pc'[r] = "screening"
    PROVE  Inv'
<1> DEFINE n == auth[r]
<1>1. /\ UNCHANGED <<auth, taskId, rows, ledger, charged, mempool, posted, receipt, ended>>
      /\ \/ /\ pc[r] = "verified" /\ pc' = [pc EXCEPT ![r] = "screening"]
            /\ idem[n] = Absent /\ idem' = [idem EXCEPT ![n] = Reserved]
         \/ /\ pc[r] = "verified" /\ pc' = [pc EXCEPT ![r] = "reading"]
            /\ idem[n] # Absent /\ UNCHANGED idem
         \/ /\ pc[r] = "reading" /\ pc' = [pc EXCEPT ![r] = "screening"]
            /\ idem[n] = Absent /\ UNCHANGED idem
  BY DEF Inv, TypeOK, ReserveInsert, ReserveRead, Goto, dbVars, chainVars
<1>2. n \in Nonces /\ pc[r] \in {"verified", "reading"} /\ pc'[r] \in {"screening", "reading"}
      /\ (\A s \in Requests \ {r} : pc'[s] = pc[s])
      /\ (\A m \in Nonces \ {n} : idem'[m] = idem[m])
      /\ (idem[n] = Absent => idem'[n] \in {Absent, Reserved})
      /\ (idem[n] # Absent => idem'[n] = idem[n])
      /\ (pc'[r] = "reading" => idem' = idem)
  BY <1>1 DEF Inv, TypeOK
<1>3. \A s \in Requests : pc'[s] # pc[s] => s = r
  BY <1>2
<1>4. /\ \A i \in 1 .. Len(mempool) : mempool[i] \in Requests \ {r}
      /\ \A t \in 1 .. Len(posted) : posted[t] \in Requests \ {r}
  BY <1>2, NothingSent DEF Inv
<1>5. TypeOK'
  BY <1>1 DEF Inv, TypeOK
<1> HIDE DEF n
<1>6. SentOnce' /\ Receipts'
  BY <1>1, <1>2, <1>4 DEF Inv, SentOnce, Receipts
<1>7. OwnTask' /\ BoughtTask'
  <2>1. \A m \in Nonces : /\ idem[m] \in TaskIds => idem'[m] = idem[m]
                          /\ idem'[m] \in TaskIds => idem'[m] = idem[m]
    BY <1>1, <1>2, ConstantsTyped
  <2>2. \A s \in Requests : pc'[s] \in WithTask => pc'[s] = pc[s] /\ auth[s] \in Nonces
    BY <1>1, <1>2 DEF Inv, TypeOK
  <2> QED
    BY <1>1, <2>1, <2>2 DEF Inv, OwnTask, Owns, BoughtTask
<1>8. OneBuyer'
  <2> SUFFICES ASSUME NEW m \in Nonces, ~GaveBack(m)'
               PROVE  /\ idem'[m] = Absent =>
                            \A s \in Requests :
                                auth[s] = m => ~Buying(s)' /\ pc'[s] # "reading"
                      /\ \A s, u \in Requests :
                            auth[s] = m /\ auth[u] = m /\ Buying(s)' /\ Buying(u)' => s = u
    BY <1>1 DEF OneBuyer
  <2>1. ~GaveBack(m)
    BY <1>1, <1>2 DEF GaveBack
  <2>2. \A s \in Requests : s # r => (Buying(s)' <=> Buying(s))
    BY <1>1, <1>2 DEF Buying
  <2>3. CASE m # n
    BY <1>1, <1>2, <2>1, <2>2, <2>3 DEF Inv, OneBuyer, n
  <2>4. CASE m = n
    <3>1. /\ idem[n] = Absent =>
                \A s \in Requests : auth[s] = n => ~Buying(s) /\ pc[s] # "reading"
          /\ \A s, u \in Requests :
                auth[s] = n /\ auth[u] = n /\ Buying(s) /\ Buying(u) => s = u
      BY <2>1, <2>4 DEF Inv, OneBuyer
    <3>2. CASE idem[n] = Absent
      <4>1. idem'[n] = Reserved
        BY <1>1, <1>2, <3>1, <3>2 DEF Inv, TypeOK, n
      <4> QED
        BY <2>2, <2>4, <3>1, <3>2, <4>1, ConstantsTyped DEF n
    <3>3. CASE idem[n] # Absent
      <4>1. pc'[r] = "reading" /\ idem'[n] # Absent
        BY <1>1, <1>2, <3>3 DEF Inv, TypeOK
      <4>2. ~Buying(r)'
        BY <1>1, <1>4, <4>1 DEF Buying
      <4> QED
        BY <2>2, <2>4, <3>1, <4>1, <4>2
    <3> QED
      BY <3>2, <3>3
  <2> QED
    BY <2>3, <2>4
<1>9. Held'
  <2>1. \A m \in Nonces : idem'[m] = Reserved =>
            idem[m] = Reserved \/ (m = n /\ pc'[r] = "screening")
    BY <1>2
  <2>2. \A s \in Requests :
            pc[s] \notin Answers \cup Waiting \cup {"idle"} => pc'[s] = pc[s]
    BY <1>1, <1>2
  <2> QED
    BY <1>1, <2>1, <2>2 DEF Inv, Held, n
<1>10. OneUnflagged' /\ ChargedIsBought'
  <2>1. \A m \in Nonces : idem[m] \in TaskIds => idem'[m] = idem[m]
    BY <1>1, <1>2, ConstantsTyped
  <2> QED
    BY <1>1, <1>2, <2>1 DEF Inv, TypeOK, OneUnflagged, Unflagged, ChargedIsBought
<1>11. LedgerBetween'
  <2>1. \A p \in Payers : Counted(p)' \subseteq Counted(p)
    BY <1>1, <1>2, ConstantsTyped DEF Counted
  <2>2. \A p \in Payers : Countable(p) \subseteq Countable(p)'
    BY <1>1, <1>2, <1>4 DEF Countable
  <2> QED
    BY <1>1, <1>5, <2>1, <2>2, LedgerKept DEF Inv
<1> QED
  BY <1>5, <1>6, <1>7, <1>8, <1>9, <1>10, <1>11 DEF Inv

\* The reservation goes back and the request is rejected: from now on the
\* nonce may be bought with again.
LEMMA ReleaseKeeps ==
    ASSUME Inv, NEW r \in Requests, Release(r)
    PROVE  Inv'
<1>1. /\ UNCHANGED <<auth, taskId, rows, ledger, charged, mempool, posted, receipt, ended>>
      /\ pc[r] = "releasing" /\ pc' = [pc EXCEPT ![r] = "rejected"]
      /\ idem' = [idem EXCEPT ![auth[r]] = IF @ = Reserved THEN Absent ELSE @]
  BY DEF Release, Released, Goto, dbVars, chainVars
<1>2. /\ \A s \in Requests : pc'[s] = IF s = r THEN "rejected" ELSE pc[s]
      /\ \A m \in Nonces : \/ idem'[m] = idem[m] /\ (m = auth[r] => idem[m] # Reserved)
                           \/ m = auth[r] /\ idem[m] = Reserved /\ idem'[m] = Absent
      /\ auth[r] \in Nonces
  BY <1>1 DEF Inv, TypeOK
<1>3. TypeOK'
  BY <1>1 DEF Inv, TypeOK
<1>4. SentOnce' /\ Receipts'
  BY <1>1, <1>2 DEF Inv, TypeOK, SentOnce, Receipts
<1>5. OwnTask' /\ BoughtTask'
  BY <1>1, <1>2, ConstantsTyped DEF Inv, TypeOK, OwnTask, Owns, BoughtTask
<1>6. OneBuyer'
  <2>1. \A s \in Requests : /\ Buying(s)' => Buying(s)
                            /\ pc'[s] = "reading" => pc[s] = "reading"
                            /\ pc[s] = "rejected" => pc'[s] = "rejected"
    BY <1>1, <1>2 DEF Buying
  <2>2. \A m \in Nonces : idem'[m] = Absent => idem[m] = Absent \/ GaveBack(m)'
    BY <1>1, <1>2 DEF GaveBack
  <2> QED
    BY <1>1, <2>1, <2>2, OneBuyerKept DEF Inv
<1>7. Held'
  BY <1>1, <1>2, ConstantsTyped DEF Inv, Held
<1>8. OneUnflagged' /\ ChargedIsBought'
  BY <1>1, <1>2, ConstantsTyped
     DEF Inv, TypeOK, OneUnflagged, Unflagged, ChargedIsBought
<1>9. LedgerBetween'
  <2>1. \A p \in Payers : Counted(p)' \subseteq Counted(p)
    BY <1>1, <1>2, ConstantsTyped DEF Counted
  <2>2. \A p \in Payers : Countable(p) \subseteq Countable(p)'
    BY <1>1, <1>2 DEF Inv, TypeOK, Countable
  <2> QED
    BY <1>1, <1>3, <2>1, <2>2, LedgerKept DEF Inv
<1> QED
  BY <1>3, <1>4, <1>5, <1>6, <1>7, <1>8, <1>9 DEF Inv

-----------------------------------------------------------------------------
\* What a request sends joins the mempool, where nothing of it was.
LEMMA SendPostKeeps ==
    ASSUME Inv, NEW r \in Requests, SendPost(r)
    PROVE  Inv'
<1>1. /\ UNCHANGED <<auth, taskId, idem, rows, ledger, charged, posted, receipt, ended>>
      /\ pc[r] = "posting" /\ pc' = [pc EXCEPT ![r] = "sent"]
      /\ mempool' = Append(mempool, r)
  BY DEF SendPost, Goto, dbVars
<1>2. \A s \in Requests : pc'[s] = IF s = r THEN "sent" ELSE pc[s]
  BY <1>1 DEF Inv, TypeOK
<1>3. /\ \A i \in 1 .. Len(mempool) : mempool[i] \in Requests \ {r}
      /\ \A t \in 1 .. Len(posted) : posted[t] \in Requests \ {r}
  BY <1>1, NothingSent DEF Inv
<1>4. /\ Len(mempool') = Len(mempool) + 1 /\ mempool'[Len(mempool) + 1] = r
      /\ Len(mempool) \in Nat
      /\ \A i \in 1 .. Len(mempool) : mempool'[i] = mempool[i]
  BY <1>1 DEF Inv, TypeOK
<1>5. TypeOK'
  BY <1>1 DEF Inv, TypeOK
<1>6. SentOnce'
  <2>1. \A i \in 1 .. Len(mempool') :
            (i \in 1 .. Len(mempool) /\ mempool'[i] = mempool[i])
            \/ (i = Len(mempool) + 1 /\ mempool'[i] = r)
    BY <1>4
  <2> QED
    BY <1>1, <1>2, <1>3, <2>1 DEF Inv, SentOnce
<1>7. Receipts' /\ OwnTask' /\ BoughtTask'
  BY <1>1, <1>2 DEF Inv, Receipts, OwnTask, Owns, BoughtTask
<1>8. OneBuyer'
  <2>1. \A s \in Requests : /\ Buying(s)' => Buying(s)
                            /\ pc'[s] = "reading" => pc[s] = "reading"
                            /\ pc[s] = "rejected" => pc'[s] = "rejected"
    BY <1>1, <1>2, <1>4 DEF Buying
  <2> QED
    BY <1>1, <2>1, OneBuyerKept DEF Inv
<1>9. Held' /\ OneUnflagged' /\ ChargedIsBought'
  BY <1>1, <1>2 DEF Inv, Held, OneUnflagged, Unflagged, ChargedIsBought
<1>10. LedgerBetween'
  <2>1. \A p \in Payers : Counted(p)' \subseteq Counted(p)
    BY <1>1, <1>2 DEF Counted
  <2>2. \A p \in Payers : Countable(p) \subseteq Countable(p)'
    BY <1>1, <1>2, <1>3 DEF Countable
  <2> QED
    BY <1>1, <1>5, <2>1, <2>2, LedgerKept DEF Inv
<1> QED
  BY <1>5, <1>6, <1>7, <1>8, <1>9, <1>10 DEF Inv

\* A block moves the first transaction out of the mempool: it becomes a task
\* of its sender, and the task that its receipt names.
LEMMA ExecuteKeeps ==
    ASSUME Inv, Execute
    PROVE  Inv'
<1> DEFINE r == Head(mempool)
<1>1. /\ UNCHANGED <<pc, auth, taskId, idem, rows, ledger, charged, ended>>
      /\ mempool # <<>> /\ mempool' = Tail(mempool)
      /\ \/ posted' = Append(posted, r) /\ receipt' = [receipt EXCEPT ![r] = Len(posted) + 1]
         \/ posted' = posted /\ receipt' = [receipt EXCEPT ![r] = Reverted]
  BY DEF Execute, dbVars
<1>2. /\ Len(mempool) \in Nat \ {0} /\ r = mempool[1] /\ r \in Requests
      /\ Len(mempool') = Len(mempool) - 1
      /\ \A i \in 1 .. Len(mempool') :
            i + 1 \in 1 .. Len(mempool) /\ mempool'[i] = mempool[i + 1]
  BY <1>1 DEF Inv, TypeOK
<1> HIDE DEF r
<1>3. /\ Len(posted) \in Nat
      /\ \A t \in 1 .. Len(posted) : t \in 1 .. Len(posted') /\ posted'[t] = posted[t]
      /\ \A t \in 1 .. Len(posted') : \/ t \in 1 .. Len(posted)
                                      \/ t = Len(posted) + 1 /\ posted'[t] = r
  <2>1. posted \in Seq(Requests) /\ Len(posted) \in Nat
    BY DEF Inv, TypeOK
  <2>2. CASE posted' = Append(posted, r)
    BY <1>2, <2>1, <2>2
  <2>3. CASE posted' = posted
    BY <2>1, <2>3
  <2> QED
    BY <1>1, <2>2, <2>3
<1>4. TypeOK'
  <2>1. mempool' \in Seq(Requests)
    <3>1. mempool \in Seq(Requests)
      BY DEF Inv, TypeOK
    <3> QED
      BY <1>1, <3>1
  <2>2. posted' \in Seq(Requests)
    <3>1. posted \in Seq(Requests)
      BY DEF Inv, TypeOK
    <3>2. Append(posted, r) \in Seq(Requests)
      BY <1>2, <3>1
    <3> QED
      BY <1>1, <3>1, <3>2
  <2>3. receipt' \in [Requests -> Nat \cup {Absent, Reverted}]
    <3>1. Len(posted) + 1 \in Nat \cup {Absent, Reverted}
      BY <1>3
    <3> QED
      BY <1>1, <1>2, <3>1 DEF Inv, TypeOK
  <2> QED
    BY <1>1, <2>1, <2>2, <2>3 DEF Inv, TypeOK
<1>5. SentOnce'
  <2>1. /\ 1 \in 1 .. Len(mempool)
        /\ \A i \in 1 .. Len(mempool') : mempool'[i] # r
    BY <1>2 DEF Inv, SentOnce
  <2>2. \A i, j \in 1 .. Len(mempool') : mempool'[i] = mempool'[j] => i = j
    BY <1>2 DEF Inv, SentOnce
  <2>3. \A t \in 1 .. Len(posted) : posted[t] # r
    BY <1>2, <2>1 DEF Inv, SentOnce
  <2>4. \A t, u \in 1 .. Len(posted') : posted'[t] = posted'[u] => t = u
    BY <1>3, <2>3 DEF Inv, SentOnce
  <2>5. /\ \A i \in 1 .. Len(mempool') : pc'[mempool'[i]] \in AfterSend
        /\ \A t \in 1 .. Len(posted') : pc'[posted'[t]] \in AfterSend
    <3>1. pc[r] \in AfterSend
      BY <1>2, <2>1 DEF Inv, SentOnce
    <3> QED
      BY <1>1, <1>2, <1>3, <3>1 DEF Inv, SentOnce
  <2>6. \A i \in 1 .. Len(mempool'), t \in 1 .. Len(posted') : mempool'[i] # posted'[t]
    BY <1>2, <1>3, <2>1 DEF Inv, SentOnce
  <2> QED
    BY <2>2, <2>4, <2>5, <2>6 DEF SentOnce
<1>6. Receipts'
  <2> SUFFICES ASSUME NEW s \in Requests, receipt'[s] \in TaskIds
               PROVE  receipt'[s] \in 1 .. Len(posted') /\ posted'[receipt'[s]] = s
    BY DEF Receipts
  <2>1. CASE s # r
    <3>1. receipt'[s] = receipt[s]
      BY <1>1, <1>2, <2>1 DEF Inv, TypeOK
    <3> QED
      BY <1>3, <3>1 DEF Inv, Receipts
  <2>2. CASE s = r
    <3>1. posted' = Append(posted, r) /\ receipt'[r] = Len(posted) + 1
      BY <1>1, <1>2, <2>2, ConstantsTyped DEF Inv, TypeOK
    <3> QED
      BY <2>2, <3>1 DEF Inv, TypeOK
  <2> QED
    BY <2>1, <2>2
<1>7. OwnTask' /\ BoughtTask'
  BY <1>1, <1>3 DEF Inv, OwnTask, Owns, BoughtTask
<1>8. OneBuyer'
  <2>1. \A s \in Requests : Buying(s)' => Buying(s)
    <3>1. 1 \in 1 .. Len(mempool) /\ mempool[1] = r
      BY <1>2
    <3> QED
      BY <1>1, <1>2, <1>3, <3>1 DEF Buying
  <2> QED
    BY <1>1, <2>1, OneBuyerKept DEF Inv
<1>9. Held' /\ OneUnflagged' /\ ChargedIsBought'
  BY <1>1, <1>3 DEF Inv, Held, OneUnflagged, Unflagged, ChargedIsBought
<1>10. LedgerBetween'
  <2>1. \A p \in Payers : Counted(p)' \subseteq Counted(p)
    BY <1>1 DEF Counted
  <2>2. \A p \in Payers : Countable(p) \subseteq Countable(p)'
    BY <1>1, <1>3 DEF Countable
  <2> QED
    BY <1>1, <1>4, <2>1, <2>2, LedgerKept DEF Inv
<1> QED
  BY <1>4, <1>5, <1>6, <1>7, <1>8, <1>9, <1>10 DEF Inv

-----------------------------------------------------------------------------
\* The receipt names a task, the request's own from now on.
LEMMA PostReturnsKeeps ==
    ASSUME Inv, NEW r \in Requests, PostReturns(r), pc'[r] = "inserting"
    PROVE  Inv'
<1>1. /\ UNCHANGED <<auth, idem, rows, ledger, charged, mempool, posted, receipt, ended>>
      /\ pc[r] = "sent" /\ pc' = [pc EXCEPT ![r] = "inserting"]
      /\ receipt[r] \in TaskIds /\ taskId' = [taskId EXCEPT ![r] = receipt[r]]
  BY DEF Inv, TypeOK, PostReturns, Goto, dbVars, chainVars
<1>2. /\ \A s \in Requests : pc'[s] = IF s = r THEN "inserting" ELSE pc[s]
      /\ \A s \in Requests : taskId'[s] = IF s = r THEN receipt[r] ELSE taskId[s]
      /\ receipt[r] \in 1 .. Len(posted) /\ posted[receipt[r]] = r
  BY <1>1 DEF Inv, TypeOK, Receipts
<1>3. TypeOK'
  BY <1>1 DEF Inv, TypeOK
<1>4. SentOnce' /\ Receipts'
  BY <1>1, <1>2 DEF Inv, TypeOK, SentOnce, Receipts
<1>5. OwnTask' /\ BoughtTask'
  BY <1>1, <1>2 DEF Inv, OwnTask, Owns, BoughtTask
<1>6. OneBuyer'
  <2>1. \A s \in Requests : /\ Buying(s)' => Buying(s)
                            /\ pc'[s] = "reading" => pc[s] = "reading"
                            /\ pc[s] = "rejected" => pc'[s] = "rejected"
    BY <1>1, <1>2 DEF Buying
  <2> QED
    BY <1>1, <2>1, OneBuyerKept DEF Inv
<1>7. Held' /\ OneUnflagged' /\ ChargedIsBought'
  BY <1>1, <1>2 DEF Inv, Held, OneUnflagged, Unflagged, ChargedIsBought
<1>8. LedgerBetween'
  <2>1. \A p \in Payers : Counted(p)' \subseteq Counted(p)
    BY <1>1, <1>2 DEF Counted
  <2>2. \A p \in Payers : Countable(p) \subseteq Countable(p)'
    BY <1>1, <1>2 DEF Inv, TypeOK, Countable
  <2> QED
    BY <1>1, <1>3, <2>1, <2>2, LedgerKept DEF Inv
<1> QED
  BY <1>3, <1>4, <1>5, <1>6, <1>7, <1>8 DEF Inv

\* The row goes in under the request's own task: no other request's row is
\* written over, and a charge for this nonce that found its task still does.
LEMMA InsertRowKeeps ==
    ASSUME Inv, NEW r \in Requests, InsertRow(r)
    PROVE  Inv'
<1> DEFINE t == taskId[r]
           row == [authNonce |-> auth[r], open |-> TRUE, floatAbsorbed |-> FALSE]
<1>1. /\ UNCHANGED <<auth, taskId, idem, ledger, charged, mempool, posted, receipt, ended>>
      /\ pc[r] = "inserting" /\ pc' = [pc EXCEPT ![r] = "recording"]
      /\ rows' = [rows EXCEPT ![t] = row]
  BY DEF InsertRow, Goto, chainVars
<1>2. /\ \A s \in Requests : pc'[s] = IF s = r THEN "recording" ELSE pc[s]
      /\ t \in TaskIds /\ t \in 1 .. Len(posted) /\ posted[t] = r
      /\ \A u \in TaskIds \ {t} : rows'[u] = rows[u]
      /\ rows'[t] = row /\ row.authNonce = auth[r] /\ auth[r] \in Nonces
  BY <1>1 DEF Inv, TypeOK, OwnTask, Owns
<1>3. \A s \in Requests \ {r} : pc[s] \in WithTask => taskId[s] # t /\ taskId[s] \in TaskIds
  BY <1>2 DEF Inv, OwnTask, Owns
<1>4. TypeOK'
  <2>1. row \in [authNonce : Nonces \cup {NoNonce}, open : BOOLEAN, floatAbsorbed : BOOLEAN]
    BY <1>2
  <2> HIDE DEF t, row
  <2> QED
    BY <1>1, <1>2, <2>1 DEF Inv, TypeOK
<1> HIDE DEF row
<1>5. SentOnce' /\ Receipts'
  BY <1>1, <1>2 DEF Inv, TypeOK, SentOnce, Receipts
<1>6. OwnTask'
  BY <1>1, <1>2, <1>3 DEF Inv, OwnTask, Owns
<1>7. BoughtTask'
  <2> SUFFICES ASSUME NEW n \in Nonces, idem[n] \in TaskIds
               PROVE  /\ idem[n] \in 1 .. Len(posted) /\ auth[posted[idem[n]]] = n
                      /\ rows'[idem[n]].authNonce = n
    BY <1>1 DEF BoughtTask
  <2> QED
    BY <1>2 DEF Inv, BoughtTask
<1>8. OneBuyer'
  <2>1. \A s \in Requests : /\ Buying(s)' => Buying(s)
                            /\ pc'[s] = "reading" => pc[s] = "reading"
                            /\ pc[s] = "rejected" => pc'[s] = "rejected"
    BY <1>1, <1>2 DEF Buying
  <2> QED
    BY <1>1, <2>1, OneBuyerKept DEF Inv
<1>9. Held'
  BY <1>1, <1>2 DEF Inv, Held
<1>10. OneUnflagged'
  <2>1. \A n \in Nonces : Unflagged(n)' = Unflagged(n)
    BY <1>1, <1>2, <1>3 DEF Unflagged
  <2> QED
    BY <1>1, <2>1 DEF Inv, OneUnflagged
<1>11. ChargedIsBought'
  BY <1>1 DEF Inv, ChargedIsBought
<1>12. LedgerBetween'
  <2>1. \A p \in Payers : Counted(p)' \subseteq Counted(p)
    BY <1>1, <1>2 DEF Counted
  <2>2. \A p \in Payers : Countable(p) \subseteq Countable(p)'
    BY <1>1, <1>2 DEF Inv, TypeOK, Countable
  <2> QED
    BY <1>1, <1>4, <2>1, <2>2, LedgerKept DEF Inv
<1> QED
  BY <1>4, <1>5, <1>6, <1>7, <1>8, <1>9, <1>10, <1>11, <1>12 DEF Inv

\* The ledger counts one more nonce at most, and one more task at least: the
\* request's own, which it could not have counted before.
LEMMA RecordCapsKeeps ==
    ASSUME Inv, NEW r \in Requests, RecordCaps(r)
    PROVE  Inv'
<1>1. /\ UNCHANGED <<auth, taskId, idem, rows, charged, mempool, posted, receipt, ended>>
      /\ pc[r] = "recording" /\ pc' = [pc EXCEPT ![r] = "completing"]
      /\ ledger' = [ledger EXCEPT ![Payer(r)] = @ + 1]
  BY DEF RecordCaps, Goto, chainVars
<1>2. /\ \A s \in Requests : pc'[s] = IF s = r THEN "completing" ELSE pc[s]
      /\ auth[r] \in Nonces /\ Payer(r) \in Payers
      /\ \A p \in Payers : /\ ledger[p] \in Nat
                           /\ ledger'[p] = IF p = Payer(r) THEN ledger[p] + 1 ELSE ledger[p]
  BY <1>1, ConstantsTyped DEF Inv, TypeOK, Payer
<1>3. TypeOK'
  BY <1>1, <1>2 DEF Inv, TypeOK
<1>4. SentOnce' /\ Receipts'
  BY <1>1, <1>2 DEF Inv, TypeOK, SentOnce, Receipts
<1>5. OwnTask' /\ BoughtTask'
  BY <1>1, <1>2 DEF Inv, OwnTask, Owns, BoughtTask
<1>6. OneBuyer'
  <2>1. \A s \in Requests : /\ Buying(s)' => Buying(s)
                            /\ pc'[s] = "reading" => pc[s] = "reading"
                            /\ pc[s] = "rejected" => pc'[s] = "rejected"
    BY <1>1, <1>2 DEF Buying
  <2> QED
    BY <1>1, <2>1, OneBuyerKept DEF Inv
<1>7. Held' /\ OneUnflagged' /\ ChargedIsBought'
  BY <1>1, <1>2 DEF Inv, Held, OneUnflagged, Unflagged, ChargedIsBought
<1>8. LedgerBetween'
  <2> SUFFICES ASSUME NEW p \in Payers
               PROVE  /\ IsFiniteSet(Counted(p)') /\ Cardinality(Counted(p)') =< ledger'[p]
                      /\ ledger'[p] =< Cardinality(Countable(p)')
    BY DEF LedgerBetween
  <2>1. /\ IsFiniteSet(Counted(p)) /\ Cardinality(Counted(p)) =< ledger[p]
        /\ ledger[p] =< Cardinality(Countable(p))
    BY DEF Inv, LedgerBetween
  <2>2. /\ Cardinality(Counted(p)) \in Nat /\ Cardinality(Countable(p)) \in Nat
        /\ IsFiniteSet(Countable(p))
    BY <2>1, CountableIsFinite, FS_CardinalityType DEF Inv
  <2>3. CASE p # Payer(r)
    <3>1. Counted(p)' = Counted(p)
      BY <1>1, <1>2, <2>3 DEF Counted, Payer
    <3>2. Countable(p)' = Countable(p)
      BY <1>1, <1>2, <2>3 DEF Inv, TypeOK, Countable, Payer
    <3> QED
      BY <1>2, <2>1, <2>3, <3>1, <3>2
  <2>4. CASE p = Payer(r)
    <3>1. Counted(p)' \in SUBSET (Counted(p) \cup {auth[r]})
      BY <1>1, <1>2, <2>4 DEF Counted
    <3>2. /\ IsFiniteSet(Counted(p) \cup {auth[r]})
          /\ Cardinality(Counted(p) \cup {auth[r]}) =< Cardinality(Counted(p)) + 1
      <4>1. IsFiniteSet(Counted(p))
        BY <2>1
      <4>2. /\ IsFiniteSet(Counted(p) \cup {auth[r]})
            /\ Cardinality(Counted(p) \cup {auth[r]}) =
                  IF auth[r] \in Counted(p) THEN Cardinality(Counted(p))
                                            ELSE Cardinality(Counted(p)) + 1
        BY <4>1, FS_AddElement
      <4> QED
        BY <2>2, <4>2
    <3>3. /\ IsFiniteSet(Counted(p)')
          /\ Cardinality(Counted(p)') =< Cardinality(Counted(p) \cup {auth[r]})
      BY <3>1, <3>2, FS_Subset
    <3>4. /\ Cardinality(Counted(p)') \in Nat
          /\ Cardinality(Counted(p) \cup {auth[r]}) \in Nat
      BY <3>2, <3>3, FS_CardinalityType
    <3>5. Cardinality(Counted(p)') =< ledger'[p]
      BY <1>2, <2>1, <2>2, <2>4, <3>2, <3>3, <3>4
    <3>6. taskId[r] \notin Countable(p)
      BY <1>1 DEF Inv, OwnTask, Owns, Countable
    <3>7. (Countable(p) \cup {taskId[r]}) \in SUBSET Countable(p)'
      <4>1. taskId[r] \in 1 .. Len(posted) /\ posted[taskId[r]] = r
        BY <1>1 DEF Inv, OwnTask, Owns
      <4>2. taskId[r] \in Countable(p)'
        BY <1>1, <1>2, <2>4, <4>1 DEF Countable, Payer
      <4>3. Countable(p) \subseteq Countable(p)'
        BY <1>1, <1>2 DEF Inv, TypeOK, Countable
      <4> QED
        BY <4>2, <4>3
    <3>8. IsFiniteSet(Countable(p)') /\ Cardinality(Countable(p)') \in Nat
      BY <1>3, CountableStaysFinite
    <3>9. Cardinality(Countable(p)) + 1 =< Cardinality(Countable(p)')
      <4>1. Cardinality(Countable(p) \cup {taskId[r]}) = Cardinality(Countable(p)) + 1
        BY <2>2, <3>6, FS_AddElement
      <4>2. Cardinality(Countable(p) \cup {taskId[r]}) =< Cardinality(Countable(p)')
        BY <3>7, <3>8, FS_Subset
      <4> QED
        BY <4>1, <4>2
    <3> QED
      BY <1>2, <2>1, <2>2, <2>4, <3>3, <3>5, <3>8, <3>9
  <2> QED
    BY <2>3, <2>4
<1> QED
  BY <1>3, <1>4, <1>5, <1>6, <1>7, <1>8 DEF Inv

\* The reservation becomes the request's own task.  The nonce was counted
\* already, as one about to be completed.
LEMMA CompleteKeeps ==
    ASSUME Inv, NEW r \in Requests, Complete(r)
    PROVE  Inv'
<1>1. /\ UNCHANGED <<auth, taskId, rows, ledger, charged, mempool, posted, receipt, ended>>
      /\ pc[r] = "completing" /\ pc' = [pc EXCEPT ![r] = "settling"]
      /\ idem' = [idem EXCEPT ![auth[r]] = taskId[r]]
  BY DEF Complete, Goto, chainVars
<1>2. /\ \A s \in Requests : pc'[s] = IF s = r THEN "settling" ELSE pc[s]
      /\ auth[r] \in Nonces /\ taskId[r] \in TaskIds
      /\ taskId[r] \in 1 .. Len(posted) /\ posted[taskId[r]] = r
      /\ rows[taskId[r]].authNonce = auth[r]
      /\ \A n \in Nonces : idem'[n] = IF n = auth[r] THEN taskId[r] ELSE idem[n]
  BY <1>1 DEF Inv, TypeOK, OwnTask, Owns
<1>3. TypeOK'
  BY <1>1, <1>2 DEF Inv, TypeOK
<1>4. SentOnce' /\ Receipts'
  BY <1>1, <1>2 DEF Inv, TypeOK, SentOnce, Receipts
<1>5. OwnTask'
  <2>1. \A s \in Requests : pc[s] # "idle" => auth[s] \in Nonces
    BY DEF Inv, TypeOK
  <2> QED
    BY <1>1, <1>2, <2>1 DEF Inv, OwnTask, Owns
<1>6. BoughtTask'
  BY <1>1, <1>2 DEF Inv, BoughtTask
<1>7. OneBuyer'
  <2>1. \A s \in Requests : /\ Buying(s)' => Buying(s)
                            /\ pc'[s] = "reading" => pc[s] = "reading"
                            /\ pc[s] = "rejected" => pc'[s] = "rejected"
    BY <1>1, <1>2 DEF Buying
  <2> QED
    BY <1>1, <1>2, <2>1, OneBuyerKept, ConstantsTyped DEF Inv
<1>8. Held' /\ OneUnflagged' /\ ChargedIsBought'
  BY <1>1, <1>2, ConstantsTyped DEF Inv, Held, OneUnflagged, Unflagged, ChargedIsBought
<1>9. LedgerBetween'
  <2>1. \A p \in Payers : Counted(p)' \subseteq Counted(p)
    BY <1>1, <1>2 DEF Counted
  <2>2. \A p \in Payers : Countable(p) \subseteq Countable(p)'
    BY <1>1, <1>2 DEF Inv, TypeOK, Countable
  <2> QED
    BY <1>1, <1>3, <2>1, <2>2, LedgerKept DEF Inv
<1> QED
  BY <1>3, <1>4, <1>5, <1>6, <1>7, <1>8, <1>9 DEF Inv

\* The charge, or its failure.  An accepted request without a flag is the one
\* whose settle charged the nonce.
LEMMA SettleKeeps ==
    ASSUME Inv, NEW r \in Requests, Settle(r)
    PROVE  Inv'
<1>1. /\ UNCHANGED <<auth, taskId, idem, rows, ledger, mempool, posted, receipt, ended>>
      /\ pc[r] = "settling"
      /\ \/ /\ auth[r] \notin charged /\ charged' = charged \cup {auth[r]}
            /\ pc' = [pc EXCEPT ![r] = "accepted"] \/ pc' = [pc EXCEPT ![r] = "absorbing"]
         \/ pc' = [pc EXCEPT ![r] = "absorbing"] /\ charged' = charged
  BY DEF Settle, Goto, dbVars
<1>2. /\ \A s \in Requests \ {r} : pc'[s] = pc[s]
      /\ pc'[r] \in {"accepted", "absorbing"}
      /\ pc'[r] = "accepted" => auth[r] \notin charged
      /\ pc'[r] = "accepted" => auth[r] \in charged'
      /\ charged \subseteq charged' /\ charged' \subseteq charged \cup {auth[r]}
      /\ auth[r] \in Nonces /\ taskId[r] \in TaskIds
      /\ taskId[r] \in 1 .. Len(posted) /\ posted[taskId[r]] = r
      /\ rows[taskId[r]].authNonce = auth[r]
  BY <1>1 DEF Inv, TypeOK, OwnTask, Owns
<1>3. TypeOK'
  BY <1>1 DEF Inv, TypeOK
<1>4. SentOnce' /\ Receipts'
  BY <1>1, <1>2 DEF Inv, TypeOK, SentOnce, Receipts
<1>5. OwnTask' /\ BoughtTask'
  BY <1>1, <1>2 DEF Inv, OwnTask, Owns, BoughtTask
<1>6. OneBuyer'
  <2>1. \A s \in Requests : /\ Buying(s)' => Buying(s)
                            /\ pc'[s] = "reading" => pc[s] = "reading"
                            /\ pc[s] = "rejected" => pc'[s] = "rejected"
    BY <1>1, <1>2 DEF Buying
  <2> QED
    BY <1>1, <2>1, OneBuyerKept DEF Inv
<1>7. Held'
  <2>1. idem[auth[r]] # Reserved
    BY <1>1, ConstantsTyped DEF Inv, OwnTask
  <2> QED
    BY <1>1, <1>2, <2>1 DEF Inv, Held
<1>8. OneUnflagged'
  <2> SUFFICES ASSUME NEW n \in Nonces
               PROVE  /\ n \notin charged' => Unflagged(n)' = {}
                      /\ \A s, u \in Unflagged(n)' : s = u
    BY DEF OneUnflagged
  <2>1. /\ n \notin charged => Unflagged(n) = {}
        /\ \A s, u \in Unflagged(n) : s = u
    BY DEF Inv, OneUnflagged
  <2>2. Unflagged(n)' \subseteq Unflagged(n) \cup {r}
    BY <1>1, <1>2 DEF Unflagged
  <2>3. CASE r \in Unflagged(n)'
    <3>1. n = auth[r] /\ pc'[r] = "accepted"
      BY <1>1, <2>3 DEF Unflagged
    <3> QED
      BY <1>2, <2>1, <2>2, <3>1
  <2>4. CASE r \notin Unflagged(n)'
    BY <1>2, <2>1, <2>2, <2>4
  <2> QED
    BY <2>3, <2>4
<1>9. LedgerBetween'
  <2>1. \A p \in Payers : Counted(p)' \subseteq Counted(p)
    BY <1>1, <1>2 DEF Counted
  <2>2. \A p \in Payers : Countable(p) \subseteq Countable(p)'
    BY <1>1, <1>2 DEF Inv, TypeOK, Countable
  <2> QED
    BY <1>1, <1>3, <2>1, <2>2, LedgerKept DEF Inv
<1>10. ChargedIsBought'
  <2>1. idem[auth[r]] \in TaskIds
    BY <1>1 DEF Inv, OwnTask
  <2> QED
    BY <1>1, <1>2, <2>1 DEF Inv, ChargedIsBought
<1> QED
  BY <1>3, <1>4, <1>5, <1>6, <1>7, <1>8, <1>9, <1>10 DEF Inv

\* The request is accepted with its own row flagged.
LEMMA MarkAbsorbedKeeps ==
    ASSUME Inv, NEW r \in Requests, MarkAbsorbed(r)
    PROVE  Inv'
<1> DEFINE t == taskId[r]
<1>1. /\ UNCHANGED <<auth, taskId, idem, ledger, charged, mempool, posted, receipt, ended>>
      /\ pc[r] = "absorbing" /\ pc' = [pc EXCEPT ![r] = "accepted"]
      /\ rows' = [rows EXCEPT ![t].floatAbsorbed = TRUE]
  BY DEF MarkAbsorbed, Goto, chainVars
<1>2. /\ \A s \in Requests : pc'[s] = IF s = r THEN "accepted" ELSE pc[s]
      /\ t \in TaskIds /\ \A u \in TaskIds : rows'[u].authNonce = rows[u].authNonce
      /\ rows'[t].floatAbsorbed = TRUE
      /\ \A u \in TaskIds \ {t} : rows'[u] = rows[u]
  BY <1>1 DEF Inv, TypeOK, OwnTask
<1>3. TypeOK'
  <2>1. rows' \in [TaskIds -> [authNonce : Nonces \cup {NoNonce}, open : BOOLEAN,
                               floatAbsorbed : BOOLEAN]]
    BY <1>1 DEF Inv, TypeOK
  <2>2. pc' \in [Requests -> PCs]
    BY <1>1 DEF Inv, TypeOK
  <2> QED
    BY <1>1, <1>2, <2>1, <2>2 DEF Inv, TypeOK
<1> HIDE DEF t
<1>4. SentOnce' /\ Receipts'
  BY <1>1, <1>2 DEF Inv, TypeOK, SentOnce, Receipts
<1>5. OwnTask' /\ BoughtTask'
  BY <1>1, <1>2 DEF Inv, OwnTask, Owns, BoughtTask
<1>6. OneBuyer'
  <2>1. \A s \in Requests : /\ Buying(s)' => Buying(s)
                            /\ pc'[s] = "reading" => pc[s] = "reading"
                            /\ pc[s] = "rejected" => pc'[s] = "rejected"
    BY <1>1, <1>2 DEF Buying
  <2> QED
    BY <1>1, <2>1, OneBuyerKept DEF Inv
<1>7. Held'
  <2>1. idem[auth[r]] # Reserved
    BY <1>1, ConstantsTyped DEF Inv, OwnTask
  <2> QED
    BY <1>1, <1>2, <2>1 DEF Inv, Held
<1>8. OneUnflagged'
  <2>1. \A s \in Requests : pc'[s] = "accepted" => taskId[s] \in TaskIds
    BY <1>1, <1>2 DEF Inv, OwnTask, t
  <2>2. \A u \in TaskIds : ~rows'[u].floatAbsorbed => ~rows[u].floatAbsorbed /\ u # t
    BY <1>2
  <2>3. \A n \in Nonces : Unflagged(n)' \subseteq Unflagged(n)
    BY <1>1, <1>2, <2>1, <2>2 DEF Unflagged, t
  <2> QED
    BY <1>1, <2>3 DEF Inv, OneUnflagged
<1>9. ChargedIsBought'
  BY <1>1 DEF Inv, ChargedIsBought
<1>10. LedgerBetween'
  <2>1. \A p \in Payers : Counted(p)' \subseteq Counted(p)
    BY <1>1, <1>2 DEF Counted
  <2>2. \A p \in Payers : Countable(p) \subseteq Countable(p)'
    BY <1>1, <1>2 DEF Inv, TypeOK, Countable
  <2> QED
    BY <1>1, <1>3, <2>1, <2>2, LedgerKept DEF Inv
<1> QED
  BY <1>3, <1>4, <1>5, <1>6, <1>7, <1>8, <1>9, <1>10 DEF Inv

\* A task that ends closes its row, and the row keeps its nonce and its flag.
LEMMA TaskEndsKeeps ==
    ASSUME Inv, NEW t \in TaskIds, TaskEnds(t)
    PROVE  Inv'
<1>1. /\ UNCHANGED <<pc, auth, taskId, idem, ledger, charged, mempool, posted, receipt>>
      /\ ended' = ended \cup {t}
      /\ rows' = [rows EXCEPT ![t].open = FALSE] \/ rows' = rows
  BY DEF TaskEnds
<1>2. /\ \A u \in TaskIds : rows'[u].authNonce = rows[u].authNonce
      /\ \A u \in TaskIds : rows'[u].floatAbsorbed = rows[u].floatAbsorbed
      /\ rows' \in [TaskIds -> [authNonce : Nonces \cup {NoNonce}, open : BOOLEAN,
                                floatAbsorbed : BOOLEAN]]
  <2>1. rows \in [TaskIds -> [authNonce : Nonces \cup {NoNonce}, open : BOOLEAN,
                              floatAbsorbed : BOOLEAN]]
    BY DEF Inv, TypeOK
  <2>2. CASE rows' = [rows EXCEPT ![t].open = FALSE]
    BY <2>1, <2>2
  <2>3. CASE rows' = rows
    BY <2>1, <2>3
  <2> QED
    BY <1>1, <2>2, <2>3
<1>3. TypeOK'
  BY <1>1, <1>2 DEF Inv, TypeOK
<1>4. SentOnce' /\ Receipts'
  BY <1>1 DEF Inv, SentOnce, Receipts
<1>5. OwnTask' /\ BoughtTask'
  BY <1>1, <1>2 DEF Inv, OwnTask, Owns, BoughtTask
<1>6. OneBuyer'
  <2>1. \A s \in Requests : Buying(s)' => Buying(s)
    BY <1>1 DEF Buying
  <2> QED
    BY <1>1, <2>1, OneBuyerKept DEF Inv
<1>7. Held' /\ ChargedIsBought'
  BY <1>1 DEF Inv, Held, ChargedIsBought
<1>8. OneUnflagged'
  <2>1. \A n \in Nonces : Unflagged(n)' \subseteq Unflagged(n)
    <3>1. \A s \in Requests : pc[s] = "accepted" => taskId[s] \in TaskIds
      BY DEF Inv, OwnTask
    <3> QED
      BY <1>1, <1>2, <3>1 DEF Unflagged
  <2> QED
    BY <1>1, <2>1 DEF Inv, OneUnflagged
<1>9. LedgerBetween'
  <2>1. \A p \in Payers : Counted(p)' \subseteq Counted(p)
    BY <1>1 DEF Counted
  <2>2. \A p \in Payers : Countable(p) \subseteq Countable(p)'
    BY <1>1 DEF Countable
  <2> QED
    BY <1>1, <1>3, <2>1, <2>2, LedgerKept DEF Inv
<1> QED
  BY <1>3, <1>4, <1>5, <1>6, <1>7, <1>8, <1>9 DEF Inv

-----------------------------------------------------------------------------
\* What a step may be, with the quiet ones under their own name.
LEMMA Steps ==
    ASSUME Inv, NEW r \in Requests
    PROVE  /\ ReserveRead(r) => pc'[r] = "screening" \/ \E to : Quiet(r, to)
           /\ PostReturns(r) => pc'[r] = "inserting" \/ \E to : Quiet(r, to)
           /\ Replay(r) \/ Screen(r) \/ CheckCaps(r) \/ SendFails(r) \/ PostTimesOut(r)
                 \/ Throws(r) => \E to : Quiet(r, to)
<1>1. ASSUME ReserveRead(r), pc'[r] # "screening"
      PROVE  Quiet(r, "in_progress") \/ Quiet(r, "replaying")
  BY <1>1 DEF Inv, TypeOK, ReserveRead, Goto, Quiet
<1>2. ASSUME PostReturns(r), pc'[r] # "inserting"
      PROVE  Quiet(r, "releasing")
  BY <1>2 DEF Inv, TypeOK, PostReturns, Goto, Quiet
<1>3. Replay(r) => Quiet(r, "replayed") \/ Quiet(r, "not_found")
  BY DEF Inv, TypeOK, Replay, Goto, Quiet
<1>4. Screen(r) => Quiet(r, "capping") \/ Quiet(r, "releasing")
  BY DEF Inv, TypeOK, Screen, Goto, Quiet
<1>5. CheckCaps(r) => Quiet(r, "releasing") \/ Quiet(r, "posting")
  BY DEF Inv, TypeOK, CheckCaps, Goto, Quiet
<1>6. SendFails(r) \/ PostTimesOut(r) => Quiet(r, "releasing")
  BY DEF Inv, TypeOK, SendFails, PostTimesOut, Goto, Quiet
<1>7. Throws(r) => Quiet(r, "dead")
  BY DEF Inv, TypeOK, Throws, Quiet
<1> QED
  BY <1>1, <1>2, <1>3, <1>4, <1>5, <1>6, <1>7

\* One case per action.
LEMMA StepKeepsInv == Inv /\ [Next]_vars => Inv'
<1> SUFFICES ASSUME Inv, [Next]_vars
             PROVE  Inv'
  OBVIOUS
<1>1. ASSUME NEW r \in Requests, NEW n \in Nonces, Verify(r, n)
      PROVE  Inv'
  BY <1>1, VerifyKeeps
<1>2. ASSUME NEW r \in Requests, ReserveInsert(r)
      PROVE  Inv'
  BY <1>2, ReserveKeeps
<1>3. ASSUME NEW r \in Requests, ReserveRead(r)
      PROVE  Inv'
  BY <1>3, ReserveKeeps, Steps, QuietKeeps
<1>4. ASSUME NEW r \in Requests,
             Replay(r) \/ Screen(r) \/ CheckCaps(r) \/ SendFails(r) \/ PostTimesOut(r)
                \/ Throws(r)
      PROVE  Inv'
  BY <1>4, Steps, QuietKeeps
<1>5. ASSUME NEW r \in Requests, Release(r)
      PROVE  Inv'
  BY <1>5, ReleaseKeeps
<1>6. ASSUME NEW r \in Requests, SendPost(r)
      PROVE  Inv'
  BY <1>6, SendPostKeeps
<1>7. ASSUME NEW r \in Requests, PostReturns(r)
      PROVE  Inv'
  BY <1>7, PostReturnsKeeps, Steps, QuietKeeps
<1>8. ASSUME NEW r \in Requests, InsertRow(r)
      PROVE  Inv'
  BY <1>8, InsertRowKeeps
<1>9. ASSUME NEW r \in Requests, RecordCaps(r)
      PROVE  Inv'
  BY <1>9, RecordCapsKeeps
<1>10. ASSUME NEW r \in Requests, Complete(r)
       PROVE  Inv'
  BY <1>10, CompleteKeeps
<1>11. ASSUME NEW r \in Requests, Settle(r)
       PROVE  Inv'
  BY <1>11, SettleKeeps
<1>12. ASSUME NEW r \in Requests, MarkAbsorbed(r)
       PROVE  Inv'
  BY <1>12, MarkAbsorbedKeeps
<1>13. ASSUME NEW t \in TaskIds, TaskEnds(t)
       PROVE  Inv'
  BY <1>13, TaskEndsKeeps
<1>14. CASE Execute
  BY <1>14, ExecuteKeeps
<1>15. CASE UNCHANGED vars
  <2>1. UNCHANGED <<pc, auth, taskId, idem, rows, ledger, charged, mempool, posted,
                    ended, receipt>>
    BY <1>15 DEF vars, dbVars, chainVars
  <2>2. TypeOK' /\ SentOnce' /\ Receipts' /\ OwnTask' /\ BoughtTask'
    BY <2>1 DEF Inv, TypeOK, SentOnce, Receipts, OwnTask, Owns, BoughtTask
  <2>3. OneBuyer' /\ Held' /\ OneUnflagged' /\ ChargedIsBought'
    BY <2>1 DEF Inv, OneBuyer, GaveBack, Buying, Held, OneUnflagged, Unflagged,
                ChargedIsBought
  <2>4. LedgerBetween'
    BY <2>1 DEF Inv, LedgerBetween, Counted, Countable
  <2> QED
    BY <2>2, <2>3, <2>4 DEF Inv
<1> QED
  BY <1>1, <1>2, <1>3, <1>4, <1>5, <1>6, <1>7, <1>8, <1>9, <1>10, <1>11, <1>12, <1>13,
     <1>14, <1>15 DEF Next

\* The inductive invariant holds in every behaviour.
THEOREM HireInvariant == Spec => []Inv
<1> QED
  BY InitInv, StepKeepsInv, PTL DEF Spec

\* An authorization is only ever charged once a task bought with it is in
\* escrow and its row is in the table (services/hire.ts settles last).
THEOREM ChargesHaveTasks == Spec => []ChargedHasTask
<1>1. Inv => ChargedHasTask
  BY DEF Inv, TypeOK, ChargedIsBought, BoughtTask, ChargedHasTask
<1> QED
  BY <1>1, HireInvariant, PTL

\* A nonce is completed with a task whose row is in and carries the nonce, so
\* a replay finds it.
THEOREM CompletionsHaveRows == Spec => []CompletedHasRow
<1>1. Inv => CompletedHasRow
  BY DEF Inv, BoughtTask, CompletedHasRow
<1> QED
  BY <1>1, HireInvariant, PTL

\* No release, however late or of whatever request, frees an authorization
\* that has bought its task.
THEOREM ChargesStay == Spec => ChargesAreKept
<1>1. Inv /\ [Next]_vars =>
          [\A n \in Nonces : idem[n] \in TaskIds => idem'[n] \in TaskIds]_vars
  <2> SUFFICES ASSUME Inv, Next, NEW n \in Nonces, idem[n] \in TaskIds
               PROVE  idem'[n] \in TaskIds
    OBVIOUS
  <2>1. ASSUME NEW r \in Requests, ReserveInsert(r) \/ Release(r) \/ Complete(r)
        PROVE  idem'[n] \in TaskIds
    BY <2>1, ConstantsTyped
       DEF Inv, TypeOK, OwnTask, ReserveInsert, Release, Released, Complete, Goto
  <2>2. CASE UNCHANGED idem
    BY <2>2
  <2> QED
    BY <2>1, <2>2 DEF Next, Verify, ReserveRead, Replay, Screen, CheckCaps, SendPost,
          SendFails, PostReturns, PostTimesOut, InsertRow, RecordCaps, Settle,
          MarkAbsorbed, Throws, TaskEnds, Execute, dbVars
<1> QED
  BY <1>1, HireInvariant, PTL DEF Spec, ChargesAreKept

\* A reservation nobody works under was left by an invocation that died.
THEOREM HoldersHoldReservations == Spec => []ReservationsAreHeld
<1>1. Inv => ReservationsAreHeld
  BY DEF Inv, Held, ReservationsAreHeld
<1> QED
  BY <1>1, HireInvariant, PTL

\* Of the tasks one authorization was told 201 for, all but the one whose
\* payment arrived are flagged float_absorbed.
THEOREM FloatIsNeverShortInSilence == Spec => []FloatIsAccountedFor
<1>1. Inv => FloatIsAccountedFor
  <2> SUFFICES ASSUME Inv, NEW n \in Nonces
               PROVE  Cardinality(Unflagged(n)) =< (IF n \in charged THEN 1 ELSE 0)
    BY DEF FloatIsAccountedFor, Unflagged
  <2>1. CASE Unflagged(n) = {}
    BY <2>1, FS_EmptySet
  <2>2. CASE Unflagged(n) # {}
    <3>1. PICK r \in Unflagged(n) : Unflagged(n) = {r}
      BY <2>2 DEF Inv, OneUnflagged
    <3>2. Cardinality(Unflagged(n)) = 1
      BY <3>1, FS_Singleton
    <3> QED
      BY <2>2, <3>2 DEF Inv, OneUnflagged
  <2> QED
    BY <2>1, <2>2
<1> QED
  BY <1>1, HireInvariant, PTL

\* The ledger counts every authorization that bought a task, retries and
\* crashes included, and nothing that is not in escrow.
THEOREM LedgerCountsEscrow == Spec => []SpendIsRecorded
<1>1. Inv => SpendIsRecorded
  <2> SUFFICES ASSUME Inv, NEW p \in Payers
               PROVE  LET bought == {n \in Nonces : PayerOf[n] = p /\ idem[n] \in TaskIds}
                          escrowed == {t \in 1 .. Len(posted) : PayerOf[auth[posted[t]]] = p}
                      IN  /\ Cardinality(bought) =< ledger[p]
                          /\ ledger[p] =< Cardinality(escrowed)
    BY DEF SpendIsRecorded
  <2> DEFINE bought == {n \in Nonces : PayerOf[n] = p /\ idem[n] \in TaskIds}
             escrowed == {t \in 1 .. Len(posted) : PayerOf[auth[posted[t]]] = p}
  <2>1. Cardinality(bought) \in Nat /\ Cardinality(bought) =< Cardinality(Counted(p))
    <3>1. bought \in SUBSET Counted(p) /\ IsFiniteSet(Counted(p))
      BY DEF Inv, LedgerBetween, Counted
    <3> HIDE DEF bought
    <3> QED
      BY <3>1, FS_Subset, FS_CardinalityType
  <2>2. Cardinality(escrowed) \in Nat /\ Cardinality(Countable(p)) =< Cardinality(escrowed)
    <3>1. Len(posted) \in Nat
      BY DEF Inv, TypeOK
    <3>2. IsFiniteSet(1 .. Len(posted)) /\ escrowed \in SUBSET (1 .. Len(posted))
      BY <3>1, FS_Interval
    <3>3. Countable(p) \in SUBSET escrowed
      BY DEF Countable
    <3> HIDE DEF escrowed
    <3> QED
      BY <3>2, <3>3, FS_Subset, FS_CardinalityType
  <2>3. /\ Cardinality(Counted(p)) \in Nat /\ Cardinality(Countable(p)) \in Nat
        /\ Cardinality(Counted(p)) =< ledger[p] /\ ledger[p] \in Nat
        /\ ledger[p] =< Cardinality(Countable(p))
    BY CountableIsFinite, FS_CardinalityType DEF Inv, TypeOK, LedgerBetween
  <2> HIDE DEF bought, escrowed
  <2>4. Cardinality(bought) =< ledger[p] /\ ledger[p] =< Cardinality(escrowed)
    BY <2>1, <2>2, <2>3
  <2> QED
    BY <2>4 DEF bought, escrowed
<1> QED
  BY <1>1, HireInvariant, PTL

\* Two tasks of one authorization mean that a request of it had given its
\* reservation back: until then the insert into idempotency is a lock.
THEOREM OneTaskUntilARelease == Spec => []SecondTaskNeedsARelease
<1>1. Inv => SecondTaskNeedsARelease
  <2> SUFFICES ASSUME Inv, NEW t \in 1 .. Len(posted), NEW u \in 1 .. Len(posted),
                      t # u, auth[posted[t]] = auth[posted[u]],
                      ~GaveBack(auth[posted[t]])
               PROVE  FALSE
    BY DEF SecondTaskNeedsARelease, GaveBack
  <2>1. posted[t] \in Requests /\ posted[u] \in Requests
    BY QueuesTyped DEF Inv
  <2>2. auth[posted[t]] \in Nonces
    BY <2>1 DEF Inv, TypeOK, SentOnce
  <2>3. Buying(posted[t]) /\ Buying(posted[u])
    BY DEF Buying
  <2>4. posted[t] = posted[u]
    BY <2>1, <2>2, <2>3 DEF Inv, OneBuyer
  <2> QED
    BY <2>4 DEF Inv, SentOnce
<1> QED
  BY <1>1, HireInvariant, PTL
=============================================================================
