--------------------------- MODULE RegisterProofs ---------------------------
(***************************************************************************)
(* The safety of Register for any number of requests, humans, addresses    *)
(* and resets.  What is said of a request that went to the registry is     *)
(* said of it wherever its transaction is: on its way, in a block, or its  *)
(* answer given up (OnTheirWay, MinedTold).  So a row that is written      *)
(* after the receipt names a binding, or one that was beaten to it.        *)
(***************************************************************************)
EXTENDS Register, RegistryProofs

\* A request for which an attestation was signed, of a human who was verified.
Told(r) == AttestationOf(r) \in Attestations /\ rows[req[r].nullifier] # NotVerified

\* What can have kept a registration from binding.
Beaten(r) ==
    \/ \E a \in usedDigest : a.nullifier = req[r].nullifier \/ a.worker = req[r].worker
    \/ EverSeeded(req[r].worker)
    \/ req[r].deadline < now

\* An address that is, or was until a reset, a worker.
WasWorker(w) == EverSeeded(w) \/ \E a \in usedDigest : a.worker = w

\* What a sign-in may name.
MayName(w, n) == Recorded(w, n) \/ Raced(w, n)

SigningIn == {"asked", "naming", "unlisted", "seeded", "minting"}

ReqTold(r) ==
    /\ req[r].pc \in {"signed", "sent", "bind", "registered"} => Told(r)
    /\ req[r].pc \in {"bind", "registered"} => r \in mined
    /\ req[r].pc \in SigningIn => req[r].worker \in Workers
    /\ req[r].pc \in SigningIn \ {"asked"} => WasWorker(req[r].worker)
    /\ req[r].pc = "seeded" => EverSeeded(req[r].worker)
    /\ req[r].pc = "minting" => MayName(req[r].worker, req[r].nullifier)
    /\ req[r].pc \in {"resetting", "unbind"} =>
          req[r].nullifier \in Resettable /\ req[r].worker = NoAddress

ReqsTold == \A r \in Requests : ReqTold(r)

\* No registration is sent twice; none has an answer before its block.
OnTheirWay ==
    /\ \A k \in DOMAIN mempool :
          /\ Told(mempool[k]) /\ mempool[k] \notin mined
          /\ req[mempool[k]].pc \in {"sent", "unavailable", "dead"}
    /\ \A j, k \in DOMAIN mempool : mempool[j] = mempool[k] => j = k

MinedTold ==
    \A r \in mined :
        /\ Told(r)
        /\ req[r].pc \in {"sent", "bind", "registered", "unavailable", "error", "dead"}
        /\ EverBound(req[r].nullifier, req[r].worker) \/ Beaten(r)

VerifiedArePeople == \A n \in Nullifiers : rows[n] # NotVerified => n \in People
UsedAreVerified == \A a \in usedDigest : rows[a.nullifier] # NotVerified

\* A seeded record is the deployment's.
SeededAreSeedings ==
    \A w \in Workers :
        records[w].seeded => records[w].bound /\ <<w, records[w].nullifier>> \in Seedings

\* A row is written by a request that says so.
RowsRegistered ==
    \A n \in Nullifiers, w \in Workers :
        rows[n] = w => \E r \in mined : Asked(r, n, w) /\ req[r].pc = "registered"

Inv == /\ RegistryInv /\ TypeOK /\ ReqsTold /\ OnTheirWay /\ MinedTold
       /\ VerifiedArePeople /\ UsedAreVerified /\ SeededAreSeedings /\ RowsRegistered
       /\ LockedOutOnlyByLoss /\ SessionsAreOfWorkers /\ SessionsHaveRows

Codes == Running \cup Answered \cup {"new", "dead"}
Entry == [pc : Codes, nullifier : Humans, worker : Workers \cup {NoAddress}, deadline : Nat]

\* Where a request ends.
Ends == {"unavailable", "error", "dead", "registered", "session", "reset", "refused"}

\* How a request moves: one that went to the registry keeps what it asked.
SameAsk(r) == AttestationOf(r)' = AttestationOf(r)
Moves(r) ==
    /\ req[r].pc \notin Ends
    /\ req[r].pc = "sent" =>
          /\ SameAsk(r)
          /\ req'[r].pc \in {"unavailable", "dead"} \/ (req'[r].pc = "bind" /\ r \in mined)
    /\ req[r].pc = "bind" => SameAsk(r) /\ req'[r].pc \in {"error", "registered", "dead"}
    /\ req[r].pc = "unbind" => SameAsk(r) /\ req'[r].pc \in {"reset", "dead"}

\* What no step takes back: a spent attestation, a row, and of a seeded record
\* at least the request that reset it.
Onward ==
    /\ now' \in Nat /\ now =< now'
    /\ usedDigest \subseteq usedDigest' /\ mined \subseteq mined'
    /\ \A w \in Workers : isSeeded(w) => EverSeeded(w)'
    /\ \A n \in Nullifiers : rows[n] # NotVerified => rows'[n] # NotVerified
    /\ \A r \in Requests : req'[r] = req[r] \/ Moves(r)

-----------------------------------------------------------------------------
LEMMA AsksTyped ==
    ASSUME TypeOK, NEW r \in Requests
    PROVE  /\ req[r] \in Entry /\ now \in Nat
           /\ AttestationOf(r) \in Attestations =>
                 req[r].nullifier \in Nullifiers /\ req[r].worker \in Workers
<1>1. req[r] \in Entry /\ now \in Nat
  BY DEF TypeOK, Entry, Codes, Times
<1>2. ASSUME AttestationOf(r) \in Attestations
      PROVE  req[r].nullifier \in Nullifiers /\ req[r].worker \in Workers
  <2>1. AttestationOf(r) \in [nullifier : Nullifiers, worker : Workers, deadline : Nat]
    BY <1>2, RegistryAssumption
  <2>2. AttestationOf(r).nullifier = req[r].nullifier /\ AttestationOf(r).worker = req[r].worker
    BY DEF AttestationOf
  <2> QED
    BY <2>1, <2>2
<1> QED
  BY <1>1, <1>2

\* The parts of an attestation.
LEMMA AskParts ==
    ASSUME NEW r, SameAsk(r)
    PROVE  /\ req'[r].nullifier = req[r].nullifier /\ req'[r].worker = req[r].worker
           /\ req'[r].deadline = req[r].deadline
<1> DEFINE x == AttestationOf(r)
           y == AttestationOf(r)'
<1>1. /\ x.nullifier = req[r].nullifier /\ x.worker = req[r].worker
      /\ x.deadline = req[r].deadline
  BY DEF AttestationOf
<1>2. /\ y.nullifier = req'[r].nullifier /\ y.worker = req'[r].worker
      /\ y.deadline = req'[r].deadline
  BY DEF AttestationOf
<1>3. x = y
  BY DEF SameAsk
<1> HIDE DEF x, y
<1> QED
  BY <1>1, <1>2, <1>3

LEMMA StillIsSame ==
    ASSUME NEW r, req'[r] = req[r]
    PROVE  SameAsk(r)
BY DEF SameAsk, AttestationOf

\* A request that is over stays over.
LEMMA EndsStay ==
    ASSUME Onward, NEW r \in Requests, req[r].pc \in Ends
    PROVE  req'[r] = req[r]
BY DEF Onward, Moves

\* What excuses a session stays: the reset, the row's request, the attestation.
LEMMA NamesStay ==
    ASSUME Onward, NEW w \in Workers
    PROVE  /\ EverSeeded(w) => EverSeeded(w)'
           /\ WasWorker(w) => WasWorker(w)'
           /\ \A n : MayName(w, n) => MayName(w, n)'
<1>1. ASSUME NEW r \in Requests, NEW n, ResetAsked(r, n)
      PROVE  ResetAsked(r, n)'
  <2>1. SameAsk(r) /\ req'[r].pc \in {"unbind", "reset", "dead"}
    BY <1>1, StillIsSame DEF Onward, Moves, Ends, ResetAsked
  <2> QED
    BY <1>1, <2>1, AskParts DEF ResetAsked, Asked
<1>2. SeedReset(w) => SeedReset(w)'
  BY <1>1 DEF SeedReset
<1>3. EverSeeded(w) => EverSeeded(w)'
  BY <1>2 DEF EverSeeded, Onward
<1>4. usedDigest \subseteq usedDigest'
  BY DEF Onward
<1>5. WasWorker(w) => WasWorker(w)'
  BY <1>3, <1>4 DEF WasWorker
<1>6. ASSUME NEW n, Recorded(w, n)
      PROVE  Recorded(w, n)'
  <2>1. CASE <<w, n>> \in Seedings
    BY <2>1 DEF Recorded
  <2>2. CASE \E r \in Requests : Asked(r, n, w) /\ req[r].pc = "registered"
    BY <2>2, EndsStay DEF Ends, Recorded, Asked
  <2> QED
    BY <1>6, <2>1, <2>2 DEF Recorded
<1>7. ASSUME NEW n, Raced(w, n)
      PROVE  Raced(w, n)'
  BY <1>2, <1>4, <1>7 DEF Raced, EverBound
<1> QED
  BY <1>3, <1>5, <1>6, <1>7 DEF MayName

\* What was said of a request is still true of it.
LEMMA ToldStays ==
    ASSUME Inv, Onward, NEW r \in Requests, SameAsk(r), Told(r)
    PROVE  /\ Told(r)'
           /\ EverBound(req[r].nullifier, req[r].worker) =>
                 EverBound(req[r].nullifier, req[r].worker)'
           /\ Beaten(r) => Beaten(r)'
<1>1. req[r].nullifier \in Nullifiers /\ req[r].worker \in Workers
      /\ req[r].deadline \in Nat /\ now \in Nat
  BY AsksTyped DEF Inv, Told, Entry
<1>2. /\ req'[r].nullifier = req[r].nullifier /\ req'[r].worker = req[r].worker
      /\ req'[r].deadline = req[r].deadline
  BY AskParts
<1>3. Told(r)'
  BY <1>1, <1>2 DEF Told, Onward, SameAsk
<1>4. usedDigest \subseteq usedDigest' /\ now =< now' /\ now' \in Nat
  BY DEF Onward
<1>5. EverBound(req[r].nullifier, req[r].worker) =>
          EverBound(req[r].nullifier, req[r].worker)'
  BY <1>2, <1>4 DEF EverBound
<1>6. ASSUME Beaten(r)
      PROVE  Beaten(r)'
  <2>1. CASE \E a \in usedDigest : a.nullifier = req[r].nullifier \/ a.worker = req[r].worker
    BY <1>2, <1>4, <2>1 DEF Beaten
  <2>2. CASE EverSeeded(req[r].worker)
    <3>1. PICK w \in Workers : w = req[r].worker
      BY <1>1
    <3>2. EverSeeded(w)' /\ w = req'[r].worker
      BY <1>2, <2>2, <3>1, NamesStay
    <3> QED
      BY <3>2 DEF Beaten
  <2>3. CASE req[r].deadline < now
    <3>1. req[r].deadline < now'
      BY <1>1, <1>4, <2>3
    <3> QED
      BY <1>2, <3>1 DEF Beaten
  <2> QED
    BY <1>6, <2>1, <2>2, <2>3 DEF Beaten
<1> QED
  BY <1>3, <1>5, <1>6

LEMMA MinedStay ==
    ASSUME Inv, Onward, mined' = mined
    PROVE  MinedTold'
<1> SUFFICES ASSUME NEW r \in mined
             PROVE  /\ Told(r)'
                    /\ req'[r].pc \in {"sent", "bind", "registered", "unavailable", "error", "dead"}
                    /\ EverBound(req[r].nullifier, req[r].worker)' \/ Beaten(r)'
  BY DEF MinedTold
<1>1. r \in Requests /\ Told(r) /\ (EverBound(req[r].nullifier, req[r].worker) \/ Beaten(r))
      /\ req[r].pc \in {"sent", "bind", "registered", "unavailable", "error", "dead"}
  BY DEF Inv, TypeOK, MinedTold
<1>2. SameAsk(r)
      /\ req'[r].pc \in {"sent", "bind", "registered", "unavailable", "error", "dead"}
  BY <1>1, StillIsSame DEF Onward, Moves, Ends
<1> QED
  BY <1>1, <1>2, ToldStays

LEMMA MempoolStays ==
    ASSUME Inv, Onward, UNCHANGED <<mempool, mined>>
    PROVE  OnTheirWay'
<1> SUFFICES ASSUME NEW k \in DOMAIN mempool
             PROVE  /\ Told(mempool[k])'
                    /\ req'[mempool[k]].pc \in {"sent", "unavailable", "dead"}
  BY DEF OnTheirWay, Inv, TypeOK
<1>1. PICK r \in Requests : r = mempool[k]
  BY DEF Inv, TypeOK
<1>2. Told(r) /\ r \notin mined /\ req[r].pc \in {"sent", "unavailable", "dead"}
  BY <1>1 DEF Inv, OnTheirWay
<1>3. SameAsk(r) /\ req'[r].pc \in {"sent", "unavailable", "dead"}
  BY <1>2, StillIsSame DEF Onward, Moves, Ends
<1>4. Told(r)'
  BY <1>2, <1>3, ToldStays
<1>5. r = mempool'[k]
  BY <1>1
<1> QED
  BY <1>3, <1>4, <1>5 DEF Told, AttestationOf

\* The requests that do not move.
LEMMA ReqStays ==
    ASSUME Inv, Onward, NEW r \in Requests, req'[r] = req[r]
    PROVE  ReqTold(r)'
<1>1. SameAsk(r)
  BY StillIsSame
<1>2. Told(r) => Told(r)'
  BY <1>1, ToldStays
<1>3. ReqTold(r) /\ (r \in mined => r \in mined')
  BY DEF Inv, ReqsTold, Onward
<1>4. CASE req[r].pc \in SigningIn
  <2>1. PICK w \in Workers : w = req[r].worker
    BY <1>3, <1>4 DEF ReqTold
  <2>2. /\ WasWorker(w) => WasWorker(w)'
        /\ EverSeeded(w) => EverSeeded(w)'
        /\ \A n : MayName(w, n) => MayName(w, n)'
    BY NamesStay
  <2>3. PICK n : n = req[r].nullifier
    OBVIOUS
  <2>4. /\ WasWorker(w) => WasWorker(req[r].worker)'
        /\ EverSeeded(w) => EverSeeded(req[r].worker)'
        /\ MayName(w, n) => MayName(req[r].worker, req[r].nullifier)'
    BY <2>1, <2>2, <2>3
  <2> QED
    BY <1>3, <1>4, <2>1, <2>3, <2>4 DEF ReqTold, SigningIn
<1>5. CASE req[r].pc \notin SigningIn
  BY <1>2, <1>3, <1>5 DEF ReqTold, SigningIn
<1> QED
  BY <1>4, <1>5

\* A session was right when it was minted, and stays so.
LEMMA SessionsStay ==
    ASSUME Inv, Onward, sessions' = sessions
    PROVE  SessionsAreOfWorkers' /\ SessionsHaveRows'
<1> SUFFICES ASSUME NEW s \in sessions
             PROVE  WasWorker(s[1])' /\ MayName(s[1], s[2])'
  BY DEF SessionsAreOfWorkers, SessionsHaveRows, WasWorker, MayName
<1>1. s[1] \in Workers
  BY DEF Inv, TypeOK
<1>2. WasWorker(s[1]) /\ MayName(s[1], s[2])
  BY DEF Inv, SessionsAreOfWorkers, SessionsHaveRows, WasWorker, MayName
<1> QED
  BY <1>1, <1>2, NamesStay

LEMMA RowsStay ==
    ASSUME Inv, Onward, \A n \in Nullifiers : rows'[n] = rows[n] \/ rows'[n] \in {NULL, NotVerified}
    PROVE  RowsRegistered'
<1> SUFFICES ASSUME NEW n \in Nullifiers, NEW w \in Workers, rows'[n] = w
             PROVE  \E r \in mined' : Asked(r, n, w)' /\ req'[r].pc = "registered"
  BY DEF RowsRegistered
<1>1. rows[n] = w
  BY RegisterAssumption
<1>2. PICK r \in mined : Asked(r, n, w) /\ req[r].pc = "registered"
  BY <1>1 DEF Inv, RowsRegistered
<1>3. r \in Requests /\ r \in mined'
  BY DEF Inv, TypeOK, Onward
<1>4. req'[r] = req[r]
  BY <1>2, <1>3, EndsStay DEF Ends
<1> QED
  BY <1>2, <1>3, <1>4 DEF Asked

\* What accounts for a human who is locked out.
Lost(n) ==
    \E r \in Requests :
        /\ req[r].nullifier = n
        /\ req[r].pc \in {"sent", "bind", "unavailable", "error", "dead", "reset"}

\* A human who is locked out stays accounted for, unless a row is bound.
LEMMA LockedOutStays ==
    ASSUME Inv, Onward,
           \A n \in Nullifiers :
               workerOf'[n] # NoAddress /\ ~isSeeded(workerOf[n])' /\ rows'[n] = NULL =>
                   \/ workerOf[n] # NoAddress /\ ~isSeeded(workerOf[n]) /\ rows[n] = NULL
                   \/ Lost(n)',
           \A r \in Requests :
               req[r].pc = "bind" /\ req'[r].pc = "registered" => rows'[req[r].nullifier] # NULL
    PROVE  LockedOutOnlyByLoss'
<1> SUFFICES ASSUME NEW n \in Nullifiers, workerOf'[n] # NoAddress,
                    ~isSeeded(workerOf[n])', rows'[n] = NULL
             PROVE  Lost(n)'
  BY DEF LockedOutOnlyByLoss, Lost
<1>1. CASE Lost(n)'
  BY <1>1
<1>2. CASE workerOf[n] # NoAddress /\ ~isSeeded(workerOf[n]) /\ rows[n] = NULL
  <2>1. PICK r \in Requests :
            /\ req[r].nullifier = n
            /\ req[r].pc \in {"sent", "bind", "unavailable", "error", "dead", "reset"}
    BY <1>2 DEF Inv, LockedOutOnlyByLoss
  <2>2. \/ req'[r] = req[r]
        \/ SameAsk(r) /\ req'[r].pc \in {"bind", "unavailable", "error", "dead"}
    BY <2>1 DEF Onward, Moves, Ends
  <2> QED
    BY <2>1, <2>2, AskParts DEF Lost
<1> QED
  BY <1>1, <1>2

-----------------------------------------------------------------------------
\* A move of one request, within its fields.
LEMMA GotoShape ==
    ASSUME TypeOK, NEW r \in Requests, NEW from, NEW to \in Codes, Goto(r, from, to)
    PROVE  /\ req[r].pc = from /\ req'[r].pc = to /\ SameAsk(r)
           /\ req' \in [Requests -> Entry] /\ req' = [req EXCEPT ![r].pc = to]
           /\ \A s \in Requests \ {r} : req'[s] = req[s]
<1>1. req \in [Requests -> Entry] /\ req[r].pc = from /\ req' = [req EXCEPT ![r].pc = to]
  BY DEF Goto, TypeOK, Entry, Codes
<1>2. /\ req'[r].pc = to /\ req'[r].nullifier = req[r].nullifier
      /\ req'[r].worker = req[r].worker /\ req'[r].deadline = req[r].deadline
      /\ \A s \in Requests \ {r} : req'[s] = req[s]
  BY <1>1 DEF Entry
<1>3. req' \in [Requests -> Entry]
  BY <1>1 DEF Entry
<1>4. SameAsk(r)
  BY <1>2 DEF SameAsk, AttestationOf
<1> QED
  BY <1>1, <1>2, <1>3, <1>4

\* A sign-in takes the nullifier it will carry.
LEMMA NameShape ==
    ASSUME TypeOK, NEW r \in Requests, NEW from, NEW n \in Humans, Name(r, from, n)
    PROVE  /\ req[r].pc = from /\ req'[r].pc = "minting"
           /\ req'[r].nullifier = n /\ req'[r].worker = req[r].worker
           /\ req' \in [Requests -> Entry]
           /\ \A s \in Requests \ {r} : req'[s] = req[s]
<1>1. /\ req \in [Requests -> Entry] /\ req[r].pc = from /\ "minting" \in Codes
      /\ req' = [req EXCEPT ![r].pc = "minting", ![r].nullifier = n]
  BY DEF Name, TypeOK, Entry, Codes, Running
<1> QED
  BY <1>1 DEF Entry

\* A new request.
LEMMA StartShape ==
    ASSUME TypeOK, NEW r \in Requests, NEW to \in Codes,
           NEW n \in Humans, NEW w \in Workers \cup {NoAddress}, Start(r, to, n, w)
    PROVE  /\ req[r].pc = "new" /\ req'[r].pc = to
           /\ req'[r].nullifier = n /\ req'[r].worker = w
           /\ req' \in [Requests -> Entry]
           /\ \A s \in Requests \ {r} : req'[s] = req[s]
<1> DEFINE e == [pc |-> to, nullifier |-> n, worker |-> w, deadline |-> 0]
<1>1. req \in [Requests -> Entry] /\ req[r].pc = "new" /\ req' = [req EXCEPT ![r] = e]
  BY DEF Start, TypeOK, Entry, Codes
<1>2. e \in Entry /\ e.pc = to /\ e.nullifier = n /\ e.worker = w
  BY DEF Entry
<1> HIDE DEF e
<1> QED
  BY <1>1, <1>2

\* A step in which only requests move.
LEMMA RequestMoves ==
    ASSUME Inv, NEW r \in Requests, UNCHANGED <<now, registryVars, rows, mined>>,
           \A s \in Requests \ {r} : req'[s] = req[s], Moves(r)
    PROVE  Onward
<1>1. now' \in Nat /\ now =< now' /\ mined' = mined /\ rows' = rows
      /\ records' = records /\ usedDigest' = usedDigest
  BY AsksTyped DEF Inv, TypeOK, registryVars, Times
<1> QED
  BY <1>1 DEF Onward, isSeeded, EverSeeded

LEMMA RequestKeeps ==
    ASSUME Inv, NEW r \in Requests,
           UNCHANGED <<now, registryVars, rows, mempool, mined, sessions>>,
           req' \in [Requests -> Entry],
           \A s \in Requests \ {r} : req'[s] = req[s], Moves(r),
           req[r].pc # "bind" \/ req'[r].pc # "registered",
           ReqTold(r)'
    PROVE  Inv'
<1>1. Onward
  BY RequestMoves
<1>2. RegistryInv' /\ TypeOK'
  <2>1. RegistryInv'
    BY RegistryUnchanged DEF Inv
  <2> QED
    BY <2>1 DEF Inv, TypeOK, RegistryInv, Entry, Codes
<1>3. ReqsTold'
  BY <1>1, ReqStays DEF ReqsTold
<1>4. OnTheirWay' /\ MinedTold' /\ SessionsAreOfWorkers' /\ SessionsHaveRows' /\ RowsRegistered'
  BY <1>1, MempoolStays, MinedStay, SessionsStay, RowsStay
<1>5. VerifiedArePeople' /\ UsedAreVerified' /\ SeededAreSeedings'
  BY DEF Inv, VerifiedArePeople, UsedAreVerified, SeededAreSeedings, registryVars
<1>6. LockedOutOnlyByLoss'
  BY <1>1, LockedOutStays DEF registryVars, isSeeded
<1> QED
  BY <1>2, <1>3, <1>4, <1>5, <1>6 DEF Inv

\* Only a verified human gets an attestation.
LEMMA AttestStep ==
    ASSUME Inv, NEW r \in Requests, NEW n \in Nullifiers, NEW w \in Workers, Attest(r, n, w)
    PROVE  Inv'
<1> DEFINE pc == IF rows[n] = NULL THEN "signed" ELSE "refused"
           e == [pc |-> pc, nullifier |-> n, worker |-> w, deadline |-> now + DEADLINE_S]
<1>1. /\ req \in [Requests -> Entry] /\ req[r].pc = "new" /\ req' = [req EXCEPT ![r] = e]
      /\ rows[n] # NotVerified
      /\ UNCHANGED <<now, registryVars, rows, mempool, mined, sessions>>
  BY DEF Attest, Inv, TypeOK, Entry, Codes
<1>2. now \in 1 .. MaxTime /\ now + DEADLINE_S \in 1 .. MaxTime + DEADLINE_S
  BY RegisterAssumption, BlockTimeAssumption DEF Inv, TypeOK, Times
<1>3. pc \in {"signed", "refused"} /\ pc \in Codes /\ n \in Humans
  BY DEF Codes, Running, Answered, Humans
<1> HIDE DEF pc
<1>4. e \in Entry /\ e.pc = pc /\ e.nullifier = n /\ e.worker = w
      /\ e.deadline = now + DEADLINE_S
  BY <1>2, <1>3 DEF Entry
<1> HIDE DEF e
<1>5. req'[r] = e /\ req' \in [Requests -> Entry] /\ \A s \in Requests \ {r} : req'[s] = req[s]
  BY <1>1, <1>4
<1>6. AttestationOf(r)' \in Attestations
  <2>1. AttestationOf(r)' = [nullifier |-> n, worker |-> w, deadline |-> now + DEADLINE_S]
    BY <1>4, <1>5 DEF AttestationOf
  <2> QED
    BY <1>2, <2>1, RegisterAssumption
<1>7. Told(r)'
  BY <1>1, <1>4, <1>5, <1>6 DEF Told
<1>8. ReqTold(r)'
  BY <1>3, <1>4, <1>5, <1>7 DEF ReqTold, SigningIn
<1>9. Moves(r)
  BY <1>1 DEF Moves, Ends
<1> QED
  BY <1>1, <1>5, <1>8, <1>9, RequestKeeps

\* The steps of a request that write nothing but its own place.
LEMMA PlainStep ==
    ASSUME Inv, NEW r \in Requests,
           UNCHANGED <<now, registryVars, rows, mempool, mined, sessions>>,
           \/ Goto(r, "signed", "refused")
           \/ Goto(r, "signed", "unavailable")
           \/ Returns(r) \/ TimesOut(r) \/ Goto(r, "bind", "error")
           \/ requireRegisteredWorker(r) \/ Crash(r)
    PROVE  Inv'
<1> USE DEF Codes, Running, Answered
<1>0. TypeOK /\ ReqTold(r)
  BY DEF Inv, ReqsTold
<1>1. ASSUME NEW from, NEW to \in {"refused", "unavailable", "error", "dead"},
             Goto(r, from, to), from \notin Ends, from = "sent" => to \in {"unavailable", "dead"},
             from = "bind" => to \in {"error", "dead"}, from = "unbind" => to = "dead"
      PROVE  Inv'
  <2>1. /\ req[r].pc = from /\ req'[r].pc = to /\ SameAsk(r) /\ req' \in [Requests -> Entry]
        /\ \A s \in Requests \ {r} : req'[s] = req[s]
    BY <1>0, <1>1, GotoShape
  <2>2. Moves(r) /\ ReqTold(r)'
    BY <1>1, <2>1 DEF Moves, ReqTold, SigningIn
  <2> QED
    BY <1>1, <2>1, <2>2, RequestKeeps
<1>2. CASE Goto(r, "signed", "refused") \/ Goto(r, "signed", "unavailable") \/ TimesOut(r)
           \/ Goto(r, "bind", "error")
  BY <1>1, <1>2 DEF TimesOut, Ends
<1>3. CASE Crash(r)
  <2>1. Goto(r, req[r].pc, "dead") /\ req[r].pc \in Running
    BY <1>3 DEF Crash, Goto
  <2> QED
    BY <1>1, <2>1 DEF Ends
<1>4. CASE Returns(r)
  <2>1. r \in mined /\ Goto(r, "sent", "bind")
    BY <1>4 DEF Returns
  <2>2. /\ req[r].pc = "sent" /\ req'[r].pc = "bind" /\ SameAsk(r)
        /\ req' \in [Requests -> Entry] /\ \A s \in Requests \ {r} : req'[s] = req[s]
    BY <1>0, <2>1, GotoShape
  <2>3. Moves(r)
    BY <2>1, <2>2 DEF Moves, Ends
  <2>4. Told(r)'
    BY <1>0, <2>2, <2>3, RequestMoves, ToldStays DEF ReqTold
  <2>5. ReqTold(r)'
    BY <2>1, <2>2, <2>4 DEF ReqTold, SigningIn
  <2> QED
    BY <2>2, <2>3, <2>5, RequestKeeps
<1>5. CASE requireRegisteredWorker(r)
  <2> DEFINE to == IF isWorker(req[r].worker) THEN "naming" ELSE "refused"
  <2>1. Goto(r, "asked", to) /\ to \in {"naming", "refused"} /\ to \in Codes
    BY <1>5 DEF requireRegisteredWorker
  <2>2. to = "naming" => isWorker(req[r].worker)
    OBVIOUS
  <2> HIDE DEF to
  <2>3. /\ req[r].pc = "asked" /\ req'[r].pc = to /\ SameAsk(r)
        /\ req' \in [Requests -> Entry] /\ \A s \in Requests \ {r} : req'[s] = req[s]
    BY <1>0, <2>1, GotoShape
  <2>4. Moves(r)
    BY <2>3 DEF Moves, Ends
  <2>5. req'[r].worker = req[r].worker /\ req[r].worker \in Workers
    BY <1>0, <2>3, AskParts DEF ReqTold, SigningIn
  <2>6. to = "naming" => WasWorker(req[r].worker)'
    <3>1. UNCHANGED <<records, usedDigest>>
      BY DEF registryVars
    <3>2. to = "naming" =>
              records[req[r].worker].seeded \/ \E a \in usedDigest : a.worker = req[r].worker
      BY <2>2, <2>5 DEF Inv, RegistryInv, AttestedOrSeeded, isWorker
    <3> QED
      BY <2>5, <3>1, <3>2 DEF WasWorker, EverSeeded, isSeeded
  <2>7. ReqTold(r)'
    BY <2>1, <2>3, <2>5, <2>6 DEF ReqTold, SigningIn
  <2> QED
    BY <2>1, <2>3, <2>4, <2>7, RequestKeeps
<1> QED
  BY <1>2, <1>3, <1>4, <1>5

\* A request for a session, or for a reset, starts with nothing said of it.
LEMMA StartStep ==
    ASSUME Inv, NEW r \in Requests,
           \/ \E n \in Nullifiers, w \in Workers : idkitMode(r, n, w)
           \/ \E w \in Workers : walletAuthMode(r, w)
           \/ \E n \in Resettable : resetWorkerRoute(r, n)
    PROVE  Inv'
<1>1. PICK to \in {"asked", "refused", "resetting"}, n \in Humans,
           w \in Workers \cup {NoAddress} :
          /\ Start(r, to, n, w)
          /\ to = "asked" => w \in Workers
          /\ to = "resetting" => n \in Resettable /\ w = NoAddress
  <2>1. CASE \E n \in Nullifiers, w \in Workers : idkitMode(r, n, w)
    BY <2>1 DEF idkitMode, Humans
  <2>2. CASE \E w \in Workers : walletAuthMode(r, w)
    BY <2>2 DEF walletAuthMode, Humans
  <2>3. CASE \E n \in Resettable : resetWorkerRoute(r, n)
    BY <2>3, RegisterAssumption DEF resetWorkerRoute, Humans
  <2> QED
    BY <2>1, <2>2, <2>3
<1>2. UNCHANGED <<now, registryVars, rows, mempool, mined, sessions>>
  BY DEF idkitMode, walletAuthMode, resetWorkerRoute
<1>3. TypeOK /\ to \in Codes
  BY DEF Inv, Codes, Running, Answered
<1>4. /\ req[r].pc = "new" /\ req'[r].pc = to /\ req'[r].nullifier = n /\ req'[r].worker = w
      /\ req' \in [Requests -> Entry] /\ \A s \in Requests \ {r} : req'[s] = req[s]
  BY <1>1, <1>3, StartShape
<1>5. Moves(r) /\ ReqTold(r)'
  BY <1>1, <1>4 DEF Moves, Ends, ReqTold, SigningIn
<1> QED
  BY <1>1, <1>2, <1>4, <1>5, RequestKeeps

\* A registration passes its estimate and is sent: it was on no way before.
LEMMA SentStep ==
    ASSUME Inv, NEW r \in Requests, Goto(r, "signed", "sent"),
           mempool' = Append(mempool, r),
           UNCHANGED <<now, registryVars, rows, mined, sessions>>
    PROVE  Inv'
<1>1. /\ req[r].pc = "signed" /\ req'[r].pc = "sent" /\ SameAsk(r)
      /\ req' \in [Requests -> Entry] /\ \A s \in Requests \ {r} : req'[s] = req[s]
  <2>1. TypeOK /\ "sent" \in Codes
    BY DEF Inv, Codes, Running
  <2> QED
    BY <2>1, GotoShape
<1>2. Moves(r)
  BY <1>1 DEF Moves, Ends
<1>3. Onward
  BY <1>1, <1>2, RequestMoves
<1>4. Told(r) /\ r \notin mined
  BY <1>1 DEF Inv, ReqsTold, ReqTold, MinedTold
<1>5. Told(r)'
  BY <1>1, <1>3, <1>4, ToldStays
<1>6. /\ mempool \in Seq(Requests) /\ Len(mempool) \in Nat
      /\ mempool' \in Seq(Requests) /\ DOMAIN mempool = 1 .. Len(mempool)
      /\ DOMAIN mempool' = 1 .. Len(mempool) + 1 /\ mempool'[Len(mempool) + 1] = r
      /\ \A k \in 1 .. Len(mempool) : mempool'[k] = mempool[k] /\ mempool[k] \in Requests
  <2>1. mempool \in Seq(Requests)
    BY DEF Inv, TypeOK
  <2> QED
    BY <2>1
<1>7. RegistryInv' /\ TypeOK'
  <2>1. RegistryInv'
    BY RegistryUnchanged DEF Inv
  <2> QED
    BY <1>1, <1>6, <2>1 DEF Inv, TypeOK, RegistryInv, Entry, Codes
<1>8. OnTheirWay'
  <2>1. ASSUME NEW k \in 1 .. Len(mempool)
        PROVE  /\ Told(mempool[k])' /\ mempool[k] \notin mined /\ mempool[k] # r
               /\ req'[mempool'[k]].pc \in {"sent", "unavailable", "dead"}
    <3>1. PICK s \in Requests : s = mempool[k]
      BY <1>6
    <3>2. Told(s) /\ s \notin mined /\ req[s].pc \in {"sent", "unavailable", "dead"}
      BY <1>6, <3>1 DEF Inv, OnTheirWay
    <3>3. s # r /\ req'[s] = req[s]
      BY <1>1, <3>2
    <3>4. SameAsk(s)
      BY <3>3, StillIsSame
    <3>5. Told(s)'
      BY <1>3, <3>2, <3>4, ToldStays
    <3>6. s = mempool'[k]
      BY <1>6, <3>1
    <3> QED
      BY <3>1, <3>2, <3>3, <3>5, <3>6 DEF Told, AttestationOf
  <2>2. \A j, k \in 1 .. Len(mempool) : mempool[j] = mempool[k] => j = k
    BY <1>6 DEF Inv, OnTheirWay
  <2> QED
    BY <1>1, <1>4, <1>5, <1>6, <2>1, <2>2 DEF OnTheirWay, Told, AttestationOf
<1>9. ReqsTold'
  <2>1. ReqTold(r)'
    BY <1>1, <1>5 DEF ReqTold, SigningIn
  <2> QED
    BY <1>1, <1>3, <2>1, ReqStays DEF ReqsTold
<1>10. MinedTold' /\ SessionsAreOfWorkers' /\ SessionsHaveRows' /\ RowsRegistered'
  BY <1>3, MinedStay, SessionsStay, RowsStay
<1>11. VerifiedArePeople' /\ UsedAreVerified' /\ SeededAreSeedings'
  BY DEF Inv, VerifiedArePeople, UsedAreVerified, SeededAreSeedings, registryVars
<1>12. LockedOutOnlyByLoss'
  BY <1>1, <1>3, LockedOutStays DEF registryVars, isSeeded
<1> QED
  BY <1>7, <1>8, <1>9, <1>10, <1>11, <1>12 DEF Inv

\* Nobody is known to the registry before the row of the human is there.
LEMMA KnownHasRow ==
    ASSUME Inv, NEW n \in Nullifiers, workerOf[n] # NoAddress, ~isSeeded(workerOf[n])
    PROVE  rows[n] # NotVerified
<1>1. workerOf[n] \in Workers
  BY DEF Inv, TypeOK, RegistryTypeOK
<1>2. records[workerOf[n]].bound /\ records[workerOf[n]].nullifier = n
  BY <1>1 DEF Inv, RegistryInv, OneHumanOneWorker
<1>3. \E a \in usedDigest : a.nullifier = n
  BY <1>1, <1>2 DEF Inv, RegistryInv, AttestedOrSeeded, isSeeded
<1> QED
  BY <1>3 DEF Inv, UsedAreVerified

\* A verified human gets a row without a worker: the registry does not know
\* the human yet.
LEMMA VerifyStep ==
    ASSUME Inv, NEW n \in People, verify(n)
    PROVE  Inv'
<1>1. /\ rows[n] = NotVerified /\ rows' = [rows EXCEPT ![n] = NULL]
      /\ UNCHANGED <<now, registryVars, req, mempool, mined, sessions>>
  BY DEF verify
<1>2. n \in Nullifiers
  BY DEF People
<1>3. /\ rows \in [Nullifiers -> Workers \cup {NULL, NotVerified}]
      /\ rows' \in [Nullifiers -> Workers \cup {NULL, NotVerified}] /\ rows'[n] = NULL
      /\ \A m \in Nullifiers \ {n} : rows'[m] = rows[m]
  <2>1. rows \in [Nullifiers -> Workers \cup {NULL, NotVerified}]
    BY DEF Inv, TypeOK
  <2> QED
    BY <1>1, <1>2, <2>1
<1>4. NULL # NotVerified
  BY RegisterAssumption
<1>5. Onward
  <2>1. now' \in Nat /\ now =< now' /\ mined' = mined /\ records' = records
        /\ usedDigest' = usedDigest /\ req' = req
    BY <1>1 DEF Inv, TypeOK, Times, registryVars
  <2>2. \A m \in Nullifiers : rows[m] # NotVerified => rows'[m] # NotVerified
    BY <1>3, <1>4
  <2> QED
    BY <2>1, <2>2 DEF Onward, isSeeded, EverSeeded
<1>6. RegistryInv' /\ TypeOK'
  <2>1. RegistryInv'
    BY <1>1, RegistryUnchanged DEF Inv
  <2> QED
    BY <1>1, <1>3, <2>1 DEF Inv, TypeOK, RegistryInv
<1>7. ReqsTold'
  BY <1>1, <1>5, ReqStays DEF ReqsTold
<1>8. OnTheirWay' /\ MinedTold' /\ SessionsAreOfWorkers' /\ SessionsHaveRows'
  BY <1>1, <1>5, MempoolStays, MinedStay, SessionsStay
<1>9. RowsRegistered'
  <2>1. \A m \in Nullifiers : rows'[m] = rows[m] \/ rows'[m] \in {NULL, NotVerified}
    BY <1>3
  <2> QED
    BY <1>5, <2>1, RowsStay
<1>10. VerifiedArePeople'
  BY <1>3 DEF Inv, VerifiedArePeople
<1>11. UsedAreVerified' /\ SeededAreSeedings'
  <2>1. \A a \in usedDigest : a.nullifier \in Nullifiers
    BY RegistryAssumption DEF Inv, TypeOK, RegistryTypeOK
  <2> QED
    BY <1>1, <1>3, <1>4, <2>1 DEF Inv, UsedAreVerified, SeededAreSeedings, registryVars
<1>12. LockedOutOnlyByLoss'
  <2>1. workerOf[n] = NoAddress \/ isSeeded(workerOf[n])
    BY <1>1, <1>2, KnownHasRow
  <2>2. \A m \in Nullifiers :
            workerOf'[m] # NoAddress /\ ~isSeeded(workerOf[m])' /\ rows'[m] = NULL =>
                workerOf[m] # NoAddress /\ ~isSeeded(workerOf[m]) /\ rows[m] = NULL
    BY <1>1, <1>3, <2>1 DEF registryVars, isSeeded
  <2> QED
    BY <1>1, <1>5, <2>2, LockedOutStays
<1> QED
  BY <1>6, <1>7, <1>8, <1>9, <1>10, <1>11, <1>12 DEF Inv

\* The row is written last, and says what the request says.
LEMMA BoundStep ==
    ASSUME Inv, NEW r \in Requests, Goto(r, "bind", "registered"),
           rows' = [rows EXCEPT ![req[r].nullifier] = req[r].worker],
           UNCHANGED <<now, registryVars, mempool, mined, sessions>>
    PROVE  Inv'
<1> DEFINE n == req[r].nullifier
           w == req[r].worker
<1>1. /\ req[r].pc = "bind" /\ req'[r].pc = "registered" /\ SameAsk(r)
      /\ req' \in [Requests -> Entry] /\ \A s \in Requests \ {r} : req'[s] = req[s]
  <2>1. TypeOK /\ "registered" \in Codes
    BY DEF Inv, Codes, Answered
  <2> QED
    BY <2>1, GotoShape
<1>2. Told(r) /\ r \in mined
  BY <1>1 DEF Inv, ReqsTold, ReqTold
<1>3. n \in Nullifiers /\ w \in Workers /\ w # NULL /\ w # NotVerified
  BY <1>2, AsksTyped, RegisterAssumption DEF Inv, Told
<1>4. /\ rows \in [Nullifiers -> Workers \cup {NULL, NotVerified}]
      /\ rows' \in [Nullifiers -> Workers \cup {NULL, NotVerified}] /\ rows'[n] = w
      /\ \A m \in Nullifiers \ {n} : rows'[m] = rows[m]
  <2>1. rows \in [Nullifiers -> Workers \cup {NULL, NotVerified}]
    BY DEF Inv, TypeOK
  <2>2. rows' = [rows EXCEPT ![n] = w]
    OBVIOUS
  <2> HIDE DEF n, w
  <2> QED
    BY <1>3, <2>1, <2>2
<1>5. Moves(r)
  BY <1>1 DEF Moves, Ends
<1>6. req'[r].nullifier = n /\ req'[r].worker = w
  BY <1>1, AskParts
<1>7. Onward
  <2>1. now' \in Nat /\ now =< now' /\ mined' = mined /\ records' = records
        /\ usedDigest' = usedDigest
    BY DEF Inv, TypeOK, Times, registryVars
  <2>2. \A m \in Nullifiers : rows[m] # NotVerified => rows'[m] # NotVerified
    BY <1>3, <1>4
  <2> HIDE DEF n, w
  <2> QED
    BY <1>1, <1>5, <2>1, <2>2 DEF Onward, isSeeded, EverSeeded
<1>8. RegistryInv' /\ TypeOK'
  <2>1. RegistryInv'
    BY RegistryUnchanged DEF Inv
  <2> QED
    BY <1>1, <1>4, <2>1 DEF Inv, TypeOK, RegistryInv, Entry, Codes
<1>9. ReqsTold'
  <2>1. Told(r)'
    BY <1>1, <1>2, <1>7, ToldStays
  <2>2. ReqTold(r)'
    BY <1>1, <1>2, <2>1 DEF ReqTold, SigningIn
  <2> QED
    BY <1>1, <1>7, <2>2, ReqStays DEF ReqsTold
<1>10. OnTheirWay' /\ MinedTold' /\ SessionsAreOfWorkers' /\ SessionsHaveRows'
  BY <1>7, MempoolStays, MinedStay, SessionsStay
<1>11. RowsRegistered'
  <2> SUFFICES ASSUME NEW m \in Nullifiers, NEW v \in Workers, rows'[m] = v
               PROVE  \E s \in mined : Asked(s, m, v)' /\ req'[s].pc = "registered"
    BY DEF RowsRegistered
  <2>1. CASE m = n
    BY <1>1, <1>2, <1>4, <1>6, <2>1 DEF Asked
  <2>2. CASE m # n
    <3>1. PICK s \in mined : Asked(s, m, v) /\ req[s].pc = "registered"
      BY <1>4, <2>2 DEF Inv, RowsRegistered
    <3>2. s \in Requests
      BY DEF Inv, TypeOK
    <3>3. req'[s] = req[s]
      BY <1>1, <3>1, <3>2
    <3> QED
      BY <3>1, <3>3 DEF Asked
  <2> QED
    BY <2>1, <2>2
<1>12. VerifiedArePeople'
  <2>1. rows[n] # NotVerified
    BY <1>2 DEF Told
  <2> HIDE DEF n, w
  <2> QED
    BY <1>3, <1>4, <2>1 DEF Inv, VerifiedArePeople
<1>13. UsedAreVerified' /\ SeededAreSeedings'
  <2>1. \A a \in usedDigest : a.nullifier \in Nullifiers
    BY RegistryAssumption DEF Inv, TypeOK, RegistryTypeOK
  <2> HIDE DEF n, w
  <2> QED
    BY <1>3, <1>4, <2>1 DEF Inv, UsedAreVerified, SeededAreSeedings, registryVars
<1>14. LockedOutOnlyByLoss'
  <2>1. \A m \in Nullifiers :
            workerOf'[m] # NoAddress /\ ~isSeeded(workerOf[m])' /\ rows'[m] = NULL =>
                workerOf[m] # NoAddress /\ ~isSeeded(workerOf[m]) /\ rows[m] = NULL
    BY <1>3, <1>4 DEF registryVars, isSeeded
  <2>2. \A s \in Requests :
            req[s].pc = "bind" /\ req'[s].pc = "registered" => rows'[req[s].nullifier] # NULL
    BY <1>1, <1>3, <1>4
  <2> QED
    BY <1>7, <2>1, <2>2, LockedOutStays
<1> QED
  BY <1>8, <1>9, <1>10, <1>11, <1>12, <1>13, <1>14 DEF Inv

\* A sign-in is told what it may name: by the table, where a row was written by
\* a request that says so; or by the registry, of which only a seeded worker is
\* asked, in two reads.
LEMMA NamingStep ==
    ASSUME Inv, NEW r \in Requests,
           nullifierOfWorker(r) \/ requireSeeded(r) \/ seededNullifierOf(r)
    PROVE  Inv'
<1> USE DEF SigningIn
<1>1. UNCHANGED <<now, registryVars, rows, mempool, mined, sessions>>
  BY DEF nullifierOfWorker, requireSeeded, seededNullifierOf
<1>2. TypeOK /\ ReqTold(r) /\ UNCHANGED <<records, usedDigest>>
  BY <1>1 DEF Inv, ReqsTold, registryVars
<1>3. req[r].pc \in {"naming", "unlisted", "seeded"}
  BY DEF nullifierOfWorker, requireSeeded, seededNullifierOf, Name, Goto
<1>4. PICK w \in Workers : w = req[r].worker
  BY <1>2, <1>3 DEF ReqTold
<1>5. WasWorker(w) /\ (req[r].pc = "seeded" => EverSeeded(w))
  BY <1>2, <1>3, <1>4 DEF ReqTold
<1>6. ASSUME NEW n \in Humans, NEW from \in {"naming", "seeded"}, Name(r, from, n),
             MayName(w, n)
      PROVE  Inv'
  <2>1. /\ req[r].pc = from /\ req'[r].pc = "minting"
        /\ req'[r].nullifier = n /\ req'[r].worker = w
        /\ req' \in [Requests -> Entry] /\ \A s \in Requests \ {r} : req'[s] = req[s]
    BY <1>2, <1>4, <1>6, NameShape
  <2>2. Moves(r)
    BY <2>1 DEF Moves, Ends
  <2>3. WasWorker(w)' /\ MayName(w, n)'
    BY <1>1, <1>5, <1>6, <2>1, <2>2, RequestMoves, NamesStay
  <2>4. ReqTold(r)'
    BY <2>1, <2>3 DEF ReqTold
  <2> QED
    BY <1>1, <2>1, <2>2, <2>4, RequestKeeps
<1>7. ASSUME NEW from \in {"naming", "unlisted"}, NEW to \in {"unlisted", "seeded", "refused"},
             Goto(r, from, to), to = "seeded" => isSeeded(w)
      PROVE  Inv'
  <2>1. to \in Codes
    BY DEF Codes, Running, Answered
  <2>2. /\ req[r].pc = from /\ req'[r].pc = to /\ SameAsk(r)
        /\ req' \in [Requests -> Entry] /\ \A s \in Requests \ {r} : req'[s] = req[s]
    BY <1>2, <1>7, <2>1, GotoShape
  <2>3. Moves(r)
    BY <2>2 DEF Moves, Ends
  <2>4. req'[r].worker = w
    BY <1>4, <2>2, AskParts
  <2>5. WasWorker(w)'
    BY <1>1, <1>5, <2>2, <2>3, RequestMoves, NamesStay
  <2>6. to = "seeded" => EverSeeded(w)'
    BY <1>2, <1>7 DEF EverSeeded, isSeeded
  <2>7. ReqTold(r)'
    BY <2>2, <2>4, <2>5, <2>6 DEF ReqTold
  <2> QED
    BY <1>1, <2>2, <2>3, <2>7, RequestKeeps
<1>8. CASE nullifierOfWorker(r)
  <2>1. \/ \E n \in Nullifiers : rows[n] = w /\ Name(r, "naming", n)
        \/ Goto(r, "naming", "unlisted")
    BY <1>4, <1>8 DEF nullifierOfWorker
  <2>2. ASSUME NEW n \in Nullifiers, rows[n] = w
        PROVE  MayName(w, n)
    BY <2>2 DEF Inv, TypeOK, RowsRegistered, MayName, Recorded
  <2> QED
    BY <1>6, <1>7, <2>1, <2>2 DEF Humans
<1>9. CASE requireSeeded(r)
  <2>1. \/ Goto(r, "unlisted", "seeded") /\ isSeeded(w)
        \/ Goto(r, "unlisted", "refused")
    BY <1>4, <1>9 DEF requireSeeded
  <2> QED
    BY <1>7, <2>1
<1>10. CASE seededNullifierOf(r)
  <2>1. PICK n \in Humans : n = nullifierOf(w)
    BY DEF Inv, TypeOK, RegistryTypeOK, Record, nullifierOf
  <2>2. Name(r, "seeded", n) /\ EverSeeded(w)
    BY <1>4, <1>5, <1>10, <2>1 DEF seededNullifierOf, Name
  <2>3. MayName(w, n)
    <3>1. CASE isSeeded(w)
      BY <2>1, <3>1 DEF Inv, SeededAreSeedings, isSeeded, nullifierOf, MayName, Recorded
    <3>2. CASE ~isSeeded(w)
      <4>1. SeedReset(w)
        BY <2>2, <3>2 DEF EverSeeded
      <4>2. CASE records[w].bound
        <5>1. EverBound(n, w)
          BY <2>1, <3>2, <4>2
          DEF Inv, RegistryInv, AttestedOrSeeded, isSeeded, nullifierOf, EverBound
        <5> QED
          BY <4>1, <5>1 DEF MayName, Raced
      <4>3. CASE ~records[w].bound
        <5>1. n = NoHuman
          BY <2>1, <4>3 DEF Inv, RegistryInv, UnboundIsBlank, NoRecord, nullifierOf
        <5> QED
          BY <4>1, <5>1 DEF MayName, Raced
      <4> QED
        BY <4>2, <4>3
    <3> QED
      BY <3>1, <3>2
  <2> QED
    BY <1>6, <2>2, <2>3
<1> QED
  BY <1>8, <1>9, <1>10

\* The session is what the request was told.
LEMMA SessionStep ==
    ASSUME Inv, NEW r \in Requests, issueWorkerSession(r)
    PROVE  Inv'
<1>1. /\ Goto(r, "minting", "session")
      /\ sessions' = sessions \cup {<<req[r].worker, req[r].nullifier>>}
      /\ UNCHANGED <<now, registryVars, rows, mempool, mined>>
  BY DEF issueWorkerSession
<1>2. /\ req[r].pc = "minting" /\ req'[r].pc = "session" /\ SameAsk(r)
      /\ req' \in [Requests -> Entry] /\ \A s \in Requests \ {r} : req'[s] = req[s]
  <2>1. TypeOK /\ "session" \in Codes
    BY DEF Inv, Codes, Answered
  <2> QED
    BY <1>1, <2>1, GotoShape
<1>3. PICK w \in Workers, n \in Humans :
          /\ w = req[r].worker /\ n = req[r].nullifier
          /\ WasWorker(w) /\ MayName(w, n)
  <2>1. ReqTold(r) /\ req[r].nullifier \in Humans
    BY AsksTyped DEF Inv, ReqsTold, Entry
  <2> QED
    BY <1>2, <2>1 DEF ReqTold, SigningIn
<1>4. sessions' = sessions \cup {<<w, n>>}
  BY <1>1, <1>3
<1>5. Moves(r)
  BY <1>2 DEF Moves, Ends
<1>6. Onward
  BY <1>1, <1>2, <1>5, RequestMoves
<1>7. UNCHANGED <<records, workerOf, usedDigest, rows>>
  BY <1>1 DEF registryVars
<1>8. RegistryInv' /\ TypeOK'
  <2>1. RegistryInv'
    BY <1>1, RegistryUnchanged DEF Inv
  <2>2. sessions' \subseteq Workers \X Humans
    BY <1>4 DEF Inv, TypeOK
  <2> QED
    BY <1>1, <1>2, <2>1, <2>2 DEF Inv, TypeOK, RegistryInv, Entry, Codes
<1>9. ReqsTold'
  <2>1. ReqTold(r)'
    BY <1>2 DEF ReqTold, SigningIn
  <2> QED
    BY <1>2, <1>6, <2>1, ReqStays DEF ReqsTold
<1>10. OnTheirWay' /\ MinedTold' /\ RowsRegistered'
  BY <1>1, <1>6, MempoolStays, MinedStay, RowsStay
<1>11. VerifiedArePeople' /\ UsedAreVerified' /\ SeededAreSeedings'
  BY <1>7 DEF Inv, VerifiedArePeople, UsedAreVerified, SeededAreSeedings
<1>12. LockedOutOnlyByLoss'
  BY <1>2, <1>6, <1>7, LockedOutStays DEF isSeeded
<1>13. SessionsAreOfWorkers' /\ SessionsHaveRows'
  <2> SUFFICES ASSUME NEW s \in sessions'
               PROVE  WasWorker(s[1])' /\ MayName(s[1], s[2])'
    BY DEF SessionsAreOfWorkers, SessionsHaveRows, WasWorker, MayName
  <2>1. s[1] \in Workers /\ WasWorker(s[1]) /\ MayName(s[1], s[2])
    <3>1. CASE s \in sessions
      BY <3>1 DEF Inv, TypeOK, SessionsAreOfWorkers, SessionsHaveRows, WasWorker, MayName
    <3>2. CASE s = <<w, n>>
      BY <1>3, <3>2
    <3> QED
      BY <1>4, <3>1, <3>2
  <2> QED
    BY <1>6, <2>1, NamesStay
<1> QED
  BY <1>8, <1>9, <1>10, <1>11, <1>12, <1>13 DEF Inv

\* What the registry and the clock do without a request of their own to move.
LEMMA RegistryMoves ==
    ASSUME Inv, Onward, RegistryInv', now' \in Times, SeededAreSeedings', UsedAreVerified',
           UNCHANGED <<rows, req, mempool, mined, sessions>>,
           \A n \in Nullifiers :
               workerOf'[n] # NoAddress /\ ~isSeeded(workerOf[n])' =>
                   workerOf[n] # NoAddress /\ ~isSeeded(workerOf[n])
    PROVE  Inv'
<1>1. TypeOK'
  BY DEF Inv, TypeOK, RegistryInv
<1>2. ReqsTold'
  BY ReqStays DEF ReqsTold
<1>3. OnTheirWay' /\ MinedTold' /\ SessionsAreOfWorkers' /\ SessionsHaveRows' /\ RowsRegistered'
  BY MempoolStays, MinedStay, SessionsStay, RowsStay
<1>4. VerifiedArePeople'
  BY DEF Inv, VerifiedArePeople
<1>5. LockedOutOnlyByLoss'
  BY LockedOutStays
<1> QED
  BY <1>1, <1>2, <1>3, <1>4, <1>5 DEF Inv

\* A seeded row is new to the registry, and a person's row is no part of it.
LEMMA SeedStep ==
    ASSUME Inv, Seed
    PROVE  Inv'
<1>1. PICK s \in Seedings : seedWorker(s[1], s[2])
  BY DEF Seed
<1>2. PICK w \in Workers, n \in Nullifiers : s = <<w, n>>
  BY RegisterAssumption
<1>3. seedWorker(w, n) /\ UNCHANGED <<now, rows, req, mempool, mined, sessions>>
  BY <1>1, <1>2 DEF Seed, apiVars
<1>4. RegistryInv' /\ RegistryInv
  BY <1>3, SeedWorkerKeeps DEF Inv
<1>5. /\ records' = [records EXCEPT ![w] = [nullifier |-> n, seeded |-> TRUE, bound |-> TRUE]]
      /\ workerOf' = [workerOf EXCEPT ![n] = w] /\ usedDigest' = usedDigest
      /\ workerOf[n] = NoAddress /\ ~records[w].bound
  BY <1>3 DEF seedWorker, Bind, Unbound
<1>6. /\ \A v \in Workers : records'[v] =
            IF v = w THEN [nullifier |-> n, seeded |-> TRUE, bound |-> TRUE] ELSE records[v]
      /\ \A m \in Nullifiers : workerOf'[m] = IF m = n THEN w ELSE workerOf[m]
  BY <1>4, <1>5 DEF RegistryInv, RegistryTypeOK
<1>7. Onward
  BY <1>3, <1>5, <1>6 DEF Onward, isSeeded, EverSeeded, Inv, TypeOK, Times
<1>8. SeededAreSeedings' /\ UsedAreVerified'
  BY <1>2, <1>3, <1>5, <1>6 DEF Inv, SeededAreSeedings, UsedAreVerified
<1>9. \A m \in Nullifiers :
          workerOf'[m] # NoAddress /\ ~isSeeded(workerOf[m])' =>
              workerOf[m] # NoAddress /\ ~isSeeded(workerOf[m])
  <2> SUFFICES ASSUME NEW m \in Nullifiers, workerOf'[m] # NoAddress,
                      ~records'[workerOf'[m]].seeded
               PROVE  workerOf[m] # NoAddress /\ ~records[workerOf[m]].seeded
    BY DEF isSeeded
  <2>1. m # n
    BY <1>6
  <2>2. workerOf'[m] = workerOf[m] /\ workerOf[m] \in Workers
    BY <1>4, <1>6, <2>1 DEF RegistryInv, RegistryTypeOK
  <2>3. workerOf[m] # w
    BY <1>4, <1>5, <2>2 DEF RegistryInv, OneHumanOneWorker
  <2> QED
    BY <1>6, <2>2, <2>3
<1>10. now' \in Times
  BY <1>3 DEF Inv, TypeOK
<1> QED
  BY <1>3, <1>4, <1>7, <1>8, <1>9, <1>10, RegistryMoves

LEMMA TickStep ==
    ASSUME Inv, Tick \/ UNCHANGED vars
    PROVE  Inv'
<1>1. UNCHANGED <<records, workerOf, usedDigest, rows, req, mempool, mined, sessions>>
  BY DEF Tick, vars, registryVars, apiVars
<1>2. now' \in Times /\ now =< now' /\ now' \in Nat
  BY BlockTimeAssumption DEF Tick, ClockTick, vars, Inv, TypeOK, Times
<1>3. Onward
  BY <1>1, <1>2 DEF Onward, isSeeded, EverSeeded
<1>4. RegistryInv' /\ SeededAreSeedings' /\ UsedAreVerified'
  BY <1>1, RegistryUnchanged DEF Inv, registryVars, SeededAreSeedings, UsedAreVerified
<1>5. \A m \in Nullifiers :
          workerOf'[m] # NoAddress /\ ~isSeeded(workerOf[m])' =>
              workerOf[m] # NoAddress /\ ~isSeeded(workerOf[m])
  BY <1>1 DEF isSeeded
<1> QED
  BY <1>1, <1>2, <1>3, <1>4, <1>5, RegistryMoves

\* A seeded row goes as any other does: the request that reset it is kept.
LEMMA ResetStep ==
    ASSUME Inv, NEW r \in Requests, ResetMined(r)
    PROVE  Inv'
<1>1. /\ Goto(r, "resetting", "unbind")
      /\ resetWorker(req[r].nullifier) \/ UNCHANGED registryVars
      /\ UNCHANGED <<now, rows, mempool, mined, sessions>>
  BY DEF ResetMined
<1>2. /\ req[r].pc = "resetting" /\ req'[r].pc = "unbind" /\ SameAsk(r)
      /\ req' \in [Requests -> Entry] /\ \A s \in Requests \ {r} : req'[s] = req[s]
  <2>1. TypeOK /\ "unbind" \in Codes
    BY DEF Inv, Codes, Running
  <2> QED
    BY <1>1, <2>1, GotoShape
<1>3. PICK n \in Resettable : n = req[r].nullifier /\ n \in Nullifiers /\ req[r].worker = NoAddress
  BY <1>2, RegisterAssumption DEF Inv, ReqsTold, ReqTold
<1>4. req'[r].nullifier = n /\ req'[r].worker = NoAddress
  BY <1>2, <1>3, AskParts
<1>5. Moves(r) /\ ReqTold(r)'
  BY <1>2, <1>3, <1>4 DEF Moves, Ends, ReqTold, SigningIn
<1>6. CASE UNCHANGED registryVars
  BY <1>1, <1>2, <1>5, <1>6, RequestKeeps
<1>7. CASE resetWorker(n)
  <2>1. PICK w \in Workers : w = workerOf[n] /\ RegistryInv /\ RegistryInv'
    BY <1>3, <1>7, ResetWorkerKeeps DEF Inv, RegistryInv, RegistryTypeOK, resetWorker
  <2>2. /\ records' = [records EXCEPT ![w] = NoRecord]
        /\ workerOf' = [workerOf EXCEPT ![n] = NoAddress] /\ usedDigest' = usedDigest
    BY <1>7, <2>1 DEF resetWorker
  <2>3. /\ \A v \in Workers : records'[v] = IF v = w THEN NoRecord ELSE records[v]
        /\ \A m \in Nullifiers : workerOf'[m] = IF m = n THEN NoAddress ELSE workerOf[m]
    BY <2>1, <2>2 DEF RegistryInv, RegistryTypeOK
  <2>4. records[w].bound /\ records[w].nullifier = n
    BY <1>3, <2>1 DEF RegistryInv, OneHumanOneWorker
  <2>5. records[w].seeded => EverSeeded(w)'
    <3>1. records[w].seeded => <<w, n>> \in Seedings
      BY <2>1, <2>4 DEF Inv, SeededAreSeedings
    <3>2. ResetAsked(r, n)'
      BY <1>2, <1>4 DEF ResetAsked, Asked
    <3>3. <<w, n>> \in Seedings => SeedReset(w)'
      BY <3>2 DEF SeedReset
    <3> QED
      BY <3>1, <3>3 DEF EverSeeded
  <2>6. Onward
    <3>1. ASSUME NEW v \in Workers, isSeeded(v)
          PROVE  EverSeeded(v)'
      <4>1. CASE v = w
        BY <2>5, <3>1, <4>1 DEF isSeeded
      <4>2. CASE v # w
        BY <2>3, <3>1, <4>2 DEF isSeeded, EverSeeded
      <4> QED
        BY <4>1, <4>2
    <3> QED
      BY <1>1, <1>2, <1>5, <2>2, <3>1 DEF Onward, Inv, TypeOK, Times
  <2>7. TypeOK'
    BY <1>1, <1>2, <2>1 DEF Inv, TypeOK, RegistryInv, Entry, Codes
  <2>8. ReqsTold'
    BY <1>2, <1>5, <2>6, ReqStays DEF ReqsTold
  <2>9. OnTheirWay' /\ MinedTold' /\ SessionsAreOfWorkers' /\ SessionsHaveRows' /\ RowsRegistered'
    BY <1>1, <2>6, MempoolStays, MinedStay, SessionsStay, RowsStay
  <2>10. VerifiedArePeople' /\ UsedAreVerified'
    BY <1>1, <2>2 DEF Inv, VerifiedArePeople, UsedAreVerified
  <2>11. SeededAreSeedings'
    BY <2>3 DEF Inv, SeededAreSeedings, NoRecord
  <2>12. LockedOutOnlyByLoss'
    <3>1. \A m \in Nullifiers :
              workerOf'[m] # NoAddress /\ ~isSeeded(workerOf[m])' /\ rows'[m] = NULL =>
                  workerOf[m] # NoAddress /\ ~isSeeded(workerOf[m]) /\ rows[m] = NULL
      <4> SUFFICES ASSUME NEW m \in Nullifiers, workerOf'[m] # NoAddress,
                          ~records'[workerOf'[m]].seeded, rows'[m] = NULL
                   PROVE  workerOf[m] # NoAddress /\ ~records[workerOf[m]].seeded
                          /\ rows[m] = NULL
        BY DEF isSeeded
      <4>1. m # n
        BY <2>3
      <4>2. workerOf'[m] = workerOf[m] /\ workerOf[m] \in Workers
        BY <2>1, <2>3, <4>1 DEF RegistryInv, RegistryTypeOK
      <4>3. workerOf[m] # w
        BY <2>1, <2>4, <4>1, <4>2 DEF RegistryInv, OneHumanOneWorker
      <4> QED
        BY <1>1, <2>3, <4>2, <4>3
    <3> QED
      BY <1>2, <2>6, <3>1, LockedOutStays
  <2> QED
    BY <2>1, <2>7, <2>8, <2>9, <2>10, <2>11, <2>12 DEF Inv
<1> QED
  BY <1>1, <1>3, <1>6, <1>7 DEF resetWorker

\* The reset frees the row: the human can register again, by another request.
LEMMA UnbindStep ==
    ASSUME Inv, NEW r \in Requests, Unbind(r)
    PROVE  Inv'
<1> DEFINE n == req[r].nullifier
           x == IF rows[n] = NotVerified THEN rows[n] ELSE NULL
<1>1. /\ Goto(r, "unbind", "reset") /\ rows' = [rows EXCEPT ![n] = x]
      /\ UNCHANGED <<now, registryVars, mempool, mined, sessions>>
  BY DEF Unbind
<1>2. /\ req[r].pc = "unbind" /\ req'[r].pc = "reset" /\ SameAsk(r)
      /\ req' \in [Requests -> Entry] /\ \A s \in Requests \ {r} : req'[s] = req[s]
  <2>1. TypeOK /\ "reset" \in Codes
    BY DEF Inv, Codes, Answered
  <2> QED
    BY <1>1, <2>1, GotoShape
<1>3. n \in Nullifiers /\ req'[r].nullifier = n
  <2>1. n \in Nullifiers
    BY <1>2, RegisterAssumption DEF Inv, ReqsTold, ReqTold
  <2> QED
    BY <1>2, <2>1, AskParts
<1>4. x \in {NULL, NotVerified} /\ (rows[n] # NotVerified => x = NULL)
      /\ (rows[n] = NotVerified => x = NotVerified) /\ NULL # NotVerified
  BY RegisterAssumption
<1> HIDE DEF n, x
<1>5. /\ rows \in [Nullifiers -> Workers \cup {NULL, NotVerified}]
      /\ rows' \in [Nullifiers -> Workers \cup {NULL, NotVerified}] /\ rows'[n] = x
      /\ \A m \in Nullifiers \ {n} : rows'[m] = rows[m]
  <2>1. rows \in [Nullifiers -> Workers \cup {NULL, NotVerified}]
    BY DEF Inv, TypeOK
  <2> QED
    BY <1>1, <1>3, <1>4, <2>1
<1>6. Moves(r) /\ ReqTold(r)'
  BY <1>2 DEF Moves, Ends, ReqTold, SigningIn
<1>7. \A m \in Nullifiers : rows[m] # NotVerified <=> rows'[m] # NotVerified
  BY <1>4, <1>5
<1>8. Onward
  <2>1. now' \in Nat /\ now =< now' /\ mined' = mined /\ records' = records
        /\ usedDigest' = usedDigest
    BY <1>1 DEF Inv, TypeOK, Times, registryVars
  <2> QED
    BY <1>2, <1>6, <1>7, <2>1 DEF Onward, isSeeded, EverSeeded
<1>9. RegistryInv' /\ TypeOK'
  <2>1. RegistryInv'
    BY <1>1, RegistryUnchanged DEF Inv
  <2> QED
    BY <1>1, <1>2, <1>5, <2>1 DEF Inv, TypeOK, RegistryInv, Entry, Codes
<1>10. ReqsTold'
  BY <1>2, <1>6, <1>8, ReqStays DEF ReqsTold
<1>11. OnTheirWay' /\ MinedTold' /\ SessionsAreOfWorkers' /\ SessionsHaveRows' /\ RowsRegistered'
  <2>1. \A m \in Nullifiers : rows'[m] = rows[m] \/ rows'[m] \in {NULL, NotVerified}
    BY <1>4, <1>5
  <2> QED
    BY <1>1, <1>8, <2>1, MempoolStays, MinedStay, SessionsStay, RowsStay
<1>12. VerifiedArePeople' /\ UsedAreVerified' /\ SeededAreSeedings'
  <2>1. \A a \in usedDigest : a.nullifier \in Nullifiers
    BY RegistryAssumption DEF Inv, TypeOK, RegistryTypeOK
  <2> QED
    BY <1>1, <1>7, <2>1
    DEF Inv, VerifiedArePeople, UsedAreVerified, SeededAreSeedings, registryVars
<1>13. LockedOutOnlyByLoss'
  <2>1. \A m \in Nullifiers :
            workerOf'[m] # NoAddress /\ ~isSeeded(workerOf[m])' /\ rows'[m] = NULL =>
                \/ workerOf[m] # NoAddress /\ ~isSeeded(workerOf[m]) /\ rows[m] = NULL
                \/ Lost(m)'
    <3> SUFFICES ASSUME NEW m \in Nullifiers,
                        workerOf'[m] # NoAddress, ~isSeeded(workerOf[m])', rows'[m] = NULL
                 PROVE  \/ workerOf[m] # NoAddress /\ ~isSeeded(workerOf[m]) /\ rows[m] = NULL
                        \/ Lost(m)'
      OBVIOUS
    <3>1. CASE m = n
      BY <1>2, <1>3, <3>1 DEF Lost
    <3>2. CASE m # n
      BY <1>1, <1>5, <3>2 DEF registryVars, isSeeded
    <3> QED
      BY <3>1, <3>2
  <2> QED
    BY <1>2, <1>8, <2>1, LockedOutStays
<1> QED
  BY <1>9, <1>10, <1>11, <1>12, <1>13 DEF Inv

\* A block takes the registration at the head: the registry binds it, or is
\* already bound, or its time is over.
LEMMA MinedIsDecided ==
    ASSUME Inv, NEW h \in Requests, Told(h), WouldRevert(AttestationOf(h))
    PROVE  EverBound(req[h].nullifier, req[h].worker) \/ Beaten(h)
<1> DEFINE n == req[h].nullifier
           w == req[h].worker
<1>1. n \in Nullifiers /\ w \in Workers /\ n \in People
  BY AsksTyped DEF Inv, Told, VerifiedArePeople
<1>2. /\ AttestationOf(h).nullifier = n /\ AttestationOf(h).worker = w
      /\ AttestationOf(h).deadline = req[h].deadline
  BY DEF AttestationOf
<1>3. CASE now > req[h].deadline
  BY <1>3, AsksTyped DEF Inv, Beaten, Entry
<1>4. CASE AttestationOf(h) \in usedDigest
  BY <1>2, <1>4 DEF EverBound
<1>5. CASE workerOf[n] # NoAddress
  <2>1. workerOf[n] \in Workers
    BY <1>1, <1>5 DEF Inv, TypeOK, RegistryTypeOK
  <2>2. records[workerOf[n]].bound /\ records[workerOf[n]].nullifier = n
    BY <1>1, <2>1 DEF Inv, RegistryInv, OneHumanOneWorker
  <2>3. ~records[workerOf[n]].seeded
    <3>1. records[workerOf[n]].seeded => <<workerOf[n], n>> \in Seedings
      BY <2>1, <2>2 DEF Inv, SeededAreSeedings
    <3>2. <<workerOf[n], n>> \notin Seedings
      BY <1>1 DEF People
    <3> QED
      BY <3>1, <3>2
  <2>4. \E a \in usedDigest : a.nullifier = n
    BY <2>1, <2>2, <2>3 DEF Inv, RegistryInv, AttestedOrSeeded
  <2> QED
    BY <2>4 DEF Beaten
<1>6. CASE records[w].bound
  BY <1>1, <1>6 DEF Inv, RegistryInv, AttestedOrSeeded, Beaten, EverSeeded, isSeeded
<1> QED
  BY <1>2, <1>3, <1>4, <1>5, <1>6 DEF WouldRevert, Unbound

\* What registerFor leaves of the other bindings.
LEMMA RegisterForMoves ==
    ASSUME Inv, NEW h \in Requests, Told(h), registerFor(AttestationOf(h)),
           UNCHANGED rows
    PROVE  /\ RegistryInv' /\ SeededAreSeedings' /\ UsedAreVerified'
           /\ usedDigest' = usedDigest \cup {AttestationOf(h)}
           /\ \A v \in Workers : isSeeded(v) => isSeeded(v)'
           /\ \A m \in Nullifiers \ {req[h].nullifier} :
                 workerOf'[m] # NoAddress /\ ~isSeeded(workerOf[m])' =>
                     workerOf[m] # NoAddress /\ ~isSeeded(workerOf[m])
<1> DEFINE n == req[h].nullifier
           w == req[h].worker
<1>1. n \in Nullifiers /\ w \in Workers /\ rows[n] # NotVerified
  BY AsksTyped DEF Inv, Told
<1>2. RegistryInv /\ RegistryInv'
  BY RegisterForKeeps DEF Inv, Told
<1>3. AttestationOf(h).nullifier = n /\ AttestationOf(h).worker = w
  BY DEF AttestationOf
<1>4. /\ records' = [records EXCEPT ![w] = [nullifier |-> n, seeded |-> FALSE, bound |-> TRUE]]
      /\ workerOf' = [workerOf EXCEPT ![n] = w]
      /\ usedDigest' = usedDigest \cup {AttestationOf(h)}
      /\ ~records[w].bound
  BY <1>3 DEF registerFor, Bind, Unbound
<1> HIDE DEF n, w
<1>5. /\ \A v \in Workers : records'[v] =
            IF v = w THEN [nullifier |-> n, seeded |-> FALSE, bound |-> TRUE] ELSE records[v]
      /\ \A m \in Nullifiers : workerOf'[m] = IF m = n THEN w ELSE workerOf[m]
  BY <1>2, <1>4 DEF RegistryInv, RegistryTypeOK
<1>6. SeededAreSeedings'
  BY <1>5 DEF Inv, SeededAreSeedings
<1>7. UsedAreVerified'
  BY <1>1, <1>3, <1>4 DEF Inv, UsedAreVerified
<1>8. \A v \in Workers : isSeeded(v) => isSeeded(v)'
  <2>1. ~records[w].seeded
    BY <1>1, <1>4 DEF Inv, SeededAreSeedings
  <2> QED
    BY <1>5, <2>1 DEF isSeeded
<1>9. ASSUME NEW m \in Nullifiers \ {n}, workerOf'[m] # NoAddress,
             ~records'[workerOf'[m]].seeded
      PROVE  workerOf[m] # NoAddress /\ ~records[workerOf[m]].seeded
  <2>1. workerOf'[m] = workerOf[m] /\ workerOf[m] \in Workers
    BY <1>2, <1>5, <1>9 DEF RegistryInv, RegistryTypeOK
  <2>2. workerOf[m] # w
    BY <1>2, <1>4, <2>1 DEF RegistryInv, OneHumanOneWorker
  <2> QED
    BY <1>5, <1>9, <2>1, <2>2
<1> QED
  BY <1>2, <1>4, <1>6, <1>7, <1>8, <1>9 DEF isSeeded, n

LEMMA MineStep ==
    ASSUME Inv, Mine
    PROVE  Inv'
<1>1. /\ mempool # <<>> /\ mined' = mined \cup {Head(mempool)} /\ mempool' = Tail(mempool)
      /\ UNCHANGED <<now, rows, req, sessions>>
  BY DEF Mine
<1>2. /\ Len(mempool) \in Nat \ {0} /\ DOMAIN mempool = 1 .. Len(mempool)
      /\ Head(mempool) = mempool[1] /\ mempool' \in Seq(Requests)
      /\ DOMAIN mempool' = 1 .. Len(mempool) - 1
      /\ \A k \in 1 .. Len(mempool) - 1 : mempool'[k] = mempool[k + 1]
      /\ \A k \in 1 .. Len(mempool) : mempool[k] \in Requests
  <2>1. mempool \in Seq(Requests)
    BY DEF Inv, TypeOK
  <2> QED
    BY <1>1, <2>1
<1>3. PICK h \in Requests : h = Head(mempool)
  BY <1>2
<1>4. /\ Told(h) /\ h \notin mined /\ req[h].pc \in {"sent", "unavailable", "dead"}
      /\ \A k \in 2 .. Len(mempool) : mempool[k] # h
  <2>1. 1 \in DOMAIN mempool /\ h = mempool[1]
    BY <1>2, <1>3
  <2> QED
    BY <1>2, <2>1 DEF Inv, OnTheirWay
<1>5. registerFor(AttestationOf(h)) \/ (WouldRevert(AttestationOf(h)) /\ UNCHANGED registryVars)
  BY <1>3 DEF Mine
<1>6. /\ RegistryInv' /\ SeededAreSeedings' /\ UsedAreVerified'
      /\ usedDigest \subseteq usedDigest'
      /\ \A v \in Workers : isSeeded(v) => isSeeded(v)'
      /\ \A m \in Nullifiers \ {req[h].nullifier} :
            workerOf'[m] # NoAddress /\ ~isSeeded(workerOf[m])' =>
                workerOf[m] # NoAddress /\ ~isSeeded(workerOf[m])
  <2>1. CASE registerFor(AttestationOf(h))
    BY <1>1, <1>4, <2>1, RegisterForMoves
  <2>2. CASE UNCHANGED registryVars
    BY <1>1, <2>2, RegistryUnchanged
    DEF Inv, SeededAreSeedings, UsedAreVerified, registryVars, isSeeded
  <2> QED
    BY <1>5, <2>1, <2>2
<1>7. Onward
  BY <1>1, <1>6 DEF Onward, EverSeeded, Inv, TypeOK, Times
<1>8. \A s \in Requests : SameAsk(s) /\ (Told(s) => Told(s)')
  BY <1>1, <1>7, StillIsSame, ToldStays
<1>9. TypeOK'
  BY <1>1, <1>2, <1>3, <1>6 DEF Inv, TypeOK, RegistryInv
<1>10. ReqsTold'
  BY <1>1, <1>7, ReqStays DEF ReqsTold
<1>11. OnTheirWay'
  <2>1. ASSUME NEW k \in 1 .. Len(mempool) - 1
        PROVE  /\ Told(mempool[k])' /\ mempool'[k] \notin mined'
               /\ req'[mempool'[k]].pc \in {"sent", "unavailable", "dead"}
    <3>1. k + 1 \in 1 .. Len(mempool) /\ k + 1 \in 2 .. Len(mempool)
      BY <1>2
    <3>2. PICK s \in Requests : s = mempool[k + 1]
      BY <1>2, <3>1
    <3>3. Told(s) /\ s \notin mined /\ req[s].pc \in {"sent", "unavailable", "dead"} /\ s # h
      BY <1>2, <1>4, <3>1, <3>2 DEF Inv, OnTheirWay
    <3>4. Told(s)' /\ s = mempool'[k]
      BY <1>2, <1>8, <3>2, <3>3
    <3> QED
      BY <1>1, <1>3, <3>3, <3>4 DEF Told, AttestationOf
  <2>2. ASSUME NEW j \in 1 .. Len(mempool) - 1, NEW k \in 1 .. Len(mempool) - 1,
               mempool'[j] = mempool'[k]
        PROVE  j = k
    <3>1. j + 1 \in 1 .. Len(mempool) /\ k + 1 \in 1 .. Len(mempool)
      BY <1>2
    <3>2. mempool[j + 1] = mempool[k + 1]
      BY <1>2, <2>2
    <3>3. j + 1 = k + 1
      BY <1>2, <3>1, <3>2 DEF Inv, OnTheirWay
    <3> QED
      BY <3>3
  <2> QED
    BY <1>2, <2>1, <2>2 DEF OnTheirWay, Told, AttestationOf
<1>12. MinedTold'
  <2>1. EverBound(req[h].nullifier, req[h].worker)' \/ Beaten(h)'
    <3>1. CASE registerFor(AttestationOf(h))
      <4>1. AttestationOf(h) \in usedDigest'
        BY <1>4, <1>1, <3>1, RegisterForMoves
      <4>2. AttestationOf(h).nullifier = req'[h].nullifier
            /\ AttestationOf(h).worker = req'[h].worker
        BY <1>1 DEF AttestationOf
      <4> QED
        BY <4>1, <4>2 DEF EverBound
    <3>2. CASE WouldRevert(AttestationOf(h))
      BY <1>4, <1>7, <1>8, <3>2, MinedIsDecided, ToldStays
    <3> QED
      BY <1>5, <3>1, <3>2
  <2>2. ASSUME NEW s \in mined
        PROVE  /\ Told(s)'
               /\ req[s].pc \in {"sent", "bind", "registered", "unavailable", "error", "dead"}
               /\ EverBound(req[s].nullifier, req[s].worker)' \/ Beaten(s)'
    <3>1. s \in Requests /\ Told(s)
          /\ (EverBound(req[s].nullifier, req[s].worker) \/ Beaten(s))
          /\ req[s].pc \in {"sent", "bind", "registered", "unavailable", "error", "dead"}
      BY DEF Inv, TypeOK, MinedTold
    <3> QED
      BY <1>7, <1>8, <3>1, ToldStays
  <2>3. \A s \in mined' : s = h \/ s \in mined
    BY <1>1, <1>3
  <2> QED
    BY <1>1, <1>4, <1>8, <2>1, <2>2, <2>3 DEF MinedTold
<1>13. SessionsAreOfWorkers' /\ SessionsHaveRows' /\ RowsRegistered'
  BY <1>1, <1>7, SessionsStay, RowsStay
<1>14. VerifiedArePeople'
  BY <1>1 DEF Inv, VerifiedArePeople
<1>15. LockedOutOnlyByLoss'
  <2>1. \A m \in Nullifiers :
            workerOf'[m] # NoAddress /\ ~isSeeded(workerOf[m])' /\ rows'[m] = NULL =>
                \/ workerOf[m] # NoAddress /\ ~isSeeded(workerOf[m]) /\ rows[m] = NULL
                \/ Lost(m)'
    <3> SUFFICES ASSUME NEW m \in Nullifiers,
                        workerOf'[m] # NoAddress, ~isSeeded(workerOf[m])', rows'[m] = NULL
                 PROVE  \/ workerOf[m] # NoAddress /\ ~isSeeded(workerOf[m]) /\ rows[m] = NULL
                        \/ Lost(m)'
      OBVIOUS
    <3>1. CASE m = req[h].nullifier
      BY <1>1, <1>4, <3>1 DEF Lost
    <3>2. CASE m # req[h].nullifier
      BY <1>1, <1>6, <3>2
    <3> QED
      BY <3>1, <3>2
  <2> QED
    BY <1>1, <1>7, <2>1, LockedOutStays
<1> QED
  BY <1>6, <1>9, <1>10, <1>11, <1>12, <1>13, <1>14, <1>15 DEF Inv

\* The first state.
LEMMA InitInv == Init => Inv
<1> SUFFICES ASSUME Init PROVE Inv
  OBVIOUS
<1>1. RegistryInv
  BY RegistryInitial DEF Init
<1>2. /\ now = 1 /\ usedDigest = {} /\ mempool = <<>> /\ mined = {} /\ sessions = {}
      /\ \A w \in Workers : records[w] = NoRecord
      /\ \A n \in Nullifiers : workerOf[n] = NoAddress /\ rows[n] = NotVerified
      /\ \A r \in Requests : req[r].pc = "new"
  BY DEF Init, ClockInit, RegistryInit, NewRequest
<1>3. TypeOK
  <2>1. NewRequest \in Entry
    BY DEF NewRequest, Entry, Codes, Humans
  <2>2. req \in [Requests -> Entry]
    BY <2>1 DEF Init
  <2>3. now \in Times
    BY <1>2, BlockTimeAssumption DEF Times
  <2>4. mempool \in Seq(Requests)
    BY <1>2
  <2> QED
    BY <1>1, <1>2, <2>2, <2>3, <2>4 DEF Init, TypeOK, RegistryInv, Entry, Codes
<1>4. ReqsTold /\ OnTheirWay /\ MinedTold
  <2>1. DOMAIN mempool = {}
    BY <1>2
  <2> QED
    BY <1>2, <2>1 DEF ReqsTold, ReqTold, SigningIn, OnTheirWay, MinedTold
<1>5. VerifiedArePeople /\ UsedAreVerified /\ SeededAreSeedings
  BY <1>2 DEF VerifiedArePeople, UsedAreVerified, SeededAreSeedings, NoRecord
<1>6. RowsRegistered
  BY <1>2, RegisterAssumption DEF RowsRegistered
<1>7. LockedOutOnlyByLoss /\ SessionsAreOfWorkers /\ SessionsHaveRows
  BY <1>2 DEF LockedOutOnlyByLoss, SessionsAreOfWorkers, SessionsHaveRows
<1> QED
  BY <1>1, <1>3, <1>4, <1>5, <1>6, <1>7 DEF Inv

LEMMA EstimateStep ==
    ASSUME Inv, NEW r \in Requests, Estimate(r)
    PROVE  Inv'
<1>1. CASE Goto(r, "signed", "sent") /\ mempool' = Append(mempool, r)
  BY <1>1, SentStep DEF Estimate
<1>2. CASE (Goto(r, "signed", "refused") \/ Goto(r, "signed", "unavailable"))
           /\ UNCHANGED mempool
  BY <1>2, PlainStep DEF Estimate
<1> QED
  BY <1>1, <1>2 DEF Estimate

LEMMA BindRowStep ==
    ASSUME Inv, NEW r \in Requests, BindRow(r)
    PROVE  Inv'
<1>1. CASE Goto(r, "bind", "error") /\ UNCHANGED rows
  BY <1>1, PlainStep DEF BindRow
<1>2. CASE Goto(r, "bind", "registered")
           /\ rows' = [rows EXCEPT ![req[r].nullifier] = req[r].worker]
  BY <1>2, BoundStep DEF BindRow
<1> QED
  BY <1>1, <1>2 DEF BindRow

-----------------------------------------------------------------------------
\* The invariant holds in every state, whatever is lost, crashes or is reset.
THEOREM RegisterInvariant == Spec => []Inv
<1>1. Init => Inv
  BY InitInv
<1>2. Inv /\ [Next]_vars => Inv'
  <2> SUFFICES ASSUME Inv, [Next]_vars PROVE Inv'
    OBVIOUS
  <2>1. CASE Mine \/ Seed \/ Tick \/ UNCHANGED vars
    BY <2>1, MineStep, SeedStep, TickStep
  <2>2. ASSUME NEW n \in People, verify(n)
        PROVE  Inv'
    BY <2>2, VerifyStep
  <2>3. ASSUME NEW r \in Requests, NEW n \in Nullifiers, NEW w \in Workers, Attest(r, n, w)
        PROVE  Inv'
    BY <2>3, AttestStep
  <2>4. ASSUME NEW r \in Requests,
               \/ \E n \in Nullifiers, w \in Workers : idkitMode(r, n, w)
               \/ \E w \in Workers : walletAuthMode(r, w)
               \/ \E n \in Resettable : resetWorkerRoute(r, n)
        PROVE  Inv'
    BY <2>4, StartStep
  <2>5. ASSUME NEW r \in Requests, Estimate(r) \/ BindRow(r)
        PROVE  Inv'
    BY <2>5, EstimateStep, BindRowStep
  <2>6. ASSUME NEW r \in Requests,
               Returns(r) \/ TimesOut(r) \/ requireRegisteredWorker(r) \/ Crash(r)
        PROVE  Inv'
    <3>1. UNCHANGED <<now, registryVars, rows, mempool, mined, sessions>>
      BY <2>6 DEF Returns, TimesOut, requireRegisteredWorker, Crash
    <3> QED
      BY <2>6, <3>1, PlainStep
  <2>7. ASSUME NEW r \in Requests,
               \/ nullifierOfWorker(r) \/ requireSeeded(r) \/ seededNullifierOf(r)
               \/ issueWorkerSession(r) \/ ResetMined(r) \/ Unbind(r)
        PROVE  Inv'
    BY <2>7, NamingStep, SessionStep, ResetStep, UnbindStep
  <2> QED
    BY <2>1, <2>2, <2>3, <2>4, <2>5, <2>6, <2>7 DEF Next
<1> QED
  BY <1>1, <1>2, PTL DEF Spec

\* Every variable of the routes and of the registry keeps its type.
THEOREM RegisterTypes == Spec => []TypeOK
<1>1. Inv => TypeOK
  BY DEF Inv
<1> QED
  BY <1>1, RegisterInvariant, PTL

\* "The row is bound after the relayer returns a hash, never before"
\* (register/route.ts:6): a row names a binding the registry made, or one that
\* passed its estimate and was beaten to its block by a rival or its deadline.
THEOREM RowsAreBoundOrBeaten == Spec => []BoundOrBeaten
<1>1. ASSUME Inv
      PROVE  BoundOrBeaten
  <2> SUFFICES ASSUME NEW n \in Nullifiers, NEW w \in Workers, rows[n] = w, ~EverBound(n, w)
               PROVE  /\ \E r \in mined : Asked(r, n, w) /\ req[r].pc = "registered"
                      /\ \/ \E a \in usedDigest : a.nullifier = n \/ a.worker = w
                         \/ EverSeeded(w)
                         \/ \E r \in mined : Asked(r, n, w) /\ req[r].deadline < now
    BY DEF BoundOrBeaten
  <2>1. PICK r \in mined : Asked(r, n, w) /\ req[r].pc = "registered"
    BY <1>1 DEF Inv, RowsRegistered
  <2>2. EverBound(req[r].nullifier, req[r].worker) \/ Beaten(r)
    BY <1>1 DEF Inv, MinedTold
  <2>3. req[r].nullifier = n /\ req[r].worker = w
    BY <2>1 DEF Asked
  <2>4. Beaten(r)
    BY <2>2, <2>3
  <2> QED
    BY <2>1, <2>3, <2>4 DEF Beaten
<1> QED
  BY <1>1, RegisterInvariant, PTL

\* A human the registry knows and the table does not got there by a request
\* that was lost, refused its row, or unbound the human.
THEOREM LockedOutIsAccounted == Spec => []LockedOutOnlyByLoss
<1>1. Inv => LockedOutOnlyByLoss
  BY DEF Inv
<1> QED
  BY <1>1, RegisterInvariant, PTL

\* A database that is wrong "still cannot mint a session for an address the
\* chain does not know" (session/route.ts:67).
THEOREM SessionsNeedWorkers == Spec => []SessionsAreOfWorkers
<1>1. Inv => SessionsAreOfWorkers
  BY DEF Inv
<1> QED
  BY <1>1, RegisterInvariant, PTL

\* "A registered human without a row is still refused" (session/route.ts:56),
\* but for the sign-in whose two reads of the registry lie on two sides of the
\* reset of a seeded row: it names whoever the registry names then, or nobody.
THEOREM SessionsNeedRows == Spec => []SessionsHaveRows
<1>1. Inv => SessionsHaveRows
  BY DEF Inv
<1> QED
  BY <1>1, RegisterInvariant, PTL
=============================================================================
