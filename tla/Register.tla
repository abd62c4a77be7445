------------------------------ MODULE Register ------------------------------
(***************************************************************************)
(* How a verified human becomes a worker with a session: POST              *)
(* /idkit/verify, /register, /session and /admin/reset-worker, with the    *)
(* registry they write to.  Two records of the same binding: the           *)
(* registry's, and the worker column of the nullifiers table.              *)
(* A request keeps its slot and its answer.  What it does between two      *)
(* awaits is a step.  With DEADLINE_S 0, a unit of time is longer than it. *)
(***************************************************************************)
EXTENDS WorkerRegistry, Sequences

CONSTANTS
    Requests,
    Seedings,       \* <<address, nullifier>> rows deploy.sh may seed
    Resettable,     \* the nullifiers an operator may have to unbind
    DEADLINE_S,
    NotVerified,    \* no row in nullifiers
    NULL            \* a row without a worker

\* No proof gives the nullifier of a seeded row.
People == Nullifiers \ {s[2] : s \in Seedings}

ASSUME RegisterAssumption ==
    /\ DEADLINE_S \in Nat
    /\ Seedings \subseteq Workers \X Nullifiers
    /\ Resettable \subseteq Nullifiers
    \* The API signs for whoever it verified and whatever address is asked.
    /\ [nullifier : Nullifiers, worker : Workers, deadline : 1 .. MaxTime + DEADLINE_S]
          \subseteq Attestations
    /\ {NotVerified, NULL} \cap Workers = {} /\ NotVerified # NULL

VARIABLES
    rows,       \* nullifiers: nullifier -> worker
    req,        \* request -> [pc, nullifier, worker, deadline]
    mempool,    \* registerFor calls on their way, by request
    mined,      \* requests whose registerFor has a receipt
    sessions    \* <<worker, nullifier>> of every cookie minted

apiVars == <<rows, req, mempool, mined, sessions>>
vars == <<now, registryVars, apiVars>>

Running == {"signed", "sent", "bind", "asked", "naming", "unlisted", "seeded", "minting",
            "resetting", "unbind"}
Answered == {"refused", "unavailable", "error", "registered", "session", "reset"}
NewRequest == [pc |-> "new", nullifier |-> NoHuman, worker |-> NoAddress, deadline |-> 0]

Init ==
    /\ ClockInit /\ RegistryInit
    /\ rows = [n \in Nullifiers |-> NotVerified]
    /\ req = [r \in Requests |-> NewRequest]
    /\ mempool = <<>> /\ mined = {}
    /\ sessions = {}

Goto(r, from, to) == req[r].pc = from /\ req' = [req EXCEPT ![r].pc = to]

Start(r, to, n, w) ==
    /\ req[r].pc = "new"
    /\ req' = [req EXCEPT ![r] = [pc |-> to, nullifier |-> n, worker |-> w, deadline |-> 0]]

-----------------------------------------------------------------------------
(***************************** POST /idkit/verify **************************)

\* The row comes with the cookie, and outlives it; a new proof, a new cookie.
\* Whether the row is bound already changes the status, not what is kept.
verify(n) ==
    /\ rows[n] = NotVerified
    /\ rows' = [rows EXCEPT ![n] = NULL]
    /\ UNCHANGED <<now, registryVars, req, mempool, mined, sessions>>

-----------------------------------------------------------------------------
(******************************* POST /register ****************************)

AttestationOf(r) ==
    [nullifier |-> req[r].nullifier, worker |-> req[r].worker, deadline |-> req[r].deadline]

\* Only a verified human whose row is free gets an attestation.
Attest(r, n, w) ==
    /\ req[r].pc = "new"
    /\ rows[n] # NotVerified
    /\ req' = [req EXCEPT ![r] =
                  [pc |-> IF rows[n] = NULL THEN "signed" ELSE "refused",
                   nullifier |-> n, worker |-> w, deadline |-> now + DEADLINE_S]]
    /\ UNCHANGED <<now, registryVars, rows, mempool, mined, sessions>>

\* What the registry would say of it now.
WouldRevert(a) ==
    \/ now > a.deadline
    \/ a \in usedDigest
    \/ ~Unbound(a.nullifier, a.worker)

\* The estimate answers with the revert's name, or nothing comes back.
Estimate(r) ==
    /\ \/ Goto(r, "signed", "sent") /\ ~WouldRevert(AttestationOf(r))
          /\ mempool' = Append(mempool, r)
       \/ Goto(r, "signed", "refused") /\ WouldRevert(AttestationOf(r))
          /\ UNCHANGED mempool
       \/ Goto(r, "signed", "unavailable") /\ UNCHANGED mempool
    /\ UNCHANGED <<now, registryVars, rows, mined, sessions>>

\* One relayer key: its transactions are mined in the order of their nonces.
Mine ==
    /\ mempool # <<>>
    /\ LET a == AttestationOf(Head(mempool))
       IN  \/ registerFor(a)
           \/ WouldRevert(a) /\ UNCHANGED registryVars
    /\ mined' = mined \cup {Head(mempool)}
    /\ mempool' = Tail(mempool)
    /\ UNCHANGED <<now, rows, req, sessions>>

\* A receipt has a hash whatever its status: nobody reads the status.
Returns(r) ==
    /\ r \in mined /\ Goto(r, "sent", "bind")
    /\ UNCHANGED <<now, registryVars, rows, mempool, mined, sessions>>

\* Mutant: no receipt in time is as good as a hash.
TimesOutBound(r) ==
    /\ Goto(r, "sent", "bind")
    /\ UNCHANGED <<now, registryVars, rows, mempool, mined, sessions>>

\* 503 chain_unavailable: the row stays free.
TimesOut(r) ==
    /\ Goto(r, "sent", "unavailable")
    /\ UNCHANGED <<now, registryVars, rows, mempool, mined, sessions>>

\* Mutant: the row is not written.
BindNothing(r) ==
    /\ Goto(r, "bind", "registered")
    /\ UNCHANGED <<now, registryVars, rows, mempool, mined, sessions>>

\* UPDATE nullifiers, under the unique index on worker.
BindRow(r) ==
    /\ LET n == req[r].nullifier
           taken == \E m \in Nullifiers \ {n} : rows[m] = req[r].worker
       IN  \/ Goto(r, "bind", "error") /\ taken /\ UNCHANGED rows
           \/ Goto(r, "bind", "registered") /\ ~taken
              /\ rows' = [rows EXCEPT ![n] = req[r].worker]
    /\ UNCHANGED <<now, registryVars, mempool, mined, sessions>>

-----------------------------------------------------------------------------
(******************************* POST /session *****************************)

\* idkit mode: the proof's row must name the address that is asked for.
idkitMode(r, n, w) ==
    /\ Start(r, IF rows[n] = w THEN "asked" ELSE "refused", n, w)
    /\ rows[n] # NotVerified
    /\ UNCHANGED <<now, registryVars, rows, mempool, mined, sessions>>

\* walletAuth mode: whoever holds the address's key.
walletAuthMode(r, w) ==
    /\ Start(r, "asked", NoHuman, w)
    /\ UNCHANGED <<now, registryVars, rows, mempool, mined, sessions>>

\* Mutant: the row is enough.
trustTheRow(r) ==
    /\ Goto(r, "asked", "naming")
    /\ UNCHANGED <<now, registryVars, rows, mempool, mined, sessions>>

requireRegisteredWorker(r) ==
    /\ Goto(r, "asked", IF isWorker(req[r].worker) THEN "naming" ELSE "refused")
    /\ UNCHANGED <<now, registryVars, rows, mempool, mined, sessions>>

\* The session will carry n.
Name(r, from, n) ==
    /\ req[r].pc = from
    /\ req' = [req EXCEPT ![r].pc = "minting", ![r].nullifier = n]

\* The table first: the row of the address, or on to the registry.
nullifierOfWorker(r) ==
    /\ LET found == {n \in Nullifiers : rows[n] = req[r].worker}
       IN  \/ \E n \in found : Name(r, "naming", n)
           \/ found = {} /\ Goto(r, "naming", "unlisted")
    /\ UNCHANGED <<now, registryVars, rows, mempool, mined, sessions>>

\* Mutant: the registry is good enough for anyone.
anyoneIsSeeded(r) ==
    /\ Goto(r, "unlisted", "seeded")
    /\ UNCHANGED <<now, registryVars, rows, mempool, mined, sessions>>

\* Only a seeded worker needs no row.
requireSeeded(r) ==
    /\ Goto(r, "unlisted", IF isSeeded(req[r].worker) THEN "seeded" ELSE "refused")
    /\ UNCHANGED <<now, registryVars, rows, mempool, mined, sessions>>

\* A read of its own: whatever the registry holds by now, and be it 0.
seededNullifierOf(r) ==
    /\ Name(r, "seeded", nullifierOf(req[r].worker))
    /\ UNCHANGED <<now, registryVars, rows, mempool, mined, sessions>>

issueWorkerSession(r) ==
    /\ Goto(r, "minting", "session")
    /\ sessions' = sessions \cup {<<req[r].worker, req[r].nullifier>>}
    /\ UNCHANGED <<now, registryVars, rows, mempool, mined>>

-----------------------------------------------------------------------------
(************************** POST /admin/reset-worker ***********************)

\* The owner's transaction passes its estimate, or is refused by name.
resetWorkerRoute(r, n) ==
    /\ Start(r, IF workerOf[n] # NoAddress THEN "resetting" ELSE "refused", n, NoAddress)
    /\ UNCHANGED <<now, registryVars, rows, mempool, mined, sessions>>

\* Mined: by now another reset may have been first, and this one reverts.
ResetMined(r) ==
    /\ Goto(r, "resetting", "unbind")
    /\ \/ resetWorker(req[r].nullifier)
       \/ workerOf[req[r].nullifier] = NoAddress /\ UNCHANGED registryVars
    /\ UNCHANGED <<now, rows, mempool, mined, sessions>>

\* Mutant: nobody is written as the registry writes it.
UnbindToZero(r) ==
    /\ Goto(r, "unbind", "reset")
    /\ rows' = [rows EXCEPT ![req[r].nullifier] = IF @ = NotVerified THEN @ ELSE NoAddress]
    /\ UNCHANGED <<now, registryVars, mempool, mined, sessions>>

\* The column, not the row; a seeded row has none.
Unbind(r) ==
    /\ Goto(r, "unbind", "reset")
    /\ rows' = [rows EXCEPT ![req[r].nullifier] = IF @ = NotVerified THEN @ ELSE NULL]
    /\ UNCHANGED <<now, registryVars, mempool, mined, sessions>>

-----------------------------------------------------------------------------
\* The invocation dies.  What it sent stays sent; a reset that is given up and
\* mined later is one that dies after it was mined.
Crash(r) ==
    /\ req[r].pc \in Running
    /\ req' = [req EXCEPT ![r].pc = "dead"]
    /\ UNCHANGED <<now, registryVars, rows, mempool, mined, sessions>>

Seed ==
    /\ \E s \in Seedings : seedWorker(s[1], s[2])
    /\ UNCHANGED <<now, apiVars>>

Tick == ClockTick /\ UNCHANGED <<registryVars, apiVars>>

Next ==
    \/ \E n \in People : verify(n)
    \/ \E r \in Requests :
          \/ \E n \in Nullifiers, w \in Workers : Attest(r, n, w) \/ idkitMode(r, n, w)
          \/ Estimate(r) \/ Returns(r) \/ TimesOut(r) \/ BindRow(r)
          \/ \E w \in Workers : walletAuthMode(r, w)
          \/ requireRegisteredWorker(r) \/ nullifierOfWorker(r)
          \/ requireSeeded(r) \/ seededNullifierOf(r) \/ issueWorkerSession(r)
          \/ \E n \in Resettable : resetWorkerRoute(r, n)
          \/ ResetMined(r) \/ Unbind(r)
          \/ Crash(r)
    \/ Mine \/ Seed \/ Tick

Spec == Init /\ [][Next]_vars

-----------------------------------------------------------------------------
Asked(r, n, w) == req[r].nullifier = n /\ req[r].worker = w
EverBound(n, w) == \E a \in usedDigest : a.nullifier = n /\ a.worker = w

\* A reset got past its estimate; a seeded row of w may have gone by one.
ResetAsked(r, n) ==
    Asked(r, n, NoAddress) /\ req[r].pc \in {"unbind", "reset", "dead"}
SeedReset(w) == \E d \in Seedings, r \in Requests : d[1] = w /\ ResetAsked(r, d[2])
EverSeeded(w) == isSeeded(w) \/ SeedReset(w)

TypeOK ==
    /\ RegistryTypeOK /\ now \in Times
    /\ rows \in [Nullifiers -> Workers \cup {NULL, NotVerified}]
    /\ req \in [Requests -> [pc : Running \cup Answered \cup {"new", "dead"},
                             nullifier : Humans, worker : Workers \cup {NoAddress},
                             deadline : Nat]]
    /\ mempool \in Seq(Requests) /\ mined \subseteq Requests
    /\ sessions \subseteq Workers \X Humans

\* "The row is bound after the relayer returns a hash, never before"
\* (register/route.ts:6).  A row names a binding the registry made; or one that
\* passed its estimate and lost, in its block, to a rival or to its deadline.
BoundOrBeaten ==
    \A n \in Nullifiers, w \in Workers :
        rows[n] = w /\ ~EverBound(n, w) =>
            /\ \E r \in mined : Asked(r, n, w) /\ req[r].pc = "registered"
            /\ \/ \E a \in usedDigest : a.nullifier = n \/ a.worker = w
               \/ EverSeeded(w)
               \/ \E r \in mined : Asked(r, n, w) /\ req[r].deadline < now

\* A human the registry knows and the table does not can neither register nor
\* sign in.  Nobody gets there while every request runs to its end, an answer
\* comes in time, the index has room, and no operator unbinds the human.
LockedOutOnlyByLoss ==
    \A n \in Nullifiers :
        /\ workerOf[n] # NoAddress /\ ~isSeeded(workerOf[n])
        /\ rows[n] = NULL
        => \E r \in Requests :
              /\ req[r].nullifier = n
              /\ req[r].pc \in {"sent", "bind", "unavailable", "error", "dead", "reset"}

\* "A database that has been restored, edited or seeded wrongly still cannot
\* mint a session for an address the chain does not know" (session/route.ts:67):
\* not even one with a row that names it wrongly.
SessionsAreOfWorkers ==
    \A s \in sessions : EverSeeded(s[1]) \/ \E a \in usedDigest : a.worker = s[1]

\* A row this API wrote for a registration, or a seeded worker's synthetic one.
Recorded(w, n) ==
    \/ <<w, n>> \in Seedings
    \/ \E r \in Requests : Asked(r, n, w) /\ req[r].pc = "registered"

\* What a session of w may name when the answers isSeeded and nullifierOf lie
\* on two sides of a reset: nobody, or who was registered for w in between.
Raced(w, n) == SeedReset(w) /\ (n = NoHuman \/ EverBound(n, w))

\* "A registered human without a row is still refused" (session/route.ts:56).
\* Not quite: when the seeded row of the address is reset between the two reads
\* of seededNullifierOf, the session is minted for whoever the registry names
\* then, row or no row, or for nullifier 0.  In every other case a session names
\* a registration this API recorded under that address, or a seeded worker.
SessionsHaveRows ==
    \A s \in sessions : Recorded(s[1], s[2]) \/ Raced(s[1], s[2])
==============================================================================
