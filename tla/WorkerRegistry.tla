--------------------------- MODULE WorkerRegistry ---------------------------
(***************************************************************************)
(* WorkerRegistry.sol: which human (a World ID nullifier) stands behind    *)
(* which worker address.  Area and task types of a record are left out:    *)
(* nothing on chain reads them.                                            *)
(***************************************************************************)
EXTENDS BlockTime

CONSTANTS
    Workers,        \* worker addresses
    Nullifiers,     \* nullifier hashes of verified humans and of seeded rows
    NoHuman,        \* nullifier 0: "never registered"
    NoAddress,      \* address(0)
    Attestations    \* the registrations attestationVerifier has signed

ASSUME RegistryAssumption ==
    /\ NoHuman \notin Nullifiers
    /\ NoAddress \notin Workers
    /\ Attestations \subseteq
          [nullifier : Nullifiers, worker : Workers, deadline : Nat]

VARIABLES
    records,        \* address -> [nullifier, seeded, bound]
    workerOf,       \* nullifier -> address
    usedDigest      \* attestations already spent

registryVars == <<records, workerOf, usedDigest>>

Humans == Nullifiers \cup {NoHuman}

Record == [nullifier : Humans, seeded : BOOLEAN, bound : BOOLEAN]

NoRecord == [nullifier |-> NoHuman, seeded |-> FALSE, bound |-> FALSE]

RegistryTypeOK ==
    /\ records \in [Workers -> Record]
    /\ workerOf \in [Nullifiers -> Workers \cup {NoAddress}]
    /\ usedDigest \subseteq Attestations

isWorker(w) == records[w].bound
isSeeded(w) == records[w].seeded
nullifierOf(w) == records[w].nullifier

-----------------------------------------------------------------------------
RegistryInit ==
    /\ records = [w \in Workers |-> NoRecord]
    /\ workerOf = [n \in Nullifiers |-> NoAddress]
    /\ usedDigest = {}

Unbound(n, w) == workerOf[n] = NoAddress /\ ~records[w].bound

Bind(n, w, seeded) ==
    /\ records' = [records EXCEPT ![w] =
                      [nullifier |-> n, seeded |-> seeded, bound |-> TRUE]]
    /\ workerOf' = [workerOf EXCEPT ![n] = w]

\* The relayer brings a signed attestation, once, before its deadline.
registerFor(a) ==
    /\ now =< a.deadline
    /\ a \notin usedDigest
    /\ Unbound(a.nullifier, a.worker)
    /\ usedDigest' = usedDigest \cup {a}
    /\ Bind(a.nullifier, a.worker, FALSE)

\* Mutant: a seeded row looks like a person.
seedAsPerson(w, n) ==
    /\ Unbound(n, w)
    /\ Bind(n, w, FALSE)
    /\ UNCHANGED usedDigest

seedWorker(w, n) ==
    /\ Unbound(n, w)
    /\ Bind(n, w, TRUE)
    /\ UNCHANGED usedDigest

\* Mutant: only the address's record is deleted.
resetRecordOnly(n) ==
    /\ workerOf[n] # NoAddress
    /\ records' = [records EXCEPT ![workerOf[n]] = NoRecord]
    /\ UNCHANGED <<workerOf, usedDigest>>

\* The owner unbinds a human.  Nothing asks whether the address still holds
\* a task in the escrow.
resetWorker(n) ==
    /\ workerOf[n] # NoAddress
    /\ records' = [records EXCEPT ![workerOf[n]] = NoRecord]
    /\ workerOf' = [workerOf EXCEPT ![n] = NoAddress]
    /\ UNCHANGED usedDigest

-----------------------------------------------------------------------------
\* One World ID nullifier is one worker: the two directions of the binding
\* never disagree, through any sequence of register, seed and reset
\* (WorkerRegistry.sol keeps them in two mappings it updates by hand).
OneHumanOneWorker ==
    \A n \in Nullifiers, w \in Workers :
        workerOf[n] = w <=> records[w].bound /\ records[w].nullifier = n

\* An address nobody stands behind reads as the default record, so isSeeded
\* and nullifierOf never leak a previous holder after resetWorker.
UnboundIsBlank ==
    \A w \in Workers : ~records[w].bound => records[w] = NoRecord

\* Every worker who is not a seeded row was brought in by an attestation for
\* exactly this human and this address, which can never be used again.
AttestedOrSeeded ==
    \A w \in Workers :
        records[w].bound /\ ~records[w].seeded =>
            \E a \in usedDigest :
                a.worker = w /\ a.nullifier = records[w].nullifier
==============================================================================
