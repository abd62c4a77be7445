--------------------------- MODULE RegistryProofs ---------------------------
(***************************************************************************)
(* What each operation of the registry preserves.  TaskEscrowProofs and    *)
(* RegisterProofs, whose systems both contain the registry, use it.        *)
(***************************************************************************)
EXTENDS WorkerRegistry, TLAPS

RegistryInv == RegistryTypeOK /\ OneHumanOneWorker /\ UnboundIsBlank /\ AttestedOrSeeded

\* An empty registry is one to one.
LEMMA RegistryInitial == RegistryInit => RegistryInv
BY RegistryAssumption
DEF RegistryInit, RegistryInv, RegistryTypeOK, OneHumanOneWorker, UnboundIsBlank,
    AttestedOrSeeded, Record, NoRecord, Humans

\* Binding two unbound parties keeps the two mappings in agreement.
LEMMA BindKeepsRegistry ==
    ASSUME RegistryInv, NEW n \in Nullifiers, NEW w \in Workers, NEW s \in BOOLEAN,
           Unbound(n, w), Bind(n, w, s), usedDigest \subseteq usedDigest',
           usedDigest' \subseteq Attestations,
           s \/ \E a \in usedDigest' : a.worker = w /\ a.nullifier = n
    PROVE  RegistryInv'
<1>1. /\ records' = [records EXCEPT ![w] = [nullifier |-> n, seeded |-> s, bound |-> TRUE]]
      /\ workerOf' = [workerOf EXCEPT ![n] = w]
      /\ workerOf[n] = NoAddress /\ ~records[w].bound
  BY DEF Bind, Unbound
<1>2. RegistryTypeOK'
  BY <1>1 DEF RegistryInv, RegistryTypeOK, Record, Humans
<1>3. \A v \in Workers : records'[v] = IF v = w
        THEN [nullifier |-> n, seeded |-> s, bound |-> TRUE] ELSE records[v]
  BY <1>1 DEF RegistryInv, RegistryTypeOK
<1>4. \A m \in Nullifiers : workerOf'[m] = IF m = n THEN w ELSE workerOf[m]
  BY <1>1 DEF RegistryInv, RegistryTypeOK
<1>5. OneHumanOneWorker'
  <2> SUFFICES ASSUME NEW m \in Nullifiers, NEW v \in Workers
               PROVE  workerOf'[m] = v <=> records'[v].bound /\ records'[v].nullifier = m
    BY DEF OneHumanOneWorker
  <2>1. workerOf[m] = v <=> records[v].bound /\ records[v].nullifier = m
    BY DEF RegistryInv, OneHumanOneWorker
  <2>2. workerOf[n] # v
    BY <1>1, RegistryAssumption
  <2>3. workerOf[m] # w
    BY <1>1 DEF RegistryInv, OneHumanOneWorker
  <2>4. CASE v = w
    BY <2>3, <2>4, <1>3, <1>4
  <2>5. CASE v # w
    BY <2>1, <2>2, <2>5, <1>3, <1>4
  <2> QED
    BY <2>4, <2>5
<1>6. UnboundIsBlank'
  BY <1>3 DEF RegistryInv, UnboundIsBlank
<1>7. AttestedOrSeeded'
  BY <1>3 DEF RegistryInv, AttestedOrSeeded
<1> QED
  BY <1>2, <1>5, <1>6, <1>7 DEF RegistryInv

\* An attestation brought by the relayer.
LEMMA RegisterForKeeps ==
    ASSUME RegistryInv, NEW a \in Attestations, registerFor(a)
    PROVE  RegistryInv'
<1>1. a.nullifier \in Nullifiers /\ a.worker \in Workers
  BY RegistryAssumption
<1>2. /\ usedDigest' = usedDigest \cup {a}
      /\ Unbound(a.nullifier, a.worker) /\ Bind(a.nullifier, a.worker, FALSE)
  BY DEF registerFor
<1>3. usedDigest' \subseteq Attestations
  BY <1>2 DEF RegistryInv, RegistryTypeOK
<1> QED
  BY <1>1, <1>2, <1>3, BindKeepsRegistry

\* A seeded row.
LEMMA SeedWorkerKeeps ==
    ASSUME RegistryInv, NEW w \in Workers, NEW n \in Nullifiers, seedWorker(w, n)
    PROVE  RegistryInv'
<1>1. usedDigest' = usedDigest /\ Unbound(n, w) /\ Bind(n, w, TRUE)
  BY DEF seedWorker
<1>2. usedDigest' \subseteq Attestations
  BY <1>1 DEF RegistryInv, RegistryTypeOK
<1> QED
  BY <1>1, <1>2, BindKeepsRegistry

\* A human the owner unbinds: both directions of the binding go together.
LEMMA ResetWorkerKeeps ==
    ASSUME RegistryInv, NEW n \in Nullifiers, resetWorker(n)
    PROVE  RegistryInv'
<1> DEFINE w == workerOf[n]
<1>1. w \in Workers
  BY DEF resetWorker, RegistryInv, RegistryTypeOK
<1>2. /\ records' = [records EXCEPT ![w] = NoRecord]
      /\ workerOf' = [workerOf EXCEPT ![n] = NoAddress]
      /\ usedDigest' = usedDigest
  BY DEF resetWorker
<1>3. \A v \in Workers : records'[v] = IF v = w THEN NoRecord ELSE records[v]
  BY <1>2 DEF RegistryInv, RegistryTypeOK
<1>4. \A m \in Nullifiers : workerOf'[m] = IF m = n THEN NoAddress ELSE workerOf[m]
  BY <1>2 DEF RegistryInv, RegistryTypeOK
<1>5. RegistryTypeOK'
  BY <1>2 DEF RegistryInv, RegistryTypeOK, Record, NoRecord, Humans
<1>6. OneHumanOneWorker'
  BY <1>1, <1>3, <1>4, RegistryAssumption DEF RegistryInv, OneHumanOneWorker, NoRecord
<1>7. UnboundIsBlank'
  BY <1>3 DEF RegistryInv, UnboundIsBlank
<1>8. \A v \in Workers : records'[v].bound => records'[v] = records[v]
  BY <1>3 DEF NoRecord
<1>9. AttestedOrSeeded'
  BY <1>2, <1>8 DEF RegistryInv, AttestedOrSeeded
<1> QED
  BY <1>5, <1>6, <1>7, <1>9 DEF RegistryInv

\* A step that leaves the registry alone keeps it one to one.
LEMMA RegistryUnchanged ==
    ASSUME RegistryInv, UNCHANGED registryVars
    PROVE  RegistryInv'
BY DEF RegistryInv, registryVars, RegistryTypeOK, OneHumanOneWorker,
    UnboundIsBlank, AttestedOrSeeded
=============================================================================
