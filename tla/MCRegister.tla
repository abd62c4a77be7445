----------------------------- MODULE MCRegister -----------------------------
(* TLC's instance of Register: every attestation that can be signed.        *)
EXTENDS Register, TLC

CONSTANTS n1, n2, n3, w1, w2, r1, r2, r3

MCAttestations ==
    [nullifier : Nullifiers, worker : Workers, deadline : 1 .. MaxTime + DEADLINE_S]
MCSeedings == {<<w2, n3>>}

Alike == Permutations({n1, n2}) \cup Permutations(Requests)
==============================================================================
