---------------------------- MODULE MCTaskEscrow ----------------------------
(***************************************************************************)
(* Instances of TaskEscrow for TLC.  Amount 7 with a fee of 15% rounds     *)
(* down to 1, the smallest case in which rate, fee and total differ.       *)
(***************************************************************************)
EXTENDS TaskEscrow

CONSTANTS w1, w2, n1, n2, b1, b2, a1, s1

\* The relayer's float covers two tasks; b2 can pay for one itself.
MCEndowment ==
    [x \in Accounts |-> CASE x = Relayer -> 16 [] x = b2 -> 8 [] OTHER -> 0]

Param(b, a, claimTTL, submitTTL, disputeWindow) ==
    [buyer |-> b, buyerAgentId |-> a, amount |-> 7, claimTTL |-> claimTTL,
     submitTTL |-> submitTTL, disputeWindow |-> disputeWindow]

\* For b1 a stale claimant can still submit until displaced; for b2 a claim
\* outlives the right to submit on it.
MCPostParams == {Param(b1, a1, 1, 2, 1), Param(b2, NoAgent, 2, 1, 1)}

\* One buyer who posts twice under its agent id, with the shortest windows.
RepeatBuyer == {Param(b1, a1, 1, 1, 1)}

Attest(n, w, d) == [nullifier |-> n, worker |-> w, deadline |-> d]

\* Both humans may register, at the start only.
MCAttestations == {Attest(n1, w1, 1), Attest(n2, w2, 1)}

\* A human with two addresses may come back under the other one.
TwoAddresses == {Attest(n1, w1, 1), Attest(n1, w2, MaxTime)}
MCSeedings == {<<w2, n2>>}

MCHumans == {n1, n2, NoHuman}
MCRaters == {a1, b1, b2}
==============================================================================
