----------------------------- MODULE Reputation -----------------------------
(***************************************************************************)
(* Reputation.sol: the worker-side record.  Keyed by the nullifier hash;   *)
(* each rater has one slot per worker, and the score is the sum of slots.  *)
(***************************************************************************)
EXTENDS Integers, FiniteSets, Outcomes

CONSTANTS
    Rated,      \* keys the record is kept under: nullifiers, and 0
    Raters      \* rater keys: agent ids, and addresses of buyers without one

ASSUME ReputationAssumption == IsFiniteSet(Raters)

VARIABLES score, completed, distinctRaters, slotOf

reputationVars == <<score, completed, distinctRaters, slotOf>>

ReputationTypeOK ==
    /\ score \in [Rated -> Int]
    /\ completed \in [Rated -> Nat]
    /\ distinctRaters \in [Rated -> Nat]
    /\ slotOf \in [Rated -> [Raters -> OutcomeCodes \cup {NoOutcome}]]

ReputationInit ==
    /\ score = [n \in Rated |-> 0]
    /\ completed = [n \in Rated |-> 0]
    /\ distinctRaters = [n \in Rated |-> 0]
    /\ slotOf = [n \in Rated |-> [r \in Raters |-> NoOutcome]]

-----------------------------------------------------------------------------
\* What a slot contributes to the score.
slotValue(o) == IF o = RESOLVED_TO_BUYER THEN -1 ELSE 1

\* Mutant: the old slot keeps counting.
scoreAdds(old, o) == slotValue(o)

\* How far an outcome moves the score: a first write adds a voice, a repeat
\* write replaces what the rater's slot contributed.
scoreDelta(old, o) ==
    IF old = NoOutcome THEN slotValue(o) ELSE slotValue(o) - slotValue(old)

\* completed counts tasks, not voices.
feedback(n, r, o) ==
    LET old == slotOf[n][r] IN
    /\ distinctRaters' = [distinctRaters EXCEPT ![n] =
                             IF old = NoOutcome THEN @ + 1 ELSE @]
    /\ score' = [score EXCEPT ![n] = @ + scoreDelta(old, o)]
    /\ slotOf' = [slotOf EXCEPT ![n][r] = o]
    /\ completed' = [completed EXCEPT ![n] =
                        IF o = RESOLVED_TO_BUYER THEN @ ELSE @ + 1]

-----------------------------------------------------------------------------
For(n) == {r \in Raters : slotOf[n][r] \in {PAID, RESOLVED_TO_WORKER}}
Against(n) == {r \in Raters : slotOf[n][r] = RESOLVED_TO_BUYER}

\* One rater, one voice: the running totals feedback maintains by increments
\* are exactly what counting the slots would give, so no rater weighs more
\* than one point however many tasks it posts or outcomes it flips.
OneRaterOneVoice ==
    \A n \in Rated :
        /\ distinctRaters[n] = Cardinality(For(n)) + Cardinality(Against(n))
        /\ score[n] = Cardinality(For(n)) - Cardinality(Against(n))
==============================================================================
