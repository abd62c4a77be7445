---------------------------- MODULE EscrowPromise ----------------------------
(***************************************************************************)
(* What the escrow promises buyers and workers, with no clock, no counters *)
(* and no money: a task goes one way through its stages, a worker is on    *)
(* one task at a time, a buyer has at most Cap tasks alive, and work that  *)
(* was handed in is settled, never refunded as if nobody had done it.      *)
(* TaskEscrow decides the same with openTasksOf and activeClaimOf, two     *)
(* indexes it maintains by hand.                                           *)
(***************************************************************************)
EXTENDS Integers, FiniteSets

CONSTANTS Tasks, Workers, Buyers, Nobody, Cap

VARIABLES stage, buyer, holder

promiseVars == <<stage, buyer, holder>>

Alive == {"listed", "held", "proven", "contested"}

AliveOf(b) == {t \in Tasks : stage[t] \in Alive /\ buyer[t] = b}

Free(w) == \A t \in Tasks : holder[t] # w

Init ==
    /\ stage = [t \in Tasks |-> "unposted"]
    /\ buyer = [t \in Tasks |-> Nobody]
    /\ holder = [t \in Tasks |-> Nobody]

Move(t, from, to) == stage[t] = from /\ stage' = [stage EXCEPT ![t] = to]

Hold(t, h) == holder' = [holder EXCEPT ![t] = h]

List(t, b) ==
    /\ Cardinality(AliveOf(b)) < Cap
    /\ Move(t, "unposted", "listed")
    /\ buyer' = [buyer EXCEPT ![t] = b]
    /\ UNCHANGED holder

\* A listed task is taken, or a holder who let it go stale is displaced.
Take(t, w) ==
    /\ Free(w)
    /\ Move(t, "listed", "held") \/ Move(t, "held", "held")
    /\ Hold(t, w)
    /\ UNCHANGED buyer

HandBack(t) == Move(t, "held", "listed") /\ Hold(t, Nobody) /\ UNCHANGED buyer

Prove(t) == Move(t, "held", "proven") /\ UNCHANGED <<buyer, holder>>

Contest(t) == Move(t, "proven", "contested") /\ UNCHANGED <<buyer, holder>>

Settle(t) ==
    /\ Move(t, "proven", "settled") \/ Move(t, "contested", "settled")
    /\ Hold(t, Nobody)
    /\ UNCHANGED buyer

Refund(t) ==
    /\ Move(t, "listed", "refunded") \/ Move(t, "held", "refunded")
    /\ Hold(t, Nobody)
    /\ UNCHANGED buyer

Next ==
    \E t \in Tasks :
        \/ \E b \in Buyers : List(t, b)
        \/ \E w \in Workers : Take(t, w)
        \/ HandBack(t) \/ Prove(t) \/ Contest(t) \/ Settle(t) \/ Refund(t)

Spec == Init /\ [][Next]_promiseVars
==============================================================================
