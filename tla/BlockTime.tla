------------------------------ MODULE BlockTime ------------------------------
(***************************************************************************)
(* block.timestamp, the one clock every contract reads.  Transactions do   *)
(* not advance it; it moves between them, in units of the smallest window. *)
(* A chain's timestamp is never 0, and AbuseMark relies on that.           *)
(***************************************************************************)
EXTENDS Integers

CONSTANT MaxTime    \* model bound: the last timestamp the model reaches

ASSUME BlockTimeAssumption == MaxTime \in Nat \ {0}

VARIABLE now

Times == 1 .. MaxTime

ClockInit == now = 1

ClockTick == now < MaxTime /\ now' = now + 1
==============================================================================
