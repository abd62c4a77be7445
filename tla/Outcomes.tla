------------------------------ MODULE Outcomes ------------------------------
(***************************************************************************)
(* Outcomes.sol: how a settled task ended.  NoOutcome stands for 0, the    *)
(* value of a reputation slot nobody has written.                          *)
(***************************************************************************)
PAID == "PAID"
RESOLVED_TO_WORKER == "RESOLVED_TO_WORKER"
RESOLVED_TO_BUYER == "RESOLVED_TO_BUYER"
NoOutcome == "none"

OutcomeCodes == {PAID, RESOLVED_TO_WORKER, RESOLVED_TO_BUYER}
==============================================================================
