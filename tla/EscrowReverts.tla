---------------------------- MODULE EscrowReverts ----------------------------
(***************************************************************************)
(* The error each contract call reverts with: the first of its checks that *)
(* fails, in the order the contract makes them.  TaskEscrow's guards are   *)
(* the same checks without their order.                                    *)
(***************************************************************************)
EXTENDS TaskEscrow

Passes == "passes"

\* postAsBuyer asks who sends it after whenNotPaused; post is the relayer's.
postRevert(p, payer, goodType) ==
    IF paused THEN "EnforcedPause"
    ELSE IF payer \notin {p.buyer, Relayer} THEN "NotBuyer"
    ELSE IF ~goodType THEN "BadTaskType"
    ELSE IF p.amount < MIN_TASK_AMOUNT \/ p.amount > MAX_TASK_AMOUNT THEN "AmountOutOfRange"
    ELSE IF p.buyer = NoAddress THEN "NotBuyer"
    ELSE IF \E w \in {p.claimTTL, p.submitTTL, p.disputeWindow} : windowOutOfRange(w)
    THEN "AmountOutOfRange"
    ELSE IF openTasksOf[p.buyer] >= maxOpenTasksPerBuyer THEN "OverOpenCap"
    ELSE IF ~affords(payer, p.amount + feeOn(p.amount)) THEN "ERC20InsufficientBalance"
    ELSE Passes

claimRevert(t, w) ==
    IF paused THEN "EnforcedPause"
    ELSE IF ~isWorker(w) THEN "NotWorker"
    ELSE IF activeClaimOf[w] # NoTask THEN "HasActiveClaim"
    ELSE IF now < cooldownUntil[w] THEN "InCooldown"
    ELSE IF SeededOutside(t, w) THEN "SeededCannotClaimExternal"
    ELSE IF state[t] = "Claimed" /\ ~ClaimStale(t) THEN "AlreadyClaimed"
    ELSE IF state[t] \notin {"Claimed", "Open"} THEN "BadState"
    ELSE Passes

releaseClaimRevert(t, w) ==
    IF state[t] # "Claimed" THEN "BadState"
    ELSE IF worker[t] # w THEN "NotClaimant"
    ELSE Passes

submitRevert(t, w) ==
    IF state[t] # "Claimed" THEN "BadState"
    ELSE IF worker[t] # w THEN "NotClaimant"
    ELSE IF ~CanSubmit(t) THEN "SubmitWindowClosed"
    ELSE Passes

\* The caller is the buyer or the relayer.
approveRevert(t) == IF state[t] # "Submitted" THEN "BadState" ELSE Passes

disputeRevert(t) ==
    IF state[t] # "Submitted" THEN "BadState"
    ELSE IF ~CanDispute(t) THEN "DisputeWindowClosed"
    ELSE Passes

autoReleaseRevert(t) ==
    IF state[t] # "Submitted" THEN "BadState"
    ELSE IF ~DisputeWindowOver(t) THEN "DisputeWindowOpen"
    ELSE Passes

resolveRevert(t) == IF state[t] # "Disputed" THEN "BadState" ELSE Passes

expireRevert(t) ==
    IF state[t] \notin {"Open", "Claimed"} THEN "BadState"
    ELSE IF ~(state[t] = "Open" /\ ListingExpired(t))
            /\ ~(state[t] = "Claimed" /\ SubmitExpired(t)) THEN "NotExpired"
    ELSE Passes

-----------------------------------------------------------------------------
\* A message comes signed by the verifier or not.
registerForRevert(a, signed) ==
    IF a.worker = NoAddress THEN "ZeroWorker"
    ELSE IF a.nullifier = NoHuman THEN "ZeroNullifier"
    ELSE IF now > a.deadline THEN "AttestationExpired"
    ELSE IF a \in usedDigest THEN "AttestationUsed"
    ELSE IF ~signed THEN "BadAttestation"
    ELSE IF workerOf[a.nullifier] # NoAddress THEN "DuplicateNullifier"
    ELSE IF records[a.worker].bound THEN "WorkerAlreadyBound"
    ELSE Passes

seedWorkerRevert(w, n) ==
    IF w = NoAddress THEN "ZeroWorker"
    ELSE IF n = NoHuman THEN "ZeroNullifier"
    ELSE IF workerOf[n] # NoAddress THEN "DuplicateNullifier"
    ELSE IF records[w].bound THEN "WorkerAlreadyBound"
    ELSE Passes

resetWorkerRevert(n) == IF workerOf[n] = NoAddress THEN "UnknownNullifier" ELSE Passes

\* A repeat of a marked pair returns before the cooldown is looked at.
markRevert(a, s) ==
    IF ~AlreadyMarked(a, s) /\ CoolingDown(a) THEN "MarkCooldown" ELSE Passes
==============================================================================
