---------------------------- MODULE MCFakeChain ----------------------------
(***************************************************************************)
(* Instance of FakeChain for TLC.  The float covers one task: a second     *)
(* one is posted by a buyer who was refunded the first.                    *)
(***************************************************************************)
EXTENDS FakeChain

CONSTANTS w1, w2, n1, b1, b2, a1, s1, s2

Param(buyer, agent, window) ==
    [buyer |-> buyer, buyerAgentId |-> agent, amount |-> 7, claimTTL |-> window,
     submitTTL |-> window, disputeWindow |-> 1]

\* One post the contracts take, one with windows below theirs, one for buyer 0.
MCPostParams == {Param(b1, a1, 1), Param(b1, a1, 0), Param(NoAddress, NoAgent, 1)}

MCEndowment == [x \in Anyone |-> IF x = Relayer THEN 8 ELSE 0]

Attestation(n, w, bytes) ==
    [nullifier |-> n, worker |-> w, deadline |-> 2, signature |-> bytes]

\* One human registers, and the owner seeds another address over them; the
\* same with somebody else's signature, another of the verifier's or none,
\* and with 0.
MCAttestations ==
    {Attestation(n1, w1, bytes) : bytes \in Signatures}
       \cup {Attestation(n1, NoAddress, "signed"), Attestation(NoHuman, w1, "signed")}
MCSeedings == {<<w2, n1>>, <<NoAddress, n1>>, <<w2, NoHuman>>}

MCRaters == {a1, b1, b2}

\* What the fake keeps and the contracts do not: rows of address 0 or
\* nullifier 0, tasks of buyer 0 or with a window out of range.
OddRows == {w \in DOMAIN workers : w = NoAddress \/ workers[w].nullifier = NoHuman}
OddTasks ==
    {t \in DOMAIN tasks : tasks[t].buyer = NoAddress \/ ~InRange(tasks[t])}

\* Bounds.  Marks, which share nothing with tasks and people but the log, are
\* made and paced before either.  Two attestations are spent, and a
\* registration the contracts refuse, nullifier 0's apart, comes before the
\* first post.  One row or one task at a time is odd.  The buyer of the one
\* task may be allowlisted while somebody is seeded; the escrow is paused
\* while nothing is odd and nobody allowlisted.  The second task lives in the
\* first two seconds, beside nothing odd, without a pause.
Focus ==
    /\ \/ marks = {} /\ cooldownSeconds = DefaultCooldown
       \/ taskCounter = 0 /\ DOMAIN workers = {} /\ usedAttestations = {}
    /\ Cardinality(usedAttestations) =< 2
    /\ Cardinality(OddRows) + Cardinality(OddTasks) =< 1
    /\ taskCounter > 0 =>
          /\ \A a \in usedAttestations : a.signature = "signed" /\ a.worker # NoAddress
          /\ \A w \in Workers \cap OddRows : ~isSeeded(w)
          /\ NoHuman \in DOMAIN workerByNullifier => OddRows # {}
    /\ allowlist # {} =>
          /\ taskCounter = 1 /\ allowlist = {tasks[1].buyer}
          /\ OddRows = {} /\ \E w \in Workers : isSeeded(w)
    /\ isPaused => OddRows \cup OddTasks \cup allowlist = {}
    /\ taskCounter = 2 => clock < MaxTime /\ ~isPaused /\ OddRows \cup OddTasks = {}
=============================================================================
