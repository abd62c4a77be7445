---------------------------- MODULE MirrorProofs ----------------------------
(***************************************************************************)
(* FinalRowsAreTrue for any number of workers and requests.  A final row   *)
(* is true because a final record never moves again, so it is enough that  *)
(* what is about to be written was true when it was learnt: what a mirror  *)
(* read (Mirrors), and what a receipt that did not revert says (Receipts). *)
(***************************************************************************)
EXTENDS Mirror, TLAPS

\* A final state read from the chain is the state the chain is in.
Mirrors ==
    \A s \in Slots :
        invocation[s].at \in {"patch", "mirror"} /\ invocation[s].seen.state \in Final =>
            invocation[s].seen.state = task.state

\* A settlement's receipt, unless it reverted, says how the task was settled.
Receipts ==
    \A s \in Slots :
        LET i == invocation[s]
        IN  i.at = "mined" /\ ~i.reverted /\ StateAfter[i.call] \in Final =>
                StateAfter[i.call] = task.state

Inv == TypeOK /\ Mirrors /\ Receipts /\ FinalRowsAreTrue

-----------------------------------------------------------------------------
\* The contract takes no call on a task that is settled.
LEMMA SettledIsOver ==
    ASSUME NEW call, NEW w, Accepts(call, w)
    PROVE  task.state \notin Final
BY DEF Accepts, Claimable, Claimant, CanSubmit, Final

\* What the contract does keeps the record a record.
LEMMA AfterTyped ==
    ASSUME TypeOK, NEW call \in Calls, NEW w \in Workers \cup {NoAddress},
           Accepts(call, w)
    PROVE  After(call, w) \in Records /\ After(call, w).state = StateAfter[call]
<1>1. now \in Clock /\ 0 \in Clock
  BY BlockTimeAssumption DEF TypeOK, Times, Clock
<1>2. StateAfter[call] \in States
  BY DEF Calls, StateAfter, States
<1>3. call = "claimFor" => w \in Workers
  BY DEF Accepts
<1>4. /\ task.worker \in Workers \cup {NoAddress}
      /\ task.claimedAt \in Clock /\ task.submittedAt \in Clock
  BY DEF TypeOK, Records
<1> QED
  BY <1>1, <1>2, <1>3, <1>4 DEF After, Records

\* An idle slot is an invocation.
LEMMA IdleTyped == Idle \in Invocations /\ Idle.at = "idle"
<1>1. Posted \in Records
  BY BlockTimeAssumption DEF Posted, Records, States, Clock
<1> QED
  BY <1>1, BlockTimeAssumption DEF Idle, Invocations, Clock

\* The first state.
LEMMA InitInv == Init => Inv
<1> SUFFICES ASSUME Init PROVE Inv
  OBVIOUS
<1>1. Posted \in Records /\ Posted.state \notin Final
  BY BlockTimeAssumption DEF Posted, Records, States, Clock, Final
<1>2. Idle \in Invocations /\ Idle.at = "idle"
  BY IdleTyped
<1>3. \A s \in Slots : invocation[s] = Idle
  BY DEF Init
<1>4. TypeOK
  <2>1. now \in Times
    BY BlockTimeAssumption DEF Init, ClockInit, Times
  <2>2. invocation \in [Slots -> Invocations]
    BY <1>2 DEF Init
  <2> QED
    BY <1>1, <1>2, <1>3, <2>1, <2>2 DEF Init, TypeOK
<1>5. Mirrors /\ Receipts
  BY <1>2, <1>3 DEF Mirrors, Receipts
<1>6. FinalRowsAreTrue
  BY <1>1 DEF Init, FinalRowsAreTrue
<1> QED
  BY <1>4, <1>5, <1>6 DEF Inv

\* A request that moves on changes its own slot and no other.
LEMMA OneSlotMoves ==
    ASSUME TypeOK, NEW s \in Slots, NEW i \in Invocations, Becomes(s, i),
           i.at \in {"send", "sent", "mined", "mirror"} => i.call \in Calls
    PROVE  /\ invocation' \in [Slots -> Invocations]
           /\ invocation'[s] = i
           /\ \A u \in Slots \ {s} : invocation'[u] = invocation[u]
           /\ \A u \in Slots :
                 invocation'[u].at \in {"send", "sent", "mined", "mirror"} =>
                     invocation'[u].call \in Calls
BY DEF TypeOK, Becomes

\* A step that moves one request to a place where it has learnt nothing, and
\* writes no false settlement over the row, preserves everything.
LEMMA SlotForgets ==
    ASSUME Inv, NEW s \in Slots, NEW i \in Invocations, Becomes(s, i),
           i.at \in {"idle", "pull", "send", "sent"},
           i.at \in {"send", "sent"} => i.call \in Calls,
           UNCHANGED <<now, task>>,
           row' \in Records, mistaken' \in BOOLEAN, FinalRowsAreTrue'
    PROVE  Inv'
<1>1. /\ invocation' \in [Slots -> Invocations] /\ invocation'[s] = i
      /\ \A u \in Slots \ {s} : invocation'[u] = invocation[u]
      /\ \A u \in Slots :
            invocation'[u].at \in {"send", "sent", "mined", "mirror"} =>
                invocation'[u].call \in Calls
  BY OneSlotMoves DEF Inv
<1>2. TypeOK'
  BY <1>1 DEF Inv, TypeOK
<1>3. Mirrors' /\ Receipts'
  BY <1>1 DEF Inv, Mirrors, Receipts
<1> QED
  BY <1>2, <1>3 DEF Inv

\* Setting a slot to a call, or to a sweep, keeps it an invocation.
LEMMA CallingTyped ==
    ASSUME NEW verb \in Verbs, NEW call \in Calls, NEW w \in Workers \cup {NoAddress}
    PROVE  /\ Calling(verb, call, w) \in Invocations
           /\ Calling(verb, call, w).at = "send" /\ Calling(verb, call, w).call = call
BY IdleTyped DEF Calling, Invocations

LEMMA SweepingTyped == Sweeping \in Invocations /\ Sweeping.at = "pull"
BY IdleTyped DEF Sweeping, Invocations, Verbs

-----------------------------------------------------------------------------
\* A request that begins has read the row, or the chain, and keeps neither.
LEMMA RequestKeeps ==
    ASSUME Inv, NEW s \in Slots, Request(s)
    PROVE  Inv'
<1>1. /\ UNCHANGED <<now, task, row, mistaken>>
      /\ row' \in Records /\ mistaken' \in BOOLEAN /\ FinalRowsAreTrue'
  BY DEF Request, Inv, TypeOK, FinalRowsAreTrue
<1>2. CASE Becomes(s, Sweeping)
  BY <1>1, <1>2, SweepingTyped, SlotForgets
<1>3. ASSUME NEW verb \in Verbs, NEW call \in Calls, NEW w \in Workers \cup {NoAddress},
             Becomes(s, Calling(verb, call, w))
      PROVE  Inv'
  BY <1>1, <1>3, CallingTyped, SlotForgets
<1>4. \/ Becomes(s, Sweeping)
      \/ \E w \in Workers :
            \/ Becomes(s, Calling("claim", "claimFor", w))
            \/ Becomes(s, Calling("submit", "submitFor", w))
            \/ Becomes(s, Calling("release-claim", "releaseClaimFor", w))
      \/ Becomes(s, Calling("approve", "approve", NoAddress))
      \/ Becomes(s, Calling("resolve", "resolve", NoAddress))
      \/ Becomes(s, Calling("dispute", "dispute", NoAddress))
      \/ Becomes(s, Calling("refund", "expire", NoAddress))
  BY DEF Request, sweep, status, claim, submit, releaseClaim, approve, resolve,
         dispute, refund
<1>5. /\ {"claim", "submit", "release-claim", "approve", "resolve", "dispute", "refund"}
           \subseteq Verbs
      /\ {"claimFor", "submitFor", "releaseClaimFor", "approve", "resolve", "dispute",
          "expire"} \subseteq Calls
  BY DEF Verbs, TransitionVerbs, WorkerVerbs, Calls, StateAfter
<1> QED
  BY <1>2, <1>3, <1>4, <1>5

\* What a mirror reads is what the chain says.
LEMMA PullKeeps ==
    ASSUME Inv, NEW s \in Slots, Pull(s)
    PROVE  Inv'
<1> DEFINE i == [invocation[s] EXCEPT !.at = "patch", !.seen = task,
                               !.call = eligibleAction(task, now)]
<1>1. i \in Invocations /\ i.at = "patch" /\ i.seen = task
  <2>1. eligibleAction(task, now) \in Calls \cup {"none"}
    BY DEF eligibleAction, Calls, StateAfter
  <2>2. task \in Records /\ invocation[s] \in Invocations
    BY DEF Inv, TypeOK
  <2> QED
    BY <2>1, <2>2 DEF Invocations
<1>2. /\ invocation' \in [Slots -> Invocations] /\ invocation'[s] = i
      /\ \A u \in Slots \ {s} : invocation'[u] = invocation[u]
      /\ \A u \in Slots :
            invocation'[u].at \in {"send", "sent", "mined", "mirror"} =>
                invocation'[u].call \in Calls
  <2>1. Becomes(s, i) /\ TypeOK
    BY DEF Pull, Inv
  <2> HIDE DEF i
  <2> QED
    BY <1>1, <2>1, OneSlotMoves
<1> HIDE DEF i
<1>3. TypeOK'
  BY <1>2 DEF Inv, TypeOK, Pull
<1>4. Mirrors' /\ Receipts' /\ FinalRowsAreTrue'
  BY <1>1, <1>2 DEF Inv, Mirrors, Receipts, FinalRowsAreTrue, Pull
<1> QED
  BY <1>3, <1>4 DEF Inv

\* Mirroring, before or after a settlement, writes what was read: if that was
\* final, the task is where it was.
LEMMA MirrorKeeps ==
    ASSUME Inv, NEW s \in Slots, Patch(s) \/ MirrorBack(s)
    PROVE  Inv'
<1>1. /\ invocation[s].at \in {"patch", "mirror"} /\ row' = invocation[s].seen
      /\ UNCHANGED <<now, task, mistaken>>
  BY DEF Patch, MirrorBack
<1>2. row' \in Records /\ mistaken' \in BOOLEAN /\ FinalRowsAreTrue'
  BY <1>1 DEF Inv, TypeOK, Invocations, Mirrors, FinalRowsAreTrue
<1>3. CASE Becomes(s, Idle)
  BY <1>1, <1>2, <1>3, IdleTyped, SlotForgets
<1>4. ASSUME NEW verb \in Verbs, NEW call \in Calls,
             Becomes(s, Calling(verb, call, NoAddress))
      PROVE  Inv'
  BY <1>1, <1>2, <1>4, CallingTyped, SlotForgets
<1>5. CASE Patch(s)
  <2>1. "sweep" \in Verbs /\ invocation[s].call \in Calls \cup {"none"}
    BY DEF Verbs, Inv, TypeOK, Invocations
  <2>2. Becomes(s, IF invocation[s].call = "none" THEN Idle
                   ELSE Calling("sweep", invocation[s].call, NoAddress))
    BY <1>5 DEF Patch
  <2>3. CASE invocation[s].call = "none"
    BY <1>3, <2>2, <2>3
  <2>4. CASE invocation[s].call # "none"
    BY <1>4, <2>1, <2>2, <2>4
  <2> QED
    BY <2>3, <2>4
<1>6. CASE MirrorBack(s)
  <2>1. "submit" \in Verbs /\ "dispute" \in Calls
    BY DEF Verbs, WorkerVerbs, Calls, StateAfter
  <2> QED
    BY <1>3, <1>4, <1>6, <2>1 DEF MirrorBack
<1> QED
  BY <1>5, <1>6

\* The queue: an estimate that passes waits for its block, one that reverts ends.
LEMMA SendKeeps ==
    ASSUME Inv, NEW s \in Slots, Send(s) \/ Refused(s) \/ Ends(s)
    PROVE  Inv'
<1>1. /\ UNCHANGED <<now, task, row, mistaken>>
      /\ row' \in Records /\ mistaken' \in BOOLEAN /\ FinalRowsAreTrue'
  BY DEF Send, Refused, Ends, Inv, TypeOK, FinalRowsAreTrue
<1>2. CASE Becomes(s, Idle)
  BY <1>1, <1>2, IdleTyped, SlotForgets
<1>3. CASE Send(s)
  <2> DEFINE i == [invocation[s] EXCEPT !.at = "sent"]
  <2>1. i \in Invocations /\ i.at = "sent" /\ i.call \in Calls /\ Becomes(s, i)
    BY <1>3 DEF Send, Inv, TypeOK, Invocations
  <2> HIDE DEF i
  <2> QED
    BY <1>1, <2>1, SlotForgets
<1> QED
  BY <1>2, <1>3 DEF Refused, Ends

\* A route writes the state of its call.  Unless the receipt reverted, which the
\* history then records, that is where the task is.
LEMMA TransitionKeeps ==
    ASSUME Inv, NEW s \in Slots, Transition(s)
    PROVE  Inv'
<1> DEFINE i == invocation[s]
<1>1. /\ i.at = "mined" /\ i.call \in Calls /\ i.reverted \in BOOLEAN
      /\ row' = [row EXCEPT !.state = StateAfter[i.call]]
      /\ mistaken' = (mistaken \/ (i.reverted /\ StateAfter[i.call] \in Final))
      /\ Becomes(s, Idle) /\ UNCHANGED <<now, task>>
  BY DEF Transition, Inv, TypeOK, Invocations
<1>2. StateAfter[i.call] \in States
  BY <1>1 DEF Calls, StateAfter, States
<1>3. row' \in Records /\ row'.state = StateAfter[i.call]
  BY <1>1, <1>2 DEF Inv, TypeOK, Records
<1>4. mistaken' \in BOOLEAN
  BY <1>1 DEF Inv, TypeOK
<1>5. FinalRowsAreTrue'
  BY <1>1, <1>3 DEF Inv, Receipts, FinalRowsAreTrue
<1> QED
  BY <1>1, <1>3, <1>4, <1>5, IdleTyped, SlotForgets

\* Reading the chain back after the receipt.
LEMMA ReadBackKeeps ==
    ASSUME Inv, NEW s \in Slots, ReadBack(s)
    PROVE  Inv'
<1> DEFINE i == [invocation[s] EXCEPT !.at = "mirror", !.seen = task, !.reverted = FALSE]
<1>1. /\ i \in Invocations /\ i.at = "mirror" /\ i.seen = task
      /\ i.call \in Calls /\ Becomes(s, i)
  BY DEF ReadBack, Inv, TypeOK, Invocations
<1> HIDE DEF i
<1>2. /\ invocation' \in [Slots -> Invocations] /\ invocation'[s] = i
      /\ \A u \in Slots \ {s} : invocation'[u] = invocation[u]
      /\ \A u \in Slots :
            invocation'[u].at \in {"send", "sent", "mined", "mirror"} =>
                invocation'[u].call \in Calls
  BY <1>1, OneSlotMoves DEF Inv
<1>3. TypeOK'
  BY <1>2 DEF Inv, TypeOK, ReadBack
<1>4. Mirrors' /\ Receipts' /\ FinalRowsAreTrue'
  BY <1>1, <1>2 DEF Inv, Mirrors, Receipts, FinalRowsAreTrue, ReadBack
<1> QED
  BY <1>3, <1>4 DEF Inv

-----------------------------------------------------------------------------
\* When the contract takes a call nothing was settled yet, so nobody has read,
\* been told or written a settlement that the call could make untrue.
LEMMA NothingSettled ==
    ASSUME Inv, task.state \notin Final
    PROVE  /\ \A s \in Slots :
                 /\ invocation[s].at \in {"patch", "mirror"} =>
                        invocation[s].seen.state \notin Final
                 /\ invocation[s].at = "mined" /\ ~invocation[s].reverted =>
                        StateAfter[invocation[s].call] \notin Final
           /\ row.state \in Final => mistaken
BY DEF Inv, Mirrors, Receipts, FinalRowsAreTrue

\* Somebody else's transaction.
LEMMA OutsideKeeps ==
    ASSUME Inv, NEW call \in Calls, NEW w \in Workers \cup {NoAddress}, Outside(call, w)
    PROVE  Inv'
<1>1. Accepts(call, w) /\ task' = After(call, w) /\ UNCHANGED <<now, row, invocation, mistaken>>
  BY DEF Outside
<1>2. task' \in Records /\ task.state \notin Final
  BY <1>1, AfterTyped, SettledIsOver DEF Inv
<1>3. TypeOK'
  BY <1>1, <1>2 DEF Inv, TypeOK
<1>4. Mirrors' /\ Receipts' /\ FinalRowsAreTrue'
  BY <1>1, <1>2, NothingSettled DEF Mirrors, Receipts, FinalRowsAreTrue
<1> QED
  BY <1>3, <1>4 DEF Inv

\* The queue's own transaction is mined, in time or after losing its race.
LEMMA ExecuteKeeps ==
    ASSUME Inv, NEW s \in Slots, Execute(s)
    PROVE  Inv'
<1> DEFINE accepted == Accepts(invocation[s].call, invocation[s].caller)
           i == [invocation[s] EXCEPT !.at = "mined", !.reverted = ~accepted]
<1>1. /\ invocation[s].call \in Calls /\ invocation[s].caller \in Workers \cup {NoAddress}
      /\ i \in Invocations /\ i.at = "mined" /\ i.call = invocation[s].call
      /\ i.reverted = ~accepted /\ Becomes(s, i) /\ UNCHANGED <<now, row, mistaken>>
  BY DEF Execute, Inv, TypeOK, Invocations
<1>2. CASE accepted
  <2>1. /\ task' \in Records /\ task'.state = StateAfter[i.call]
        /\ task.state \notin Final
    BY <1>1, <1>2, AfterTyped, SettledIsOver DEF Inv, Execute
  <2>2. ~i.reverted
    BY <1>1, <1>2
  <2> HIDE DEF i, accepted
  <2>3. /\ invocation' \in [Slots -> Invocations] /\ invocation'[s] = i
        /\ \A u \in Slots \ {s} : invocation'[u] = invocation[u]
        /\ \A u \in Slots :
              invocation'[u].at \in {"send", "sent", "mined", "mirror"} =>
                  invocation'[u].call \in Calls
    BY <1>1, OneSlotMoves DEF Inv
  <2>4. TypeOK'
    BY <1>1, <2>1, <2>3 DEF Inv, TypeOK
  <2>5. Mirrors' /\ Receipts' /\ FinalRowsAreTrue'
    BY <1>1, <2>1, <2>3, NothingSettled DEF Mirrors, Receipts, FinalRowsAreTrue
  <2> QED
    BY <2>4, <2>5 DEF Inv
<1>3. CASE ~accepted
  <2>1. task' = task
    BY <1>3 DEF Execute
  <2>2. i.reverted
    BY <1>1, <1>3
  <2> HIDE DEF i, accepted
  <2>3. /\ invocation' \in [Slots -> Invocations] /\ invocation'[s] = i
        /\ \A u \in Slots \ {s} : invocation'[u] = invocation[u]
        /\ \A u \in Slots :
              invocation'[u].at \in {"send", "sent", "mined", "mirror"} =>
                  invocation'[u].call \in Calls
    BY <1>1, OneSlotMoves DEF Inv
  <2>4. TypeOK'
    BY <1>1, <2>1, <2>3 DEF Inv, TypeOK
  <2>5. Mirrors' /\ Receipts' /\ FinalRowsAreTrue'
    BY <1>1, <2>1, <2>2, <2>3 DEF Inv, Mirrors, Receipts, FinalRowsAreTrue
  <2> QED
    BY <2>4, <2>5 DEF Inv
<1> QED
  BY <1>2, <1>3

\* Time changes nothing that is written.
LEMMA TickKeeps == ASSUME Inv, Tick PROVE Inv'
<1>1. now' \in Times
  BY BlockTimeAssumption DEF Tick, ClockTick, Inv, TypeOK, Times
<1> QED
  BY <1>1 DEF Tick, Inv, TypeOK, Mirrors, Receipts, FinalRowsAreTrue

-----------------------------------------------------------------------------
\* Every step keeps the invariant.
LEMMA NextInv == Inv /\ [Next]_vars => Inv'
<1> SUFFICES ASSUME Inv, [Next]_vars
             PROVE  Inv'
  OBVIOUS
<1>1. CASE UNCHANGED vars
  BY <1>1 DEF vars, Inv, TypeOK, Mirrors, Receipts, FinalRowsAreTrue
<1>2. CASE \E s \in Slots :
             \/ Request(s) \/ Pull(s) \/ Patch(s)
             \/ Send(s) \/ Refused(s) \/ Execute(s)
             \/ Transition(s) \/ ReadBack(s) \/ MirrorBack(s) \/ Ends(s)
  BY <1>2, RequestKeeps, PullKeeps, MirrorKeeps, SendKeeps, ExecuteKeeps,
     TransitionKeeps, ReadBackKeeps
<1>3. CASE \E call \in Calls, w \in Workers \cup {NoAddress} : Outside(call, w)
  BY <1>3, OutsideKeeps
<1>4. CASE Tick
  BY <1>4, TickKeeps
<1> QED
  BY <1>1, <1>2, <1>3, <1>4 DEF Next

\* Every reachable state satisfies the invariant.
THEOREM MirrorInvariant == Spec => []Inv
BY InitInv, NextInv, PTL DEF Spec

\* Task, row and requests keep their types: no row is given a state, a worker
\* or a timestamp its columns do not have.
THEOREM MirrorTypes == Spec => []TypeOK
<1>1. Inv => TypeOK
  BY DEF Inv
<1> QED
  BY <1>1, MirrorInvariant, PTL

\* A row that says a task is settled says how the escrow settled it, unless a
\* route took a reverted receipt for its settlement (lifecycle.ts,
\* statusBus.ts), for any number of workers and concurrent requests.
THEOREM FinalRowsStayTrue == Spec => []FinalRowsAreTrue
<1>1. Inv => FinalRowsAreTrue
  BY DEF Inv
<1> QED
  BY <1>1, MirrorInvariant, PTL
=============================================================================
