---------------------------- MODULE MarksProofs ----------------------------
(***************************************************************************)
(* The agent-side record for any number of agents, specs and requests, any *)
(* cooldowns and any length of time.  The count of marks agrees with the   *)
(* set of marked specs because mark() looks before it counts; it grows no  *)
(* faster than the cooldowns let it, because a mark waits out the one in   *)
(* force; and an answer is right about the chain, or was beaten, because a *)
(* marked pair stays marked and a cooldown is always some request's mark.  *)
(***************************************************************************)
EXTENDS Marks, FiniteSetTheorems, TLAPS

PCs == {"idle", "refused", "reading", "sending", "sent", "mined", "done", "dead"}

TypeOK ==
    /\ now \in Times /\ AbuseMarkTypeOK
    /\ pc \in [Requests -> PCs]
    /\ subject \in [Requests -> Subjects \cup {NoSubject}]
    /\ mempool \in Seq(Requests)
    /\ marksLog \in [Requests -> MarkOutcomes \cup {"none"}]

MarkedSpecs(a) == {s \in SpecHashes : <<a, s>> \in marked}

\* The counter is the number of marked specs, and that can be counted.
MarksAreCounted ==
    \A a \in AgentIds :
        IsFiniteSet(MarkedSpecs(a)) /\ marksOf[a] = Cardinality(MarkedSpecs(a))

\* A request has a subject from the moment it is a refusal, and no row before.
HasSubject ==
    \A r \in Requests :
        IF pc[r] = "idle" THEN subject[r] = NoSubject /\ marksLog[r] = "none"
                          ELSE subject[r] \in Subjects

\* Only a request that was a refusal has sent anything.
SentByRefusals == \A i \in 1 .. Len(mempool) : pc[mempool[i]] # "idle"

\* Some request's refusal of this agent is marked.
Beaten(a) == \E s \in Requests : subject[s] \in marked /\ AgentOf(s) = a

\* A cooldown that runs was started by the mark of a request.
CooldownsAreMarks == \A a \in AgentIds : lastMarkAt[a] # 0 => Beaten(a)

\* A transaction that left a receipt is a mark, or was beaten by one.
MinedIsMarkOrBeaten ==
    \A r \in Requests : pc[r] = "mined" => subject[r] \in marked \/ Beaten(AgentOf(r))

Inv == /\ TypeOK /\ MarksAreCounted /\ MarksArePaced
       /\ HasSubject /\ SentByRefusals /\ CooldownsAreMarks /\ MinedIsMarkOrBeaten
       /\ MarkedRowsAreMarksOrBeaten

-----------------------------------------------------------------------------
LEMMA NoSubjectIsNone == NoSubject \notin Subjects
BY DEF NoSubject, Subjects

\* One cooldown more, and the new pace is the slower of the two.
LEMMA PaceAdds ==
    ASSUME NEW k \in Nat \ {0}, NEW c \in Nat, NEW d \in Nat,
           NEW t \in Nat, NEW u \in Nat, t > (k - 1) * c, u >= t + d
    PROVE  u > k * c \/ u > k * d
<1>1. k * c = (k - 1) * c + c /\ (k - 1) * c \in Nat
  OBVIOUS
<1>2. CASE c =< d
  BY <1>1, <1>2
<1>3. CASE d =< c
  <2>1. k * d = (k - 1) * d + d /\ (k - 1) * d \in Nat
    OBVIOUS
  <2>2. (k - 1) * d =< (k - 1) * c
    <3>1. k - 1 \in Nat /\ c - d \in Nat
      BY <1>3
    <3>2. (k - 1) * c = (k - 1) * d + (k - 1) * (c - d) /\ (k - 1) * (c - d) \in Nat
      BY <3>1
    <3> QED
      BY <2>1, <1>1, <3>2
  <2> QED
    BY <1>1, <2>1, <2>2
<1> QED
  BY <1>2, <1>3

\* What the contract does at a mark keeps the count, the pace and the types.
LEMMA MarkCounts ==
    ASSUME AbuseMarkTypeOK, now \in Times, MarksAreCounted, MarksArePaced,
           NEW a \in AgentIds, NEW s \in SpecHashes, mark(a, s)
    PROVE  AbuseMarkTypeOK' /\ MarksAreCounted' /\ MarksArePaced'
<1>1. now \in Nat \ {0} /\ markCooldown \in Cooldowns /\ Cooldowns \subseteq Nat
  BY AbuseMarkAssumption, BlockTimeAssumption DEF Times, AbuseMarkTypeOK
<1>2. AbuseMarkTypeOK'
  BY <1>1 DEF AbuseMarkTypeOK, mark, giveFeedback
<1>3. MarksAreCounted'
  <2> SUFFICES ASSUME NEW b \in AgentIds
               PROVE  /\ IsFiniteSet(MarkedSpecs(b)')
                      /\ marksOf'[b] = Cardinality(MarkedSpecs(b)')
    BY DEF MarksAreCounted
  <2>1. IsFiniteSet(MarkedSpecs(b)) /\ marksOf[b] = Cardinality(MarkedSpecs(b))
    BY DEF MarksAreCounted
  <2>2. CASE b # a
    <3>1. MarkedSpecs(b)' = MarkedSpecs(b) /\ marksOf'[b] = marksOf[b]
      BY <2>2 DEF mark, MarkedSpecs, AbuseMarkTypeOK
    <3> QED
      BY <2>1, <3>1
  <2>3. CASE b = a
    <3>1. MarkedSpecs(a)' = MarkedSpecs(a) \cup {s} /\ s \notin MarkedSpecs(a)
      BY DEF mark, AlreadyMarked, MarkedSpecs
    <3>2. /\ IsFiniteSet(MarkedSpecs(a) \cup {s})
          /\ Cardinality(MarkedSpecs(a) \cup {s}) = Cardinality(MarkedSpecs(a)) + 1
      BY <2>1, <2>3, <3>1, FS_AddElement
    <3>3. marksOf'[a] = marksOf[a] + 1
      BY DEF mark, AbuseMarkTypeOK
    <3> QED
      BY <2>1, <2>3, <3>1, <3>2, <3>3
  <2> QED
    BY <2>2, <2>3
<1>4. MarksArePaced'
  <2> SUFFICES ASSUME NEW b \in AgentIds, marksOf'[b] # 0
               PROVE  \E c \in Cooldowns : lastMarkAt'[b] > (marksOf'[b] - 1) * c
    BY DEF MarksArePaced
  <2>1. CASE b # a
    <3>1. marksOf'[b] = marksOf[b] /\ lastMarkAt'[b] = lastMarkAt[b]
      BY <2>1 DEF mark, AbuseMarkTypeOK
    <3> QED
      BY <3>1 DEF MarksArePaced
  <2>2. CASE b = a
    <3>1. /\ marksOf'[a] - 1 = marksOf[a] /\ lastMarkAt'[a] = now
          /\ marksOf[a] \in Nat /\ lastMarkAt[a] \in Nat
      BY DEF mark, AbuseMarkTypeOK
    <3>2. CASE marksOf[a] = 0
      <4>1. lastMarkAt'[a] > (marksOf'[a] - 1) * markCooldown
        BY <1>1, <3>1, <3>2
      <4> QED
        BY <1>1, <2>2, <4>1
    <3>3. CASE marksOf[a] # 0
      <4>1. PICK c \in Cooldowns : lastMarkAt[a] > (marksOf[a] - 1) * c
        BY <3>3 DEF MarksArePaced
      <4>2. (marksOf[a] - 1) * c \in Nat
        BY <1>1, <3>1, <3>3
      <4>3. now >= lastMarkAt[a] + markCooldown
        BY <1>1, <3>1, <4>1, <4>2 DEF mark, CoolingDown
      <4>4. now > marksOf[a] * c \/ now > marksOf[a] * markCooldown
        BY <1>1, <3>1, <3>3, <4>1, <4>3, PaceAdds
      <4> QED
        BY <1>1, <2>2, <3>1, <4>4
    <3> QED
      BY <3>2, <3>3
  <2> QED
    BY <2>1, <2>2
<1> QED
  BY <1>2, <1>3, <1>4

-----------------------------------------------------------------------------
\* The first state.
LEMMA InitInv == Init => Inv
<1> SUFFICES ASSUME Init PROVE Inv
  OBVIOUS
<1>1. TypeOK
  BY BlockTimeAssumption, AbuseMarkAssumption
     DEF Init, ClockInit, AbuseMarkInit, TypeOK, AbuseMarkTypeOK, Times, PCs
<1>2. MarksAreCounted
  <2>1. \A a \in AgentIds : MarkedSpecs(a) = {} /\ marksOf[a] = 0
    BY DEF Init, AbuseMarkInit, MarkedSpecs
  <2> QED
    BY <2>1, FS_EmptySet DEF MarksAreCounted
<1>3. MarksArePaced /\ CooldownsAreMarks
  BY DEF Init, AbuseMarkInit, MarksArePaced, CooldownsAreMarks
<1>4. HasSubject /\ SentByRefusals /\ MinedIsMarkOrBeaten
  BY DEF Init, HasSubject, SentByRefusals, MinedIsMarkOrBeaten
<1>5. MarkedRowsAreMarksOrBeaten
  BY DEF Init, MarkedRowsAreMarksOrBeaten
<1> QED
  BY <1>1, <1>2, <1>3, <1>4, <1>5 DEF Inv

\* A refusal gets its subject; nobody is beaten less for it.
LEMMA RefuseKeeps ==
    ASSUME Inv, NEW r \in Requests, NEW s \in Subjects, Refuse(r, s)
    PROVE  Inv'
<1>1. /\ UNCHANGED <<now, marked, lastMarkAt, marksOf, markCooldown, entriesOf, standingOf,
                     mempool, marksLog>>
      /\ pc[r] = "idle" /\ pc' = [pc EXCEPT ![r] = "refused"]
      /\ subject' = [subject EXCEPT ![r] = s]
  BY DEF Refuse, Goto, abuseMarkVars
<1>2. /\ \A q \in Requests : pc'[q] = IF q = r THEN "refused" ELSE pc[q]
      /\ \A q \in Requests : subject'[q] = IF q = r THEN s ELSE subject[q]
  BY <1>1 DEF Inv, TypeOK
<1>3. subject[r] \notin marked
  BY <1>1, NoSubjectIsNone DEF Inv, TypeOK, AbuseMarkTypeOK, HasSubject, Subjects
<1>4. TypeOK'
  BY <1>1 DEF Inv, TypeOK, AbuseMarkTypeOK, PCs
<1>5. MarksAreCounted' /\ MarksArePaced'
  BY <1>1 DEF Inv, MarksAreCounted, MarkedSpecs, MarksArePaced
<1>6. HasSubject'
  BY <1>1, <1>2 DEF Inv, HasSubject
<1>7. SentByRefusals'
  BY <1>1, <1>2 DEF Inv, TypeOK, SentByRefusals
<1>8. \A a : Beaten(a) => Beaten(a)'
  BY <1>1, <1>2, <1>3 DEF Beaten, AgentOf
<1>9. CooldownsAreMarks'
  BY <1>1, <1>8 DEF Inv, CooldownsAreMarks
<1>10. MinedIsMarkOrBeaten' /\ MarkedRowsAreMarksOrBeaten'
  <2>1. \A q \in Requests : subject[q] \in marked => q # r
    BY <1>3
  <2>2. \A q \in Requests \ {r} : AgentOf(q)' = AgentOf(q)
    BY <1>2 DEF AgentOf
  <2>3. marksLog[r] \notin {"already_marked", "marked"}
    BY <1>1 DEF Inv, HasSubject
  <2>4. MinedIsMarkOrBeaten'
    BY <1>1, <1>2, <1>8, <2>2 DEF Inv, MinedIsMarkOrBeaten
  <2>5. MarkedRowsAreMarksOrBeaten'
    <3> SUFFICES ASSUME NEW q \in Requests
                 PROVE  /\ marksLog[q] = "already_marked" => subject'[q] \in marked
                        /\ marksLog[q] = "marked" =>
                              subject'[q] \in marked \/ Beaten(AgentOf(q))'
      BY <1>1 DEF MarkedRowsAreMarksOrBeaten, Beaten
    <3>1. q # r => /\ marksLog[q] = "already_marked" => subject[q] \in marked
                   /\ marksLog[q] = "marked" => subject[q] \in marked \/ Beaten(AgentOf(q))
      BY DEF Inv, MarkedRowsAreMarksOrBeaten, Beaten
    <3> QED
      BY <1>2, <1>8, <2>2, <2>3, <3>1
  <2> QED
    BY <2>4, <2>5
<1> QED
  BY <1>4, <1>5, <1>6, <1>7, <1>9, <1>10 DEF Inv

\* A step of a request on its way: it may send, and writes no answer it has
\* not learnt from the chain.
Moves(r) ==
    /\ pc[r] # "idle"
    /\ \E to \in PCs \ {"idle", "mined"} : pc' = [pc EXCEPT ![r] = to]
    /\ mempool' \in {mempool, Append(mempool, r)}
    /\ \E o \in MarkOutcomes :
          /\ marksLog' \in {marksLog, [marksLog EXCEPT ![r] = o]}
          /\ o = "already_marked" => subject[r] \in marked
          /\ o = "marked" => pc[r] = "mined"
    /\ UNCHANGED <<now, abuseMarkVars, subject>>

LEMMA MovesKeeps ==
    ASSUME Inv, NEW r \in Requests, Moves(r)
    PROVE  Inv'
<1>1. /\ UNCHANGED <<now, marked, lastMarkAt, marksOf, markCooldown, entriesOf, standingOf,
                     subject>>
      /\ mempool' = mempool \/ mempool' = Append(mempool, r)
  BY DEF Moves, abuseMarkVars
<1>2. PICK to \in PCs \ {"idle", "mined"} : pc' = [pc EXCEPT ![r] = to]
  BY DEF Moves
<1>3. PICK o \in MarkOutcomes :
          /\ marksLog' = marksLog \/ marksLog' = [marksLog EXCEPT ![r] = o]
          /\ o = "already_marked" => subject[r] \in marked
          /\ o = "marked" => pc[r] = "mined"
  BY DEF Moves
<1>4. /\ pc[r] # "idle" /\ \A q \in Requests : pc'[q] = IF q = r THEN to ELSE pc[q]
      /\ \A q \in Requests : marksLog'[q] = marksLog[q] \/ (q = r /\ marksLog'[q] = o)
  BY <1>2, <1>3 DEF Inv, TypeOK, Moves
<1>5. mempool \in Seq(Requests) /\ mempool' \in Seq(Requests)
  <2>1. mempool \in Seq(Requests)
    BY DEF Inv, TypeOK
  <2>2. Append(mempool, r) \in Seq(Requests)
    BY <2>1
  <2> QED
    BY <1>1, <2>1, <2>2
<1>6. TypeOK'
  <2>1. pc' \in [Requests -> PCs]
    BY <1>2 DEF Inv, TypeOK
  <2>2. marksLog' \in [Requests -> MarkOutcomes \cup {"none"}]
    BY <1>3 DEF Inv, TypeOK
  <2> QED
    BY <1>1, <1>5, <2>1, <2>2 DEF Inv, TypeOK, AbuseMarkTypeOK
<1>7. MarksAreCounted' /\ MarksArePaced'
  BY <1>1 DEF Inv, MarksAreCounted, MarkedSpecs, MarksArePaced
<1>8. HasSubject'
  BY <1>1, <1>2, <1>4 DEF Inv, HasSubject
<1>9. SentByRefusals'
  <2>1. \A i \in 1 .. Len(mempool') : mempool'[i] = r \/ (i \in 1 .. Len(mempool)
                                                          /\ mempool'[i] = mempool[i])
    BY <1>1, <1>5
  <2>2. \A i \in 1 .. Len(mempool) : mempool[i] \in Requests
    BY <1>5
  <2> QED
    BY <1>2, <1>4, <2>1, <2>2 DEF Inv, SentByRefusals
<1>10. \A a : Beaten(a) => Beaten(a)'
  BY <1>1 DEF Beaten, AgentOf
<1>11. CooldownsAreMarks'
  BY <1>1, <1>10 DEF Inv, CooldownsAreMarks
<1>12. MinedIsMarkOrBeaten'
  BY <1>1, <1>2, <1>4, <1>10 DEF Inv, MinedIsMarkOrBeaten, AgentOf
<1>13. MarkedRowsAreMarksOrBeaten'
  <2>1. pc[r] = "mined" => subject[r] \in marked \/ Beaten(AgentOf(r))
    BY DEF Inv, MinedIsMarkOrBeaten
  <2>2. \A q \in Requests :
            /\ marksLog'[q] = "already_marked" => subject[q] \in marked
            /\ marksLog'[q] = "marked" => subject[q] \in marked \/ Beaten(AgentOf(q))
    BY <1>3, <1>4, <2>1 DEF Inv, MarkedRowsAreMarksOrBeaten, Beaten
  <2> QED
    BY <1>1, <2>2 DEF MarkedRowsAreMarksOrBeaten, Beaten, AgentOf
<1> QED
  BY <1>6, <1>7, <1>8, <1>9, <1>11, <1>12, <1>13 DEF Inv

\* A block: a mark, or a receipt for a transaction that came too late.
LEMMA ExecuteKeeps ==
    ASSUME Inv, Execute
    PROVE  Inv'
<1> DEFINE r == Head(mempool)
<1>1. /\ UNCHANGED <<now, subject, marksLog>>
      /\ mempool # <<>> /\ mempool' = Tail(mempool)
      /\ pc' = IF pc[r] = "sent" THEN [pc EXCEPT ![r] = "mined"] ELSE pc
      /\ \/ mark(AgentOf(r), SpecOf(r))
         \/ /\ AlreadyMarked(AgentOf(r), SpecOf(r)) \/ CoolingDown(AgentOf(r))
            /\ UNCHANGED abuseMarkVars
  BY DEF Execute
<1>2. /\ Len(mempool) \in Nat \ {0} /\ r = mempool[1] /\ r \in Requests
      /\ \A i \in 1 .. Len(mempool') :
            i + 1 \in 1 .. Len(mempool) /\ mempool'[i] = mempool[i + 1]
      /\ mempool' \in Seq(Requests)
  <2>1. mempool \in Seq(Requests)
    BY DEF Inv, TypeOK
  <2> QED
    BY <1>1, <2>1
<1> HIDE DEF r
<1>3. pc[r] # "idle" /\ subject[r] \in Subjects
  <2>1. 1 \in 1 .. Len(mempool)
    BY <1>2
  <2> QED
    BY <1>2, <2>1 DEF Inv, SentByRefusals, HasSubject
<1>4. /\ AgentOf(r) \in AgentIds /\ SpecOf(r) \in SpecHashes
      /\ subject[r] = <<AgentOf(r), SpecOf(r)>>
  BY <1>3 DEF Subjects, AgentOf, SpecOf
<1>5. \A q \in Requests : pc'[q] = IF q = r /\ pc[r] = "sent" THEN "mined" ELSE pc[q]
  BY <1>1, <1>2 DEF Inv, TypeOK
<1>6. AbuseMarkTypeOK' /\ MarksAreCounted' /\ MarksArePaced'
  <2>1. CASE mark(AgentOf(r), SpecOf(r))
    BY <1>4, <2>1, MarkCounts DEF Inv, TypeOK
  <2>2. CASE UNCHANGED abuseMarkVars
    BY <2>2 DEF abuseMarkVars, Inv, TypeOK, AbuseMarkTypeOK, MarksAreCounted, MarkedSpecs,
                MarksArePaced
  <2> QED
    BY <1>1, <2>1, <2>2
<1>7. TypeOK'
  <2>1. pc' \in [Requests -> PCs]
    BY <1>1, <1>2 DEF Inv, TypeOK, PCs
  <2> QED
    BY <1>1, <1>2, <1>6, <2>1 DEF Inv, TypeOK
<1>8. HasSubject'
  BY <1>1, <1>3, <1>5 DEF Inv, HasSubject
<1>9. SentByRefusals'
  <2>1. \A i \in 1 .. Len(mempool) : mempool[i] \in Requests
    BY DEF Inv, TypeOK
  <2> QED
    BY <1>2, <1>5, <2>1 DEF Inv, SentByRefusals
<1>10. marked \subseteq marked' /\ \A a : Beaten(a) => Beaten(a)'
  BY <1>1 DEF mark, abuseMarkVars, Beaten, AgentOf
<1>11. CooldownsAreMarks'
  <2>1. CASE mark(AgentOf(r), SpecOf(r))
    <3>1. PICK b \in AgentIds : b = AgentOf(r) /\ lastMarkAt' = [lastMarkAt EXCEPT ![b] = now]
      BY <1>4, <2>1 DEF mark
    <3>2. Beaten(b)'
      <4>1. subject'[r] \in marked' /\ subject'[r][1] = b
        BY <1>1, <1>4, <2>1, <3>1 DEF mark, AgentOf
      <4> QED
        BY <1>2, <4>1 DEF Beaten, AgentOf
    <3>3. \A a \in AgentIds \ {b} : lastMarkAt'[a] = lastMarkAt[a]
      BY <3>1 DEF Inv, TypeOK, AbuseMarkTypeOK
    <3> QED
      BY <1>10, <3>2, <3>3 DEF Inv, CooldownsAreMarks
  <2>2. CASE UNCHANGED abuseMarkVars
    BY <1>10, <2>2 DEF abuseMarkVars, Inv, CooldownsAreMarks
  <2> QED
    BY <1>1, <2>1, <2>2
<1>12. MinedIsMarkOrBeaten'
  <2>1. subject[r] \in marked' \/ Beaten(AgentOf(r))
    <3>1. mark(AgentOf(r), SpecOf(r)) => subject[r] \in marked'
      BY <1>4 DEF mark
    <3>2. AlreadyMarked(AgentOf(r), SpecOf(r)) => subject[r] \in marked
      BY <1>4 DEF AlreadyMarked
    <3>3. CoolingDown(AgentOf(r)) => Beaten(AgentOf(r))
      BY <1>4 DEF CoolingDown, Inv, CooldownsAreMarks
    <3> QED
      BY <1>1, <1>10, <3>1, <3>2, <3>3
  <2> QED
    BY <1>1, <1>5, <1>10, <2>1 DEF Inv, MinedIsMarkOrBeaten, AgentOf
<1>13. MarkedRowsAreMarksOrBeaten'
  <2>1. \A q \in Requests :
            /\ marksLog[q] = "already_marked" => subject[q] \in marked'
            /\ marksLog[q] = "marked" => subject[q] \in marked' \/ Beaten(AgentOf(q))'
    BY <1>1, <1>10 DEF Inv, MarkedRowsAreMarksOrBeaten, Beaten, AgentOf
  <2> QED
    BY <1>1, <2>1 DEF MarkedRowsAreMarksOrBeaten, Beaten, AgentOf
<1> QED
  BY <1>6, <1>7, <1>8, <1>9, <1>11, <1>12, <1>13 DEF Inv

\* Time passes, or the owner sets another cooldown.
LEMMA ClockOrOwnerKeeps ==
    ASSUME Inv, Tick \/ Owner
    PROVE  Inv'
<1>1. /\ UNCHANGED <<marked, lastMarkAt, marksOf, entriesOf, standingOf, apiVars>>
      /\ now' \in Times /\ markCooldown' \in Cooldowns
  BY BlockTimeAssumption
     DEF Inv, TypeOK, AbuseMarkTypeOK, Tick, ClockTick, Owner, setMarkCooldown, Times,
         abuseMarkVars, apiVars
<1>2. TypeOK' /\ HasSubject' /\ SentByRefusals'
  BY <1>1 DEF apiVars, Inv, TypeOK, AbuseMarkTypeOK, HasSubject, SentByRefusals
<1>3. MarksAreCounted' /\ MarksArePaced'
  BY <1>1 DEF Inv, MarksAreCounted, MarkedSpecs, MarksArePaced
<1>4. CooldownsAreMarks' /\ MinedIsMarkOrBeaten' /\ MarkedRowsAreMarksOrBeaten'
  BY <1>1 DEF apiVars, Inv, CooldownsAreMarks, MinedIsMarkOrBeaten, Beaten, AgentOf,
              MarkedRowsAreMarksOrBeaten
<1> QED
  BY <1>2, <1>3, <1>4 DEF Inv

\* What the requests' other steps have in common.
LEMMA RequestMoves ==
    ASSUME Inv, NEW r \in Requests,
           \/ ReadMarked(r) \/ Decide(r) \/ Send(r) \/ SendFails(r)
           \/ LogMarked(r) \/ GiveUp(r) \/ Crash(r)
    PROVE  Moves(r)
<1> USE DEF PCs, MarkOutcomes
<1>1. ReadMarked(r) => Moves(r)
  <2> SUFFICES ASSUME ReadMarked(r) PROVE Moves(r)
    OBVIOUS
  <2>1. CASE Answer(r, "refused", "already_marked") /\ subject[r] \in marked
    BY <2>1 DEF ReadMarked, Answer, Goto, Moves
  <2>2. CASE Goto(r, "refused", "reading") /\ UNCHANGED marksLog
    BY <2>2 DEF ReadMarked, Goto, Moves
  <2> QED
    BY <2>1, <2>2 DEF ReadMarked
<1>2. Decide(r) => Moves(r)
  BY DEF Decide, Answer, Goto, Moves
<1>3. Send(r) => Moves(r)
  BY DEF Send, Answer, Goto, Moves
<1>4. SendFails(r) => Moves(r)
  BY DEF SendFails, Answer, Goto, Moves
<1>5. LogMarked(r) => Moves(r)
  BY DEF LogMarked, Answer, Goto, Moves
<1>6. GiveUp(r) => Moves(r)
  BY DEF GiveUp, Answer, Goto, Moves
<1>7. Crash(r) => Moves(r)
  BY DEF Crash, Moves
<1> QED
  BY <1>1, <1>2, <1>3, <1>4, <1>5, <1>6, <1>7

\* One case per kind of step.
LEMMA StepKeepsInv == Inv /\ [Next]_vars => Inv'
<1> SUFFICES ASSUME Inv, [Next]_vars
             PROVE  Inv'
  OBVIOUS
<1>1. ASSUME NEW r \in Requests, NEW s \in Subjects, Refuse(r, s)
      PROVE  Inv'
  BY <1>1, RefuseKeeps
<1>2. ASSUME NEW r \in Requests,
             \/ ReadMarked(r) \/ Decide(r) \/ Send(r) \/ SendFails(r)
             \/ LogMarked(r) \/ GiveUp(r) \/ Crash(r)
      PROVE  Inv'
  BY <1>2, RequestMoves, MovesKeeps
<1>3. CASE Execute
  BY <1>3, ExecuteKeeps
<1>4. CASE Tick \/ Owner
  BY <1>4, ClockOrOwnerKeeps
<1>5. ASSUME UNCHANGED <<now, abuseMarkVars, pc, subject, mempool, marksLog>>
      PROVE  Inv'
  <2>1. TypeOK' /\ HasSubject' /\ SentByRefusals'
    BY <1>5 DEF abuseMarkVars, Inv, TypeOK, AbuseMarkTypeOK, HasSubject, SentByRefusals
  <2>2. MarksAreCounted' /\ MarksArePaced'
    BY <1>5 DEF abuseMarkVars, Inv, MarksAreCounted, MarkedSpecs, MarksArePaced
  <2>3. CooldownsAreMarks' /\ MinedIsMarkOrBeaten' /\ MarkedRowsAreMarksOrBeaten'
    BY <1>5 DEF abuseMarkVars, Inv, CooldownsAreMarks, MinedIsMarkOrBeaten, Beaten,
                AgentOf, MarkedRowsAreMarksOrBeaten
  <2> QED
    BY <2>1, <2>2, <2>3 DEF Inv
<1>6. ASSUME NEW r \in Requests, NEW field \in DOMAIN Unseen, Read(r, field)
      PROVE  Inv'
  BY <1>5, <1>6 DEF Read
<1>7. CASE UNCHANGED vars
  BY <1>5, <1>7 DEF vars, apiVars
<1> QED
  BY <1>1, <1>2, <1>3, <1>4, <1>6, <1>7 DEF Next

\* The inductive invariant holds in every behaviour.
THEOREM MarksInvariant == Spec => []Inv
<1> QED
  BY InitInv, StepKeepsInv, PTL DEF Spec

\* AbuseMark.sol's counter is the number of distinct refused specs, however
\* often the API retries one.
THEOREM OneMarkPerSpec == Spec => []MarksAreDistinct
<1>1. Inv => MarksAreDistinct
  BY DEF Inv, MarksAreCounted, MarkedSpecs, MarksAreDistinct
<1> QED
  BY <1>1, MarksInvariant, PTL

\* An agent with k marks took k - 1 cooldowns to collect them, whatever the
\* owner set in between.
THEOREM MarksTakeTime == Spec => []MarksArePaced
<1>1. Inv => MarksArePaced
  BY DEF Inv
<1> QED
  BY <1>1, MarksInvariant, PTL

\* A refusal the API answered as marked is a mark on chain, or another refusal
\* of that agent was marked before it.
THEOREM AnswersAreMarksOrBeaten == Spec => []MarkedRowsAreMarksOrBeaten
<1>1. Inv => MarkedRowsAreMarksOrBeaten
  BY DEF Inv
<1> QED
  BY <1>1, MarksInvariant, PTL
=============================================================================
