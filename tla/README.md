# Legwork in TLA+

Legwork lets software agents pay people for small real-world tasks. An agent
pays through x402, the API posts the task to an escrow contract on Base, a
World-ID-verified worker claims it in a mini app, hands in a proof and is paid
when the buyer approves, when the dispute window closes or when the operator
arbitrates. This directory holds the specifications kept beside that code: what
is modelled, what TLC checks, what TLAPS proves, and what is left. Paths are
relative to the repository.

## 1. Inventory

| part | code | state | operations |
|---|---|---|---|
| TaskEscrow | `contracts/src/TaskEscrow.sol` | task structs, `taskCount`, `openTasksOf`, `activeClaimOf`, `cooldownUntil`, allowlist, pause, USDC held | post, claim, releaseClaim, submit, approve, dispute, autoRelease, resolve, expire, pause |
| WorkerRegistry | `contracts/src/WorkerRegistry.sol` | `records` (address to human), `workerOf` (human to address), spent attestations | registerFor, seedWorker, resetWorker |
| Reputation | `contracts/src/Reputation.sol` | per human: score, completed, distinct raters, one slot per rater | feedback |
| AbuseMark | `contracts/src/AbuseMark.sol` | marked (agent, spec) pairs, last mark, cooldown; entries in the external ERC-8004 registry | mark, outcome, setMarkCooldown |
| Chain adapter | `packages/chain` | next nonce per key, behind a lock; the mempool | send, wait for a receipt, decode |
| Chain in memory | `packages/chain/src/fake.ts` | the contracts' state in maps, an event log | every write of the adapter, `warp` |
| Payments | `packages/payments` | `idempotency` table; authorizations settled at the facilitator | verify, reserve, complete, release, settle |
| Hire | `apps/api/src/services/hire.ts`, `caps.ts` | `tasks` rows, `caps_ledger` | `POST /tasks` |
| Marking | `apps/api/src/services/abuseMark.ts` | `marks_log` | mark a refusal |
| Lifecycle mirror | `lifecycle.ts`, `statusBus.ts`, `reconcile.ts`, `sweeper.ts` | the state columns of `tasks`, the status bus | follow the chain, sweep what is due |
| Worker routes | `apps/api/app/tasks`, `app/proofs`, `proofChecks.ts` | proofs, observations | claim, submit, approve, dispute |
| Withdraw | `withdraw.ts` | `withdrawals` rows | relay a signed payout and its fee |
| Registration, sessions | `app/register`, `app/session`, `app/idkit`, `app/admin/reset-worker` | `nullifiers` rows, cookies | verify, attest and bind, sign in, reset |
| Subgraph | `subgraph/src` | indexed entities | one handler per event |
| Screening, MCP, shared, UIs, scripts | `packages/screening`, `packages/mcp`, `apps/dashboard`, `apps/miniapp`, `scripts` | none the protocol depends on | |

How they interact. The escrow calls the registry (is this address a worker,
which human is behind it), and on settlement Reputation and AbuseMark, all in
one transaction. The API holds two keys: the relayer, which posts, claims and
submits for others, and the signer, which marks. Both go through the transaction
queue of the chain adapter: a call is estimated, sent, mined some time later
and answered by a receipt, or by a timeout. The API runs as serverless
invocations that share only Postgres and the chain and may die at any await.

What is hard. In the contracts: two indexes kept by hand in many places, windows
compared at their boundary instants, several ways to retire one claim, money of
all tasks in one pool. In the API: check-then-act over stores no transaction
spans, retries of what has already happened, late receipts taken for failures,
receipts taken for success. `PROJECT.json` lists each hazard at its line.

What makes each part correct:

* escrow: exact solvency, every task settles whatever the owner's pause does, a
  worker is on one task and a buyer under its cap, one party may move at each
  instant, records move with settlements only;
* registry: one human, one worker; nobody without an attestation or the owner;
* records: one rater is one voice; a refused spec is one mark;
* hire: no charge without a task, no bought task forgotten, the float's losses
  flagged, one authorization one task;
* mirror: a final row says how the escrow settled, and every row gets there,
  whatever stale reads are written meanwhile;
* queue: a hash that was answered stays in the mempool or the chain; no gap in
  the nonces of a key;
* withdraw: no fee without its payout, rows and answers say what the token did;
* registration: the table names what the registry bound, and a session names
  a human the API registered or a seeded worker, even while the operator
  resets rows;
* index: the rows say what the contracts say;
* chain in memory: what a test does on it, the contracts would have done, or it
  is a call only the fake takes.

## 2. Modules

```
Outcomes   BlockTime
   |   \    /    \  \
Reputation  AbuseMark  WorkerRegistry   Mirror     TxQueue    Hire
     \       |   \        /      \                    |         |
      TaskEscrow  Marks  /     Register              Withdraw MCHire
      |  |  |  INSTANCE /         |                     |
      |  |  EscrowPromise     MCRegister            MCWithdraw
      |  Subgraph   MCMarks
   MCTaskEscrow
      MCSubgraph (Subgraph, MCTaskEscrow)

RegistryProofs - TaskEscrowProofs (with Subgraph and EscrowPromise)
       \
      RegisterProofs     HireProofs  MarksProofs  MirrorProofs  WithdrawProofs
                         FakeChainProofs

TaskEscrow - EscrowReverts - INSTANCE FakeChain - MCFakeChain
```

**TaskEscrow** models the contract with the three it calls. One action is one
transaction; a transaction that would revert is not enabled. Calls that differ
only in who sends them (`claim` and `claimFor`) are one action, since they end
in the same internal function. The `Task` struct is split into `terms`, which
`_post` fixes for good, and the four fields that change. `verdict` records the
outcome code the task's Feedback event carried. `Close` is the bookkeeping the
three settlement functions share: state, slot, count. Money is moved by
`PayOut`, under the balance check USDC makes. Each of the code's six time
comparisons is an operator of its own, because each is written on its own in
the code and may differ by one.

**WorkerRegistry**, **Reputation**, **AbuseMark** are the contracts' own state and
operations; TaskEscrow extends them and composes their actions with what each
leaves unchanged. Attestations are the set the verifier has signed. The
ERC-8004 registry is external: how many entries an agent has and their sum.

**EscrowPromise** is the abstract specification: what a buyer and a worker are
told. It has no clock, no counters and no money; it decides by looking at every
task. TaskEscrow decides by two counters and timestamps. `KeepsPromise` says
the second implements the first under the mapping `StageOf`, `HolderOf`.

**Marks** puts the API's requests in front of AbuseMark: read `marked`; read the
last mark, the cooldown and the clock in any order (they are one `Promise.all`);
decide; estimate and send; execution in a later block; then the log. Any step
may be the last one of its invocation, and a timed-out transaction stays sent.

**Hire** is `POST /tasks` from the verified payment to the answer. Its actions
are the stretches of code between two awaits. The insert of the reservation and
the read that follows a conflict are two steps, as they are two statements.
`Throws` ends an invocation anywhere, undoing nothing, for a crash and for an
exception outside the one `try` block alike. The escrow is reduced to what a
post sees of it: the count of a buyer's open tasks.

**Mirror** keeps one task twice: the fields of the escrow's record that the API
copies, and the row. Requests run in slots. A request asks (claim and submit
the chain, the others the row), sends, and then either reads the chain back and
writes what it read (`ReadBack`, `MirrorBack`: the workers' routes and sweeps)
or writes the state its call stands for (`Transition`: approve, dispute, refund,
resolve). Each read of the chain and each write of the row is a step of its
own, so that reads go stale. `sweep`, `POST /admin/sweep` and a status read are
one request, `Sweeping`: read, mirror, settle what is due. `Ends` cuts a
request off at any step; a transaction it had sent is from then on covered by
`Outside`, the calls that workers, buyers, the owner and anyone may make without
the API. The two routes that compare with the server's clock use one at most a
unit ahead of the chain's. A row's `postedAt` is the API's clock after the post,
later than the escrow's. `mistaken` is history: a route wrote a settlement on
the strength of a reverted receipt.

**TxQueue** is `TxQueue.send` and `sendAndWait` of several invocations that share a
key, with the Postgres lock they share: lock, stored or pending nonce, estimate,
broadcast, commit, receipt. The node's answer to a broadcast follows from the
mempool and the chain: a used nonce, a rival that pays as much, or acceptance.
The commit of the new nonce and the broadcast are two steps, since the database
can roll back what the node cannot: `SendFails` and `Crash` in between leave a
nonce that is stored too low. Which calls there are and what a second execution
does (it reverts) is left to the module that extends it.

**Withdraw** is `POST /me/withdraw` over that queue. A pair is what the phone signed;
its two legs are the queue's calls. The handler's places are the awaits between
reservation, payout, fee, row and answer.

**Register** composes `POST /idkit/verify`, `/register`, `/session` and
`/admin/reset-worker` with WorkerRegistry. The relayer's transactions are mined
in order and may revert; `Returns` takes any receipt, as the route does. A
session is a pair of address and nullifier, kept for ever. Sign-in has a step
for each await that decides: `isWorker`, the table's row, and if there is none
`isSeeded` and `nullifierOf`; then the insert. A block may come between any two,
with a registration or a reset in it. The operator resets any nullifier, a
seeded one too. Nonces and cookies are left out, so a proof stands for any
request a verified human sends.

**Subgraph** runs the handlers of `subgraph/src` in the transaction whose events they
handle, in the order of the log: graph-node is deterministic, so nothing
happens in between. What the handlers read of the contract (is the rater new?)
comes from TaskEscrow's state. A settlement's three events are one `Settled`.

**FakeChain** is the chain in memory that the API's tests and the demo run against:
one action per write, as the method's body is synchronous, on records and partial
functions as the code has maps. Each method's checks are an operator of their
own, `...Refusal`, whose value is the name the call is refused with; its action
is enabled when there is none. What a test may call it with includes address 0,
nullifier 0, buyer 0, windows of any length and attestations with any bytes, as
the methods ask nothing of them. **EscrowReverts** gives the same names for the
contracts, from the order of their checks, with those the fake has not.
FakeChain instantiates it under a mapping that reads the contracts' state off
the maps at every key that is not 0, the spent messages off the spent bytes, and
the agents' ERC-8004 record off the log.

`MC*` modules hold TLC's instances; Mirror's constants are plain enough for a
`.cfg`. Definitions commented "Mutant" next to an
operator are the same operator with a plausible bug; no specification uses
them, they record which bug each property is there to catch.

## 3. What TLC checks

| run | question | result |
|---|---|---|
| escrow_safety | types, indexes, money, boundary instants, refinement | holds |
| escrow_liveness | every task settles | holds |
| index | registry, both records and the subgraph, with resets, seeding and marks | holds |
| marks | marks are distinct, paced and logged as they were, under races, crashes and timeouts | holds |
| hire | charges, rows, ledger and float agree under races and crashes | holds |
| mirror | rows are true when final, and task and row settle together | holds |
| withdraw | one key, two legs: no fee alone, true rows, no lost hash, no nonce gap | holds |
| register | table, registry and sessions agree under races, resets and crashes | holds |
| fake | the chain in memory does what the contracts do, and refuses as they do | holds |
| escrow_reset | outcomes stay with their human (`TaskEscrow.sol:353`) | violated |
| mirror_booked | a row never claims a settlement that did not happen (`statusBus.ts:188`) | violated |
| withdraw_moved | a withdrawal answered 503 has moved nothing (`withdraw.ts:347`) | violated |

The violated runs each state what a comment of the code says:

* `resetWorker` does not ask whether the human has a task in the escrow, and
  `_writeOutcome` looks the human up at settlement: the outcome goes to
  nullifier 0.
* A refund's `expire` passes its estimate and reverts in its block, because a
  worker's claim was mined first. Its receipt has a hash, so the route writes
  `refunded`; final rows are never mirrored again. `mirror` shows that this is
  the only way a final row can be wrong: both its properties are about runs in
  which no route was mistaken.
* A payout whose send was broadcast but lost its answer, as in the shortest trace,
  or whose receipt is late, is answered 503, its reservation deleted, and is
  mined afterwards.

Five of the passing runs are about comments that hold only up to a condition,
and their properties carry the condition:

* marks: two refusals of one agent that pass the estimate together are both
  sent; the second reverts, nobody reads the receipt's status, and it is logged
  as a mark. `MarkedRowsAreMarksOrBeaten` says that this is the one way a
  `marked` row is untrue (compare `abuseMark.ts:20`).
* hire: a post that times out is answered 503 and its reservation released, but
  its transaction is still sent: the retry buys a second task, paid by the float.
  `SecondTaskNeedsARelease` says that without such a release one authorization
  does buy one task (compare `hire.ts:40`).
* fake: `fake.ts:70` promises "the same rules and the same revert names". It is not
  so of the calls the fake takes and the contracts revert, which
  `DoesWhatContractsDo` names one by one:
  - a post for buyer 0 (`TaskEscrow.sol:108`), or with windows out of range
    (109-114);
  - a registration of address 0 or nullifier 0 (`WorkerRegistry.sol:86-87`), one
    the verifier never signed (101: any bytes do for the fake), and a spent
    message under other bytes (98: the fake's digest covers the bytes);
  - a seeding of address 0 or nullifier 0, or over a binding (119-122);
  - a reset of nullifier 0, once it is bound (132);
  - and what these make possible: a claim by worker 0, and any write of a task of
    buyer 0 or held by worker 0.

  Every other step, also after those, is a step of the contracts. What the fake
  refuses the contracts refuse too, in the worlds both can be in, but where two
  checks fail at once the order differs in four methods (`registerFor` asks for
  the binding before the attestation, `postFrom` for the task type last,
  `postAsBuyer` for the sender before the pause, `claimBy` for the task before a
  seeded worker's allowlist), so a test may meet a name the chain would not give.
  `RefusesByTheSameName` states the names with these exceptions. Left out, as it
  changes no state: `pause` of a paused escrow reverts on chain and not here. Out
  of the model in both: USDC's allowance, mark classes.
* register: a registration that loses its block to a rival returns a hash and
  binds its row all the same (compare `worldId.ts:34`, "a revert leaves no phantom
  binding"): `BoundOrBeaten`. And one that is mined after its request gave up
  leaves a human the registry knows and the table does not, who can neither
  register nor sign in: `LockedOutOnlyByLoss` lists what it takes. And "a
  registered human without a row is still refused" (`session/route.ts:56`) fails
  in a race: `isSeeded` answers for a seeded address, the operator resets the
  seeded row, a human's registration of that address is mined, its own request
  not yet at the row, and `nullifierOf` names that human in a session. Without
  the registration the session is minted for nullifier 0, the string "0" being
  no missing nullifier to the check in line 103. `Raced` is that case exactly,
  and `SessionsHaveRows` holds in every other; without it TLC shows the race in
  14 states.
* index: after a reset and a second registration the row's totals start over but
  its Feedback rows do not, so the next repeat of a rater is adjusted by an
  outcome the score no longer contains. `RecordsAgree` is about workers who were
  never reset.

### Bounds

* `MaxTime` (5, 3 in index): block time in units of the smallest
  window. Windows are 1 and 2 long, so a claim, a displacement, a submission
  and its dispute window fit, and both orders of `claimTTL` and `submitTTL`
  occur.
* `LastEntry`: no post or claim after this time, so that what was entered can
  run to its end within `MaxTime`. In escrow_liveness this also means that a
  task cannot be claimed and handed back for ever: the code has no bound on
  that, and a worker who claims and releases an expired listing often enough
  does keep `expire` from being called. The property is claimed for a world in
  which that stops.
* `MaxTasks` 2: two tasks are enough for a worker wanting two claims, a buyer
  at its cap, and one task being paid with another's money. The cap is 1, so it
  is reached.
* Amount 7 and a fee of 15 % rounding down to 1: rate, fee and total differ.
  The relayer's float covers two tasks, so a post can fail for lack of funds.
* index trades windows (all 1) for two humans, two addresses, a seeded
  row, resets, re-registration and marks.
* marks: three requests, one agent, two specs, two cooldowns, symmetric
  requests. hire: three requests over two authorizations of one payer, both
  symmetric, caps of 2; three requests are what it takes for a stray release to
  meet another request's completed reservation.

* mirror: one worker (a second only adds displacement, which leaves the same
  fields), two slots of which one only sweeps, windows of 1, claims until 3,
  time until 5: a claim of an expired listing, at the last moment, its expiry
  and the settlement fit, so a sweep's `expire` can lose to that claim. Two slots are enough for a write that was
  read before the other slot's settlement. It stops when task and row are final
  and no request is running, hence no deadlock check.

* withdraw: three requests over two pairs, so that two share a pair while the
  third competes for the key; two attempts per call and two fee levels, so that
  a replacement is refused or accepted. Inside the lock the pending count is
  exact, so a second attempt always gets through, and the branch that gives up
  after the last one is never taken by this run: the shared key is what the
  code relies on for that.
* register: three requests, two humans, two addresses and a seeded row on one of
  them, time until 2 with attestations good for the unit they are signed in, so
  one can expire on its way. Two requests make a race, the third a reset or a
  sign-in in between. Every row can be reset, the seeded one too, so that the
  race of sign-in, reset and registration fits; 611,629 states.

* fake: one human registers, signed, signed again, forged and with no bytes, and the
  owner seeds a second address over them; one attestation and one seeding each
  name address 0 and nullifier 0. One buyer and buyer 0; the relayer's float
  covers one task, so the second is posted from a refund. `Focus`, a state
  constraint, keeps apart what shares nothing: marks are made before tasks and
  people (only the log is common); two attestations are spent at most; one odd
  row or task, of 0 or out of range, exists at a time; the allowlist is used while
  somebody is seeded, the pause while nothing is odd or allowlisted; the second
  task lives in the first two of three seconds. Windows of 0, below the contracts'
  minimum of 1, let a claim go stale and a cooldown pass within three seconds.
  46,025 states. The proof has none of these bounds.

### Fairness

escrow_liveness assumes that blocks keep coming; that an `expire` or
`autoRelease` that stays possible is sent (anyone may send it, and the API's
sweeper does for every due row); and that the owner arbitrates a dispute. No
buyer, worker or unpause is assumed.

mirror assumes that blocks keep coming and that the owner arbitrates; and of the
API that a sweep is asked for again and again (weak fairness of the sweeping
slot's `Request`: every list request asks for one, `sweepIfDue`) and that sweeps
are not cut off at the same await every time (strong fairness of `Pull`,
`Patch`, `Send` and `Execute` of that slot: a single invocation may die
anywhere). From this it derives, for the API's own sweeps, what
escrow_liveness assumes: what is due is sent. Nothing is assumed of the other slot.

Safety runs assume nothing. Runs that stop
by their bounds (every request answered) switch the deadlock check off.

## 4. What is proved

For every instance of the constants that satisfies the named assumptions, so for
any number of workers, tasks, requests, humans and authorizations, any windows,
fees and caps. The assumptions are each module's own (`...Assumption`; TLC
evaluates them in each run): kinds of values are disjoint, amounts and times are
naturals, sets that are counted are finite, a seeded row is the deployment's.
Nothing is assumed of which rows are reset, nor of what the fake is called with.
One says more: Register's attestations include every one the API may sign,
since the route signs for whoever it verified and whatever address is asked.

| module | theorems (`Spec => []...` unless said) |
|---|---|
| TaskEscrowProofs | `TypeOK`, `ClaimsAgree`, `OpenTasksCounted`, `Solvent`, `PaidAsPromised`, `OneHumanOneWorker`, `AttestedOrSeeded`, `OneRaterOneVoice`, `BothRecordsMove`; `Spec => KeepsPromise`, the refinement of the promise; for the composed system with the index (`IndexedSpec => []...`), `IndexTypeOK`, `BoardAgrees`, `RecordsAgree` |
| FakeChainProofs | `RefusesByTheSameName`; `Spec => DoesWhatContractsDo`, the refinement of TaskEscrow |
| HireProofs | `ChargedHasTask`, `CompletedHasRow`, `ReservationsAreHeld`, `FloatIsAccountedFor`, `SpendIsRecorded`, `SecondTaskNeedsARelease`; `ChargesAreKept`, an action property |
| MarksProofs | `MarksAreDistinct`, `MarksArePaced`, `MarkedRowsAreMarksOrBeaten` |
| MirrorProofs | `TypeOK`, `FinalRowsAreTrue` |
| WithdrawProofs | `TypeOK`, `FeeOnlyAfterPayout`, `RowIsTrue`, `HashIsKept`, `NoGap`, `OneDriver` |
| RegisterProofs | `TypeOK`, `BoundOrBeaten`, `LockedOutOnlyByLoss`, `SessionsAreOfWorkers`, `SessionsHaveRows` |
| RegistryProofs | what each registry operation preserves, for TaskEscrowProofs and RegisterProofs, whose systems both contain it |

Each module states one inductive invariant `Inv`, proves it, and draws the
properties from it. What the invariants add to the properties, and why they must:

**TaskEscrowProofs.** The time bound and four parts. `RegistryInv` adds to the
one-to-one binding that an unbound address is blank, without which a second
registration could meet leftovers. `TableInv` adds to `ClaimsAgree` that ids
above `taskCount` are unused, that a held task has a worker and an open one
none: `expire` frees the slot of `t.worker` on the strength of that. `MoneyInv`
is solvency and the counts, where a sum over tasks is the cardinality of a set
of `<<task, unit>>` pairs, so that closing a task removes exactly its own units.
`RecordsInv` needs that whoever settles is a key of the record. Solvency and the
cap need each other's neighbours: a settlement is only enabled when the escrow
affords it, and `OpenTasksCounted` gives that the count it decrements is
positive. There is one lemma per transaction and part of the invariant; the four
ways to end a task are proved once, from what they share (`SettleShape`).

What the settlements added up to (`PaidInv`, `RecordedInv`) is a second layer on
top of `Inv`. It rests on one fact: a verdict is given with the settlement and a
settled task is never touched again (`VerdictsAreFinal`, `NoVerdict`). So a
settlement adds its task's units to what the worker earned, and one task to what
was judged, disjoint from all that was there. `SettlesAs` ties the outcome that
is filed to the accounts that are paid.

**The promise** (in TaskEscrowProofs). Each action maps to one action of the
promise or to a stutter; claiming uses `ClaimsAgree` to conclude from the index that the worker is on no
task, posting uses `OpenTasksCounted` to conclude from the counter that the
buyer is under the cap.

**The index** (in TaskEscrowProofs). A step of the composed system is a step of the
escrow, so `Inv` is there for free (`IndexedInvariance`); `IndexInv` adds
`IndexTypeOK`, `BoardAgrees`, the agents' half of `RecordsAgree`, and `PeopleInv`
for the workers' half. The board follows from which events a transaction emits.
The workers' rows are counted by address and the contract's record by human, so
what has to be carried along is who ever was whom: a binding leaves its
attestation or its seeding behind (`BindingsLeaveTraces`); an address that was
never bound has a blank row and is on no task (`NewAddressesAreBlank`), a human
never bound a blank record (`NewHumansAreBlank`), so a first binding joins two blanks; and from then on each
outcome moves both by the same amount (`RowsAgree`), the slot of the rater
being the index's as it is the contract's. The proof found the condition of
`RecordsAgree` to be too weak for some constants: it did not look at a seeding of
the same human under another address, which the small instance has none of.
`FirstTime` now says that the binding that holds
is the only one that concerned either.

**FakeChainProofs.** The code's maps are records and partial functions, so the
mapping reads `state`, `worker`, `verdict` and the rest off them row by row. A step
of the fake rewrites one row; `Rewrites` says what that does to every mapped
variable, and each write of the fake is then one action of TaskEscrow with the
same guard. What needs an invariant is what the contracts keep and the fake
recomputes or does not check. `FakeInv`: nobody is on a listed task (`Staged`);
the count of open tasks, which `closeTask` floors at zero, is that of
the live rows, so that it is never floored (`Counted`); the escrow account covers the live rows to
the unit (`Funded`), so the fake's unguarded `debit` never goes below zero where
USDC would revert; and the log has one Feedback per closed task (`JudgedOnce`)
and one Marked per agent and spec (`MarkedOnce`). The last two make the mapped
`verdict` and the agents' entries well defined: they are read off the log, as the
one outcome and as cardinalities, which grow by one because what is added is not
there yet. All this also holds of rows, tasks and purses of 0, which the mapping
does not read (`SlotCleared`: clearing the slot of 0 changes none of theirs), and a
task that is somebody's (`Somebodys`) has a buyer and a holder whom the contracts
know. An attestation is spent with its bytes here and as a message there;
`SpentAlike` joins the two for those the verifier signed. `RefusesByTheSameName`
follows from the types and `Staged`: method by method, the first check that fails
is the contracts' first.

**HireProofs.** A task belongs to the one request that posted it, and what is
stored under the task carries its owner's nonce (`OwnTask`, `BoughtTask`). The
insert into `idempotency` is a lock only until a request gives it back:
`OneBuyer` says that up to then at most one request of a nonce is past it, and
that as long as nothing is reserved nobody has met a reservation. The
ledger's upper bound needs to know which tasks it can have counted already
(`LedgerBetween`).

**MarksProofs.** The pace is an induction on marks: each waits out the cooldown
in force, and of two cooldowns the slower one bounds the sum (`PaceAdds`), so no
history of cooldowns is needed. That an answer `marked` is a mark or was beaten
needs that a running cooldown was started by some request's mark
(`CooldownsAreMarks`).

**MirrorProofs.** The property is strengthened by what is about to be written: a
final state a request has read from the chain is the chain's (`Mirrors`), and so
is the one a receipt that did not revert stands for (`Receipts`). Both survive
other transactions because the escrow takes none on a settled task
(`SettledIsOver`), which is the one fact of the contract the proof needs.

**WithdrawProofs.** First the queue on its own (`QueueInv`): who is between the
lock and the commit holds the lock, and the stored nonce lies above every nonce
whose hash was answered, at or below the holder's, and leaves no hole
(`NonceOrder`). A rollback may set it too low, but never below an answered hash,
which is why a retry can only replace a transaction nobody was told of. On that
rests that a hash stays its transaction, hence that a receipt speaks of the
request's own leg, hence that the fee follows its payout. `OneDriver` needs that
whoever drives a pair has its row (`DriversHaveRows`).

**RegisterProofs.** What is known of a request that went to the registry is said
wherever its transaction is: on its way, in a block, or with its answer given up
(`OnTheirWay`, `MinedTold`). A mined registration bound its human, or one of the
three things that can beat it is on record, and none of the three is ever taken
back; so the row that is written awaits later may rely on it. A row that names
an address was written by a request that says so (`RowsRegistered`), which is
what sign-in's read of the table relies on. Sign-in carries from await to await
what it may name (`ReqTold`): an address that was seeded when `isSeeded` answered
is seeded still, under the nullifier of its seeding, or a reset request for it is
on record; then `nullifierOf` answers 0 or a human whose attestation is spent.

Only model-checked: `EveryTaskSettles` and `RowsSettle` (liveness under
fairness) and `ExactlyOneMove` (it speaks of ENABLED), which the prover does not
handle. Every other property of a passing run is a theorem.
Induction over data is outside the prover's reach, so sums are stated as
cardinalities of sets of units, which grow by one disjoint set at a time.

## 5. Not modelled

Task type, spec and proof hashes, areas: payload, nothing on chain branches on
them after the post. Signatures and access control: each action is taken by
whoever may. Deployment wiring (`setEscrow`, `setSigner`, `setRelayer`,
`setAttestationVerifier`, `registerIdentity`, ownership). A reverting ERC-8004
registry, which would take a settlement down with it, is listed as a hazard.
Screening is a choice of verdicts. User interfaces, scripts and vendored
contracts keep no protocol state. That `expire` sets no cooldown, as a displacement
does, is meant (`fake.ts:312`) and part of the model.

## 6. Plan

1. *Mirror*, what it leaves out: the long poll and its ETag, answer and note
   written after the state, hash columns, the proof-reuse lookup.
2. *Hire*: how far concurrent requests may overshoot the daily cap.
3. *Register*, what it leaves out: sign-in nonces, the selfie check that a claim
   reads before and spends after, logout.
