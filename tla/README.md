# Polyth: a verification development

Polyth runs coding agents ("harnesses": Claude Code, Codex, OpenCode, Pi and
others) behind one session model. A session outlives the agent process that
executes it, the server that supervises the process and the client that shows
it. Its hard promise is that nothing a user asked for happens twice, happens
unseen, or is lost, although the process that carries a request to an agent may
die at any step and the agent may act on a request nobody waits for any more.

This directory holds TLA+ modules for the code behind that promise, TLC
configurations that check them on small instances, and proofs, checked by
TLAPS, that the safety properties hold for any number of operations, messages,
requests, repliers, attempts, artifacts, watches, stops, processes and events.
Line numbers without a file name
mean `src/packages/session/src/index.ts`; `sessions.ts` is
`src/packages/server/src/sessions.ts`.

## 1. The system

| Component | State it keeps | Operations | Modelled in |
|---|---|---|---|
| Runtime operation journal (`session/src/index.ts`) | table `runtime_operations` | prepare, claim, replay, settle, recover at open | `OperationRules`, `SessionStore` |
| Delivery queue (same file) | table `session_queue` | enqueue, edit, remove, reorder, reserve, confirm, release, hold | `SessionStore`, `MessageDelivery` |
| Runtime epochs and restart recovery (same file) | `runtimeBinding` of the projection, epoch and restart markers in the event log | fenced and unfenced transition, restart recovery | `SessionStore` |
| Send admission gate (`server/src/operationAdmission.ts`) | none, it reads operations | which operations still gate a session | operators of `SessionStore` |
| Durable mutation helper (`session/src/index.ts` 595-735, `server/src/oneshot.ts`, `multirun/src/runner.ts`) | a promise chain per key, beside the journal | one background mutation: read, prepare, claim, call, settle | `DurableMutation`, `AtMostOnceCall` |
| Attention responses (`session/src/index.ts`, `sessions.ts`) | table `response_intents`, request events, cards in the parent's log | ask, reply, dismiss, expire, confirm | `RequestResponses`, `OneAnswer` (partly) |
| Observations and reconciliation (3665-4096, `sessions.ts` 2931-3371 and 5887-6257, `backend-opencode/src`) | observations, checkpoints, reconciliation records; the adapter's translation state | receive, ingest, reconcile, retry | `Observations` (partly) |
| Deletion tombstones | tombstone rows | create, retry, complete | planned |
| Session watches (`server/src/sessionWatches.ts`) | watch rows with a cursor and a pending operation id | create, remove, drain, observe, wake | `SessionWatches` |
| Session service (`sessions.ts`) | in-memory locks, caches | about 15 000 lines of orchestration | through the stores' operations; replies in `RequestResponses`, the flight of a reconciliation in `Observations`, the admission of a message in `SessionWatches` |
| Harness runtime authority (`harness-runtime/src/authority.ts`) | process ledger, release receipts | admit, release | external action `BackendReleased`; planned |
| Harness backends (`backend-*/src`) | the agent's own sessions | protocol adapters | external actions `RuntimeActs`, `Cancel` |
| Control plane (`control-plane/src`, `server/src/authorityOutbox.ts`) | accounts, Spaces, outbox of audit events | append, deliver, retry, the worker | `Outbox`, `OrderedStream` (partly: the outbox) |
| Agents / planner, goals | scheduled runs, loops over turns | run, settle | candidates |
| Package host, plugins | registry, invocation leases | activate, lease | candidate |
| Clients and relay | user interface, transport | - | not modelled |

### How the parts interact

- **Calls.** A client request becomes a prepared row; an *executor* inside the
  server claims it, calls the backend once and settles the row from the answer.
  Nothing else reaches a backend.
- **Shared state.** All durable state of a session is in SQLite tables and an
  event log. A store method is one transaction, and so one action. Executors
  share nothing but the rows, apart from in-memory session locks and promise
  chains that vanish with the process.
- **Messages.** What crosses to the agent process can be late: a call whose
  caller gave up may still be applied.
- **Replacement.** A session's backend session may be replaced (a reset). With
  *proof* that the old execution is gone the old work is *fenced*; without it
  the old work stays uncertain.
- **Callbacks.** An agent asks permission requests and questions; policy, the
  user at the session and the user at the parent's card may answer the same one.
- **Two channels.** What an agent does reaches the log live, over an event
  stream that loses what it loses, and in the snapshots a reconciliation pulls.
  Both are recorded under the session's lock, in the order they took it.
- **Session to session.** A stop of one session, when it is announced, starts the
  drains of the watches on it; a drain reports into another session's log or sends it a message.
- **Workers.** The outbox is drained by one timer per server process; two
  processes share the database and nothing else.

### What is hard, and what makes the parts correct

| Behaviour | What must hold |
|---|---|
| the process dies between claim and settlement | no second call, and a row somebody can still settle (`CalledAtMostOnce`, `ExecutingHasExecutor`) |
| a call times out and is applied later | no settled row is wrong (`OutcomeIsTrue`) and no message is sent again unasked (`NoSilentResend`) |
| an epoch is replaced under work in flight | nothing old is claimed onto the new runtime (`NoStaleClaim`), what was cut comes back (`FencedTurnComesBack`), and no message is lost on the way (`DeliveryKeepsPromise`) |
| the queue's head is reserved while users edit and reorder | what is sent is the head and positions stay distinct (`ReservedIsHead`), no reservation is dead (`ReservationIsLive`) |
| attempts at one background task run together, or after crashes | one operation, one call, true answers (`OneOperationPerKind`, `CreateKeepsPromise`, `TurnKeepsPromise`), and an end (`EveryAttemptEnds`) |
| several repliers answer one request under different locks | one reply may take effect (`OneLiveReply`), the log says what the agent was told (`RepliesKeepPromise`), a request is neither closed nor stuck wrongly (`MissingHeardNoReply`, `OpenIsAnswerable`, `FencedStaysExpired`) |
| the same artifact is seen live and pulled, late, twice or not at all | its end is recorded once by an observation of its own (`TerminalOnce`), nothing stale lands behind a snapshot (`OrdinalsAscend`), a snapshot makes up for what was lost (`PullCatchesUp`), the barrier opens or settles (`BarrierSettles`) |
| stops, pauses, failing sends and crashes meet the drain of a watch | a stop is reported once (`ReportedOnce`), in order (`InOrder`), never passed over (`NothingSkipped`); a watch leaves after the end (`TellsTheEnd`) and does not sleep through an announcement, of whatever is in the log by then (`CatchesUp`) |
| two processes, leases that run out, consumers that fail | the stream keeps its order (`Ordered`), a poison event stops it after a bounded number of tries (`PoisonIsBounded`), and otherwise it moves on (`Progress`) |

`PROJECT.json` lists the hazards with the line where they bite and the
properties that watch them.

## 2. The modules

### OperationRules

The states of a row of `runtime_operations` and the table
`transitionOperation` (2047-2063) consults before it writes. Constant-level
only; the three state machines use it.

### SessionStore and MessageDelivery

One session: its operations, its delivery queue, its binding.

| Variables | Code |
|---|---|
| `state`, `kind`, `ordinal`, `owner`, `interrupted` | columns of `runtime_operations`; `interrupted` is the code `process-restarted` |
| `queued`, `pos`, `held`, `resv` | rows and columns of `session_queue` |
| `backend`, `markers`, `recovered` | the binding, and the epoch and restart markers in the log |
| `exec` | the executor of an operation in the server process; lost at a restart |
| `home`, `calls`, `fate`, `released` | the backend session a call went to, how often, what became of it, and which executions are proven gone |
| `carries`, `admitted`, `touched` | history: which user message an operation carries, what the user wrote, what the user took back or edited |

There is an action for each operation of the store (`PrepareTurn`,
`PrepareOther`, `Enqueue`, `QueueEdit`, `QueueRemove`, `QueueReorder`,
`ReserveQueueHead`, `ClaimOperation`, `ReplayUnknownOperation`,
`ExecutorSettles`, `EvidenceSettles`, `RecoverRestartInterruptedTurns`,
`ReplaceFencedEpoch`, `ReplaceUnfencedEpoch`), for the server's call
(`CallRuntime`) and death (`Restart`), and for the environment
(`RuntimeActs`, `BackendReleased`). An operation's call is answered by
*confirmed*, *rejected* or nothing definite; "nothing" is always possible, for
that is what a thrown error or a timeout is.

Two switches separate the environments. `Unfenced = FALSE` is an owned runtime,
whose epochs are only replaced with proof; `TRUE` adds the borrowed ones.
`FreshResets` asks that no reset opens an epoch twice, which the server's
recovery does and the store does not enforce (2259 compares with the current
backend session only).
`FilesOnly` names messages without text: `FencedTurnComesBack` is checked and
proved without them, and `FilesAloneStayBehind` says what becomes of theirs. `replayUnknownOperation` has no caller
in the server; the model replays operations in `Replayable` as the store
allows. `queueShift` is unused by the server and left out.

`Superseded` is the send gate of `operationAdmission.ts`: the uncertain calls it
ignores are those older than a published reset and those a restart recovery
names. The first went to another backend session. The second went to the one
that is still bound and may still run there when the next turn is sent; what
`GateOpensSafely` claims of them is that nothing on this side has them any more.

`MessageDelivery` is what these tables promise for each message: once accepted
it is *kept* until it is *delivered* or the user takes it back, the runtime acts
on it at most once while it is left alone, and nothing is delivered that was not
acted on. `Delivery` maps a message to its row or to the operation it owns
(`StatusOf`) and counts the operations carrying it that the runtime applied
(`Applications`); `DeliveryKeepsPromise` says that `SessionStore` implements it.
A message with neither a row nor an operation maps to *lost*, a status the
promise does not know.

### DurableMutation and AtMostOnceCall

`executeDurableRuntimeMutation` with the tasks built on it. A task creates a
backend session, waits until it can see it, and submits one turn. `Callers` are
attempts at the *same* task: concurrent ones queue on the promise chain `tails`
of the mutation's key; a crash loses the attempts and the chain and recovers
the row to `unknown`; a later attempt finds the row. A caller's steps
are the awaits of the code: read, prepare, claim, call, return, settle.

`AtMostOnceCall` is the abstract promise: a call at most once, and answers that
are true of its effect. `Create` and `Turn` instantiate it with the number of
calls, the effect of the operation and the callers' answers;
`CreateKeepsPromise` and `TurnKeepsPromise` say the task implements it for
either mutation. A retried task whose turn was confirmed is answered
*already-confirmed*, for which the code returns a rejection with that reason:
the receipt of a turn cannot be recovered.

### RequestResponses and OneAnswer

Answering the requests of a session that has a parent.

| Variables | Code |
|---|---|
| `state`, `about`, `chosen`, `intent` | `runtime_operations` and `response_intents` (payload and the one row per request) |
| `asked`, `resolved`, `expired`, `card` | request events of the session and the mirrored card in the parent's log |
| `lock` | `withSessionLock` of the child and of the parent |
| `pc`, `req`, `answer`, `op` | a replier: `Handlers` (the runtime event that asks; policy may answer in it, and a failed automatic reply leaves the request to a person), `AtChild`, `AtParent` |
| `reset`, `older`, `fence` | a confirmed reset that is still to be published, what is older, and whether it has proof |
| `native`, `moved`, `sent`, `fate` | what the agent did about a request, whether its session was replaced, and the call of an operation |
| `rejection` | the parent's own intent row for a request its card shows, by what became of its call |

A reply on the parent's card is carried out for the child under the lock of the
*parent* only (sessions.ts 14834-14848), so it interleaves with the child's
replies and with the replacement of the child's runtime. Each replier goes
through `Choose` or `FindChosen`, `Claim`, `Call`, `Settle` and then closes
what there is to close: `ExpireMissing`, `Applied`, `CloseParentRequestMirror`.
`Settle` merges the return of the call with the transaction that records it.
A message sent in the parent (`Senders`) rejects what the parent's log shows as
open, cards of the child's requests included: `dismissPendingRequests` of the
parent calls `replyQuestionOperation(parent, rid, reject)` by an intent row and
an operation of the parent's own. The call names the request only
(`POST /question/{id}/reject`, protocolLegacy.ts 1208-1213). `ParentRuntimeActs`
therefore lets the backend take the rejection whenever it still waits for the
request, which is what a server that both sessions share does, or answer that
it does not hold it, as a server of the parent alone does. In the first case
`native` is *elsewhere*: the agent has been told no, nothing tells the child
(no event of the server about a reply is handled), and the child's next reply
finds the request missing. `rejection` is the parent's row while there is one:
refused or missing gives it back, applied or unknown keeps it, and a further send
then throws (`assertChosenIntent`, or an operation that is not prepared).
`Proves` is `FALSE` for the runtimes shipped (none gives evidence about a
reply); the passing run sets it `TRUE`, the larger behaviour.

`OneAnswer` is what the log promises: the agent hears one answer at most, the
log tells one at most and only the one the agent heard, and a request is closed
only while nothing is told of it, as *missing* when the agent can hear nothing
from this session any more, as *fenced* when it waits no more and for good.
The agent may also stop waiting, or hear it from elsewhere. `Promise` maps the
agent to `native`, what is told to `resolved`, and what is closed to `expired`;
`RepliesKeepPromise` says the repliers together implement it.

Left out: secret requests (their value goes to a vault, and their dismissal at a
send has no branch for a missing one), delegation to the parent agent, and the
rest of the parent's journal: its own requests, and an epoch of the parent, which
expires its open cards. A request id is asked once. A reset
that a crash left unpublished is taken up with the proof it was confirmed
under.

### Observations

How facts of one native session reach its log. An *entity* is an artifact (a
tool call, a text part, a message) or a turn whose state only advances; fact *r*
of it is that it entered state *r*; a turn's one fact is that it was reported
idle, which only the stream tells. The adapter modelled is OpenCode's, which has
both channels.

| Variables | Code |
|---|---|
| `native`, `wire`, `connected` | the native session and its event stream |
| `adopted`, `seen` | the adapter: `reconciliationOrdinals` and the session's translation state (2 for a text: its end was derived or flushed) |
| `attached`, `pending`, `jobs` | the session service: wired or not, `observationStreamPending`, and who waits for the session lock |
| `flight`, `snapshot`, `history` | the reconciliation under way, from `startReconciliation` to its settlement, and what its pull returned |
| `timer`, `attempt` | `reconcileRetries` |
| `ordinal`, `barrier` | the row of `session_reconciliations` |
| `claimed`, `checkpoint`, `log` | observations by revision, `observation_checkpoints`, and the events |
| `floor`, `informed` | history: what the runtime had when the ordinal started, and whether its message history was taken in |

A live event is stamped when it is translated (`Receive`), buffered or sent,
and ingested when its turn at the lock comes (`IngestNext`, or `DropBatch` when
`assertObservationFence` throws out of the loop). A snapshot is one transaction
(`IngestSnapshot`).

A text grows by whole parts, which have a rank and a checkpoint, or by deltas,
which have neither: a delta is refused only if its very revision is known. An
idle report, or a later event that lets a waiting report end the turn, makes the
adapter flush the texts it saw grow and not end (`Unended`, `terminalEvents` with
`flushAssistantOnIdle`): their ends are recorded with the observation of that
event, with `idle` set, under its entity, so no rank check sees them, and the
adapter derives no text when the end comes live later. `TerminalOnce` says what
holds then: an end is recorded once by an observation of its own, and besides it
at most with `idle`. Which turn is active, and whether its answer has completed,
is not followed: any event after an idle report may end the turn, and any event
may find the session aborted and be ignored.

Whether a flight ends ready, blocked or unknown, or fails,
is a nondeterministic choice at each stage; the properties do not depend on it.

Left out: requests and status inside a snapshot (so an idle report whose revision
a snapshot has claimed), turns that end failed or interrupted (they flush
nothing), the limit of 1000 messages of a pull (`protocolLegacy.ts` 1313: an
artifact older than that is not caught up with), deltas without a revision (they
are not observed), the history baseline of a session that is adopted, cursors, the fences by binding, generation and
tombstone, unwiring, titles and to-do lists, a payload that conflicts at equal
rank, and the other harnesses' translators. Chunks that share a transaction are
ingested one per step, after the check that refuses them together.

### SessionWatches

One source, one target, any number of watches. `log` is the source's stops,
`halted` its pause; `notices` the calls of `notify` that have not run yet (two
that wait are one, `MaxWaiting`); `armed`, `terms`,
`cursor`, `pending` the rows of `session_watches`; `drains`, `pc`, `local` the
promise chain of a watch and the drain that runs; `queue`, `enqueued`,
`operation`, `admitted`, `fired`, `paused`, `active` the target. `issued` maps a
client operation id to the watch and stop it was made up for.

Not every stop is announced. The code announces what `finishStoppedTurn` runs
for (`TurnStops`) and the end of a pause (`PauseEnds`). The stop of a turn that
kept the prompt cache warm is applied and not announced (`KeepAliveStops`); one
behind a newer projection is recorded and not applied (`RecordStop`), and may be
announced when somebody finds its turn still held (`owed`, `ReleaseStop`); and a
restart may add the stop a rate limit lacks (`RepairStop`). A drain reads all of
them. `told` remembers how much of the log the last announcement found, by the
source, the end of the target's pause or a restart: `CatchesUp` asks a watch to
get that far, for nothing in the code makes it look at a stop behind it.

A drain takes the steps the code takes between awaits: it reads the row, the
pause of the target and up to `Limit` stops (`Look`), and for each stop skips
it, holds, appends an observation, or prepares an id, looks for an earlier
answer, routes, joins, inserts, notes, admits and settles. So a pause, a
message of a person, a dispatch, a removal or a crash can come between any two.
A drain that finds a session gone removes the row (`Unwatch`).

Left out: several sources and targets (rows are keyed by both; a drain touches
only its own), the refusal of a watch that would close a cycle of wakes (it
changes nothing), edits of queue rows by people, and the torn dispatch of a
queue row, which `SessionStore` has: `Dispatch` here confirms at once.

### Outbox and OrderedStream

`Outbox` is the table with its claim, acknowledgement and release, and the
worker of each process: one timer, one flight, `start`, `kick`, `stop`. A lease
token is the process that took it. Time is two flags of a row: `live` (the
lease has not run out) and `waiting` (the next attempt is not due), which end by
themselves, at any moment. After an acknowledgement the flight goes on or ends,
for the size of a batch is not a property's concern. `OrderedStream` is what
the comment at the head of `outbox.ts` promises: events are first seen in
order, and acknowledged only after they were seen. `Ordered` says that `Outbox`
implements it.

Left out: the poll delay, callers of `flush` other than the timer, and the
worker's telemetry.

## 3. The runs

| Run | Bounds | States (about) | What it shows |
|---|---|---|---|
| `session_owned` | 3 operations, 1 message, turns and resets | 282,000 | with proof for every epoch: no silent resend, cut turns come back, no dead reservation, fenced is final, settled stays settled |
| `session_borrowed` | same, with unfenced epochs | 389,000 | settled rows are true, nothing stale is claimed, the send gate opens only over calls that went elsewhere or that a restart cut (these may still run in the bound backend session; no executor or free row would send them again), and messages are delivered as `MessageDelivery` promises |
| `session_queue` | 2 operations (1 replayable, 2 calls), 2 messages (1 of files alone), all kinds, unfenced epochs | 2,240,000 | one call per operation, every executing row has an executor, order, positions and head of the queue |
| `durable_task` | 3 attempts, 3 operations | 86,000 | one operation and one call per mutation, both refinements, every attempt ends |
| `responses` | 1 request, 3 operations, 1 handler, 1 replier at the child, 1 at the parent, 1 message sent in the parent, 2 answers | 1,239,000 | the reply properties of section 1, with `OneAnswer` implemented |
| `observations` | 1 text part, 1 turn, 3 reconciliations, 1 retry | 1,703,000 | the observation properties of section 1 |
| `watches` | 1 watch of either delivery, once or standing, 1 stop read at once, 2 turns of the source (completed or paused, announced or not, and retried after a restart), 2 ids, 1 pause, 1 crash | 1,785,000 | the watch properties of section 1 |
| `outbox` | 2 processes, 2 events, 2 attempts, 1 failing transaction | 448,000 | order by refinement, bounded poison, progress |
| `session_wedged`, `responses_card`, `observations_doubled`, `watches_doubled` | the smallest instance with the behaviour | - | the findings of section 6 |

Every property of a passing run has a mutant in `PROJECT.json`: a definition
marked "Wrong variant" in its module, under which the property fails.

**Why the bounds suffice to see the cases.** With three operations a message
can be sent, be cut by a reset, come back as a draft and be sent again, which
is the longest chain the resend properties are about. Two operations and two
messages are enough to put a reserved, a held and a fresh row in one queue.
Three attempts give a holder, a waiter and a retry after a crash. Three reply
operations let a failed reply be followed by two rivals. Three reconciliations
put stale evidence of the first between the second and the third; a text part
has everything a tool call has and its deltas and its flush besides; the turn is
what flushes it and, as a message is, without a rank (`observations_doubled` has
the message). With one stop read at a time every stop is the end
of a batch, where a drain decides whether to go on; two stops are needed for one
to overtake another, and the kinds are one that ends, one that ends nothing and
one that is no stop (errors and aborts are treated as completions are). Two
processes and two events are what overtaking and the takeover of a lease need;
two attempts leave one between the first failure and the block. The proofs of
section 5 lift the bound from every safety property. `Positions` is the range that many
inserts at either end can reach; `MaxCalls` bounds replays. Operation ids (where none is
replayable) and repliers at the child are interchangeable, so those runs use
symmetry; none of the runs with symmetry checks a liveness property.

**Deadlock.** `SessionStore` and `RequestResponses` stop when the finite supply
of ids or of repliers is used up, and so do the others when there are no more
reconciliations, stops or events; their configurations say
`CHECK_DEADLOCK FALSE`. `DurableMutation` never stops, since the process may
always crash, so the check for deadlock is on and shows only that; that
attempts do not wait for each other for ever is `EveryAttemptEnds`.

## 4. Fairness

`SessionStore` and `RequestResponses` state no fairness: everything checked
there is safety, and the code promises no progress of an agent.
`DurableMutation` has weak fairness for the steps of each attempt. An attempt
that is under way is a chain of awaits the event loop serves, and the call it
waits for is ended by the adapters' request timeouts (for instance
`backend-commandcode/src/rpc.ts:169`, `backend-antigravity/src/runtime.ts:879`).
Arrivals, crashes and what the agent does with a call are not fair, so
`EveryAttemptEnds` does not rest on an agent that answers: the attempt settles
`unknown`. Crashes may come again and again; an attempt a crash ends is `lost`,
and a retry is another caller.

`Observations` has weak fairness for the steps of a flight alone: the calls of a
reconciliation answer or fail by their deadline. The stream, the timer and the
use of the session are not fair; `BarrierSettles` needs none of them.

`SessionWatches` has weak fairness for `Kick` and for the steps of each drain,
which are promises the event loop continues and calls that answer or time out.
People, the source, the dispatcher, the recovery of operations and crashes owe
nothing, so `CatchesUp` does not rest on them: a watch that waits for a paused
target, or whose last send failed, is excepted by name.

`Outbox` has weak fairness for the steps of a flight, the timer, and the two
ways time passes. Processes need not start, and may stop or crash at any time;
`Progress` assumes of the run that some process stays up from some time on, for
otherwise nobody is there to deliver.

## 5. The proofs

All theorems hold for every value of the constants allowed by the named
assumptions (`OpsAssumption`, `DurableAssumption`, `ResponsesAssumption`,
`ObservationAssumption`, `WatchAssumption`, `OutboxAssumption`):
mostly that the "nothing" values are no ids and that bounds are numbers; the
sets of a `SessionStore` are finite, because positions and ordinals count them,
and so are the processes of an `Outbox`, because its budget counts them. Where a
property holds of some environments only, the theorem says which in its
hypothesis.

| Module | Theorems | Inductive invariant and why it is needed |
|---|---|---|
| `SessionStoreProofs` | `TypeCorrect` | `TypeInv`: `TypeOK` and that every draft in the queue was made from an operation that carries a user message; without it a row might stand for no message |
| `SessionSafetyProofs` | `CallAtMostOnce`, `OutcomesAreTrue`, `SettlementsStay`, `NothingStaleIsClaimed`, `NothingIsResent` | `CallInv`: an unclaimed row has no call; without it a claim could be the second. `EpochInv`: the resets named by markers stay confirmed; without it "older than a published reset" could change meaning. `CarryInv`: which rows may be sent, stated through the operations that carried their message before; `NoSilentResend` alone says nothing about a row that is still to be dispatched |
| `SessionQueueProofs` | `ExecutorsExist`, `TheReservedRowIsTheHead`, `DeliveryImplements`, `FilesAloneStayBehind`, `TheQueueIsFifo`; `ReservationsAreLive` and `FencingIsFinal` if not `Unfenced`; `FencedTurnsComeBack` if `FilesOnly` is empty; `TheGateOpensSafely` if `FreshResets` | `OpsInv`, `QueueInv`, `IntentInv`, `DraftsAreSettled`, `LiveInv`, `ReturnInv`, `HomeInv`, `CutInv`, `GoneInv`, below |
| `DurableMutationProofs` | `DurableTypes`, `OneOperation`, `TurnsFollowCreation`, `CreateImplements`, `TurnImplements`, `TheGateIsNeverAbandoned` | `DurableInv`: who is past the gate is its only holder (`GateInv`), so what it read is still true when it prepares and claims (`CoreInv`); rows, calls and answers agree with effects (`FateInv`, `CountInv`, `AnswerInv`), so each step is a step of `AtMostOnceCall` or a stutter. `TaskInv`: nobody is told of a created session unless the runtime created one. `ChainInv`: a chain holds each attempt under way once, and its first is past the gate or may pass it |
| `RequestResponsesProofs` | `TypeCorrect`, `RepliesImplement`, `AtMostOneLiveReply`, `NoReplyToAMissingRequestWasHeard`, `AnOpenRequestIsAnswerable`, `AFencedRequestStaysExpired` | `ResponseInv`, below |
| `ObservationsProofs` | `ObservationTypes`, `RecordedOnce`, `NoStaleEvidence`, `NothingStaysLost`, `TheRecordMovesForward`, `NoBarrierIsOrphaned` | `RankInv`: what was seen to end is so in its checkpoint, which is why one comparison is enough; a delta and an idle flush leave the checkpoint alone and bring no end of their own. `OrdinalInv`: no entry is ahead of the ordinal. `ForwardInv`: the log of a tool call never runs ahead of its checkpoint. `PullInv`: what was pulled and what was there at the start of an ordinal bound the checkpoint from both sides, through every stage of a flight. `BarrierInv`, below |
| `SessionWatchesProofs` | `WatchTypes`, `NothingIsSkipped`, `EndsAreTold`, `StopsAreReportedOnce`, `StopsAreInOrder`, `NoKickIsLost`; `OnlyCrashesRepeatWakes` if `MaxCrashes = 0` | `Inv`, with `Sending`, `Once`, `Ordering` and `Waking`, below |
| `OutboxProofs` | `OutboxTypes`, `OutboxIsOrdered`, `PoisonStops`, `TheWorkerStaysAwake` | `FlightIsFirst`: who is in a call holds a row behind which all is acknowledged, also when it has lost the lease; `AckIsSeen`. `Budget`: calls made and calls still to be made by those who claimed stay within the attempts counted, which is why a crash between claim and call is no free attempt. `FlightIsAwaited`: a flight nobody awaits would land unnoticed, and leave the timer unset |

**The argument for `RequestResponses`.** `LiveInv` says that a reply that may
still take effect is the intent of its request; since a request has one row in
`response_intents`, at most one reply is live. The work is to show that no
settlement deletes the row of a live reply: `Settled` collects what the two
ways of settling have in common, namely that an unconfirmed definite outcome
comes from a call that ended without effect. `SendInv` says who is sending
holds the row until an epoch has closed the request. `NativeInv` and
`EffectInv` tie events and outcomes to what the agent did: a *missing* answer to
an open request proves the backend deaf to it (`Deaf`: it stopped waiting, or
took a rejection from elsewhere), and deaf it stays, which is why what one
reply learnt is true of all replies. `FenceInv` says that after a reset with
proof nothing is applied to an old request, which keeps closed requests closed.
`StepCases` reduces a step to eleven kinds of effect, and each part of the
invariant has one proof step for each. `TypeOK` is not inductive alone: that a
working replier has a request is part of `WorkInv`.

**The argument for the queue.** `OpsInv` keeps rows, owners and ordinals
together. That positions stay distinct when a fence gives several drafts back
is a statement about cardinalities (`DraftPositions`): the drafts in front of a
draft are counted, and two of them never have the same count. A reserved row
stays the head because only an unreserved queue is reordered, and what an epoch
puts in front of it are drafts, held for review. `LiveInv` needs
proof for every epoch, which is the finding `session_wedged` seen from the
other side. `DeliveryImplements` needs `IntentInv`: a reserved row waits for an operation
that carries its message, and a message left alone has a row or an operation
that was confirmed or owns it. That no step loses one is `RowsStay` (a row only
leaves when a person takes it or its operation is confirmed); that the runtime
acts once is `OneLivingCarrier`, from `CarryInv`, which makes the count of
applied operations one at most; that a delivery follows an action is
`OutcomeIsTrue`. The step lemma goes over what a step does to the history of a
message (`HistoryStep`) rather than over the actions. `TheQueueIsFifo` is the
rest of "in order": positions of rows that stay are only changed by
`QueueReorder`, and what is new is behind or, if it is a held draft, in front of
everything. It needs `DraftsAreSettled`: a draft's operation is over, so a
later epoch cannot make a second draft of it and move the first.
`ReturnInv` says that what is
under way can come back unless it is a direct message of files alone, which
`FilesAloneStayBehind` concludes without a hypothesis; `HomeInv` and `GoneInv` tie the place a call went to
to the resets since. `CutInv` says that what a restart cut has no executor and,
once recovered, no row; with the part of `CarryInv` about rows that may be sent
it gives `TheGateOpensSafely`.

**The argument for watches.** `Standing` says what each stage of a drain knows:
who is past `Look` works within its batch, directly behind the cursor.
`Issuing` says that an id belongs to one watch and stop, that ids of a watch
ascend and that a newer one is only made up when the cursor has passed the
older. `Remembering` says that a stop that is to be settled has been told.
`Sending` says an id that is about to be queued or admitted is in neither place
yet, unless a crash tore it, which is what `cut` records; from it `Once` and
`Ordering` follow, for whatever is behind an id in the queue came later. `Waking` says of a drain
at work that it saw what was announced of the log, and that the pause it saw
lasts, or a notice or another drain is on its way (`Fresh`); without it a drain
could come to rest on a log that grew, with an announcement, behind it. `Quiets` is needed because the end of a pause is what
wakes a held watch: only a target without a turn is paused.

**The argument for replies as `OneAnswer`.** `PromiseStep` takes the eleven
kinds of `StepCases` in turn: a call that is applied is `Hear`, a confirmed
settlement is `Tell`, an expiry or the publication of an epoch is `Close`, a
replacement of the agent's session is `GiveUp`, a rejection that came from the
parent `HearElsewhere`, and all else is a stutter.
`NativeInv`, `EffectInv` and `FenceInv` supply the guards.

**The argument for the barrier.** `BarrierInv` ties the row of
`session_reconciliations` to what lives in the process: a flight holds the
barrier, and past its adoption the adapter carries the session's ordinal. A
crash leaves the row *reconciling* with nothing at work on it; the first job
after the session is attached again is a reconciliation, which is why the
theorem speaks of an attached session.

**Only model-checked:** the liveness properties `EveryAttemptEnds`,
`BarrierSettles`, `CatchesUp` and `Progress`. Liveness under fairness and
ENABLED are beyond the prover and stay with TLC, as does anything that needs
induction over data. What keeps each of them from getting stuck is proved:
nobody waits behind an attempt that is gone (`TheGateIsNeverAbandoned`), a
barrier has somebody at work on it (`NoBarrierIsOrphaned`), a watch that is
behind an announcement will be looked at (`NoKickIsLost`), and a worker has its timer or a flight
(`TheWorkerStaysAwake`); what fairness adds is that these steps are then taken.
Every other property of a passing run is a theorem, under the hypotheses above.
Three of the findings have their border proved: no reservation is dead where
every epoch has proof, no wake is repeated where nothing crashes, and a tool
call, which has a rank, is recorded in ascending order, which the message of
`observations_doubled` lacks. No module declares a recursive operator.

## 6. Findings

Each is the only property of its run, and TLC gives the behaviour.

- `session_wedged`: an epoch without proof rejects a reserved dispatch and does
  not free its queue row (2354); the queue is stuck on a dead reservation.
- `responses_card`: a message sent to the child dismisses its request and
  leaves the card open in the parent (sessions.ts 7011).
- `observations_doubled`: a message whose completion was pulled first is
  recorded again by its live event, and its usage counted twice
  (`backend-opencode/src/index.ts` 751): the live path does not consult the
  durable checkpoint and a message has no rank the store could compare. A test
  is named for the opposite (`runtimeReconciliation.test.ts:2176`).
- `watches_doubled`: `enqueueMessage` inserts the row and appends its event in
  two transactions (sessions.ts 7443 and 7451); a crash in between, and the
  retry of a watch admits the same wake again, which
  `docs/agents/architecture.md:45` excludes.

Seen while reading, not run:

- Epochs: a direct turn of files alone that a fenced epoch cuts does not come
  back as a draft (3348); a fence also fences calls that went to an earlier
  execution (2391); the store accepts a transition back to a backend session an
  earlier epoch used (2259); several drafts that a fence gives back stand in the
  reverse of their order.
- Replies: one may be confirmed after an epoch without proof expired its
  request (2053 against the comment at 2359-2362); a request id that is asked
  again finds the intent of the first time (3527); `settleAcceptedOperations`
  loses that a question was rejected; a send in the parent rejects a child's
  request through the parent's runtime, which a shared server takes
  (protocolLegacy.ts 1208-1213), so that the child closes as missing what its
  agent was told, and which the test at `autoAccept.test.ts:1093` says must not
  happen (`DismissCard`, `ParentRuntimeActs`).
- Observations: when a batch is refused after `tool/call`, a later pull may
  record the result of a call whose start is in no log
  (`docs/dev/architecture.md:165`); a chunk with a stale ordinal takes the
  observation behind it down with it (sessions.ts 5957-5985); a text whose end
  was pulled and which was seen to grow live is recorded a second time, with what
  the stream had brought of it, when its turn is reported idle
  (`backend-opencode/src/index.ts` 763-766, events.ts 808-829); a delta that waits
  for the lock behind a snapshot lands after the end of its text.
- Watches: the stop of a keep-alive turn, and one that is recorded without being
  applied, reach the log without starting a drain (sessions.ts 4983, 5368,
  4839, 4892), so a watch hears of them with the next announcement or restart; a
  pause that begins between the read of the target and the admission
  of a wake is ended by that wake (sessions.ts 12155-12158,
  `docs/dev/architecture.md:200`); a wake whose operation was rejected keeps its
  watch at that stop (`docs/agents/architecture.md:43`); a wake into a paused
  session is queued before an earlier `queue/enqueued` is looked for
  (12159-12175).
- Outbox: with one attempt, or attempts spread over two workers, a stream that
  blocks again within one flush is not reported as newly blocked.

## 7. Not modelled, and why

- Contents: prompts, attachments, answers and events are identities. Where the
  code branches on content (a message without text), the model has a set for it.
- The projection snapshots, harness routing and message texts that the epoch
  transaction also writes: no property here is about them.
- Several sessions: the stores key every row by session id, and the only
  coupling modelled is the parent's card.
- Deletion tombstones, the harness switch and its process ledger, the planner,
  goals, and package leases: state machines of the same kind, planned below.
  The other records of the control plane (accounts, Spaces, migrations,
  execute-once receipts) are plain transactions.
- Protocol adapters, clients and the relay: input, output and cryptography.
  They are most of the repository's lines, with the locales, the user interface
  and the schemas, and hold little state that a model checker would explore.
- What each module leaves out of its own component is said with the module.
- Disk failure within a transaction: SQLite's atomicity is assumed.

## 8. Plan

Done: the journal, queue and epochs (`SessionStore`), background mutations
(`DurableMutation`), replies (`RequestResponses`), observations and
reconciliation (`Observations`), watches with the admission of a message
(`SessionWatches`) and the outbox (`Outbox`), each with theorems for all its
safety properties.

Next, in this order:

1. *Deletion tombstones*: backend deletion retried after a session is gone, and
   the fence a tombstone puts before late observations.
2. *Harness switch and the runtime authority*: release receipts as the source
   of the proof that `BackendReleased` stands for.
3. *Planner and goals*: settlement of runs under leases, and the loop of turns.
4. *Several sessions*: watches over a cycle of sessions, and `EvidenceSettles`
   fed by the observations that gather the evidence.
5. *Secret requests and delegation* beside the replies modelled.
