---------------------------- MODULE Observations ----------------------------
(***************************************************************************)
(* How facts of a native session reach the durable log: live, over the     *)
(* event stream, and pulled, in the snapshot of a reconciliation.          *)
(*                                                                         *)
(* An entity is one artifact of the native session (a tool call, a text    *)
(* part, a message), or a turn. Its native state only advances, and its    *)
(* facts are the states it has entered: fact r is "it entered state r".    *)
(* The adapter turns a state into the facts it has not derived before, by  *)
(* a translation state of its own (live) or by the durable checkpoint      *)
(* (pulled). The store claims the observation by entity and revision.      *)
(* When the runtime reports that a turn is idle, the adapter ends the text *)
(* it saw grow and did not see end: it flushes it with the report.         *)
(***************************************************************************)
EXTENDS Integers, Sequences

CONSTANTS
    Tools,        \* tool calls: running (1), then completed or failed (2)
    Parts,        \* text parts: growing (1), then complete (2)
    Messages,     \* messages: completed (1), which records their usage
    Turns,        \* turns: idle (1), reported live and not pulled
    MaxOrdinal,   \* bound on the reconciliations of the session
    MaxAttempts   \* RECONCILE_RETRY_DELAYS_MS.length

ASSUME ObservationAssumption ==
    /\ MaxOrdinal \in Nat
    /\ MaxAttempts \in Nat
    /\ Tools \cap Parts = {} /\ Messages \cap Turns = {}
    /\ (Tools \cup Parts) \cap (Messages \cup Turns) = {}

Entities == Tools \cup Parts \cup Messages \cup Turns

\* Observations of tools and parts carry a state rank, the others none.
Ranked == Tools \cup Parts

Top(e) == IF e \in Ranked THEN 2 ELSE 1

VARIABLES
    native,      \* state of each entity at the runtime (0: not there yet)
    wire,        \* stream events on their way to the adapter
    connected,   \* the event stream is open
    attached,    \* the process lives and the session is wired to the runtime
    adopted,     \* adapter: reconciliationOrdinals (0: none)
    seen,        \* adapter: the session's translation state
    pending,     \* observationStreamPending
    jobs,        \* what waits for the session lock, first come first served
    flight,      \* stage of the reconciliation that holds the lock
    snapshot,    \* the native states the pull of this flight returned
    history,     \* the pull got the message history, not the status alone
    timer,       \* reconcileRetries: a retry is due
    attempt,     \* reconcileRetries: attempts of this episode
    ordinal,     \* session_reconciliations: ordinal (0: never reconciled)
    barrier,     \* session_reconciliations: state
    claimed,     \* observations: the revisions recorded of each entity
    checkpoint,  \* observation_checkpoints: the state recorded last
    log,         \* the events recorded of each entity, oldest first
    floor,       \* history: the native states when this ordinal started
    informed     \* history: this ordinal's message history was taken in

runtime == <<native, wire, connected>>
adapter == <<adopted, seen>>
memory  == <<attached, pending, jobs>>
pull    == <<flight, snapshot, history>>
retry   == <<timer, attempt>>
row     == <<ordinal, barrier, floor, informed>>
store   == <<claimed, checkpoint, log>>
vars    == <<native, wire, connected, attached, adopted, seen, pending, jobs, flight,
             snapshot, history, timer, attempt, ordinal, barrier,
             claimed, checkpoint, log, floor, informed>>

States   == {s \in [Entities -> 0..2] : \A e \in Entities : s[e] <= Top(e)}
Channels == {"live", "pull"}
Revision == (1..2) \X Channels

Event == {v \in [entity: Entities, rank: 1..2] : v.rank <= Top(v.entity)}

\* An observation may be a mere delta of a text, and it may bring along the ends
\* of the texts that are flushed with it.
Observation ==
    {o \in [entity: Entities, from: 0..2, rank: 1..2, ordinal: 1..MaxOrdinal,
            delta: BOOLEAN, flushed: SUBSET Parts] :
        /\ o.rank <= Top(o.entity)
        /\ o.delta => o.entity \in Parts /\ o.rank = 1}

Entry == [from: 0..2, rank: 1..2, ordinal: 0..MaxOrdinal, idle: BOOLEAN]
Batch == Seq(Observation) \ {<<>>}
Job   == [kind: {"observe"}, batch: Batch] \cup [kind: {"reconcile"}]

Nothing == [e \in Entities |-> 0]

Init ==
    /\ native = Nothing /\ wire = <<>> /\ connected = FALSE
    /\ attached = FALSE
    /\ adopted = 0 /\ seen = Nothing
    /\ pending = <<>> /\ jobs = <<>>
    /\ flight = "none" /\ snapshot = Nothing /\ history = FALSE
    /\ timer = FALSE /\ attempt = 0
    /\ ordinal = 0 /\ barrier = "none" /\ floor = Nothing
    /\ claimed = [e \in Entities |-> {}]
    /\ checkpoint = Nothing
    /\ log = [e \in Entities |-> <<>>]
    /\ informed = FALSE

-----------------------------------------------------------------------------
(* The store: one transaction per observation, or per snapshot.            *)

\* The revision of a live event is the sequence number of its envelope
\* ("durable:1:13"), that of a pulled one names the state ("state:completed").
RevisionOf(rank, channel) == <<rank, channel>>

\* Wrong variant: no fence.
FencedNever(o) == FALSE

\* assertObservationFence: the ordinal must be the current one.
Fenced(o) == o.ordinal # ordinal

\* Wrong variant: only the same revision is a duplicate.
KnownByRevision(e, rank, channel) == RevisionOf(rank, channel) \in claimed[e]

\* What the store already has: this revision, or as high a rank.
Known(e, rank, channel) ==
    \/ RevisionOf(rank, channel) \in claimed[e]
    \/ e \in Ranked /\ checkpoint[e] >= rank

\* The facts an observation brings: the states after from, up to rank.
Facts(entry) == (entry.from + 1)..entry.rank

\* What a live observation adds to the log of an entity: its own state, or the
\* end of a text that is flushed with it.
Recorded(o, e) ==
    IF e \in o.flushed
    THEN [from |-> IF e = o.entity THEN o.from ELSE 1, rank |-> 2,
          ordinal |-> o.ordinal, idle |-> TRUE]
    ELSE [from |-> o.from, rank |-> o.rank, ordinal |-> o.ordinal, idle |-> FALSE]

\* A delta has a revision, and neither a rank nor a checkpoint.
IsDuplicate(o) ==
    IF o.delta THEN RevisionOf(o.rank, "live") \in claimed[o.entity]
    ELSE Known(o.entity, o.rank, "live")

\* ingestObservation of a live observation that the fence let pass. The texts
\* flushed with it have no claim, no rank and no checkpoint of their own.
Ingest(o) ==
    /\ claimed' = [claimed EXCEPT ![o.entity] =
           @ \cup {RevisionOf(o.rank, "live")}]
    /\ \/ /\ IsDuplicate(o)
          /\ UNCHANGED <<checkpoint, log>>
       \/ /\ ~IsDuplicate(o)
          /\ checkpoint' = IF o.delta THEN checkpoint
                           ELSE [checkpoint EXCEPT ![o.entity] = o.rank]
          /\ log' = [e \in Entities |-> IF e \in {o.entity} \cup o.flushed
                 THEN Append(log[e], Recorded(o, e)) ELSE log[e]]

\* Wrong variant: derived against the adapter's own translation state.
PulledUnseen(e) == e \notin Turns /\ snapshot[e] > checkpoint[e] /\ snapshot[e] > seen[e]

\* The pull derives its events against the durable checkpoints, and sends
\* nothing for an entity that has none.
Pulled(e) == e \notin Turns /\ snapshot[e] > checkpoint[e]

News(e) == Pulled(e) /\ ~Known(e, snapshot[e], "pull")

\* ingestSnapshot: every observation of the snapshot in one transaction.
IngestSnapshot ==
    /\ claimed' = [e \in Entities |-> IF Pulled(e)
           THEN claimed[e] \cup {RevisionOf(snapshot[e], "pull")}
           ELSE claimed[e]]
    /\ checkpoint' = [e \in Entities |->
           IF News(e) THEN snapshot[e] ELSE checkpoint[e]]
    /\ log' = [e \in Entities |-> IF News(e)
           THEN Append(log[e], [from |-> checkpoint[e], rank |-> snapshot[e],
                                ordinal |-> ordinal, idle |-> FALSE])
           ELSE log[e]]

-----------------------------------------------------------------------------
(* The runtime and the adapter.                                            *)

\* The native session moves on. A closed stream loses the event.
NativeStep(e) ==
    /\ native[e] < Top(e)
    /\ native' = [native EXCEPT ![e] = @ + 1]
    /\ wire' = IF connected
               THEN Append(wire, [entity |-> e, rank |-> native[e] + 1])
               ELSE wire
    /\ UNCHANGED <<connected, adapter, memory, pull, retry, row, store>>

\* Chunks of text are buffered; anything else sends the buffer before it.
Streamed(o) == o.entity \in Parts /\ o.rank = 1 /\ o.flushed = {}

Observe(batch) == [kind |-> "observe", batch |-> batch]
Reconcile == [kind |-> "reconcile"]

\* translateOcEvent: the state of the event's entity, as it comes.
Translated(event) == [seen EXCEPT ![event.entity] = event.rank]

\* flushAssistantOnIdle: the texts that were seen to grow, and not to end.
Unended(event) == {p \in Parts : Translated(event)[p] = 1}

\* claimTerminalStateEvidence: an idle report ends the turn, now or with a later
\* event. What the adapter waits for (the completion of the turn's answer, unless
\* the turn is being aborted) is not followed here.
MayStop(event) == \E u \in Turns : Translated(event)[u] = 1

\* What is made of an event: a text may grow by a delta or by a whole part.
Observed(event, delta, stops) ==
    [entity |-> event.entity, from |-> seen[event.entity],
     rank |-> event.rank, ordinal |-> adopted, delta |-> delta,
     flushed |-> IF stops THEN Unended(event) ELSE {}]

\* handlePayload: translate the event and hand it to the session service. It is
\* not looked at before the first reconciliation, and from an abort, which may be
\* at any time, to the next turn.
Receive ==
    /\ attached /\ wire # <<>>
    /\ wire' = Tail(wire)
    /\ \/ UNCHANGED <<seen, pending, jobs>>
       \/ /\ adopted # 0
          /\ \E delta, stops \in BOOLEAN :
               LET event == Head(wire)
                   o == Observed(event, delta, stops)
               IN /\ delta => event.entity \in Parts /\ event.rank = 1
                  /\ stops => MayStop(event)
                  /\ seen' = [e \in Entities |->
                         IF e \in o.flushed THEN 2 ELSE Translated(event)[e]]
                  /\ \/ /\ Streamed(o)
                        /\ pending' = Append(pending, o)
                        /\ jobs' = jobs
                     \/ /\ pending' = <<>>
                        /\ jobs' = Append(jobs, Observe(Append(pending, o)))
    /\ UNCHANGED <<native, connected, attached, adopted, pull, retry, row, store>>

\* The stream timer, 50 ms after the last flush.
FlushStream ==
    /\ pending # <<>>
    /\ jobs' = Append(jobs, Observe(pending))
    /\ pending' = <<>>
    /\ UNCHANGED <<attached, runtime, adapter, pull, retry, row, store>>

-----------------------------------------------------------------------------
(* The session service. Both kinds of job run under the session lock.      *)

Free == flight = "none" /\ jobs # <<>>

\* The leading chunks of a batch share a transaction; one that the fence
\* refuses rolls all of them back.
Refused(batch) ==
    \/ Fenced(batch[1])
    \/ /\ Streamed(batch[1])
       /\ \E k \in 1..Len(batch) :
              /\ Fenced(batch[k])
              /\ \A j \in 1..k : Streamed(batch[j])

\* The exception leaves the loop: the rest of the batch is not looked at.
DropBatch ==
    /\ Free /\ Head(jobs).kind = "observe"
    /\ Refused(Head(jobs).batch)
    /\ jobs' = Tail(jobs)
    /\ UNCHANGED <<attached, pending, runtime, adapter, pull, retry, row, store>>

IngestNext ==
    /\ Free /\ Head(jobs).kind = "observe"
    /\ LET batch == Head(jobs).batch IN
       /\ ~Refused(batch)
       /\ Ingest(Head(batch))
       /\ jobs' = IF Len(batch) = 1 THEN Tail(jobs)
                  ELSE [jobs EXCEPT ![1] = Observe(Tail(batch))]
    /\ UNCHANGED <<attached, pending, runtime, adapter, pull, retry, row>>

\* startReconciliation
StartReconciliation ==
    /\ Free /\ Head(jobs).kind = "reconcile"
    /\ ordinal < MaxOrdinal
    /\ jobs' = Tail(jobs)
    /\ ordinal' = ordinal + 1
    /\ barrier' = "reconciling"
    /\ flight' = "started"
    /\ floor' = native /\ informed' = FALSE
    /\ UNCHANGED <<attached, pending, snapshot, history, runtime, adapter, retry, store>>

\* The adapter takes the ordinal over before it asks the runtime.
Adopt ==
    /\ flight = "started"
    /\ flight' = "adopted"
    /\ adopted' = ordinal
    /\ UNCHANGED <<seen, snapshot, history, memory, runtime, retry, row, store>>

\* The runtime answers; the query of the history alone may fail.
ReadSnapshot ==
    /\ flight = "adopted"
    /\ flight' = "read"
    /\ history' \in BOOLEAN
    /\ snapshot' = IF history' THEN native ELSE Nothing
    /\ UNCHANGED <<memory, runtime, adapter, retry, row, store>>

TakeSnapshot ==
    /\ flight = "read"
    /\ flight' = "ingested"
    /\ IngestSnapshot
    /\ informed' = history
    /\ UNCHANGED <<snapshot, history, ordinal, barrier, floor, memory, runtime, adapter,
                   retry>>

\* Wrong variant: no last attempt.
ArmRetryAlways == timer' = TRUE /\ attempt' = attempt + 1

\* scheduleReconcileRetry
ArmRetry ==
    IF timer \/ attempt >= MaxAttempts
    THEN UNCHANGED retry
    ELSE timer' = TRUE /\ attempt' = attempt + 1

EndFlight ==
    /\ flight' = "none"
    /\ snapshot' = Nothing
    /\ history' = FALSE

\* settleReconciliation with what the evidence allows: ready, blocked by an
\* unresolved operation, or unknown.
Settle(state) ==
    /\ flight = "ingested"
    /\ EndFlight
    /\ barrier' = state
    /\ \/ state = "ready" /\ timer' = FALSE /\ attempt' = 0
       \/ state = "blocked" /\ UNCHANGED retry
       \/ state = "unknown" /\ ArmRetry
    /\ UNCHANGED <<ordinal, floor, informed, memory, runtime, adapter, store>>

\* Wrong variant: an exception ends the flight and settles nothing.
FailQuietly ==
    /\ flight # "none"
    /\ EndFlight
    /\ ArmRetry
    /\ UNCHANGED <<ordinal, barrier, floor, informed, memory, runtime, adapter, store>>

\* The flight settles before its end: no binding to ask with, a binding of
\* another authority, or the catch of reconcileSession, whatever threw.
Fail ==
    /\ flight # "none"
    /\ EndFlight
    /\ \/ barrier' = "unknown" /\ UNCHANGED retry
       \/ barrier' = "blocked" /\ UNCHANGED retry
       \/ barrier' = "unknown" /\ ArmRetry
    /\ UNCHANGED <<ordinal, floor, informed, memory, runtime, adapter, store>>

-----------------------------------------------------------------------------
(* What asks for a reconciliation, and what goes wrong.                    *)

Waiting == {i \in 1..Len(jobs) : jobs[i].kind = "reconcile"}

\* Bound: at most one reconciliation waits, and no more than MaxOrdinal run.
CanAsk == Waiting = {} /\ ordinal < MaxOrdinal

Ask == jobs' = Append(jobs, Reconcile)

\* An unknown outcome or a quiet turn asks for one.
Request ==
    /\ attached /\ CanAsk
    /\ Ask
    /\ UNCHANGED <<attached, pending, runtime, adapter, pull, retry, row, store>>

\* The timer of a retry; a turn that became active cancels it.
RetryFires ==
    /\ timer
    /\ timer' = FALSE
    /\ \/ barrier = "unknown" /\ CanAsk /\ Ask
       \/ jobs' = jobs
    /\ UNCHANGED <<attempt, attached, pending, runtime, adapter, pull, row, store>>

Disconnect ==
    /\ attached /\ connected /\ CanAsk
    /\ connected' = FALSE
    /\ wire' = <<>>
    /\ Ask
    /\ UNCHANGED <<native, attached, pending, adapter, pull, retry, row, store>>

Reconnect ==
    /\ attached /\ ~connected /\ CanAsk
    /\ connected' = TRUE
    /\ Ask
    /\ UNCHANGED <<native, wire, attached, pending, adapter, pull, retry, row, store>>

\* The process dies: the adapter, the lock and its queue go with it. The
\* runtime is not its child and goes on.
Crash ==
    /\ attached
    /\ attached' = FALSE /\ connected' = FALSE /\ wire' = <<>>
    /\ adopted' = 0 /\ seen' = Nothing
    /\ pending' = <<>> /\ jobs' = <<>>
    /\ EndFlight
    /\ timer' = FALSE /\ attempt' = 0
    /\ UNCHANGED <<native, row, store>>

\* The session is used again: wired, and reconciled before anything else.
Attach ==
    /\ ~attached /\ ordinal < MaxOrdinal
    /\ attached' = TRUE /\ connected' = TRUE
    /\ jobs' = <<Reconcile>>
    /\ UNCHANGED <<native, wire, pending, adapter, pull, retry, row, store>>

-----------------------------------------------------------------------------
Flight ==
    \/ Adopt \/ ReadSnapshot \/ TakeSnapshot \/ Fail
    \/ \E state \in {"ready", "blocked", "unknown"} : Settle(state)

Next ==
    \/ \E e \in Entities : NativeStep(e)
    \/ Receive \/ FlushStream \/ DropBatch \/ IngestNext
    \/ StartReconciliation \/ Flight
    \/ Request \/ RetryFires \/ Disconnect \/ Reconnect
    \/ Crash \/ Attach

\* The runtime answers or the call fails by its deadline; nothing else is
\* promised: not that the stream stays open, nor that the session is used.
Spec == Init /\ [][Next]_vars /\ WF_vars(Flight)

-----------------------------------------------------------------------------
(* Properties                                                              *)

\* Type invariant: every variable keeps its domain.
TypeOK ==
    /\ native \in States /\ seen \in States
    /\ checkpoint \in States /\ snapshot \in States /\ floor \in States
    /\ wire \in Seq(Event)
    /\ connected \in BOOLEAN /\ attached \in BOOLEAN /\ history \in BOOLEAN
    /\ informed \in BOOLEAN
    /\ adopted \in 0..MaxOrdinal
    /\ ordinal \in 0..MaxOrdinal
    /\ pending \in Seq(Observation)
    /\ jobs \in Seq(Job)
    /\ flight \in {"none", "started", "adopted", "read", "ingested"}
    /\ barrier \in {"none", "reconciling", "ready", "blocked", "unknown"}
    /\ timer \in BOOLEAN
    /\ attempt \in 0..MaxAttempts
    /\ claimed \in [Entities -> SUBSET Revision]
    /\ log \in [Entities -> Seq(Entry)]

\* How a tool call or a text part ended is recorded once by an observation of
\* its own, whatever was seen live, pulled, lost on the way, and seen again
\* after a restart (the rank check of ingestObservationInTransaction, over every
\* interleaving of the two channels). Beside it there is only the text a turn
\* left unended when it was reported idle, which the store has no rank for.
TerminalOnce ==
    \A e \in Ranked : \A i, j \in 1..Len(log[e]) :
        i # j /\ ~log[e][i].idle /\ ~log[e][j].idle =>
            Top(e) \notin Facts(log[e][i]) \cap Facts(log[e][j])

\* The evidence of an older reconciliation is never recorded after that of a
\* newer one: what was translated before the ordinal moved, and waited for
\* the session lock, must not land behind the snapshot (assertObservationFence).
OrdinalsAscend ==
    \A e \in Entities : \A i, j \in 1..Len(log[e]) :
        i < j => log[e][i].ordinal <= log[e][j].ordinal

\* Once the snapshot of the current reconciliation is in, no artifact is recorded
\* in an older state than the one it had when the reconciliation started,
\* however much of it was lost on the stream, refused as stale, dropped with
\* its batch, flushed too early or translated in vain (reconcileSession, with the events derived
\* against the durable checkpoints).
PullCatchesUp ==
    informed =>
        \A e \in Entities \ Turns : checkpoint[e] >= floor[e]

\* A reconciliation that started settles, or the process dies: the barrier
\* that blocks sending does not stay "reconciling" (the catch of
\* reconcileSession settles what failed half way).
BarrierSettles ==
    attached /\ flight # "none" ~> ~attached \/ barrier # "reconciling"

\* Every fact is recorded once. Not so, although a test says that "pull-first
\* then late live SSE still keeps each native fact once"
\* (runtimeReconciliation.test.ts) and prepareStateFromCheckpoint that
\* "re-observing a native artifact must derive only the canonical facts Polyth
\* does not already hold": the live path derives without the checkpoint, and
\* the completion of a message has no rank for the store to compare.
EveryFactOnce ==
    \A e \in Entities : \A i, j \in 1..Len(log[e]) :
        i # j => Facts(log[e][i]) \cap Facts(log[e][j]) = {}
=============================================================================
