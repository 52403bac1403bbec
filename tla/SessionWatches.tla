--------------------------- MODULE SessionWatches ---------------------------
(***************************************************************************)
(* Watches: one session hears how the turns of another end.                *)
(*                                                                         *)
(* A watch is a durable row with a cursor into the log of its source. What  *)
(* the source announces of its stops and pauses, and the end of a pause of  *)
(* its target, starts a drain of the row; a stop may also reach the log     *)
(* unannounced. The drain reports the stops behind the cursor one by one,   *)
(* as an event in the target's log (observe) or as a hidden message that    *)
(* starts a turn there (wake). A wake goes through the admission of any message: it  *)
(* is admitted at once, or joins the target's queue.                        *)
(*                                                                         *)
(* One source and one target; the stops are the source's log.               *)
(***************************************************************************)
EXTENDS Integers, Sequences

CONSTANTS
    Watches,      \* ids of the watches that may be created
    EventSets,    \* the sets of reasons a watch may ask for
    Kinds,        \* the ways a turn of the source may end
    Limit,        \* stops read at once by a drain (128 in the code)
    MaxStops,     \* bound on the log of the source
    MaxOps,       \* bound on the client operation ids a drain makes up
    MaxPauses,    \* bound on the pauses of the target
    MaxCrashes    \* bound on the crashes

ASSUME WatchAssumption ==
    /\ Limit \in Nat \ {0}
    /\ MaxStops \in Nat /\ MaxOps \in Nat /\ MaxPauses \in Nat /\ MaxCrashes \in Nat
    /\ Kinds \subseteq {"completed", "error", "aborted", "paused", "retrying"}
    /\ EventSets \subseteq SUBSET {"completed", "error", "aborted", "paused"}

\* Bound: a drain or an announcement that waits will see what a second one
\* would.
MaxWaiting == 1

Ops == 1..MaxOps

VARIABLES
    log,         \* source: how its turns ended, oldest first
    notices,     \* announced stops and pause ends the coordinator has not heard yet
    halted,      \* source: a person's pause
    owed,        \* source: the turn of a stop that was only recorded is not released
    told,        \* history: how much of the log the last announcement was about
    armed,       \* the rows of session_watches
    terms,       \* their delivery, once and events
    cursor,      \* their cursor_seq
    pending,     \* their pending_seq and pending_operation_id (0: null)
    issued,      \* what each client operation id was made up for
    drains,      \* drains of each watch that wait their turn
    pc,          \* where the running drain of each watch is
    local,       \* its variables
    paused,      \* target: a person's pause
    active,      \* target: a turn is active
    queue,       \* target: session_queue, by client operation id
    enqueued,    \* target: the ids with a queue/enqueued event
    operation,   \* target: the operation under each client operation id
    admitted,    \* target: the hidden user/message events, by id
    fired,       \* target: the session/watch-fired events
    pauses, crashes,
    born,        \* history: the log when each watch was created
    cut,         \* history: ids whose queueing was cut by a crash
    failed       \* history: watches whose last drain ended in an exception

source == <<halted, owed, told>>
rows   == <<armed, terms, cursor, pending, issued>>
run    == <<drains, pc, local, failed>>
target == <<paused, active, queue, enqueued, operation, admitted, fired, pauses>>
vars   == <<log, notices, halted, owed, told, armed, terms, cursor, pending, issued, drains, pc, local,
            paused, active, queue, enqueued, operation, admitted, fired, pauses,
            crashes, born, cut, failed>>

Final   == {"completed", "error", "aborted"}
Terms   == [delivery: {"observe", "wake"}, once: BOOLEAN, events: EventSets]
Pending == [seq: 0..(MaxStops + 1), op: 0..MaxOps]
Local   == [held: BOOLEAN, at: 0..(MaxStops + 2), upto: 0..(MaxStops + 1), full: BOOLEAN]
None    == [seq |-> 0, op |-> 0]

Init ==
    /\ log = <<>> /\ notices = 0 /\ halted = FALSE /\ owed = FALSE /\ told = 0
    /\ armed = {} /\ terms \in [Watches -> Terms]
    /\ cursor = [w \in Watches |-> 0] /\ pending = [w \in Watches |-> None]
    /\ issued = <<>>
    /\ drains = [w \in Watches |-> 0]
    /\ pc = [w \in Watches |-> "new"]
    /\ local = [w \in Watches |-> [held |-> FALSE, at |-> 0, upto |-> 0, full |-> FALSE]]
    /\ paused = FALSE /\ active = FALSE
    /\ queue = <<>> /\ enqueued = {}
    /\ operation = [op \in Ops |-> "none"]
    /\ admitted = <<>> /\ fired = <<>>
    /\ pauses = 0 /\ crashes = 0
    /\ born = [w \in Watches |-> 0] /\ cut = {} /\ failed = {}

Values(seq) == {seq[i] : i \in 1..Len(seq)}

-----------------------------------------------------------------------------
(* The source.                                                             *)

\* notify.turnStopped, notify.pauseEnded
Tell(known) ==
    /\ notices' = IF notices < MaxWaiting THEN notices + 1 ELSE notices
    /\ told' = Len(known)

\* What a paused session is not asked to do again.
MayStop(kind) == Len(log) < MaxStops /\ (halted => kind # "paused")

\* A turn ends. One that ran without ending the pause ends it now.
TurnStops(kind) ==
    /\ MayStop(kind)
    /\ log' = IF halted THEN log \o <<kind, "continued">> ELSE Append(log, kind)
    /\ halted' = (kind = "paused") /\ owed' = FALSE
    /\ Tell(log')
    /\ UNCHANGED <<rows, run, target, crashes, born, cut>>

\* A turn ends that only kept the prompt cache warm: nobody is told. (If it
\* ends a pause, that is announced: TurnStops.)
KeepAliveStops(kind) ==
    /\ MayStop(kind) /\ ~halted
    /\ log' = Append(log, kind)
    /\ halted' = (kind = "paused") /\ owed' = FALSE
    /\ UNCHANGED <<notices, told, rows, run, target, crashes, born, cut>>

\* A stop that comes behind a newer projection is recorded and not applied:
\* its turn is not released, its pause does not begin, nobody is told ...
RecordStop(kind) ==
    /\ MayStop(kind)
    /\ log' = Append(log, kind)
    /\ owed' = TRUE
    /\ UNCHANGED <<notices, halted, told, rows, run, target, crashes, born, cut>>

\* ... until a send, the queue or a reconciliation finds the turn.
ReleaseStop ==
    /\ owed /\ owed' = FALSE
    /\ Tell(log)
    /\ UNCHANGED <<log, halted, rows, run, target, crashes, born, cut>>

\* A restart finds a turn that waits for a rate limit and has no stop.
RepairStop ==
    /\ crashes > 0 /\ MayStop("retrying")
    /\ log' = Append(log, "retrying")
    /\ UNCHANGED <<notices, source, rows, run, target, crashes, born, cut>>

\* endPause: the source is continued, or stopped for good.
PauseEnds(outcome) ==
    /\ halted /\ Len(log) < MaxStops
    /\ log' = Append(log, outcome)
    /\ halted' = FALSE
    /\ Tell(log')
    /\ UNCHANGED <<owed, rows, run, target, crashes, born, cut>>

\* kick, kickTarget: a drain for every watch there is.
Kicked(ws) ==
    drains' = [w \in Watches |->
        IF w \in ws /\ drains[w] < MaxWaiting THEN drains[w] + 1 ELSE drains[w]]

Kick ==
    /\ notices > 0
    /\ notices' = notices - 1
    /\ Kicked(armed)
    /\ UNCHANGED <<log, source, rows, pc, local, failed, target, crashes, born, cut>>

-----------------------------------------------------------------------------
(* Creating and removing a watch.                                          *)

\* The tail of the source's log is read first.
Create(w) ==
    /\ pc[w] = "new"
    /\ pc' = [pc EXCEPT ![w] = "creating"]
    /\ born' = [born EXCEPT ![w] = Len(log)]
    /\ cursor' = [cursor EXCEPT ![w] = Len(log)]
    /\ UNCHANGED <<log, notices, source, armed, terms, pending, issued, drains, local, failed,
                   target, crashes, cut>>

\* Wrong variant: a new watch waits for the next stop.
InsertQuietly(w) ==
    /\ pc[w] = "creating"
    /\ pc' = [pc EXCEPT ![w] = "idle"]
    /\ armed' = armed \cup {w}
    /\ UNCHANGED <<log, notices, source, terms, cursor, pending, issued, drains, local, failed,
                   target, crashes, born, cut>>

\* createSessionWatch, and the drain that closes the race with a stop.
Insert(w) ==
    /\ pc[w] = "creating"
    /\ pc' = [pc EXCEPT ![w] = "idle"]
    /\ armed' = armed \cup {w}
    /\ Kicked({w})
    /\ UNCHANGED <<log, notices, source, terms, cursor, pending, issued, local, failed,
                   target, crashes, born, cut>>

\* An equal watch is found instead of inserted, and drained again.
CreateAgain(w) ==
    /\ w \in armed
    /\ Kicked({w})
    /\ UNCHANGED <<log, notices, source, rows, pc, local, failed, target, crashes, born, cut>>

\* remove, or a drain that finds one of the two sessions gone.
Unwatch(w) ==
    /\ w \in armed
    /\ armed' = armed \ {w}
    /\ UNCHANGED <<log, notices, source, terms, cursor, pending, issued, run, target,
                   crashes, born, cut>>

-----------------------------------------------------------------------------
(* The drain of a watch.                                                   *)

\* A stop that ends a pause is an abort; a retried error and a continued
\* pause are no stops.
Reason(kind) ==
    IF kind \in {"retrying", "continued"} THEN "none"
    ELSE IF kind = "stopped" THEN "aborted" ELSE kind

\* A watch for aborts also hears of pauses.
Wants(w, reason) ==
    \/ reason \in terms[w].events
    \/ reason = "paused" /\ "aborted" \in terms[w].events

Reportable(w, seq) == Reason(log[seq]) # "none" /\ Wants(w, Reason(log[seq]))

GoTo(w, label) == pc' = [pc EXCEPT ![w] = label]

\* The drain gives up; what it has not settled waits for the next kick.
Throw(w) ==
    /\ GoTo(w, "idle")
    /\ failed' = failed \cup {w}
    /\ UNCHANGED <<log, notices, source, rows, drains, local, target, crashes, born, cut>>

Begin(w) ==
    /\ pc[w] = "idle" /\ drains[w] > 0
    /\ drains' = [drains EXCEPT ![w] = @ - 1]
    /\ failed' = failed \ {w}
    /\ GoTo(w, "loop")
    /\ UNCHANGED <<log, notices, source, rows, local, target, crashes, born, cut>>

\* The row, the pause of the target and the stops behind the cursor are read.
Look(w) ==
    /\ pc[w] = "loop"
    /\ LET left == Len(log) - cursor[w]
       IN IF w \notin armed \/ left <= 0
          THEN GoTo(w, "idle") /\ UNCHANGED local
          ELSE /\ GoTo(w, "stop")
               /\ local' = [local EXCEPT ![w] =
                      [held |-> paused, at |-> cursor[w] + 1,
                       upto |-> IF left < Limit THEN Len(log) ELSE cursor[w] + Limit,
                       full |-> left >= Limit]]
    /\ UNCHANGED <<log, notices, source, rows, drains, failed, target, crashes, born, cut>>

\* The batch is through, or the row is gone.
LeaveBatch(w) ==
    /\ pc[w] = "stop"
    /\ \/ w \notin armed /\ GoTo(w, "idle")
       \/ /\ w \in armed /\ local[w].at > local[w].upto
          /\ GoTo(w, IF local[w].full THEN "loop" ELSE "idle")
    /\ UNCHANGED <<log, notices, source, rows, drains, local, failed, target, crashes, born, cut>>

AtStop(w) == pc[w] = "stop" /\ w \in armed /\ local[w].at <= local[w].upto

NextStop(w) == local' = [local EXCEPT ![w].at = @ + 1]

\* updateSessionWatch; a row that is gone stays gone.
Advance(w) ==
    /\ cursor' = IF w \in armed THEN [cursor EXCEPT ![w] = local[w].at] ELSE cursor
    /\ pending' = IF w \in armed THEN [pending EXCEPT ![w] = None] ELSE pending

Skip(w) ==
    /\ AtStop(w) /\ ~Reportable(w, local[w].at)
    /\ Advance(w) /\ NextStop(w)
    /\ UNCHANGED <<log, notices, source, armed, terms, issued, drains, pc, failed, target,
                   crashes, born, cut>>

\* Wrong variant: a wake that cannot be sent is passed over.
HoldNone(w) ==
    /\ AtStop(w) /\ Reportable(w, local[w].at)
    /\ terms[w].delivery = "wake" /\ local[w].held
    /\ Advance(w) /\ NextStop(w)
    /\ UNCHANGED <<log, notices, source, armed, terms, issued, drains, pc, failed, target,
                   crashes, born, cut>>

\* A wake waits for the end of the pause, in order.
Hold(w) ==
    /\ AtStop(w) /\ Reportable(w, local[w].at)
    /\ terms[w].delivery = "wake" /\ local[w].held
    /\ GoTo(w, "idle")
    /\ UNCHANGED <<log, notices, source, rows, drains, local, failed, target, crashes, born, cut>>

\* appendObservation
Observe(w) ==
    /\ AtStop(w) /\ Reportable(w, local[w].at)
    /\ terms[w].delivery = "observe"
    /\ LET event == <<w, local[w].at>>
       IN fired' = IF event \in Values(fired) THEN fired ELSE Append(fired, event)
    /\ GoTo(w, "settle")
    /\ UNCHANGED <<log, notices, source, rows, drains, local, failed, paused, active, queue,
                   enqueued, operation, admitted, pauses, crashes, born, cut>>

\* Wrong variant: every attempt makes up an id of its own.
HasIdNever(w) == FALSE

\* The id of an earlier attempt at this stop.
HasId(w) == pending[w].seq = local[w].at /\ pending[w].op # 0

\* wake: the id is stored before it is used.
Prepare(w) ==
    /\ AtStop(w) /\ Reportable(w, local[w].at)
    /\ terms[w].delivery = "wake" /\ ~local[w].held
    /\ GoTo(w, "send")
    /\ \/ HasId(w) /\ UNCHANGED <<pending, issued>>
       \/ /\ ~HasId(w) /\ Len(issued) < MaxOps
          /\ issued' = Append(issued, <<w, local[w].at>>)
          /\ pending' = [pending EXCEPT ![w] = [seq |-> local[w].at, op |-> Len(issued) + 1]]
    /\ UNCHANGED <<log, notices, source, armed, terms, cursor, drains, local, failed, target,
                   crashes, born, cut>>

Op(w) == pending[w].op

\* send: an operation of this id has the answer already.
LookUp(w) ==
    /\ pc[w] = "send" /\ operation[Op(w)] # "rejected" /\ operation[Op(w)] # "unknown"
    /\ GoTo(w, IF operation[Op(w)] = "confirmed" THEN "settle" ELSE "route")
    /\ UNCHANGED <<log, notices, source, rows, drains, local, failed, target, crashes, born, cut>>

LookUpFails(w) ==
    /\ pc[w] = "send" /\ operation[Op(w)] \in {"rejected", "unknown"}
    /\ Throw(w)

\* Nothing was done yet and the session cannot take a message.
Refuse(w) == pc[w] = "route" /\ Throw(w)

\* Into a paused session it is queued at once; otherwise an earlier queueing
\* with this id is the answer.
Route(w) ==
    /\ pc[w] = "route"
    /\ GoTo(w, IF paused THEN "insert"
               ELSE IF Op(w) \in enqueued THEN "settle" ELSE "join")
    /\ UNCHANGED <<log, notices, source, rows, drains, local, failed, target, crashes, born, cut>>

Blocked == active \/ \E op \in Ops : operation[op] \in {"executing", "unknown"}

\* Wrong variant: the queue is left to the dispatcher.
MustQueueIfBlocked == Blocked

\* Behind a turn, an unsettled operation or what is queued already.
MustQueue == Blocked \/ queue # <<>>

Join(w) ==
    /\ pc[w] = "join"
    /\ GoTo(w, IF MustQueue THEN "insert" ELSE "admit")
    /\ UNCHANGED <<log, notices, source, rows, drains, local, failed, target, crashes, born, cut>>

\* Wrong variant: the row is inserted without looking for its id.
InsertRowAgain(w) ==
    /\ pc[w] = "insert"
    /\ queue' = Append(queue, Op(w))
    /\ GoTo(w, "note")
    /\ UNCHANGED <<log, notices, source, rows, drains, local, failed, paused, active, enqueued,
                   operation, admitted, fired, pauses, crashes, born, cut>>

\* enqueueMessage: the row, if there is none of this id ...
InsertRow(w) ==
    /\ pc[w] = "insert"
    /\ \/ /\ Op(w) \in Values(queue)
          /\ GoTo(w, "settle")
          /\ UNCHANGED queue
       \/ /\ Op(w) \notin Values(queue)
          /\ queue' = Append(queue, Op(w))
          /\ GoTo(w, "note")
    /\ UNCHANGED <<log, notices, source, rows, drains, local, failed, paused, active, enqueued,
                   operation, admitted, fired, pauses, crashes, born, cut>>

\* ... and then its event.
NoteRow(w) ==
    /\ pc[w] = "note"
    /\ enqueued' = enqueued \cup {Op(w)}
    /\ GoTo(w, "settle")
    /\ UNCHANGED <<log, notices, source, rows, drains, local, failed, paused, active, queue,
                   operation, admitted, fired, pauses, crashes, born, cut>>

\* admitTurn, under the session lock: a turn or an operation began meanwhile.
Behind(w) ==
    /\ pc[w] = "admit" /\ Blocked
    /\ GoTo(w, "insert")
    /\ UNCHANGED <<log, notices, source, rows, drains, local, failed, target, crashes, born, cut>>

\* The operation and the message in one transaction; a pause that began since
\* the target was read ends.
Admit(w) ==
    /\ pc[w] = "admit" /\ ~Blocked
    /\ operation' = [operation EXCEPT ![Op(w)] = "executing"]
    /\ admitted' = Append(admitted, Op(w))
    /\ active' = TRUE
    /\ paused' = FALSE
    /\ IF paused THEN Tell(log) ELSE UNCHANGED <<notices, told>>
    /\ GoTo(w, "answer")
    /\ UNCHANGED <<log, halted, owed, rows, drains, local, failed, queue, enqueued, fired, pauses,
                   crashes, born, cut>>

Answered(w, state) ==
    /\ pc[w] = "answer" /\ operation[Op(w)] = "executing"
    /\ operation' = [operation EXCEPT ![Op(w)] = state]
    /\ active' = (state # "rejected")
    /\ UNCHANGED <<log, notices, source, rows, drains, local, paused, queue, enqueued, admitted,
                   fired, pauses, crashes, born, cut>>

Confirm(w) == Answered(w, "confirmed") /\ GoTo(w, "settle") /\ UNCHANGED failed

Decline(w) ==
    /\ \E state \in {"rejected", "unknown"} : Answered(w, state)
    /\ GoTo(w, "idle")
    /\ failed' = failed \cup {w}

\* Wrong variant: a one-shot watch is done with a pause.
IsPauseNever(w) == FALSE

\* A pause is not the end: even a one-shot watch stays armed.
IsPause(w) == Reason(log[local[w].at]) = "paused"

Settle(w) ==
    /\ pc[w] = "settle"
    /\ \/ /\ terms[w].once /\ ~IsPause(w)
          /\ armed' = armed \ {w}
          /\ GoTo(w, "idle")
          /\ UNCHANGED <<cursor, pending, local>>
       \/ /\ ~terms[w].once \/ IsPause(w)
          /\ Advance(w) /\ NextStop(w)
          /\ GoTo(w, "stop")
          /\ UNCHANGED armed
    /\ UNCHANGED <<log, notices, source, terms, issued, drains, failed, target, crashes, born, cut>>

-----------------------------------------------------------------------------
(* The target.                                                             *)

\* dispatchQueue, under the session lock: a paused session holds hidden work.
Dispatch ==
    /\ ~Blocked /\ ~paused /\ queue # <<>>
    /\ queue' = Tail(queue)
    /\ admitted' = Append(admitted, Head(queue))
    /\ active' = TRUE
    /\ UNCHANGED <<log, notices, source, rows, run, paused, enqueued, operation, fired, pauses,
                   crashes, born, cut>>

\* A person writes, which ends a pause.
Write ==
    /\ ~Blocked
    /\ active' = TRUE /\ paused' = FALSE
    /\ IF paused THEN Tell(log) ELSE UNCHANGED <<notices, told>>
    /\ UNCHANGED <<log, halted, owed, rows, run, queue, enqueued, operation, admitted, fired, pauses,
                   crashes, born, cut>>

Settled == \A op \in Ops : operation[op] # "executing"

\* The turn ends, paused by a person or not.
TargetStops(pausing) ==
    /\ active /\ Settled
    /\ active' = FALSE
    /\ paused' = pausing
    /\ pausing => pauses < MaxPauses
    /\ pauses' = IF pausing THEN pauses + 1 ELSE pauses
    /\ UNCHANGED <<log, notices, source, rows, run, queue, enqueued, operation, admitted, fired,
                   crashes, born, cut>>

\* Stop on the paused target.
StopPause ==
    /\ paused /\ ~active
    /\ paused' = FALSE
    /\ Tell(log)
    /\ UNCHANGED <<log, halted, owed, rows, run, active, queue, enqueued, operation, admitted, fired,
                   pauses, crashes, born, cut>>

\* Reconciliation finds out what became of a call.
Resolve(op, state) ==
    /\ operation[op] = "unknown"
    /\ operation' = [operation EXCEPT ![op] = state]
    /\ UNCHANGED <<log, notices, source, rows, run, paused, active, queue, enqueued, admitted,
                   fired, pauses, crashes, born, cut>>

-----------------------------------------------------------------------------
\* Queued by a drain that has not settled: what a crash tears.
Torn(w) ==
    \/ pc[w] = "note"
    \/ pc[w] = "settle" /\ terms[w].delivery = "wake" /\ operation[Op(w)] = "none"

\* The process dies and starts again; recover drains every watch.
Crash ==
    /\ crashes < MaxCrashes
    /\ crashes' = crashes + 1
    /\ cut' = cut \cup {Op(w) : w \in {v \in armed : Torn(v)}}
    /\ notices' = 0 /\ told' = Len(log) /\ owed' = FALSE
    /\ drains' = [w \in Watches |-> IF w \in armed THEN 1 ELSE 0]
    /\ pc' = [w \in Watches |-> IF pc[w] \in {"new", "creating"} THEN "new" ELSE "idle"]
    /\ operation' = [op \in Ops |->
           IF operation[op] = "executing" THEN "unknown" ELSE operation[op]]
    /\ active' = FALSE
    /\ failed' = {}
    /\ UNCHANGED <<log, halted, rows, local, paused, queue, enqueued, admitted, fired, pauses, born>>

Drain(w) ==
    \/ Insert(w)
    \/ Begin(w) \/ Look(w) \/ LeaveBatch(w) \/ Skip(w) \/ Hold(w) \/ Observe(w)
    \/ Prepare(w) \/ LookUp(w) \/ LookUpFails(w) \/ Refuse(w) \/ Route(w) \/ Join(w) \/ Behind(w)
    \/ InsertRow(w) \/ NoteRow(w) \/ Admit(w) \/ Confirm(w) \/ Decline(w) \/ Settle(w)

Source ==
    \/ \E kind \in Kinds : TurnStops(kind) \/ KeepAliveStops(kind) \/ RecordStop(kind)
    \/ ReleaseStop \/ RepairStop
    \/ \E outcome \in {"continued", "stopped"} : PauseEnds(outcome)

Next ==
    \/ Source
    \/ Kick
    \/ \E w \in Watches : Create(w) \/ CreateAgain(w) \/ Unwatch(w) \/ Drain(w)
    \/ Dispatch \/ Write \/ StopPause
    \/ \E pausing \in BOOLEAN : TargetStops(pausing)
    \/ \E op \in Ops : \E state \in {"confirmed", "rejected"} : Resolve(op, state)
    \/ Crash

\* Promises go on and calls answer; people, runtimes and crashes owe nothing.
Spec == Init /\ [][Next]_vars /\ WF_vars(Kick) /\ \A w \in Watches : WF_vars(Drain(w))

-----------------------------------------------------------------------------
(* Properties                                                              *)

\* Type invariant; the queue has one row of an id (its primary key).
TypeOK ==
    /\ log \in Seq(Kinds \cup {"continued", "stopped", "retrying"}) /\ Len(log) <= MaxStops + 1
    /\ notices \in Nat /\ halted \in BOOLEAN /\ owed \in BOOLEAN
    /\ told \in Nat /\ told <= Len(log)
    /\ armed \subseteq Watches /\ failed \subseteq Watches
    /\ terms \in [Watches -> Terms]
    /\ cursor \in [Watches -> 0..(MaxStops + 1)] /\ born \in [Watches -> 0..(MaxStops + 1)]
    /\ pending \in [Watches -> Pending]
    /\ issued \in Seq(Watches \X (1..(MaxStops + 1))) /\ Len(issued) <= MaxOps
    /\ drains \in [Watches -> 0..MaxWaiting]
    /\ pc \in [Watches -> {"new", "creating", "idle", "loop", "stop", "send", "route",
                           "join", "admit", "insert", "note", "answer", "settle"}]
    /\ local \in [Watches -> Local]
    /\ paused \in BOOLEAN /\ active \in BOOLEAN
    /\ queue \in Seq(Ops) /\ \A i, j \in 1..Len(queue) : queue[i] = queue[j] => i = j
    /\ enqueued \subseteq Ops /\ cut \subseteq Ops
    /\ operation \in [Ops -> {"none", "executing", "confirmed", "unknown", "rejected"}]
    /\ admitted \in Seq(Ops)
    /\ fired \in Seq(Watches \X (1..(MaxStops + 1)))
    /\ pauses \in 0..MaxPauses /\ crashes \in 0..MaxCrashes

\* What the target was told or will be: the messages it admitted, and those
\* that wait in its queue.
Wakes == admitted \o queue

\* A stop is reported once to a watch: a wake is admitted or queued once, and
\* observed once, over failing sends, retries after a crash, pauses and
\* recovered operations. Only a wake whose queueing a crash tore from its
\* settlement is excepted.
ReportedOnce ==
    /\ \A i, j \in 1..Len(Wakes) :
           i # j /\ issued[Wakes[i]] = issued[Wakes[j]] => Wakes[i] \in cut
    /\ \A i, j \in 1..Len(fired) : i # j => fired[i] # fired[j]

\* The target hears of the stops of a source in the order they happened:
\* neither a retry nor a direct admission overtakes what is queued.
InOrder ==
    \A i, j \in 1..Len(Wakes) :
        i < j /\ issued[Wakes[i]][1] = issued[Wakes[j]][1]
            => issued[Wakes[i]][2] <= issued[Wakes[j]][2]

Reported(w, seq) ==
    \/ <<w, seq>> \in Values(fired)
    \/ \E op \in Values(admitted) \cup Values(queue) : issued[op] = <<w, seq>>

\* The cursor never passes a stop the watch asked for and was not told of:
\* not one that came between reading the log's tail and the insertion, nor
\* one that met a pause, an exception or a crash.
NothingSkipped ==
    \A w \in Watches : \A seq \in (born[w] + 1)..cursor[w] :
        seq <= Len(log) /\ Reportable(w, seq) => Reported(w, seq)

\* A watch that ends by itself has told how the source ended: a pause is not
\* the end, and neither is an exception or a crash on the way.
TellsTheEnd ==
    [][\A w \in armed \ armed' :
        \/ Unwatch(w)
        \/ \E seq \in 1..Len(log) : Reported(w, seq) /\ Reason(log[seq]) \in Final]_vars

\* A watch catches up with what was announced, or is held by a pause of the
\* target, or its send failed and waits for the next announcement. Nothing
\* polls, and not every stop is announced: whatever is in the log when a stop
\* or the end of a pause is announced, or the process starts again, must be
\* looked at, also by a watch that was being created at that moment.
CatchesUp ==
    \A w \in Watches :
        w \in armed ~> \/ w \notin armed \/ cursor[w] >= told
                       \/ paused \/ w \in failed

\* A wake is never admitted twice. Not so, although the architecture notes say
\* that "a lost acknowledgement cannot duplicate the notification"
\* (docs/agents/architecture.md): the row and its event are two transactions,
\* and only the event is remembered once the row is dispatched.
WakeOnce ==
    \A i, j \in 1..Len(Wakes) : i # j => issued[Wakes[i]] # issued[Wakes[j]]
=============================================================================
