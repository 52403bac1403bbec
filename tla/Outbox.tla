------------------------------- MODULE Outbox -------------------------------
(***************************************************************************)
(* The outbox of the control plane: audit events leave the database in     *)
(* order, each at least once.                                              *)
(*                                                                         *)
(* A delivery claims the oldest undelivered row with a lease, hands the    *)
(* event to the consumer outside the transaction, and acknowledges it if   *)
(* the lease is still its own. A failure delays the next attempt; a row    *)
(* that used up its attempts stops the stream until an operator retries it.*)
(* A worker in each server process drives the deliveries from one timer.   *)
(*                                                                         *)
(* Time is two flags of a row, a lease that is live and a next attempt that*)
(* is not due; each ends by itself.                                        *)
(***************************************************************************)
EXTENDS Integers, FiniteSets

CONSTANTS
    Procs,        \* server processes on one database
    Nobody,       \* a null lease_token
    MaxEvents,    \* bound on the rows
    MaxAttempts,  \* maxAttempts
    MaxThrows     \* bound on transactions the database fails

ASSUME OutboxAssumption ==
    /\ IsFiniteSet(Procs) /\ Nobody \notin Procs
    /\ MaxEvents \in Nat /\ MaxThrows \in Nat /\ MaxAttempts \in Nat \ {0}

Events == 1..MaxEvents

VARIABLES
    appended,    \* rows in the table
    delivered,   \* those with a delivered_at_ms
    attempts,    \* their attempts
    lease,       \* the process of their lease_token
    live,        \* their lease has not expired
    waiting,     \* their next_attempt_at_ms is in the future
    running,     \* worker: between start and stop
    timer,       \* its timer is set
    awaited,     \* a runScheduled awaits the flight
    pc,          \* where its flight is
    held,        \* the event it claimed
    throws,
    seen,        \* history: what the consumer saw
    calls,       \* history: how often it was called with an event
    pardons      \* history: how often an operator retried an event

table   == <<appended, delivered, attempts, lease, live, waiting>>
worker  == <<running, timer, awaited>>
flight  == <<pc, held>>
history == <<seen, calls, pardons>>
vars    == <<appended, delivered, attempts, lease, live, waiting, running, timer,
             awaited, pc, held, throws, seen, calls, pardons>>

Init ==
    /\ appended = 0 /\ delivered = {}
    /\ attempts = [e \in Events |-> 0]
    /\ lease = [e \in Events |-> Nobody]
    /\ live = [e \in Events |-> FALSE] /\ waiting = [e \in Events |-> FALSE]
    /\ running = [p \in Procs |-> FALSE] /\ timer = [p \in Procs |-> FALSE]
    /\ awaited = [p \in Procs |-> FALSE]
    /\ pc = [p \in Procs |-> "none"] /\ held = [p \in Procs |-> 0]
    /\ throws = 0
    /\ seen = {}
    /\ calls = [e \in Events |-> 0] /\ pardons = [e \in Events |-> 0]

-----------------------------------------------------------------------------
(* The rows.                                                               *)

Pending == (1..appended) \ delivered

\* Wrong variant: the oldest row that may be tried, not the oldest.
IsHeadOfDue(e) ==
    LET due == {f \in Pending : attempts[f] < MaxAttempts /\ ~waiting[f]}
    IN e \in due /\ \A f \in due : e <= f

\* ORDER BY id LIMIT 1
IsHead(e) == e \in Pending /\ \A f \in Pending : e <= f

Leased(e) == lease[e] # Nobody /\ live[e]

\* audit: a row for each mutation, in its transaction.
Audit ==
    /\ appended < MaxEvents
    /\ appended' = appended + 1
    /\ UNCHANGED <<delivered, attempts, lease, live, waiting, worker, flight, throws, history>>

\* A row that used up its attempts and that nobody works on.
Blocked(e) == attempts[e] >= MaxAttempts /\ ~Leased(e)

\* retryBlocked; it leaves an audit event of its own.
RetryBlocked(e) ==
    /\ e \in Pending /\ Blocked(e)
    /\ appended < MaxEvents /\ appended' = appended + 1
    /\ attempts' = [attempts EXCEPT ![e] = 0]
    /\ waiting' = [waiting EXCEPT ![e] = FALSE]
    /\ lease' = [lease EXCEPT ![e] = Nobody]
    /\ live' = [live EXCEPT ![e] = FALSE]
    /\ pardons' = [pardons EXCEPT ![e] = @ + 1]
    /\ UNCHANGED <<delivered, worker, flight, throws, seen, calls>>

Expire(e) ==
    /\ live[e]
    /\ live' = [live EXCEPT ![e] = FALSE]
    /\ UNCHANGED <<appended, delivered, attempts, lease, waiting, worker, flight, throws, history>>

FallsDue(e) ==
    /\ waiting[e]
    /\ waiting' = [waiting EXCEPT ![e] = FALSE]
    /\ UNCHANGED <<appended, delivered, attempts, lease, live, worker, flight, throws, history>>

-----------------------------------------------------------------------------
(* deliverNext, in the flight of a worker.                                 *)

GoTo(p, label) == pc' = [pc EXCEPT ![p] = label]

\* Wrong variant: the row is tried as often as it takes.
MayTryForEver(e) == ~Leased(e) /\ ~waiting[e]

MayTry(e) == ~Leased(e) /\ attempts[e] < MaxAttempts /\ ~waiting[e]

\* Wrong variant: an attempt counts when it is reported failed.
CountNone(e) == UNCHANGED attempts

\* An attempt counts from the claim on, so that it counts if the process dies.
Count(e) == attempts' = [attempts EXCEPT ![e] = @ + 1]

Claim(p) ==
    /\ pc[p] = "claim"
    /\ \E e \in Events :
        /\ IsHead(e) /\ MayTry(e)
        /\ lease' = [lease EXCEPT ![e] = p]
        /\ live' = [live EXCEPT ![e] = TRUE]
        /\ Count(e)
        /\ held' = [held EXCEPT ![p] = e]
    /\ GoTo(p, "call")
    /\ UNCHANGED <<appended, delivered, waiting, worker, throws, history>>

\* Idle, waiting or blocked: the flight ends.
FindsNothing(p) ==
    /\ pc[p] = "claim"
    /\ \A e \in Events : ~(IsHead(e) /\ MayTry(e))
    /\ GoTo(p, "landed")
    /\ UNCHANGED <<table, worker, held, throws, history>>

\* The consumer is called, and sees the event whether it then fails or not.
Deliver(p) ==
    /\ pc[p] = "call"
    /\ calls' = [calls EXCEPT ![held[p]] = @ + 1]
    /\ \/ GoTo(p, "ack") /\ seen' = seen \cup {held[p]}
       \/ GoTo(p, "fail") /\ seen' \in {seen, seen \cup {held[p]}}
    /\ UNCHANGED <<table, worker, held, throws, pardons>>

Owns(p) == lease[held[p]] = p /\ held[p] \notin delivered

\* The flight goes on up to its batch, or ends.
Acknowledge(p) ==
    /\ pc[p] = "ack" /\ Owns(p)
    /\ delivered' = delivered \cup {held[p]}
    /\ lease' = [lease EXCEPT ![held[p]] = Nobody]
    /\ live' = [live EXCEPT ![held[p]] = FALSE]
    /\ \E label \in {"claim", "landed"} : GoTo(p, label)
    /\ UNCHANGED <<appended, attempts, waiting, worker, held, throws, history>>

\* The transaction throws: the delivery counts as failed.
AcknowledgeThrows(p) ==
    /\ pc[p] = "ack" /\ throws < MaxThrows
    /\ throws' = throws + 1
    /\ GoTo(p, "fail")
    /\ UNCHANGED <<table, worker, held, history>>

Release(p) ==
    /\ pc[p] = "fail" /\ Owns(p)
    /\ lease' = [lease EXCEPT ![held[p]] = Nobody]
    /\ live' = [live EXCEPT ![held[p]] = FALSE]
    /\ waiting' = [waiting EXCEPT ![held[p]] = TRUE]
    /\ GoTo(p, "landed")
    /\ UNCHANGED <<appended, delivered, attempts, worker, held, throws, history>>

LeaseLost(p) ==
    /\ pc[p] \in {"ack", "fail"} /\ ~Owns(p)
    /\ GoTo(p, "landed")
    /\ UNCHANGED <<table, worker, held, throws, history>>

\* An exception of the claim, of reading the event or of the release ends the
\* flight; a claim that was made keeps its lease.
Throw(p) ==
    /\ pc[p] \in {"claim", "call", "fail"} /\ throws < MaxThrows
    /\ throws' = throws + 1
    /\ GoTo(p, "landed")
    /\ UNCHANGED <<table, worker, held, history>>

-----------------------------------------------------------------------------
(* The worker.                                                             *)

Schedule(p) == timer' = [timer EXCEPT ![p] = TRUE]

Start(p) ==
    /\ ~running[p]
    /\ running' = [running EXCEPT ![p] = TRUE]
    /\ Schedule(p)
    /\ UNCHANGED <<table, awaited, flight, throws, history>>

Kick(p) ==
    /\ running[p]
    /\ Schedule(p)
    /\ UNCHANGED <<table, running, awaited, flight, throws, history>>

\* flush: at most one flight, which a second caller joins.
Flush(p) == GoTo(p, IF pc[p] = "none" THEN "claim" ELSE pc[p])

TimerFires(p) ==
    /\ timer[p]
    /\ timer' = [timer EXCEPT ![p] = FALSE]
    /\ awaited' = [awaited EXCEPT ![p] = TRUE]
    /\ Flush(p)
    /\ UNCHANGED <<table, running, held, throws, history>>

\* Wrong variant: the worker waits for a kick when nothing was due.
LandQuietly(p) ==
    /\ pc[p] = "landed"
    /\ GoTo(p, "none")
    /\ held' = [held EXCEPT ![p] = 0]
    /\ awaited' = [awaited EXCEPT ![p] = FALSE]
    /\ timer' = [timer EXCEPT ![p] = @ \/ (awaited[p] /\ running[p] /\ held[p] # 0)]
    /\ UNCHANGED <<table, running, throws, history>>

\* Who awaits the flight schedules the next one, however it ended.
Land(p) ==
    /\ pc[p] = "landed"
    /\ GoTo(p, "none")
    /\ held' = [held EXCEPT ![p] = 0]
    /\ awaited' = [awaited EXCEPT ![p] = FALSE]
    /\ timer' = [timer EXCEPT ![p] = @ \/ (awaited[p] /\ running[p])]
    /\ UNCHANGED <<table, running, throws, history>>

\* stop: what is in flight is awaited, not cut.
Stop(p) ==
    /\ running[p]
    /\ running' = [running EXCEPT ![p] = FALSE]
    /\ timer' = [timer EXCEPT ![p] = FALSE]
    /\ UNCHANGED <<table, awaited, flight, throws, history>>

\* The process dies; the rows stay.
Crash(p) ==
    /\ running[p]
    /\ running' = [running EXCEPT ![p] = FALSE]
    /\ timer' = [timer EXCEPT ![p] = FALSE]
    /\ awaited' = [awaited EXCEPT ![p] = FALSE]
    /\ GoTo(p, "none")
    /\ held' = [held EXCEPT ![p] = 0]
    /\ UNCHANGED <<table, throws, history>>

Fly(p) ==
    \/ Claim(p) \/ FindsNothing(p) \/ Deliver(p) \/ Acknowledge(p) \/ AcknowledgeThrows(p)
    \/ Release(p) \/ LeaseLost(p) \/ Throw(p) \/ Land(p)

Next ==
    \/ Audit
    \/ \E e \in Events : RetryBlocked(e) \/ Expire(e) \/ FallsDue(e)
    \/ \E p \in Procs : Fly(p) \/ TimerFires(p) \/ Start(p) \/ Kick(p) \/ Stop(p) \/ Crash(p)

\* A process that lives takes its steps, and time passes.
Spec ==
    /\ Init /\ [][Next]_vars
    /\ \A p \in Procs : WF_vars(Fly(p)) /\ WF_vars(TimerFires(p))
    /\ \A e \in Events : WF_vars(Expire(e)) /\ WF_vars(FallsDue(e))

-----------------------------------------------------------------------------
(* Properties                                                              *)

\* Type invariant; no row is tried beyond its attempts.
TypeOK ==
    /\ appended \in 0..MaxEvents
    /\ delivered \subseteq Events /\ seen \subseteq Events
    /\ attempts \in [Events -> 0..MaxAttempts]
    /\ lease \in [Events -> Procs \cup {Nobody}]
    /\ live \in [Events -> BOOLEAN] /\ waiting \in [Events -> BOOLEAN]
    /\ running \in [Procs -> BOOLEAN] /\ timer \in [Procs -> BOOLEAN]
    /\ awaited \in [Procs -> BOOLEAN]
    /\ pc \in [Procs -> {"none", "claim", "call", "ack", "fail", "landed"}]
    /\ held \in [Procs -> 0..MaxEvents]
    /\ throws \in 0..MaxThrows
    /\ calls \in [Events -> Nat] /\ pardons \in [Events -> Nat]

\* "At-least-once delivery. ... A poison event stops this ordered stream"
\* (outbox.ts): whatever two processes, expired leases, failures and crashes
\* do, the consumer first sees the events in order, and what is acknowledged
\* it has seen.
Stream == INSTANCE OrderedStream
Ordered == Stream!Spec

\* An event that fails, or that kills the process each time, is handed to the
\* consumer a bounded number of times for each decision of an operator.
PoisonIsBounded == \A e \in Events : calls[e] <= MaxAttempts * (pardons[e] + 1)

StreamBlocked == \E e \in Events : IsHead(e) /\ Blocked(e)

\* If a worker runs on, every event is acknowledged in the end, or the stream
\* is blocked and status shows it: no failure, kick, stop and start, or lease
\* of a dead process leaves a worker without its timer or an event behind.
Progress ==
    (\E p \in Procs : <>[]running[p])
        => \A e \in Events : e <= appended ~> e \in delivered \/ StreamBlocked
=============================================================================
