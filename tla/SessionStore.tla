---------------------------- MODULE SessionStore ----------------------------
(***************************************************************************)
(* The durable state of one session: its runtime operations, its delivery  *)
(* queue and its binding to a backend session, with the transactions of    *)
(* packages/session/src/index.ts that change them.  Every store call is    *)
(* one SQLite transaction, so one action.                                  *)
(*                                                                         *)
(* Around the store are the executors that carry a claimed operation to    *)
(* the runtime (they live in the server process and die with it) and the   *)
(* runtime itself, which may apply a call long after anybody waits for it. *)
(***************************************************************************)
EXTENDS Integers, FiniteSets, OperationRules

CONSTANTS
  Ops,          \* operation ids
  Msgs,         \* messages a user writes; also the ids of their queue rows
  FilesOnly,    \* messages that are attachments without any text
  Initial,      \* the backend session the session was created with
  NoOp, NoMsg,  \* "reservation_operation_id IS NULL", "no user/message owner"
  Replayable,   \* operations prepared with a same-operation-id contract
  MaxCalls,     \* bound on the calls of one replayable operation
  Kinds,        \* mutation kinds in use
  Unfenced,     \* TRUE: epochs may be replaced without an execution proof
  FreshResets   \* TRUE: an epoch is only opened with a reset never used before

ASSUME OpsAssumption ==
  /\ IsFiniteSet(Ops) /\ IsFiniteSet(Msgs)
  /\ Ops \cap Msgs = {}
  /\ Initial \notin Ops /\ NoOp \notin Ops /\ NoMsg \notin Msgs
  /\ FilesOnly \subseteq Msgs
  /\ Replayable \subseteq Ops
  /\ MaxCalls \in Nat \ {0}
  /\ Kinds \subseteq {"turn-submit", "turn-steer", "session-reset"}
  /\ Unfenced \in BOOLEAN /\ FreshResets \in BOOLEAN

\* A message keeps its id as a row id; a draft made from an operation has a
\* fresh id in the code, here the operation it was made from.
Rows == Msgs \cup Ops

\* A confirmed reset operation names the backend session it created.
Backends == {Initial} \cup Ops

Positions == (0 - Cardinality(Ops)) .. (Cardinality(Msgs) + Cardinality(Ops))

VARIABLES
  \* runtime_operations
  state,       \* column state
  kind,        \* column mutation_kind
  ordinal,     \* column ordinal, 0 while absent
  owner,       \* the user/message event of owner_event_seq, if it is one
  interrupted, \* operations whose code is 'process-restarted'
  \* session_queue
  queued,      \* rows present
  pos,         \* column position
  held,        \* column held_for_review
  resv,        \* column reservation_operation_id
  \* the projection's runtimeBinding and the markers in the event log
  backend,     \* the bound backend session
  markers,     \* resets named by a runtime/epoch-replaced event
  recovered,   \* operations named by a runtime/restart-recovered event
  \* the server process
  exec,        \* the executor of an operation: idle, claimed, called
  \* the runtime
  home,        \* the backend session an operation was sent to
  calls,       \* calls made for an operation
  fate,        \* what the runtime did with the call
  released,    \* backend sessions proven to execute nothing any more
  \* history
  carries,     \* the message an operation carries
  admitted,    \* messages accepted from the user
  touched      \* messages the user edited, or took out of the queue

opVars == <<state, kind, ordinal, owner, interrupted>>
queueVars == <<queued, pos, held, resv>>
epochVars == <<backend, markers, recovered>>
runtimeVars == <<home, calls, fate, released>>
historyVars == <<carries, admitted, touched>>
vars == <<state, kind, ordinal, owner, interrupted, queued, pos, held, resv,
          backend, markers, recovered, exec, home, calls, fate, released,
          carries, admitted, touched>>

Init ==
  /\ state = [o \in Ops |-> "absent"]
  /\ kind = [o \in Ops |-> "turn-submit"]
  /\ ordinal = [o \in Ops |-> 0]
  /\ owner = [o \in Ops |-> NoMsg]
  /\ interrupted = {}
  /\ queued = {}
  /\ pos = [r \in Rows |-> 0]
  /\ held = [r \in Rows |-> FALSE]
  /\ resv = [r \in Rows |-> NoOp]
  /\ backend = Initial
  /\ markers = {} /\ recovered = {}
  /\ exec = [o \in Ops |-> "idle"]
  /\ home = [o \in Ops |-> Initial]
  /\ calls = [o \in Ops |-> 0]
  /\ fate = [o \in Ops |-> "none"]
  /\ released = {}
  /\ carries = [o \in Ops |-> NoMsg]
  /\ admitted = {} /\ touched = {}

RowMsg(r) == IF r \in Msgs THEN r ELSE owner[r]

ReservedBy(o) == {r \in queued : resv[r] = o}

IsHead(r) == r \in queued /\ \A q \in queued : pos[r] <= pos[q]

-----------------------------------------------------------------------------
(* Preparing                                                               *)

\* SELECT COALESCE(MAX(ordinal), 0) + 1
IsNextOrdinal(n) ==
  /\ \A p \in Ops : ordinal[p] < n
  /\ n = 1 \/ \E p \in Ops : ordinal[p] = n - 1

InsertPreparedOperation(o, k) ==
  /\ state[o] = "absent"
  /\ state' = [state EXCEPT ![o] = "prepared"]
  /\ kind' = [kind EXCEPT ![o] = k]
  /\ \E n \in 1 .. Cardinality(Ops) :
       IsNextOrdinal(n) /\ ordinal' = [ordinal EXCEPT ![o] = n]

\* A direct send: the operation and its user/message event in one transaction.
PrepareTurn(o, m) ==
  /\ m \notin admitted
  /\ InsertPreparedOperation(o, "turn-submit")
  /\ owner' = [owner EXCEPT ![o] = m]
  /\ carries' = [carries EXCEPT ![o] = m]
  /\ admitted' = admitted \cup {m}
  /\ UNCHANGED <<interrupted, touched, exec>>
  /\ UNCHANGED <<queueVars, epochVars, runtimeVars>>

\* Any other mutation: its intent event is no user message.
PrepareOther(o, k) ==
  /\ k # "turn-submit"
  /\ InsertPreparedOperation(o, k)
  /\ UNCHANGED <<owner, interrupted, exec>>
  /\ UNCHANGED <<queueVars, epochVars, runtimeVars, historyVars>>

-----------------------------------------------------------------------------
(* The delivery queue                                                      *)

\* COALESCE(MAX(position), -1) + 1
IsNextPosition(n) ==
  /\ \A q \in queued : pos[q] < n
  /\ IF queued = {} THEN n = 0 ELSE \E q \in queued : pos[q] = n - 1

Enqueue(m) ==
  /\ m \notin admitted
  /\ \E n \in Positions : IsNextPosition(n) /\ pos' = [pos EXCEPT ![m] = n]
  /\ queued' = queued \cup {m}
  /\ held' = [held EXCEPT ![m] = FALSE]
  /\ resv' = [resv EXCEPT ![m] = NoOp]
  /\ admitted' = admitted \cup {m}
  /\ UNCHANGED <<carries, touched, exec>>
  /\ UNCHANGED <<opVars, epochVars, runtimeVars>>

\* The user rewrites a row: what is sent later is a new intent.
QueueEdit(r) ==
  /\ r \in queued /\ resv[r] = NoOp
  /\ held' = [held EXCEPT ![r] = FALSE]
  /\ touched' = touched \cup {RowMsg(r)}
  /\ UNCHANGED <<queued, pos, resv, carries, admitted, exec>>
  /\ UNCHANGED <<opVars, epochVars, runtimeVars>>

QueueRemove(r) ==
  /\ r \in queued /\ resv[r] = NoOp
  /\ queued' = queued \ {r}
  /\ touched' = touched \cup {RowMsg(r)}
  /\ UNCHANGED <<pos, held, resv, carries, admitted, exec>>
  /\ UNCHANGED <<opVars, epochVars, runtimeVars>>

\* Wrong variant: a reserved queue may be reordered.
ReorderAnyQueue ==
  /\ \E order \in [queued -> 0 .. (Cardinality(queued) - 1)] :
       /\ \A q, r \in queued : q # r => order[q] # order[r]
       /\ pos' = [r \in Rows |-> IF r \in queued THEN order[r] ELSE pos[r]]
  /\ UNCHANGED <<queued, held, resv, exec>>
  /\ UNCHANGED <<opVars, epochVars, runtimeVars, historyVars>>

\* ids must be an exact permutation of a queue with no reservation.
QueueReorder ==
  /\ \A r \in queued : resv[r] = NoOp
  /\ \E order \in [queued -> 0 .. (Cardinality(queued) - 1)] :
       /\ \A q, r \in queued : q # r => order[q] # order[r]
       /\ pos' = [r \in Rows |-> IF r \in queued THEN order[r] ELSE pos[r]]
  /\ UNCHANGED <<queued, held, resv, exec>>
  /\ UNCHANGED <<opVars, epochVars, runtimeVars, historyVars>>

\* The head row and only the head row can be reserved, and only when it is
\* neither held for review nor reserved already.
ReserveQueueHead(o, r) ==
  /\ IsHead(r) /\ ~held[r] /\ resv[r] = NoOp
  /\ InsertPreparedOperation(o, "turn-submit")
  /\ resv' = [resv EXCEPT ![r] = o]
  /\ carries' = [carries EXCEPT ![o] = RowMsg(r)]
  /\ UNCHANGED <<owner, interrupted, queued, pos, held, admitted, touched, exec>>
  /\ UNCHANGED <<epochVars, runtimeVars>>

-----------------------------------------------------------------------------
(* Claims, calls and settlements                                           *)

\* Wrong variant: an unknown operation may be claimed again.
ClaimUnsettledOperation(o) ==
  /\ state[o] \in {"prepared", "unknown"}
  /\ state' = [state EXCEPT ![o] = "executing"]
  /\ exec' = [exec EXCEPT ![o] = "claimed"]
  /\ home' = [home EXCEPT ![o] = backend]
  /\ UNCHANGED <<kind, ordinal, owner, interrupted, calls, fate, released>>
  /\ UNCHANGED <<queueVars, epochVars, historyVars>>

\* prepared -> executing, once; the executor binds to the current backend.
ClaimOperation(o) ==
  /\ state[o] = "prepared"
  /\ state' = [state EXCEPT ![o] = "executing"]
  /\ exec' = [exec EXCEPT ![o] = "claimed"]
  /\ home' = [home EXCEPT ![o] = backend]
  /\ UNCHANGED <<kind, ordinal, owner, interrupted, calls, fate, released>>
  /\ UNCHANGED <<queueVars, epochVars, historyVars>>

\* unknown -> executing for an operation whose contract lets the runtime
\* deduplicate by operation id.  No executor of it is running.
ReplayUnknownOperation(o) ==
  /\ state[o] = "unknown" /\ o \in Replayable
  /\ exec[o] = "idle" /\ calls[o] < MaxCalls
  /\ state' = [state EXCEPT ![o] = "executing"]
  /\ exec' = [exec EXCEPT ![o] = "claimed"]
  /\ home' = [home EXCEPT ![o] = backend]
  /\ UNCHANGED <<kind, ordinal, owner, interrupted, calls, fate, released>>
  /\ UNCHANGED <<queueVars, epochVars, historyVars>>

\* The executor's one call.
CallRuntime(o) ==
  /\ exec[o] = "claimed"
  /\ exec' = [exec EXCEPT ![o] = "called"]
  /\ calls' = [calls EXCEPT ![o] = @ + 1]
  /\ fate' = [fate EXCEPT ![o] = IF @ = "applied" THEN @
                                 ELSE IF home[o] \in released THEN "refused"
                                 ELSE "pending"]
  /\ UNCHANGED <<home, released>>
  /\ UNCHANGED <<opVars, queueVars, epochVars, historyVars>>

\* The runtime acts on a call whether or not its caller still waits.
RuntimeActs(o) ==
  /\ fate[o] = "pending"
  /\ \E f \in {"applied", "refused"} : fate' = [fate EXCEPT ![o] = f]
  /\ UNCHANGED <<home, calls, released, exec>>
  /\ UNCHANGED <<opVars, queueVars, epochVars, historyVars>>

\* Proof that a backend session executes nothing any more: what it had not
\* applied by then it never will.
BackendReleased(b) ==
  /\ b \notin released
  /\ b = Initial \/ (b \in Ops /\ kind[b] = "session-reset" /\ state[b] = "confirmed")
  /\ released' = released \cup {b}
  /\ fate' = [o \in Ops |-> IF fate[o] = "pending" /\ home[o] = b THEN "refused"
                            ELSE fate[o]]
  /\ UNCHANGED <<home, calls, exec>>
  /\ UNCHANGED <<opVars, queueVars, epochVars, historyVars>>

TransitionOperation(o, s) ==
  /\ state[o] \in SettlesFrom(s)
  /\ state' = [state EXCEPT ![o] = s]
  /\ interrupted' = interrupted \ {o}
  /\ UNCHANGED <<kind, ordinal, owner>>

\* The generic settlement: an operation that owns a queue row may only be
\* recorded as unknown here.
SettleOperation(o, s) ==
  /\ s = "unknown" \/ ReservedBy(o) = {}
  /\ TransitionOperation(o, s)
  /\ UNCHANGED queueVars

ConfirmQueueReservation(o) ==
  /\ ReservedBy(o) # {}
  /\ TransitionOperation(o, "confirmed")
  /\ queued' = queued \ ReservedBy(o)
  /\ UNCHANGED <<pos, held, resv>>

\* Wrong variant: a turn that was not applied takes its row along.
ReleaseDropsRow(o, s) ==
  /\ s \in {"rejected", "not-applied"}
  /\ ReservedBy(o) # {}
  /\ TransitionOperation(o, s)
  /\ queued' = queued \ ReservedBy(o)
  /\ UNCHANGED <<pos, held, resv>>

\* The row becomes an ordinary queue head again.
ReleaseQueueReservation(o, s) ==
  /\ s \in {"rejected", "not-applied"}
  /\ ReservedBy(o) # {}
  /\ TransitionOperation(o, s)
  /\ resv' = [r \in Rows |-> IF r \in ReservedBy(o) THEN NoOp ELSE resv[r]]
  /\ UNCHANGED <<queued, pos, held>>

Settle(o, s) ==
  \/ SettleOperation(o, s)
  \/ s = "confirmed" /\ ConfirmQueueReservation(o)
  \/ ReleaseQueueReservation(o, s)

\* Wrong variant: a call that timed out counts as rejected.
AnswersWithoutUnknown(o) ==
  IF fate[o] = "applied" THEN {"confirmed"} ELSE {"rejected"}

\* What an executor may conclude from the call it made: an answer of the
\* runtime, or nothing definite (a thrown error, a timeout).
Answers(o) ==
  {"unknown"} \cup (IF fate[o] = "applied" THEN {"confirmed"} ELSE {})
              \cup (IF fate[o] = "refused" THEN {"rejected"} ELSE {})

\* The executor records its answer.  Once the row has been settled by
\* somebody else the store throws and the answer is dropped.
ExecutorSettles(o) ==
  /\ exec[o] = "called"
  /\ exec' = [exec EXCEPT ![o] = "idle"]
  /\ \E s \in Answers(o) :
       \/ Settle(o, s)
       \/ state[o] \notin SettlesFrom(s) /\ UNCHANGED <<opVars, queueVars>>
  /\ UNCHANGED <<epochVars, runtimeVars, historyVars>>

\* Reconciliation settles an unknown operation from protocol evidence.
EvidenceSettles(o) ==
  /\ state[o] = "unknown"
  /\ \/ fate[o] = "applied" /\ Settle(o, "confirmed")
     \/ fate[o] \in {"none", "refused"} /\ exec[o] = "idle" /\ Settle(o, "not-applied")
  /\ UNCHANGED exec
  /\ UNCHANGED <<epochVars, runtimeVars, historyVars>>

-----------------------------------------------------------------------------
(* Restart                                                                 *)

\* Wrong variant: the store is opened without recovering executing rows.
RestartWithoutRecovery ==
  /\ exec' = [o \in Ops |-> "idle"]
  /\ UNCHANGED <<opVars, queueVars, epochVars, runtimeVars, historyVars>>

\* The process dies: its executors are gone.  Opening the store turns every
\* executing row into an unknown one before anything else runs.
Restart ==
  /\ exec' = [o \in Ops |-> "idle"]
  /\ state' = [o \in Ops |-> IF state[o] = "executing" THEN "unknown" ELSE state[o]]
  /\ interrupted' = interrupted \cup {o \in Ops : state[o] = "executing"}
  /\ UNCHANGED <<kind, ordinal, owner>>
  /\ UNCHANGED <<queueVars, epochVars, runtimeVars, historyVars>>

\* Turns cut by a restart that no marker names yet.
Stranded ==
  {o \in Ops : /\ state[o] = "unknown" /\ o \in interrupted
               /\ kind[o] \in {"turn-submit", "turn-steer"}
               /\ o \notin recovered}

\* Wrong variant: the row is released but not held for review.
RecoverWithoutHolding ==
  /\ Stranded # {}
  /\ recovered' = recovered \cup Stranded
  /\ resv' = [r \in Rows |-> IF r \in queued /\ resv[r] \in Stranded THEN NoOp ELSE resv[r]]
  /\ UNCHANGED <<queued, pos, held, backend, markers, exec>>
  /\ UNCHANGED <<opVars, runtimeVars, historyVars>>

\* The operations stay unknown; a reserved row becomes a held one.
RecoverRestartInterruptedTurns ==
  /\ Stranded # {}
  /\ recovered' = recovered \cup Stranded
  /\ held' = [r \in Rows |-> IF r \in queued /\ resv[r] \in Stranded THEN TRUE ELSE held[r]]
  /\ resv' = [r \in Rows |-> IF r \in queued /\ resv[r] \in Stranded THEN NoOp ELSE resv[r]]
  /\ UNCHANGED <<queued, pos, backend, markers, exec>>
  /\ UNCHANGED <<opVars, runtimeVars, historyVars>>

-----------------------------------------------------------------------------
(* Replacing the runtime epoch                                             *)

Older(reset) == {o \in Ops : state[o] # "absent" /\ ordinal[o] < ordinal[reset]}

\* Wrong variant: work of the old epoch that was never claimed stays prepared.
NothingRetired(reset) == {}

\* Prepared work never crossed the claim boundary.
Retired(reset) == {o \in Older(reset) : state[o] = "prepared"}

Uncertain(reset) == {o \in Older(reset) : state[o] \in {"executing", "unknown"}}

\* Wrong variant: only uncertain turns come back, retired ones are forgotten.
UncertainTurns(reset) == {o \in Uncertain(reset) : kind[o] = "turn-submit"}

\* The turns a fenced epoch gives back, in the order they are given back:
\* retired ones first, each group by ordinal.
GivenBack(reset) ==
  {o \in Retired(reset) \cup Uncertain(reset) : kind[o] = "turn-submit"}

GivenBackBefore(p, o) ==
  \/ state[p] = "prepared" /\ state[o] # "prepared"
  \/ (state[p] = "prepared") = (state[o] = "prepared") /\ ordinal[p] < ordinal[o]

\* COALESCE(MIN(position), 0)
IsLowest(n) ==
  IF queued = {} THEN n = 0
  ELSE (\E q \in queued : pos[q] = n) /\ (\A q \in queued : n <= pos[q])

\* Wrong variant: a draft is made of any owner event, or none.
DraftsOfAnyOwner(turns) == {o \in turns : ReservedBy(o) = {}}

\* Wrong variant: only turns with a queue row come back.
NoDrafts(turns) == {}

\* The turns without a queue row that get a draft: those whose owner event is
\* a user message with text to give back.
Drafts(turns) ==
  {o \in turns : ReservedBy(o) = {} /\ owner[o] \in Msgs \ FilesOnly}

\* A turn with a queue row: the row is held.  One without: a held draft of
\* its message goes to the front of the queue.
HoldEpochTurnsForReview(turns) ==
  LET drafts == Drafts(turns)
      before(o) == {p \in drafts : p = o \/ GivenBackBefore(p, o)}
  IN /\ queued' = queued \cup drafts
     /\ held' = [r \in Rows |-> IF r \in drafts \/ (r \in queued /\ resv[r] \in turns)
                                THEN TRUE ELSE held[r]]
     /\ resv' = [r \in Rows |-> IF r \in drafts \/ (r \in queued /\ resv[r] \in turns)
                                THEN NoOp ELSE resv[r]]
     /\ \E low \in Positions :
          /\ IsLowest(low)
          /\ pos' = [r \in Rows |-> IF r \in drafts THEN low - Cardinality(before(r))
                                    ELSE pos[r]]

\* What must hold before the binding moves to the session reset created.
MayReplaceBinding(reset) ==
  /\ kind[reset] = "session-reset" /\ state[reset] = "confirmed"
  /\ reset # backend
  /\ FreshResets => reset \notin markers

\* Wrong variant: any execution proven gone will do.
FenceNamesAny(proof) == proof \in released

\* A fence carries the identity of an execution that is proven gone; it must
\* be the one this session is bound to.
FenceNames(proof) == proof \in released /\ proof = backend

\* With proof that the bound execution is gone (destroyed or released): all
\* uncertain older work is fenced and its turns come back for review.
ReplaceFencedEpoch(reset, proof) ==
  /\ MayReplaceBinding(reset)
  /\ FenceNames(proof)
  /\ state' = [o \in Ops |-> IF o \in Retired(reset) THEN "rejected"
                             ELSE IF o \in Uncertain(reset) THEN "fenced"
                             ELSE state[o]]
  /\ interrupted' = interrupted \ Uncertain(reset)
  /\ HoldEpochTurnsForReview(GivenBack(reset))
  /\ backend' = reset
  /\ markers' = markers \cup {reset}
  /\ UNCHANGED <<kind, ordinal, owner, recovered, exec>>
  /\ UNCHANGED <<runtimeVars, historyVars>>

\* Without such proof (a borrowed runtime the user confirmed, an unknown
\* session replaced): retired and interrupted the same way, nothing fenced.
ReplaceUnfencedEpoch(reset) ==
  /\ Unfenced
  /\ MayReplaceBinding(reset)
  /\ state' = [o \in Ops |-> IF o \in Retired(reset) THEN "rejected"
                             ELSE IF o \in Uncertain(reset) THEN "unknown"
                             ELSE state[o]]
  /\ interrupted' = interrupted \ {o \in Uncertain(reset) : state[o] = "executing"}
  /\ backend' = reset
  /\ markers' = markers \cup {reset}
  /\ UNCHANGED <<kind, ordinal, owner, recovered, exec>>
  /\ UNCHANGED <<queueVars, runtimeVars, historyVars>>

-----------------------------------------------------------------------------
ClientNext ==
  \/ \E o \in Ops, m \in Msgs : PrepareTurn(o, m)
  \/ \E m \in Msgs : Enqueue(m)
  \/ \E r \in Rows : QueueEdit(r) \/ QueueRemove(r)
  \/ QueueReorder

ServerNext ==
  \/ \E o \in Ops, k \in Kinds : PrepareOther(o, k)
  \/ \E o \in Ops, r \in Rows : ReserveQueueHead(o, r)
  \/ \E o \in Ops : \/ ClaimOperation(o) \/ ReplayUnknownOperation(o)
                    \/ CallRuntime(o) \/ ExecutorSettles(o) \/ EvidenceSettles(o)
  \/ RecoverRestartInterruptedTurns
  \/ \E reset \in Ops, proof \in Backends : ReplaceFencedEpoch(reset, proof)
  \/ \E reset \in Ops : ReplaceUnfencedEpoch(reset)

EnvironmentNext ==
  \/ \E o \in Ops : RuntimeActs(o)
  \/ \E b \in Backends : BackendReleased(b)
  \/ Restart

Next == ClientNext \/ ServerNext \/ EnvironmentNext

Spec == Init /\ [][Next]_vars

-----------------------------------------------------------------------------
(* Properties                                                              *)

TypeOK ==
  /\ state \in [Ops -> OperationState]
  /\ kind \in [Ops -> {"turn-submit", "turn-steer", "session-reset"}]
  /\ ordinal \in [Ops -> Nat]
  /\ owner \in [Ops -> Msgs \cup {NoMsg}]
  /\ interrupted \subseteq Ops
  /\ queued \subseteq Rows
  /\ pos \in [Rows -> Int]
  /\ held \in [Rows -> BOOLEAN]
  /\ resv \in [Rows -> Ops \cup {NoOp}]
  /\ backend \in Backends
  /\ markers \subseteq Ops
  /\ recovered \subseteq Ops
  /\ exec \in [Ops -> {"idle", "claimed", "called"}]
  /\ home \in [Ops -> Backends]
  /\ calls \in [Ops -> Nat]
  /\ fate \in [Ops -> {"none", "pending", "applied", "refused"}]
  /\ released \subseteq Backends
  /\ carries \in [Ops -> Msgs \cup {NoMsg}]
  /\ admitted \subseteq Msgs
  /\ touched \subseteq Msgs

\* The runtime may have done, or may still do, what the operation asks.
MayTakeEffect(o) == fate[o] \in {"pending", "applied"} \/ exec[o] = "claimed"

\* Whatever crashes, epochs and settlements happen: an operation without a
\* replay contract is called at most once (claimOperation 1979-2007).
CalledAtMostOnce == \A o \in Ops \ Replayable : calls[o] <= 1

\* A message the user has not edited or taken back is never sent to a
\* runtime twice: at most one of the operations that ever carried it may
\* take effect (reserve, release, restart, epoch and resend together).
NoSilentResend ==
  \A o, p \in Ops : (o # p /\ carries[o] = carries[p] /\ carries[o] \in Msgs \ touched)
                      => ~MayTakeEffect(o) \/ ~MayTakeEffect(p)

\* What a settled row says about the runtime is true, and stays true.
OutcomeIsTrue ==
  \A o \in Ops :
    /\ state[o] = "confirmed" => fate[o] = "applied"
    /\ state[o] \in {"rejected", "not-applied"} => ~MayTakeEffect(o)

\* A turn that an epoch fenced, whose history the new backend session does
\* not have, comes back to the user as a held row (holdEpochTurnForReview).
FencedTurnComesBack ==
  \A o \in Ops : state[o] = "fenced" /\ kind[o] = "turn-submit" /\ carries[o] \notin touched
                   => \E r \in queued : RowMsg(r) = carries[o] /\ held[r]

\* A restart leaves no executing row behind without an executor that will
\* settle it (recoverExecutingInTransaction 2467-2494).
ExecutingHasExecutor == \A o \in Ops : state[o] = "executing" => exec[o] # "idle"

\* An operation older than a published epoch is never prepared or, without
\* a replay contract, executing: nothing of the old epoch can be claimed
\* onto the replacement runtime (transitionRuntimeEpoch 2324-2398).
NoStaleClaim ==
  \A reset \in markers, o \in Ops :
    ordinal[o] < ordinal[reset]
      => state[o] # "prepared" /\ (state[o] = "executing" => o \in Replayable)

\* The order of the queue is total, and the reserved row is its head; only
\* drafts that an epoch gave back may stand before it.  Together with tail
\* insertion: queued messages are sent in the order they were accepted.
ReservedIsHead ==
  /\ \A q, r \in queued : q # r => pos[q] # pos[r]
  /\ \A r \in queued : resv[r] # NoOp =>
       /\ ~held[r]
       /\ \A q \in queued : pos[q] < pos[r] => q \in Ops
       /\ \A q \in queued : resv[q] = resv[r] => q = r

\* A reservation names an operation that still owns its outcome, so the row
\* can be confirmed, released or held.  Otherwise nothing can ever free it.
ReservationIsLive ==
  \A r \in queued : resv[r] # NoOp => state[resv[r]] \in Blocking

\* Fencing is final: what was fenced never takes effect afterwards, so the
\* draft that came back may be sent again.
FencedIsFinal == \A o \in Ops : state[o] = "fenced" => fate[o] # "pending"

\* Wrong variant: every confirmed reset supersedes, published or not.
SupersededByAnyReset(o) ==
  /\ state[o] = "unknown"
  /\ \/ o \in recovered
     \/ \E reset \in Ops : /\ kind[reset] = "session-reset" /\ state[reset] = "confirmed"
                           /\ ordinal[o] < ordinal[reset]

\* admissionBlockingOperations: the unknown operations that no longer gate a
\* send, because a later epoch superseded them or because a restart that cut
\* them was recovered from.
Superseded(o) ==
  /\ state[o] = "unknown"
  /\ o \in recovered \/ \E reset \in markers : ordinal[o] < ordinal[reset]

\* An uncertain call of which nothing more will come from this side: it has
\* no executor and no row, and a row of its message waits for the user.
LeftToTheUser(o) ==
  /\ exec[o] = "idle" /\ ReservedBy(o) = {}
  /\ \A r \in queued : RowMsg(r) = carries[o] /\ carries[o] \in Msgs \ touched => held[r]

\* Opening the gate is sound (operationAdmission 93-100): an uncertain call
\* that the gate ignores went to another backend session than the next turn
\* goes to, or it is one that a restart cut.  The latter may still be running
\* in the bound backend session, but nothing is left that would send it or
\* its message again unless the user does.
GateOpensSafely ==
  \A o \in Ops \ Replayable :
    Superseded(o) => home[o] # backend \/ (o \in recovered /\ LeftToTheUser(o))

\* A settled operation never changes again.
SettledForGood ==
  [][\A o \in Ops : state[o] \in Terminal => state'[o] = state[o]]_vars

-----------------------------------------------------------------------------
(* What all this is for                                                    *)

Carried(m) == {o \in Ops : carries[o] = m}

Applications(m) == Cardinality({o \in Carried(m) : fate[o] = "applied"})

\* Where the user finds a message: as a row of the queue, or, when it was
\* sent directly, as the user/message event that owns its operation.
StatusOf(m) ==
  IF m \notin admitted THEN "new"
  ELSE IF m \in touched THEN "withdrawn"
  ELSE IF \E o \in Carried(m) : state[o] = "confirmed" THEN "delivered"
  ELSE IF (\E r \in queued : RowMsg(r) = m) \/ (\E o \in Carried(m) : owner[o] = m) THEN "kept"
  ELSE "lost"

Delivery == INSTANCE MessageDelivery
              WITH status <- [m \in Msgs |-> StatusOf(m)],
                   applied <- [m \in Msgs |-> Applications(m)]

\* The tables of a session deliver messages as promised: neither a failed
\* dispatch, a restart nor an epoch loses one or has it acted on twice, and
\* none is confirmed that was not acted on (confirm, release, hold: 3301-3480).
DeliveryKeepsPromise == Delivery!Spec

=============================================================================
