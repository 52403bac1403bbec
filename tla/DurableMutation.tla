-------------------------- MODULE DurableMutation --------------------------
(***************************************************************************)
(* executeDurableRuntimeMutation of packages/session/src/index.ts and the  *)
(* background tasks built on it (packages/server/src/oneshot.ts and        *)
(* packages/multirun/src/runner.ts): a task creates a backend session and  *)
(* then submits one turn to it, each as a durable mutation of a synthetic  *)
(* session.  Callers are attempts at the same task, concurrent ones and    *)
(* retries after a crash alike; all that relates them is the store and,    *)
(* within a process, a chain of promises per mutation kind.                *)
(***************************************************************************)
EXTENDS Integers, Sequences, OperationRules

CONSTANTS
  Callers, \* attempts at the task
  Ops,     \* operation ids
  NoOp     \* no operation read or prepared yet

ASSUME DurableAssumption == NoOp \notin Ops

Kinds == {"session-create", "turn-submit"}

VARIABLES
  state,  \* column state of runtime_operations
  kind,   \* column mutation_kind
  tails,  \* runtimeMutationTails: who holds and who awaits the gate of a kind
  pc,     \* where an attempt stands
  doing,  \* the mutation an attempt is at
  op,     \* its operation
  outcome,\* what its call returned
  answer, \* what it was told, by mutation kind
  calls,  \* calls the runtime received, by mutation kind
  fate    \* what the runtime did with the call of an operation

storeVars == <<state, kind>>
runtimeVars == <<calls, fate>>
vars == <<state, kind, tails, pc, doing, op, outcome, answer, calls, fate>>

Init ==
  /\ state = [o \in Ops |-> "absent"]
  /\ kind = [o \in Ops |-> "session-create"]
  /\ tails = [k \in Kinds |-> <<>>]
  /\ pc = [c \in Callers |-> "out"]
  /\ doing = [c \in Callers |-> "session-create"]
  /\ op = [c \in Callers |-> NoOp]
  /\ outcome = [c \in Callers |-> "unknown"]
  /\ answer = [c \in Callers |-> [k \in Kinds |-> "none"]]
  /\ calls = [k \in Kinds |-> 0]
  /\ fate = [o \in Ops |-> "none"]

\* Wrong variant: whoever awaits the gate may pass it.
HoldsLoosely(c) ==
  \E i \in 1 .. Len(tails[doing[c]]) : tails[doing[c]][i] = c

\* The gate of a kind is passed in the order in which callers arrived.
Holds(c) == tails[doing[c]] # <<>> /\ Head(tails[doing[c]]) = c

Queue(c, k) == tails' = [tails EXCEPT ![k] = Append(@, c)]

Arrive(c) ==
  /\ pc[c] = "out"
  /\ pc' = [pc EXCEPT ![c] = "waiting"]
  /\ Queue(c, "session-create")
  /\ UNCHANGED <<doing, op, outcome, answer>>
  /\ UNCHANGED <<storeVars, runtimeVars>>

\* Wrong variant: a task goes on whatever it was told.
AlwaysNext(k, a) == IF k = "session-create" THEN "created" ELSE "done"

\* A task goes on to its turn only with a confirmed backend session.
AfterAnswer(k, a) ==
  IF k = "session-create" /\ a = "confirmed" THEN "created" ELSE "done"

\* Wrong variant: the gate is released only after a definite answer.
ReleaseIfDefinite(c, a) ==
  IF a = "unknown" THEN tails ELSE [tails EXCEPT ![doing[c]] = Tail(@)]

\* finally { release() }
Release(c, a) == [tails EXCEPT ![doing[c]] = Tail(@)]

Leave(c, a) ==
  /\ answer' = [answer EXCEPT ![c][doing[c]] = a]
  /\ pc' = [pc EXCEPT ![c] = AfterAnswer(doing[c], a)]
  /\ tails' = Release(c, a)

Matches(k) == {o \in Ops : state[o] # "absent" /\ kind[o] = k}

\* What is known about an operation that is not claimed now.  Only a created
\* session can be recovered from its receipt.
KnownAnswer(o) ==
  IF state[o] = "confirmed"
  THEN IF kind[o] = "session-create" THEN "confirmed" ELSE "already-confirmed"
  ELSE IF state[o] \in {"unknown", "executing"} THEN "unknown"
  ELSE "rejected"

\* The states in which the core goes on to the claim.
ClaimableStates == {"prepared", "fenced"}

\* The core reads the operations of its kind.
Read(c) ==
  /\ pc[c] = "waiting" /\ Holds(c)
  /\ LET matches == Matches(doing[c])
     IN IF matches = {}
        THEN /\ pc' = [pc EXCEPT ![c] = "prepare"]
             /\ UNCHANGED <<tails, op, answer>>
        ELSE \E o \in matches :
               IF matches = {o} /\ state[o] \in ClaimableStates
               THEN /\ pc' = [pc EXCEPT ![c] = "claim"]
                    /\ op' = [op EXCEPT ![c] = o]
                    /\ UNCHANGED <<tails, answer>>
               ELSE /\ Leave(c, IF matches = {o} THEN KnownAnswer(o) ELSE "conflict")
                    /\ UNCHANGED op
  /\ UNCHANGED <<doing, outcome>>
  /\ UNCHANGED <<storeVars, runtimeVars>>

Prepare(c, o) ==
  /\ pc[c] = "prepare" /\ state[o] = "absent"
  /\ state' = [state EXCEPT ![o] = "prepared"]
  /\ kind' = [kind EXCEPT ![o] = doing[c]]
  /\ op' = [op EXCEPT ![c] = o]
  /\ pc' = [pc EXCEPT ![c] = "claim"]
  /\ UNCHANGED <<tails, doing, outcome, answer>>
  /\ UNCHANGED runtimeVars

\* claimOperation: prepared -> executing, anything else is not claimed.
Claimed(o) == state[o] = "prepared"

Claim(c) ==
  /\ pc[c] = "claim"
  /\ IF Claimed(op[c])
     THEN /\ state' = [state EXCEPT ![op[c]] = "executing"]
          /\ pc' = [pc EXCEPT ![c] = "call"]
          /\ UNCHANGED <<tails, answer>>
     ELSE Leave(c, "unknown") /\ UNCHANGED state
  /\ UNCHANGED <<kind, doing, op, outcome>>
  /\ UNCHANGED runtimeVars

Call(c) ==
  /\ pc[c] = "call"
  /\ calls' = [calls EXCEPT ![doing[c]] = @ + 1]
  /\ fate' = [fate EXCEPT ![op[c]] = "pending"]
  /\ pc' = [pc EXCEPT ![c] = "calling"]
  /\ UNCHANGED <<tails, doing, op, outcome, answer>>
  /\ UNCHANGED storeVars

RuntimeActs(o) ==
  /\ fate[o] = "pending"
  /\ \E f \in {"applied", "refused"} : fate' = [fate EXCEPT ![o] = f]
  /\ UNCHANGED <<calls, tails, pc, doing, op, outcome, answer>>
  /\ UNCHANGED storeVars

\* Wrong variant: a call that threw is taken for a rejection.
OutcomesWithoutUnknown(o) ==
  IF fate[o] = "applied" THEN {"confirmed"} ELSE {"rejected"}

\* An answer of the runtime, or nothing definite: a thrown error is unknown.
Outcomes(o) ==
  {"unknown"} \cup (IF fate[o] = "applied" THEN {"confirmed"} ELSE {})
              \cup (IF fate[o] = "refused" THEN {"rejected"} ELSE {})

CallReturns(c) ==
  /\ pc[c] = "calling"
  /\ \E a \in Outcomes(op[c]) : outcome' = [outcome EXCEPT ![c] = a]
  /\ pc' = [pc EXCEPT ![c] = "settle"]
  /\ UNCHANGED <<tails, doing, op, answer>>
  /\ UNCHANGED <<storeVars, runtimeVars>>

\* settleOperation throws on a row that does not accept the settlement.
Settle(c) ==
  /\ pc[c] = "settle"
  /\ IF state[op[c]] \in SettlesFrom(outcome[c])
     THEN /\ state' = [state EXCEPT ![op[c]] = outcome[c]]
          /\ Leave(c, outcome[c])
     ELSE UNCHANGED state /\ Leave(c, "thrown")
  /\ UNCHANGED <<kind, doing, op, outcome>>
  /\ UNCHANGED runtimeVars

\* Between the two mutations the task waits until it can observe the session
\* it created; when it cannot, it fails without submitting the turn.
SubmitTurn(c) ==
  /\ pc[c] = "created"
  /\ pc' = [pc EXCEPT ![c] = "waiting"]
  /\ doing' = [doing EXCEPT ![c] = "turn-submit"]
  /\ op' = [op EXCEPT ![c] = NoOp]
  /\ Queue(c, "turn-submit")
  /\ UNCHANGED <<outcome, answer>>
  /\ UNCHANGED <<storeVars, runtimeVars>>

GiveUp(c) ==
  /\ pc[c] = "created"
  /\ pc' = [pc EXCEPT ![c] = "done"]
  /\ UNCHANGED <<tails, doing, op, outcome, answer>>
  /\ UNCHANGED <<storeVars, runtimeVars>>

\* Wrong variant: rows left executing are prepared again at open.
RecoveredAsPrepared(s) == IF s = "executing" THEN "prepared" ELSE s

\* Wrong variant: the code of the interruption is written into the state.
RecoveredAsCode(s) == IF s = "executing" THEN "process-restarted" ELSE s

\* recoverExecutingInTransaction, before the reopened store serves anybody.
Recovered(s) == IF s = "executing" THEN "unknown" ELSE s

\* The process dies with every attempt in it, and with the promise chains.
Crash ==
  /\ pc' = [c \in Callers |-> IF pc[c] \in {"out", "done"} THEN pc[c] ELSE "lost"]
  /\ tails' = [k \in Kinds |-> <<>>]
  /\ state' = [o \in Ops |-> Recovered(state[o])]
  /\ UNCHANGED <<kind, doing, op, outcome, answer>>
  /\ UNCHANGED runtimeVars

Step(c) ==
  \/ Read(c) \/ \E o \in Ops : Prepare(c, o)
  \/ Claim(c) \/ Call(c) \/ CallReturns(c) \/ Settle(c)
  \/ SubmitTurn(c) \/ GiveUp(c)

Next ==
  \/ \E c \in Callers : Arrive(c) \/ Step(c)
  \/ \E o \in Ops : RuntimeActs(o)
  \/ Crash

\* An attempt that is under way runs on: the event loop serves every promise
\* and the harness adapters answer or time out every call they make.
\* Arrivals, crashes and what the runtime does with a call are not fair.
Fairness == \A c \in Callers : WF_vars(Step(c))

Spec == Init /\ [][Next]_vars /\ Fairness

-----------------------------------------------------------------------------
TypeOK ==
  /\ state \in [Ops -> OperationState]
  /\ kind \in [Ops -> Kinds]
  /\ tails \in [Kinds -> Seq(Callers)]
  /\ pc \in [Callers -> {"out", "waiting", "prepare", "claim", "call", "calling",
                         "settle", "created", "done", "lost"}]
  /\ doing \in [Callers -> Kinds]
  /\ op \in [Callers -> Ops \cup {NoOp}]
  /\ outcome \in [Callers -> Settlement]
  /\ answer \in [Callers -> [Kinds -> {"none", "confirmed", "already-confirmed", "unknown",
                                       "rejected", "conflict", "thrown"}]]
  /\ calls \in [Kinds -> Nat]
  /\ fate \in [Ops -> {"none", "pending", "applied", "refused"}]

\* However attempts and crashes interleave, a kind of mutation has at most
\* one operation, so "durable-operation-conflict" (617-623) is never met.
OneOperationPerKind ==
  \A o, p \in Ops : state[o] # "absent" /\ state[p] # "absent" /\ kind[o] = kind[p] => o = p

\* The turn of a task is only submitted when the runtime has created the
\* session it goes to (oneshot.ts 70-75).
TurnFollowsCreate ==
  calls["turn-submit"] > 0
    => \E o \in Ops : kind[o] = "session-create" /\ fate[o] = "applied"

Had(k, f) == \E o \in Ops : kind[o] = k /\ fate[o] = f

\* What the runtime did with the call of a kind of mutation.
Effect(k) ==
  IF Had(k, "applied") THEN "applied"
  ELSE IF Had(k, "refused") THEN "refused"
  ELSE IF Had(k, "pending") THEN "pending"
  ELSE "none"

AnswerTo(k) == [c \in Callers |-> answer[c][k]]

Create == INSTANCE AtMostOnceCall
            WITH made <- calls["session-create"], effect <- Effect("session-create"),
                 answer <- AnswerTo("session-create")

Turn == INSTANCE AtMostOnceCall
          WITH made <- calls["turn-submit"], effect <- Effect("turn-submit"),
               answer <- AnswerTo("turn-submit")

\* Each kind of mutation of the task implements the abstract promise: one
\* call at most, and nobody is told what is not true of it.
CreateKeepsPromise == Create!Spec
TurnKeepsPromise == Turn!Spec

\* Every attempt ends, unless the process dies under it: no caller waits for
\* ever at a gate that an earlier one did not release (712-735).
EveryAttemptEnds ==
  \A c \in Callers : pc[c] = "waiting" ~> pc[c] \in {"done", "lost"}

=============================================================================
