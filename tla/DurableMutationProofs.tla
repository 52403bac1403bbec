----------------------- MODULE DurableMutationProofs -----------------------
(***************************************************************************)
(* Theorems about DurableMutation for any number of attempts and           *)
(* operations, and for every interleaving of attempts and crashes.         *)
(***************************************************************************)
EXTENDS DurableMutation, TLAPS

InCore == {"prepare", "claim", "call", "calling", "settle"}

\* Whoever is past the gate is the head of the promise chain of its kind.
GateInv == \A c \in Callers : pc[c] \in InCore => Holds(c)

\* A caller about to prepare found no operation of its kind, and a caller
\* with an operation is the only one that can change its state.
CoreInv ==
  \A c \in Callers :
    /\ pc[c] = "prepare" => Matches(doing[c]) = {}
    /\ pc[c] \in InCore \ {"prepare"} => op[c] \in Ops /\ kind[op[c]] = doing[c]
    /\ pc[c] = "claim" => state[op[c]] = "prepared"
    /\ pc[c] \in {"call", "calling", "settle"} => state[op[c]] = "executing"

\* The runtime has seen an operation only after its claim.
FateInv ==
  /\ \A o \in Ops :
       /\ state[o] \in {"absent", "prepared"} => fate[o] = "none"
       /\ state[o] = "confirmed" => fate[o] = "applied"
       /\ state[o] = "rejected" => fate[o] = "refused"
       /\ state[o] \notin {"not-applied", "fenced"}
  /\ \A c \in Callers :
       /\ pc[c] = "call" => fate[op[c]] = "none"
       /\ pc[c] = "settle" /\ outcome[c] = "confirmed" => fate[op[c]] = "applied"
       /\ pc[c] = "settle" /\ outcome[c] = "rejected" => fate[op[c]] = "refused"
       /\ pc[c] = "settle" => outcome[c] \in {"confirmed", "rejected", "unknown"}

\* Calls are counted with the effects they have.
CountInv == \A k \in Kinds : calls[k] = IF Effect(k) = "none" THEN 0 ELSE 1

\* Nobody is answered twice.
AnswerInv ==
  \A c \in Callers :
    /\ pc[c] \in {"out", "waiting"} \cup InCore => answer[c][doing[c]] = "none"
    /\ pc[c] \in {"out", "created"} => doing[c] = "session-create"
    /\ doing[c] = "session-create" => answer[c]["turn-submit"] = "none"

DurableInv ==
  /\ TypeOK /\ GateInv /\ CoreInv /\ OneOperationPerKind
  /\ FateInv /\ CountInv /\ AnswerInv

-----------------------------------------------------------------------------
(* The gate                                                                *)

\* Two callers past the gate of one kind are the same caller.
LEMMA OneInCore ==
  ASSUME GateInv, NEW c \in Callers, NEW d \in Callers,
         pc[c] \in InCore, pc[d] \in InCore, doing[c] = doing[d]
  PROVE  c = d
BY DEF GateInv, Holds

\* Arriving at a gate does not move its head.
LEMMA QueueKeepsGate ==
  ASSUME TypeOK, GateInv, NEW c \in Callers, NEW k \in Kinds, Queue(c, k),
         pc[c] \notin InCore, pc'[c] \notin InCore,
         \A d \in Callers \ {c} : pc'[d] = pc[d] /\ doing'[d] = doing[d]
  PROVE  GateInv'
<1> SUFFICES ASSUME NEW d \in Callers, pc'[d] \in InCore
             PROVE  tails'[doing'[d]] # <<>> /\ Head(tails'[doing'[d]]) = d
  BY DEF GateInv, Holds
<1>1. d # c /\ pc[d] \in InCore /\ doing'[d] = doing[d]
  OBVIOUS
<1>2. tails[doing[d]] # <<>> /\ Head(tails[doing[d]]) = d
  BY <1>1 DEF GateInv, Holds
<1>3. doing[d] \in Kinds /\ tails[doing[d]] \in Seq(Callers) /\ tails \in [Kinds -> Seq(Callers)]
  BY DEF TypeOK
<1>4. CASE doing[d] = k
  <2>1. tails'[doing[d]] = Append(tails[doing[d]], c)
    BY <1>3, <1>4 DEF Queue
  <2>2. Append(tails[doing[d]], c) # <<>> /\ Head(Append(tails[doing[d]], c)) = d
    BY <1>2, <1>3
  <2> QED BY <1>1, <2>1, <2>2
<1>5. CASE doing[d] # k
  BY <1>1, <1>2, <1>3, <1>5 DEF Queue
<1> QED BY <1>4, <1>5

\* Leaving the core lets nobody else past the gate yet.
LEMMA LeaveKeepsGate ==
  ASSUME TypeOK, GateInv, NEW c \in Callers, NEW a,
         pc[c] \in InCore \/ Holds(c), Leave(c, a), UNCHANGED doing
  PROVE  GateInv'
<1> SUFFICES ASSUME NEW d \in Callers, pc'[d] \in InCore
             PROVE  tails'[doing[d]] # <<>> /\ Head(tails'[doing[d]]) = d
  BY DEF GateInv, Holds
<1>1. pc'[c] \notin InCore
  BY DEF Leave, AfterAnswer, InCore, TypeOK
<1>2. d # c /\ pc[d] \in InCore
  BY <1>1 DEF Leave, TypeOK
<1>3. Holds(c) /\ Holds(d)
  BY <1>2 DEF GateInv
<1>4. doing[c] # doing[d]
  BY <1>2, <1>3 DEF Holds
<1>5. tails'[doing[d]] = tails[doing[d]]
  BY <1>4 DEF Leave, Release, TypeOK
<1> QED BY <1>3, <1>5 DEF Holds

\* A step inside the core that leaves the gates alone.
LEMMA CoreKeepsGate ==
  ASSUME TypeOK, GateInv, NEW c \in Callers, UNCHANGED <<tails, doing>>,
         pc[c] \in InCore \/ Holds(c),
         \A d \in Callers \ {c} : pc'[d] = pc[d]
  PROVE  GateInv'
BY DEF GateInv, Holds

-----------------------------------------------------------------------------
(* Types                                                                   *)

LEMMA LeaveTypes ==
  ASSUME TypeOK, NEW c \in Callers, Holds(c),
         NEW a \in {"confirmed", "already-confirmed", "unknown", "rejected", "conflict", "thrown"},
         Leave(c, a)
  PROVE  /\ tails' \in [Kinds -> Seq(Callers)]
         /\ pc' \in [Callers -> {"out", "waiting", "prepare", "claim", "call", "calling",
                                 "settle", "created", "done", "lost"}]
         /\ answer' \in [Callers -> [Kinds -> {"none", "confirmed", "already-confirmed", "unknown",
                                               "rejected", "conflict", "thrown"}]]
<1>1. doing[c] \in Kinds /\ tails \in [Kinds -> Seq(Callers)] /\ tails[doing[c]] # <<>>
  BY DEF TypeOK, Holds
<1>2. Tail(tails[doing[c]]) \in Seq(Callers)
  BY <1>1
<1>3. tails' \in [Kinds -> Seq(Callers)]
  BY <1>1, <1>2 DEF Leave, Release
<1>4. AfterAnswer(doing[c], a) \in {"created", "done"}
  BY DEF AfterAnswer
<1> QED BY <1>1, <1>3, <1>4 DEF Leave, TypeOK

LEMMA QueueTypes ==
  ASSUME TypeOK, NEW c \in Callers, NEW k \in Kinds, Queue(c, k)
  PROVE  tails' \in [Kinds -> Seq(Callers)]
BY DEF TypeOK, Queue

LEMMA TypeInit == Init => TypeOK
BY DEF Init, TypeOK, OperationState, Settlement, Kinds

LEMMA TypeStep ==
  ASSUME TypeOK, GateInv, CoreInv, FateInv, [Next]_vars
  PROVE  TypeOK'
<1>1. ASSUME NEW c \in Callers, Arrive(c) PROVE TypeOK'
  <2>1. tails' \in [Kinds -> Seq(Callers)]
    BY <1>1, QueueTypes DEF Arrive, Kinds
  <2> QED BY <1>1, <2>1 DEF Arrive, TypeOK, storeVars, runtimeVars
<1>2. ASSUME NEW c \in Callers, Read(c) PROVE TypeOK'
  <2>1. CASE Matches(doing[c]) = {}
    BY <1>2, <2>1 DEF Read, TypeOK, storeVars, runtimeVars
  <2>2. ASSUME NEW o \in Matches(doing[c]), Matches(doing[c]) = {o}, state[o] \in ClaimableStates,
               pc' = [pc EXCEPT ![c] = "claim"], op' = [op EXCEPT ![c] = o],
               UNCHANGED <<tails, answer>>
        PROVE  TypeOK'
    BY <1>2, <2>2 DEF Read, TypeOK, storeVars, runtimeVars, Matches
  <2>3. ASSUME NEW o \in Matches(doing[c]), UNCHANGED op,
               ~(Matches(doing[c]) = {o} /\ state[o] \in ClaimableStates),
               Leave(c, IF Matches(doing[c]) = {o} THEN KnownAnswer(o) ELSE "conflict")
        PROVE  TypeOK'
    <3> DEFINE a == IF Matches(doing[c]) = {o} THEN KnownAnswer(o) ELSE "conflict"
    <3>1. o \in Ops /\ state[o] \in OperationState \ {"absent", "not-applied", "fenced"}
      BY <2>3 DEF Matches, FateInv, TypeOK
    <3>2. a \in {"confirmed", "already-confirmed", "unknown", "rejected", "conflict", "thrown"}
      BY <2>3, <3>1 DEF KnownAnswer, OperationState, Blocking, Terminal, ClaimableStates
    <3>3. Holds(c)
      BY <1>2 DEF Read
    <3>4. Leave(c, a)
      BY <2>3
    <3> HIDE DEF a
    <3> QED BY <1>2, <2>3, <3>2, <3>3, <3>4, LeaveTypes DEF Read, TypeOK, storeVars, runtimeVars
  <2> QED BY <1>2, <2>1, <2>2, <2>3 DEF Read
<1>3. ASSUME NEW c \in Callers, NEW o \in Ops, Prepare(c, o) PROVE TypeOK'
  BY <1>3 DEF Prepare, TypeOK, runtimeVars, OperationState, Blocking
<1>4. ASSUME NEW c \in Callers, Claim(c) PROVE TypeOK'
  <2>1. Holds(c)
    BY <1>4 DEF Claim, GateInv, InCore
  <2>2. CASE Claimed(op[c])
    BY <1>4, <2>2 DEF Claim, TypeOK, runtimeVars, OperationState, Blocking
  <2>3. CASE ~Claimed(op[c])
    BY <1>4, <2>1, <2>3, LeaveTypes DEF Claim, TypeOK, runtimeVars
  <2> QED BY <2>2, <2>3
<1>5. ASSUME NEW c \in Callers, Call(c) PROVE TypeOK'
  <2>1. doing[c] \in Kinds /\ calls \in [Kinds -> Nat]
    BY DEF TypeOK
  <2>2. calls' \in [Kinds -> Nat]
    BY <1>5, <2>1 DEF Call
  <2> QED BY <1>5, <2>2 DEF Call, TypeOK, storeVars
<1>6. ASSUME NEW c \in Callers, CallReturns(c) PROVE TypeOK'
  BY <1>6 DEF CallReturns, Outcomes, TypeOK, storeVars, runtimeVars, Settlement
<1>7. ASSUME NEW c \in Callers, Settle(c) PROVE TypeOK'
  <2>1. Holds(c) /\ outcome[c] \in {"confirmed", "rejected", "unknown"}
    BY <1>7 DEF Settle, GateInv, FateInv, InCore
  <2>2. CASE state[op[c]] \in SettlesFrom(outcome[c])
    BY <1>7, <2>1, <2>2, LeaveTypes
    DEF Settle, TypeOK, runtimeVars, OperationState, Blocking, Terminal
  <2>3. CASE state[op[c]] \notin SettlesFrom(outcome[c])
    BY <1>7, <2>1, <2>3, LeaveTypes DEF Settle, TypeOK, runtimeVars
  <2> QED BY <2>2, <2>3
<1>8. ASSUME NEW c \in Callers, SubmitTurn(c) PROVE TypeOK'
  <2>1. tails' \in [Kinds -> Seq(Callers)]
    BY <1>8, QueueTypes DEF SubmitTurn, Kinds
  <2> QED BY <1>8, <2>1 DEF SubmitTurn, TypeOK, storeVars, runtimeVars, Kinds
<1>9. ASSUME NEW c \in Callers, GiveUp(c) PROVE TypeOK'
  BY <1>9 DEF GiveUp, TypeOK, storeVars, runtimeVars
<1>10. ASSUME NEW o \in Ops, RuntimeActs(o) PROVE TypeOK'
  BY <1>10 DEF RuntimeActs, TypeOK, storeVars
<1>11. CASE Crash
  BY <1>11 DEF Crash, Recovered, TypeOK, runtimeVars, OperationState, Blocking
<1>12. CASE UNCHANGED vars
  BY <1>12 DEF TypeOK, vars
<1> QED
  BY <1>1, <1>2, <1>3, <1>4, <1>5, <1>6, <1>7, <1>8, <1>9, <1>10, <1>11, <1>12 DEF Next, Step

-----------------------------------------------------------------------------
(* The inductive invariant                                                 *)

LEMMA DurableInit == Init => DurableInv
<1> SUFFICES ASSUME Init PROVE DurableInv
  OBVIOUS
<1>1. GateInv /\ CoreInv /\ OneOperationPerKind /\ FateInv /\ AnswerInv
  BY DEF Init, GateInv, CoreInv, OneOperationPerKind, FateInv, AnswerInv, InCore, Kinds
<1>2. CountInv
  BY DEF Init, CountInv, Effect, Had
<1> QED BY <1>1, <1>2, TypeInit DEF DurableInv

LEMMA GateStep ==
  ASSUME DurableInv, [Next]_vars
  PROVE  GateInv'
<1> USE DEF DurableInv
<1>1. ASSUME NEW c \in Callers, Arrive(c) PROVE GateInv'
  BY <1>1, QueueKeepsGate DEF Arrive, Kinds, InCore, TypeOK
<1>2. ASSUME NEW c \in Callers, Read(c) PROVE GateInv'
  <2>1. CASE UNCHANGED <<tails, doing>>
    <3>1. \A d \in Callers \ {c} : pc'[d] = pc[d]
      BY <1>2 DEF Read, Leave, TypeOK
    <3> QED BY <1>2, <2>1, <3>1, CoreKeepsGate DEF Read
  <2>2. ASSUME NEW a, Leave(c, a) PROVE GateInv'
    BY <1>2, <2>2, LeaveKeepsGate DEF Read
  <2>3. \/ UNCHANGED <<tails, doing>>
        \/ \E o \in Matches(doing[c]) :
             Leave(c, IF Matches(doing[c]) = {o} THEN KnownAnswer(o) ELSE "conflict")
    BY <1>2 DEF Read
  <2> QED BY <2>1, <2>2, <2>3
<1>3. ASSUME NEW c \in Callers, NEW o \in Ops, Prepare(c, o) PROVE GateInv'
  BY <1>3, CoreKeepsGate DEF Prepare, InCore, TypeOK
<1>4. ASSUME NEW c \in Callers, Claim(c) PROVE GateInv'
  <2>1. CASE UNCHANGED tails
    BY <1>4, <2>1, CoreKeepsGate DEF Claim, Leave, InCore, TypeOK
  <2>2. CASE Leave(c, "unknown")
    BY <1>4, <2>2, LeaveKeepsGate DEF Claim, InCore
  <2> QED BY <1>4, <2>1, <2>2 DEF Claim
<1>5. ASSUME NEW c \in Callers, Call(c) PROVE GateInv'
  BY <1>5, CoreKeepsGate DEF Call, InCore, TypeOK
<1>6. ASSUME NEW c \in Callers, CallReturns(c) PROVE GateInv'
  BY <1>6, CoreKeepsGate DEF CallReturns, InCore, TypeOK
<1>7. ASSUME NEW c \in Callers, Settle(c) PROVE GateInv'
  <2>1. ASSUME NEW a, Leave(c, a) PROVE GateInv'
    BY <1>7, <2>1, LeaveKeepsGate DEF Settle, InCore
  <2> QED BY <1>7, <2>1 DEF Settle
<1>8. ASSUME NEW c \in Callers, SubmitTurn(c) PROVE GateInv'
  BY <1>8, QueueKeepsGate DEF SubmitTurn, Kinds, InCore, TypeOK
<1>9. ASSUME NEW c \in Callers, GiveUp(c) PROVE GateInv'
  BY <1>9 DEF GiveUp, GateInv, Holds, InCore, TypeOK
<1>10. ASSUME NEW o \in Ops, RuntimeActs(o) PROVE GateInv'
  BY <1>10 DEF RuntimeActs, GateInv, Holds
<1>11. CASE Crash
  BY <1>11 DEF Crash, GateInv, InCore, TypeOK
<1>12. CASE UNCHANGED vars
  BY <1>12 DEF vars, GateInv, Holds
<1> QED
  BY <1>1, <1>2, <1>3, <1>4, <1>5, <1>6, <1>7, <1>8, <1>9, <1>10, <1>11, <1>12 DEF Next, Step

\* No caller but c is past the gate of c's kind, so no other caller's
\* operation is c's.
LEMMA OperationsAreOwned ==
  ASSUME GateInv, CoreInv, NEW c \in Callers, pc[c] \in InCore,
         NEW d \in Callers, d # c, pc[d] \in InCore
  PROVE  /\ doing[d] # doing[c]
         /\ pc[c] # "prepare" /\ pc[d] # "prepare" => op[d] # op[c]
BY OneInCore DEF CoreInv

\* The only row a step changes is o's, and it inserts none.
OnlyMoves(o) ==
  \A p \in Ops : /\ p # o => state'[p] = state[p]
                 /\ (state'[p] = "absent") = (state[p] = "absent")

LEMMA LeavesCore ==
  ASSUME TypeOK, NEW c \in Callers, NEW a, Leave(c, a)
  PROVE  pc'[c] \in {"created", "done"} /\ \A d \in Callers \ {c} : pc'[d] = pc[d]
BY DEF TypeOK, Leave, AfterAnswer

LEMMA CoreStep ==
  ASSUME DurableInv, [Next]_vars
  PROVE  CoreInv' /\ OneOperationPerKind'
<1> USE DEF DurableInv
<1>1. ASSUME NEW c \in Callers, Arrive(c) PROVE CoreInv' /\ OneOperationPerKind'
  BY <1>1 DEF Arrive, CoreInv, OneOperationPerKind, Matches, InCore, TypeOK, storeVars
<1>2. ASSUME NEW c \in Callers, Read(c) PROVE CoreInv' /\ OneOperationPerKind'
  <2>1. CASE Matches(doing[c]) = {}
    BY <1>2, <2>1 DEF Read, CoreInv, OneOperationPerKind, Matches, InCore, TypeOK, storeVars
  <2>2. ASSUME NEW o \in Matches(doing[c]), state[o] \in ClaimableStates,
               pc' = [pc EXCEPT ![c] = "claim"], op' = [op EXCEPT ![c] = o]
        PROVE  CoreInv' /\ OneOperationPerKind'
    <3>1. o \in Ops /\ kind[o] = doing[c] /\ state[o] = "prepared"
      BY <2>2 DEF Matches, ClaimableStates, FateInv
    <3> QED BY <1>2, <2>2, <3>1
            DEF Read, CoreInv, OneOperationPerKind, Matches, InCore, TypeOK, storeVars
  <2>3. ASSUME NEW a, Leave(c, a), UNCHANGED op PROVE CoreInv' /\ OneOperationPerKind'
    BY <1>2, <2>3, LeavesCore
    DEF Read, CoreInv, OneOperationPerKind, Matches, InCore, storeVars
  <2> QED BY <1>2, <2>1, <2>2, <2>3 DEF Read
<1>3. ASSUME NEW c \in Callers, NEW o \in Ops, Prepare(c, o)
      PROVE  CoreInv' /\ OneOperationPerKind'
  <2>1. OneOperationPerKind'
    BY <1>3 DEF Prepare, CoreInv, OneOperationPerKind, Matches, TypeOK
  <2>2. pc'[c] = "claim" /\ op'[c] = o /\ kind'[o] = doing'[c] /\ state'[o] = "prepared"
    BY <1>3 DEF Prepare, TypeOK
  <2>3. ASSUME NEW d \in Callers \ {c}, pc[d] \in InCore
        PROVE  doing[d] # doing[c] /\ (pc[d] # "prepare" => op[d] # o)
    BY <1>3, <2>3, OneInCore DEF Prepare, CoreInv, InCore
  <2> QED BY <1>3, <2>1, <2>2, <2>3 DEF Prepare, CoreInv, Matches, InCore, TypeOK
<1>4. ASSUME NEW c \in Callers, Claim(c) PROVE CoreInv' /\ OneOperationPerKind'
  <2>1. Claimed(op[c]) /\ op[c] \in Ops /\ kind[op[c]] = doing[c]
    BY <1>4 DEF Claim, CoreInv, Claimed, InCore
  <2>2. pc'[c] = "call" /\ state'[op[c]] = "executing"
    BY <1>4, <2>1 DEF Claim, TypeOK
  <2>3. ASSUME NEW d \in Callers \ {c}, pc[d] \in InCore \ {"prepare"} PROVE op[d] # op[c]
    BY <1>4, <2>3, OperationsAreOwned DEF Claim, InCore
  <2>4. OnlyMoves(op[c])
    BY <1>4, <2>1 DEF Claim, Claimed, TypeOK, OnlyMoves
  <2>5. UNCHANGED <<kind, doing, op>> /\ \A d \in Callers \ {c} : pc'[d] = pc[d]
    BY <1>4, <2>1 DEF Claim, TypeOK
  <2>6. OneOperationPerKind'
    <3> SUFFICES ASSUME NEW o \in Ops, NEW p \in Ops,
                        state'[o] # "absent", state'[p] # "absent", kind[o] = kind[p]
                 PROVE  o = p
      BY <2>5 DEF OneOperationPerKind
    <3> QED BY <2>4 DEF OneOperationPerKind, OnlyMoves
  <2>7. CoreInv'
    <3> SUFFICES ASSUME NEW d \in Callers, d # c, pc[d] \in InCore
                 PROVE  /\ pc[d] = "prepare" => Matches(doing[d])' = {}
                        /\ pc[d] # "prepare" => op[d] \in Ops /\ kind[op[d]] = doing[d]
                        /\ pc[d] = "claim" => state'[op[d]] = "prepared"
                        /\ pc[d] \in {"call", "calling", "settle"} => state'[op[d]] = "executing"
      BY <2>1, <2>2, <2>5 DEF CoreInv, InCore
    <3>1. Matches(doing[d])' = Matches(doing[d])
      BY <2>4, <2>5 DEF Matches, OnlyMoves
    <3>2. pc[d] # "prepare" => op[d] \in Ops /\ state'[op[d]] = state[op[d]]
      BY <2>3, <2>4 DEF CoreInv, InCore, OnlyMoves
    <3> QED BY <3>1, <3>2 DEF CoreInv, InCore
  <2> QED BY <2>6, <2>7
<1>5. ASSUME NEW c \in Callers, Call(c) PROVE CoreInv' /\ OneOperationPerKind'
  BY <1>5 DEF Call, CoreInv, OneOperationPerKind, Matches, InCore, TypeOK, storeVars
<1>6. ASSUME NEW c \in Callers, CallReturns(c) PROVE CoreInv' /\ OneOperationPerKind'
  BY <1>6 DEF CallReturns, CoreInv, OneOperationPerKind, Matches, InCore, TypeOK, storeVars
<1>7. ASSUME NEW c \in Callers, Settle(c) PROVE CoreInv' /\ OneOperationPerKind'
  <2>1. op[c] \in Ops /\ state[op[c]] = "executing"
    BY <1>7 DEF Settle, CoreInv, InCore
  <2>2. ASSUME NEW d \in Callers \ {c}, pc[d] \in InCore \ {"prepare"} PROVE op[d] # op[c]
    BY <1>7, <2>2, OperationsAreOwned DEF Settle, InCore
  <2>3. pc'[c] \in {"created", "done"} /\ \A d \in Callers \ {c} : pc'[d] = pc[d]
    BY <1>7, LeavesCore DEF Settle
  <2>4. OnlyMoves(op[c])
    BY <1>7, <2>1 DEF Settle, TypeOK, FateInv, OnlyMoves
  <2>5. UNCHANGED <<kind, doing, op>>
    BY <1>7 DEF Settle
  <2>6. OneOperationPerKind'
    <3> SUFFICES ASSUME NEW o \in Ops, NEW p \in Ops,
                        state'[o] # "absent", state'[p] # "absent", kind[o] = kind[p]
                 PROVE  o = p
      BY <2>5 DEF OneOperationPerKind
    <3> QED BY <2>4 DEF OneOperationPerKind, OnlyMoves
  <2>7. CoreInv'
    <3> SUFFICES ASSUME NEW d \in Callers, pc'[d] \in InCore
                 PROVE  /\ pc[d] = "prepare" => Matches(doing[d])' = {}
                        /\ pc[d] # "prepare" => op[d] \in Ops /\ kind[op[d]] = doing[d]
                        /\ pc[d] = "claim" => state'[op[d]] = "prepared"
                        /\ pc[d] \in {"call", "calling", "settle"} => state'[op[d]] = "executing"
      BY <2>3, <2>5 DEF CoreInv, InCore
    <3>1. d # c /\ pc[d] \in InCore
      BY <2>3 DEF InCore
    <3>2. Matches(doing[d])' = Matches(doing[d])
      BY <2>4, <2>5 DEF Matches, OnlyMoves
    <3>3. pc[d] # "prepare" => op[d] \in Ops /\ state'[op[d]] = state[op[d]]
      BY <2>2, <2>4, <3>1 DEF CoreInv, InCore, OnlyMoves
    <3> QED BY <3>1, <3>2, <3>3 DEF CoreInv, InCore
  <2> QED BY <2>6, <2>7
<1>8. ASSUME NEW c \in Callers, SubmitTurn(c) PROVE CoreInv' /\ OneOperationPerKind'
  BY <1>8 DEF SubmitTurn, CoreInv, OneOperationPerKind, Matches, InCore, TypeOK, storeVars
<1>9. ASSUME NEW c \in Callers, GiveUp(c) PROVE CoreInv' /\ OneOperationPerKind'
  BY <1>9 DEF GiveUp, CoreInv, OneOperationPerKind, Matches, InCore, TypeOK, storeVars
<1>10. ASSUME NEW o \in Ops, RuntimeActs(o) PROVE CoreInv' /\ OneOperationPerKind'
  BY <1>10 DEF RuntimeActs, CoreInv, OneOperationPerKind, Matches, storeVars
<1>11. CASE Crash
  <2>1. \A c \in Callers : pc'[c] \notin InCore
    BY <1>11 DEF Crash, InCore, TypeOK
  <2>2. \A o \in Ops : state'[o] = "absent" <=> state[o] = "absent"
    BY <1>11 DEF Crash, Recovered, TypeOK
  <2>3. OneOperationPerKind'
    BY <1>11, <2>2 DEF Crash, OneOperationPerKind
  <2> QED BY <2>1, <2>3 DEF CoreInv, InCore
<1>12. CASE UNCHANGED vars
  BY <1>12 DEF vars, CoreInv, OneOperationPerKind, Matches
<1> QED
  BY <1>1, <1>2, <1>3, <1>4, <1>5, <1>6, <1>7, <1>8, <1>9, <1>10, <1>11, <1>12 DEF Next, Step

LEMMA FateStep ==
  ASSUME DurableInv, [Next]_vars
  PROVE  FateInv'
<1> USE DEF DurableInv
<1>1. ASSUME NEW c \in Callers, Arrive(c) PROVE FateInv'
  BY <1>1 DEF Arrive, FateInv, TypeOK, storeVars, runtimeVars
<1>2. ASSUME NEW c \in Callers, Read(c) PROVE FateInv'
  <2>1. UNCHANGED <<state, fate, outcome>>
    BY <1>2 DEF Read, storeVars, runtimeVars
  <2>2. \A d \in Callers : pc'[d] \in {"call", "settle"} => d # c /\ pc[d] = pc'[d]
    BY <1>2 DEF Read, Leave, AfterAnswer, TypeOK
  <2>3. \A d \in Callers \ {c} : op'[d] = op[d]
    BY <1>2 DEF Read, TypeOK
  <2> QED BY <2>1, <2>2, <2>3 DEF FateInv
<1>3. ASSUME NEW c \in Callers, NEW o \in Ops, Prepare(c, o) PROVE FateInv'
  BY <1>3 DEF Prepare, FateInv, CoreInv, InCore, TypeOK, runtimeVars
<1>4. ASSUME NEW c \in Callers, Claim(c) PROVE FateInv'
  <2>1. Claimed(op[c]) /\ op[c] \in Ops /\ fate[op[c]] = "none"
    BY <1>4 DEF Claim, CoreInv, Claimed, InCore, FateInv
  <2> QED BY <1>4, <2>1 DEF Claim, FateInv, TypeOK, runtimeVars
<1>5. ASSUME NEW c \in Callers, Call(c) PROVE FateInv'
  <2>1. op[c] \in Ops /\ state[op[c]] = "executing"
    BY <1>5 DEF Call, CoreInv, InCore
  <2>2. ASSUME NEW d \in Callers \ {c}, pc[d] \in InCore \ {"prepare"} PROVE op[d] # op[c]
    BY <1>5, <2>2, OperationsAreOwned DEF Call, InCore
  <2>3. \A d \in Callers : pc'[d] \in {"call", "settle"} => d # c /\ pc[d] = pc'[d]
    BY <1>5 DEF Call, TypeOK
  <2>4. \A p \in Ops \ {op[c]} : fate'[p] = fate[p]
    BY <1>5 DEF Call, TypeOK
  <2>5. UNCHANGED <<state, outcome, op>>
    BY <1>5 DEF Call, storeVars
  <2>6. \A d \in Callers : pc[d] \in {"call", "settle"} => op[d] \in Ops
    BY DEF CoreInv, InCore
  <2> QED BY <2>1, <2>2, <2>3, <2>4, <2>5, <2>6 DEF FateInv, InCore
<1>6. ASSUME NEW c \in Callers, CallReturns(c) PROVE FateInv'
  BY <1>6 DEF CallReturns, Outcomes, FateInv, TypeOK, storeVars, runtimeVars
<1>7. ASSUME NEW c \in Callers, Settle(c) PROVE FateInv'
  <2>1. op[c] \in Ops /\ state[op[c]] = "executing"
    BY <1>7 DEF Settle, CoreInv, InCore
  <2>2. UNCHANGED <<fate, outcome, op>>
    BY <1>7 DEF Settle, runtimeVars
  <2>3. \A d \in Callers : pc'[d] \in {"call", "settle"} => pc[d] = pc'[d]
    BY <1>7, LeavesCore DEF Settle
  <2>4. \A p \in Ops : state'[p] = state[p] \/ (p = op[c] /\ state'[p] = outcome[c])
    BY <1>7, <2>1 DEF Settle, TypeOK
  <2>5. /\ outcome[c] \in {"confirmed", "rejected", "unknown"}
        /\ outcome[c] = "confirmed" => fate[op[c]] = "applied"
        /\ outcome[c] = "rejected" => fate[op[c]] = "refused"
    BY <1>7 DEF Settle, FateInv
  <2> QED BY <2>1, <2>2, <2>3, <2>4, <2>5 DEF FateInv
<1>8. ASSUME NEW c \in Callers, SubmitTurn(c) PROVE FateInv'
  BY <1>8 DEF SubmitTurn, FateInv, TypeOK, storeVars, runtimeVars
<1>9. ASSUME NEW c \in Callers, GiveUp(c) PROVE FateInv'
  BY <1>9 DEF GiveUp, FateInv, TypeOK, storeVars, runtimeVars
<1>10. ASSUME NEW o \in Ops, RuntimeActs(o) PROVE FateInv'
  <2>1. \A p \in Ops : fate'[p] = fate[p] \/ fate[p] = "pending"
    BY <1>10 DEF RuntimeActs, TypeOK
  <2>2. UNCHANGED <<state, pc, op, outcome>>
    BY <1>10 DEF RuntimeActs, storeVars
  <2>3. \A d \in Callers : pc[d] \in {"call", "settle"} => op[d] \in Ops
    BY DEF CoreInv, InCore
  <2> QED BY <2>1, <2>2, <2>3 DEF FateInv
<1>11. CASE Crash
  BY <1>11 DEF Crash, Recovered, FateInv, TypeOK, runtimeVars
<1>12. CASE UNCHANGED vars
  BY <1>12 DEF vars, FateInv
<1> QED
  BY <1>1, <1>2, <1>3, <1>4, <1>5, <1>6, <1>7, <1>8, <1>9, <1>10, <1>11, <1>12 DEF Next, Step

-----------------------------------------------------------------------------
(* Answers and effects                                                     *)

TrueOf(e) ==
  {"unknown"} \cup (IF e = "applied" THEN {"confirmed", "already-confirmed"} ELSE {})
              \cup (IF e = "refused" THEN {"rejected"} ELSE {})

SameAnswers(k) == AnswerTo(k)' = AnswerTo(k)
SameEffect(k) == calls'[k] = calls[k] /\ Effect(k)' = Effect(k)

\* What a step may be to the abstract specification of kind k.
Stutters(k) == SameEffect(k) /\ SameAnswers(k)
Makes(k) == calls[k] = 0 /\ calls'[k] = 1 /\ Effect(k)' = "pending" /\ SameAnswers(k)
Acts(k) ==
  /\ Effect(k) = "pending" /\ Effect(k)' \in {"applied", "refused"}
  /\ calls'[k] = calls[k] /\ SameAnswers(k)
Answers(k) ==
  /\ \E c \in Callers, a \in TrueOf(Effect(k)) :
       answer[c][k] = "none" /\ AnswerTo(k)' = [AnswerTo(k) EXCEPT ![c] = a]
  /\ SameEffect(k)

AbstractStep(k) == Stutters(k) \/ Makes(k) \/ Acts(k) \/ Answers(k)

LEMMA EffectOfOperation ==
  ASSUME TypeOK, OneOperationPerKind, FateInv, NEW o \in Ops, state[o] # "absent"
  PROVE  Effect(kind[o]) = fate[o]
<1>1. \A p \in Ops : p # o /\ kind[p] = kind[o] => fate[p] = "none"
  BY DEF OneOperationPerKind, FateInv
<1>2. fate[o] \in {"none", "pending", "applied", "refused"}
  BY DEF TypeOK
<1> QED BY <1>1, <1>2 DEF Effect, Had

LEMMA SameEffects ==
  ASSUME NEW k \in Kinds, UNCHANGED <<kind, fate, calls>>
  PROVE  SameEffect(k)
BY DEF SameEffect, Effect, Had

LEMMA LeaveAnswers ==
  ASSUME TypeOK, AnswerInv, NEW c \in Callers, NEW a, Leave(c, a), UNCHANGED <<kind, fate, calls>>,
         pc[c] \in {"waiting"} \cup InCore, a \in TrueOf(Effect(doing[c])), NEW k \in Kinds
  PROVE  AbstractStep(k)
<1>1. SameEffect(k)
  BY SameEffects
<1>2. answer[c][doing[c]] = "none" /\ doing[c] \in Kinds
  BY DEF AnswerInv, TypeOK
<1>3. answer' = [answer EXCEPT ![c][doing[c]] = a]
  BY DEF Leave
<1>4. CASE k = doing[c]
  <2>1. AnswerTo(k)' = [AnswerTo(k) EXCEPT ![c] = a]
    BY <1>2, <1>3, <1>4 DEF AnswerTo, TypeOK
  <2> QED BY <1>1, <1>2, <1>4, <2>1 DEF AbstractStep, Answers
<1>5. CASE k # doing[c]
  <2>1. SameAnswers(k)
    BY <1>2, <1>3, <1>5 DEF SameAnswers, AnswerTo, TypeOK
  <2> QED BY <1>1, <2>1 DEF AbstractStep, Stutters
<1> QED BY <1>4, <1>5

LEMMA SameAnswersTo ==
  ASSUME NEW k \in Kinds, UNCHANGED answer
  PROVE  SameAnswers(k)
BY DEF SameAnswers, AnswerTo

LEMMA Implements ==
  ASSUME DurableInv, [Next]_vars, NEW k \in Kinds
  PROVE  AbstractStep(k)
<1> USE DEF DurableInv
<1>1. CASE UNCHANGED <<kind, fate, calls, answer>>
  BY <1>1, SameEffects, SameAnswersTo DEF AbstractStep, Stutters
<1>2. ASSUME NEW c \in Callers, Read(c) PROVE AbstractStep(k)
  <2>1. ASSUME NEW o \in Matches(doing[c]),
               ~(Matches(doing[c]) = {o} /\ state[o] \in ClaimableStates),
               Leave(c, IF Matches(doing[c]) = {o} THEN KnownAnswer(o) ELSE "conflict")
        PROVE  AbstractStep(k)
    <3>1. o \in Ops /\ state[o] # "absent" /\ kind[o] = doing[c]
      BY DEF Matches
    <3>2. Matches(doing[c]) = {o}
      BY <3>1 DEF Matches, OneOperationPerKind
    <3>3. Effect(doing[c]) = fate[o]
      BY <3>1, EffectOfOperation
    <3>4. state[o] \in {"executing", "unknown", "confirmed", "rejected"}
      BY <2>1, <3>1, <3>2
      DEF ClaimableStates, TypeOK, OperationState, Blocking, Terminal, FateInv
    <3>5. KnownAnswer(o) \in TrueOf(Effect(doing[c]))
      BY <3>1, <3>3, <3>4 DEF KnownAnswer, TrueOf, FateInv
    <3> QED BY <1>2, <2>1, <3>2, <3>5, LeaveAnswers DEF Read, storeVars, runtimeVars
  <2>2. \/ UNCHANGED answer
        \/ \E o \in Matches(doing[c]) :
             /\ ~(Matches(doing[c]) = {o} /\ state[o] \in ClaimableStates)
             /\ Leave(c, IF Matches(doing[c]) = {o} THEN KnownAnswer(o) ELSE "conflict")
    BY <1>2 DEF Read
  <2> QED BY <1>1, <1>2, <2>1, <2>2 DEF Read, storeVars, runtimeVars
<1>3. ASSUME NEW c \in Callers, NEW o \in Ops, Prepare(c, o) PROVE AbstractStep(k)
  <2>1. \A p \in Ops : kind'[p] = kind[p] \/ fate[p] = "none"
    BY <1>3 DEF Prepare, TypeOK, FateInv
  <2>2. UNCHANGED <<fate, calls, answer>>
    BY <1>3 DEF Prepare, runtimeVars
  <2>3. Effect(k)' = Effect(k)
    BY <2>1, <2>2 DEF Effect, Had
  <2> QED BY <2>2, <2>3, SameAnswersTo DEF AbstractStep, Stutters, SameEffect
<1>4. ASSUME NEW c \in Callers, Claim(c) PROVE AbstractStep(k)
  <2>1. Claimed(op[c])
    BY <1>4 DEF Claim, CoreInv, Claimed, InCore
  <2> QED BY <1>1, <1>4, <2>1 DEF Claim, runtimeVars
<1>5. ASSUME NEW c \in Callers, Call(c) PROVE AbstractStep(k)
  <2>1. op[c] \in Ops /\ kind[op[c]] = doing[c] /\ state[op[c]] = "executing"
        /\ fate[op[c]] = "none" /\ doing[c] \in Kinds
    BY <1>5 DEF Call, CoreInv, FateInv, InCore, TypeOK
  <2>2. fate' = [fate EXCEPT ![op[c]] = "pending"] /\ UNCHANGED <<kind, answer>>
    BY <1>5 DEF Call, storeVars
  <2>3. calls' = [calls EXCEPT ![doing[c]] = @ + 1]
    BY <1>5 DEF Call
  <2>4. CASE k = doing[c]
    <3>1. Effect(k) = "none"
      BY <2>1, <2>4, EffectOfOperation
    <3>2. calls[k] = 0 /\ calls'[k] = 1
      BY <2>1, <2>3, <2>4, <3>1 DEF CountInv, TypeOK
    <3>3. \A p \in Ops \ {op[c]} : kind[p] = k => fate[p] = "none"
      BY <2>1, <2>4 DEF OneOperationPerKind, FateInv
    <3>4. Effect(k)' = "pending"
      BY <2>1, <2>2, <2>4, <3>3 DEF Effect, Had, TypeOK
    <3> QED BY <2>2, <3>2, <3>4, SameAnswersTo DEF AbstractStep, Makes
  <2>5. CASE k # doing[c]
    <3>1. Effect(k)' = Effect(k)
      BY <2>1, <2>2, <2>5 DEF Effect, Had, TypeOK
    <3> QED BY <2>1, <2>2, <2>3, <2>5, <3>1, SameAnswersTo
            DEF AbstractStep, Stutters, SameEffect, TypeOK
  <2> QED BY <2>4, <2>5
<1>6. ASSUME NEW c \in Callers, Settle(c) PROVE AbstractStep(k)
  <2>1. op[c] \in Ops /\ kind[op[c]] = doing[c] /\ state[op[c]] = "executing"
    BY <1>6 DEF Settle, CoreInv, InCore
  <2>2. /\ outcome[c] \in {"confirmed", "rejected", "unknown"}
        /\ outcome[c] = "confirmed" => fate[op[c]] = "applied"
        /\ outcome[c] = "rejected" => fate[op[c]] = "refused"
    BY <1>6 DEF Settle, FateInv
  <2>3. Leave(c, outcome[c])
    BY <1>6, <2>1, <2>2 DEF Settle, SettlesFrom
  <2>4. outcome[c] \in TrueOf(Effect(doing[c]))
    BY <2>1, <2>2, EffectOfOperation DEF TrueOf
  <2> QED BY <1>6, <2>3, <2>4, LeaveAnswers DEF Settle, runtimeVars, InCore
<1>7. ASSUME NEW o \in Ops, RuntimeActs(o) PROVE AbstractStep(k)
  <2>1. state[o] # "absent" /\ fate[o] = "pending"
    BY <1>7 DEF RuntimeActs, FateInv
  <2>2. UNCHANGED <<kind, calls, answer>>
    BY <1>7 DEF RuntimeActs, storeVars
  <2>3. PICK f \in {"applied", "refused"} : fate' = [fate EXCEPT ![o] = f]
    BY <1>7 DEF RuntimeActs
  <2>4. CASE k = kind[o]
    <3>1. Effect(k) = "pending"
      BY <2>1, <2>4, EffectOfOperation
    <3>2. \A p \in Ops \ {o} : kind[p] = k => fate[p] = "none"
      BY <2>1, <2>4 DEF OneOperationPerKind, FateInv
    <3>3. Effect(k)' = f
      BY <2>2, <2>3, <2>4, <3>2 DEF Effect, Had, TypeOK
    <3> QED BY <2>2, <3>1, <3>3, SameAnswersTo DEF AbstractStep, Acts
  <2>5. CASE k # kind[o]
    <3>1. Effect(k)' = Effect(k)
      BY <2>2, <2>3, <2>5 DEF Effect, Had, TypeOK
    <3> QED BY <2>2, <3>1, SameAnswersTo DEF AbstractStep, Stutters, SameEffect
  <2> QED BY <2>4, <2>5
<1>8. ASSUME NEW c \in Callers,
             Arrive(c) \/ CallReturns(c) \/ SubmitTurn(c) \/ GiveUp(c)
      PROVE  AbstractStep(k)
  BY <1>1, <1>8 DEF Arrive, CallReturns, SubmitTurn, GiveUp, storeVars, runtimeVars
<1>9. CASE Crash
  BY <1>1, <1>9 DEF Crash, runtimeVars
<1>10. CASE UNCHANGED vars
  BY <1>1, <1>10 DEF vars
<1> QED BY <1>2, <1>3, <1>4, <1>5, <1>6, <1>7, <1>8, <1>9, <1>10 DEF Next, Step

LEMMA CountStep ==
  ASSUME DurableInv, [Next]_vars
  PROVE  CountInv'
<1> SUFFICES ASSUME NEW k \in Kinds
             PROVE  calls'[k] = IF Effect(k)' = "none" THEN 0 ELSE 1
  BY DEF CountInv
<1>1. calls[k] = IF Effect(k) = "none" THEN 0 ELSE 1
  BY DEF DurableInv, CountInv
<1>2. AbstractStep(k)
  BY Implements
<1> QED BY <1>1, <1>2 DEF AbstractStep, Stutters, Makes, Acts, Answers, SameEffect

LEMMA AnswerStep ==
  ASSUME DurableInv, [Next]_vars
  PROVE  AnswerInv'
<1> USE DEF DurableInv
<1>1. ASSUME NEW c \in Callers, NEW a, Leave(c, a), UNCHANGED doing, pc[c] \in {"waiting"} \cup InCore
      PROVE  AnswerInv'
  <2>1. pc'[c] = AfterAnswer(doing[c], a) /\ \A d \in Callers \ {c} : pc'[d] = pc[d]
    BY <1>1 DEF Leave, TypeOK
  <2>2. answer' = [answer EXCEPT ![c][doing[c]] = a]
    BY <1>1 DEF Leave
  <2>3. pc'[c] = "created" => doing[c] = "session-create"
    BY <2>1 DEF AfterAnswer
  <2>4. pc'[c] \notin {"out", "waiting"} \cup InCore
    BY <2>1 DEF AfterAnswer, InCore
  <2>5. \A d \in Callers \ {c} : answer'[d] = answer[d]
    BY <2>2 DEF TypeOK
  <2>6. doing[c] = "session-create" => answer'[c]["turn-submit"] = answer[c]["turn-submit"]
    BY <2>2 DEF TypeOK, Kinds
  <2> QED BY <1>1, <2>1, <2>3, <2>4, <2>5, <2>6 DEF AnswerInv
<1>2. ASSUME NEW c \in Callers, Arrive(c) PROVE AnswerInv'
  BY <1>2 DEF Arrive, AnswerInv, TypeOK
<1>3. ASSUME NEW c \in Callers, Read(c) PROVE AnswerInv'
  <2>1. CASE UNCHANGED answer /\ pc' \in {[pc EXCEPT ![c] = "prepare"], [pc EXCEPT ![c] = "claim"]}
    BY <1>3, <2>1 DEF Read, AnswerInv, InCore, TypeOK
  <2>2. \/ UNCHANGED answer /\ pc' \in {[pc EXCEPT ![c] = "prepare"], [pc EXCEPT ![c] = "claim"]}
        \/ \E o \in Matches(doing[c]) :
             Leave(c, IF Matches(doing[c]) = {o} THEN KnownAnswer(o) ELSE "conflict")
    BY <1>3 DEF Read
  <2> QED BY <1>1, <1>3, <2>1, <2>2 DEF Read
<1>4. ASSUME NEW c \in Callers, NEW o \in Ops, Prepare(c, o) PROVE AnswerInv'
  BY <1>4 DEF Prepare, AnswerInv, InCore, TypeOK
<1>5. ASSUME NEW c \in Callers, Claim(c) PROVE AnswerInv'
  BY <1>5, <1>1 DEF Claim, AnswerInv, InCore, TypeOK
<1>6. ASSUME NEW c \in Callers, Call(c) PROVE AnswerInv'
  BY <1>6 DEF Call, AnswerInv, InCore, TypeOK
<1>7. ASSUME NEW c \in Callers, CallReturns(c) PROVE AnswerInv'
  BY <1>7 DEF CallReturns, AnswerInv, InCore, TypeOK
<1>8. ASSUME NEW c \in Callers, Settle(c) PROVE AnswerInv'
  BY <1>8, <1>1 DEF Settle, InCore
<1>9. ASSUME NEW c \in Callers, SubmitTurn(c) PROVE AnswerInv'
  BY <1>9 DEF SubmitTurn, AnswerInv, InCore, TypeOK, Kinds
<1>10. ASSUME NEW c \in Callers, GiveUp(c) PROVE AnswerInv'
  BY <1>10 DEF GiveUp, AnswerInv, InCore, TypeOK
<1>11. CASE UNCHANGED <<pc, doing, answer>>
  BY <1>11 DEF AnswerInv
<1>12. CASE Crash
  BY <1>12 DEF Crash, AnswerInv, InCore, TypeOK
<1> QED
  BY <1>2, <1>3, <1>4, <1>5, <1>6, <1>7, <1>8, <1>9, <1>10, <1>11, <1>12
  DEF Next, Step, RuntimeActs, vars

LEMMA DurableStep == DurableInv /\ [Next]_vars => DurableInv'
<1> SUFFICES ASSUME DurableInv, [Next]_vars PROVE DurableInv'
  OBVIOUS
<1>1. TypeOK'
  BY TypeStep DEF DurableInv
<1> QED BY <1>1, GateStep, CoreStep, FateStep, CountStep, AnswerStep DEF DurableInv

-----------------------------------------------------------------------------
(* The theorems                                                            *)

LEMMA DurableAlways == Spec => []DurableInv
BY DurableInit, DurableStep, PTL DEF Spec

\* Every variable keeps its domain, whatever attempts and crashes do.
THEOREM DurableTypes == Spec => []TypeOK
<1>1. DurableInv => TypeOK
  BY DEF DurableInv
<1> QED BY <1>1, DurableAlways, PTL

\* The chain of promises and the check inside it admit one operation per
\* kind of mutation for any number of attempts, so the conflict branch of the
\* core (617-623) is unreachable.
THEOREM OneOperation == Spec => []OneOperationPerKind
<1>1. DurableInv => OneOperationPerKind
  BY DEF DurableInv
<1> QED BY <1>1, DurableAlways, PTL

LEMMA AbstractInit ==
  ASSUME Init, NEW k \in Kinds
  PROVE  calls[k] = 0 /\ Effect(k) = "none" /\ AnswerTo(k) = [c \in Callers |-> "none"]
BY DEF Init, Effect, Had, AnswerTo

\* Creating the backend session of a task implements the abstract promise:
\* one call, and no answer that is not true of its effect.
THEOREM CreateImplements == Spec => CreateKeepsPromise
<1>1. Init => Create!Init
  BY AbstractInit DEF Create!Init, Kinds
<1>2. DurableInv /\ [Next]_vars => [Create!Next]_(Create!vars)
  <2> SUFFICES ASSUME DurableInv, [Next]_vars PROVE [Create!Next]_(Create!vars)
    OBVIOUS
  <2>1. AbstractStep("session-create")
    BY Implements DEF Kinds
  <2>2. Stutters("session-create") => UNCHANGED Create!vars
    BY DEF Stutters, SameEffect, SameAnswers, Create!vars
  <2>3. Makes("session-create") => Create!Make
    BY DEF Makes, SameAnswers, Create!Make
  <2>4. Acts("session-create") => Create!Act
    BY DEF Acts, SameAnswers, Create!Act
  <2>5. Answers("session-create") => \E c \in Callers : Create!Answer(c)
    BY DEF Answers, SameEffect, AnswerTo, TrueOf, Create!Answer, Create!Truthful
  <2> QED BY <2>1, <2>2, <2>3, <2>4, <2>5 DEF AbstractStep, Create!Next
<1> QED BY <1>1, <1>2, DurableAlways, PTL DEF Spec, CreateKeepsPromise, Create!Spec

\* So does submitting its turn.
THEOREM TurnImplements == Spec => TurnKeepsPromise
<1>1. Init => Turn!Init
  BY AbstractInit DEF Turn!Init, Kinds
<1>2. DurableInv /\ [Next]_vars => [Turn!Next]_(Turn!vars)
  <2> SUFFICES ASSUME DurableInv, [Next]_vars PROVE [Turn!Next]_(Turn!vars)
    OBVIOUS
  <2>1. AbstractStep("turn-submit")
    BY Implements DEF Kinds
  <2>2. Stutters("turn-submit") => UNCHANGED Turn!vars
    BY DEF Stutters, SameEffect, SameAnswers, Turn!vars
  <2>3. Makes("turn-submit") => Turn!Make
    BY DEF Makes, SameAnswers, Turn!Make
  <2>4. Acts("turn-submit") => Turn!Act
    BY DEF Acts, SameAnswers, Turn!Act
  <2>5. Answers("turn-submit") => \E c \in Callers : Turn!Answer(c)
    BY DEF Answers, SameEffect, AnswerTo, TrueOf, Turn!Answer, Turn!Truthful
  <2> QED BY <2>1, <2>2, <2>3, <2>4, <2>5 DEF AbstractStep, Turn!Next
<1> QED BY <1>1, <1>2, DurableAlways, PTL DEF Spec, TurnKeepsPromise, Turn!Spec

-----------------------------------------------------------------------------
(* The turn follows the session                                            *)

\* A task gets past the creation of its session only by being told that it
\* was confirmed, and that is only said of a session the runtime created.
TaskInv ==
  /\ \A c \in Callers :
       pc[c] = "created" \/ doing[c] = "turn-submit" => answer[c]["session-create"] = "confirmed"
  /\ (\E c \in Callers : answer[c]["session-create"] = "confirmed")
       => Effect("session-create") = "applied"
  /\ calls["turn-submit"] > 0 => Effect("session-create") = "applied"

LEMMA TaskInit == Init => TaskInv
BY DEF Init, TaskInv, Kinds

\* A call for a turn is made by a caller that is at the turn.
LEMMA CallsAreMadeAt ==
  ASSUME DurableInv, [Next]_vars, calls'["turn-submit"] # calls["turn-submit"]
  PROVE  \E c \in Callers : doing[c] = "turn-submit"
<1>1. CASE \E c \in Callers : Call(c)
  <2>1. PICK c \in Callers : Call(c)
    BY <1>1
  <2>2. doing[c] # "turn-submit" => calls'["turn-submit"] = calls["turn-submit"]
    BY <2>1 DEF Call, DurableInv, TypeOK, Kinds
  <2> QED BY <2>2
<1>2. CASE ~\E c \in Callers : Call(c)
  BY <1>2 DEF Next, Step, vars, runtimeVars, Arrive, Read, Prepare, Claim, CallReturns, Settle,
              SubmitTurn, GiveUp, RuntimeActs, Crash
<1> QED BY <1>1, <1>2

LEMMA TaskStep ==
  ASSUME DurableInv, TaskInv, [Next]_vars
  PROVE  TaskInv'
<1>0. AbstractStep("session-create")
  BY Implements DEF Kinds
<1>1. Effect("session-create") = "applied" => Effect("session-create")' = "applied"
  BY <1>0 DEF AbstractStep, Stutters, Makes, Acts, Answers, SameEffect, DurableInv, CountInv, Kinds
<1>2. ASSUME NEW c \in Callers, answer'[c]["session-create"] = "confirmed"
      PROVE  Effect("session-create")' = "applied"
  <2>1. CASE answer[c]["session-create"] = "confirmed"
    BY <1>1, <2>1 DEF TaskInv
  <2>2. CASE answer[c]["session-create"] # "confirmed"
    <3>1. AnswerTo("session-create")'[c] # AnswerTo("session-create")[c]
      BY <1>2, <2>2 DEF AnswerTo
    <3>2. Answers("session-create")
      BY <3>1, <1>0 DEF AbstractStep, Stutters, Makes, Acts, SameAnswers
    <3>3. PICK d \in Callers, a \in TrueOf(Effect("session-create")) :
            AnswerTo("session-create")' = [AnswerTo("session-create") EXCEPT ![d] = a]
      BY <3>2 DEF Answers
    <3>4. a = "confirmed"
      BY <1>2, <3>1, <3>3 DEF AnswerTo
    <3> QED BY <1>1, <3>3, <3>4 DEF TrueOf
  <2> QED BY <2>1, <2>2
<1>3. ASSUME NEW c \in Callers, answer[c]["session-create"] = "confirmed"
      PROVE  answer'[c]["session-create"] = "confirmed"
  <2>1. AnswerTo("session-create")[c] = "confirmed"
    BY <1>3 DEF AnswerTo
  <2>2. AnswerTo("session-create")'[c] = "confirmed"
    BY <1>3, <2>1, <1>0 DEF AbstractStep, Stutters, Makes, Acts, Answers, SameAnswers, AnswerTo
  <2> QED BY <2>2 DEF AnswerTo
<1>4. ASSUME NEW c \in Callers, pc'[c] = "created" \/ doing'[c] = "turn-submit"
      PROVE  answer'[c]["session-create"] = "confirmed"
  <2>1. CASE pc[c] = "created" \/ doing[c] = "turn-submit"
    BY <1>3, <2>1 DEF TaskInv
  <2>2. CASE ~(pc[c] = "created" \/ doing[c] = "turn-submit")
    <3>1. pc'[c] = "created" /\ doing[c] = "session-create"
      <4>1. doing'[c] = doing[c]
        BY <2>2 DEF Next, Step, vars, Arrive, Read, Prepare, Claim, Call, CallReturns, Settle,
                    SubmitTurn, GiveUp, RuntimeActs, Crash, DurableInv, TypeOK
      <4> QED BY <1>4, <2>2, <4>1 DEF DurableInv, TypeOK, Kinds
    <3>2. PICK a : Leave(c, a)
      <4>1. pc'[c] # pc[c] /\ pc'[c] \notin {"waiting", "prepare", "claim", "call", "calling",
                                           "settle", "done", "lost"}
        BY <2>2, <3>1
      <4>2. ASSUME NEW d \in Callers, NEW b, Leave(d, b) PROVE d = c
        BY <4>1, <4>2 DEF Leave, DurableInv, TypeOK
      <4>3. \E d \in Callers : Read(d) \/ Claim(d) \/ Settle(d)
        BY <4>1 DEF Next, Step, vars, Arrive, Prepare, Call, CallReturns,
                    SubmitTurn, GiveUp, RuntimeActs, Crash, DurableInv, TypeOK
      <4>4. PICK d \in Callers : Read(d) \/ Claim(d) \/ Settle(d)
        BY <4>3
      <4>5. \/ \E b : Leave(d, b)
            \/ pc' \in {[pc EXCEPT ![d] = "prepare"], [pc EXCEPT ![d] = "claim"],
                        [pc EXCEPT ![d] = "call"]}
        BY <4>4 DEF Read, Claim, Settle
      <4>6. \E b : Leave(d, b)
        BY <4>1, <4>5 DEF DurableInv, TypeOK
      <4> QED BY <4>2, <4>6
    <3>3. a = "confirmed"
      BY <3>1, <3>2 DEF Leave, AfterAnswer, DurableInv, TypeOK
    <3> QED BY <3>1, <3>2, <3>3 DEF Leave, DurableInv, TypeOK, Kinds
  <2> QED BY <2>1, <2>2
<1>5. calls'["turn-submit"] > 0 => Effect("session-create")' = "applied"
  <2>1. CASE calls'["turn-submit"] = calls["turn-submit"]
    BY <1>1, <2>1 DEF TaskInv
  <2>2. CASE calls'["turn-submit"] # calls["turn-submit"]
    BY <1>1, <2>2, CallsAreMadeAt DEF TaskInv
  <2> QED BY <2>1, <2>2
<1> QED BY <1>2, <1>4, <1>5 DEF TaskInv

\* No turn is ever submitted for a session that the runtime did not create.
THEOREM TurnsFollowCreation == Spec => []TurnFollowsCreate
<1>1. DurableInv /\ TaskInv /\ [Next]_vars => TaskInv'
  BY TaskStep
<1>2. TaskInv => TurnFollowsCreate
  BY DEF TaskInv, TurnFollowsCreate, Effect, Had
<1> QED BY <1>1, <1>2, TaskInit, DurableAlways, PTL DEF Spec

-----------------------------------------------------------------------------
(* The gate is never abandoned: the safety half of EveryAttemptEnds        *)

UnderWay == {"waiting"} \cup InCore

InChain(c, k) == \E i \in 1 .. Len(tails[k]) : tails[k][i] = c

\* The promise chain of a kind holds the attempts that are under way at it,
\* and each of them once.
ChainInv ==
  /\ \A k \in Kinds :
       /\ \A i \in 1 .. Len(tails[k]) : doing[tails[k][i]] = k /\ pc[tails[k][i]] \in UnderWay
       /\ \A i, j \in 1 .. Len(tails[k]) : tails[k][i] = tails[k][j] => i = j
  /\ \A c \in Callers : pc[c] \in UnderWay => InChain(c, doing[c])

\* Whoever waits stands in a chain, and at its head is an attempt that is past
\* the gate or may pass it: none that has left, given up or died.
NobodyWaitsBehindTheDead ==
  \A c \in Callers :
    pc[c] = "waiting" =>
      LET d == Head(tails[doing[c]])
      IN InChain(c, doing[c]) /\ doing[d] = doing[c] /\ pc[d] \in UnderWay /\ Holds(d)

\* Who arrives goes to the end of one chain.
LEMMA ArrivingKeepsChains ==
  ASSUME TypeOK, ChainInv, NEW c \in Callers, NEW k \in Kinds, Queue(c, k),
         pc[c] \notin UnderWay, pc' = [pc EXCEPT ![c] = "waiting"],
         doing' = [doing EXCEPT ![c] = k]
  PROVE  ChainInv'
<1>1. tails \in [Kinds -> Seq(Callers)] /\ DOMAIN pc = Callers /\ DOMAIN doing = Callers
  BY DEF TypeOK
<1>2. \A m \in Kinds : \A i \in 1 .. Len(tails[m]) : tails[m][i] # c
  BY DEF ChainInv
<1>3. /\ tails'[k] = Append(tails[k], c)
      /\ \A m \in Kinds \ {k} : tails'[m] = tails[m]
  BY <1>1 DEF Queue
<1>4. /\ Len(tails'[k]) = Len(tails[k]) + 1
      /\ \A i \in 1 .. Len(tails'[k]) :
           tails'[k][i] = IF i = Len(tails[k]) + 1 THEN c ELSE tails[k][i]
      /\ Len(tails[k]) \in Nat
  BY <1>1, <1>3
<1>5. \A d \in Callers \ {c} : pc'[d] = pc[d] /\ doing'[d] = doing[d]
  BY <1>1
<1>6. pc'[c] = "waiting" /\ doing'[c] = k
  BY <1>1
<1>7. \A m \in Kinds : \A i \in 1 .. Len(tails[m]) : tails[m][i] \in Callers
  BY <1>1
<1>8. ASSUME NEW m \in Kinds, NEW i \in 1 .. Len(tails'[m])
      PROVE  doing'[tails'[m][i]] = m /\ pc'[tails'[m][i]] \in UnderWay
  <2>1. CASE m = k /\ i = Len(tails[k]) + 1
    BY <1>4, <1>6, <2>1 DEF UnderWay
  <2>2. CASE ~(m = k /\ i = Len(tails[k]) + 1)
    <3>1. i \in 1 .. Len(tails[m]) /\ tails'[m][i] = tails[m][i]
      BY <1>3, <1>4, <1>8, <2>2
    <3> QED BY <1>2, <1>5, <1>7, <3>1 DEF ChainInv
  <2> QED BY <2>1, <2>2
<1>9. ASSUME NEW m \in Kinds, NEW i \in 1 .. Len(tails'[m]), NEW j \in 1 .. Len(tails'[m]),
             tails'[m][i] = tails'[m][j]
      PROVE  i = j
  <2>1. CASE m = k
    <3>1. CASE i = Len(tails[k]) + 1 \/ j = Len(tails[k]) + 1
      BY <1>2, <1>4, <1>9, <2>1, <3>1
    <3>2. CASE i # Len(tails[k]) + 1 /\ j # Len(tails[k]) + 1
      <4>1. /\ i \in 1 .. Len(tails[k]) /\ j \in 1 .. Len(tails[k])
            /\ tails[k][i] = tails[k][j]
        BY <1>4, <1>9, <2>1, <3>2
      <4> QED BY <4>1 DEF ChainInv
    <3> QED BY <3>1, <3>2
  <2>2. CASE m # k
    BY <1>3, <1>9, <2>2 DEF ChainInv
  <2> QED BY <2>1, <2>2
<1>10. ASSUME NEW d \in Callers, pc'[d] \in UnderWay
       PROVE  InChain(d, doing[d])'
  <2>1. CASE d = c
    BY <1>4, <1>6, <2>1 DEF InChain
  <2>2. CASE d # c
    <3>1. PICK i \in 1 .. Len(tails[doing[d]]) : tails[doing[d]][i] = d
      BY <1>5, <1>10, <2>2 DEF ChainInv, InChain
    <3>2. doing[d] \in Kinds
      BY DEF TypeOK
    <3>3. i \in 1 .. Len(tails'[doing[d]]) /\ tails'[doing[d]][i] = d
      BY <1>3, <1>4, <3>1, <3>2
    <3> QED BY <1>5, <2>2, <3>3 DEF InChain
  <2> QED BY <2>1, <2>2
<1> QED BY <1>8, <1>9, <1>10 DEF ChainInv

\* Who leaves takes itself, and nobody else, out of its chain.
LEMMA LeavingKeepsChains ==
  ASSUME TypeOK, ChainInv, NEW c \in Callers, NEW a, Holds(c), Leave(c, a), doing' = doing
  PROVE  ChainInv'
<1> DEFINE k == doing[c]
<1>1. tails \in [Kinds -> Seq(Callers)] /\ k \in Kinds /\ DOMAIN pc = Callers
  BY DEF TypeOK
<1>2. tails[k] # <<>> /\ tails[k][1] = c /\ Len(tails[k]) \in Nat \ {0}
  BY <1>1 DEF Holds
<1>3. /\ tails'[k] = Tail(tails[k])
      /\ \A m \in Kinds \ {k} : tails'[m] = tails[m]
  BY <1>1 DEF Leave, Release
<1>4. /\ Len(tails'[k]) = Len(tails[k]) - 1
      /\ \A i \in 1 .. Len(tails'[k]) : tails'[k][i] = tails[k][i + 1]
  BY <1>1, <1>2, <1>3
<1>5. pc'[c] \notin UnderWay /\ \A d \in Callers \ {c} : pc'[d] = pc[d]
  BY <1>1 DEF Leave, AfterAnswer, UnderWay, InCore
<1>6. \A m \in Kinds : \A i \in 1 .. Len(tails[m]) : tails[m][i] = c => m = k /\ i = 1
  BY <1>2 DEF ChainInv
<1>7. \A m \in Kinds : \A i \in 1 .. Len(tails[m]) : tails[m][i] \in Callers
  BY <1>1
<1>8. ASSUME NEW m \in Kinds, NEW i \in 1 .. Len(tails'[m])
      PROVE  \E j \in 1 .. Len(tails[m]) :
               /\ tails'[m][i] = tails[m][j] /\ tails[m][j] # c
               /\ j = IF m = k THEN i + 1 ELSE i
  <2>1. CASE m = k
    <3>1. i + 1 \in 1 .. Len(tails[k]) /\ i + 1 # 1
      BY <1>2, <1>4, <1>8, <2>1
    <3> QED BY <1>4, <1>6, <1>8, <2>1, <3>1
  <2>2. CASE m # k
    BY <1>3, <1>6, <1>8, <2>2
  <2> QED BY <2>1, <2>2
<1>9. ASSUME NEW m \in Kinds, NEW i \in 1 .. Len(tails'[m])
      PROVE  doing[tails'[m][i]] = m /\ pc'[tails'[m][i]] \in UnderWay
  BY <1>5, <1>7, <1>8, <1>9 DEF ChainInv
<1>10. ASSUME NEW m \in Kinds, NEW i \in 1 .. Len(tails'[m]), NEW j \in 1 .. Len(tails'[m]),
             tails'[m][i] = tails'[m][j]
       PROVE  i = j
  <2>1. PICK x \in 1 .. Len(tails[m]) :
          tails'[m][i] = tails[m][x] /\ x = IF m = k THEN i + 1 ELSE i
    BY <1>8
  <2>2. PICK y \in 1 .. Len(tails[m]) :
          tails'[m][j] = tails[m][y] /\ y = IF m = k THEN j + 1 ELSE j
    BY <1>8
  <2>3. tails[m][x] = tails[m][y]
    BY <1>10, <2>1, <2>2
  <2>4. \A u, v \in 1 .. Len(tails[m]) : tails[m][u] = tails[m][v] => u = v
    BY DEF ChainInv
  <2>5. x = y
    BY <2>3, <2>4
  <2>6. \/ m = k /\ x = i + 1 /\ y = j + 1
        \/ x = i /\ y = j
    BY <2>1, <2>2
  <2> QED BY <2>5, <2>6
<1>11. ASSUME NEW d \in Callers, pc'[d] \in UnderWay
       PROVE  InChain(d, doing[d])'
  <2>1. d # c /\ doing[d] \in Kinds
    BY <1>5, <1>11 DEF TypeOK
  <2>2. PICK i \in 1 .. Len(tails[doing[d]]) : tails[doing[d]][i] = d
    BY <1>5, <1>11, <2>1 DEF ChainInv, InChain
  <2>3. CASE doing[d] = k
    <3>1. i # 1
      BY <1>2, <2>1, <2>2, <2>3
    <3>2. i - 1 \in 1 .. Len(tails'[k]) /\ tails'[k][i - 1] = d
      BY <1>4, <2>2, <2>3, <3>1
    <3> QED BY <2>3, <3>2 DEF InChain
  <2>4. CASE doing[d] # k
    BY <1>3, <2>1, <2>2, <2>4 DEF InChain
  <2> QED BY <2>3, <2>4
<1> QED BY <1>9, <1>10, <1>11 DEF ChainInv

LEMMA ChainStep == DurableInv /\ ChainInv /\ [Next]_vars => ChainInv'
<1> SUFFICES ASSUME DurableInv, ChainInv, [Next]_vars
             PROVE  ChainInv'
  OBVIOUS
<1>0. TypeOK /\ GateInv /\ DOMAIN pc = Callers /\ DOMAIN doing = Callers
  BY DEF DurableInv, TypeOK
<1>1. ASSUME UNCHANGED <<tails, doing>>,
             \A c \in Callers : pc'[c] \in UnderWay <=> pc[c] \in UnderWay
      PROVE  ChainInv'
  <2>1. \A k \in Kinds : \A i \in 1 .. Len(tails[k]) : tails[k][i] \in Callers
    BY <1>0 DEF TypeOK
  <2> QED BY <1>1, <2>1 DEF ChainInv, InChain
<1>2. ASSUME NEW c \in Callers, Arrive(c)
      PROVE  ChainInv'
  <2>1. doing[c] = "session-create" /\ pc[c] \notin UnderWay
    BY <1>2 DEF Arrive, DurableInv, AnswerInv, UnderWay, InCore
  <2>2. doing' = [doing EXCEPT ![c] = "session-create"]
    BY <1>0, <1>2, <2>1 DEF Arrive, TypeOK
  <2> QED BY <1>0, <1>2, <2>1, <2>2, ArrivingKeepsChains DEF Arrive, Kinds
<1>3. ASSUME NEW c \in Callers, SubmitTurn(c)
      PROVE  ChainInv'
  <2>1. pc[c] \notin UnderWay
    BY <1>3 DEF SubmitTurn, UnderWay, InCore
  <2> QED BY <1>0, <1>3, <2>1, ArrivingKeepsChains DEF SubmitTurn, Kinds
<1>4. ASSUME NEW c \in Callers, Read(c) \/ Claim(c) \/ Settle(c), UNCHANGED tails
      PROVE  ChainInv'
  <2>1. /\ doing' = doing /\ pc[c] \in UnderWay
        /\ \/ pc' = [pc EXCEPT ![c] = "prepare"] \/ pc' = [pc EXCEPT ![c] = "claim"]
           \/ pc' = [pc EXCEPT ![c] = "call"]
           \/ \E a : Leave(c, a)
    BY <1>4 DEF Read, Claim, Settle, UnderWay, InCore
  <2>2. ASSUME NEW a, Leave(c, a)
        PROVE  FALSE
    <3>1. doing[c] \in Kinds /\ tails \in [Kinds -> Seq(Callers)] /\ Holds(c)
      BY <1>0, <1>4 DEF TypeOK, GateInv, InCore, Read, Claim, Settle
    <3>2. tails'[doing[c]] = Tail(tails[doing[c]]) /\ tails[doing[c]] # <<>>
      BY <2>2, <3>1 DEF Leave, Release, Holds
    <3>3. Len(Tail(tails[doing[c]])) # Len(tails[doing[c]])
      BY <3>1, <3>2
    <3> QED BY <1>4, <3>2, <3>3
  <2> QED BY <1>0, <1>1, <1>4, <2>1, <2>2 DEF UnderWay, InCore
<1>5. ASSUME NEW c \in Callers, Read(c) \/ Claim(c) \/ Settle(c), tails' # tails
      PROVE  ChainInv'
  <2>1. Holds(c) /\ doing' = doing /\ \E a : Leave(c, a)
    BY <1>0, <1>5 DEF GateInv, InCore, Read, Claim, Settle
  <2> QED BY <1>0, <2>1, LeavingKeepsChains
<1>6. ASSUME NEW c \in Callers, Call(c) \/ CallReturns(c) \/ GiveUp(c) \/ \E o \in Ops : Prepare(c, o)
      PROVE  ChainInv'
  BY <1>0, <1>1, <1>6 DEF Call, CallReturns, GiveUp, Prepare, UnderWay, InCore
<1>7. ASSUME NEW o \in Ops, RuntimeActs(o)
      PROVE  ChainInv'
  BY <1>1, <1>7 DEF RuntimeActs
<1>8. CASE Crash
  <2>1. \A k \in Kinds : tails'[k] = <<>>
    BY <1>8 DEF Crash
  <2>2. \A c \in Callers : pc'[c] \notin UnderWay
    BY <1>8 DEF Crash, UnderWay, InCore
  <2> QED BY <2>1, <2>2 DEF ChainInv
<1>9. CASE UNCHANGED vars
  BY <1>1, <1>9 DEF vars
<1> QED
  BY <1>2, <1>3, <1>4, <1>5, <1>6, <1>7, <1>8, <1>9 DEF Next, Step

\* No attempt waits behind one that will never release the gate, whatever
\* answers, errors and crashes end the earlier ones (the finally of
\* executeDurableRuntimeMutation, 712-735).  What fairness adds is that the
\* head of a chain runs on.
THEOREM TheGateIsNeverAbandoned == Spec => []NobodyWaitsBehindTheDead
<1>1. Init => ChainInv
  BY DEF Init, ChainInv, UnderWay, InCore
<1>2. TypeOK /\ ChainInv => NobodyWaitsBehindTheDead
  <2> SUFFICES ASSUME TypeOK, ChainInv, NEW c \in Callers, pc[c] = "waiting"
               PROVE  LET d == Head(tails[doing[c]])
                      IN /\ InChain(c, doing[c]) /\ doing[d] = doing[c]
                         /\ pc[d] \in UnderWay /\ Holds(d)
    BY DEF NobodyWaitsBehindTheDead
  <2>1. /\ InChain(c, doing[c]) /\ doing[c] \in Kinds
        /\ tails[doing[c]] \in Seq(Callers)
    BY DEF ChainInv, UnderWay, TypeOK
  <2>2. /\ tails[doing[c]] # <<>> /\ 1 \in 1 .. Len(tails[doing[c]])
        /\ Head(tails[doing[c]]) = tails[doing[c]][1]
    BY <2>1 DEF InChain
  <2> QED BY <2>1, <2>2 DEF ChainInv, Holds
<1>3. DurableInv => TypeOK
  BY DEF DurableInv
<1> QED BY <1>1, <1>2, <1>3, ChainStep, DurableAlways, PTL DEF Spec

=============================================================================
