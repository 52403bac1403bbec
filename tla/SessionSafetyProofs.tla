------------------------ MODULE SessionSafetyProofs ------------------------
(***************************************************************************)
(* The safety theorems of SessionStore: one call per operation, outcomes   *)
(* that are true, nothing of an old epoch claimed, settlements that stay,  *)
(* and no message sent twice behind the user's back.                       *)
(***************************************************************************)
EXTENDS SessionStoreProofs

\* An operation that was never claimed never reached the runtime; a claim is
\* followed by one call; a settled row tells what the runtime did.
CallInv ==
  /\ \A o \in Ops : state[o] \in {"absent", "prepared"}
                     => exec[o] = "idle" /\ fate[o] = "none" /\ calls[o] = 0
  /\ \A o \in Ops \ Replayable : calls[o] <= 1 /\ (exec[o] = "claimed" => calls[o] = 0)
  /\ OutcomeIsTrue

\* A published reset stays confirmed, and no operation that is older than one
\* can be claimed any more.
EpochInv ==
  /\ \A reset \in markers : state[reset] = "confirmed"
  /\ NoStaleClaim

Dead(o) == state[o] \in {"rejected", "not-applied"}

\* A row that may be dispatched carries a message all of whose earlier
\* operations are dead; a reserved one, a message whose only other living
\* operation is the one it is reserved by.
RowsMayBeSent ==
  \A r \in queued : RowMsg(r) \notin touched =>
    /\ r \in Ops => held[r] /\ resv[r] = NoOp
    /\ resv[r] = NoOp /\ ~held[r] => \A o \in Ops : carries[o] = RowMsg(r) => Dead(o)
    /\ resv[r] \in Ops =>
         /\ carries[resv[r]] = RowMsg(r)
         /\ \A o \in Ops \ {resv[r]} : carries[o] = RowMsg(r) => Dead(o)

\* Of two operations that carry the same message at least one is dead.
OneLivingCarrier ==
  \A o, p \in Ops : (o # p /\ carries[o] = carries[p] /\ carries[o] \in Msgs \ touched)
                      => Dead(o) \/ Dead(p)

\* Messages come from admitted ones; rows and reservations from operations
\* that exist.
CarriersExist ==
  /\ \A o \in Ops : carries[o] \in admitted \cup {NoMsg} /\ owner[o] \in admitted \cup {NoMsg}
  /\ queued \cap Msgs \subseteq admitted
  /\ \A o \in Ops : state[o] = "absent" => o \notin queued /\ \A r \in queued : resv[r] # o

CarryInv == RowsMayBeSent /\ OneLivingCarrier /\ CarriersExist

-----------------------------------------------------------------------------
(* What the settlements do to one operation                                *)

\* A settlement changes the state of its operation only, along the table,
\* never into or out of a state that was not claimed, and touches no row but
\* its own: confirming removes it, releasing frees it.
LEMMA SettleEffect ==
  ASSUME TypeInv, NEW o \in Ops, NEW s \in Settlement, Settle(o, s)
  PROVE  /\ state[o] \in SettlesFrom(s)
         /\ state' = [state EXCEPT ![o] = s]
         /\ \/ UNCHANGED queueVars
            \/ /\ queued' \subseteq queued
               /\ UNCHANGED <<pos, held, resv>>
            \/ /\ s \in {"rejected", "not-applied"}
               /\ UNCHANGED <<queued, pos, held>>
               /\ resv' = [r \in Rows |-> IF r \in ReservedBy(o) THEN NoOp ELSE resv[r]]
  BY DEF Settle, SettleOperation, ConfirmQueueReservation, ReleaseQueueReservation,
         TransitionOperation, queueVars

\* The table never leads out of a terminal state or from an absent row.
LEMMA TableIsForward ==
  ASSUME NEW s \in Settlement
  PROVE  /\ SettlesFrom(s) \cap (Terminal \cup {"absent"}) = {}
         /\ s # "rejected" => "prepared" \notin SettlesFrom(s)
         /\ s \notin {"absent", "prepared", "executing"}
  BY DEF SettlesFrom, Terminal, Settlement

-----------------------------------------------------------------------------
(* One call, true outcomes                                                 *)

LEMMA CallInit == Init => CallInv
  BY OpsAssumption DEF Init, CallInv, OutcomeIsTrue, MayTakeEffect

LEMMA CallStep == TypeInv /\ CallInv /\ [Next]_vars => CallInv'
<1> SUFFICES ASSUME TypeInv, CallInv, [Next]_vars
             PROVE  CallInv'
  OBVIOUS
<1> USE DEF TypeInv, TypeOK, CallInv, OutcomeIsTrue, MayTakeEffect
<1>1. ASSUME NEW o \in Ops, NEW k, InsertPreparedOperation(o, k), UNCHANGED <<exec, runtimeVars>>
      PROVE  CallInv'
  BY <1>1 DEF InsertPreparedOperation, runtimeVars
<1>2. ASSUME UNCHANGED <<state, exec, runtimeVars>>
      PROVE  CallInv'
  BY <1>2 DEF runtimeVars
<1>3. ASSUME NEW o \in Ops, ClaimOperation(o) \/ ReplayUnknownOperation(o)
      PROVE  CallInv'
  BY <1>3 DEF ClaimOperation, ReplayUnknownOperation
<1>4. ASSUME NEW o \in Ops, CallRuntime(o) \/ RuntimeActs(o)
      PROVE  CallInv'
  BY <1>4 DEF CallRuntime, RuntimeActs, opVars
<1>5. ASSUME NEW o \in Ops, ExecutorSettles(o)
      PROVE  CallInv'
  <2>1. PICK s \in Answers(o) :
          Settle(o, s) \/ UNCHANGED <<opVars, queueVars>>
    BY <1>5 DEF ExecutorSettles
  <2>2. s \in Settlement
    BY DEF Answers, Settlement
  <2>3. CASE Settle(o, s)
    <3>1. /\ state[o] \in SettlesFrom(s)
          /\ state' = [state EXCEPT ![o] = s]
      BY <2>2, <2>3, SettleEffect
    <3>2. /\ s = "confirmed" => fate[o] = "applied"
          /\ s = "rejected" => fate[o] = "refused"
          /\ s # "not-applied"
      BY DEF Answers
    <3>3. QED
      BY <1>5, <2>2, <3>1, <3>2, TableIsForward DEF ExecutorSettles, runtimeVars
  <2>4. CASE UNCHANGED <<opVars, queueVars>>
    BY <1>5, <2>4 DEF ExecutorSettles, opVars, runtimeVars
  <2>5. QED
    BY <2>1, <2>3, <2>4
<1>6. ASSUME NEW o \in Ops, EvidenceSettles(o)
      PROVE  CallInv'
  <2>1. PICK s \in {"confirmed", "not-applied"} :
          /\ Settle(o, s)
          /\ s = "confirmed" => fate[o] = "applied"
          /\ s = "not-applied" => exec[o] = "idle" /\ fate[o] \in {"none", "refused"}
    BY <1>6 DEF EvidenceSettles
  <2>2. state' = [state EXCEPT ![o] = s]
    BY <2>1, SettleEffect DEF Settlement
  <2>3. QED
    BY <1>6, <2>1, <2>2 DEF EvidenceSettles, runtimeVars
<1>7. ASSUME NEW reset \in Ops, NEW proof \in Backends,
             ReplaceFencedEpoch(reset, proof) \/ ReplaceUnfencedEpoch(reset)
      PROVE  CallInv'
  BY <1>7 DEF ReplaceFencedEpoch, ReplaceUnfencedEpoch, Retired, Uncertain, Older, runtimeVars
<1>8. ASSUME NEW b \in Backends, BackendReleased(b)
      PROVE  CallInv'
  BY <1>8 DEF BackendReleased, opVars
<1>9. ASSUME Restart
      PROVE  CallInv'
  BY <1>9 DEF Restart, runtimeVars
<1>10. ASSUME NEW o \in Ops,
              \/ \E m \in Msgs : PrepareTurn(o, m)
              \/ \E k \in Kinds : PrepareOther(o, k)
              \/ \E r \in Rows : ReserveQueueHead(o, r)
       PROVE  CallInv'
  BY <1>10, <1>1 DEF PrepareTurn, PrepareOther, ReserveQueueHead, runtimeVars
<1>11. ASSUME \/ \E m \in Msgs : Enqueue(m)
              \/ \E r \in Rows : QueueEdit(r) \/ QueueRemove(r)
              \/ QueueReorder
              \/ RecoverRestartInterruptedTurns
              \/ UNCHANGED vars
       PROVE  CallInv'
  BY <1>11, <1>2
  DEF Enqueue, QueueEdit, QueueRemove, QueueReorder, RecoverRestartInterruptedTurns,
      opVars, runtimeVars, vars
<1>12. QED
  BY <1>3, <1>4, <1>5, <1>6, <1>7, <1>8, <1>9, <1>10, <1>11
  DEF Next, ClientNext, ServerNext, EnvironmentNext

\* An operation without a replay contract is called at most once.
THEOREM CallAtMostOnce == Spec => []CalledAtMostOnce
<1>1. Init => TypeInv /\ CallInv
  BY TypeInit, CallInit
<1>2. (TypeInv /\ CallInv) /\ [Next]_vars => (TypeInv /\ CallInv)'
  BY TypeStep, CallStep
<1>3. CallInv => CalledAtMostOnce
  BY DEF CallInv, CalledAtMostOnce
<1>4. QED
  BY <1>1, <1>2, <1>3, PTL DEF Spec

\* What a settled row says of the runtime is true and stays true.
THEOREM OutcomesAreTrue == Spec => []OutcomeIsTrue
<1>1. Init => TypeInv /\ CallInv
  BY TypeInit, CallInit
<1>2. (TypeInv /\ CallInv) /\ [Next]_vars => (TypeInv /\ CallInv)'
  BY TypeStep, CallStep
<1>3. CallInv => OutcomeIsTrue
  BY DEF CallInv
<1>4. QED
  BY <1>1, <1>2, <1>3, PTL DEF Spec

-----------------------------------------------------------------------------
(* Settlements stay                                                        *)

\* What one step may do to the state of an operation.
LEMMA TerminalStep ==
  ASSUME TypeInv, Next, NEW o \in Ops, state[o] \in Terminal
  PROVE  state'[o] = state[o]
<1> USE DEF TypeInv, TypeOK
<1>1. ASSUME NEW p \in Ops, NEW k, InsertPreparedOperation(p, k)
      PROVE  state'[o] = state[o]
  BY <1>1 DEF InsertPreparedOperation, Terminal
<1>2. ASSUME NEW p \in Ops, ClaimOperation(p) \/ ReplayUnknownOperation(p)
      PROVE  state'[o] = state[o]
  BY <1>2 DEF ClaimOperation, ReplayUnknownOperation, Terminal
<1>3. ASSUME NEW p \in Ops, NEW s \in Settlement, Settle(p, s)
      PROVE  state'[o] = state[o]
  BY <1>3, SettleEffect, TableIsForward
<1>4. ASSUME NEW p \in Ops, ExecutorSettles(p) \/ EvidenceSettles(p)
      PROVE  state'[o] = state[o]
  <2>1. UNCHANGED opVars \/ \E s \in Settlement : Settle(p, s)
    BY <1>4 DEF ExecutorSettles, EvidenceSettles, Answers, Settlement
  <2>2. QED
    BY <2>1, <1>3 DEF opVars
<1>5. ASSUME NEW reset \in Ops, NEW proof \in Backends,
             ReplaceFencedEpoch(reset, proof) \/ ReplaceUnfencedEpoch(reset)
      PROVE  state'[o] = state[o]
  BY <1>5 DEF ReplaceFencedEpoch, ReplaceUnfencedEpoch, Retired, Uncertain, Older, Terminal
<1>6. ASSUME Restart
      PROVE  state'[o] = state[o]
  BY <1>6 DEF Restart, Terminal
<1>7. ASSUME NEW p \in Ops,
             \/ \E m \in Msgs : PrepareTurn(p, m)
             \/ \E k \in Kinds : PrepareOther(p, k)
             \/ \E r \in Rows : ReserveQueueHead(p, r)
      PROVE  state'[o] = state[o]
  BY <1>7, <1>1 DEF PrepareTurn, PrepareOther, ReserveQueueHead
<1>8. ASSUME \/ \E m \in Msgs : Enqueue(m)
             \/ \E r \in Rows : QueueEdit(r) \/ QueueRemove(r)
             \/ QueueReorder
             \/ \E p \in Ops : CallRuntime(p) \/ RuntimeActs(p)
             \/ \E b \in Backends : BackendReleased(b)
             \/ RecoverRestartInterruptedTurns
      PROVE  state'[o] = state[o]
  BY <1>8 DEF Enqueue, QueueEdit, QueueRemove, QueueReorder, CallRuntime, RuntimeActs,
              BackendReleased, RecoverRestartInterruptedTurns, opVars
<1>9. QED
  BY <1>2, <1>4, <1>5, <1>6, <1>7, <1>8 DEF Next, ClientNext, ServerNext, EnvironmentNext

\* A settled operation never changes again.
THEOREM SettlementsStay == Spec => SettledForGood
<1>1. TypeInv /\ [Next]_vars
        => [\A o \in Ops : state[o] \in Terminal => state'[o] = state[o]]_vars
  BY TerminalStep
<1>2. QED
  BY <1>1, TypeInit, TypeStep, PTL DEF Spec, SettledForGood

-----------------------------------------------------------------------------
(* Nothing of an old epoch can be claimed                                  *)

LEMMA EpochInit == Init => EpochInv
  BY DEF Init, EpochInv, NoStaleClaim

LEMMA EpochStep == TypeInv /\ EpochInv /\ [Next]_vars => EpochInv'
<1> SUFFICES ASSUME TypeInv, EpochInv, [Next]_vars
             PROVE  EpochInv'
  OBVIOUS
<1> USE DEF TypeInv, TypeOK, EpochInv, NoStaleClaim
\* An epoch is published: everything older leaves prepared and executing.
<1>1. ASSUME NEW reset \in Ops, NEW proof \in Backends,
             ReplaceFencedEpoch(reset, proof) \/ ReplaceUnfencedEpoch(reset)
      PROVE  EpochInv'
  BY <1>1
  DEF ReplaceFencedEpoch, ReplaceUnfencedEpoch, MayReplaceBinding, Retired, Uncertain, Older,
      OperationState, Blocking, Terminal
\* A new operation is younger than every published reset.
<1>2. ASSUME NEW o \in Ops, NEW k, InsertPreparedOperation(o, k), UNCHANGED markers
      PROVE  EpochInv'
  <2>1. o \notin markers
    BY <1>2 DEF InsertPreparedOperation
  <2>2. PICK n \in 1 .. Cardinality(Ops) :
          IsNextOrdinal(n) /\ ordinal' = [ordinal EXCEPT ![o] = n]
    BY <1>2 DEF InsertPreparedOperation
  <2>3. n \in Nat /\ \A p \in Ops : ordinal[p] < n
    BY <2>2, CardinalityOfPart DEF IsNextOrdinal, Rows
  <2>4. \A reset \in markers : ordinal'[reset] = ordinal[reset] /\ ~(ordinal'[o] < ordinal'[reset])
    BY <2>1, <2>2, <2>3
  <2>5. \A p \in Ops \ {o} : ordinal'[p] = ordinal[p] /\ state'[p] = state[p]
    BY <1>2, <2>2 DEF InsertPreparedOperation
  <2>6. QED
    BY <1>2, <2>1, <2>4, <2>5
<1>3. ASSUME NEW o \in Ops, ClaimOperation(o) \/ ReplayUnknownOperation(o)
      PROVE  EpochInv'
  BY <1>3 DEF ClaimOperation, ReplayUnknownOperation, epochVars
<1>4. ASSUME NEW o \in Ops, ExecutorSettles(o) \/ EvidenceSettles(o)
      PROVE  EpochInv'
  <2>1. CASE UNCHANGED opVars
    BY <1>4, <2>1 DEF ExecutorSettles, EvidenceSettles, opVars, epochVars
  <2>2. CASE \E s \in Settlement : Settle(o, s)
    <3>1. PICK s \in Settlement : Settle(o, s)
      BY <2>2
    <3>2. /\ state[o] \in SettlesFrom(s)
          /\ state' = [state EXCEPT ![o] = s]
      BY <3>1, SettleEffect
    <3>3. state[o] # "confirmed" /\ s \notin {"prepared", "executing"}
      BY <3>2, TableIsForward DEF Terminal
    <3>4. UNCHANGED <<ordinal, markers>>
      BY <1>4, <3>1, SettleTypes DEF ExecutorSettles, EvidenceSettles, epochVars
    <3>5. QED
      BY <3>2, <3>3, <3>4
  <2>3. UNCHANGED opVars \/ \E s \in Settlement : Settle(o, s)
    BY <1>4 DEF ExecutorSettles, EvidenceSettles, Answers, Settlement
  <2>4. QED
    BY <2>1, <2>2, <2>3
<1>5. ASSUME Restart
      PROVE  EpochInv'
  BY <1>5 DEF Restart, epochVars
<1>6. ASSUME NEW o \in Ops,
             \/ \E m \in Msgs : PrepareTurn(o, m)
             \/ \E k \in Kinds : PrepareOther(o, k)
             \/ \E r \in Rows : ReserveQueueHead(o, r)
      PROVE  EpochInv'
  BY <1>6, <1>2 DEF PrepareTurn, PrepareOther, ReserveQueueHead, epochVars
<1>7. ASSUME UNCHANGED <<state, ordinal, markers>>
      PROVE  EpochInv'
  BY <1>7
<1>8. ASSUME \/ \E m \in Msgs : Enqueue(m)
             \/ \E r \in Rows : QueueEdit(r) \/ QueueRemove(r)
             \/ QueueReorder
             \/ \E p \in Ops : CallRuntime(p) \/ RuntimeActs(p)
             \/ \E b \in Backends : BackendReleased(b)
             \/ RecoverRestartInterruptedTurns
             \/ UNCHANGED vars
      PROVE  EpochInv'
  BY <1>7, <1>8 DEF Enqueue, QueueEdit, QueueRemove, QueueReorder, CallRuntime, RuntimeActs,
                    BackendReleased, RecoverRestartInterruptedTurns, opVars, epochVars, vars
<1>9. QED
  BY <1>1, <1>3, <1>4, <1>5, <1>6, <1>8 DEF Next, ClientNext, ServerNext, EnvironmentNext

\* Nothing prepared before a published epoch is claimed onto the new runtime.
THEOREM NothingStaleIsClaimed == Spec => []NoStaleClaim
<1>1. Init => TypeInv /\ EpochInv
  BY TypeInit, EpochInit
<1>2. (TypeInv /\ EpochInv) /\ [Next]_vars => (TypeInv /\ EpochInv)'
  BY TypeStep, EpochStep
<1>3. EpochInv => NoStaleClaim
  BY DEF EpochInv
<1>4. QED
  BY <1>1, <1>2, <1>3, PTL DEF Spec

-----------------------------------------------------------------------------
(* No message is sent twice                                                *)

LEMMA CarryInit == Init => CarryInv
  BY OpsAssumption
  DEF Init, CarryInv, RowsMayBeSent, OneLivingCarrier, CarriersExist, RowMsg, Rows

\* No operation comes back to life or vanishes.
OperationsKept ==
  \A o \in Ops : (Dead(o) => Dead(o)') /\ (state'[o] = "absent" => state[o] = "absent")

\* Every row is as it was, or is held without a reservation; new rows are
\* drafts of operations that exist.
RowsHeldOrKept ==
  /\ queued' \cap Msgs \subseteq queued
  /\ \A o \in Ops \cap queued' : state[o] # "absent"
  /\ \A r \in queued' : \/ held'[r] = TRUE /\ resv'[r] = NoOp
                        \/ r \in queued /\ held'[r] = held[r] /\ resv'[r] = resv[r]

\* Steps that leave the queue and the history alone only matter through the
\* states, and the dead stay dead.
LEMMA CarryFrame ==
  ASSUME TypeInv, CarryInv, OperationsKept,
         UNCHANGED <<owner, queued, held, resv, historyVars>>
  PROVE  CarryInv'
  BY DEF OperationsKept, CarryInv, RowsMayBeSent, OneLivingCarrier, CarriersExist, RowMsg, historyVars,
         TypeInv, TypeOK

\* Rows that leave, or are held for review without a reservation, only make
\* the invariant easier.
LEMMA CarryHold ==
  ASSUME TypeInv, CarryInv, OperationsKept, RowsHeldOrKept,
         UNCHANGED <<owner, historyVars>>
  PROVE  CarryInv'
<1> USE DEF OperationsKept, RowsHeldOrKept, CarryInv, RowMsg, historyVars, TypeInv, TypeOK
<1>1. RowsMayBeSent'
  BY OpsAssumption DEF RowsMayBeSent
<1>2. OneLivingCarrier'
  BY DEF OneLivingCarrier
<1>3. CarriersExist'
  BY OpsAssumption DEF CarriersExist
<1>4. QED
  BY <1>1, <1>2, <1>3

\* A settlement: a released row's operation is dead from now on.
LEMMA CarrySettle ==
  ASSUME TypeInv, CarryInv, NEW o \in Ops, NEW s \in Settlement, Settle(o, s),
         UNCHANGED historyVars
  PROVE  CarryInv'
<1> USE DEF TypeInv, TypeOK, CarryInv
<1>1. /\ state[o] \in SettlesFrom(s)
      /\ state' = [state EXCEPT ![o] = s]
      /\ UNCHANGED <<owner, held>>
  BY SettleEffect, SettleTypes
<1>2. OperationsKept
  BY <1>1, TableIsForward DEF OperationsKept, Dead, Terminal
<1>3. CASE queued' \subseteq queued /\ UNCHANGED resv
  <2>1. RowsHeldOrKept
    BY <1>1, <1>3 DEF CarriersExist, RowsHeldOrKept
  <2>2. QED
    BY <1>1, <1>2, <2>1, CarryHold
<1>4. CASE /\ s \in {"rejected", "not-applied"}
           /\ UNCHANGED queued
           /\ resv' = [r \in Rows |-> IF r \in ReservedBy(o) THEN NoOp ELSE resv[r]]
  <2>1. Dead(o)'
    BY <1>1, <1>4 DEF Dead
  <2>2. RowsMayBeSent'
    BY <1>1, <1>2, <1>4, <2>1, OpsAssumption
    DEF OperationsKept, RowsMayBeSent, ReservedBy, RowMsg, historyVars
  <2>3. OneLivingCarrier'
    BY <1>2 DEF OperationsKept, OneLivingCarrier, historyVars
  <2>4. CarriersExist'
    BY <1>1, <1>2, <1>4, OpsAssumption DEF OperationsKept, CarriersExist, historyVars
  <2>5. QED
    BY <2>2, <2>3, <2>4
<1>5. QED
  BY <1>3, <1>4, SettleEffect DEF queueVars

\* A message that was not admitted before has no operation and no row.
LEMMA CarryPrepareTurn ==
  ASSUME TypeInv, CarryInv, NEW o \in Ops, NEW m \in Msgs, PrepareTurn(o, m)
  PROVE  CarryInv'
<1> USE DEF TypeInv, TypeOK, CarryInv, PrepareTurn, InsertPreparedOperation, queueVars
<1>1. /\ o \notin queued
      /\ \A r \in queued : resv[r] # o
      /\ \A r \in queued : RowMsg(r)' = RowMsg(r) /\ RowMsg(r) # m
      /\ \A p \in Ops : carries[p] # m
    BY OpsAssumption DEF CarriersExist, RowMsg, Rows, DraftsHaveOwners
<1>2. \A p \in Ops \ {o} : carries'[p] = carries[p] /\ (Dead(p) => Dead(p)')
  BY DEF Dead
<1>3. RowsMayBeSent'
  BY <1>1, <1>2 DEF RowsMayBeSent
<1>4. OneLivingCarrier'
  BY <1>1, <1>2 DEF OneLivingCarrier
<1>5. CarriersExist'
  BY <1>1, OpsAssumption DEF CarriersExist
<1>6. QED
  BY <1>3, <1>4, <1>5

\* The head row's message has no living operation when it is reserved.
LEMMA CarryReserve ==
  ASSUME TypeInv, CarryInv, NEW o \in Ops, NEW r \in Rows, ReserveQueueHead(o, r)
  PROVE  CarryInv'
<1> USE DEF TypeInv, TypeOK, CarryInv, ReserveQueueHead, InsertPreparedOperation
<1>1. /\ o \notin queued
      /\ \A q \in queued : resv[q] # o
      /\ r \in queued
      /\ \A q \in queued : RowMsg(q)' = RowMsg(q) /\ RowMsg(q) \in Msgs
  BY DEF CarriersExist, RowMsg, Rows, DraftsHaveOwners, IsHead
<1>2. \A p \in Ops \ {o} : carries'[p] = carries[p] /\ (Dead(p) => Dead(p)')
  BY DEF Dead
<1>3. carries'[o] = RowMsg(r)
  BY DEF RowMsg
<1>4. RowMsg(r) \notin touched => \A p \in Ops : carries[p] = RowMsg(r) => Dead(p)
  BY <1>1 DEF RowsMayBeSent
<1>5. \A q \in queued \ {r} :
        RowMsg(q) = RowMsg(r) /\ RowMsg(r) \notin touched => held[q] /\ resv[q] = NoOp
  BY <1>1, OpsAssumption DEF RowsMayBeSent, RowMsg, Rows
<1>6. RowsMayBeSent'
  <2>1. \A q \in queued \ {r} : resv'[q] = resv[q]
    OBVIOUS
  <2>2. r \notin Ops \/ RowMsg(r) \in touched
    BY <1>1 DEF RowsMayBeSent
  <2>3. QED
    BY <1>1, <1>2, <1>3, <1>4, <1>5, <2>1, <2>2, OpsAssumption DEF RowsMayBeSent
<1>7. OneLivingCarrier'
  BY <1>1, <1>2, <1>3, <1>4 DEF OneLivingCarrier
<1>8. CarriersExist'
  <2>1. RowMsg(r) \in admitted
    BY <1>1, OpsAssumption DEF CarriersExist, RowMsg, Rows
  <2>2. \A p \in Ops : carries'[p] \in admitted' \cup {NoMsg} /\ owner'[p] \in admitted' \cup {NoMsg}
    BY <1>2, <1>3, <2>1 DEF CarriersExist
  <2>3. \A p \in Ops : state'[p] = "absent" => p # o /\ state[p] = "absent"
    OBVIOUS
  <2>4. QED
    BY <1>1, <2>2, <2>3 DEF CarriersExist
<1>9. QED
  BY <1>6, <1>7, <1>8

LEMMA CarryStep == TypeInv /\ CarryInv /\ [Next]_vars => CarryInv'
<1> SUFFICES ASSUME TypeInv, CarryInv, [Next]_vars
             PROVE  CarryInv'
  OBVIOUS
<1> USE DEF TypeInv, TypeOK
<1>1. ASSUME NEW o \in Ops, NEW m \in Msgs, PrepareTurn(o, m)
      PROVE  CarryInv'
  BY <1>1, CarryPrepareTurn
<1>2. ASSUME NEW m \in Msgs, Enqueue(m)
      PROVE  CarryInv'
  BY <1>2, OpsAssumption
  DEF Enqueue, CarryInv, RowsMayBeSent, OneLivingCarrier, CarriersExist, RowMsg, Rows, Dead,
      DraftsHaveOwners, opVars
<1>3. ASSUME NEW r \in Rows, QueueEdit(r) \/ QueueRemove(r)
      PROVE  CarryInv'
  BY <1>3
  DEF QueueEdit, QueueRemove, CarryInv, RowsMayBeSent, OneLivingCarrier, CarriersExist, RowMsg,
      Dead, opVars
<1>4. ASSUME NEW o \in Ops, NEW k \in Kinds, PrepareOther(o, k)
      PROVE  CarryInv'
  BY <1>4, CarryFrame
  DEF OperationsKept, PrepareOther, InsertPreparedOperation, Dead, queueVars
<1>5. ASSUME NEW o \in Ops, NEW r \in Rows, ReserveQueueHead(o, r)
      PROVE  CarryInv'
  BY <1>5, CarryReserve
<1>6. ASSUME NEW o \in Ops, ClaimOperation(o) \/ ReplayUnknownOperation(o)
      PROVE  CarryInv'
  BY <1>6, CarryFrame 
  DEF OperationsKept, ClaimOperation, ReplayUnknownOperation, Dead, queueVars
<1>7. ASSUME NEW o \in Ops, ExecutorSettles(o) \/ EvidenceSettles(o)
      PROVE  CarryInv'
  <2>1. UNCHANGED <<opVars, queueVars>> \/ \E s \in Settlement : Settle(o, s)
    BY <1>7 DEF ExecutorSettles, EvidenceSettles, Answers, Settlement
  <2>2. UNCHANGED historyVars
    BY <1>7 DEF ExecutorSettles, EvidenceSettles
  <2>3. CASE UNCHANGED <<opVars, queueVars>>
    BY <2>2, <2>3, CarryFrame DEF OperationsKept, opVars, queueVars, Dead
  <2>4. QED
    BY <2>1, <2>2, <2>3, CarrySettle
<1>8. ASSUME RecoverRestartInterruptedTurns
      PROVE  CarryInv'
  <2>1. UNCHANGED <<state, owner, historyVars, queued>>
    BY <1>8 DEF RecoverRestartInterruptedTurns, opVars
  <2>2. OperationsKept
    BY <2>1 DEF OperationsKept, Dead
  <2>3. RowsHeldOrKept
    BY <1>8, <2>1 DEF RecoverRestartInterruptedTurns, RowsHeldOrKept, CarryInv, CarriersExist
  <2>4. QED
    BY <2>1, <2>2, <2>3, CarryHold
<1>9. ASSUME NEW reset \in Ops, NEW proof \in Backends, ReplaceFencedEpoch(reset, proof)
      PROVE  CarryInv'
  <2>1. OperationsKept
    BY <1>9 DEF ReplaceFencedEpoch, OperationsKept, Dead, Retired, Uncertain, Older
  <2>2. \A o \in Drafts(GivenBack(reset)) : o \in Ops /\ state[o] # "absent"
    BY DEF Drafts, GivenBack, Retired, Uncertain, Older
  <2>3. RowsHeldOrKept
    BY <1>9, <2>2, OpsAssumption
    DEF ReplaceFencedEpoch, HoldEpochTurnsForReview, RowsHeldOrKept, CarryInv, CarriersExist, Rows
  <2>4. UNCHANGED <<owner, historyVars>>
    BY <1>9 DEF ReplaceFencedEpoch
  <2>5. QED
    BY <2>1, <2>3, <2>4, CarryHold
<1>10. ASSUME NEW reset \in Ops, ReplaceUnfencedEpoch(reset)
       PROVE  CarryInv'
  BY <1>10, CarryFrame
  DEF ReplaceUnfencedEpoch, OperationsKept, Dead, Retired, Uncertain, Older, queueVars
<1>11. ASSUME Restart
       PROVE  CarryInv'
  BY <1>11, CarryFrame DEF OperationsKept, Restart, Dead, queueVars
<1>12. ASSUME \/ QueueReorder
              \/ \E p \in Ops : CallRuntime(p) \/ RuntimeActs(p)
              \/ \E b \in Backends : BackendReleased(b)
              \/ UNCHANGED vars
       PROVE  CarryInv'
  BY <1>12, CarryFrame
  DEF OperationsKept, QueueReorder, CallRuntime, RuntimeActs, BackendReleased, Dead, opVars, queueVars, vars,
      historyVars
<1>13. QED
  BY <1>1, <1>2, <1>3, <1>4, <1>5, <1>6, <1>7, <1>8, <1>9, <1>10, <1>11, <1>12
  DEF Next, ClientNext, ServerNext, EnvironmentNext

\* Through crashes, epochs and retries, a message the user left alone is
\* never given to a runtime by two operations that may both take effect.
THEOREM NothingIsResent == Spec => []NoSilentResend
<1>1. Init => TypeInv /\ CallInv /\ CarryInv
  BY TypeInit, CallInit, CarryInit
<1>2. (TypeInv /\ CallInv /\ CarryInv) /\ [Next]_vars => (TypeInv /\ CallInv /\ CarryInv)'
  BY TypeStep, CallStep, CarryStep
<1>3. CallInv /\ CarryInv => NoSilentResend
  BY DEF CallInv, CarryInv, OneLivingCarrier, OutcomeIsTrue, NoSilentResend, Dead
<1>4. QED
  BY <1>1, <1>2, <1>3, PTL DEF Spec

=============================================================================
