------------------------- MODULE SessionQueueProofs -------------------------
(***************************************************************************)
(* The theorems about the delivery queue of SessionStore and about what an *)
(* epoch leaves behind: every executing row has an executor, the queue is  *)
(* totally ordered and its reserved row is its head, no accepted message   *)
(* is lost, what is fenced is elsewhere, and what the send gate ignores is *)
(* elsewhere or left to the user.                                          *)
(***************************************************************************)
EXTENDS SessionSafetyProofs

\* An operation that is not in the table carries nothing; a direct turn
\* carries the message that owns it, and every turn carries a message.
RowsOfOperations ==
  \A o \in Ops :
    /\ state[o] = "absent" => owner[o] = NoMsg /\ carries[o] = NoMsg
    /\ owner[o] \in Msgs => carries[o] = owner[o]
    /\ state[o] # "absent" /\ kind[o] = "turn-submit" => carries[o] \in Msgs

\* The order in which turns are given back is total.
OrdinalsDiffer ==
  \A o, p \in Ops : (o # p /\ state[o] # "absent" /\ state[p] # "absent")
                      => ordinal[o] # ordinal[p]

OpsInv == ExecutingHasExecutor /\ RowsOfOperations /\ OrdinalsDiffer

-----------------------------------------------------------------------------
(* What a step does to the operations                                      *)

\* A preparation takes an absent row, gives it the next ordinal, and changes
\* nothing of the other rows.
LEMMA PrepareEffect ==
  ASSUME TypeInv, NEW o \in Ops, NEW k, InsertPreparedOperation(o, k)
  PROVE  /\ state[o] = "absent"
         /\ state' = [state EXCEPT ![o] = "prepared"]
         /\ kind' = [kind EXCEPT ![o] = k]
         /\ ordinal'[o] \in Nat
         /\ \A p \in Ops \ {o} : ordinal'[p] = ordinal[p] /\ ordinal[p] < ordinal'[o]
<1>1. PICK n \in 1 .. Cardinality(Ops) :
        IsNextOrdinal(n) /\ ordinal' = [ordinal EXCEPT ![o] = n]
  BY DEF InsertPreparedOperation
<1>2. n \in Nat /\ \A p \in Ops : ordinal[p] < n
  BY <1>1, CardinalityOfPart DEF IsNextOrdinal, Rows
<1>3. ordinal'[o] = n /\ \A p \in Ops \ {o} : ordinal'[p] = ordinal[p]
  BY <1>1 DEF TypeInv, TypeOK
<1>4. QED
  BY <1>2, <1>3 DEF InsertPreparedOperation

\* An executor's or an evidence's answer either settles or changes no row.
LEMMA AnswerEffect ==
  ASSUME NEW o \in Ops, ExecutorSettles(o) \/ EvidenceSettles(o)
  PROVE  /\ \/ UNCHANGED <<opVars, queueVars>>
            \/ \E s \in Settlement : Settle(o, s)
         /\ UNCHANGED <<epochVars, runtimeVars, historyVars>>
  BY DEF ExecutorSettles, EvidenceSettles, Answers, Settlement

LEMMA OpsInit == Init => OpsInv
  BY OpsAssumption DEF Init, OpsInv, ExecutingHasExecutor, RowsOfOperations, OrdinalsDiffer

\* Preparing a direct turn, another mutation, or the head of the queue.
LEMMA OpsPrepare ==
  ASSUME TypeInv, OpsInv, NEW o \in Ops,
         \/ \E m \in Msgs : PrepareTurn(o, m)
         \/ \E k \in Kinds : PrepareOther(o, k)
         \/ \E r \in Rows : ReserveQueueHead(o, r)
  PROVE  OpsInv'
<1> USE DEF TypeInv, TypeOK, OpsInv
<1>1. PICK k : InsertPreparedOperation(o, k)
  BY DEF PrepareTurn, PrepareOther, ReserveQueueHead
<1>2. /\ state[o] = "absent"
      /\ state' = [state EXCEPT ![o] = "prepared"]
      /\ kind' = [kind EXCEPT ![o] = k]
      /\ ordinal'[o] \in Nat
      /\ \A p \in Ops \ {o} : ordinal'[p] = ordinal[p] /\ ordinal[p] < ordinal'[o]
  BY <1>1, PrepareEffect
<1>3. ExecutingHasExecutor'
  <2>1. exec' = exec
    BY DEF PrepareTurn, PrepareOther, ReserveQueueHead
  <2>2. QED
    BY <1>2, <2>1 DEF ExecutingHasExecutor
<1>4. OrdinalsDiffer'
  BY <1>2 DEF OrdinalsDiffer
<1>5. RowsOfOperations'
  <2>1. CASE \E m \in Msgs : PrepareTurn(o, m)
    BY <2>1, OpsAssumption DEF PrepareTurn, InsertPreparedOperation, RowsOfOperations
  <2>2. CASE \E j \in Kinds : PrepareOther(o, j)
    BY <2>2, OpsAssumption DEF PrepareOther, InsertPreparedOperation, RowsOfOperations, historyVars
  <2>3. CASE \E r \in Rows : ReserveQueueHead(o, r)
    <3>1. PICK r \in Rows : ReserveQueueHead(o, r)
      BY <2>3
    <3>2. RowMsg(r) \in Msgs
      BY <3>1 DEF ReserveQueueHead, IsHead, RowMsg, Rows, DraftsHaveOwners
    <3>3. /\ carries' = [carries EXCEPT ![o] = RowMsg(r)]
          /\ owner' = owner
          /\ kind' = [kind EXCEPT ![o] = "turn-submit"]
      BY <3>1 DEF ReserveQueueHead, InsertPreparedOperation
    <3>4. owner[o] = NoMsg
      BY <1>2 DEF RowsOfOperations
    <3>5. QED
      BY <1>2, <3>2, <3>3, <3>4, OpsAssumption DEF RowsOfOperations
  <2>4. QED
    BY <2>1, <2>2, <2>3
<1>6. QED
  BY <1>3, <1>4, <1>5

\* Steps that only move states, and bring none back from or into absence.
LEMMA OpsMove ==
  ASSUME TypeInv, OpsInv, ExecutingHasExecutor',
         \A o \in Ops : state[o] = "absent" <=> state'[o] = "absent",
         UNCHANGED <<kind, ordinal, owner, carries>>
  PROVE  OpsInv'
  BY DEF OpsInv, RowsOfOperations, OrdinalsDiffer, TypeInv, TypeOK

LEMMA OpsStep == TypeInv /\ OpsInv /\ [Next]_vars => OpsInv'
<1> SUFFICES ASSUME TypeInv, OpsInv, [Next]_vars
             PROVE  OpsInv'
  OBVIOUS
<1> USE DEF TypeInv, TypeOK
<1>0. ExecutingHasExecutor
  BY DEF OpsInv
<1>1. ASSUME NEW o \in Ops,
             \/ \E m \in Msgs : PrepareTurn(o, m)
             \/ \E k \in Kinds : PrepareOther(o, k)
             \/ \E r \in Rows : ReserveQueueHead(o, r)
      PROVE  OpsInv'
  BY <1>1, OpsPrepare
<1>2. ASSUME NEW o \in Ops, ClaimOperation(o) \/ ReplayUnknownOperation(o)
      PROVE  OpsInv'
  BY <1>0, <1>2, OpsMove
  DEF ClaimOperation, ReplayUnknownOperation, ExecutingHasExecutor, historyVars
<1>3. ASSUME NEW o \in Ops, CallRuntime(o)
      PROVE  OpsInv'
  BY <1>0, <1>3, OpsMove DEF CallRuntime, ExecutingHasExecutor, opVars, historyVars
<1>4. ASSUME NEW o \in Ops, ExecutorSettles(o) \/ EvidenceSettles(o)
      PROVE  OpsInv'
  <2>1. CASE \E s \in Settlement : Settle(o, s)
    <3>1. PICK s \in Settlement : Settle(o, s)
      BY <2>1
    <3>2. /\ state[o] \in SettlesFrom(s)
          /\ state' = [state EXCEPT ![o] = s]
          /\ UNCHANGED <<kind, ordinal, owner, carries>>
      BY <1>4, <3>1, SettleEffect, SettleTypes, AnswerEffect DEF historyVars
    <3>3. state[o] # "absent" /\ s \notin {"absent", "executing"}
      BY <3>2, TableIsForward
    <3>4. \A p \in Ops \ {o} : exec'[p] = exec[p]
      BY <1>4 DEF ExecutorSettles, EvidenceSettles
    <3>5. ExecutingHasExecutor'
      BY <1>0, <3>2, <3>3, <3>4 DEF ExecutingHasExecutor
    <3>6. QED
      BY <3>2, <3>3, <3>5, OpsMove
  <2>2. CASE /\ UNCHANGED <<opVars, queueVars>>
             /\ ~ \E s \in Settlement : Settle(o, s)
    <3>1. UNCHANGED <<state, kind, ordinal, owner, carries>>
      BY <1>4, <2>2, AnswerEffect DEF opVars, historyVars
    <3>2. exec' = exec \/ (exec' = [exec EXCEPT ![o] = "idle"] /\ state[o] # "executing")
      <4>1. CASE EvidenceSettles(o)
        BY <4>1 DEF EvidenceSettles
      <4>2. CASE ExecutorSettles(o)
        <5>1. PICK s \in Answers(o) : Settle(o, s) \/ state[o] \notin SettlesFrom(s)
          BY <4>2 DEF ExecutorSettles
        <5>2. s \in {"unknown", "confirmed", "rejected"}
          BY DEF Answers
        <5>3. state[o] \notin SettlesFrom(s)
          BY <2>2, <5>1, <5>2 DEF Settlement
        <5>4. QED
          BY <4>2, <5>2, <5>3 DEF ExecutorSettles, SettlesFrom
      <4>3. QED
        BY <1>4, <4>1, <4>2
    <3>3. ExecutingHasExecutor'
      BY <1>0, <3>1, <3>2 DEF ExecutingHasExecutor
    <3>4. QED
      BY <3>1, <3>3, OpsMove
  <2>3. QED
    BY <1>4, <2>1, <2>2, AnswerEffect
<1>5. ASSUME NEW reset \in Ops, NEW proof \in Backends,
             ReplaceFencedEpoch(reset, proof) \/ ReplaceUnfencedEpoch(reset)
      PROVE  OpsInv'
  BY <1>0, <1>5, OpsMove
  DEF ReplaceFencedEpoch, ReplaceUnfencedEpoch, Retired, Uncertain, Older,
      ExecutingHasExecutor, historyVars
<1>6. ASSUME Restart
      PROVE  OpsInv'
  BY <1>0, <1>6, OpsMove DEF Restart, ExecutingHasExecutor, historyVars
<1>7. ASSUME UNCHANGED <<state, kind, ordinal, owner, carries, exec>>
      PROVE  OpsInv'
  BY <1>0, <1>7, OpsMove DEF ExecutingHasExecutor
<1>8. ASSUME \/ \E m \in Msgs : Enqueue(m)
             \/ \E r \in Rows : QueueEdit(r) \/ QueueRemove(r)
             \/ QueueReorder
             \/ \E p \in Ops : RuntimeActs(p)
             \/ \E b \in Backends : BackendReleased(b)
             \/ RecoverRestartInterruptedTurns
             \/ UNCHANGED vars
      PROVE  OpsInv'
  BY <1>7, <1>8 DEF Enqueue, QueueEdit, QueueRemove, QueueReorder, RuntimeActs,
                    BackendReleased, RecoverRestartInterruptedTurns, opVars, historyVars, vars
<1>9. QED
  BY <1>1, <1>2, <1>3, <1>4, <1>5, <1>6, <1>8
  DEF Next, ClientNext, ServerNext, EnvironmentNext

\* Whatever restarts happen, an executing row has an executor to settle it.
THEOREM ExecutorsExist == Spec => []ExecutingHasExecutor
<1>1. Init => TypeInv /\ OpsInv
  BY TypeInit, OpsInit
<1>2. (TypeInv /\ OpsInv) /\ [Next]_vars => (TypeInv /\ OpsInv)'
  BY TypeStep, OpsStep
<1>3. OpsInv => ExecutingHasExecutor
  BY DEF OpsInv
<1>4. QED
  BY <1>1, <1>2, <1>3, PTL DEF Spec

-----------------------------------------------------------------------------
(* The order of the queue                                                  *)

Before(turns, o) == {p \in Drafts(turns) : p = o \/ GivenBackBefore(p, o)}

\* The drafts of an epoch stand before every row, each on a place of its own:
\* of two drafts one is given back first, and counts fewer before it.
LEMMA DraftPositions ==
  ASSUME TypeInv, OpsInv, NEW turns \in SUBSET Ops,
         \A o \in turns : state[o] # "absent",
         HoldEpochTurnsForReview(turns)
  PROVE  /\ \A o, p \in Drafts(turns) : o # p => pos'[o] # pos'[p]
         /\ \A o \in Drafts(turns), q \in queued : pos'[o] < pos[q]
         /\ \A r \in Rows \ Drafts(turns) : pos'[r] = pos[r]
<1> USE DEF TypeInv, TypeOK
<1>1. Drafts(turns) \subseteq Ops /\ Drafts(turns) \subseteq turns
  BY DEF Drafts
<1>2. PICK low \in Positions :
        /\ IsLowest(low)
        /\ pos' = [r \in Rows |-> IF r \in Drafts(turns) THEN low - Cardinality(Before(turns, r))
                                  ELSE pos[r]]
  BY DEF HoldEpochTurnsForReview, Before
<1>3. low \in Int
  BY PositionsAreIntegers
<1>4. \A o \in Ops : IsFiniteSet(Before(turns, o)) /\ Cardinality(Before(turns, o)) \in Nat
  BY <1>1, CardinalityOfPart DEF Before, Rows
<1>5. \A o \in Drafts(turns) : pos'[o] = low - Cardinality(Before(turns, o))
  BY <1>1, <1>2 DEF Rows
<1>6. ASSUME NEW o \in Drafts(turns)
      PROVE  Cardinality(Before(turns, o)) > 0
  <2>1. o \in Before(turns, o)
    BY DEF Before
  <2>2. Cardinality(Before(turns, o)) # 0
    BY <1>1, <1>4, <2>1, FS_EmptySet
  <2>3. QED
    BY <1>1, <1>4, <2>2
\* The order of giving back, on two different drafts.
<1>7. ASSUME NEW o \in Drafts(turns), NEW p \in Drafts(turns), GivenBackBefore(p, o)
      PROVE  pos'[o] # pos'[p]
  <2>1. o # p /\ ~GivenBackBefore(o, p)
    BY <1>1, <1>7 DEF GivenBackBefore
  <2>2. Before(turns, p) \subseteq Before(turns, o)
    <3>1. ASSUME NEW q \in Drafts(turns), GivenBackBefore(q, p)
          PROVE  GivenBackBefore(q, o)
      BY <1>1, <1>7, <3>1 DEF GivenBackBefore
    <3>2. QED
      BY <1>7, <3>1 DEF Before
  <2>3. o \in Before(turns, o) /\ o \notin Before(turns, p)
    BY <2>1 DEF Before
  <2>4. Cardinality(Before(turns, p)) # Cardinality(Before(turns, o))
    BY <1>1, <1>4, <2>2, <2>3, FS_Subset
  <2>5. QED
    BY <1>1, <1>3, <1>4, <1>5, <2>4
<1>8. ASSUME NEW o \in Drafts(turns), NEW p \in Drafts(turns), o # p
      PROVE  pos'[o] # pos'[p]
  <2>1. ordinal[o] # ordinal[p] /\ ordinal[o] \in Nat /\ ordinal[p] \in Nat
    BY <1>1, <1>8 DEF OpsInv, OrdinalsDiffer
  <2>2. GivenBackBefore(o, p) \/ GivenBackBefore(p, o)
    BY <2>1 DEF GivenBackBefore
  <2>3. QED
    BY <1>7, <2>2
<1>9. ASSUME NEW o \in Drafts(turns), NEW q \in queued
      PROVE  pos'[o] < pos[q]
  <2>1. low <= pos[q] /\ pos[q] \in Int
    BY <1>2 DEF IsLowest
  <2>2. QED
    BY <1>1, <1>3, <1>4, <1>5, <1>6, <2>1
<1>10. QED
  BY <1>2, <1>8, <1>9

\* What an epoch holds for review goes before the rest and keeps its order.
LEMMA OrderHold ==
  ASSUME TypeInv, OpsInv, ReservedIsHead, NEW turns \in SUBSET Ops,
         \A o \in turns : state[o] # "absent",
         HoldEpochTurnsForReview(turns)
  PROVE  ReservedIsHead'
<1> USE DEF TypeInv, TypeOK
<1>1. /\ \A o, p \in Drafts(turns) : o # p => pos'[o] # pos'[p]
      /\ \A o \in Drafts(turns), q \in queued : pos'[o] < pos[q]
      /\ \A r \in Rows \ Drafts(turns) : pos'[r] = pos[r]
  BY DraftPositions
<1>2. /\ Drafts(turns) \subseteq Ops
      /\ queued' = queued \cup Drafts(turns)
      /\ \A r \in Rows : /\ held'[r] = IF r \in Drafts(turns) \/ (r \in queued /\ resv[r] \in turns)
                                       THEN TRUE ELSE held[r]
                         /\ resv'[r] = IF r \in Drafts(turns) \/ (r \in queued /\ resv[r] \in turns)
                                       THEN NoOp ELSE resv[r]
  BY DEF HoldEpochTurnsForReview, Drafts
<1>3. \A r \in Rows : pos[r] \in Int
  OBVIOUS
<1>4. \A q, r \in queued' : q # r => pos'[q] # pos'[r]
  <2>1. ASSUME NEW q \in Drafts(turns), NEW r \in queued \ Drafts(turns)
        PROVE  pos'[q] # pos'[r] 
    <3>1. pos'[q] < pos[r] /\ pos'[r] = pos[r] /\ pos[r] \in Int
      BY <1>1
    <3>2. QED
      BY <3>1
  <2>2. \A q, r \in queued \ Drafts(turns) : q # r => pos'[q] # pos'[r]
    BY <1>1 DEF ReservedIsHead
  <2>3. QED
    BY <1>1, <1>2, <2>1, <2>2
<1>5. ASSUME NEW r \in queued', resv'[r] # NoOp
      PROVE  /\ ~held'[r]
             /\ \A q \in queued' : pos'[q] < pos'[r] => q \in Ops
             /\ \A q \in queued' : resv'[q] = resv'[r] => q = r
  <2>1. /\ r \in queued \ Drafts(turns) /\ r \in Rows
        /\ resv'[r] = resv[r] /\ held'[r] = held[r] /\ resv[r] # NoOp
    BY <1>2, <1>5 DEF Rows
  <2>2. ASSUME NEW q \in queued', pos'[q] < pos'[r]
        PROVE  q \in Ops
    BY <1>1, <1>2, <2>1, <2>2 DEF ReservedIsHead
  <2>3. ASSUME NEW q \in queued', resv'[q] = resv'[r]
        PROVE  q = r
    <3>1. q \in queued \ Drafts(turns) /\ q \in Rows /\ resv'[q] = resv[q]
      BY <1>2, <2>1, <2>3 DEF Rows
    <3>2. QED
      BY <2>1, <2>3, <3>1 DEF ReservedIsHead
  <2>4. ~held[r]
    BY <2>1 DEF ReservedIsHead
  <2>5. QED
    BY <2>1, <2>2, <2>3, <2>4
<1>6. QED
  BY <1>4, <1>5 DEF ReservedIsHead

\* Rows leave, or lose their reservation.
LEMMA OrderLess ==
  ASSUME TypeInv, ReservedIsHead, queued' \subseteq queued, UNCHANGED pos,
         \A r \in queued' : resv'[r] = NoOp \/ (resv'[r] = resv[r] /\ held'[r] = held[r])
  PROVE  ReservedIsHead'
  BY DEF ReservedIsHead

\* A new row goes behind every other.
LEMMA OrderEnqueue ==
  ASSUME TypeInv, CarryInv, ReservedIsHead, NEW m \in Msgs, Enqueue(m)
  PROVE  ReservedIsHead'
<1> USE DEF TypeInv, TypeOK
<1>1. PICK n \in Positions : IsNextPosition(n) /\ pos' = [pos EXCEPT ![m] = n]
  BY DEF Enqueue
<1>2. /\ n \in Int /\ \A q \in queued : pos[q] < n
      /\ pos'[m] = n /\ \A q \in queued \ {m} : pos'[q] = pos[q] /\ pos[q] \in Int
  BY <1>1, PositionsAreIntegers DEF IsNextPosition, Rows
<1>3. /\ m \notin queued
      /\ queued' = queued \cup {m} /\ resv'[m] = NoOp
      /\ \A q \in queued \ {m} : resv'[q] = resv[q] /\ held'[q] = held[q]
  BY DEF Enqueue, Rows, CarryInv, CarriersExist
<1>4. \A q, r \in queued' : q # r => pos'[q] # pos'[r]
  BY <1>2, <1>3 DEF ReservedIsHead
<1>5. \A r \in queued' : resv'[r] # NoOp =>
        /\ ~held'[r]
        /\ \A q \in queued' : pos'[q] < pos'[r] => q \in Ops
        /\ \A q \in queued' : resv'[q] = resv'[r] => q = r
  BY <1>2, <1>3 DEF ReservedIsHead
<1>6. QED
  BY <1>4, <1>5 DEF ReservedIsHead

\* The head is reserved, by an operation that reserves nothing yet.
LEMMA OrderReserve ==
  ASSUME TypeInv, CarryInv, ReservedIsHead, NEW o \in Ops, NEW r \in Rows, ReserveQueueHead(o, r)
  PROVE  ReservedIsHead'
<1> USE DEF TypeInv, TypeOK
<1>1. /\ r \in queued /\ \A q \in queued : pos[r] <= pos[q] /\ pos[q] \in Int
      /\ ~held[r]
      /\ \A q \in queued : resv[q] # o
      /\ UNCHANGED <<queued, pos, held>>
      /\ resv'[r] = o /\ \A q \in queued \ {r} : resv'[q] = resv[q]
  BY DEF ReserveQueueHead, IsHead, InsertPreparedOperation, CarryInv, CarriersExist
<1>2. \A q \in queued : ~(pos[q] < pos[r])
  BY <1>1
<1>3. QED
  BY <1>1, <1>2 DEF ReservedIsHead

\* A reorder gives every row of an unreserved queue a place of its own.
LEMMA OrderReorder ==
  ASSUME TypeInv, ReservedIsHead, QueueReorder
  PROVE  ReservedIsHead'
<1>1. PICK order \in [queued -> 0 .. (Cardinality(queued) - 1)] :
        /\ \A q, r \in queued : q # r => order[q] # order[r]
        /\ pos' = [r \in Rows |-> IF r \in queued THEN order[r] ELSE pos[r]]
  BY DEF QueueReorder
<1>2. \A r \in queued : pos'[r] = order[r] /\ resv[r] = NoOp
  BY <1>1 DEF TypeInv, TypeOK, QueueReorder
<1>3. QED
  BY <1>1, <1>2 DEF ReservedIsHead, QueueReorder

LEMMA OrderStep == TypeInv /\ OpsInv /\ CarryInv /\ ReservedIsHead /\ [Next]_vars => ReservedIsHead'
<1> SUFFICES ASSUME TypeInv, OpsInv, CarryInv, ReservedIsHead, [Next]_vars
             PROVE  ReservedIsHead'
  OBVIOUS
<1> USE DEF TypeInv, TypeOK
<1>1. ASSUME NEW m \in Msgs, Enqueue(m)
      PROVE  ReservedIsHead'
  BY <1>1, OrderEnqueue
<1>2. ASSUME NEW r \in Rows, QueueEdit(r) \/ QueueRemove(r)
      PROVE  ReservedIsHead'
  BY <1>2, OrderLess DEF QueueEdit, QueueRemove
<1>3. ASSUME NEW o \in Ops, NEW r \in Rows, ReserveQueueHead(o, r)
      PROVE  ReservedIsHead'
  BY <1>3, OrderReserve
<1>4. ASSUME NEW o \in Ops, ExecutorSettles(o) \/ EvidenceSettles(o)
      PROVE  ReservedIsHead'
  <2>1. CASE UNCHANGED queueVars
    BY <2>1 DEF queueVars, ReservedIsHead
  <2>2. CASE \E s \in Settlement : Settle(o, s)
    <3>1. /\ queued' \subseteq queued /\ UNCHANGED <<pos, held>>
          /\ \A r \in queued' : resv'[r] = NoOp \/ resv'[r] = resv[r]
      BY <2>2, SettleEffect DEF queueVars
    <3>2. QED
      BY <3>1, OrderLess
  <2>3. QED
    BY <1>4, <2>1, <2>2, AnswerEffect
<1>5. ASSUME RecoverRestartInterruptedTurns
      PROVE  ReservedIsHead'
  BY <1>5, OrderLess DEF RecoverRestartInterruptedTurns
<1>6. ASSUME NEW reset \in Ops, NEW proof \in Backends, ReplaceFencedEpoch(reset, proof)
      PROVE  ReservedIsHead'
  <2>1. GivenBack(reset) \subseteq Ops /\ \A o \in GivenBack(reset) : state[o] # "absent"
    BY DEF GivenBack, Retired, Uncertain, Older
  <2>2. HoldEpochTurnsForReview(GivenBack(reset))
    BY <1>6 DEF ReplaceFencedEpoch
  <2>3. QED
    BY <2>1, <2>2, OrderHold
<1>7. ASSUME UNCHANGED queueVars
      PROVE  ReservedIsHead'
  BY <1>7 DEF queueVars, ReservedIsHead
<1>8. ASSUME \/ \E o \in Ops, m \in Msgs : PrepareTurn(o, m)
             \/ \E o \in Ops, k \in Kinds : PrepareOther(o, k)
             \/ \E o \in Ops : \/ ClaimOperation(o) \/ ReplayUnknownOperation(o)
                               \/ CallRuntime(o) \/ RuntimeActs(o)
             \/ \E reset \in Ops : ReplaceUnfencedEpoch(reset)
             \/ \E b \in Backends : BackendReleased(b)
             \/ Restart
             \/ UNCHANGED vars
      PROVE  ReservedIsHead'
  BY <1>7, <1>8 DEF PrepareTurn, PrepareOther, ClaimOperation, ReplayUnknownOperation,
                    CallRuntime, RuntimeActs, ReplaceUnfencedEpoch, BackendReleased, Restart,
                    queueVars, vars
<1>9. QED
  BY <1>1, <1>2, <1>3, <1>4, <1>5, <1>6, <1>8, OrderReorder
  DEF Next, ClientNext, ServerNext, EnvironmentNext

QueueInv == TypeInv /\ OpsInv /\ CarryInv /\ ReservedIsHead

\* The part of the invariant that every theorem below rests on.
LEMMA QueueHolds == Spec => []QueueInv
<1>1. Init => QueueInv
  BY TypeInit, OpsInit, CarryInit DEF Init, QueueInv, ReservedIsHead
<1>2. QueueInv /\ [Next]_vars => QueueInv'
  BY TypeStep, OpsStep, CarryStep, OrderStep DEF QueueInv
<1>3. QED
  BY <1>1, <1>2, PTL DEF Spec

\* Inserts at both ends, reorders, holds and settlements keep the queue in a
\* total order, and its reserved row at the head.
THEOREM TheReservedRowIsTheHead == Spec => []ReservedIsHead
<1>1. QueueInv => ReservedIsHead
  BY DEF QueueInv
<1>2. QED
  BY <1>1, QueueHolds, PTL

-----------------------------------------------------------------------------
(* What a step does to the rows of the queue                               *)

\* A reservation is a turn that still owns its outcome.
LiveRow(r) == resv[r] \in Ops => state[resv[r]] \in Blocking /\ kind[resv[r]] = "turn-submit"

\* What an operation is about never changes once it is in the table.
OperationsStay ==
  \A o \in Ops :
    /\ state[o] # "absent" => /\ state'[o] # "absent"
                              /\ kind'[o] = kind[o] /\ owner'[o] = owner[o] /\ carries'[o] = carries[o]
    /\ state[o] = "absent" => state'[o] \in {"absent", "prepared"}

\* A row leaves by the user's hand or by a confirmation; it loses a
\* reservation by being held or because the operation is dead; it is let go
\* by the user only; and it is reserved by a turn that carries its message.
RowStays(r) ==
  /\ held[r] => held'[r] \/ RowMsg(r) \in touched'
  /\ resv[r] \in Ops => \/ resv'[r] = resv[r]
                       \/ held'[r]
                       \/ state'[resv[r]] \in {"rejected", "not-applied"}
  /\ \/ resv'[r] \in {resv[r], NoOp}
     \/ resv'[r] \in Ops /\ state'[resv'[r]] = "prepared" /\ kind'[resv'[r]] = "turn-submit"
        /\ carries'[resv'[r]] = RowMsg(r)
  /\ ~Unfenced /\ LiveRow(r) => LiveRow(r)'

RowsStay ==
  /\ touched \subseteq touched'
  /\ \A m \in admitted' \ admitted :
       m \in queued' \/ \E o \in Ops : carries'[o] = m /\ owner'[o] = m
  /\ \A r \in queued \ queued' :
       RowMsg(r) \in touched' \/ (resv[r] \in Ops /\ state'[resv[r]] = "confirmed")
  /\ \A r \in queued \cap queued' : RowStays(r)
  /\ \A r \in queued' \ queued : resv'[r] = NoOp

\* Steps that touch neither the queue nor the history, and move no reserved
\* operation out of the states that own an outcome.
LEMMA RowsFrame ==
  ASSUME TypeInv, UNCHANGED <<queueVars, historyVars>>,
         \A r \in queued : ~Unfenced /\ LiveRow(r) => LiveRow(r)'
  PROVE  RowsStay
  BY DEF RowsStay, RowStays, queueVars, historyVars

\* A settlement frees the rows of the operation, unless it is uncertain.
LEMMA RowsSettle ==
  ASSUME TypeInv, NEW o \in Ops, NEW s \in Settlement, Settle(o, s), UNCHANGED historyVars
  PROVE  RowsStay
<1> USE DEF TypeInv, TypeOK
<1>1. /\ state[o] \in SettlesFrom(s)
      /\ state' = [state EXCEPT ![o] = s]
      /\ UNCHANGED <<kind, owner, held>>
      /\ UNCHANGED <<carries, admitted, touched>>
  BY SettleEffect, SettleTypes DEF historyVars
<1>2. state'[o] = s /\ \A p \in Ops \ {o} : state'[p] = state[p]
  BY <1>1
<1>3. CASE SettleOperation(o, s)
  <2>1. UNCHANGED <<queued, resv>> /\ (s = "unknown" \/ \A r \in queued : resv[r] # o)
    BY <1>3 DEF SettleOperation, ReservedBy, queueVars
  <2>2. \A r \in queued : LiveRow(r) => LiveRow(r)'
    BY <1>1, <1>2, <2>1 DEF LiveRow, Blocking
  <2>3. QED
    BY <1>1, <2>1, <2>2 DEF RowsStay, RowStays
<1>4. CASE s = "confirmed" /\ ConfirmQueueReservation(o)
  <2>1. /\ queued' = queued \ ReservedBy(o) /\ UNCHANGED resv
        /\ \A r \in queued' : r \in queued /\ resv[r] # o
    BY <1>4 DEF ConfirmQueueReservation, ReservedBy
  <2>2. \A r \in queued \ queued' : resv[r] = o
    BY <2>1 DEF ReservedBy
  <2>3. \A r \in queued' : LiveRow(r) => LiveRow(r)'
    BY <1>1, <1>2, <2>1 DEF LiveRow
  <2>4. QED
    BY <1>1, <1>2, <1>4, <2>1, <2>2, <2>3 DEF RowsStay, RowStays
<1>5. CASE ReleaseQueueReservation(o, s)
  <2>1. /\ s \in {"rejected", "not-applied"} /\ UNCHANGED queued
        /\ \A r \in queued : resv'[r] = IF resv[r] = o THEN NoOp ELSE resv[r]
    BY <1>5 DEF ReleaseQueueReservation, ReservedBy
  <2>2. \A r \in queued : LiveRow(r) => LiveRow(r)'
    BY <1>1, <1>2, <2>1, OpsAssumption DEF LiveRow
  <2>3. QED
    BY <1>1, <1>2, <2>1, <2>2 DEF RowsStay, RowStays
<1>6. QED
  BY <1>3, <1>4, <1>5 DEF Settle

\* An epoch with proof holds the rows of the turns it cuts.
LEMMA RowsFence ==
  ASSUME TypeInv, NEW reset \in Ops, NEW proof \in Backends, ReplaceFencedEpoch(reset, proof)
  PROVE  RowsStay
<1> USE DEF TypeInv, TypeOK
<1>1. /\ queued \subseteq queued'
      /\ \A r \in Rows :
           IF r \in Drafts(GivenBack(reset)) \/ (r \in queued /\ resv[r] \in GivenBack(reset))
           THEN held'[r] = TRUE /\ resv'[r] = NoOp
           ELSE held'[r] = held[r] /\ resv'[r] = resv[r]
      /\ \A r \in queued' \ queued : r \in Drafts(GivenBack(reset))
      /\ UNCHANGED <<kind, owner, carries, admitted, touched>>
  BY DEF ReplaceFencedEpoch, HoldEpochTurnsForReview, historyVars
<1>2. \A o \in Ops : state[o] \in Blocking /\ kind[o] = "turn-submit" /\ state'[o] \notin Blocking
                       => o \in GivenBack(reset)
  BY DEF ReplaceFencedEpoch, GivenBack, Retired, Uncertain
<1>3. ASSUME NEW r \in queued, LiveRow(r)
      PROVE  LiveRow(r)'
  <2>1. resv'[r] \in Ops => resv'[r] = resv[r] /\ resv[r] \notin GivenBack(reset)
    BY <1>1, OpsAssumption
  <2>2. QED
    BY <1>1, <1>2, <1>3, <2>1 DEF LiveRow
<1>4. \A r \in queued' \ queued : resv'[r] = NoOp
  BY <1>1 DEF Drafts, GivenBack, Retired, Uncertain, Older, Rows
<1>5. \A r \in queued : RowStays(r)
  BY <1>1, <1>3 DEF RowStays
<1>6. QED
  BY <1>1, <1>4, <1>5 DEF RowsStay

LEMMA RowsStep == ASSUME QueueInv, [Next]_vars PROVE RowsStay /\ OperationsStay
<1> USE DEF TypeInv, TypeOK, QueueInv
<1>0. \A p \in Ops : state[p] = "absent" => \A q \in queued : resv[q] # p
  BY DEF CarryInv, CarriersExist
<1>1. ASSUME NEW o \in Ops,
             \/ \E m \in Msgs : PrepareTurn(o, m)
             \/ \E k \in Kinds : PrepareOther(o, k)
             \/ \E r \in Rows : ReserveQueueHead(o, r)
      PROVE  RowsStay /\ OperationsStay
  <2>1. PICK k : InsertPreparedOperation(o, k)
    BY <1>1 DEF PrepareTurn, PrepareOther, ReserveQueueHead
  <2>2. /\ state[o] = "absent" /\ state'[o] = "prepared" /\ kind'[o] = k
        /\ \A p \in Ops \ {o} : state'[p] = state[p] /\ kind'[p] = kind[p]
    BY <2>1 DEF InsertPreparedOperation
  <2>3. \A p \in Ops \ {o} : owner'[p] = owner[p] /\ carries'[p] = carries[p]
    BY <1>1 DEF PrepareTurn, PrepareOther, ReserveQueueHead, historyVars
  <2>4. OperationsStay
    BY <2>2, <2>3 DEF OperationsStay
  <2>5. \A q \in queued : resv'[q] = resv[q] => (LiveRow(q) => LiveRow(q)')
    BY <1>0, <2>2 DEF LiveRow
  <2>6. CASE \E m \in Msgs : PrepareTurn(o, m)
    <3>1. PICK m \in Msgs : PrepareTurn(o, m)
      BY <2>6
    <3>2. /\ UNCHANGED <<queued, held, resv, touched>>
          /\ admitted' = admitted \cup {m} /\ carries'[o] = m /\ owner'[o] = m
      BY <3>1 DEF PrepareTurn, queueVars
    <3>3. QED
      BY <2>4, <2>5, <3>2 DEF RowsStay, RowStays
  <2>7. CASE \E j \in Kinds : PrepareOther(o, j)
    <3>1. UNCHANGED <<queueVars, historyVars>>
      BY <2>7 DEF PrepareOther
    <3>2. QED
      BY <2>4, <2>5, <3>1, RowsFrame DEF queueVars
  <2>8. CASE \E r \in Rows : ReserveQueueHead(o, r)
    <3>1. PICK r \in Rows : ReserveQueueHead(o, r)
      BY <2>8
    <3>2. /\ UNCHANGED <<queued, held, admitted, touched>>
          /\ r \in queued /\ resv[r] = NoOp
          /\ resv'[r] = o /\ \A q \in queued \ {r} : resv'[q] = resv[q]
          /\ kind'[o] = "turn-submit" /\ carries'[o] = RowMsg(r)
      BY <3>1 DEF ReserveQueueHead, IsHead, InsertPreparedOperation
    <3>3. LiveRow(r)'
      BY <2>2, <3>2 DEF LiveRow, Blocking
    <3>4. QED
      BY <2>2, <2>4, <2>5, <3>2, <3>3, OpsAssumption DEF RowsStay, RowStays
  <2>9. QED
    BY <1>1, <2>6, <2>7, <2>8
<1>2. ASSUME NEW m \in Msgs, Enqueue(m)
      PROVE  RowsStay /\ OperationsStay
  <2>1. m \notin queued
    BY <1>2 DEF Enqueue, CarryInv, CarriersExist
  <2>2. /\ queued' = queued \cup {m} /\ resv'[m] = NoOp
        /\ \A q \in queued \ {m} : held'[q] = held[q] /\ resv'[q] = resv[q]
        /\ admitted' = admitted \cup {m} /\ touched' = touched
        /\ UNCHANGED <<state, kind, owner, carries>>
    BY <1>2 DEF Enqueue, Rows, opVars
  <2>3. \A q \in queued : LiveRow(q) => LiveRow(q)'
    BY <2>1, <2>2 DEF LiveRow
  <2>4. QED
    BY <2>1, <2>2, <2>3 DEF RowsStay, RowStays, OperationsStay
<1>3. ASSUME NEW r \in Rows, QueueEdit(r) \/ QueueRemove(r)
      PROVE  RowsStay /\ OperationsStay
  <2>1. /\ queued' \subseteq queued /\ queued \ queued' \subseteq {r}
        /\ \A q \in queued \ {r} : held'[q] = held[q]
        /\ RowMsg(r) \in touched' /\ touched \subseteq touched'
        /\ UNCHANGED <<resv, admitted, state, kind, owner, carries>>
    BY <1>3 DEF QueueEdit, QueueRemove, opVars
  <2>2. \A q \in queued : LiveRow(q) => LiveRow(q)'
    BY <2>1 DEF LiveRow
  <2>3. QED
    BY <2>1, <2>2 DEF RowsStay, RowStays, OperationsStay
<1>4. ASSUME QueueReorder
      PROVE  RowsStay /\ OperationsStay
  BY <1>4 DEF QueueReorder, RowsStay, RowStays, OperationsStay, LiveRow, opVars, historyVars
<1>5. ASSUME NEW o \in Ops, ClaimOperation(o) \/ ReplayUnknownOperation(o)
      PROVE  RowsStay /\ OperationsStay
  <2>1. /\ UNCHANGED <<queueVars, historyVars, kind, owner>>
        /\ state[o] \in {"prepared", "unknown"} /\ state' = [state EXCEPT ![o] = "executing"]
    BY <1>5 DEF ClaimOperation, ReplayUnknownOperation
  <2>2. \A q \in queued : LiveRow(q) => LiveRow(q)'
    BY <2>1 DEF LiveRow, Blocking, queueVars
  <2>3. QED
    BY <2>1, <2>2, RowsFrame DEF OperationsStay, historyVars
<1>6. ASSUME NEW o \in Ops, ExecutorSettles(o) \/ EvidenceSettles(o)
      PROVE  RowsStay /\ OperationsStay
  <2>1. UNCHANGED historyVars
    BY <1>6, AnswerEffect
  <2>2. CASE UNCHANGED <<opVars, queueVars>>
    BY <2>1, <2>2, RowsFrame DEF OperationsStay, LiveRow, opVars, queueVars, historyVars
  <2>3. CASE \E s \in Settlement : Settle(o, s)
    <3>1. PICK s \in Settlement : Settle(o, s)
      BY <2>3
    <3>2. /\ state[o] \in SettlesFrom(s)
          /\ state' = [state EXCEPT ![o] = s]
          /\ UNCHANGED <<kind, owner>>
      BY <3>1, SettleEffect, SettleTypes
    <3>3. OperationsStay
      BY <2>1, <3>2, TableIsForward DEF OperationsStay, historyVars
    <3>4. QED
      BY <2>1, <3>1, <3>3, RowsSettle
  <2>4. QED
    BY <1>6, <2>2, <2>3, AnswerEffect
<1>7. ASSUME RecoverRestartInterruptedTurns
      PROVE  RowsStay /\ OperationsStay
  <2>1. /\ UNCHANGED <<queued, state, kind, owner, carries, admitted, touched>>
        /\ \A r \in queued : IF resv[r] \in Stranded THEN held'[r] = TRUE /\ resv'[r] = NoOp
                             ELSE held'[r] = held[r] /\ resv'[r] = resv[r]
    BY <1>7 DEF RecoverRestartInterruptedTurns, opVars, historyVars
  <2>2. \A r \in queued : LiveRow(r) => LiveRow(r)'
    BY <2>1, OpsAssumption DEF LiveRow
  <2>3. QED
    BY <2>1, <2>2 DEF RowsStay, RowStays, OperationsStay
<1>8. ASSUME NEW reset \in Ops, NEW proof \in Backends, ReplaceFencedEpoch(reset, proof)
      PROVE  RowsStay /\ OperationsStay
  <2>1. OperationsStay
    BY <1>8 DEF ReplaceFencedEpoch, Retired, Uncertain, Older, OperationsStay, historyVars
  <2>2. QED
    BY <1>8, <2>1, RowsFence
<1>9. ASSUME NEW reset \in Ops, ReplaceUnfencedEpoch(reset)
      PROVE  RowsStay /\ OperationsStay
  <2>1. OperationsStay
    BY <1>9 DEF ReplaceUnfencedEpoch, Retired, Uncertain, Older, OperationsStay, historyVars
  <2>2. QED
    BY <1>9, <2>1, RowsFrame DEF ReplaceUnfencedEpoch
<1>10. ASSUME Restart
       PROVE  RowsStay /\ OperationsStay
  <2>1. \A r \in queued : LiveRow(r) => LiveRow(r)'
    BY <1>10 DEF Restart, LiveRow, Blocking, queueVars
  <2>2. QED
    BY <1>10, <2>1, RowsFrame DEF Restart, OperationsStay, historyVars
<1>11. ASSUME \/ \E p \in Ops : CallRuntime(p) \/ RuntimeActs(p)
              \/ \E b \in Backends : BackendReleased(b)
              \/ UNCHANGED vars
       PROVE  RowsStay /\ OperationsStay
  <2>1. UNCHANGED <<opVars, queueVars, historyVars>>
    BY <1>11 DEF CallRuntime, RuntimeActs, BackendReleased, vars, opVars, queueVars, historyVars
  <2>2. QED
    BY <2>1, RowsFrame DEF OperationsStay, LiveRow, opVars, queueVars, historyVars
<1>12. QED
  BY <1>1, <1>2, <1>3, <1>4, <1>5, <1>6, <1>7, <1>8, <1>9, <1>10, <1>11
  DEF Next, ClientNext, ServerNext, EnvironmentNext

\* The message a row stands for does not change.
LEMMA MessagesStay ==
  ASSUME QueueInv, OperationsStay, NEW r \in queued
  PROVE  RowMsg(r)' = RowMsg(r)
<1>1. r \in Ops => state[r] # "absent"
  BY DEF QueueInv, CarryInv, CarriersExist
<1>2. QED
  BY <1>1 DEF OperationsStay, RowMsg, Rows, QueueInv, TypeInv, TypeOK

\* A reserved row waits for an operation that carries its message.
ReservedCarries == \A r \in queued : resv[r] \in Ops => carries[resv[r]] = RowMsg(r)

LEMMA ReservedCarriesStep ==
  ASSUME QueueInv, ReservedCarries, RowsStay, OperationsStay
  PROVE  ReservedCarries'
<1> SUFFICES ASSUME NEW r \in queued', resv'[r] \in Ops
             PROVE  carries'[resv'[r]] = RowMsg(r)'
  BY DEF ReservedCarries
<1>1. r \in queued
  BY OpsAssumption DEF RowsStay
<1>2. RowMsg(r)' = RowMsg(r) /\ RowStays(r)
  BY <1>1, MessagesStay DEF RowsStay
<1>3. CASE resv'[r] = resv[r]
  <2>1. state[resv[r]] # "absent"
    BY <1>1, <1>3 DEF QueueInv, CarryInv, CarriersExist
  <2>2. QED
    BY <1>1, <1>2, <1>3, <2>1 DEF ReservedCarries, OperationsStay
<1>4. CASE resv'[r] # resv[r]
  BY <1>2, <1>4, OpsAssumption DEF RowStays
<1>5. QED
  BY <1>3, <1>4

-----------------------------------------------------------------------------
(* Rows are taken in the order they came                                   *)

\* The rows that stay keep their places. A message the user sends goes behind
\* all of them; only the held draft of a turn that an epoch cut goes before.
OrderIsKept ==
  /\ \A r \in queued \cap queued' : pos'[r] = pos[r]
  /\ \A r \in queued' \ queued :
       \/ \A q \in queued : pos[q] < pos'[r]
       \/ r \in Ops /\ held'[r] /\ \A q \in queued : pos'[r] < pos[q]

\* Only the user's reordering moves a row.
QueueIsFifo == [][QueueReorder \/ OrderIsKept]_vars

\* Rows leave or stay where they are.
LEMMA OrderFrame == ASSUME queued' \subseteq queued, UNCHANGED pos PROVE OrderIsKept
  BY DEF OrderIsKept

\* A draft's operation is settled for good, so no epoch gives it back again.
DraftsAreSettled == \A o \in Ops \cap queued : state[o] \in Terminal

LEMMA DraftsStep == ASSUME QueueInv, DraftsAreSettled, [Next]_vars PROVE DraftsAreSettled'
<1> USE DEF QueueInv, TypeInv, TypeOK
<1>1. \A o \in Ops : state[o] \in Terminal => state'[o] \in Terminal
  BY TerminalStep DEF vars
<1>2. ASSUME queued' \cap Ops \subseteq queued
      PROVE  DraftsAreSettled'
  BY <1>1, <1>2 DEF DraftsAreSettled
<1>3. ASSUME NEW reset \in Ops, NEW proof \in Backends, ReplaceFencedEpoch(reset, proof)
      PROVE  DraftsAreSettled'
  <2>1. queued' = queued \cup Drafts(GivenBack(reset))
    BY <1>3 DEF ReplaceFencedEpoch, HoldEpochTurnsForReview
  <2>2. \A o \in GivenBack(reset) : o \in Ops /\ state'[o] \in {"rejected", "fenced"}
    BY <1>3 DEF ReplaceFencedEpoch, GivenBack, Retired, Uncertain, Older
  <2>3. \A o \in Drafts(GivenBack(reset)) : state'[o] \in Terminal
    BY <2>2 DEF Drafts, Terminal
  <2>4. QED
    BY <1>1, <2>1, <2>3 DEF DraftsAreSettled
<1>4. ASSUME NEW o \in Ops, ExecutorSettles(o) \/ EvidenceSettles(o)
      PROVE  queued' \subseteq queued
  <2>1. CASE UNCHANGED queueVars
    BY <2>1 DEF queueVars
  <2>2. ASSUME NEW s \in Settlement, Settle(o, s)
        PROVE  queued' \subseteq queued
    BY <2>2, SettleEffect DEF queueVars
  <2>3. QED
    BY <1>4, <2>1, <2>2, AnswerEffect
<1>5. ASSUME NEW m \in Msgs, Enqueue(m)
      PROVE  queued' \cap Ops \subseteq queued
  BY <1>5, OpsAssumption DEF Enqueue
<1>6. ASSUME \/ \E o \in Ops, m \in Msgs : PrepareTurn(o, m)
             \/ \E o \in Ops, k \in Kinds : PrepareOther(o, k)
             \/ \E o \in Ops, r \in Rows : ReserveQueueHead(o, r)
             \/ \E r \in Rows : QueueEdit(r) \/ QueueRemove(r)
             \/ QueueReorder
             \/ RecoverRestartInterruptedTurns
             \/ \E o \in Ops : \/ ClaimOperation(o) \/ ReplayUnknownOperation(o)
                               \/ CallRuntime(o) \/ RuntimeActs(o)
             \/ \E reset \in Ops : ReplaceUnfencedEpoch(reset)
             \/ \E b \in Backends : BackendReleased(b)
             \/ Restart
             \/ UNCHANGED vars
      PROVE  queued' \subseteq queued
  BY <1>6
  DEF PrepareTurn, PrepareOther, ReserveQueueHead, QueueEdit, QueueRemove, QueueReorder,
      RecoverRestartInterruptedTurns, ClaimOperation, ReplayUnknownOperation,
      CallRuntime, RuntimeActs, ReplaceUnfencedEpoch, BackendReleased, Restart, queueVars, vars
<1>7. QED
  BY <1>2, <1>3, <1>4, <1>5, <1>6 DEF Next, ClientNext, ServerNext, EnvironmentNext

LEMMA FifoStep ==
  ASSUME QueueInv, DraftsAreSettled, [Next]_vars
  PROVE  QueueReorder \/ OrderIsKept
<1> USE DEF QueueInv, TypeInv, TypeOK
<1>1. ASSUME NEW m \in Msgs, Enqueue(m)
      PROVE  OrderIsKept
  <2>1. PICK n \in Positions : IsNextPosition(n) /\ pos' = [pos EXCEPT ![m] = n]
    BY <1>1 DEF Enqueue
  <2>2. pos'[m] = n /\ \A q \in queued : pos[q] < n
    BY <2>1 DEF IsNextPosition, Rows
  <2>3. m \notin queued /\ queued' = queued \cup {m}
    BY <1>1 DEF Enqueue, CarryInv, CarriersExist
  <2>4. \A q \in queued : pos'[q] = pos[q]
    BY <2>1, <2>3
  <2>5. QED
    BY <2>2, <2>3, <2>4 DEF OrderIsKept
<1>2. ASSUME NEW reset \in Ops, NEW proof \in Backends, ReplaceFencedEpoch(reset, proof)
      PROVE  OrderIsKept
  <2> DEFINE turns == GivenBack(reset)
  <2>1. turns \in SUBSET Ops /\ \A o \in turns : state[o] \notin {"absent"} \cup Terminal
    BY DEF GivenBack, Retired, Uncertain, Older, Terminal
  <2>2. HoldEpochTurnsForReview(turns)
    BY <1>2 DEF ReplaceFencedEpoch
  <2>3. /\ \A o \in Drafts(turns), q \in queued : pos'[o] < pos[q]
        /\ \A r \in Rows \ Drafts(turns) : pos'[r] = pos[r]
    BY <2>1, <2>2, DraftPositions
  <2>4. /\ queued' = queued \cup Drafts(turns)
        /\ \A r \in Drafts(turns) : r \in Ops /\ held'[r]
    BY <2>1, <2>2 DEF HoldEpochTurnsForReview, Drafts, Rows
  <2>5. \A r \in queued : r \notin Drafts(turns)
    BY <2>1 DEF Drafts, DraftsAreSettled
  <2>6. QED
    BY <2>3, <2>4, <2>5 DEF OrderIsKept
<1>3. ASSUME NEW r \in Rows, QueueEdit(r) \/ QueueRemove(r)
      PROVE  OrderIsKept
  BY <1>3, OrderFrame DEF QueueEdit, QueueRemove
<1>4. ASSUME NEW o \in Ops, ExecutorSettles(o) \/ EvidenceSettles(o)
      PROVE  OrderIsKept
  <2>1. CASE UNCHANGED queueVars
    BY <2>1, OrderFrame DEF queueVars
  <2>2. ASSUME NEW s \in Settlement, Settle(o, s)
        PROVE  OrderIsKept
    <3>1. queued' \subseteq queued /\ UNCHANGED pos
      BY <2>2, SettleEffect DEF queueVars
    <3>2. QED
      BY <3>1, OrderFrame
  <2>3. QED
    BY <1>4, <2>1, <2>2, AnswerEffect
<1>5. ASSUME \/ RecoverRestartInterruptedTurns
             \/ \E o \in Ops, r \in Rows : ReserveQueueHead(o, r)
      PROVE  OrderIsKept
  BY <1>5, OrderFrame DEF RecoverRestartInterruptedTurns, ReserveQueueHead
<1>6. ASSUME \/ \E o \in Ops, m \in Msgs : PrepareTurn(o, m)
             \/ \E o \in Ops, k \in Kinds : PrepareOther(o, k)
             \/ \E o \in Ops : \/ ClaimOperation(o) \/ ReplayUnknownOperation(o)
                               \/ CallRuntime(o) \/ RuntimeActs(o)
             \/ \E reset \in Ops : ReplaceUnfencedEpoch(reset)
             \/ \E b \in Backends : BackendReleased(b)
             \/ Restart
             \/ UNCHANGED vars
      PROVE  OrderIsKept
  BY <1>6, OrderFrame
  DEF PrepareTurn, PrepareOther, ClaimOperation, ReplayUnknownOperation,
      CallRuntime, RuntimeActs, ReplaceUnfencedEpoch, BackendReleased, Restart, queueVars, vars
<1>7. QED
  BY <1>1, <1>2, <1>3, <1>4, <1>5, <1>6 DEF Next, ClientNext, ServerNext, EnvironmentNext

\* Queued messages are sent in the order they were accepted: with the head alone
\* reserved (TheReservedRowIsTheHead), nothing but the user's reordering and the
\* drafts an epoch gives back changes who comes first.
THEOREM TheQueueIsFifo == Spec => QueueIsFifo
<1>1. Init => DraftsAreSettled
  BY DEF Init, DraftsAreSettled
<1>2. QueueInv /\ DraftsAreSettled /\ [Next]_vars => DraftsAreSettled'
  BY DraftsStep
<1>3. QueueInv /\ DraftsAreSettled /\ [Next]_vars => [QueueReorder \/ OrderIsKept]_vars
  BY FifoStep
<1>4. QED
  BY <1>1, <1>2, <1>3, QueueHolds, PTL DEF Spec, QueueIsFifo

-----------------------------------------------------------------------------
(* No reservation is dead, where every epoch has proof                     *)

LiveInv == \A r \in queued : LiveRow(r)

\* With proof for every epoch, a reserved row waits for an operation that
\* still owns its outcome, and can be confirmed, released or held.
THEOREM ReservationsAreLive == ~Unfenced => (Spec => []ReservationIsLive)
<1> SUFFICES ASSUME ~Unfenced
             PROVE  Spec => []ReservationIsLive
  OBVIOUS
<1>1. Init => LiveInv
  BY DEF Init, LiveInv
<1>2. ASSUME QueueInv, LiveInv, [Next]_vars
      PROVE  LiveInv'
  <2>1. RowsStay
    BY <1>2, RowsStep
  <2>2. ASSUME NEW r \in queued'
        PROVE  LiveRow(r)'
    <3>1. CASE r \in queued
      BY <1>2, <2>1, <2>2, <3>1 DEF LiveInv, RowsStay, RowStays
    <3>2. CASE r \notin queued
      BY <2>1, <2>2, <3>2, OpsAssumption DEF RowsStay, LiveRow
    <3>3. QED
      BY <3>1, <3>2
  <2>3. QED
    BY <2>2 DEF LiveInv
<1>3. QueueInv /\ LiveInv => ReservationIsLive
  BY DEF QueueInv, TypeInv, TypeOK, LiveInv, LiveRow, ReservationIsLive
<1>4. QED
  BY <1>1, <1>2, <1>3, QueueHolds, PTL DEF Spec

-----------------------------------------------------------------------------
(* No accepted message is lost                                             *)

Kept(m) ==
  \/ \E r \in queued : RowMsg(r) = m
  \/ \E o \in Ops : carries[o] = m /\ (state[o] = "confirmed" \/ owner[o] = m)

\* A message the user left alone is kept until it is confirmed.
IntentIsKept == \A m \in admitted \ touched : Kept(m)

\* A message is kept by its row, which only leaves with a confirmation, or by
\* the operation it was prepared with.
LEMMA KeptStep ==
  ASSUME QueueInv, ReservedCarries, IntentIsKept, [Next]_vars
  PROVE  IntentIsKept'
<1> SUFFICES ASSUME NEW m \in admitted', m \notin touched'
             PROVE  Kept(m)'
  BY DEF IntentIsKept
<1>1. RowsStay /\ OperationsStay
  BY RowsStep
<1>2. CASE m \notin admitted
  <2>1. m \in Msgs
    BY TypeStep DEF QueueInv, TypeInv, TypeOK
  <2>2. m \in queued' \/ \E o \in Ops : carries'[o] = m /\ owner'[o] = m
    BY <1>1, <1>2 DEF RowsStay
  <2>3. QED
    BY <2>1, <2>2 DEF Kept, RowMsg
<1>3. CASE \E r \in queued : RowMsg(r) = m
  <2>1. PICK r \in queued : RowMsg(r) = m
    BY <1>3
  <2>2. RowMsg(r)' = m
    BY <1>1, <2>1, MessagesStay
  <2>3. CASE r \in queued'
    BY <2>2, <2>3 DEF Kept
  <2>4. CASE r \notin queued'
    <3>1. resv[r] \in Ops /\ state'[resv[r]] = "confirmed"
      BY <1>1, <2>1, <2>4 DEF RowsStay
    <3>2. carries[resv[r]] = m /\ state[resv[r]] # "absent"
      BY <2>1, <3>1 DEF ReservedCarries, QueueInv, CarryInv, CarriersExist
    <3>3. carries'[resv[r]] = m
      BY <1>1, <3>1, <3>2 DEF OperationsStay
    <3>4. QED
      BY <3>1, <3>3 DEF Kept
  <2>5. QED
    BY <2>3, <2>4
<1>4. CASE \E o \in Ops : carries[o] = m /\ (state[o] = "confirmed" \/ owner[o] = m)
  <2>1. PICK o \in Ops : carries[o] = m /\ (state[o] = "confirmed" \/ owner[o] = m)
    BY <1>4
  <2>2. m \in Msgs
    BY TypeStep DEF QueueInv, TypeInv, TypeOK
  <2>3. state[o] # "absent"
    BY <2>1, <2>2, OpsAssumption DEF QueueInv, OpsInv, RowsOfOperations
  <2>4. carries'[o] = m /\ owner'[o] = owner[o]
    BY <1>1, <2>1, <2>3 DEF OperationsStay
  <2>5. state[o] = "confirmed" => state'[o] = "confirmed"
    <3>1. CASE Next
      BY <3>1, TerminalStep DEF QueueInv, Terminal
    <3>2. CASE UNCHANGED vars
      BY <3>2 DEF vars
    <3>3. QED
      BY <3>1, <3>2
  <2>6. QED
    BY <2>1, <2>4, <2>5 DEF Kept
<1>5. QED
  <2>1. m \in admitted => Kept(m)
    BY <1>1 DEF IntentIsKept, RowsStay
  <2>2. QED
    BY <1>2, <1>3, <1>4, <2>1 DEF Kept

-----------------------------------------------------------------------------
(* The session delivers messages as promised                               *)

\* Everything that is known of a message.
IntentInv ==
  /\ QueueInv /\ CallInv
  /\ ReservedCarries
  /\ IntentIsKept
  /\ touched \subseteq admitted

\* One step accepts a new message, or takes one back, or leaves both sets
\* alone; only the runtime itself acts on a call.
LEMMA HistoryStep ==
  ASSUME QueueInv, [Next]_vars
  PROVE  \/ /\ \E m \in Msgs \ admitted : admitted' = admitted \cup {m}
            /\ UNCHANGED <<touched, fate>>
         \/ /\ \E r \in queued : touched' = touched \cup {RowMsg(r)}
            /\ UNCHANGED <<admitted, fate, state, owner, carries>>
         \/ /\ UNCHANGED <<admitted, touched>>
            /\ \A o \in Ops : fate'[o] = "applied" <=> fate[o] = "applied"
         \/ \E o \in Ops : RuntimeActs(o)
<1> USE DEF QueueInv, TypeInv, TypeOK
<1>1. ASSUME NEW o \in Ops, CallRuntime(o)
      PROVE  /\ UNCHANGED <<admitted, touched>>
             /\ \A p \in Ops : fate'[p] = "applied" <=> fate[p] = "applied"
  BY <1>1 DEF CallRuntime, historyVars
<1>2. ASSUME NEW b \in Backends, BackendReleased(b)
      PROVE  /\ UNCHANGED <<admitted, touched>>
             /\ \A p \in Ops : fate'[p] = "applied" <=> fate[p] = "applied"
  BY <1>2 DEF BackendReleased, historyVars
<1>3. ASSUME NEW m \in Msgs, Enqueue(m) \/ \E o \in Ops : PrepareTurn(o, m)
      PROVE  /\ m \notin admitted /\ admitted' = admitted \cup {m}
             /\ UNCHANGED <<touched, fate>>
  BY <1>3 DEF Enqueue, PrepareTurn, runtimeVars
<1>4. ASSUME NEW r \in Rows, QueueEdit(r) \/ QueueRemove(r)
      PROVE  /\ r \in queued /\ touched' = touched \cup {RowMsg(r)}
             /\ UNCHANGED <<admitted, fate, state, owner, carries>>
  BY <1>4 DEF QueueEdit, QueueRemove, opVars, runtimeVars
<1>5. ASSUME \/ \E o \in Ops, k \in Kinds : PrepareOther(o, k)
             \/ \E o \in Ops, r \in Rows : ReserveQueueHead(o, r)
             \/ QueueReorder
             \/ \E o \in Ops : \/ ClaimOperation(o) \/ ReplayUnknownOperation(o)
                               \/ ExecutorSettles(o) \/ EvidenceSettles(o)
             \/ RecoverRestartInterruptedTurns
             \/ \E reset \in Ops, proof \in Backends : ReplaceFencedEpoch(reset, proof)
             \/ \E reset \in Ops : ReplaceUnfencedEpoch(reset)
             \/ Restart
             \/ UNCHANGED vars
      PROVE  UNCHANGED <<admitted, touched, fate>>
  BY <1>5 DEF PrepareOther, ReserveQueueHead, QueueReorder, ClaimOperation,
              ReplayUnknownOperation, ExecutorSettles, EvidenceSettles,
              RecoverRestartInterruptedTurns, ReplaceFencedEpoch, ReplaceUnfencedEpoch,
              Restart, vars, runtimeVars, historyVars
<1>6. QED
  BY <1>1, <1>2, <1>3, <1>4, <1>5 DEF Next, ClientNext, ServerNext, EnvironmentNext

\* The message of a row was accepted from the user.
LEMMA RowsAreAdmitted ==
  ASSUME QueueInv, NEW r \in queued
  PROVE  RowMsg(r) \in admitted /\ RowMsg(r) \in Msgs
  BY OpsAssumption DEF QueueInv, TypeInv, TypeOK, DraftsHaveOwners, CarryInv, CarriersExist, RowMsg, Rows

LEMMA IntentStep == IntentInv /\ [Next]_vars => IntentInv'
<1> SUFFICES ASSUME IntentInv, [Next]_vars
             PROVE  IntentInv'
  OBVIOUS
<1> USE DEF IntentInv
<1>1. QueueInv' /\ CallInv'
  BY TypeStep, OpsStep, CarryStep, OrderStep, CallStep DEF QueueInv
<1>2. ReservedCarries' /\ IntentIsKept'
  BY RowsStep, ReservedCarriesStep, KeptStep
<1>3. touched' \subseteq admitted'
  <2>1. CASE \E o \in Ops : RuntimeActs(o)
    BY <2>1 DEF RuntimeActs, historyVars
  <2>2. QED
    BY <2>1, HistoryStep, RowsAreAdmitted
<1>4. QED
  BY <1>1, <1>2, <1>3

\* What the runtime did for a message changes only when it acts on a call.
LEMMA ApplicationsStay ==
  ASSUME IntentInv, OperationsStay, [Next]_vars,
         \A o \in Ops : fate'[o] = "applied" <=> fate[o] = "applied",
         NEW m \in Msgs
  PROVE  Applications(m)' = Applications(m)
<1>1. \A o \in Ops : fate[o] = "applied" => state[o] # "absent"
  BY DEF IntentInv, CallInv
<1>2. \A o \in Ops : fate[o] = "applied" => carries'[o] = carries[o]
  BY <1>1 DEF OperationsStay
<1>3. {o \in Carried(m) : fate[o] = "applied"}' = {o \in Carried(m) : fate[o] = "applied"}
  BY <1>2 DEF Carried
<1>4. QED
  BY <1>3 DEF Applications

\* A row of the table is confirmed by the answer of its own operation.
LEMMA ConfirmingStep ==
  ASSUME QueueInv, [Next]_vars, NEW o \in Ops, state[o] # "confirmed", state'[o] = "confirmed"
  PROVE  /\ \A p \in Ops \ {o} : state'[p] = state[p]
         /\ \A p \in Ops : fate'[p] = fate[p]
         /\ UNCHANGED <<admitted, touched>>
<1> USE DEF QueueInv, TypeInv, TypeOK
<1>1. ASSUME NEW p \in Ops, NEW k, InsertPreparedOperation(p, k)
      PROVE  FALSE
  BY <1>1 DEF InsertPreparedOperation
<1>2. ASSUME NEW p \in Ops, ExecutorSettles(p) \/ EvidenceSettles(p)
      PROVE  /\ \A q \in Ops \ {o} : state'[q] = state[q]
             /\ UNCHANGED <<fate, admitted, touched>>
  <2>1. PICK s \in Settlement : Settle(p, s)
    BY <1>2, AnswerEffect DEF opVars
  <2>2. state' = [state EXCEPT ![p] = s]
    BY <2>1, SettleEffect
  <2>3. QED
    BY <1>2, <2>2, AnswerEffect DEF runtimeVars, historyVars
<1>3. ASSUME NEW p \in Ops,
             \/ \E m \in Msgs : PrepareTurn(p, m)
             \/ \E k \in Kinds : PrepareOther(p, k)
             \/ \E r \in Rows : ReserveQueueHead(p, r)
      PROVE  FALSE
  BY <1>1, <1>3 DEF PrepareTurn, PrepareOther, ReserveQueueHead
<1>4. ASSUME NEW reset \in Ops, NEW proof \in Backends,
             ReplaceFencedEpoch(reset, proof) \/ ReplaceUnfencedEpoch(reset)
      PROVE  FALSE
  BY <1>4 DEF ReplaceFencedEpoch, ReplaceUnfencedEpoch
<1>5. ASSUME \/ \E m \in Msgs : Enqueue(m)
             \/ \E r \in Rows : QueueEdit(r) \/ QueueRemove(r)
             \/ QueueReorder
             \/ \E p \in Ops : \/ ClaimOperation(p) \/ ReplayUnknownOperation(p)
                               \/ CallRuntime(p) \/ RuntimeActs(p)
             \/ \E b \in Backends : BackendReleased(b)
             \/ RecoverRestartInterruptedTurns
             \/ Restart
             \/ UNCHANGED vars
      PROVE  FALSE
  BY <1>5 DEF Enqueue, QueueEdit, QueueRemove, QueueReorder, ClaimOperation,
              ReplayUnknownOperation, CallRuntime, RuntimeActs, BackendReleased,
              RecoverRestartInterruptedTurns, Restart, opVars, vars
<1>6. QED
  BY <1>2, <1>3, <1>4, <1>5 DEF Next, ClientNext, ServerNext, EnvironmentNext

\* A message that is neither accepted nor taken back in a step stays as it
\* is, unless the step confirms an operation that carries it.
LEMMA StatusStays ==
  ASSUME IntentInv, [Next]_vars, NEW m \in Msgs,
         m \in admitted' <=> m \in admitted, m \in touched' <=> m \in touched
  PROVE  \/ StatusOf(m)' = StatusOf(m)
         \/ /\ StatusOf(m) = "kept" /\ StatusOf(m)' = "delivered"
            /\ \E o \in Ops : carries[o] = m /\ carries'[o] = m
                              /\ state[o] # "confirmed" /\ state'[o] = "confirmed"
<1> USE DEF IntentInv
<1>1. OperationsStay
  BY RowsStep
<1>2. CASE m \in admitted /\ m \notin touched
  <2>1. Kept(m) /\ Kept(m)'
    BY <1>2, IntentStep DEF IntentIsKept
  <2>2. StatusOf(m) \in {"kept", "delivered"} /\ StatusOf(m)' \in {"kept", "delivered"}
    BY <1>2, <2>1 DEF StatusOf, Kept, Carried
  <2>3. CASE StatusOf(m) = "delivered"
    <3>1. PICK o \in Ops : carries[o] = m /\ state[o] = "confirmed"
      BY <1>2, <2>3 DEF StatusOf, Carried
    <3>2. state'[o] = "confirmed"
      <4>1. CASE Next
        BY <3>1, <4>1, TerminalStep DEF QueueInv, Terminal
      <4>2. CASE UNCHANGED vars
        BY <3>1, <4>2 DEF vars
      <4>3. QED
        BY <4>1, <4>2
    <3>3. carries'[o] = m
      BY <1>1, <3>1 DEF OperationsStay
    <3>4. StatusOf(m)' = "delivered"
      BY <1>2, <3>2, <3>3 DEF StatusOf, Carried
    <3>5. QED
      BY <2>3, <3>4
  <2>4. CASE StatusOf(m) = "kept" /\ StatusOf(m)' = "delivered"
    <3>1. PICK o \in Ops : carries'[o] = m /\ state'[o] = "confirmed"
      BY <1>2, <2>4 DEF StatusOf, Carried
    <3>2. carries[o] = m
      BY <1>1, <3>1 DEF OperationsStay
    <3>3. state[o] # "confirmed"
      BY <1>2, <2>4, <3>2 DEF StatusOf, Carried
    <3>4. QED
      BY <2>4, <3>1, <3>2, <3>3
  <2>5. QED
    BY <2>2, <2>3, <2>4
<1>3. CASE ~(m \in admitted /\ m \notin touched)
  BY <1>3 DEF StatusOf
<1>4. QED
  BY <1>2, <1>3

\* The runtime acts on at most one of the calls that ever carried a message
\* the user left alone.
LEMMA AppliedOnce ==
  ASSUME IntentInv, NEW o \in Ops, fate[o] = "pending", carries[o] \in Msgs \ touched
  PROVE  Applications(carries[o]) = 0
<1>1. \A p \in Ops : (p # o /\ carries[p] = carries[o]) => ~MayTakeEffect(p)
  BY DEF IntentInv, QueueInv, CallInv, CarryInv, OneLivingCarrier, OutcomeIsTrue, Dead, MayTakeEffect
<1>2. {p \in Carried(carries[o]) : fate[p] = "applied"} = {}
  BY <1>1 DEF Carried, MayTakeEffect
<1>3. QED
  BY <1>2, FS_EmptySet DEF Applications

\* The runtime acts on a call: on the message it carries, if it carries one.
LEMMA RuntimeStep ==
  ASSUME IntentInv, [Next]_vars, NEW o \in Ops, RuntimeActs(o)
  PROVE  \/ \A m \in Msgs : Applications(m)' = Applications(m)
         \/ \E m \in Msgs :
              /\ StatusOf(m) # "new"
              /\ StatusOf(m) = "withdrawn" \/ Applications(m) = 0
              /\ Applications(m)' = Applications(m) + 1
              /\ \A n \in Msgs \ {m} : Applications(n)' = Applications(n)
<1> USE DEF IntentInv, QueueInv, TypeInv, TypeOK
<1>1. UNCHANGED <<carries, state, admitted, touched>> /\ fate[o] = "pending"
  BY DEF RuntimeActs, opVars, historyVars
<1>2. PICK f \in {"applied", "refused"} : fate' = [fate EXCEPT ![o] = f]
  BY DEF RuntimeActs
<1>3. ASSUME NEW m \in Msgs, f = "refused" \/ carries[o] # m
      PROVE  Applications(m)' = Applications(m)
  <2>1. {p \in Carried(m) : fate[p] = "applied"}' = {p \in Carried(m) : fate[p] = "applied"}
    BY <1>1, <1>2, <1>3 DEF Carried
  <2>2. QED
    BY <2>1 DEF Applications
<1>4. ASSUME NEW m \in Msgs, f = "applied", carries[o] = m
      PROVE  /\ StatusOf(m) # "new"
             /\ StatusOf(m) = "withdrawn" \/ Applications(m) = 0
             /\ Applications(m)' = Applications(m) + 1
  <2> DEFINE acted == {p \in Carried(m) : fate[p] = "applied"}
  <2>1. {p \in Carried(m) : fate[p] = "applied"}' = acted \cup {o}
    BY <1>1, <1>2, <1>4 DEF Carried
  <2>2. o \notin acted /\ IsFiniteSet(acted)
    <3>1. acted \subseteq Rows
      BY DEF Carried, Rows
    <3>2. QED
      BY <1>1, <3>1, CardinalityOfPart
  <2>3. Applications(m)' = Applications(m) + 1
    <3>1. Cardinality(acted \cup {o}) = Cardinality(acted) + 1
      BY <2>2, FS_AddElement
    <3>2. Applications(m)' = Cardinality(acted \cup {o})
      BY <2>1 DEF Applications
    <3>3. QED
      BY <3>1, <3>2 DEF Applications
  <2>4. m \in admitted
    BY <1>4, OpsAssumption DEF CarryInv, CarriersExist
  <2>5. StatusOf(m) # "new"
    BY <2>4 DEF StatusOf
  <2>6. StatusOf(m) = "withdrawn" \/ Applications(m) = 0
    <3>1. CASE m \in touched
      BY <2>4, <3>1 DEF StatusOf
    <3>2. CASE m \notin touched
      BY <1>1, <1>4, <3>2, AppliedOnce
    <3>3. QED
      BY <3>1, <3>2
  <2>7. QED
    BY <2>3, <2>5, <2>6
<1>5. QED
  BY <1>2, <1>3, <1>4

\* Every step of the tables is a step of the promise, or none.
LEMMA DeliveryStep ==
  ASSUME IntentInv, [Next]_vars
  PROVE  [Delivery!Next]_(Delivery!vars)
<1> USE DEF IntentInv
<1>0. OperationsStay /\ RowsStay
  BY RowsStep
<1>1. CASE \E o \in Ops : RuntimeActs(o)
  <2>1. PICK o \in Ops : RuntimeActs(o)
    BY <1>1
  <2>2. ASSUME NEW m \in Msgs
        PROVE  StatusOf(m)' = StatusOf(m)
    <3>1. UNCHANGED <<state, admitted, touched>>
      BY <2>1 DEF RuntimeActs, opVars, historyVars
    <3>2. QED
      BY <3>1, StatusStays
  <2>3. CASE \A m \in Msgs : Applications(m)' = Applications(m)
    BY <2>2, <2>3 DEF Delivery!vars
  <2>4. CASE ~ \A m \in Msgs : Applications(m)' = Applications(m)
    <3>1. PICK m \in Msgs :
            /\ StatusOf(m) # "new"
            /\ StatusOf(m) = "withdrawn" \/ Applications(m) = 0
            /\ Applications(m)' = Applications(m) + 1
            /\ \A n \in Msgs \ {m} : Applications(n)' = Applications(n)
      BY <2>1, <2>4, RuntimeStep
    <3>2. Delivery!Apply(m)
      BY <2>2, <3>1 DEF Delivery!Apply
    <3>3. QED
      BY <3>2 DEF Delivery!Next
  <2>5. QED
    BY <2>3, <2>4
\* A message is accepted into the queue or with its operation.
<1>2. CASE (\E m \in Msgs \ admitted : admitted' = admitted \cup {m}) /\ UNCHANGED <<touched, fate>>
  <2>1. PICK m \in Msgs \ admitted : admitted' = admitted \cup {m}
    BY <1>2
  <2>2. \A n \in Msgs : Applications(n)' = Applications(n)
    BY <1>0, <1>2, ApplicationsStay
  <2>3. \A o \in Ops : ~(state[o] # "confirmed" /\ state'[o] = "confirmed")
    BY <2>1, ConfirmingStep
  <2>4. \A n \in Msgs \ {m} : StatusOf(n)' = StatusOf(n)
    BY <1>2, <2>1, <2>3, StatusStays
  <2>5. StatusOf(m) = "new" /\ StatusOf(m)' = "kept"
    <3>1. m \in admitted' /\ m \notin touched'
      BY <1>2, <2>1
    <3>2. \A o \in Ops : carries[o] # m
      BY <2>1, OpsAssumption DEF QueueInv, CarryInv, CarriersExist
    <3>3. \A o \in Ops : carries'[o] = m => state'[o] # "confirmed"
      BY <1>0, <3>2 DEF OperationsStay
    <3>4. Kept(m)'
      BY <3>1, IntentStep DEF IntentIsKept
    <3>5. QED
      BY <2>1, <3>1, <3>3, <3>4 DEF StatusOf, Kept, Carried
  <2>6. Delivery!Accept(m)
    BY <2>2, <2>4, <2>5 DEF Delivery!Accept
  <2>7. QED
    BY <2>6 DEF Delivery!Next
\* The user rewrites a message or takes it back.
<1>3. CASE /\ \E r \in queued : touched' = touched \cup {RowMsg(r)}
           /\ UNCHANGED <<admitted, fate, state, owner, carries>>
  <2>1. PICK m \in Msgs \cap admitted : touched' = touched \cup {m}
    BY <1>3, RowsAreAdmitted
  <2>2. \A n \in Msgs : Applications(n)' = Applications(n)
    BY <1>0, <1>3, ApplicationsStay
  <2>3. \A n \in Msgs \ {m} : StatusOf(n)' = StatusOf(n)
    <3>1. ASSUME NEW n \in Msgs \ {m}
          PROVE  StatusOf(n)' = StatusOf(n)
      <4>1. (n \in admitted' <=> n \in admitted) /\ (n \in touched' <=> n \in touched)
        BY <1>3, <2>1
      <4>2. QED
        BY <1>3, <4>1, StatusStays
    <3>2. QED
      BY <3>1
  <2>4. StatusOf(m)' = "withdrawn"
    BY <1>3, <2>1 DEF StatusOf
  <2>5. CASE m \in touched
    <3>1. StatusOf(m) = "withdrawn"
      BY <2>1, <2>5 DEF StatusOf
    <3>2. QED
      BY <2>2, <2>3, <2>4, <3>1 DEF Delivery!vars
  <2>6. CASE m \notin touched
    <3>1. Kept(m)
      BY <2>1, <2>6 DEF IntentIsKept
    <3>2. StatusOf(m) \in {"kept", "delivered"}
      BY <2>1, <2>6, <3>1 DEF StatusOf, Kept, Carried
    <3>3. Delivery!Withdraw(m)
      BY <2>2, <2>3, <2>4, <3>2 DEF Delivery!Withdraw
    <3>4. QED
      BY <2>1, <3>3 DEF Delivery!Next
  <2>7. QED
    BY <2>5, <2>6
\* Everything else confirms a message or leaves all as they are.
<1>4. CASE /\ UNCHANGED <<admitted, touched>>
           /\ \A o \in Ops : fate'[o] = "applied" <=> fate[o] = "applied"
  <2>1. \A n \in Msgs : Applications(n)' = Applications(n)
    BY <1>0, <1>4, ApplicationsStay
  <2>2. CASE \A n \in Msgs : StatusOf(n)' = StatusOf(n)
    BY <2>1, <2>2 DEF Delivery!vars
  <2>3. CASE \E n \in Msgs : StatusOf(n)' # StatusOf(n)
    <3>1. PICK m \in Msgs : StatusOf(m)' # StatusOf(m)
      BY <2>3
    <3>2. PICK o \in Ops : /\ carries[o] = m /\ carries'[o] = m
                           /\ state[o] # "confirmed" /\ state'[o] = "confirmed"
      BY <1>4, <3>1, StatusStays
    <3>3. StatusOf(m) = "kept" /\ StatusOf(m)' = "delivered"
      BY <1>4, <3>1, StatusStays
    <3>4. \A n \in Msgs \ {m} : StatusOf(n)' = StatusOf(n)
      <4>1. ASSUME NEW n \in Msgs \ {m}, NEW p \in Ops, carries[p] = n,
                   state[p] # "confirmed", state'[p] = "confirmed"
            PROVE  FALSE
        BY <3>2, <4>1, ConfirmingStep
      <4>2. QED
        BY <1>4, <4>1, StatusStays
    <3>5. Applications(m) > 0
      <4> DEFINE acted == {p \in Carried(m) : fate[p] = "applied"}
      <4>1. fate'[o] = "applied"
        BY <3>2, IntentStep DEF CallInv, OutcomeIsTrue
      <4>2. o \in acted
        BY <1>4, <3>2, <4>1 DEF Carried
      <4>3. acted \subseteq Rows
        BY DEF Carried, Rows
      <4>4. Cardinality(acted) \in Nat /\ Cardinality(acted) # 0
        BY <4>2, <4>3, CardinalityOfPart, FS_EmptySet
      <4>5. QED
        BY <4>4 DEF Applications
    <3>6. Delivery!Deliver(m)
      BY <2>1, <3>3, <3>4, <3>5 DEF Delivery!Deliver
    <3>7. QED
      BY <3>6 DEF Delivery!Next
  <2>4. QED
    BY <2>2, <2>3
<1>5. QED
  BY <1>1, <1>2, <1>3, <1>4, HistoryStep

\* The tables of a session deliver messages as promised: whatever restarts,
\* epochs, late answers and retries do, an accepted message is kept until it
\* is confirmed or taken back, is acted on once, and is confirmed only then.
THEOREM DeliveryImplements == Spec => DeliveryKeepsPromise
<1>1. Init => Delivery!Init
  <2>1. ASSUME Init, NEW m \in Msgs
        PROVE  StatusOf(m) = "new" /\ Applications(m) = 0
    <3>1. {o \in Carried(m) : fate[o] = "applied"} = {}
      BY <2>1 DEF Init, Carried
    <3>2. QED
      BY <2>1, <3>1, FS_EmptySet DEF Init, StatusOf, Applications
  <2>2. QED
    BY <2>1 DEF Delivery!Init
<1>2. Init => IntentInv
  BY TypeInit, OpsInit, CarryInit, CallInit
  DEF Init, IntentInv, QueueInv, ReservedIsHead, ReservedCarries, IntentIsKept
<1>3. IntentInv /\ [Next]_vars => [Delivery!Next]_(Delivery!vars)
  BY DeliveryStep
<1>4. QED
  BY <1>1, <1>2, <1>3, IntentStep, PTL DEF Spec, DeliveryKeepsPromise, Delivery!Spec

-----------------------------------------------------------------------------
(* What a fence cuts comes back                                            *)

\* A turn that is under way, or was fenced, is a direct one that can be given
\* back, or has a row that is reserved by it or already held for review. Only a
\* direct one of files alone has nothing to give back.
CanComeBack(o) ==
  \/ owner[o] \in FilesOnly
  \/ state[o] # "fenced" /\ owner[o] \in Msgs
  \/ state[o] # "fenced" /\ \E r \in queued : resv[r] = o
  \/ \E r \in queued : RowMsg(r) = carries[o] /\ held[r]

UnderWay(o) == kind[o] = "turn-submit" /\ state[o] \in Blocking \cup {"fenced"}

ReturnInv == \A o \in Ops : UnderWay(o) /\ carries[o] \notin touched => CanComeBack(o)

\* Only an epoch with proof fences, and only what is older than its reset.
LEMMA FencingStep ==
  ASSUME QueueInv, [Next]_vars, NEW o \in Ops, state[o] # "fenced", state'[o] = "fenced"
  PROVE  \E reset \in Ops, proof \in Backends :
           ReplaceFencedEpoch(reset, proof) /\ o \in Uncertain(reset)
<1> USE DEF QueueInv, TypeInv, TypeOK
<1>1. ASSUME NEW p \in Ops, NEW k, InsertPreparedOperation(p, k)
      PROVE  FALSE
  BY <1>1 DEF InsertPreparedOperation
<1>2. ASSUME NEW p \in Ops, ExecutorSettles(p) \/ EvidenceSettles(p)
      PROVE  FALSE
  <2>1. ASSUME NEW s \in Settlement, Settle(p, s)
        PROVE  FALSE
    BY <2>1, SettleEffect DEF Settlement
  <2>2. QED
    BY <1>2, <2>1, AnswerEffect DEF opVars
<1>3. ASSUME NEW reset \in Ops, NEW proof \in Backends, ReplaceFencedEpoch(reset, proof)
      PROVE  o \in Uncertain(reset)
  BY <1>3 DEF ReplaceFencedEpoch
<1>4. ASSUME NEW reset \in Ops, ReplaceUnfencedEpoch(reset)
      PROVE  FALSE
  BY <1>4 DEF ReplaceUnfencedEpoch
<1>5. ASSUME NEW p \in Ops,
             \/ \E m \in Msgs : PrepareTurn(p, m)
             \/ \E k \in Kinds : PrepareOther(p, k)
             \/ \E r \in Rows : ReserveQueueHead(p, r)
      PROVE  FALSE
  BY <1>1, <1>5 DEF PrepareTurn, PrepareOther, ReserveQueueHead
<1>6. ASSUME \/ \E m \in Msgs : Enqueue(m)
             \/ \E r \in Rows : QueueEdit(r) \/ QueueRemove(r)
             \/ QueueReorder
             \/ \E p \in Ops : \/ ClaimOperation(p) \/ ReplayUnknownOperation(p)
                               \/ CallRuntime(p) \/ RuntimeActs(p)
             \/ \E b \in Backends : BackendReleased(b)
             \/ RecoverRestartInterruptedTurns
             \/ Restart
             \/ UNCHANGED vars
      PROVE  FALSE
  BY <1>6 DEF Enqueue, QueueEdit, QueueRemove, QueueReorder, ClaimOperation,
              ReplayUnknownOperation, CallRuntime, RuntimeActs, BackendReleased,
              RecoverRestartInterruptedTurns, Restart, opVars, vars
<1>7. QED
  BY <1>2, <1>3, <1>4, <1>5, <1>6 DEF Next, ClientNext, ServerNext, EnvironmentNext

\* A turn enters the table with its message or with its row.
LEMMA NewTurn ==
  ASSUME QueueInv, [Next]_vars, NEW o \in Ops, state[o] = "absent",
         state'[o] = "prepared", kind'[o] = "turn-submit"
  PROVE  \/ \E m \in Msgs : PrepareTurn(o, m)
         \/ \E r \in Rows : ReserveQueueHead(o, r)
<1> USE DEF QueueInv, TypeInv, TypeOK
<1>1. ASSUME NEW p \in Ops, NEW k, InsertPreparedOperation(p, k)
      PROVE  p = o /\ k = "turn-submit"
  BY <1>1 DEF InsertPreparedOperation
<1>2. ASSUME NEW p \in Ops, ExecutorSettles(p) \/ EvidenceSettles(p)
      PROVE  FALSE
  <2>1. ASSUME NEW s \in Settlement, Settle(p, s)
        PROVE  FALSE
    BY <2>1, SettleEffect DEF Settlement
  <2>2. QED
    BY <1>2, <2>1, AnswerEffect DEF opVars
<1>3. ASSUME NEW p \in Ops, NEW m \in Msgs, PrepareTurn(p, m)
      PROVE  p = o
  BY <1>1, <1>3 DEF PrepareTurn
<1>4. ASSUME NEW p \in Ops, NEW k \in Kinds, PrepareOther(p, k)
      PROVE  FALSE
  BY <1>1, <1>4 DEF PrepareOther
<1>5. ASSUME NEW p \in Ops, NEW r \in Rows, ReserveQueueHead(p, r)
      PROVE  p = o
  BY <1>1, <1>5 DEF ReserveQueueHead
<1>6. ASSUME NEW reset \in Ops, NEW proof \in Backends,
             ReplaceFencedEpoch(reset, proof) \/ ReplaceUnfencedEpoch(reset)
      PROVE  FALSE
  BY <1>6 DEF ReplaceFencedEpoch, ReplaceUnfencedEpoch, Retired, Uncertain
<1>7. ASSUME \/ \E m \in Msgs : Enqueue(m)
             \/ \E r \in Rows : QueueEdit(r) \/ QueueRemove(r)
             \/ QueueReorder
             \/ \E p \in Ops : \/ ClaimOperation(p) \/ ReplayUnknownOperation(p)
                               \/ CallRuntime(p) \/ RuntimeActs(p)
             \/ \E b \in Backends : BackendReleased(b)
             \/ RecoverRestartInterruptedTurns
             \/ Restart
             \/ UNCHANGED vars
      PROVE  FALSE
  BY <1>7 DEF Enqueue, QueueEdit, QueueRemove, QueueReorder, ClaimOperation,
              ReplayUnknownOperation, CallRuntime, RuntimeActs, BackendReleased,
              RecoverRestartInterruptedTurns, Restart, opVars, vars
<1>8. QED
  BY <1>2, <1>3, <1>4, <1>5, <1>6, <1>7 DEF Next, ClientNext, ServerNext, EnvironmentNext

\* A turn with text that a fence cuts has a held row afterwards: its own,
\* or the draft made of it.
LEMMA FenceGivesBack ==
  ASSUME QueueInv, ReservedCarries,
         NEW reset \in Ops, NEW proof \in Backends, ReplaceFencedEpoch(reset, proof),
         NEW o \in Uncertain(reset), kind[o] = "turn-submit", owner[o] \notin FilesOnly,
         owner[o] \in Msgs \/ \E r \in queued : resv[r] = o
  PROVE  \E r \in queued' : RowMsg(r)' = carries'[o] /\ held'[r]
<1> USE DEF QueueInv, TypeInv, TypeOK
<1>1. /\ o \in Ops /\ o \in GivenBack(reset)
      /\ UNCHANGED <<owner, carries>>
  BY DEF Uncertain, Older, GivenBack, ReplaceFencedEpoch, historyVars
<1>2. /\ queued' = queued \cup Drafts(GivenBack(reset))
      /\ \A r \in Rows : r \in Drafts(GivenBack(reset)) \/ (r \in queued /\ resv[r] \in GivenBack(reset))
                           => held'[r] = TRUE
  BY DEF ReplaceFencedEpoch, HoldEpochTurnsForReview
<1>3. CASE \E r \in queued : resv[r] = o
  <2>1. PICK r \in queued : resv[r] = o
    BY <1>3
  <2>2. r \in queued' /\ held'[r] = TRUE
    BY <1>1, <1>2, <2>1
  <2>3. RowMsg(r)' = carries'[o]
    BY <1>1, <2>1 DEF ReservedCarries, RowMsg
  <2>4. QED
    BY <2>2, <2>3
<1>4. CASE ~ \E r \in queued : resv[r] = o
  <2>1. o \in Drafts(GivenBack(reset))
    BY <1>1, <1>4 DEF Drafts, ReservedBy
  <2>2. o \in queued' /\ held'[o] = TRUE
    BY <1>1, <1>2, <2>1 DEF Rows
  <2>3. RowMsg(o)' = carries'[o]
    BY <1>1, <1>4, OpsAssumption DEF RowMsg, OpsInv, RowsOfOperations
  <2>4. QED
    BY <2>2, <2>3
<1>5. QED
  BY <1>3, <1>4

\* A row held for review keeps its message until the user decides.
LEMMA HeldStays ==
  ASSUME QueueInv, RowsStay, OperationsStay,
         NEW r \in queued, held[r], RowMsg(r) \notin touched'
  PROVE  r \in queued' /\ held'[r] /\ RowMsg(r)' = RowMsg(r)
<1>1. resv[r] = NoOp
  BY DEF QueueInv, ReservedIsHead
<1>2. r \in queued'
  BY <1>1, OpsAssumption DEF RowsStay
<1>3. QED
  BY <1>2, MessagesStay DEF RowsStay, RowStays

LEMMA ReturnStep ==
  ASSUME QueueInv, ReservedCarries, ReturnInv, [Next]_vars
  PROVE  ReturnInv'
<1> USE DEF QueueInv, TypeInv, TypeOK
<1> SUFFICES ASSUME NEW o \in Ops, UnderWay(o)', carries'[o] \notin touched'
             PROVE  CanComeBack(o)'
  BY DEF ReturnInv
<1>1. RowsStay /\ OperationsStay
  BY RowsStep
\* A new turn comes with its message or with its row.
<1>2. CASE state[o] = "absent"
  <2>1. state'[o] = "prepared" /\ kind'[o] = "turn-submit"
    BY <1>1, <1>2 DEF OperationsStay, UnderWay, Blocking
  <2>2. \/ \E m \in Msgs : PrepareTurn(o, m)
        \/ \E r \in Rows : ReserveQueueHead(o, r)
    BY <1>2, <2>1, NewTurn
  <2>3. CASE \E m \in Msgs : PrepareTurn(o, m)
    BY <2>1, <2>3 DEF PrepareTurn, CanComeBack
  <2>4. CASE \E r \in Rows : ReserveQueueHead(o, r)
    BY <2>1, <2>4 DEF ReserveQueueHead, IsHead, CanComeBack
  <2>5. QED
    BY <2>2, <2>3, <2>4
<1>3. CASE state[o] # "absent"
  <2>1. UnderWay(o) /\ carries'[o] = carries[o] /\ owner'[o] = owner[o]
    <3>1. kind[o] = "turn-submit" /\ carries'[o] = carries[o] /\ owner'[o] = owner[o]
      BY <1>1, <1>3 DEF OperationsStay, UnderWay
    <3>2. state[o] \in Terminal => state'[o] = state[o]
      <4>1. CASE Next
        BY <4>1, TerminalStep
      <4>2. CASE UNCHANGED vars
        BY <4>2 DEF vars
      <4>3. QED
        BY <4>1, <4>2
    <3>3. QED
      BY <1>3, <3>1, <3>2 DEF UnderWay, OperationState, Blocking, Terminal
  <2>2. CanComeBack(o)
    BY <1>1, <2>1 DEF ReturnInv, RowsStay
  <2>3. CASE \E r \in queued : RowMsg(r) = carries[o] /\ held[r]
    <3>1. PICK r \in queued : RowMsg(r) = carries[o] /\ held[r]
      BY <2>3
    <3>2. r \in queued' /\ held'[r] /\ RowMsg(r)' = carries'[o]
      BY <1>1, <2>1, <3>1, HeldStays
    <3>3. QED
      BY <3>2 DEF CanComeBack
  <2>4. CASE /\ state[o] # "fenced" /\ state'[o] = "fenced" /\ owner[o] \notin FilesOnly
             /\ (owner[o] \in Msgs \/ \E r \in queued : resv[r] = o)
    <3>1. PICK reset \in Ops, proof \in Backends :
            ReplaceFencedEpoch(reset, proof) /\ o \in Uncertain(reset)
      BY <2>4, FencingStep
    <3>2. \E r \in queued' : RowMsg(r)' = carries'[o] /\ held'[r]
      BY <2>1, <2>4, <3>1, FenceGivesBack DEF UnderWay
    <3>3. QED
      BY <3>2 DEF CanComeBack
  <2>5. CASE state'[o] # "fenced" /\ owner[o] \in Msgs
    BY <2>1, <2>5 DEF CanComeBack
  <2>6. CASE state'[o] # "fenced" /\ \E r \in queued : resv[r] = o
    <3>1. PICK r \in queued : resv[r] = o
      BY <2>6
    <3>2. RowMsg(r) = carries[o] /\ RowMsg(r)' = carries'[o]
      BY <1>1, <2>1, <3>1, MessagesStay DEF ReservedCarries
    <3>3. state'[o] \in Blocking
      BY <2>6 DEF UnderWay
    <3>4. r \in queued'
      BY <1>1, <2>1, <3>1, <3>2, <3>3 DEF RowsStay, Blocking
    <3>5. resv'[r] = o \/ held'[r]
      BY <1>1, <3>1, <3>3, <3>4 DEF RowsStay, RowStays, Blocking
    <3>6. QED
      BY <2>6, <3>2, <3>4, <3>5 DEF CanComeBack
  <2>7. CASE owner[o] \in FilesOnly
    BY <2>1, <2>7 DEF CanComeBack
  <2>8. QED
    BY <2>2, <2>3, <2>4, <2>5, <2>6, <2>7 DEF CanComeBack
<1>4. QED
  BY <1>2, <1>3

\* What a fence cut and did not give back.
OnlyFilesStayBehind ==
  \A o \in Ops : state[o] = "fenced" /\ kind[o] = "turn-submit" /\ carries[o] \notin touched
                   => owner[o] \in FilesOnly \/ \E r \in queued : RowMsg(r) = carries[o] /\ held[r]

\* A turn that a fence cut comes back as a held row and stays until the user
\* decides, queued or direct, with files or not: only a direct message of files
\* alone stays behind, in its user/message event.
THEOREM FilesAloneStayBehind == Spec => []OnlyFilesStayBehind
<1>1. Init => ReservedCarries /\ ReturnInv
  BY DEF Init, ReservedCarries, ReturnInv, UnderWay, Blocking
<1>2. QueueInv /\ (ReservedCarries /\ ReturnInv) /\ [Next]_vars => (ReservedCarries /\ ReturnInv)'
  BY RowsStep, ReservedCarriesStep, ReturnStep
<1>3. ReturnInv => OnlyFilesStayBehind
  BY DEF ReturnInv, UnderWay, CanComeBack, OnlyFilesStayBehind
<1>4. QED
  BY <1>1, <1>2, <1>3, QueueHolds, PTL DEF Spec

\* Where every message has text, every turn that a fence cut comes back.
THEOREM FencedTurnsComeBack == FilesOnly = {} => (Spec => []FencedTurnComesBack)
<1> SUFFICES ASSUME FilesOnly = {}
             PROVE  Spec => []FencedTurnComesBack
  OBVIOUS
<1>1. OnlyFilesStayBehind => FencedTurnComesBack
  BY DEF OnlyFilesStayBehind, FencedTurnComesBack
<1>2. QED
  BY <1>1, FilesAloneStayBehind, PTL

-----------------------------------------------------------------------------
(* Where the calls of an old epoch went                                    *)

\* An uncertain call of an epoch that a published reset has ended.
OfAnOlderEpoch(o) == state[o] = "unknown" /\ \E reset \in markers : ordinal[o] < ordinal[reset]

\* Calls go to the bound backend session, which is the first one or one that
\* a published reset created; what a published reset supersedes went to
\* another than the bound one.
HomeInv ==
  /\ backend \in {Initial} \cup markers
  /\ \A o \in Ops : home[o] \in {Initial} \cup markers
  /\ \A o \in Ops \ Replayable : OfAnOlderEpoch(o) => home[o] # backend

\* Steps that publish no epoch and move no call: what is newly unknown was
\* executing, and nothing that executes is superseded.
LEMMA HomeFrame ==
  ASSUME TypeInv, EpochInv, HomeInv, UNCHANGED <<backend, markers, home>>,
         \A o \in Ops : state'[o] = "unknown"
                          => state[o] \in {"executing", "unknown"} /\ ordinal'[o] = ordinal[o],
         \A reset \in markers : ordinal'[reset] = ordinal[reset]
  PROVE  HomeInv'
<1>1. ASSUME NEW o \in Ops \ Replayable, OfAnOlderEpoch(o)'
      PROVE  home[o] # backend
  <2>1. PICK reset \in markers : ordinal[o] < ordinal[reset]
    BY <1>1 DEF OfAnOlderEpoch
  <2>2. state[o] = "unknown"
    BY <1>1, <2>1 DEF OfAnOlderEpoch, EpochInv, NoStaleClaim
  <2>3. QED
    BY <2>1, <2>2 DEF HomeInv, OfAnOlderEpoch
<1>2. QED
  BY <1>1 DEF HomeInv

LEMMA HomeStep == ASSUME FreshResets, TypeInv, EpochInv, HomeInv, [Next]_vars PROVE HomeInv'
<1> USE DEF TypeInv, TypeOK
<1>1. ASSUME NEW o \in Ops,
             \/ \E m \in Msgs : PrepareTurn(o, m)
             \/ \E k \in Kinds : PrepareOther(o, k)
             \/ \E r \in Rows : ReserveQueueHead(o, r)
      PROVE  HomeInv'
  <2>1. PICK k : InsertPreparedOperation(o, k)
    BY <1>1 DEF PrepareTurn, PrepareOther, ReserveQueueHead
  <2>2. /\ state[o] = "absent" /\ state' = [state EXCEPT ![o] = "prepared"]
        /\ \A p \in Ops \ {o} : ordinal'[p] = ordinal[p]
    BY <2>1, PrepareEffect
  <2>3. o \notin markers
    BY <2>2 DEF EpochInv
  <2>4. UNCHANGED <<backend, markers, home>>
    BY <1>1 DEF PrepareTurn, PrepareOther, ReserveQueueHead, epochVars, runtimeVars
  <2>5. QED
    BY <2>2, <2>3, <2>4, HomeFrame
<1>2. ASSUME NEW o \in Ops, ClaimOperation(o) \/ ReplayUnknownOperation(o)
      PROVE  HomeInv'
  BY <1>2 DEF ClaimOperation, ReplayUnknownOperation, HomeInv, OfAnOlderEpoch, epochVars
<1>3. ASSUME NEW o \in Ops, ExecutorSettles(o) \/ EvidenceSettles(o)
      PROVE  HomeInv'
  <2>1. UNCHANGED <<backend, markers, home>>
    BY <1>3, AnswerEffect DEF epochVars, runtimeVars
  <2>2. CASE UNCHANGED <<opVars, queueVars>>
    BY <2>1, <2>2, HomeFrame DEF opVars
  <2>3. CASE \E s \in Settlement : Settle(o, s)
    <3>1. PICK s \in Settlement : Settle(o, s)
      BY <2>3
    <3>2. /\ state[o] \in SettlesFrom(s) /\ state' = [state EXCEPT ![o] = s]
          /\ UNCHANGED ordinal
      BY <3>1, SettleEffect, SettleTypes
    <3>3. s = "unknown" => state[o] = "executing"
      BY <3>2 DEF SettlesFrom
    <3>4. QED
      BY <2>1, <3>2, <3>3, HomeFrame
  <2>4. QED
    BY <1>3, <2>2, <2>3, AnswerEffect
\* The new backend session is fresh: no call went there.
<1>4. ASSUME NEW reset \in Ops, NEW proof \in Backends,
             ReplaceFencedEpoch(reset, proof) \/ ReplaceUnfencedEpoch(reset)
      PROVE  HomeInv'
  <2>1. reset \notin markers /\ reset # Initial
    BY <1>4, OpsAssumption DEF ReplaceFencedEpoch, ReplaceUnfencedEpoch, MayReplaceBinding
  <2>2. backend' = reset /\ markers' = markers \cup {reset} /\ home' = home
    BY <1>4 DEF ReplaceFencedEpoch, ReplaceUnfencedEpoch, runtimeVars
  <2>3. QED
    BY <2>1, <2>2 DEF HomeInv
<1>5. ASSUME Restart
      PROVE  HomeInv'
  BY <1>5, HomeFrame DEF Restart, epochVars, runtimeVars
<1>6. ASSUME UNCHANGED <<state, ordinal, backend, markers, home>>
      PROVE  HomeInv'
  BY <1>6, HomeFrame
<1>7. ASSUME \/ \E m \in Msgs : Enqueue(m)
             \/ \E r \in Rows : QueueEdit(r) \/ QueueRemove(r)
             \/ QueueReorder
             \/ \E p \in Ops : CallRuntime(p) \/ RuntimeActs(p)
             \/ \E b \in Backends : BackendReleased(b)
             \/ RecoverRestartInterruptedTurns
             \/ UNCHANGED vars
      PROVE  HomeInv'
  BY <1>6, <1>7 DEF Enqueue, QueueEdit, QueueRemove, QueueReorder, CallRuntime, RuntimeActs,
                    BackendReleased, RecoverRestartInterruptedTurns, opVars, epochVars,
                    runtimeVars, vars
<1>8. QED
  BY <1>1, <1>2, <1>3, <1>4, <1>5, <1>7 DEF Next, ClientNext, ServerNext, EnvironmentNext

-----------------------------------------------------------------------------
(* What a restart cut                                                      *)

\* A turn that a restart cut stays unknown until it is settled, and has no
\* executor; one that was recovered from has no row either.
CutInv ==
  \A o \in Ops \ Replayable :
    /\ o \in interrupted => state[o] = "unknown" /\ exec[o] = "idle"
    /\ o \in recovered => /\ state[o] \notin {"absent", "prepared", "executing"}
                          /\ exec[o] = "idle" /\ ReservedBy(o) = {}

\* A recovered turn gets no row: rows are reserved by prepared turns.
LEMMA NoRowForTheRecovered ==
  ASSUME TypeInv, RowsStay, OperationsStay, NEW o \in Ops, ReservedBy(o) = {},
         state[o] \notin {"absent", "prepared"}, state'[o] # "prepared"
  PROVE  ReservedBy(o)' = {}
<1> SUFFICES ASSUME NEW r \in queued', resv'[r] = o
             PROVE  FALSE
  BY DEF ReservedBy
<1>1. r \in queued
  BY OpsAssumption DEF RowsStay
<1>2. QED
  BY <1>1, OpsAssumption DEF RowsStay, RowStays, ReservedBy

\* Steps that start no executor and move nothing into the states before the
\* call: what is newly cut or recovered is so by the premises.
LEMMA CutFrame ==
  ASSUME TypeInv, CutInv, RowsStay, OperationsStay,
         interrupted' \subseteq interrupted, recovered' = recovered,
         \A o \in Ops \ Replayable : exec[o] = "idle" => exec'[o] = "idle",
         \A o \in Ops \ Replayable :
           /\ o \in interrupted' => state'[o] = state[o]
           /\ state'[o] = state[o] \/ state'[o] \notin {"absent", "prepared", "executing"}
  PROVE  CutInv'
  BY NoRowForTheRecovered DEF CutInv

LEMMA CutStep == ASSUME QueueInv, CutInv, [Next]_vars PROVE CutInv'
<1> USE DEF QueueInv, TypeInv, TypeOK
<1>1. RowsStay /\ OperationsStay
  BY RowsStep
<1>2. ASSUME NEW o \in Ops,
             \/ \E m \in Msgs : PrepareTurn(o, m)
             \/ \E k \in Kinds : PrepareOther(o, k)
             \/ \E r \in Rows : ReserveQueueHead(o, r)
      PROVE  CutInv'
  <2>1. PICK k : InsertPreparedOperation(o, k)
    BY <1>2 DEF PrepareTurn, PrepareOther, ReserveQueueHead
  <2>2. state[o] = "absent" /\ state' = [state EXCEPT ![o] = "prepared"]
    BY <2>1, PrepareEffect
  <2>3. UNCHANGED <<interrupted, recovered, exec>>
    BY <1>2 DEF PrepareTurn, PrepareOther, ReserveQueueHead, epochVars
  <2>4. ASSUME NEW p \in Ops \ Replayable, p \in recovered
        PROVE  ReservedBy(p)' = {}
    BY <1>1, <2>2, <2>4, NoRowForTheRecovered DEF CutInv
  <2>5. QED
    BY <2>2, <2>3, <2>4 DEF CutInv
<1>3. ASSUME NEW o \in Ops, ClaimOperation(o) \/ ReplayUnknownOperation(o)
      PROVE  CutInv'
  BY <1>3 DEF ClaimOperation, ReplayUnknownOperation, CutInv, ReservedBy, epochVars, queueVars
<1>4. ASSUME NEW o \in Ops, CallRuntime(o)
      PROVE  CutInv'
  BY <1>4 DEF CallRuntime, CutInv, ReservedBy, opVars, epochVars, queueVars
<1>5. ASSUME NEW o \in Ops, ExecutorSettles(o) \/ EvidenceSettles(o)
      PROVE  CutInv'
  <2>1. recovered' = recovered
    BY <1>5, AnswerEffect DEF epochVars
  <2>2. \A p \in Ops : exec[p] = "idle" => exec'[p] = "idle"
    BY <1>5 DEF ExecutorSettles, EvidenceSettles
  <2>3. CASE UNCHANGED <<opVars, queueVars>>
    BY <1>1, <2>1, <2>2, <2>3, CutFrame DEF opVars
  <2>4. CASE \E s \in Settlement : Settle(o, s)
    <3>1. PICK s \in Settlement : Settle(o, s)
      BY <2>4
    <3>2. state' = [state EXCEPT ![o] = s]
      BY <3>1, SettleEffect
    <3>3. interrupted' = interrupted \ {o}
      BY <3>1 DEF Settle, SettleOperation, ConfirmQueueReservation, ReleaseQueueReservation,
                  TransitionOperation
    <3>4. QED
      BY <1>1, <2>1, <2>2, <3>2, <3>3, CutFrame DEF Settlement
  <2>5. QED
    BY <1>5, <2>3, <2>4, AnswerEffect
<1>6. ASSUME NEW reset \in Ops, NEW proof \in Backends,
             ReplaceFencedEpoch(reset, proof) \/ ReplaceUnfencedEpoch(reset)
      PROVE  CutInv'
  <2>1. /\ interrupted' \subseteq interrupted /\ recovered' = recovered /\ exec' = exec
        /\ \A o \in Ops : state'[o] = state[o] \/ state'[o] \in {"rejected", "fenced", "unknown"}
        /\ \A o \in interrupted' : state[o] = "unknown" => state'[o] = state[o]
    BY <1>6 DEF ReplaceFencedEpoch, ReplaceUnfencedEpoch, Retired, Uncertain, Older
  <2>2. QED
    BY <1>1, <2>1, CutFrame DEF CutInv
<1>7. ASSUME Restart
      PROVE  CutInv'
  BY <1>7 DEF Restart, CutInv, ReservedBy, queueVars, epochVars
<1>8. ASSUME RecoverRestartInterruptedTurns
      PROVE  CutInv'
  BY <1>8, OpsAssumption DEF RecoverRestartInterruptedTurns, Stranded, CutInv, ReservedBy, opVars
<1>9. ASSUME \/ \E m \in Msgs : Enqueue(m)
             \/ \E r \in Rows : QueueEdit(r) \/ QueueRemove(r)
             \/ QueueReorder
             \/ \E p \in Ops : RuntimeActs(p)
             \/ \E b \in Backends : BackendReleased(b)
             \/ UNCHANGED vars
      PROVE  CutInv'
  <2>1. UNCHANGED <<opVars, recovered, exec>>
    BY <1>9 DEF Enqueue, QueueEdit, QueueRemove, QueueReorder, RuntimeActs, BackendReleased,
                epochVars, vars, opVars
  <2>2. QED
    BY <1>1, <2>1, CutFrame DEF opVars
<1>10. QED
  BY <1>2, <1>3, <1>4, <1>5, <1>6, <1>7, <1>8, <1>9
  DEF Next, ClientNext, ServerNext, EnvironmentNext

\* Where no reset opens two epochs, an uncertain call that the send gate
\* ignores went to another backend session than the next turn goes to, or it
\* was cut by a restart and is left to the user: no executor has it, no row
\* is reserved for it, and a row of its message waits for review.
THEOREM TheGateOpensSafely == FreshResets => (Spec => []GateOpensSafely)
<1> SUFFICES ASSUME FreshResets
             PROVE  Spec => []GateOpensSafely
  OBVIOUS
<1>1. Init => EpochInv /\ HomeInv /\ CutInv
  BY EpochInit, OpsAssumption DEF Init, HomeInv, OfAnOlderEpoch, CutInv
<1>2. QueueInv /\ (EpochInv /\ HomeInv /\ CutInv) /\ [Next]_vars => (EpochInv /\ HomeInv /\ CutInv)'
  BY EpochStep, HomeStep, CutStep DEF QueueInv
<1>3. QueueInv /\ HomeInv /\ CutInv => GateOpensSafely
  <2> SUFFICES ASSUME QueueInv, HomeInv, CutInv,
                      NEW o \in Ops \ Replayable, Superseded(o), o \in recovered
               PROVE  LeftToTheUser(o)
    BY DEF GateOpensSafely, HomeInv, OfAnOlderEpoch, Superseded
  <2>1. exec[o] = "idle" /\ ReservedBy(o) = {} /\ state[o] = "unknown"
    BY DEF CutInv, Superseded
  \* Only dead operations carry the message of a row that may be dispatched.
  <2>2. ASSUME NEW r \in queued, RowMsg(r) = carries[o], carries[o] \in Msgs \ touched, ~held[r]
        PROVE  FALSE
    <3>1. resv[r] \in Ops \cup {NoOp} /\ resv[r] # o
      BY <2>1 DEF QueueInv, TypeInv, TypeOK, ReservedBy
    <3>2. QED
      BY <2>1, <2>2, <3>1 DEF QueueInv, CarryInv, RowsMayBeSent, Dead
  <2>3. QED
    BY <2>1, <2>2 DEF LeftToTheUser, QueueInv, TypeInv, TypeOK, RowMsg
<1>4. QED
  BY <1>1, <1>2, <1>3, QueueHolds, PTL DEF Spec

-----------------------------------------------------------------------------
(* Fencing is final, where every epoch has proof                           *)

\* A call that did not go to the bound backend session went to a released
\* one, where nothing is pending; what is fenced went to a released one.
GoneInv ==
  \A o \in Ops :
    /\ home[o] = backend \/ home[o] \in released
    /\ home[o] \in released => fate[o] # "pending"
    /\ state[o] = "fenced" => home[o] \in released

\* Steps that neither fence nor move a call.
LEMMA GoneFrame ==
  ASSUME GoneInv, UNCHANGED <<backend, home, released>>,
         \A o \in Ops : state'[o] = "fenced" => state[o] = "fenced",
         \A o \in Ops : fate'[o] = "pending" => fate[o] = "pending" \/ home[o] \notin released
  PROVE  GoneInv'
  BY DEF GoneInv

LEMMA GoneStep ==
  ASSUME ~Unfenced, QueueInv, GoneInv, [Next]_vars
  PROVE  GoneInv'
<1> USE DEF QueueInv, TypeInv, TypeOK
<1>1. ASSUME NEW o \in Ops, ClaimOperation(o) \/ ReplayUnknownOperation(o)
      PROVE  GoneInv'
  <2>1. /\ state[o] \in {"prepared", "unknown"} /\ state' = [state EXCEPT ![o] = "executing"]
        /\ home' = [home EXCEPT ![o] = backend]
        /\ UNCHANGED <<backend, fate, released>>
    BY <1>1 DEF ClaimOperation, ReplayUnknownOperation, epochVars
  <2>2. backend \in released => fate[o] # "pending"
    BY DEF GoneInv
  <2>3. QED
    BY <2>1, <2>2 DEF GoneInv
<1>2. ASSUME NEW o \in Ops, CallRuntime(o) \/ RuntimeActs(o)
      PROVE  GoneInv'
  <2>1. UNCHANGED <<state, backend, home, released>>
    BY <1>2 DEF CallRuntime, RuntimeActs, opVars, epochVars
  <2>2. ASSUME NEW p \in Ops, fate'[p] = "pending"
        PROVE  fate[p] = "pending" \/ home[p] \notin released
    BY <1>2, <2>2 DEF CallRuntime, RuntimeActs
  <2>3. QED
    BY <2>1, <2>2, GoneFrame
<1>3. ASSUME NEW b \in Backends, BackendReleased(b)
      PROVE  GoneInv'
  <2>1. /\ UNCHANGED <<state, backend, home>> /\ released' = released \cup {b}
        /\ \A o \in Ops : fate'[o] = IF fate[o] = "pending" /\ home[o] = b THEN "refused" ELSE fate[o]
    BY <1>3 DEF BackendReleased, opVars, epochVars
  <2>2. QED
    BY <2>1 DEF GoneInv
<1>4. ASSUME NEW reset \in Ops, NEW proof \in Backends, ReplaceFencedEpoch(reset, proof)
      PROVE  GoneInv'
  <2>1. /\ backend \in released
        /\ UNCHANGED <<home, fate, released>>
    BY <1>4 DEF ReplaceFencedEpoch, FenceNames, runtimeVars
  <2>2. \A o \in Ops : home[o] \in released
    BY <2>1 DEF GoneInv
  <2>3. QED
    BY <2>1, <2>2 DEF GoneInv
<1>5. ASSUME NEW reset \in Ops, ReplaceUnfencedEpoch(reset)
      PROVE  FALSE
  BY <1>5 DEF ReplaceUnfencedEpoch
<1>6. CASE UNCHANGED <<backend, runtimeVars>>
  <2>1. \A o \in Ops : state'[o] = "fenced" => state[o] = "fenced"
    <3>1. ASSUME NEW o \in Ops, state[o] # "fenced", state'[o] = "fenced"
          PROVE  FALSE
      <4>1. PICK reset \in Ops, proof \in Backends : ReplaceFencedEpoch(reset, proof)
        BY <3>1, FencingStep
      <4>2. QED
        BY <1>6, <4>1 DEF ReplaceFencedEpoch, MayReplaceBinding
    <3>2. QED
      BY <3>1
  <2>2. QED
    BY <1>6, <2>1, GoneFrame DEF runtimeVars
<1>7. ASSUME \/ \E o \in Ops, m \in Msgs : PrepareTurn(o, m)
             \/ \E o \in Ops, k \in Kinds : PrepareOther(o, k)
             \/ \E o \in Ops, r \in Rows : ReserveQueueHead(o, r)
             \/ \E o \in Ops : ExecutorSettles(o) \/ EvidenceSettles(o)
             \/ \E m \in Msgs : Enqueue(m)
             \/ \E r \in Rows : QueueEdit(r) \/ QueueRemove(r)
             \/ QueueReorder
             \/ RecoverRestartInterruptedTurns
             \/ Restart
             \/ UNCHANGED vars
      PROVE  UNCHANGED <<backend, runtimeVars>>
  BY <1>7 DEF PrepareTurn, PrepareOther, ReserveQueueHead, ExecutorSettles, EvidenceSettles,
              Enqueue, QueueEdit, QueueRemove, QueueReorder, RecoverRestartInterruptedTurns,
              Restart, vars, epochVars, runtimeVars
<1>8. QED
  BY <1>1, <1>2, <1>3, <1>4, <1>5, <1>6, <1>7
  DEF Next, ClientNext, ServerNext, EnvironmentNext

\* With proof for every epoch, what was fenced never takes effect, so the
\* draft that came back may be sent again.
THEOREM FencingIsFinal == ~Unfenced => (Spec => []FencedIsFinal)
<1> SUFFICES ASSUME ~Unfenced
             PROVE  Spec => []FencedIsFinal
  OBVIOUS
<1>1. Init => GoneInv
  BY DEF Init, GoneInv
<1>2. QueueInv /\ GoneInv /\ [Next]_vars => GoneInv'
  BY GoneStep
<1>3. GoneInv => FencedIsFinal
  BY DEF GoneInv, FencedIsFinal
<1>4. QED
  BY <1>1, <1>2, <1>3, QueueHolds, PTL DEF Spec

=============================================================================
