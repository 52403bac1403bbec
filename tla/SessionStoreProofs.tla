------------------------- MODULE SessionStoreProofs -------------------------
(***************************************************************************)
(* What holds of SessionStore for every set of operations and messages.    *)
(***************************************************************************)
EXTENDS SessionStore, FiniteSetTheorems, TLAPS

\* A draft was made from an operation whose owner is a message, so every row
\* of the queue stands for a message.
DraftsHaveOwners == \A o \in Ops \cap queued : owner[o] \in Msgs

TypeInv == TypeOK /\ DraftsHaveOwners

-----------------------------------------------------------------------------
(* Cardinalities                                                           *)

\* The sets whose cardinality a queue position is computed from are finite.
LEMMA CardinalityOfPart ==
  ASSUME NEW S, S \subseteq Rows
  PROVE  IsFiniteSet(S) /\ Cardinality(S) \in Nat
<1>1. IsFiniteSet(Rows)
  BY OpsAssumption, FS_Union DEF Rows
<1>2. QED
  BY <1>1, FS_Subset, FS_CardinalityType

\* Every position an enqueue or a draft starts from is an integer.
LEMMA PositionsAreIntegers == Positions \subseteq Int
<1>1. Cardinality(Ops) \in Nat /\ Cardinality(Msgs) \in Nat
  BY CardinalityOfPart DEF Rows
<1>2. QED
  BY <1>1 DEF Positions

-----------------------------------------------------------------------------
(* Types                                                                   *)

\* What holding the turns of an epoch leaves in the queue is well typed.
LEMMA HoldTypes ==
  ASSUME TypeInv, NEW turns \in SUBSET Ops, HoldEpochTurnsForReview(turns)
  PROVE  /\ queued' \subseteq Rows
         /\ pos' \in [Rows -> Int]
         /\ held' \in [Rows -> BOOLEAN]
         /\ resv' \in [Rows -> Ops \cup {NoOp}]
         /\ \A o \in Ops \cap queued' : owner[o] \in Msgs
<1>1. Drafts(turns) \subseteq Ops /\ \A o \in Drafts(turns) : owner[o] \in Msgs
  BY DEF Drafts
<1>2. \A r \in Rows :
        Cardinality({p \in Drafts(turns) : p = r \/ GivenBackBefore(p, r)}) \in Nat
  BY <1>1, CardinalityOfPart DEF Rows
<1>3. PICK low \in Positions :
        pos' = [r \in Rows |->
                  IF r \in Drafts(turns)
                  THEN low - Cardinality({p \in Drafts(turns) : p = r \/ GivenBackBefore(p, r)})
                  ELSE pos[r]]
  BY DEF HoldEpochTurnsForReview
<1>4. low \in Int
  BY PositionsAreIntegers
<1>5. pos' \in [Rows -> Int]
  BY <1>2, <1>3, <1>4 DEF TypeInv, TypeOK
<1>6. QED
  BY <1>1, <1>5 DEF HoldEpochTurnsForReview, TypeInv, TypeOK, DraftsHaveOwners, Rows

\* A settlement keeps the operation columns and the queue well typed.
LEMMA SettleTypes ==
  ASSUME TypeInv, NEW o \in Ops, NEW s \in Settlement, Settle(o, s)
  PROVE  /\ state' \in [Ops -> OperationState]
         /\ interrupted' \subseteq Ops
         /\ UNCHANGED <<kind, ordinal, owner, pos, held>>
         /\ queued' \subseteq queued
         /\ resv' \in [Rows -> Ops \cup {NoOp}]
  BY DEF Settle, SettleOperation, ConfirmQueueReservation, ReleaseQueueReservation,
         TransitionOperation, TypeInv, TypeOK, OperationState, Blocking, Terminal,
         Settlement, queueVars

\* Every column and every ghost variable keeps its domain.
LEMMA TypeStep == TypeInv /\ [Next]_vars => TypeInv'
<1> SUFFICES ASSUME TypeInv, [Next]_vars
             PROVE  TypeInv'
  OBVIOUS
<1> USE DEF TypeInv, TypeOK, DraftsHaveOwners
<1>1. ASSUME NEW o \in Ops, NEW m \in Msgs, PrepareTurn(o, m)
      PROVE  TypeInv'
  BY <1>1, CardinalityOfPart
  DEF PrepareTurn, InsertPreparedOperation, OperationState, Blocking, Rows,
      queueVars, epochVars, runtimeVars
<1>2. ASSUME NEW m \in Msgs, Enqueue(m)
      PROVE  TypeInv'
  BY <1>2, OpsAssumption, PositionsAreIntegers
  DEF Enqueue, Rows, opVars, epochVars, runtimeVars
<1>3. ASSUME NEW r \in Rows, QueueEdit(r) \/ QueueRemove(r)
      PROVE  TypeInv'
  <2>1. RowMsg(r) \in Msgs
    BY <1>3 DEF QueueEdit, QueueRemove, RowMsg, Rows
  <2>2. QED
    BY <1>3, <2>1 DEF QueueEdit, QueueRemove, opVars, epochVars, runtimeVars
<1>4. ASSUME QueueReorder
      PROVE  TypeInv'
  BY <1>4, CardinalityOfPart
  DEF QueueReorder, opVars, epochVars, runtimeVars, historyVars
<1>5. ASSUME NEW o \in Ops, NEW k \in Kinds, PrepareOther(o, k)
      PROVE  TypeInv'
  BY <1>5, OpsAssumption, CardinalityOfPart
  DEF PrepareOther, InsertPreparedOperation, OperationState, Blocking,
      queueVars, epochVars, runtimeVars, historyVars
<1>6. ASSUME NEW o \in Ops, NEW r \in Rows, ReserveQueueHead(o, r)
      PROVE  TypeInv'
  <2>1. RowMsg(r) \in Msgs
    BY <1>6 DEF ReserveQueueHead, IsHead, RowMsg, Rows
  <2>2. QED
    BY <1>6, <2>1, CardinalityOfPart
    DEF ReserveQueueHead, InsertPreparedOperation, OperationState, Blocking,
        epochVars, runtimeVars
<1>7. ASSUME NEW o \in Ops, ClaimOperation(o) \/ ReplayUnknownOperation(o)
      PROVE  TypeInv'
  BY <1>7
  DEF ClaimOperation, ReplayUnknownOperation, OperationState, Blocking,
      queueVars, epochVars, historyVars
<1>8. ASSUME NEW o \in Ops, CallRuntime(o) \/ RuntimeActs(o)
      PROVE  TypeInv'
  BY <1>8 DEF CallRuntime, RuntimeActs, opVars, queueVars, epochVars, historyVars
<1>9. ASSUME NEW o \in Ops, ExecutorSettles(o)
      PROVE  TypeInv'
  <2>1. PICK s \in Answers(o) :
          Settle(o, s) \/ (state[o] \notin SettlesFrom(s) /\ UNCHANGED <<opVars, queueVars>>)
    BY <1>9 DEF ExecutorSettles
  <2>2. s \in Settlement
    BY DEF Answers, Settlement
  <2>3. CASE Settle(o, s)
    BY <1>9, <2>2, <2>3, SettleTypes DEF ExecutorSettles, epochVars, runtimeVars, historyVars
  <2>4. CASE UNCHANGED <<opVars, queueVars>>
    BY <1>9, <2>4 DEF ExecutorSettles, opVars, queueVars, epochVars, runtimeVars, historyVars
  <2>5. QED
    BY <2>1, <2>3, <2>4
<1>10. ASSUME NEW o \in Ops, EvidenceSettles(o)
       PROVE  TypeInv'
  <2>1. PICK s \in Settlement : Settle(o, s)
    BY <1>10 DEF EvidenceSettles, Settlement
  <2>2. QED
    BY <1>10, <2>1, SettleTypes DEF EvidenceSettles, epochVars, runtimeVars, historyVars
<1>11. ASSUME RecoverRestartInterruptedTurns
       PROVE  TypeInv'
  BY <1>11 DEF RecoverRestartInterruptedTurns, Stranded, opVars, runtimeVars, historyVars
<1>12. ASSUME NEW reset \in Ops, NEW proof \in Backends, ReplaceFencedEpoch(reset, proof)
       PROVE  TypeInv'
  <2>1. GivenBack(reset) \subseteq Ops
    BY DEF GivenBack, Retired, Uncertain, Older
  <2>2. HoldEpochTurnsForReview(GivenBack(reset))
    BY <1>12 DEF ReplaceFencedEpoch
  <2>3. QED
    BY <1>12, <2>1, <2>2, HoldTypes
    DEF ReplaceFencedEpoch, OperationState, Terminal, Backends, runtimeVars, historyVars
<1>13. ASSUME NEW reset \in Ops, ReplaceUnfencedEpoch(reset)
       PROVE  TypeInv'
  BY <1>13
  DEF ReplaceUnfencedEpoch, OperationState, Blocking, Terminal, Backends,
      queueVars, runtimeVars, historyVars
<1>14. ASSUME NEW b \in Backends, BackendReleased(b)
       PROVE  TypeInv'
  BY <1>14 DEF BackendReleased, opVars, queueVars, epochVars, historyVars
<1>15. ASSUME Restart
       PROVE  TypeInv'
  BY <1>15 DEF Restart, OperationState, Blocking, queueVars, epochVars, runtimeVars, historyVars
<1>16. CASE UNCHANGED vars
  BY <1>16 DEF vars
<1>17. QED
  BY <1>1, <1>2, <1>3, <1>4, <1>5, <1>6, <1>7, <1>8, <1>9, <1>10, <1>11, <1>12, <1>13,
     <1>14, <1>15, <1>16
  DEF Next, ClientNext, ServerNext, EnvironmentNext

\* The initial state is well typed.
LEMMA TypeInit == Init => TypeInv
  BY OpsAssumption
  DEF Init, TypeInv, TypeOK, DraftsHaveOwners, OperationState, Blocking, Terminal, Backends

\* The tables of a session stay well formed for any operations and messages.
THEOREM TypeCorrect == Spec => []TypeOK
<1>1. TypeInv => TypeOK
  BY DEF TypeInv
<1>2. QED
  BY <1>1, TypeInit, TypeStep, PTL DEF Spec

=============================================================================
