----------------------- MODULE RequestResponsesProofs -----------------------
(***************************************************************************)
(* Type correctness and the safety invariants of RequestResponses, for any *)
(* number of requests, repliers, operations and answers.                   *)
(***************************************************************************)
EXTENDS RequestResponses, TLAPS

Sending == {"call", "calling"}

\* A row and its call: the call carries the answer that was chosen.
RowOf(o) ==
  /\ state[o] = "absent" => fate[o] = "none"
  /\ state[o] # "absent" => about[o] \in asked /\ chosen[o] \in Answers
  /\ state[o] = "prepared" => fate[o] = "none"
  /\ fate[o] # "none" => sent[o] = chosen[o]

RowInv == \A o \in Ops : RowOf(o)

\* A request with an intent has its operation; while the request is open, that
\* operation still owns its outcome.
IntentOf(r) ==
  intent[r] # NoOp =>
    /\ state[intent[r]] # "absent" /\ about[intent[r]] = r
    /\ Open(r) => state[intent[r]] \in Blocking

IntentInv == \A r \in Requests : IntentOf(r)

\* A replier works on the request and with the answer its row names.
WorkOf(c) ==
  /\ pc[c] \notin {"out", "dismissing", "done"} => req[c] \in asked
  /\ pc[c] \in {"choose", "claim"} \cup Sending => answer[c] \in Answers
  /\ pc[c] \in {"claim"} \cup Sending =>
       /\ op[c] \in Ops /\ state[op[c]] # "absent"
       /\ about[op[c]] = req[c] /\ chosen[op[c]] = answer[c]

WorkInv == \A c \in Repliers : WorkOf(c)

\* Who sends owns the row: it stays the intent of its request, and is no
\* longer executing only when an epoch has closed the request meanwhile.
SendOf(c) ==
  pc[c] \in Sending =>
    /\ state[op[c]] # "prepared"
    /\ intent[req[c]] = op[c]
    /\ state[op[c]] = "executing" \/ ~Open(req[c])
    /\ pc[c] = "call" => fate[op[c]] = "none"

OneSender ==
  \A c, d \in Repliers : pc[c] \in Sending /\ pc[d] \in Sending /\ op[c] = op[d] => c = d

SendInv == OneSender /\ \A c \in Repliers : SendOf(c)

\* A reply that may still take effect holds its request.
LiveOf(o) == MayTakeEffect(o) => intent[about[o]] = o

LiveInv == \A o \in Ops : LiveOf(o)

\* The backend can hear no reply of this session any more, and heard none.
Deaf(r) == native[r] \in {"gone", "elsewhere"}

\* What the backend did, and what the log says of it.
AppliedTo(r) == \E o \in Ops : about[o] = r /\ fate[o] = "applied"

NativeOf(r) ==
  /\ r \notin asked => resolved[r] = NoAnswer /\ expired[r] = {} /\ native[r] = "none"
  /\ r \in asked => native[r] # "none"
  /\ native[r] \in Answers => AppliedTo(r)
  /\ resolved[r] # NoAnswer => native[r] = resolved[r]
  /\ "missing" \in expired[r] => Deaf(r)
  /\ r \in moved => r \in asked /\ ~Open(r)

NativeInv == \A r \in Requests : NativeOf(r)

\* An applied reply is the backend's answer; a missing one told the truth.
EffectOf(o) ==
  /\ fate[o] = "applied" => native[about[o]] = chosen[o]
  /\ fate[o] = "missing" /\ Open(about[o]) => Deaf(about[o])

EffectInv == \A o \in Ops : EffectOf(o)

\* Who expires an open request was told the truth about it.
ToldOf(c) == pc[c] = "missing" /\ Open(req[c]) => Deaf(req[c])

ToldInv == \A c \in Repliers : ToldOf(c)

\* With proof, nothing is applied any more, neither between the reset and its
\* publication nor to a request the epoch closed.
ResetInv ==
  fence => /\ reset
           /\ \A r \in Requests : native[r] # "waiting"
           /\ \A o \in Ops \ older : fate[o] # "applied"

OverOf(r, o) ==
  "fenced" \in expired[r] /\ about[o] = r => state[o] \in Terminal \/ fate[o] # "applied"

FencedOf(r) == "fenced" \in expired[r] => native[r] # "waiting" /\ resolved[r] = NoAnswer

FenceInv ==
  /\ ResetInv
  /\ \A r \in Requests : FencedOf(r) /\ \A o \in Ops : OverOf(r, o)

ResponseInv ==
  /\ TypeOK /\ RowInv /\ IntentInv /\ WorkInv /\ SendInv /\ LiveInv
  /\ NativeInv /\ EffectInv /\ ToldInv /\ FenceInv

-----------------------------------------------------------------------------
(* Type correctness                                                        *)

LEMMA TypeInit == Init => TypeOK
<1> SUFFICES ASSUME Init
             PROVE  TypeOK
  OBVIOUS
<1> USE ResponsesAssumption DEF Init
<1>1. RowType
  BY DEF RowType, OperationState
<1>2. LogType
  BY DEF LogType
<1>3. ReplierType
  BY DEF ReplierType
<1>4. EpochType
  BY DEF EpochType
<1>5. RuntimeType
  BY DEF RuntimeType
<1>6. QED
  BY <1>1, <1>2, <1>3, <1>4, <1>5 DEF TypeOK

\* A replier that moves on leaves its own variables and its lock typed.
LEMMA ReplierMoves ==
  ASSUME ReplierType, NEW c \in Repliers, NEW to,
         to \in {"mirror", "choose", "claim", "call", "calling", "applied", "missing",
                 "close card", "dismissing"}
  PROVE  /\ GoTo(c, to) => ReplierType'
         /\ Leave(c) => ReplierType'
         /\ Fail(c) => ReplierType'
         /\ \A o \in Ops : CarryOn(c, o) => ReplierType'
         /\ \A r \in Requests : Enter(c, r, to) /\ UNCHANGED answer => ReplierType'
         /\ \A r \in Requests, a \in Answers :
              Enter(c, r, to) /\ answer' = [answer EXCEPT ![c] = a] => ReplierType'
<1> USE DEF ReplierType
<1>1. GoTo(c, to) => ReplierType'
  BY DEF GoTo
<1>2. Leave(c) => ReplierType'
  <2>1. Leave(c) => lock' \in [{"child", "parent"} -> Repliers \cup {Nobody, Recovery}]
    BY DEF Leave
  <2>2. Leave(c) => /\ req' \in [Repliers -> Requests \cup {NoRequest}]
                    /\ answer' \in [Repliers -> Answers \cup {NoAnswer}]
                    /\ op' \in [Repliers -> Ops \cup {NoOp}]
    BY DEF Leave
  <2>3. QED
    BY <2>1, <2>2 DEF Leave
<1>3. Fail(c) => ReplierType'
  <2>1. GoTo(c, "mirror") => ReplierType'
    BY DEF GoTo
  <2>2. QED
    BY <1>2, <2>1 DEF Fail
<1>4. ASSUME NEW o \in Ops, CarryOn(c, o)
      PROVE  ReplierType'
  BY <1>4 DEF CarryOn
<1>5. ASSUME NEW r \in Requests, Enter(c, r, to), UNCHANGED answer
      PROVE  ReplierType'
  BY <1>5 DEF Enter
<1>6. ASSUME NEW r \in Requests, NEW a \in Answers,
             Enter(c, r, to), answer' = [answer EXCEPT ![c] = a]
      PROVE  ReplierType'
  BY <1>6 DEF Enter
<1>7. QED
  BY <1>1, <1>2, <1>3, <1>4, <1>5, <1>6

LEMMA SettlementTypes ==
  ASSUME RowType, LogType, NEW o, NEW s \in Settlement, NEW a \in Answers \cup {NoAnswer},
         SettleResponseIntent(o, s, a), UNCHANGED <<asked, expired, card>>
  PROVE  RowType' /\ LogType'
<1>1. RowType'
  BY DEF RowType, SettleResponseIntent, OperationState, Blocking, Terminal, Settlement
<1>2. LogType'
  BY DEF LogType, SettleResponseIntent
<1>3. QED
  BY <1>1, <1>2

\* A replier that works has a request, and a pending call an answer: without
\* the two facts the types are not inductive.
LEMMA TypeStep == TypeOK /\ RowInv /\ WorkInv /\ [Next]_vars => TypeOK'
<1> SUFFICES ASSUME TypeOK, RowInv, WorkInv, [Next]_vars
             PROVE  TypeOK'
  OBVIOUS
<1>0. RowType /\ LogType /\ ReplierType /\ EpochType /\ RuntimeType
  BY DEF TypeOK
<1>frame. /\ opVars' = opVars => RowType'
          /\ logVars' = logVars => LogType'
          /\ lock' = lock /\ replierVars' = replierVars => ReplierType'
          /\ epochVars' = epochVars => EpochType'
          /\ runtimeVars' = runtimeVars => RuntimeType'
  <2>1. opVars' = opVars => RowType'
    BY <1>0 DEF RowType, opVars
  <2>2. logVars' = logVars => LogType'
    BY <1>0 DEF LogType, logVars
  <2>3. lock' = lock /\ replierVars' = replierVars => ReplierType'
    BY <1>0 DEF ReplierType, replierVars
  <2>4. epochVars' = epochVars => EpochType'
    BY <1>0 DEF EpochType, epochVars
  <2>5. runtimeVars' = runtimeVars => RuntimeType'
    BY <1>0 DEF RuntimeType, runtimeVars
  <2>6. QED
    BY <2>1, <2>2, <2>3, <2>4, <2>5
<1>moves. ASSUME NEW c \in Repliers
      PROVE  /\ Leave(c) \/ Fail(c) => ReplierType'
             /\ \A o \in Ops : CarryOn(c, o) => ReplierType'
             /\ \A to \in {"call", "calling", "applied", "missing", "close card"} :
                  GoTo(c, to) => ReplierType'
  <2>1. /\ Leave(c) \/ Fail(c) => ReplierType'
        /\ \A o \in Ops : CarryOn(c, o) => ReplierType'
    BY <1>0, ReplierMoves
  <2>2. \A to \in {"call", "calling", "applied", "missing", "close card"} :
          GoTo(c, to) => ReplierType'
    BY <1>0, ReplierMoves
  <2>3. QED
    BY <2>1, <2>2
<1>1. ASSUME NEW c \in Repliers, NEW r \in Requests, Ask(c, r)
      PROVE  TypeOK'
  <2>1. ReplierType'
    <3>1. CASE Enter(c, r, "mirror") /\ UNCHANGED answer
      BY <1>0, <3>1, ReplierMoves
    <3>2. ASSUME NEW a \in Answers, Enter(c, r, "choose"), answer' = [answer EXCEPT ![c] = a]
          PROVE  ReplierType'
      BY <1>0, <3>2, ReplierMoves
    <3>3. QED
      BY <1>1, <3>1, <3>2 DEF Ask
  <2>2. LogType'
    BY <1>0, <1>1 DEF Ask, LogType
  <2>3. RuntimeType'
    BY <1>0, <1>1 DEF Ask, RuntimeType
  <2>4. QED
    BY <1>frame, <1>1, <2>1, <2>2, <2>3 DEF Ask, TypeOK
<1>2. ASSUME NEW c \in Repliers, NEW r \in Requests, NEW a \in Answers, Reply(c, r, a)
      PROVE  TypeOK'
  <2>1. ReplierType'
    BY <1>0, <1>2, ReplierMoves DEF Reply
  <2>2. QED
    BY <1>frame, <1>2, <2>1 DEF Reply, TypeOK
<1>3. ASSUME NEW c \in Repliers,
             Mirror(c) \/ ExpireMissing(c) \/ Applied(c) \/ CloseParentRequestMirror(c)
      PROVE  TypeOK'
  <2>1. ReplierType'
    BY <1>moves, <1>3 DEF Mirror, ExpireMissing, Applied, CloseParentRequestMirror
  <2>2. LogType'
    <3>1. CASE Mirror(c) \/ CloseParentRequestMirror(c)
      BY <1>0, <3>1 DEF Mirror, CloseParentRequestMirror, CardClosed, LogType
    <3>2. CASE ExpireMissing(c)
      <4>1. expired' \in [Requests -> SUBSET {"missing", "replaced", "fenced"}]
        BY <1>0, <3>2 DEF ExpireMissing, LogType
      <4>2. QED
        BY <1>0, <3>2, <4>1 DEF ExpireMissing, LogType
    <3>3. QED
      BY <1>frame, <1>3, <3>1, <3>2 DEF Applied
  <2>3. QED
    BY <1>frame, <1>3, <2>1, <2>2
       DEF Mirror, ExpireMissing, Applied, CloseParentRequestMirror, TypeOK
<1>4. ASSUME NEW c \in Repliers, FindChosen(c) \/ \E o \in Ops : Choose(c, o)
      PROVE  TypeOK'
  <2>1. ReplierType'
    <3>1. ASSUME NEW o \in Ops, CarryOn(c, o)
          PROVE  ReplierType'
      BY <1>moves, <3>1
    <3>2. CASE \E o \in Ops : Choose(c, o)
      BY <3>1, <3>2 DEF Choose
    <3>3. CASE FindChosen(c)
      <4>1. intent[req[c]] \in Ops \cup {NoOp}
        BY <1>0, <3>3 DEF FindChosen, RowType, LogType, WorkInv, WorkOf
      <4>2. QED
        BY <1>moves, <3>3, <4>1 DEF FindChosen
    <3>4. QED
      BY <1>4, <3>2, <3>3
  <2>2. RowType'
    <3>1. ASSUME NEW o \in Ops, Choose(c, o)
          PROVE  RowType'
      <4>1. req[c] \in Requests \cup {NoRequest} /\ answer[c] \in Answers \cup {NoAnswer}
        BY <1>0 DEF ReplierType
      <4>2. QED
        BY <1>0, <3>1, <4>1 DEF Choose, RowType, OperationState, Blocking
    <3>2. QED
      BY <1>frame, <1>4, <3>1 DEF FindChosen
  <2>3. QED
    BY <1>frame, <1>4, <2>1, <2>2 DEF FindChosen, Choose, TypeOK
<1>5. ASSUME NEW c \in Repliers, Claim(c) \/ Call(c)
      PROVE  TypeOK'
  <2>1. ReplierType'
    BY <1>moves, <1>5 DEF Claim, Call
  <2>2. RowType'
    BY <1>0, <1>5 DEF Claim, Call, opVars, RowType, OperationState, Blocking
  <2>3. RuntimeType'
    BY <1>0, <1>5 DEF Claim, Call, runtimeVars, RuntimeType, ReplierType
  <2>4. QED
    BY <1>frame, <1>5, <2>1, <2>2, <2>3 DEF Claim, Call, TypeOK
<1>6. ASSUME NEW c \in Repliers, Settle(c)
      PROVE  TypeOK'
  <2>1. ReplierType'
    BY <1>moves, <1>6 DEF Settle
  <2>2. RowType' /\ LogType'
    <3>1. CASE UNCHANGED <<opVars, resolved>>
      BY <1>frame, <1>6, <3>1 DEF Settle, logVars
    <3>2. ASSUME NEW a \in Outcomes(op[c]), SettleResponseIntent(op[c], SettledAs(a), answer[c])
          PROVE  RowType' /\ LogType'
      <4>1. SettledAs(a) \in Settlement
        BY DEF SettledAs, Settlement
      <4>2. answer[c] \in Answers \cup {NoAnswer} /\ UNCHANGED <<asked, expired, card>>
        BY <1>0, <1>6 DEF ReplierType, Settle
      <4>3. QED
        BY <1>0, <3>2, <4>1, <4>2, SettlementTypes
    <3>3. QED
      BY <1>6, <3>1, <3>2 DEF Settle
  <2>3. QED
    BY <1>frame, <1>6, <2>1, <2>2 DEF Settle, TypeOK
<1>7. ASSUME NEW r \in Requests, Cancel(r)
      PROVE  TypeOK'
  <2>1. RuntimeType'
    BY <1>0, <1>7 DEF Cancel, RuntimeType
  <2>2. QED
    BY <1>frame, <1>7, <2>1 DEF Cancel, TypeOK
<1>d. ASSUME NEW c \in Repliers, DismissalReturns(c) \/ \E r \in Requests : DismissCard(c, r)
      PROVE  TypeOK'
  <2>1. ReplierType'
    BY <1>0, <1>moves, <1>d, ReplierMoves DEF DismissalReturns, DismissCard
  <2>2. LogType'
    BY <1>frame, <1>0, <1>d DEF DismissalReturns, DismissalSettled, CardClosed, DismissCard, LogType
  <2>3. RuntimeType'
    BY <1>0, <1>d DEF DismissalReturns, DismissalSettled, DismissCard, RuntimeType
  <2>4. QED
    BY <1>frame, <1>d, <2>1, <2>2, <2>3 DEF DismissalReturns, DismissCard, TypeOK
<1>p. ASSUME NEW r \in Requests, ParentRuntimeActs(r) \/ EvidenceOfDismissal(r)
      PROVE  TypeOK'
  <2>1. LogType'
    BY <1>frame, <1>0, <1>p DEF ParentRuntimeActs, EvidenceOfDismissal, CardClosed, LogType
  <2>2. RuntimeType'
    BY <1>0, <1>p DEF ParentRuntimeActs, EvidenceOfDismissal, RuntimeType
  <2>3. QED
    BY <1>frame, <1>p, <2>1, <2>2 DEF ParentRuntimeActs, EvidenceOfDismissal, TypeOK
<1>8. ASSUME NEW o \in Ops, RuntimeActs(o)
      PROVE  TypeOK'
  <2>1. RuntimeType'
    <3>1. native' \in [Requests -> Answers \cup {"none", "waiting", "gone", "elsewhere"}]
      <4>1. sent[o] \in Answers
        BY <1>0, <1>8 DEF RuntimeActs, RowInv, RowOf
      <4>2. QED
        BY <1>0, <1>8, <4>1 DEF RuntimeActs, RuntimeType
    <3>2. QED
      BY <1>0, <1>8, <3>1 DEF RuntimeActs, RuntimeType
  <2>2. QED
    BY <1>frame, <1>8, <2>1 DEF RuntimeActs, TypeOK
<1>9. ASSUME NEW o \in Ops, EvidenceSettles(o)
      PROVE  TypeOK'
  <2>1. chosen[o] \in Answers \cup {NoAnswer}
    BY <1>0 DEF RowType
  <2>2. RowType' /\ LogType'
    BY <1>0, <1>9, <2>1, SettlementTypes DEF EvidenceSettles, Settlement
  <2>3. QED
    BY <1>frame, <1>9, <2>2 DEF EvidenceSettles, TypeOK
<1>10. ASSUME NEW proof \in BOOLEAN, ConfirmReset(proof)
       PROVE  TypeOK'
  <2>1. ReplierType'
    BY <1>0, <1>10 DEF ConfirmReset, replierVars, ReplierType
  <2>2. EpochType'
    BY <1>0, <1>10 DEF ConfirmReset, Present, EpochType
  <2>3. RuntimeType'
    BY <1>0, <1>10 DEF ConfirmReset, RuntimeType
  <2>4. QED
    BY <1>frame, <1>10, <2>1, <2>2, <2>3 DEF ConfirmReset, TypeOK
<1>11. ASSUME TransitionRuntimeEpoch
       PROVE  TypeOK'
  <2>1. RowType'
    BY <1>0, <1>11
       DEF TransitionRuntimeEpoch, Replaced, RowType, OperationState, Blocking, Terminal
  <2>2. LogType'
    BY <1>0, <1>11 DEF TransitionRuntimeEpoch, LogType
  <2>3. ReplierType'
    BY <1>0, <1>11 DEF TransitionRuntimeEpoch, replierVars, ReplierType
  <2>4. EpochType'
    BY <1>11 DEF TransitionRuntimeEpoch, EpochType
  <2>5. RuntimeType'
    BY <1>0, <1>11 DEF TransitionRuntimeEpoch, RuntimeType, LogType
  <2>6. QED
    BY <2>1, <2>2, <2>3, <2>4, <2>5 DEF TypeOK
<1>12. ASSUME Crash
       PROVE  TypeOK'
  <2>1. RowType'
    BY <1>0, <1>12 DEF Crash, Recovered, RowType, OperationState, Blocking
  <2>2. ReplierType'
    BY <1>12 DEF Crash, ReplierType
  <2>3. logVars' = logVars /\ epochVars' = epochVars /\ runtimeVars' = runtimeVars
    BY <1>12 DEF Crash
  <2>4. QED
    BY <1>frame, <2>1, <2>2, <2>3 DEF TypeOK
<1>13. ASSUME UNCHANGED vars
       PROVE  TypeOK'
  BY <1>0, <1>13 DEF vars, TypeOK, RowType, LogType, ReplierType, EpochType, RuntimeType
<1>14. QED
  BY <1>1, <1>2, <1>3, <1>4, <1>5, <1>6, <1>7, <1>d, <1>p, <1>8, <1>9, <1>10, <1>11, <1>12, <1>13
     DEF Next, Step

-----------------------------------------------------------------------------
(* What a step can do to the rows, the events and the backend              *)

\* Only repliers, locks, cards and what the parent has of them move.
Quiet == UNCHANGED <<opVars, asked, resolved, expired, epochVars, native, moved, sent, fate>>

\* The backend stops waiting, of itself or because the parent rejected.
StopsWaiting(r) ==
  /\ native[r] = "waiting"
  /\ \E deaf \in {"gone", "elsewhere"} : native' = [native EXCEPT ![r] = deaf]
  /\ UNCHANGED <<opVars, logVars, epochVars, moved, sent, fate, pc, req, answer, op>>

\* An operation that owns its request is settled by what the backend did, and
\* nobody sends it any more.
Settled(o, s, a) ==
  /\ o \in Ops /\ s \in Settlement
  /\ SettleResponseIntent(o, s, a)
  /\ state[o] \in {"prepared", "executing", "unknown"}
  /\ s = "confirmed" => fate[o] = "applied" /\ a = chosen[o]
  /\ ~KeepsIntent(s) => fate[o] \notin {"applied", "pending"}
  /\ intent[about[o]] = o
  /\ \A d \in Repliers : pc[d] \in Sending /\ op[d] = o => pc'[d] \notin Sending
  /\ UNCHANGED <<asked, expired, epochVars, runtimeVars>>

LEMMA TableIsForward ==
  ASSUME NEW s \in Settlement
  PROVE  SettlesFrom(s) \subseteq {"prepared", "executing", "unknown"}
  BY DEF SettlesFrom, Settlement

\* A reply that returns is quiet, or settles the operation it carried on.
LEMMA SettleEffect ==
  ASSUME ResponseInv, NEW c \in Repliers, Settle(c)
  PROVE  \/ Quiet
         \/ \E s \in Settlement : Settled(op[c], s, answer[c])
<1>1. CASE UNCHANGED <<opVars, resolved>>
  BY <1>1 DEF Settle, Quiet, runtimeVars
<1>2. ASSUME NEW a \in Outcomes(op[c]), Accepts(op[c], SettledAs(a)),
             SettleResponseIntent(op[c], SettledAs(a), answer[c])
      PROVE  Settled(op[c], SettledAs(a), answer[c]) /\ SettledAs(a) \in Settlement
  <2>1. SettledAs(a) \in Settlement
    BY DEF SettledAs, Settlement
  <2>2. state[op[c]] \in {"prepared", "executing", "unknown"}
    BY <1>2, <2>1, TableIsForward DEF Accepts
  <2>3. op[c] \in Ops /\ answer[c] = chosen[op[c]]
    BY DEF Settle, ResponseInv, WorkInv, WorkOf, Sending
  <2>4. /\ SettledAs(a) = "confirmed" => fate[op[c]] = "applied"
        /\ ~KeepsIntent(SettledAs(a)) => fate[op[c]] \notin {"applied", "pending"}
    BY DEF SettledAs, KeepsIntent, Outcomes
  <2>5. pc[c] = "calling" /\ pc'[c] \notin Sending
    BY DEF Settle, GoTo, Fail, Leave, Sending, ResponseInv, TypeOK, ReplierType
  <2>6. \A d \in Repliers : pc[d] \in Sending /\ op[d] = op[c] => pc'[d] \notin Sending
    BY <2>5 DEF ResponseInv, SendInv, OneSender, Sending
  <2>7. QED
    BY <1>2, <2>1, <2>2, <2>3, <2>4, <2>6 DEF Settled, Settle, Accepts
<1>3. QED
  BY <1>1, <1>2 DEF Settle

LEMMA EvidenceEffect ==
  ASSUME ResponseInv, NEW o \in Ops, EvidenceSettles(o)
  PROVE  \E s \in Settlement : Settled(o, s, chosen[o])
<1>1. PICK s \in {"confirmed", "not-applied"} :
        /\ SettleResponseIntent(o, s, chosen[o])
        /\ s = "confirmed" => fate[o] = "applied"
        /\ s = "not-applied" => fate[o] \notin {"applied", "pending"}
  BY DEF EvidenceSettles
<1>2. \A d \in Repliers : pc[d] \in Sending => op[d] # o
  <2>1. state[o] = "unknown" /\ Open(about[o])
    BY DEF EvidenceSettles
  <2>2. QED
    BY <2>1 DEF ResponseInv, WorkInv, WorkOf, SendInv, SendOf
<1>3. intent[about[o]] = o
  BY <1>1 DEF SettleResponseIntent, Accepts
<1>4. Settled(o, s, chosen[o]) /\ s \in Settlement
  BY <1>1, <1>2, <1>3 DEF Settled, EvidenceSettles, KeepsIntent, Settlement
<1>5. QED
  BY <1>4

\* The rows, the events and the backend change in eleven ways only.
LEMMA StepCases ==
  ASSUME ResponseInv, [Next]_vars
  PROVE  \/ Quiet
         \/ \E a : \E o \in Ops, s \in Settlement : Settled(o, s, a)
         \/ \E c \in Repliers, r \in Requests : Ask(c, r)
         \/ \E c \in Repliers, o \in Ops : Choose(c, o)
         \/ \E c \in Repliers : Claim(c) \/ Call(c) \/ ExpireMissing(c)
         \/ \E r \in Requests : StopsWaiting(r)
         \/ \E o \in Ops : RuntimeActs(o)
         \/ \E proof \in BOOLEAN : ConfirmReset(proof)
         \/ TransitionRuntimeEpoch
         \/ Crash
<1>1. ASSUME NEW c \in Repliers,
             \/ Mirror(c) \/ FindChosen(c) \/ Applied(c) \/ CloseParentRequestMirror(c)
             \/ \E r \in Requests, a \in Answers : Reply(c, r, a)
      PROVE  Quiet
  BY <1>1
     DEF Mirror, FindChosen, Applied, CloseParentRequestMirror, Reply, Quiet, logVars, runtimeVars
<1>2. ASSUME NEW c \in Repliers, DismissalReturns(c) \/ \E r \in Requests : DismissCard(c, r)
      PROVE  Quiet
  BY <1>2 DEF DismissalReturns, DismissCard, Quiet, logVars
<1>p. ASSUME NEW r \in Requests, Cancel(r) \/ ParentRuntimeActs(r) \/ EvidenceOfDismissal(r)
      PROVE  Quiet \/ StopsWaiting(r)
  <2>1. CASE Cancel(r)
    BY <2>1 DEF Cancel, StopsWaiting, replierVars
  <2>2. CASE ParentRuntimeActs(r)
    BY <2>2 DEF ParentRuntimeActs, StopsWaiting, Quiet, logVars, replierVars
  <2>3. CASE EvidenceOfDismissal(r)
    BY <2>3 DEF EvidenceOfDismissal, Quiet
  <2>4. QED
    BY <1>p, <2>1, <2>2, <2>3
<1>3. ASSUME NEW c \in Repliers, Settle(c)
      PROVE  Quiet \/ \E a : \E o \in Ops, s \in Settlement : Settled(o, s, a)
  BY <1>3, SettleEffect DEF Settled
<1>4. ASSUME NEW o \in Ops, EvidenceSettles(o)
      PROVE  \E a : \E p \in Ops, s \in Settlement : Settled(p, s, a)
  BY <1>4, EvidenceEffect
<1>5. CASE UNCHANGED vars
  BY <1>5 DEF vars, Quiet, opVars, epochVars, runtimeVars
<1>6. QED
  BY <1>1, <1>2, <1>p, <1>3, <1>4, <1>5 DEF Next, Step

LEMMA RowInvStep == ResponseInv /\ [Next]_vars => RowInv'
<1> SUFFICES ASSUME ResponseInv, [Next]_vars, NEW p \in Ops
             PROVE  RowOf(p)'
  BY DEF RowInv
<1>0. RowOf(p)
  BY DEF ResponseInv, RowInv
<1>types. /\ state \in [Ops -> OperationState]
      /\ about \in [Ops -> Requests \cup {NoRequest}]
      /\ chosen \in [Ops -> Answers \cup {NoAnswer}]
      /\ sent \in [Ops -> Answers \cup {NoAnswer}]
      /\ fate \in [Ops -> {"none", "pending", "applied", "refused", "missing", "lost"}]
  BY DEF ResponseInv, TypeOK, RowType, RuntimeType
<1>w. \A c \in Repliers : WorkOf(c) /\ SendOf(c)
  BY DEF ResponseInv, WorkInv, SendInv
<1>1. ASSUME Quiet
      PROVE  RowOf(p)'
  BY <1>0, <1>types, <1>1 DEF RowOf, Quiet, opVars, epochVars, runtimeVars
<1>2. ASSUME NEW o \in Ops, NEW s \in Settlement, NEW a, Settled(o, s, a)
      PROVE  RowOf(p)'
  BY <1>0, <1>types, <1>2
     DEF RowOf, Settled, SettleResponseIntent, Accepts, KeepsIntent, Settlement,
         epochVars, runtimeVars
<1>3. ASSUME NEW c \in Repliers, NEW r \in Requests, Ask(c, r)
      PROVE  RowOf(p)'
  BY <1>0, <1>types, <1>3 DEF RowOf, Ask, opVars, epochVars
<1>4. ASSUME NEW c \in Repliers, NEW o \in Ops, Choose(c, o)
      PROVE  RowOf(p)'
  BY <1>0, <1>types, <1>4, <1>w
     DEF RowOf, Choose, logVars, epochVars, runtimeVars, WorkOf
<1>5. ASSUME NEW c \in Repliers, Claim(c)
      PROVE  RowOf(p)'
  BY <1>0, <1>types, <1>5 DEF RowOf, Claim, logVars, epochVars, runtimeVars
<1>6. ASSUME NEW c \in Repliers, Call(c)
      PROVE  RowOf(p)'
  BY <1>0, <1>types, <1>6, <1>w
     DEF RowOf, Call, opVars, logVars, epochVars, WorkOf, SendOf, Sending
<1>7. ASSUME NEW c \in Repliers, ExpireMissing(c)
      PROVE  RowOf(p)'
  BY <1>0, <1>types, <1>7 DEF RowOf, ExpireMissing, opVars, epochVars, runtimeVars
<1>8. ASSUME NEW r \in Requests, StopsWaiting(r)
      PROVE  RowOf(p)'
  BY <1>0, <1>types, <1>8 DEF RowOf, StopsWaiting, opVars, logVars, epochVars
<1>9. ASSUME NEW o \in Ops, RuntimeActs(o)
      PROVE  RowOf(p)'
  BY <1>0, <1>types, <1>9 DEF RowOf, RuntimeActs, opVars, logVars, epochVars
<1>10. ASSUME NEW proof \in BOOLEAN, ConfirmReset(proof)
      PROVE  RowOf(p)'
  BY <1>0, <1>types, <1>10 DEF RowOf, ConfirmReset, Present, opVars, logVars
<1>11. ASSUME TransitionRuntimeEpoch
      PROVE  RowOf(p)'
  BY <1>0, <1>types, <1>11 DEF RowOf, TransitionRuntimeEpoch, Replaced, EpochExpires
<1>12. ASSUME Crash
      PROVE  RowOf(p)'
  BY <1>0, <1>types, <1>12 DEF RowOf, Crash, Recovered, logVars, epochVars, runtimeVars
<1>13. QED
  BY <1>1, <1>2, <1>3, <1>4, <1>5, <1>6, <1>7, <1>8, <1>9, <1>10, <1>11, <1>12, StepCases

LEMMA IntentInvStep == ResponseInv /\ [Next]_vars => IntentInv'
<1> SUFFICES ASSUME ResponseInv, [Next]_vars, NEW q \in Requests
             PROVE  IntentOf(q)'
  BY DEF IntentInv
<1>0. IntentOf(q)
  BY DEF ResponseInv, IntentInv
<1>types. /\ state \in [Ops -> OperationState]
      /\ about \in [Ops -> Requests \cup {NoRequest}]
      /\ intent \in [Requests -> Ops \cup {NoOp}]
      /\ asked \subseteq Requests
      /\ resolved \in [Requests -> Answers \cup {NoAnswer}]
      /\ expired \in [Requests -> SUBSET {"missing", "replaced", "fenced"}]
  BY DEF ResponseInv, TypeOK, LogType, RowType
<1>w. \A c \in Repliers : WorkOf(c)
  BY DEF ResponseInv, WorkInv
<1>rows. \A o \in Ops : state[o] # "absent" => about[o] \in asked /\ chosen[o] \in Answers
  BY DEF ResponseInv, RowInv, RowOf
<1>1. ASSUME Quiet
      PROVE  IntentOf(q)'
  BY <1>0, <1>types, <1>1
     DEF IntentOf, Open, Blocking, Quiet, opVars, epochVars, runtimeVars
<1>2. ASSUME NEW o \in Ops, NEW s \in Settlement, NEW a, Settled(o, s, a)
      PROVE  IntentOf(q)'
  BY <1>0, <1>types, <1>2, <1>rows, ResponsesAssumption
     DEF IntentOf, Open, Blocking, Settled, SettleResponseIntent, Accepts, KeepsIntent,
         Settlement, epochVars, runtimeVars
<1>3. ASSUME NEW c \in Repliers, NEW r \in Requests, Ask(c, r)
      PROVE  IntentOf(q)'
  BY <1>0, <1>types, <1>3, <1>rows DEF IntentOf, Open, Blocking, Ask, opVars, epochVars
<1>4. ASSUME NEW c \in Repliers, NEW o \in Ops, Choose(c, o)
      PROVE  IntentOf(q)'
  BY <1>0, <1>types, <1>4, <1>w
     DEF IntentOf, Open, Blocking, Choose, logVars, epochVars, runtimeVars, WorkOf
<1>5. ASSUME NEW c \in Repliers, Claim(c)
      PROVE  IntentOf(q)'
  BY <1>0, <1>types, <1>5
     DEF IntentOf, Open, Blocking, Claim, logVars, epochVars, runtimeVars
<1>6. ASSUME NEW c \in Repliers, Call(c)
      PROVE  IntentOf(q)'
  BY <1>0, <1>types, <1>6 DEF IntentOf, Open, Blocking, Call, opVars, logVars, epochVars
<1>7. ASSUME NEW c \in Repliers, ExpireMissing(c)
      PROVE  IntentOf(q)'
  BY <1>0, <1>types, <1>7
     DEF IntentOf, Open, Blocking, ExpireMissing, opVars, epochVars, runtimeVars
<1>8. ASSUME NEW r \in Requests, StopsWaiting(r)
      PROVE  IntentOf(q)'
  BY <1>0, <1>types, <1>8
     DEF IntentOf, Open, Blocking, StopsWaiting, opVars, logVars, epochVars
<1>9. ASSUME NEW o \in Ops, RuntimeActs(o)
      PROVE  IntentOf(q)'
  BY <1>0, <1>types, <1>9
     DEF IntentOf, Open, Blocking, RuntimeActs, opVars, logVars, epochVars
<1>10. ASSUME NEW proof \in BOOLEAN, ConfirmReset(proof)
      PROVE  IntentOf(q)'
  BY <1>0, <1>types, <1>10
     DEF IntentOf, Open, Blocking, ConfirmReset, Present, opVars, logVars
<1>11. ASSUME TransitionRuntimeEpoch
      PROVE  IntentOf(q)'
  BY <1>0, <1>types, <1>11
     DEF IntentOf, Open, Blocking, TransitionRuntimeEpoch, Replaced, EpochExpires
<1>12. ASSUME Crash
      PROVE  IntentOf(q)'
  BY <1>0, <1>types, <1>12
     DEF IntentOf, Open, Blocking, Crash, Recovered, logVars, epochVars, runtimeVars
<1>13. QED
  BY <1>1, <1>2, <1>3, <1>4, <1>5, <1>6, <1>7, <1>8, <1>9, <1>10, <1>11, <1>12, StepCases

LEMMA LiveInvStep == ResponseInv /\ [Next]_vars => LiveInv'
<1> SUFFICES ASSUME ResponseInv, [Next]_vars, NEW p \in Ops
             PROVE  LiveOf(p)'
  BY DEF LiveInv
<1>0. LiveOf(p)
  BY DEF ResponseInv, LiveInv
<1>types. /\ state \in [Ops -> OperationState]
      /\ about \in [Ops -> Requests \cup {NoRequest}]
      /\ intent \in [Requests -> Ops \cup {NoOp}]
      /\ fate \in [Ops -> {"none", "pending", "applied", "refused", "missing", "lost"}]
      /\ asked \subseteq Requests
  BY DEF ResponseInv, TypeOK, LogType, RowType, RuntimeType
<1>w. \A c \in Repliers : WorkOf(c) /\ SendOf(c)
  BY DEF ResponseInv, WorkInv, SendInv
<1>rows. RowOf(p)
  BY DEF ResponseInv, RowInv
<1>1. ASSUME Quiet
      PROVE  LiveOf(p)'
  BY <1>0, <1>types, <1>1
     DEF LiveOf, MayTakeEffect, Quiet, opVars, epochVars, runtimeVars
<1>2. ASSUME NEW o \in Ops, NEW s \in Settlement, NEW a, Settled(o, s, a)
      PROVE  LiveOf(p)'
  BY <1>0, <1>types, <1>2, <1>rows
     DEF LiveOf, MayTakeEffect, Settled, SettleResponseIntent, Accepts, KeepsIntent,
         Settlement, epochVars, runtimeVars, RowOf
<1>3. ASSUME NEW c \in Repliers, NEW r \in Requests, Ask(c, r)
      PROVE  LiveOf(p)'
  BY <1>0, <1>types, <1>3 DEF LiveOf, MayTakeEffect, Ask, opVars, epochVars
<1>4. ASSUME NEW c \in Repliers, NEW o \in Ops, Choose(c, o)
      PROVE  LiveOf(p)'
  BY <1>0, <1>types, <1>4, <1>w, <1>rows, ResponsesAssumption
     DEF LiveOf, MayTakeEffect, Choose, logVars, epochVars, runtimeVars, RowOf, WorkOf
<1>5. ASSUME NEW c \in Repliers, Claim(c)
      PROVE  LiveOf(p)'
  BY <1>0, <1>types, <1>5
     DEF LiveOf, MayTakeEffect, Claim, logVars, epochVars, runtimeVars
<1>6. ASSUME NEW c \in Repliers, Call(c)
      PROVE  LiveOf(p)'
  BY <1>0, <1>types, <1>6, <1>w
     DEF LiveOf, MayTakeEffect, Call, opVars, logVars, epochVars, WorkOf, SendOf,
         Sending
<1>7. ASSUME NEW c \in Repliers, ExpireMissing(c)
      PROVE  LiveOf(p)'
  BY <1>0, <1>types, <1>7
     DEF LiveOf, MayTakeEffect, ExpireMissing, opVars, epochVars, runtimeVars
<1>8. ASSUME NEW r \in Requests, StopsWaiting(r)
      PROVE  LiveOf(p)'
  BY <1>0, <1>types, <1>8 DEF LiveOf, MayTakeEffect, StopsWaiting, opVars, logVars, epochVars
<1>9. ASSUME NEW o \in Ops, RuntimeActs(o)
      PROVE  LiveOf(p)'
  BY <1>0, <1>types, <1>9
     DEF LiveOf, MayTakeEffect, RuntimeActs, opVars, logVars, epochVars
<1>10. ASSUME NEW proof \in BOOLEAN, ConfirmReset(proof)
      PROVE  LiveOf(p)'
  BY <1>0, <1>types, <1>10
     DEF LiveOf, MayTakeEffect, ConfirmReset, Present, opVars, logVars
<1>11. ASSUME TransitionRuntimeEpoch
      PROVE  LiveOf(p)'
  BY <1>0, <1>types, <1>11
     DEF LiveOf, MayTakeEffect, TransitionRuntimeEpoch, Replaced, EpochExpires
<1>12. ASSUME Crash
      PROVE  LiveOf(p)'
  BY <1>0, <1>types, <1>12
     DEF LiveOf, MayTakeEffect, Crash, Recovered, logVars, epochVars, runtimeVars
<1>13. QED
  BY <1>1, <1>2, <1>3, <1>4, <1>5, <1>6, <1>7, <1>8, <1>9, <1>10, <1>11, <1>12, StepCases

LEMMA NativeInvStep == ResponseInv /\ [Next]_vars => NativeInv'
<1> SUFFICES ASSUME ResponseInv, [Next]_vars, NEW q \in Requests
             PROVE  NativeOf(q)'
  BY DEF NativeInv
<1> USE DEF Deaf
<1>0. NativeOf(q)
  BY DEF ResponseInv, NativeInv
<1>types. /\ about \in [Ops -> Requests \cup {NoRequest}]
      /\ asked \subseteq Requests
      /\ resolved \in [Requests -> Answers \cup {NoAnswer}]
      /\ expired \in [Requests -> SUBSET {"missing", "replaced", "fenced"}]
      /\ native \in [Requests -> Answers \cup {"none", "waiting", "gone", "elsewhere"}]
      /\ fate \in [Ops -> {"none", "pending", "applied", "refused", "missing", "lost"}]
  BY DEF ResponseInv, TypeOK, LogType, RowType, RuntimeType
<1>e. \A o \in Ops : RowOf(o) /\ EffectOf(o)
  BY DEF ResponseInv, RowInv, EffectInv
<1>w. \A c \in Repliers : ToldOf(c) /\ SendOf(c)
  BY DEF ResponseInv, ToldInv, SendInv
<1>1. ASSUME Quiet
      PROVE  NativeOf(q)'
  BY <1>0, <1>types, <1>1
     DEF NativeOf, AppliedTo, Open, Quiet, opVars, epochVars, runtimeVars
<1>2. ASSUME NEW o \in Ops, NEW s \in Settlement, NEW a, Settled(o, s, a)
      PROVE  NativeOf(q)'
  BY <1>0, <1>types, <1>2, <1>e, ResponsesAssumption
     DEF NativeOf, AppliedTo, Open, Settled, SettleResponseIntent, Accepts, KeepsIntent,
         Settlement, epochVars, runtimeVars, RowOf, EffectOf
<1>3. ASSUME NEW c \in Repliers, NEW r \in Requests, Ask(c, r)
      PROVE  NativeOf(q)'
  BY <1>0, <1>types, <1>3, ResponsesAssumption
     DEF NativeOf, AppliedTo, Open, Ask, opVars, epochVars
<1>4. ASSUME NEW c \in Repliers, NEW o \in Ops, Choose(c, o)
      PROVE  NativeOf(q)'
  BY <1>0, <1>types, <1>4, <1>e
     DEF NativeOf, AppliedTo, Open, Choose, logVars, epochVars, runtimeVars, RowOf
<1>5. ASSUME NEW c \in Repliers, Claim(c)
      PROVE  NativeOf(q)'
  BY <1>0, <1>types, <1>5
     DEF NativeOf, AppliedTo, Open, Claim, logVars, epochVars, runtimeVars
<1>6. ASSUME NEW c \in Repliers, Call(c)
      PROVE  NativeOf(q)'
  BY <1>0, <1>types, <1>6, <1>w
     DEF NativeOf, AppliedTo, Open, Call, opVars, logVars, epochVars, SendOf, Sending
<1>7. ASSUME NEW c \in Repliers, ExpireMissing(c)
      PROVE  NativeOf(q)'
  BY <1>0, <1>types, <1>7, <1>w
     DEF NativeOf, AppliedTo, Open, ExpireMissing, opVars, epochVars, runtimeVars,
         ToldOf
<1>8. ASSUME NEW r \in Requests, StopsWaiting(r)
      PROVE  NativeOf(q)'
  BY <1>0, <1>types, <1>8, ResponsesAssumption
     DEF NativeOf, AppliedTo, Open, StopsWaiting, opVars, logVars, epochVars
<1>9. ASSUME NEW o \in Ops, RuntimeActs(o)
      PROVE  NativeOf(q)'
  BY <1>0, <1>types, <1>9, <1>e, ResponsesAssumption
     DEF NativeOf, AppliedTo, Open, RuntimeActs, opVars, logVars, epochVars, RowOf
<1>10. ASSUME NEW proof \in BOOLEAN, ConfirmReset(proof)
      PROVE  NativeOf(q)'
  BY <1>0, <1>types, <1>10, ResponsesAssumption
     DEF NativeOf, AppliedTo, Open, ConfirmReset, Present, opVars, logVars
<1>11. ASSUME TransitionRuntimeEpoch
      PROVE  NativeOf(q)'
  BY <1>0, <1>types, <1>11
     DEF NativeOf, AppliedTo, Open, TransitionRuntimeEpoch, Replaced, EpochExpires
<1>12. ASSUME Crash
      PROVE  NativeOf(q)'
  BY <1>0, <1>types, <1>12
     DEF NativeOf, AppliedTo, Open, Crash, Recovered, logVars, epochVars, runtimeVars
<1>13. QED
  BY <1>1, <1>2, <1>3, <1>4, <1>5, <1>6, <1>7, <1>8, <1>9, <1>10, <1>11, <1>12, StepCases

LEMMA EffectInvStep == ResponseInv /\ [Next]_vars => EffectInv'
<1> SUFFICES ASSUME ResponseInv, [Next]_vars, NEW p \in Ops
             PROVE  EffectOf(p)'
  BY DEF EffectInv
<1> USE DEF Deaf
<1>0. EffectOf(p)
  BY DEF ResponseInv, EffectInv
<1>types. /\ state \in [Ops -> OperationState]
      /\ about \in [Ops -> Requests \cup {NoRequest}]
      /\ chosen \in [Ops -> Answers \cup {NoAnswer}]
      /\ asked \subseteq Requests
      /\ resolved \in [Requests -> Answers \cup {NoAnswer}]
      /\ expired \in [Requests -> SUBSET {"missing", "replaced", "fenced"}]
      /\ native \in [Requests -> Answers \cup {"none", "waiting", "gone", "elsewhere"}]
      /\ fate \in [Ops -> {"none", "pending", "applied", "refused", "missing", "lost"}]
      /\ moved \subseteq Requests
  BY DEF ResponseInv, TypeOK, LogType, RowType, RuntimeType
<1>rows. /\ \A o \in Ops : RowOf(o) /\ LiveOf(o)
      /\ \A r \in Requests : NativeOf(r)
      /\ \A c \in Repliers : WorkOf(c)
  BY DEF ResponseInv, RowInv, LiveInv, NativeInv, WorkInv
<1>1. ASSUME Quiet
      PROVE  EffectOf(p)'
  BY <1>0, <1>types, <1>1 DEF EffectOf, Open, Quiet, opVars, epochVars, runtimeVars
<1>2. ASSUME NEW o \in Ops, NEW s \in Settlement, NEW a, Settled(o, s, a)
      PROVE  EffectOf(p)'
  BY <1>0, <1>types, <1>2, <1>rows, ResponsesAssumption
     DEF EffectOf, Open, Settled, SettleResponseIntent, Accepts, KeepsIntent,
         Settlement, epochVars, runtimeVars, RowOf
<1>3. ASSUME NEW c \in Repliers, NEW r \in Requests, Ask(c, r)
      PROVE  EffectOf(p)'
  BY <1>0, <1>types, <1>3, <1>rows, ResponsesAssumption
     DEF EffectOf, Open, Ask, opVars, epochVars, RowOf, NativeOf
<1>4. ASSUME NEW c \in Repliers, NEW o \in Ops, Choose(c, o)
      PROVE  EffectOf(p)'
  BY <1>0, <1>types, <1>4, <1>rows
     DEF EffectOf, Open, Choose, logVars, epochVars, runtimeVars, RowOf
<1>5. ASSUME NEW c \in Repliers, Claim(c)
      PROVE  EffectOf(p)'
  BY <1>0, <1>types, <1>5 DEF EffectOf, Open, Claim, logVars, epochVars, runtimeVars
<1>6. ASSUME NEW c \in Repliers, Call(c)
      PROVE  EffectOf(p)'
  BY <1>0, <1>types, <1>6 DEF EffectOf, Open, Call, opVars, logVars, epochVars
<1>7. ASSUME NEW c \in Repliers, ExpireMissing(c)
      PROVE  EffectOf(p)'
  BY <1>0, <1>types, <1>7
     DEF EffectOf, Open, ExpireMissing, opVars, epochVars, runtimeVars
<1>8. ASSUME NEW r \in Requests, StopsWaiting(r)
      PROVE  EffectOf(p)'
  BY <1>0, <1>types, <1>8, <1>rows, ResponsesAssumption
     DEF EffectOf, Open, StopsWaiting, opVars, logVars, epochVars, RowOf
<1>9. ASSUME NEW o \in Ops, RuntimeActs(o)
      PROVE  EffectOf(p)'
  <2>1. fate[p] # "none" /\ native[about[p]] # "waiting" => native'[about[p]] = native[about[p]]
    BY <1>9, <1>types, <1>rows DEF RuntimeActs, RowOf
  <2>2. CASE o # p
    BY <1>0, <1>types, <1>rows, <1>9, <2>1, <2>2, ResponsesAssumption
       DEF EffectOf, RowOf, NativeOf, Open, RuntimeActs, opVars, logVars
  <2>3. CASE o = p
    <3>1. about[p] \in asked /\ sent[p] = chosen[p]
      BY <1>9, <1>rows, <2>3 DEF RuntimeActs, RowOf
    <3>2. native[about[p]] \notin Answers
      BY <1>9, <1>rows, <1>types, <2>3, <3>1
         DEF RuntimeActs, NativeOf, AppliedTo, LiveOf, MayTakeEffect
    <3>3. about[p] \in moved => ~Open(about[p])
      BY <1>rows, <3>1, <1>types DEF NativeOf
    <3>4. native[about[p]] \in {"waiting", "gone", "elsewhere"}
      BY <1>rows, <3>1, <3>2, <1>types DEF NativeOf
    <3>5. QED
      BY <1>types, <1>9, <2>1, <2>3, <3>1, <3>3, <3>4, ResponsesAssumption
         DEF EffectOf, Open, RuntimeActs, opVars, logVars
  <2>4. QED
    BY <2>2, <2>3
<1>10. ASSUME NEW proof \in BOOLEAN, ConfirmReset(proof)
      PROVE  EffectOf(p)'
  BY <1>0, <1>types, <1>10, <1>rows, ResponsesAssumption
     DEF EffectOf, Open, ConfirmReset, Present, opVars, logVars, RowOf
<1>11. ASSUME TransitionRuntimeEpoch
      PROVE  EffectOf(p)'
  BY <1>0, <1>types, <1>11
     DEF EffectOf, Open, TransitionRuntimeEpoch, Replaced, EpochExpires
<1>12. ASSUME Crash
      PROVE  EffectOf(p)'
  BY <1>0, <1>types, <1>12
     DEF EffectOf, Open, Crash, Recovered, logVars, epochVars, runtimeVars
<1>13. QED
  BY <1>1, <1>2, <1>3, <1>4, <1>5, <1>6, <1>7, <1>8, <1>9, <1>10, <1>11, <1>12, StepCases

\* After a reset with proof nothing is applied to what the old execution held.
LEMMA ResetStep == ResponseInv /\ [Next]_vars => ResetInv'
<1> SUFFICES ASSUME ResponseInv, [Next]_vars
             PROVE  ResetInv'
  OBVIOUS
<1>0. ResetInv
  BY DEF ResponseInv, FenceInv
<1>types. /\ about \in [Ops -> Requests \cup {NoRequest}]
      /\ native \in [Requests -> Answers \cup {"none", "waiting", "gone", "elsewhere"}]
      /\ fate \in [Ops -> {"none", "pending", "applied", "refused", "missing", "lost"}]
      /\ asked \subseteq Requests
  BY DEF ResponseInv, TypeOK, RowType, RuntimeType, LogType
<1>rows. \A o \in Ops : RowOf(o)
  BY DEF ResponseInv, RowInv
<1>1. ASSUME Quiet
      PROVE  ResetInv'
  BY <1>0, <1>types, <1>1 DEF ResetInv, Quiet, opVars, epochVars, runtimeVars
<1>2. ASSUME NEW o \in Ops, NEW s \in Settlement, NEW a, Settled(o, s, a)
      PROVE  ResetInv'
  BY <1>0, <1>types, <1>2
     DEF ResetInv, Settled, SettleResponseIntent, Accepts, KeepsIntent, Settlement,
         epochVars, runtimeVars
<1>3. ASSUME NEW c \in Repliers, NEW r \in Requests, Ask(c, r)
      PROVE  ResetInv'
  BY <1>0, <1>types, <1>3 DEF ResetInv, Ask, opVars, epochVars
<1>4. ASSUME NEW c \in Repliers, NEW o \in Ops, Choose(c, o)
      PROVE  ResetInv'
  BY <1>0, <1>types, <1>4 DEF ResetInv, Choose, logVars, epochVars, runtimeVars
<1>5. ASSUME NEW c \in Repliers, Claim(c)
      PROVE  ResetInv'
  BY <1>0, <1>types, <1>5 DEF ResetInv, Claim, logVars, epochVars, runtimeVars
<1>6. ASSUME NEW c \in Repliers, Call(c)
      PROVE  ResetInv'
  BY <1>0, <1>types, <1>6 DEF ResetInv, Call, opVars, logVars, epochVars
<1>7. ASSUME NEW c \in Repliers, ExpireMissing(c)
      PROVE  ResetInv'
  BY <1>0, <1>types, <1>7 DEF ResetInv, ExpireMissing, opVars, epochVars, runtimeVars
<1>8. ASSUME NEW r \in Requests, StopsWaiting(r)
      PROVE  ResetInv'
  BY <1>0, <1>types, <1>8 DEF ResetInv, StopsWaiting, opVars, logVars, epochVars
<1>9. ASSUME NEW o \in Ops, RuntimeActs(o)
      PROVE  ResetInv'
  BY <1>0, <1>types, <1>9, <1>rows
     DEF ResetInv, RuntimeActs, opVars, logVars, epochVars, RowOf
<1>10. ASSUME NEW proof \in BOOLEAN, ConfirmReset(proof)
      PROVE  ResetInv'
  <2>1. CASE ~proof
    BY <1>10, <2>1 DEF ResetInv, ConfirmReset
  <2>2. CASE proof /\ reset
    BY <1>0, <1>types, <1>10, <2>2 DEF ResetInv, ConfirmReset
  <2>3. CASE proof /\ ~reset
    BY <1>types, <1>10, <1>rows, <2>3 DEF ResetInv, ConfirmReset, Present, RowOf
  <2>4. QED
    BY <2>1, <2>2, <2>3
<1>11. ASSUME TransitionRuntimeEpoch
      PROVE  ResetInv'
  BY <1>0, <1>types, <1>11 DEF ResetInv, TransitionRuntimeEpoch, Replaced, EpochExpires
<1>12. ASSUME Crash
      PROVE  ResetInv'
  BY <1>0, <1>types, <1>12
     DEF ResetInv, Crash, Recovered, logVars, epochVars, runtimeVars
<1>13. QED
  BY <1>1, <1>2, <1>3, <1>4, <1>5, <1>6, <1>7, <1>8, <1>9, <1>10, <1>11, <1>12, StepCases

LEMMA FencedStep == ResponseInv /\ [Next]_vars => \A q \in Requests : FencedOf(q)'
<1> SUFFICES ASSUME ResponseInv, [Next]_vars, NEW q \in Requests
             PROVE  FencedOf(q)'
  OBVIOUS
<1>0. FencedOf(q) /\ ResetInv
  BY DEF ResponseInv, FenceInv
<1>types. /\ native \in [Requests -> Answers \cup {"none", "waiting", "gone", "elsewhere"}]
      /\ resolved \in [Requests -> Answers \cup {NoAnswer}]
      /\ expired \in [Requests -> SUBSET {"missing", "replaced", "fenced"}]
      /\ fate \in [Ops -> {"none", "pending", "applied", "refused", "missing", "lost"}]
  BY DEF ResponseInv, TypeOK, RowType, LogType, RuntimeType
<1>rows. /\ \A o \in Ops : OverOf(q, o) /\ RowOf(o)
      /\ NativeOf(q)
  BY DEF ResponseInv, FenceInv, RowInv, NativeInv
<1>1. ASSUME Quiet
      PROVE  FencedOf(q)'
  BY <1>0, <1>types, <1>1 DEF FencedOf, Quiet, opVars, epochVars, runtimeVars
<1>2. ASSUME NEW o \in Ops, NEW s \in Settlement, NEW a, Settled(o, s, a)
      PROVE  FencedOf(q)'
  BY <1>0, <1>types, <1>2, <1>rows
     DEF FencedOf, Settled, SettleResponseIntent, Accepts, KeepsIntent, Settlement,
         epochVars, runtimeVars, OverOf, Terminal
<1>3. ASSUME NEW c \in Repliers, NEW r \in Requests, Ask(c, r)
      PROVE  FencedOf(q)'
  BY <1>0, <1>types, <1>3, <1>rows DEF FencedOf, Ask, opVars, epochVars, NativeOf
<1>4. ASSUME NEW c \in Repliers, NEW o \in Ops, Choose(c, o)
      PROVE  FencedOf(q)'
  BY <1>0, <1>types, <1>4 DEF FencedOf, Choose, logVars, epochVars, runtimeVars
<1>5. ASSUME NEW c \in Repliers, Claim(c)
      PROVE  FencedOf(q)'
  BY <1>0, <1>types, <1>5 DEF FencedOf, Claim, logVars, epochVars, runtimeVars
<1>6. ASSUME NEW c \in Repliers, Call(c)
      PROVE  FencedOf(q)'
  BY <1>0, <1>types, <1>6 DEF FencedOf, Call, opVars, logVars, epochVars
<1>7. ASSUME NEW c \in Repliers, ExpireMissing(c)
      PROVE  FencedOf(q)'
  BY <1>0, <1>types, <1>7, <1>rows
     DEF FencedOf, ExpireMissing, opVars, epochVars, runtimeVars, NativeOf, Open
<1>8. ASSUME NEW r \in Requests, StopsWaiting(r)
      PROVE  FencedOf(q)'
  BY <1>0, <1>types, <1>8 DEF FencedOf, StopsWaiting, opVars, logVars, epochVars
<1>9. ASSUME NEW o \in Ops, RuntimeActs(o)
      PROVE  FencedOf(q)'
  BY <1>0, <1>types, <1>9, <1>rows, ResponsesAssumption
     DEF FencedOf, RuntimeActs, opVars, logVars, epochVars, RowOf
<1>10. ASSUME NEW proof \in BOOLEAN, ConfirmReset(proof)
      PROVE  FencedOf(q)'
  BY <1>0, <1>types, <1>10 DEF FencedOf, ConfirmReset, Present, opVars, logVars
<1>11. ASSUME TransitionRuntimeEpoch
      PROVE  FencedOf(q)'
  BY <1>0, <1>types, <1>11
     DEF FencedOf, TransitionRuntimeEpoch, Replaced, EpochExpires, ResetInv, Open
<1>12. ASSUME Crash
      PROVE  FencedOf(q)'
  BY <1>0, <1>types, <1>12
     DEF FencedOf, Crash, Recovered, logVars, epochVars, runtimeVars
<1>13. QED
  BY <1>1, <1>2, <1>3, <1>4, <1>5, <1>6, <1>7, <1>8, <1>9, <1>10, <1>11, <1>12, StepCases

LEMMA OverStep == ResponseInv /\ [Next]_vars => \A q \in Requests, p \in Ops : OverOf(q, p)'
<1> SUFFICES ASSUME ResponseInv, [Next]_vars, NEW q \in Requests, NEW p \in Ops
             PROVE  OverOf(q, p)'
  OBVIOUS
<1>0. OverOf(q, p) /\ ResetInv
  BY DEF ResponseInv, FenceInv
<1>types. /\ state \in [Ops -> OperationState]
      /\ about \in [Ops -> Requests \cup {NoRequest}]
      /\ expired \in [Requests -> SUBSET {"missing", "replaced", "fenced"}]
      /\ fate \in [Ops -> {"none", "pending", "applied", "refused", "missing", "lost"}]
  BY DEF ResponseInv, TypeOK, RowType, LogType, RuntimeType
<1>rows. RowOf(p) /\ FencedOf(q) /\ \A c \in Repliers : SendOf(c)
  BY DEF ResponseInv, FenceInv, RowInv, SendInv
<1>1. ASSUME Quiet
      PROVE  OverOf(q, p)'
  BY <1>0, <1>types, <1>1 DEF OverOf, Terminal, Quiet, opVars, epochVars, runtimeVars
<1>2. ASSUME NEW o \in Ops, NEW s \in Settlement, NEW a, Settled(o, s, a)
      PROVE  OverOf(q, p)'
  BY <1>0, <1>types, <1>2, <1>rows
     DEF OverOf, Terminal, Settled, SettleResponseIntent, Accepts, KeepsIntent,
         Settlement, epochVars, runtimeVars
<1>3. ASSUME NEW c \in Repliers, NEW r \in Requests, Ask(c, r)
      PROVE  OverOf(q, p)'
  BY <1>0, <1>types, <1>3 DEF OverOf, Terminal, Ask, opVars, epochVars
<1>4. ASSUME NEW c \in Repliers, NEW o \in Ops, Choose(c, o)
      PROVE  OverOf(q, p)'
  BY <1>0, <1>types, <1>4, <1>rows
     DEF OverOf, Terminal, Choose, logVars, epochVars, runtimeVars, RowOf, Open
<1>5. ASSUME NEW c \in Repliers, Claim(c)
      PROVE  OverOf(q, p)'
  BY <1>0, <1>types, <1>5 DEF OverOf, Terminal, Claim, logVars, epochVars, runtimeVars
<1>6. ASSUME NEW c \in Repliers, Call(c)
      PROVE  OverOf(q, p)'
  BY <1>0, <1>types, <1>6, <1>rows
     DEF OverOf, Terminal, Call, opVars, logVars, epochVars, SendOf, Sending
<1>7. ASSUME NEW c \in Repliers, ExpireMissing(c)
      PROVE  OverOf(q, p)'
  BY <1>0, <1>types, <1>7
     DEF OverOf, Terminal, ExpireMissing, opVars, epochVars, runtimeVars
<1>8. ASSUME NEW r \in Requests, StopsWaiting(r)
      PROVE  OverOf(q, p)'
  BY <1>0, <1>types, <1>8 DEF OverOf, Terminal, StopsWaiting, opVars, logVars, epochVars
<1>9. ASSUME NEW o \in Ops, RuntimeActs(o)
      PROVE  OverOf(q, p)'
  BY <1>0, <1>types, <1>9, <1>rows
     DEF OverOf, Terminal, RuntimeActs, opVars, logVars, epochVars, RowOf, FencedOf
<1>10. ASSUME NEW proof \in BOOLEAN, ConfirmReset(proof)
      PROVE  OverOf(q, p)'
  BY <1>0, <1>types, <1>10 DEF OverOf, Terminal, ConfirmReset, Present, opVars, logVars
<1>11. ASSUME TransitionRuntimeEpoch
      PROVE  OverOf(q, p)'
  BY <1>0, <1>types, <1>11, <1>rows
     DEF OverOf, Terminal, TransitionRuntimeEpoch, Replaced, EpochExpires, RowOf,
         ResetInv, Open, OperationState, Blocking
<1>12. ASSUME Crash
      PROVE  OverOf(q, p)'
  BY <1>0, <1>types, <1>12
     DEF OverOf, Terminal, Crash, Recovered, logVars, epochVars, runtimeVars
<1>13. QED
  BY <1>1, <1>2, <1>3, <1>4, <1>5, <1>6, <1>7, <1>8, <1>9, <1>10, <1>11, <1>12, StepCases

-----------------------------------------------------------------------------
(* The repliers                                                            *)

\* What a replier goes by stays true under every step of the others: rows stay
\* the rows they are, a closed request stays closed, a lost one lost.
RowStays(o) ==
  state[o] # "absent" => state'[o] # "absent" /\ about'[o] = about[o] /\ chosen'[o] = chosen[o]
RequestStays(r) ==
  r \in asked => /\ r \in asked' /\ (Open(r)' => Open(r))
                 /\ (Deaf(r) => Deaf(r)')

LEMMA RowsStay ==
  ASSUME ResponseInv, [Next]_vars, NEW p \in Ops
  PROVE  RowStays(p)
<1>0. state[p] # "absent" => state[p] \in Blocking \cup Terminal
  BY DEF ResponseInv, TypeOK, RowType, OperationState
<1>types. /\ state \in [Ops -> OperationState]
      /\ about \in [Ops -> Requests \cup {NoRequest}]
      /\ chosen \in [Ops -> Answers \cup {NoAnswer}]
  BY DEF ResponseInv, TypeOK, RowType
<1>1. ASSUME Quiet
      PROVE  RowStays(p)
  BY <1>0, <1>types, <1>1 DEF RowStays, Quiet, opVars, epochVars, runtimeVars
<1>2. ASSUME NEW o \in Ops, NEW s \in Settlement, NEW a, Settled(o, s, a)
      PROVE  RowStays(p)
  BY <1>0, <1>types, <1>2
     DEF RowStays, Settled, SettleResponseIntent, Accepts, KeepsIntent, Settlement,
         epochVars, runtimeVars
<1>3. ASSUME NEW c \in Repliers, NEW r \in Requests, Ask(c, r)
      PROVE  RowStays(p)
  BY <1>0, <1>types, <1>3 DEF RowStays, Ask, opVars, epochVars
<1>4. ASSUME NEW c \in Repliers, NEW o \in Ops, Choose(c, o)
      PROVE  RowStays(p)
  BY <1>0, <1>types, <1>4 DEF RowStays, Choose, logVars, epochVars, runtimeVars
<1>5. ASSUME NEW c \in Repliers, Claim(c)
      PROVE  RowStays(p)
  BY <1>0, <1>types, <1>5 DEF RowStays, Claim, logVars, epochVars, runtimeVars
<1>6. ASSUME NEW c \in Repliers, Call(c)
      PROVE  RowStays(p)
  BY <1>0, <1>types, <1>6 DEF RowStays, Call, opVars, logVars, epochVars
<1>7. ASSUME NEW c \in Repliers, ExpireMissing(c)
      PROVE  RowStays(p)
  BY <1>0, <1>types, <1>7 DEF RowStays, ExpireMissing, opVars, epochVars, runtimeVars
<1>8. ASSUME NEW r \in Requests, StopsWaiting(r)
      PROVE  RowStays(p)
  BY <1>0, <1>types, <1>8 DEF RowStays, StopsWaiting, opVars, logVars, epochVars
<1>9. ASSUME NEW o \in Ops, RuntimeActs(o)
      PROVE  RowStays(p)
  BY <1>0, <1>types, <1>9 DEF RowStays, RuntimeActs, opVars, logVars, epochVars
<1>10. ASSUME NEW proof \in BOOLEAN, ConfirmReset(proof)
      PROVE  RowStays(p)
  BY <1>0, <1>types, <1>10 DEF RowStays, ConfirmReset, Present, opVars, logVars
<1>11. ASSUME TransitionRuntimeEpoch
      PROVE  RowStays(p)
  BY <1>0, <1>types, <1>11 DEF RowStays, TransitionRuntimeEpoch, Replaced, EpochExpires
<1>12. ASSUME Crash
      PROVE  RowStays(p)
  BY <1>0, <1>types, <1>12
     DEF RowStays, Crash, Recovered, logVars, epochVars, runtimeVars
<1>13. QED
  BY <1>1, <1>2, <1>3, <1>4, <1>5, <1>6, <1>7, <1>8, <1>9, <1>10, <1>11, <1>12, StepCases

LEMMA RequestsStay ==
  ASSUME ResponseInv, [Next]_vars, NEW q \in Requests
  PROVE  RequestStays(q)
<1> USE DEF Deaf
<1>0. NativeOf(q)
  BY DEF ResponseInv, NativeInv
<1>types. /\ asked \subseteq Requests
      /\ resolved \in [Requests -> Answers \cup {NoAnswer}]
      /\ expired \in [Requests -> SUBSET {"missing", "replaced", "fenced"}]
      /\ native \in [Requests -> Answers \cup {"none", "waiting", "gone", "elsewhere"}]
  BY DEF ResponseInv, TypeOK, LogType, RuntimeType
<1>rows. \A o \in Ops : RowOf(o)
  BY DEF ResponseInv, RowInv
<1>1. ASSUME Quiet
      PROVE  RequestStays(q)
  BY <1>0, <1>types, <1>1 DEF RequestStays, Open, Quiet, opVars, epochVars, runtimeVars
<1>2. ASSUME NEW o \in Ops, NEW s \in Settlement, NEW a, Settled(o, s, a)
      PROVE  RequestStays(q)
  BY <1>0, <1>types, <1>2, <1>rows, ResponsesAssumption
     DEF RequestStays, Open, Settled, SettleResponseIntent, Accepts, KeepsIntent,
         Settlement, epochVars, runtimeVars, RowOf
<1>3. ASSUME NEW c \in Repliers, NEW r \in Requests, Ask(c, r)
      PROVE  RequestStays(q)
  BY <1>0, <1>types, <1>3 DEF RequestStays, Open, Ask, opVars, epochVars, NativeOf
<1>4. ASSUME NEW c \in Repliers, NEW o \in Ops, Choose(c, o)
      PROVE  RequestStays(q)
  BY <1>0, <1>types, <1>4
     DEF RequestStays, Open, Choose, logVars, epochVars, runtimeVars
<1>5. ASSUME NEW c \in Repliers, Claim(c)
      PROVE  RequestStays(q)
  BY <1>0, <1>types, <1>5 DEF RequestStays, Open, Claim, logVars, epochVars, runtimeVars
<1>6. ASSUME NEW c \in Repliers, Call(c)
      PROVE  RequestStays(q)
  BY <1>0, <1>types, <1>6 DEF RequestStays, Open, Call, opVars, logVars, epochVars
<1>7. ASSUME NEW c \in Repliers, ExpireMissing(c)
      PROVE  RequestStays(q)
  BY <1>0, <1>types, <1>7
     DEF RequestStays, Open, ExpireMissing, opVars, epochVars, runtimeVars
<1>8. ASSUME NEW r \in Requests, StopsWaiting(r)
      PROVE  RequestStays(q)
  BY <1>0, <1>types, <1>8 DEF RequestStays, Open, StopsWaiting, opVars, logVars, epochVars
<1>9. ASSUME NEW o \in Ops, RuntimeActs(o)
      PROVE  RequestStays(q)
  BY <1>0, <1>types, <1>9
     DEF RequestStays, Open, RuntimeActs, opVars, logVars, epochVars
<1>10. ASSUME NEW proof \in BOOLEAN, ConfirmReset(proof)
      PROVE  RequestStays(q)
  BY <1>0, <1>types, <1>10
     DEF RequestStays, Open, ConfirmReset, Present, opVars, logVars
<1>11. ASSUME TransitionRuntimeEpoch
      PROVE  RequestStays(q)
  BY <1>0, <1>types, <1>11
     DEF RequestStays, Open, TransitionRuntimeEpoch, Replaced, EpochExpires
<1>12. ASSUME Crash
      PROVE  RequestStays(q)
  BY <1>0, <1>types, <1>12
     DEF RequestStays, Open, Crash, Recovered, logVars, epochVars, runtimeVars
<1>13. QED
  BY <1>1, <1>2, <1>3, <1>4, <1>5, <1>6, <1>7, <1>8, <1>9, <1>10, <1>11, <1>12, StepCases

\* A step moves one replier, or ends what all of them do.
Waits(d) == pc'[d] = pc[d] /\ req'[d] = req[d] /\ answer'[d] = answer[d] /\ op'[d] = op[d]

LEMMA OthersWait ==
  ASSUME ReplierType, NEW c \in Repliers, NEW d \in Repliers, c # d
  PROVE  /\ \A to : GoTo(c, to) => Waits(d)
         /\ Leave(c) => Waits(d)
         /\ Fail(c) => Waits(d)
         /\ \A o : CarryOn(c, o) => Waits(d)
         /\ \A r, to : Enter(c, r, to) /\ UNCHANGED answer => Waits(d)
         /\ \A r, to, a : Enter(c, r, to) /\ answer' = [answer EXCEPT ![c] = a] => Waits(d)
<1> USE DEF ReplierType, Waits
<1>1. \A to : GoTo(c, to) => Waits(d)
  BY DEF GoTo
<1>2. Leave(c) => Waits(d)
  BY DEF Leave
<1>3. Fail(c) => Waits(d)
  BY <1>1, <1>2 DEF Fail
<1>4. \A o : CarryOn(c, o) => Waits(d)
  BY DEF CarryOn
<1>5. \A r, to : Enter(c, r, to) /\ UNCHANGED answer => Waits(d)
  BY DEF Enter
<1>6. \A r, to, a : Enter(c, r, to) /\ answer' = [answer EXCEPT ![c] = a] => Waits(d)
  BY DEF Enter
<1>7. QED
  BY <1>1, <1>2, <1>3, <1>4, <1>5, <1>6

LEMMA ReplierCases ==
  ASSUME TypeOK, [Next]_vars, NEW d \in Repliers
  PROVE  Step(d) \/ Waits(d) \/ pc'[d] \in {"out", "done"}
<1>0. ReplierType
  BY DEF TypeOK
<1>1. ASSUME NEW c \in Repliers, c # d, Step(c)
      PROVE  Waits(d)
  <2>1. ASSUME NEW r \in Requests, Ask(c, r)
        PROVE  Waits(d)
    BY <1>0, <1>1, <2>1, OthersWait DEF Ask
  <2>2. ASSUME NEW r \in Requests, NEW a \in Answers, Reply(c, r, a)
        PROVE  Waits(d)
    BY <1>0, <1>1, <2>2, OthersWait DEF Reply
  <2>3. CASE Mirror(c) \/ ExpireMissing(c) \/ Applied(c) \/ CloseParentRequestMirror(c)
    BY <1>0, <1>1, <2>3, OthersWait
       DEF Mirror, ExpireMissing, Applied, CloseParentRequestMirror
  <2>4. CASE FindChosen(c) \/ \E o \in Ops : Choose(c, o)
    BY <1>0, <1>1, <2>4, OthersWait DEF FindChosen, Choose
  <2>5. CASE Claim(c) \/ Call(c) \/ Settle(c)
    BY <1>0, <1>1, <2>5, OthersWait DEF Claim, Call, Settle
  <2>6. ASSUME NEW r \in Requests, DismissCard(c, r)
        PROVE  Waits(d)
    BY <1>0, <1>1, <2>6, OthersWait DEF DismissCard
  <2>7. CASE DismissalReturns(c)
    BY <1>0, <1>1, <2>7, OthersWait DEF DismissalReturns
  <2>8. QED
    BY <1>1, <2>1, <2>2, <2>3, <2>4, <2>5, <2>6, <2>7 DEF Step
<1>2. ASSUME UNCHANGED replierVars
      PROVE  Waits(d)
  BY <1>2 DEF replierVars, Waits
<1>3. CASE Crash
  BY <1>3 DEF Crash
<1>4. ASSUME \/ \E r \in Requests : Cancel(r) \/ ParentRuntimeActs(r) \/ EvidenceOfDismissal(r)
             \/ \E o \in Ops : RuntimeActs(o) \/ EvidenceSettles(o)
             \/ \E proof \in BOOLEAN : ConfirmReset(proof)
             \/ TransitionRuntimeEpoch
             \/ UNCHANGED vars
      PROVE  UNCHANGED replierVars
  BY <1>4 DEF Cancel, ParentRuntimeActs, EvidenceOfDismissal, RuntimeActs, EvidenceSettles, ConfirmReset,
              TransitionRuntimeEpoch, vars, replierVars
<1>5. QED
  BY <1>1, <1>2, <1>3, <1>4 DEF Next

LEMMA WorkStep == ResponseInv /\ [Next]_vars => WorkInv'
<1> SUFFICES ASSUME ResponseInv, [Next]_vars, NEW d \in Repliers
             PROVE  WorkOf(d)'
  BY DEF WorkInv
<1> USE DEF WorkOf, Sending
<1>0. /\ WorkOf(d) /\ asked \subseteq Requests /\ asked \subseteq asked'
      /\ \A o \in Ops : RowStays(o)
  <2>1. \A r \in Requests : RequestStays(r)
    BY RequestsStay
  <2>2. \A o \in Ops : RowStays(o)
    BY RowsStay
  <2>3. asked \subseteq Requests /\ WorkOf(d)
    BY DEF ResponseInv, TypeOK, LogType, WorkInv
  <2>4. QED
    BY <2>1, <2>2, <2>3 DEF RequestStays
<1>types. /\ DOMAIN pc = Repliers /\ DOMAIN req = Repliers
          /\ DOMAIN answer = Repliers /\ DOMAIN op = Repliers
  BY DEF ResponseInv, TypeOK, ReplierType
<1>1. CASE Waits(d)
  BY <1>0, <1>1 DEF Waits, RowStays
<1>2. CASE pc'[d] \in {"out", "done"}
  BY <1>2
<1>3. ASSUME NEW to \in {"mirror", "call", "calling", "applied", "missing", "close card"},
             GoTo(d, to), pc[d] \notin {"out", "dismissing", "done"},
             to \in Sending => pc[d] \in {"claim", "call"}
      PROVE  WorkOf(d)'
  BY <1>0, <1>types, <1>3 DEF GoTo, RowStays
<1>4. ASSUME Leave(d)
      PROVE  WorkOf(d)'
  BY <1>types, <1>4 DEF Leave
<1>5. ASSUME Fail(d), pc[d] \notin {"out", "dismissing", "done"}
      PROVE  WorkOf(d)'
  BY <1>3, <1>4, <1>5 DEF Fail
<1>6. ASSUME NEW r \in Requests, Ask(d, r)
      PROVE  WorkOf(d)'
  BY <1>types, <1>6 DEF Ask, Enter
<1>7. ASSUME NEW r \in Requests, NEW a \in Answers, Reply(d, r, a)
      PROVE  WorkOf(d)'
  BY <1>0, <1>types, <1>7 DEF Reply, Enter, Open
<1>8. ASSUME NEW o \in Ops, Choose(d, o)
      PROVE  WorkOf(d)'
  <2>1. DOMAIN state = Ops /\ DOMAIN about = Ops /\ DOMAIN chosen = Ops
    BY DEF ResponseInv, TypeOK, RowType
  <2>2. QED
    BY <1>0, <1>types, <1>8, <2>1 DEF Choose, CarryOn
<1>9. ASSUME FindChosen(d)
      PROVE  WorkOf(d)'
  <2>1. CASE Fail(d)
    BY <1>5, <1>9, <2>1 DEF FindChosen
  <2>2. CASE intent[req[d]] # NoOp /\ Resumes(d, intent[req[d]]) /\ CarryOn(d, intent[req[d]])
    <3>1. intent[req[d]] \in Ops \cup {NoOp} /\ IntentOf(req[d])
      BY <1>0, <1>9 DEF FindChosen, ResponseInv, TypeOK, RowType, IntentInv
    <3>2. QED
      BY <1>0, <1>types, <1>9, <2>2, <3>1
         DEF FindChosen, Resumes, CarryOn, IntentOf, RowStays
  <2>3. QED
    BY <1>9, <2>1, <2>2 DEF FindChosen
<1>10. ASSUME Claim(d) \/ Call(d)
       PROVE  WorkOf(d)'
  BY <1>3, <1>5, <1>10 DEF Claim, Call
<1>11. ASSUME Settle(d)
       PROVE  WorkOf(d)'
  BY <1>3, <1>5, <1>11 DEF Settle
<1>12. ASSUME Mirror(d) \/ ExpireMissing(d) \/ Applied(d) \/ CloseParentRequestMirror(d)
       PROVE  WorkOf(d)'
  BY <1>3, <1>4, <1>12 DEF Mirror, ExpireMissing, Applied, CloseParentRequestMirror
<1>d. ASSUME DismissalReturns(d) \/ \E r \in Requests : DismissCard(d, r)
      PROVE  WorkOf(d)'
  BY <1>4, <1>types, <1>d DEF DismissalReturns, DismissCard, Enter
<1>13. QED
  <2>1. Step(d) \/ Waits(d) \/ pc'[d] \in {"out", "done"}
    BY ReplierCases DEF ResponseInv
  <2>2. CASE Step(d)
    BY <2>2, <1>6, <1>7, <1>8, <1>9, <1>10, <1>11, <1>12, <1>d DEF Step
  <2>3. QED
    BY <1>1, <1>2, <2>1, <2>2

\* Only a claim begins to send.
LEMMA SendingBegins ==
  ASSUME TypeOK, [Next]_vars, NEW d \in Repliers, pc'[d] \in Sending
  PROVE  (Claim(d) /\ state[op[d]] = "prepared") \/ Call(d) \/ Waits(d)
<1> USE DEF Sending
<1>types. DOMAIN pc = Repliers
  BY DEF TypeOK, ReplierType
<1>1. ASSUME Step(d)
      PROVE  (Claim(d) /\ state[op[d]] = "prepared") \/ Call(d)
  <2>1. ~Leave(d) /\ ~Fail(d)
    BY <1>types DEF Leave, Fail, GoTo
  <2>2. /\ \A r \in Requests : ~Ask(d, r)
        /\ \A r \in Requests, a \in Answers : ~Reply(d, r, a)
    BY <1>types DEF Ask, Reply, Enter
  <2>3. ~Mirror(d) /\ ~ExpireMissing(d) /\ ~Applied(d) /\ ~CloseParentRequestMirror(d)
    BY <1>types, <2>1 DEF Mirror, ExpireMissing, Applied, CloseParentRequestMirror, GoTo
  <2>4. ~FindChosen(d) /\ \A o \in Ops : ~Choose(d, o)
    BY <1>types, <2>1 DEF FindChosen, Choose, CarryOn
  <2>5. ~Settle(d)
    BY <1>types, <2>1 DEF Settle, GoTo
  <2>6. Claim(d) => state[op[d]] = "prepared"
    BY <2>1 DEF Claim
  <2>7. ~DismissalReturns(d) /\ \A r \in Requests : ~DismissCard(d, r)
    BY <1>types, <2>1 DEF DismissalReturns, DismissCard, Enter
  <2>8. QED
    BY <1>1, <2>2, <2>3, <2>4, <2>5, <2>6, <2>7 DEF Step
<1>2. QED
  BY <1>1, ReplierCases

LEMMA OneSenderStep == ResponseInv /\ [Next]_vars => OneSender'
<1> SUFFICES ASSUME ResponseInv, [Next]_vars, NEW c \in Repliers, NEW d \in Repliers,
                    pc'[c] \in Sending, pc'[d] \in Sending, op'[c] = op'[d], c # d
             PROVE  FALSE
  BY DEF OneSender
<1>0. OneSender /\ SendOf(c) /\ SendOf(d) /\ ReplierType /\ TypeOK
  BY DEF ResponseInv, SendInv, TypeOK
<1>1. ASSUME NEW x \in Repliers, NEW y \in Repliers, x # y, Claim(x) \/ Call(x)
      PROVE  Waits(y)
  BY <1>0, <1>1, OthersWait DEF Claim, Call
<1>2. /\ (Claim(c) /\ state[op[c]] = "prepared") \/ Call(c) \/ Waits(c)
      /\ (Claim(d) /\ state[op[d]] = "prepared") \/ Call(d) \/ Waits(d)
  BY <1>0, SendingBegins
<1>3. ASSUME NEW x \in Repliers, Call(x)
      PROVE  op'[x] = op[x] /\ pc[x] \in Sending
  BY <1>3 DEF Call, GoTo, Sending
<1>4. ASSUME NEW x \in Repliers, Claim(x)
      PROVE  op'[x] = op[x] \/ Fail(x)
  BY <1>4 DEF Claim, GoTo
<1>5. ASSUME NEW x \in Repliers, NEW y \in Repliers, x # y, SendOf(y), op'[x] = op'[y],
             pc'[y] \in Sending, Claim(x), state[op[x]] = "prepared"
      PROVE  FALSE
  <2>1. Waits(y) /\ op'[x] = op[x]
    BY <1>1, <1>5 DEF Claim, GoTo
  <2>2. QED
    BY <1>5, <2>1 DEF Waits, SendOf
<1>6. QED
  BY <1>0, <1>1, <1>2, <1>3, <1>5 DEF Waits, OneSender

\* A call is on its way only with the row and the intent it was claimed for.
LEMMA SendStep == ResponseInv /\ [Next]_vars => \A d \in Repliers : SendOf(d)'
<1> SUFFICES ASSUME ResponseInv, [Next]_vars, NEW d \in Repliers, pc'[d] \in Sending
             PROVE  SendOf(d)'
  BY DEF SendOf
<1>b. (Claim(d) /\ state[op[d]] = "prepared") \/ Call(d) \/ Waits(d)
  BY SendingBegins DEF ResponseInv
<1>0. /\ SendOf(d) /\ WorkOf(d) /\ OneSender
      /\ op[d] \in Ops => RowOf(op[d]) /\ LiveOf(op[d])
  BY DEF ResponseInv, SendInv, WorkInv, RowInv, LiveInv
<1>types. /\ state \in [Ops -> OperationState]
      /\ fate \in [Ops -> {"none", "pending", "applied", "refused", "missing", "lost"}]
      /\ intent \in [Requests -> Ops \cup {NoOp}]
      /\ resolved \in [Requests -> Answers \cup {NoAnswer}]
      /\ expired \in [Requests -> SUBSET {"missing", "replaced", "fenced"}]
      /\ asked \subseteq Requests
      /\ DOMAIN pc = Repliers
  BY DEF ResponseInv, TypeOK, RowType, LogType, ReplierType, RuntimeType
<1>c. CASE Claim(d) /\ state[op[d]] = "prepared"
  BY <1>0, <1>types, <1>c
     DEF Claim, GoTo, SendOf, WorkOf, RowOf, LiveOf, MayTakeEffect, Sending, logVars, runtimeVars
<1>e. CASE Call(d)
  BY <1>0, <1>types, <1>e DEF Call, GoTo, SendOf, WorkOf, Sending, Open, opVars, logVars
<1>w. ASSUME Waits(d), ~Call(d)
      PROVE  SendOf(d)'
  <2> USE DEF Sending, WorkOf, SendOf
  <2>0. /\ pc[d] \in Sending /\ pc'[d] = pc[d] /\ req'[d] = req[d] /\ op'[d] = op[d]
        /\ op[d] \in Ops /\ req[d] \in asked /\ req[d] \in Requests
    BY <1>0, <1>types, <1>w DEF Waits
  <2>s. RequestStays(req[d])
    BY <2>0, RequestsStay
  <2>1. ASSUME Quiet
        PROVE  SendOf(d)'
    BY <1>0, <1>types, <2>0, <2>1 DEF Open, Quiet, opVars, epochVars, runtimeVars
  <2>2. ASSUME NEW o \in Ops, NEW s \in Settlement, NEW a, Settled(o, s, a)
        PROVE  SendOf(d)'
    BY <1>0, <1>types, <2>0, <2>2, <2>s
       DEF Open, Settled, SettleResponseIntent, Accepts, KeepsIntent, Settlement,
           epochVars, runtimeVars, RequestStays
  <2>3. ASSUME NEW c \in Repliers, NEW r \in Requests, Ask(c, r)
        PROVE  SendOf(d)'
    BY <1>0, <1>types, <2>0, <2>3 DEF Open, Ask, opVars, epochVars, Open
  <2>4. ASSUME NEW c \in Repliers, NEW o \in Ops, Choose(c, o)
        PROVE  SendOf(d)'
    BY <1>0, <1>types, <2>0, <2>4, ResponsesAssumption
       DEF Open, Choose, logVars, epochVars, runtimeVars
  <2>5. ASSUME NEW c \in Repliers, Claim(c)
        PROVE  SendOf(d)'
    BY <1>0, <1>types, <2>0, <2>5 DEF Open, Claim, logVars, epochVars, runtimeVars
  <2>6. ASSUME NEW c \in Repliers, Call(c)
        PROVE  SendOf(d)'
    <3>1. c # d /\ pc[c] = "call"
      BY <1>w, <2>6 DEF Call
    <3>2. op[c] # op[d]
      BY <1>0, <2>0, <3>1 DEF OneSender
    <3>3. QED
      BY <1>0, <1>types, <2>0, <2>6, <3>2 DEF Open, Call, opVars, logVars
  <2>7. ASSUME NEW c \in Repliers, ExpireMissing(c)
        PROVE  SendOf(d)'
    BY <1>0, <1>types, <2>0, <2>7, <2>s
       DEF Open, ExpireMissing, opVars, epochVars, runtimeVars, RequestStays
  <2>8. ASSUME NEW r \in Requests, StopsWaiting(r)
        PROVE  SendOf(d)'
    BY <1>0, <1>types, <2>0, <2>8 DEF Open, StopsWaiting, opVars, logVars, epochVars
  <2>9. ASSUME NEW o \in Ops, RuntimeActs(o)
        PROVE  SendOf(d)'
    BY <1>0, <1>types, <2>0, <2>9 DEF Open, RuntimeActs, opVars, logVars, epochVars
  <2>10. ASSUME NEW proof \in BOOLEAN, ConfirmReset(proof)
        PROVE  SendOf(d)'
    BY <1>0, <1>types, <2>0, <2>10 DEF Open, ConfirmReset, Present, opVars, logVars
  <2>11. ASSUME TransitionRuntimeEpoch
        PROVE  SendOf(d)'
    BY <1>0, <1>types, <2>0, <2>11
       DEF Open, TransitionRuntimeEpoch, Replaced, EpochExpires
  <2>12. ASSUME Crash
        PROVE  SendOf(d)'
    BY <1>0, <1>types, <2>0, <2>12
       DEF Open, Crash, Recovered, logVars, epochVars, runtimeVars
  <2>13. QED
    BY <2>1, <2>2, <2>3, <2>4, <2>5, <2>6, <2>7, <2>8, <2>9, <2>10, <2>11, <2>12, StepCases
<1>q. QED
  BY <1>b, <1>c, <1>e, <1>w

LEMMA ToldStep == ResponseInv /\ [Next]_vars => ToldInv'
<1> SUFFICES ASSUME ResponseInv, [Next]_vars, NEW d \in Repliers, pc'[d] = "missing", Open(req[d])'
             PROVE  Deaf(req[d])'
  BY DEF ToldInv, ToldOf
<1> USE DEF Deaf
<1>types. DOMAIN pc = Repliers
  BY DEF ResponseInv, TypeOK, ReplierType
<1>0. ToldOf(d) /\ WorkOf(d) /\ asked \subseteq Requests /\ \A r \in Requests : RequestStays(r)
  <2>1. \A r \in Requests : RequestStays(r)
    BY RequestsStay
  <2>2. QED
    BY <2>1 DEF ResponseInv, ToldInv, WorkInv, TypeOK, LogType
<1>1. CASE Waits(d)
  BY <1>0, <1>1 DEF Waits, ToldOf, WorkOf, RequestStays
<1>2. CASE Settle(d)
  <2>1. ~Fail(d)
    BY <1>types DEF Fail, Leave, GoTo
  <2>2. /\ fate[op[d]] = "missing" /\ req'[d] = req[d] /\ native' = native
        /\ pc[d] = "calling"
    BY <1>2, <1>types, <2>1 DEF Settle, Outcomes, GoTo, runtimeVars
  <2>3. op[d] \in Ops /\ about[op[d]] = req[d] /\ req[d] \in asked
    BY <1>0, <2>2 DEF WorkOf, Sending
  <2>4. EffectOf(op[d])
    BY <2>3 DEF ResponseInv, EffectInv
  <2>5. Open(req[d])
    BY <1>0, <2>2, <2>3 DEF RequestStays, Open
  <2>6. QED
    BY <2>2, <2>3, <2>4, <2>5 DEF EffectOf
<1>3. ASSUME Step(d), ~Settle(d)
      PROVE  FALSE
  <2>1. ~Leave(d) /\ ~Fail(d)
    BY <1>types DEF Leave, Fail, GoTo
  <2>2. /\ \A r \in Requests : ~Ask(d, r)
        /\ \A r \in Requests, a \in Answers : ~Reply(d, r, a)
    BY <1>types DEF Ask, Reply, Enter
  <2>3. ~Mirror(d) /\ ~ExpireMissing(d) /\ ~Applied(d) /\ ~CloseParentRequestMirror(d)
    BY <1>types, <2>1 DEF Mirror, ExpireMissing, Applied, CloseParentRequestMirror, GoTo
  <2>4. ~FindChosen(d) /\ \A o \in Ops : ~Choose(d, o)
    BY <1>types, <2>1 DEF FindChosen, Choose, CarryOn
  <2>5. ~Claim(d) /\ ~Call(d)
    BY <1>types, <2>1 DEF Claim, Call, GoTo
  <2>6. ~DismissalReturns(d) /\ \A r \in Requests : ~DismissCard(d, r)
    BY <1>types, <2>1 DEF DismissalReturns, DismissCard, Enter
  <2>7. QED
    BY <1>3, <2>2, <2>3, <2>4, <2>5, <2>6 DEF Step
<1>4. QED
  BY <1>1, <1>2, <1>3, ReplierCases DEF ResponseInv

-----------------------------------------------------------------------------
(* The theorems                                                            *)

LEMMA ResponseInit == Init => ResponseInv
<1> SUFFICES ASSUME Init
             PROVE  ResponseInv
  OBVIOUS
<1>1. TypeOK
  BY TypeInit
<1>2. RowInv /\ IntentInv /\ LiveInv
  BY DEF Init, RowInv, RowOf, IntentInv, IntentOf, LiveInv, LiveOf, MayTakeEffect
<1>3. WorkInv /\ SendInv /\ ToldInv
  BY DEF Init, WorkInv, WorkOf, SendInv, OneSender, SendOf, ToldInv, ToldOf, Sending
<1>4. NativeInv /\ EffectInv /\ FenceInv
  BY ResponsesAssumption
     DEF Init, NativeInv, NativeOf, EffectInv, EffectOf, FenceInv, ResetInv, FencedOf, OverOf
<1>5. QED
  BY <1>1, <1>2, <1>3, <1>4 DEF ResponseInv

LEMMA ResponseStep == ResponseInv /\ [Next]_vars => ResponseInv'
<1> SUFFICES ASSUME ResponseInv, [Next]_vars
             PROVE  ResponseInv'
  OBVIOUS
<1>1. TypeOK'
  BY TypeStep DEF ResponseInv
<1>2. RowInv' /\ IntentInv' /\ LiveInv'
  BY RowInvStep, IntentInvStep, LiveInvStep
<1>3. WorkInv' /\ ToldInv'
  BY WorkStep, ToldStep
<1>4. SendInv'
  BY OneSenderStep, SendStep DEF SendInv
<1>5. NativeInv' /\ EffectInv'
  BY NativeInvStep, EffectInvStep
<1>6. FenceInv'
  BY ResetStep, FencedStep, OverStep DEF FenceInv
<1>7. QED
  BY <1>1, <1>2, <1>3, <1>4, <1>5, <1>6 DEF ResponseInv

LEMMA ResponseInvariant == Spec => []ResponseInv
  BY ResponseInit, ResponseStep, PTL DEF Spec

\* Every replier, every row of the two tables and every event stays what the
\* code's types and the CHECK constraints of the tables say it is.
THEOREM TypeCorrect == Spec => []TypeOK
<1>1. ResponseInv => TypeOK
  BY DEF ResponseInv
<1>2. QED
  BY <1>1, ResponseInvariant, PTL

\* A confirmed reply tells what the agent heard, or is told already.
LEMMA ToldAsHeard ==
  ASSUME ResponseInv, NEW o \in Ops, NEW s \in Settlement, NEW a, Settled(o, s, a)
  PROVE  Promise!Tell(about[o]) \/ UNCHANGED Promise!vars
<1> DEFINE r == about[o]
<1>0. /\ RowOf(o) /\ EffectOf(o) /\ state[o] # "absent"
      /\ native' = native /\ expired' = expired
  BY DEF ResponseInv, RowInv, EffectInv, Settled, runtimeVars
<1>1. r \in Requests
  BY <1>0 DEF RowOf, ResponseInv, TypeOK, LogType
<1>2. CASE s # "confirmed"
  BY <1>0, <1>2 DEF Settled, SettleResponseIntent, Promise!vars
<1>3. CASE s = "confirmed"
  <2>1. fate[o] = "applied" /\ a = chosen[o] /\ resolved' = [resolved EXCEPT ![r] = a]
    BY <1>3 DEF Settled, SettleResponseIntent
  <2>2. native[r] = a /\ a \in Answers
    BY <1>0, <2>1 DEF EffectOf, RowOf
  <2>3. "fenced" \notin expired[r]
    <3>1. OverOf(r, o)
      BY <1>1 DEF ResponseInv, FenceInv
    <3>2. state[o] \notin Terminal
      BY DEF Settled, Terminal
    <3>3. QED
      BY <2>1, <3>1, <3>2 DEF OverOf
  <2>4. CASE resolved[r] = NoAnswer
    BY <1>0, <2>1, <2>2, <2>3, <2>4 DEF Promise!Tell
  <2>5. CASE resolved[r] # NoAnswer
    <3>1. resolved[r] = a
      BY <1>1, <2>2, <2>5 DEF ResponseInv, NativeInv, NativeOf
    <3>2. resolved' = resolved
      BY <2>1, <3>1 DEF ResponseInv, TypeOK, LogType
    <3>3. QED
      BY <1>0, <3>2 DEF Promise!vars
  <2>6. QED
    BY <2>4, <2>5
<1>4. QED
  BY <1>2, <1>3

\* A request is closed as missing by who was told that it is gone, and as
\* fenced by an epoch whose predecessor can hear no answer any more.
LEMMA ClosedInTime ==
  ASSUME ResponseInv, TransitionRuntimeEpoch \/ \E c \in Repliers : ExpireMissing(c)
  PROVE  \/ \E rs \in SUBSET Requests, why \in {"missing", "replaced", "fenced"} :
              Promise!Close(rs, why)
         \/ UNCHANGED Promise!vars
<1>1. /\ \A r \in Requests : NativeOf(r)
      /\ expired \in [Requests -> SUBSET {"missing", "replaced", "fenced"}]
      /\ asked \subseteq Requests
  BY DEF ResponseInv, NativeInv, TypeOK, LogType
<1>2. CASE TransitionRuntimeEpoch
  <2> DEFINE why == IF fence THEN "fenced" ELSE "replaced"
             rs == {r \in Requests : Open(r)}
  <2>1. \A r \in rs : Promise!MayClose(r, why)
    BY <1>1 DEF Promise!MayClose, Open, NativeOf, ResponseInv, FenceInv, ResetInv
  <2>2. expired' = [r \in Requests |-> IF r \in rs THEN {why} ELSE expired[r]]
    BY <1>2 DEF TransitionRuntimeEpoch, EpochExpires
  <2>3. Promise!Close(rs, why)
    BY <1>2, <2>1, <2>2 DEF TransitionRuntimeEpoch, Promise!Close
  <2>4. rs \in SUBSET Requests /\ why \in {"missing", "replaced", "fenced"}
    OBVIOUS
  <2>5. QED
    BY <2>3, <2>4
<1>3. ASSUME NEW c \in Repliers, ExpireMissing(c), Open(req[c])
      PROVE  \E rs \in SUBSET Requests : Promise!Close(rs, "missing")
  <2>1. req[c] \in Requests /\ Deaf(req[c]) /\ expired[req[c]] = {}
    BY <1>1, <1>3 DEF ExpireMissing, Open, ResponseInv, ToldInv, ToldOf
  <2>2. Promise!MayClose(req[c], "missing")
    BY <1>3, <2>1 DEF Promise!MayClose, Open, Deaf
  <2>3. expired' = [r \in Requests |-> IF r \in {req[c]} THEN {"missing"} ELSE expired[r]]
    BY <1>1, <1>3, <2>1 DEF ExpireMissing
  <2>4. Promise!Close({req[c]}, "missing")
    BY <1>3, <2>2, <2>3 DEF ExpireMissing, runtimeVars, Promise!Close
  <2>5. QED
    BY <2>1, <2>4
<1>4. ASSUME NEW c \in Repliers, ExpireMissing(c), ~Open(req[c])
      PROVE  UNCHANGED Promise!vars
  BY <1>4 DEF ExpireMissing, runtimeVars, Promise!vars
<1>5. QED
  BY <1>2, <1>3, <1>4

\* What the agent does is what it may do: hear an answer while it waits, once,
\* from this session or from elsewhere, or give up.
LEMMA AgentActs ==
  ASSUME ResponseInv,
         \/ \E o \in Ops : RuntimeActs(o)
         \/ \E r \in Requests : StopsWaiting(r)
         \/ \E proof \in BOOLEAN : ConfirmReset(proof)
  PROVE  \/ \E r \in Requests, a \in Answers : Promise!Hear(r, a)
         \/ \E r \in Requests : Promise!HearElsewhere(r)
         \/ \E rs \in SUBSET Requests : Promise!GiveUp(rs)
         \/ UNCHANGED Promise!vars
<1>types. native \in [Requests -> Answers \cup {"none", "waiting", "gone", "elsewhere"}]
  BY DEF ResponseInv, TypeOK, RuntimeType
<1>1. ASSUME NEW o \in Ops, RuntimeActs(o), native' # native
      PROVE  \E r \in Requests, a \in Answers : Promise!Hear(r, a)
  <2>1. about[o] \in Requests /\ sent[o] \in Answers
    BY <1>1 DEF RuntimeActs, ResponseInv, RowInv, RowOf, TypeOK, LogType
  <2>2. Promise!Hear(about[o], sent[o])
    BY <1>1 DEF RuntimeActs, logVars, Promise!Hear
  <2>3. QED
    BY <2>1, <2>2
<1>2. ASSUME NEW o \in Ops, RuntimeActs(o), native' = native
      PROVE  UNCHANGED Promise!vars
  BY <1>2 DEF RuntimeActs, logVars, Promise!vars
<1>3. ASSUME NEW q \in Requests, StopsWaiting(q)
      PROVE  Promise!GiveUp({q}) \/ Promise!HearElsewhere(q)
  BY <1>3, <1>types DEF StopsWaiting, logVars, Promise!GiveUp, Promise!HearElsewhere
<1>4. ASSUME ConfirmReset(TRUE)
      PROVE  Promise!GiveUp({r \in Requests : native[r] = "waiting"})
  BY <1>4, <1>types DEF ConfirmReset, logVars, Promise!GiveUp
<1>5. ASSUME ConfirmReset(FALSE)
      PROVE  UNCHANGED Promise!vars
  BY <1>5 DEF ConfirmReset, logVars, Promise!vars
<1>6. (\E q \in Requests : StopsWaiting(q))
        => \/ \E rs \in SUBSET Requests : Promise!GiveUp(rs)
           \/ \E r \in Requests : Promise!HearElsewhere(r)
  <2>1. \A q \in Requests : {q} \in SUBSET Requests
    OBVIOUS
  <2>2. QED
    BY <1>3, <2>1
<1>7. ConfirmReset(TRUE) => \E rs \in SUBSET Requests : Promise!GiveUp(rs)
  <2>1. {r \in Requests : native[r] = "waiting"} \in SUBSET Requests
    OBVIOUS
  <2>2. QED
    BY <1>4, <2>1
<1>8. QED
  BY <1>1, <1>2, <1>5, <1>6, <1>7

LEMMA PromiseStep == ResponseInv /\ [Next]_vars => [Promise!Next]_(Promise!vars)
<1> SUFFICES ASSUME ResponseInv, [Next]_vars
             PROVE  Promise!Next \/ UNCHANGED Promise!vars
  OBVIOUS
<1>1. CASE Quiet
  BY <1>1 DEF Quiet, runtimeVars, Promise!vars
<1>2. ASSUME NEW o \in Ops, NEW s \in Settlement, NEW a, Settled(o, s, a)
      PROVE  Promise!Next \/ UNCHANGED Promise!vars
  <2>1. about[o] \in Requests
    BY <1>2 DEF Settled, ResponseInv, RowInv, RowOf, TypeOK, LogType
  <2>2. QED
    BY <1>2, <2>1, ToldAsHeard DEF Promise!Next
<1>3. ASSUME NEW c \in Repliers, NEW r \in Requests, Ask(c, r)
      PROVE  Promise!Next
  <2>1. native[r] = "none"
    BY <1>3 DEF Ask, ResponseInv, NativeInv, NativeOf
  <2>2. Promise!Ask(r)
    BY <1>3, <2>1 DEF Ask, Promise!Ask
  <2>3. QED
    BY <2>2 DEF Promise!Next
<1>4. ASSUME Crash \/ \E c \in Repliers : Claim(c) \/ Call(c) \/ \E o \in Ops : Choose(c, o)
      PROVE  UNCHANGED Promise!vars
  BY <1>4 DEF Crash, Claim, Call, Choose, logVars, runtimeVars, Promise!vars
<1>5. ASSUME TransitionRuntimeEpoch \/ \E c \in Repliers : ExpireMissing(c)
      PROVE  Promise!Next \/ UNCHANGED Promise!vars
  BY <1>5, ClosedInTime DEF Promise!Next
<1>6. ASSUME \/ \E o \in Ops : RuntimeActs(o)
             \/ \E r \in Requests : StopsWaiting(r)
             \/ \E proof \in BOOLEAN : ConfirmReset(proof)
      PROVE  Promise!Next \/ UNCHANGED Promise!vars
  BY <1>6, AgentActs DEF Promise!Next
<1>7. QED
  BY <1>1, <1>2, <1>3, <1>4, <1>5, <1>6, StepCases

\* Whoever replies, under whichever lock, however often the process dies and
\* the epoch is replaced, the session implements OneAnswer: the agent hears
\* one answer, the log tells that one, once, and closes what can have no
\* answer (settleResponseIntent, 3613-3661; expirePermissionRequest,
\* sessions.ts 7136-7143; appendEpochRequestExpirations, 2124-2155).
THEOREM RepliesImplement == Spec => RepliesKeepPromise
<1>1. Init => Promise!Init
  BY DEF Init, Promise!Init
<1>2. QED
  BY <1>1, ResponseInvariant, PromiseStep, PTL DEF Spec, RepliesKeepPromise, Promise!Spec

\* However many repliers, retries, crashes and epochs there are, at most one
\* reply to a request may take effect (chooseResponseIntent, 3520-3611).
THEOREM AtMostOneLiveReply == Spec => []OneLiveReply
<1>1. ResponseInv => OneLiveReply
  BY DEF ResponseInv, LiveInv, LiveOf, OneLiveReply
<1>2. QED
  BY <1>1, ResponseInvariant, PTL

\* Of a request that was expired because the backend did not hold it no reply
\* of this session was ever heard, nor can be; something else may have answered
\* it (expirePermissionRequest, sessions.ts 7132-7143).
THEOREM NoReplyToAMissingRequestWasHeard == Spec => []MissingHeardNoReply
<1>1. ResponseInv => MissingHeardNoReply
  <2> SUFFICES ASSUME ResponseInv, NEW r \in Requests, "missing" \in expired[r]
               PROVE  Deaf(r) /\ \A o \in Ops : about[o] = r => fate[o] # "applied"
    BY DEF MissingHeardNoReply, Deaf
  <2>1. Deaf(r)
    BY DEF ResponseInv, NativeInv, NativeOf
  <2>2. ASSUME NEW o \in Ops, about[o] = r, fate[o] = "applied"
        PROVE  FALSE
    <3>1. native[r] = chosen[o] /\ chosen[o] \in Answers
      BY <2>2 DEF ResponseInv, EffectInv, EffectOf, RowInv, RowOf
    <3>2. QED
      BY <2>1, <3>1, ResponsesAssumption DEF Deaf
  <2>3. QED
    BY <2>1, <2>2
<1>2. QED
  BY <1>1, ResponseInvariant, PTL

\* No open request is stuck behind a reply that is over (a definite failure
\* deletes the row, 3639-3657).
THEOREM AnOpenRequestIsAnswerable == Spec => []OpenIsAnswerable
<1>1. ResponseInv => OpenIsAnswerable
  BY DEF ResponseInv, IntentInv, IntentOf, OpenIsAnswerable
<1>2. QED
  BY <1>1, ResponseInvariant, PTL

\* A request an epoch closed with proof of the old execution's end is never
\* resolved by a late answer (transitionOperation, 2053-2063).
THEOREM AFencedRequestStaysExpired == Spec => []FencedStaysExpired
<1>1. ResponseInv => FencedStaysExpired
  BY DEF ResponseInv, FenceInv, FencedOf, FencedStaysExpired
<1>2. QED
  BY <1>1, ResponseInvariant, PTL

=============================================================================
