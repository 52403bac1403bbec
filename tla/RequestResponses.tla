-------------------------- MODULE RequestResponses --------------------------
(***************************************************************************)
(* Answering the permission requests and questions a backend asks: the     *)
(* response intents of packages/session/src/index.ts and the repliers of   *)
(* packages/server/src/sessions.ts, for one session that has a parent.     *)
(* The parent shows a card for a request of its child, and a reply given   *)
(* there is carried out for the child under the lock of the parent alone,  *)
(* so it meets replies given at the child and a replacement of the child's *)
(* runtime in every order.  A message sent in the parent rejects what its  *)
(* cards show through the parent's own runtime, which may be served by the *)
(* very backend that holds the child's request.                            *)
(***************************************************************************)
EXTENDS FiniteSets, OperationRules

CONSTANTS
  Requests,  \* requests of the backend
  Ops,       \* operation ids
  Handlers,  \* runtime events that ask; policy may answer in them at once
  AtChild,   \* replies and dismissals given at the session itself
  AtParent,  \* replies given on the parent's card
  Senders,   \* messages sent in the parent
  Answers,   \* payloads of a reply
  Dismissal, \* the payload of a dismissal
  Proves,    \* TRUE: the runtime proves what became of an unknown reply
  NoOp, NoAnswer, NoRequest, Nobody,
  Recovery   \* holds the session lock while an epoch is replaced

Repliers == Handlers \cup AtChild \cup AtParent \cup Senders

ASSUME ResponsesAssumption ==
  /\ Proves \in BOOLEAN
  /\ Dismissal \in Answers
  /\ {NoAnswer, "none", "waiting", "gone", "elsewhere"} \cap Answers = {}
  /\ NoOp \notin Ops /\ NoRequest \notin Requests
  /\ {Nobody, Recovery} \cap Repliers = {}

VARIABLES
  state,    \* column state of runtime_operations
  about,    \* the request an operation replies to
  chosen,   \* column payload of response_intents, kept after the row is gone
  intent,   \* response_intents: the operation of a request, if it has a row
  asked,    \* requests with a "requested" event
  resolved, \* the answer of the "resolved" event
  expired,  \* why a request has "expired" events
  card,     \* the card of a request in the parent's log
  lock,     \* who runs under the lock of a session
  pc, req, answer, op, \* a replier
  reset,    \* a confirmed reset waits to be published
  older,    \* the operations that are older than that reset
  fence,    \* the replacement has proof that the old execution is gone
  native,   \* what the backend that asked did about a request
  moved,    \* requests asked by a backend session that was replaced
  sent,     \* the answer in the call of an operation
  fate,     \* what a backend did with the call of an operation
  rejection \* what a backend did with the parent's own rejection of a card

opVars == <<state, about, chosen, intent>>
logVars == <<asked, resolved, expired, card>>
replierVars == <<pc, req, answer, op>>
epochVars == <<reset, older, fence>>
runtimeVars == <<native, moved, sent, fate, rejection>>
vars == <<state, about, chosen, intent, asked, resolved, expired, card, lock, pc, req,
          answer, op, reset, older, fence, native, moved, sent, fate, rejection>>

Init ==
  /\ state = [o \in Ops |-> "absent"]
  /\ about = [o \in Ops |-> NoRequest]
  /\ chosen = [o \in Ops |-> NoAnswer]
  /\ intent = [r \in Requests |-> NoOp]
  /\ asked = {}
  /\ resolved = [r \in Requests |-> NoAnswer]
  /\ expired = [r \in Requests |-> {}]
  /\ card = [r \in Requests |-> "none"]
  /\ lock = [s \in {"child", "parent"} |-> Nobody]
  /\ pc = [c \in Repliers |-> "out"]
  /\ req = [c \in Repliers |-> NoRequest]
  /\ answer = [c \in Repliers |-> NoAnswer]
  /\ op = [c \in Repliers |-> NoOp]
  /\ reset = FALSE /\ older = {} /\ fence = FALSE
  /\ native = [r \in Requests |-> "none"]
  /\ moved = {}
  /\ sent = [o \in Ops |-> NoAnswer]
  /\ fate = [o \in Ops |-> "none"]
  /\ rejection = [r \in Requests |-> "none"]

Open(r) == r \in asked /\ resolved[r] = NoAnswer /\ expired[r] = {}

Home(c) == IF c \in AtParent \cup Senders THEN "parent" ELSE "child"

-----------------------------------------------------------------------------
(* Asking and replying                                                     *)

Enter(c, r, to) ==
  /\ pc[c] = "out" /\ lock[Home(c)] = Nobody
  /\ lock' = [lock EXCEPT ![Home(c)] = c]
  /\ pc' = [pc EXCEPT ![c] = to]
  /\ req' = [req EXCEPT ![c] = r]
  /\ UNCHANGED op

GoTo(c, to) ==
  /\ pc' = [pc EXCEPT ![c] = to]
  /\ UNCHANGED <<lock, req, answer, op>>

CarryOn(c, o) ==
  /\ op' = [op EXCEPT ![c] = o]
  /\ pc' = [pc EXCEPT ![c] = "claim"]
  /\ UNCHANGED <<lock, req, answer>>

Leave(c) ==
  /\ pc' = [pc EXCEPT ![c] = "done"]
  /\ req' = [req EXCEPT ![c] = NoRequest]
  /\ answer' = [answer EXCEPT ![c] = NoAnswer]
  /\ op' = [op EXCEPT ![c] = NoOp]
  /\ lock' = [lock EXCEPT ![Home(c)] = Nobody]

\* An error in the automatic reply leaves the request to a person, if it is
\* still open; any other replier hands the error to its caller.
Fail(c) == IF c \in Handlers /\ Open(req[c]) THEN GoTo(c, "mirror") ELSE Leave(c)

\* The request is recorded before the decided policy answers it.  An execution
\* that is proven gone asks nothing; its successor is heard once it is bound.
Ask(c, r) ==
  /\ c \in Handlers /\ r \notin asked
  /\ ~(reset /\ fence)
  /\ asked' = asked \cup {r}
  /\ native' = [native EXCEPT ![r] = "waiting"]
  /\ \/ Enter(c, r, "mirror") /\ UNCHANGED answer
     \/ \E a \in Answers : Enter(c, r, "choose") /\ answer' = [answer EXCEPT ![c] = a]
  /\ UNCHANGED <<resolved, expired, card, moved, sent, fate, rejection>>
  /\ UNCHANGED <<opVars, epochVars>>

Mirror(c) ==
  /\ pc[c] = "mirror"
  /\ card' = [card EXCEPT ![req[c]] = "open"]
  /\ Leave(c)
  /\ UNCHANGED <<asked, resolved, expired>>
  /\ UNCHANGED <<opVars, epochVars, runtimeVars>>

\* A reply, or the dismissal of what is pending when a new message is sent.
Reply(c, r, a) ==
  /\ Open(r)
  /\ \/ c \in AtChild
     \/ c \in AtParent /\ card[r] = "open"
  /\ Enter(c, r, "choose")
  /\ answer' = [answer EXCEPT ![c] = a]
  /\ UNCHANGED <<opVars, logVars, epochVars, runtimeVars>>

\* Wrong variant: whoever finds a prepared reply carries it on with its own.
ResumesAny(c, o) == state[o] = "prepared"

\* A reply somebody prepared is carried on by the same answer only.
Resumes(c, o) == state[o] = "prepared" /\ chosen[o] = answer[c]

\* chooseResponseIntent: one row decides which reply won.
Choose(c, o) ==
  /\ pc[c] = "choose" /\ intent[req[c]] = NoOp /\ Open(req[c])
  /\ state[o] = "absent"
  /\ state' = [state EXCEPT ![o] = "prepared"]
  /\ about' = [about EXCEPT ![o] = req[c]]
  /\ chosen' = [chosen EXCEPT ![o] = answer[c]]
  /\ intent' = [intent EXCEPT ![req[c]] = o]
  /\ CarryOn(c, o)
  /\ UNCHANGED <<logVars, epochVars, runtimeVars>>

\* assertChosenIntent, or "request is not actionable".
FindChosen(c) ==
  /\ pc[c] = "choose"
  /\ LET o == intent[req[c]]
     IN \/ o # NoOp /\ Resumes(c, o) /\ CarryOn(c, o)
        \/ (IF o = NoOp THEN ~Open(req[c]) ELSE ~Resumes(c, o)) /\ Fail(c)
  /\ UNCHANGED <<opVars, logVars, epochVars, runtimeVars>>

Claim(c) ==
  /\ pc[c] = "claim"
  /\ IF state[op[c]] = "prepared"
     THEN /\ state' = [state EXCEPT ![op[c]] = "executing"]
          /\ GoTo(c, "call")
     ELSE Fail(c) /\ UNCHANGED state
  /\ UNCHANGED <<about, chosen, intent>>
  /\ UNCHANGED <<logVars, epochVars, runtimeVars>>

Call(c) ==
  /\ pc[c] = "call"
  /\ sent' = [sent EXCEPT ![op[c]] = answer[c]]
  /\ fate' = [fate EXCEPT ![op[c]] = "pending"]
  /\ GoTo(c, "calling")
  /\ UNCHANGED <<native, moved, rejection>>
  /\ UNCHANGED <<opVars, logVars, epochVars>>

\* A backend applies the first reply to a request it waits for.  What it does
\* not hold, or never held, is missing; anything else it may refuse.
RuntimeActs(o) ==
  /\ fate[o] = "pending"
  /\ \/ /\ native[about[o]] = "waiting"
        /\ native' = [native EXCEPT ![about[o]] = sent[o]]
        /\ fate' = [fate EXCEPT ![o] = "applied"]
     \/ /\ fate' = [fate EXCEPT ![o] = "refused"]
        /\ UNCHANGED native
     \/ /\ native[about[o]] # "waiting" \/ about[o] \in moved
        /\ fate' = [fate EXCEPT ![o] = "missing"]
        /\ UNCHANGED native
  /\ UNCHANGED <<moved, sent, rejection, lock>>
  /\ UNCHANGED <<opVars, logVars, replierVars, epochVars>>

\* The backend stops waiting: its turn ended.
Cancel(r) ==
  /\ native[r] = "waiting"
  /\ native' = [native EXCEPT ![r] = "gone"]
  /\ UNCHANGED <<moved, sent, fate, rejection, lock>>
  /\ UNCHANGED <<opVars, logVars, replierVars, epochVars>>

\* Wrong variant: an error or a timeout is taken for a rejection.
OutcomesWithoutUnknown(o) ==
  IF fate[o] \in {"applied", "refused", "missing"} THEN {fate[o]} ELSE {"missing"}

\* A definite answer, or nothing: an error or a timeout is unknown.
Outcomes(o) ==
  {"unknown"} \cup ({fate[o]} \cap {"applied", "refused", "missing"})

SettledAs(a) ==
  IF a = "applied" THEN "confirmed" ELSE IF a = "unknown" THEN "unknown" ELSE "rejected"

\* Wrong variant: the row goes with every settlement that confirms nothing.
KeepsIfConfirmed(s) == s = "confirmed"

\* Only a reply that certainly failed gives its request back.
KeepsIntent(s) == s \in {"confirmed", "unknown"}

\* Anything else throws, and changes nothing.
Accepts(o, s) == intent[about[o]] = o /\ state[o] \in SettlesFrom(s)

\* settleResponseIntent
SettleResponseIntent(o, s, a) ==
  /\ Accepts(o, s)
  /\ state' = [state EXCEPT ![o] = s]
  /\ intent' = IF KeepsIntent(s) THEN intent ELSE [intent EXCEPT ![about[o]] = NoOp]
  /\ resolved' = IF s = "confirmed" THEN [resolved EXCEPT ![about[o]] = a] ELSE resolved
  /\ UNCHANGED <<about, chosen>>

\* runResponseOperation: the call returns, or its time is up, and the outcome
\* is settled; a settlement that is refused is an error too.
Settle(c) ==
  /\ pc[c] = "calling"
  /\ \E a \in Outcomes(op[c]) :
       IF Accepts(op[c], SettledAs(a))
       THEN /\ SettleResponseIntent(op[c], SettledAs(a), answer[c])
            /\ IF a \in {"applied", "missing"} THEN GoTo(c, a) ELSE Fail(c)
       ELSE Fail(c) /\ UNCHANGED <<opVars, resolved>>
  /\ UNCHANGED <<asked, expired, card>>
  /\ UNCHANGED <<epochVars, runtimeVars>>

\* expirePermissionRequest: the backend does not hold the request any more.
ExpireMissing(c) ==
  /\ pc[c] = "missing"
  /\ expired' = IF Open(req[c]) THEN [expired EXCEPT ![req[c]] = @ \cup {"missing"}] ELSE expired
  /\ GoTo(c, "close card")
  /\ UNCHANGED <<asked, resolved, card>>
  /\ UNCHANGED <<opVars, epochVars, runtimeVars>>

\* A reply closes the parent's card; the dismissal at a send does not.
Applied(c) ==
  /\ pc[c] = "applied"
  /\ \/ GoTo(c, "close card")
     \/ c \in AtChild /\ answer[c] = Dismissal /\ Leave(c)
  /\ UNCHANGED <<opVars, logVars, epochVars, runtimeVars>>

CardClosed(r) == card' = IF card[r] = "open" THEN [card EXCEPT ![r] = "closed"] ELSE card

CloseParentRequestMirror(c) ==
  /\ pc[c] = "close card"
  /\ CardClosed(req[c])
  /\ Leave(c)
  /\ UNCHANGED <<asked, resolved, expired>>
  /\ UNCHANGED <<opVars, epochVars, runtimeVars>>

-----------------------------------------------------------------------------
(* A message sent in the parent: dismissPendingRequests of the parent      *)

\* The parent chooses, claims and calls by an intent row and an operation of
\* its own, under its own lock; "rejection" is the fate of that call, while
\* the row is there.  A send that finds the row unsettled throws.
DismissCard(c, r) ==
  /\ c \in Senders
  /\ card[r] = "open" /\ rejection[r] = "none"
  /\ Enter(c, r, "dismissing")
  /\ rejection' = [rejection EXCEPT ![r] = "pending"]
  /\ UNCHANGED <<answer, native, moved, sent, fate>>
  /\ UNCHANGED <<opVars, logVars, epochVars>>

\* The call names the request and not the session it came from.  A backend
\* that serves both sessions and still waits takes it; the child hears nothing.
ParentRuntimeActs(r) ==
  /\ rejection[r] = "pending"
  /\ \/ /\ native[r] = "waiting"
        /\ native' = [native EXCEPT ![r] = "elsewhere"]
        /\ rejection' = [rejection EXCEPT ![r] = "applied"]
     \/ /\ \E f \in {"refused", "missing"} : rejection' = [rejection EXCEPT ![r] = f]
        /\ UNCHANGED native
  /\ UNCHANGED <<moved, sent, fate, lock>>
  /\ UNCHANGED <<opVars, logVars, replierVars, epochVars>>

\* A confirmed rejection resolves the card and keeps its row, a missing one
\* expires the card, and what certainly failed gives the row back.
DismissalSettled(r) ==
  /\ IF rejection[r] = "refused" THEN UNCHANGED card ELSE CardClosed(r)
  /\ rejection' = IF rejection[r] = "applied" THEN rejection
                  ELSE [rejection EXCEPT ![r] = "none"]

\* The call returns, or an error or a timeout leaves its outcome unknown.
DismissalReturns(c) ==
  /\ pc[c] = "dismissing"
  /\ \/ rejection[req[c]] \in {"applied", "refused", "missing"} /\ DismissalSettled(req[c])
     \/ UNCHANGED <<card, rejection>>
  /\ Leave(c)
  /\ UNCHANGED <<asked, resolved, expired, native, moved, sent, fate>>
  /\ UNCHANGED <<opVars, epochVars>>

\* Reconciliation of the parent settles an unknown rejection of an open card.
EvidenceOfDismissal(r) ==
  /\ Proves /\ lock["parent"] = Nobody
  /\ card[r] = "open" /\ rejection[r] \in {"applied", "refused", "missing"}
  /\ IF rejection[r] = "applied" THEN CardClosed(r) ELSE UNCHANGED card
  /\ rejection' = IF rejection[r] = "applied" THEN rejection
                  ELSE [rejection EXCEPT ![r] = "none"]
  /\ UNCHANGED <<asked, resolved, expired, native, moved, sent, fate, lock>>
  /\ UNCHANGED <<opVars, replierVars, epochVars>>

-----------------------------------------------------------------------------
(* Evidence, crashes, and the replacement of the child's runtime           *)

\* Reconciliation settles an unknown reply of an open request from what the
\* runtime can prove; it never closes the card.
EvidenceSettles(o) ==
  /\ Proves /\ lock["child"] = Nobody
  /\ state[o] = "unknown" /\ Open(about[o])
  /\ \/ fate[o] = "applied" /\ SettleResponseIntent(o, "confirmed", chosen[o])
     \/ fate[o] \notin {"applied", "pending"} /\ SettleResponseIntent(o, "not-applied", chosen[o])
  /\ UNCHANGED <<asked, expired, card, lock>>
  /\ UNCHANGED <<replierVars, epochVars, runtimeVars>>

\* Wrong variant: the code of the interruption is written into the state.
RecoveredAsCode(s) == IF s = "executing" THEN "process-restarted" ELSE s

Recovered(s) == IF s = "executing" THEN "unknown" ELSE s

\* The process dies with its locks; executing rows are unknown at open.
Crash ==
  /\ pc' = [c \in Repliers |-> IF pc[c] = "out" THEN "out" ELSE "done"]
  /\ req' = [c \in Repliers |-> NoRequest]
  /\ answer' = [c \in Repliers |-> NoAnswer]
  /\ op' = [c \in Repliers |-> NoOp]
  /\ lock' = [s \in {"child", "parent"} |-> Nobody]
  /\ state' = [o \in Ops |-> Recovered(state[o])]
  /\ UNCHANGED <<about, chosen, intent>>
  /\ UNCHANGED <<logVars, epochVars, runtimeVars>>

Present == {o \in Ops : state[o] # "absent"}

\* A reset is confirmed; with proof, the old execution is gone and with it
\* every request and call it had.  One left unpublished by a crash is taken up
\* again, with the proof it was confirmed under.
ConfirmReset(proof) ==
  /\ lock["child"] = Nobody
  /\ reset => proof = fence
  /\ lock' = [lock EXCEPT !["child"] = Recovery]
  /\ reset' = TRUE
  /\ older' = IF reset THEN older ELSE Present
  /\ fence' = proof
  /\ IF proof
     THEN /\ native' = [r \in Requests |-> IF native[r] = "waiting" THEN "gone" ELSE native[r]]
          /\ fate' = [o \in Ops |-> IF fate[o] = "pending" THEN "lost" ELSE fate[o]]
     ELSE UNCHANGED <<native, fate>>
  /\ UNCHANGED <<moved, sent, rejection>>
  /\ UNCHANGED <<opVars, logVars, replierVars>>

\* Prepared work was never sent; what runs is unknown, and fenced with proof.
Replaced(o) ==
  IF o \notin older THEN state[o]
  ELSE IF state[o] = "prepared" THEN "rejected"
  ELSE IF state[o] \in {"executing", "unknown"} THEN (IF fence THEN "fenced" ELSE "unknown")
  ELSE state[o]

\* Wrong variant: an epoch expires only requests nobody replied to.
EpochExpiresUnanswered(r) == Open(r) /\ intent[r] = NoOp

\* appendEpochRequestExpirations
EpochExpires(r) == Open(r)

TransitionRuntimeEpoch ==
  /\ lock["child"] = Recovery
  /\ state' = [o \in Ops |-> Replaced(o)]
  /\ expired' = [r \in Requests |->
       IF EpochExpires(r) THEN {IF fence THEN "fenced" ELSE "replaced"} ELSE expired[r]]
  /\ moved' = asked
  /\ reset' = FALSE /\ older' = {} /\ fence' = FALSE
  /\ lock' = [lock EXCEPT !["child"] = Nobody]
  /\ UNCHANGED <<about, chosen, intent, asked, resolved, card, native, sent, fate, rejection>>
  /\ UNCHANGED replierVars

Step(c) ==
  \/ \E r \in Requests : Ask(c, r) \/ \E a \in Answers : Reply(c, r, a)
  \/ Mirror(c) \/ FindChosen(c) \/ \E o \in Ops : Choose(c, o)
  \/ Claim(c) \/ Call(c) \/ Settle(c)
  \/ ExpireMissing(c) \/ Applied(c) \/ CloseParentRequestMirror(c)
  \/ (\E r \in Requests : DismissCard(c, r)) \/ DismissalReturns(c)

Next ==
  \/ \E c \in Repliers : Step(c)
  \/ \E r \in Requests : Cancel(r) \/ ParentRuntimeActs(r) \/ EvidenceOfDismissal(r)
  \/ \E o \in Ops : RuntimeActs(o) \/ EvidenceSettles(o)
  \/ \E proof \in BOOLEAN : ConfirmReset(proof)
  \/ TransitionRuntimeEpoch \/ Crash

Spec == Init /\ [][Next]_vars

-----------------------------------------------------------------------------
RowType ==
  /\ state \in [Ops -> OperationState]
  /\ about \in [Ops -> Requests \cup {NoRequest}]
  /\ chosen \in [Ops -> Answers \cup {NoAnswer}]
  /\ intent \in [Requests -> Ops \cup {NoOp}]

LogType ==
  /\ asked \subseteq Requests
  /\ resolved \in [Requests -> Answers \cup {NoAnswer}]
  /\ expired \in [Requests -> SUBSET {"missing", "replaced", "fenced"}]
  /\ card \in [Requests -> {"none", "open", "closed"}]

ReplierType ==
  /\ lock \in [{"child", "parent"} -> Repliers \cup {Nobody, Recovery}]
  /\ pc \in [Repliers -> {"out", "mirror", "choose", "claim", "call", "calling",
                          "applied", "missing", "close card", "dismissing", "done"}]
  /\ req \in [Repliers -> Requests \cup {NoRequest}]
  /\ answer \in [Repliers -> Answers \cup {NoAnswer}]
  /\ op \in [Repliers -> Ops \cup {NoOp}]

EpochType == reset \in BOOLEAN /\ older \subseteq Ops /\ fence \in BOOLEAN

RuntimeType ==
  /\ native \in [Requests -> Answers \cup {"none", "waiting", "gone", "elsewhere"}]
  /\ moved \subseteq Requests
  /\ sent \in [Ops -> Answers \cup {NoAnswer}]
  /\ fate \in [Ops -> {"none", "pending", "applied", "refused", "missing", "lost"}]
  /\ rejection \in [Requests -> {"none", "pending", "applied", "refused", "missing"}]

TypeOK == RowType /\ LogType /\ ReplierType /\ EpochType /\ RuntimeType

\* What the log says of a request is what the backend did, whoever won the
\* request, whoever carried the reply on, and however late it was confirmed
\* or the request closed (settleResponseIntent, index.ts 3613-3661;
\* assertChosenIntent, sessions.ts 6964-6985).
Promise == INSTANCE OneAnswer WITH agent <- native, told <- resolved, closed <- expired
RepliesKeepPromise == Promise!Spec

MayTakeEffect(o) ==
  \/ fate[o] \in {"pending", "applied"}
  \/ fate[o] = "none" /\ state[o] \in {"prepared", "executing"}

\* Several repliers, retries and crashes leave at most one reply to a request
\* that may take effect: a reply of unknown outcome keeps its request.
OneLiveReply ==
  \A o, p \in Ops : MayTakeEffect(o) /\ MayTakeEffect(p) /\ about[o] = about[p] => o = p

\* "The runtime no longer holds this permission request, so a reply can have
\* had no effect" (sessions.ts 7132-7135): a request is only closed as missing
\* when no reply of this session was heard and none can be.  That something
\* else has answered it, such as a send in the parent, is not excluded.
MissingHeardNoReply ==
  \A r \in Requests : "missing" \in expired[r] =>
    /\ native[r] \in {"gone", "elsewhere"}
    /\ \A o \in Ops : about[o] = r => fate[o] # "applied"

\* A request a person still sees can be answered, or its reply is still to be
\* settled: no open request is stuck behind a reply that is over.
OpenIsAnswerable ==
  \A r \in Requests : Open(r) /\ intent[r] # NoOp => state[intent[r]] \in Blocking

\* With proof that the old execution is gone, an expired request stays
\* expired: no late answer resolves it (transitionOperation throws on
\* a fenced row, index.ts 2053-2063).
FencedStaysExpired ==
  \A r \in Requests : "fenced" \in expired[r] => resolved[r] = NoAnswer

Closing(c, r) == req[c] = r /\ pc[c] \in {"applied", "close card"}

\* "its resolution closes the parent card too" (sessions.ts 15244-15246).
ResolutionClosesCard ==
  \A r \in Requests :
    resolved[r] # NoAnswer /\ card[r] = "open" => \E c \in Repliers : Closing(c, r)

=============================================================================
