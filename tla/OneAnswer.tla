------------------------------ MODULE OneAnswer ------------------------------
(***************************************************************************)
(* What the log of a session promises about the requests of its agent.     *)
(*                                                                         *)
(* Several people, policy and the parent session may answer a request, and *)
(* the agent may be gone.  The agent hears one answer at most; the log     *)
(* tells one at most, and only the one the agent heard.  The agent may also*)
(* be answered behind the session's back; of that the log tells nothing.   *)
(* A request is closed only while nothing is told of it: as missing, when  *)
(* the agent has given it up or was answered elsewhere, and can never hear *)
(* an answer of this session; as fenced, when the agent waits no more, and *)
(* then the log stays silent about it for good.                            *)
(***************************************************************************)
CONSTANTS Requests, Answers, NoAnswer

VARIABLES
  agent,   \* none, waiting, gone, elsewhere, or the answer the agent heard
  told,    \* the answer the log tells, if it does
  closed   \* why the log calls the request over: missing, replaced, fenced

vars == <<agent, told, closed>>

Init ==
  /\ agent = [r \in Requests |-> "none"]
  /\ told = [r \in Requests |-> NoAnswer]
  /\ closed = [r \in Requests |-> {}]

Ask(r) ==
  /\ agent[r] = "none"
  /\ agent' = [agent EXCEPT ![r] = "waiting"]
  /\ UNCHANGED <<told, closed>>

Hear(r, a) ==
  /\ agent[r] = "waiting"
  /\ agent' = [agent EXCEPT ![r] = a]
  /\ UNCHANGED <<told, closed>>

HearElsewhere(r) ==
  /\ agent[r] = "waiting"
  /\ agent' = [agent EXCEPT ![r] = "elsewhere"]
  /\ UNCHANGED <<told, closed>>

\* An agent may stop waiting for one request, or go with all it waited for.
GiveUp(rs) ==
  /\ \A r \in rs : agent[r] = "waiting"
  /\ agent' = [r \in Requests |-> IF r \in rs THEN "gone" ELSE agent[r]]
  /\ UNCHANGED <<told, closed>>

Tell(r) ==
  /\ agent[r] \in Answers /\ told[r] = NoAnswer
  /\ "fenced" \notin closed[r]
  /\ told' = [told EXCEPT ![r] = agent[r]]
  /\ UNCHANGED <<agent, closed>>

MayClose(r, why) ==
  /\ agent[r] # "none" /\ told[r] = NoAnswer /\ closed[r] = {}
  /\ why = "missing" => agent[r] \in {"gone", "elsewhere"}
  /\ why = "fenced" => agent[r] # "waiting"

Close(rs, why) ==
  /\ \A r \in rs : MayClose(r, why)
  /\ closed' = [r \in Requests |-> IF r \in rs THEN {why} ELSE closed[r]]
  /\ UNCHANGED <<agent, told>>

Next ==
  \/ \E r \in Requests : Ask(r) \/ HearElsewhere(r) \/ Tell(r) \/ \E a \in Answers : Hear(r, a)
  \/ \E rs \in SUBSET Requests :
       GiveUp(rs) \/ \E why \in {"missing", "replaced", "fenced"} : Close(rs, why)

Spec == Init /\ [][Next]_vars

=============================================================================
