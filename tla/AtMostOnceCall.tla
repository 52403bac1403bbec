--------------------------- MODULE AtMostOnceCall ---------------------------
(***************************************************************************)
(* What a durable mutation promises for one (session, mutation kind): the  *)
(* runtime is called at most once, however often and from however many     *)
(* callers the mutation is asked for, and nobody is told more about its    *)
(* effect than is true.                                                    *)
(***************************************************************************)
EXTENDS Naturals

CONSTANT Callers

VARIABLES
  made,   \* calls made to the runtime
  effect, \* what the runtime did with the call
  answer  \* what each caller was told

vars == <<made, effect, answer>>

Init ==
  /\ made = 0
  /\ effect = "none"
  /\ answer = [c \in Callers |-> "none"]

Make ==
  /\ made = 0
  /\ made' = 1
  /\ effect' = "pending"
  /\ UNCHANGED answer

Act ==
  /\ effect = "pending"
  /\ effect' \in {"applied", "refused"}
  /\ UNCHANGED <<made, answer>>

\* The answers that are true of an effect; "unknown" always is.
Truthful(e) ==
  {"unknown"} \cup (IF e = "applied" THEN {"confirmed", "already-confirmed"} ELSE {})
              \cup (IF e = "refused" THEN {"rejected"} ELSE {})

Answer(c) ==
  /\ answer[c] = "none"
  /\ \E a \in Truthful(effect) : answer' = [answer EXCEPT ![c] = a]
  /\ UNCHANGED <<made, effect>>

Next == Make \/ Act \/ \E c \in Callers : Answer(c)

Spec == Init /\ [][Next]_vars

=============================================================================
