--------------------------- MODULE MessageDelivery ---------------------------
(***************************************************************************)
(* What a session promises for each message a user writes.                 *)
(*                                                                         *)
(* A message that was accepted is kept, where the user can see it, until   *)
(* the runtime has acted on it and said so, or until the user takes it     *)
(* back; there is no other way for it to go.  The runtime acts on it at    *)
(* most once while the user leaves it alone, whether anybody still waits   *)
(* for the answer or not.  A message taken back or rewritten may have been *)
(* acted on, or may still be: what then happens is a new intent.           *)
(***************************************************************************)
EXTENDS Naturals

CONSTANT Msgs

VARIABLES
  status,   \* new, kept, delivered or withdrawn
  applied   \* how often the runtime acted on it

vars == <<status, applied>>

Init ==
  /\ status = [m \in Msgs |-> "new"]
  /\ applied = [m \in Msgs |-> 0]

Accept(m) ==
  /\ status[m] = "new"
  /\ status' = [status EXCEPT ![m] = "kept"]
  /\ UNCHANGED applied

\* The runtime acts on a message; on one that is left alone, once.
Apply(m) ==
  /\ status[m] # "new"
  /\ status[m] = "withdrawn" \/ applied[m] = 0
  /\ applied' = [applied EXCEPT ![m] = @ + 1]
  /\ UNCHANGED status

\* The user is told; a message that was not acted on is not delivered.
Deliver(m) ==
  /\ status[m] = "kept" /\ applied[m] > 0
  /\ status' = [status EXCEPT ![m] = "delivered"]
  /\ UNCHANGED applied

\* A delivered message may still be up for review (the answer came late), and
\* the user may rewrite it.
Withdraw(m) ==
  /\ status[m] \in {"kept", "delivered"}
  /\ status' = [status EXCEPT ![m] = "withdrawn"]
  /\ UNCHANGED applied

Next == \E m \in Msgs : Accept(m) \/ Apply(m) \/ Deliver(m) \/ Withdraw(m)

Spec == Init /\ [][Next]_vars

=============================================================================
