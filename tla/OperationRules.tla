--------------------------- MODULE OperationRules ---------------------------
(***************************************************************************)
(* The life of one row of the table runtime_operations: the states a       *)
(* durable runtime mutation can be in and the settlements each state       *)
(* accepts.  Constant-level rules only; every module that keeps operations *)
(* uses them.                                                              *)
(***************************************************************************)

\* An operation that still owns its outcome: nothing else may be concluded
\* about the mutation while it is in one of these states.
Blocking == {"prepared", "executing", "unknown"}

\* No settlement leaves one of these.
Terminal == {"confirmed", "rejected", "not-applied", "fenced"}

\* "absent": the row is not in the table.
OperationState == {"absent"} \cup Blocking \cup Terminal

Settlement == {"confirmed", "rejected", "unknown", "not-applied"}

\* Wrong variant: evidence may still confirm a fenced operation.
LateConfirmSettlesFrom(settlement) ==
  CASE settlement = "confirmed"   -> {"executing", "unknown", "fenced"}
    [] settlement = "rejected"    -> {"prepared", "executing"}
    [] settlement = "unknown"     -> {"executing"}
    [] settlement = "not-applied" -> {"unknown"}

\* The table transitionOperation consults before it writes: the states from
\* which a settlement is accepted.  Any other pair throws.
SettlesFrom(settlement) ==
  CASE settlement = "confirmed"   -> {"executing", "unknown"}
    [] settlement = "rejected"    -> {"prepared", "executing"}
    [] settlement = "unknown"     -> {"executing"}
    [] settlement = "not-applied" -> {"unknown"}

=============================================================================
