------------------------- MODULE MCDurableMutation -------------------------
(* DurableMutation with three attempts at one task.                        *)
EXTENDS DurableMutation, TLC

CONSTANTS c1, c2, c3, o1, o2, o3

MCCallers == {c1, c2, c3}
MCOps == {o1, o2, o3}

=============================================================================
