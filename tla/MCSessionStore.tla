--------------------------- MODULE MCSessionStore ---------------------------
(* SessionStore on small instances.                                        *)
EXTENDS SessionStore, TLC

CONSTANTS o1, o2, o3, m1, m2

MCOps2 == {o1, o2}
MCOps3 == {o1, o2, o3}
MCMsgs1 == {m1}
MCMsgs2 == {m1, m2}

\* Operation ids are interchangeable where none of them is replayable.
MCOps3Symmetry == Permutations(MCOps3)

=============================================================================
