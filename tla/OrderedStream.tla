--------------------------- MODULE OrderedStream ----------------------------
(***************************************************************************)
(* What the outbox promises its consumer: every event once at least, first *)
(* sightings in the order of the stream, and an event acknowledged only    *)
(* after it was seen.  Repeats change nothing here: the consumer tells them*)
(* apart by installation and event id.                                     *)
(***************************************************************************)
EXTENDS Naturals

CONSTANT MaxEvents

VARIABLES
    appended,   \* events written so far
    seen,       \* events the consumer saw
    delivered   \* events acknowledged

vars == <<appended, seen, delivered>>

Init == appended = 0 /\ seen = {} /\ delivered = {}

Append ==
    /\ appended < MaxEvents
    /\ appended' = appended + 1
    /\ UNCHANGED <<seen, delivered>>

\* All that came before it is acknowledged.
OnlyAfter(e) == 1..(e - 1) \subseteq delivered

See(e) ==
    /\ e \in 1..appended /\ OnlyAfter(e)
    /\ seen' = seen \cup {e}
    /\ UNCHANGED <<appended, delivered>>

Acknowledge(e) ==
    /\ e \in seen /\ OnlyAfter(e)
    /\ delivered' = delivered \cup {e}
    /\ UNCHANGED <<appended, seen>>

Next == Append \/ \E e \in 1..MaxEvents : See(e) \/ Acknowledge(e)

Spec == Init /\ [][Next]_vars
=============================================================================
