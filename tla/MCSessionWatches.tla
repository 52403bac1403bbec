-------------------------- MODULE MCSessionWatches --------------------------
EXTENDS SessionWatches

\* A watch for the ends of its source, which also hears of pauses. What it
\* does not ask for are the stops that are retried.
MCEventSets == {{"completed", "aborted"}}
=============================================================================
