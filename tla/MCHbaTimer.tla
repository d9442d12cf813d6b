----------------------------- MODULE MCHbaTimer -----------------------------
\* Model checking of HbaTimer with callers that do whatever they like.
EXTENDS HbaTimer
=============================================================================
