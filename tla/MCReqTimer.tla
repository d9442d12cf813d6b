----------------------------- MODULE MCReqTimer -----------------------------
\* Model checking of ReqTimer: one device, and as many timer slots as
\* Timer_GetRequestCount reserves.
EXTENDS ReqTimer, TLC

CONSTANTS d1, r1, r2, r3

\* Timer_GetRequestCount: (devices + 1) * 2.
RequestCount == (Cardinality(Device) + 1) * 2

\* The requests ask for as much as the default, for more, and for nothing.
TimeOuts == [r \in Request |-> CASE r = r1 -> 1 [] r = r2 -> 2 [] r = r3 -> 0]

OneDevice == [r \in Request |-> d1]
=============================================================================
