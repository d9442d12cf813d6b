---------------------------- MODULE MCCoreQueues ----------------------------
\* Model checking of CoreQueues: two processors and a few requests.
EXTENDS CoreQueues, TLC

CONSTANTS p1, p2, r1, r2, u, d1, d2

\* r2 goes to another device than the others.
TwoDevices == [r \in Request |-> IF r = r2 THEN d2 ELSE d1]
=============================================================================
