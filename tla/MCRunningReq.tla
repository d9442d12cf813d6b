---------------------------- MODULE MCRunningReq ----------------------------
\* Model checking of RunningReq: two senders, three requests for two devices.
EXTENDS RunningReq, TLC

CONSTANTS p1, p2, r1, r2, r3, d1, d2

TwoDevices == r1 :> d1 @@ r2 :> d1 @@ r3 :> d2

\* The senders are alike, and so are the two requests for d1.
Symmetry == Permutations(Sender) \cup Permutations({r1, r2})
=============================================================================
