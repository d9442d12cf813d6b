--------------------------- MODULE MCRegisterSets ---------------------------
\* Model checking of RegisterSets: disk d1 with two queued requests, one of
\* them small, and one that is not queued; disk d2 with one that is not; one set.
EXTENDS RegisterSets
CONSTANTS d1, d2, a1, a2, a3, b1
MCDeviceOf == [r \in {a1, a2, a3, b1} |-> IF r = b1 THEN d2 ELSE d1]
=============================================================================
