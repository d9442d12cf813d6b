---------------------------- MODULE MCGlobalLock ----------------------------
\* Model checking of GlobalLock with a few processors.
EXTENDS GlobalLock

CONSTANTS p1, p2, p3
=============================================================================
