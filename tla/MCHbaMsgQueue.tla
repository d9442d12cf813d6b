---------------------------- MODULE MCHbaMsgQueue ----------------------------
\* Model checking of HbaMsgQueue: one adapter with a list that overflows, or
\* two adapters that share it.
EXTENDS HbaMsgQueue
=============================================================================
