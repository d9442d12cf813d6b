---------------------------- MODULE MCPmRecovery ----------------------------
\* Model checking of PmRecovery: three ports, the last one empty.
EXTENDS PmRecovery
=============================================================================
