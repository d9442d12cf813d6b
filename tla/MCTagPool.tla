------------------------------ MODULE MCTagPool ------------------------------
\* Model checking of TagPool: a FIFO ring, as the command slots are kept, with
\* a handful of tags.  FILO pools are covered by the proofs.
EXTENDS TagPool
=============================================================================
