---------------------------- MODULE MCErrorQueue ----------------------------
EXTENDS ErrorQueue, TLC
CONSTANTS r1, r2, r3, d1, d2
MCDeviceOf == r1 :> d1 @@ r2 :> d1 @@ r3 :> d2
\* two disks behind an expander, and two pairs of direct ones
MCKindsOf == {d1 :> "sspx" @@ d2 :> "stp", d1 :> "sata" @@ d2 :> "ssp",
              d1 :> "ssp" @@ d2 :> "atapi"}
=============================================================================
