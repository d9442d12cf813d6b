SPECIFICATION FairSpec
CONSTANTS
  NumPorts = 3
  Disk = {0, 1}
  MaxShort = 1
  MaxPull = 1
INVARIANTS OneDiskRecovers AsyNotifyRestored
PROPERTIES EveryErrorEnds
CHECK_DEADLOCK FALSE
