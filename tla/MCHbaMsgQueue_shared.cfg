SPECIFICATION MsgFairSpec
CONSTANTS
  Msg = {m1, m2}
  Adapter = {h1, h2}
  Disk = {d1, d2}
  MaxHotplug = 4
  Scanner = Scanner
  None = None
INVARIANTS EachOnOneList NoLostWakeup RescanComes
PROPERTIES SdevFollowsExist
CHECK_DEADLOCK FALSE
