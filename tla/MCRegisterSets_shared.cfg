SPECIFICATION FairSpec
CONSTANTS
  d1 = d1
  d2 = d2
  a1 = a1
  a2 = a2
  a3 = a3
  b1 = b1
  Device = {d1, d2}
  Request = {a1, a2, a3, b1}
  DeviceOf <- MCDeviceOf
  Ncq = {a1, a2}
  Small = {a1}
  Sets = 1
  queue_depth = 2
  MaxFailures = 1
  MaxShort = 1
  NO_REGISTER_SET = NO_REGISTER_SET
INVARIANTS SetsOwned SetsReturned CommandsOnOwnSet QueuedApart
PROPERTIES NoRequestStarved
CHECK_DEADLOCK FALSE
