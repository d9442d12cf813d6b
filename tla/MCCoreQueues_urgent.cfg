SPECIFICATION FairSpec
CONSTANTS
  p1 = p1
  p2 = p2
  r1 = r1
  r2 = r2
  u = u
  d1 = d1
  d2 = d2
  Processor = {p1, p2}
  Timer = p1
  Request = {r1, r2, u}
  Urgent = {u}
  Small = {r1}
  Device = {d1, d2}
  DeviceOf <- TwoDevices
  queue_depth = 1
  Slots = 1
  MaxSubmit = 3
  MaxPause = 1
  None = None
INVARIANTS InOnePlace OutstandingExact
PROPERTIES NoRequestStuck
CHECK_DEADLOCK FALSE
