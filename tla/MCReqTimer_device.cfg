SPECIFICATION FairSpec
CONSTANTS
  d1 = d1
  r1 = r1
  r2 = r2
  r3 = r3
  Device = {d1}
  Request = {r1, r2, r3}
  DeviceOf <- OneDevice
  Time_Out <- TimeOuts
  Timer_Request_Number <- RequestCount
  queue_depth = 2
  DefaultSeconds = 1
  EraseRequest = {r2}
  EraseSeconds = 2
  UnitsPerTick = 2
  MaxUnits = 2
  MaxOverlap = 1
  None = None
INVARIANTS TimerForOldest WatchedUnlessOverlapped NoOrphanTimer
PROPERTIES TimesOutOldest NoRequestStuck
