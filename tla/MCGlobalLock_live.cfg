SPECIFICATION LockFairSpec
CONSTANTS
  p1 = p1
  p2 = p2
  p3 = p3
  Processor = {p1, p2, p3}
  Timer = p1
  MaxWork = 2
  Nobody = Nobody
INVARIANTS OneIntruder
PROPERTIES GlobalLockEntered QueuesHandled
