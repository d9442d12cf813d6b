SPECIFICATION Spec
CONSTANTS
  p1 = p1
  p2 = p2
  r1 = r1
  r2 = r2
  r3 = r3
  d1 = d1
  d2 = d2
  Sender = {p1, p2}
  Request = {r1, r2, r3}
  Device = {d1, d2}
  DeviceOf <- TwoDevices
  Slot = {1, 2}
  None = None
INVARIANTS SlotsExact OutstandingExact NothingActiveGivenBack
SYMMETRY Symmetry
