SPECIFICATION FairSpec
CONSTANTS
  Timer_Request_Number = 3
  Contexts1 = {d1}
  Contexts2 = {r1, r2}
  UnitsPerTick = 2
  MaxUnits = 2
  None = None
INVARIANTS PoolIsFreeSlots
PROPERTIES EveryTimerEnds
