SPECIFICATION Spec
CONSTANTS
    p1 = p1
    Port = {p1}
    NumSlots = 2
    Part <- MCPart
    AtBoot <- Boots
    AtPlug <- Plugs
    Twin <- Twins
    RetryLimit = 1
    RetryCnt = 1
    MaxFailures = 1
    MaxPlugs = 2
    MaxSlotChanges = 1
    MaxShort = 1
    None = None
INVARIANTS MachinesTakeTurns NothingForgotten
PROPERTIES InitEnds KnownMatchesAttached
CHECK_DEADLOCK FALSE
