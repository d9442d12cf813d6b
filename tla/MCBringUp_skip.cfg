SPECIFICATION Spec
CONSTANTS
    p1 = p1
    Port = {p1}
    NumSlots = 2
    Part <- MCPart
    AtBoot <- FirstEmpty
    AtPlug <- Plugs
    Twin <- Twins
    RetryLimit = 1
    RetryCnt = 2
    MaxFailures = 0
    MaxPlugs = 0
    MaxSlotChanges = 0
    MaxShort = 0
    None = None
PROPERTY ReadySlotIsTaken
CHECK_DEADLOCK FALSE
