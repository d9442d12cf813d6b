SPECIFICATION Spec
CONSTANTS
    r1 = r1
    r2 = r2
    r3 = r3
    d1 = d1
    d2 = d2
    None = None
    Request = {r1, r2, r3}
    Device = {d1, d2}
    DeviceOf <- MCDeviceOf
    KindsOf <- MCKindsOf
    MaxShort = 1
    LoneShort = TRUE
    Unplugged = {d1}
    QuietUnplug = TRUE
INVARIANTS NoErrorLost RecoversAlone GivenBackOnce
PROPERTIES NoSetDownInWalk EveryErrorEnds
CHECK_DEADLOCK FALSE
