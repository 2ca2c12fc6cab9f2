CONSTANTS
    PortKind = "serial"
    MaxParts = 2
    MaxGen = 5
    MaxPackets = 2
SPECIFICATION Spec
INVARIANT NeverConcurrent
CHECK_DEADLOCK FALSE
