CONSTANTS
    PortKind = "serial"
    MaxParts = 2
    MaxGen = 5
    MaxPackets = 2
SPECIFICATION Spec
INVARIANTS LinkConsistent OneReader OneWriter
CHECK_DEADLOCK FALSE
