CONSTANTS
    PortKind = "tcp"
    MaxParts = 2
    MaxGen = 5
    MaxPackets = 2
SPECIFICATION FairSpec
INVARIANTS TypeOK LinkConsistent OneReader OneWriter PostsCurrent
PROPERTIES ErrorSticky ImplementsContract AttemptSettles PacketSettles
CHECK_DEADLOCK FALSE
