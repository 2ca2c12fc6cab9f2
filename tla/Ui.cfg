CONSTANTS
    MaxTc = 3
    MaxCommands = 2
    MaxDowns = 2
    MaxChanges = 1
SPECIFICATION FairSpec
INVARIANTS TypeOK OneWayBack DeviceView TcsInOrder
PROPERTIES Reconnects
CHECK_DEADLOCK FALSE
