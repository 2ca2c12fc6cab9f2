CONSTANTS
    N = 3
    MaxItems = 8
SPECIFICATION FairSpec
INVARIANTS TypeOK NoDataRace
PROPERTIES ImplementsFifo Drains
