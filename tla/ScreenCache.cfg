SPECIFICATION Spec
CONSTANTS
    MaxWrites = 2
CHECK_DEADLOCK FALSE
INVARIANTS TypeOK OwnWriteShows
PROPERTIES PolledCatchesUp OwnWriteArrives
