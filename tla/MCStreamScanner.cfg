SPECIFICATION Spec
CONSTANTS
    DataCap = 1
    MaxLines = 3
INVARIANTS StopNeverBlocks  NothingLost
PROPERTIES EndIsNoticed 
CHECK_DEADLOCK FALSE
