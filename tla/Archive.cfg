CONSTANTS
    Names <- Spelled
    BadNames <- Refused
    FileSizes = {0, 1, 2}
    Walk <- Order
    MaxLength = 3
    MaxBytes = 3
    MaxEntries = 3
    NoTree = NoTree
SPECIFICATION UnpackSpec
CHECK_DEADLOCK FALSE
INVARIANTS
    Contained
    
    
