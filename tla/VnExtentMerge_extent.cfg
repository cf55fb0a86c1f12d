CONSTANTS
    ExtSize = 3
    Byte = {0, 1}
    MaxDeltas = 3
    GapWrites = FALSE
SPECIFICATION Spec
INVARIANT TypeOK
INVARIANT LastWriteVisible
INVARIANT DeltasTouch
PROPERTY ImplementsExtent
