CONSTANTS
    ExtSize = 3
    Byte = {0, 1}
    MaxDeltas = 3
    GapWrites = TRUE
SPECIFICATION Spec
PROPERTY ImplementsExtent
