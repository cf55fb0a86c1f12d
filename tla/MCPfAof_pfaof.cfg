CONSTANTS
    Name = {a, b}
    Handle = {h1, h2}
    MaxLen = 2
    MaxGen = 2
    MaxBack = 1
    MaxLost = 1
    Errno = 1
    ReadFails = TRUE
    Reuses = TRUE
SPECIFICATION Spec
SYMMETRY Symmetry
INVARIANT TypeOK
INVARIANT CountsMatch
 
