SPECIFICATION Spec
CONSTANTS
    ExtSize = 2
    Byte = {1, 2}
    MaxSize = 5
    MaxLen = 4
    MaxIov = 2
    Word = 256
    Odd = {}
INVARIANT TypeOK
PROPERTY ImplementsPosixFile
