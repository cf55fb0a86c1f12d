SPECIFICATION Spec
CONSTANTS
    ExtSize = 2
    Byte = {1, 2}
    MaxSize = 5
    MaxLen = 3
    MaxIov = 2
    Word = 256
    Odd = {"unaligned"}
PROPERTY ImplementsPosixFile
