CONSTANTS
    Thread = {t1, t2}
    NoThread = NoThread
    Name = {a}
    Dir = {2, 12}
    MaxIno = 14
    MaxLinks = 2
    SeedRace = FALSE
    LockTimeouts = FALSE
SYMMETRY Symmetry
SPECIFICATION Spec
INVARIANT UniqueInode
INVARIANT SeedAboveInodes
PROPERTY CreateNeverReplaces
PROPERTY ImplementsDirectory
