CONSTANTS
    Thread = {t1, t2}
    NoThread = NoThread
    Name = {a}
    Dir = {2, 12}
    MaxIno = 13
    MaxLinks = 2
    SeedRace = FALSE
    LockTimeouts = TRUE
SYMMETRY Symmetry
SPECIFICATION Spec
PROPERTY CreateNeverReplaces
