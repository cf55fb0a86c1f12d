SPECIFICATION Spec
CONSTANTS
    t1 = t1
    t2 = t2
    NoThread = NoThread
    h1 = h1
    h2 = h2
    NoHandle = NoHandle
    c1 = c1
    NoCopy = NoCopy
    Thread = {t1, t2}
    Handle = {h1, h2}
    Copy = {c1}
    MaxExt = 2
    MaxVer = 2
    SizeRace = FALSE
    SharedHandles = FALSE
    LockTimeouts = FALSE
    CommitFails = FALSE
    Truncates = TRUE
    TruncRace = FALSE
SYMMETRY Symmetry
INVARIANT TypeOK
INVARIANT FsyncDurable
INVARIANT WriteAllOrNothing
INVARIANT SizeRecorded
INVARIANT NoLockCycle
INVARIANT ErasedStaysErased
