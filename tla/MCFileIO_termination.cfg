SPECIFICATION FairSpec
CONSTANTS
    t1 = t1
    t2 = t2
    NoThread = NoThread
    h1 = h1
    h2 = h2
    NoHandle = NoHandle
    c1 = c1
    NoCopy = NoCopy
    Thread = {t1, t2}
    Handle = {h1, h2}
    Copy = {c1}
    MaxExt = 1
    MaxVer = 1
    SizeRace = FALSE
    SharedHandles = FALSE
    LockTimeouts = TRUE
    CommitFails = TRUE
    Truncates = TRUE
    TruncRace = TRUE
INVARIANT RefsCounted
INVARIANT ErasedStaysErased
PROPERTY CallsTerminate
