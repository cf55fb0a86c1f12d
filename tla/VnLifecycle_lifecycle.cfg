CONSTANTS
    Process = {p1, p2}
    MaxCommit = 3
    CallsFail = TRUE
    SilentFails = FALSE
    Exclusive = TRUE
SPECIFICATION Spec
INVARIANT TypeOK
INVARIANT MountOnlyFormatted
INVARIANT FormatDurable
INVARIANT AckedSurvive
PROPERTY HalfFormatFinal
