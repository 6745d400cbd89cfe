CONSTANTS
    Requests = {r1, r2, r3}
    First = First
    None = None
SYMMETRY RequestSymmetry
SPECIFICATION Spec
CHECK_DEADLOCK FALSE
INVARIANTS TypeOK ResetTokenRedeemedOnce SessionsOutliveOnlyByOverlap AfterDeleteOnce
PROPERTIES ChangeReplacesVerified
