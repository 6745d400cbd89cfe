CONSTANTS
    Requests = {r1, r2}
    Challenges = {c}
    BackupCodes = {b}
    None = None
    AllowedAttempts = 1
    MaxFailedAttempts = 2
    Duration = 2
    Overlapping = {"backup"}
    SkipVerification = {TRUE, FALSE}
SPECIFICATION Spec
CHECK_DEADLOCK FALSE
PROPERTIES UsedOnce LimitsHold LockEnds
