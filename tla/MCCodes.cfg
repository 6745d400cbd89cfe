CONSTANTS
    Requests = {r1, r2}
    OldCode = OldCode
    OldUser = OldUser
    None = None
    Emails = {a, b}
    Phones = {p}
    a = a
    b = b
    p = p
    TempEmail = TempEmail
    Text <- MCText
    AllowedAttempts = 2
    Adapters = {"memory", "sql"}
    Configs <- OptionSets
    Beginnings <- Starts
SYMMETRY Symmetry
SPECIFICATION Spec
CHECK_DEADLOCK FALSE
INVARIANTS CodeDies GuessesBounded 
