CONSTANTS
    Requests = {r1, r2}
    Old = {o1, o2}
    Flows = {f1}
    Emails = {e1, e2}
    Identities = {i1}
    Credential = Credential
    None = None
    Configs <- TwoConfigs
    MaxEvents = 0
SYMMETRY Symmetry
SPECIFICATION Spec
CHECK_DEADLOCK FALSE
PROPERTIES NeverUnlinksLast
