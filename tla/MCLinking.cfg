CONSTANTS
    Requests = {r1, r2}
    Old = {o1, o2}
    Flows = {f1}
    Emails = {e1, e2}
    Identities = {i1}
    Credential = Credential
    None = None
    Configs <- TwoConfigs
    MaxEvents = 1
SYMMETRY Symmetry
SPECIFICATION Spec
CHECK_DEADLOCK FALSE
INVARIANTS TypeOK StateRedeemedOnce OneAccountPerIdentity VerifiedWasProved
PROPERTIES LastAccountKept LinkKeepsOwner SessionNeedsAccount ImplicitLinkIsProved
