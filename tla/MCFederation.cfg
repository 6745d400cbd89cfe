CONSTANTS
    Requests = {r1, r2}
    UserIds = {u1, u2}
    Emails = {e1, e2}
    AccountIds = {a1, a2}
    States = {s1}
    Tokens = {t1, t2}
    Generic = {g}
    SSOIds = {p1}
    None = None
SYMMETRY Renamings
SPECIFICATION Spec
INVARIANTS TokenHonoured IdentityKeepsUser
