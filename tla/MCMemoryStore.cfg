CONSTANTS
    UserIds = {u1, u2}
    Emails = {e1, e2}
    AccountIds = {a1, a2}
    Providers = {p1}
    ExternalIds = {x1, x2}
    Secrets = {s1, s2}
    Tokens = {t1, t2}
    Stamps = {m1}
    Identifiers = {i1}
    Values = {v1}
    None = None
SYMMETRY IdSymmetry
SPECIFICATION Spec
INVARIANTS TypeOK EmailIndexSound AccountIndexesSound SessionIndexExact
PROPERTIES DeleteUserCascades ImplementsContract
