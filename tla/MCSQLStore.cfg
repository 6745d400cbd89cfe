CONSTANTS
    Callers = {c1, c2}
    UserIds = {u1, u2}
    Emails = {e1, e2}
    AccountIds = {a1, a2}
    Providers = {p1}
    ExternalIds = {x1}
    Secrets = {s1}
    Tokens = {t1}
    Stamps = {m1, m2}
    Identifiers = {i1}
    Values = {v1}
    None = None
SYMMETRY Renamings
SPECIFICATION Spec
PROPERTY ImplementsContract
