\* Smaller than MCMemoryStore: users and emails are all this question is about.
CONSTANTS
    UserIds = {u1, u2}
    Emails = {e1, e2}
    AccountIds = {a1}
    Providers = {p1}
    ExternalIds = {x1}
    Secrets = {s1}
    Tokens = {t1}
    Stamps = {m1}
    Identifiers = {i1}
    Values = {v1}
    None = None
SYMMETRY IdSymmetry
SPECIFICATION Spec
INVARIANT EmailUnique
