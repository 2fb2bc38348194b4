CONSTANTS
    None = None
    Emails = {e1, e2}
    Phones = {t1}
    Secrets = {s1, s2}
    Tokens = {k1, k2}
    Handlers = {h1, h2}
SPECIFICATION Spec
INVARIANTS TypeOK EnabledWasConfirmed VerifiedWasMarked
PROPERTIES LimitsUses
SYMMETRY Interchangeable
