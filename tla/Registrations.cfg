CONSTANTS
    None = None
    Users = {u1, u2, u3, u4}
    Names = {n1, n2, n3}
    Emails = {e1, e2}
    Phones = {t1}
    Handlers = {h1, h2}
    MaxAccounts = 2
SPECIFICATION Spec
INVARIANTS EveryAccountCounted
PROPERTIES LimitsContacts DeletedStaysDeleted
SYMMETRY Interchangeable
