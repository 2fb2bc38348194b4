CONSTANTS
    None = None
    t1 = t1  t2 = t2  c1 = c1  c2 = c2
    Tokens = {t1, t2}
    Callers = {c1, c2}
    Ttl = 2
    MaxTime = 6
SPECIFICATION AccessSpec
INVARIANTS RevokedStaysOut
SYMMETRY Names
