CONSTANTS
    u1 = u1  h1 = h1  h2 = h2
    Users = {u1}
    Handlers = {h1, h2}
    MaxSessions = 2
    MaxPasswords = 1
SPECIFICATION Spec
INVARIANTS ActiveIsIndexed RevocationReachesAll OldPasswordEndsSession
SYMMETRY Swaps
CONSTRAINT FewAfterFault
