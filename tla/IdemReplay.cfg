CONSTANTS
    None = None
    r1 = r1  r2 = r2  r3 = r3  r4 = r4
    p = p  q = q
    Requests = {r1, r2, r3, r4}
    Payload <- TwoPayloads
SPECIFICATION Spec
INVARIANTS ReplayMatchesPayload FailureIsOfSomeAttempt ExclusiveWhileClaimed
PROPERTIES GrantsRights
SYMMETRY Retries
CHECK_DEADLOCK FALSE
