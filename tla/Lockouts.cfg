CONSTANTS
    None = None
    Identifiers = {i1}
    Handlers = {h1, h2, h3}
    MaxAttempts = 2
    MaxFails = 4
SPECIFICATION FairSpec
PROPERTIES LimitsAttempts CountForgotten
