CONSTANTS
    None = None
    mercury = mercury  venus = venus
    ash = ash  Ash = Ash  gary = gary
    Ids = {i1, i2, i3}
    Accounts = {a1, a2}
    ServerStatus <- Planets
    Fold <- LowerCase
    Spawns = {p1}
    Handlers = {h1, h2, h3}
    MaxCharacters = 2
SPECIFICATION Spec
INVARIANTS TypeOK ExactNameOnce
PROPERTIES LimitsCharacters LimitsNames
SYMMETRY Interchangeable
