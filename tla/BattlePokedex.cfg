CONSTANTS
    None = None
    b1 = b1  b2 = b2
    v1 = v1  v2 = v2
    Characters = {c1}
    BaseStats <- TwoSpecies
    Pairings <- EvenMatch
    Lead <- Pidgey
    ZoneEntries <- Grass
    BallBonuses = {1, 6}
    Battles = {b1, b2}
    Visits = {v1, v2}
    MaxDate = 3
SPECIFICATION Spec
INVARIANTS TypeOK OutcomeFitsHp CaughtWasCaptured CapturedIsCaught
PROPERTIES OutcomeIsFinal NoFreeTurn FirstDatesStay
SYMMETRY Names
