CONSTANTS
    None = None
    c1 = c1  c2 = c2  c3 = c3
    a = a  b = b  oak = oak
    Width = 4  Height = 1
    Collision <- Corridor
    TileSize = 16
    SpawnObjects <- CorridorSpawns
    Chars = {a, b}
    Npcs = {}
    NpcAt <- NoNpcs
    Zone = {}
    MaxActive = 0
    Capacity = 2
    Radius = 2
    Conns = {c1, c2}
    MayEnter <- AnyCharacter
    Stored <- MiddleOrNone
    MaxInstances = 1
    MaxObjects = 2
    MaxSequence = 1
    MaxInFlight = 2
SPECIFICATION Spec
INVARIANTS ClosedSocketHasNoSession
