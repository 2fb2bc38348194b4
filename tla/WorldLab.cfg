CONSTANTS
    None = None
    c1 = c1  c2 = c2  c3 = c3
    a = a  b = b  oak = oak
    Width = 4  Height = 1
    Collision <- LabFloor
    TileSize = 16
    SpawnObjects <- LabSpawns
    Chars = {a, b}
    Npcs = {oak}
    NpcAt <- LabNpcs
    Zone <- LabZone
    MaxActive = 1
    Capacity = 3
    Radius = 3
    Conns = {c1, c2, c3}
    MayEnter <- OneCharacterEach
    Stored <- Middle
    MaxInstances = 2
    MaxObjects = 2
    MaxSequence = 1
    MaxInFlight = 2
SPECIFICATION Spec
INVARIANTS CapacityRespected BodiesHaveSessions
PROPERTIES SessionLostOnlyToOwnCharacter
