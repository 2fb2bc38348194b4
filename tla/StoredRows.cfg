CONSTANTS
    None = None
    c1 = c1  c2 = c2  c3 = c3
    a = a
    Width = 3  Height = 1
    Collision <- Corridor
    TileSize = 16
    SpawnObjects <- CorridorSpawns
    Chars = {a}
    Npcs = {}
    NpcAt <- NoNpcs
    Zone = {}
    MaxActive = 0
    Capacity = 2
    Radius = 2
    Conns = {c1, c2, c3}
    MayEnter <- OneCharacter
    Stored <- NothingStored
    MaxInstances = 1
    MaxObjects = 1
    MaxSequence = 2
    MaxInFlight = 2
    MaxSaves = 2
SPECIFICATION StoreSpec
INVARIANTS PersistsLatest
PROPERTIES DepartureSavesTheBody
SYMMETRY Sockets
