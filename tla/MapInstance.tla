---------------------------- MODULE MapInstance ----------------------------
(***************************************************************************)
(* The map geometry and one running copy of a map: the grid of the world   *)
(* map, the entities that stand on it, and the two indexes a MapInstance   *)
(* keeps of them, `entities` (who is where) and `occupied` (who holds a    *)
(* tile).  Operations are operators from an instance to an instance; the   *)
(* guards the code checks before each of them are operators of their own,  *)
(* and World.tla puts both together in its actions.                        *)
(***************************************************************************)
EXTENDS Integers, Sequences, FiniteSets

CONSTANTS
    Width, Height,  \* the Tiled map is a Width x Height grid, floor z = 0 only
    Collision,      \* the gids of the Collision layer, row after row
    SpawnObjects,   \* objects of the Spawns layer in file order: pixels <<x, y>>
    TileSize,       \* pixels per tile
    Chars,          \* character ids
    Npcs, NpcAt,    \* NPC definitions of metadata.json and the tile of each
    Zone, MaxActive,\* the spawn zone of metadata.json and its maxActive
    Capacity,       \* DEFAULT_INSTANCE_CAPACITY
    Radius,         \* DEFAULT_INTEREST_RADIUS
    None            \* no entity, no tile, no session

ASSUME GridAssumption ==
    /\ Width \in Nat \ {0} /\ Height \in Nat \ {0} /\ TileSize \in Nat \ {0}
    /\ Collision \in Seq(Nat) /\ SpawnObjects \in Seq(Int \X Int)
    /\ Capacity \in Nat \ {0} /\ MaxActive \in Nat /\ Radius \in Nat

(***************************************************************************)
(* Geometry                                                                *)
(***************************************************************************)
Tiles == (0 .. Width - 1) \X (0 .. Height - 1)

\* loadMap reads the layer by rows; what it lacks is free.
Collides(p) ==
    LET i == p[2] * Width + p[1] + 1
    IN  i \in DOMAIN Collision /\ Collision[i] # 0

IsWalkable(p) == p \in Tiles /\ ~Collides(p)

\* The spawn points, which may lie outside the grid or in a wall.
Spawns == [i \in DOMAIN SpawnObjects |->
              <<SpawnObjects[i][1] \div TileSize, SpawnObjects[i][2] \div TileSize>>]

Directions == {"UP", "DOWN", "LEFT", "RIGHT"}

Delta == [UP |-> <<0, -1>>, DOWN |-> <<0, 1>>, LEFT |-> <<-1, 0>>, RIGHT |-> <<1, 0>>]

\* Mutant: two tiles per step.
OffsetTwoTiles(p, d) == <<p[1] + 2 * Delta[d][1], p[2] + 2 * Delta[d][2]>>

Offset(p, d) == <<p[1] + Delta[d][1], p[2] + Delta[d][2]>>

\* Chebyshev distance of at most Radius.
Within(p, q) ==
    /\ p[1] - q[1] \in -Radius .. Radius
    /\ p[2] - q[2] \in -Radius .. Radius

(***************************************************************************)
(* Entities.  A wild Pokemon gets a random id and never moves or leaves,   *)
(* so the tile it stands on names it.                                      *)
(***************************************************************************)
Player(ch) == [kind |-> "PLAYER", id |-> ch]
Npc(n)     == [kind |-> "NPC", id |-> n]
Wild(p)    == [kind |-> "POKEMON", id |-> p]

NpcIds   == {Npc(n) : n \in Npcs}
WildIds  == {Wild(p) : p \in Zone}
EntityId == {Player(ch) : ch \in Chars} \cup NpcIds \cup WildIds

\* The tile an entity that was not placed by a player is created on.
Home(e) == IF e.kind = "NPC" THEN NpcAt[e.id] ELSE e.id

ASSUME PlacementAssumption ==
    /\ NpcAt \in [Npcs -> Tiles] /\ Zone \subseteq Tiles
    /\ \A m, n \in Npcs : NpcAt[m] = NpcAt[n] => m = n
    /\ IsFiniteSet(Chars) /\ IsFiniteSet(Npcs)
    /\ None \notin Tiles \cup EntityId

(***************************************************************************)
(* One instance: at[e] is the tile of entity e (the `entities` map) and    *)
(* by[p] the entity registered on tile p (the `occupied` map).             *)
(***************************************************************************)
Instance == [at : [EntityId -> Tiles \cup {None}], by : [Tiles -> EntityId \cup {None}]]

EmptyInstance == [at |-> [e \in EntityId |-> None], by |-> [p \in Tiles |-> None]]

Entities(m) == {e \in EntityId : m.at[e] # None}

\* Mutant: full only beyond the capacity.
IsFullTooLate(m) == Cardinality(Entities(m)) > Capacity

IsFull(m) == Cardinality(Entities(m)) >= Capacity

IsOccupied(m, p) == m.by[p] # None

AddEntity(m, e, p) == [at |-> [m.at EXCEPT ![e] = p], by |-> [m.by EXCEPT ![p] = e]]

RemoveEntity(m, e) ==
    IF m.at[e] = None
    THEN m
    ELSE [at |-> [m.at EXCEPT ![e] = None], by |-> [m.by EXCEPT ![m.at[e]] = None]]

\* Mutant: the tile left behind stays occupied.
MoveEntityKeepsTile(m, e, p) == [at |-> [m.at EXCEPT ![e] = p], by |-> [m.by EXCEPT ![p] = e]]

MoveEntity(m, e, p) ==
    [at |-> [m.at EXCEPT ![e] = p], by |-> [m.by EXCEPT ![m.at[e]] = None, ![p] = e]]

(***************************************************************************)
(* Residents: the NPCs and wild Pokemon an entering player finds.          *)
(***************************************************************************)

\* m after every entity of S was added on its own tile, one after another.
AddAll(m, S) ==
    [at |-> [e \in EntityId |-> IF e \in S THEN Home(e) ELSE m.at[e]],
     by |-> [p \in Tiles |-> IF \E e \in S : Home(e) = p
                             THEN CHOOSE e \in S : Home(e) = p
                             ELSE m.by[p]]]

Room(m) == Capacity - Cardinality(Entities(m))

Placeable(m, S) == {e \in S : m.at[e] = None /\ IsWalkable(Home(e)) /\ ~IsOccupied(m, Home(e))}

\* Every missing NPC whose tile is free, as long as the instance has room.
EnsureNpcs(m) ==
    LET missing == Placeable(m, NpcIds)
    IN  {AddAll(m, S) : S \in {S \in SUBSET missing :
            \/ S = missing /\ Cardinality(S) <= Room(m)
            \/ Cardinality(S) = Room(m)}}

\* Up to maxActive wild Pokemon in the zone.  Any smaller number is possible:
\* findFreeTile gives up after 24 random tiles that are taken.
EnsureSpawns(m) ==
    LET missing == MaxActive - Cardinality(Entities(m) \cap WildIds)
    IN  {AddAll(m, S) : S \in {S \in SUBSET Placeable(m, WildIds) :
            Cardinality(S) <= missing /\ Cardinality(S) <= Room(m)} \cup {{}}}

\* The first spawn point that is walkable and free, None when there is none.
FreeSpawns(m) == {i \in DOMAIN Spawns : IsWalkable(Spawns[i]) /\ ~IsOccupied(m, Spawns[i])}

FindSpawn(m) ==
    IF FreeSpawns(m) = {}
    THEN None
    ELSE Spawns[CHOOSE i \in FreeSpawns(m) : \A j \in FreeSpawns(m) : i <= j]
=============================================================================
