---------------------------- MODULE WorldProofs ----------------------------
(***************************************************************************)
(* For every map, any number of sockets, characters and instances: the     *)
(* indexes of every instance agree, no two connections act for the same    *)
(* character, and a connection's session and body are at the same place;   *)
(* no instance holds more players than the capacity; nobody's body is left *)
(* behind, and no body goes more than one tile at a time.  The stored      *)
(* position of a character is one it was lately at, whatever order its     *)
(* saves end in, and nobody saves where it leaves the world but the        *)
(* connection it is played from.  Clients are told of everybody around     *)
(* them, and of nobody without being going to hear that it is gone.        *)
(***************************************************************************)
EXTENDS WorldStore, WorldViews, FiniteSetTheorems, TLAPS

(***************************************************************************)
(* Instances: what the operations of a MapInstance preserve, for every     *)
(* grid, every set of entities and every set of residents added at once    *)
(***************************************************************************)

\* The first index is there to be chosen.
LEMMA LeastNatural ==
    ASSUME NEW T, T \subseteq Nat, T # {}
    PROVE  \E n \in T : \A k \in T : n <= k
<1>. DEFINE Less == {ss \in Nat \X Nat : ss[1] < ss[2]}
<1>1. IsWellFoundedOn(Less, Nat)
  BY NatLessThanWellFounded, Zenon DEF OpToRel
<1>. HIDE DEF Less
<1>2. PICK n \in T : \A k \in T : <<k, n>> \notin Less
  BY <1>1, WFMin
<1>3. \A k \in T : ~(k < n)
  BY <1>2 DEF Less
<1>. QED BY <1>3

Consistent(m) == \A e \in EntityId, p \in Tiles : m.by[p] = e <=> m.at[e] = p

\* An entity that stands somewhere, on the tile that holds it.
Sound(m) == m \in Instance /\ Consistent(m)

LEMMA EntityIds ==
    /\ \A ch \in Chars : Player(ch) \in EntityId
    /\ \A ch1, ch2 \in Chars : Player(ch1) = Player(ch2) => ch1 = ch2
    /\ \A ch \in Chars : Player(ch) \notin NpcIds \cup WildIds
    /\ NpcIds \subseteq EntityId /\ WildIds \subseteq EntityId
    /\ None \notin EntityId /\ None \notin Tiles
BY PlacementAssumption DEF EntityId, NpcIds, WildIds, Player, Npc, Wild

\* Residents have a home on the map, no two of one kind the same.
LEMMA Homes ==
    ASSUME NEW S, S \subseteq NpcIds \/ S \subseteq WildIds
    PROVE  /\ \A e \in S : Home(e) \in Tiles
           /\ \A e1, e2 \in S : Home(e1) = Home(e2) => e1 = e2
BY PlacementAssumption DEF NpcIds, WildIds, Npc, Wild, Home

LEMMA EmptySound == Sound(EmptyInstance)
BY EntityIds DEF Sound, Consistent, EmptyInstance, Instance

\* addEntity of an entity that is not in the instance, on a free tile.
LEMMA AddSound ==
    ASSUME NEW m, Sound(m), NEW e \in EntityId, NEW p \in Tiles,
           m.at[e] = None, ~IsOccupied(m, p)
    PROVE  Sound(AddEntity(m, e, p))
BY EntityIds DEF Sound, Consistent, Instance, AddEntity, IsOccupied

LEMMA RemoveSound ==
    ASSUME NEW m, Sound(m), NEW e \in EntityId
    PROVE  Sound(RemoveEntity(m, e))
BY EntityIds DEF Sound, Consistent, Instance, RemoveEntity

\* moveEntity of an entity that is in the instance, to a free tile.
LEMMA MoveSound ==
    ASSUME NEW m, Sound(m), NEW e \in EntityId, NEW p \in Tiles,
           m.at[e] # None, ~IsOccupied(m, p)
    PROVE  Sound(MoveEntity(m, e, p))
BY EntityIds DEF Sound, Consistent, Instance, MoveEntity, IsOccupied

\* Residents of one kind, none of them in the instance, on free tiles.
LEMMA AddAllSound ==
    ASSUME NEW m, Sound(m), NEW S, S \subseteq NpcIds \/ S \subseteq WildIds,
           \A e \in S : m.at[e] = None /\ ~IsOccupied(m, Home(e))
    PROVE  Sound(AddAll(m, S))
<1>1. S \subseteq EntityId
  BY EntityIds
<1>2. \A e \in S : Home(e) \in Tiles
  BY Homes
<1>3. ASSUME NEW p \in Tiles, NEW e \in S, Home(e) = p
      PROVE  AddAll(m, S).by[p] = e
  BY <1>3, Homes DEF AddAll
<1>4. ASSUME NEW p \in Tiles, ~ \E e \in S : Home(e) = p
      PROVE  AddAll(m, S).by[p] = m.by[p]
  BY <1>4 DEF AddAll
<1>5. \A e \in EntityId : AddAll(m, S).at[e] = IF e \in S THEN Home(e) ELSE m.at[e]
  BY DEF AddAll
<1>6. AddAll(m, S) \in Instance
  <2>1. AddAll(m, S).at \in [EntityId -> Tiles \cup {None}]
    BY <1>2, <1>5 DEF AddAll, Sound, Instance
  <2>2. \A p \in Tiles : AddAll(m, S).by[p] \in EntityId \cup {None}
    BY <1>1, <1>3, <1>4 DEF Sound, Instance
  <2>. QED BY <2>1, <2>2 DEF AddAll, Instance
<1>7. ASSUME NEW e \in EntityId, NEW p \in Tiles
      PROVE  AddAll(m, S).by[p] = e <=> AddAll(m, S).at[e] = p
  <2>1. CASE e \in S /\ Home(e) = p
    BY <2>1, <1>3, <1>5
  <2>2. CASE e \in S /\ Home(e) # p
    <3>1. AddAll(m, S).at[e] # p
      BY <2>2, <1>5
    <3>2. CASE \E f \in S : Home(f) = p
      BY <2>2, <3>1, <3>2, <1>3
    <3>3. CASE ~ \E f \in S : Home(f) = p
      BY <2>2, <3>1, <3>3, <1>4, EntityIds DEF Sound, Consistent
    <3>. QED BY <3>2, <3>3
  <2>3. CASE e \notin S
    <3>1. CASE \E f \in S : Home(f) = p
      <4>1. PICK f \in S : Home(f) = p
        BY <3>1
      <4>2. AddAll(m, S).by[p] # e
        BY <4>1, <1>3, <2>3
      <4>3. m.at[e] # p
        BY <4>1, EntityIds DEF Sound, Consistent, IsOccupied
      <4>. QED BY <4>2, <4>3, <1>5, <2>3
    <3>2. CASE ~ \E f \in S : Home(f) = p
      BY <3>2, <1>4, <1>5, <2>3 DEF Sound, Consistent
    <3>. QED BY <3>1, <3>2
  <2>. QED BY <2>1, <2>2, <2>3
<1>. QED BY <1>6, <1>7 DEF Sound, Consistent

\* An instance after ensureNpcs and ensureSpawns.
LEMMA ResidentsSound ==
    ASSUME NEW m, Sound(m), NEW n \in EnsureNpcs(m), NEW k \in EnsureSpawns(n)
    PROVE  Sound(k) /\ \A ch \in Chars : k.at[Player(ch)] = m.at[Player(ch)]
<1>1. PICK S \in SUBSET Placeable(m, NpcIds) : n = AddAll(m, S)
  BY DEF EnsureNpcs
<1>2. Sound(n)
  <2>1. S \subseteq NpcIds /\ \A e \in S : m.at[e] = None /\ ~IsOccupied(m, Home(e))
    BY DEF Placeable
  <2>. QED BY <1>1, <2>1, AddAllSound
<1>3. PICK R : /\ R \subseteq Placeable(n, WildIds) /\ k = AddAll(n, R)
  BY DEF EnsureSpawns
<1>4. R \subseteq WildIds /\ \A e \in R : n.at[e] = None /\ ~IsOccupied(n, Home(e))
  BY <1>3 DEF Placeable
<1>5. Sound(k)
  BY <1>2, <1>3, <1>4, AddAllSound
<1>6. \A ch \in Chars : k.at[Player(ch)] = m.at[Player(ch)]
  BY <1>1, <1>3, <1>4, EntityIds DEF AddAll, Placeable
<1>. QED BY <1>5, <1>6

LEMMA SpawnIsFree ==
    ASSUME NEW m, FindSpawn(m) # None
    PROVE  FindSpawn(m) \in Tiles /\ ~IsOccupied(m, FindSpawn(m))
<1>1. FreeSpawns(m) # {}
  BY DEF FindSpawn
<1>2. \A i \in FreeSpawns(m) : Spawns[i] \in Tiles /\ ~IsOccupied(m, Spawns[i])
  BY GridAssumption DEF FreeSpawns, Spawns, IsWalkable
<1>3. \E i \in FreeSpawns(m) : \A j \in FreeSpawns(m) : i <= j
  <2>. FreeSpawns(m) \subseteq Nat
    BY GridAssumption DEF FreeSpawns, Spawns, IsWalkable
  <2>. QED BY <1>1, LeastNatural
<1>. QED BY <1>1, <1>2, <1>3 DEF FindSpawn

(***************************************************************************)
(* How full an instance is                                                 *)
(***************************************************************************)

\* What F makes of the elements of a finite set is finite.
LEMMA FiniteImage ==
    ASSUME NEW S, NEW T, IsFiniteSet(S), NEW F \in [S -> T], \A y \in T : \E x \in S : F[x] = y
    PROVE  IsFiniteSet(T)
<1>1. F \in Surjection(S, T)
  BY DEF Surjection
<1>. QED BY <1>1, FS_Surjection

LEMMA EntityIdFinite == IsFiniteSet(EntityId)
<1>1. IsFiniteSet({Player(ch) : ch \in Chars})
  <2>. DEFINE F == [ch \in Chars |-> Player(ch)]
  <2>1. /\ F \in [Chars -> {Player(ch) : ch \in Chars}]
        /\ \A e \in {Player(ch) : ch \in Chars} : \E ch \in Chars : F[ch] = e
    OBVIOUS
  <2>. HIDE DEF F
  <2>. QED BY <2>1, FiniteImage, PlacementAssumption
<1>2. IsFiniteSet(NpcIds)
  <2>. DEFINE F == [n \in Npcs |-> Npc(n)]
  <2>1. F \in [Npcs -> NpcIds] /\ \A e \in NpcIds : \E n \in Npcs : F[n] = e
    BY DEF NpcIds
  <2>. QED BY <2>1, FiniteImage, PlacementAssumption
<1>3. IsFiniteSet(Zone)
  <2>1. IsFiniteSet(0 .. Width - 1) /\ IsFiniteSet(0 .. Height - 1)
    BY FS_Interval, GridAssumption
  <2>. QED BY <2>1, FS_Product, FS_Subset, PlacementAssumption DEF Tiles
<1>4. IsFiniteSet(WildIds)
  <2>. DEFINE F == [q \in Zone |-> Wild(q)]
  <2>1. F \in [Zone -> WildIds] /\ \A e \in WildIds : \E q \in Zone : F[q] = e
    BY DEF WildIds
  <2>. QED BY <1>3, <2>1, FiniteImage
<1>. QED BY <1>1, <1>2, <1>4, FS_Union DEF EntityId

LEMMA EntitiesFinite ==
    ASSUME NEW m
    PROVE  IsFiniteSet(Entities(m)) /\ Cardinality(Entities(m)) \in Nat
<1>1. Entities(m) \subseteq EntityId
  BY DEF Entities
<1>. QED BY <1>1, EntityIdFinite, FS_Subset, FS_CardinalityType

Capped(m) == Cardinality(Entities(m)) <= Capacity

LEMMA EmptyCapped == Capped(EmptyInstance)
<1>1. Entities(EmptyInstance) = {}
  BY DEF Entities, EmptyInstance
<1>. QED BY <1>1, FS_EmptySet, GridAssumption DEF Capped

\* An instance with no other entities is no fuller.
LEMMA FewerCapped ==
    ASSUME NEW m, NEW n, Capped(m), Entities(n) \subseteq Entities(m)
    PROVE  Capped(n)
<1>1. Cardinality(Entities(n)) <= Cardinality(Entities(m))
  BY EntitiesFinite, FS_Subset
<1>. QED BY <1>1, EntitiesFinite, GridAssumption DEF Capped

LEMMA RemoveCapped ==
    ASSUME NEW m, m \in Instance, Capped(m), NEW e \in EntityId
    PROVE  Capped(RemoveEntity(m, e))
<1>1. Entities(RemoveEntity(m, e)) \subseteq Entities(m)
  BY DEF Entities, RemoveEntity, Instance
<1>. QED BY <1>1, FewerCapped

LEMMA MoveCapped ==
    ASSUME NEW m, m \in Instance, Capped(m), NEW e \in EntityId, NEW p \in Tiles, m.at[e] # None
    PROVE  Capped(MoveEntity(m, e, p))
<1>1. Entities(MoveEntity(m, e, p)) \subseteq Entities(m)
  BY DEF Entities, MoveEntity, Instance
<1>. QED BY <1>1, FewerCapped

LEMMA AddCapped ==
    ASSUME NEW m, m \in Instance, ~IsFull(m), NEW e \in EntityId, NEW p \in Tiles
    PROVE  Capped(AddEntity(m, e, p))
<1>1. Entities(AddEntity(m, e, p)) \subseteq Entities(m) \cup {e}
  BY DEF Entities, AddEntity, Instance
<1>2. /\ IsFiniteSet(Entities(m) \cup {e})
      /\ Cardinality(Entities(m) \cup {e}) <= Cardinality(Entities(m)) + 1
      /\ Cardinality(Entities(m) \cup {e}) \in Nat
  BY EntitiesFinite, FS_AddElement, FS_CardinalityType
<1>3. Cardinality(Entities(AddEntity(m, e, p))) <= Cardinality(Entities(m) \cup {e})
  BY <1>1, <1>2, FS_Subset
<1>. QED BY <1>2, <1>3, EntitiesFinite, GridAssumption DEF Capped, IsFull

\* As many residents as there is room for, or none.
LEMMA AddAllCapped ==
    ASSUME NEW m, m \in Instance, Capped(m), NEW S, S \subseteq EntityId, \A e \in S : m.at[e] = None,
           S = {} \/ Cardinality(S) <= Room(m)
    PROVE  Capped(AddAll(m, S))
<1>1. Entities(AddAll(m, S)) \subseteq Entities(m) \cup S
  BY DEF Entities, AddAll
<1>2. CASE S = {}
  BY <1>1, <1>2, FewerCapped
<1>3. CASE S # {}
  <2>1. IsFiniteSet(S) /\ Cardinality(S) \in Nat
    BY EntityIdFinite, FS_Subset, FS_CardinalityType
  <2>2. /\ IsFiniteSet(Entities(m) \cup S)
        /\ Cardinality(Entities(m) \cup S) <= Cardinality(Entities(m)) + Cardinality(S)
    <3>1. IsFiniteSet(Entities(m) \cap S) /\ Cardinality(Entities(m) \cap S) \in Nat
      BY <2>1, FS_Intersection, FS_CardinalityType
    <3>2. IsFiniteSet(Entities(m)) /\ Cardinality(Entities(m)) \in Nat
      BY EntitiesFinite
    <3>3. /\ IsFiniteSet(Entities(m) \cup S)
          /\ Cardinality(Entities(m) \cup S)
                = Cardinality(Entities(m)) + Cardinality(S) - Cardinality(Entities(m) \cap S)
      BY <2>1, <3>2, FS_Union
    <3>. QED BY <2>1, <3>1, <3>2, <3>3
  <2>3. /\ Cardinality(Entities(AddAll(m, S))) <= Cardinality(Entities(m) \cup S)
        /\ Cardinality(Entities(m) \cup S) \in Nat
    BY <1>1, <2>2, FS_Subset, FS_CardinalityType
  <2>. QED BY <1>3, <2>1, <2>2, <2>3, EntitiesFinite, GridAssumption DEF Capped, Room
<1>. QED BY <1>2, <1>3

\* Residents leave the capacity alone.
LEMMA ResidentsCapped ==
    ASSUME NEW m, Sound(m), Capped(m), NEW n \in EnsureNpcs(m), NEW k \in EnsureSpawns(n)
    PROVE  Capped(k)
<1>1. PICK S \in SUBSET Placeable(m, NpcIds) : n = AddAll(m, S) /\ Cardinality(S) <= Room(m)
  BY EntitiesFinite, GridAssumption DEF EnsureNpcs, Room
<1>2. Sound(n) /\ Capped(n)
  <2>1. S \subseteq NpcIds /\ \A e \in S : m.at[e] = None /\ ~IsOccupied(m, Home(e))
    BY DEF Placeable
  <2>. QED BY <1>1, <2>1, AddAllSound, AddAllCapped, EntityIds DEF Sound
<1>3. PICK R : R \subseteq Placeable(n, WildIds) /\ k = AddAll(n, R) /\ (R = {} \/ Cardinality(R) <= Room(n))
  BY DEF EnsureSpawns
<1>4. R \subseteq WildIds /\ \A e \in R : n.at[e] = None
  BY <1>3 DEF Placeable
<1>. QED BY <1>2, <1>3, <1>4, AddAllCapped, EntityIds DEF Sound

(***************************************************************************)
(* The inductive invariant                                                 *)
(***************************************************************************)

\* What an index or a waiting MOVE refers to is a session object.
Live == \A s \in SessionIds : Reachable(s) => sess[s] # None

Instances == \A i \in InstanceIds : Sound(insts[i])

CharIndexed == \A ch \in Chars : byChar[ch] # None => sess[byChar[ch]].char = ch

SessionsAgree == SessionIndexed /\ CharIndexed /\ BodyWhereSessionIs

IInv == TypeOK /\ Live /\ Instances /\ SessionsAgree

(***************************************************************************)
(* Sessions                                                                *)
(***************************************************************************)

LEMMA Names ==
    /\ None \notin SessionIds /\ None \notin Session
    /\ \A s \in SessionIds : <<s[1], s[2], s[3]>> = s
BY WorldAssumption, SessionAssumption DEF SessionIds

\* The session object of a connection or a character.
LEMMA SessionOf ==
    ASSUME TypeOK, Live
    PROVE  /\ \A c \in Conns : byConn[c] # None =>
                byConn[c] \in SessionIds /\ sess[byConn[c]] \in Session /\ Reachable(byConn[c])
           /\ \A ch \in Chars : byChar[ch] # None =>
                byChar[ch] \in SessionIds /\ sess[byChar[ch]] \in Session /\ Reachable(byChar[ch])
           /\ \A t \in moving : sess[t.sid] \in Session
<1>1. \A s \in SessionIds : sess[s] # None => sess[s] \in Session
  BY DEF TypeOK
<1>2. \A t \in moving : t.sid \in SessionIds
  BY DEF TypeOK, MoveTask
<1>. QED BY <1>1, <1>2 DEF TypeOK, Live, Reachable

\* The heap after a step whose references were references before, to objects
\* of h.
LEMMA HeapStep ==
    ASSUME NEW h \in [SessionIds -> Session \cup {None}], HeapBecomes(h),
           \A s \in SessionIds : Reachable(s)' => h[s] # None
    PROVE  /\ sess' \in [SessionIds -> Session \cup {None}]
           /\ Live'
           /\ \A s \in SessionIds : Reachable(s)' => sess'[s] = h[s]
BY DEF HeapBecomes, Live

\* With the sessions' invariant, connections have different sessions, of
\* different characters.
LEMMA SessionsDiffer ==
    ASSUME TypeOK, Live, SessionIndexed, NEW c \in Conns, NEW d \in Conns,
           byConn[c] # None, byConn[d] # None, c # d
    PROVE  byConn[c] # byConn[d] /\ sess[byConn[c]].char # sess[byConn[d]].char
BY DEF SessionIndexed

LEMMA InitIInv == Init => IInv
<1>. SUFFICES ASSUME Init PROVE IInv
  OBVIOUS
<1>1. Sound(EmptyInstance)
  BY EmptySound
<1>2. TypeOK
  BY <1>1, WorldAssumption DEF Init, TypeOK, Sound
<1>3. Live
  BY Names DEF Init, Live, Reachable
<1>4. Instances
  BY <1>1 DEF Init, Instances
<1>5. SessionsAgree
  BY DEF Init, SessionsAgree, SessionIndexed, CharIndexed, BodyWhereSessionIs
<1>. QED BY <1>2, <1>3, <1>4, <1>5 DEF IInv

(***************************************************************************)
(* Sessions and bodies removed                                             *)
(***************************************************************************)

\* removeEntity touches nobody but the entity it removes.
LEMMA OthersStay ==
    ASSUME NEW m, Sound(m), NEW e \in EntityId, NEW f \in EntityId, e # f
    PROVE  RemoveEntity(m, e).at[f] = m.at[f]
BY DEF Sound, Instance, RemoveEntity

\* The body of a session goes.
LEMMA InstancesWithoutOne ==
    ASSUME IInv, NEW s \in SessionIds, sess[s] \in Session
    PROVE  /\ InstancesWithout(s) \in [InstanceIds -> Instance]
           /\ \A i \in InstanceIds : Sound(InstancesWithout(s)[i])
           /\ \A i \in InstanceIds, ch \in Chars : ch # sess[s].char =>
                InstancesWithout(s)[i].at[Player(ch)] = insts[i].at[Player(ch)]
<1>1. sess[s].inst \in InstanceIds /\ Player(sess[s].char) \in EntityId /\ sess[s].char \in Chars
  BY EntityIds DEF Session
<1>2. insts \in [InstanceIds -> Instance]
  BY DEF IInv, TypeOK
<1>3. ASSUME NEW i \in InstanceIds
      PROVE  InstancesWithout(s)[i] = IF i = sess[s].inst
                THEN RemoveEntity(insts[i], Player(sess[s].char)) ELSE insts[i]
  BY <1>1, <1>2 DEF InstancesWithout
<1>4. \A i \in InstanceIds : Sound(InstancesWithout(s)[i])
  BY <1>1, <1>3, RemoveSound DEF IInv, Instances
<1>5. InstancesWithout(s) \in [InstanceIds -> Instance]
  BY <1>2, <1>3, <1>4 DEF InstancesWithout, Sound
<1>6. ASSUME NEW i \in InstanceIds, NEW ch \in Chars, ch # sess[s].char
      PROVE  InstancesWithout(s)[i].at[Player(ch)] = insts[i].at[Player(ch)]
  <2>1. Sound(insts[i]) /\ Player(ch) \in EntityId /\ Player(ch) # Player(sess[s].char)
    BY <1>1, <1>6, EntityIds DEF IInv, Instances
  <2>. QED BY <1>1, <1>3, <2>1, OthersStay
<1>. QED BY <1>4, <1>5, <1>6

\* removeByConnection of a connection that has a session: both indexes lose it.
LEMMA CharIndexLosesIt ==
    ASSUME IInv, NEW c \in Conns, byConn[c] # None
    PROVE  CharIndexWithout(c) = [byChar EXCEPT ![sess[byConn[c]].char] = None]
BY DEF IInv, SessionsAgree, SessionIndexed, CharIndexWithout

\* In any case it adds nothing to them.
LEMMA CharIndexShrinks ==
    ASSUME IInv, NEW c \in Conns
    PROVE  /\ CharIndexWithout(c) \in [Chars -> SessionIds \cup {None}]
           /\ \A ch \in Chars : CharIndexWithout(c)[ch] \in {byChar[ch], None}
           /\ \A ch \in Chars : (byConn[c] # None => ch # sess[byConn[c]].char) =>
                CharIndexWithout(c)[ch] = byChar[ch]
<1>1. byChar \in [Chars -> SessionIds \cup {None}]
  BY DEF IInv, TypeOK
<1>. QED BY <1>1, CharIndexLosesIt DEF CharIndexWithout

LEMMA LeaveStep ==
    ASSUME IInv, NEW c \in Conns, LeaveAndBroadcast(c),
           sockets' \in [Conns -> {"new", "open", "closed"}], UNCHANGED moving
    PROVE  IInv'
<1>. USE DEF IInv
<1>1. CASE byConn[c] = None /\ UNCHANGED <<insts, sess, byConn, byChar>>
  BY <1>1 DEF LeaveAndBroadcast, TypeOK, Live, Reachable, Instances, SessionsAgree,
              SessionIndexed, CharIndexed, BodyWhereSessionIs
<1>2. CASE /\ byConn[c] # None
           /\ byConn' = ConnIndexWithout(c)
           /\ byChar' = CharIndexWithout(c)
           /\ HeapBecomes(sess)
           /\ insts' = InstancesWithout(byConn[c])
  <2>. DEFINE s == byConn[c]
  <2>1. s \in SessionIds /\ sess[s] \in Session /\ sess[s].char \in Chars
    BY <1>2, SessionOf DEF Session
  <2>2. byConn' \in [Conns -> SessionIds \cup {None}] /\ byChar' \in [Chars -> SessionIds \cup {None}]
    BY <1>2, CharIndexShrinks DEF TypeOK, ConnIndexWithout
  <2>3. \A x \in SessionIds : Reachable(x)' => Reachable(x)
    BY <1>2, CharIndexShrinks, Names DEF Reachable, ConnIndexWithout, TypeOK
  <2>4. /\ sess' \in [SessionIds -> Session \cup {None}] /\ Live'
        /\ \A x \in SessionIds : Reachable(x)' => sess'[x] = sess[x]
    BY <1>2, <2>3, HeapStep DEF TypeOK, Live
  <2>5. TypeOK'
    BY <1>2, <2>1, <2>2, <2>4, InstancesWithoutOne DEF TypeOK, LeaveAndBroadcast
  <2>6. Instances'
    BY <1>2, <2>1, InstancesWithoutOne DEF Instances
  <2>7. ASSUME NEW d \in Conns, byConn'[d] # None
        PROVE  /\ d # c /\ byConn'[d] = byConn[d] /\ byConn[d] \in SessionIds
               /\ sess'[byConn'[d]] = sess[byConn[d]] /\ sess[byConn[d]] \in Session
               /\ sess[byConn[d]].char # sess[s].char
               /\ sess[byConn[d]].conn = d
    <3>1. d # c /\ byConn'[d] = byConn[d]
      BY <1>2, <2>7 DEF TypeOK, ConnIndexWithout
    <3>2. byConn[d] \in SessionIds /\ sess[byConn[d]] \in Session
      BY <2>7, <3>1, SessionOf
    <3>3. Reachable(byConn[d])'
      BY <3>1 DEF Reachable
    <3>. QED BY <1>2, <2>4, <2>7, <3>1, <3>2, <3>3, SessionsDiffer DEF SessionsAgree, SessionIndexed
  <2>8. SessionIndexed'
    BY <1>2, <2>1, <2>7, CharIndexLosesIt DEF SessionsAgree, SessionIndexed, Session, TypeOK
  <2>9. CharIndexed'
    <3>. SUFFICES ASSUME NEW ch \in Chars, byChar'[ch] # None
                  PROVE  sess'[byChar'[ch]].char = ch
      BY DEF CharIndexed
    <3>1. byChar'[ch] = byChar[ch] /\ byChar[ch] \in SessionIds
      BY <1>2, CharIndexShrinks DEF TypeOK
    <3>2. Reachable(byChar[ch])'
      BY <3>1 DEF Reachable
    <3>. QED BY <2>4, <3>1, <3>2 DEF SessionsAgree, CharIndexed
  <2>10. BodyWhereSessionIs'
    <3>. SUFFICES ASSUME NEW d \in Conns, byConn'[d] # None
                  PROVE  LET x == sess'[byConn'[d]]
                         IN  insts'[x.inst].at[Player(x.char)] = x.pos
      BY DEF BodyWhereSessionIs
    <3>1. sess[byConn[d]].inst \in InstanceIds /\ sess[byConn[d]].char \in Chars
      BY <2>7 DEF Session
    <3>. QED BY <1>2, <2>1, <2>7, <3>1, InstancesWithoutOne DEF SessionsAgree, BodyWhereSessionIs
  <2>. QED BY <2>4, <2>5, <2>6, <2>8, <2>9, <2>10 DEF SessionsAgree
<1>. QED BY <1>1, <1>2 DEF LeaveAndBroadcast

(***************************************************************************)
(* WORLD_ENTER                                                             *)
(***************************************************************************)

\* What the eviction of a character's previous session leaves: fewer entries
\* in the indexes, no connection that acts for the character, and the other
\* connections' sessions and bodies as they were.
LEMMA Eviction ==
    ASSUME IInv, NEW ch \in Chars, NEW left, left = IndexAfterEviction(ch)
    PROVE  /\ left.conn \in [Conns -> SessionIds \cup {None}]
           /\ left.char \in [Chars -> SessionIds \cup {None}]
           /\ left.insts \in [InstanceIds -> Instance]
           /\ \A i \in InstanceIds : Sound(left.insts[i])
           /\ \A d \in Conns : left.conn[d] \in {byConn[d], None}
           /\ \A k \in Chars : left.char[k] \in {byChar[k], None}
           /\ \A d \in Conns : left.conn[d] # None =>
                LET x == sess[byConn[d]]
                IN  /\ x.char # ch
                    /\ left.char[x.char] = byConn[d]
                    /\ left.insts[x.inst].at[Player(x.char)] = x.pos
<1>. USE DEF IInv
<1>1. CASE byChar[ch] = None
  <2>1. left.conn = byConn /\ left.char = byChar /\ left.insts = insts
    BY <1>1 DEF IndexAfterEviction
  <2>2. \A d \in Conns : byConn[d] # None => sess[byConn[d]].char # ch
    BY <1>1 DEF SessionsAgree, SessionIndexed
  <2>. QED BY <2>1, <2>2 DEF TypeOK, Instances, SessionsAgree, SessionIndexed, BodyWhereSessionIs
<1>2. CASE byChar[ch] # None
  <2>. DEFINE s == byChar[ch]
              c == sess[s].conn
  <2>1. s \in SessionIds /\ sess[s] \in Session /\ c \in Conns /\ sess[s].char = ch
    BY <1>2, SessionOf DEF Session, SessionsAgree, CharIndexed
  <2>2. left.conn = ConnIndexWithout(c) /\ left.char = CharIndexWithout(c)
        /\ left.insts = InstancesWithout(s)
    BY <1>2 DEF IndexAfterEviction
  <2>3. left.conn \in [Conns -> SessionIds \cup {None}]
        /\ \A d \in Conns : left.conn[d] = IF d = c THEN None ELSE byConn[d]
    BY <2>1, <2>2 DEF ConnIndexWithout, TypeOK
  <2>4. ASSUME NEW d \in Conns, left.conn[d] # None
        PROVE  /\ d # c /\ byConn[d] # None
               /\ sess[byConn[d]] \in Session /\ sess[byConn[d]].conn = d
               /\ byChar[sess[byConn[d]].char] = byConn[d]
               /\ sess[byConn[d]].char # ch
    <3>1. d # c /\ byConn[d] # None
      BY <2>3, <2>4
    <3>. QED BY <3>1, <2>1, SessionOf DEF SessionsAgree, SessionIndexed
  <2>5. ASSUME NEW d \in Conns, left.conn[d] # None
        PROVE  left.char[sess[byConn[d]].char] = byConn[d]
    BY <2>1, <2>2, <2>4, <2>5, CharIndexShrinks, SessionsDiffer DEF Session, SessionsAgree
  <2>6. ASSUME NEW d \in Conns, left.conn[d] # None
        PROVE  LET x == sess[byConn[d]] IN left.insts[x.inst].at[Player(x.char)] = x.pos
    <3>1. sess[byConn[d]].inst \in InstanceIds /\ sess[byConn[d]].char \in Chars
      BY <2>4, <2>6 DEF Session
    <3>. QED BY <2>1, <2>2, <2>4, <2>6, <3>1, InstancesWithoutOne
             DEF SessionsAgree, BodyWhereSessionIs
  <2>. QED BY <2>1, <2>2, <2>3, <2>4, <2>5, <2>6, CharIndexShrinks, InstancesWithoutOne
<1>. QED BY <1>1, <1>2

\* sessions.set finds no session left to drop: should the index still hold one of
\* the character, its connection has none.
LEMMA EvictedConn ==
    ASSUME IInv, NEW ch \in Chars, NEW left, left = IndexAfterEviction(ch), left.char[ch] # None
    PROVE  left.conn[sess[left.char[ch]].conn] = None
<1>1. left.char[ch] = byChar[ch] /\ byChar[ch] # None
  BY Eviction
<1>2. sess[byChar[ch]].conn \in Conns
  BY <1>1, SessionOf DEF IInv, Session
<1>. QED BY <1>1, <1>2 DEF IndexAfterEviction, ConnIndexWithout, IInv, TypeOK

\* An eviction moves no other character's body.
LEMMA EvictedOthers ==
    ASSUME IInv, NEW ch \in Chars, NEW left, left = IndexAfterEviction(ch),
           NEW i \in InstanceIds, NEW k \in Chars, k # ch
    PROVE  left.insts[i].at[Player(k)] = insts[i].at[Player(k)]
<1>1. CASE byChar[ch] = None
  BY <1>1 DEF IndexAfterEviction
<1>2. CASE byChar[ch] # None
  <2>1. byChar[ch] \in SessionIds /\ sess[byChar[ch]] \in Session /\ sess[byChar[ch]].char = ch
    BY <1>2, SessionOf DEF IInv, SessionsAgree, CharIndexed
  <2>. QED BY <1>2, <2>1, InstancesWithoutOne DEF IndexAfterEviction
<1>. QED BY <1>1, <1>2

\* The instance chosen is one of those opened or the next.
LEMMA AvailableInstance ==
    ASSUME NEW is, opened \in 0 .. MaxInstances
    PROVE  Available(is) \in 1 .. opened + 1
<1>. DEFINE open == {i \in 1 .. opened : ~IsFull(is[i])}
<1>1. CASE open = {}
  BY <1>1 DEF Available
<1>2. CASE open # {}
  <2>0. open \subseteq Nat
    OBVIOUS
  <2>. HIDE DEF open
  <2>1. \E i \in open : \A j \in open : i <= j
    BY <1>2, <2>0, LeastNatural
  <2>. USE DEF open
  <2>. QED BY <1>2, <2>1 DEF Available
<1>. QED BY <1>1, <1>2

\* The tile an admitted player gets is on the map, and free.
LEMMA EntryTileFree ==
    ASSUME NEW m, NEW at \in Tiles \cup {None}, FindSpawn(m) # None
    PROVE  EntryTile(m, at) \in Tiles /\ ~IsOccupied(m, EntryTile(m, at))
BY SpawnIsFree DEF EntryTile

\* What onEnter does.  It ends in one of two ways: the eviction is all that has
\* happened to the sessions and the players' bodies, or the player has a new
\* session s and a body on p in the instance i.
EnterEffect(t, left) ==
    \/ /\ byConn' = left.conn /\ byChar' = left.char
       /\ \A x \in SessionIds : Reachable(x)' => Reachable(x) /\ sess'[x] = sess[x]
       /\ \A k \in InstanceIds, ch \in Chars : insts'[k].at[Player(ch)] = left.insts[k].at[Player(ch)]
    \/ \E s \in SessionIds, i \in InstanceIds, p \in Tiles :
          /\ byConn'[t.conn] = s /\ \A d \in Conns \ {t.conn} : byConn'[d] = left.conn[d]
          /\ byChar'[t.char] = s /\ \A ch \in Chars \ {t.char} : byChar'[ch] = left.char[ch]
          /\ ~Reachable(s)
          /\ sess'[s] = [conn |-> t.conn, char |-> t.char, inst |-> i, pos |-> p, seq |-> 0]
          /\ \A x \in SessionIds \ {s} : Reachable(x)' => Reachable(x) /\ sess'[x] = sess[x]
          /\ insts'[i].at[Player(t.char)] = p
          /\ \A k \in InstanceIds, ch \in Chars :
                k # i \/ ch # t.char => insts'[k].at[Player(ch)] = left.insts[k].at[Player(ch)]

LEMMA EnterWorldEffect ==
    ASSUME IInv, NEW t \in entering, EnterWorld(t)
    PROVE  /\ EnterEffect(t, IndexAfterEviction(t.char))
           /\ TypeOK' /\ Live' /\ Instances'
<1>. USE DEF IInv
<1>. DEFINE left == IndexAfterEviction(t.char)
            i == Available(left.insts)
<1>1. t \in EnterTask /\ t.char \in Chars /\ t.conn \in Conns /\ t.at \in Tiles \cup {None}
  BY DEF TypeOK, EnterTask
<1>2. i \in InstanceIds /\ opened' \in 0 .. MaxInstances
  BY AvailableInstance, WorldAssumption DEF EnterWorld, TypeOK, InstanceIds
<1>3. /\ left.conn \in [Conns -> SessionIds \cup {None}]
      /\ left.char \in [Chars -> SessionIds \cup {None}]
      /\ left.insts \in [InstanceIds -> Instance]
      /\ \A k \in InstanceIds : Sound(left.insts[k])
      /\ \A d \in Conns : left.conn[d] \in {byConn[d], None}
      /\ \A k \in Chars : left.char[k] \in {byChar[k], None}
      /\ \A d \in Conns : left.conn[d] # None =>
           LET x == sess[byConn[d]]
           IN  /\ x.char # t.char
               /\ left.char[x.char] = byConn[d]
               /\ left.insts[x.inst].at[Player(x.char)] = x.pos
  BY <1>1, Eviction
<1>4. PICK n \in EnsureNpcs(left.insts[i]) : \E m \in EnsureSpawns(n) :
        EnterRefused(left, i, m, t) \/ EnterAdmitted(left, i, m, t)
  BY DEF EnterWorld
<1>. PICK m \in EnsureSpawns(n) : EnterRefused(left, i, m, t) \/ EnterAdmitted(left, i, m, t)
  BY <1>4
<1>5. Sound(m) /\ m \in Instance /\ \A k \in Chars : m.at[Player(k)] = left.insts[i].at[Player(k)]
  BY <1>2, <1>3, ResidentsSound DEF Sound
<1>. HIDE DEF left, i
<1>6. UNCHANGED <<sockets, moving>> /\ cast' = None /\ entering' \subseteq entering
  BY DEF EnterWorld
<1>7. CASE EnterRefused(left, i, m, t)
  <2>1. insts' = [left.insts EXCEPT ![i] = m] /\ byConn' = left.conn /\ byChar' = left.char
        /\ HeapBecomes(sess)
    BY <1>7 DEF EnterRefused
  <2>2. Instances' /\ insts' \in [InstanceIds -> Instance]
    BY <1>2, <1>3, <1>5, <2>1 DEF Instances
  <2>3. \A x \in SessionIds : Reachable(x)' => Reachable(x)
    BY <1>3, <1>6, <2>1, Names DEF Reachable
  <2>4. /\ sess' \in [SessionIds -> Session \cup {None}] /\ Live'
        /\ \A x \in SessionIds : Reachable(x)' => sess'[x] = sess[x]
    BY <2>1, <2>3, HeapStep DEF TypeOK, Live
  <2>5. TypeOK'
    BY <1>2, <1>3, <1>6, <2>1, <2>2, <2>4 DEF TypeOK
  <2>6. \A k \in InstanceIds, ch \in Chars : insts'[k].at[Player(ch)] = left.insts[k].at[Player(ch)]
    BY <1>2, <1>3, <1>5, <2>1
  <2>7. EnterEffect(t, left)
    BY <2>1, <2>3, <2>4, <2>6 DEF EnterEffect
  <2>. QED BY <2>2, <2>4, <2>5, <2>7 DEF left
<1>8. CASE EnterAdmitted(left, i, m, t)
  <2>. DEFINE p == EntryTile(m, t.at)
              free == {n_1 \in 1 .. MaxObjects : ~Reachable(<<t.conn, t.char, n_1>>)}
              first == CHOOSE n_1 \in free : \A k \in free : n_1 <= k
              new == [conn |-> t.conn, char |-> t.char, inst |-> i, pos |-> p, seq |-> 0]
  <2>1. /\ insts' = [left.insts EXCEPT ![i] = AddEntity(m, Player(t.char), p)]
        /\ SetSession(left, <<t.conn, t.char, first>>, t.conn, t.char)
        /\ HeapBecomes([sess EXCEPT ![<<t.conn, t.char, first>>] = new])
        /\ free # {}
    BY <1>8 DEF EnterAdmitted
  <2>2. m.at[Player(t.char)] = None /\ FindSpawn(m) # None
    BY <1>8 DEF EnterAdmitted, CannotEnter
  <2>3. p \in Tiles /\ ~IsOccupied(m, p)
    BY <1>1, <2>2, EntryTileFree
  <2>4. PICK s \in SessionIds : /\ ~Reachable(s)
                                /\ SetSession(left, s, t.conn, t.char)
                                /\ HeapBecomes([sess EXCEPT ![s] = new])
    <3>1. free \subseteq Nat
      OBVIOUS
    <3>. HIDE DEF free
    <3>2. \E n_1 \in free : \A k \in free : n_1 <= k
      BY <2>1, <3>1, LeastNatural
    <3>3. first \in free
      BY <3>2
    <3>. QED BY <1>1, <2>1, <3>3 DEF free, SessionIds
  <2>. DEFINE heap == [sess EXCEPT ![s] = new]
  <2>. HIDE DEF p, first, free
  <2>5. new \in Session
    BY <1>1, <1>2, <2>3, WorldAssumption DEF Session
  <2>6. heap \in [SessionIds -> Session \cup {None}] /\ heap[s] = new
        /\ \A x \in SessionIds : x # s => heap[x] = sess[x]
    BY <2>4, <2>5 DEF TypeOK
  <2>. HIDE DEF heap, new
  <2>7. /\ byConn' \in [Conns -> SessionIds \cup {None}]
        /\ byConn'[t.conn] = s
        /\ \A d \in Conns : d # t.conn => byConn'[d] = left.conn[d]
    <3>1. left.char[t.char] # None => left.conn[sess[left.char[t.char]].conn] = None
      BY <1>1, EvictedConn DEF left
    <3>. QED BY <1>1, <1>3, <2>4, <3>1 DEF SetSession
  <2>8. /\ byChar' \in [Chars -> SessionIds \cup {None}]
        /\ byChar'[t.char] = s
        /\ \A k \in Chars : k # t.char => byChar'[k] = left.char[k]
    BY <1>1, <1>3, <2>4 DEF SetSession
  <2>9. \A x \in SessionIds : Reachable(x)' => Reachable(x) \/ x = s
    BY <1>3, <1>6, <2>7, <2>8, Names DEF Reachable
  <2>10. /\ sess' \in [SessionIds -> Session \cup {None}] /\ Live'
         /\ \A x \in SessionIds : Reachable(x)' => sess'[x] = heap[x]
    BY <2>4, <2>5, <2>6, <2>9, HeapStep, Names DEF Live, heap
  <2>11. Sound(AddEntity(m, Player(t.char), p))
    BY <1>1, <1>5, <2>2, <2>3, AddSound, EntityIds
  <2>12. Instances' /\ insts' \in [InstanceIds -> Instance]
    BY <1>2, <1>3, <2>1, <2>11 DEF Instances, Sound
  <2>13. TypeOK'
    BY <1>2, <1>6, <2>7, <2>8, <2>10, <2>12 DEF TypeOK
  <2>14. sess'[s] = new
    <3>1. Reachable(s)'
      BY <1>1, <2>7 DEF Reachable
    <3>. QED BY <2>4, <2>6, <2>10, <3>1
  <2>15. ASSUME NEW k \in InstanceIds, NEW ch \in Chars, ch # t.char
         PROVE  insts'[k].at[Player(ch)] = left.insts[k].at[Player(ch)]
    <3>1. Player(ch) \in EntityId /\ Player(t.char) \in EntityId /\ Player(ch) # Player(t.char)
      BY <1>1, <2>15, EntityIds
    <3>2. AddEntity(m, Player(t.char), p).at[Player(ch)] = m.at[Player(ch)]
      BY <1>5, <3>1 DEF AddEntity, Instance
    <3>. QED BY <1>2, <1>3, <1>5, <2>1, <3>2
  <2>16. insts'[i].at[Player(t.char)] = p
    BY <1>1, <1>2, <1>3, <1>5, <2>1, EntityIds DEF AddEntity, Instance
  <2>17. \A k \in InstanceIds : k # i => insts'[k].at[Player(t.char)] = left.insts[k].at[Player(t.char)]
    BY <1>3, <2>1
  <2>18. \A x \in SessionIds \ {s} : Reachable(x)' => Reachable(x) /\ sess'[x] = sess[x]
    BY <2>6, <2>9, <2>10
  <2>19. /\ byConn'[t.conn] = s /\ \A d \in Conns \ {t.conn} : byConn'[d] = left.conn[d]
         /\ byChar'[t.char] = s /\ \A ch \in Chars \ {t.char} : byChar'[ch] = left.char[ch]
         /\ ~Reachable(s)
         /\ sess'[s] = [conn |-> t.conn, char |-> t.char, inst |-> i, pos |-> p, seq |-> 0]
         /\ \A x \in SessionIds \ {s} : Reachable(x)' => Reachable(x) /\ sess'[x] = sess[x]
         /\ insts'[i].at[Player(t.char)] = p
         /\ \A k \in InstanceIds, ch \in Chars :
                k # i \/ ch # t.char => insts'[k].at[Player(ch)] = left.insts[k].at[Player(ch)]
    BY <2>4, <2>7, <2>8, <2>14, <2>15, <2>16, <2>17, <2>18 DEF new
  <2>20. EnterEffect(t, left)
    BY <1>2, <2>3, <2>19 DEF EnterEffect
  <2>. QED BY <2>10, <2>12, <2>13, <2>20 DEF left
<1>. QED BY <1>7, <1>8 DEF left

LEMMA EnterStep ==
    ASSUME IInv, NEW t \in entering, EnterWorld(t)
    PROVE  IInv'
<1>. USE DEF IInv
<1>. DEFINE left == IndexAfterEviction(t.char)
<1>1. t.char \in Chars /\ t.conn \in Conns
  BY DEF TypeOK, EnterTask
<1>2. EnterEffect(t, left) /\ TypeOK' /\ Live' /\ Instances'
  BY EnterWorldEffect
<1>3. /\ \A d \in Conns : left.conn[d] \in {byConn[d], None}
      /\ \A k \in Chars : left.char[k] \in {byChar[k], None}
      /\ \A d \in Conns : left.conn[d] # None =>
           LET x == sess[byConn[d]]
           IN  /\ x.char # t.char
               /\ left.char[x.char] = byConn[d]
               /\ left.insts[x.inst].at[Player(x.char)] = x.pos
  BY <1>1, Eviction
<1>. HIDE DEF left
<1>4. ASSUME NEW d \in Conns, byConn'[d] # None, left.conn[d] # None, byConn'[d] = left.conn[d],
             \A ch \in Chars : ch # t.char => byChar'[ch] = left.char[ch],
             \A k \in InstanceIds, ch \in Chars : ch # t.char =>
                insts'[k].at[Player(ch)] = left.insts[k].at[Player(ch)],
             \A x \in SessionIds : Reachable(x) /\ Reachable(x)' => sess'[x] = sess[x]
      PROVE  LET x == sess'[byConn'[d]]
             IN  /\ x.conn = d /\ byChar'[x.char] = byConn'[d]
                 /\ insts'[x.inst].at[Player(x.char)] = x.pos
  <2>1. byConn'[d] = byConn[d] /\ byConn[d] # None
    BY <1>3, <1>4
  <2>2. byConn[d] \in SessionIds /\ sess[byConn[d]] \in Session /\ Reachable(byConn[d])
    BY <2>1, SessionOf
  <2>3. Reachable(byConn[d])'
    BY <2>1 DEF Reachable
  <2>4. sess'[byConn'[d]] = sess[byConn[d]] /\ sess[byConn[d]].conn = d
    BY <1>4, <2>1, <2>2, <2>3 DEF SessionsAgree, SessionIndexed
  <2>. DEFINE x == sess[byConn[d]]
  <2>5. x.inst \in InstanceIds /\ x.char \in Chars
    BY <2>2 DEF Session
  <2>6. x.char # t.char /\ left.char[x.char] = byConn[d] /\ left.insts[x.inst].at[Player(x.char)] = x.pos
    BY <1>3, <1>4
  <2>7. byChar'[x.char] = byConn[d] /\ insts'[x.inst].at[Player(x.char)] = x.pos
    BY <1>4, <2>5, <2>6
  <2>. QED BY <2>1, <2>4, <2>7
<1>5. ASSUME NEW ch \in Chars, byChar'[ch] # None, byChar'[ch] = left.char[ch],
             \A x \in SessionIds : Reachable(x) /\ Reachable(x)' => sess'[x] = sess[x]
      PROVE  sess'[byChar'[ch]].char = ch
  <2>1. byChar'[ch] = byChar[ch] /\ byChar[ch] # None
    BY <1>3, <1>5
  <2>2. byChar[ch] \in SessionIds /\ Reachable(byChar[ch])
    BY <2>1, SessionOf
  <2>3. Reachable(byChar[ch])'
    BY <2>1 DEF Reachable
  <2>. QED BY <1>5, <2>1, <2>2, <2>3 DEF SessionsAgree, CharIndexed
<1>6. CASE /\ byConn' = left.conn /\ byChar' = left.char
           /\ \A x \in SessionIds : Reachable(x)' => Reachable(x) /\ sess'[x] = sess[x]
           /\ \A k \in InstanceIds, ch \in Chars :
                insts'[k].at[Player(ch)] = left.insts[k].at[Player(ch)]
  <2>1. SessionIndexed' /\ BodyWhereSessionIs'
    BY <1>4, <1>6 DEF SessionIndexed, BodyWhereSessionIs
  <2>2. CharIndexed'
    BY <1>5, <1>6 DEF CharIndexed
  <2>. QED BY <1>2, <2>1, <2>2 DEF SessionsAgree
<1>7. ASSUME NEW s \in SessionIds, NEW i \in InstanceIds, NEW p \in Tiles,
             /\ byConn'[t.conn] = s /\ \A d \in Conns \ {t.conn} : byConn'[d] = left.conn[d]
             /\ byChar'[t.char] = s /\ \A ch \in Chars \ {t.char} : byChar'[ch] = left.char[ch]
             /\ ~Reachable(s)
             /\ sess'[s] = [conn |-> t.conn, char |-> t.char, inst |-> i, pos |-> p, seq |-> 0]
             /\ \A x \in SessionIds \ {s} : Reachable(x)' => Reachable(x) /\ sess'[x] = sess[x]
             /\ insts'[i].at[Player(t.char)] = p
             /\ \A k \in InstanceIds, ch \in Chars :
                   k # i \/ ch # t.char => insts'[k].at[Player(ch)] = left.insts[k].at[Player(ch)]
      PROVE  SessionsAgree'
  <2>1. \A x \in SessionIds : Reachable(x) /\ Reachable(x)' => sess'[x] = sess[x]
    BY <1>7
  <2>2. ASSUME NEW d \in Conns, byConn'[d] # None
        PROVE  LET x == sess'[byConn'[d]]
               IN  /\ x.conn = d /\ byChar'[x.char] = byConn'[d]
                   /\ insts'[x.inst].at[Player(x.char)] = x.pos
    <3>1. CASE d = t.conn
      BY <1>7, <3>1
    <3>2. CASE d # t.conn
      BY <1>4, <1>7, <2>1, <2>2, <3>2
    <3>. QED BY <3>1, <3>2
  <2>3. ASSUME NEW ch \in Chars, byChar'[ch] # None
        PROVE  sess'[byChar'[ch]].char = ch
    <3>1. CASE ch = t.char
      BY <1>7, <3>1
    <3>2. CASE ch # t.char
      BY <1>5, <1>7, <2>1, <2>3, <3>2
    <3>. QED BY <3>1, <3>2
  <2>. QED BY <2>2, <2>3 DEF SessionsAgree, SessionIndexed, CharIndexed, BodyWhereSessionIs
<1>8. SessionsAgree'
  BY <1>2, <1>6, <1>7 DEF EnterEffect
<1>. QED BY <1>2, <1>8

(***************************************************************************)
(* MOVE                                                                    *)
(***************************************************************************)

\* A step that changes only fields of the session of c, other than whose it
\* is and where it is, or, with its body, its position.
LEMMA MoveStep ==
    ASSUME IInv, NEW c \in Conns, NEW d \in Directions, NEW q \in 1 .. MaxSequence, Move(c, d, q)
    PROVE  IInv'
<1>. USE DEF IInv
<1>. DEFINE x == sess[byConn[c]]
            p == Offset(x.pos, d)
            e == Player(x.char)
<1>1. PICK s \in SessionIds : s = byConn[c] /\ Reachable(s) /\ sess[s] \in Session
  BY SessionOf DEF Move
<1>2. /\ x.inst \in InstanceIds /\ x.char \in Chars /\ e \in EntityId /\ x.conn = c
      /\ x.pos \in Tiles /\ x.seq \in 0 .. MaxSequence
  BY <1>1, EntityIds DEF Session, SessionsAgree, SessionIndexed, Move
<1>3. UNCHANGED <<opened, byConn, byChar, sockets, entering>> /\ cast' = None
  BY DEF Move
<1>4. PICK y \in Session :
        /\ sess' = [sess EXCEPT ![s] = y]
        /\ y.conn = x.conn /\ y.char = x.char /\ y.inst = x.inst
        /\ \/ y.pos = x.pos /\ UNCHANGED <<insts, moving>>
           \/ /\ y.pos = p
              /\ CanStep(insts[x.inst], e, p)
              /\ insts' = [insts EXCEPT ![x.inst] = MoveEntity(@, e, p)]
              /\ moving' = moving \cup {[sid |-> s, conn |-> c, char |-> x.char,
                                         inst |-> x.inst, pos |-> p, asked |-> q]}
  <2>1. CASE /\ ~CanStep(insts[x.inst], e, p)
             /\ sess' = [sess EXCEPT ![byConn[c]].seq = q]
             /\ UNCHANGED <<insts, moving>>
    <3>. DEFINE y == [x EXCEPT !.seq = q]
    <3>1. y \in Session
      BY <1>1, <1>2 DEF Session
    <3>2. sess' = [sess EXCEPT ![s] = y]
      BY <1>1, <2>1 DEF TypeOK
    <3>. QED BY <1>1, <2>1, <3>1, <3>2 DEF Session
  <2>2. CASE /\ CanStep(insts[x.inst], e, p)
             /\ insts' = [insts EXCEPT ![x.inst] = MoveEntity(@, e, p)]
             /\ sess' = [sess EXCEPT ![byConn[c]] = Stepped(@, p, q)]
             /\ moving' = moving \cup {[sid |-> byConn[c], conn |-> c, char |-> x.char,
                                        inst |-> x.inst, pos |-> p, asked |-> q]}
    <3>. DEFINE r == [x EXCEPT !.seq = q]
                y == [r EXCEPT !.pos = p]
    <3>1. p \in Tiles
      BY <2>2 DEF CanStep, IsWalkable
    <3>2. /\ r \in Session
          /\ r.conn = x.conn /\ r.char = x.char /\ r.inst = x.inst
      BY <1>1, <1>2 DEF Session
    <3>3. sess' = [sess EXCEPT ![s] = y]
      BY <1>1, <2>2 DEF Stepped
    <3>. HIDE DEF p, r
    <3>4. /\ y \in Session /\ y.pos = p
          /\ y.conn = x.conn /\ y.char = x.char /\ y.inst = x.inst
      BY <3>1, <3>2 DEF Session
    <3>. HIDE DEF y
    <3>. QED BY <1>1, <2>2, <3>3, <3>4
  <2>. QED BY <2>1, <2>2 DEF Move
<1>5. CanStep(insts[x.inst], e, p) => p \in Tiles
  BY DEF CanStep, IsWalkable
<1>. HIDE DEF p, x
<1>6. /\ sess' \in [SessionIds -> Session \cup {None}] /\ sess'[s] = y
      /\ \A z \in SessionIds : z # s => sess'[z] = sess[z]
  BY <1>4 DEF TypeOK
<1>7. moving' \subseteq MoveTask
  BY <1>1, <1>2, <1>4, <1>5 DEF TypeOK, MoveTask
<1>8. Instances' /\ insts' \in [InstanceIds -> Instance]
  <2>1. CASE UNCHANGED insts
    BY <2>1 DEF Instances, TypeOK
  <2>2. CASE /\ CanStep(insts[x.inst], e, p) /\ p \in Tiles
             /\ insts' = [insts EXCEPT ![x.inst] = MoveEntity(@, e, p)]
    <3>1. Sound(MoveEntity(insts[x.inst], e, p))
      BY <1>2, <2>2, MoveSound DEF CanStep, Instances
    <3>. QED BY <1>2, <2>2, <3>1 DEF Instances, TypeOK, Sound
  <2>. QED BY <1>4, <1>5, <2>1, <2>2
<1>9. Live'
  <2>1. \A z \in SessionIds : Reachable(z)' => Reachable(z)
    BY <1>1, <1>3, <1>4, <1>6 DEF Reachable
  <2>. QED BY <1>4, <1>6, <2>1, Names DEF Live
<1>10. TypeOK'
  BY <1>3, <1>6, <1>7, <1>8 DEF TypeOK
<1>11. SessionIndexed' /\ CharIndexed'
  BY <1>1, <1>3, <1>4, <1>6 DEF x, SessionsAgree, SessionIndexed, CharIndexed, TypeOK
<1>12. BodyWhereSessionIs'
  <2>. SUFFICES ASSUME NEW k \in Conns, byConn[k] # None
                PROVE  LET z == sess'[byConn[k]] IN insts'[z.inst].at[Player(z.char)] = z.pos
    BY <1>3 DEF BodyWhereSessionIs
  <2>1. byConn[k] \in SessionIds /\ sess[byConn[k]] \in Session
        /\ sess[byConn[k]].inst \in InstanceIds /\ sess[byConn[k]].char \in Chars
    BY SessionOf DEF Session
  <2>2. insts[x.inst].at[e] = x.pos
    BY <1>1 DEF x, SessionsAgree, BodyWhereSessionIs, Move
  <2>3. CASE k = c
    <3>1. sess'[byConn[k]] = y
      BY <1>1, <1>6, <2>3
    <3>2. CASE UNCHANGED insts /\ y.pos = x.pos
      BY <1>4, <2>2, <3>1, <3>2
    <3>3. CASE y.pos = p /\ insts' = [insts EXCEPT ![x.inst] = MoveEntity(@, e, p)]
      <4>1. MoveEntity(insts[x.inst], e, p).at[e] = p
        BY <1>2 DEF MoveEntity, TypeOK, Instance
      <4>. QED BY <1>2, <1>4, <3>1, <3>3, <4>1 DEF TypeOK
    <3>. QED BY <1>4, <1>5, <3>2, <3>3
  <2>4. CASE k # c
    <3>1. sess'[byConn[k]] = sess[byConn[k]] /\ sess[byConn[k]].char # x.char
      BY <1>1, <1>6, <2>1, <2>4, SessionsDiffer DEF x, SessionsAgree, Move
    <3>2. \A j \in InstanceIds : insts'[j].at[Player(sess[byConn[k]].char)]
                               = insts[j].at[Player(sess[byConn[k]].char)]
      <4>1. Player(sess[byConn[k]].char) \in EntityId /\ Player(sess[byConn[k]].char) # e
        BY <1>2, <2>1, <3>1, EntityIds
      <4>. QED BY <1>2, <1>4, <4>1 DEF MoveEntity, TypeOK, Instance
    <3>. QED BY <2>1, <3>1, <3>2 DEF SessionsAgree, BodyWhereSessionIs
  <2>. QED BY <2>3, <2>4
<1>. QED BY <1>8, <1>9, <1>10, <1>11, <1>12 DEF SessionsAgree

(***************************************************************************)
(* Steps that change neither an index nor an instance                      *)
(***************************************************************************)

LEMMA SameSessions ==
    ASSUME IInv, UNCHANGED <<insts, byConn, byChar>>, TypeOK', Live',
           \A x \in SessionIds : Reachable(x)' => sess'[x] = sess[x]
    PROVE  IInv'
<1>. USE DEF IInv
<1>1. Instances'
  BY DEF Instances
<1>2. ASSUME NEW c \in Conns, byConn[c] # None
      PROVE  sess'[byConn[c]] = sess[byConn[c]]
  BY <1>2 DEF Reachable, TypeOK
<1>3. ASSUME NEW ch \in Chars, byChar[ch] # None
      PROVE  sess'[byChar[ch]] = sess[byChar[ch]]
  BY <1>3 DEF Reachable, TypeOK
<1>4. SessionIndexed'
  BY <1>2 DEF SessionsAgree, SessionIndexed
<1>5. CharIndexed'
  BY <1>3 DEF SessionsAgree, CharIndexed
<1>6. BodyWhereSessionIs'
  BY <1>2 DEF SessionsAgree, BodyWhereSessionIs
<1>. QED BY <1>1, <1>4, <1>5, <1>6 DEF SessionsAgree

LEMMA MovedStep ==
    ASSUME IInv, NEW t \in moving, Moved(t)
    PROVE  IInv'
<1>. USE DEF IInv
<1>1. t \in MoveTask /\ sess[t.sid] \in Session
  BY SessionOf DEF TypeOK
<1>2. cast' \in Broadcast
  BY <1>1 DEF Moved, Broadcast, MoveTask, Session, Hearers
<1>3. \A x \in SessionIds : Reachable(x)' => Reachable(x)
  BY DEF Reachable, Moved
<1>4. /\ sess' \in [SessionIds -> Session \cup {None}] /\ Live'
      /\ \A x \in SessionIds : Reachable(x)' => sess'[x] = sess[x]
  BY <1>3, HeapStep DEF Moved, TypeOK, Live
<1>5. TypeOK'
  BY <1>2, <1>4 DEF TypeOK, Moved
<1>. QED BY <1>4, <1>5, SameSessions DEF Moved

LEMMA QuietStep ==
    ASSUME IInv, UNCHANGED <<insts, sess, byConn, byChar, moving>>, TypeOK'
    PROVE  IInv'
<1>1. Live' /\ \A x \in SessionIds : sess'[x] = sess[x]
  BY DEF IInv, Live, Reachable
<1>. QED BY <1>1, SameSessions

(***************************************************************************)
(* Every step                                                              *)
(***************************************************************************)

LEMMA NextIInv == IInv /\ [Next]_vars => IInv'
<1>. SUFFICES ASSUME IInv, [Next]_vars PROVE IInv'
  OBVIOUS
<1>1. CASE UNCHANGED vars
  BY <1>1, QuietStep DEF vars, IInv, TypeOK
<1>2. ASSUME NEW c \in Conns, Connect(c)
      PROVE  IInv'
  BY <1>2, QuietStep DEF Connect, IInv, TypeOK
<1>3. ASSUME NEW c \in Conns, Leave(c) \/ Disconnect(c)
      PROVE  IInv'
  <2>1. sockets' \in [Conns -> {"new", "open", "closed"}] /\ LeaveAndBroadcast(c)
    BY <1>3 DEF Leave, Disconnect, IInv, TypeOK
  <2>. QED BY <2>1, LeaveStep DEF LeaveAndBroadcast
<1>4. ASSUME NEW c \in Conns, NEW ch \in Chars, NEW at \in Stored, EnterRequest(c, ch, at)
      PROVE  IInv'
  <2>1. [conn |-> c, char |-> ch, at |-> at] \in EnterTask
    BY WorldAssumption DEF EnterTask
  <2>2. TypeOK'
    BY <1>4, <2>1 DEF EnterRequest, IInv, TypeOK
  <2>. QED BY <1>4, <2>2, QuietStep DEF EnterRequest
<1>5. ASSUME NEW t \in entering, EnterWorld(t)
      PROVE  IInv'
  BY <1>5, EnterStep
<1>6. ASSUME NEW c \in Conns, NEW d \in Directions, NEW q \in 1 .. MaxSequence, Move(c, d, q)
      PROVE  IInv'
  BY <1>6, MoveStep
<1>7. ASSUME NEW t \in moving, Moved(t)
      PROVE  IInv'
  BY <1>7, MovedStep
<1>8. ASSUME ResolveLaboratorySpawn
      PROVE  IInv'
  <2>1. opened' \in 0 .. MaxInstances
    BY <1>8 DEF ResolveLaboratorySpawn, InstanceIds, IInv, TypeOK
  <2>. QED BY <1>8, <2>1, QuietStep DEF ResolveLaboratorySpawn, IInv, TypeOK
<1>9. ASSUME Restart
      PROVE  IInv'
  <2>1. Sound(EmptyInstance)
    BY EmptySound
  <2>2. TypeOK'
    BY <1>9, <2>1, WorldAssumption DEF Restart, IInv, TypeOK, Sound
  <2>3. Live'
    BY <1>9, Names DEF Restart, Live, Reachable
  <2>4. Instances'
    BY <1>9, <2>1 DEF Restart, Instances
  <2>5. SessionsAgree'
    BY <1>9 DEF Restart, SessionsAgree, SessionIndexed, CharIndexed, BodyWhereSessionIs
  <2>. QED BY <2>2, <2>3, <2>4, <2>5 DEF IInv
<1>. QED BY <1>1, <1>2, <1>3, <1>4, <1>5, <1>6, <1>7, <1>8, <1>9 DEF Next

LEMMA Invariance == Spec => []IInv
BY InitIInv, NextIInv, PTL DEF Spec

(***************************************************************************)
(* The capacity                                                            *)
(***************************************************************************)
AllCapped == \A i \in InstanceIds : Capped(insts[i])

LEMMA WithoutCapped ==
    ASSUME IInv, AllCapped, NEW s \in SessionIds, sess[s] \in Session
    PROVE  \A i \in InstanceIds : Capped(InstancesWithout(s)[i])
<1>1. sess[s].inst \in InstanceIds /\ Player(sess[s].char) \in EntityId
  BY EntityIds DEF Session
<1>2. insts \in [InstanceIds -> Instance]
  BY DEF IInv, TypeOK
<1>3. \A i \in InstanceIds : InstancesWithout(s)[i] = IF i = sess[s].inst
         THEN RemoveEntity(insts[i], Player(sess[s].char)) ELSE insts[i]
  BY <1>1, <1>2 DEF InstancesWithout
<1>4. \A i \in InstanceIds : Capped(RemoveEntity(insts[i], Player(sess[s].char)))
  BY <1>1, <1>2, RemoveCapped DEF AllCapped
<1>. QED BY <1>3, <1>4 DEF AllCapped

LEMMA EnterCapped ==
    ASSUME IInv, AllCapped, NEW t \in entering, EnterWorld(t)
    PROVE  AllCapped'
<1>. DEFINE left == IndexAfterEviction(t.char)
            i == Available(left.insts)
<1>1. t.char \in Chars /\ t.at \in Tiles \cup {None} /\ Player(t.char) \in EntityId
  BY EntityIds DEF IInv, TypeOK, EnterTask
<1>2. i \in InstanceIds
  BY DEF EnterWorld
<1>3. /\ left.insts \in [InstanceIds -> Instance]
      /\ \A k \in InstanceIds : Sound(left.insts[k])
  BY <1>1, Eviction
<1>4. \A k \in InstanceIds : Capped(left.insts[k])
  <2>1. CASE byChar[t.char] = None
    BY <2>1 DEF IndexAfterEviction, AllCapped
  <2>2. CASE byChar[t.char] # None
    <3>1. byChar[t.char] \in SessionIds /\ sess[byChar[t.char]] \in Session
      BY <1>1, <2>2, SessionOf DEF IInv
    <3>. QED BY <2>2, <3>1, WithoutCapped DEF IndexAfterEviction
  <2>. QED BY <2>1, <2>2
<1>5. PICK n \in EnsureNpcs(left.insts[i]) : \E m \in EnsureSpawns(n) :
        EnterRefused(left, i, m, t) \/ EnterAdmitted(left, i, m, t)
  BY DEF EnterWorld
<1>. PICK m \in EnsureSpawns(n) : EnterRefused(left, i, m, t) \/ EnterAdmitted(left, i, m, t)
  BY <1>5
<1>6. Capped(m) /\ Sound(m)
  BY <1>2, <1>3, <1>4, ResidentsCapped, ResidentsSound
<1>. HIDE DEF left, i
<1>7. CASE EnterRefused(left, i, m, t)
  <2>1. insts' = [left.insts EXCEPT ![i] = m]
    BY <1>7 DEF EnterRefused
  <2>. QED BY <1>2, <1>3, <1>4, <1>6, <2>1 DEF AllCapped
<1>8. CASE EnterAdmitted(left, i, m, t)
  <2>. DEFINE p == EntryTile(m, t.at)
              full == AddEntity(m, Player(t.char), p)
  <2>1. ~IsFull(m) /\ FindSpawn(m) # None /\ insts' = [left.insts EXCEPT ![i] = full]
    BY <1>8 DEF EnterAdmitted, CannotEnter
  <2>2. p \in Tiles
    BY <1>1, <2>1, EntryTileFree
  <2>3. Capped(full)
    BY <1>1, <1>6, <2>1, <2>2, AddCapped DEF Sound
  <2>. HIDE DEF full
  <2>. QED BY <1>2, <1>3, <1>4, <2>1, <2>3 DEF AllCapped
<1>. QED BY <1>7, <1>8

LEMMA MoveKeepsCapped ==
    ASSUME IInv, AllCapped, NEW c \in Conns, NEW d \in Directions, NEW q \in 1 .. MaxSequence, Move(c, d, q)
    PROVE  AllCapped'
<1>. DEFINE x == sess[byConn[c]]
            e == Player(x.char)
            p == Offset(x.pos, d)
<1>1. x.inst \in InstanceIds /\ e \in EntityId
  BY SessionOf, EntityIds DEF Move, IInv, Session
<1>2. CASE UNCHANGED insts
  BY <1>2 DEF AllCapped
<1>3. CASE CanStep(insts[x.inst], e, p) /\ insts' = [insts EXCEPT ![x.inst] = MoveEntity(@, e, p)]
  <2>1. Capped(MoveEntity(insts[x.inst], e, p))
    BY <1>1, <1>3, MoveCapped DEF CanStep, IsWalkable, IInv, TypeOK, AllCapped
  <2>. QED BY <1>1, <1>3, <2>1 DEF IInv, TypeOK, AllCapped
<1>. QED BY <1>2, <1>3 DEF Move

LEMMA NextCapped == IInv /\ AllCapped /\ [Next]_vars => AllCapped'
<1>. SUFFICES ASSUME IInv, AllCapped, [Next]_vars PROVE AllCapped'
  OBVIOUS
<1>1. CASE UNCHANGED insts
  BY <1>1 DEF AllCapped
<1>2. ASSUME NEW c \in Conns, LeaveAndBroadcast(c) PROVE AllCapped'
  <2>1. CASE byConn[c] # None /\ insts' = InstancesWithout(byConn[c])
    <3>1. byConn[c] \in SessionIds /\ sess[byConn[c]] \in Session
      BY <2>1, SessionOf DEF IInv
    <3>. QED BY <2>1, <3>1, WithoutCapped DEF AllCapped
  <2>. QED BY <1>1, <1>2, <2>1 DEF LeaveAndBroadcast
<1>3. CASE Restart
  <2>1. \A i \in InstanceIds : insts'[i] = EmptyInstance
    BY <1>3 DEF Restart
  <2>. QED BY <2>1, EmptyCapped DEF AllCapped
<1>. QED BY <1>1, <1>2, <1>3, EnterCapped, MoveKeepsCapped
         DEF Next, vars, Connect, Leave, Disconnect, EnterRequest, Moved, ResolveLaboratorySpawn

(***************************************************************************)
(* Sockets that keep to one character                                      *)
(*                                                                         *)
(* removeByConnection, called when a character enters from elsewhere, drops*)
(* whatever session the connection has by then: only when no connection    *)
(* plays two characters is it that character's.                            *)
(***************************************************************************)
OneCharacterPerSocket ==
    \A c \in Conns, ch, k \in Chars : <<c, ch>> \in MayEnter /\ <<c, k>> \in MayEnter => ch = k

\* Sessions belong to characters the connection may enter with.
Entitled ==
    /\ \A t \in entering : <<t.conn, t.char>> \in MayEnter
    /\ \A x \in SessionIds : Reachable(x) => <<sess[x].conn, sess[x].char>> \in MayEnter

\* A step after which every session is a former one, of the same connection and
\* character in the same instance.
KeptSessions ==
    \A x \in SessionIds : Reachable(x)' =>
        /\ Reachable(x)
        /\ sess'[x].conn = sess[x].conn /\ sess'[x].char = sess[x].char /\ sess'[x].inst = sess[x].inst

LEMMA LeaveKeeps ==
    ASSUME IInv, NEW c \in Conns, LeaveAndBroadcast(c), UNCHANGED moving
    PROVE  KeptSessions
<1>1. CASE UNCHANGED <<sess, byConn, byChar>>
  BY <1>1 DEF KeptSessions, Reachable
<1>2. CASE byConn' = ConnIndexWithout(c) /\ byChar' = CharIndexWithout(c) /\ HeapBecomes(sess)
  <2>1. \A x \in SessionIds : Reachable(x)' => Reachable(x)
    BY <1>2, CharIndexShrinks, Names DEF IInv, Reachable, ConnIndexWithout, TypeOK
  <2>. QED BY <1>2, <2>1 DEF HeapBecomes, KeptSessions
<1>. QED BY <1>1, <1>2 DEF LeaveAndBroadcast

LEMMA MoveKeeps ==
    ASSUME IInv, NEW c \in Conns, NEW d \in Directions, NEW q \in 1 .. MaxSequence, Move(c, d, q)
    PROVE  KeptSessions
<1>1. byConn[c] \in SessionIds /\ sess[byConn[c]] \in Session /\ Reachable(byConn[c])
  BY SessionOf DEF IInv, Move
<1>2. sess \in [SessionIds -> Session \cup {None}]
  BY DEF IInv, TypeOK
<1>3. ASSUME NEW x \in SessionIds
      PROVE  sess'[x].conn = sess[x].conn /\ sess'[x].char = sess[x].char /\ sess'[x].inst = sess[x].inst
  <2>1. CASE sess' = [sess EXCEPT ![byConn[c]].seq = q]
    BY <1>1, <1>2, <2>1 DEF Session
  <2>2. CASE sess' = [sess EXCEPT ![byConn[c]] = Stepped(@, Offset(sess[byConn[c]].pos, d), q)]
    BY <1>1, <1>2, <2>2 DEF Session, Stepped
  <2>. QED BY <2>1, <2>2 DEF Move
<1>4. ASSUME NEW x \in SessionIds, Reachable(x)' PROVE Reachable(x)
  BY <1>1, <1>4 DEF Reachable, Move
<1>. QED BY <1>3, <1>4 DEF KeptSessions

LEMMA MovedKeeps ==
    ASSUME NEW t \in moving, Moved(t)
    PROVE  KeptSessions
BY DEF Moved, HeapBecomes, Reachable, KeptSessions

LEMMA SameKeeps ==
    ASSUME UNCHANGED <<sess, byConn, byChar, moving>>
    PROVE  KeptSessions
BY DEF Reachable, KeptSessions

LEMMA RestartKeeps ==
    ASSUME Restart
    PROVE  KeptSessions
BY Names DEF Restart, Reachable, KeptSessions

\* Steps other than those of WORLD_ENTER add to nobody's rights.
LEMMA KeptEntitled ==
    ASSUME Entitled, KeptSessions, entering' \subseteq entering
    PROVE  Entitled'
BY DEF Entitled, KeptSessions

LEMMA EnterEntitled ==
    ASSUME IInv, Entitled, NEW t \in entering, EnterWorld(t)
    PROVE  Entitled'
<1>. DEFINE left == IndexAfterEviction(t.char)
<1>1. EnterEffect(t, left)
  BY EnterWorldEffect
<1>2. entering' \subseteq entering /\ <<t.conn, t.char>> \in MayEnter
  BY DEF EnterWorld, Entitled
<1>. HIDE DEF left
<1>3. \A x \in SessionIds : Reachable(x)' => <<sess'[x].conn, sess'[x].char>> \in MayEnter
  <2>. SUFFICES ASSUME NEW x \in SessionIds, Reachable(x)'
                PROVE  <<sess'[x].conn, sess'[x].char>> \in MayEnter
    OBVIOUS
  <2>1. \/ Reachable(x) /\ sess'[x] = sess[x]
        \/ sess'[x].conn = t.conn /\ sess'[x].char = t.char
    <3>1. CASE \A y \in SessionIds : Reachable(y)' => Reachable(y) /\ sess'[y] = sess[y]
      BY <3>1
    <3>2. ASSUME NEW s \in SessionIds, NEW i \in InstanceIds, NEW p \in Tiles,
                 sess'[s] = [conn |-> t.conn, char |-> t.char, inst |-> i, pos |-> p, seq |-> 0],
                 \A y \in SessionIds \ {s} : Reachable(y)' => Reachable(y) /\ sess'[y] = sess[y]
          PROVE  \/ Reachable(x) /\ sess'[x] = sess[x]
                 \/ sess'[x].conn = t.conn /\ sess'[x].char = t.char
      BY <3>2
    <3>. QED BY <1>1, <3>1, <3>2 DEF EnterEffect
  <2>. QED BY <1>2, <2>1 DEF Entitled
<1>. QED BY <1>2, <1>3 DEF Entitled

\* Only WORLD_ENTER makes sessions.
LEMMA OthersKeep ==
    ASSUME IInv, [Next]_vars
    PROVE  KeptSessions \/ \E t \in entering : EnterWorld(t)
<1>1. CASE UNCHANGED <<sess, byConn, byChar, moving>>
  BY <1>1, SameKeeps
<1>2. ASSUME NEW c \in Conns, Leave(c) \/ Disconnect(c) PROVE KeptSessions
  BY <1>2, LeaveKeeps DEF Leave, Disconnect, LeaveAndBroadcast
<1>3. ASSUME NEW c \in Conns, NEW d \in Directions, NEW q \in 1 .. MaxSequence, Move(c, d, q)
      PROVE  KeptSessions
  BY <1>3, MoveKeeps
<1>4. ASSUME NEW t \in moving, Moved(t) PROVE KeptSessions
  BY <1>4, MovedKeeps
<1>5. CASE \/ \E c \in Conns : Connect(c)
           \/ \E c \in Conns, ch \in Chars, at \in Stored : EnterRequest(c, ch, at)
           \/ ResolveLaboratorySpawn \/ UNCHANGED vars
  BY <1>1, <1>5 DEF Connect, EnterRequest, ResolveLaboratorySpawn, vars
<1>. QED BY <1>2, <1>3, <1>4, <1>5, RestartKeeps DEF Next

\* Only a request of WORLD_ENTER adds to what is to be entered.
LEMMA Entering ==
    ASSUME [Next]_vars
    PROVE  \/ entering' \subseteq entering
           \/ \E c \in Conns, ch \in Chars, at \in Stored : EnterRequest(c, ch, at)
BY DEF Next, vars, Connect, Leave, Disconnect, LeaveAndBroadcast, EnterWorld, Move, Moved,
       ResolveLaboratorySpawn, Restart

LEMMA NextEntitled == IInv /\ Entitled /\ [Next]_vars => Entitled'
<1>. SUFFICES ASSUME IInv, Entitled, [Next]_vars PROVE Entitled'
  OBVIOUS
<1>1. ASSUME NEW c \in Conns, NEW ch \in Chars, NEW at \in Stored, EnterRequest(c, ch, at)
      PROVE  Entitled'
  <2>1. KeptSessions
    BY <1>1, SameKeeps DEF EnterRequest
  <2>2. \A t \in entering' : t \in entering \/ t = [conn |-> c, char |-> ch, at |-> at]
    BY <1>1 DEF EnterRequest
  <2>. QED BY <1>1, <2>1, <2>2 DEF EnterRequest, Entitled, KeptSessions
<1>. QED BY <1>1, OthersKeep, Entering, EnterEntitled, KeptEntitled

\* The body of the session that is removed goes, no other one.
LEMMA BodyRemoved ==
    ASSUME IInv, NEW s \in SessionIds, sess[s] \in Session, NEW i \in InstanceIds
    PROVE  InstancesWithout(s)[i].at[Player(sess[s].char)] =
              IF i = sess[s].inst THEN None ELSE insts[i].at[Player(sess[s].char)]
<1>1. sess[s].inst \in InstanceIds /\ Player(sess[s].char) \in EntityId
  BY EntityIds DEF Session
<1>2. insts \in [InstanceIds -> Instance]
  BY DEF IInv, TypeOK
<1>3. InstancesWithout(s)[i] = IF i = sess[s].inst
         THEN RemoveEntity(insts[i], Player(sess[s].char)) ELSE insts[i]
  BY <1>1, <1>2 DEF InstancesWithout
<1>4. RemoveEntity(insts[i], Player(sess[s].char)).at[Player(sess[s].char)] = None
  BY <1>1, <1>2 DEF RemoveEntity, Instance
<1>. QED BY <1>3, <1>4

\* An eviction takes no other character's session ...
LEMMA EvictedConns ==
    ASSUME IInv, Entitled, OneCharacterPerSocket, NEW ch \in Chars,
           NEW left, left = IndexAfterEviction(ch)
    PROVE  /\ \A k \in Chars : k # ch => left.char[k] = byChar[k]
           /\ \A d \in Conns : byConn[d] # None /\ sess[byConn[d]].char # ch =>
                left.conn[d] = byConn[d]
<1>1. CASE byChar[ch] = None
  BY <1>1 DEF IndexAfterEviction
<1>2. CASE byChar[ch] # None
  <2>. DEFINE s == byChar[ch]
              c == sess[s].conn
  <2>1. s \in SessionIds /\ sess[s] \in Session /\ Reachable(s) /\ sess[s].char = ch /\ c \in Conns
    BY <1>2, SessionOf DEF IInv, SessionsAgree, CharIndexed, Session
  <2>2. left.conn = ConnIndexWithout(c) /\ left.char = CharIndexWithout(c)
    BY <1>2 DEF IndexAfterEviction
  <2>3. byConn[c] # None => sess[byConn[c]].char = ch
    <3>. SUFFICES ASSUME byConn[c] # None PROVE sess[byConn[c]].char = ch
      OBVIOUS
    <3>1. /\ byConn[c] \in SessionIds /\ Reachable(byConn[c]) /\ sess[byConn[c]].conn = c
          /\ sess[byConn[c]].char \in Chars
      BY <2>1, SessionOf DEF IInv, SessionsAgree, SessionIndexed, Session
    <3>2. <<c, sess[byConn[c]].char>> \in MayEnter /\ <<c, ch>> \in MayEnter
      BY <2>1, <3>1 DEF Entitled
    <3>. QED BY <2>1, <3>1, <3>2 DEF OneCharacterPerSocket
  <2>4. \A k \in Chars : k # ch => left.char[k] = byChar[k]
    BY <2>1, <2>2, <2>3, CharIndexShrinks
  <2>5. \A d \in Conns : byConn[d] # None /\ sess[byConn[d]].char # ch => left.conn[d] = byConn[d]
    BY <2>1, <2>2, <2>3 DEF ConnIndexWithout, IInv, TypeOK
  <2>. QED BY <2>4, <2>5
<1>. QED BY <1>1, <1>2

\* ... and leaves no body of the one that enters.
LEMMA EvictedBody ==
    ASSUME IInv, BodiesHaveSessions, NEW ch \in Chars, NEW i \in InstanceIds
    PROVE  IndexAfterEviction(ch).insts[i].at[Player(ch)] = None
<1>1. CASE byChar[ch] = None
  BY <1>1 DEF IndexAfterEviction, BodiesHaveSessions
<1>2. CASE byChar[ch] # None
  <2>1. byChar[ch] \in SessionIds /\ sess[byChar[ch]] \in Session /\ sess[byChar[ch]].char = ch
    BY <1>2, SessionOf DEF IInv, SessionsAgree, CharIndexed
  <2>. QED BY <1>2, <2>1, BodyRemoved DEF IndexAfterEviction, BodiesHaveSessions
<1>. QED BY <1>1, <1>2

LEMMA EnterBodies ==
    ASSUME IInv, Entitled, OneCharacterPerSocket, BodiesHaveSessions, NEW t \in entering, EnterWorld(t)
    PROVE  BodiesHaveSessions'
<1>. DEFINE left == IndexAfterEviction(t.char)
<1>1. t.char \in Chars /\ t.conn \in Conns
  BY DEF IInv, TypeOK, EnterTask
<1>2. EnterEffect(t, left) /\ TypeOK' /\ Live'
  BY EnterWorldEffect
<1>3. /\ \A i \in InstanceIds : left.insts[i].at[Player(t.char)] = None
      /\ \A i \in InstanceIds, k \in Chars : k # t.char =>
            left.insts[i].at[Player(k)] = insts[i].at[Player(k)] /\ left.char[k] = byChar[k]
  BY <1>1, EvictedBody, EvictedOthers, EvictedConns
<1>. HIDE DEF left
<1>. SUFFICES ASSUME NEW i \in InstanceIds, NEW ch \in Chars, insts'[i].at[Player(ch)] # None
              PROVE  byChar'[ch] # None /\ sess'[byChar'[ch]].inst = i
  BY DEF BodiesHaveSessions
<1>4. ASSUME ch # t.char, byChar'[ch] = left.char[ch],
             insts'[i].at[Player(ch)] = left.insts[i].at[Player(ch)],
             \A x \in SessionIds : Reachable(x) /\ Reachable(x)' => sess'[x] = sess[x]
      PROVE  byChar'[ch] # None /\ sess'[byChar'[ch]].inst = i
  <2>1. byChar'[ch] = byChar[ch] /\ byChar[ch] # None /\ sess[byChar[ch]].inst = i
    BY <1>3, <1>4 DEF BodiesHaveSessions
  <2>2. byChar[ch] \in SessionIds /\ Reachable(byChar[ch])
    BY <2>1, SessionOf DEF IInv
  <2>3. Reachable(byChar[ch])'
    BY <2>1 DEF Reachable
  <2>. QED BY <1>4, <2>1, <2>2, <2>3
<1>5. CASE /\ byConn' = left.conn /\ byChar' = left.char
           /\ \A x \in SessionIds : Reachable(x)' => Reachable(x) /\ sess'[x] = sess[x]
           /\ \A k \in InstanceIds, c \in Chars : insts'[k].at[Player(c)] = left.insts[k].at[Player(c)]
  BY <1>3, <1>4, <1>5
<1>6. ASSUME NEW s \in SessionIds, NEW j \in InstanceIds, NEW p \in Tiles,
             /\ byConn'[t.conn] = s /\ \A d \in Conns \ {t.conn} : byConn'[d] = left.conn[d]
             /\ byChar'[t.char] = s /\ \A c \in Chars \ {t.char} : byChar'[c] = left.char[c]
             /\ ~Reachable(s)
             /\ sess'[s] = [conn |-> t.conn, char |-> t.char, inst |-> j, pos |-> p, seq |-> 0]
             /\ \A x \in SessionIds \ {s} : Reachable(x)' => Reachable(x) /\ sess'[x] = sess[x]
             /\ insts'[j].at[Player(t.char)] = p
             /\ \A k \in InstanceIds, c \in Chars :
                   k # j \/ c # t.char => insts'[k].at[Player(c)] = left.insts[k].at[Player(c)]
      PROVE  byChar'[ch] # None /\ sess'[byChar'[ch]].inst = i
  <2>1. CASE ch = t.char
    BY <1>3, <1>6, <2>1, Names
  <2>2. CASE ch # t.char
    BY <1>4, <1>6, <2>2
  <2>. QED BY <2>1, <2>2
<1>. QED BY <1>2, <1>5, <1>6 DEF EnterEffect

LEMMA LeaveBodies ==
    ASSUME IInv, BodiesHaveSessions, NEW c \in Conns, LeaveAndBroadcast(c), UNCHANGED moving
    PROVE  BodiesHaveSessions'
<1>1. KeptSessions
  BY LeaveKeeps
<1>. SUFFICES ASSUME NEW i \in InstanceIds, NEW ch \in Chars, insts'[i].at[Player(ch)] # None
              PROVE  byChar'[ch] # None /\ sess'[byChar'[ch]].inst = i
  BY DEF BodiesHaveSessions
<1>2. insts[i].at[Player(ch)] # None /\ byChar'[ch] = byChar[ch]
  <2>1. CASE UNCHANGED <<insts, byChar>>
    BY <2>1
  <2>2. CASE byConn[c] # None /\ byChar' = CharIndexWithout(c) /\ insts' = InstancesWithout(byConn[c])
    <3>1. /\ byConn[c] \in SessionIds /\ sess[byConn[c]] \in Session /\ sess[byConn[c]].char \in Chars
          /\ byChar[sess[byConn[c]].char] = byConn[c]
      BY <2>2, SessionOf DEF IInv, SessionsAgree, SessionIndexed, Session
    <3>2. CASE ch = sess[byConn[c]].char
      <4>1. i # sess[byConn[c]].inst /\ insts[i].at[Player(ch)] # None
        BY <2>2, <3>1, <3>2, BodyRemoved
      <4>. QED BY <3>1, <3>2, <4>1 DEF BodiesHaveSessions
    <3>3. CASE ch # sess[byConn[c]].char
      BY <2>2, <3>1, <3>3, InstancesWithoutOne, CharIndexShrinks
    <3>. QED BY <3>2, <3>3
  <2>. QED BY <2>1, <2>2 DEF LeaveAndBroadcast
<1>3. byChar[ch] # None /\ sess[byChar[ch]].inst = i /\ byChar[ch] \in SessionIds
  BY <1>2, SessionOf DEF BodiesHaveSessions, IInv
<1>4. Reachable(byChar[ch])'
  BY <1>2 DEF Reachable
<1>. QED BY <1>1, <1>2, <1>3, <1>4 DEF KeptSessions

\* A step that adds no body and leaves byCharacter alone.
LEMMA KeptBodies ==
    ASSUME IInv, BodiesHaveSessions, KeptSessions, UNCHANGED byChar,
           \A i \in InstanceIds, ch \in Chars :
              insts'[i].at[Player(ch)] # None => insts[i].at[Player(ch)] # None
    PROVE  BodiesHaveSessions'
<1>. SUFFICES ASSUME NEW i \in InstanceIds, NEW ch \in Chars, insts'[i].at[Player(ch)] # None
              PROVE  byChar'[ch] # None /\ sess'[byChar'[ch]].inst = i
  BY DEF BodiesHaveSessions
<1>1. byChar[ch] # None /\ sess[byChar[ch]].inst = i /\ byChar[ch] \in SessionIds
  BY SessionOf DEF BodiesHaveSessions, IInv
<1>2. Reachable(byChar[ch])'
  BY <1>1 DEF Reachable
<1>. QED BY <1>1, <1>2 DEF KeptSessions

\* The body that is moved steps from where its session was to the next tile; the
\* others stay.
LEMMA MoveBodies ==
    ASSUME IInv, NEW c \in Conns, NEW d \in Directions, NEW q \in 1 .. MaxSequence, Move(c, d, q),
           NEW i \in InstanceIds, NEW ch \in Chars
    PROVE  \/ insts'[i].at[Player(ch)] = insts[i].at[Player(ch)]
           \/ \E p \in Tiles : insts[i].at[Player(ch)] = p /\ insts'[i].at[Player(ch)] = Offset(p, d)
                                /\ Offset(p, d) \in Tiles
<1>. DEFINE x == sess[byConn[c]]
            e == Player(x.char)
            to == Offset(x.pos, d)
<1>1. /\ x.inst \in InstanceIds /\ x.char \in Chars /\ e \in EntityId /\ x.pos \in Tiles
      /\ insts[x.inst].at[e] = x.pos
  BY SessionOf, EntityIds DEF Move, IInv, Session, SessionsAgree, BodyWhereSessionIs
<1>2. CASE UNCHANGED insts
  BY <1>2
<1>3. CASE CanStep(insts[x.inst], e, to) /\ insts' = [insts EXCEPT ![x.inst] = MoveEntity(@, e, to)]
  <2>1. \A f \in EntityId : MoveEntity(insts[x.inst], e, to).at[f] =
          IF f = e THEN to ELSE insts[x.inst].at[f]
    BY <1>1 DEF MoveEntity, IInv, TypeOK, Instance
  <2>2. Player(ch) \in EntityId /\ to \in Tiles
    BY <1>3, EntityIds DEF CanStep, IsWalkable
  <2>. HIDE DEF e, to
  <2>3. insts'[i] = IF i = x.inst THEN MoveEntity(insts[i], e, to) ELSE insts[i]
    BY <1>1, <1>3 DEF IInv, TypeOK
  <2>. QED BY <1>1, <2>1, <2>2, <2>3 DEF to
<1>. QED BY <1>2, <1>3 DEF Move

LEMMA NextBodies ==
    ASSUME IInv, Entitled, OneCharacterPerSocket, BodiesHaveSessions, [Next]_vars
    PROVE  BodiesHaveSessions'
<1>1. CASE UNCHANGED <<insts, sess, byConn, byChar, moving>>
  BY <1>1, SameKeeps, KeptBodies
<1>2. ASSUME NEW c \in Conns, Leave(c) \/ Disconnect(c) PROVE BodiesHaveSessions'
  BY <1>2, LeaveBodies DEF Leave, Disconnect, LeaveAndBroadcast
<1>3. ASSUME NEW c \in Conns, NEW d \in Directions, NEW q \in 1 .. MaxSequence, Move(c, d, q)
      PROVE  BodiesHaveSessions'
  <2>1. \A i \in InstanceIds, ch \in Chars :
          insts'[i].at[Player(ch)] # None => insts[i].at[Player(ch)] # None
    BY <1>3, MoveBodies, EntityIds
  <2>. QED BY <1>3, <2>1, MoveKeeps, KeptBodies DEF Move
<1>4. ASSUME NEW t \in moving, Moved(t) PROVE BodiesHaveSessions'
  BY <1>4, MovedKeeps, KeptBodies DEF Moved
<1>5. CASE Restart
  BY <1>5, EntityIds DEF Restart, EmptyInstance, BodiesHaveSessions
<1>6. CASE \/ \E c \in Conns : Connect(c)
           \/ \E c \in Conns, ch \in Chars, at \in Stored : EnterRequest(c, ch, at)
           \/ ResolveLaboratorySpawn \/ UNCHANGED vars
  BY <1>1, <1>6 DEF Connect, EnterRequest, ResolveLaboratorySpawn, vars
<1>. QED BY <1>2, <1>3, <1>4, <1>5, <1>6, EnterBodies DEF Next

LEMMA NextMoveByOneStep ==
    ASSUME IInv, [Next]_vars, NEW i \in InstanceIds, NEW ch \in Chars,
           NEW old, old = insts[i].at[Player(ch)], NEW new, new = insts'[i].at[Player(ch)],
           old # None, new # None, old # new
    PROVE  \/ <<new[1] - old[1], new[2] - old[2]>> \in {<<0, 1>>, <<0, -1>>, <<1, 0>>, <<-1, 0>>}
           \/ \E t \in entering \ entering' : t.char = ch
<1>1. ASSUME NEW c \in Conns, LeaveAndBroadcast(c) PROVE FALSE
  <2>1. CASE byConn[c] # None /\ insts' = InstancesWithout(byConn[c])
    <3>1. byConn[c] \in SessionIds /\ sess[byConn[c]] \in Session
      BY <2>1, SessionOf DEF IInv
    <3>2. CASE ch = sess[byConn[c]].char
      BY <2>1, <3>1, <3>2, BodyRemoved
    <3>3. CASE ch # sess[byConn[c]].char
      BY <2>1, <3>1, <3>3, InstancesWithoutOne
    <3>. QED BY <3>2, <3>3
  <2>. QED BY <1>1, <2>1 DEF LeaveAndBroadcast
<1>2. ASSUME NEW t \in entering, EnterWorld(t) PROVE t.char = ch /\ t \notin entering'
  <2>1. t.char \in Chars /\ t \notin entering'
    BY <1>2 DEF IInv, TypeOK, EnterTask, EnterWorld
  <2>. DEFINE left == IndexAfterEviction(t.char)
  <2>2. ch # t.char => left.insts[i].at[Player(ch)] = insts[i].at[Player(ch)]
    BY <2>1, EvictedOthers
  <2>3. EnterEffect(t, left)
    BY <1>2, EnterWorldEffect
  <2>. HIDE DEF left
  <2>4. ch # t.char => insts'[i].at[Player(ch)] = left.insts[i].at[Player(ch)]
    BY <2>3 DEF EnterEffect
  <2>. QED BY <2>1, <2>2, <2>4
<1>3. ASSUME NEW c \in Conns, NEW d \in Directions, NEW q \in 1 .. MaxSequence, Move(c, d, q)
      PROVE  <<new[1] - old[1], new[2] - old[2]>> \in {<<0, 1>>, <<0, -1>>, <<1, 0>>, <<-1, 0>>}
  <2>1. old \in Tiles /\ new = Offset(old, d)
    BY <1>3, MoveBodies
  <2>2. old[1] \in Int /\ old[2] \in Int
    BY <2>1, GridAssumption DEF Tiles
  <2>. QED BY <2>1, <2>2 DEF Offset, Directions, Delta
<1>4. ASSUME Restart PROVE FALSE
  BY <1>4, EntityIds DEF Restart, EmptyInstance
<1>5. ASSUME UNCHANGED insts PROVE FALSE
  BY <1>5
<1>6. ~ \/ \E c \in Conns : Connect(c) \/ Leave(c) \/ Disconnect(c)
        \/ \E c \in Conns, c2 \in Chars, at \in Stored : EnterRequest(c, c2, at)
        \/ \E t \in moving : Moved(t)
        \/ ResolveLaboratorySpawn \/ Restart \/ UNCHANGED vars
  BY <1>1, <1>4, <1>5
     DEF Connect, Leave, Disconnect, EnterRequest, Moved, ResolveLaboratorySpawn, vars
<1>. QED BY <1>2, <1>3, <1>6 DEF Next

LEMMA NextSessionLost ==
    ASSUME IInv, Entitled, OneCharacterPerSocket, [Next]_vars,
           NEW c \in Conns, byConn[c] # None, byConn'[c] # byConn[c]
    PROVE  \/ Leave(c) \/ Disconnect(c) \/ Restart
           \/ \E t \in entering \ entering' : t.conn = c \/ t.char = sess[byConn[c]].char
<1>1. ASSUME NEW d \in Conns, LeaveAndBroadcast(d) PROVE c = d
  <2>1. byConn' = ConnIndexWithout(d) \/ byConn' = byConn
    BY <1>1 DEF LeaveAndBroadcast
  <2>. QED BY <2>1 DEF ConnIndexWithout, IInv, TypeOK
<1>2. ASSUME NEW t \in entering, EnterWorld(t)
      PROVE  t \notin entering' /\ (t.conn = c \/ t.char = sess[byConn[c]].char)
  <2>1. t.char \in Chars /\ t \notin entering'
    BY <1>2 DEF IInv, TypeOK, EnterTask, EnterWorld
  <2>. DEFINE left == IndexAfterEviction(t.char)
  <2>2. left.conn[c] = byConn[c] \/ t.char = sess[byConn[c]].char
    BY <2>1, EvictedConns
  <2>3. EnterEffect(t, left)
    BY <1>2, EnterWorldEffect
  <2>. HIDE DEF left
  <2>4. c # t.conn => byConn'[c] = left.conn[c]
    BY <2>3 DEF EnterEffect
  <2>. QED BY <2>1, <2>2, <2>4
<1>3. ASSUME NEW d \in Conns, Leave(d) \/ Disconnect(d) PROVE Leave(c) \/ Disconnect(c)
  BY <1>1, <1>3 DEF Leave, Disconnect
<1>4. ~ \/ \E d \in Conns : Connect(d)
        \/ \E d \in Conns, ch \in Chars, at \in Stored : EnterRequest(d, ch, at)
        \/ \E d \in Conns, e \in Directions, q \in 1 .. MaxSequence : Move(d, e, q)
        \/ \E t \in moving : Moved(t)
        \/ ResolveLaboratorySpawn \/ UNCHANGED vars
  BY DEF Connect, EnterRequest, Move, Moved, ResolveLaboratorySpawn, vars
<1>. QED BY <1>2, <1>3, <1>4 DEF Next

(***************************************************************************)
(* The theorems about the world                                            *)
(***************************************************************************)

\* Every variable stays in its type: no handler leaves a dangling session
\* reference where the code would dereference undefined.
THEOREM TypeCorrect == Spec => []TypeOK
<1>1. IInv => TypeOK
  BY DEF IInv
<1>. QED BY <1>1, Invariance, PTL

\* The occupied tiles and the positions of the entities of an instance are
\* the same relation, whatever was added, moved or removed and in what order.
THEOREM Occupancy == Spec => []OccupancyExact
<1>1. IInv => OccupancyExact
  BY DEF IInv, Instances, OccupancyExact, Sound, Consistent
<1>. QED BY <1>1, Invariance, PTL

\* A connection only ever acts through the session its character is indexed
\* under, so a takeover leaves the old connection without one.
THEOREM OneActorPerCharacter == Spec => []SessionIndexed
<1>1. IInv => SessionIndexed
  BY DEF IInv, SessionsAgree
<1>. QED BY <1>1, Invariance, PTL

\* A connected session's position is the tile of its character's body.
THEOREM SessionAndBodyAgree == Spec => []BodyWhereSessionIs
<1>1. IInv => BodyWhereSessionIs
  BY DEF IInv, SessionsAgree
<1>. QED BY <1>1, Invariance, PTL

\* An instance never holds more entities than its capacity: residents are added
\* as long as there is room, and a player only when they have left some.
THEOREM Capacities == Spec => []CapacityRespected
<1>1. Init => AllCapped
  BY EmptyCapped DEF Init, AllCapped
<1>2. AllCapped => CapacityRespected
  BY DEF AllCapped, Capped, CapacityRespected
<1>. QED BY <1>1, <1>2, NextCapped, Invariance, PTL DEF Spec

\* Nobody's body is left behind in the world, as long as no socket plays two
\* characters: whoever enters elsewhere has the former body removed.
THEOREM NoBodyLeftBehind == ASSUME OneCharacterPerSocket PROVE Spec => []BodiesHaveSessions
<1>1. Init => Entitled /\ BodiesHaveSessions
  BY EntityIds, Names DEF Init, Entitled, Reachable, BodiesHaveSessions, EmptyInstance
<1>2. IInv /\ Entitled /\ BodiesHaveSessions /\ [Next]_vars => BodiesHaveSessions'
  BY NextBodies
<1>. QED BY <1>1, <1>2, NextEntitled, Invariance, PTL DEF Spec

\* Such sockets lose their session to nobody but another entry of the character.
THEOREM SessionsKept == ASSUME OneCharacterPerSocket PROVE Spec => SessionLostOnlyToOwnCharacter
<1>1. Init => Entitled
  BY Names DEF Init, Entitled, Reachable
<1>2. IInv /\ Entitled /\ [Next]_vars =>
        [\A c \in Conns : byConn[c] # None /\ byConn'[c] # byConn[c] =>
            \/ Leave(c) \/ Disconnect(c) \/ Restart
            \/ \E t \in entering \ entering' : t.conn = c \/ t.char = sess[byConn[c]].char]_vars
  BY NextSessionLost
<1>. QED BY <1>1, <1>2, NextEntitled, Invariance, PTL DEF Spec, SessionLostOnlyToOwnCharacter

\* A body goes from tile to tile in steps of one, whatever its session believed
\* and whoever else is moving.
THEOREM OneTileAtATime == Spec => BodiesMoveByOneStep
<1>1. IInv /\ [Next]_vars =>
        [\A i \in InstanceIds, ch \in Chars :
            LET old == insts[i].at[Player(ch)]
                new == insts'[i].at[Player(ch)]
            IN  (old # None /\ new # None /\ old # new) =>
                    \/ <<new[1] - old[1], new[2] - old[2]>> \in {<<0, 1>>, <<0, -1>>, <<1, 0>>, <<-1, 0>>}
                    \/ \E t \in entering \ entering' : t.char = ch]_vars
  BY NextMoveByOneStep
<1>. QED BY <1>1, Invariance, PTL DEF Spec, BodiesMoveByOneStep

(***************************************************************************)
(* The stored world state                                                  *)
(***************************************************************************)

StoreTypeOK ==
    /\ saved \in [Chars -> Tiles \cup {None}]
    /\ saving \in [Slots -> SaveTask \cup {None}]
    /\ recent \in [Chars -> SUBSET (Tiles \cup {None})]
    /\ lost \subseteq Chars

\* Whatever is about to be written overlaps the latest write, or is it.
WritesRecent == \A w \in Writes : w.pos \in recent[w.char]

StoreInv == StoreTypeOK /\ WritesRecent /\ PersistsLatest

LEMMA WriteType ==
    ASSUME IInv, StoreTypeOK
    PROVE  Writes \subseteq SaveTask
BY DEF IInv, TypeOK, MoveTask, StoreTypeOK, Writes, SaveTask

\* A save that is asked for is added to the others.
LEMMA AskSaveWrites ==
    ASSUME IInv, StoreTypeOK, NEW c \in Conns, NEW ch \in Chars, NEW p \in Tiles, AskSave(c, ch, p)
    PROVE  /\ saving' \in [Slots -> SaveTask \cup {None}]
           /\ {saving'[n] : n \in {k \in Slots : saving'[k] # None}} =
              {saving[n] : n \in {k \in Slots : saving[k] # None}}
              \cup {[conn |-> c, char |-> ch, pos |-> p]}
           /\ \A n \in Slots : saving'[n] # saving[n] =>
                 saving'[n] = [conn |-> c, char |-> ch, pos |-> p]
<1>. DEFINE w == [conn |-> c, char |-> ch, pos |-> p]
            free == {n \in Slots : saving[n] = None}
            first == CHOOSE n \in free : \A k \in free : n <= k
<1>1. w \in SaveTask
  BY DEF SaveTask
<1>2. first \in free /\ saving' = [saving EXCEPT ![first] = w]
  <2>1. free \subseteq Nat /\ free # {}
    BY DEF Slots, AskSave
  <2>2. saving' = [saving EXCEPT ![first] = w]
    BY DEF AskSave
  <2>. HIDE DEF free, w
  <2>3. \E n \in free : \A k \in free : n <= k
    BY <2>1, LeastNatural
  <2>. QED BY <2>2, <2>3
<1>. HIDE DEF first, w
<1>3. first \in Slots /\ saving[first] = None
  BY <1>2
<1>4. saving' \in [Slots -> SaveTask \cup {None}] /\ w # None
  BY <1>1, <1>2, <1>3, SavingAssumption DEF StoreTypeOK
<1>5. \A n \in Slots : saving'[n] = IF n = first THEN w ELSE saving[n]
  BY <1>2, <1>3 DEF StoreTypeOK
<1>. QED BY <1>3, <1>4, <1>5 DEF w

(***************************************************************************)
(* The world goes on as it does without the row                            *)
(***************************************************************************)

\* Whatever position the row holds.
LEMMA AnyEnterRequest ==
    ASSUME IInv, NEW c \in Conns, NEW ch \in Chars, NEW at \in Tiles \cup {None},
           EnterRequest(c, ch, at)
    PROVE  IInv'
<1>1. [conn |-> c, char |-> ch, at |-> at] \in EnterTask
  BY DEF EnterTask
<1>2. TypeOK'
  BY <1>1 DEF EnterRequest, IInv, TypeOK
<1>. QED BY <1>2, QuietStep DEF EnterRequest

LEMMA OnlyCast ==
    ASSUME IInv, UNCHANGED <<opened, insts, sess, byConn, byChar, sockets, entering, moving>>,
           cast' \in {cast, None}
    PROVE  IInv'
BY QuietStep DEF IInv, TypeOK

LEMMA WorldInvariance ==
    ASSUME IInv, StoreTypeOK, [StoreNext]_allVars
    PROVE  IInv'
<1>1. CASE Next
  BY <1>1, NextIInv
<1>2. ASSUME NEW c \in Conns, NEW ch \in Chars, StoredEnterRequest(c, ch) PROVE IInv'
  <2>1. saved[ch] \in Tiles \cup {None}
    BY DEF StoreTypeOK
  <2>. QED BY <1>2, <2>1, AnyEnterRequest DEF StoredEnterRequest
<1>3. ASSUME NEW n \in Slots, Save(n) \/ SaveFails(n) PROVE IInv'
  BY <1>3, OnlyCast DEF Save, SaveFails
<1>4. CASE UNCHANGED allVars
  BY <1>4, OnlyCast DEF allVars, vars
<1>5. \/ Next
      \/ \E c \in Conns, ch \in Chars : StoredEnterRequest(c, ch)
      \/ \E n \in Slots : Save(n) \/ SaveFails(n)
      \/ UNCHANGED allVars
  BY DEF StoreNext, Next, StoredLeave, StoredDisconnect, StoredMove, StoredMoved, StoredRestart
<1>. QED BY <1>1, <1>2, <1>3, <1>4, <1>5

(***************************************************************************)
(* The row                                                                 *)
(***************************************************************************)

\* The session of a connection.
LEMMA SessionOfConn ==
    ASSUME IInv, NEW c \in Conns, byConn[c] # None
    PROVE  /\ byConn[c] \in SessionIds /\ sess[byConn[c]] \in Session
           /\ sess[byConn[c]].char \in Chars /\ sess[byConn[c]].pos \in Tiles
           /\ sess[byConn[c]].inst \in InstanceIds
BY SessionOf DEF IInv, Session

\* A step after which the same is to be written and the row is as it was.
LEMMA SameWrites ==
    ASSUME StoreInv, Writes' = Writes, saving' \in [Slots -> SaveTask \cup {None}],
           UNCHANGED <<saved, recent, lost>>
    PROVE  StoreInv'
BY DEF StoreInv, StoreTypeOK, WritesRecent, PersistsLatest

\* A write that begins overlaps all that are under way, and nothing else is
\* recent any more.
LEMMA NewWrite ==
    ASSUME IInv, StoreInv, NEW c \in Conns, NEW ch \in Chars, NEW p \in Tiles, WriteOf(ch, p),
           Writes' = Writes \cup {[conn |-> c, char |-> ch, pos |-> p]},
           saving' \in [Slots -> SaveTask \cup {None}], UNCHANGED <<saved, lost>>
    PROVE  StoreInv'
<1>. DEFINE w == [conn |-> c, char |-> ch, pos |-> p]
            W == Writes
            others == {v.pos : v \in {u \in W : u.char = ch}}
<1>1. W \subseteq SaveTask
  BY WriteType DEF StoreInv
<1>2. w.char = ch /\ w.pos = p
  OBVIOUS
<1>3. /\ recent' \in [Chars -> SUBSET (Tiles \cup {None})]
      /\ recent'[ch] = {p} \cup others
      /\ \A k \in Chars : k # ch => recent'[k] = recent[k]
  <2>1. recent' = [recent EXCEPT ![ch] = {p} \cup others]
    BY DEF WriteOf
  <2>2. \A v \in W : v.pos \in Tiles
    BY <1>1 DEF SaveTask
  <2>3. others \subseteq Tiles
    BY <2>2
  <2>. HIDE DEF others
  <2>. QED BY <2>1, <2>3 DEF StoreInv, StoreTypeOK
<1>4. \A v \in W : v.char \in Chars /\ (v.char = ch => v.pos \in others)
  BY <1>1 DEF SaveTask
<1>5. Writes' = W \cup {w}
  OBVIOUS
<1>6. W = Writes
  OBVIOUS
<1>. HIDE DEF w, others, W
<1>7. WritesRecent'
  <2>. SUFFICES ASSUME NEW v \in W \cup {w} PROVE v.pos \in recent'[v.char]
    BY <1>5 DEF WritesRecent
  <2>1. CASE v = w
    BY <1>2, <1>3, <2>1
  <2>2. CASE v \in W /\ v.char = ch
    BY <1>3, <1>4, <2>2
  <2>3. CASE v \in W /\ v.char # ch
    BY <1>3, <1>4, <1>6, <2>3 DEF StoreInv, WritesRecent
  <2>. QED BY <2>1, <2>2, <2>3
<1>8. PersistsLatest'
  BY <1>2, <1>3, <1>5, <1>6 DEF StoreInv, PersistsLatest
<1>. QED BY <1>3, <1>7, <1>8 DEF StoreInv, StoreTypeOK

\* The save of the position the player leaves from.
LEMMA DepartureStore ==
    ASSUME IInv, StoreInv, NEW c \in Conns, LeaveAndBroadcast(c), SaveOnLeave(c)
    PROVE  StoreInv'
<1>1. UNCHANGED <<moving, saved, lost>>
  BY DEF LeaveAndBroadcast, SaveOnLeave
<1>2. CASE UNCHANGED <<saving, recent>>
  <2>1. Writes' = Writes /\ saving' \in [Slots -> SaveTask \cup {None}]
    BY <1>1, <1>2 DEF Writes, StoreInv, StoreTypeOK
  <2>. QED BY <1>1, <1>2, <2>1, SameWrites
<1>3. CASE byConn[c] # None
  <2>. DEFINE x == sess[byConn[c]]
              w == [conn |-> c, char |-> x.char, pos |-> x.pos]
              M == {[conn |-> t.conn, char |-> t.char, pos |-> t.pos] : t \in moving}
  <2>1. x.char \in Chars /\ x.pos \in Tiles
    BY <1>3, SessionOfConn
  <2>2. (AskSave(c, x.char, x.pos) /\ WriteOf(x.char, x.pos)) \/ UNCHANGED <<saving, recent>>
    BY DEF SaveOnLeave
  <2>3. CASE AskSave(c, x.char, x.pos) /\ WriteOf(x.char, x.pos)
    <3>1. /\ saving' \in [Slots -> SaveTask \cup {None}]
          /\ {saving'[n] : n \in {k \in Slots : saving'[k] # None}} =
             {saving[n] : n \in {k \in Slots : saving[k] # None}} \cup {w}
      BY <2>1, <2>3, AskSaveWrites DEF StoreInv
    <3>2. /\ Writes = M \cup {saving[n] : n \in {k \in Slots : saving[k] # None}}
          /\ Writes' = M \cup {saving'[n] : n \in {k \in Slots : saving'[k] # None}}
      BY <1>1 DEF Writes
    <3>. HIDE DEF M
    <3>3. Writes' = Writes \cup {w}
      BY <3>1, <3>2
    <3>. HIDE DEF x
    <3>. QED BY <1>1, <2>1, <2>3, <3>1, <3>3, NewWrite
  <2>. QED BY <1>2, <2>2, <2>3
<1>. QED BY <1>2, <1>3 DEF SaveOnLeave

LEMMA MoveStore ==
    ASSUME IInv, StoreInv, NEW c \in Conns, NEW d \in Directions, NEW q \in 1 .. MaxSequence,
           StoredMove(c, d, q)
    PROVE  StoreInv'
<1>. DEFINE s == byConn[c]
            ch == sess[s].char
            p == Offset(sess[s].pos, d)
            w == [conn |-> c, char |-> ch, pos |-> p]
<1>1. /\ byConn[c] # None /\ UNCHANGED <<saved, saving, lost>>
      /\ saving' \in [Slots -> SaveTask \cup {None}]
  BY DEF StoredMove, Move, StoreInv, StoreTypeOK
<1>2. s \in SessionIds /\ sess[s] \in Session /\ ch \in Chars
  BY <1>1, SessionOfConn
<1>3. CASE moving' = moving
  <2>1. Writes' = Writes /\ UNCHANGED recent
    BY <1>1, <1>3 DEF Writes, StoredMove
  <2>. QED BY <1>1, <2>1, SameWrites
<1>4. CASE moving' # moving
  <2>. DEFINE task == [sid |-> s, conn |-> c, char |-> ch,
                       inst |-> sess[s].inst, pos |-> p, asked |-> q]
              W(t) == [conn |-> t.conn, char |-> t.char, pos |-> t.pos]
              S == {saving[n] : n \in {k \in Slots : saving[k] # None}}
  <2>1. /\ CanStep(insts[sess[s].inst], Player(ch), p)
        /\ sess' = [sess EXCEPT ![s] = Stepped(@, p, q)] /\ moving' = moving \cup {task}
        /\ WriteOf(ch, sess'[s].pos)
    BY <1>4 DEF StoredMove, Move
  <2>2. p \in Tiles
    BY <2>1 DEF CanStep, IsWalkable
  <2>3. sess'[s].pos = p
    BY <1>2, <2>1 DEF Stepped, Session, IInv, TypeOK
  <2>4. W(task) = w
    OBVIOUS
  <2>5. /\ Writes = {W(t) : t \in moving} \cup S
        /\ Writes' = {W(t) : t \in moving'} \cup S
    BY <1>1 DEF Writes
  <2>. HIDE DEF W, w, task, S
  <2>6. {W(t) : t \in moving'} = {W(t) : t \in moving} \cup {w}
    BY <2>1, <2>4
  <2>7. Writes' = Writes \cup {w}
    BY <2>5, <2>6
  <2>8. WriteOf(ch, p)
    BY <2>1, <2>3
  <2>. HIDE DEF ch, p
  <2>. QED BY <1>1, <1>2, <2>2, <2>7, <2>8, NewWrite DEF w
<1>. QED BY <1>3, <1>4

\* The write passes from the handler to the database.
LEMMA MovedStore ==
    ASSUME IInv, StoreInv, NEW t \in moving, StoredMoved(t)
    PROVE  StoreInv'
<1>. DEFINE W(u) == [conn |-> u.conn, char |-> u.char, pos |-> u.pos]
<1>1. t.conn \in Conns /\ t.char \in Chars /\ t.pos \in Tiles
  BY DEF IInv, TypeOK, MoveTask
<1>2. /\ moving' = moving \ {t} /\ AskSave(t.conn, t.char, t.pos)
      /\ UNCHANGED <<saved, recent, lost>>
  BY DEF StoredMoved, Moved
<1>3. /\ saving' \in [Slots -> SaveTask \cup {None}]
      /\ {saving'[n] : n \in {k \in Slots : saving'[k] # None}} =
         {saving[n] : n \in {k \in Slots : saving[k] # None}} \cup {W(t)}
  BY <1>1, <1>2, AskSaveWrites DEF StoreInv
<1>4. Writes' = Writes
  <2>1. /\ Writes = {W(u) : u \in moving} \cup {saving[n] : n \in {k \in Slots : saving[k] # None}}
        /\ Writes' = {W(u) : u \in moving'} \cup {saving'[n] : n \in {k \in Slots : saving'[k] # None}}
    BY DEF Writes
  <2>. HIDE DEF W
  <2>2. {W(u) : u \in moving'} \cup {W(t)} = {W(u) : u \in moving}
    BY <1>2
  <2>. QED BY <1>3, <2>1, <2>2
<1>. QED BY <1>2, <1>3, <1>4, SameWrites

\* A save that has come to its end, one way or the other.
LEMMA SaveStore ==
    ASSUME StoreInv, NEW n \in Slots, Save(n) \/ SaveFails(n)
    PROVE  StoreInv'
<1>. DEFINE w == saving[n]
            M == {[conn |-> t.conn, char |-> t.char, pos |-> t.pos] : t \in moving}
<1>1. /\ w # None /\ saving' = [saving EXCEPT ![n] = None] /\ UNCHANGED <<moving, recent>>
      /\ saving \in [Slots -> SaveTask \cup {None}]
  BY DEF Save, SaveFails, StoreInv, StoreTypeOK
<1>2. /\ saving' \in [Slots -> SaveTask \cup {None}] /\ w \in SaveTask
      /\ \A k \in Slots : saving'[k] = IF k = n THEN None ELSE saving[k]
  BY <1>1
<1>3. w \in Writes /\ Writes' \subseteq Writes /\ \A v \in Writes : v \in Writes' \/ v = w
  <2>1. /\ Writes = M \cup {saving[k] : k \in {k \in Slots : saving[k] # None}}
        /\ Writes' = M \cup {saving'[k] : k \in {k \in Slots : saving'[k] # None}}
    BY <1>1 DEF Writes
  <2>. HIDE DEF M
  <2>. QED BY <1>1, <1>2, <2>1
<1>4. w.char \in Chars /\ w.pos \in Tiles /\ w.pos \in recent[w.char]
  BY <1>2, <1>3 DEF SaveTask, StoreInv, WritesRecent
<1>5. WritesRecent'
  BY <1>1, <1>3 DEF StoreInv, WritesRecent
<1>6. /\ saved \in [Chars -> Tiles \cup {None}] /\ lost \subseteq Chars
      /\ recent' \in [Chars -> SUBSET (Tiles \cup {None})] /\ recent' = recent
  BY <1>1 DEF StoreInv, StoreTypeOK
<1>7. CASE Save(n)
  <2>1. saved' = [saved EXCEPT ![w.char] = w.pos] /\ lost' = lost \ {w.char}
    BY <1>7 DEF Save
  <2>. HIDE DEF w
  <2>2. PersistsLatest'
    BY <1>3, <1>4, <1>6, <2>1 DEF StoreInv, PersistsLatest
  <2>. QED BY <1>2, <1>4, <1>5, <1>6, <2>1, <2>2 DEF StoreInv, StoreTypeOK
<1>8. CASE SaveFails(n)
  <2>1. lost' = lost \cup {w.char} /\ UNCHANGED saved
    BY <1>8 DEF SaveFails
  <2>. HIDE DEF w
  <2>2. PersistsLatest'
    BY <1>3, <1>4, <1>6, <2>1 DEF StoreInv, PersistsLatest
  <2>. QED BY <1>2, <1>4, <1>5, <1>6, <2>1, <2>2 DEF StoreInv, StoreTypeOK
<1>. QED BY <1>7, <1>8

\* After a restart the row is all there is.
LEMMA RestartStore ==
    ASSUME StoreInv, StoredRestart
    PROVE  StoreInv'
<1>1. /\ saving' = [n \in Slots |-> None] /\ moving' = {}
      /\ recent' = [ch \in Chars |-> {saved[ch]}] /\ lost' = {} /\ saved' = saved
  BY DEF StoredRestart, Restart
<1>2. Writes' = {}
  BY <1>1 DEF Writes
<1>. QED BY <1>1, <1>2 DEF StoreInv, StoreTypeOK, WritesRecent, PersistsLatest

LEMMA StoreInitially ==
    ASSUME StoreInit
    PROVE  IInv /\ StoreInv
<1>1. Writes = {}
  BY DEF StoreInit, Init, Writes
<1>2. StoreTypeOK
  BY WorldAssumption DEF StoreInit, StoreTypeOK
<1>3. WritesRecent /\ PersistsLatest
  BY <1>1 DEF StoreInit, WritesRecent, PersistsLatest
<1>. QED BY <1>2, <1>3, InitIInv DEF StoreInit, StoreInv

LEMMA NextStore ==
    ASSUME IInv, StoreInv, [StoreNext]_allVars
    PROVE  StoreInv'
<1>1. ASSUME NEW c \in Conns, StoredLeave(c) \/ StoredDisconnect(c) PROVE StoreInv'
  BY <1>1, DepartureStore DEF StoredLeave, Leave, StoredDisconnect, Disconnect
<1>2. CASE UNCHANGED <<moving, storeVars>>
  <2>1. Writes' = Writes /\ saving' \in [Slots -> SaveTask \cup {None}]
    BY <1>2 DEF Writes, storeVars, StoreInv, StoreTypeOK
  <2>. QED BY <1>2, <2>1, SameWrites DEF storeVars
<1>3. ASSUME \/ \E c \in Conns : Connect(c) /\ UNCHANGED storeVars
             \/ \E c \in Conns, ch \in Chars : StoredEnterRequest(c, ch)
             \/ \E t \in entering : EnterWorld(t) /\ UNCHANGED storeVars
             \/ UNCHANGED allVars
      PROVE  UNCHANGED <<moving, storeVars>>
  BY <1>3 DEF Connect, StoredEnterRequest, EnterRequest, EnterWorld, allVars, vars
<1>. QED BY <1>1, <1>2, <1>3, MoveStore, MovedStore, SaveStore, RestartStore DEF StoreNext

LEMMA StoreInvariance == StoreSpec => [](IInv /\ StoreInv)
<1>1. IInv /\ StoreInv /\ [StoreNext]_allVars => (IInv /\ StoreInv)'
  BY WorldInvariance, NextStore DEF StoreInv
<1>. QED BY <1>1, StoreInitially, PTL DEF StoreSpec

\* Only a departure and the end of a MOVE ask for a save, and only the departure
\* leaves the MOVEs that wait as they are.
LEMMA NextDepartureSaves ==
    ASSUME IInv, StoreInv, [StoreNext]_allVars, NEW n \in Slots,
           saving'[n] # None, saving'[n] # saving[n], moving' = moving
    PROVE  LET w == saving'[n]
           IN  /\ byChar[w.char] # None /\ sess[byChar[w.char]].conn = w.conn
               /\ insts[sess[byChar[w.char]].inst].at[Player(w.char)] = w.pos
<1>1. PICK c \in Conns : LeaveAndBroadcast(c) /\ SaveOnLeave(c)
  <2>1. UNCHANGED saving \/ \E c \in Conns : StoredLeave(c) \/ StoredDisconnect(c)
    <3>1. ASSUME NEW t \in moving, StoredMoved(t) PROVE FALSE
      BY <3>1 DEF StoredMoved, Moved
    <3>2. ASSUME NEW k \in Slots, Save(k) \/ SaveFails(k) PROVE FALSE
      BY <3>2 DEF Save, SaveFails, StoreInv, StoreTypeOK
    <3>3. ~StoredRestart
      BY DEF StoredRestart
    <3>. QED BY <3>1, <3>2, <3>3
             DEF StoreNext, storeVars, allVars, StoredEnterRequest, StoredMove
  <2>. QED BY <2>1 DEF StoredLeave, Leave, StoredDisconnect, Disconnect
<1>. DEFINE x == sess[byConn[c]]
<1>2. byConn[c] # None /\ AskSave(c, x.char, x.pos)
  BY <1>1 DEF SaveOnLeave
<1>3. x.char \in Chars /\ x.pos \in Tiles
  BY <1>2, SessionOfConn
<1>4. saving'[n] = [conn |-> c, char |-> x.char, pos |-> x.pos]
  BY <1>2, <1>3, AskSaveWrites DEF StoreInv
<1>5. /\ x.conn = c /\ byChar[x.char] = byConn[c]
      /\ insts[x.inst].at[Player(x.char)] = x.pos
  BY <1>2 DEF IInv, SessionsAgree, SessionIndexed, BodyWhereSessionIs
<1>. QED BY <1>2, <1>4, <1>5

(***************************************************************************)
(* The theorems about the row                                              *)
(***************************************************************************)

\* The row of a character nobody is saving holds the position of its latest
\* accepted MOVE or departure, or of one that was still being written then, though
\* its sockets come and go, saves end in any order, fail, and die with the process.
THEOREM RowIsRecent == StoreSpec => []PersistsLatest
<1>1. StoreInv => PersistsLatest
  BY DEF StoreInv
<1>. QED BY <1>1, StoreInvariance, PTL

\* Nobody but the connection a character is played from saves where it leaves it,
\* and it saves the tile the body stands on.
THEOREM OnlyTheBodyIsSaved == StoreSpec => DepartureSavesTheBody
<1>1. IInv /\ StoreInv /\ [StoreNext]_allVars =>
        [\A n \in Slots :
            LET w == saving'[n]
            IN  w # None /\ w # saving[n] /\ moving' = moving =>
                    /\ byChar[w.char] # None /\ sess[byChar[w.char]].conn = w.conn
                    /\ insts[sess[byChar[w.char]].inst].at[Player(w.char)] = w.pos]_allVars
  BY NextDepartureSaves
<1>. QED BY <1>1, StoreInvariance, PTL DEF StoreSpec, DepartureSavesTheBody

(***************************************************************************)
(* What the clients have been told                                         *)
(***************************************************************************)

\* The map lies within the interest radius of each of its tiles, as that of the
\* laboratory does (20 x 16 tiles, radius 24).
RadiusCovers == \A p, q \in Tiles : Within(p, q)

\* The inductive form of NobodyUnseen.  A socket that acts in an instance is in
\* its room, without which it would miss who enters.  A WORLD_ENTER may end
\* after its socket has closed: such a socket has a session and no room.
InRoom ==
    \A c \in Conns : ~Closed(c) /\ byConn[c] # None => sess[byConn[c]].inst \in rooms[c]

Seen ==
    \A c \in Conns : ~Closed(c) /\ byConn[c] # None =>
        \A ch \in Chars : Present(sess[byConn[c]].inst, ch) =>
            ch \in told[c] \/ <<sess[byConn[c]].inst, ch>> \in hidden

ViewsInv == ViewsTypeOK /\ InRoom /\ NoPhantoms

\* An eviction can only take bodies out of the world.
LEMMA EvictionTakes ==
    ASSUME IInv, NEW ch \in Chars, NEW i \in InstanceIds, NEW k \in Chars
    PROVE  IndexAfterEviction(ch).insts[i].at[Player(k)] \in {insts[i].at[Player(k)], None}
<1>1. CASE k # ch
  BY <1>1, EvictedOthers
<1>2. CASE k = ch /\ byChar[ch] = None
  BY <1>2 DEF IndexAfterEviction
<1>3. CASE k = ch /\ byChar[ch] # None
  <2>1. byChar[ch] \in SessionIds /\ sess[byChar[ch]] \in Session /\ sess[byChar[ch]].char = ch
    BY <1>3, SessionOf DEF IInv, SessionsAgree, CharIndexed
  <2>. QED BY <1>3, <2>1, BodyRemoved DEF IndexAfterEviction
<1>. QED BY <1>1, <1>2, <1>3

\* The session and the body a WORLD_ENTER that got through has made, and what
\* it has left of the others'.
LEMMA EnteredWorld ==
    ASSUME IInv, NEW t \in entering, EnterWorld(t), NEW x, x = sess'[byConn'[t.conn]]
    PROVE  /\ Entered(t) =>
                x.inst \in InstanceIds /\ x.pos \in Tiles /\ Present(x.inst, t.char)'
           /\ \A i \in InstanceIds, ch \in Chars : Present(i, ch)' =>
                Present(i, ch) \/ (Entered(t) /\ i = x.inst /\ ch = t.char)
           /\ \A d \in Conns : byConn'[d] # None /\ (d = t.conn => ~Entered(t)) =>
                byConn[d] # None /\ sess'[byConn'[d]].inst = sess[byConn[d]].inst
<1>. DEFINE left == IndexAfterEviction(t.char)
            Goal == /\ Entered(t) =>
                         x.inst \in InstanceIds /\ x.pos \in Tiles /\ Present(x.inst, t.char)'
                    /\ \A i \in InstanceIds, ch \in Chars : Present(i, ch)' =>
                         Present(i, ch) \/ (Entered(t) /\ i = x.inst /\ ch = t.char)
                    /\ \A d \in Conns : byConn'[d] # None /\ (d = t.conn => ~Entered(t)) =>
                         byConn[d] # None /\ sess'[byConn'[d]].inst = sess[byConn[d]].inst
<1>1. t.char \in Chars /\ t.conn \in Conns
  BY DEF IInv, TypeOK, EnterTask
<1>2. EnterEffect(t, left)
  BY EnterWorldEffect
<1>3. /\ \A d \in Conns : left.conn[d] \in {byConn[d], None}
      /\ \A i \in InstanceIds, k \in Chars :
            left.insts[i].at[Player(k)] \in {insts[i].at[Player(k)], None}
  BY <1>1, Eviction, EvictionTakes
<1>. HIDE DEF left
<1>4. ASSUME NEW d \in Conns, byConn'[d] # None, byConn'[d] = left.conn[d],
             \A y \in SessionIds : Reachable(y) /\ Reachable(y)' => sess'[y] = sess[y]
      PROVE  byConn[d] # None /\ sess'[byConn'[d]].inst = sess[byConn[d]].inst
  <2>1. byConn'[d] = byConn[d] /\ byConn[d] # None
    BY <1>3, <1>4
  <2>2. byConn[d] \in SessionIds /\ Reachable(byConn[d]) /\ Reachable(byConn[d])'
    BY <2>1, SessionOf DEF IInv, Reachable
  <2>. QED BY <1>4, <2>1, <2>2
<1>5. ASSUME /\ byConn' = left.conn /\ byChar' = left.char
             /\ \A y \in SessionIds : Reachable(y)' => Reachable(y) /\ sess'[y] = sess[y]
             /\ \A k \in InstanceIds, ch \in Chars : insts'[k].at[Player(ch)] = left.insts[k].at[Player(ch)]
      PROVE  Goal
  <2>1. ~Entered(t)
    BY <1>1, <1>3, <1>5 DEF Entered
  <2>2. \A i \in InstanceIds, ch \in Chars : Present(i, ch)' => Present(i, ch)
    BY <1>3, <1>5 DEF Present
  <2>3. \A d \in Conns : byConn'[d] # None =>
          byConn[d] # None /\ sess'[byConn'[d]].inst = sess[byConn[d]].inst
    BY <1>4, <1>5
  <2>. QED BY <2>1, <2>2, <2>3
<1>6. ASSUME NEW s \in SessionIds, NEW j \in InstanceIds, NEW p \in Tiles,
             /\ byConn'[t.conn] = s /\ \A d \in Conns \ {t.conn} : byConn'[d] = left.conn[d]
             /\ byChar'[t.char] = s /\ \A ch \in Chars \ {t.char} : byChar'[ch] = left.char[ch]
             /\ ~Reachable(s)
             /\ sess'[s] = [conn |-> t.conn, char |-> t.char, inst |-> j, pos |-> p, seq |-> 0]
             /\ \A y \in SessionIds \ {s} : Reachable(y)' => Reachable(y) /\ sess'[y] = sess[y]
             /\ insts'[j].at[Player(t.char)] = p
             /\ \A k \in InstanceIds, ch \in Chars :
                   k # j \/ ch # t.char => insts'[k].at[Player(ch)] = left.insts[k].at[Player(ch)]
      PROVE  Goal
  <2>1. Entered(t)
    BY <1>1, <1>6, Names DEF Entered, Reachable
  <2>2. x.inst = j /\ x.pos = p
    BY <1>6
  <2>3. Present(j, t.char)'
    BY <1>6, EntityIds DEF Present
  <2>4. \A i \in InstanceIds, ch \in Chars : Present(i, ch)' =>
          Present(i, ch) \/ (i = j /\ ch = t.char)
    BY <1>3, <1>6 DEF Present
  <2>5. \A y \in SessionIds : Reachable(y) /\ Reachable(y)' => sess'[y] = sess[y]
    BY <1>6
  <2>6. \A d \in Conns : byConn'[d] # None /\ d # t.conn =>
          byConn[d] # None /\ sess'[byConn'[d]].inst = sess[byConn[d]].inst
    BY <1>4, <1>6, <2>5
  <2>. QED BY <2>1, <2>2, <2>3, <2>4, <2>6
<1>. HIDE DEF Goal
<1>7. Goal
  BY <1>2, <1>5, <1>6 DEF EnterEffect
<1>. QED BY <1>7 DEF Goal

\* Whoever a departure takes from an instance is going to be announced.
LEMMA Departs ==
    ASSUME IInv, ViewsTypeOK, NEW c \in Conns, LeaveAndBroadcast(c), AskClear(c)
    PROVE  /\ byConn'[c] = None /\ \A d \in Conns : byConn'[d] \in {byConn[d], None}
           /\ leaving' \in [Places -> 0 .. MaxLeaving]
           /\ \A i \in InstanceIds, ch \in Chars : Present(i, ch)' => Present(i, ch)
           /\ \A i \in InstanceIds, ch \in Chars :
                 /\ Present(i, ch) => Present(i, ch)' \/ leaving'[<<i, ch>>] > 0
                 /\ leaving[<<i, ch>>] > 0 => leaving'[<<i, ch>>] > 0
<1>. DEFINE s == byConn[c]
            x == sess[s]
            place == <<x.inst, x.char>>
<1>1. CASE s = None
  <2>1. UNCHANGED <<insts, byConn, leaving>>
    BY <1>1, Names, SessionOf DEF LeaveAndBroadcast, AskClear, IInv, TypeOK
  <2>. QED BY <1>1, <2>1 DEF Present, ViewsTypeOK
<1>2. CASE s # None
  <2>1. s \in SessionIds /\ x \in Session /\ x.inst \in InstanceIds /\ x.char \in Chars
    BY <1>2, SessionOf DEF IInv, Session
  <2>2. byConn' = ConnIndexWithout(c) /\ insts' = InstancesWithout(s)
    BY <1>2 DEF LeaveAndBroadcast
  <2>3. byConn'[c] = None /\ \A d \in Conns : byConn'[d] \in {byConn[d], None}
    BY <2>2 DEF ConnIndexWithout, IInv, TypeOK
  <2>4. Present(x.inst, x.char)
    <3>1. insts[x.inst].at[Player(x.char)] = x.pos /\ x.pos \in Tiles
      BY <1>2, <2>1 DEF IInv, SessionsAgree, BodyWhereSessionIs, Session
    <3>. QED BY <3>1, EntityIds DEF Present
  <2>5. place \in Places /\ leaving[place] < MaxLeaving
        /\ leaving' = [leaving EXCEPT ![place] = @ + 1]
    BY <1>2, <2>1, <2>4 DEF AskClear, Places
  <2>6. leaving \in [Places -> 0 .. MaxLeaving] /\ MaxLeaving \in Nat
    BY LeavingAssumption DEF ViewsTypeOK
  <2>. HIDE DEF s, x, place
  <2>7. \A q \in Places : leaving'[q] = IF q = place THEN leaving[q] + 1 ELSE leaving[q]
    BY <2>5, <2>6
  <2>8. leaving' \in [Places -> 0 .. MaxLeaving] /\ leaving'[place] > 0
        /\ \A q \in Places : leaving[q] > 0 => leaving'[q] > 0
    BY <2>5, <2>6, <2>7
  <2>9. ASSUME NEW i \in InstanceIds, NEW ch \in Chars
        PROVE  IF <<i, ch>> = place THEN ~Present(i, ch)' /\ Present(i, ch) ELSE Present(i, ch)' = Present(i, ch)
    <3>1. CASE ch # x.char
      <4>1. insts'[i].at[Player(ch)] = insts[i].at[Player(ch)]
        BY <2>1, <2>2, <3>1, InstancesWithoutOne DEF x
      <4>. QED BY <3>1, <4>1 DEF Present, place
    <3>2. CASE ch = x.char
      <4>1. insts'[i].at[Player(ch)] = IF i = x.inst THEN None ELSE insts[i].at[Player(ch)]
        BY <2>1, <2>2, <3>2, BodyRemoved DEF x
      <4>. QED BY <2>4, <3>2, <4>1 DEF Present, place
    <3>. QED BY <3>1, <3>2
  <2>10. \A i \in InstanceIds, ch \in Chars : <<i, ch>> \in Places
    BY DEF Places
  <2>. QED BY <2>3, <2>8, <2>9, <2>10
<1>. QED BY <1>1, <1>2

\* A step that gives nobody a session or a body, takes no body unannounced and
\* tells a client nothing, unless it closes its socket.
LEMMA ViewsKept ==
    ASSUME IInv, ViewsInv, KeptSessions,
           UNCHANGED <<gone, hidden>>,
           \A i \in InstanceIds, ch \in Chars :
              /\ Present(i, ch)' => Present(i, ch)
              /\ Present(i, ch) => Present(i, ch)' \/ leaving'[<<i, ch>>] > 0
              /\ leaving[<<i, ch>>] > 0 => leaving'[<<i, ch>>] > 0,
           \A c \in Conns :
              /\ byConn'[c] \in {byConn[c], None}
              /\ Closed(c) => Closed(c)'
              /\ \/ rooms'[c] = rooms[c] /\ told'[c] = told[c]
                 \/ byConn'[c] = None /\ told'[c] = {}
    PROVE  InRoom' /\ NoPhantoms' /\ (Seen => Seen')
<1>1. ASSUME NEW c \in Conns, ~Closed(c)', byConn'[c] # None
      PROVE  /\ ~Closed(c) /\ byConn[c] # None /\ rooms'[c] = rooms[c] /\ told'[c] = told[c]
             /\ sess'[byConn'[c]].inst = sess[byConn[c]].inst /\ sess[byConn[c]].inst \in InstanceIds
  <2>1. byConn'[c] = byConn[c] /\ byConn[c] \in SessionIds /\ sess[byConn[c]] \in Session
    BY <1>1, SessionOf DEF IInv
  <2>2. Reachable(byConn[c])'
    BY <2>1 DEF Reachable
  <2>. QED BY <1>1, <2>1, <2>2 DEF KeptSessions, Session
<1>2. InRoom'
  BY <1>1 DEF ViewsInv, InRoom
<1>3. Seen => Seen'
  BY <1>1 DEF Seen
<1>4. ASSUME NEW c \in Conns, NEW ch \in told'[c]
      PROVE  \E i \in rooms'[c] : Present(i, ch)' \/ leaving'[<<i, ch>>] > 0 \/ <<i, ch>> \in gone'
  <2>1. ch \in told[c] /\ rooms'[c] = rooms[c] /\ ch \in Chars /\ rooms[c] \subseteq InstanceIds
    BY <1>4 DEF ViewsInv, ViewsTypeOK
  <2>. QED BY <2>1 DEF ViewsInv, NoPhantoms
<1>5. NoPhantoms'
  BY <1>4 DEF NoPhantoms
<1>. QED BY <1>2, <1>3, <1>5

\* Whoever enters is in the room, has the snapshot and is announced; whom it
\* evicts is known to have gone.
LEMMA EnterViews ==
    ASSUME IInv, ViewsInv, NEW t \in entering, ViewsEnterWorld(t)
    PROVE  ViewsInv' /\ (RadiusCovers /\ Seen => Seen')
<1>. DEFINE c == t.conn
<1>. PICK x : x = sess'[byConn'[c]]
  OBVIOUS
<1>. PICK i : i = x.inst
  OBVIOUS
<1>1. c \in Conns /\ t.char \in Chars
  BY DEF IInv, TypeOK, EnterTask
<1>2. EnterWorld(t) /\ UNCHANGED <<sockets, leaving>> /\ gone' = Unannounced
  BY DEF ViewsEnterWorld, EnterWorld
<1>3. /\ Entered(t) => i \in InstanceIds /\ x.pos \in Tiles /\ Present(i, t.char)'
      /\ \A j \in InstanceIds, ch \in Chars : Present(j, ch)' =>
            Present(j, ch) \/ (Entered(t) /\ j = i /\ ch = t.char)
      /\ \A d \in Conns : byConn'[d] # None /\ (d = c => ~Entered(t)) =>
            byConn[d] # None /\ sess'[byConn'[d]].inst = sess[byConn[d]].inst
  BY <1>2, EnteredWorld
<1>4. \A j \in InstanceIds, ch \in Chars :
        Present(j, ch) \/ <<j, ch>> \in gone => Present(j, ch)' \/ <<j, ch>> \in gone'
  BY <1>2 DEF Unannounced, Places
<1>. DEFINE Goal == ViewsInv' /\ (RadiusCovers /\ Seen => Seen')
<1>5. CASE ~Entered(t)
  <2>1. UNCHANGED <<rooms, told, hidden>>
    BY <1>5 DEF ViewsEnterWorld
  <2>2. ViewsTypeOK'
    BY <1>2, <2>1 DEF ViewsInv, ViewsTypeOK, Unannounced
  <2>3. InRoom'
    BY <1>2, <1>3, <1>5, <2>1 DEF ViewsInv, InRoom, Closed
  <2>4. NoPhantoms'
    BY <1>2, <1>4, <2>1 DEF ViewsInv, NoPhantoms, ViewsTypeOK
  <2>5. Seen => Seen'
    <3>. SUFFICES ASSUME Seen, NEW d \in Conns, ~Closed(d)', byConn'[d] # None,
                         NEW ch \in Chars, Present(sess[byConn[d]].inst, ch)',
                         sess'[byConn'[d]].inst = sess[byConn[d]].inst
                  PROVE  ch \in told[d] \/ <<sess[byConn[d]].inst, ch>> \in hidden
      BY <1>3, <1>5, <2>1 DEF Seen
    <3>1. byConn[d] # None /\ ~Closed(d) /\ sess[byConn[d]].inst \in InstanceIds
      BY <1>2, <1>3, <1>5, SessionOf DEF Closed, IInv, Session
    <3>2. Present(sess[byConn[d]].inst, ch)
      BY <1>3, <1>5, <3>1
    <3>. QED BY <3>1, <3>2 DEF Seen
  <2>. QED BY <2>2, <2>3, <2>4, <2>5 DEF ViewsInv
<1>6. CASE Entered(t)
  <2>1. rooms' = Joined(c, i) /\ told' = ToldOfEntry(c, t.char, x) /\ hidden' = hidden \ {<<i, t.char>>}
    BY <1>6 DEF ViewsEnterWorld
  <2>2. i \in InstanceIds /\ x.pos \in Tiles /\ Present(i, t.char)'
    BY <1>3, <1>6
  <2>3. rooms \in [Conns -> SUBSET InstanceIds] /\ told \in [Conns -> SUBSET Chars]
    BY DEF ViewsInv, ViewsTypeOK
  <2>4. \A d \in Conns : rooms'[d] = IF d = c /\ ~Closed(c) THEN rooms[d] \cup {i} ELSE rooms[d]
    BY <2>1, <2>3 DEF Joined
  <2>5. \A d \in Conns :
          /\ d = c /\ ~Closed(c) => told'[d] = Snapshot(insts'[i], x.pos)
          /\ d # c /\ i \in rooms[d] => told'[d] = told[d] \cup {t.char}
          /\ told'[d] \in {Snapshot(insts'[i], x.pos), told[d] \cup {t.char}, told[d]}
          /\ d # c /\ i \notin rooms[d] => told'[d] = told[d]
          /\ d = c /\ Closed(c) => told'[d] = told[d]
    BY <2>1 DEF ToldOfEntry
  <2>6. Snapshot(insts'[i], x.pos) \subseteq {ch \in Chars : Present(i, ch)'}
    BY DEF Snapshot, Present
  <2>7. ViewsTypeOK'
    <3>1. rooms' \in [Conns -> SUBSET InstanceIds]
      BY <2>1, <2>2, <2>3, <2>4 DEF Joined
    <3>2. told' \in [Conns -> SUBSET Chars]
      BY <1>1, <2>1, <2>3, <2>5, <2>6 DEF ToldOfEntry
    <3>. QED BY <1>2, <2>1, <3>1, <3>2 DEF ViewsInv, ViewsTypeOK, Unannounced
  <2>8. InRoom'
    <3>. SUFFICES ASSUME NEW d \in Conns, ~Closed(d), byConn'[d] # None
                  PROVE  sess'[byConn'[d]].inst \in rooms'[d]
      BY <1>2 DEF InRoom, Closed
    <3>1. CASE d = c
      BY <2>4, <3>1
    <3>2. CASE d # c
      BY <1>3, <2>4, <3>2 DEF ViewsInv, InRoom
    <3>. QED BY <3>1, <3>2
  <2>9. ASSUME NEW d \in Conns, NEW ch \in told'[d]
        PROVE  \E j \in rooms'[d] : Present(j, ch)' \/ leaving'[<<j, ch>>] > 0 \/ <<j, ch>> \in gone'
    <3>1. CASE d = c /\ ~Closed(c)
      BY <2>4, <2>5, <2>6, <3>1
    <3>2. CASE ch = t.char /\ i \in rooms[d] /\ d # c
      BY <2>2, <2>4, <3>2
    <3>3. CASE ch \in told[d] /\ ~(d = c /\ ~Closed(c))
      <4>1. PICK j \in rooms[d] : Present(j, ch) \/ leaving[<<j, ch>>] > 0 \/ <<j, ch>> \in gone
        BY <3>3 DEF ViewsInv, NoPhantoms
      <4>2. j \in InstanceIds /\ j \in rooms'[d] /\ ch \in Chars
        BY <2>3, <2>4, <3>3
      <4>. QED BY <1>2, <1>4, <4>1, <4>2
    <3>. QED BY <2>5, <3>1, <3>2, <3>3
  <2>10. NoPhantoms'
    BY <2>9 DEF NoPhantoms
  <2>11. ASSUME RadiusCovers, Seen, NEW d \in Conns, ~Closed(d), byConn'[d] # None,
                NEW k, k = sess'[byConn'[d]].inst, NEW ch \in Chars, Present(k, ch)'
         PROVE  ch \in told'[d] \/ <<k, ch>> \in hidden'
    <3>1. CASE d = c
      <4>1. insts'[i].at[Player(ch)] \in Tiles
        <5>1. insts' \in [InstanceIds -> Instance] /\ Player(ch) \in EntityId
          BY <1>2, EnterWorldEffect, EntityIds DEF TypeOK
        <5>. QED BY <2>2, <2>11, <3>1, <5>1 DEF Present, Instance
      <4>2. ch \in Snapshot(insts'[i], x.pos)
        BY <2>2, <2>11, <3>1, <4>1, EntityIds DEF Snapshot, RadiusCovers
      <4>. QED BY <2>5, <2>11, <3>1, <4>2
    <3>2. CASE d # c
      <4>1. byConn[d] # None /\ k = sess[byConn[d]].inst /\ k \in InstanceIds
        BY <1>3, <2>11, <3>2, SessionOf DEF IInv, Session
      <4>2. k \in rooms[d]
        BY <2>11, <4>1 DEF ViewsInv, InRoom
      <4>3. CASE k = i /\ ch = t.char
        BY <2>5, <3>2, <4>2, <4>3
      <4>4. CASE ~(k = i /\ ch = t.char)
        <5>1. Present(k, ch)
          BY <1>3, <2>11, <4>1, <4>4
        <5>2. ch \in told[d] \/ <<k, ch>> \in hidden
          BY <2>11, <4>1, <5>1 DEF Seen
        <5>3. told[d] \subseteq told'[d]
          BY <2>5, <3>2
        <5>. QED BY <2>1, <4>1, <4>4, <5>2, <5>3
      <4>. QED BY <4>3, <4>4
    <3>. QED BY <3>1, <3>2
  <2>12. RadiusCovers /\ Seen => Seen'
    <3>. SUFFICES ASSUME RadiusCovers, Seen, NEW d \in Conns, ~Closed(d)', byConn'[d] # None,
                         NEW ch \in Chars, Present(sess[byConn[d]].inst, ch)'
                  PROVE  ch \in told'[d] \/ <<sess'[byConn'[d]].inst, ch>> \in hidden'
      BY DEF Seen
    <3>1. PICK k : k = sess'[byConn'[d]].inst
      OBVIOUS
    <3>2. ~Closed(d) /\ Present(k, ch)'
      BY <1>2, <3>1 DEF Closed, Present
    <3>. QED BY <2>11, <3>1, <3>2
  <2>. QED BY <2>7, <2>8, <2>10, <2>12 DEF ViewsInv
<1>. QED BY <1>5, <1>6

\* An announcement takes a player off the lists of a room: those who had it on
\* theirs for another reason know it from another room.
LEMMA DespawnedViews ==
    ASSUME IInv, ViewsInv, NEW i \in InstanceIds, NEW ch \in Chars, Despawned(i, ch)
    PROVE  ViewsInv' /\ (Seen => Seen')
<1>1. /\ rooms \in [Conns -> SUBSET InstanceIds] /\ told \in [Conns -> SUBSET Chars]
      /\ leaving \in [Places -> 0 .. MaxLeaving] /\ MaxLeaving \in Nat
      /\ <<i, ch>> \in Places
  BY LeavingAssumption DEF ViewsInv, ViewsTypeOK, Places
<1>2. /\ UNCHANGED <<insts, sess, byConn, sockets, rooms>>
      /\ leaving[<<i, ch>>] > 0
      /\ leaving' = [leaving EXCEPT ![<<i, ch>>] = @ - 1]
      /\ gone' = gone \ {<<i, ch>>}
  BY DEF Despawned
<1>3. \A c \in Conns : told'[c] = IF i \in rooms[c] THEN told[c] \ {ch} ELSE told[c]
  BY DEF Despawned, ToldOfDeparture
<1>4. ViewsTypeOK'
  <2>1. leaving' \in [Places -> 0 .. MaxLeaving]
    BY <1>1, <1>2
  <2>2. told' \in [Conns -> SUBSET Chars]
    BY <1>1, <1>3 DEF Despawned, ToldOfDeparture
  <2>. QED BY <1>2, <2>1, <2>2 DEF Despawned, ViewsInv, ViewsTypeOK
<1>5. InRoom'
  BY <1>2 DEF ViewsInv, InRoom, Closed
<1>6. NoPhantoms'
  <2>. SUFFICES ASSUME NEW c \in Conns, NEW k \in told'[c]
                PROVE  \E j \in rooms[c] : Present(j, k) \/ leaving'[<<j, k>>] > 0 \/ <<j, k>> \in gone'
    BY <1>2 DEF NoPhantoms, Present
  <2>1. k \in told[c] /\ k \in Chars /\ (i \in rooms[c] => k # ch)
    BY <1>1, <1>3
  <2>2. PICK j \in rooms[c] : Present(j, k) \/ leaving[<<j, k>>] > 0 \/ <<j, k>> \in gone
    BY <2>1 DEF ViewsInv, NoPhantoms
  <2>3. <<j, k>> # <<i, ch>> /\ <<j, k>> \in Places
    BY <1>1, <2>1 DEF Places
  <2>. QED BY <1>1, <1>2, <2>2, <2>3
<1>7. Seen => Seen'
  <2>. SUFFICES ASSUME Seen, NEW c \in Conns, ~Closed(c), byConn[c] # None,
                       NEW k \in Chars, Present(sess[byConn[c]].inst, k)
                PROVE  k \in told'[c] \/ <<sess[byConn[c]].inst, k>> \in hidden'
    BY <1>2 DEF Seen, Closed, Present
  <2>1. sess[byConn[c]].inst \in InstanceIds
    BY SessionOf DEF IInv, Session
  <2>2. CASE k = ch
    BY <2>1, <2>2 DEF Despawned, Places
  <2>3. CASE k # ch
    BY <1>3, <2>3 DEF Despawned, Seen
  <2>. QED BY <2>2, <2>3
<1>. QED BY <1>4, <1>5, <1>6, <1>7 DEF ViewsInv

LEMMA RestartViews ==
    ASSUME IInv, ViewsRestart
    PROVE  ViewsInv' /\ Seen'
<1>1. ViewsTypeOK'
  BY LeavingAssumption DEF ViewsRestart, ViewsTypeOK
<1>2. InRoom' /\ Seen'
  BY DEF ViewsRestart, Restart, InRoom, Seen
<1>3. NoPhantoms'
  BY DEF ViewsRestart, NoPhantoms
<1>. QED BY <1>1, <1>2, <1>3 DEF ViewsInv

LEMMA ViewsInitially == ViewsInit => IInv /\ ViewsInv /\ Seen
<1>. SUFFICES ASSUME ViewsInit PROVE IInv /\ ViewsInv /\ Seen
  OBVIOUS
<1>1. IInv
  BY InitIInv DEF ViewsInit
<1>2. ViewsTypeOK
  BY LeavingAssumption DEF ViewsInit, ViewsTypeOK
<1>3. InRoom /\ Seen
  BY DEF ViewsInit, Init, InRoom, Seen
<1>4. NoPhantoms
  BY DEF ViewsInit, NoPhantoms
<1>. QED BY <1>1, <1>2, <1>3, <1>4 DEF ViewsInv

\* The world itself goes on as it does without its clients.
LEMMA ViewsWorld == IInv /\ [ViewsNext]_viewsAll => IInv'
<1>. SUFFICES ASSUME IInv, [ViewsNext]_viewsAll PROVE IInv'
  OBVIOUS
<1>1. CASE [Next]_vars
  BY <1>1, NextIInv
<1>2. ASSUME NEW i \in InstanceIds, NEW ch \in Chars, Despawned(i, ch) PROVE IInv'
  BY <1>2, QuietStep DEF Despawned, IInv, TypeOK
<1>. QED BY <1>1, <1>2
         DEF ViewsNext, Next, ViewsLeave, ViewsDisconnect, ViewsEnterWorld, ViewsRestart, viewsAll

\* A MOVE takes no body out of its instance and brings none into it.
LEMMA MovedBodies ==
    ASSUME IInv, NEW c \in Conns, NEW d \in Directions, NEW q \in 1 .. MaxSequence, Move(c, d, q),
           NEW i \in InstanceIds, NEW ch \in Chars
    PROVE  Present(i, ch)' = Present(i, ch)
BY MoveBodies, EntityIds DEF Present

LEMMA NextViews ==
    ASSUME IInv, ViewsInv, [ViewsNext]_viewsAll
    PROVE  ViewsInv' /\ (RadiusCovers /\ Seen => Seen')
\* Steps that tell nobody anything and take no body.
<1>1. ASSUME UNCHANGED viewVars, KeptSessions, \A c \in Conns : byConn'[c] = byConn[c],
             \A c \in Conns : Closed(c) => Closed(c)',
             \A i \in InstanceIds, ch \in Chars : Present(i, ch)' = Present(i, ch)
      PROVE  ViewsInv' /\ (Seen => Seen')
  <2>1. InRoom' /\ NoPhantoms' /\ (Seen => Seen')
    BY <1>1, ViewsKept DEF viewVars
  <2>. QED BY <1>1, <2>1 DEF ViewsInv, ViewsTypeOK, viewVars
<1>2. CASE /\ \/ \E c \in Conns : Connect(c)
              \/ \E c \in Conns, ch \in Chars, at \in Stored : EnterRequest(c, ch, at)
              \/ ResolveLaboratorySpawn \/ UNCHANGED vars
           /\ UNCHANGED viewVars
  <2>1. UNCHANGED <<insts, sess, byConn, byChar, moving>>
    BY <1>2 DEF Connect, EnterRequest, ResolveLaboratorySpawn, vars
  <2>2. \A c \in Conns : Closed(c) => Closed(c)'
    BY <1>2 DEF Connect, EnterRequest, ResolveLaboratorySpawn, vars, Closed, IInv, TypeOK
  <2>. QED BY <1>1, <1>2, <2>1, <2>2, SameKeeps DEF Present
<1>3. ASSUME NEW c \in Conns, NEW d \in Directions, NEW q \in 1 .. MaxSequence, Move(c, d, q),
             UNCHANGED viewVars
      PROVE  ViewsInv' /\ (Seen => Seen')
  <2>1. \A i \in InstanceIds, ch \in Chars : Present(i, ch)' = Present(i, ch)
    BY <1>3, MovedBodies
  <2>. QED BY <1>1, <1>3, <2>1, MoveKeeps DEF Move, Closed
<1>4. ASSUME NEW t \in moving, Moved(t), UNCHANGED viewVars
      PROVE  ViewsInv' /\ (Seen => Seen')
  BY <1>1, <1>4, MovedKeeps DEF Moved, Closed, Present
<1>5. ASSUME NEW c \in Conns, ViewsLeave(c) \/ ViewsDisconnect(c)
      PROVE  ViewsInv' /\ (Seen => Seen')
  <2>1. LeaveAndBroadcast(c) /\ AskClear(c) /\ UNCHANGED <<moving, gone, hidden>>
    BY <1>5 DEF ViewsLeave, ViewsDisconnect, Leave, Disconnect, LeaveAndBroadcast
  <2>2. /\ byConn'[c] = None /\ \A d \in Conns : byConn'[d] \in {byConn[d], None}
        /\ leaving' \in [Places -> 0 .. MaxLeaving]
        /\ \A i \in InstanceIds, ch \in Chars : Present(i, ch)' => Present(i, ch)
        /\ \A i \in InstanceIds, ch \in Chars :
              /\ Present(i, ch) => Present(i, ch)' \/ leaving'[<<i, ch>>] > 0
              /\ leaving[<<i, ch>>] > 0 => leaving'[<<i, ch>>] > 0
    BY <2>1, Departs DEF ViewsInv
  <2>3. /\ rooms' \in [Conns -> SUBSET InstanceIds] /\ told' \in [Conns -> SUBSET Chars]
        /\ \A d \in Conns : (rooms'[d] = rooms[d] /\ told'[d] = told[d]) \/ (d = c /\ told'[d] = {})
        /\ \A d \in Conns : Closed(d) => Closed(d)'
    BY <1>5 DEF ViewsLeave, ViewsDisconnect, Leave, Disconnect, Closed, ViewsInv, ViewsTypeOK, IInv, TypeOK
  <2>4. InRoom' /\ NoPhantoms' /\ (Seen => Seen')
    BY <2>1, <2>2, <2>3, LeaveKeeps, ViewsKept
  <2>. QED BY <2>1, <2>2, <2>3, <2>4 DEF ViewsInv, ViewsTypeOK
<1>6. ASSUME NEW t \in entering, ViewsEnterWorld(t)
      PROVE  ViewsInv' /\ (RadiusCovers /\ Seen => Seen')
  BY <1>6, EnterViews
<1>7. ASSUME NEW i \in InstanceIds, NEW ch \in Chars, Despawned(i, ch)
      PROVE  ViewsInv' /\ (Seen => Seen')
  BY <1>7, DespawnedViews
<1>8. CASE ViewsRestart
  BY <1>8, RestartViews
<1>. QED BY <1>2, <1>3, <1>4, <1>5, <1>6, <1>7, <1>8 DEF ViewsNext, viewsAll

(***************************************************************************)
(* The theorems about the clients                                          *)
(***************************************************************************)

\* A player that a client believes in although it is not there has a departure
\* that waits to be announced in a room of the client, or was evicted from it:
\* for every map, any number of sockets, characters and instances, and rooms
\* that no WORLD_LEAVE takes a socket out of.
THEOREM PhantomsAccounted == ViewsSpec => []NoPhantoms
<1>1. IInv /\ ViewsInv /\ [ViewsNext]_viewsAll => (IInv /\ ViewsInv)'
  BY ViewsWorld, NextViews
<1>2. ViewsInv => NoPhantoms
  BY DEF ViewsInv
<1>. QED BY ViewsInitially, <1>1, <1>2, PTL DEF ViewsSpec

\* On a map within the interest radius, the laboratory's for one, a client in
\* the world knows of every player in its instance but those of whom a late
\* ENTITY_DESPAWNED said that they had left.
THEOREM EverybodySeen == ASSUME RadiusCovers PROVE ViewsSpec => []NobodyUnseen
<1>1. IInv /\ ViewsInv /\ Seen /\ [ViewsNext]_viewsAll => (IInv /\ ViewsInv /\ Seen)'
  BY ViewsWorld, NextViews
<1>2. Seen => NobodyUnseen
  BY DEF Seen, NobodyUnseen, Closed
<1>. QED BY ViewsInitially, <1>1, <1>2, PTL DEF ViewsSpec
=============================================================================
