------------------------------- MODULE World -------------------------------
(***************************************************************************)
(* The world server of one Node process: the instances of the laboratory   *)
(* map, the WorldSession index (SessionManager) and the handlers of the    *)
(* `/world` gateway that change them, WORLD_ENTER, MOVE, WORLD_LEAVE and   *)
(* the socket's disconnect.  The stored position of a character is open    *)
(* here (any position may be read); WorldStore.tla adds it.                *)
(*                                                                         *)
(* A handler runs without interruption up to an `await` that leaves the    *)
(* process (a database query, a Redis command) and continues in a later    *)
(* step, so every such await splits it: `entering` and `moving` hold the   *)
(* handlers that wait.  The `await` on the cached map is no such point:    *)
(* nothing but a message of the same socket, already received, can run     *)
(* before the handler goes on, and the outcome is that of one order of the *)
(* two.                                                                    *)
(***************************************************************************)
EXTENDS MapInstance

CONSTANTS
    Conns,          \* socket ids; a socket is opened once and never again
    MayEnter,       \* pairs <<c, ch>>: ch belongs to the account of c and c enters with it
    Stored,         \* positions a character's row may hold, None when it holds none
    MaxInstances,   \* bound: instances the process opens
    MaxObjects,     \* bound: WorldSession objects of one socket and character alive at once
    MaxSequence,    \* bound: sequence numbers a client sends
    MaxInFlight     \* bound: handlers waiting for Redis or the database

ASSUME WorldAssumption ==
    /\ MayEnter \subseteq Conns \X Chars
    /\ Stored \subseteq Tiles \cup {None}
    /\ MaxInstances \in Nat \ {0} /\ MaxObjects \in Nat
    /\ MaxSequence \in Nat /\ MaxInFlight \in Nat
    /\ None \notin Conns \X Chars \X (1 .. MaxObjects)

VARIABLES
    opened,     \* number of instances created so far
    insts,      \* [1 .. MaxInstances -> Instance]; those above opened are empty
    sess,       \* heap of WorldSession objects
    byConn,     \* SessionManager.byConnection: connection -> session object
    byChar,     \* SessionManager.byCharacter: character -> session object
    sockets,    \* state of each socket
    entering,   \* WORLD_ENTER handlers that have read the character
    moving,     \* MOVE handlers that wait for publishPresence
    cast        \* the ENTITY_MOVED broadcast made by the latest step, if any

vars == <<opened, insts, sess, byConn, byChar, sockets, entering, moving, cast>>

InstanceIds == 1 .. MaxInstances
\* The identity of a session object: whose it is and which one of those.
SessionIds  == Conns \X Chars \X (1 .. MaxObjects)

Session == [conn : Conns, char : Chars, inst : InstanceIds, pos : Tiles, seq : 0 .. MaxSequence]

ASSUME SessionAssumption == None \notin Session

EnterTask == [conn : Conns, char : Chars, at : Tiles \cup {None}]
MoveTask  == [sid : SessionIds, conn : Conns, char : Chars, inst : InstanceIds,
              pos : Tiles, asked : 1 .. MaxSequence]
Broadcast == [conn : Conns, inst : InstanceIds, asked : 1 .. MaxSequence,
              seq : 0 .. MaxSequence, heard : SUBSET Conns]

TypeOK ==
    /\ opened \in 0 .. MaxInstances
    /\ insts \in [InstanceIds -> Instance]
    /\ sess \in [SessionIds -> Session \cup {None}]
    /\ byConn \in [Conns -> SessionIds \cup {None}]
    /\ byChar \in [Chars -> SessionIds \cup {None}]
    /\ sockets \in [Conns -> {"new", "open", "closed"}]
    /\ entering \subseteq EnterTask
    /\ moving \subseteq MoveTask
    /\ cast \in Broadcast \cup {None}

Init ==
    /\ opened = 0
    /\ insts = [i \in InstanceIds |-> EmptyInstance]
    /\ sess = [s \in SessionIds |-> None]
    /\ byConn = [c \in Conns |-> None]
    /\ byChar = [ch \in Chars |-> None]
    /\ sockets = [c \in Conns |-> "new"]
    /\ entering = {} /\ moving = {}
    /\ cast = None

(***************************************************************************)
(* Helpers                                                                 *)
(***************************************************************************)

InFlight == Cardinality(entering) + Cardinality(moving)

\* A session object is in the heap as long as an index or a waiting MOVE
\* refers to it.
Reachable(s) ==
    \/ \E c \in Conns : byConn[c] = s
    \/ \E ch \in Chars : byChar[ch] = s
    \/ \E t \in moving : t.sid = s

\* The next heap: h, without the objects that have become unreachable.
HeapBecomes(h) == sess' = [s \in SessionIds |-> IF Reachable(s)' THEN h[s] ELSE None]

\* InstanceManager.findAvailableInstance: the first instance that is not full,
\* a new one when all of them are.
Available(is) ==
    LET open == {i \in 1 .. opened : ~IsFull(is[i])}
    IN  IF open = {} THEN opened + 1 ELSE CHOOSE i \in open : \A j \in open : i <= j

\* SessionManager.removeByConnection: what is left of the two indexes.
\* Mutant: the session of the connection stays in the index.
ConnIndexUntouched(c) == byConn

\* Mutant: every session of the instance goes with the one that leaves.
ConnIndexWithoutInstance(c) ==
    [d \in Conns |-> IF byConn[c] # None /\ byConn[d] # None
                       /\ sess[byConn[d]].inst = sess[byConn[c]].inst
                     THEN None ELSE byConn[d]]

ConnIndexWithout(c) == [byConn EXCEPT ![c] = None]

CharIndexWithout(c) ==
    IF byConn[c] = None THEN byChar
    ELSE LET ch == sess[byConn[c]].char
         IN  IF byChar[ch] # None /\ sess[byChar[ch]].conn = c
             THEN [byChar EXCEPT ![ch] = None]
             ELSE byChar

\* The instances without the body of session s.
InstancesWithout(s) ==
    [insts EXCEPT ![sess[s].inst] = RemoveEntity(@, Player(sess[s].char))]

(***************************************************************************)
(* Connections                                                             *)
(***************************************************************************)

\* handleConnection with a valid token.
Connect(c) ==
    /\ sockets[c] = "new"
    /\ sockets' = [sockets EXCEPT ![c] = "open"]
    /\ cast' = None
    /\ UNCHANGED <<opened, insts, sess, byConn, byChar, entering, moving>>

\* leaveAndBroadcast up to clearPresence: the session and its body go at once.
LeaveAndBroadcast(c) ==
    /\ cast' = None
    /\ UNCHANGED <<opened, entering, moving>>
    /\ LET s == byConn[c]
       IN  \/ /\ s = None
              /\ UNCHANGED <<insts, sess, byConn, byChar>>
           \/ /\ s # None
              /\ byConn' = ConnIndexWithout(c)
              /\ byChar' = CharIndexWithout(c)
              /\ HeapBecomes(sess)
              /\ insts' = InstancesWithout(s)

\* WORLD_LEAVE
Leave(c) ==
    /\ sockets[c] = "open" /\ byConn[c] # None
    /\ LeaveAndBroadcast(c)
    /\ UNCHANGED sockets

\* handleDisconnect
Disconnect(c) ==
    /\ sockets[c] = "open"
    /\ sockets' = [sockets EXCEPT ![c] = "closed"]
    /\ LeaveAndBroadcast(c)

(***************************************************************************)
(* WORLD_ENTER                                                             *)
(***************************************************************************)

\* onEnter up to the character's row, read from the database; at is the
\* position it holds.
EnterRequest(c, ch, at) ==
    /\ sockets[c] = "open" /\ <<c, ch>> \in MayEnter
    /\ ~ \E t \in entering : t.conn = c /\ t.char = ch
    /\ InFlight < MaxInFlight
    /\ entering' = entering \cup {[conn |-> c, char |-> ch, at |-> at]}
    /\ cast' = None
    /\ UNCHANGED <<opened, insts, sess, byConn, byChar, sockets, moving>>

\* Mutant: the previous session is dropped but its body is not.
IndexAfterEvictionOfSession(ch) ==
    IF byChar[ch] = None
    THEN [conn |-> byConn, char |-> byChar, insts |-> insts]
    ELSE LET c == sess[byChar[ch]].conn
         IN  [conn |-> ConnIndexWithout(c), char |-> CharIndexWithout(c), insts |-> insts]

\* What the entering player finds once the session the character had is gone.
IndexAfterEviction(ch) ==
    IF byChar[ch] = None
    THEN [conn |-> byConn, char |-> byChar, insts |-> insts]
    ELSE LET s == byChar[ch]
         IN  [conn |-> ConnIndexWithout(sess[s].conn), char |-> CharIndexWithout(sess[s].conn),
              insts |-> InstancesWithout(s)]

\* No spawn point is free, the instance is full or the body is in it already.
CannotEnter(m, ch) ==
    \/ FindSpawn(m) = None
    \/ m.at[Player(ch)] # None
    \/ IsFull(m)

EntryTile(m, at) ==
    IF at # None /\ IsWalkable(at) /\ ~IsOccupied(m, at) THEN at ELSE FindSpawn(m)

\* sessions.set: a session of the character on another connection is dropped.
SetSession(left, s, c, ch) ==
    LET prev == left.char[ch]
        kept == IF prev # None /\ sess[prev].conn # c
                THEN [left.conn EXCEPT ![sess[prev].conn] = None]
                ELSE left.conn
    IN  /\ byConn' = [kept EXCEPT ![c] = s]
        /\ byChar' = [left.char EXCEPT ![ch] = s]

\* enterWorld.execute throws: what was done before stays done.
EnterRefused(left, i, m, t) ==
    /\ CannotEnter(m, t.char)
    /\ insts' = [left.insts EXCEPT ![i] = m]
    /\ byConn' = left.conn /\ byChar' = left.char
    /\ HeapBecomes(sess)

EnterAdmitted(left, i, m, t) ==
    /\ ~CannotEnter(m, t.char)
    /\ LET p == EntryTile(m, t.at)
       IN  /\ insts' = [left.insts EXCEPT ![i] = AddEntity(m, Player(t.char), p)]
           /\ LET free == {n \in 1 .. MaxObjects : ~Reachable(<<t.conn, t.char, n>>)}
                  s    == <<t.conn, t.char, CHOOSE n \in free : \A k \in free : n <= k>>
              IN  /\ free # {}
                  /\ SetSession(left, s, t.conn, t.char)
                  /\ HeapBecomes([sess EXCEPT ![s] =
                        [conn |-> t.conn, char |-> t.char, inst |-> i, pos |-> p, seq |-> 0]])

\* onEnter from the character's row on.
EnterWorld(t) ==
    /\ t \in entering
    /\ entering' = entering \ {t}
    /\ cast' = None
    /\ UNCHANGED <<sockets, moving>>
    /\ LET left == IndexAfterEviction(t.char)
           i    == Available(left.insts)
       IN  /\ i \in InstanceIds
           /\ opened' = IF i > opened THEN i ELSE opened
           /\ \E n \in EnsureNpcs(left.insts[i]) : \E m \in EnsureSpawns(n) :
                EnterRefused(left, i, m, t) \/ EnterAdmitted(left, i, m, t)

(***************************************************************************)
(* MOVE                                                                    *)
(***************************************************************************)

\* Mutant: the target is not tested for being on the map and walkable.
CanStepAnywhere(m, e, p) == (p \in Tiles => ~IsOccupied(m, p)) /\ m.at[e] # None

\* The target is walkable, nobody holds it and the body is there to be moved.
CanStep(m, e, p) == IsWalkable(p) /\ ~IsOccupied(m, p) /\ m.at[e] # None

\* Mutant: the session's position is not updated.
SteppedInPlace(x, p, q) == [x EXCEPT !.seq = q]

\* The session object after an accepted MOVE.
Stepped(x, p, q) == [x EXCEPT !.seq = q, !.pos = p]

\* moveEntity.execute up to publishPresence.  The sequence number is spent
\* even when the move is then refused.
Move(c, d, q) ==
    LET s      == byConn[c]
        player == Player(sess[s].char)
        i      == sess[s].inst
        p      == Offset(sess[s].pos, d)
    IN  /\ sockets[c] = "open" /\ s # None
        /\ q > sess[s].seq
        /\ InFlight < MaxInFlight
        /\ \/ /\ ~CanStep(insts[i], player, p)
              /\ sess' = [sess EXCEPT ![s].seq = q]
              /\ UNCHANGED <<insts, moving>>
           \/ /\ CanStep(insts[i], player, p)
              /\ insts' = [insts EXCEPT ![i] = MoveEntity(@, player, p)]
              /\ sess' = [sess EXCEPT ![s] = Stepped(@, p, q)]
              /\ moving' = moving \cup {[sid |-> s, conn |-> c, char |-> sess[s].char,
                                         inst |-> i, pos |-> p, asked |-> q]}
        /\ cast' = None
        /\ UNCHANGED <<opened, byConn, byChar, sockets, entering>>

\* The peers onMove sends ENTITY_MOVED to.
Hearers(t) ==
    {c \in Conns \ {t.conn} :
        /\ byConn[c] # None
        /\ sess[byConn[c]].inst = t.inst
        /\ Within(t.pos, sess[byConn[c]].pos) \/ sess[byConn[c]].char = t.char}

\* The presence is published: the result is built from the session object,
\* broadcast.
Moved(t) ==
    /\ t \in moving
    /\ moving' = moving \ {t}
    /\ cast' = [conn |-> t.conn, inst |-> t.inst, asked |-> t.asked,
                seq |-> sess[t.sid].seq, heard |-> Hearers(t)]
    /\ UNCHANGED <<opened, insts, byConn, byChar, sockets, entering>>
    /\ HeapBecomes(sess)

(***************************************************************************)
(* The rest of the process                                                 *)
(***************************************************************************)

\* ResolveLaboratorySpawn, called when a character is created: it only looks
\* for a spawn, but opens an instance when all of them are full.
ResolveLaboratorySpawn ==
    /\ Available(insts) \in InstanceIds
    /\ opened' = IF Available(insts) > opened THEN Available(insts) ELSE opened
    /\ cast' = None
    /\ UNCHANGED <<insts, sess, byConn, byChar, sockets, entering, moving>>

\* The process stops and starts again: everything but the database is lost.
Restart ==
    /\ opened' = 0
    /\ insts' = [i \in InstanceIds |-> EmptyInstance]
    /\ sess' = [s \in SessionIds |-> None]
    /\ byConn' = [c \in Conns |-> None]
    /\ byChar' = [ch \in Chars |-> None]
    /\ sockets' = [c \in Conns |-> IF sockets[c] = "open" THEN "closed" ELSE sockets[c]]
    /\ entering' = {} /\ moving' = {}
    /\ cast' = None

Next ==
    \/ \E c \in Conns : Connect(c) \/ Leave(c) \/ Disconnect(c)
    \/ \E c \in Conns, ch \in Chars, at \in Stored : EnterRequest(c, ch, at)
    \/ \E t \in entering : EnterWorld(t)
    \/ \E c \in Conns, d \in Directions, q \in 1 .. MaxSequence : Move(c, d, q)
    \/ \E t \in moving : Moved(t)
    \/ ResolveLaboratorySpawn
    \/ Restart

Spec == Init /\ [][Next]_vars

(***************************************************************************)
(* Properties                                                              *)
(***************************************************************************)

\* The two indexes of a MapInstance are inverse to each other: a tile is
\* held by exactly the entity that stands on it.  addEntity, moveEntity and
\* removeEntity update them apart from each other.
OccupancyExact ==
    \A i \in InstanceIds : \A e \in EntityId, p \in Tiles :
        insts[i].by[p] = e <=> insts[i].at[e] = p

\* No instance holds more entities than its capacity, though residents and
\* players are counted together and are added by three different services.
CapacityRespected == \A i \in InstanceIds : Cardinality(Entities(insts[i])) <= Capacity

\* A session that a connection can act through is the one its character is
\* indexed under, so no two connections act for the same character.
SessionIndexed ==
    \A c \in Conns : byConn[c] # None =>
        /\ sess[byConn[c]].conn = c
        /\ byChar[sess[byConn[c]].char] = byConn[c]

\* The body of a connected session stands in the session's instance on the
\* tile the session believes: MOVE computes its target from the session and
\* applies it to the body.
BodyWhereSessionIs ==
    \A c \in Conns : byConn[c] # None =>
        LET s == sess[byConn[c]] IN insts[s.inst].at[Player(s.char)] = s.pos

\* A body always belongs to the session its character is indexed under, so
\* nobody is left behind in the world and nobody is in two instances.
BodiesHaveSessions ==
    \A i \in InstanceIds, ch \in Chars : insts[i].at[Player(ch)] # None =>
        byChar[ch] # None /\ sess[byChar[ch]].inst = i

\* A connection loses its session only by leaving, by entering again, or when
\* its character enters from somewhere else.
SessionLostOnlyToOwnCharacter ==
    [][\A c \in Conns : byConn[c] # None /\ byConn'[c] # byConn[c] =>
        \/ Leave(c) \/ Disconnect(c) \/ Restart
        \/ \E t \in entering \ entering' : t.conn = c \/ t.char = sess[byConn[c]].char]_vars

\* A body that stays in an instance moves one tile at a time.
BodiesMoveByOneStep ==
    [][\A i \in InstanceIds, ch \in Chars :
        LET old == insts[i].at[Player(ch)]
            new == insts'[i].at[Player(ch)]
        IN  (old # None /\ new # None /\ old # new) =>
                \/ <<new[1] - old[1], new[2] - old[2]>> \in {<<0, 1>>, <<0, -1>>, <<1, 0>>, <<-1, 0>>}
                \/ \E t \in entering \ entering' : t.char = ch]_vars

\* A closed socket with no handler in flight is nobody's connection.
ClosedSocketHasNoSession ==
    \A c \in Conns :
        sockets[c] = "closed" /\ (\A t \in entering : t.conn # c) => byConn[c] = None
=============================================================================
