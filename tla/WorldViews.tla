----------------------------- MODULE WorldViews -----------------------------
(***************************************************************************)
(* The world server together with what its clients have been told of it.   *)
(* WORLD_ENTER puts the socket into the Socket.IO room of the instance and *)
(* sends it a snapshot; whoever is in the room hears of the players that   *)
(* enter (ENTITY_SPAWNED) and leave (ENTITY_DESPAWNED).  A departure is    *)
(* announced only after the `await` of clearPresence, when the world may   *)
(* be a different one.                                                     *)
(*                                                                         *)
(* Rooms are external (Socket.IO): a socket is in a room from join on      *)
(* until it closes, nothing but its closing takes it out, and join does    *)
(* nothing once it has closed.  Residents are left out, and ENTITY_MOVED   *)
(* tells a client nothing about who is there.                              *)
(***************************************************************************)
EXTENDS World

CONSTANT MaxLeaving     \* bound: departures of one player from one instance unannounced at once

ASSUME LeavingAssumption == MaxLeaving \in Nat \ {0}

VARIABLES
    rooms,      \* the instances whose room each socket is in
    told,       \* the characters each client believes to be around it
    leaving,    \* how often <<i, ch>>, gone from instance i, is still to be announced
    gone,       \* history: <<i, ch>> whose body was taken from i by an entry, unannounced
    hidden      \* history: <<i, ch>> whose departure was announced although it is in i

viewVars == <<rooms, told, leaving, gone, hidden>>
viewsAll == <<vars, viewVars>>

Places == InstanceIds \X Chars

ViewsTypeOK ==
    /\ rooms \in [Conns -> SUBSET InstanceIds]
    /\ told \in [Conns -> SUBSET Chars]
    /\ leaving \in [Places -> 0 .. MaxLeaving]
    /\ gone \subseteq Places
    /\ hidden \subseteq Places

ViewsInit ==
    /\ Init
    /\ rooms = [c \in Conns |-> {}]
    /\ told = [c \in Conns |-> {}]
    /\ leaving = [place \in Places |-> 0]
    /\ gone = {} /\ hidden = {}

(***************************************************************************)
(* Helpers                                                                 *)
(***************************************************************************)

Present(i, ch) == insts[i].at[Player(ch)] # None

\* interest.filterAround: the players within the radius of p.
Snapshot(m, p) == {ch \in Chars : m.at[Player(ch)] # None /\ Within(p, m.at[Player(ch)])}

Closed(c) == sockets[c] = "closed"

\* client.join
Joined(c, i) == [rooms EXCEPT ![c] = IF Closed(c) THEN @ ELSE @ \cup {i}]

\* Mutant: the player that enters finds itself alone.
ToldOfEntryAlone(c, ch, x) ==
    [d \in Conns |->
        CASE d = c /\ ~Closed(c)           -> {ch}
          [] d # c /\ x.inst \in rooms[d]  -> told[d] \cup {ch}
          [] OTHER                         -> told[d]]

\* ch entered from c into session x: c gets the snapshot, its room
\* ENTITY_SPAWNED.
ToldOfEntry(c, ch, x) ==
    [d \in Conns |->
        CASE d = c /\ ~Closed(c)           -> Snapshot(insts'[x.inst], x.pos)
          [] d # c /\ x.inst \in rooms[d]  -> told[d] \cup {ch}
          [] OTHER                         -> told[d]]

\* Those that no longer have the body an entry found them with, and those that
\* had lost it so before and have not come back.
Unannounced ==
    {place \in Places :
        /\ ~Present(place[1], place[2])'
        /\ Present(place[1], place[2]) \/ place \in gone}

\* The WORLD_ENTER of t got through: its socket has another session.
Entered(t) == byConn'[t.conn] \notin {byConn[t.conn], None}

(***************************************************************************)
(* Departures                                                              *)
(***************************************************************************)

\* leaveWorld.execute waits for clearPresence when there was a session, and
\* reports whether its body was removed.
AskClear(c) ==
    LET x     == sess[byConn[c]]
        place == <<x.inst, x.char>>
    IN  IF byConn[c] # None /\ Present(x.inst, x.char)
        THEN /\ leaving[place] < MaxLeaving
             /\ leaving' = [leaving EXCEPT ![place] = @ + 1]
        ELSE leaving' = leaving

\* onLeave does not take the socket out of the room.
ViewsLeave(c) == Leave(c) /\ AskClear(c) /\ UNCHANGED <<rooms, told, gone, hidden>>

\* A socket that closes is out of its rooms before handleDisconnect is called.
ViewsDisconnect(c) ==
    /\ Disconnect(c) /\ AskClear(c)
    /\ rooms' = [rooms EXCEPT ![c] = {}]
    /\ told' = [told EXCEPT ![c] = {}]
    /\ UNCHANGED <<gone, hidden>>

\* Mutant: only the sockets that play in an instance hear of it.
ToldOfDepartureToPlayers(i, ch) ==
    [c \in Conns |-> IF i \in rooms[c] /\ byConn[c] # None THEN told[c] \ {ch} ELSE told[c]]

\* ENTITY_DESPAWNED to the room of i.
ToldOfDeparture(i, ch) ==
    [c \in Conns |-> IF i \in rooms[c] THEN told[c] \ {ch} ELSE told[c]]

\* clearPresence has answered: the departure is announced, wherever the
\* character may be by now.
Despawned(i, ch) ==
    /\ leaving[<<i, ch>>] > 0
    /\ leaving' = [leaving EXCEPT ![<<i, ch>>] = @ - 1]
    /\ told' = ToldOfDeparture(i, ch)
    /\ gone' = gone \ {<<i, ch>>}
    /\ hidden' = hidden \cup {place \in Places : place[2] = ch /\ Present(place[1], ch)}
    /\ cast' = None
    /\ UNCHANGED <<opened, insts, sess, byConn, byChar, sockets, entering, moving, rooms>>

(***************************************************************************)
(* Entries, and the rest                                                   *)
(***************************************************************************)

\* An entry takes the character's former body out of the world without a word.
ViewsEnterWorld(t) ==
    /\ EnterWorld(t)
    /\ gone' = Unannounced
    /\ leaving' = leaving
    /\ \/ ~Entered(t) /\ UNCHANGED <<rooms, told, hidden>>
       \/ LET x == sess'[byConn'[t.conn]]
          IN  /\ Entered(t)
              /\ rooms' = Joined(t.conn, x.inst)
              /\ told' = ToldOfEntry(t.conn, t.char, x)
              /\ hidden' = hidden \ {<<x.inst, t.char>>}

ViewsRestart ==
    /\ Restart
    /\ rooms' = [c \in Conns |-> {}]
    /\ told' = [c \in Conns |-> {}]
    /\ leaving' = [place \in Places |-> 0]
    /\ gone' = {} /\ hidden' = {}

ViewsNext ==
    \/ \E c \in Conns : Connect(c) /\ UNCHANGED viewVars
    \/ \E c \in Conns : ViewsLeave(c) \/ ViewsDisconnect(c)
    \/ \E c \in Conns, ch \in Chars, at \in Stored : EnterRequest(c, ch, at) /\ UNCHANGED viewVars
    \/ \E t \in entering : ViewsEnterWorld(t)
    \/ \E c \in Conns, d \in Directions, q \in 1 .. MaxSequence : Move(c, d, q) /\ UNCHANGED viewVars
    \/ \E t \in moving : Moved(t) /\ UNCHANGED viewVars
    \/ \E i \in InstanceIds, ch \in Chars : Despawned(i, ch)
    \/ ResolveLaboratorySpawn /\ UNCHANGED viewVars
    \/ ViewsRestart

ViewsSpec == ViewsInit /\ [][ViewsNext]_viewsAll

(***************************************************************************)
(* Properties                                                              *)
(***************************************************************************)

\* A client in the world has been told of every player in its instance, except
\* one whose former departure was announced after it had come back: whoever
\* enters is in the snapshot or is announced to a room that all who play in
\* the instance are in, and what takes them off the list is a departure.
NobodyUnseen ==
    \A c \in Conns : sockets[c] = "open" /\ byConn[c] # None =>
        LET i == sess[byConn[c]].inst
        IN  \A ch \in Chars : Present(i, ch) => ch \in told[c] \/ <<i, ch>> \in hidden

\* A client that believes in a player that is not there is going to be told of
\* its departure, through a room that it is still in, except when the player
\* was taken over by an entry: however often the client left, entered another
\* instance or changed characters meanwhile.
NoPhantoms ==
    \A c \in Conns : \A ch \in told[c] : \E i \in rooms[c] :
        \/ Present(i, ch)
        \/ leaving[<<i, ch>>] > 0
        \/ <<i, ch>> \in gone
=============================================================================
