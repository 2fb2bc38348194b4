----------------------------- MODULE WorldStore -----------------------------
(***************************************************************************)
(* The world server together with the row of `character_world_state` in    *)
(* which the position of a character survives it.  WORLD_ENTER reads the   *)
(* row; an accepted MOVE and every departure ask for it to be overwritten. *)
(* Every save is a transaction on a pool connection of its own, so saves   *)
(* that are under way finish in any order.                                 *)
(***************************************************************************)
EXTENDS World

CONSTANTS
    MaxSaves        \* bound: saves under way at once

ASSUME StoreAssumption == MaxSaves \in Nat \ {0}

VARIABLES
    saved,          \* the stored position of each character
    saving,         \* saves under way
    recent,         \* history: see WriteOf
    lost            \* history: the characters whose latest save to end has failed

storeVars == <<saved, saving, recent, lost>>
allVars == <<vars, storeVars>>

SaveTask == [conn : Conns, char : Chars, pos : Tiles]
Slots == 1 .. MaxSaves

ASSUME SavingAssumption == None \notin SaveTask

StoreInit ==
    /\ Init
    /\ saved \in [Chars -> Stored]
    /\ saving = [n \in Slots |-> None]
    /\ recent = [ch \in Chars |-> {saved[ch]}]
    /\ lost = {}

\* The positions about to be written: those of the MOVEs whose presence is
\* being published, and of the saves under way.
Writes ==
    {[conn |-> t.conn, char |-> t.char, pos |-> t.pos] : t \in moving}
        \cup {saving[n] : n \in {k \in Slots : saving[k] # None}}

\* The position p of ch is to be written from now on.  The row may end up with
\* it, or with any position it overlaps, never with one written before.
WriteOf(ch, p) ==
    recent' = [recent EXCEPT ![ch] = {p} \cup {w.pos : w \in {v \in Writes : v.char = ch}}]

\* saveWorldState.execute is called for the position p.
AskSave(c, ch, p) ==
    LET free == {n \in Slots : saving[n] = None}
    IN  /\ free # {}
        /\ saving' = [saving EXCEPT ![CHOOSE n \in free : \A k \in free : n <= k] =
                        [conn |-> c, char |-> ch, pos |-> p]]

\* Mutant: nothing is saved on departure.
SaveNothingOnLeave(c) ==
    /\ UNCHANGED <<saved, lost, saving>>
    /\ IF byConn[c] = None THEN UNCHANGED recent
       ELSE WriteOf(sess[byConn[c]].char, sess[byConn[c]].pos)

\* The departing player's position, when there is a session to depart from.  The
\* save is under way from here on: it waits for clearPresence first, and then
\* for the database.
SaveOnLeave(c) ==
    /\ UNCHANGED <<saved, lost>>
    /\ \/ byConn[c] = None /\ UNCHANGED <<saving, recent>>
       \/ LET s == sess[byConn[c]]
          IN  /\ byConn[c] # None
              /\ AskSave(c, s.char, s.pos)
              /\ WriteOf(s.char, s.pos)

StoredLeave(c) == Leave(c) /\ SaveOnLeave(c)

StoredDisconnect(c) == Disconnect(c) /\ SaveOnLeave(c)

StoredEnterRequest(c, ch) == EnterRequest(c, ch, saved[ch]) /\ UNCHANGED storeVars

StoredMove(c, d, q) ==
    /\ Move(c, d, q)
    /\ IF moving' = moving THEN UNCHANGED recent
       ELSE WriteOf(sess[byConn[c]].char, sess'[byConn[c]].pos)
    /\ UNCHANGED <<saved, saving, lost>>

\* onMove saves the position the MOVE led to, not the one the session has by now.
StoredMoved(t) ==
    /\ Moved(t) /\ AskSave(t.conn, t.char, t.pos)
    /\ UNCHANGED <<saved, recent, lost>>

\* The transaction commits ...
Save(n) ==
    /\ saving[n] # None
    /\ saved' = [saved EXCEPT ![saving[n].char] = saving[n].pos]
    /\ saving' = [saving EXCEPT ![n] = None]
    /\ lost' = lost \ {saving[n].char}
    /\ cast' = None
    /\ UNCHANGED <<opened, insts, sess, byConn, byChar, sockets, entering, moving, recent>>

\* ... or is rolled back: the error is logged, or answered to the MOVE.
SaveFails(n) ==
    /\ saving[n] # None
    /\ saving' = [saving EXCEPT ![n] = None]
    /\ lost' = lost \cup {saving[n].char}
    /\ cast' = None
    /\ UNCHANGED <<opened, insts, sess, byConn, byChar, sockets, entering, moving, saved, recent>>

\* What was not committed is lost with the process.
StoredRestart ==
    /\ Restart
    /\ saving' = [n \in Slots |-> None]
    /\ recent' = [ch \in Chars |-> {saved[ch]}]
    /\ lost' = {}
    /\ UNCHANGED saved

StoreNext ==
    \/ \E c \in Conns : Connect(c) /\ UNCHANGED storeVars
    \/ \E c \in Conns : StoredLeave(c) \/ StoredDisconnect(c)
    \/ \E c \in Conns, ch \in Chars : StoredEnterRequest(c, ch)
    \/ \E t \in entering : EnterWorld(t) /\ UNCHANGED storeVars
    \/ \E c \in Conns, d \in Directions, q \in 1 .. MaxSequence : StoredMove(c, d, q)
    \/ \E t \in moving : StoredMoved(t)
    \/ \E n \in Slots : Save(n) \/ SaveFails(n)
    \/ StoredRestart

StoreSpec == StoreInit /\ [][StoreNext]_allVars

(***************************************************************************)
(* Properties                                                              *)
(***************************************************************************)

\* Once no save of a character is under way, its row holds the position of its
\* latest accepted MOVE or departure, or one whose write that one overlapped,
\* whichever sockets they came from; a failed save is made good by the next.
PersistsLatest ==
    \A ch \in Chars \ lost :
        (\A w \in Writes : w.char # ch) => saved[ch] \in recent[ch]

\* What is saved on departure is where the body of the character stands: a
\* socket whose character has been taken over saves nothing when it goes, be it
\* while the new session is entering, playing or gone.
DepartureSavesTheBody ==
    [][\A n \in Slots :
        LET w == saving'[n]
        IN  w # None /\ w # saving[n] /\ moving' = moving =>
                /\ byChar[w.char] # None /\ sess[byChar[w.char]].conn = w.conn
                /\ insts[sess[byChar[w.char]].inst].at[Player(w.char)] = w.pos]_allVars
=============================================================================
