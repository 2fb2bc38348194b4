------------------------------- MODULE Battle -------------------------------
(***************************************************************************)
(* Wild battles and the Pokedex that records what they catch: the Battle   *)
(* aggregate, the two use cases that start it and act on it, and the rows  *)
(* of character_pokedex_entries.                                           *)
(*                                                                         *)
(* Battles live in the process: InMemoryBattleRepository hands out the     *)
(* very object it keeps, so an action is one step from `findById` to       *)
(* `save`.  The rows are PostgreSQL's: a mark is called in one step, which *)
(* dates it, and takes effect in a later one, if ever; or they are in the  *)
(* process as well, where a mark takes effect when it is called.  Requests *)
(* for a character of another account, or with an unknown move, change     *)
(* nothing.                                                                *)
(***************************************************************************)
EXTENDS Integers

CONSTANTS
    Characters,
    BaseStats,      \* the catalogue: the base stats of each species
    Pairings,       \* the species and levels that requests ask for
    Lead,           \* the Pokemon of a player who runs into a wild one
    ZoneEntries,    \* the entries of the spawn zones
    BallBonuses,    \* what clients send as ballBonus
    Battles,        \* names of battles; those lost in a restart are given again
    Visits,         \* names of the WORLD_ENTERs that mark what they see at once
    MaxDate,        \* bound on the marks called
    None

Dex == DOMAIN BaseStats
Dates == 1..MaxDate

Sides == {"player", "wild"}
StatNames == {"hp", "attack", "defense", "specialAttack", "specialDefense", "speed"}
Levelled == [dex : Dex, level : Nat \ {0}]

ASSUME BattleAssumption ==
    /\ BaseStats \in [Dex -> [StatNames -> Nat \ {0}]]
    /\ Pairings \subseteq [Sides -> Levelled]
    /\ Lead \in Levelled
    /\ ZoneEntries \subseteq [dex : Dex, minLevel : Nat \ {0}, maxLevel : Nat]
    /\ BallBonuses \subseteq Nat \ {0}
    /\ MaxDate \in Nat
    /\ None \notin Dates

VARIABLES
    inMemory,       \* the repository of the Pokedex the module is wired with, chosen once
    battle,         \* InMemoryBattleRepository.byId
    entry,          \* character_pokedex_entries of each character
    sighting,       \* what each WORLD_ENTER has yet to mark as seen
    marks,          \* markSeen and markCaught called, not yet answered
    clock,          \* the date of the next mark
    captured,       \* history: what successful captures called markCaught for
    missed          \* history: those of them that failed

vars == <<inMemory, battle, entry, sighting, marks, clock, captured, missed>>

(***************************************************************************)
(* deriveStatsFromBase and the move catalogue                              *)
(***************************************************************************)

Derived(dex, level, stat) == (2 * BaseStats[dex][stat] * level) \div 100 + 5
MaxHp(dex, level) == (2 * BaseStats[dex]["hp"] * level) \div 100 + level + 10

Tackle   == [category |-> "physical", power |-> 40, accuracy |-> 100]
VineWhip == [category |-> "physical", power |-> 45, accuracy |-> 100]
Growl    == [category |-> "status", power |-> 0, accuracy |-> 100]
\* Ember, Water Gun and Thunder Shock do the same.
Special  == [category |-> "special", power |-> 40, accuracy |-> 100]

Moves == {Tackle, Special, VineWhip, Growl}

\* The wild Pokemon that a step into a spawn zone may run into.
Encounters ==
    UNION {{[dex |-> e.dex, level |-> l] : l \in e.minLevel .. e.maxLevel} : e \in ZoneEntries}

\* Who fights whom.
Matches ==
    Pairings \cup {[s \in Sides |-> IF s = "player" THEN Lead ELSE wild] : wild \in Encounters}

(***************************************************************************)
(* The aggregate                                                           *)
(***************************************************************************)

Statuses == {"active", "won", "lost", "fled", "captured"}

Battler == [dex : Dex, level : Nat \ {0}, hp : Nat]
BattleRecord == [character : Characters, status : Statuses, side : [Sides -> Battler]]

Fresh(x) == [dex |-> x.dex, level |-> x.level, hp |-> MaxHp(x.dex, x.level)]

AtLeastOne(n) == IF n < 1 THEN 1 ELSE n

\* Mutant: HP go below zero.
ReducedBelowZero(hp, damage) == hp - damage

Reduced(hp, damage) == IF hp > damage THEN hp - damage ELSE 0

\* What a hit may do.  The formula is N / D, times a factor from 0.85 to 1.
Damages(attacker, defender, move) ==
    LET kind == move.category = "physical"
        atk  == Derived(attacker.dex, attacker.level, IF kind THEN "attack" ELSE "specialAttack")
        def  == Derived(defender.dex, defender.level, IF kind THEN "defense" ELSE "specialDefense")
        D    == 250 * AtLeastOne(def)
        N    == (2 * attacker.level + 10) * move.power * atk + 2 * D
    IN  AtLeastOne((85 * N) \div (100 * D)) .. AtLeastOne(N \div D)

Other(actor) == IF actor = "player" THEN "wild" ELSE "player"
Beats(actor) == IF actor = "player" THEN "won" ELSE "lost"

\* b after the defender has taken the damage.
Struck(b, actor, damage) ==
    LET hp == Reduced(b.side[Other(actor)].hp, damage)
    IN  [b EXCEPT !.side[Other(actor)].hp = hp,
                  !.status = IF hp = 0 THEN Beats(actor) ELSE @]

\* The battles that useMove may leave.  The statusEffect that a status move gives
\* is left out: nothing reads it.
UseMove(b, actor, move) ==
    (IF move.accuracy < 100 \/ move.category = "status" THEN {b} ELSE {}) \cup
    (IF move.category = "status" THEN {}
     ELSE {Struck(b, actor, d) : d \in Damages(b.side[actor], b.side[Other(actor)], move)})

\* Mutant: the wild Pokemon answers without a look at the status.
TurnAlwaysAnswered(b, move) ==
    UNION {UseMove(c, "wild", Tackle) : c \in UseMove(b, "player", move)}

\* Mutant: the wild Pokemon does not answer.
TurnUnanswered(b, move) == UseMove(b, "player", move)

\* A turn: the wild Pokemon answers with a tackle unless it is over.
Turn(b, move) ==
    UNION {IF c.status = "active" THEN UseMove(c, "wild", Tackle) ELSE {c} :
           c \in UseMove(b, "player", move)}

\* The threshold of each of the three shakes, out of 255.
CatchRate(wild, bonus) ==
    LET max == MaxHp(wild.dex, wild.level)
    IN  AtLeastOne(((3 * max - 2 * wild.hp) * 45 * bonus) \div (3 * max))

\* One of the shakes may fail.
MayBreakOut(wild, bonus) == CatchRate(wild, bonus) < 255

\* The battles that flee may leave: its odds are never above nine in ten.
FledOrNot(b) == {b, [b EXCEPT !.status = "fled"]}

ASSUME RecordAssumption == None \notin BattleRecord

Active(i) == battle[i] # None /\ battle[i].status = "active"

(***************************************************************************)
(* The Pokedex                                                             *)
(***************************************************************************)

Mark == [kind : {"seen", "caught"}, character : Characters, dex : Dex, at : Dates]
Entry == [seen : Dates, caught : Dates \cup {None}]

\* The species that markPokemonSeen still goes through, and the mark it awaits.
Sighting == [character : Characters, left : SUBSET Dex, awaited : Mark \cup {None}]

ASSUME EntryAssumption == None \notin Entry /\ None \notin Sighting

\* The row markSeen or markCaught inserts.
NewEntry(m) == [seen |-> m.at, caught |-> IF m.kind = "caught" THEN m.at ELSE None]

\* Mutant: the conflict overwrites the date.
LatestCatch(x, m) ==
    IF x = None THEN NewEntry(m)
    ELSE [x EXCEPT !.caught = IF m.kind = "caught" THEN m.at ELSE @]

\* Mutant: markCaught does nothing when there is a row.
ConflictIgnored(x, m) == IF x = None THEN NewEntry(m) ELSE x

\* The row x after markSeen or markCaught: on a conflict the first dates stay.
Marked(x, m) ==
    IF x = None THEN NewEntry(m)
    ELSE [x EXCEPT !.caught = IF m.kind = "caught" /\ @ = None THEN m.at ELSE @]

\* What the Pokedex answers for one species: the date of the catch.
CaughtAt(c, d) == IF entry[c][d] = None THEN None ELSE entry[c][d].caught

NoEntries == [c \in Characters |-> [d \in Dex |-> None]]

\* The row of m is marked.
Write(m) == entry' = [entry EXCEPT ![m.character][m.dex] = Marked(@, m)]

\* markSeen or markCaught is called: in memory it is done, otherwise its query leaves.
Call(m) ==
    /\ clock \in Dates
    /\ m.at = clock
    /\ clock' = clock + 1
    /\ IF inMemory THEN Write(m) /\ UNCHANGED marks
                   ELSE marks' = marks \cup {m} /\ UNCHANGED entry
    /\ UNCHANGED inMemory

KeepPokedex == UNCHANGED <<inMemory, entry, sighting, marks, clock, captured, missed>>

(***************************************************************************)
(* Actions                                                                 *)
(***************************************************************************)

TypeOK ==
    /\ inMemory \in BOOLEAN
    /\ battle \in [Battles -> BattleRecord \cup {None}]
    /\ entry \in [Characters -> [Dex -> Entry \cup {None}]]
    /\ sighting \in [Visits -> Sighting \cup {None}]
    /\ marks \subseteq Mark /\ captured \subseteq Mark /\ missed \subseteq captured
    /\ clock \in 1..(MaxDate + 1)

Init ==
    /\ inMemory \in BOOLEAN
    /\ battle = [i \in Battles |-> None]
    /\ entry = NoEntries
    /\ sighting = [v \in Visits |-> None]
    /\ marks = {} /\ captured = {} /\ missed = {}
    /\ clock = 1

\* StartWildBattle, from HTTP or after an encounter.
Start(i, c, pair) ==
    /\ battle[i] = None
    /\ battle' = [battle EXCEPT ![i] =
           [character |-> c, status |-> "active",
            side |-> [s \in Sides |-> Fresh(pair[s])]]]
    /\ KeepPokedex

\* ExecuteBattleAction: a move
Fight(i, move) ==
    /\ Active(i)
    /\ \E b \in Turn(battle[i], move) : battle' = [battle EXCEPT ![i] = b]
    /\ KeepPokedex

\* Mutant: the species is marked as caught whatever the shakes say.
AnyThrow(i, bonus) ==
    /\ Active(i)
    /\ \E m \in Mark :
          /\ m.kind = "caught" /\ m.character = battle[i].character
          /\ m.dex = battle[i].side["wild"].dex
          /\ Call(m)
          /\ \/ /\ battle' = [battle EXCEPT ![i].status = "captured"]
                /\ captured' = captured \cup {m}
             \/ UNCHANGED <<battle, captured>>
    /\ UNCHANGED <<sighting, missed>>

\* Mutant: a battle that is over can still be captured.
CaptureWhenOver(i, bonus) ==
    /\ battle[i] # None
    /\ battle' = [battle EXCEPT ![i].status = "captured"]
    /\ KeepPokedex

\* ExecuteBattleAction: a capture.  The battle is stored, then markCaught called.
Capture(i, bonus) ==
    /\ Active(i)
    /\ \/ \E m \in Mark :
             /\ m.kind = "caught" /\ m.character = battle[i].character
             /\ m.dex = battle[i].side["wild"].dex
             /\ Call(m)
             /\ captured' = captured \cup {m}
             /\ battle' = [battle EXCEPT ![i].status = "captured"]
             /\ UNCHANGED <<sighting, missed>>
       \/ /\ MayBreakOut(battle[i].side["wild"], bonus)
          /\ UNCHANGED battle /\ KeepPokedex

\* ExecuteBattleAction: an attempt to flee
Flee(i) ==
    /\ Active(i)
    /\ \E b \in FledOrNot(battle[i]) : battle' = [battle EXCEPT ![i] = b]
    /\ KeepPokedex

\* WORLD_ENTER: the wild Pokemon around are to be marked as seen, whatever other
\* WORLD_ENTERs of the character are still marking,
Sight(v, c, dexes) ==
    /\ sighting[v] = None /\ dexes # {}
    /\ sighting' = [sighting EXCEPT ![v] = [character |-> c, left |-> dexes, awaited |-> None]]
    /\ UNCHANGED <<inMemory, battle, entry, marks, clock, captured, missed>>

\* one after the other: the next once the former is answered.
MarkSeen(v, m) ==
    LET x    == sighting[v]
        left == x.left \ {m.dex}
    IN  /\ x # None /\ x.awaited \notin marks
        /\ m.kind = "seen" /\ m.character = x.character /\ m.dex \in x.left
        /\ Call(m)
        /\ sighting' = [sighting EXCEPT ![v] = IF left = {} THEN None
                                               ELSE [x EXCEPT !.left = left, !.awaited = m]]
        /\ UNCHANGED <<battle, captured, missed>>

\* The statement of m commits.
Commit(m) ==
    /\ Write(m)
    /\ marks' = marks \ {m}
    /\ UNCHANGED <<inMemory, battle, sighting, clock, captured, missed>>

\* It fails, though it may have taken effect, and the use case swallows the error.
MarkFails(m) ==
    /\ Write(m) \/ UNCHANGED entry
    /\ marks' = marks \ {m}
    /\ missed' = missed \cup ({m} \cap captured)
    /\ UNCHANGED <<inMemory, battle, sighting, clock, captured>>

\* The process restarts: battles and handlers are lost, and the Pokedex with its
\* history if it is in memory.  PostgreSQL may still commit the statements it has.
Restart ==
    /\ battle' = [i \in Battles |-> None]
    /\ sighting' = [v \in Visits |-> None]
    /\ IF inMemory THEN entry' = NoEntries /\ captured' = {} /\ missed' = {}
                   ELSE UNCHANGED <<entry, captured, missed>>
    /\ UNCHANGED <<inMemory, marks, clock>>

Act(i) ==
    \/ \E c \in Characters, pair \in Matches : Start(i, c, pair)
    \/ \E move \in Moves : Fight(i, move)
    \/ \E bonus \in BallBonuses : Capture(i, bonus)
    \/ Flee(i)

Record ==
    \/ \E v \in Visits, c \in Characters, dexes \in SUBSET Dex : Sight(v, c, dexes)
    \/ \E v \in Visits, m \in Mark : MarkSeen(v, m)
    \/ \E m \in marks : Commit(m) \/ MarkFails(m)

Next == (\E i \in Battles : Act(i)) \/ Record \/ Restart

Spec == Init /\ [][Next]_vars

(***************************************************************************)
(* Properties                                                              *)
(***************************************************************************)

Is(i, status) == battle[i] # None /\ battle[i].status = status
HpOf(i, side) == battle[i].side[side].hp

\* The outcome of a battle is that of the HP, over turns of two useMove calls of
\* which the second depends on the first: it is won exactly when the wild Pokemon
\* has none left, lost exactly when the player's has none, and never both; one
\* that has fainted is not caught and nobody flees from it.
OutcomeFitsHp ==
    \A i \in Battles : battle[i] # None =>
        /\ Is(i, "won") <=> HpOf(i, "wild") = 0
        /\ Is(i, "lost") <=> HpOf(i, "player") = 0

\* A battle that is over stays as it is, until a restart loses it: a second
\* capture or a late move finds assertActive.
OutcomeIsFinal ==
    [][\A i \in Battles : battle[i] # None /\ battle[i].status # "active" =>
          battle'[i] \in {battle[i], None}]_vars

\* No turn is free: a move that hurts the wild Pokemon and leaves the battle
\* undecided has cost the player HP too, and HP never come back.
NoFreeTurn ==
    [][\A i \in Battles : battle[i] # None /\ battle'[i] # None =>
          /\ \A s \in Sides : battle'[i].side[s].hp <= HpOf(i, s)
          /\ battle'[i].side["wild"].hp < HpOf(i, "wild") /\ battle'[i].status = "active" =>
                battle'[i].side["player"].hp < HpOf(i, "player")]_vars

\* What the Pokedex lists as caught was captured, in a battle of that character
\* against that species, at that date.
CaughtWasCaptured ==
    \A c \in Characters, d \in Dex : CaughtAt(c, d) # None =>
        \E m \in captured : m.character = c /\ m.dex = d /\ m.at = CaughtAt(c, d)

\* A captured Pokemon is in the Pokedex once markCaught is answered, seen before
\* or not, unless its statement failed.
CapturedIsCaught ==
    \A m \in captured \ (missed \cup marks) : CaughtAt(m.character, m.dex) # None

\* The first date of a sighting and that of a catch stay, in whatever order marks
\* of the same species commit; only the restart of a Pokedex in memory loses them,
\* and then all of them.
FirstDatesStay ==
    [][\/ inMemory /\ entry' = NoEntries
       \/ \A c \in Characters, d \in Dex : entry[c][d] # None =>
             /\ entry'[c][d] # None
             /\ entry'[c][d].seen = entry[c][d].seen
             /\ entry[c][d].caught # None => entry'[c][d].caught = entry[c][d].caught]_vars
=============================================================================
