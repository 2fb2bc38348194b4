---------------------------- MODULE BattleProofs ----------------------------
(***************************************************************************)
(* For any species, levels, number of battles and of characters: a battle  *)
(* ends as the HP say and then stays as it is, and the Pokedex lists as    *)
(* caught what was captured, all of it but for failed statements.          *)
(***************************************************************************)
EXTENDS Battle, TLAPS

\* What markCaught was called for was captured, and nothing else was.  In memory
\* no mark is under way.
MarksOfCaptures ==
    /\ \A m \in marks : m.kind = "caught" => m \in captured
    /\ inMemory => marks = {}

CapturesAreCatches == \A m \in captured : m.kind = "caught"

IInv == /\ TypeOK /\ OutcomeFitsHp /\ MarksOfCaptures /\ CapturesAreCatches
        /\ CaughtWasCaptured /\ CapturedIsCaught

(***************************************************************************)
(* Operators                                                               *)
(***************************************************************************)

LEMMA StatsAreNatural ==
    ASSUME NEW dex \in Dex, NEW level \in Nat \ {0}
    PROVE  /\ MaxHp(dex, level) \in Nat \ {0}
           /\ \A stat \in StatNames : Derived(dex, level, stat) \in Nat \ {0}
<1>1. \A stat \in StatNames : BaseStats[dex][stat] \in Nat
  BY BattleAssumption DEF Dex
<1>2. \A b \in Nat : 2 * b * level \in Nat
  BY SMT
<1>3. \A n \in Nat : n \div 100 \in Nat
  BY SMT
<1>4. \A stat \in StatNames : (2 * BaseStats[dex][stat] * level) \div 100 \in Nat
  BY <1>1, <1>2, <1>3
<1>5. "hp" \in StatNames
  BY DEF StatNames
<1>. QED BY <1>4, <1>5 DEF MaxHp, Derived

\* Whoever is sent to fight is of a species of the catalogue, and at level 1 at least.
LEMMA MatchLevels == Matches \subseteq [Sides -> Levelled]
<1>1. ASSUME NEW e \in ZoneEntries, NEW l \in e.minLevel .. e.maxLevel
      PROVE  [dex |-> e.dex, level |-> l] \in Levelled
  <2>1. e.dex \in Dex /\ e.minLevel \in Nat \ {0} /\ e.maxLevel \in Nat
    BY BattleAssumption
  <2>2. l \in Nat \ {0}
    BY <2>1
  <2>. QED BY <2>1, <2>2 DEF Levelled
<1>2. Encounters \subseteq Levelled
  BY <1>1 DEF Encounters
<1>. QED BY <1>2, BattleAssumption DEF Matches

\* A new battler has all its HP.
LEMMA FreshBattler ==
    ASSUME NEW pair \in Matches, NEW s \in Sides
    PROVE  Fresh(pair[s]) \in Battler /\ Fresh(pair[s]).hp > 0
<1>1. pair[s] \in [dex : Dex, level : Nat \ {0}]
  BY MatchLevels DEF Levelled
<1>2. MaxHp(pair[s].dex, pair[s].level) \in Nat \ {0}
  BY <1>1, StatsAreNatural
<1>. QED BY <1>1, <1>2 DEF Fresh, Battler

LEMMA AtLeastOneIsPositive == \A n \in Int : AtLeastOne(n) \in Nat \ {0}
BY DEF AtLeastOne

\* A hit does at least one point of damage.
LEMMA DamageIsPositive ==
    ASSUME NEW x \in Battler, NEW y \in Battler, NEW move \in Moves
    PROVE  Damages(x, y, move) \subseteq Nat \ {0}
<1>. DEFINE kind == move.category = "physical"
            atk  == Derived(x.dex, x.level, IF kind THEN "attack" ELSE "specialAttack")
            def  == Derived(y.dex, y.level, IF kind THEN "defense" ELSE "specialDefense")
            D    == 250 * AtLeastOne(def)
            N    == (2 * x.level + 10) * move.power * atk + 2 * D
<1>1. atk \in Nat /\ def \in Nat
  BY StatsAreNatural DEF Battler, StatNames
<1>2. D \in Nat \ {0}
  <2>1. AtLeastOne(def) \in Nat \ {0}
    BY <1>1, AtLeastOneIsPositive
  <2>. HIDE DEF def
  <2>. QED BY <2>1
<1>3. N \in Nat
  <2>1. (2 * x.level + 10) * move.power \in Nat
    BY DEF Battler, Moves, Tackle, VineWhip, Growl, Special
  <2>. HIDE DEF D, atk
  <2>2. \A m \in Nat : m * atk + 2 * D \in Nat
    BY <1>1, <1>2
  <2>. QED BY <2>1, <2>2
<1>. HIDE DEF N, D
<1>4. (85 * N) \div (100 * D) \in Int /\ N \div D \in Int
  BY <1>2, <1>3
<1>5. \A d \in AtLeastOne((85 * N) \div (100 * D)) .. AtLeastOne(N \div D) : d \in Nat \ {0}
  BY <1>4, AtLeastOneIsPositive
<1>6. Damages(x, y, move) = AtLeastOne((85 * N) \div (100 * D)) .. AtLeastOne(N \div D)
  BY DEF Damages, N, D
<1>. QED BY <1>5, <1>6

(***************************************************************************)
(* One battle                                                              *)
(***************************************************************************)

Hp(b, s) == b.side[s].hp

Fits(b) ==
    /\ b.status = "won" <=> Hp(b, "wild") = 0
    /\ b.status = "lost" <=> Hp(b, "player") = 0

\* A hit on somebody who has HP costs him some, and decides the battle when it
\* costs him all of them.
LEMMA StruckBattle ==
    ASSUME NEW b \in BattleRecord, b.status = "active", Fits(b),
           NEW actor \in Sides, NEW d \in Nat \ {0}
    PROVE  LET c == Struck(b, actor, d)
           IN  /\ c \in BattleRecord /\ Fits(c)
               /\ c.status \in {"active", Beats(actor)}
               /\ Hp(c, actor) = Hp(b, actor)
               /\ Hp(c, Other(actor)) < Hp(b, Other(actor))
<1>. DEFINE other == Other(actor)
            hp == Reduced(Hp(b, other), d)
            c == Struck(b, actor, d)
<1>1. other \in Sides /\ other # actor /\ Sides = {actor, other}
  BY DEF Other, Sides
<1>2. Hp(b, other) \in Nat \ {0}
  BY <1>1 DEF Fits, Hp, BattleRecord, Battler, Sides
<1>3. hp \in Nat /\ hp < Hp(b, other)
  BY <1>2 DEF Reduced
<1>. HIDE DEF hp
<1>. DEFINE side == [b.side EXCEPT ![other] = [@ EXCEPT !.hp = hp]]
            status == IF hp = 0 THEN Beats(actor) ELSE "active"
<1>4. c = [b EXCEPT !.side = side, !.status = status]
  BY DEF Struck, Hp, hp
<1>. HIDE DEF other, c
<1>5. side \in [Sides -> Battler] /\ side[other].hp = hp /\ side[actor] = b.side[actor]
  <2>1. b.side \in [Sides -> Battler]
    BY DEF BattleRecord
  <2>2. [b.side[other] EXCEPT !.hp = hp] \in Battler
    BY <1>1, <1>3, <2>1 DEF Battler
  <2>. QED BY <1>1, <2>1, <2>2 DEF Battler
<1>6. status \in Statuses
  BY DEF Beats, Statuses
<1>. HIDE DEF side, status
<1>7. c \in BattleRecord /\ c.side = side /\ c.status = status
  BY <1>4, <1>5, <1>6 DEF BattleRecord
<1>8. Hp(c, other) = hp /\ Hp(c, actor) = Hp(b, actor)
  BY <1>5, <1>7 DEF Hp
<1>9. Fits(c)
  BY <1>1, <1>3, <1>7, <1>8 DEF Fits, Beats, Other, Sides, status, other
<1>. QED BY <1>3, <1>7, <1>9, <1>8 DEF status, c, other

\* What useMove leaves: the battle as it was, when the move does no damage, or
\* the defender with less HP.
LEMMA UsedMove ==
    ASSUME NEW b \in BattleRecord, b.status = "active", Fits(b),
           NEW actor \in Sides, NEW move \in Moves, NEW c \in UseMove(b, actor, move)
    PROVE  /\ c \in BattleRecord /\ Fits(c)
           /\ c.status \in {"active", Beats(actor)}
           /\ Hp(c, actor) = Hp(b, actor)
           /\ \/ c = b /\ move # Tackle
              \/ Hp(c, Other(actor)) < Hp(b, Other(actor))
<1>1. CASE c = b /\ (move.accuracy < 100 \/ move.category = "status")
  BY <1>1 DEF Moves, Tackle, VineWhip, Growl, Special
<1>2. CASE \E d \in Damages(b.side[actor], b.side[Other(actor)], move) : c = Struck(b, actor, d)
  <2>1. b.side[actor] \in Battler /\ b.side[Other(actor)] \in Battler
    BY DEF BattleRecord, Other, Sides
  <2>2. \A d \in Damages(b.side[actor], b.side[Other(actor)], move) : d \in Nat \ {0}
    BY <2>1, DamageIsPositive
  <2>. QED BY <1>2, <2>2, StruckBattle
<1>3. \/ c = b /\ (move.accuracy < 100 \/ move.category = "status")
      \/ \E d \in Damages(b.side[actor], b.side[Other(actor)], move) : c = Struck(b, actor, d)
  BY DEF UseMove
<1>. QED BY <1>1, <1>2, <1>3

\* A turn of an active battle: HP never come back, and a wild Pokemon that was
\* hurt and is still there has answered.
LEMMA TurnTaken ==
    ASSUME NEW b \in BattleRecord, b.status = "active", Fits(b),
           NEW move \in Moves, NEW c \in Turn(b, move)
    PROVE  /\ c \in BattleRecord /\ Fits(c)
           /\ \A s \in Sides : Hp(c, s) <= Hp(b, s)
           /\ c.status = "active" => Hp(c, "player") < Hp(b, "player")
<1>. PICK a \in UseMove(b, "player", move) :
        c \in IF a.status = "active" THEN UseMove(a, "wild", Tackle) ELSE {a}
  BY DEF Turn
<1>1. /\ a \in BattleRecord /\ Fits(a) /\ Hp(a, "player") = Hp(b, "player")
      /\ a = b \/ Hp(a, "wild") < Hp(b, "wild")
  BY UsedMove DEF Sides, Other
<1>2. \A x \in BattleRecord, s \in Sides : Hp(x, s) \in Nat
  BY DEF Hp, BattleRecord, Battler
<1>3. CASE a.status # "active"
  BY <1>1, <1>2, <1>3 DEF Sides
<1>4. CASE a.status = "active"
  <2>1. Tackle \in Moves
    BY DEF Moves
  <2>2. /\ c \in BattleRecord /\ Fits(c) /\ Hp(c, "wild") = Hp(a, "wild")
        /\ Hp(c, "player") < Hp(a, "player")
    BY <1>1, <1>4, <2>1, UsedMove DEF Sides, Other
  <2>. QED BY <1>1, <1>2, <2>2 DEF Sides
<1>. QED BY <1>3, <1>4

(***************************************************************************)
(* The repository of battles                                               *)
(***************************************************************************)

\* OutcomeFitsHp and the two properties of a step, each for one battle.
LEMMA FitsEach == OutcomeFitsHp <=> \A i \in Battles : battle[i] # None => Fits(battle[i])
BY DEF OutcomeFitsHp, Fits, Hp, HpOf, Is

BattlesOK == battle \in [Battles -> BattleRecord \cup {None}] /\ OutcomeFitsHp

\* What a step may make of the battle b: a turn, or another outcome with the
\* same HP, or nothing.
Proceeds(b, c) ==
    /\ b.status # "active" => c = b
    /\ \A s \in Sides : Hp(c, s) <= Hp(b, s)
    /\ Hp(c, "wild") < Hp(b, "wild") /\ c.status = "active" => Hp(c, "player") < Hp(b, "player")

LEMMA StillProceeds == \A b \in BattleRecord : Proceeds(b, b)
BY DEF Proceeds, Hp, BattleRecord, Battler, Sides

\* One battle is replaced by what it may become.
LEMMA ReplaceBattle ==
    ASSUME BattlesOK, NEW i \in Battles, NEW c \in BattleRecord, Fits(c),
           battle[i] # None => Proceeds(battle[i], c),
           battle' = [battle EXCEPT ![i] = c]
    PROVE  /\ BattlesOK'
           /\ \A j \in Battles : battle[j] # None => battle'[j] # None /\ Proceeds(battle[j], battle'[j])
<1>1. battle' \in [Battles -> BattleRecord \cup {None}]
  BY DEF BattlesOK
<1>2. battle'[i] = c /\ \A j \in Battles \ {i} : battle'[j] = battle[j]
  BY DEF BattlesOK
<1>3. \A j \in Battles : battle'[j] # None => Fits(battle'[j])
  BY <1>2, FitsEach DEF BattlesOK
<1>4. OutcomeFitsHp'
  BY <1>3 DEF OutcomeFitsHp, Fits, Hp, HpOf, Is
<1>5. \A j \in Battles : battle[j] # None => battle'[j] # None /\ Proceeds(battle[j], battle'[j])
  BY <1>2, RecordAssumption, StillProceeds DEF BattlesOK
<1>. QED BY <1>1, <1>4, <1>5 DEF BattlesOK

\* An outcome that is not a matter of HP.
LEMMA OtherOutcome ==
    ASSUME NEW b \in BattleRecord, b.status = "active", Fits(b),
           NEW status \in {"captured", "fled"}
    PROVE  LET c == [b EXCEPT !.status = status]
           IN  c \in BattleRecord /\ Fits(c) /\ Proceeds(b, c)
<1>. DEFINE c == [b EXCEPT !.status = status]
<1>1. c \in BattleRecord /\ c.status = status /\ c.side = b.side
  BY DEF BattleRecord, Statuses
<1>2. \A s \in Sides : Hp(b, s) \in Nat
  BY DEF Hp, BattleRecord, Battler
<1>. HIDE DEF c
<1>3. Fits(c) /\ Proceeds(b, c)
  BY <1>1, <1>2 DEF Fits, Proceeds, Hp, Sides
<1>. QED BY <1>1, <1>3 DEF c

LEMMA StartedBattle ==
    ASSUME NEW c \in Characters, NEW pair \in Matches
    PROVE  LET b == [character |-> c, status |-> "active", side |-> [s \in Sides |-> Fresh(pair[s])]]
           IN  b \in BattleRecord /\ Fits(b)
<1>. DEFINE side == [s \in Sides |-> Fresh(pair[s])]
            b == [character |-> c, status |-> "active", side |-> side]
<1>1. side \in [Sides -> Battler] /\ \A s \in Sides : side[s].hp # 0
  BY FreshBattler DEF Battler
<1>. HIDE DEF side
<1>2. b \in BattleRecord /\ Fits(b)
  BY <1>1 DEF BattleRecord, Statuses, Fits, Hp, Sides
<1>. QED BY <1>2 DEF side

\* A step keeps the battles right; each proceeds as it may, unless all are lost.
LEMMA BattlesStep ==
    ASSUME BattlesOK, [Next]_vars
    PROVE  /\ BattlesOK'
           /\ \/ \A i \in Battles : battle[i] # None =>
                     battle'[i] # None /\ Proceeds(battle[i], battle'[i])
              \/ \A i \in Battles : battle'[i] = None
<1>. DEFINE Goal ==
        /\ BattlesOK'
        /\ \/ \A i \in Battles : battle[i] # None =>
                  battle'[i] # None /\ Proceeds(battle[i], battle'[i])
           \/ \A i \in Battles : battle'[i] = None
<1>1. CASE UNCHANGED battle
  BY <1>1, StillProceeds DEF BattlesOK, OutcomeFitsHp, Is, HpOf
<1>2. ASSUME NEW i \in Battles, NEW c \in Characters, NEW pair \in Matches, Start(i, c, pair)
      PROVE  Goal
  BY <1>2, StartedBattle, ReplaceBattle DEF Start
<1>3. ASSUME NEW i \in Battles, NEW move \in Moves, Fight(i, move)
      PROVE  Goal
  <2>1. battle[i] \in BattleRecord /\ battle[i].status = "active" /\ Fits(battle[i])
    BY <1>3, FitsEach DEF Fight, Active, BattlesOK
  <2>2. PICK b \in Turn(battle[i], move) : battle' = [battle EXCEPT ![i] = b]
    BY <1>3 DEF Fight
  <2>3. b \in BattleRecord /\ Fits(b) /\ Proceeds(battle[i], b)
    BY <2>1, TurnTaken DEF Proceeds
  <2>. QED BY <2>2, <2>3, ReplaceBattle
<1>4. ASSUME NEW i \in Battles, NEW status \in {"captured", "fled"}, Active(i),
             battle' = [battle EXCEPT ![i].status = status]
      PROVE  Goal
  <2>1. battle[i] \in BattleRecord /\ battle[i].status = "active" /\ Fits(battle[i])
    BY <1>4, FitsEach DEF Active, BattlesOK
  <2>. QED BY <1>4, <2>1, OtherOutcome, ReplaceBattle
<1>5. CASE Restart
  BY <1>5, RecordAssumption DEF Restart, BattlesOK, OutcomeFitsHp, Is
<1>6. ASSUME NEW i \in Battles, Flee(i)
      PROVE  Goal
  <2>1. Active(i) /\ (UNCHANGED battle \/ battle' = [battle EXCEPT ![i].status = "fled"])
    BY <1>6, RecordAssumption DEF Flee, FledOrNot, BattlesOK
  <2>. QED BY <1>1, <1>4, <2>1
<1>. QED
  BY <1>1, <1>2, <1>3, <1>4, <1>5, <1>6
  DEF Next, Act, Record, vars, Capture, Sight, MarkSeen, Commit, MarkFails

(***************************************************************************)
(* The Pokedex                                                             *)
(***************************************************************************)

\* A mark keeps the dates there are; that of a catch leaves a date of a catch,
\* its own or one there was.
LEMMA MarkedRow ==
    ASSUME NEW x \in Entry \cup {None}, NEW m \in Mark
    PROVE  LET y == Marked(x, m)
           IN  /\ y \in Entry /\ y # None
               /\ x # None => /\ y.seen = x.seen
                              /\ x.caught # None => y.caught = x.caught
               /\ m.kind = "caught" => y.caught # None
               /\ \/ y.caught = None
                  \/ m.kind = "caught" /\ y.caught = m.at
                  \/ x # None /\ y.caught = x.caught
<1>1. NewEntry(m) \in Entry
  BY DEF NewEntry, Entry, Mark
<1>2. CASE x = None
  BY <1>1, <1>2, EntryAssumption, BattleAssumption DEF Marked, NewEntry, Entry, Mark
<1>3. CASE x # None
  BY <1>3, EntryAssumption, BattleAssumption DEF Marked, Entry, Mark
<1>. QED BY <1>2, <1>3

PokedexOK ==
    /\ inMemory \in BOOLEAN
    /\ entry \in [Characters -> [Dex -> Entry \cup {None}]]
    /\ sighting \in [Visits -> Sighting \cup {None}]
    /\ marks \subseteq Mark /\ captured \subseteq Mark /\ missed \subseteq captured
    /\ clock \in 1..(MaxDate + 1)
    /\ MarksOfCaptures /\ CapturesAreCatches /\ CaughtWasCaptured /\ CapturedIsCaught

LEMMA TypeParts ==
    /\ IInv <=> BattlesOK /\ PokedexOK
    /\ IInv' <=> BattlesOK' /\ PokedexOK'
BY DEF IInv, TypeOK, BattlesOK, PokedexOK

\* The dates that are there stay.
DatesStay ==
    \A c \in Characters, d \in Dex : entry[c][d] # None =>
        /\ entry'[c][d] # None
        /\ entry'[c][d].seen = entry[c][d].seen
        /\ entry[c][d].caught # None => entry'[c][d].caught = entry[c][d].caught

\* A mark that takes effect, at its call, when its statement commits or although it
\* fails: it is that of a capture or of a sighting.
LEMMA RowMarked ==
    ASSUME PokedexOK, NEW m \in Mark, Write(m), UNCHANGED inMemory,
           m.kind = "caught" => m \in captured',
           \/ UNCHANGED captured
           \/ m.kind = "caught" /\ captured' = captured \cup {m},
           marks' \subseteq marks, marks \ {m} \subseteq marks',
           missed' \subseteq captured', missed \subseteq missed',
           sighting' \in [Visits -> Sighting \cup {None}], clock' \in 1..(MaxDate + 1)
    PROVE  PokedexOK' /\ DatesStay
<1>. DEFINE c == m.character
            d == m.dex
            y == Marked(entry[c][d], m)
<1>1. m \in Mark /\ c \in Characters /\ d \in Dex
  BY DEF Mark
<1>2. entry[c][d] \in Entry \cup {None}
  BY <1>1 DEF PokedexOK
<1>3. /\ entry'[c][d] = y
      /\ \A a \in Characters, b \in Dex : <<a, b>> # <<c, d>> => entry'[a][b] = entry[a][b]
  BY <1>1 DEF PokedexOK, Write
<1>4. y \in Entry
  BY <1>1, <1>2, MarkedRow
<1>5. entry' \in [Characters -> [Dex -> Entry \cup {None}]]
  BY <1>1, <1>4 DEF PokedexOK, Write
<1>6. DatesStay
  <2>1. entry[c][d] # None => /\ y # None /\ y.seen = entry[c][d].seen
                              /\ entry[c][d].caught # None => y.caught = entry[c][d].caught
    BY <1>1, <1>2, MarkedRow
  <2>. HIDE DEF y, c, d
  <2>. QED BY <1>3, <2>1 DEF DatesStay
<1>7. MarksOfCaptures' /\ CapturesAreCatches'
  BY DEF MarksOfCaptures, CapturesAreCatches, PokedexOK
<1>8. CaughtWasCaptured'
  <2>1. \/ y.caught = None
        \/ m \in captured' /\ y.caught = m.at
        \/ entry[c][d] # None /\ y.caught = entry[c][d].caught
    BY <1>1, <1>2, MarkedRow
  <2>2. y.caught # None => \E n \in captured' : n.character = c /\ n.dex = d /\ n.at = y.caught
    BY <1>1, <2>1 DEF PokedexOK, CaughtWasCaptured, CaughtAt
  <2>. HIDE DEF y, c, d
  <2>. QED BY <1>1, <1>3, <2>2 DEF PokedexOK, CaughtWasCaptured, CaughtAt
<1>9. CapturedIsCaught'
  <2>1. m.kind = "caught" => y # None /\ y.caught # None
    BY <1>1, <1>2, MarkedRow
  <2>2. ASSUME NEW n \in captured' \ (missed' \cup marks')
        PROVE  entry'[n.character][n.dex] # None /\ entry'[n.character][n.dex].caught # None
    <3>1. n.character \in Characters /\ n.dex \in Dex /\ n.kind \in {"seen", "caught"}
      BY DEF PokedexOK, Mark
    <3>2. CASE n = m
      BY <1>3, <1>7, <2>1, <3>2 DEF CapturesAreCatches
    <3>3. CASE n # m
      BY <1>6, <3>1, <3>3 DEF PokedexOK, CapturedIsCaught, CaughtAt, DatesStay
    <3>. QED BY <3>2, <3>3
  <2>. QED BY <2>2 DEF CapturedIsCaught, CaughtAt
<1>. QED BY <1>5, <1>6, <1>7, <1>8, <1>9 DEF PokedexOK

\* A call, and any step that leaves the rows alone.
LEMMA RowsLeft ==
    ASSUME PokedexOK, UNCHANGED <<inMemory, entry>>,
           sighting' \in [Visits -> Sighting \cup {None}],
           clock' \in 1..(MaxDate + 1),
           \/ UNCHANGED <<marks, captured, missed>>
           \/ /\ ~inMemory /\ UNCHANGED missed
              /\ \E m \in Mark :
                    /\ marks' = marks \cup {m}
                    /\ \/ m.kind = "caught" /\ captured' = captured \cup {m}
                       \/ m.kind = "seen" /\ UNCHANGED captured
           \/ /\ UNCHANGED captured
              /\ \E m \in marks : marks' = marks \ {m} /\ missed' = missed \cup ({m} \cap captured)
    PROVE  PokedexOK' /\ DatesStay
<1>1. marks' \subseteq Mark /\ captured' \subseteq Mark /\ missed' \subseteq captured'
  BY DEF PokedexOK
<1>2. MarksOfCaptures' /\ CapturesAreCatches'
  BY DEF PokedexOK, MarksOfCaptures, CapturesAreCatches
<1>3. captured \subseteq captured' /\ captured' \ (missed' \cup marks') \subseteq captured \ (missed \cup marks)
  OBVIOUS
<1>4. CaughtWasCaptured' /\ CapturedIsCaught'
  BY <1>3 DEF PokedexOK, CaughtWasCaptured, CapturedIsCaught, CaughtAt
<1>5. DatesStay
  BY DEF DatesStay
<1>. QED BY <1>1, <1>2, <1>4, <1>5 DEF PokedexOK

\* A step keeps the rows right; the dates stay, unless all are lost.
LEMMA PokedexStep ==
    ASSUME PokedexOK, [Next]_vars
    PROVE  PokedexOK' /\ (DatesStay \/ (inMemory /\ entry' = NoEntries))
<1>. DEFINE Goal == PokedexOK' /\ DatesStay
<1>1. ASSUME UNCHANGED <<inMemory, entry, sighting, marks, clock, captured, missed>>
      PROVE  Goal
  BY <1>1, RowsLeft DEF PokedexOK
<1>2. ASSUME NEW m \in Mark, Call(m),
             sighting' \in [Visits -> Sighting \cup {None}], UNCHANGED missed,
             \/ m.kind = "caught" /\ captured' = captured \cup {m}
             \/ m.kind = "seen" /\ UNCHANGED captured
      PROVE  Goal
  <2>1. clock' \in 1..(MaxDate + 1) /\ UNCHANGED inMemory
    BY <1>2, BattleAssumption DEF Call, Dates
  <2>2. missed' \subseteq captured' /\ (m.kind = "caught" => m \in captured')
    BY <1>2 DEF PokedexOK
  <2>3. CASE inMemory
    <3>1. Write(m) /\ UNCHANGED marks
      BY <1>2, <2>3 DEF Call
    <3>. QED BY <1>2, <2>1, <2>2, <3>1, RowMarked
  <2>4. CASE ~inMemory
    <3>1. marks' = marks \cup {m} /\ UNCHANGED entry
      BY <1>2, <2>4 DEF Call
    <3>. QED BY <1>2, <2>1, <2>4, <3>1, RowsLeft
  <2>. QED BY <2>3, <2>4
<1>3. ASSUME NEW i \in Battles, NEW bonus \in BallBonuses, Capture(i, bonus)
      PROVE  Goal
  <2>1. CASE UNCHANGED <<inMemory, entry, sighting, marks, clock, captured, missed>>
    BY <1>1, <2>1
  <2>2. ASSUME NEW m \in Mark, m.kind = "caught", Call(m), captured' = captured \cup {m},
               UNCHANGED <<sighting, missed>>
        PROVE  Goal
    BY <1>2, <2>2 DEF PokedexOK
  <2>. QED BY <1>3, <2>1, <2>2 DEF Capture, KeepPokedex
<1>4. ASSUME NEW v \in Visits, NEW c \in Characters, NEW dexes \in SUBSET Dex, Sight(v, c, dexes)
      PROVE  Goal
  <2>1. sighting' \in [Visits -> Sighting \cup {None}]
    BY <1>4 DEF Sight, Sighting, PokedexOK
  <2>. QED BY <1>4, <2>1, RowsLeft DEF Sight, PokedexOK
<1>5. ASSUME NEW v \in Visits, NEW m \in Mark, MarkSeen(v, m)
      PROVE  Goal
  <2>. DEFINE x == sighting[v]
              y == [x EXCEPT !.left = x.left \ {m.dex}, !.awaited = m]
  <2>1. x \in Sighting
    BY <1>5 DEF MarkSeen, PokedexOK
  <2>2. y \in Sighting
    BY <2>1 DEF Sighting
  <2>3. \E z \in {None, y} : sighting' = [sighting EXCEPT ![v] = z]
    BY <1>5 DEF MarkSeen
  <2>. HIDE DEF y
  <2>4. sighting' \in [Visits -> Sighting \cup {None}]
    BY <2>2, <2>3 DEF PokedexOK
  <2>5. m.kind = "seen" /\ Call(m) /\ UNCHANGED <<captured, missed>>
    BY <1>5 DEF MarkSeen
  <2>. QED BY <1>2, <2>4, <2>5
<1>6. ASSUME NEW m \in marks, Commit(m)
      PROVE  Goal
  <2>1. m \in Mark /\ (m.kind = "caught" => m \in captured)
    BY DEF PokedexOK, MarksOfCaptures
  <2>. QED BY <1>6, <2>1, RowMarked DEF Commit, PokedexOK
<1>7. ASSUME NEW m \in marks, MarkFails(m)
      PROVE  Goal
  <2>1. m \in Mark /\ (m.kind = "caught" => m \in captured)
    BY DEF PokedexOK, MarksOfCaptures
  <2>2. CASE UNCHANGED entry
    BY <1>7, <2>2, RowsLeft DEF MarkFails, PokedexOK
  <2>3. CASE Write(m)
    BY <1>7, <2>1, <2>3, RowMarked DEF MarkFails, PokedexOK
  <2>. QED BY <1>7, <2>2, <2>3 DEF MarkFails
<1>8. CASE Restart
  <2>1. CASE inMemory
    <3>1. /\ entry' = NoEntries /\ captured' = {} /\ missed' = {}
          /\ UNCHANGED <<inMemory, marks, clock>> /\ sighting' = [v \in Visits |-> None]
      BY <1>8, <2>1 DEF Restart
    <3>2. \A c \in Characters, d \in Dex : entry'[c][d] = None
      BY <3>1 DEF NoEntries
    <3>3. entry' \in [Characters -> [Dex -> Entry \cup {None}]]
      BY <3>1 DEF NoEntries
    <3>4. marks = {}
      BY <2>1 DEF PokedexOK, MarksOfCaptures
    <3>5. MarksOfCaptures' /\ CapturesAreCatches' /\ CaughtWasCaptured' /\ CapturedIsCaught'
      BY <3>1, <3>2, <3>4 DEF MarksOfCaptures, CapturesAreCatches, CaughtWasCaptured, CapturedIsCaught, CaughtAt
    <3>. QED BY <2>1, <3>1, <3>3, <3>5 DEF PokedexOK
  <2>2. CASE ~inMemory
    BY <1>8, <2>2, RowsLeft DEF Restart, PokedexOK
  <2>. QED BY <2>1, <2>2
<1>. QED
  BY <1>1, <1>3, <1>4, <1>5, <1>6, <1>7, <1>8
  DEF Next, Act, Record, vars, Start, Fight, Flee, KeepPokedex

(***************************************************************************)
(* Theorems                                                                *)
(***************************************************************************)

LEMMA Initially == Init => IInv
BY BattleAssumption
   DEF Init, NoEntries, IInv, TypeOK, OutcomeFitsHp, Is, MarksOfCaptures, CapturesAreCatches,
       CaughtWasCaptured, CapturedIsCaught, CaughtAt

LEMMA Inductive == IInv /\ [Next]_vars => IInv'
BY TypeParts, BattlesStep, PokedexStep

\* In every reachable state the outcome of each battle fits the HP of its two
\* sides, and battles, captures and the Pokedex agree on what was caught.
THEOREM Invariant == Spec => []IInv
BY Initially, Inductive, PTL DEF Spec

\* Every variable keeps its type: HP are natural numbers, and the failed marks of
\* catches are among the captures.
THEOREM TypeCorrect == Spec => []TypeOK
BY Invariant, PTL DEF IInv

\* Whatever the species and levels, a battle is won or lost as the HP say, and it
\* is never both.
THEOREM Outcome == Spec => []OutcomeFitsHp
BY Invariant, PTL DEF IInv

\* Whatever the Pokedex lists as caught was captured, at that date.
THEOREM CaughtByCapture == Spec => []CaughtWasCaptured
BY Invariant, PTL DEF IInv

\* Every capture is in the Pokedex, but for those whose mark is under way or whose
\* statement failed.
THEOREM CapturesListed == Spec => []CapturedIsCaught
BY Invariant, PTL DEF IInv

\* A battle that is over stays as it is.
THEOREM Final == Spec => OutcomeIsFinal
<1>1. IInv /\ [Next]_vars =>
        [\A i \in Battles : battle[i] # None /\ battle[i].status # "active" =>
            battle'[i] \in {battle[i], None}]_vars
  BY TypeParts, BattlesStep DEF Proceeds
<1>. QED BY <1>1, Invariant, PTL DEF Spec, OutcomeIsFinal

\* No HP come back, and no hit that leaves a battle undecided is free.
THEOREM EveryTurnCosts == Spec => NoFreeTurn
<1>1. IInv /\ [Next]_vars =>
        [\A i \in Battles : battle[i] # None /\ battle'[i] # None =>
          /\ \A s \in Sides : battle'[i].side[s].hp <= HpOf(i, s)
          /\ battle'[i].side["wild"].hp < HpOf(i, "wild") /\ battle'[i].status = "active" =>
                battle'[i].side["player"].hp < HpOf(i, "player")]_vars
  BY TypeParts, BattlesStep DEF Proceeds, Hp, HpOf
<1>. QED BY <1>1, Invariant, PTL DEF Spec, NoFreeTurn

\* The first dates of the Pokedex stay.
THEOREM FirstDates == Spec => FirstDatesStay
<1>1. IInv /\ [Next]_vars =>
        [\/ inMemory /\ entry' = NoEntries
         \/ \A c \in Characters, d \in Dex : entry[c][d] # None =>
              /\ entry'[c][d] # None
              /\ entry'[c][d].seen = entry[c][d].seen
              /\ entry[c][d].caught # None => entry'[c][d].caught = entry[c][d].caught]_vars
  BY TypeParts, PokedexStep DEF DatesStay
<1>. QED BY <1>1, Invariant, PTL DEF Spec, FirstDatesStay
=============================================================================
