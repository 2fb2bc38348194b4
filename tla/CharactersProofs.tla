-------------------------- MODULE CharactersProofs --------------------------
(***************************************************************************)
(* For any number of accounts, servers, names and requests served at once, *)
(* over either repository: whoever reads a character finds its world state *)
(* with it, the characters of an account and those of a name are limited   *)
(* as CheckThenAct says, and PostgreSQL holds each spelling of a name once *)
(* on a server.                                                            *)
(***************************************************************************)
EXTENDS Characters, FiniteSetTheorems, TLAPS

(***************************************************************************)
(* The inductive invariant                                                 *)
(***************************************************************************)

\* The character a handler has inserted, but not committed, is nobody else's and
\* has its world state.
Uncommitted ==
    /\ \A h \in Handlers : task[h] # None =>
          /\ task[h].step \in {"save", "world", "commit"} => task[h].of.world # None
          /\ task[h].step \in {"world", "commit"} => task[h].id \in born /\ stored[task[h].id] = None
    /\ \A g, h \in Handlers :
          /\ task[g] # None /\ task[g].step \in {"world", "commit"}
          /\ task[h] # None /\ task[h].step \in {"world", "commit"}
          /\ task[g].id = task[h].id
          => g = h

CreationInv == TypeOK /\ Uncommitted

LEMMA TaskFields ==
    ASSUME NEW t \in Task
    PROVE  /\ t # None /\ t.of \in Character
           /\ t.of.account \in Accounts /\ t.of.server \in Servers /\ t.of.name \in Names
           /\ t.of.world \in Spawns \cup {None}
           /\ t.step \in {"count", "name", "spawn", "save", "world", "commit"}
           /\ t.step \in {"world", "commit"} => t.id \in Ids
BY NoneAssumption DEF Task, Character

LEMMA TaskOf ==
    ASSUME TypeOK, NEW h \in Handlers, task[h] # None
    PROVE  task[h] \in Task
BY DEF TypeOK

(***************************************************************************)
(* What a step does                                                        *)
(***************************************************************************)

\* What the step of a handler does: it begins, it goes on with the same character,
\* or it ends, with its character stored or not.
Begins(h) ==
    /\ task[h] = None /\ UNCHANGED <<stored, born>>
    /\ \E t \in Task : t.step = "count" /\ Goto(h, t)

GoesOn(h, steps, next) ==
    /\ task[h] # None /\ task[h].step \in steps
    /\ \E t \in Task :
          /\ t.step \in next /\ Goto(h, t)
          /\ t.of.account = task[h].of.account /\ t.of.server = task[h].of.server
          /\ t.of.name = task[h].of.name
          /\ t.step \in {"save", "world", "commit"} => t.of.world # None
          /\ t.step \in {"world", "commit"} =>
                \/ task[h].step \in {"world", "commit"} /\ t.id = task[h].id /\ UNCHANGED born
                \/ t.id \in Ids \ born /\ born' = born \cup {t.id}
          /\ t.step \notin {"world", "commit"} => UNCHANGED born
    /\ UNCHANGED stored

Ends(h) == task[h] # None /\ Goto(h, None) /\ UNCHANGED <<stored, born>>

Stores(h) ==
    /\ task[h] # None /\ task[h].step \in {"save", "commit"}
    /\ Goto(h, None)
    /\ \E i \in Ids :
          /\ stored[i] = None /\ stored' = [stored EXCEPT ![i] = task[h].of]
          /\ \/ task[h].step = "save" /\ i \notin born /\ born' = born \cup {i}
             \/ task[h].step = "commit" /\ i = task[h].id /\ born' = born

LEMMA StepEffect ==
    ASSUME CreationInv, NEW h \in Handlers, Step(h)
    PROVE  \/ GoesOn(h, {"count"}, {"name"}) /\ BelowLimit(task[h].of.account)
           \/ GoesOn(h, {"name"}, {"spawn"}) /\ ~NameTaken(task[h].of)
           \/ GoesOn(h, {"spawn", "save", "world"}, {"save", "world", "commit"})
           \/ Ends(h) \/ Stores(h)
<1>. USE DEF CreationInv
<1>1. task[h] # None /\ task[h] \in Task /\ task[h].of \in Character
  BY TaskOf, TaskFields DEF Step, Count, CheckName, ResolveSpawn, SaveInMemory, Insert,
     InsertWorldState, Commit, At
<1>2. CASE Count(h)
  <2>1. CASE BelowLimit(task[h].of.account) /\ Goto(h, [task[h] EXCEPT !.step = "name"])
    <3>. DEFINE t == [task[h] EXCEPT !.step = "name"]
    <3>1. t \in Task /\ t.step = "name" /\ t.of = task[h].of
      BY <1>1, <1>2 DEF Task, Count, At
    <3>. HIDE DEF t
    <3>2. GoesOn(h, {"count"}, {"name"})
      BY <1>1, <1>2, <2>1, <3>1 DEF GoesOn, Count, At, SameCharacters, t
    <3>. QED BY <2>1, <3>2
  <2>. QED BY <1>2, <2>1 DEF Count, At, Ends, SameCharacters
<1>3. CASE CheckName(h)
  <2>1. CASE ~NameTaken(task[h].of) /\ Goto(h, [task[h] EXCEPT !.step = "spawn"])
    <3>. DEFINE t == [task[h] EXCEPT !.step = "spawn"]
    <3>1. t \in Task /\ t.step = "spawn" /\ t.of = task[h].of
      BY <1>1, <1>3 DEF Task, CheckName, At
    <3>. HIDE DEF t
    <3>2. GoesOn(h, {"name"}, {"spawn"})
      BY <1>1, <1>3, <2>1, <3>1 DEF GoesOn, CheckName, At, SameCharacters, t
    <3>. QED BY <2>1, <3>2
  <2>. QED BY <1>3, <2>1 DEF CheckName, At, Ends, SameCharacters
<1>4. CASE ResolveSpawn(h)
  <2>1. ASSUME NEW p \in Spawns, Goto(h, [task[h] EXCEPT !.step = "save", !.of.world = p])
        PROVE  GoesOn(h, {"spawn", "save", "world"}, {"save", "world", "commit"})
    <3>. DEFINE t == [task[h] EXCEPT !.step = "save", !.of.world = p]
    <3>1. task[h] \in [step : {"count", "name", "spawn", "save"}, of : Character]
      BY <1>1, <1>4 DEF Task, ResolveSpawn, At
    <3>2. t \in [step : {"count", "name", "spawn", "save"}, of : Character]
      BY <3>1 DEF Character
    <3>3. /\ t.step = "save" /\ t.of.account = task[h].of.account
          /\ t.of.server = task[h].of.server /\ t.of.name = task[h].of.name /\ t.of.world = p
      BY <3>1 DEF Character
    <3>4. t \in Task /\ p # None
      BY <3>2, CharactersAssumption DEF Task
    <3>. HIDE DEF t
    <3>. QED BY <1>1, <1>4, <2>1, <3>3, <3>4 DEF GoesOn, ResolveSpawn, At, SameCharacters, t
  <2>. QED BY <1>4, <2>1 DEF ResolveSpawn, At, Ends, SameCharacters
<1>5. CASE SaveInMemory(h)
  <2>1. \A i \in Ids \ born : stored[i] = None
    BY DEF TypeOK
  <2>. QED BY <1>1, <1>5, <2>1 DEF SaveInMemory, At, Stores
<1>6. CASE Insert(h)
  <2>1. ASSUME NEW i \in Ids \ born, Goto(h, [step |-> "world", of |-> task[h].of, id |-> i]),
               born' = born \cup {i}, UNCHANGED stored
        PROVE  GoesOn(h, {"spawn", "save", "world"}, {"save", "world", "commit"})
    <3>. DEFINE t == [step |-> "world", of |-> task[h].of, id |-> i]
    <3>1. t \in Task /\ t.step = "world" /\ t.of = task[h].of /\ t.id = i
      BY <1>1 DEF Task
    <3>2. task[h].step = "save" /\ task[h].of.world # None
      BY <1>1, <1>6 DEF Insert, At, Uncommitted
    <3>. HIDE DEF t
    <3>. QED BY <1>1, <2>1, <3>1, <3>2 DEF GoesOn, t
  <2>. QED BY <1>1, <1>6, <2>1 DEF Insert, Ends, SameCharacters
<1>7. CASE InsertWorldState(h)
  <2>. DEFINE t == [task[h] EXCEPT !.step = "commit"]
  <2>1. t \in Task /\ t.step = "commit" /\ t.of = task[h].of /\ t.id = task[h].id
    BY <1>1, <1>7 DEF Task, InsertWorldState, At
  <2>2. task[h].of.world # None /\ task[h].step = "world"
    BY <1>1, <1>7 DEF InsertWorldState, At, Uncommitted
  <2>. HIDE DEF t
  <2>. QED BY <1>1, <1>7, <2>1, <2>2 DEF GoesOn, InsertWorldState, SameCharacters, t
<1>8. CASE Commit(h)
  <2>1. stored[task[h].id] = None /\ task[h].id \in Ids
    BY <1>1, <1>8, TaskFields DEF Commit, At, Uncommitted
  <2>. QED BY <1>1, <1>8, <2>1 DEF Commit, At, Stores
<1>. QED BY <1>2, <1>3, <1>4, <1>5, <1>6, <1>7, <1>8 DEF Step

LEMMA CreateEffect ==
    ASSUME CreationInv, NEW h \in Handlers, NEW a \in Accounts, NEW s \in Servers, NEW n \in Names,
           Create(h, a, s, n)
    PROVE  Begins(h)
<1>. DEFINE c == [account |-> a, server |-> s, name |-> n, world |-> None]
            t == [step |-> "count", of |-> c]
<1>1. c \in Character
  BY DEF Character
<1>2. t \in Task /\ t.step = "count"
  BY <1>1 DEF Task
<1>. QED BY <1>2 DEF Create, Begins, SameCharacters

LEMMA GoesTo ==
    ASSUME TypeOK, NEW h \in Handlers, NEW t \in Task \cup {None}, Goto(h, t)
    PROVE  /\ task' \in [Handlers -> Task \cup {None}] /\ inMemory' \in BOOLEAN
           /\ task'[h] = t /\ \A g \in Handlers : g # h => task'[g] = task[g]
BY DEF TypeOK, Goto

\* Nothing is stored, no id drawn or inserted under.
LEMMA HarmlessStep ==
    ASSUME CreationInv, NEW h \in Handlers, NEW t \in Task \cup {None}, Goto(h, t),
           UNCHANGED <<stored, born>>,
           t # None => /\ t.step \notin {"world", "commit"}
                       /\ t.step = "save" => t.of.world # None
    PROVE  CreationInv'
<1>1. /\ task' \in [Handlers -> Task \cup {None}] /\ inMemory' \in BOOLEAN
      /\ task'[h] = t /\ \A g \in Handlers : g # h => task'[g] = task[g]
  BY GoesTo DEF CreationInv
<1>2. TypeOK'
  BY <1>1 DEF CreationInv, TypeOK
<1>3. Uncommitted'
  BY <1>1 DEF CreationInv, Uncommitted
<1>. QED BY <1>2, <1>3 DEF CreationInv

LEMMA GoesOnStep ==
    ASSUME CreationInv, NEW h \in Handlers, NEW steps, NEW next, GoesOn(h, steps, next)
    PROVE  CreationInv'
<1>. USE DEF CreationInv
<1>1. PICK t \in Task :
        /\ t.step \in next /\ Goto(h, t)
        /\ t.step \in {"save", "world", "commit"} => t.of.world # None
        /\ t.step \in {"world", "commit"} =>
              \/ task[h].step \in {"world", "commit"} /\ t.id = task[h].id /\ UNCHANGED born
              \/ t.id \in Ids \ born /\ born' = born \cup {t.id}
        /\ t.step \notin {"world", "commit"} => UNCHANGED born
  BY DEF GoesOn
<1>2. UNCHANGED stored /\ task[h] # None
  BY DEF GoesOn
<1>3. /\ task' \in [Handlers -> Task \cup {None}] /\ inMemory' \in BOOLEAN
      /\ task'[h] = t /\ \A g \in Handlers : g # h => task'[g] = task[g]
  BY <1>1, GoesTo
<1>4. CASE t.step \notin {"world", "commit"}
  <2>1. UNCHANGED <<stored, born>> /\ Goto(h, t) /\ (t.step = "save" => t.of.world # None)
    BY <1>1, <1>2, <1>4
  <2>. QED BY <1>4, <2>1, HarmlessStep
<1>5. CASE t.step \in {"world", "commit"}
  <2>1. born \subseteq born' /\ born' \subseteq Ids /\ t.id \in born' /\ stored[t.id] = None
    BY <1>1, <1>2, <1>5 DEF TypeOK, Uncommitted
  <2>2. TypeOK'
    BY <1>2, <1>3, <2>1 DEF TypeOK
  <2>3. \A g \in Handlers : g # h /\ task[g] # None /\ task[g].step \in {"world", "commit"} =>
           task[g].id # t.id
    BY <1>1, <1>2, <1>5 DEF Uncommitted
  <2>4. \A g \in Handlers : task'[g] # None =>
          /\ task'[g].step \in {"save", "world", "commit"} => task'[g].of.world # None
          /\ task'[g].step \in {"world", "commit"} => task'[g].id \in born' /\ stored'[task'[g].id] = None
    BY <1>1, <1>2, <1>3, <2>1 DEF Uncommitted
  <2>5. ASSUME NEW f \in Handlers, NEW g \in Handlers,
               task'[f] # None, task'[f].step \in {"world", "commit"},
               task'[g] # None, task'[g].step \in {"world", "commit"}, task'[f].id = task'[g].id
        PROVE  f = g
    BY <1>3, <2>3, <2>5 DEF Uncommitted
  <2>. QED BY <2>2, <2>4, <2>5 DEF Uncommitted
<1>. QED BY <1>4, <1>5

LEMMA StoresStep ==
    ASSUME CreationInv, NEW h \in Handlers, Stores(h)
    PROVE  CreationInv'
<1>. USE DEF CreationInv
<1>1. PICK i \in Ids :
        /\ stored[i] = None /\ stored' = [stored EXCEPT ![i] = task[h].of]
        /\ \/ task[h].step = "save" /\ i \notin born /\ born' = born \cup {i}
           \/ task[h].step = "commit" /\ i = task[h].id /\ born' = born
  BY DEF Stores
<1>2. task[h] # None /\ task[h].of \in Character /\ task[h].of.world # None /\ Goto(h, None)
  BY TaskOf, TaskFields DEF Stores, Uncommitted
<1>3. /\ task' \in [Handlers -> Task \cup {None}] /\ inMemory' \in BOOLEAN
      /\ task'[h] = None /\ \A g \in Handlers : g # h => task'[g] = task[g]
  BY <1>2, GoesTo
<1>4. i \in born' /\ born \subseteq born' /\ born' \subseteq Ids
  BY <1>1, <1>2 DEF TypeOK, Uncommitted
<1>5. TypeOK'
  BY <1>1, <1>2, <1>3, <1>4 DEF TypeOK
<1>6. ASSUME NEW g \in Handlers, task'[g] # None, task'[g].step \in {"world", "commit"}
      PROVE  task'[g].id \in born' /\ stored'[task'[g].id] = None
  <2>1. g # h /\ task'[g] = task[g] /\ task[g].id \in born /\ stored[task[g].id] = None
    BY <1>3, <1>6 DEF Uncommitted
  <2>2. task[g].id # i
    BY <1>1, <1>2, <1>6, <2>1 DEF Uncommitted
  <2>. QED BY <1>1, <1>4, <2>1, <2>2 DEF TypeOK
<1>7. Uncommitted'
  BY <1>3, <1>6 DEF Uncommitted
<1>. QED BY <1>5, <1>7

LEMMA RestartStep ==
    ASSUME CreationInv, Restart
    PROVE  CreationInv'
<1>1. /\ stored' = [i \in Ids |-> None] /\ task' = [h \in Handlers |-> None]
      /\ UNCHANGED <<inMemory, born>>
  BY DEF Restart
<1>2. TypeOK'
  BY <1>1 DEF CreationInv, TypeOK
<1>3. Uncommitted'
  BY <1>1 DEF Uncommitted
<1>. QED BY <1>2, <1>3 DEF CreationInv

LEMMA NextEffect ==
    ASSUME CreationInv, [Next]_vars
    PROVE  \/ \E h \in Handlers :
                 \/ Begins(h)
                 \/ GoesOn(h, {"count"}, {"name"}) /\ BelowLimit(task[h].of.account)
                 \/ GoesOn(h, {"name"}, {"spawn"}) /\ ~NameTaken(task[h].of)
                 \/ GoesOn(h, {"spawn", "save", "world"}, {"save", "world", "commit"})
                 \/ Ends(h) \/ Stores(h)
           \/ Restart \/ UNCHANGED vars
<1>1. \A h \in Handlers : Abort(h) => Ends(h)
  BY DEF Abort, Ends, SameCharacters
<1>. QED BY <1>1, CreateEffect, StepEffect DEF Next

LEMMA NextCreation ==
    ASSUME CreationInv, [Next]_vars
    PROVE  CreationInv'
<1>1. ASSUME NEW h \in Handlers, Begins(h) \/ Ends(h) PROVE CreationInv'
  BY <1>1, HarmlessStep DEF Begins, Ends
<1>2. CASE UNCHANGED vars
  BY <1>2 DEF vars, CreationInv, TypeOK, Uncommitted
<1>. QED BY <1>1, <1>2, NextEffect, GoesOnStep, StoresStep, RestartStep

LEMMA InitCreation == Init => CreationInv
BY DEF Init, CreationInv, TypeOK, Uncommitted

(***************************************************************************)
(* The unique constraint                                                   *)
(***************************************************************************)
Inserted(h) == task[h] # None /\ task[h].step \in {"world", "commit"}

\* The inductive form of ExactNameOnce: what is inserted and not yet committed
\* has a key of its own, too.
KeysApart ==
    ~inMemory =>
        /\ \A i, j \in Stored : SameKey(stored[i], stored[j]) => i = j
        /\ \A h \in Handlers : Inserted(h) => ~Conflicts(task[h].of)
        /\ \A g, h \in Handlers :
              Inserted(g) /\ Inserted(h) /\ SameKey(task[g].of, task[h].of) => g = h

\* h inserts nothing, or goes on with what it has inserted.
LEMMA NothingInserted ==
    ASSUME CreationInv, KeysApart, NEW h \in Handlers, NEW t \in Task \cup {None}, Goto(h, t),
           UNCHANGED stored,
           t # None /\ t.step \in {"world", "commit"} => Inserted(h) /\ t.of = task[h].of
    PROVE  KeysApart'
<1>1. /\ inMemory' = inMemory /\ Stored' = Stored
      /\ task'[h] = t /\ \A g \in Handlers : g # h => task'[g] = task[g]
  BY GoesTo DEF CreationInv, Goto, Stored
<1>2. \A g \in Handlers : Inserted(g)' => Inserted(g) /\ task'[g].of = task[g].of
  BY <1>1 DEF Inserted
<1>. QED BY <1>1, <1>2 DEF KeysApart, Conflicts

LEMMA InsertApart ==
    ASSUME CreationInv, KeysApart, NEW h \in Handlers, Insert(h)
    PROVE  KeysApart'
<1>. DEFINE c == task[h].of
<1>1. c \in Character
  BY TaskOf, TaskFields DEF CreationInv, Insert, At
<1>2. ~HeldByOther(h, c)
  BY DEF Insert
<1>3. ASSUME ~Conflicts(c), NEW i \in Ids, Goto(h, [step |-> "world", of |-> c, id |-> i]),
             UNCHANGED stored
      PROVE  KeysApart'
  <2>. DEFINE t == [step |-> "world", of |-> c, id |-> i]
  <2>1. t \in Task /\ t.of = c
    BY <1>1 DEF Task
  <2>. HIDE DEF t, c
  <2>2. Goto(h, t)
    BY <1>3 DEF t
  <2>3. /\ inMemory' = inMemory /\ Stored' = Stored
        /\ task'[h] = t /\ \A g \in Handlers : g # h => task'[g] = task[g]
    BY <1>3, <2>1, <2>2, GoesTo DEF CreationInv, Goto, Stored
  <2>4. \A g \in Handlers : g # h /\ Inserted(g)' =>
           Inserted(g) /\ task'[g] = task[g] /\ ~SameKey(task[g].of, c)
    BY <1>2, <2>3 DEF Inserted, HeldByOther
  <2>5. \A g \in Handlers : g # h /\ Inserted(g)' => ~SameKey(c, task[g].of)
    BY <2>4 DEF SameKey
  <2>. QED BY <1>3, <2>1, <2>3, <2>4, <2>5 DEF KeysApart, Conflicts
<1>4. CASE Goto(h, None) /\ UNCHANGED stored
  BY <1>4, NothingInserted
<1>. QED BY <1>3, <1>4 DEF Insert, SameCharacters

\* What was inserted with a key of its own is stored with it.
LEMMA CommitApart ==
    ASSUME CreationInv, KeysApart, NEW h \in Handlers, Commit(h)
    PROVE  KeysApart'
<1>. DEFINE c == task[h].of
            k == task[h].id
<1>1. Inserted(h) /\ k \in Ids /\ c # None
  BY TaskOf, TaskFields, NoneAssumption DEF CreationInv, Commit, At, Inserted
<1>2. /\ inMemory' = inMemory /\ stored' = [stored EXCEPT ![k] = c]
      /\ task'[h] = None /\ \A g \in Handlers : g # h => task'[g] = task[g]
  BY GoesTo DEF CreationInv, Commit, Goto
<1>. HIDE DEF k
<1>3. \A i \in Ids : stored'[i] = IF i = k THEN c ELSE stored[i]
  BY <1>2 DEF CreationInv, TypeOK
<1>4. \A i \in Stored' : (i = k /\ stored'[i] = c) \/ (i \in Stored /\ stored'[i] = stored[i])
  BY <1>3 DEF Stored
<1>5. \A g \in Handlers : Inserted(g)' => g # h /\ Inserted(g) /\ task'[g] = task[g]
  BY <1>2 DEF Inserted
<1>. SUFFICES ASSUME ~inMemory PROVE KeysApart'
  BY <1>2 DEF KeysApart
<1>6. \A i \in Stored : ~SameKey(stored[i], c) /\ ~SameKey(c, stored[i])
  BY <1>1 DEF KeysApart, Conflicts, SameKey
<1>7. \A g \in Handlers : Inserted(g)' => ~SameKey(c, task[g].of)
  BY <1>1, <1>5 DEF KeysApart
<1>. HIDE DEF c
<1>. QED BY <1>4, <1>5, <1>6, <1>7 DEF KeysApart, Conflicts

LEMMA NextApart ==
    ASSUME CreationInv, KeysApart, [Next]_vars
    PROVE  KeysApart'
<1>1. ASSUME NEW h \in Handlers, InsertWorldState(h) PROVE KeysApart'
  <2>. DEFINE t == [task[h] EXCEPT !.step = "commit"]
  <2>1. t \in Task /\ t.of = task[h].of /\ Inserted(h)
    BY <1>1, TaskOf DEF CreationInv, InsertWorldState, At, Task, Inserted
  <2>. HIDE DEF t
  <2>. QED BY <1>1, <2>1, NothingInserted DEF InsertWorldState, SameCharacters, t
<1>2. ASSUME NEW h \in Handlers, NEW a \in Accounts, NEW s \in Servers, NEW n \in Names,
             Create(h, a, s, n)
      PROVE  KeysApart'
  <2>1. PICK t \in Task : t.step = "count" /\ Goto(h, t) /\ UNCHANGED stored
    BY <1>2, CreateEffect DEF Begins
  <2>. QED BY <2>1, NothingInserted
<1>3. ASSUME NEW h \in Handlers, Count(h) \/ CheckName(h) PROVE KeysApart'
  <2>1. UNCHANGED stored /\ task[h] \in Task /\ task[h].step \in {"count", "name"}
    BY <1>3, TaskOf DEF CreationInv, Count, CheckName, At, SameCharacters
  <2>2. \A x \in {"name", "spawn"} : /\ [task[h] EXCEPT !.step = x] \in Task
                                     /\ [task[h] EXCEPT !.step = x].step = x
    BY <2>1 DEF Task
  <2>3. PICK t \in Task \cup {None} : Goto(h, t) /\ (t # None => t.step \in {"name", "spawn"})
    BY <1>3, <2>2 DEF Count, CheckName
  <2>. QED BY <2>1, <2>3, NothingInserted
<1>4. ASSUME NEW h \in Handlers, ResolveSpawn(h) PROVE KeysApart'
  <2>1. /\ UNCHANGED stored
        /\ task[h] \in [step : {"count", "name", "spawn", "save"}, of : Character]
    BY <1>4, TaskOf DEF CreationInv, ResolveSpawn, At, SameCharacters, Task
  <2>2. ASSUME NEW p \in Spawns
        PROVE  /\ [task[h] EXCEPT !.step = "save", !.of.world = p] \in Task
               /\ [task[h] EXCEPT !.step = "save", !.of.world = p].step = "save"
    <3>1. /\ [task[h] EXCEPT !.step = "save", !.of.world = p]
                \in [step : {"count", "name", "spawn", "save"}, of : Character]
          /\ [task[h] EXCEPT !.step = "save", !.of.world = p].step = "save"
      BY <2>1 DEF Character
    <3>. QED BY <3>1 DEF Task
  <2>3. PICK t \in Task \cup {None} : Goto(h, t) /\ (t # None => t.step = "save")
    BY <1>4, <2>2 DEF ResolveSpawn
  <2>. QED BY <2>1, <2>3, NothingInserted
<1>5. ASSUME NEW h \in Handlers, Abort(h) PROVE KeysApart'
  BY <1>5, NothingInserted DEF Abort, SameCharacters
<1>6. CASE Restart \/ \E h \in Handlers : SaveInMemory(h)
  BY <1>6 DEF Restart, SaveInMemory, Goto, KeysApart
<1>7. CASE UNCHANGED vars
  BY <1>7 DEF vars, KeysApart, Inserted, Conflicts, Stored
<1>. QED BY <1>1, <1>2, <1>3, <1>4, <1>5, <1>6, <1>7, InsertApart, CommitApart DEF Next, Step

(***************************************************************************)
(* The limits                                                              *)
(***************************************************************************)
AllowedOf(a) == [PerAccount(a)!Next]_(PerAccount(a)!vars)
AllowedAs(s, f) == [PerName(s, f)!Next]_(PerName(s, f)!vars)

\* What is stored can be counted, and is one more when a character is stored.
LEMMA Countable ==
    ASSUME NEW S, S \subseteq Ids
    PROVE  /\ IsFiniteSet(S) /\ Cardinality(S) \in Nat
           /\ \A T : T \subseteq S => Cardinality(T) \in 0 .. Cardinality(S)
           /\ \A i : i \notin S => Cardinality(S \cup {i}) = Cardinality(S) + 1
<1>1. IsFiniteSet(S)
  BY CharactersAssumption, FS_Subset
<1>2. \A T : T \subseteq S => IsFiniteSet(T) /\ Cardinality(T) \in Nat /\ Cardinality(T) <= Cardinality(S)
  BY <1>1, FS_Subset, FS_CardinalityType
<1>. QED BY <1>1, <1>2, FS_CardinalityType, FS_AddElement

LEMMA AccountWithdrawn ==
    ASSUME NEW a, OfAccount(a)' \subseteq OfAccount(a), AdmittedFor(a)' \subseteq AdmittedFor(a)
    PROVE  AllowedOf(a)
<1>1. OfAccount(a) \subseteq Ids
  BY DEF OfAccount, Stored
<1>. QED BY <1>1, Countable DEF AllowedOf, PerAccount!Next, PerAccount!Withdraw

LEMMA NameWithdrawn ==
    ASSUME NEW s, NEW f, Named(s, f)' \subseteq Named(s, f), AdmittedAs(s, f)' \subseteq AdmittedAs(s, f)
    PROVE  AllowedAs(s, f)
<1>1. Named(s, f) \subseteq Ids
  BY DEF Named, Stored
<1>. QED BY <1>1, Countable DEF AllowedAs, PerName!Next, PerName!Withdraw

\* A step of h changes neither who else is admitted nor what others have stored.
LEMMA OthersStand ==
    ASSUME CreationInv, NEW h \in Handlers, NEW t \in Task \cup {None}, Goto(h, t), NEW g \in Handlers, g # h
    PROVE  /\ \A a : g \in AdmittedFor(a)' <=> g \in AdmittedFor(a)
           /\ \A s, f : g \in AdmittedAs(s, f)' <=> g \in AdmittedAs(s, f)
BY GoesTo DEF CreationInv, AdmittedFor, AdmittedAs

LEMMA AdmittedHandlers ==
    /\ \A a : AdmittedFor(a) \subseteq Handlers /\ AdmittedFor(a)' \subseteq Handlers
    /\ \A s, f : AdmittedAs(s, f) \subseteq Handlers /\ AdmittedAs(s, f)' \subseteq Handlers
BY DEF AdmittedFor, AdmittedAs

LEMMA SameStored ==
    ASSUME UNCHANGED stored
    PROVE  /\ \A a : OfAccount(a)' = OfAccount(a)
           /\ \A s, f : Named(s, f)' = Named(s, f)
BY DEF OfAccount, Named, Stored

\* h stays admitted, ends or has not got that far: nobody is admitted anew.
LEMMA NobodyAdmitted ==
    ASSUME CreationInv, NEW h \in Handlers, NEW t \in Task \cup {None}, Goto(h, t), UNCHANGED stored,
           \/ t = None
           \/ t.step \in {"count"}
           \/ /\ task[h] # None /\ task[h].step \in {"spawn", "save", "world"}
              /\ t.of.account = task[h].of.account /\ t.of.server = task[h].of.server
              /\ t.of.name = task[h].of.name
    PROVE  (\A a : AllowedOf(a)) /\ \A s, f : AllowedAs(s, f)
<1>1. task'[h] = t
  BY GoesTo DEF CreationInv
<1>2. /\ \A a : h \in AdmittedFor(a)' => h \in AdmittedFor(a)
      /\ \A s, f : h \in AdmittedAs(s, f)' => h \in AdmittedAs(s, f)
  BY <1>1 DEF AdmittedFor, AdmittedAs
<1>3. /\ \A a : AdmittedFor(a)' \subseteq AdmittedFor(a)
      /\ \A s, f : AdmittedAs(s, f)' \subseteq AdmittedAs(s, f)
  BY <1>2, OthersStand, AdmittedHandlers
<1>. QED BY <1>3, SameStored, AccountWithdrawn, NameWithdrawn

\* The count: h is admitted for its account, not yet for its name.
LEMMA CountAllowed ==
    ASSUME CreationInv, NEW h \in Handlers, GoesOn(h, {"count"}, {"name"}),
           BelowLimit(task[h].of.account)
    PROVE  (\A a : AllowedOf(a)) /\ \A s, f : AllowedAs(s, f)
<1>1. PICK t \in Task : t.step = "name" /\ Goto(h, t) /\ t.of.account = task[h].of.account
  BY DEF GoesOn
<1>2. task'[h] = t /\ t # None /\ task[h] # None /\ task[h].step = "count" /\ UNCHANGED stored
  BY <1>1, GoesTo, TaskFields DEF CreationInv, GoesOn
<1>3. \A s, f : AllowedAs(s, f)
  <2>. SUFFICES ASSUME NEW s, NEW f PROVE AllowedAs(s, f)
    OBVIOUS
  <2>1. h \notin AdmittedAs(s, f)'
    BY <1>1, <1>2 DEF AdmittedAs
  <2>2. AdmittedAs(s, f)' \subseteq AdmittedAs(s, f)
    BY <1>1, <2>1, OthersStand, AdmittedHandlers
  <2>. QED BY <1>2, <2>2, SameStored, NameWithdrawn
<1>4. ASSUME NEW a, a # task[h].of.account PROVE AllowedOf(a)
  <2>1. h \notin AdmittedFor(a)'
    BY <1>1, <1>2, <1>4 DEF AdmittedFor
  <2>2. AdmittedFor(a)' \subseteq AdmittedFor(a)
    BY <1>1, <2>1, OthersStand, AdmittedHandlers
  <2>. QED BY <1>2, <2>2, SameStored, AccountWithdrawn
<1>5. ASSUME NEW a, a = task[h].of.account PROVE AllowedOf(a)
  <2>1. h \in AdmittedFor(a)' /\ h \notin AdmittedFor(a)
    BY <1>1, <1>2, <1>5 DEF AdmittedFor
  <2>2. AdmittedFor(a)' = AdmittedFor(a) \cup {h}
    BY <1>1, <2>1, OthersStand, AdmittedHandlers
  <2>3. Cardinality(OfAccount(a)) < MaxCharacters
    BY <1>5 DEF BelowLimit
  <2>. QED BY <1>2, <2>1, <2>2, <2>3, SameStored DEF AllowedOf, PerAccount!Next, PerAccount!Admit
<1>. QED BY <1>3, <1>4, <1>5

\* The search for the name: h, admitted for its account, is admitted for its name too.
LEMMA CheckNameAllowed ==
    ASSUME CreationInv, NEW h \in Handlers, GoesOn(h, {"name"}, {"spawn"}), ~NameTaken(task[h].of)
    PROVE  (\A a : AllowedOf(a)) /\ \A s, f : AllowedAs(s, f)
<1>1. PICK t \in Task : /\ t.step = "spawn" /\ Goto(h, t) /\ t.of.account = task[h].of.account
                        /\ t.of.server = task[h].of.server /\ t.of.name = task[h].of.name
  BY DEF GoesOn
<1>2. task'[h] = t /\ t # None /\ task[h] # None /\ task[h].step = "name" /\ UNCHANGED stored
  BY <1>1, GoesTo, TaskFields DEF CreationInv, GoesOn
<1>3. \A a : AllowedOf(a)
  <2>. SUFFICES ASSUME NEW a PROVE AllowedOf(a)
    OBVIOUS
  <2>1. h \in AdmittedFor(a)' => h \in AdmittedFor(a)
    BY <1>1, <1>2 DEF AdmittedFor
  <2>2. AdmittedFor(a)' \subseteq AdmittedFor(a)
    BY <1>1, <2>1, OthersStand, AdmittedHandlers
  <2>. QED BY <1>2, <2>2, SameStored, AccountWithdrawn
<1>4. ASSUME NEW s, NEW f, ~(s = task[h].of.server /\ f = Fold[task[h].of.name])
      PROVE  AllowedAs(s, f)
  <2>1. h \notin AdmittedAs(s, f)'
    BY <1>1, <1>2, <1>4 DEF AdmittedAs
  <2>2. AdmittedAs(s, f)' \subseteq AdmittedAs(s, f)
    BY <1>1, <2>1, OthersStand, AdmittedHandlers
  <2>. QED BY <1>2, <2>2, SameStored, NameWithdrawn
<1>5. ASSUME NEW s, NEW f, s = task[h].of.server, f = Fold[task[h].of.name] PROVE AllowedAs(s, f)
  <2>1. h \in AdmittedAs(s, f)' /\ h \notin AdmittedAs(s, f)
    BY <1>1, <1>2, <1>5 DEF AdmittedAs
  <2>2. AdmittedAs(s, f)' = AdmittedAs(s, f) \cup {h}
    BY <1>1, <2>1, OthersStand, AdmittedHandlers
  <2>3. Cardinality(Named(s, f)) = 0
    BY <1>5, FS_EmptySet DEF NameTaken
  <2>. QED BY <1>2, <2>1, <2>2, <2>3, SameStored DEF AllowedAs, PerName!Next, PerName!Admit
<1>6. \A s, f : AllowedAs(s, f)
  BY <1>4, <1>5
<1>. QED BY <1>3, <1>6

\* The character of h is stored: h acts for its account and for its name.
LEMMA StoresAllowed ==
    ASSUME CreationInv, NEW h \in Handlers, Stores(h)
    PROVE  (\A a : AllowedOf(a)) /\ \A s, f : AllowedAs(s, f)
<1>. DEFINE c == task[h].of
<1>1. PICK i \in Ids : stored[i] = None /\ stored' = [stored EXCEPT ![i] = c]
  BY DEF Stores
<1>2. /\ task[h] # None /\ task[h].step \in {"save", "commit"} /\ Goto(h, None) /\ c # None
      /\ task'[h] = None
  BY GoesTo, TaskOf, TaskFields, NoneAssumption DEF Stores, CreationInv
<1>3. /\ \A j \in Ids : stored'[j] = IF j = i THEN c ELSE stored[j]
  BY <1>1 DEF CreationInv, TypeOK
<1>4. /\ \A a : i \notin OfAccount(a) /\ OfAccount(a) \subseteq Ids
      /\ \A s, f : i \notin Named(s, f) /\ Named(s, f) \subseteq Ids
  BY <1>1 DEF OfAccount, Named, Stored
<1>5. /\ \A a : OfAccount(a)' = IF c.account = a THEN OfAccount(a) \cup {i} ELSE OfAccount(a)
      /\ \A s, f : Named(s, f)' = IF c.server = s /\ Fold[c.name] = f THEN Named(s, f) \cup {i} ELSE Named(s, f)
  BY <1>1, <1>2, <1>3 DEF OfAccount, Named, Stored
<1>6. /\ \A a : h \in AdmittedFor(a) <=> c.account = a
      /\ \A s, f : h \in AdmittedAs(s, f) <=> c.server = s /\ Fold[c.name] = f
  BY <1>2 DEF AdmittedFor, AdmittedAs
<1>7. /\ \A a : AdmittedFor(a)' = AdmittedFor(a) \ {h}
      /\ \A s, f : AdmittedAs(s, f)' = AdmittedAs(s, f) \ {h}
  <2>1. /\ \A a : h \notin AdmittedFor(a)'
        /\ \A s, f : h \notin AdmittedAs(s, f)'
    BY <1>2 DEF AdmittedFor, AdmittedAs
  <2>. QED BY <1>2, <2>1, OthersStand, AdmittedHandlers
<1>. HIDE DEF c
<1>8. ASSUME NEW a PROVE AllowedOf(a)
  <2>1. CASE c.account = a
    <3>1. Cardinality(OfAccount(a)') = Cardinality(OfAccount(a)) + 1
      BY <1>4, <1>5, <2>1, Countable
    <3>. QED BY <1>6, <1>7, <2>1, <3>1 DEF AllowedOf, PerAccount!Next, PerAccount!Act
  <2>2. CASE c.account # a
    BY <1>5, <1>7, <2>2, AccountWithdrawn
  <2>. QED BY <2>1, <2>2
<1>9. ASSUME NEW s, NEW f PROVE AllowedAs(s, f)
  <2>1. CASE c.server = s /\ Fold[c.name] = f
    <3>1. Cardinality(Named(s, f)') = Cardinality(Named(s, f)) + 1
      BY <1>4, <1>5, <2>1, Countable
    <3>. QED BY <1>6, <1>7, <2>1, <3>1 DEF AllowedAs, PerName!Next, PerName!Act
  <2>2. CASE ~(c.server = s /\ Fold[c.name] = f)
    BY <1>5, <1>7, <2>2, NameWithdrawn
  <2>. QED BY <2>1, <2>2
<1>. QED BY <1>8, <1>9

AllAllowed == (\A a : AllowedOf(a)) /\ \A s, f : AllowedAs(s, f)

LEMMA NextAllowed ==
    ASSUME CreationInv, [Next]_vars
    PROVE  AllAllowed
<1>1. ASSUME NEW h \in Handlers, Begins(h) \/ Ends(h) PROVE AllAllowed
  BY <1>1, NobodyAdmitted DEF Begins, Ends, AllAllowed
<1>2. ASSUME NEW h \in Handlers, GoesOn(h, {"spawn", "save", "world"}, {"save", "world", "commit"})
      PROVE  AllAllowed
  <2>1. PICK t \in Task :
          /\ Goto(h, t) /\ t.of.account = task[h].of.account
          /\ t.of.server = task[h].of.server /\ t.of.name = task[h].of.name
    BY <1>2 DEF GoesOn
  <2>2. UNCHANGED stored /\ task[h] # None /\ task[h].step \in {"spawn", "save", "world"}
    BY <1>2 DEF GoesOn
  <2>. QED BY <2>1, <2>2, NobodyAdmitted DEF AllAllowed
<1>3. ASSUME NEW h \in Handlers, GoesOn(h, {"count"}, {"name"}), BelowLimit(task[h].of.account)
      PROVE  AllAllowed
  BY <1>3, CountAllowed DEF AllAllowed
<1>4. ASSUME NEW h \in Handlers, GoesOn(h, {"name"}, {"spawn"}), ~NameTaken(task[h].of)
      PROVE  AllAllowed
  BY <1>4, CheckNameAllowed DEF AllAllowed
<1>5. ASSUME NEW h \in Handlers, Stores(h) PROVE AllAllowed
  BY <1>5, StoresAllowed DEF AllAllowed
<1>6. CASE Restart
  <2>1. /\ \A a : OfAccount(a)' = {} /\ AdmittedFor(a)' = {}
        /\ \A s, f : Named(s, f)' = {} /\ AdmittedAs(s, f)' = {}
    BY <1>6 DEF Restart, OfAccount, Named, Stored, AdmittedFor, AdmittedAs
  <2>. QED BY <2>1, AccountWithdrawn, NameWithdrawn DEF AllAllowed
<1>7. CASE UNCHANGED vars
  <2>1. /\ \A a : OfAccount(a)' = OfAccount(a) /\ AdmittedFor(a)' = AdmittedFor(a)
        /\ \A s, f : Named(s, f)' = Named(s, f) /\ AdmittedAs(s, f)' = AdmittedAs(s, f)
    BY <1>7 DEF vars, OfAccount, Named, Stored, AdmittedFor, AdmittedAs
  <2>. QED BY <2>1, AccountWithdrawn, NameWithdrawn DEF AllAllowed
<1>. QED BY <1>1, <1>2, <1>3, <1>4, <1>5, <1>6, <1>7, NextEffect

(***************************************************************************)
(* The theorems                                                            *)
(***************************************************************************)

\* The two INSERTs are seen together: no stored character is without its world
\* state, none has an id that was never drawn, and every variable keeps to its set.
THEOREM TypeCorrect == Spec => []TypeOK
<1>1. CreationInv => TypeOK
  BY DEF CreationInv
<1>2. CreationInv /\ [Next]_vars => CreationInv'
  BY NextCreation
<1>. QED BY <1>1, <1>2, InitCreation, PTL DEF Spec

\* The search for the name does not keep two requests apart, the unique constraint
\* does: PostgreSQL never holds two characters of one spelling on a server.
THEOREM NamesExact == Spec => []ExactNameOnce
<1>1. Init => KeysApart
  BY DEF Init, KeysApart, Stored, Inserted
<1>2. CreationInv /\ KeysApart /\ [Next]_vars => (CreationInv /\ KeysApart)'
  BY NextCreation, NextApart
<1>3. KeysApart => ExactNameOnce
  BY DEF KeysApart, ExactNameOnce
<1>. QED BY <1>1, <1>2, <1>3, InitCreation, PTL DEF Spec

\* CreateCharacter counts the characters of the account three queries before it
\* saves, and still keeps to the limit but for requests that counted together.
THEOREM CharactersLimited == Spec => LimitsCharacters
<1>1. CreationInv /\ [Next]_vars => CreationInv'
  BY NextCreation
<1>2. Init => \A a \in Accounts : PerAccount(a)!Init
  BY FS_EmptySet DEF Init, PerAccount!Init, OfAccount, Stored, AdmittedFor
<1>3. CreationInv /\ [Next]_vars =>
        [\A a \in Accounts : [PerAccount(a)!Next]_(PerAccount(a)!vars)]_vars
  BY NextAllowed DEF AllAllowed, AllowedOf
<1>. QED BY <1>1, <1>2, <1>3, InitCreation, PTL DEF Spec, LimitsCharacters

\* The characters of an account, those about to be saved included.
Load(a) == Cardinality(OfAccount(a)) + Cardinality(AdmittedFor(a))

LEMMA LoadBounded ==
    ASSUME NEW a, AllowedOf(a), Load(a) <= MaxCharacters - 1 + Cardinality(Handlers)
    PROVE  Load(a)' <= MaxCharacters - 1 + Cardinality(Handlers)
<1>. DEFINE d == Cardinality(OfAccount(a))
            e == Cardinality(OfAccount(a)')
            A == AdmittedFor(a)
            B == AdmittedFor(a)'
            N == Cardinality(Handlers)
<1>1. d \in Nat /\ e \in Nat
  <2>1. OfAccount(a) \subseteq Ids /\ OfAccount(a)' \subseteq Ids
    BY DEF OfAccount, Stored
  <2>. QED BY <2>1, Countable
<1>2. IsFiniteSet(Handlers) /\ N \in Nat /\ MaxCharacters \in Nat \ {0}
  BY CharactersAssumption, FS_CardinalityType
<1>3. A \subseteq Handlers /\ B \subseteq Handlers
  BY DEF AdmittedFor
<1>4. /\ IsFiniteSet(A) /\ Cardinality(A) \in Nat
      /\ Cardinality(B) \in Nat /\ Cardinality(B) <= N
  BY <1>2, <1>3, FS_Subset, FS_CardinalityType
<1>5. /\ Load(a) = d + Cardinality(A)
      /\ Load(a)' = e + Cardinality(B)
  BY DEF Load
<1>6. \/ d < MaxCharacters /\ e = d
      \/ \E h \in A : B = A \ {h} /\ e = d + 1
      \/ B \subseteq A /\ e \in 0 .. d
  <2>1. CASE PerAccount(a)!Next
    BY <2>1 DEF PerAccount!Next, PerAccount!Admit, PerAccount!Act, PerAccount!Withdraw
  <2>2. CASE UNCHANGED PerAccount(a)!vars
    BY <1>1, <2>2 DEF PerAccount!vars
  <2>. QED BY <2>1, <2>2 DEF AllowedOf
<1>. HIDE DEF d, e, A, B, N
<1>7. \A h \in A : Cardinality(A \ {h}) = Cardinality(A) - 1
  BY <1>4, FS_RemoveElement
<1>8. B \subseteq A => Cardinality(B) <= Cardinality(A)
  BY <1>4, FS_Subset
<1>9. d + Cardinality(A) <= MaxCharacters - 1 + N
  BY <1>5 DEF N
<1>10. e + Cardinality(B) <= MaxCharacters - 1 + N
  BY <1>1, <1>2, <1>4, <1>6, <1>7, <1>8, <1>9
<1>. QED BY <1>5, <1>10 DEF N

\* In numbers: however many creations arrive together, the characters of an account
\* exceed the number it may have by fewer than them.
THEOREM CharactersBounded ==
    Spec => [](\A a \in Accounts : Load(a) <= MaxCharacters - 1 + Cardinality(Handlers))
<1>. DEFINE Bounded == \A a \in Accounts : Load(a) <= MaxCharacters - 1 + Cardinality(Handlers)
<1>0. CreationInv /\ [Next]_vars => CreationInv'
  BY NextCreation
<1>1. Init => Bounded
  <2>1. Init => \A a \in Accounts : Load(a) = 0
    BY FS_EmptySet DEF Init, Load, OfAccount, Stored, AdmittedFor
  <2>2. Cardinality(Handlers) \in Nat /\ MaxCharacters \in Nat \ {0}
    BY CharactersAssumption, FS_CardinalityType
  <2>. QED BY <2>1, <2>2
<1>2. CreationInv /\ Bounded /\ [Next]_vars => Bounded'
  BY NextAllowed, LoadBounded DEF AllAllowed
<1>. HIDE DEF Bounded
<1>3. Spec => []Bounded
  BY <1>0, <1>1, <1>2, InitCreation, PTL DEF Spec
<1>. QED BY <1>3 DEF Bounded

\* It looks for the name whatever its case, though the constraint of the table tells
\* cases apart: only requests that looked together give a name twice on a server.
THEOREM NamesLimited == Spec => LimitsNames
<1>1. CreationInv /\ [Next]_vars => CreationInv'
  BY NextCreation
<1>2. Init => \A s \in Servers, f \in Folded : PerName(s, f)!Init
  BY FS_EmptySet DEF Init, PerName!Init, Named, Stored, AdmittedAs
<1>3. CreationInv /\ [Next]_vars =>
        [\A s \in Servers, f \in Folded : [PerName(s, f)!Next]_(PerName(s, f)!vars)]_vars
  BY NextAllowed DEF AllAllowed, AllowedAs
<1>. QED BY <1>1, <1>2, <1>3, InitCreation, PTL DEF Spec, LimitsNames
=============================================================================
