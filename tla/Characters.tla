----------------------------- MODULE Characters -----------------------------
(***************************************************************************)
(* CreateCharacter over the tables of PostgreSQL, where the character and  *)
(* its first world state are inserted in one transaction, or the           *)
(* repository in memory.  Every query is a step; what a transaction has    *)
(* inserted is seen by the others once it is committed.                    *)
(*                                                                         *)
(* The catalogue of servers is only read.  The spawn is a free spawn point *)
(* of the laboratory, if there is one: which one is free is the business   *)
(* of World.  Nothing deletes a character, not even DeleteAccount.         *)
(***************************************************************************)
EXTENDS Integers, FiniteSets

CONSTANTS
    Ids,            \* ids to be drawn by randomUUID
    Accounts,
    ServerStatus,   \* status of each server in the catalogue
    Fold,           \* each name in lower case
    Spawns,         \* positions of the spawn points of the laboratory
    Handlers,       \* requests that are served at once
    MaxCharacters,  \* getMaxCharactersPerAccount()
    None

Servers == DOMAIN ServerStatus
Names == DOMAIN Fold
Folded == {Fold[n] : n \in Names}

ASSUME CharactersAssumption ==
    /\ MaxCharacters \in Nat \ {0}
    /\ IsFiniteSet(Ids) /\ IsFiniteSet(Handlers)
    /\ ServerStatus \in [Servers -> {"online", "maintenance", "offline"}]
    /\ None \notin Spawns

VARIABLES
    inMemory,       \* the repository the module is wired with, chosen once
    stored,         \* the character stored (and committed) with each id, or None
    task,           \* what each handler still has to do, or None
    born            \* history: the ids drawn so far

vars == <<inMemory, stored, task, born>>

Character == [account : Accounts, server : Servers, name : Names, world : Spawns \cup {None}]

\* "count", "name", "spawn", "save": the query that comes next; "world", "commit":
\* the character is inserted under this id, but not committed.
Task == [step : {"count", "name", "spawn", "save"}, of : Character] \cup
        [step : {"world", "commit"}, of : Character, id : Ids]

ASSUME NoneAssumption == None \notin Character /\ None \notin Task

\* Whoever reads a character finds its world state with it.
TypeOK ==
    /\ inMemory \in BOOLEAN
    /\ stored \in [Ids -> {c \in Character : c.world # None} \cup {None}]
    /\ task \in [Handlers -> Task \cup {None}]
    /\ born \subseteq Ids
    /\ \A i \in Ids \ born : stored[i] = None

Init ==
    /\ inMemory \in BOOLEAN
    /\ stored = [i \in Ids |-> None]
    /\ task = [h \in Handlers |-> None]
    /\ born = {}

(***************************************************************************)
(* The repositories                                                        *)
(***************************************************************************)
Stored == {i \in Ids : stored[i] # None}

\* countByAccountId counts these.
OfAccount(a) == {i \in Stored : stored[i].account = a}

\* existsByServerAndName looks for these: the case does not matter.
Named(s, f) == {i \in Stored : stored[i].server = s /\ Fold[stored[i].name] = f}

\* The unique constraint on server and name: there the case does matter.
SameKey(c, d) == c.server = d.server /\ c.name = d.name

\* Mutant: the constraint is on the account as well.
ConflictsOfAccount(c) == \E i \in Stored : SameKey(stored[i], c) /\ stored[i].account = c.account

Conflicts(c) == \E i \in Stored : SameKey(stored[i], c)

\* Another transaction has inserted the same key: an INSERT waits for its end.
HeldByOther(h, c) ==
    \E g \in Handlers \ {h} : task[g] # None /\ task[g].step \in {"world", "commit"} /\ SameKey(task[g].of, c)

(***************************************************************************)
(* CreateCharacter                                                         *)
(***************************************************************************)
Goto(h, t) == task' = [task EXCEPT ![h] = t] /\ UNCHANGED inMemory
SameCharacters == UNCHANGED <<stored, born>>
At(h, step) == task[h] # None /\ task[h].step = step

\* Server.isJoinable
Joinable(s) == ServerStatus[s] = "online"

\* The server is there and may be joined ...
Create(h, a, s, n) ==
    /\ task[h] = None
    /\ Joinable(s)
    /\ Goto(h, [step |-> "count",
                of |-> [account |-> a, server |-> s, name |-> n, world |-> None]])
    /\ SameCharacters

\* Mutant: the limit is checked with the number that is there afterwards.
BelowLimitAfter(a) == Cardinality(OfAccount(a)) <= MaxCharacters

BelowLimit(a) == Cardinality(OfAccount(a)) < MaxCharacters

\* ... the account has fewer characters than it may ...
Count(h) ==
    /\ At(h, "count")
    /\ Goto(h, IF BelowLimit(task[h].of.account) THEN [task[h] EXCEPT !.step = "name"] ELSE None)
    /\ SameCharacters

\* Mutant: the name is looked for as it is spelt.
SpellingTaken(c) == Conflicts(c)

NameTaken(c) == Named(c.server, Fold[c.name]) # {}

\* ... nobody on the server has the name ...
CheckName(h) ==
    /\ At(h, "name")
    /\ Goto(h, IF NameTaken(task[h].of) THEN None ELSE [task[h] EXCEPT !.step = "spawn"])
    /\ SameCharacters

\* ... and a spawn point is free, or the request fails.
ResolveSpawn(h) ==
    /\ At(h, "spawn")
    /\ \/ \E p \in Spawns : Goto(h, [task[h] EXCEPT !.step = "save", !.of.world = p])
       \/ Goto(h, None)
    /\ SameCharacters

\* save, in memory
SaveInMemory(h) ==
    /\ inMemory /\ At(h, "save")
    /\ Goto(h, None)
    /\ \E i \in Ids \ born :
          /\ stored' = [stored EXCEPT ![i] = task[h].of]
          /\ born' = born \cup {i}

\* Mutant: without a transaction the character is there at once.
InsertAndCommit(h) ==
    LET c == task[h].of
    IN  /\ ~inMemory /\ At(h, "save") /\ ~HeldByOther(h, c)
        /\ \/ Conflicts(c) /\ Goto(h, None) /\ SameCharacters
           \/ /\ ~Conflicts(c)
              /\ \E i \in Ids \ born :
                    /\ Goto(h, [step |-> "world", of |-> c, id |-> i])
                    /\ stored' = [stored EXCEPT ![i] = [c EXCEPT !.world = None]]
                    /\ born' = born \cup {i}

\* BEGIN and the INSERT of the character: the constraint refuses it and the
\* transaction is rolled back, or it goes on.
Insert(h) ==
    LET c == task[h].of
    IN  /\ ~inMemory /\ At(h, "save") /\ ~HeldByOther(h, c)
        /\ \/ Conflicts(c) /\ Goto(h, None) /\ SameCharacters
           \/ /\ ~Conflicts(c)
              /\ \E i \in Ids \ born :
                    /\ Goto(h, [step |-> "world", of |-> c, id |-> i])
                    /\ born' = born \cup {i}
              /\ UNCHANGED stored

\* The INSERT of the world state ...
InsertWorldState(h) ==
    /\ At(h, "world")
    /\ Goto(h, [task[h] EXCEPT !.step = "commit"])
    /\ SameCharacters

\* ... and COMMIT, the answer to which may be lost.
Commit(h) ==
    /\ At(h, "commit")
    /\ Goto(h, None)
    /\ stored' = [stored EXCEPT ![task[h].id] = task[h].of]
    /\ UNCHANGED born

(***************************************************************************)
(* Failures                                                                *)
(***************************************************************************)

\* A query fails or the process stops: ROLLBACK.
Abort(h) ==
    /\ task[h] # None
    /\ Goto(h, None)
    /\ SameCharacters

\* The process with the repository in memory starts again.
Restart ==
    /\ inMemory
    /\ stored' = [i \in Ids |-> None]
    /\ task' = [h \in Handlers |-> None]
    /\ UNCHANGED <<inMemory, born>>

\* What a handler that has begun does next.
Step(h) ==
    \/ Count(h) \/ CheckName(h) \/ ResolveSpawn(h)
    \/ SaveInMemory(h) \/ Insert(h) \/ InsertWorldState(h) \/ Commit(h)

Next ==
    \/ \E h \in Handlers :
          \/ \E a \in Accounts, s \in Servers, n \in Names : Create(h, a, s, n)
          \/ Step(h) \/ Abort(h)
    \/ Restart

Spec == Init /\ [][Next]_vars

(***************************************************************************)
(* Properties                                                              *)
(***************************************************************************)
AdmittedFor(a) ==
    {h \in Handlers : task[h] # None /\ task[h].step # "count" /\ task[h].of.account = a}

PerAccount(a) == INSTANCE CheckThenAct
                WITH Actors <- Handlers, Limit <- MaxCharacters,
                     done <- Cardinality(OfAccount(a)), admitted <- AdmittedFor(a)

\* The characters of an account are limited as CheckThenAct says, though they are
\* counted long before they are committed.
LimitsCharacters ==
    /\ \A a \in Accounts : PerAccount(a)!Init
    /\ [][\A a \in Accounts : [PerAccount(a)!Next]_(PerAccount(a)!vars)]_vars

AdmittedAs(s, f) ==
    {h \in Handlers : task[h] # None /\ task[h].step \notin {"count", "name"}
                      /\ task[h].of.server = s /\ Fold[task[h].of.name] = f}

PerName(s, f) == INSTANCE CheckThenAct
                    WITH Actors <- Handlers, Limit <- 1,
                         done <- Cardinality(Named(s, f)), admitted <- AdmittedAs(s, f)

\* In PostgreSQL no two characters of a server have the very same name, however
\* many requests have found it free: the INSERT of the later one waits, or fails.
ExactNameOnce ==
    ~inMemory => \A i, j \in Stored : SameKey(stored[i], stored[j]) => i = j

\* In another spelling, and in memory, that a name is given once on a server is
\* only checked beforehand: requests that looked for it at the same time may all
\* get it, and nobody who looked after it was given.
LimitsNames ==
    /\ \A s \in Servers, f \in Folded : PerName(s, f)!Init
    /\ [][\A s \in Servers, f \in Folded : [PerName(s, f)!Next]_(PerName(s, f)!vars)]_vars
=============================================================================
