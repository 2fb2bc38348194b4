---------------------------- MODULE Registration ----------------------------
(***************************************************************************)
(* Accounts: RegisterUser, the profile changes that move an account to     *)
(* another e-mail or phone, and DeleteAccount, over the table of           *)
(* PostgreSQL, where a user is a row read and written whole, or the        *)
(* repository in memory, where it is an object that all handlers share and *)
(* whose indexes are kept beside it.  Every query is a step.               *)
(*                                                                         *)
(* An account may be registered while its e-mail and its phone have fewer  *)
(* than MaxAccounts of them.  Names, e-mails and phones stand for the      *)
(* normalised values of their value objects, in valid input.  The tokens   *)
(* and sessions that follow a registration, and the index of e-mails that  *)
(* only the login reads, are left out.                                     *)
(***************************************************************************)
EXTENDS Integers, FiniteSets

CONSTANTS
    Users,          \* ids to be drawn by randomUUID
    Names, Emails, Phones,
    Handlers,       \* requests that are served at once
    MaxAccounts,    \* MAX_ACCOUNTS_PER_CONTACT
    None

Contacts == Emails \cup Phones

ASSUME RegistrationAssumption ==
    /\ MaxAccounts \in Nat \ {0}
    /\ IsFiniteSet(Users) /\ IsFiniteSet(Handlers)
    /\ Emails \cap Phones = {}

VARIABLES
    inMemory,       \* the repository the module is wired with, chosen once
    row,            \* the stored user with each id, or None
    idOf,           \* in memory, byUsername: the id under each name, or None
    idsOf,          \* in memory, idsByEmail and idsByPhone
    task,           \* what each handler still has to do, or None
    born,           \* history: the ids drawn so far
    moved           \* history: users whose e-mail or phone has been changed

vars == <<inMemory, row, idOf, idsOf, task, born, moved>>

Row == [name : Names, email : Emails, phone : Phones]

\* "email", "phone", "save": a registration before the count of each contact and
\* the INSERT; "update": a row of a user is still to be written.
Task == [step : {"email", "phone", "save"}, row : Row] \cup
        [step : {"update"}, user : Users, row : Row]

ASSUME NoneAssumption == None \notin Row /\ None \notin Task /\ None \notin Users

TypeOK ==
    /\ inMemory \in BOOLEAN
    /\ row \in [Users -> Row \cup {None}]
    /\ idOf \in [Names -> Users \cup {None}]
    /\ idsOf \in [Contacts -> SUBSET Users]
    /\ task \in [Handlers -> Task \cup {None}]
    /\ born \subseteq Users /\ moved \subseteq born
    /\ \A u \in Users \ born : row[u] = None

Init ==
    /\ inMemory \in BOOLEAN
    /\ row = [u \in Users |-> None]
    /\ idOf = [n \in Names |-> None]
    /\ idsOf = [c \in Contacts |-> {}]
    /\ task = [h \in Handlers |-> None]
    /\ born = {} /\ moved = {}

(***************************************************************************)
(* The repositories                                                        *)
(***************************************************************************)

Stored == {u \in Users : row[u] # None}
At(c) == {u \in Stored : c \in {row[u].email, row[u].phone}}

\* findByUsername finds somebody.
NameTaken(n) ==
    IF inMemory THEN idOf[n] # None /\ row[idOf[n]] # None
    ELSE \E u \in Stored : row[u].name = n

\* countByEmail, countByPhone
Counted(c) == Cardinality(IF inMemory THEN idsOf[c] ELSE At(c))

\* indexUser
Index(u, r) ==
    /\ row' = [row EXCEPT ![u] = r]
    /\ idOf' = IF inMemory THEN [idOf EXCEPT ![r.name] = u] ELSE idOf
    /\ idsOf' = IF inMemory THEN [c \in Contacts |-> IF c \in {r.email, r.phone} THEN idsOf[c] \cup {u}
                                                     ELSE idsOf[c]]
                ELSE idsOf

\* save: an INSERT, under the unique constraint on username, or indexUser.
Insert(u, r) ==
    /\ inMemory \/ ~NameTaken(r.name)
    /\ Index(u, r)

\* Mutant: the id is taken out of the sets after the user has been put in.
UpdateThenUnindex(u, r) ==
    /\ row' = [row EXCEPT ![u] = r]
    /\ idOf' = idOf
    /\ idsOf' = IF inMemory THEN [c \in Contacts |-> IF c \in {r.email, r.phone} THEN idsOf[c] \ {u}
                                                     ELSE idsOf[c]]
                ELSE idsOf

\* update: in memory the object stored under the id, from whose e-mail and phone
\* the id is taken away first, is the one that has just been changed.  So the
\* id stays with the former ones.
Update(u, r) == Index(u, r)

\* delete
Delete(u) ==
    LET r == row[u]
    IN  /\ row' = [row EXCEPT ![u] = None]
        /\ idOf' = IF inMemory THEN [idOf EXCEPT ![r.name] = None] ELSE idOf
        /\ idsOf' = IF inMemory THEN [c \in Contacts |-> IF c \in {r.email, r.phone} THEN idsOf[c] \ {u}
                                                         ELSE idsOf[c]]
                    ELSE idsOf

(***************************************************************************)
(* RegisterUser                                                            *)
(***************************************************************************)
SameUsers == UNCHANGED <<row, idOf, idsOf, born, moved>>

\* A handler goes on with task t, or ends.
Goto(h, t) == task' = [task EXCEPT ![h] = t] /\ UNCHANGED inMemory

\* The name is free ...
Register(h, r) ==
    /\ task[h] = None
    /\ ~NameTaken(r.name)
    /\ Goto(h, [step |-> "email", row |-> r])
    /\ SameUsers

\* Mutant: one account too many is let in.
BelowLimitOrAt(c) == Counted(c) <= MaxAccounts

BelowLimit(c) == Counted(c) < MaxAccounts

\* ... then the accounts of the e-mail are counted ...
CountEmail(h) ==
    LET t == task[h]
    IN  /\ t # None /\ t.step = "email"
        /\ Goto(h, IF BelowLimit(t.row.email) THEN [t EXCEPT !.step = "phone"] ELSE None)
        /\ SameUsers

\* ... and those of the phone ...
CountPhone(h) ==
    LET t == task[h]
    IN  /\ t # None /\ t.step = "phone"
        /\ Goto(h, IF BelowLimit(t.row.phone) THEN [t EXCEPT !.step = "save"] ELSE None)
        /\ SameUsers

\* ... and when the password is hashed the new user is saved, or the constraint
\* refuses it.
SaveUser(h) ==
    LET t == task[h]
    IN  /\ t # None /\ t.step = "save"
        /\ Goto(h, None)
        /\ \/ \E u \in Users \ born : Insert(u, t.row) /\ born' = born \cup {u} /\ UNCHANGED moved
           \/ ~inMemory /\ NameTaken(t.row.name) /\ SameUsers

(***************************************************************************)
(* Profiles and deletion                                                   *)
(***************************************************************************)

\* Those that have left the e-mail or the phone they had.
MovedBy(u, r) == IF row[u] = r THEN moved ELSE moved \cup {u}

\* UpdateProfile with a new e-mail, phone or both; with neither, any other
\* handler that writes the row of a user.  The limit is not looked at again.
\* In memory the user that was found is changed at once.
UpdateProfile(h, u, e, p) ==
    LET r == [row[u] EXCEPT !.email = e, !.phone = p]
    IN  /\ task[h] = None /\ row[u] # None
        /\ IF inMemory
           THEN Update(u, r) /\ moved' = MovedBy(u, r) /\ UNCHANGED <<inMemory, task, born>>
           ELSE Goto(h, [step |-> "update", user |-> u, row |-> r]) /\ SameUsers

\* Mutant: a row that is gone is inserted anew.
UpsertProfile(h) ==
    LET t == task[h]
    IN  /\ t # None /\ t.step = "update"
        /\ Goto(h, None)
        /\ Update(t.user, t.row)
        /\ moved' = IF row[t.user] = None THEN moved ELSE MovedBy(t.user, t.row)
        /\ UNCHANGED born

\* The row is written as it was read, but for the change, if it is still there.
WriteProfile(h) ==
    LET t == task[h]
    IN  /\ t # None /\ t.step = "update"
        /\ Goto(h, None)
        /\ \/ row[t.user] = None /\ SameUsers
           \/ /\ row[t.user] # None
              /\ Update(t.user, t.row)
              /\ moved' = MovedBy(t.user, t.row)
              /\ UNCHANGED born

\* DeleteAccount, after the password and the sessions
DeleteAccount(u) ==
    /\ row[u] # None
    /\ Delete(u)
    /\ UNCHANGED <<inMemory, task, born, moved>>

(***************************************************************************)
(* Failures                                                                *)
(***************************************************************************)

\* A query fails, or the process stops.
Abort(h) ==
    /\ task[h] # None
    /\ Goto(h, None)
    /\ SameUsers

\* The process with the repository in memory starts again.
Restart ==
    /\ inMemory
    /\ row' = [u \in Users |-> None]
    /\ idOf' = [n \in Names |-> None]
    /\ idsOf' = [c \in Contacts |-> {}]
    /\ task' = [h \in Handlers |-> None]
    /\ UNCHANGED <<inMemory, born, moved>>

Handler(h) ==
    \/ \E r \in Row : Register(h, r)
    \/ CountEmail(h) \/ CountPhone(h) \/ SaveUser(h)
    \/ \E u \in Users, e \in Emails, p \in Phones : UpdateProfile(h, u, e, p)
    \/ WriteProfile(h) \/ Abort(h)

Next == (\E h \in Handlers : Handler(h)) \/ (\E u \in Users : DeleteAccount(u)) \/ Restart

Spec == Init /\ [][Next]_vars

(***************************************************************************)
(* Properties                                                              *)
(***************************************************************************)

\* In memory no account is missing from the sets its limits are counted by,
\* although the object whose former e-mail and phone `update` asks for has
\* already got the new ones.
EveryAccountCounted ==
    inMemory => \A u \in Stored : u \in idsOf[row[u].email] \cap idsOf[row[u].phone]

\* Accounts that were registered with the contact and have kept it, and the
\* registrations that have found it below the limit.
Kept(c) == At(c) \ moved
AdmittedTo(c) ==
    {h \in Handlers : task[h] # None /\ \/ task[h].step = "phone" /\ task[h].row.email = c
                                        \/ task[h].step = "save" /\ c \in {task[h].row.email, task[h].row.phone}}

PerContact(c) == INSTANCE CheckThenAct
                WITH Actors <- Handlers, Limit <- MaxAccounts,
                     done <- Cardinality(Kept(c)), admitted <- AdmittedTo(c)

\* Every contact is limited as CheckThenAct says: the registrations overrun the
\* limit by no more than those that are counted at the same time, whatever is
\* deleted, moved or lost meanwhile.
LimitsContacts ==
    /\ \A c \in Contacts : PerContact(c)!Init
    /\ [][\A c \in Contacts : [PerContact(c)!Next]_(PerContact(c)!vars)]_vars

\* An account that was deleted stays so, whoever still has a copy of its row.
DeletedStaysDeleted ==
    [][\A u \in born : row[u] = None => row'[u] = None]_vars
=============================================================================
