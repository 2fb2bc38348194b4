------------------------- MODULE RegistrationProofs -------------------------
(***************************************************************************)
(* For any number of users, names, contacts and requests served at once,   *)
(* over either repository: no account is missing from the sets by which    *)
(* the accounts of a contact are counted, every contact is limited as      *)
(* CheckThenAct says, and a deleted account stays deleted.                 *)
(***************************************************************************)
EXTENDS Registration, FiniteSetTheorems, TLAPS

\* The limit rests on no account being missing where its contact is counted.
AccountsInv == TypeOK /\ EveryAccountCounted

(***************************************************************************)
(* What a step does                                                        *)
(***************************************************************************)

\* The rows, the indexes and the history stay in their sets, and the sets of a
\* contact keep whoever has it.
Consistent ==
    /\ row' \in [Users -> Row \cup {None}]
    /\ idOf' \in [Names -> Users \cup {None}]
    /\ idsOf' \in [Contacts -> SUBSET Users]
    /\ born' \subseteq Users /\ moved' \subseteq born'
    /\ \A u \in Users \ born' : row'[u] = None
    /\ EveryAccountCounted'

LEMMA RowFields ==
    ASSUME NEW r \in Row
    PROVE  /\ r # None /\ r.name \in Names /\ r.email \in Emails /\ r.phone \in Phones
           /\ r.email \in Contacts /\ r.phone \in Contacts
BY NoneAssumption DEF Row, Contacts

LEMMA TaskFields ==
    ASSUME NEW t \in Task
    PROVE  /\ t # None /\ t.row \in Row
           /\ t.step \in {"email", "phone", "save", "update"}
           /\ t.step = "update" => t.user \in Users
BY NoneAssumption DEF Task

LEMMA RowOf ==
    ASSUME TypeOK, NEW u \in Stored
    PROVE  u \in Users /\ row[u] # None /\ row[u] \in Row /\ u \in born
BY DEF TypeOK, Stored

LEMMA GoesTo ==
    ASSUME TypeOK, NEW h \in Handlers, NEW t \in Task \cup {None}, Goto(h, t)
    PROVE  /\ task' \in [Handlers -> Task \cup {None}] /\ inMemory' = inMemory
           /\ task'[h] = t /\ \A g \in Handlers : g # h => task'[g] = task[g]
BY DEF TypeOK, Goto

LEMMA SameConsistent ==
    ASSUME AccountsInv, SameUsers, UNCHANGED inMemory
    PROVE  Consistent
BY DEF AccountsInv, TypeOK, SameUsers, Consistent, EveryAccountCounted, Stored

\* Whoever is put in is in the sets of both contacts, and nobody is taken out.
LEMMA IndexConsistent ==
    ASSUME AccountsInv, NEW u \in Users, NEW r \in Row, Index(u, r), UNCHANGED inMemory,
           born' \subseteq Users, born \subseteq born', u \in born', moved' \subseteq born'
    PROVE  Consistent
<1>. USE DEF AccountsInv
<1>1. r # None /\ r.name \in Names /\ r.email \in Contacts /\ r.phone \in Contacts
  BY RowFields
<1>2. row' \in [Users -> Row \cup {None}] /\ row'[u] = r
      /\ \A v \in Users : v # u => row'[v] = row[v]
  BY DEF TypeOK, Index
<1>3. idOf' \in [Names -> Users \cup {None}]
  BY <1>1 DEF TypeOK, Index
<1>4. idsOf' \in [Contacts -> SUBSET Users] /\ \A c \in Contacts : idsOf[c] \subseteq idsOf'[c]
  BY DEF TypeOK, Index
<1>5. inMemory => u \in idsOf'[r.email] /\ u \in idsOf'[r.phone]
  BY <1>1 DEF Index
<1>6. \A v \in Users \ born' : row'[v] = None
  BY <1>2 DEF TypeOK
<1>7. EveryAccountCounted'
  <2>. SUFFICES ASSUME inMemory, NEW v \in Stored'
                PROVE  v \in idsOf'[row'[v].email] /\ v \in idsOf'[row'[v].phone]
    BY DEF EveryAccountCounted
  <2>1. v \in Users /\ row'[v] # None
    BY DEF Stored
  <2>2. CASE v = u
    BY <1>2, <1>5, <2>2
  <2>3. CASE v # u
    <3>1. row'[v] = row[v] /\ v \in Stored
      BY <1>2, <2>1, <2>3 DEF Stored
    <3>2. row[v].email \in Contacts /\ row[v].phone \in Contacts
      BY <3>1, RowOf, RowFields
    <3>. QED BY <1>4, <3>1, <3>2 DEF EveryAccountCounted
  <2>. QED BY <2>2, <2>3
<1>. QED BY <1>2, <1>3, <1>4, <1>6, <1>7 DEF Consistent

LEMMA DeleteConsistent ==
    ASSUME AccountsInv, NEW u \in Users, DeleteAccount(u)
    PROVE  Consistent
<1>. USE DEF AccountsInv
<1>0. u \in Stored
  BY DEF DeleteAccount, Stored
<1>1. row[u] \in Row /\ row[u].name \in Names
  BY <1>0, RowOf, RowFields
<1>2. row' \in [Users -> Row \cup {None}] /\ row'[u] = None
      /\ \A v \in Users : v # u => row'[v] = row[v]
  BY DEF TypeOK, DeleteAccount, Delete
<1>3. idOf' \in [Names -> Users \cup {None}]
  BY <1>1 DEF TypeOK, DeleteAccount, Delete
<1>4. idsOf' \in [Contacts -> SUBSET Users] /\ \A c \in Contacts : idsOf[c] \ {u} \subseteq idsOf'[c]
  BY DEF TypeOK, DeleteAccount, Delete
<1>5. UNCHANGED <<inMemory, born, moved>>
  BY DEF DeleteAccount
<1>6. EveryAccountCounted'
  <2>. SUFFICES ASSUME inMemory, NEW v \in Stored'
                PROVE  v \in idsOf'[row'[v].email] /\ v \in idsOf'[row'[v].phone]
    BY <1>5 DEF EveryAccountCounted
  <2>1. v \in Stored /\ v # u /\ row'[v] = row[v]
    BY <1>2 DEF Stored
  <2>2. row[v].email \in Contacts /\ row[v].phone \in Contacts
    BY <2>1, RowOf, RowFields
  <2>. QED BY <1>4, <2>1, <2>2 DEF EveryAccountCounted
<1>. QED BY <1>2, <1>3, <1>4, <1>5, <1>6 DEF Consistent, TypeOK

LEMMA RestartConsistent ==
    ASSUME AccountsInv, Restart
    PROVE  Consistent
BY DEF AccountsInv, TypeOK, Restart, Consistent, EveryAccountCounted, Stored

\* The row read, but for the contacts.
LEMMA ChangedRow ==
    ASSUME NEW r \in Row, NEW e \in Emails, NEW p \in Phones
    PROVE  [r EXCEPT !.email = e, !.phone = p] \in Row
BY DEF Row

LEMMA MovedBorn ==
    ASSUME TypeOK, NEW u \in Stored, NEW r
    PROVE  MovedBy(u, r) \subseteq born /\ u \in born /\ moved \subseteq MovedBy(u, r)
BY RowOf DEF TypeOK, MovedBy

(***************************************************************************)
(* The steps of a handler, each by what it does to the rows                *)
(***************************************************************************)

\* h goes on with t, or ends; the users stay as they are.
GoesOn(h, t) == Goto(h, t) /\ SameUsers

\* The user u is new.
Inserts(h, u) ==
    /\ u \in Users \ born /\ task[h] # None /\ task[h].step = "save"
    /\ Goto(h, None) /\ Index(u, task[h].row)
    /\ born' = born \cup {u} /\ UNCHANGED moved

\* The user u gets the row r.
Writes(u, r) ==
    /\ u \in Stored /\ r \in Row
    /\ Update(u, r) /\ moved' = MovedBy(u, r) /\ UNCHANGED <<inMemory, born>>
    /\ \/ UNCHANGED task
       \/ \E h \in Handlers : task[h] # None /\ task[h].step = "update" /\ Goto(h, None)

LEMMA HandlerEffect ==
    ASSUME AccountsInv, NEW h \in Handlers, Handler(h)
    PROVE  \/ GoesOn(h, None)
           \/ task[h] = None /\ \E t \in Task : t.step \in {"email", "update"} /\ GoesOn(h, t)
           \/ /\ task[h] # None /\ task[h].step = "email" /\ BelowLimit(task[h].row.email)
              /\ \E t \in Task : t.step = "phone" /\ t.row = task[h].row /\ GoesOn(h, t)
           \/ /\ task[h] # None /\ task[h].step = "phone" /\ BelowLimit(task[h].row.phone)
              /\ \E t \in Task : t.step = "save" /\ t.row = task[h].row /\ GoesOn(h, t)
           \/ \E u \in Users : Inserts(h, u)
           \/ \E u \in Users, r \in Row : Writes(u, r)
<1>. USE DEF AccountsInv
<1>0. task[h] # None => task[h] \in Task
  BY DEF TypeOK
<1>1. ASSUME NEW r \in Row, Register(h, r)
      PROVE  task[h] = None /\ \E t \in Task : t.step \in {"email", "update"} /\ GoesOn(h, t)
  <2>. DEFINE t == [step |-> "email", row |-> r]
  <2>1. t \in Task /\ t.step = "email"
    BY DEF Task
  <2>. QED BY <1>1, <2>1 DEF Register, GoesOn
<1>2. ASSUME CountEmail(h), ~GoesOn(h, None)
      PROVE  /\ task[h] # None /\ task[h].step = "email" /\ BelowLimit(task[h].row.email)
             /\ \E t \in Task : t.step = "phone" /\ t.row = task[h].row /\ GoesOn(h, t)
  <2>. DEFINE t == [task[h] EXCEPT !.step = "phone"]
  <2>1. task[h] # None /\ task[h].step = "email" /\ BelowLimit(task[h].row.email) /\ GoesOn(h, t)
    BY <1>2 DEF CountEmail, GoesOn
  <2>2. t \in Task /\ t.step = "phone" /\ t.row = task[h].row
    BY <1>0, <2>1 DEF Task
  <2>. HIDE DEF t
  <2>. QED BY <2>1, <2>2
<1>3. ASSUME CountPhone(h), ~GoesOn(h, None)
      PROVE  /\ task[h] # None /\ task[h].step = "phone" /\ BelowLimit(task[h].row.phone)
             /\ \E t \in Task : t.step = "save" /\ t.row = task[h].row /\ GoesOn(h, t)
  <2>. DEFINE t == [task[h] EXCEPT !.step = "save"]
  <2>1. task[h] # None /\ task[h].step = "phone" /\ BelowLimit(task[h].row.phone) /\ GoesOn(h, t)
    BY <1>3 DEF CountPhone, GoesOn
  <2>2. t \in Task /\ t.step = "save" /\ t.row = task[h].row
    BY <1>0, <2>1 DEF Task
  <2>. HIDE DEF t
  <2>. QED BY <2>1, <2>2
<1>4. ASSUME SaveUser(h)
      PROVE  GoesOn(h, None) \/ \E u \in Users : Inserts(h, u)
  BY <1>4 DEF SaveUser, Insert, Inserts, GoesOn
<1>5. ASSUME NEW u \in Users, NEW e \in Emails, NEW p \in Phones, UpdateProfile(h, u, e, p)
      PROVE  \/ task[h] = None /\ \E t \in Task : t.step \in {"email", "update"} /\ GoesOn(h, t)
             \/ \E v \in Users, r \in Row : Writes(v, r)
  <2>. DEFINE r == [row[u] EXCEPT !.email = e, !.phone = p]
              t == [step |-> "update", user |-> u, row |-> r]
  <2>1. u \in Stored /\ task[h] = None
    BY <1>5 DEF UpdateProfile, Stored
  <2>2. r \in Row
    BY <2>1, RowOf, ChangedRow
  <2>3. \/ inMemory /\ Update(u, r) /\ moved' = MovedBy(u, r) /\ UNCHANGED <<inMemory, task, born>>
        \/ Goto(h, t) /\ SameUsers
    BY <1>5 DEF UpdateProfile
  <2>. HIDE DEF r
  <2>4. t \in Task /\ t.step = "update"
    BY <2>2 DEF Task
  <2>. HIDE DEF t
  <2>5. CASE inMemory /\ Update(u, r) /\ moved' = MovedBy(u, r) /\ UNCHANGED <<inMemory, task, born>>
    <3>1. Writes(u, r)
      BY <2>1, <2>2, <2>5 DEF Writes
    <3>. QED BY <2>2, <3>1
  <2>6. CASE Goto(h, t) /\ SameUsers
    BY <2>1, <2>4, <2>6 DEF GoesOn
  <2>. QED BY <2>3, <2>5, <2>6
<1>6. ASSUME WriteProfile(h)
      PROVE  GoesOn(h, None) \/ \E u \in Users, r \in Row : Writes(u, r)
  <2>1. task[h] # None /\ task[h].step = "update" /\ Goto(h, None)
    BY <1>6 DEF WriteProfile
  <2>2. task[h].user \in Users /\ task[h].row \in Row
    BY <1>0, <2>1, TaskFields
  <2>3. CASE row[task[h].user] = None /\ SameUsers
    BY <2>1, <2>3 DEF GoesOn
  <2>4. CASE /\ row[task[h].user] # None
             /\ Update(task[h].user, task[h].row)
             /\ moved' = MovedBy(task[h].user, task[h].row)
             /\ UNCHANGED born
    <3>1. UNCHANGED inMemory
      BY <2>1 DEF Goto
    <3>2. Writes(task[h].user, task[h].row)
      BY <2>1, <2>2, <2>4, <3>1 DEF Writes, Stored
    <3>. QED BY <2>2, <3>2
  <2>. QED BY <1>6, <2>3, <2>4 DEF WriteProfile
<1>7. ASSUME Abort(h) PROVE GoesOn(h, None)
  BY <1>7 DEF Abort, GoesOn
<1>. QED BY <1>1, <1>2, <1>3, <1>4, <1>5, <1>6, <1>7 DEF Handler

LEMMA InsertsConsistent ==
    ASSUME AccountsInv, NEW h \in Handlers, NEW u \in Users, Inserts(h, u)
    PROVE  Consistent
<1>1. task[h] \in Task /\ task[h].row \in Row
  BY TaskFields DEF AccountsInv, TypeOK, Inserts
<1>2. /\ Index(u, task[h].row) /\ UNCHANGED inMemory
      /\ born' \subseteq Users /\ born \subseteq born' /\ u \in born' /\ moved' \subseteq born'
  BY DEF AccountsInv, TypeOK, Inserts, Goto
<1>. QED BY <1>1, <1>2, IndexConsistent

LEMMA WritesConsistent ==
    ASSUME AccountsInv, NEW u \in Users, NEW r \in Row, Writes(u, r)
    PROVE  Consistent
<1>1. u \in Stored
  BY DEF Writes
<1>2. MovedBy(u, r) \subseteq born /\ u \in born
  BY <1>1, MovedBorn DEF AccountsInv
<1>3. /\ Index(u, r) /\ UNCHANGED inMemory
      /\ born' \subseteq Users /\ born \subseteq born' /\ u \in born' /\ moved' \subseteq born'
  BY <1>2 DEF AccountsInv, TypeOK, Writes, Update
<1>. QED BY <1>3, IndexConsistent

\* The tasks stay in their set.
LEMMA TasksTyped ==
    ASSUME AccountsInv, NEW h \in Handlers, NEW t \in Task \cup {None}, Goto(h, t), Consistent
    PROVE  AccountsInv'
BY GoesTo DEF AccountsInv, Consistent, TypeOK

LEMMA NextAccounts ==
    ASSUME AccountsInv, [Next]_vars
    PROVE  AccountsInv'
<1>1. ASSUME NEW h \in Handlers, NEW t \in Task \cup {None}, GoesOn(h, t) PROVE AccountsInv'
  <2>1. Consistent
    BY <1>1, SameConsistent DEF GoesOn, Goto
  <2>. QED BY <1>1, <2>1, TasksTyped DEF GoesOn
<1>2. ASSUME NEW h \in Handlers, NEW u \in Users, Inserts(h, u) PROVE AccountsInv'
  BY <1>2, InsertsConsistent, TasksTyped DEF Inserts
<1>3. ASSUME NEW u \in Users, NEW r \in Row, Writes(u, r) PROVE AccountsInv'
  <2>1. Consistent
    BY <1>3, WritesConsistent
  <2>2. CASE UNCHANGED task
    BY <1>3, <2>1, <2>2 DEF AccountsInv, Consistent, TypeOK, Writes
  <2>. QED BY <1>3, <2>1, <2>2, TasksTyped DEF Writes
<1>4. ASSUME NEW h \in Handlers, Handler(h) PROVE AccountsInv'
  BY <1>1, <1>2, <1>3, <1>4, HandlerEffect
<1>5. ASSUME NEW u \in Users, DeleteAccount(u) PROVE AccountsInv'
  BY <1>5, DeleteConsistent DEF AccountsInv, Consistent, TypeOK, DeleteAccount
<1>6. CASE Restart
  BY <1>6, RestartConsistent DEF AccountsInv, Consistent, TypeOK, Restart
<1>7. CASE UNCHANGED vars
  BY <1>7 DEF vars, AccountsInv, TypeOK, EveryAccountCounted, Stored
<1>. QED BY <1>4, <1>5, <1>6, <1>7 DEF Next

LEMMA InitAccounts == Init => AccountsInv
BY DEF Init, AccountsInv, TypeOK, EveryAccountCounted, Stored

(***************************************************************************)
(* The limit                                                               *)
(***************************************************************************)
Allowed(c) == [PerContact(c)!Next]_(PerContact(c)!vars)

\* Users can be counted, and are one more with one that was not among them.
LEMMA Countable ==
    ASSUME NEW S, S \subseteq Users
    PROVE  /\ IsFiniteSet(S) /\ Cardinality(S) \in Nat
           /\ \A T : T \subseteq S => Cardinality(T) \in 0 .. Cardinality(S)
           /\ \A u : u \notin S => Cardinality(S \cup {u}) = Cardinality(S) + 1
<1>1. IsFiniteSet(S)
  BY RegistrationAssumption, FS_Subset
<1>2. \A T : T \subseteq S => IsFiniteSet(T) /\ Cardinality(T) \in Nat /\ Cardinality(T) <= Cardinality(S)
  BY <1>1, FS_Subset, FS_CardinalityType
<1>. QED BY <1>1, <1>2, FS_CardinalityType, FS_AddElement

LEMMA KeptUsers == \A c : Kept(c) \subseteq Users /\ Kept(c)' \subseteq Users
BY DEF Kept, At, Stored

LEMMA Withdrawn ==
    ASSUME NEW c, Kept(c)' \subseteq Kept(c), AdmittedTo(c)' \subseteq AdmittedTo(c)
    PROVE  Allowed(c)
BY KeptUsers, Countable DEF Allowed, PerContact!Next, PerContact!Withdraw

\* What is counted for a contact is at least those who have kept it.
LEMMA KeptAreCounted ==
    ASSUME AccountsInv, NEW c \in Contacts, BelowLimit(c)
    PROVE  Cardinality(Kept(c)) < MaxAccounts
<1>. DEFINE counted == IF inMemory THEN idsOf[c] ELSE At(c)
<1>1. Kept(c) \subseteq counted
  BY DEF AccountsInv, EveryAccountCounted, Kept, At
<1>2. counted \subseteq Users
  BY DEF AccountsInv, TypeOK, At, Stored
<1>3. Cardinality(counted) < MaxAccounts
  BY DEF BelowLimit, Counted
<1>. HIDE DEF counted
<1>4. Cardinality(counted) \in Nat /\ Cardinality(Kept(c)) \in 0 .. Cardinality(counted)
  BY <1>1, <1>2, Countable
<1>. QED BY <1>3, <1>4, RegistrationAssumption

\* A step of h changes nobody else's registration.
LEMMA OthersStand ==
    ASSUME AccountsInv, NEW h \in Handlers, NEW t \in Task \cup {None}, Goto(h, t), NEW c
    PROVE  /\ \A g \in Handlers : g # h => (g \in AdmittedTo(c)' <=> g \in AdmittedTo(c))
           /\ AdmittedTo(c) \subseteq Handlers /\ AdmittedTo(c)' \subseteq Handlers
           /\ h \in AdmittedTo(c)' <=>
                /\ t # None
                /\ \/ t.step = "phone" /\ t.row.email = c
                   \/ t.step = "save" /\ c \in {t.row.email, t.row.phone}
BY GoesTo DEF AccountsInv, AdmittedTo

LEMMA SameKept ==
    ASSUME SameUsers, NEW c
    PROVE  Kept(c)' = Kept(c)
BY DEF SameUsers, Kept, At, Stored

\* Nobody is admitted anew.
LEMMA NobodyAdmitted ==
    ASSUME AccountsInv, NEW h \in Handlers, NEW t \in Task \cup {None}, GoesOn(h, t),
           t = None \/ t.step \in {"email", "update"}, NEW c
    PROVE  Allowed(c)
<1>1. h \notin AdmittedTo(c)'
  BY OthersStand DEF GoesOn
<1>2. AdmittedTo(c)' \subseteq AdmittedTo(c)
  BY <1>1, OthersStand DEF GoesOn
<1>3. Kept(c)' = Kept(c)
  BY SameKept DEF GoesOn
<1>. QED BY <1>2, <1>3, Withdrawn

\* h is admitted to c, and to nothing else that it was not admitted to before.
LEMMA AdmittedAllowed ==
    ASSUME AccountsInv, NEW h \in Handlers, NEW t \in Task, GoesOn(h, t), NEW d \in Contacts, BelowLimit(d),
           NEW c, h \in AdmittedTo(c)' <=> (c = d \/ h \in AdmittedTo(c))
    PROVE  Allowed(c)
<1>1. Kept(c)' = Kept(c)
  BY SameKept DEF GoesOn
<1>2. /\ \A g \in Handlers : g # h => (g \in AdmittedTo(c)' <=> g \in AdmittedTo(c))
      /\ AdmittedTo(c) \subseteq Handlers /\ AdmittedTo(c)' \subseteq Handlers
  BY OthersStand DEF GoesOn
<1>3. CASE c = d /\ h \notin AdmittedTo(c)
  <2>1. AdmittedTo(c)' = AdmittedTo(c) \cup {h}
    BY <1>2, <1>3
  <2>2. Cardinality(Kept(c)) < MaxAccounts
    BY <1>3, KeptAreCounted
  <2>. QED BY <1>1, <1>3, <2>1, <2>2 DEF Allowed, PerContact!Next, PerContact!Admit
<1>4. CASE ~(c = d /\ h \notin AdmittedTo(c))
  <2>1. AdmittedTo(c)' \subseteq AdmittedTo(c)
    BY <1>2, <1>4
  <2>. QED BY <1>1, <2>1, Withdrawn
<1>. QED BY <1>3, <1>4

\* Emails and phones have no member in common, so the count of the phone admits to
\* the phone alone.
LEMMA CountAllowed ==
    ASSUME AccountsInv, NEW h \in Handlers, task[h] # None, NEW t \in Task, t.row = task[h].row, GoesOn(h, t),
           \/ task[h].step = "email" /\ BelowLimit(task[h].row.email) /\ t.step = "phone"
           \/ task[h].step = "phone" /\ BelowLimit(task[h].row.phone) /\ t.step = "save",
           NEW c
    PROVE  Allowed(c)
<1>1. task[h] \in Task /\ task[h].row.email \in Contacts /\ task[h].row.phone \in Contacts
  BY TaskFields, RowFields DEF AccountsInv, TypeOK
<1>2. t # None
  BY TaskFields
<1>3. CASE task[h].step = "email" /\ BelowLimit(task[h].row.email) /\ t.step = "phone"
  <2>1. h \in AdmittedTo(c)' <=> c = task[h].row.email
    BY <1>2, <1>3, OthersStand DEF GoesOn
  <2>2. h \notin AdmittedTo(c)
    BY <1>3 DEF AdmittedTo
  <2>. QED BY <1>1, <1>3, <2>1, <2>2, AdmittedAllowed
<1>4. CASE task[h].step = "phone" /\ BelowLimit(task[h].row.phone) /\ t.step = "save"
  <2>1. h \in AdmittedTo(c)' <=> c \in {task[h].row.email, task[h].row.phone}
    BY <1>2, <1>4, OthersStand DEF GoesOn
  <2>2. h \in AdmittedTo(c) <=> c = task[h].row.email
    BY <1>4 DEF AdmittedTo
  <2>. QED BY <1>1, <1>4, <2>1, <2>2, AdmittedAllowed
<1>. QED BY <1>3, <1>4

\* The registration of h is done: it acts for its e-mail and its phone.
LEMMA InsertsAllowed ==
    ASSUME AccountsInv, NEW h \in Handlers, NEW u \in Users, Inserts(h, u), NEW c
    PROVE  Allowed(c)
<1>. DEFINE r == task[h].row
<1>1. /\ u \notin born /\ task[h] # None /\ task[h].step = "save" /\ Goto(h, None)
      /\ row' = [row EXCEPT ![u] = r] /\ UNCHANGED moved /\ u \notin moved
  BY DEF Inserts, Index, AccountsInv, TypeOK
<1>2. r \in Row /\ r # None
  BY <1>1, TaskFields, RowFields DEF AccountsInv, TypeOK
<1>3. row[u] = None /\ \A v \in Users : row'[v] = IF v = u THEN r ELSE row[v]
  BY <1>1 DEF AccountsInv, TypeOK
<1>4. u \notin Kept(c)
  BY <1>3 DEF Kept, At, Stored
<1>5. h \in AdmittedTo(c) <=> c \in {r.email, r.phone}
  BY <1>1 DEF AdmittedTo
<1>6. AdmittedTo(c)' = AdmittedTo(c) \ {h}
  BY <1>1, OthersStand
<1>. HIDE DEF r
<1>7. Kept(c)' = IF c \in {r.email, r.phone} THEN Kept(c) \cup {u} ELSE Kept(c)
  BY <1>1, <1>2, <1>3 DEF Kept, At, Stored
<1>8. CASE c \in {r.email, r.phone}
  <2>1. Cardinality(Kept(c)') = Cardinality(Kept(c)) + 1
    BY <1>4, <1>7, <1>8, KeptUsers, Countable
  <2>. QED BY <1>5, <1>6, <1>8, <2>1 DEF Allowed, PerContact!Next, PerContact!Act
<1>9. CASE c \notin {r.email, r.phone}
  BY <1>6, <1>7, <1>9, Withdrawn
<1>. QED BY <1>8, <1>9

\* An account that gets another e-mail or phone does not count as registered there.
LEMMA WritesAllowed ==
    ASSUME AccountsInv, NEW u \in Users, NEW r \in Row, Writes(u, r), NEW c
    PROVE  Allowed(c)
<1>1. row' = [row EXCEPT ![u] = r] /\ moved' = MovedBy(u, r) /\ u \in Stored
  BY DEF Writes, Update, Index
<1>2. moved \subseteq moved' /\ (row[u] = r \/ u \in moved')
  BY <1>1 DEF MovedBy
<1>3. \A v \in Users : v = u \/ row'[v] = row[v]
  BY <1>1 DEF AccountsInv, TypeOK
<1>4. row'[u] = r
  BY <1>1 DEF AccountsInv, TypeOK
<1>5. Kept(c)' \subseteq Kept(c)
  BY <1>1, <1>2, <1>3, <1>4 DEF Kept, At, Stored
<1>6. AdmittedTo(c)' \subseteq AdmittedTo(c)
  <2>1. CASE UNCHANGED task
    BY <2>1 DEF AdmittedTo
  <2>2. ASSUME NEW h \in Handlers, Goto(h, None) PROVE AdmittedTo(c)' \subseteq AdmittedTo(c)
    <3>1. h \notin AdmittedTo(c)'
      BY <2>2, OthersStand
    <3>. QED BY <2>2, <3>1, OthersStand
  <2>. QED BY <2>1, <2>2 DEF Writes
<1>. QED BY <1>5, <1>6, Withdrawn

LEMMA NextAllowed ==
    ASSUME AccountsInv, [Next]_vars, NEW c
    PROVE  Allowed(c)
<1>1. ASSUME NEW h \in Handlers, Handler(h) PROVE Allowed(c)
  <2>1. GoesOn(h, None) => Allowed(c)
    BY NobodyAdmitted
  <2>2. \A t \in Task : t.step \in {"email", "update"} /\ GoesOn(h, t) => Allowed(c)
    BY NobodyAdmitted
  <2>3. ASSUME NEW t \in Task, task[h] # None, t.row = task[h].row, GoesOn(h, t),
               \/ task[h].step = "email" /\ BelowLimit(task[h].row.email) /\ t.step = "phone"
               \/ task[h].step = "phone" /\ BelowLimit(task[h].row.phone) /\ t.step = "save"
        PROVE  Allowed(c)
    BY <2>3, CountAllowed
  <2>. QED BY <1>1, <2>1, <2>2, <2>3, HandlerEffect, InsertsAllowed, WritesAllowed
<1>2. ASSUME NEW u \in Users, DeleteAccount(u) PROVE Allowed(c)
  <2>1. \A v \in Users : row'[v] = None \/ row'[v] = row[v]
    BY <1>2 DEF DeleteAccount, Delete, AccountsInv, TypeOK
  <2>2. Kept(c)' \subseteq Kept(c)
    BY <1>2, <2>1 DEF DeleteAccount, Kept, At, Stored
  <2>3. AdmittedTo(c)' = AdmittedTo(c)
    BY <1>2 DEF DeleteAccount, AdmittedTo
  <2>. QED BY <2>2, <2>3, Withdrawn
<1>3. CASE Restart
  <2>1. Kept(c)' = {} /\ AdmittedTo(c)' = {}
    BY <1>3 DEF Restart, Kept, At, Stored, AdmittedTo
  <2>. QED BY <2>1, Withdrawn
<1>4. CASE UNCHANGED vars
  <2>1. Kept(c)' = Kept(c) /\ AdmittedTo(c)' = AdmittedTo(c)
    BY <1>4 DEF vars, Kept, At, Stored, AdmittedTo
  <2>. QED BY <2>1, Withdrawn
<1>. QED BY <1>1, <1>2, <1>3, <1>4 DEF Next

\* A row that is gone is written by nobody: an id is inserted only while it is new.
LEMMA NextDeleted ==
    ASSUME AccountsInv, [Next]_vars, NEW u \in born, row[u] = None
    PROVE  row'[u] = None
<1>0. u \in Users
  BY DEF AccountsInv, TypeOK
<1>1. ASSUME NEW h \in Handlers, Handler(h) PROVE row'[u] = None
  <2>1. ASSUME NEW t, GoesOn(h, t) PROVE row'[u] = None
    BY <2>1 DEF GoesOn, SameUsers
  <2>2. ASSUME NEW v \in Users, Inserts(h, v) PROVE row'[u] = None
    BY <1>0, <2>2 DEF Inserts, Index, AccountsInv, TypeOK
  <2>3. ASSUME NEW v \in Users, NEW r \in Row, Writes(v, r) PROVE row'[u] = None
    BY <1>0, <2>3 DEF Writes, Update, Index, Stored, AccountsInv, TypeOK
  <2>. QED BY <1>1, <2>1, <2>2, <2>3, HandlerEffect
<1>2. ASSUME NEW v \in Users, DeleteAccount(v) PROVE row'[u] = None
  BY <1>0, <1>2 DEF DeleteAccount, Delete, AccountsInv, TypeOK
<1>3. CASE Restart
  BY <1>0, <1>3 DEF Restart
<1>4. CASE UNCHANGED vars
  BY <1>4 DEF vars
<1>. QED BY <1>1, <1>2, <1>3, <1>4 DEF Next

(***************************************************************************)
(* The theorems                                                            *)
(***************************************************************************)
LEMMA Invariant == Spec => []AccountsInv
<1>1. AccountsInv /\ [Next]_vars => AccountsInv'
  BY NextAccounts
<1>. QED BY <1>1, InitAccounts, PTL DEF Spec

\* Every variable keeps to its set: no row is that of an id never drawn.
THEOREM TypeCorrect == Spec => []TypeOK
<1>1. AccountsInv => TypeOK
  BY DEF AccountsInv
<1>. QED BY <1>1, Invariant, PTL

\* In memory the sets that countByEmail and countByPhone look at miss no account,
\* although `update` takes the id out of sets chosen by the contacts already changed.
THEOREM AllCounted == Spec => []EveryAccountCounted
<1>1. AccountsInv => EveryAccountCounted
  BY DEF AccountsInv
<1>. QED BY <1>1, Invariant, PTL

\* RegisterUser counts the accounts of the e-mail and of the phone long before it
\* saves, and still keeps to the limit but for registrations counted together.
THEOREM ContactsLimited == Spec => LimitsContacts
<1>1. Init => \A c \in Contacts : PerContact(c)!Init
  BY FS_EmptySet DEF Init, PerContact!Init, Kept, At, Stored, AdmittedTo
<1>2. AccountsInv /\ [Next]_vars =>
        [\A c \in Contacts : [PerContact(c)!Next]_(PerContact(c)!vars)]_vars
  BY NextAllowed DEF Allowed
<1>. QED BY <1>1, <1>2, Invariant, PTL DEF Spec, LimitsContacts

\* The accounts of a contact, those about to be saved included.
Load(c) == Cardinality(Kept(c)) + Cardinality(AdmittedTo(c))

LEMMA LoadBounded ==
    ASSUME NEW c, Allowed(c), Load(c) <= MaxAccounts - 1 + Cardinality(Handlers)
    PROVE  Load(c)' <= MaxAccounts - 1 + Cardinality(Handlers)
<1>. DEFINE d == Cardinality(Kept(c))
            e == Cardinality(Kept(c)')
            A == AdmittedTo(c)
            B == AdmittedTo(c)'
            N == Cardinality(Handlers)
<1>1. d \in Nat /\ e \in Nat
  BY KeptUsers, Countable
<1>2. IsFiniteSet(Handlers) /\ N \in Nat /\ MaxAccounts \in Nat \ {0}
  BY RegistrationAssumption, FS_CardinalityType
<1>3. A \subseteq Handlers /\ B \subseteq Handlers
  BY DEF AdmittedTo
<1>4. /\ IsFiniteSet(A) /\ Cardinality(A) \in Nat
      /\ Cardinality(B) \in Nat /\ Cardinality(B) <= N
  BY <1>2, <1>3, FS_Subset, FS_CardinalityType
<1>5. /\ Load(c) = d + Cardinality(A)
      /\ Load(c)' = e + Cardinality(B)
  BY DEF Load
<1>6. \/ d < MaxAccounts /\ e = d
      \/ \E a \in A : B = A \ {a} /\ e = d + 1
      \/ B \subseteq A /\ e \in 0 .. d
  <2>1. CASE PerContact(c)!Next
    BY <2>1 DEF PerContact!Next, PerContact!Admit, PerContact!Act, PerContact!Withdraw
  <2>2. CASE UNCHANGED PerContact(c)!vars
    BY <1>1, <2>2 DEF PerContact!vars
  <2>. QED BY <2>1, <2>2 DEF Allowed
<1>. HIDE DEF d, e, A, B, N
<1>7. \A a \in A : Cardinality(A \ {a}) = Cardinality(A) - 1
  BY <1>4, FS_RemoveElement
<1>8. B \subseteq A => Cardinality(B) <= Cardinality(A)
  BY <1>4, FS_Subset
<1>9. d + Cardinality(A) <= MaxAccounts - 1 + N
  BY <1>5 DEF N
<1>10. e + Cardinality(B) <= MaxAccounts - 1 + N
  BY <1>1, <1>2, <1>4, <1>6, <1>7, <1>8, <1>9
<1>. QED BY <1>5, <1>10 DEF N

\* In numbers: however many registrations arrive together, the accounts registered
\* with an e-mail or phone exceed MAX_ACCOUNTS_PER_CONTACT by fewer than them.
THEOREM ContactsBounded ==
    Spec => [](\A c \in Contacts : Load(c) <= MaxAccounts - 1 + Cardinality(Handlers))
<1>. DEFINE Bounded == \A c \in Contacts : Load(c) <= MaxAccounts - 1 + Cardinality(Handlers)
<1>1. Init => Bounded
  <2>1. Init => \A c \in Contacts : Load(c) = 0
    <3>. SUFFICES ASSUME Init, NEW c \in Contacts PROVE Load(c) = 0
      OBVIOUS
    <3>1. Kept(c) = {}
      BY DEF Init, Kept, At, Stored
    <3>2. AdmittedTo(c) = {}
      BY DEF Init, AdmittedTo
    <3>3. Cardinality({}) = 0
      BY FS_EmptySet
    <3>. QED BY <3>1, <3>2, <3>3 DEF Load
  <2>2. Cardinality(Handlers) \in Nat /\ MaxAccounts \in Nat \ {0}
    BY RegistrationAssumption, FS_CardinalityType
  <2>. QED BY <2>1, <2>2
<1>2. AccountsInv /\ Bounded /\ [Next]_vars => Bounded'
  BY NextAllowed, LoadBounded
<1>. HIDE DEF Bounded
<1>3. Spec => []Bounded
  BY <1>1, <1>2, Invariant, PTL DEF Spec
<1>. QED BY <1>3 DEF Bounded

\* DeleteAccount is final: a handler that read the row before writes it back in vain.
THEOREM DeletionFinal == Spec => DeletedStaysDeleted
<1>1. AccountsInv /\ [Next]_vars =>
        [\A u \in born : row[u] = None => row'[u] = None]_vars
  BY NextDeleted
<1>. QED BY <1>1, Invariant, PTL DEF Spec, DeletedStaysDeleted
=============================================================================
