--------------------------- MODULE LockoutProofs ---------------------------
(***************************************************************************)
(* By how much a limit that is checked first and acted upon later can be   *)
(* overrun, and that the failed logins on an identifier are limited so,    *)
(* for any number of identifiers and of logins served at once, over either *)
(* store: no login passes isLocked once MaxAttempts failures have been     *)
(* recorded.                                                               *)
(***************************************************************************)
EXTENDS Lockout, FiniteSetTheorems, TLAPS

(***************************************************************************)
(* What CheckThenAct promises, of which the limit of failed logins is one  *)
(* instance                                                                *)
(***************************************************************************)
CONSTANTS Actors, Limit
VARIABLES done, admitted

Limited == INSTANCE CheckThenAct

\* Sets are counted the same way there.
LEMMA SameCardinality ==
    /\ \A S : Limited!IsFiniteSet(S) <=> IsFiniteSet(S)
    /\ \A S : Limited!Cardinality(S) = Cardinality(S)
BY DEF Limited!IsFiniteSet, IsFiniteSet, Limited!Cardinality, Cardinality

\* The acts that are on their way are counted with those that are done.
LimitInv ==
    /\ done \in Nat /\ admitted \subseteq Actors
    /\ done + Cardinality(admitted) <= Limit - 1 + Cardinality(Actors)

\* What is assumed of the actors and of the limit.
Limits == IsFiniteSet(Actors) /\ Limit \in Nat \ {0}

LEMMA LimitsAre ==
    /\ Limited!LimitAssumption <=> Limits
    /\ LimitInv => Limited!OverrunBounded
BY SameCardinality DEF Limited!LimitAssumption, Limits, LimitInv, Limited!OverrunBounded

LEMMA InitLimited == ASSUME Limits, Limited!Init PROVE LimitInv
<1>1. Cardinality(admitted) = 0 /\ Cardinality(Actors) \in Nat
  BY FS_EmptySet, FS_CardinalityType DEF Limited!Init, Limits
<1>. QED BY <1>1 DEF Limited!Init, LimitInv, Limits

LEMMA NextLimited == ASSUME Limits, LimitInv, [Limited!Next]_(Limited!vars) PROVE LimitInv'
<1>. USE DEF Limits, LimitInv
<1>0. IsFiniteSet(admitted) /\ Cardinality(admitted) \in Nat /\ Cardinality(Actors) \in Nat
  BY FS_Subset, FS_CardinalityType
<1>1. ASSUME NEW a \in Actors, Limited!Admit(a) PROVE LimitInv'
  <2>1. admitted' \subseteq Actors /\ a \notin admitted /\ done < Limit /\ done' = done
    BY <1>1 DEF Limited!Admit
  <2>2. Cardinality(admitted') <= Cardinality(Actors) /\ Cardinality(admitted') \in Nat
    BY <2>1, FS_Subset, FS_CardinalityType
  <2>. QED BY <1>0, <2>1, <2>2
<1>2. ASSUME NEW a \in Actors, Limited!Act(a) PROVE LimitInv'
  <2>1. Cardinality(admitted') = Cardinality(admitted) - 1
    BY <1>0, <1>2, FS_RemoveElement DEF Limited!Act
  <2>. QED BY <1>0, <1>2, <2>1 DEF Limited!Act
<1>3. CASE Limited!Withdraw
  <2>1. Cardinality(admitted') <= Cardinality(admitted) /\ Cardinality(admitted') \in Nat
    BY <1>0, <1>3, FS_Subset, FS_CardinalityType DEF Limited!Withdraw
  <2>. QED BY <1>0, <1>3, <2>1 DEF Limited!Withdraw
<1>4. CASE UNCHANGED Limited!vars
  BY <1>4 DEF Limited!vars
<1>. QED BY <1>1, <1>2, <1>3, <1>4 DEF Limited!Next

\* Whatever is limited as CheckThenAct says (accounts per contact, characters per
\* account, failed logins, uses of a token) exceeds its limit by fewer than there
\* are actors.
THEOREM Bounded == ASSUME Limited!LimitAssumption PROVE Limited!Spec => []Limited!OverrunBounded
<1>1. Limited!Init => LimitInv
  BY InitLimited, LimitsAre
<1>2. LimitInv /\ [Limited!Next]_(Limited!vars) => LimitInv'
  BY NextLimited, LimitsAre
<1>3. LimitInv => Limited!OverrunBounded
  BY LimitsAre
<1>. QED BY <1>1, <1>2, <1>3, PTL DEF Limited!Spec

(***************************************************************************)
(* The inductive invariant                                                 *)
(***************************************************************************)

\* cut is history that only CountForgotten looks at.
LoginTypes ==
    /\ inMemory \in BOOLEAN
    /\ fails \in [Identifiers -> 0 .. MaxFails]
    /\ timed \subseteq Identifiers
    /\ lock \in [Identifiers -> {"none", "set", "past"}]
    /\ task \in [Handlers -> Task \cup {None}]
    /\ returned \in [Identifiers -> SUBSET (1 .. MaxFails)]

\* A failure that INCR has counted and that is still to be recorded.
Pending(h) == task[h] # None /\ task[h].step \in {"expire", "lock"} /\ ~task[h].stale

\* Every failure that counts has a number of its own.
CountsDiffer ==
    /\ \A i \in Identifiers : \A c \in returned[i] : c <= fails[i]
    /\ \A h \in Handlers : Pending(h) =>
          /\ 1 <= task[h].count /\ task[h].count <= fails[task[h].id]
          /\ task[h].count \notin returned[task[h].id]
    /\ \A g, h \in Handlers :
          Pending(g) /\ Pending(h) /\ task[g].id = task[h].id /\ task[g].count = task[h].count => g = h

\* The failure that reaches the limit sets the lock before it is recorded.
LockFirst ==
    /\ \A h \in Handlers : task[h] # None =>
          /\ task[h].step = "check" => ~task[h].stale
          /\ task[h].step = "lock" => Locks(task[h].count)
          /\ inMemory => task[h].step \in {"check", "clear"}
    /\ inMemory => timed = {}
    /\ \A i \in Identifiers :
          /\ lock[i] = "past" => inMemory /\ returned[i] = {}
          /\ inMemory /\ lock[i] # "none" => fails[i] >= MaxAttempts
          /\ lock[i] # "set" => \A c \in returned[i] : c < MaxAttempts

LoginInv == LoginTypes /\ CountsDiffer /\ LockFirst

LEMMA LoginInit == ASSUME LockoutAssumption PROVE Init => LoginInv
BY NoneAssumption DEF Init, LoginInv, LoginTypes, CountsDiffer, LockFirst, Pending, LockoutAssumption

LEMMA TaskOf ==
    ASSUME LoginTypes, NEW h \in Handlers, task[h] # None
    PROVE  /\ task[h] \in Task /\ task[h].id \in Identifiers /\ task[h].count \in 0 .. MaxFails
           /\ task[h].stale \in BOOLEAN
           /\ task[h].step \in {"check", "expire", "lock", "clear"}
BY DEF LoginTypes, Task

\* What the others wait for is not touched by a step of h.
LEMMA HandlerGoesOn ==
    ASSUME LoginTypes, NEW h \in Handlers, NEW t \in Task \cup {None}, task' = [task EXCEPT ![h] = t]
    PROVE  /\ task' \in [Handlers -> Task \cup {None}]
           /\ task'[h] = t /\ \A g \in Handlers : g # h => task'[g] = task[g]
BY DEF LoginTypes

LEMMA NotLockedStep ==
    ASSUME LoginInv, LockoutAssumption, NEW h \in Handlers, NEW i \in Identifiers, NotLocked(h, i)
    PROVE  LoginInv'
<1>. USE DEF LoginInv
<1>1. Checking(i) \in Task
  BY DEF Checking, Task, LockoutAssumption
<1>2. /\ task' \in [Handlers -> Task \cup {None}]
      /\ task'[h] = Checking(i) /\ \A g \in Handlers : g # h => task'[g] = task[g]
  BY <1>1, HandlerGoesOn DEF NotLocked
<1>3. LoginTypes'
  BY <1>2 DEF NotLocked, LoginTypes, LockoutAssumption
<1>4. \A g \in Handlers : Pending(g)' => g # h /\ Pending(g)
  BY <1>2 DEF Pending, Checking
<1>5. \A j \in Identifiers : fails'[j] = IF j = i /\ lock[i] = "past" THEN 0 ELSE fails[j]
  BY DEF NotLocked, LoginTypes
<1>6. \A g \in Handlers : Pending(g) => ~inMemory
  BY DEF Pending, LockFirst
<1>7. CountsDiffer'
  BY <1>2, <1>4, <1>5, <1>6, TaskOf DEF CountsDiffer, LockFirst, NotLocked
<1>8. LockFirst'
  BY <1>2, <1>5 DEF LockFirst, NotLocked, Checking, LoginTypes
<1>. QED BY <1>3, <1>7, <1>8

\* A handler that goes on to something that counts nothing, or ends; locks may be
\* set meanwhile.
LEMMA NothingCounted ==
    ASSUME LoginInv, NEW h \in Handlers,
           task[h] # None, NEW t \in Task \cup {None}, task' = [task EXCEPT ![h] = t],
           t # None => t.step = "clear",
           UNCHANGED <<inMemory, fails, returned>>, inMemory => UNCHANGED timed,
           timed' \subseteq Identifiers,
           lock' \in [Identifiers -> {"none", "set", "past"}],
           \A i \in Identifiers : lock'[i] = lock[i] \/ (lock'[i] = "set" /\ ~inMemory)
    PROVE  LoginInv'
<1>. USE DEF LoginInv
<1>1. /\ task' \in [Handlers -> Task \cup {None}]
      /\ task'[h] = t /\ \A g \in Handlers : g # h => task'[g] = task[g]
  BY HandlerGoesOn
<1>2. LoginTypes'
  BY <1>1 DEF LoginTypes
<1>3. \A g \in Handlers : Pending(g)' => g # h /\ Pending(g)
  BY <1>1 DEF Pending
<1>4. CountsDiffer'
  BY <1>1, <1>3 DEF CountsDiffer
<1>5. LockFirst'
  <2>1. ASSUME NEW i \in Identifiers
        PROVE  /\ lock'[i] = "past" => inMemory' /\ returned'[i] = {}
               /\ inMemory' /\ lock'[i] # "none" => fails'[i] >= MaxAttempts
               /\ lock'[i] # "set" => \A c \in returned'[i] : c < MaxAttempts
    BY DEF LockFirst
  <2>2. ASSUME NEW g \in Handlers, task'[g] # None
        PROVE  /\ task'[g].step = "check" => ~task'[g].stale
               /\ task'[g].step = "lock" => Locks(task'[g].count)
               /\ inMemory' => task'[g].step \in {"check", "clear"}
    BY <1>1, <2>2 DEF LockFirst
  <2>. QED BY <2>1, <2>2 DEF LockFirst, Locks
<1>. QED BY <1>2, <1>4, <1>5

LEMMA HandlerEnds ==
    ASSUME LoginInv, NEW h \in Handlers, task[h] # None, task' = [task EXCEPT ![h] = None],
           UNCHANGED <<inMemory, fails, returned>>, inMemory => UNCHANGED timed,
           timed' \subseteq Identifiers,
           lock' \in [Identifiers -> {"none", "set", "past"}],
           \A i \in Identifiers : lock'[i] = lock[i] \/ (lock'[i] = "set" /\ ~inMemory)
    PROVE  LoginInv'
BY NothingCounted

\* The failure that h has counted as c is recorded; whoever has reached the limit
\* leaves the lock set.
LEMMA RecordedStep ==
    ASSUME LoginInv, LockoutAssumption, NEW h \in Handlers, task[h] # None, task[h].step # "clear",
           NEW c \in 1 .. MaxFails, Recorded(h, c),
           fails' \in [Identifiers -> 0 .. MaxFails], timed' \subseteq Identifiers,
           lock' \in [Identifiers -> {"none", "set", "past"}],
           UNCHANGED inMemory, inMemory => UNCHANGED timed,
           \A j \in Identifiers : j # task[h].id => lock'[j] = lock[j],
           \A j \in Identifiers : j # task[h].id => fails'[j] = fails[j],
           fails[task[h].id] <= fails'[task[h].id], c <= fails'[task[h].id],
           inMemory => fails[task[h].id] < c,
           task[h].step # "check" /\ Pending(h) => task[h].count = c,
           task[h].step = "check" => inMemory,
           lock'[task[h].id] \in {lock[task[h].id], "set"},
           Locks(c) => lock'[task[h].id] = "set",
           inMemory /\ ~Locks(c) => lock[task[h].id] = "none",
           inMemory /\ lock'[task[h].id] = "set" => fails'[task[h].id] >= MaxAttempts
    PROVE  LoginInv'
<1>. USE DEF LoginInv
<1>. DEFINE t == task[h]
<1>1. /\ task' \in [Handlers -> Task \cup {None}]
      /\ task'[h] = None /\ \A g \in Handlers : g # h => task'[g] = task[g]
  BY HandlerGoesOn DEF Recorded
<1>2. t.id \in Identifiers
  BY TaskOf
<1>3. /\ returned' \in [Identifiers -> SUBSET (1 .. MaxFails)]
      /\ \A j \in Identifiers : j # t.id => returned'[j] = returned[j]
      /\ returned'[t.id] \subseteq returned[t.id] \cup {c}
      /\ t.stale => returned'[t.id] = returned[t.id]
  BY <1>2 DEF Recorded, LoginTypes
<1>4. LoginTypes'
  BY <1>1, <1>3 DEF LoginTypes
<1>5. \A g \in Handlers : Pending(g)' => g # h /\ Pending(g) /\ ~inMemory
  BY <1>1 DEF Pending, LockFirst
<1>6. CountsDiffer'
  <2>1. \A j \in Identifiers : fails[j] \in Int /\ fails'[j] \in Int /\ fails[j] <= fails'[j]
    BY <1>2 DEF LoginTypes
  <2>2. \A j \in Identifiers : \A d \in returned'[j] : d <= fails'[j]
    <3>. SUFFICES ASSUME NEW j \in Identifiers, NEW d \in returned'[j] PROVE d <= fails'[j]
      OBVIOUS
    <3>1. d \in Int
      BY <1>3
    <3>2. (d = c /\ j = t.id) \/ d <= fails[j]
      BY <1>3 DEF CountsDiffer
    <3>. QED BY <2>1, <3>1, <3>2
  <2>3. ASSUME NEW g \in Handlers, Pending(g)'
        PROVE  /\ 1 <= task'[g].count /\ task'[g].count <= fails'[task'[g].id]
               /\ task'[g].count \notin returned'[task'[g].id]
    <3>1. g # h /\ Pending(g) /\ ~inMemory /\ task'[g] = task[g] /\ task[g] # None
      BY <1>1, <1>5, <2>3 DEF Pending
    <3>2. task[g].id \in Identifiers /\ task[g].count \in Int
      BY <3>1, TaskOf
    <3>3. 1 <= task[g].count /\ task[g].count <= fails[task[g].id] /\ task[g].count \notin returned[task[g].id]
      BY <3>1 DEF CountsDiffer
    <3>4. task[g].id = t.id /\ ~t.stale => task[g].count # c
      <4>1. ~t.stale => Pending(h)
        BY <3>1, TaskOf DEF Pending, LockFirst, Recorded
      <4>. QED BY <3>1, <4>1 DEF CountsDiffer, Pending
    <3>5. task[g].count \notin returned'[task[g].id]
      BY <1>3, <3>2, <3>3, <3>4
    <3>. QED BY <2>1, <3>1, <3>2, <3>3, <3>5
  <2>4. \A f, g \in Handlers :
          Pending(f)' /\ Pending(g)' /\ task'[f].id = task'[g].id /\ task'[f].count = task'[g].count => f = g
    BY <1>1, <1>5 DEF CountsDiffer
  <2>. QED BY <2>2, <2>3, <2>4 DEF CountsDiffer
<1>7. LockFirst'
  <2>1. \A g \in Handlers : task'[g] # None => task'[g] = task[g]
    BY <1>1
  <2>2. ASSUME NEW j \in Identifiers
        PROVE  /\ lock'[j] = "past" => inMemory' /\ returned'[j] = {}
               /\ inMemory' /\ lock'[j] # "none" => fails'[j] >= MaxAttempts
               /\ lock'[j] # "set" => \A d \in returned'[j] : d < MaxAttempts
    <3>1. CASE j # t.id
      BY <1>3, <3>1 DEF LockFirst
    <3>2. CASE j = t.id
      <4>1. lock'[j] # "past"
        BY <1>2, <3>2 DEF LockFirst
      <4>2. inMemory /\ lock'[j] # "none" => fails'[j] >= MaxAttempts
        BY <1>2, <3>2, <4>1 DEF LoginTypes
      <4>3. ASSUME lock'[j] # "set", NEW d \in returned'[j] PROVE d < MaxAttempts
        <5>1. lock[j] # "set" /\ ~Locks(c) /\ (d \in returned[j] \/ d = c)
          BY <1>2, <1>3, <3>2, <4>3
        <5>. QED BY <5>1 DEF LockFirst, Locks, LockoutAssumption
      <4>. QED BY <4>1, <4>2, <4>3
    <3>. QED BY <3>1, <3>2
  <2>. QED BY <2>1, <2>2 DEF LockFirst, Locks
<1>. QED BY <1>4, <1>6, <1>7

\* The failures counted on i are forgotten: those on their way are of no account.
LEMMA ForgottenStep ==
    ASSUME LoginInv, NEW i \in Identifiers,
           task' \in [Handlers -> Task \cup {None}],
           \A g \in Handlers : task'[g] = Staled(i)[g] \/ task'[g] = None,
           returned' = [returned EXCEPT ![i] = {}],
           fails' \in [Identifiers -> 0 .. MaxFails], timed' \subseteq Identifiers,
           lock' \in [Identifiers -> {"none", "set", "past"}],
           UNCHANGED inMemory, inMemory => timed' = {},
           \A j \in Identifiers : j # i => lock'[j] = lock[j] /\ fails'[j] = fails[j],
           lock'[i] = "past" => inMemory,
           inMemory /\ lock'[i] # "none" => fails'[i] >= MaxAttempts
    PROVE  LoginInv'
<1>. USE DEF LoginInv
<1>1. /\ returned' \in [Identifiers -> SUBSET (1 .. MaxFails)]
      /\ returned'[i] = {} /\ \A j \in Identifiers : j # i => returned'[j] = returned[j]
  BY DEF LoginTypes
<1>2. LoginTypes'
  BY <1>1 DEF LoginTypes
<1>3. ASSUME NEW g \in Handlers, task'[g] # None
      PROVE  /\ task[g] # None /\ task'[g].step = task[g].step /\ task'[g].id = task[g].id
             /\ task'[g].count = task[g].count
             /\ task[g].step = "check" => task'[g] = task[g]
             /\ Pending(g)' => Pending(g) /\ task[g].id # i
  <2>1. task'[g] = Staled(i)[g]
    BY <1>3
  <2>2. CASE task[g] # None /\ task[g].id = i /\ task[g].step \in {"expire", "lock"}
    <3>1. task'[g] = [task[g] EXCEPT !.stale = TRUE] /\ task[g] \in Task
      BY <2>1, <2>2, TaskOf DEF Staled
    <3>. QED BY <2>2, <3>1 DEF Task, Pending
  <2>3. CASE ~(task[g] # None /\ task[g].id = i /\ task[g].step \in {"expire", "lock"})
    <3>1. task'[g] = task[g]
      BY <2>1, <2>3 DEF Staled
    <3>. QED BY <1>3, <2>3, <3>1 DEF Pending
  <2>. QED BY <2>2, <2>3
<1>4. \A g \in Handlers : Pending(g)' => task'[g] # None
  BY DEF Pending
<1>5. CountsDiffer'
  <2>1. \A j \in Identifiers : \A c \in returned'[j] : c <= fails'[j]
    BY <1>1 DEF CountsDiffer
  <2>2. ASSUME NEW g \in Handlers, Pending(g)'
        PROVE  /\ 1 <= task'[g].count /\ task'[g].count <= fails'[task'[g].id]
               /\ task'[g].count \notin returned'[task'[g].id]
    <3>1. task[g] # None /\ Pending(g) /\ task[g].id # i /\ task'[g].id = task[g].id
          /\ task'[g].count = task[g].count
      BY <1>3, <1>4, <2>2
    <3>2. task[g].id \in Identifiers
      BY <3>1, TaskOf
    <3>. QED BY <1>1, <3>1, <3>2 DEF CountsDiffer
  <2>3. \A f, g \in Handlers :
          Pending(f)' /\ Pending(g)' /\ task'[f].id = task'[g].id /\ task'[f].count = task'[g].count => f = g
    BY <1>3, <1>4 DEF CountsDiffer
  <2>. QED BY <2>1, <2>2, <2>3 DEF CountsDiffer
<1>6. LockFirst'
  <2>1. \A g \in Handlers : task'[g] # None =>
          /\ task'[g].step = "check" => ~task'[g].stale
          /\ task'[g].step = "lock" => Locks(task'[g].count)
          /\ inMemory' => task'[g].step \in {"check", "clear"}
    BY <1>3 DEF LockFirst
  <2>2. ASSUME NEW j \in Identifiers
        PROVE  /\ lock'[j] = "past" => inMemory' /\ returned'[j] = {}
               /\ inMemory' /\ lock'[j] # "none" => fails'[j] >= MaxAttempts
               /\ lock'[j] # "set" => \A c \in returned'[j] : c < MaxAttempts
    <3>1. CASE j = i
      BY <1>1, <3>1
    <3>2. CASE j # i
      BY <1>1, <3>2 DEF LockFirst
    <3>. QED BY <3>1, <3>2
  <2>. QED BY <2>1, <2>2 DEF LockFirst, Locks
<1>. QED BY <1>2, <1>5, <1>6

LEMMA StaledType ==
    ASSUME LoginTypes, NEW i \in Identifiers
    PROVE  /\ Staled(i) \in [Handlers -> Task \cup {None}]
           /\ \A h \in Handlers : [Staled(i) EXCEPT ![h] = None] \in [Handlers -> Task \cup {None}]
<1>1. \A h \in Handlers : task[h] # None => [task[h] EXCEPT !.stale = TRUE] \in Task
  BY TaskOf DEF Task
<1>2. Staled(i) \in [Handlers -> Task \cup {None}]
  BY <1>1 DEF Staled, LoginTypes
<1>. QED BY <1>2

LEMMA ForgetSteps ==
    ASSUME LoginInv, LockoutAssumption
    PROVE  /\ \A h \in Handlers : Clear(h) => LoginInv'
           /\ \A i \in Identifiers : CountExpires(i) \/ LockExpires(i) => LoginInv'
<1>1. ASSUME NEW h \in Handlers, Clear(h) PROVE LoginInv'
  <2>1. task[h].id \in Identifiers
    BY <1>1, TaskOf DEF Clear, At, LoginInv
  <2>2. \A g \in Handlers : task'[g] = Staled(task[h].id)[g] \/ task'[g] = None
    BY <1>1 DEF Clear, Staled
  <2>3. task' \in [Handlers -> Task \cup {None}]
    BY <1>1, <2>1, StaledType DEF Clear, LoginInv
  <2>. DEFINE i == task[h].id
  <2>4. /\ returned' = [returned EXCEPT ![i] = {}] /\ UNCHANGED inMemory
        /\ fails' = [fails EXCEPT ![i] = 0] /\ lock' = [lock EXCEPT ![i] = "none"]
        /\ timed' = timed \ {i} /\ (inMemory => timed = {})
    BY <1>1 DEF Clear, LoginInv, LockFirst
  <2>5. /\ fails' \in [Identifiers -> 0 .. MaxFails] /\ timed' \subseteq Identifiers
        /\ lock' \in [Identifiers -> {"none", "set", "past"}] /\ lock'[i] = "none"
        /\ \A j \in Identifiers : j # i => lock'[j] = lock[j] /\ fails'[j] = fails[j]
    BY <2>1, <2>4 DEF LoginInv, LoginTypes, LockoutAssumption
  <2>. HIDE DEF i
  <2>6. i \in Identifiers /\ \A g \in Handlers : task'[g] = Staled(i)[g] \/ task'[g] = None
    BY <2>1, <2>2 DEF i
  <2>. QED BY <2>3, <2>4, <2>5, <2>6, ForgottenStep
<1>2. ASSUME NEW i \in Identifiers, CountExpires(i) PROVE LoginInv'
  <2>1. task' \in [Handlers -> Task \cup {None}] /\ ~inMemory
    BY <1>2, StaledType DEF CountExpires, LoginInv, LockFirst
  <2>2. \A g \in Handlers : task'[g] = Staled(i)[g]
    BY <1>2 DEF CountExpires
  <2>3. lock'[i] # "past"
    BY <1>2, <2>1 DEF CountExpires, LoginInv, LockFirst
  <2>4. fails' \in [Identifiers -> 0 .. MaxFails] /\ timed' \subseteq Identifiers
        /\ \A j \in Identifiers : j # i => lock'[j] = lock[j] /\ fails'[j] = fails[j]
    BY <1>2 DEF CountExpires, LoginInv, LoginTypes, LockoutAssumption
  <2>. QED BY <1>2, <2>1, <2>2, <2>3, <2>4, ForgottenStep DEF CountExpires, LoginInv, LoginTypes
<1>3. ASSUME NEW i \in Identifiers, LockExpires(i) PROVE LoginInv'
  <2>1. task' \in [Handlers -> Task \cup {None}]
    BY <1>3, StaledType DEF LockExpires, LoginInv
  <2>2. \A g \in Handlers : task'[g] = Staled(i)[g]
    BY <1>3 DEF LockExpires
  <2>3. /\ lock' \in [Identifiers -> {"none", "set", "past"}]
        /\ lock'[i] = IF inMemory THEN "past" ELSE "none"
        /\ \A j \in Identifiers : j # i => lock'[j] = lock[j]
        /\ UNCHANGED <<inMemory, fails, timed>> /\ returned' = [returned EXCEPT ![i] = {}]
    BY <1>3 DEF LockExpires, LoginInv, LoginTypes
  <2>4. inMemory => fails[i] >= MaxAttempts /\ timed = {}
    BY <1>3 DEF LockExpires, LoginInv, LockFirst
  <2>. QED BY <2>1, <2>2, <2>3, <2>4, ForgottenStep DEF LoginInv, LoginTypes
<1>. QED BY <1>1, <1>2, <1>3

LEMMA FailInMemoryStep ==
    ASSUME LoginInv, LockoutAssumption, NEW h \in Handlers, FailInMemory(h)
    PROVE  LoginInv'
<1>. USE DEF LoginInv
<1>. DEFINE i == task[h].id
            c == fails[i] + 1
<1>1. /\ inMemory /\ task[h] # None /\ task[h].step = "check" /\ c <= MaxFails
      /\ Recorded(h, c) /\ UNCHANGED <<inMemory, timed>>
      /\ fails' = [fails EXCEPT ![i] = c]
      /\ lock' = IF Locks(c) THEN [lock EXCEPT ![i] = "set"] ELSE lock
  BY DEF FailInMemory, At
<1>2. i \in Identifiers /\ c \in 1 .. MaxFails
  BY <1>1, TaskOf DEF LoginTypes, LockoutAssumption
<1>3. /\ fails' \in [Identifiers -> 0 .. MaxFails] /\ fails'[i] = c /\ fails[i] < c
      /\ \A j \in Identifiers : j # i => fails'[j] = fails[j]
  BY <1>1, <1>2 DEF LoginTypes
<1>4. /\ lock' \in [Identifiers -> {"none", "set", "past"}]
      /\ lock'[i] = IF Locks(c) THEN "set" ELSE lock[i]
      /\ \A j \in Identifiers : j # i => lock'[j] = lock[j]
  BY <1>1, <1>2 DEF LoginTypes
<1>5. ~Locks(c) => lock[i] = "none" /\ lock'[i] = "none"
  <2>1. lock[i] # "none" => fails[i] >= MaxAttempts
    BY <1>1, <1>2 DEF LockFirst
  <2>. QED BY <1>2, <1>3, <1>4, <2>1 DEF Locks, LockoutAssumption, LoginTypes
<1>6. lock'[i] = "set" => fails'[i] >= MaxAttempts
  BY <1>3, <1>5 DEF Locks
<1>. HIDE DEF c
<1>7. fails[i] <= fails'[i] /\ c <= fails'[i]
  BY <1>2, <1>3 DEF LoginTypes
<1>. QED BY <1>1, <1>2, <1>3, <1>4, <1>5, <1>6, <1>7, RecordedStep DEF LoginTypes

\* INCR draws a number that nobody has.
LEMMA IncrementStep ==
    ASSUME LoginInv, LockoutAssumption, NEW h \in Handlers, Increment(h)
    PROVE  LoginInv'
<1>. USE DEF LoginInv
<1>. DEFINE i == task[h].id
            c == fails[i] + 1
            new == [task[h] EXCEPT !.step = "expire", !.count = c]
<1>1. /\ ~inMemory /\ task[h] # None /\ task[h].step = "check" /\ c <= MaxFails
      /\ UNCHANGED <<inMemory, timed, lock, returned>>
      /\ fails' = [fails EXCEPT ![i] = c]
  BY DEF Increment, At
<1>2. i \in Identifiers /\ c \in 1 .. MaxFails /\ task[h] \in Task /\ ~task[h].stale
  BY <1>1, TaskOf DEF LoginTypes, LockoutAssumption, LockFirst
<1>3. /\ fails' \in [Identifiers -> 0 .. MaxFails] /\ fails'[i] = c
      /\ \A j \in Identifiers : fails[j] <= fails'[j] /\ (j # i => fails'[j] = fails[j])
  BY <1>1, <1>2 DEF LoginTypes
<1>4. new \in Task /\ new.step = "expire" /\ new.count = c /\ new.id = i /\ ~new.stale
  <2>1. c \in 0 .. MaxFails
    BY <1>2
  <2>. HIDE DEF c
  <2>. QED BY <1>2, <2>1 DEF Task
<1>5. task' = [task EXCEPT ![h] = new]
  <2>1. task \in [Handlers -> Task \cup {None}]
    BY DEF LoginTypes
  <2>. QED BY <1>1, <1>2, <2>1 DEF Increment, Task
<1>6. /\ task' \in [Handlers -> Task \cup {None}]
      /\ task'[h] = new /\ \A g \in Handlers : g # h => task'[g] = task[g]
  BY <1>4, <1>5, HandlerGoesOn
<1>7. fails[i] < c /\ 1 <= c
  BY <1>2 DEF LoginTypes
<1>. HIDE DEF new, c, i
<1>8. LoginTypes'
  BY <1>1, <1>3, <1>6 DEF LoginTypes
<1>9. \A g \in Handlers : Pending(g)' => g = h \/ (g # h /\ Pending(g))
  BY <1>6 DEF Pending
<1>10. \A g \in Handlers : Pending(g) => task[g].id \in Identifiers /\ task[g].count \in Int
  BY TaskOf DEF Pending
<1>11. CountsDiffer'
  <2>0. \A j \in Identifiers : fails[j] \in Int /\ fails'[j] \in Int
    BY <1>3 DEF LoginTypes
  <2>1. \A j \in Identifiers : \A d \in returned'[j] : d \in Int /\ d <= fails'[j]
    <3>. SUFFICES ASSUME NEW j \in Identifiers, NEW d \in returned[j] PROVE d \in Int /\ d <= fails'[j]
      BY <1>1
    <3>1. d \in Int /\ d <= fails[j]
      BY DEF CountsDiffer, LoginTypes
    <3>. QED BY <1>3, <2>0, <3>1
  <2>2. c \notin returned[i]
    BY <1>2, <1>7, <2>0 DEF CountsDiffer
  <2>3. ASSUME NEW g \in Handlers, Pending(g)'
        PROVE  /\ 1 <= task'[g].count /\ task'[g].count <= fails'[task'[g].id]
               /\ task'[g].count \notin returned'[task'[g].id]
    <3>1. CASE g = h
      BY <1>1, <1>2, <1>3, <1>4, <1>6, <1>7, <2>2, <3>1
    <3>2. CASE g # h
      <4>1. Pending(g) /\ task'[g] = task[g]
        BY <1>6, <1>9, <2>3, <3>2
      <4>2. 1 <= task[g].count /\ task[g].count <= fails[task[g].id] /\ task[g].count \notin returned[task[g].id]
        BY <4>1 DEF CountsDiffer
      <4>. QED BY <1>1, <1>3, <1>10, <2>0, <4>1, <4>2
    <3>. QED BY <3>1, <3>2
  <2>4. ASSUME NEW g \in Handlers, g # h, Pending(g)', task'[g].id = i PROVE task'[g].count # c
    <3>1. Pending(g) /\ task'[g] = task[g]
      BY <1>6, <1>9, <2>4
    <3>2. task[g].count <= fails[i] /\ task[g].count \in Int
      BY <1>10, <2>4, <3>1 DEF CountsDiffer
    <3>. QED BY <1>2, <1>7, <2>0, <3>1, <3>2
  <2>5. ASSUME NEW f \in Handlers, NEW g \in Handlers, Pending(f)', Pending(g)',
               task'[f].id = task'[g].id, task'[f].count = task'[g].count
        PROVE  f = g
    <3>1. CASE f # h /\ g # h
      BY <1>6, <1>9, <2>5, <3>1 DEF CountsDiffer
    <3>2. CASE f = h \/ g = h
      BY <1>4, <1>6, <2>4, <2>5, <3>2
    <3>. QED BY <3>1, <3>2
  <2>. QED BY <2>1, <2>3, <2>5 DEF CountsDiffer
<1>12. LockFirst'
  BY <1>1, <1>4, <1>6 DEF LockFirst, Locks
<1>. QED BY <1>8, <1>11, <1>12

LEMMA ExpireStep ==
    ASSUME LoginInv, LockoutAssumption, NEW h \in Handlers, Expire(h)
    PROVE  LoginInv'
<1>. USE DEF LoginInv
<1>. DEFINE t == task[h]
<1>1. t # None /\ t.step = "expire" /\ UNCHANGED <<inMemory, fails, lock>> /\ ~inMemory
  BY DEF Expire, At, LockFirst
<1>2. t \in Task /\ t.id \in Identifiers /\ timed' \subseteq Identifiers /\ t.count \in 0 .. MaxFails
  BY <1>1, TaskOf DEF Expire, Timed, LoginTypes
<1>3. CASE Locks(t.count) /\ task' = [task EXCEPT ![h].step = "lock"] /\ UNCHANGED returned
  <2>. DEFINE new == [t EXCEPT !.step = "lock"]
  <2>1. new \in Task /\ new.step = "lock" /\ new.count = t.count /\ new.id = t.id /\ new.stale = t.stale
    BY <1>2 DEF Task
  <2>2. task' = [task EXCEPT ![h] = new]
    BY <1>3 DEF LoginTypes
  <2>3. /\ task' \in [Handlers -> Task \cup {None}]
        /\ task'[h] = new /\ \A g \in Handlers : g # h => task'[g] = task[g]
    BY <2>1, <2>2, HandlerGoesOn
  <2>. HIDE DEF new
  <2>4. \A g \in Handlers : Pending(g)' => Pending(g) /\ task'[g].id = task[g].id /\ task'[g].count = task[g].count
    BY <1>1, <2>1, <2>3 DEF Pending
  <2>5. LoginTypes'
    BY <1>1, <1>2, <1>3, <2>3 DEF LoginTypes
  <2>6. CountsDiffer'
    BY <1>1, <1>3, <2>4 DEF CountsDiffer
  <2>7. LockFirst'
    BY <1>1, <1>3, <2>1, <2>3 DEF LockFirst, Locks
  <2>. QED BY <2>5, <2>6, <2>7
<1>4. CASE ~Locks(t.count) /\ Recorded(h, t.count)
  <2>1. CASE t.stale
    <3>1. UNCHANGED returned /\ task' = [task EXCEPT ![h] = None]
      BY <1>4, <2>1 DEF Recorded
    <3>. QED BY <1>1, <1>2, <3>1, HandlerEnds DEF LoginTypes
  <2>2. CASE ~t.stale
    <3>1. Pending(h)
      BY <1>1, <2>2 DEF Pending
    <3>2. t.count \in 1 .. MaxFails /\ t.count <= fails[t.id] /\ fails[t.id] <= fails[t.id]
      BY <1>2, <3>1 DEF CountsDiffer, LoginTypes
    <3>. QED BY <1>1, <1>2, <1>4, <3>2, RecordedStep DEF LoginTypes
  <2>. QED BY <1>2, <2>1, <2>2 DEF Task
<1>. QED BY <1>3, <1>4 DEF Expire

LEMMA SetLockStep ==
    ASSUME LoginInv, LockoutAssumption, NEW h \in Handlers, SetLock(h)
    PROVE  LoginInv'
<1>. USE DEF LoginInv
<1>. DEFINE t == task[h]
<1>1. t # None /\ t.step = "lock" /\ UNCHANGED <<inMemory, fails, timed>> /\ ~inMemory
      /\ lock' = [lock EXCEPT ![t.id] = "set"] /\ Recorded(h, t.count)
  BY DEF SetLock, At, LockFirst
<1>2. t \in Task /\ t.id \in Identifiers /\ t.count \in 0 .. MaxFails
  BY <1>1, TaskOf
<1>3. /\ lock' \in [Identifiers -> {"none", "set", "past"}] /\ lock'[t.id] = "set"
      /\ \A j \in Identifiers : j # t.id => lock'[j] = lock[j]
  BY <1>1, <1>2 DEF LoginTypes
<1>4. Locks(t.count) /\ t.count # 0
  BY <1>1, <1>2 DEF LockFirst, Locks, LockoutAssumption
<1>5. CASE ~t.stale
  <2>1. Pending(h)
    BY <1>1, <1>5 DEF Pending
  <2>2. t.count \in 1 .. MaxFails /\ t.count <= fails[t.id] /\ fails[t.id] <= fails[t.id]
    BY <1>2, <2>1 DEF CountsDiffer, LoginTypes
  <2>. QED BY <1>1, <1>2, <1>3, <1>4, <2>2, RecordedStep DEF LoginTypes
<1>6. CASE t.stale
  <2>1. UNCHANGED returned /\ task' = [task EXCEPT ![h] = None]
    BY <1>1, <1>6 DEF Recorded
  <2>2. \A j \in Identifiers : lock'[j] = "set" \/ lock'[j] = lock[j]
    BY <1>3
  <2>. QED BY <1>1, <1>3, <2>1, <2>2, HandlerEnds DEF LoginTypes
<1>. QED BY <1>2, <1>5, <1>6 DEF Task

LEMMA RestartStep ==
    ASSUME LoginInv, LockoutAssumption, Restart
    PROVE  LoginInv'
BY NoneAssumption DEF LoginInv, LoginTypes, CountsDiffer, LockFirst, Pending, Restart, LockoutAssumption

LEMMA ClearingStep ==
    ASSUME LoginInv, NEW h \in Handlers, Matches(h)
    PROVE  LoginInv'
<1>. DEFINE new == [task[h] EXCEPT !.step = "clear"]
<1>1. task[h] # None /\ task[h] \in Task
  BY TaskOf DEF Matches, At, LoginInv
<1>2. new \in Task /\ new.step = "clear"
  BY <1>1 DEF Task
<1>3. task' = [task EXCEPT ![h] = new]
  BY DEF Matches, LoginInv, LoginTypes
<1>4. UNCHANGED <<inMemory, fails, timed, lock, returned>>
  BY DEF Matches
<1>. HIDE DEF new
<1>. QED BY <1>1, <1>2, <1>3, <1>4, NothingCounted DEF LoginInv, LoginTypes

LEMMA NextLogin ==
    ASSUME LoginInv, LockoutAssumption, [Next]_vars
    PROVE  LoginInv'
<1>1. ASSUME NEW h \in Handlers, Refused(h) \/ Abort(h) PROVE LoginInv'
  BY <1>1, HandlerEnds DEF Refused, Abort, At, LoginInv, LoginTypes
<1>2. CASE UNCHANGED vars
  BY <1>2 DEF vars, LoginInv, LoginTypes, CountsDiffer, LockFirst, Pending, Locks
<1>. QED BY <1>1, <1>2, NotLockedStep, ClearingStep, FailInMemoryStep, IncrementStep, ExpireStep,
         SetLockStep, ForgetSteps, RestartStep DEF Next, Step

\* Allowed to happen to the failures and the logins of an identifier.
Allowed(i) == [PerIdentifier(i)!Next]_(PerIdentifier(i)!vars)

LEMMA ReturnedFinite ==
    ASSUME LoginTypes, LockoutAssumption, NEW i \in Identifiers
    PROVE  IsFiniteSet(returned[i]) /\ Cardinality(returned[i]) \in Nat
<1>1. returned[i] \subseteq 1 .. MaxFails
  BY DEF LoginTypes
<1>2. IsFiniteSet(1 .. MaxFails)
  BY FS_Interval DEF LockoutAssumption
<1>. QED BY <1>1, <1>2, FS_Subset, FS_CardinalityType

LEMMA Withdrawn ==
    ASSUME LoginTypes, LockoutAssumption, NEW i \in Identifiers,
           returned'[i] \subseteq returned[i], Attempting(i)' \subseteq Attempting(i)
    PROVE  Allowed(i)
<1>1. /\ Cardinality(returned'[i]) \in Nat /\ Cardinality(returned[i]) \in Nat
      /\ Cardinality(returned'[i]) <= Cardinality(returned[i])
  BY ReturnedFinite, FS_Subset, FS_CardinalityType
<1>2. Cardinality(returned'[i]) \in 0 .. Cardinality(returned[i])
  BY <1>1
<1>. QED BY <1>2 DEF Allowed, PerIdentifier!Next, PerIdentifier!Withdraw

LEMMA Acted ==
    ASSUME LoginTypes, LockoutAssumption, NEW i \in Identifiers, NEW h \in Attempting(i),
           Attempting(i)' = Attempting(i) \ {h}, NEW c, c \notin returned[i],
           returned'[i] = returned[i] \cup {c}
    PROVE  Allowed(i)
<1>1. Cardinality(returned'[i]) = Cardinality(returned[i]) + 1
  BY ReturnedFinite, FS_AddElement
<1>2. h \in Handlers
  BY DEF Attempting
<1>. QED BY <1>1, <1>2 DEF Allowed, PerIdentifier!Next, PerIdentifier!Act

\* Below the limit there are fewer failures than attempts allowed.
LEMMA Admitted ==
    ASSUME LoginInv, LockoutAssumption, NEW i \in Identifiers, NEW h \in Handlers, h \notin Attempting(i),
           lock[i] # "set", Attempting(i)' = Attempting(i) \cup {h}, returned'[i] = returned[i]
    PROVE  Allowed(i)
<1>1. returned[i] \subseteq 1 .. MaxAttempts - 1
  BY DEF LoginInv, LoginTypes, LockFirst, LockoutAssumption
<1>2. IsFiniteSet(1 .. MaxAttempts - 1) /\ Cardinality(1 .. MaxAttempts - 1) = MaxAttempts - 1
  <2>. DEFINE m == MaxAttempts - 1
  <2>1. m \in Nat /\ 1 \in Int /\ m \in Int
    BY DEF LockoutAssumption
  <2>. HIDE DEF m
  <2>2. IsFiniteSet(1 .. m) /\ Cardinality(1 .. m) = IF 1 > m THEN 0 ELSE m - 1 + 1
    BY <2>1, FS_Interval
  <2>3. (IF 1 > m THEN 0 ELSE m - 1 + 1) = m
    BY <2>1
  <2>4. IsFiniteSet(1 .. m) /\ Cardinality(1 .. m) = m
    BY <2>2, <2>3
  <2>. QED BY <2>4 DEF m
<1>3. Cardinality(returned[i]) < MaxAttempts
  BY <1>1, <1>2, FS_Subset, ReturnedFinite DEF LoginInv, LockoutAssumption
<1>. QED BY <1>3 DEF Allowed, PerIdentifier!Next, PerIdentifier!Admit

\* A step of h changes nobody else's attempt.
LEMMA OthersAttempt ==
    ASSUME LoginTypes, NEW h \in Handlers, NEW t \in Task \cup {None}, task' = [task EXCEPT ![h] = t],
           NEW i \in Identifiers
    PROVE  /\ \A g \in Handlers : g # h => (g \in Attempting(i)' <=> g \in Attempting(i))
           /\ Attempting(i)' \subseteq Handlers /\ Attempting(i) \subseteq Handlers
           /\ t = None => h \notin Attempting(i)'
BY HandlerGoesOn DEF Attempting

LEMMA RecordedAllowed ==
    ASSUME LoginInv, LockoutAssumption, NEW h \in Handlers, task[h] # None, task[h].step # "clear",
           NEW c, Recorded(h, c), ~task[h].stale => c \notin returned[task[h].id],
           NEW i \in Identifiers
    PROVE  Allowed(i)
<1>. DEFINE t == task[h]
<1>1. t \in Task /\ t.id \in Identifiers /\ task' = [task EXCEPT ![h] = None]
  BY TaskOf DEF LoginInv, Recorded
<1>2. /\ \A g \in Handlers : g # h => (g \in Attempting(i)' <=> g \in Attempting(i))
      /\ Attempting(i)' \subseteq Handlers /\ Attempting(i) \subseteq Handlers
      /\ h \notin Attempting(i)'
  BY <1>1, OthersAttempt DEF LoginInv
<1>3. returned \in [Identifiers -> SUBSET (1 .. MaxFails)]
  BY DEF LoginInv, LoginTypes
<1>4. CASE t.id = i /\ ~t.stale
  <2>1. h \in Attempting(i)
    BY <1>1, <1>4, TaskOf DEF Attempting, LoginInv
  <2>2. Attempting(i)' = Attempting(i) \ {h}
    BY <1>2
  <2>3. returned'[i] = returned[i] \cup {c}
    BY <1>3, <1>4 DEF Recorded
  <2>. QED BY <1>4, <2>1, <2>2, <2>3, Acted DEF LoginInv
<1>5. CASE ~(t.id = i /\ ~t.stale)
  <2>1. Attempting(i)' \subseteq Attempting(i)
    BY <1>2
  <2>2. returned'[i] \subseteq returned[i]
    BY <1>1, <1>3, <1>5 DEF Recorded
  <2>. QED BY <2>1, <2>2, Withdrawn DEF LoginInv
<1>. QED BY <1>4, <1>5

LEMMA NotLockedAllowed ==
    ASSUME LoginInv, LockoutAssumption, NEW h \in Handlers, NEW j \in Identifiers, NotLocked(h, j),
           NEW i \in Identifiers
    PROVE  Allowed(i)
<1>1. Checking(j) \in Task /\ task' = [task EXCEPT ![h] = Checking(j)] /\ task[h] = None
      /\ lock[j] # "set" /\ UNCHANGED returned
  BY DEF NotLocked, Checking, Task, LockoutAssumption
<1>2. /\ \A g \in Handlers : g # h => (g \in Attempting(i)' <=> g \in Attempting(i))
      /\ Attempting(i)' \subseteq Handlers /\ Attempting(i) \subseteq Handlers
  BY <1>1, OthersAttempt DEF LoginInv
<1>3. h \notin Attempting(i) /\ (h \in Attempting(i)' <=> i = j)
  <2>1. task'[h] = Checking(j) /\ Checking(j) # None
    BY <1>1, NoneAssumption DEF LoginInv, LoginTypes
  <2>. QED BY <1>1, <2>1 DEF Attempting, Checking
<1>4. CASE i = j
  <2>1. Attempting(i)' = Attempting(i) \cup {h}
    BY <1>2, <1>3, <1>4
  <2>. QED BY <1>1, <1>3, <1>4, <2>1, Admitted
<1>5. CASE i # j
  <2>1. Attempting(i)' \subseteq Attempting(i)
    BY <1>2, <1>3, <1>5
  <2>. QED BY <1>1, <2>1, Withdrawn DEF LoginInv
<1>. QED BY <1>4, <1>5

\* A handler that goes on with an attempt that still counts, or gives it up.
LEMMA GoesOnAllowed ==
    ASSUME LoginInv, LockoutAssumption, NEW h \in Handlers, task[h] # None,
           NEW t \in Task \cup {None}, task' = [task EXCEPT ![h] = t], UNCHANGED returned,
           t = None \/ t.step = "clear" \/ (t.id = task[h].id /\ task[h].step # "clear" /\ t.stale = task[h].stale),
           NEW i \in Identifiers
    PROVE  Allowed(i)
<1>1. /\ \A g \in Handlers : g # h => (g \in Attempting(i)' <=> g \in Attempting(i))
      /\ Attempting(i)' \subseteq Handlers /\ Attempting(i) \subseteq Handlers
  BY OthersAttempt DEF LoginInv
<1>2. h \in Attempting(i)' => h \in Attempting(i)
  <2>1. task'[h] = t /\ task[h].step \in {"check", "expire", "lock", "clear"}
    BY HandlerGoesOn, TaskOf DEF LoginInv
  <2>. QED BY <2>1 DEF Attempting
<1>3. Attempting(i)' \subseteq Attempting(i)
  BY <1>1, <1>2
<1>. QED BY <1>3, Withdrawn DEF LoginInv

\* Failures and attempts that are forgotten.
LEMMA ForgottenAllowed ==
    ASSUME LoginInv, LockoutAssumption, NEW j \in Identifiers,
           \A g \in Handlers : task'[g] = Staled(j)[g] \/ task'[g] = None,
           returned' = [returned EXCEPT ![j] = {}], NEW i \in Identifiers
    PROVE  Allowed(i)
<1>1. returned'[i] \subseteq returned[i]
  BY DEF LoginInv, LoginTypes
<1>2. ASSUME NEW g \in Handlers, g \in Attempting(i)' PROVE g \in Attempting(i)
  <2>1. task'[g] = Staled(j)[g] /\ task'[g] # None /\ ~task'[g].stale
        /\ task'[g].step \in {"check", "expire", "lock"} /\ task'[g].id = i
    BY <1>2 DEF Attempting
  <2>2. task'[g] = task[g]
    <3>1. CASE task[g] # None /\ task[g].id = j /\ task[g].step \in {"expire", "lock"}
      <4>1. task'[g] = [task[g] EXCEPT !.stale = TRUE] /\ task[g] \in Task
        BY <2>1, <3>1, TaskOf DEF Staled, LoginInv
      <4>. QED BY <2>1, <4>1 DEF Task
    <3>. QED BY <2>1, <3>1 DEF Staled
  <2>. QED BY <2>1, <2>2 DEF Attempting
<1>3. Attempting(i)' \subseteq Attempting(i)
  BY <1>2 DEF Attempting
<1>. QED BY <1>1, <1>3, Withdrawn DEF LoginInv

LEMMA NextAllowed ==
    ASSUME LoginInv, LockoutAssumption, [Next]_vars, NEW i \in Identifiers
    PROVE  Allowed(i)
<1>. USE DEF LoginInv
<1>1. ASSUME NEW h \in Handlers, Refused(h) \/ Abort(h) PROVE Allowed(i)
  BY <1>1, GoesOnAllowed DEF Refused, Abort, At
<1>2. ASSUME NEW h \in Handlers, Matches(h) PROVE Allowed(i)
  <2>. DEFINE new == [task[h] EXCEPT !.step = "clear"]
  <2>1. task[h] # None /\ task[h] \in Task
    BY <1>2, TaskOf DEF Matches, At
  <2>2. new \in Task /\ new.step = "clear"
    BY <2>1 DEF Task
  <2>3. task' = [task EXCEPT ![h] = new] /\ UNCHANGED returned
    BY <1>2 DEF Matches, LoginTypes
  <2>. HIDE DEF new
  <2>. QED BY <2>1, <2>2, <2>3, GoesOnAllowed
<1>3. ASSUME NEW h \in Handlers, FailInMemory(h) PROVE Allowed(i)
  <2>1. task[h] # None /\ task[h].step = "check" /\ Recorded(h, fails[task[h].id] + 1)
    BY <1>3 DEF FailInMemory, At
  <2>2. task[h].id \in Identifiers
    BY <2>1, TaskOf
  <2>3. fails[task[h].id] + 1 \notin returned[task[h].id]
    BY <2>2 DEF CountsDiffer, LoginTypes
  <2>. QED BY <2>1, <2>3, RecordedAllowed
<1>4. ASSUME NEW h \in Handlers, Increment(h) PROVE Allowed(i)
  <2>. DEFINE c == fails[task[h].id] + 1
              new == [task[h] EXCEPT !.step = "expire", !.count = c]
  <2>1. task[h] # None /\ task[h] \in Task /\ c <= MaxFails /\ UNCHANGED returned
        /\ task[h].id \in Identifiers /\ task[h].step = "check"
    BY <1>4, TaskOf DEF Increment, At
  <2>2. task' = [task EXCEPT ![h] = new]
    BY <1>4, <2>1 DEF Increment, LoginTypes, Task
  <2>3. c \in 0 .. MaxFails
    BY <2>1 DEF LoginTypes, LockoutAssumption
  <2>. HIDE DEF c
  <2>4. new \in Task /\ new.id = task[h].id /\ new.stale = task[h].stale
    BY <2>1, <2>3 DEF Task
  <2>. HIDE DEF new
  <2>. QED BY <2>1, <2>2, <2>4, GoesOnAllowed
<1>5. ASSUME NEW h \in Handlers, Expire(h) PROVE Allowed(i)
  <2>1. task[h] # None /\ task[h] \in Task /\ task[h].step = "expire"
    BY <1>5, TaskOf DEF Expire, At
  <2>2. CASE Recorded(h, task[h].count)
    <3>1. ~task[h].stale => task[h].count \notin returned[task[h].id]
      BY <2>1 DEF CountsDiffer, Pending
    <3>. QED BY <2>1, <2>2, <3>1, RecordedAllowed
  <2>3. CASE task' = [task EXCEPT ![h].step = "lock"] /\ UNCHANGED returned
    <3>. DEFINE new == [task[h] EXCEPT !.step = "lock"]
    <3>1. task' = [task EXCEPT ![h] = new]
      BY <2>3 DEF LoginTypes
    <3>2. new \in Task /\ new.id = task[h].id /\ new.stale = task[h].stale
      BY <2>1 DEF Task
    <3>. HIDE DEF new
    <3>. QED BY <2>1, <2>3, <3>1, <3>2, GoesOnAllowed
  <2>. QED BY <1>5, <2>2, <2>3 DEF Expire
<1>6. ASSUME NEW h \in Handlers, SetLock(h) PROVE Allowed(i)
  <2>1. task[h] # None /\ task[h].step = "lock" /\ Recorded(h, task[h].count)
    BY <1>6 DEF SetLock, At
  <2>2. ~task[h].stale => task[h].count \notin returned[task[h].id]
    BY <2>1 DEF CountsDiffer, Pending
  <2>. QED BY <2>1, <2>2, RecordedAllowed
<1>7. ASSUME NEW h \in Handlers, Clear(h) PROVE Allowed(i)
  <2>1. task[h].id \in Identifiers
    BY <1>7, TaskOf DEF Clear, At
  <2>2. \A g \in Handlers : task'[g] = Staled(task[h].id)[g] \/ task'[g] = None
    BY <1>7 DEF Clear, Staled
  <2>. QED BY <1>7, <2>1, <2>2, ForgottenAllowed DEF Clear
<1>8. ASSUME NEW j \in Identifiers, CountExpires(j) \/ LockExpires(j) PROVE Allowed(i)
  <2>1. \A g \in Handlers : task'[g] = Staled(j)[g]
    BY <1>8 DEF CountExpires, LockExpires
  <2>. QED BY <1>8, <2>1, ForgottenAllowed DEF CountExpires, LockExpires
<1>9. CASE Restart
  <2>1. returned'[i] = {} /\ Attempting(i)' = {}
    BY <1>9 DEF Restart, Attempting
  <2>. QED BY <2>1, Withdrawn
<1>10. CASE UNCHANGED vars
  <2>1. returned'[i] = returned[i] /\ Attempting(i)' = Attempting(i)
    BY <1>10 DEF vars, Attempting
  <2>. QED BY <2>1, Withdrawn
<1>. QED BY <1>1, <1>2, <1>3, <1>4, <1>5, <1>6, <1>7, <1>8, <1>9, <1>10, NotLockedAllowed DEF Next, Step

\* isLocked is asked long before recordFailure counts, and that takes several
\* commands in Redis; still no login passes once MaxAttempts failures have been
\* recorded that nothing has cleared, so only those in flight exceed the limit.
THEOREM AttemptsLimited == Spec => LimitsAttempts
<1>1. Init => LoginInv
  BY LoginInit, LockoutAssumption
<1>2. LoginInv /\ [Next]_vars => LoginInv'
  BY NextLogin, LockoutAssumption
<1>3. Init => \A i \in Identifiers : PerIdentifier(i)!Init
  BY FS_EmptySet DEF Init, PerIdentifier!Init, Attempting
<1>4. LoginInv /\ [Next]_vars =>
        [\A i \in Identifiers : [PerIdentifier(i)!Next]_(PerIdentifier(i)!vars)]_vars
  BY NextAllowed, LockoutAssumption DEF Allowed
<1>. QED BY <1>1, <1>2, <1>3, <1>4, PTL DEF Spec, LimitsAttempts

\* The failures that count on an identifier, those on their way included.
Load(i) == Cardinality(returned[i]) + Cardinality(Attempting(i))

LEMMA LoadBounded ==
    ASSUME LoginTypes, LoginTypes', NEW i \in Identifiers, Allowed(i),
           Load(i) <= MaxAttempts - 1 + Cardinality(Handlers)
    PROVE  Load(i)' <= MaxAttempts - 1 + Cardinality(Handlers)
<1>. DEFINE d == Cardinality(returned[i])
            e == Cardinality(returned'[i])
            A == Attempting(i)
            B == Attempting(i)'
            N == Cardinality(Handlers)
<1>1. d \in Nat /\ e \in Nat
  <2>1. returned[i] \subseteq 1 .. MaxFails /\ returned'[i] \subseteq 1 .. MaxFails
    BY DEF LoginTypes
  <2>2. IsFiniteSet(1 .. MaxFails)
    BY FS_Interval, LockoutAssumption DEF LockoutAssumption
  <2>. QED BY <2>1, <2>2, FS_Subset, FS_CardinalityType
<1>2. IsFiniteSet(Handlers) /\ N \in Nat /\ MaxAttempts \in Nat \ {0}
  BY LockoutAssumption, FS_CardinalityType DEF LockoutAssumption
<1>3. A \subseteq Handlers /\ B \subseteq Handlers
  BY DEF Attempting
<1>4. /\ IsFiniteSet(A) /\ Cardinality(A) \in Nat
      /\ Cardinality(B) \in Nat /\ Cardinality(B) <= N
  BY <1>2, <1>3, FS_Subset, FS_CardinalityType
<1>5. /\ Load(i) = d + Cardinality(A)
      /\ Load(i)' = e + Cardinality(B)
  BY DEF Load
<1>6. \/ d < MaxAttempts /\ e = d
      \/ \E h \in A : B = A \ {h} /\ e = d + 1
      \/ B \subseteq A /\ e \in 0 .. d
  <2>1. CASE PerIdentifier(i)!Next
    BY <2>1 DEF PerIdentifier!Next, PerIdentifier!Admit, PerIdentifier!Act, PerIdentifier!Withdraw
  <2>2. CASE UNCHANGED PerIdentifier(i)!vars
    BY <1>1, <2>2 DEF PerIdentifier!vars
  <2>. QED BY <2>1, <2>2 DEF Allowed
<1>. HIDE DEF d, e, A, B, N
<1>7. \A h \in A : Cardinality(A \ {h}) = Cardinality(A) - 1
  BY <1>4, FS_RemoveElement
<1>8. B \subseteq A => Cardinality(B) <= Cardinality(A)
  BY <1>4, FS_Subset
<1>9. d + Cardinality(A) <= MaxAttempts - 1 + N
  BY <1>5 DEF N
<1>10. e + Cardinality(B) <= MaxAttempts - 1 + N
  BY <1>1, <1>2, <1>4, <1>6, <1>7, <1>8, <1>9
<1>. QED BY <1>5, <1>10 DEF N

\* In numbers: however many logins are tried together, the failures recorded on an
\* identifier that nothing has cleared exceed getMaxLoginAttempts() by fewer than them.
THEOREM FailuresBounded ==
    Spec => [](\A i \in Identifiers : Load(i) <= MaxAttempts - 1 + Cardinality(Handlers))
<1>. DEFINE Few == \A i \in Identifiers : Load(i) <= MaxAttempts - 1 + Cardinality(Handlers)
<1>0. LoginInv /\ [Next]_vars => LoginInv'
  BY NextLogin, LockoutAssumption
<1>1. Init => Few
  <2>1. Init => \A i \in Identifiers : Load(i) = 0
    BY FS_EmptySet DEF Init, Load, Attempting
  <2>2. Cardinality(Handlers) \in Nat /\ MaxAttempts \in Nat \ {0}
    BY LockoutAssumption, FS_CardinalityType DEF LockoutAssumption
  <2>. QED BY <2>1, <2>2
<1>2. LoginInv /\ LoginInv' /\ Few /\ [Next]_vars => Few'
  BY NextAllowed, LoadBounded, LockoutAssumption DEF LoginInv
<1>. HIDE DEF Few
<1>3. Spec => []Few
  BY <1>0, <1>1, <1>2, LoginInit, LockoutAssumption, PTL DEF Spec
<1>. QED BY <1>3 DEF Few
============================================================================
