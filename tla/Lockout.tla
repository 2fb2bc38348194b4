------------------------------ MODULE Lockout ------------------------------
(***************************************************************************)
(* The attempts of LoginUser on an identifier, and the LoginAttemptStore   *)
(* that locks it: in Redis, two keys and a command per step, or in memory, *)
(* an entry that one call changes.  The handler asks whether the           *)
(* identifier is locked, then reads the user and compares the password,    *)
(* and only then counts a failure or clears the count.                     *)
(*                                                                         *)
(* An identifier that belongs to nobody is locked like any other; so the   *)
(* users are left out, and what follows a login.                           *)
(***************************************************************************)
EXTENDS Integers, FiniteSets

CONSTANTS
    Identifiers,
    Handlers,       \* logins that are served at once
    MaxAttempts,    \* getMaxLoginAttempts()
    MaxFails,       \* bound: failures counted until the count is forgotten
    None

ASSUME LockoutAssumption ==
    /\ MaxAttempts \in Nat \ {0} /\ MaxFails \in Nat
    /\ IsFiniteSet(Handlers)

VARIABLES
    inMemory,       \* the store the module is wired with, chosen once
    fails,          \* the count of an identifier; 0 when there is no key or entry
    timed,          \* identifiers whose count will be forgotten: EXPIRE has been run
    lock,           \* "none", "set"; in memory also "past", an entry not deleted yet
    task,           \* what each handler still has to do, or None
    returned,       \* history: the counts recordFailure has returned since the
                    \* count or the lock was last cleared or forgotten
    cut             \* history: identifiers one of whose EXPIREs was not run

vars == <<inMemory, fails, timed, lock, task, returned, cut>>

\* "check": the user is read and the password compared; "expire", "lock",
\* "clear": the command that comes next.  count: what INCR returned; stale: the
\* count or the lock has been cleared or forgotten since.
Task == [step : {"check", "expire", "lock", "clear"}, id : Identifiers,
         count : 0 .. MaxFails, stale : BOOLEAN]

ASSUME NoneAssumption == None \notin Task

Init ==
    /\ inMemory \in BOOLEAN
    /\ fails = [i \in Identifiers |-> 0]
    /\ timed = {} /\ cut = {}
    /\ lock = [i \in Identifiers |-> "none"]
    /\ task = [h \in Handlers |-> None]
    /\ returned = [i \in Identifiers |-> {}]

At(h, step) == task[h] # None /\ task[h].step = step

\* The tasks once the failures counted on i so far no longer count.
Staled(i) ==
    [h \in Handlers |-> IF task[h] # None /\ task[h].id = i /\ task[h].step \in {"expire", "lock"}
                        THEN [task[h] EXCEPT !.stale = TRUE] ELSE task[h]]

\* The failure of h, counted as c, is recorded.
Recorded(h, c) ==
    LET t == task[h]
    IN  /\ task' = [task EXCEPT ![h] = None]
        /\ returned' = IF t.stale THEN returned ELSE [returned EXCEPT ![t.id] = @ \cup {c}]

(***************************************************************************)
(* LoginUser                                                               *)
(***************************************************************************)
Checking(i) == [step |-> "check", id |-> i, count |-> 0, stale |-> FALSE]

\* isLocked says no; in memory it drops an entry whose lock has passed.
NotLocked(h, i) ==
    /\ task[h] = None
    /\ lock[i] # "set"
    /\ task' = [task EXCEPT ![h] = Checking(i)]
    /\ lock' = [lock EXCEPT ![i] = "none"]
    /\ fails' = IF lock[i] = "past" THEN [fails EXCEPT ![i] = 0] ELSE fails
    /\ UNCHANGED <<inMemory, timed, returned, cut>>

\* The password is right: the failures are to be cleared.
Matches(h) ==
    /\ At(h, "check")
    /\ task' = [task EXCEPT ![h].step = "clear"]
    /\ UNCHANGED <<inMemory, fails, timed, lock, returned, cut>>

\* The account is not active, or its e-mail not verified: nothing is counted.
Refused(h) ==
    /\ At(h, "check")
    /\ task' = [task EXCEPT ![h] = None]
    /\ UNCHANGED <<inMemory, fails, timed, lock, returned, cut>>

\* Mutant: one failure more than allowed.
LocksLate(c) == c > MaxAttempts

Locks(c) == c >= MaxAttempts

\* No such user, or the password is wrong: recordFailure in memory ...
FailInMemory(h) ==
    LET i == task[h].id
        c == fails[i] + 1
    IN  /\ inMemory /\ At(h, "check") /\ c <= MaxFails
        /\ fails' = [fails EXCEPT ![i] = c]
        /\ lock' = IF Locks(c) THEN [lock EXCEPT ![i] = "set"] ELSE lock
        /\ Recorded(h, c)
        /\ UNCHANGED <<inMemory, timed, cut>>

\* ... and in Redis: INCR, ...
Increment(h) ==
    LET i == task[h].id
        c == fails[i] + 1
    IN  /\ ~inMemory /\ At(h, "check") /\ c <= MaxFails
        /\ fails' = [fails EXCEPT ![i] = c]
        /\ task' = [task EXCEPT ![h].step = "expire", ![h].count = c]
        /\ UNCHANGED <<inMemory, timed, lock, returned, cut>>

\* Mutant: only the count of a locked identifier gets a time.
TimedWhenLocking(h) ==
    IF fails[task[h].id] > 0 /\ Locks(task[h].count) THEN timed \cup {task[h].id} ELSE timed

\* EXPIRE has no effect on a key that is gone.
Timed(h) == IF fails[task[h].id] > 0 THEN timed \cup {task[h].id} ELSE timed

\* ... EXPIRE ...
Expire(h) ==
    LET t == task[h]
    IN  /\ At(h, "expire")
        /\ timed' = Timed(h)
        /\ \/ /\ Locks(t.count)
              /\ task' = [task EXCEPT ![h].step = "lock"]
              /\ UNCHANGED returned
           \/ ~Locks(t.count) /\ Recorded(h, t.count)
        /\ UNCHANGED <<inMemory, fails, lock, cut>>

\* ... and SET of the lock, with its time.
SetLock(h) ==
    /\ At(h, "lock")
    /\ lock' = [lock EXCEPT ![task[h].id] = "set"]
    /\ Recorded(h, task[h].count)
    /\ UNCHANGED <<inMemory, fails, timed, cut>>

\* clearFailures: DEL of both keys, or of the entry.
Clear(h) ==
    LET i == task[h].id
    IN  /\ At(h, "clear")
        /\ task' = [Staled(i) EXCEPT ![h] = None]
        /\ fails' = [fails EXCEPT ![i] = 0]
        /\ lock' = [lock EXCEPT ![i] = "none"]
        /\ returned' = [returned EXCEPT ![i] = {}]
        /\ timed' = timed \ {i} /\ cut' = cut \ {i}
        /\ UNCHANGED inMemory

(***************************************************************************)
(* Time and failures                                                       *)
(***************************************************************************)

\* The key of the count expires.
CountExpires(i) ==
    /\ i \in timed
    /\ task' = Staled(i)
    /\ fails' = [fails EXCEPT ![i] = 0]
    /\ returned' = [returned EXCEPT ![i] = {}]
    /\ timed' = timed \ {i} /\ cut' = cut \ {i}
    /\ UNCHANGED <<inMemory, lock>>

\* The lock ends, before or after the count: a failure on its way may have given
\* new time to one of the two.
LockExpires(i) ==
    /\ lock[i] = "set"
    /\ task' = Staled(i)
    /\ lock' = [lock EXCEPT ![i] = IF inMemory THEN "past" ELSE "none"]
    /\ returned' = [returned EXCEPT ![i] = {}]
    /\ UNCHANGED <<inMemory, fails, timed, cut>>

\* A command or a query fails, or the process stops.
Abort(h) ==
    /\ task[h] # None
    /\ task' = [task EXCEPT ![h] = None]
    /\ cut' = IF task[h].step = "expire" THEN cut \cup {task[h].id} ELSE cut
    /\ UNCHANGED <<inMemory, fails, timed, lock, returned>>

\* The process with the store in memory starts again.
Restart ==
    /\ inMemory
    /\ fails' = [i \in Identifiers |-> 0]
    /\ lock' = [i \in Identifiers |-> "none"]
    /\ task' = [h \in Handlers |-> None]
    /\ returned' = [i \in Identifiers |-> {}]
    /\ UNCHANGED <<inMemory, timed, cut>>

\* What a handler that has begun does next.
Step(h) ==
    \/ Matches(h) \/ Refused(h) \/ FailInMemory(h)
    \/ Increment(h) \/ Expire(h) \/ SetLock(h) \/ Clear(h)

Next ==
    \/ \E h \in Handlers : (\E i \in Identifiers : NotLocked(h, i)) \/ Step(h) \/ Abort(h)
    \/ \E i \in Identifiers : CountExpires(i) \/ LockExpires(i)
    \/ Restart

Spec == Init /\ [][Next]_vars

\* A handler that has begun goes on, and Redis deletes a key whose time has
\* passed.  Nobody has to log in, and nothing has to fail.
Fairness ==
    /\ \A h \in Handlers : WF_vars(Step(h))
    /\ \A i \in Identifiers : WF_vars(CountExpires(i))

FairSpec == Spec /\ Fairness

(***************************************************************************)
(* Properties                                                              *)
(***************************************************************************)

\* Logins whose outcome will still be counted on i.
Attempting(i) ==
    {h \in Handlers : task[h] # None /\ task[h].id = i /\ ~task[h].stale
                      /\ task[h].step \in {"check", "expire", "lock"}}

PerIdentifier(i) == INSTANCE CheckThenAct
                WITH Actors <- Handlers, Limit <- MaxAttempts,
                     done <- Cardinality(returned[i]), admitted <- Attempting(i)

\* Failures are limited as CheckThenAct says: no login passes isLocked once
\* MaxAttempts failures have been recorded that nothing has cleared, whatever the
\* order of INCR, EXPIRE, SET and DEL; so those in flight are all that exceed it.
LimitsAttempts ==
    /\ \A i \in Identifiers : PerIdentifier(i)!Init
    /\ [][\A i \in Identifiers : [PerIdentifier(i)!Next]_(PerIdentifier(i)!vars)]_vars

\* In Redis, where INCR and EXPIRE are two commands, a count is forgotten in the
\* end unless the handler stopped between the two.
CountForgotten ==
    \A i \in Identifiers : (~inMemory /\ fails[i] > 0) ~> (fails[i] = 0 \/ i \in cut)
=============================================================================
