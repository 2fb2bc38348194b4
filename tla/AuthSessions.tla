---------------------------- MODULE AuthSessions ----------------------------
(***************************************************************************)
(* Refresh sessions: the handlers that issue, rotate and revoke them, over *)
(* the store in Redis, where every command (or pipeline) is a step, or the *)
(* one in memory, where a store operation or one turn of its loop is.  A   *)
(* session has one refresh token for life, so both go by one number; a     *)
(* refresh does not renew a session but opens another one of the same      *)
(* family, named by its first session.  Users are rows of PostgreSQL,      *)
(* read and written whole; their passwords are numbers.                    *)
(*                                                                         *)
(* A pipeline is one step: Redis runs what it has read from one client     *)
(* before it turns to the next.  The sets of ids outlive the sessions in   *)
(* them, so their own expiry cannot be observed.  Access tokens have a     *)
(* module of their own.                                                    *)
(***************************************************************************)
EXTENDS Integers

CONSTANTS
    Users,
    Handlers,       \* requests that are served at once
    MaxSessions,    \* bound: sessions issued
    MaxPasswords    \* bound: passwords set

ASSUME AuthAssumption == MaxSessions \in Nat /\ MaxPasswords \in Nat

VARIABLES
    inMemory,       \* the store the module is wired with, chosen once
    status,         \* identity_users.status; "deleted" when there is no row
    password,       \* identity_users.password_hash
    issued,         \* number of sessions issued so far
    info,           \* what each session was issued with
    store,          \* the RefreshTokenStore
    task,           \* what each handler still has to do
    spoilt          \* history: users one of whose revocations stopped half-way,
                    \* or one of whose password changes was overwritten

vars == <<inMemory, status, password, issued, info, store, task, spoilt>>

Sids == 1 .. MaxSessions
NoSid == 0
NoTask == [step |-> "idle"]

\* from: the session whose refresh opened it; pw: the password its login was
\* checked against; late: that password was no longer the user's.
Info == [user : Users, family : Sids, from : Sids \cup {NoSid},
         pw : 0 .. MaxPasswords, late : BOOLEAN] \cup {NoTask}

\* token is the key refresh:<hash> with its status, keyed the sessions with
\* a key session:<id>, byUser and byFamily the two sets of ids.
Store == [token : [Sids -> {"none", "active", "revoked"}], keyed : SUBSET Sids,
          byUser : [Users -> SUBSET Sids], byFamily : [Sids -> SUBSET Sids]]

Refreshing == {"ttl", "set", "user"}
Revoking   == {"members", "sweep", "get", "remove"}
Writing    == {"update", "row", "deactivate", "delete"}

\* pw, active: what has been read of the row of the user; of: the session
\* refreshed or being removed; family: the one to be revoked or continued;
\* todo: sessions still to be removed; mark: the sessions issued when todo was
\* read; then: what follows the revocation.
Task == [step : Refreshing \cup Revoking \cup Writing \cup {"code", "issue"},
         user : Users, active : BOOLEAN, pw : 0 .. MaxPasswords, of : Sids \cup {NoSid},
         family : Sids \cup {NoSid}, todo : SUBSET Sids, mark : Sids \cup {NoSid},
         then : {"end", "all", "delete"}]

TypeOK ==
    /\ inMemory \in BOOLEAN
    /\ status \in [Users -> {"active", "deactivated", "deleted"}]
    /\ password \in [Users -> 0 .. MaxPasswords]
    /\ issued \in 0 .. MaxSessions
    /\ info \in [Sids -> Info]
    /\ store \in Store
    /\ task \in [Handlers -> Task \cup {NoTask}]
    /\ spoilt \subseteq Users

EmptyStore == [token |-> [s \in Sids |-> "none"], keyed |-> {},
               byUser |-> [u \in Users |-> {}], byFamily |-> [s \in Sids |-> {}]]

Init ==
    /\ inMemory \in BOOLEAN
    /\ status = [u \in Users |-> "active"]
    /\ password = [u \in Users |-> 0]
    /\ issued = 0
    /\ info = [s \in Sids |-> NoTask]
    /\ store = EmptyStore
    /\ task = [h \in Handlers |-> NoTask]
    /\ spoilt = {}

(***************************************************************************)
(* The store                                                               *)
(***************************************************************************)

\* saveSession
Saved(st, s, u, f) ==
    [st EXCEPT !.token[s] = "active", !.keyed = @ \cup {s},
               !.byUser[u] = @ \cup {s}, !.byFamily[f] = @ \cup {s}]

\* Mutant: the refresh token stays.
RemovedButToken(st, S) ==
    [token    |-> st.token,
     keyed    |-> st.keyed \ S,
     byUser   |-> [u \in Users |-> st.byUser[u] \ S],
     byFamily |-> [f \in Sids |-> st.byFamily[f] \ S]]

\* removeSession, of every session in S
Removed(st, S) ==
    [token    |-> [s \in Sids |-> IF s \in S THEN "none" ELSE st.token[s]],
     keyed    |-> st.keyed \ S,
     byUser   |-> [u \in Users |-> st.byUser[u] \ S],
     byFamily |-> [f \in Sids |-> st.byFamily[f] \ S]]

\* The ids a revocation goes through: of a family, or else of the user.
Members(t) == IF t.family = NoSid THEN store.byUser[t.user] ELSE store.byFamily[t.family]

\* listSessions, when nothing else happens meanwhile
Listed(u) == {s \in store.byUser[u] : s \in store.keyed /\ store.token[s] = "active"}

(***************************************************************************)
(* Handlers                                                                *)
(***************************************************************************)

New(step, u) ==
    [step |-> step, user |-> u, pw |-> 0, active |-> TRUE, of |-> NoSid,
     family |-> NoSid, todo |-> {}, mark |-> NoSid, then |-> "end"]

\* The handler goes on with what it has read of the user.
Read(step, u) == [New(step, u) EXCEPT !.pw = password[u], !.active = status[u] = "active"]

\* A handler h begins with task t ...
Begin(h, t) ==
    /\ task[h] = NoTask
    /\ task' = [task EXCEPT ![h] = t]
    /\ UNCHANGED <<inMemory, spoilt>>

\* ... and goes from one step to the next.
Goto(h, step, t) ==
    /\ task[h].step = step
    /\ task' = [task EXCEPT ![h] = t]
    /\ UNCHANGED <<inMemory, spoilt>>

SameUsers == UNCHANGED <<status, password>>
SameSessions == UNCHANGED <<issued, info, store>>

(***************************************************************************)
(* Sessions are issued and rotated                                         *)
(***************************************************************************)

\* LoginUser: the user is active and the password right.  With a second factor
\* the answer is a temporary token, good for one more call ...
Login(h, u) ==
    /\ status[u] = "active"
    /\ \E step \in {"issue", "code"} : Begin(h, Read(step, u))
    /\ SameUsers /\ SameSessions

\* ... VerifyTwoFactorLogin, which looks only whether the user is there.
SecondFactor(h) ==
    /\ Goto(h, "code", IF status[task[h].user] = "deleted" THEN NoTask
                       ELSE [task[h] EXCEPT !.step = "issue"])
    /\ SameUsers /\ SameSessions

\* rotate finds an active token; in memory it is revoked at once.
Rotate(h, s) ==
    /\ s <= issued /\ store.token[s] = "active"
    /\ Begin(h, [New(IF inMemory THEN "user" ELSE "ttl", info[s].user) EXCEPT
                    !.of = s, !.family = info[s].family, !.pw = info[s].pw])
    /\ store' = IF inMemory THEN [store EXCEPT !.token[s] = "revoked"] ELSE store
    /\ SameUsers /\ UNCHANGED <<issued, info>>

\* rotate finds a revoked token: its family is revoked, then all of the user.
Reuse(h, s) ==
    /\ s <= issued /\ store.token[s] = "revoked"
    /\ Begin(h, [New("members", info[s].user) EXCEPT !.family = info[s].family, !.then = "all"])
    /\ SameUsers /\ SameSessions

\* TTL is not positive when the key is gone, or has half a second left.
RotateTtl(h) ==
    /\ \/ Goto(h, "ttl", [task[h] EXCEPT !.step = "user"])
       \/ /\ Goto(h, "ttl", [task[h] EXCEPT !.step = "set"])
          /\ store.token[task[h].of] # "none"
    /\ SameUsers /\ SameSessions

\* SET, whatever has become of the key meanwhile.
RotateSet(h) ==
    /\ Goto(h, "set", [task[h] EXCEPT !.step = "user"])
    /\ store' = [store EXCEPT !.token[task[h].of] = "revoked"]
    /\ SameUsers /\ UNCHANGED <<issued, info>>

\* The user of the rotated session must still be there, and active.
FindUser(h) ==
    /\ Goto(h, "user", IF status[task[h].user] = "active"
                       THEN [task[h] EXCEPT !.step = "issue"] ELSE NoTask)
    /\ SameUsers /\ SameSessions

\* A session of a new family after a login, of the same family after a refresh.
FamilyOf(t, s) == IF t.family = NoSid THEN s ELSE t.family

\* issueForUser
Issue(h) ==
    LET t == task[h]
        s == issued + 1
        f == FamilyOf(t, s)
    IN  /\ Goto(h, "issue", NoTask)
        /\ s \in Sids
        /\ issued' = s
        /\ info' = [info EXCEPT ![s] = [user |-> t.user, family |-> f, from |-> t.of,
                                        pw |-> t.pw, late |-> t.pw # password[t.user]]]
        /\ store' = Saved(store, s, t.user, f)
        /\ SameUsers

(***************************************************************************)
(* Sessions are revoked                                                    *)
(***************************************************************************)

\* What a revocation leads to.
AfterRevocation(t) ==
    CASE t.then = "end"    -> NoTask
      [] t.then = "all"    -> New("members", t.user)
      [] t.then = "delete" -> New("delete", t.user)

\* SMEMBERS
ReadMembers(h) ==
    LET t == task[h]
    IN  /\ Goto(h, "members", [t EXCEPT !.step = "sweep", !.todo = Members(t), !.mark = issued])
        /\ SameUsers /\ SameSessions

\* Mutant: the loop ends at an id that has no session.
SweepNextOrEnd(h) ==
    /\ task[h].step = "sweep"
    /\ \E s \in task[h].todo :
          /\ Goto(h, "sweep", IF s \in store.keyed /\ ~inMemory
                              THEN [task[h] EXCEPT !.step = "get", !.of = s]
                              ELSE [task[h] EXCEPT !.todo = IF s \in store.keyed THEN @ \ {s} ELSE {}])
          /\ store' = IF inMemory THEN Removed(store, {s}) ELSE store
    /\ SameUsers /\ UNCHANGED <<issued, info>>

\* GET session:<id> of one of the ids; in memory it is removed.
SweepNext(h) ==
    /\ task[h].step = "sweep"
    /\ \E s \in task[h].todo :
          /\ Goto(h, "sweep", IF s \in store.keyed /\ ~inMemory
                              THEN [task[h] EXCEPT !.step = "get", !.of = s]
                              ELSE [task[h] EXCEPT !.todo = @ \ {s}])
          /\ store' = IF inMemory THEN Removed(store, {s}) ELSE store
    /\ SameUsers /\ UNCHANGED <<issued, info>>

\* The loop ends when there is none left.
SweepEnd(h) ==
    /\ Goto(h, "sweep", AfterRevocation(task[h]))
    /\ task[h].todo = {}
    /\ SameUsers /\ SameSessions

\* GET refresh:<hash>; the session must be the user's.
GetToken(h) ==
    LET t == task[h]
    IN  /\ Goto(h, "get", IF store.token[t.of] # "none" /\ info[t.of].user = t.user
                          THEN [t EXCEPT !.step = "remove"]
                          ELSE [t EXCEPT !.step = "sweep", !.of = NoSid, !.todo = @ \ {t.of}])
        /\ SameUsers /\ SameSessions

RemoveSession(h) ==
    LET t == task[h]
    IN  /\ Goto(h, "remove", [t EXCEPT !.step = "sweep", !.of = NoSid, !.todo = @ \ {t.of}])
        /\ store' = Removed(store, {t.of})
        /\ SameUsers /\ UNCHANGED <<issued, info>>

\* In memory a session that has its token is removed at once.
RemoveAtOnce(h, s) ==
    /\ inMemory /\ task[h] = NoTask /\ store.token[s] # "none"
    /\ store' = Removed(store, {s})
    /\ UNCHANGED <<inMemory, task, spoilt>>

\* LogoutUser with the refresh token of the session ...
Logout(h, s) ==
    /\ s <= issued
    /\ \/ /\ ~inMemory
          /\ Begin(h, [New("get", info[s].user) EXCEPT !.of = s, !.todo = {s}])
          /\ UNCHANGED store
       \/ RemoveAtOnce(h, s)
    /\ SameUsers /\ UNCHANGED <<issued, info>>

\* ... or with its id, and RevokeSession: the user may name anybody's.
RevokeSession(h, u, s) ==
    /\ s <= issued
    /\ \/ /\ ~inMemory
          /\ Begin(h, [New("sweep", u) EXCEPT !.todo = {s}])
          /\ UNCHANGED store
       \/ info[s].user = u /\ RemoveAtOnce(h, s)
    /\ SameUsers /\ UNCHANGED <<issued, info>>

LogoutAll(h, u) ==
    /\ Begin(h, New("members", u))
    /\ SameUsers /\ SameSessions

\* ChangePassword and ResetPassword up to the hash of the new one.
ChangePassword(h, u) ==
    /\ status[u] # "deleted"
    /\ Begin(h, New("update", u))
    /\ SameUsers /\ SameSessions

\* Mutant: the sessions are revoked only if the account is active.
UpdatePasswordOfActive(h) ==
    LET u == task[h].user
    IN  /\ Goto(h, "update", IF status[u] = "active" THEN New("members", u) ELSE NoTask)
        /\ password[u] < MaxPasswords
        /\ password' = IF status[u] = "deleted" THEN password
                       ELSE [password EXCEPT ![u] = @ + 1]
        /\ UNCHANGED status /\ SameSessions

\* updatePassword, then revokeAllForUser
UpdatePassword(h) ==
    LET u == task[h].user
    IN  /\ Goto(h, "update", New("members", u))
        /\ password[u] < MaxPasswords
        /\ password' = IF status[u] = "deleted" THEN password
                       ELSE [password EXCEPT ![u] = @ + 1]
        /\ UNCHANGED status /\ SameSessions

\* UpdateProfile, VerifyEmail, a phone or a second factor confirmed,
\* DeactivateAccount: the row is read ...
ReadUser(h, u) ==
    /\ status[u] # "deleted"
    /\ \E step \in {"row", "deactivate"} : Begin(h, Read(step, u))
    /\ SameUsers /\ SameSessions

\* ... and written whole, password and status as they were read but for what
\* the handler has changed.
WriteUser(h) ==
    LET t == task[h]
        u == t.user
    IN  /\ t.step \in {"row", "deactivate"}
        /\ task' = [task EXCEPT ![h] = IF t.step = "row" THEN NoTask ELSE New("members", u)]
        /\ IF status[u] = "deleted" THEN SameUsers /\ UNCHANGED spoilt
           ELSE /\ status' = [status EXCEPT ![u] = IF t.step = "row" /\ t.active
                                                  THEN "active" ELSE "deactivated"]
                /\ password' = [password EXCEPT ![u] = t.pw]
                /\ spoilt' = IF t.pw = password[u] THEN spoilt ELSE spoilt \cup {u}
        /\ UNCHANGED inMemory /\ SameSessions

\* DeleteAccount, the password being right
DeleteAccount(h, u) ==
    /\ status[u] # "deleted"
    /\ Begin(h, [New("members", u) EXCEPT !.then = "delete"])
    /\ SameUsers /\ SameSessions

DeleteUser(h) ==
    /\ Goto(h, "delete", NoTask)
    /\ status' = [status EXCEPT ![task[h].user] = "deleted"]
    /\ UNCHANGED password /\ SameSessions

(***************************************************************************)
(* Failures and time                                                       *)
(***************************************************************************)

\* A command of Redis or the database fails, or the process stops.
Abort(h) ==
    /\ task[h] # NoTask /\ ~(inMemory /\ task[h].step \in Revoking)
    /\ task' = [task EXCEPT ![h] = NoTask]
    /\ spoilt' = IF task[h].step \in Revoking THEN spoilt \cup {task[h].user} ELSE spoilt
    /\ UNCHANGED inMemory /\ SameUsers /\ SameSessions

\* The token goes first, the key of the session after it; the store in memory
\* purges the ids as well.
Expire(s) ==
    /\ \/ /\ store.token[s] # "none"
          /\ store' = IF inMemory THEN Removed(store, {s})
                      ELSE [store EXCEPT !.token[s] = "none"]
       \/ /\ ~inMemory /\ store.token[s] # "active" /\ s \in store.keyed
          /\ store' = [store EXCEPT !.keyed = @ \ {s}]
    /\ SameUsers /\ UNCHANGED <<inMemory, issued, info, task, spoilt>>

\* The process with the store in memory starts again.
Restart ==
    /\ inMemory
    /\ store' = EmptyStore
    /\ task' = [h \in Handlers |-> NoTask]
    /\ SameUsers /\ UNCHANGED <<inMemory, issued, info, spoilt>>

\* The calls of a refresh, ...
Refresh(h) ==
    \/ \E s \in Sids : Rotate(h, s) \/ Reuse(h, s)
    \/ RotateTtl(h) \/ RotateSet(h) \/ FindUser(h)

\* ... those that end sessions ...
EndSessions(h) ==
    \/ \E u \in Users : LogoutAll(h, u)
    \/ \E s \in Sids : Logout(h, s)
    \/ \E u \in Users, s \in Sids : RevokeSession(h, u, s)
    \/ ReadMembers(h) \/ SweepNext(h) \/ SweepEnd(h) \/ GetToken(h) \/ RemoveSession(h)

\* ... and all others.
Handler(h) ==
    \/ \E u \in Users : Login(h, u) \/ ChangePassword(h, u) \/ ReadUser(h, u) \/ DeleteAccount(h, u)
    \/ SecondFactor(h) \/ Issue(h)
    \/ UpdatePassword(h) \/ WriteUser(h) \/ DeleteUser(h)
    \/ Refresh(h) \/ EndSessions(h)
    \/ Abort(h)

Next == (\E h \in Handlers : Handler(h)) \/ (\E s \in Sids : Expire(s)) \/ Restart

Spec == Init /\ [][Next]_vars

(***************************************************************************)
(* Properties                                                              *)
(***************************************************************************)
Active == {s \in Sids : store.token[s] = "active"}

\* A session that can be refreshed has its key and is in both sets, so it is in
\* the list its user is shown and no revocation passes it by: the four are
\* written and deleted by different handlers, and expire apart.
ActiveIsIndexed ==
    \A s \in Active :
        info[s] # NoTask /\ s \in Listed(info[s].user) /\ s \in store.byFamily[info[s].family]

\* A revocation under way still has before it every session it is to end that
\* was there when it read the ids: when it has none left, those are gone.
\* What was issued later is not its concern.
RevocationReachesAll ==
    \A h \in Handlers :
        LET t == task[h]
        IN  t.step \in {"sweep", "get", "remove"} =>
                \A s \in Active :
                    s <= t.mark /\ info[s].user = t.user /\ t.family \in {NoSid, info[s].family} => s \in t.todo

\* Not a property: s is still to be removed, or will be when the ids have been read.
Condemned(s) ==
    \E h \in Handlers :
        LET t == task[h]
        IN  /\ t.step \in Revoking /\ t.user = info[s].user
            /\ \/ t.step = "members" /\ t.family = NoSid
               \/ t.step # "members" /\ s \in t.todo
               \/ t.then = "all"

\* A session outlives the password it was opened with only until the change
\* has revoked it, unless the password had changed before it was issued, the
\* revocation stopped half-way or a change was overwritten by a stale row.
OldPasswordEndsSession ==
    \A s \in Active :
        info[s].pw # password[info[s].user] /\ ~info[s].late /\ info[s].user \notin spoilt
            => Condemned(s)
=============================================================================
