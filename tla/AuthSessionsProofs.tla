------------------------- MODULE AuthSessionsProofs -------------------------
(***************************************************************************)
(* For any number of users, handlers and sessions and either store: the    *)
(* sets a revocation reads hold every active session, a revocation leaves  *)
(* none of those behind, and a session of a former password is about to be *)
(* revoked unless the change could not see it.                             *)
(***************************************************************************)
EXTENDS AuthSessions, AccessTokens, TLAPS

\* A session that was issued is known, and a revocation has not read the ids
\* of sessions to come.
Known ==
    /\ \A s \in Sids : s <= issued => info[s] # NoTask
    /\ \A h \in Handlers : task[h] # NoTask => task[h].mark <= issued

IInv == TypeOK /\ Known /\ ActiveIsIndexed /\ RevocationReachesAll

(***************************************************************************)
(* Lemmas                                                                  *)
(***************************************************************************)

LEMMA Numbers ==
    /\ MaxSessions \in Nat /\ MaxPasswords \in Nat
    /\ \A s \in Sids : s \in 1 .. MaxSessions /\ s \in Nat /\ s > 0
    /\ NoSid = 0 /\ NoSid \in Nat /\ NoSid \notin Sids
BY AuthAssumption DEF Sids, NoSid

\* A task at a step is a whole record.
LEMMA AtStep ==
    ASSUME TypeOK, NEW h \in Handlers, task[h].step # "idle"
    PROVE  task[h] \in Task /\ task[h] # NoTask
BY DEF TypeOK, NoTask

LEMMA NewTask ==
    ASSUME TypeOK, NEW u \in Users,
           NEW step \in Refreshing \cup Revoking \cup Writing \cup {"code", "issue"}
    PROVE  /\ New(step, u) \in Task /\ Read(step, u) \in Task
           /\ New(step, u) # NoTask /\ Read(step, u) # NoTask
<1>1. password[u] \in 0 .. MaxPasswords /\ (status[u] = "active") \in BOOLEAN /\ 0 \in 0 .. MaxPasswords
  BY Numbers DEF TypeOK
<1>2. New(step, u) \in Task
  BY <1>1 DEF New, Task
<1>3. Read(step, u) \in Task
  BY <1>1, <1>2 DEF Read, Task
<1>4. New(step, u).step = step /\ Read(step, u).step = step
  BY DEF New, Read
<1>5. step # "idle"
  BY DEF Refreshing, Revoking, Writing
<1>. QED BY <1>2, <1>3, <1>4, <1>5 DEF NoTask

LEMMA AfterRevocationTask ==
    ASSUME TypeOK, NEW t \in Task
    PROVE  AfterRevocation(t) \in Task \cup {NoTask}
BY NewTask DEF AfterRevocation, Task, Revoking, Writing

\* What was issued for a session.
LEMMA InfoOf ==
    ASSUME TypeOK, Known, NEW s \in Sids, s <= issued \/ info[s] # NoTask
    PROVE  /\ info[s] \in [user : Users, family : Sids, from : Sids \cup {NoSid},
                           pw : 0 .. MaxPasswords, late : BOOLEAN]
           /\ info[s] # NoTask
BY DEF TypeOK, Known, Info

LEMMA RemovedStore ==
    ASSUME NEW S, store \in Store
    PROVE  /\ Removed(store, S) \in Store
           /\ \A s \in Sids : Removed(store, S).token[s] = "active" =>
                                 s \notin S /\ store.token[s] = "active"
           /\ \A s \in Sids \ S : s \in store.keyed => s \in Removed(store, S).keyed
           /\ \A s \in Sids \ S, u \in Users :
                 s \in store.byUser[u] => s \in Removed(store, S).byUser[u]
           /\ \A s, f \in Sids : s \notin S /\ s \in store.byFamily[f] =>
                 s \in Removed(store, S).byFamily[f]
BY DEF Removed, Store

LEMMA MembersType ==
    ASSUME TypeOK, NEW h \in Handlers, task[h] \in Task
    PROVE  Members(task[h]) \subseteq Sids
BY DEF TypeOK, Members, Store, Task

(***************************************************************************)
(* The store                                                               *)
(***************************************************************************)

\* Sessions may end, and those that stay active keep their keys and ids.
Keeps ==
    /\ issued' = issued /\ info' = info /\ store' \in Store
    /\ \A s \in Sids :
          store'.token[s] = "active" =>
              /\ store.token[s] = "active"
              /\ s \in store.keyed => s \in store'.keyed
              /\ \A u \in Users : s \in store.byUser[u] => s \in store'.byUser[u]
              /\ \A f \in Sids : s \in store.byFamily[f] => s \in store'.byFamily[f]

LEMMA KeepsSame ==
    ASSUME TypeOK, SameSessions
    PROVE  Keeps
BY DEF TypeOK, SameSessions, Keeps

LEMMA KeepsRemoved ==
    ASSUME TypeOK, UNCHANGED <<issued, info>>, NEW S, store' = Removed(store, S)
    PROVE  Keeps
BY RemovedStore DEF TypeOK, Keeps

\* A token that is revoked or gone.
LEMMA KeepsToken ==
    ASSUME TypeOK, UNCHANGED <<issued, info>>, NEW s, NEW v \in {"none", "revoked"},
           store' = [store EXCEPT !.token[s] = v]
    PROVE  Keeps
<1>1. store' \in Store
  BY DEF TypeOK, Store
<1>2. /\ store'.keyed = store.keyed /\ store'.byUser = store.byUser
      /\ store'.byFamily = store.byFamily
      /\ \A r \in Sids : store'.token[r] = "active" => store.token[r] = "active"
  BY DEF TypeOK, Store
<1>. QED BY <1>1, <1>2 DEF Keeps

\* Every step but Issue only ends sessions.
LEMMA KeepsUnlessIssue ==
    ASSUME TypeOK, [Next]_vars, \A h \in Handlers : ~Issue(h)
    PROVE  Keeps
<1>1. CASE UNCHANGED vars
  BY <1>1, KeepsSame DEF vars, SameSessions
<1>2. ASSUME NEW s \in Sids, Expire(s)
      PROVE  Keeps
  <2>1. CASE store' = Removed(store, {s})
    BY <1>2, <2>1, KeepsRemoved DEF Expire
  <2>2. CASE store' = [store EXCEPT !.token[s] = "none"]
    BY <1>2, <2>2, KeepsToken DEF Expire
  <2>3. CASE store' = [store EXCEPT !.keyed = @ \ {s}] /\ store.token[s] # "active"
    BY <1>2, <2>3 DEF Expire, Keeps, TypeOK, Store
  <2>. QED BY <1>2, <2>1, <2>2, <2>3 DEF Expire
<1>3. CASE Restart
  BY <1>3 DEF Restart, Keeps, EmptyStore, Store
<1>4. ASSUME NEW h \in Handlers, Handler(h)
      PROVE  Keeps
  <2>1. CASE SameSessions
    BY <2>1, KeepsSame
  <2>2. ASSUME NEW s \in Sids, Rotate(h, s)
        PROVE  Keeps
    BY <2>2, KeepsToken, KeepsSame DEF Rotate, SameSessions
  <2>3. CASE RotateSet(h)
    BY <2>3, KeepsToken DEF RotateSet
  <2>4. CASE SweepNext(h)
    BY <2>4, KeepsRemoved, KeepsSame DEF SweepNext, SameSessions
  <2>5. CASE RemoveSession(h)
    BY <2>5, KeepsRemoved DEF RemoveSession
  <2>6. ASSUME NEW s \in Sids, Logout(h, s)
        PROVE  Keeps
    BY <2>6, KeepsRemoved, KeepsSame DEF Logout, RemoveAtOnce, SameSessions
  <2>7. ASSUME NEW u \in Users, NEW s \in Sids, RevokeSession(h, u, s)
        PROVE  Keeps
    BY <2>7, KeepsRemoved, KeepsSame DEF RevokeSession, RemoveAtOnce, SameSessions
  <2>. QED
    BY <1>4, <2>1, <2>2, <2>3, <2>4, <2>5, <2>6, <2>7
    DEF Handler, Refresh, EndSessions, Login, Reuse, LogoutAll, ChangePassword, ReadUser,
      DeleteAccount, SecondFactor,
        RotateTtl, FindUser, Issue, ReadMembers, SweepEnd, GetToken, UpdatePassword, WriteUser,
        DeleteUser, Abort
<1>. QED BY <1>1, <1>2, <1>3, <1>4 DEF Next

\* A session that is issued is active, with its key and in both sets; the
\* others stay as they are.
LEMMA IssueStep ==
    ASSUME TypeOK, NEW h \in Handlers, Issue(h)
    PROVE  LET s == issued + 1
               t == task[h]
           IN  /\ s \in Sids /\ issued' = s /\ task' = [task EXCEPT ![h] = NoTask]
               /\ info' \in [Sids -> Info] /\ store' \in Store
               /\ info'[s] # NoTask /\ info'[s].user = t.user /\ info'[s].pw = t.pw
               /\ info'[s].late = (t.pw # password[t.user])
               /\ s \in store'.keyed /\ s \in store'.byUser[info'[s].user]
               /\ s \in store'.byFamily[info'[s].family]
               /\ \A r \in Sids \ {s} :
                     /\ info'[r] = info[r] /\ store'.token[r] = store.token[r]
                     /\ r \in store.keyed => r \in store'.keyed
                     /\ \A u \in Users : r \in store.byUser[u] => r \in store'.byUser[u]
                     /\ \A f \in Sids : r \in store.byFamily[f] => r \in store'.byFamily[f]
<1>. DEFINE s == issued + 1
            t == task[h]
            f == FamilyOf(t, s)
            i == [user |-> t.user, family |-> f, from |-> t.of, pw |-> t.pw,
                  late |-> t.pw # password[t.user]]
<1>1. /\ s \in Sids /\ issued' = s /\ task' = [task EXCEPT ![h] = NoTask]
      /\ info' = [info EXCEPT ![s] = i] /\ store' = Saved(store, s, t.user, f)
  BY DEF Issue, Goto
<1>2. t \in Task
  BY AtStep DEF Issue, Goto
<1>3. f \in Sids /\ t.user \in Users
  BY <1>1, <1>2 DEF FamilyOf, Task
<1>. HIDE DEF s, f, t
<1>4. i \in Info /\ i # NoTask
  <2>1. i \in [user : Users, family : Sids, from : Sids \cup {NoSid},
               pw : 0 .. MaxPasswords, late : BOOLEAN]
    BY <1>2, <1>3 DEF Task
  <2>2. i.pw \in 0 .. MaxPasswords /\ DOMAIN i # DOMAIN NoTask
    BY <1>2 DEF Task, NoTask
  <2>. QED BY <2>1, <2>2 DEF Info
<1>5. info' \in [Sids -> Info] /\ info'[s] = i /\ \A r \in Sids \ {s} : info'[r] = info[r]
  BY <1>1, <1>4 DEF TypeOK
<1>6. /\ store' \in Store /\ s \in store'.keyed /\ s \in store'.byUser[t.user]
      /\ s \in store'.byFamily[f]
  <2>1. /\ store.token \in [Sids -> {"none", "active", "revoked"}]
        /\ store.byUser \in [Users -> SUBSET Sids] /\ store.byFamily \in [Sids -> SUBSET Sids]
        /\ store.keyed \subseteq Sids /\ store \in Store
    BY DEF TypeOK, Store
  <2>2. /\ store'.token = [store.token EXCEPT ![s] = "active"]
        /\ store'.keyed = store.keyed \cup {s}
        /\ store'.byUser = [store.byUser EXCEPT ![t.user] = store.byUser[t.user] \cup {s}]
        /\ store'.byFamily = [store.byFamily EXCEPT ![f] = store.byFamily[f] \cup {s}]
        /\ store' = [token |-> store'.token, keyed |-> store'.keyed,
                     byUser |-> store'.byUser, byFamily |-> store'.byFamily]
    BY <1>1, <2>1 DEF Saved, Store
  <2>3. store'.token \in [Sids -> {"none", "active", "revoked"}] /\ store'.keyed \subseteq Sids
    BY <1>1, <2>1, <2>2
  <2>4. store'.byUser \in [Users -> SUBSET Sids] /\ s \in store'.byUser[t.user]
    BY <1>1, <1>3, <2>1, <2>2
  <2>5. store'.byFamily \in [Sids -> SUBSET Sids] /\ s \in store'.byFamily[f]
    BY <1>1, <1>3, <2>1, <2>2
  <2>. QED BY <2>2, <2>3, <2>4, <2>5 DEF Store
<1>7. \A r \in Sids \ {s} :
          /\ store'.token[r] = store.token[r]
          /\ r \in store.keyed => r \in store'.keyed
          /\ \A u \in Users : r \in store.byUser[u] => r \in store'.byUser[u]
          /\ \A g \in Sids : r \in store.byFamily[g] => r \in store'.byFamily[g]
  BY <1>1, <1>3 DEF TypeOK, Store, Saved
<1>8. i.user = t.user /\ i.family = f /\ i.pw = t.pw /\ i.late = (t.pw # password[t.user])
  OBVIOUS
<1>. QED BY <1>1, <1>4, <1>5, <1>6, <1>7, <1>8 DEF s, t

(***************************************************************************)
(* Types                                                                   *)
(***************************************************************************)

\* What a step of one handler leaves to show.
LEMMA TaskStep ==
    ASSUME TypeOK, NEW h \in Handlers, NEW t \in Task \cup {NoTask}, task' = [task EXCEPT ![h] = t]
    PROVE  task' \in [Handlers -> Task \cup {NoTask}]
BY DEF TypeOK

\* Every step leaves its handler idle or with a task.
LEMMA HandlerTask ==
    ASSUME TypeOK, Known, NEW h \in Handlers, Handler(h)
    PROVE  task' \in [Handlers -> Task \cup {NoTask}]
<1>. DEFINE t == task[h]
<1>1. NoTask \in Task \cup {NoTask}
  OBVIOUS
<1>2. ASSUME NEW u \in Users,
             Login(h, u) \/ LogoutAll(h, u) \/ ChangePassword(h, u) \/ ReadUser(h, u) \/ DeleteAccount(h, u)
      PROVE  task' \in [Handlers -> Task \cup {NoTask}]
  <2>1. [New("members", u) EXCEPT !.then = "delete"] \in Task
    BY NewTask DEF Task, Revoking
  <2>. QED
    BY <1>2, <2>1, NewTask, TaskStep
    DEF Login, LogoutAll, ChangePassword, ReadUser, DeleteAccount, Begin, Revoking, Writing
<1>3. ASSUME NEW s \in Sids, Rotate(h, s)
      PROVE  task' \in [Handlers -> Task \cup {NoTask}]
  <2>1. info[s].user \in Users /\ info[s].family \in Sids /\ info[s].pw \in 0 .. MaxPasswords
    BY <1>3, InfoOf DEF Rotate
  <2>2. New("user", info[s].user) \in Task /\ New("ttl", info[s].user) \in Task
    BY <2>1, NewTask DEF Refreshing
  <2>3. \A step \in {"user", "ttl"} :
            [New(step, info[s].user) EXCEPT !.of = s, !.family = info[s].family, !.pw = info[s].pw] \in Task
    BY <2>1, <2>2 DEF Task
  <2>. QED BY <1>3, <2>3, TaskStep DEF Rotate, Begin
<1>4. ASSUME NEW s \in Sids, Reuse(h, s)
      PROVE  task' \in [Handlers -> Task \cup {NoTask}]
  <2>1. info[s].user \in Users /\ info[s].family \in Sids
    BY <1>4, InfoOf DEF Reuse
  <2>2. New("members", info[s].user) \in Task
    BY <2>1, NewTask DEF Revoking
  <2>3. [New("members", info[s].user) EXCEPT !.family = info[s].family, !.then = "all"] \in Task
    BY <2>1, <2>2 DEF Task
  <2>. QED BY <1>4, <2>3, TaskStep DEF Reuse, Begin
<1>5. ASSUME NEW s \in Sids, Logout(h, s)
      PROVE  task' \in [Handlers -> Task \cup {NoTask}]
  <2>1. info[s].user \in Users
    BY <1>5, InfoOf DEF Logout, RemoveAtOnce
  <2>2. New("get", info[s].user) \in Task
    BY <2>1, NewTask DEF Revoking
  <2>3. [New("get", info[s].user) EXCEPT !.of = s, !.todo = {s}] \in Task
    BY <2>1, <2>2 DEF Task
  <2>4. task \in [Handlers -> Task \cup {NoTask}]
    BY DEF TypeOK
  <2>. QED BY <1>5, <2>3, <2>4, TaskStep DEF Logout, RemoveAtOnce, Begin
<1>6. ASSUME NEW u \in Users, NEW s \in Sids, RevokeSession(h, u, s)
      PROVE  task' \in [Handlers -> Task \cup {NoTask}]
  <2>1. [New("sweep", u) EXCEPT !.todo = {s}] \in Task
    BY NewTask DEF Task, Revoking
  <2>2. task \in [Handlers -> Task \cup {NoTask}]
    BY DEF TypeOK
  <2>. QED BY <1>6, <2>1, <2>2, TaskStep DEF RevokeSession, RemoveAtOnce, Begin
<1>7. CASE SecondFactor(h) \/ RotateTtl(h) \/ RotateSet(h) \/ FindUser(h) \/ Issue(h) \/ DeleteUser(h)
  <2>1. t \in Task
    BY <1>7, AtStep DEF SecondFactor, RotateTtl, RotateSet, FindUser, Issue, DeleteUser, Goto
  <2>2. \A step \in {"issue", "user", "set"} : [t EXCEPT !.step = step] \in Task
    BY <2>1 DEF Task, Refreshing
  <2>. HIDE DEF t
  <2>3. PICK x \in Task \cup {NoTask} : task' = [task EXCEPT ![h] = x]
    BY <1>7, <2>2 DEF SecondFactor, RotateTtl, RotateSet, FindUser, Issue, DeleteUser, Goto, t
  <2>. QED BY <2>3, TaskStep
<1>8. CASE ReadMembers(h) \/ SweepNext(h) \/ GetToken(h) \/ RemoveSession(h)
  <2>1. t \in Task
    BY <1>8, AtStep DEF ReadMembers, SweepNext, GetToken, RemoveSession, Goto
  <2>2. issued \in Sids \cup {NoSid}
    BY Numbers DEF TypeOK, Sids, NoSid
  <2>3. [t EXCEPT !.step = "sweep", !.todo = Members(t), !.mark = issued] \in Task
    BY <2>1, <2>2, MembersType DEF Task, Revoking
  <2>4. \A s : /\ [t EXCEPT !.todo = @ \ {s}] \in Task
               /\ [t EXCEPT !.step = "sweep", !.of = NoSid, !.todo = @ \ {s}] \in Task
    BY <2>1 DEF Task, Revoking
  <2>5. \A s \in t.todo : [t EXCEPT !.step = "get", !.of = s] \in Task
    BY <2>1 DEF Task, Revoking
  <2>6. [t EXCEPT !.step = "remove"] \in Task
    BY <2>1 DEF Task, Revoking
  <2>. HIDE DEF t
  <2>7. PICK x \in Task \cup {NoTask} : task' = [task EXCEPT ![h] = x]
    BY <1>8, <2>3, <2>4, <2>5, <2>6 DEF ReadMembers, SweepNext, GetToken, RemoveSession, Goto, t
  <2>. QED BY <2>7, TaskStep
<1>9. CASE SweepEnd(h)
  <2>1. task[h] \in Task
    BY <1>9, AtStep DEF SweepEnd, Goto
  <2>. QED BY <1>9, <2>1, AfterRevocationTask, TaskStep DEF SweepEnd, Goto
<1>10. CASE UpdatePassword(h) \/ WriteUser(h)
  <2>1. task[h] \in Task
    BY <1>10, AtStep DEF UpdatePassword, WriteUser, Goto
  <2>2. task[h].user \in Users
    BY <2>1 DEF Task
  <2>. QED BY <1>10, <2>2, NewTask, TaskStep DEF UpdatePassword, WriteUser, Goto, Revoking
<1>11. CASE Abort(h)
  BY <1>11, TaskStep DEF Abort
<1>. QED BY <1>2, <1>3, <1>4, <1>5, <1>6, <1>7, <1>8, <1>9, <1>10, <1>11 DEF Handler, Refresh, EndSessions

\* The row of a user stays a row, and only users are spoilt.
LEMMA HandlerRow ==
    ASSUME TypeOK, NEW h \in Handlers, Handler(h)
    PROVE  /\ status' \in [Users -> {"active", "deactivated", "deleted"}]
           /\ password' \in [Users -> 0 .. MaxPasswords]
           /\ spoilt' \subseteq Users
<1>. USE DEF TypeOK
<1>1. CASE SameUsers /\ UNCHANGED spoilt
  BY <1>1 DEF SameUsers
<1>2. CASE UpdatePassword(h)
  <2>1. \A u \in Users : password[u] < MaxPasswords => password[u] + 1 \in 0 .. MaxPasswords
    BY Numbers
  <2>. QED BY <1>2, <2>1 DEF UpdatePassword, Goto
<1>3. CASE WriteUser(h)
  <2>1. task[h] \in Task
    BY <1>3, AtStep DEF WriteUser
  <2>2. task[h].user \in Users /\ task[h].pw \in 0 .. MaxPasswords
    BY <2>1 DEF Task
  <2>. QED BY <1>3, <2>2 DEF WriteUser, SameUsers
<1>4. CASE DeleteUser(h)
  BY <1>4 DEF DeleteUser, Goto
<1>5. CASE Abort(h)
  <2>1. task[h] \in Task
    BY <1>5 DEF Abort
  <2>. QED BY <1>5, <2>1 DEF Abort, SameUsers, Task
<1>. QED
  BY <1>1, <1>2, <1>3, <1>4, <1>5
  DEF Handler, Refresh, EndSessions, Login, Reuse, LogoutAll, ChangePassword, ReadUser,
      DeleteAccount, SecondFactor,
      Rotate, RotateTtl, RotateSet, FindUser, Issue, ReadMembers, SweepNext, SweepEnd, GetToken,
      RemoveSession, Logout, RevokeSession, RemoveAtOnce, Begin, Goto

LEMMA TypeStep ==
    ASSUME TypeOK, Known, [Next]_vars
    PROVE  TypeOK'
<1>1. /\ issued' \in 0 .. MaxSessions /\ info' \in [Sids -> Info] /\ store' \in Store
  <2>1. CASE \E h \in Handlers : Issue(h)
    BY <2>1, IssueStep DEF Sids, TypeOK
  <2>2. CASE \A h \in Handlers : ~Issue(h)
    BY <2>2, KeepsUnlessIssue DEF Keeps, TypeOK
  <2>. QED BY <2>1, <2>2
<1>2. inMemory' = inMemory
  BY DEF Next, vars, Handler, Refresh, EndSessions, Login, Reuse, LogoutAll, ChangePassword, ReadUser,
      DeleteAccount,
      SecondFactor, Rotate, RotateTtl, RotateSet, FindUser, Issue, ReadMembers, SweepNext, SweepEnd,
      GetToken, RemoveSession, Logout, RevokeSession, RemoveAtOnce, UpdatePassword, WriteUser, DeleteUser, Abort,
      Expire, Restart, Begin, Goto
<1>3. CASE \E h \in Handlers : Handler(h)
  BY <1>1, <1>2, <1>3, HandlerTask, HandlerRow DEF TypeOK
<1>4. CASE UNCHANGED vars \/ (\E s \in Sids : Expire(s)) \/ Restart
  BY <1>1, <1>2, <1>4 DEF TypeOK, vars, Expire, Restart, SameUsers
<1>. QED BY <1>3, <1>4 DEF Next

(***************************************************************************)
(* Active sessions are indexed                                             *)
(***************************************************************************)

LEMMA IndexStep ==
    ASSUME IInv, [Next]_vars
    PROVE  ActiveIsIndexed'
<1>. USE DEF IInv
<1>1. ASSUME NEW h \in Handlers, Issue(h)
      PROVE  ActiveIsIndexed'
  <2>1. SUFFICES ASSUME NEW s \in Sids, store'.token[s] = "active"
                 PROVE  /\ info'[s] # NoTask /\ s \in store'.keyed
                        /\ s \in store'.byUser[info'[s].user]
                        /\ s \in store'.byFamily[info'[s].family]
    BY DEF ActiveIsIndexed, Listed, Active
  <2>2. CASE s = issued + 1
    BY <1>1, <2>2, IssueStep
  <2>3. CASE s # issued + 1
    <3>1. info'[s] = info[s] /\ store.token[s] = "active"
      BY <1>1, <2>1, <2>3, IssueStep
    <3>2. /\ info[s] # NoTask /\ s \in store.keyed
          /\ s \in store.byUser[info[s].user] /\ s \in store.byFamily[info[s].family]
      BY <3>1 DEF ActiveIsIndexed, Listed, Active
    <3>3. info[s].user \in Users /\ info[s].family \in Sids
      BY <3>2, InfoOf
    <3>. QED BY <1>1, <2>3, <3>1, <3>2, <3>3, IssueStep
  <2>. QED BY <2>2, <2>3
<1>2. CASE \A h \in Handlers : ~Issue(h)
  <2>1. Keeps
    BY <1>2, KeepsUnlessIssue
  <2>2. SUFFICES ASSUME NEW s \in Sids, store'.token[s] = "active"
                 PROVE  /\ info'[s] # NoTask /\ s \in store'.keyed
                        /\ s \in store'.byUser[info'[s].user]
                        /\ s \in store'.byFamily[info'[s].family]
    BY DEF ActiveIsIndexed, Listed, Active
  <2>3. /\ info[s] # NoTask /\ s \in store.keyed
        /\ s \in store.byUser[info[s].user] /\ s \in store.byFamily[info[s].family]
    BY <2>1, <2>2 DEF Keeps, ActiveIsIndexed, Listed, Active
  <2>4. info[s].user \in Users /\ info[s].family \in Sids
    BY <2>3, InfoOf
  <2>. QED BY <2>1, <2>2, <2>3, <2>4 DEF Keeps
<1>. QED BY <1>1, <1>2

(***************************************************************************)
(* A revocation reaches the sessions it has read                           *)
(***************************************************************************)
Sweeping == {"sweep", "get", "remove"}

\* What Known and RevocationReachesAll say of one task.
Fine(t) ==
    t # NoTask =>
        /\ t.mark <= issued
        /\ t.step \in Sweeping =>
              \A s \in Active :
                  s <= t.mark /\ info[s].user = t.user /\ t.family \in {NoSid, info[s].family} => s \in t.todo

LEMMA FineTasks ==
    /\ IInv => \A h \in Handlers : Fine(task[h])
    /\ (\A h \in Handlers : Fine(task[h])') /\ (\A s \in Sids : s <= issued => info[s] # NoTask)'
          => Known' /\ RevocationReachesAll'
BY DEF IInv, Known, RevocationReachesAll, Fine, Sweeping, NoTask

\* The sessions that are active after a step and were issued before were so
\* before, and as they are.
LEMMA ActiveStep ==
    ASSUME TypeOK, [Next]_vars
    PROVE  /\ issued' \in Nat /\ issued \in Nat /\ issued <= issued' /\ Active' \subseteq Sids
           /\ \A s \in Active' : s <= issued => s \in Active /\ info'[s] = info[s]
           /\ (\A h \in Handlers : ~Issue(h)) =>
                  issued' = issued /\ info' = info /\ Active' \subseteq Active
<1>1. issued \in Nat
  BY Numbers DEF TypeOK
<1>2. ASSUME NEW h \in Handlers, Issue(h)
      PROVE  /\ issued' = issued + 1
             /\ \A s \in Active' : s <= issued => s \in Active /\ info'[s] = info[s]
  BY <1>1, <1>2, IssueStep, Numbers DEF Active
<1>3. CASE \A h \in Handlers : ~Issue(h)
  BY <1>1, <1>3, KeepsUnlessIssue DEF Keeps, Active
<1>. QED BY <1>1, <1>2, <1>3 DEF Active

LEMMA MarkType ==
    ASSUME NEW t \in Task
    PROVE  t.mark \in Nat
<1>1. t.mark \in Sids \cup {NoSid}
  BY DEF Task
<1>. QED BY <1>1, Numbers

LEMMA FineKept ==
    ASSUME IInv, [Next]_vars, NEW t \in Task \cup {NoTask}, Fine(t)
    PROVE  Fine(t)'
<1>1. SUFFICES ASSUME t \in Task, t # NoTask
               PROVE  Fine(t)'
  BY DEF Fine
<1>2. t.mark \in Nat
  BY <1>1, MarkType
<1>3. t.mark <= issued /\ issued <= issued' /\ issued \in Nat /\ issued' \in Nat
  BY <1>1, ActiveStep DEF Fine, IInv
<1>4. ASSUME NEW s \in Active', s <= t.mark
      PROVE  s \in Active /\ info'[s] = info[s]
  <2>1. s \in Sids /\ s \in Nat
    BY ActiveStep, Numbers DEF IInv
  <2>2. s <= issued
    BY <1>2, <1>3, <1>4, <2>1
  <2>. QED BY <2>2, ActiveStep DEF IInv
<1>. QED BY <1>1, <1>2, <1>3, <1>4 DEF Fine

\* A task that has read no ids, or does not go through them.
LEMMA FineBegun ==
    ASSUME IInv, [Next]_vars, NEW t \in Task \cup {NoTask}, t # NoTask => t.mark = NoSid
    PROVE  Fine(t)'
<1>1. issued' \in Nat /\ \A s \in Active' : ~(s <= NoSid)
  BY ActiveStep, Numbers DEF IInv
<1>2. NoSid <= issued'
  BY <1>1, Numbers
<1>. QED BY <1>1, <1>2 DEF Fine

LEMMA FineElsewhere ==
    ASSUME IInv, [Next]_vars, NEW h \in Handlers, task[h] \in Task, task[h].step # "idle",
           NEW x, x = [task[h] EXCEPT !.step = x.step], x.step \notin Sweeping
    PROVE  Fine(x)'
<1>1. x.mark = task[h].mark /\ task[h].mark \in Nat
  BY MarkType DEF Task
<1>2. task[h] # NoTask
  BY DEF NoTask
<1>3. task[h].mark <= issued /\ issued <= issued' /\ issued \in Nat /\ issued' \in Nat
  BY <1>2, FineTasks, ActiveStep DEF Fine, IInv
<1>4. x.mark <= issued'
  BY <1>1, <1>3
<1>. QED BY <1>4 DEF Fine

\* Only the task of the handler that takes the step has to be looked at.
LEMMA FineOthers ==
    ASSUME IInv, [Next]_vars, NEW h \in Handlers, NEW x \in Task \cup {NoTask}, x = task'[h],
           task' \in [Handlers -> Task \cup {NoTask}], Fine(x)',
           \A g \in Handlers \ {h} : task'[g] = task[g]
    PROVE  (\A g \in Handlers : Fine(task[g]))'
<1>1. SUFFICES ASSUME NEW g \in Handlers
               PROVE  Fine(task[g])'
  OBVIOUS
<1>2. CASE g = h
  BY <1>2 DEF Fine
<1>3. CASE g # h
  <2>1. PICK t \in Task \cup {NoTask} : t = task[g]
    BY DEF IInv, TypeOK
  <2>2. Fine(t)
    BY <2>1, FineTasks DEF Fine
  <2>3. Fine(t)'
    BY <2>2, FineKept
  <2>. QED BY <1>3, <2>1, <2>3 DEF Fine
<1>. QED BY <1>2, <1>3

\* The steps of a revocation: what is dropped from todo is no longer active.
LEMMA FineSweep ==
    ASSUME IInv, [Next]_vars, NEW h \in Handlers, NEW x, x = task'[h],
           SweepNext(h) \/ GetToken(h) \/ RemoveSession(h)
    PROVE  Fine(x)'
<1>1. task[h] \in Task /\ task[h] # NoTask /\ task \in [Handlers -> Task \cup {NoTask}]
  BY AtStep DEF SweepNext, GetToken, RemoveSession, Goto, IInv, TypeOK
<1>2. \A g \in Handlers : ~Issue(g)
  <2>1. issued' = issued /\ issued \in Nat
    BY ActiveStep DEF SweepNext, GetToken, RemoveSession, SameSessions, IInv
  <2>. QED BY <2>1 DEF Issue
<1>3. issued' = issued /\ info' = info /\ Active' \subseteq Active /\ Active' \subseteq Sids
  BY <1>2, ActiveStep DEF IInv
<1>4. /\ x.mark = task[h].mark /\ x.user = task[h].user /\ x.family = task[h].family
      /\ \A s \in Active' :
            s \in task[h].todo /\ info[s].user = task[h].user => s \in x.todo
  <2>1. CASE SweepNext(h)
    <3>1. PICK s \in task[h].todo :
              /\ task' = [task EXCEPT ![h] = IF s \in store.keyed /\ ~inMemory
                                             THEN [task[h] EXCEPT !.step = "get", !.of = s]
                                             ELSE [task[h] EXCEPT !.todo = @ \ {s}]]
              /\ store' = IF inMemory THEN Removed(store, {s}) ELSE store
      BY <2>1 DEF SweepNext, Goto
    <3>2. CASE s \in store.keyed /\ ~inMemory
      BY <1>1, <3>1, <3>2 DEF Task
    <3>3. CASE s \notin store.keyed \/ inMemory
      <4>1. s \notin Active'
        <5>1. CASE inMemory
          BY <3>1, <5>1, RemovedStore DEF Active, IInv, TypeOK
        <5>2. CASE s \notin store.keyed
          BY <1>3, <5>2 DEF ActiveIsIndexed, Listed, IInv
        <5>. QED BY <3>3, <5>1, <5>2
      <4>2. x = [task[h] EXCEPT !.todo = task[h].todo \ {s}]
        BY <1>1, <3>1, <3>3
      <4>. QED BY <1>1, <4>1, <4>2 DEF Task
    <3>. QED BY <3>2, <3>3
  <2>2. CASE GetToken(h)
    <3>1. CASE store.token[task[h].of] # "none" /\ info[task[h].of].user = task[h].user
      BY <1>1, <2>2, <3>1 DEF GetToken, Goto, Task
    <3>2. CASE store.token[task[h].of] = "none" \/ info[task[h].of].user # task[h].user
      <4>1. x = [task[h] EXCEPT !.step = "sweep", !.of = NoSid, !.todo = task[h].todo \ {task[h].of}]
        BY <1>1, <2>2, <3>2 DEF GetToken, Goto
      <4>2. task[h].of \in Active' => info[task[h].of].user # task[h].user
        BY <1>3, <3>2 DEF Active
      <4>. QED BY <1>1, <4>1, <4>2 DEF Task
    <3>. QED BY <3>1, <3>2
  <2>3. CASE RemoveSession(h)
    <3>1. x = [task[h] EXCEPT !.step = "sweep", !.of = NoSid, !.todo = task[h].todo \ {task[h].of}]
      BY <1>1, <2>3 DEF RemoveSession, Goto
    <3>2. task[h].of \notin Active'
      BY <2>3, RemovedStore DEF RemoveSession, Active, IInv, TypeOK
    <3>. QED BY <1>1, <3>1, <3>2 DEF Task
  <2>. QED BY <2>1, <2>2, <2>3
<1>5. task[h].mark <= issued /\
      \A s \in Active : s <= task[h].mark /\ info[s].user = task[h].user
                        /\ task[h].family \in {NoSid, info[s].family} => s \in task[h].todo
  <2>1. task[h].step \in Sweeping
    BY DEF SweepNext, GetToken, RemoveSession, Goto, Sweeping
  <2>. QED BY <1>1, <2>1, FineTasks DEF Fine
<1>. QED BY <1>3, <1>4, <1>5 DEF Fine

\* The ids that are read are those of every active session in question.
LEMMA FineRead ==
    ASSUME IInv, [Next]_vars, NEW h \in Handlers, NEW x, x = task'[h], ReadMembers(h)
    PROVE  Fine(x)'
<1>1. task[h] \in Task /\ task \in [Handlers -> Task \cup {NoTask}]
  BY AtStep DEF ReadMembers, Goto, IInv, TypeOK
<1>2. issued' = issued /\ info' = info /\ Active' = Active /\ issued \in Nat
  BY ActiveStep DEF ReadMembers, SameSessions, Active, IInv
<1>3. x = [task[h] EXCEPT !.step = "sweep", !.todo = Members(task[h]), !.mark = issued]
  BY <1>1 DEF ReadMembers, Goto
<1>4. /\ x.mark = issued /\ x.user = task[h].user /\ x.family = task[h].family
      /\ x.todo = Members(task[h])
  BY <1>1, <1>3 DEF Task
<1>5. \A s \in Active : info[s].user = task[h].user /\ task[h].family \in {NoSid, info[s].family}
                        => s \in Members(task[h])
  BY DEF Members, ActiveIsIndexed, Listed, IInv
<1>. QED BY <1>2, <1>4, <1>5 DEF Fine

\* Every other step begins a task, drops one or goes on to a step that is not
\* part of the loop.
LEMMA FineHandler ==
    ASSUME IInv, [Next]_vars, NEW h \in Handlers, Handler(h)
    PROVE  (\A g \in Handlers : Fine(task[g]))'
<1>1. task' \in [Handlers -> Task \cup {NoTask}] /\ task \in [Handlers -> Task \cup {NoTask}]
  BY HandlerTask DEF IInv, TypeOK
<1>2. PICK x \in Task \cup {NoTask} : x = task'[h]
  BY <1>1
<1>3. \A g \in Handlers \ {h} : task'[g] = task[g]
  BY <1>1
  DEF Handler, Refresh, EndSessions, Login, Reuse, LogoutAll, ChangePassword, ReadUser,
      DeleteAccount, SecondFactor,
      Rotate, RotateTtl, RotateSet, FindUser, Issue, ReadMembers, SweepNext, SweepEnd, GetToken,
      RemoveSession, Logout, RevokeSession, RemoveAtOnce, UpdatePassword, WriteUser, DeleteUser, Abort, Begin, Goto
<1>4. SUFFICES Fine(x)'
  BY <1>1, <1>2, <1>3, FineOthers
<1>5. ASSUME NEW u \in Users,
             Login(h, u) \/ LogoutAll(h, u) \/ ChangePassword(h, u) \/ ReadUser(h, u) \/ DeleteAccount(h, u)
      PROVE  x.mark = NoSid
  <2>1. \A step : /\ New(step, u).mark = NoSid /\ Read(step, u).mark = NoSid
                  /\ [New(step, u) EXCEPT !.then = "delete"].mark = NoSid
    BY DEF New, Read
  <2>. QED
    BY <1>1, <1>2, <1>5, <2>1 DEF Login, LogoutAll, ChangePassword, ReadUser, DeleteAccount, Begin
<1>6. ASSUME NEW s \in Sids, Rotate(h, s) \/ Reuse(h, s)
      PROVE  x.mark = NoSid
  BY <1>1, <1>2, <1>6 DEF Rotate, Reuse, Begin, New
<1>7. ASSUME NEW s \in Sids, Logout(h, s)
      PROVE  x = NoTask \/ x.mark = NoSid
  BY <1>1, <1>2, <1>7 DEF Logout, RemoveAtOnce, Begin, New
<1>8. ASSUME NEW u \in Users, NEW s \in Sids, RevokeSession(h, u, s)
      PROVE  x = NoTask \/ x.mark = NoSid
  BY <1>1, <1>2, <1>8 DEF RevokeSession, RemoveAtOnce, Begin, New
<1>9. CASE SecondFactor(h) \/ RotateTtl(h) \/ RotateSet(h) \/ FindUser(h)
  <2>1. task[h] \in Task /\ task[h].step # "idle"
    BY <1>9, AtStep DEF SecondFactor, RotateTtl, RotateSet, FindUser, Goto, IInv
  <2>2. x = NoTask \/ (x = [task[h] EXCEPT !.step = x.step] /\ x.step \notin Sweeping)
    <3>1. PICK step \in {"issue", "user", "set"} : x = NoTask \/ x = [task[h] EXCEPT !.step = step]
      BY <1>1, <1>2, <1>9 DEF SecondFactor, RotateTtl, RotateSet, FindUser, Goto
    <3>2. [task[h] EXCEPT !.step = step].step = step
      BY <2>1 DEF Task
    <3>. QED BY <3>1, <3>2 DEF Sweeping
  <2>. QED BY <2>1, <2>2, FineElsewhere DEF Fine
<1>10. CASE Issue(h) \/ DeleteUser(h) \/ Abort(h)
  <2>1. x = NoTask
    BY <1>1, <1>2, <1>10 DEF Issue, DeleteUser, Abort, Goto
  <2>. QED BY <2>1 DEF Fine
<1>11. CASE ReadMembers(h)
  BY <1>2, <1>11, FineRead
<1>12. CASE SweepNext(h) \/ GetToken(h) \/ RemoveSession(h)
  BY <1>2, <1>12, FineSweep
<1>13. CASE SweepEnd(h) \/ UpdatePassword(h) \/ WriteUser(h)
  <2>1. task[h] \in Task
    BY <1>13, AtStep DEF SweepEnd, UpdatePassword, WriteUser, Goto, IInv
  <2>2. \A u : New("members", u).mark = NoSid /\ New("delete", u).mark = NoSid
    BY DEF New
  <2>3. x = NoTask \/ x.mark = NoSid
    BY <1>1, <1>2, <1>13, <2>1, <2>2 DEF SweepEnd, UpdatePassword, WriteUser, Goto, AfterRevocation, Task
  <2>. QED BY <2>3, FineBegun
<1>. QED
  BY <1>5, <1>6, <1>7, <1>8, <1>9, <1>10, <1>11, <1>12, <1>13, FineBegun 
  DEF Handler, Refresh, EndSessions

LEMMA ReachStep ==
    ASSUME IInv, [Next]_vars
    PROVE  Known' /\ RevocationReachesAll'
<1>1. (\A s \in Sids : s <= issued => info[s] # NoTask)'
  <2>1. ASSUME NEW h \in Handlers, Issue(h)
        PROVE  (\A s \in Sids : s <= issued => info[s] # NoTask)'
    BY <2>1, IssueStep, Numbers DEF IInv, Known, TypeOK
  <2>2. CASE \A h \in Handlers : ~Issue(h)
    BY <2>2, KeepsUnlessIssue DEF Keeps, IInv, Known
  <2>. QED BY <2>1, <2>2
<1>2. (\A h \in Handlers : Fine(task[h]))'
  <2>1. CASE \E h \in Handlers : Handler(h)
    BY <2>1, FineHandler
  <2>2. CASE UNCHANGED vars \/ (\E s \in Sids : Expire(s)) \/ Restart
    <3>1. SUFFICES ASSUME NEW h \in Handlers
                   PROVE  Fine(task[h])'
      OBVIOUS
    <3>2. task'[h] = NoTask \/ task'[h] = task[h]
      BY <2>2 DEF vars, Expire, Restart
    <3>3. PICK t \in Task \cup {NoTask} : t = task[h]
      BY DEF IInv, TypeOK
    <3>4. Fine(t)'
      BY <3>3, FineTasks, FineKept DEF Fine
    <3>. QED BY <3>2, <3>3, <3>4 DEF Fine
  <2>. QED BY <2>1, <2>2 DEF Next
<1>. QED BY <1>1, <1>2, FineTasks

(***************************************************************************)
(* Theorems                                                                *)
(***************************************************************************)
\* In every reachable state the variables have their types, each issued session is
\* known, a handler has read ids of issued sessions only, every usable session is
\* in the index of its user, and a running revocation reaches all it has to.
THEOREM Inductive == Spec => []IInv
<1>1. Init => IInv
  <2>. SUFFICES ASSUME Init
                PROVE  IInv
    OBVIOUS
  <2>1. TypeOK
    BY Numbers DEF Init, TypeOK, EmptyStore, Store, Info, Sids
  <2>. QED BY <2>1, Numbers DEF Init, IInv, Known, ActiveIsIndexed, Listed, RevocationReachesAll, Active, EmptyStore, NoTask
<1>2. IInv /\ [Next]_vars => IInv'
  BY TypeStep, ReachStep, IndexStep DEF IInv
<1>. QED BY <1>1, <1>2, PTL DEF Spec

\* Every reachable state is well typed.
THEOREM TypeCorrect == Spec => []TypeOK
BY Inductive, PTL DEF IInv

\* Every session whose refresh token is active has its key and is in the set
\* of its user and in that of its family.
THEOREM Indexed == Spec => []ActiveIsIndexed
BY Inductive, PTL DEF IInv

\* A revocation under way still has before it every active session that was
\* issued before it read the ids.
THEOREM RevocationComplete == Spec => []RevocationReachesAll
BY Inductive, PTL DEF IInv

(***************************************************************************)
(* A changed password ends the sessions of the former one                  *)
(***************************************************************************)

\* What Condemned says of one task and a session of user u.
Condemns(t, s, u) ==
    /\ t.step \in Revoking /\ t.user = u
    /\ \/ t.step = "members" /\ t.family = NoSid
       \/ t.step # "members" /\ s \in t.todo
       \/ t.then = "all"

LEMMA SpoiltGrows ==
    ASSUME [Next]_vars
    PROVE  spoilt \subseteq spoilt'
BY DEF Next, vars, Handler, Refresh, EndSessions, Login, Reuse, LogoutAll, ChangePassword, ReadUser,
      DeleteAccount,
    SecondFactor, Rotate, RotateTtl, RotateSet, FindUser, Issue, ReadMembers, SweepNext, SweepEnd,
    GetToken, RemoveSession, Logout, RevokeSession, RemoveAtOnce, UpdatePassword, WriteUser, DeleteUser, Abort,
    Expire, Restart, Begin, Goto

\* A password is changed by a handler that goes on to revoke, or overwritten.
LEMMA PasswordChanges ==
    ASSUME TypeOK, [Next]_vars, NEW u \in Users, password'[u] # password[u]
    PROVE  u \in spoilt' \/ \E h \in Handlers : task'[h] = New("members", u)
<1>1. PICK h \in Handlers : UpdatePassword(h) \/ WriteUser(h)
  BY DEF Next, vars, Handler, Refresh, EndSessions, Login, Reuse, LogoutAll, ChangePassword, ReadUser,
      DeleteAccount,
      SecondFactor, Rotate, RotateTtl, RotateSet, FindUser, Issue, ReadMembers, SweepNext, SweepEnd,
      GetToken, RemoveSession, Logout, RevokeSession, RemoveAtOnce, DeleteUser, Abort, Expire, Restart, SameUsers
<1>2. password \in [Users -> 0 .. MaxPasswords] /\ task \in [Handlers -> Task \cup {NoTask}]
  BY DEF TypeOK
<1>3. CASE UpdatePassword(h)
  <2>1. u = task[h].user
    BY <1>2, <1>3 DEF UpdatePassword
  <2>. QED BY <1>2, <1>3, <2>1 DEF UpdatePassword, Goto
<1>4. CASE WriteUser(h)
  <2>1. /\ password' = [password EXCEPT ![task[h].user] = task[h].pw]
        /\ spoilt' = IF task[h].pw = password[task[h].user] THEN spoilt
                     ELSE spoilt \cup {task[h].user}
    BY <1>4 DEF WriteUser, SameUsers
  <2>. QED BY <1>2, <2>1
<1>. QED BY <1>1, <1>3, <1>4

\* A task that condemns a session does so until the session is removed or the
\* revocation stops.
LEMMA CondemnsUntilRemoved ==
    ASSUME IInv, [Next]_vars, NEW h \in Handlers, NEW s \in Active, s \in Active',
           Condemns(task[h], s, info[s].user), info[s].user \notin spoilt'
    PROVE  Condemns(task'[h], s, info[s].user)
<1>1. task[h] \in Task /\ task[h].step \in Revoking /\ task \in [Handlers -> Task \cup {NoTask}]
  BY AtStep DEF Condemns, IInv, TypeOK, Revoking
<1>2. CASE task'[h] = task[h]
  BY <1>2
<1>3. CASE Restart
  BY <1>3 DEF Restart, EmptyStore, Active
<1>4. CASE Handler(h)
  <2>1. CASE Abort(h)
    BY <1>1, <2>1 DEF Abort, Condemns
  <2>2. CASE ReadMembers(h)
    <3>1. task'[h] = [task[h] EXCEPT !.step = "sweep", !.todo = Members(task[h]), !.mark = issued]
      BY <1>1, <2>2 DEF ReadMembers, Goto
    <3>2. /\ task'[h].step = "sweep" /\ task'[h].user = task[h].user
          /\ task'[h].todo = Members(task[h]) /\ task'[h].then = task[h].then
      BY <1>1, <3>1 DEF Task
    <3>3. task[h].family = NoSid => s \in Members(task[h])
      BY DEF Members, Condemns, ActiveIsIndexed, Listed, IInv
    <3>4. task[h].family # NoSid => task[h].then = "all"
      BY <2>2 DEF Condemns, ReadMembers, Goto
    <3>. QED BY <3>2, <3>3, <3>4 DEF Condemns, Revoking
  <2>3. CASE SweepEnd(h)
    <3>1. s \notin task[h].todo /\ task[h].step = "sweep"
      BY <2>3 DEF SweepEnd, Goto
    <3>2. task[h].then = "all"
      BY <3>1 DEF Condemns
    <3>3. task'[h] = New("members", task[h].user)
      BY <1>1, <2>3, <3>2 DEF SweepEnd, Goto, AfterRevocation
    <3>. QED BY <3>3 DEF Condemns, New, Revoking
  <2>4. CASE SweepNext(h) \/ GetToken(h) \/ RemoveSession(h)
    <3>1. /\ task'[h].step \in Sweeping /\ task'[h].user = task[h].user
          /\ task'[h].then = task[h].then
          /\ s \in task[h].todo => s \in task'[h].todo
      <4>1. CASE SweepNext(h)
        <5>1. PICK r \in task[h].todo :
                  /\ task' = [task EXCEPT ![h] = IF r \in store.keyed /\ ~inMemory
                                                 THEN [task[h] EXCEPT !.step = "get", !.of = r]
                                                 ELSE [task[h] EXCEPT !.todo = @ \ {r}]]
                  /\ store' = IF inMemory THEN Removed(store, {r}) ELSE store
                  /\ task[h].step = "sweep"
          BY <4>1 DEF SweepNext, Goto
        <5>2. CASE r \in store.keyed /\ ~inMemory
          BY <1>1, <5>1, <5>2 DEF Task, Sweeping
        <5>3. CASE r \notin store.keyed \/ inMemory
          <6>1. r # s
            <7>1. CASE inMemory
              BY <5>1, <7>1, RemovedStore DEF Active, IInv, TypeOK
            <7>2. CASE r \notin store.keyed
              BY <7>2 DEF ActiveIsIndexed, Listed, IInv
            <7>. QED BY <5>3, <7>1, <7>2
          <6>2. task'[h] = [task[h] EXCEPT !.todo = task[h].todo \ {r}]
            BY <1>1, <5>1, <5>3
          <6>. QED BY <1>1, <5>1, <6>1, <6>2 DEF Task, Sweeping
        <5>. QED BY <5>2, <5>3
      <4>2. CASE GetToken(h)
        <5>1. CASE store.token[task[h].of] # "none" /\ info[task[h].of].user = task[h].user
          BY <1>1, <4>2, <5>1 DEF GetToken, Goto, Task, Sweeping
        <5>2. CASE store.token[task[h].of] = "none" \/ info[task[h].of].user # task[h].user
          <6>1. s # task[h].of
            BY <5>2 DEF Active, Condemns
          <6>2. task'[h] = [task[h] EXCEPT !.step = "sweep", !.of = NoSid,
                                           !.todo = task[h].todo \ {task[h].of}]
            BY <1>1, <4>2, <5>2 DEF GetToken, Goto
          <6>. QED BY <1>1, <6>1, <6>2 DEF Task, Sweeping
        <5>. QED BY <5>1, <5>2
      <4>3. CASE RemoveSession(h)
        <5>1. task'[h] = [task[h] EXCEPT !.step = "sweep", !.of = NoSid,
                                         !.todo = task[h].todo \ {task[h].of}]
          BY <1>1, <4>3 DEF RemoveSession, Goto
        <5>2. s # task[h].of
          BY <4>3, RemovedStore DEF RemoveSession, Active, IInv, TypeOK
        <5>. QED BY <1>1, <5>1, <5>2 DEF Task, Sweeping
      <4>. QED BY <2>4, <4>1, <4>2, <4>3
    <3>2. task[h].step # "members"
      BY <2>4 DEF SweepNext, GetToken, RemoveSession, Goto
    <3>. QED BY <3>1, <3>2 DEF Condemns, Sweeping, Revoking
  <2>5. task[h] # NoTask
    BY <1>1 DEF NoTask, Revoking
  <2>. QED
    BY <1>1, <1>2, <1>4, <2>1, <2>2, <2>3, <2>4, <2>5
    DEF Handler, Refresh, EndSessions, Login, Reuse, LogoutAll, ChangePassword, ReadUser,
      DeleteAccount, SecondFactor,
        Rotate, RotateTtl, RotateSet, FindUser, Issue, Logout, RevokeSession, RemoveAtOnce, UpdatePassword,
        WriteUser, DeleteUser, Begin, Goto, Revoking
<1>5. ASSUME NEW g \in Handlers, g # h, Handler(g)
      PROVE  task'[h] = task[h]
  BY <1>1, <1>5
  DEF Handler, Refresh, EndSessions, Login, Reuse, LogoutAll, ChangePassword, ReadUser,
      DeleteAccount, SecondFactor,
      Rotate, RotateTtl, RotateSet, FindUser, Issue, ReadMembers, SweepNext, SweepEnd, GetToken,
      RemoveSession, Logout, RevokeSession, RemoveAtOnce, UpdatePassword, WriteUser, DeleteUser, Abort, Begin, Goto
<1>. QED BY <1>2, <1>3, <1>4, <1>5 DEF Next, vars, Expire

LEMMA PasswordStep ==
    ASSUME IInv, OldPasswordEndsSession, [Next]_vars
    PROVE  OldPasswordEndsSession'
<1>1. SUFFICES ASSUME NEW s \in Active', info'[s].pw # password'[info'[s].user],
                      ~info'[s].late, info'[s].user \notin spoilt'
               PROVE  Condemned(s)'
  BY DEF OldPasswordEndsSession
<1>2. s \in Sids
  BY ActiveStep DEF IInv
<1>3. ASSUME NEW h \in Handlers, Issue(h), s = issued + 1
      PROVE  FALSE
  <2>1. password' = password
    BY <1>3 DEF Issue, SameUsers
  <2>. QED BY <1>1, <1>3, <2>1, IssueStep DEF IInv
<1>4. s \in Active /\ info'[s] = info[s]
  <2>1. ASSUME NEW h \in Handlers, Issue(h)
        PROVE  s \in Active /\ info'[s] = info[s]
    BY <1>1, <1>2, <1>3, <2>1, IssueStep DEF Active, IInv
  <2>2. CASE \A h \in Handlers : ~Issue(h)
    BY <1>1, <2>2, ActiveStep DEF IInv
  <2>. QED BY <2>1, <2>2
<1>. DEFINE u == info[s].user
<1>5. u \in Users /\ u \notin spoilt' /\ u \notin spoilt
  BY <1>1, <1>2, <1>4, InfoOf, SpoiltGrows DEF IInv, ActiveIsIndexed, Listed
<1>6. task' \in [Handlers -> Task \cup {NoTask}]
  BY TypeStep DEF IInv, TypeOK
<1>7. SUFFICES ASSUME \A h \in Handlers : ~Condemns(task'[h], s, u)
               PROVE  FALSE
  BY <1>4 DEF Condemned, Condemns
<1>8. CASE password'[u] = password[u]
  <2>1. Condemned(s)
    BY <1>1, <1>4, <1>5, <1>8 DEF OldPasswordEndsSession
  <2>2. PICK h \in Handlers : Condemns(task[h], s, u)
    BY <2>1 DEF Condemned, Condemns
  <2>. QED BY <1>1, <1>4, <1>5, <1>7, <2>2, CondemnsUntilRemoved
<1>9. CASE password'[u] # password[u]
  <2>1. PICK h \in Handlers : task'[h] = New("members", u)
    BY <1>5, <1>9, PasswordChanges DEF IInv
  <2>2. Condemns(New("members", u), s, u)
    BY DEF Condemns, New, Revoking
  <2>. QED BY <1>7, <2>1, <2>2
<1>. QED BY <1>8, <1>9

\* A session outlives the password it was opened with only until the change
\* has revoked it, but for the exceptions OldPasswordEndsSession names.
THEOREM OldPassword == Spec => []OldPasswordEndsSession
<1>1. Init => OldPasswordEndsSession
  BY Numbers DEF Init, OldPasswordEndsSession, Active, EmptyStore
<1>2. IInv /\ OldPasswordEndsSession /\ [Next]_vars => OldPasswordEndsSession'
  BY PasswordStep
<1>. QED BY <1>1, <1>2, Inductive, PTL DEF Spec

(***************************************************************************)
(* Access tokens: whoever comes with a revoked one is not let in: by the   *)
(* time its entry in the denylist has ended, so has the token.             *)
(***************************************************************************)
USE AccessAssumption, NoneAssumption

\* Tokens are signed before they are used, and on the denylist no earlier.
TokensDated ==
    /\ \A t \in Tokens : signed[t] # None => signed[t] <= now
    /\ \A t \in revoked : signed[t] # None /\ denied[t] # None /\ signed[t] <= denied[t]
    /\ \A c \in Callers : caller[c] # None => signed[caller[c].token] # None

\* A late caller of which the denylist does not know any more has a token that is
\* over, and will be when it is looked at.
LateCallers ==
    \A c \in Callers : caller[c] # None /\ caller[c].late =>
        /\ caller[c].token \in revoked
        /\ caller[c].passed # 2
        /\ caller[c].passed = 1 => signed[caller[c].token] + Ttl <= now

AccessInv == AccessTypeOK /\ TokensDated /\ LateCallers

LEMMA AccessInitially == AccessInit => AccessInv
BY DEF AccessInit, AccessInv, AccessTypeOK, TokensDated, LateCallers

LEMMA AccessSign == ASSUME AccessInv, NEW t \in Tokens, Sign(t) PROVE AccessInv'
<1>1. AccessTypeOK'
  BY DEF AccessInv, AccessTypeOK, Sign
<1>2. TokensDated'
  BY DEF AccessInv, AccessTypeOK, TokensDated, Sign, Caller
<1>3. LateCallers'
  BY DEF AccessInv, AccessTypeOK, TokensDated, LateCallers, Sign, Caller
<1> QED
  BY <1>1, <1>2, <1>3 DEF AccessInv

LEMMA AccessArrive ==
    ASSUME AccessInv, NEW c \in Callers, NEW t \in Tokens, NEW socket \in BOOLEAN,
           Arrive(c, t, socket)
    PROVE  AccessInv'
<1> DEFINE new == [token |-> t, passed |-> 0, late |-> t \in revoked, socket |-> socket]
<1>0. /\ new \in Caller /\ new # None
      /\ new.token = t /\ new.passed = 0 /\ (new.late => t \in revoked)
  <2>1. 0 \in 0 .. 2 /\ (t \in revoked) \in BOOLEAN
    OBVIOUS
  <2>2. new \in Caller
    BY <2>1, Zenon DEF Caller
  <2>3. new.token = t /\ new.passed = 0 /\ (new.late => t \in revoked)
    BY Zenon
  <2> QED
    BY <2>2, <2>3, Zenon
<1> HIDE DEF new
<1>1. /\ caller' = [caller EXCEPT ![c] = new] /\ signed[t] # None
      /\ UNCHANGED <<denylistInMemory, now, signed, denied, revoked>>
  BY DEF Arrive, new
<1>2. AccessTypeOK'
  BY <1>0, <1>1 DEF AccessInv, AccessTypeOK
<1>3. TokensDated'
  BY <1>0, <1>1 DEF AccessInv, AccessTypeOK, TokensDated
<1>4. LateCallers'
  <2> SUFFICES ASSUME NEW d \in Callers, caller'[d] # None, caller'[d].late
               PROVE  /\ caller'[d].token \in revoked'
                      /\ caller'[d].passed # 2
                      /\ caller'[d].passed = 1 => signed'[caller'[d].token] + Ttl <= now'
    BY DEF LateCallers
  <2>1. CASE d = c
    BY <2>1, <1>0, <1>1 DEF AccessInv, AccessTypeOK
  <2>2. CASE d # c
    BY <2>2, <1>1 DEF AccessInv, AccessTypeOK, LateCallers
  <2> QED
    BY <2>1, <2>2
<1> QED
  BY <1>2, <1>3, <1>4 DEF AccessInv

\* The second check fails for a late caller, because the first succeeds only after
\* the token has ended.
LEMMA AccessPass == ASSUME AccessInv, NEW c \in Callers, Pass(c) PROVE AccessInv'
<1> DEFINE old == caller[c]
           new == Advanced(old)
<1>0. /\ old \in Caller /\ old # None /\ old.passed \in 0 .. 1
      /\ old.token \in Tokens /\ signed[old.token] \in 0 .. MaxTime
  BY DEF AccessInv, AccessTypeOK, TokensDated, Pass, Caller
<1>1. UNCHANGED <<denylistInMemory, now, signed, denied, revoked>>
  BY DEF Pass
<1>2. CASE ~Check(old.passed, old.token)
  <2>1. caller' = [caller EXCEPT ![c] = None]
    BY <1>2 DEF AccessInv, AccessTypeOK, Pass
  <2> QED
    BY <2>1, <1>1 DEF AccessInv, AccessTypeOK, TokensDated, LateCallers
<1>3. CASE Check(old.passed, old.token)
  <2>1. caller' = [caller EXCEPT ![c] = new]
    BY <1>3 DEF AccessInv, AccessTypeOK, Pass
  <2>2. /\ new \in Caller /\ new # None
        /\ new.token = old.token /\ new.passed = old.passed + 1 /\ new.late = old.late
    BY <1>0 DEF Caller, Advanced
  <2>3. old.late => new.passed = 1 /\ signed[old.token] + Ttl <= now
    <3> SUFFICES ASSUME old.late PROVE new.passed = 1 /\ signed[old.token] + Ttl <= now
      OBVIOUS
    <3>1. old.token \in revoked /\ (old.passed = 1 => signed[old.token] + Ttl <= now)
      BY <1>0 DEF AccessInv, LateCallers
    <3>2. old.passed # 1
      BY <1>0, <1>3, <3>1 DEF Check, Valid, AccessInv, AccessTypeOK
    <3>3. ~IsRevoked(old.token) /\ old.passed = 0
      BY <1>0, <1>3, <3>2 DEF Check
    <3>4. /\ denied[old.token] \in 0 .. MaxTime /\ signed[old.token] <= denied[old.token]
          /\ now \in 0 .. MaxTime /\ denylistInMemory \in BOOLEAN
      BY <1>0, <3>1 DEF AccessInv, AccessTypeOK, TokensDated
    <3>5. denied[old.token] + Ttl <= now
      BY <3>3, <3>4 DEF IsRevoked
    <3> QED
      BY <1>0, <2>2, <3>3, <3>4, <3>5
  <2> HIDE DEF new
  <2>4. AccessTypeOK'
    BY <2>1, <2>2, <1>1 DEF AccessInv, AccessTypeOK
  <2>5. TokensDated'
    BY <2>1, <2>2, <1>0, <1>1 DEF AccessInv, AccessTypeOK, TokensDated
  <2>6. LateCallers'
    <3> SUFFICES ASSUME NEW d \in Callers, caller'[d] # None, caller'[d].late
                 PROVE  /\ caller'[d].token \in revoked'
                        /\ caller'[d].passed # 2
                        /\ caller'[d].passed = 1 => signed'[caller'[d].token] + Ttl <= now'
      BY DEF LateCallers
    <3>1. CASE d = c
      BY <3>1, <2>1, <2>2, <2>3, <1>0, <1>1 DEF AccessInv, AccessTypeOK, LateCallers
    <3>2. CASE d # c
      BY <3>2, <2>1, <1>1 DEF AccessInv, AccessTypeOK, LateCallers
    <3> QED
      BY <3>1, <3>2
  <2> QED
    BY <2>4, <2>5, <2>6 DEF AccessInv
<1> QED
  BY <1>2, <1>3

LEMMA AccessRevoke == ASSUME AccessInv, NEW c \in Callers, Revoke(c) PROVE AccessInv'
<1> DEFINE t == caller[c].token
<1>0. t \in Tokens /\ signed[t] \in 0 .. MaxTime /\ signed[t] <= now /\ now \in 0 .. MaxTime
  BY DEF AccessInv, AccessTypeOK, TokensDated, Revoke, In, Caller
<1>1. /\ denied' = [denied EXCEPT ![t] = now]
      /\ revoked' = revoked \cup {t}
      /\ caller' = [caller EXCEPT ![c] = None]
      /\ UNCHANGED <<denylistInMemory, now, signed>>
  BY DEF Revoke
<1> HIDE DEF t
<1>2. AccessTypeOK'
  BY <1>0, <1>1 DEF AccessInv, AccessTypeOK
<1>3. TokensDated'
  BY <1>0, <1>1 DEF AccessInv, AccessTypeOK, TokensDated
<1>4. LateCallers'
  BY <1>1 DEF AccessInv, AccessTypeOK, LateCallers
<1> QED
  BY <1>2, <1>3, <1>4 DEF AccessInv

LEMMA AccessLeave == ASSUME AccessInv, NEW c \in Callers, Leave(c) PROVE AccessInv'
BY DEF AccessInv, AccessTypeOK, TokensDated, LateCallers, Leave

LEMMA AccessTick == ASSUME AccessInv, Tick PROVE AccessInv'
<1>1. AccessTypeOK'
  BY DEF AccessInv, AccessTypeOK, Tick
<1>2. TokensDated'
  BY DEF AccessInv, AccessTypeOK, TokensDated, Tick
<1>3. LateCallers'
  BY DEF AccessInv, AccessTypeOK, TokensDated, LateCallers, Tick, Caller
<1> QED
  BY <1>1, <1>2, <1>3 DEF AccessInv

\* The denylist in memory is lost, and with it the callers and what was revoked.
LEMMA AccessRestarts == ASSUME AccessInv, AccessRestart PROVE AccessInv'
<1>1. AccessTypeOK'
  BY DEF AccessInv, AccessTypeOK, AccessRestart
<1>2. TokensDated'
  BY DEF AccessInv, AccessTypeOK, TokensDated, AccessRestart
<1>3. LateCallers'
  BY DEF LateCallers, AccessRestart
<1> QED
  BY <1>1, <1>2, <1>3 DEF AccessInv

LEMMA AccessStep == AccessInv /\ [AccessNext]_accessVars => AccessInv'
<1> SUFFICES ASSUME AccessInv, [AccessNext]_accessVars PROVE AccessInv'
  OBVIOUS
<1>1. CASE UNCHANGED accessVars
  BY <1>1 DEF AccessInv, AccessTypeOK, TokensDated, LateCallers, accessVars
<1>2. CASE AccessNext
  BY <1>2, AccessSign, AccessArrive, AccessPass, AccessRevoke, AccessLeave,
     AccessTick, AccessRestarts DEF AccessNext
<1> QED
  BY <1>1, <1>2

LEMMA AccessInvariant == AccessSpec => []AccessInv
BY AccessInitially, AccessStep, PTL DEF AccessSpec

\* Every variable keeps to its set.
THEOREM AccessTypeCorrect == AccessSpec => []AccessTypeOK
<1>1. AccessInv => AccessTypeOK
  BY DEF AccessInv
<1> QED
  BY <1>1, AccessInvariant, PTL

\* Nobody who comes with a token that has been revoked is let in: the check of
\* the denylist comes before that of the token, and the entry ends no earlier.
THEOREM RevokedKeptOut == AccessSpec => []RevokedStaysOut
<1>1. AccessInv => RevokedStaysOut
  BY DEF AccessInv, LateCallers, RevokedStaysOut, In
<1> QED
  BY <1>1, AccessInvariant, PTL
=============================================================================
