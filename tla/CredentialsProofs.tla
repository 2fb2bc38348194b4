-------------------------- MODULE CredentialsProofs --------------------------
(***************************************************************************)
(* The properties of Credentials, for any number of contacts, secrets,     *)
(* tokens and handlers.                                                    *)
(***************************************************************************)
EXTENDS Credentials, TLAPS

(***************************************************************************)
(* Types                                                                   *)
(***************************************************************************)

\* The kind of a token is known once a handler has it, and a handler with a code
\* has read the user.
Holds(h) == At(h, "del") \/ At(h, "use")

TokensFound ==
    \A h \in Handlers : Holds(h) => /\ kind[task[h].token] # None
                                    /\ kind[task[h].token] = "otp" => task[h].row \in Row

TypeInv == TypeOK /\ TokensFound

\* What the steps of a handler are.
Sending(h) == \E k \in Kinds : Send(h, k)

Consuming(h) ==
    \E k \in Kinds, t \in Tokens, r \in Row \cup {None} :
        /\ Consume(h, k, t, r)
        /\ IF k = "otp" THEN At(h, "code") /\ r = task[h].row ELSE task[h] = None /\ r = None

Updating(h) == \E e \in Emails \cup {None}, p \in Phones \cup {None} : UpdateProfile(h, e, p)

\* A handler goes on with a task, or ends.
LEMMA GotoType ==
    ASSUME TypeOK, NEW h \in Handlers, NEW t \in Task \cup {None}, Goto(h, t)
    PROVE  /\ task' \in [Handlers -> Task \cup {None}]
           /\ UNCHANGED <<rowsInMemory, tokensInMemory>>
BY DEF TypeOK, Goto, Wiring

\* A user that is changed is stored, or has still to be written.
LEMMA ModifyType ==
    ASSUME TypeOK, NEW h \in Handlers, NEW r \in Row, Modify(h, r)
    PROVE  /\ row' \in Row
           /\ task' \in [Handlers -> Task \cup {None}]
           /\ UNCHANGED <<rowsInMemory, tokensInMemory>>
<1>1. [step |-> "write", row |-> r] \in Task
  BY DEF Task
<1> QED
  BY <1>1, GotoType DEF Modify, TypeOK

\* The task of a handler that is at a step.
LEMMA TaskType ==
    ASSUME TypeOK, NEW h \in Handlers
    PROVE  /\ At(h, "save") => task[h] \in [step : {"save"}, kind : Kinds]
           /\ At(h, "code") \/ At(h, "write") => task[h] \in [step : {"code", "write"}, row : Row]
           /\ At(h, "del") \/ At(h, "use") =>
                 task[h] \in [step : {"del", "use"}, token : Tokens, row : Row \cup {None}]
<1>1. task[h] \in Task \cup {None}
  BY DEF TypeOK
<1> QED
  BY <1>1 DEF Task, At

\* What the mutators of a user make of it.
LEMMA MutatorTypes ==
    ASSUME NEW r \in Row
    PROVE  /\ \A c \in Contacts : Verified(r, c) \in Row
           /\ \A e \in Emails \cup {None}, p \in Phones \cup {None} : Moved(r, e, p) \in Row
           /\ \A s \in Secrets : [r EXCEPT !.secret = s] \in Row
           /\ [r EXCEPT !.enabled = TRUE] \in Row
           /\ [r EXCEPT !.enabled = FALSE, !.secret = None] \in Row
           /\ r.email \in Contacts /\ r.phone \in Contacts
BY DEF Verified, Moved, Row, Contacts

LEMMA HandlerCases ==
    ASSUME TypeOK, NEW h \in Handlers, Handler(h)
    PROVE  \/ Sending(h) \/ SaveToken(h) \/ Consuming(h) \/ VerifyPhone(h) \/ DeleteKey(h)
           \/ MarkEmail(h) \/ MarkPhone(h) \/ LoginOrReset(h) \/ Updating(h)
           \/ SetupTwoFactor(h) \/ ConfirmTwoFactor(h) \/ DisableTwoFactor(h) \/ Write(h) \/ Abort(h)
<1>1. CASE SendVerification(h) \/ SendPhoneOtp(h) \/ Login(h) \/ RequestPasswordReset(h)
  BY <1>1 DEF SendVerification, SendPhoneOtp, Login, RequestPasswordReset, Sending, Kinds
<1>2. ASSUME NEW t \in Tokens, VerifyEmail(h, t) \/ VerifyTwoFactorLogin(h, t) \/ ResetPassword(h, t)
      PROVE  Consuming(h)
  BY <1>2 DEF VerifyEmail, VerifyTwoFactorLogin, ResetPassword, Consuming, Kinds
<1>3. ASSUME NEW t \in Tokens, VerifyCode(h, t) PROVE Consuming(h)
  <2>1. At(h, "code") /\ task[h].row \in Row
    BY <1>3, TaskType DEF VerifyCode
  <2> QED
    BY <1>3, <2>1 DEF VerifyCode, Consuming, Kinds
<1> QED
  BY <1>1, <1>2, <1>3 DEF Handler, Updating

\* Every reachable state is well typed.
LEMMA InitType == Init => TypeInv
<1> SUFFICES ASSUME Init PROVE TypeInv
  OBVIOUS
<1>1. row \in Row
  <2>1. PICK e \in Emails, p \in Phones :
           row = [email |-> e, phone |-> p, verified |-> {}, secret |-> None, enabled |-> FALSE]
    BY DEF Init
  <2> QED
    BY <2>1 DEF Row
<1> QED
  BY <1>1 DEF Init, TypeOK, TypeInv, TokensFound, Holds, At

LEMMA NextType == TypeInv /\ [Next]_vars => TypeOK'
<1> SUFFICES ASSUME TypeOK, TokensFound, [Next]_vars PROVE TypeOK'
  BY DEF TypeInv
<1> USE DEF SameTokens, SameSecrets
<1>1. ASSUME NEW h \in Handlers, Handler(h) PROVE TypeOK'
  <2>1. CASE Sending(h)
    <3>1. PICK k \in Kinds : Send(h, k)
      BY <2>1 DEF Sending
    <3>2. [step |-> "save", kind |-> k] \in Task
      BY DEF Task
    <3> QED
      BY <3>1, <3>2, GotoType DEF Send, Begin, TypeOK
  <2>2. CASE SaveToken(h)
    <3>1. task[h] \in [step : {"save"}, kind : Kinds]
      BY <2>2, TaskType DEF SaveToken
    <3>2. PICK t \in Tokens : /\ kind' = [kind EXCEPT ![t] = task[h].kind]
                              /\ live' = {t} \cup (IF task[h].kind = "otp" THEN live \ Codes ELSE live)
      BY <2>2 DEF SaveToken
    <3>3. /\ kind' \in [Tokens -> Kinds \cup {None}]
          /\ live' \subseteq Tokens
      BY <3>1, <3>2 DEF TypeOK
    <3> QED
      BY <2>2, <3>3, GotoType DEF SaveToken, TypeOK
  <2>3. CASE Consuming(h)
    <3>1. PICK k \in Kinds, t \in Tokens, r \in Row \cup {None} : Consume(h, k, t, r)
      BY <2>3 DEF Consuming
    <3>2. /\ [step |-> "use", token |-> t, row |-> r] \in Task
          /\ [step |-> "del", token |-> t, row |-> r] \in Task
      BY DEF Task
    <3> QED
      BY <3>1, <3>2, GotoType DEF Consume, Take, Get, TypeOK
  <2>4. CASE VerifyPhone(h)
    <3>1. [step |-> "code", row |-> row] \in Task
      BY DEF Task, TypeOK
    <3> QED
      BY <2>4, <3>1, GotoType DEF VerifyPhone, Begin, TypeOK
  <2>5. CASE DeleteKey(h)
    <3>1. task[h] \in [step : {"del", "use"}, token : Tokens, row : Row \cup {None}]
      BY <2>5, TaskType DEF DeleteKey
    <3>2. [task[h] EXCEPT !.step = "use"] \in Task
      BY <3>1 DEF Task
    <3> QED
      BY <2>5, <3>2, GotoType DEF DeleteKey, TypeOK
  <2>6. ASSUME NEW k \in Kinds, Spend(h, k)
        PROVE  used' \in [Tokens -> Nat] /\ UNCHANGED <<live, kind, drawn, confirmed>>
    <3>1. task[h] \in [step : {"del", "use"}, token : Tokens, row : Row \cup {None}]
      BY <2>6, TaskType DEF Spend
    <3> QED
      BY <2>6, <3>1 DEF Spend, TypeOK
  <2>7. CASE MarkEmail(h)
    <3>1. Verified(row, row.email) \in Row /\ row.email \in Contacts
      BY MutatorTypes DEF TypeOK
    <3> QED
      BY <2>6, <2>7, <3>1, ModifyType DEF MarkEmail, TypeOK, Kinds
  <2>8. CASE MarkPhone(h)
    <3> DEFINE r == IF rowsInMemory THEN row ELSE task[h].row
    <3>1. r \in Row
      BY <2>8 DEF MarkPhone, Spend, TypeOK, TokensFound, Holds
    <3>2. Verified(r, r.phone) \in Row /\ r.phone \in Contacts
      BY <3>1, MutatorTypes
    <3> QED
      BY <2>6, <2>8, <3>2, ModifyType DEF MarkPhone, TypeOK, Kinds
  <2>9. CASE LoginOrReset(h)
    BY <2>6, <2>9, GotoType DEF LoginOrReset, TypeOK, Kinds
  <2>10. CASE Updating(h)
    BY <2>10, ModifyType, MutatorTypes DEF Updating, UpdateProfile, TypeOK
  <2>11. CASE SetupTwoFactor(h)
    <3>1. PICK s \in Secrets \ drawn : Modify(h, [row EXCEPT !.secret = s]) /\ drawn' = drawn \cup {s}
      BY <2>11 DEF SetupTwoFactor
    <3> QED
      BY <2>11, <3>1, ModifyType, MutatorTypes DEF SetupTwoFactor, TypeOK
  <2>12. CASE ConfirmTwoFactor(h)
    <3>1. row.secret \in Secrets
      BY <2>12 DEF ConfirmTwoFactor, TypeOK, Row
    <3>2. confirmed' \subseteq Secrets
      BY <2>12, <3>1 DEF ConfirmTwoFactor, TypeOK
    <3> QED
      BY <2>12, <3>2, ModifyType, MutatorTypes DEF ConfirmTwoFactor, TypeOK
  <2>13. CASE DisableTwoFactor(h)
    BY <2>13, ModifyType, MutatorTypes DEF DisableTwoFactor, TypeOK
  <2>14. CASE Write(h)
    <3>1. task[h].row \in Row
      BY <2>14, TaskType DEF Write
    <3> QED
      BY <2>14, <3>1, GotoType DEF Write, TypeOK
  <2>15. CASE Abort(h)
    BY <2>15, GotoType DEF Abort, TypeOK
  <2> QED
    BY <1>1, <2>1, <2>2, <2>3, <2>4, <2>5, <2>7, <2>8, <2>9, <2>10, <2>11, <2>12, <2>13, <2>14, <2>15,
       HandlerCases
<1>2. ASSUME NEW t \in Tokens, Expire(t) PROVE TypeOK'
  BY <1>2 DEF Expire, TypeOK
<1>3. CASE Restart
  BY <1>3 DEF Restart, TypeOK
<1>4. CASE UNCHANGED vars
  BY <1>4 DEF vars, TypeOK
<1> QED
  BY <1>1, <1>2, <1>3, <1>4 DEF Next

\* How a handler comes to hold a token.
LEMMA HoldersFrom ==
    ASSUME TypeOK, [Next]_vars, NEW g \in Handlers, Holds(g)'
    PROVE  task'[g] = task[g] \/ DeleteKey(g) \/ Consuming(g)
<1> SUFFICES ASSUME task'[g] # task[g] PROVE DeleteKey(g) \/ Consuming(g)
  OBVIOUS
<1>1. PICK h \in Handlers : Handler(h)
  <2>1. ASSUME NEW t \in Tokens, Expire(t) PROVE FALSE
    BY <2>1 DEF Expire
  <2>2. CASE Restart
    BY <2>2 DEF Restart, Holds, At
  <2> QED
    BY <2>1, <2>2 DEF Next, vars
<1>2. ASSUME NEW t, Goto(h, t), t = None \/ t.step \in {"save", "code", "write"} PROVE FALSE
  BY <1>2 DEF Goto, Holds, At, TypeOK
<1>3. ASSUME NEW r, Modify(h, r) PROVE FALSE
  BY <1>2, <1>3 DEF Modify
<1>4. CASE Sending(h) \/ SaveToken(h) \/ VerifyPhone(h)
  BY <1>2, <1>4 DEF Sending, Send, Begin, SaveToken, VerifyPhone
<1>5. CASE MarkEmail(h) \/ MarkPhone(h) \/ LoginOrReset(h) \/ Write(h) \/ Abort(h)
  BY <1>2, <1>3, <1>5 DEF MarkEmail, MarkPhone, LoginOrReset, Write, Abort
<1>6. CASE Updating(h) \/ SetupTwoFactor(h) \/ ConfirmTwoFactor(h) \/ DisableTwoFactor(h)
  BY <1>3, <1>6 DEF Updating, UpdateProfile, SetupTwoFactor, ConfirmTwoFactor, DisableTwoFactor
<1>7. CASE DeleteKey(h) \/ Consuming(h)
  <2>1. \E t : Goto(h, t)
    BY <1>7 DEF DeleteKey, Consuming, Consume, Take, Get
  <2>2. g = h
    BY <2>1 DEF Goto, TypeOK
  <2> QED
    BY <1>7, <2>2
<1> QED
  BY <1>1, <1>4, <1>5, <1>6, <1>7, HandlerCases

\* What a token was saved for is never forgotten.
LEMMA KindsKept ==
    ASSUME TypeOK, [Next]_vars, NEW t \in Tokens, kind[t] # None
    PROVE  kind'[t] = kind[t]
<1> USE DEF SameTokens
<1>1. ASSUME NEW h \in Handlers, Handler(h) PROVE kind'[t] = kind[t]
  <2>1. CASE SaveToken(h)
    BY <2>1 DEF SaveToken, TypeOK
  <2>2. CASE ~SaveToken(h)
    BY <1>1, <2>2, HandlerCases
       DEF Sending, Send, Consuming, Consume, Take, Get, VerifyPhone, DeleteKey, MarkEmail, MarkPhone,
           LoginOrReset, Spend, Updating, UpdateProfile, SetupTwoFactor, ConfirmTwoFactor,
           DisableTwoFactor, Write, Abort
  <2> QED
    BY <2>1, <2>2
<1> QED
  BY <1>1 DEF Next, Expire, Restart, vars

LEMMA NextFound == TypeInv /\ [Next]_vars => TokensFound'
<1> SUFFICES ASSUME TypeOK, TokensFound, [Next]_vars, NEW g \in Handlers, Holds(g)'
             PROVE  /\ kind'[task'[g].token] # None
                    /\ kind'[task'[g].token] = "otp" => task'[g].row \in Row
  BY DEF TypeInv, TokensFound
<1>1. CASE Consuming(g)
  <2>1. PICK k \in Kinds, t \in Tokens, r \in Row \cup {None} :
              Consume(g, k, t, r) /\ (k = "otp" => At(g, "code") /\ r = task[g].row)
    BY <1>1 DEF Consuming
  <2>2. kind[t] = k /\ k # None /\ task'[g].token = t /\ task'[g].row = r
    BY <2>1, NoneAssumption DEF Consume, Take, Get, Goto, TypeOK
  <2>3. k = "otp" => r \in Row
    BY <2>1, TaskType
  <2> QED
    BY <2>2, <2>3, KindsKept
<1>2. CASE DeleteKey(g) \/ task'[g] = task[g]
  <2>1. Holds(g) /\ task'[g].token = task[g].token /\ task'[g].row = task[g].row
    <3>1. CASE DeleteKey(g)
      <4>1. task[g] \in [step : {"del", "use"}, token : Tokens, row : Row \cup {None}]
        BY <3>1, TaskType DEF DeleteKey
      <4> QED
        BY <3>1, <4>1 DEF DeleteKey, Goto, Holds, TypeOK
    <3>2. CASE task'[g] = task[g]
      BY <3>2 DEF Holds, At
    <3> QED
      BY <1>2, <3>1, <3>2
  <2>2. task[g].token \in Tokens
    BY <2>1, TaskType DEF Holds
  <2> QED
    BY <2>1, <2>2, KindsKept DEF TokensFound
<1> QED
  BY <1>1, <1>2, HoldersFrom

LEMMA TypeInvariant == Spec => []TypeInv
BY InitType, NextType, NextFound, PTL DEF Spec, TypeInv

\* Every reachable state is well typed.
THEOREM TypeCorrect == Spec => []TypeOK
BY TypeInvariant, PTL DEF TypeInv

(***************************************************************************)
(* The rows                                                                *)
(***************************************************************************)

\* A second factor that is on was confirmed, a date of verification is one of a
\* contact that was marked and is still there: given the secrets confirmed and the
\* contacts marked so far.
Sound(r, c, m) == /\ r.enabled => r.secret \in c
                  /\ r.verified \subseteq m \cap {r.email, r.phone}

\* That is so of the row stored and of every row that may still be written.
Carries(t, step) == t # None /\ t.step = step
Soundness(t, c, m) ==
    /\ Carries(t, "code") \/ Carries(t, "write") => Sound(t.row, c, m)
    /\ (Carries(t, "del") \/ Carries(t, "use")) /\ t.row # None => Sound(t.row, c, m)

RowsSound ==
    /\ Sound(row, confirmed, marked)
    /\ \A h \in Handlers : Soundness(task[h], confirmed, marked)

\* What is sound stays so, for secrets and contacts are only added.
LEMMA SoundnessKept ==
    ASSUME NEW t, NEW c, NEW m, NEW d, NEW n, c \subseteq d, m \subseteq n
    PROVE  /\ Sound(t, c, m) => Sound(t, d, n)
           /\ Soundness(t, c, m) => Soundness(t, d, n)
BY DEF Sound, Soundness

\* A step of a handler with sound results.
LEMMA GotoSound ==
    ASSUME TypeOK, RowsSound, NEW h \in Handlers, NEW t, Goto(h, t),
           Soundness(t, confirmed', marked'), Sound(row', confirmed', marked'),
           confirmed \subseteq confirmed', marked \subseteq marked'
    PROVE  RowsSound'
<1>1. ASSUME NEW g \in Handlers PROVE Soundness(task'[g], confirmed', marked')
  <2>1. CASE g = h
    BY <2>1 DEF Goto, TypeOK
  <2>2. CASE g # h
    <3>1. task'[g] = task[g]
      BY <2>2 DEF Goto, TypeOK
    <3> QED
      BY <3>1, SoundnessKept DEF RowsSound
  <2> QED
    BY <2>1, <2>2
<1> QED
  BY <1>1 DEF RowsSound

\* A handler that ends leaves nothing to be written.
LEMMA EndSound == ASSUME NEW c, NEW m PROVE Soundness(None, c, m)
BY DEF Soundness, Carries

LEMMA ModifySound ==
    ASSUME TypeOK, RowsSound, NEW h \in Handlers, NEW r, Modify(h, r),
           Sound(r, confirmed', marked'),
           confirmed \subseteq confirmed', marked \subseteq marked'
    PROVE  RowsSound'
<1>1. CASE rowsInMemory
  BY <1>1, GotoSound, EndSound DEF Modify
<1>2. CASE ~rowsInMemory
  <2> DEFINE t == [step |-> "write", row |-> r]
  <2>1. Soundness(t, confirmed', marked')
    BY DEF Soundness, Carries
  <2>2. Goto(h, t) /\ row' = row
    BY <1>2 DEF Modify
  <2>3. Sound(row', confirmed', marked')
    BY <2>2, SoundnessKept DEF RowsSound
  <2> HIDE DEF t
  <2> QED
    BY <2>1, <2>2, <2>3, GotoSound
<1> QED
  BY <1>1, <1>2

\* What the mutators of a user keep sound, and what they ask for.
LEMMA MutatorsSound ==
    ASSUME NEW r \in Row, NEW c, NEW m, Sound(r, c, m)
    PROVE  /\ Sound(Verified(r, r.email), c, m \cup {r.email})
           /\ Sound(Verified(r, r.phone), c, m \cup {r.phone})
           /\ \A e \in Emails \cup {None}, p \in Phones \cup {None} : Sound(Moved(r, e, p), c, m)
           /\ ~r.enabled => \A s \in Secrets : Sound([r EXCEPT !.secret = s], c, m)
           /\ Sound([r EXCEPT !.enabled = TRUE], c \cup {r.secret}, m)
           /\ Sound([r EXCEPT !.enabled = FALSE, !.secret = None], c, m)
<1>1. r.email \in Emails /\ r.phone \in Phones /\ r.email # r.phone /\ None \notin Emails \cup Phones
  BY CredentialsAssumption DEF Row
<1>2. ASSUME NEW e \in Emails \cup {None}, NEW p \in Phones \cup {None}
      PROVE  Sound(Moved(r, e, p), c, m)
  <2> DEFINE gone == (IF e = None THEN {} ELSE {r.email}) \cup (IF p = None THEN {} ELSE {r.phone})
             q == Moved(r, e, p)
  <2>1. /\ q.email = IF e = None THEN r.email ELSE e
        /\ q.phone = IF p = None THEN r.phone ELSE p
        /\ q.verified = r.verified \ gone
        /\ q.enabled = r.enabled /\ q.secret = r.secret
    BY DEF Moved, Row
  <2> HIDE DEF q
  <2>2. q.verified \subseteq m \cap {q.email, q.phone}
    BY <2>1 DEF Sound
  <2> QED
    BY <2>1, <2>2 DEF Sound, q
<1>3. ASSUME NEW x \in {r.email, r.phone} PROVE Sound(Verified(r, x), c, m \cup {x})
  BY DEF Verified, Sound, Row
<1>4. /\ ~r.enabled => \A s \in Secrets : Sound([r EXCEPT !.secret = s], c, m)
      /\ Sound([r EXCEPT !.enabled = TRUE], c \cup {r.secret}, m)
      /\ Sound([r EXCEPT !.enabled = FALSE, !.secret = None], c, m)
  BY DEF Sound, Row
<1> QED
  BY <1>2, <1>3, <1>4

LEMMA InitSound == Init => RowsSound
<1> SUFFICES ASSUME Init PROVE RowsSound
  OBVIOUS
<1>1. PICK e \in Emails, p \in Phones :
         row = [email |-> e, phone |-> p, verified |-> {}, secret |-> None, enabled |-> FALSE]
  BY DEF Init
<1>2. Sound(row, confirmed, marked)
  BY <1>1 DEF Sound
<1> QED
  BY <1>2, EndSound DEF Init, RowsSound

\* A handler writes rows that are sound, whatever was written since it read them.
LEMMA HandlerSound ==
    ASSUME TypeInv, RowsSound, NEW h \in Handlers, Handler(h)
    PROVE  RowsSound'
<1> USE DEF SameTokens, SameSecrets
<1>0. TypeOK /\ TokensFound /\ row \in Row /\ Sound(row, confirmed, marked) /\ Soundness(task[h], confirmed, marked)
  BY DEF TypeInv, TypeOK, RowsSound
<1>1. ASSUME NEW t, Goto(h, t), Soundness(t, confirmed, marked),
             UNCHANGED <<row, drawn, confirmed, marked>>
      PROVE  RowsSound'
  BY <1>0, <1>1, GotoSound
<1>2. CASE Sending(h)
  <2>1. PICK k \in Kinds : Goto(h, [step |-> "save", kind |-> k]) /\ UNCHANGED <<row, drawn, confirmed, marked>>
    BY <1>2 DEF Sending, Send, Begin
  <2>2. Soundness([step |-> "save", kind |-> k], confirmed, marked)
    BY DEF Soundness, Carries
  <2> QED
    BY <2>1, <2>2, <1>1
<1>3. CASE SaveToken(h) \/ LoginOrReset(h) \/ Abort(h)
  BY <1>1, <1>3, EndSound DEF SaveToken, LoginOrReset, Abort, Spend
<1>4. CASE Consuming(h)
  <2>1. PICK k \in Kinds, t \in Tokens, r \in Row \cup {None} :
              Consume(h, k, t, r) /\ IF k = "otp" THEN At(h, "code") /\ r = task[h].row ELSE r = None
    BY <1>4 DEF Consuming
  <2>2. r # None => Sound(r, confirmed, marked)
    BY <2>1, <1>0 DEF Soundness, Carries, At
  <2>3. /\ Soundness([step |-> "use", token |-> t, row |-> r], confirmed, marked)
        /\ Soundness([step |-> "del", token |-> t, row |-> r], confirmed, marked)
    BY <2>2 DEF Soundness, Carries
  <2> QED
    BY <2>1, <2>3, <1>1 DEF Consume, Take, Get
<1>5. CASE VerifyPhone(h)
  <2>1. Soundness([step |-> "code", row |-> row], confirmed, marked)
    BY <1>0 DEF Soundness, Carries
  <2> QED
    BY <1>5, <2>1, <1>1 DEF VerifyPhone, Begin
<1>6. CASE DeleteKey(h)
  <2> DEFINE t == [task[h] EXCEPT !.step = "use"]
  <2>1. task[h] \in [step : {"del", "use"}, token : Tokens, row : Row \cup {None}] /\ At(h, "del")
    BY <1>0, <1>6, TaskType DEF DeleteKey
  <2>2. t.step = "use" /\ t.row = task[h].row /\ Carries(task[h], "del")
    BY <2>1 DEF At, Carries
  <2>3. Soundness(t, confirmed, marked)
    BY <2>2, <1>0 DEF Soundness, Carries
  <2> HIDE DEF t
  <2>4. Goto(h, t) /\ UNCHANGED <<row, drawn, confirmed, marked>>
    BY <1>6 DEF DeleteKey, t
  <2> QED
    BY <2>3, <2>4, <1>1
<1>7. CASE MarkEmail(h)
  <2>1. /\ Modify(h, Verified(row, row.email))
        /\ marked' = marked \cup {row.email} /\ confirmed' = confirmed
    BY <1>7 DEF MarkEmail, Spend
  <2>2. Sound(Verified(row, row.email), confirmed', marked')
    BY <2>1, <1>0, MutatorsSound
  <2> QED
    BY <2>1, <2>2, <1>0, ModifySound
<1>8. CASE MarkPhone(h)
  <2> DEFINE r == IF rowsInMemory THEN row ELSE task[h].row
  <2>1. Modify(h, Verified(r, r.phone)) /\ marked' = marked \cup {r.phone} /\ confirmed' = confirmed
    BY <1>8 DEF MarkPhone, Spend
  <2>2. task[h].row \in Row /\ Carries(task[h], "use")
    BY <1>0, <1>8 DEF MarkPhone, Spend, TokensFound, Holds, At, Carries
  <2>3. r \in Row /\ Sound(r, confirmed, marked)
    BY <2>2, <1>0, NoneAssumption DEF Soundness
  <2> HIDE DEF r
  <2>4. Sound(Verified(r, r.phone), confirmed', marked')
    BY <2>1, <2>3, MutatorsSound
  <2> QED
    BY <2>1, <2>4, <1>0, ModifySound
<1>9. CASE Updating(h)
  <2>1. PICK e \in Emails \cup {None}, p \in Phones \cup {None} :
              Modify(h, Moved(row, e, p)) /\ UNCHANGED <<drawn, confirmed, marked>>
    BY <1>9 DEF Updating, UpdateProfile
  <2>2. Sound(Moved(row, e, p), confirmed', marked')
    BY <2>1, <1>0, MutatorsSound
  <2> QED
    BY <2>1, <2>2, <1>0, ModifySound
<1>10. CASE SetupTwoFactor(h)
  <2>1. ~row.enabled /\ UNCHANGED <<confirmed, marked>>
    BY <1>10 DEF SetupTwoFactor
  <2>2. PICK s \in Secrets \ drawn : Modify(h, [row EXCEPT !.secret = s])
    BY <1>10 DEF SetupTwoFactor
  <2>3. Sound([row EXCEPT !.secret = s], confirmed', marked')
    BY <2>1, <1>0, MutatorsSound
  <2> QED
    BY <2>1, <2>2, <2>3, <1>0, ModifySound
<1>11. CASE ConfirmTwoFactor(h)
  <2>1. /\ Modify(h, [row EXCEPT !.enabled = TRUE])
        /\ confirmed' = confirmed \cup {row.secret} /\ marked' = marked
    BY <1>11 DEF ConfirmTwoFactor
  <2>2. Sound([row EXCEPT !.enabled = TRUE], confirmed', marked')
    BY <2>1, <1>0, MutatorsSound
  <2> QED
    BY <2>1, <2>2, <1>0, ModifySound
<1>12. CASE DisableTwoFactor(h)
  <2>1. Modify(h, [row EXCEPT !.enabled = FALSE, !.secret = None]) /\ UNCHANGED <<confirmed, marked>>
    BY <1>12 DEF DisableTwoFactor
  <2>2. Sound([row EXCEPT !.enabled = FALSE, !.secret = None], confirmed', marked')
    BY <2>1, <1>0, MutatorsSound
  <2> QED
    BY <2>1, <2>2, <1>0, ModifySound
<1>13. CASE Write(h)
  <2>1. Goto(h, None) /\ row' = task[h].row /\ UNCHANGED <<confirmed, marked>> /\ Carries(task[h], "write")
    BY <1>13 DEF Write, At, Carries
  <2>2. Sound(row', confirmed', marked')
    BY <2>1, <1>0 DEF Soundness
  <2> QED
    BY <2>1, <2>2, <1>0, GotoSound, EndSound
<1> QED
  BY <1>0, <1>2, <1>3, <1>4, <1>5, <1>6, <1>7, <1>8, <1>9, <1>10, <1>11, <1>12, <1>13, HandlerCases

LEMMA NextSound == TypeInv /\ RowsSound /\ [Next]_vars => RowsSound'
<1> SUFFICES ASSUME TypeInv, RowsSound, [Next]_vars PROVE RowsSound'
  OBVIOUS
<1>1. ASSUME NEW t \in Tokens, Expire(t) PROVE RowsSound'
  BY <1>1 DEF Expire, RowsSound, SameSecrets
<1>2. CASE Restart
  BY <1>2, EndSound DEF Restart, RowsSound, SameSecrets
<1>3. CASE UNCHANGED vars
  BY <1>3 DEF vars, RowsSound
<1> QED
  BY <1>1, <1>2, <1>3, HandlerSound DEF Next

LEMMA RowsInvariant == Spec => []RowsSound
BY InitSound, NextSound, TypeInvariant, PTL DEF Spec

\* The second factor is never required with a secret of which no code was given,
\* whoever else writes the row between a read and a write.
THEOREM EnabledConfirmed == Spec => []EnabledWasConfirmed
<1>1. RowsSound => EnabledWasConfirmed
  BY DEF RowsSound, Sound, EnabledWasConfirmed
<1> QED
  BY <1>1, RowsInvariant, PTL

\* A contact counts as verified only if it was marked as the user's, and not if it
\* took the place of one that was.
THEOREM VerifiedMarked == Spec => []VerifiedWasMarked
<1>1. RowsSound => VerifiedWasMarked
  BY DEF RowsSound, Sound, VerifiedWasMarked
<1> QED
  BY <1>1, RowsInvariant, PTL

(***************************************************************************)
(* The tokens                                                              *)
(***************************************************************************)

\* A token in its store was never spent, and one that is about to be spent is not
\* in its store any more.
TokensFresh ==
    /\ \A t \in Tokens : t \in live => used[t] = 0
    /\ \A t \in Tokens : kind[t] = None => t \notin live /\ used[t] = 0
    /\ \A h \in Handlers : At(h, "use") => task[h].token \notin live

TokenInv == TypeInv /\ TokensFresh

LEMMA InitFresh == Init => TokensFresh
BY DEF Init, TokensFresh, At

\* A step that saves and spends nothing keeps every token as fresh as it is, if
\* the handlers that are now about to spend one were before or have taken it away.
LEMMA FreshKept ==
    ASSUME TokensFresh, UNCHANGED <<kind, used>>, live' \subseteq live,
           \A h \in Handlers : At(h, "use")' =>
              task'[h].token \notin live' \/ (At(h, "use") /\ task'[h].token = task[h].token)
    PROVE  TokensFresh'
BY DEF TokensFresh

LEMMA HandlerFresh == ASSUME TokenInv, NEW h \in Handlers, Handler(h) PROVE TokensFresh'
<1> USE DEF SameTokens
<1>0. TypeOK /\ TokensFound /\ TokensFresh
  BY DEF TokenInv, TypeInv
<1>1. ASSUME NEW t, Goto(h, t), t = None \/ t.step # "use"
      PROVE  \A g \in Handlers : At(g, "use")' => At(g, "use") /\ task'[g].token = task[g].token
  BY <1>0, <1>1 DEF Goto, At, TypeOK
<1>2. ASSUME NEW r, Modify(h, r)
      PROVE  \A g \in Handlers : At(g, "use")' => At(g, "use") /\ task'[g].token = task[g].token
  <2>1. CASE rowsInMemory
    BY <2>1, <1>1, <1>2 DEF Modify
  <2>2. CASE ~rowsInMemory
    BY <2>2, <1>1, <1>2 DEF Modify
  <2> QED
    BY <2>1, <2>2
<1>3. CASE Sending(h)
  <2>1. PICK k \in Kinds : Goto(h, [step |-> "save", kind |-> k]) /\ UNCHANGED <<live, kind, used>>
    BY <1>3 DEF Sending, Send, Begin
  <2> QED
    BY <2>1, <1>0, <1>1, FreshKept
<1>4. CASE SaveToken(h)
  <2>1. PICK t \in Tokens : /\ kind[t] = None
                            /\ kind' = [kind EXCEPT ![t] = task[h].kind]
                            /\ live' = {t} \cup (IF task[h].kind = "otp" THEN live \ Codes ELSE live)
    BY <1>4 DEF SaveToken
  <2>2. Goto(h, None) /\ used' = used /\ live' \subseteq live \cup {t}
    BY <1>4, <2>1 DEF SaveToken
  <2>3. used[t] = 0 /\ kind'[t] # None
    <3>1. task[h].kind \in Kinds
      BY <1>0, <1>4, TaskType DEF SaveToken
    <3> QED
      BY <1>0, <2>1, <3>1, NoneAssumption DEF TokensFresh, TypeOK
  <2>4. ASSUME NEW g \in Handlers, At(g, "use")' PROVE task'[g].token \notin live'
    <3>1. At(g, "use") /\ task'[g].token = task[g].token
      BY <2>2, <2>4, <1>1
    <3>2. task[g].token \notin live /\ task[g].token # t
      BY <3>1, <1>0, <2>1 DEF TokensFresh, TokensFound, Holds
    <3> QED
      BY <3>1, <3>2, <2>2
  <2>5. \A u \in Tokens : u # t => kind'[u] = kind[u]
    BY <2>1, <1>0 DEF TypeOK
  <2> QED
    BY <1>0, <2>2, <2>3, <2>4, <2>5 DEF TokensFresh
<1>5. CASE Consuming(h)
  <2>1. PICK k \in Kinds, t \in Tokens, r \in Row \cup {None} : Consume(h, k, t, r)
    BY <1>5 DEF Consuming
  <2>2. CASE Take(h, k, t, r)
    <3>1. /\ live' = live \ {t} /\ UNCHANGED <<kind, used>>
          /\ Goto(h, [step |-> "use", token |-> t, row |-> r])
      BY <2>2 DEF Take
    <3>2. \A g \in Handlers : At(g, "use")' =>
             task'[g].token \notin live' \/ (At(g, "use") /\ task'[g].token = task[g].token)
      BY <3>1, <1>0 DEF Goto, At, TypeOK
    <3> QED
      BY <3>1, <3>2, <1>0, FreshKept
  <2>3. CASE Get(h, k, t, r)
    <3>1. Goto(h, [step |-> "del", token |-> t, row |-> r]) /\ UNCHANGED <<live, kind, used>>
      BY <2>3 DEF Get
    <3> QED
      BY <3>1, <1>0, <1>1, FreshKept
  <2> QED
    BY <2>1, <2>2, <2>3 DEF Consume
<1>6. CASE VerifyPhone(h)
  BY <1>0, <1>1, <1>6, FreshKept DEF VerifyPhone, Begin
<1>7. CASE DeleteKey(h)
  <2>1. task[h] \in [step : {"del", "use"}, token : Tokens, row : Row \cup {None}]
    BY <1>0, <1>7, TaskType DEF DeleteKey
  <2>2. task[h].token \notin live' /\ live' \subseteq live /\ UNCHANGED <<kind, used>>
    BY <1>7, <2>1 DEF DeleteKey
  <2>3. task' = [task EXCEPT ![h] = [task[h] EXCEPT !.step = "use"]]
    BY <1>7 DEF DeleteKey, Goto
  <2>4. \A g \in Handlers : At(g, "use")' =>
           task'[g].token \notin live' \/ (At(g, "use") /\ task'[g].token = task[g].token)
    BY <1>0, <2>1, <2>2, <2>3 DEF At, TypeOK
  <2> QED
    BY <1>0, <2>2, <2>4, FreshKept
<1>8. ASSUME NEW k \in Kinds, Spend(h, k),
             \A g \in Handlers : At(g, "use")' => At(g, "use") /\ task'[g].token = task[g].token
      PROVE  TokensFresh'
  <2>1. /\ At(h, "use") /\ task[h].token \in Tokens
        /\ task[h].token \notin live /\ kind[task[h].token] # None
    BY <1>0, <1>8, TaskType DEF Spend, TokensFresh, TokensFound, Holds
  <2>2. /\ used' = [used EXCEPT ![task[h].token] = @ + 1]
        /\ UNCHANGED <<live, kind>>
    BY <1>8 DEF Spend
  <2> QED
    BY <1>0, <1>8, <2>1, <2>2 DEF TokensFresh, TypeOK
<1>9. CASE MarkEmail(h) \/ MarkPhone(h)
  BY <1>2, <1>8, <1>9 DEF MarkEmail, MarkPhone, Kinds
<1>10. CASE LoginOrReset(h)
  BY <1>1, <1>8, <1>10 DEF LoginOrReset, Kinds
<1>11. CASE Updating(h) \/ SetupTwoFactor(h) \/ ConfirmTwoFactor(h) \/ DisableTwoFactor(h)
  BY <1>0, <1>2, <1>11, FreshKept
     DEF Updating, UpdateProfile, SetupTwoFactor, ConfirmTwoFactor, DisableTwoFactor
<1>12. CASE Write(h) \/ Abort(h)
  BY <1>0, <1>1, <1>12, FreshKept DEF Write, Abort
<1> QED
  BY <1>0, <1>3, <1>4, <1>5, <1>6, <1>7, <1>9, <1>10, <1>11, <1>12, HandlerCases

LEMMA NextFresh == TokenInv /\ [Next]_vars => TokensFresh'
<1> SUFFICES ASSUME TokenInv, [Next]_vars PROVE TokensFresh'
  OBVIOUS
<1>1. ASSUME NEW t \in Tokens, Expire(t) PROVE TokensFresh'
  BY <1>1 DEF Expire, TokenInv, TokensFresh, At
<1>2. CASE Restart
  BY <1>2 DEF Restart, TokenInv, TokensFresh, At
<1>3. CASE UNCHANGED vars
  BY <1>3 DEF vars, TokenInv, TokensFresh, At
<1> QED
  BY <1>1, <1>2, <1>3, HandlerFresh DEF Next

LEMMA TokenInvariant == Spec => []TokenInv
BY InitFresh, NextFresh, TypeInvariant, PTL DEF Spec, TokenInv

(***************************************************************************)
(* The single use of a token is a limit that is checked first              *)
(***************************************************************************)

\* Nobody has found a token before it was sent.
LEMMA FirstUses == TypeInv /\ Init => \A t \in Tokens : PerToken(t)!Init
BY DEF Init, PerToken!Init, Spending

\* The handlers that have found a token, after one of them goes on.
LEMMA SpendingMoves ==
    ASSUME TypeOK, NEW t \in Tokens, NEW h \in Handlers, NEW x, Goto(h, x)
    PROVE  Spending(t)' = (Spending(t) \ {h}) \cup
              (IF x # None /\ x.step \in {"del", "use"} /\ x.token = t THEN {h} ELSE {})
BY DEF Goto, Spending, TypeOK

LEMMA SpendingLeft ==
    ASSUME TypeOK, NEW t \in Tokens, NEW h \in Handlers, NEW x, Goto(h, x),
           x = None \/ x.step \notin {"del", "use"}
    PROVE  Spending(t)' = Spending(t) \ {h}
BY SpendingMoves

LEMMA SpendingModified ==
    ASSUME TypeOK, NEW t \in Tokens, NEW h \in Handlers, NEW r, Modify(h, r)
    PROVE  Spending(t)' = Spending(t) \ {h}
<1>1. CASE rowsInMemory
  BY <1>1, SpendingLeft DEF Modify
<1>2. CASE ~rowsInMemory
  BY <1>2, SpendingLeft DEF Modify
<1> QED
  BY <1>1, <1>2

\* A handler that finds a token is admitted, one that spends it acts; whatever else
\* happens, handlers only give up.
LEMMA HandlerUses ==
    ASSUME TokenInv, NEW t \in Tokens, NEW h \in Handlers, Handler(h)
    PROVE  PerToken(t)!Next
<1> USE DEF SameTokens
<1>0. TypeOK /\ TokensFound /\ TokensFresh /\ used[t] \in Nat
  BY DEF TokenInv, TypeInv, TypeOK
<1>1. ASSUME used'[t] = used[t], Spending(t)' \subseteq Spending(t) PROVE PerToken(t)!Next
  BY <1>0, <1>1 DEF PerToken!Next, PerToken!Withdraw
<1>2. CASE Sending(h)
  <2>1. PICK k \in Kinds : Goto(h, [step |-> "save", kind |-> k]) /\ used' = used
    BY <1>2 DEF Sending, Send, Begin
  <2> QED
    BY <2>1, <1>0, <1>1, SpendingLeft
<1>3. CASE SaveToken(h) \/ Write(h) \/ Abort(h)
  BY <1>0, <1>1, <1>3, SpendingLeft DEF SaveToken, Write, Abort
<1>4. CASE VerifyPhone(h)
  BY <1>0, <1>1, <1>4, SpendingLeft DEF VerifyPhone, Begin
<1>5. CASE Updating(h) \/ SetupTwoFactor(h) \/ ConfirmTwoFactor(h) \/ DisableTwoFactor(h)
  BY <1>0, <1>1, <1>5, SpendingModified
     DEF Updating, UpdateProfile, SetupTwoFactor, ConfirmTwoFactor, DisableTwoFactor
<1>6. CASE Consuming(h)
  <2>1. PICK k \in Kinds, u \in Tokens, r \in Row \cup {None} :
              Consume(h, k, u, r) /\ IF k = "otp" THEN At(h, "code") ELSE task[h] = None
    BY <1>6 DEF Consuming
  <2>2. PICK x : Goto(h, x) /\ x # None /\ x.step \in {"del", "use"} /\ x.token = u
    <3>1. ASSUME NEW s \in {"del", "use"} PROVE [step |-> s, token |-> u, row |-> r] # None
      BY NoneAssumption DEF Task
    <3> QED
      BY <2>1, <3>1 DEF Consume, Take, Get
  <2>3. h \notin Spending(t) /\ u \in live /\ used' = used
    BY <2>1 DEF Spending, At, Consume, Take, Get
  <2>4. CASE u = t
    <3>1. Spending(t)' = Spending(t) \cup {h}
      BY <1>0, <2>2, <2>4, SpendingMoves, <2>3
    <3>2. used[t] < 1
      BY <1>0, <2>3, <2>4 DEF TokensFresh
    <3> QED
      BY <2>3, <3>1, <3>2 DEF PerToken!Next, PerToken!Admit
  <2>5. CASE u # t
    BY <1>0, <1>1, <2>2, <2>3, <2>5, SpendingMoves
  <2> QED
    BY <2>4, <2>5
<1>7. CASE DeleteKey(h)
  <2> DEFINE x == [task[h] EXCEPT !.step = "use"]
  <2>1. task[h] \in [step : {"del", "use"}, token : Tokens, row : Row \cup {None}] /\ At(h, "del")
    BY <1>0, <1>7, TaskType DEF DeleteKey
  <2>2. x.token = task[h].token
    BY <2>1
  <2>3. Goto(h, x) /\ used' = used
    BY <1>7 DEF DeleteKey
  <2> HIDE DEF x
  <2>4. Spending(t)' \subseteq Spending(t) \cup (IF task[h].token = t THEN {h} ELSE {})
    BY <1>0, <2>2, <2>3, SpendingMoves
  <2>5. task[h].token = t => h \in Spending(t)
    BY <2>1 DEF Spending, At
  <2> QED
    BY <1>1, <2>3, <2>4, <2>5
<1>8. ASSUME NEW k \in Kinds, Spend(h, k), Spending(t)' = Spending(t) \ {h} PROVE PerToken(t)!Next
  <2>1. /\ At(h, "use") /\ used' = [used EXCEPT ![task[h].token] = @ + 1]
        /\ task[h].token \in Tokens
    BY <1>0, <1>8, TaskType DEF Spend
  <2>2. CASE task[h].token = t
    <3>1. h \in Spending(t) /\ used'[t] = used[t] + 1
      BY <1>0, <2>1, <2>2 DEF Spending, At, TypeOK
    <3> QED
      BY <1>8, <3>1 DEF PerToken!Next, PerToken!Act
  <2>3. CASE task[h].token # t
    <3>1. used'[t] = used[t]
      BY <1>0, <2>1, <2>3 DEF TypeOK
    <3> QED
      BY <1>1, <1>8, <3>1
  <2> QED
    BY <2>2, <2>3
<1>9. CASE MarkEmail(h) \/ MarkPhone(h) \/ LoginOrReset(h)
  <2>1. Spending(t)' = Spending(t) \ {h}
    BY <1>0, <1>9, SpendingLeft, SpendingModified DEF MarkEmail, MarkPhone, LoginOrReset
  <2> QED
    BY <1>8, <1>9, <2>1 DEF MarkEmail, MarkPhone, LoginOrReset, Kinds
<1> QED
  BY <1>0, <1>2, <1>3, <1>4, <1>5, <1>6, <1>7, <1>9, HandlerCases

LEMMA UsesStep ==
    ASSUME TokenInv, [Next]_vars, NEW t \in Tokens
    PROVE  [PerToken(t)!Next]_(PerToken(t)!vars)
<1>0. used[t] \in Nat
  BY DEF TokenInv, TypeInv, TypeOK
<1>1. ASSUME used' = used, task' = task \/ task' = [h \in Handlers |-> None] PROVE PerToken(t)!Next
  <2>1. Spending(t)' \subseteq Spending(t)
    BY <1>1 DEF Spending
  <2> QED
    BY <1>0, <1>1, <2>1 DEF PerToken!Next, PerToken!Withdraw
<1> QED
  BY <1>1, HandlerUses DEF Next, Expire, Restart, vars

\* A token is spent once, but for the handlers that found it before it was deleted.
THEOREM UsesLimited == Spec => LimitsUses
<1>1. TypeInv /\ [Next]_vars /\ TokenInv => \A t \in Tokens : [PerToken(t)!Next]_(PerToken(t)!vars)
  BY UsesStep
<1>2. Init => \A t \in Tokens : PerToken(t)!Init
  BY FirstUses, InitType
<1> QED
  BY <1>1, <1>2, TypeInvariant, TokenInvariant, PTL DEF Spec, LimitsUses

=============================================================================
