----------------------------- MODULE Credentials -----------------------------
(***************************************************************************)
(* What proves who somebody is besides the password: the one-time tokens   *)
(* of e-mail verification, second login step and password reset, the code  *)
(* for the phone, and the secret of the second factor.  Tokens are keys of *)
(* Redis, each command a step, or entries in memory; the user is a row of  *)
(* PostgreSQL, read and written whole, or an object that all handlers      *)
(* share.                                                                  *)
(*                                                                         *)
(* One user is modelled: no key and no row is of two.  Tokens and codes    *)
(* are guessed by nobody.  A session opened and a password set after a     *)
(* token was spent are in AuthSessions.                                    *)
(***************************************************************************)
EXTENDS Integers, FiniteSets

CONSTANTS
    Emails, Phones,
    Secrets,        \* secrets to be drawn by generateSecret
    Tokens,         \* tokens and codes to be drawn by randomBytes, randomUUID, randomInt
    Handlers,       \* requests that are served at once
    None

ASSUME CredentialsAssumption ==
    /\ IsFiniteSet(Handlers)
    /\ Emails \cap Phones = {}
    /\ None \notin Emails \cup Phones \cup Secrets

VARIABLES
    rowsInMemory,   \* the repository of users the module is wired with, chosen once
    tokensInMemory, \* the stores of tokens, chosen once
    row,            \* the user
    live,           \* tokens and codes in the stores
    kind,           \* what each token was saved for, or None
    task,           \* what each handler still has to do, or None
    used,           \* history: how often each token was spent
    drawn,          \* history: secrets drawn so far
    confirmed,      \* history: secrets for which a code was given
    marked          \* history: contacts that were the user's when a handler with a
                    \* token or code for them marked them as verified

vars == <<rowsInMemory, tokensInMemory, row, live, kind, task, used, drawn, confirmed, marked>>

Contacts == Emails \cup Phones
Kinds == {"verify", "otp", "login", "reset"}

\* verified: those of the two contacts that have a date of verification.
Row == [email : Emails, phone : Phones, verified : SUBSET Contacts,
        secret : Secrets \cup {None}, enabled : BOOLEAN]


\* "save": a token is to be saved; "code": a code is to be looked up; "del": DEL
\* follows the GET; "use": a token has been consumed; "write": a row is to be written.
Task == [step : {"save"}, kind : Kinds] \cup
        [step : {"code", "write"}, row : Row] \cup
        [step : {"del", "use"}, token : Tokens, row : Row \cup {None}]

ASSUME NoneAssumption == None \notin Row /\ None \notin Task /\ None \notin Kinds

TypeOK ==
    /\ rowsInMemory \in BOOLEAN /\ tokensInMemory \in BOOLEAN
    /\ row \in Row
    /\ live \subseteq Tokens
    /\ kind \in [Tokens -> Kinds \cup {None}]
    /\ task \in [Handlers -> Task \cup {None}]
    /\ used \in [Tokens -> Nat]
    /\ drawn \subseteq Secrets /\ confirmed \subseteq Secrets
    /\ marked \subseteq Contacts

\* A user that has just been registered.
Init ==
    /\ rowsInMemory \in BOOLEAN /\ tokensInMemory \in BOOLEAN
    /\ \E e \in Emails, p \in Phones :
          row = [email |-> e, phone |-> p, verified |-> {}, secret |-> None, enabled |-> FALSE]
    /\ live = {} /\ kind = [t \in Tokens |-> None]
    /\ task = [h \in Handlers |-> None]
    /\ used = [t \in Tokens |-> 0]
    /\ drawn = {} /\ confirmed = {}
    /\ marked = {}

Wiring == <<rowsInMemory, tokensInMemory>>
SameTokens == UNCHANGED <<live, kind, used>>
SameSecrets == UNCHANGED <<drawn, confirmed>>

At(h, step) == task[h] # None /\ task[h].step = step

Goto(h, t) == task' = [task EXCEPT ![h] = t] /\ UNCHANGED Wiring

Begin(h, t) == task[h] = None /\ Goto(h, t)

\* The user read is changed to r: in memory at once; otherwise the row has still
\* to be written.
Modify(h, r) ==
    IF rowsInMemory THEN row' = r /\ Goto(h, None)
    ELSE Goto(h, [step |-> "write", row |-> r]) /\ UNCHANGED row

\* Mutant: a write that turns the second factor on or off leaves the secret.
WriteButSecret(h) ==
    LET r == task[h].row
    IN  /\ At(h, "write")
        /\ row' = IF r.enabled = row.enabled THEN r ELSE [r EXCEPT !.secret = row.secret]
        /\ Goto(h, None)
        /\ UNCHANGED marked /\ SameTokens /\ SameSecrets

\* update: every column is written as it was read, but for the change.
Write(h) ==
    /\ At(h, "write")
    /\ row' = task[h].row
    /\ Goto(h, None)
    /\ UNCHANGED marked /\ SameTokens /\ SameSecrets

\* verifyEmail, verifyPhone
Verified(r, c) == [r EXCEPT !.verified = @ \cup {c}]

\* Mutant: the date of verification stays when the contact changes.
MovedWithDates(r, e, p) ==
    LET Date(old, new) == IF old \notin r.verified THEN {} ELSE IF new = None THEN {old} ELSE {new}
    IN  [r EXCEPT !.email = IF e = None THEN @ ELSE e,
                  !.phone = IF p = None THEN @ ELSE p,
                  !.verified = Date(r.email, e) \cup Date(r.phone, p)]

\* updateEmail, updatePhone: the new one has no date of verification.
Moved(r, e, p) ==
    LET gone == (IF e = None THEN {} ELSE {r.email}) \cup (IF p = None THEN {} ELSE {r.phone})
    IN  [r EXCEPT !.email = IF e = None THEN @ ELSE e,
                  !.phone = IF p = None THEN @ ELSE p,
                  !.verified = @ \ gone]

(***************************************************************************)
(* Tokens are sent                                                         *)
(***************************************************************************)
Send(h, k) ==
    /\ Begin(h, [step |-> "save", kind |-> k])
    /\ UNCHANGED <<row, marked>> /\ SameTokens /\ SameSecrets

\* RegisterUser and ResendVerification, unless the e-mail is verified
SendVerification(h) == row.email \notin row.verified /\ Send(h, "verify")

SendPhoneOtp(h) == Send(h, "otp")

\* LoginUser, with the right password
Login(h) == row.enabled /\ row.secret # None /\ Send(h, "login")

RequestPasswordReset(h) == Send(h, "reset")

\* All codes of the user have one key.
Codes == {t \in Tokens : kind[t] = "otp"}

\* save, and the mail or the answer that carries the token
SaveToken(h) ==
    /\ At(h, "save")
    /\ \E t \in Tokens :
          /\ kind[t] = None
          /\ kind' = [kind EXCEPT ![t] = task[h].kind]
          /\ live' = {t} \cup (IF task[h].kind = "otp" THEN live \ Codes ELSE live)
    /\ Goto(h, None)
    /\ UNCHANGED <<row, used, marked>> /\ SameSecrets

(***************************************************************************)
(* Tokens are spent                                                        *)
(***************************************************************************)

\* A handler has been given a token or code of kind k, and has read row r
\* before, or none: consume finds it.  In memory it is taken away ...
Take(h, k, t, r) ==
    /\ tokensInMemory
    /\ t \in live /\ kind[t] = k
    /\ live' = live \ {t}
    /\ Goto(h, [step |-> "use", token |-> t, row |-> r])
    /\ UNCHANGED <<row, kind, used, marked>> /\ SameSecrets

\* ... in Redis that follows the GET, ...
Get(h, k, t, r) ==
    /\ ~tokensInMemory
    /\ t \in live /\ kind[t] = k
    /\ Goto(h, [step |-> "del", token |-> t, row |-> r])
    /\ UNCHANGED <<row, marked>> /\ SameTokens /\ SameSecrets

\* Mutant: the key is left to expire.
LeaveKey(h) ==
    /\ At(h, "del")
    /\ Goto(h, [task[h] EXCEPT !.step = "use"])
    /\ UNCHANGED <<row, marked>> /\ SameTokens /\ SameSecrets

\* ... a DEL of whatever is under the key by now.
DeleteKey(h) ==
    /\ At(h, "del")
    /\ live' = IF task[h].token \in Codes THEN live \ Codes ELSE live \ {task[h].token}
    /\ Goto(h, [task[h] EXCEPT !.step = "use"])
    /\ UNCHANGED <<row, kind, used, marked>> /\ SameSecrets

Consume(h, k, t, r) == Take(h, k, t, r) \/ Get(h, k, t, r)

VerifyEmail(h, t) == task[h] = None /\ Consume(h, "verify", t, None)

VerifyTwoFactorLogin(h, t) == task[h] = None /\ Consume(h, "login", t, None)

ResetPassword(h, t) == task[h] = None /\ Consume(h, "reset", t, None)

\* VerifyPhone reads the user before it looks for the code.
VerifyPhone(h) ==
    /\ Begin(h, [step |-> "code", row |-> row])
    /\ UNCHANGED <<row, marked>> /\ SameTokens /\ SameSecrets

VerifyCode(h, t) == At(h, "code") /\ Consume(h, "otp", t, task[h].row)

\* The handler goes on with the token of kind k it has consumed.
Spend(h, k) ==
    /\ At(h, "use") /\ kind[task[h].token] = k
    /\ used' = [used EXCEPT ![task[h].token] = @ + 1]
    /\ UNCHANGED <<live, kind>> /\ SameSecrets

\* The user that is found now has the e-mail it has now marked.
MarkEmail(h) ==
    /\ Spend(h, "verify")
    /\ Modify(h, Verified(row, row.email))
    /\ marked' = marked \cup {row.email}

\* The user that was found before has its phone marked.
MarkPhone(h) ==
    LET r == IF rowsInMemory THEN row ELSE task[h].row
    IN  /\ Spend(h, "otp")
        /\ Modify(h, Verified(r, r.phone))
        /\ marked' = marked \cup {r.phone}

\* The code of a second step of login, right or wrong, is looked at only now; the
\* password is set whoever else has consumed the token.
LoginOrReset(h) ==
    /\ Spend(h, "login") \/ Spend(h, "reset")
    /\ Goto(h, None)
    /\ UNCHANGED <<row, marked>>

(***************************************************************************)
(* The profile and the second factor                                       *)
(***************************************************************************)

\* UpdateProfile with a new e-mail, phone, both or neither; with neither, any
\* other handler that writes the row of the user.
UpdateProfile(h, e, p) ==
    /\ task[h] = None
    /\ Modify(h, Moved(row, e, p))
    /\ UNCHANGED marked /\ SameTokens /\ SameSecrets

SetupTwoFactor(h) ==
    /\ task[h] = None /\ ~row.enabled
    /\ \E s \in Secrets \ drawn :
          /\ Modify(h, [row EXCEPT !.secret = s])
          /\ drawn' = drawn \cup {s}
    /\ UNCHANGED <<confirmed, marked>> /\ SameTokens

\* Mutant: a code is taken without a secret.
ConfirmWithoutSetup(h) ==
    /\ task[h] = None
    /\ Modify(h, [row EXCEPT !.enabled = TRUE])
    /\ confirmed' = confirmed \cup {row.secret}
    /\ UNCHANGED <<drawn, marked>> /\ SameTokens

\* With a code made from the secret stored.
ConfirmTwoFactor(h) ==
    /\ task[h] = None /\ row.secret # None
    /\ Modify(h, [row EXCEPT !.enabled = TRUE])
    /\ confirmed' = confirmed \cup {row.secret}
    /\ UNCHANGED <<drawn, marked>> /\ SameTokens

DisableTwoFactor(h) ==
    /\ task[h] = None /\ row.secret # None
    /\ Modify(h, [row EXCEPT !.enabled = FALSE, !.secret = None])
    /\ UNCHANGED marked /\ SameTokens /\ SameSecrets

(***************************************************************************)
(* Time and failures                                                       *)
(***************************************************************************)
Expire(t) ==
    /\ t \in live
    /\ live' = live \ {t}
    /\ UNCHANGED <<rowsInMemory, tokensInMemory, row, kind, task, used, marked>> /\ SameSecrets

\* A command or a query fails, the code is wrong, or the process stops.
Abort(h) ==
    /\ task[h] # None
    /\ Goto(h, None)
    /\ UNCHANGED <<row, marked>> /\ SameTokens /\ SameSecrets

\* The process starts again without the tokens it had in memory.
Restart ==
    /\ tokensInMemory /\ ~rowsInMemory
    /\ live' = {}
    /\ task' = [h \in Handlers |-> None]
    /\ UNCHANGED <<rowsInMemory, tokensInMemory, row, kind, used, marked>> /\ SameSecrets

Handler(h) ==
    \/ SendVerification(h) \/ SendPhoneOtp(h) \/ Login(h) \/ RequestPasswordReset(h) \/ SaveToken(h)
    \/ \E t \in Tokens : VerifyEmail(h, t) \/ VerifyTwoFactorLogin(h, t) \/ ResetPassword(h, t) \/ VerifyCode(h, t)
    \/ VerifyPhone(h) \/ DeleteKey(h) \/ MarkEmail(h) \/ MarkPhone(h) \/ LoginOrReset(h)
    \/ \E e \in Emails \cup {None}, p \in Phones \cup {None} : UpdateProfile(h, e, p)
    \/ SetupTwoFactor(h) \/ ConfirmTwoFactor(h) \/ DisableTwoFactor(h)
    \/ Write(h) \/ Abort(h)

Next == (\E h \in Handlers : Handler(h)) \/ (\E t \in Tokens : Expire(t)) \/ Restart

Spec == Init /\ [][Next]_vars

(***************************************************************************)
(* Properties                                                              *)
(***************************************************************************)

\* The second factor is never required with a secret of which no code was ever
\* given, though Setup and Confirm write the row as they have read it and
\* others may have written it meanwhile.
EnabledWasConfirmed == row.enabled => row.secret \in confirmed

\* A contact that counts as verified is one of the user's that a handler with a
\* token or a code of the user has marked, and not one that replaced it.  (The
\* token may have been sent before the contact was changed.)
VerifiedWasMarked == row.verified \subseteq marked \cap {row.email, row.phone}

\* Handlers that have found the token in its store.
Spending(t) == {h \in Handlers : task[h] # None /\ task[h].step \in {"del", "use"} /\ task[h].token = t}

PerToken(t) == INSTANCE CheckThenAct
                WITH Actors <- Handlers, Limit <- 1, done <- used[t], admitted <- Spending(t)

\* A token is spent once, but for the handlers that found it at the same time:
\* none finds a token that has been spent, whatever else is deleted, replaced
\* under the same key or expires.
LimitsUses ==
    /\ \A t \in Tokens : PerToken(t)!Init
    /\ [][\A t \in Tokens : [PerToken(t)!Next]_(PerToken(t)!vars)]_vars
=============================================================================
