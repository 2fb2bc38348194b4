---------------------------- MODULE AccessTokens ----------------------------
(***************************************************************************)
(* Access tokens: the JWT that JwtTokenService signs, the denylist that    *)
(* SessionRevoker puts it on, and whoever is let in with one: an HTTP      *)
(* request by AuthGuard, a socket of /world by handleConnection.  Both     *)
(* look at the denylist first and at the token itself afterwards, and time *)
(* passes between the two.                                                 *)
(*                                                                         *)
(* A JWT ends Ttl after it was signed, its entry in the denylist Ttl after *)
(* it was put there.  Time is counted in seconds, in which a JWT is dated, *)
(* on one clock; AUTH_TOKEN_TTL is taken as unchanged while a token lives. *)
(* That the owner of a token still has an account is not looked at.        *)
(***************************************************************************)
EXTENDS Integers, Sequences

CONSTANTS
    Tokens,
    Callers,        \* requests and sockets that are served at once
    Ttl,            \* getAuthTokenTtlSeconds()
    MaxTime,        \* bound on the clock
    None

ASSUME AccessAssumption == Ttl \in Nat \ {0} /\ MaxTime \in Nat

VARIABLES
    denylistInMemory, \* the denylist the module is wired with, chosen once
    now,
    signed,         \* when each token was signed, or None
    denied,         \* when each token was put on the denylist, or None
    caller,         \* what each caller is at, or None
    revoked         \* history: tokens put on the denylist, which has not been lost since

accessVars == <<denylistInMemory, now, signed, denied, caller, revoked>>

\* passed: the checks passed; late: the token was revoked before the caller came;
\* socket: the caller is a socket, not a request.
Caller == [token : Tokens, passed : 0 .. 2, late : BOOLEAN, socket : BOOLEAN]

ASSUME NoneAssumption == None \notin Caller /\ None \notin Nat

AccessTypeOK ==
    /\ denylistInMemory \in BOOLEAN
    /\ now \in 0 .. MaxTime
    /\ signed \in [Tokens -> 0 .. MaxTime \cup {None}]
    /\ denied \in [Tokens -> 0 .. MaxTime \cup {None}]
    /\ caller \in [Callers -> Caller \cup {None}]
    /\ revoked \subseteq Tokens

AccessInit ==
    /\ denylistInMemory \in BOOLEAN
    /\ now = 0
    /\ signed = [t \in Tokens |-> None]
    /\ denied = [t \in Tokens |-> None]
    /\ caller = [c \in Callers |-> None]
    /\ revoked = {}

\* verify
Valid(t) == signed[t] # None /\ now < signed[t] + Ttl

\* isRevoked: the key of Redis is gone when its time has passed, the entry in
\* memory a moment later.
IsRevoked(t) ==
    denied[t] # None /\ IF denylistInMemory THEN now <= denied[t] + Ttl ELSE now < denied[t] + Ttl

\* Mutant: the token itself is looked at first.
ChecksSwapped(k, t) == IF k = 0 THEN Valid(t) ELSE ~IsRevoked(t)

\* What has to hold at the check after the first k.
Check(k, t) == IF k = 0 THEN ~IsRevoked(t) ELSE Valid(t)

\* issueForUser, after a login or with a refresh token
Sign(t) ==
    /\ signed[t] = None
    /\ signed' = [signed EXCEPT ![t] = now]
    /\ UNCHANGED <<denylistInMemory, now, denied, caller, revoked>>

\* A request, or a socket that connects.
Arrive(c, t, socket) ==
    /\ caller[c] = None
    /\ signed[t] # None
    /\ caller' = [caller EXCEPT ![c] =
           [token |-> t, passed |-> 0, late |-> t \in revoked, socket |-> socket]]
    /\ UNCHANGED <<denylistInMemory, now, signed, denied, revoked>>

Advanced(r) == [r EXCEPT !.passed = @ + 1]

\* canActivate, handleConnection: the next of the two checks
Pass(c) ==
    /\ caller[c] # None /\ caller[c].passed < 2
    /\ caller' = [caller EXCEPT ![c] =
           IF Check(@.passed, @.token) THEN Advanced(@) ELSE None]
    /\ UNCHANGED <<denylistInMemory, now, signed, denied, revoked>>

In(c) == caller[c] # None /\ caller[c].passed = 2

\* logout, logout-all, change-password, deactivate, account: revokeAccessToken,
\* before anything else is revoked.
Revoke(c) ==
    /\ In(c) /\ ~caller[c].socket
    /\ denied' = [denied EXCEPT ![caller[c].token] = now]
    /\ revoked' = revoked \cup {caller[c].token}
    /\ caller' = [caller EXCEPT ![c] = None]
    /\ UNCHANGED <<denylistInMemory, now, signed>>

\* The request is answered, the socket closed, or a check fails with Redis.
Leave(c) ==
    /\ caller[c] # None
    /\ caller' = [caller EXCEPT ![c] = None]
    /\ UNCHANGED <<denylistInMemory, now, signed, denied, revoked>>

Tick ==
    /\ now < MaxTime
    /\ now' = now + 1
    /\ UNCHANGED <<denylistInMemory, signed, denied, caller, revoked>>

\* The process starts again, without the denylist it had in memory.
AccessRestart ==
    /\ caller' = [c \in Callers |-> None]
    /\ denied' = IF denylistInMemory THEN [t \in Tokens |-> None] ELSE denied
    /\ revoked' = IF denylistInMemory THEN {} ELSE revoked
    /\ UNCHANGED <<denylistInMemory, now, signed>>

AccessNext ==
    \/ \E t \in Tokens : Sign(t)
    \/ \E c \in Callers :
          \/ \E t \in Tokens, socket \in BOOLEAN : Arrive(c, t, socket)
          \/ Pass(c) \/ Revoke(c) \/ Leave(c)
    \/ Tick \/ AccessRestart

AccessSpec == AccessInit /\ [][AccessNext]_accessVars

(***************************************************************************)
(* Properties                                                              *)
(***************************************************************************)

\* Nobody who comes with a token after it was revoked is let in, however long
\* the checks take and although its entry in the denylist ends.  Those that are
\* in stay in: a socket is never asked again.
RevokedStaysOut == \A c \in Callers : In(c) => ~caller[c].late
=============================================================================
