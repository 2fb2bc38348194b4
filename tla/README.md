# PokeSpace backend: a TLA+ model

TLA+ models of the PokeSpace server (NestJS, PostgreSQL, Redis, DynamoDB, Socket.IO):
what is modelled, what TLC checks on small instances, and what TLAPS proves for every
instance. Paths and line numbers refer to the files under `src/`; `PROJECT.json` maps every
definition to the lines it stands for.

## 1. The system

| Component | State | Operations | Interacts with |
|---|---|---|---|
| World engine (`modules/world`) | instances (`entities`, `occupied`), `SessionManager.byConnection`, `.byCharacter`, all in one process | enter, move, leave, laboratory spawn | gateway, Redis presence |
| Gateway (`modules/realtime`) | sockets, handlers that wait for an `await` | connect, WORLD_ENTER, MOVE, WORLD_LEAVE, battle messages, disconnect | world engine, characters, battle, token service |
| Characters (`modules/character`) | rows of `characters`, `character_world_state` | create, read, save the position | gateway, servers, idempotency, Pokedex (event) |
| Idempotency (`modules/idempotency`) | a record per `Idempotency-Key` in DynamoDB or in memory | `run` | character creation |
| Identity (`modules/identity`) | users; refresh tokens, sessions, denylist, one-time tokens, login attempts | register, log in, 2FA, verify, refresh, log out, revoke, reset password, change the profile, delete | gateway, all HTTP routes |
| Battle (`modules/battle`) | battles in a repository, turn state | start, act, capture | gateway, Pokedex |
| Pokemon (`modules/pokemon`) | catalogue; Pokedex progress per character | queries; mark seen, mark caught | gateway, battle |
| Servers (`modules/servers`) | game servers | queries | character creation |
| Shared (`shared`) | rate-limit counters, applied migrations, clients | increment, migrate | everything |

**What is hard.** The process is single-threaded, so a handler is interrupted only where it
awaits something outside it, but it is interrupted there by everything: other sockets, the
same socket's next message (Socket.IO does not wait for a handler), its disconnect. State
read before such an await is used after it; saves are transactions on separate connections
of a pool and finish in any order; the process may restart and lose everything but the
databases. The idempotency service runs in many processes over one table, and each of its
calls may be late, fail, or be the last thing a process does. Identity and character
creation count or look up first and write later, with no transaction around the two, and a
user is a row that is read and written whole. Almost every repository exists twice, over a
database and in memory, and behaves differently in the two. `hazards` in `PROJECT.json`
lists each place.

**What makes each component correct.**

* World: the two indexes of an instance say the same; a body belongs to a session and
  stands where the session says; two sockets never act for one character; the capacity
  holds; a socket loses its session only through its own character.
* Clients' views: whoever is in the world is shown to everybody in its instance; whoever is
  shown and is not there is going to be announced as gone where the client hears it.
* Stored position: when no save is under way, the row holds the latest position or one whose
  save the latest one overlapped; a departure saves where the body stands, and only the
  socket the character is played from does.
* Idempotency: only the holder of an unexpired claim executes; a replay has the payload of
  the request; a stored failure was somebody's; a right to execute is granted anew only when
  the previous one has lapsed.
* Sessions: a session that can be refreshed is where every revocation looks for it; a
  revocation ends what was there when it began; a changed password ends the sessions of the
  former one; a revoked access token lets nobody in.
* Accounts, characters, logins, one-time tokens: a limit that is checked first and acted
  upon later is overrun by no more than those that passed the check together; every account is
  counted; a deleted account stays deleted.
* Credentials: whole-row writes that overwrite each other never enable a second factor
  nobody has confirmed, nor verify a contact that no handler has marked.
* Battle: the outcome is what the HP say, and final; no turn is free; the Pokedex lists what
  was captured, all of it but for failed statements, with its first dates.

## 2. Modules

| Module | Models | State | Actions |
|---|---|---|---|
| `MapInstance` | the grid and the spawn points as the map file has them, `MapInstance`, `NpcSpawnService`, `WildSpawnService`, `SpawnService` | none: operators from an instance to an instance | |
| `World` | `InstanceManager`, `SessionManager`, the use cases and the gateway's handlers | `opened`, `insts`, `sess` (heap of session objects), `byConn`, `byChar`, `sockets`, `entering`/`moving` (handlers that wait), `cast` (the latest ENTITY_MOVED) | `Connect`, `EnterRequest`, `EnterWorld`, `Move`, `Moved`, `Leave`, `Disconnect`, `ResolveLaboratorySpawn`, `Restart` |
| `WorldStore` | `World` composed with the row of `character_world_state` in PostgreSQL | `saved`, `saving`; history `recent`, `lost` | each action of `World` with its read or save, `Save`, `SaveFails` |
| `WorldViews` | `World` composed with the Socket.IO rooms, the snapshots and the broadcasts of players, and what clients make of them | `rooms`, `told`, `leaving` (departures that wait for `clearPresence`); history `gone`, `hidden` | each action of `World` with its `join`, snapshot and broadcast, `Despawned` |
| `Idempotency` | `IdempotencyService` over either repository | `inMemory` (which one the module is wired with, chosen once), `row`, `pc`, `answer`, `made`; history `granted`, `lapsed`, `holder`, `outlived` | one per repository call: `CreateProcessing`, `Find`, `Retry`, `Reclaim`, `Execute`, `Complete`, `Fail`, their failures, `Crash`, `Restart`, `TimeOut`, `TtlPasses`, `TtlDeletes` |
| `ExecutionRights` | what the service promises about who may execute | `granted`, `lapsed` | `Grant`, `Lapse` |
| `CheckThenAct` | what a limit promises that is checked first and acted upon later | `done`, `admitted` | `Admit`, `Act`, `Withdraw` |
| `AuthSessions` | refresh sessions: `RefreshTokenStore` (Redis or memory), the use cases that issue, rotate, list and revoke, the row of the user as far as they touch it | `inMemory`, `status`, `password`, `issued`, `info`, `store` (tokens, session keys, the two sets of ids), `task` (what each handler has yet to do); history `spoilt` | one per handler up to its next `await`: `Login`, `SecondFactor`, `Issue`, `Rotate`, `RotateTtl`, `RotateSet`, `Reuse`, `FindUser`, `ReadMembers`, `SweepNext`, `SweepEnd`, `GetToken`, `RemoveSession`, `Logout`, `RevokeSession`, `LogoutAll`, `ChangePassword`, `UpdatePassword`, `ReadUser`, `WriteUser`, `DeleteAccount`, `DeleteUser`; `Abort`, `Expire`, `Restart` |
| `AccessTokens` | access tokens, the denylist in Redis or memory, `AuthGuard` and the gateway's `handleConnection` | `denylistInMemory`, `now`, `signed`, `denied`, `caller`; history `revoked` | `Sign`, `Arrive`, `Pass` (the denylist first, then the token), `Revoke`, `Leave`, `Tick`, `AccessRestart` |
| `Registration` | `RegisterUser`, the contacts of `UpdateProfile`, `DeleteAccount`, over PostgreSQL or the repository in memory with its indexes | `inMemory`, `row`, `idOf`, `idsOf`, `task`; history `born`, `moved` | `Register`, `CountEmail`, `CountPhone`, `SaveUser`, `UpdateProfile`, `WriteProfile`, `DeleteAccount`, `Abort`, `Restart` |
| `Lockout` | the attempts of `LoginUser` and the `LoginAttemptStore` in Redis or memory | `inMemory`, `fails`, `timed`, `lock`, `task`; history `returned`, `cut` | `NotLocked`, `Matches`, `Refused`, `FailInMemory`, `Increment`, `Expire`, `SetLock`, `Clear`, `CountExpires`, `LockExpires`, `Abort`, `Restart` |
| `Credentials` | the tokens of e-mail verification, second login step and password reset, the phone code, the set-up of the second factor; rows and tokens each over a database or in memory | `rowsInMemory`, `tokensInMemory`, `row`, `live`, `kind`, `task`; history `used`, `drawn`, `confirmed`, `marked` | `SendVerification`, `SendPhoneOtp`, `Login`, `RequestPasswordReset`, `SaveToken`; `VerifyEmail`, `VerifyTwoFactorLogin`, `ResetPassword`, `VerifyPhone`, `VerifyCode`, `DeleteKey`, `MarkEmail`, `MarkPhone`, `LoginOrReset`; `UpdateProfile`, `SetupTwoFactor`, `ConfirmTwoFactor`, `DisableTwoFactor`, `Write`; `Expire`, `Abort`, `Restart` |
| `Characters` | `CreateCharacter` over PostgreSQL, with its transaction, or in memory | `inMemory`, `stored`, `task`; history `born` | `Create`, `Count`, `CheckName`, `ResolveSpawn`, `SaveInMemory`, `Insert`, `InsertWorldState`, `Commit`, `Abort`, `Restart` |
| `Battle` | the `Battle` aggregate, the use cases and encounters that start it, the actions on it, the Pokedex entries in PostgreSQL or memory and the marks that write them | `battle`, `inMemory`, `entry`, `sighting` (what each WORLD_ENTER has yet to mark), `marks` (statements under way), `clock`; history `captured`, `missed` | `Start`, `Fight`, `Capture`, `Flee`, `Sight`, `MarkSeen`, `Commit`, `MarkFails`, `Restart` |
| `MCWorld`, `MCWorldStore`, `MCWorldViews`, `MCIdempotency`, `MCAuthSessions`, `MCAccessTokens`, `MCRegistration`, `MCLockout`, `MCCredentials`, `MCCharacters`, `MCBattle` | values of the constants for TLC | | |
| `WorldProofs` (of `MapInstance`, `World`, `WorldStore`, `WorldViews`), `IdempotencyProofs`, `AuthSessionsProofs` (of `AuthSessions` and `AccessTokens`), `LockoutProofs` (with `CheckThenAct` as `Limited`), `CharactersProofs`, `RegistrationProofs`, `CredentialsProofs`, `BattleProofs` | lemmas, theorems and proofs | | |

**Where a handler is cut.** Everywhere, at an `await` that leaves the process. WORLD_ENTER is
two steps: `EnterRequest` up to the character's
row, `EnterWorld` from there through `EnterWorldUseCase.execute`, including what it leaves
behind when it throws (`EnterRefused`). MOVE is two steps around `publishPresence`. A session
is an object: a MOVE that waits keeps a reference to one that may have left both indexes, so
sessions live in a heap, and one that nothing refers to is collected. In the modules of
identity and characters every query, Redis command or pipeline is a step, and a handler
between two of them is a `task`: a record of what it has read and of what it has yet to do.

**Two repositories.** Which of the two a module is wired with is a variable that never changes
(`inMemory` and the like), so each run covers both. What differs is modelled: in memory a
command is not cut in two, an object that was found is the one that is stored, so that a
change is visible before `update` is called, and a restart loses everything.

**Abstractions.** Only the map `laboratory` exists (`maps/`), on floor 0. Its Collision layer
is a sequence of gids, row after row, and its spawn points are objects in pixels, as the
file has them: a spawn point may lie in a wall. A wild Pokemon
never moves or leaves, so its tile is its name; its random tile is a nondeterministic choice,
and `EnsureSpawns` may place fewer than it wants, because the code gives up after 24
occupied tiles. Facing directions, visuals and levels are left out of the world.

In `WorldViews` a room is Socket.IO's: a socket is in it from `join` until it closes, `join`
does nothing on a closed socket, and with the adapter in memory it is done at once, so
`onEnter` puts a player into the world, joins, sends the snapshot and announces it in one
step. A departure is two: what `leaveWorld.execute` does before it waits for Redis, and
`Despawned`. What a client is told is kept as the set of characters it believes to be around
it. ENTITY_MOVED neither adds nor removes anybody; residents never leave.

In `Idempotency` time is the age of the row: fresh, late (`processingExpiresAt` has passed),
old (`expiresAt` has passed). `UpdateItem` on a deleted row creates one without dates, which
never ages.

In `AuthSessions` a temporary token for the second factor is a task
that waits. `ChangePassword` stands for the reset by e-mail as well: what differs is how the
user proves who he is, which is in `Credentials`. Rows of users are PostgreSQL's: `ReadUser`
and `WriteUser` are every
handler that reads the row and writes it whole, and put back a password or a status that
was changed in between.

In `AccessTokens` a token is dated in seconds on one clock, and `AUTH_TOKEN_TTL` is taken as
unchanged while a token lives. A denylist in memory is lost in a restart, and with it the
revocations: `revoked` speaks of those that are still known.

`Registration`, `Lockout` and `Credentials` each look at the part of the user they need:
contacts, identifiers, proofs. A registration checks the name, counts the accounts of the
e-mail, then those of the phone, and saves; a change of contacts is never counted.
`Credentials` has one user, for no key and no row is of two.

In `Characters` a transaction's rows are seen by others when it commits, and an INSERT of a
key that another transaction has inserted waits for its end. Names are compared in lower case
by the check and as they are spelt by the constraint.

In `Battle` an action on a battle is one step: `InMemoryBattleRepository` hands out the object
it keeps, and the code awaits nothing between the check of the status and the last
change. HP and damage are computed as in the code; a roll is a choice among what it can
yield (damage from 85 to 100 percent of the formula; a capture fails unless the rate is
255; a flight may always succeed or fail). A battle starts by request, with any pairing, or
by an encounter, with the lead and a level of the zone's entry. A mark takes its date when it
is called, which is
an order of calls here, and takes effect, or fails, or both when the connection is lost, later.
A status effect is left out, because nothing reads it, and so are requests that change
nothing: an unknown move, a battle or character of somebody else.

**Abstract specifications.** `ExecutionRights` and `CheckThenAct` say what
pieces of code promise, without their steps. `CheckThenAct` is what several of them have in
common; its refinements map an actor to a handler that has passed the check and not yet acted:

| Property | What is limited | Limit | done, admitted |
|---|---|---|---|
| `LimitsContacts` | accounts that were registered with an e-mail or phone and kept it | `MAX_ACCOUNTS_PER_CONTACT` | rows, registrations past its count |
| `LimitsCharacters` | characters of an account | `getMaxCharactersPerAccount()` | committed rows, creations past the count |
| `LimitsNames` | characters of one name, in any case, on a server | 1 | committed rows, creations past the check |
| `LimitsAttempts` | failures counted on an identifier that nothing has cleared | `getMaxLoginAttempts()` | counts returned, logins past `isLocked` |
| `LimitsUses` | uses of a one-time token | 1 | uses, handlers that have found it |
| `GrantsRights` | rights to execute that have not lapsed (`ExecutionRights`) | 1 | |

What `CheckThenAct` allows is what the code does: `docs/API_ROUTES.md:59` says at most four
accounts per contact, `docs/SERVERS_MODULE.md:15` up to five characters, and
`docs/API_ROUTES.md:218` a name that is unique on its server. All three are
overrun by requests that arrive together, by fewer than there are of them (`OverrunBounded`);
of a name that means several spellings of it, or in memory the very same one.
In PostgreSQL the constraint `uq_characters_server_name` keeps the exact name unique, which
`ExactNameOnce` says by itself, because `LimitsNames` would hold without it.

## 3. Runs

Passing runs:

| Run | Question | Bounds |
|---|---|---|
| `WorldSockets` | do indexes, sessions and bodies agree when every socket uses every character, and what do its clients see? | `WorldViews` with 2 sockets, 2 characters, 3 tiles and a wall, a spawn point in the wall, 2 handlers waiting, 2 session objects per socket and character, 1 departure of a player unannounced; symmetry on sockets and characters |
| `WorldLab` | capacity, orphan bodies and takeovers with residents and several instances | 3 sockets (two share a character), 4 tiles, an NPC on a spawn point, one wild Pokemon, 2 instances of 3 |
| `StoredRows` | how old may a stored position be, and who saves one on departure? | 3 sockets of one character, 2 tiles and a wall, 2 sequence numbers, 2 handlers waiting, 1 session object per socket, 2 saves under way; symmetry on the sockets |
| `IdemReplay` | are replays and failures right within the ttl, and does the service over either repository implement `ExecutionRights`? | 4 requests, one of another payload, ttl included; symmetry on the three retries |
| `AuthRevoke` | do revocations find and end every session they should, over either store? | 1 user, 2 handlers, 2 sessions, 1 password change; symmetry on the handlers; constraint `FewAfterFault` |
| `AccessRevoked` | is a revoked access token kept out until it has ended? | 2 tokens, 2 callers, a ttl of 2, 6 seconds |
| `Registrations` | are accounts counted and limited, and do deleted ones stay so? | 2 handlers, 4 accounts in all, 3 names, 2 e-mails, 1 phone, a limit of 2 |
| `Lockouts` | are failed logins limited, and is their count forgotten in the end? | 3 handlers, 1 identifier, a limit of 2, counts up to 4; with fairness |
| `Credentials` | do whole-row writes keep apart what was confirmed or marked and what was not, and are tokens used once but for those that find them together? | 2 handlers, 2 e-mails, 1 phone, 2 secrets, 2 tokens |
| `CharacterLimits` | is the exact name unique in PostgreSQL, are characters and, in any spelling, names limited as `CheckThenAct` says, and are their world states there? | 3 handlers, 3 ids, 2 accounts, 2 servers, 3 spellings of 2 names, a limit of 2 |
| `BattlePokedex` | do battles end as the HP say, once, and does the Pokedex list what they caught? | 1 character, 2 battles, 2 WORLD_ENTERs, 2 species, 3 marks; symmetry on the battles and on the WORLD_ENTERs |

One run finds a disagreement between the code and what the repository says of it:
`WorldClosedSocket`, in which a socket closed during WORLD_ENTER's database read keeps a
session and a body, whereas `docs/API_ROUTES.md:243` says that a player who disconnects
is despawned.

The models show more of what the code allows and nobody may want; the properties are
stated so as to say exactly that, and no more:

* ENTITY_MOVED may carry the sequence number of a later MOVE (`cast`: `asked` and `seq`).
* Two saves of a character may commit out of order, when a client does not wait for its
  answers or the character is played from several sockets: the row is then left with the
  older one until the next save. A reconnection is a new socket, and one that is quick, like
  a takeover, enters from the row as it is before the save of `world.gateway.ts:405` has
  landed. `docs/API_ROUTES.md:248` says that positions are hydrated at the next WORLD_ENTER.
* A command may take effect twice under one key, by a retry of a request that has lapsed.
* A login that is under way may open a session of the former password after a change has
  revoked all, and one refresh token may open two sessions.
* A socket that enters with a second character leaves the first in the world; so
  `BodiesHaveSessions` and `SessionLostOnlyToOwnCharacter` are about sockets that keep to one.
* ENTITY_DESPAWNED is sent after Redis has answered, although the player may be back by then:
  those who heard it do not show the player until they enter again (`hidden`).
* A MOVE is heard by the sessions within the interest radius, as
  `docs/architecture/current-state.md:42` says, and not by the whole room, as its line 58 does.
* A character that is taken over leaves its first instance without ENTITY_DESPAWNED
  (`gone`), unless both instances are the same, and then it is announced anew. WORLD_LEAVE
  and a second WORLD_ENTER leave no room, so a socket hears of every instance it has been in.
* A change of contacts takes an account to a contact that is full, and in memory the id stays
  in the set of the former contact.
* A token sent to an address before it was changed verifies the new one
  (`VerifiedWasMarked`). The DEL after the GET of a phone code may delete a newer one.
* Characters outlive the account that is deleted.
* A socket that is in stays in, whatever becomes of its token.

**Why the bounds are enough.** The hazards of the world are between two sockets or two
handlers: a third socket is there where a takeover needs a bystander (`WorldLab`). Two
waiting handlers give every order of two continuations; two session objects of one
socket and character, an old one held by a waiting MOVE and its successor. Three
tiles are the shortest corridor in which a body can be blocked, pass, and be out of step by
one; a stored position needs two, one that is right and one that is not (`StoredRows`), and
three sockets of one character: one that was taken over, one that took it over and one that
comes later. Four requests under one key give a holder, one that reclaims, one that meets
the second, and one of another payload. `WorldSockets` excludes residents and `WorldLab` has
them, so that neither run is too large; every action and disjunct fires in one of them.
What the clients see is checked on the same two sockets: one enters, leaves, closes or changes
characters while the other watches, has left, or has taken its character over, and a departure
waits meanwhile. `MaxLeaving` keeps a player from leaving twice before the first departure is
announced, which takes nothing from what the world alone can do. The radius covers the map, as
it does in the laboratory. Several instances, and departures without a bound, are the
theorems' (`PhantomsAccounted`, `EverybodySeen`).

In `AuthRevoke` two sessions are what a loop needs to skip one, and what a family needs;
two handlers give every order of a revocation and one other request. `FewAfterFault` explores
what follows an interrupted revocation or an overwritten change with one session only:
without it the run has ten million states (it passes, in four minutes), and the theorems
cover all of it.

A limit of two is the smallest that is neither always reached nor reached by one; three
handlers overrun it by two (`Lockouts`, `CharacterLimits`). `Registrations` has two, and needs
four accounts instead: one above the limit, one that is deleted and one that moves.
`Credentials` needs two handlers for a lost update and two of everything that can be
replaced. In `AccessRevoked` a token can be signed, revoked a second later, end, and its entry
end after it, with time left for another caller.

**What `OldPasswordEndsSession` excepts.** Three things keep a session of a former password
alive, and the code does nothing about them: the session was issued after the change,
the revocation stopped half-way because a command failed, or the change was
itself overwritten by a row read before it. The property says that there is no fourth.
`docs/API_ROUTES.md:64` says that a change or reset of the password invalidates all
sessions, without exception.

**What `PersistsLatest` excepts.** A save that fails, or dies with the process, leaves the
row as it was until the next save of the character (`lost`; a restart makes what is stored
the latest there is). Writes that overlap may end in any order: `recent` holds the latest
position and those whose writes were under way when it was asked for, and the row ends up as
one of them. A write begins when a MOVE is accepted or a player departs, before the `await` of
Redis that precedes the transaction, and ends with the transaction. A position whose write had ended by then
never comes back. Nothing is assumed of clients: `StoredRows` has a new socket for every
reconnection, and two of them may be open at once. `DepartureSavesTheBody` is about the
other hazard of takeovers: the socket that lost the character keeps nothing it could save.

**Replays and the ttl.** After its 24 hours a key may be claimed by another payload while
the first holder still runs, and `complete` writes into that row. The code documents the ttl
as the life of a key, so `ReplayMatchesPayload` and `FailureIsOfSomeAttempt`
speak of the time until some row has `outlived` it; `ExclusiveWhileClaimed`
and the refinement hold beyond.

**Battles.** Two species that hit hard and have 30 HP make every outcome at most two
turns away; what stats and levels do in general is proved. Two battles and two
WORLD_ENTERs give marks of catches and of sightings for the same row, two sightings of
one species under way at once among them: the gateway starts a loop of marks for every WORLD_ENTER
and waits for none. A battle's
name is given again after a restart, for the code takes a new UUID.

**Deadlock.** It is checked in every run but `IdemReplay`: a request that is answered is over.

**Fairness.** `Lockout` alone assumes any, for `CountForgotten`: weak fairness of each
handler's next step, because the event loop resumes every handler whose command has been
answered, and of the expiry of a key that has a time, which is Redis's. Nobody has to log in.
A process that stops between INCR and EXPIRE is a step of `Abort`, which `cut` remembers and
the property excepts: the count then stays until a login succeeds or fails again. What else
is checked is a safety property and needs no fairness.

## 4. Proofs

`tlapm` proves every theorem with no leaf left open, from the assumptions on the constants
that the modules name (finite sets, positive sizes, `None` outside the data, NPCs on
different tiles of the map).

* `WorldProofs`: `TypeCorrect`, `Occupancy`, `OneActorPerCharacter`, `SessionAndBodyAgree`,
  `Capacities`, `OneTileAtATime`; under `OneCharacterPerSocket` `NoBodyLeftBehind` and
  `SessionsKept`; `RowIsRecent`, `OnlyTheBodyIsSaved`, `PhantomsAccounted`; under `RadiusCovers`
  `EverybodySeen`.
  The inductive invariant is `TypeOK`, that every reference (indexes, waiting moves) leads to
  a live session object (`Live`), that the two indexes of every instance are inverse to each
  other (`Instances`), and `SessionsAgree`. The last is why `SessionIndexed` and
  `BodyWhereSessionIs` cannot be proved alone: they speak of `byConn` only, but a takeover
  removes the body of the session under `byChar`. What
  `byChar` holds must be a session of that character; a ghost session may be
  there with no connection. The operators of `MapInstance` have lemmas of their own
  (adding, removing, moving and residents keep an instance sound and
  within its capacity, a
  spawn is free), and the world's proof has a lemma for each of its parts: eviction,
  entering, leaving, moving, and the steps that touch no session. The capacity is a second
  induction on top of the first, over the cardinality of what stands in an instance.
  Orphan bodies are a third: `Entitled` adds that sessions and waiting handlers are of
  characters that their socket may enter with, so a socket that plays one character evicts the
  session of that character, body and all, whatever it has entered before.
  The row needs a fourth (`StoreInv`): every position on its way to the row, of an accepted
  MOVE or of a transaction under way, is recent (`WritesRecent`), so whichever commits last
  leaves the row with a recent one. A write that begins keeps the positions of all that are
  under way (`NewWrite`), and one that ends makes none stale.
  That only the body is saved follows from `SessionsAgree`: a socket has a session to depart
  from only if its character is indexed under it.
  The views need a fifth (`ViewsInv`): a socket that is open and has a session is in the
  room of its instance (`InRoom`), or it would miss who enters there. The proof first says
  what each action of `World` can do to a body: an eviction only removes (`EvictionTakes`),
  a MOVE keeps it on the map (`MoveBodies`, `MovedBodies`), a departure takes that of
  the session and counts an announcement (`Departs`). So an entry is the only way for a body
  to vanish unannounced, and `gone` remembers it. `EverybodySeen` adds `Seen`: under
  `RadiusCovers` the snapshot holds everybody.
* `IdempotencyProofs`: `TypeCorrect`, `Exclusive`, `ImplementsRights`, `ReplaysMatch`,
  `FailuresReal`. The history variables
  `granted` and `lapsed` are what the refinement maps to the abstract variables; the invariant
  says that a row in PROCESSING which is fresh is held by the one request whose claim
  has not lapsed. Replays need another, `Replayable`, which holds until a row has outlived its
  ttl: the row stays, with one payload, whatever is settled in it was done or failed under
  that payload, and who has failed stays so (`OthersStay`).
* `AuthSessionsProofs`: `TypeCorrect`, `Indexed`, `RevocationComplete`, `OldPassword`. The
  inductive invariant adds `Known` to the properties themselves: issued sessions have
  their data, and a revocation has not read ids of sessions to come. `Indexed` is what makes
  the revocation complete (the ids that are read are those of every active session), and
  both are what makes the password change effective. Every step but `Issue` is shown to
  only end sessions (`Keeps`), so each property is looked at once for `Issue`, once for
  the rest, and once per step of the handler that moves.
  The same module proves of `AccessTokens` `AccessTypeCorrect` and
  `RevokedKeptOut` (`RevokedStaysOut`). A caller that came with a revoked
  token has a token in the denylist that was signed before it was put there; so when the
  entry has ended, the token has, and a caller past the first check cannot pass the second.
* `LockoutProofs`: `Bounded`, the overrun of a limit in numbers, of `CheckThenAct` itself: the
  acts that are done are counted together with those on their way. `AttemptsLimited`,
  `FailuresBounded`: the count and the lock are two keys, so the invariant (`LoginInv`) ties
  them: every failure that still counts was given a number of its own by INCR, at most the
  count (`CountsDiffer`); the failure that reaches the limit sets the lock before it is
  recorded, so where no lock is set every recorded number is below the limit (`LockFirst`),
  and there are fewer of them than the limit.
* `CharactersProofs`: `TypeCorrect`, `CharactersLimited`, `NamesExact`, `NamesLimited`,
  `CharactersBounded`.
  The invariant (`CreationInv`) adds that an id under which a transaction has inserted is drawn,
  still empty for everybody else and no other transaction's, so a COMMIT always adds one
  character, with its world state, and overwrites none (`Uncommitted`). Each action is first
  reduced to what it does (`Begins`, `GoesOn`, `Ends`, `Stores`), and both refinements are
  shown once per kind. For exact names the invariant is `KeysApart`: an inserted row that
  is not committed conflicts with no stored one, and no other transaction's has its key.
* `RegistrationProofs`: `TypeCorrect`, `AllCounted`, `ContactsLimited`, `ContactsBounded`,
  `DeletionFinal`. The invariant is `TypeOK` with `EveryAccountCounted`: in memory the limit
  is checked against sets that `update` leaves former contacts in, and the refinement needs
  only that they miss nobody (`KeptAreCounted`). A row is written by `update` only where there
  is one, and by `save` only under a new id, so nothing brings a deleted account back.
* `CredentialsProofs`: `TypeCorrect`, `EnabledConfirmed`, `VerifiedMarked`, `UsesLimited`.
  Every row that was stored or is carried by a handler is in itself right (an enabled second
  factor has a confirmed secret, what is verified was marked and is one of its own contacts),
  which is why writing any of them over any other is harmless. The uses of every token
  implement `CheckThenAct`: a handler finds a token only while nobody has spent it.
* `BattleProofs`: `TypeCorrect`, `Outcome`, `Final`, `EveryTurnCosts`, `CaughtByCapture`,
  `CapturesListed`,
  `FirstDates`. For every species and level: stats are positive, so a hit does at least
  one point of damage (`DamageIsPositive`), so `useMove` decides the battle exactly when it
  takes the last HP (`StruckBattle`), and so does a turn of two of them (`TurnTaken`). The
  Pokedex needs that a mark of a catch which is under way belongs to a capture
  (`MarksOfCaptures`) and that nothing else does (`CapturesAreCatches`).

**What the hypotheses say.** Three theorems have one. `NoBodyLeftBehind` and `SessionsKept`
hold for clients that behave: a socket of the
code may enter with any character of its account, and one that enters with a second
leaves the first in the world. `OneCharacterPerSocket` excludes that, as `MayEnter` does in
`WorldLab`. `EverybodySeen` assumes that the radius covers
the map: the laboratory has 20 x 16 tiles, the radius is 24, and on a larger map a client is
not told of who comes nearer. What holds without them is proved without them.

Only model-checked: `CountForgotten`, for liveness under fairness is out of the prover's
reach, and the violation that `WorldClosedSocket` finds. Type correctness is proved for every
component but `Lockout`'s, whose invariant contains it, and checked where it says more than types.

## 5. Not modelled

The presence keys in Redis are written and never read. What a snapshot says of residents,
the broadcasts of NPCs and wild Pokemon (which never leave), the rest of the map file,
catalogue queries, CDN, health and i18n have no state of their own. Mail, the arithmetic of
TOTP codes and of hashes, and the formats of value objects are model values. Deployment files
and scripts run outside the server; the migration runner runs once, before it listens. The
rate-limit counter is INCR and EXPIRE like the count of failed logins, without the lock. How
many spawn points a map has is data: WORLD_ENTER refuses whoever finds none free.

What could follow: liveness of the idempotency service, where every request is answered
unless its process dies, and of the announcements, where whoever has left is despawned in the
end if Redis answers; maps larger than the interest radius, when the repository ships one.
