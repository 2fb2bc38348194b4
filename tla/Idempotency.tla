---------------------------- MODULE Idempotency ----------------------------
(***************************************************************************)
(* IdempotencyService: requests that carry the same Idempotency-Key, each  *)
(* running `run` over a repository shared by all processes (DynamoDB) or   *)
(* kept in the only one (in memory).  Keys do not interact, so there is    *)
(* one.  Every repository call is a step; between two of them anything may *)
(* happen, the other requests, the passing of time, a crash.               *)
(*                                                                         *)
(* Time is kept as the age of the row: `fresh` until its                   *)
(* processingExpiresAt, then `late`, and `old` from expiresAt on.  A row   *)
(* that DynamoDB's UpdateItem had to create has neither date: it never     *)
(* ages.                                                                   *)
(***************************************************************************)
EXTENDS Integers, FiniteSets

CONSTANTS
    Requests,       \* requests with the key
    Payload,        \* requestHash of each request
    None

Payloads == {Payload[r] : r \in Requests}

ASSUME IdempotencyAssumption ==
    None \notin Requests /\ None \notin Payloads

VARIABLES
    inMemory,       \* the repository the module is wired with: in memory or DynamoDB
    row,            \* the IdempotencyRecord stored under the key
    pc,             \* where each request is in `run`
    answer,         \* what each request was answered
    made,           \* requests whose execute() took effect
    granted,        \* history: requests that wrote a PROCESSING row
    lapsed,         \* history: those whose processingExpiresAt passed, or whose row is lost
    holder,         \* history: the request that wrote the PROCESSING row last
    outlived        \* history: the ttlSeconds of some row, 24 hours by default, have passed

vars == <<inMemory, row, pc, answer, made, granted, lapsed, holder, outlived>>

Ages == {"fresh", "late", "old", "never"}
Hashes == Payloads \cup {None}

Row == [status : {"PROCESSING", "FAILED"}, hash : Hashes, body : {None}, age : Ages] \cup
       [status : {"COMPLETED"}, hash : Hashes, body : Requests, age : Ages]

ASSUME RowAssumption == None \notin Row

Answer == [kind : {"body"}, of : Requests] \cup
          [kind : {"mismatch", "inProgress", "replayedFailure", "error"}]

ASSUME AnswerAssumption == None \notin Answer

Labels == {"start", "find", "retry", "reclaim", "execute", "complete", "fail", "done", "dead"}

TypeOK ==
    /\ inMemory \in BOOLEAN
    /\ row \in Row \cup {None}
    /\ pc \in [Requests -> Labels]
    /\ answer \in [Requests -> Answer \cup {None}]
    /\ made \subseteq Requests
    /\ granted \subseteq Requests /\ lapsed \subseteq granted
    /\ holder \in Requests \cup {None}
    /\ outlived \in BOOLEAN

Init ==
    /\ inMemory \in BOOLEAN
    /\ row = None
    /\ pc = [r \in Requests |-> "start"]
    /\ answer = [r \in Requests |-> None]
    /\ made = {} /\ granted = {} /\ lapsed = {} /\ holder = None
    /\ outlived = FALSE

(***************************************************************************)
(* The repositories                                                        *)
(***************************************************************************)

\* find: the one in memory drops a row whose ttl has passed, DynamoDB returns
\* it until its TTL process gets to it.
Found == IF inMemory /\ row # None /\ row.age = "old" THEN None ELSE row

\* createProcessing succeeds.
MayCreate == Found = None

\* IdempotencyRecord.isProcessingExpired
ProcessingExpired(x) == x.status = "PROCESSING" /\ x.age \in {"late", "old"}

\* reclaimExpiredProcessing succeeds.
\* Mutant: the write is not conditional.
MayReclaimAnyRow == TRUE

MayReclaim == row # None => ProcessingExpired(row)

\* Mutant: the row is a failure until the command is complete.
ProcessingAsFailed(r) == [status |-> "FAILED", hash |-> Payload[r], body |-> None, age |-> "fresh"]

\* The row createProcessing or reclaimExpiredProcessing puts.
Processing(r) == [status |-> "PROCESSING", hash |-> Payload[r], body |-> None, age |-> "fresh"]

\* complete and fail: neither asks who has the row.  The repository in memory
\* does nothing when there is no row, UpdateItem creates one of what it sets.
Settled(status, body) ==
    IF row # None THEN [row EXCEPT !.status = status, !.body = body]
    ELSE IF inMemory THEN None
    ELSE [status |-> status, hash |-> None, body |-> body, age |-> "never"]

Completed(r) == Settled("COMPLETED", r)
Failed == Settled("FAILED", None)

(***************************************************************************)
(* run, handleExisting and executeAndPersist                               *)
(***************************************************************************)

Goto(r, label) ==
    /\ pc' = [pc EXCEPT ![r] = label]
    /\ UNCHANGED answer

Reply(r, a) ==
    /\ pc' = [pc EXCEPT ![r] = "done"]
    /\ answer' = [answer EXCEPT ![r] = a]

\* Those inside executeAndPersist.
Executing == {r \in Requests : pc[r] \in {"execute", "complete", "fail"}}

Keep == UNCHANGED <<granted, lapsed, holder, outlived>>

\* r's PROCESSING row is written.
Claim(r) ==
    /\ row' = Processing(r)
    /\ granted' = granted \cup {r}
    /\ holder' = r
    /\ UNCHANGED <<lapsed, made, outlived>>

CreateProcessing(r) ==
    /\ pc[r] = "start"
    /\ \/ MayCreate /\ Claim(r) /\ Goto(r, "execute")
       \/ ~MayCreate /\ Goto(r, "find") /\ Keep /\ UNCHANGED <<row, made>>

\* Mutant: the payload is not compared.
HandleExistingAnyPayload(r, x) ==
    \/ x = None /\ Goto(r, "retry")
    \/ /\ x # None
       /\ \/ /\ x.status = "COMPLETED"
             /\ Reply(r, [kind |-> "body", of |-> x.body])
          \/ /\ x.status = "FAILED"
             /\ Reply(r, [kind |-> "replayedFailure"])
          \/ ProcessingExpired(x) /\ Goto(r, "reclaim")
          \/ /\ x.status = "PROCESSING" /\ ~ProcessingExpired(x)
             /\ Reply(r, [kind |-> "inProgress"])

\* What handleExisting makes of the row it found.
HandleExisting(r, x) ==
    \/ x = None /\ Goto(r, "retry")
    \/ /\ x # None /\ x.hash # Payload[r]
       /\ Reply(r, [kind |-> "mismatch"])
    \/ /\ x # None /\ x.hash = Payload[r]
       /\ \/ /\ x.status = "COMPLETED"
             /\ Reply(r, [kind |-> "body", of |-> x.body])
          \/ /\ x.status = "FAILED"
             /\ Reply(r, [kind |-> "replayedFailure"])
          \/ ProcessingExpired(x) /\ Goto(r, "reclaim")
          \/ /\ x.status = "PROCESSING" /\ ~ProcessingExpired(x)
             /\ Reply(r, [kind |-> "inProgress"])

Find(r) ==
    /\ pc[r] = "find"
    /\ HandleExisting(r, Found)
    /\ row' = Found
    /\ Keep /\ UNCHANGED made

\* The row vanished between createProcessing and find: one more try.
Retry(r) ==
    /\ pc[r] = "retry"
    /\ \/ MayCreate /\ Claim(r) /\ Goto(r, "execute")
       \/ ~MayCreate /\ Reply(r, [kind |-> "inProgress"]) /\ Keep /\ UNCHANGED <<row, made>>

Reclaim(r) ==
    /\ pc[r] = "reclaim"
    /\ \/ MayReclaim /\ Claim(r) /\ Goto(r, "execute")
       \/ ~MayReclaim /\ Reply(r, [kind |-> "inProgress"]) /\ Keep /\ UNCHANGED <<row, made>>

\* execute() takes effect; it returns, or fails afterwards.
Execute(r) ==
    /\ pc[r] = "execute"
    /\ made' = made \cup {r}
    /\ Goto(r, "complete") \/ Goto(r, "fail")
    /\ Keep /\ UNCHANGED row

\* execute() throws and has had no effect.
ExecuteFails(r) ==
    /\ pc[r] = "execute"
    /\ Goto(r, "fail")
    /\ Keep /\ UNCHANGED <<row, made>>

Complete(r) ==
    /\ pc[r] = "complete"
    /\ row' = Completed(r)
    /\ Reply(r, [kind |-> "body", of |-> r])
    /\ Keep /\ UNCHANGED made

Fail(r) ==
    /\ pc[r] = "fail"
    /\ row' = Failed
    /\ Reply(r, [kind |-> "error"])
    /\ Keep /\ UNCHANGED made

(***************************************************************************)
(* Errors of DynamoDB: the call throws, whether it took effect or not      *)
(***************************************************************************)

\* A claim may be written all the same: nobody executes under it.
CallThrows(r) ==
    /\ ~inMemory /\ pc[r] \in {"start", "find", "retry", "reclaim"}
    /\ Reply(r, [kind |-> "error"])
    /\ \/ Keep /\ UNCHANGED <<row, made>>
       \/ pc[r] \in {"start", "retry"} /\ MayCreate /\ Claim(r)
       \/ pc[r] = "reclaim" /\ MayReclaim /\ Claim(r)

\* complete() is inside the try: its error is stored as the command's failure.
CompleteThrows(r) ==
    /\ ~inMemory /\ pc[r] = "complete"
    /\ row' \in {row, Completed(r)}
    /\ Goto(r, "fail")
    /\ Keep /\ UNCHANGED made

FailThrows(r) ==
    /\ ~inMemory /\ pc[r] = "fail"
    /\ Reply(r, [kind |-> "error"])
    /\ Keep /\ UNCHANGED <<row, made>>

(***************************************************************************)
(* Crashes and time                                                        *)
(***************************************************************************)

\* A process that serves r stops, perhaps after its write; the row is in DynamoDB.
Crash(r) ==
    /\ ~inMemory /\ pc[r] \notin {"start", "done", "dead"}
    /\ \/ UNCHANGED row
       \/ pc[r] = "complete" /\ row' = Completed(r)
       \/ pc[r] = "fail" /\ row' = Failed
    /\ Goto(r, "dead")
    /\ Keep /\ UNCHANGED made

\* The only process stops, and the row with it.
Restart ==
    /\ inMemory
    /\ row' = None
    /\ pc' = [r \in Requests |-> IF pc[r] \in {"start", "done"} THEN pc[r] ELSE "dead"]
    /\ lapsed' = granted
    /\ UNCHANGED <<answer, made, granted, holder, outlived>>

\* processingExpiresAt passes
TimeOut ==
    /\ row # None /\ row.age = "fresh"
    /\ row' = [row EXCEPT !.age = "late"]
    /\ lapsed' = lapsed \cup {holder}
    /\ UNCHANGED <<pc, answer, made, granted, holder, outlived>>

\* expiresAt passes
TtlPasses ==
    /\ row # None /\ row.age = "late"
    /\ row' = [row EXCEPT !.age = "old"]
    /\ outlived' = TRUE
    /\ UNCHANGED <<pc, answer, made, granted, lapsed, holder>>

\* DynamoDB's TTL process deletes the item.
TtlDeletes ==
    /\ ~inMemory /\ row # None /\ row.age = "old"
    /\ row' = None
    /\ UNCHANGED <<pc, answer, made, granted, lapsed, holder, outlived>>

Request(r) ==
    \/ CreateProcessing(r) \/ Find(r) \/ Retry(r) \/ Reclaim(r)
    \/ Execute(r) \/ ExecuteFails(r) \/ Complete(r) \/ Fail(r)
    \/ CallThrows(r) \/ CompleteThrows(r) \/ FailThrows(r) \/ Crash(r)

Environment == Restart \/ TimeOut \/ TtlPasses \/ TtlDeletes

Next ==
    /\ UNCHANGED inMemory
    /\ (\E r \in Requests : Request(r)) \/ Environment

Spec == Init /\ [][Next]_vars

(***************************************************************************)
(* Properties                                                              *)
(***************************************************************************)

\* Of the requests that execute the command or have executed it, only one has
\* not lapsed: no second execution starts before the 30 seconds of the first
\* are over, whatever complete(), fail() and the TTL did to the row meanwhile.
ExclusiveWhileClaimed ==
    \A r, s \in (Executing \cup made) \ lapsed : r = s

\* A replayed body was produced by an execution of the same payload, as long
\* as no row has outlived its ttl: reclaimExpiredProcessing does not compare the
\* hash again.
ReplayMatchesPayload ==
    ~outlived => \A r \in Requests : answer[r] # None /\ answer[r].kind = "body" =>
        answer[r].of \in made /\ Payload[answer[r].of] = Payload[r]

\* Until then a failure is only replayed when another attempt with this payload
\* has failed, and was answered so unless its process died.
FailureIsOfSomeAttempt ==
    ~outlived => \A r \in Requests : answer[r] # None /\ answer[r].kind = "replayedFailure" =>
        \E s \in granted : s # r /\ Payload[s] = Payload[r] /\ (answer[s] = [kind |-> "error"] \/ pc[s] = "dead")

\* The service grants the right to execute as ExecutionRights says.
Rights == INSTANCE ExecutionRights WITH Requests <- Requests, granted <- granted, lapsed <- lapsed
GrantsRights == Rights!Spec
=============================================================================
