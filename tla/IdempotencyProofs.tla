------------------------- MODULE IdempotencyProofs -------------------------
(***************************************************************************)
(* For any number of requests and either repository: the service grants    *)
(* the right to execute as ExecutionRights says, and no two requests whose *)
(* processing timeout has not passed execute the command; as long as no    *)
(* row has outlived its ttl, a replayed answer or failure comes from an    *)
(* attempt with the request's own payload.                                 *)
(***************************************************************************)
EXTENDS Idempotency, TLAPS

\* The labels before a request has the right to execute, and with it.
Waiting == {"start", "find", "retry", "reclaim"}
Inside == {"execute", "complete", "fail"}

\* A right that has not lapsed is that of the holder of a fresh row, and only
\* those that were granted it execute.
Claimed ==
    /\ \A r \in granted \ lapsed : row # None /\ row.age = "fresh" /\ holder = r
    /\ row # None /\ row.age # "never" => holder \in granted
    /\ Executing \cup made \subseteq granted
    /\ \A r \in Requests : pc[r] \in Waiting => r \notin granted

IInv == TypeOK /\ Claimed

\* Until a row has outlived its ttl: the row is there from the first claim on,
\* but for a restart, and stays with one payload; a request is answered once.
Kept ==
    /\ row # None => row.age \in {"fresh", "late"}
    /\ \A r \in Requests :
          /\ pc[r] # "retry"
          /\ pc[r] \in {"find", "reclaim"} \cup Inside => row # None
          /\ pc[r] \in {"reclaim"} \cup Inside => row.hash = Payload[r]
          /\ pc[r] = "complete" => r \in made
          /\ answer[r] # None => pc[r] = "done"

FailedBy(s) == s \in granted /\ (answer[s] = [kind |-> "error"] \/ pc[s] = "dead")

\* What a settled row says was done, or failed, with its payload.
Truthful ==
    /\ row # None /\ row.status = "COMPLETED" =>
           row.body \in made /\ Payload[row.body] = row.hash
    /\ row # None /\ row.status = "FAILED" =>
           \E s \in Requests : FailedBy(s) /\ Payload[s] = row.hash

\* What has been answered agrees.
Answered(r) ==
    answer[r] # None =>
        /\ answer[r].kind = "body" =>
               answer[r].of \in made /\ Payload[answer[r].of] = Payload[r]
        /\ answer[r].kind = "replayedFailure" =>
               \E s \in Requests : s # r /\ FailedBy(s) /\ Payload[s] = Payload[r]

Replayable == ~outlived => Kept /\ Truthful /\ \A r \in Requests : Answered(r)

(***************************************************************************)
(* Lemmas                                                                  *)
(***************************************************************************)

\* complete and fail leave the age of a row alone, and never make a row that
\* can age.
LEMMA SettledRow ==
    ASSUME TypeOK, NEW status, NEW body,
           <<status, body>> \in ({"COMPLETED"} \X Requests) \cup {<<"FAILED", None>>}
    PROVE  LET x == Settled(status, body)
           IN  /\ row # None => x \in Row /\ x.age = row.age
               /\ row = None => x = None \/ (x \in Row /\ x.age = "never")
<1>1. CASE row = None
  BY <1>1 DEF Settled, Row, Hashes, Ages
<1>2. CASE row # None
  <2>1. row \in Row
    BY <1>2 DEF TypeOK
  <2>. QED BY <1>2, <2>1 DEF Settled, Row, Hashes, Ages
<1>. QED BY <1>1, <1>2

\* The same of what one request writes.
LEMMA Written ==
    ASSUME TypeOK, NEW r \in Requests, NEW x \in {Completed(r), Failed}
    PROVE  /\ x \in Row \cup {None}
           /\ row # None => x # None /\ x.age = row.age
           /\ row = None => x = None \/ x.age = "never"
<1>. PICK status, body :
        /\ x = Settled(status, body)
        /\ <<status, body>> \in ({"COMPLETED"} \X Requests) \cup {<<"FAILED", None>>}
  BY DEF Completed, Failed
<1>. QED BY SettledRow, RowAssumption

LEMMA ProcessingRow == \A r \in Requests : Processing(r) \in Row /\ Processing(r).age = "fresh"
BY DEF Processing, Row, Hashes, Ages, Payloads

\* A row that createProcessing or reclaimExpiredProcessing may replace is
\* nobody's any more.
LEMMA FreeToClaim ==
    ASSUME TypeOK, Claimed, MayCreate \/ MayReclaim
    PROVE  granted \subseteq lapsed
<1>1. row = None \/ row.age # "fresh"
  BY DEF MayCreate, MayReclaim, Found, ProcessingExpired
<1>. QED BY <1>1 DEF Claimed

(***************************************************************************)
(* A claim, and every other step                                           *)
(***************************************************************************)

\* Writing a PROCESSING row is a Grant and keeps the invariant, whether the
\* request goes on to execute or its call throws.
LEMMA ClaimStep ==
    ASSUME IInv, inMemory' = inMemory, NEW r \in Requests, Claim(r), MayCreate \/ MayReclaim,
           pc[r] \in {"start", "retry", "reclaim"},
           NEW label \in {"execute", "done"}, pc' = [pc EXCEPT ![r] = label],
           answer' \in [Requests -> Answer \cup {None}]
    PROVE  IInv' /\ Rights!Grant(r)
<1>. USE DEF IInv
<1>1. granted \subseteq lapsed
  BY FreeToClaim
<1>2. r \notin granted
  BY DEF Claimed, Waiting
<1>3. row' \in Row /\ row'.age = "fresh" /\ row' # None
  BY ProcessingRow, RowAssumption DEF Claim
<1>4. TypeOK'
  BY <1>3 DEF TypeOK, Claim, Labels
<1>5. granted' \ lapsed' \subseteq {r} /\ holder' = r
  BY <1>1 DEF Claim
<1>6. Executing' \subseteq Executing \cup {r}
  BY DEF Executing, TypeOK
<1>7. \A s \in Requests : pc'[s] \in Waiting => s \notin granted'
  BY DEF Claimed, Claim, TypeOK, Waiting
<1>8. Claimed'
  <2>1. Executing' \cup made' \subseteq granted'
    BY <1>6 DEF Claimed, Claim
  <2>. QED BY <1>3, <1>5, <1>7, <2>1 DEF Claimed, Claim
<1>9. Rights!Grant(r)
  BY <1>1, <1>2 DEF Rights!Grant, Claim
<1>. QED BY <1>4, <1>8, <1>9

\* A step of a request that writes no claim: it may settle a row or drop one
\* that is old, and moves the request forward.
LEMMA KeepStep ==
    ASSUME IInv, inMemory' = inMemory, Keep, NEW r \in Requests, NEW label \in Labels,
           pc' = [pc EXCEPT ![r] = label],
           pc[r] \in Inside \/ label \notin Inside,
           pc[r] \in Waiting \/ label \notin Waiting,
           answer' \in [Requests -> Answer \cup {None}],
           made' \in {made, made \cup {r}},
           made' = made \/ pc[r] = "execute",
           row' \in Row \cup {None},
           \/ row # None => row' # None /\ row'.age = row.age
           \/ row # None /\ row.age = "old" /\ row' = None,
           row = None => row' = None \/ row'.age = "never"
    PROVE  IInv' /\ UNCHANGED <<granted, lapsed>>
<1>. USE DEF IInv, Keep
<1>1. TypeOK'
  BY DEF TypeOK
<1>2. Executing' \cup made' \subseteq granted'
  BY DEF Executing, TypeOK, Claimed, Inside
<1>3. \A s \in Requests : pc'[s] \in Waiting => s \notin granted'
  BY DEF Claimed, TypeOK
<1>4. \A s \in granted' \ lapsed' : row' # None /\ row'.age = "fresh" /\ holder' = s
  BY DEF Claimed
<1>5. row' # None /\ row'.age # "never" => holder' \in granted'
  BY DEF Claimed
<1>. QED BY <1>1, <1>2, <1>3, <1>4, <1>5 DEF Claimed

(***************************************************************************)
(* The invariant, and what every step does to the two sets of rights       *)
(***************************************************************************)

LEMMA InitIInv == Init => IInv
BY DEF Init, IInv, TypeOK, Claimed, Executing, Labels, Waiting

LEMMA RequestStep ==
    ASSUME IInv, inMemory' = inMemory, NEW r \in Requests, Request(r)
    PROVE  IInv' /\ (Rights!Grant(r) \/ UNCHANGED <<granted, lapsed>>)
<1>. USE DEF Goto, Reply, Waiting, Inside, Labels, Answer
<1>1. row \in Row \cup {None} /\ Found \in Row \cup {None} /\ pc \in [Requests -> Labels]
      /\ answer \in [Requests -> Answer \cup {None}]
  BY DEF IInv, TypeOK, Found
<1>2. CASE CreateProcessing(r)
  BY <1>1, <1>2, ClaimStep, KeepStep DEF CreateProcessing
<1>3. CASE Find(r)
  BY <1>1, <1>3, KeepStep DEF Find, HandleExisting, Found, Row, Ages, Hashes
<1>4. CASE Retry(r)
  BY <1>1, <1>4, ClaimStep, KeepStep DEF Retry
<1>5. CASE Reclaim(r)
  BY <1>1, <1>5, ClaimStep, KeepStep DEF Reclaim
<1>6. CASE Execute(r)
  BY <1>1, <1>6, KeepStep DEF Execute
<1>7. CASE ExecuteFails(r)
  BY <1>1, <1>7, KeepStep DEF ExecuteFails
<1>8. CASE Complete(r)
  BY <1>1, <1>8, KeepStep, Written DEF Complete, IInv
<1>9. CASE Fail(r)
  BY <1>1, <1>9, KeepStep, Written DEF Fail, IInv
<1>10. CASE CallThrows(r)
  BY <1>1, <1>10, ClaimStep, KeepStep DEF CallThrows
<1>11. CASE CompleteThrows(r)
  BY <1>1, <1>11, KeepStep, Written DEF CompleteThrows, IInv
<1>12. CASE FailThrows(r)
  BY <1>1, <1>12, KeepStep DEF FailThrows
<1>13. CASE Crash(r)
  BY <1>1, <1>13, KeepStep, Written DEF Crash, IInv
<1>. QED BY <1>2, <1>3, <1>4, <1>5, <1>6, <1>7, <1>8, <1>9, <1>10, <1>11, <1>12, <1>13
         DEF Request

LEMMA EnvironmentStep ==
    ASSUME IInv, inMemory' = inMemory, Environment
    PROVE  IInv' /\ (Rights!Lapse \/ UNCHANGED <<granted, lapsed>>)
<1>. USE DEF IInv
<1>1. CASE Restart
  BY <1>1 DEF Restart, TypeOK, Claimed, Executing, Waiting, Labels, Rights!Lapse
<1>2. CASE TimeOut
  BY <1>2, RowAssumption DEF TimeOut, TypeOK, Claimed, Executing, Row, Ages, Hashes, Rights!Lapse
<1>3. CASE TtlPasses
  BY <1>3, RowAssumption DEF TtlPasses, TypeOK, Claimed, Executing, Row, Ages, Hashes
<1>4. CASE TtlDeletes
  BY <1>4, RowAssumption DEF TtlDeletes, TypeOK, Claimed, Executing, Row, Ages, Hashes
<1>. QED BY <1>1, <1>2, <1>3, <1>4 DEF Environment

LEMMA NextIInv ==
    ASSUME IInv, [Next]_vars
    PROVE  IInv' /\ [Rights!Next]_<<granted, lapsed>>
<1>1. CASE UNCHANGED vars
  BY <1>1 DEF vars, IInv, TypeOK, Claimed, Executing
<1>2. CASE Next
  BY <1>2, RequestStep, EnvironmentStep DEF Next, Rights!Next
<1>. QED BY <1>1, <1>2

(***************************************************************************)
(* Replays                                                                 *)
(***************************************************************************)

\* A step of r: it moves r, and answers it if it is over.
Steps(r) ==
    /\ pc[r] \notin {"done", "dead"}
    /\ \E label \in Labels \ {"retry"} :
          /\ pc' = [pc EXCEPT ![r] = label]
          /\ \/ UNCHANGED answer
             \/ label = "done" /\ \E a \in Answer : answer' = [answer EXCEPT ![r] = a]
    /\ made \subseteq made' /\ granted \subseteq granted'

LEMMA ErrorIsAnswer == [kind |-> "error"] \in Answer
BY DEF Answer

LEMMA Answers ==
    /\ \A k \in {"mismatch", "inProgress", "replayedFailure", "error"} : [kind |-> k] \in Answer
    /\ \A s \in Requests : [kind |-> "body", of |-> s] \in Answer
BY DEF Answer

\* Whoever has failed stays so, and what the others were answered stays right.
LEMMA OthersStay ==
    ASSUME TypeOK, Kept, NEW r \in Requests, Steps(r)
    PROVE  /\ \A s \in Requests : FailedBy(s) => s # r /\ FailedBy(s)'
           /\ \A s \in Requests \ {r} : Answered(s) => Answered(s)'
<1>1. ASSUME NEW s \in Requests, FailedBy(s) PROVE s # r /\ FailedBy(s)'
  <2>1. pc[s] \in {"done", "dead"}
    BY <1>1, AnswerAssumption, ErrorIsAnswer DEF FailedBy, Kept
  <2>. QED BY <1>1, <2>1 DEF FailedBy, Steps, TypeOK
<1>2. ASSUME NEW s \in Requests \ {r}, Answered(s) PROVE Answered(s)'
  <2>1. answer'[s] = answer[s]
    BY DEF Steps, TypeOK
  <2>. QED BY <1>1, <1>2, <2>1 DEF Answered, Steps
<1>. QED BY <1>1, <1>2

\* What is left to show of a step of r that writes no claim.
LEMMA RequestKeeps ==
    ASSUME TypeOK, TypeOK', Kept, \A s \in Requests : Answered(s), NEW r \in Requests, Steps(r),
           row' # None => row'.age \in {"fresh", "late"},
           row # None => row' # None /\ row'.hash = row.hash,
           pc'[r] \in {"find", "reclaim"} \cup Inside => row' # None,
           pc'[r] \in {"reclaim"} \cup Inside => row'.hash = Payload[r],
           pc'[r] = "complete" => r \in made',
           Answered(r)'
    PROVE  Kept' /\ \A s \in Requests : Answered(s)'
<1>1. \A s \in Requests \ {r} : pc'[s] = pc[s] /\ answer'[s] = answer[s]
  BY DEF Steps, TypeOK
<1>2. pc'[r] # "retry" /\ (answer'[r] # None => pc'[r] = "done")
  BY DEF Steps, Kept, TypeOK
<1>3. Kept'
  BY <1>1, <1>2 DEF Kept, Steps
<1>4. \A s \in Requests : Answered(s)'
  BY OthersStay
<1>. QED BY <1>3, <1>4

\* A row that nobody writes says what it said.
LEMMA TruthStays ==
    ASSUME TypeOK, Kept, Truthful, NEW r \in Requests, Steps(r), row' = row
    PROVE  Truthful'
<1>1. \A s \in Requests : FailedBy(s) => FailedBy(s)'
  BY OthersStay
<1>. QED BY <1>1 DEF Truthful, Steps

\* The invariant, before the first ttl has passed.
Before == TypeOK /\ ~outlived /\ Kept /\ Truthful /\ \A s \in Requests : Answered(s)
After == Kept /\ Truthful /\ \A s \in Requests : Answered(s)

\* Until then the repository in memory drops no row.
LEMMA FoundIsRow == Before => Found = row
BY DEF Before, Kept, Found

\* What a request that is not over has been answered: nothing.
LEMMA NotAnswered ==
    ASSUME Before, NEW r \in Requests, pc[r] # "done"
    PROVE  answer[r] = None
BY DEF Before, Kept

\* A claim replaces no row, or one with the same payload.
LEMMA ClaimKeeps ==
    ASSUME Before, TypeOK', NEW r \in Requests, Steps(r), Claim(r),
           row = None \/ row.hash = Payload[r],
           pc'[r] \in {"execute", "done"},
           answer'[r] \in {None, [kind |-> "error"]}
    PROVE  After'
<1>1. row' = [status |-> "PROCESSING", hash |-> Payload[r], body |-> None, age |-> "fresh"]
  BY DEF Claim, Processing
<1>2. row' # None
  BY <1>1, ProcessingRow, RowAssumption DEF Claim
<1>3. Truthful' /\ Answered(r)'
  BY <1>1 DEF Truthful, Answered
<1>4. Kept' /\ \A s \in Requests : Answered(s)'
  BY <1>1, <1>2, <1>3, RequestKeeps DEF Before
<1>. QED BY <1>3, <1>4 DEF After

\* A step that leaves the row alone.
LEMMA QuietKeeps ==
    ASSUME Before, TypeOK', NEW r \in Requests, Steps(r), row' = row,
           pc'[r] \in {"find", "reclaim"} \cup Inside => row # None,
           pc'[r] \in {"reclaim"} \cup Inside => row.hash = Payload[r],
           pc'[r] = "complete" => r \in made',
           Answered(r)'
    PROVE  After'
<1>1. Kept' /\ \A s \in Requests : Answered(s)'
  <2>1. row' # None => row'.age \in {"fresh", "late"}
    BY DEF Before, Kept
  <2>. QED BY <2>1, RequestKeeps DEF Before
<1>2. Truthful'
  BY TruthStays DEF Before
<1>. QED BY <1>1, <1>2 DEF After

\* A row that complete or fail writes.
LEMMA SettlesKeeps ==
    ASSUME Before, TypeOK', NEW r \in Requests, Steps(r), pc[r] \in Inside,
           pc'[r] \in {"fail", "done", "dead"},
           \/ row' = Completed(r) /\ r \in made
           \/ row' = Failed /\ FailedBy(r)',
           Answered(r)'
    PROVE  After'
<1>1. row # None /\ row \in Row /\ row.hash = Payload[r]
  BY DEF Before, Kept, TypeOK
<1>2. row' # None /\ row'.hash = row.hash /\ row'.age = row.age
  <2>1. row' \in {Completed(r), Failed}
    OBVIOUS
  <2>2. row' # None /\ row'.age = row.age
    BY <1>1, <2>1, Written DEF Before
  <2>. QED BY <1>1, <2>1, <2>2 DEF Completed, Failed, Settled, Row
<1>3. Truthful'
  <2>1. CASE row' = Completed(r) /\ r \in made
    <3>1. row'.status = "COMPLETED" /\ row'.body = r
      BY <1>1, <2>1 DEF Completed, Settled, Row
    <3>. QED BY <1>1, <1>2, <2>1, <3>1 DEF Truthful, Steps
  <2>2. CASE row' = Failed /\ FailedBy(r)'
    <3>1. row'.status = "FAILED"
      BY <1>1, <2>2 DEF Failed, Settled, Row
    <3>. QED BY <1>1, <1>2, <2>2, <3>1 DEF Truthful
  <2>. QED BY <2>1, <2>2
<1>4. Kept' /\ \A s \in Requests : Answered(s)'
  <2>1. row'.age \in {"fresh", "late"}
    BY <1>1, <1>2 DEF Before, Kept
  <2>2. pc'[r] \in {"reclaim"} \cup Inside => row'.hash = Payload[r]
    BY <1>1, <1>2
  <2>. QED BY <1>2, <2>1, <2>2, RequestKeeps DEF Before
<1>. QED BY <1>3, <1>4 DEF After

\* Every step of a request.
LEMMA RequestReplays ==
    ASSUME IInv, Before, TypeOK', NEW r \in Requests, Request(r)
    PROVE  After'
<1>0. pc \in [Requests -> Labels] /\ answer \in [Requests -> Answer \cup {None}] /\ made \subseteq Requests
  BY DEF Before, TypeOK
<1>a. Found = row
  BY FoundIsRow
<1>b. pc[r] # "done" => answer[r] = None
  BY NotAnswered
<1>1. CASE CreateProcessing(r)
  <2>1. CASE MayCreate /\ Claim(r) /\ Goto(r, "execute")
    <3>1. Steps(r)
      BY <1>0, <1>1, <2>1 DEF CreateProcessing, Steps, Goto, Claim, Labels
    <3>2. row = None
      BY <1>a, <2>1 DEF MayCreate
    <3>3. answer'[r] = None /\ pc'[r] = "execute"
      BY <1>0, <1>1, <1>b, <2>1 DEF CreateProcessing, Goto
    <3>. QED BY <2>1, <3>1, <3>2, <3>3, ClaimKeeps
  <2>2. CASE ~MayCreate /\ Goto(r, "find") /\ Keep /\ UNCHANGED <<row, made>>
    <3>1. Steps(r)
      BY <1>0, <1>1, <2>2 DEF CreateProcessing, Steps, Goto, Keep, Labels
    <3>2. row # None
      BY <1>a, <2>2 DEF MayCreate
    <3>3. answer'[r] = None /\ pc'[r] = "find"
      BY <1>0, <1>1, <1>b, <2>2 DEF CreateProcessing, Goto
    <3>. QED BY <2>2, <3>1, <3>2, <3>3, QuietKeeps DEF Answered, Inside
  <2>. QED BY <1>1, <2>1, <2>2 DEF CreateProcessing
<1>2. CASE Find(r)
  <2>1. row # None /\ row' = row
    BY <1>2, <1>a DEF Find, Before, Kept
  <2>2. Steps(r)
    <3>1. row.status = "COMPLETED" => row.body \in Requests
      BY <2>1 DEF Before, TypeOK, Row
    <3>2. \/ Goto(r, "reclaim")
          \/ \E a \in Answer : Reply(r, a)
      BY <1>2, <1>a, <2>1, <3>1, Answers DEF Find, HandleExisting
    <3>3. CASE Goto(r, "reclaim")
      BY <1>2, <3>3 DEF Find, Steps, Goto, Keep, Labels
    <3>4. CASE \E a \in Answer : Reply(r, a)
      BY <1>2, <3>4 DEF Find, Steps, Reply, Keep, Labels
    <3>. QED BY <3>2, <3>3, <3>4
  <2>3. Answered(r)'
    <3>1. CASE row.status = "COMPLETED" /\ row.hash = Payload[r] /\ Reply(r, [kind |-> "body", of |-> row.body])
      BY <1>0, <1>2, <2>1, <3>1 DEF Answered, Reply, Before, Truthful, Find
    <3>2. CASE row.status = "FAILED" /\ row.hash = Payload[r] /\ Reply(r, [kind |-> "replayedFailure"])
      <4>1. PICK s \in Requests : FailedBy(s) /\ Payload[s] = row.hash
        BY <2>1, <3>2 DEF Before, Truthful
      <4>2. s # r /\ FailedBy(s)'
        BY <2>2, <4>1, OthersStay DEF Before
      <4>3. answer'[r] = [kind |-> "replayedFailure"]
        BY <1>0, <3>2 DEF Reply
      <4>. QED BY <3>2, <4>1, <4>2, <4>3 DEF Answered
    <3>3. CASE Goto(r, "reclaim")
      BY <1>2, <1>b, <3>3 DEF Answered, Goto, Find
    <3>4. CASE Reply(r, [kind |-> "mismatch"]) \/ Reply(r, [kind |-> "inProgress"])
      BY <1>0, <3>4 DEF Answered, Reply
    <3>. QED BY <1>2, <1>a, <2>1, <3>1, <3>2, <3>3, <3>4 DEF Find, HandleExisting
  <2>4. pc'[r] \in {"reclaim", "done"} /\ (pc'[r] = "reclaim" => row.hash = Payload[r])
    BY <1>0, <1>2, <1>a, <2>1 DEF Find, HandleExisting, Goto, Reply
  <2>. QED BY <2>1, <2>2, <2>3, <2>4, QuietKeeps DEF Inside
<1>3. CASE Retry(r)
  BY <1>3 DEF Retry, Before, Kept
<1>4. CASE Reclaim(r)
  <2>0. row # None /\ row.hash = Payload[r]
    BY <1>4 DEF Reclaim, Before, Kept
  <2>1. CASE MayReclaim /\ Claim(r) /\ Goto(r, "execute")
    <3>1. Steps(r)
      BY <1>0, <1>4, <2>1 DEF Reclaim, Steps, Goto, Claim, Labels
    <3>2. answer'[r] = None /\ pc'[r] = "execute"
      BY <1>0, <1>4, <1>b, <2>1 DEF Reclaim, Goto
    <3>. QED BY <2>0, <2>1, <3>1, <3>2, ClaimKeeps
  <2>2. CASE ~MayReclaim /\ Reply(r, [kind |-> "inProgress"]) /\ Keep /\ UNCHANGED <<row, made>>
    <3>1. Steps(r)
      BY <1>0, <1>4, <2>2, Answers DEF Reclaim, Steps, Reply, Keep, Labels
    <3>2. answer'[r] = [kind |-> "inProgress"] /\ pc'[r] = "done"
      BY <1>0, <2>2 DEF Reply
    <3>. QED BY <2>2, <3>1, <3>2, QuietKeeps DEF Answered, Inside
  <2>. QED BY <1>4, <2>1, <2>2 DEF Reclaim
<1>5. CASE Execute(r) \/ ExecuteFails(r)
  <2>0. row # None /\ row.hash = Payload[r] /\ pc[r] = "execute"
    BY <1>5 DEF Execute, ExecuteFails, Before, Kept, Inside
  <2>1. Steps(r)
    BY <1>0, <1>5 DEF Execute, ExecuteFails, Steps, Goto, Keep, Labels
  <2>2. answer'[r] = None /\ row' = row
    BY <1>5, <1>b, <2>0 DEF Execute, ExecuteFails, Goto
  <2>3. pc'[r] = "complete" => r \in made'
    BY <1>0, <1>5 DEF Execute, ExecuteFails, Goto
  <2>. QED BY <2>0, <2>1, <2>2, <2>3, QuietKeeps DEF Answered
<1>6. CASE Complete(r)
  <2>1. r \in made
    BY <1>6 DEF Complete, Before, Kept
  <2>2. Steps(r)
    BY <1>0, <1>6, <2>1, Answers DEF Complete, Reply, Steps, Keep, Labels
  <2>3. answer'[r] = [kind |-> "body", of |-> r] /\ pc'[r] = "done" /\ r \in made'
    BY <1>0, <1>6, <2>1 DEF Complete, Reply
  <2>. QED BY <1>6, <2>1, <2>2, <2>3, SettlesKeeps DEF Complete, Answered, Inside
<1>7. CASE Fail(r)
  <2>1. r \in granted'
    BY <1>0, <1>7 DEF Fail, Keep, IInv, Claimed, Executing
  <2>2. Steps(r)
    BY <1>0, <1>7, Answers DEF Fail, Reply, Steps, Keep, Labels
  <2>3. answer'[r] = [kind |-> "error"] /\ pc'[r] = "done"
    BY <1>0, <1>7 DEF Fail, Reply
  <2>. QED BY <1>7, <2>1, <2>2, <2>3, SettlesKeeps DEF Fail, Answered, Inside, FailedBy
<1>8. CASE CallThrows(r)
  <2>1. Steps(r)
    BY <1>0, <1>8, Answers DEF CallThrows, Reply, Steps, Keep, Claim, Labels
  <2>2. answer'[r] = [kind |-> "error"] /\ pc'[r] = "done"
    BY <1>0, <1>8 DEF CallThrows, Reply
  <2>3. CASE row' = row
    BY <2>1, <2>2, <2>3, QuietKeeps DEF Answered, Inside
  <2>4. CASE Claim(r) /\ (MayCreate \/ pc[r] = "reclaim")
    <3>1. row = None \/ row.hash = Payload[r]
      BY <1>a, <2>4 DEF MayCreate, Before, Kept
    <3>. QED BY <2>1, <2>2, <2>4, <3>1, ClaimKeeps
  <2>. QED BY <1>8, <2>3, <2>4 DEF CallThrows
<1>9. CASE CompleteThrows(r)
  <2>0. r \in made /\ row # None /\ row.hash = Payload[r]
    BY <1>9 DEF CompleteThrows, Before, Kept, Inside
  <2>1. Steps(r)
    BY <1>0, <1>9 DEF CompleteThrows, Goto, Steps, Keep, Labels
  <2>2. answer'[r] = None /\ pc'[r] = "fail"
    BY <1>0, <1>9, <1>b DEF CompleteThrows, Goto
  <2>3. CASE row' = row
    BY <2>0, <2>1, <2>2, <2>3, QuietKeeps DEF Answered
  <2>4. CASE row' = Completed(r)
    BY <1>9, <2>0, <2>1, <2>2, <2>4, SettlesKeeps DEF CompleteThrows, Answered, Inside
  <2>. QED BY <1>9, <2>3, <2>4 DEF CompleteThrows
<1>10. CASE FailThrows(r)
  <2>1. Steps(r)
    BY <1>0, <1>10, Answers DEF FailThrows, Reply, Steps, Keep, Labels
  <2>2. answer'[r] = [kind |-> "error"] /\ pc'[r] = "done" /\ row' = row
    BY <1>0, <1>10 DEF FailThrows, Reply
  <2>. QED BY <2>1, <2>2, QuietKeeps DEF Answered, Inside
<1>11. CASE Crash(r)
  <2>1. Steps(r)
    BY <1>0, <1>11 DEF Crash, Goto, Steps, Keep, Labels
  <2>2. answer'[r] = None /\ pc'[r] = "dead"
    BY <1>0, <1>11, <1>b DEF Crash, Goto
  <2>3. CASE row' = row
    BY <2>1, <2>2, <2>3, QuietKeeps DEF Answered, Inside
  <2>4. CASE pc[r] = "complete" /\ row' = Completed(r)
    <3>1. r \in made
      BY <2>4 DEF Before, Kept
    <3>. QED BY <2>1, <2>2, <2>4, <3>1, SettlesKeeps DEF Answered, Inside
  <2>5. CASE pc[r] = "fail" /\ row' = Failed
    <3>1. r \in granted'
      BY <1>11, <2>5 DEF Crash, Keep, IInv, Claimed, Executing
    <3>. QED BY <2>1, <2>2, <2>5, <3>1, SettlesKeeps DEF Answered, Inside, FailedBy
  <2>. QED BY <1>11, <2>3, <2>4, <2>5 DEF Crash
<1>. QED BY <1>1, <1>2, <1>3, <1>4, <1>5, <1>6, <1>7, <1>8, <1>9, <1>10, <1>11 DEF Request

\* What time and restarts do.
LEMMA EnvironmentReplays ==
    ASSUME Before, TypeOK', Environment, ~outlived'
    PROVE  After'
<1>. USE DEF Before
<1>1. CASE Restart
  <2>1. \A s \in Requests : FailedBy(s) => FailedBy(s)'
    BY <1>1 DEF FailedBy, Restart, TypeOK
  <2>2. \A s \in Requests : Answered(s)'
    BY <1>1, <2>1 DEF Answered, Restart
  <2>3. Kept'
    BY <1>1 DEF Kept, Restart, Inside, TypeOK
  <2>. QED BY <1>1, <2>2, <2>3 DEF After, Truthful, Restart
<1>2. CASE TimeOut
  <2>1. row \in Row /\ row' \in Row /\ row # None /\ row' # None
    BY <1>2, RowAssumption DEF TimeOut, TypeOK, Row, Ages
  <2>2. row'.status = row.status /\ row'.hash = row.hash /\ row'.body = row.body /\ row'.age = "late"
    BY <1>2, <2>1 DEF TimeOut, Row
  <2>3. \A s \in Requests : (FailedBy(s) => FailedBy(s)') /\ Answered(s)'
    BY <1>2 DEF TimeOut, FailedBy, Answered
  <2>4. Kept'
    BY <1>2, <2>1, <2>2 DEF Kept, TimeOut
  <2>5. Truthful'
    BY <1>2, <2>1, <2>2, <2>3 DEF Truthful, TimeOut
  <2>. QED BY <2>3, <2>4, <2>5 DEF After
<1>3. CASE TtlPasses
  BY <1>3 DEF TtlPasses
<1>4. CASE TtlDeletes
  BY <1>4 DEF TtlDeletes, Kept
<1>. QED BY <1>1, <1>2, <1>3, <1>4 DEF Environment

(***************************************************************************)
(* Theorems                                                                *)
(***************************************************************************)

LEMMA Invariance == Spec => []IInv
<1>1. IInv /\ [Next]_vars => IInv'
  BY NextIInv
<1>. QED BY <1>1, InitIInv, PTL DEF Spec

\* Every variable keeps its type.
THEOREM TypeCorrect == Spec => []TypeOK
<1>1. IInv => TypeOK
  BY DEF IInv
<1>. QED BY <1>1, Invariance, PTL

\* Two requests whose processing timeout has not passed never both execute
\* the command, or have executed it.
THEOREM Exclusive == Spec => []ExclusiveWhileClaimed
<1>1. IInv => ExclusiveWhileClaimed
  BY DEF IInv, Claimed, ExclusiveWhileClaimed
<1>. QED BY <1>1, Invariance, PTL

\* The service implements ExecutionRights.
THEOREM ImplementsRights == Spec => GrantsRights
<1>1. Init => Rights!Init
  BY DEF Init, Rights!Init
<1>2. IInv /\ [Next]_vars => [Rights!Next]_<<granted, lapsed>>
  BY NextIInv
<1>. QED BY <1>1, <1>2, Invariance, PTL DEF Spec, GrantsRights, Rights!Spec

LEMMA Replaying == Spec => []Replayable
<1>1. Init => Replayable
  BY RowAssumption, AnswerAssumption DEF Init, Replayable, Kept, Truthful, Answered, Inside
<1>2. IInv /\ IInv' /\ Replayable /\ [Next]_vars => Replayable'
  <2> SUFFICES ASSUME IInv, IInv', Replayable, [Next]_vars, ~outlived' PROVE After'
    BY DEF Replayable, After
  <2>1. ~outlived
    BY DEF Next, vars, Request, Environment, CreateProcessing, Find, Retry, Reclaim, Execute, ExecuteFails,
           Complete, Fail, CallThrows, CompleteThrows, FailThrows, Crash, Restart, TimeOut, TtlPasses,
           TtlDeletes, Keep, Claim
  <2>2. Before
    BY <2>1 DEF Before, IInv, Replayable
  <2>3. CASE UNCHANGED vars
    BY <2>2, <2>3 DEF vars, Before, After, Kept, Truthful, Answered, FailedBy
  <2>4. CASE Next
    BY <2>2, <2>4, RequestReplays, EnvironmentReplays DEF Next, IInv
  <2>. QED BY <2>3, <2>4
<1>. QED BY <1>1, <1>2, Invariance, PTL DEF Spec

\* A replay is what an execution of the same payload has produced.
THEOREM ReplaysMatch == Spec => []ReplayMatchesPayload
<1>1. Replayable => ReplayMatchesPayload
  BY DEF Replayable, Answered, ReplayMatchesPayload
<1>. QED BY <1>1, Replaying, PTL

\* A replayed failure is that of another attempt with the same payload.
THEOREM FailuresReal == Spec => []FailureIsOfSomeAttempt
<1>1. Replayable => FailureIsOfSomeAttempt
  BY DEF Replayable, Answered, FailedBy, FailureIsOfSomeAttempt
<1>. QED BY <1>1, Replaying, PTL
=============================================================================
