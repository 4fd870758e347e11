----------------------------- MODULE SqlService -----------------------------
(***************************************************************************)
(* The asynchronous SQL service: application threads submit, poll and      *)
(* release requests and stop the service (src/Data/Sql/Service.cpp) while  *)
(* one worker runs them on the SQLite connection it owns                   *)
(* (SqliteDriver.cpp, SqliteStatement.cpp).                                *)
(*                                                                         *)
(* submit, poll, release and each critical section of the worker hold      *)
(* mutex_ and are one step.  The driver runs without the mutex: it reads   *)
(* the stop flag and the clock on its way, so stop() and the deadline fall *)
(* between any two of its steps.                                           *)
(*                                                                         *)
(* A request is known by its id, its number of statements and the bytes    *)
(* reserved for it.  SQLite is represented by its transaction state and by *)
(* how many statements of each request are durable.                        *)
(***************************************************************************)
EXTENDS Integers, FiniteSets

CONSTANTS
  MaxRequestId,    \* the id at which next_id_ counts as exhausted
  MaxStatements,   \* 64 in copy_request
  MaxReserved,     \* the largest reserved_bytes of one request
  MaxOutstanding,  \* options_.max_outstanding
  MemoryBudget     \* options_.memory_budget

ASSUME SqlAssumption ==
  /\ MaxRequestId \in Nat \ {0}
  /\ MaxStatements \in Nat \ {0}
  /\ MaxReserved \in Nat \ {0}
  /\ MaxOutstanding \in Nat \ {0}
  /\ MemoryBudget \in Nat \ {0}

\* The options are refused unless the budget holds the largest single request.
decode_options == MaxOutstanding >= 1 /\ MemoryBudget >= MaxReserved

ASSUME OptionsAssumption == decode_options

VARIABLES
  nextId,         \* next_id_
  state,          \* of each request; "none" before, "Released" after requests_ holds it
  statements,     \* how many statements it has
  reserved,       \* request->reserved_bytes, 0 when requests_ does not hold it
  reservedBytes,  \* reserved_bytes_
  stopping,       \* stopping_
  stopper,        \* where the call of stop() is
  worker,         \* where the worker is
  job,            \* the request it runs, 0 for none
  position,       \* statements of the job executed
  expired,        \* the clock has passed deadline_
  txn,            \* SQLite: the request whose transaction is open, 0 in autocommit mode
  poisoned,       \* poisoned_
  result,         \* result.status of each request
  durable,        \* SQLite: how many statements of each request are durable
  told            \* whether a poll returned SE_STOPPED

requestVars == <<nextId, state, statements, reserved, reservedBytes>>
stopVars == <<stopping, stopper>>
driverVars == <<job, position, expired, txn, poisoned, result, durable>>
vars == <<requestVars, stopVars, worker, driverVars, told>>

Requests == 1..(MaxRequestId - 1)

States == {"none", "Queued", "Running", "Complete", "Delivered", "Released"}
Places == {"waiting", "picked", "begin", "run", "commit", "cleanup", "publish", "finished"}
Statuses == {"OK", "CANCELLED", "TIMEOUT", "ERROR", "OUTCOME_UNKNOWN", "INVALID_STATE"}

TypeOK ==
  /\ nextId \in 1..MaxRequestId
  /\ state \in [Requests -> States]
  /\ statements \in [Requests -> 0..MaxStatements]
  /\ reserved \in [Requests -> 0..MaxReserved]
  /\ reservedBytes \in 0..MemoryBudget
  /\ stopping \in BOOLEAN
  /\ stopper \in {"none", "joining", "returned"}
  /\ worker \in Places
  /\ job \in Requests \cup {0}
  /\ position \in 0..MaxStatements
  /\ expired \in BOOLEAN
  /\ txn \in Requests \cup {0}
  /\ poisoned \in BOOLEAN
  /\ result \in [Requests -> Statuses]
  /\ durable \in [Requests -> 0..MaxStatements]
  /\ told \in BOOLEAN

Init ==
  /\ nextId = 1
  /\ state = [r \in Requests |-> "none"]
  /\ statements = [r \in Requests |-> 0]
  /\ reserved = [r \in Requests |-> 0]
  /\ reservedBytes = 0
  /\ stopping = FALSE
  /\ stopper = "none"
  /\ worker = "waiting"
  /\ job = 0
  /\ position = 0
  /\ expired = FALSE
  /\ txn = 0
  /\ poisoned = FALSE
  /\ result = [r \in Requests |-> "OK"]
  /\ durable = [r \in Requests |-> 0]
  /\ told = FALSE
-----------------------------------------------------------------------------
(***************************************************************************)
(* Application threads.  A call that is refused changes nothing.           *)
(***************************************************************************)

Outstanding == {r \in Requests : state[r] \notin {"none", "Released"}}

\* What copying a request yields when it is not refused: at least one statement,
\* and a reservation for its own bytes and for the largest result.
copy_request == [statements : 1..MaxStatements, reserved : 1..MaxReserved]

Admissible(size) ==
  /\ ~stopping
  /\ Cardinality(Outstanding) < MaxOutstanding
  /\ size <= MemoryBudget - reservedBytes
  /\ nextId # MaxRequestId

\* submit of n statements that reserve size bytes.
submit(n, size) ==
  /\ Admissible(size)
  /\ nextId' = nextId + 1
  /\ state' = [state EXCEPT ![nextId] = "Queued"]
  /\ statements' = [statements EXCEPT ![nextId] = n]
  /\ reserved' = [reserved EXCEPT ![nextId] = size]
  /\ reservedBytes' = reservedBytes + size
  /\ UNCHANGED <<stopVars, worker, driverVars, told>>

\* Wrong variant of SubmitThrows: the bytes are reserved before emplace.
SubmitLeaks(size) ==
  /\ Admissible(size)
  /\ nextId' = nextId + 1
  /\ reservedBytes' = reservedBytes + size
  /\ UNCHANGED <<state, statements, reserved, stopVars, worker, driverVars, told>>

\* requests_.emplace throws: the id is used up, nothing else happened.
SubmitThrows(size) ==
  /\ Admissible(size)
  /\ nextId' = nextId + 1
  /\ UNCHANGED <<state, statements, reserved, reservedBytes, stopVars, worker,
                 driverVars, told>>

\* find_state: the request with the lowest id in state s.
IsFirst(r, s) == state[r] = s /\ \A q \in Requests : state[q] = s => r <= q

poll(r) ==
  /\ IsFirst(r, "Complete")
  /\ state' = [state EXCEPT ![r] = "Delivered"]
  /\ UNCHANGED <<nextId, statements, reserved, reservedBytes, stopVars, worker,
                 driverVars, told>>

PollStopped ==
  /\ worker = "finished"
  /\ \A r \in Requests : state[r] # "Complete"
  /\ told' = TRUE
  /\ UNCHANGED <<requestVars, stopVars, worker, driverVars>>

\* Wrong variant of release: a result nobody polled can be released.
ReleaseUnread(r) ==
  /\ state[r] \in {"Complete", "Delivered"}
  /\ reservedBytes' = reservedBytes - reserved[r]
  /\ reserved' = [reserved EXCEPT ![r] = 0]
  /\ state' = [state EXCEPT ![r] = "Released"]
  /\ UNCHANGED <<nextId, statements, stopVars, worker, driverVars, told>>

release(r) ==
  /\ state[r] = "Delivered"
  /\ reservedBytes' = reservedBytes - reserved[r]
  /\ reserved' = [reserved EXCEPT ![r] = 0]
  /\ state' = [state EXCEPT ![r] = "Released"]
  /\ UNCHANGED <<nextId, statements, stopVars, worker, driverVars, told>>

\* Wrong variant of stop: it joins before it raises the flag.
JoinFirst ==
  /\ stopper = "none"
  /\ stopper' = "joining"
  /\ UNCHANGED <<requestVars, stopping, worker, driverVars, told>>

\* stop raises the flag and interrupts SQLite, then joins the worker.
stop ==
  /\ stopper = "none"
  /\ stopping' = TRUE
  /\ stopper' = "joining"
  /\ UNCHANGED <<requestVars, worker, driverVars, told>>

Join ==
  /\ stopper = "joining"
  /\ worker = "finished"
  /\ stopper' = "returned"
  /\ UNCHANGED <<requestVars, stopping, worker, driverVars, told>>
-----------------------------------------------------------------------------
(***************************************************************************)
(* The worker, under the mutex.                                            *)
(***************************************************************************)

Take ==
  /\ worker = "waiting"
  /\ \E r \in Requests :
       /\ IsFirst(r, "Queued")
       /\ job' = r
       /\ state' = [state EXCEPT ![r] = "Running"]
  /\ worker' = "picked"
  /\ UNCHANGED <<nextId, statements, reserved, reservedBytes, stopVars, position,
                 expired, txn, poisoned, result, durable, told>>

\* Wrong variant of Finish: the worker leaves with requests queued.
FinishAtOnce ==
  /\ worker = "waiting"
  /\ stopping
  /\ worker' = "finished"
  /\ UNCHANGED <<requestVars, stopVars, driverVars, told>>

\* Even after stop, queued requests are taken and answered first.
Finish ==
  /\ worker = "waiting"
  /\ stopping
  /\ \A r \in Requests : state[r] # "Queued"
  /\ worker' = "finished"
  /\ UNCHANGED <<requestVars, stopVars, driverVars, told>>

Publish ==
  /\ worker = "publish"
  /\ state' = [state EXCEPT ![job] = "Complete"]
  /\ job' = 0
  /\ position' = 0 /\ expired' = FALSE  \* out of scope
  /\ worker' = "waiting"
  /\ UNCHANGED <<nextId, statements, reserved, reservedBytes, stopVars, txn,
                 poisoned, result, durable, told>>
-----------------------------------------------------------------------------
(***************************************************************************)
(* The worker outside the mutex: SqliteDriver::execute.                    *)
(***************************************************************************)

should_cancel == stopping \/ expired

\* What check() throws for a failed SQLite call, or any other local failure.
Failures ==
  {"ERROR"} \cup (IF stopping THEN {"CANCELLED"} ELSE IF expired THEN {"TIMEOUT"} ELSE {})

Fail(status) == result' = [result EXCEPT ![job] = status]

\* A failure that leaves execute's try block.
Throw(status) == Fail(status) /\ worker' = "cleanup"

\* run looks at the flag, execute at poisoned_, and then the deadline is set.
Prepare ==
  /\ worker = "picked"
  /\ \/ stopping /\ Fail("CANCELLED") /\ worker' = "publish" /\ UNCHANGED expired
     \/ ~stopping /\ poisoned /\ Fail("INVALID_STATE") /\ worker' = "publish"
        /\ UNCHANGED expired
     \/ ~stopping /\ ~poisoned /\ worker' = "begin" /\ expired' = FALSE
        /\ UNCHANGED result
  /\ UNCHANGED <<requestVars, stopVars, job, position, txn, poisoned, durable, told>>

Expire ==
  /\ worker \in {"begin", "run", "commit"}
  /\ ~expired
  /\ expired' = TRUE
  /\ UNCHANGED <<requestVars, stopVars, worker, job, position, txn, poisoned,
                 result, durable, told>>

Begin ==
  /\ worker = "begin"
  /\ \/ should_cancel /\ Throw("CANCELLED") /\ UNCHANGED <<txn, position>>
     \/ \E s \in Failures : Throw(s) /\ UNCHANGED <<txn, position>>
     \/ /\ ~should_cancel
        /\ txn' = job
        /\ position' = 0
        /\ worker' = "run"
        /\ UNCHANGED result
  /\ UNCHANGED <<requestVars, stopVars, job, expired, poisoned, durable, told>>

\* SQLite: a statement outside a transaction is durable when it ends.
Autocommitted == IF txn = 0 THEN durable[job] + 1 ELSE durable[job]

execute_statement ==
  /\ worker = "run"
  /\ position < statements[job]
  /\ ~should_cancel
  /\ position' = position + 1
  /\ durable' = [durable EXCEPT ![job] = Autocommitted]
  /\ UNCHANGED <<requestVars, stopVars, worker, job, expired, txn, poisoned, result, told>>

\* Cancelled before or in a statement, or the statement fails; some SQLite
\* errors roll the transaction back by themselves.
StatementFails ==
  /\ worker = "run"
  /\ position < statements[job]
  /\ \E s \in Failures : Throw(s)
  /\ txn' \in {txn, 0}
  /\ UNCHANGED <<requestVars, stopVars, job, position, expired, poisoned, durable, told>>

\* The last look at the flag and the clock before COMMIT.
LastCheck ==
  /\ worker = "run"
  /\ position = statements[job]
  /\ \/ ~should_cancel /\ worker' = "commit" /\ UNCHANGED result
     \/ should_cancel /\ \E s \in Failures \ {"ERROR"} : Throw(s)
  /\ UNCHANGED <<requestVars, stopVars, job, position, expired, txn, poisoned, durable, told>>

\* Wrong variant of CommitSucceeds: it looks at the stop flag again.
CommitRechecks ==
  /\ worker = "commit"
  /\ durable' = [durable EXCEPT ![job] = statements[job]]
  /\ txn' = 0
  /\ IF should_cancel THEN Throw("CANCELLED") ELSE worker' = "cleanup" /\ UNCHANGED result
  /\ UNCHANGED <<requestVars, stopVars, job, position, expired, poisoned, told>>

\* COMMIT succeeds; a stop that comes now is not looked at any more.
CommitSucceeds ==
  /\ worker = "commit"
  /\ durable' = [durable EXCEPT ![job] = statements[job]]
  /\ txn' = 0
  /\ worker' = "cleanup"
  /\ UNCHANGED <<requestVars, stopVars, job, position, expired, poisoned, result, told>>

\* COMMIT fails and the transaction is still open.
CommitFails ==
  /\ worker = "commit"
  /\ \E s \in Failures : Throw(s)
  /\ UNCHANGED <<requestVars, stopVars, job, position, expired, txn, poisoned, durable, told>>

\* COMMIT fails after SQLite left the transaction: the outcome is unknown.
CommitAmbiguous ==
  /\ worker = "commit"
  /\ Throw("OUTCOME_UNKNOWN")
  /\ txn' = 0
  /\ \E n \in {durable[job], statements[job]} : durable' = [durable EXCEPT ![job] = n]
  /\ UNCHANGED <<requestVars, stopVars, job, position, expired, poisoned, told>>

\* Wrong variant of Cleanup: the result of ROLLBACK is ignored.
CleanupUnchecked ==
  /\ worker = "cleanup"
  /\ worker' = "publish"
  /\ txn' \in {txn, 0}
  /\ UNCHANGED <<requestVars, stopVars, job, position, expired, poisoned, result,
                 durable, told>>

\* The rollback, if a transaction is still open.
Cleanup ==
  /\ worker = "cleanup"
  /\ worker' = "publish"
  /\ \/ txn = 0 /\ UNCHANGED <<txn, poisoned, result>>
     \/ txn # 0 /\ txn' = 0 /\ UNCHANGED <<poisoned, result>>
     \/ /\ txn # 0
        /\ txn' \in {txn, 0}
        /\ poisoned' = TRUE
        /\ Fail("OUTCOME_UNKNOWN")
  /\ UNCHANGED <<requestVars, stopVars, job, position, expired, durable, told>>
-----------------------------------------------------------------------------
Worker ==
  \/ Take \/ Finish \/ Publish
  \/ Prepare \/ Begin \/ execute_statement \/ StatementFails \/ LastCheck
  \/ CommitSucceeds \/ CommitFails \/ CommitAmbiguous \/ Cleanup

Application ==
  \/ \E request \in copy_request :
       submit(request.statements, request.reserved) \/ SubmitThrows(request.reserved)
  \/ \E r \in Requests : poll(r) \/ release(r)
  \/ PollStopped
  \/ stop \/ Join

Next == Worker \/ Expire \/ Application

Spec == Init /\ [][Next]_vars

\* The worker thread keeps running (SQLite calls return), and so does the
\* thread inside stop().
FairSpec == Spec /\ WF_vars(Worker) /\ WF_vars(Join)
-----------------------------------------------------------------------------
(***************************************************************************)
(* Properties.                                                             *)
(***************************************************************************)

\* sums[i] is what requests 1..i reserve together, a running total that never
\* decreases.
IsPartialSum(sums) ==
  /\ sums[0] = 0
  /\ \A r \in Requests : sums[r] = sums[r - 1] + reserved[r]
  /\ \A i, j \in 0..(MaxRequestId - 1) : i <= j => sums[i] <= sums[j]

\* The reservation counter equals the sum of what the outstanding requests
\* reserve, through every submit, failed submit and release, and stays within
\* the budget: submit's test memory_budget - reserved_bytes_ and release's
\* subtraction are unsigned and must never wrap.
ReservationsExact ==
  /\ Cardinality(Outstanding) <= MaxOutstanding
  /\ \E sums \in [0..(MaxRequestId - 1) -> 0..MemoryBudget] :
       IsPartialSum(sums) /\ reservedBytes = sums[MaxRequestId - 1]

Answered == {r \in Requests : state[r] \in {"Complete", "Delivered", "Released"}}

\* A batch is all or nothing at every moment, and its answer tells the truth:
\* OK means all of it is durable, and every failure except OUTCOME_UNKNOWN
\* that none of it is, however stop and the deadline race with COMMIT.
StatusTruth ==
  /\ \A r \in Requests : durable[r] \in {0, statements[r]}
  /\ \A r \in Answered :
       /\ result[r] = "OK" => durable[r] = statements[r]
       /\ result[r] \notin {"OK", "OUTCOME_UNKNOWN"} => durable[r] = 0

\* Statements and COMMIT run only inside the transaction of their own request,
\* and between requests no transaction is open unless the connection is
\* poisoned; nothing becomes durable on a poisoned connection.
TransactionsSeparate ==
  /\ worker \in {"run", "commit"} => txn = job
  /\ worker \in {"waiting", "picked", "begin", "publish", "finished"} /\ txn # 0 => poisoned
  /\ poisoned => worker \notin {"begin", "run", "commit", "cleanup"}

\* Requests run and are answered in the order of their ids.
InOrder ==
  \A q, r \in Requests :
    q < r =>
      /\ state[r] \in {"Running", "Complete", "Delivered", "Released"} =>
           state[q] \notin {"Queued", "Running"}
      /\ state[r] \in {"Delivered", "Released"} => state[q] # "Complete"

\* SE_STOPPED is only returned once every accepted request was delivered, and
\* stop() returns only once every accepted request has its answer.
StoppedLosesNothing ==
  /\ told => \A r \in Requests : state[r] \in {"none", "Delivered", "Released"}
  /\ stopper = "returned" => \A r \in Requests : state[r] \notin {"Queued", "Running"}

\* Once complete, neither the answer nor the effect of a request changes.
AnswerIsFinal ==
  [][\A r \in Answered : r \in Answered' /\ result'[r] = result[r] /\ durable'[r] = durable[r]]_vars

\* Whatever was accepted is answered, and a stop() that waits for the worker
\* returns: requests and the stopper are never left waiting for each other.
Waiting == stopper = "joining" \/ \E r \in Requests : state[r] \in {"Queued", "Running"}
NobodyWaitsForever == Waiting ~> ~Waiting

\* The service as SqlContract describes it.
PhaseOf(s) ==
  CASE s = "none" -> "free"
    [] s \in {"Queued", "Running"} -> "pending"
    [] s = "Complete" -> "answered"
    [] s = "Delivered" -> "read"
    [] OTHER -> "released"

EffectOf(r) ==
  IF durable[r] = 0 THEN "none" ELSE IF durable[r] = statements[r] THEN "all" ELSE "part"

PhaseMap == [r \in Requests |-> PhaseOf(state[r])]
EffectMap == [r \in Requests |-> EffectOf(r)]
StatusMap == [r \in Requests |-> IF r \in Answered THEN result[r] ELSE "none"]

C == INSTANCE SqlContract WITH
       phase <- PhaseMap, effect <- EffectMap, status <- StatusMap, ended <- told
Contract == C!Contract

\* A request is only reported cancelled if the service was being stopped; one
\* that ran out of time is reported as a timeout (docs/data-services.md).
CancelledOnlyByStop ==
  \A r \in Answered : result[r] = "CANCELLED" => stopping
=============================================================================
