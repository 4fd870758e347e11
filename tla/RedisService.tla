---------------------------- MODULE RedisService ----------------------------
(***************************************************************************)
(* The asynchronous Redis service: application threads submit and poll     *)
(* requests and stop the service (src/Data/Redis/Service.cpp) while one    *)
(* worker runs them on one connection (Connection.cpp).                    *)
(*                                                                         *)
(* submit, poll and the worker's critical sections hold mutex_.  Outside   *)
(* it the worker alternates between its own code and drain(), where the    *)
(* io_context runs the handlers of the timer, of the socket and of cancel; *)
(* each handler is a step, in any order.                                   *)
(*                                                                         *)
(* SET and DELETE are both writes.  A request is known by its id, its kind *)
(* and its size, a reply by the command it answers and how execute judges  *)
(* it.  Redis and the network are external: a command that was sent may be *)
(* carried out even after the connection is closed.                        *)
(***************************************************************************)
EXTENDS Integers, Sequences, FiniteSets

CONSTANTS
  MaxRequestId,    \* the largest id; next_id_ wraps to 0 after it
  MaxSize,         \* the largest key_size + value_size
  MaxValueBytes,   \* options_.max_value_bytes, reserved by a GET
  MaxInflight,     \* options_.max_inflight_requests
  MaxQueueBytes,   \* options_.max_queue_bytes
  MaxResultBytes,  \* options_.max_result_bytes
  HasPassword      \* whether options_.password is set

\* The options are refused unless one request of any kind fits the limits.
decode ==
  /\ MaxInflight >= 1 /\ MaxValueBytes >= 1
  /\ MaxQueueBytes >= MaxSize
  /\ MaxResultBytes >= MaxValueBytes

ASSUME RedisAssumption ==
  /\ MaxRequestId \in Nat \ {0}
  /\ MaxSize \in Nat \ {0}
  /\ MaxValueBytes \in Nat \ {0}
  /\ MaxInflight \in Nat \ {0}
  /\ MaxQueueBytes \in Nat \ {0}
  /\ MaxResultBytes \in Nat \ {0}
  /\ HasPassword \in BOOLEAN
  /\ decode

VARIABLES
  nextId,       \* next_id_
  operation,    \* GET or WRITE, "none" before the request exists
  held,         \* bytes of key and value a request still holds
  reservation,  \* result_reservation, 0 once the request was polled
  queueBytes,   \* queue_bytes_
  resultBytes,  \* reserved_result_bytes_
  inflight,     \* inflight_
  pending,      \* pending_
  ready,        \* ready_
  delivered,    \* how many completions polls have handed out
  told,         \* whether a poll returned SE_STOPPED
  stopping,     \* stopping_
  stopped,      \* stopped_
  stopper,      \* where the call of stop() is
  worker,       \* where the worker is
  running,      \* the request it runs, 0 for none
  result,       \* completion.status of each request
  cancelled,    \* cancelled_
  posted,       \* whether the handler of cancel() is queued in io_
  socket,       \* whether socket_ is open
  io,           \* what the socket is doing for the current operation
  finished,     \* finished_
  status,       \* status_
  reply,        \* reply_
  wire,         \* commands sent on the open connection, not carried out
  replies,      \* replies on the open connection, not read
  late,         \* writes sent on closed connections, not carried out
  applied       \* how often Redis carried out each write

tableVars == <<nextId, operation, held, reservation, queueBytes, resultBytes, inflight>>
listVars == <<pending, ready, delivered, told>>
stopVars == <<stopping, stopped, stopper>>
jobVars == <<worker, running, result>>
socketVars == <<socket, wire, replies, late>>
opVars == <<io, finished, status, reply>>
vars == <<tableVars, listVars, stopVars, jobVars, cancelled, posted,
          socketVars, opVars, applied>>

Requests == 1..MaxRequestId
AUTH == 0  \* the command that belongs to no request

Places == {"waiting", "failing", "starting", "connecting", "auth", "authenticating",
           "formatting", "command", "commanding", "publishing", "finished"}
Statuses == {"OK", "STOPPED", "TIMEOUT", "IO_ERROR", "INTERNAL_ERROR", "RESULT_TOO_LARGE",
             "OUTCOME_UNKNOWN"}
Replies == [to : Requests \cup {AUTH}, kind : {"ok", "error", "odd", "large"}]
NoReply == [to |-> AUTH, kind |-> "error"]

TypeOK ==
  /\ nextId \in 0..MaxRequestId
  /\ operation \in [Requests -> {"none", "GET", "WRITE"}]
  /\ held \in [Requests -> 0..MaxSize]
  /\ reservation \in [Requests -> {0, MaxValueBytes}]
  /\ queueBytes \in 0..MaxQueueBytes
  /\ resultBytes \in 0..MaxResultBytes
  /\ inflight \in 0..MaxInflight
  /\ pending \in Seq(Requests)
  /\ ready \in Seq(Requests)
  /\ delivered \in 0..MaxRequestId
  /\ told \in BOOLEAN
  /\ stopping \in BOOLEAN
  /\ stopped \in BOOLEAN
  /\ stopper \in {"none", "flagged", "cancelling", "joining", "returned"}
  /\ worker \in Places
  /\ running \in Requests \cup {0}
  /\ result \in [Requests -> Statuses]
  /\ cancelled \in BOOLEAN
  /\ posted \in BOOLEAN
  /\ socket \in {"closed", "open"}
  /\ io \in {"idle", "writing", "sent", "reading"}
  /\ finished \in BOOLEAN
  /\ status \in Statuses
  /\ reply \in Replies
  /\ wire \in Seq(Requests \cup {AUTH})
  /\ replies \in Seq(Replies)
  /\ late \in SUBSET Requests
  /\ applied \in [Requests -> Nat]

Init ==
  /\ nextId = 1
  /\ operation = [r \in Requests |-> "none"]
  /\ held = [r \in Requests |-> 0]
  /\ reservation = [r \in Requests |-> 0]
  /\ queueBytes = 0 /\ resultBytes = 0 /\ inflight = 0
  /\ pending = <<>> /\ ready = <<>> /\ delivered = 0 /\ told = FALSE
  /\ stopping = FALSE /\ stopped = FALSE /\ stopper = "none"
  /\ worker = "waiting" /\ running = 0
  /\ result = [r \in Requests |-> "OK"]
  /\ cancelled = FALSE /\ posted = FALSE
  /\ socket = "closed" /\ wire = <<>> /\ replies = <<>> /\ late = {}
  /\ io = "idle" /\ finished = TRUE /\ status = "OK" /\ reply = NoReply
  /\ applied = [r \in Requests |-> 0]
-----------------------------------------------------------------------------
(***************************************************************************)
(* Application threads.  A call that is refused, a poll that times out or  *)
(* finds its buffer too small, and a submit whose push_back throws change  *)
(* nothing.                                                                *)
(***************************************************************************)

\* The worker holds the mutex while it fails what is pending.
MutexFree == worker # "failing"

ReservationFor(kind) == IF kind = "GET" THEN MaxValueBytes ELSE 0

Admissible(kind, size) ==
  /\ ~stopping
  /\ inflight < MaxInflight
  /\ size <= MaxQueueBytes - queueBytes
  /\ ReservationFor(kind) <= MaxResultBytes - resultBytes
  /\ nextId # 0

submit(kind, size) ==
  /\ MutexFree
  /\ Admissible(kind, size)
  /\ operation' = [operation EXCEPT ![nextId] = kind]
  /\ held' = [held EXCEPT ![nextId] = size]
  /\ reservation' = [reservation EXCEPT ![nextId] = ReservationFor(kind)]
  /\ pending' = Append(pending, nextId)
  /\ nextId' = (nextId + 1) % (MaxRequestId + 1)
  /\ queueBytes' = queueBytes + size
  /\ resultBytes' = resultBytes + ReservationFor(kind)
  /\ inflight' = inflight + 1
  /\ UNCHANGED <<ready, delivered, told, stopVars, jobVars, cancelled, posted,
                 socketVars, opVars, applied>>

\* Wrong variant of poll: the reserved result bytes are not given back.
PollKeepsReservation ==
  /\ MutexFree
  /\ ready # <<>>
  /\ ready' = Tail(ready)
  /\ reservation' = [reservation EXCEPT ![Head(ready)] = 0]
  /\ inflight' = inflight - 1
  /\ delivered' = delivered + 1
  /\ UNCHANGED <<nextId, operation, held, queueBytes, resultBytes, pending, told, stopVars,
                 jobVars, cancelled, posted, socketVars, opVars, applied>>

poll ==
  /\ MutexFree
  /\ ready # <<>>
  /\ ready' = Tail(ready)
  /\ resultBytes' = resultBytes - reservation[Head(ready)]
  /\ reservation' = [reservation EXCEPT ![Head(ready)] = 0]
  /\ inflight' = inflight - 1
  /\ delivered' = delivered + 1
  /\ UNCHANGED <<nextId, operation, held, queueBytes, pending, told, stopVars, jobVars,
                 cancelled, posted, socketVars, opVars, applied>>

PollStopped ==
  /\ MutexFree
  /\ ready = <<>> /\ stopped
  /\ told' = TRUE
  /\ UNCHANGED <<tableVars, pending, ready, delivered, stopVars, jobVars,
                 cancelled, posted, socketVars, opVars, applied>>

\* stop raises the flag under the mutex ...
stop ==
  /\ MutexFree
  /\ stopper = "none"
  /\ stopping' = TRUE
  /\ stopper' = "flagged"
  /\ UNCHANGED <<tableVars, listVars, stopped, jobVars, cancelled, posted,
                 socketVars, opVars, applied>>

\* ... then, without it, Connection::cancel raises its own ...
CancelStores ==
  /\ stopper = "flagged"
  /\ cancelled' = TRUE
  /\ stopper' = "cancelling"
  /\ UNCHANGED <<tableVars, listVars, stopping, stopped, jobVars, posted,
                 socketVars, opVars, applied>>

\* ... and posts a handler, which may fail for want of memory.
CancelPosts ==
  /\ stopper = "cancelling"
  /\ posted' \in BOOLEAN
  /\ stopper' = "joining"
  /\ UNCHANGED <<tableVars, listVars, stopping, stopped, jobVars, cancelled,
                 socketVars, opVars, applied>>

Join ==
  /\ stopper = "joining"
  /\ worker = "finished"
  /\ stopper' = "returned"
  /\ UNCHANGED <<tableVars, listVars, stopping, stopped, jobVars, cancelled, posted,
                 socketVars, opVars, applied>>
-----------------------------------------------------------------------------
(***************************************************************************)
(* The worker, under the mutex.                                            *)
(***************************************************************************)

\* Wrong variant of Take: the newest request is run first.
TakeLast ==
  /\ worker = "waiting"
  /\ ~stopping
  /\ pending # <<>>
  /\ running' = pending[Len(pending)]
  /\ pending' = SubSeq(pending, 1, Len(pending) - 1)
  /\ worker' = "starting"
  /\ UNCHANGED <<tableVars, ready, delivered, told, stopVars, result, cancelled,
                 posted, socketVars, opVars, applied>>

Take ==
  /\ worker = "waiting"
  /\ ~stopping
  /\ pending # <<>>
  /\ running' = Head(pending)
  /\ pending' = Tail(pending)
  /\ worker' = "starting"
  /\ UNCHANGED <<tableVars, ready, delivered, told, stopVars, result, cancelled,
                 posted, socketVars, opVars, applied>>

\* After stop the worker keeps the mutex until everything pending has failed.
BeginFailing ==
  /\ worker = "waiting"
  /\ stopping
  /\ worker' = "failing"
  /\ UNCHANGED <<tableVars, listVars, stopVars, running, result, cancelled,
                 posted, socketVars, opVars, applied>>

\* The request at hand gives its key and value back and becomes ready.
Complete(r) ==
  /\ queueBytes' = queueBytes - held[r]
  /\ held' = [held EXCEPT ![r] = 0]
  /\ ready' = Append(ready, r)

FailPending ==
  /\ worker = "failing"
  /\ pending # <<>>
  /\ result' = [result EXCEPT ![Head(pending)] = "STOPPED"]
  /\ Complete(Head(pending))
  /\ pending' = Tail(pending)
  /\ UNCHANGED <<nextId, operation, reservation, resultBytes, inflight, delivered, told,
                 stopVars, worker, running, cancelled, posted, socketVars, opVars,
                 applied>>

EndFailing ==
  /\ worker = "failing"
  /\ pending = <<>>
  /\ stopped' = TRUE
  /\ worker' = "finished"
  /\ UNCHANGED <<tableVars, listVars, stopping, stopper, running, result,
                 cancelled, posted, socketVars, opVars, applied>>

Publish ==
  /\ worker = "publishing"
  /\ Complete(running)
  /\ running' = 0
  /\ worker' = "waiting"
  /\ UNCHANGED <<nextId, operation, reservation, resultBytes, inflight, pending, delivered,
                 told, stopVars, result, cancelled, posted, socketVars, opVars,
                 applied>>
-----------------------------------------------------------------------------
(***************************************************************************)
(* The connection, outside the mutex: Connection::execute.                 *)
(***************************************************************************)

requestUnchanged == UNCHANGED <<tableVars, listVars, stopVars, cancelled, applied>>

Answer(s) ==
  /\ result' = [result EXCEPT ![running] = s]
  /\ worker' = "publishing"
  /\ UNCHANGED running

GoTo(place) == worker' = place /\ UNCHANGED <<running, result>>

\* Whether command c changes the database.
Writes(c) == c # AUTH /\ operation[c] = "WRITE"

\* Closing the socket drops what was not read; what was sent is out of reach.
close ==
  /\ socket' = "closed"
  /\ wire' = <<>>
  /\ replies' = <<>>
  /\ late' = late \cup {wire[i] : i \in {j \in DOMAIN wire : Writes(wire[j])}}

\* Wrong variant of finish: a failed operation leaves the socket open.
FinishKeepsSocket(s) ==
  /\ ~finished
  /\ finished' = TRUE
  /\ status' = s
  /\ io' = "idle"
  /\ UNCHANGED socketVars

\* finish(s), if the operation has not finished already.
finish(s) ==
  /\ ~finished
  /\ finished' = TRUE
  /\ status' = s
  /\ io' = "idle"
  /\ IF s = "OK" THEN UNCHANGED socketVars ELSE close

begin(activity) == finished' = FALSE /\ status' = "OK" /\ io' = activity

\* execute looks at the cancel flag, and connects if it must.
Start ==
  /\ worker = "starting"
  /\ \/ cancelled /\ Answer("STOPPED") /\ UNCHANGED opVars
     \/ ~cancelled /\ socket = "open" /\ GoTo("formatting") /\ UNCHANGED opVars
     \/ ~cancelled /\ socket = "closed" /\ GoTo("connecting") /\ begin("idle")
        /\ UNCHANGED reply
  /\ requestUnchanged /\ UNCHANGED <<posted, socketVars>>

\* status_ and reply_ have been judged; neither is read again before begin() and
\* command() set them anew.
Judged == status' = "OK" /\ reply' = NoReply /\ UNCHANGED <<io, finished>>

\* drain() returns once the operation has finished and no handler is queued.
Drained == finished /\ ~posted

Connected ==
  /\ worker = "connecting"
  /\ ~finished
  /\ finished' = TRUE /\ status' = "OK"
  /\ socket' = "open"
  /\ requestUnchanged /\ UNCHANGED <<jobVars, posted, wire, replies, late, io, reply>>

ConnectFails ==
  /\ worker = "connecting"
  /\ finish("IO_ERROR")
  /\ requestUnchanged /\ UNCHANGED <<jobVars, posted, reply>>

ConnectReturns ==
  /\ worker = "connecting"
  /\ Drained
  /\ \/ cancelled /\ close /\ Answer("STOPPED")
     \/ ~cancelled /\ status # "OK" /\ Answer(status) /\ UNCHANGED socketVars
     \/ ~cancelled /\ status = "OK" /\ UNCHANGED socketVars
        /\ GoTo(IF HasPassword THEN "auth" ELSE "formatting")
  /\ Judged
  /\ requestUnchanged /\ UNCHANGED posted

\* command(): the flag once more, then the command is encoded and the write begins.
\* A failure to encode it is local and nothing is sent.
Authenticate ==
  /\ worker = "auth"
  /\ \/ cancelled /\ close /\ Answer("STOPPED") /\ UNCHANGED opVars
     \/ ~cancelled /\ close /\ Answer("INTERNAL_ERROR") /\ UNCHANGED opVars
     \/ ~cancelled /\ GoTo("authenticating") /\ begin("writing") /\ reply' = NoReply
        /\ UNCHANGED socketVars
  /\ requestUnchanged /\ UNCHANGED posted

AuthReturns ==
  /\ worker = "authenticating"
  /\ Drained
  /\ \/ status # "OK" /\ close /\ Answer(status)
     \/ status = "OK" /\ reply.kind # "ok" /\ close /\ Answer("IO_ERROR")
     \/ status = "OK" /\ reply.kind = "ok" /\ GoTo("formatting") /\ UNCHANGED socketVars
  /\ Judged
  /\ requestUnchanged /\ UNCHANGED posted

\* The last look at the flag at which a write can still be refused for certain.
Format ==
  /\ worker = "formatting"
  /\ \/ cancelled /\ Answer("STOPPED")
     \/ ~cancelled /\ GoTo("command")
  /\ requestUnchanged /\ UNCHANGED <<posted, socketVars, opVars>>

\* Wrong variant of OutcomeOf: the plain status, of writes too.
OutcomeAsIs(s) == s

\* What a failure of the command is reported as.
OutcomeOf(s) == IF Writes(running) THEN "OUTCOME_UNKNOWN" ELSE s

Command ==
  /\ worker = "command"
  /\ \/ cancelled /\ Answer(OutcomeOf("STOPPED")) /\ UNCHANGED opVars
     \/ ~cancelled /\ Answer(OutcomeOf("INTERNAL_ERROR")) /\ UNCHANGED opVars
     \/ ~cancelled /\ GoTo("commanding") /\ begin("writing") /\ reply' = NoReply
  /\ requestUnchanged /\ UNCHANGED <<posted, socketVars>>

\* Wrong variant of CommandReturns: a reply of the wrong type is an I/O error.
CommandReturnsOddly ==
  /\ worker = "commanding"
  /\ Drained
  /\ \/ status # "OK" /\ Answer(OutcomeOf(status)) /\ UNCHANGED socketVars
     \/ status = "OK" /\ reply.kind \in {"error", "odd"} /\ Answer("IO_ERROR")
        /\ UNCHANGED socketVars
     \/ status = "OK" /\ reply.kind = "large" /\ Answer("RESULT_TOO_LARGE")
        /\ UNCHANGED socketVars
     \/ status = "OK" /\ reply.kind = "ok" /\ Answer("OK") /\ UNCHANGED socketVars
  /\ Judged
  /\ requestUnchanged /\ UNCHANGED posted

\* How execute judges the reply of its command.
CommandReturns ==
  /\ worker = "commanding"
  /\ Drained
  /\ \/ status # "OK" /\ Answer(OutcomeOf(status)) /\ UNCHANGED socketVars
     \/ status = "OK" /\ reply.kind = "error" /\ Answer("IO_ERROR") /\ UNCHANGED socketVars
     \/ status = "OK" /\ reply.kind = "odd" /\ close /\ Answer(OutcomeOf("IO_ERROR"))
     \/ status = "OK" /\ reply.kind = "large" /\ Answer("RESULT_TOO_LARGE")
        /\ UNCHANGED socketVars
     \/ status = "OK" /\ reply.kind = "ok" /\ Answer("OK") /\ UNCHANGED socketVars
  /\ Judged
  /\ requestUnchanged /\ UNCHANGED posted

\* An exception in execute: the connection is closed and io_ drained.
LocalFailure ==
  /\ \/ worker \in {"starting", "auth", "formatting"} /\ Answer("INTERNAL_ERROR")
     \/ worker = "command" /\ Answer(OutcomeOf("INTERNAL_ERROR"))
     \/ worker = "commanding" /\ Drained /\ status = "OK" /\ reply.kind = "ok"
        /\ ~Writes(running)
        /\ Answer("INTERNAL_ERROR")
  /\ close
  /\ posted' = FALSE
  /\ Judged
  /\ requestUnchanged
-----------------------------------------------------------------------------
(***************************************************************************)
(* Handlers that run inside drain().                                       *)
(***************************************************************************)

Draining == worker \in {"connecting", "authenticating", "commanding"}
Commanding == worker \in {"authenticating", "commanding"}

\* Wrong variant of Timeout: only the connection attempt has a deadline.
TimeoutConnect ==
  /\ worker = "connecting"
  /\ finish("TIMEOUT")
  /\ requestUnchanged /\ UNCHANGED <<jobVars, posted, reply>>

\* The deadline of the whole operation.
Timeout ==
  /\ Draining
  /\ finish("TIMEOUT")
  /\ requestUnchanged /\ UNCHANGED <<jobVars, posted, reply>>

\* The handler cancel() posted.
CancelRuns ==
  /\ Draining
  /\ posted
  /\ posted' = FALSE
  /\ \/ finish("STOPPED")
     \/ finished /\ close /\ UNCHANGED <<io, finished, status>>
  /\ requestUnchanged /\ UNCHANGED <<jobVars, reply>>

WriteCompletes ==
  /\ Commanding /\ ~finished
  /\ io = "sent"
  /\ io' = "reading"
  /\ requestUnchanged /\ UNCHANGED <<jobVars, posted, socketVars, finished, status, reply>>

\* The transfer breaks, the reply is malformed, too large or followed by more
\* bytes, or a handler throws.
TransferFails ==
  /\ Commanding
  /\ \/ io \in {"writing", "reading"} /\ finish("IO_ERROR")
     \/ io = "reading" /\ finish("RESULT_TOO_LARGE")
     \/ io \in {"sent", "reading"} /\ finish("INTERNAL_ERROR")
  /\ requestUnchanged /\ UNCHANGED <<jobVars, posted, reply>>

read_reply ==
  /\ Commanding /\ ~finished
  /\ io = "reading"
  /\ replies # <<>>
  /\ reply' = Head(replies)
  /\ replies' = Tail(replies)
  /\ finished' = TRUE /\ status' = "OK" /\ io' = "idle"
  /\ requestUnchanged /\ UNCHANGED <<jobVars, posted, socket, wire, late>>
-----------------------------------------------------------------------------
(***************************************************************************)
(* External: the network and Redis.                                        *)
(***************************************************************************)

\* The last byte of the current command leaves.
Transmit ==
  /\ io = "writing"
  /\ io' = "sent"
  /\ wire' = Append(wire, IF worker = "authenticating" THEN AUTH ELSE running)
  /\ requestUnchanged
  /\ UNCHANGED <<jobVars, posted, socket, replies, late, finished, status, reply>>

\* Redis answers the next command of the connection; a write it does not reject
\* is carried out.
Serve ==
  /\ wire # <<>>
  /\ LET c == Head(wire) IN
       \E kind \in {"ok", "error", "odd", "large"} :
         /\ c = AUTH => kind \in {"ok", "error"}
         /\ kind = "large" => operation[c] = "GET"
         /\ replies' = Append(replies, [to |-> c, kind |-> kind])
         /\ IF Writes(c) /\ kind # "error"
              THEN applied' = [applied EXCEPT ![c] = @ + 1]
              ELSE UNCHANGED applied
  /\ wire' = Tail(wire)
  /\ UNCHANGED <<tableVars, listVars, stopVars, jobVars, cancelled, posted, socket,
                 late, opVars>>

\* A write sent on a closed connection is carried out, or never arrives.
ServeLate ==
  /\ \E c \in late :
       /\ late' = late \ {c}
       /\ \/ applied' = [applied EXCEPT ![c] = @ + 1]
          \/ UNCHANGED applied
  /\ UNCHANGED <<tableVars, listVars, stopVars, jobVars, cancelled, posted, socket,
                 wire, replies, opVars>>

\* A server that sends bytes nobody asked for, just after a reply was read.
TrailingBytes ==
  /\ socket = "open"
  /\ worker = "publishing" /\ result[running] = "OK"
  /\ replies = <<>>
  /\ replies' = <<[to |-> AUTH, kind |-> "ok"]>>
  /\ requestUnchanged /\ UNCHANGED <<jobVars, posted, socket, wire, late, opVars>>
-----------------------------------------------------------------------------
\* What the worker thread does by itself.
Worker ==
  \/ Take \/ BeginFailing \/ FailPending \/ EndFailing \/ Publish
  \/ Start \/ ConnectReturns \/ Authenticate \/ AuthReturns \/ Format \/ Command
  \/ CommandReturns \/ LocalFailure
  \/ CancelRuns

Network ==
  \/ Connected \/ ConnectFails \/ WriteCompletes \/ TransferFails \/ read_reply
  \/ Transmit \/ Serve \/ ServeLate

Stopper == CancelStores \/ CancelPosts \/ Join

Next ==
  \/ \E kind \in {"GET", "WRITE"}, size \in 1..MaxSize : submit(kind, size)
  \/ poll \/ PollStopped \/ stop
  \/ Stopper \/ Worker \/ Timeout \/ Network

Spec == Init /\ [][Next]_vars

\* The service against a server that sends unsolicited bytes.
SpecTrailing == Init /\ [][Next \/ TrailingBytes]_vars

\* The worker runs, its timer fires, and the thread inside stop() continues.
\* Nothing is assumed of Redis or of the network.
FairSpec == Spec /\ WF_vars(Worker) /\ WF_vars(Timeout) /\ WF_vars(Stopper)
-----------------------------------------------------------------------------
(***************************************************************************)
(* Properties.                                                             *)
(***************************************************************************)

Current == IF running = 0 THEN <<>> ELSE <<running>>

\* Requests are accepted, run, completed and handed out in the order of their
\* ids, each exactly once: what was delivered, what is ready, what runs and what
\* is pending are consecutive ids up to the last one given out.  When stop() has
\* returned, none of them is still without a completion.
InOrder ==
  LET all == ready \o Current \o pending IN
    /\ \A i \in DOMAIN all : all[i] = delivered + i
    /\ (nextId + MaxRequestId) % (MaxRequestId + 1) = delivered + Len(all)
    /\ stopper = "returned" => pending = <<>> /\ running = 0

\* sums is the running total of f.
IsRunningTotal(sums, f) ==
  /\ sums[0] = 0
  /\ \A r \in Requests : sums[r] = sums[r - 1] + f[r]
  /\ \A i, j \in 0..MaxRequestId : i <= j => sums[i] <= sums[j]

\* The three admission counters are exactly what the requests hold: the unsigned
\* subtractions of submit, poll and run never wrap, and nothing leaks.  (The state is well typed, too.)
CountersExact ==
  /\ TypeOK
  /\ \E sums \in [0..MaxRequestId -> 0..MaxQueueBytes] :
       IsRunningTotal(sums, held) /\ queueBytes = sums[MaxRequestId]
  /\ \E sums \in [0..MaxRequestId -> 0..MaxResultBytes] :
       IsRunningTotal(sums, reservation) /\ resultBytes = sums[MaxRequestId]
  /\ inflight = Len(ready) + Len(Current) + Len(pending)
  /\ \A i \in DOMAIN ready : held[ready[i]] = 0

Completed == {r \in Requests : operation[r] # "none" /\ held[r] = 0}
Underway == late \cup {wire[i] : i \in DOMAIN wire}

\* No write is carried out twice.  OK means that it was carried out; any other
\* answer but OUTCOME_UNKNOWN that it was not, and that it never will be, even
\* by a command still on its way.  A read is never reported as ambiguous.
OutcomeTruth ==
  /\ \A r \in Requests : applied[r] + (IF r \in Underway THEN 1 ELSE 0) <= 1
  /\ \A r \in Completed :
       /\ operation[r] = "GET" => result[r] # "OUTCOME_UNKNOWN"
       /\ operation[r] = "WRITE" /\ result[r] = "OK" => applied[r] = 1
       /\ operation[r] = "WRITE" /\ result[r] \notin {"OK", "OUTCOME_UNKNOWN"} =>
            applied[r] = 0 /\ r \notin Underway

\* A reply is taken only for the command it answers: what a request that timed
\* out or was cancelled left on the way never reaches the next one, and nothing
\* but the current command is on the open connection.
OwnReply ==
  LET current == IF worker = "authenticating" THEN AUTH ELSE running IN
    /\ Commanding /\ finished /\ status = "OK" => reply.to = current
    /\ \A i \in DOMAIN wire : Commanding /\ wire[i] = current
    /\ \A i \in DOMAIN replies : Commanding /\ replies[i].to = current

\* The comment in read_reply: "trailing unsolicited bytes cannot be interpreted as
\* the next request's reply".
TrailingNeverTaken ==
  worker = "commanding" /\ finished /\ status = "OK" => reply.to = running

\* The service as RedisContract describes it.
Completions == {ready[i] : i \in DOMAIN ready}
PhaseMap ==
  [r \in Requests |->
     IF operation[r] = "none" THEN "free"
     ELSE IF r <= delivered THEN "read"
     ELSE IF r \in Completions THEN "answered" ELSE "pending"]
EffectMap ==
  [r \in Requests |->
     IF applied[r] = 0 THEN "none" ELSE IF applied[r] = 1 THEN "once" ELSE "again"]
StatusMap ==
  [r \in Requests |-> IF PhaseMap[r] \in {"answered", "read"} THEN result[r] ELSE "none"]

C == INSTANCE RedisContract WITH
       kind <- operation, phase <- PhaseMap, effect <- EffectMap, status <- StatusMap,
       ended <- told
Contract == C!Contract

\* Every accepted request is completed and stop() returns, whatever Redis and the
\* network do and even if the handler of cancel() could not be posted.
Waiting ==
  \/ stopper \in {"flagged", "cancelling", "joining"}
  \/ \E r \in Requests : operation[r] # "none" /\ r \notin Completed
NobodyWaitsForever == Waiting ~> ~Waiting
=============================================================================
