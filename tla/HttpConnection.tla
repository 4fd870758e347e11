---------------------------- MODULE HttpConnection ----------------------------
(***************************************************************************)
(* One HTTP or HTTPS connection (src/Net/Async/HttpConnection.h).  The     *)
(* connection reads a request, hands it to the application under an id and *)
(* reads nothing more until that request is answered.  The application     *)
(* answers by id from its own threads: late, twice, or not at all.         *)
(*                                                                         *)
(* A request is its position on the connection, a response the sizes and   *)
(* flags that decide what becomes of it.  Which header fields make a       *)
(* request unacceptable is input.                                          *)
(***************************************************************************)
EXTENDS ConnectionState

CONSTANTS
  MaxRequestId,  \* the last id before next_http_request_id wraps to 0
  HeaderLimit    \* http_header_limit

VARIABLES
  kind, op,       \* as in StreamConnection
  pending,        \* pending_request_id_, 0 for none
  requestFlags,   \* head_request_ and request_keep_alive_
  nextRequestId,  \* context_.next_http_request_id, shared with all connections
  response,       \* the response of the outstanding async_write
  taken,          \* history: requests read so far, rejected ones included
  number,         \* history: the position on this connection of each id
  answers         \* history: positions of the responses written, in order

httpVars == <<pending, requestFlags, nextRequestId, response, taken, number, answers>>
vars == <<stateVars, kind, op, httpVars>>

RequestIds == 1..MaxRequestId
Response == [status : {199, 200, 204, 600}, body : PayloadSizes,
             headers : {1, HeaderLimit}, wellFormed : BOOLEAN, close : BOOLEAN]
NoResponse == [request |-> 0, keep |-> FALSE, bytes |-> 0]

TypeOK ==
  /\ StateTypeOK
  /\ op \in {"start", "none", "tls", "header", "body", "write"}
  /\ pending \in 0..MaxRequestId /\ nextRequestId \in 0..MaxRequestId
  /\ requestFlags \in [head : BOOLEAN, keep : BOOLEAN]
  /\ response \in [request : 0..MaxReads, keep : BOOLEAN, bytes : 0..MaxSendQueueBytes]
  /\ taken \in 0..MaxReads
  /\ number \in [RequestIds -> 0..MaxReads]
  /\ answers \in Seq(1..MaxReads)

HttpInit ==
  /\ pending = 0 /\ nextRequestId = 1
  /\ requestFlags = [head |-> FALSE, keep |-> FALSE]
  /\ response = NoResponse
  /\ taken = 0 /\ number = [id \in RequestIds |-> 0] /\ answers = <<>>
-----------------------------------------------------------------------------
close(reason) ==
  /\ remove_from_registry(reason)
  /\ pending' = 0
  /\ UNCHANGED <<kind, requestFlags, response, answers>>

CloseOnly(reason) ==
  close(reason) /\ UNCHANGED <<opened, nextRequestId, taken, number>>

\* begin_requests: publish_open, then the deadline of the first request.
BeginRequests ==
  \/ /\ opened' = TRUE
     /\ timer' = arm_deadline(arm_deadline(timer, IdleTimeout), HandshakeTimeout)
     /\ quiet' = 0
     /\ op' = "header"
     /\ UNCHANGED <<closed, registered, why, kind, httpVars>>
  \/ CloseOnly("refused") /\ op' = "none"

start ==
  /\ op = "start" /\ ~closed
  /\ IF kind.tls
     THEN /\ begin_handshake_deadline
          /\ op' = "tls"
          /\ UNCHANGED <<closed, opened, registered, quiet, why, kind, httpVars>>
     ELSE BeginRequests

HandshakeDone == op = "tls" /\ ~closed /\ BeginRequests

\* The deadline is fixed for the whole request: neither its header nor pieces
\* of its body refresh it.
read_request ==
  /\ begin_handshake_deadline
  /\ quiet' = 0
  /\ op' = "header"
  /\ UNCHANGED <<closed, opened, registered, why>>

write_response(request, keep, bytes) ==
  /\ pending' = 0
  /\ op' = "write"
  /\ response' = [request |-> request, keep |-> keep, bytes |-> bytes]
  /\ Progress
  /\ UNCHANGED <<kind, requestFlags, answers>>

\* A request the engine answers itself, if the budget holds its 256 bytes.
reject_http ==
  /\ taken' = taken + 1
  /\ UNCHANGED <<nextRequestId, number>>
  /\ IF MaxSendQueueBytes < 256
     THEN close("rejected") /\ op' = "none" /\ UNCHANGED opened
     ELSE write_response(taken + 1, FALSE, 256)

\* The ids of requests on other connections are skipped.
allocate_http_request_id(id) ==
  /\ nextRequestId # 0
  /\ id >= nextRequestId
  /\ nextRequestId' = (id + 1) % (MaxRequestId + 1)

\* dispatch_request: trailers and sizes may still reject the request, the ids
\* may be exhausted, and the event queue may refuse the event.
dispatch_request ==
  \/ reject_http
  \/ nextRequestId = 0 /\ CloseOnly("rejected") /\ op' = "none"
  \/ \E id \in RequestIds :
       /\ allocate_http_request_id(id)
       /\ taken' = taken + 1
       /\ number' = [number EXCEPT ![id] = taken + 1]
       /\ op' = "none"
       /\ \/ /\ pending' = id
             /\ requestFlags' \in [head : BOOLEAN, keep : BOOLEAN]
             /\ Progress
             /\ UNCHANGED <<kind, response, answers>>
          \/ close("refused") /\ UNCHANGED opened

\* The header is read: it is rejected, or the body follows, or there is none.
read_header ==
  /\ op = "header" /\ ~closed /\ taken < MaxReads
  /\ \/ reject_http
     \/ op' = "body" /\ UNCHANGED <<stateVars, kind, httpVars>>
     \/ dispatch_request

\* A body that fails to parse or exceeds the limit is rejected by read_failed.
read_body ==
  /\ op = "body" /\ ~closed
  /\ dispatch_request
-----------------------------------------------------------------------------
(***************************************************************************)
(* The application answers.                                                *)
(***************************************************************************)

header_bytes(r) == 256 + r.headers

validate_http_response(r) ==
  /\ r.status \in 200..599
  /\ r.body <= MaxMessageBytes
  /\ r.status \in {204, 205, 304} => r.body = 0
  /\ r.wellFormed
  /\ header_bytes(r) <= HeaderLimit

\* What follows the headers: nothing for HEAD and for statuses without content.
body_bytes(r) == IF requestFlags.head THEN 0 ELSE r.body

\* Wrong variant of answerable: any id will do while some request is pending.
AnswersAny(id) == ~closed /\ opened /\ id # 0 /\ pending # 0

answerable(id) == ~closed /\ opened /\ id # 0 /\ pending = id

\* An answer that is stale, malformed or too large is refused and changes
\* nothing.  If the write cannot be started the connection closes.
respond_http(id, r) ==
  /\ answerable(id)
  /\ validate_http_response(r)
  /\ header_bytes(r) <= MaxSendQueueBytes
  /\ body_bytes(r) <= MaxSendQueueBytes - header_bytes(r)
  /\ \/ write_response(number[id], requestFlags.keep /\ ~r.close, header_bytes(r) + body_bytes(r))
     \/ close("exception") /\ UNCHANGED <<opened, op>>
  /\ UNCHANGED <<nextRequestId, taken, number>>

\* The write completed: close, or read the next request.
ResponseWritten ==
  /\ op = "write" /\ ~closed
  /\ answers' = Append(answers, response.request)
  /\ response' = NoResponse
  /\ \/ /\ response.keep
        /\ read_request
        /\ UNCHANGED pending
     \/ /\ ~response.keep
        /\ remove_from_registry("finished")
        /\ pending' = 0
        /\ op' = "none"
        /\ UNCHANGED opened
  /\ UNCHANGED <<kind, requestFlags, nextRequestId, taken, number>>

\* The peer ends the stream, the write fails, or a handler raises: after a
\* handshake possibly with OPEN published and the deadline not armed.
OperationEnds ==
  /\ op \in {"tls", "header", "body", "write"} /\ ~closed
  /\ op' = "none"
  /\ close("error")
  /\ opened' \in {opened, opened \/ op = "tls"}
  /\ UNCHANGED <<nextRequestId, taken, number>>

\* start() or the first deadline raises; the listener closes the connection.
StartThrows ==
  /\ op = "start" /\ ~closed
  /\ op' = "none"
  /\ close("exception")
  /\ opened' \in {opened, ~kind.tls}
  /\ UNCHANGED <<nextRequestId, taken, number>>

\* Every handler returns at once on a closed connection.
CompletionAfterClose ==
  /\ closed /\ op # "none"
  /\ op' = "none"
  /\ UNCHANGED <<stateVars, kind, httpVars>>
-----------------------------------------------------------------------------
Tick == Elapse /\ UNCHANGED <<kind, op, httpVars>>

Deadline(generation) ==
  \/ /\ generation \in timer.due
     /\ Fires(generation)
     /\ CloseOnly("deadline")
     /\ UNCHANGED op
  \/ DeadlineIgnored(generation) /\ UNCHANGED <<kind, op, httpVars>>

Disconnect ==
  /\ ~closed /\ op # "start"
  /\ CloseOnly("finished")
  /\ UNCHANGED op

Next ==
  \/ start \/ StartThrows \/ HandshakeDone
  \/ read_header \/ read_body
  \/ \E id \in RequestIds, r \in Response : respond_http(id, r)
  \/ ResponseWritten \/ OperationEnds \/ CompletionAfterClose
  \/ Tick \/ (\E g \in timer.due : Deadline(g)) \/ Disconnect

Worker == start \/ \E g \in timer.due : Deadline(g)
-----------------------------------------------------------------------------
\* A live open connection waits for exactly one thing: the peer's request, the
\* application's answer, or the write of a response.
NeverStalled ==
  opened /\ ~closed => (op = "none") = (pending # 0)

\* The i-th response on the wire answers the i-th request of the connection,
\* although the application may answer by any id it ever saw, at any time.
AnswersInOrder ==
  /\ \A i \in 1..Len(answers) : answers[i] = i
  /\ pending # 0 => number[pending] = Len(answers) + 1

\* A request being read, its handshake included, has the handshake timeout;
\* the application's answer and its write have the idle timeout.
Allowed == IF op \in {"tls", "header", "body"} THEN HandshakeTimeout ELSE IdleTimeout
=============================================================================
