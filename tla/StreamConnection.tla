-------------------------- MODULE StreamConnection --------------------------
(***************************************************************************)
(* One message connection of the asynchronous transport: length-prefixed   *)
(* TCP (src/Net/Async/TcpConnection.h) and binary WebSocket                *)
(* (WebSocketConnection.h), each plain or over TLS.  The four differ in    *)
(* what precedes the first message and in what a queued frame costs; the   *)
(* send queue, its write chain, the deadlines and the ends are the same.   *)
(*                                                                         *)
(* A payload is its size, a frame its size and its number in the order     *)
(* of acceptance.  Asio completions are external: an outstanding operation *)
(* may complete, fail, or complete after the connection was closed.        *)
(***************************************************************************)
EXTENDS ConnectionState

VARIABLES
  kind,         \* which class and Stream parameter this connection has
  op,           \* the read-side operation in flight, "none" for none
  outgoing,     \* outgoing_: accepted frames, the first is being written
  queuedBytes,  \* queued_bytes_
  write,        \* the frame of the outstanding async_write, or NoFrame
  wire,         \* history: frames whose write completed
  sends,        \* history: frames accepted so far
  reads         \* history: messages published so far

queueVars == <<outgoing, queuedBytes, write, wire, sends>>
vars == <<stateVars, kind, op, queueVars, reads>>

Frame == [number : Nat, size : PayloadSizes \cup {0}]
NoFrame == [number |-> 0, size |-> 0]

\* What a queued frame counts for: its wire size for TCP, a flat allowance for
\* the frame header for WebSocket.
cost(size) == size + (IF kind.protocol = "tcp" THEN 4 ELSE 16)

TypeOK ==
  /\ StateTypeOK
  /\ op \in {"start", "none", "tls", "upgrade", "accept", "header", "body", "message"}
  /\ outgoing \in Seq(Frame)
  /\ queuedBytes \in 0..MaxSendQueueBytes
  /\ write \in Frame
  /\ wire \in Seq(Frame)
  /\ sends \in 0..MaxSends /\ reads \in 0..MaxReads

StreamInit ==
  /\ outgoing = <<>> /\ queuedBytes = 0 /\ write = NoFrame
  /\ wire = <<>> /\ sends = 0
  /\ reads = 0
-----------------------------------------------------------------------------
(***************************************************************************)
(* close() and the two ways a handler ends badly.  Closing clears the      *)
(* queue; the outstanding write keeps its own frame until it completes.    *)
(***************************************************************************)

\* Wrong variant of close: the byte counter is not reset.
CloseKeepsBytes(reason) ==
  /\ remove_from_registry(reason)
  /\ outgoing' = <<>>
  /\ UNCHANGED <<kind, queuedBytes, wire, sends, reads>>

close(reason) ==
  /\ remove_from_registry(reason)
  /\ outgoing' = <<>>
  /\ queuedBytes' = 0
  /\ UNCHANGED <<kind, wire, sends, reads>>

\* A completion handler raises, because an operation cannot be initiated or
\* the timer cannot be armed: guarded_handler closes.  publish_open may have
\* set opened_ before the timer failed.
guarded_handler(step) ==
  /\ ~closed
  /\ close("exception")
  /\ opened' \in {opened, opened \/ step \in {"start", "tls", "accept"}}

\* The operation that waits for the next message.
NextMessage == IF kind.protocol = "tcp" THEN "header" ELSE "message"

\* publish_open followed by the first read.
BeginMessages ==
  \/ PublishOpen /\ op' = NextMessage /\ UNCHANGED <<kind, queueVars, reads>>
  \/ close("refused") /\ op' = "none" /\ UNCHANGED <<opened, write>>

\* Wrong variant of start: the handshake runs without a deadline.
StartWithoutDeadline ==
  /\ op = "start" /\ ~closed
  /\ IF kind.protocol = "tcp" /\ ~kind.tls
     THEN BeginMessages
     ELSE /\ op' = IF kind.tls THEN "tls" ELSE "upgrade"
          /\ UNCHANGED <<stateVars, kind, queueVars, reads>>

start ==
  /\ op = "start" /\ ~closed
  /\ IF kind.protocol = "tcp" /\ ~kind.tls
     THEN BeginMessages
     ELSE /\ begin_handshake_deadline
          /\ op' = IF kind.tls THEN "tls" ELSE "upgrade"
          /\ UNCHANGED <<closed, opened, registered, quiet, why, kind, queueVars, reads>>

HandshakeDone ==
  /\ op = "tls" /\ ~closed
  /\ IF kind.protocol = "tcp"
     THEN BeginMessages
     ELSE op' = "upgrade" /\ UNCHANGED <<stateVars, kind, queueVars, reads>>

\* The headers are an upgrade to the configured path, or the peer is rejected.
read_upgrade_request ==
  /\ op = "upgrade" /\ ~closed
  /\ \/ op' = "accept" /\ UNCHANGED <<stateVars, kind, queueVars, reads>>
     \/ close("rejected") /\ op' = "none" /\ UNCHANGED <<opened, write>>

accept_upgrade ==
  /\ op = "accept" /\ ~closed
  /\ BeginMessages
-----------------------------------------------------------------------------
(***************************************************************************)
(* Reading.  A TCP header alone is no progress: only a whole message       *)
(* refreshes the idle deadline.                                            *)
(***************************************************************************)

read_header ==
  /\ op = "header" /\ ~closed
  /\ \/ /\ reads < MaxReads
        /\ op' = "body"
        /\ UNCHANGED <<stateVars, kind, queueVars, reads>>
     \/ close("rejected") /\ op' = "none" /\ UNCHANGED <<opened, write>>

\* read_body and read_message: publish_message, then the next read.  A text
\* message is rejected, a refused event closes.
read_message ==
  /\ op \in {"body", "message"} /\ ~closed
  /\ \/ /\ reads < MaxReads
        /\ Progress
        /\ op' = NextMessage
        /\ reads' = reads + 1
        /\ UNCHANGED <<kind, queueVars>>
     \/ close("refused") /\ op' = "none" /\ UNCHANGED <<opened, write>>
     \/ /\ kind.protocol = "websocket"
        /\ close("rejected") /\ op' = "none" /\ UNCHANGED <<opened, write>>

\* The operation fails (fail(), or a WebSocket close frame), or its handler
\* raises.
ReadEnds ==
  /\ op \in {"tls", "upgrade", "accept", "header", "body", "message"} /\ ~closed
  /\ op' = "none"
  /\ UNCHANGED write
  /\ \/ close("error") /\ UNCHANGED opened
     \/ guarded_handler(op)

\* start() raises; the listener closes what it admitted.
StartThrows ==
  /\ op = "start"
  /\ guarded_handler("start")
  /\ op' = "none"
  /\ UNCHANGED write

\* A completion that arrives after close.  Every handler looks at closed_,
\* except that a finished WSS handshake still starts the header read, which
\* then fails on the closed socket.
ReadAfterClose ==
  /\ closed /\ op # "none"
  /\ \/ op' = "none"
     \/ op = "tls" /\ kind.protocol = "websocket" /\ op' = "upgrade"
  /\ UNCHANGED <<stateVars, kind, queueVars, reads>>
-----------------------------------------------------------------------------
(***************************************************************************)
(* Sending.                                                                *)
(***************************************************************************)

\* The checks of send(); one that fails answers an error and changes nothing.
fits(size) ==
  /\ size <= MaxMessageBytes
  /\ Len(outgoing) < MaxQueued
  /\ cost(size) <= MaxSendQueueBytes
  /\ queuedBytes <= MaxSendQueueBytes - cost(size)

send(size) ==
  /\ ~closed /\ opened
  /\ fits(size)
  /\ sends < MaxSends
  /\ LET frame == [number |-> sends + 1, size |-> size] IN
       /\ outgoing' = Append(outgoing, frame)
       /\ write' = IF outgoing = <<>> THEN frame ELSE write
  /\ queuedBytes' = queuedBytes + cost(size)
  /\ sends' = sends + 1
  /\ UNCHANGED <<stateVars, kind, op, wire, reads>>

\* write_next raises out of send(): the frame is queued but no write is
\* outstanding, so the connection closes.
send_throws(size) ==
  /\ ~closed /\ opened
  /\ fits(size)
  /\ outgoing = <<>>
  /\ close("exception")
  /\ UNCHANGED <<opened, op, write>>

\* Wrong variant of write_next: the chain stops after the frame.
WriteOnce ==
  /\ write # NoFrame /\ ~closed
  /\ queuedBytes' = queuedBytes - cost(write.size)
  /\ outgoing' = Tail(outgoing)
  /\ wire' = Append(wire, write)
  /\ write' = NoFrame
  /\ Progress
  /\ UNCHANGED <<kind, op, sends, reads>>

write_next ==
  /\ write # NoFrame /\ ~closed
  /\ queuedBytes' = queuedBytes - cost(write.size)
  /\ outgoing' = Tail(outgoing)
  /\ wire' = Append(wire, write)
  /\ write' = IF Len(outgoing) > 1 THEN outgoing[2] ELSE NoFrame
  /\ Progress
  /\ UNCHANGED <<kind, op, sends, reads>>

\* The write fails, or its handler raises after the frame was written.
WriteEnds ==
  /\ write # NoFrame
  /\ write' = NoFrame
  /\ UNCHANGED <<opened, op>>
  /\ IF closed THEN UNCHANGED <<stateVars, kind, outgoing, queuedBytes, wire, sends, reads>>
     ELSE close("error") \/ close("exception")
-----------------------------------------------------------------------------
Tick == Elapse /\ UNCHANGED <<kind, op, queueVars, reads>>

\* The queued expiry handler runs.
Deadline(generation) ==
  \/ /\ generation \in timer.due
     /\ Fires(generation)
     /\ close("deadline")
     /\ UNCHANGED <<opened, op, write>>
  \/ /\ DeadlineIgnored(generation)
     /\ UNCHANGED <<kind, op, queueVars, reads>>

\* The application disconnects the session, or the service closes them all.
Disconnect ==
  /\ ~closed /\ op # "start"
  /\ close("finished")
  /\ UNCHANGED <<opened, op, write>>

Completions ==
  \/ start \/ HandshakeDone \/ read_upgrade_request \/ accept_upgrade
  \/ read_header \/ read_message \/ ReadEnds \/ StartThrows
  \/ write_next \/ WriteEnds

Next ==
  \/ Completions
  \/ ReadAfterClose
  \/ \E size \in PayloadSizes : send(size) \/ send_throws(size)
  \/ Tick
  \/ \E g \in timer.due : Deadline(g)
  \/ Disconnect

Worker == start \/ \E g \in timer.due : Deadline(g)
-----------------------------------------------------------------------------
\* What the frames of a queue cost together.
TotalCost(frames) ==
  LET upTo[i \in 0..Len(frames)] ==
        IF i = 0 THEN 0 ELSE upTo[i - 1] + cost(frames[i].size)
  IN upTo[Len(frames)]

\* The byte counter is the cost of the queued frames: a write that completes
\* takes back exactly what its frame added, across any mix of sizes.
BytesAreExact == queuedBytes = TotalCost(outgoing)

\* A live open session always has a read in flight, and a write in flight for
\* the first frame exactly while frames are queued ("must never leave a live
\* session with no read in flight", ConnectionState.h).
NeverStalled ==
  opened /\ ~closed =>
    /\ op \in {"header", "body", "message"}
    /\ write = IF outgoing = <<>> THEN NoFrame ELSE Head(outgoing)

\* What reaches the wire is, in order and without gaps, what send() accepted,
\* and while the connection lives nothing accepted is lost.
WireInOrder ==
  /\ \A i \in 1..Len(wire) : wire[i].number = i
  /\ ~closed => Len(wire) + Len(outgoing) = sends

\* How long the phase the connection is in may last without progress.
Allowed == IF opened THEN IdleTimeout ELSE HandshakeTimeout
=============================================================================
