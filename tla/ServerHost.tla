----------------------------- MODULE ServerHost -----------------------------
(***************************************************************************)
(* One server handle: the host object that application threads call        *)
(* (src/Runtime/Host/ServerHost.cpp), the transport service and its single *)
(* I/O worker (src/Net/Async/TransportService.cpp, WorkerContext.cpp), the *)
(* listeners and connections as the worker sees them, and the event queue  *)
(* between the worker and the pollers (module EventQueue).                 *)
(*                                                                         *)
(* Application threads hold lifecycle_mutex_ (and, inside it, commands_)   *)
(* through a whole call and wait for the worker to run their command; poll *)
(* takes neither.  The worker runs one handler at a time, but a handler    *)
(* takes the queue's lock once per event, and polls interleave there: the  *)
(* variable tasks holds what is left of the handler now running.           *)
(*                                                                         *)
(* What happens inside a connection (framing, TLS, deadlines, its send     *)
(* queue) shows here only as its outcome: it opens, delivers a message,    *)
(* or ends with or without an error.                                       *)
(***************************************************************************)
EXTENDS Naturals, Sequences, FiniteSets

CONSTANTS
  Threads,         \* application threads
  MaxListeners,    \* 64 in add_listener
  UdpListeners,    \* the listener ids configured with Protocol::Udp
  MaxConnections,  \* limits.max_connections
  MaxSessionId,    \* the last session id before next_session_id wraps to 0
  MaxCount, MaxBytes, MaxPayload,  \* see EventQueue
  MaxInputs,       \* bound: no new network input after this many events
  NoThread

\* se_server_create refuses other limits: every message fits an empty queue.
decode ==
  /\ MaxConnections >= 1
  /\ MaxCount >= 1 /\ MaxBytes >= MaxPayload

ASSUME HostAssumption ==
  /\ MaxListeners \in Nat \ {0}
  /\ UdpListeners \subseteq 1..MaxListeners
  /\ MaxConnections \in Nat \ {0}
  /\ MaxSessionId \in Nat \ {0}
  /\ MaxCount \in Nat /\ MaxBytes \in Nat /\ MaxPayload \in Nat
  /\ MaxInputs \in Nat
  /\ NoThread \notin Threads
  /\ decode

VARIABLES
  entries, bytes, nextSequence, stopped, overflow, overflowReported,
  delivered, latest, told,  \* the event queue
  hostState,        \* state_ of ServerHost
  listeners,        \* how many listeners are configured; ids are 1..listeners
  lifecycle,        \* owner of lifecycle_mutex_
  pc,               \* where each application thread is in its call
  running,          \* running_: a worker thread exists
  poisoned,         \* poisoned_: the transport was shut down by force
  stopping,         \* context_.stopping
  listening,        \* listeners that accept or receive
  connections,      \* the registry: ids of live connections
  opened,           \* those whose OPEN was accepted by the queue
  home,             \* the listener of each session
  nextSessionId,    \* context_.next_session_id, 0 once exhausted
  command,          \* the command posted to the worker
  answer,           \* the future of the posted command
  tasks,            \* the rest of the handler the worker is running
  view              \* what the application has read about each session

queueVars == <<entries, bytes, nextSequence, stopped, overflow,
               overflowReported, delivered, latest, told>>
hostVars == <<hostState, listeners, lifecycle, pc>>
registryVars == <<stopping, listening, connections, opened, home, nextSessionId>>
transportVars == <<running, poisoned, registryVars>>
commandVars == <<command, answer>>
vars == <<queueVars, hostVars, transportVars, commandVars, tasks, view>>

Sessions == 1..MaxSessionId
Ids == 1..MaxListeners

Q == INSTANCE EventQueue WITH Peers <- 0..MaxSessionId, MaxSequence <- MaxInputs

NoCommand == [op |-> "none", session |-> 0]
Command == [op : {"none", "start", "stop", "send", "disconnect"}, session : 0..MaxSessionId]

\* One remaining piece of the running handler.
Task == [do : {"open", "message", "error", "close", "closeAll", "answer"},
         session : 0..MaxSessionId, of : SUBSET Ids, result : BOOLEAN]

task(do, s) == [do |-> do, session |-> s, of |-> {}, result |-> FALSE]
closeAll(L) == [do |-> "closeAll", session |-> 0, of |-> L, result |-> FALSE]
reply(b) == [do |-> "answer", session |-> 0, of |-> {}, result |-> b]
reportError == task("error", 0)

TypeOK ==
  /\ Q!TypeOK
  /\ hostState \in {"Configuring", "Running", "Stopped"}
  /\ listeners \in 0..MaxListeners
  /\ lifecycle \in Threads \cup {NoThread}
  /\ pc \in [Threads -> {"idle", "stop", "starting", "failing", "halting", "calling"}]
  /\ running \in BOOLEAN /\ poisoned \in BOOLEAN /\ stopping \in BOOLEAN
  /\ listening \subseteq Ids
  /\ connections \subseteq Sessions
  /\ opened \subseteq Sessions
  /\ home \in [Sessions -> 0..MaxListeners]
  /\ nextSessionId \in 0..MaxSessionId
  /\ command \in Command
  /\ answer \in {"pending", "true", "false"}
  /\ tasks \in Seq(Task)
  /\ view \in [Sessions -> {"unknown", "open", "closed"}]

Init ==
  /\ Q!Init
  /\ hostState = "Configuring"
  /\ listeners = 0
  /\ lifecycle = NoThread
  /\ pc = [t \in Threads |-> "idle"]
  /\ running = FALSE /\ poisoned = FALSE /\ stopping = FALSE
  /\ listening = {}
  /\ connections = {}
  /\ opened = {}
  /\ home = [s \in Sessions |-> 0]
  /\ nextSessionId = 1
  /\ command = NoCommand
  /\ answer = "pending"
  /\ tasks = <<>>
  /\ view = [s \in Sessions |-> "unknown"]
-----------------------------------------------------------------------------
(***************************************************************************)
(* The worker: one piece of the running handler at a time.                 *)
(***************************************************************************)

Done == tasks' = Tail(tasks)
Then(next) == tasks' = next \o Tail(tasks)

\* publish_open, UdpPeer::start: a refused OPEN closes a connection the host
\* has never heard of, so remove_connection sends no CLOSE.
publish_open(s) ==
  \/ /\ Q!PushAccepted("Open", s, 0)
     /\ opened' = opened \cup {s}
     /\ UNCHANGED connections
  \/ /\ Q!PushRejected
     /\ connections' = connections \ {s}
     /\ UNCHANGED opened

OpenStep(s) ==
  /\ publish_open(s)
  /\ Done
  /\ UNCHANGED <<hostVars, running, poisoned, stopping, listening, home,
                 nextSessionId, commandVars, view>>

\* publish_message, dispatch_request, UdpPeer::receive: a refused message
\* closes the connection.  A UDP peer whose OPEN was refused is closed.
publish_message(s) ==
  \/ /\ s \notin opened
     /\ UNCHANGED queueVars
     /\ Done
  \/ /\ s \in opened
     /\ \E kind \in {"Message", "HttpRequest"}, size \in 0..MaxPayload :
          Q!PushAccepted(kind, s, size)
     /\ Done
  \/ /\ s \in opened
     /\ Q!PushRejected
     /\ Then(<<task("close", s)>>)

MessageStep(s) ==
  /\ publish_message(s)
  /\ UNCHANGED <<hostVars, transportVars, commandVars, view>>

\* report_error: the event names the listener, never a session, and its text
\* may be lost to an allocation failure.
ErrorStep ==
  /\ \E size \in {0, MaxPayload} : Q!Push("Error", 0, size)
  /\ Done
  /\ UNCHANGED <<hostVars, transportVars, commandVars, view>>

\* Wrong variant of close: the CLOSE event is forgotten.
CloseSilently(s) ==
  /\ connections' = connections \ {s}
  /\ opened' = opened \ {s}
  /\ UNCHANGED queueVars

\* Wrong variant of close: the session goes on after its CLOSE.
CloseGoesOn(s) ==
  /\ IF s \in opened THEN Q!Push("Close", s, 0) ELSE UNCHANGED queueVars
  /\ UNCHANGED <<connections, opened>>

\* close and remove_connection: idempotent; CLOSE only if OPEN was published.
close(s) ==
  /\ connections' = connections \ {s}
  /\ opened' = opened \ {s}
  /\ IF s \in opened
     THEN Q!Push("Close", s, 0)
     ELSE UNCHANGED queueVars

CloseStep(s) ==
  /\ close(s)
  /\ Done
  /\ UNCHANGED <<hostVars, running, poisoned, stopping, listening, home,
                 nextSessionId, commandVars, view>>

\* close_listeners_and_connections, and the loop of UdpListener::close.
CloseAllStep(L) ==
  LET left == {s \in connections : home[s] \in L} IN
  /\ \/ /\ left = {}
        /\ Done
        /\ UNCHANGED <<queueVars, connections, opened>>
     \/ /\ \E s \in left : close(s)
        /\ UNCHANGED tasks
  /\ UNCHANGED <<hostVars, running, poisoned, stopping, listening, home,
                 nextSessionId, commandVars, view>>

\* The packaged task of invoke sets its future.
AnswerStep(b) ==
  /\ answer' = IF b THEN "true" ELSE "false"
  /\ Done
  /\ UNCHANGED <<queueVars, hostVars, transportVars, command, view>>

HandlerStep ==
  /\ running
  /\ tasks # <<>>
  /\ LET now == Head(tasks) IN
     \/ now.do = "open" /\ OpenStep(now.session)
     \/ now.do = "message" /\ MessageStep(now.session)
     \/ now.do = "error" /\ ErrorStep
     \/ now.do = "close" /\ CloseStep(now.session)
     \/ now.do = "closeAll" /\ CloseAllStep(now.of)
     \/ now.do = "answer" /\ AnswerStep(now.result)
-----------------------------------------------------------------------------
(***************************************************************************)
(* The worker starts a handler: completions of network operations ...      *)
(***************************************************************************)

WorkerIdle == running /\ tasks = <<>>

\* Network input, and attempts to start, go on until MaxInputs events were
\* queued.
Input == WorkerIdle /\ nextSequence <= MaxInputs

Handle(steps) ==
  /\ tasks' = steps
  /\ UNCHANGED <<queueVars, hostVars, running, poisoned, stopping, commandVars, view>>

\* Wrong variant of allocate_session_id: it counts past the last id.
NoWrap == nextSessionId' = nextSessionId + 1

allocate_session_id ==
  nextSessionId' = IF nextSessionId = MaxSessionId THEN 0 ELSE nextSessionId + 1

\* A new connection gets the next session id and a place in the registry
\* (add_connection); steps is what its start goes on to do.
Register(l, steps) ==
  /\ Input
  /\ l \in listening
  /\ ~stopping
  /\ Cardinality(connections) < MaxConnections
  /\ nextSessionId # 0
  /\ allocate_session_id
  /\ connections' = connections \cup {nextSessionId}
  /\ home' = [home EXCEPT ![nextSessionId] = l]
  /\ Handle(steps)
  /\ UNCHANGED <<listening, opened>>

\* TcpListener::admit.  Plain TCP and HTTP publish OPEN at once, TLS and
\* WebSocket go through a handshake first.  A start that throws closes the
\* connection.
Admit(l) ==
  /\ l \notin UdpListeners
  /\ \/ Register(l, <<task("open", nextSessionId)>>)
     \/ Register(l, <<>>)
     \/ Register(l, <<task("close", nextSessionId), reportError>>)

\* UdpListener::dispatch_datagram for a new sender: OPEN, then the datagram; if
\* that throws, on_receive closes the peer.
dispatch_datagram(l) ==
  /\ l \in UdpListeners
  /\ \/ Register(l, <<task("open", nextSessionId), task("message", nextSessionId)>>)
     \/ Register(l, <<task("close", nextSessionId), reportError>>)

\* No session ids are left: TCP reports it, UDP drops the datagram.
AdmitExhausted(l) ==
  /\ Input
  /\ l \in listening \ UdpListeners
  /\ ~stopping
  /\ Cardinality(connections) < MaxConnections
  /\ nextSessionId = 0
  /\ Handle(<<reportError>>)
  /\ UNCHANGED <<listening, connections, opened, home, nextSessionId>>

\* A TLS handshake or WebSocket upgrade completes.
HandshakeDone(s) ==
  /\ Input
  /\ s \in connections \ opened
  /\ Handle(<<task("open", s)>>)
  /\ UNCHANGED <<listening, connections, opened, home, nextSessionId>>

Receive(s) ==
  /\ Input
  /\ s \in opened
  /\ home[s] \in UdpListeners => home[s] \in listening
  /\ Handle(<<task("message", s)>>)
  /\ UNCHANGED <<listening, connections, opened, home, nextSessionId>>

\* A connection ends: closed by the peer or idle (no error event), failed or
\* rejected (fail, reject, complete_send: ERROR then close), or a handler
\* threw (guarded_handler closes, then run_worker reports).  UdpPeer::complete_send
\* throws before it closes if its error text cannot be allocated: the peer stays.
ConnectionEnds(s) ==
  /\ Input
  /\ s \in connections
  /\ \/ Handle(<<task("close", s)>>)
     \/ Handle(<<reportError, task("close", s)>>)
     \/ Handle(<<task("close", s), reportError>>)
     \/ home[s] \in UdpListeners /\ Handle(<<reportError>>)
  /\ UNCHANGED <<listening, connections, opened, home, nextSessionId>>

\* An accept operation fails, or the next one cannot be initiated: a stream
\* listener closes and leaves its connections alone.
AcceptFails(l) ==
  /\ Input
  /\ l \in listening \ UdpListeners
  /\ ~stopping
  /\ listening' = listening \ {l}
  /\ Handle(<<reportError>>)
  /\ UNCHANGED <<connections, opened, home, nextSessionId>>

\* A UDP listener takes its peers with it: after the error is reported if a
\* receive failed, before if the next one cannot be initiated.  If the text of
\* the error cannot be allocated they stay, and nothing receives for them.
ReceiveFails(l) ==
  /\ Input
  /\ l \in listening \cap UdpListeners
  /\ ~stopping
  /\ listening' = listening \ {l}
  /\ \/ Handle(<<reportError, closeAll({l})>>)
     \/ Handle(<<closeAll({l}), reportError>>)
     \/ Handle(<<reportError>>)
  /\ UNCHANGED <<connections, opened, home, nextSessionId>>
-----------------------------------------------------------------------------
(***************************************************************************)
(* ... or a posted command.                                                *)
(***************************************************************************)

\* Every listener starts, or one throws after the first k have started.
RunStart ==
  /\ command.op = "start"
  /\ \/ /\ listening' = 1..listeners
        /\ tasks' = <<reply(TRUE)>>
     \/ \E k \in 0..(listeners - 1) :
          /\ listening' = 1..k
          /\ tasks' = <<reportError, reply(FALSE)>>
  /\ UNCHANGED <<stopping>>

\* Wrong variant of RunStop: it stops accepting but leaves the connections.
StopListenersOnly ==
  /\ command.op = "stop"
  /\ stopping' = TRUE
  /\ listening' = {}
  /\ tasks' = <<reply(TRUE)>>

RunStop ==
  /\ command.op = "stop"
  /\ stopping' = TRUE
  /\ listening' = {}
  /\ tasks' = <<closeAll(Ids), reply(TRUE)>>

\* Wrong variant of RunDisconnect: an unknown session leaves no answer.
DisconnectUnanswered ==
  /\ command.op = "disconnect"
  /\ tasks' = IF command.session \in connections
              THEN <<task("close", command.session), reply(TRUE)>>
              ELSE <<>>
  /\ UNCHANGED <<stopping, listening>>

RunDisconnect ==
  /\ command.op = "disconnect"
  /\ tasks' = IF command.session \in connections
              THEN <<task("close", command.session), reply(TRUE)>>
              ELSE <<reply(FALSE)>>
  /\ UNCHANGED <<stopping, listening>>

\* send and respond_http: accepted or refused by the connection, or its write
\* cannot be initiated and the connection closes.
RunSend ==
  /\ command.op = "send"
  /\ \/ command.session \in opened /\ tasks' = <<reply(TRUE)>>
     \/ tasks' = <<reply(FALSE)>>
     \/ command.session \in opened
        /\ tasks' = <<task("close", command.session), reply(FALSE)>>
  /\ UNCHANGED <<stopping, listening>>

CommandStep ==
  /\ WorkerIdle
  /\ RunStart \/ RunStop \/ RunDisconnect \/ RunSend
  /\ command' = NoCommand
  /\ UNCHANGED <<queueVars, hostVars, running, poisoned, connections, opened,
                 home, nextSessionId, answer, view>>
-----------------------------------------------------------------------------
(***************************************************************************)
(* Calls of the application threads.                                       *)
(***************************************************************************)

Free(t) == pc[t] = "idle" /\ lifecycle = NoThread

add_listener(t) ==
  /\ Free(t)
  /\ hostState = "Configuring"
  /\ listeners < MaxListeners
  /\ listeners' = listeners + 1
  /\ UNCHANGED <<queueVars, hostState, lifecycle, pc, transportVars, commandVars,
                 tasks, view>>

\* TransportService::start up to the posted command.  Posting can fail for
\* want of memory, and the running worker is stopped again.
start(t) ==
  /\ Free(t)
  /\ hostState = "Configuring"
  /\ ~running /\ ~poisoned /\ listeners > 0
  /\ nextSequence <= MaxInputs
  /\ stopping' = FALSE
  /\ running' = TRUE
  /\ lifecycle' = t
  /\ \/ /\ command' = [op |-> "start", session |-> 0]
        /\ pc' = [pc EXCEPT ![t] = "starting"]
     \/ /\ pc' = [pc EXCEPT ![t] = "failing"]
        /\ UNCHANGED command
  /\ UNCHANGED <<queueVars, hostState, listeners, poisoned, listening, connections,
                 opened, home, nextSessionId, answer, tasks, view>>

StartReturns(t) ==
  /\ pc[t] = "starting"
  /\ \/ /\ answer = "true"
        /\ hostState' = "Running"
        /\ lifecycle' = NoThread
        /\ pc' = [pc EXCEPT ![t] = "idle"]
     \/ /\ answer = "false"
        /\ pc' = [pc EXCEPT ![t] = "failing"]
        /\ UNCHANGED <<hostState, lifecycle>>
  /\ answer' = "pending"
  /\ UNCHANGED <<queueVars, listeners, transportVars, command, tasks, view>>

CallStop(t) ==
  /\ pc[t] = "idle"
  /\ pc' = [pc EXCEPT ![t] = "stop"]
  /\ UNCHANGED <<queueVars, hostState, listeners, lifecycle, transportVars,
                 commandVars, tasks, view>>

\* Wrong variant of StopAlready: a stop under way counts as done.
StopUnderWay(t) ==
  /\ pc[t] = "stop"
  /\ \/ lifecycle = NoThread /\ hostState = "Stopped"
     \/ \E u \in Threads : pc[u] = "halting"
  /\ pc' = [pc EXCEPT ![t] = "idle"]
  /\ UNCHANGED <<queueVars, hostState, listeners, lifecycle, transportVars,
                 commandVars, tasks, view>>

\* ServerHost::stop once it holds the lock: the server has stopped already ...
StopAlready(t) ==
  /\ pc[t] = "stop"
  /\ lifecycle = NoThread
  /\ hostState = "Stopped"
  /\ pc' = [pc EXCEPT ![t] = "idle"]
  /\ UNCHANGED <<queueVars, hostState, listeners, lifecycle, transportVars,
                 commandVars, tasks, view>>

\* ... or never ran ...
StopIdle(t) ==
  /\ pc[t] = "stop"
  /\ lifecycle = NoThread
  /\ hostState # "Stopped" /\ ~running
  /\ hostState' = "Stopped"
  /\ Q!finish
  /\ pc' = [pc EXCEPT ![t] = "idle"]
  /\ UNCHANGED <<listeners, lifecycle, transportVars, commandVars, tasks, view>>

\* ... or has a worker to stop.
StopRunning(t) ==
  /\ pc[t] = "stop"
  /\ lifecycle = NoThread
  /\ hostState # "Stopped" /\ running
  /\ lifecycle' = t
  /\ pc' = [pc EXCEPT ![t] = "halting"]
  /\ UNCHANGED <<queueVars, hostState, listeners, transportVars, commandVars, tasks, view>>

stop(t) == StopAlready(t) \/ StopIdle(t) \/ StopRunning(t)

\* stop_locked, on behalf of ServerHost::stop ("halting") or of a start that
\* failed ("failing").
InStopLocked(t) == pc[t] \in {"failing", "halting"}

PostStop(t) ==
  /\ InStopLocked(t)
  /\ command = NoCommand /\ answer = "pending" /\ ~stopping
  /\ command' = [op |-> "stop", session |-> 0]
  /\ UNCHANGED <<queueVars, hostVars, transportVars, answer, tasks, view>>

\* The worker is joined; ServerHost::stop also ends the event queue.
Joined(t) ==
  /\ running' = FALSE
  /\ lifecycle' = NoThread
  /\ pc' = [pc EXCEPT ![t] = "idle"]
  /\ IF pc[t] = "halting"
     THEN hostState' = "Stopped" /\ Q!finish
     ELSE UNCHANGED <<queueVars, hostState>>

StopReturns(t) ==
  /\ InStopLocked(t)
  /\ answer = "true" /\ tasks = <<>>
  /\ Joined(t)
  /\ answer' = "pending"
  /\ UNCHANGED <<listeners, poisoned, registryVars, command, tasks, view>>

\* The stop command cannot be posted: io.stop(), join, and close everything on
\* this thread with the callbacks removed, so no CLOSE is queued.
ForcedStop(t) ==
  /\ InStopLocked(t)
  /\ command = NoCommand /\ answer = "pending" /\ ~stopping
  /\ tasks = <<>>
  /\ Joined(t)
  /\ poisoned' = TRUE
  /\ stopping' = TRUE
  /\ listening' = {}
  /\ connections' = {}
  /\ opened' = {}
  /\ UNCHANGED <<listeners, home, nextSessionId, commandVars, tasks, view>>

\* send, respond_http and disconnect post a command; the first two look at the
\* overflow flag before they do.
Call(t, op, s) ==
  /\ Free(t)
  /\ hostState = "Running"
  /\ op = "send" => ~overflow
  /\ lifecycle' = t
  /\ pc' = [pc EXCEPT ![t] = "calling"]
  /\ command' = [op |-> op, session |-> s]
  /\ UNCHANGED <<queueVars, hostState, listeners, transportVars, answer, tasks, view>>

CallReturns(t) ==
  /\ pc[t] = "calling"
  /\ answer # "pending"
  /\ answer' = "pending"
  /\ lifecycle' = NoThread
  /\ pc' = [pc EXCEPT ![t] = "idle"]
  /\ UNCHANGED <<queueVars, hostState, listeners, transportVars, command, tasks, view>>

\* poll takes no host lock.  Reading OVERFLOW goes on into stop().  A poll
\* that times out, or whose buffer is too small, changes nothing.
Seen(e) ==
  CASE e.kind = "Open" -> [view EXCEPT ![e.peer] = "open"]
    [] e.kind = "Close" -> [view EXCEPT ![e.peer] = "closed"]
    [] OTHER -> view

poll(t) ==
  /\ pc[t] = "idle"
  /\ \/ /\ Q!PollReady(MaxPayload)
        /\ view' = Seen(Head(entries))
        /\ UNCHANGED pc
     \/ /\ Q!PollOverflow
        /\ pc' = [pc EXCEPT ![t] = "stop"]
        /\ UNCHANGED view
     \/ /\ Q!PollStopped
        /\ UNCHANGED <<pc, view>>
  /\ UNCHANGED <<hostState, listeners, lifecycle, transportVars, commandVars, tasks>>
-----------------------------------------------------------------------------
Network ==
  \/ \E l \in Ids :
       \/ Admit(l) \/ dispatch_datagram(l) \/ AdmitExhausted(l)
       \/ AcceptFails(l) \/ ReceiveFails(l)
  \/ \E s \in Sessions : HandshakeDone(s) \/ Receive(s) \/ ConnectionEnds(s)

Worker == HandlerStep \/ CommandStep

\* A call that holds the lock goes on.
Continue(t) ==
  StartReturns(t) \/ PostStop(t) \/ StopReturns(t) \/ ForcedStop(t) \/ CallReturns(t)

Application(t) ==
  \/ add_listener(t)
  \/ start(t)
  \/ CallStop(t)
  \/ stop(t)
  \/ \E op \in {"send", "disconnect"}, s \in Sessions : Call(t, op, s)
  \/ poll(t)
  \/ Continue(t)

Next == Network \/ Worker \/ \E t \in Threads : Application(t)

Spec == Init /\ [][Next]_vars

\* The worker thread keeps running its handlers, io_context runs a posted
\* command after the handlers queued before it, and a thread inside a call
\* goes on.  Nothing is assumed of the network, of who calls what, or of who
\* gets lifecycle_mutex_ next.
Fairness ==
  /\ WF_vars(HandlerStep)
  /\ SF_vars(CommandStep)
  /\ \A t \in Threads : WF_vars(Continue(t))

FairSpec == Spec /\ Fairness
-----------------------------------------------------------------------------
(***************************************************************************)
(* Properties.                                                             *)
(***************************************************************************)

Queued(kind, s) == \E i \in 1..Len(entries) : entries[i].kind = kind /\ entries[i].peer = s

\* No ghost sessions: a session the application believes open, or is about to
\* hear of, is still registered with its CLOSE to come, or its CLOSE is queued
\* behind; only an overflow or a forced shutdown loses a CLOSE
\* (EventQueue::push, WorkerContext::remove_connection).
NoGhostSessions ==
  (~overflow /\ ~poisoned) =>
    \A s \in Sessions :
      view[s] = "open" \/ Queued("Open", s) => s \in opened \/ Queued("Close", s)

\* While no worker runs nothing is left of the transport: no listener, no
\* connection, no half-run handler, no command without an answer.  stop() and
\* a failed start() alike leave the object clean for a restart.  While one runs
\* nobody can get at the listener table, which its error callbacks read without
\* a lock (comment in ServerHost::callbacks).
WorkerBoundary ==
  /\ ~running => /\ listening = {} /\ connections = {} /\ opened = {}
                 /\ tasks = <<>> /\ command = NoCommand /\ answer = "pending"
  /\ running /\ hostState = "Configuring" => lifecycle # NoThread

\* stop() is synchronous for every caller: a thread that returns from it, or
\* from the poll that read OVERFLOW, finds the server stopped and joined.
StopIsSynchronous ==
  [][\A t \in Threads :
       pc[t] \in {"stop", "halting"} /\ pc'[t] = "idle" => hostState' = "Stopped" /\ ~running'
    ]_vars

\* What the application reads from poll is what SessionFeed promises: every event
\* in its place, each session's messages between its OPEN and its CLOSE, nothing
\* after a terminal answer, and no session left open behind one.
Feed == INSTANCE SessionFeed WITH terminal <- told, forced <- poisoned
FeedSpec == Feed!FeedSpec

\* A call that got the lock gives it back: no thread waits for ever for the
\* worker, whatever the network does.
CallsReturn == \A t \in Threads : lifecycle = t ~> lifecycle # t

\* STOPPED means that the server has stopped (docs/dll-quickstart.md).
StoppedMeansStopped == told = "stopped" => hostState = "Stopped"
=============================================================================
