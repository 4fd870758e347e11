----------------------------- MODULE IocpServer -----------------------------
(***************************************************************************)
(* The Windows line backend (src/Net/Iocp): an accept thread, an idle      *)
(* monitor, workers that take completions from one port, and application   *)
(* threads.  Whoever removes a connection from the registry tells the      *)
(* runtime, or leaves that to the callback that is running for it.         *)
(***************************************************************************)
EXTENDS ITcpServer

CONSTANT Workers  \* worker threads

VARIABLES
  worker,     \* where each worker is, and the connection it handles
  monitor,    \* where the idle monitor is
  receiveOp,  \* the connections with a receive submitted to the kernel
  sendOp,     \* the send submitted per connection, or NoSend
  sendQueue,  \* send_queue_
  sendBusy,   \* send_in_progress_
  active,     \* active_callbacks_
  deferred,   \* disconnect_notification_pending_
  ending,     \* the connection each actor is disconnecting, and how far
  app,        \* where the application's call of send is
  wakes       \* null completions in the port

workVars == <<worker, monitor>>
opVars == <<receiveOp, sendOp, sendQueue, sendBusy>>
scopeVars == <<active, deferred>>

\* A send operation carries its message and what was written of it.
SendOp == [message : 0..MaxSends, written : 0..2]
NoSend == [message |-> 0, written |-> 0]
Work(where, c, op) == [at |-> where, client |-> c, op |-> op]
NotEnding == [at |-> "none", client |-> 0]
Idle == [at |-> "idle", client |-> 0, message |-> 0]

\* Who may call disconnect.
Actors == {"accept", "monitor", "stop", "app"} \cup Workers

TypeOK ==
  /\ ServerTypeOK
  /\ stopper \in {"configured", "idle", "failed", "joinAccept", "joinMonitor", "close", "drain", "wake",
                  "joinWorkers", "returned"}
  /\ worker \in [Workers -> [at : {"none", "wait", "drop", "release", "begin", "pop", "message",
                                   "overflow", "leave", "post", "sent", "failed", "exited"},
                             client : 0..MaxClients, op : SendOp]]
  /\ monitor \in {"none", "scan", "exited"}
  /\ receiveOp \subseteq Clients
  /\ sendOp \in [Clients -> SendOp]
  /\ sendQueue \in [Clients -> Seq(Messages)] /\ sendBusy \in [Clients -> BOOLEAN]
  /\ active \in [Clients -> 0..1] /\ deferred \in [Clients -> BOOLEAN]
  /\ ending \in [Actors -> [at : {"none", "ask", "telling"}, client : 0..MaxClients]]
  /\ app \in [at : {"idle", "send", "failed"}, client : 0..MaxClients, message : 0..MaxSends]
  /\ wakes \in 0..Cardinality(Workers)

IocpInit ==
  /\ worker = [w \in Workers |-> Work("none", 0, NoSend)] /\ monitor = "none"
  /\ receiveOp = {} /\ sendOp = [c \in Clients |-> NoSend]
  /\ sendQueue = [c \in Clients |-> <<>>] /\ sendBusy = [c \in Clients |-> FALSE]
  /\ active = [c \in Clients |-> 0] /\ deferred = [c \in Clients |-> FALSE]
  /\ ending = [a \in Actors |-> NotEnding]
  /\ app = Idle
  /\ wakes = 0

Free(a) == ending[a] = NotEnding
-----------------------------------------------------------------------------
(***************************************************************************)
(* Server::disconnect, called by any actor, and CallbackScope.             *)
(***************************************************************************)

\* Under connections_mutex_ the connection is closed and erased; nothing
\* happens when somebody else was first.
Erase(a, c) ==
  IF c \in registered
  THEN /\ closing' = [closing EXCEPT ![c] = TRUE]
       /\ sendQueue' = [sendQueue EXCEPT ![c] = <<>>]
       /\ registered' = registered \ {c}
       /\ ending' = [ending EXCEPT ![a] = [at |-> "ask", client |-> c]]
  ELSE UNCHANGED <<tableVars, sendQueue, ending>>

\* Wrong variant of request_disconnect_notification: it does not wait for a
\* callback that is running.
request_at_once(a) ==
  /\ ending[a].at = "ask"
  /\ on_disconnected(ending[a].client)
  /\ ending' = [ending EXCEPT ![a].at = "telling"]
  /\ UNCHANGED <<ownerVars, acceptVars, tableVars, inputVars, outputVars,
                 workVars, opVars, scopeVars, app, wakes>>

\* The end is told now, or by the callback that is running.
request_disconnect_notification(a) ==
  LET c == ending[a].client IN
  /\ ending[a].at = "ask"
  /\ IF active[c] = 0
     THEN /\ on_disconnected(c)
          /\ ending' = [ending EXCEPT ![a].at = "telling"]
          /\ UNCHANGED deferred
     ELSE /\ deferred' = [deferred EXCEPT ![c] = TRUE]
          /\ ending' = [ending EXCEPT ![a] = NotEnding]
          /\ UNCHANGED feedVars
  /\ UNCHANGED <<ownerVars, acceptVars, tableVars, inputVars, outputVars,
                 workVars, opVars, active, app, wakes>>

NotifyReturns(a) ==
  /\ ending[a].at = "telling"
  /\ Returned(ending[a].client)
  /\ ending' = [ending EXCEPT ![a] = NotEnding]
  /\ UNCHANGED <<ownerVars, acceptVars, tableVars, inputVars, outputVars,
                 workVars, opVars, scopeVars, app, wakes>>

begin_callback(c) == active' = [active EXCEPT ![c] = @ + 1] /\ UNCHANGED deferred

\* The end of a callback scope: the actor tells the end that was left to it.
end_callback(a, c) ==
  /\ active' = [active EXCEPT ![c] = @ - 1]
  /\ IF active[c] = 1 /\ deferred[c]
     THEN /\ deferred' = [deferred EXCEPT ![c] = FALSE]
          /\ on_disconnected(c)
          /\ ending' = [ending EXCEPT ![a] = [at |-> "telling", client |-> c]]
     ELSE UNCHANGED <<deferred, feedVars, ending>>
-----------------------------------------------------------------------------
\* The listener or the completion port cannot be opened.
OpenFails == stopper' = "returned" /\ UNCHANGED <<running, acceptor, workVars>>

\* start(): all threads run; or nothing was opened; or a thread could not be
\* created after some others and start() calls stop().
start ==
  /\ stopper = "configured"
  /\ \/ OpenFails
     \/ /\ running' = TRUE
        /\ \E W \in SUBSET Workers, accepts \in BOOLEAN, monitors \in BOOLEAN :
             /\ accepts => W = Workers
             /\ monitors => accepts
             /\ worker' = [w \in Workers |-> Work(IF w \in W THEN "wait" ELSE "none", 0, NoSend)]
             /\ acceptor' = At(IF accepts THEN "wait" ELSE "none", 0)
             /\ monitor' = IF monitors THEN "scan" ELSE "none"
             /\ stopper' = IF monitors THEN "idle" ELSE "failed"
  /\ UNCHANGED <<setting, lastId, tableVars, inputVars, feedVars, outputVars, opVars, scopeVars,
                 ending, app, wakes>>

accept_loop ==
  /\ Free("accept")
  /\ Accept \/ OnAccepting \/ AcceptExits \/ Reject
  /\ UNCHANGED <<ownerVars, tableVars, inputVars, feedVars, outputVars, workVars, opVars,
                 scopeVars, ending, app, wakes>>

\* There is room and the socket joins the port, or it is dropped.  Capacity is
\* checked here, and only this thread adds connections.
Admit ==
  /\ acceptor.at = "register" /\ running /\ ~AtCapacity
  /\ acceptor' \in {At("publish", acceptor.client), At("wait", 0)}
  /\ UNCHANGED <<ownerVars, lastId, tableVars, inputVars, feedVars, outputVars, workVars, opVars,
                 scopeVars, ending, app, wakes>>

\* The callback scope begins before the connection is in the registry.
Publish ==
  LET c == acceptor.client IN
  /\ acceptor.at = "publish"
  /\ registered' = registered \cup {c}
  /\ begin_callback(c)
  /\ on_connected(c)
  /\ acceptor' = At("connected", c)
  /\ UNCHANGED <<ownerVars, lastId, closing, inputVars, outputVars, workVars, opVars,
                 ending, app, wakes>>

ConnectedReturns ==
  /\ \/ /\ acceptor.at = "connected"
        /\ Returned(acceptor.client)
        /\ acceptor' = At("leave", acceptor.client)
        /\ UNCHANGED <<scopeVars, ending>>
     \/ /\ acceptor.at = "leave"
        /\ end_callback("accept", acceptor.client)
        /\ acceptor' = At("receive", acceptor.client)
  /\ UNCHANGED <<ownerVars, lastId, tableVars, inputVars, outputVars, workVars, opVars, app, wakes>>

\* The first receive is posted, unless the connection or the server is closing
\* or the submission fails.
FirstReceive ==
  LET c == acceptor.client IN
  /\ acceptor.at = "receive" /\ Free("accept")
  /\ acceptor' = At("wait", 0)
  /\ \/ /\ running /\ ~closing[c]
        /\ receiveOp' = receiveOp \cup {c}
        /\ UNCHANGED <<tableVars, sendQueue, ending>>
     \/ /\ Erase("accept", c)
        /\ UNCHANGED receiveOp
  /\ UNCHANGED <<ownerVars, lastId, inputVars, feedVars, outputVars, workVars, sendOp, sendBusy,
                 scopeVars, app, wakes>>

\* The monitor disconnects a connection it found idle, and exits at the head of
\* its loop.
idle_monitor_loop ==
  /\ monitor = "scan" /\ Free("monitor")
  /\ \E c \in registered : Erase("monitor", c)
  /\ UNCHANGED <<ownerVars, acceptVars, inputVars, feedVars, outputVars, workVars, receiveOp, sendOp,
                 sendBusy, scopeVars, app, wakes>>

MonitorExits ==
  /\ monitor = "scan" /\ Free("monitor") /\ ~running
  /\ monitor' = "exited"
  /\ UNCHANGED <<serverVars, worker, opVars, scopeVars, ending, app, wakes>>
-----------------------------------------------------------------------------
(***************************************************************************)
(* Workers.  The operation a worker has taken counts as pending until the  *)
(* iteration ends, or complete_send gives it up.                           *)
(***************************************************************************)
Goes(w, where) == worker' = [worker EXCEPT ![w].at = where]
Done(w) == worker' = [worker EXCEPT ![w] = Work("wait", 0, NoSend)]

Waits(w) == worker[w].at = "wait" /\ Free(w)
Holds(w) == worker[w].at \notin {"none", "wait", "failed", "exited"}

PendingOperations ==
  Cardinality(receiveOp) + Cardinality({c \in Clients : sendOp[c] # NoSend})
    + Cardinality({w \in Workers : Holds(w)})

\* A completion: the worker looks at its outcome, running_ and closing_.
Takes(w, c, ok, where, op) ==
  worker' = [worker EXCEPT ![w] =
               Work(IF ok /\ running /\ ~closing[c] THEN where ELSE "drop", c, op)]

ReceiveCompletes(w, c) ==
  /\ Waits(w) /\ c \in receiveOp
  /\ receiveOp' = receiveOp \ {c}
  /\ \E ok \in BOOLEAN :
       /\ ok => read[c] < Len(Input(c))
       /\ Takes(w, c, ok, "begin", NoSend)
  /\ UNCHANGED <<serverVars, monitor, sendOp, sendQueue, sendBusy, scopeVars, ending, app, wakes>>

\* The kernel has written some of what is left of the message, or failed.
SendCompletes(w, c) ==
  LET op == sendOp[c] IN
  /\ Waits(w) /\ op # NoSend
  /\ sendOp' = [sendOp EXCEPT ![c] = NoSend]
  /\ \/ /\ Writable(c)
        /\ \E k \in 1..(2 - op.written) :
             /\ wire' = [wire EXCEPT ![c] = @ \o [i \in 1..k |-> PieceOf(op.message, op.written + i)]]
             /\ Takes(w, c, TRUE, "sent", [op EXCEPT !.written = @ + k])
     \/ /\ IF Writable(c) THEN Write(c, End) ELSE UNCHANGED wire
        /\ Takes(w, c, FALSE, "sent", NoSend)
  /\ UNCHANGED <<ownerVars, acceptVars, tableVars, inputVars, feedVars, sent,
                 monitor, receiveOp, sendQueue, sendBusy, scopeVars, ending, app, wakes>>

\* The next queued message becomes the operation, if the submission succeeds.
post_next_send(c, queue, ok) ==
  /\ queue = <<>> => ok
  /\ sendQueue' = [sendQueue EXCEPT ![c] = IF queue = <<>> THEN <<>> ELSE Tail(queue)]
  /\ sendBusy' = [sendBusy EXCEPT ![c] = ok /\ queue # <<>>]
  /\ sendOp' = IF ok /\ queue # <<>>
               THEN [sendOp EXCEPT ![c] = [message |-> Head(queue), written |-> 0]]
               ELSE sendOp

\* complete_send: nothing for a closed connection; the rest of a short write
\* is submitted again; else the next message follows.
complete_send(w) ==
  LET c == worker[w].client IN
  /\ worker[w].at = "sent"
  /\ \/ closing[c] /\ Done(w) /\ UNCHANGED <<sendOp, sendQueue, sendBusy>>
     \/ /\ ~closing[c] /\ worker[w].op.written < 2
        /\ \/ sendOp' = [sendOp EXCEPT ![c] = worker[w].op] /\ Done(w)
           \/ UNCHANGED sendOp /\ Goes(w, "failed")
        /\ UNCHANGED <<sendQueue, sendBusy>>
     \/ /\ ~closing[c] /\ worker[w].op.written = 2
        /\ \E ok \in BOOLEAN :
             /\ post_next_send(c, sendQueue[c], ok)
             /\ IF ok THEN Done(w) ELSE Goes(w, "failed")
  /\ UNCHANGED <<serverVars, monitor, receiveOp, scopeVars, ending, app, wakes>>

\* The worker disconnects the connection of a failed completion, of input over
\* the limit or of a failed submission, then goes on.
WorkerDisconnects(w) ==
  /\ \/ worker[w].at = "drop" /\ Goes(w, "release")
     \/ worker[w].at = "overflow" /\ Goes(w, "leave")
     \/ worker[w].at = "failed" /\ Done(w)
  /\ Erase(w, worker[w].client)
  /\ UNCHANGED <<ownerVars, acceptVars, inputVars, feedVars, outputVars, monitor, receiveOp, sendOp,
                 sendBusy, scopeVars, app, wakes>>

\* The iteration ends and with it the operation.
Release(w) ==
  /\ worker[w].at = "release" /\ Free(w)
  /\ Done(w)
  /\ UNCHANGED <<serverVars, monitor, opVars, scopeVars, ending, app, wakes>>

WorkerExits(w) ==
  /\ Waits(w) /\ wakes > 0
  /\ wakes' = wakes - 1
  /\ Goes(w, "exited")
  /\ UNCHANGED <<serverVars, monitor, opVars, scopeVars, ending, app>>
-----------------------------------------------------------------------------
(***************************************************************************)
(* deliver_received.                                                       *)
(***************************************************************************)

\* The callback scope is entered unless the connection is closing; then the
\* bytes go to the framer while the server runs.
BeginDelivery(w) ==
  LET c == worker[w].client IN
  /\ worker[w].at = "begin"
  /\ \/ closing[c] /\ Goes(w, "release") /\ UNCHANGED <<inputVars, scopeVars>>
     \/ /\ ~closing[c] /\ ~running
        /\ begin_callback(c) /\ Goes(w, "leave") /\ UNCHANGED inputVars
     \/ /\ ~closing[c] /\ running
        /\ begin_callback(c)
        /\ \E k \in 1..Len(Input(c)) : Receive(c, k)
        /\ Goes(w, IF framer'[c].failed THEN "overflow" ELSE "pop")
  /\ UNCHANGED <<ownerVars, acceptVars, tableVars, feedVars, outputVars, monitor, opVars,
                 ending, app, wakes>>

\* A line popped after the server stopped or the connection closed is dropped.
PopLine(w) ==
  LET c == worker[w].client IN
  /\ worker[w].at = "pop"
  /\ IF CanPop(framer[c]) /\ running /\ ~closing[c]
     THEN on_message(c) /\ Goes(w, "message")
     ELSE /\ framer' = [framer EXCEPT ![c] = IF CanPop(@) THEN try_pop(@) ELSE @]
          /\ Goes(w, "leave")
          /\ UNCHANGED feedVars
  /\ UNCHANGED <<ownerVars, acceptVars, tableVars, read, outputVars, monitor, opVars, scopeVars,
                 ending, app, wakes>>

MessageReturns(w) ==
  /\ worker[w].at = "message"
  /\ Returned(worker[w].client)
  /\ Goes(w, "pop")
  /\ UNCHANGED <<ownerVars, acceptVars, tableVars, inputVars, outputVars, monitor, opVars, scopeVars,
                 ending, app, wakes>>

EndDelivery(w) ==
  /\ worker[w].at = "leave" /\ Free(w)
  /\ end_callback(w, worker[w].client)
  /\ Goes(w, "post")
  /\ UNCHANGED <<ownerVars, acceptVars, tableVars, inputVars, outputVars, monitor, opVars, app, wakes>>

\* post_receive, unless the connection or the server is closing.
PostReceive(w) ==
  LET c == worker[w].client IN
  /\ worker[w].at = "post" /\ Free(w)
  /\ Goes(w, "release")
  /\ \/ /\ running /\ ~closing[c]
        /\ receiveOp' = receiveOp \cup {c}
        /\ UNCHANGED <<tableVars, sendQueue, ending>>
     \/ /\ running
        /\ Erase(w, c)
        /\ UNCHANGED receiveOp
     \/ /\ ~running \/ closing[c]
        /\ UNCHANGED <<tableVars, sendQueue, ending, receiveOp>>
  /\ UNCHANGED <<ownerVars, acceptVars, inputVars, feedVars, outputVars, monitor, sendOp, sendBusy,
                 scopeVars, app, wakes>>
-----------------------------------------------------------------------------
(***************************************************************************)
(* What the application calls.                                             *)
(***************************************************************************)
disconnect(c) ==
  /\ app = Idle /\ Free("app") /\ c \in registered
  /\ Erase("app", c)
  /\ UNCHANGED <<ownerVars, acceptVars, inputVars, feedVars, outputVars, workVars, receiveOp, sendOp,
                 sendBusy, scopeVars, app, wakes>>

send(c) ==
  /\ app = Idle /\ Free("app") /\ c \in registered /\ sent < setting.sends
  /\ sent' = sent + 1
  /\ app' = [at |-> "send", client |-> c, message |-> sent + 1]
  /\ UNCHANGED <<ownerVars, acceptVars, tableVars, inputVars, feedVars, wire, workVars, opVars,
                 scopeVars, ending, wakes>>

\* Connection::send under socket_mutex_: queued behind the operation in flight,
\* or submitted.
ConnectionSend ==
  LET c == app.client
      queue == Append(sendQueue[c], app.message) IN
  /\ app.at = "send"
  /\ \/ /\ closing[c]
        /\ app' = [app EXCEPT !.at = "failed"]
        /\ UNCHANGED <<sendQueue, sendOp, sendBusy>>
     \/ /\ ~closing[c] /\ sendBusy[c]
        /\ sendQueue' = [sendQueue EXCEPT ![c] = queue]
        /\ app' = Idle
        /\ UNCHANGED <<sendOp, sendBusy>>
     \/ /\ ~closing[c] /\ ~sendBusy[c]
        /\ \E ok \in BOOLEAN :
             /\ post_next_send(c, queue, ok)
             /\ app' = IF ok THEN Idle ELSE [app EXCEPT !.at = "failed"]
  /\ UNCHANGED <<serverVars, workVars, receiveOp, scopeVars, ending, wakes>>

SendFailed ==
  /\ app.at = "failed"
  /\ Erase("app", app.client)
  /\ app' = Idle
  /\ UNCHANGED <<ownerVars, acceptVars, inputVars, feedVars, outputVars, workVars, receiveOp, sendOp,
                 sendBusy, scopeVars, wakes>>
-----------------------------------------------------------------------------
(***************************************************************************)
(* stop().                                                                 *)
(***************************************************************************)
Stops(from, to) == stopper = from /\ stopper' = to

StopBegins ==
  /\ stopper \in {"idle", "failed"}
  /\ stopper' = "joinAccept"
  /\ running' = FALSE
  /\ UNCHANGED <<setting, acceptVars, tableVars, inputVars, feedVars, outputVars, workVars, opVars,
                 scopeVars, ending, app, wakes>>

\* stop() waits for the accept thread, the monitor, the operations, the workers.
StopWaits ==
  /\ \/ acceptor.at \in {"none", "exited"} /\ Stops("joinAccept", "joinMonitor")
     \/ monitor \in {"none", "exited"} /\ Stops("joinMonitor", "close")
     \/ PendingOperations = 0 /\ Stops("drain", "wake")
     \/ (\A w \in Workers : worker[w].at \in {"none", "exited"}) /\ Stops("joinWorkers", "returned")
  /\ UNCHANGED <<setting, running, acceptVars, tableVars, inputVars, feedVars, outputVars, workVars, opVars,
                 scopeVars, ending, app, wakes>>

\* Nothing is added to the registry any more, so what is left of the snapshot
\* is what is left in the registry.
close_all_connections ==
  /\ stopper = "close" /\ Free("stop")
  /\ \/ /\ \E c \in registered : Erase("stop", c)
        /\ UNCHANGED stopper
     \/ /\ registered = {} /\ stopper' = "drain"
        /\ UNCHANGED <<tableVars, sendQueue, ending>>
  /\ UNCHANGED <<setting, running, acceptVars, inputVars, feedVars, outputVars, workVars, receiveOp, sendOp,
                 sendBusy, scopeVars, app, wakes>>

wake_workers ==
  /\ Stops("wake", "joinWorkers")
  /\ wakes' = Cardinality({w \in Workers : worker[w].at # "none"})
  /\ UNCHANGED <<setting, running, acceptVars, tableVars, inputVars, feedVars, outputVars, workVars, opVars,
                 scopeVars, ending, app>>
-----------------------------------------------------------------------------
AcceptThread == accept_loop \/ Admit \/ Publish \/ ConnectedReturns \/ FirstReceive

\* What a worker does without waiting for a peer.
WorkerSteps(w) ==
  \/ WorkerDisconnects(w) \/ Release(w) \/ WorkerExits(w)
  \/ BeginDelivery(w) \/ PopLine(w) \/ MessageReturns(w) \/ EndDelivery(w) \/ PostReceive(w)
  \/ complete_send(w)

\* A closed socket cancels its operations; the port hands them to a worker.
Completions(c) == \E w \in Workers : ReceiveCompletes(w, c) \/ SendCompletes(w, c)

Disconnects(a) == request_disconnect_notification(a) \/ NotifyReturns(a)

stop ==
  \/ stopper = "failed" /\ StopBegins
  \/ StopWaits \/ close_all_connections \/ wake_workers

Next ==
  \/ start \/ StopBegins \/ stop
  \/ AcceptThread
  \/ idle_monitor_loop \/ MonitorExits
  \/ \E w \in Workers : WorkerSteps(w)
  \/ \E c \in Clients : Completions(c) \/ disconnect(c) \/ send(c)
  \/ ConnectionSend \/ SendFailed
  \/ \E a \in Actors : Disconnects(a)
-----------------------------------------------------------------------------
\* When stop() has returned, no thread, operation or callback is left, every
\* socket is closed and every session that was announced was also ended; only
\* an application thread may still be telling the end of the connection it has
\* itself disconnected.
StopLeavesNothing ==
  stopper = "returned" =>
    /\ registered = {}
    /\ acceptor.at \in {"none", "exited"} /\ monitor \in {"none", "exited"}
    /\ \A w \in Workers : worker[w].at \in {"none", "exited"}
    /\ receiveOp = {}
    /\ \A c \in Clients :
         /\ sendOp[c] = NoSend
         /\ feed[c] # "new" => closing[c]
         /\ ending["app"].client = c \/ (callback[c] = "none" /\ feed[c] # "connected")
=============================================================================
