# ServerEngine: TLA+ models, model checking and proofs

ServerEngine is a C++ network engine behind a C ABI. An application creates a
server handle, adds listeners (TCP, UDP, WebSocket, HTTP; plain or TLS), starts
it and *polls* for events; no callback ever runs application code on an I/O
thread. Beside the server there are asynchronous data services (SQLite, Redis)
with the same submit/poll style, an older line-oriented runtime over threaded
and IOCP sockets, and a datagram transport. Source paths below are relative to
the repository root.

## Inventory

| Component | State it keeps | Operations | Talks to | What is hard, what makes it correct |
|---|---|---|---|---|
| Event queue `src/Runtime/Host/EventQueue` | FIFO of events, byte count, sequence number, stopped/overflow flags | `push`, `poll`, `finish`, `overflowed` | worker pushes, application polls | caps, small buffers, terminal overflow; FIFO without gaps, exact accounting, terminal answers are final |
| Server host `src/Runtime/Host/ServerHost` | configuring/running/stopped, listener table, lifecycle lock | `add_listener`, `start`, `stop`, `send`, `disconnect`, `respond_http`, `poll` | transport, event queue | several threads calling, poll without the lock, poll that turns into stop; no ghost sessions, synchronous stop |
| Transport `src/Net/Async/TransportService`, `WorkerContext` | one worker thread, command channel, connection registry, id counters | `start`, `stop`, `invoke`, registry and notifications | listeners, connections, host callbacks | failed starts, forced stop, commands that wait for the worker; every command is answered, nothing survives the worker |
| Listeners and connections `src/Net/Async/*` | per connection: opened/closed, deadline generation, send queue, pending HTTP request; per UDP listener: peer table | accept, handshake, read, write, deadline, close | registry, notifications | stale timeouts, refused events, write initiation failures; one CLOSE per OPEN, bounded queues, one answer per request |
| SQL service `src/Data/Sql` | requests by id with a state, reserved memory, stop flag; driver: transaction, deadline, poisoned flag | `submit`, `poll`, `read_result`, `release`, `stop` | SQLite | stop and deadline against COMMIT, failed ROLLBACK; atomic batches, truthful and final answers, exact reservations |
| Redis service `src/Data/Redis` | pending/ready lists, byte and slot reservations; one connection | `submit`, `poll`, `stop` | Redis | a write cut off half way; no definite answer for an ambiguous write |
| IOCP backend `src/Net/Iocp` | connections with outstanding operations and callbacks, completion port | accept, receive, send, disconnect, stop | line runtime | completions on many threads, deferred disconnect notification, stop against all of it; callbacks in order and never two at once, nothing left after stop |
| Threaded backend `src/Net/Threaded` | client table, one thread per client | accept loop, client loop, stop | line runtime | registration against stop, blocked sends; whole writes, stop returns and leaves nothing |
| Line framer `src/Net/Detail/LineFramer.h` | partial line | `append` | both backends | limits, split delimiters; the lines do not depend on how the stream is cut |
| Line runtime `src/Runtime/*` | server state, session registry, connection hub | start/stop, connect/message/disconnect | backends, handler | callbacks racing with removal, repeated connection ids; exact session count, nobody inherits a login |
| Datagram transport `src/Net/Transports/Gns` | connections, event queue, shutdown | create, poll, send, close | GameNetworkingSockets | event overflow, callbacks during shutdown; ordered events, no leaked native connection |
| C ABI `src/Abi` | handle registries | create, use, destroy | all of the above | use against destroy; a destroyed host is stopped and freed last |
| HTTP codec, response validation, TLS set-up | none | pure functions and OpenSSL set-up | HTTP connections | encoding limits |
| Examples `examples/*` | players, signalling rooms | event loops | C ABI / C++ SDK | stale pairing |
| Core, Port, Security | configuration, logger, buffers, OS wrappers | parsing and wrapping | everything | – |

`PROJECT.json` lists the same components with their status, and under `hazards`
what is hard to test in them, each at its line.

## Modules

| Module | Models | Role |
|---|---|---|
| `EventQueue` | `EventQueue.cpp` | component |
| `EventQueueProofs` | – | TLAPS proofs about `EventQueue` |
| `ServerHost` | `ServerHost.cpp`, `TransportService.cpp`, `WorkerContext.cpp`, and the outcome of what listeners and connections do | composition; instantiates `EventQueue` |
| `ServerHostProofs` | – | TLAPS proofs about `ServerHost`, with the refinement of `SessionFeed`, and about `HandleRegistry`; uses `EventQueueProofs` |
| `SessionFeed` | – | abstract: what the polling application is promised |
| `SqlService` | `Data/Sql/Service.cpp`, `SqliteDriver.cpp`, `SqliteStatement.cpp` | component |
| `SqlServiceProofs` | – | TLAPS proofs about `SqlService`, with the refinement of `SqlContract` |
| `SqlContract` | – | abstract: what a caller of the SQL service is promised |
| `RedisService` | `Data/Redis/Service.cpp`, `Connection.cpp` | component |
| `RedisServiceProofs` | – | TLAPS proofs about `RedisService`, with the refinement of `RedisContract` |
| `RedisContract` | – | abstract: what a caller of the Redis service is promised |
| `HandleRegistry` | `Abi/HandleRegistry.cpp`, `Lifecycle.cpp`, `Messaging.cpp`, `Http.cpp` | one handle of the C interface; extends `ServerHost` |
| `ConnectionState` | `Net/Async/ConnectionState.cpp` | what stream and HTTP connections share: flags, deadline, exits |
| `StreamConnection` | `TcpConnection.h`, `WebSocketConnection.h` | component; extends `ConnectionState` |
| `HttpConnection` | `HttpConnection.h`, `HttpResponseValidation.cpp` | component; extends `ConnectionState` |
| `UdpListener` | `UdpListener.cpp`, `UdpPeer.cpp` | component |
| `Connections` | the choice made by `TcpListener::admit` and `make_udp_listener` | composition of the four |
| `ConnectionsProofs` | – | TLAPS proofs about `Connections` |
| `LineFramer` | `Net/Detail/LineFramer.h` | pure algorithm and its reference |
| `ITcpServer` | what both line backends share | base; extends `LineFramer` |
| `ThreadedServer` | `Net/Threaded` | component; extends `ITcpServer` |
| `IocpServer` | `Net/Iocp` | component; extends `ITcpServer` |
| `TcpServer` | `TcpBackend.cpp` | composition of the two |
| `TcpServerProofs` | – | TLAPS proofs about `TcpServer`, with what `LineFramer` computes |
| `LineRuntime` | `Runtime/Server.cpp`, `TcpListener.cpp`, `SessionRegistry.cpp`, `ConnectionHub.cpp`, `Session.cpp`, `examples/EchoServer/EchoHandler.cpp` | component |
| `LineRuntimeProofs` | – | TLAPS proofs about `LineRuntime` |
| `DatagramTransport` | `Net/Transports/Gns` | component |
| `DatagramTransportProofs` | – | TLAPS proofs about `DatagramTransport` |
| `MCEventQueue`, `MCServerHost`, `MCHandleRegistry`, `MCSqlService`, `MCRedisService`, `MCConnections`, `MCTcpServer`, `MCLineRuntime`, `MCDatagramTransport` | – | small instances for TLC |

Operators whose comment begins with *Wrong variant of* are not part of a
specification: each is a plausible mistake in the definition that follows it,
and substituting it makes a property fail (`mutants` in `PROJECT.json`).

### EventQueue

The object has one mutex, so `push`, `poll` and `finish` are one step each.
`push` splits into `PushAccepted`, `PushRefused` (stopped or overflowed
already) and `PushOverflows` (a cap is hit or the allocation throws: history
cleared, `overflow_` set). `poll` splits by its return value: `PollOverflow`,
`PollStopped`, `PollTimeout`, `PollBufferTooSmall`, `PollReady`. A payload is
its size. `delivered`, `latest` and `told` record what polls have returned.

### ServerHost

An application thread holds `lifecycle_mutex_` for a whole call (variable
`lifecycle`), posts a command to the worker (`command`) and waits for its
future (`answer`). The worker runs one handler at a time; a handler takes the
queue's lock once per event it pushes, so what is left of the running handler
is the sequence `tasks` and pollers interleave between its steps. Handlers
start from network completions (`Admit`, `dispatch_datagram`, `HandshakeDone`,
`Receive`, `ConnectionEnds`, `AcceptFails`, `ReceiveFails`) or from commands (`RunStart`, `RunStop`,
`RunDisconnect`, `RunSend`). `start` and `stop` follow the code: a failed start
stops the worker again and leaves the host configuring; a stop whose command
cannot be posted closes everything on the calling thread without callbacks
(`ForcedStop`, `poisoned`). `poll` takes no lock and, when it reads OVERFLOW,
goes on into `stop`. Connections appear by their outcome: open, message, ended
with or without an error. When the text of a UDP error cannot be allocated the
worker loop reports that exception instead and the peers stay. Framing, TLS, deadlines and
send queues are inside those outcomes; `Connections` has the detail. `view`
records what the application has read about a session. `SessionFeed` sees every
event a poll returns, by its number, kind and session: messages and HTTP requests
only between OPEN and CLOSE, errors about no session, and nothing after OVERFLOW
or STOPPED.

### HandleRegistry

Every exported call looks its handle up under the registry's lock, keeps a
`shared_ptr` (`useCount`) and only then takes the host's locks; `inside` says
what a thread does with the host it found. The calls are the actions of
`ServerHost` between `find_host` and the return that drops the reference
(`ReleaseOnReturn`). `se_server_destroy` takes the entry out, stops the host and
drops its own reference. The model starts after `se_server_create`; numbers are
never reused, so one handle is enough.

### Connections

`ConnectionState` has the flags and the deadline timer with its generation
counter: an expired timer queues a handler (`due`), activity may re-arm the
timer before that handler runs. `StreamConnection` adds the handshakes (TLS,
WebSocket upgrade), the read chain, and the send queue with its byte count and
write chain; `HttpConnection` reads one request, hands it out under an id, and
waits for the answer to that id. `UdpListener` has the table from addresses to
peers, per-peer send queues over a shared socket and the sweep of idle peers.
Every asynchronous operation may succeed, fail, throw when it is started, or
complete after `close()`. `Connections` picks one protocol in its initial state,
so that the same properties are checked of all of them. Payloads are sizes;
which header fields make a request unacceptable is an input.

`UdpListener` shows one gap. `UdpPeer::complete_send` (`UdpPeer.cpp:96-99`)
composes the text of a failed send before it calls `close()`, and so does
`UdpListener::on_receive` (`UdpListener.cpp:96-97`) for a fatal receive error. If
that allocation throws, the worker loop reports the exception and goes on
(`TransportService.cpp:231-239`). A peer is then left open with queued datagrams
and none in flight, and later sends see a queue that is not empty and do not
start it again; a listener is left bound without a receive. Two comments say
otherwise: "Do not leave queued packets with no send in flight."
(`UdpListener.cpp:152`) and "Diagnostic allocation must not prevent socket
cleanup." (`ConnectionState.cpp:80`). The model has both outcomes (`complete_send`
with the history `stuck`, `ReceiveLost`), and `NeverStalled` says what the code
does guarantee: this is the only way in which a live peer's sends can end, and the
timer that evicts silent peers is set as long as there is a peer.

### TcpServer

`ITcpServer` has the accept thread, the registry, the framer of each client and
the callbacks, which take time and may themselves disconnect. `ThreadedServer`
adds a thread per client with blocking reads and sends that block while the peer
does not read; `stop` swaps the client table, shuts the sockets down and joins.
`IocpServer` adds workers that take completions, the outstanding receive and
send of a connection, the callback scope with the deferred disconnect
notification, the idle monitor, and `stop`, which drains the outstanding
operations before it wakes the workers. Time stamps are not modelled: the
monitor, or a timed-out read, may end any connection. A backend is started and
stopped once. `LineFramer` has the code's loop over the bytes of a read as a
recursive function (`CountAll`); a read takes any prefix of what the client
still has to send. A write that failed is followed by no other on its socket
(`Writable`). That is an assumption about sockets: `ClientConnection::send`
returns false and would try again.

### LineRuntime

Two listeners, each numbering its own connections, share one session registry
and one hub. A callback is cut where it takes a lock: admission, mapping,
dispatching `started`, a message, dispatching `stopped`, removal. `start` may
fail at any listener, `stop` stops them one by one, and both may be repeated.
The backends are represented by what `TcpServer` shows of them, with the
exception that a last notification may be lost (`TcpListener::stop` cleans up
after that). While the server stops, `on_session_stopped` is not dispatched,
which `docs/architecture.md` states too.

### DatagramTransport

One process-wide runtime with one mutex. A poll takes it, pumps (status
callbacks, then the messages of each endpoint), takes an event, and gives it up
while it waits; the GNS actions (`GnsInbound`, `GnsConnected`, `GnsLost`,
`GnsMessage`) happen at any time, and a status change waits in `callbacks`.
`send` hands a message to GNS and changes nothing here. The byte count of a
queue is compared with a running total over its events (`IsRunningTotal`), the
form in which it can be proved as well as checked.

### SqlService

`submit`, `poll`, `release` and the worker's critical sections hold `mutex_`
and are one step each. `SqliteDriver::execute` runs without it, so it is cut at
every place where it looks at the stop flag or the clock or calls SQLite:
`Prepare`, `Begin`, `execute_statement`/`StatementFails`, `LastCheck`,
`CommitSucceeds`/`CommitFails`/`CommitAmbiguous`, `Cleanup`, then `Publish`.
`stop` and `Expire` (the deadline passing) interleave anywhere. SQLite itself
is external: a transaction is open on behalf of a request or not (`txn`),
statements outside a transaction are durable at once, COMMIT is all or nothing
and may fail inside or after the transaction, ROLLBACK may fail.

### RedisService

`submit` and `poll` hold `mutex_` and are one step each. After `stop` the worker
fails what is pending in one critical section; the loop is unrolled
(`BeginFailing`, `FailPending`, `EndFailing`) and `MutexFree` keeps the other
threads out. `Connection::execute` is cut at its looks at the cancel flag and
at every `drain()`: `Start`, `ConnectReturns`, `Authenticate`, `AuthReturns`,
`Format`, `Command`, `CommandReturns`. Inside `drain()` handlers run in any
order: `Connected`, `WriteCompletes`, `read_reply`, their failures, `Timeout`
and `CancelRuns`. `cancel()` is two steps because the flag and the posted
handler are separate, and posting may fail. `status_` and `reply_` are
forgotten once judged (`Judged`), since the code sets them again before it
reads them.

Redis and the network are external. A command is on the `wire` once its last
byte has left; closing the connection does not take it back (`late`), so a
write may be carried out after its answer. A reply carries the command it
answers, which is what `OwnReply` compares.

## Runs

| Run | Checks | Shows |
|---|---|---|
| `event_queue` | `Gapless`, `Accounted`, `StoppedAfterDrain`, `OverflowIsTerminal`, `TerminalIsReported` | the queue alone, all call orders and buffer sizes |
| `server_host` | `TypeOK`, `NoGhostSessions`, `WorkerBoundary`, `StopIsSynchronous`, `FeedSpec` | two threads, worker, stream and UDP listener; the host implements `SessionFeed` |
| `handle_calls` | `DestroyIsFinal`, `CallsReturn` | calls and destroy race on one handle; every call gives the lock back |
| `sql_service` | `ReservationsExact`, `StatusTruth`, `TransactionsSeparate`, `StoppedLosesNothing`, `Contract`, `NobodyWaitsForever` | races of callers, worker, stop and deadline; the service implements `SqlContract` |
| `redis_service` | `InOrder`, `CountersExact`, `OutcomeTruth`, `OwnReply`, `Contract`, `NobodyWaitsForever` | races of callers, worker, handlers, timer, cancel and server; the service implements `RedisContract`; nobody waits for ever, even with a silent server and no cancel handler |
| `connections` | `BytesAreExact`, `NeverStalled`, `InOrder`, `PeersMatchRegistry`, `DeadlineIsReal`, `SilenceEnds` | TCP, WebSocket, HTTP and UDP with late, failing and throwing operations |
| `tcp_server` | `CallbacksInOrder`, `LinesAreWhole`, `WritesStayWhole`, `StopLeavesNothing`, `StopReturns` | both line backends, with lines, sends, disconnects and stop racing |
| `line_runtime` | `SessionsExact`, `OnlyUsersAreAnswered`, `HandlerInOrder` | sessions across listeners, logins, failed and repeated starts |
| `datagram` | `EventsInOrder`, `ResourcesExact` | two endpoints over one GNS runtime |
| `stopped_answer` (violation) | `StoppedMeansStopped` | SE_STOPPED is returned before the server has stopped, against `docs/dll-quickstart.md` |
| `sql_cancelled` (violation) | `CancelledOnlyByStop` | a deadline that passes before BEGIN is reported as a cancellation, against `docs/data-services.md` |
| `redis_trailing` (violation) | `TrailingNeverTaken` | surplus bytes that arrive after a reply was read become the next request's reply, against the comment in `read_reply` |

`TypeOK` of `EventQueue` and of `SqlService` is proved only (below); in the other
modules it is checked, by itself or as a conjunct of one of the invariants listed.

### Bounds

* `event_queue`: three entries, three bytes, payloads 0..2, four events pushed.
  Both caps are hit separately, and the queue is drained and refilled.
* `server_host`: two threads, two listeners, two connections, two session ids
  (so ids run out and admission is refused), a queue of three entries and two
  bytes, and no new network input after four events (`MaxInputs`). Every
  session can open, speak and close before the input ends, and overflow
  happens at every point. Threads are interchangeable (symmetry).
* `sql_service`: three request ids, batches of one or two statements, two
  outstanding requests, a budget of three units with reservations of one or
  two, so that slots, memory and ids each run out.

* `redis_service`: three request ids, so that one request can fail, the next
  reuse or reopen the connection and a third wait; requests of one or two bytes
  and limits of two slots, two queued bytes and one GET, each of which refuses
  a request the other two admit.
* `handle_calls`: two threads, one of which can destroy while the other is
  between the lookup and the call; one listener, one connection at a time, two
  session ids, three inputs.
* `connections`: payloads of 0, 130 and 131 bytes against a message and datagram
  limit of 130 and a send budget of 260, so that a large frame fits once, the entry limit of
  two is hit by small ones and one payload is refused; three accepted sends and
  two reads, timeouts of one and two ticks, three request ids; two addresses and
  three session ids, so that an address is taken again by a second peer.
* `tcp_server`: eight loads, listed in `MCTcpServer`: empty, CR LF and overlong
  lines in every cut, two sends at once, a second client at a limit of one, two
  clients whose callbacks send to each other; two IOCP workers.
* `line_runtime`: three connections for two sessions, two starts, two messages,
  ids that repeat across listeners and after the restart.
* `datagram`: two endpoints of one peer each, two native connections, two
  messages of which one may be too large, a queue of two events and three bytes,
  so that both caps are hit. Endpoints and connections are interchangeable
  (symmetry; no liveness is checked there).

### Fairness

* `EventQueue`: a host that keeps polling with a sufficient buffer.
* `ServerHost`: the worker thread keeps running its handler (weak); a posted
  command is eventually dequeued even if network completions keep arriving,
  because `io_context` runs handlers in the order they were queued (strong);
  a thread inside a call continues (weak). Nothing is assumed of the network or
  of which thread gets the lock next.
* `SqlService`: the worker keeps running, that is, SQLite calls return (the
  documentation says that a blocked disk call may delay stop), and so does the
  thread inside `stop`.
* `HandleRegistry`: as `ServerHost`.
* `Connections`: the clock advances, and the worker starts what was admitted and
  runs the timer handlers that are queued. No peer has to send, read or
  acknowledge, and the application need not answer.
* `TcpServer`: every thread runs and callbacks return, unless they are inside a
  send that waits for a peer; operations on a closed socket complete. No client
  has to do anything, and nobody has to call `stop`.
* `RedisService`: the worker runs its code and queued handlers, the timer of an
  operation fires, and the thread inside `stop` continues. Nothing is assumed
  of Redis or of the network.

## Proofs

`EventQueueProofs` proves, for all caps and payload sizes, that `Spec` implies
`[]TypeOK`, `[]Gapless`, `[]Accounted`, `[]StoppedAfterDrain` and
`OverflowIsTerminal`. The only assumption is that the caps are natural numbers
(`QueueAssumption`).

`TypeOK /\ Gapless /\ Accounted` is inductive as a whole: `bytes` stays a
natural number because it is the last of a running total whose first step is
the head's size (`HeadWithinBytes`), and the total is carried as a witness
(`Accounted` says that such a function exists) so that no induction over the
queue is needed: a push extends the witness, a poll shifts it. The terminal
properties need a second invariant, `TerminalInv`, which relates the flags to
what polls have said.

`SqlServiceProofs` proves, for every number of ids, statements and bytes and
every limit, that `Spec` implies `[]TypeOK`, `[]StatusTruth`,
`[]TransactionsSeparate`, `[]InOrder`, `[]StoppedLosesNothing`,
`[]ReservationsExact` and `AnswerIsFinal`, and that it implements `Contract`.
The assumption is that the limits are positive (`SqlAssumption`); what
`decode_options` guarantees beyond that is not needed.

None of these is inductive alone, so they rest on one invariant `Inv`:

* `TableInv`: an id not given out yet, and a queued request, have no effect and
  no result; an accepted request has at least one statement (or OK could not be
  told from nothing done).
* `JobInv`: the worker's job is the one running request.
* `DriverInv`: place by place, what is durable of the job and what its result
  says; up to COMMIT nothing is, and with a transaction still open in cleanup
  the result is not OK, so that a rollback cannot undo what OK promised.
* `EndInv`: the worker leaves with nothing queued, and `stop` and SE_STOPPED
  come after it.
* `InOrder` and `ReservationsExact` themselves. `release` keeps
  `reservedBytes` within its type only because of the latter
  (`ReservedWithin`). As in the queue, the sum is carried as a witness that
  `submit` raises and `release` lowers from the request's id on.

One lemma per action (`...Keeps`) shows that it preserves `Inv`. `TablesFrame`
and `DriverFrame` prove once what whole groups of actions leave alone. For the
refinement, COMMIT is the step where a request takes effect and `Publish` the
step where it is answered; everything else the worker does is invisible.

`RedisServiceProofs` proves, for every number of ids and sizes and every limit,
that `Spec` implies `[]CountersExact`, `[]InOrder`, `[]OwnReply` and
`[]OutcomeTruth`, and that it implements `Contract`, under `RedisAssumption`.
`Inv` has the parts that these need of each other:

* `OrderInv`: `ready`, the running request and `pending` are consecutive ids, so
  that what a request holds follows from its id (`TableInv`).
* `CounterInv`: the counters as totals with a witness, as in the SQL service.
* `WireInv`: at most the current command, or its one reply, is on the
  connection, and only while a handler works on it.
* `EffectAt`: for a request not begun nothing was sent; for the one being run
  what was sent, replied and judged so far; for a completed one that its answer
  is true. `OutcomeTruth` alone says nothing while a write is half way.

`ServerHostProofs` proves, for any number of threads, listeners, sessions and
inputs and any queue limits, that `Spec` implies `[]TypeOK`,
`[]NoGhostSessions`, `[]WorkerBoundary` and `StopIsSynchronous`, and that it
implements `FeedSpec`. The assumption is `HostAssumption`: limits are natural
numbers, there is at least one listener slot and one session id, and `NoThread`
is not a thread. The queue is an instance of `EventQueue`, and
`QueueInTheHost` carries the queue's theorems into the host: every step of the
host is a step of the queue or leaves it alone. The invariant has

* `LockAt`: who holds the lifecycle lock, and what the host is doing then;
* `StateInv`: a worker runs exactly while the host is running, starting or
  stopping, and without one the transport is empty;
* `CommandInv`, `StopInv`: a call in flight is a posted command, a handler that
  will answer, or an answer, exactly one of them, and its caller waits for it;
  how far the stop command is, piece by piece;
* `RegistryInv`, `TaskInv`: session ids are given out once; an OPEN is the first
  piece of its handler, so nothing about a session is queued before it;
* `SessionAt`: per session, how the registry, the queue and what the application
  has read fit together: at most one OPEN and one CLOSE queued, in this order.
  `NoGhostSessions` is its last conjunct; the others keep it inductive.

The refinement needs one invariant more, `SpeechInv`: a queued message lies behind
the OPEN of its session, queued or delivered, and before its CLOSE; an error names
no session; and the last number delivered is below the next one, so that the
overflow event comes after all of them. It follows from where handlers publish: a
session is in `opened` when it speaks, and leaves it with its CLOSE.

The last part of `ServerHostProofs` shows that the calls behind a handle are steps of the host
(`AbiSpec` implies `Spec`), so that all of this holds of the exported interface,
and proves `[]DestroyIsFinal`. `HandleInv` counts: the use count is the table
entry plus the threads inside, which is where the set of threads must be finite
(`ThreadsAssumption`).

`LineRuntimeProofs` proves, for any number of listeners, connections and sessions
and any starts, that `Spec` implies `[]SessionsExact`, `[]OnlyUsersAreAnswered`
and `HandlerInOrder`. The invariant follows a connection from callback to
callback (`ConnAt`), with the state of the transports (`OwnerInv`), that a
session id is held by exactly one connection (`HeldInv`), and that the handler
has not heard of an id that was not given out (`FreshInv`).

`DatagramTransportProofs` proves, for any number of endpoints, native connections
and pollers and any limits, that `Spec` implies `[]EventsInOrder` and
`[]ResourcesExact`, under `DatagramAssumption`. `EventsInOrder` speaks of what
polls returned; that is inductive only together with what is queued and what
the connection is by now:

* `Story`: what was said of a peer followed by what is queued of it is in order;
* `NativeOK`: a peer marked connected has begun its story and not ended it
  (`Begun`, `NotEnded`), one not marked has none (`Quiet`); a connection that
  nobody owns has its first status change still to come, once, and an inbound
  one that waits for it has no story, so accepting it late starts a new one;
* `EndpointOK`: flags, limits and byte count of an endpoint by itself;
  `AtHome`: events are about the endpoint's own connections; `PeersOK`: the
  peer table is within its limit; `PollersOK`, `RestMade`: one poll has the
  mutex, and it reads from endpoints that exist.

`Step`, `PushStep` and `DropStep` prove once what queueing an event and shutting
an endpoint down do to all connections; the lemmas of the actions cite them.

`ConnectionsProofs` proves, for all limits, timeouts, payload sizes and any number
of endpoints, sessions and requests, that `Spec` implies `[]BytesAreExact`,
`[]NeverStalled`, `[]InOrder`, `[]PeersMatchRegistry` and `DeadlineIsReal`, under
`ConnectionAssumption` and `ProtocolAssumption`. Here the total of a queue is a
recursive function, `TotalCost`, and not a witness. `Least` (every non-empty set
of natural numbers has a least element, from the well-foundedness of `<`) is
used in place of an induction rule: `SumsExist` and `SumsUnique` look at the
least place where the function could fail to exist or two could differ, and the
lemmas `...Append` and `...Tail` say what a send adds and a completion takes back.
`Inv` has one part for each protocol:

* `StreamInv`: while the connection lives, `opened_` says which reads may be in
  flight, the outstanding write is the first queued frame, frames are queued only
  once it is open, and what is on the wire followed by what is queued is numbered
  without gaps; once closed, queue and counter are empty. `NeverStalled` and
  `WireInOrder` are not inductive without the numbers of the queued frames.
* `TimerOK`: no queued expiry handler is of a later arm than the last, and the
  quiet time plus what remains of the wait covers what the phase allows, so that
  when the handler of the last arm is queued the time is over. `DeadlineIsReal`
  follows because an older handler finds another generation.
* `HttpInv`: the requests taken are the answered ones and at most one more, which
  is pending (and then `number` of its id says so) or is being written.
* `UdpInv`: `PeerOK` per peer, `SendsFirst` (of a live peer exactly the first
  datagram is being sent, and of one that is `stuck`, whose queue is never empty,
  none), that peers exist only while the listener is open, `FreshOK` (ids not given out have no peer object and
  no outstanding send) and `TableOK`, which also says that every registered peer
  is found under its own address; without that `forget_peer`, which erases by
  address, could take another peer's entry.

`TcpServerProofs` proves, for any streams, limits and numbers of clients, workers
and sends, that `Spec` implies `[]LinesAreWhole`, `[]WritesStayWhole`,
`[]StopLeavesNothing` (with `TypeOK`) and `CallbacksInOrder`, under
`ServerAssumption`: the limits are natural numbers, a setting names one of the
two backends and streams of bytes, and the workers are finitely many and none of
them is one of the other actors. `Inv` is `InputInv` and the part of the backend
in use:

* `InputInv`: the framer holds the last bytes received and counts the bytes since
  the last LF right, unless it has failed (`FramerOK`, `LineCount`), and as long as
  a connection delivers, the place of the next line to pop is right behind the
  end of as many lines as were delivered (`LinesEndAt`). The last is what makes
  the next popped line the next line of the stream; it ends where the IOCP
  backend drops a line, after which it delivers none (`Delivers`). The loop of
  `append` is unrolled as in `ConnectionsProofs` (`CountsExist`, `CountAllKeeps`,
  by `Least`).
* threaded: `OwnerT` and `AcceptT` say how far `stop` and the accept thread are;
  `ClientT`, for each client, that its callback and what the runtime heard follow
  from where its thread is, and that whoever was announced is in the table, in
  `stop`'s snapshot, about to be closed, or closed; `WireT`, that the send mutex
  has one owner and the wire ends inside a message exactly when the owner is
  between its two pieces.
* IOCP: `OwnerI`, `AcceptI`, `FreeI`, `WorkerI`, `AppI`, where every thread is and
  who has a disconnect under way; `TurnI`, receiving for a connection is the turn
  of the kernel, the accept thread or one worker; `ScopeI`, `active_callbacks_` is
  1 exactly while the one whose turn it is is inside the callback scope, and which
  callback runs; `TokenI`, the end of a connection is told by one: the connection
  is in the registry, or whoever removed it will ask, or has left it to the
  running callback, or it was told; `WireI`, at most one send operation of a
  connection exists, submitted or in the hands of a worker, and it says how much
  of its message the wire has.

`CallbacksInOrder` is where these meet: a deferred end is told only by the actor
that leaves the scope (`TokenI`, `TurnI`), when no callback is running (`ScopeI`).

Every inductive invariant was also evaluated by TLC on the instance of its run
before it was proved.

What is only model-checked: the liveness properties `TerminalIsReported`,
`CallsReturn`, `NobodyWaitsForever` (twice), `SilenceEnds` and `StopReturns`
(fairness and ENABLED are outside the prover's fragment). Every invariant, every
action property and every refinement that a passing run checks is proved.

## Not modelled

Argument validation beyond the limits it guarantees (`decode`, `decode_options`,
`validate`, `valid_options` state those), structure layout, texts and
diagnostics; what OpenSSL, Asio, Beast, SQLite and GNS do inside. A timeout of
`poll` and calls that are refused change nothing and are left out of the
compositions. The header fields of HTTP messages and the encoding of a request
event are string handling without state. Handle numbers, and the registries of
the SQL and Redis services, which repeat the shape of the server handles' one.
Time stamps of the line backends, statistics counters of the hub. The example
applications other than the echo handler are single-threaded event loops over
the public interface; the clients are interactive. Core, Port, Security and TLS
set-up are parsing and wrappers of the operating system.

## Plan

1. Done: every component above that keeps state shared between threads, and the
   proofs of what the runs check of them, liveness aside.
2. The abstract connection of `ServerHost` as a specification that `Connections`
   implements; today the two are only compared by reading. In the same way, what
   `LineRuntime` assumes of the backends against `TcpServer`.
3. `SignalRoom` and `GameServer` as clients of `SessionFeed`.
