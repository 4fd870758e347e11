--------------------------- MODULE ThreadedServer ---------------------------
(***************************************************************************)
(* The portable line backend (src/Net/Threaded/TcpServerImpl.cpp,          *)
(* ClientConnection.cpp): an accept thread, one thread per client with     *)
(* blocking reads, and application code that sends and disconnects from    *)
(* its callbacks and from a thread of its own.  A send blocks while the    *)
(* peer does not read.                                                     *)
(***************************************************************************)
EXTENDS ITcpServer

VARIABLES
  thread,    \* where the thread of each client is
  snapshot,  \* the clients stop() has swapped out and not disconnected yet
  dropping,  \* erased by an application thread, not closed yet
  sender,    \* the send call each caller is in
  sendLock   \* send_mutex_ of each client: its owner, in a set

threadVars == <<thread, snapshot, dropping>>
sendVars == <<sender, sendLock>>

\* Who may call send: a thread of the application, on_connected in the accept
\* thread, on_message in the thread of a client (which has the client's number).
App == 0
AcceptCaller == MaxClients + 1
Callers == Clients \cup {App, AcceptCaller}

Idle == [at |-> "idle", client |-> 0, message |-> 0]

TypeOK ==
  /\ ServerTypeOK
  /\ stopper \in {"configured", "idle", "swap", "disconnect", "joinAccept", "joinClients", "returned"}
  /\ thread \in [Clients -> {"none", "receive", "pop", "message", "leaving", "notify",
                             "telling", "finished", "joined"}]
  /\ snapshot \subseteq Clients /\ dropping \subseteq Clients
  /\ sender \in [Callers -> [at : {"idle", "lock", "write1", "write2"},
                             client : 0..MaxClients, message : 0..MaxSends]]
  /\ sendLock \in [Clients -> SUBSET Callers]

ThreadedInit ==
  /\ thread = [c \in Clients |-> "none"]
  /\ snapshot = {} /\ dropping = {}
  /\ sender = [a \in Callers |-> Idle]
  /\ sendLock = [c \in Clients |-> {}]
-----------------------------------------------------------------------------
\* The listener cannot be opened (its address, socket, bind or listen): nothing
\* is left behind.
OpenFails == stopper' = "returned" /\ UNCHANGED <<running, acceptor>>

\* start() opens the listener and creates the accept thread, or fails clean.
start ==
  /\ stopper = "configured"
  /\ \/ running' = TRUE /\ stopper' = "idle" /\ acceptor' = At("wait", 0)
     \/ OpenFails
  /\ UNCHANGED <<setting, lastId, tableVars, inputVars, feedVars, outputVars, threadVars, sendVars>>

\* reap_finished_clients joins the threads that have ended.
Reaped == [c \in Clients |-> IF thread[c] = "finished" THEN "joined" ELSE thread[c]]

accept_loop ==
  /\ \/ Accept /\ thread' = Reaped
     \/ (OnAccepting \/ AcceptExits \/ Reject) /\ UNCHANGED thread
  /\ UNCHANGED <<ownerVars, tableVars, inputVars, feedVars, outputVars,
                 snapshot, dropping, sendVars>>

\* Registration looks at running_ under clients_mutex_, which stop()'s swap
\* takes too; then on_connected runs in the accept thread.
Register ==
  /\ acceptor.at = "register" /\ running /\ ~AtCapacity
  /\ registered' = registered \cup {acceptor.client}
  /\ on_connected(acceptor.client)
  /\ acceptor' = At("connected", acceptor.client)
  /\ UNCHANGED <<ownerVars, lastId, closing, inputVars, outputVars, threadVars, sendVars>>

\* From here on reads and writes of the client's socket end.
shutdown_socket(c) == closing' = [closing EXCEPT ![c] = TRUE]

\* disconnect() of a thread that then looks at the client again.
Drop(c) ==
  /\ registered' = registered \ {c}
  /\ closing' = [closing EXCEPT ![c] = @ \/ c \in registered]

\* launch_client: the thread starts, or the session is taken back.
launch_client ==
  /\ acceptor.at = "connected" /\ sender[AcceptCaller] = Idle
  /\ Returned(acceptor.client)
  /\ \/ /\ thread' = [thread EXCEPT ![acceptor.client] = "receive"]
        /\ acceptor' = At("wait", 0)
        /\ UNCHANGED tableVars
     \/ /\ Drop(acceptor.client)
        /\ acceptor' = At("notify", acceptor.client)
        /\ UNCHANGED thread
  /\ UNCHANGED <<ownerVars, lastId, inputVars, outputVars, snapshot, dropping, sendVars>>

LaunchFailed ==
  /\ \/ /\ acceptor.at = "notify"
        /\ on_disconnected(acceptor.client)
        /\ acceptor' = At("telling", acceptor.client)
     \/ /\ acceptor.at = "telling"
        /\ Returned(acceptor.client)
        /\ acceptor' = At("wait", 0)
  /\ UNCHANGED <<ownerVars, lastId, tableVars, inputVars, outputVars, threadVars, sendVars>>
-----------------------------------------------------------------------------
(***************************************************************************)
(* The thread of a client: receive_messages, disconnect, on_disconnected.  *)
(***************************************************************************)

\* A read returns data, or the loop ends: the peer closed, the read failed, the
\* idle timeout passed, the input exceeds the limit, or somebody closed us.
Read(c) ==
  /\ thread[c] = "receive" /\ ~closing[c]
  /\ \E k \in 1..Len(Input(c)) : Receive(c, k)
  /\ thread' = [thread EXCEPT ![c] = IF framer'[c].failed THEN "leaving" ELSE "pop"]
  /\ UNCHANGED <<ownerVars, acceptVars, tableVars, feedVars, outputVars, snapshot, dropping, sendVars>>

ReadEnds(c) ==
  /\ thread[c] = "receive"
  /\ thread' = [thread EXCEPT ![c] = "leaving"]
  /\ UNCHANGED <<serverVars, snapshot, dropping, sendVars>>

DeliverLine(c) ==
  /\ thread[c] = "pop"
  /\ IF ~closing[c] /\ CanPop(framer[c])
     THEN on_message(c) /\ thread' = [thread EXCEPT ![c] = "message"]
     ELSE thread' = [thread EXCEPT ![c] = "receive"] /\ UNCHANGED <<framer, feedVars>>
  /\ UNCHANGED <<ownerVars, acceptVars, tableVars, read, outputVars, snapshot, dropping, sendVars>>

MessageReturns(c) ==
  /\ thread[c] = "message" /\ sender[c] = Idle
  /\ Returned(c)
  /\ thread' = [thread EXCEPT ![c] = "pop"]
  /\ UNCHANGED <<ownerVars, acceptVars, tableVars, inputVars, outputVars, snapshot, dropping, sendVars>>

\* Wrong variant of run_client: the end is told only by who removed the client.
TellsOnlyIfRegistered(c) ==
  /\ \/ /\ thread[c] = "leaving"
        /\ Drop(c)
        /\ thread' = [thread EXCEPT ![c] = IF c \in registered THEN "notify" ELSE "finished"]
        /\ UNCHANGED feedVars
     \/ /\ thread[c] = "notify"
        /\ on_disconnected(c)
        /\ thread' = [thread EXCEPT ![c] = "telling"]
        /\ UNCHANGED tableVars
     \/ /\ thread[c] = "telling"
        /\ Returned(c)
        /\ thread' = [thread EXCEPT ![c] = "finished"]
        /\ UNCHANGED tableVars
  /\ UNCHANGED <<ownerVars, acceptVars, inputVars, outputVars, snapshot, dropping, sendVars>>

\* run_client after the loop: disconnect finds the client only if nobody has
\* removed it before; the runtime is told in any case.
run_client(c) ==
  /\ \/ /\ thread[c] = "leaving"
        /\ Drop(c)
        /\ thread' = [thread EXCEPT ![c] = "notify"]
        /\ UNCHANGED feedVars
     \/ /\ thread[c] = "notify"
        /\ on_disconnected(c)
        /\ thread' = [thread EXCEPT ![c] = "telling"]
        /\ UNCHANGED tableVars
     \/ /\ thread[c] = "telling"
        /\ Returned(c)
        /\ thread' = [thread EXCEPT ![c] = "finished"]
        /\ UNCHANGED tableVars
  /\ UNCHANGED <<ownerVars, acceptVars, inputVars, outputVars, snapshot, dropping, sendVars>>
-----------------------------------------------------------------------------
(***************************************************************************)
(* What the application calls.                                             *)
(***************************************************************************)

\* disconnect(): erase under the lock, close after it.
disconnect(c) ==
  /\ c \in registered
  /\ registered' = registered \ {c}
  /\ dropping' = dropping \cup {c}
  /\ UNCHANGED <<ownerVars, acceptVars, closing, inputVars, feedVars, outputVars,
                 thread, snapshot, sendVars>>

DisconnectCloses(c) ==
  /\ c \in dropping
  /\ shutdown_socket(c)
  /\ dropping' = dropping \ {c}
  /\ UNCHANGED <<ownerVars, acceptVars, registered, inputVars, feedVars, outputVars,
                 thread, snapshot, sendVars>>

MayCall(a) ==
  /\ sender[a] = Idle
  /\ \/ a = App
     \/ a = AcceptCaller /\ acceptor.at = "connected"
     \/ a \in Clients /\ thread[a] = "message"

\* send(): the client is looked up under clients_mutex_.
send(a, c) ==
  /\ MayCall(a) /\ c \in registered /\ sent < setting.sends
  /\ sent' = sent + 1
  /\ sender' = [sender EXCEPT ![a] = [at |-> "lock", client |-> c, message |-> sent + 1]]
  /\ UNCHANGED <<ownerVars, acceptVars, tableVars, inputVars, feedVars, wire, threadVars, sendLock>>

\* Wrong variant of SendLocks: the send mutex is not taken.
SendsUnlocked(a) ==
  /\ sender[a].at = "lock"
  /\ sender' = [sender EXCEPT ![a] = IF closing[@.client] THEN Idle ELSE [@ EXCEPT !.at = "write1"]]
  /\ UNCHANGED <<serverVars, threadVars, sendLock>>

\* ClientConnection::send takes the send mutex and looks at closed_.
SendLocks(a) ==
  LET c == sender[a].client IN
  /\ sender[a].at = "lock" /\ sendLock[c] = {}
  /\ IF closing[c]
     THEN sender' = [sender EXCEPT ![a] = Idle] /\ UNCHANGED sendLock
     ELSE /\ sender' = [sender EXCEPT ![a].at = "write1"]
          /\ sendLock' = [sendLock EXCEPT ![c] = {a}]
  /\ UNCHANGED <<serverVars, threadVars>>

\* Each piece waits for the peer to make room.
SendWrites(a) ==
  LET c == sender[a].client IN
  /\ sender[a] # Idle /\ Writable(c)
  /\ \/ /\ sender[a].at = "write1"
        /\ Write(c, PieceOf(sender[a].message, 1))
        /\ sender' = [sender EXCEPT ![a].at = "write2"]
        /\ UNCHANGED sendLock
     \/ /\ sender[a].at = "write2"
        /\ Write(c, PieceOf(sender[a].message, 2))
        /\ sender' = [sender EXCEPT ![a] = Idle]
        /\ sendLock' = [sendLock EXCEPT ![c] = {}]
  /\ UNCHANGED <<ownerVars, acceptVars, tableVars, inputVars, feedVars, sent, threadVars>>

\* A blocked write fails when the peer is lost, and once the socket was shut down.
SendFails(a) ==
  LET c == sender[a].client IN
  /\ sender[a].at \in {"write1", "write2"}
  /\ IF Writable(c) THEN Write(c, End) ELSE UNCHANGED wire
  /\ sender' = [sender EXCEPT ![a] = Idle]
  /\ sendLock' = [sendLock EXCEPT ![c] = {}]
  /\ UNCHANGED <<ownerVars, acceptVars, tableVars, inputVars, feedVars, sent, threadVars>>
-----------------------------------------------------------------------------
(***************************************************************************)
(* stop().                                                                 *)
(***************************************************************************)
Stops(from, to) == stopper = from /\ stopper' = to

StopBegins ==
  /\ Stops("idle", "swap")
  /\ running' = FALSE
  /\ UNCHANGED <<setting, acceptVars, tableVars, inputVars, feedVars, outputVars, threadVars, sendVars>>

StopSwaps ==
  /\ Stops("swap", "disconnect")
  /\ snapshot' = registered
  /\ registered' = {}
  /\ UNCHANGED <<setting, running, acceptVars, closing, inputVars, feedVars, outputVars,
                 thread, dropping, sendVars>>

\* Wrong variant of StopDisconnects: the accept thread is joined first.
StopJoinsFirst ==
  /\ stopper = "disconnect"
  /\ acceptor.at = "exited"
  /\ \/ \E c \in snapshot :
          /\ shutdown_socket(c)
          /\ snapshot' = snapshot \ {c}
          /\ UNCHANGED stopper
     \/ snapshot = {} /\ stopper' = "joinAccept" /\ UNCHANGED <<closing, snapshot>>
  /\ UNCHANGED <<setting, running, acceptVars, registered, inputVars, feedVars, outputVars,
                 thread, dropping, sendVars>>

StopDisconnects ==
  /\ stopper = "disconnect"
  /\ \/ \E c \in snapshot :
          /\ shutdown_socket(c)
          /\ snapshot' = snapshot \ {c}
          /\ UNCHANGED stopper
     \/ snapshot = {} /\ stopper' = "joinAccept" /\ UNCHANGED <<closing, snapshot>>
  /\ UNCHANGED <<setting, running, acceptVars, registered, inputVars, feedVars, outputVars,
                 thread, dropping, sendVars>>

StopJoins ==
  /\ \/ acceptor.at = "exited" /\ Stops("joinAccept", "joinClients")
     \/ /\ \A c \in Clients : thread[c] \in {"none", "finished", "joined"}
        /\ Stops("joinClients", "returned")
  /\ UNCHANGED <<setting, running, acceptVars, tableVars, inputVars, feedVars, outputVars,
                 threadVars, sendVars>>
-----------------------------------------------------------------------------
AcceptThread == accept_loop \/ Register \/ launch_client \/ LaunchFailed

\* The steps the thread of a client takes by itself.
ThreadSteps(c) ==
  \/ closing[c] /\ ReadEnds(c)
  \/ DeliverLine(c)
  \/ MessageReturns(c)
  \/ run_client(c)

\* A write goes on only when the peer reads or the socket was shut down.
SendSteps(a) ==
  \/ SendLocks(a)
  \/ sender[a] # Idle /\ closing[sender[a].client] /\ SendFails(a)

stop == StopSwaps \/ StopDisconnects \/ StopJoins

Next ==
  \/ start \/ StopBegins \/ stop
  \/ AcceptThread
  \/ \E c \in Clients :
       \/ Read(c) \/ ReadEnds(c) \/ DeliverLine(c) \/ MessageReturns(c) \/ run_client(c)
       \/ disconnect(c) \/ DisconnectCloses(c)
       \/ \E a \in Callers : send(a, c)
  \/ \E a \in Callers : SendLocks(a) \/ SendWrites(a) \/ SendFails(a)
-----------------------------------------------------------------------------
\* When stop() has returned, no thread and no callback is left, every socket
\* was shut down and every session that was announced was also ended.
StopLeavesNothing ==
  stopper = "returned" =>
    /\ registered = {} /\ snapshot = {}
    /\ acceptor.at \in {"none", "exited"}
    /\ \A c \in Clients :
         /\ thread[c] \in {"none", "finished", "joined"}
         /\ callback[c] = "none"
         /\ feed[c] \in {"new", "disconnected"}
         /\ feed[c] # "new" => closing[c] \/ c \in dropping
=============================================================================
