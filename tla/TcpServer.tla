------------------------------ MODULE TcpServer ------------------------------
(***************************************************************************)
(* The line server behind TcpBackend: the setting chooses the threaded or  *)
(* the IOCP backend; the state of the other stays initial.                 *)
(***************************************************************************)
EXTENDS ITcpServer

CONSTANT Workers  \* see IocpServer

ASSUME ServerAssumption ==
  /\ MaxClients \in Nat \ {0} /\ MaxMessageBytes \in Nat /\ MaxSends \in Nat
  /\ IsFiniteSet(Workers) /\ Workers \cap {"accept", "monitor", "stop", "app"} = {}
  /\ \A s \in Settings :
       /\ s.backend \in {"threaded", "iocp"}
       /\ s.connections \in Nat /\ s.sends \in 0..MaxSends
       /\ s.input \in Seq(Seq({"x", LF, CR})) /\ Len(s.input) <= MaxClients

VARIABLES
  thread, snapshot, dropping, sender, sendLock,  \* ThreadedServer
  worker, monitor, receiveOp, sendOp, sendQueue, sendBusy, active, deferred, ending,
  app, wakes                                     \* IocpServer

Threaded == INSTANCE ThreadedServer
Iocp == INSTANCE IocpServer

threadedVars == <<thread, snapshot, dropping, sender, sendLock>>
iocpVars == <<worker, monitor, receiveOp, sendOp, sendQueue, sendBusy, active, deferred, ending,
              app, wakes>>
vars == <<serverVars, threadedVars, iocpVars>>

IsThreaded == setting.backend = "threaded"

Init ==
  /\ ServerInit
  /\ Threaded!ThreadedInit
  /\ Iocp!IocpInit

ThreadedStep == IsThreaded /\ Threaded!Next /\ UNCHANGED iocpVars
IocpStep == ~IsThreaded /\ Iocp!Next /\ UNCHANGED threadedVars

Next == ThreadedStep \/ IocpStep

Spec == Init /\ [][Next]_vars

\* Each thread runs; a call of the application that began goes on; callbacks
\* return unless they are in a send that waits for a peer.  No client has to
\* connect, send or read, and nobody has to call stop().
ThreadedFairness ==
  /\ WF_vars(IsThreaded /\ Threaded!stop /\ UNCHANGED iocpVars)
  /\ WF_vars(IsThreaded /\ Threaded!AcceptThread /\ UNCHANGED iocpVars)
  /\ \A c \in Clients :
       /\ WF_vars(IsThreaded /\ Threaded!ThreadSteps(c) /\ UNCHANGED iocpVars)
       /\ WF_vars(IsThreaded /\ Threaded!DisconnectCloses(c) /\ UNCHANGED iocpVars)
  /\ \A a \in Threaded!Callers :
       WF_vars(IsThreaded /\ Threaded!SendSteps(a) /\ UNCHANGED iocpVars)

IocpFairness ==
  /\ WF_vars(~IsThreaded /\ Iocp!stop /\ UNCHANGED threadedVars)
  /\ WF_vars(~IsThreaded /\ Iocp!AcceptThread /\ UNCHANGED threadedVars)
  /\ WF_vars(~IsThreaded /\ Iocp!MonitorExits /\ UNCHANGED threadedVars)
  /\ \A w \in Workers :
       WF_vars(~IsThreaded /\ Iocp!WorkerSteps(w) /\ UNCHANGED threadedVars)
  /\ \A c \in Clients :
       WF_vars(~IsThreaded /\ closing[c] /\ Iocp!Completions(c) /\ UNCHANGED threadedVars)
  /\ \A a \in Iocp!Actors :
       WF_vars(~IsThreaded /\ Iocp!Disconnects(a) /\ UNCHANGED threadedVars)

FairSpec == Spec /\ ThreadedFairness /\ IocpFairness
-----------------------------------------------------------------------------
TypeOK == IF IsThreaded THEN Threaded!TypeOK ELSE Iocp!TypeOK

\* Stopping really stops, see the backends, and the state is well typed.
StopLeavesNothing ==
  /\ TypeOK
  /\ IF IsThreaded THEN Threaded!StopLeavesNothing ELSE Iocp!StopLeavesNothing

\* A stop() that was called returns, also while callbacks are blocked sending
\* to peers that do not read, and while operations are being cancelled.
StopReturns == stopper \notin {"configured", "idle"} ~> stopper = "returned"
=============================================================================
