-------------------------- MODULE ServerHostProofs --------------------------
(***************************************************************************)
(* Proofs about the server host, for every number of application threads,  *)
(* listeners, connections and session ids and every limit of the queue: no *)
(* session is left open without its CLOSE, the transport is clean whenever *)
(* no worker runs, stop() is synchronous, and the application sees what    *)
(* SessionFeed promises.  The last part is about a server handle of the C  *)
(* interface, shared by any number of threads: what holds of the host      *)
(* holds behind the handle, and destroy is final.                          *)
(***************************************************************************)
EXTENDS HandleRegistry, FiniteSetTheorems, TLAPS

\* What is proved about the queue by itself, for the queue of the host.
QP == INSTANCE EventQueueProofs WITH Peers <- 0..MaxSessionId, MaxSequence <- MaxInputs

\* The queue: well typed, without gaps, accounted for, and final at its end.
QueueInv ==
  /\ Q!TypeOK /\ Q!Gapless /\ Q!Accounted /\ Q!StoppedAfterDrain
  /\ overflow => entries = <<>>
  /\ overflowReported => overflow /\ told # "live"
  /\ told = "overflow" => overflowReported

\* The type invariant without the queue's.
FlagType == running \in BOOLEAN /\ poisoned \in BOOLEAN /\ stopping \in BOOLEAN
HostType ==
  /\ hostState \in {"Configuring", "Running", "Stopped"}
  /\ listeners \in 0..MaxListeners
  /\ lifecycle \in Threads \cup {NoThread}
  /\ pc \in [Threads -> {"idle", "stop", "starting", "failing", "halting", "calling"}]
RegistryType ==
  /\ listening \subseteq Ids /\ connections \subseteq Sessions /\ opened \subseteq Sessions
  /\ home \in [Sessions -> 0..MaxListeners] /\ nextSessionId \in 0..MaxSessionId
  /\ view \in [Sessions -> {"unknown", "open", "closed"}]
CommandType ==
  /\ command \in Command /\ answer \in {"pending", "true", "false"} /\ tasks \in Seq(Task)

\* Who holds lifecycle_mutex_, and in which state of the host.
LockAt(t) ==
  /\ lifecycle = t <=> pc[t] \in {"starting", "failing", "halting", "calling"}
  /\ pc[t] \in {"starting", "failing"} => hostState = "Configuring" /\ running
  /\ pc[t] \in {"halting", "calling"} => hostState = "Running" /\ running

\* When a worker runs, and what is left when none does.
Clean ==
  /\ listening = {} /\ connections = {} /\ opened = {}
  /\ tasks = <<>> /\ command = NoCommand /\ answer = "pending"
StateInv ==
  /\ hostState = "Running" => running
  /\ hostState = "Stopped" => ~running
  /\ running /\ hostState = "Configuring" => lifecycle # NoThread
  /\ stopped <=> hostState = "Stopped"
  /\ ~running => Clean
  /\ poisoned => ~running

\* A call in flight is a posted command, the end of a handler, or an answer,
\* and somebody waits for it.
Answering == \E i \in 1..Len(tasks) : tasks[i].do = "answer"
Waiter ==
  [start |-> {"starting"}, stop |-> {"failing", "halting"},
   send |-> {"calling"}, disconnect |-> {"calling"}]
CommandInv ==
  /\ command # NoCommand => ~Answering /\ answer = "pending"
  /\ Answering => answer = "pending"
  /\ Answering \/ answer # "pending" => lifecycle # NoThread
  /\ command.op = "none" => command = NoCommand
  /\ command.op # "none" => lifecycle \in Threads /\ pc[lifecycle] \in Waiter[command.op]
  /\ lifecycle \in Threads /\ InStopLocked(lifecycle) /\ (Answering \/ answer # "pending") => stopping

\* How far the stop command is.
StopInv ==
  running /\ stopping =>
    /\ lifecycle \in Threads /\ InStopLocked(lifecycle)
    /\ listening = {} /\ command = NoCommand
    /\ \/ tasks = <<closeAll(Ids), reply(TRUE)>> /\ answer = "pending"
       \/ tasks = <<reply(TRUE)>> /\ answer = "pending" /\ connections = {}
       \/ tasks = <<>> /\ answer = "true" /\ connections = {}

\* Ids are given out once, and live connections have one.
Allocated(s) == nextSessionId = 0 \/ s < nextSessionId
RegistryInv ==
  /\ opened \subseteq connections
  /\ \A s \in connections : Allocated(s) /\ home[s] \in Ids

\* OPEN comes first in a handler and the answer last.
TaskAt(i) ==
  /\ tasks[i].do \in {"open", "message", "close"} => tasks[i].session \in Sessions
  /\ tasks[i].do = "open" => i = 1 /\ tasks[i].session \in connections \ opened
  /\ tasks[i].do = "answer" => i = Len(tasks)
TaskInv == \A i \in 1..Len(tasks) : TaskAt(i)

\* The i-th queued event opens or closes session s.
IsEvent(i, kind, s) == entries[i].kind = kind /\ entries[i].peer = s

\* What is queued about a session, and what the application knows of it.
Fresh(s) == view[s] = "unknown" /\ ~Queued("Open", s) /\ ~Queued("Close", s)
SessionAt(s) ==
  /\ s \in connections \ opened \/ ~Allocated(s) => Fresh(s)
  /\ \A i \in 1..Len(entries) : IsEvent(i, "Open", s) =>
       /\ view[s] = "unknown"
       /\ \A j \in 1..Len(entries) : IsEvent(j, "Open", s) => j = i
  /\ \A i \in 1..Len(entries) : IsEvent(i, "Close", s) =>
       /\ s \notin opened
       /\ view[s] = "open" \/ \E j \in 1..(i - 1) : IsEvent(j, "Open", s)
       /\ \A j \in 1..Len(entries) : IsEvent(j, "Close", s) => j = i
  /\ view[s] = "closed" => s \notin opened
  /\ s \in opened /\ ~overflow => view[s] = "open" \/ Queued("Open", s)
  /\ ~overflow /\ ~poisoned /\ (view[s] = "open" \/ Queued("Open", s)) =>
       s \in opened \/ Queued("Close", s)

Inv ==
  /\ QueueInv /\ FlagType /\ HostType /\ RegistryType /\ CommandType
  /\ \A t \in Threads : LockAt(t)
  /\ StateInv /\ CommandInv /\ StopInv /\ RegistryInv /\ TaskInv
  /\ \A s \in Sessions : SessionAt(s)
-----------------------------------------------------------------------------
\* The constants.
LEMMA HostConstants ==
  /\ MaxListeners \in Nat /\ MaxListeners > 0 /\ MaxSessionId \in Nat /\ MaxSessionId > 0
  /\ MaxCount \in Nat /\ MaxBytes \in Nat /\ MaxPayload \in Nat /\ MaxInputs \in Nat
  /\ NoThread \notin Threads /\ 0 \in 0..MaxSessionId /\ 0 \notin Sessions
  /\ Sessions \subseteq Nat /\ Sessions \subseteq 0..MaxSessionId
BY HostAssumption DEF Sessions
-----------------------------------------------------------------------------
(***************************************************************************)
(* The queue inside the host.                                              *)
(***************************************************************************)

\* An event the host pushes, or a call of poll or finish.
PushEvent ==
  \E kind \in Q!EventKinds, peer \in 0..MaxSessionId, size \in 0..MaxPayload :
    Q!PushAccepted(kind, peer, size)
QueueStep ==
  \/ PushEvent \/ Q!PushRejected \/ Q!PollReady(MaxPayload) \/ Q!PollOverflow \/ Q!PollStopped
  \/ Q!finish \/ UNCHANGED queueVars

\* The queue's assumption holds of the host's queue.
LEMMA QueueConstants == QP!QueueAssumption
BY HostConstants DEF QP!QueueAssumption

\* The two instances of the queue's module are the same.
QueueSafe == Q!TypeOK /\ Q!Gapless /\ Q!Accounted
LEMMA SameQueue ==
  /\ QueueSafe <=> QP!TypeOK /\ QP!Gapless /\ QP!Accounted
  /\ Q!EventKinds = QP!EventKinds
  /\ (Q!PushRejected <=> QP!PushOverflows \/ (QP!Closed /\ UNCHANGED QP!qvars))
  /\ (Q!PollReady(MaxPayload) <=> QP!PollReady(MaxPayload))
  /\ (Q!PollOverflow <=> QP!PollOverflow) /\ (Q!PollStopped <=> QP!PollStopped)
  /\ (Q!finish <=> QP!finish) /\ (UNCHANGED queueVars <=> UNCHANGED QP!qvars)
<1>1. QueueSafe <=> QP!TypeOK /\ QP!Gapless /\ QP!Accounted
  BY DEF QueueSafe, Q!TypeOK, Q!Gapless, Q!Accounted, QP!TypeOK, QP!Gapless, QP!Accounted,
     Q!Event, QP!Event, Q!EventKinds, QP!EventKinds, Q!Nothing, QP!Nothing, Q!TheOverflow,
   QP!TheOverflow, Q!IsPrefixSum, QP!IsPrefixSum
<1>2. Q!EventKinds = QP!EventKinds
  BY DEF Q!EventKinds, QP!EventKinds
<1>3. UNCHANGED queueVars <=> UNCHANGED QP!qvars
  BY DEF queueVars, QP!qvars
<1>4. Q!PushRejected <=> QP!PushOverflows \/ (QP!Closed /\ UNCHANGED QP!qvars)
  BY DEF Q!PushRejected, Q!PushRefused, Q!PushOverflows, Q!Closed, Q!qvars, QP!PushOverflows,
     QP!Closed, QP!qvars
<1>5. Q!PollReady(MaxPayload) <=> QP!PollReady(MaxPayload)
  BY DEF Q!PollReady, QP!PollReady
<1>6. (Q!PollOverflow <=> QP!PollOverflow) /\ (Q!PollStopped <=> QP!PollStopped)
  BY DEF Q!PollOverflow, QP!PollOverflow, Q!TheOverflow, QP!TheOverflow, Q!PollStopped, QP!PollStopped
<1>7. Q!finish <=> QP!finish
  BY DEF Q!finish, QP!finish
<1> QED  BY <1>1, <1>2, <1>3, <1>4, <1>5, <1>6, <1>7

LEMMA SameQueueNext == QueueSafe' <=> (QP!TypeOK /\ QP!Gapless /\ QP!Accounted)'
BY DEF QueueSafe, Q!TypeOK, Q!Gapless, Q!Accounted, QP!TypeOK, QP!Gapless, QP!Accounted,
   Q!Event, QP!Event, Q!EventKinds, QP!EventKinds, Q!Nothing, QP!Nothing, Q!TheOverflow,
   QP!TheOverflow, Q!IsPrefixSum, QP!IsPrefixSum

\* What the host does keeps the queue in order and accounted for ...
LEMMA QueueSafeKept == QueueSafe /\ QueueStep => QueueSafe'
<1> SUFFICES ASSUME QueueSafe, QueueStep PROVE (QP!TypeOK /\ QP!Gapless /\ QP!Accounted)'
  BY SameQueueNext
<1>1. QP!TypeOK /\ QP!Gapless /\ QP!Accounted
  BY SameQueue
<1>2. CASE PushEvent
  <2>1. PICK kind \in QP!EventKinds, peer \in 0..MaxSessionId, size \in 0..MaxPayload :
              QP!PushAccepted(kind, peer, size)
    BY <1>2, SameQueue DEF PushEvent, Q!PushAccepted, QP!PushAccepted, Q!Closed, QP!Closed,
       Q!DoesNotFit, QP!DoesNotFit
  <2> QED  BY <1>1, <2>1, QP!AcceptedSafe, QueueConstants
<1>3. CASE Q!PollReady(MaxPayload)
  <2>1. MaxPayload \in 0..MaxPayload /\ QP!PollReady(MaxPayload)
    BY <1>3, SameQueue, HostConstants
  <2> QED  BY <1>1, <2>1, QP!ReadySafe, QueueConstants
<1>4. CASE Q!PushRejected \/ Q!PollOverflow \/ Q!PollStopped \/ Q!finish \/ UNCHANGED queueVars
  <2>1. QP!PushOverflows \/ QP!PollOverflow \/ QP!PollStopped \/ QP!finish \/ UNCHANGED QP!qvars
    BY <1>4, SameQueue
  <2> QED  BY <1>1, <2>1, QP!OtherStepsSafe, QueueConstants
<1> QED  BY <1>2, <1>3, <1>4 DEF QueueStep

\* ... and keeps its end final.
LEMMA QueueKept == QueueInv /\ QueueStep => QueueInv'
<1> SUFFICES ASSUME QueueInv, QueueStep PROVE QueueInv'
  OBVIOUS
<1>1. QueueSafe'
  BY QueueSafeKept DEF QueueInv, QueueSafe
<1>2. Q!TypeOK
  BY DEF QueueInv
<1>3. (Q!StoppedAfterDrain /\ (overflow => entries = <<>>)
         /\ (overflowReported => overflow /\ told # "live")
         /\ (told = "overflow" => overflowReported))'
  <2>1. CASE PushEvent
    BY <2>1 DEF PushEvent, Q!PushAccepted, Q!Closed, Q!StoppedAfterDrain, QueueInv
  <2>2. CASE Q!PushRejected
    BY <2>2 DEF Q!PushRejected, Q!PushRefused, Q!PushOverflows, Q!Closed, Q!qvars,
       Q!StoppedAfterDrain, QueueInv
  <2>3. CASE Q!PollReady(MaxPayload)
    BY <1>2, <2>3 DEF Q!TypeOK, Q!PollReady, Q!Closed, Q!StoppedAfterDrain, QueueInv
  <2>4. CASE Q!PollOverflow
    BY <2>4 DEF Q!PollOverflow, Q!Closed, Q!StoppedAfterDrain, QueueInv
  <2>5. CASE Q!PollStopped
    BY <2>5 DEF Q!PollStopped, Q!Closed, Q!StoppedAfterDrain, QueueInv
  <2>6. CASE Q!finish
    BY <2>6 DEF Q!finish, Q!Closed, Q!StoppedAfterDrain, QueueInv
  <2>7. CASE UNCHANGED queueVars
    BY <2>7 DEF queueVars, Q!Closed, Q!StoppedAfterDrain, QueueInv
  <2> QED  BY <2>1, <2>2, <2>3, <2>4, <2>5, <2>6, <2>7 DEF QueueStep
<1> QED  BY <1>1, <1>3 DEF QueueInv, QueueSafe
-----------------------------------------------------------------------------
(***************************************************************************)
(* What steps leave alone.                                                 *)
(***************************************************************************)

\* What the steps start from.
LEMMA InvParts ==
  ASSUME Inv
  PROVE  /\ QueueInv /\ FlagType /\ HostType /\ RegistryType /\ CommandType
         /\ StateInv /\ CommandInv /\ StopInv /\ RegistryInv /\ TaskInv
         /\ \A t \in Threads : LockAt(t)
         /\ \A s \in Sessions : SessionAt(s)
BY DEF Inv

\* The queued events are a list.
LEMMA QueueList ==
  ASSUME Inv
  PROVE  /\ entries \in Seq(Q!Event) /\ Len(entries) \in Nat /\ DOMAIN entries = 1..Len(entries)
         /\ (Len(entries) = 0 <=> entries = <<>>)
<1>1. entries \in Seq(Q!Event)
  BY DEF Inv, QueueInv, Q!TypeOK
<1> QED  BY <1>1

\* A session about which nothing changes.
LEMMA SessionKept ==
  ASSUME NEW s \in Sessions, SessionAt(s), Len(entries) \in Nat, Len(entries') \in Nat,
         Len(entries) <= Len(entries'),
         \A k \in {"Open", "Close"}, i \in 1..Len(entries') :
           IsEvent(i, k, s)' <=> i \in 1..Len(entries) /\ IsEvent(i, k, s),
         s \in connections' \ opened' => s \in connections \ opened,
         s \in opened' <=> s \in opened,
         ~Allocated(s)' => ~Allocated(s),
         view'[s] = view[s], overflow' = overflow, poisoned' = poisoned
  PROVE  SessionAt(s)'
<1>1. \A k \in {"Open", "Close"} : Queued(k, s)' <=> Queued(k, s)
  <2> TAKE k \in {"Open", "Close"}
  <2>1. 1..Len(entries) \subseteq 1..Len(entries')
    OBVIOUS
  <2>2. Queued(k, s)' <=> \E i \in 1..Len(entries') : IsEvent(i, k, s)'
    BY DEF Queued, IsEvent
  <2>3. Queued(k, s) <=> \E i \in 1..Len(entries) : IsEvent(i, k, s)
    BY DEF Queued, IsEvent
  <2> QED  BY <2>1, <2>2, <2>3
<1>2. s \in connections' \ opened' \/ ~Allocated(s)' => Fresh(s)'
  BY <1>1 DEF SessionAt, Fresh
<1>3. ASSUME NEW i \in 1..Len(entries'), IsEvent(i, "Open", s)'
      PROVE  view'[s] = "unknown" /\ \A j \in 1..Len(entries') : IsEvent(j, "Open", s)' => j = i
  BY <1>3 DEF SessionAt
<1>4. ASSUME NEW i \in 1..Len(entries'), IsEvent(i, "Close", s)'
      PROVE  /\ s \notin opened'
             /\ view'[s] = "open" \/ \E j \in 1..(i - 1) : IsEvent(j, "Open", s)'
             /\ \A j \in 1..Len(entries') : IsEvent(j, "Close", s)' => j = i
  <2>1. i \in 1..Len(entries) /\ IsEvent(i, "Close", s)
    BY <1>4
  <2>2. ASSUME NEW j \in 1..(i - 1), IsEvent(j, "Open", s) PROVE IsEvent(j, "Open", s)'
    <3>1. j \in 1..Len(entries) /\ j \in 1..Len(entries')
      BY <2>1
    <3> QED  BY <2>2, <3>1
  <2> QED  BY <1>4, <2>1, <2>2 DEF SessionAt
<1>5. view'[s] = "closed" => s \notin opened'
  BY DEF SessionAt
<1>6. s \in opened' /\ ~overflow' => view'[s] = "open" \/ Queued("Open", s)'
  BY <1>1 DEF SessionAt
<1>7. ~overflow' /\ ~poisoned' /\ (view'[s] = "open" \/ Queued("Open", s)') =>
        s \in opened' \/ Queued("Close", s)'
  BY <1>1 DEF SessionAt
<1> QED  BY <1>2, <1>3, <1>4, <1>5, <1>6, <1>7 DEF SessionAt

\* Steps that leave the queue and the registry alone.
LEMMA SessionsKept ==
  ASSUME Inv, UNCHANGED <<entries, overflow, connections, opened, nextSessionId, view, poisoned>>
  PROVE  \A s \in Sessions : SessionAt(s)'
<1> TAKE s \in Sessions
<1>1. \A k \in {"Open", "Close"}, i \in 1..Len(entries') : IsEvent(i, k, s)' <=> IsEvent(i, k, s)
  BY DEF IsEvent
<1>2. Allocated(s)' <=> Allocated(s)
  BY DEF Allocated
<1> QED  BY <1>1, <1>2, InvParts, QueueList, SessionKept

\* After an overflow nothing is queued.
LEMMA SessionLost ==
  ASSUME NEW s \in Sessions, SessionAt(s), overflow', entries' = <<>>,
         s \in connections' \ opened' => s \in connections \ opened,
         s \in opened' => s \in opened, ~Allocated(s)' => ~Allocated(s),
         view'[s] = view[s]
  PROVE  SessionAt(s)'
<1>1. 1..Len(entries') = {}
  OBVIOUS
<1>2. ~Queued("Open", s)' /\ ~Queued("Close", s)'
  BY <1>1 DEF Queued
<1>3. s \in connections' \ opened' \/ ~Allocated(s)' => Fresh(s)'
  BY <1>2 DEF SessionAt, Fresh
<1> QED  BY <1>1, <1>2, <1>3 DEF SessionAt

\* The event queue after a push.
LEMMA Pushed ==
  ASSUME Inv, NEW kind \in Q!EventKinds, NEW p \in 0..MaxSessionId, NEW size \in 0..MaxPayload,
         Q!PushAccepted(kind, p, size)
  PROVE  /\ Len(entries') = Len(entries) + 1 /\ Len(entries) \in Nat
         /\ ~overflow /\ overflow' = overflow /\ stopped' = stopped /\ ~stopped
         /\ \A s, k : \A i \in 1..(Len(entries) + 1) :
              IsEvent(i, k, s)' <=> IF i = Len(entries) + 1 THEN k = kind /\ s = p ELSE IsEvent(i, k, s)
<1> DEFINE e == [kind |-> kind, peer |-> p, sequence |-> nextSequence, size |-> size]
<1>1. entries' = Append(entries, e) /\ ~overflow /\ overflow' = overflow /\ stopped' = stopped /\ ~stopped
  BY DEF Q!PushAccepted, Q!Closed
<1>2. e \in Q!Event
  BY DEF Q!Event, Inv, QueueInv, Q!TypeOK
<1>3. e.kind = kind /\ e.peer = p
  OBVIOUS
<1> HIDE DEF e
<1>4. /\ Len(entries') = Len(entries) + 1 /\ Len(entries) \in Nat
      /\ \A i \in 1..(Len(entries) + 1) :
           entries'[i] = IF i = Len(entries) + 1 THEN e ELSE entries[i]
  BY <1>1, <1>2, QueueList
<1>5. ASSUME NEW s, NEW k, NEW i \in 1..(Len(entries) + 1)
      PROVE IsEvent(i, k, s)' <=> IF i = Len(entries) + 1 THEN k = kind /\ s = p ELSE IsEvent(i, k, s)
  BY <1>3, <1>4 DEF IsEvent
<1> QED  BY <1>1, <1>4, <1>5

\* A push about something else leaves a session as it is.
LEMMA PushElsewhere ==
  ASSUME Inv, NEW kind \in Q!EventKinds, NEW p \in 0..MaxSessionId, NEW size \in 0..MaxPayload,
         Q!PushAccepted(kind, p, size), NEW s \in Sessions, s # p \/ kind \notin {"Open", "Close"},
         s \in connections' \ opened' => s \in connections \ opened,
         s \in opened' <=> s \in opened, nextSessionId' = nextSessionId,
         view' = view, poisoned' = poisoned
  PROVE  SessionAt(s)'
<1>1. /\ Len(entries') = Len(entries) + 1 /\ Len(entries) \in Nat /\ overflow' = overflow
      /\ \A k : \A i \in 1..(Len(entries) + 1) :
           IsEvent(i, k, s)' <=> IF i = Len(entries) + 1 THEN k = kind /\ s = p ELSE IsEvent(i, k, s)
  BY Pushed
<1>2. \A k \in {"Open", "Close"}, i \in 1..Len(entries') :
        IsEvent(i, k, s)' <=> i \in 1..Len(entries) /\ IsEvent(i, k, s)
  <2> TAKE k \in {"Open", "Close"}, i \in 1..Len(entries')
  <2>1. CASE i = Len(entries) + 1
    BY <1>1, <2>1
  <2>2. CASE i # Len(entries) + 1
    BY <1>1, <2>2
  <2> QED  BY <2>1, <2>2
<1>3. Allocated(s)' <=> Allocated(s)
  BY DEF Allocated
<1> QED  BY <1>1, <1>2, <1>3, InvParts, SessionKept
\* A worker never meets a stopped queue, so a push is refused by an overflow only.
LEMMA Rejected ==
  ASSUME Inv, running, Q!PushRejected
  PROVE  overflow' /\ entries' = <<>> /\ stopped' = stopped
<1>1. ~stopped
  BY InvParts DEF StateInv
<1> QED  BY <1>1, InvParts DEF Q!PushRejected, Q!PushRefused, Q!PushOverflows, Q!Closed, Q!qvars,
         QueueInv

\* An accepted OPEN announces a fresh session.
LEMMA OpenAnnounced ==
  ASSUME Inv, NEW s \in Sessions, s \in connections \ opened, Q!PushAccepted("Open", s, 0),
         opened' = opened \cup {s}, UNCHANGED <<connections, nextSessionId, view, poisoned>>
  PROVE  SessionAt(s)'
<1> DEFINE n == Len(entries)
<1>1. "Open" \in Q!EventKinds /\ s \in 0..MaxSessionId /\ 0 \in 0..MaxPayload
  BY HostConstants DEF Q!EventKinds
<1>2. /\ Len(entries') = n + 1 /\ n \in Nat
      /\ \A k : \A i \in 1..(n + 1) :
           IsEvent(i, k, s)' <=> IF i = n + 1 THEN k = "Open" ELSE IsEvent(i, k, s)
  BY <1>1, Pushed
<1> HIDE DEF n
<1>3. Fresh(s) /\ Allocated(s)
  BY InvParts DEF SessionAt, RegistryInv
<1>4. \A i \in 1..n : ~IsEvent(i, "Open", s) /\ ~IsEvent(i, "Close", s)
  BY <1>3 DEF Fresh, Queued, IsEvent, n
<1>5. view'[s] = "unknown" /\ s \in opened' /\ Allocated(s)'
  BY <1>3 DEF Fresh, Allocated
<1>6. \A i \in 1..(n + 1) : (IsEvent(i, "Open", s)' <=> i = n + 1) /\ ~IsEvent(i, "Close", s)'
  BY <1>2, <1>4
<1>7. Queued("Open", s)'
  BY <1>2, <1>6 DEF Queued, IsEvent
<1> QED  BY <1>2, <1>5, <1>6, <1>7 DEF SessionAt

\* An accepted CLOSE follows the OPEN of its session.
LEMMA CloseAnnounced ==
  ASSUME Inv, NEW s \in Sessions, s \in opened, Q!PushAccepted("Close", s, 0),
         opened' = opened \ {s}, connections' = connections \ {s},
         UNCHANGED <<nextSessionId, view, poisoned>>
  PROVE  SessionAt(s)'
<1> DEFINE n == Len(entries)
<1>1. "Close" \in Q!EventKinds /\ s \in 0..MaxSessionId /\ 0 \in 0..MaxPayload
  BY HostConstants DEF Q!EventKinds
<1>2. /\ Len(entries') = n + 1 /\ n \in Nat /\ ~overflow
      /\ \A k : \A i \in 1..(n + 1) :
           IsEvent(i, k, s)' <=> IF i = n + 1 THEN k = "Close" ELSE IsEvent(i, k, s)
  BY <1>1, Pushed
<1>3. SessionAt(s) /\ Allocated(s) /\ Allocated(s)'
  BY InvParts DEF RegistryInv, Allocated
<1> HIDE DEF n
<1>4. \A i \in 1..n : ~IsEvent(i, "Close", s)
  BY <1>3 DEF SessionAt, n
<1>5. view[s] = "open" \/ \E j \in 1..n : IsEvent(j, "Open", s)
  BY <1>2, <1>3 DEF SessionAt, Queued, IsEvent, n
<1>6. \A i \in 1..(n + 1) : /\ IsEvent(i, "Close", s)' <=> i = n + 1
                            /\ IsEvent(i, "Open", s)' <=> i # n + 1 /\ IsEvent(i, "Open", s)
  BY <1>2, <1>4
<1>7. \A i \in 1..(n + 1) : i \in 1..n \/ i = n + 1
  BY <1>2
<1>8. ASSUME NEW i \in 1..(n + 1), IsEvent(i, "Open", s)'
      PROVE  view[s] = "unknown" /\ \A j \in 1..(n + 1) : IsEvent(j, "Open", s)' => j = i
  <2>1. i \in 1..n /\ IsEvent(i, "Open", s)
    BY <1>6, <1>7, <1>8
  <2>2. view[s] = "unknown" /\ \A j \in 1..n : IsEvent(j, "Open", s) => j = i
    BY <1>3, <2>1 DEF SessionAt, n
  <2> QED  BY <1>6, <1>7, <2>2
<1>9. view[s] = "open" \/ \E j \in 1..((n + 1) - 1) : IsEvent(j, "Open", s)'
  <2>1. ASSUME NEW j \in 1..n, IsEvent(j, "Open", s) PROVE j \in 1..((n + 1) - 1) /\ IsEvent(j, "Open", s)'
    BY <1>2, <1>6, <2>1
  <2> QED  BY <1>5, <2>1
<1>10. n + 1 \in 1..(n + 1)
  BY <1>2
<1>11. Queued("Close", s)'
  BY <1>2, <1>6, <1>10 DEF Queued, IsEvent
<1>12. s \notin opened' /\ s \notin connections'
  OBVIOUS
<1>13. ASSUME NEW i \in 1..(n + 1), IsEvent(i, "Close", s)'
       PROVE  /\ view[s] = "open" \/ \E j \in 1..(i - 1) : IsEvent(j, "Open", s)'
              /\ \A j \in 1..(n + 1) : IsEvent(j, "Close", s)' => j = i
  <2>1. i = n + 1
    BY <1>6, <1>13
  <2> QED  BY <1>6, <1>9, <2>1
<1> QED  BY <1>2, <1>3, <1>8, <1>11, <1>12, <1>13 DEF SessionAt

\* What close does to the registry and the sessions.
LEMMA CloseFacts ==
  ASSUME Inv, running, NEW s \in Sessions, close(s), UNCHANGED <<nextSessionId, view, poisoned>>
  PROVE  /\ QueueStep /\ stopped' = stopped
         /\ connections' = connections \ {s} /\ opened' = opened \ {s}
         /\ \A q \in Sessions : SessionAt(q)'
<1>1. connections' = connections \ {s} /\ opened' = opened \ {s}
  BY DEF close
<1>2. \A q \in Sessions : /\ q \in connections' \ opened' => q \in connections \ opened
                          /\ q \in opened' => q \in opened
                          /\ ~Allocated(q)' => ~Allocated(q)
  BY <1>1, InvParts DEF RegistryInv, Allocated
<1>3. CASE s \in opened /\ Q!PushAccepted("Close", s, 0)
  <2>1. "Close" \in Q!EventKinds /\ s \in 0..MaxSessionId /\ 0 \in 0..MaxPayload
    BY HostConstants DEF Q!EventKinds
  <2>2. QueueStep /\ stopped' = stopped
    BY <1>3, <2>1, Pushed DEF QueueStep, PushEvent
  <2>3. SessionAt(s)'
    BY <1>1, <1>3, CloseAnnounced
  <2>4. ASSUME NEW q \in Sessions, q # s PROVE SessionAt(q)'
    <3>1. q \in opened' <=> q \in opened
      BY <1>1, <2>4
    <3>2. nextSessionId' = nextSessionId /\ view' = view /\ poisoned' = poisoned
      OBVIOUS
    <3> QED  BY <1>2, <1>3, <2>1, <2>4, <3>1, <3>2, PushElsewhere
  <2> QED  BY <1>1, <2>2, <2>3, <2>4
<1>4. CASE s \in opened /\ Q!PushRejected
  <2>1. overflow' /\ entries' = <<>> /\ stopped' = stopped
    BY <1>4, Rejected
  <2>2. \A q \in Sessions : SessionAt(q)'
    BY <1>2, <2>1, InvParts, SessionLost
  <2> QED  BY <1>1, <1>4, <2>1, <2>2 DEF QueueStep
<1>5. CASE s \notin opened /\ UNCHANGED queueVars
  <2>1. UNCHANGED <<entries, overflow, stopped>>
    BY <1>5 DEF queueVars
  <2>2. ASSUME NEW q \in Sessions PROVE SessionAt(q)'
    <3>1. \A k \in {"Open", "Close"}, i \in 1..Len(entries') : IsEvent(i, k, q)' <=> IsEvent(i, k, q)
      BY <2>1 DEF IsEvent
    <3>2. q \in opened' <=> q \in opened
      BY <1>1, <1>5
    <3> QED  BY <1>2, <2>1, <3>1, <3>2, InvParts, QueueList, SessionKept
  <2> QED  BY <1>1, <1>5, <2>1, <2>2 DEF QueueStep
<1> QED  BY <1>3, <1>4, <1>5 DEF close, Q!Push
-----------------------------------------------------------------------------
(***************************************************************************)
(* The worker.                                                             *)
(***************************************************************************)

\* Steps of the worker that leave the threads alone.
LEMMA WorkerStep ==
  ASSUME Inv, running, UNCHANGED <<hostVars, running, poisoned, view>>, QueueStep, stopped' = stopped,
         stopping' \in BOOLEAN, RegistryType', CommandType', CommandInv', StopInv', RegistryInv', TaskInv',
         \A s \in Sessions : SessionAt(s)'
  PROVE  Inv'
<1>1. UNCHANGED <<hostState, listeners, lifecycle, pc, running, poisoned, stopped>>
  BY DEF hostVars
<1>2. QueueInv'
  BY QueueKept, InvParts
<1>3. HostType' /\ FlagType'
  BY <1>1, InvParts DEF HostType, FlagType
<1>4. \A t \in Threads : LockAt(t)'
  BY <1>1, InvParts DEF LockAt
<1>5. StateInv'
  BY <1>1, InvParts DEF StateInv
<1> QED  BY <1>2, <1>3, <1>4, <1>5 DEF Inv

\* The task list, and what is known of its head.
LEMMA HeadTask ==
  ASSUME Inv, tasks # <<>>
  PROVE  /\ tasks \in Seq(Task) /\ Len(tasks) \in Nat /\ Len(tasks) > 0 /\ Head(tasks) = tasks[1]
         /\ Head(tasks) \in Task /\ TaskAt(1)
         /\ Tail(tasks) \in Seq(Task) /\ Len(Tail(tasks)) = Len(tasks) - 1
         /\ \A i \in 1..(Len(tasks) - 1) : Tail(tasks)[i] = tasks[i + 1]
<1>1. tasks \in Seq(Task)
  BY InvParts DEF CommandType
<1>2. /\ Len(tasks) \in Nat /\ Len(tasks) > 0 /\ Head(tasks) = tasks[1] /\ Head(tasks) \in Task
      /\ Tail(tasks) \in Seq(Task) /\ Len(Tail(tasks)) = Len(tasks) - 1
      /\ \A i \in 1..(Len(tasks) - 1) : Tail(tasks)[i] = tasks[i + 1]
  BY <1>1
<1>3. TaskAt(1)
  BY <1>2, InvParts DEF TaskInv
<1> QED  BY <1>1, <1>2, <1>3

\* A task that is done leaves a well-formed rest.
LEMMA DoneKeeps ==
  ASSUME Inv, tasks # <<>>, Done
  PROVE  /\ tasks' \in Seq(Task) /\ TaskInv'
         /\ Head(tasks).do # "answer" => (Answering' <=> Answering)
         /\ Head(tasks).do = "answer" => tasks' = <<>> /\ Answering
<1>1. tasks' = Tail(tasks)
  BY DEF Done
<1>2. /\ Len(tasks) \in Nat /\ Len(tasks) > 0 /\ Head(tasks) = tasks[1]
      /\ tasks' \in Seq(Task) /\ Len(tasks') = Len(tasks) - 1
      /\ \A i \in 1..(Len(tasks) - 1) : tasks'[i] = tasks[i + 1]
  BY <1>1, HeadTask
<1>3. ASSUME NEW i \in 1..Len(tasks') PROVE TaskAt(i)'
  <2>1. /\ i \in 1..(Len(tasks) - 1) /\ i + 1 \in 1..Len(tasks) /\ i + 1 # 1
        /\ tasks'[i] = tasks[i + 1] /\ (i + 1 = Len(tasks) => i = Len(tasks'))
    BY <1>2
  <2>2. TaskAt(i + 1)
    BY <2>1, InvParts DEF TaskInv
  <2> QED  BY <2>1, <2>2 DEF TaskAt
<1>4. ASSUME Head(tasks).do # "answer" PROVE Answering' <=> Answering
  <2>1. ASSUME NEW i \in 1..Len(tasks), tasks[i].do = "answer" PROVE Answering'
    <3>1. i # 1 /\ i - 1 \in 1..(Len(tasks) - 1) /\ i - 1 \in 1..Len(tasks') /\ (i - 1) + 1 = i
      BY <1>2, <1>4, <2>1
    <3>2. tasks'[i - 1] = tasks[i]
      BY <1>2, <3>1
    <3> QED  BY <2>1, <3>1, <3>2 DEF Answering
  <2>2. ASSUME NEW i \in 1..Len(tasks'), tasks'[i].do = "answer" PROVE Answering
    <3>1. i \in 1..(Len(tasks) - 1) /\ i + 1 \in 1..Len(tasks)
      BY <1>2
    <3> QED  BY <1>2, <2>2, <3>1 DEF Answering
  <2> QED  BY <2>1, <2>2 DEF Answering
<1>5. ASSUME Head(tasks).do = "answer" PROVE tasks' = <<>> /\ Answering
  <2>1. Len(tasks) = 1
    BY <1>2, <1>5, HeadTask DEF TaskAt
  <2>2. Len(tasks') = 0 /\ 1 \in 1..Len(tasks)
    BY <1>2, <2>1
  <2> QED  BY <1>2, <1>5, <2>2 DEF Answering
<1> QED  BY <1>2, <1>3, <1>4, <1>5 DEF TaskInv

\* A handler that is not the stop command's.
LEMMA NotStopping ==
  ASSUME Inv, running, tasks # <<>>, Head(tasks).do \notin {"closeAll", "answer"}
  PROVE  ~stopping
<1>1. tasks # <<closeAll(Ids), reply(TRUE)>> /\ tasks # <<reply(TRUE)>>
  <2>1. Head(<<closeAll(Ids), reply(TRUE)>>) = closeAll(Ids) /\ Head(<<reply(TRUE)>>) = reply(TRUE)
    OBVIOUS
  <2>2. closeAll(Ids).do = "closeAll" /\ reply(TRUE).do = "answer"
    BY DEF closeAll, reply
  <2> QED  BY <2>1, <2>2
<1> QED  BY <1>1, InvParts DEF StopInv

\* Tasks that do not answer.
LEMMA TaskKeeps ==
  ASSUME Inv, running, tasks # <<>>,
         UNCHANGED <<hostVars, running, poisoned, stopping, listening, home, nextSessionId,
                     commandVars, view>>,
         QueueStep, stopped' = stopped, tasks' \in Seq(Task), TaskInv', Answering' <=> Answering,
         opened' \subseteq connections', connections' \subseteq connections, StopInv',
         \A s \in Sessions : SessionAt(s)'
  PROVE  Inv'
<1>1. UNCHANGED <<hostState, lifecycle, pc, command, answer, stopping>>
  BY DEF hostVars, commandVars
<1>2. stopping' \in BOOLEAN
  BY <1>1, InvParts DEF FlagType
<1>3. RegistryType'
  BY InvParts DEF RegistryType
<1>4. CommandType'
  BY <1>1, InvParts DEF CommandType
<1>5. CommandInv'
  BY <1>1, InvParts DEF CommandInv, InStopLocked
<1>6. RegistryInv'
  BY InvParts DEF RegistryInv, Allocated
<1> QED  BY <1>2, <1>3, <1>4, <1>5, <1>6, WorkerStep

\* Tasks that open, tell or close.
LEMMA HandlerKeeps ==
  ASSUME Inv, running, tasks # <<>>, Head(tasks).do \notin {"closeAll", "answer"},
         UNCHANGED <<hostVars, running, poisoned, stopping, listening, home, nextSessionId,
                     commandVars, view>>,
         QueueStep, stopped' = stopped, tasks' \in Seq(Task), TaskInv', Answering' <=> Answering,
         opened' \subseteq connections', connections' \subseteq connections,
         \A s \in Sessions : SessionAt(s)'
  PROVE  Inv'
<1>1. StopInv'
  BY NotStopping DEF StopInv
<1> QED  BY <1>1, TaskKeeps

LEMMA OpenKeeps ==
  ASSUME Inv, running, tasks # <<>>, Head(tasks).do = "open", OpenStep(Head(tasks).session)
  PROVE  Inv'
<1>1. PICK s \in Sessions : s = Head(tasks).session /\ s \in connections \ opened
  BY HeadTask DEF TaskAt
<1>2. /\ publish_open(s) /\ Done
      /\ UNCHANGED <<hostVars, running, poisoned, stopping, listening, home, nextSessionId,
                     commandVars, view>>
  BY <1>1 DEF OpenStep
<1>3. tasks' \in Seq(Task) /\ TaskInv' /\ (Answering' <=> Answering)
  BY <1>2, DoneKeeps
<1>4. CASE /\ Q!PushAccepted("Open", s, 0) /\ opened' = opened \cup {s} /\ UNCHANGED connections
  <2>1. "Open" \in Q!EventKinds /\ s \in 0..MaxSessionId /\ 0 \in 0..MaxPayload
    BY <1>1, HostConstants DEF Q!EventKinds
  <2>2. QueueStep /\ stopped' = stopped
    BY <1>4, <2>1, Pushed DEF QueueStep, PushEvent
  <2>3. SessionAt(s)'
    <3>1. UNCHANGED <<connections, nextSessionId, view, poisoned>>
      BY <1>2, <1>4
    <3> QED  BY <1>1, <1>4, <3>1, OpenAnnounced
  <2>4. ASSUME NEW q \in Sessions, q # s PROVE SessionAt(q)'
    <3>1. /\ q \in opened' <=> q \in opened
          /\ q \in connections' \ opened' => q \in connections \ opened
          /\ nextSessionId' = nextSessionId /\ view' = view /\ poisoned' = poisoned
      BY <1>2, <1>4, <2>4
    <3> QED  BY <1>4, <2>1, <2>4, <3>1, PushElsewhere
  <2>5. opened' \subseteq connections' /\ connections' \subseteq connections
    BY <1>1, <1>4, InvParts DEF RegistryInv
  <2>6. \A q \in Sessions : SessionAt(q)'
    BY <2>3, <2>4
  <2> QED  BY <1>2, <1>3, <2>2, <2>5, <2>6, HandlerKeeps
<1>5. CASE /\ Q!PushRejected /\ connections' = connections \ {s} /\ UNCHANGED opened
  <2>1. overflow' /\ entries' = <<>> /\ stopped' = stopped /\ QueueStep
    BY <1>5, Rejected DEF QueueStep
  <2>2. ASSUME NEW q \in Sessions PROVE SessionAt(q)'
    <3>1. /\ q \in opened' => q \in opened
          /\ q \in connections' \ opened' => q \in connections \ opened
          /\ ~Allocated(q)' => ~Allocated(q)
          /\ view'[q] = view[q]
      BY <1>2, <1>5 DEF Allocated
    <3> QED  BY <2>1, <3>1, InvParts, SessionLost
  <2>3. opened' \subseteq connections' /\ connections' \subseteq connections
    BY <1>1, <1>5, InvParts DEF RegistryInv
  <2> QED  BY <1>2, <1>3, <2>1, <2>2, <2>3, HandlerKeeps
<1> QED  BY <1>2, <1>4, <1>5 DEF publish_open

\* A push that opens and closes nothing.
LEMMA TellKeeps ==
  ASSUME Inv, running, UNCHANGED <<connections, opened, nextSessionId, view, poisoned>>,
         \/ UNCHANGED queueVars \/ Q!PushRejected
         \/ \E kind \in Q!EventKinds \ {"Open", "Close"}, p \in 0..MaxSessionId, size \in 0..MaxPayload :
              Q!PushAccepted(kind, p, size)
  PROVE  QueueStep /\ stopped' = stopped /\ \A s \in Sessions : SessionAt(s)'
<1>1. CASE UNCHANGED queueVars
  <2>1. UNCHANGED <<entries, overflow, stopped>>
    BY <1>1 DEF queueVars
  <2> QED  BY <1>1, <2>1, SessionsKept DEF QueueStep
<1>2. CASE Q!PushRejected
  <2>1. overflow' /\ entries' = <<>> /\ stopped' = stopped
    BY <1>2, Rejected
  <2>2. \A s \in Sessions : Allocated(s)' <=> Allocated(s)
    BY DEF Allocated
  <2>3. \A s \in Sessions : SessionAt(s)'
    BY <2>1, <2>2, InvParts, SessionLost
  <2> QED  BY <1>2, <2>1, <2>3 DEF QueueStep
<1>3. CASE \E kind \in Q!EventKinds \ {"Open", "Close"}, p \in 0..MaxSessionId, size \in 0..MaxPayload :
             Q!PushAccepted(kind, p, size)
  <2>1. PICK kind \in Q!EventKinds \ {"Open", "Close"}, p \in 0..MaxSessionId, size \in 0..MaxPayload :
             Q!PushAccepted(kind, p, size)
    BY <1>3
  <2>2. QueueStep /\ stopped' = stopped
    BY <2>1, Pushed DEF QueueStep, PushEvent
  <2>3. \A s \in Sessions : SessionAt(s)'
    BY <2>1, PushElsewhere
  <2> QED  BY <2>2, <2>3
<1> QED  BY <1>1, <1>2, <1>3

LEMMA MessageKeeps ==
  ASSUME Inv, running, tasks # <<>>, Head(tasks).do = "message", MessageStep(Head(tasks).session)
  PROVE  Inv'
<1> DEFINE s == Head(tasks).session
<1>1. s \in Sessions
  BY HeadTask DEF TaskAt
<1>2. publish_message(s) /\ UNCHANGED <<hostVars, transportVars, commandVars, view>>
  BY DEF MessageStep
<1> HIDE DEF s
<1>3. UNCHANGED <<running, poisoned, stopping, listening, connections, opened, home, nextSessionId>>
  BY <1>2 DEF transportVars, registryVars
<1>4. {"Message", "HttpRequest"} \subseteq Q!EventKinds \ {"Open", "Close"} /\ s \in 0..MaxSessionId
  BY <1>1, HostConstants DEF Q!EventKinds
<1>5. QueueStep /\ stopped' = stopped /\ \A q \in Sessions : SessionAt(q)'
  <2>1. \/ UNCHANGED queueVars \/ Q!PushRejected
        \/ \E kind \in Q!EventKinds \ {"Open", "Close"}, p \in 0..MaxSessionId, size \in 0..MaxPayload :
             Q!PushAccepted(kind, p, size)
    BY <1>2, <1>4 DEF publish_message
  <2> QED  BY <1>2, <1>3, <2>1, TellKeeps
<1>6. tasks' \in Seq(Task) /\ TaskInv' /\ (Answering' <=> Answering)
  <2>1. CASE Done
    BY <2>1, DoneKeeps
  <2>2. CASE Then(<<task("close", s)>>)
    <3> DEFINE c == task("close", s)
    <3>1. c \in Task /\ c.do = "close" /\ c.session = s
      BY <1>4 DEF task, Task, Ids
    <3> HIDE DEF c
    <3>2. /\ tasks \in Seq(Task) /\ Len(tasks) \in Nat /\ Len(tasks) > 0 /\ tasks[1].do = "message"
          /\ Tail(tasks) \in Seq(Task) /\ Len(Tail(tasks)) = Len(tasks) - 1
          /\ \A i \in 1..(Len(tasks) - 1) : Tail(tasks)[i] = tasks[i + 1]
      BY HeadTask
    <3>3. tasks' = <<c>> \o Tail(tasks)
      BY <2>2 DEF Then, c
    <3>4. /\ tasks' \in Seq(Task) /\ Len(tasks') = Len(tasks)
          /\ \A i \in 1..Len(tasks) : tasks'[i] = IF i = 1 THEN c ELSE tasks[i]
      BY <3>1, <3>2, <3>3
    <3>5. TaskInv'
      <4>1. ASSUME NEW i \in 1..Len(tasks') PROVE TaskAt(i)'
        <5>1. i \in 1..Len(tasks) /\ TaskAt(i)
          BY <3>4, InvParts DEF TaskInv
        <5>2. tasks'[i] = IF i = 1 THEN c ELSE tasks[i]
          BY <3>4, <5>1
        <5> QED  BY <1>1, <1>3, <3>1, <3>4, <5>1, <5>2 DEF TaskAt
      <4> QED  BY <4>1 DEF TaskInv
    <3>6. Answering' <=> Answering
      BY <3>1, <3>2, <3>4 DEF Answering
    <3> QED  BY <3>4, <3>5, <3>6
  <2> QED  BY <1>2, <2>1, <2>2 DEF publish_message
<1>7. opened' \subseteq connections' /\ connections' \subseteq connections
  BY <1>3, InvParts DEF RegistryInv
<1> QED  BY <1>2, <1>3, <1>5, <1>6, <1>7, HandlerKeeps

LEMMA ErrorKeeps ==
  ASSUME Inv, running, tasks # <<>>, Head(tasks).do = "error", ErrorStep
  PROVE  Inv'
<1>1. /\ Done /\ UNCHANGED <<hostVars, transportVars, commandVars, view>>
      /\ \E size \in {0, MaxPayload} : Q!Push("Error", 0, size)
  BY DEF ErrorStep
<1>2. UNCHANGED <<running, poisoned, stopping, listening, connections, opened, home, nextSessionId>>
  BY <1>1 DEF transportVars, registryVars
<1>3. tasks' \in Seq(Task) /\ TaskInv' /\ (Answering' <=> Answering)
  BY <1>1, DoneKeeps
<1>4. "Error" \in Q!EventKinds \ {"Open", "Close"} /\ {0, MaxPayload} \subseteq 0..MaxPayload
  BY HostConstants DEF Q!EventKinds
<1>5. QueueStep /\ stopped' = stopped /\ \A s \in Sessions : SessionAt(s)'
  BY <1>1, <1>2, <1>4, HostConstants, TellKeeps DEF Q!Push
<1>6. opened' \subseteq connections' /\ connections' \subseteq connections
  BY <1>2, InvParts DEF RegistryInv
<1> QED  BY <1>1, <1>2, <1>3, <1>5, <1>6, HandlerKeeps

LEMMA CloseKeeps ==
  ASSUME Inv, running, tasks # <<>>, Head(tasks).do = "close", CloseStep(Head(tasks).session)
  PROVE  Inv'
<1> DEFINE s == Head(tasks).session
<1>1. s \in Sessions
  BY HeadTask DEF TaskAt
<1>2. /\ close(s) /\ Done
      /\ UNCHANGED <<hostVars, running, poisoned, stopping, listening, home, nextSessionId,
                     commandVars, view>>
  BY DEF CloseStep
<1> HIDE DEF s
<1>3. tasks' \in Seq(Task) /\ TaskInv' /\ (Answering' <=> Answering)
  BY <1>2, DoneKeeps
<1>4. /\ QueueStep /\ stopped' = stopped /\ connections' = connections \ {s} /\ opened' = opened \ {s}
      /\ \A q \in Sessions : SessionAt(q)'
  BY <1>1, <1>2, CloseFacts
<1>5. opened' \subseteq connections' /\ connections' \subseteq connections
  BY <1>4, InvParts DEF RegistryInv
<1> QED  BY <1>2, <1>3, <1>4, <1>5, HandlerKeeps
\* Closing every connection of some listeners.
LEMMA CloseAllKeeps ==
  ASSUME Inv, running, tasks # <<>>, Head(tasks).do = "closeAll", CloseAllStep(Head(tasks).of)
  PROVE  Inv'
<1> DEFINE left == {s \in connections : home[s] \in Head(tasks).of}
<1>1. UNCHANGED <<hostVars, running, poisoned, stopping, listening, home, nextSessionId,
                  commandVars, view>>
  BY DEF CloseAllStep
<1>2. UNCHANGED <<lifecycle, pc, command, answer, stopping>>
  BY <1>1 DEF hostVars, commandVars
<1>3. stopping => /\ tasks = <<closeAll(Ids), reply(TRUE)>> /\ answer = "pending" /\ command = NoCommand
                  /\ listening = {} /\ lifecycle \in Threads /\ InStopLocked(lifecycle)
  <2>1. tasks # <<reply(TRUE)>>
    <3>1. Head(<<reply(TRUE)>>) = reply(TRUE) /\ reply(TRUE).do = "answer"
      BY DEF reply
    <3> QED  BY <3>1
  <2> QED  BY <2>1, InvParts DEF StopInv
<1>4. CASE left = {} /\ Done /\ UNCHANGED <<queueVars, connections, opened>>
  <2>1. tasks' \in Seq(Task) /\ TaskInv' /\ (Answering' <=> Answering)
    BY <1>4, DoneKeeps
  <2>2. QueueStep /\ stopped' = stopped
    BY <1>4 DEF QueueStep, queueVars
  <2>3. \A s \in Sessions : SessionAt(s)'
    BY <1>1, <1>4, SessionsKept DEF queueVars
  <2>4. StopInv'
    <3> SUFFICES ASSUME stopping PROVE StopInv'
      BY <1>2 DEF StopInv
    <3>1. tasks' = <<reply(TRUE)>> /\ Head(tasks) = closeAll(Ids)
      <4>1. \A a, b : Tail(<<a, b>>) = <<b>> /\ Head(<<a, b>>) = a
        OBVIOUS
      <4> QED  BY <1>3, <1>4, <4>1 DEF Done
    <3>2. Head(tasks).of = Ids
      BY <3>1 DEF closeAll
    <3>3. connections = {}
      BY <1>4, <3>2, InvParts DEF RegistryInv
    <3> QED  BY <1>1, <1>2, <1>3, <1>4, <3>1, <3>3 DEF StopInv, InStopLocked
  <2>5. opened' \subseteq connections' /\ connections' \subseteq connections
    BY <1>4, InvParts DEF RegistryInv
  <2> QED  BY <1>1, <2>1, <2>2, <2>3, <2>4, <2>5, TaskKeeps
<1>5. CASE (\E s \in left : close(s)) /\ UNCHANGED tasks
  <2>1. PICK s \in Sessions : close(s)
    BY <1>5, InvParts DEF RegistryType
  <2>2. /\ QueueStep /\ stopped' = stopped /\ connections' = connections \ {s} /\ opened' = opened \ {s}
        /\ \A q \in Sessions : SessionAt(q)'
    BY <1>1, <2>1, CloseFacts
  <2>3. opened' \subseteq connections' /\ connections' \subseteq connections
    BY <2>2, InvParts DEF RegistryInv
  <2>4. TaskInv' /\ tasks' \in Seq(Task) /\ (Answering' <=> Answering)
    <3>1. tasks' = tasks /\ tasks[1].do # "open"
      BY <1>5, HeadTask
    <3>2. ASSUME NEW i \in 1..Len(tasks) PROVE TaskAt(i)'
      BY <3>1, InvParts DEF TaskInv, TaskAt
    <3> QED  BY <3>1, <3>2, HeadTask DEF TaskInv, Answering
  <2>5. StopInv'
    <3>1. UNCHANGED <<tasks, running, listening>>
      BY <1>1, <1>5
    <3> QED  BY <1>2, <1>3, <3>1 DEF StopInv, InStopLocked
  <2> QED  BY <1>1, <2>2, <2>3, <2>4, <2>5, TaskKeeps
<1> QED  BY <1>4, <1>5 DEF CloseAllStep

\* The answer ends its handler.
LEMMA AnswerKeeps ==
  ASSUME Inv, running, tasks # <<>>, Head(tasks).do = "answer", AnswerStep(Head(tasks).result)
  PROVE  Inv'
<1>1. /\ answer' = (IF Head(tasks).result THEN "true" ELSE "false") /\ Done
      /\ UNCHANGED <<queueVars, hostVars, transportVars, command, view>>
  BY DEF AnswerStep
<1>2. /\ UNCHANGED <<lifecycle, pc, command, entries, overflow, stopped>>
      /\ UNCHANGED <<running, poisoned, stopping, listening, connections, opened, home, nextSessionId>>
  BY <1>1 DEF hostVars, queueVars, transportVars, registryVars
<1>3. tasks' \in Seq(Task) /\ TaskInv' /\ tasks' = <<>> /\ Answering
  BY <1>1, DoneKeeps
<1>4. ~Answering'
  BY <1>3 DEF Answering
<1>5. CommandType' /\ RegistryType' /\ RegistryInv' /\ stopping' \in BOOLEAN
  BY <1>1, <1>2, <1>3, InvParts DEF CommandType, RegistryType, RegistryInv, Allocated, FlagType
<1>6. CommandInv'
  BY <1>1, <1>2, <1>3, <1>4, InvParts DEF CommandInv, InStopLocked
<1>7. StopInv'
  <2> SUFFICES ASSUME stopping PROVE StopInv'
    BY <1>2 DEF StopInv
  <2>1. tasks # <<closeAll(Ids), reply(TRUE)>>
    <3>1. Head(<<closeAll(Ids), reply(TRUE)>>) = closeAll(Ids) /\ closeAll(Ids).do = "closeAll"
      BY DEF closeAll
    <3> QED  BY <3>1
  <2>2. /\ tasks = <<reply(TRUE)>> /\ connections = {} /\ listening = {} /\ command = NoCommand
        /\ lifecycle \in Threads /\ InStopLocked(lifecycle)
    BY <2>1, InvParts DEF StopInv
  <2>3. answer' = "true"
    BY <1>1, <2>2 DEF reply
  <2> QED  BY <1>2, <1>3, <2>2, <2>3 DEF StopInv, InStopLocked
<1>8. QueueStep /\ \A s \in Sessions : SessionAt(s)'
  BY <1>1, <1>2, SessionsKept DEF QueueStep
<1> QED  BY <1>1, <1>2, <1>3, <1>5, <1>6, <1>7, <1>8, WorkerStep

LEMMA HandlerStepKeeps == Inv /\ HandlerStep => Inv'
BY OpenKeeps, MessageKeeps, ErrorKeeps, CloseKeeps, CloseAllKeeps, AnswerKeeps DEF HandlerStep
-----------------------------------------------------------------------------
(***************************************************************************)
(* The worker starts a handler.                                            *)
(***************************************************************************)

\* While nothing runs and something is posted or may come in, no stop is under way.
LEMMA IdleWorker ==
  ASSUME Inv, WorkerIdle
  PROVE  /\ running /\ tasks = <<>> /\ ~Answering
         /\ stopping => connections = {} /\ listening = {} /\ command = NoCommand
<1>1. running /\ tasks = <<>> /\ ~Answering
  BY DEF WorkerIdle, Answering
<1>2. <<closeAll(Ids), reply(TRUE)>> # <<>> /\ <<reply(TRUE)>> # <<>>
  OBVIOUS
<1> QED  BY <1>1, <1>2, InvParts DEF StopInv

\* A piece a new handler may have at place i, after the registry has changed.
Piece(i, x) ==
  /\ x \in Task /\ x.do # "answer"
  /\ x.do \in {"open", "message", "close"} => x.session \in Sessions
  /\ x.do = "open" => i = 1 /\ x.session \in connections' \ opened'
Handler(steps) == steps \in Seq(Task) /\ \A i \in 1..Len(steps) : Piece(i, steps[i])

LEMMA HandlerLists ==
  /\ Handler(<<>>)
  /\ \A a : Piece(1, a) => Handler(<<a>>)
  /\ \A a, b : Piece(1, a) /\ Piece(2, b) => Handler(<<a, b>>)
<1>1. Handler(<<>>)
  BY DEF Handler
<1>2. ASSUME NEW a, Piece(1, a) PROVE Handler(<<a>>)
  <2>1. a \in Task
    BY <1>2 DEF Piece
  <2> QED  BY <1>2, <2>1 DEF Handler
<1>3. ASSUME NEW a, NEW b, Piece(1, a), Piece(2, b) PROVE Handler(<<a, b>>)
  <2>1. a \in Task /\ b \in Task
    BY <1>3 DEF Piece
  <2>2. <<a, b>> \in Seq(Task) /\ Len(<<a, b>>) = 2 /\ <<a, b>>[1] = a /\ <<a, b>>[2] = b
    BY <2>1
  <2>3. \A i \in 1..2 : i = 1 \/ i = 2
    OBVIOUS
  <2> QED  BY <1>3, <2>2, <2>3 DEF Handler
<1> QED  BY <1>1, <1>2, <1>3

\* Pieces of the handlers below.
LEMMA Pieces ==
  /\ \A i \in 1..2 : Piece(i, reportError)
  /\ \A i \in 1..2, s \in Sessions : Piece(i, task("message", s)) /\ Piece(i, task("close", s))
  /\ \A s \in Sessions : s \in connections' \ opened' => Piece(1, task("open", s))
  /\ \A i \in 1..2, L \in SUBSET Ids : Piece(i, closeAll(L))
<1>1. reportError \in Task /\ reportError.do = "error"
  BY HostConstants DEF task, reportError, Task, Ids
<1>2. ASSUME NEW s \in Sessions, NEW do \in {"open", "message", "error", "close"}
      PROVE  task(do, s) \in Task /\ task(do, s).do = do /\ task(do, s).session = s
  BY HostConstants DEF task, Task, Ids
<1>3. ASSUME NEW L \in SUBSET Ids PROVE closeAll(L) \in Task /\ closeAll(L).do = "closeAll"
  BY HostConstants DEF closeAll, Task
<1> QED  BY <1>1, <1>2, <1>3 DEF Piece

\* A handler of network input.
LEMMA InputKeeps ==
  ASSUME Inv, WorkerIdle, ~stopping, NEW steps, Handle(steps), Handler(steps),
         RegistryType', RegistryInv', \A s \in Sessions : SessionAt(s)'
  PROVE  Inv'
<1>1. /\ tasks' = steps
      /\ UNCHANGED <<queueVars, hostVars, running, poisoned, stopping, commandVars, view>>
  BY DEF Handle
<1>2. UNCHANGED <<lifecycle, pc, command, answer, stopped>>
  BY <1>1 DEF hostVars, commandVars, queueVars
<1>3. TaskInv' /\ ~Answering' /\ tasks' \in Seq(Task)
  BY <1>1 DEF TaskInv, TaskAt, Answering, Handler, Piece
<1>4. running /\ ~Answering
  BY IdleWorker
<1>5. CommandInv'
  BY <1>1, <1>2, <1>3, <1>4, InvParts DEF CommandInv, InStopLocked
<1>6. StopInv' /\ CommandType' /\ stopping' \in BOOLEAN
  BY <1>1, <1>2, <1>3, InvParts DEF StopInv, CommandType, FlagType
<1>7. QueueStep
  BY <1>1 DEF QueueStep
<1> QED  BY <1>1, <1>2, <1>3, <1>4, <1>5, <1>6, <1>7, WorkerStep

\* Input that registers nothing.
LEMMA QuietInputKeeps ==
  ASSUME Inv, Input, connections # {} \/ listening # {}, NEW steps, Handle(steps), Handler(steps),
         listening' \subseteq listening, UNCHANGED <<connections, opened, home, nextSessionId>>
  PROVE  Inv'
<1>1. WorkerIdle /\ ~stopping
  BY IdleWorker DEF Input
<1>2. UNCHANGED <<entries, overflow, view, poisoned>>
  BY DEF Handle, queueVars
<1>3. \A s \in Sessions : SessionAt(s)'
  BY <1>2, SessionsKept
<1>4. RegistryType' /\ RegistryInv'
  BY <1>2, InvParts DEF RegistryType, RegistryInv, Allocated
<1> QED  BY <1>1, <1>3, <1>4, InputKeeps

\* A registered connection has a new id.
LEMMA RegisterKeeps ==
  ASSUME Inv, NEW l \in Ids, NEW steps, Register(l, steps),
         nextSessionId \in Sessions /\ nextSessionId \in connections' \ opened' => Handler(steps)
  PROVE  Inv'
<1>1. /\ WorkerIdle /\ ~stopping /\ nextSessionId # 0
      /\ nextSessionId' = (IF nextSessionId = MaxSessionId THEN 0 ELSE nextSessionId + 1)
      /\ connections' = connections \cup {nextSessionId}
      /\ home' = [home EXCEPT ![nextSessionId] = l]
      /\ Handle(steps) /\ UNCHANGED <<listening, opened>>
  BY DEF Register, Input, allocate_session_id
<1>2. UNCHANGED <<entries, overflow, view, poisoned>>
  BY <1>1 DEF Handle, queueVars
<1>3. nextSessionId \in 0..MaxSessionId
  BY InvParts DEF RegistryType
<1>4. PICK n \in Sessions : n = nextSessionId
  BY <1>1, <1>3, HostConstants DEF Sessions
<1>5. ~Allocated(n) /\ n \notin connections /\ n \notin opened
  BY <1>1, <1>4, InvParts, HostConstants DEF Allocated, RegistryInv
<1>6. \A s \in Sessions : Allocated(s)' <=> Allocated(s) \/ s = n
  <2> TAKE s \in Sessions
  <2>1. s \in Nat /\ s <= MaxSessionId /\ n \in Nat /\ n <= MaxSessionId /\ MaxSessionId \in Nat
    BY HostConstants DEF Sessions
  <2>2. n # 0 /\ nextSessionId' = (IF n = MaxSessionId THEN 0 ELSE n + 1)
    BY <1>1, <1>4
  <2>3. CASE n = MaxSessionId
    BY <1>4, <2>1, <2>2, <2>3 DEF Allocated
  <2>4. CASE n # MaxSessionId
    BY <1>4, <2>1, <2>2, <2>4 DEF Allocated
  <2> QED  BY <2>3, <2>4
<1>7. ASSUME NEW s \in Sessions PROVE SessionAt(s)'
  <2>1. \A k \in {"Open", "Close"}, i \in 1..Len(entries') : IsEvent(i, k, s)' <=> IsEvent(i, k, s)
    BY <1>2 DEF IsEvent
  <2>2. CASE s # n
    <3>1. s \in connections' \ opened' => s \in connections \ opened
      BY <1>1, <1>4, <2>2
    <3> QED  BY <1>1, <1>2, <1>6, <2>1, <3>1, InvParts, QueueList, SessionKept
  <2>3. CASE s = n
    <3>1. Fresh(s)
      BY <1>5, <2>3, InvParts DEF SessionAt
    <3>2. \A i \in 1..Len(entries') : ~IsEvent(i, "Open", s)' /\ ~IsEvent(i, "Close", s)'
      BY <1>2, <2>1, <3>1 DEF Fresh, Queued, IsEvent
    <3>3. Fresh(s)'
      BY <1>2, <3>1 DEF Fresh, Queued
    <3>4. s \notin opened' /\ view'[s] = "unknown"
      BY <1>1, <1>2, <1>5, <2>3, <3>1 DEF Fresh
    <3> QED  BY <3>2, <3>3, <3>4 DEF SessionAt, Fresh
  <2> QED  BY <2>2, <2>3
<1>8. RegistryType'
  <2>1. l \in 0..MaxListeners
    BY HostConstants DEF Ids
  <2>2. nextSessionId' \in 0..MaxSessionId
    BY <1>1, <1>3, HostConstants
  <2> QED  BY <1>1, <1>2, <1>4, <2>1, <2>2, InvParts DEF RegistryType
<1>9. RegistryInv'
  <2>1. opened' \subseteq connections'
    BY <1>1, InvParts DEF RegistryInv
  <2>2. ASSUME NEW s \in connections' PROVE Allocated(s)' /\ home'[s] \in Ids
    <3>1. s \in Sessions
      BY <1>1, <1>4, InvParts DEF RegistryType
    <3>2. home'[s] = IF s = n THEN l ELSE home[s]
      BY <1>1, <1>4, <3>1, InvParts DEF RegistryType
    <3>3. s = n \/ (s \in connections /\ Allocated(s) /\ home[s] \in Ids)
      BY <1>1, <1>4, InvParts DEF RegistryInv
    <3> QED  BY <1>6, <3>1, <3>2, <3>3
  <2> QED  BY <2>1, <2>2 DEF RegistryInv
<1>10. Handler(steps)
  BY <1>1, <1>4, <1>5
<1> QED  BY <1>1, <1>7, <1>8, <1>9, <1>10, InputKeeps

LEMMA NetworkKeeps == Inv /\ Network => Inv'
<1> SUFFICES ASSUME Inv, Network PROVE Inv'
  OBVIOUS
<1> USE HandlerLists, Pieces
<1>1. ASSUME NEW l \in Ids, Admit(l) PROVE Inv'
  <2>1. CASE Register(l, <<task("open", nextSessionId)>>)
    <3>1. nextSessionId \in Sessions /\ nextSessionId \in connections' \ opened' =>
            Handler(<<task("open", nextSessionId)>>)
      OBVIOUS
    <3> QED  BY <2>1, <3>1, RegisterKeeps
  <2>2. CASE Register(l, <<>>)
    BY <2>2, RegisterKeeps
  <2>3. CASE Register(l, <<task("close", nextSessionId), reportError>>)
    <3>1. nextSessionId \in Sessions => Handler(<<task("close", nextSessionId), reportError>>)
      OBVIOUS
    <3> QED  BY <2>3, <3>1, RegisterKeeps
  <2> QED  BY <1>1, <2>1, <2>2, <2>3 DEF Admit
<1>2. ASSUME NEW l \in Ids, dispatch_datagram(l) PROVE Inv'
  <2>1. CASE Register(l, <<task("open", nextSessionId), task("message", nextSessionId)>>)
    <3>1. nextSessionId \in Sessions /\ nextSessionId \in connections' \ opened' =>
            Handler(<<task("open", nextSessionId), task("message", nextSessionId)>>)
      OBVIOUS
    <3> QED  BY <2>1, <3>1, RegisterKeeps
  <2>2. CASE Register(l, <<task("close", nextSessionId), reportError>>)
    <3>1. nextSessionId \in Sessions => Handler(<<task("close", nextSessionId), reportError>>)
      OBVIOUS
    <3> QED  BY <2>2, <3>1, RegisterKeeps
  <2> QED  BY <1>2, <2>1, <2>2 DEF dispatch_datagram
<1>3. ASSUME NEW l \in Ids, AdmitExhausted(l) \/ AcceptFails(l) PROVE Inv'
  <2>1. /\ Input /\ l \in listening /\ Handle(<<reportError>>) /\ listening' \subseteq listening
        /\ UNCHANGED <<connections, opened, home, nextSessionId>>
    BY <1>3 DEF AdmitExhausted, AcceptFails
  <2>2. Handler(<<reportError>>)
    OBVIOUS
  <2> QED  BY <2>1, <2>2, QuietInputKeeps
<1>4. ASSUME NEW l \in Ids, ReceiveFails(l) PROVE Inv'
  <2>1. /\ Input /\ l \in listening /\ listening' \subseteq listening
        /\ \/ Handle(<<reportError, closeAll({l})>>) \/ Handle(<<closeAll({l}), reportError>>)
           \/ Handle(<<reportError>>)
        /\ UNCHANGED <<connections, opened, home, nextSessionId>>
    BY <1>4 DEF ReceiveFails
  <2>2. /\ Handler(<<reportError, closeAll({l})>>) /\ Handler(<<closeAll({l}), reportError>>)
        /\ Handler(<<reportError>>)
    OBVIOUS
  <2> QED  BY <2>1, <2>2, QuietInputKeeps
<1>5. ASSUME NEW s \in Sessions, HandshakeDone(s) PROVE Inv'
  <2>1. /\ Input /\ s \in connections \ opened /\ Handle(<<task("open", s)>>)
        /\ UNCHANGED <<listening, connections, opened, home, nextSessionId>>
    BY <1>5 DEF HandshakeDone
  <2>2. Handler(<<task("open", s)>>)
    BY <2>1
  <2> QED  BY <2>1, <2>2, QuietInputKeeps
<1>6. ASSUME NEW s \in Sessions, Receive(s) PROVE Inv'
  <2>1. /\ Input /\ s \in connections /\ Handle(<<task("message", s)>>)
        /\ UNCHANGED <<listening, connections, opened, home, nextSessionId>>
    BY <1>6, InvParts DEF Receive, RegistryInv
  <2>2. Handler(<<task("message", s)>>)
    OBVIOUS
  <2> QED  BY <2>1, <2>2, QuietInputKeeps
<1>7. ASSUME NEW s \in Sessions, ConnectionEnds(s) PROVE Inv'
  <2>1. /\ Input /\ s \in connections
        /\ \/ Handle(<<task("close", s)>>) \/ Handle(<<reportError, task("close", s)>>)
           \/ Handle(<<task("close", s), reportError>>) \/ Handle(<<reportError>>)
        /\ UNCHANGED <<listening, connections, opened, home, nextSessionId>>
    BY <1>7 DEF ConnectionEnds
  <2>2. /\ Handler(<<task("close", s)>>) /\ Handler(<<reportError, task("close", s)>>)
        /\ Handler(<<task("close", s), reportError>>) /\ Handler(<<reportError>>)
    OBVIOUS
  <2> QED  BY <2>1, <2>2, QuietInputKeeps
<1> QED  BY <1>1, <1>2, <1>3, <1>4, <1>5, <1>6, <1>7 DEF Network
\* Two tasks, or one.
LEMMA TaskLists ==
  /\ \A b \in BOOLEAN : reply(b) \in Task /\ reply(b).do = "answer" /\ reply(b).result = b
  /\ \A a : a \in Task => <<a>> \in Seq(Task) /\ Len(<<a>>) = 1 /\ <<a>>[1] = a
  /\ \A a, b : a \in Task /\ b \in Task =>
       <<a, b>> \in Seq(Task) /\ Len(<<a, b>>) = 2 /\ <<a, b>>[1] = a /\ <<a, b>>[2] = b
  /\ (\A i \in 1..1 : i = 1) /\ (\A i \in 1..2 : i = 1 \/ i = 2)
<1>1. \A b \in BOOLEAN : reply(b) \in Task /\ reply(b).do = "answer" /\ reply(b).result = b
  BY HostConstants DEF reply, Task
<1>2. \A a : a \in Task => <<a>> \in Seq(Task) /\ Len(<<a>>) = 1 /\ <<a>>[1] = a
  OBVIOUS
<1>3. \A a, b : a \in Task /\ b \in Task =>
       <<a, b>> \in Seq(Task) /\ Len(<<a, b>>) = 2 /\ <<a, b>>[1] = a /\ <<a, b>>[2] = b
  OBVIOUS
<1> QED  BY <1>1, <1>2, <1>3

\* A command runs to its answer.
LEMMA CommandStepKeeps == Inv /\ CommandStep => Inv'
<1> SUFFICES ASSUME Inv, CommandStep PROVE Inv'
  OBVIOUS
<1>1. /\ WorkerIdle
      /\ RunStart \/ RunStop \/ RunDisconnect \/ RunSend
      /\ command' = NoCommand
      /\ UNCHANGED <<queueVars, hostVars, running, poisoned, connections, opened,
                     home, nextSessionId, answer, view>>
  BY DEF CommandStep
<1>2. UNCHANGED <<lifecycle, pc, listeners, entries, overflow, stopped>>
  BY <1>1 DEF hostVars, queueVars
<1>3. command.op \in {"start", "stop", "send", "disconnect"} /\ command # NoCommand
  <2>1. command.op \in {"start", "stop", "send", "disconnect"}
    BY <1>1 DEF RunStart, RunStop, RunDisconnect, RunSend
  <2>2. NoCommand.op = "none"
    BY DEF NoCommand
  <2> QED  BY <2>1, <2>2
<1>4. running /\ ~stopping /\ answer = "pending" /\ lifecycle \in Threads
  BY <1>1, <1>3, IdleWorker, InvParts DEF CommandInv
<1>5. pc[lifecycle] \in Waiter[command.op]
  BY <1>3, InvParts DEF CommandInv
<1>6. /\ command.op = "stop" => InStopLocked(lifecycle)
      /\ command.op # "stop" => ~InStopLocked(lifecycle)
  BY <1>3, <1>5 DEF Waiter, InStopLocked
<1>7. \E b \in BOOLEAN :
        \/ tasks' = <<reply(b)>>
        \/ \E x \in Task : /\ tasks' = <<x, reply(b)>> /\ x.do \in {"error", "close", "closeAll"}
                           /\ x.do = "close" => x.session \in Sessions
  <2>1. reportError \in Task /\ reportError.do = "error"
    BY HostConstants DEF task, reportError, Task, Ids
  <2>2. closeAll(Ids) \in Task /\ closeAll(Ids).do = "closeAll"
    BY HostConstants DEF closeAll, Task
  <2>3. \A s \in Sessions : task("close", s) \in Task /\ task("close", s).do = "close"
                            /\ task("close", s).session = s
    BY HostConstants DEF task, Task, Ids
  <2>4. connections \subseteq Sessions /\ opened \subseteq Sessions
    BY InvParts DEF RegistryType
  <2>5. CASE RunStart
    BY <2>1, <2>5 DEF RunStart
  <2>6. CASE RunStop
    BY <2>2, <2>6 DEF RunStop
  <2>7. CASE RunDisconnect
    BY <2>3, <2>4, <2>7 DEF RunDisconnect
  <2>8. CASE RunSend
    BY <2>3, <2>4, <2>8 DEF RunSend
  <2> QED  BY <1>1, <2>5, <2>6, <2>7, <2>8
<1>8. tasks' \in Seq(Task) /\ TaskInv' /\ Answering'
  <2>1. PICK b \in BOOLEAN :
        \/ tasks' = <<reply(b)>>
        \/ \E x \in Task : /\ tasks' = <<x, reply(b)>> /\ x.do \in {"error", "close", "closeAll"}
                           /\ x.do = "close" => x.session \in Sessions
    BY <1>7
  <2>2. reply(b) \in Task /\ reply(b).do = "answer"
    BY TaskLists
  <2>3. CASE tasks' = <<reply(b)>>
    <3>1. tasks' \in Seq(Task) /\ Len(tasks') = 1 /\ tasks'[1] = reply(b)
      BY <2>2, <2>3, TaskLists
    <3> QED  BY <2>2, <3>1, TaskLists DEF TaskInv, TaskAt, Answering
  <2>4. CASE \E x \in Task : /\ tasks' = <<x, reply(b)>> /\ x.do \in {"error", "close", "closeAll"}
                             /\ x.do = "close" => x.session \in Sessions
    <3>1. PICK x \in Task : /\ tasks' = <<x, reply(b)>> /\ x.do \in {"error", "close", "closeAll"}
                            /\ x.do = "close" => x.session \in Sessions
      BY <2>4
    <3>2. tasks' \in Seq(Task) /\ Len(tasks') = 2 /\ tasks'[1] = x /\ tasks'[2] = reply(b)
      BY <2>2, <3>1, TaskLists
    <3>3. 2 \in 1..2
      OBVIOUS
    <3> QED  BY <2>2, <3>1, <3>2, <3>3, TaskLists DEF TaskInv, TaskAt, Answering
  <2> QED  BY <2>1, <2>3, <2>4
<1>9. /\ listening' \subseteq Ids /\ stopping' \in BOOLEAN
      /\ command.op = "stop" => stopping' /\ listening' = {} /\ tasks' = <<closeAll(Ids), reply(TRUE)>>
      /\ command.op # "stop" => stopping' = stopping
  <2>1. listeners \in 0..MaxListeners /\ listening \subseteq Ids /\ stopping \in BOOLEAN
    BY InvParts DEF HostType, RegistryType, FlagType
  <2>2. 1..listeners \subseteq Ids /\ \A k \in 0..(listeners - 1) : 1..k \subseteq Ids
    BY <2>1, HostConstants DEF Ids
  <2> QED  BY <1>1, <2>1, <2>2 DEF RunStart, RunStop, RunDisconnect, RunSend
<1>10. CommandInv'
  BY <1>1, <1>2, <1>4, <1>6, <1>8, <1>9, HostConstants DEF CommandInv, InStopLocked, NoCommand
<1>11. StopInv'
  BY <1>1, <1>2, <1>4, <1>6, <1>9 DEF StopInv, InStopLocked
<1>12. CommandType' /\ RegistryType' /\ RegistryInv'
  <2>1. NoCommand \in Command
    BY HostConstants DEF NoCommand, Command
  <2> QED  BY <1>1, <1>8, <1>9, <2>1, InvParts DEF CommandType, RegistryType, RegistryInv, Allocated
<1>13. QueueStep /\ \A s \in Sessions : SessionAt(s)'
  BY <1>1, <1>2, SessionsKept DEF QueueStep
<1> QED  BY <1>1, <1>2, <1>4, <1>8, <1>9, <1>10, <1>11, <1>12, <1>13, WorkerStep
-----------------------------------------------------------------------------
(***************************************************************************)
(* The application threads.                                                *)
(***************************************************************************)

\* Steps of a thread that leave the registry and the queued events alone.
LEMMA ThreadStep ==
  ASSUME Inv, UNCHANGED <<entries, overflow, tasks, listening, connections, opened, home,
                          nextSessionId, view, poisoned>>,
         QueueStep, HostType', FlagType', CommandType', \A t \in Threads : LockAt(t)',
         StateInv', CommandInv', StopInv'
  PROVE  Inv'
<1>1. QueueInv'
  BY QueueKept, InvParts
<1>2. RegistryType' /\ RegistryInv' /\ TaskInv'
  BY InvParts DEF RegistryType, RegistryInv, Allocated, TaskInv, TaskAt
<1>3. \A s \in Sessions : SessionAt(s)'
  BY SessionsKept
<1> QED  BY <1>1, <1>2, <1>3 DEF Inv

\* The lock changes hands between one thread and nobody.
LEMMA LockStep ==
  ASSUME Inv, NEW t \in Threads, NEW q, pc' = [pc EXCEPT ![t] = q],
         lifecycle \in {t, NoThread}, lifecycle' \in {t, NoThread}, LockAt(t)'
  PROVE  \A u \in Threads : LockAt(u)'
<1> TAKE u \in Threads
<1>1. CASE u = t
  BY <1>1
<1>2. CASE u # t
  <2>1. pc'[u] = pc[u]
    BY <1>2, InvParts DEF HostType
  <2>2. lifecycle # u /\ lifecycle' # u
    BY <1>2, HostConstants
  <2> QED  BY <2>1, <2>2, InvParts DEF LockAt
<1> QED  BY <1>1, <1>2

\* Nobody holds the lock: nothing is posted, under way or answered.
LEMMA Unlocked ==
  ASSUME Inv, lifecycle = NoThread
  PROVE  /\ command = NoCommand /\ ~Answering /\ answer = "pending" /\ (running => ~stopping)
         /\ \A t \in Threads : pc[t] \in {"idle", "stop"}
         /\ running => hostState = "Running"
<1>1. lifecycle \notin Threads
  BY HostConstants
<1>2. command = NoCommand /\ ~Answering /\ answer = "pending" /\ (running => ~stopping)
  BY <1>1, InvParts DEF CommandInv, StopInv
<1>3. \A t \in Threads : pc[t] \in {"idle", "stop"}
  BY <1>1, InvParts DEF LockAt, HostType
<1> QED  BY <1>2, <1>3, InvParts DEF StateInv, HostType
LEMMA AddListenerKeeps ==
  ASSUME Inv, NEW t \in Threads, add_listener(t)
  PROVE  Inv'
<1>1. /\ listeners < MaxListeners /\ listeners' = listeners + 1
      /\ UNCHANGED <<queueVars, hostState, lifecycle, pc, transportVars, commandVars, tasks, view>>
  BY DEF add_listener
<1>2. /\ UNCHANGED <<entries, overflow, stopped, command, answer>>
      /\ UNCHANGED <<running, poisoned, stopping, listening, connections, opened, home, nextSessionId>>
  BY <1>1 DEF queueVars, commandVars, transportVars, registryVars
<1>3. HostType' /\ FlagType' /\ CommandType'
  BY <1>1, <1>2, InvParts, HostConstants DEF HostType, FlagType, CommandType
<1>4. \A u \in Threads : LockAt(u)'
  BY <1>1, <1>2, InvParts DEF LockAt
<1>5. StateInv' /\ CommandInv' /\ StopInv'
  BY <1>1, <1>2, InvParts DEF StateInv, Clean, CommandInv, StopInv, InStopLocked, Answering
<1>6. QueueStep
  BY <1>1 DEF QueueStep
<1> QED  BY <1>1, <1>2, <1>3, <1>4, <1>5, <1>6, ThreadStep

LEMMA StartKeeps ==
  ASSUME Inv, NEW t \in Threads, start(t)
  PROVE  Inv'
<1>1. PICK p \in {"starting", "failing"} :
      /\ lifecycle = NoThread /\ hostState = "Configuring" /\ ~running /\ ~poisoned
      /\ stopping' = FALSE /\ running' = TRUE /\ lifecycle' = t
      /\ pc' = [pc EXCEPT ![t] = p]
      /\ \/ command' = [op |-> "start", session |-> 0] /\ p = "starting"
         \/ command' = command /\ p = "failing"
      /\ UNCHANGED <<queueVars, hostState, listeners, poisoned, listening, connections,
                     opened, home, nextSessionId, answer, tasks, view>>
  BY DEF start, Free
<1>2. UNCHANGED <<entries, overflow, stopped>>
  BY <1>1 DEF queueVars
<1>3. Clean /\ command = NoCommand /\ ~Answering /\ answer = "pending"
  BY <1>1, Unlocked, InvParts DEF StateInv
<1>4. pc'[t] = p /\ t # NoThread
  BY <1>1, InvParts, HostConstants DEF HostType
<1>5. HostType' /\ FlagType'
  BY <1>1, InvParts DEF HostType, FlagType
<1>6. CommandType'
  <2>1. [op |-> "start", session |-> 0] \in Command
    BY HostConstants DEF Command
  <2> QED  BY <1>1, <2>1, InvParts DEF CommandType
<1>7. LockAt(t)'
  BY <1>1, <1>4 DEF LockAt
<1>8. \A u \in Threads : LockAt(u)'
  BY <1>1, <1>7, LockStep
<1>9. StateInv'
  BY <1>1, <1>2, <1>4, InvParts DEF StateInv
<1>10. ~Answering'
  BY <1>1, <1>3 DEF Answering
<1>11. CommandInv'
  BY <1>1, <1>3, <1>4, <1>10 DEF CommandInv, Waiter, NoCommand
<1>12. StopInv' /\ QueueStep
  BY <1>1 DEF StopInv, QueueStep
<1> QED  BY <1>1, <1>2, <1>5, <1>6, <1>8, <1>9, <1>11, <1>12, ThreadStep

\* What a thread waiting for an answer finds.
LEMMA Answered ==
  ASSUME Inv, NEW t \in Threads, lifecycle = t, answer # "pending"
  PROVE  /\ command = NoCommand /\ ~Answering /\ running
         /\ InStopLocked(t) => stopping
         /\ ~InStopLocked(t) => ~stopping
<1>1. command = NoCommand /\ ~Answering /\ (InStopLocked(t) => stopping)
  BY InvParts DEF CommandInv
<1>2. running
  BY InvParts DEF LockAt
<1> QED  BY <1>1, <1>2, InvParts DEF StopInv

LEMMA StartReturnsKeeps ==
  ASSUME Inv, NEW t \in Threads, StartReturns(t)
  PROVE  Inv'
<1>1. PICK p \in {"idle", "failing"} :
      /\ pc[t] = "starting" /\ answer # "pending" /\ pc' = [pc EXCEPT ![t] = p]
      /\ \/ hostState' = "Running" /\ lifecycle' = NoThread /\ p = "idle"
         \/ hostState' = hostState /\ lifecycle' = lifecycle /\ p = "failing"
      /\ answer' = "pending"
      /\ UNCHANGED <<queueVars, listeners, transportVars, command, tasks, view>>
  BY DEF StartReturns
<1>2. /\ UNCHANGED <<entries, overflow, stopped>>
      /\ UNCHANGED <<running, poisoned, stopping, listening, connections, opened, home, nextSessionId>>
  BY <1>1 DEF queueVars, transportVars, registryVars
<1>3. lifecycle = t /\ hostState = "Configuring" /\ running
  BY <1>1, InvParts DEF LockAt
<1>4. command = NoCommand /\ ~Answering /\ ~stopping
  BY <1>1, <1>3, Answered DEF InStopLocked
<1>5. pc'[t] = p /\ t # NoThread
  BY <1>1, InvParts, HostConstants DEF HostType
<1>6. HostType' /\ FlagType' /\ CommandType'
  BY <1>1, <1>2, <1>3, InvParts DEF HostType, FlagType, CommandType
<1>7. LockAt(t)'
  BY <1>1, <1>2, <1>3, <1>5 DEF LockAt
<1>8. \A u \in Threads : LockAt(u)'
  BY <1>1, <1>3, <1>7, LockStep
<1>9. StateInv'
  BY <1>1, <1>2, <1>3, <1>5, InvParts DEF StateInv
<1>10. CommandInv' /\ StopInv' /\ QueueStep
  BY <1>1, <1>2, <1>4 DEF CommandInv, StopInv, QueueStep, Answering, NoCommand
<1> QED  BY <1>1, <1>2, <1>6, <1>8, <1>9, <1>10, ThreadStep

\* A thread that goes to stop, or comes back, without the lock.
LEMMA OutsideKeeps ==
  ASSUME Inv, NEW t \in Threads, pc[t] \in {"idle", "stop"}, NEW p \in {"idle", "stop"},
         pc' = [pc EXCEPT ![t] = p], QueueStep,
         UNCHANGED <<entries, overflow, stopped, hostState, listeners, lifecycle, transportVars,
                     commandVars, tasks, view>>
  PROVE  Inv'
<1>1. UNCHANGED <<running, poisoned, stopping, listening, connections, opened, home, nextSessionId,
                  command, answer>>
  BY DEF transportVars, registryVars, commandVars
<1>2. \A u \in Threads : pc'[u] = IF u = t THEN p ELSE pc[u]
  BY InvParts DEF HostType
<1>3. lifecycle # t
  BY InvParts DEF LockAt
<1>4. HostType' /\ FlagType' /\ CommandType'
  BY <1>1, InvParts DEF HostType, FlagType, CommandType
<1>5. \A u \in Threads : LockAt(u)'
  BY <1>1, <1>2, <1>3, InvParts DEF LockAt
<1>6. StateInv'
  BY <1>1, InvParts DEF StateInv, Clean
<1>7. lifecycle \in Threads => pc'[lifecycle] = pc[lifecycle]
  BY <1>2, <1>3
<1>8. CommandInv' /\ StopInv'
  BY <1>1, <1>7, InvParts DEF CommandInv, StopInv, InStopLocked, Answering
<1> QED  BY <1>1, <1>4, <1>5, <1>6, <1>8, ThreadStep

LEMMA CallStopKeeps ==
  ASSUME Inv, NEW t \in Threads, CallStop(t) \/ StopAlready(t)
  PROVE  Inv'
<1>1. /\ pc[t] \in {"idle", "stop"}
      /\ pc' = [pc EXCEPT ![t] = "stop"] \/ pc' = [pc EXCEPT ![t] = "idle"]
      /\ UNCHANGED <<queueVars, hostState, listeners, lifecycle, transportVars, commandVars, tasks, view>>
  BY DEF CallStop, StopAlready
<1>2. UNCHANGED <<entries, overflow, stopped>> /\ QueueStep
  BY <1>1 DEF queueVars, QueueStep
<1> QED  BY <1>1, <1>2, OutsideKeeps

LEMMA StopIdleKeeps ==
  ASSUME Inv, NEW t \in Threads, StopIdle(t)
  PROVE  Inv'
<1>1. /\ pc[t] = "stop" /\ lifecycle = NoThread /\ ~running
      /\ hostState' = "Stopped" /\ Q!finish /\ pc' = [pc EXCEPT ![t] = "idle"]
      /\ UNCHANGED <<listeners, lifecycle, transportVars, commandVars, tasks, view>>
  BY DEF StopIdle
<1>2. /\ UNCHANGED <<entries, overflow>> /\ stopped' = TRUE
      /\ UNCHANGED <<running, poisoned, stopping, listening, connections, opened, home, nextSessionId,
                     command, answer>>
  BY <1>1 DEF Q!finish, transportVars, registryVars, commandVars
<1>3. command = NoCommand /\ ~Answering /\ answer = "pending"
  BY <1>1, Unlocked
<1>4. pc'[t] = "idle" /\ t # NoThread
  BY <1>1, InvParts, HostConstants DEF HostType
<1>5. HostType' /\ FlagType' /\ CommandType'
  BY <1>1, <1>2, InvParts DEF HostType, FlagType, CommandType
<1>6. LockAt(t)'
  BY <1>1, <1>4 DEF LockAt
<1>7. \A u \in Threads : LockAt(u)'
  BY <1>1, <1>6, LockStep
<1>8. StateInv'
  BY <1>1, <1>2, InvParts DEF StateInv, Clean
<1>9. CommandInv' /\ StopInv' /\ QueueStep
  BY <1>1, <1>2, <1>3 DEF CommandInv, StopInv, QueueStep, Answering, NoCommand
<1> QED  BY <1>1, <1>2, <1>5, <1>7, <1>8, <1>9, ThreadStep

LEMMA StopRunningKeeps ==
  ASSUME Inv, NEW t \in Threads, StopRunning(t)
  PROVE  Inv'
<1>1. /\ lifecycle = NoThread /\ hostState # "Stopped" /\ running
      /\ lifecycle' = t /\ pc' = [pc EXCEPT ![t] = "halting"]
      /\ UNCHANGED <<queueVars, hostState, listeners, transportVars, commandVars, tasks, view>>
  BY DEF StopRunning
<1>2. /\ UNCHANGED <<entries, overflow, stopped>>
      /\ UNCHANGED <<running, poisoned, stopping, listening, connections, opened, home, nextSessionId,
                     command, answer>>
  BY <1>1 DEF queueVars, transportVars, registryVars, commandVars
<1>3. command = NoCommand /\ ~Answering /\ answer = "pending" /\ ~stopping /\ hostState = "Running"
  BY <1>1, Unlocked
<1>4. pc'[t] = "halting" /\ t # NoThread
  BY <1>1, InvParts, HostConstants DEF HostType
<1>5. HostType' /\ FlagType' /\ CommandType'
  BY <1>1, <1>2, InvParts DEF HostType, FlagType, CommandType
<1>6. LockAt(t)'
  BY <1>1, <1>2, <1>3, <1>4 DEF LockAt
<1>7. \A u \in Threads : LockAt(u)'
  BY <1>1, <1>6, LockStep
<1>8. StateInv'
  BY <1>1, <1>2, <1>4, InvParts DEF StateInv
<1>9. CommandInv' /\ StopInv' /\ QueueStep
  BY <1>1, <1>2, <1>3 DEF CommandInv, StopInv, QueueStep, Answering, NoCommand
<1> QED  BY <1>1, <1>2, <1>5, <1>7, <1>8, <1>9, ThreadStep

LEMMA PostStopKeeps ==
  ASSUME Inv, NEW t \in Threads, PostStop(t)
  PROVE  Inv'
<1>1. /\ pc[t] \in {"failing", "halting"} /\ answer = "pending" /\ ~stopping
      /\ command' = [op |-> "stop", session |-> 0]
      /\ UNCHANGED <<queueVars, hostVars, transportVars, answer, tasks, view>>
  BY DEF PostStop, InStopLocked
<1>2. /\ UNCHANGED <<entries, overflow, stopped, hostState, listeners, lifecycle, pc>>
      /\ UNCHANGED <<running, poisoned, stopping, listening, connections, opened, home, nextSessionId>>
  BY <1>1 DEF queueVars, hostVars, transportVars, registryVars
<1>3. lifecycle = t /\ running
  BY <1>1, InvParts DEF LockAt
<1>4. ~Answering
  BY <1>1, <1>3, InvParts DEF CommandInv, InStopLocked
<1>5. HostType' /\ FlagType' /\ CommandType'
  <2>1. [op |-> "stop", session |-> 0] \in Command
    BY HostConstants DEF Command
  <2> QED  BY <1>1, <1>2, <2>1, InvParts DEF HostType, FlagType, CommandType
<1>6. \A u \in Threads : LockAt(u)'
  BY <1>2, InvParts DEF LockAt
<1>7. StateInv'
  BY <1>2, <1>3, InvParts DEF StateInv
<1>8. CommandInv' /\ StopInv' /\ QueueStep
  BY <1>1, <1>2, <1>3, <1>4 DEF CommandInv, StopInv, QueueStep, Answering, NoCommand, Waiter
<1> QED  BY <1>1, <1>2, <1>5, <1>6, <1>7, <1>8, ThreadStep

LEMMA CallKeeps ==
  ASSUME Inv, NEW t \in Threads, NEW op \in {"send", "disconnect"}, NEW s \in Sessions, Call(t, op, s)
  PROVE  Inv'
<1>1. /\ lifecycle = NoThread /\ hostState = "Running" /\ lifecycle' = t
      /\ pc' = [pc EXCEPT ![t] = "calling"] /\ command' = [op |-> op, session |-> s]
      /\ UNCHANGED <<queueVars, hostState, listeners, transportVars, answer, tasks, view>>
  BY DEF Call, Free
<1>2. /\ UNCHANGED <<entries, overflow, stopped>>
      /\ UNCHANGED <<running, poisoned, stopping, listening, connections, opened, home, nextSessionId>>
  BY <1>1 DEF queueVars, transportVars, registryVars
<1>3. running /\ ~Answering /\ answer = "pending" /\ ~stopping
  BY <1>1, Unlocked, InvParts DEF StateInv
<1>4. pc'[t] = "calling" /\ t # NoThread
  BY <1>1, InvParts, HostConstants DEF HostType
<1>5. HostType' /\ FlagType' /\ CommandType'
  <2>1. [op |-> op, session |-> s] \in Command
    BY HostConstants DEF Command
  <2> QED  BY <1>1, <1>2, <2>1, InvParts DEF HostType, FlagType, CommandType
<1>6. LockAt(t)'
  BY <1>1, <1>2, <1>3, <1>4 DEF LockAt
<1>7. \A u \in Threads : LockAt(u)'
  BY <1>1, <1>6, LockStep
<1>8. StateInv'
  BY <1>1, <1>2, <1>3, InvParts DEF StateInv
<1>9. CommandInv' /\ StopInv' /\ QueueStep
  <2>1. command'.op = op /\ Waiter[op] = {"calling"} /\ op # "none"
    BY <1>1 DEF Waiter
  <2>2. ~Answering' /\ ~InStopLocked(t)'
    BY <1>1, <1>3, <1>4 DEF Answering, InStopLocked
  <2>3. CommandInv'
    BY <1>1, <1>3, <1>4, <2>1, <2>2 DEF CommandInv
  <2> QED  BY <1>1, <1>2, <1>3, <2>3 DEF StopInv, QueueStep
<1> QED  BY <1>1, <1>2, <1>5, <1>7, <1>8, <1>9, ThreadStep

LEMMA CallReturnsKeeps ==
  ASSUME Inv, NEW t \in Threads, CallReturns(t)
  PROVE  Inv'
<1>1. /\ pc[t] = "calling" /\ answer # "pending" /\ answer' = "pending" /\ lifecycle' = NoThread
      /\ pc' = [pc EXCEPT ![t] = "idle"]
      /\ UNCHANGED <<queueVars, hostState, listeners, transportVars, command, tasks, view>>
  BY DEF CallReturns
<1>2. /\ UNCHANGED <<entries, overflow, stopped>>
      /\ UNCHANGED <<running, poisoned, stopping, listening, connections, opened, home, nextSessionId>>
  BY <1>1 DEF queueVars, transportVars, registryVars
<1>3. lifecycle = t /\ hostState = "Running" /\ running
  BY <1>1, InvParts DEF LockAt
<1>4. command = NoCommand /\ ~Answering /\ ~stopping
  BY <1>1, <1>3, Answered DEF InStopLocked
<1>5. pc'[t] = "idle" /\ t # NoThread
  BY <1>1, InvParts, HostConstants DEF HostType
<1>6. HostType' /\ FlagType' /\ CommandType'
  BY <1>1, <1>2, InvParts DEF HostType, FlagType, CommandType
<1>7. LockAt(t)'
  BY <1>1, <1>5 DEF LockAt
<1>8. \A u \in Threads : LockAt(u)'
  BY <1>1, <1>3, <1>7, LockStep
<1>9. StateInv'
  BY <1>1, <1>2, <1>3, InvParts DEF StateInv
<1>10. CommandInv' /\ StopInv' /\ QueueStep
  BY <1>1, <1>2, <1>4 DEF CommandInv, StopInv, QueueStep, Answering, NoCommand
<1> QED  BY <1>1, <1>2, <1>6, <1>8, <1>9, <1>10, ThreadStep
\* The thread that waited for the stop command finds the worker done.
LEMMA StopReturnsKeeps ==
  ASSUME Inv, NEW t \in Threads, StopReturns(t)
  PROVE  Inv'
<1>1. /\ pc[t] \in {"failing", "halting"} /\ answer = "true" /\ answer' = "pending"
      /\ running' = FALSE /\ lifecycle' = NoThread /\ pc' = [pc EXCEPT ![t] = "idle"]
      /\ \/ pc[t] = "halting" /\ hostState' = "Stopped" /\ Q!finish
         \/ pc[t] = "failing" /\ UNCHANGED <<queueVars, hostState>>
      /\ UNCHANGED <<listeners, poisoned, registryVars, command, tasks, view>>
  BY DEF StopReturns, InStopLocked, Joined
<1>2. /\ UNCHANGED <<entries, overflow>> /\ QueueStep
      /\ UNCHANGED <<stopping, listening, connections, opened, home, nextSessionId>>
  BY <1>1 DEF queueVars, registryVars, Q!finish, QueueStep
<1>3. lifecycle = t /\ InStopLocked(t) /\ answer # "pending"
  BY <1>1, InvParts DEF LockAt, InStopLocked
<1>4. stopping /\ running /\ command = NoCommand /\ ~Answering
  BY <1>3, Answered
<1>5. tasks = <<>> /\ connections = {} /\ listening = {} /\ opened = {}
  BY <1>3, <1>4, InvParts DEF StopInv, RegistryInv
<1>6. pc'[t] = "idle" /\ t # NoThread
  BY <1>1, InvParts, HostConstants DEF HostType
<1>7. HostType' /\ FlagType' /\ CommandType'
  BY <1>1, <1>2, InvParts DEF HostType, FlagType, CommandType
<1>8. LockAt(t)'
  BY <1>1, <1>6 DEF LockAt
<1>9. \A u \in Threads : LockAt(u)'
  BY <1>1, <1>3, <1>8, LockStep
<1>10. /\ hostState' # "Running" /\ (stopped' <=> hostState' = "Stopped")
  BY <1>1, InvParts DEF LockAt, StateInv, queueVars, Q!finish
<1>11. StateInv'
  BY <1>1, <1>2, <1>4, <1>5, <1>10, InvParts DEF StateInv, Clean
<1>12. CommandInv' /\ StopInv'
  BY <1>1, <1>4 DEF CommandInv, StopInv, Answering, NoCommand
<1> QED  BY <1>1, <1>2, <1>7, <1>9, <1>11, <1>12, ThreadStep

\* A forced stop forgets every connection without an event.
LEMMA ForcedStopKeeps ==
  ASSUME Inv, NEW t \in Threads, ForcedStop(t)
  PROVE  Inv'
<1>1. /\ pc[t] \in {"failing", "halting"} /\ answer = "pending" /\ command = NoCommand
      /\ tasks = <<>>
      /\ running' = FALSE /\ lifecycle' = NoThread /\ pc' = [pc EXCEPT ![t] = "idle"]
      /\ \/ pc[t] = "halting" /\ hostState' = "Stopped" /\ Q!finish
         \/ pc[t] = "failing" /\ UNCHANGED <<queueVars, hostState>>
      /\ poisoned' = TRUE /\ stopping' = TRUE
      /\ listening' = {} /\ connections' = {} /\ opened' = {}
      /\ UNCHANGED <<listeners, home, nextSessionId, commandVars, tasks, view>>
  BY DEF ForcedStop, InStopLocked, Joined
<1>2. UNCHANGED <<entries, overflow, command, answer>> /\ QueueStep
  BY <1>1 DEF queueVars, Q!finish, QueueStep, commandVars
<1>3. lifecycle = t
  BY <1>1, InvParts DEF LockAt
<1>4. pc'[t] = "idle" /\ t # NoThread
  BY <1>1, InvParts, HostConstants DEF HostType
<1>5. QueueInv'
  BY <1>2, QueueKept, InvParts
<1>6. HostType' /\ FlagType' /\ CommandType'
  BY <1>1, <1>2, InvParts DEF HostType, FlagType, CommandType
<1>7. RegistryType' /\ RegistryInv'
  BY <1>1, InvParts DEF RegistryType, RegistryInv
<1>8. LockAt(t)'
  BY <1>1, <1>4 DEF LockAt
<1>9. \A u \in Threads : LockAt(u)'
  BY <1>1, <1>3, <1>8, LockStep
<1>10. /\ hostState' # "Running" /\ (stopped' <=> hostState' = "Stopped")
  BY <1>1, InvParts DEF LockAt, StateInv, queueVars, Q!finish
<1>11. StateInv'
  BY <1>1, <1>2, <1>10 DEF StateInv, Clean
<1>12. CommandInv' /\ StopInv' /\ TaskInv'
  <2>1. 1..Len(tasks') = {}
    BY <1>1
  <2>2. ~Answering' /\ TaskInv'
    BY <2>1 DEF Answering, TaskInv
  <2>3. command'.op = "none"
    BY <1>1, <1>2 DEF NoCommand
  <2> QED  BY <1>1, <1>2, <2>2, <2>3, HostConstants DEF CommandInv, StopInv
<1>13. ASSUME NEW s \in Sessions PROVE SessionAt(s)'
  <2>1. \A k, i : IsEvent(i, k, s)' <=> IsEvent(i, k, s)
    BY <1>2 DEF IsEvent
  <2>2. (Queued("Open", s)' <=> Queued("Open", s)) /\ (Queued("Close", s)' <=> Queued("Close", s))
    BY <1>2 DEF Queued
  <2>3. (Allocated(s)' <=> Allocated(s)) /\ SessionAt(s) /\ view' = view
    BY <1>1, InvParts DEF Allocated
  <2>4. s \in connections' \ opened' \/ ~Allocated(s)' => Fresh(s)'
    BY <1>1, <2>2, <2>3 DEF SessionAt, Fresh
  <2>5. \A i \in 1..Len(entries') : IsEvent(i, "Open", s)' =>
          /\ view'[s] = "unknown"
          /\ \A j \in 1..Len(entries') : IsEvent(j, "Open", s)' => j = i
    BY <1>2, <2>1, <2>3 DEF SessionAt
  <2>6. \A i \in 1..Len(entries') : IsEvent(i, "Close", s)' =>
          /\ view'[s] = "open" \/ \E j \in 1..(i - 1) : IsEvent(j, "Open", s)'
          /\ \A j \in 1..Len(entries') : IsEvent(j, "Close", s)' => j = i
    BY <1>2, <2>1, <2>3 DEF SessionAt
  <2> QED  BY <1>1, <2>4, <2>5, <2>6 DEF SessionAt
<1> QED  BY <1>5, <1>6, <1>7, <1>9, <1>11, <1>12, <1>13 DEF Inv
-----------------------------------------------------------------------------
(***************************************************************************)
(* poll.                                                                   *)
(***************************************************************************)

\* The queue after its head was read, and what the application then knows.
LEMMA Popped ==
  ASSUME Inv, Q!PollReady(MaxPayload), view' = Seen(Head(entries)), NEW s \in Sessions
  PROVE  /\ Len(entries) \in Nat /\ Len(entries) >= 1 /\ Len(entries') = Len(entries) - 1
         /\ \A k : \A i \in 1..(Len(entries) - 1) : IsEvent(i, k, s)' <=> IsEvent(i + 1, k, s)
         /\ view'[s] = IF IsEvent(1, "Open", s) THEN "open"
                       ELSE IF IsEvent(1, "Close", s) THEN "closed" ELSE view[s]
         /\ RegistryType => view' \in [Sessions -> {"unknown", "open", "closed"}]
         /\ ~overflow /\ UNCHANGED <<overflow, stopped>>
<1>1. entries # <<>> /\ entries' = Tail(entries) /\ ~overflow /\ UNCHANGED <<overflow, stopped>>
  BY DEF Q!PollReady
<1>2. entries \in Seq(Q!Event) /\ Len(entries) \in Nat
  BY QueueList
<1>3. /\ Len(entries) >= 1 /\ Len(entries') = Len(entries) - 1 /\ Head(entries) = entries[1]
      /\ \A i \in 1..(Len(entries) - 1) : entries'[i] = entries[i + 1]
  BY <1>1, <1>2
<1>4. \A k : \A i \in 1..(Len(entries) - 1) : IsEvent(i, k, s)' <=> IsEvent(i + 1, k, s)
  BY <1>3 DEF IsEvent
<1>5. view \in [Sessions -> {"unknown", "open", "closed"}]
  BY InvParts DEF RegistryType
<1>6. /\ entries[1].kind = "Open" => view' = [view EXCEPT ![entries[1].peer] = "open"]
      /\ entries[1].kind = "Close" => view' = [view EXCEPT ![entries[1].peer] = "closed"]
      /\ entries[1].kind \notin {"Open", "Close"} => view' = view
  BY <1>3 DEF Seen
<1>7. view'[s] = IF IsEvent(1, "Open", s) THEN "open"
                 ELSE IF IsEvent(1, "Close", s) THEN "closed" ELSE view[s]
  BY <1>5, <1>6 DEF IsEvent
<1>8. view' \in [Sessions -> {"unknown", "open", "closed"}]
  BY <1>5, <1>6
<1> QED  BY <1>1, <1>2, <1>3, <1>4, <1>7, <1>8

\* Reading an event about a session, or about another one.
LEMMA SessionPolled ==
  ASSUME Inv, Q!PollReady(MaxPayload), view' = Seen(Head(entries)), NEW s \in Sessions,
         UNCHANGED <<connections, opened, nextSessionId, poisoned>>
  PROVE  SessionAt(s)'
<1> DEFINE n == Len(entries)
<1>1. /\ n \in Nat /\ n >= 1 /\ Len(entries') = n - 1 /\ ~overflow /\ overflow' = overflow
      /\ \A k : \A i \in 1..(n - 1) : IsEvent(i, k, s)' <=> IsEvent(i + 1, k, s)
      /\ view'[s] = IF IsEvent(1, "Open", s) THEN "open"
                    ELSE IF IsEvent(1, "Close", s) THEN "closed" ELSE view[s]
  BY Popped
<1>2. SessionAt(s) /\ (Allocated(s)' <=> Allocated(s))
  BY InvParts DEF Allocated
<1>3. \A k : /\ Queued(k, s) <=> \E i \in 1..n : IsEvent(i, k, s)
             /\ Queued(k, s)' <=> \E i \in 1..(n - 1) : IsEvent(i + 1, k, s)
  <2> TAKE k
  <2>1. Queued(k, s) <=> \E i \in 1..n : IsEvent(i, k, s)
    BY DEF Queued, IsEvent
  <2>2. Queued(k, s)' <=> \E i \in 1..(n - 1) : IsEvent(i, k, s)'
    BY <1>1 DEF Queued, IsEvent
  <2> QED  BY <1>1, <2>1, <2>2
<1>4. /\ \A i \in 1..n : IsEvent(i, "Open", s) =>
           view[s] = "unknown" /\ \A j \in 1..n : IsEvent(j, "Open", s) => j = i
      /\ \A i \in 1..n : IsEvent(i, "Close", s) =>
           /\ s \notin opened
           /\ view[s] = "open" \/ \E j \in 1..(i - 1) : IsEvent(j, "Open", s)
           /\ \A j \in 1..n : IsEvent(j, "Close", s) => j = i
  BY <1>2 DEF SessionAt
<1> HIDE DEF n
<1>5. 1 \in 1..n /\ \A i \in 1..(n - 1) : i + 1 \in 1..n /\ i + 1 # 1
  BY <1>1
<1>6. \A k : Queued(k, s) <=> IsEvent(1, k, s) \/ Queued(k, s)'
  <2> TAKE k
  <2>1. ASSUME NEW i \in 1..n, IsEvent(i, k, s) PROVE IsEvent(1, k, s) \/ Queued(k, s)'
    <3>1. CASE i = 1
      BY <2>1, <3>1
    <3>2. CASE i # 1
      <4>1. (i - 1) \in 1..(n - 1) /\ (i - 1) + 1 = i
        BY <1>1, <3>2
      <4> QED  BY <1>3, <2>1, <4>1
    <3> QED  BY <3>1, <3>2
  <2> QED  BY <1>3, <1>5, <2>1
<1>7. ~(IsEvent(1, "Open", s) /\ IsEvent(1, "Close", s))
  BY DEF IsEvent
\* What the head says.
<1>8. IsEvent(1, "Open", s) => /\ view[s] = "unknown" /\ view'[s] = "open" /\ ~Queued("Open", s)'
                               /\ Queued("Open", s)
  BY <1>1, <1>3, <1>4, <1>5
<1>9. IsEvent(1, "Close", s) => /\ view[s] = "open" /\ view'[s] = "closed" /\ s \notin opened
                                /\ ~Queued("Close", s)' /\ ~Queued("Open", s)
  <2> SUFFICES ASSUME IsEvent(1, "Close", s)
               PROVE  /\ view[s] = "open" /\ view'[s] = "closed" /\ s \notin opened
                      /\ ~Queued("Close", s)' /\ ~Queued("Open", s)
    OBVIOUS
  <2>1. view[s] = "open" /\ s \notin opened
    <3>1. 1..(1 - 1) = {}
      OBVIOUS
    <3> QED  BY <1>4, <1>5, <3>1
  <2>2. ~Queued("Close", s)'
    BY <1>3, <1>4, <1>5
  <2>3. ~Queued("Open", s)
    BY <1>3, <1>4, <2>1
  <2> QED  BY <1>1, <1>7, <2>1, <2>2, <2>3
<1>10. ~IsEvent(1, "Open", s) /\ ~IsEvent(1, "Close", s) => view'[s] = view[s]
  BY <1>1
\* The conjuncts of SessionAt.
<1>11. s \in connections' \ opened' \/ ~Allocated(s)' => Fresh(s)'
  <2>1. s \in connections' \ opened' \/ ~Allocated(s)' => Fresh(s)
    BY <1>2 DEF SessionAt
  <2>2. Fresh(s) => Fresh(s)'
    BY <1>6, <1>10 DEF Fresh
  <2> QED  BY <2>1, <2>2
<1>12. ASSUME NEW i \in 1..(n - 1), IsEvent(i, "Open", s)'
       PROVE  view'[s] = "unknown" /\ \A j \in 1..(n - 1) : IsEvent(j, "Open", s)' => j = i
  <2>1. IsEvent(i + 1, "Open", s) /\ i + 1 \in 1..n /\ i + 1 # 1
    BY <1>1, <1>5, <1>12
  <2>2. view[s] = "unknown" /\ \A j \in 1..n : IsEvent(j, "Open", s) => j = i + 1
    BY <1>4, <2>1
  <2>3. ~IsEvent(1, "Open", s) /\ ~IsEvent(1, "Close", s)
    BY <1>5, <1>9, <2>1, <2>2
  <2>4. ASSUME NEW j \in 1..(n - 1), IsEvent(j, "Open", s)' PROVE j = i
    <3>1. j + 1 = i + 1
      BY <1>1, <1>5, <2>2, <2>4
    <3> QED  BY <1>1, <3>1
  <2> QED  BY <1>10, <2>2, <2>3, <2>4
<1>13. ASSUME NEW i \in 1..(n - 1), IsEvent(i, "Close", s)'
       PROVE  /\ s \notin opened'
              /\ view'[s] = "open" \/ \E j \in 1..(i - 1) : IsEvent(j, "Open", s)'
              /\ \A j \in 1..(n - 1) : IsEvent(j, "Close", s)' => j = i
  <2>1. IsEvent(i + 1, "Close", s) /\ i + 1 \in 1..n /\ i + 1 # 1
    BY <1>1, <1>5, <1>13
  <2>2. /\ s \notin opened
        /\ view[s] = "open" \/ \E j \in 1..i : IsEvent(j, "Open", s)
        /\ \A j \in 1..n : IsEvent(j, "Close", s) => j = i + 1
    <3>1. (i + 1) - 1 = i
      BY <1>1
    <3> QED  BY <1>4, <2>1, <3>1
  <2>3. ~IsEvent(1, "Close", s)
    BY <1>5, <2>1, <2>2
  <2>4. view'[s] = "open" \/ \E j \in 1..(i - 1) : IsEvent(j, "Open", s)'
    <3>1. CASE IsEvent(1, "Open", s)
      BY <1>8, <3>1
    <3>2. CASE ~IsEvent(1, "Open", s) /\ view[s] = "open"
      BY <1>10, <2>3, <3>2
    <3>3. CASE ~IsEvent(1, "Open", s) /\ \E j \in 1..i : IsEvent(j, "Open", s)
      <4>1. PICK j \in 1..i : IsEvent(j, "Open", s)
        BY <3>3
      <4>2. (j - 1) \in 1..(i - 1) /\ (j - 1) \in 1..(n - 1) /\ (j - 1) + 1 = j
        BY <1>1, <3>3, <4>1
      <4>3. IsEvent(j - 1, "Open", s)'
        BY <1>1, <4>1, <4>2
      <4> QED  BY <4>2, <4>3
    <3> QED  BY <2>2, <3>1, <3>2, <3>3
  <2>5. ASSUME NEW j \in 1..(n - 1), IsEvent(j, "Close", s)' PROVE j = i
    <3>1. j + 1 = i + 1
      BY <1>1, <1>5, <2>2, <2>5
    <3> QED  BY <1>1, <3>1
  <2> QED  BY <2>2, <2>4, <2>5
<1>14. view'[s] = "closed" => s \notin opened'
  BY <1>2, <1>8, <1>9, <1>10 DEF SessionAt
<1>15. s \in opened' => view'[s] = "open" \/ Queued("Open", s)'
  <2>1. s \in opened => view[s] = "open" \/ Queued("Open", s)
    BY <1>1, <1>2 DEF SessionAt
  <2> QED  BY <1>6, <1>8, <1>9, <1>10, <2>1
<1>16. ~poisoned' /\ (view'[s] = "open" \/ Queued("Open", s)') => s \in opened' \/ Queued("Close", s)'
  <2>1. ~poisoned /\ (view[s] = "open" \/ Queued("Open", s)) => s \in opened \/ Queued("Close", s)
    BY <1>1, <1>2 DEF SessionAt
  <2> QED  BY <1>6, <1>7, <1>8, <1>9, <1>10, <2>1
<1>17. /\ \A i \in 1..Len(entries') : IsEvent(i, "Open", s)' =>
            view'[s] = "unknown" /\ \A j \in 1..Len(entries') : IsEvent(j, "Open", s)' => j = i
       /\ \A i \in 1..Len(entries') : IsEvent(i, "Close", s)' =>
            /\ s \notin opened'
            /\ view'[s] = "open" \/ \E j \in 1..(i - 1) : IsEvent(j, "Open", s)'
            /\ \A j \in 1..Len(entries') : IsEvent(j, "Close", s)' => j = i
  BY <1>1, <1>12, <1>13
<1> QED  BY <1>11, <1>14, <1>15, <1>16, <1>17 DEF SessionAt

LEMMA PollReadyKeeps ==
  ASSUME Inv, Q!PollReady(MaxPayload), view' = Seen(Head(entries)), pc' = pc,
         UNCHANGED <<hostState, listeners, lifecycle, transportVars, commandVars, tasks>>
  PROVE  Inv'
<1>1. UNCHANGED <<running, poisoned, stopping, listening, connections, opened, home, nextSessionId,
                  command, answer>>
  BY DEF transportVars, registryVars, commandVars
<1>2. UNCHANGED <<overflow, stopped>> /\ view' \in [Sessions -> {"unknown", "open", "closed"}]
  <2>1. 1 \in Sessions
    BY HostConstants DEF Sessions
  <2> QED  BY <2>1, Popped, InvParts
<1>3. QueueInv'
  BY QueueKept, InvParts DEF QueueStep
<1>4. HostType' /\ FlagType' /\ CommandType' /\ RegistryType' /\ RegistryInv' /\ TaskInv'
  BY <1>1, <1>2, InvParts DEF HostType, FlagType, CommandType, RegistryType, RegistryInv, Allocated,
     TaskInv, TaskAt
<1>5. \A u \in Threads : LockAt(u)'
  BY <1>1, InvParts DEF LockAt
<1>6. StateInv' /\ CommandInv' /\ StopInv'
  BY <1>1, <1>2, InvParts DEF StateInv, Clean, CommandInv, StopInv, InStopLocked, Answering
<1>7. \A s \in Sessions : SessionAt(s)'
  BY <1>1, SessionPolled
<1> QED  BY <1>3, <1>4, <1>5, <1>6, <1>7 DEF Inv

LEMMA PollKeeps ==
  ASSUME Inv, NEW t \in Threads, poll(t)
  PROVE  Inv'
<1>1. /\ pc[t] = "idle"
      /\ UNCHANGED <<hostState, listeners, lifecycle, transportVars, commandVars, tasks>>
  BY DEF poll
<1>2. CASE Q!PollReady(MaxPayload) /\ view' = Seen(Head(entries)) /\ pc' = pc
  BY <1>1, <1>2, PollReadyKeeps
<1>3. CASE Q!PollOverflow /\ pc' = [pc EXCEPT ![t] = "stop"] /\ view' = view
  <2>1. UNCHANGED <<entries, overflow, stopped>> /\ QueueStep
    BY <1>3 DEF Q!PollOverflow, QueueStep
  <2> QED  BY <1>1, <1>3, <2>1, OutsideKeeps
<1>4. CASE Q!PollStopped /\ pc' = pc /\ view' = view
  <2>1. UNCHANGED <<entries, overflow, stopped>> /\ QueueStep
    BY <1>4 DEF Q!PollStopped, QueueStep
  <2>2. pc' = [pc EXCEPT ![t] = "idle"]
    BY <1>1, <1>4, InvParts DEF HostType
  <2> QED  BY <1>1, <1>4, <2>1, <2>2, OutsideKeeps
<1> QED  BY <1>2, <1>3, <1>4 DEF poll
-----------------------------------------------------------------------------
(***************************************************************************)
(* The inductive invariant.                                                *)
(***************************************************************************)

LEMMA InitInv == Init => Inv
<1> SUFFICES ASSUME Init PROVE Inv
  OBVIOUS
<1>1. QP!Init
  BY DEF Init, Q!Init, QP!Init, Q!Nothing, QP!Nothing
<1>2. QueueSafe
  BY <1>1, SameQueue, QP!InitSafe, QueueConstants
<1>3. QueueInv
  BY <1>2 DEF QueueInv, QueueSafe, Init, Q!Init, Q!StoppedAfterDrain
<1>4. HostType /\ RegistryType
  BY HostConstants DEF Init, HostType, RegistryType, Sessions
<1>5. FlagType
  BY Zenon DEF Init, FlagType
<1>6. CommandType
  BY HostConstants DEF Init, CommandType, NoCommand, Command
<1>7. \A t \in Threads : LockAt(t)
  BY HostConstants DEF Init, LockAt
<1>8. StateInv /\ StopInv /\ RegistryInv
  BY DEF Init, Q!Init, StateInv, Clean, StopInv, RegistryInv
<1>9. 1..Len(tasks) = {} /\ 1..Len(entries) = {}
  BY DEF Init, Q!Init
<1>10. CommandInv /\ TaskInv
  BY <1>9, HostConstants DEF Init, CommandInv, Answering, NoCommand, TaskInv
<1>11. ASSUME NEW s \in Sessions PROVE SessionAt(s)
  <2>1. view[s] = "unknown" /\ opened = {}
    BY DEF Init
  <2> QED  BY <1>9, <2>1 DEF SessionAt, Fresh, Queued
<1> QED  BY <1>3, <1>4, <1>5, <1>6, <1>7, <1>8, <1>10, <1>11 DEF Inv

LEMMA ApplicationKeeps ==
  ASSUME Inv, NEW t \in Threads, Application(t)
  PROVE  Inv'
<1>1. CASE add_listener(t) \/ start(t) \/ CallStop(t)
  BY <1>1, AddListenerKeeps, StartKeeps, CallStopKeeps
<1>2. CASE stop(t)
  BY <1>2, CallStopKeeps, StopIdleKeeps, StopRunningKeeps DEF stop
<1>3. CASE \E op \in {"send", "disconnect"}, s \in Sessions : Call(t, op, s)
  BY <1>3, CallKeeps
<1>4. CASE poll(t)
  BY <1>4, PollKeeps
<1>5. CASE Continue(t)
  BY <1>5, StartReturnsKeeps, PostStopKeeps, StopReturnsKeeps, ForcedStopKeeps, CallReturnsKeeps
  DEF Continue
<1> QED  BY <1>1, <1>2, <1>3, <1>4, <1>5 DEF Application

LEMMA StutterKeeps == Inv /\ UNCHANGED vars => Inv'
<1> SUFFICES ASSUME Inv, UNCHANGED vars PROVE Inv'
  OBVIOUS
<1>1. UNCHANGED queueVars /\ UNCHANGED hostVars /\ UNCHANGED transportVars /\ UNCHANGED commandVars
      /\ tasks' = tasks /\ view' = view
  BY DEF vars
<1>2. /\ UNCHANGED <<entries, overflow, stopped, hostState, listeners, lifecycle, pc>>
      /\ UNCHANGED <<running, poisoned, stopping, listening, connections, opened, home, nextSessionId,
                     command, answer>>
  BY <1>1 DEF queueVars, hostVars, transportVars, registryVars, commandVars
<1>3. HostType' /\ FlagType' /\ CommandType' /\ QueueStep
  BY <1>1, <1>2, InvParts DEF HostType, FlagType, CommandType, QueueStep
<1>4. \A u \in Threads : LockAt(u)'
  BY <1>2, InvParts DEF LockAt
<1>5. StateInv' /\ CommandInv' /\ StopInv'
  BY <1>1, <1>2, InvParts DEF StateInv, Clean, CommandInv, StopInv, InStopLocked, Answering
<1> QED  BY <1>1, <1>2, <1>3, <1>4, <1>5, ThreadStep

LEMMA NextInv == Inv /\ [Next]_vars => Inv'
BY NetworkKeeps, HandlerStepKeeps, CommandStepKeeps, ApplicationKeeps, StutterKeeps DEF Next, Worker

\* The lock, the commands, the registry and the queue stay consistent under
\* every interleaving of the threads, the worker and the network.
THEOREM Invariant == Spec => []Inv
BY InitInv, NextInv, PTL DEF Spec
-----------------------------------------------------------------------------
(***************************************************************************)
(* What follows from it.                                                   *)
(***************************************************************************)

\* Every variable of the host, the transport and the queue keeps its type;
\* nextSessionId wraps to 0 and never counts past the last id.
THEOREM TypeCorrect == Spec => []TypeOK
<1>1. Inv => TypeOK
  BY DEF Inv, QueueInv, FlagType, HostType, RegistryType, CommandType, TypeOK
<1> QED  BY <1>1, Invariant, PTL

\* A session the application believes open, or is about to hear of, is still
\* registered with its CLOSE to come or its CLOSE is queued, unless an
\* overflow or a forced shutdown lost it (publish_open, remove_connection).
THEOREM NoSessionIsAGhost == Spec => []NoGhostSessions
<1>1. Inv => NoGhostSessions
  BY DEF Inv, SessionAt, NoGhostSessions
<1> QED  BY <1>1, Invariant, PTL

\* While no worker runs the transport is clean, and while one runs nobody can
\* change the listener table (TransportService::start and stop_locked).
THEOREM WorkerBoundaryHolds == Spec => []WorkerBoundary
<1>1. Inv => WorkerBoundary
  BY DEF Inv, StateInv, Clean, WorkerBoundary
<1> QED  BY <1>1, Invariant, PTL

\* Fed by the worker and drained by poll, the queue of the host keeps FIFO
\* order without gaps, its byte counter is exact, and a STOPPED answer leaves
\* nothing behind: what EventQueueProofs shows of the queue alone.
THEOREM QueueInTheHost == Spec => [](Q!Gapless /\ Q!Accounted /\ Q!StoppedAfterDrain)
<1>1. Inv => Q!Gapless /\ Q!Accounted /\ Q!StoppedAfterDrain
  BY DEF Inv, QueueInv
<1> QED  BY <1>1, Invariant, PTL

\* Steps that do not return from a call move no thread to idle.
LEMMA WorkerKeepsThreads == Network \/ Worker => UNCHANGED pc
<1>1. Network => UNCHANGED pc
  BY DEF Network, Admit, dispatch_datagram, Register, AdmitExhausted, AcceptFails, ReceiveFails,
     HandshakeDone, Receive, ConnectionEnds, Handle, hostVars
<1>2. HandlerStep => UNCHANGED pc
  BY DEF HandlerStep, OpenStep, MessageStep, ErrorStep, CloseStep, CloseAllStep, AnswerStep, hostVars
<1>3. CommandStep => UNCHANGED pc
  BY DEF CommandStep, hostVars
<1> QED  BY <1>1, <1>2, <1>3 DEF Worker

\* A thread that returns from stop(), or from the poll that read OVERFLOW,
\* finds the server stopped and the worker joined, whoever did the stopping.
THEOREM StopReturnsStopped == Spec => StopIsSynchronous
<1> DEFINE A(t) == pc[t] \in {"stop", "halting"} /\ pc'[t] = "idle" => hostState' = "Stopped" /\ ~running'
<1>1. Inv /\ [Next]_vars => [\A t \in Threads : A(t)]_vars
  <2> SUFFICES ASSUME Inv, Next, NEW t \in Threads, pc[t] \in {"stop", "halting"}, pc'[t] = "idle"
               PROVE  hostState' = "Stopped" /\ ~running'
    OBVIOUS
  <2>1. PICK u \in Threads : Application(u)
    BY WorkerKeepsThreads DEF Next
  <2>2. pc \in [Threads -> {"idle", "stop", "starting", "failing", "halting", "calling"}]
    BY InvParts DEF HostType
  <2>3. CASE add_listener(u) \/ PostStop(u)
    BY <2>3 DEF add_listener, PostStop, hostVars
  <2>4. CASE start(u) \/ CallStop(u) \/ \E op \in {"send", "disconnect"}, s \in Sessions : Call(u, op, s)
    BY <2>2, <2>4 DEF start, CallStop, Call, Free
  <2>5. CASE StopAlready(u)
    <3>1. hostState = "Stopped" /\ hostState' = hostState /\ running' = running
      BY <2>5 DEF StopAlready, transportVars
    <3> QED  BY <3>1, InvParts DEF StateInv
  <2>6. CASE StopIdle(u)
    BY <2>6 DEF StopIdle, transportVars
  <2>7. CASE StopRunning(u)
    BY <2>2, <2>7 DEF StopRunning
  <2>8. CASE poll(u)
    BY <2>2, <2>8 DEF poll
  <2>9. CASE StartReturns(u) \/ CallReturns(u)
    <3>1. pc[u] \in {"starting", "calling"} /\ \E q : pc' = [pc EXCEPT ![u] = q]
      BY <2>9 DEF StartReturns, CallReturns
    <3> QED  BY <2>2, <3>1
  <2>10. CASE StopReturns(u) \/ ForcedStop(u)
    <3>1. /\ pc[u] \in {"failing", "halting"} /\ pc' = [pc EXCEPT ![u] = "idle"] /\ running' = FALSE
          /\ pc[u] = "halting" => hostState' = "Stopped"
      BY <2>10 DEF StopReturns, ForcedStop, Joined, InStopLocked
    <3> QED  BY <2>2, <3>1
  <2> QED  BY <2>1, <2>3, <2>4, <2>5, <2>6, <2>7, <2>8, <2>9, <2>10 DEF Application, stop, Continue
<1> QED  BY <1>1, Invariant, PTL DEF Spec, StopIsSynchronous
-----------------------------------------------------------------------------
(***************************************************************************)
(* A session speaks between its OPEN and its CLOSE.                        *)
(***************************************************************************)

\* A queued message of session s lies behind the OPEN, queued or read, and no
\* CLOSE lies before it.
Speaks(i, s) == IsEvent(i, "Message", s) \/ IsEvent(i, "HttpRequest", s)
SpeechAt(s) ==
  \A i \in 1..Len(entries) : Speaks(i, s) =>
    /\ view[s] = "open" \/ \E j \in 1..(i - 1) : IsEvent(j, "Open", s)
    /\ \A j \in 1..(i - 1) : ~IsEvent(j, "Close", s)
NamesAt(i) == entries[i].kind = "Error" <=> entries[i].peer = 0
SpeechInv ==
  /\ delivered < nextSequence
  /\ \A i \in 1..Len(entries) : NamesAt(i)
  /\ \A s \in Sessions : SpeechAt(s)

\* What a step may do to the queue and to the application's view.
Published(kind, p, size) ==
  /\ Q!PushAccepted(kind, p, size)
  /\ kind = "Error" <=> p = 0
  /\ kind \in {"Message", "HttpRequest"} => p \in opened
Publish ==
  /\ view' = view
  /\ \E kind \in Q!EventKinds, p \in 0..MaxSessionId, size \in 0..MaxPayload : Published(kind, p, size)
Lose == view' = view /\ entries' = <<>> /\ UNCHANGED <<delivered, nextSequence>>
Quiet == UNCHANGED <<entries, view, delivered, nextSequence>>

\* A refused push empties the queue or leaves it alone.
LEMMA RefusedMoves ==
  ASSUME Q!PushRejected, view' = view
  PROVE  Lose \/ Quiet
BY DEF Q!PushRejected, Q!PushRefused, Q!PushOverflows, Q!qvars, Lose, Quiet

\* Session s opens or closes.
LEMMA AnnounceMoves ==
  ASSUME NEW s \in Sessions, NEW kind \in {"Open", "Close"}, Q!Push(kind, s, 0), view' = view
  PROVE  Publish \/ Lose \/ Quiet
<1>1. kind \in Q!EventKinds /\ s \in 0..MaxSessionId /\ 0 \in 0..MaxPayload /\ s # 0
  BY HostConstants DEF Q!EventKinds
<1>2. CASE Q!PushAccepted(kind, s, 0)
  <2>1. Published(kind, s, 0)
    BY <1>1, <1>2 DEF Published
  <2> QED  BY <1>1, <2>1 DEF Publish
<1> QED  BY <1>2, RefusedMoves DEF Q!Push

LEMMA CloseMoves ==
  ASSUME NEW s \in Sessions, close(s), view' = view
  PROVE  Publish \/ Lose \/ Quiet
BY AnnounceMoves DEF close, queueVars, Quiet

LEMMA MessageMoves ==
  ASSUME NEW s \in Sessions, MessageStep(s)
  PROVE  Publish \/ Lose \/ Quiet
<1>1. publish_message(s) /\ view' = view
  BY DEF MessageStep
<1>2. CASE UNCHANGED queueVars
  BY <1>1, <1>2 DEF queueVars, Quiet
<1>3. CASE Q!PushRejected
  BY <1>1, <1>3, RefusedMoves
<1>4. ASSUME s \in opened, NEW kind \in {"Message", "HttpRequest"}, NEW size \in 0..MaxPayload,
             Q!PushAccepted(kind, s, size)
      PROVE  Publish
  <2>1. kind \in Q!EventKinds /\ s \in 0..MaxSessionId /\ s # 0
    BY HostConstants DEF Q!EventKinds
  <2>2. Published(kind, s, size)
    BY <1>4, <2>1 DEF Published
  <2> QED  BY <1>1, <2>1, <2>2 DEF Publish
<1> QED  BY <1>1, <1>2, <1>3, <1>4 DEF publish_message

LEMMA ErrorMoves ==
  ASSUME ErrorStep
  PROVE  Publish \/ Lose \/ Quiet
<1>1. PICK size \in {0, MaxPayload} : Q!Push("Error", 0, size)
  BY DEF ErrorStep
<1>2. view' = view /\ "Error" \in Q!EventKinds /\ 0 \in 0..MaxSessionId /\ size \in 0..MaxPayload
  BY HostConstants DEF ErrorStep, Q!EventKinds
<1>3. CASE Q!PushAccepted("Error", 0, size)
  <2>1. Published("Error", 0, size)
    BY <1>3 DEF Published
  <2> QED  BY <1>2, <2>1 DEF Publish
<1> QED  BY <1>1, <1>2, <1>3, RefusedMoves DEF Q!Push

LEMMA HandlerMoves ==
  ASSUME Inv, HandlerStep
  PROVE  Publish \/ Lose \/ Quiet
<1> DEFINE now == Head(tasks)
<1>1. /\ tasks # <<>>
      /\ now.do \in {"open", "message", "close"} => now.session \in Sessions
  BY HeadTask DEF HandlerStep, TaskAt
<1> HIDE DEF now
<1>2. ASSUME NEW s \in Sessions, OpenStep(s) PROVE Publish \/ Lose \/ Quiet
  <2>1. view' = view /\ Q!Push("Open", s, 0)
    BY <1>2 DEF OpenStep, publish_open, Q!Push
  <2> QED  BY <2>1, AnnounceMoves
<1>3. ASSUME NEW s \in Sessions, CloseStep(s) PROVE Publish \/ Lose \/ Quiet
  BY <1>3, CloseMoves DEF CloseStep
<1>4. ASSUME NEW L, CloseAllStep(L) PROVE Publish \/ Lose \/ Quiet
  <2>1. view' = view /\ (UNCHANGED queueVars \/ \E s \in connections : close(s))
    BY <1>4 DEF CloseAllStep
  <2>2. connections \subseteq Sessions
    BY InvParts DEF RegistryType
  <2> QED  BY <2>1, <2>2, CloseMoves DEF queueVars, Quiet
<1>5. ASSUME NEW b, AnswerStep(b) PROVE Quiet
  BY <1>5 DEF AnswerStep, queueVars, Quiet
<1> QED  BY <1>1, <1>2, <1>3, <1>4, <1>5, MessageMoves, ErrorMoves DEF HandlerStep, now

\* Only the worker publishes and only polls deliver.
LEMMA QueueMoves ==
  ASSUME Inv, [Next]_vars
  PROVE  \/ Publish \/ Lose \/ Quiet
         \/ Q!PollReady(MaxPayload) /\ view' = Seen(Head(entries))
         \/ Q!PollOverflow /\ view' = view
<1>1. CASE UNCHANGED vars
  BY <1>1 DEF vars, queueVars, Quiet
<1>2. CASE Network
  BY <1>2 DEF Network, Admit, dispatch_datagram, Register, AdmitExhausted, AcceptFails, ReceiveFails,
     HandshakeDone, Receive, ConnectionEnds, Handle, queueVars, Quiet
<1>3. CASE HandlerStep
  BY <1>3, HandlerMoves
<1>4. CASE CommandStep
  BY <1>4 DEF CommandStep, queueVars, Quiet
<1>5. ASSUME NEW t \in Threads, Application(t), ~poll(t) PROVE Quiet
  <2>1. CASE add_listener(t) \/ start(t) \/ CallStop(t)
    BY <2>1 DEF add_listener, start, CallStop, queueVars, Quiet
  <2>2. CASE stop(t)
    BY <2>2 DEF stop, StopAlready, StopIdle, StopRunning, Q!finish, queueVars, Quiet
  <2>3. CASE \E op \in {"send", "disconnect"}, s \in Sessions : Call(t, op, s)
    BY <2>3 DEF Call, queueVars, Quiet
  <2>4. CASE Continue(t)
    BY <2>4 DEF Continue, StartReturns, PostStop, CallReturns, StopReturns, ForcedStop, Joined,
       Q!finish, queueVars, Quiet
  <2> QED  BY <1>5, <2>1, <2>2, <2>3, <2>4 DEF Application
<1>6. ASSUME Q!PollStopped, view' = view PROVE Quiet
  BY <1>6 DEF Q!PollStopped, Quiet
<1>7. ASSUME NEW t \in Threads, poll(t)
      PROVE  \/ Quiet
             \/ Q!PollReady(MaxPayload) /\ view' = Seen(Head(entries))
             \/ Q!PollOverflow /\ view' = view
  <2>1. \/ Q!PollReady(MaxPayload) /\ view' = Seen(Head(entries))
        \/ Q!PollOverflow /\ view' = view
        \/ Q!PollStopped /\ view' = view
    BY <1>7 DEF poll
  <2> QED  BY <1>6, <2>1
<1> QED  BY <1>1, <1>2, <1>3, <1>4, <1>5, <1>7 DEF Next, Worker

\* A message is published for an open session only.
LEMMA SpeechPublished ==
  ASSUME Inv, SpeechInv, Publish
  PROVE  SpeechInv'
<1>1. PICK kind \in Q!EventKinds, p \in 0..MaxSessionId, size \in 0..MaxPayload : Published(kind, p, size)
  BY DEF Publish
<1>2. Q!PushAccepted(kind, p, size) /\ view' = view /\ (kind = "Error" <=> p = 0)
  BY <1>1 DEF Published, Publish
<1>3. PICK n \in Nat : n = Len(entries)
  BY QueueList
<1>4. /\ Len(entries') = n + 1 /\ ~overflow
      /\ \A s, k : \A i \in 1..(n + 1) :
           IsEvent(i, k, s)' <=> IF i = n + 1 THEN k = kind /\ s = p ELSE IsEvent(i, k, s)
  BY <1>2, <1>3, Pushed
<1>5. delivered' < nextSequence'
  <2>1. delivered' = delivered /\ nextSequence' = nextSequence + 1
    BY <1>2 DEF Q!PushAccepted
  <2>2. delivered \in Nat /\ nextSequence \in Nat /\ delivered < nextSequence
    BY InvParts DEF QueueInv, Q!TypeOK, SpeechInv
  <2> QED  BY <2>1, <2>2
<1>6. ASSUME NEW i \in 1..(n + 1) PROVE NamesAt(i)'
  <2>1. CASE i = n + 1
    <3>1. IsEvent(i, kind, p)'
      BY <1>4, <2>1
    <3> QED  BY <1>2, <3>1 DEF IsEvent, NamesAt
  <2>2. CASE i # n + 1
    <3>1. i \in 1..n
      BY <2>2
    <3>2. NamesAt(i)
      BY <1>3, <3>1 DEF SpeechInv
    <3>3. entries'[i] = entries[i]
      <4>1. entries' = Append(entries, [kind |-> kind, peer |-> p, sequence |-> nextSequence, size |-> size])
        BY <1>2 DEF Q!PushAccepted
      <4> QED  BY <1>3, <3>1, <4>1, QueueList
    <3> QED  BY <3>2, <3>3 DEF NamesAt
  <2> QED  BY <2>1, <2>2
<1>7. ASSUME NEW s \in Sessions, NEW i \in 1..(n + 1), Speaks(i, s)'
      PROVE  /\ view'[s] = "open" \/ \E j \in 1..(i - 1) : IsEvent(j, "Open", s)'
             /\ \A j \in 1..(i - 1) : ~IsEvent(j, "Close", s)'
  <2>1. /\ \A j \in 1..(i - 1) : j \in 1..n /\ j \in 1..(n + 1) /\ j # n + 1
        /\ i \in Nat
    BY <1>3
  <2>2. \A k : \A j \in 1..(i - 1) : IsEvent(j, k, s)' <=> IsEvent(j, k, s)
    BY <1>4, <2>1
  <2>3. CASE i = n + 1
    <3>1. kind \in {"Message", "HttpRequest"} /\ s = p
      BY <1>4, <1>7, <2>3 DEF Speaks
    <3>2. s \in opened /\ SessionAt(s)
      BY <1>1, <3>1, InvParts DEF Published
    <3>3. view[s] = "open" \/ \E j \in 1..n : IsEvent(j, "Open", s)
      BY <1>3, <1>4, <3>2 DEF SessionAt, Queued, IsEvent
    <3>4. \A j \in 1..n : ~IsEvent(j, "Close", s)
      BY <1>3, <3>2 DEF SessionAt
    <3>5. 1..(i - 1) = 1..n
      BY <1>3, <2>3
    <3> QED  BY <1>2, <2>2, <3>3, <3>4, <3>5
  <2>4. CASE i # n + 1
    <3>1. i \in 1..n /\ Speaks(i, s)
      BY <1>4, <1>7, <2>4 DEF Speaks
    <3>2. /\ view[s] = "open" \/ \E j \in 1..(i - 1) : IsEvent(j, "Open", s)
          /\ \A j \in 1..(i - 1) : ~IsEvent(j, "Close", s)
      BY <1>3, <3>1 DEF SpeechInv, SpeechAt
    <3> QED  BY <1>2, <2>2, <3>2
  <2> QED  BY <2>3, <2>4
<1>8. \A s \in Sessions : SpeechAt(s)'
  BY <1>4, <1>7 DEF SpeechAt
<1> QED  BY <1>4, <1>5, <1>6, <1>8 DEF SpeechInv

\* A poll takes the OPEN out of the queue before what follows it.
LEMMA SpeechPolled ==
  ASSUME Inv, SpeechInv, Q!PollReady(MaxPayload), view' = Seen(Head(entries))
  PROVE  SpeechInv'
<1>1. PICK n \in Nat : n = Len(entries)
  BY QueueList
<1>2. entries # <<>> /\ entries' = Tail(entries)
  BY DEF Q!PollReady
<1>3. /\ n >= 1 /\ Len(entries') = n - 1 /\ Head(entries) = entries[1]
      /\ \A i \in 1..(n - 1) : entries'[i] = entries[i + 1]
  BY <1>1, <1>2, QueueList
<1>4. delivered' < nextSequence'
  <2>1. /\ ~overflow /\ nextSequence' = nextSequence /\ delivered' = entries[1].sequence
    BY <1>3 DEF Q!PollReady
  <2>2. /\ delivered \in Nat /\ nextSequence = delivered + n + 1
        /\ entries[1].sequence = delivered + 1
    BY <1>1, <1>3, <2>1, InvParts DEF QueueInv, Q!TypeOK, Q!Gapless
  <2> QED  BY <1>3, <2>1, <2>2
<1>5. ASSUME NEW i \in 1..(n - 1) PROVE NamesAt(i)'
  <2>1. NamesAt(i + 1)
    BY <1>1 DEF SpeechInv
  <2> QED  BY <1>3, <2>1 DEF NamesAt
<1>6. ASSUME NEW s \in Sessions, NEW i \in 1..(n - 1), Speaks(i, s)'
      PROVE  /\ view'[s] = "open" \/ \E j \in 1..(i - 1) : IsEvent(j, "Open", s)'
             /\ \A j \in 1..(i - 1) : ~IsEvent(j, "Close", s)'
  <2>1. /\ \A k : \A j \in 1..(n - 1) : IsEvent(j, k, s)' <=> IsEvent(j + 1, k, s)
        /\ view'[s] = IF IsEvent(1, "Open", s) THEN "open"
                      ELSE IF IsEvent(1, "Close", s) THEN "closed" ELSE view[s]
    BY <1>1, Popped
  <2>2. i + 1 \in 1..n /\ Speaks(i + 1, s) /\ (i + 1) - 1 = i /\ 1 \in 1..i
    BY <1>6, <2>1 DEF Speaks
  <2>3. /\ view[s] = "open" \/ \E j \in 1..i : IsEvent(j, "Open", s)
        /\ \A j \in 1..i : ~IsEvent(j, "Close", s)
    BY <1>1, <2>2 DEF SpeechInv, SpeechAt
  <2>4. \A j \in 1..(i - 1) : ~IsEvent(j, "Close", s)'
    <3> TAKE j \in 1..(i - 1)
    <3>1. j + 1 \in 1..i /\ j \in 1..(n - 1)
      OBVIOUS
    <3> QED  BY <2>1, <2>3, <3>1
  <2>5. ~IsEvent(1, "Close", s)
    BY <2>2, <2>3
  <2>6. CASE view[s] = "open" \/ IsEvent(1, "Open", s)
    BY <2>1, <2>4, <2>5, <2>6
  <2>7. CASE view[s] # "open" /\ ~IsEvent(1, "Open", s)
    <3>1. PICK j \in 1..i : IsEvent(j, "Open", s)
      BY <2>3, <2>7
    <3>2. j # 1
      BY <2>7, <3>1
    <3>3. PICK m \in 1..(i - 1) : j = m + 1
      <4>1. j - 1 \in 1..(i - 1) /\ j = (j - 1) + 1
        BY <3>2
      <4> QED  BY <4>1
    <3>4. m \in 1..(n - 1)
      OBVIOUS
    <3>5. IsEvent(m, "Open", s)'
      BY <2>1, <3>1, <3>3, <3>4
    <3> QED  BY <2>4, <3>5
  <2> QED  BY <2>6, <2>7
<1>7. \A s \in Sessions : SpeechAt(s)'
  BY <1>3, <1>6 DEF SpeechAt
<1> QED  BY <1>3, <1>4, <1>5, <1>7 DEF SpeechInv

LEMMA SpeechNext == Inv /\ SpeechInv /\ [Next]_vars => SpeechInv'
<1> SUFFICES ASSUME Inv, SpeechInv, [Next]_vars PROVE SpeechInv'
  OBVIOUS
<1>1. CASE Publish
  BY <1>1, SpeechPublished
<1>2. CASE Q!PollReady(MaxPayload) /\ view' = Seen(Head(entries))
  BY <1>2, SpeechPolled
<1>3. CASE Lose
  <2>1. 1..Len(entries') = {} /\ delivered' = delivered /\ nextSequence' = nextSequence
    BY <1>3 DEF Lose
  <2> QED  BY <2>1 DEF SpeechInv, SpeechAt
<1>4. CASE Quiet
  BY <1>4 DEF Quiet, SpeechInv, SpeechAt, Speaks, NamesAt, IsEvent
<1>5. CASE Q!PollOverflow /\ view' = view
  <2>1. entries' = <<>> /\ delivered' = nextSequence /\ nextSequence' = nextSequence + 1
    BY <1>5, InvParts DEF Q!PollOverflow, QueueInv
  <2>2. 1..Len(entries') = {} /\ nextSequence \in Nat
    BY <2>1, InvParts DEF QueueInv, Q!TypeOK
  <2> QED  BY <2>1, <2>2 DEF SpeechInv, SpeechAt
<1> QED  BY <1>1, <1>2, <1>3, <1>4, <1>5, QueueMoves

\* In every reachable state what is queued of a session is in order: messages
\* and HTTP requests lie between its OPEN and its CLOSE.
THEOREM SpeechInOrder == Spec => []SpeechInv
<1>1. Init => SpeechInv
  BY DEF Init, Q!Init, SpeechInv, SpeechAt
<1> QED  BY <1>1, SpeechNext, Invariant, PTL DEF Spec
-----------------------------------------------------------------------------
(***************************************************************************)
(* The host implements SessionFeed.                                        *)
(***************************************************************************)

\* What the application has learnt.
feedVars == <<view, delivered, latest, told, poisoned>>

\* A push leaves what was reported alone.
LEMMA PushesReportNothing ==
  ASSUME NEW kind, NEW p, NEW size, Q!Push(kind, p, size)
  PROVE  UNCHANGED <<delivered, latest, told>>
BY DEF Q!Push, Q!PushAccepted, Q!PushRejected, Q!PushRefused, Q!PushOverflows, Q!qvars

\* The worker and the network tell the application nothing.
LEMMA WorkerReportsNothing == Network \/ Worker => UNCHANGED feedVars
<1>1. Network => UNCHANGED feedVars
  BY DEF Network, Admit, dispatch_datagram, Register, AdmitExhausted, AcceptFails, ReceiveFails,
     HandshakeDone, Receive, ConnectionEnds, Handle, queueVars, feedVars
<1>2. ASSUME NEW s, OpenStep(s) \/ CloseStep(s) PROVE UNCHANGED feedVars
  BY <1>2, PushesReportNothing DEF OpenStep, publish_open, CloseStep, close, Q!Push, queueVars, feedVars
<1>3. ASSUME NEW s, MessageStep(s) PROVE UNCHANGED feedVars
  BY <1>3, PushesReportNothing DEF MessageStep, publish_message, Q!Push, queueVars, transportVars, feedVars
<1>4. ErrorStep => UNCHANGED feedVars
  BY PushesReportNothing DEF ErrorStep, transportVars, feedVars
<1>5. ASSUME NEW L, CloseAllStep(L) PROVE UNCHANGED feedVars
  BY <1>5, PushesReportNothing DEF CloseAllStep, close, queueVars, feedVars
<1>6. ASSUME NEW b, AnswerStep(b) PROVE UNCHANGED feedVars
  BY <1>6 DEF AnswerStep, queueVars, transportVars, feedVars
<1>7. HandlerStep => UNCHANGED feedVars
  BY <1>2, <1>3, <1>4, <1>5, <1>6 DEF HandlerStep
<1>8. CommandStep => UNCHANGED feedVars
  BY DEF CommandStep, queueVars, feedVars
<1> QED  BY <1>1, <1>7, <1>8 DEF Worker

\* A poll that returns an event delivers the next one, in its place.
LEMMA PollReadyFeeds ==
  ASSUME Inv, SpeechInv, Q!PollReady(MaxPayload), view' = Seen(Head(entries)), poisoned' = poisoned
  PROVE  Feed!FeedNext
<1>1. ~overflow /\ entries # <<>> /\ told' = told
  BY DEF Q!PollReady
<1>2. told = "live"
  BY <1>1, InvParts DEF QueueInv, Q!TypeOK, Q!StoppedAfterDrain
<1>3. /\ Head(entries) = entries[1] /\ entries[1] \in Q!Event /\ 1 \in 1..Len(entries)
  <2>1. entries \in Seq(Q!Event) /\ Len(entries) \in Nat /\ Len(entries) # 0
    BY <1>1, QueueList
  <2> QED  BY <2>1
<1>4. PICK e \in Q!Event : e = entries[1]
  BY <1>3
<1>5. /\ e.kind = "Open" => view' = [view EXCEPT ![e.peer] = "open"]
      /\ e.kind = "Close" => view' = [view EXCEPT ![e.peer] = "closed"]
      /\ e.kind \notin {"Open", "Close"} => view' = view
  BY <1>3, <1>4 DEF Seen
<1>6. /\ e.kind \in {"Open", "Message", "Close", "Error", "HttpRequest"}
      /\ e.kind = "Error" => e.peer = 0
      /\ e.kind # "Error" => e.peer \in Sessions
  <2>1. e.kind \in Q!EventKinds /\ e.peer \in 0..MaxSessionId /\ NamesAt(1)
    BY <1>3 DEF Q!Event, SpeechInv
  <2> QED  BY <1>4, <2>1, HostConstants DEF Q!EventKinds, NamesAt, Sessions
<1>7. Feed!Deliver(e.kind, e.peer)
  <2>1. delivered' = e.sequence /\ latest' = [kind |-> e.kind, peer |-> e.peer]
    BY <1>3, <1>4 DEF Q!PollReady
  <2>2. e.sequence = delivered + 1
    BY <1>1, <1>3, <1>4, InvParts DEF QueueInv, Q!Gapless
  <2> QED  BY <1>1, <1>2, <2>1, <2>2 DEF Feed!Deliver
<1>8. IsEvent(1, e.kind, e.peer) /\ 1..(1 - 1) = {}
  BY <1>4 DEF IsEvent
<1>9. CASE e.kind = "Open"
  <2>1. view[e.peer] = "unknown"
    BY <1>3, <1>6, <1>8, <1>9, InvParts DEF SessionAt
  <2>2. Feed!DeliverOpen(e.peer)
    BY <1>5, <1>7, <1>9, <2>1 DEF Feed!DeliverOpen
  <2> QED  BY <1>6, <1>9, <2>2 DEF Feed!FeedNext
<1>10. CASE e.kind = "Close"
  <2>1. view[e.peer] = "open"
    BY <1>3, <1>6, <1>8, <1>10, InvParts DEF SessionAt
  <2>2. Feed!DeliverClose(e.peer)
    BY <1>5, <1>7, <1>10, <2>1 DEF Feed!DeliverClose
  <2> QED  BY <1>6, <1>10, <2>2 DEF Feed!FeedNext
<1>11. CASE e.kind \in {"Message", "HttpRequest"}
  <2>1. Speaks(1, e.peer) /\ SpeechAt(e.peer)
    BY <1>6, <1>8, <1>11 DEF Speaks, SpeechInv
  <2>2. view[e.peer] = "open"
    BY <1>3, <1>8, <2>1 DEF SpeechAt
  <2>3. Feed!DeliverMessage(e.peer)
    BY <1>5, <1>7, <1>11, <2>2 DEF Feed!DeliverMessage
  <2> QED  BY <1>6, <1>11, <2>3 DEF Feed!FeedNext
<1>12. CASE e.kind = "Error"
  <2>1. Feed!DeliverError
    BY <1>5, <1>6, <1>7, <1>12 DEF Feed!DeliverError
  <2> QED  BY <2>1 DEF Feed!FeedNext
<1> QED  BY <1>6, <1>9, <1>10, <1>11, <1>12

\* The terminal answers of poll: OVERFLOW comes once, and STOPPED only after
\* every announced session was closed.
LEMMA TerminalFeeds ==
  ASSUME Inv, SpeechInv, Q!PollOverflow \/ Q!PollStopped, UNCHANGED <<view, poisoned>>
  PROVE  Feed!FeedNext
<1>1. CASE Q!PollOverflow
  <2>1. /\ told' = "overflow" /\ ~overflowReported /\ overflow
        /\ delivered' = nextSequence /\ latest' = [kind |-> "Overflow"]
    BY <1>1 DEF Q!PollOverflow, Q!TheOverflow
  <2>2. told = "live"
    BY <2>1, InvParts DEF QueueInv, Q!TypeOK, Q!StoppedAfterDrain
  <2>3. delivered' > delivered
    BY <2>1, InvParts DEF SpeechInv, QueueInv, Q!TypeOK
  <2> QED  BY <2>1, <2>2, <2>3 DEF Feed!FeedNext, Feed!ReportOverflow
<1>2. CASE Q!PollStopped
  <2>1. told' = "stopped" /\ UNCHANGED <<delivered, latest>>
    BY <1>2 DEF Q!PollStopped
  <2>2. CASE overflow
    <3>1. told \in {"overflow", "stopped"}
      BY <1>2, <2>2, InvParts DEF Q!PollStopped, QueueInv, Q!TypeOK
    <3> QED  BY <2>1, <3>1 DEF Feed!FeedNext, Feed!ReportStopped
  <2>3. CASE ~overflow
    <3>1. entries = <<>> /\ stopped
      BY <1>2, <2>3 DEF Q!PollStopped
    <3>2. opened = {}
      BY <3>1, InvParts DEF StateInv, Clean
    <3>3. ASSUME ~poisoned, NEW s \in Sessions PROVE view[s] # "open"
      <4>1. ~Queued("Close", s)
        BY <3>1 DEF Queued
      <4> QED  BY <2>3, <3>2, <3>3, <4>1, InvParts DEF SessionAt
    <3> QED  BY <2>1, <3>3 DEF Feed!FeedNext, Feed!ReportStopped
  <2> QED  BY <2>2, <2>3
<1> QED  BY <1>1, <1>2

\* Calls other than poll tell the application nothing; one may end by force.
LEMMA CallFeeds ==
  ASSUME NEW t, Application(t), ~poll(t)
  PROVE  Feed!FeedNext \/ UNCHANGED feedVars
<1>1. CASE add_listener(t) \/ start(t) \/ CallStop(t)
  BY <1>1 DEF add_listener, start, CallStop, queueVars, transportVars, feedVars
<1>2. CASE stop(t)
  BY <1>2 DEF stop, StopAlready, StopIdle, StopRunning, Q!finish, queueVars, transportVars, feedVars
<1>3. CASE \E op \in {"send", "disconnect"}, s \in Sessions : Call(t, op, s)
  BY <1>3 DEF Call, queueVars, transportVars, feedVars
<1>4. CASE StartReturns(t) \/ PostStop(t) \/ CallReturns(t)
  BY <1>4 DEF StartReturns, PostStop, CallReturns, queueVars, transportVars, feedVars
<1>5. CASE StopReturns(t)
  BY <1>5 DEF StopReturns, Joined, Q!finish, queueVars, feedVars
<1>6. CASE ForcedStop(t)
  <2>1. poisoned' = TRUE /\ UNCHANGED <<view, delivered, latest, told>>
    BY <1>6 DEF ForcedStop, Joined, Q!finish, queueVars
  <2> QED  BY <2>1 DEF Feed!FeedNext, Feed!ForceShutdown
<1> QED  BY <1>1, <1>2, <1>3, <1>4, <1>5, <1>6 DEF Application, Continue

LEMMA StepFeeds == Inv /\ SpeechInv /\ [Next]_vars => [Feed!FeedNext]_Feed!fvars
<1> SUFFICES ASSUME Inv, SpeechInv, [Next]_vars
             PROVE  Feed!FeedNext \/ UNCHANGED feedVars
  BY DEF Feed!fvars, feedVars
<1>1. CASE UNCHANGED vars
  BY <1>1 DEF vars, queueVars, transportVars, feedVars
<1>2. CASE Network \/ Worker
  BY <1>2, WorkerReportsNothing
<1>3. ASSUME NEW t \in Threads, Application(t), ~poll(t)
      PROVE  Feed!FeedNext \/ UNCHANGED feedVars
  BY <1>3, CallFeeds
<1>4. ASSUME NEW t \in Threads, poll(t)
      PROVE  Feed!FeedNext \/ UNCHANGED feedVars
  <2>1. poisoned' = poisoned
    BY <1>4 DEF poll, transportVars
  <2> QED  BY <1>4, <2>1, PollReadyFeeds, TerminalFeeds DEF poll
<1> QED  BY <1>1, <1>2, <1>3, <1>4 DEF Next

\* What an application reads from poll is what SessionFeed promises: events
\* without a gap, every session opens once, speaks between its OPEN and its CLOSE
\* and closes once, and a terminal answer is the last word, with no session left
\* open unless an overflow or a forced stop was involved.
THEOREM ImplementsFeed == Spec => FeedSpec
<1>1. Init => Feed!FeedInit
  BY DEF Init, Q!Init, Q!Nothing, Feed!FeedInit
<1> QED  BY <1>1, StepFeeds, Invariant, SpeechInOrder, PTL DEF Spec, FeedSpec, Feed!FeedSpec
-----------------------------------------------------------------------------
\* The calls that hold a reference to the host.
Users == {t \in Threads : inside[t] # "out"}

\* The count is exact, a thread without a reference is not in the host, and
\* whoever took the entry out of the table is still stopping the host, or has
\* stopped it.
InsideAt(t) ==
  /\ inside[t] = "out" => pc[t] = "idle"
  /\ inside[t] = "destroy" => pc[t] \in {"stop", "halting"} /\ ~registered
HandleInv ==
  /\ registered \in BOOLEAN /\ inside \in [Threads -> {"out", "call", "destroy"}]
  /\ useCount = Cardinality(Users) + (IF registered THEN 1 ELSE 0)
  /\ \A t \in Threads : InsideAt(t)
  /\ ~registered => hostState = "Stopped" \/ \E t \in Threads : inside[t] = "destroy"
-----------------------------------------------------------------------------
(***************************************************************************)
(* Behind a handle the host behaves as ServerHost says.                    *)
(***************************************************************************)

LEMMA AbiStep == [AbiNext]_abiVars => [Next]_vars
<1> SUFFICES ASSUME [AbiNext]_abiVars PROVE Next \/ UNCHANGED vars
  OBVIOUS
<1>1. CASE UNCHANGED abiVars
  BY <1>1 DEF abiVars
<1>2. CASE Network \/ HandlerRuns \/ CommandRuns
  BY <1>2 DEF Next, Worker, HandlerRuns, CommandRuns
<1>3. ASSUME NEW t \in Threads,
             \/ find_host(t) \/ UnknownHandle(t) \/ Refused(t)
             \/ se_server_add_listener(t) \/ se_server_start(t) \/ se_server_poll_event(t)
             \/ se_server_stop(t) \/ se_server_destroy(t)
             \/ \E s \in Sessions :
                  se_server_send(t, s) \/ se_http_respond(t, s) \/ se_server_disconnect(t, s)
             \/ StopCall(t) \/ Proceed(t)
      PROVE  Next \/ UNCHANGED vars
  <2>1. CASE find_host(t) \/ UnknownHandle(t) \/ Refused(t)
    BY <2>1 DEF find_host, UnknownHandle, Refused, abiVars
  <2>2. CASE \/ se_server_add_listener(t) \/ se_server_start(t) \/ se_server_poll_event(t)
             \/ se_server_stop(t) \/ se_server_destroy(t) \/ StopCall(t) \/ Proceed(t)
    <3>1. Application(t)
      BY <2>2 DEF se_server_add_listener, se_server_start, se_server_poll_event, se_server_stop,
         se_server_destroy, StopCall, Proceed, Application
    <3> QED  BY <3>1 DEF Next
  <2>3. ASSUME NEW s \in Sessions,
               se_server_send(t, s) \/ se_http_respond(t, s) \/ se_server_disconnect(t, s)
        PROVE  Next
    <3>1. \E op \in {"send", "disconnect"} : Call(t, op, s)
      BY <2>3 DEF se_server_send, se_http_respond, se_server_disconnect
    <3>2. Application(t)
      BY <3>1 DEF Application
    <3> QED  BY <3>2 DEF Next
  <2> QED  BY <1>3, <2>1, <2>2, <2>3
<1> QED  BY <1>1, <1>2, <1>3 DEF AbiNext

\* A handle adds nothing to what the host can do: every theorem about Spec
\* holds of the host behind the exported calls.
THEOREM AbiImplementsHost == AbiSpec => Spec
<1>1. AbiInit => Init
  BY DEF AbiInit
<1> QED  BY <1>1, AbiStep, PTL DEF AbiSpec, Spec

\* What the exported calls show is what SessionFeed promises, and
\* se_server_stop, the poll that read OVERFLOW and se_server_destroy return
\* with the server stopped and its worker joined.
THEOREM AbiGuarantees == AbiSpec => FeedSpec /\ StopIsSynchronous
BY AbiImplementsHost, ImplementsFeed, StopReturnsStopped, PTL

LEMMA AbiInvariant == AbiSpec => []Inv
BY AbiImplementsHost, Invariant, PTL
-----------------------------------------------------------------------------
(***************************************************************************)
(* What a step of the host does to the thread that takes it.               *)
(***************************************************************************)

\* Only the thread that takes a step moves.
LEMMA OneThreadMoves ==
  ASSUME Inv, NEW t \in Threads, Application(t)
  PROVE  \A u \in Threads : u # t => pc'[u] = pc[u]
<1>1. pc' = pc \/ \E q : pc' = [pc EXCEPT ![t] = q]
  <2>1. CASE add_listener(t) \/ start(t) \/ CallStop(t)
    BY <2>1 DEF add_listener, start, CallStop
  <2>2. CASE stop(t)
    BY <2>2 DEF stop, StopAlready, StopIdle, StopRunning
  <2>3. CASE \E op \in {"send", "disconnect"}, s \in Sessions : Call(t, op, s)
    BY <2>3 DEF Call
  <2>4. CASE poll(t)
    BY <2>4 DEF poll
  <2>5. CASE Continue(t)
    BY <2>5 DEF Continue, StartReturns, PostStop, StopReturns, ForcedStop, Joined, CallReturns, hostVars
  <2> QED  BY <2>1, <2>2, <2>3, <2>4, <2>5 DEF Application
<1> QED  BY <1>1, InvParts DEF HostType

\* A thread on its way to stop leaves it with the server stopped.
LEMMA StopperStops ==
  ASSUME Inv, NEW t \in Threads, stop(t) \/ Continue(t), pc[t] \in {"stop", "halting"}
  PROVE  pc'[t] \in {"stop", "halting"} \/ (pc'[t] = "idle" /\ hostState' = "Stopped")
<1>1. pc \in [Threads -> {"idle", "stop", "starting", "failing", "halting", "calling"}]
  BY InvParts DEF HostType
<1>2. CASE stop(t)
  BY <1>1, <1>2 DEF stop, StopAlready, StopIdle, StopRunning
<1>3. CASE Continue(t)
  BY <1>1, <1>3 DEF Continue, StartReturns, PostStop, StopReturns, ForcedStop, Joined, CallReturns,
     InStopLocked, hostVars
<1> QED  BY <1>2, <1>3

\* A stopped host stays stopped.
LEMMA StoppedForGood == Inv /\ [Next]_vars /\ hostState = "Stopped" => hostState' = "Stopped"
<1> SUFFICES ASSUME Inv, [Next]_vars, hostState = "Stopped" PROVE hostState' = "Stopped"
  OBVIOUS
<1>1. CASE UNCHANGED vars
  BY <1>1 DEF vars, hostVars
<1>2. CASE Network
  BY <1>2 DEF Network, Admit, dispatch_datagram, Register, AdmitExhausted, AcceptFails, ReceiveFails,
     HandshakeDone, Receive, ConnectionEnds, Handle, hostVars
<1>3. CASE HandlerStep
  BY <1>3 DEF HandlerStep, OpenStep, MessageStep, ErrorStep, CloseStep, CloseAllStep, AnswerStep, hostVars
<1>4. CASE CommandStep
  BY <1>4 DEF CommandStep, hostVars
<1>5. ASSUME NEW t \in Threads, Application(t) PROVE hostState' = "Stopped"
  <2>1. LockAt(t)
    BY InvParts
  <2>2. CASE add_listener(t) \/ start(t) \/ CallStop(t)
    BY <2>2 DEF add_listener, start, CallStop
  <2>3. CASE stop(t)
    BY <2>3 DEF stop, StopAlready, StopIdle, StopRunning
  <2>4. CASE \E op \in {"send", "disconnect"}, s \in Sessions : Call(t, op, s)
    BY <2>4 DEF Call
  <2>5. CASE poll(t)
    BY <2>5 DEF poll
  <2>6. CASE StartReturns(t)
    BY <2>1, <2>6 DEF StartReturns, LockAt
  <2>7. CASE PostStop(t) \/ StopReturns(t) \/ ForcedStop(t) \/ CallReturns(t)
    BY <2>7 DEF PostStop, StopReturns, ForcedStop, Joined, CallReturns, hostVars
  <2> QED  BY <1>5, <2>2, <2>3, <2>4, <2>5, <2>6, <2>7 DEF Application, Continue
<1> QED  BY <1>1, <1>2, <1>3, <1>4, <1>5 DEF Next, Worker
-----------------------------------------------------------------------------
(***************************************************************************)
(* References come and go.                                                 *)
(***************************************************************************)

LEMMA UsersFinite == IsFiniteSet(Users) /\ Cardinality(Users) \in Nat
<1>1. Users \subseteq Threads
  BY DEF Users
<1> QED  BY <1>1, ThreadsAssumption, FS_Subset, FS_CardinalityType

LEMMA UserComes ==
  ASSUME HandleInv, NEW t \in Threads, inside[t] = "out", NEW p \in {"call", "destroy"},
         inside' = [inside EXCEPT ![t] = p]
  PROVE  Cardinality(Users') = Cardinality(Users) + 1
<1>1. Users' = Users \cup {t} /\ t \notin Users
  BY DEF Users, HandleInv
<1> QED  BY <1>1, UsersFinite, FS_AddElement

LEMMA UserGoes ==
  ASSUME HandleInv, NEW t \in Threads, inside[t] # "out", inside' = [inside EXCEPT ![t] = "out"]
  PROVE  Cardinality(Users') = Cardinality(Users) - 1
<1>1. Users' = Users \ {t} /\ t \in Users
  BY DEF Users, HandleInv
<1> QED  BY <1>1, UsersFinite, FS_RemoveElement
-----------------------------------------------------------------------------
(***************************************************************************)
(* The inductive invariant of the handle, beside that of the host.         *)
(***************************************************************************)

\* Nothing happens to the handle, and no thread moves.
LEMMA HandleUntouched ==
  ASSUME Inv, HandleInv, [Next]_vars, UNCHANGED handleVars, pc' = pc
  PROVE  HandleInv'
<1>1. UNCHANGED <<registered, inside, useCount>>
  BY DEF handleVars
<1>2. Users' = Users
  BY <1>1 DEF Users
<1>3. hostState = "Stopped" => hostState' = "Stopped"
  BY StoppedForGood
<1> QED  BY <1>1, <1>2, <1>3 DEF HandleInv, InsideAt

\* A thread inside the host goes on, and gives its reference back if it returns.
LEMMA CallGoesOn ==
  ASSUME Inv, HandleInv, NEW t \in Threads, Application(t), inside[t] # "out", ReleaseOnReturn(t),
         inside[t] = "destroy" => \/ pc'[t] \in {"stop", "halting"}
                                  \/ pc'[t] = "idle" /\ hostState' = "Stopped"
  PROVE  HandleInv'
<1>1. \A u \in Threads : u # t => pc'[u] = pc[u]
  BY OneThreadMoves
<1>2. hostState = "Stopped" => hostState' = "Stopped"
  BY StoppedForGood DEF Next
<1>3. /\ registered \in BOOLEAN /\ inside \in [Threads -> {"out", "call", "destroy"}]
      /\ useCount = Cardinality(Users) + (IF registered THEN 1 ELSE 0)
      /\ \A u \in Threads : InsideAt(u)
      /\ ~registered => hostState = "Stopped" \/ \E u \in Threads : inside[u] = "destroy"
  BY DEF HandleInv
<1>4. CASE pc'[t] = "idle"
  <2>1. inside' = [inside EXCEPT ![t] = "out"] /\ useCount' = useCount - 1 /\ registered' = registered
    BY <1>4 DEF ReleaseOnReturn, Release
  <2>2. \A u \in Threads : inside'[u] = IF u = t THEN "out" ELSE inside[u]
    BY <1>3, <2>1
  <2>3. Cardinality(Users') = Cardinality(Users) - 1
    BY <2>1, UserGoes
  <2>4. useCount' = Cardinality(Users') + (IF registered' THEN 1 ELSE 0)
    BY <1>3, <2>1, <2>3, UsersFinite
  <2>5. \A u \in Threads : InsideAt(u)'
    BY <1>1, <1>3, <1>4, <2>1, <2>2 DEF InsideAt
  <2>6. ~registered' => hostState' = "Stopped" \/ \E u \in Threads : inside'[u] = "destroy"
    BY <1>2, <1>3, <1>4, <2>1, <2>2
  <2> QED  BY <1>3, <2>1, <2>4, <2>5, <2>6 DEF HandleInv
<1>5. CASE pc'[t] # "idle"
  <2>1. UNCHANGED <<registered, inside, useCount>>
    BY <1>5 DEF ReleaseOnReturn, handleVars
  <2>2. Users' = Users
    BY <2>1 DEF Users
  <2>3. \A u \in Threads : InsideAt(u)'
    BY <1>1, <1>3, <1>5, <2>1 DEF InsideAt
  <2> QED  BY <1>2, <1>3, <2>1, <2>2, <2>3 DEF HandleInv
<1> QED  BY <1>4, <1>5

LEMMA FindKeeps ==
  ASSUME Inv, HandleInv, NEW t \in Threads, find_host(t)
  PROVE  HandleInv'
<1>1. /\ inside[t] = "out" /\ registered /\ inside' = [inside EXCEPT ![t] = "call"]
      /\ useCount' = useCount + 1 /\ registered' = registered /\ UNCHANGED vars
  BY DEF find_host
<1>2. pc' = pc
  BY <1>1 DEF vars, hostVars
<1>3. \A u \in Threads : inside'[u] = IF u = t THEN "call" ELSE inside[u]
  BY <1>1 DEF HandleInv
<1>4. Cardinality(Users') = Cardinality(Users) + 1
  BY <1>1, UserComes
<1>5. useCount' = Cardinality(Users') + (IF registered' THEN 1 ELSE 0)
  BY <1>1, <1>4, UsersFinite DEF HandleInv
<1>6. \A u \in Threads : InsideAt(u)'
  BY <1>1, <1>2, <1>3 DEF HandleInv, InsideAt
<1> QED  BY <1>1, <1>5, <1>6 DEF HandleInv

LEMMA RefusedKeeps ==
  ASSUME Inv, HandleInv, NEW t \in Threads, Refused(t)
  PROVE  HandleInv'
<1>1. /\ inside[t] = "call" /\ pc[t] = "idle" /\ inside' = [inside EXCEPT ![t] = "out"]
      /\ useCount' = useCount - 1 /\ registered' = registered /\ UNCHANGED vars
  BY DEF Refused, Found, Release
<1>2. pc' = pc /\ hostState' = hostState
  BY <1>1 DEF vars, hostVars
<1>3. \A u \in Threads : inside'[u] = IF u = t THEN "out" ELSE inside[u]
  BY <1>1 DEF HandleInv
<1>4. Cardinality(Users') = Cardinality(Users) - 1
  BY <1>1, UserGoes
<1>5. useCount' = Cardinality(Users') + (IF registered' THEN 1 ELSE 0)
  BY <1>1, <1>4, UsersFinite DEF HandleInv
<1>6. \A u \in Threads : InsideAt(u)'
  BY <1>1, <1>2, <1>3 DEF HandleInv, InsideAt
<1>7. ~registered' => hostState' = "Stopped" \/ \E u \in Threads : inside'[u] = "destroy"
  BY <1>1, <1>2, <1>3 DEF HandleInv
<1> QED  BY <1>1, <1>5, <1>6, <1>7 DEF HandleInv

LEMMA DestroyKeeps ==
  ASSUME Inv, HandleInv, NEW t \in Threads, se_server_destroy(t)
  PROVE  HandleInv'
<1>1. /\ inside[t] = "out" /\ registered /\ registered' = FALSE
      /\ inside' = [inside EXCEPT ![t] = "destroy"] /\ useCount' = useCount
      /\ pc' = [pc EXCEPT ![t] = "stop"]
  BY DEF se_server_destroy, remove_host, CallStop
<1>2. \A u \in Threads : pc'[u] = IF u = t THEN "stop" ELSE pc[u]
  BY <1>1, InvParts DEF HostType
<1>3. \A u \in Threads : inside'[u] = IF u = t THEN "destroy" ELSE inside[u]
  BY <1>1 DEF HandleInv
<1>4. Cardinality(Users') = Cardinality(Users) + 1
  BY <1>1, UserComes
<1>5. useCount' = Cardinality(Users') + (IF registered' THEN 1 ELSE 0)
  BY <1>1, <1>4, UsersFinite DEF HandleInv
<1>6. \A u \in Threads : InsideAt(u)'
  BY <1>1, <1>2, <1>3 DEF HandleInv, InsideAt
<1>7. \E u \in Threads : inside'[u] = "destroy"
  BY <1>3
<1>8. registered' \in BOOLEAN /\ inside' \in [Threads -> {"out", "call", "destroy"}]
  BY <1>1 DEF HandleInv
<1> QED  BY <1>5, <1>6, <1>7, <1>8 DEF HandleInv

LEMMA HandleStep == Inv /\ HandleInv /\ [AbiNext]_abiVars => HandleInv'
<1> SUFFICES ASSUME Inv, HandleInv, [AbiNext]_abiVars PROVE HandleInv'
  OBVIOUS
<1>1. [Next]_vars
  BY AbiStep
<1>2. CASE UNCHANGED abiVars
  <2>1. UNCHANGED handleVars /\ pc' = pc
    BY <1>2 DEF abiVars, vars, hostVars
  <2> QED  BY <1>1, <2>1, HandleUntouched
<1>3. CASE (Network /\ UNCHANGED handleVars) \/ HandlerRuns \/ CommandRuns
  <2>1. UNCHANGED handleVars /\ pc' = pc
    BY <1>3, WorkerKeepsThreads DEF HandlerRuns, CommandRuns, Worker
  <2> QED  BY <1>1, <2>1, HandleUntouched
<1>4. ASSUME NEW t \in Threads,
             \/ se_server_add_listener(t) \/ se_server_start(t) \/ se_server_poll_event(t)
             \/ se_server_stop(t)
             \/ \E s \in Sessions :
                  se_server_send(t, s) \/ se_http_respond(t, s) \/ se_server_disconnect(t, s)
      PROVE  HandleInv'
  <2>1. inside[t] = "call" /\ ReleaseOnReturn(t)
    BY <1>4 DEF se_server_add_listener, se_server_start, se_server_poll_event, se_server_stop,
       se_server_send, se_http_respond, se_server_disconnect, Found
  <2>2. Application(t)
    BY <1>4 DEF se_server_add_listener, se_server_start, se_server_poll_event, se_server_stop,
       se_server_send, se_http_respond, se_server_disconnect, Application
  <2> QED  BY <2>1, <2>2, CallGoesOn
<1>5. ASSUME NEW t \in Threads, StopCall(t) \/ Proceed(t) PROVE HandleInv'
  <2>1. inside[t] # "out" /\ (stop(t) \/ Continue(t)) /\ ReleaseOnReturn(t)
    BY <1>5 DEF StopCall, Proceed
  <2>2. inside[t] = "destroy" => pc[t] \in {"stop", "halting"}
    BY DEF HandleInv, InsideAt
  <2>3. Application(t)
    BY <2>1 DEF Application
  <2> QED  BY <2>1, <2>2, <2>3, StopperStops, CallGoesOn
<1>6. ASSUME NEW t \in Threads, UnknownHandle(t) PROVE HandleInv'
  BY <1>2, <1>6 DEF UnknownHandle
<1> QED
  BY <1>2, <1>3, <1>4, <1>5, <1>6, FindKeeps, RefusedKeeps, DestroyKeeps DEF AbiNext

LEMMA HandleInit == AbiInit => HandleInv
<1> SUFFICES ASSUME AbiInit PROVE HandleInv
  OBVIOUS
<1>1. Users = {} /\ Cardinality(Users) = 0
  <2>1. Users = {}
    BY DEF AbiInit, Users
  <2> QED  BY <2>1, FS_EmptySet
<1>2. registered = TRUE /\ useCount = 1
  BY DEF AbiInit
<1>3. inside \in [Threads -> {"out", "call", "destroy"}] /\ \A t \in Threads : InsideAt(t)
  BY DEF AbiInit, Init, InsideAt
<1> QED  BY <1>1, <1>2, <1>3 DEF HandleInv

\* The references a host has are its table entry and the calls inside, and an
\* entry is gone only while its destroyer is stopping the host or after.
THEOREM HandleInvariant == AbiSpec => []HandleInv
BY HandleInit, HandleStep, AbiInvariant, PTL DEF AbiSpec
-----------------------------------------------------------------------------
\* destroy is final: once it has returned the host is stopped and joined for
\* good, whatever the calls that found it earlier go on to do, and the last
\* reference goes only when no call is inside (remove_host,
\* se_server_destroy, the shared_ptr each exported call keeps).
THEOREM DestroyIsForGood == AbiSpec => []DestroyIsFinal
<1>1. Inv /\ HandleInv => DestroyIsFinal
  <2> SUFFICES ASSUME Inv, HandleInv PROVE DestroyIsFinal
    OBVIOUS
  <2>1. TypeOK
    BY DEF Inv, QueueInv, FlagType, HostType, RegistryType, CommandType, TypeOK
  <2>2. Cardinality(Users) \in Nat /\ Cardinality(Threads) \in Nat
        /\ Cardinality(Users) <= Cardinality(Threads) /\ (Cardinality(Users) = 0 <=> Users = {})
    <3>1. Users \subseteq Threads
      BY DEF Users
    <3> QED  BY <3>1, UsersFinite, ThreadsAssumption, FS_Subset, FS_CardinalityType, FS_EmptySet
  <2>3. HandleTypeOK
    BY <2>1, <2>2 DEF HandleTypeOK, HandleInv
  <2>4. Destroyed => hostState = "Stopped"
    BY DEF Destroyed, HandleInv
  <2>5. hostState = "Stopped" => ~running /\ connections = {} /\ tasks = <<>>
    BY InvParts DEF StateInv, Clean
  <2>6. useCount = 0 <=> ~registered /\ Users = {}
    BY <2>2 DEF HandleInv
  <2>7. useCount = 0 <=> Destroyed /\ \A t \in Threads : inside[t] = "out"
    BY <2>6 DEF Destroyed, Users
  <2>8. useCount = 0 => lifecycle = NoThread
    <3> SUFFICES ASSUME useCount = 0, lifecycle \in Threads PROVE FALSE
      BY InvParts DEF HostType
    <3>1. pc[lifecycle] = "idle"
      BY <2>7 DEF HandleInv, InsideAt
    <3> QED  BY <3>1, InvParts DEF LockAt
  <2> QED  BY <2>3, <2>4, <2>5, <2>7, <2>8 DEF DestroyIsFinal
<1> QED  BY <1>1, AbiInvariant, HandleInvariant, PTL
=============================================================================
