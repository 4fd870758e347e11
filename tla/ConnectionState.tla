--------------------------- MODULE ConnectionState ---------------------------
(***************************************************************************)
(* The lifecycle shared by the stream connections of the asynchronous      *)
(* transport (src/Net/Async/ConnectionState.cpp): open and closed flags,   *)
(* the deadline timer with its generation counter, and the exits that all  *)
(* protocols use.  StreamConnection and HttpConnection extend this module  *)
(* the way the C++ classes derive from ConnectionState: what their own     *)
(* close() adds is a conjunct of theirs.  Connections composes them.       *)
(*                                                                         *)
(* The I/O worker runs one handler at a time.  An expired timer does not   *)
(* close anything itself, it queues a handler: between the two, activity   *)
(* may re-arm the timer, and the handler queued by then still runs.        *)
(***************************************************************************)
EXTENDS Naturals, Sequences

CONSTANTS
  HandshakeTimeout,   \* config_.handshake_timeout_ms, in ticks
  IdleTimeout,        \* limits.idle_timeout_ms, in ticks
  MaxMessageBytes,    \* limits.max_message_bytes
  MaxSendQueueBytes,  \* limits.max_send_queue_bytes
  MaxQueued,          \* 1024: the most frames or datagrams in a send queue
  PayloadSizes,       \* the payload sizes used
  MaxSends,           \* bound on the sends accepted
  MaxReads            \* bound on the messages, requests or datagrams received

\* start() refuses other limits: a message with its frame fits an empty send
\* queue, and no timeout is zero.
validate ==
  /\ HandshakeTimeout >= 1 /\ IdleTimeout >= 1
  /\ MaxMessageBytes >= 1
  /\ MaxSendQueueBytes >= MaxMessageBytes + 16

ASSUME ConnectionAssumption ==
  /\ HandshakeTimeout \in Nat /\ IdleTimeout \in Nat
  /\ MaxMessageBytes \in Nat /\ MaxSendQueueBytes \in Nat
  /\ validate
  /\ MaxQueued \in Nat \ {0}
  /\ PayloadSizes \subseteq Nat
  /\ MaxSends \in Nat /\ MaxReads \in Nat

VARIABLES
  closed,      \* closed_
  opened,      \* opened_
  timer,       \* deadline_ and deadline_generation_, see Timer
  registered,  \* the connection is in the registry of the worker
  quiet,       \* history: ticks since the last progress the protocol counts
  why          \* history: what closed the connection

stateVars == <<closed, opened, timer, registered, quiet, why>>

\* generation counts the arms.  remaining is the time left of the outstanding
\* wait, 0 when there is none.  due holds the generations whose expiry handler
\* is queued and has not run.
Timer == [generation : Nat, remaining : Nat, due : SUBSET Nat]

Reasons == {"open", "deadline", "refused", "rejected", "error", "exception",
            "peer", "finished"}

StateTypeOK ==
  /\ closed \in BOOLEAN /\ opened \in BOOLEAN /\ registered \in BOOLEAN
  /\ timer \in Timer
  /\ quiet \in Nat
  /\ why \in Reasons

StateInit ==
  /\ closed = FALSE /\ opened = FALSE /\ registered = TRUE
  /\ timer = [generation |-> 0, remaining |-> 0, due |-> {}]
  /\ quiet = 0
  /\ why = "open"

arm_deadline(t, duration) ==
  [t EXCEPT !.generation = @ + 1, !.remaining = duration]

begin_handshake_deadline == timer' = arm_deadline(timer, HandshakeTimeout)

touch_idle_deadline == timer' = arm_deadline(timer, IdleTimeout)

\* remove_from_registry with the flag every close() sets first.  Cancelling
\* does not take back a handler that is already queued.
remove_from_registry(reason) ==
  /\ closed' = TRUE
  /\ registered' = FALSE
  /\ timer' = [timer EXCEPT !.remaining = 0]
  /\ why' = reason
  /\ UNCHANGED quiet

\* publish_open, when the event queue takes the event and the timer can be
\* armed.
PublishOpen ==
  /\ opened' = TRUE
  /\ touch_idle_deadline
  /\ quiet' = 0
  /\ UNCHANGED <<closed, registered, why>>

\* A handler that re-arms the idle deadline because the protocol made progress.
Progress ==
  /\ touch_idle_deadline
  /\ quiet' = 0
  /\ UNCHANGED <<closed, opened, registered, why>>

\* Time passes for the outstanding wait; at zero its handler is queued.
Elapse ==
  /\ timer.remaining > 0
  /\ timer' = [timer EXCEPT !.remaining = @ - 1,
                            !.due = IF timer.remaining = 1
                                    THEN @ \cup {timer.generation} ELSE @]
  /\ quiet' = quiet + 1
  /\ UNCHANGED <<closed, opened, registered, why>>

\* Wrong variant of Fires: a handler of an older arm counts too.
FiresWhenLate(generation) == ~closed

\* The expiry handler closes the connection: its arm is still the last one.
Fires(generation) == ~closed /\ generation = timer.generation

\* The expiry handler finds a later arm or a closed connection.
DeadlineIgnored(generation) ==
  /\ generation \in timer.due
  /\ ~Fires(generation)
  /\ timer' = [timer EXCEPT !.due = @ \ {generation}]
  /\ UNCHANGED <<closed, opened, registered, quiet, why>>
=============================================================================
