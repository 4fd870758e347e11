----------------------------- MODULE EventQueue -----------------------------
(***************************************************************************)
(* The bounded event queue between the I/O worker and the host application *)
(* (src/Runtime/Host/EventQueue.cpp).  One mutex guards the whole object,  *)
(* so each of push, poll and finish is one step.  The queue keeps events   *)
(* in FIFO order under a count cap and a byte cap.  When an event does not *)
(* fit, the queue does not drop that one event: it discards the whole      *)
(* history, refuses everything after it and reports one terminal Overflow. *)
(*                                                                         *)
(* A payload is represented by its size.  The peer of an event is opaque.  *)
(***************************************************************************)
EXTENDS Naturals, Sequences

CONSTANTS
  Peers,       \* whom an event can be about
  MaxCount,    \* max_count_: the most events held at once
  MaxBytes,    \* max_bytes_: the most payload bytes held at once
  MaxPayload,  \* the largest payload a producer pushes
  MaxSequence  \* bound on the events pushed in the stand-alone specification

ASSUME QueueAssumption ==
  /\ MaxCount \in Nat
  /\ MaxBytes \in Nat
  /\ MaxPayload \in Nat
  /\ MaxSequence \in Nat

VARIABLES
  entries,           \* entries_: the events held, oldest first
  bytes,             \* bytes_: payload bytes held
  nextSequence,      \* next_sequence_
  stopped,           \* stopped_
  overflow,          \* overflow_
  overflowReported,  \* overflow_reported_
  delivered,         \* sequence number of the last event poll returned
  latest,            \* kind and peer of that event
  told               \* the last terminal answer a poll returned, or "live"

qvars == <<entries, bytes, nextSequence, stopped, overflow, overflowReported,
           delivered, latest, told>>

EventKinds == {"Open", "Message", "Close", "Error", "HttpRequest"}

Event == [kind : EventKinds, peer : Peers, sequence : Nat, size : 0..MaxPayload]

\* What poll returned last: nothing yet, or the terminal event.
Nothing == [kind |-> "None"]
TheOverflow == [kind |-> "Overflow"]

TypeOK ==
  /\ entries \in Seq(Event)
  /\ bytes \in Nat
  /\ nextSequence \in Nat \ {0}
  /\ stopped \in BOOLEAN
  /\ overflow \in BOOLEAN
  /\ overflowReported \in BOOLEAN
  /\ delivered \in Nat
  /\ latest \in [kind : EventKinds, peer : Peers] \cup {Nothing, TheOverflow}
  /\ told \in {"live", "overflow", "stopped"}

Init ==
  /\ entries = <<>>
  /\ bytes = 0
  /\ nextSequence = 1
  /\ stopped = FALSE
  /\ overflow = FALSE
  /\ overflowReported = FALSE
  /\ delivered = 0
  /\ latest = Nothing
  /\ told = "live"
-----------------------------------------------------------------------------
(***************************************************************************)
(* push.  It returns true exactly when PushAccepted happens.               *)
(***************************************************************************)

Closed == stopped \/ overflow

\* Wrong variant of DoesNotFit: the count cap is off by one.
OneTooMany(size) == Len(entries) > MaxCount \/ size > MaxBytes - bytes

DoesNotFit(size) == Len(entries) >= MaxCount \/ size > MaxBytes - bytes

PushAccepted(kind, peer, size) ==
  /\ ~Closed
  /\ ~DoesNotFit(size)
  /\ entries' = Append(entries, [kind |-> kind, peer |-> peer,
                                 sequence |-> nextSequence, size |-> size])
  /\ nextSequence' = nextSequence + 1
  /\ bytes' = bytes + size
  /\ UNCHANGED <<stopped, overflow, overflowReported, delivered, latest, told>>

\* The queue is closed already: nothing changes.
PushRefused ==
  /\ Closed
  /\ UNCHANGED qvars

\* A cap is exceeded, or storing the entry throws: the history is given up.
\* An allocation can fail at any time, so the step needs no other condition.
PushOverflows ==
  /\ ~Closed
  /\ overflow' = TRUE
  /\ entries' = <<>>
  /\ bytes' = 0
  /\ UNCHANGED <<nextSequence, stopped, overflowReported, delivered, latest, told>>

PushRejected == PushRefused \/ PushOverflows

Push(kind, peer, size) == PushAccepted(kind, peer, size) \/ PushRejected
-----------------------------------------------------------------------------
(***************************************************************************)
(* poll.  The overflow test comes before the one for an empty queue, and   *)
(* an entry larger than the caller's buffer stays queued.                  *)
(***************************************************************************)

\* Wrong variant of PollOverflow: it does not remember that it reported.
OverflowRepeats ==
  /\ overflow
  /\ ~overflowReported
  /\ delivered' = nextSequence
  /\ nextSequence' = nextSequence + 1
  /\ latest' = TheOverflow /\ told' = "overflow"
  /\ UNCHANGED <<entries, bytes, stopped, overflow, overflowReported>>

PollOverflow ==
  /\ overflow
  /\ ~overflowReported
  /\ delivered' = nextSequence
  /\ nextSequence' = nextSequence + 1
  /\ overflowReported' = TRUE
  /\ latest' = TheOverflow /\ told' = "overflow"
  /\ UNCHANGED <<entries, bytes, stopped, overflow>>

\* Wrong variants of PollStopped: one does not drain the queue first, one does
\* not wake up for stopped_.
StoppedBeforeDrain ==
  /\ \/ overflow /\ overflowReported
     \/ ~overflow /\ stopped
  /\ told' = "stopped"
  /\ UNCHANGED <<entries, bytes, nextSequence, stopped, overflow,
                 overflowReported, delivered, latest>>

StoppedUnnoticed ==
  /\ overflow /\ overflowReported
  /\ told' = "stopped"
  /\ UNCHANGED <<entries, bytes, nextSequence, stopped, overflow,
                 overflowReported, delivered, latest>>

PollStopped ==
  /\ \/ overflow /\ overflowReported
     \/ ~overflow /\ entries = <<>> /\ stopped
  /\ told' = "stopped"
  /\ UNCHANGED <<entries, bytes, nextSequence, stopped, overflow,
                 overflowReported, delivered, latest>>

\* The wait ended with nothing to report.
PollTimeout ==
  /\ ~overflow /\ entries = <<>> /\ ~stopped
  /\ UNCHANGED qvars

\* Wrong variant of PollBufferTooSmall: the event is lost.
TooSmallPops(capacity) ==
  /\ ~overflow /\ entries # <<>>
  /\ Head(entries).size > capacity
  /\ bytes' = bytes - Head(entries).size
  /\ entries' = Tail(entries)
  /\ UNCHANGED <<nextSequence, stopped, overflow, overflowReported, delivered, latest, told>>

PollBufferTooSmall(capacity) ==
  /\ ~overflow /\ entries # <<>>
  /\ Head(entries).size > capacity
  /\ UNCHANGED qvars

PollReady(capacity) ==
  /\ ~overflow /\ entries # <<>>
  /\ Head(entries).size <= capacity
  /\ bytes' = bytes - Head(entries).size
  /\ entries' = Tail(entries)
  /\ delivered' = Head(entries).sequence
  /\ latest' = [kind |-> Head(entries).kind, peer |-> Head(entries).peer]
  /\ UNCHANGED <<nextSequence, stopped, overflow, overflowReported, told>>

Poll(capacity) ==
  \/ PollOverflow
  \/ PollStopped
  \/ PollTimeout
  \/ PollBufferTooSmall(capacity)
  \/ PollReady(capacity)

finish ==
  /\ stopped' = TRUE
  /\ UNCHANGED <<entries, bytes, nextSequence, overflow, overflowReported,
                 delivered, latest, told>>
-----------------------------------------------------------------------------
(***************************************************************************)
(* The queue with producers and consumers that call it in any order.       *)
(***************************************************************************)

Produce ==
  \E kind \in EventKinds, peer \in Peers, size \in 0..MaxPayload :
    nextSequence <= MaxSequence /\ Push(kind, peer, size)

Consume == \E capacity \in 0..MaxPayload : Poll(capacity)

Next == Produce \/ Consume \/ finish

Spec == Init /\ [][Next]_qvars

\* A host that keeps polling with a buffer for the largest payload.
FairSpec == Spec /\ WF_qvars(Poll(MaxPayload))
-----------------------------------------------------------------------------
(***************************************************************************)
(* Properties.                                                             *)
(***************************************************************************)

\* FIFO without gaps: while no overflow happened, the queued events carry
\* exactly the sequence numbers that follow the last delivered one, in order,
\* up to the newest.  A poll with a small buffer, or one that pops an event it
\* did not return, would leave a hole (poll keeps the entry on BufferTooSmall).
Gapless ==
  ~overflow =>
    /\ nextSequence = delivered + Len(entries) + 1
    /\ \A i \in 1..Len(entries) : entries[i].sequence = delivered + i

\* sums[i] is the payload of the first i entries together, a running total
\* that never decreases.
IsPrefixSum(sums) ==
  /\ sums[0] = 0
  /\ \A i \in 1..Len(entries) : sums[i] = sums[i - 1] + entries[i].size
  /\ \A i, j \in 0..Len(entries) : i <= j => sums[i] <= sums[j]

\* The byte counter always equals the payload really queued and neither cap is
\* exceeded: push's test max_bytes_ - bytes_ and poll's bytes_ -= size are
\* unsigned and would wrap around if the counter drifted.
Accounted ==
  /\ Len(entries) <= MaxCount
  /\ \E sums \in [0..Len(entries) -> 0..MaxBytes] :
       IsPrefixSum(sums) /\ bytes = sums[Len(entries)]

\* An overflow wipes the history and is the last event: nothing of the old
\* history and nothing new is delivered after it, and it is delivered once.
OverflowIsTerminal ==
  [][/\ (overflow /\ delivered' # delivered) =>
           told' = "overflow" /\ ~overflowReported
     /\ told # "live" => delivered' = delivered]_qvars

\* A host told STOPPED has read everything that was ever queued, unless it was
\* told of the overflow before: there is no event left behind a STOPPED answer.
StoppedAfterDrain ==
  told = "stopped" => /\ entries = <<>>
                      /\ overflow => overflowReported
                      /\ Closed

\* A host that keeps polling learns that the queue stopped or overflowed.
TerminalIsReported == Closed ~> told # "live"
=============================================================================
