-------------------------- MODULE EventQueueProofs --------------------------
(***************************************************************************)
(* Theorems about EventQueue for every choice of caps, payload sizes and   *)
(* peers.                                                                  *)
(***************************************************************************)
EXTENDS EventQueue, TLAPS

\* The payload poll is about to hand out is part of bytes_, so that the
\* subtraction in poll cannot go below zero.
LEMMA HeadWithinBytes ==
  ASSUME TypeOK, Accounted, entries # <<>>
  PROVE  Head(entries).size <= bytes
<1>1. PICK sums \in [0..Len(entries) -> 0..MaxBytes] :
        IsPrefixSum(sums) /\ bytes = sums[Len(entries)]
  BY DEF Accounted
<1>2. Len(entries) \in Nat \ {0} /\ Head(entries) = entries[1]
  BY DEF TypeOK
<1>3. sums[1] = entries[1].size
  <2>1. sums[0] = 0 /\ sums[1] = sums[1 - 1] + entries[1].size
    BY <1>1, <1>2 DEF IsPrefixSum
  <2>2. entries[1] \in Event
    BY <1>2 DEF TypeOK
  <2>3. entries[1].size \in Nat
    BY <2>2, QueueAssumption DEF Event
  <2> QED  BY <2>1, <2>3
<1>4. sums[1] <= sums[Len(entries)]
  BY <1>1, <1>2 DEF IsPrefixSum
<1> QED  BY <1>1, <1>2, <1>3, <1>4

\* A new queue is well typed, gapless and accounted for.
LEMMA InitSafe == Init => TypeOK /\ Gapless /\ Accounted
<1> SUFFICES ASSUME Init PROVE TypeOK /\ Gapless /\ Accounted
  OBVIOUS
<1>1. TypeOK
  <2>1. entries \in Seq(Event) /\ bytes \in Nat /\ nextSequence \in Nat \ {0} /\ delivered \in Nat
    BY DEF Init
  <2>2. /\ stopped \in BOOLEAN /\ overflow \in BOOLEAN /\ overflowReported \in BOOLEAN
        /\ told \in {"live", "overflow", "stopped"}
    BY Zenon DEF Init
  <2>3. latest = Nothing
    BY DEF Init
  <2> QED  BY <2>1, <2>2, <2>3 DEF TypeOK
<1>2. Gapless
  BY DEF Init, Gapless
<1>3. Accounted
  <2> DEFINE z == [i \in 0..0 |-> 0]
  <2>1. z \in [0..Len(entries) -> 0..MaxBytes] /\ IsPrefixSum(z) /\ bytes = z[Len(entries)]
    BY QueueAssumption DEF Init, IsPrefixSum
  <2> QED  BY <2>1, QueueAssumption DEF Accounted, Init
<1> QED  BY <1>1, <1>2, <1>3

\* An accepted push keeps types, order and accounting: the new event gets the
\* next number, and the caps were tested before it was stored.
LEMMA AcceptedSafe ==
  ASSUME TypeOK, Gapless, Accounted,
         NEW kind \in EventKinds, NEW peer \in Peers, NEW size \in 0..MaxPayload,
         PushAccepted(kind, peer, size)
  PROVE  (TypeOK /\ Gapless /\ Accounted)'
<1> DEFINE n == Len(entries)
           e == [kind |-> kind, peer |-> peer, sequence |-> nextSequence, size |-> size]
<1>1. e \in Event /\ n \in Nat
  BY DEF TypeOK, Event
<1>2. entries' = Append(entries, e) /\ Len(entries') = n + 1
  BY <1>1 DEF PushAccepted, TypeOK
<1>3. /\ \A i \in 1..n : entries'[i] = entries[i]
      /\ entries'[n + 1] = e
  BY <1>1, <1>2 DEF TypeOK
<1>4. TypeOK'
  BY <1>1, <1>2, QueueAssumption DEF PushAccepted, TypeOK
<1>5. Gapless'
  <2>1. /\ ~overflow /\ overflow' = overflow
        /\ delivered' = delivered /\ nextSequence' = nextSequence + 1
    BY DEF PushAccepted, Closed
  <2>2. /\ nextSequence = delivered + n + 1
        /\ \A i \in 1..n : entries[i].sequence = delivered + i
    BY <2>1 DEF Gapless
  <2>3. delivered \in Nat /\ nextSequence \in Nat
    BY DEF TypeOK
  <2>4. \A i \in 1..(n + 1) : entries'[i].sequence = delivered + i
    <3>1. e.sequence = delivered + (n + 1)
      BY <1>1, <2>2, <2>3
    <3>2. \A i \in 1..(n + 1) : i \in 1..n \/ i = n + 1
      BY <1>1
    <3> HIDE DEF e
    <3> QED  BY <1>3, <2>2, <3>1, <3>2
  <2> QED  BY <1>1, <1>2, <2>1, <2>2, <2>3, <2>4 DEF Gapless
<1>6. Accounted'
  <2>1. PICK sums \in [0..n -> 0..MaxBytes] :
          IsPrefixSum(sums) /\ bytes = sums[n]
    BY DEF Accounted
  <2>2. n + 1 <= MaxCount /\ bytes + size <= MaxBytes /\ size \in Nat /\ MaxBytes \in Nat /\ bytes \in Nat
    BY <1>1, <2>1, QueueAssumption DEF PushAccepted, DoesNotFit, TypeOK
  <2>3. PICK s \in [0..(n + 1) -> 0..MaxBytes] :
          \A i \in 0..(n + 1) : s[i] = IF i = n + 1 THEN bytes + size ELSE sums[i]
    <3> DEFINE t == [i \in 0..(n + 1) |-> IF i = n + 1 THEN bytes + size ELSE sums[i]]
    <3>1. t \in [0..(n + 1) -> 0..MaxBytes]
      BY <1>1, <2>1, <2>2
    <3> QED  BY <3>1
  <2>5. s[0] = 0
    BY <1>1, <2>1, <2>3 DEF IsPrefixSum
  <2>6. \A i \in 1..(n + 1) : s[i] = s[i - 1] + entries'[i].size
    <3> TAKE i \in 1..(n + 1)
    <3>1. CASE i = n + 1
      <4>1. s[i] = bytes + size /\ s[i - 1] = bytes
        BY <1>1, <2>1, <2>3, <3>1
      <4> QED  BY <4>1, <1>3, <3>1
    <3>2. CASE i # n + 1
      <4>1. i \in 1..n /\ i - 1 \in 0..n
        BY <1>1, <3>2
      <4>2. s[i] = sums[i] /\ s[i - 1] = sums[i - 1]
        BY <1>1, <2>3, <4>1
      <4> QED  BY <4>1, <4>2, <1>3, <2>1 DEF IsPrefixSum
    <3> QED  BY <3>1, <3>2
  <2>7. \A i, j \in 0..(n + 1) : i <= j => s[i] <= s[j]
    <3> SUFFICES ASSUME NEW i \in 0..(n + 1), NEW j \in 0..(n + 1), i <= j
                 PROVE  s[i] <= s[j]
      OBVIOUS
    <3>1. CASE j = n + 1
      <4>1. CASE i = n + 1
        BY <1>1, <2>2, <2>3, <3>1, <4>1
      <4>2. CASE i # n + 1
        <5>1. i \in 0..n /\ n \in 0..n /\ i <= n
          BY <1>1, <4>2
        <5>2. sums[i] <= sums[n]
          BY <2>1, <5>1 DEF IsPrefixSum
        <5>3. sums[i] \in Nat /\ s[i] = sums[i] /\ s[j] = bytes + size
          BY <1>1, <2>1, <2>2, <2>3, <3>1, <5>1
        <5> QED  BY <2>1, <2>2, <5>2, <5>3
      <4> QED  BY <4>1, <4>2
    <3>2. CASE j # n + 1
      <4>1. i \in 0..n /\ j \in 0..n
        BY <1>1, <3>2
      <4>2. s[i] = sums[i] /\ s[j] = sums[j]
        BY <1>1, <2>3, <3>2, <4>1
      <4> QED  BY <2>1, <4>1, <4>2 DEF IsPrefixSum
    <3> QED  BY <3>1, <3>2
  <2>8. IsPrefixSum(s)'
    BY <2>5, <2>6, <2>7, <1>2 DEF IsPrefixSum
  <2>9. bytes' = s[n + 1]
    BY <1>1, <2>3 DEF PushAccepted
  <2> QED  BY <1>2, <2>2, <2>3, <2>8, <2>9 DEF Accounted
<1> QED  BY <1>4, <1>5, <1>6

\* A poll that returns an event keeps them too: the running totals all shrink
\* by the size of the event that left.
LEMMA ReadySafe ==
  ASSUME TypeOK, Gapless, Accounted, NEW capacity \in 0..MaxPayload, PollReady(capacity)
  PROVE  (TypeOK /\ Gapless /\ Accounted)'
<1> DEFINE n == Len(entries)
<1>1. n \in Nat \ {0} /\ Head(entries) = entries[1] /\ entries[1] \in Event
  BY DEF PollReady, TypeOK
<1>2. entries' = Tail(entries) /\ Len(entries') = n - 1
  BY <1>1 DEF PollReady, TypeOK
<1>3. \A i \in 1..(n - 1) : entries'[i] = entries[i + 1]
  BY <1>1, <1>2 DEF TypeOK
<1>4. entries[1].size \in Nat /\ entries[1].sequence \in Nat
  BY <1>1, QueueAssumption DEF Event
<1>5. TypeOK'
  <2>1. entries' \in Seq(Event)
    BY <1>1, <1>2 DEF TypeOK
  <2>2. bytes' \in Nat /\ delivered' \in Nat
    BY <1>1, <1>4, HeadWithinBytes DEF PollReady, TypeOK
  <2>3. latest' \in [kind : EventKinds, peer : Peers]
    BY <1>1 DEF PollReady, Event
  <2> QED  BY <2>1, <2>2, <2>3 DEF TypeOK, PollReady
<1>6. Gapless'
  <2>1. /\ ~overflow /\ overflow' = overflow /\ nextSequence' = nextSequence
        /\ delivered' = entries[1].sequence
    BY <1>1 DEF PollReady
  <2>2. /\ nextSequence = delivered + n + 1
        /\ \A i \in 1..n : entries[i].sequence = delivered + i
    BY <2>1 DEF Gapless
  <2>3. delivered \in Nat /\ delivered' = delivered + 1
    BY <1>1, <2>1, <2>2 DEF TypeOK
  <2>4. \A i \in 1..(n - 1) : entries'[i].sequence = delivered' + i
    <3> TAKE i \in 1..(n - 1)
    <3>1. i + 1 \in 1..n
      BY <1>1
    <3>2. entries[i + 1].sequence = delivered + (i + 1)
      BY <2>2, <3>1
    <3> QED  BY <1>3, <2>3, <3>2
  <2> QED  BY <1>1, <1>2, <2>1, <2>2, <2>3, <2>4 DEF Gapless
<1>7. Accounted'
  <2>1. PICK sums \in [0..n -> 0..MaxBytes] :
          IsPrefixSum(sums) /\ bytes = sums[n]
    BY DEF Accounted
  <2>2. sums[0] = 0 /\ sums[1] = entries[1].size
    <3>1. sums[0] = 0 /\ sums[1] = sums[1 - 1] + entries[1].size
      BY <1>1, <2>1 DEF IsPrefixSum
    <3> QED  BY <1>4, <3>1
  <2>3. \A i \in 1..n : sums[1] <= sums[i]
    BY <1>1, <2>1 DEF IsPrefixSum
  <2>4. \A i \in 0..n : sums[i] \in 0..MaxBytes
    BY <2>1
  <2>5. PICK s \in [0..(n - 1) -> 0..MaxBytes] :
          \A i \in 0..(n - 1) : s[i] = sums[i + 1] - sums[1]
    <3> DEFINE t == [i \in 0..(n - 1) |-> sums[i + 1] - sums[1]]
    <3>1. \A i \in 0..(n - 1) : sums[i + 1] - sums[1] \in 0..MaxBytes
      BY <1>1, <2>3, <2>4, QueueAssumption
    <3>2. t \in [0..(n - 1) -> 0..MaxBytes]
      BY <3>1
    <3> QED  BY <3>2
  <2>6. s[0] = 0
    BY <1>1, <2>4, <2>5
  <2>7. \A i \in 1..(n - 1) : s[i] = s[i - 1] + entries'[i].size
    <3> TAKE i \in 1..(n - 1)
    <3>1. i + 1 \in 1..n /\ i \in 0..(n - 1) /\ i - 1 \in 0..(n - 1) /\ i \in 0..n /\ 1 \in 0..n /\ i + 1 \in 0..n
      BY <1>1
    <3>2. sums[i + 1] = sums[(i + 1) - 1] + entries[i + 1].size
      BY <2>1, <3>1 DEF IsPrefixSum
    <3>3. s[i] = sums[i + 1] - sums[1] /\ s[i - 1] = sums[(i - 1) + 1] - sums[1]
      BY <2>5, <3>1
    <3>4. entries[i + 1] \in Event
      BY <3>1 DEF TypeOK
    <3>5. entries[i + 1].size \in Nat
      BY <3>4, QueueAssumption DEF Event
    <3>6. (i + 1) - 1 = i /\ (i - 1) + 1 = i
      BY <3>1
    <3>7. sums[i] \in Nat /\ sums[1] \in Nat
      BY <2>4, <3>1
    <3>8. entries'[i].size = entries[i + 1].size
      BY <1>3
    <3>9. sums[i + 1] = sums[i] + entries[i + 1].size /\ s[i - 1] = sums[i] - sums[1]
      BY <3>2, <3>3, <3>6
    <3>10. s[i] = (sums[i] + entries[i + 1].size) - sums[1]
      BY <3>3, <3>9
    <3>11. s[i] = (sums[i] - sums[1]) + entries[i + 1].size
      BY <3>5, <3>7, <3>10
    <3> QED  BY <3>8, <3>9, <3>11
  <2>8. \A i, j \in 0..(n - 1) : i <= j => s[i] <= s[j]
    <3> SUFFICES ASSUME NEW i \in 0..(n - 1), NEW j \in 0..(n - 1), i <= j
                 PROVE  s[i] <= s[j]
      OBVIOUS
    <3>1. i + 1 \in 0..n /\ j + 1 \in 0..n /\ i + 1 <= j + 1
      BY <1>1
    <3>2. sums[i + 1] <= sums[j + 1]
      BY <2>1, <3>1 DEF IsPrefixSum
    <3> QED  BY <1>1, <2>4, <2>5, <3>1, <3>2
  <2>9. IsPrefixSum(s)'
    BY <1>2, <2>6, <2>7, <2>8 DEF IsPrefixSum
  <2>10. bytes' = s[n - 1]
    BY <1>1, <1>4, <2>1, <2>2, <2>5 DEF PollReady
  <2>11. n - 1 <= MaxCount
    BY <1>1, QueueAssumption DEF Accounted
  <2> QED  BY <1>2, <2>5, <2>9, <2>10, <2>11 DEF Accounted
<1> QED  BY <1>5, <1>6, <1>7

\* The steps that leave the queued events alone, or drop them all.
LEMMA OtherStepsSafe ==
  ASSUME TypeOK, Gapless, Accounted,
         \/ PushOverflows \/ PollOverflow \/ PollStopped \/ finish \/ UNCHANGED qvars
  PROVE  (TypeOK /\ Gapless /\ Accounted)'
<1>1. CASE PushOverflows
  <2>1. TypeOK'
    BY <1>1 DEF PushOverflows, TypeOK
  <2>2. Gapless'
    BY <1>1 DEF PushOverflows, Gapless
  <2>3. Accounted'
    <3> DEFINE z == [i \in 0..0 |-> 0]
    <3>1. entries' = <<>> /\ bytes' = 0 /\ Len(entries') = 0
      BY <1>1 DEF PushOverflows
    <3>2. z \in [0..0 -> 0..MaxBytes] /\ z[0] = 0
      BY QueueAssumption
    <3>3. IsPrefixSum(z)'
      BY <3>1 DEF IsPrefixSum
    <3> QED  BY <3>1, <3>2, <3>3, QueueAssumption DEF Accounted
  <2> QED  BY <2>1, <2>2, <2>3
<1>2. CASE PollOverflow
  <2>1. TypeOK'
    BY <1>2 DEF PollOverflow, TypeOK
  <2>2. Gapless' /\ Accounted'
    BY <1>2 DEF PollOverflow, Gapless, Accounted, IsPrefixSum
  <2> QED  BY <2>1, <2>2
<1>3. CASE PollStopped
  BY <1>3 DEF PollStopped, TypeOK, Gapless, Accounted, IsPrefixSum
<1>4. CASE finish
  BY <1>4 DEF finish, TypeOK, Gapless, Accounted, IsPrefixSum
<1>5. CASE UNCHANGED qvars
  BY <1>5 DEF qvars, TypeOK, Gapless, Accounted, IsPrefixSum
<1> QED  BY <1>1, <1>2, <1>3, <1>4, <1>5

\* Every step of the queue keeps types, order and accounting.
LEMMA StepSafe ==
  TypeOK /\ Gapless /\ Accounted /\ [Next]_qvars => (TypeOK /\ Gapless /\ Accounted)'
<1> SUFFICES ASSUME TypeOK, Gapless, Accounted, [Next]_qvars
             PROVE  (TypeOK /\ Gapless /\ Accounted)'
  OBVIOUS
<1>1. CASE Produce
  <2>1. PICK kind \in EventKinds, peer \in Peers, size \in 0..MaxPayload :
          Push(kind, peer, size)
    BY <1>1 DEF Produce
  <2> QED
    BY <2>1, AcceptedSafe, OtherStepsSafe DEF Push, PushRejected, PushRefused
<1>2. CASE Consume
  <2>1. PICK capacity \in 0..MaxPayload : Poll(capacity)
    BY <1>2 DEF Consume
  <2> QED
    BY <2>1, ReadySafe, OtherStepsSafe DEF Poll, PollTimeout, PollBufferTooSmall
<1>3. CASE finish
  BY <1>3, OtherStepsSafe
<1>4. CASE UNCHANGED qvars
  BY <1>4, OtherStepsSafe
<1> QED  BY <1>1, <1>2, <1>3, <1>4 DEF Next

\* The type invariant of the queue: every counter stays a natural number for
\* every sequence of calls.
THEOREM TypeCorrect == Spec => []TypeOK
<1>1. Spec => [](TypeOK /\ Gapless /\ Accounted)
  BY InitSafe, StepSafe, PTL DEF Spec
<1> QED  BY <1>1, PTL

\* push and poll keep FIFO order without gaps: an event accepted by push is
\* returned by a poll in its turn unless the terminal overflow replaces it.
THEOREM DeliveryIsGapless == Spec => []Gapless
<1>1. Spec => [](TypeOK /\ Gapless /\ Accounted)
  BY InitSafe, StepSafe, PTL DEF Spec
<1> QED  BY <1>1, PTL

\* bytes_ is the sum of the queued payloads and stays within max_bytes_, the
\* count within max_count_: the unsigned subtractions of push and poll never
\* wrap around, whatever the caps.
THEOREM QueueIsAccounted == Spec => []Accounted
<1>1. Spec => [](TypeOK /\ Gapless /\ Accounted)
  BY InitSafe, StepSafe, PTL DEF Spec
<1> QED  BY <1>1, PTL
-----------------------------------------------------------------------------
\* What makes the terminal answers final: an overflow leaves no history, a
\* reported overflow did happen, and a host that was told of the end has
\* nothing left to read.
TerminalInv ==
  /\ overflow => entries = <<>>
  /\ overflowReported => overflow
  /\ told = "overflow" => overflowReported
  /\ StoppedAfterDrain

\* Every step keeps what holds after a terminal answer of poll.
LEMMA TerminalStep == TypeOK /\ TerminalInv /\ [Next]_qvars => TerminalInv'
<1> SUFFICES ASSUME TypeOK, TerminalInv, [Next]_qvars  PROVE TerminalInv'
  OBVIOUS
<1> USE DEF TerminalInv, StoppedAfterDrain, Closed
<1>1. CASE Produce
  <2>1. PICK kind \in EventKinds, peer \in Peers, size \in 0..MaxPayload :
          Push(kind, peer, size)
    BY <1>1 DEF Produce
  <2>2. CASE PushAccepted(kind, peer, size)
    BY <2>2 DEF PushAccepted, TypeOK
  <2>3. CASE PushRefused
    BY <2>3 DEF PushRefused, qvars
  <2>4. CASE PushOverflows
    BY <2>4 DEF PushOverflows
  <2> QED  BY <2>1, <2>2, <2>3, <2>4 DEF Push, PushRejected
<1>2. CASE Consume
  <2>1. PICK capacity \in 0..MaxPayload : Poll(capacity)
    BY <1>2 DEF Consume
  <2>2. CASE PollOverflow
    BY <2>2 DEF PollOverflow
  <2>3. CASE PollStopped
    BY <2>3 DEF PollStopped
  <2>4. CASE PollReady(capacity)
    BY <2>4 DEF PollReady, TypeOK
  <2>5. CASE UNCHANGED qvars
    BY <2>5 DEF qvars
  <2> QED  BY <2>1, <2>2, <2>3, <2>4, <2>5 DEF Poll, PollTimeout, PollBufferTooSmall
<1>3. CASE finish
  BY <1>3 DEF finish
<1>4. CASE UNCHANGED qvars
  BY <1>4 DEF qvars
<1> QED  BY <1>1, <1>2, <1>3, <1>4 DEF Next

\* What holds after a terminal answer of poll holds in every reachable state.
LEMMA TerminalInvariant == Spec => []TerminalInv
<1>1. Init => TerminalInv
  BY DEF Init, TerminalInv, StoppedAfterDrain
<1> QED  BY <1>1, TerminalStep, TypeCorrect, PTL DEF Spec

\* STOPPED is the last word: a host that poll answered STOPPED has read all
\* there was to read, or had been told of the overflow before.
THEOREM StoppedIsFinal == Spec => []StoppedAfterDrain
<1>1. TerminalInv => StoppedAfterDrain
  BY DEF TerminalInv
<1> QED  BY <1>1, TerminalInvariant, PTL

\* After an overflow one event is delivered, the overflow itself, and after
\* any terminal answer no event is delivered at all.
THEOREM OverflowIsLast == Spec => OverflowIsTerminal
<1> DEFINE A == /\ (overflow /\ delivered' # delivered) =>
                      told' = "overflow" /\ ~overflowReported
                /\ told # "live" => delivered' = delivered
<1>1. TypeOK /\ TerminalInv /\ [Next]_qvars => [A]_qvars
  <2> SUFFICES ASSUME TypeOK, TerminalInv, Next  PROVE A
    OBVIOUS
  <2> USE DEF TerminalInv, StoppedAfterDrain, Closed
  <2>1. CASE Produce
    BY <2>1 DEF Produce, Push, PushAccepted, PushRejected, PushRefused, PushOverflows, qvars
  <2>2. CASE Consume
    <3>1. PICK capacity \in 0..MaxPayload : Poll(capacity)
      BY <2>2 DEF Consume
    <3>2. CASE PollOverflow
      BY <3>2 DEF PollOverflow, TypeOK
    <3>3. CASE PollReady(capacity)
      BY <3>3 DEF PollReady, TypeOK
    <3>4. CASE delivered' = delivered
      BY <3>4
    <3> QED
      BY <3>1, <3>2, <3>3, <3>4
      DEF Poll, PollStopped, PollTimeout, PollBufferTooSmall, qvars
  <2>3. CASE finish
    BY <2>3 DEF finish
  <2> QED  BY <2>1, <2>2, <2>3 DEF Next
<1>2. Spec => [][A]_qvars
  BY <1>1, TypeCorrect, TerminalInvariant, PTL DEF Spec
<1> QED  BY <1>2 DEF OverflowIsTerminal
=============================================================================
