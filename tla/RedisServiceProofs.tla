------------------------- MODULE RedisServiceProofs -------------------------
(***************************************************************************)
(* Proofs about the Redis service: requests are run and handed out in      *)
(* order, its three counters are exact, a reply is taken only for its own  *)
(* command, outcomes are told truthfully, and it implements RedisContract, *)
(* for every number of requests, sizes and limits.                         *)
(***************************************************************************)
EXTENDS RedisService, TLAPS

\* The type invariant in parts: flags, tables and lists, places, and the connection.
FlagType ==
  /\ told \in BOOLEAN /\ stopping \in BOOLEAN /\ stopped \in BOOLEAN
  /\ cancelled \in BOOLEAN /\ posted \in BOOLEAN /\ finished \in BOOLEAN
TableType ==
  /\ nextId \in 0..MaxRequestId
  /\ operation \in [Requests -> {"none", "GET", "WRITE"}]
  /\ held \in [Requests -> 0..MaxSize] /\ reservation \in [Requests -> {0, MaxValueBytes}]
  /\ queueBytes \in 0..MaxQueueBytes /\ resultBytes \in 0..MaxResultBytes
  /\ inflight \in 0..MaxInflight /\ delivered \in 0..MaxRequestId
ListType == pending \in Seq(Requests) /\ ready \in Seq(Requests)
JobType ==
  /\ stopper \in {"none", "flagged", "cancelling", "joining", "returned"}
  /\ worker \in Places /\ running \in Requests \cup {0} /\ result \in [Requests -> Statuses]
WireType ==
  /\ socket \in {"closed", "open"} /\ io \in {"idle", "writing", "sent", "reading"}
  /\ status \in Statuses /\ reply \in Replies
  /\ wire \in Seq(Requests \cup {AUTH}) /\ replies \in Seq(Replies) /\ late \in SUBSET Requests
EffectType == applied \in [Requests -> Nat]

\* How many requests have been completed, and the last id given out.
Done == delivered + Len(ready)
LastId == IF nextId = 0 THEN MaxRequestId ELSE nextId - 1
Busy == IF running = 0 THEN 0 ELSE 1

\* The lists are consecutive ids.
OrderInv ==
  /\ \A i \in 1..Len(ready) : ready[i] = delivered + i
  /\ running # 0 => running = Done + 1
  /\ \A i \in 1..Len(pending) : pending[i] = Done + Busy + i
  /\ LastId = Done + Busy + Len(pending)

\* What a request holds follows from its id.
TableInv ==
  \A r \in Requests :
    /\ operation[r] = "none" <=> r > LastId
    /\ held[r] = 0 <=> r <= Done \/ r > LastId
    /\ r > LastId \/ r <= delivered => reservation[r] = 0

\* n is the total of f, and at most B.
Total(f, B, n) ==
  \E sums \in [0..MaxRequestId -> 0..B] : IsRunningTotal(sums, f) /\ n = sums[MaxRequestId]

\* The counters are what the requests hold.
CounterInv ==
  /\ Total(held, MaxQueueBytes, queueBytes)
  /\ Total(reservation, MaxResultBytes, resultBytes)
  /\ inflight = Len(ready) + Busy + Len(pending)

\* The worker, stop() and its flags.
Idle == {"waiting", "failing", "finished"}
WorkerInv ==
  /\ running = 0 <=> worker \in Idle
  /\ stopping <=> stopper # "none"
  /\ worker \in {"failing", "finished"} => stopping
  /\ stopped <=> worker = "finished"
  /\ worker = "finished" => pending = <<>>
  /\ stopper = "returned" => worker = "finished"
  /\ told => worker = "finished" /\ ready = <<>>

\* The command the connection works on.
CurrentCommand == IF worker = "authenticating" THEN AUTH ELSE running

\* At most the current command is on the connection, and only while it runs.
OnTheWay ==
  \/ wire = <<CurrentCommand>> /\ replies = <<>>
  \/ /\ wire = <<>> /\ Len(replies) = 1 /\ replies[1].to = CurrentCommand
     /\ replies[1].kind = "large" => ~Writes(CurrentCommand)
WireInv ==
  /\ ~finished => Draining
  /\ io # "idle" => Commanding /\ ~finished
  /\ status # "OUTCOME_UNKNOWN"
  /\ io \in {"idle", "writing"} => wire = <<>> /\ replies = <<>>
  /\ io \in {"sent", "reading"} => OnTheWay
  /\ Commanding /\ finished /\ status = "OK" =>
       reply.to = CurrentCommand /\ (reply.kind = "large" => ~Writes(CurrentCommand))

\* The command of request r was not sent; was answered by a reply of this kind;
\* was carried out once, or not and may still be.
Unsent(r) == applied[r] = 0 /\ r \notin late
Replied(r, kind) == applied[r] = (IF kind = "error" THEN 0 ELSE 1) /\ r \notin late
AtMostOnce(r) == applied[r] = 0 \/ (applied[r] = 1 /\ r \notin late)

\* The answer of request r tells the truth.
Truth(r) ==
  /\ AtMostOnce(r)
  /\ operation[r] = "GET" => result[r] # "OUTCOME_UNKNOWN"
  /\ operation[r] = "WRITE" /\ result[r] = "OK" => applied[r] = 1
  /\ operation[r] = "WRITE" /\ result[r] \notin {"OK", "OUTCOME_UNKNOWN"} => Unsent(r)

\* What is known of the command that was begun.
BegunEffect(r) ==
  /\ AtMostOnce(r)
  /\ operation[r] = "WRITE" =>
       /\ io = "writing" \/ wire # <<>> => Unsent(r)
       /\ replies # <<>> => Replied(r, replies[1].kind)
       /\ finished /\ status = "OK" => Replied(r, reply.kind)

EffectAt(r) ==
  /\ operation[r] # "WRITE" => Unsent(r)
  /\ r <= Done => Truth(r)
  /\ r > Done /\ r # running => Unsent(r)
  /\ r = running =>
       /\ worker \notin {"commanding", "publishing"} => Unsent(r)
       /\ worker = "publishing" => Truth(r)
       /\ worker = "commanding" => BegunEffect(r)

Inv ==
  /\ FlagType /\ TableType /\ ListType /\ JobType /\ WireType /\ EffectType
  /\ OrderInv /\ TableInv /\ CounterInv /\ WorkerInv /\ WireInv
  /\ \A r \in Requests : EffectAt(r)
-----------------------------------------------------------------------------
\* The constants, and the ids.
LEMMA Ids ==
  /\ MaxRequestId \in Nat /\ MaxRequestId > 0 /\ MaxSize \in Nat /\ MaxValueBytes \in Nat
  /\ MaxValueBytes > 0 /\ MaxInflight \in Nat /\ MaxQueueBytes \in Nat /\ MaxResultBytes \in Nat
  /\ Requests \subseteq Nat /\ 0 \notin Requests /\ \A r \in Requests : 1 <= r /\ r <= MaxRequestId
  /\ \A r \in Nat : 1 <= r /\ r <= MaxRequestId => r \in Requests
BY RedisAssumption DEF Requests

\* The arithmetic of ids that wrap.
LEMMA Wraps ==
  /\ \A n \in 0..MaxRequestId : (n + 1) % (MaxRequestId + 1) = IF n = MaxRequestId THEN 0 ELSE n + 1
  /\ \A n \in 0..MaxRequestId : (n + MaxRequestId) % (MaxRequestId + 1) =
       IF n = 0 THEN MaxRequestId ELSE n - 1
<1> DEFINE m == MaxRequestId + 1
<1>1. m \in Nat /\ m > 0
  BY Ids
<1>2. \A n \in Nat : n < m => n % m = n /\ (n + m) % m = n
  BY <1>1
<1>3. m % m = 0
  BY <1>1
<1>4. ASSUME NEW n \in 0..MaxRequestId
      PROVE  (n + 1) % m = IF n = MaxRequestId THEN 0 ELSE n + 1
  BY <1>2, <1>3, Ids
<1>5. ASSUME NEW n \in 0..MaxRequestId
      PROVE  (n + MaxRequestId) % m = IF n = 0 THEN MaxRequestId ELSE n - 1
  <2>1. CASE n = 0
    BY <1>2, <2>1, Ids
  <2>2. CASE n # 0
    <3>1. n - 1 \in Nat /\ n - 1 < m /\ (n - 1) + m = n + MaxRequestId
      BY <2>2, Ids
    <3>2. ((n - 1) + m) % m = n - 1
      BY <1>2, <3>1
    <3> QED  BY <2>2, <3>1, <3>2
  <2> QED  BY <2>1, <2>2
<1> QED  BY <1>4, <1>5

\* A total grows by what a request that held nothing takes.
LEMMA TotalUp ==
  ASSUME NEW B \in Nat, NEW f \in [Requests -> Nat], NEW n, Total(f, B, n),
         NEW r \in Requests, f[r] = 0, NEW k \in Nat, n + k <= B
  PROVE  Total([f EXCEPT ![r] = k], B, n + k)
<1> DEFINE m == MaxRequestId
           g == [f EXCEPT ![r] = k]
<1>1. PICK sums \in [0..m -> 0..B] : IsRunningTotal(sums, f) /\ n = sums[m]
  BY DEF Total
<1>2. m \in Nat /\ m \in 0..m /\ r \in 1..m /\ n \in Nat
  BY <1>1, Ids DEF Requests
<1>3. \A i \in 0..m : sums[i] \in Nat /\ sums[i] <= n
  BY <1>1, <1>2 DEF IsRunningTotal
<1> DEFINE s == [i \in 0..m |-> IF i < r THEN sums[i] ELSE sums[i] + k]
<1>4. s \in [0..m -> 0..B]
  BY <1>2, <1>3
<1>5. \A i \in 0..m : s[i] = IF i < r THEN sums[i] ELSE sums[i] + k
  OBVIOUS
<1> HIDE DEF s
<1>6. s[0] = 0 /\ s[m] = n + k
  BY <1>1, <1>2, <1>5 DEF IsRunningTotal
<1>7. \A q \in Requests : s[q] = s[q - 1] + g[q]
  <2> TAKE q \in Requests
  <2>1. q \in Nat /\ q \in 0..m /\ q - 1 \in 0..m /\ f[q] \in Nat
    BY <1>2, Ids
  <2>2. sums[q] = sums[q - 1] + f[q] /\ sums[q - 1] \in Nat /\ sums[q] \in Nat
    BY <1>1, <1>3, <2>1 DEF IsRunningTotal
  <2>3. CASE q = r
    <3>1. g[q] = k /\ s[q - 1] = sums[q - 1] /\ s[q] = sums[q] + k
      BY <1>2, <1>5, <2>1, <2>3
    <3> QED  BY <2>2, <2>3, <3>1
  <2>4. CASE q # r
    <3>1. g[q] = f[q]
      BY <2>4
    <3>2. \/ s[q - 1] = sums[q - 1] /\ s[q] = sums[q]
          \/ s[q - 1] = sums[q - 1] + k /\ s[q] = sums[q] + k
      BY <1>2, <1>5, <2>1, <2>4
    <3> QED  BY <2>1, <2>2, <3>1, <3>2
  <2> QED  BY <2>3, <2>4
<1>8. \A i, j \in 0..m : i <= j => s[i] <= s[j]
  <2> TAKE i, j \in 0..m
  <2> HAVE i <= j
  <2>1. sums[i] <= sums[j] /\ sums[i] \in Nat /\ sums[j] \in Nat
    BY <1>1, <1>3 DEF IsRunningTotal
  <2> QED  BY <1>2, <1>5, <2>1
<1> QED  BY <1>4, <1>6, <1>7, <1>8 DEF Total, IsRunningTotal

\* A total shrinks by what a request gives back, which it contains.
LEMMA TotalDown ==
  ASSUME NEW B \in Nat, NEW f \in [Requests -> Nat], NEW n, Total(f, B, n), NEW r \in Requests
  PROVE  Total([f EXCEPT ![r] = 0], B, n - f[r]) /\ n - f[r] \in 0..B
<1> DEFINE m == MaxRequestId
           g == [f EXCEPT ![r] = 0]
           k == f[r]
<1>1. PICK sums \in [0..m -> 0..B] : IsRunningTotal(sums, f) /\ n = sums[m]
  BY DEF Total
<1>2. m \in Nat /\ m \in 0..m /\ r \in 1..m /\ n \in Nat /\ n <= B /\ k \in Nat /\ r - 1 \in 0..m
  BY <1>1, Ids DEF Requests
<1>3. /\ \A i \in 0..m : sums[i] \in Nat /\ sums[i] <= n
      /\ sums[r] = sums[r - 1] + k
      /\ \A i, j \in 0..m : i <= j => sums[i] <= sums[j]
  BY <1>1, <1>2 DEF IsRunningTotal
<1>4. \A i \in 0..m : i >= r => sums[i] - k >= sums[r - 1]
  <2> TAKE i \in 0..m
  <2> HAVE i >= r
  <2>1. sums[r] <= sums[i] /\ sums[i] \in Nat /\ sums[r] \in Nat /\ sums[r - 1] \in Nat
    BY <1>2, <1>3
  <2> QED  BY <1>2, <1>3, <2>1
<1> HIDE DEF k
<1> DEFINE s == [i \in 0..m |-> IF i < r THEN sums[i] ELSE sums[i] - k]
<1>5. s \in [0..m -> 0..B]
  <2>1. ASSUME NEW i \in 0..m PROVE (IF i < r THEN sums[i] ELSE sums[i] - k) \in 0..B
    <3>1. sums[i] \in Nat /\ sums[i] <= B /\ sums[r - 1] \in Nat
      BY <1>2, <1>3
    <3> QED  BY <1>2, <1>4, <3>1
  <2> QED  BY <2>1
<1>6. \A i \in 0..m : s[i] = IF i < r THEN sums[i] ELSE sums[i] - k
  OBVIOUS
<1> HIDE DEF s
<1>7. s[0] = 0 /\ s[m] = n - k
  BY <1>1, <1>2, <1>6 DEF IsRunningTotal
<1>8. \A q \in Requests : s[q] = s[q - 1] + g[q]
  <2> TAKE q \in Requests
  <2>1. q \in Nat /\ q \in 0..m /\ q - 1 \in 0..m /\ f[q] \in Nat
    BY <1>2, Ids
  <2>2. sums[q] = sums[q - 1] + f[q] /\ sums[q - 1] \in Nat /\ sums[q] \in Nat
    BY <1>1, <1>3, <2>1 DEF IsRunningTotal
  <2>3. CASE q = r
    <3>1. g[q] = 0 /\ s[q - 1] = sums[q - 1] /\ s[q] = sums[q] - k /\ f[q] = k
      BY <1>2, <1>6, <2>1, <2>3 DEF k
    <3> QED  BY <2>2, <2>3, <3>1, <1>2
  <2>4. CASE q # r
    <3>1. g[q] = f[q]
      BY <2>4
    <3>2. \/ s[q - 1] = sums[q - 1] /\ s[q] = sums[q]
          \/ s[q - 1] = sums[q - 1] - k /\ s[q] = sums[q] - k
      BY <1>2, <1>6, <2>1, <2>4
    <3> QED  BY <1>2, <2>1, <2>2, <3>1, <3>2
  <2> QED  BY <2>3, <2>4
<1>9. \A i, j \in 0..m : i <= j => s[i] <= s[j]
  <2> TAKE i, j \in 0..m
  <2> HAVE i <= j
  <2>1. sums[i] <= sums[j] /\ sums[i] \in Nat /\ sums[j] \in Nat /\ sums[r - 1] \in Nat
    BY <1>2, <1>3
  <2>2. CASE j < r \/ i >= r
    BY <1>2, <1>6, <2>1, <2>2
  <2>3. CASE i < r /\ j >= r
    <3>1. s[i] = sums[i] /\ s[j] = sums[j] - k /\ sums[i] <= sums[r - 1]
      BY <1>2, <1>3, <1>6, <2>3
    <3> QED  BY <1>2, <1>4, <2>1, <2>3, <3>1
  <2> QED  BY <1>2, <2>2, <2>3
<1>10. n - k \in 0..B
  BY <1>2, <1>5, <1>7
<1> QED  BY <1>5, <1>7, <1>8, <1>9, <1>10 DEF Total, IsRunningTotal, k
-----------------------------------------------------------------------------
\* The parts make the whole.
LEMMA TypeParts == TypeOK <=> FlagType /\ TableType /\ ListType /\ JobType /\ WireType /\ EffectType
BY Zenon DEF TypeOK, FlagType, TableType, ListType, JobType, WireType, EffectType

\* What Append does to a list.
LEMMA AppendFacts ==
  ASSUME NEW S, NEW s \in Seq(S), NEW e \in S
  PROVE  /\ Append(s, e) \in Seq(S) /\ Len(Append(s, e)) = Len(s) + 1 /\ Len(s) \in Nat
         /\ \A i \in 1..(Len(s) + 1) : Append(s, e)[i] = IF i = Len(s) + 1 THEN e ELSE s[i]
OBVIOUS

\* What Head and Tail take from a list.
LEMMA TailFacts ==
  ASSUME NEW S, NEW s \in Seq(S), s # <<>>
  PROVE  /\ Head(s) \in S /\ Head(s) = s[1] /\ Tail(s) \in Seq(S) /\ Len(s) \in Nat /\ Len(s) > 0
         /\ Len(Tail(s)) = Len(s) - 1
         /\ \A i \in 1..(Len(s) - 1) : Tail(s)[i] = s[i + 1]
OBVIOUS

\* What the steps start from.
LEMMA InvParts ==
  ASSUME Inv
  PROVE  /\ FlagType /\ TableType /\ ListType /\ JobType /\ WireType /\ EffectType
         /\ OrderInv /\ TableInv /\ CounterInv /\ WorkerInv /\ WireInv
         /\ Len(ready) \in Nat /\ Len(pending) \in Nat /\ delivered \in Nat /\ Done \in Nat
         /\ LastId \in Nat /\ LastId <= MaxRequestId /\ Busy \in Nat
<1>1. FlagType /\ TableType /\ ListType /\ JobType /\ WireType /\ EffectType
  BY DEF Inv
<1>2. Len(ready) \in Nat /\ Len(pending) \in Nat /\ delivered \in Nat /\ Done \in Nat
  BY <1>1, Ids DEF TableType, ListType, Done
<1>3. LastId \in Nat /\ LastId <= MaxRequestId /\ Busy \in Nat
  BY <1>1, Ids DEF TableType, LastId, Busy
<1> QED  BY <1>1, <1>2, <1>3 DEF Inv

\* The tables, and their entries as numbers.
LEMMA Tables ==
  ASSUME Inv
  PROVE  /\ operation \in [Requests -> {"none", "GET", "WRITE"}]
         /\ held \in [Requests -> 0..MaxSize] /\ held \in [Requests -> Nat]
         /\ reservation \in [Requests -> {0, MaxValueBytes}] /\ reservation \in [Requests -> Nat]
         /\ result \in [Requests -> Statuses]
<1>1. /\ operation \in [Requests -> {"none", "GET", "WRITE"}] /\ held \in [Requests -> 0..MaxSize]
      /\ reservation \in [Requests -> {0, MaxValueBytes}] /\ result \in [Requests -> Statuses]
  BY DEF Inv, TableType, JobType
<1>2. 0..MaxSize \subseteq Nat /\ {0, MaxValueBytes} \subseteq Nat
  BY Ids
<1> QED  BY <1>1, <1>2

\* The counters as numbers.
LEMMA Counters ==
  ASSUME Inv
  PROVE  /\ queueBytes \in Nat /\ queueBytes <= MaxQueueBytes
         /\ resultBytes \in Nat /\ resultBytes <= MaxResultBytes
         /\ inflight \in Nat /\ inflight <= MaxInflight
         /\ inflight = Len(ready) + Busy + Len(pending)
BY Ids DEF Inv, TableType, CounterInv

\* Steps that leave the connection, the worker and the results alone keep what
\* is known of the connection ...
LEMMA WireKept ==
  ASSUME WireInv, UNCHANGED <<worker, running, socketVars, opVars>>,
         Writes(CurrentCommand)' = Writes(CurrentCommand)
  PROVE  WireInv'
<1>1. CurrentCommand' = CurrentCommand
  BY DEF CurrentCommand
<1>2. OnTheWay' = OnTheWay
  BY <1>1 DEF OnTheWay, socketVars
<1> QED  BY <1>1, <1>2 DEF WireInv, Draining, Commanding, socketVars, opVars

\* ... and of the effects, if only requests that were never run change kind.
LEMMA EffectKept ==
  ASSUME \A r \in Requests : EffectAt(r), Done \in Nat,
         UNCHANGED <<jobVars, socketVars, opVars, applied>>, Done' = Done,
         \A r \in Requests : operation'[r] = operation[r] \/ (r > Done /\ r # running)
  PROVE  \A r \in Requests : EffectAt(r)'
<1> TAKE r \in Requests
<1>1. EffectAt(r)
  OBVIOUS
<1>2. UNCHANGED <<late, wire, replies, io, finished, status, reply, worker, running, result>>
  BY DEF socketVars, opVars, jobVars
<1>3. /\ Unsent(r)' = Unsent(r) /\ AtMostOnce(r)' = AtMostOnce(r)
  BY <1>2 DEF Unsent, AtMostOnce
<1>4. CASE operation'[r] = operation[r]
  <2>1. Truth(r)' = Truth(r) /\ BegunEffect(r)' = BegunEffect(r)
    BY <1>2, <1>3, <1>4 DEF Truth, BegunEffect, Replied
  <2> QED  BY <1>1, <1>2, <1>3, <1>4, <2>1 DEF EffectAt
<1>5. CASE r > Done /\ r # running
  <2>1. Unsent(r)'
    BY <1>1, <1>3, <1>5 DEF EffectAt
  <2>2. r \in Nat /\ ~(r <= Done') /\ r # running'
    BY <1>2, <1>5, Ids
  <2> QED  BY <2>1, <2>2 DEF EffectAt
<1> QED  BY <1>4, <1>5

\* An accepted request is the next id, at the end of what is pending.
LEMMA SubmitKeeps ==
  ASSUME Inv, NEW kind \in {"GET", "WRITE"}, NEW size \in 1..MaxSize, submit(kind, size)
  PROVE  Inv'
<1> DEFINE k == ReservationFor(kind)
<1>1. /\ nextId \in Requests /\ nextId = LastId + 1 /\ LastId' = nextId
      /\ nextId' \in 0..MaxRequestId
      /\ size \in Nat /\ size > 0 /\ size <= MaxSize /\ k \in {0, MaxValueBytes} /\ k \in Nat
      /\ ~stopping /\ inflight < MaxInflight
      /\ queueBytes + size <= MaxQueueBytes /\ resultBytes + k <= MaxResultBytes
  <2>1. nextId \in Nat /\ nextId # 0 /\ nextId <= MaxRequestId
    BY InvParts, Ids DEF submit, Admissible, TableType
  <2>2. nextId \in Requests /\ nextId = LastId + 1
    BY <2>1, Ids DEF LastId
  <2>3. nextId' = IF nextId = MaxRequestId THEN 0 ELSE nextId + 1
    BY <2>1, Ids, Wraps DEF submit
  <2>4. LastId' = nextId /\ nextId' \in 0..MaxRequestId
    BY <2>1, <2>3, Ids DEF LastId
  <2>5. queueBytes \in Nat /\ resultBytes \in Nat /\ k \in {0, MaxValueBytes} /\ k \in Nat
    BY InvParts, Ids DEF TableType, ReservationFor
  <2> QED  BY <2>2, <2>4, <2>5, Ids DEF submit, Admissible
<1>2. /\ operation' = [operation EXCEPT ![nextId] = kind]
      /\ held' = [held EXCEPT ![nextId] = size]
      /\ reservation' = [reservation EXCEPT ![nextId] = k]
      /\ pending' = Append(pending, nextId)
      /\ queueBytes' = queueBytes + size /\ resultBytes' = resultBytes + k
      /\ inflight' = inflight + 1
      /\ UNCHANGED <<ready, delivered, told, stopVars, jobVars, cancelled, posted,
                     socketVars, opVars, applied>>
  BY DEF submit
<1>3. /\ operation[nextId] = "none" /\ held[nextId] = 0 /\ reservation[nextId] = 0
      /\ nextId > LastId /\ nextId > Done /\ nextId # running
  BY <1>1, InvParts, Ids DEF TableInv, OrderInv, Busy
<1>4. Done' = Done /\ Busy' = Busy
  BY <1>2 DEF Done, Busy, jobVars
<1>5. /\ Len(pending') = Len(pending) + 1
      /\ \A i \in 1..(Len(pending) + 1) :
           pending'[i] = IF i = Len(pending) + 1 THEN nextId ELSE pending[i]
      /\ ListType'
  <2>1. pending \in Seq(Requests)
    BY InvParts DEF ListType
  <2> QED  BY <1>1, <1>2, <2>1, AppendFacts, InvParts DEF ListType
<1>6. FlagType' /\ TableType' /\ ListType' /\ JobType' /\ WireType' /\ EffectType'
  <2>1. /\ operation' \in [Requests -> {"none", "GET", "WRITE"}]
        /\ held' \in [Requests -> 0..MaxSize] /\ reservation' \in [Requests -> {0, MaxValueBytes}]
    <3>1. /\ operation' = [operation EXCEPT ![nextId] = kind]
          /\ held' = [held EXCEPT ![nextId] = size]
          /\ reservation' = [reservation EXCEPT ![nextId] = k]
      BY <1>2
    <3>2. size \in 0..MaxSize
      BY <1>1, Ids
    <3> QED  BY <1>1, <3>1, <3>2, Tables
  <2>2. /\ queueBytes' \in 0..MaxQueueBytes /\ resultBytes' \in 0..MaxResultBytes
        /\ inflight' \in 0..MaxInflight
    <3>1. /\ queueBytes' = queueBytes + size /\ resultBytes' = resultBytes + k
          /\ inflight' = inflight + 1
      BY <1>2
    <3>2. /\ queueBytes + size \in Nat /\ resultBytes + k \in Nat /\ inflight + 1 \in Nat
          /\ inflight + 1 <= MaxInflight
      BY <1>1, Counters, Ids
    <3>3. queueBytes + size <= MaxQueueBytes /\ resultBytes + k <= MaxResultBytes
      BY <1>1
    <3> QED  BY <3>1, <3>2, <3>3, Ids
  <2>3. TableType'
    BY <1>1, <1>2, <1>5, <2>1, <2>2, InvParts DEF TableType
  <2>4. FlagType' /\ JobType' /\ WireType' /\ EffectType'
    BY <1>2, InvParts DEF FlagType, JobType, WireType, EffectType, stopVars, jobVars, socketVars, opVars
  <2> QED  BY <1>5, <2>3, <2>4
<1>7. OrderInv'
  <2>1. UNCHANGED <<ready, delivered, running>>
    BY <1>2 DEF jobVars
  <2>2. nextId = Done + Busy + Len(pending) + 1
    BY <1>1, InvParts DEF OrderInv
  <2>3. \A i \in 1..(Len(pending) + 1) : pending'[i] = Done + Busy + i
    <3>1. /\ Len(pending) \in Nat /\ Done \in Nat /\ Busy \in Nat
          /\ \A i \in 1..Len(pending) : pending[i] = Done + Busy + i
      BY InvParts DEF OrderInv
    <3> QED  BY <1>5, <2>2, <3>1
  <2>4. LastId' = Done + Busy + (Len(pending) + 1)
    BY <1>1, <2>2, InvParts
  <2> QED  BY <1>4, <1>5, <2>1, <2>3, <2>4, InvParts DEF OrderInv
<1>8. TableInv'
  <2> SUFFICES ASSUME NEW r \in Requests
               PROVE /\ operation'[r] = "none" <=> r > nextId
                     /\ held'[r] = 0 <=> r <= Done \/ r > nextId
                     /\ r > nextId \/ r <= delivered => reservation'[r] = 0
    BY <1>1, <1>2, <1>4 DEF TableInv
  <2>1. CASE r = nextId
    <3>1. operation'[r] = kind /\ held'[r] = size /\ r > delivered
      <4>1. operation'[r] = kind /\ held'[r] = size
        BY <1>2, <2>1, Tables
      <4>2. nextId > delivered
        BY <1>1, <1>3, InvParts, Ids DEF Done
      <4> QED  BY <2>1, <4>1, <4>2
    <3> QED  BY <1>1, <1>3, <2>1, <3>1, InvParts, Ids
  <2>2. CASE r # nextId
    <3>1. operation'[r] = operation[r] /\ held'[r] = held[r] /\ reservation'[r] = reservation[r]
      BY <1>2, <2>2, InvParts DEF TableType
    <3>2. r > nextId <=> r > LastId
      BY <1>1, <2>2, Ids, InvParts
    <3> QED  BY <3>1, <3>2, InvParts DEF TableInv
  <2> QED  BY <2>1, <2>2
<1>9. CounterInv'
  <2>2. Total(held', MaxQueueBytes, queueBytes')
    BY <1>1, <1>2, <1>3, TotalUp, Tables, InvParts, Ids DEF CounterInv
  <2>3. Total(reservation', MaxResultBytes, resultBytes')
    BY <1>1, <1>2, <1>3, TotalUp, Tables, InvParts, Ids DEF CounterInv
  <2>4. inflight' = Len(ready') + Busy' + Len(pending')
    <3>1. Len(ready') = Len(ready) /\ inflight' = inflight + 1 /\ Len(pending') = Len(pending) + 1
      BY <1>2, <1>5
    <3> QED  BY <1>4, <3>1, Counters, InvParts
  <2> QED  BY <2>2, <2>3, <2>4 DEF CounterInv
<1>10. WorkerInv'
  BY <1>1, <1>2, InvParts DEF WorkerInv, stopVars, jobVars
<1>11. WireInv'
  <2>1. Writes(CurrentCommand)' = Writes(CurrentCommand)
    <3>1. CurrentCommand' = CurrentCommand /\ CurrentCommand # nextId
      BY <1>1, <1>2, <1>3, Ids DEF CurrentCommand, AUTH, jobVars
    <3>2. CurrentCommand # AUTH => CurrentCommand \in Requests
      BY InvParts DEF JobType, CurrentCommand, AUTH
    <3> QED  BY <1>2, <3>1, <3>2, Tables DEF Writes
  <2> QED  BY <1>2, <2>1, WireKept, InvParts DEF jobVars
<1>12. \A r \in Requests : EffectAt(r)'
  <2>1. \A r \in Requests : operation'[r] = operation[r] \/ (r > Done /\ r # running)
    BY <1>2, <1>3, InvParts DEF TableType
  <2> QED  BY <1>2, <1>4, <2>1, EffectKept, InvParts DEF Inv
<1> QED  BY <1>6, <1>7, <1>8, <1>9, <1>10, <1>11, <1>12 DEF Inv
\* Steps that leave the tables, the lists and the worker's request alone keep
\* what is known of them.
LEMMA TableKept ==
  ASSUME Inv, UNCHANGED <<tableVars, pending, ready, delivered, running>>
  PROVE  /\ TableType' /\ ListType' /\ OrderInv' /\ TableInv' /\ CounterInv'
         /\ Done' = Done /\ Busy' = Busy /\ LastId' = LastId
<1>1. UNCHANGED <<nextId, operation, held, reservation, queueBytes, resultBytes, inflight>>
  BY DEF tableVars
<1>2. Done' = Done /\ Busy' = Busy /\ LastId' = LastId
  BY <1>1 DEF Done, Busy, LastId
<1>3. TableType' /\ ListType'
  BY <1>1, InvParts DEF TableType, ListType
<1>4. OrderInv' /\ TableInv'
  BY <1>1, <1>2, InvParts DEF OrderInv, TableInv
<1>5. CounterInv'
  BY <1>1, <1>2, InvParts DEF CounterInv, Total, IsRunningTotal
<1> QED  BY <1>2, <1>3, <1>4, <1>5

\* Steps of stop() and of a poll that finds the service stopped touch its flags only.
LEMMA FlagStepKeeps ==
  ASSUME Inv, UNCHANGED <<tableVars, pending, ready, delivered, jobVars, socketVars, opVars, applied>>,
         FlagType', JobType', WorkerInv'
  PROVE  Inv'
<1>1. running' = running /\ worker' = worker
  BY DEF jobVars
<1>2. /\ TableType' /\ ListType' /\ OrderInv' /\ TableInv' /\ CounterInv' /\ Done' = Done
  BY <1>1, TableKept
<1>3. operation' = operation
  BY DEF tableVars
<1>4. \A r \in Requests : EffectAt(r)'
  BY <1>2, <1>3, EffectKept, InvParts DEF Inv
<1>5. Writes(CurrentCommand)' = Writes(CurrentCommand)
  BY <1>1, <1>3 DEF Writes, CurrentCommand
<1>6. WireInv'
  BY <1>1, <1>5, WireKept, InvParts
<1>7. WireType' /\ EffectType'
  BY InvParts DEF WireType, EffectType, socketVars, opVars
<1> QED  BY <1>2, <1>4, <1>6, <1>7 DEF Inv

\* A poll that returns SE_STOPPED has nothing to hand out, and never will.
LEMMA PollStoppedKeeps ==
  ASSUME Inv, PollStopped PROVE Inv'
<1>1. /\ ready = <<>> /\ stopped /\ told' = TRUE
      /\ UNCHANGED <<tableVars, pending, ready, delivered, stopVars, jobVars,
                     cancelled, posted, socketVars, opVars, applied>>
  BY DEF PollStopped
<1>2. UNCHANGED <<stopping, stopped, stopper, worker, running, result, finished>>
  BY <1>1 DEF stopVars, jobVars, opVars
<1>3. FlagType'
  BY <1>1, <1>2, InvParts, Zenon DEF FlagType
<1>4. JobType' /\ WorkerInv'
  BY <1>1, <1>2, InvParts DEF JobType, WorkerInv
<1> QED  BY <1>1, <1>3, <1>4, FlagStepKeeps

\* stop() raises the flag.
LEMMA StopKeeps ==
  ASSUME Inv, stop PROVE Inv'
<1>1. /\ stopping' = TRUE /\ stopper' = "flagged" /\ stopper = "none"
      /\ UNCHANGED <<tableVars, listVars, stopped, jobVars, cancelled, posted,
                     socketVars, opVars, applied>>
  BY DEF stop
<1>2. UNCHANGED <<pending, ready, delivered, told, worker, running, result, finished>>
  BY <1>1 DEF listVars, jobVars, opVars
<1>3. FlagType'
  BY <1>1, <1>2, InvParts, Zenon DEF FlagType
<1>4. JobType' /\ WorkerInv'
  BY <1>1, <1>2, InvParts DEF JobType, WorkerInv
<1> QED  BY <1>1, <1>2, <1>3, <1>4, FlagStepKeeps

\* cancel(), and the end of stop().
LEMMA StopperKeeps ==
  ASSUME Inv, Stopper PROVE Inv'
<1>1. /\ UNCHANGED <<tableVars, listVars, stopping, stopped, jobVars, socketVars, opVars, applied>>
      /\ stopper \in {"flagged", "cancelling", "joining"}
      /\ stopper' \in {"cancelling", "joining", "returned"}
      /\ stopper' = "returned" => worker = "finished"
  BY DEF Stopper, CancelStores, CancelPosts, Join
<1>2. UNCHANGED <<pending, ready, delivered, told, worker, running, result, finished>>
  BY <1>1 DEF listVars, jobVars, opVars
<1>3. cancelled' \in BOOLEAN /\ posted' \in BOOLEAN
  <2>1. cancelled \in BOOLEAN /\ posted \in BOOLEAN
    BY InvParts, Zenon DEF FlagType
  <2> QED  BY <2>1, Zenon DEF Stopper, CancelStores, CancelPosts, Join
<1>4. FlagType'
  BY <1>1, <1>2, <1>3, InvParts, Zenon DEF FlagType
<1>5. JobType' /\ WorkerInv'
  BY <1>1, <1>2, InvParts DEF JobType, WorkerInv
<1> QED  BY <1>1, <1>2, <1>4, <1>5, FlagStepKeeps

\* A poll hands out the oldest completion and gives its reservation back.
LEMMA PollKeeps ==
  ASSUME Inv, poll PROVE Inv'
<1>1. /\ ready # <<>> /\ ready' = Tail(ready)
      /\ resultBytes' = resultBytes - reservation[Head(ready)]
      /\ reservation' = [reservation EXCEPT ![Head(ready)] = 0]
      /\ inflight' = inflight - 1 /\ delivered' = delivered + 1
  BY DEF poll
<1>2. UNCHANGED <<nextId, operation, held, queueBytes, pending, told, stopVars, jobVars,
                  cancelled, posted, socketVars, opVars, applied>>
  BY DEF poll
<1>3. UNCHANGED <<stopping, stopped, stopper, worker, running, result, finished>>
  BY <1>2 DEF stopVars, jobVars, opVars
<1> DEFINE h == Head(ready)
<1>4. /\ h \in Requests /\ h = ready[1] /\ ready' \in Seq(Requests)
      /\ Len(ready) \in Nat /\ Len(ready) > 0 /\ Len(ready') = Len(ready) - 1
      /\ \A i \in 1..(Len(ready) - 1) : ready'[i] = ready[i + 1]
  <2>1. ready \in Seq(Requests)
    BY InvParts DEF ListType
  <2> QED  BY <1>1, <2>1, TailFacts
<1>5. h = delivered + 1
  BY <1>4, InvParts DEF OrderInv
<1> HIDE DEF h
<1>6. Done' = Done /\ Busy' = Busy /\ LastId' = LastId
  <2>1. Busy' = Busy /\ LastId' = LastId
    BY <1>2, <1>3 DEF Busy, LastId
  <2>2. Done' = Done
    BY <1>1, <1>4, InvParts DEF Done
  <2> QED  BY <2>1, <2>2
<1>7. OrderInv'
  <2>1. \A i \in 1..(Len(ready) - 1) : ready'[i] = (delivered + 1) + i
    <3>1. Len(ready) \in Nat /\ delivered \in Nat /\ \A i \in 1..Len(ready) : ready[i] = delivered + i
      BY InvParts DEF OrderInv
    <3> QED  BY <1>4, <3>1
  <2>2. \A i \in 1..Len(ready') : ready'[i] = delivered' + i
    BY <1>1, <1>4, <2>1
  <2> QED  BY <1>2, <1>3, <1>6, <2>2, InvParts DEF OrderInv
<1>8. TableInv'
  <2>1. \A r \in Requests : reservation'[r] = IF r = h THEN 0 ELSE reservation[r]
    BY <1>1, <1>4, Tables DEF h
  <2>2. \A r \in Requests : r <= delivered + 1 => r <= delivered \/ r = h
    BY <1>5, InvParts, Ids
  <2> QED  BY <1>1, <1>2, <1>6, <2>1, <2>2, InvParts DEF TableInv
<1>9. CounterInv' /\ resultBytes' \in 0..MaxResultBytes
  <2>1. /\ Total([reservation EXCEPT ![h] = 0], MaxResultBytes, resultBytes - reservation[h])
        /\ resultBytes - reservation[h] \in 0..MaxResultBytes
    BY <1>4, TotalDown, Tables, InvParts, Ids DEF CounterInv
  <2>2. Total(reservation', MaxResultBytes, resultBytes') /\ resultBytes' \in 0..MaxResultBytes
    BY <1>1, <2>1 DEF h
  <2>3. Total(held', MaxQueueBytes, queueBytes')
    BY <1>2, InvParts DEF CounterInv
  <2>4. inflight' = Len(ready') + Busy' + Len(pending')
    <3>1. inflight' = inflight - 1 /\ Len(pending') = Len(pending)
      BY <1>1, <1>2
    <3> QED  BY <1>4, <1>6, <3>1, Counters, InvParts
  <2> QED  BY <2>2, <2>3, <2>4 DEF CounterInv
<1>10. FlagType' /\ TableType' /\ ListType' /\ JobType' /\ WireType' /\ EffectType'
  <2>1. FlagType'
    BY <1>2, <1>3, InvParts, Zenon DEF FlagType
  <2>2. ListType'
    BY <1>2, <1>4, InvParts DEF ListType
  <2>3. reservation' \in [Requests -> {0, MaxValueBytes}]
    BY <1>1, <1>4, Tables DEF h
  <2>4. inflight' \in 0..MaxInflight
    <3>1. inflight > 0 /\ inflight \in Nat /\ inflight <= MaxInflight
      BY <1>4, Counters, InvParts
    <3> QED  BY <1>1, <3>1, Ids
  <2>5. delivered' \in 0..MaxRequestId
    <3>1. delivered + 1 <= MaxRequestId /\ delivered + 1 \in Nat
      BY <1>4, <1>5, InvParts, Ids
    <3> QED  BY <1>1, <3>1, Ids
  <2>6. TableType'
    BY <1>2, <1>9, <2>3, <2>4, <2>5, InvParts DEF TableType
  <2>7. JobType' /\ WireType' /\ EffectType'
    BY <1>2, <1>3, InvParts DEF JobType, WireType, EffectType, socketVars, opVars
  <2> QED  BY <2>1, <2>2, <2>6, <2>7
<1>11. WorkerInv'
  BY <1>1, <1>2, <1>3, InvParts DEF WorkerInv
<1>12. WireInv'
  <2>1. Writes(CurrentCommand)' = Writes(CurrentCommand)
    BY <1>2, <1>3 DEF Writes, CurrentCommand
  <2> QED  BY <1>2, <1>3, <2>1, WireKept, InvParts
<1>13. \A r \in Requests : EffectAt(r)'
  BY <1>2, <1>6, EffectKept, InvParts DEF Inv
<1> QED  BY <1>7, <1>8, <1>9, <1>10, <1>11, <1>12, <1>13 DEF Inv
-----------------------------------------------------------------------------
\* Outside an operation nothing is on the connection, wherever the worker goes.
LEMMA QuietWire ==
  ASSUME WireInv, WireType, UNCHANGED <<socketVars, opVars>>, ~Draining, ~Draining'
  PROVE  WireInv'
<1>1. io = "idle" /\ finished /\ ~Commanding /\ ~Commanding'
  BY DEF WireInv, Draining, Commanding
<1>2. UNCHANGED <<wire, replies, io, finished, status, reply>>
  BY DEF socketVars, opVars
<1> QED  BY <1>1, <1>2 DEF WireInv

\* The worker takes the oldest pending request, or begins or ends failing what
\* is pending.
LEMMA TakeKeeps ==
  ASSUME Inv, Take PROVE Inv'
<1>1. /\ worker = "waiting" /\ worker' = "starting" /\ ~stopping /\ pending # <<>>
      /\ running' = Head(pending) /\ pending' = Tail(pending)
  BY DEF Take
<1>2. UNCHANGED <<tableVars, ready, delivered, told, stopVars, result, cancelled,
                  posted, socketVars, opVars, applied>>
  BY DEF Take
<1>3. /\ UNCHANGED <<nextId, operation, held, reservation, queueBytes, resultBytes, inflight>>
      /\ UNCHANGED <<stopping, stopped, stopper, finished, late>>
  BY <1>2 DEF tableVars, stopVars, opVars, socketVars
<1>4. /\ Head(pending) \in Requests /\ Head(pending) = pending[1] /\ pending' \in Seq(Requests)
      /\ Len(pending) \in Nat /\ Len(pending) > 0 /\ Len(pending') = Len(pending) - 1
      /\ \A i \in 1..(Len(pending) - 1) : pending'[i] = pending[i + 1]
  <2>1. pending \in Seq(Requests)
    BY InvParts DEF ListType
  <2> QED  BY <1>1, <2>1, TailFacts
<1>5. running = 0 /\ Busy = 0 /\ Busy' = 1 /\ Done' = Done /\ LastId' = LastId
  <2>1. running = 0 /\ running' # 0
    BY <1>1, <1>4, InvParts, Ids DEF WorkerInv, Idle
  <2> QED  BY <1>2, <1>3, <2>1 DEF Busy, Done, LastId
<1>6. running' = Done + 1 /\ running' \in Requests
  BY <1>1, <1>4, <1>5, InvParts DEF OrderInv
<1>7. OrderInv'
  <2>1. /\ Len(pending) \in Nat /\ Done \in Nat
        /\ \A i \in 1..Len(pending) : pending[i] = Done + Busy + i
        /\ LastId = Done + Busy + Len(pending)
    BY InvParts DEF OrderInv
  <2>2. \A i \in 1..(Len(pending) - 1) : pending'[i] = Done + 1 + i
    BY <1>4, <1>5, <2>1
  <2>3. LastId = Done + 1 + (Len(pending) - 1)
    BY <1>5, <2>1
  <2> QED  BY <1>2, <1>4, <1>5, <1>6, <2>2, <2>3, InvParts DEF OrderInv
<1>8. TableInv'
  BY <1>2, <1>3, <1>5, InvParts DEF TableInv
<1>9. CounterInv'
  <2>1. Len(ready') = Len(ready) /\ inflight' = inflight
    BY <1>2, <1>3
  <2>2. inflight' = Len(ready') + Busy' + Len(pending')
    BY <1>4, <1>5, <2>1, Counters, InvParts
  <2> QED  BY <1>3, <2>2, InvParts DEF CounterInv
<1>10. FlagType' /\ TableType' /\ ListType' /\ JobType' /\ WireType' /\ EffectType'
  <2>1. FlagType'
    BY <1>2, <1>3, InvParts, Zenon DEF FlagType
  <2>2. TableType' /\ ListType'
    BY <1>2, <1>3, <1>4, InvParts DEF TableType, ListType
  <2>3. JobType'
    BY <1>1, <1>2, <1>3, <1>6, InvParts DEF JobType, Places
  <2>4. WireType' /\ EffectType'
    BY <1>2, InvParts DEF WireType, EffectType, socketVars, opVars
  <2> QED  BY <2>1, <2>2, <2>3, <2>4
<1>11. WorkerInv'
  BY <1>1, <1>2, <1>3, <1>4, <1>5, <1>6, InvParts, Ids DEF WorkerInv, Idle
<1>12. WireInv'
  BY <1>1, <1>2, QuietWire, InvParts DEF Draining
<1>13. ASSUME NEW r \in Requests PROVE EffectAt(r)'
  <2>1. EffectAt(r)
    BY DEF Inv
  <2>2. Unsent(r)' = Unsent(r) /\ Truth(r)' = Truth(r) /\ operation'[r] = operation[r]
    BY <1>2, <1>3 DEF Unsent, Truth, AtMostOnce
  <2>3. r > Done => Unsent(r)
    BY <1>5, <2>1, Ids DEF EffectAt
  <2> QED  BY <1>1, <1>5, <1>6, <2>1, <2>2, <2>3, InvParts, Ids DEF EffectAt
<1> QED  BY <1>7, <1>8, <1>9, <1>10, <1>11, <1>12, <1>13 DEF Inv

\* The worker takes the mutex to fail what is pending, and leaves it when that
\* is done.
LEMMA FailingKeeps ==
  ASSUME Inv, BeginFailing \/ EndFailing PROVE Inv'
<1>1. /\ UNCHANGED <<tableVars, listVars, stopping, stopper, running, result, cancelled,
                     posted, socketVars, opVars, applied>>
      /\ worker \in {"waiting", "failing"} /\ worker' \in {"failing", "finished"} /\ stopping
      /\ stopped' = (worker' = "finished")
      /\ worker' = "finished" => pending = <<>>
      /\ stopped' \in BOOLEAN
  BY InvParts DEF BeginFailing, EndFailing, WorkerInv, FlagType, stopVars
<1>2. UNCHANGED <<pending, ready, delivered, told, operation, late, finished>>
  BY <1>1 DEF listVars, tableVars, socketVars, opVars
<1>3. running = 0
  BY <1>1, InvParts DEF WorkerInv, Idle
<1>4. /\ TableType' /\ ListType' /\ OrderInv' /\ TableInv' /\ CounterInv' /\ Done' = Done
  BY <1>1, <1>2, TableKept
<1>5. FlagType'
  BY <1>1, <1>2, InvParts, Zenon DEF FlagType
<1>6. JobType' /\ WireType' /\ EffectType'
  BY <1>1, InvParts DEF JobType, WireType, EffectType, Places, socketVars, opVars
<1>7. WorkerInv'
  BY <1>1, <1>2, <1>3, InvParts DEF WorkerInv, Idle
<1>8. WireInv'
  BY <1>1, QuietWire, InvParts DEF Draining
<1>9. ASSUME NEW r \in Requests PROVE EffectAt(r)'
  <2>1. EffectAt(r)
    BY DEF Inv
  <2>2. Unsent(r)' = Unsent(r) /\ Truth(r)' = Truth(r) /\ operation'[r] = operation[r]
    BY <1>1, <1>2 DEF Unsent, Truth, AtMostOnce
  <2> QED  BY <1>1, <1>3, <1>4, <2>1, <2>2, Ids DEF EffectAt
<1> QED  BY <1>4, <1>5, <1>6, <1>7, <1>8, <1>9 DEF Inv

\* Completing the oldest request that is not complete: its key and value are
\* given back and it becomes the last of what is ready.
LEMMA CompleteKeeps ==
  ASSUME Inv, NEW r \in Requests, r = Done + 1, r <= LastId, Complete(r), delivered' = delivered,
         UNCHANGED <<nextId, operation, reservation, resultBytes, inflight>>
  PROVE  /\ Done' = Done + 1 /\ LastId' = LastId /\ Len(ready') = Len(ready) + 1
         /\ TableType' /\ TableInv' /\ ready' \in Seq(Requests)
         /\ \A i \in 1..Len(ready') : ready'[i] = delivered' + i
         /\ Total(held', MaxQueueBytes, queueBytes')
         /\ Total(reservation', MaxResultBytes, resultBytes')
<1>1. /\ ready' \in Seq(Requests) /\ Len(ready') = Len(ready) + 1
      /\ \A i \in 1..(Len(ready) + 1) : ready'[i] = IF i = Len(ready) + 1 THEN r ELSE ready[i]
  <2>1. ready \in Seq(Requests) /\ ready' = Append(ready, r)
    BY InvParts DEF ListType, Complete
  <2> QED  BY <2>1, AppendFacts
<1>2. Done' = Done + 1 /\ LastId' = LastId
  <2>1. Done' = Done + 1
    BY <1>1, InvParts DEF Done
  <2>2. LastId' = LastId
    BY DEF LastId
  <2> QED  BY <2>1, <2>2
<1>3. \A i \in 1..Len(ready') : ready'[i] = delivered' + i
  <2>1. Len(ready) \in Nat /\ delivered \in Nat /\ \A i \in 1..Len(ready) : ready[i] = delivered + i
    BY InvParts DEF OrderInv
  <2>2. r = delivered + (Len(ready) + 1)
    BY <2>1 DEF Done
  <2>3. \A i \in 1..(Len(ready) + 1) : ready'[i] = delivered + i
    BY <1>1, <2>1, <2>2
  <2> QED  BY <1>1, <2>3
<1>4. /\ Total(held', MaxQueueBytes, queueBytes') /\ queueBytes' \in 0..MaxQueueBytes
      /\ \A q \in Requests : held'[q] = IF q = r THEN 0 ELSE held[q]
      /\ held' \in [Requests -> 0..MaxSize]
  <2>1. /\ Total([held EXCEPT ![r] = 0], MaxQueueBytes, queueBytes - held[r])
        /\ queueBytes - held[r] \in 0..MaxQueueBytes
    BY TotalDown, Tables, InvParts, Ids DEF CounterInv
  <2>2. held' = [held EXCEPT ![r] = 0] /\ queueBytes' = queueBytes - held[r]
    BY DEF Complete
  <2>3. held' \in [Requests -> 0..MaxSize] /\ \A q \in Requests : held'[q] = IF q = r THEN 0 ELSE held[q]
    BY <2>2, Tables, Ids
  <2> QED  BY <2>1, <2>2, <2>3
<1>5. Total(reservation', MaxResultBytes, resultBytes')
  BY InvParts DEF CounterInv
<1>6. TableInv'
  <2> SUFFICES ASSUME NEW q \in Requests
               PROVE  /\ operation[q] = "none" <=> q > LastId
                      /\ held'[q] = 0 <=> q <= Done + 1 \/ q > LastId
                      /\ q > LastId \/ q <= delivered => reservation[q] = 0
    BY <1>2 DEF TableInv
  <2>1. q <= Done + 1 <=> q <= Done \/ q = r
    BY InvParts, Ids
  <2> QED  BY <1>4, <2>1, InvParts DEF TableInv
<1>7. TableType'
  BY <1>4, InvParts DEF TableType
<1> QED  BY <1>1, <1>2, <1>3, <1>4, <1>5, <1>6, <1>7

\* After stop(), the pending requests are answered STOPPED in order.
LEMMA FailPendingKeeps ==
  ASSUME Inv, FailPending PROVE Inv'
<1> DEFINE h == Head(pending)
<1>1. /\ worker = "failing" /\ pending # <<>> /\ pending' = Tail(pending)
      /\ result' = [result EXCEPT ![h] = "STOPPED"] /\ Complete(h)
  BY DEF FailPending
<1>2. UNCHANGED <<nextId, operation, reservation, resultBytes, inflight, delivered, told,
                  stopVars, worker, running, cancelled, posted, socketVars, opVars, applied>>
  BY DEF FailPending
<1>3. UNCHANGED <<stopping, stopped, stopper, finished, late>>
  BY <1>2 DEF stopVars, opVars, socketVars
<1>4. /\ h \in Requests /\ h = pending[1] /\ pending' \in Seq(Requests)
      /\ Len(pending) \in Nat /\ Len(pending) > 0 /\ Len(pending') = Len(pending) - 1
      /\ \A i \in 1..(Len(pending) - 1) : pending'[i] = pending[i + 1]
  <2>1. pending \in Seq(Requests)
    BY InvParts DEF ListType
  <2> QED  BY <1>1, <2>1, TailFacts
<1> HIDE DEF h
<1>5. running = 0 /\ Busy = 0 /\ Busy' = 0
  BY <1>1, <1>2, InvParts DEF WorkerInv, Idle, Busy
<1>6. h = Done + 1 /\ h <= LastId
  BY <1>4, <1>5, InvParts DEF OrderInv
<1>7. /\ Done' = Done + 1 /\ LastId' = LastId /\ Len(ready') = Len(ready) + 1
      /\ TableType' /\ TableInv' /\ ready' \in Seq(Requests)
      /\ \A i \in 1..Len(ready') : ready'[i] = delivered' + i
      /\ Total(held', MaxQueueBytes, queueBytes')
      /\ Total(reservation', MaxResultBytes, resultBytes')
  BY <1>1, <1>2, <1>4, <1>6, CompleteKeeps
<1>8. OrderInv'
  <2>1. /\ Len(pending) \in Nat /\ Done \in Nat
        /\ \A i \in 1..Len(pending) : pending[i] = Done + Busy + i
        /\ LastId = Done + Busy + Len(pending)
    BY InvParts DEF OrderInv
  <2>2. \A i \in 1..(Len(pending) - 1) : pending'[i] = (Done + 1) + 0 + i
    BY <1>4, <1>5, <2>1
  <2>3. LastId = (Done + 1) + 0 + (Len(pending) - 1)
    BY <1>5, <2>1
  <2> QED  BY <1>2, <1>4, <1>5, <1>7, <2>2, <2>3 DEF OrderInv
<1>9. CounterInv'
  <2>1. inflight' = Len(ready') + Busy' + Len(pending')
    BY <1>2, <1>4, <1>5, <1>7, Counters, InvParts
  <2> QED  BY <1>7, <2>1 DEF CounterInv
<1>10. FlagType' /\ ListType' /\ JobType' /\ WireType' /\ EffectType'
  <2>1. FlagType'
    BY <1>2, <1>3, InvParts, Zenon DEF FlagType
  <2>2. ListType'
    BY <1>4, <1>7 DEF ListType
  <2>3. result' \in [Requests -> Statuses]
    BY <1>1, Tables DEF Statuses
  <2>4. JobType'
    BY <1>2, <1>3, <2>3, InvParts DEF JobType
  <2>5. WireType' /\ EffectType'
    BY <1>2, InvParts DEF WireType, EffectType, socketVars, opVars
  <2> QED  BY <2>1, <2>2, <2>4, <2>5
<1>11. WorkerInv'
  BY <1>1, <1>2, <1>3, InvParts DEF WorkerInv, Idle
<1>12. WireInv'
  BY <1>1, <1>2, QuietWire, InvParts DEF Draining
<1>13. ASSUME NEW r \in Requests PROVE EffectAt(r)'
  <2>1. EffectAt(r)
    BY DEF Inv
  <2>2. Unsent(r)' = Unsent(r) /\ AtMostOnce(r)' = AtMostOnce(r) /\ operation'[r] = operation[r]
    BY <1>2, <1>3 DEF Unsent, AtMostOnce
  <2>3. r # running /\ r # running'
    BY <1>2, <1>5, Ids
  <2>4. CASE r = h
    <3>1. Unsent(r) /\ result'[r] = "STOPPED"
      BY <1>1, <1>4, <1>6, <2>1, <2>3, <2>4, InvParts, Tables DEF EffectAt
    <3>2. Truth(r)'
      BY <2>2, <3>1 DEF Truth, Unsent, AtMostOnce
    <3> QED  BY <2>2, <2>3, <3>1, <3>2 DEF EffectAt
  <2>5. CASE r # h
    <3>1. Truth(r)' = Truth(r)
      BY <1>1, <2>2, <2>5, Tables, <1>2, <1>3 DEF Truth, Unsent, AtMostOnce
    <3>2. (r <= Done + 1 <=> r <= Done) /\ (r > Done + 1 <=> r > Done)
      BY <1>6, <2>5, InvParts, Ids
    <3> QED  BY <1>7, <2>1, <2>2, <2>3, <3>1, <3>2 DEF EffectAt
  <2> QED  BY <2>4, <2>5
<1> QED  BY <1>7, <1>8, <1>9, <1>10, <1>11, <1>12, <1>13 DEF Inv

\* The request that was run becomes ready.
LEMMA PublishKeeps ==
  ASSUME Inv, Publish PROVE Inv'
<1>1. worker = "publishing" /\ worker' = "waiting" /\ running' = 0 /\ Complete(running)
  BY DEF Publish
<1>2. UNCHANGED <<nextId, operation, reservation, resultBytes, inflight, pending, delivered,
                  told, stopVars, result, cancelled, posted, socketVars, opVars, applied>>
  BY DEF Publish
<1>3. UNCHANGED <<stopping, stopped, stopper, finished, late>>
  BY <1>2 DEF stopVars, opVars, socketVars
<1>4. running \in Requests /\ Busy = 1 /\ Busy' = 0
  BY <1>1, InvParts DEF WorkerInv, Idle, Busy, JobType
<1>5. running = Done + 1 /\ running <= LastId
  BY <1>4, InvParts, Ids DEF OrderInv
<1>6. /\ Done' = Done + 1 /\ LastId' = LastId /\ Len(ready') = Len(ready) + 1
      /\ TableType' /\ TableInv' /\ ready' \in Seq(Requests)
      /\ \A i \in 1..Len(ready') : ready'[i] = delivered' + i
      /\ Total(held', MaxQueueBytes, queueBytes')
      /\ Total(reservation', MaxResultBytes, resultBytes')
  BY <1>1, <1>2, <1>4, <1>5, CompleteKeeps
<1>7. OrderInv'
  <2>1. /\ Len(pending) \in Nat /\ Done \in Nat
        /\ \A i \in 1..Len(pending) : pending[i] = Done + Busy + i
        /\ LastId = Done + Busy + Len(pending)
    BY InvParts DEF OrderInv
  <2>2. \A i \in 1..Len(pending) : pending[i] = (Done + 1) + 0 + i
    BY <1>4, <2>1
  <2>3. LastId = (Done + 1) + 0 + Len(pending)
    BY <1>4, <2>1
  <2> QED  BY <1>1, <1>2, <1>4, <1>6, <2>2, <2>3 DEF OrderInv
<1>8. CounterInv'
  <2>1. inflight' = Len(ready') + Busy' + Len(pending')
    <3>1. inflight' = inflight /\ Len(pending') = Len(pending)
      BY <1>2
    <3> QED  BY <1>4, <1>6, <3>1, Counters, InvParts
  <2> QED  BY <1>6, <2>1 DEF CounterInv
<1>9. FlagType' /\ ListType' /\ JobType' /\ WireType' /\ EffectType'
  <2>1. FlagType'
    BY <1>2, <1>3, InvParts, Zenon DEF FlagType
  <2>2. ListType'
    BY <1>2, <1>6, InvParts DEF ListType
  <2>3. JobType'
    BY <1>1, <1>2, <1>3, InvParts DEF JobType, Places
  <2>4. WireType' /\ EffectType'
    BY <1>2, InvParts DEF WireType, EffectType, socketVars, opVars
  <2> QED  BY <2>1, <2>2, <2>3, <2>4
<1>10. WorkerInv'
  BY <1>1, <1>2, <1>3, InvParts DEF WorkerInv, Idle
<1>11. WireInv'
  BY <1>1, <1>2, QuietWire, InvParts DEF Draining
<1>12. ASSUME NEW r \in Requests PROVE EffectAt(r)'
  <2>1. EffectAt(r)
    BY DEF Inv
  <2>2. Unsent(r)' = Unsent(r) /\ Truth(r)' = Truth(r) /\ operation'[r] = operation[r]
    BY <1>2, <1>3 DEF Unsent, Truth, AtMostOnce
  <2>3. (r <= Done + 1 <=> r <= Done \/ r = running) /\ (r > Done + 1 <=> r > Done /\ r # running)
    BY <1>5, InvParts, Ids
  <2>4. r # running'
    BY <1>1, Ids
  <2> QED  BY <1>1, <1>6, <2>1, <2>2, <2>3, <2>4 DEF EffectAt
<1> QED  BY <1>6, <1>7, <1>8, <1>9, <1>10, <1>11, <1>12 DEF Inv
-----------------------------------------------------------------------------
\* Where the worker is before the command of its request is begun.
Early == {"starting", "connecting", "auth", "authenticating", "formatting", "command"}

\* What is known of the effect of the request that runs.
RunningEffect ==
  /\ operation[running] # "WRITE" => Unsent(running)
  /\ worker \notin {"commanding", "publishing"} => Unsent(running)
  /\ worker = "publishing" => Truth(running)
  /\ worker = "commanding" => BegunEffect(running)

\* The running request.
LEMMA RunningFacts ==
  ASSUME Inv, worker \notin Idle
  PROVE  /\ running \in Requests /\ running # 0 /\ running = Done + 1 /\ running > Done
         /\ operation[running] \in {"GET", "WRITE"}
         /\ Writes(running) <=> operation[running] = "WRITE"
         /\ AtMostOnce(running) /\ RunningEffect
         /\ worker \in Early => Unsent(running)
<1>1. running \in Requests /\ running # 0
  BY InvParts, Ids DEF WorkerInv, JobType
<1>2. running = Done + 1 /\ running > Done /\ running <= LastId
  BY <1>1, InvParts, Ids DEF OrderInv, Busy
<1>3. operation[running] \in {"GET", "WRITE"}
  <2>1. operation[running] # "none"
    BY <1>1, <1>2, InvParts, Ids DEF TableInv
  <2> QED  BY <1>1, <2>1, Tables
<1>4. EffectAt(running)
  BY <1>1 DEF Inv
<1>5. RunningEffect
  BY <1>2, <1>4 DEF EffectAt, RunningEffect
<1>6. AtMostOnce(running)
  BY <1>5, InvParts DEF RunningEffect, Truth, BegunEffect, Unsent, AtMostOnce
<1>7. worker \in Early => Unsent(running)
  BY <1>5 DEF RunningEffect, Early
<1> QED  BY <1>1, <1>2, <1>3, <1>5, <1>6, <1>7 DEF Writes, AUTH

\* A step of the connection touches the running request only.
LEMMA ConnectionStep ==
  ASSUME Inv, worker \notin Idle, worker' \in Places \ Idle, running' = running,
         UNCHANGED <<tableVars, listVars, stopVars, cancelled>>,
         \A r \in Requests \ {running} :
           result'[r] = result[r] /\ applied'[r] = applied[r] /\ (r \in late' <=> r \in late),
         result' \in [Requests -> Statuses], posted' \in BOOLEAN, finished' \in BOOLEAN,
         EffectType', WireType', WireInv', RunningEffect'
  PROVE  Inv'
<1>1. UNCHANGED <<pending, ready, delivered, told, stopping, stopped, stopper, operation>>
  BY DEF listVars, stopVars, tableVars
<1>2. /\ TableType' /\ ListType' /\ OrderInv' /\ TableInv' /\ CounterInv' /\ Done' = Done
  BY <1>1, TableKept
<1>3. FlagType'
  BY <1>1, InvParts, Zenon DEF FlagType
<1>4. JobType'
  BY <1>1, InvParts DEF JobType
<1>5. WorkerInv'
  BY <1>1, InvParts DEF WorkerInv, Idle
<1>6. ASSUME NEW r \in Requests PROVE EffectAt(r)'
  <2>1. EffectAt(r)
    BY DEF Inv
  <2>2. CASE r = running
    BY <1>2, <2>2, RunningFacts, InvParts, Ids DEF EffectAt, RunningEffect
  <2>3. CASE r # running
    <3>1. Unsent(r)' = Unsent(r) /\ Truth(r)' = Truth(r)
      BY <1>1, <2>3 DEF Unsent, Truth, AtMostOnce
    <3> QED  BY <1>1, <1>2, <2>1, <2>3, <3>1 DEF EffectAt
  <2> QED  BY <2>2, <2>3
<1> QED  BY <1>2, <1>3, <1>4, <1>5, <1>6 DEF Inv

\* Closing the connection puts the write that is on its way out of reach.
LEMMA CloseFacts ==
  ASSUME Inv, close
  PROVE  /\ socket' = "closed" /\ wire' = <<>> /\ replies' = <<>>
         /\ late' = IF wire # <<>> /\ Writes(CurrentCommand) THEN late \cup {CurrentCommand} ELSE late
<1>1. wire = <<>> \/ wire = <<CurrentCommand>>
  BY InvParts DEF WireInv, WireType, OnTheWay
<1>2. CASE wire = <<>>
  BY <1>2 DEF close
<1>3. CASE wire = <<CurrentCommand>>
  <2>1. DOMAIN wire = {1} /\ wire[1] = CurrentCommand /\ wire # <<>>
    BY <1>3
  <2>2. {j \in DOMAIN wire : Writes(wire[j])} = IF Writes(CurrentCommand) THEN {1} ELSE {}
    BY <2>1
  <2> QED  BY <2>1, <2>2 DEF close
<1> QED  BY <1>1, <1>2, <1>3

\* Between operations nothing is on the connection.
LEMMA IdleWire ==
  ASSUME Inv, io = "idle"
  PROVE  wire = <<>> /\ replies = <<>> /\ (UNCHANGED socketVars \/ close => wire' = <<>> /\ replies' = <<>> /\ late' = late)
<1>1. wire = <<>> /\ replies = <<>>
  BY InvParts DEF WireInv
<1> QED  BY <1>1, CloseFacts DEF socketVars

\* An answer that tells the truth, given between operations, keeps the invariant.
LEMMA AnswerStep ==
  ASSUME Inv, worker \notin Idle, io = "idle", finished, NEW s \in Statuses, Answer(s),
         UNCHANGED socketVars \/ close, UNCHANGED <<io, finished>>,
         status' \in Statuses, status' # "OUTCOME_UNKNOWN", reply' \in Replies, posted' \in BOOLEAN,
         requestUnchanged,
         operation[running] = "GET" => s # "OUTCOME_UNKNOWN",
         operation[running] = "WRITE" /\ s = "OK" => applied[running] = 1,
         operation[running] = "WRITE" /\ s \notin {"OK", "OUTCOME_UNKNOWN"} => Unsent(running)
  PROVE  Inv'
<1>1. /\ worker' = "publishing" /\ running' = running
      /\ result' = [result EXCEPT ![running] = s]
      /\ UNCHANGED <<tableVars, listVars, stopVars, cancelled, applied, operation>>
  BY DEF Answer, requestUnchanged, tableVars
<1>2. running \in Requests /\ AtMostOnce(running) /\ RunningEffect
  BY RunningFacts
<1>3. /\ result' \in [Requests -> Statuses] /\ result'[running] = s
      /\ \A r \in Requests \ {running} : result'[r] = result[r]
  BY <1>1, <1>2, Tables
<1>4. wire' = <<>> /\ replies' = <<>> /\ late' = late /\ socket' \in {"open", "closed"}
  BY IdleWire, CloseFacts, InvParts DEF socketVars, WireType
<1>5. WireType'
  BY <1>4, InvParts DEF WireType
<1>6. WireInv'
  BY <1>1, <1>4 DEF WireInv, Draining, Commanding
<1>7. Truth(running)'
  BY <1>1, <1>2, <1>3, <1>4 DEF Truth, AtMostOnce, Unsent
<1>8. RunningEffect'
  BY <1>1, <1>2, <1>4, <1>7 DEF RunningEffect, Unsent
<1>9. finished' \in BOOLEAN
  BY InvParts, Zenon DEF FlagType
<1>10. EffectType' /\ worker' \in Places \ Idle
  BY <1>1, InvParts DEF EffectType, Places, Idle
<1> QED  BY <1>1, <1>3, <1>4, <1>5, <1>6, <1>8, <1>9, <1>10, ConnectionStep

\* A step that goes on to the next place, before the command is begun or to
\* begin it, keeps the invariant.
LEMMA GoStep ==
  ASSUME Inv, worker \in Early, io = "idle", finished,
         NEW place \in Early \cup {"commanding"}, GoTo(place),
         UNCHANGED socketVars, requestUnchanged, posted' = posted,
         io' \in {"idle", "writing"}, status' \in Statuses, status' # "OUTCOME_UNKNOWN", reply' \in Replies,
         \/ finished' = TRUE /\ io' = "idle" /\ place \in {"auth", "formatting", "command"}
         \/ finished' = FALSE /\ io' = "idle" /\ place = "connecting"
         \/ finished' = FALSE /\ io' = "writing" /\ place \in {"authenticating", "commanding"}
  PROVE  Inv'
<1>1. /\ worker' = place /\ UNCHANGED <<running, result>>
      /\ UNCHANGED <<tableVars, listVars, stopVars, cancelled, applied, operation>>
      /\ UNCHANGED <<socket, wire, replies, late>>
  BY DEF GoTo, requestUnchanged, tableVars, socketVars
<1>2. /\ worker \notin Idle /\ worker' \in Places \ Idle
  BY <1>1 DEF Early, Idle, Places
<1>3. running \in Requests /\ Unsent(running)
  BY <1>2, RunningFacts
<1>4. WireType' /\ EffectType' /\ wire' = <<>> /\ replies' = <<>>
  BY <1>1, IdleWire, InvParts DEF WireType, EffectType
<1>5. WireInv'
  BY <1>1, <1>4 DEF WireInv, Draining, Commanding
<1>6. RunningEffect'
  BY <1>1, <1>3, <1>4 DEF RunningEffect, Unsent, BegunEffect, AtMostOnce, Early
<1>7. finished' \in BOOLEAN /\ posted' \in BOOLEAN
  BY InvParts, Zenon DEF FlagType
<1>8. result' \in [Requests -> Statuses]
  BY <1>1, Tables
<1> QED  BY <1>1, <1>2, <1>4, <1>5, <1>6, <1>7, <1>8, ConnectionStep
\* Between operations the socket is idle.
LEMMA AtRest ==
  ASSUME Inv, finished \/ ~Draining
  PROVE  finished /\ io = "idle"
BY InvParts DEF WireInv, Commanding, Draining

\* What the operations hold between them.
LEMMA OpTypes ==
  ASSUME Inv
  PROVE  /\ status \in Statuses /\ status # "OUTCOME_UNKNOWN" /\ reply \in Replies
         /\ NoReply \in Replies /\ posted \in BOOLEAN
         /\ {"OK", "STOPPED", "TIMEOUT", "IO_ERROR", "INTERNAL_ERROR", "RESULT_TOO_LARGE",
             "OUTCOME_UNKNOWN"} \subseteq Statuses
<1>1. status \in Statuses /\ status # "OUTCOME_UNKNOWN" /\ reply \in Replies
  BY InvParts DEF WireType, WireInv
<1>2. NoReply \in Replies
  BY DEF NoReply, Replies
<1>3. posted \in BOOLEAN
  BY InvParts, Zenon DEF FlagType
<1> QED  BY <1>1, <1>2, <1>3 DEF Statuses

\* Before the command is begun, any plain status is a true answer.
LEMMA EarlyAnswer ==
  ASSUME Inv, worker \in Early, finished, NEW s \in Statuses, Answer(s),
         s \notin {"OK", "OUTCOME_UNKNOWN"} \/ (s = "OUTCOME_UNKNOWN" /\ Writes(running)),
         UNCHANGED socketVars \/ close, UNCHANGED <<io, finished>>,
         status' \in Statuses, status' # "OUTCOME_UNKNOWN", reply' \in Replies, posted' \in BOOLEAN,
         requestUnchanged
  PROVE  Inv'
<1>1. io = "idle"
  BY AtRest
<1>2. worker \notin Idle
  BY DEF Early, Idle
<1>3. Unsent(running) /\ operation[running] \in {"GET", "WRITE"}
      /\ (Writes(running) <=> operation[running] = "WRITE")
  BY <1>2, RunningFacts
<1>4. /\ operation[running] = "GET" => s # "OUTCOME_UNKNOWN"
      /\ operation[running] = "WRITE" /\ s = "OK" => applied[running] = 1
      /\ operation[running] = "WRITE" /\ s \notin {"OK", "OUTCOME_UNKNOWN"} => Unsent(running)
  BY <1>3
<1> QED  BY <1>1, <1>2, <1>4, AnswerStep

\* execute() begins.
LEMMA StartKeeps ==
  ASSUME Inv, Start PROVE Inv'
<1>1. /\ worker = "starting" /\ worker \in Early /\ finished /\ io = "idle"
      /\ requestUnchanged /\ UNCHANGED <<posted, socketVars>>
  BY AtRest DEF Start, Early, Draining
<1>2. CASE Answer("STOPPED") /\ UNCHANGED opVars
  BY <1>1, <1>2, EarlyAnswer, OpTypes DEF opVars
<1>3. CASE GoTo("formatting") /\ UNCHANGED opVars
  BY <1>1, <1>3, GoStep, OpTypes DEF opVars, Early
<1>4. CASE GoTo("connecting") /\ begin("idle") /\ UNCHANGED reply
  BY <1>1, <1>4, GoStep, OpTypes DEF begin, Early
<1> QED  BY <1>2, <1>3, <1>4 DEF Start

\* connect() returns.
LEMMA ConnectReturnsKeeps ==
  ASSUME Inv, ConnectReturns PROVE Inv'
<1>1. /\ worker = "connecting" /\ worker \in Early /\ finished /\ io = "idle"
      /\ requestUnchanged /\ UNCHANGED posted /\ UNCHANGED <<io, finished>>
      /\ status' = "OK" /\ reply' = NoReply
  BY AtRest DEF ConnectReturns, Early, Drained, Judged
<1>2. CASE close /\ Answer("STOPPED")
  BY <1>1, <1>2, EarlyAnswer, OpTypes
<1>3. CASE status # "OK" /\ Answer(status) /\ UNCHANGED socketVars
  BY <1>1, <1>3, EarlyAnswer, OpTypes
<1>4. CASE UNCHANGED socketVars /\ GoTo(IF HasPassword THEN "auth" ELSE "formatting")
  <2>1. PICK place \in {"auth", "formatting"} : GoTo(place)
    BY <1>4
  <2> QED  BY <1>1, <1>4, <2>1, GoStep, OpTypes DEF Early
<1> QED  BY <1>2, <1>3, <1>4 DEF ConnectReturns

\* The AUTH command is begun, or not.
LEMMA AuthenticateKeeps ==
  ASSUME Inv, Authenticate PROVE Inv'
<1>1. /\ worker = "auth" /\ worker \in Early /\ finished /\ io = "idle"
      /\ requestUnchanged /\ UNCHANGED posted
  BY AtRest DEF Authenticate, Early, Draining
<1>2. CASE close /\ Answer("STOPPED") /\ UNCHANGED opVars
  BY <1>1, <1>2, EarlyAnswer, OpTypes DEF opVars
<1>3. CASE close /\ Answer("INTERNAL_ERROR") /\ UNCHANGED opVars
  BY <1>1, <1>3, EarlyAnswer, OpTypes DEF opVars
<1>4. CASE GoTo("authenticating") /\ begin("writing") /\ reply' = NoReply /\ UNCHANGED socketVars
  BY <1>1, <1>4, GoStep, OpTypes DEF begin, Early
<1> QED  BY <1>2, <1>3, <1>4 DEF Authenticate

\* The reply to AUTH is judged.
LEMMA AuthReturnsKeeps ==
  ASSUME Inv, AuthReturns PROVE Inv'
<1>1. /\ worker = "authenticating" /\ worker \in Early /\ finished /\ io = "idle"
      /\ requestUnchanged /\ UNCHANGED posted /\ UNCHANGED <<io, finished>>
      /\ status' = "OK" /\ reply' = NoReply
  BY AtRest DEF AuthReturns, Early, Drained, Judged
<1>2. CASE status # "OK" /\ close /\ Answer(status)
  BY <1>1, <1>2, EarlyAnswer, OpTypes
<1>3. CASE close /\ Answer("IO_ERROR")
  BY <1>1, <1>3, EarlyAnswer, OpTypes
<1>4. CASE GoTo("formatting") /\ UNCHANGED socketVars
  BY <1>1, <1>4, GoStep, OpTypes DEF Early
<1> QED  BY <1>2, <1>3, <1>4 DEF AuthReturns

\* The command is formatted, or refused.
LEMMA FormatKeeps ==
  ASSUME Inv, Format PROVE Inv'
<1>1. /\ worker = "formatting" /\ worker \in Early /\ finished /\ io = "idle"
      /\ requestUnchanged /\ UNCHANGED <<posted, socketVars, opVars>>
  BY AtRest DEF Format, Early, Draining
<1>2. CASE Answer("STOPPED")
  BY <1>1, <1>2, EarlyAnswer, OpTypes DEF opVars
<1>3. CASE GoTo("command")
  BY <1>1, <1>3, GoStep, OpTypes DEF opVars, Early
<1> QED  BY <1>2, <1>3 DEF Format

\* What a failure of the command is reported as.
LEMMA OutcomeFacts ==
  ASSUME Inv, NEW s \in Statuses, s \notin {"OK", "OUTCOME_UNKNOWN"}
  PROVE  /\ OutcomeOf(s) \in Statuses /\ OutcomeOf(s) # "OK"
         /\ OutcomeOf(s) = "OUTCOME_UNKNOWN" <=> Writes(running)
BY OpTypes DEF OutcomeOf

\* The command is begun, or not.
LEMMA CommandKeeps ==
  ASSUME Inv, Command PROVE Inv'
<1>1. /\ worker = "command" /\ worker \in Early /\ finished /\ io = "idle"
      /\ requestUnchanged /\ UNCHANGED <<posted, socketVars>>
  BY AtRest DEF Command, Early, Draining
<1>2. CASE Answer(OutcomeOf("STOPPED")) /\ UNCHANGED opVars
  BY <1>1, <1>2, EarlyAnswer, OutcomeFacts, OpTypes DEF opVars
<1>3. CASE Answer(OutcomeOf("INTERNAL_ERROR")) /\ UNCHANGED opVars
  BY <1>1, <1>3, EarlyAnswer, OutcomeFacts, OpTypes DEF opVars
<1>4. CASE GoTo("commanding") /\ begin("writing") /\ reply' = NoReply
  BY <1>1, <1>4, GoStep, OpTypes DEF begin
<1> QED  BY <1>2, <1>3, <1>4 DEF Command

\* How the reply of the command is judged.
LEMMA CommandReturnsKeeps ==
  ASSUME Inv, CommandReturns PROVE Inv'
<1>1. /\ worker = "commanding" /\ worker \notin Idle /\ finished /\ io = "idle"
      /\ requestUnchanged /\ UNCHANGED posted /\ UNCHANGED <<io, finished>>
      /\ status' = "OK" /\ reply' = NoReply /\ posted' \in BOOLEAN
  BY AtRest, OpTypes DEF CommandReturns, Idle, Drained, Judged
<1>2. /\ operation[running] \in {"GET", "WRITE"} /\ (Writes(running) <=> operation[running] = "WRITE")
      /\ status = "OK" /\ operation[running] = "WRITE" =>
           Replied(running, reply.kind) /\ reply.kind # "large"
  <2>1. CurrentCommand = running /\ Commanding
    BY <1>1 DEF CurrentCommand, Commanding
  <2> QED  BY <1>1, <2>1, RunningFacts, InvParts DEF RunningEffect, BegunEffect, WireInv
<1>3. CASE status # "OK" /\ Answer(OutcomeOf(status)) /\ UNCHANGED socketVars
  BY <1>1, <1>2, <1>3, AnswerStep, OutcomeFacts, OpTypes
<1>4. CASE status = "OK" /\ reply.kind = "error" /\ Answer("IO_ERROR") /\ UNCHANGED socketVars
  <2>1. operation[running] = "WRITE" => Unsent(running)
    BY <1>2, <1>4 DEF Replied, Unsent
  <2> QED  BY <1>1, <1>4, <2>1, AnswerStep, OpTypes
<1>5. CASE status = "OK" /\ close /\ Answer(OutcomeOf("IO_ERROR"))
  BY <1>1, <1>2, <1>5, AnswerStep, OutcomeFacts, OpTypes
<1>6. CASE status = "OK" /\ reply.kind = "large" /\ Answer("RESULT_TOO_LARGE") /\ UNCHANGED socketVars
  BY <1>1, <1>2, <1>6, AnswerStep, OpTypes
<1>7. CASE status = "OK" /\ reply.kind = "ok" /\ Answer("OK") /\ UNCHANGED socketVars
  <2>1. operation[running] = "WRITE" => applied[running] = 1
    BY <1>2, <1>7 DEF Replied
  <2> QED  BY <1>1, <1>7, <2>1, AnswerStep, OpTypes
<1> QED  BY <1>3, <1>4, <1>5, <1>6, <1>7 DEF CommandReturns

\* An exception in execute().
LEMMA LocalFailureKeeps ==
  ASSUME Inv, LocalFailure PROVE Inv'
<1>1. /\ close /\ posted' = FALSE /\ requestUnchanged /\ UNCHANGED <<io, finished>>
      /\ status' = "OK" /\ reply' = NoReply
  BY DEF LocalFailure, Judged
<1>2. posted' \in BOOLEAN
  BY <1>1, Zenon
<1>3. CASE worker \in {"starting", "auth", "formatting"} /\ Answer("INTERNAL_ERROR")
  <2>1. worker \in Early /\ finished
    BY <1>3, AtRest DEF Early, Draining
  <2> QED  BY <1>1, <1>2, <1>3, <2>1, EarlyAnswer, OpTypes
<1>4. CASE worker = "command" /\ Answer(OutcomeOf("INTERNAL_ERROR"))
  <2>1. worker \in Early /\ finished
    BY <1>4, AtRest DEF Early, Draining
  <2> QED  BY <1>1, <1>2, <1>4, <2>1, EarlyAnswer, OutcomeFacts, OpTypes
<1>5. CASE worker = "commanding" /\ Drained /\ ~Writes(running) /\ Answer("INTERNAL_ERROR")
  <2>1. worker \notin Idle /\ finished /\ io = "idle"
    BY <1>5, AtRest DEF Idle, Drained
  <2>2. operation[running] # "WRITE"
    BY <1>5, <2>1, RunningFacts
  <2> QED  BY <1>1, <1>2, <1>5, <2>1, <2>2, AnswerStep, OpTypes
<1> QED  BY <1>3, <1>4, <1>5 DEF LocalFailure
-----------------------------------------------------------------------------
\* An operation that ends with a failure closes the connection: what was sent
\* of it is out of reach.
LEMMA FinishKeeps ==
  ASSUME Inv, Draining, NEW s \in Statuses \ {"OK", "OUTCOME_UNKNOWN"}, finish(s),
         requestUnchanged, UNCHANGED <<jobVars, reply>>, posted' \in BOOLEAN
  PROVE  Inv'
<1>1. /\ ~finished /\ finished' = TRUE /\ status' = s /\ io' = "idle" /\ close
      /\ UNCHANGED <<worker, running, result>>
      /\ UNCHANGED <<tableVars, listVars, stopVars, cancelled, applied, operation>>
  BY DEF finish, requestUnchanged, jobVars, tableVars
<1>2. worker \notin Idle /\ worker' \in Places \ Idle
  BY <1>1 DEF Draining, Idle, Places
<1>3. /\ socket' = "closed" /\ wire' = <<>> /\ replies' = <<>>
      /\ late' = IF wire # <<>> /\ Writes(CurrentCommand) THEN late \cup {CurrentCommand} ELSE late
  BY <1>1, CloseFacts
<1>4. running \in Requests /\ AtMostOnce(running) /\ RunningEffect
      /\ (Writes(running) <=> operation[running] = "WRITE")
  BY <1>2, RunningFacts
<1>5. CurrentCommand \in {AUTH, running} /\ (Writes(CurrentCommand) => CurrentCommand = running /\ worker # "authenticating")
  BY <1>4, Ids DEF CurrentCommand, Writes, AUTH
<1>6. Writes(CurrentCommand) /\ wire # <<>> => worker = "commanding" /\ Unsent(running)
  <2>1. wire # <<>> => Commanding
    BY InvParts DEF WireInv, WireType
  <2> QED  BY <1>4, <1>5, <2>1 DEF Commanding, RunningEffect, BegunEffect
<1>7. WireType' /\ EffectType'
  BY <1>1, <1>3, <1>4, <1>5, InvParts DEF WireType, EffectType
<1>8. WireInv'
  BY <1>1, <1>3 DEF WireInv, Draining, Commanding
<1>9. AtMostOnce(running)'
  BY <1>1, <1>3, <1>4, <1>5, <1>6 DEF AtMostOnce, Unsent
<1>10. RunningEffect'
  <2>1. operation[running] # "WRITE" \/ worker # "commanding" => late' = late
    BY <1>3, <1>4, <1>5, <1>6
  <2>2. worker # "publishing"
    BY DEF Draining
  <2>3. BegunEffect(running)'
    BY <1>1, <1>3, <1>9 DEF BegunEffect
  <2> QED  BY <1>1, <1>4, <2>1, <2>2, <2>3 DEF RunningEffect, Unsent
<1>11. finished' \in BOOLEAN /\ result' \in [Requests -> Statuses]
  BY <1>1, Tables
<1>12. \A r \in Requests \ {running} : r \in late' <=> r \in late
  BY <1>3, <1>5
<1> QED  BY <1>1, <1>2, <1>7, <1>8, <1>10, <1>11, <1>12, ConnectionStep
\* Failures of an operation, and its deadline.
LEMMA FailuresKeep ==
  ASSUME Inv, ConnectFails \/ Timeout \/ TransferFails PROVE Inv'
<1>1. PICK s \in {"IO_ERROR", "TIMEOUT", "RESULT_TOO_LARGE", "INTERNAL_ERROR"} : finish(s)
  BY DEF ConnectFails, Timeout, TransferFails
<1>2. Draining /\ requestUnchanged /\ UNCHANGED <<jobVars, posted, reply>>
  BY DEF ConnectFails, Timeout, TransferFails, Draining, Commanding
<1> QED  BY <1>1, <1>2, FinishKeeps, OpTypes

\* A step inside drain() that changes neither the request nor its effects.
LEMMA DrainStep ==
  ASSUME Inv, Draining, requestUnchanged, UNCHANGED jobVars, late' = late,
         posted' \in BOOLEAN, finished' \in BOOLEAN, WireType', WireInv', RunningEffect'
  PROVE  Inv'
<1>1. /\ UNCHANGED <<worker, running, result>>
      /\ UNCHANGED <<tableVars, listVars, stopVars, cancelled, applied>>
  BY DEF requestUnchanged, jobVars
<1>2. worker \notin Idle /\ worker' \in Places \ Idle
  BY <1>1 DEF Draining, Idle, Places
<1>3. EffectType' /\ result' \in [Requests -> Statuses]
  BY <1>1, Tables, InvParts DEF EffectType
<1> QED  BY <1>1, <1>2, <1>3, ConnectionStep

\* Before the command is begun its effect is not in question.
LEMMA EarlyEffect ==
  ASSUME Inv, worker \in Early, UNCHANGED <<worker, running, operation, applied, late>>
  PROVE  RunningEffect'
<1>1. Unsent(running)
  BY RunningFacts DEF Early, Idle
<1> QED  BY <1>1 DEF RunningEffect, Unsent, Early

\* The connection is made.
LEMMA ConnectedKeeps ==
  ASSUME Inv, Connected PROVE Inv'
<1>1. /\ worker = "connecting" /\ finished' = TRUE /\ status' = "OK" /\ socket' = "open"
      /\ requestUnchanged /\ UNCHANGED <<jobVars, posted, wire, replies, late, io, reply>>
  BY DEF Connected
<1>2. UNCHANGED <<worker, running, operation, applied>> /\ io = "idle"
  BY <1>1, InvParts DEF jobVars, requestUnchanged, tableVars, WireInv, Commanding
<1>3. WireType'
  BY <1>1, InvParts, OpTypes DEF WireType
<1>4. WireInv'
  BY <1>1, <1>2, InvParts DEF WireInv, Draining, Commanding
<1>5. RunningEffect'
  BY <1>1, <1>2, EarlyEffect DEF Early
<1> QED  BY <1>1, <1>3, <1>4, <1>5, DrainStep, OpTypes DEF Draining

\* The handler of cancel() ends the operation, or closes the connection of one
\* that has ended.
LEMMA CancelRunsKeeps ==
  ASSUME Inv, CancelRuns PROVE Inv'
<1>1. Draining /\ posted' = FALSE /\ requestUnchanged /\ UNCHANGED <<jobVars, reply>>
  BY DEF CancelRuns
<1>2. posted' \in BOOLEAN
  BY <1>1, Zenon
<1>3. CASE finish("STOPPED")
  BY <1>1, <1>2, <1>3, FinishKeeps, OpTypes
<1>4. CASE finished /\ close /\ UNCHANGED <<io, finished, status>>
  <2>1. io = "idle"
    BY <1>4, AtRest
  <2>2. /\ socket' = "closed" /\ wire' = <<>> /\ replies' = <<>> /\ late' = late
        /\ wire = <<>> /\ replies = <<>>
    BY <1>4, <2>1, CloseFacts, IdleWire
  <2>3. UNCHANGED <<worker, running, operation, applied>>
    BY <1>1 DEF jobVars, requestUnchanged, tableVars
  <2>4. WireType' /\ finished' \in BOOLEAN
    BY <1>1, <1>4, <2>2, InvParts DEF WireType
  <2>5. CurrentCommand' = CurrentCommand /\ Writes(CurrentCommand)' = Writes(CurrentCommand)
    BY <2>3 DEF CurrentCommand, Writes
  <2>6. WireInv'
    BY <1>1, <1>4, <2>1, <2>2, <2>3, <2>5, InvParts DEF WireInv, Draining, Commanding
  <2>7. RunningEffect'
    <3>1. worker \notin Idle /\ worker # "publishing"
      BY <1>1 DEF Draining, Idle
    <3>2. RunningEffect
      BY <3>1, RunningFacts
    <3> QED
      BY <1>1, <1>4, <2>1, <2>2, <2>3, <3>1, <3>2
         DEF RunningEffect, BegunEffect, Unsent, AtMostOnce, Replied
  <2> QED  BY <1>1, <1>2, <2>2, <2>4, <2>6, <2>7, DrainStep
<1> QED  BY <1>3, <1>4 DEF CancelRuns

\* What the connection carries while a command is under way.
LEMMA UnderWay ==
  ASSUME Inv, io # "idle"
  PROVE  /\ Commanding /\ Draining /\ ~finished /\ worker \notin Idle /\ RunningEffect
         /\ CurrentCommand = AUTH <=> worker = "authenticating"
         /\ worker = "commanding" => CurrentCommand = running
<1>1. Commanding /\ ~finished
  BY InvParts DEF WireInv
<1>2. Draining /\ worker \notin Idle
  BY <1>1 DEF Commanding, Draining, Idle
<1>3. running # 0 /\ RunningEffect
  BY <1>2, RunningFacts
<1> QED  BY <1>1, <1>2, <1>3 DEF CurrentCommand, AUTH, Commanding

\* The write completes.
LEMMA WriteCompletesKeeps ==
  ASSUME Inv, WriteCompletes PROVE Inv'
<1>1. /\ io = "sent" /\ io' = "reading" /\ requestUnchanged
      /\ UNCHANGED <<jobVars, posted, socketVars, finished, status, reply>>
  BY DEF WriteCompletes
<1>2. /\ UNCHANGED <<worker, running, operation, applied>>
      /\ UNCHANGED <<socket, wire, replies, late>>
  BY <1>1 DEF jobVars, requestUnchanged, tableVars, socketVars
<1>3. CurrentCommand' = CurrentCommand /\ Writes(CurrentCommand)' = Writes(CurrentCommand)
  BY <1>2 DEF CurrentCommand, Writes
<1>4. OnTheWay'
  BY <1>1, <1>2, <1>3, InvParts DEF OnTheWay, WireInv
<1>5. WireType' /\ WireInv'
  BY <1>1, <1>2, <1>4, UnderWay, InvParts DEF WireType, WireInv, Commanding, Draining
<1>6. RunningEffect'
  BY <1>1, <1>2, UnderWay
     DEF RunningEffect, BegunEffect, Unsent, AtMostOnce, Replied, Commanding
<1>7. finished' \in BOOLEAN
  BY <1>1, InvParts, Zenon DEF FlagType
<1> QED  BY <1>1, <1>2, <1>5, <1>6, <1>7, UnderWay, DrainStep, OpTypes

\* The last byte of the command leaves.
LEMMA TransmitKeeps ==
  ASSUME Inv, Transmit PROVE Inv'
<1>1. /\ io = "writing" /\ io' = "sent" /\ requestUnchanged
      /\ wire' = Append(wire, CurrentCommand)
      /\ UNCHANGED <<jobVars, posted, socket, replies, late, finished, status, reply>>
  BY DEF Transmit, CurrentCommand
<1>2. UNCHANGED <<worker, running, operation, applied>>
  BY <1>1 DEF jobVars, requestUnchanged, tableVars
<1>3. wire = <<>> /\ replies = <<>> /\ wire' = <<CurrentCommand>>
  BY <1>1, InvParts DEF WireInv
<1>4. CurrentCommand' = CurrentCommand /\ CurrentCommand \in Requests \cup {AUTH}
  BY <1>2, InvParts DEF CurrentCommand, JobType, AUTH
<1>5. OnTheWay'
  BY <1>1, <1>3, <1>4 DEF OnTheWay
<1>6. WireType'
  BY <1>1, <1>3, <1>4, InvParts DEF WireType
<1>7. WireInv'
  BY <1>1, <1>2, <1>5, UnderWay, InvParts DEF WireInv, Commanding, Draining
<1>8. RunningEffect'
  BY <1>1, <1>2, <1>3, UnderWay
     DEF RunningEffect, BegunEffect, Unsent, AtMostOnce, Replied, Commanding
<1>9. finished' \in BOOLEAN
  BY <1>1, InvParts, Zenon DEF FlagType
<1> QED  BY <1>1, <1>6, <1>7, <1>8, <1>9, UnderWay, DrainStep, OpTypes

\* The reply is read: it is the one of the current command.
LEMMA ReadReplyKeeps ==
  ASSUME Inv, read_reply PROVE Inv'
<1>1. /\ io = "reading" /\ replies # <<>> /\ reply' = Head(replies) /\ replies' = Tail(replies)
      /\ finished' = TRUE /\ status' = "OK" /\ io' = "idle" /\ requestUnchanged
      /\ UNCHANGED <<jobVars, posted, socket, wire, late>>
  BY DEF read_reply
<1>2. UNCHANGED <<worker, running, operation, applied>>
  BY <1>1 DEF jobVars, requestUnchanged, tableVars
<1>3. /\ wire = <<>> /\ Len(replies) = 1 /\ replies[1].to = CurrentCommand
      /\ replies[1].kind = "large" => ~Writes(CurrentCommand)
  BY <1>1, InvParts DEF WireInv, OnTheWay
<1>4. reply' = replies[1] /\ reply' \in Replies /\ replies' = <<>>
  <2>1. replies \in Seq(Replies)
    BY InvParts DEF WireType
  <2>2. /\ Head(replies) \in Replies /\ Head(replies) = replies[1] /\ Tail(replies) \in Seq(Replies)
        /\ Len(Tail(replies)) = 0
    BY <1>1, <1>3, <2>1, TailFacts
  <2> QED  BY <1>1, <2>2
<1>5. CurrentCommand' = CurrentCommand /\ Writes(CurrentCommand)' = Writes(CurrentCommand)
  BY <1>2 DEF CurrentCommand, Writes
<1>6. WireType'
  BY <1>1, <1>4, InvParts, OpTypes DEF WireType
<1>7. WireInv'
  BY <1>1, <1>2, <1>3, <1>4, <1>5 DEF WireInv, Commanding, Draining
<1>8. RunningEffect'
  BY <1>1, <1>2, <1>3, <1>4, UnderWay
     DEF RunningEffect, BegunEffect, Unsent, AtMostOnce, Replied, Commanding
<1> QED  BY <1>1, <1>6, <1>7, <1>8, UnderWay, DrainStep, OpTypes

\* Redis answers the command of the connection and carries it out.
LEMMA ServeKeeps ==
  ASSUME Inv, Serve PROVE Inv'
<1> DEFINE c == Head(wire)
<1>1. PICK kind \in {"ok", "error", "odd", "large"} :
         /\ c = AUTH => kind \in {"ok", "error"}
         /\ kind = "large" => operation[c] = "GET"
         /\ replies' = Append(replies, [to |-> c, kind |-> kind])
         /\ IF Writes(c) /\ kind # "error"
              THEN applied' = [applied EXCEPT ![c] = @ + 1]
              ELSE UNCHANGED applied
  BY DEF Serve
<1>2. /\ wire # <<>> /\ wire' = Tail(wire)
      /\ UNCHANGED <<tableVars, listVars, stopVars, jobVars, cancelled, posted, socket, late, opVars>>
  BY DEF Serve
<1>3. UNCHANGED <<worker, running, result, operation, io, finished, status, reply>>
  BY <1>2 DEF jobVars, opVars, tableVars
<1>4. io # "idle" /\ io \in {"sent", "reading"} /\ wire = <<CurrentCommand>> /\ replies = <<>>
  BY <1>2, InvParts DEF WireInv, WireType, OnTheWay
<1>5. c = CurrentCommand /\ wire' = <<>>
  BY <1>2, <1>4
<1>6. /\ Commanding /\ Draining /\ ~finished /\ worker \notin Idle /\ RunningEffect
      /\ CurrentCommand = AUTH <=> worker = "authenticating"
      /\ worker = "commanding" => CurrentCommand = running
      /\ running \in Requests /\ (Writes(running) <=> operation[running] = "WRITE")
  BY <1>4, UnderWay, RunningFacts
<1>7. c \in Requests \cup {AUTH}
  BY <1>5, InvParts DEF CurrentCommand, JobType, AUTH
<1> HIDE DEF c
<1>8. /\ Len(replies') = 1 /\ replies'[1].to = c /\ replies'[1].kind = kind /\ replies' \in Seq(Replies)
  <2>1. [to |-> c, kind |-> kind] \in Replies
    BY <1>7 DEF Replies
  <2>2. replies' = <<[to |-> c, kind |-> kind]>>
    BY <1>1, <1>4
  <2> QED  BY <2>1, <2>2
<1>9. Writes(c) => c = running /\ worker = "commanding" /\ operation[running] = "WRITE"
  BY <1>5, <1>6 DEF Writes, Commanding
<1>10. kind = "large" => ~Writes(c)
  BY <1>1 DEF Writes
<1>11. /\ EffectType'
       /\ \A r \in Requests \ {running} : applied'[r] = applied[r]
  <2>1. applied \in [Requests -> Nat]
    BY InvParts DEF EffectType
  <2>2. CASE Writes(c) /\ kind # "error"
    BY <1>1, <1>6, <1>9, <2>1, <2>2 DEF EffectType
  <2>3. CASE ~(Writes(c) /\ kind # "error")
    BY <1>1, <2>1, <2>3 DEF EffectType
  <2> QED  BY <2>2, <2>3
<1>12. CurrentCommand' = CurrentCommand /\ Writes(CurrentCommand)' = Writes(CurrentCommand)
  BY <1>3 DEF CurrentCommand, Writes
<1>13. WireType'
  BY <1>2, <1>3, <1>5, <1>8, InvParts DEF WireType
<1>14. WireInv'
  <2>1. OnTheWay'
    BY <1>5, <1>8, <1>10, <1>12 DEF OnTheWay
  <2> QED  BY <1>3, <1>4, <1>6, <2>1, InvParts DEF WireInv, Commanding, Draining
<1>15. RunningEffect'
  <2>1. CASE worker = "commanding" /\ operation[running] = "WRITE"
    <3>1. Unsent(running) /\ Writes(c) /\ c = running
      BY <1>2, <1>4, <1>5, <1>6, <2>1 DEF RunningEffect, BegunEffect
    <3>2. applied'[running] = IF kind = "error" THEN 0 ELSE 1
      <4>1. applied \in [Requests -> Nat] /\ applied[running] = 0
        BY <3>1, InvParts DEF EffectType, Unsent
      <4> QED  BY <1>1, <1>6, <3>1, <4>1
    <3>3. running \notin late'
      BY <1>2, <3>1 DEF Unsent
    <3> QED  BY <1>3, <1>4, <1>5, <1>6, <1>8, <2>1, <3>2, <3>3
                DEF RunningEffect, BegunEffect, AtMostOnce, Replied
  <2>2. CASE worker = "commanding" /\ operation[running] # "WRITE"
    BY <1>1, <1>2, <1>3, <1>6, <1>9, <2>2 DEF RunningEffect, BegunEffect, Unsent, AtMostOnce
  <2>3. CASE worker = "authenticating"
    BY <1>1, <1>2, <1>3, <1>6, <1>9, <2>3 DEF RunningEffect, Unsent
  <2> QED  BY <1>6, <2>1, <2>2, <2>3 DEF Commanding
<1>16. posted' \in BOOLEAN /\ finished' \in BOOLEAN
  BY <1>2, <1>3, InvParts, Zenon DEF FlagType
<1>17. worker' \in Places \ Idle /\ result' \in [Requests -> Statuses]
  BY <1>3, <1>6, InvParts, Tables DEF JobType
<1> QED  BY <1>2, <1>3, <1>6, <1>11, <1>13, <1>14, <1>15, <1>16, <1>17, ConnectionStep

\* A write sent on a closed connection arrives, or never does.
LEMMA ServeLateKeeps ==
  ASSUME Inv, ServeLate PROVE Inv'
<1>1. PICK c \in late : /\ late' = late \ {c}
                        /\ applied' = [applied EXCEPT ![c] = @ + 1] \/ UNCHANGED applied
  BY DEF ServeLate
<1>2. UNCHANGED <<tableVars, listVars, stopVars, jobVars, cancelled, posted, socket,
                  wire, replies, opVars>>
  BY DEF ServeLate
<1>3. /\ UNCHANGED <<worker, running, result, operation, io, finished, status, reply>>
      /\ UNCHANGED <<pending, ready, delivered, told, stopping, stopped, stopper>>
  BY <1>2 DEF jobVars, opVars, tableVars, listVars, stopVars
<1>4. /\ TableType' /\ ListType' /\ OrderInv' /\ TableInv' /\ CounterInv' /\ Done' = Done
  BY <1>2, <1>3, TableKept
<1>5. c \in Requests /\ late \subseteq Requests /\ applied \in [Requests -> Nat]
  BY InvParts DEF WireType, EffectType
<1>6. FlagType'
  BY <1>2, <1>3, InvParts, Zenon DEF FlagType
<1>7. JobType' /\ EffectType' /\ WireType'
  BY <1>1, <1>2, <1>3, <1>5, InvParts DEF JobType, EffectType, WireType
<1>8. WorkerInv'
  BY <1>3, InvParts DEF WorkerInv
<1>9. WireInv'
  <2>1. CurrentCommand' = CurrentCommand /\ Writes(CurrentCommand)' = Writes(CurrentCommand)
    BY <1>3 DEF CurrentCommand, Writes
  <2> QED  BY <1>2, <1>3, <2>1, InvParts DEF WireInv, OnTheWay, Commanding, Draining
<1>10. ASSUME NEW r \in Requests PROVE EffectAt(r)'
  <2>1. EffectAt(r)
    BY DEF Inv
  <2>2. CASE r # c
    <3>1. applied'[r] = applied[r] /\ (r \in late' <=> r \in late)
      BY <1>1, <1>5, <2>2
    <3>2. /\ Unsent(r)' = Unsent(r) /\ Truth(r)' = Truth(r) /\ BegunEffect(r)' = BegunEffect(r)
      BY <1>2, <1>3, <3>1 DEF Unsent, Truth, AtMostOnce, BegunEffect, Replied
    <3> QED  BY <1>3, <1>4, <2>1, <3>2 DEF EffectAt
  <2>3. CASE r = c
    <3>1. ~Unsent(r) /\ r \in late
      BY <2>3 DEF Unsent
    <3>2. /\ operation[r] = "WRITE" /\ ~(r > Done /\ r # running)
          /\ r = running => worker \in {"commanding", "publishing"}
      BY <2>1, <3>1 DEF EffectAt
    <3>3. r \notin late' /\ applied'[r] \in {applied[r], applied[r] + 1}
      BY <1>1, <1>5, <2>3
    <3>4. AtMostOnce(r) => AtMostOnce(r)'
      BY <3>1, <3>3 DEF AtMostOnce
    <3>5. Truth(r) => Truth(r)'
      BY <1>3, <3>1, <3>2, <3>4 DEF Truth, AtMostOnce, Unsent
    <3>6. BegunEffect(r) => BegunEffect(r)'
      BY <1>2, <1>3, <3>1, <3>2, <3>4 DEF BegunEffect, Unsent, Replied
    <3> QED  BY <1>3, <1>4, <2>1, <3>2, <3>5, <3>6 DEF EffectAt
  <2> QED  BY <2>2, <2>3
<1> QED  BY <1>4, <1>6, <1>7, <1>8, <1>9, <1>10 DEF Inv
-----------------------------------------------------------------------------
\* The total of nothing is 0.
LEMMA TotalZero ==
  ASSUME NEW B \in Nat, NEW f, \A r \in Requests : f[r] = 0
  PROVE  Total(f, B, 0)
<1> DEFINE s == [i \in 0..MaxRequestId |-> 0]
<1>1. s \in [0..MaxRequestId -> 0..B] /\ \A i \in 0..MaxRequestId : s[i] = 0
  OBVIOUS
<1> HIDE DEF s
<1>2. \A r \in Requests : r \in 0..MaxRequestId /\ r - 1 \in 0..MaxRequestId
  BY Ids
<1>3. 0 \in 0..MaxRequestId /\ MaxRequestId \in 0..MaxRequestId
  BY Ids
<1> QED  BY <1>1, <1>2, <1>3 DEF Total, IsRunningTotal

\* The invariant holds at first.
LEMMA InitInv == Init => Inv
<1> SUFFICES ASSUME Init PROVE Inv
  OBVIOUS
<1>1. FlagType
  BY Zenon DEF Init, FlagType
<1>2. /\ operation = [r \in Requests |-> "none"] /\ held = [r \in Requests |-> 0]
      /\ reservation = [r \in Requests |-> 0] /\ result = [r \in Requests |-> "OK"]
      /\ applied = [r \in Requests |-> 0] /\ nextId = 1 /\ delivered = 0 /\ running = 0
      /\ pending = <<>> /\ ready = <<>> /\ queueBytes = 0 /\ resultBytes = 0 /\ inflight = 0
      /\ late = {} /\ worker = "waiting"
  BY DEF Init
<1>3. TableType
  BY <1>2, Ids DEF TableType
<1>4. ListType /\ EffectType /\ Len(ready) = 0 /\ Len(pending) = 0
  BY <1>2 DEF ListType, EffectType
<1>5. JobType
  BY <1>2 DEF Init, JobType, Places, Statuses
<1>6. WireType
  BY DEF Init, WireType, Statuses, NoReply, Replies
<1>7. Done = 0 /\ LastId = 0 /\ Busy = 0
  BY <1>2, <1>4 DEF Done, LastId, Busy
<1>8. OrderInv
  BY <1>2, <1>4, <1>7 DEF OrderInv
<1>9. TableInv
  BY <1>2, <1>7, Ids DEF TableInv
<1>10. CounterInv
  <2>1. (\A r \in Requests : held[r] = 0) /\ (\A r \in Requests : reservation[r] = 0)
    BY <1>2
  <2>2. Total(held, MaxQueueBytes, 0) /\ Total(reservation, MaxResultBytes, 0)
    BY <2>1, Ids, TotalZero
  <2> QED  BY <1>2, <1>4, <1>7, <2>2 DEF CounterInv
<1>11. WorkerInv
  BY DEF Init, WorkerInv, Idle
<1>12. WireInv
  BY DEF Init, WireInv, Commanding, Draining
<1>13. ASSUME NEW r \in Requests PROVE EffectAt(r)
  <2>1. Unsent(r) /\ ~(r <= Done) /\ r # running /\ operation[r] # "WRITE"
    BY <1>2, <1>7, Ids DEF Unsent
  <2> QED  BY <2>1 DEF EffectAt
<1> QED  BY <1>1, <1>3, <1>4, <1>5, <1>6, <1>8, <1>9, <1>10, <1>11, <1>12, <1>13 DEF Inv

\* Every step keeps it.
LEMMA NextInv == Inv /\ [Next]_vars => Inv'
<1> SUFFICES ASSUME Inv, [Next]_vars PROVE Inv'
  OBVIOUS
<1>1. CASE \E kind \in {"GET", "WRITE"}, size \in 1..MaxSize : submit(kind, size)
  BY <1>1, SubmitKeeps
<1>2. CASE poll \/ PollStopped \/ stop \/ Stopper
  BY <1>2, PollKeeps, PollStoppedKeeps, StopKeeps, StopperKeeps
<1>3. CASE Worker
  BY <1>3, TakeKeeps, FailingKeeps, FailPendingKeeps, PublishKeeps, StartKeeps, ConnectReturnsKeeps,
     AuthenticateKeeps, AuthReturnsKeeps, FormatKeeps, CommandKeeps, CommandReturnsKeeps,
     LocalFailureKeeps, CancelRunsKeeps DEF Worker
<1>4. CASE Timeout \/ Network
  BY <1>4, FailuresKeep, ConnectedKeeps, WriteCompletesKeeps, ReadReplyKeeps, TransmitKeeps,
     ServeKeeps, ServeLateKeeps DEF Network
<1>5. CASE UNCHANGED vars
  <2>1. /\ UNCHANGED <<tableVars, pending, ready, delivered, jobVars, socketVars, opVars, applied>>
        /\ UNCHANGED <<told, stopping, stopped, stopper, worker, running, result, cancelled, posted,
                       finished>>
    BY <1>5 DEF vars, listVars, jobVars, stopVars, opVars
  <2>2. UNCHANGED <<pending, ready>>
    BY <2>1
  <2>3. FlagType' /\ JobType' /\ WorkerInv'
    BY <2>1, <2>2, InvParts DEF FlagType, JobType, WorkerInv
  <2> QED  BY <2>1, <2>3, FlagStepKeeps
<1> QED  BY <1>1, <1>2, <1>3, <1>4, <1>5 DEF Next

\* The lists are consecutive ids, the counters are totals, at most the command
\* being run is on the connection, and every answer given so far is true.
THEOREM Invariant == Spec => []Inv
BY InitInv, NextInv, PTL DEF Spec

\* The counters of submit, poll and run are exactly what the requests hold, at
\* every limit and for every size: no subtraction wraps and nothing leaks.
THEOREM CountersAreExact == Spec => []CountersExact
<1>1. Inv => CountersExact
  <2> SUFFICES ASSUME Inv PROVE CountersExact
    OBVIOUS
  <2>1. TypeOK
    BY InvParts, TypeParts
  <2>2. /\ \E sums \in [0..MaxRequestId -> 0..MaxQueueBytes] :
             IsRunningTotal(sums, held) /\ queueBytes = sums[MaxRequestId]
        /\ \E sums \in [0..MaxRequestId -> 0..MaxResultBytes] :
             IsRunningTotal(sums, reservation) /\ resultBytes = sums[MaxRequestId]
    BY InvParts DEF CounterInv, Total
  <2>3. Len(Current) = Busy
    BY DEF Current, Busy
  <2>4. ASSUME NEW i \in DOMAIN ready PROVE held[ready[i]] = 0
    <3>1. i \in 1..Len(ready) /\ ready[i] \in Requests
      BY InvParts DEF ListType
    <3>2. ready[i] <= Done
      BY <3>1, InvParts DEF OrderInv, Done
    <3> QED  BY <3>1, <3>2, InvParts DEF TableInv
  <2> QED  BY <2>1, <2>2, <2>3, <2>4, InvParts DEF CountersExact, CounterInv
<1> QED  BY <1>1, Invariant, PTL

\* Requests are accepted, run, completed and handed out in the order of their
\* ids, each exactly once, and stop() leaves none of them without a completion.
THEOREM RunsInOrder == Spec => []InOrder
<1>1. Inv => InOrder
  <2> SUFFICES ASSUME Inv PROVE InOrder
    OBVIOUS
  <2> DEFINE first == ready \o Current
             all == first \o pending
  <2>1. /\ Current \in Seq(Requests) /\ Len(Current) = Busy /\ (running # 0 => Current[1] = running)
        /\ ready \in Seq(Requests) /\ pending \in Seq(Requests)
    BY InvParts, Ids DEF Current, Busy, JobType, ListType
  <2>2. /\ first \in Seq(Requests) /\ Len(first) = Len(ready) + Busy
        /\ \A i \in 1..(Len(ready) + Busy) :
             first[i] = IF i <= Len(ready) THEN ready[i] ELSE Current[i - Len(ready)]
    BY <2>1, InvParts
  <2> HIDE DEF first
  <2>3. \A i \in 1..(Len(ready) + Busy) : first[i] = delivered + i
    <3> TAKE i \in 1..(Len(ready) + Busy)
    <3>1. CASE i <= Len(ready)
      BY <2>2, <3>1, InvParts DEF OrderInv
    <3>2. CASE i > Len(ready)
      <4>1. running # 0 /\ i = Len(ready) + 1
        BY <3>2, InvParts DEF Busy
      <4>2. first[i] = Current[1] /\ running = delivered + Len(ready) + 1
        BY <2>2, <3>2, <4>1, InvParts DEF OrderInv, Done
      <4> QED  BY <2>1, <4>1, <4>2, InvParts
    <3>3. Len(ready) \in Nat /\ Busy \in Nat
      BY InvParts
    <3> QED  BY <3>1, <3>2, <3>3
  <2>4. /\ Len(all) = Len(ready) + Busy + Len(pending) /\ DOMAIN all = 1..Len(all)
        /\ \A i \in 1..(Len(first) + Len(pending)) :
             all[i] = IF i <= Len(first) THEN first[i] ELSE pending[i - Len(first)]
    BY <2>1, <2>2, InvParts
  <2> HIDE DEF all
  <2>5. \A i \in DOMAIN all : all[i] = delivered + i
    <3> TAKE i \in DOMAIN all
    <3>1. i \in 1..(Len(first) + Len(pending)) /\ i \in Nat
      BY <2>2, <2>4, InvParts
    <3>2. CASE i <= Len(first)
      BY <2>2, <2>3, <2>4, <3>1, <3>2, InvParts
    <3>3. CASE i > Len(first)
      <4>1. /\ all[i] = pending[i - Len(first)] /\ i - Len(first) \in 1..Len(pending)
            /\ Len(first) = Len(ready) + Busy
        BY <2>2, <2>4, <3>1, <3>3, InvParts
      <4>2. pending[i - Len(first)] = Done + Busy + (i - Len(first))
        BY <4>1, InvParts DEF OrderInv
      <4>3. Len(ready) \in Nat /\ Busy \in Nat /\ delivered \in Nat /\ i \in Nat
        BY <3>1, InvParts
      <4> QED  BY <4>1, <4>2, <4>3 DEF Done
    <3> QED  BY <2>2, <3>1, <3>2, <3>3, InvParts
  <2>6. (nextId + MaxRequestId) % (MaxRequestId + 1) = delivered + Len(all)
    <3>1. nextId \in 0..MaxRequestId
      BY InvParts DEF TableType
    <3>2. (nextId + MaxRequestId) % (MaxRequestId + 1) = LastId
      BY <3>1, Wraps DEF LastId
    <3>3. LastId = delivered + Len(all)
      BY <2>4, InvParts DEF OrderInv, Done
    <3> QED  BY <3>2, <3>3
  <2>7. stopper = "returned" => pending = <<>> /\ running = 0
    BY InvParts DEF WorkerInv, Idle
  <2>8. all = ready \o Current \o pending
    BY DEF all, first
  <2> QED  BY <2>5, <2>6, <2>7, <2>8 DEF InOrder
<1> QED  BY <1>1, Invariant, PTL

\* A reply is taken only for the command it answers, and nothing but the current
\* command is ever on the open connection.
THEOREM RepliesAreTheirOwn == Spec => []OwnReply
<1>1. Inv => OwnReply
  <2> SUFFICES ASSUME Inv PROVE OwnReply
    OBVIOUS
  <2>1. Commanding /\ finished /\ status = "OK" => reply.to = CurrentCommand
    BY InvParts DEF WireInv
  <2>2. wire \in Seq(Requests \cup {AUTH}) /\ replies \in Seq(Replies)
    BY InvParts DEF WireType
  <2>3. io \in {"idle", "writing"} \/ io \in {"sent", "reading"}
    BY InvParts DEF WireType
  <2>4. CASE io \in {"idle", "writing"}
    <3>1. wire = <<>> /\ replies = <<>>
      BY <2>4, InvParts DEF WireInv
    <3> QED  BY <2>1, <3>1 DEF OwnReply, CurrentCommand
  <2>5. CASE io \in {"sent", "reading"}
    <3>1. OnTheWay /\ Commanding
      BY <2>5, InvParts DEF WireInv
    <3>2. /\ \A i \in DOMAIN wire : wire[i] = CurrentCommand
          /\ \A i \in DOMAIN replies : replies[i].to = CurrentCommand
      <4>1. CASE wire = <<CurrentCommand>> /\ replies = <<>>
        BY <4>1
      <4>2. CASE wire = <<>> /\ Len(replies) = 1 /\ replies[1].to = CurrentCommand
        BY <2>2, <4>2
      <4> QED  BY <3>1, <4>1, <4>2 DEF OnTheWay
    <3> QED  BY <2>1, <3>1, <3>2 DEF OwnReply, CurrentCommand
  <2> QED  BY <2>3, <2>4, <2>5
<1> QED  BY <1>1, Invariant, PTL

\* What is still under way at the server.
LEMMA UnderwayFacts ==
  ASSUME Inv, NEW r \in Requests, r \in Underway, r \notin late
  PROVE  wire = <<r>> /\ r = running /\ worker = "commanding"
<1>1. wire # <<>> /\ \E i \in DOMAIN wire : wire[i] = r
  BY DEF Underway
<1>2. OnTheWay /\ Commanding
  BY <1>1, InvParts DEF WireInv, WireType
<1>3. wire = <<CurrentCommand>>
  BY <1>1, <1>2 DEF OnTheWay
<1>4. r = CurrentCommand
  BY <1>1, <1>3
<1> QED  BY <1>2, <1>3, <1>4, Ids DEF CurrentCommand, AUTH, Commanding

\* No write is carried out twice, and no answer but OUTCOME_UNKNOWN is ever
\* contradicted by what Redis did or may still do.
THEOREM OutcomesAreTrue == Spec => []OutcomeTruth
<1>1. Inv => OutcomeTruth
  <2> SUFFICES ASSUME Inv PROVE OutcomeTruth
    OBVIOUS
  <2>1. ASSUME NEW r \in Requests
        PROVE  /\ applied[r] + (IF r \in Underway THEN 1 ELSE 0) <= 1
               /\ AtMostOnce(r) /\ applied[r] \in Nat
    <3>1. applied[r] \in Nat /\ EffectAt(r)
      BY InvParts DEF EffectType, Inv
    <3>2. AtMostOnce(r)
      <4>1. Unsent(r) => AtMostOnce(r)
        BY DEF Unsent, AtMostOnce
      <4>2. r <= Done \/ (r > Done /\ r # running) \/ r = running
        BY InvParts, Ids
      <4> QED  BY <3>1, <4>1, <4>2 DEF EffectAt, Truth, BegunEffect
    <3>3. CASE r \in Underway /\ r \notin late
      <4>1. wire # <<>> /\ r = running /\ worker = "commanding"
        BY <3>3, UnderwayFacts
      <4>2. Unsent(r)
        BY <3>1, <4>1 DEF EffectAt, BegunEffect
      <4> QED  BY <3>1, <3>2, <4>2 DEF Unsent
    <3>4. CASE r \notin Underway \/ r \in late
      BY <3>1, <3>2, <3>4 DEF AtMostOnce, Underway
    <3> QED  BY <3>3, <3>4
  <2>2. ASSUME NEW r \in Completed
        PROVE  /\ operation[r] = "GET" => result[r] # "OUTCOME_UNKNOWN"
               /\ operation[r] = "WRITE" /\ result[r] = "OK" => applied[r] = 1
               /\ operation[r] = "WRITE" /\ result[r] \notin {"OK", "OUTCOME_UNKNOWN"} =>
                    applied[r] = 0 /\ r \notin Underway
    <3>1. r \in Requests /\ r <= Done
      BY InvParts DEF Completed, TableInv
    <3>2. Truth(r)
      BY <3>1 DEF Inv, EffectAt
    <3>3. r \in Underway => r \in late
      <4>1. running # 0 => running = Done + 1
        BY InvParts DEF OrderInv
      <4> QED  BY <3>1, <4>1, UnderwayFacts, InvParts, Ids
    <3> QED  BY <3>2, <3>3 DEF Truth, Unsent
  <2> QED  BY <2>1, <2>2 DEF OutcomeTruth
<1> QED  BY <1>1, Invariant, PTL
-----------------------------------------------------------------------------
(***************************************************************************)
(* The service implements RedisContract.                                   *)
(***************************************************************************)

\* Where a request is follows from its id.
PhaseOf(r) ==
  IF r > LastId THEN "free"
  ELSE IF r <= delivered THEN "read" ELSE IF r <= Done THEN "answered" ELSE "pending"

\* What the caller sees of each request.
Seen ==
  /\ delivered \in Nat /\ Done \in Nat /\ LastId \in Nat /\ delivered <= Done /\ Done <= LastId
  /\ \A r \in Requests :
       /\ PhaseMap[r] = PhaseOf(r)
       /\ StatusMap[r] = IF r <= Done THEN result[r] ELSE "none"
       /\ EffectAt(r) /\ AtMostOnce(r)

LEMMA SeenNow == Inv => Seen
<1> SUFFICES ASSUME Inv PROVE Seen
  OBVIOUS
<1>1. /\ delivered \in Nat /\ Done \in Nat /\ LastId \in Nat /\ delivered <= Done /\ Done <= LastId
  BY InvParts DEF OrderInv, Done
<1>2. ASSUME NEW r \in Requests
      PROVE  PhaseMap[r] = PhaseOf(r) /\ StatusMap[r] = IF r <= Done THEN result[r] ELSE "none"
  <2>1. operation[r] = "none" <=> r > LastId
    BY InvParts DEF TableInv
  <2>2. r > delivered => (r \in Completions <=> r <= Done)
    <3> HAVE r > delivered
    <3>1. r \in Nat /\ DOMAIN ready = 1..Len(ready) /\ Len(ready) \in Nat
      BY Ids, InvParts DEF ListType
    <3>2. ASSUME r \in Completions PROVE r <= Done
      BY <3>1, <3>2, <1>1, InvParts DEF Completions, OrderInv, Done
    <3>3. ASSUME r <= Done PROVE r \in Completions
      <4>1. r - delivered \in 1..Len(ready)
        BY <3>1, <3>3, <1>1 DEF Done
      <4>2. ready[r - delivered] = r
        BY <3>1, <4>1, <1>1, InvParts DEF OrderInv
      <4> QED  BY <3>1, <4>1, <4>2 DEF Completions
    <3> QED  BY <3>2, <3>3
  <2>3. PhaseMap[r] = PhaseOf(r)
    BY <1>1, <2>1, <2>2, Ids DEF PhaseMap, PhaseOf
  <2>4. StatusMap[r] = IF r <= Done THEN result[r] ELSE "none"
    BY <1>1, <2>3, Ids DEF StatusMap, PhaseOf
  <2> QED  BY <2>3, <2>4
<1>3. ASSUME NEW r \in Requests PROVE EffectAt(r) /\ AtMostOnce(r)
  <2>1. Unsent(r) => AtMostOnce(r)
    BY DEF Unsent, AtMostOnce
  <2>2. r <= Done \/ (r > Done /\ r # running) \/ r = running
    BY <1>1, Ids
  <2> QED  BY <2>1, <2>2, InvParts DEF Inv, EffectAt, Truth, BegunEffect, JobType
<1> QED  BY <1>1, <1>2, <1>3 DEF Seen

\* And after the next step, likewise.
LEMMA SeenNext == Inv' => Seen'
BY SeenNow, PTL

\* Equal entries, equal maps.
LEMMA MapsKept ==
  /\ (\A r \in Requests : PhaseMap'[r] = PhaseMap[r]) => PhaseMap' = PhaseMap
  /\ (\A r \in Requests : StatusMap'[r] = StatusMap[r]) => StatusMap' = StatusMap
  /\ (applied' = applied => EffectMap' = EffectMap)
BY DEF PhaseMap, StatusMap, EffectMap

LEMMA MapsStep ==
  ASSUME NEW q \in Requests, NEW e
  PROVE  /\ (\A r \in Requests : PhaseMap'[r] = IF r = q THEN e ELSE PhaseMap[r])
              => PhaseMap' = [PhaseMap EXCEPT ![q] = e]
         /\ (\A r \in Requests : StatusMap'[r] = IF r = q THEN e ELSE StatusMap[r])
              => StatusMap' = [StatusMap EXCEPT ![q] = e]
BY DEF PhaseMap, StatusMap

\* Steps the caller does not see.
LEMMA UnseenStep ==
  ASSUME Inv, Inv', UNCHANGED <<LastId, delivered, Done, operation, applied, told>>,
         \A r \in Requests : r <= Done => result'[r] = result[r]
  PROVE  UNCHANGED C!cvars
<1>1. Seen /\ Seen'
  BY SeenNow, SeenNext
<1>2. \A r \in Requests : PhaseMap'[r] = PhaseMap[r] /\ StatusMap'[r] = StatusMap[r]
  BY <1>1 DEF Seen, PhaseOf
<1>3. PhaseMap' = PhaseMap /\ StatusMap' = StatusMap /\ EffectMap' = EffectMap
  BY <1>2, MapsKept
<1> QED  BY <1>3 DEF C!cvars

\* The first request that is pending.
LEMMA FirstPending ==
  ASSUME Inv, NEW q \in Requests, q = Done + 1, q <= LastId
  PROVE  PhaseMap[q] = "pending" /\ C!NoneBefore(q, {"pending"})
<1>1. Seen
  BY SeenNow
<1>2. PhaseMap[q] = "pending"
  BY <1>1, Ids DEF Seen, PhaseOf
<1>3. ASSUME NEW r \in Requests, r < q PROVE PhaseMap[r] # "pending"
  <2>1. r \in Nat /\ r <= Done
    BY <1>1, <1>3, Ids DEF Seen
  <2> QED  BY <1>1, <2>1 DEF Seen, PhaseOf
<1> QED  BY <1>2, <1>3 DEF C!NoneBefore

\* Completing a request is its answer, and it is truthful.
LEMMA AnswerImplements ==
  ASSUME Inv, Inv', NEW q \in Requests, q = Done + 1, q <= LastId, Done' = Done + 1,
         UNCHANGED <<LastId, delivered, operation, applied, told>>,
         \A r \in Requests : r <= Done => result'[r] = result[r]
  PROVE  C!ContractNext
<1> DEFINE s == result'[q]
<1>1. Seen /\ Seen'
  BY SeenNow, SeenNext
<1>2. PhaseMap[q] = "pending" /\ C!NoneBefore(q, {"pending"})
  BY FirstPending
<1>3. \A r \in Requests : /\ PhaseMap'[r] = IF r = q THEN "answered" ELSE PhaseMap[r]
                          /\ StatusMap'[r] = IF r = q THEN s ELSE StatusMap[r]
  <2> TAKE r \in Requests
  <2>1. r \in Nat /\ q \in Nat
    BY Ids
  <2>2. CASE r = q
    BY <1>1, <2>1, <2>2 DEF Seen, PhaseOf
  <2>3. CASE r # q
    <3>1. r <= Done' <=> r <= Done
      BY <1>1, <2>1, <2>3 DEF Seen
    <3> QED  BY <1>1, <2>3, <3>1 DEF Seen, PhaseOf
  <2> QED  BY <2>2, <2>3
<1>4. /\ PhaseMap' = [PhaseMap EXCEPT ![q] = "answered"] /\ StatusMap' = [StatusMap EXCEPT ![q] = s]
      /\ EffectMap' = EffectMap
  <2> HIDE DEF s
  <2>1. StatusMap' = [StatusMap EXCEPT ![q] = s]
    <3>1. StatusMap' = [r \in Requests |-> StatusMap'[r]] /\ StatusMap = [r \in Requests |-> StatusMap[r]]
      BY DEF StatusMap
    <3> QED  BY <1>3, <3>1
  <2> QED  BY <1>3, <2>1, MapsStep, MapsKept
<1>5. s \in C!Statuses
  <2>1. JobType'
    BY DEF Inv
  <2> QED  BY <2>1 DEF JobType, Statuses, C!Statuses
<1>6. Truth(q)'
  BY <1>1, Ids DEF Seen, EffectAt
<1>7. IF operation[q] = "WRITE" THEN C!Truthful(q, s) ELSE s # "OUTCOME_UNKNOWN"
  <2>1. CASE operation[q] = "WRITE"
    <3>1. s = "OK" => EffectMap[q] = "once"
      BY <1>6, <2>1 DEF Truth, EffectMap
    <3>2. s \notin {"OK", "OUTCOME_UNKNOWN"} => EffectMap[q] = "none"
      BY <1>6, <2>1 DEF Truth, Unsent, EffectMap
    <3> QED  BY <2>1, <3>1, <3>2 DEF C!Truthful
  <2>2. CASE operation[q] # "WRITE"
    <3>1. operation[q] = "GET"
      <4>1. operation[q] # "none" /\ operation[q] \in {"none", "GET", "WRITE"}
        BY Tables, InvParts, Ids DEF TableInv
      <4> QED  BY <2>2, <4>1
    <3> QED  BY <1>6, <2>2, <3>1 DEF Truth
  <2> QED  BY <2>1, <2>2
<1>8. C!Answer(q, s)
  BY <1>2, <1>4, <1>7 DEF C!Answer
<1> QED  BY <1>5, <1>8 DEF C!ContractNext

\* A write Redis carries out takes effect in its turn, or was answered as unknown.
LEMMA EffectImplements ==
  ASSUME Inv, Inv', NEW c \in Requests, applied[c] = 0, operation[c] = "WRITE",
         (c = Done + 1 /\ c <= LastId) \/ (c <= Done /\ result[c] = "OUTCOME_UNKNOWN"),
         applied' = [applied EXCEPT ![c] = @ + 1],
         UNCHANGED <<LastId, delivered, Done, operation, result, told>>
  PROVE  C!ContractNext
<1>1. Seen /\ Seen'
  BY SeenNow, SeenNext
<1>2. PhaseMap' = PhaseMap /\ StatusMap' = StatusMap
  <2>1. \A r \in Requests : PhaseMap'[r] = PhaseMap[r] /\ StatusMap'[r] = StatusMap[r]
    BY <1>1 DEF Seen, PhaseOf
  <2> QED  BY <2>1, MapsKept
<1>3. EffectMap[c] = "none" /\ EffectMap' = [EffectMap EXCEPT ![c] = "once"]
  <2>1. applied \in [Requests -> Nat]
    BY InvParts DEF EffectType
  <2>2. \A r \in Requests : applied'[r] = IF r = c THEN 1 ELSE applied[r]
    BY <2>1
  <2>3. \A r \in Requests : EffectMap'[r] = IF r = c THEN "once" ELSE EffectMap[r]
    BY <2>2 DEF EffectMap
  <2>4. /\ EffectMap' = [r \in Requests |-> EffectMap'[r]] /\ EffectMap[c] = "none"
        /\ EffectMap = [r \in Requests |-> EffectMap[r]]
    BY DEF EffectMap
  <2> QED  BY <2>3, <2>4
<1>4. \/ PhaseMap[c] = "pending" /\ C!NoneBefore(c, {"pending"})
      \/ StatusMap[c] = "OUTCOME_UNKNOWN"
  BY <1>1, FirstPending DEF Seen
<1>5. C!TakeEffect(c)
  BY <1>2, <1>3, <1>4 DEF C!TakeEffect
<1> QED  BY <1>5 DEF C!ContractNext

\* submit accepts the next id.
LEMMA SubmitImplements ==
  ASSUME Inv, Inv', NEW kind \in {"GET", "WRITE"}, NEW size \in 1..MaxSize, submit(kind, size)
  PROVE  C!ContractNext
<1>1. /\ ~stopping /\ nextId # 0 /\ operation' = [operation EXCEPT ![nextId] = kind]
      /\ nextId' = (nextId + 1) % (MaxRequestId + 1)
      /\ UNCHANGED <<ready, delivered, told, jobVars, applied>>
  BY DEF submit, Admissible
<1>2. nextId \in Requests /\ nextId = LastId + 1 /\ LastId' = nextId
  <2>1. nextId \in 0..MaxRequestId /\ nextId \in Nat
    BY InvParts, Ids DEF TableType
  <2>2. nextId' = IF nextId = MaxRequestId THEN 0 ELSE nextId + 1
    BY <1>1, <2>1, Wraps
  <2> QED  BY <1>1, <2>1, <2>2, Ids DEF LastId
<1>3. Done' = Done /\ result' = result
  BY <1>1 DEF Done, jobVars
<1>4. Seen /\ Seen'
  BY SeenNow, SeenNext
<1>5. \A r \in Requests : /\ PhaseMap'[r] = IF r = nextId THEN "pending" ELSE PhaseMap[r]
                          /\ StatusMap'[r] = StatusMap[r]
  <2> TAKE r \in Requests
  <2>1. r \in Nat /\ nextId \in Nat
    BY <1>2, Ids
  <2>2. CASE r = nextId
    BY <1>1, <1>2, <1>3, <1>4, <2>1, <2>2 DEF Seen, PhaseOf
  <2>3. CASE r # nextId
    <3>1. r > LastId' <=> r > LastId
      BY <1>2, <1>4, <2>1, <2>3 DEF Seen
    <3> QED  BY <1>1, <1>3, <1>4, <2>3, <3>1 DEF Seen, PhaseOf
  <2> QED  BY <2>2, <2>3
<1>6. /\ PhaseMap' = [PhaseMap EXCEPT ![nextId] = "pending"] /\ StatusMap' = StatusMap
      /\ EffectMap' = EffectMap
  BY <1>1, <1>2, <1>5, MapsStep, MapsKept
<1>7. PhaseMap[nextId] = "free" /\ C!NoneBefore(nextId, {"free"})
  <2>1. PhaseMap[nextId] = "free"
    BY <1>2, <1>4, Ids DEF Seen, PhaseOf
  <2>2. ASSUME NEW r \in Requests, r < nextId PROVE PhaseMap[r] # "free"
    <3>1. r \in Nat /\ ~(r > LastId)
      BY <1>2, <1>4, <2>2, Ids DEF Seen
    <3> QED  BY <1>4, <3>1 DEF Seen, PhaseOf
  <2> QED  BY <2>1, <2>2 DEF C!NoneBefore
<1>8. ~told
  BY <1>1, InvParts DEF WorkerInv
<1>9. C!Accept(nextId, kind)
  BY <1>1, <1>6, <1>7, <1>8 DEF C!Accept
<1> QED  BY <1>2, <1>9 DEF C!ContractNext

\* poll reads the first answer.
LEMMA PollImplements ==
  ASSUME Inv, Inv', poll
  PROVE  C!ContractNext
<1> DEFINE q == delivered + 1
<1>1. /\ ready # <<>> /\ ready' = Tail(ready) /\ delivered' = delivered + 1
      /\ UNCHANGED <<nextId, operation, told, jobVars, applied>>
  BY DEF poll
<1>2. Len(ready) \in Nat /\ Len(ready) > 0 /\ Len(ready') = Len(ready) - 1
  <2>1. ready \in Seq(Requests)
    BY InvParts DEF ListType
  <2> QED  BY <1>1, <2>1, TailFacts
<1>3. Done' = Done /\ LastId' = LastId /\ result' = result /\ q <= Done
  BY <1>1, <1>2, InvParts DEF Done, LastId, jobVars
<1>4. Seen /\ Seen'
  BY SeenNow, SeenNext
<1>5. q \in Requests /\ q \in Nat
  BY <1>3, <1>4, InvParts, Ids DEF Seen
<1>6. \A r \in Requests : /\ PhaseMap'[r] = IF r = q THEN "read" ELSE PhaseMap[r]
                          /\ StatusMap'[r] = StatusMap[r]
  <2> TAKE r \in Requests
  <2>1. r \in Nat
    BY Ids
  <2>2. CASE r = q
    BY <1>1, <1>3, <1>4, <2>1, <2>2 DEF Seen, PhaseOf
  <2>3. CASE r # q
    <3>1. r <= delivered' <=> r <= delivered
      BY <1>1, <1>4, <2>1, <2>3 DEF Seen
    <3> QED  BY <1>3, <1>4, <2>3, <3>1 DEF Seen, PhaseOf
  <2> QED  BY <2>2, <2>3
<1>7. /\ PhaseMap' = [PhaseMap EXCEPT ![q] = "read"] /\ StatusMap' = StatusMap
      /\ EffectMap' = EffectMap
  BY <1>1, <1>5, <1>6, MapsStep, MapsKept
<1>8. PhaseMap[q] = "answered" /\ C!NoneBefore(q, {"answered"})
  <2>1. PhaseMap[q] = "answered"
    BY <1>3, <1>4, <1>5 DEF Seen, PhaseOf
  <2>2. ASSUME NEW r \in Requests, r < q PROVE PhaseMap[r] # "answered"
    <3>1. r \in Nat /\ r <= delivered
      BY <1>4, <2>2, Ids DEF Seen
    <3> QED  BY <1>4, <3>1 DEF Seen, PhaseOf
  <2> QED  BY <2>1, <2>2 DEF C!NoneBefore
<1>9. C!Read(q)
  BY <1>1, <1>7, <1>8 DEF C!Read
<1> QED  BY <1>5, <1>9 DEF C!ContractNext

\* A poll that reports the end finds every answer read.
LEMMA PollStoppedImplements ==
  ASSUME Inv, Inv', PollStopped
  PROVE  C!ContractNext
<1>1. /\ ready = <<>> /\ stopped /\ told' = TRUE
      /\ UNCHANGED <<tableVars, ready, delivered, jobVars, applied>>
  BY DEF PollStopped
<1>2. Done' = Done /\ LastId' = LastId /\ result' = result /\ operation' = operation
  BY <1>1 DEF Done, LastId, jobVars, tableVars
<1>3. Seen /\ Seen'
  BY SeenNow, SeenNext
<1>4. PhaseMap' = PhaseMap /\ StatusMap' = StatusMap /\ EffectMap' = EffectMap
  <2>1. \A r \in Requests : PhaseMap'[r] = PhaseMap[r] /\ StatusMap'[r] = StatusMap[r]
    BY <1>1, <1>2, <1>3 DEF Seen, PhaseOf
  <2> QED  BY <1>1, <2>1, MapsKept
<1>5. delivered = LastId
  <2>1. pending = <<>> /\ running = 0
    BY <1>1, InvParts DEF WorkerInv, Idle
  <2>2. Len(pending) = 0 /\ Len(ready) = 0
    BY <1>1, <2>1
  <2> QED  BY <2>1, <2>2, InvParts DEF OrderInv, Done, Busy
<1>6. \A r \in Requests : PhaseMap[r] \notin {"pending", "answered"}
  BY <1>3, <1>5, Ids DEF Seen, PhaseOf
<1>7. C!End
  BY <1>1, <1>2, <1>4, <1>6 DEF C!End
<1> QED  BY <1>7 DEF C!ContractNext

\* FailPending and Publish answer the first pending request.
LEMMA CompletionImplements ==
  ASSUME Inv, Inv', FailPending \/ Publish
  PROVE  C!ContractNext
<1>1. PICK q \in Requests : /\ Complete(q) /\ q = Done + 1 /\ q <= LastId
                            /\ \A r \in Requests : r <= Done => result'[r] = result[r]
  <2>1. CASE FailPending
    <3>1. /\ worker = "failing" /\ pending # <<>> /\ Complete(Head(pending))
          /\ result' = [result EXCEPT ![Head(pending)] = "STOPPED"]
      BY <2>1 DEF FailPending
    <3>2. running = 0 /\ pending \in Seq(Requests)
      BY <3>1, InvParts DEF WorkerInv, Idle, ListType
    <3>3. /\ Head(pending) \in Requests /\ Head(pending) = pending[1]
          /\ Len(pending) \in Nat /\ Len(pending) > 0
      BY <3>1, <3>2, TailFacts
    <3>4. Head(pending) = Done + 1 /\ Head(pending) <= LastId
      BY <3>2, <3>3, InvParts DEF OrderInv, Busy
    <3>5. \A r \in Requests : r <= Done => result'[r] = result[r]
      BY <3>1, <3>4, InvParts, Tables, Ids
    <3> QED  BY <3>1, <3>3, <3>4, <3>5
  <2>2. CASE Publish
    <3>1. worker = "publishing" /\ Complete(running) /\ result' = result
      BY <2>2 DEF Publish
    <3>2. running \in Requests /\ running = Done + 1
      BY <3>1, RunningFacts DEF Idle
    <3>3. running <= LastId
      BY <3>2, InvParts, Ids DEF OrderInv, Busy
    <3> QED  BY <3>1, <3>2, <3>3
  <2> QED  BY <2>1, <2>2
<1>2. UNCHANGED <<nextId, operation, delivered, told, applied>>
  BY DEF FailPending, Publish
<1>3. Len(ready') = Len(ready) + 1
  <2>1. ready \in Seq(Requests) /\ ready' = Append(ready, q)
    BY <1>1, InvParts DEF ListType, Complete
  <2> QED  BY <2>1, AppendFacts
<1>4. Done' = Done + 1 /\ LastId' = LastId
  BY <1>2, <1>3, InvParts DEF Done, LastId
<1> QED  BY <1>1, <1>2, <1>4, AnswerImplements

\* What Redis does is an effect of the contract, or invisible.
LEMMA ServerImplements ==
  ASSUME Inv, Inv', Serve \/ ServeLate
  PROVE  [C!ContractNext]_(C!cvars)
<1>1. UNCHANGED <<tableVars, listVars, jobVars>>
  BY DEF Serve, ServeLate
<1>2. UNCHANGED <<LastId, delivered, Done, operation, result, told>>
  BY <1>1 DEF tableVars, listVars, jobVars, Done, LastId
<1>3. CASE applied' = applied
  BY <1>2, <1>3, UnseenStep
<1>4. CASE applied' # applied
  <2>1. PICK c : /\ applied' = [applied EXCEPT ![c] = @ + 1]
                 /\ \/ c \in late
                    \/ wire # <<>> /\ c = Head(wire) /\ Writes(c)
    BY <1>4 DEF Serve, ServeLate
  <2>2. Seen
    BY SeenNow
  <2>3. running # 0 => running \in Requests /\ running = Done + 1 /\ running <= LastId
    BY InvParts, Ids DEF OrderInv, Busy, JobType
  <2>4. CASE c \in late
    <3>1. c \in Requests
      BY <2>4, InvParts DEF WireType
    <3>2. /\ EffectAt(c) /\ AtMostOnce(c) /\ ~Unsent(c)
      BY <2>2, <2>4, <3>1 DEF Seen, Unsent
    <3>3. applied[c] = 0 /\ operation[c] = "WRITE"
      BY <2>4, <3>2 DEF AtMostOnce, EffectAt
    <3>4. CASE c <= Done
      <4>1. result[c] = "OUTCOME_UNKNOWN"
        BY <3>2, <3>3, <3>4 DEF EffectAt, Truth
      <4> QED  BY <1>2, <2>1, <3>1, <3>3, <3>4, <4>1, EffectImplements
    <3>5. CASE c > Done
      <4>1. c = running
        BY <3>2, <3>5 DEF EffectAt
      <4>2. c # 0
        BY <3>1, Ids
      <4> QED  BY <1>2, <2>1, <2>3, <3>1, <3>3, <4>1, <4>2, EffectImplements
    <3> QED  BY <2>2, <3>1, <3>4, <3>5, Ids DEF Seen
  <2>5. CASE wire # <<>> /\ c = Head(wire) /\ Writes(c)
    <3>1. OnTheWay /\ Commanding
      BY <2>5, InvParts DEF WireInv, WireType
    <3>2. c = CurrentCommand
      BY <2>5, <3>1 DEF OnTheWay
    <3>3. worker = "commanding" /\ c = running /\ c # 0
      BY <2>5, <3>1, <3>2 DEF CurrentCommand, Commanding, Writes, AUTH
    <3>4. operation[c] = "WRITE" /\ c \in Requests
      BY <2>3, <2>5, <3>3 DEF Writes
    <3>5. EffectAt(c)
      BY <2>2, <3>4 DEF Seen
    <3>6. applied[c] = 0
      BY <2>5, <3>3, <3>4, <3>5 DEF EffectAt, BegunEffect, Unsent
    <3> QED  BY <1>2, <2>1, <2>3, <3>3, <3>4, <3>6, EffectImplements
  <2> QED  BY <2>1, <2>4, <2>5
<1> QED  BY <1>3, <1>4

\* The connection's own steps are invisible: only the request that runs changes.
LEMMA ConnectionImplements ==
  ASSUME Inv, Inv', requestUnchanged, worker \notin Idle,
         UNCHANGED jobVars \/ (\E place : GoTo(place)) \/ (\E s : Answer(s))
  PROVE  UNCHANGED C!cvars
<1>1. UNCHANGED <<LastId, delivered, Done, operation, applied, told>>
  BY DEF requestUnchanged, tableVars, listVars, Done, LastId
<1>2. ASSUME NEW r \in Requests, r <= Done PROVE result'[r] = result[r]
  <2>1. r # running
    BY <1>2, RunningFacts, InvParts, Ids
  <2> QED  BY <2>1, Tables DEF jobVars, GoTo, Answer
<1> QED  BY <1>1, <1>2, UnseenStep

\* Every step of the service is a step of the contract, or invisible.
LEMMA NextImplements == Inv /\ Inv' /\ [Next]_vars => [C!ContractNext]_(C!cvars)
<1> SUFFICES ASSUME Inv, Inv', [Next]_vars PROVE [C!ContractNext]_(C!cvars)
  OBVIOUS
<1>1. CASE \E kind \in {"GET", "WRITE"}, size \in 1..MaxSize : submit(kind, size)
  BY <1>1, SubmitImplements
<1>2. CASE poll \/ PollStopped
  BY <1>2, PollImplements, PollStoppedImplements
<1>3. CASE stop \/ Stopper \/ BeginFailing \/ EndFailing \/ UNCHANGED vars
  <2>1. UNCHANGED <<tableVars, listVars, applied, result>>
    BY <1>3 DEF stop, Stopper, CancelStores, CancelPosts, Join, BeginFailing, EndFailing, vars, jobVars
  <2>2. UNCHANGED <<LastId, delivered, Done, operation, applied, told, result>>
    BY <2>1 DEF tableVars, listVars, Done, LastId
  <2> QED  BY <2>2, UnseenStep
<1>4. CASE Take
  <2>1. UNCHANGED <<tableVars, ready, delivered, told, applied, result>>
    BY <1>4 DEF Take
  <2>2. UNCHANGED <<LastId, delivered, Done, operation, applied, told, result>>
    BY <2>1 DEF tableVars, Done, LastId
  <2> QED  BY <2>2, UnseenStep
<1>5. CASE FailPending \/ Publish
  BY <1>5, CompletionImplements
<1>6. CASE Serve \/ ServeLate
  BY <1>6, ServerImplements
<1>7. CASE Start \/ ConnectReturns \/ Authenticate \/ AuthReturns \/ Format \/ Command
        \/ CommandReturns \/ LocalFailure
  <2>1. requestUnchanged /\ worker \notin Idle
    BY <1>7 DEF Start, ConnectReturns, Authenticate, AuthReturns, Format, Command, CommandReturns,
       LocalFailure, Idle
  <2>2. (\E place : GoTo(place)) \/ (\E s : Answer(s))
    BY <1>7, Zenon DEF Start, ConnectReturns, Authenticate, AuthReturns, Format, Command,
       CommandReturns, LocalFailure
  <2> QED  BY <2>1, <2>2, ConnectionImplements
<1>8. CASE CancelRuns \/ Timeout \/ Connected \/ ConnectFails \/ WriteCompletes \/ TransferFails
        \/ read_reply \/ Transmit
  <2>1. requestUnchanged /\ UNCHANGED jobVars
    BY <1>8 DEF CancelRuns, Timeout, Connected, ConnectFails, WriteCompletes, TransferFails,
       read_reply, Transmit
  <2>2. io = "writing" \/ Draining
    BY <1>8 DEF CancelRuns, Timeout, Connected, ConnectFails, WriteCompletes, TransferFails,
       read_reply, Transmit, Draining, Commanding
  <2>3. worker \notin Idle
    BY <2>2, InvParts DEF WireInv, Draining, Commanding, Idle
  <2> QED  BY <2>1, <2>3, ConnectionImplements
<1> QED  BY <1>1, <1>2, <1>3, <1>4, <1>5, <1>6, <1>7, <1>8 DEF Next, Worker, Network

\* The contract holds at first.
LEMMA InitContract == Init => C!ContractInit
<1> SUFFICES ASSUME Init PROVE C!ContractInit
  OBVIOUS
<1>1. Seen
  BY InitInv, SeenNow
<1>2. /\ operation = [r \in Requests |-> "none"] /\ applied = [r \in Requests |-> 0] /\ told = FALSE
      /\ nextId = 1 /\ delivered = 0 /\ ready = <<>>
  BY DEF Init
<1>3. LastId = 0 /\ Done = 0
  BY <1>2 DEF LastId, Done
<1>4. \A r \in Requests : PhaseMap[r] = "free" /\ StatusMap[r] = "none" /\ EffectMap[r] = "none"
  BY <1>1, <1>2, <1>3, Ids DEF Seen, PhaseOf, EffectMap
<1>5. /\ PhaseMap = [r \in Requests |-> "free"] /\ StatusMap = [r \in Requests |-> "none"]
      /\ EffectMap = [r \in Requests |-> "none"]
  BY <1>4 DEF PhaseMap, StatusMap, EffectMap
<1> QED  BY <1>2, <1>5 DEF C!ContractInit

\* The service implements RedisContract: requests are answered and read in order,
\* none is lost, and a write takes effect at most once, in its turn or after
\* OUTCOME_UNKNOWN.
THEOREM ImplementsContract == Spec => Contract
BY Invariant, InitContract, NextImplements, PTL DEF Spec, Contract, C!Contract
=============================================================================
