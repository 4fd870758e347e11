-------------------------- MODULE SqlServiceProofs --------------------------
(***************************************************************************)
(* Proofs about the SQL service: its requests are answered truthfully and  *)
(* in order, its reservations are exact, and it implements SqlContract,    *)
(* for every number of requests, statements and bytes.                     *)
(***************************************************************************)
EXTENDS SqlService, FiniteSetTheorems, TLAPS

\* What a request holds before it was accepted and while it is queued.
Untouched(r) == result[r] = "OK" /\ durable[r] = 0

\* The tables of the service agree with each other.
TableInv ==
  /\ \A r \in Requests :
       /\ r >= nextId => state[r] = "none"
       /\ state[r] = "none" => statements[r] = 0 /\ reserved[r] = 0
       /\ state[r] # "none" => statements[r] \in 1..MaxStatements
       /\ state[r] = "Released" => reserved[r] = 0
       /\ state[r] \in {"none", "Queued"} => Untouched(r)

\* The worker has the one running request, if there is one.
JobInv ==
  /\ job = 0 <=> worker \in {"waiting", "finished"}
  /\ \A r \in Requests : state[r] = "Running" <=> r = job

\* What is durable of request r agrees with its result.
Truth(r) ==
  /\ durable[r] \in {0, statements[r]}
  /\ result[r] = "OK" => durable[r] = statements[r]
  /\ result[r] \notin {"OK", "OUTCOME_UNKNOWN"} => durable[r] = 0

\* The driver, place by place.
DriverInv ==
  /\ worker \in {"picked", "begin", "run", "commit"} => Untouched(job)
  /\ worker \in {"run", "commit"} => txn = job /\ position <= statements[job]
  /\ worker = "cleanup" =>
       /\ txn # 0 => durable[job] = 0 /\ result[job] # "OK"
       /\ Truth(job)
  /\ worker = "publish" => Truth(job)
  /\ txn # 0 /\ worker \notin {"run", "commit", "cleanup"} => poisoned
  /\ poisoned => worker \notin {"begin", "run", "commit", "cleanup"}
  /\ \A r \in Answered : Truth(r)

\* What the end of the service implies.
EndInv ==
  /\ worker = "finished" => stopping /\ \A r \in Requests : state[r] # "Queued"
  /\ stopper = "returned" => worker = "finished"
  /\ told => worker = "finished" /\ \A r \in Requests : state[r] # "Complete"

Inv == TypeOK /\ TableInv /\ JobInv /\ DriverInv /\ EndInv /\ InOrder /\ ReservationsExact

\* Ids are positive.
LEMMA RequestIds == Requests \subseteq Nat /\ 0 \notin Requests
BY SqlAssumption DEF Requests

\* What one request reserves is part of reserved_bytes_, so that the unsigned
\* subtraction in release cannot wrap.
LEMMA ReservedWithin ==
  ASSUME TypeOK, ReservationsExact, NEW r \in Requests
  PROVE  reserved[r] <= reservedBytes
<1> DEFINE m == MaxRequestId - 1
<1>1. PICK sums \in [0..m -> 0..MemoryBudget] : IsPartialSum(sums) /\ reservedBytes = sums[m]
  BY DEF ReservationsExact
<1>2. /\ m \in Nat /\ r \in 0..m /\ r - 1 \in 0..m /\ m \in 0..m /\ r <= m
      /\ MemoryBudget \in Nat /\ reserved[r] \in Nat
  BY SqlAssumption DEF Requests, TypeOK
<1>3. sums[r] = sums[r - 1] + reserved[r] /\ sums[r] <= sums[m]
  BY <1>1, <1>2 DEF IsPartialSum
<1>4. sums[r] \in Nat /\ sums[r - 1] \in Nat /\ sums[m] \in Nat
  BY <1>1, <1>2
<1> QED  BY <1>1, <1>2, <1>3, <1>4

\* The set of outstanding requests is finite.
LEMMA OutstandingFinite == IsFiniteSet(Outstanding) /\ Cardinality(Outstanding) \in Nat
<1>1. IsFiniteSet(Requests)
  BY FS_Interval, SqlAssumption DEF Requests
<1>2. Outstanding \in SUBSET Requests
  BY DEF Outstanding
<1>3. IsFiniteSet(Outstanding)
  BY <1>1, <1>2, FS_Subset
<1> QED  BY <1>3, FS_CardinalityType

\* A step that neither accepts nor releases a request keeps the accounting.
LEMMA SameReservations ==
  ASSUME ReservationsExact, UNCHANGED <<reserved, reservedBytes>>, Outstanding' = Outstanding
  PROVE  ReservationsExact'
BY DEF ReservationsExact, IsPartialSum

\* An accepted submit keeps the accounting: the running totals grow by its size
\* from its id on, and the budget was tested before.
LEMMA SubmitReserves ==
  ASSUME TypeOK, TableInv, ReservationsExact,
         NEW n \in 1..MaxStatements, NEW size \in 1..MaxReserved, submit(n, size)
  PROVE  ReservationsExact'
<1> DEFINE m == MaxRequestId - 1
<1>1. /\ m \in Nat /\ MemoryBudget \in Nat /\ size \in Nat /\ reservedBytes \in Nat
      /\ MaxOutstanding \in Nat
      /\ nextId \in Requests /\ nextId \in 1..m /\ m \in 0..m
      /\ reservedBytes + size <= MemoryBudget
      /\ reservedBytes' = reservedBytes + size
      /\ state[nextId] = "none" /\ reserved[nextId] = 0
  BY SqlAssumption DEF submit, Admissible, Requests, TypeOK, TableInv
<1>2. \A r \in Requests : reserved'[r] = IF r = nextId THEN size ELSE reserved[r]
  BY <1>1 DEF submit, TypeOK
<1>3. Cardinality(Outstanding') <= MaxOutstanding
  <2>1. Outstanding' = Outstanding \cup {nextId} /\ nextId \notin Outstanding
    BY <1>1 DEF submit, Outstanding, TypeOK
  <2>2. Cardinality(Outstanding \cup {nextId}) = Cardinality(Outstanding) + 1
    BY <2>1, OutstandingFinite, FS_AddElement
  <2>3. Cardinality(Outstanding) < MaxOutstanding
    BY DEF submit, Admissible
  <2> QED  BY <1>1, <2>1, <2>2, <2>3, OutstandingFinite
<1>4. PICK sums \in [0..m -> 0..MemoryBudget] : IsPartialSum(sums) /\ reservedBytes = sums[m]
  BY DEF ReservationsExact
<1>5. \A i \in 0..m : sums[i] \in Nat /\ sums[i] <= reservedBytes
  BY <1>1, <1>4 DEF IsPartialSum
<1>6. PICK s \in [0..m -> 0..MemoryBudget] :
        \A i \in 0..m : s[i] = IF i < nextId THEN sums[i] ELSE sums[i] + size
  <2> DEFINE t == [i \in 0..m |-> IF i < nextId THEN sums[i] ELSE sums[i] + size]
  <2>1. t \in [0..m -> 0..MemoryBudget]
    BY <1>1, <1>4, <1>5
  <2> QED  BY <2>1
<1>7. s[0] = 0
  BY <1>1, <1>4, <1>6 DEF IsPartialSum
<1>8. \A r \in Requests : s[r] = s[r - 1] + reserved'[r]
  <2> TAKE r \in Requests
  <2>1. /\ r \in 0..m /\ r - 1 \in 0..m
        /\ sums[r] = sums[r - 1] + reserved[r] /\ reserved[r] \in Nat
    <3>1. r \in 0..m /\ r - 1 \in 0..m
      BY <1>1 DEF Requests
    <3>2. sums[r] = sums[r - 1] + reserved[r]
      BY <1>4 DEF IsPartialSum
    <3>3. reserved[r] \in Nat
      BY SqlAssumption DEF TypeOK
    <3> QED  BY <3>1, <3>2, <3>3
  <2>2. sums[r] \in Nat /\ sums[r - 1] \in Nat
    BY <1>5, <2>1
  <2>3. CASE r = nextId
    <3>1. s[r - 1] = sums[r - 1] /\ s[r] = sums[r] + size
      BY <1>1, <1>6, <2>1, <2>3
    <3>2. reserved'[r] = size
      BY <1>2, <2>3
    <3> QED  BY <1>1, <2>1, <2>2, <2>3, <3>1, <3>2
  <2>4. CASE r # nextId
    <3>1. reserved'[r] = reserved[r]
      BY <1>2, <2>4
    <3>2. \/ s[r - 1] = sums[r - 1] /\ s[r] = sums[r]
          \/ s[r - 1] = sums[r - 1] + size /\ s[r] = sums[r] + size
      BY <1>1, <1>6, <2>1, <2>4
    <3> QED  BY <1>1, <2>1, <2>2, <3>1, <3>2
  <2> QED  BY <2>3, <2>4
<1>9. \A i, j \in 0..m : i <= j => s[i] <= s[j]
  <2> SUFFICES ASSUME NEW i \in 0..m, NEW j \in 0..m, i <= j PROVE s[i] <= s[j]
    OBVIOUS
  <2>1. sums[i] <= sums[j] /\ sums[i] \in Nat /\ sums[j] \in Nat
    BY <1>4, <1>5 DEF IsPartialSum
  <2> QED  BY <1>1, <1>6, <2>1
<1>10. IsPartialSum(s)' /\ reservedBytes' = s[m]
  BY <1>1, <1>4, <1>6, <1>7, <1>8, <1>9 DEF IsPartialSum
<1> QED  BY <1>3, <1>10 DEF ReservationsExact

\* A release keeps the accounting: the running totals shrink by what the
\* request reserved, from its id on.
LEMMA ReleaseReserves ==
  ASSUME TypeOK, ReservationsExact, NEW r \in Requests, release(r)
  PROVE  ReservationsExact'
<1> DEFINE m == MaxRequestId - 1
           x == reserved[r]
<1>1. /\ m \in Nat /\ MemoryBudget \in Nat /\ x \in Nat /\ reservedBytes \in Nat
      /\ MaxOutstanding \in Nat /\ r \in 1..m /\ r - 1 \in 0..m /\ m \in 0..m
      /\ reservedBytes' = reservedBytes - x
  BY SqlAssumption DEF release, Requests, TypeOK
<1>2. \A q \in Requests : reserved'[q] = IF q = r THEN 0 ELSE reserved[q]
  BY DEF release, TypeOK
<1>3. Cardinality(Outstanding') <= MaxOutstanding
  <2>1. Outstanding' = Outstanding \ {r} /\ r \in Outstanding
    BY DEF release, Outstanding, TypeOK
  <2>2. Cardinality(Outstanding \ {r}) = Cardinality(Outstanding) - 1
    BY <2>1, OutstandingFinite, FS_RemoveElement
  <2>3. Cardinality(Outstanding) <= MaxOutstanding
    BY DEF ReservationsExact
  <2> QED  BY <1>1, <2>1, <2>2, <2>3, OutstandingFinite
<1>4. PICK sums \in [0..m -> 0..MemoryBudget] : IsPartialSum(sums) /\ reservedBytes = sums[m]
  BY DEF ReservationsExact
<1>5. /\ \A i \in 0..m : sums[i] \in Nat /\ sums[i] <= MemoryBudget
      /\ sums[r] = sums[r - 1] + x
      /\ \A i \in 0..m : i >= r => sums[i] >= x
      /\ \A i \in 0..m : i >= r => sums[r] <= sums[i]
      /\ \A i \in 0..m : i < r => sums[i] <= sums[r - 1]
  <2>1. \A i \in 0..m : sums[i] \in Nat /\ sums[i] <= MemoryBudget
    BY <1>1, <1>4
  <2>2. sums[r] = sums[r - 1] + x
    BY <1>4 DEF IsPartialSum
  <2>3. \A i \in 0..m : i >= r => sums[r] <= sums[i]
    BY <1>1, <1>4 DEF IsPartialSum
  <2>4. \A i \in 0..m : i < r => sums[i] <= sums[r - 1]
    BY <1>1, <1>4 DEF IsPartialSum
  <2>5. \A i \in 0..m : i >= r => sums[i] >= x
    <3> TAKE i \in 0..m
    <3> HAVE i >= r
    <3>1. sums[i] \in Nat /\ sums[r - 1] \in Nat /\ sums[r] <= sums[i]
      BY <1>1, <2>1, <2>3
    <3> HIDE DEF x
    <3> QED  BY <1>1, <2>2, <3>1
  <2> HIDE DEF x
  <2> QED  BY <2>1, <2>2, <2>3, <2>4, <2>5
<1>6. PICK s \in [0..m -> 0..MemoryBudget] :
        \A i \in 0..m : s[i] = IF i < r THEN sums[i] ELSE sums[i] - x
  <2> DEFINE t == [i \in 0..m |-> IF i < r THEN sums[i] ELSE sums[i] - x]
  <2> HIDE DEF x
  <2>1. \A i \in 0..m : (IF i < r THEN sums[i] ELSE sums[i] - x) \in 0..MemoryBudget
    BY <1>1, <1>5
  <2>2. t \in [0..m -> 0..MemoryBudget]
    BY <2>1
  <2> QED  BY <2>2
<1>7. s[0] = 0
  BY <1>1, <1>4, <1>6 DEF IsPartialSum
<1>8. \A q \in Requests : s[q] = s[q - 1] + reserved'[q]
  <2> TAKE q \in Requests
  <2>1. /\ q \in 0..m /\ q - 1 \in 0..m
        /\ sums[q] = sums[q - 1] + reserved[q] /\ reserved[q] \in Nat
    <3>1. q \in 0..m /\ q - 1 \in 0..m
      BY <1>1 DEF Requests
    <3>2. sums[q] = sums[q - 1] + reserved[q]
      BY <1>4 DEF IsPartialSum
    <3>3. reserved[q] \in Nat
      BY SqlAssumption DEF TypeOK
    <3> QED  BY <3>1, <3>2, <3>3
  <2>2. sums[q] \in Nat /\ sums[q - 1] \in Nat
    BY <1>5, <2>1
  <2> HIDE DEF x
  <2>3. CASE q = r
    <3>1. s[q - 1] = sums[q - 1] /\ s[q] = sums[q] - x
      BY <1>1, <1>6, <2>1, <2>3
    <3>2. reserved'[q] = 0
      BY <1>2, <2>3
    <3>3. sums[q] = sums[q - 1] + x
      BY <2>1, <2>3 DEF x
    <3> QED  BY <1>1, <2>2, <3>1, <3>2, <3>3
  <2>4. CASE q # r
    <3>1. reserved'[q] = reserved[q]
      BY <1>2, <2>4
    <3>2. \/ s[q - 1] = sums[q - 1] /\ s[q] = sums[q]
          \/ s[q - 1] = sums[q - 1] - x /\ s[q] = sums[q] - x
      BY <1>1, <1>6, <2>1, <2>4
    <3> QED  BY <1>1, <2>1, <2>2, <3>1, <3>2
  <2> QED  BY <2>3, <2>4
<1>9. \A i, j \in 0..m : i <= j => s[i] <= s[j]
  <2> SUFFICES ASSUME NEW i \in 0..m, NEW j \in 0..m, i <= j PROVE s[i] <= s[j]
    OBVIOUS
  <2>1. /\ sums[i] <= sums[j] /\ sums[i] \in Nat /\ sums[j] \in Nat /\ sums[r - 1] \in Nat
        /\ sums[r] \in Nat
    BY <1>1, <1>4, <1>5 DEF IsPartialSum
  <2> HIDE DEF x
  <2>2. CASE i < r /\ j >= r
    <3>1. sums[i] <= sums[r - 1] /\ sums[r - 1] + x <= sums[j]
      BY <1>5, <2>2
    <3> QED  BY <1>1, <1>6, <2>1, <2>2, <3>1
  <2>3. CASE ~(i < r /\ j >= r)
    BY <1>1, <1>6, <2>1, <2>3
  <2> QED  BY <2>2, <2>3
<1>10. IsPartialSum(s)' /\ reservedBytes' = s[m]
  BY <1>1, <1>4, <1>6, <1>7, <1>8, <1>9 DEF IsPartialSum
<1> QED  BY <1>3, <1>10 DEF ReservationsExact

\* A step outside the tables of the service, and outside the driver, leaves
\* order, reservations and the tables themselves alone.
LEMMA TablesFrame ==
  ASSUME Inv, UNCHANGED <<requestVars, result, durable>>
  PROVE  TableInv' /\ InOrder' /\ ReservationsExact'
<1>1. TableInv' /\ InOrder'
  BY DEF Inv, TableInv, Untouched, InOrder, requestVars
<1>2. Outstanding' = Outstanding
  BY DEF Outstanding, requestVars
<1> QED  BY <1>1, <1>2, SameReservations DEF Inv, requestVars

\* A step of the driver touches the result and the effect of the running
\* request only, so that it disturbs nothing but its own part of the invariant.
LEMMA DriverFrame ==
  ASSUME Inv, job # 0, UNCHANGED <<requestVars, stopVars, job, told>>,
         worker \notin {"waiting", "finished"}, worker' \notin {"waiting", "finished"},
         \A r \in Requests \ {job} : result'[r] = result[r] /\ durable'[r] = durable[r]
  PROVE  /\ TableInv' /\ JobInv' /\ EndInv' /\ InOrder' /\ ReservationsExact'
         /\ \A r \in Answered' : Truth(r)'
<1>1. job \in Requests /\ state[job] = "Running"
  BY DEF Inv, TypeOK, JobInv
<1>2. TableInv'
  BY <1>1 DEF Inv, TableInv, Untouched, requestVars
<1>3. JobInv' /\ EndInv' /\ InOrder'
  BY DEF Inv, JobInv, EndInv, InOrder, requestVars, stopVars
<1>4. ReservationsExact'
  <2>1. Outstanding' = Outstanding
    BY DEF Outstanding, requestVars
  <2> QED  BY <2>1, SameReservations DEF Inv, requestVars
<1>5. \A r \in Answered' : Truth(r)'
  <2>1. \A r \in Answered' : r \in Answered /\ r \in Requests \ {job}
    BY <1>1 DEF Answered, requestVars
  <2> QED  BY <2>1 DEF Inv, DriverInv, Truth, requestVars
<1> QED  BY <1>2, <1>3, <1>4, <1>5

\* An accepted submit keeps the invariant.
LEMMA SubmitKeeps ==
  ASSUME Inv, NEW n \in 1..MaxStatements, NEW size \in 1..MaxReserved, submit(n, size)
  PROVE  Inv'
<1> USE RequestIds, SqlAssumption
<1>1. TypeOK'
  <2>1. /\ nextId \in Requests /\ nextId + 1 \in 1..MaxRequestId
        /\ reservedBytes + size \in 0..MemoryBudget
    BY DEF Inv, TypeOK, submit, Admissible, Requests
  <2> QED  BY <2>1 DEF Inv, TypeOK, submit, States, stopVars, driverVars
<1>2. TableInv'
  BY DEF Inv, TypeOK, TableInv, Untouched, submit, driverVars
<1>3. JobInv'
  BY DEF Inv, TableInv, JobInv, submit, driverVars
<1>4. DriverInv'
  BY DEF Inv, TypeOK, TableInv, JobInv, DriverInv, Truth, Untouched, Answered, submit,
     driverVars
<1>5. EndInv'
  BY DEF Inv, EndInv, submit, Admissible, stopVars
<1>6. InOrder'
  BY DEF Inv, TableInv, InOrder, submit
<1>7. ReservationsExact'
  BY SubmitReserves DEF Inv
<1> QED  BY <1>1, <1>2, <1>3, <1>4, <1>5, <1>6, <1>7 DEF Inv

\* So does one whose insertion throws: its id is used up, nothing is reserved.
LEMMA SubmitThrowsKeeps ==
  ASSUME Inv, NEW size \in 1..MaxReserved, SubmitThrows(size)
  PROVE  Inv'
<1> USE RequestIds, SqlAssumption
<1>1. TypeOK'
  BY DEF Inv, TypeOK, SubmitThrows, Admissible, stopVars, driverVars
<1>2. TableInv'
  BY DEF Inv, TypeOK, TableInv, Untouched, SubmitThrows, driverVars
<1>3. JobInv'
  BY DEF Inv, JobInv, SubmitThrows, driverVars
<1>4. DriverInv'
  BY DEF Inv, DriverInv, Truth, Untouched, Answered, SubmitThrows, driverVars
<1>5. EndInv'
  BY DEF Inv, EndInv, SubmitThrows, stopVars
<1>6. InOrder'
  BY DEF Inv, InOrder, SubmitThrows
<1>7. ReservationsExact'
  <2>1. Outstanding' = Outstanding
    BY DEF Outstanding, SubmitThrows
  <2> QED  BY <2>1, SameReservations DEF Inv, SubmitThrows
<1> QED  BY <1>1, <1>2, <1>3, <1>4, <1>5, <1>6, <1>7 DEF Inv

\* poll hands out the oldest answer and keeps the invariant.
LEMMA PollKeeps ==
  ASSUME Inv, NEW r \in Requests, poll(r)
  PROVE  Inv'
<1> USE RequestIds, SqlAssumption
<1>1. TypeOK'
  BY DEF Inv, TypeOK, poll, stopVars, driverVars, States
<1>2. TableInv'
  BY DEF Inv, TableInv, Untouched, poll, IsFirst, driverVars
<1>3. JobInv'
  BY DEF Inv, JobInv, poll, IsFirst, driverVars
<1>4. DriverInv'
  BY DEF Inv, DriverInv, Truth, Untouched, Answered, poll, IsFirst, driverVars
<1>5. EndInv'
  BY DEF Inv, EndInv, poll, stopVars
<1>6. InOrder'
  BY DEF Inv, InOrder, poll, IsFirst
<1>7. ReservationsExact'
  <2>1. Outstanding' = Outstanding
    BY DEF Outstanding, poll, IsFirst
  <2> QED  BY <2>1, SameReservations DEF Inv, poll
<1> QED  BY <1>1, <1>2, <1>3, <1>4, <1>5, <1>6, <1>7 DEF Inv

\* A poll that returns SE_STOPPED keeps it: the worker has finished and no answer
\* is left.
LEMMA PollStoppedKeeps ==
  ASSUME Inv, PollStopped
  PROVE  Inv'
<1> USE RequestIds, SqlAssumption
<1>1. TypeOK'
  BY DEF Inv, TypeOK, PollStopped, requestVars, stopVars, driverVars
<1>2. TableInv' /\ InOrder' /\ ReservationsExact'
  BY TablesFrame DEF PollStopped, driverVars
<1>3. JobInv' /\ DriverInv'
  BY DEF Inv, JobInv, DriverInv, Truth, Answered, PollStopped, requestVars, driverVars
<1>4. EndInv'
  BY DEF Inv, EndInv, PollStopped, requestVars, stopVars
<1> QED  BY <1>1, <1>2, <1>3, <1>4 DEF Inv

\* release keeps it, and its subtraction stays within the budget.
LEMMA ReleaseKeeps ==
  ASSUME Inv, NEW r \in Requests, release(r)
  PROVE  Inv'
<1> USE RequestIds, SqlAssumption
<1>1. TypeOK'
  <2>1. reserved[r] <= reservedBytes
    BY ReservedWithin DEF Inv
  <2>2. reservedBytes - reserved[r] \in 0..MemoryBudget
    BY <2>1 DEF Inv, TypeOK
  <2> QED  BY <2>2 DEF Inv, TypeOK, release, States, stopVars, driverVars
<1>2. TableInv'
  BY DEF Inv, TypeOK, TableInv, Untouched, release, driverVars
<1>3. JobInv'
  BY DEF Inv, JobInv, release, driverVars
<1>4. DriverInv'
  BY DEF Inv, DriverInv, Truth, Untouched, Answered, release, driverVars
<1>5. EndInv'
  BY DEF Inv, EndInv, release, stopVars
<1>6. InOrder'
  BY DEF Inv, InOrder, release
<1>7. ReservationsExact'
  BY ReleaseReserves DEF Inv
<1> QED  BY <1>1, <1>2, <1>3, <1>4, <1>5, <1>6, <1>7 DEF Inv

\* stop keeps it at whatever moment of the worker it is called.
LEMMA StopKeeps ==
  ASSUME Inv, stop
  PROVE  Inv'
<1> USE RequestIds, SqlAssumption
<1>1. TypeOK'
  BY DEF Inv, TypeOK, stop, requestVars, driverVars
<1>2. TableInv' /\ InOrder' /\ ReservationsExact'
  BY TablesFrame DEF stop, driverVars
<1>3. JobInv' /\ DriverInv'
  BY DEF Inv, JobInv, DriverInv, Truth, Untouched, Answered, stop, requestVars, driverVars
<1>4. EndInv'
  BY DEF Inv, EndInv, stop, requestVars
<1> QED  BY <1>1, <1>2, <1>3, <1>4 DEF Inv

\* The end of the join keeps it.
LEMMA JoinKeeps ==
  ASSUME Inv, Join
  PROVE  Inv'
<1> USE RequestIds, SqlAssumption
<1>1. TypeOK'
  BY DEF Inv, TypeOK, Join, requestVars, driverVars
<1>2. TableInv' /\ InOrder' /\ ReservationsExact'
  BY TablesFrame DEF Join, driverVars
<1>3. JobInv' /\ DriverInv'
  BY DEF Inv, JobInv, DriverInv, Truth, Answered, Join, requestVars, driverVars
<1>4. EndInv'
  BY DEF Inv, EndInv, Join, requestVars
<1> QED  BY <1>1, <1>2, <1>3, <1>4 DEF Inv

\* The worker takes the oldest queued request: whatever is behind it still waits.
LEMMA TakeKeeps ==
  ASSUME Inv, Take
  PROVE  Inv'
<1> USE RequestIds, SqlAssumption
<1>1. TypeOK'
  BY DEF Inv, TypeOK, Take, stopVars, Places, States
<1>2. TableInv'
  BY DEF Inv, TableInv, Untouched, Take, IsFirst
<1>3. JobInv'
  BY DEF Inv, TypeOK, JobInv, Take
<1>4. DriverInv'
  BY DEF Inv, TableInv, DriverInv, Truth, Untouched, Answered, Take, IsFirst
<1>5. EndInv'
  BY DEF Inv, EndInv, Take, stopVars
<1>6. InOrder'
  <2>1. PICK r \in Requests : IsFirst(r, "Queued") /\ state' = [state EXCEPT ![r] = "Running"]
    BY DEF Take
  <2>2. \A q \in Requests : state[q] # "Running"
    BY DEF Inv, JobInv, Take
  <2>3. \A q \in Requests : q < r => state[q] \notin {"Queued", "Running"}
    BY <2>1, <2>2 DEF IsFirst
  <2>4. \A q \in Requests :
          r < q => state[q] \notin {"Running", "Complete", "Delivered", "Released"}
    BY <2>1 DEF Inv, InOrder, IsFirst
  <2>5. \A q \in Requests : state'[q] = IF q = r THEN "Running" ELSE state[q]
    BY <2>1 DEF Inv, TypeOK
  <2> QED  BY <2>3, <2>4, <2>5 DEF Inv, InOrder
<1>7. ReservationsExact'
  <2>1. Outstanding' = Outstanding
    BY DEF Outstanding, Take, IsFirst
  <2> QED  BY <2>1, SameReservations DEF Inv, Take
<1> QED  BY <1>1, <1>2, <1>3, <1>4, <1>5, <1>6, <1>7 DEF Inv

\* The worker leaves only when nothing is queued, which keeps the invariant.
LEMMA FinishKeeps ==
  ASSUME Inv, Finish
  PROVE  Inv'
<1> USE RequestIds, SqlAssumption
<1>1. TypeOK'
  BY DEF Inv, TypeOK, Finish, requestVars, stopVars, driverVars, Places
<1>2. TableInv' /\ InOrder' /\ ReservationsExact'
  BY TablesFrame DEF Finish, driverVars
<1>3. JobInv' /\ DriverInv'
  BY DEF Inv, JobInv, DriverInv, Truth, Answered, Finish, requestVars, driverVars
<1>4. EndInv'
  BY DEF Inv, EndInv, Finish, requestVars, stopVars
<1> QED  BY <1>1, <1>2, <1>3, <1>4 DEF Inv

\* Publishing an answer keeps it: what cleanup left in the result is the truth.
LEMMA PublishKeeps ==
  ASSUME Inv, Publish
  PROVE  Inv'
<1> USE RequestIds, SqlAssumption
<1>1. TypeOK'
  <2>1. job \in Requests /\ expired' \in BOOLEAN
    BY DEF Inv, TypeOK, JobInv, Publish
  <2>2. /\ state' \in [Requests -> States] /\ job' \in Requests \cup {0}
        /\ position' \in 0..MaxStatements /\ worker' \in Places
    BY <2>1 DEF Inv, TypeOK, Publish, States, Places
  <2> QED  BY <2>1, <2>2 DEF Inv, TypeOK, Publish, stopVars
<1>2. TableInv'
  BY DEF Inv, TableInv, JobInv, Untouched, Publish
<1>3. JobInv'
  BY DEF Inv, TypeOK, JobInv, Publish
<1>4. DriverInv'
  BY DEF Inv, DriverInv, Truth, Answered, Publish
<1>5. EndInv'
  BY DEF Inv, EndInv, Publish, stopVars
<1>6. InOrder'
  BY DEF Inv, JobInv, InOrder, Publish
<1>7. ReservationsExact'
  <2>1. Outstanding' = Outstanding
    BY DEF Inv, TypeOK, JobInv, Outstanding, Publish
  <2> QED  BY <2>1, SameReservations DEF Inv, Publish
<1> QED  BY <1>1, <1>2, <1>3, <1>4, <1>5, <1>6, <1>7 DEF Inv

\* The early returns before the driver starts keep it: nothing was executed.
LEMMA PrepareKeeps ==
  ASSUME Inv, Prepare
  PROVE  Inv'
<1> USE RequestIds, SqlAssumption
<1>1. TypeOK'
  BY DEF Inv, TypeOK, Prepare, Fail, requestVars, stopVars, Places, Statuses
<1>2. /\ TableInv' /\ JobInv' /\ EndInv' /\ InOrder' /\ ReservationsExact'
      /\ \A r \in Answered' : Truth(r)'
  <2>1. /\ job # 0 /\ UNCHANGED <<requestVars, stopVars, job, told>>
        /\ worker \notin {"waiting", "finished"} /\ worker' \notin {"waiting", "finished"}
    BY DEF Inv, JobInv, Prepare
  <2>2. \A r \in Requests \ {job} : result'[r] = result[r] /\ durable'[r] = durable[r]
    BY DEF Inv, TypeOK, Prepare, Fail
  <2> QED  BY <2>1, <2>2, DriverFrame
<1>3. DriverInv'
  BY <1>2 DEF Inv, TypeOK, JobInv, DriverInv, Truth, Untouched, Prepare, Fail
<1> QED  BY <1>1, <1>2, <1>3 DEF Inv

\* The deadline may pass at any moment.
LEMMA ExpireKeeps ==
  ASSUME Inv, Expire
  PROVE  Inv'
<1> USE RequestIds, SqlAssumption
<1>1. TypeOK'
  BY DEF Inv, TypeOK, Expire, requestVars, stopVars
<1>2. /\ TableInv' /\ JobInv' /\ EndInv' /\ InOrder' /\ ReservationsExact'
      /\ \A r \in Answered' : Truth(r)'
  <2>1. /\ job # 0 /\ UNCHANGED <<requestVars, stopVars, job, told>>
        /\ worker \notin {"waiting", "finished"} /\ worker' \notin {"waiting", "finished"}
    BY DEF Inv, JobInv, Expire
  <2>2. \A r \in Requests \ {job} : result'[r] = result[r] /\ durable'[r] = durable[r]
    BY DEF Expire
  <2> QED  BY <2>1, <2>2, DriverFrame
<1>3. DriverInv'
  BY <1>2 DEF Inv, DriverInv, Untouched, Expire, requestVars
<1> QED  BY <1>1, <1>2, <1>3 DEF Inv

\* BEGIN, or its failure, keeps the invariant.
LEMMA BeginKeeps ==
  ASSUME Inv, Begin
  PROVE  Inv'
<1> USE RequestIds, SqlAssumption
<1>1. TypeOK'
  BY DEF Inv, TypeOK, Begin, Throw, Fail, Failures, requestVars, stopVars, Places, Statuses
<1>2. /\ TableInv' /\ JobInv' /\ EndInv' /\ InOrder' /\ ReservationsExact'
      /\ \A r \in Answered' : Truth(r)'
  <2>1. /\ job # 0 /\ UNCHANGED <<requestVars, stopVars, job, told>>
        /\ worker \notin {"waiting", "finished"} /\ worker' \notin {"waiting", "finished"}
    BY DEF Inv, JobInv, Begin, Throw
  <2>2. \A r \in Requests \ {job} : result'[r] = result[r] /\ durable'[r] = durable[r]
    BY DEF Inv, TypeOK, Begin, Throw, Fail
  <2> QED  BY <2>1, <2>2, DriverFrame
<1>3. DriverInv'
  BY <1>2 DEF Inv, TypeOK, TableInv, JobInv, DriverInv, Truth, Untouched, Begin, Throw,
     Fail, Failures
<1> QED  BY <1>1, <1>2, <1>3 DEF Inv

\* A statement inside its transaction makes nothing durable.
LEMMA StatementKeeps ==
  ASSUME Inv, execute_statement
  PROVE  Inv'
<1> USE RequestIds, SqlAssumption
<1>1. TypeOK'
  BY DEF Inv, TypeOK, JobInv, DriverInv, execute_statement, Autocommitted, requestVars,
     stopVars
<1>2. /\ TableInv' /\ JobInv' /\ EndInv' /\ InOrder' /\ ReservationsExact'
      /\ \A r \in Answered' : Truth(r)'
  <2>1. /\ job # 0 /\ UNCHANGED <<requestVars, stopVars, job, told>>
        /\ worker \notin {"waiting", "finished"} /\ worker' \notin {"waiting", "finished"}
    BY DEF Inv, JobInv, execute_statement
  <2>2. \A r \in Requests \ {job} : result'[r] = result[r] /\ durable'[r] = durable[r]
    BY DEF execute_statement
  <2> QED  BY <2>1, <2>2, DriverFrame
<1>3. DriverInv'
  BY <1>2 DEF Inv, TypeOK, JobInv, DriverInv, Untouched, execute_statement, Autocommitted,
     requestVars
<1> QED  BY <1>1, <1>2, <1>3 DEF Inv

\* A failed statement keeps the invariant, whether or not SQLite rolled back.
LEMMA StatementFailsKeeps ==
  ASSUME Inv, StatementFails
  PROVE  Inv'
<1> USE RequestIds, SqlAssumption
<1>1. TypeOK'
  BY DEF Inv, TypeOK, StatementFails, Throw, Fail, Failures, requestVars, stopVars, Places,
     Statuses
<1>2. /\ TableInv' /\ JobInv' /\ EndInv' /\ InOrder' /\ ReservationsExact'
      /\ \A r \in Answered' : Truth(r)'
  <2>1. /\ job # 0 /\ UNCHANGED <<requestVars, stopVars, job, told>>
        /\ worker \notin {"waiting", "finished"} /\ worker' \notin {"waiting", "finished"}
    BY DEF Inv, JobInv, StatementFails, Throw
  <2>2. \A r \in Requests \ {job} : result'[r] = result[r] /\ durable'[r] = durable[r]
    BY DEF StatementFails, Throw, Fail
  <2> QED  BY <2>1, <2>2, DriverFrame
<1>3. DriverInv'
  BY <1>2 DEF Inv, TypeOK, JobInv, DriverInv, Truth, Untouched, StatementFails, Throw, Fail,
     Failures
<1> QED  BY <1>1, <1>2, <1>3 DEF Inv

\* The last look at the flag and the clock keeps it.
LEMMA LastCheckKeeps ==
  ASSUME Inv, LastCheck
  PROVE  Inv'
<1> USE RequestIds, SqlAssumption
<1>1. TypeOK'
  BY DEF Inv, TypeOK, LastCheck, Throw, Fail, Failures, requestVars, stopVars, Places,
     Statuses
<1>2. /\ TableInv' /\ JobInv' /\ EndInv' /\ InOrder' /\ ReservationsExact'
      /\ \A r \in Answered' : Truth(r)'
  <2>1. /\ job # 0 /\ UNCHANGED <<requestVars, stopVars, job, told>>
        /\ worker \notin {"waiting", "finished"} /\ worker' \notin {"waiting", "finished"}
    BY DEF Inv, JobInv, LastCheck, Throw
  <2>2. \A r \in Requests \ {job} : result'[r] = result[r] /\ durable'[r] = durable[r]
    BY DEF Inv, TypeOK, LastCheck, Throw, Fail
  <2> QED  BY <2>1, <2>2, DriverFrame
<1>3. DriverInv'
  BY <1>2 DEF Inv, TypeOK, JobInv, DriverInv, Truth, Untouched, LastCheck, Throw, Fail,
     Failures, requestVars
<1> QED  BY <1>1, <1>2, <1>3 DEF Inv

\* A successful COMMIT keeps it: everything is durable and the result is OK.
LEMMA CommitSucceedsKeeps ==
  ASSUME Inv, CommitSucceeds
  PROVE  Inv'
<1> USE RequestIds, SqlAssumption
<1>1. TypeOK'
  BY DEF Inv, TypeOK, CommitSucceeds, requestVars, stopVars, Places
<1>2. /\ TableInv' /\ JobInv' /\ EndInv' /\ InOrder' /\ ReservationsExact'
      /\ \A r \in Answered' : Truth(r)'
  <2>1. /\ job # 0 /\ UNCHANGED <<requestVars, stopVars, job, told>>
        /\ worker \notin {"waiting", "finished"} /\ worker' \notin {"waiting", "finished"}
    BY DEF Inv, JobInv, CommitSucceeds
  <2>2. \A r \in Requests \ {job} : result'[r] = result[r] /\ durable'[r] = durable[r]
    BY DEF CommitSucceeds
  <2> QED  BY <2>1, <2>2, DriverFrame
<1>3. DriverInv'
  BY <1>2 DEF Inv, TypeOK, JobInv, DriverInv, Truth, Untouched, CommitSucceeds, requestVars
<1> QED  BY <1>1, <1>2, <1>3 DEF Inv

\* A COMMIT that fails with the transaction open keeps it: nothing is durable.
LEMMA CommitFailsKeeps ==
  ASSUME Inv, CommitFails
  PROVE  Inv'
<1> USE RequestIds, SqlAssumption
<1>1. TypeOK'
  BY DEF Inv, TypeOK, CommitFails, Throw, Fail, Failures, requestVars, stopVars, Places,
     Statuses
<1>2. /\ TableInv' /\ JobInv' /\ EndInv' /\ InOrder' /\ ReservationsExact'
      /\ \A r \in Answered' : Truth(r)'
  <2>1. /\ job # 0 /\ UNCHANGED <<requestVars, stopVars, job, told>>
        /\ worker \notin {"waiting", "finished"} /\ worker' \notin {"waiting", "finished"}
    BY DEF Inv, JobInv, CommitFails, Throw
  <2>2. \A r \in Requests \ {job} : result'[r] = result[r] /\ durable'[r] = durable[r]
    BY DEF CommitFails, Throw, Fail
  <2> QED  BY <2>1, <2>2, DriverFrame
<1>3. DriverInv'
  BY <1>2 DEF Inv, TypeOK, JobInv, DriverInv, Truth, Untouched, CommitFails, Throw, Fail,
     Failures
<1> QED  BY <1>1, <1>2, <1>3 DEF Inv

\* A COMMIT whose outcome is unknown is reported as such.
LEMMA CommitAmbiguousKeeps ==
  ASSUME Inv, CommitAmbiguous
  PROVE  Inv'
<1> USE RequestIds, SqlAssumption
<1>1. TypeOK'
  BY DEF Inv, TypeOK, JobInv, CommitAmbiguous, Throw, Fail, requestVars, stopVars, Places,
     Statuses
<1>2. /\ TableInv' /\ JobInv' /\ EndInv' /\ InOrder' /\ ReservationsExact'
      /\ \A r \in Answered' : Truth(r)'
  <2>1. /\ job # 0 /\ UNCHANGED <<requestVars, stopVars, job, told>>
        /\ worker \notin {"waiting", "finished"} /\ worker' \notin {"waiting", "finished"}
    BY DEF Inv, JobInv, CommitAmbiguous, Throw
  <2>2. \A r \in Requests \ {job} : result'[r] = result[r] /\ durable'[r] = durable[r]
    BY DEF CommitAmbiguous, Throw, Fail
  <2> QED  BY <2>1, <2>2, DriverFrame
<1>3. DriverInv'
  BY <1>2 DEF Inv, TypeOK, JobInv, DriverInv, Truth, Untouched, CommitAmbiguous, Throw,
     Fail, requestVars
<1> QED  BY <1>1, <1>2, <1>3 DEF Inv

\* The rollback keeps the invariant: if it fails the connection is poisoned.
LEMMA CleanupKeeps ==
  ASSUME Inv, Cleanup
  PROVE  Inv'
<1> USE RequestIds, SqlAssumption
<1>1. TypeOK'
  BY DEF Inv, TypeOK, Cleanup, Fail, requestVars, stopVars, Places, Statuses
<1>2. /\ TableInv' /\ JobInv' /\ EndInv' /\ InOrder' /\ ReservationsExact'
      /\ \A r \in Answered' : Truth(r)'
  <2>1. /\ job # 0 /\ UNCHANGED <<requestVars, stopVars, job, told>>
        /\ worker \notin {"waiting", "finished"} /\ worker' \notin {"waiting", "finished"}
    BY DEF Inv, JobInv, Cleanup
  <2>2. \A r \in Requests \ {job} : result'[r] = result[r] /\ durable'[r] = durable[r]
    BY DEF Inv, TypeOK, Cleanup, Fail
  <2> QED  BY <2>1, <2>2, DriverFrame
<1>3. DriverInv'
  BY <1>2 DEF Inv, TypeOK, DriverInv, Truth, Cleanup, Fail, requestVars
<1> QED  BY <1>1, <1>2, <1>3 DEF Inv

\* A stuttering step keeps the invariant.
LEMMA StutterKeeps ==
  ASSUME Inv, UNCHANGED vars
  PROVE  Inv'
<1> USE RequestIds, SqlAssumption
<1>1. TypeOK'
  BY DEF Inv, TypeOK, vars, requestVars, stopVars, driverVars
<1>2. TableInv' /\ InOrder' /\ ReservationsExact'
  BY TablesFrame DEF vars, driverVars
<1>3. JobInv' /\ DriverInv'
  BY DEF Inv, JobInv, DriverInv, Truth, Untouched, Answered, vars, requestVars, driverVars
<1>4. EndInv'
  BY DEF Inv, EndInv, vars, requestVars, stopVars
<1> QED  BY <1>1, <1>2, <1>3, <1>4 DEF Inv

\* A new service satisfies the invariant: nothing is reserved, accepted or durable.
LEMMA InitInv == Init => Inv
<1> SUFFICES ASSUME Init PROVE Inv
  OBVIOUS
<1> USE RequestIds, SqlAssumption
<1>1. TypeOK
  <2>1. stopping \in BOOLEAN /\ expired \in BOOLEAN /\ poisoned \in BOOLEAN /\ told \in BOOLEAN
    BY Zenon DEF Init
  <2> QED  BY <2>1 DEF Init, TypeOK, States, Places, Statuses
<1>2. TableInv
  BY DEF Init, TableInv, Untouched
<1>3. JobInv
  BY DEF Init, JobInv
<1>4. DriverInv
  BY DEF Init, DriverInv, Answered
<1>5. EndInv
  BY DEF Init, EndInv
<1>6. InOrder
  BY DEF Init, InOrder
<1>7. ReservationsExact
  <2> DEFINE m == MaxRequestId - 1
             z == [i \in 0..m |-> 0]
  <2>1. z \in [0..m -> 0..MemoryBudget] /\ m \in 0..m
    OBVIOUS
  <2>2. IsPartialSum(z) /\ reservedBytes = z[m]
    <3>1. \A r \in Requests : r \in 0..m /\ r - 1 \in 0..m /\ reserved[r] = 0
      BY DEF Init, Requests
    <3>2. reservedBytes = 0
      BY DEF Init
    <3> QED  BY <2>1, <3>1, <3>2 DEF IsPartialSum
  <2>3. Outstanding = {}
    BY DEF Init, Outstanding
  <2>4. Cardinality(Outstanding) <= MaxOutstanding
    BY <2>3, FS_EmptySet
  <2> HIDE DEF z
  <2> QED  BY <2>1, <2>2, <2>4 DEF ReservationsExact
<1> QED  BY <1>1, <1>2, <1>3, <1>4, <1>5, <1>6, <1>7 DEF Inv

\* Every step of the worker, of the clock and of an application thread keeps
\* the invariant.
LEMMA NextInv == Inv /\ [Next]_vars => Inv'
<1> SUFFICES ASSUME Inv, [Next]_vars PROVE Inv'
  OBVIOUS
<1>1. CASE Worker
  BY <1>1, TakeKeeps, FinishKeeps, PublishKeeps, PrepareKeeps, BeginKeeps, StatementKeeps,
     StatementFailsKeeps, LastCheckKeeps, CommitSucceedsKeeps, CommitFailsKeeps,
     CommitAmbiguousKeeps, CleanupKeeps DEF Worker
<1>2. CASE Expire
  BY <1>2, ExpireKeeps
<1>3. CASE Application
  <2>1. ASSUME NEW request \in copy_request,
               submit(request.statements, request.reserved) \/ SubmitThrows(request.reserved)
        PROVE  Inv'
    <3>1. request.statements \in 1..MaxStatements /\ request.reserved \in 1..MaxReserved
      BY DEF copy_request
    <3> QED  BY <2>1, <3>1, SubmitKeeps, SubmitThrowsKeeps
  <2> QED  BY <1>3, <2>1, PollKeeps, ReleaseKeeps, PollStoppedKeeps, StopKeeps,
              JoinKeeps DEF Application
<1>4. CASE UNCHANGED vars
  BY <1>4, StutterKeeps
<1> QED  BY <1>1, <1>2, <1>3, <1>4 DEF Next

\* The invariant holds in every reachable state of the service.
THEOREM Invariant == Spec => []Inv
BY InitInv, NextInv, PTL DEF Spec

\* The state of the service stays within its types, the reservation counter
\* within the budget.
THEOREM TypeCorrect == Spec => []TypeOK
<1>1. Inv => TypeOK
  BY DEF Inv
<1> QED  BY <1>1, Invariant, PTL

\* A batch is all or nothing and its answer tells the truth, however stop and
\* the deadline race with COMMIT (SqliteDriver::execute).
THEOREM AnswersAreTrue == Spec => []StatusTruth
<1>1. Inv => StatusTruth
  <2> SUFFICES ASSUME Inv PROVE StatusTruth
    OBVIOUS
  <2>1. \A r \in Answered : Truth(r)
    BY DEF Inv, DriverInv
  <2>2. \A r \in Requests : durable[r] \in {0, statements[r]}
    <3> SUFFICES ASSUME NEW r \in Requests PROVE durable[r] \in {0, statements[r]}
      OBVIOUS
    <3>1. CASE state[r] \in {"none", "Queued"}
      BY <3>1 DEF Inv, TableInv, Untouched
    <3>2. CASE state[r] = "Running"
      <4>1. r = job /\ worker \in {"picked", "begin", "run", "commit", "cleanup", "publish"}
        BY <3>2, RequestIds DEF Inv, JobInv, TypeOK, Places
      <4> QED  BY <4>1 DEF Inv, DriverInv, Untouched, Truth
    <3>3. CASE r \in Answered
      BY <2>1, <3>3 DEF Truth
    <3> QED  BY <3>1, <3>2, <3>3 DEF Inv, TypeOK, States, Answered
  <2> QED  BY <2>1, <2>2 DEF StatusTruth, Truth
<1> QED  BY <1>1, Invariant, PTL

\* Statements and COMMIT run only in the transaction of their own request, and
\* a transaction left open poisons the connection.
THEOREM TransactionsAreSeparate == Spec => []TransactionsSeparate
<1>1. Inv => TransactionsSeparate
  BY DEF Inv, DriverInv, TransactionsSeparate
<1> QED  BY <1>1, Invariant, PTL

\* Requests run, and are answered and read, in the order of their ids.
THEOREM RequestsInOrder == Spec => []InOrder
<1>1. Inv => InOrder
  BY DEF Inv
<1> QED  BY <1>1, Invariant, PTL

\* SE_STOPPED from poll, and the return of stop(), lose no accepted request.
THEOREM StopLosesNothing == Spec => []StoppedLosesNothing
<1>1. Inv => StoppedLosesNothing
  BY RequestIds DEF Inv, TypeOK, JobInv, EndInv, StoppedLosesNothing, States
<1> QED  BY <1>1, Invariant, PTL

\* reserved_bytes_ is exactly the sum of what the outstanding requests reserve
\* and within the budget, so the unsigned arithmetic of submit and release
\* never wraps.
THEOREM ReservationsAreExact == Spec => []ReservationsExact
<1>1. Inv => ReservationsExact
  BY DEF Inv
<1> QED  BY <1>1, Invariant, PTL

\* Neither the answer nor the durable effect of an answered request changes.
LEMMA AnsweredStays ==
  ASSUME Inv, [Next]_vars, NEW r \in Answered
  PROVE  r \in Answered' /\ result'[r] = result[r] /\ durable'[r] = durable[r]
<1> USE RequestIds, SqlAssumption
<1>1. /\ r \in Requests /\ state[r] \in {"Complete", "Delivered", "Released"}
      /\ r # job /\ (nextId # MaxRequestId => r # nextId)
  BY DEF Inv, TableInv, JobInv, Answered
<1>2. CASE Worker
  <2>1. result'[r] = result[r] /\ durable'[r] = durable[r]
    BY <1>1, <1>2 DEF Worker, Inv, TypeOK, Take, Finish, Publish, Prepare, Begin,
       execute_statement, StatementFails, LastCheck, CommitSucceeds, CommitFails,
       CommitAmbiguous, Cleanup, Throw, Fail, driverVars
  <2>2. state'[r] = state[r]
    BY <1>1, <1>2 DEF Worker, Inv, TypeOK, Take, Finish, Publish, Prepare, Begin,
       execute_statement, StatementFails, LastCheck, CommitSucceeds, CommitFails,
       CommitAmbiguous, Cleanup, IsFirst, requestVars
  <2> QED  BY <1>1, <2>1, <2>2 DEF Answered
<1>3. CASE Expire
  BY <1>1, <1>3 DEF Expire, Answered, requestVars
<1>4. CASE Application
  <2>1. result'[r] = result[r] /\ durable'[r] = durable[r]
    BY <1>4 DEF Application, submit, SubmitThrows, poll, PollStopped, release, stop, Join,
       driverVars
  <2>2. state'[r] \in {"Complete", "Delivered", "Released"}
    BY <1>1, <1>4 DEF Application, Inv, TypeOK, submit, Admissible, SubmitThrows, poll,
       PollStopped, release, stop, Join, requestVars
  <2> QED  BY <1>1, <2>1, <2>2 DEF Answered
<1>5. CASE UNCHANGED vars
  BY <1>1, <1>5 DEF vars, Answered, requestVars, driverVars
<1> QED  BY <1>2, <1>3, <1>4, <1>5 DEF Next

\* Once complete, a request keeps its answer and its effect through every later
\* poll, release, request and stop.
THEOREM AnswersAreFinal == Spec => AnswerIsFinal
<1>1. Inv /\ [Next]_vars =>
        [\A r \in Answered :
           r \in Answered' /\ result'[r] = result[r] /\ durable'[r] = durable[r]]_vars
  BY AnsweredStays
<1> QED  BY <1>1, Invariant, PTL DEF Spec, AnswerIsFinal
-----------------------------------------------------------------------------
(***************************************************************************)
(* The service implements SqlContract.                                     *)
(***************************************************************************)

\* A step that changes neither the phase, the effect, the answer of a request
\* nor the end of the service is invisible to the contract.
LEMMA Invisible ==
  ASSUME UNCHANGED <<PhaseMap, EffectMap, StatusMap, told>>
  PROVE  UNCHANGED C!cvars
BY DEF C!cvars

\* What PhaseOf makes of each state.
LEMMA Phases ==
  /\ PhaseOf("none") = "free"
  /\ PhaseOf("Queued") = "pending"
  /\ PhaseOf("Running") = "pending"
  /\ PhaseOf("Complete") = "answered"
  /\ PhaseOf("Delivered") = "read"
  /\ PhaseOf("Released") = "released"
BY DEF PhaseOf

\* A new service is a new contract.
LEMMA InitContract == Init => C!ContractInit
<1> SUFFICES ASSUME Init PROVE C!ContractInit
  OBVIOUS
<1>1. \A r \in Requests : state[r] = "none" /\ durable[r] = 0 /\ r \notin Answered
  BY DEF Init, Answered
<1>2. PhaseMap = [r \in Requests |-> "free"]
  BY <1>1, Phases DEF PhaseMap
<1>3. EffectMap = [r \in Requests |-> "none"]
  BY <1>1 DEF EffectMap, EffectOf
<1>4. StatusMap = [r \in Requests |-> "none"]
  BY <1>1 DEF StatusMap
<1>5. told = FALSE
  BY DEF Init
<1> QED  BY <1>2, <1>3, <1>4, <1>5 DEF C!ContractInit

\* The contract sees a request in the phase of its state.
LEMMA PhaseIs ==
  ASSUME TypeOK, NEW r \in Requests
  PROVE  /\ PhaseMap[r] = "free" <=> state[r] = "none"
         /\ PhaseMap[r] = "pending" <=> state[r] \in {"Queued", "Running"}
         /\ PhaseMap[r] = "answered" <=> state[r] = "Complete"
         /\ PhaseMap[r] = "read" <=> state[r] = "Delivered"
         /\ PhaseMap[r] = "released" <=> state[r] = "Released"
<1>1. state[r] \in States /\ PhaseMap[r] = PhaseOf(state[r])
  BY DEF TypeOK, PhaseMap
<1> QED  BY <1>1, Phases DEF States

\* A step that moves request r to phase p, and leaves the other requests in
\* their phases, is an update of the phases at r.
LEMMA PhaseStep ==
  ASSUME TypeOK, NEW r \in Requests, NEW s \in States, state' = [state EXCEPT ![r] = s]
  PROVE  PhaseMap' = [PhaseMap EXCEPT ![r] = PhaseOf(s)]
<1>1. \A q \in Requests : state'[q] = IF q = r THEN s ELSE state[q]
  BY DEF TypeOK
<1>2. PhaseMap' = [q \in Requests |-> PhaseOf(state'[q])]
  BY DEF PhaseMap
<1>3. [PhaseMap EXCEPT ![r] = PhaseOf(s)]
        = [q \in Requests |-> IF q = r THEN PhaseOf(s) ELSE PhaseOf(state[q])]
  BY DEF PhaseMap
<1>4. \A q \in Requests : PhaseOf(state'[q]) = IF q = r THEN PhaseOf(s) ELSE PhaseOf(state[q])
  BY <1>1
<1> HIDE DEF PhaseOf
<1> QED  BY <1>2, <1>3, <1>4

\* Steps that leave every answered request alone leave the answers alone.
LEMMA SameAnswers ==
  ASSUME Answered' = Answered, \A r \in Answered : result'[r] = result[r]
  PROVE  StatusMap' = StatusMap
BY DEF StatusMap

\* Steps that leave statements and durable alone leave the effects alone.
LEMMA SameEffects ==
  ASSUME \A r \in Requests :
           durable'[r] = durable[r] /\ (statements'[r] = statements[r] \/ durable[r] = 0)
  PROVE  EffectMap' = EffectMap
BY DEF EffectMap, EffectOf

\* An accepted submit is an acceptance.
LEMMA SubmitImplements ==
  ASSUME Inv, NEW n \in 1..MaxStatements, NEW size \in 1..MaxReserved, submit(n, size)
  PROVE  C!Accept(nextId) /\ nextId \in Requests
<1> USE RequestIds, SqlAssumption
<1>1. nextId \in Requests /\ state[nextId] = "none"
  BY DEF Inv, TypeOK, TableInv, submit, Admissible, Requests
<1>2. ~told
  BY DEF Inv, EndInv, submit, Admissible
<1>3. PhaseMap[nextId] = "free"
  BY <1>1, PhaseIs DEF Inv
<1>4. \A q \in Requests : q > nextId => PhaseMap[q] = "free"
  BY <1>1, PhaseIs DEF Inv, TableInv
<1>5. PhaseMap' = [PhaseMap EXCEPT ![nextId] = "pending"]
  BY <1>1, PhaseStep, Phases DEF Inv, submit, States
<1>6. EffectMap' = EffectMap
  BY <1>1, SameEffects DEF Inv, TableInv, Untouched, submit, driverVars
<1>7. StatusMap' = StatusMap
  BY <1>1, SameAnswers DEF Answered, submit, driverVars
<1>8. told' = told
  BY DEF submit
<1> QED  BY <1>1, <1>2, <1>3, <1>4, <1>5, <1>6, <1>7, <1>8 DEF C!Accept

\* A poll that returns an answer reads the oldest unread one.
LEMMA PollImplements ==
  ASSUME Inv, NEW r \in Requests, poll(r)
  PROVE  C!Read(r)
<1> USE RequestIds
<1>1. PhaseMap[r] = "answered" /\ C!NoneBefore(r, "answered")
  BY PhaseIs DEF Inv, poll, IsFirst, C!NoneBefore
<1>2. PhaseMap' = [PhaseMap EXCEPT ![r] = "read"]
  BY PhaseStep, Phases DEF Inv, poll, States
<1>3. EffectMap' = EffectMap
  BY SameEffects DEF poll, driverVars
<1>4. StatusMap' = StatusMap
  BY SameAnswers DEF Answered, poll, IsFirst, driverVars
<1>5. told' = told
  BY DEF poll
<1> QED  BY <1>1, <1>2, <1>3, <1>4, <1>5 DEF C!Read

\* release forgets a request that was read.
LEMMA ReleaseImplements ==
  ASSUME Inv, NEW r \in Requests, release(r)
  PROVE  C!Release(r)
<1>1. PhaseMap[r] = "read"
  BY PhaseIs DEF Inv, release
<1>2. PhaseMap' = [PhaseMap EXCEPT ![r] = "released"]
  BY PhaseStep, Phases DEF Inv, release, States
<1>3. EffectMap' = EffectMap
  BY SameEffects DEF release, driverVars
<1>4. StatusMap' = StatusMap
  BY SameAnswers DEF Answered, release, driverVars
<1>5. told' = told
  BY DEF release
<1> QED  BY <1>1, <1>2, <1>3, <1>4, <1>5 DEF C!Release

\* SE_STOPPED ends the contract: nothing is pending and nothing is unread.
LEMMA PollStoppedImplements ==
  ASSUME Inv, PollStopped
  PROVE  C!End
<1>1. \A r \in Requests : state[r] \notin {"Queued", "Running", "Complete"}
  BY RequestIds DEF Inv, JobInv, EndInv, PollStopped
<1>2. \A r \in Requests : PhaseMap[r] \notin {"pending", "answered"}
  BY <1>1, PhaseIs DEF Inv
<1>3. UNCHANGED <<PhaseMap, EffectMap, StatusMap>> /\ told' = TRUE
  BY DEF PollStopped, PhaseMap, EffectMap, EffectOf, StatusMap, Answered, requestVars,
     driverVars
<1> QED  BY <1>2, <1>3 DEF C!End

\* No request before the running one is pending.
LEMMA RunningIsFirst ==
  ASSUME Inv, job # 0
  PROVE  /\ job \in Requests /\ state[job] = "Running"
         /\ PhaseMap[job] = "pending" /\ C!NoneBefore(job, "pending")
<1>1. job \in Requests /\ state[job] = "Running"
  BY DEF Inv, TypeOK, JobInv
<1>2. \A q \in Requests : q < job => state[q] \notin {"Queued", "Running"}
  BY <1>1 DEF Inv, InOrder
<1> QED  BY <1>1, <1>2, PhaseIs DEF Inv, C!NoneBefore

\* Publishing a result answers the request, truthfully.
LEMMA PublishImplements ==
  ASSUME Inv, Publish
  PROVE  /\ job \in Requests /\ result[job] \in C!Statuses
         /\ C!Answer(job, result[job])
<1> USE RequestIds
<1>1. /\ job # 0 /\ job \in Requests /\ state[job] = "Running"
      /\ PhaseMap[job] = "pending" /\ C!NoneBefore(job, "pending")
  BY RunningIsFirst DEF Inv, JobInv, Publish
<1>2. result[job] \in C!Statuses
  BY <1>1 DEF Inv, TypeOK, Statuses, C!Statuses
<1>3. C!Truthful(job, result[job])
  <2>1. Truth(job) /\ statements[job] \in 1..MaxStatements
    BY <1>1 DEF Inv, DriverInv, TableInv, Publish
  <2>2. statements[job] # 0
    BY <2>1
  <2>3. EffectMap[job] = EffectOf(job)
    BY <1>1 DEF EffectMap
  <2>4. /\ result[job] = "OK" => EffectMap[job] = "all"
        /\ result[job] \notin {"OK", "OUTCOME_UNKNOWN"} => EffectMap[job] = "none"
    BY <2>1, <2>2, <2>3 DEF Truth, EffectOf
  <2> QED  BY <1>2, <2>4 DEF C!Statuses, C!Truthful
<1>4. PhaseMap' = [PhaseMap EXCEPT ![job] = "answered"]
  BY <1>1, PhaseStep, Phases DEF Inv, Publish, States
<1>5. EffectMap' = EffectMap
  BY SameEffects DEF Publish
<1>6. StatusMap' = [StatusMap EXCEPT ![job] = result[job]]
  <2>1. \A r \in Requests : r \in Answered' <=> r \in Answered \/ r = job
    BY <1>1 DEF Inv, TypeOK, Answered, Publish
  <2> QED  BY <1>1, <2>1 DEF StatusMap, Publish
<1>7. told' = told
  BY DEF Publish
<1> QED  BY <1>1, <1>2, <1>3, <1>4, <1>5, <1>6, <1>7 DEF C!Answer

\* What COMMIT makes durable is the whole of the first pending request.
LEMMA CommitImplements ==
  ASSUME Inv, worker = "commit", durable' = [durable EXCEPT ![job] = statements[job]],
         UNCHANGED <<requestVars, told>>,
         \A r \in Requests \ {job} : result'[r] = result[r]
  PROVE  job \in Requests /\ C!TakeEffect(job)
<1> USE RequestIds
<1>1. /\ job \in Requests /\ state[job] = "Running"
      /\ PhaseMap[job] = "pending" /\ C!NoneBefore(job, "pending")
  BY RunningIsFirst DEF Inv, JobInv
<1>2. durable[job] = 0 /\ statements[job] \in 1..MaxStatements
  BY <1>1 DEF Inv, DriverInv, TableInv, Untouched
<1>3. EffectMap[job] = "none"
  BY <1>1, <1>2 DEF EffectMap, EffectOf
<1>4. EffectMap' = [EffectMap EXCEPT ![job] = "all"]
  <2>1. \A r \in Requests : durable'[r] = IF r = job THEN statements[r] ELSE durable[r]
    BY DEF Inv, TypeOK
  <2>2. statements[job] # 0 /\ statements' = statements
    BY <1>2 DEF requestVars
  <2> QED  BY <1>1, <2>1, <2>2 DEF EffectMap, EffectOf
<1>5. PhaseMap' = PhaseMap /\ told' = told
  BY DEF PhaseMap, requestVars
<1>6. StatusMap' = StatusMap
  BY <1>1, SameAnswers DEF Answered, requestVars
<1> QED  BY <1>1, <1>3, <1>4, <1>5, <1>6 DEF C!TakeEffect

\* While a request runs, its result is not visible yet, and neither is anything
\* that happens inside its transaction.
LEMMA RunningIsInvisible ==
  ASSUME Inv, job # 0, UNCHANGED <<requestVars, durable, told>>,
         \A r \in Requests \ {job} : result'[r] = result[r]
  PROVE  UNCHANGED C!cvars
<1>1. state[job] = "Running"
  BY RunningIsFirst
<1>2. StatusMap' = StatusMap
  BY <1>1, SameAnswers DEF Answered, requestVars
<1>3. UNCHANGED <<PhaseMap, EffectMap>>
  BY DEF PhaseMap, EffectMap, EffectOf, requestVars
<1> QED  BY <1>2, <1>3, Invisible

\* Steps that leave the requests, their results and their effects alone.
LEMMA ElsewhereIsInvisible ==
  ASSUME UNCHANGED <<state, statements, result, durable, told>>
  PROVE  UNCHANGED C!cvars
<1>1. UNCHANGED <<PhaseMap, EffectMap, StatusMap>>
  BY DEF PhaseMap, EffectMap, EffectOf, StatusMap, Answered
<1> QED  BY <1>1, Invisible

\* Every step of the worker is a step of the contract, or invisible.
LEMMA WorkerImplements ==
  ASSUME Inv, Worker
  PROVE  [C!ContractNext]_(C!cvars)
<1> USE RequestIds
<1>1. CASE Take
  <2>1. PICK r \in Requests : state[r] = "Queued" /\ state' = [state EXCEPT ![r] = "Running"]
    BY <1>1 DEF Take, IsFirst
  <2>2. PhaseMap' = PhaseMap
    <3>1. PhaseMap' = [PhaseMap EXCEPT ![r] = "pending"] /\ PhaseMap[r] = "pending"
      BY <2>1, PhaseStep, PhaseIs, Phases DEF Inv, States
    <3> QED  BY <3>1 DEF PhaseMap
  <2>3. EffectMap' = EffectMap
    BY <1>1, SameEffects DEF Take
  <2>4. StatusMap' = StatusMap
    BY <1>1, <2>1, SameAnswers DEF Answered, Take
  <2>5. told' = told
    BY <1>1 DEF Take
  <2> QED  BY <2>2, <2>3, <2>4, <2>5, Invisible
<1>2. CASE Finish
  BY <1>2, ElsewhereIsInvisible DEF Finish, requestVars, driverVars
<1>3. CASE Publish
  BY <1>3, PublishImplements DEF C!ContractNext
<1>4. CASE Prepare \/ Begin \/ StatementFails \/ LastCheck \/ CommitFails \/ Cleanup
  <2>1. job # 0
    BY <1>4 DEF Inv, JobInv, Prepare, Begin, StatementFails, LastCheck, CommitFails, Cleanup
  <2>2. UNCHANGED <<requestVars, durable, told>>
    BY <1>4 DEF Prepare, Begin, StatementFails, LastCheck, CommitFails, Cleanup
  <2>3. \A r \in Requests \ {job} : result'[r] = result[r]
    BY <1>4 DEF Inv, TypeOK, Prepare, Begin, StatementFails, LastCheck, CommitFails,
       Cleanup, Throw, Fail
  <2> QED  BY <2>1, <2>2, <2>3, RunningIsInvisible
<1>5. CASE execute_statement
  <2>1. job # 0 /\ txn = job
    BY <1>5 DEF Inv, JobInv, DriverInv, execute_statement
  <2>2. durable' = durable
    BY <1>5, <2>1 DEF Inv, TypeOK, execute_statement, Autocommitted
  <2> QED  BY <1>5, <2>2, ElsewhereIsInvisible DEF execute_statement, requestVars
<1>6. CASE CommitSucceeds
  BY <1>6, CommitImplements DEF CommitSucceeds, C!ContractNext
<1>7. CASE CommitAmbiguous
  <2>1. /\ job # 0 /\ worker = "commit" /\ UNCHANGED <<requestVars, told>>
        /\ \A r \in Requests \ {job} : result'[r] = result[r]
    BY <1>7 DEF Inv, JobInv, CommitAmbiguous, Throw, Fail
  <2>2. CASE durable' = [durable EXCEPT ![job] = statements[job]]
    BY <2>1, <2>2, CommitImplements DEF C!ContractNext
  <2>3. CASE durable' = [durable EXCEPT ![job] = durable[job]]
    <3>1. durable' = durable
      BY <2>3 DEF Inv, TypeOK
    <3> QED  BY <2>1, <3>1, RunningIsInvisible
  <2> QED  BY <1>7, <2>2, <2>3 DEF CommitAmbiguous
<1> QED  BY <1>1, <1>2, <1>3, <1>4, <1>5, <1>6, <1>7 DEF Worker

\* Every call of an application thread is a step of the contract, or invisible.
LEMMA ApplicationImplements ==
  ASSUME Inv, Application
  PROVE  [C!ContractNext]_(C!cvars)
<1>1. CASE \E request \in copy_request : submit(request.statements, request.reserved)
  <2>1. PICK request \in copy_request : submit(request.statements, request.reserved)
    BY <1>1
  <2>2. request.statements \in 1..MaxStatements /\ request.reserved \in 1..MaxReserved
    BY DEF copy_request
  <2> QED  BY <2>1, <2>2, SubmitImplements DEF C!ContractNext
<1>2. CASE \E request \in copy_request : SubmitThrows(request.reserved)
  BY <1>2, ElsewhereIsInvisible DEF SubmitThrows, driverVars
<1>3. CASE \E r \in Requests : poll(r) \/ release(r)
  BY <1>3, PollImplements, ReleaseImplements DEF C!ContractNext
<1>4. CASE PollStopped
  BY <1>4, PollStoppedImplements DEF C!ContractNext
<1>5. CASE stop \/ Join
  BY <1>5, ElsewhereIsInvisible DEF stop, Join, requestVars, driverVars
<1> QED  BY <1>1, <1>2, <1>3, <1>4, <1>5 DEF Application

\* Every step of the service is a step of the contract, or invisible.
LEMMA NextImplements == Inv /\ [Next]_vars => [C!ContractNext]_(C!cvars)
<1> SUFFICES ASSUME Inv, [Next]_vars PROVE [C!ContractNext]_(C!cvars)
  OBVIOUS
<1>1. CASE Worker
  BY <1>1, WorkerImplements
<1>2. CASE Expire
  BY <1>2, ElsewhereIsInvisible DEF Expire, requestVars
<1>3. CASE Application
  BY <1>3, ApplicationImplements
<1>4. CASE UNCHANGED vars
  BY <1>4, ElsewhereIsInvisible DEF vars, requestVars, driverVars
<1> QED  BY <1>1, <1>2, <1>3, <1>4 DEF Next

\* The service implements SqlContract: an accepted request takes effect at most
\* once and as a whole, in order and before its one truthful answer, and no
\* answer is lost.
THEOREM ImplementsContract == Spec => Contract
BY Invariant, InitContract, NextImplements, PTL DEF Spec, Contract, C!Contract
=============================================================================
