-------------------------- MODULE ConnectionsProofs --------------------------
(***************************************************************************)
(* Proofs about the connections of the asynchronous transport, for all     *)
(* limits, timeouts, payload sizes and any number of peers: byte counters  *)
(* are exact, nothing stalls, what leaves is in order, the UDP tables      *)
(* agree, and a deadline closes only what was silent for as long as its    *)
(* phase allows.                                                           *)
(***************************************************************************)
EXTENDS Connections, FiniteSetTheorems, WellFoundedInduction, TLAPS

-----------------------------------------------------------------------------
(***************************************************************************)
(* Sums.  TotalCost is a recursive function; what it computes for every    *)
(* queue is shown by looking at the least place where it could fail.       *)
(***************************************************************************)

\* A set of numbers that is not empty has a least element.
LEMMA Least ==
  ASSUME NEW T, T \subseteq Nat, T # {}
  PROVE  \E x \in T : \A y \in T : x <= y
<1> DEFINE R == OpToRel(<, Nat)
<1>1. IsWellFoundedOn(R, Nat)
  BY NatLessThanWellFounded
<1>2. PICK x \in T : \A y \in T : ~(<<y, x>> \in R)
  <2> HIDE DEF R
  <2> QED BY <1>1, WFMin
<1>3. \A y \in T : y \in Nat /\ x \in Nat /\ ~(y < x)
  BY <1>2 DEF OpToRel
<1> QED BY <1>3

\* f holds the sums of the first costs of c, up to the n-th.
Adds(f, c, n) == f = [i \in 0..n |-> IF i = 0 THEN 0 ELSE f[i - 1] + c[i]]
Total(c, n) == (CHOOSE f : Adds(f, c, n))[n]

\* There is one such function: extend the one for n - 1 by one place.
LEMMA SumsExist ==
  ASSUME NEW n \in Nat, NEW c, \A i \in 1..n : c[i] \in Nat
  PROVE  \E f \in [0..n -> Nat] : Adds(f, c, n)
<1> DEFINE T == {m \in 0..n : ~\E f \in [0..m -> Nat] : Adds(f, c, m)}
<1>1. SUFFICES ASSUME T # {} PROVE FALSE
  OBVIOUS
<1>2. PICK m \in T : \A y \in T : m <= y
  <2>1. T \subseteq Nat
    OBVIOUS
  <2> HIDE DEF T
  <2> QED BY <2>1, <1>1, Least
<1>3. m # 0
  <2> SUFFICES ASSUME m = 0 PROVE FALSE
    OBVIOUS
  <2> DEFINE f == [i \in 0..0 |-> 0]
  <2>1. f \in [0..m -> Nat] /\ Adds(f, c, m)
    BY DEF Adds
  <2> QED BY <2>1, <1>2
<1>4. m - 1 \in 0..n /\ m \in 1..n /\ m - 1 \notin T
  BY <1>2, <1>3
<1>5. PICK f \in [0..(m - 1) -> Nat] : Adds(f, c, m - 1)
  BY <1>4
<1> DEFINE g == [i \in 0..m |-> IF i = m THEN f[m - 1] + c[m] ELSE f[i]]
<1>6. g \in [0..m -> Nat]
  BY <1>4, <1>5
<1>7. ASSUME NEW i \in 0..m
      PROVE  g[i] = IF i = 0 THEN 0 ELSE g[i - 1] + c[i]
  <2>1. CASE i = m
    BY <2>1, <1>4
  <2>2. CASE i # m /\ i # 0
    <3>1. i \in 0..(m - 1) /\ i - 1 \in 0..(m - 1)
      BY <2>2, <1>4
    <3>2. f[i] = f[i - 1] + c[i]
      BY <2>2, <3>1, <1>5 DEF Adds
    <3> QED BY <2>2, <3>1, <3>2, <1>4
  <2>3. CASE i = 0
    <3>1. 0 \in 0..(m - 1) /\ 0 # m
      BY <1>4
    <3>2. f[0] = 0
      BY <3>1, <1>5 DEF Adds
    <3> QED BY <2>3, <3>1, <3>2, <1>4
  <2> QED BY <2>1, <2>2, <2>3
<1>8. Adds(g, c, m)
  <2> HIDE DEF g
  <2> QED BY <1>6, <1>7 DEF Adds
<1> QED BY <1>2, <1>6, <1>8

\* And no other.
LEMMA SumsUnique ==
  ASSUME NEW n \in Nat, NEW c, NEW f, NEW g, Adds(f, c, n), Adds(g, c, n)
  PROVE  f[n] = g[n]
<1> DEFINE T == {i \in 0..n : f[i] # g[i]}
<1>1. SUFFICES ASSUME T # {} PROVE FALSE
  OBVIOUS
<1>2. PICK x \in T : \A y \in T : x <= y
  <2>1. T \subseteq Nat
    OBVIOUS
  <2> HIDE DEF T
  <2> QED BY <2>1, <1>1, Least
<1>3. x # 0
  BY <1>2 DEF Adds
<1>4. x - 1 \in 0..n /\ x \in 0..n /\ x - 1 \notin T
  BY <1>2, <1>3
<1>5. f[x - 1] = g[x - 1]
  BY <1>4
<1>6. f[x] = f[x - 1] + c[x] /\ g[x] = g[x - 1] + c[x]
  BY <1>3, <1>4 DEF Adds
<1> QED BY <1>2, <1>5, <1>6

\* So any such function gives the total.
LEMMA TotalIs ==
  ASSUME NEW n \in Nat, NEW c, NEW f, Adds(f, c, n)
  PROVE  Total(c, n) = f[n]
<1> DEFINE g == CHOOSE u : Adds(u, c, n)
<1>1. Adds(g, c, n)
  OBVIOUS
<1> QED BY <1>1, SumsUnique DEF Total

LEMMA TotalType ==
  ASSUME NEW n \in Nat, NEW c, \A i \in 1..n : c[i] \in Nat
  PROVE  Total(c, n) \in Nat
<1>1. PICK f \in [0..n -> Nat] : Adds(f, c, n)
  BY SumsExist
<1> QED BY <1>1, TotalIs

LEMMA TotalOfNone ==
  ASSUME NEW c
  PROVE  Total(c, 0) = 0
<1> DEFINE f == [i \in 0..0 |-> 0]
<1>1. Adds(f, c, 0)
  BY DEF Adds
<1>2. Total(c, 0) = f[0]
  <2> HIDE DEF f
  <2> QED BY <1>1, TotalIs
<1> QED BY <1>2

\* One more at the end.
LEMMA TotalOfMore ==
  ASSUME NEW n \in Nat, NEW c, NEW d,
         \A i \in 1..n : c[i] \in Nat /\ d[i] = c[i],
         d[n + 1] \in Nat
  PROVE  Total(d, n + 1) = Total(c, n) + d[n + 1]
<1>1. PICK f \in [0..(n + 1) -> Nat] : Adds(f, d, n + 1)
  <2>1. \A i \in 1..(n + 1) : d[i] \in Nat
    <3> TAKE i \in 1..(n + 1)
    <3>1. i \in 1..n \/ i = n + 1
      OBVIOUS
    <3> QED BY <3>1
  <2>2. n + 1 \in Nat
    OBVIOUS
  <2> QED BY <2>1, <2>2, SumsExist
<1> DEFINE g == [i \in 0..n |-> f[i]]
<1>2. ASSUME NEW i \in 0..n
      PROVE  g[i] = IF i = 0 THEN 0 ELSE g[i - 1] + c[i]
  <2>1. i \in 0..(n + 1)
    OBVIOUS
  <2>2. f[i] = IF i = 0 THEN 0 ELSE f[i - 1] + d[i]
    BY <2>1, <1>1 DEF Adds
  <2>3. CASE i = 0
    BY <2>2, <2>3
  <2>4. CASE i # 0
    <3>1. i \in 1..n /\ i - 1 \in 0..n
      BY <2>4
    <3> QED BY <2>2, <2>4, <3>1
  <2> QED BY <2>3, <2>4
<1>3. Adds(g, c, n) /\ g[n] = f[n]
  <2>1. g = [i \in 0..n |-> g[i]]
    OBVIOUS
  <2>2. g[n] = f[n]
    OBVIOUS
  <2> HIDE DEF g
  <2> QED BY <2>1, <2>2, <1>2 DEF Adds
<1>4. Total(c, n) = f[n]
  <2> HIDE DEF g
  <2> QED BY <1>3, TotalIs
<1>5. Total(d, n + 1) = f[n + 1]
  BY <1>1, TotalIs
<1>6. f[n + 1] = f[n] + d[n + 1]
  BY <1>1 DEF Adds
<1> QED BY <1>4, <1>5, <1>6

\* One less at the front.
LEMMA TotalOfRest ==
  ASSUME NEW n \in Nat, NEW c, NEW d,
         \A i \in 1..(n + 1) : c[i] \in Nat,
         \A i \in 1..n : d[i] = c[i + 1]
  PROVE  Total(c, n + 1) = c[1] + Total(d, n)
<1>1. PICK g \in [0..n -> Nat] : Adds(g, d, n)
  <2>1. \A i \in 1..n : d[i] \in Nat
    <3> TAKE i \in 1..n
    <3>1. i + 1 \in 1..(n + 1)
      OBVIOUS
    <3> QED BY <3>1
  <2> QED BY <2>1, SumsExist
<1> DEFINE f == [i \in 0..(n + 1) |-> IF i = 0 THEN 0 ELSE c[1] + g[i - 1]]
<1>2. ASSUME NEW i \in 0..(n + 1)
      PROVE  f[i] = IF i = 0 THEN 0 ELSE f[i - 1] + c[i]
  <2>0. c[1] \in Nat
    OBVIOUS
  <2>1. CASE i = 0
    BY <2>1
  <2>2. CASE i = 1
    <3>1. g[0] = 0
      BY <1>1 DEF Adds
    <3> QED BY <3>1, <2>2, <2>0
  <2>3. CASE i \notin {0, 1}
    <3>1. i - 1 \in 0..n /\ i - 1 \in 1..n /\ i - 1 # 0 /\ (i - 1) - 1 \in 0..n /\ i - 1 \in 0..(n + 1) /\ (i - 1) + 1 = i
      BY <2>3
    <3>2. g[i - 1] = g[(i - 1) - 1] + d[i - 1]
      BY <3>1, <1>1 DEF Adds
    <3>3. d[i - 1] = c[i]
      BY <3>1
    <3>4. f[i] = c[1] + g[i - 1] /\ f[i - 1] = c[1] + g[(i - 1) - 1]
      BY <3>1, <2>3
    <3>5. g[(i - 1) - 1] \in Nat /\ c[i] \in Nat
      BY <3>1, <1>1
    <3> HIDE DEF f
    <3> QED BY <2>0, <2>3, <3>2, <3>3, <3>4, <3>5
  <2> QED BY <2>1, <2>2, <2>3
<1>3. Adds(f, c, n + 1) /\ f[n + 1] = c[1] + g[n]
  <2>1. f = [i \in 0..(n + 1) |-> f[i]]
    OBVIOUS
  <2>2. f[n + 1] = c[1] + g[n]
    OBVIOUS
  <2> HIDE DEF f
  <2> QED BY <2>1, <2>2, <1>2 DEF Adds
<1>4. Total(c, n + 1) = f[n + 1]
  <2>1. n + 1 \in Nat
    OBVIOUS
  <2> HIDE DEF f
  <2> QED BY <2>1, <1>3, TotalIs
<1>5. Total(d, n) = g[n]
  BY <1>1, TotalIs
<1> QED BY <1>3, <1>4, <1>5

LEMMA SizesAreNat ==
  \A size \in PayloadSizes \cup {0} : size \in Nat
BY ConnectionAssumption

\* The cost of a frame and of a queue of frames of kind k.
FrameCost(k, size) == size + (IF k.protocol = "tcp" THEN 4 ELSE 16)
FramesCosts(k, q) == [i \in 1..Len(q) |-> FrameCost(k, q[i].size)]
FramesTotal(k, q) == Total(FramesCosts(k, q), Len(q))

LEMMA FramesCostsType ==
  ASSUME NEW q \in Seq(Stream!Frame), NEW k
  PROVE  /\ Len(q) \in Nat
         /\ \A i \in 1..Len(q) : FramesCosts(k, q)[i] \in Nat /\ FramesCosts(k, q)[i] = FrameCost(k, q[i].size)
<1>1. \A i \in 1..Len(q) : q[i] \in Stream!Frame
  OBVIOUS
<1>2. \A x \in Stream!Frame : x.size \in PayloadSizes \cup {0}
  BY DEF Stream!Frame
<1>3. \A i \in 1..Len(q) : q[i].size \in Nat
  BY <1>1, <1>2, SizesAreNat
<1> QED BY <1>3 DEF FramesCosts, FrameCost

\* TotalCost is that total.
LEMMA FramesTotalIs ==
  ASSUME NEW q \in Seq(Stream!Frame)
  PROVE  Stream!TotalCost(q) = FramesTotal(kind, q)
<1> DEFINE c == FramesCosts(kind, q)
<1>1. Len(q) \in Nat /\ \A i \in 1..Len(q) : c[i] \in Nat /\ c[i] = FrameCost(kind, q[i].size)
  BY FramesCostsType
<1>2. \A i \in 1..Len(q) : c[i] = Stream!cost(q[i].size)
  BY <1>1 DEF FrameCost, Stream!cost
<1> DEFINE Sums(f) == f = [i \in 0..Len(q) |-> IF i = 0 THEN 0 ELSE f[i - 1] + Stream!cost(q[i].size)]
<1>3. Stream!TotalCost(q) = (CHOOSE f : Sums(f))[Len(q)]
  BY DEF Stream!TotalCost
<1> HIDE DEF c
<1>4. ASSUME NEW f PROVE Sums(f) <=> Adds(f, c, Len(q))
  <2>1. \A i \in 0..Len(q) : i = 0 \/ i \in 1..Len(q)
    BY <1>1
  <2> QED BY <1>2, <2>1 DEF Adds
<1>5. PICK f : Adds(f, c, Len(q))
  BY <1>1, SumsExist
<1> HIDE DEF Sums
<1> DEFINE g == CHOOSE h : Sums(h)
<1>6. Sums(g)
  BY <1>4, <1>5
<1>7. Adds(g, c, Len(q))
  BY <1>4, <1>6
<1>8. Total(c, Len(q)) = g[Len(q)]
  <2> HIDE DEF g
  <2> QED BY <1>1, <1>7, TotalIs
<1> QED BY <1>3, <1>8 DEF FramesTotal, c

LEMMA FramesEmpty ==
  \A k : FramesTotal(k, <<>>) = 0
BY TotalOfNone DEF FramesTotal

LEMMA FramesAppend ==
  ASSUME NEW q \in Seq(Stream!Frame), NEW x \in Stream!Frame, NEW k
  PROVE  FramesTotal(k, Append(q, x)) = FramesTotal(k, q) + FrameCost(k, x.size)
<1>1. Append(q, x) \in Seq(Stream!Frame) /\ Len(Append(q, x)) = Len(q) + 1 /\ Len(q) \in Nat
  OBVIOUS
<1> DEFINE c == FramesCosts(k, q)
<1> DEFINE d == FramesCosts(k, Append(q, x))
<1>2. \A i \in 1..Len(q) : c[i] \in Nat /\ c[i] = FrameCost(k, q[i].size)
  BY FramesCostsType
<1>3. \A i \in 1..(Len(q) + 1) : d[i] \in Nat /\ d[i] = FrameCost(k, Append(q, x)[i].size)
  BY <1>1, FramesCostsType
<1>4. \A i \in 1..Len(q) : Append(q, x)[i] = q[i] /\ i \in 1..(Len(q) + 1)
  BY <1>1
<1>5. Append(q, x)[Len(q) + 1] = x /\ Len(q) + 1 \in 1..(Len(q) + 1)
  BY <1>1
<1> HIDE DEF c, d
<1>6. Total(d, Len(q) + 1) = Total(c, Len(q)) + d[Len(q) + 1]
  <2>1. \A i \in 1..Len(q) : c[i] \in Nat /\ d[i] = c[i]
    BY <1>2, <1>3, <1>4
  <2> QED BY <2>1, <1>1, <1>3, <1>5, TotalOfMore
<1> QED BY <1>1, <1>3, <1>5, <1>6 DEF FramesTotal, c, d

LEMMA FramesTail ==
  ASSUME NEW q \in Seq(Stream!Frame), q # <<>>, NEW k
  PROVE  /\ FramesTotal(k, q) = FrameCost(k, Head(q).size) + FramesTotal(k, Tail(q))
         /\ FramesTotal(k, Tail(q)) \in Nat /\ FrameCost(k, Head(q).size) \in Nat
<1> DEFINE n == Len(q) - 1
<1>1. /\ Tail(q) \in Seq(Stream!Frame) /\ Len(Tail(q)) = n /\ n \in Nat /\ Len(q) = n + 1
      /\ \A i \in 1..n : Tail(q)[i] = q[i + 1] /\ i + 1 \in 1..(n + 1)
      /\ Head(q) = q[1] /\ 1 \in 1..(n + 1)
  OBVIOUS
<1> DEFINE c == FramesCosts(k, q)
<1> DEFINE d == FramesCosts(k, Tail(q))
<1>2. \A i \in 1..(n + 1) : c[i] \in Nat /\ c[i] = FrameCost(k, q[i].size)
  BY <1>1, FramesCostsType
<1>3. \A i \in 1..n : d[i] \in Nat /\ d[i] = FrameCost(k, Tail(q)[i].size)
  <2>1. \A i \in 1..Len(Tail(q)) : d[i] \in Nat /\ d[i] = FrameCost(k, Tail(q)[i].size)
    BY <1>1, FramesCostsType
  <2> QED BY <2>1, <1>1
<1> HIDE DEF c, d, n
<1>4. \A i \in 1..n : d[i] = c[i + 1]
  BY <1>1, <1>2, <1>3
<1>5. Total(c, n + 1) = c[1] + Total(d, n)
  BY <1>1, <1>2, <1>4, TotalOfRest
<1>6. Total(d, n) \in Nat
  BY <1>1, <1>3, TotalType
<1> QED BY <1>1, <1>2, <1>5, <1>6 DEF FramesTotal, c, d

\* The cost of a datagram and of a queue of datagrams.
DatagramCost(size) == IF size = 0 THEN 1 ELSE size
DatagramsCosts(q) == [i \in 1..Len(q) |-> DatagramCost(q[i].size)]
DatagramsTotal(q) == Total(DatagramsCosts(q), Len(q))

LEMMA DatagramsCostsType ==
  ASSUME NEW q \in Seq(Udp!Datagram)
  PROVE  /\ Len(q) \in Nat
         /\ \A i \in 1..Len(q) : DatagramsCosts(q)[i] \in Nat /\ DatagramsCosts(q)[i] = DatagramCost(q[i].size)
<1>1. \A i \in 1..Len(q) : q[i] \in Udp!Datagram
  OBVIOUS
<1>2. \A x \in Udp!Datagram : x.size \in PayloadSizes \cup {0}
  BY DEF Udp!Datagram
<1>3. \A i \in 1..Len(q) : q[i].size \in Nat
  BY <1>1, <1>2, SizesAreNat
<1> QED BY <1>3 DEF DatagramsCosts, DatagramCost

\* TotalCost is that total.
LEMMA DatagramsTotalIs ==
  ASSUME NEW q \in Seq(Udp!Datagram)
  PROVE  Udp!TotalCost(q) = DatagramsTotal(q)
<1> DEFINE c == DatagramsCosts(q)
<1>1. Len(q) \in Nat /\ \A i \in 1..Len(q) : c[i] \in Nat /\ c[i] = DatagramCost(q[i].size)
  BY DatagramsCostsType
<1>2. \A i \in 1..Len(q) : c[i] = Udp!queue_cost(q[i].size)
  BY <1>1 DEF DatagramCost, Udp!queue_cost
<1> DEFINE Sums(f) == f = [i \in 0..Len(q) |-> IF i = 0 THEN 0 ELSE f[i - 1] + Udp!queue_cost(q[i].size)]
<1>3. Udp!TotalCost(q) = (CHOOSE f : Sums(f))[Len(q)]
  BY DEF Udp!TotalCost
<1> HIDE DEF c
<1>4. ASSUME NEW f PROVE Sums(f) <=> Adds(f, c, Len(q))
  <2>1. \A i \in 0..Len(q) : i = 0 \/ i \in 1..Len(q)
    BY <1>1
  <2> QED BY <1>2, <2>1 DEF Adds
<1>5. PICK f : Adds(f, c, Len(q))
  BY <1>1, SumsExist
<1> HIDE DEF Sums
<1> DEFINE g == CHOOSE h : Sums(h)
<1>6. Sums(g)
  BY <1>4, <1>5
<1>7. Adds(g, c, Len(q))
  BY <1>4, <1>6
<1>8. Total(c, Len(q)) = g[Len(q)]
  <2> HIDE DEF g
  <2> QED BY <1>1, <1>7, TotalIs
<1> QED BY <1>3, <1>8 DEF DatagramsTotal, c

LEMMA DatagramsEmpty ==
  DatagramsTotal(<<>>) = 0
BY TotalOfNone DEF DatagramsTotal

LEMMA DatagramsAppend ==
  ASSUME NEW q \in Seq(Udp!Datagram), NEW x \in Udp!Datagram
  PROVE  DatagramsTotal(Append(q, x)) = DatagramsTotal(q) + DatagramCost(x.size)
<1>1. Append(q, x) \in Seq(Udp!Datagram) /\ Len(Append(q, x)) = Len(q) + 1 /\ Len(q) \in Nat
  OBVIOUS
<1> DEFINE c == DatagramsCosts(q)
<1> DEFINE d == DatagramsCosts(Append(q, x))
<1>2. \A i \in 1..Len(q) : c[i] \in Nat /\ c[i] = DatagramCost(q[i].size)
  BY DatagramsCostsType
<1>3. \A i \in 1..(Len(q) + 1) : d[i] \in Nat /\ d[i] = DatagramCost(Append(q, x)[i].size)
  BY <1>1, DatagramsCostsType
<1>4. \A i \in 1..Len(q) : Append(q, x)[i] = q[i] /\ i \in 1..(Len(q) + 1)
  BY <1>1
<1>5. Append(q, x)[Len(q) + 1] = x /\ Len(q) + 1 \in 1..(Len(q) + 1)
  BY <1>1
<1> HIDE DEF c, d
<1>6. Total(d, Len(q) + 1) = Total(c, Len(q)) + d[Len(q) + 1]
  <2>1. \A i \in 1..Len(q) : c[i] \in Nat /\ d[i] = c[i]
    BY <1>2, <1>3, <1>4
  <2> QED BY <2>1, <1>1, <1>3, <1>5, TotalOfMore
<1> QED BY <1>1, <1>3, <1>5, <1>6 DEF DatagramsTotal, c, d

LEMMA DatagramsTail ==
  ASSUME NEW q \in Seq(Udp!Datagram), q # <<>>
  PROVE  /\ DatagramsTotal(q) = DatagramCost(Head(q).size) + DatagramsTotal(Tail(q))
         /\ DatagramsTotal(Tail(q)) \in Nat /\ DatagramCost(Head(q).size) \in Nat
<1> DEFINE n == Len(q) - 1
<1>1. /\ Tail(q) \in Seq(Udp!Datagram) /\ Len(Tail(q)) = n /\ n \in Nat /\ Len(q) = n + 1
      /\ \A i \in 1..n : Tail(q)[i] = q[i + 1] /\ i + 1 \in 1..(n + 1)
      /\ Head(q) = q[1] /\ 1 \in 1..(n + 1)
  OBVIOUS
<1> DEFINE c == DatagramsCosts(q)
<1> DEFINE d == DatagramsCosts(Tail(q))
<1>2. \A i \in 1..(n + 1) : c[i] \in Nat /\ c[i] = DatagramCost(q[i].size)
  BY <1>1, DatagramsCostsType
<1>3. \A i \in 1..n : d[i] \in Nat /\ d[i] = DatagramCost(Tail(q)[i].size)
  BY <1>1, DatagramsCostsType
<1> HIDE DEF c, d, n
<1>4. \A i \in 1..n : d[i] = c[i + 1]
  BY <1>1, <1>2, <1>3
<1>5. Total(c, n + 1) = c[1] + Total(d, n)
  BY <1>1, <1>2, <1>4, TotalOfRest
<1>6. Total(d, n) \in Nat
  BY <1>1, <1>3, TotalType
<1> QED BY <1>1, <1>2, <1>5, <1>6 DEF DatagramsTotal, c, d
-----------------------------------------------------------------------------
Waiting == {"header", "body", "message"}

\* A timer t against the quiet time q and what the phase allows: no expiry
\* handler is of a later arm, a wait that is outstanding ends only after the
\* allowed time, and when the handler of the last arm is queued it has passed.
TimerOK(t, q, allowed) ==
  /\ \A g \in t.due : g <= t.generation
  /\ t.generation \in t.due => q >= allowed /\ t.remaining = 0
  /\ t.remaining > 0 => q + t.remaining >= allowed

\* A message connection.
StreamInv ==
  /\ Stream!TypeOK
  /\ closed => outgoing = <<>> /\ queuedBytes = 0
  /\ ~closed =>
       /\ op # "none"
       /\ opened = (op \in Waiting)
       /\ why = "open"
       /\ write = IF outgoing = <<>> THEN Stream!NoFrame ELSE Head(outgoing)
       /\ outgoing # <<>> => opened
       /\ Len(wire) + Len(outgoing) = sends
       /\ TimerOK(timer, quiet, Stream!Allowed)
  /\ \A i \in 1..Len(wire) : wire[i].number = i
  /\ \A i \in 1..Len(outgoing) : outgoing[i].number = Len(wire) + i
  /\ queuedBytes = FramesTotal(kind, outgoing)

\* An HTTP connection: the requests taken are the answered ones and at most one
\* more, which is the one pending or the one whose response is being written.
HttpInv ==
  /\ Http!TypeOK
  /\ \A i \in 1..Len(answers) : answers[i] = i
  /\ closed => pending = 0
  /\ ~closed =>
       /\ opened = (op \notin {"start", "tls"})
       /\ why = "open"
       /\ (op = "none") = (pending # 0)
       /\ taken = Len(answers) + (IF op \in {"write", "none"} THEN 1 ELSE 0)
       /\ op = "write" => response.request = taken
       /\ op = "body" => taken < MaxReads
       /\ pending # 0 => number[pending] = taken
       /\ TimerOK(timer, quiet, Http!Allowed)

PeerRecord ==
  [endpoint : Endpoints \cup {0}, closed : BOOLEAN, opened : BOOLEAN,
   queue : Seq(Udp!Datagram), bytes : 0..MaxSendQueueBytes, age : 0..IdleTimeout,
   sent : 0..MaxSends, stuck : BOOLEAN]

\* One peer: its queue is the tail of what it accepted, and its counter is what
\* the queue costs; a closed peer has no queue.
PeerOK(r) ==
  /\ r \in PeerRecord
  /\ Len(r.queue) <= MaxQueued
  /\ r.closed => r.queue = <<>> /\ r.bytes = 0
  /\ Len(r.queue) <= r.sent
  /\ \A i \in 1..Len(r.queue) : r.queue[i].number = r.sent - Len(r.queue) + i
  /\ r.bytes = DatagramsTotal(r.queue)

\* The address table at and the registry reg agree with the peers pr.
TableOK(reg, at, pr) ==
  /\ reg = {p \in Udp!Ids : ~pr[p].closed}
  /\ \A e \in Endpoints : at[e] # 0 => at[e] \in reg /\ pr[at[e]].endpoint = e
  /\ \A p \in reg : pr[p].endpoint \in Endpoints /\ at[pr[p].endpoint] = p

\* Of peer p, with record r, exactly the first queued datagram is being sent; of a
\* stuck one, which keeps its queue, none.
SendsFirst(snd, p, r) ==
  /\ \A s \in snd : s.peer = p => ~r.stuck /\ r.queue # <<>> /\ s.datagram = r.queue[1]
  /\ r.queue # <<>> /\ ~r.stuck => [peer |-> p, datagram |-> r.queue[1]] \in snd
  /\ r.stuck => r.queue # <<>>

\* Session ids from next on are fresh.
Unused(p, next) == next # 0 /\ p >= next
FreshOK(next, pr, snd) ==
  \A p \in Udp!Ids : Unused(p, next) => pr[p] = Udp!Unborn /\ \A s \in snd : s.peer # p

Sending == [peer : Udp!Ids, datagram : Udp!Datagram]

UdpInv ==
  /\ listening \in BOOLEAN /\ receiving \in BOOLEAN
  /\ registry = {} \/ listening
  /\ peerAt \in [Endpoints -> 0..MaxSessionId]
  /\ peer \in [Udp!Ids -> PeerRecord]
  /\ registry \subseteq Udp!Ids /\ Cardinality(registry) <= MaxConnections
  /\ nextSessionId \in 0..MaxSessionId
  /\ sending \subseteq Sending
  /\ received \in 0..MaxReads
  /\ \A p \in Udp!Ids : PeerOK(peer[p])
  /\ \A p \in Udp!Ids : ~peer[p].closed => SendsFirst(sending, p, peer[p])
  /\ FreshOK(nextSessionId, peer, sending)
  /\ TableOK(registry, peerAt, peer)

\* The inductive invariant: the protocol served keeps its part, the state of the
\* others stays initial.
Inv ==
  /\ kind \in Kinds
  /\ IF IsStream THEN StreamInv ELSE Stream!StreamInit
  /\ IF IsHttp THEN HttpInv ELSE Http!HttpInit
  /\ UdpInv
  /\ IsUdp => StateInit /\ op = "start"
-----------------------------------------------------------------------------
(***************************************************************************)
(* The deadline timer.                                                     *)
(***************************************************************************)

\* A new arm: no handler of it is queued yet.
LEMMA TimerArmed ==
  ASSUME NEW t \in Timer, NEW q \in Nat, NEW d \in Nat, \A g \in t.due : g <= t.generation
  PROVE  /\ arm_deadline(t, d) \in Timer
         /\ TimerOK(arm_deadline(t, d), q, d)
<1> DEFINE u == arm_deadline(t, d)
<1>1. /\ t.generation \in Nat /\ t.due \in SUBSET Nat
      /\ u \in Timer /\ u.generation = t.generation + 1 /\ u.remaining = d /\ u.due = t.due
  <2>1. t.generation \in Nat /\ t.due \in SUBSET Nat /\ t.generation + 1 \in Nat
    BY DEF Timer
  <2>2. u.generation = t.generation + 1 /\ u.remaining = d /\ u.due = t.due
    BY DEF arm_deadline, Timer
  <2>3. u \in Timer
    BY <2>1 DEF arm_deadline, Timer
  <2> QED BY <2>1, <2>2, <2>3
<1> HIDE DEF u
<1>2. u.generation \notin u.due
  BY <1>1
<1>3. \A g \in u.due : g <= u.generation
  BY <1>1
<1> QED BY <1>1, <1>2, <1>3 DEF TimerOK, u

\* A tick of the outstanding wait.
Elapsed(t) == [t EXCEPT !.remaining = @ - 1,
                        !.due = IF t.remaining = 1 THEN @ \cup {t.generation} ELSE @]
LEMMA TimerElapses ==
  ASSUME NEW t \in Timer, NEW q \in Nat, NEW a \in Nat, t.remaining > 0
  PROVE  /\ Elapsed(t) \in Timer
         /\ TimerOK(t, q, a) => TimerOK(Elapsed(t), q + 1, a)
<1> DEFINE u == Elapsed(t)
<1>1. /\ t.generation \in Nat /\ t.remaining \in Nat /\ t.due \in SUBSET Nat
      /\ u \in Timer /\ u.generation = t.generation /\ u.remaining = t.remaining - 1
      /\ u.due = IF t.remaining = 1 THEN t.due \cup {t.generation} ELSE t.due
  <2> DEFINE later == IF t.remaining = 1 THEN t.due \cup {t.generation} ELSE t.due
  <2>1. /\ t.generation \in Nat /\ t.remaining \in Nat /\ t.due \in SUBSET Nat
        /\ t.remaining - 1 \in Nat /\ later \in SUBSET Nat
    BY DEF Timer
  <2>2. u = [t EXCEPT !.remaining = t.remaining - 1, !.due = later]
    BY DEF Elapsed, Timer
  <2> HIDE DEF later, u
  <2>3. u \in Timer /\ u.generation = t.generation /\ u.remaining = t.remaining - 1 /\ u.due = later
    BY <2>1, <2>2 DEF Timer
  <2> QED BY <2>1, <2>3 DEF later
<1> HIDE DEF u
<1>2. ASSUME TimerOK(t, q, a) PROVE TimerOK(u, q + 1, a)
  <2>1. /\ \A g \in t.due : g <= t.generation
        /\ t.generation \notin t.due
        /\ q + t.remaining >= a
    BY <1>1, <1>2 DEF TimerOK
  <2>2. \A g \in u.due : g <= u.generation
    BY <1>1, <2>1
  <2>3. u.generation \in u.due => q + 1 >= a /\ u.remaining = 0
    BY <1>1, <2>1
  <2>4. u.remaining > 0 => (q + 1) + u.remaining >= a
    BY <1>1, <2>1
  <2> QED BY <2>2, <2>3, <2>4 DEF TimerOK
<1> QED BY <1>1, <1>2 DEF u

\* The handler of an older arm is gone.
Ignored(t, generation) == [t EXCEPT !.due = @ \ {generation}]
LEMMA TimerIgnored ==
  ASSUME NEW t \in Timer, NEW q \in Nat, NEW a \in Nat, NEW g
  PROVE  /\ Ignored(t, g) \in Timer
         /\ TimerOK(t, q, a) => TimerOK(Ignored(t, g), q, a)
<1> DEFINE u == Ignored(t, g)
<1>1. /\ t.generation \in Nat /\ t.remaining \in Nat /\ t.due \in SUBSET Nat
      /\ u \in Timer /\ u.generation = t.generation /\ u.remaining = t.remaining
      /\ u.due = t.due \ {g}
  BY DEF Ignored, Timer
<1> QED BY <1>1 DEF TimerOK

\* A cancelled wait.
LEMMA TimerCancelled ==
  ASSUME NEW t \in Timer
  PROVE  [t EXCEPT !.remaining = 0] \in Timer
BY DEF Timer
-----------------------------------------------------------------------------
(***************************************************************************)
(* Message connections.                                                    *)
(***************************************************************************)

StreamOps == {"start", "none", "tls", "upgrade", "accept", "header", "body", "message"}

LEMMA StreamTypes ==
  ASSUME StreamInv
  PROVE  /\ closed \in BOOLEAN /\ opened \in BOOLEAN /\ registered \in BOOLEAN
         /\ timer \in Timer /\ quiet \in Nat /\ why \in Reasons
         /\ op \in StreamOps /\ outgoing \in Seq(Stream!Frame)
         /\ queuedBytes \in 0..MaxSendQueueBytes
         /\ write \in Stream!Frame /\ wire \in Seq(Stream!Frame)
         /\ sends \in 0..MaxSends /\ reads \in 0..MaxReads
BY DEF StreamInv, Stream!TypeOK, Stream!StateTypeOK, Stream!Timer, Timer, Stream!Reasons, Reasons,
       StreamOps

\* The connection is closed: its queue is empty, its counter zero.
StreamRests ==
  /\ closed' = TRUE /\ outgoing' = <<>> /\ queuedBytes' = 0
  /\ opened' \in BOOLEAN /\ registered' \in BOOLEAN /\ timer' \in Timer /\ quiet' \in Nat
  /\ why' \in Reasons
  /\ op' \in StreamOps /\ write' \in Stream!Frame
  /\ UNCHANGED <<kind, wire, sends, reads>>

LEMMA StreamStaysClosed ==
  ASSUME StreamInv, StreamRests
  PROVE  StreamInv'
<1>1. /\ closed' = TRUE /\ outgoing' = <<>> /\ queuedBytes' = 0
      /\ opened' \in BOOLEAN /\ registered' \in BOOLEAN /\ timer' \in Timer /\ quiet' \in Nat
      /\ why' \in Reasons /\ op' \in StreamOps /\ write' \in Stream!Frame
      /\ kind' = kind /\ wire' = wire /\ sends' = sends /\ reads' = reads
  BY DEF StreamRests
<1>2. Stream!TypeOK'
  <2>1. outgoing' \in Seq(Stream!Frame) /\ queuedBytes' \in 0..MaxSendQueueBytes
    BY <1>1, ConnectionAssumption
  <2> QED BY <1>1, <2>1, StreamTypes
       DEF Stream!TypeOK, Stream!StateTypeOK, Stream!Timer, Timer, Stream!Reasons, Reasons, StreamOps,
           Stream!Frame
<1>3. \A i \in 1..Len(wire') : wire'[i].number = i
  BY <1>1 DEF StreamInv
<1>4. \A i \in 1..Len(outgoing') : outgoing'[i].number = Len(wire') + i
  BY <1>1
<1>5. queuedBytes' = FramesTotal(kind', outgoing')
  BY <1>1, FramesEmpty
<1> QED BY <1>1, <1>2, <1>3, <1>4, <1>5 DEF StreamInv

\* The connection lives on and its queue is as before.
StreamWaits ==
  /\ closed = FALSE /\ closed' = FALSE
  /\ opened' \in BOOLEAN /\ registered' \in BOOLEAN /\ timer' \in Timer /\ quiet' \in Nat
  /\ op' \in StreamOps \ {"none"} /\ opened' = (op' \in Waiting) /\ (opened => opened')
  /\ reads' \in 0..MaxReads
  /\ TimerOK(timer', quiet', IF opened' THEN IdleTimeout ELSE HandshakeTimeout)
  /\ UNCHANGED <<why, kind, outgoing, queuedBytes, write, wire, sends>>

LEMMA StreamLivesOn ==
  ASSUME StreamInv, StreamWaits
  PROVE  StreamInv'
<1>1. /\ closed = FALSE /\ closed' = FALSE
      /\ opened' \in BOOLEAN /\ registered' \in BOOLEAN /\ timer' \in Timer /\ quiet' \in Nat
      /\ op' \in StreamOps \ {"none"} /\ opened' = (op' \in Waiting) /\ (opened => opened')
      /\ reads' \in 0..MaxReads
      /\ TimerOK(timer', quiet', IF opened' THEN IdleTimeout ELSE HandshakeTimeout)
      /\ why' = why /\ kind' = kind /\ outgoing' = outgoing /\ queuedBytes' = queuedBytes
      /\ write' = write /\ wire' = wire /\ sends' = sends
  BY DEF StreamWaits
<1>2. Stream!TypeOK'
  BY <1>1, StreamTypes
     DEF Stream!TypeOK, Stream!StateTypeOK, Stream!Timer, Timer, Stream!Reasons, Reasons, StreamOps,
         Stream!Frame
<1>3. Stream!Allowed' = IF opened' THEN IdleTimeout ELSE HandshakeTimeout
  BY DEF Stream!Allowed
<1>4. /\ op' # "none" /\ opened' = (op' \in Waiting) /\ why' = "open"
      /\ (outgoing' # <<>> => opened')
      /\ write' = IF outgoing' = <<>> THEN Stream!NoFrame' ELSE Head(outgoing')
      /\ Len(wire') + Len(outgoing') = sends'
      /\ TimerOK(timer', quiet', Stream!Allowed')
  BY <1>1, <1>3 DEF StreamInv, Stream!NoFrame
<1>5. /\ \A i \in 1..Len(wire') : wire'[i].number = i
      /\ \A i \in 1..Len(outgoing') : outgoing'[i].number = Len(wire') + i
      /\ queuedBytes' = FramesTotal(kind', outgoing')
  BY <1>1 DEF StreamInv
<1> QED BY <1>1, <1>2, <1>4, <1>5 DEF StreamInv
LEMMA StreamCloses ==
  ASSUME StreamInv, NEW reason \in Reasons, Stream!close(reason),
         opened' \in BOOLEAN, op' \in StreamOps, write' \in Stream!Frame
  PROVE  StreamInv'
<1>1. /\ closed' = TRUE /\ registered' = FALSE /\ timer' = [timer EXCEPT !.remaining = 0]
      /\ why' = reason /\ quiet' = quiet /\ outgoing' = <<>> /\ queuedBytes' = 0
      /\ UNCHANGED <<kind, wire, sends, reads>>
  BY DEF Stream!close, Stream!remove_from_registry
<1>2. timer' \in Timer /\ quiet' \in Nat
  BY <1>1, StreamTypes, TimerCancelled
<1>3. StreamRests
  BY <1>1, <1>2 DEF StreamRests
<1> QED BY <1>3, StreamStaysClosed

\* A handler closes, and no read is outstanding any more.
LEMMA StreamEnds ==
  ASSUME StreamInv, NEW reason \in Reasons, Stream!close(reason), op' = "none",
         UNCHANGED <<opened, write>>
  PROVE  StreamInv'
<1>1. opened' \in BOOLEAN /\ op' \in StreamOps /\ write' \in Stream!Frame
  BY StreamTypes DEF StreamOps
<1> QED BY <1>1, StreamCloses

LEMMA StreamTimer ==
  ASSUME StreamInv, ~closed
  PROVE  /\ \A g \in timer.due : g <= timer.generation
         /\ TimerOK(timer, quiet, IF opened THEN IdleTimeout ELSE HandshakeTimeout)
BY DEF StreamInv, TimerOK, Stream!Allowed

LEMMA BeginMessagesKeeps ==
  ASSUME StreamInv, ~closed, Stream!BeginMessages
  PROVE  StreamInv'
<1>1. CASE Stream!PublishOpen /\ op' = Stream!NextMessage /\ UNCHANGED <<kind, Stream!queueVars, reads>>
  <2>1. /\ opened' = TRUE /\ timer' = arm_deadline(timer, IdleTimeout) /\ quiet' = 0
        /\ closed' = closed /\ registered' = registered /\ why' = why
        /\ kind' = kind /\ reads' = reads
        /\ outgoing' = outgoing /\ queuedBytes' = queuedBytes /\ write' = write
        /\ wire' = wire /\ sends' = sends
    BY <1>1 DEF Stream!PublishOpen, Stream!touch_idle_deadline, Stream!arm_deadline, arm_deadline,
                Stream!queueVars
  <2>2. op' \in Waiting
    BY <1>1 DEF Stream!NextMessage, Waiting
  <2>3. timer' \in Timer /\ TimerOK(timer', quiet', IdleTimeout)
    BY <2>1, StreamTypes, StreamTimer, TimerArmed, ConnectionAssumption
  <2>4. StreamWaits
    BY <2>1, <2>2, <2>3, StreamTypes DEF StreamWaits, StreamOps, Waiting
  <2> QED BY <2>4, StreamLivesOn
<1>2. CASE Stream!close("refused") /\ op' = "none" /\ UNCHANGED <<opened, write>>
  BY <1>2, StreamEnds DEF Reasons
<1> QED BY <1>1, <1>2 DEF Stream!BeginMessages

LEMMA StreamStartKeeps ==
  ASSUME StreamInv, Stream!start
  PROVE  StreamInv'
<1>1. op = "start" /\ ~closed
  BY DEF Stream!start
<1>2. CASE kind.protocol = "tcp" /\ ~kind.tls
  BY <1>1, <1>2, BeginMessagesKeeps DEF Stream!start
<1>3. CASE ~(kind.protocol = "tcp" /\ ~kind.tls)
  <2>1. /\ Stream!begin_handshake_deadline
        /\ op' = IF kind.tls THEN "tls" ELSE "upgrade"
        /\ UNCHANGED <<closed, opened, registered, quiet, why, kind, Stream!queueVars, reads>>
    BY <1>3 DEF Stream!start
  <2>2. /\ timer' = arm_deadline(timer, HandshakeTimeout)
        /\ op' \in {"tls", "upgrade"}
        /\ closed' = closed /\ opened' = opened /\ registered' = registered /\ quiet' = quiet
        /\ why' = why /\ kind' = kind /\ reads' = reads
        /\ outgoing' = outgoing /\ queuedBytes' = queuedBytes /\ write' = write
        /\ wire' = wire /\ sends' = sends
    BY <2>1 DEF Stream!begin_handshake_deadline, Stream!arm_deadline, arm_deadline, Stream!queueVars
  <2>3. timer' \in Timer /\ TimerOK(timer', quiet', HandshakeTimeout)
    BY <1>1, <2>2, StreamTypes, StreamTimer, TimerArmed, ConnectionAssumption
  <2>4. opened = FALSE
    BY <1>1, StreamTypes DEF StreamInv, Waiting
  <2>5. StreamWaits
    BY <1>1, <2>2, <2>3, <2>4, StreamTypes DEF StreamWaits, StreamOps, Waiting
  <2> QED BY <2>5, StreamLivesOn
<1> QED BY <1>2, <1>3

\* The next operation of the same phase is started.
LEMMA StreamOpMoves ==
  ASSUME StreamInv, ~closed, op' \in StreamOps \ {"none"}, (op' \in Waiting) = (op \in Waiting),
         UNCHANGED <<stateVars, kind, Stream!queueVars, reads>>
  PROVE  StreamInv'
<1>1. /\ closed' = closed /\ opened' = opened /\ timer' = timer /\ registered' = registered
      /\ quiet' = quiet /\ why' = why /\ kind' = kind /\ reads' = reads
      /\ outgoing' = outgoing /\ queuedBytes' = queuedBytes /\ write' = write
      /\ wire' = wire /\ sends' = sends
  BY DEF stateVars, Stream!queueVars
<1>2. opened = (op \in Waiting)
  BY DEF StreamInv
<1>3. StreamWaits
  BY <1>1, <1>2, StreamTypes, StreamTimer DEF StreamWaits
<1> QED BY <1>3, StreamLivesOn

LEMMA HandshakeDoneKeeps ==
  ASSUME StreamInv, Stream!HandshakeDone
  PROVE  StreamInv'
<1>1. op = "tls" /\ ~closed
  BY DEF Stream!HandshakeDone
<1>2. CASE kind.protocol = "tcp"
  BY <1>1, <1>2, BeginMessagesKeeps DEF Stream!HandshakeDone
<1>3. CASE kind.protocol # "tcp"
  <2>1. op' = "upgrade" /\ UNCHANGED <<stateVars, kind, Stream!queueVars, reads>>
    BY <1>3 DEF Stream!HandshakeDone, Stream!stateVars, stateVars
  <2> QED BY <1>1, <2>1, StreamOpMoves DEF StreamOps, Waiting
<1> QED BY <1>2, <1>3

LEMMA UpgradeKeeps ==
  ASSUME StreamInv, Stream!read_upgrade_request
  PROVE  StreamInv'
<1>1. op = "upgrade" /\ ~closed
  BY DEF Stream!read_upgrade_request
<1>2. CASE op' = "accept" /\ UNCHANGED <<stateVars, kind, Stream!queueVars, reads>>
  BY <1>1, <1>2, StreamOpMoves DEF StreamOps, Waiting
<1>3. CASE Stream!close("rejected") /\ op' = "none" /\ UNCHANGED <<opened, write>>
  BY <1>3, StreamEnds DEF Reasons
<1> QED BY <1>2, <1>3 DEF Stream!read_upgrade_request, Stream!stateVars, stateVars

LEMMA AcceptKeeps ==
  ASSUME StreamInv, Stream!accept_upgrade
  PROVE  StreamInv'
BY BeginMessagesKeeps DEF Stream!accept_upgrade

LEMMA ReadHeaderKeeps ==
  ASSUME StreamInv, Stream!read_header
  PROVE  StreamInv'
<1>1. op = "header" /\ ~closed
  BY DEF Stream!read_header
<1>2. CASE op' = "body" /\ UNCHANGED <<stateVars, kind, Stream!queueVars, reads>>
  BY <1>1, <1>2, StreamOpMoves DEF StreamOps, Waiting
<1>3. CASE Stream!close("rejected") /\ op' = "none" /\ UNCHANGED <<opened, write>>
  BY <1>3, StreamEnds DEF Reasons
<1> QED BY <1>2, <1>3 DEF Stream!read_header, Stream!stateVars, stateVars

LEMMA ReadMessageKeeps ==
  ASSUME StreamInv, Stream!read_message
  PROVE  StreamInv'
<1>1. op \in {"body", "message"} /\ ~closed
  BY DEF Stream!read_message
<1>2. CASE /\ reads < MaxReads /\ Stream!Progress /\ op' = Stream!NextMessage /\ reads' = reads + 1
           /\ UNCHANGED <<kind, Stream!queueVars>>
  <2>1. /\ timer' = arm_deadline(timer, IdleTimeout) /\ quiet' = 0
        /\ closed' = closed /\ opened' = opened /\ registered' = registered /\ why' = why
        /\ kind' = kind /\ outgoing' = outgoing /\ queuedBytes' = queuedBytes /\ write' = write
        /\ wire' = wire /\ sends' = sends
    BY <1>2 DEF Stream!Progress, Stream!touch_idle_deadline, Stream!arm_deadline, arm_deadline,
                Stream!queueVars
  <2>2. op' \in Waiting /\ opened = TRUE
    BY <1>1, <1>2, StreamTypes DEF Stream!NextMessage, Waiting, StreamInv
  <2>3. timer' \in Timer /\ TimerOK(timer', quiet', IdleTimeout)
    BY <1>1, <2>1, StreamTypes, StreamTimer, TimerArmed, ConnectionAssumption
  <2>4. reads' \in 0..MaxReads
    BY <1>2, StreamTypes, ConnectionAssumption
  <2>5. StreamWaits
    BY <1>1, <2>1, <2>2, <2>3, <2>4, StreamTypes DEF StreamWaits, StreamOps, Waiting
  <2> QED BY <2>5, StreamLivesOn
<1>3. CASE Stream!close("refused") /\ op' = "none" /\ UNCHANGED <<opened, write>>
  BY <1>3, StreamEnds DEF Reasons
<1>4. CASE Stream!close("rejected") /\ op' = "none" /\ UNCHANGED <<opened, write>>
  BY <1>4, StreamEnds DEF Reasons
<1> QED BY <1>2, <1>3, <1>4 DEF Stream!read_message

LEMMA GuardedHandlerKeeps ==
  ASSUME StreamInv, NEW step, Stream!guarded_handler(step), op' = "none", UNCHANGED write
  PROVE  StreamInv'
<1>1. Stream!close("exception")
  BY DEF Stream!guarded_handler
<1>2. opened' \in BOOLEAN
  BY StreamTypes DEF Stream!guarded_handler
<1> QED BY <1>1, <1>2, StreamTypes, StreamCloses DEF Reasons, StreamOps

LEMMA ReadEndsKeeps ==
  ASSUME StreamInv, Stream!ReadEnds
  PROVE  StreamInv'
<1>1. op' = "none" /\ UNCHANGED write
  BY DEF Stream!ReadEnds
<1>2. CASE Stream!close("error") /\ UNCHANGED opened
  BY <1>1, <1>2, StreamEnds DEF Reasons
<1>3. CASE Stream!guarded_handler(op)
  BY <1>1, <1>3, GuardedHandlerKeeps
<1> QED BY <1>2, <1>3 DEF Stream!ReadEnds

LEMMA StreamStartThrowsKeeps ==
  ASSUME StreamInv, Stream!StartThrows
  PROVE  StreamInv'
BY GuardedHandlerKeeps DEF Stream!StartThrows

LEMMA ReadAfterCloseKeeps ==
  ASSUME StreamInv, Stream!ReadAfterClose
  PROVE  StreamInv'
<1>1. /\ closed /\ op' \in StreamOps
      /\ closed' = closed /\ opened' = opened /\ timer' = timer /\ registered' = registered
      /\ quiet' = quiet /\ why' = why /\ kind' = kind /\ reads' = reads
      /\ outgoing' = outgoing /\ queuedBytes' = queuedBytes /\ write' = write
      /\ wire' = wire /\ sends' = sends
  BY DEF Stream!ReadAfterClose, Stream!stateVars, Stream!queueVars, StreamOps
<1>2. outgoing = <<>> /\ queuedBytes = 0
  BY <1>1 DEF StreamInv
<1>3. StreamRests
  BY <1>1, <1>2, StreamTypes DEF StreamRests
<1> QED BY <1>3, StreamStaysClosed
\* A frame is queued at the end; the first one is written.
LEMMA StreamSendKeeps ==
  ASSUME StreamInv, NEW size \in PayloadSizes, Stream!send(size)
  PROVE  StreamInv'
<1> DEFINE frame == [number |-> sends + 1, size |-> size]
<1>1. /\ ~closed /\ opened /\ Stream!fits(size) /\ sends < MaxSends
      /\ outgoing' = Append(outgoing, frame)
      /\ write' = IF outgoing = <<>> THEN frame ELSE write
      /\ queuedBytes' = queuedBytes + FrameCost(kind, size)
      /\ sends' = sends + 1
      /\ closed' = closed /\ opened' = opened /\ timer' = timer /\ registered' = registered
      /\ quiet' = quiet /\ why' = why /\ kind' = kind /\ op' = op /\ wire' = wire /\ reads' = reads
  BY DEF Stream!send, Stream!stateVars, Stream!cost, FrameCost
<1>2. /\ frame \in Stream!Frame /\ frame.number = sends + 1 /\ frame.size = size
      /\ sends' \in 0..MaxSends /\ sends \in Nat
  BY <1>1, StreamTypes, ConnectionAssumption DEF Stream!Frame
<1> HIDE DEF frame
<1>3. queuedBytes' \in 0..MaxSendQueueBytes
  <2>1. size \in Nat /\ FrameCost(kind, size) \in Nat
    BY SizesAreNat DEF FrameCost
  <2>2. queuedBytes <= MaxSendQueueBytes - FrameCost(kind, size)
    BY <1>1 DEF Stream!fits, Stream!cost, FrameCost
  <2> QED BY <1>1, <2>1, <2>2, StreamTypes, ConnectionAssumption
<1>4. Stream!TypeOK'
  <2>1. outgoing' \in Seq(Stream!Frame) /\ write' \in Stream!Frame
    BY <1>1, <1>2, StreamTypes
  <2> QED BY <1>1, <1>2, <1>3, <2>1, StreamTypes
       DEF Stream!TypeOK, Stream!StateTypeOK, Stream!Timer, Timer, Stream!Reasons, Reasons, StreamOps,
           Stream!Frame
<1>5. /\ Len(wire) + Len(outgoing) = sends /\ why = "open" /\ op # "none"
      /\ opened = (op \in Waiting)
      /\ write = IF outgoing = <<>> THEN Stream!NoFrame ELSE Head(outgoing)
      /\ TimerOK(timer, quiet, Stream!Allowed)
      /\ \A i \in 1..Len(wire) : wire[i].number = i
      /\ \A i \in 1..Len(outgoing) : outgoing[i].number = Len(wire) + i
      /\ queuedBytes = FramesTotal(kind, outgoing)
  BY <1>1 DEF StreamInv
<1>6. /\ Len(outgoing') = Len(outgoing) + 1 /\ outgoing' # <<>>
      /\ \A i \in 1..Len(outgoing) : outgoing'[i] = outgoing[i]
      /\ outgoing'[Len(outgoing) + 1] = frame
      /\ Len(wire) \in Nat /\ Len(outgoing) \in Nat
  BY <1>1, <1>2, StreamTypes
<1>7. write' = Head(outgoing')
  <2>1. Head(outgoing') = outgoing'[1]
    BY <1>6
  <2>2. CASE outgoing = <<>>
    BY <2>1, <2>2, <1>1, <1>6
  <2>3. CASE outgoing # <<>>
    <3>1. 1 \in 1..Len(outgoing) /\ Head(outgoing) = outgoing[1]
      BY <2>3, StreamTypes
    <3> QED BY <3>1, <2>1, <2>3, <1>1, <1>5, <1>6
  <2> QED BY <2>2, <2>3
<1>a. wire' = wire /\ sends' = sends + 1 /\ opened'
  BY <1>1, StreamTypes
<1>b. /\ Len(wire) + Len(outgoing) = sends /\ Len(outgoing') = Len(outgoing) + 1
      /\ Len(wire) \in Nat /\ Len(outgoing) \in Nat /\ sends \in Nat
  BY <1>2, <1>5, <1>6
<1>8. Len(wire') + Len(outgoing') = sends'
  BY <1>a, <1>b
<1>9. \A i \in 1..Len(outgoing') : outgoing'[i].number = Len(wire') + i
  <2> TAKE i \in 1..Len(outgoing')
  <2>1. i \in 1..Len(outgoing) \/ i = Len(outgoing) + 1
    BY <1>6
  <2>2. CASE i \in 1..Len(outgoing)
    BY <2>2, <1>a, <1>5, <1>6
  <2>3. CASE i = Len(outgoing) + 1
    <3>1. outgoing'[i].number = sends + 1
      BY <2>3, <1>2, <1>6
    <3> QED BY <3>1, <2>3, <1>a, <1>b
  <2> QED BY <2>1, <2>2, <2>3
<1>10. queuedBytes' = FramesTotal(kind', outgoing')
  BY <1>1, <1>2, <1>5, StreamTypes, FramesAppend
<1>11. Stream!Allowed' = Stream!Allowed
  BY <1>1 DEF Stream!Allowed
<1>12. /\ closed' = FALSE /\ op' # "none" /\ opened' = (op' \in Waiting) /\ why' = "open"
       /\ write' = IF outgoing' = <<>> THEN Stream!NoFrame' ELSE Head(outgoing')
       /\ TimerOK(timer', quiet', Stream!Allowed')
       /\ \A i \in 1..Len(wire') : wire'[i].number = i
  BY <1>1, <1>5, <1>6, <1>7, <1>11, StreamTypes
<1> QED BY <1>4, <1>a, <1>8, <1>9, <1>10, <1>12 DEF StreamInv

LEMMA StreamSendThrowsKeeps ==
  ASSUME StreamInv, NEW size \in PayloadSizes, Stream!send_throws(size)
  PROVE  StreamInv'
<1>1. Stream!close("exception") /\ UNCHANGED <<opened, op, write>>
  BY DEF Stream!send_throws
<1> QED BY <1>1, StreamTypes, StreamCloses DEF Reasons

\* The first frame is written and the next one starts.
LEMMA WriteNextKeeps ==
  ASSUME StreamInv, Stream!write_next
  PROVE  StreamInv'
<1>1. /\ write # Stream!NoFrame /\ ~closed
      /\ queuedBytes' = queuedBytes - FrameCost(kind, write.size)
      /\ outgoing' = Tail(outgoing)
      /\ wire' = Append(wire, write)
      /\ write' = IF Len(outgoing) > 1 THEN outgoing[2] ELSE Stream!NoFrame
      /\ timer' = arm_deadline(timer, IdleTimeout) /\ quiet' = 0
      /\ closed' = closed /\ opened' = opened /\ registered' = registered /\ why' = why
      /\ kind' = kind /\ op' = op /\ sends' = sends /\ reads' = reads
  BY DEF Stream!write_next, Stream!cost, FrameCost, Stream!Progress, Stream!touch_idle_deadline,
         Stream!arm_deadline, arm_deadline
<1>2. /\ Len(wire) + Len(outgoing) = sends /\ why = "open" /\ op # "none"
      /\ opened = (op \in Waiting)
      /\ write = IF outgoing = <<>> THEN Stream!NoFrame ELSE Head(outgoing)
      /\ \A i \in 1..Len(wire) : wire[i].number = i
      /\ \A i \in 1..Len(outgoing) : outgoing[i].number = Len(wire) + i
      /\ queuedBytes = FramesTotal(kind, outgoing)
  BY <1>1 DEF StreamInv
<1>3. outgoing # <<>> /\ write = Head(outgoing)
  BY <1>1, <1>2
<1>4. /\ Len(outgoing) \in Nat /\ Len(outgoing) > 0 /\ Head(outgoing) = outgoing[1]
      /\ Tail(outgoing) \in Seq(Stream!Frame) /\ Len(Tail(outgoing)) = Len(outgoing) - 1
      /\ \A i \in 1..(Len(outgoing) - 1) : Tail(outgoing)[i] = outgoing[i + 1] /\ i + 1 \in 1..Len(outgoing)
  BY <1>3, StreamTypes
<1>5. /\ wire' \in Seq(Stream!Frame) /\ Len(wire') = Len(wire) + 1 /\ Len(wire) \in Nat
      /\ \A i \in 1..Len(wire) : wire'[i] = wire[i]
      /\ wire'[Len(wire) + 1] = write
  BY <1>1, StreamTypes
<1>6. queuedBytes' = FramesTotal(kind, Tail(outgoing)) /\ queuedBytes' \in 0..MaxSendQueueBytes
  <2>1. /\ queuedBytes = FrameCost(kind, write.size) + FramesTotal(kind, Tail(outgoing))
        /\ FramesTotal(kind, Tail(outgoing)) \in Nat /\ FrameCost(kind, write.size) \in Nat
    BY <1>2, <1>3, StreamTypes, FramesTail
  <2> QED BY <1>1, <2>1, StreamTypes, ConnectionAssumption
<1>7. timer' \in Timer /\ TimerOK(timer', quiet', IdleTimeout)
  BY <1>1, StreamTypes, StreamTimer, TimerArmed, ConnectionAssumption
<1>8. opened = TRUE
  BY <1>1, <1>3, StreamTypes DEF StreamInv
<1>9. Stream!TypeOK'
  <2>1. write' \in Stream!Frame
    <3>1. Stream!NoFrame \in Stream!Frame
      BY DEF Stream!NoFrame, Stream!Frame
    <3>2. Len(outgoing) > 1 => outgoing[2] \in Stream!Frame
      BY <1>4, StreamTypes
    <3> QED BY <3>1, <3>2, <1>1
  <2> QED BY <1>1, <1>4, <1>5, <1>6, <1>7, <2>1, StreamTypes
       DEF Stream!TypeOK, Stream!StateTypeOK, Stream!Timer, Timer, Stream!Reasons, Reasons, StreamOps,
           Stream!Frame
<1>10. write' = IF outgoing' = <<>> THEN Stream!NoFrame' ELSE Head(outgoing')
  <2>1. CASE Len(outgoing) > 1
    <3>1. /\ outgoing' # <<>> /\ Head(outgoing') = outgoing'[1]
          /\ outgoing'[1] = outgoing[2]
      BY <2>1, <1>1, <1>4
    <3> QED BY <3>1, <2>1, <1>1
  <2>2. CASE Len(outgoing) = 1
    <3>1. outgoing' = <<>>
      BY <2>2, <1>1, <1>4
    <3> QED BY <3>1, <2>2, <1>1 DEF Stream!NoFrame
  <2> QED BY <2>1, <2>2, <1>4
<1>11. Len(wire') + Len(outgoing') = sends'
  BY <1>1, <1>2, <1>4, <1>5
<1>12. \A i \in 1..Len(wire') : wire'[i].number = i
  <2> TAKE i \in 1..Len(wire')
  <2>1. i \in 1..Len(wire) \/ i = Len(wire) + 1
    BY <1>5
  <2>2. write.number = Len(wire) + 1
    BY <1>2, <1>3, <1>4
  <2> QED BY <2>1, <2>2, <1>2, <1>5
<1>13. \A i \in 1..Len(outgoing') : outgoing'[i].number = Len(wire') + i
  <2> TAKE i \in 1..Len(outgoing')
  <2>1. i \in 1..(Len(outgoing) - 1) /\ outgoing'[i] = outgoing[i + 1] /\ i + 1 \in 1..Len(outgoing)
    BY <1>1, <1>4
  <2> QED BY <2>1, <1>2, <1>5
<1>14. /\ closed' = FALSE /\ op' # "none" /\ opened' = (op' \in Waiting) /\ why' = "open" /\ opened'
       /\ TimerOK(timer', quiet', Stream!Allowed')
       /\ queuedBytes' = FramesTotal(kind', outgoing')
  BY <1>1, <1>2, <1>6, <1>7, <1>8, StreamTypes DEF Stream!Allowed
<1> QED BY <1>9, <1>10, <1>11, <1>12, <1>13, <1>14 DEF StreamInv
LEMMA WriteEndsKeeps ==
  ASSUME StreamInv, Stream!WriteEnds
  PROVE  StreamInv'
<1>1. write' = Stream!NoFrame /\ opened' = opened /\ op' = op
  BY DEF Stream!WriteEnds
<1>2. opened' \in BOOLEAN /\ op' \in StreamOps /\ write' \in Stream!Frame
  <2>1. Stream!NoFrame \in Stream!Frame
    BY DEF Stream!NoFrame, Stream!Frame
  <2> QED BY <1>1, <2>1, StreamTypes
<1>3. CASE closed
  <2>1. /\ closed' = closed /\ timer' = timer /\ registered' = registered
        /\ quiet' = quiet /\ why' = why /\ kind' = kind /\ reads' = reads
        /\ outgoing' = outgoing /\ queuedBytes' = queuedBytes /\ wire' = wire /\ sends' = sends
    BY <1>3 DEF Stream!WriteEnds, Stream!stateVars
  <2>2. outgoing = <<>> /\ queuedBytes = 0
    BY <1>3 DEF StreamInv
  <2>3. StreamRests
    BY <1>2, <1>3, <2>1, <2>2, StreamTypes DEF StreamRests
  <2> QED BY <2>3, StreamStaysClosed
<1>4. CASE ~closed
  <2>1. Stream!close("error") \/ Stream!close("exception")
    BY <1>4 DEF Stream!WriteEnds
  <2> QED BY <2>1, <1>2, StreamCloses DEF Reasons
<1> QED BY <1>3, <1>4

\* The timer changes and nothing else.
LEMMA StreamTimerMoves ==
  ASSUME StreamInv, timer' \in Timer, quiet' \in Nat,
         \A a \in Nat : TimerOK(timer, quiet, a) => TimerOK(timer', quiet', a),
         UNCHANGED <<closed, opened, registered, why, kind, op, Stream!queueVars, reads>>
  PROVE  StreamInv'
<1>1. /\ closed' = closed /\ opened' = opened /\ registered' = registered
      /\ why' = why /\ kind' = kind /\ op' = op /\ reads' = reads
      /\ outgoing' = outgoing /\ queuedBytes' = queuedBytes /\ write' = write
      /\ wire' = wire /\ sends' = sends
  BY DEF Stream!queueVars
<1>2. CASE closed
  <2>1. outgoing = <<>> /\ queuedBytes = 0
    BY <1>2 DEF StreamInv
  <2>2. StreamRests
    BY <1>1, <1>2, <2>1, StreamTypes DEF StreamRests
  <2> QED BY <2>2, StreamStaysClosed
<1>3. CASE ~closed
  <2>1. opened = (op \in Waiting) /\ op # "none"
    BY <1>3 DEF StreamInv
  <2>2. TimerOK(timer', quiet', IF opened THEN IdleTimeout ELSE HandshakeTimeout)
    BY <1>3, StreamTimer, ConnectionAssumption
  <2>3. StreamWaits
    BY <1>1, <1>3, <2>1, <2>2, StreamTypes DEF StreamWaits
  <2> QED BY <2>3, StreamLivesOn
<1> QED BY <1>2, <1>3

LEMMA StreamTickKeeps ==
  ASSUME StreamInv, Stream!Tick
  PROVE  StreamInv'
<1>1. /\ timer.remaining > 0 /\ timer' = Elapsed(timer) /\ quiet' = quiet + 1
      /\ UNCHANGED <<closed, opened, registered, why, kind, op, Stream!queueVars, reads>>
  BY DEF Stream!Tick, Stream!Elapse, Elapsed
<1>2. /\ timer' \in Timer /\ quiet' \in Nat
      /\ \A a \in Nat : TimerOK(timer, quiet, a) => TimerOK(timer', quiet', a)
  BY <1>1, StreamTypes, TimerElapses
<1> QED BY <1>1, <1>2, StreamTimerMoves

LEMMA StreamDeadlineKeeps ==
  ASSUME StreamInv, NEW g, Stream!Deadline(g)
  PROVE  StreamInv'
<1>1. CASE Stream!close("deadline") /\ UNCHANGED <<opened, op, write>>
  BY <1>1, StreamTypes, StreamCloses DEF Reasons
<1>2. CASE Stream!DeadlineIgnored(g) /\ UNCHANGED <<kind, op, Stream!queueVars, reads>>
  <2>1. /\ timer' = Ignored(timer, g) /\ quiet' = quiet
        /\ UNCHANGED <<closed, opened, registered, why, kind, op, Stream!queueVars, reads>>
    BY <1>2 DEF Stream!DeadlineIgnored, Ignored
  <2>2. /\ timer' \in Timer /\ quiet' \in Nat
        /\ \A a \in Nat : TimerOK(timer, quiet, a) => TimerOK(timer', quiet', a)
    BY <2>1, StreamTypes, TimerIgnored
  <2> QED BY <2>1, <2>2, StreamTimerMoves
<1> QED BY <1>1, <1>2 DEF Stream!Deadline

LEMMA StreamDisconnectKeeps ==
  ASSUME StreamInv, Stream!Disconnect
  PROVE  StreamInv'
<1>1. Stream!close("finished") /\ UNCHANGED <<opened, op, write>>
  BY DEF Stream!Disconnect
<1> QED BY <1>1, StreamTypes, StreamCloses DEF Reasons

\* Every step of a message connection keeps its invariant.
LEMMA StreamNextKeeps ==
  ASSUME StreamInv, Stream!Next
  PROVE  StreamInv'
<1>1. CASE Stream!Completions
  BY <1>1, StreamStartKeeps, HandshakeDoneKeeps, UpgradeKeeps, AcceptKeeps, ReadHeaderKeeps,
     ReadMessageKeeps, ReadEndsKeeps, StreamStartThrowsKeeps, WriteNextKeeps, WriteEndsKeeps
     DEF Stream!Completions
<1>2. CASE Stream!ReadAfterClose
  BY <1>2, ReadAfterCloseKeeps
<1>3. CASE \E size \in PayloadSizes : Stream!send(size) \/ Stream!send_throws(size)
  BY <1>3, StreamSendKeeps, StreamSendThrowsKeeps
<1>4. CASE Stream!Tick
  BY <1>4, StreamTickKeeps
<1>5. CASE \E g \in timer.due : Stream!Deadline(g)
  BY <1>5, StreamDeadlineKeeps
<1>6. CASE Stream!Disconnect
  BY <1>6, StreamDisconnectKeeps
<1> QED BY <1>1, <1>2, <1>3, <1>4, <1>5, <1>6 DEF Stream!Next

\* A deadline closes only after the allowed time: no other step gives that
\* reason, and the handler that does is the one of the last arm.
LEMMA StreamDeadlineIsReal ==
  ASSUME StreamInv, Stream!Next, ~closed, why' = "deadline"
  PROVE  quiet >= Stream!Allowed
<1>1. why = "open"
  BY DEF StreamInv
<1>2. \E g \in timer.due : Stream!Deadline(g)
  <2>1. ~Stream!Completions
    BY <1>1 DEF Stream!Completions, Stream!start, Stream!HandshakeDone, Stream!read_upgrade_request,
          Stream!accept_upgrade, Stream!read_header, Stream!read_message, Stream!ReadEnds,
          Stream!StartThrows, Stream!write_next, Stream!WriteEnds, Stream!BeginMessages,
          Stream!PublishOpen, Stream!Progress, Stream!guarded_handler, Stream!close,
          Stream!remove_from_registry, Stream!stateVars
  <2>2. ~Stream!ReadAfterClose /\ ~Stream!Tick /\ ~Stream!Disconnect
    BY <1>1 DEF Stream!ReadAfterClose, Stream!Tick, Stream!Elapse, Stream!Disconnect, Stream!close,
          Stream!remove_from_registry, Stream!stateVars
  <2>3. \A size \in PayloadSizes : ~Stream!send(size) /\ ~Stream!send_throws(size)
    BY <1>1 DEF Stream!send, Stream!send_throws, Stream!close, Stream!remove_from_registry, Stream!stateVars
  <2> QED BY <2>1, <2>2, <2>3 DEF Stream!Next
<1>3. timer.generation \in timer.due
  <2>1. PICK g \in timer.due : Stream!Deadline(g)
    BY <1>2
  <2>2. g = timer.generation
    BY <1>1, <2>1 DEF Stream!Deadline, Stream!Fires, Stream!DeadlineIgnored
  <2> QED BY <2>1, <2>2
<1> QED BY <1>3 DEF StreamInv, TimerOK
-----------------------------------------------------------------------------
(***************************************************************************)
(* HTTP connections.                                                       *)
(***************************************************************************)

HttpOps == {"start", "none", "tls", "header", "body", "write"}
ResponseRecord == [request : 0..MaxReads, keep : BOOLEAN, bytes : 0..MaxSendQueueBytes]
Flags == [head : BOOLEAN, keep : BOOLEAN]

LEMMA HttpTypes ==
  ASSUME HttpInv
  PROVE  /\ closed \in BOOLEAN /\ opened \in BOOLEAN /\ registered \in BOOLEAN
         /\ timer \in Timer /\ quiet \in Nat /\ why \in Reasons
         /\ op \in HttpOps /\ pending \in 0..MaxRequestId /\ nextRequestId \in 0..MaxRequestId
         /\ requestFlags \in Flags /\ response \in ResponseRecord
         /\ taken \in 0..MaxReads /\ number \in [Http!RequestIds -> 0..MaxReads]
         /\ answers \in Seq(1..MaxReads)
BY DEF HttpInv, Http!TypeOK, Http!StateTypeOK, Http!Timer, Timer, Http!Reasons, Reasons,
       HttpOps, ResponseRecord, Flags

HttpTyped ==
  /\ closed' \in BOOLEAN /\ opened' \in BOOLEAN /\ registered' \in BOOLEAN
  /\ timer' \in Timer /\ quiet' \in Nat /\ why' \in Reasons
  /\ op' \in HttpOps /\ pending' \in 0..MaxRequestId /\ nextRequestId' \in 0..MaxRequestId
  /\ requestFlags' \in Flags /\ response' \in ResponseRecord
  /\ taken' \in 0..MaxReads /\ number' \in [Http!RequestIds -> 0..MaxReads]
  /\ answers' \in Seq(1..MaxReads)
  /\ \A i \in 1..Len(answers') : answers'[i] = i

LEMMA HttpTypeKept ==
  ASSUME HttpTyped
  PROVE  Http!TypeOK' /\ \A i \in 1..Len(answers') : answers'[i] = i
BY DEF HttpTyped, Http!TypeOK, Http!StateTypeOK, Http!Timer, Timer, Http!Reasons, Reasons,
       HttpOps, ResponseRecord, Flags, Http!RequestIds

\* The connection is closed: no request is pending.
LEMMA HttpStaysClosed ==
  ASSUME HttpTyped, closed' = TRUE, pending' = 0
  PROVE  HttpInv'
BY HttpTypeKept DEF HttpInv

HttpAllowed(o) == IF o \in {"tls", "header", "body"} THEN HandshakeTimeout ELSE IdleTimeout

\* The connection lives, and what it waits for fits its history.
HttpWaits ==
  /\ closed' = FALSE /\ why' = "open"
  /\ opened' = (op' \notin {"start", "tls"})
  /\ (op' = "none") = (pending' # 0)
  /\ taken' = Len(answers') + (IF op' \in {"write", "none"} THEN 1 ELSE 0)
  /\ op' = "write" => response'.request = taken'
  /\ op' = "body" => taken' < MaxReads
  /\ pending' # 0 => number'[pending'] = taken'
  /\ TimerOK(timer', quiet', HttpAllowed(op'))

LEMMA HttpLivesOn ==
  ASSUME HttpTyped, HttpWaits
  PROVE  HttpInv'
<1>1. Http!Allowed' = HttpAllowed(op')
  BY DEF Http!Allowed, HttpAllowed
<1> QED BY <1>1, HttpTypeKept DEF HttpInv, HttpWaits

LEMMA HttpNow ==
  ASSUME HttpInv, ~closed
  PROVE  /\ opened = (op \notin {"start", "tls"}) /\ why = "open"
         /\ (op = "none") = (pending # 0)
         /\ taken = Len(answers) + (IF op \in {"write", "none"} THEN 1 ELSE 0)
         /\ op = "write" => response.request = taken
         /\ op = "body" => taken < MaxReads
         /\ pending # 0 => number[pending] = taken
         /\ TimerOK(timer, quiet, HttpAllowed(op))
         /\ \A g \in timer.due : g <= timer.generation
         /\ \A i \in 1..Len(answers) : answers[i] = i
BY DEF HttpInv, Http!Allowed, HttpAllowed, TimerOK

LEMMA HttpCloses ==
  ASSUME HttpInv, NEW reason \in Reasons, Http!close(reason), opened' \in BOOLEAN, op' \in HttpOps,
         nextRequestId' \in 0..MaxRequestId, taken' \in 0..MaxReads,
         number' \in [Http!RequestIds -> 0..MaxReads]
  PROVE  HttpInv'
<1>1. /\ closed' = TRUE /\ registered' = FALSE /\ timer' = [timer EXCEPT !.remaining = 0]
      /\ why' = reason /\ quiet' = quiet /\ pending' = 0
      /\ requestFlags' = requestFlags /\ response' = response /\ answers' = answers
  BY DEF Http!close, Http!remove_from_registry
<1>2. timer' \in Timer /\ quiet' \in Nat /\ pending' \in 0..MaxRequestId
  BY <1>1, HttpTypes, TimerCancelled, ProtocolAssumption
<1>3. \A i \in 1..Len(answers') : answers'[i] = i
  BY <1>1 DEF HttpInv
<1>4. HttpTyped
  BY <1>1, <1>2, <1>3, HttpTypes DEF HttpTyped
<1> QED BY <1>1, <1>4, HttpStaysClosed

LEMMA CloseOnlyKeeps ==
  ASSUME HttpInv, NEW reason \in Reasons, Http!CloseOnly(reason), op' \in HttpOps
  PROVE  HttpInv'
<1>1. /\ Http!close(reason) /\ opened' = opened /\ nextRequestId' = nextRequestId
      /\ taken' = taken /\ number' = number
  BY DEF Http!CloseOnly
<1> QED BY <1>1, HttpTypes, HttpCloses

LEMMA BeginRequestsKeeps ==
  ASSUME HttpInv, ~closed, op \in {"start", "tls"}, Http!BeginRequests
  PROVE  HttpInv'
<1>1. CASE /\ opened' = TRUE
           /\ timer' = Http!arm_deadline(Http!arm_deadline(timer, IdleTimeout), HandshakeTimeout)
           /\ quiet' = 0
           /\ op' = "header"
           /\ UNCHANGED <<closed, registered, why, kind, Http!httpVars>>
  <2>1. /\ closed' = closed /\ registered' = registered /\ why' = why
        /\ pending' = pending /\ requestFlags' = requestFlags /\ nextRequestId' = nextRequestId
        /\ response' = response /\ taken' = taken /\ number' = number /\ answers' = answers
    BY <1>1 DEF Http!httpVars
  <2> DEFINE t == arm_deadline(timer, IdleTimeout)
  <2>2. t \in Timer /\ \A g \in t.due : g <= t.generation
    BY HttpTypes, HttpNow, TimerArmed, ConnectionAssumption DEF TimerOK
  <2>3. timer' = arm_deadline(t, HandshakeTimeout)
    BY <1>1 DEF Http!arm_deadline, arm_deadline
  <2> HIDE DEF t
  <2>4. timer' \in Timer /\ TimerOK(timer', quiet', HandshakeTimeout)
    BY <1>1, <2>2, <2>3, TimerArmed, ConnectionAssumption
  <2>5. HttpTyped
    BY <1>1, <2>1, <2>4, HttpTypes, HttpNow DEF HttpTyped, HttpOps
  <2>6. HttpWaits
    BY <1>1, <2>1, <2>4, HttpTypes, HttpNow DEF HttpWaits, HttpAllowed
  <2> QED BY <2>5, <2>6, HttpLivesOn
<1>2. CASE Http!CloseOnly("refused") /\ op' = "none"
  BY <1>2, CloseOnlyKeeps DEF Reasons, HttpOps
<1> QED BY <1>1, <1>2 DEF Http!BeginRequests

LEMMA HttpStartKeeps ==
  ASSUME HttpInv, Http!start
  PROVE  HttpInv'
<1>1. op = "start" /\ ~closed
  BY DEF Http!start
<1>2. CASE ~kind.tls
  BY <1>1, <1>2, BeginRequestsKeeps DEF Http!start
<1>3. CASE kind.tls
  <2>1. /\ timer' = arm_deadline(timer, HandshakeTimeout) /\ op' = "tls"
        /\ closed' = closed /\ opened' = opened /\ registered' = registered /\ quiet' = quiet
        /\ why' = why
        /\ pending' = pending /\ requestFlags' = requestFlags /\ nextRequestId' = nextRequestId
        /\ response' = response /\ taken' = taken /\ number' = number /\ answers' = answers
    BY <1>3 DEF Http!start, Http!begin_handshake_deadline, Http!arm_deadline, arm_deadline, Http!httpVars
  <2>2. timer' \in Timer /\ TimerOK(timer', quiet', HandshakeTimeout)
    BY <1>1, <2>1, HttpTypes, HttpNow, TimerArmed, ConnectionAssumption
  <2>3. HttpTyped
    BY <1>1, <2>1, <2>2, HttpTypes, HttpNow DEF HttpTyped, HttpOps
  <2>4. HttpWaits
    BY <1>1, <2>1, <2>2, HttpTypes, HttpNow DEF HttpWaits, HttpAllowed
  <2> QED BY <2>3, <2>4, HttpLivesOn
<1> QED BY <1>2, <1>3

LEMMA HttpHandshakeKeeps ==
  ASSUME HttpInv, Http!HandshakeDone
  PROVE  HttpInv'
BY BeginRequestsKeeps DEF Http!HandshakeDone

LEMMA HttpStartThrowsKeeps ==
  ASSUME HttpInv, kind \in Kinds, Http!StartThrows
  PROVE  HttpInv'
<1>1. /\ op' = "none" /\ Http!close("exception") /\ opened' \in {opened, ~kind.tls}
      /\ nextRequestId' = nextRequestId /\ taken' = taken /\ number' = number
  BY DEF Http!StartThrows
<1>2. opened' \in BOOLEAN
  BY <1>1, HttpTypes DEF Kinds
<1> QED BY <1>1, <1>2, HttpTypes, HttpCloses DEF Reasons, HttpOps
\* The response of the request after the last answered one is being written.
LEMMA WriteResponseKeeps ==
  ASSUME HttpInv, ~closed, opened, NEW request, NEW keep \in BOOLEAN, NEW bytes \in 0..MaxSendQueueBytes,
         Http!write_response(request, keep, bytes),
         taken' = request, request = Len(answers) + 1, request \in 1..MaxReads,
         nextRequestId' \in 0..MaxRequestId, number' \in [Http!RequestIds -> 0..MaxReads]
  PROVE  HttpInv'
<1>1. /\ pending' = 0 /\ op' = "write"
      /\ response' = [request |-> request, keep |-> keep, bytes |-> bytes]
      /\ timer' = arm_deadline(timer, IdleTimeout) /\ quiet' = 0
      /\ closed' = closed /\ opened' = opened /\ registered' = registered /\ why' = why
      /\ requestFlags' = requestFlags /\ answers' = answers
  BY DEF Http!write_response, Http!Progress, Http!touch_idle_deadline, Http!arm_deadline, arm_deadline
<1>2. timer' \in Timer /\ TimerOK(timer', quiet', IdleTimeout)
  BY <1>1, HttpTypes, HttpNow, TimerArmed, ConnectionAssumption
<1>3. response' \in ResponseRecord /\ response'.request = request
  BY <1>1, ConnectionAssumption DEF ResponseRecord
<1>4. pending' \in 0..MaxRequestId /\ taken' \in 0..MaxReads
  BY <1>1, ProtocolAssumption, ConnectionAssumption
<1>5. HttpTyped
  BY <1>1, <1>2, <1>3, <1>4, HttpTypes, HttpNow DEF HttpTyped, HttpOps
<1>6. HttpWaits
  BY <1>1, <1>2, <1>3, HttpTypes, HttpNow DEF HttpWaits, HttpAllowed
<1> QED BY <1>5, <1>6, HttpLivesOn

\* A request is being read and nothing else is going on.
Reading == ~closed /\ op \in {"header", "body"} /\ taken < MaxReads

LEMMA ReadingFacts ==
  ASSUME HttpInv, Reading
  PROVE  /\ opened = TRUE /\ pending = 0 /\ taken = Len(answers) /\ why = "open"
         /\ taken + 1 \in 1..MaxReads /\ taken + 1 = Len(answers) + 1
<1>1. opened = TRUE /\ pending = 0 /\ why = "open" /\ taken = Len(answers) + 0
  BY HttpNow, HttpTypes DEF Reading
<1>2. Len(answers) \in Nat /\ taken \in 0..MaxReads /\ MaxReads \in Nat
  BY HttpTypes, ConnectionAssumption
<1> QED BY <1>1, <1>2 DEF Reading

LEMMA RejectKeeps ==
  ASSUME HttpInv, Reading, Http!reject_http
  PROVE  HttpInv'
<1>1. taken' = taken + 1 /\ nextRequestId' = nextRequestId /\ number' = number
  BY DEF Http!reject_http
<1>2. taken' \in 0..MaxReads
  BY <1>1, ReadingFacts, ConnectionAssumption
<1>3. CASE MaxSendQueueBytes < 256
  <2>1. Http!close("rejected") /\ op' = "none" /\ opened' = opened
    BY <1>3 DEF Http!reject_http
  <2> QED BY <1>1, <1>2, <2>1, HttpTypes, HttpCloses DEF Reasons, HttpOps
<1>4. CASE ~(MaxSendQueueBytes < 256)
  <2>1. Http!write_response(taken + 1, FALSE, 256)
    BY <1>4 DEF Http!reject_http
  <2>2. 256 \in 0..MaxSendQueueBytes
    BY <1>4, ConnectionAssumption
  <2> QED BY <1>1, <2>1, <2>2, ReadingFacts, HttpTypes, WriteResponseKeeps DEF Reading
<1> QED BY <1>3, <1>4

LEMMA NextIdType ==
  ASSUME NEW id \in 1..MaxRequestId
  PROVE  (id + 1) % (MaxRequestId + 1) \in 0..MaxRequestId
<1>1. MaxRequestId \in Nat /\ MaxRequestId > 0
  BY ProtocolAssumption
<1> QED BY <1>1

\* The request gets an id, which is pending until it is answered.
LEMMA DispatchKeeps ==
  ASSUME HttpInv, Reading, Http!dispatch_request
  PROVE  HttpInv'
<1>1. CASE Http!reject_http
  BY <1>1, RejectKeeps
<1>2. CASE Http!CloseOnly("rejected") /\ op' = "none"
  BY <1>2, CloseOnlyKeeps DEF Reasons, HttpOps
<1>3. ASSUME NEW id \in Http!RequestIds,
             Http!allocate_http_request_id(id),
             taken' = taken + 1,
             number' = [number EXCEPT ![id] = taken + 1],
             op' = "none",
             \/ /\ pending' = id
                /\ requestFlags' \in [head : BOOLEAN, keep : BOOLEAN]
                /\ Http!Progress
                /\ UNCHANGED <<kind, response, answers>>
             \/ Http!close("refused") /\ UNCHANGED opened
      PROVE  HttpInv'
  <2>1. nextRequestId' = (id + 1) % (MaxRequestId + 1) /\ id \in 1..MaxRequestId
    BY <1>3 DEF Http!allocate_http_request_id, Http!RequestIds
  <2>2. nextRequestId' \in 0..MaxRequestId
    BY <2>1, NextIdType
  <2>3. taken' \in 0..MaxReads /\ taken' \in 1..MaxReads
    BY <1>3, ReadingFacts, ConnectionAssumption
  <2>4. number' \in [Http!RequestIds -> 0..MaxReads] /\ number'[id] = taken'
    BY <1>3, <2>3, HttpTypes
  <2>5. CASE /\ pending' = id
             /\ requestFlags' \in [head : BOOLEAN, keep : BOOLEAN]
             /\ Http!Progress
             /\ UNCHANGED <<kind, response, answers>>
    <3>1. /\ timer' = arm_deadline(timer, IdleTimeout) /\ quiet' = 0
          /\ closed' = closed /\ opened' = opened /\ registered' = registered /\ why' = why
          /\ response' = response /\ answers' = answers
      BY <2>5 DEF Http!Progress, Http!touch_idle_deadline, Http!arm_deadline, arm_deadline
    <3>2. timer' \in Timer /\ TimerOK(timer', quiet', IdleTimeout)
      BY <3>1, HttpTypes, HttpNow, TimerArmed, ConnectionAssumption DEF Reading
    <3>3. pending' \in 0..MaxRequestId /\ pending' # 0
      BY <2>1, <2>5, ProtocolAssumption
    <3>4. HttpTyped
      BY <1>3, <2>2, <2>3, <2>4, <2>5, <3>1, <3>2, <3>3, HttpTypes, HttpNow
         DEF HttpTyped, HttpOps, Flags, Reading
    <3>5. /\ closed' = FALSE /\ opened' = TRUE /\ op' = "none" /\ why' = "open"
          /\ taken' = Len(answers') + 1 /\ number'[pending'] = taken'
      BY <1>3, <2>4, <2>5, <3>1, HttpTypes, ReadingFacts DEF Reading
    <3>6. HttpWaits
      BY <3>2, <3>3, <3>5 DEF HttpWaits, HttpAllowed
    <3> QED BY <3>4, <3>6, HttpLivesOn
  <2>6. CASE Http!close("refused") /\ UNCHANGED opened
    BY <1>3, <2>2, <2>3, <2>4, <2>6, HttpTypes, HttpCloses DEF Reasons, HttpOps
  <2> QED BY <1>3, <2>5, <2>6
<1> QED BY <1>1, <1>2, <1>3 DEF Http!dispatch_request

LEMMA HttpReadHeaderKeeps ==
  ASSUME HttpInv, Http!read_header
  PROVE  HttpInv'
<1>1. op = "header" /\ ~closed /\ taken < MaxReads
  BY DEF Http!read_header
<1>2. Reading
  BY <1>1 DEF Reading
<1>3. CASE Http!reject_http
  BY <1>2, <1>3, RejectKeeps
<1>4. CASE op' = "body" /\ UNCHANGED <<Http!stateVars, kind, Http!httpVars>>
  <2>1. /\ closed' = closed /\ opened' = opened /\ registered' = registered /\ quiet' = quiet
        /\ why' = why /\ timer' = timer
        /\ pending' = pending /\ requestFlags' = requestFlags /\ nextRequestId' = nextRequestId
        /\ response' = response /\ taken' = taken /\ number' = number /\ answers' = answers
    BY <1>4 DEF Http!stateVars, Http!httpVars
  <2>2. HttpTyped
    BY <1>1, <1>4, <2>1, HttpTypes, HttpNow DEF HttpTyped, HttpOps
  <2>3. HttpWaits
    BY <1>1, <1>2, <1>4, <2>1, HttpTypes, HttpNow, ReadingFacts DEF HttpWaits, HttpAllowed
  <2> QED BY <2>2, <2>3, HttpLivesOn
<1>5. CASE Http!dispatch_request
  BY <1>2, <1>5, DispatchKeeps
<1> QED BY <1>3, <1>4, <1>5 DEF Http!read_header

LEMMA HttpReadBodyKeeps ==
  ASSUME HttpInv, Http!read_body
  PROVE  HttpInv'
<1>1. Reading /\ Http!dispatch_request
  BY HttpNow DEF Http!read_body, Reading
<1> QED BY <1>1, DispatchKeeps

\* An answer is taken only for the pending request, which is the one after the
\* last answered.
LEMMA RespondKeeps ==
  ASSUME HttpInv, NEW id \in Http!RequestIds, NEW r \in Http!Response, Http!respond_http(id, r)
  PROVE  HttpInv'
<1>1. /\ ~closed /\ opened /\ pending = id /\ id # 0
      /\ Http!header_bytes(r) <= MaxSendQueueBytes
      /\ Http!body_bytes(r) <= MaxSendQueueBytes - Http!header_bytes(r)
      /\ nextRequestId' = nextRequestId /\ taken' = taken /\ number' = number
  BY DEF Http!respond_http, Http!answerable
<1>2. op = "none" /\ number[id] = taken /\ taken = Len(answers) + 1
  BY <1>1, HttpNow
<1>3. taken \in 1..MaxReads
  BY <1>2, HttpTypes, ConnectionAssumption
<1>4. CASE Http!write_response(number[id], requestFlags.keep /\ ~r.close,
                               Http!header_bytes(r) + Http!body_bytes(r))
  <2>1. (requestFlags.keep /\ ~r.close) \in BOOLEAN
    OBVIOUS
  <2>2. Http!header_bytes(r) + Http!body_bytes(r) \in 0..MaxSendQueueBytes
    <3>0. r.headers \in {1, HeaderLimit} /\ r.body \in PayloadSizes
      BY DEF Http!Response
    <3>h. r.headers \in Nat
      <4>1. HeaderLimit \in Nat
        BY ProtocolAssumption
      <4> QED BY <3>0, <4>1
    <3>b. r.body \in Nat
      BY <3>0, SizesAreNat
    <3>1. r.headers \in Nat /\ r.body \in Nat
      BY <3>h, <3>b
    <3>2. Http!header_bytes(r) \in Nat /\ Http!body_bytes(r) \in Nat
      BY <3>1 DEF Http!header_bytes, Http!body_bytes
    <3> QED BY <1>1, <3>2, ConnectionAssumption
  <2>3. PICK keep \in BOOLEAN : keep = (requestFlags.keep /\ ~r.close)
    BY <2>1
  <2>4. Http!write_response(taken, keep, Http!header_bytes(r) + Http!body_bytes(r))
    BY <1>2, <1>4, <2>3
  <2> QED BY <1>1, <1>2, <1>3, <2>2, <2>4, HttpTypes, WriteResponseKeeps
<1>5. CASE Http!close("exception") /\ UNCHANGED <<opened, op>>
  BY <1>1, <1>5, HttpTypes, HttpCloses DEF Reasons
<1> QED BY <1>4, <1>5 DEF Http!respond_http

LEMMA ResponseWrittenKeeps ==
  ASSUME HttpInv, Http!ResponseWritten
  PROVE  HttpInv'
<1>1. /\ op = "write" /\ ~closed
      /\ answers' = Append(answers, response.request)
      /\ response' = Http!NoResponse
      /\ requestFlags' = requestFlags /\ nextRequestId' = nextRequestId /\ taken' = taken
      /\ number' = number
  BY DEF Http!ResponseWritten
<1>2. response.request = Len(answers) + 1 /\ taken = Len(answers) + 1 /\ pending = 0 /\ opened = TRUE
  BY <1>1, HttpNow, HttpTypes
<1>3. taken \in 1..MaxReads /\ Len(answers) \in Nat
  BY <1>2, HttpTypes, ConnectionAssumption
<1>4. /\ answers' \in Seq(1..MaxReads) /\ Len(answers') = Len(answers) + 1
      /\ \A i \in 1..Len(answers) : answers'[i] = answers[i]
      /\ answers'[Len(answers) + 1] = Len(answers) + 1
  BY <1>1, <1>2, <1>3, HttpTypes
<1>5. \A i \in 1..Len(answers') : answers'[i] = i
  <2> TAKE i \in 1..Len(answers')
  <2>1. i \in 1..Len(answers) \/ i = Len(answers) + 1
    BY <1>3, <1>4
  <2>2. \A j \in 1..Len(answers) : answers[j] = j
    BY <1>1, HttpNow
  <2> QED BY <2>1, <2>2, <1>4
<1>6. response' \in ResponseRecord
  BY <1>1, ConnectionAssumption DEF Http!NoResponse, ResponseRecord
<1>7. CASE Http!read_request /\ UNCHANGED pending
  <2>1. /\ timer' = arm_deadline(timer, HandshakeTimeout) /\ quiet' = 0 /\ op' = "header"
        /\ closed' = closed /\ opened' = opened /\ registered' = registered /\ why' = why
        /\ pending' = pending
    BY <1>7 DEF Http!read_request, Http!begin_handshake_deadline, Http!arm_deadline, arm_deadline
  <2>2. timer' \in Timer /\ TimerOK(timer', quiet', HandshakeTimeout)
    BY <1>1, <2>1, HttpTypes, HttpNow, TimerArmed, ConnectionAssumption
  <2>3. HttpTyped
    BY <1>1, <1>4, <1>5, <1>6, <2>1, <2>2, HttpTypes DEF HttpTyped, HttpOps
  <2>4. taken' = Len(answers') + 0
    BY <1>1, <1>2, <1>3, <1>4
  <2>5. HttpWaits
    BY <1>1, <1>2, <2>1, <2>2, <2>4, HttpTypes, HttpNow DEF HttpWaits, HttpAllowed
  <2> QED BY <2>3, <2>5, HttpLivesOn
<1>8. CASE /\ Http!remove_from_registry("finished") /\ pending' = 0 /\ op' = "none" /\ UNCHANGED opened
  <2>1. /\ closed' = TRUE /\ registered' = FALSE /\ timer' = [timer EXCEPT !.remaining = 0]
        /\ why' = "finished" /\ quiet' = quiet /\ pending' = 0 /\ op' = "none" /\ opened' = opened
    BY <1>8 DEF Http!remove_from_registry
  <2>2. timer' \in Timer /\ pending' \in 0..MaxRequestId
    BY <2>1, HttpTypes, TimerCancelled, ProtocolAssumption
  <2>3. HttpTyped
    BY <1>1, <1>4, <1>5, <1>6, <2>1, <2>2, HttpTypes DEF HttpTyped, HttpOps, Reasons
  <2> QED BY <2>1, <2>3, HttpStaysClosed
<1> QED BY <1>7, <1>8 DEF Http!ResponseWritten

LEMMA OperationEndsKeeps ==
  ASSUME HttpInv, Http!OperationEnds
  PROVE  HttpInv'
<1>1. /\ op' = "none" /\ Http!close("error") /\ opened' \in {opened, opened \/ op = "tls"}
      /\ nextRequestId' = nextRequestId /\ taken' = taken /\ number' = number
  BY DEF Http!OperationEnds
<1>2. opened' \in BOOLEAN
  BY <1>1, HttpTypes
<1> QED BY <1>1, <1>2, HttpTypes, HttpCloses DEF Reasons, HttpOps

LEMMA CompletionAfterCloseKeeps ==
  ASSUME HttpInv, Http!CompletionAfterClose
  PROVE  HttpInv'
<1>1. /\ closed /\ op' = "none"
      /\ closed' = closed /\ opened' = opened /\ registered' = registered /\ quiet' = quiet
      /\ why' = why /\ timer' = timer
      /\ pending' = pending /\ requestFlags' = requestFlags /\ nextRequestId' = nextRequestId
      /\ response' = response /\ taken' = taken /\ number' = number /\ answers' = answers
  BY DEF Http!CompletionAfterClose, Http!stateVars, Http!httpVars
<1>2. pending = 0 /\ \A i \in 1..Len(answers) : answers[i] = i
  BY <1>1 DEF HttpInv
<1>3. HttpTyped
  BY <1>1, <1>2, HttpTypes DEF HttpTyped, HttpOps
<1> QED BY <1>1, <1>2, <1>3, HttpTypes, HttpStaysClosed
\* The timer changes and nothing else.
LEMMA HttpTimerMoves ==
  ASSUME HttpInv, timer' \in Timer, quiet' \in Nat,
         \A a \in Nat : TimerOK(timer, quiet, a) => TimerOK(timer', quiet', a),
         UNCHANGED <<closed, opened, registered, why, kind, op, Http!httpVars>>
  PROVE  HttpInv'
<1>1. /\ closed' = closed /\ opened' = opened /\ registered' = registered
      /\ why' = why /\ op' = op
      /\ pending' = pending /\ requestFlags' = requestFlags /\ nextRequestId' = nextRequestId
      /\ response' = response /\ taken' = taken /\ number' = number /\ answers' = answers
  BY DEF Http!httpVars
<1>2. \A i \in 1..Len(answers) : answers[i] = i
  BY DEF HttpInv
<1>3. HttpTyped
  BY <1>1, <1>2, HttpTypes DEF HttpTyped
<1>4. CASE closed
  <2>1. pending = 0
    BY <1>4 DEF HttpInv
  <2> QED BY <1>1, <1>3, <1>4, <2>1, HttpTypes, HttpStaysClosed
<1>5. CASE ~closed
  <2>1. HttpAllowed(op) \in Nat
    BY ConnectionAssumption DEF HttpAllowed
  <2>2. TimerOK(timer', quiet', HttpAllowed(op))
    BY <1>5, <2>1, HttpNow
  <2>3. HttpWaits
    BY <1>1, <1>5, <2>2, HttpTypes, HttpNow DEF HttpWaits
  <2> QED BY <1>3, <2>3, HttpLivesOn
<1> QED BY <1>4, <1>5

LEMMA HttpTickKeeps ==
  ASSUME HttpInv, Http!Tick
  PROVE  HttpInv'
<1>1. /\ timer.remaining > 0 /\ timer' = Elapsed(timer) /\ quiet' = quiet + 1
      /\ UNCHANGED <<closed, opened, registered, why, kind, op, Http!httpVars>>
  BY DEF Http!Tick, Http!Elapse, Elapsed
<1>2. /\ timer' \in Timer /\ quiet' \in Nat
      /\ \A a \in Nat : TimerOK(timer, quiet, a) => TimerOK(timer', quiet', a)
  BY <1>1, HttpTypes, TimerElapses
<1> QED BY <1>1, <1>2, HttpTimerMoves

LEMMA HttpDeadlineKeeps ==
  ASSUME HttpInv, NEW g, Http!Deadline(g)
  PROVE  HttpInv'
<1>1. CASE Http!CloseOnly("deadline") /\ UNCHANGED op
  BY <1>1, HttpTypes, CloseOnlyKeeps DEF Reasons
<1>2. CASE Http!DeadlineIgnored(g) /\ UNCHANGED <<kind, op, Http!httpVars>>
  <2>1. /\ timer' = Ignored(timer, g) /\ quiet' = quiet
        /\ UNCHANGED <<closed, opened, registered, why, kind, op, Http!httpVars>>
    BY <1>2 DEF Http!DeadlineIgnored, Ignored
  <2>2. /\ timer' \in Timer /\ quiet' \in Nat
        /\ \A a \in Nat : TimerOK(timer, quiet, a) => TimerOK(timer', quiet', a)
    BY <2>1, HttpTypes, TimerIgnored
  <2> QED BY <2>1, <2>2, HttpTimerMoves
<1> QED BY <1>1, <1>2 DEF Http!Deadline

LEMMA HttpDisconnectKeeps ==
  ASSUME HttpInv, Http!Disconnect
  PROVE  HttpInv'
<1>1. Http!CloseOnly("finished") /\ UNCHANGED op
  BY DEF Http!Disconnect
<1> QED BY <1>1, HttpTypes, CloseOnlyKeeps DEF Reasons

\* Every step of an HTTP connection keeps its invariant.
LEMMA HttpNextKeeps ==
  ASSUME HttpInv, kind \in Kinds, Http!Next
  PROVE  HttpInv'
<1>1. CASE Http!start \/ Http!StartThrows \/ Http!HandshakeDone
  BY <1>1, HttpStartKeeps, HttpStartThrowsKeeps, HttpHandshakeKeeps
<1>2. CASE Http!read_header \/ Http!read_body
  BY <1>2, HttpReadHeaderKeeps, HttpReadBodyKeeps
<1>3. CASE \E id \in Http!RequestIds, r \in Http!Response : Http!respond_http(id, r)
  BY <1>3, RespondKeeps
<1>4. CASE Http!ResponseWritten \/ Http!OperationEnds \/ Http!CompletionAfterClose
  BY <1>4, ResponseWrittenKeeps, OperationEndsKeeps, CompletionAfterCloseKeeps
<1>5. CASE Http!Tick \/ Http!Disconnect
  BY <1>5, HttpTickKeeps, HttpDisconnectKeeps
<1>6. CASE \E g \in timer.due : Http!Deadline(g)
  BY <1>6, HttpDeadlineKeeps
<1> QED BY <1>1, <1>2, <1>3, <1>4, <1>5, <1>6 DEF Http!Next

LEMMA HttpDeadlineIsReal ==
  ASSUME HttpInv, Http!Next, ~closed, why' = "deadline"
  PROVE  quiet >= Http!Allowed
<1>1. why = "open"
  BY DEF HttpInv
<1>2. \E g \in timer.due : Http!Deadline(g)
  <2>1. ~(Http!start \/ Http!StartThrows \/ Http!HandshakeDone)
    BY <1>1 DEF Http!start, Http!StartThrows, Http!HandshakeDone, Http!BeginRequests, Http!CloseOnly,
          Http!close, Http!remove_from_registry
  <2>2. ~Http!reject_http /\ ~Http!dispatch_request
    BY <1>1 DEF Http!dispatch_request, Http!reject_http, Http!write_response, Http!Progress,
          Http!CloseOnly, Http!close, Http!remove_from_registry
  <2>3. ~Http!read_header /\ ~Http!read_body
    BY <1>1, <2>2 DEF Http!read_header, Http!read_body, Http!stateVars
  <2>4. \A id \in Http!RequestIds, r \in Http!Response : ~Http!respond_http(id, r)
    BY <1>1 DEF Http!respond_http, Http!write_response, Http!Progress, Http!close,
          Http!remove_from_registry
  <2>5. ~Http!ResponseWritten /\ ~Http!OperationEnds /\ ~Http!CompletionAfterClose
    BY <1>1 DEF Http!ResponseWritten, Http!read_request, Http!OperationEnds, Http!CompletionAfterClose,
          Http!CloseOnly, Http!close, Http!remove_from_registry, Http!stateVars
  <2>6. ~Http!Tick /\ ~Http!Disconnect
    BY <1>1 DEF Http!Tick, Http!Elapse, Http!Disconnect, Http!CloseOnly, Http!close,
          Http!remove_from_registry
  <2> QED BY <2>1, <2>3, <2>4, <2>5, <2>6 DEF Http!Next
<1>3. timer.generation \in timer.due
  <2>1. PICK g \in timer.due : Http!Deadline(g)
    BY <1>2
  <2>2. g = timer.generation
    BY <1>1, <2>1 DEF Http!Deadline, Http!Fires, Http!DeadlineIgnored
  <2> QED BY <2>1, <2>2
<1> QED BY <1>3 DEF HttpInv, TimerOK
-----------------------------------------------------------------------------
(***************************************************************************)
(* UDP peers, one by one.                                                  *)
(***************************************************************************)

LEMMA PeerFields ==
  ASSUME NEW r \in PeerRecord
  PROVE  /\ r.endpoint \in Endpoints \cup {0} /\ r.closed \in BOOLEAN /\ r.opened \in BOOLEAN
         /\ r.queue \in Seq(Udp!Datagram) /\ r.bytes \in 0..MaxSendQueueBytes
         /\ r.age \in 0..IdleTimeout /\ r.sent \in 0..MaxSends /\ r.stuck \in BOOLEAN
BY DEF PeerRecord

LEMMA PeerCloses ==
  ASSUME NEW r, PeerOK(r)
  PROVE  PeerOK([r EXCEPT !.closed = TRUE, !.queue = <<>>, !.bytes = 0])
<1> DEFINE u == [r EXCEPT !.closed = TRUE, !.queue = <<>>, !.bytes = 0]
<1>1. r \in PeerRecord
  BY DEF PeerOK
<1>2. <<>> \in Seq(Udp!Datagram) /\ 0 \in 0..MaxSendQueueBytes
  BY ConnectionAssumption
<1>3. u \in PeerRecord /\ u.queue = <<>> /\ u.bytes = 0 /\ u.sent = r.sent
  BY <1>1, <1>2 DEF PeerRecord
<1> HIDE DEF u
<1>4. Len(u.queue) = 0 /\ u.sent \in 0..MaxSends
  BY <1>1, <1>3, PeerFields
<1> QED BY <1>3, <1>4, DatagramsEmpty, ConnectionAssumption DEF PeerOK, u

LEMMA PeerAges ==
  ASSUME NEW r, PeerOK(r), NEW a \in 0..IdleTimeout
  PROVE  PeerOK([r EXCEPT !.age = a])
<1> DEFINE u == [r EXCEPT !.age = a]
<1>1. r \in PeerRecord
  BY DEF PeerOK
<1>2. u \in PeerRecord /\ u.queue = r.queue /\ u.bytes = r.bytes /\ u.sent = r.sent /\ u.closed = r.closed
  BY <1>1 DEF PeerRecord
<1> HIDE DEF u
<1> QED BY <1>2 DEF PeerOK, u

LEMMA PeerSends ==
  ASSUME NEW r, PeerOK(r), ~r.closed, NEW size \in PayloadSizes,
         Len(r.queue) < MaxQueued, r.bytes <= MaxSendQueueBytes - DatagramCost(size),
         r.sent < MaxSends
  PROVE  PeerOK([r EXCEPT !.queue = Append(r.queue, [number |-> r.sent + 1, size |-> size]),
                          !.bytes = r.bytes + DatagramCost(size),
                          !.sent = r.sent + 1])
<1> DEFINE d == [number |-> r.sent + 1, size |-> size]
<1> DEFINE u == [r EXCEPT !.queue = Append(r.queue, d), !.bytes = r.bytes + DatagramCost(size),
                          !.sent = r.sent + 1]
<1>1. /\ r \in PeerRecord /\ Len(r.queue) <= r.sent /\ r.bytes = DatagramsTotal(r.queue)
      /\ \A i \in 1..Len(r.queue) : r.queue[i].number = r.sent - Len(r.queue) + i
  BY DEF PeerOK
<1>2. /\ r.queue \in Seq(Udp!Datagram) /\ r.bytes \in 0..MaxSendQueueBytes /\ r.sent \in 0..MaxSends
      /\ r.closed \in BOOLEAN
  BY <1>1, PeerFields
<1>3. r.sent + 1 \in 1..MaxSends /\ r.sent + 1 \in 0..MaxSends /\ r.sent \in Nat
  BY <1>2, ConnectionAssumption
<1>4. d \in Udp!Datagram /\ d.number = r.sent + 1 /\ d.size = size
  BY <1>3 DEF Udp!Datagram
<1>5. size \in Nat /\ DatagramCost(size) \in Nat
  BY SizesAreNat DEF DatagramCost
<1>6. r.bytes + DatagramCost(size) \in 0..MaxSendQueueBytes
  BY <1>2, <1>5, ConnectionAssumption
<1> HIDE DEF d
<1>7. Append(r.queue, d) \in Seq(Udp!Datagram)
  BY <1>2, <1>4
<1>8. /\ u \in PeerRecord /\ u.queue = Append(r.queue, d) /\ u.bytes = r.bytes + DatagramCost(size)
      /\ u.sent = r.sent + 1 /\ u.closed = r.closed
  BY <1>1, <1>3, <1>6, <1>7 DEF PeerRecord
<1> HIDE DEF u
<1>9. /\ Len(u.queue) = Len(r.queue) + 1 /\ Len(r.queue) \in Nat
      /\ \A i \in 1..Len(r.queue) : u.queue[i] = r.queue[i]
      /\ u.queue[Len(r.queue) + 1] = d
  BY <1>2, <1>4, <1>8
<1>10. Len(u.queue) <= MaxQueued /\ Len(u.queue) <= u.sent
  <2>1. Len(r.queue) \in Nat /\ MaxQueued \in Nat /\ Len(r.queue) <= r.sent /\ r.sent \in Nat
    BY <1>1, <1>3, <1>9, ConnectionAssumption
  <2>2. Len(u.queue) = Len(r.queue) + 1 /\ u.sent = r.sent + 1
    BY <1>8, <1>9
  <2> QED BY <2>1, <2>2
<1>11. \A i \in 1..Len(u.queue) : u.queue[i].number = u.sent - Len(u.queue) + i
  <2> TAKE i \in 1..Len(u.queue)
  <2>0. /\ Len(u.queue) = Len(r.queue) + 1 /\ Len(r.queue) \in Nat /\ u.sent = r.sent + 1
        /\ r.sent \in Nat
    BY <1>3, <1>8, <1>9
  <2>1. CASE i \in 1..Len(r.queue)
    <3>1. u.queue[i].number = r.sent - Len(r.queue) + i
      BY <2>1, <1>1, <1>9
    <3> QED BY <3>1, <2>0
  <2>2. CASE i = Len(r.queue) + 1
    <3>1. u.queue[i].number = r.sent + 1
      BY <2>2, <1>4, <1>9
    <3> QED BY <3>1, <2>0, <2>2
  <2> QED BY <2>0, <2>1, <2>2
<1>12. u.bytes = DatagramsTotal(u.queue)
  BY <1>1, <1>2, <1>4, <1>8, DatagramsAppend
<1> QED BY <1>8, <1>10, <1>11, <1>12 DEF PeerOK, u, d

LEMMA PeerCompletes ==
  ASSUME NEW r, PeerOK(r), r.queue # <<>>
  PROVE  PeerOK([r EXCEPT !.queue = Tail(r.queue), !.bytes = r.bytes - DatagramCost(r.queue[1].size)])
<1> DEFINE u == [r EXCEPT !.queue = Tail(r.queue), !.bytes = r.bytes - DatagramCost(r.queue[1].size)]
<1>1. /\ r \in PeerRecord /\ Len(r.queue) <= r.sent /\ r.bytes = DatagramsTotal(r.queue)
      /\ Len(r.queue) <= MaxQueued /\ ~r.closed
      /\ \A i \in 1..Len(r.queue) : r.queue[i].number = r.sent - Len(r.queue) + i
  BY DEF PeerOK
<1>2. /\ r.queue \in Seq(Udp!Datagram) /\ r.bytes \in 0..MaxSendQueueBytes /\ r.sent \in 0..MaxSends
      /\ r.closed \in BOOLEAN
  BY <1>1, PeerFields
<1>3. /\ Len(r.queue) \in Nat /\ Len(r.queue) > 0 /\ Head(r.queue) = r.queue[1]
      /\ Tail(r.queue) \in Seq(Udp!Datagram) /\ Len(Tail(r.queue)) = Len(r.queue) - 1
      /\ \A i \in 1..(Len(r.queue) - 1) : Tail(r.queue)[i] = r.queue[i + 1] /\ i + 1 \in 1..Len(r.queue)
  BY <1>2
<1>4. /\ r.bytes - DatagramCost(r.queue[1].size) \in 0..MaxSendQueueBytes
      /\ r.bytes - DatagramCost(r.queue[1].size) = DatagramsTotal(Tail(r.queue))
  <2>1. /\ r.bytes = DatagramCost(r.queue[1].size) + DatagramsTotal(Tail(r.queue))
        /\ DatagramsTotal(Tail(r.queue)) \in Nat /\ DatagramCost(r.queue[1].size) \in Nat
    BY <1>1, <1>2, <1>3, DatagramsTail
  <2> QED BY <2>1, <1>2, ConnectionAssumption
<1>5. /\ u \in PeerRecord /\ u.queue = Tail(r.queue) /\ u.sent = r.sent /\ u.closed = r.closed
      /\ u.bytes = r.bytes - DatagramCost(r.queue[1].size)
  BY <1>1, <1>3, <1>4 DEF PeerRecord
<1> HIDE DEF u
<1>6. Len(u.queue) <= MaxQueued /\ Len(u.queue) <= u.sent
  <2>1. Len(r.queue) \in Nat /\ MaxQueued \in Nat /\ Len(r.queue) <= r.sent /\ r.sent \in Nat
        /\ Len(r.queue) <= MaxQueued
    BY <1>1, <1>2, <1>3, ConnectionAssumption
  <2>2. Len(u.queue) = Len(r.queue) - 1 /\ u.sent = r.sent
    BY <1>3, <1>5
  <2> QED BY <2>1, <2>2
<1>7. \A i \in 1..Len(u.queue) : u.queue[i].number = u.sent - Len(u.queue) + i
  <2> TAKE i \in 1..Len(u.queue)
  <2>0. /\ Len(u.queue) = Len(r.queue) - 1 /\ Len(r.queue) \in Nat /\ u.sent = r.sent /\ r.sent \in Nat
    BY <1>2, <1>3, <1>5, ConnectionAssumption
  <2>1. u.queue[i] = r.queue[i + 1] /\ i + 1 \in 1..Len(r.queue)
    BY <2>0, <1>3, <1>5
  <2>2. u.queue[i].number = r.sent - Len(r.queue) + (i + 1)
    BY <2>1, <1>1
  <2>3. i \in Int
    BY <2>0
  <2>4. \A n, m, k \in Int : n - (m - 1) + k = n - m + (k + 1)
    OBVIOUS
  <2>5. r.sent \in Int /\ Len(r.queue) \in Int
    BY <2>0
  <2>6. r.sent - (Len(r.queue) - 1) + i = r.sent - Len(r.queue) + (i + 1)
    BY ONLY <2>3, <2>4, <2>5
  <2>7. u.sent - Len(u.queue) + i = r.sent - (Len(r.queue) - 1) + i
    BY <2>0
  <2> QED BY <2>2, <2>6, <2>7
<1> QED BY <1>1, <1>4, <1>5, <1>6, <1>7 DEF PeerOK, u

\* A peer that is just made.
LEMMA PeerBorn ==
  ASSUME NEW e \in Endpoints
  PROVE  /\ PeerOK(Udp!Unborn) /\ Udp!Unborn.closed
         /\ PeerOK([Udp!Unborn EXCEPT !.endpoint = e])
         /\ [Udp!Unborn EXCEPT !.endpoint = e].closed
         /\ PeerOK([Udp!Unborn EXCEPT !.endpoint = e, !.closed = FALSE, !.opened = TRUE])
         /\ ~[Udp!Unborn EXCEPT !.endpoint = e, !.closed = FALSE, !.opened = TRUE].closed
         /\ [Udp!Unborn EXCEPT !.endpoint = e, !.closed = FALSE, !.opened = TRUE].endpoint = e
         /\ [Udp!Unborn EXCEPT !.endpoint = e, !.closed = FALSE, !.opened = TRUE].queue = <<>>
         /\ [Udp!Unborn EXCEPT !.endpoint = e].stuck = FALSE
         /\ [Udp!Unborn EXCEPT !.endpoint = e, !.closed = FALSE, !.opened = TRUE].stuck = FALSE
<1>1. ASSUME NEW r, r \in PeerRecord, r.queue = <<>>, r.bytes = 0, r.sent = 0
      PROVE  PeerOK(r)
  <2>1. Len(r.queue) = 0
    BY <1>1
  <2> QED BY <1>1, <2>1, DatagramsEmpty, ConnectionAssumption DEF PeerOK
<1>2. <<>> \in Seq(Udp!Datagram) /\ 0 \in 0..MaxSendQueueBytes /\ 0 \in 0..IdleTimeout /\ 0 \in 0..MaxSends
  BY ConnectionAssumption
<1> DEFINE a == Udp!Unborn
<1> DEFINE b == [Udp!Unborn EXCEPT !.endpoint = e]
<1> DEFINE c == [Udp!Unborn EXCEPT !.endpoint = e, !.closed = FALSE, !.opened = TRUE]
<1>3. a \in PeerRecord /\ a.queue = <<>> /\ a.bytes = 0 /\ a.sent = 0 /\ a.closed
  BY <1>2 DEF Udp!Unborn, PeerRecord
<1>4. b \in PeerRecord /\ b.queue = <<>> /\ b.bytes = 0 /\ b.sent = 0 /\ b.closed /\ b.stuck = FALSE
  BY <1>2 DEF Udp!Unborn, PeerRecord
<1>5. c \in PeerRecord /\ c.queue = <<>> /\ c.bytes = 0 /\ c.sent = 0 /\ ~c.closed /\ c.endpoint = e
      /\ c.stuck = FALSE
  BY <1>2 DEF Udp!Unborn, PeerRecord
<1> HIDE DEF a, b, c
<1> QED BY <1>1, <1>3, <1>4, <1>5 DEF a, b, c
-----------------------------------------------------------------------------
(***************************************************************************)
(* The UDP listener.                                                       *)
(***************************************************************************)

\* Peers change, none is made or closed.
PeersMove ==
  /\ peer' \in [Udp!Ids -> PeerRecord]
  /\ \A p \in Udp!Ids : PeerOK(peer'[p])
  /\ \A p \in Udp!Ids : peer'[p].closed = peer[p].closed /\ peer'[p].endpoint = peer[p].endpoint
  /\ \A p \in Udp!Ids : ~peer'[p].closed => SendsFirst(sending', p, peer'[p])
  /\ FreshOK(nextSessionId, peer', sending')
  /\ sending' \subseteq Sending
  /\ received' \in 0..MaxReads /\ receiving' \in BOOLEAN
  /\ UNCHANGED <<listening, peerAt, registry, nextSessionId>>

LEMMA PeersMoveKeeps ==
  ASSUME UdpInv, PeersMove
  PROVE  UdpInv'
<1>1. /\ listening' = listening /\ peerAt' = peerAt /\ registry' = registry
      /\ nextSessionId' = nextSessionId
      /\ \A p \in Udp!Ids : peer'[p].closed = peer[p].closed /\ peer'[p].endpoint = peer[p].endpoint
  BY DEF PeersMove
<1>2. TableOK(registry', peerAt', peer')
  <2>1. registry = {p \in Udp!Ids : ~peer[p].closed} /\ registry \subseteq Udp!Ids
    BY DEF UdpInv, TableOK
  <2>2. {p \in Udp!Ids : ~peer[p].closed} = {p \in Udp!Ids : ~peer'[p].closed}
    BY <1>1
  <2>3. /\ \A e \in Endpoints : peerAt[e] # 0 => peerAt[e] \in registry /\ peer[peerAt[e]].endpoint = e
        /\ \A p \in registry : peer[p].endpoint \in Endpoints /\ peerAt[peer[p].endpoint] = p
    BY DEF UdpInv, TableOK
  <2>4. \A e \in Endpoints : peerAt'[e] # 0 => peerAt'[e] \in registry' /\ peer'[peerAt'[e]].endpoint = e
    BY <1>1, <2>1, <2>3
  <2>5. \A p \in registry' : peer'[p].endpoint \in Endpoints /\ peerAt'[peer'[p].endpoint] = p
    BY <1>1, <2>1, <2>3
  <2> QED BY <1>1, <2>1, <2>2, <2>4, <2>5 DEF TableOK
<1>3. Udp!Ids' = Udp!Ids /\ PeerRecord' = PeerRecord
  OBVIOUS
<1> QED BY <1>1, <1>2 DEF UdpInv, PeersMove

\* Peers are closed; only their outstanding sends may have completed.
LEMMA CloseKeeps ==
  ASSUME UdpInv, NEW S, Udp!Close(S), nextSessionId' = nextSessionId,
         listening' \in BOOLEAN, receiving' \in BOOLEAN, received' \in 0..MaxReads,
         listening' = listening \/ S = Udp!Live,
         sending' \subseteq sending, \A s \in sending : s \notin sending' => s.peer \in S
  PROVE  UdpInv'
<1> DEFINE open == S \cap Udp!Live
<1> DEFINE gone(p) == [peer[p] EXCEPT !.closed = TRUE, !.queue = <<>>, !.bytes = 0]
<1>1. /\ peer' = [p \in Udp!Ids |-> IF p \in open THEN gone(p) ELSE peer[p]]
      /\ peerAt' = [e \in Endpoints |-> IF \E p \in open : peer[p].endpoint = e THEN 0 ELSE peerAt[e]]
      /\ registry' = registry \ open
  BY DEF Udp!Close
<1>2. \A p \in Udp!Ids : p \in open <=> p \in S /\ ~peer[p].closed
  BY DEF Udp!Live
<1>3. open \subseteq Udp!Ids
  BY DEF Udp!Live
<1>4. \A p \in Udp!Ids : PeerOK(peer[p]) /\ peer[p] \in PeerRecord
  BY DEF UdpInv
<1>5. \A p \in Udp!Ids : PeerOK(gone(p)) /\ gone(p) \in PeerRecord
  BY <1>4, PeerCloses DEF PeerOK
<1>6. \A p \in Udp!Ids : gone(p).closed /\ gone(p).endpoint = peer[p].endpoint
  BY <1>4 DEF PeerRecord
<1> HIDE DEF open, gone
<1>7. \A p \in Udp!Ids : p \in open => peer'[p] = gone(p)
  BY <1>1
<1>8. \A p \in Udp!Ids : p \notin open => peer'[p] = peer[p]
  BY <1>1
<1>9. peer' \in [Udp!Ids -> PeerRecord] /\ \A p \in Udp!Ids : PeerOK(peer'[p])
  BY <1>1, <1>4, <1>5
<1>10. \A p \in Udp!Ids : ~peer'[p].closed => p \notin open /\ peer'[p] = peer[p] /\ p \notin S
  BY <1>2, <1>6, <1>7, <1>8
<1>11. \A p \in Udp!Ids : ~peer'[p].closed => SendsFirst(sending', p, peer'[p])
  <2> SUFFICES ASSUME NEW p \in Udp!Ids, ~peer'[p].closed
               PROVE  SendsFirst(sending', p, peer'[p])
    OBVIOUS
  <2>1. peer'[p] = peer[p] /\ p \notin S
    BY <1>10
  <2>2. SendsFirst(sending, p, peer[p])
    BY <2>1 DEF UdpInv
  <2>3. /\ \A s \in sending' : s.peer = p => /\ ~peer[p].stuck /\ peer[p].queue # <<>>
                                           /\ s.datagram = peer[p].queue[1]
        /\ peer[p].stuck => peer[p].queue # <<>>
    BY <2>2 DEF SendsFirst
  <2>4. ASSUME peer[p].queue # <<>>, ~peer[p].stuck
        PROVE  [peer |-> p, datagram |-> peer[p].queue[1]] \in sending'
    <3> DEFINE s == [peer |-> p, datagram |-> peer[p].queue[1]]
    <3>1. s \in sending /\ s.peer = p
      BY <2>2, <2>4 DEF SendsFirst
    <3> HIDE DEF s
    <3>2. s \in sending'
      BY <3>1, <2>1
    <3> QED BY <3>2 DEF s
  <2> QED BY <2>1, <2>3, <2>4 DEF SendsFirst
<1>12. FreshOK(nextSessionId', peer', sending')
  <2> SUFFICES ASSUME NEW p \in Udp!Ids, Unused(p, nextSessionId)
               PROVE  peer'[p] = Udp!Unborn /\ \A s \in sending' : s.peer # p
    BY DEF FreshOK
  <2>1. peer[p] = Udp!Unborn /\ \A s \in sending : s.peer # p
    BY DEF UdpInv, FreshOK
  <2>2. p \notin open
    BY <2>1, <1>2 DEF Udp!Unborn
  <2> QED BY <2>1, <2>2, <1>8
<1>13. TableOK(registry', peerAt', peer')
  <2>1. /\ registry = {p \in Udp!Ids : ~peer[p].closed} /\ registry \subseteq Udp!Ids
        /\ \A e \in Endpoints : peerAt[e] # 0 => peerAt[e] \in registry /\ peer[peerAt[e]].endpoint = e
        /\ \A p \in registry : peer[p].endpoint \in Endpoints /\ peerAt[peer[p].endpoint] = p
        /\ peerAt \in [Endpoints -> 0..MaxSessionId]
    BY DEF UdpInv, TableOK
  <2>2. \A p \in Udp!Ids : p \in registry' <=> ~peer'[p].closed
    BY <1>1, <1>2, <1>6, <1>7, <1>8, <2>1
  <2>3. registry' = {p \in Udp!Ids : ~peer'[p].closed}
    BY <1>1, <2>1, <2>2
  <2>4. ASSUME NEW e \in Endpoints, peerAt'[e] # 0
        PROVE  peerAt'[e] \in registry' /\ peer'[peerAt'[e]].endpoint = e
    <3>1. peerAt'[e] = peerAt[e] /\ ~\E p \in open : peer[p].endpoint = e
      BY <1>1, <2>4
    <3>2. peerAt[e] \in registry /\ peer[peerAt[e]].endpoint = e /\ peerAt[e] \in Udp!Ids
      BY <3>1, <2>1, <2>4
    <3>3. peerAt[e] \notin open
      BY <3>1, <3>2
    <3> QED BY <3>1, <3>2, <3>3, <1>1, <1>8
  <2>5. ASSUME NEW p \in registry'
        PROVE  peer'[p].endpoint \in Endpoints /\ peerAt'[peer'[p].endpoint] = p
    <3>1. p \in registry /\ p \notin open /\ p \in Udp!Ids /\ peer'[p] = peer[p]
      BY <1>1, <1>8, <2>1, <2>5
    <3>2. peer[p].endpoint \in Endpoints /\ peerAt[peer[p].endpoint] = p
      BY <3>1, <2>1
    <3>3. ~\E q \in open : peer[q].endpoint = peer[p].endpoint
      <4> SUFFICES ASSUME NEW q \in open, peer[q].endpoint = peer[p].endpoint PROVE FALSE
        OBVIOUS
      <4>1. q \in registry
        BY <1>2, <1>3, <2>1
      <4>2. peerAt[peer[q].endpoint] = q
        BY <4>1, <2>1
      <4> QED BY <4>2, <3>1, <3>2
    <3>4. peerAt'[peer[p].endpoint] = peerAt[peer[p].endpoint]
      BY <1>1, <3>2, <3>3
    <3> QED BY <3>1, <3>2, <3>4
  <2> QED BY <2>3, <2>4, <2>5 DEF TableOK
<1>14. /\ registry' \subseteq Udp!Ids /\ Cardinality(registry') <= MaxConnections
       /\ peerAt' \in [Endpoints -> 0..MaxSessionId] /\ nextSessionId' \in 0..MaxSessionId
       /\ sending' \subseteq Sending
  <2>1. registry \subseteq Udp!Ids /\ Cardinality(registry) <= MaxConnections
        /\ peerAt \in [Endpoints -> 0..MaxSessionId] /\ nextSessionId \in 0..MaxSessionId
        /\ sending \subseteq Sending
    BY DEF UdpInv
  <2>2. IsFiniteSet(registry)
    <3>1. IsFiniteSet(Udp!Ids)
      BY FS_Interval, ProtocolAssumption DEF Udp!Ids
    <3> QED BY <2>1, <3>1, FS_Subset
  <2>3. registry' \subseteq registry
    BY <1>1
  <2>4. Cardinality(registry') <= Cardinality(registry) /\ Cardinality(registry') \in Nat /\ Cardinality(registry) \in Nat
    BY <2>2, <2>3, FS_Subset, FS_CardinalityType
  <2>5. Cardinality(registry') <= MaxConnections
    BY <2>1, <2>4, ProtocolAssumption
  <2>6. peerAt' \in [Endpoints -> 0..MaxSessionId]
    BY <1>1, <2>1, ProtocolAssumption
  <2> QED BY <2>1, <2>3, <2>5, <2>6
<1>15. registry' = {} \/ listening'
  <2>1. CASE listening' = listening
    <3>1. registry = {} \/ listening
      BY DEF UdpInv
    <3> QED BY <1>1, <2>1, <3>1
  <2>2. CASE S = Udp!Live
    <3>1. registry = Udp!Live /\ open = Udp!Live
      BY <2>2 DEF UdpInv, TableOK, Udp!Live, open
    <3> QED BY <1>1, <3>1
  <2> QED BY <2>1, <2>2
<1> QED BY <1>9, <1>11, <1>12, <1>13, <1>14, <1>15 DEF UdpInv

LEMMA UdpTypes ==
  ASSUME UdpInv
  PROVE  /\ receiving \in BOOLEAN /\ (registry = {} \/ listening)
         /\ listening \in BOOLEAN /\ peerAt \in [Endpoints -> 0..MaxSessionId]
         /\ peer \in [Udp!Ids -> PeerRecord] /\ registry \subseteq Udp!Ids
         /\ nextSessionId \in 0..MaxSessionId /\ sending \subseteq Sending /\ received \in 0..MaxReads
         /\ \A p \in Udp!Ids : PeerOK(peer[p])
         /\ \A p \in Udp!Ids : ~peer[p].closed => SendsFirst(sending, p, peer[p])
         /\ FreshOK(nextSessionId, peer, sending)
BY DEF UdpInv

\* One peer r changes to u, the others and its place do not.
LEMMA OnePeerMoves ==
  ASSUME UdpInv, NEW p \in Udp!Ids, NEW u, peer' = [peer EXCEPT ![p] = u],
         PeerOK(u), ~peer[p].closed, u.closed = peer[p].closed, u.endpoint = peer[p].endpoint,
         SendsFirst(sending', p, u),
         sending' \subseteq Sending,
         \A s \in Sending : s.peer # p => (s \in sending' <=> s \in sending),
         received' \in 0..MaxReads, receiving' \in BOOLEAN,
         UNCHANGED <<listening, peerAt, registry, nextSessionId>>
  PROVE  UdpInv'
<1>1. /\ peer \in [Udp!Ids -> PeerRecord] /\ sending \subseteq Sending /\ u \in PeerRecord
      /\ \A q \in Udp!Ids : PeerOK(peer[q])
  BY UdpTypes DEF PeerOK
<1>2. peer' \in [Udp!Ids -> PeerRecord] /\ peer'[p] = u /\ \A q \in Udp!Ids : q # p => peer'[q] = peer[q]
  BY <1>1
<1>3. \A q \in Udp!Ids : PeerOK(peer'[q])
  BY <1>1, <1>2
<1>4. \A q \in Udp!Ids : peer'[q].closed = peer[q].closed /\ peer'[q].endpoint = peer[q].endpoint
  BY <1>2
<1>5. ASSUME NEW q \in Udp!Ids, ~peer'[q].closed
      PROVE  SendsFirst(sending', q, peer'[q])
  <2>1. CASE q = p
    BY <2>1, <1>2
  <2>2. CASE q # p
    <3>1. peer'[q] = peer[q] /\ SendsFirst(sending, q, peer[q])
      BY <2>2, <1>2, <1>5, UdpTypes
    <3>2. \A s \in sending' : s.peer = q => s \in sending
      BY <2>2
    <3>3. /\ \A s \in sending' : s.peer = q => /\ ~peer[q].stuck /\ peer[q].queue # <<>>
                                             /\ s.datagram = peer[q].queue[1]
          /\ peer[q].stuck => peer[q].queue # <<>>
      BY <3>1, <3>2 DEF SendsFirst
    <3>4. ASSUME peer[q].queue # <<>>, ~peer[q].stuck
          PROVE  [peer |-> q, datagram |-> peer[q].queue[1]] \in sending'
      <4> DEFINE s == [peer |-> q, datagram |-> peer[q].queue[1]]
      <4>1. s \in sending /\ s.peer = q
        BY <3>1, <3>4 DEF SendsFirst
      <4> HIDE DEF s
      <4>2. s \in sending'
        BY <4>1, <2>2, <1>1
      <4> QED BY <4>2 DEF s
    <3> QED BY <3>1, <3>3, <3>4 DEF SendsFirst
  <2> QED BY <2>1, <2>2
<1>6. FreshOK(nextSessionId, peer', sending')
  <2> SUFFICES ASSUME NEW q \in Udp!Ids, Unused(q, nextSessionId)
               PROVE  peer'[q] = Udp!Unborn /\ \A s \in sending' : s.peer # q
    BY DEF FreshOK
  <2>1. peer[q] = Udp!Unborn /\ \A s \in sending : s.peer # q
    BY UdpTypes DEF FreshOK
  <2>2. q # p
    BY <2>1 DEF Udp!Unborn
  <2>3. \A s \in sending' : s.peer # q
    BY <2>1, <2>2
  <2> QED BY <2>1, <2>2, <2>3, <1>2
<1>7. PeersMove
  BY <1>2, <1>3, <1>4, <1>5, <1>6 DEF PeersMove
<1> QED BY <1>7, PeersMoveKeeps

LEMMA ReceiveKeeps ==
  ASSUME UdpInv, NEW p \in registry, Udp!receive(p), received' \in 0..MaxReads,
         UNCHANGED <<listening, receiving, sending>>
  PROVE  UdpInv'
<1>1. p \in Udp!Ids /\ ~peer[p].closed
  BY DEF UdpInv, TableOK
<1>2. CASE peer' = [peer EXCEPT ![p].age = 0] /\ UNCHANGED <<peerAt, registry>> /\ UNCHANGED nextSessionId
  <2> DEFINE u == [peer[p] EXCEPT !.age = 0]
  <2>1. peer' = [peer EXCEPT ![p] = u]
    BY <1>2
  <2>2. peer[p] \in PeerRecord /\ PeerOK(peer[p]) /\ SendsFirst(sending, p, peer[p])
    BY <1>1, UdpTypes
  <2>3. PeerOK(u)
    BY <2>2, PeerAges, ConnectionAssumption
  <2>4. /\ u.closed = peer[p].closed /\ u.endpoint = peer[p].endpoint /\ u.queue = peer[p].queue
        /\ u.stuck = peer[p].stuck
    BY <2>2 DEF PeerRecord
  <2> HIDE DEF u
  <2>5. SendsFirst(sending', p, u)
    BY <2>2, <2>4 DEF SendsFirst
  <2> QED BY <1>1, <1>2, <2>1, <2>3, <2>4, <2>5, UdpTypes, OnePeerMoves
<1>3. CASE Udp!Close({p}) /\ UNCHANGED nextSessionId
  BY <1>3, UdpTypes, CloseKeeps
<1> QED BY <1>2, <1>3 DEF Udp!receive

LEMMA NextSessionType ==
  ASSUME NEW n \in 1..MaxSessionId
  PROVE  /\ (n + 1) % (MaxSessionId + 1) \in 0..MaxSessionId
         /\ \A p \in 1..MaxSessionId : Unused(p, (n + 1) % (MaxSessionId + 1)) => Unused(p, n) /\ p # n
<1>1. MaxSessionId \in Nat /\ MaxSessionId > 0 /\ n \in Nat
  BY ProtocolAssumption
<1>2. CASE n = MaxSessionId
  <2>1. (n + 1) % (MaxSessionId + 1) = 0
    BY <1>1, <1>2
  <2> QED BY <2>1, <1>1 DEF Unused
<1>3. CASE n < MaxSessionId
  <2>1. (n + 1) % (MaxSessionId + 1) = n + 1
    BY <1>1, <1>3
  <2> QED BY <2>1, <1>1, <1>3 DEF Unused
<1> QED BY <1>1, <1>2, <1>3

\* Counting in the instance is counting.
LEMMA SameCardinality ==
  \A S : Udp!Cardinality(S) = Cardinality(S)
BY DEF Udp!Cardinality, Cardinality

\* A new sender.
LEMMA AdmitKeeps ==
  ASSUME UdpInv, NEW e \in Endpoints, peerAt[e] = 0, Udp!admit(e), received' \in 0..MaxReads,
         listening, UNCHANGED <<listening, receiving, sending>>
  PROVE  UdpInv'
<1>0. PICK n : n = nextSessionId
  OBVIOUS
<1>1. /\ Cardinality(registry) < MaxConnections /\ n # 0
      /\ nextSessionId' = (n + 1) % (MaxSessionId + 1)
      /\ n \in 1..MaxSessionId /\ n \in Udp!Ids /\ n \in Nat
  <2>0. /\ Cardinality(registry) < MaxConnections /\ nextSessionId # 0
        /\ nextSessionId' = (nextSessionId + 1) % (MaxSessionId + 1)
    BY SameCardinality DEF Udp!admit
  <2>1. /\ Cardinality(registry) < MaxConnections /\ n # 0
        /\ nextSessionId' = (n + 1) % (MaxSessionId + 1)
    BY <1>0, <2>0
  <2>2. n \in 0..MaxSessionId /\ MaxSessionId \in Nat
    BY <1>0, UdpTypes, ProtocolAssumption
  <2> QED BY <2>1, <2>2 DEF Udp!Ids
<1>2. /\ nextSessionId' \in 0..MaxSessionId
      /\ \A p \in Udp!Ids : Unused(p, nextSessionId') => Unused(p, n) /\ p # n
  BY <1>1, NextSessionType DEF Udp!Ids
<1>3. peer[n] = Udp!Unborn /\ \A s \in sending : s.peer # n
  BY <1>0, <1>1, UdpTypes DEF FreshOK, Unused
<1>4. /\ peer \in [Udp!Ids -> PeerRecord] /\ \A p \in Udp!Ids : PeerOK(peer[p])
      /\ peerAt \in [Endpoints -> 0..MaxSessionId] /\ registry \subseteq Udp!Ids
      /\ Cardinality(registry) <= MaxConnections
      /\ sending' = sending /\ listening' = listening /\ receiving' = receiving
      /\ registry = {p \in Udp!Ids : ~peer[p].closed}
      /\ \A i \in Endpoints : peerAt[i] # 0 => peerAt[i] \in registry /\ peer[peerAt[i]].endpoint = i
      /\ \A p \in registry : peer[p].endpoint \in Endpoints /\ peerAt[peer[p].endpoint] = p
  BY DEF UdpInv, TableOK
<1>5. n \notin registry
  BY <1>1, <1>3, <1>4 DEF Udp!Unborn
<1>6. ASSUME NEW u, peer' = [peer EXCEPT ![n] = u], PeerOK(u), u.queue = <<>>, u.stuck = FALSE,
             registry' \subseteq Udp!Ids /\ Cardinality(registry') <= MaxConnections,
             peerAt' \in [Endpoints -> 0..MaxSessionId],
             TableOK(registry', peerAt', peer')
      PROVE  UdpInv'
  <2>1. /\ peer' \in [Udp!Ids -> PeerRecord] /\ peer'[n] = u
        /\ \A p \in Udp!Ids : p # n => peer'[p] = peer[p]
    BY <1>1, <1>4, <1>6 DEF PeerOK
  <2>2. \A p \in Udp!Ids : PeerOK(peer'[p])
    BY <1>4, <1>6, <2>1
  <2>3. ASSUME NEW p \in Udp!Ids, ~peer'[p].closed
        PROVE  SendsFirst(sending', p, peer'[p])
    <3>1. CASE p = n
      BY <3>1, <1>3, <1>4, <1>6, <2>1 DEF SendsFirst
    <3>2. CASE p # n
      BY <3>2, <2>1, <2>3, <1>4, UdpTypes
    <3> QED BY <3>1, <3>2
  <2>4. FreshOK(nextSessionId', peer', sending')
    <3> SUFFICES ASSUME NEW p \in Udp!Ids, Unused(p, nextSessionId')
                 PROVE  peer'[p] = Udp!Unborn /\ \A s \in sending' : s.peer # p
      BY DEF FreshOK
    <3>1. Unused(p, nextSessionId) /\ p # n
      BY <1>0, <1>2
    <3>2. peer[p] = Udp!Unborn /\ \A s \in sending : s.peer # p
      BY <3>1, UdpTypes DEF FreshOK
    <3> QED BY <3>1, <3>2, <2>1, <1>4
  <2> QED BY <1>2, <1>4, <1>6, <2>1, <2>2, <2>3, <2>4, UdpTypes DEF UdpInv
<1>7. CASE /\ peer' = [peer EXCEPT ![nextSessionId] =
                          [Udp!Unborn EXCEPT !.endpoint = e, !.closed = FALSE, !.opened = TRUE]]
           /\ peerAt' = [peerAt EXCEPT ![e] = nextSessionId]
           /\ registry' = registry \cup {nextSessionId}
  <2> DEFINE u == [Udp!Unborn EXCEPT !.endpoint = e, !.closed = FALSE, !.opened = TRUE]
  <2>1. PeerOK(u) /\ ~u.closed /\ u.endpoint = e /\ u.queue = <<>> /\ u.stuck = FALSE
    BY PeerBorn
  <2>2. peer' = [peer EXCEPT ![n] = u] /\ peerAt' = [peerAt EXCEPT ![e] = n] /\ registry' = registry \cup {n}
    BY <1>0, <1>7
  <2> HIDE DEF u
  <2>3. registry' \subseteq Udp!Ids /\ Cardinality(registry') <= MaxConnections
    <3>1. IsFiniteSet(Udp!Ids)
      BY FS_Interval, ProtocolAssumption DEF Udp!Ids
    <3>2. IsFiniteSet(registry)
      BY <1>4, <3>1, FS_Subset
    <3>3. Cardinality(registry') = Cardinality(registry) + 1 /\ Cardinality(registry) \in Nat
      BY <1>5, <2>2, <3>2, FS_AddElement, FS_CardinalityType
    <3> QED BY <1>1, <1>4, <2>2, <3>3, ProtocolAssumption
  <2>4. peerAt' \in [Endpoints -> 0..MaxSessionId] /\ peerAt'[e] = n
        /\ \A i \in Endpoints : i # e => peerAt'[i] = peerAt[i]
    BY <1>1, <1>4, <2>2
  <2>5. peer'[n] = u /\ \A p \in Udp!Ids : p # n => peer'[p] = peer[p]
    BY <1>1, <1>4, <2>2
  <2>6. registry' = {p \in Udp!Ids : ~peer'[p].closed}
    BY <1>1, <1>4, <2>1, <2>2, <2>5
  <2>7. ASSUME NEW i \in Endpoints, peerAt'[i] # 0
        PROVE  peerAt'[i] \in registry' /\ peer'[peerAt'[i]].endpoint = i
    <3>1. CASE i = e
      BY <3>1, <2>1, <2>2, <2>4, <2>5
    <3>2. CASE i # e
      <4>1. peerAt'[i] = peerAt[i] /\ peerAt[i] \in registry /\ peer[peerAt[i]].endpoint = i
        BY <3>2, <2>4, <2>7, <1>4
      <4>2. peerAt[i] # n /\ peerAt[i] \in Udp!Ids
        BY <4>1, <1>4, <1>5
      <4> QED BY <4>1, <4>2, <2>2, <2>5
    <3> QED BY <3>1, <3>2
  <2>8. ASSUME NEW p \in registry'
        PROVE  peer'[p].endpoint \in Endpoints /\ peerAt'[peer'[p].endpoint] = p
    <3>1. CASE p = n
      BY <3>1, <2>1, <2>4, <2>5
    <3>2. CASE p # n
      <4>1. p \in registry /\ p \in Udp!Ids /\ peer'[p] = peer[p]
        BY <3>2, <2>2, <2>5, <2>8, <1>4
      <4>2. peer[p].endpoint \in Endpoints /\ peerAt[peer[p].endpoint] = p
        BY <4>1, <1>4
      <4>3. p # 0
        BY <4>1, ProtocolAssumption DEF Udp!Ids
      <4>4. peer[p].endpoint # e
        BY <4>2, <4>3
      <4> QED BY <4>1, <4>2, <4>4, <2>4
    <3> QED BY <3>1, <3>2
  <2>9. TableOK(registry', peerAt', peer')
    BY <2>6, <2>7, <2>8 DEF TableOK
  <2> QED BY <1>6, <2>1, <2>2, <2>3, <2>4, <2>9
<1>8. CASE peer' = [peer EXCEPT ![nextSessionId].endpoint = e] /\ UNCHANGED <<peerAt, registry>>
  <2> DEFINE u == [Udp!Unborn EXCEPT !.endpoint = e]
  <2>1. PeerOK(u) /\ u.closed /\ u.queue = <<>> /\ u.stuck = FALSE
    BY PeerBorn DEF Udp!Unborn
  <2>2. peer' = [peer EXCEPT ![n] = u] /\ peerAt' = peerAt /\ registry' = registry
    BY <1>0, <1>3, <1>8
  <2> HIDE DEF u
  <2>3. peer'[n] = u /\ \A p \in Udp!Ids : p # n => peer'[p] = peer[p]
    BY <1>1, <1>4, <2>2
  <2>4. registry' = {p \in Udp!Ids : ~peer'[p].closed}
    BY <1>1, <1>4, <1>5, <2>1, <2>2, <2>3
  <2>5. \A p \in registry : p # n /\ p \in Udp!Ids /\ peer'[p] = peer[p]
    BY <1>4, <1>5, <2>3
  <2>6. TableOK(registry', peerAt', peer')
    BY <1>4, <2>2, <2>4, <2>5 DEF TableOK
  <2> QED BY <1>4, <1>6, <2>1, <2>2, <2>6
<1> QED BY <1>7, <1>8 DEF Udp!admit

LEMMA DatagramKeeps ==
  ASSUME UdpInv, NEW e \in Endpoints, Udp!dispatch_datagram(e)
  PROVE  UdpInv'
<1>1. received < MaxReads /\ received' = received + 1 /\ listening
      /\ UNCHANGED <<listening, receiving, sending>>
  BY DEF Udp!dispatch_datagram
<1>2. received' \in 0..MaxReads
  BY <1>1, UdpTypes, ConnectionAssumption
<1>3. CASE peerAt[e] # 0
  <2>1. Udp!receive(peerAt[e])
    BY <1>3 DEF Udp!dispatch_datagram
  <2>2. peerAt[e] \in registry
    BY <1>3 DEF UdpInv, TableOK
  <2> QED BY <1>1, <1>2, <2>1, <2>2, ReceiveKeeps
<1>4. CASE peerAt[e] = 0
  <2>1. Udp!admit(e)
    BY <1>4 DEF Udp!dispatch_datagram
  <2> QED BY <1>1, <1>2, <1>4, <2>1, AdmitKeeps
<1> QED BY <1>3, <1>4

LEMMA ReceiveLostKeeps ==
  ASSUME UdpInv, Udp!ReceiveLost
  PROVE  UdpInv'
<1>1. /\ receiving' = FALSE
      /\ UNCHANGED <<listening, peerAt, peer, registry, nextSessionId, sending, received>>
  BY DEF Udp!ReceiveLost
<1>2. PeersMove
  BY <1>1, UdpTypes DEF PeersMove
<1> QED BY <1>2, PeersMoveKeeps

LEMMA CloseListenerKeeps ==
  ASSUME UdpInv, Udp!CloseListener
  PROVE  UdpInv'
<1>1. /\ Udp!Close(Udp!Live) /\ listening' = FALSE /\ receiving' = FALSE /\ nextSessionId' = nextSessionId
      /\ sending' = sending /\ received' = received
  BY DEF Udp!CloseListener
<1> QED BY <1>1, UdpTypes, CloseKeeps

LEMMA UdpDisconnectKeeps ==
  ASSUME UdpInv, NEW p, Udp!Disconnect(p)
  PROVE  UdpInv'
<1>1. /\ Udp!Close({p}) /\ listening' = listening /\ receiving' = receiving /\ nextSessionId' = nextSessionId
      /\ sending' = sending /\ received' = received
  BY DEF Udp!Disconnect
<1> QED BY <1>1, UdpTypes, CloseKeeps

LEMMA UdpSendThrowsKeeps ==
  ASSUME UdpInv, NEW p, NEW size, Udp!send_throws(p, size)
  PROVE  UdpInv'
<1>1. /\ Udp!Close({p}) /\ listening' = listening /\ receiving' = receiving /\ nextSessionId' = nextSessionId
      /\ sending' = sending /\ received' = received
  BY DEF Udp!send_throws
<1> QED BY <1>1, UdpTypes, CloseKeeps

LEMMA ExpireKeeps ==
  ASSUME UdpInv, Udp!expire_idle_peers
  PROVE  UdpInv'
<1>1. PICK S : S = {p \in Udp!Live : peer[p].age >= IdleTimeout}
  OBVIOUS
<1>2. /\ Udp!Close(S) /\ listening' = listening /\ receiving' = receiving /\ nextSessionId' = nextSessionId
      /\ sending' = sending /\ received' = received
  BY <1>1 DEF Udp!expire_idle_peers
<1> QED BY <1>2, UdpTypes, CloseKeeps

LEMMA UdpTickKeeps ==
  ASSUME UdpInv, Udp!Tick
  PROVE  UdpInv'
<1> DEFINE older(p) == [peer[p] EXCEPT !.age = peer[p].age + 1]
<1>1. /\ peer' = [p \in Udp!Ids |-> IF p \in Udp!Live /\ peer[p].age < IdleTimeout
                                    THEN older(p) ELSE peer[p]]
      /\ UNCHANGED <<listening, receiving, peerAt, registry, nextSessionId, sending, received>>
  BY DEF Udp!Tick
<1>2. \A p \in Udp!Ids : peer[p] \in PeerRecord /\ PeerOK(peer[p])
  BY UdpTypes
<1>3. ASSUME NEW p \in Udp!Ids, peer[p].age < IdleTimeout
      PROVE  /\ PeerOK(older(p)) /\ older(p) \in PeerRecord /\ older(p).closed = peer[p].closed
             /\ older(p).endpoint = peer[p].endpoint /\ older(p).queue = peer[p].queue
             /\ older(p).stuck = peer[p].stuck
  <2>1. peer[p].age + 1 \in 0..IdleTimeout
    BY <1>2, <1>3, PeerFields, ConnectionAssumption
  <2>2. PeerOK(older(p))
    BY <1>2, <2>1, PeerAges
  <2>3. /\ older(p).closed = peer[p].closed
        /\ older(p).endpoint = peer[p].endpoint /\ older(p).queue = peer[p].queue
        /\ older(p).stuck = peer[p].stuck
    BY <1>2 DEF PeerRecord
  <2> QED BY <2>2, <2>3 DEF PeerOK
<1> HIDE DEF older
<1>4. \A p \in Udp!Ids :
        /\ PeerOK(peer'[p]) /\ peer'[p] \in PeerRecord /\ peer'[p].closed = peer[p].closed
        /\ peer'[p].endpoint = peer[p].endpoint /\ peer'[p].queue = peer[p].queue
        /\ peer'[p].stuck = peer[p].stuck
        /\ peer[p].closed => peer'[p] = peer[p]
  BY <1>1, <1>2, <1>3 DEF Udp!Live
<1>5. \A p \in Udp!Ids : ~peer'[p].closed => SendsFirst(sending', p, peer'[p])
  BY <1>1, <1>4, UdpTypes DEF SendsFirst
<1>6. FreshOK(nextSessionId, peer', sending')
  <2> SUFFICES ASSUME NEW p \in Udp!Ids, Unused(p, nextSessionId)
               PROVE  peer'[p] = Udp!Unborn /\ \A s \in sending' : s.peer # p
    BY DEF FreshOK
  <2>1. peer[p] = Udp!Unborn /\ \A s \in sending : s.peer # p
    BY UdpTypes DEF FreshOK
  <2>2. peer[p].closed
    BY <2>1 DEF Udp!Unborn
  <2> QED BY <2>1, <2>2, <1>1, <1>4
<1>7. peer' \in [Udp!Ids -> PeerRecord]
  BY <1>1, <1>4
<1>8. PeersMove
  BY <1>1, <1>4, <1>5, <1>6, <1>7, UdpTypes DEF PeersMove
<1> QED BY <1>8, PeersMoveKeeps

LEMMA UdpSendKeeps ==
  ASSUME UdpInv, NEW p \in Udp!Ids, NEW size \in PayloadSizes, Udp!send(p, size)
  PROVE  UdpInv'
<1>0. PICK r : r = peer[p]
  OBVIOUS
<1> DEFINE d == [number |-> r.sent + 1, size |-> size]
<1> DEFINE u == [r EXCEPT !.queue = Append(r.queue, d), !.bytes = r.bytes + DatagramCost(size),
                          !.sent = r.sent + 1]
<1>1. /\ ~r.closed /\ Len(r.queue) < MaxQueued /\ r.bytes <= MaxSendQueueBytes - DatagramCost(size)
      /\ r.sent < MaxSends
      /\ sending' = IF r.queue = <<>> THEN sending \cup {[peer |-> p, datagram |-> d]} ELSE sending
      /\ UNCHANGED <<listening, receiving, peerAt, registry, nextSessionId, received>>
  BY <1>0 DEF Udp!send, Udp!fits, Udp!Live, Udp!queue_cost, DatagramCost
<1>2. r \in PeerRecord /\ PeerOK(r) /\ SendsFirst(sending, p, r) /\ peer \in [Udp!Ids -> PeerRecord]
      /\ sending \subseteq Sending
  BY <1>0, <1>1, UdpTypes
<1>3. peer' = [peer EXCEPT ![p] = u]
  <2>1. peer' = [peer EXCEPT ![p].queue = Append(@, d),
                             ![p].bytes = @ + DatagramCost(size),
                             ![p].sent = @ + 1]
    BY <1>0 DEF Udp!send, Udp!queue_cost, DatagramCost
  <2> HIDE DEF d
  <2> QED BY <2>1, <1>0, <1>2 DEF PeerRecord
<1>4. PeerOK(u)
  BY <1>1, <1>2, PeerSends
<1>5. /\ r.queue \in Seq(Udp!Datagram) /\ r.sent \in 0..MaxSends
  BY <1>2, PeerFields
<1>6. d \in Udp!Datagram /\ [peer |-> p, datagram |-> d] \in Sending
  <2>1. r.sent + 1 \in 1..MaxSends
    BY <1>1, <1>5, ConnectionAssumption
  <2>2. d \in Udp!Datagram
    BY <2>1 DEF Udp!Datagram
  <2> QED BY <2>2 DEF Sending
<1> HIDE DEF d
<1>7. u.queue = Append(r.queue, d) /\ u.closed = r.closed /\ u.endpoint = r.endpoint /\ u.stuck = r.stuck
  BY <1>2 DEF PeerRecord
<1> HIDE DEF u
<1>8. u.queue # <<>> /\ u.queue[1] = IF r.queue = <<>> THEN d ELSE r.queue[1]
  <2>1. CASE r.queue = <<>>
    BY <2>1, <1>5, <1>6, <1>7
  <2>2. CASE r.queue # <<>>
    <3>1. 1 \in 1..Len(r.queue)
      BY <2>2, <1>5
    <3> QED BY <3>1, <2>2, <1>5, <1>6, <1>7
  <2> QED BY <2>1, <2>2
<1>9. SendsFirst(sending', p, u)
  <2>1. CASE r.queue = <<>>
    <3>1. sending' = sending \cup {[peer |-> p, datagram |-> d]} /\ u.queue[1] = d
      BY <1>1, <1>8, <2>1
    <3>2. (\A s \in sending : s.peer # p) /\ ~u.stuck
      BY <1>2, <1>7, <2>1 DEF SendsFirst
    <3>3. \A s \in sending' : s.peer = p => s.datagram = d
      BY <3>1, <3>2
    <3> QED BY <1>8, <3>1, <3>2, <3>3 DEF SendsFirst
  <2>2. CASE r.queue # <<>>
    <3>1. sending' = sending /\ u.queue[1] = r.queue[1]
      BY <1>1, <1>8, <2>2
    <3> QED BY <1>2, <1>7, <1>8, <2>2, <3>1 DEF SendsFirst
  <2> QED BY <2>1, <2>2
<1>10. /\ sending' \subseteq Sending
       /\ \A s \in Sending : s.peer # p => (s \in sending' <=> s \in sending)
  BY <1>1, <1>2, <1>6
<1>11. received' \in 0..MaxReads /\ receiving' \in BOOLEAN /\ UNCHANGED <<listening, peerAt, registry, nextSessionId>>
  BY <1>1, UdpTypes
<1>12. ~peer[p].closed /\ u.closed = peer[p].closed /\ u.endpoint = peer[p].endpoint
  BY <1>0, <1>1, <1>7
<1> QED BY <1>3, <1>4, <1>9, <1>10, <1>11, <1>12, OnePeerMoves

\* A send completes: late, badly, or well.
LEMMA CompleteKeeps ==
  ASSUME UdpInv, NEW s \in sending, Udp!complete_send(s)
  PROVE  UdpInv'
<1>0. /\ s \in Sending /\ s.peer \in Udp!Ids /\ sending \subseteq Sending
      /\ s = [peer |-> s.peer, datagram |-> s.datagram]
  BY UdpTypes DEF Sending
<1>1. /\ listening' = listening /\ receiving' = receiving /\ nextSessionId' = nextSessionId
      /\ received' = received
  BY DEF Udp!complete_send
<1>2. CASE /\ s.peer \notin Udp!Live /\ sending' = sending \ {s} /\ UNCHANGED <<peer, peerAt, registry>>
  <2>1. peer' = peer /\ peerAt' = peerAt /\ registry' = registry /\ sending' \subseteq sending
    BY <1>2
  <2>2. ASSUME NEW p \in Udp!Ids, ~peer'[p].closed
        PROVE  SendsFirst(sending', p, peer'[p])
    <3>1. SendsFirst(sending, p, peer[p]) /\ p # s.peer /\ peer'[p] = peer[p]
      BY <1>2, <2>1, <2>2, UdpTypes DEF Udp!Live
    <3>2. \A t \in sending : t.peer = p => t \in sending'
      BY <1>2, <3>1
    <3>3. peer[p].queue # <<>> /\ ~peer[p].stuck => [peer |-> p, datagram |-> peer[p].queue[1]] \in sending'
      BY <3>1, <3>2 DEF SendsFirst
    <3> QED BY <2>1, <3>1, <3>3 DEF SendsFirst
  <2>3. FreshOK(nextSessionId, peer', sending')
    BY <2>1, UdpTypes DEF FreshOK
  <2>4. PeersMove
    BY <1>0, <1>1, <2>1, <2>2, <2>3, UdpTypes DEF PeersMove
  <2> QED BY <2>4, PeersMoveKeeps
<1>3. CASE s.peer \in Udp!Live /\ sending' = sending \ {s} /\ Udp!Close({s.peer})
  <2>1. sending' \subseteq sending /\ \A t \in sending : t \notin sending' => t.peer \in {s.peer}
    BY <1>3
  <2> QED BY <1>1, <1>3, <2>1, UdpTypes, CloseKeeps
<1>4. CASE /\ s.peer \in Udp!Live
           /\ LET rest == Tail(peer[s.peer].queue) IN
                /\ peer' = [peer EXCEPT ![s.peer].queue = rest,
                                        ![s.peer].bytes = @ - Udp!queue_cost(s.datagram.size)]
                /\ sending' = (sending \ {s}) \cup
                     {[peer |-> s.peer, datagram |-> rest[i]] : i \in 1..Len(rest) \cap {1}}
           /\ UNCHANGED <<peerAt, registry>>
  <2>0. PICK p \in Udp!Ids, r \in PeerRecord : p = s.peer /\ r = peer[s.peer]
    BY <1>0, UdpTypes
  <2>1. r \in PeerRecord /\ PeerOK(r) /\ SendsFirst(sending, p, r) /\ ~r.closed
        /\ peer \in [Udp!Ids -> PeerRecord]
    BY <1>4, <2>0, UdpTypes DEF Udp!Live
  <2>2. r.queue # <<>> /\ s.datagram = r.queue[1] /\ ~r.stuck
    BY <2>0, <2>1 DEF SendsFirst
  <2> DEFINE u == [r EXCEPT !.queue = Tail(r.queue), !.bytes = r.bytes - DatagramCost(r.queue[1].size)]
  <2>3. PeerOK(u)
    BY <2>1, <2>2, PeerCompletes
  <2>4. u.queue = Tail(r.queue) /\ u.closed = r.closed /\ u.endpoint = r.endpoint /\ u.stuck = r.stuck
    BY <2>1 DEF PeerRecord
  <2>5. peer' = [peer EXCEPT ![p] = u]
    <3>1. peer' = [peer EXCEPT ![p].queue = Tail(r.queue),
                               ![p].bytes = @ - DatagramCost(r.queue[1].size)]
      BY <1>4, <2>0, <2>2 DEF Udp!queue_cost, DatagramCost
    <3> QED BY <3>1, <2>0, <2>1 DEF PeerRecord
  <2>6. r.queue \in Seq(Udp!Datagram) /\ Tail(r.queue) \in Seq(Udp!Datagram)
    BY <2>1, <2>2, PeerFields
  <2>7. PICK rest : rest = Tail(r.queue)
    OBVIOUS
  <2>8. sending' = (sending \ {s}) \cup {[peer |-> p, datagram |-> rest[i]] : i \in 1..Len(rest) \cap {1}}
    BY <1>4, <2>0, <2>7
  <2>9. rest \in Seq(Udp!Datagram) /\ Len(rest) \in Nat /\ (rest # <<>> <=> 1 \in 1..Len(rest))
    <3>1. rest \in Seq(Udp!Datagram)
      BY <2>6, <2>7
    <3>2. Len(rest) \in Nat /\ (rest # <<>> <=> Len(rest) > 0)
      BY ONLY <3>1
    <3> QED BY ONLY <3>1, <3>2
  <2> HIDE DEF u
  <2>10. \A t : t \in sending' <=> (t \in sending /\ t # s) \/ (rest # <<>> /\ t = [peer |-> p, datagram |-> rest[1]])
    BY <2>8, <2>9
  <2>11. \A t \in sending : t.peer = p => t = s
    <3> SUFFICES ASSUME NEW t \in sending, t.peer = p PROVE t = s
      OBVIOUS
    <3>1. t = [peer |-> t.peer, datagram |-> t.datagram]
      BY <1>0 DEF Sending
    <3>2. t.datagram = r.queue[1]
      BY <2>1 DEF SendsFirst
    <3> QED BY <1>0, <2>0, <2>2, <3>1, <3>2
  <2>12. SendsFirst(sending', p, u)
    <3>1. u.queue = rest /\ ~u.stuck
      BY <2>2, <2>4, <2>7
    <3>2. \A t \in sending' : t.peer = p => rest # <<>> /\ t.datagram = rest[1]
      BY <2>10, <2>11
    <3>3. rest # <<>> => [peer |-> p, datagram |-> rest[1]] \in sending'
      BY <2>10
    <3> QED BY <3>1, <3>2, <3>3 DEF SendsFirst
  <2>13. /\ sending' \subseteq Sending
         /\ \A t \in Sending : t.peer # p => (t \in sending' <=> t \in sending)
    <3>1. rest # <<>> => [peer |-> p, datagram |-> rest[1]] \in Sending
      BY <2>9 DEF Sending
    <3>2. sending' \subseteq Sending
      BY <1>0, <2>10, <3>1
    <3>3. ASSUME NEW t \in Sending, t.peer # p PROVE t \in sending' <=> t \in sending
      <4>1. t # s /\ t # [peer |-> p, datagram |-> rest[1]]
        BY <2>0, <3>3
      <4> QED BY <4>1, <2>10
    <3> QED BY <3>2, <3>3
  <2>14. /\ received' \in 0..MaxReads /\ receiving' \in BOOLEAN /\ UNCHANGED <<listening, peerAt, registry, nextSessionId>>
         /\ ~peer[p].closed /\ u.closed = peer[p].closed /\ u.endpoint = peer[p].endpoint
    BY <1>1, <1>4, <2>0, <2>1, <2>4, UdpTypes
  <2> QED BY <2>3, <2>5, <2>12, <2>13, <2>14, OnePeerMoves
<1>5. CASE /\ s.peer \in Udp!Live /\ sending' = sending \ {s}
           /\ peer' = [peer EXCEPT ![s.peer].stuck = TRUE]
           /\ UNCHANGED <<peerAt, registry>>
  <2>0. PICK p \in Udp!Ids, r \in PeerRecord : p = s.peer /\ r = peer[s.peer]
    BY <1>0, UdpTypes
  <2>1. PeerOK(r) /\ SendsFirst(sending, p, r) /\ ~r.closed /\ peer \in [Udp!Ids -> PeerRecord]
    BY <1>5, <2>0, UdpTypes DEF Udp!Live
  <2>2. r.queue # <<>> /\ s.datagram = r.queue[1]
    BY <2>0, <2>1 DEF SendsFirst
  <2> DEFINE u == [r EXCEPT !.stuck = TRUE]
  <2>3. /\ u \in PeerRecord /\ u.queue = r.queue /\ u.bytes = r.bytes /\ u.sent = r.sent
        /\ u.closed = r.closed /\ u.endpoint = r.endpoint /\ u.stuck
    BY <2>0 DEF PeerRecord
  <2>4. peer' = [peer EXCEPT ![p] = u]
    BY <1>5, <2>0
  <2> HIDE DEF u
  <2>5. PeerOK(u)
    BY <2>1, <2>3 DEF PeerOK
  <2>6. \A t \in sending' : t.peer # p
    <3> SUFFICES ASSUME NEW t \in sending', t.peer = p PROVE FALSE
      OBVIOUS
    <3>1. t \in sending /\ t # s
      BY <1>5
    <3>2. t = [peer |-> t.peer, datagram |-> t.datagram]
      BY <1>0, <3>1 DEF Sending
    <3>3. t.datagram = r.queue[1]
      BY <2>1, <3>1 DEF SendsFirst
    <3> QED BY <1>0, <2>0, <2>2, <3>1, <3>2, <3>3
  <2>7. SendsFirst(sending', p, u)
    BY <2>2, <2>3, <2>6 DEF SendsFirst
  <2>8. sending' \subseteq Sending /\ \A t \in Sending : t.peer # p => (t \in sending' <=> t \in sending)
    BY <1>0, <1>5, <2>0
  <2>9. /\ received' \in 0..MaxReads /\ receiving' \in BOOLEAN
        /\ UNCHANGED <<listening, peerAt, registry, nextSessionId>>
        /\ ~peer[p].closed /\ u.closed = peer[p].closed /\ u.endpoint = peer[p].endpoint
    BY <1>1, <1>5, <2>0, <2>1, <2>3, UdpTypes
  <2> QED BY <2>4, <2>5, <2>7, <2>8, <2>9, OnePeerMoves
<1> QED BY <1>2, <1>3, <1>4, <1>5 DEF Udp!complete_send

\* Every step of a UDP listener keeps its invariant.
LEMMA UdpNextKeeps ==
  ASSUME UdpInv, Udp!Next
  PROVE  UdpInv'
<1>1. CASE \E e \in Endpoints : Udp!dispatch_datagram(e)
  BY <1>1, DatagramKeeps
<1>2. CASE Udp!CloseListener \/ Udp!ReceiveLost \/ Udp!Tick \/ Udp!expire_idle_peers
  BY <1>2, CloseListenerKeeps, ReceiveLostKeeps, UdpTickKeeps, ExpireKeeps
<1>3. CASE \E p \in Udp!Ids : Udp!Disconnect(p)
  BY <1>3, UdpDisconnectKeeps
<1>4. CASE \E p \in Udp!Ids, size \in PayloadSizes : Udp!send(p, size) \/ Udp!send_throws(p, size)
  BY <1>4, UdpSendKeeps, UdpSendThrowsKeeps
<1>5. CASE \E s \in sending : Udp!complete_send(s)
  BY <1>5, CompleteKeeps
<1> QED BY <1>1, <1>2, <1>3, <1>4, <1>5 DEF Udp!Next
-----------------------------------------------------------------------------
(***************************************************************************)
(* The composition.                                                        *)
(***************************************************************************)

LEMMA StreamFrame ==
  ASSUME StreamInv, UNCHANGED <<stateVars, kind, op, streamVars>>
  PROVE  StreamInv'
<1>1. /\ closed' = closed /\ opened' = opened /\ timer' = timer /\ registered' = registered
      /\ quiet' = quiet /\ why' = why /\ kind' = kind /\ op' = op /\ reads' = reads
      /\ outgoing' = outgoing /\ queuedBytes' = queuedBytes /\ write' = write
      /\ wire' = wire /\ sends' = sends
  BY DEF stateVars, streamVars
<1>2. UNCHANGED <<closed, opened, registered, why, kind, op, Stream!queueVars, reads>>
  BY <1>1 DEF Stream!queueVars
<1> QED BY <1>1, <1>2, StreamTypes, StreamTimerMoves

LEMMA HttpFrame ==
  ASSUME HttpInv, UNCHANGED <<stateVars, kind, op, httpVars>>
  PROVE  HttpInv'
<1>1. /\ closed' = closed /\ opened' = opened /\ timer' = timer /\ registered' = registered
      /\ quiet' = quiet /\ why' = why /\ kind' = kind /\ op' = op /\ UNCHANGED httpVars
  BY DEF stateVars
<1>2. UNCHANGED <<closed, opened, registered, why, kind, op, Http!httpVars>>
  BY <1>1 DEF Http!httpVars, httpVars
<1> QED BY <1>1, <1>2, HttpTypes, HttpTimerMoves

LEMMA UdpFrame ==
  ASSUME UdpInv, UNCHANGED udpVars
  PROVE  UdpInv'
<1>1. /\ listening' = listening /\ receiving' = receiving /\ peerAt' = peerAt /\ peer' = peer
      /\ registry' = registry
      /\ nextSessionId' = nextSessionId /\ sending' = sending /\ received' = received
  BY DEF udpVars
<1>2. PeersMove
  BY <1>1, UdpTypes DEF PeersMove
<1> QED BY <1>2, PeersMoveKeeps

\* No step changes the kind.
LEMMA StreamKind ==
  ASSUME Stream!Next
  PROVE  kind' = kind
<1>1. CASE Stream!Completions
  BY <1>1 DEF Stream!Completions, Stream!start, Stream!HandshakeDone, Stream!read_upgrade_request,
          Stream!accept_upgrade, Stream!read_header, Stream!read_message, Stream!ReadEnds,
          Stream!StartThrows, Stream!write_next, Stream!WriteEnds, Stream!BeginMessages,
          Stream!guarded_handler, Stream!close
<1>2. CASE Stream!ReadAfterClose \/ Stream!Tick \/ Stream!Disconnect
  BY <1>2 DEF Stream!ReadAfterClose, Stream!Tick, Stream!Disconnect, Stream!close
<1>3. CASE \E size \in PayloadSizes : Stream!send(size) \/ Stream!send_throws(size)
  BY <1>3 DEF Stream!send, Stream!send_throws, Stream!close
<1>4. CASE \E g \in timer.due : Stream!Deadline(g)
  BY <1>4 DEF Stream!Deadline, Stream!close
<1> QED BY <1>1, <1>2, <1>3, <1>4 DEF Stream!Next

LEMMA HttpKind ==
  ASSUME Http!Next
  PROVE  kind' = kind
<1>1. CASE Http!start \/ Http!StartThrows \/ Http!HandshakeDone
  BY <1>1 DEF Http!start, Http!StartThrows, Http!HandshakeDone, Http!BeginRequests, Http!CloseOnly, Http!close
<1>2. Http!reject_http \/ Http!dispatch_request => kind' = kind
  BY DEF Http!dispatch_request, Http!reject_http, Http!write_response, Http!CloseOnly, Http!close
<1>3. CASE Http!read_header \/ Http!read_body
  BY <1>2, <1>3 DEF Http!read_header, Http!read_body
<1>4. CASE \E id \in Http!RequestIds, r \in Http!Response : Http!respond_http(id, r)
  BY <1>4 DEF Http!respond_http, Http!write_response, Http!close
<1>5. CASE Http!ResponseWritten \/ Http!OperationEnds \/ Http!CompletionAfterClose
  BY <1>5 DEF Http!ResponseWritten, Http!OperationEnds, Http!CompletionAfterClose, Http!CloseOnly, Http!close
<1>6. CASE Http!Tick \/ Http!Disconnect
  BY <1>6 DEF Http!Tick, Http!Disconnect, Http!CloseOnly, Http!close
<1>7. CASE \E g \in timer.due : Http!Deadline(g)
  BY <1>7 DEF Http!Deadline, Http!CloseOnly, Http!close
<1> QED BY <1>1, <1>3, <1>4, <1>5, <1>6, <1>7 DEF Http!Next

LEMMA StreamInitOK ==
  ASSUME StateInit, op = "start", Stream!StreamInit
  PROVE  StreamInv
<1>1. /\ closed = FALSE /\ opened = FALSE /\ registered = TRUE /\ quiet = 0 /\ why = "open"
      /\ timer = [generation |-> 0, remaining |-> 0, due |-> {}]
      /\ outgoing = <<>> /\ queuedBytes = 0 /\ write = Stream!NoFrame /\ wire = <<>> /\ sends = 0 /\ reads = 0
  BY DEF StateInit, Stream!StreamInit
<1>2. timer \in Timer /\ TimerOK(timer, quiet, Stream!Allowed)
  BY <1>1 DEF Timer, TimerOK
<1>3. write \in Stream!Frame /\ queuedBytes \in 0..MaxSendQueueBytes /\ sends \in 0..MaxSends
      /\ reads \in 0..MaxReads /\ outgoing \in Seq(Stream!Frame) /\ wire \in Seq(Stream!Frame)
  BY <1>1, ConnectionAssumption DEF Stream!NoFrame, Stream!Frame
<1>4. Stream!TypeOK
  BY <1>1, <1>2, <1>3 DEF Stream!TypeOK, Stream!StateTypeOK, Stream!Timer, Timer, Stream!Reasons
<1>5. queuedBytes = FramesTotal(kind, outgoing)
  BY <1>1, FramesEmpty
<1>6. Len(wire) + Len(outgoing) = sends
  BY <1>1
<1>7. (op \in Waiting) = FALSE
  BY DEF Waiting
<1>8. /\ \A i \in 1..Len(wire) : wire[i].number = i
      /\ \A i \in 1..Len(outgoing) : outgoing[i].number = Len(wire) + i
  BY <1>1
<1>9. /\ closed = FALSE /\ op # "none" /\ opened = (op \in Waiting) /\ why = "open"
      /\ write = IF outgoing = <<>> THEN Stream!NoFrame ELSE Head(outgoing)
      /\ (outgoing # <<>> => opened)
  BY <1>1, <1>7
<1> QED BY <1>2, <1>4, <1>5, <1>6, <1>8, <1>9 DEF StreamInv

LEMMA HttpInitOK ==
  ASSUME StateInit, op = "start", Http!HttpInit
  PROVE  HttpInv
<1>1. /\ closed = FALSE /\ opened = FALSE /\ registered = TRUE /\ quiet = 0 /\ why = "open"
      /\ timer = [generation |-> 0, remaining |-> 0, due |-> {}]
      /\ pending = 0 /\ nextRequestId = 1 /\ requestFlags = [head |-> FALSE, keep |-> FALSE]
      /\ response = Http!NoResponse
      /\ taken = 0 /\ number = [id \in Http!RequestIds |-> 0] /\ answers = <<>>
  BY DEF StateInit, Http!HttpInit
<1>2. timer \in Timer /\ TimerOK(timer, quiet, Http!Allowed)
  BY <1>1 DEF Timer, TimerOK
<1>3. 0 \in 0..MaxRequestId /\ 1 \in 0..MaxRequestId /\ 0 \in 0..MaxReads /\ 0 \in 0..MaxSendQueueBytes
  BY ConnectionAssumption, ProtocolAssumption
<1>4. response \in [request : 0..MaxReads, keep : BOOLEAN, bytes : 0..MaxSendQueueBytes]
  BY <1>1, <1>3 DEF Http!NoResponse
<1>a. /\ number \in [Http!RequestIds -> 0..MaxReads] /\ answers \in Seq(1..MaxReads)
      /\ requestFlags \in [head : BOOLEAN, keep : BOOLEAN]
  BY <1>1, <1>3
<1>b. Http!StateTypeOK
  BY <1>1, <1>2 DEF Http!StateTypeOK, Http!Timer, Timer, Http!Reasons
<1>5. Http!TypeOK
  BY <1>1, <1>3, <1>4, <1>a, <1>b DEF Http!TypeOK
<1>6. taken = Len(answers) + 0
  BY <1>1
<1>7. opened = (op \notin {"start", "tls"}) /\ (op = "none") = (pending # 0)
  <2>1. (op \notin {"start", "tls"}) = FALSE
    OBVIOUS
  <2>2. (op = "none") = FALSE /\ (pending # 0) = FALSE
    BY <1>1
  <2> QED BY ONLY <1>1, <2>1, <2>2
<1>8. /\ closed = FALSE /\ why = "open" /\ op \notin {"write", "body", "none"} /\ pending = 0
      /\ taken = Len(answers) + (IF op \in {"write", "none"} THEN 1 ELSE 0)
      /\ \A i \in 1..Len(answers) : answers[i] = i
  BY <1>1, <1>6
<1> QED BY <1>2, <1>5, <1>7, <1>8 DEF HttpInv

LEMMA UdpInitOK ==
  ASSUME Udp!UdpInit
  PROVE  UdpInv
<1>1. /\ listening = TRUE /\ receiving = TRUE
      /\ peerAt = [e \in Endpoints |-> 0] /\ peer = [p \in Udp!Ids |-> Udp!Unborn]
      /\ registry = {} /\ nextSessionId = 1 /\ sending = {} /\ received = 0
  BY DEF Udp!UdpInit
<1>2. PeerOK(Udp!Unborn) /\ Udp!Unborn.closed
  <2>1. Len(<<>>) = 0 /\ <<>> \in Seq(Udp!Datagram)
    OBVIOUS
  <2>2. 0 \in 0..MaxSendQueueBytes /\ 0 \in 0..IdleTimeout /\ 0 \in 0..MaxSends /\ 0 <= MaxQueued
    BY ConnectionAssumption
  <2>3. Udp!Unborn \in PeerRecord /\ Udp!Unborn.queue = <<>> /\ Udp!Unborn.bytes = 0
        /\ Udp!Unborn.sent = 0 /\ Udp!Unborn.closed
    BY <2>1, <2>2 DEF Udp!Unborn, PeerRecord
  <2> QED BY <2>1, <2>2, <2>3, DatagramsEmpty DEF PeerOK
<1>3. \A p \in Udp!Ids : peer[p] = Udp!Unborn /\ PeerOK(peer[p]) /\ peer[p].closed
  BY <1>1, <1>2
<1>4. peer \in [Udp!Ids -> PeerRecord]
  BY <1>1, <1>2 DEF PeerOK
<1>5. TableOK(registry, peerAt, peer)
  BY <1>1, <1>3 DEF TableOK
<1>6. FreshOK(nextSessionId, peer, sending)
  BY <1>1, <1>3 DEF FreshOK
<1>7. /\ Cardinality(registry) <= MaxConnections /\ nextSessionId \in 0..MaxSessionId
      /\ received \in 0..MaxReads /\ peerAt \in [Endpoints -> 0..MaxSessionId]
  BY <1>1, FS_EmptySet, ConnectionAssumption, ProtocolAssumption
<1> QED BY <1>1, <1>3, <1>4, <1>5, <1>6, <1>7 DEF UdpInv

LEMMA InvInit ==
  ASSUME Init
  PROVE  Inv
BY StreamInitOK, HttpInitOK, UdpInitOK DEF Init, Inv

LEMMA InvNext ==
  ASSUME Inv, [Next]_vars
  PROVE  Inv'
<1>1. CASE StreamStep
  <2>1. IsStream /\ Stream!Next /\ UNCHANGED httpVars /\ UNCHANGED udpVars
    BY <1>1 DEF StreamStep
  <2>2. kind' = kind /\ kind \in Kinds
    BY <2>1, StreamKind DEF Inv
  <2>3. IsStream' /\ ~IsHttp' /\ ~IsUdp' /\ ~IsHttp
    BY <2>1, <2>2 DEF IsStream, IsHttp, IsUdp
  <2>4. StreamInv'
    BY <2>1, StreamNextKeeps DEF Inv
  <2>5. UdpInv'
    BY <2>1, UdpFrame DEF Inv
  <2>6. Http!HttpInit'
    BY <2>1, <2>3 DEF Inv, Http!HttpInit, httpVars, Http!RequestIds, Http!NoResponse
  <2> QED BY <2>2, <2>3, <2>4, <2>5, <2>6 DEF Inv
<1>2. CASE HttpStep
  <2>1. IsHttp /\ Http!Next /\ UNCHANGED streamVars /\ UNCHANGED udpVars
    BY <1>2 DEF HttpStep
  <2>2. kind' = kind /\ kind \in Kinds
    BY <2>1, HttpKind DEF Inv
  <2>3. IsHttp' /\ ~IsStream' /\ ~IsUdp' /\ ~IsStream
    BY <2>1, <2>2 DEF IsStream, IsHttp, IsUdp
  <2>4. HttpInv'
    BY <2>1, <2>2, HttpNextKeeps DEF Inv
  <2>5. UdpInv'
    BY <2>1, UdpFrame DEF Inv
  <2>6. Stream!StreamInit'
    BY <2>1, <2>3 DEF Inv, Stream!StreamInit, streamVars, Stream!NoFrame
  <2> QED BY <2>2, <2>3, <2>4, <2>5, <2>6 DEF Inv
<1>3. CASE UdpStep
  <2>1. IsUdp /\ Udp!Next /\ UNCHANGED <<stateVars, kind, op, streamVars, httpVars>>
    BY <1>3 DEF UdpStep
  <2>2. kind' = kind /\ kind \in Kinds /\ op' = op
    BY <2>1 DEF Inv
  <2>3. IsUdp' /\ ~IsStream' /\ ~IsHttp' /\ ~IsStream /\ ~IsHttp
    BY <2>1, <2>2 DEF IsStream, IsHttp, IsUdp
  <2>4. UdpInv'
    BY <2>1, UdpNextKeeps DEF Inv
  <2>5. Stream!StreamInit'
    BY <2>1, <2>3 DEF Inv, Stream!StreamInit, streamVars, Stream!NoFrame
  <2>6. Http!HttpInit'
    BY <2>1, <2>3 DEF Inv, Http!HttpInit, httpVars, Http!RequestIds, Http!NoResponse
  <2>7. StateInit' /\ op' = "start"
    BY <2>1, <2>2 DEF Inv, StateInit, stateVars
  <2> QED BY <2>2, <2>3, <2>4, <2>5, <2>6, <2>7 DEF Inv
<1>4. CASE UNCHANGED vars
  <2>1. /\ UNCHANGED <<stateVars, kind, op, streamVars>> /\ UNCHANGED <<stateVars, kind, op, httpVars>>
        /\ UNCHANGED udpVars /\ kind' = kind /\ op' = op
    BY <1>4 DEF vars
  <2>2. (IsStream' <=> IsStream) /\ (IsHttp' <=> IsHttp) /\ (IsUdp' <=> IsUdp)
    BY <2>1 DEF IsStream, IsHttp, IsUdp
  <2>3. IsStream => StreamInv'
    BY <2>1, StreamFrame DEF Inv
  <2>4. IsHttp => HttpInv'
    BY <2>1, HttpFrame DEF Inv
  <2>5. UdpInv'
    BY <2>1, UdpFrame DEF Inv
  <2>6. ~IsStream => Stream!StreamInit'
    BY <2>1 DEF Inv, Stream!StreamInit, streamVars, Stream!NoFrame
  <2>7. ~IsHttp => Http!HttpInit'
    BY <2>1 DEF Inv, Http!HttpInit, httpVars, Http!RequestIds, Http!NoResponse
  <2>8. IsUdp => StateInit' /\ op' = "start"
    BY <2>1 DEF Inv, StateInit, stateVars
  <2>9. kind' \in Kinds
    BY <2>1 DEF Inv
  <2> QED BY <2>2, <2>3, <2>4, <2>5, <2>6, <2>7, <2>8, <2>9 DEF Inv
<1> QED BY <1>1, <1>2, <1>3, <1>4 DEF Next
-----------------------------------------------------------------------------
(***************************************************************************)
(* What follows from the invariant.                                        *)
(***************************************************************************)

LEMMA InvType ==
  ASSUME Inv
  PROVE  TypeOK
<1>1. kind \in Kinds /\ (IsStream => Stream!TypeOK) /\ (IsHttp => Http!TypeOK)
  BY DEF Inv, StreamInv, HttpInv
<1>2. Udp!TypeOK
  <2>1. UdpInv
    BY DEF Inv
  <2>2. \A p \in Udp!Ids :
          /\ peer[p].endpoint \in Endpoints \cup {0}
          /\ peer[p].closed \in BOOLEAN /\ peer[p].opened \in BOOLEAN /\ peer[p].stuck \in BOOLEAN
          /\ peer[p].queue \in Seq(Udp!Datagram) /\ Len(peer[p].queue) <= MaxQueued
          /\ peer[p].bytes \in 0..MaxSendQueueBytes
          /\ peer[p].age \in 0..IdleTimeout /\ peer[p].sent \in 0..MaxSends
    <3> TAKE p \in Udp!Ids
    <3>1. peer[p] \in PeerRecord /\ Len(peer[p].queue) <= MaxQueued
      BY <2>1, UdpTypes DEF PeerOK
    <3> QED BY <3>1, PeerFields
  <2>3. Udp!Cardinality(registry) <= MaxConnections
    BY <2>1, SameCardinality DEF UdpInv
  <2> QED BY <2>1, <2>2, <2>3, UdpTypes DEF Udp!TypeOK, Sending
<1> QED BY <1>1, <1>2 DEF TypeOK

LEMMA InvBytes ==
  ASSUME Inv
  PROVE  BytesAreExact
<1>1. Stream!BytesAreExact
  <2>1. outgoing \in Seq(Stream!Frame) /\ queuedBytes = FramesTotal(kind, outgoing)
    <3>1. CASE IsStream
      BY <3>1, StreamTypes DEF Inv, StreamInv
    <3>2. CASE ~IsStream
      BY <3>2, FramesEmpty DEF Inv, Stream!StreamInit
    <3> QED BY <3>1, <3>2
  <2> QED BY <2>1, FramesTotalIs DEF Stream!BytesAreExact
<1>2. Udp!BytesAreExact
  <2> SUFFICES ASSUME NEW p \in Udp!Ids PROVE peer[p].bytes = Udp!TotalCost(peer[p].queue)
    BY DEF Udp!BytesAreExact
  <2>1. peer[p] \in PeerRecord /\ peer[p].bytes = DatagramsTotal(peer[p].queue)
    BY UdpTypes DEF Inv, PeerOK
  <2>2. peer[p].queue \in Seq(Udp!Datagram)
    BY <2>1, PeerFields
  <2> QED BY <2>1, <2>2, DatagramsTotalIs
<1> QED BY <1>1, <1>2, InvType DEF BytesAreExact

LEMMA InvStalled ==
  ASSUME Inv
  PROVE  NeverStalled
<1>1. IsStream => Stream!NeverStalled
  BY DEF Inv, StreamInv, Stream!NeverStalled, Waiting
<1>2. IsHttp => Http!NeverStalled
  BY DEF Inv, HttpInv, Http!NeverStalled
<1>3. Udp!NeverStalled
  <2>0. Udp!Live # {} => listening
    BY DEF Inv, UdpInv, TableOK, Udp!Live
  <2> SUFFICES ASSUME NEW p \in Udp!Live
               PROVE  {s.datagram : s \in {t \in sending : t.peer = p}} =
                        IF peer[p].stuck THEN {}
                        ELSE {peer[p].queue[i] : i \in 1..Len(peer[p].queue) \cap {1}}
    BY <2>0 DEF Udp!NeverStalled
  <2>1. p \in Udp!Ids /\ peer[p] \in PeerRecord /\ SendsFirst(sending, p, peer[p])
    BY UdpTypes DEF Inv, Udp!Live
  <2>2. PICK q : q = peer[p].queue
    OBVIOUS
  <2>3. q \in Seq(Udp!Datagram)
    BY <2>1, <2>2, PeerFields
  <2>4. Len(q) \in Nat /\ (q # <<>> <=> Len(q) > 0)
    BY ONLY <2>3
  <2>5. q # <<>> <=> 1 \in 1..Len(q)
    BY ONLY <2>4
  <2>6. \A s \in sending : s.peer = p => ~peer[p].stuck /\ q # <<>> /\ s.datagram = q[1]
    BY <2>1, <2>2 DEF SendsFirst
  <2>10. CASE peer[p].stuck
    <3>1. {s.datagram : s \in {t \in sending : t.peer = p}} = {}
      BY <2>6, <2>10
    <3> QED BY <2>10, <3>1
  <2> SUFFICES ASSUME ~peer[p].stuck
               PROVE  {s.datagram : s \in {t \in sending : t.peer = p}} =
                        {peer[p].queue[i] : i \in 1..Len(peer[p].queue) \cap {1}}
    BY <2>10
  <2>7. q # <<>> => [peer |-> p, datagram |-> q[1]] \in sending
    BY <2>1, <2>2 DEF SendsFirst
  <2>8. \A d : d \in {s.datagram : s \in {t \in sending : t.peer = p}} <=> q # <<>> /\ d = q[1]
    <3> TAKE d
    <3>1. ASSUME d \in {s.datagram : s \in {t \in sending : t.peer = p}}
          PROVE  q # <<>> /\ d = q[1]
      BY <3>1, <2>6
    <3>2. ASSUME q # <<>>, d = q[1]
          PROVE  d \in {s.datagram : s \in {t \in sending : t.peer = p}}
      <4>1. PICK s : s = [peer |-> p, datagram |-> q[1]]
        OBVIOUS
      <4>2. s \in sending /\ s.peer = p /\ s.datagram = d
        BY <4>1, <3>2, <2>7
      <4> QED BY <4>2
    <3> QED BY <3>1, <3>2
  <2>9. \A d : d \in {q[i] : i \in 1..Len(q) \cap {1}} <=> q # <<>> /\ d = q[1]
    BY <2>5
  <2> QED BY <2>2, <2>8, <2>9
<1> QED BY <1>1, <1>2, <1>3 DEF NeverStalled

LEMMA InvInOrder ==
  ASSUME Inv
  PROVE  InOrder
<1>1. Stream!WireInOrder
  <2>1. CASE IsStream
    BY <2>1 DEF Inv, StreamInv, Stream!WireInOrder
  <2>2. CASE ~IsStream
    <3>1. wire = <<>> /\ outgoing = <<>> /\ sends = 0
      BY <2>2 DEF Inv, Stream!StreamInit
    <3>2. Len(wire) = 0 /\ Len(outgoing) = 0
      BY <3>1
    <3> QED BY <3>1, <3>2 DEF Stream!WireInOrder
  <2> QED BY <2>1, <2>2
<1>2. Http!AnswersInOrder
  <2>1. CASE IsHttp
    <3>1. HttpInv
      BY <2>1 DEF Inv
    <3>2. ASSUME pending # 0 PROVE number[pending] = Len(answers) + 1
      <4>1. ~closed
        BY <3>1, <3>2 DEF HttpInv
      <4>2. op = "none" /\ number[pending] = taken
        BY <3>1, <3>2, <4>1, HttpNow
      <4> QED BY <3>1, <4>1, <4>2, HttpNow
    <3> QED BY <3>1, <3>2 DEF HttpInv, Http!AnswersInOrder
  <2>2. CASE ~IsHttp
    <3>1. answers = <<>> /\ pending = 0
      BY <2>2 DEF Inv, Http!HttpInit
    <3> QED BY <3>1 DEF Http!AnswersInOrder
  <2> QED BY <2>1, <2>2
<1>3. Udp!SentInOrder
  BY UdpTypes DEF Inv, Udp!SentInOrder, Udp!Live, PeerOK
<1> QED BY <1>1, <1>2, <1>3 DEF InOrder

LEMMA InvPeers ==
  ASSUME Inv
  PROVE  PeersMatchRegistry
<1>1. /\ registry = {p \in Udp!Ids : ~peer[p].closed} /\ registry \subseteq Udp!Ids
      /\ \A e \in Endpoints : peerAt[e] # 0 => peerAt[e] \in registry /\ peer[peerAt[e]].endpoint = e
      /\ \A p \in registry : peer[p].endpoint \in Endpoints /\ peerAt[peer[p].endpoint] = p
  BY DEF Inv, UdpInv, TableOK
<1>2. Udp!Live = registry
  BY <1>1 DEF Udp!Live
<1>3. 0 \notin registry
  BY <1>1, ProtocolAssumption DEF Udp!Ids
<1>4. registry = {peerAt[e] : e \in Endpoints} \ {0}
  BY <1>1, <1>3
<1> QED BY <1>1, <1>2, <1>4 DEF PeersMatchRegistry, Udp!PeersMatchRegistry

LEMMA DeadlineStep ==
  ASSUME Inv, [Next]_vars
  PROVE  [~closed /\ why' = "deadline" =>
            quiet >= IF IsHttp THEN Http!Allowed ELSE Stream!Allowed]_vars
<1> SUFFICES ASSUME Next, ~closed, why' = "deadline"
             PROVE  quiet >= IF IsHttp THEN Http!Allowed ELSE Stream!Allowed
  OBVIOUS
<1>1. CASE StreamStep
  <2>1. IsStream /\ ~IsHttp /\ StreamInv /\ Stream!Next
    BY <1>1 DEF StreamStep, Inv, IsStream, IsHttp
  <2> QED BY <2>1, StreamDeadlineIsReal
<1>2. CASE HttpStep
  <2>1. IsHttp /\ HttpInv /\ Http!Next
    BY <1>2 DEF HttpStep, Inv
  <2> QED BY <2>1, HttpDeadlineIsReal
<1>3. CASE UdpStep
  <2>1. why = "open" /\ why' = why
    BY <1>3 DEF UdpStep, Inv, StateInit, stateVars
  <2> QED BY <2>1
<1> QED BY <1>1, <1>2, <1>3 DEF Next
-----------------------------------------------------------------------------
\* Inv holds in every reachable state: the protocol served keeps the relation
\* between its flags, its queue, its timer and its history.
THEOREM Invariant == Spec => []Inv
<1>1. Init => Inv
  BY InvInit
<1>2. Inv /\ [Next]_vars => Inv'
  BY InvNext
<1> QED BY <1>1, <1>2, PTL DEF Spec

\* The state is well typed and every byte counter is what the queued frames or
\* datagrams cost together, for any mix of sizes and any order of completions,
\* failures and closes (send, write_next, complete_send, close).
THEOREM BytesStayExact == Spec => []BytesAreExact
<1>1. Inv => BytesAreExact
  BY InvBytes
<1> QED BY <1>1, Invariant, PTL

\* A live session has a read in flight and, while frames are queued, exactly
\* the write of the first; an HTTP connection waits for exactly one thing.  Of a
\* live UDP peer the first datagram is being sent, unless the error of its last
\* send could not be reported (complete_send), and the timer that evicts it is set.
THEOREM NothingStalls == Spec => []NeverStalled
<1>1. Inv => NeverStalled
  BY InvStalled
<1> QED BY <1>1, Invariant, PTL

\* Frames, HTTP answers and datagrams leave in the order of acceptance, without
\* gaps, whatever ids the application answers and whatever completes late.
THEOREM LeavesInOrder == Spec => []InOrder
<1>1. Inv => InOrder
  BY InvInOrder
<1> QED BY <1>1, Invariant, PTL

\* The UDP address table and the registry agree, also when a send of a closed
\* peer completes after another peer took its address.
THEOREM TablesAgree == Spec => []PeersMatchRegistry
<1>1. Inv => PeersMatchRegistry
  BY InvPeers
<1> QED BY <1>1, Invariant, PTL

\* An expiry handler closes a connection only if the connection made no progress
\* for all the time its phase allows (arm_deadline and its generation check).
THEOREM DeadlinesAreReal == Spec => DeadlineIsReal
<1>1. Inv /\ [Next]_vars =>
        [~closed /\ why' = "deadline" =>
           quiet >= IF IsHttp THEN Http!Allowed ELSE Stream!Allowed]_vars
  BY DeadlineStep
<1> QED BY <1>1, Invariant, PTL DEF Spec, DeadlineIsReal
=============================================================================
