--------------------------- MODULE TcpServerProofs ---------------------------
(***************************************************************************)
(* Proofs about the two line backends, for any number of clients, workers, *)
(* sends and bytes and any way the streams are cut into reads: messages    *)
(* are the lines of the stream, writes stay whole, callbacks come in order *)
(* and stop() leaves nothing behind.                                       *)
(***************************************************************************)
EXTENDS TcpServer, FiniteSetTheorems, SequenceTheorems, WellFoundedInduction, TLAPS

-----------------------------------------------------------------------------
(***************************************************************************)
(* What both backends keep.                                                *)
(***************************************************************************)
Byte == {"x", LF, CR}
Framer == [pending : Seq(Byte), consumed : Nat, lineBytes : Nat, failed : BOOLEAN]

\* Of the first r bytes of the stream s the last n belong to no line yet, and
\* no line is over the limit.
LineCount(s, r, n, max) ==
  /\ n \in 0..r
  /\ r = n \/ s[r - n] = LF
  /\ \A k \in (r - n + 1)..r : s[k] # LF
  /\ \A i \in 0..r : \A j \in i..r : (\A k \in (i + 1)..j : s[k] # LF) => j - i <= max

\* The framer of a connection that has received r bytes of s holds the last of
\* them, and counts right, unless it has failed.
FramerOK(f, s, r, max) ==
  /\ f \in Framer
  /\ ~f.failed =>
       /\ Len(f.pending) <= r /\ f.consumed <= Len(f.pending)
       /\ \A i \in 1..Len(f.pending) : f.pending[i] = s[r - Len(f.pending) + i]
       /\ LineCount(s, r, f.lineBytes, max)

\* n lines of s end at or before e, the last of them right there.
LinesEndAt(s, n, e) ==
  /\ e = 0 \/ s[e] = LF
  /\ Cardinality({j \in 1..e : s[j] = LF}) = n

\* Where in the stream the next line to pop begins.
Place(f, r) == r - Len(f.pending) + f.consumed

\* Every line popped was delivered, until the IOCP backend drops one, after
\* which it delivers none.
Delivers(c) == IsThreaded \/ ((running \/ stopper = "configured") /\ ~closing[c])

InputAt(c) ==
  /\ read[c] \in 0..Len(Input(c))
  /\ FramerOK(framer[c], Input(c), read[c], MaxMessageBytes)
  /\ AreLinesOf(lines[c], Input(c), MaxMessageBytes)
  /\ Delivers(c) /\ ~framer[c].failed =>
       LinesEndAt(Input(c), Len(lines[c]), Place(framer[c], read[c]))

InputInv ==
  /\ framer \in [Clients -> Framer] /\ read \in [Clients -> Nat]
  /\ lines \in [Clients -> Seq(Seq(Byte))]
  /\ \A c \in Clients : InputAt(c)

\* The pieces of a sequence of writes pair up, as WritesStayWhole says.
Whole(w) ==
  \A i \in DOMAIN w :
    w[i] # End =>
      IF i % 2 = 1 THEN w[i].piece = 1 ELSE w[i] = PieceOf(w[i - 1].message, 2)
Complete(w) == Len(w) % 2 = 0
HalfOf(w, m) == Len(w) % 2 = 1 /\ w[Len(w)] = PieceOf(m, 1)
-----------------------------------------------------------------------------
(***************************************************************************)
(* The threaded backend.                                                   *)
(***************************************************************************)
Ended == {"none", "finished", "joined"}

OwnerT ==
  /\ running <=> stopper = "idle"
  /\ stopper = "configured" => acceptor.at = "none"
  /\ stopper \in {"joinClients", "returned"} => acceptor.at \in {"none", "exited"}
  /\ stopper \notin {"idle", "swap"} => registered = {}
  /\ snapshot # {} => stopper = "disconnect"
  /\ stopper = "returned" => \A c \in Clients : thread[c] \in Ended

AcceptT ==
  /\ acceptor.at \in {"none", "wait", "exited"} => acceptor.client = 0
  /\ acceptor.at \in {"accepting", "register", "connected", "notify", "telling"} =>
       acceptor.client \in 1..lastId
  /\ acceptor.at \notin {"publish", "leave", "receive"}
  /\ acceptor.at = "none" => lastId = 0

\* The accept thread is at one of these places with this client.
Accepts(where, c) == acceptor.at \in where /\ acceptor.client = c

\* What the runtime hears of a client follows from where its thread, or the
\* accept thread on its behalf, is; who is told about is in the table or on the
\* way to be closed.
ClientT(c) ==
  /\ acceptor.client = c => thread[c] = "none"
  /\ callback[c] = IF Accepts({"connected"}, c) THEN "connected"
                   ELSE IF thread[c] = "message" THEN "message"
                   ELSE IF thread[c] = "telling" \/ Accepts({"telling"}, c) THEN "disconnected"
                   ELSE "none"
  /\ thread[c] \in {"receive", "pop", "message", "leaving", "notify"}
       \/ Accepts({"connected", "notify"}, c) => feed[c] = "connected"
  /\ thread[c] \in {"telling", "finished", "joined"} \/ Accepts({"telling"}, c) =>
       feed[c] = "disconnected"
  /\ thread[c] = "none" /\ acceptor.client # c => feed[c] # "connected"
  /\ c > lastId \/ Accepts({"accepting", "register"}, c) => thread[c] = "none" /\ feed[c] = "new"
  /\ c \in registered =>
       thread[c] \in {"receive", "pop", "message", "leaving"} \/ Accepts({"connected"}, c)
  /\ feed[c] # "new" => c \in registered \cup snapshot \cup dropping \/ closing[c]

\* The send mutex has at most one owner, who is writing.
Writing(a, c) == sender[a].client = c /\ sender[a].at \in {"write1", "write2"}
SenderT(a) ==
  \/ sender[a] = Threaded!Idle
  \/ /\ sender[a].at \in {"lock", "write1", "write2"}
     /\ sender[a].client \in Clients /\ sender[a].message \in Messages
WireT(c) ==
  /\ Whole(wire[c])
  /\ \A a \in Threaded!Callers :
       /\ Writing(a, c) <=> a \in sendLock[c]
       /\ Writing(a, c) => sendLock[c] = {a}
  /\ Writable(c) =>
       /\ \A a \in Threaded!Callers :
            sender[a].client = c /\ sender[a].at = "write2" => HalfOf(wire[c], sender[a].message)
       /\ (\A a \in Threaded!Callers : ~(sender[a].client = c /\ sender[a].at = "write2")) =>
            Complete(wire[c])

ThreadedInv ==
  /\ Threaded!TypeOK
  /\ OwnerT /\ AcceptT
  /\ \A c \in Clients : ClientT(c) /\ WireT(c)
  /\ \A a \in Threaded!Callers : SenderT(a)
-----------------------------------------------------------------------------
(***************************************************************************)
(* The IOCP backend.                                                       *)
(***************************************************************************)
Gone == {"none", "exited"}

OwnerI ==
  /\ running <=> stopper \in {"idle", "failed"}
  /\ stopper = "configured" =>
       acceptor.at = "none" /\ monitor = "none" /\ \A w \in Workers : worker[w].at = "none"
  /\ stopper \in {"joinMonitor", "close", "drain", "wake", "joinWorkers", "returned"} =>
       acceptor.at \in Gone
  /\ stopper \in {"close", "drain", "wake", "joinWorkers", "returned"} => monitor \in Gone
  /\ stopper \in {"drain", "wake", "joinWorkers", "returned"} => registered = {}
  /\ stopper \in {"wake", "joinWorkers", "returned"} =>
       /\ receiveOp = {} /\ \A c \in Clients : sendOp[c] = Iocp!NoSend
       /\ \A w \in Workers : ~Iocp!Holds(w)
  /\ stopper = "returned" => \A w \in Workers : worker[w].at \in Gone

AcceptI ==
  /\ acceptor.at \in {"none", "wait", "exited"} => acceptor.client = 0
  /\ acceptor.at \in {"accepting", "register", "publish", "connected", "leave", "receive"} =>
       acceptor.client \in 1..lastId
  /\ acceptor.at \notin {"notify", "telling"}
  /\ acceptor.at = "none" => lastId = 0
  /\ acceptor.at = "publish" => Cardinality(registered) < MaxConnections

\* Where an actor has no disconnect of its own under way.
Quiet(a) == ending[a].at = "none"
FreeI ==
  /\ acceptor.at \notin {"wait", "receive"} => Quiet("accept")
  /\ monitor # "scan" => Quiet("monitor")
  /\ stopper # "close" => Quiet("stop")
  /\ app.at # "idle" => Quiet("app")
  /\ \A w \in Workers : worker[w].at \notin {"wait", "release", "leave", "post"} => Quiet(w)
  /\ \A a \in Iocp!Actors :
       IF Quiet(a) THEN ending[a].client = 0 ELSE ending[a].client \in Clients

WorkerI(w) ==
  /\ IF worker[w].at \in {"none", "wait", "exited"} THEN worker[w].client = 0
     ELSE worker[w].client \in Clients /\ feed[worker[w].client] # "new"
  /\ worker[w].at = "sent" => worker[w].op.message \in Messages /\ worker[w].op.written \in {1, 2}

AppI ==
  app.at # "idle" =>
    app.client \in Clients /\ app.message \in Messages /\ feed[app.client] # "new"

\* Receiving is the turn of one: the kernel, the accept thread or a worker.
Receives(w, c) ==
  /\ worker[w].client = c
  /\ worker[w].at \in {"begin", "pop", "message", "overflow", "leave", "post"}
TurnI(c) ==
  /\ Accepts({"connected", "leave", "receive"}, c) =>
       feed[c] # "new" /\ c \notin receiveOp /\ \A w \in Workers : ~Receives(w, c)
  /\ c \in receiveOp => feed[c] # "new" /\ \A w \in Workers : ~Receives(w, c)
  /\ \A w, v \in Workers : Receives(w, c) /\ Receives(v, c) => w = v

\* Whose turn it is may be in the callback scope; a callback runs inside it,
\* or tells the end after it.
Scoped(w, c) ==
  worker[w].client = c /\ worker[w].at \in {"pop", "message", "overflow", "leave"}
Says(w, c) == worker[w].client = c /\ worker[w].at = "message"
InScope(c) == Accepts({"connected", "leave"}, c) \/ \E w \in Workers : Scoped(w, c)
Tells(a, c) == ending[a].client = c /\ ending[a].at = "telling"
Asks(a, c) == ending[a].client = c /\ ending[a].at = "ask"
ScopeI(c) ==
  /\ active[c] = IF InScope(c) THEN 1 ELSE 0
  /\ InScope(c) => feed[c] = "connected"
  /\ deferred[c] => InScope(c)
  /\ callback[c] = IF Accepts({"connected"}, c) THEN "connected"
                   ELSE IF \E w \in Workers : Says(w, c) THEN "message"
                   ELSE IF \E a \in Iocp!Actors : Tells(a, c) THEN "disconnected"
                   ELSE "none"

\* The end of a connection is told by one: it is in the registry, or who took
\* it out will ask, or left it to the callback, or has told it.
TokenI(c) ==
  /\ c > lastId \/ Accepts({"accepting", "register", "publish"}, c) => feed[c] = "new"
  /\ feed[c] = "new" => ~closing[c]
  /\ feed[c] # "new" => c \in registered \/ closing[c]
  /\ c \in registered => feed[c] = "connected" /\ ~closing[c]
  /\ c \in registered \/ deferred[c] => \A a \in Iocp!Actors : ~Asks(a, c)
  /\ c \in registered => ~deferred[c]
  /\ feed[c] = "connected" => c \in registered \/ deferred[c] \/ \E a \in Iocp!Actors : Asks(a, c)
  /\ \A a \in Iocp!Actors :
       /\ Asks(a, c) => feed[c] = "connected"
       /\ Tells(a, c) => feed[c] = "disconnected"
       /\ \A b \in Iocp!Actors : (Asks(a, c) /\ Asks(b, c)) \/ (Tells(a, c) /\ Tells(b, c)) => a = b

\* At most one send of a connection is under way, and the wire shows how far.
Sends(w, c) == worker[w].client = c /\ worker[w].at = "sent"
SoFar(w, op) ==
  /\ op.written \in {0, 2} => Complete(w)
  /\ op.written = 1 => HalfOf(w, op.message)
WireI(c) ==
  /\ Whole(wire[c])
  /\ sendOp[c] # Iocp!NoSend =>
       feed[c] # "new" /\ sendOp[c].message \in Messages /\ sendOp[c].written \in {0, 1}
  /\ Writable(c) =>
       /\ ~sendBusy[c] =>
            Complete(wire[c]) /\ sendOp[c] = Iocp!NoSend /\ \A w \in Workers : ~Sends(w, c)
       /\ sendOp[c] # Iocp!NoSend => SoFar(wire[c], sendOp[c]) /\ \A w \in Workers : ~Sends(w, c)
       /\ \A w \in Workers :
            Sends(w, c) =>
              SoFar(wire[c], worker[w].op) /\ \A v \in Workers : Sends(v, c) => v = w

IocpInv ==
  /\ Iocp!TypeOK
  /\ OwnerI /\ AcceptI /\ FreeI /\ AppI
  /\ \A w \in Workers : WorkerI(w)
  /\ \A c \in Clients : TurnI(c) /\ ScopeI(c) /\ TokenI(c) /\ WireI(c)

Inv == InputInv /\ IF IsThreaded THEN ThreadedInv ELSE IocpInv
-----------------------------------------------------------------------------
(***************************************************************************)
(* The framer.                                                             *)
(***************************************************************************)

\* A set of numbers that is not empty has a least element.
LEMMA Least ==
  ASSUME NEW T, T \subseteq Nat, T # {}
  PROVE  \E x \in T : \A y \in T : x <= y
<1> DEFINE R == OpToRel(<, Nat)
<1>1. IsWellFoundedOn(R, Nat)
  BY NatLessThanWellFounded
<1>2. PICK x \in T : \A y \in T : ~(<<y, x>> \in R)
  <2> HIDE DEF R
  <2> QED BY <1>1, WFMin
<1>3. \A y \in T : y \in Nat /\ x \in Nat /\ ~(y < x)
  BY <1>2 DEF OpToRel
<1> QED BY <1>3

\* The loop of append, as a function of the bytes it has seen.
NextCount(line, byte, max) == IF line.failed THEN line ELSE Count(max, byte, line)
Counts(f, line, bytes, max, n) ==
  f = [i \in 0..n |-> IF i = 0 THEN line ELSE NextCount(f[i - 1], bytes[i], max)]

\* There is such a function: extend the one for n - 1 by one place.
LEMMA CountsExist ==
  ASSUME NEW n \in Nat, NEW line, NEW bytes, NEW max
  PROVE  \E f : Counts(f, line, bytes, max, n)
<1> DEFINE T == {m \in 0..n : ~\E f : Counts(f, line, bytes, max, m)}
<1>1. SUFFICES ASSUME T # {} PROVE FALSE
  OBVIOUS
<1>2. PICK m \in T : \A y \in T : m <= y
  <2>1. T \subseteq Nat
    OBVIOUS
  <2> HIDE DEF T
  <2> QED BY <2>1, <1>1, Least
<1>3. m # 0
  <2> SUFFICES ASSUME m = 0 PROVE FALSE
    OBVIOUS
  <2> DEFINE f == [i \in 0..0 |-> line]
  <2>1. Counts(f, line, bytes, max, m)
    BY DEF Counts
  <2> QED BY <2>1, <1>2
<1>4. m - 1 \in 0..n /\ m \in 1..n /\ m - 1 \notin T
  BY <1>2, <1>3
<1>5. PICK f : Counts(f, line, bytes, max, m - 1)
  BY <1>4
<1> DEFINE g == [i \in 0..m |-> IF i = m THEN NextCount(f[m - 1], bytes[m], max) ELSE f[i]]
<1>7. ASSUME NEW i \in 0..m
      PROVE  g[i] = IF i = 0 THEN line ELSE NextCount(g[i - 1], bytes[i], max)
  <2>1. CASE i = m
    BY <2>1, <1>4
  <2>2. CASE i # m /\ i # 0
    <3>1. i \in 0..(m - 1) /\ i - 1 \in 0..(m - 1)
      BY <2>2, <1>4
    <3>2. f[i] = NextCount(f[i - 1], bytes[i], max)
      BY <2>2, <3>1, <1>5 DEF Counts
    <3> QED BY <2>2, <3>1, <3>2, <1>4
  <2>3. CASE i = 0
    <3>1. 0 \in 0..(m - 1) /\ 0 # m
      BY <1>4
    <3>2. f[0] = line
      BY <3>1, <1>5 DEF Counts
    <3> QED BY <2>3, <3>1, <3>2, <1>4
  <2> QED BY <2>1, <2>2, <2>3
<1>8. Counts(g, line, bytes, max, m)
  <2>1. g = [i \in 0..m |-> g[i]]
    OBVIOUS
  <2> HIDE DEF g
  <2> QED BY <2>1, <1>7 DEF Counts
<1> QED BY <1>2, <1>8

\* So CountAll is the last value of one.
LEMMA CountAllIs ==
  ASSUME NEW line, NEW max, NEW bytes \in Seq(Byte)
  PROVE  \E f : Counts(f, line, bytes, max, Len(bytes)) /\ CountAll(line, bytes, max) = f[Len(bytes)]
<1> DEFINE f == CHOOSE f : Counts(f, line, bytes, max, Len(bytes))
<1>1. Counts(f, line, bytes, max, Len(bytes))
  <2>1. Len(bytes) \in Nat
    OBVIOUS
  <2> QED BY <2>1, CountsExist
<1>2. CountAll(line, bytes, max) = f[Len(bytes)]
  BY DEF CountAll, Counts, NextCount
<1> QED BY <1>1, <1>2

\* One byte more keeps the count right, or fails.
LEMMA CountStep ==
  ASSUME NEW s, NEW r \in Nat, NEW max \in Nat, NEW line \in [bytes : Nat, failed : BOOLEAN],
         ~line.failed, LineCount(s, r, line.bytes, max)
  PROVE  LET next == Count(max, s[r + 1], line) IN
           /\ next \in [bytes : Nat, failed : BOOLEAN]
           /\ ~next.failed => LineCount(s, r + 1, next.bytes, max)
<1>0. line.bytes \in 0..r
  BY DEF LineCount
<1>1. CASE s[r + 1] = LF
  <2>1. Count(max, s[r + 1], line) = [line EXCEPT !.bytes = 0]
    BY <1>1 DEF Count
  <2>2. ASSUME NEW i \in 0..(r + 1), NEW j \in i..(r + 1), \A k \in (i + 1)..j : s[k] # LF
        PROVE  j - i <= max
    <3>1. CASE j = r + 1
      <4>1. i = j
        BY <1>1, <2>2, <3>1
      <4> QED BY <4>1
    <3>2. CASE j # r + 1
      BY <2>2, <3>2 DEF LineCount
    <3> QED BY <3>1, <3>2
  <2>3. LineCount(s, r + 1, 0, max)
    BY <1>1, <2>2 DEF LineCount
  <2> QED BY <2>1, <2>3
<1>2. CASE s[r + 1] # LF /\ line.bytes = max
  BY <1>2 DEF Count
<1>3. CASE s[r + 1] # LF /\ line.bytes # max
  <2>1. Count(max, s[r + 1], line) = [line EXCEPT !.bytes = line.bytes + 1]
    BY <1>3 DEF Count
  <2>2. line.bytes < max
    <3>1. r - line.bytes \in 0..r /\ r \in (r - line.bytes)..r
      BY <1>0
    <3>2. r - (r - line.bytes) <= max
      BY <3>1 DEF LineCount
    <3> QED BY <3>2, <1>0, <1>3
  <2>3. ASSUME NEW i \in 0..(r + 1), NEW j \in i..(r + 1), \A k \in (i + 1)..j : s[k] # LF
        PROVE  j - i <= max
    <3>1. CASE j = r + 1
      <4>1. i >= r - line.bytes
        <5> SUFFICES ASSUME i < r - line.bytes PROVE FALSE
          BY <1>0
        <5>1. r - line.bytes \in (i + 1)..j /\ r # line.bytes
          BY <3>1, <1>0
        <5> QED BY <5>1, <2>3 DEF LineCount
      <4> QED BY <4>1, <3>1, <2>2, <1>0
    <3>2. CASE j # r + 1
      BY <2>3, <3>2 DEF LineCount
    <3> QED BY <3>1, <3>2
  <2>4. LineCount(s, r + 1, line.bytes + 1, max)
    <3>1. line.bytes + 1 \in 0..(r + 1) /\ (r + 1) - (line.bytes + 1) = r - line.bytes
      BY <1>0
    <3>2. r + 1 = line.bytes + 1 \/ s[r - line.bytes] = LF
      BY <1>0 DEF LineCount
    <3>3. ASSUME NEW k \in (r - line.bytes + 1)..(r + 1) PROVE s[k] # LF
      <4>1. k = r + 1 \/ k \in (r - line.bytes + 1)..r
        BY <1>0
      <4> QED BY <4>1, <1>3 DEF LineCount
    <3> QED BY <3>1, <3>2, <3>3, <2>3 DEF LineCount
  <2> QED BY <2>1, <2>4, <1>0
<1> QED BY <1>1, <1>2, <1>3

\* The loop keeps the count right for the whole read, or fails.
LEMMA CountAllKeeps ==
  ASSUME NEW s, NEW r \in Nat, NEW max \in Nat, NEW line \in [bytes : Nat, failed : BOOLEAN],
         NEW bytes \in Seq(Byte), \A i \in 1..Len(bytes) : bytes[i] = s[r + i],
         ~line.failed => LineCount(s, r, line.bytes, max)
  PROVE  /\ CountAll(line, bytes, max) \in [bytes : Nat, failed : BOOLEAN]
         /\ line.failed => CountAll(line, bytes, max).failed
         /\ ~CountAll(line, bytes, max).failed =>
              LineCount(s, r + Len(bytes), CountAll(line, bytes, max).bytes, max)
<1>1. PICK g : Counts(g, line, bytes, max, Len(bytes)) /\ CountAll(line, bytes, max) = g[Len(bytes)]
  BY CountAllIs
<1> DEFINE n == Len(bytes)
           Good(i) == /\ g[i] \in [bytes : Nat, failed : BOOLEAN]
                      /\ line.failed => g[i].failed
                      /\ ~g[i].failed => LineCount(s, r + i, g[i].bytes, max)
           T == {i \in 0..n : ~Good(i)}
<1>2. n \in Nat
  OBVIOUS
<1>3. SUFFICES ASSUME T # {} PROVE FALSE
  BY <1>1, <1>2
<1>4. PICK m \in T : \A y \in T : m <= y
  <2>1. T \subseteq Nat
    OBVIOUS
  <2> HIDE DEF T
  <2> QED BY <2>1, <1>3, Least
<1>5. Good(0)
  BY <1>1, <1>2 DEF Counts
<1>6. m # 0 /\ m \in 0..n
  BY <1>4, <1>5
<1>7. m - 1 \in 0..n /\ m \in 1..n /\ r + m = (r + (m - 1)) + 1 /\ r + (m - 1) \in Nat
  BY <1>6, <1>2
<1>8. Good(m - 1)
  BY <1>4, <1>7
<1>9. g[m] = NextCount(g[m - 1], bytes[m], max)
  BY <1>1, <1>6, <1>7 DEF Counts
<1>10. bytes[m] = s[(r + (m - 1)) + 1]
  BY <1>7
<1>11. CASE g[m - 1].failed
  BY <1>4, <1>8, <1>9, <1>11 DEF NextCount
<1>12. CASE ~g[m - 1].failed
  <2>1. PICK q \in [bytes : Nat, failed : BOOLEAN], p \in Nat : q = g[m - 1] /\ p = r + (m - 1)
    BY <1>7, <1>8
  <2>2. /\ Count(max, s[p + 1], q) \in [bytes : Nat, failed : BOOLEAN]
        /\ ~Count(max, s[p + 1], q).failed => LineCount(s, p + 1, Count(max, s[p + 1], q).bytes, max)
    <3>1. ~q.failed /\ LineCount(s, p, q.bytes, max)
      BY <1>8, <1>12, <2>1
    <3> QED BY <3>1, CountStep
  <2>3. g[m] = Count(max, s[p + 1], q)
    BY <1>9, <1>10, <1>12, <2>1 DEF NextCount
  <2>4. ~line.failed
    BY <1>8, <1>12
  <2>5. Good(m)
    <3>1. p + 1 = r + m
      BY <2>1, <1>7
    <3> QED BY <2>2, <2>3, <2>4, <3>1
  <2> QED BY <2>5, <1>4
<1> QED BY <1>11, <1>12

\* A read that is taken leaves the framer with the right bytes and the next
\* line where it was.
LEMMA AppendKeeps ==
  ASSUME NEW s \in Seq(Byte), NEW r \in Nat, NEW max \in Nat, NEW f, FramerOK(f, s, r, max),
         NEW k \in Nat, r + k <= Len(s)
  PROVE  LET g == append(f, SubSeq(s, r + 1, r + k), max) IN
           /\ FramerOK(g, s, r + k, max)
           /\ ~g.failed => ~f.failed /\ Place(g, r + k) = Place(f, r)
<1>1. PICK bytes \in Seq(Byte) : bytes = SubSeq(s, r + 1, r + k) /\ Len(bytes) = k
                                 /\ \A i \in 1..k : bytes[i] = s[r + i]
  <2>1. r + k \in 0..Len(s) /\ r + 1 \in 1..(Len(s) + 1) /\ Len(s) \in Nat
    OBVIOUS
  <2>2. SubSeq(s, r + 1, r + k) \in Seq(Byte)
    BY <2>1
  <2>3. Len(SubSeq(s, r + 1, r + k)) = k
    BY <2>1
  <2>4. \A i \in 1..k : SubSeq(s, r + 1, r + k)[i] = s[r + i]
    BY <2>1
  <2> QED BY <2>2, <2>3, <2>4
<1>2. f \in Framer
  BY DEF FramerOK
<1> DEFINE line == [bytes |-> f.lineBytes, failed |-> f.failed]
           all == CountAll(line, bytes, max)
           g == append(f, bytes, max)
<1>3. line \in [bytes : Nat, failed : BOOLEAN] /\ (~line.failed => LineCount(s, r, line.bytes, max))
  BY <1>2 DEF Framer, FramerOK
<1>4. /\ all \in [bytes : Nat, failed : BOOLEAN]
      /\ f.failed => all.failed
      /\ ~all.failed => LineCount(s, r + k, all.bytes, max)
  <2>1. line.failed = f.failed
    OBVIOUS
  <2>2. \A i \in 1..Len(bytes) : bytes[i] = s[r + i]
    BY <1>1
  <2> HIDE DEF line
  <2>3. /\ CountAll(line, bytes, max) \in [bytes : Nat, failed : BOOLEAN]
        /\ line.failed => CountAll(line, bytes, max).failed
        /\ ~CountAll(line, bytes, max).failed =>
             LineCount(s, r + Len(bytes), CountAll(line, bytes, max).bytes, max)
    BY <1>3, <2>2, CountAllKeeps
  <2> QED BY <1>1, <2>1, <2>3
<1>5. CASE all.failed
  <2>1. g = [f EXCEPT !.failed = TRUE, !.lineBytes = all.bytes]
    BY <1>5 DEF append
  <2>2. g \in Framer /\ g.failed
    <3> HIDE DEF all
    <3> QED BY <2>1, <1>2, <1>4 DEF Framer
  <2> QED BY <2>2, <1>1 DEF FramerOK
<1>6. CASE ~all.failed
  <2> DEFINE rest == SubSeq(f.pending, f.consumed + 1, Len(f.pending))
  <2>1. g = [pending |-> rest \o bytes, consumed |-> 0, lineBytes |-> all.bytes, failed |-> FALSE]
    BY <1>6 DEF append
  <2>2. PICK pending \in Seq(Byte), consumed \in Nat, n \in Nat :
          /\ pending = f.pending /\ consumed = f.consumed /\ n = Len(pending)
          /\ n <= r /\ consumed <= n
          /\ \A i \in 1..n : pending[i] = s[r - n + i]
    BY <1>2, <1>4, <1>6 DEF FramerOK, Framer
  <2>0. n <= r /\ consumed <= n
    BY <2>2
  <2>3. /\ rest \in Seq(Byte) /\ Len(rest) = n - consumed
        /\ \A i \in 1..(n - consumed) : rest[i] = pending[consumed + i]
    <3>1. rest = SubSeq(pending, consumed + 1, n) /\ n = Len(pending)
      BY <2>2
    <3> HIDE DEF rest
    <3>2. rest \in Seq(Byte)
      BY <3>1, <2>0
    <3>3. Len(rest) = n - consumed
      BY <3>1, <2>0
    <3>4. \A i \in 1..(n - consumed) : rest[i] = pending[consumed + i]
      BY <3>1, <2>0
    <3> QED BY <3>2, <3>3, <3>4
  <2> HIDE DEF rest, all
  <2>4. /\ rest \o bytes \in Seq(Byte) /\ Len(rest \o bytes) = (n - consumed) + k
        /\ \A i \in 1..((n - consumed) + k) :
             (rest \o bytes)[i] = IF i <= n - consumed THEN rest[i] ELSE bytes[i - (n - consumed)]
    <3>1. PICK d \in Nat : d = n - consumed
      BY <2>0
    <3>2. Len(rest) = d /\ Len(bytes) = k /\ rest \in Seq(Byte)
      BY <3>1, <2>3, <1>1
    <3>3. rest \o bytes \in Seq(Byte) /\ Len(rest \o bytes) = d + k
      BY <3>2, ConcatProperties
    <3>4. \A i \in 1..(d + k) : (rest \o bytes)[i] = IF i <= d THEN rest[i] ELSE bytes[i - d]
      BY <3>2, ConcatProperties
    <3> QED BY <3>1, <3>3, <3>4
  <2>5. ASSUME NEW i \in 1..((n - consumed) + k)
        PROVE  (rest \o bytes)[i] = s[(r + k) - ((n - consumed) + k) + i]
    <3>0. (r + k) - ((n - consumed) + k) + i = r - n + (consumed + i)
      BY <2>0
    <3>1. CASE i <= n - consumed
      <4>1. i \in 1..(n - consumed) /\ consumed + i \in 1..n
        BY <3>1, <2>0
      <4>2. rest[i] = pending[consumed + i] /\ pending[consumed + i] = s[r - n + (consumed + i)]
        BY <4>1, <2>2, <2>3
      <4>3. (rest \o bytes)[i] = rest[i]
        BY <3>1, <2>4
      <4> QED BY <3>0, <4>2, <4>3
    <3>2. CASE ~(i <= n - consumed)
      <4>1. i - (n - consumed) \in 1..k /\ r + (i - (n - consumed)) = r - n + (consumed + i)
        BY <3>2, <2>0
      <4>2. bytes[i - (n - consumed)] = s[r + (i - (n - consumed))]
        BY <4>1, <1>1
      <4>3. (rest \o bytes)[i] = bytes[i - (n - consumed)]
        BY <3>2, <2>4
      <4> QED BY <3>0, <4>1, <4>2, <4>3
    <3> QED BY <3>1, <3>2
  <2>6. PICK p \in Seq(Byte) : p = rest \o bytes
    BY <2>4
  <2>7. /\ g.pending = p /\ g.consumed = 0 /\ g.lineBytes = all.bytes /\ g.failed = FALSE
        /\ g \in Framer
    BY <2>1, <2>6, <1>4 DEF Framer
  <2>8. Len(p) = (n - consumed) + k /\ \A i \in 1..Len(p) : p[i] = s[(r + k) - Len(p) + i]
    BY <2>4, <2>5, <2>6
  <2> HIDE DEF g
  <2>9. FramerOK(g, s, r + k, max)
    BY <2>2, <2>7, <2>8, <1>4, <1>6 DEF FramerOK
  <2>10. Place(g, r + k) = Place(f, r)
    <3>1. Place(g, r + k) = (r + k) - ((n - consumed) + k) + 0
      BY <2>7, <2>8 DEF Place
    <3>2. Place(f, r) = r - n + consumed
      BY <2>2 DEF Place
    <3> QED BY <2>0, <3>1, <3>2
  <2> QED BY <2>9, <2>10, <1>1, <1>4, <1>6 DEF g
<1> QED BY <1>5, <1>6

\* The line ends among the first e bytes.
Ends(s, e) == {j \in 1..e : s[j] = LF}

LEMMA EndsFinite ==
  ASSUME NEW s, NEW e \in Nat
  PROVE  IsFiniteSet(Ends(s, e)) /\ Cardinality(Ends(s, e)) \in Nat
<1>1. IsFiniteSet(1..e)
  BY FS_Interval
<1>2. Ends(s, e) \subseteq 1..e
  BY DEF Ends
<1> QED BY <1>1, <1>2, FS_Subset, FS_CardinalityType

LEMMA EndsGrow ==
  ASSUME NEW s, NEW e \in Nat, NEW i \in Nat, i < e, s[e] = LF
  PROVE  Cardinality(Ends(s, i)) < Cardinality(Ends(s, e))
<1>1. Ends(s, i) \subseteq Ends(s, e) /\ e \in Ends(s, e) /\ e \notin Ends(s, i)
  BY DEF Ends
<1>2. Ends(s, i) # Ends(s, e)
  BY <1>1
<1> QED BY <1>1, <1>2, EndsFinite, FS_Subset

LEMMA LineEndIs ==
  ASSUME NEW s \in Seq(Byte), NEW n, NEW e \in 0..Len(s), LinesEndAt(s, n, e)
  PROVE  LineEnd(s, n) = e
<1>1. Cardinality(Ends(s, e)) = n /\ (e = 0 \/ s[e] = LF)
  BY DEF LinesEndAt, Ends
<1>2. Ends(s, 0) = {} /\ Cardinality({}) = 0
  BY FS_EmptySet DEF Ends
<1>3. CASE e = 0
  BY <1>1, <1>2, <1>3 DEF LineEnd
<1>4. CASE e # 0
  <2>1. e \in Nat /\ 0 < e /\ s[e] = LF /\ e \in DOMAIN s
    BY <1>1, <1>4
  <2>2. n # 0
    <3>1. Cardinality(Ends(s, 0)) < Cardinality(Ends(s, e))
      BY <2>1, EndsGrow
    <3>2. Cardinality(Ends(s, 0)) = 0
      BY <1>2
    <3>3. Cardinality(Ends(s, e)) \in Nat
      BY <2>1, EndsFinite
    <3> QED BY ONLY <3>1, <3>2, <3>3, <1>1
  <2> DEFINE i == CHOOSE i \in DOMAIN s : s[i] = LF /\ Cardinality({j \in 1..i : s[j] = LF}) = n
  <2>3. LineEnd(s, n) = i
    BY <2>2 DEF LineEnd
  <2>4. i \in DOMAIN s /\ s[i] = LF /\ Cardinality({j \in 1..i : s[j] = LF}) = n
    <3>1. e \in DOMAIN s /\ s[e] = LF /\ Cardinality({j \in 1..e : s[j] = LF}) = n
      BY <2>1, <1>1 DEF Ends
    <3> QED BY <3>1
  <2>5. i \in Nat /\ s[i] = LF /\ Cardinality(Ends(s, i)) = n
    BY <2>4 DEF Ends
  <2> HIDE DEF i
  <2>6. n \in Nat
    BY <1>1, <2>1, EndsFinite
  <2>7. ~(i < e)
    BY <2>1, <2>5, <2>6, <1>1, EndsGrow
  <2>8. ~(e < i)
    BY <2>1, <2>5, <2>6, <1>1, EndsGrow
  <2> QED BY <2>1, <2>3, <2>5, <2>7, <2>8
<1> QED BY <1>3, <1>4

\* The next line end after one is the end of the next line.
LEMMA NextEnd ==
  ASSUME NEW s, NEW n, NEW e \in Nat, NEW p \in Nat, LinesEndAt(s, n, e), e < p, s[p] = LF,
         \A j \in (e + 1)..(p - 1) : s[j] # LF
  PROVE  LinesEndAt(s, n + 1, p)
<1>1. Ends(s, p) = Ends(s, e) \cup {p} /\ p \notin Ends(s, e)
  <2>1. ASSUME NEW j \in Ends(s, p) PROVE j \in Ends(s, e) \cup {p}
    <3>1. j \in 1..p /\ s[j] = LF /\ (j \in 1..e \/ j \in (e + 1)..(p - 1) \/ j = p)
      BY DEF Ends
    <3> QED BY <3>1 DEF Ends
  <2>2. \A j \in Ends(s, e) : j \in Ends(s, p) /\ j # p
    BY DEF Ends
  <2>3. p \in Ends(s, p)
    BY DEF Ends
  <2> QED BY <2>1, <2>2, <2>3
<1>2. Cardinality(Ends(s, p)) = Cardinality(Ends(s, e)) + 1
  BY <1>1, EndsFinite, FS_AddElement
<1> QED BY <1>2 DEF LinesEndAt, Ends

LEMMA StripType ==
  ASSUME NEW line \in Seq(Byte)
  PROVE  StripCR(line) \in Seq(Byte)
<1>1. CASE line # <<>>
  <2>1. Len(line) - 1 \in 0..Len(line) /\ Len(line) \in Nat
    BY <1>1
  <2>2. SubSeq(line, 1, Len(line) - 1) \in Seq(Byte)
    BY <2>1
  <2> QED BY <2>2 DEF StripCR
<1>2. CASE line = <<>>
  BY <1>2 DEF StripCR
<1> QED BY <1>1, <1>2

LEMMA PoppedOK ==
  ASSUME NEW s \in Seq(Byte), NEW r \in 0..Len(s), NEW max, NEW f, FramerOK(f, s, r, max), CanPop(f)
  PROVE  FramerOK(try_pop(f), s, r, max) /\ try_pop(f) \in Framer
<1>1. f \in Framer /\ ~f.failed
  BY DEF FramerOK, CanPop
<1>2. Len(f.pending) \in Nat /\ f.consumed \in Nat
  BY <1>1 DEF Framer
<1>3. Newline(f) \in Newlines(f)
  <2>1. Newlines(f) \subseteq Nat /\ Newlines(f) # {}
    BY <1>2 DEF Newlines, CanPop
  <2>2. \E x \in Newlines(f) : \A j \in Newlines(f) : x <= j
    BY <2>1, Least
  <2> QED BY <2>2 DEF Newline
<1>4. Newline(f) \in Nat /\ Newline(f) <= Len(f.pending)
  BY <1>2, <1>3 DEF Newlines
<1> QED BY <1>1, <1>2, <1>4 DEF FramerOK, Framer, try_pop

\* The line that is popped is the stream's next line.
LEMMA PopKeeps ==
  ASSUME NEW s \in Seq(Byte), NEW r \in 0..Len(s), NEW max \in Nat, NEW f, FramerOK(f, s, r, max),
         CanPop(f), NEW ls \in Seq(Seq(Byte)), AreLinesOf(ls, s, max),
         LinesEndAt(s, Len(ls), Place(f, r))
  PROVE  /\ Popped(f) \in Seq(Byte)
         /\ AreLinesOf(Append(ls, Popped(f)), s, max)
         /\ LinesEndAt(s, Len(ls) + 1, Place(try_pop(f), r))
<1>1. PICK q \in Seq(Byte), m \in Nat, d \in Nat :
        /\ q = f.pending /\ m = Len(q) /\ d = f.consumed /\ m <= r /\ d <= m /\ f \in Framer
        /\ \A i \in 1..m : q[i] = s[r - m + i]
  BY DEF FramerOK, Framer, CanPop
<1>2. m <= r /\ d <= m /\ r \in Nat /\ r <= Len(s) /\ m = Len(q) /\ Len(s) \in Nat
  BY <1>1
<1>3. PICK x \in Newlines(f) : x = Newline(f) /\ \A j \in Newlines(f) : x <= j
  <2>1. Newlines(f) \subseteq Nat /\ Newlines(f) # {}
    BY <1>1 DEF Newlines, CanPop
  <2>2. \E x \in Newlines(f) : \A j \in Newlines(f) : x <= j
    BY <2>1, Least
  <2> QED BY <2>2 DEF Newline
<1>4. x \in (d + 1)..m /\ q[x] = LF
  BY <1>1, <1>3 DEF Newlines
<1>5. \A j \in (d + 1)..(x - 1) : q[j] # LF
  <2> SUFFICES ASSUME NEW j \in (d + 1)..(x - 1), q[j] = LF PROVE FALSE
    OBVIOUS
  <2>1. j \in (d + 1)..m
    BY <1>4, <1>2
  <2>2. j \in Newlines(f)
    BY <1>1, <2>1 DEF Newlines
  <2> QED BY <2>2, <1>3, <1>4
<1>16. x \in Nat /\ d < x /\ x <= m
  BY <1>4
<1>17. PICK e \in Nat, p \in Nat : e = r - m + d /\ p = r - m + x
  <2>1. r - m + d \in Nat /\ r - m + x \in Nat
    BY <1>2, <1>16
  <2> QED BY <2>1
<1>6. e = r - m + d /\ p = r - m + x /\ e < p /\ p <= Len(s) /\ p >= 1 /\ p - e = x - d
  BY <1>2, <1>16, <1>17
<1>7. \A i \in (d + 1)..x : q[i] = s[r - m + i]
  <2> TAKE i \in (d + 1)..x
  <2>1. i \in 1..m
    BY <1>4, <1>2
  <2> QED BY <2>1, <1>1
<1>8. s[p] = LF /\ \A j \in (e + 1)..(p - 1) : s[j] # LF
  <2>1. s[p] = LF
    BY <1>4, <1>6, <1>7
  <2>2. ASSUME NEW j \in (e + 1)..(p - 1) PROVE s[j] # LF
    <3>1. j - (r - m) \in (d + 1)..(x - 1) /\ r - m + (j - (r - m)) = j /\ j - (r - m) \in (d + 1)..x
      BY <1>2, <1>4, <1>6
    <3> QED BY <3>1, <1>5, <1>7
  <2> QED BY <2>1, <2>2
<1>9. Place(f, r) = e /\ Place(try_pop(f), r) = p
  <2>1. try_pop(f).pending = q /\ try_pop(f).consumed = x
    BY <1>1, <1>3 DEF try_pop, Framer
  <2> QED BY <2>1, <1>1, <1>6 DEF Place
<1>10. LinesEndAt(s, Len(ls), e) /\ LinesEndAt(s, Len(ls) + 1, p)
  BY <1>6, <1>8, <1>9, NextEnd
<1>11. LineOf(s, Len(ls) + 1) = SubSeq(s, e + 1, p - 1)
  <2>1. LineEnd(s, Len(ls)) = e
    BY <1>6, <1>10, LineEndIs
  <2>2. LineEnd(s, Len(ls) + 1) = p
    BY <1>6, <1>10, LineEndIs
  <2>3. (Len(ls) + 1) - 1 = Len(ls)
    OBVIOUS
  <2> QED BY <2>1, <2>2, <2>3 DEF LineOf
<1>12. SubSeq(q, d + 1, x - 1) = SubSeq(s, e + 1, p - 1) /\ SubSeq(q, d + 1, x - 1) \in Seq(Byte)
       /\ Len(SubSeq(s, e + 1, p - 1)) = p - 1 - e
  <2> DEFINE a == SubSeq(q, d + 1, x - 1)
             b == SubSeq(s, e + 1, p - 1)
  <2>1. PICK n \in Nat : n = x - 1 - d /\ n = p - 1 - e
    BY <1>2, <1>4, <1>6
  <2>2. /\ a \in Seq(Byte) /\ Len(a) = n
        /\ \A i \in 1..n : a[i] = q[d + i]
    <3>1. x - 1 \in Nat /\ x - 1 <= Len(q) /\ d <= x - 1
      BY <1>2, <1>16
    <3>2. a \in Seq(Byte)
      BY <3>1
    <3>3. Len(a) = n
      <4>1. Len(a) = (x - 1) - (d + 1) + 1
        BY <3>1, <1>16
      <4> QED BY <4>1, <2>1, <1>16
    <3>4. \A i \in 1..n : a[i] = q[d + i]
      BY <2>1, <3>1
    <3> QED BY <3>2, <3>3, <3>4
  <2>3. /\ b \in Seq(Byte) /\ Len(b) = n
        /\ \A i \in 1..n : b[i] = s[e + i]
    <3>1. p - 1 \in Nat /\ p - 1 <= Len(s) /\ e <= p - 1
      BY <1>6
    <3>2. b \in Seq(Byte)
      BY <3>1
    <3>3. Len(b) = n
      <4>1. Len(b) = (p - 1) - (e + 1) + 1
        BY <3>1
      <4> QED BY <4>1, <2>1, <1>6
    <3>4. ASSUME NEW i \in 1..n PROVE b[i] = s[e + i]
      <4>1. i \in 1..((p - 1) - (e + 1) + 1) /\ (e + 1) + i - 1 = e + i
        BY <2>1, <1>6
      <4>2. b[i] = s[(e + 1) + i - 1]
        BY <3>1, <4>1
      <4> QED BY <4>1, <4>2
    <3> QED BY <3>2, <3>3, <3>4
  <2>4. ASSUME NEW i \in 1..n PROVE a[i] = b[i]
    <3>1. d + i \in (d + 1)..x /\ r - m + (d + i) = e + i
      BY <1>2, <1>4, <1>6, <2>1
    <3>2. q[d + i] = s[e + i]
      BY <3>1, <1>7
    <3> QED BY <3>2, <2>2, <2>3
  <2> HIDE DEF a, b
  <2>5. a = b
    BY <2>2, <2>3, <2>4, SeqEqual
  <2> QED BY <2>1, <2>2, <2>3, <2>5 DEF a, b
<1>13. Popped(f) = StripCR(LineOf(s, Len(ls) + 1)) /\ Popped(f) \in Seq(Byte)
  BY <1>1, <1>3, <1>11, <1>12, StripType DEF Popped
<1>14. Len(LineOf(s, Len(ls) + 1)) <= max
  <2>1. e \in 0..r /\ p - 1 \in e..r
    BY <1>2, <1>4, <1>6
  <2>2. p - 1 - e <= max
    BY <2>1, <1>8 DEF FramerOK, CanPop, LineCount
  <2> QED BY <2>2, <1>11, <1>12
<1>15. AreLinesOf(Append(ls, Popped(f)), s, max)
  <2> SUFFICES ASSUME NEW i \in DOMAIN Append(ls, Popped(f))
               PROVE  /\ Append(ls, Popped(f))[i] = StripCR(LineOf(s, i))
                      /\ Len(LineOf(s, i)) <= max
    BY DEF AreLinesOf
  <2>1. i \in 1..(Len(ls) + 1)
    BY <1>13
  <2>2. CASE i = Len(ls) + 1
    BY <2>2, <1>13, <1>14
  <2>3. CASE i # Len(ls) + 1
    <3>1. i \in 1..Len(ls) /\ i \in DOMAIN ls
      BY <2>1, <2>3
    <3>2. Append(ls, Popped(f))[i] = ls[i]
      BY <3>1, <1>13
    <3> QED BY <3>1, <3>2 DEF AreLinesOf
  <2> QED BY <2>2, <2>3
<1> QED BY <1>9, <1>10, <1>13, <1>15
-----------------------------------------------------------------------------
(***************************************************************************)
(* Input in both backends.                                                 *)
(***************************************************************************)
Constants ==
  /\ MaxClients \in Nat \ {0} /\ MaxMessageBytes \in Nat /\ MaxSends \in Nat
  /\ IsFiniteSet(Workers) /\ Workers \cap {"accept", "monitor", "stop", "app"} = {}

LEMMA ConstantsOK == Constants
BY ServerAssumption DEF Constants

LEMMA SettingOK ==
  ASSUME setting \in Settings
  PROVE  /\ \A c : Input(c) \in Seq(Byte)
         /\ setting.backend \in {"threaded", "iocp"}
         /\ MaxConnections \in Nat /\ setting.sends \in 0..MaxSends
         /\ Len(setting.input) \in Nat /\ Len(setting.input) <= MaxClients
<1>1. setting.input \in Seq(Seq(Byte))
  BY ServerAssumption DEF Byte
<1>2. ASSUME NEW c PROVE Input(c) \in Seq(Byte)
  <2>1. CASE c \in DOMAIN setting.input
    BY <1>1, <2>1 DEF Input
  <2>2. CASE c \notin DOMAIN setting.input
    BY <2>2 DEF Input
  <2> QED BY <2>1, <2>2
<1> QED BY <1>1, <1>2, ServerAssumption DEF MaxConnections

\* No connection begins to deliver again.
DeliversLess == setting' = setting /\ \A c \in Clients : Delivers(c)' => Delivers(c)

LEMMA InputSame ==
  ASSUME InputInv, DeliversLess, UNCHANGED <<framer, read, lines>>
  PROVE  InputInv'
<1>1. \A c : Input(c)' = Input(c)
  BY DEF DeliversLess, Input
<1>2. ASSUME NEW c \in Clients PROVE InputAt(c)'
  BY <1>1 DEF InputInv, InputAt, DeliversLess
<1> QED BY <1>2 DEF InputInv, Clients

LEMMA InputReceive ==
  ASSUME InputInv, setting \in Settings, DeliversLess, NEW c \in Clients, NEW k, Receive(c, k),
         lines' = lines
  PROVE  InputInv'
<1>1. \A d : Input(d)' = Input(d) /\ Input(d) \in Seq(Byte)
  BY SettingOK DEF DeliversLess, Input
<1>2. PICK s \in Seq(Byte), r \in Nat, f \in Framer :
        s = Input(c) /\ r = read[c] /\ f = framer[c] /\ FramerOK(f, s, r, MaxMessageBytes)
        /\ r <= Len(s)
  BY <1>1 DEF InputInv, InputAt
<1>3. k \in Nat /\ r + k <= Len(s) /\ r + k \in 0..Len(s)
  BY <1>2 DEF Receive
<1> DEFINE g == append(f, SubSeq(s, r + 1, r + k), MaxMessageBytes)
<1>4. read' = [read EXCEPT ![c] = r + k] /\ framer' = [framer EXCEPT ![c] = g]
  BY <1>2 DEF Receive, InputInv
<1>5. /\ FramerOK(g, s, r + k, MaxMessageBytes)
      /\ ~g.failed => ~f.failed /\ Place(g, r + k) = Place(f, r)
  BY <1>2, <1>3, AppendKeeps, ConstantsOK DEF Constants
<1>6. g \in Framer
  BY <1>5 DEF FramerOK
<1> HIDE DEF g
<1>7. framer' \in [Clients -> Framer] /\ read' \in [Clients -> Nat]
      /\ framer'[c] = g /\ read'[c] = r + k
      /\ \A d \in Clients : d # c => framer'[d] = framer[d] /\ read'[d] = read[d]
  BY <1>3, <1>4, <1>6 DEF InputInv
<1>8. ASSUME NEW d \in Clients PROVE InputAt(d)'
  <2>1. CASE d = c
    <3>1. read'[c] \in 0..Len(Input(c))'
      BY <1>1, <1>2, <1>3, <1>7
    <3>2. FramerOK(framer'[c], Input(c)', read'[c], MaxMessageBytes)
      BY <1>1, <1>2, <1>5, <1>7
    <3>3. AreLinesOf(lines'[c], Input(c)', MaxMessageBytes)
      BY <1>1 DEF InputInv, InputAt
    <3>4. Delivers(c)' /\ ~framer'[c].failed =>
            LinesEndAt(Input(c)', Len(lines'[c]), Place(framer'[c], read'[c]))
      BY <1>1, <1>2, <1>5, <1>7 DEF InputInv, InputAt, DeliversLess
    <3> QED BY <2>1, <3>1, <3>2, <3>3, <3>4 DEF InputAt
  <2>2. CASE d # c
    BY <2>2, <1>1, <1>7 DEF InputInv, InputAt, DeliversLess
  <2> QED BY <2>1, <2>2
<1> QED BY <1>7, <1>8 DEF InputInv, Clients

LEMMA InputPop ==
  ASSUME InputInv, setting \in Settings, DeliversLess, NEW c \in Clients,
         CanPop(framer[c]), Delivers(c),
         lines' = [lines EXCEPT ![c] = Append(@, Popped(framer[c]))],
         framer' = [framer EXCEPT ![c] = try_pop(@)], read' = read
  PROVE  InputInv'
<1>1. \A d : Input(d)' = Input(d) /\ Input(d) \in Seq(Byte)
  BY SettingOK DEF DeliversLess, Input
<1>2. PICK s \in Seq(Byte), r \in Nat, f \in Framer, ls \in Seq(Seq(Byte)) :
        /\ r \in 0..Len(s) /\ s = Input(c) /\ r = read[c] /\ f = framer[c] /\ ls = lines[c]
        /\ FramerOK(f, s, r, MaxMessageBytes) /\ CanPop(f) /\ AreLinesOf(ls, s, MaxMessageBytes)
        /\ LinesEndAt(s, Len(ls), Place(f, r))
  <2>1. InputAt(c) /\ framer[c] \in Framer /\ lines[c] \in Seq(Seq(Byte))
    BY DEF InputInv
  <2>2. ~framer[c].failed
    BY DEF CanPop
  <2> QED BY <1>1, <2>1, <2>2 DEF InputAt
<1>3. /\ Popped(f) \in Seq(Byte)
      /\ AreLinesOf(Append(ls, Popped(f)), s, MaxMessageBytes)
      /\ LinesEndAt(s, Len(ls) + 1, Place(try_pop(f), r))
  BY <1>2, PopKeeps, ConstantsOK DEF Constants
<1>4. FramerOK(try_pop(f), s, r, MaxMessageBytes) /\ try_pop(f) \in Framer
  BY <1>2, PoppedOK
<1>5. PICK g \in Framer, line \in Seq(Byte) : g = try_pop(f) /\ line = Popped(f)
  BY <1>3, <1>4
<1>6. framer' = [framer EXCEPT ![c] = g] /\ lines' = [lines EXCEPT ![c] = Append(ls, line)]
  BY <1>2, <1>5 DEF InputInv
<1>7. Append(ls, line) \in Seq(Seq(Byte)) /\ Len(Append(ls, line)) = Len(ls) + 1
  OBVIOUS
<1>8. framer' \in [Clients -> Framer] /\ lines' \in [Clients -> Seq(Seq(Byte))]
      /\ framer'[c] = g /\ lines'[c] = Append(ls, line)
      /\ \A d \in Clients : d # c => framer'[d] = framer[d] /\ lines'[d] = lines[d]
  BY <1>6, <1>7 DEF InputInv
<1>9. ASSUME NEW d \in Clients PROVE InputAt(d)'
  <2>1. CASE d = c
    BY <2>1, <1>1, <1>2, <1>3, <1>4, <1>5, <1>7, <1>8 DEF InputAt
  <2>2. CASE d # c
    BY <2>2, <1>1, <1>8 DEF InputInv, InputAt, DeliversLess
  <2> QED BY <2>1, <2>2
<1> QED BY <1>8, <1>9 DEF InputInv, Clients

\* A line that is dropped, by a backend that delivers no more.
LEMMA InputDrop ==
  ASSUME InputInv, setting \in Settings, DeliversLess, NEW c \in Clients,
         CanPop(framer[c]) => ~Delivers(c)',
         framer' = [framer EXCEPT ![c] = IF CanPop(@) THEN try_pop(@) ELSE @],
         UNCHANGED <<read, lines>>
  PROVE  InputInv'
<1>1. \A d : Input(d)' = Input(d) /\ Input(d) \in Seq(Byte)
  BY SettingOK DEF DeliversLess, Input
<1>2. CASE ~CanPop(framer[c])
  <2>1. framer' = framer
    BY <1>2 DEF InputInv
  <2> QED BY <2>1, InputSame
<1>3. CASE CanPop(framer[c])
  <2>1. PICK g \in Framer : g = try_pop(framer[c]) /\ FramerOK(g, Input(c), read[c], MaxMessageBytes)
    <3>1. FramerOK(framer[c], Input(c), read[c], MaxMessageBytes) /\ read[c] \in 0..Len(Input(c))
      BY DEF InputInv, InputAt
    <3> QED BY <3>1, <1>1, <1>3, PoppedOK
  <2>2. framer' = [framer EXCEPT ![c] = g]
    BY <1>3, <2>1 DEF InputInv
  <2>3. framer' \in [Clients -> Framer] /\ framer'[c] = g
        /\ \A d \in Clients : d # c => framer'[d] = framer[d]
    BY <2>2 DEF InputInv
  <2>4. ASSUME NEW d \in Clients PROVE InputAt(d)'
    <3>1. CASE d = c
      BY <3>1, <1>1, <1>3, <2>1, <2>3 DEF InputInv, InputAt
    <3>2. CASE d # c
      BY <3>2, <1>1, <2>3 DEF InputInv, InputAt, DeliversLess
    <3> QED BY <3>1, <3>2
  <2> QED BY <2>3, <2>4 DEF InputInv, Clients
<1> QED BY <1>2, <1>3
-----------------------------------------------------------------------------
(***************************************************************************)
(* Output in both backends.                                                *)
(***************************************************************************)
LEMMA WholeAppend ==
  ASSUME NEW w \in Seq(Piece), NEW p \in Piece, Whole(w),
         p # End => IF (Len(w) + 1) % 2 = 1 THEN p.piece = 1 ELSE p = PieceOf(w[Len(w)].message, 2)
  PROVE  /\ Append(w, p) \in Seq(Piece) /\ Len(Append(w, p)) = Len(w) + 1
         /\ Append(w, p)[Len(w) + 1] = p
         /\ Whole(Append(w, p))
<1>1. Append(w, p) \in Seq(Piece) /\ Len(Append(w, p)) = Len(w) + 1 /\ Append(w, p)[Len(w) + 1] = p
  OBVIOUS
<1>2. \A i \in 1..Len(w) : Append(w, p)[i] = w[i]
  OBVIOUS
<1>3. ASSUME NEW i \in DOMAIN Append(w, p), Append(w, p)[i] # End
      PROVE  IF i % 2 = 1 THEN Append(w, p)[i].piece = 1
             ELSE Append(w, p)[i] = PieceOf(Append(w, p)[i - 1].message, 2)
  <2>1. i \in 1..(Len(w) + 1) /\ Len(w) \in Nat
    BY <1>1
  <2>2. CASE i = Len(w) + 1
    <3>1. CASE i % 2 = 1
      BY <1>1, <1>3, <2>2, <3>1
    <3>2. CASE i % 2 # 1
      <4>1. i - 1 = Len(w) /\ Len(w) \in 1..Len(w)
        BY <2>1, <2>2, <3>2
      <4> QED BY <4>1, <1>1, <1>2, <1>3, <2>2, <3>2
    <3> QED BY <3>1, <3>2
  <2>3. CASE i # Len(w) + 1
    <3>1. i \in 1..Len(w) /\ i \in DOMAIN w
      BY <2>1, <2>3
    <3>2. CASE i % 2 = 1
      BY <1>2, <1>3, <3>1, <3>2 DEF Whole
    <3>3. CASE i % 2 # 1
      <4>1. i - 1 \in 1..Len(w)
        BY <3>1, <3>3
      <4> QED BY <4>1, <1>2, <1>3, <3>1, <3>3 DEF Whole
    <3> QED BY <3>2, <3>3
  <2> QED BY <2>2, <2>3
<1> QED BY <1>1, <1>3 DEF Whole

LEMMA PieceType ==
  /\ End \in Piece
  /\ \A m \in Messages, i \in {1, 2} :
       PieceOf(m, i) \in Piece /\ PieceOf(m, i) # End
       /\ PieceOf(m, i).piece = i /\ PieceOf(m, i).message = m
BY ConstantsOK DEF Piece, PieceOf, End, Messages, Constants

LEMMA RangeAppend ==
  ASSUME NEW w \in Seq(Piece), NEW p \in Piece
  PROVE  Range(Append(w, p)) = Range(w) \cup {p}
<1>1. Append(w, p) \in Seq(Piece) /\ Len(Append(w, p)) = Len(w) + 1 /\ Append(w, p)[Len(w) + 1] = p
      /\ \A i \in 1..Len(w) : Append(w, p)[i] = w[i]
  OBVIOUS
<1>2. DOMAIN Append(w, p) = 1..(Len(w) + 1) /\ DOMAIN w = 1..Len(w) /\ Len(w) \in Nat
  BY <1>1
<1>3. 1..(Len(w) + 1) = 1..Len(w) \cup {Len(w) + 1}
  BY <1>2
<1> QED BY <1>1, <1>2, <1>3 DEF Range

\* The first and the second piece of a message, and the end of a socket.
LEMMA FirstPiece ==
  ASSUME NEW w \in Seq(Piece), Whole(w), Complete(w), NEW m \in Messages
  PROVE  LET v == Append(w, PieceOf(m, 1)) IN v \in Seq(Piece) /\ Whole(v) /\ HalfOf(v, m)
<1>1. (Len(w) + 1) % 2 = 1
  BY DEF Complete
<1> QED BY <1>1, WholeAppend, PieceType DEF HalfOf

LEMMA SecondPiece ==
  ASSUME NEW w \in Seq(Piece), Whole(w), NEW m \in Messages, HalfOf(w, m)
  PROVE  LET v == Append(w, PieceOf(m, 2)) IN v \in Seq(Piece) /\ Whole(v) /\ Complete(v)
<1>1. (Len(w) + 1) % 2 = 0
  BY DEF HalfOf
<1>2. w[Len(w)].message = m
  BY PieceType DEF HalfOf
<1> QED BY <1>1, <1>2, WholeAppend, PieceType DEF Complete

LEMMA EndPiece ==
  ASSUME NEW w \in Seq(Piece), Whole(w)
  PROVE  LET v == Append(w, End) IN v \in Seq(Piece) /\ Whole(v) /\ End \in Range(v)
BY WholeAppend, PieceType, RangeAppend
-----------------------------------------------------------------------------
(***************************************************************************)
(* The threaded backend, step by step.                                     *)
(***************************************************************************)
Callers == Threaded!Callers
StopsT == {"configured", "idle", "swap", "disconnect", "joinAccept", "joinClients", "returned"}
ThreadPlaces == {"none", "receive", "pop", "message", "leaving", "notify", "telling", "finished", "joined"}
SenderRecord == [at : {"idle", "lock", "write1", "write2"}, client : 0..MaxClients,
                 message : 0..MaxSends]

\* The type invariant in parts: without the input, which InputInv has, and the
\* output.
ControlType(stops) ==
  /\ setting \in Settings /\ running \in BOOLEAN /\ stopper \in stops
  /\ acceptor \in Acceptor /\ lastId \in 0..MaxClients
TableType ==
  /\ registered \subseteq Clients /\ Cardinality(registered) <= MaxConnections
  /\ closing \in [Clients -> BOOLEAN]
FeedType ==
  /\ callback \in [Clients -> {"none", "connected", "message", "disconnected"}]
  /\ feed \in [Clients -> {"new", "connected", "disconnected"}]
OutputType == sent \in 0..MaxSends /\ wire \in [Clients -> Seq(Piece)]
ThreadType ==
  /\ thread \in [Clients -> ThreadPlaces]
  /\ snapshot \subseteq Clients /\ dropping \subseteq Clients
SendType == sender \in [Callers -> SenderRecord] /\ sendLock \in [Clients -> SUBSET Callers]

LEMMA SameT ==
  /\ Threaded!Clients = Clients /\ Threaded!Messages = Messages
  /\ Threaded!Acceptor = Acceptor /\ Threaded!Piece = Piece /\ Threaded!End = End
  /\ Threaded!MaxConnections = MaxConnections /\ Threaded!AtCapacity = AtCapacity
  /\ \A S : Threaded!Cardinality(S) = Cardinality(S)
  /\ \A x, c : Threaded!At(x, c) = At(x, c)
  /\ \A m, i : Threaded!PieceOf(m, i) = PieceOf(m, i)
  /\ \A c : Threaded!Input(c) = Input(c) /\ Threaded!Writable(c) = Writable(c)
<1>1. /\ Threaded!Clients = Clients /\ Threaded!Messages = Messages
      /\ Threaded!End = End /\ Threaded!MaxConnections = MaxConnections
  BY DEF Threaded!Clients, Clients, Threaded!Messages, Messages, Threaded!End, End, Threaded!PieceOf, PieceOf,
     Threaded!MaxConnections, MaxConnections
<1>2. Threaded!Piece = Piece /\ Threaded!Acceptor = Acceptor
  BY <1>1 DEF Threaded!Acceptor, Acceptor, Threaded!Piece, Piece
<1>3. \A x, c : Threaded!At(x, c) = At(x, c)
  BY DEF Threaded!At, At
<1>4. \A m, i : Threaded!PieceOf(m, i) = PieceOf(m, i)
  BY DEF Threaded!PieceOf, PieceOf
<1>5. \A c : Threaded!Input(c) = Input(c)
  BY DEF Threaded!Input, Input
<1>8. \A S : Threaded!Cardinality(S) = Cardinality(S)
  BY DEF Threaded!Cardinality, Cardinality
<1>6. Threaded!AtCapacity = AtCapacity
  BY <1>1, <1>8 DEF Threaded!AtCapacity, AtCapacity
<1>7. \A c : Threaded!Writable(c) = Writable(c)
  BY <1>1 DEF Threaded!Writable, Writable, Threaded!Range, Range
<1> QED BY <1>1, <1>2, <1>3, <1>4, <1>5, <1>6, <1>7, <1>8

LEMMA FramerSameT ==
  /\ \A f : Threaded!CanPop(f) = CanPop(f) /\ Threaded!Popped(f) = Popped(f)
            /\ Threaded!try_pop(f) = try_pop(f)
  /\ \A f, b, m : Threaded!append(f, b, m) = append(f, b, m)
<1>1. \A f : Threaded!CanPop(f) = CanPop(f)
  BY DEF Threaded!CanPop, CanPop, Threaded!Newlines, Newlines, Threaded!LF, LF
<1>2. \A f : Threaded!Newline(f) = Newline(f)
  BY DEF Threaded!Newline, Newline, Threaded!Newlines, Newlines, Threaded!LF, LF
<1>3. \A f : Threaded!Popped(f) = Popped(f) /\ Threaded!try_pop(f) = try_pop(f)
  BY <1>2 DEF Threaded!Popped, Popped, Threaded!try_pop, try_pop, Threaded!StripCR, StripCR,
     Threaded!CR, CR
<1>4. \A f, b, m : Threaded!append(f, b, m) = append(f, b, m)
  BY DEF Threaded!append, append, Threaded!CountAll, CountAll, Threaded!Count, Count, Threaded!LF, LF
<1> QED BY <1>1, <1>3, <1>4

LEMMA TypeT ==
  Threaded!TypeOK <=>
    /\ ControlType(StopsT) /\ TableType /\ FeedType /\ OutputType /\ ThreadType /\ SendType
    /\ \A c \in Clients : read[c] \in 0..Len(Input(c))
<1>1. Threaded!ServerTypeOK <=>
        /\ setting \in Settings /\ running \in BOOLEAN
        /\ acceptor \in Acceptor /\ lastId \in 0..MaxClients
        /\ TableType /\ FeedType /\ OutputType
        /\ \A c \in Clients : read[c] \in 0..Len(Input(c))
  BY SameT DEF Threaded!ServerTypeOK, TableType, FeedType, OutputType
<1> QED BY <1>1, SameT DEF Threaded!TypeOK, ControlType,
   ThreadType, SendType, StopsT, ThreadPlaces, SenderRecord, Callers

\* The two halves of the invariant: threads, table and callbacks; output.
MainT ==
  /\ ControlType(StopsT) /\ TableType /\ FeedType /\ ThreadType
  /\ OwnerT /\ AcceptT /\ \A c \in Clients : ClientT(c)
OutT ==
  /\ OutputType /\ SendType
  /\ \A a \in Callers : SenderT(a)
  /\ \A c \in Clients : WireT(c)

LEMMA PartsT == InputInv => (ThreadedInv <=> MainT /\ OutT)
<1>1. InputInv => \A c \in Clients : read[c] \in 0..Len(Input(c))
  BY DEF InputInv, InputAt
<1> QED BY <1>1, TypeT DEF ThreadedInv, MainT, OutT, Callers

LEMMA MainSameT ==
  ASSUME MainT, UNCHANGED <<ownerVars, acceptVars, tableVars, callback, feed, Threaded!threadVars>>
  PROVE  MainT'
BY DEF MainT, ControlType, TableType, FeedType, ThreadType, OwnerT, AcceptT, ClientT, Accepts,
   ownerVars, acceptVars, tableVars, Threaded!threadVars, MaxConnections, Clients

LEMMA OutSameT ==
  ASSUME OutT, UNCHANGED <<sent, wire, sender, sendLock>>, setting' = setting,
         \A c \in Clients : closing[c] => closing'[c]
  PROVE  OutT'
<1>1. ASSUME NEW c \in Clients PROVE WireT(c)'
  <2>1. WireT(c) /\ (Writable(c)' => Writable(c))
    BY DEF OutT, Writable
  <2>2. \A a : Writing(a, c)' = Writing(a, c)
    BY DEF Writing
  <2> QED BY <2>1, <2>2 DEF WireT
<1>2. \A a \in Callers : SenderT(a)'
  BY DEF OutT, SenderT, Messages
<1> QED BY <1>1, <1>2 DEF OutT, OutputType, SendType, Callers, Clients

LEMMA ClientsFinite == IsFiniteSet(Clients) /\ \A S \in SUBSET Clients : IsFiniteSet(S)
<1>1. IsFiniteSet(1..MaxClients)
  BY ConstantsOK, FS_Interval DEF Constants
<1> QED BY <1>1, FS_Subset DEF Clients

\* A connection leaves the table, or joins it while there is room.
LEMMA TableShrinks ==
  ASSUME TableType, setting \in Settings, setting' = setting, registered' \subseteq registered,
         closing' \in [Clients -> BOOLEAN]
  PROVE  TableType'
<1>1. IsFiniteSet(registered) /\ IsFiniteSet(registered')
  BY ClientsFinite DEF TableType
<1>2. Cardinality(registered') <= Cardinality(registered)
  BY <1>1, FS_Subset
<1>3. Cardinality(registered) \in Nat /\ Cardinality(registered') \in Nat
  BY <1>1, FS_CardinalityType
<1>4. MaxConnections' = MaxConnections /\ MaxConnections \in Nat
  BY SettingOK DEF MaxConnections
<1> QED BY <1>2, <1>3, <1>4 DEF TableType, Clients

LEMMA TableGrows ==
  ASSUME TableType, setting \in Settings, setting' = setting, NEW c \in Clients,
         registered' = registered \cup {c}, closing' = closing, ~AtCapacity
  PROVE  TableType'
<1>1. IsFiniteSet(registered)
  BY ClientsFinite DEF TableType
<1>2. Cardinality(registered') <= Cardinality(registered) + 1
  <2>1. Cardinality(registered) \in Nat
    BY <1>1, FS_CardinalityType
  <2>2. Cardinality(registered \cup {c}) = IF c \in registered THEN Cardinality(registered)
                                        ELSE Cardinality(registered) + 1
    BY <1>1, FS_AddElement
  <2>3. Cardinality(registered \cup {c}) <= Cardinality(registered) + 1
    BY <2>1, <2>2
  <2> QED BY <2>3
<1>3. Cardinality(registered) \in Nat /\ Cardinality(registered') \in Nat
  BY <1>1, FS_AddElement, FS_CardinalityType
<1>4. MaxConnections' = MaxConnections /\ MaxConnections \in Nat
  BY SettingOK DEF MaxConnections
<1> QED BY <1>2, <1>3, <1>4 DEF TableType, AtCapacity, Clients

\* The accept thread goes to a place with a client.
Moves(where, c) == acceptor' = At(where, c) /\ acceptor'.at = where /\ acceptor'.client = c

LEMMA ClientsT == Threaded!Clients = Clients
BY SameT

LEMMA AtFieldsT ==
  \A x, c : Threaded!At(x, c) = At(x, c) /\ At(x, c).at = x /\ At(x, c).client = c
BY DEF Threaded!At, At

LEMMA MovesType ==
  \A x \in {"none", "wait", "accepting", "register", "publish", "connected", "notify", "telling",
            "leave", "receive", "exited"}, c \in 0..MaxClients : Moves(x, c) => acceptor' \in Acceptor
BY DEF Moves, At, Acceptor

LEMMA StartT ==
  ASSUME MainT, Threaded!start
  PROVE  MainT'
<1> DEFINE Case1 ==
              /\ stopper = "configured"
              /\ running' = TRUE
              /\ stopper' = "idle"
              /\ Moves("wait", 0)
              /\ UNCHANGED <<setting, lastId, registered, closing, callback, feed, thread, snapshot, dropping>>
           Case2 ==
              /\ stopper = "configured"
              /\ stopper' = "returned"
              /\ UNCHANGED <<setting, running, acceptor, lastId, registered, closing, callback, feed, thread, snapshot, dropping>>
<1>1. Case1 \/ Case2
  BY AtFieldsT, ClientsT DEF Threaded!start, Threaded!OpenFails, Moves, Ended,
     Threaded!ownerVars, Threaded!acceptVars, Threaded!tableVars, Threaded!inputVars,
     Threaded!feedVars, Threaded!outputVars, Threaded!threadVars, Threaded!sendVars
<1> HIDE DEF Case1, Case2
<1>2. CASE Case1
  <2>1. ControlType(StopsT)' /\ FeedType' /\ ThreadType'
    BY <1>2, ConstantsOK, MovesType DEF Case1, MainT, ControlType, FeedType, ThreadType, AcceptT, StopsT,
       ThreadPlaces, Clients, Constants, TableType
  <2>2. TableType'
    BY <1>2, TableShrinks DEF Case1, MainT, ControlType, TableType
  <2>3. OwnerT' /\ AcceptT'
    BY <1>2 DEF Case1, MainT, ControlType, ThreadType, FeedType, OwnerT, AcceptT, Moves, Ended
  <2>4. ASSUME NEW d \in Clients PROVE ClientT(d)'
    BY <1>2 DEF Case1, MainT, ControlType, ThreadType, FeedType, OwnerT, AcceptT, Moves, ClientT, Accepts, TableType
  <2> QED BY <2>1, <2>2, <2>3, <2>4 DEF MainT, Clients
<1>3. CASE Case2
  <2>1. ControlType(StopsT)' /\ FeedType' /\ ThreadType'
    BY <1>3, ConstantsOK, MovesType DEF Case2, MainT, ControlType, FeedType, ThreadType, AcceptT, StopsT,
       ThreadPlaces, Clients, Constants, TableType
  <2>2. TableType'
    BY <1>3, TableShrinks DEF Case2, MainT, ControlType, TableType
  <2>3. OwnerT' /\ AcceptT'
    <3>1. \A c \in Clients : thread[c] = "none"
      BY <1>3 DEF Case2, MainT, ControlType, OwnerT, AcceptT, ClientT, Clients
    <3>2. stopper = "configured" /\ stopper' = "returned"
          /\ UNCHANGED <<running, acceptor, lastId, registered, thread, snapshot>>
      BY <1>3 DEF Case2
    <3> QED BY <3>1, <3>2 DEF MainT, OwnerT, AcceptT, Ended
  <2>4. ASSUME NEW d \in Clients PROVE ClientT(d)'
    BY <1>3 DEF Case2, MainT, ControlType, ThreadType, FeedType, OwnerT, AcceptT, Moves, ClientT, Accepts, TableType
  <2> QED BY <2>1, <2>2, <2>3, <2>4 DEF MainT, Clients
<1> QED BY <1>1, <1>2, <1>3

LEMMA AcceptLoopT ==
  ASSUME MainT, Threaded!accept_loop
  PROVE  MainT'
<1> DEFINE Case1 ==
              /\ acceptor.at = "wait"
              /\ running
              /\ lastId < Len(setting.input)
              /\ lastId' = lastId + 1
              /\ Moves("accepting", lastId + 1)
              /\ thread' = [c \in Clients |-> IF thread[c] = "finished" THEN "joined" ELSE thread[c]]
              /\ UNCHANGED <<setting, running, stopper, registered, closing, callback, feed, snapshot, dropping>>
           Case2 ==
              /\ acceptor.at = "accepting"
              /\ Moves("register", acceptor.client)
              /\ UNCHANGED <<setting, running, stopper, lastId, registered, closing, callback, feed, thread, snapshot, dropping>>
           Case3 ==
              /\ acceptor.at \in {"accepting", "register"}
              /\ Moves("wait", 0)
              /\ UNCHANGED <<setting, running, stopper, lastId, registered, closing, callback, feed, thread, snapshot, dropping>>
           Case4 ==
              /\ acceptor.at \in {"accepting", "wait", "register"}
              /\ Moves("exited", 0)
              /\ UNCHANGED <<setting, running, stopper, lastId, registered, closing, callback, feed, thread, snapshot, dropping>>
<1>1. Case1 \/ Case2 \/ Case3 \/ Case4
  <2> USE DEF Threaded!accept_loop, Threaded!ownerVars, Threaded!tableVars, Threaded!feedVars
  <2>1. CASE Threaded!Accept /\ thread' = Threaded!Reaped
    BY <2>1, AtFieldsT, ClientsT DEF Threaded!Accept, Threaded!accept_client, Threaded!Reaped, Moves
  <2>2. CASE Threaded!OnAccepting /\ UNCHANGED thread
    BY <2>2, AtFieldsT DEF Threaded!OnAccepting, Threaded!configure_client_socket, Moves
  <2>3. CASE Threaded!AcceptExits /\ UNCHANGED thread
    BY <2>3, AtFieldsT DEF Threaded!AcceptExits, Moves
  <2>4. CASE Threaded!Reject /\ UNCHANGED thread
    BY <2>4, AtFieldsT DEF Threaded!Reject, Moves
  <2> QED BY <2>1, <2>2, <2>3, <2>4
<1> HIDE DEF Case1, Case2, Case3, Case4
<1>2. CASE Case1
  <2>1. ControlType(StopsT)' /\ FeedType' /\ ThreadType'
    <3>1. lastId + 1 \in 0..MaxClients
      BY <1>2, ConstantsOK, SettingOK DEF Case1, MainT, ControlType, Constants
    <3>2. acceptor' \in Acceptor
      BY <1>2, <3>1, MovesType DEF Case1
    <3> QED BY <1>2, <3>1, <3>2 DEF Case1, MainT, ControlType, FeedType, ThreadType, StopsT, ThreadPlaces, Clients
  <2>2. TableType'
    BY <1>2, TableShrinks DEF Case1, MainT, ControlType, TableType
  <2>3. OwnerT' /\ AcceptT'
    BY <1>2 DEF Case1, MainT, ControlType, ThreadType, FeedType, OwnerT, AcceptT, Moves, Ended
  <2>4. ASSUME NEW d \in Clients PROVE ClientT(d)'
    <3>1. d # 0 /\ d \in Nat /\ lastId \in Nat
      BY ConstantsOK DEF Clients, Constants, MainT, ControlType
    <3>2. ClientT(d)
      BY DEF MainT
    <3> QED BY <1>2, <3>1, <3>2 DEF Case1, MainT, ControlType, ThreadType, FeedType, AcceptT, Moves, ClientT, Accepts
  <2> QED BY <2>1, <2>2, <2>3, <2>4 DEF MainT, Clients
<1>3. CASE Case2
  <2>1. ControlType(StopsT)' /\ FeedType' /\ ThreadType'
    BY <1>3, ConstantsOK, MovesType DEF Case2, MainT, ControlType, FeedType, ThreadType, AcceptT, StopsT,
       ThreadPlaces, Clients, Constants, TableType
  <2>2. TableType'
    BY <1>3, TableShrinks DEF Case2, MainT, ControlType, TableType
  <2>3. OwnerT' /\ AcceptT'
    BY <1>3 DEF Case2, MainT, ControlType, ThreadType, FeedType, OwnerT, AcceptT, Moves, Ended
  <2>4. ASSUME NEW d \in Clients PROVE ClientT(d)'
    BY <1>3 DEF Case2, MainT, ControlType, ThreadType, FeedType, OwnerT, AcceptT, Moves, ClientT, Accepts, TableType
  <2> QED BY <2>1, <2>2, <2>3, <2>4 DEF MainT, Clients
<1>4. CASE Case3
  <2>1. ControlType(StopsT)' /\ FeedType' /\ ThreadType'
    BY <1>4, ConstantsOK, MovesType DEF Case3, MainT, ControlType, FeedType, ThreadType, AcceptT, StopsT,
       ThreadPlaces, Clients, Constants, TableType
  <2>2. TableType'
    BY <1>4, TableShrinks DEF Case3, MainT, ControlType, TableType
  <2>3. OwnerT' /\ AcceptT'
    BY <1>4 DEF Case3, MainT, ControlType, ThreadType, FeedType, OwnerT, AcceptT, Moves, Ended
  <2>4. ASSUME NEW d \in Clients PROVE ClientT(d)'
    <3>1. d # 0 /\ d \in Nat /\ lastId \in Nat
      BY ConstantsOK DEF Clients, Constants, MainT, ControlType
    <3>2. ClientT(d)
      BY DEF MainT
    <3> QED BY <1>4, <3>1, <3>2 DEF Case3, MainT, ControlType, ThreadType, FeedType, AcceptT, Moves, ClientT, Accepts
  <2> QED BY <2>1, <2>2, <2>3, <2>4 DEF MainT, Clients
<1>5. CASE Case4
  <2>1. ControlType(StopsT)' /\ FeedType' /\ ThreadType'
    BY <1>5, ConstantsOK, MovesType DEF Case4, MainT, ControlType, FeedType, ThreadType, AcceptT, StopsT,
       ThreadPlaces, Clients, Constants, TableType
  <2>2. TableType'
    BY <1>5, TableShrinks DEF Case4, MainT, ControlType, TableType
  <2>3. OwnerT' /\ AcceptT'
    BY <1>5 DEF Case4, MainT, ControlType, ThreadType, FeedType, OwnerT, AcceptT, Moves, Ended
  <2>4. ASSUME NEW d \in Clients PROVE ClientT(d)'
    <3>1. d # 0 /\ d \in Nat /\ lastId \in Nat
      BY ConstantsOK DEF Clients, Constants, MainT, ControlType
    <3>2. ClientT(d)
      BY DEF MainT
    <3> QED BY <1>5, <3>1, <3>2 DEF Case4, MainT, ControlType, ThreadType, FeedType, AcceptT, Moves, ClientT, Accepts
  <2> QED BY <2>1, <2>2, <2>3, <2>4 DEF MainT, Clients
<1> QED BY <1>1, <1>2, <1>3, <1>4, <1>5

LEMMA RegisterT ==
  ASSUME MainT, Threaded!Register
  PROVE  MainT'
<1> DEFINE Case1 ==
              /\ acceptor.at = "register"
              /\ running
              /\ registered' = registered \cup {acceptor.client}
              /\ callback' = [callback EXCEPT ![acceptor.client] = "connected"]
              /\ feed' = [feed EXCEPT ![acceptor.client] = "connected"]
              /\ Moves("connected", acceptor.client)
              /\ UNCHANGED <<setting, running, stopper, lastId, closing, thread, snapshot, dropping>>
<1>1. Case1
  BY AtFieldsT, ClientsT DEF Threaded!Register, Threaded!on_connected, Moves, Ended,
     Threaded!ownerVars, Threaded!acceptVars, Threaded!tableVars, Threaded!inputVars,
     Threaded!feedVars, Threaded!outputVars, Threaded!threadVars, Threaded!sendVars
<1> HIDE DEF Case1
<1>2. CASE Case1
  <2>1. ControlType(StopsT)' /\ FeedType' /\ ThreadType'
    BY <1>2, ConstantsOK, MovesType DEF Case1, MainT, ControlType, FeedType, ThreadType, AcceptT, StopsT,
       ThreadPlaces, Clients, Constants, TableType
  <2>2. TableType'
    <3>1. acceptor.client \in Clients
      BY <1>2, ConstantsOK DEF Case1, MainT, ControlType, AcceptT, Clients, Constants
    <3>2. ~AtCapacity
      BY SameT DEF Threaded!Register
    <3> QED BY <1>2, <3>1, <3>2, TableGrows DEF Case1, MainT, ControlType
  <2>3. OwnerT' /\ AcceptT'
    BY <1>2 DEF Case1, MainT, ControlType, ThreadType, FeedType, OwnerT, AcceptT, Moves, Ended
  <2>4. ASSUME NEW d \in Clients PROVE ClientT(d)'
    BY <1>2 DEF Case1, MainT, ControlType, ThreadType, FeedType, OwnerT, AcceptT, Moves, ClientT, Accepts, TableType
  <2> QED BY <2>1, <2>2, <2>3, <2>4 DEF MainT, Clients
<1> QED BY <1>1, <1>2

LEMMA LaunchClientT ==
  ASSUME MainT, Threaded!launch_client
  PROVE  MainT'
<1> DEFINE Case1 ==
              /\ acceptor.at = "connected"
              /\ callback' = [callback EXCEPT ![acceptor.client] = "none"]
              /\ thread' = [thread EXCEPT ![acceptor.client] = "receive"]
              /\ Moves("wait", 0)
              /\ UNCHANGED <<setting, running, stopper, lastId, registered, closing, feed, snapshot, dropping>>
           Case2 ==
              /\ acceptor.at = "connected"
              /\ callback' = [callback EXCEPT ![acceptor.client] = "none"]
              /\ registered' = registered \ {acceptor.client}
              /\ closing' = [closing EXCEPT ![acceptor.client] = @ \/ acceptor.client \in registered]
              /\ Moves("notify", acceptor.client)
              /\ UNCHANGED <<setting, running, stopper, lastId, feed, thread, snapshot, dropping>>
<1>1. Case1 \/ Case2
  BY AtFieldsT, ClientsT DEF Threaded!launch_client, Threaded!Returned, Threaded!Drop, Moves, Ended,
     Threaded!ownerVars, Threaded!acceptVars, Threaded!tableVars, Threaded!inputVars,
     Threaded!feedVars, Threaded!outputVars, Threaded!threadVars, Threaded!sendVars
<1> HIDE DEF Case1, Case2
<1>2. CASE Case1
  <2>1. ControlType(StopsT)' /\ FeedType' /\ ThreadType'
    BY <1>2, ConstantsOK, MovesType DEF Case1, MainT, ControlType, FeedType, ThreadType, AcceptT, StopsT,
       ThreadPlaces, Clients, Constants, TableType
  <2>2. TableType'
    BY <1>2, TableShrinks DEF Case1, MainT, ControlType, TableType
  <2>3. OwnerT' /\ AcceptT'
    BY <1>2 DEF Case1, MainT, ControlType, ThreadType, FeedType, OwnerT, AcceptT, Moves, Ended
  <2>4. ASSUME NEW d \in Clients PROVE ClientT(d)'
    <3>1. d # 0 /\ d \in Nat /\ lastId \in Nat
      BY ConstantsOK DEF Clients, Constants, MainT, ControlType
    <3>2. ClientT(d)
      BY DEF MainT
    <3> QED BY <1>2, <3>1, <3>2 DEF Case1, MainT, ControlType, ThreadType, FeedType, AcceptT, Moves, ClientT, Accepts
  <2> QED BY <2>1, <2>2, <2>3, <2>4 DEF MainT, Clients
<1>3. CASE Case2
  <2>1. ControlType(StopsT)' /\ FeedType' /\ ThreadType'
    BY <1>3, ConstantsOK, MovesType DEF Case2, MainT, ControlType, FeedType, ThreadType, AcceptT, StopsT,
       ThreadPlaces, Clients, Constants, TableType
  <2>2. TableType'
    BY <1>3, TableShrinks DEF Case2, MainT, ControlType, TableType
  <2>3. OwnerT' /\ AcceptT'
    BY <1>3 DEF Case2, MainT, ControlType, ThreadType, FeedType, OwnerT, AcceptT, Moves, Ended
  <2>4. ASSUME NEW d \in Clients PROVE ClientT(d)'
    BY <1>3 DEF Case2, MainT, ControlType, ThreadType, FeedType, OwnerT, AcceptT, Moves, ClientT, Accepts, TableType
  <2> QED BY <2>1, <2>2, <2>3, <2>4 DEF MainT, Clients
<1> QED BY <1>1, <1>2, <1>3

LEMMA LaunchFailedT ==
  ASSUME MainT, Threaded!LaunchFailed
  PROVE  MainT'
<1> DEFINE Case1 ==
              /\ acceptor.at = "notify"
              /\ callback' = [callback EXCEPT ![acceptor.client] = "disconnected"]
              /\ feed' = [feed EXCEPT ![acceptor.client] = "disconnected"]
              /\ Moves("telling", acceptor.client)
              /\ UNCHANGED <<setting, running, stopper, lastId, registered, closing, thread, snapshot, dropping>>
           Case2 ==
              /\ acceptor.at = "telling"
              /\ callback' = [callback EXCEPT ![acceptor.client] = "none"]
              /\ Moves("wait", 0)
              /\ UNCHANGED <<setting, running, stopper, lastId, registered, closing, feed, thread, snapshot, dropping>>
<1>1. Case1 \/ Case2
  BY AtFieldsT, ClientsT DEF Threaded!LaunchFailed, Threaded!on_disconnected, Threaded!Returned, Moves, Ended,
     Threaded!ownerVars, Threaded!acceptVars, Threaded!tableVars, Threaded!inputVars,
     Threaded!feedVars, Threaded!outputVars, Threaded!threadVars, Threaded!sendVars
<1> HIDE DEF Case1, Case2
<1>2. CASE Case1
  <2>1. ControlType(StopsT)' /\ FeedType' /\ ThreadType'
    BY <1>2, ConstantsOK, MovesType DEF Case1, MainT, ControlType, FeedType, ThreadType, AcceptT, StopsT,
       ThreadPlaces, Clients, Constants, TableType
  <2>2. TableType'
    BY <1>2, TableShrinks DEF Case1, MainT, ControlType, TableType
  <2>3. OwnerT' /\ AcceptT'
    BY <1>2 DEF Case1, MainT, ControlType, ThreadType, FeedType, OwnerT, AcceptT, Moves, Ended
  <2>4. ASSUME NEW d \in Clients PROVE ClientT(d)'
    BY <1>2 DEF Case1, MainT, ControlType, ThreadType, FeedType, OwnerT, AcceptT, Moves, ClientT, Accepts, TableType
  <2> QED BY <2>1, <2>2, <2>3, <2>4 DEF MainT, Clients
<1>3. CASE Case2
  <2>1. ControlType(StopsT)' /\ FeedType' /\ ThreadType'
    BY <1>3, ConstantsOK, MovesType DEF Case2, MainT, ControlType, FeedType, ThreadType, AcceptT, StopsT,
       ThreadPlaces, Clients, Constants, TableType
  <2>2. TableType'
    BY <1>3, TableShrinks DEF Case2, MainT, ControlType, TableType
  <2>3. OwnerT' /\ AcceptT'
    BY <1>3 DEF Case2, MainT, ControlType, ThreadType, FeedType, OwnerT, AcceptT, Moves, Ended
  <2>4. ASSUME NEW d \in Clients PROVE ClientT(d)'
    <3>1. d # 0 /\ d \in Nat /\ lastId \in Nat
      BY ConstantsOK DEF Clients, Constants, MainT, ControlType
    <3>2. ClientT(d)
      BY DEF MainT
    <3> QED BY <1>3, <3>1, <3>2 DEF Case2, MainT, ControlType, ThreadType, FeedType, AcceptT, Moves, ClientT, Accepts
  <2> QED BY <2>1, <2>2, <2>3, <2>4 DEF MainT, Clients
<1> QED BY <1>1, <1>2, <1>3

LEMMA ReadT ==
  ASSUME MainT, NEW c \in Clients, Threaded!Read(c)
  PROVE  MainT'
<1> DEFINE Case1 ==
              /\ thread[c] = "receive"
              /\ thread' \in {[thread EXCEPT ![c] = "leaving"], [thread EXCEPT ![c] = "pop"]}
              /\ UNCHANGED <<setting, running, stopper, acceptor, lastId, registered, closing, callback, feed, snapshot, dropping>>
<1>1. Case1
  BY AtFieldsT, ClientsT DEF Threaded!Read, Threaded!Receive, Moves, Ended,
     Threaded!ownerVars, Threaded!acceptVars, Threaded!tableVars, Threaded!inputVars,
     Threaded!feedVars, Threaded!outputVars, Threaded!threadVars, Threaded!sendVars
<1> HIDE DEF Case1
<1>2. CASE Case1
  <2>1. ControlType(StopsT)' /\ FeedType' /\ ThreadType'
    BY <1>2, ConstantsOK, MovesType DEF Case1, MainT, ControlType, FeedType, ThreadType, AcceptT, StopsT,
       ThreadPlaces, Clients, Constants, TableType
  <2>2. TableType'
    BY <1>2, TableShrinks DEF Case1, MainT, ControlType, TableType
  <2>3. OwnerT' /\ AcceptT'
    BY <1>2 DEF Case1, MainT, ControlType, ThreadType, FeedType, OwnerT, AcceptT, Moves, Ended
  <2>4. ASSUME NEW d \in Clients PROVE ClientT(d)'
    BY <1>2 DEF Case1, MainT, ControlType, ThreadType, FeedType, OwnerT, AcceptT, Moves, ClientT, Accepts, TableType
  <2> QED BY <2>1, <2>2, <2>3, <2>4 DEF MainT, Clients
<1> QED BY <1>1, <1>2

LEMMA ReadEndsT ==
  ASSUME MainT, NEW c \in Clients, Threaded!ReadEnds(c)
  PROVE  MainT'
<1> DEFINE Case1 ==
              /\ thread[c] = "receive"
              /\ thread' = [thread EXCEPT ![c] = "leaving"]
              /\ UNCHANGED <<setting, running, stopper, acceptor, lastId, registered, closing, callback, feed, snapshot, dropping>>
<1>1. Case1
  BY AtFieldsT, ClientsT DEF Threaded!ReadEnds, Threaded!serverVars, Moves, Ended,
     Threaded!ownerVars, Threaded!acceptVars, Threaded!tableVars, Threaded!inputVars,
     Threaded!feedVars, Threaded!outputVars, Threaded!threadVars, Threaded!sendVars
<1> HIDE DEF Case1
<1>2. CASE Case1
  <2>1. ControlType(StopsT)' /\ FeedType' /\ ThreadType'
    BY <1>2, ConstantsOK, MovesType DEF Case1, MainT, ControlType, FeedType, ThreadType, AcceptT, StopsT,
       ThreadPlaces, Clients, Constants, TableType
  <2>2. TableType'
    BY <1>2, TableShrinks DEF Case1, MainT, ControlType, TableType
  <2>3. OwnerT' /\ AcceptT'
    BY <1>2 DEF Case1, MainT, ControlType, ThreadType, FeedType, OwnerT, AcceptT, Moves, Ended
  <2>4. ASSUME NEW d \in Clients PROVE ClientT(d)'
    BY <1>2 DEF Case1, MainT, ControlType, ThreadType, FeedType, OwnerT, AcceptT, Moves, ClientT, Accepts, TableType
  <2> QED BY <2>1, <2>2, <2>3, <2>4 DEF MainT, Clients
<1> QED BY <1>1, <1>2

LEMMA DeliverLineT ==
  ASSUME MainT, NEW c \in Clients, Threaded!DeliverLine(c)
  PROVE  MainT'
<1> DEFINE Case1 ==
              /\ thread[c] = "pop"
              /\ callback' = [callback EXCEPT ![c] = "message"]
              /\ thread' = [thread EXCEPT ![c] = "message"]
              /\ UNCHANGED <<setting, running, stopper, acceptor, lastId, registered, closing, feed, snapshot, dropping>>
           Case2 ==
              /\ thread[c] = "pop"
              /\ thread' = [thread EXCEPT ![c] = "receive"]
              /\ UNCHANGED <<setting, running, stopper, acceptor, lastId, registered, closing, callback, feed, snapshot, dropping>>
<1>1. Case1 \/ Case2
  BY AtFieldsT, ClientsT DEF Threaded!DeliverLine, Threaded!on_message, Moves, Ended,
     Threaded!ownerVars, Threaded!acceptVars, Threaded!tableVars, Threaded!inputVars,
     Threaded!feedVars, Threaded!outputVars, Threaded!threadVars, Threaded!sendVars
<1> HIDE DEF Case1, Case2
<1>2. CASE Case1
  <2>1. ControlType(StopsT)' /\ FeedType' /\ ThreadType'
    BY <1>2, ConstantsOK, MovesType DEF Case1, MainT, ControlType, FeedType, ThreadType, AcceptT, StopsT,
       ThreadPlaces, Clients, Constants, TableType
  <2>2. TableType'
    BY <1>2, TableShrinks DEF Case1, MainT, ControlType, TableType
  <2>3. OwnerT' /\ AcceptT'
    BY <1>2 DEF Case1, MainT, ControlType, ThreadType, FeedType, OwnerT, AcceptT, Moves, Ended
  <2>4. ASSUME NEW d \in Clients PROVE ClientT(d)'
    BY <1>2 DEF Case1, MainT, ControlType, ThreadType, FeedType, OwnerT, AcceptT, Moves, ClientT, Accepts, TableType
  <2> QED BY <2>1, <2>2, <2>3, <2>4 DEF MainT, Clients
<1>3. CASE Case2
  <2>1. ControlType(StopsT)' /\ FeedType' /\ ThreadType'
    BY <1>3, ConstantsOK, MovesType DEF Case2, MainT, ControlType, FeedType, ThreadType, AcceptT, StopsT,
       ThreadPlaces, Clients, Constants, TableType
  <2>2. TableType'
    BY <1>3, TableShrinks DEF Case2, MainT, ControlType, TableType
  <2>3. OwnerT' /\ AcceptT'
    BY <1>3 DEF Case2, MainT, ControlType, ThreadType, FeedType, OwnerT, AcceptT, Moves, Ended
  <2>4. ASSUME NEW d \in Clients PROVE ClientT(d)'
    BY <1>3 DEF Case2, MainT, ControlType, ThreadType, FeedType, OwnerT, AcceptT, Moves, ClientT, Accepts, TableType
  <2> QED BY <2>1, <2>2, <2>3, <2>4 DEF MainT, Clients
<1> QED BY <1>1, <1>2, <1>3

LEMMA MessageReturnsT ==
  ASSUME MainT, NEW c \in Clients, Threaded!MessageReturns(c)
  PROVE  MainT'
<1> DEFINE Case1 ==
              /\ thread[c] = "message"
              /\ callback' = [callback EXCEPT ![c] = "none"]
              /\ thread' = [thread EXCEPT ![c] = "pop"]
              /\ UNCHANGED <<setting, running, stopper, acceptor, lastId, registered, closing, feed, snapshot, dropping>>
<1>1. Case1
  BY AtFieldsT, ClientsT DEF Threaded!MessageReturns, Threaded!Returned, Moves, Ended,
     Threaded!ownerVars, Threaded!acceptVars, Threaded!tableVars, Threaded!inputVars,
     Threaded!feedVars, Threaded!outputVars, Threaded!threadVars, Threaded!sendVars
<1> HIDE DEF Case1
<1>2. CASE Case1
  <2>1. ControlType(StopsT)' /\ FeedType' /\ ThreadType'
    BY <1>2, ConstantsOK, MovesType DEF Case1, MainT, ControlType, FeedType, ThreadType, AcceptT, StopsT,
       ThreadPlaces, Clients, Constants, TableType
  <2>2. TableType'
    BY <1>2, TableShrinks DEF Case1, MainT, ControlType, TableType
  <2>3. OwnerT' /\ AcceptT'
    BY <1>2 DEF Case1, MainT, ControlType, ThreadType, FeedType, OwnerT, AcceptT, Moves, Ended
  <2>4. ASSUME NEW d \in Clients PROVE ClientT(d)'
    BY <1>2 DEF Case1, MainT, ControlType, ThreadType, FeedType, OwnerT, AcceptT, Moves, ClientT, Accepts, TableType
  <2> QED BY <2>1, <2>2, <2>3, <2>4 DEF MainT, Clients
<1> QED BY <1>1, <1>2

LEMMA RunClientT ==
  ASSUME MainT, NEW c \in Clients, Threaded!run_client(c)
  PROVE  MainT'
<1> DEFINE Case1 ==
              /\ thread[c] = "leaving"
              /\ registered' = registered \ {c}
              /\ closing' = [closing EXCEPT ![c] = @ \/ c \in registered]
              /\ thread' = [thread EXCEPT ![c] = "notify"]
              /\ UNCHANGED <<setting, running, stopper, acceptor, lastId, callback, feed, snapshot, dropping>>
           Case2 ==
              /\ thread[c] = "notify"
              /\ callback' = [callback EXCEPT ![c] = "disconnected"]
              /\ feed' = [feed EXCEPT ![c] = "disconnected"]
              /\ thread' = [thread EXCEPT ![c] = "telling"]
              /\ UNCHANGED <<setting, running, stopper, acceptor, lastId, registered, closing, snapshot, dropping>>
           Case3 ==
              /\ thread[c] = "telling"
              /\ callback' = [callback EXCEPT ![c] = "none"]
              /\ thread' = [thread EXCEPT ![c] = "finished"]
              /\ UNCHANGED <<setting, running, stopper, acceptor, lastId, registered, closing, feed, snapshot, dropping>>
<1>1. Case1 \/ Case2 \/ Case3
  BY AtFieldsT, ClientsT DEF Threaded!run_client, Threaded!Drop, Threaded!on_disconnected, Threaded!Returned, Moves, Ended,
     Threaded!ownerVars, Threaded!acceptVars, Threaded!tableVars, Threaded!inputVars,
     Threaded!feedVars, Threaded!outputVars, Threaded!threadVars, Threaded!sendVars
<1> HIDE DEF Case1, Case2, Case3
<1>2. CASE Case1
  <2>1. ControlType(StopsT)' /\ FeedType' /\ ThreadType'
    BY <1>2, ConstantsOK, MovesType DEF Case1, MainT, ControlType, FeedType, ThreadType, AcceptT, StopsT,
       ThreadPlaces, Clients, Constants, TableType
  <2>2. TableType'
    BY <1>2, TableShrinks DEF Case1, MainT, ControlType, TableType
  <2>3. OwnerT' /\ AcceptT'
    BY <1>2 DEF Case1, MainT, ControlType, ThreadType, FeedType, OwnerT, AcceptT, Moves, Ended
  <2>4. ASSUME NEW d \in Clients PROVE ClientT(d)'
    <3>1. closing'[d] <=> closing[d] \/ (d = c /\ c \in registered)
      BY <1>2 DEF Case1, MainT, TableType
    <3>2. feed[d] # "new" => (d \in registered \cup snapshot \cup dropping \/ closing[d])'
      BY <1>2, <3>1 DEF Case1, MainT, ClientT
    <3>3. thread'[d] = IF d = c THEN "notify" ELSE thread[d]
      BY <1>2 DEF Case1, MainT, ThreadType
    <3>4. ClientT(d) /\ ClientT(c)
      BY DEF MainT
    <3> QED BY <1>2, <3>2, <3>3, <3>4 DEF Case1, ClientT, Accepts
  <2> QED BY <2>1, <2>2, <2>3, <2>4 DEF MainT, Clients
<1>3. CASE Case2
  <2>1. ControlType(StopsT)' /\ FeedType' /\ ThreadType'
    BY <1>3, ConstantsOK, MovesType DEF Case2, MainT, ControlType, FeedType, ThreadType, AcceptT, StopsT,
       ThreadPlaces, Clients, Constants, TableType
  <2>2. TableType'
    BY <1>3, TableShrinks DEF Case2, MainT, ControlType, TableType
  <2>3. OwnerT' /\ AcceptT'
    BY <1>3 DEF Case2, MainT, ControlType, ThreadType, FeedType, OwnerT, AcceptT, Moves, Ended
  <2>4. ASSUME NEW d \in Clients PROVE ClientT(d)'
    BY <1>3 DEF Case2, MainT, ControlType, ThreadType, FeedType, OwnerT, AcceptT, Moves, ClientT, Accepts, TableType
  <2> QED BY <2>1, <2>2, <2>3, <2>4 DEF MainT, Clients
<1>4. CASE Case3
  <2>1. ControlType(StopsT)' /\ FeedType' /\ ThreadType'
    BY <1>4, ConstantsOK, MovesType DEF Case3, MainT, ControlType, FeedType, ThreadType, AcceptT, StopsT,
       ThreadPlaces, Clients, Constants, TableType
  <2>2. TableType'
    BY <1>4, TableShrinks DEF Case3, MainT, ControlType, TableType
  <2>3. OwnerT' /\ AcceptT'
    BY <1>4 DEF Case3, MainT, ControlType, ThreadType, FeedType, OwnerT, AcceptT, Moves, Ended
  <2>4. ASSUME NEW d \in Clients PROVE ClientT(d)'
    BY <1>4 DEF Case3, MainT, ControlType, ThreadType, FeedType, OwnerT, AcceptT, Moves, ClientT, Accepts, TableType
  <2> QED BY <2>1, <2>2, <2>3, <2>4 DEF MainT, Clients
<1> QED BY <1>1, <1>2, <1>3, <1>4

LEMMA DisconnectT ==
  ASSUME MainT, NEW c \in Clients, Threaded!disconnect(c)
  PROVE  MainT'
<1> DEFINE Case1 ==
              /\ c \in registered
              /\ registered' = registered \ {c}
              /\ dropping' = dropping \cup {c}
              /\ UNCHANGED <<setting, running, stopper, acceptor, lastId, closing, callback, feed, thread, snapshot>>
<1>1. Case1
  BY AtFieldsT, ClientsT DEF Threaded!disconnect, Moves, Ended,
     Threaded!ownerVars, Threaded!acceptVars, Threaded!tableVars, Threaded!inputVars,
     Threaded!feedVars, Threaded!outputVars, Threaded!threadVars, Threaded!sendVars
<1> HIDE DEF Case1
<1>2. CASE Case1
  <2>1. ControlType(StopsT)' /\ FeedType' /\ ThreadType'
    BY <1>2, ConstantsOK, MovesType DEF Case1, MainT, ControlType, FeedType, ThreadType, AcceptT, StopsT,
       ThreadPlaces, Clients, Constants, TableType
  <2>2. TableType'
    BY <1>2, TableShrinks DEF Case1, MainT, ControlType, TableType
  <2>3. OwnerT' /\ AcceptT'
    BY <1>2 DEF Case1, MainT, ControlType, ThreadType, FeedType, OwnerT, AcceptT, Moves, Ended
  <2>4. ASSUME NEW d \in Clients PROVE ClientT(d)'
    BY <1>2 DEF Case1, MainT, ControlType, ThreadType, FeedType, OwnerT, AcceptT, Moves, ClientT, Accepts, TableType
  <2> QED BY <2>1, <2>2, <2>3, <2>4 DEF MainT, Clients
<1> QED BY <1>1, <1>2

LEMMA DisconnectClosesT ==
  ASSUME MainT, NEW c \in Clients, Threaded!DisconnectCloses(c)
  PROVE  MainT'
<1> DEFINE Case1 ==
              /\ c \in dropping
              /\ closing' = [closing EXCEPT ![c] = TRUE]
              /\ dropping' = dropping \ {c}
              /\ UNCHANGED <<setting, running, stopper, acceptor, lastId, registered, callback, feed, thread, snapshot>>
<1>1. Case1
  BY AtFieldsT, ClientsT DEF Threaded!DisconnectCloses, Threaded!shutdown_socket, Moves, Ended,
     Threaded!ownerVars, Threaded!acceptVars, Threaded!tableVars, Threaded!inputVars,
     Threaded!feedVars, Threaded!outputVars, Threaded!threadVars, Threaded!sendVars
<1> HIDE DEF Case1
<1>2. CASE Case1
  <2>1. ControlType(StopsT)' /\ FeedType' /\ ThreadType'
    BY <1>2, ConstantsOK, MovesType DEF Case1, MainT, ControlType, FeedType, ThreadType, AcceptT, StopsT,
       ThreadPlaces, Clients, Constants, TableType
  <2>2. TableType'
    BY <1>2, TableShrinks DEF Case1, MainT, ControlType, TableType
  <2>3. OwnerT' /\ AcceptT'
    BY <1>2 DEF Case1, MainT, ControlType, ThreadType, FeedType, OwnerT, AcceptT, Moves, Ended
  <2>4. ASSUME NEW d \in Clients PROVE ClientT(d)'
    BY <1>2 DEF Case1, MainT, ControlType, ThreadType, FeedType, OwnerT, AcceptT, Moves, ClientT, Accepts, TableType
  <2> QED BY <2>1, <2>2, <2>3, <2>4 DEF MainT, Clients
<1> QED BY <1>1, <1>2

LEMMA StopBeginsT ==
  ASSUME MainT, Threaded!StopBegins
  PROVE  MainT'
<1> DEFINE Case1 ==
              /\ stopper = "idle"
              /\ stopper' = "swap"
              /\ running' = FALSE
              /\ UNCHANGED <<setting, acceptor, lastId, registered, closing, callback, feed, thread, snapshot, dropping>>
<1>1. Case1
  BY AtFieldsT, ClientsT DEF Threaded!StopBegins, Threaded!Stops, Moves, Ended,
     Threaded!ownerVars, Threaded!acceptVars, Threaded!tableVars, Threaded!inputVars,
     Threaded!feedVars, Threaded!outputVars, Threaded!threadVars, Threaded!sendVars
<1> HIDE DEF Case1
<1>2. CASE Case1
  <2>1. ControlType(StopsT)' /\ FeedType' /\ ThreadType'
    BY <1>2, ConstantsOK, MovesType DEF Case1, MainT, ControlType, FeedType, ThreadType, AcceptT, StopsT,
       ThreadPlaces, Clients, Constants, TableType
  <2>2. TableType'
    BY <1>2, TableShrinks DEF Case1, MainT, ControlType, TableType
  <2>3. OwnerT' /\ AcceptT'
    BY <1>2 DEF Case1, MainT, ControlType, ThreadType, FeedType, OwnerT, AcceptT, Moves, Ended
  <2>4. ASSUME NEW d \in Clients PROVE ClientT(d)'
    BY <1>2 DEF Case1, MainT, ControlType, ThreadType, FeedType, OwnerT, AcceptT, Moves, ClientT, Accepts, TableType
  <2> QED BY <2>1, <2>2, <2>3, <2>4 DEF MainT, Clients
<1> QED BY <1>1, <1>2

LEMMA StopSwapsT ==
  ASSUME MainT, Threaded!StopSwaps
  PROVE  MainT'
<1> DEFINE Case1 ==
              /\ stopper = "swap"
              /\ stopper' = "disconnect"
              /\ snapshot' = registered
              /\ registered' = {}
              /\ UNCHANGED <<setting, running, acceptor, lastId, closing, callback, feed, thread, dropping>>
<1>1. Case1
  BY AtFieldsT, ClientsT DEF Threaded!StopSwaps, Threaded!Stops, Moves, Ended,
     Threaded!ownerVars, Threaded!acceptVars, Threaded!tableVars, Threaded!inputVars,
     Threaded!feedVars, Threaded!outputVars, Threaded!threadVars, Threaded!sendVars
<1> HIDE DEF Case1
<1>2. CASE Case1
  <2>1. ControlType(StopsT)' /\ FeedType' /\ ThreadType'
    BY <1>2, ConstantsOK, MovesType DEF Case1, MainT, ControlType, FeedType, ThreadType, AcceptT, StopsT,
       ThreadPlaces, Clients, Constants, TableType
  <2>2. TableType'
    BY <1>2, TableShrinks DEF Case1, MainT, ControlType, TableType
  <2>3. OwnerT' /\ AcceptT'
    BY <1>2 DEF Case1, MainT, ControlType, ThreadType, FeedType, OwnerT, AcceptT, Moves, Ended
  <2>4. ASSUME NEW d \in Clients PROVE ClientT(d)'
    BY <1>2 DEF Case1, MainT, ControlType, ThreadType, FeedType, OwnerT, AcceptT, Moves, ClientT, Accepts, TableType
  <2> QED BY <2>1, <2>2, <2>3, <2>4 DEF MainT, Clients
<1> QED BY <1>1, <1>2

LEMMA StopDisconnectsT ==
  ASSUME MainT, Threaded!StopDisconnects
  PROVE  MainT'
<1> DEFINE Case1 ==
              /\ stopper = "disconnect"
              /\ \E c \in snapshot : closing' = [closing EXCEPT ![c] = TRUE] /\ snapshot' = snapshot \ {c}
              /\ UNCHANGED <<setting, running, stopper, acceptor, lastId, registered, callback, feed, thread, dropping>>
           Case2 ==
              /\ stopper = "disconnect"
              /\ snapshot = {}
              /\ stopper' = "joinAccept"
              /\ UNCHANGED <<setting, running, acceptor, lastId, registered, closing, callback, feed, thread, snapshot, dropping>>
<1>1. Case1 \/ Case2
  BY AtFieldsT, ClientsT DEF Threaded!StopDisconnects, Threaded!shutdown_socket, Moves, Ended,
     Threaded!ownerVars, Threaded!acceptVars, Threaded!tableVars, Threaded!inputVars,
     Threaded!feedVars, Threaded!outputVars, Threaded!threadVars, Threaded!sendVars
<1> HIDE DEF Case1, Case2
<1>2. CASE Case1
  <2>1. ControlType(StopsT)' /\ FeedType' /\ ThreadType'
    BY <1>2, ConstantsOK, MovesType DEF Case1, MainT, ControlType, FeedType, ThreadType, AcceptT, StopsT,
       ThreadPlaces, Clients, Constants, TableType
  <2>2. TableType'
    BY <1>2, TableShrinks DEF Case1, MainT, ControlType, TableType
  <2>3. OwnerT' /\ AcceptT'
    BY <1>2 DEF Case1, MainT, ControlType, ThreadType, FeedType, OwnerT, AcceptT, Moves, Ended
  <2>4. ASSUME NEW d \in Clients PROVE ClientT(d)'
    BY <1>2 DEF Case1, MainT, ControlType, ThreadType, FeedType, OwnerT, AcceptT, Moves, ClientT, Accepts, TableType
  <2> QED BY <2>1, <2>2, <2>3, <2>4 DEF MainT, Clients
<1>3. CASE Case2
  <2>1. ControlType(StopsT)' /\ FeedType' /\ ThreadType'
    BY <1>3, ConstantsOK, MovesType DEF Case2, MainT, ControlType, FeedType, ThreadType, AcceptT, StopsT,
       ThreadPlaces, Clients, Constants, TableType
  <2>2. TableType'
    BY <1>3, TableShrinks DEF Case2, MainT, ControlType, TableType
  <2>3. OwnerT' /\ AcceptT'
    BY <1>3 DEF Case2, MainT, ControlType, ThreadType, FeedType, OwnerT, AcceptT, Moves, Ended
  <2>4. ASSUME NEW d \in Clients PROVE ClientT(d)'
    BY <1>3 DEF Case2, MainT, ControlType, ThreadType, FeedType, OwnerT, AcceptT, Moves, ClientT, Accepts, TableType
  <2> QED BY <2>1, <2>2, <2>3, <2>4 DEF MainT, Clients
<1> QED BY <1>1, <1>2, <1>3

LEMMA StopJoinsT ==
  ASSUME MainT, Threaded!StopJoins
  PROVE  MainT'
<1> DEFINE Case1 ==
              /\ stopper = "joinAccept"
              /\ acceptor.at = "exited"
              /\ stopper' = "joinClients"
              /\ UNCHANGED <<setting, running, acceptor, lastId, registered, closing, callback, feed, thread, snapshot, dropping>>
           Case2 ==
              /\ stopper = "joinClients"
              /\ stopper' = "returned"
              /\ \A c \in Clients : thread[c] \in Ended
              /\ UNCHANGED <<setting, running, acceptor, lastId, registered, closing, callback, feed, thread, snapshot, dropping>>
<1>1. Case1 \/ Case2
  BY AtFieldsT, ClientsT DEF Threaded!StopJoins, Threaded!Stops, Threaded!Clients, Moves, Ended,
     Threaded!ownerVars, Threaded!acceptVars, Threaded!tableVars, Threaded!inputVars,
     Threaded!feedVars, Threaded!outputVars, Threaded!threadVars, Threaded!sendVars
<1> HIDE DEF Case1, Case2
<1>2. CASE Case1
  <2>1. ControlType(StopsT)' /\ FeedType' /\ ThreadType'
    BY <1>2, ConstantsOK, MovesType DEF Case1, MainT, ControlType, FeedType, ThreadType, AcceptT, StopsT,
       ThreadPlaces, Clients, Constants, TableType
  <2>2. TableType'
    BY <1>2, TableShrinks DEF Case1, MainT, ControlType, TableType
  <2>3. OwnerT' /\ AcceptT'
    BY <1>2 DEF Case1, MainT, ControlType, ThreadType, FeedType, OwnerT, AcceptT, Moves, Ended
  <2>4. ASSUME NEW d \in Clients PROVE ClientT(d)'
    BY <1>2 DEF Case1, MainT, ControlType, ThreadType, FeedType, OwnerT, AcceptT, Moves, ClientT, Accepts, TableType
  <2> QED BY <2>1, <2>2, <2>3, <2>4 DEF MainT, Clients
<1>3. CASE Case2
  <2>1. ControlType(StopsT)' /\ FeedType' /\ ThreadType'
    BY <1>3, ConstantsOK, MovesType DEF Case2, MainT, ControlType, FeedType, ThreadType, AcceptT, StopsT,
       ThreadPlaces, Clients, Constants, TableType
  <2>2. TableType'
    BY <1>3, TableShrinks DEF Case2, MainT, ControlType, TableType
  <2>3. OwnerT' /\ AcceptT'
    BY <1>3 DEF Case2, MainT, ControlType, ThreadType, FeedType, OwnerT, AcceptT, Moves, Ended
  <2>4. ASSUME NEW d \in Clients PROVE ClientT(d)'
    BY <1>3 DEF Case2, MainT, ControlType, ThreadType, FeedType, OwnerT, AcceptT, Moves, ClientT, Accepts, TableType
  <2> QED BY <2>1, <2>2, <2>3, <2>4 DEF MainT, Clients
<1> QED BY <1>1, <1>2, <1>3
-----------------------------------------------------------------------------
\* A send of the threaded backend: only caller a moves, to the record r.
Second(a, c) == sender[a].client = c /\ sender[a].at = "write2"

LEMMA SenderMoves ==
  ASSUME OutT, NEW a \in Callers, NEW r \in SenderRecord, sender' = [sender EXCEPT ![a] = r],
         r = Threaded!Idle \/ (/\ r.at \in {"lock", "write1", "write2"}
                               /\ r.client \in Clients /\ r.message \in Messages)
  PROVE  /\ sender' \in [Callers -> SenderRecord] /\ sender'[a] = r
         /\ \A b \in Callers : b # a => sender'[b] = sender[b]
         /\ \A b \in Callers : SenderT(b)'
<1>1. /\ sender' \in [Callers -> SenderRecord] /\ sender'[a] = r
      /\ \A b \in Callers : b # a => sender'[b] = sender[b]
  BY DEF OutT, SendType
<1>2. ASSUME NEW b \in Callers PROVE SenderT(b)'
  BY <1>1 DEF OutT, SenderT, Messages, Clients
<1> QED BY <1>1, <1>2

LEMMA WireSameT ==
  ASSUME NEW c \in Clients, WireT(c), wire'[c] = wire[c], sendLock'[c] = sendLock[c],
         closing' = closing,
         \A b \in Callers : Writing(b, c)' <=> Writing(b, c),
         \A b \in Callers : Second(b, c)' <=> Second(b, c),
         \A b \in Callers : Second(b, c) => sender'[b] = sender[b]
  PROVE  WireT(c)'
<1>1. Writable(c)' <=> Writable(c)
  BY DEF Writable
<1> QED BY <1>1 DEF WireT, Second, Callers

LEMMA IdleT ==
  /\ Threaded!Idle \in SenderRecord /\ Threaded!Idle.at = "idle" /\ Threaded!Idle.client = 0
BY ConstantsOK DEF Threaded!Idle, SenderRecord, Constants

LEMMA SendT ==
  ASSUME OutT, MainT, NEW a \in Callers, NEW c \in Clients, Threaded!send(a, c)
  PROVE  OutT'
<1>1. /\ sender[a].at = "idle" /\ c \in registered /\ sent < setting.sends /\ sent' = sent + 1
      /\ UNCHANGED <<setting, closing, wire, sendLock>>
  BY IdleT DEF Threaded!send, Threaded!MayCall, Threaded!ownerVars, Threaded!tableVars
<1>2. sent \in Nat /\ setting.sends \in Nat /\ setting.sends <= MaxSends /\ MaxSends \in Nat
  BY SettingOK, ConstantsOK DEF MainT, ControlType, OutT, OutputType, Constants
<1>3. PICK r \in SenderRecord :
        /\ r.at = "lock" /\ r.client = c /\ r.message = sent + 1
        /\ sender' = [sender EXCEPT ![a] = r]
  <2>1. [at |-> "lock", client |-> c, message |-> sent + 1] \in SenderRecord
    BY <1>1, <1>2, ConstantsOK DEF SenderRecord, Clients, Constants
  <2> QED BY <2>1 DEF Threaded!send
<1>4. r.message \in Messages
  BY <1>1, <1>2, <1>3 DEF Messages
<1>5. /\ sender' \in [Callers -> SenderRecord] /\ sender'[a] = r
      /\ \A b \in Callers : b # a => sender'[b] = sender[b]
      /\ \A b \in Callers : SenderT(b)'
  BY <1>3, <1>4, SenderMoves
<1>6. ASSUME NEW d \in Clients PROVE WireT(d)'
  <2>1. \A b \in Callers : (Writing(b, d)' <=> Writing(b, d)) /\ (Second(b, d)' <=> Second(b, d))
                           /\ (Second(b, d) => sender'[b] = sender[b])
    BY <1>1, <1>3, <1>5 DEF Writing, Second
  <2> QED BY <1>1, <2>1, WireSameT DEF OutT
<1>7. OutputType' /\ SendType'
  BY <1>1, <1>2, <1>5 DEF OutT, OutputType, SendType, Clients, Callers
<1> QED BY <1>5, <1>6, <1>7 DEF OutT, Callers, Clients

LEMMA SendLocksT ==
  ASSUME OutT, NEW a \in Callers, Threaded!SendLocks(a)
  PROVE  OutT'
<1>1. PICK c \in Clients : c = sender[a].client /\ sender[a].message \in Messages
  BY IdleT DEF OutT, SenderT, Threaded!SendLocks
<1>2. /\ sender[a].at = "lock" /\ sendLock[c] = {} /\ UNCHANGED <<closing, wire, sent>>
  BY <1>1 DEF Threaded!SendLocks, Threaded!serverVars, Threaded!tableVars, Threaded!outputVars
<1>3. CASE closing[c]
  <2>1. sender' = [sender EXCEPT ![a] = Threaded!Idle] /\ sendLock' = sendLock
    BY <1>1, <1>3 DEF Threaded!SendLocks
  <2>2. /\ sender' \in [Callers -> SenderRecord] /\ sender'[a] = Threaded!Idle
        /\ \A b \in Callers : b # a => sender'[b] = sender[b]
        /\ \A b \in Callers : SenderT(b)'
    BY <2>1, IdleT, SenderMoves
  <2>3. ASSUME NEW d \in Clients PROVE WireT(d)'
    <3>1. \A b \in Callers : (Writing(b, d)' <=> Writing(b, d)) /\ (Second(b, d)' <=> Second(b, d))
                             /\ (Second(b, d) => sender'[b] = sender[b])
      BY <1>2, <2>2, IdleT DEF Writing, Second
    <3> QED BY <1>2, <2>1, <3>1, WireSameT DEF OutT
  <2> QED BY <1>2, <2>1, <2>2, <2>3 DEF OutT, OutputType, SendType, Clients, Callers
<1>4. CASE ~closing[c]
  <2>1. PICK r \in SenderRecord :
          /\ r.at = "write1" /\ r.client = c /\ r.message = sender[a].message
          /\ sender' = [sender EXCEPT ![a] = r] /\ sendLock' = [sendLock EXCEPT ![c] = {a}]
    <3>1. sender' = [sender EXCEPT ![a].at = "write1"] /\ sendLock' = [sendLock EXCEPT ![c] = {a}]
      BY <1>1, <1>4 DEF Threaded!SendLocks
    <3>2. sender[a] \in SenderRecord
      BY DEF OutT, SendType
    <3>3. /\ [sender[a] EXCEPT !.at = "write1"] \in SenderRecord
          /\ [sender[a] EXCEPT !.at = "write1"].at = "write1"
          /\ [sender[a] EXCEPT !.at = "write1"].client = c
          /\ [sender[a] EXCEPT !.at = "write1"].message = sender[a].message
      BY <1>1, <3>2 DEF SenderRecord
    <3> QED BY <3>1, <3>3
  <2>2. /\ sender' \in [Callers -> SenderRecord] /\ sender'[a] = r
        /\ \A b \in Callers : b # a => sender'[b] = sender[b]
        /\ \A b \in Callers : SenderT(b)'
    BY <1>1, <2>1, SenderMoves
  <2>3. /\ sendLock' \in [Clients -> SUBSET Callers] /\ sendLock'[c] = {a}
        /\ \A d \in Clients : d # c => sendLock'[d] = sendLock[d]
    BY <2>1 DEF OutT, SendType
  <2>4. ASSUME NEW d \in Clients PROVE WireT(d)'
    <3>1. CASE d # c
      <4>1. \A b \in Callers : (Writing(b, d)' <=> Writing(b, d)) /\ (Second(b, d)' <=> Second(b, d))
                               /\ (Second(b, d) => sender'[b] = sender[b])
        BY <1>1, <1>2, <2>1, <2>2, <3>1 DEF Writing, Second
      <4> QED BY <1>2, <2>3, <3>1, <4>1, WireSameT DEF OutT
    <3>2. CASE d = c
      <4>1. WireT(c)
        BY DEF OutT
      <4>2. \A b \in Callers : ~Writing(b, c)
        BY <1>2, <4>1 DEF WireT, Callers
      <4>3. \A b \in Callers : Writing(b, c)' <=> b = a
        BY <2>1, <2>2, <4>2 DEF Writing
      <4>4. \A b \in Callers : ~Second(b, c) /\ ~Second(b, c)'
        BY <2>1, <2>2, <4>2 DEF Writing, Second
      <4>5. Writable(c)' <=> Writable(c)
        BY <1>2 DEF Writable
      <4>6. Whole(wire'[c]) /\ (Writable(c)' => Complete(wire'[c]))
        BY <1>2, <4>1, <4>4, <4>5 DEF WireT, Second, Callers
      <4> QED BY <2>3, <3>2, <4>3, <4>4, <4>6 DEF WireT, Second, Callers
    <3> QED BY <3>1, <3>2
  <2> QED BY <1>2, <2>2, <2>3, <2>4 DEF OutT, OutputType, SendType, Clients, Callers
<1> QED BY <1>3, <1>4

\* The owner of the send mutex of c has written, or given up.
LEMMA OwnerWrites ==
  ASSUME OutT, NEW a \in Callers, NEW c \in Clients, Writing(a, c), NEW w \in Seq(Piece), Whole(w),
         wire' = [wire EXCEPT ![c] = w], sent' = sent, closing' = closing,
         NEW r \in SenderRecord, sender' = [sender EXCEPT ![a] = r],
         \/ r = Threaded!Idle /\ sendLock' = [sendLock EXCEPT ![c] = {}]
         \/ r.at = "write2" /\ r.client = c /\ r.message \in Messages /\ sendLock' = sendLock,
         Writable(c)' => IF r = Threaded!Idle THEN Complete(w) ELSE HalfOf(w, r.message)
  PROVE  OutT'
<1>1. /\ sender' \in [Callers -> SenderRecord] /\ sender'[a] = r
      /\ \A b \in Callers : b # a => sender'[b] = sender[b]
      /\ \A b \in Callers : SenderT(b)'
  BY SenderMoves
<1>2. /\ wire' \in [Clients -> Seq(Piece)] /\ wire'[c] = w
      /\ \A d \in Clients : d # c => wire'[d] = wire[d]
  BY DEF OutT, OutputType
<1>3. /\ sendLock' \in [Clients -> SUBSET Callers]
      /\ sendLock'[c] = IF r = Threaded!Idle THEN {} ELSE sendLock[c]
      /\ \A d \in Clients : d # c => sendLock'[d] = sendLock[d]
  BY IdleT DEF OutT, SendType
<1>4. sendLock[c] = {a} /\ \A b \in Callers : Writing(b, c) <=> b = a
  BY DEF OutT, WireT, Callers
<1>5. ASSUME NEW d \in Clients PROVE WireT(d)'
  <2>1. CASE d # c
    <3>1. \A b \in Callers : (Writing(b, d)' <=> Writing(b, d)) /\ (Second(b, d)' <=> Second(b, d))
                             /\ (Second(b, d) => sender'[b] = sender[b])
      BY <1>1, <2>1, IdleT DEF Writing, Second
    <3> QED BY <1>2, <1>3, <2>1, <3>1, WireSameT DEF OutT
  <2>2. CASE d = c
    <3>1. \A b \in Callers : Writing(b, c)' <=> b = a /\ r # Threaded!Idle
      BY <1>1, <1>4, IdleT DEF Writing
    <3>2. \A b \in Callers : Second(b, c)' <=> b = a /\ r # Threaded!Idle
      BY <1>1, <1>4, IdleT DEF Writing, Second
    <3> QED BY <1>1, <1>2, <1>3, <1>4, <2>2, <3>1, <3>2 DEF WireT, Second, Callers
  <2> QED BY <2>1, <2>2
<1> QED BY <1>1, <1>2, <1>3, <1>5 DEF OutT, OutputType, SendType, Clients, Callers

LEMMA SendWritesT ==
  ASSUME OutT, NEW a \in Callers, Threaded!SendWrites(a)
  PROVE  OutT'
<1>1. /\ sender[a].at \in {"write1", "write2"} /\ sender[a] \in SenderRecord
      /\ UNCHANGED <<sent, closing>>
  BY DEF Threaded!SendWrites, Threaded!tableVars, OutT, SendType
<1>2. PICK c \in Clients, m \in Messages : c = sender[a].client /\ m = sender[a].message
  BY <1>1, IdleT DEF OutT, SenderT
<1>3. Writing(a, c) /\ Writable(c) /\ wire[c] \in Seq(Piece) /\ WireT(c)
  BY <1>1, <1>2, SameT DEF Writing, Threaded!SendWrites, OutT, OutputType
<1>4. CASE sender[a].at = "write1"
  <2>1. /\ wire' = [wire EXCEPT ![c] = Append(wire[c], PieceOf(m, 1))] /\ sendLock' = sendLock
        /\ sender' = [sender EXCEPT ![a].at = "write2"]
    BY <1>2, <1>4, SameT DEF Threaded!SendWrites, Threaded!Write, OutT, OutputType
  <2>2. PICK r \in SenderRecord :
          r.at = "write2" /\ r.client = c /\ r.message = m /\ sender' = [sender EXCEPT ![a] = r]
    <3>1. /\ [sender[a] EXCEPT !.at = "write2"] \in SenderRecord
          /\ [sender[a] EXCEPT !.at = "write2"].at = "write2"
          /\ [sender[a] EXCEPT !.at = "write2"].client = c
          /\ [sender[a] EXCEPT !.at = "write2"].message = m
      BY <1>1, <1>2 DEF SenderRecord
    <3> QED BY <2>1, <3>1
  <2>3. Complete(wire[c]) /\ Whole(wire[c])
    BY <1>2, <1>3, <1>4 DEF WireT, Writing, Callers
  <2>4. PICK w \in Seq(Piece) :
          w = Append(wire[c], PieceOf(m, 1)) /\ Whole(w) /\ HalfOf(w, m)
    BY <1>3, <2>3, FirstPiece
  <2>5. r # Threaded!Idle /\ wire' = [wire EXCEPT ![c] = w] /\ r.message \in Messages
    BY <2>1, <2>2, <2>4, IdleT
  <2> QED BY <1>1, <1>3, <2>1, <2>2, <2>4, <2>5, OwnerWrites
<1>5. CASE sender[a].at = "write2"
  <2>1. /\ wire' = [wire EXCEPT ![c] = Append(wire[c], PieceOf(m, 2))]
        /\ sender' = [sender EXCEPT ![a] = Threaded!Idle] /\ sendLock' = [sendLock EXCEPT ![c] = {}]
    BY <1>2, <1>5, SameT DEF Threaded!SendWrites, Threaded!Write, OutT, OutputType
  <2>2. HalfOf(wire[c], m) /\ Whole(wire[c])
    BY <1>2, <1>3, <1>5 DEF WireT, Callers
  <2>3. PICK w \in Seq(Piece) :
          w = Append(wire[c], PieceOf(m, 2)) /\ Whole(w) /\ Complete(w)
    BY <1>3, <2>2, SecondPiece
  <2> QED BY <1>1, <1>3, <2>1, <2>3, IdleT, OwnerWrites
<1> QED BY <1>1, <1>4, <1>5

LEMMA SendFailsT ==
  ASSUME OutT, NEW a \in Callers, Threaded!SendFails(a)
  PROVE  OutT'
<1>1. sender[a].at \in {"write1", "write2"} /\ UNCHANGED <<sent, closing>>
  BY DEF Threaded!SendFails, Threaded!tableVars
<1>2. PICK c \in Clients : c = sender[a].client
  BY <1>1, IdleT DEF OutT, SenderT
<1>3. Writing(a, c) /\ wire[c] \in Seq(Piece) /\ Whole(wire[c])
      /\ sender' = [sender EXCEPT ![a] = Threaded!Idle] /\ sendLock' = [sendLock EXCEPT ![c] = {}]
  BY <1>1, <1>2 DEF Writing, Threaded!SendFails, OutT, OutputType, WireT
<1>4. CASE Writable(c)
  <2>1. wire' = [wire EXCEPT ![c] = Append(wire[c], End)]
    BY <1>2, <1>4, SameT DEF Threaded!SendFails, Threaded!Write, OutT, OutputType
  <2>2. PICK w \in Seq(Piece) : w = Append(wire[c], End) /\ Whole(w) /\ End \in Range(w)
    BY <1>3, EndPiece
  <2>3. ~Writable(c)'
    BY <2>1, <2>2 DEF Writable, OutT, OutputType
  <2> QED BY <1>1, <1>3, <2>1, <2>2, <2>3, IdleT, OwnerWrites
<1>5. CASE ~Writable(c)
  <2>1. wire' = wire
    BY <1>2, <1>5, SameT DEF Threaded!SendFails
  <2>2. wire' = [wire EXCEPT ![c] = wire[c]] /\ ~Writable(c)'
    BY <1>1, <1>5, <2>1 DEF Writable, OutT, OutputType
  <2> QED BY <1>1, <1>3, <2>2, IdleT, OwnerWrites
<1> QED BY <1>4, <1>5

\* What each step of the threaded backend does with the input.
LEMMA DeliversT ==
  ASSUME IsThreaded, setting' = setting
  PROVE  DeliversLess
BY DEF DeliversLess, Delivers, IsThreaded

LEMMA InputOtherT ==
  ASSUME InputInv, IsThreaded, setting' = setting, UNCHANGED <<framer, read, lines>>
  PROVE  InputInv'
BY DeliversT, InputSame

LEMMA ReadInputT ==
  ASSUME InputInv, MainT, IsThreaded, NEW c \in Clients, Threaded!Read(c)
  PROVE  InputInv'
<1>1. setting' = setting /\ lines' = lines
  BY DEF Threaded!Read, Threaded!ownerVars, Threaded!feedVars
<1>2. PICK k : Threaded!Receive(c, k)
  BY DEF Threaded!Read
<1>3. Receive(c, k)
  BY <1>2, SameT, FramerSameT DEF Threaded!Receive, Receive, InputInv
<1> QED BY <1>1, <1>3, DeliversT, InputReceive DEF MainT, ControlType

LEMMA DeliverLineInputT ==
  ASSUME InputInv, MainT, IsThreaded, NEW c \in Clients, Threaded!DeliverLine(c)
  PROVE  InputInv'
<1>1. setting' = setting /\ read' = read
  BY DEF Threaded!DeliverLine, Threaded!ownerVars
<1>2. CASE ~closing[c] /\ CanPop(framer[c])
  <2>1. Threaded!on_message(c)
    BY <1>2, FramerSameT DEF Threaded!DeliverLine
  <2>2. /\ lines' = [lines EXCEPT ![c] = Append(@, Popped(framer[c]))]
        /\ framer' = [framer EXCEPT ![c] = try_pop(@)]
    BY <2>1, FramerSameT DEF Threaded!on_message
  <2>3. Delivers(c)
    BY DEF Delivers
  <2> QED BY <1>1, <1>2, <2>2, <2>3, DeliversT, InputPop DEF MainT, ControlType
<1>3. CASE ~(~closing[c] /\ CanPop(framer[c]))
  <2>1. UNCHANGED <<framer, lines>>
    BY <1>3, FramerSameT DEF Threaded!DeliverLine, Threaded!feedVars
  <2> QED BY <1>1, <2>1, InputOtherT
<1> QED BY <1>2, <1>3

LEMMA StepT ==
  ASSUME InputInv, MainT, OutT, IsThreaded, Threaded!Next
  PROVE  InputInv' /\ MainT' /\ OutT'
<1> USE DEF Threaded!ownerVars, Threaded!acceptVars, Threaded!tableVars, Threaded!inputVars,
     Threaded!feedVars, Threaded!outputVars, Threaded!threadVars, Threaded!sendVars, Threaded!serverVars
<1>0. closing \in [Clients -> BOOLEAN]
  BY DEF MainT, TableType
<1>1. CASE Threaded!start
  BY <1>1, StartT, OutSameT, InputOtherT DEF Threaded!start
<1>2. CASE Threaded!StopBegins
  BY <1>2, StopBeginsT, OutSameT, InputOtherT DEF Threaded!StopBegins
<1>3. CASE Threaded!StopSwaps
  BY <1>3, StopSwapsT, OutSameT, InputOtherT DEF Threaded!StopSwaps
<1>4. CASE Threaded!StopDisconnects
  <2>1. \A c \in Clients : closing[c] => closing'[c]
    BY <1>0, <1>4 DEF Threaded!StopDisconnects, Threaded!shutdown_socket
  <2> QED BY <1>4, <2>1, StopDisconnectsT, OutSameT, InputOtherT DEF Threaded!StopDisconnects
<1>5. CASE Threaded!StopJoins
  BY <1>5, StopJoinsT, OutSameT, InputOtherT DEF Threaded!StopJoins
<1>6. CASE Threaded!accept_loop
  BY <1>6, AcceptLoopT, OutSameT, InputOtherT DEF Threaded!accept_loop
<1>7. CASE Threaded!Register
  BY <1>7, RegisterT, OutSameT, InputOtherT DEF Threaded!Register, Threaded!on_connected
<1>8. CASE Threaded!launch_client
  <2>1. \A c \in Clients : closing[c] => closing'[c]
    BY <1>0, <1>8 DEF Threaded!launch_client, Threaded!Drop
  <2> QED BY <1>8, <2>1, LaunchClientT, OutSameT, InputOtherT DEF Threaded!launch_client, Threaded!Returned
<1>9. CASE Threaded!LaunchFailed
  BY <1>9, LaunchFailedT, OutSameT, InputOtherT
     DEF Threaded!LaunchFailed, Threaded!Returned, Threaded!on_disconnected
<1>10. ASSUME NEW c \in Clients, Threaded!Read(c) PROVE InputInv' /\ MainT' /\ OutT'
  BY <1>10, ReadT, OutSameT, ReadInputT DEF Threaded!Read
<1>11. ASSUME NEW c \in Clients, Threaded!ReadEnds(c) PROVE InputInv' /\ MainT' /\ OutT'
  BY <1>11, ReadEndsT, OutSameT, InputOtherT DEF Threaded!ReadEnds
<1>12. ASSUME NEW c \in Clients, Threaded!DeliverLine(c) PROVE InputInv' /\ MainT' /\ OutT'
  BY <1>12, DeliverLineT, OutSameT, DeliverLineInputT DEF Threaded!DeliverLine
<1>13. ASSUME NEW c \in Clients, Threaded!MessageReturns(c) PROVE InputInv' /\ MainT' /\ OutT'
  BY <1>13, MessageReturnsT, OutSameT, InputOtherT DEF Threaded!MessageReturns, Threaded!Returned
<1>14. ASSUME NEW c \in Clients, Threaded!run_client(c) PROVE InputInv' /\ MainT' /\ OutT'
  <2>1. \A d \in Clients : closing[d] => closing'[d]
    BY <1>0, <1>14 DEF Threaded!run_client, Threaded!Drop
  <2>2. UNCHANGED <<setting, framer, read, lines, sent, wire, sender, sendLock>>
    BY <1>14 DEF Threaded!run_client, Threaded!Returned, Threaded!on_disconnected
  <2> QED BY <1>14, <2>1, <2>2, RunClientT, OutSameT, InputOtherT
<1>15. ASSUME NEW c \in Clients, Threaded!disconnect(c) PROVE InputInv' /\ MainT' /\ OutT'
  BY <1>15, DisconnectT, OutSameT, InputOtherT DEF Threaded!disconnect
<1>16. ASSUME NEW c \in Clients, Threaded!DisconnectCloses(c) PROVE InputInv' /\ MainT' /\ OutT'
  <2>1. \A d \in Clients : closing[d] => closing'[d]
    BY <1>0, <1>16 DEF Threaded!DisconnectCloses, Threaded!shutdown_socket
  <2> QED BY <1>16, <2>1, DisconnectClosesT, OutSameT, InputOtherT DEF Threaded!DisconnectCloses
<1>17. ASSUME NEW a \in Callers, NEW c \in Clients, Threaded!send(a, c)
       PROVE  InputInv' /\ MainT' /\ OutT'
  BY <1>17, SendT, MainSameT, InputOtherT DEF Threaded!send, ownerVars, acceptVars, tableVars
<1>18. ASSUME NEW a \in Callers, Threaded!SendLocks(a) PROVE InputInv' /\ MainT' /\ OutT'
  BY <1>18, SendLocksT, MainSameT, InputOtherT DEF Threaded!SendLocks, ownerVars, acceptVars, tableVars
<1>19. ASSUME NEW a \in Callers, Threaded!SendWrites(a) PROVE InputInv' /\ MainT' /\ OutT'
  BY <1>19, SendWritesT, MainSameT, InputOtherT DEF Threaded!SendWrites, ownerVars, acceptVars, tableVars
<1>20. ASSUME NEW a \in Callers, Threaded!SendFails(a) PROVE InputInv' /\ MainT' /\ OutT'
  BY <1>20, SendFailsT, MainSameT, InputOtherT DEF Threaded!SendFails, ownerVars, acceptVars, tableVars
<1> HIDE DEF Threaded!ownerVars, Threaded!acceptVars, Threaded!tableVars, Threaded!inputVars,
     Threaded!feedVars, Threaded!outputVars, Threaded!threadVars, Threaded!sendVars, Threaded!serverVars
<1> QED BY <1>1, <1>2, <1>3, <1>4, <1>5, <1>6, <1>7, <1>8, <1>9, <1>10, <1>11, <1>12, <1>13, <1>14,
           <1>15, <1>16, <1>17, <1>18, <1>19, <1>20, ClientsT
        DEF Threaded!Next, Threaded!stop, Threaded!AcceptThread, Callers
-----------------------------------------------------------------------------
(***************************************************************************)
(* The IOCP backend, step by step.                                         *)
(***************************************************************************)
Actors == Iocp!Actors
NoSend == Iocp!NoSend
SendOp == Iocp!SendOp
StopsI == {"configured", "idle", "failed", "joinAccept", "joinMonitor", "close", "drain", "wake",
           "joinWorkers", "returned"}
WorkPlaces == {"none", "wait", "drop", "release", "begin", "pop", "message", "overflow", "leave",
               "post", "sent", "failed", "exited"}
WorkRecord == [at : WorkPlaces, client : 0..MaxClients, op : SendOp]
EndingRecord == [at : {"none", "ask", "telling"}, client : 0..MaxClients]
AppRecord == [at : {"idle", "send", "failed"}, client : 0..MaxClients, message : 0..MaxSends]

WorkType == worker \in [Workers -> WorkRecord] /\ monitor \in {"none", "scan", "exited"}
OpType ==
  /\ receiveOp \subseteq Clients /\ sendOp \in [Clients -> SendOp]
  /\ sendQueue \in [Clients -> Seq(Messages)] /\ sendBusy \in [Clients -> BOOLEAN]
ScopeType == active \in [Clients -> 0..1] /\ deferred \in [Clients -> BOOLEAN]
EndingType == ending \in [Actors -> EndingRecord]
AppType == app \in AppRecord
WakeType == wakes \in 0..Cardinality(Workers)

LEMMA SameI ==
  /\ Iocp!Clients = Clients /\ Iocp!Messages = Messages
  /\ Iocp!Acceptor = Acceptor /\ Iocp!Piece = Piece /\ Iocp!End = End
  /\ Iocp!MaxConnections = MaxConnections /\ Iocp!AtCapacity = AtCapacity
  /\ \A S : Iocp!Cardinality(S) = Cardinality(S)
  /\ \A m, i : Iocp!PieceOf(m, i) = PieceOf(m, i)
  /\ \A c : Iocp!Input(c) = Input(c) /\ Iocp!Writable(c) = Writable(c)
<1>1. /\ Iocp!Clients = Clients /\ Iocp!Messages = Messages
      /\ Iocp!End = End /\ Iocp!MaxConnections = MaxConnections
  BY DEF Iocp!Clients, Clients, Iocp!Messages, Messages, Iocp!End, End, Iocp!PieceOf, PieceOf,
     Iocp!MaxConnections, MaxConnections
<1>2. Iocp!Piece = Piece /\ Iocp!Acceptor = Acceptor
  BY <1>1 DEF Iocp!Acceptor, Acceptor, Iocp!Piece, Piece
<1>4. \A m, i : Iocp!PieceOf(m, i) = PieceOf(m, i)
  BY DEF Iocp!PieceOf, PieceOf
<1>5. \A c : Iocp!Input(c) = Input(c)
  BY DEF Iocp!Input, Input
<1>8. \A S : Iocp!Cardinality(S) = Cardinality(S)
  BY DEF Iocp!Cardinality, Cardinality
<1>6. Iocp!AtCapacity = AtCapacity
  BY <1>1, <1>8 DEF Iocp!AtCapacity, AtCapacity
<1>7. \A c : Iocp!Writable(c) = Writable(c)
  BY <1>1 DEF Iocp!Writable, Writable, Iocp!Range, Range
<1> QED BY <1>1, <1>2, <1>4, <1>5, <1>6, <1>7, <1>8

LEMMA FramerSameI ==
  /\ \A f : Iocp!CanPop(f) = CanPop(f) /\ Iocp!Popped(f) = Popped(f)
            /\ Iocp!try_pop(f) = try_pop(f)
  /\ \A f, b, m : Iocp!append(f, b, m) = append(f, b, m)
<1>1. \A f : Iocp!CanPop(f) = CanPop(f)
  BY DEF Iocp!CanPop, CanPop, Iocp!Newlines, Newlines, Iocp!LF, LF
<1>2. \A f : Iocp!Newline(f) = Newline(f)
  BY DEF Iocp!Newline, Newline, Iocp!Newlines, Newlines, Iocp!LF, LF
<1>3. \A f : Iocp!Popped(f) = Popped(f) /\ Iocp!try_pop(f) = try_pop(f)
  BY <1>2 DEF Iocp!Popped, Popped, Iocp!try_pop, try_pop, Iocp!StripCR, StripCR,
     Iocp!CR, CR
<1>4. \A f, b, m : Iocp!append(f, b, m) = append(f, b, m)
  BY DEF Iocp!append, append, Iocp!CountAll, CountAll, Iocp!Count, Count, Iocp!LF, LF
<1> QED BY <1>1, <1>3, <1>4

LEMMA ClientsI == Iocp!Clients = Clients
BY SameI

LEMMA AtFieldsI ==
  \A x, c : Iocp!At(x, c) = At(x, c) /\ At(x, c).at = x /\ At(x, c).client = c
BY DEF Iocp!At, At

LEMMA NoSendI ==
  /\ NoSend \in SendOp /\ NoSend.message = 0 /\ NoSend.written = 0
  /\ \A op \in SendOp : op.message \in 0..MaxSends /\ op.written \in 0..2
BY ConstantsOK DEF NoSend, SendOp, Iocp!NoSend, Iocp!SendOp, Constants

LEMMA ActorsI ==
  /\ Actors = {"accept", "monitor", "stop", "app"} \cup Workers
  /\ Workers \cap {"accept", "monitor", "stop", "app"} = {}
BY ConstantsOK DEF Actors, Iocp!Actors, Constants

LEMMA TypeI ==
  Iocp!TypeOK <=>
    /\ ControlType(StopsI) /\ TableType /\ FeedType /\ OutputType /\ WorkType /\ OpType
    /\ ScopeType /\ EndingType /\ AppType /\ WakeType
    /\ \A c \in Clients : read[c] \in 0..Len(Input(c))
<1>1. Iocp!ServerTypeOK <=>
        /\ setting \in Settings /\ running \in BOOLEAN
        /\ acceptor \in Acceptor /\ lastId \in 0..MaxClients
        /\ TableType /\ FeedType /\ OutputType
        /\ \A c \in Clients : read[c] \in 0..Len(Input(c))
  BY SameI DEF Iocp!ServerTypeOK, TableType, FeedType, OutputType
<1> QED BY <1>1, SameI DEF Iocp!TypeOK, ControlType, WorkType, OpType, ScopeType, EndingType,
   AppType, WakeType, StopsI, WorkPlaces, WorkRecord, EndingRecord, AppRecord, SendOp, Actors

\* The invariant without the input and the types of the wire.
TypesI ==
  /\ ControlType(StopsI) /\ TableType /\ FeedType /\ OutputType /\ WorkType /\ OpType
  /\ ScopeType /\ EndingType /\ AppType /\ WakeType
WorkersI == \A w \in Workers : WorkerI(w)
TurnsI == \A c \in Clients : TurnI(c)
ScopesI == \A c \in Clients : ScopeI(c)
TokensI == \A c \in Clients : TokenI(c)
WiresI == \A c \in Clients : WireI(c)
AllI == TypesI /\ OwnerI /\ AcceptI /\ FreeI /\ AppI /\ WorkersI /\ TurnsI /\ ScopesI /\ TokensI /\ WiresI

LEMMA PartsI == InputInv => (IocpInv <=> AllI)
<1>1. InputInv => \A c \in Clients : read[c] \in 0..Len(Input(c))
  BY DEF InputInv, InputAt
<1>2. InputInv => (Iocp!TypeOK <=> TypesI)
  BY <1>1, TypeI DEF TypesI
<1> QED BY <1>2 DEF IocpInv, AllI, WorkersI, TurnsI, ScopesI, TokensI, WiresI

\* What does not change keeps its part of the invariant.
LEMMA OwnerSameI ==
  ASSUME OwnerI, UNCHANGED <<running, stopper, acceptor, monitor, worker, registered, receiveOp, sendOp>>
  PROVE  OwnerI'
BY DEF OwnerI, Iocp!Holds, Clients

LEMMA AcceptSameI ==
  ASSUME AcceptI, UNCHANGED <<acceptor, lastId, registered, setting>>
  PROVE  AcceptI'
BY DEF AcceptI, MaxConnections

LEMMA FreeSameI ==
  ASSUME FreeI, UNCHANGED <<acceptor, monitor, stopper, app, worker, ending>>
  PROVE  FreeI'
BY DEF FreeI, Quiet, Iocp!Actors, Clients

LEMMA AppSameI ==
  ASSUME AppI, UNCHANGED <<app, feed>>
  PROVE  AppI'
BY DEF AppI, Clients, Messages

LEMMA WorkersSameI ==
  ASSUME WorkersI, UNCHANGED <<worker, feed>>
  PROVE  WorkersI'
BY DEF WorkersI, WorkerI, Clients, Messages

LEMMA TurnsSameI ==
  ASSUME TurnsI, UNCHANGED <<acceptor, receiveOp, worker, feed>>
  PROVE  TurnsI'
BY DEF TurnsI, TurnI, Accepts, Receives, Clients

LEMMA ScopesSameI ==
  ASSUME ScopesI, UNCHANGED <<active, feed, deferred, callback, acceptor, worker, ending>>
  PROVE  ScopesI'
<1> SUFFICES ASSUME NEW c \in Clients PROVE ScopeI(c)'
  BY DEF ScopesI, Clients
<1>1. InScope(c)' = InScope(c) /\ Accepts({"connected"}, c)' = Accepts({"connected"}, c)
      /\ (\A w : Says(w, c)' = Says(w, c)) /\ (\A a : Tells(a, c)' = Tells(a, c))
  BY DEF InScope, Accepts, Scoped, Says, Tells
<1> QED BY <1>1 DEF ScopesI, ScopeI, Iocp!Actors

LEMMA TokensSameI ==
  ASSUME TokensI, UNCHANGED <<lastId, acceptor, feed, closing, registered, deferred, ending>>
  PROVE  TokensI'
BY DEF TokensI, TokenI, Accepts, Asks, Tells, Clients, Iocp!Actors

LEMMA WiresSameI ==
  ASSUME WiresI, UNCHANGED <<wire, sendOp, feed, closing, sendBusy, worker>>
  PROVE  WiresI'
<1> SUFFICES ASSUME NEW c \in Clients PROVE WireI(c)'
  BY DEF WiresI, Clients
<1>1. Writable(c)' = Writable(c) /\ (\A w : Sends(w, c)' = Sends(w, c))
  BY DEF Writable, Sends
<1> QED BY <1>1 DEF WiresI, WireI, SoFar, Messages

\* A worker, an actor that disconnects, and the accept thread move.
Work(where, c, op) == [at |-> where, client |-> c, op |-> op]
WorkerGoes(w, where, c, op) == worker' = [worker EXCEPT ![w] = Work(where, c, op)]
EndingGoes(a, where, c) == ending' = [ending EXCEPT ![a] = [at |-> where, client |-> c]]

\* Nothing of a client is seen to move.
WorkersStill(d) ==
  \A w \in Workers :
    /\ Receives(w, d)' <=> Receives(w, d)
    /\ Scoped(w, d)' <=> Scoped(w, d)
    /\ Says(w, d)' <=> Says(w, d)
    /\ Sends(w, d)' <=> Sends(w, d)
    /\ Sends(w, d) => worker'[w] = worker[w]
TellsStill(d) == \A a \in Actors : Tells(a, d)' <=> Tells(a, d)
EndingsStill(d) == TellsStill(d) /\ \A a \in Actors : Asks(a, d)' <=> Asks(a, d)
AcceptStill(d) ==
  \A S \in SUBSET {"accepting", "register", "publish", "connected", "leave", "receive"} :
    Accepts(S, d)' <=> Accepts(S, d)

LEMMA WorkerMoves ==
  ASSUME WorkType, NEW w \in Workers, NEW x \in WorkPlaces, NEW c \in 0..MaxClients, NEW op \in SendOp,
         WorkerGoes(w, x, c, op)
  PROVE  /\ worker' \in [Workers -> WorkRecord]
         /\ worker'[w].at = x /\ worker'[w].client = c /\ worker'[w].op = op
         /\ \A v \in Workers : v # w => worker'[v] = worker[v]
         /\ \A d : d # worker[w].client /\ d # c => WorkersStill(d)
<1>1. Work(x, c, op) \in WorkRecord /\ Work(x, c, op).at = x /\ Work(x, c, op).client = c
      /\ Work(x, c, op).op = op
  BY DEF Work, WorkRecord
<1>2. /\ worker' \in [Workers -> WorkRecord] /\ worker'[w] = Work(x, c, op)
      /\ \A v \in Workers : v # w => worker'[v] = worker[v]
  BY <1>1 DEF WorkType, WorkerGoes
<1>3. ASSUME NEW d, d # worker[w].client, d # c PROVE WorkersStill(d)
  BY <1>1, <1>2, <1>3 DEF WorkersStill, Receives, Scoped, Says, Sends
<1> QED BY <1>1, <1>2, <1>3

LEMMA WorkersStand == ASSUME worker' = worker, NEW d PROVE WorkersStill(d)
BY DEF WorkersStill, Receives, Scoped, Says, Sends

LEMMA EndingMoves ==
  ASSUME EndingType, NEW a \in Actors, NEW x \in {"none", "ask", "telling"}, NEW c \in 0..MaxClients,
         EndingGoes(a, x, c)
  PROVE  /\ EndingType'
         /\ ending'[a].at = x /\ ending'[a].client = c
         /\ \A b \in Actors : b # a => ending'[b] = ending[b]
         /\ \A d : d # ending[a].client /\ d # c => EndingsStill(d)
<1>1. [at |-> x, client |-> c] \in EndingRecord /\ [at |-> x, client |-> c].at = x
      /\ [at |-> x, client |-> c].client = c
  BY DEF EndingRecord
<1>2. /\ ending' \in [Actors -> EndingRecord] /\ ending'[a] = [at |-> x, client |-> c]
      /\ \A b \in Actors : b # a => ending'[b] = ending[b]
  BY <1>1 DEF EndingType, EndingGoes
<1>3. ASSUME NEW d, d # ending[a].client, d # c PROVE EndingsStill(d)
  BY <1>1, <1>2, <1>3 DEF EndingsStill, TellsStill, Asks, Tells
<1>4. EndingType'
  BY <1>2 DEF EndingType, Actors, Iocp!Actors
<1> QED BY <1>1, <1>2, <1>3, <1>4

LEMMA EndingsStand == ASSUME ending' = ending, NEW d PROVE EndingsStill(d)
BY DEF EndingsStill, TellsStill, Asks, Tells

LEMMA AcceptStands ==
  ASSUME NEW d, acceptor' = acceptor \/ (d # acceptor.client /\ d # acceptor'.client)
  PROVE  AcceptStill(d)
BY DEF AcceptStill, Accepts

LEMMA TurnStill ==
  ASSUME NEW d, TurnI(d), WorkersStill(d), AcceptStill(d), d \in receiveOp' <=> d \in receiveOp,
         feed[d] # "new" => feed'[d] # "new"
  PROVE  TurnI(d)'
BY DEF TurnI, WorkersStill, AcceptStill

LEMMA ScopeSteady ==
  ASSUME NEW d, ScopeI(d), TellsStill(d), AcceptStill(d),
         \A w \in Workers : (Scoped(w, d)' <=> Scoped(w, d)) /\ (Says(w, d)' <=> Says(w, d)),
         active'[d] = active[d], feed'[d] = feed[d], deferred'[d] = deferred[d], callback'[d] = callback[d]
  PROVE  ScopeI(d)'
<1>1. /\ Accepts({"connected", "leave"}, d)' <=> Accepts({"connected", "leave"}, d)
      /\ Accepts({"connected"}, d)' <=> Accepts({"connected"}, d)
  BY DEF AcceptStill
<1>2. InScope(d)' <=> InScope(d)
  BY <1>1 DEF InScope
<1>3. (\E w \in Workers : Says(w, d)') <=> (\E w \in Workers : Says(w, d))
  OBVIOUS
<1>4. (\E a \in Actors : Tells(a, d)') <=> (\E a \in Actors : Tells(a, d))
  BY DEF TellsStill
<1> QED BY <1>1, <1>2, <1>3, <1>4 DEF ScopeI, Actors, Iocp!Actors

LEMMA ScopeStill ==
  ASSUME NEW d, ScopeI(d), WorkersStill(d), TellsStill(d), AcceptStill(d),
         active'[d] = active[d], feed'[d] = feed[d], deferred'[d] = deferred[d], callback'[d] = callback[d]
  PROVE  ScopeI(d)'
BY ScopeSteady DEF WorkersStill

LEMMA TokenStill ==
  ASSUME NEW d, TokenI(d), EndingsStill(d), AcceptStill(d), lastId' = lastId,
         feed'[d] = feed[d], deferred'[d] = deferred[d], closing'[d] = closing[d],
         d \in registered' <=> d \in registered
  PROVE  TokenI(d)'
BY DEF TokenI, EndingsStill, TellsStill, AcceptStill, Actors, Iocp!Actors

LEMMA WireSends ==
  ASSUME NEW d, WireI(d), feed[d] # "new" => feed'[d] # "new", closing'[d] = closing[d],
         wire'[d] = wire[d], sendOp'[d] = sendOp[d], sendBusy'[d] = sendBusy[d],
         \A w \in Workers : (Sends(w, d)' <=> Sends(w, d)) /\ (Sends(w, d) => worker'[w] = worker[w])
  PROVE  WireI(d)'
<1>1. Writable(d)' <=> Writable(d)
  BY DEF Writable
<1>2. /\ \A w \in Workers : Sends(w, d)' <=> Sends(w, d)
      /\ \A w \in Workers : Sends(w, d) => worker'[w].op = worker[w].op
  OBVIOUS
<1> QED BY <1>1, <1>2 DEF WireI, SoFar, Messages

LEMMA WireStill ==
  ASSUME NEW d, WireI(d), WorkersStill(d), feed[d] # "new" => feed'[d] # "new", closing'[d] = closing[d],
         wire'[d] = wire[d], sendOp'[d] = sendOp[d], sendBusy'[d] = sendBusy[d]
  PROVE  WireI(d)'
BY WireSends DEF WorkersStill

LEMMA GoesI ==
  ASSUME WorkType, NEW w \in Workers, NEW x, Iocp!Goes(w, x)
  PROVE  WorkerGoes(w, x, worker[w].client, worker[w].op)
<1>1. worker[w] \in WorkRecord
  BY DEF WorkType
<1>2. [worker[w] EXCEPT !.at = x] = Work(x, worker[w].client, worker[w].op)
  BY <1>1 DEF Work, WorkRecord
<1> QED BY <1>2 DEF Iocp!Goes, WorkerGoes

LEMMA DoneI ==
  ASSUME NEW w, Iocp!Done(w)
  PROVE  WorkerGoes(w, "wait", 0, NoSend)
BY DEF Iocp!Done, WorkerGoes, Iocp!Work, Work, NoSend

LEMMA TakesI ==
  ASSUME NEW w, NEW c, NEW ok, NEW x, NEW op, Iocp!Takes(w, c, ok, x, op)
  PROVE  WorkerGoes(w, IF ok /\ running /\ ~closing[c] THEN x ELSE "drop", c, op)
BY DEF Iocp!Takes, WorkerGoes, Iocp!Work, Work

LEMMA QuietI ==
  ASSUME EndingType, FreeI, NEW a \in Actors
  PROVE  Iocp!Free(a) <=> Quiet(a)
<1>1. ending[a] \in EndingRecord /\ (Quiet(a) => ending[a].client = 0)
  BY DEF EndingType, FreeI, Actors
<1> QED BY <1>1 DEF Quiet, Iocp!Free, Iocp!NotEnding, EndingRecord

\* Server::disconnect finds the connection, or somebody else was first.
Erases(a, c) ==
  /\ c \in registered /\ registered' = registered \ {c}
  /\ closing' = [closing EXCEPT ![c] = TRUE]
  /\ sendQueue' = [sendQueue EXCEPT ![c] = <<>>]
  /\ EndingGoes(a, "ask", c)
ErasesNot(c) == c \notin registered /\ UNCHANGED <<registered, closing, sendQueue, ending>>

LEMMA EraseI ==
  ASSUME NEW a, NEW c, Iocp!Erase(a, c)
  PROVE  Erases(a, c) \/ ErasesNot(c)
BY DEF Iocp!Erase, Erases, ErasesNot, EndingGoes, Iocp!tableVars

LEMMA TypesStill ==
  /\ ControlType(StopsI) /\ UNCHANGED <<setting, running, stopper, acceptor, lastId>> => ControlType(StopsI)'
  /\ TableType /\ UNCHANGED <<setting, registered, closing>> => TableType'
  /\ FeedType /\ UNCHANGED <<callback, feed>> => FeedType'
  /\ OutputType /\ UNCHANGED <<sent, wire>> => OutputType'
  /\ WorkType /\ UNCHANGED <<worker, monitor>> => WorkType'
  /\ OpType /\ UNCHANGED <<receiveOp, sendOp, sendQueue, sendBusy>> => OpType'
  /\ ScopeType /\ UNCHANGED <<active, deferred>> => ScopeType'
  /\ EndingType /\ ending' = ending => EndingType'
  /\ AppType /\ app' = app => AppType'
  /\ WakeType /\ wakes' = wakes => WakeType'
BY DEF ControlType, TableType, FeedType, OutputType, WorkType, OpType, ScopeType, EndingType, AppType,
   WakeType, MaxConnections, Clients, Messages, Actors, Iocp!Actors

\* The worker whose turn it is to receive for a client has it alone.
Receiving == {"begin", "pop", "message", "overflow", "leave", "post"}
Scope == {"pop", "message", "overflow", "leave"}

LEMMA MyTurn ==
  ASSUME NEW w \in Workers, NEW c, TurnI(c), Receives(w, c)
  PROVE  /\ \A v \in Workers : Receives(v, c) <=> v = w
         /\ \A v \in Workers : Scoped(v, c) <=> v = w /\ worker[w].at \in Scope
         /\ \A v \in Workers : Says(v, c) <=> v = w /\ worker[w].at = "message"
         /\ InScope(c) <=> worker[w].at \in Scope
         /\ c \notin receiveOp
         /\ \A S \in SUBSET {"connected", "leave", "receive"} : ~Accepts(S, c)
<1>1. /\ \A v \in Workers : Receives(v, c) <=> v = w
      /\ c \notin receiveOp /\ ~Accepts({"connected", "leave", "receive"}, c)
  BY DEF TurnI
<1>2. worker[w].client = c
  BY DEF Receives
<1>3. \A v \in Workers : (Scoped(v, c) => Receives(v, c)) /\ (Says(v, c) => Receives(v, c))
  BY DEF Scoped, Receives, Says
<1>4. /\ \A v \in Workers : Scoped(v, c) <=> v = w /\ worker[w].at \in Scope
      /\ \A v \in Workers : Says(v, c) <=> v = w /\ worker[w].at = "message"
  BY <1>1, <1>2, <1>3 DEF Scoped, Says, Scope
<1>5. \A S \in SUBSET {"connected", "leave", "receive"} : ~Accepts(S, c)
  BY <1>1 DEF Accepts
<1>6. InScope(c) <=> worker[w].at \in Scope
  BY <1>4, <1>5 DEF InScope
<1> QED BY <1>1, <1>4, <1>5, <1>6

LEMMA TurnGoesOn ==
  ASSUME NEW w \in Workers, NEW c, NEW x, \A v \in Workers : v # w => ~Receives(v, c),
         worker'[w].at = x, worker'[w].client = c, \A v \in Workers : v # w => worker'[v] = worker[v],
         acceptor' = acceptor, ~Accepts({"connected", "leave", "receive"}, c)
  PROVE  /\ \A v \in Workers : Receives(v, c)' <=> v = w /\ x \in Receiving
         /\ \A v \in Workers : Scoped(v, c)' <=> v = w /\ x \in Scope
         /\ \A v \in Workers : Says(v, c)' <=> v = w /\ x = "message"
         /\ InScope(c)' <=> x \in Scope
         /\ \A S \in SUBSET {"connected", "leave", "receive"} : ~Accepts(S, c)'
<1>1. \A v \in Workers : Receives(v, c)' <=> v = w /\ x \in Receiving
  BY DEF Receives, Receiving
<1>2. \A v \in Workers : (Scoped(v, c)' => Receives(v, c)') /\ (Says(v, c)' => Receives(v, c)')
  BY DEF Scoped, Receives, Says
<1>3. /\ \A v \in Workers : Scoped(v, c)' <=> v = w /\ x \in Scope
      /\ \A v \in Workers : Says(v, c)' <=> v = w /\ x = "message"
  BY <1>1, <1>2 DEF Scoped, Says, Scope
<1>4. \A S \in SUBSET {"connected", "leave", "receive"} : ~Accepts(S, c)'
  BY DEF Accepts
<1>5. InScope(c)' <=> x \in Scope
  BY <1>3, <1>4 DEF InScope
<1> QED BY <1>1, <1>3, <1>4, <1>5

\* A worker that neither receives nor sends is not seen to move.
LEMMA WorkerElsewhere ==
  ASSUME NEW w \in Workers, \A v \in Workers : v # w => worker'[v] = worker[v],
         worker[w].at \notin Receiving \cup {"sent"}, worker'[w].at \notin Receiving \cup {"sent"},
         NEW d
  PROVE  WorkersStill(d)
BY DEF WorkersStill, Receives, Scoped, Says, Sends, Receiving

\* The end of a callback scope.
LEMMA EndCallback ==
  ASSUME AllI, NEW a \in Actors, Quiet(a), NEW c \in Clients, InScope(c), callback[c] = "none",
         ~InScope(c)', \A w \in Workers : ~Says(w, c)', ~Accepts({"connected"}, c)',
         Accepts({"accepting", "register", "publish"}, c)' => Accepts({"accepting", "register", "publish"}, c),
         Iocp!end_callback(a, c), UNCHANGED <<registered, closing, lastId>>
  PROVE  /\ ScopeI(c)' /\ TokenI(c)' /\ FeedType' /\ ScopeType' /\ EndingType'
         /\ feed'[c] # "new"
         /\ \A d \in Clients \ {c} : EndingsStill(d) /\ feed'[d] = feed[d] /\ callback'[d] = callback[d]
                                     /\ active'[d] = active[d] /\ deferred'[d] = deferred[d]
         /\ \A b \in Actors : b # a => ending'[b] = ending[b]
         /\ IF Quiet(a)' THEN ending'[a].client = 0 ELSE ending'[a].client \in Clients
<1>1. /\ ScopeI(c) /\ TokenI(c) /\ active[c] = 1 /\ feed[c] = "connected"
      /\ FeedType /\ ScopeType /\ EndingType /\ ending[a].client = 0
      /\ 0 \in 0..MaxClients /\ c \in 0..MaxClients /\ c # 0
  BY ConstantsOK DEF AllI, TypesI, ScopesI, TokensI, ScopeI, FreeI, Actors, Clients, Constants
<1>2. deferred[c] \/ \A b \in Actors : ~Tells(b, c) /\ ~Tells(b, c)'
  <2>1. CASE ~deferred[c]
    <3>1. ending' = ending
      BY <1>1, <2>1 DEF Iocp!end_callback
    <3>2. \A b \in Actors : ~Tells(b, c)
      BY <1>1 DEF TokenI, Actors
    <3> QED BY <3>1, <3>2 DEF Tells
  <2> QED BY <2>1
<1>3. CASE ~deferred[c]
  <2>1. active' = [active EXCEPT ![c] = active[c] - 1] /\ UNCHANGED <<deferred, callback, feed, lines, ending>>
    BY <1>1, <1>3 DEF Iocp!end_callback, Iocp!feedVars
  <2>2. active' \in [Clients -> 0..1] /\ active'[c] = 0 /\ \A d \in Clients \ {c} : active'[d] = active[d]
    BY <1>1, <2>1 DEF ScopeType
  <2>3. FeedType' /\ ScopeType' /\ EndingType'
    BY <1>1, <2>1, <2>2, TypesStill DEF ScopeType, Clients
  <2>4. ScopeI(c)'
    BY <1>1, <1>2, <1>3, <2>1, <2>2 DEF ScopeI, Actors, Iocp!Actors
  <2>5. \A d : EndingsStill(d)
    BY <2>1, EndingsStand
  <2>6. TokenI(c)'
    BY <1>1, <1>3, <2>1, <2>5 DEF TokenI, EndingsStill, TellsStill, Actors, Iocp!Actors
  <2>7. IF Quiet(a)' THEN ending'[a].client = 0 ELSE ending'[a].client \in Clients
    BY <2>1 DEF AllI, FreeI, Actors, Quiet
  <2> QED BY <1>1, <2>1, <2>2, <2>3, <2>4, <2>5, <2>6, <2>7
<1>4. CASE deferred[c]
  <2>1. /\ active' = [active EXCEPT ![c] = active[c] - 1] /\ deferred' = [deferred EXCEPT ![c] = FALSE]
        /\ feed' = [feed EXCEPT ![c] = "disconnected"] /\ callback' = [callback EXCEPT ![c] = "disconnected"]
        /\ EndingGoes(a, "telling", c)
    BY <1>1, <1>4 DEF Iocp!end_callback, Iocp!on_disconnected, EndingGoes
  <2>2. /\ active' \in [Clients -> 0..1] /\ active'[c] = 0
        /\ deferred' \in [Clients -> BOOLEAN] /\ ~deferred'[c]
        /\ feed'[c] = "disconnected" /\ callback'[c] = "disconnected" /\ FeedType'
        /\ \A d \in Clients \ {c} : /\ active'[d] = active[d] /\ deferred'[d] = deferred[d]
                                   /\ feed'[d] = feed[d] /\ callback'[d] = callback[d]
    BY <1>1, <2>1 DEF ScopeType, FeedType, Clients
  <2>3. /\ EndingType' /\ ending'[a].at = "telling" /\ ending'[a].client = c
        /\ \A b \in Actors : b # a => ending'[b] = ending[b]
        /\ \A d : d # 0 /\ d # c => EndingsStill(d)
    BY <1>1, <2>1, EndingMoves
  <2>4. c \notin registered /\ closing[c] /\ \A b \in Actors : ~Asks(b, c) /\ ~Tells(b, c)
    BY <1>1, <1>4 DEF TokenI, Actors
  <2>5. \A b \in Actors : ~Asks(b, c)' /\ (Tells(b, c)' <=> b = a)
    BY <2>3, <2>4 DEF Asks, Tells
  <2>6. ScopeI(c)'
    BY <2>2, <2>5 DEF ScopeI, Actors, Iocp!Actors
  <2>7. TokenI(c)'
    <3>1. c > lastId \/ Accepts({"accepting", "register", "publish"}, c) => feed[c] = "new"
      BY <1>1 DEF TokenI
    <3> QED BY <1>1, <3>1, <2>2, <2>4, <2>5 DEF TokenI, Actors, Iocp!Actors
  <2>8. ScopeType' /\ \A d \in Clients : d # 0
    BY <2>2 DEF ScopeType, Clients
  <2>9. IF Quiet(a)' THEN ending'[a].client = 0 ELSE ending'[a].client \in Clients
    BY <2>3 DEF Quiet
  <2> QED BY <1>1, <2>2, <2>3, <2>6, <2>7, <2>8, <2>9
<1> QED BY <1>3, <1>4

\* A connection leaves the registry: whoever took it out has to ask for the end.
LEMMA ErasesI ==
  ASSUME AllI, NEW a \in Actors, Quiet(a), NEW c \in Clients, Erases(a, c),
         UNCHANGED <<setting, lastId, callback, feed, deferred, wire, sendOp, sendBusy>>,
         \A d \in Clients : Accepts({"accepting", "register", "publish"}, d)' =>
                              Accepts({"accepting", "register", "publish"}, d),
         \A w \in Workers, d \in Clients : Sends(w, d)' <=> Sends(w, d),
         \A w \in Workers, d \in Clients : Sends(w, d) => worker'[w] = worker[w]
  PROVE  /\ TableType' /\ EndingType' /\ sendQueue' \in [Clients -> Seq(Messages)]
         /\ TokensI' /\ WiresI' /\ \A d \in Clients : TellsStill(d)
         /\ \A b \in Actors : b # a => ending'[b] = ending[b]
         /\ ~Quiet(a)' /\ ending'[a].client \in Clients
<1>1. /\ TableType /\ EndingType /\ ending[a].client = 0 /\ ending[a].at = "none"
      /\ c \in 0..MaxClients /\ c # 0 /\ setting \in Settings /\ OpType /\ TokenI(c) /\ WireI(c)
  BY ConstantsOK DEF AllI, TypesI, ControlType, FreeI, Quiet, Actors, Clients, Constants, TokensI, WiresI
<1>2. TableType'
  BY <1>1, TableShrinks DEF Erases, TableType
<1>3. sendQueue' \in [Clients -> Seq(Messages)]
  BY <1>1 DEF Erases, OpType
<1>4. /\ EndingType' /\ ending'[a].at = "ask" /\ ending'[a].client = c
      /\ \A b \in Actors : b # a => ending'[b] = ending[b]
      /\ \A d : d # 0 /\ d # c => EndingsStill(d)
  BY <1>1, EndingMoves DEF Erases
<1>5. \A d \in Clients : TellsStill(d)
  BY <1>1, <1>4 DEF TellsStill, Tells
<1>6. c \in registered /\ c \notin registered' /\ closing'[c]
      /\ \A d \in Clients \ {c} : closing'[d] = closing[d] /\ (d \in registered' <=> d \in registered)
  BY <1>1 DEF Erases, TableType
<1>7. ASSUME NEW d \in Clients PROVE TokenI(d)'
  <2>1. CASE d = c
    <3>1. \A b \in Actors : ~Asks(b, c) /\ (Asks(b, c)' <=> b = a)
      <4>1. \A b \in Actors : ~Asks(b, c)
        BY <1>1, <1>6 DEF TokenI, Actors
      <4> QED BY <4>1, <1>4 DEF Asks
    <3>2. \A b \in Actors : Tells(b, c)' <=> Tells(b, c)
      BY <1>5 DEF TellsStill
    <3> QED BY <2>1, <3>1, <3>2, <1>1, <1>6 DEF TokenI, Actors, Iocp!Actors
  <2>2. CASE d # c
    <3>1. EndingsStill(d) /\ TokenI(d)
      BY <2>2, <1>4 DEF Clients, AllI, TokensI
    <3>2. /\ \A b \in Actors : Tells(b, d)' <=> Tells(b, d)
          /\ \A b \in Actors : Asks(b, d)' <=> Asks(b, d)
      BY <3>1 DEF EndingsStill, TellsStill
    <3>3. /\ closing'[d] = closing[d] /\ (d \in registered' <=> d \in registered)
          /\ lastId' = lastId /\ feed' = feed /\ deferred' = deferred
          /\ (Accepts({"accepting", "register", "publish"}, d)' =>
                Accepts({"accepting", "register", "publish"}, d))
      BY <2>2, <1>6
    <3> QED BY <3>1, <3>2, <3>3 DEF TokenI, Actors, Iocp!Actors
  <2> QED BY <2>1, <2>2
<1>8. ASSUME NEW d \in Clients PROVE WireI(d)'
  <2>1. WireI(d) /\ (Writable(d)' => Writable(d)) /\ wire' = wire /\ sendOp' = sendOp /\ sendBusy' = sendBusy
        /\ feed' = feed
    BY <1>6 DEF AllI, WiresI, Writable
  <2>2. /\ \A w \in Workers : Sends(w, d)' <=> Sends(w, d)
        /\ \A w \in Workers : Sends(w, d) => worker'[w].op = worker[w].op
    OBVIOUS
  <2> QED BY <2>1, <2>2 DEF WireI, SoFar, Messages
<1>9. TokensI' /\ WiresI'
  BY <1>7, <1>8 DEF TokensI, WiresI, Clients
<1>10. ~Quiet(a)'
  BY <1>4 DEF Quiet
<1> QED BY <1>2, <1>3, <1>4, <1>5, <1>9, <1>10

\* What a step of one worker does to the control part of the invariant.
Busy == {"drop", "release", "begin", "pop", "message", "overflow", "leave", "post", "sent"}
FeedKeeps == \A c \in Clients : feed[c] # "new" => feed'[c] # "new"

LEMMA HoldsI ==
  ASSUME WorkType, NEW w \in Workers
  PROVE  Iocp!Holds(w) <=> worker[w].at \in Busy
<1>1. worker[w].at \in WorkPlaces
  BY DEF WorkType, WorkRecord
<1> QED BY <1>1 DEF Iocp!Holds, WorkPlaces, Busy

LEMMA OwnerWorker ==
  ASSUME AllI, NEW w \in Workers, \A v \in Workers : v # w => worker'[v] = worker[v],
         worker' \in [Workers -> WorkRecord],
         UNCHANGED <<running, stopper, acceptor, monitor>>, registered' \subseteq registered,
         worker[w].at \notin Gone,
         \/ worker[w].at \in Busy
         \/ /\ worker'[w].at \notin Busy /\ (receiveOp = {} => receiveOp' = {})
            /\ \A c \in Clients : sendOp[c] = NoSend => sendOp'[c] = NoSend
         \/ stopper \notin {"wake", "joinWorkers"}
  PROVE  OwnerI'
<1>1. stopper \notin {"configured", "returned"}
  BY DEF AllI, OwnerI, Gone
<1>2. /\ running <=> stopper \in {"idle", "failed"}
      /\ stopper \in {"joinMonitor", "close", "drain", "wake", "joinWorkers", "returned"} => acceptor.at \in Gone
      /\ stopper \in {"close", "drain", "wake", "joinWorkers", "returned"} => monitor \in Gone
      /\ stopper \in {"drain", "wake", "joinWorkers", "returned"} => registered' = {}
  BY DEF AllI, OwnerI
<1>3. ASSUME stopper \in {"wake", "joinWorkers"}
      PROVE  receiveOp' = {} /\ (\A c \in Clients : sendOp'[c] = NoSend)
             /\ \A v \in Workers : ~Iocp!Holds(v)'
  <2>1. /\ receiveOp = {} /\ \A c \in Clients : sendOp[c] = NoSend
        /\ \A v \in Workers : worker[v].at \notin Busy
    BY <1>3, HoldsI DEF AllI, TypesI, OwnerI, NoSend
  <2>2. worker'[w].at \notin Busy /\ receiveOp' = {} /\ \A c \in Clients : sendOp'[c] = NoSend
    BY <1>3, <2>1
  <2>3. ASSUME NEW v \in Workers PROVE ~Iocp!Holds(v)'
    <3>1. worker'[v].at \notin Busy /\ worker'[v].at \in WorkPlaces
      BY <2>1, <2>2 DEF WorkRecord
    <3> QED BY <3>1 DEF Iocp!Holds, WorkPlaces, Busy
  <2> QED BY <2>2, <2>3
<1> QED BY <1>1, <1>2, <1>3 DEF OwnerI, NoSend, Clients

LEMMA FreeWorker ==
  ASSUME FreeI, NEW w \in Workers, \A v \in Workers : v # w => worker'[v] = worker[v],
         UNCHANGED <<acceptor, monitor, stopper, app>>,
         \A b \in Actors : b # w => ending'[b] = ending[b],
         worker'[w].at \in {"wait", "release", "leave", "post"} \/ Quiet(w)',
         IF Quiet(w)' THEN ending'[w].client = 0 ELSE ending'[w].client \in Clients
  PROVE  FreeI'
<1>1. /\ "accept" \in Actors \ {w} /\ "monitor" \in Actors \ {w} /\ "stop" \in Actors \ {w}
      /\ "app" \in Actors \ {w} /\ Workers \subseteq Actors
  BY ActorsI
<1>2. \A b \in Actors \ {w} : ending'[b] = ending[b] /\ (Quiet(b)' <=> Quiet(b))
  BY DEF Quiet
<1>3. /\ acceptor'.at \notin {"wait", "receive"} => Quiet("accept")'
      /\ monitor' # "scan" => Quiet("monitor")'
      /\ stopper' # "close" => Quiet("stop")'
      /\ app'.at # "idle" => Quiet("app")'
  BY <1>1, <1>2 DEF FreeI
<1>4. ASSUME NEW v \in Workers, worker'[v].at \notin {"wait", "release", "leave", "post"} PROVE Quiet(v)'
  BY <1>1, <1>2, <1>4 DEF FreeI
<1>5. ASSUME NEW b \in Actors PROVE IF Quiet(b)' THEN ending'[b].client = 0 ELSE ending'[b].client \in Clients
  BY <1>2 DEF FreeI, Actors
<1> QED BY <1>3, <1>4, <1>5 DEF FreeI, Actors, Iocp!Actors, Clients

LEMMA AcceptShrinks ==
  ASSUME AcceptI, TableType, setting \in Settings, UNCHANGED <<acceptor, lastId, setting>>,
         registered' \subseteq registered
  PROVE  AcceptI'
<1>1. IsFiniteSet(registered) /\ IsFiniteSet(registered')
  BY ClientsFinite DEF TableType
<1>2. Cardinality(registered') <= Cardinality(registered)
      /\ Cardinality(registered) \in Nat /\ Cardinality(registered') \in Nat
  BY <1>1, FS_Subset, FS_CardinalityType
<1>3. acceptor.at = "publish" => Cardinality(registered') < MaxConnections'
  <2>1. acceptor.at = "publish" => Cardinality(registered) < MaxConnections
    BY DEF AcceptI
  <2>2. MaxConnections' = MaxConnections
    BY DEF MaxConnections
  <2>3. Cardinality(registered) < MaxConnections => Cardinality(registered') < MaxConnections
    BY <1>2, SettingOK
  <2> QED BY <2>1, <2>2, <2>3
<1> QED BY <1>3 DEF AcceptI

LEMMA WorkersWorker ==
  ASSUME WorkersI, NEW w \in Workers, \A v \in Workers : v # w => worker'[v] = worker[v],
         FeedKeeps, WorkerI(w)'
  PROVE  WorkersI'
BY DEF WorkersI, WorkerI, FeedKeeps, Clients, Messages

LEMMA WorkersFeed ==
  ASSUME WorkersI, worker' = worker, FeedKeeps
  PROVE  WorkersI'
BY DEF WorkersI, WorkerI, FeedKeeps, Clients, Messages

LEMMA AppFeed ==
  ASSUME AppI, app' = app, FeedKeeps
  PROVE  AppI'
BY DEF AppI, FeedKeeps, Clients, Messages

LEMMA WiresWorker ==
  ASSUME WiresI, \A d \in Clients : WorkersStill(d), FeedKeeps,
         UNCHANGED <<closing, wire, sendOp, sendBusy>>
  PROVE  WiresI'
BY WireStill DEF WiresI, FeedKeeps, Clients

LEMMA AtWork ==
  ASSUME AllI, NEW w \in Workers, worker[w].at \in Busy \cup {"failed"}
  PROVE  /\ worker[w].client \in Clients /\ feed[worker[w].client] # "new" /\ w \in Actors
         /\ worker[w].client \in 0..MaxClients /\ worker[w].op \in SendOp
         /\ TurnI(worker[w].client) /\ ScopeI(worker[w].client) /\ TokenI(worker[w].client)
         /\ WireI(worker[w].client) /\ worker[w].at \notin Gone
         /\ worker[w].at \in Receiving => Receives(w, worker[w].client)
<1>1. worker[w] \in WorkRecord /\ worker[w].at \notin {"none", "wait", "exited"}
  BY DEF AllI, TypesI, WorkType, Busy
<1>2. worker[w].client \in Clients /\ feed[worker[w].client] # "new"
  BY <1>1 DEF AllI, WorkersI, WorkerI
<1> QED BY <1>1, <1>2, ActorsI
     DEF WorkRecord, AllI, TurnsI, ScopesI, TokensI, WiresI, Gone, Receives, Receiving

LEMMA WorkerAtGoes ==
  ASSUME AllI, NEW w \in Workers, NEW x \in WorkPlaces, Iocp!Goes(w, x)
  PROVE  /\ worker' \in [Workers -> WorkRecord]
         /\ worker'[w].at = x /\ worker'[w].client = worker[w].client /\ worker'[w].op = worker[w].op
         /\ \A v \in Workers : v # w => worker'[v] = worker[v]
         /\ \A d : d # worker[w].client => WorkersStill(d)
<1>1. WorkerGoes(w, x, worker[w].client, worker[w].op) /\ WorkType
  BY GoesI DEF AllI, TypesI
<1>2. worker[w].client \in 0..MaxClients /\ worker[w].op \in SendOp
  BY DEF AllI, TypesI, WorkType, WorkRecord
<1> QED BY <1>1, <1>2, WorkerMoves

LEMMA WorkerIsDone ==
  ASSUME AllI, NEW w \in Workers, Iocp!Done(w)
  PROVE  /\ worker' \in [Workers -> WorkRecord]
         /\ worker'[w].at = "wait" /\ worker'[w].client = 0
         /\ \A v \in Workers : v # w => worker'[v] = worker[v]
         /\ \A d \in Clients : d # worker[w].client => WorkersStill(d)
         /\ WorkerI(w)'
<1>1. WorkerGoes(w, "wait", 0, NoSend) /\ WorkType /\ "wait" \in WorkPlaces /\ 0 \in 0..MaxClients
      /\ NoSend \in SendOp /\ \A d \in Clients : d # 0
  BY DoneI, NoSendI, ConstantsOK DEF AllI, TypesI, WorkPlaces, Constants, Clients
<1>2. /\ worker' \in [Workers -> WorkRecord]
      /\ worker'[w].at = "wait" /\ worker'[w].client = 0
      /\ \A v \in Workers : v # w => worker'[v] = worker[v]
      /\ \A d : d # worker[w].client /\ d # 0 => WorkersStill(d)
  BY <1>1, WorkerMoves
<1>3. WorkerI(w)'
  BY <1>2 DEF WorkerI
<1> QED BY <1>1, <1>2, <1>3

\* A step of the worker whose turn it is to receive for c.
LEMMA ReceiverSteps ==
  ASSUME AllI, NEW w \in Workers, NEW c \in Clients, c = worker[w].client, worker[w].at \in Receiving,
         worker' \in [Workers -> WorkRecord], worker'[w].client = c,
         worker'[w].at \in Receiving \cup {"release"},
         \A v \in Workers : v # w => worker'[v] = worker[v],
         \A d : d # c => WorkersStill(d),
         UNCHANGED <<setting, running, stopper, acceptor, lastId, registered, closing, sent, wire, monitor,
                     sendOp, sendQueue, sendBusy, app, wakes>>,
         receiveOp' \subseteq Clients, c \in receiveOp' => worker'[w].at = "release",
         FeedType', ScopeType', EndingType', feed'[c] # "new",
         \A d \in Clients \ {c} : EndingsStill(d) /\ (d \in receiveOp' <=> d \in receiveOp)
           /\ feed'[d] = feed[d] /\ callback'[d] = callback[d]
           /\ active'[d] = active[d] /\ deferred'[d] = deferred[d],
         \A b \in Actors : b # w => ending'[b] = ending[b],
         IF Quiet(w)' THEN ending'[w].client = 0 ELSE ending'[w].client \in Clients,
         worker'[w].at \in {"release", "leave", "post"} \/ Quiet(w)',
         ScopeI(c)', TokenI(c)'
  PROVE  AllI'
<1>1. /\ TurnI(c) /\ Receives(w, c) /\ worker[w].at \notin Gone /\ worker[w].at \in Busy
      /\ ~Accepts({"connected", "leave", "receive"}, c)
  BY AtWork, MyTurn DEF Busy, Receiving
<1>2. \A v \in Workers : Receives(v, c)' <=> v = w /\ worker'[w].at \in Receiving
  BY <1>1, MyTurn, TurnGoesOn
<1>3. FeedKeeps /\ \A d : AcceptStill(d)
  BY AcceptStands DEF FeedKeeps
<1>4. TypesI'
  <2>1. OpType'
    BY DEF AllI, TypesI, OpType, Clients, Messages
  <2> QED BY <2>1, TypesStill DEF AllI, TypesI, WorkType
<1>5. OwnerI' /\ AcceptI' /\ FreeI' /\ AppI'
  BY <1>1, <1>3, OwnerWorker, AcceptSameI, FreeWorker, AppFeed DEF AllI
<1>6. WorkersI'
  <2>1. WorkerI(w)'
    BY DEF WorkerI, Clients, Receiving
  <2> QED BY <1>3, <2>1, WorkersWorker DEF AllI
<1>7. ASSUME NEW d \in Clients PROVE TurnI(d)' /\ ScopeI(d)' /\ TokenI(d)' /\ WireI(d)'
  <2>1. CASE d = c
    <3>1. TurnI(c)'
      <4>1. ~Accepts({"connected", "leave", "receive"}, c)'
        BY <1>1 DEF Accepts
      <4> QED BY <4>1, <1>2 DEF TurnI, Receiving
    <3>2. WireI(c)'
      <4>1. \A v \in Workers : (Sends(v, c)' <=> Sends(v, c)) /\ (Sends(v, c) => worker'[v] = worker[v])
        BY DEF Sends, Receiving
      <4> QED BY <4>1, WireSends DEF AllI, WiresI
    <3> QED BY <2>1, <3>1, <3>2
  <2>2. CASE d # c
    BY <2>2, <1>3, TurnStill, ScopeStill, TokenStill, WireStill
       DEF AllI, TurnsI, ScopesI, TokensI, WiresI, EndingsStill
  <2> QED BY <2>1, <2>2
<1> QED BY <1>4, <1>5, <1>6, <1>7 DEF AllI, TurnsI, ScopesI, TokensI, WiresI, Clients

LEMMA EndDeliveryI ==
  ASSUME AllI, NEW w \in Workers, Iocp!EndDelivery(w)
  PROVE  AllI'
<1>1. PICK c \in Clients : c = worker[w].client
  BY AtWork DEF Iocp!EndDelivery, Busy
<1>2. /\ worker[w].at = "leave" /\ w \in Actors /\ TurnI(c) /\ ScopeI(c) /\ TokenI(c) /\ Receives(w, c)
      /\ feed[c] # "new" /\ worker[w].at \notin Gone /\ worker[w].at \in Busy /\ Quiet(w)
      /\ Iocp!Goes(w, "post") /\ Iocp!end_callback(w, c)
  BY <1>1, AtWork, QuietI DEF Iocp!EndDelivery, Busy, Receiving, AllI, TypesI
<1>3. UNCHANGED <<setting, running, stopper, acceptor, lastId, registered, closing, sent, wire, monitor,
                  receiveOp, sendOp, sendQueue, sendBusy, app, wakes>>
  BY DEF Iocp!EndDelivery, Iocp!ownerVars, Iocp!acceptVars, Iocp!tableVars, Iocp!outputVars, Iocp!opVars
<1>4. /\ worker' \in [Workers -> WorkRecord]
      /\ worker'[w].at = "post" /\ worker'[w].client = c
      /\ \A v \in Workers : v # w => worker'[v] = worker[v]
      /\ \A d : d # c => WorkersStill(d)
  BY <1>1, <1>2, WorkerAtGoes DEF WorkPlaces
<1>5. /\ \A v \in Workers : v # w => ~Receives(v, c)
      /\ \A v \in Workers : ~Says(v, c)
      /\ InScope(c) /\ c \notin receiveOp /\ ~Accepts({"connected", "leave", "receive"}, c) /\ ~Accepts({"connected"}, c)
  BY <1>2, MyTurn DEF Scope
<1>6. /\ \A v \in Workers : ~Says(v, c)'
      /\ ~InScope(c)' /\ \A S \in SUBSET {"connected", "leave", "receive"} : ~Accepts(S, c)'
  BY <1>3, <1>4, <1>5, TurnGoesOn DEF Scope, Receiving
<1>7. callback[c] = "none"
  <2>1. \A a \in Actors : ~Tells(a, c)
    BY <1>2, <1>5 DEF ScopeI, TokenI, Actors
  <2> QED BY <1>2, <1>5, <2>1 DEF ScopeI, Actors
<1>8. /\ ScopeI(c)' /\ TokenI(c)' /\ FeedType' /\ ScopeType' /\ EndingType'
      /\ feed'[c] # "new"
      /\ \A d \in Clients \ {c} : EndingsStill(d) /\ feed'[d] = feed[d] /\ callback'[d] = callback[d]
                                  /\ active'[d] = active[d] /\ deferred'[d] = deferred[d]
      /\ \A b \in Actors : b # w => ending'[b] = ending[b]
      /\ IF Quiet(w)' THEN ending'[w].client = 0 ELSE ending'[w].client \in Clients
  BY <1>2, <1>3, <1>5, <1>6, <1>7, EndCallback DEF Accepts
<1> QED BY <1>1, <1>2, <1>3, <1>4, <1>5, <1>8, ReceiverSteps DEF AllI, TypesI, OpType, Receiving

LEMMA TurnKept ==
  ASSUME NEW w \in Workers, NEW c, TurnI(c), Receives(w, c), worker'[w].client = c,
         \A v \in Workers : v # w => worker'[v] = worker[v], acceptor' = acceptor
  PROVE  /\ InScope(c) <=> worker[w].at \in Scope
         /\ InScope(c)' <=> worker'[w].at \in Scope
         /\ \A v \in Workers : Says(v, c)' <=> v = w /\ worker'[w].at = "message"
         /\ ~Accepts({"connected"}, c) /\ ~Accepts({"connected"}, c)'
<1>1. /\ \A v \in Workers : v # w => ~Receives(v, c)
      /\ ~Accepts({"connected", "leave", "receive"}, c) /\ ~Accepts({"connected"}, c)
      /\ InScope(c) <=> worker[w].at \in Scope
  BY MyTurn
<1>2. /\ InScope(c)' <=> worker'[w].at \in Scope
      /\ \A v \in Workers : Says(v, c)' <=> v = w /\ worker'[w].at = "message"
      /\ \A S \in SUBSET {"connected", "leave", "receive"} : ~Accepts(S, c)'
  BY <1>1, TurnGoesOn
<1> QED BY <1>1, <1>2

\* The scope of a client seen by the worker whose turn it is.
LEMMA CallbackIs ==
  ASSUME AllI, NEW w \in Workers, NEW c \in Clients, c = worker[w].client, worker[w].at \in Receiving
  PROVE  /\ active[c] = (IF worker[w].at \in Scope THEN 1 ELSE 0)
         /\ worker[w].at \in Scope => feed[c] = "connected"
         /\ feed[c] = "connected" =>
              /\ callback[c] = (IF worker[w].at = "message" THEN "message" ELSE "none")
              /\ \A a \in Actors : ~Tells(a, c)
         /\ worker[w].at \notin Scope => ~deferred[c]
<1>1. /\ TurnI(c) /\ ScopeI(c) /\ TokenI(c) /\ Receives(w, c)
  BY AtWork DEF Busy, Receiving
<1>2. /\ \A v \in Workers : Says(v, c) <=> v = w /\ worker[w].at = "message"
      /\ InScope(c) <=> worker[w].at \in Scope
      /\ ~Accepts({"connected"}, c)
  BY <1>1, MyTurn
<1>3. feed[c] = "connected" => \A a \in Actors : ~Tells(a, c)
  BY <1>1 DEF TokenI, Actors
<1> QED BY <1>1, <1>2, <1>3 DEF ScopeI, Actors

\* A step inside the callback scope.
LEMMA ScopeSteps ==
  ASSUME AllI, NEW w \in Workers, NEW c \in Clients, c = worker[w].client,
         worker[w].at \in {"pop", "message"}, NEW x \in {"pop", "message", "leave"}, Iocp!Goes(w, x),
         callback' = [callback EXCEPT ![c] = IF x = "message" THEN "message" ELSE "none"],
         UNCHANGED <<setting, running, stopper, acceptor, lastId, registered, closing, sent, wire, monitor,
                     receiveOp, sendOp, sendQueue, sendBusy, app, wakes, feed, active, deferred, ending>>
  PROVE  AllI'
<1>2. /\ w \in Actors /\ TurnI(c) /\ ScopeI(c) /\ TokenI(c) /\ Receives(w, c)
      /\ feed[c] = "connected" /\ worker[w].at \in Scope \cap Receiving
  BY AtWork, CallbackIs DEF Busy, Receiving, Scope
<1>4. /\ worker' \in [Workers -> WorkRecord]
      /\ worker'[w].at = x /\ worker'[w].client = c
      /\ \A v \in Workers : v # w => worker'[v] = worker[v]
      /\ \A d : d # c => WorkersStill(d)
  BY <1>2, WorkerAtGoes DEF WorkPlaces
<1>5. /\ \A v \in Workers : Says(v, c)' <=> v = w /\ x = "message"
      /\ InScope(c)' /\ InScope(c) /\ ~Accepts({"connected"}, c)'
  BY <1>2, <1>4, TurnKept DEF Scope
<1>6. FeedType' /\ callback'[c] = (IF x = "message" THEN "message" ELSE "none")
      /\ \A d \in Clients \ {c} : callback'[d] = callback[d]
  BY <1>2 DEF AllI, TypesI, FeedType, Clients
<1>7. \A d : EndingsStill(d) /\ AcceptStill(d)
  BY EndingsStand, AcceptStands
<1>8. ScopeI(c)' /\ TokenI(c)'
  <2>1. \A a \in Actors : ~Tells(a, c)'
    BY <1>2, <1>7, CallbackIs DEF EndingsStill, TellsStill
  <2>2. ScopeI(c)'
    BY <1>2, <1>5, <1>6, <2>1 DEF ScopeI, Actors, Iocp!Actors
  <2> QED BY <1>2, <1>7, <2>2, TokenStill
<1>9. Quiet(w)' /\ ending'[w].client = 0
  BY <1>2 DEF AllI, FreeI, Quiet, Actors
<1>10. ScopeType' /\ EndingType' /\ receiveOp' \subseteq Clients /\ c \notin receiveOp'
  BY <1>2, TypesStill, MyTurn DEF AllI, TypesI, OpType
<1> QED BY <1>2, <1>4, <1>6, <1>7, <1>8, <1>9, <1>10, ReceiverSteps DEF Receiving

LEMMA MessageReturnsI ==
  ASSUME AllI, NEW w \in Workers, Iocp!MessageReturns(w)
  PROVE  AllI'
<1>1. PICK c \in Clients : c = worker[w].client
  BY AtWork DEF Iocp!MessageReturns, Busy
<1>2. /\ worker[w].at = "message" /\ Iocp!Goes(w, "pop") /\ callback' = [callback EXCEPT ![c] = "none"]
      /\ UNCHANGED <<setting, running, stopper, acceptor, lastId, registered, closing, sent, wire, monitor,
                     receiveOp, sendOp, sendQueue, sendBusy, app, wakes, feed, active, deferred, ending>>
  BY <1>1 DEF Iocp!MessageReturns, Iocp!Returned, Iocp!ownerVars, Iocp!acceptVars, Iocp!tableVars, Iocp!inputVars, Iocp!feedVars,
     Iocp!outputVars, Iocp!serverVars, Iocp!workVars, Iocp!opVars, Iocp!scopeVars
<1> QED BY <1>1, <1>2, ScopeSteps

LEMMA PopLineI ==
  ASSUME AllI, NEW w \in Workers, Iocp!PopLine(w)
  PROVE  AllI'
<1>1. PICK c \in Clients : c = worker[w].client
  BY AtWork DEF Iocp!PopLine, Busy
<1>2. /\ worker[w].at = "pop"
      /\ UNCHANGED <<setting, running, stopper, acceptor, lastId, registered, closing, sent, wire, monitor,
                     receiveOp, sendOp, sendQueue, sendBusy, app, wakes, feed, active, deferred, ending>>
      /\ \/ Iocp!Goes(w, "message") /\ callback' = [callback EXCEPT ![c] = "message"]
         \/ Iocp!Goes(w, "leave") /\ callback' = callback
  BY <1>1 DEF Iocp!PopLine, Iocp!on_message, Iocp!ownerVars, Iocp!acceptVars, Iocp!tableVars, Iocp!inputVars, Iocp!feedVars,
     Iocp!outputVars, Iocp!serverVars, Iocp!workVars, Iocp!opVars, Iocp!scopeVars
<1>3. callback[c] = "none"
  BY <1>1, <1>2, CallbackIs DEF Receiving, Scope
<1>4. callback' = callback => callback' = [callback EXCEPT ![c] = "none"]
  BY <1>3 DEF AllI, TypesI, FeedType
<1> QED BY <1>1, <1>2, <1>4, ScopeSteps

LEMMA BeginDeliveryI ==
  ASSUME AllI, NEW w \in Workers, Iocp!BeginDelivery(w)
  PROVE  AllI'
<1>1. PICK c \in Clients : c = worker[w].client
  BY AtWork DEF Iocp!BeginDelivery, Busy
<1>2. /\ worker[w].at = "begin" /\ w \in Actors /\ TurnI(c) /\ ScopeI(c) /\ TokenI(c) /\ Receives(w, c)
      /\ feed[c] # "new" /\ worker[w].at \in Receiving /\ worker[w].at \notin Scope
  BY <1>1, AtWork DEF Iocp!BeginDelivery, Busy, Receiving, Scope
<1>3. UNCHANGED <<setting, running, stopper, acceptor, lastId, registered, closing, sent, wire, monitor,
                  receiveOp, sendOp, sendQueue, sendBusy, app, wakes, feed, callback, deferred, ending>>
  BY DEF Iocp!BeginDelivery, Iocp!begin_callback, Iocp!ownerVars, Iocp!acceptVars, Iocp!tableVars, Iocp!inputVars, Iocp!feedVars,
     Iocp!outputVars, Iocp!serverVars, Iocp!workVars, Iocp!opVars, Iocp!scopeVars
<1>4. PICK x \in {"release", "leave", "pop", "overflow"} :
        /\ Iocp!Goes(w, x)
        /\ IF x = "release" THEN active' = active
           ELSE ~closing[c] /\ active' = [active EXCEPT ![c] = active[c] + 1]
  BY <1>1 DEF Iocp!BeginDelivery, Iocp!begin_callback, Iocp!scopeVars
<1>5. /\ worker' \in [Workers -> WorkRecord]
      /\ worker'[w].at = x /\ worker'[w].client = c
      /\ \A v \in Workers : v # w => worker'[v] = worker[v]
      /\ \A d : d # c => WorkersStill(d)
  BY <1>1, <1>2, <1>4, WorkerAtGoes DEF WorkPlaces
<1>6. /\ \A v \in Workers : ~Says(v, c)'
      /\ InScope(c)' <=> x # "release"
      /\ ~InScope(c) /\ ~Accepts({"connected"}, c)' /\ ~Accepts({"connected"}, c)
  BY <1>2, <1>3, <1>5, TurnKept DEF Scope
<1>7. /\ active[c] = 0 /\ ~deferred[c] /\ \A v \in Workers : ~Says(v, c)
  BY <1>1, <1>2, <1>6, CallbackIs, MyTurn
<1>8. /\ ScopeType' /\ active'[c] = (IF x = "release" THEN 0 ELSE 1)
      /\ \A d \in Clients \ {c} : active'[d] = active[d]
  <2>1. active \in [Clients -> 0..1] /\ deferred' \in [Clients -> BOOLEAN] /\ 1 \in 0..1
    BY <1>3 DEF AllI, TypesI, ScopeType
  <2>2. CASE x = "release"
    BY <1>4, <1>7, <2>1, <2>2 DEF ScopeType, Clients
  <2>3. CASE x # "release"
    <3>1. active' = [active EXCEPT ![c] = 1]
      BY <1>4, <1>7, <2>3
    <3> QED BY <2>1, <2>3, <3>1 DEF ScopeType, Clients
  <2> QED BY <2>2, <2>3
<1>9. x # "release" => feed[c] = "connected"
  BY <1>2, <1>4 DEF TokenI
<1>10. \A d : EndingsStill(d) /\ AcceptStill(d)
  BY <1>3, EndingsStand, AcceptStands
<1>11. ScopeI(c)' /\ TokenI(c)'
  <2>1. \A a \in Actors : Tells(a, c)' <=> Tells(a, c)
    BY <1>10 DEF EndingsStill, TellsStill
  <2>2. ScopeI(c)'
    BY <1>2, <1>3, <1>6, <1>7, <1>8, <1>9, <2>1 DEF ScopeI, Actors, Iocp!Actors
  <2> QED BY <1>2, <1>3, <1>10, <2>2, TokenStill
<1>12. Quiet(w)' /\ ending'[w].client = 0
  BY <1>2, <1>3 DEF AllI, FreeI, Quiet, Actors
<1>13. FeedType' /\ EndingType' /\ receiveOp' \subseteq Clients /\ c \notin receiveOp'
  BY <1>2, <1>3, TypesStill, MyTurn DEF AllI, TypesI, OpType
<1> QED BY <1>1, <1>2, <1>3, <1>5, <1>8, <1>10, <1>11, <1>12, <1>13, ReceiverSteps DEF Receiving

\* The scopes of all clients, when nobody is seen to tell an end.
LEMMA ScopesStill ==
  ASSUME ScopesI, UNCHANGED <<active, feed, deferred, callback>>,
         \A d \in Clients : WorkersStill(d) /\ TellsStill(d) /\ AcceptStill(d)
  PROVE  ScopesI'
BY ScopeStill DEF ScopesI, Clients

LEMMA TurnsStill ==
  ASSUME TurnsI, UNCHANGED <<receiveOp, feed>>, \A d \in Clients : WorkersStill(d) /\ AcceptStill(d)
  PROVE  TurnsI'
BY TurnStill DEF TurnsI, Clients

\* A worker disconnects a client and goes on.
LEMMA WorkerErases ==
  ASSUME AllI, NEW w \in Workers, NEW c \in Clients, c = worker[w].client, Quiet(w),
         worker[w].at \in Busy \cup {"failed"},
         worker' \in [Workers -> WorkRecord], WorkerI(w)',
         \A v \in Workers : v # w => worker'[v] = worker[v],
         worker[w].at # "sent", worker'[w].at \in {"release", "leave", "wait"},
         worker[w].at \in Busy \/ worker'[w].at = "wait",
         UNCHANGED <<setting, running, stopper, acceptor, lastId, callback, feed, sent, wire, monitor,
                     receiveOp, sendOp, sendBusy, active, deferred, app, wakes>>,
         \/ \A d \in Clients : WorkersStill(d)
         \/ worker[w].at = "post" /\ worker'[w].at = "release",
         Erases(w, c) \/ ErasesNot(c)
  PROVE  AllI'
<1>1. w \in Actors /\ worker[w].at \notin Gone /\ c \in 0..MaxClients /\ ending[w].client = 0
  BY AtWork DEF AllI, FreeI, Actors
<1>2. FeedKeeps /\ \A d : AcceptStill(d)
  BY AcceptStands DEF FeedKeeps
<1>3. \A v \in Workers, d \in Clients : (Sends(v, d)' <=> Sends(v, d)) /\ (Sends(v, d) => worker'[v] = worker[v])
  BY DEF Sends
<1>4. /\ TableType' /\ EndingType' /\ sendQueue' \in [Clients -> Seq(Messages)]
      /\ TokensI' /\ WiresI' /\ \A d \in Clients : TellsStill(d)
      /\ \A b \in Actors : b # w => ending'[b] = ending[b]
      /\ IF Quiet(w)' THEN ending'[w].client = 0 ELSE ending'[w].client \in Clients
      /\ registered' \subseteq registered
  <2>1. CASE Erases(w, c)
    <3>1. \A d \in Clients : Accepts({"accepting", "register", "publish"}, d)' =>
                              Accepts({"accepting", "register", "publish"}, d)
      BY DEF Accepts
    <3>2. registered' \subseteq registered
      BY <2>1 DEF Erases
    <3> QED BY <1>1, <1>3, <2>1, <3>1, <3>2, ErasesI
  <2>2. CASE ErasesNot(c)
    <3>1. TableType' /\ EndingType' /\ sendQueue' \in [Clients -> Seq(Messages)] /\ TokensI'
      BY <2>2, TypesStill, TokensSameI DEF ErasesNot, AllI, TypesI, OpType
    <3>2. \A d \in Clients : TellsStill(d) /\ WireI(d)'
      BY <1>3, <2>2, EndingsStand, WireSends DEF ErasesNot, EndingsStill, AllI, WiresI
    <3> QED BY <1>1, <2>2, <3>1, <3>2 DEF ErasesNot, Quiet, WiresI, Clients
  <2> QED BY <2>1, <2>2
<1>5. TypesI'
  <2>1. OpType'
    BY <1>4 DEF AllI, TypesI, OpType, Clients, Messages
  <2> QED BY <1>4, <2>1, TypesStill DEF AllI, TypesI, WorkType
<1>6. OwnerI' /\ FreeI' /\ AppI' /\ WorkersI'
  <2>1. worker[w].at \in Busy \/ worker'[w].at \notin Busy
    BY DEF Busy
  <2> QED BY <1>1, <1>2, <1>4, <2>1, OwnerWorker, FreeWorker, AppFeed, WorkersWorker DEF AllI
<1>7. AcceptI'
  BY <1>4, AcceptShrinks DEF AllI, TypesI, ControlType
<1>8. TurnsI' /\ ScopesI'
  <2>1. CASE \A d \in Clients : WorkersStill(d)
    BY <1>2, <1>4, <2>1, TurnsStill, ScopesStill DEF AllI
  <2>2. CASE worker[w].at = "post" /\ worker'[w].at = "release"
    <3>1. ASSUME NEW d \in Clients, NEW v \in Workers
          PROVE  (Receives(v, d)' => Receives(v, d)) /\ (Scoped(v, d)' <=> Scoped(v, d))
                 /\ (Says(v, d)' <=> Says(v, d))
      BY <2>2 DEF Receives, Scoped, Says
    <3>2. ASSUME NEW d \in Clients PROVE TurnI(d)'
      BY <1>2, <3>1 DEF AllI, TurnsI, TurnI, AcceptStill
    <3>3. ASSUME NEW d \in Clients PROVE ScopeI(d)'
      BY <1>2, <1>4, <3>1, ScopeSteady DEF AllI, ScopesI
    <3> QED BY <3>2, <3>3 DEF TurnsI, ScopesI, Clients
  <2> QED BY <2>1, <2>2
<1> QED BY <1>4, <1>5, <1>6, <1>7, <1>8 DEF AllI

LEMMA WorkerDisconnectsI ==
  ASSUME AllI, NEW w \in Workers, Iocp!WorkerDisconnects(w)
  PROVE  AllI'
<1>1. PICK c \in Clients : c = worker[w].client
  BY AtWork DEF Iocp!WorkerDisconnects, Busy
<1>2. /\ worker[w].at \in {"drop", "overflow", "failed"} /\ Quiet(w)
      /\ UNCHANGED <<setting, running, stopper, acceptor, lastId, callback, feed, sent, wire, monitor,
                     receiveOp, sendOp, sendBusy, active, deferred, app, wakes>>
      /\ Erases(w, c) \/ ErasesNot(c)
  BY <1>1, EraseI DEF AllI, FreeI, Iocp!WorkerDisconnects, Iocp!ownerVars, Iocp!acceptVars, Iocp!tableVars, Iocp!inputVars, Iocp!feedVars,
     Iocp!outputVars, Iocp!serverVars, Iocp!workVars, Iocp!opVars, Iocp!scopeVars
<1>3. CASE worker[w].at = "failed" /\ Iocp!Done(w)
  <2>1. /\ worker' \in [Workers -> WorkRecord] /\ worker'[w].at = "wait" /\ WorkerI(w)'
        /\ \A v \in Workers : v # w => worker'[v] = worker[v]
    BY <1>3, WorkerIsDone
  <2>2. \A d : WorkersStill(d)
    BY <1>3, <2>1, WorkerElsewhere DEF Receiving
  <2> QED BY <1>1, <1>2, <1>3, <2>1, <2>2, WorkerErases
<1>4. CASE worker[w].at = "drop" /\ Iocp!Goes(w, "release")
  <2>1. /\ worker' \in [Workers -> WorkRecord] /\ worker'[w].at = "release" /\ worker'[w].client = c
        /\ \A v \in Workers : v # w => worker'[v] = worker[v]
    BY <1>1, <1>4, WorkerAtGoes DEF WorkPlaces
  <2>2. \A d : WorkersStill(d)
    BY <1>4, <2>1, WorkerElsewhere DEF Receiving
  <2>3. WorkerI(w)'
    BY <1>1, <1>2, <1>4, <2>1, AtWork DEF WorkerI, Busy, Clients
  <2> QED BY <1>1, <1>2, <1>4, <2>1, <2>2, <2>3, WorkerErases DEF Busy
<1>5. CASE worker[w].at = "overflow" /\ Iocp!Goes(w, "leave")
  <2>1. /\ worker' \in [Workers -> WorkRecord] /\ worker'[w].at = "leave" /\ worker'[w].client = c
        /\ \A v \in Workers : v # w => worker'[v] = worker[v]
    BY <1>1, <1>5, WorkerAtGoes DEF WorkPlaces
  <2>2. \A d : WorkersStill(d)
    BY <1>1, <1>5, <2>1 DEF WorkersStill, Receives, Scoped, Says, Sends
  <2>3. WorkerI(w)'
    BY <1>1, <1>2, <1>5, <2>1, AtWork DEF WorkerI, Busy, Clients
  <2> QED BY <1>1, <1>2, <1>5, <2>1, <2>2, <2>3, WorkerErases DEF Busy
<1> QED BY <1>3, <1>4, <1>5 DEF Iocp!WorkerDisconnects

\* A worker moves outside the callback scopes.
LEMMA WorkerPasses ==
  ASSUME AllI, NEW w \in Workers, worker' \in [Workers -> WorkRecord], WorkerI(w)', Quiet(w),
         \A v \in Workers : v # w => worker'[v] = worker[v],
         worker[w].at \notin Scope \cup Gone, worker'[w].at \notin Scope,
         \/ worker[w].at \in Busy
         \/ /\ worker'[w].at \notin Busy /\ (receiveOp = {} => receiveOp' = {})
            /\ \A c \in Clients : sendOp[c] = NoSend => sendOp'[c] = NoSend
         \/ stopper \notin {"wake", "joinWorkers"},
         UNCHANGED <<setting, running, stopper, acceptor, lastId, registered, closing, callback, feed, sent,
                     monitor, active, deferred, ending, app>>,
         OpType', OutputType', WakeType', TurnsI', WiresI'
  PROVE  AllI'
<1>1. w \in Actors /\ ending[w].client = 0
  BY ActorsI DEF AllI, FreeI, Actors
<1>2. FeedKeeps /\ \A d : AcceptStill(d) /\ EndingsStill(d)
  BY AcceptStands, EndingsStand DEF FeedKeeps
<1>3. TypesI'
  BY TypesStill DEF AllI, TypesI, WorkType
<1>4. OwnerI' /\ AcceptI' /\ FreeI' /\ AppI' /\ WorkersI'
  BY <1>1, <1>2, OwnerWorker, AcceptSameI, FreeWorker, AppFeed, WorkersWorker DEF AllI, Quiet
<1>5. ASSUME NEW d \in Clients PROVE ScopeI(d)'
  <2>1. \A v \in Workers : (Scoped(v, d)' <=> Scoped(v, d)) /\ (Says(v, d)' <=> Says(v, d))
    BY DEF Scoped, Says, Scope
  <2> QED BY <1>2, <2>1, ScopeSteady DEF AllI, ScopesI, EndingsStill
<1>6. ScopesI' /\ TokensI'
  BY <1>5, TokensSameI DEF AllI, ScopesI, Clients
<1> QED BY <1>3, <1>4, <1>6 DEF AllI

LEMMA ReleaseI ==
  ASSUME AllI, NEW w \in Workers, Iocp!Release(w)
  PROVE  AllI'
<1>1. /\ worker[w].at = "release" /\ Quiet(w) /\ Iocp!Done(w)
      /\ UNCHANGED <<setting, running, stopper, acceptor, lastId, registered, closing, callback, feed, sent,
                     wire, monitor, receiveOp, sendOp, sendQueue, sendBusy, active, deferred, ending, app, wakes>>
  BY QuietI, ActorsI DEF AllI, TypesI, Iocp!Release, Iocp!ownerVars, Iocp!acceptVars, Iocp!tableVars, Iocp!feedVars,
     Iocp!outputVars, Iocp!serverVars, Iocp!opVars, Iocp!scopeVars
<1>2. /\ worker' \in [Workers -> WorkRecord] /\ worker'[w].at = "wait" /\ WorkerI(w)'
      /\ \A v \in Workers : v # w => worker'[v] = worker[v]
  BY <1>1, WorkerIsDone
<1>3. \A d : WorkersStill(d) /\ AcceptStill(d)
  BY <1>1, <1>2, WorkerElsewhere, AcceptStands DEF Receiving
<1>4. OpType' /\ OutputType' /\ WakeType' /\ TurnsI' /\ WiresI'
  BY <1>1, <1>3, TypesStill, TurnsStill, WiresWorker DEF AllI, TypesI, FeedKeeps
<1> QED BY <1>1, <1>2, <1>4, WorkerPasses DEF Scope, Gone, Busy

LEMMA WorkerExitsI ==
  ASSUME AllI, NEW w \in Workers, Iocp!WorkerExits(w)
  PROVE  AllI'
<1>1. /\ worker[w].at = "wait" /\ Quiet(w) /\ Iocp!Goes(w, "exited") /\ wakes > 0 /\ wakes' = wakes - 1
      /\ UNCHANGED <<setting, running, stopper, acceptor, lastId, registered, closing, callback, feed, sent,
                     wire, monitor, receiveOp, sendOp, sendQueue, sendBusy, active, deferred, ending, app>>
  BY QuietI, ActorsI DEF AllI, TypesI, Iocp!WorkerExits, Iocp!Waits, Iocp!ownerVars, Iocp!acceptVars, Iocp!tableVars,
     Iocp!feedVars, Iocp!outputVars, Iocp!serverVars, Iocp!opVars, Iocp!scopeVars
<1>2. /\ worker' \in [Workers -> WorkRecord] /\ worker'[w].at = "exited"
      /\ worker'[w].client = worker[w].client
      /\ \A v \in Workers : v # w => worker'[v] = worker[v]
  BY <1>1, WorkerAtGoes DEF WorkPlaces
<1>3. \A d : WorkersStill(d) /\ AcceptStill(d)
  BY <1>1, <1>2, WorkerElsewhere, AcceptStands DEF Receiving
<1>4. WakeType'
  <2>1. Cardinality(Workers) \in Nat /\ wakes \in 0..Cardinality(Workers)
    BY ConstantsOK, FS_CardinalityType DEF Constants, AllI, TypesI, WakeType
  <2> QED BY <1>1, <2>1 DEF WakeType
<1>5. OpType' /\ OutputType' /\ TurnsI' /\ WiresI'
  BY <1>1, <1>3, TypesStill, TurnsStill, WiresWorker DEF AllI, TypesI, FeedKeeps
<1>6. WorkerI(w)'
  BY <1>1, <1>2 DEF AllI, WorkersI, WorkerI
<1> QED BY <1>1, <1>2, <1>4, <1>5, <1>6, WorkerPasses DEF Scope, Gone, Busy

LEMMA PostReceiveI ==
  ASSUME AllI, NEW w \in Workers, Iocp!PostReceive(w)
  PROVE  AllI'
<1>1. PICK c \in Clients : c = worker[w].client
  BY AtWork DEF Iocp!PostReceive, Busy
<1>2. /\ worker[w].at = "post" /\ w \in Actors /\ TurnI(c) /\ ScopeI(c) /\ TokenI(c) /\ Receives(w, c)
      /\ feed[c] # "new" /\ Quiet(w) /\ Iocp!Goes(w, "release") /\ ending[w].client = 0
  BY <1>1, AtWork, QuietI DEF Iocp!PostReceive, Busy, Receiving, AllI, TypesI, FreeI, Actors
<1>3. UNCHANGED <<setting, running, stopper, acceptor, lastId, callback, feed, sent, wire, monitor,
                  sendOp, sendBusy, active, deferred, app, wakes>>
  BY DEF Iocp!PostReceive, Iocp!ownerVars, Iocp!acceptVars, Iocp!feedVars, Iocp!outputVars, Iocp!scopeVars
<1>4. /\ worker' \in [Workers -> WorkRecord] /\ worker'[w].at = "release" /\ worker'[w].client = c
      /\ \A v \in Workers : v # w => worker'[v] = worker[v]
      /\ \A d : d # c => WorkersStill(d)
  BY <1>1, <1>2, WorkerAtGoes DEF WorkPlaces
<1>5. \/ Erases(w, c) /\ receiveOp' = receiveOp
      \/ ErasesNot(c) /\ receiveOp' = receiveOp
      \/ /\ receiveOp' = receiveOp \cup {c} \/ receiveOp' = receiveOp
         /\ UNCHANGED <<registered, closing, sendQueue, ending>>
  BY <1>1, EraseI DEF Iocp!PostReceive, Iocp!tableVars
<1>6. CASE (Erases(w, c) \/ ErasesNot(c)) /\ receiveOp' = receiveOp
  <2>1. WorkerI(w)'
    BY <1>2, <1>3, <1>4 DEF WorkerI, Clients
  <2> QED BY <1>1, <1>2, <1>3, <1>4, <1>6, <2>1, WorkerErases DEF Busy
<1>7. CASE /\ receiveOp' = receiveOp \cup {c} \/ receiveOp' = receiveOp
           /\ UNCHANGED <<registered, closing, sendQueue, ending>>
  <2>1. \A d : EndingsStill(d) /\ AcceptStill(d)
    BY <1>3, <1>7, EndingsStand, AcceptStands
  <2>2. \A v \in Workers : (Scoped(v, c)' <=> Scoped(v, c)) /\ (Says(v, c)' <=> Says(v, c))
    BY <1>1, <1>2, <1>4 DEF Scoped, Says
  <2>3. ScopeI(c)' /\ TokenI(c)'
    BY <1>2, <1>3, <1>7, <2>1, <2>2, ScopeSteady, TokenStill DEF EndingsStill
  <2>4. FeedType' /\ ScopeType' /\ EndingType' /\ receiveOp' \subseteq Clients
    BY <1>3, <1>7, TypesStill DEF AllI, TypesI, OpType
  <2>5. Quiet(w)'
    BY <1>2, <1>7 DEF Quiet
  <2> QED BY <1>1, <1>2, <1>3, <1>4, <1>7, <2>1, <2>3, <2>4, <2>5, ReceiverSteps DEF Receiving
<1> QED BY <1>5, <1>6, <1>7

\* A completion is handed to a worker that waits.
LEMMA Waiting ==
  ASSUME AllI, NEW w \in Workers, Iocp!Waits(w)
  PROVE  worker[w].at = "wait" /\ worker[w].client = 0 /\ Quiet(w)
BY QuietI, ActorsI DEF AllI, TypesI, Iocp!Waits, WorkersI, WorkerI

LEMMA ReceiveCompletesI ==
  ASSUME AllI, NEW w \in Workers, NEW c \in Clients, Iocp!ReceiveCompletes(w, c)
  PROVE  AllI'
<1>1. /\ worker[w].at = "wait" /\ worker[w].client = 0 /\ Quiet(w)
      /\ c \in receiveOp /\ receiveOp' = receiveOp \ {c}
  BY Waiting DEF Iocp!ReceiveCompletes
<1>2. UNCHANGED <<setting, running, stopper, acceptor, lastId, registered, closing, callback, feed, sent,
                  wire, monitor, sendOp, sendQueue, sendBusy, active, deferred, ending, app, wakes>>
  BY DEF Iocp!ReceiveCompletes, Iocp!ownerVars, Iocp!acceptVars, Iocp!tableVars,
     Iocp!feedVars, Iocp!outputVars, Iocp!serverVars, Iocp!scopeVars
<1>3. PICK x \in {"begin", "drop"} : WorkerGoes(w, x, c, NoSend)
  BY TakesI DEF Iocp!ReceiveCompletes, NoSend
<1>4. /\ worker' \in [Workers -> WorkRecord]
      /\ worker'[w].at = x /\ worker'[w].client = c
      /\ \A v \in Workers : v # w => worker'[v] = worker[v]
      /\ \A d \in Clients \ {c} : WorkersStill(d)
  <2>1. x \in WorkPlaces /\ c \in 0..MaxClients /\ NoSend \in SendOp /\ WorkType /\ \A d \in Clients : d # 0
    BY ConstantsOK, NoSendI DEF WorkPlaces, Clients, Constants, AllI, TypesI
  <2> QED BY <1>1, <1>3, <2>1, WorkerMoves
<1>5. TurnI(c) /\ feed[c] # "new" /\ (\A v \in Workers : ~Receives(v, c))
      /\ ~Accepts({"connected", "leave", "receive"}, c)
  BY <1>1 DEF AllI, TurnsI, TurnI
<1>6. WorkerI(w)'
  BY <1>2, <1>3, <1>4, <1>5 DEF WorkerI, Clients
<1>7. ASSUME NEW d \in Clients PROVE TurnI(d)' /\ WireI(d)'
  <2>1. CASE d = c
    <3>1. \A v \in Workers : Receives(v, c)' => v = w
      BY <1>4, <1>5 DEF Receives
    <3>2. ~Accepts({"connected", "leave", "receive"}, c)' /\ c \notin receiveOp'
      BY <1>1, <1>2, <1>5 DEF Accepts
    <3>3. \A v \in Workers : (Sends(v, c)' <=> Sends(v, c)) /\ (Sends(v, c) => worker'[v] = worker[v])
      BY <1>1, <1>4 DEF Sends
    <3>4. WireI(c)'
      BY <1>2, <3>3, WireSends DEF AllI, WiresI
    <3> QED BY <2>1, <3>1, <3>2, <3>4 DEF TurnI
  <2>2. CASE d # c
    BY <1>1, <1>2, <1>4, <2>2, TurnStill, WireStill, AcceptStands DEF AllI, TurnsI, WiresI
  <2> QED BY <2>1, <2>2
<1>8. OpType' /\ OutputType' /\ WakeType' /\ TurnsI' /\ WiresI'
  <2>1. OpType'
    BY <1>1, <1>2 DEF AllI, TypesI, OpType, Clients, Messages
  <2> QED BY <1>2, <1>7, <2>1, TypesStill DEF AllI, TypesI, TurnsI, WiresI, Clients
<1>9. stopper \notin {"wake", "joinWorkers"}
  BY <1>1 DEF AllI, OwnerI
<1> QED BY <1>1, <1>2, <1>4, <1>6, <1>8, <1>9, WorkerPasses DEF Scope, Gone, Busy

LEMMA AppendIs ==
  ASSUME NEW S, NEW w \in Seq(S), NEW e \in S, NEW u, u = Append(w, e)
  PROVE  /\ u \in Seq(S) /\ Len(u) = Len(w) + 1
         /\ (\A i \in 1..Len(w) : u[i] = w[i]) /\ u[Len(w) + 1] = e
OBVIOUS

\* One piece of a message, or both, is what the kernel writes at once.
LEMMA PiecesWritten ==
  ASSUME NEW s \in Seq(Piece), NEW m \in Messages, NEW n \in {0, 1}, NEW k \in 1..(2 - n)
  PROVE  s \o [i \in 1..k |-> PieceOf(m, n + i)] =
           IF k = 1 THEN Append(s, PieceOf(m, n + 1))
           ELSE Append(Append(s, PieceOf(m, 1)), PieceOf(m, 2))
<1> DEFINE t == [i \in 1..k |-> PieceOf(m, n + i)]
<1>1. \A j \in {1, 2} : PieceOf(m, j) \in Piece
  BY PieceType
<1>2. CASE k = 1
  <2>1. n + 1 \in {1, 2}
    OBVIOUS
  <2>2. t = <<PieceOf(m, n + 1)>>
    BY <1>2
  <2> QED BY <1>1, <1>2, <2>1, <2>2, AppendIsConcat
<1>3. CASE k # 1
  <2>1. k = 2 /\ n = 0
    BY <1>3
  <2>2. t = <<PieceOf(m, 1), PieceOf(m, 2)>> /\ t \in Seq(Piece) /\ Len(t) = 2
    BY <1>1, <2>1
  <2>3. t[1] = PieceOf(m, 1) /\ t[2] = PieceOf(m, 2)
    BY <2>1
  <2> DEFINE u == Append(Append(s, PieceOf(m, 1)), PieceOf(m, 2))
             v == Append(s, PieceOf(m, 1))
  <2>4. v \in Seq(Piece) /\ Len(v) = Len(s) + 1 /\ (\A i \in 1..Len(s) : v[i] = s[i]) /\ v[Len(s) + 1] = PieceOf(m, 1)
    BY <1>1, AppendProperties
  <2>5. u \in Seq(Piece) /\ Len(u) = Len(v) + 1 /\ (\A i \in 1..Len(v) : u[i] = v[i]) /\ u[Len(v) + 1] = PieceOf(m, 2)
    <3> HIDE DEF v
    <3>1. u = Append(v, PieceOf(m, 2))
      BY DEF v
    <3>2. PieceOf(m, 2) \in Piece /\ v \in Seq(Piece)
      BY <1>1, <2>4
    <3> HIDE DEF u
    <3> QED BY <3>1, <3>2, AppendIs
  <2>6. /\ s \o t \in Seq(Piece) /\ Len(s \o t) = Len(s) + 2
        /\ \A i \in 1..(Len(s) + 2) : (s \o t)[i] = IF i <= Len(s) THEN s[i] ELSE t[i - Len(s)]
    <3> HIDE DEF t
    <3> QED BY <2>2, ConcatProperties
  <2>7. ASSUME NEW i \in 1..Len(s \o t) PROVE (s \o t)[i] = u[i]
    <3> HIDE DEF t, u, v
    <3>1. Len(s) \in Nat /\ i \in 1..(Len(s) + 2)
      BY <2>6
    <3>2. CASE i <= Len(s)
      BY <2>4, <2>5, <2>6, <3>1, <3>2
    <3>3. CASE i = Len(s) + 1
      <4>1. i - Len(s) = 1 /\ ~(i <= Len(s)) /\ i \in 1..Len(v)
        BY <2>4, <3>1, <3>3
      <4> QED BY <2>3, <2>4, <2>5, <2>6, <3>1, <3>3, <4>1
    <3>4. CASE i = Len(s) + 2
      <4>1. i - Len(s) = 2 /\ ~(i <= Len(s)) /\ i = Len(v) + 1
        BY <2>4, <3>1, <3>4
      <4> QED BY <2>3, <2>5, <2>6, <3>1, <4>1
    <3> QED BY <3>1, <3>2, <3>3, <3>4
  <2>8. Len(s \o t) = Len(u)
    <3> HIDE DEF t, u, v
    <3>1. Len(s) \in Nat
      OBVIOUS
    <3> QED BY <2>4, <2>5, <2>6, <3>1
  <2>9. s \o t = u
    <3> HIDE DEF t, u, v
    <3> QED BY <2>5, <2>6, <2>7, <2>8, SeqEqual
  <2> QED BY <2>1, <2>9
<1> QED BY <1>2, <1>3

LEMMA SendAdvances ==
  ASSUME NEW s \in Seq(Piece), Whole(s), NEW op \in SendOp, op.message \in Messages, op.written \in {0, 1},
         SoFar(s, op), NEW k \in 1..(2 - op.written), NEW t,
         t = s \o [i \in 1..k |-> PieceOf(op.message, op.written + i)]
  PROVE  /\ t \in Seq(Piece) /\ Whole(t)
         /\ IF op.written + k = 1 THEN HalfOf(t, op.message) ELSE op.written + k = 2 /\ Complete(t)
<1> DEFINE m == op.message
<1>1. t = IF k = 1 THEN Append(s, PieceOf(m, op.written + 1))
          ELSE Append(Append(s, PieceOf(m, 1)), PieceOf(m, 2))
  BY PiecesWritten
<1>2. CASE op.written = 0
  <2>1. Complete(s)
    BY <1>2 DEF SoFar
  <2> DEFINE v == Append(s, PieceOf(m, 1))
  <2>2. v \in Seq(Piece) /\ Whole(v) /\ HalfOf(v, m)
    BY <2>1, FirstPiece
  <2>3. CASE k = 1
    <3>1. t = v /\ op.written + k = 1
      BY <1>1, <1>2, <2>3
    <3> QED BY <2>2, <3>1
  <2>4. CASE k # 1
    <3>1. op.written + k = 2
      BY <1>2, <2>4
    <3>2. t = Append(v, PieceOf(m, 2))
      BY <1>1, <2>4
    <3> HIDE DEF v
    <3>3. t \in Seq(Piece) /\ Whole(t) /\ Complete(t)
      BY <2>2, <3>2, SecondPiece
    <3> QED BY <3>1, <3>3
  <2> QED BY <2>3, <2>4
<1>3. CASE op.written = 1
  <2>1. HalfOf(s, m) /\ k = 1 /\ op.written + k = 2
    BY <1>3 DEF SoFar
  <2>2. t = Append(s, PieceOf(m, 2))
    BY <1>1, <1>3, <2>1
  <2>3. t \in Seq(Piece) /\ Whole(t) /\ Complete(t)
    BY <2>1, <2>2, SecondPiece
  <2> QED BY <2>1, <2>3
<1> QED BY <1>2, <1>3

LEMMA SendCompletesI ==
  ASSUME AllI, NEW w \in Workers, NEW c \in Clients, Iocp!SendCompletes(w, c)
  PROVE  AllI'
<1> DEFINE op == sendOp[c]
<1>1. /\ worker[w].at = "wait" /\ worker[w].client = 0 /\ Quiet(w)
      /\ op # NoSend /\ sendOp' = [sendOp EXCEPT ![c] = NoSend]
  BY Waiting DEF Iocp!SendCompletes, NoSend
<1>2. UNCHANGED <<setting, running, stopper, acceptor, lastId, registered, closing, callback, feed, sent,
                  monitor, receiveOp, sendQueue, sendBusy, active, deferred, ending, app, wakes>>
  BY DEF Iocp!SendCompletes, Iocp!ownerVars, Iocp!acceptVars, Iocp!tableVars,
     Iocp!feedVars, Iocp!outputVars, Iocp!serverVars, Iocp!scopeVars
<1>3. /\ WireI(c) /\ feed[c] # "new" /\ op \in SendOp /\ op.message \in Messages /\ op.written \in {0, 1}
      /\ wire \in [Clients -> Seq(Piece)] /\ wire[c] \in Seq(Piece) /\ Whole(wire[c])
      /\ Writable(c) => SoFar(wire[c], op) /\ sendBusy[c] /\ \A v \in Workers : ~Sends(v, c)
  BY <1>1 DEF AllI, TypesI, OpType, OutputType, WiresI, WireI, NoSend
<1>4. /\ sendOp' \in [Clients -> SendOp] /\ sendOp'[c] = NoSend
      /\ \A d \in Clients \ {c} : sendOp'[d] = sendOp[d]
  BY <1>1, NoSendI DEF AllI, TypesI, OpType
<1>5. PICK x \in {"sent", "drop"}, o \in SendOp :
        /\ WorkerGoes(w, x, c, o)
        /\ \A d \in Clients \ {c} : wire'[d] = wire[d]
        /\ wire' \in [Clients -> Seq(Piece)] /\ Whole(wire'[c])
        /\ x = "sent" => o.message \in Messages /\ o.written \in {1, 2} /\ SoFar(wire'[c], o) /\ Writable(c)
        /\ Writable(c)' => Writable(c)
  <2>1. CASE /\ Writable(c)
             /\ \E k \in 1..(2 - op.written) :
                  /\ wire' = [wire EXCEPT ![c] = @ \o [i \in 1..k |-> Iocp!PieceOf(op.message, op.written + i)]]
                  /\ Iocp!Takes(w, c, TRUE, "sent", [op EXCEPT !.written = @ + k])
    <3>1. PICK k \in 1..(2 - op.written) :
                  /\ wire' = [wire EXCEPT ![c] = @ \o [i \in 1..k |-> PieceOf(op.message, op.written + i)]]
                  /\ Iocp!Takes(w, c, TRUE, "sent", [op EXCEPT !.written = @ + k])
      BY <2>1, SameI
    <3> DEFINE o == [op EXCEPT !.written = @ + k]
               t == wire[c] \o [i \in 1..k |-> PieceOf(op.message, op.written + i)]
    <3>2. op.written + k \in {1, 2}
      BY <1>3
    <3>3. o \in SendOp /\ o.message = op.message /\ o.written = op.written + k
      BY <1>3, <3>2 DEF SendOp, Iocp!SendOp
    <3>4. /\ t \in Seq(Piece) /\ Whole(t)
          /\ IF op.written + k = 1 THEN HalfOf(t, op.message) ELSE op.written + k = 2 /\ Complete(t)
      BY <1>3, <2>1, SendAdvances
    <3> HIDE DEF o, t
    <3>5. wire' = [wire EXCEPT ![c] = t]
      BY <3>1 DEF t
    <3>6. wire' \in [Clients -> Seq(Piece)] /\ wire'[c] = t /\ \A d \in Clients \ {c} : wire'[d] = wire[d]
      BY <1>3, <3>4, <3>5
    <3>7. SoFar(t, o)
      BY <3>2, <3>3, <3>4 DEF SoFar
    <3>8. PICK x \in {"sent", "drop"} : WorkerGoes(w, x, c, o)
      BY <3>1, TakesI DEF o
    <3> QED BY <1>3, <2>1, <3>2, <3>3, <3>4, <3>6, <3>7, <3>8
  <2>2. CASE /\ IF Writable(c) THEN Iocp!Write(c, End) ELSE UNCHANGED wire
             /\ Iocp!Takes(w, c, FALSE, "sent", NoSend)
    <3>1. WorkerGoes(w, "drop", c, NoSend)
      BY <2>2, TakesI
    <3>2. CASE Writable(c)
      <4>1. wire' = [wire EXCEPT ![c] = Append(wire[c], End)]
        BY <2>2, <3>2 DEF Iocp!Write
      <4>2. Append(wire[c], End) \in Seq(Piece) /\ Whole(Append(wire[c], End)) /\ End \in Range(Append(wire[c], End))
        BY <1>3, EndPiece
      <4>3. wire' \in [Clients -> Seq(Piece)] /\ wire'[c] = Append(wire[c], End) /\ \A d \in Clients \ {c} : wire'[d] = wire[d]
        BY <1>3, <4>1, <4>2
      <4>4. ~Writable(c)'
        BY <4>2, <4>3 DEF Writable
      <4> QED BY <3>1, <4>2, <4>3, <4>4, NoSendI
    <3>3. CASE ~Writable(c)
      <4>1. wire' = wire /\ ~Writable(c)'
        BY <1>2, <2>2, <3>3 DEF Writable
      <4> QED BY <1>3, <3>1, <4>1, NoSendI
    <3> QED BY <3>2, <3>3
  <2> QED BY <2>1, <2>2, SameI DEF Iocp!SendCompletes, NoSend
<1>6. /\ worker' \in [Workers -> WorkRecord]
      /\ worker'[w].at = x /\ worker'[w].client = c /\ worker'[w].op = o
      /\ \A v \in Workers : v # w => worker'[v] = worker[v]
      /\ \A d \in Clients \ {c} : WorkersStill(d)
  <2>1. x \in WorkPlaces /\ c \in 0..MaxClients /\ WorkType /\ \A d \in Clients : d # 0
    BY ConstantsOK DEF WorkPlaces, Clients, Constants, AllI, TypesI
  <2> QED BY <1>1, <1>5, <2>1, WorkerMoves
<1>7. WorkerI(w)'
  BY <1>2, <1>3, <1>5, <1>6 DEF WorkerI, Clients, Messages
<1>8. WireI(c)'
  <2>1. \A v \in Workers : Sends(v, c)' => Sends(v, c) \/ (v = w /\ x = "sent")
    BY <1>6 DEF Sends
  <2>2. Writable(c)' => sendBusy'[c] /\ \A v \in Workers : Sends(v, c)' => v = w /\ x = "sent"
    BY <1>2, <1>3, <1>5, <2>1
  <2>3. Writable(c)' => \A v \in Workers : Sends(v, c)' => SoFar(wire'[c], worker'[v].op)
    BY <1>5, <1>6, <2>2
  <2>4. Whole(wire[c])' /\ sendOp'[c] = Iocp!NoSend
    BY <1>4, <1>5 DEF NoSend
  <2>5. \A v \in Workers : SoFar(wire[c], worker[v].op)' <=> SoFar(wire'[c], worker'[v].op)
    OBVIOUS
  <2> QED BY <2>2, <2>3, <2>4, <2>5 DEF WireI
<1>9. ASSUME NEW d \in Clients PROVE TurnI(d)' /\ WireI(d)'
  <2>1. \A v \in Workers : Receives(v, d)' <=> Receives(v, d)
    BY <1>1, <1>5, <1>6 DEF Receives
  <2>2. AcceptStill(d)
    BY <1>2, AcceptStands
  <2>3. TurnI(d)'
    BY <1>2, <2>1, <2>2 DEF AllI, TurnsI, TurnI, AcceptStill
  <2>4. CASE d # c
    BY <1>2, <1>4, <1>5, <1>6, <2>3, <2>4, WireStill DEF AllI, WiresI
  <2> QED BY <1>8, <2>3, <2>4
<1>10. OpType' /\ OutputType' /\ WakeType' /\ TurnsI' /\ WiresI'
  <2>1. OpType' /\ OutputType'
    BY <1>2, <1>4, <1>5 DEF AllI, TypesI, OpType, OutputType, Clients, Messages
  <2> QED BY <1>2, <1>9, <2>1, TypesStill DEF AllI, TypesI, TurnsI, WiresI, Clients
<1>11. stopper \notin {"wake", "joinWorkers"}
  BY <1>1 DEF AllI, OwnerI, NoSend
<1> QED BY <1>1, <1>2, <1>5, <1>6, <1>7, <1>10, <1>11, WorkerPasses DEF Scope, Gone, Busy

\* The next queued message is submitted, or there is none, or that fails.
LEMMA PostNext ==
  ASSUME OpType, NEW c \in Clients, NEW queue \in Seq(Messages), NEW ok \in BOOLEAN,
         Iocp!post_next_send(c, queue, ok)
  PROVE  /\ sendQueue' \in [Clients -> Seq(Messages)] /\ sendBusy' \in [Clients -> BOOLEAN]
         /\ sendOp' \in [Clients -> SendOp]
         /\ \A d \in Clients \ {c} : sendOp'[d] = sendOp[d] /\ sendBusy'[d] = sendBusy[d]
         /\ \/ sendOp'[c] = sendOp[c] /\ ~sendBusy'[c]
            \/ sendBusy'[c] /\ sendOp'[c].message \in Messages /\ sendOp'[c].written = 0
<1>1. /\ sendQueue' = [sendQueue EXCEPT ![c] = IF queue = <<>> THEN <<>> ELSE Tail(queue)]
      /\ sendBusy' = [sendBusy EXCEPT ![c] = ok /\ queue # <<>>]
      /\ sendOp' = IF ok /\ queue # <<>>
                   THEN [sendOp EXCEPT ![c] = [message |-> Head(queue), written |-> 0]]
                   ELSE sendOp
  BY DEF Iocp!post_next_send
<1>2. (IF queue = <<>> THEN <<>> ELSE Tail(queue)) \in Seq(Messages)
  OBVIOUS
<1>3. sendQueue' \in [Clients -> Seq(Messages)]
  BY <1>1, <1>2 DEF OpType
<1>4. /\ sendBusy' \in [Clients -> BOOLEAN] /\ (sendBusy'[c] <=> ok /\ queue # <<>>)
      /\ \A d \in Clients \ {c} : sendBusy'[d] = sendBusy[d]
  BY <1>1 DEF OpType
<1>5. CASE ok /\ queue # <<>>
  <2> DEFINE o == [message |-> Head(queue), written |-> 0]
  <2>1. Head(queue) \in Messages /\ 0 \in 0..2
    BY <1>5
  <2>5. \A m \in Messages : m \in 0..MaxSends
    BY ConstantsOK DEF Messages, Constants
  <2>2. o \in SendOp /\ o.message \in Messages /\ o.written = 0
    <3>1. PICK m \in Messages : m = Head(queue)
      BY <2>1
    <3>2. m \in 0..MaxSends
      BY <2>5
    <3> QED BY <2>1, <3>1, <3>2 DEF SendOp, Iocp!SendOp
  <2> HIDE DEF o
  <2>3. sendOp' = [sendOp EXCEPT ![c] = o]
    BY <1>1, <1>5 DEF o
  <2>4. sendOp' \in [Clients -> SendOp] /\ sendOp'[c] = o /\ \A d \in Clients \ {c} : sendOp'[d] = sendOp[d]
    BY <2>2, <2>3 DEF OpType
  <2> QED BY <1>3, <1>4, <1>5, <2>2, <2>4
<1>6. CASE ~(ok /\ queue # <<>>)
  BY <1>1, <1>3, <1>4, <1>6 DEF OpType
<1> QED BY <1>5, <1>6

LEMMA PostWire ==
  ASSUME NEW c, WireI(c), Writable(c) => Complete(wire[c]) /\ sendOp[c] = NoSend,
         \A w \in Workers : ~Sends(w, c)', feed[c] # "new", UNCHANGED <<wire, closing, feed>>,
         \/ sendOp'[c] = sendOp[c] /\ ~sendBusy'[c]
         \/ sendBusy'[c] /\ sendOp'[c].message \in Messages /\ sendOp'[c].written = 0
  PROVE  WireI(c)'
<1>1. Writable(c)' <=> Writable(c)
  BY DEF Writable
<1>2. /\ Whole(wire[c])'
      /\ sendOp'[c] # NoSend => sendOp'[c].message \in Messages /\ sendOp'[c].written \in {0, 1}
  BY DEF WireI, NoSend
<1>3. Writable(c) => SoFar(wire'[c], sendOp'[c]) \/ sendOp'[c] = NoSend
  BY DEF SoFar
<1> QED BY <1>1, <1>2, <1>3 DEF WireI, NoSend, Messages, SoFar

LEMMA CompleteSendI ==
  ASSUME AllI, NEW w \in Workers, Iocp!complete_send(w)
  PROVE  AllI'
<1>1. PICK c \in Clients : c = worker[w].client
  BY AtWork DEF Iocp!complete_send, Busy
<1> DEFINE op == worker[w].op
<1>2. /\ worker[w].at = "sent" /\ Quiet(w) /\ WireI(c) /\ feed[c] # "new"
      /\ op \in SendOp /\ op.message \in Messages /\ op.written \in {1, 2} /\ Sends(w, c)
  BY <1>1, AtWork DEF Iocp!complete_send, Busy, AllI, FreeI, WorkersI, WorkerI, Sends
<1>3. UNCHANGED <<setting, running, stopper, acceptor, lastId, registered, closing, callback, feed, sent, wire,
                  monitor, receiveOp, active, deferred, ending, app, wakes>>
  BY DEF Iocp!complete_send, Iocp!ownerVars, Iocp!acceptVars, Iocp!tableVars,
     Iocp!feedVars, Iocp!outputVars, Iocp!serverVars, Iocp!scopeVars
<1>4. /\ worker' \in [Workers -> WorkRecord] /\ worker'[w].at \in {"wait", "failed"} /\ WorkerI(w)'
      /\ \A v \in Workers : v # w => worker'[v] = worker[v]
      /\ \A d \in Clients \ {c} : WorkersStill(d)
  <2>1. CASE Iocp!Done(w)
    BY <1>1, <2>1, WorkerIsDone
  <2>2. CASE Iocp!Goes(w, "failed")
    <3>1. /\ worker' \in [Workers -> WorkRecord] /\ worker'[w].at = "failed" /\ worker'[w].client = c
          /\ \A v \in Workers : v # w => worker'[v] = worker[v]
          /\ \A d : d # c => WorkersStill(d)
      BY <1>1, <2>2, WorkerAtGoes DEF WorkPlaces
    <3>2. WorkerI(w)'
      BY <1>2, <1>3, <3>1 DEF WorkerI, Clients
    <3> QED BY <3>1, <3>2
  <2> QED BY <1>1, <2>1, <2>2 DEF Iocp!complete_send
<1>5. Writable(c) =>
        /\ sendBusy[c] /\ SoFar(wire[c], op) /\ sendOp[c] = NoSend
        /\ \A v \in Workers : Sends(v, c) => v = w
  BY <1>2 DEF WireI, NoSend
<1>6. Writable(c) => \A v \in Workers : ~Sends(v, c)'
  BY <1>4, <1>5 DEF Sends
<1>7. Writable(c)' <=> Writable(c)
  BY <1>3 DEF Writable
<1>8. /\ sendQueue' \in [Clients -> Seq(Messages)] /\ sendBusy' \in [Clients -> BOOLEAN]
      /\ sendOp' \in [Clients -> SendOp]
      /\ \A d \in Clients \ {c} : sendOp'[d] = sendOp[d] /\ sendBusy'[d] = sendBusy[d]
      /\ WireI(c)'
  <2>1. OpType
    BY DEF AllI, TypesI
  <2>2. CASE closing[c] /\ UNCHANGED <<sendOp, sendQueue, sendBusy>>
    <3>1. ~Writable(c)'
      BY <1>7, <2>2 DEF Writable
    <3>2. WireI(c)'
      BY <1>2, <1>3, <2>2, <3>1 DEF WireI, Messages
    <3> QED BY <2>1, <2>2, <3>2 DEF OpType
  <2>3. CASE /\ op.written < 2 /\ UNCHANGED <<sendQueue, sendBusy>>
             /\ sendOp' = [sendOp EXCEPT ![c] = op]
    <3>1. op.written = 1 /\ op # NoSend
      BY <1>2, <2>3, NoSendI
    <3>2. sendOp' \in [Clients -> SendOp] /\ sendOp'[c] = op /\ \A d \in Clients \ {c} : sendOp'[d] = sendOp[d]
      BY <1>2, <2>1, <2>3 DEF OpType
    <3>3. Whole(wire[c])' /\ feed'[c] # "new"
      BY <1>2, <1>3 DEF WireI
    <3>4. Writable(c)' => sendBusy'[c] /\ SoFar(wire'[c], sendOp'[c])
      BY <1>3, <1>5, <1>7, <2>3, <3>2
    <3>5. WireI(c)'
      BY <1>2, <1>6, <1>7, <3>1, <3>2, <3>3, <3>4 DEF WireI, Messages, NoSend, SoFar
    <3> QED BY <2>1, <2>3, <3>2, <3>5 DEF OpType
  <2>4. CASE UNCHANGED <<sendOp, sendQueue, sendBusy>>
    <3>1. WireI(c)'
      BY <1>2, <1>3, <1>5, <1>6, <1>7, <2>4 DEF WireI, Messages, NoSend
    <3> QED BY <2>1, <2>4, <3>1 DEF OpType
  <2>5. ASSUME NEW ok \in BOOLEAN, ~closing[c], op.written = 2, Iocp!post_next_send(c, sendQueue[c], ok)
        PROVE  /\ sendQueue' \in [Clients -> Seq(Messages)] /\ sendBusy' \in [Clients -> BOOLEAN]
               /\ sendOp' \in [Clients -> SendOp]
               /\ \A d \in Clients \ {c} : sendOp'[d] = sendOp[d] /\ sendBusy'[d] = sendBusy[d]
               /\ WireI(c)'
    <3>1. sendQueue[c] \in Seq(Messages)
      BY <2>1 DEF OpType
    <3>2. Writable(c) => Complete(wire[c])
      BY <1>5, <2>5 DEF SoFar
    <3>3. /\ sendQueue' \in [Clients -> Seq(Messages)] /\ sendBusy' \in [Clients -> BOOLEAN]
          /\ sendOp' \in [Clients -> SendOp]
          /\ \A d \in Clients \ {c} : sendOp'[d] = sendOp[d] /\ sendBusy'[d] = sendBusy[d]
          /\ \/ sendOp'[c] = sendOp[c] /\ ~sendBusy'[c]
             \/ sendBusy'[c] /\ sendOp'[c].message \in Messages /\ sendOp'[c].written = 0
      BY <2>1, <2>5, <3>1, PostNext
    <3>4. WireI(c)'
      <4>1. CASE Writable(c)
        BY <1>2, <1>3, <1>5, <1>6, <3>2, <3>3, <4>1, PostWire
      <4>2. CASE ~Writable(c)
        <5>1. sendOp'[c] # NoSend => sendOp'[c].message \in Messages /\ sendOp'[c].written \in {0, 1}
          BY <1>2, <3>3 DEF WireI, NoSend
        <5>2. Whole(wire[c])' /\ feed'[c] # "new" /\ ~Writable(c)'
          BY <1>2, <1>3, <1>7, <4>2 DEF WireI
        <5> QED BY <5>1, <5>2 DEF WireI, Messages, NoSend
      <4> QED BY <4>1, <4>2
    <3> QED BY <3>3, <3>4
  <2> QED BY <1>1, <1>2, <2>2, <2>3, <2>4, <2>5 DEF Iocp!complete_send
<1>9. ASSUME NEW d \in Clients PROVE TurnI(d)' /\ WireI(d)'
  <2>1. \A v \in Workers : Receives(v, d)' <=> Receives(v, d)
    BY <1>2, <1>4 DEF Receives
  <2>2. AcceptStill(d)
    BY <1>3, AcceptStands
  <2>3. TurnI(d)'
    BY <1>3, <2>1, <2>2 DEF AllI, TurnsI, TurnI, AcceptStill
  <2>4. CASE d # c
    BY <1>3, <1>4, <1>8, <2>3, <2>4, WireStill DEF AllI, WiresI
  <2> QED BY <1>8, <2>3, <2>4
<1>10. OpType' /\ OutputType' /\ WakeType' /\ TurnsI' /\ WiresI'
  <2>1. OpType'
    BY <1>3, <1>8 DEF AllI, TypesI, OpType, Clients, Messages
  <2> QED BY <1>3, <1>9, <2>1, TypesStill DEF AllI, TypesI, TurnsI, WiresI, Clients
<1> QED BY <1>2, <1>3, <1>4, <1>10, WorkerPasses DEF Scope, Gone, Busy

\* Nobody but the workers moves.
LEMMA HoldsSame == ASSUME worker' = worker, NEW w PROVE Iocp!Holds(w)' <=> Iocp!Holds(w)
BY DEF Iocp!Holds

\* The accept thread, the monitor, stop() or the application disconnects a
\* client; the accept thread and the application go on.
LEMMA SomebodyErases ==
  ASSUME AllI, NEW a \in {"accept", "monitor", "stop", "app"}, Quiet(a), NEW c \in Clients,
         Erases(a, c) \/ ErasesNot(c),
         UNCHANGED <<setting, running, stopper, lastId, callback, feed, sent, wire, worker, monitor,
                     receiveOp, sendOp, sendBusy, active, deferred, wakes>>,
         acceptor' = acceptor \/ (acceptor.at = "receive" /\ Moves("wait", 0)),
         app' = app \/ (app'.at = "idle" /\ app' \in AppRecord),
         a = "accept" => acceptor'.at = "wait", a = "monitor" => monitor = "scan",
         a = "stop" => stopper = "close", a = "app" => app'.at = "idle"
  PROVE  AllI'
<1>1. a \in Actors /\ a \notin Workers /\ ending[a].client = 0
  BY ActorsI DEF AllI, FreeI, Actors
<1>2. FeedKeeps /\ \A d : WorkersStill(d)
  BY WorkersStand DEF FeedKeeps
<1>3. ASSUME NEW d \in Clients
      PROVE  /\ Accepts({"accepting", "register", "publish"}, d)' <=> Accepts({"accepting", "register", "publish"}, d)
             /\ Accepts({"connected", "leave"}, d)' <=> Accepts({"connected", "leave"}, d)
             /\ Accepts({"connected"}, d)' <=> Accepts({"connected"}, d)
             /\ Accepts({"connected", "leave", "receive"}, d)' => Accepts({"connected", "leave", "receive"}, d)
  BY DEF Accepts, Moves
<1>4. /\ TableType' /\ EndingType' /\ sendQueue' \in [Clients -> Seq(Messages)]
      /\ TokensI' /\ WiresI' /\ \A d \in Clients : TellsStill(d)
      /\ \A b \in Actors : b # a => ending'[b] = ending[b]
      /\ IF Quiet(a)' THEN ending'[a].client = 0 ELSE ending'[a].client \in Clients
      /\ registered' \subseteq registered
  <2>1. CASE Erases(a, c)
    <3>1. \A v \in Workers, d \in Clients : Sends(v, d)' <=> Sends(v, d)
      BY DEF Sends
    <3>2. registered' \subseteq registered
      BY <2>1 DEF Erases
    <3> QED BY <1>1, <1>3, <2>1, <3>1, <3>2, ErasesI
  <2>2. CASE ErasesNot(c)
    <3>1. TableType' /\ EndingType' /\ sendQueue' \in [Clients -> Seq(Messages)] /\ WiresI'
      BY <2>2, TypesStill, WiresSameI DEF ErasesNot, AllI, TypesI, OpType
    <3>2. \A d : EndingsStill(d)
      BY <2>2, EndingsStand DEF ErasesNot
    <3>3. ASSUME NEW d \in Clients PROVE TokenI(d)'
      BY <1>3, <2>2, <3>2 DEF AllI, TokensI, TokenI, ErasesNot, EndingsStill, TellsStill, Actors, Iocp!Actors
    <3> QED BY <1>1, <2>2, <3>1, <3>2, <3>3 DEF ErasesNot, EndingsStill, Quiet, TokensI, Clients
  <2> QED BY <2>1, <2>2
<1>5. acceptor' \in Acceptor /\ AppType'
  <2>1. acceptor' \in Acceptor
    BY MovesType, ConstantsOK DEF AllI, TypesI, ControlType, Constants
  <2> QED BY <2>1 DEF AllI, TypesI, AppType, AppRecord
<1>6. TypesI'
  <2>1. OpType'
    BY <1>4 DEF AllI, TypesI, OpType, Clients, Messages
  <2>2. ControlType(StopsI)'
    BY <1>5 DEF AllI, TypesI, ControlType
  <2> QED BY <1>4, <1>5, <2>1, <2>2, TypesStill DEF AllI, TypesI
<1>7. OwnerI'
  <2>1. acceptor'.at \in Gone <=> acceptor.at \in Gone
    BY DEF Moves, Gone
  <2>2. acceptor'.at = "none" <=> acceptor.at = "none"
    BY DEF Moves
  <2> QED BY <1>4, <2>1, <2>2, HoldsSame DEF AllI, OwnerI, Clients
<1>8. AcceptI'
  <2>1. CASE acceptor' = acceptor
    BY <1>4, <2>1, AcceptShrinks DEF AllI, TypesI, ControlType
  <2>2. CASE Moves("wait", 0)
    BY <2>2 DEF AcceptI, Moves
  <2> QED BY <2>1, <2>2
<1>9. FreeI'
  <2>1. \A b \in Actors \ {a} : ending'[b] = ending[b] /\ (Quiet(b)' <=> Quiet(b))
    BY <1>4 DEF Quiet
  <2>2. /\ acceptor'.at \notin {"wait", "receive"} => acceptor.at \notin {"wait", "receive"} /\ a # "accept"
        /\ app'.at # "idle" => app.at # "idle" /\ a # "app"
    BY DEF Moves
  <2>3. {"accept", "monitor", "stop", "app"} \cup Workers = Actors
    BY ActorsI
  <2>4. /\ acceptor'.at \notin {"wait", "receive"} => Quiet("accept")'
        /\ monitor' # "scan" => Quiet("monitor")'
        /\ stopper' # "close" => Quiet("stop")'
        /\ app'.at # "idle" => Quiet("app")'
    BY <2>1, <2>2, <2>3 DEF AllI, FreeI
  <2>5. \A v \in Workers : worker'[v].at \notin {"wait", "release", "leave", "post"} => Quiet(v)'
    BY <1>1, <2>1, <2>3 DEF AllI, FreeI
  <2>6. \A b \in Actors : IF Quiet(b)' THEN ending'[b].client = 0 ELSE ending'[b].client \in Clients
    BY <1>4, <2>1 DEF AllI, FreeI, Actors
  <2> QED BY <2>4, <2>5, <2>6 DEF FreeI, Actors, Iocp!Actors, Clients
<1>10. AppI' /\ WorkersI'
  BY <1>2, AppFeed, WorkersFeed DEF AllI, AppI
<1>11. ASSUME NEW d \in Clients PROVE TurnI(d)' /\ ScopeI(d)'
  <2>1. TurnI(d)'
    BY <1>2, <1>3 DEF AllI, TurnsI, TurnI, WorkersStill
  <2>2. InScope(d)' <=> InScope(d)
    BY <1>2, <1>3 DEF InScope, WorkersStill
  <2>3. (\E w \in Workers : Says(w, d)') <=> (\E w \in Workers : Says(w, d))
    BY <1>2 DEF WorkersStill
  <2>4. (\E b \in Actors : Tells(b, d)') <=> (\E b \in Actors : Tells(b, d))
    BY <1>4 DEF TellsStill
  <2>5. ScopeI(d)'
    BY <1>3, <2>2, <2>3, <2>4 DEF AllI, ScopesI, ScopeI, Actors, Iocp!Actors
  <2> QED BY <2>1, <2>5
<1> QED BY <1>4, <1>6, <1>7, <1>8, <1>9, <1>10, <1>11 DEF AllI, TurnsI, ScopesI, Clients

LEMMA IdleI ==
  /\ Iocp!Idle \in AppRecord /\ Iocp!Idle.at = "idle"
BY ConstantsOK DEF Iocp!Idle, AppRecord, Constants

LEMMA IdleMonitorI ==
  ASSUME AllI, Iocp!idle_monitor_loop
  PROVE  AllI'
<1>1. PICK c \in registered : Iocp!Erase("monitor", c)
  BY DEF Iocp!idle_monitor_loop
<1>2. c \in Clients /\ (Erases("monitor", c) \/ ErasesNot(c))
  BY <1>1, EraseI DEF AllI, TypesI, TableType
<1>3. /\ monitor = "scan" /\ Quiet("monitor")
      /\ UNCHANGED <<setting, running, stopper, acceptor, lastId, callback, feed, sent, wire, worker, monitor,
                     receiveOp, sendOp, sendBusy, active, deferred, app, wakes>>
  BY QuietI, ActorsI DEF AllI, TypesI, Iocp!idle_monitor_loop, Iocp!ownerVars, Iocp!acceptVars,
     Iocp!feedVars, Iocp!outputVars, Iocp!workVars, Iocp!scopeVars
<1> QED BY <1>2, <1>3, SomebodyErases

LEMMA DisconnectI ==
  ASSUME AllI, NEW c \in Clients, Iocp!disconnect(c)
  PROVE  AllI'
<1>1. /\ Erases("app", c) \/ ErasesNot(c)
      /\ app.at = "idle" /\ Quiet("app")
      /\ UNCHANGED <<setting, running, stopper, acceptor, lastId, callback, feed, sent, wire, worker, monitor,
                     receiveOp, sendOp, sendBusy, active, deferred, app, wakes>>
  BY EraseI, IdleI, QuietI, ActorsI DEF AllI, TypesI, Iocp!disconnect, Iocp!ownerVars, Iocp!acceptVars,
     Iocp!feedVars, Iocp!outputVars, Iocp!workVars, Iocp!scopeVars
<1> QED BY <1>1, SomebodyErases

LEMMA SendFailedI ==
  ASSUME AllI, Iocp!SendFailed
  PROVE  AllI'
<1>1. PICK c \in Clients : c = app.client
  BY DEF AllI, AppI, Iocp!SendFailed
<1>2. /\ Erases("app", c) \/ ErasesNot(c)
      /\ app'.at = "idle" /\ app' \in AppRecord /\ Quiet("app")
      /\ UNCHANGED <<setting, running, stopper, acceptor, lastId, callback, feed, sent, wire, worker, monitor,
                     receiveOp, sendOp, sendBusy, active, deferred, wakes>>
  BY <1>1, EraseI, IdleI DEF AllI, FreeI, Iocp!SendFailed, Iocp!ownerVars, Iocp!acceptVars,
     Iocp!feedVars, Iocp!outputVars, Iocp!workVars, Iocp!scopeVars
<1> QED BY <1>2, SomebodyErases

\* A step that changes who is running, and nothing that the parts of the
\* invariant about clients look at.
LEMMA ControlSteps ==
  ASSUME AllI, ControlType(StopsI)', WorkType', WakeType', OwnerI', FreeI',
         UNCHANGED <<setting, acceptor, lastId, registered, closing, callback, feed, sent, wire, worker,
                     receiveOp, sendOp, sendQueue, sendBusy, active, deferred, ending, app>>
  PROVE  AllI'
<1>1. TypesI'
  BY TypesStill DEF AllI, TypesI
<1> QED BY <1>1, AcceptSameI, AppSameI, WorkersSameI, TurnsSameI, ScopesSameI, TokensSameI, WiresSameI DEF AllI

LEMMA MonitorExitsI ==
  ASSUME AllI, Iocp!MonitorExits
  PROVE  AllI'
<1>1. /\ monitor = "scan" /\ Quiet("monitor") /\ monitor' = "exited"
      /\ UNCHANGED <<setting, running, stopper, acceptor, lastId, registered, closing, callback, feed, sent, wire,
                     worker, receiveOp, sendOp, sendQueue, sendBusy, active, deferred, ending, app, wakes>>
  BY QuietI, ActorsI DEF AllI, TypesI, Iocp!MonitorExits, Iocp!ownerVars, Iocp!acceptVars, Iocp!tableVars,
     Iocp!feedVars, Iocp!outputVars, Iocp!serverVars, Iocp!opVars, Iocp!scopeVars
<1>2. ControlType(StopsI)' /\ WorkType' /\ WakeType'
  BY <1>1, TypesStill DEF AllI, TypesI, WorkType
<1>3. OwnerI'
  BY <1>1, HoldsSame DEF AllI, OwnerI, Gone, Clients
<1>4. FreeI'
  BY <1>1 DEF AllI, FreeI, Quiet, Iocp!Actors, Clients
<1> QED BY <1>1, <1>2, <1>3, <1>4, ControlSteps

LEMMA StopBeginsI ==
  ASSUME AllI, Iocp!StopBegins
  PROVE  AllI'
<1>1. /\ stopper \in {"idle", "failed"} /\ stopper' = "joinAccept" /\ running' = FALSE
      /\ UNCHANGED <<setting, acceptor, lastId, registered, closing, callback, feed, sent, wire, monitor,
                     worker, receiveOp, sendOp, sendQueue, sendBusy, active, deferred, ending, app, wakes>>
  BY DEF Iocp!StopBegins, Iocp!acceptVars, Iocp!tableVars, Iocp!workVars,
     Iocp!feedVars, Iocp!outputVars, Iocp!opVars, Iocp!scopeVars
<1>2. ControlType(StopsI)' /\ WorkType' /\ WakeType'
  BY <1>1, TypesStill DEF AllI, TypesI, ControlType, StopsI
<1>3. OwnerI'
  BY <1>1 DEF AllI, OwnerI
<1>4. FreeI'
  BY <1>1 DEF AllI, FreeI, Quiet, Iocp!Actors, Clients
<1> QED BY <1>1, <1>2, <1>3, <1>4, ControlSteps

LEMMA NothingPending ==
  ASSUME AllI, Iocp!PendingOperations = 0
  PROVE  receiveOp = {} /\ (\A c \in Clients : sendOp[c] = NoSend) /\ \A w \in Workers : ~Iocp!Holds(w)
<1> DEFINE S == {c \in Clients : sendOp[c] # NoSend}
           W == {w \in Workers : Iocp!Holds(w)}
<1>1. IsFiniteSet(receiveOp) /\ IsFiniteSet(S)
  BY ClientsFinite DEF AllI, TypesI, OpType
<1>2. IsFiniteSet(W)
  BY ConstantsOK, FS_Subset DEF Constants
<1>3. Cardinality(receiveOp) \in Nat /\ Cardinality(S) \in Nat /\ Cardinality(W) \in Nat
  <2> HIDE DEF S, W
  <2> QED BY <1>1, <1>2, FS_CardinalityType
<1>4. Cardinality(receiveOp) + Cardinality(S) + Cardinality(W) = 0
  BY SameI DEF Iocp!PendingOperations, NoSend
<1>5. Cardinality(receiveOp) = 0 /\ Cardinality(S) = 0 /\ Cardinality(W) = 0
  <2> HIDE DEF S, W
  <2> QED BY <1>3, <1>4
<1>6. receiveOp = {} /\ S = {} /\ W = {}
  <2> HIDE DEF S, W
  <2> QED BY <1>1, <1>2, <1>5, FS_EmptySet
<1> QED BY <1>6

LEMMA StopWaitsI ==
  ASSUME AllI, Iocp!StopWaits
  PROVE  AllI'
<1>1. UNCHANGED <<setting, running, acceptor, lastId, registered, closing, callback, feed, sent, wire, monitor,
                  worker, receiveOp, sendOp, sendQueue, sendBusy, active, deferred, ending, app, wakes>>
  BY DEF Iocp!StopWaits, Iocp!acceptVars, Iocp!tableVars, Iocp!workVars,
     Iocp!feedVars, Iocp!outputVars, Iocp!opVars, Iocp!scopeVars
<1>2. \/ acceptor.at \in Gone /\ stopper = "joinAccept" /\ stopper' = "joinMonitor"
      \/ monitor \in Gone /\ stopper = "joinMonitor" /\ stopper' = "close"
      \/ Iocp!PendingOperations = 0 /\ stopper = "drain" /\ stopper' = "wake"
      \/ (\A w \in Workers : worker[w].at \in Gone) /\ stopper = "joinWorkers" /\ stopper' = "returned"
  BY DEF Iocp!StopWaits, Iocp!Stops, Gone
<1>3. ControlType(StopsI)' /\ WorkType' /\ WakeType'
  BY <1>1, <1>2, TypesStill DEF AllI, TypesI, ControlType, StopsI
<1>4. OwnerI'
  <2>1. \A w : Iocp!Holds(w)' <=> Iocp!Holds(w)
    BY <1>1, HoldsSame
  <2>2. CASE stopper' = "wake"
    <3>1. receiveOp = {} /\ (\A c \in Clients : sendOp[c] = NoSend) /\ \A w \in Workers : ~Iocp!Holds(w)
      BY <1>2, <2>2, NothingPending
    <3> QED BY <1>1, <1>2, <2>1, <2>2, <3>1 DEF AllI, OwnerI, NoSend, Clients
  <2>3. CASE stopper' # "wake"
    BY <1>1, <1>2, <2>1, <2>3 DEF AllI, OwnerI, Clients
  <2> QED BY <2>2, <2>3
<1>5. FreeI'
  <2>1. stopper # "close"
    BY <1>2
  <2> QED BY <1>1, <2>1 DEF AllI, FreeI, Quiet, Iocp!Actors, Clients
<1> QED BY <1>1, <1>3, <1>4, <1>5, ControlSteps

LEMMA CloseAllI ==
  ASSUME AllI, Iocp!close_all_connections
  PROVE  AllI'
<1>1. /\ stopper = "close" /\ Quiet("stop")
      /\ UNCHANGED <<setting, running, acceptor, lastId, callback, feed, sent, wire, monitor,
                     worker, receiveOp, sendOp, sendBusy, active, deferred, app, wakes>>
  BY QuietI, ActorsI DEF AllI, TypesI, Iocp!close_all_connections, Iocp!acceptVars, Iocp!workVars,
     Iocp!feedVars, Iocp!outputVars, Iocp!scopeVars
<1>2. ASSUME NEW c \in registered, Iocp!Erase("stop", c), stopper' = stopper PROVE AllI'
  <2>1. c \in Clients /\ (Erases("stop", c) \/ ErasesNot(c))
    BY <1>2, EraseI DEF AllI, TypesI, TableType
  <2> QED BY <1>1, <1>2, <2>1, SomebodyErases
<1>3. CASE registered = {} /\ stopper' = "drain" /\ UNCHANGED <<registered, closing, sendQueue, ending>>
  <2>1. ControlType(StopsI)' /\ WorkType' /\ WakeType'
    BY <1>1, <1>3, TypesStill DEF AllI, TypesI, ControlType, StopsI
  <2>2. OwnerI'
    BY <1>1, <1>3 DEF AllI, OwnerI
  <2>3. FreeI'
    BY <1>1, <1>3 DEF AllI, FreeI, Quiet, Iocp!Actors, Clients
  <2> QED BY <1>1, <1>3, <2>1, <2>2, <2>3, ControlSteps
<1> QED BY <1>2, <1>3 DEF Iocp!close_all_connections, Iocp!tableVars

LEMMA WakeWorkersI ==
  ASSUME AllI, Iocp!wake_workers
  PROVE  AllI'
<1>1. /\ stopper = "wake" /\ stopper' = "joinWorkers"
      /\ wakes' = Cardinality({w \in Workers : worker[w].at # "none"})
      /\ UNCHANGED <<setting, running, acceptor, lastId, registered, closing, callback, feed, sent, wire, monitor,
                     worker, receiveOp, sendOp, sendQueue, sendBusy, active, deferred, ending, app>>
  BY SameI DEF Iocp!wake_workers, Iocp!Stops, Iocp!acceptVars, Iocp!tableVars, Iocp!workVars,
     Iocp!feedVars, Iocp!outputVars, Iocp!opVars, Iocp!scopeVars
<1>2. WakeType'
  <2> DEFINE W == {w \in Workers : worker[w].at # "none"}
  <2>1. IsFiniteSet(Workers) /\ W \subseteq Workers
    BY ConstantsOK DEF Constants
  <2> HIDE DEF W
  <2>2. IsFiniteSet(W) /\ Cardinality(W) <= Cardinality(Workers)
    BY <2>1, FS_Subset
  <2>3. Cardinality(W) \in Nat /\ Cardinality(Workers) \in Nat
    BY <2>1, <2>2, FS_CardinalityType
  <2>4. wakes' = Cardinality(W)
    BY <1>1 DEF W
  <2> QED BY <2>2, <2>3, <2>4 DEF WakeType
<1>3. ControlType(StopsI)' /\ WorkType'
  BY <1>1, TypesStill DEF AllI, TypesI, ControlType, StopsI
<1>4. OwnerI'
  BY <1>1, HoldsSame DEF AllI, OwnerI, Clients
<1>5. FreeI'
  BY <1>1 DEF AllI, FreeI, Quiet, Iocp!Actors, Clients
<1> QED BY <1>1, <1>2, <1>3, <1>4, <1>5, ControlSteps

\* An actor goes on with the end of the connection it has disconnected.
LEMMA EndingSteps ==
  ASSUME AllI, NEW a \in Actors, ~Quiet(a), NEW c \in Clients, c = ending[a].client,
         NEW x \in {"none", "telling"}, EndingGoes(a, x, IF x = "none" THEN 0 ELSE c),
         UNCHANGED <<setting, running, stopper, acceptor, lastId, registered, closing, sent, wire, worker,
                     monitor, receiveOp, sendOp, sendQueue, sendBusy, active, app, wakes>>,
         FeedType', ScopeType', feed[c] # "new", feed'[c] # "new",
         \A d \in Clients \ {c} : feed'[d] = feed[d] /\ callback'[d] = callback[d] /\ deferred'[d] = deferred[d],
         ScopeI(c)', TokenI(c)'
  PROVE  AllI'
<1>1. /\ EndingType' /\ ending'[a].at = x /\ ending'[a].client = (IF x = "none" THEN 0 ELSE c)
      /\ \A b \in Actors : b # a => ending'[b] = ending[b]
      /\ \A d \in Clients \ {c} : EndingsStill(d)
  <2>1. EndingType /\ c \in 0..MaxClients /\ 0 \in 0..MaxClients /\ \A d \in Clients : d # 0
    BY ConstantsOK DEF AllI, TypesI, Clients, Constants
  <2>2. CASE x = "none"
    BY <2>1, <2>2, EndingMoves
  <2>3. CASE x # "none"
    BY <2>1, <2>3, EndingMoves
  <2> QED BY <2>2, <2>3
<1>2. FeedKeeps /\ \A d : WorkersStill(d) /\ AcceptStill(d)
  BY WorkersStand, AcceptStands DEF FeedKeeps
<1>3. TypesI'
  BY <1>1, TypesStill DEF AllI, TypesI
<1>4. OwnerI' /\ AcceptI' /\ AppI' /\ WorkersI'
  BY <1>2, OwnerSameI, AcceptSameI, AppFeed, WorkersFeed DEF AllI
<1>5. FreeI'
  <2>1. \A b \in Actors : (Quiet(b) => Quiet(b)') /\ (b # a => ending'[b] = ending[b] /\ (Quiet(b)' <=> Quiet(b)))
    BY <1>1 DEF Quiet
  <2>2. IF Quiet(a)' THEN ending'[a].client = 0 ELSE ending'[a].client \in Clients
    BY <1>1 DEF Quiet
  <2>3. {"accept", "monitor", "stop", "app"} \cup Workers = Actors
    BY ActorsI
  <2>4. /\ acceptor'.at \notin {"wait", "receive"} => Quiet("accept")'
        /\ monitor' # "scan" => Quiet("monitor")'
        /\ stopper' # "close" => Quiet("stop")'
        /\ app'.at # "idle" => Quiet("app")'
        /\ \A v \in Workers : worker'[v].at \notin {"wait", "release", "leave", "post"} => Quiet(v)'
    BY <2>1, <2>3 DEF AllI, FreeI
  <2>5. \A b \in Actors : IF Quiet(b)' THEN ending'[b].client = 0 ELSE ending'[b].client \in Clients
    BY <2>1, <2>2 DEF AllI, FreeI, Actors
  <2> QED BY <2>4, <2>5 DEF FreeI, Actors, Iocp!Actors, Clients
<1>6. ASSUME NEW d \in Clients PROVE TurnI(d)' /\ ScopeI(d)' /\ TokenI(d)' /\ WireI(d)'
  <2>1. TurnI(d)' /\ WireI(d)'
    BY <1>2, TurnStill, WireStill DEF AllI, TurnsI, WiresI, FeedKeeps
  <2>2. CASE d # c
    BY <1>1, <1>2, <2>1, <2>2, ScopeStill, TokenStill DEF AllI, ScopesI, TokensI, EndingsStill
  <2> QED BY <2>1, <2>2
<1> QED BY <1>3, <1>4, <1>5, <1>6 DEF AllI, TurnsI, ScopesI, TokensI, WiresI, Clients

\* Who speaks for a client that is not in a callback scope.
LEMMA NoScope ==
  ASSUME NEW c, ~InScope(c)
  PROVE  ~Accepts({"connected"}, c) /\ \A w \in Workers : ~Says(w, c)
BY DEF InScope, Accepts, Scoped, Says

LEMMA NoScopeNext ==
  ASSUME NEW c, ~InScope(c), UNCHANGED <<worker, acceptor>>
  PROVE  /\ ~InScope(c)' /\ ~Accepts({"connected"}, c)' /\ \A w \in Workers : ~Says(w, c)'
BY DEF InScope, Accepts, Scoped, Says

LEMMA RequestI ==
  ASSUME AllI, NEW a \in Actors, Iocp!request_disconnect_notification(a)
  PROVE  AllI'
<1>1. PICK c \in Clients : c = ending[a].client
  BY DEF AllI, FreeI, Quiet, Actors, Iocp!request_disconnect_notification
<1>2. /\ ending[a].at = "ask" /\ ~Quiet(a) /\ Asks(a, c) /\ TokenI(c) /\ ScopeI(c)
      /\ ending \in [Actors -> EndingRecord] /\ ending[a] \in EndingRecord
      /\ UNCHANGED <<setting, running, stopper, acceptor, lastId, registered, closing, sent, wire, worker,
                     monitor, receiveOp, sendOp, sendQueue, sendBusy, active, app, wakes>>
  BY <1>1 DEF AllI, TypesI, EndingType, TokensI, ScopesI, Asks, Quiet, Iocp!request_disconnect_notification,
     Iocp!ownerVars, Iocp!acceptVars, Iocp!tableVars, Iocp!outputVars, Iocp!workVars, Iocp!opVars
<1>3. /\ feed[c] = "connected" /\ c \notin registered /\ closing[c] /\ ~deferred[c]
      /\ \A b \in Actors : ~Tells(b, c) /\ (Asks(b, c) => b = a)
  BY <1>2 DEF TokenI, Actors
<1>4. /\ c > lastId \/ Accepts({"accepting", "register", "publish"}, c) => feed[c] = "new"
      /\ Accepts({"accepting", "register", "publish"}, c)' <=> Accepts({"accepting", "register", "publish"}, c)
  BY <1>2 DEF TokenI, Accepts
<1>5. CASE active[c] = 0
  <2>1. /\ feed' = [feed EXCEPT ![c] = "disconnected"] /\ callback' = [callback EXCEPT ![c] = "disconnected"]
        /\ EndingGoes(a, "telling", c) /\ deferred' = deferred
    <3>1. /\ feed' = [feed EXCEPT ![c] = "disconnected"] /\ callback' = [callback EXCEPT ![c] = "disconnected"]
          /\ ending' = [ending EXCEPT ![a].at = "telling"] /\ deferred' = deferred
      BY <1>1, <1>5 DEF Iocp!request_disconnect_notification, Iocp!on_disconnected
    <3>2. [ending[a] EXCEPT !.at = "telling"] = [at |-> "telling", client |-> c]
      BY <1>1, <1>2 DEF EndingRecord
    <3> QED BY <3>1, <3>2 DEF EndingGoes
  <2>2. /\ FeedType' /\ ScopeType' /\ feed'[c] = "disconnected" /\ callback'[c] = "disconnected"
        /\ \A d \in Clients \ {c} : feed'[d] = feed[d] /\ callback'[d] = callback[d]
    BY <1>2, <2>1, TypesStill DEF AllI, TypesI, FeedType, Clients
  <2>3. ~InScope(c)
    BY <1>2, <1>5 DEF ScopeI
  <2>4. /\ ~InScope(c)' /\ ~Accepts({"connected"}, c)' /\ \A w \in Workers : ~Says(w, c)'
    BY <1>2, <2>3, NoScopeNext
  <2>5. /\ ending'[a].at = "telling" /\ ending'[a].client = c
        /\ \A b \in Actors : b # a => ending'[b] = ending[b]
    BY <1>2, <2>1 DEF EndingGoes
  <2>6. \A b \in Actors : ~Asks(b, c)' /\ (Tells(b, c)' <=> b = a)
    BY <1>3, <2>5 DEF Asks, Tells
  <2>7. ScopeI(c)'
    BY <1>2, <1>3, <1>5, <2>1, <2>2, <2>4, <2>6 DEF ScopeI, Actors, Iocp!Actors
  <2>8. TokenI(c)'
    BY <1>2, <1>3, <1>4, <2>1, <2>2, <2>6 DEF TokenI, Actors, Iocp!Actors
  <2> QED BY <1>1, <1>2, <1>3, <2>1, <2>2, <2>7, <2>8, EndingSteps
<1>6. CASE active[c] # 0
  <2>1. /\ deferred' = [deferred EXCEPT ![c] = TRUE] /\ EndingGoes(a, "none", 0) /\ feed' = feed /\ callback' = callback
    BY <1>1, <1>6 DEF Iocp!request_disconnect_notification, Iocp!feedVars, EndingGoes, Iocp!NotEnding
  <2>2. /\ FeedType' /\ ScopeType' /\ deferred'[c] /\ \A d \in Clients \ {c} : deferred'[d] = deferred[d]
    BY <1>2, <2>1, TypesStill DEF AllI, TypesI, ScopeType, Clients
  <2>3. InScope(c) /\ active'[c] = active[c] /\ active[c] = 1
    BY <1>2, <1>6 DEF ScopeI
  <2>4. /\ InScope(c)' /\ (Accepts({"connected"}, c)' <=> Accepts({"connected"}, c))
        /\ \A w \in Workers : Says(w, c)' <=> Says(w, c)
    BY <1>2, <2>3 DEF InScope, Accepts, Scoped, Says
  <2>5. /\ ending'[a].at = "none"
        /\ \A b \in Actors : b # a => ending'[b] = ending[b]
    BY <1>2, <2>1 DEF EndingGoes
  <2>6. \A b \in Actors : ~Asks(b, c)' /\ ~Tells(b, c)'
    BY <1>3, <2>5 DEF Asks, Tells
  <2>7. ScopeI(c)'
    BY <1>2, <1>3, <2>1, <2>2, <2>3, <2>4, <2>6 DEF ScopeI, Actors, Iocp!Actors
  <2>8. TokenI(c)'
    BY <1>2, <1>3, <1>4, <2>1, <2>2, <2>6 DEF TokenI, Actors, Iocp!Actors
  <2> QED BY <1>1, <1>2, <1>3, <2>1, <2>2, <2>7, <2>8, EndingSteps
<1> QED BY <1>5, <1>6

LEMMA NotifyReturnsI ==
  ASSUME AllI, NEW a \in Actors, Iocp!NotifyReturns(a)
  PROVE  AllI'
<1>1. PICK c \in Clients : c = ending[a].client
  BY DEF AllI, FreeI, Quiet, Actors, Iocp!NotifyReturns
<1>2. /\ ending[a].at = "telling" /\ ~Quiet(a) /\ Tells(a, c) /\ TokenI(c) /\ ScopeI(c)
      /\ callback' = [callback EXCEPT ![c] = "none"] /\ feed' = feed /\ EndingGoes(a, "none", 0)
      /\ ending \in [Actors -> EndingRecord]
      /\ UNCHANGED <<setting, running, stopper, acceptor, lastId, registered, closing, sent, wire, worker,
                     monitor, receiveOp, sendOp, sendQueue, sendBusy, active, deferred, app, wakes>>
  BY <1>1 DEF AllI, TypesI, EndingType, TokensI, ScopesI, Tells, Quiet, Iocp!NotifyReturns, Iocp!Returned,
     EndingGoes, Iocp!NotEnding, Iocp!scopeVars,
     Iocp!ownerVars, Iocp!acceptVars, Iocp!tableVars, Iocp!outputVars, Iocp!workVars, Iocp!opVars
<1>3. /\ feed[c] = "disconnected" /\ ~InScope(c)
      /\ \A b \in Actors : ~Asks(b, c) /\ (Tells(b, c) => b = a)
  <2>1. feed[c] = "disconnected"
    BY <1>2 DEF TokenI, Actors
  <2> QED BY <1>2, <2>1 DEF TokenI, ScopeI, Actors
<1>4. /\ FeedType' /\ ScopeType' /\ callback'[c] = "none"
      /\ \A d \in Clients \ {c} : callback'[d] = callback[d]
  BY <1>2, TypesStill DEF AllI, TypesI, FeedType, Clients
<1>5. /\ ~InScope(c)' /\ ~Accepts({"connected"}, c)' /\ \A w \in Workers : ~Says(w, c)'
  BY <1>2, <1>3, NoScopeNext
<1>6. /\ ending'[a].at = "none"
      /\ \A b \in Actors : b # a => ending'[b] = ending[b]
  BY <1>2 DEF EndingGoes
<1>7. \A b \in Actors : ~Asks(b, c)' /\ ~Tells(b, c)'
  BY <1>3, <1>6 DEF Asks, Tells
<1>8. ScopeI(c)'
  BY <1>2, <1>3, <1>4, <1>5, <1>7 DEF ScopeI, Actors, Iocp!Actors
<1>9. TokenI(c)'
  <2>1. Accepts({"accepting", "register", "publish"}, c)' <=> Accepts({"accepting", "register", "publish"}, c)
    BY <1>2 DEF Accepts
  <2> QED BY <1>2, <1>3, <1>7, <2>1 DEF TokenI, Actors, Iocp!Actors
<1> QED BY <1>1, <1>2, <1>3, <1>4, <1>8, <1>9, EndingSteps

\* The application's call of send.
LEMMA AppSteps ==
  ASSUME AllI, AppType', AppI', OutputType', OpType', WiresI',
         app'.at # "idle" => Quiet("app"),
         receiveOp' = receiveOp,
         stopper \in {"wake", "joinWorkers", "returned"} => sendOp' = sendOp,
         UNCHANGED <<setting, running, stopper, acceptor, lastId, registered, closing, callback, feed, worker,
                     monitor, active, deferred, ending, wakes>>
  PROVE  AllI'
<1>1. TypesI'
  BY TypesStill DEF AllI, TypesI
<1>2. OwnerI'
  BY HoldsSame DEF AllI, OwnerI, Clients
<1>3. FreeI'
  BY DEF AllI, FreeI, Quiet, Iocp!Actors, Clients
<1> QED BY <1>1, <1>2, <1>3, AcceptSameI, WorkersSameI, TurnsSameI, ScopesSameI, TokensSameI DEF AllI

LEMMA SendI ==
  ASSUME AllI, NEW c \in Clients, Iocp!send(c)
  PROVE  AllI'
<1>1. /\ Quiet("app") /\ c \in registered /\ sent < setting.sends /\ sent' = sent + 1
      /\ app' = [at |-> "send", client |-> c, message |-> sent + 1]
      /\ UNCHANGED <<setting, running, stopper, acceptor, lastId, registered, closing, callback, feed, wire, worker,
                     monitor, receiveOp, sendOp, sendQueue, sendBusy, active, deferred, ending, wakes>>
  BY QuietI, ActorsI DEF AllI, TypesI, Iocp!send, Iocp!ownerVars, Iocp!acceptVars, Iocp!tableVars, Iocp!feedVars,
     Iocp!workVars, Iocp!opVars, Iocp!scopeVars
<1>2. sent + 1 \in 0..MaxSends /\ sent + 1 \in Messages /\ c \in 0..MaxClients
  <2>1. setting.sends \in 0..MaxSends /\ sent \in 0..MaxSends
    BY SettingOK DEF AllI, TypesI, ControlType, OutputType
  <2> QED BY <1>1, <2>1, ConstantsOK DEF Messages, Constants, Clients
<1>3. OutputType' /\ OpType' /\ WiresI'
  BY <1>1, <1>2, TypesStill, WiresSameI DEF AllI, TypesI, OutputType, Clients
<1>4. AppType' /\ AppI'
  <2>1. app' \in AppRecord /\ app'.client = c /\ app'.message = sent + 1
    BY <1>1, <1>2 DEF AppRecord
  <2>2. feed[c] # "new"
    BY <1>1 DEF AllI, TokensI, TokenI
  <2> QED BY <1>1, <1>2, <2>1, <2>2 DEF AppType, AppI, Clients, Messages
<1> QED BY <1>1, <1>3, <1>4, AppSteps

LEMMA ConnectionSendI ==
  ASSUME AllI, Iocp!ConnectionSend
  PROVE  AllI'
<1>1. PICK c \in Clients : c = app.client
  BY DEF AllI, AppI, Iocp!ConnectionSend
<1>2. /\ app.at = "send" /\ app.message \in Messages /\ feed[c] # "new" /\ Quiet("app") /\ app \in AppRecord
      /\ OpType /\ WireI(c) /\ TokenI(c)
      /\ UNCHANGED <<setting, running, stopper, acceptor, lastId, registered, closing, callback, feed, sent, wire,
                     worker, monitor, receiveOp, active, deferred, ending, wakes>>
  BY <1>1 DEF AllI, AppI, FreeI, TypesI, AppType, WiresI, TokensI, Iocp!ConnectionSend, Iocp!ownerVars,
     Iocp!acceptVars, Iocp!tableVars, Iocp!feedVars, Iocp!outputVars, Iocp!serverVars, Iocp!workVars, Iocp!scopeVars
<1> DEFINE queue == Append(sendQueue[c], app.message)
<1>3. queue \in Seq(Messages)
  BY <1>2 DEF OpType
<1>4. app' = Iocp!Idle \/ app' = [app EXCEPT !.at = "failed"]
  BY DEF Iocp!ConnectionSend
<1>5. AppType' /\ AppI'
  <2>1. CASE app' = Iocp!Idle
    BY <2>1, IdleI DEF AppType, AppI, AppRecord
  <2>2. CASE app' = [app EXCEPT !.at = "failed"]
    <3>1. app' \in AppRecord /\ app'.client = c /\ app'.message = app.message
      BY <1>1, <1>2, <2>2 DEF AppRecord
    <3> QED BY <1>2, <3>1 DEF AppType, AppI, AppRecord, Clients, Messages
  <2> QED BY <1>4, <2>1, <2>2
<1>6. /\ sendQueue' \in [Clients -> Seq(Messages)] /\ sendBusy' \in [Clients -> BOOLEAN]
      /\ sendOp' \in [Clients -> SendOp]
      /\ \A d \in Clients \ {c} : sendOp'[d] = sendOp[d] /\ sendBusy'[d] = sendBusy[d]
      /\ WireI(c)' /\ (closing[c] => sendOp' = sendOp)
  <2>1. CASE UNCHANGED <<sendOp, sendBusy>> /\ sendQueue' \in [Clients -> Seq(Messages)]
    <3>1. WireI(c)'
      BY <1>2, <2>1, WorkersStand, WireStill
    <3> QED BY <1>2, <2>1, <3>1 DEF OpType
  <2>2. ASSUME NEW ok \in BOOLEAN, ~closing[c], ~sendBusy[c], Iocp!post_next_send(c, queue, ok)
        PROVE  /\ sendQueue' \in [Clients -> Seq(Messages)] /\ sendBusy' \in [Clients -> BOOLEAN]
               /\ sendOp' \in [Clients -> SendOp]
               /\ \A d \in Clients \ {c} : sendOp'[d] = sendOp[d] /\ sendBusy'[d] = sendBusy[d]
               /\ WireI(c)'
    <3> HIDE DEF queue
    <3>3. /\ sendQueue' \in [Clients -> Seq(Messages)] /\ sendBusy' \in [Clients -> BOOLEAN]
          /\ sendOp' \in [Clients -> SendOp]
          /\ \A d \in Clients \ {c} : sendOp'[d] = sendOp[d] /\ sendBusy'[d] = sendBusy[d]
          /\ \/ sendOp'[c] = sendOp[c] /\ ~sendBusy'[c]
             \/ sendBusy'[c] /\ sendOp'[c].message \in Messages /\ sendOp'[c].written = 0
      BY <1>2, <1>3, <2>2, PostNext
    <3>4. WireI(c)'
      <4>1. CASE Writable(c)
        <5>1. Complete(wire[c]) /\ sendOp[c] = NoSend /\ \A w \in Workers : ~Sends(w, c)
          BY <1>2, <2>2, <4>1 DEF WireI, NoSend
        <5>2. \A w \in Workers : ~Sends(w, c)'
          BY <1>2, <5>1 DEF Sends
        <5> QED BY <1>2, <3>3, <5>1, <5>2, PostWire
      <4>2. CASE ~Writable(c)
        <5>1. sendOp'[c] # NoSend => sendOp'[c].message \in Messages /\ sendOp'[c].written \in {0, 1}
          BY <1>2, <3>3 DEF WireI, NoSend
        <5>2. Whole(wire[c])' /\ feed'[c] # "new" /\ ~Writable(c)'
          BY <1>2, <4>2 DEF WireI, Writable
        <5> QED BY <5>1, <5>2 DEF WireI, Messages, NoSend
      <4> QED BY <4>1, <4>2
    <3> QED BY <3>3, <3>4
  <2>3. \/ closing[c] /\ UNCHANGED <<sendQueue, sendOp, sendBusy>>
        \/ sendQueue' = [sendQueue EXCEPT ![c] = queue] /\ UNCHANGED <<sendOp, sendBusy>>
        \/ ~closing[c] /\ ~sendBusy[c] /\ \E ok \in BOOLEAN : Iocp!post_next_send(c, queue, ok)
    BY <1>1 DEF Iocp!ConnectionSend
  <2>4. sendQueue' = [sendQueue EXCEPT ![c] = queue] => sendQueue' \in [Clients -> Seq(Messages)]
    BY <1>2, <1>3 DEF OpType
  <2>5. sendQueue \in [Clients -> Seq(Messages)]
    BY <1>2 DEF OpType
  <2> HIDE DEF queue
  <2> QED BY <2>1, <2>2, <2>3, <2>4, <2>5
<1>7. stopper \in {"wake", "joinWorkers", "returned"} => closing[c]
  BY <1>2 DEF AllI, OwnerI, TokenI
<1>8. OpType' /\ OutputType'
  BY <1>2, <1>6, TypesStill DEF AllI, TypesI, OpType, Clients, Messages
<1>9. ASSUME NEW d \in Clients PROVE WireI(d)'
  <2>1. CASE d # c
    BY <1>2, <1>6, <2>1, WorkersStand, WireStill DEF AllI, WiresI
  <2> QED BY <1>6, <2>1
<1>10. WiresI'
  BY <1>9 DEF WiresI, Clients
<1> QED BY <1>2, <1>5, <1>6, <1>7, <1>8, <1>10, AppSteps

\* The accept thread moves, and the parts about its client are known.
LEMMA AcceptorSteps ==
  ASSUME AllI, NEW S, S = {acceptor.client, acceptor'.client} \cap Clients,
         acceptor' \in Acceptor, lastId' \in 0..MaxClients,
         acceptor.at \notin Gone, Quiet("accept")' \/ acceptor'.at \in {"wait", "receive"},
         TableType', FeedType', ScopeType', EndingType', AcceptI', FeedKeeps, receiveOp' \subseteq Clients,
         receiveOp' = receiveOp \/ running,
         \A b \in Actors : b # "accept" => ending'[b] = ending[b],
         IF Quiet("accept")' THEN ending'["accept"].client = 0 ELSE ending'["accept"].client \in Clients,
         UNCHANGED <<setting, running, stopper, sent, wire, worker, monitor, sendOp, sendQueue, sendBusy, app,
                     wakes, closing>>,
         \A d \in S : TurnI(d)' /\ ScopeI(d)' /\ TokenI(d)',
         \A d \in Clients \ S :
           /\ EndingsStill(d) /\ feed'[d] = feed[d] /\ callback'[d] = callback[d]
           /\ active'[d] = active[d] /\ deferred'[d] = deferred[d]
           /\ d \in receiveOp' <=> d \in receiveOp
           /\ d \in registered' <=> d \in registered,
         lastId' = lastId \/ (lastId' = lastId + 1 /\ lastId' \in S)
  PROVE  AllI'
<1>1. stopper \in {"idle", "failed", "joinAccept"}
  BY DEF AllI, TypesI, ControlType, StopsI, OwnerI, Gone
<1>2. \A d : WorkersStill(d)
  BY WorkersStand
<1>3. TypesI'
  <2>1. OpType'
    BY DEF AllI, TypesI, OpType, Clients, Messages
  <2>2. ControlType(StopsI)'
    BY DEF AllI, TypesI, ControlType
  <2> QED BY <2>1, <2>2, TypesStill DEF AllI, TypesI
<1>4. OwnerI'
  BY <1>1 DEF AllI, OwnerI
<1>5. FreeI'
  <2>1. \A b \in Actors \ {"accept"} : ending'[b] = ending[b] /\ (Quiet(b)' <=> Quiet(b))
    BY DEF Quiet
  <2>2. {"accept", "monitor", "stop", "app"} \cup Workers = Actors /\ "accept" \notin Workers
    BY ActorsI
  <2>3. /\ monitor' # "scan" => Quiet("monitor")'
        /\ stopper' # "close" => Quiet("stop")'
        /\ app'.at # "idle" => Quiet("app")'
        /\ \A v \in Workers : worker'[v].at \notin {"wait", "release", "leave", "post"} => Quiet(v)'
    BY <2>1, <2>2 DEF AllI, FreeI
  <2>4. acceptor'.at \notin {"wait", "receive"} => Quiet("accept")'
    OBVIOUS
  <2>5. \A b \in Actors : IF Quiet(b)' THEN ending'[b].client = 0 ELSE ending'[b].client \in Clients
    BY <2>1 DEF AllI, FreeI, Actors
  <2> QED BY <2>3, <2>4, <2>5 DEF FreeI, Actors, Iocp!Actors, Clients
<1>6. AppI' /\ WorkersI'
  BY AppFeed, WorkersFeed DEF AllI
<1>7. ASSUME NEW d \in Clients PROVE TurnI(d)' /\ ScopeI(d)' /\ TokenI(d)' /\ WireI(d)'
  <2>1. WireI(d)'
    BY <1>2, WireStill DEF AllI, WiresI, FeedKeeps
  <2>2. CASE d \in S
    BY <2>1, <2>2
  <2>3. CASE d \notin S
    <3>1. AcceptStill(d)
      BY <2>3, AcceptStands
    <3>2. TurnI(d)' /\ ScopeI(d)'
      BY <1>2, <2>3, <3>1, TurnStill, ScopeStill DEF AllI, TurnsI, ScopesI, EndingsStill
    <3>3. TokenI(d)'
      <4>1. d > lastId' => d > lastId
        BY DEF AllI, TypesI, ControlType, Clients
      <4> QED BY <2>3, <3>1, <4>1 DEF AllI, TokensI, TokenI, EndingsStill, TellsStill, AcceptStill, Actors, Iocp!Actors
    <3> QED BY <2>1, <3>2, <3>3
  <2> QED BY <2>2, <2>3
<1> QED BY <1>3, <1>4, <1>5, <1>6, <1>7 DEF AllI, TurnsI, ScopesI, TokensI, WiresI, Clients

\* Before the runtime hears of a client nobody else does anything for it.
LEMMA NewClient ==
  ASSUME AllI, NEW c \in Clients, feed[c] = "new"
  PROVE  /\ c \notin receiveOp /\ c \notin registered /\ ~closing[c] /\ ~deferred[c] /\ active[c] = 0
         /\ ~InScope(c) /\ callback[c] = "none"
         /\ \A w \in Workers : ~Receives(w, c)
         /\ \A a \in Actors : ~Asks(a, c) /\ ~Tells(a, c)
<1>1. TurnI(c) /\ ScopeI(c) /\ TokenI(c)
  BY DEF AllI, TurnsI, ScopesI, TokensI
<1>2. c \notin receiveOp /\ c \notin registered /\ ~closing[c] /\ ~InScope(c) /\ \A a \in Actors : ~Asks(a, c) /\ ~Tells(a, c)
  BY <1>1 DEF TurnI, TokenI, ScopeI, Actors
<1>3. \A w \in Workers : ~Receives(w, c)
  BY DEF AllI, WorkersI, WorkerI, Receives
<1>4. active[c] = 0 /\ ~deferred[c] /\ callback[c] = "none"
  BY <1>1, <1>2, NoScope DEF ScopeI, Actors
<1> QED BY <1>2, <1>3, <1>4

\* The accept thread before it has published a client.
LEMMA AcceptorSeeks ==
  ASSUME AllI, Quiet("accept"), acceptor.at \in {"wait", "accepting", "register"},
         NEW x \in {"wait", "accepting", "register", "publish", "exited"}, NEW c \in 0..MaxClients, Moves(x, c),
         UNCHANGED <<setting, running, stopper, registered, closing, callback, feed, sent, wire, worker, monitor,
                     receiveOp, sendOp, sendQueue, sendBusy, active, deferred, ending, app, wakes>>,
         x \in {"wait", "exited"} => c = 0 /\ lastId' = lastId,
         x = "accepting" => c = lastId + 1 /\ lastId' = c,
         x \in {"register", "publish"} => acceptor.at \in {"accepting", "register"} /\ c = acceptor.client /\ lastId' = lastId,
         x = "publish" => ~AtCapacity
  PROVE  AllI'
<1>0. /\ lastId \in 0..MaxClients /\ acceptor \in Acceptor /\ setting \in Settings
  BY DEF AllI, TypesI, ControlType
<1>1. /\ acceptor' \in Acceptor /\ acceptor'.at = x /\ acceptor'.client = c /\ lastId' \in 0..MaxClients
      /\ acceptor.at \notin Gone /\ acceptor.at \notin {"connected", "leave", "receive"}
  BY <1>0, MovesType DEF Moves, Gone
<1>2. AcceptI'
  <2>1. x \in {"accepting", "register", "publish"} => c \in 1..lastId'
    BY <1>0 DEF AllI, AcceptI
  <2>2. x = "publish" => Cardinality(registered') < MaxConnections'
    <3>1. Cardinality(registered) \in Nat /\ MaxConnections \in Nat
      BY <1>0, SettingOK, ClientsFinite, FS_CardinalityType DEF AllI, TypesI, TableType
    <3>2. registered' = registered /\ MaxConnections' = MaxConnections
      BY DEF MaxConnections
    <3> QED BY <3>1, <3>2 DEF AtCapacity
  <2> QED BY <1>1, <2>1, <2>2 DEF AcceptI
<1>3. \A d : EndingsStill(d) /\ WorkersStill(d)
  BY EndingsStand, WorkersStand
<1>4. ASSUME NEW d \in Clients, d = acceptor.client \/ d = c PROVE TurnI(d)' /\ ScopeI(d)' /\ TokenI(d)'
  <2>1. \A S \in SUBSET {"connected", "leave", "receive"} : ~Accepts(S, d) /\ ~Accepts(S, d)'
    BY <1>1 DEF Accepts
  <2>2. TurnI(d)'
    BY <1>3, <2>1 DEF AllI, TurnsI, TurnI, WorkersStill
  <2>3. ScopeI(d)'
    <3>1. InScope(d)' <=> InScope(d)
      BY <1>3, <2>1 DEF InScope, WorkersStill
    <3>2. \A w \in Workers : Says(w, d)' <=> Says(w, d)
      BY <1>3 DEF WorkersStill
    <3>3. \A b \in Actors : Tells(b, d)' <=> Tells(b, d)
      BY <1>3 DEF EndingsStill, TellsStill
    <3> QED BY <2>1, <3>1, <3>2, <3>3 DEF AllI, ScopesI, ScopeI, Actors, Iocp!Actors
  <2>4. d > lastId' \/ Accepts({"accepting", "register", "publish"}, d)' => feed[d] = "new"
    <3>1. d > lastId \/ Accepts({"accepting", "register", "publish"}, d) => feed[d] = "new"
      BY DEF AllI, TokensI, TokenI
    <3>2. d > lastId' => d > lastId
      BY <1>0, <1>1 DEF Clients
    <3>3. Accepts({"accepting", "register", "publish"}, d)' => d > lastId \/ Accepts({"accepting", "register", "publish"}, d)
      <4>1. SUFFICES ASSUME Accepts({"accepting", "register", "publish"}, d)'
                     PROVE  d > lastId \/ Accepts({"accepting", "register", "publish"}, d)
        OBVIOUS
      <4>2. x \in {"accepting", "register", "publish"} /\ d = c
        BY <1>1, <4>1 DEF Accepts
      <4>3. x = "accepting" => d > lastId
        BY <1>0, <4>2
      <4>4. x # "accepting" => Accepts({"accepting", "register", "publish"}, d)
        BY <4>2 DEF Accepts
      <4> QED BY <4>3, <4>4
    <3> QED BY <3>1, <3>2, <3>3
  <2>5. TokenI(d)'
    BY <1>3, <2>4 DEF AllI, TokensI, TokenI, EndingsStill, TellsStill, Actors, Iocp!Actors
  <2> QED BY <2>2, <2>3, <2>5
<1>5. /\ TableType' /\ FeedType' /\ ScopeType' /\ EndingType' /\ FeedKeeps /\ receiveOp' \subseteq Clients
      /\ Quiet("accept")' /\ ending'["accept"].client = 0
  BY TypesStill, ActorsI DEF AllI, TypesI, OpType, FeedKeeps, Quiet, FreeI, Actors
<1>6. lastId' = lastId \/ (lastId' = lastId + 1 /\ lastId' \in {acceptor.client, c} \cap Clients)
  BY <1>0, <1>1 DEF Clients
<1> DEFINE S == {acceptor.client, acceptor'.client} \cap Clients
<1>7. /\ \A d \in S : TurnI(d)' /\ ScopeI(d)' /\ TokenI(d)'
      /\ lastId' = lastId \/ (lastId' = lastId + 1 /\ lastId' \in S)
      /\ S = {acceptor.client, acceptor'.client} \cap Clients
  BY <1>1, <1>4, <1>6
<1> HIDE DEF S
<1> QED BY <1>1, <1>2, <1>3, <1>5, <1>7, AcceptorSteps

LEMMA AcceptLoopI ==
  ASSUME AllI, Iocp!accept_loop
  PROVE  AllI'
<1>1. /\ Quiet("accept") /\ lastId \in 0..MaxClients /\ acceptor \in Acceptor
      /\ 0 \in 0..MaxClients /\ setting \in Settings
      /\ UNCHANGED <<setting, running, stopper, registered, closing, callback, feed, sent, wire, worker, monitor,
                     receiveOp, sendOp, sendQueue, sendBusy, active, deferred, ending, app, wakes>>
  BY QuietI, ActorsI, ConstantsOK DEF AllI, TypesI, ControlType, Constants, Iocp!accept_loop, Iocp!ownerVars, Iocp!tableVars,
     Iocp!feedVars, Iocp!outputVars, Iocp!workVars, Iocp!opVars, Iocp!scopeVars
<1>2. CASE Iocp!Accept
  <2>1. /\ acceptor.at = "wait" /\ lastId < Len(setting.input) /\ lastId' = lastId + 1 /\ Moves("accepting", lastId + 1)
    BY <1>2, AtFieldsI DEF Iocp!Accept, Iocp!accept_client, Moves
  <2>2. lastId + 1 \in 0..MaxClients
    BY <1>1, <2>1, SettingOK, ConstantsOK DEF Constants
  <2> QED BY <1>1, <2>1, <2>2, AcceptorSeeks
<1>3. CASE Iocp!OnAccepting
  <2>1. /\ acceptor.at = "accepting" /\ lastId' = lastId /\ acceptor.client \in 0..MaxClients
        /\ Moves("register", acceptor.client) \/ Moves("wait", 0) \/ Moves("exited", 0)
    BY <1>1, <1>3, AtFieldsI DEF Iocp!OnAccepting, Iocp!configure_client_socket, Moves, Acceptor
  <2> QED BY <1>1, <2>1, AcceptorSeeks
<1>4. CASE Iocp!AcceptExits
  <2>1. acceptor.at \in {"wait", "register"} /\ lastId' = lastId /\ Moves("exited", 0)
    BY <1>4, AtFieldsI DEF Iocp!AcceptExits, Moves
  <2> QED BY <1>1, <2>1, AcceptorSeeks
<1>5. CASE Iocp!Reject
  <2>1. acceptor.at = "register" /\ lastId' = lastId /\ Moves("wait", 0)
    BY <1>5, AtFieldsI DEF Iocp!Reject, Moves
  <2> QED BY <1>1, <2>1, AcceptorSeeks
<1> QED BY <1>2, <1>3, <1>4, <1>5 DEF Iocp!accept_loop

LEMMA AdmitI ==
  ASSUME AllI, Iocp!Admit
  PROVE  AllI'
<1>1. /\ acceptor.at = "register" /\ ~AtCapacity /\ Quiet("accept") /\ acceptor.client \in 0..MaxClients
      /\ 0 \in 0..MaxClients
      /\ Moves("publish", acceptor.client) \/ Moves("wait", 0)
      /\ UNCHANGED <<setting, running, stopper, lastId, registered, closing, callback, feed, sent, wire, worker, monitor,
                     receiveOp, sendOp, sendQueue, sendBusy, active, deferred, ending, app, wakes>>
  BY SameI, AtFieldsI, ConstantsOK DEF AllI, TypesI, ControlType, FreeI, Constants, Acceptor, Moves, Iocp!Admit, Iocp!ownerVars,
     Iocp!tableVars, Iocp!feedVars, Iocp!outputVars, Iocp!workVars, Iocp!opVars, Iocp!scopeVars
<1> QED BY <1>1, AcceptorSeeks

\* The client the accept thread has announced, or is about to.
LEMMA Announced ==
  ASSUME AllI, acceptor.at \in {"publish", "connected", "leave", "receive"}
  PROVE  /\ acceptor.client \in Clients /\ acceptor.client \in 1..lastId /\ acceptor.client \in 0..MaxClients
         /\ acceptor.at \notin Gone /\ "accept" \in Actors /\ lastId \in 0..MaxClients
         /\ acceptor.at # "receive" => Quiet("accept") /\ ending["accept"].client = 0
         /\ TurnI(acceptor.client) /\ ScopeI(acceptor.client) /\ TokenI(acceptor.client)
<1>1. acceptor.client \in 1..lastId /\ lastId \in 0..MaxClients
  BY DEF AllI, AcceptI, TypesI, ControlType
<1>2. acceptor.client \in Clients /\ acceptor.client \in 0..MaxClients
  BY <1>1, ConstantsOK DEF Clients, Constants
<1>3. acceptor.at # "receive" => Quiet("accept") /\ ending["accept"].client = 0
  BY ActorsI DEF AllI, FreeI, Actors
<1> QED BY <1>1, <1>2, <1>3, ActorsI DEF AllI, TurnsI, ScopesI, TokensI, Gone

LEMMA PublishI ==
  ASSUME AllI, Iocp!Publish
  PROVE  AllI'
<1>1. PICK c \in Clients : c = acceptor.client
  BY Announced DEF Iocp!Publish
<1>2. /\ acceptor.at = "publish" /\ c \in 1..lastId /\ c \in 0..MaxClients /\ acceptor.at \notin Gone
      /\ Quiet("accept") /\ ending["accept"].client = 0 /\ TokenI(c) /\ feed[c] = "new" /\ lastId \in 0..MaxClients
  BY <1>1, Announced DEF Iocp!Publish, TokenI, Accepts
<1>3. /\ registered' = registered \cup {c} /\ active' = [active EXCEPT ![c] = active[c] + 1]
      /\ feed' = [feed EXCEPT ![c] = "connected"] /\ callback' = [callback EXCEPT ![c] = "connected"]
      /\ Moves("connected", c)
      /\ UNCHANGED <<setting, running, stopper, lastId, closing, sent, wire, worker, monitor,
                     receiveOp, sendOp, sendQueue, sendBusy, deferred, ending, app, wakes>>
  BY <1>1, AtFieldsI DEF Moves, Iocp!Publish, Iocp!begin_callback, Iocp!on_connected, Iocp!ownerVars,
     Iocp!outputVars, Iocp!workVars, Iocp!opVars
<1>4. /\ c \notin receiveOp /\ ~closing[c] /\ ~deferred[c] /\ active[c] = 0
      /\ \A w \in Workers : ~Receives(w, c)
      /\ \A a \in Actors : ~Asks(a, c) /\ ~Tells(a, c)
  BY <1>2, NewClient
<1>5. TableType'
  <2>1. TableType /\ setting \in Settings /\ Cardinality(registered) < MaxConnections
    BY <1>2 DEF AllI, AcceptI, TypesI, ControlType
  <2>2. Cardinality(registered) \in Nat /\ MaxConnections \in Nat
    BY <2>1, SettingOK, ClientsFinite, FS_CardinalityType DEF TableType
  <2>3. ~AtCapacity
    BY <2>1, <2>2 DEF AtCapacity
  <2> QED BY <1>3, <2>1, <2>3, TableGrows
<1>6. /\ FeedType' /\ feed'[c] = "connected" /\ callback'[c] = "connected"
      /\ \A d \in Clients \ {c} : feed'[d] = feed[d] /\ callback'[d] = callback[d]
  BY <1>3 DEF AllI, TypesI, FeedType, Clients
<1>7. /\ ScopeType' /\ active'[c] = 1 /\ \A d \in Clients \ {c} : active'[d] = active[d]
  <2>1. active' = [active EXCEPT ![c] = 1]
    BY <1>3, <1>4
  <2>2. active \in [Clients -> 0..1] /\ 1 \in 0..1 /\ deferred \in [Clients -> BOOLEAN]
    BY DEF AllI, TypesI, ScopeType
  <2> QED BY <1>3, <2>1, <2>2 DEF ScopeType, Clients
<1>8. /\ acceptor' \in Acceptor /\ acceptor'.at = "connected" /\ acceptor'.client = c
  BY <1>2, <1>3, MovesType DEF Moves
<1>9. AcceptI'
  BY <1>2, <1>3, <1>8 DEF AcceptI
<1>10. \A d : EndingsStill(d) /\ WorkersStill(d)
  BY <1>3, EndingsStand, WorkersStand
<1>11. TurnI(c)'
  <2>1. \A w \in Workers : ~Receives(w, c)'
    BY <1>4, <1>10 DEF WorkersStill
  <2> QED BY <1>3, <1>4, <1>6, <2>1 DEF TurnI
<1>12. ScopeI(c)'
  <2>1. InScope(c)' /\ Accepts({"connected"}, c)'
    BY <1>8 DEF InScope, Accepts
  <2> QED BY <1>3, <1>4, <1>6, <1>7, <2>1 DEF ScopeI
<1>13. TokenI(c)'
  <2>1. ~(c > lastId') /\ ~Accepts({"accepting", "register", "publish"}, c)'
    BY <1>2, <1>3, <1>8 DEF Accepts
  <2>2. \A a \in Actors : ~Asks(a, c)' /\ ~Tells(a, c)'
    BY <1>4, <1>10 DEF EndingsStill, TellsStill
  <2> QED BY <1>3, <1>4, <1>6, <2>1, <2>2 DEF TokenI, Actors, Iocp!Actors
<1>14. /\ EndingType' /\ FeedKeeps /\ receiveOp' \subseteq Clients
       /\ Quiet("accept")' /\ ending'["accept"].client = 0
  BY <1>2, <1>3, <1>6, TypesStill DEF AllI, TypesI, OpType, FeedKeeps, Quiet
<1>15. PICK S : S = {c} /\ S = {acceptor.client, acceptor'.client} \cap Clients
  BY <1>1, <1>8
<1>16. /\ \A d \in S : TurnI(d)' /\ ScopeI(d)' /\ TokenI(d)'
       /\ \A d \in Clients \ S :
            /\ EndingsStill(d) /\ feed'[d] = feed[d] /\ callback'[d] = callback[d]
            /\ active'[d] = active[d] /\ deferred'[d] = deferred[d]
            /\ d \in receiveOp' <=> d \in receiveOp
            /\ d \in registered' <=> d \in registered
  BY <1>3, <1>6, <1>7, <1>10, <1>11, <1>12, <1>13, <1>15
<1> QED BY <1>2, <1>3, <1>5, <1>6, <1>7, <1>8, <1>9, <1>14, <1>15, <1>16, AcceptorSteps

LEMMA ConnectedReturnsI ==
  ASSUME AllI, Iocp!ConnectedReturns
  PROVE  AllI'
<1>1. PICK c \in Clients : c = acceptor.client
  BY Announced DEF Iocp!ConnectedReturns
<1>2. /\ acceptor.at \in {"connected", "leave"} /\ c \in 1..lastId /\ c \in 0..MaxClients /\ acceptor.at \notin Gone
      /\ Quiet("accept") /\ "accept" \in Actors /\ ending["accept"].client = 0
      /\ TokenI(c) /\ TurnI(c) /\ ScopeI(c) /\ lastId \in 0..MaxClients
  BY <1>1, Announced DEF Iocp!ConnectedReturns
<1>3. UNCHANGED <<setting, running, stopper, lastId, registered, closing, sent, wire, worker, monitor,
                  receiveOp, sendOp, sendQueue, sendBusy, app, wakes>>
  BY DEF Iocp!ConnectedReturns, Iocp!ownerVars, Iocp!tableVars, Iocp!outputVars, Iocp!workVars, Iocp!opVars
<1>4. /\ InScope(c) /\ feed[c] = "connected" /\ c \notin receiveOp
      /\ \A w \in Workers : ~Receives(w, c)
      /\ \A a \in Actors : ~Tells(a, c)
  <2>1. InScope(c) /\ Accepts({"connected", "leave", "receive"}, c)
    BY <1>1, <1>2 DEF InScope, Accepts
  <2>2. feed[c] = "connected"
    BY <1>2, <2>1 DEF ScopeI
  <2> QED BY <1>2, <2>1, <2>2 DEF TurnI, TokenI, Actors
<1>5. \A d : WorkersStill(d)
  BY <1>3, WorkersStand
<1>6. \A w \in Workers : ~Receives(w, c)' /\ ~Scoped(w, c)' /\ ~Says(w, c)' /\ ~Says(w, c)
  <2>1. \A w \in Workers : ~Scoped(w, c) /\ ~Says(w, c)
    BY <1>4 DEF Receives, Scoped, Says
  <2> QED BY <1>4, <1>5, <2>1 DEF WorkersStill
<1>7. TableType' /\ receiveOp' \subseteq Clients
  BY <1>3, TypesStill DEF AllI, TypesI, OpType
<1>8. ASSUME NEW x \in {"leave", "receive"}, Moves(x, c), FeedType', ScopeType', EndingType', feed'[c] # "new",
             ScopeI(c)', TokenI(c)',
             \A d \in Clients \ {c} : EndingsStill(d) /\ feed'[d] = feed[d] /\ callback'[d] = callback[d]
                                      /\ active'[d] = active[d] /\ deferred'[d] = deferred[d],
             \A b \in Actors : b # "accept" => ending'[b] = ending[b],
             IF Quiet("accept")' THEN ending'["accept"].client = 0 ELSE ending'["accept"].client \in Clients,
             Quiet("accept")' \/ x = "receive"
      PROVE  AllI'
  <2>1. acceptor' \in Acceptor /\ acceptor'.at = x /\ acceptor'.client = c
    BY <1>2, <1>8, MovesType DEF Moves
  <2>2. AcceptI'
    BY <1>2, <1>3, <2>1 DEF AcceptI
  <2>3. TurnI(c)'
    BY <1>3, <1>4, <1>6, <1>8 DEF TurnI
  <2>4. FeedKeeps
    BY <1>8 DEF FeedKeeps
  <2>5. PICK S : S = {c} /\ S = {acceptor.client, acceptor'.client} \cap Clients
    BY <1>1, <2>1
  <2>6. /\ \A d \in S : TurnI(d)' /\ ScopeI(d)' /\ TokenI(d)'
        /\ \A d \in Clients \ S :
             /\ EndingsStill(d) /\ feed'[d] = feed[d] /\ callback'[d] = callback[d]
             /\ active'[d] = active[d] /\ deferred'[d] = deferred[d]
             /\ d \in receiveOp' <=> d \in receiveOp
             /\ d \in registered' <=> d \in registered
    BY <1>3, <1>8, <2>3, <2>5
  <2> QED BY <1>2, <1>3, <1>7, <1>8, <2>1, <2>2, <2>4, <2>5, <2>6, AcceptorSteps
<1>9. CASE acceptor.at = "connected" /\ Iocp!Returned(c) /\ acceptor' = Iocp!At("leave", c)
           /\ UNCHANGED <<active, deferred, ending>>
  <2>1. callback' = [callback EXCEPT ![c] = "none"] /\ feed' = feed /\ Moves("leave", c)
    BY <1>9, AtFieldsI DEF Iocp!Returned, Moves
  <2>2. /\ FeedType' /\ ScopeType' /\ EndingType' /\ callback'[c] = "none"
        /\ \A d \in Clients \ {c} : callback'[d] = callback[d]
    BY <1>9, <2>1, TypesStill DEF AllI, TypesI, FeedType, Clients
  <2>3. \A d : EndingsStill(d)
    BY <1>9, EndingsStand
  <2>4. InScope(c)' /\ ~Accepts({"connected"}, c)'
    BY <2>1 DEF InScope, Accepts, Moves
  <2>5. \A a \in Actors : ~Tells(a, c)'
    BY <1>4, <2>3 DEF EndingsStill, TellsStill
  <2>6. ScopeI(c)'
    BY <1>2, <1>4, <1>6, <1>9, <2>1, <2>2, <2>4, <2>5 DEF ScopeI, Actors, Iocp!Actors
  <2>7. TokenI(c)'
    <3>1. ~Accepts({"accepting", "register", "publish"}, c)'
      BY <2>1 DEF Accepts, Moves
    <3> QED BY <1>2, <1>3, <1>4, <1>9, <2>1, <2>3, <3>1 DEF TokenI, EndingsStill, TellsStill, Actors, Iocp!Actors
  <2>8. Quiet("accept")' /\ ending'["accept"].client = 0
    BY <1>2, <1>9 DEF Quiet
  <2> QED BY <1>4, <1>8, <1>9, <2>1, <2>2, <2>3, <2>6, <2>7, <2>8
<1>10. CASE acceptor.at = "leave" /\ Iocp!end_callback("accept", c) /\ acceptor' = Iocp!At("receive", c)
  <2>1. Moves("receive", c)
    BY <1>10, AtFieldsI DEF Moves
  <2>2. ~InScope(c)' /\ ~Accepts({"connected"}, c)' /\ ~Accepts({"accepting", "register", "publish"}, c)'
    BY <1>6, <2>1 DEF InScope, Accepts, Moves
  <2>3. callback[c] = "none"
    <3>1. ~Accepts({"connected"}, c)
      BY <1>10 DEF Accepts
    <3> QED BY <1>2, <1>4, <1>6, <3>1 DEF ScopeI, Actors
  <2>4. /\ ScopeI(c)' /\ TokenI(c)' /\ FeedType' /\ ScopeType' /\ EndingType'
        /\ feed'[c] # "new"
        /\ \A d \in Clients \ {c} : EndingsStill(d) /\ feed'[d] = feed[d] /\ callback'[d] = callback[d]
                                    /\ active'[d] = active[d] /\ deferred'[d] = deferred[d]
        /\ \A b \in Actors : b # "accept" => ending'[b] = ending[b]
        /\ IF Quiet("accept")' THEN ending'["accept"].client = 0 ELSE ending'["accept"].client \in Clients
    BY <1>2, <1>3, <1>4, <1>6, <1>10, <2>2, <2>3, EndCallback
  <2> QED BY <1>8, <2>1, <2>4
<1> QED BY <1>1, <1>9, <1>10 DEF Iocp!ConnectedReturns, Iocp!scopeVars

LEMMA FirstReceiveI ==
  ASSUME AllI, Iocp!FirstReceive
  PROVE  AllI'
<1>1. PICK c \in Clients : c = acceptor.client
  BY Announced DEF Iocp!FirstReceive
<1>2. /\ acceptor.at = "receive" /\ c \in 0..MaxClients /\ 0 \in 0..MaxClients /\ acceptor.at \notin Gone
      /\ Quiet("accept") /\ "accept" \in Actors /\ ending["accept"].client = 0
      /\ TokenI(c) /\ TurnI(c) /\ ScopeI(c) /\ lastId \in 0..MaxClients /\ Moves("wait", 0)
  BY <1>1, Announced, AtFieldsI, QuietI, ConstantsOK
     DEF Iocp!FirstReceive, Moves, Constants, AllI, TypesI, FreeI, Actors
<1>3. UNCHANGED <<setting, running, stopper, lastId, callback, feed, sent, wire, worker, monitor,
                  sendOp, sendBusy, active, deferred, app, wakes>>
  BY DEF Iocp!FirstReceive, Iocp!ownerVars, Iocp!feedVars, Iocp!outputVars, Iocp!workVars, Iocp!scopeVars
<1>4. CASE Iocp!Erase("accept", c) /\ receiveOp' = receiveOp
  <2>1. (Erases("accept", c) \/ ErasesNot(c)) /\ acceptor'.at = "wait"
    BY <1>2, <1>4, EraseI DEF Moves
  <2> QED BY <1>2, <1>3, <1>4, <2>1, SomebodyErases
<1>5. CASE running /\ receiveOp' = receiveOp \cup {c} /\ UNCHANGED <<registered, closing, sendQueue, ending>>
  <2>1. acceptor' \in Acceptor /\ acceptor'.at = "wait" /\ acceptor'.client = 0
    BY <1>2, MovesType DEF Moves
  <2>2. AcceptI' /\ FeedKeeps
    BY <1>3, <2>1 DEF AcceptI, FeedKeeps
  <2>3. \A d : WorkersStill(d) /\ EndingsStill(d)
    BY <1>3, <1>5, WorkersStand, EndingsStand
  <2>4. feed[c] # "new" /\ \A w \in Workers : ~Receives(w, c)
    BY <1>1, <1>2 DEF TurnI, Accepts
  <2>5. TurnI(c)'
    <3>1. ~Accepts({"connected", "leave", "receive"}, c)'
      BY <2>1 DEF Accepts
    <3> QED BY <1>3, <2>3, <2>4, <3>1 DEF TurnI, WorkersStill
  <2>6. ScopeI(c)'
    <3>1. /\ ~Accepts({"connected", "leave"}, c) /\ ~Accepts({"connected", "leave"}, c)'
          /\ ~Accepts({"connected"}, c) /\ ~Accepts({"connected"}, c)'
      BY <1>2, <2>1 DEF Accepts
    <3>2. InScope(c)' <=> InScope(c)
      BY <2>3, <3>1 DEF InScope, WorkersStill
    <3>3. \A w \in Workers : Says(w, c)' <=> Says(w, c)
      BY <2>3 DEF WorkersStill
    <3>4. \A a \in Actors : Tells(a, c)' <=> Tells(a, c)
      BY <2>3 DEF EndingsStill, TellsStill
    <3> QED BY <1>2, <1>3, <3>1, <3>2, <3>3, <3>4 DEF ScopeI, Actors, Iocp!Actors
  <2>7. TokenI(c)'
    <3>1. ~Accepts({"accepting", "register", "publish"}, c)'
      BY <2>1 DEF Accepts
    <3> QED BY <1>2, <1>3, <1>5, <2>3, <3>1 DEF TokenI, EndingsStill, TellsStill, Actors, Iocp!Actors
  <2>8. /\ TableType' /\ FeedType' /\ ScopeType' /\ EndingType' /\ receiveOp' \subseteq Clients
        /\ Quiet("accept")' /\ ending'["accept"].client = 0
    BY <1>2, <1>3, <1>5, TypesStill DEF AllI, TypesI, OpType, Quiet
  <2>9. {c} = {acceptor.client, acceptor'.client} \cap Clients
    BY <1>1, <2>1 DEF Clients
  <2> QED BY <1>2, <1>3, <1>5, <2>1, <2>2, <2>3, <2>5, <2>6, <2>7, <2>8, <2>9, AcceptorSteps
<1> QED BY <1>1, <1>4, <1>5 DEF Iocp!FirstReceive, Iocp!tableVars

\* start(): no client has been heard of, so all that runs is the threads.
LEMMA StartI ==
  ASSUME AllI, Iocp!start
  PROVE  AllI'
<1>1. /\ stopper = "configured" /\ acceptor.at = "none" /\ monitor = "none" /\ lastId = 0
      /\ \A w \in Workers : worker[w].at = "none"
      /\ UNCHANGED <<setting, lastId, registered, closing, callback, feed, sent, wire,
                     receiveOp, sendOp, sendQueue, sendBusy, active, deferred, ending, app, wakes>>
  BY DEF AllI, OwnerI, AcceptI, Iocp!start, Iocp!tableVars, Iocp!feedVars, Iocp!outputVars, Iocp!opVars, Iocp!scopeVars
<1>2. \A c \in Clients : feed[c] = "new"
  BY <1>1 DEF AllI, TokensI, TokenI, Clients
<1>3. /\ registered = {} /\ receiveOp = {} /\ \A c \in Clients : sendOp[c] = NoSend
  <2>1. \A c \in Clients : c \notin registered /\ c \notin receiveOp /\ sendOp[c] = NoSend
    BY <1>2 DEF AllI, TurnsI, TurnI, TokensI, TokenI, WiresI, WireI, NoSend
  <2> QED BY <2>1 DEF AllI, TypesI, TableType, OpType
<1>4. /\ worker' \in [Workers -> WorkRecord]
      /\ \A w \in Workers : worker'[w].at \in {"none", "wait"} /\ worker'[w].client = 0
      /\ acceptor' \in Acceptor /\ acceptor'.at \in {"none", "wait"} /\ acceptor'.client = 0
      /\ monitor' \in {"none", "scan"}
      /\ \/ stopper' = "returned" /\ running' = running /\ UNCHANGED <<acceptor, worker, monitor>>
         \/ stopper' \in {"idle", "failed"} /\ running' = TRUE
  <2>1. CASE Iocp!OpenFails
    <3>1. stopper' = "returned" /\ running' = running /\ UNCHANGED <<acceptor, worker, monitor>>
      BY <2>1 DEF Iocp!OpenFails, Iocp!workVars
    <3> QED BY <1>1, <3>1 DEF AllI, TypesI, ControlType, WorkType, AcceptI, WorkersI, WorkerI
  <2>2. CASE ~Iocp!OpenFails
    <3>1. PICK W \in SUBSET Workers, accepts \in BOOLEAN, monitors \in BOOLEAN :
             /\ worker' = [w \in Workers |-> Iocp!Work(IF w \in W THEN "wait" ELSE "none", 0, Iocp!NoSend)]
             /\ acceptor' = Iocp!At(IF accepts THEN "wait" ELSE "none", 0)
             /\ monitor' = IF monitors THEN "scan" ELSE "none"
             /\ stopper' = IF monitors THEN "idle" ELSE "failed"
             /\ running' = TRUE
      BY <2>2 DEF Iocp!start
    <3>2. \A x \in {"none", "wait"} :
            /\ Iocp!Work(x, 0, Iocp!NoSend) \in WorkRecord /\ Iocp!Work(x, 0, Iocp!NoSend).at = x
            /\ Iocp!Work(x, 0, Iocp!NoSend).client = 0
      BY NoSendI, ConstantsOK DEF Iocp!Work, WorkRecord, WorkPlaces, Constants, NoSend
    <3>3. \A w \in Workers : /\ worker'[w] \in WorkRecord
                             /\ worker'[w].at \in {"none", "wait"} /\ worker'[w].client = 0
      BY <3>1, <3>2
    <3>4. worker' \in [Workers -> WorkRecord]
      BY <3>1, <3>3
    <3>5. acceptor' \in Acceptor /\ acceptor'.at \in {"none", "wait"} /\ acceptor'.client = 0
      BY <3>1, ConstantsOK DEF Iocp!At, Acceptor, Constants
    <3> QED BY <3>1, <3>3, <3>4, <3>5
  <2> QED BY <2>1, <2>2
<1>5. TypesI'
  <2>1. ControlType(StopsI)' /\ WorkType'
    BY <1>1, <1>4 DEF AllI, TypesI, ControlType, WorkType, StopsI
  <2> QED BY <1>1, <2>1, TypesStill DEF AllI, TypesI
<1>6. OwnerI'
  <2>1. \A w \in Workers : ~Iocp!Holds(w)'
    BY <1>4 DEF Iocp!Holds
  <2>2. CASE stopper' = "returned"
    BY <1>1, <1>3, <1>4, <2>1, <2>2 DEF AllI, OwnerI, Gone, NoSend, Clients
  <2>3. CASE stopper' # "returned"
    BY <1>4, <2>3 DEF OwnerI
  <2> QED BY <2>2, <2>3
<1>7. AcceptI'
  BY <1>1, <1>4 DEF AllI, AcceptI
<1>8. FreeI'
  BY <1>1, <1>4, ActorsI DEF AllI, FreeI, Quiet, Actors, Iocp!Actors, Clients
<1>9. AppI' /\ WorkersI'
  BY <1>1, <1>4, AppSameI DEF AllI, WorkersI, WorkerI
<1>10. \A d : EndingsStill(d)
  BY <1>1, EndingsStand
<1>11. ASSUME NEW d \in Clients PROVE WorkersStill(d) /\ AcceptStill(d)
  <2>1. WorkersStill(d)
    BY <1>1, <1>4 DEF WorkersStill, Receives, Scoped, Says, Sends
  <2>2. acceptor.client = 0 /\ d # 0
    BY <1>1 DEF AllI, AcceptI, Clients
  <2> QED BY <1>4, <2>1, <2>2, AcceptStands
<1>12. ASSUME NEW d \in Clients PROVE TurnI(d)' /\ ScopeI(d)' /\ TokenI(d)' /\ WireI(d)'
  BY <1>1, <1>10, <1>11, TurnStill, ScopeStill, TokenStill, WireStill
     DEF AllI, TurnsI, ScopesI, TokensI, WiresI, EndingsStill
<1> QED BY <1>5, <1>6, <1>7, <1>8, <1>9, <1>12 DEF AllI, TurnsI, ScopesI, TokensI, WiresI, Clients
-----------------------------------------------------------------------------
(***************************************************************************)
(* The input in the IOCP backend.                                          *)
(***************************************************************************)

\* A step that leaves the framers alone and opens nothing that was closed.
InputStill ==
  /\ UNCHANGED <<setting, framer, read, lines>>
  /\ \A c \in Clients : closing[c] => closing'[c]
  /\ running' \/ stopper' = "configured" => running \/ stopper = "configured"

LEMMA DeliversI ==
  ASSUME setting' = setting, \A c \in Clients : closing[c] => closing'[c],
         running' \/ stopper' = "configured" => running \/ stopper = "configured"
  PROVE  DeliversLess
BY DEF DeliversLess, Delivers, IsThreaded

LEMMA InputOtherI ==
  ASSUME InputInv, InputStill
  PROVE  InputInv'
BY DeliversI, InputSame DEF InputStill

LEMMA EraseCloses ==
  ASSUME AllI, NEW a, NEW c, Iocp!Erase(a, c)
  PROVE  \A d \in Clients : closing[d] => closing'[d]
<1>1. closing \in [Clients -> BOOLEAN]
  BY DEF AllI, TypesI, TableType
<1> QED BY <1>1, EraseI DEF Erases, ErasesNot

LEMMA BeginDeliveryInputI ==
  ASSUME InputInv, AllI, NEW w \in Workers, Iocp!BeginDelivery(w)
  PROVE  InputInv'
<1>1. PICK c \in Clients : c = worker[w].client
  BY AtWork DEF Iocp!BeginDelivery, Busy
<1>2. UNCHANGED <<setting, running, stopper, closing, lines>>
  BY DEF Iocp!BeginDelivery, Iocp!ownerVars, Iocp!tableVars, Iocp!feedVars
<1>3. CASE UNCHANGED <<framer, read>>
  BY <1>2, <1>3, InputOtherI DEF InputStill
<1>4. CASE ~UNCHANGED <<framer, read>>
  <2>1. PICK k : Iocp!Receive(c, k)
    BY <1>1, <1>4 DEF Iocp!BeginDelivery, Iocp!inputVars
  <2>2. Receive(c, k)
    BY <2>1, SameI, FramerSameI DEF Iocp!Receive, Receive, InputInv
  <2>3. setting \in Settings /\ DeliversLess
    BY <1>2, DeliversI DEF AllI, TypesI, ControlType
  <2> QED BY <1>2, <2>2, <2>3, InputReceive
<1> QED BY <1>3, <1>4

LEMMA PopLineInputI ==
  ASSUME InputInv, AllI, ~IsThreaded, NEW w \in Workers, Iocp!PopLine(w)
  PROVE  InputInv'
<1>1. PICK c \in Clients : c = worker[w].client
  BY AtWork DEF Iocp!PopLine, Busy
<1>2. UNCHANGED <<setting, running, stopper, closing, read>>
  BY DEF Iocp!PopLine, Iocp!ownerVars, Iocp!tableVars
<1>3. setting \in Settings /\ DeliversLess
  BY <1>2, DeliversI DEF AllI, TypesI, ControlType
<1>4. stopper # "configured"
  BY DEF AllI, OwnerI, Iocp!PopLine
<1>5. CASE CanPop(framer[c]) /\ running /\ ~closing[c]
  <2>1. Iocp!on_message(c)
    BY <1>1, <1>5, FramerSameI DEF Iocp!PopLine
  <2>2. /\ lines' = [lines EXCEPT ![c] = Append(@, Popped(framer[c]))]
        /\ framer' = [framer EXCEPT ![c] = try_pop(@)]
    BY <2>1, FramerSameI DEF Iocp!on_message
  <2>3. Delivers(c)
    BY <1>5 DEF Delivers
  <2> QED BY <1>2, <1>3, <1>5, <2>2, <2>3, InputPop
<1>6. CASE ~(CanPop(framer[c]) /\ running /\ ~closing[c])
  <2>1. /\ lines' = lines
        /\ framer' = [framer EXCEPT ![c] = IF CanPop(@) THEN try_pop(@) ELSE @]
    BY <1>1, <1>6, FramerSameI DEF Iocp!PopLine, Iocp!feedVars
  <2>2. CanPop(framer[c]) => ~Delivers(c)'
    BY <1>2, <1>4, <1>6 DEF Delivers, IsThreaded
  <2> QED BY <1>2, <1>3, <2>1, <2>2, InputDrop
<1> QED BY <1>5, <1>6

\* Every step of the IOCP backend.
LEMMA StepI ==
  ASSUME InputInv, AllI, ~IsThreaded, Iocp!Next
  PROVE  InputInv' /\ AllI'
<1> USE DEF Iocp!ownerVars, Iocp!acceptVars, Iocp!tableVars, Iocp!inputVars, Iocp!feedVars,
     Iocp!outputVars, Iocp!serverVars, Iocp!workVars, Iocp!opVars, Iocp!scopeVars
<1>1. CASE Iocp!start
  <2>1. InputStill
    BY <1>1 DEF Iocp!start, InputStill
  <2> QED BY <1>1, <2>1, StartI, InputOtherI
<1>2. CASE Iocp!StopBegins
  <2>1. InputStill
    BY <1>2 DEF Iocp!StopBegins, InputStill
  <2> QED BY <1>2, <2>1, StopBeginsI, InputOtherI
<1>3. CASE Iocp!StopWaits
  <2>1. InputStill
    BY <1>3 DEF Iocp!StopWaits, Iocp!Stops, InputStill
  <2> QED BY <1>3, <2>1, StopWaitsI, InputOtherI
<1>4. CASE Iocp!close_all_connections
  <2>1. InputStill
    BY <1>4, EraseCloses DEF Iocp!close_all_connections, InputStill
  <2> QED BY <1>4, <2>1, CloseAllI, InputOtherI
<1>5. CASE Iocp!wake_workers
  <2>1. InputStill
    BY <1>5 DEF Iocp!wake_workers, Iocp!Stops, InputStill
  <2> QED BY <1>5, <2>1, WakeWorkersI, InputOtherI
<1>6. CASE Iocp!accept_loop
  <2>1. InputStill
    BY <1>6 DEF Iocp!accept_loop, InputStill
  <2> QED BY <1>6, <2>1, AcceptLoopI, InputOtherI
<1>7. CASE Iocp!Admit
  <2>1. InputStill
    BY <1>7 DEF Iocp!Admit, InputStill
  <2> QED BY <1>7, <2>1, AdmitI, InputOtherI
<1>8. CASE Iocp!Publish
  <2>1. InputStill
    BY <1>8 DEF Iocp!Publish, Iocp!on_connected, InputStill
  <2> QED BY <1>8, <2>1, PublishI, InputOtherI
<1>9. CASE Iocp!ConnectedReturns
  <2>1. InputStill
    BY <1>9 DEF Iocp!ConnectedReturns, Iocp!Returned, Iocp!end_callback, Iocp!on_disconnected, InputStill
  <2> QED BY <1>9, <2>1, ConnectedReturnsI, InputOtherI
<1>10. CASE Iocp!FirstReceive
  <2>1. InputStill
    BY <1>10, EraseCloses DEF Iocp!FirstReceive, InputStill
  <2> QED BY <1>10, <2>1, FirstReceiveI, InputOtherI
<1>11. CASE Iocp!idle_monitor_loop
  <2>1. InputStill
    BY <1>11, EraseCloses DEF Iocp!idle_monitor_loop, InputStill
  <2> QED BY <1>11, <2>1, IdleMonitorI, InputOtherI
<1>12. CASE Iocp!MonitorExits
  <2>1. InputStill
    BY <1>12 DEF Iocp!MonitorExits, InputStill
  <2> QED BY <1>12, <2>1, MonitorExitsI, InputOtherI
<1>13. ASSUME NEW w \in Workers, Iocp!WorkerSteps(w) PROVE InputInv' /\ AllI'
  <2>1. CASE Iocp!WorkerDisconnects(w)
    <3>1. InputStill
      BY <2>1, EraseCloses DEF Iocp!WorkerDisconnects, InputStill
    <3> QED BY <2>1, <3>1, WorkerDisconnectsI, InputOtherI
  <2>2. CASE Iocp!Release(w)
    <3>1. InputStill
      BY <2>2 DEF Iocp!Release, InputStill
    <3> QED BY <2>2, <3>1, ReleaseI, InputOtherI
  <2>3. CASE Iocp!WorkerExits(w)
    <3>1. InputStill
      BY <2>3 DEF Iocp!WorkerExits, InputStill
    <3> QED BY <2>3, <3>1, WorkerExitsI, InputOtherI
  <2>4. CASE Iocp!BeginDelivery(w)
    BY <2>4, BeginDeliveryI, BeginDeliveryInputI
  <2>5. CASE Iocp!PopLine(w)
    BY <2>5, PopLineI, PopLineInputI
  <2>6. CASE Iocp!MessageReturns(w)
    <3>1. InputStill
      BY <2>6 DEF Iocp!MessageReturns, Iocp!Returned, InputStill
    <3> QED BY <2>6, <3>1, MessageReturnsI, InputOtherI
  <2>7. CASE Iocp!EndDelivery(w)
    <3>1. InputStill
      BY <2>7 DEF Iocp!EndDelivery, Iocp!end_callback, Iocp!on_disconnected, InputStill
    <3> QED BY <2>7, <3>1, EndDeliveryI, InputOtherI
  <2>8. CASE Iocp!PostReceive(w)
    <3>1. InputStill
      BY <2>8, EraseCloses DEF Iocp!PostReceive, InputStill
    <3> QED BY <2>8, <3>1, PostReceiveI, InputOtherI
  <2>9. CASE Iocp!complete_send(w)
    <3>1. InputStill
      BY <2>9 DEF Iocp!complete_send, InputStill
    <3> QED BY <2>9, <3>1, CompleteSendI, InputOtherI
  <2> HIDE DEF Iocp!ownerVars, Iocp!acceptVars, Iocp!tableVars, Iocp!inputVars, Iocp!feedVars,
       Iocp!outputVars, Iocp!serverVars, Iocp!workVars, Iocp!opVars, Iocp!scopeVars
  <2> QED BY <1>13, <2>1, <2>2, <2>3, <2>4, <2>5, <2>6, <2>7, <2>8, <2>9 DEF Iocp!WorkerSteps
<1>14. ASSUME NEW c \in Clients, Iocp!Completions(c) PROVE InputInv' /\ AllI'
  <2>1. PICK w \in Workers : Iocp!ReceiveCompletes(w, c) \/ Iocp!SendCompletes(w, c)
    BY <1>14 DEF Iocp!Completions
  <2>2. CASE Iocp!ReceiveCompletes(w, c)
    <3>1. InputStill
      BY <2>2 DEF Iocp!ReceiveCompletes, InputStill
    <3> QED BY <2>2, <3>1, ReceiveCompletesI, InputOtherI
  <2>3. CASE Iocp!SendCompletes(w, c)
    <3>1. InputStill
      BY <2>3 DEF Iocp!SendCompletes, InputStill
    <3> QED BY <2>3, <3>1, SendCompletesI, InputOtherI
  <2> QED BY <2>1, <2>2, <2>3
<1>15. ASSUME NEW c \in Clients, Iocp!disconnect(c) PROVE InputInv' /\ AllI'
  <2>1. InputStill
    BY <1>15, EraseCloses DEF Iocp!disconnect, InputStill
  <2> QED BY <1>15, <2>1, DisconnectI, InputOtherI
<1>16. ASSUME NEW c \in Clients, Iocp!send(c) PROVE InputInv' /\ AllI'
  <2>1. InputStill
    BY <1>16 DEF Iocp!send, InputStill
  <2> QED BY <1>16, <2>1, SendI, InputOtherI
<1>17. CASE Iocp!ConnectionSend
  <2>1. InputStill
    BY <1>17 DEF Iocp!ConnectionSend, InputStill
  <2> QED BY <1>17, <2>1, ConnectionSendI, InputOtherI
<1>18. CASE Iocp!SendFailed
  <2>1. InputStill
    BY <1>18, EraseCloses DEF Iocp!SendFailed, InputStill
  <2> QED BY <1>18, <2>1, SendFailedI, InputOtherI
<1>19. ASSUME NEW a \in Actors, Iocp!Disconnects(a) PROVE InputInv' /\ AllI'
  <2>1. CASE Iocp!request_disconnect_notification(a)
    <3>1. InputStill
      BY <2>1 DEF Iocp!request_disconnect_notification, Iocp!on_disconnected, InputStill
    <3> QED BY <2>1, <3>1, RequestI, InputOtherI
  <2>2. CASE Iocp!NotifyReturns(a)
    <3>1. InputStill
      BY <2>2 DEF Iocp!NotifyReturns, Iocp!Returned, InputStill
    <3> QED BY <2>2, <3>1, NotifyReturnsI, InputOtherI
  <2> QED BY <1>19, <2>1, <2>2 DEF Iocp!Disconnects
<1> HIDE DEF Iocp!ownerVars, Iocp!acceptVars, Iocp!tableVars, Iocp!inputVars, Iocp!feedVars,
     Iocp!outputVars, Iocp!serverVars, Iocp!workVars, Iocp!opVars, Iocp!scopeVars
<1> QED BY <1>1, <1>2, <1>3, <1>4, <1>5, <1>6, <1>7, <1>8, <1>9, <1>10, <1>11, <1>12, <1>13, <1>14,
           <1>15, <1>16, <1>17, <1>18, <1>19, ClientsI
        DEF Iocp!Next, Iocp!stop, Iocp!AcceptThread, Actors
-----------------------------------------------------------------------------
(***************************************************************************)
(* The specification.                                                      *)
(***************************************************************************)
LEMMA InitInput ==
  ASSUME Init
  PROVE  InputInv
<1>1. EmptyFramer \in Framer /\ Len(EmptyFramer.pending) = 0 /\ EmptyFramer.consumed = 0
      /\ EmptyFramer.lineBytes = 0 /\ ~EmptyFramer.failed
  BY DEF EmptyFramer, Framer
<1>2. /\ setting \in Settings /\ framer = [c \in Clients |-> EmptyFramer]
      /\ read = [c \in Clients |-> 0] /\ lines = [c \in Clients |-> <<>>]
  BY DEF Init, ServerInit
<1>3. ASSUME NEW c \in Clients PROVE InputAt(c)
  <2>1. framer[c] = EmptyFramer /\ read[c] = 0 /\ lines[c] = <<>> /\ Input(c) \in Seq(Byte)
    BY <1>2, SettingOK
  <2>2. LineCount(Input(c), 0, 0, MaxMessageBytes)
    BY ConstantsOK DEF LineCount, Constants
  <2>3. FramerOK(framer[c], Input(c), read[c], MaxMessageBytes)
    BY <1>1, <2>1, <2>2 DEF FramerOK
  <2>4. AreLinesOf(lines[c], Input(c), MaxMessageBytes)
    BY <2>1 DEF AreLinesOf
  <2>5. LinesEndAt(Input(c), Len(lines[c]), Place(framer[c], read[c]))
    <3>1. Place(framer[c], read[c]) = 0 /\ Len(lines[c]) = 0
      BY <1>1, <2>1 DEF Place
    <3>2. {j \in 1..0 : Input(c)[j] = LF} = {}
      OBVIOUS
    <3> QED BY <3>1, <3>2, FS_EmptySet DEF LinesEndAt
  <2> QED BY <2>1, <2>3, <2>4, <2>5 DEF InputAt
<1> QED BY <1>1, <1>2, <1>3 DEF InputInv

LEMMA InitServer ==
  ASSUME Init, NEW stops, "configured" \in stops
  PROVE  /\ ControlType(stops) /\ TableType /\ FeedType /\ OutputType
         /\ stopper = "configured" /\ ~running /\ acceptor.at = "none" /\ acceptor.client = 0
         /\ lastId = 0 /\ registered = {}
         /\ \A c \in Clients : /\ ~closing[c] /\ callback[c] = "none" /\ feed[c] = "new" /\ c > lastId
                               /\ wire[c] = <<>> /\ Whole(wire[c]) /\ Complete(wire[c])
<1>1. /\ setting \in Settings /\ running = FALSE /\ stopper = "configured"
      /\ acceptor = At("none", 0) /\ lastId = 0 /\ registered = {}
      /\ closing = [c \in Clients |-> FALSE] /\ callback = [c \in Clients |-> "none"]
      /\ feed = [c \in Clients |-> "new"] /\ sent = 0 /\ wire = [c \in Clients |-> <<>>]
  BY DEF Init, ServerInit
<1>2. At("none", 0).at = "none" /\ At("none", 0).client = 0 /\ At("none", 0) \in Acceptor
  BY ConstantsOK DEF At, Acceptor, Constants
<1>3. ControlType(stops) /\ FeedType
  <2>1. lastId \in 0..MaxClients
    BY <1>1, ConstantsOK DEF Constants
  <2>2. running \in BOOLEAN /\ acceptor \in Acceptor
    BY <1>1, <1>2
  <2>3. FeedType
    BY <1>1 DEF FeedType
  <2> QED BY <1>1, <2>1, <2>2, <2>3 DEF ControlType
<1>4. TableType
  BY <1>1, FS_EmptySet, SettingOK DEF TableType
<1>5. OutputType
  BY <1>1, ConstantsOK DEF OutputType, Constants
<1>6. Whole(<<>>) /\ Complete(<<>>)
  BY DEF Whole, Complete
<1>7. ASSUME NEW c \in Clients
      PROVE  /\ ~closing[c] /\ callback[c] = "none" /\ feed[c] = "new" /\ c > lastId
             /\ wire[c] = <<>> /\ Whole(wire[c]) /\ Complete(wire[c])
  BY <1>1, <1>6 DEF Clients
<1> QED BY <1>1, <1>2, <1>3, <1>4, <1>5, <1>7

LEMMA InitT ==
  ASSUME Init
  PROVE  MainT /\ OutT
<1>1. /\ ControlType(StopsT) /\ TableType /\ FeedType /\ OutputType
      /\ stopper = "configured" /\ ~running /\ acceptor.at = "none" /\ acceptor.client = 0
      /\ lastId = 0 /\ registered = {}
      /\ \A c \in Clients : /\ ~closing[c] /\ callback[c] = "none" /\ feed[c] = "new" /\ c > lastId
                            /\ wire[c] = <<>> /\ Whole(wire[c]) /\ Complete(wire[c])
  BY InitServer DEF StopsT
<1>2. /\ thread = [c \in Clients |-> "none"] /\ snapshot = {} /\ dropping = {}
      /\ sender = [a \in Callers |-> Threaded!Idle] /\ sendLock = [c \in Clients |-> {}]
  BY ClientsT DEF Init, Threaded!ThreadedInit, Callers
<1>3. Threaded!Idle \in SenderRecord /\ Threaded!Idle.at = "idle"
  BY ConstantsOK DEF Threaded!Idle, SenderRecord, Constants
<1>4. ThreadType /\ SendType
  BY <1>2, <1>3 DEF ThreadType, SendType, ThreadPlaces
<1>5. OwnerT /\ AcceptT
  BY <1>1, <1>2 DEF OwnerT, AcceptT, Ended
<1>6. ASSUME NEW c \in Clients PROVE ClientT(c)
  BY <1>1, <1>2 DEF ClientT, Accepts
<1>7. ASSUME NEW c \in Clients PROVE WireT(c)
  BY <1>1, <1>2, <1>3 DEF WireT, Writing, Callers
<1>8. \A a \in Callers : SenderT(a)
  BY <1>2 DEF SenderT
<1> QED BY <1>1, <1>4, <1>5, <1>6, <1>7, <1>8 DEF MainT, OutT

LEMMA InitI ==
  ASSUME Init
  PROVE  AllI
<1>1. /\ ControlType(StopsI) /\ TableType /\ FeedType /\ OutputType
      /\ stopper = "configured" /\ ~running /\ acceptor.at = "none" /\ acceptor.client = 0
      /\ lastId = 0 /\ registered = {}
      /\ \A c \in Clients : /\ ~closing[c] /\ callback[c] = "none" /\ feed[c] = "new" /\ c > lastId
                            /\ wire[c] = <<>> /\ Whole(wire[c]) /\ Complete(wire[c])
  BY InitServer DEF StopsI
<1>2. /\ worker = [w \in Workers |-> Iocp!Work("none", 0, NoSend)] /\ monitor = "none"
      /\ receiveOp = {} /\ sendOp = [c \in Clients |-> NoSend]
      /\ sendQueue = [c \in Clients |-> <<>>] /\ sendBusy = [c \in Clients |-> FALSE]
      /\ active = [c \in Clients |-> 0] /\ deferred = [c \in Clients |-> FALSE]
      /\ ending = [a \in Actors |-> Iocp!NotEnding] /\ app = Iocp!Idle /\ wakes = 0
  BY ClientsI DEF Init, Iocp!IocpInit, Actors, NoSend
<1>3. /\ Iocp!Work("none", 0, NoSend) \in WorkRecord /\ Iocp!Work("none", 0, NoSend).at = "none"
      /\ Iocp!Work("none", 0, NoSend).client = 0
  BY NoSendI, ConstantsOK DEF Iocp!Work, WorkRecord, WorkPlaces, Constants
<1>4. /\ Iocp!NotEnding \in EndingRecord /\ Iocp!NotEnding.at = "none" /\ Iocp!NotEnding.client = 0
      /\ Iocp!Idle \in AppRecord /\ Iocp!Idle.at = "idle"
  BY ConstantsOK DEF Iocp!NotEnding, Iocp!Idle, EndingRecord, AppRecord, Constants
<1>5. Cardinality(Workers) \in Nat
  BY ConstantsOK, FS_CardinalityType DEF Constants
<1>6. TypesI
  <2>1. WorkType /\ ScopeType /\ EndingType /\ AppType /\ WakeType
    BY <1>2, <1>3, <1>4, <1>5 DEF WorkType, ScopeType, EndingType, AppType, WakeType
  <2>2. OpType
    BY <1>2, NoSendI DEF OpType
  <2> QED BY <1>1, <2>1, <2>2 DEF TypesI
<1>7. \A w \in Workers : worker[w].at = "none" /\ worker[w].client = 0
  BY <1>2, <1>3
<1>8. \A a \in Actors : ending[a].at = "none" /\ ending[a].client = 0
  BY <1>2, <1>4
<1>9. OwnerI /\ AcceptI /\ AppI
  BY <1>1, <1>2, <1>4, <1>7 DEF OwnerI, AcceptI, AppI, Gone
<1>10. FreeI
  BY <1>8, ActorsI DEF FreeI, Quiet, Actors
<1>11. WorkersI
  BY <1>7 DEF WorkersI, WorkerI
<1>12. ASSUME NEW c \in Clients PROVE TurnI(c) /\ ScopeI(c) /\ TokenI(c) /\ WireI(c)
  <2>1. \A w \in Workers : ~Receives(w, c) /\ ~Scoped(w, c) /\ ~Says(w, c) /\ ~Sends(w, c)
    BY <1>7 DEF Receives, Scoped, Says, Sends
  <2>2. \A a \in Actors : ~Asks(a, c) /\ ~Tells(a, c)
    BY <1>8 DEF Asks, Tells
  <2>3. \A S : "none" \notin S => ~Accepts(S, c)
    BY <1>1 DEF Accepts
  <2>4. TurnI(c)
    BY <1>2, <2>1, <2>3 DEF TurnI
  <2>5. ScopeI(c)
    BY <1>1, <1>2, <2>1, <2>2, <2>3 DEF ScopeI, InScope, Actors
  <2>6. TokenI(c)
    BY <1>1, <1>2, <2>2 DEF TokenI, Actors
  <2>7. WireI(c)
    BY <1>1, <1>2, <2>1 DEF WireI, NoSend
  <2> QED BY <2>4, <2>5, <2>6, <2>7
<1> QED BY <1>6, <1>9, <1>10, <1>11, <1>12 DEF AllI, TurnsI, ScopesI, TokensI, WiresI

\* The parts of the invariant, in the next state.
LEMMA PartsNext ==
  /\ InputInv' /\ MainT' /\ OutT' => ThreadedInv'
  /\ InputInv' /\ AllI' => IocpInv'
<1>1. InputInv /\ MainT /\ OutT => ThreadedInv
  BY PartsT
<1>2. InputInv /\ AllI => IocpInv
  BY PartsI
<1> QED BY <1>1, <1>2, PTL

\* What does not change keeps the whole invariant.
LEMMA Stutters ==
  ASSUME Inv, UNCHANGED vars
  PROVE  Inv'
<1>1. UNCHANGED <<setting, running, stopper, acceptor, lastId, registered, closing, framer, read, callback,
                  feed, lines, sent, wire, thread, snapshot, dropping, sender, sendLock, worker, monitor,
                  receiveOp, sendOp, sendQueue, sendBusy, active, deferred, ending, app, wakes>>
  BY DEF vars, serverVars, ownerVars, acceptVars, tableVars, inputVars, feedVars, outputVars,
     threadedVars, iocpVars
<1>2. IsThreaded' <=> IsThreaded
  BY <1>1 DEF IsThreaded
<1>3. InputInv /\ InputInv'
  BY <1>1, InputOtherI DEF Inv, InputStill
<1>4. CASE IsThreaded
  <2>1. MainT /\ OutT
    BY <1>3, <1>4, PartsT DEF Inv
  <2>2. MainT' /\ OutT'
    BY <1>1, <2>1, MainSameT, OutSameT DEF ownerVars, acceptVars, tableVars, Threaded!threadVars
  <2>3. ThreadedInv'
    BY <1>3, <2>2, PartsNext
  <2> QED BY <1>2, <1>3, <1>4, <2>3 DEF Inv
<1>5. CASE ~IsThreaded
  <2>1. AllI
    BY <1>3, <1>5, PartsI DEF Inv
  <2>2. TypesI'
    BY <1>1, <2>1, TypesStill DEF AllI, TypesI
  <2>3. OwnerI' /\ AcceptI' /\ FreeI' /\ AppI' /\ WorkersI'
    BY <1>1, <2>1, OwnerSameI, AcceptSameI, FreeSameI, AppSameI, WorkersSameI DEF AllI
  <2>4. TurnsI' /\ ScopesI' /\ TokensI' /\ WiresI'
    BY <1>1, <2>1, TurnsSameI, ScopesSameI, TokensSameI, WiresSameI DEF AllI
  <2>5. AllI'
    BY <2>2, <2>3, <2>4 DEF AllI
  <2>6. IocpInv'
    BY <1>3, <2>5, PartsNext
  <2> QED BY <1>2, <1>3, <1>5, <2>6 DEF Inv
<1> QED BY <1>4, <1>5

LEMMA InitInv ==
  ASSUME Init
  PROVE  Inv
BY InitInput, InitT, InitI, PartsT, PartsI DEF Inv

LEMMA SettingKept ==
  ASSUME Next
  PROVE  setting' = setting
<1> USE DEF Threaded!ownerVars, Threaded!serverVars, Iocp!ownerVars, Iocp!serverVars
<1>1. CASE Threaded!Next
  BY <1>1 DEF Threaded!Next, Threaded!stop, Threaded!AcceptThread, Threaded!start, Threaded!StopBegins,
     Threaded!StopSwaps, Threaded!StopDisconnects, Threaded!StopJoins, Threaded!accept_loop,
     Threaded!Register, Threaded!launch_client, Threaded!LaunchFailed, Threaded!Read, Threaded!ReadEnds,
     Threaded!DeliverLine, Threaded!MessageReturns, Threaded!run_client, Threaded!disconnect,
     Threaded!DisconnectCloses, Threaded!send, Threaded!SendLocks, Threaded!SendWrites, Threaded!SendFails
<1>2. CASE Iocp!Next
  BY <1>2 DEF Iocp!Next, Iocp!stop, Iocp!AcceptThread, Iocp!WorkerSteps, Iocp!Completions, Iocp!Disconnects,
     Iocp!start, Iocp!StopBegins, Iocp!StopWaits, Iocp!close_all_connections, Iocp!wake_workers,
     Iocp!accept_loop, Iocp!Admit, Iocp!Publish, Iocp!ConnectedReturns, Iocp!FirstReceive,
     Iocp!idle_monitor_loop, Iocp!MonitorExits, Iocp!WorkerDisconnects, Iocp!Release, Iocp!WorkerExits,
     Iocp!BeginDelivery, Iocp!PopLine, Iocp!MessageReturns, Iocp!EndDelivery, Iocp!PostReceive,
     Iocp!complete_send, Iocp!ReceiveCompletes, Iocp!SendCompletes, Iocp!disconnect, Iocp!send,
     Iocp!ConnectionSend, Iocp!SendFailed, Iocp!request_disconnect_notification, Iocp!NotifyReturns
<1> QED BY <1>1, <1>2 DEF Next, ThreadedStep, IocpStep

LEMMA StepInv ==
  ASSUME Inv, Next
  PROVE  Inv'
<1>1. IsThreaded' <=> IsThreaded
  BY SettingKept DEF IsThreaded
<1>2. CASE ThreadedStep
  <2>1. InputInv /\ MainT /\ OutT /\ IsThreaded /\ Threaded!Next
    BY <1>2, PartsT DEF ThreadedStep, Inv
  <2>2. InputInv' /\ ThreadedInv'
    BY <2>1, StepT, PartsNext
  <2> QED BY <1>1, <2>1, <2>2 DEF Inv
<1>3. CASE IocpStep
  <2>1. InputInv /\ AllI /\ ~IsThreaded /\ Iocp!Next
    BY <1>3, PartsI DEF IocpStep, Inv
  <2>2. InputInv' /\ IocpInv'
    BY <2>1, StepI, PartsNext
  <2> QED BY <1>1, <2>1, <2>2 DEF Inv
<1> QED BY <1>2, <1>3 DEF Next

\* The invariant the properties below rest on: what the framers hold and what
\* was delivered of each stream, who owns which connection, operation, lock and
\* callback, and how far each send has come.
THEOREM Invariant == Spec => []Inv
<1>1. Init => Inv
  BY InitInv
<1>2. Inv /\ [Next]_vars => Inv'
  BY StepInv, Stutters
<1> QED BY <1>1, <1>2, PTL DEF Spec

\* LineFramer: whatever the reads a stream is cut into, the messages both
\* backends deliver are its lines in order, each within max_message_bytes.
THEOREM LinesStayWhole == Spec => []LinesAreWhole
<1>1. Inv => LinesAreWhole
  BY DEF Inv, InputInv, InputAt, LinesAreWhole
<1> QED BY <1>1, Invariant, PTL

\* ClientConnection::send and Connection::send: the pieces of a message are
\* adjacent on the wire, however many threads send to a client and wherever a
\* write fails.
THEOREM WritesAreWhole == Spec => []WritesStayWhole
<1>1. Inv => WritesStayWhole
  <2> SUFFICES ASSUME Inv, NEW c \in Clients PROVE Whole(wire[c])
    BY DEF WritesStayWhole, Whole
  <2>1. CASE IsThreaded
    BY <2>1 DEF Inv, ThreadedInv, WireT
  <2>2. CASE ~IsThreaded
    BY <2>2 DEF Inv, IocpInv, WireI
  <2> QED BY <2>1, <2>2
<1> QED BY <1>1, Invariant, PTL

\* stop() of the threaded backend.
LEMMA StopsCleanT ==
  ASSUME Inv, IsThreaded
  PROVE  Threaded!StopLeavesNothing
<1>1. OwnerT /\ AcceptT /\ \A c \in Clients : ClientT(c)
  BY DEF Inv, ThreadedInv
<1>2. feed \in [Clients -> {"new", "connected", "disconnected"}]
  BY PartsT DEF Inv, MainT, FeedType
<1> SUFFICES ASSUME stopper = "returned"
             PROVE  /\ registered = {} /\ snapshot = {} /\ acceptor.at \in {"none", "exited"}
                    /\ \A c \in Clients :
                         /\ thread[c] \in {"none", "finished", "joined"} /\ callback[c] = "none"
                         /\ feed[c] \in {"new", "disconnected"}
                         /\ feed[c] # "new" => closing[c] \/ c \in dropping
  BY ClientsT DEF Threaded!StopLeavesNothing
<1>3. /\ registered = {} /\ snapshot = {} /\ acceptor.at \in {"none", "exited"} /\ acceptor.client = 0
      /\ \A c \in Clients : thread[c] \in {"none", "finished", "joined"}
  BY <1>1 DEF OwnerT, AcceptT, Ended
<1>4. ASSUME NEW c \in Clients
      PROVE  /\ callback[c] = "none" /\ feed[c] \in {"new", "disconnected"}
             /\ feed[c] # "new" => closing[c] \/ c \in dropping
  <2>1. acceptor.client # c /\ \A S : ~Accepts(S, c)
    BY <1>3 DEF Clients, Accepts
  <2>2. ClientT(c) /\ thread[c] \in {"none", "finished", "joined"}
    BY <1>1, <1>3
  <2> QED BY <1>2, <1>3, <2>1, <2>2 DEF ClientT
<1> QED BY <1>3, <1>4

\* stop() of the IOCP backend.
LEMMA StopsCleanI ==
  ASSUME Inv, ~IsThreaded
  PROVE  Iocp!StopLeavesNothing
<1>1. AllI
  BY PartsI DEF Inv
<1>2. feed \in [Clients -> {"new", "connected", "disconnected"}]
  BY <1>1 DEF AllI, TypesI, FeedType
<1> SUFFICES ASSUME stopper = "returned"
             PROVE  /\ registered = {} /\ acceptor.at \in {"none", "exited"}
                    /\ monitor \in {"none", "exited"}
                    /\ \A w \in Workers : worker[w].at \in {"none", "exited"}
                    /\ receiveOp = {}
                    /\ \A c \in Clients :
                         /\ sendOp[c] = NoSend /\ (feed[c] # "new" => closing[c])
                         /\ ending["app"].client = c \/ (callback[c] = "none" /\ feed[c] # "connected")
  BY ClientsI DEF Iocp!StopLeavesNothing, NoSend
<1>3. /\ registered = {} /\ acceptor.at \in {"none", "exited"} /\ acceptor.client = 0
      /\ monitor \in {"none", "exited"} /\ receiveOp = {}
      /\ \A w \in Workers : worker[w].at \in {"none", "exited"}
      /\ \A c \in Clients : sendOp[c] = NoSend
  BY <1>1 DEF AllI, OwnerI, AcceptI, Gone, NoSend
<1>4. \A a \in Actors : a # "app" => Quiet(a)
  BY <1>1, <1>3, ActorsI DEF AllI, FreeI
<1>5. ASSUME NEW c \in Clients
      PROVE  /\ feed[c] # "new" => closing[c]
             /\ ending["app"].client = c \/ (callback[c] = "none" /\ feed[c] # "connected")
  <2>1. TokenI(c) /\ ScopeI(c)
    BY <1>1 DEF AllI, TokensI, ScopesI
  <2>2. ~InScope(c)
    BY <1>3 DEF InScope, Accepts, Scoped
  <2>3. ~Accepts({"connected"}, c) /\ \A w \in Workers : ~Says(w, c)
    BY <2>2, NoScope
  <2>4. ending["app"].client # c => \A a \in Actors : ~Asks(a, c) /\ ~Tells(a, c)
    BY <1>4 DEF Asks, Tells, Quiet
  <2>5. feed[c] # "new" => closing[c]
    BY <1>3, <2>1 DEF TokenI
  <2>6. ending["app"].client # c => callback[c] = "none"
    BY <2>1, <2>3, <2>4 DEF ScopeI, Actors
  <2>7. ending["app"].client # c => feed[c] # "connected"
    BY <1>3, <2>1, <2>2, <2>4 DEF TokenI, ScopeI, Actors
  <2> QED BY <2>5, <2>6, <2>7
<1> QED BY <1>3, <1>5

\* TcpServerImpl::stop and Iocp Server::stop: once stop() has returned no thread,
\* operation or callback is left, every socket is closed and every session that
\* was announced was ended, whatever the clients and the application did
\* meanwhile.
THEOREM StopIsClean == Spec => []StopLeavesNothing
<1>1. Inv => StopLeavesNothing
  <2>1. Inv => TypeOK
    BY DEF Inv, TypeOK, ThreadedInv, IocpInv
  <2> QED BY <2>1, StopsCleanT, StopsCleanI DEF StopLeavesNothing
<1> QED BY <1>1, Invariant, PTL
-----------------------------------------------------------------------------
(***************************************************************************)
(* Callbacks in order.                                                     *)
(***************************************************************************)
InOrder ==
  \A c \in Clients :
    callback'[c] # callback[c] /\ callback'[c] # "none" =>
      /\ callback[c] = "none"
      /\ feed[c] = IF callback'[c] = "connected" THEN "new" ELSE "connected"

\* A callback that begins, or returns.
LEMMA BeginsInOrder ==
  ASSUME FeedType, NEW c, NEW x, callback' = [callback EXCEPT ![c] = x],
         x # "none" => callback[c] = "none" /\ feed[c] = IF x = "connected" THEN "new" ELSE "connected"
  PROVE  InOrder
BY DEF InOrder, FeedType

LEMMA NoCallback ==
  ASSUME callback' = callback
  PROVE  InOrder
BY DEF InOrder

LEMMA InOrderT ==
  ASSUME MainT, Threaded!Next
  PROVE  InOrder
<1> USE DEF Threaded!feedVars, Threaded!serverVars
<1>1. FeedType
  BY DEF MainT
<1>2. CASE Threaded!start \/ Threaded!StopBegins \/ Threaded!stop \/ Threaded!accept_loop
  BY <1>2, NoCallback DEF Threaded!start, Threaded!StopBegins, Threaded!stop, Threaded!StopSwaps,
     Threaded!StopDisconnects, Threaded!StopJoins, Threaded!accept_loop
<1>3. CASE Threaded!Register \/ Threaded!launch_client \/ Threaded!LaunchFailed
  <2>1. PICK c \in Clients : c = acceptor.client
    <3>1. acceptor.client \in 1..lastId /\ lastId \in 0..MaxClients
      BY <1>3 DEF MainT, ControlType, AcceptT, Threaded!Register, Threaded!launch_client, Threaded!LaunchFailed
    <3> QED BY <3>1, ConstantsOK DEF Clients, Constants
  <2>2. ClientT(c) /\ thread[c] = "none"
    BY <2>1 DEF MainT, ClientT
  <2>3. CASE Threaded!Register
    <3>1. callback' = [callback EXCEPT ![c] = "connected"] /\ acceptor.at = "register"
      BY <2>1, <2>3 DEF Threaded!Register, Threaded!on_connected
    <3>2. callback[c] = "none" /\ feed[c] = "new"
      BY <2>1, <2>2, <3>1 DEF ClientT, Accepts
    <3> QED BY <1>1, <3>1, <3>2, BeginsInOrder
  <2>4. CASE Threaded!launch_client
    <3>1. callback' = [callback EXCEPT ![c] = "none"]
      BY <2>1, <2>4 DEF Threaded!launch_client, Threaded!Returned
    <3> QED BY <1>1, <3>1, BeginsInOrder
  <2>5. CASE Threaded!LaunchFailed
    <3>1. \/ callback' = [callback EXCEPT ![c] = "disconnected"] /\ acceptor.at = "notify"
          \/ callback' = [callback EXCEPT ![c] = "none"]
      BY <2>1, <2>5 DEF Threaded!LaunchFailed, Threaded!Returned, Threaded!on_disconnected
    <3>2. acceptor.at = "notify" => callback[c] = "none" /\ feed[c] = "connected"
      BY <2>1, <2>2 DEF ClientT, Accepts
    <3> QED BY <1>1, <3>1, <3>2, BeginsInOrder
  <2> QED BY <1>3, <2>3, <2>4, <2>5
<1>4. ASSUME NEW c \in Clients,
             Threaded!Read(c) \/ Threaded!ReadEnds(c) \/ Threaded!disconnect(c)
               \/ Threaded!DisconnectCloses(c) \/ \E a \in Callers : Threaded!send(a, c)
      PROVE  InOrder
  BY <1>4, NoCallback DEF Threaded!Read, Threaded!ReadEnds, Threaded!disconnect, Threaded!DisconnectCloses,
     Threaded!send
<1>5. ASSUME NEW c \in Clients, Threaded!DeliverLine(c) \/ Threaded!MessageReturns(c) \/ Threaded!run_client(c)
      PROVE  InOrder
  <2>1. \/ callback' = callback
        \/ callback' = [callback EXCEPT ![c] = "none"]
        \/ callback' = [callback EXCEPT ![c] = "message"] /\ thread[c] = "pop"
        \/ callback' = [callback EXCEPT ![c] = "disconnected"] /\ thread[c] = "notify"
    BY <1>5 DEF Threaded!DeliverLine, Threaded!MessageReturns, Threaded!run_client, Threaded!on_message,
       Threaded!on_disconnected, Threaded!Returned
  <2>2. thread[c] \in {"pop", "notify"} => callback[c] = "none" /\ feed[c] = "connected"
    <3>1. ClientT(c)
      BY DEF MainT
    <3>2. thread[c] # "none" => \A S : ~Accepts(S, c)
      BY <3>1 DEF ClientT, Accepts
    <3> QED BY <3>1, <3>2 DEF ClientT
  <2> QED BY <1>1, <2>1, <2>2, BeginsInOrder, NoCallback
<1>6. ASSUME NEW a \in Callers, Threaded!SendLocks(a) \/ Threaded!SendWrites(a) \/ Threaded!SendFails(a)
      PROVE  InOrder
  BY <1>6, NoCallback DEF Threaded!SendLocks, Threaded!SendWrites, Threaded!SendFails
<1> HIDE DEF Threaded!feedVars, Threaded!serverVars
<1> QED BY <1>2, <1>3, <1>4, <1>5, <1>6, ClientsT DEF Threaded!Next, Threaded!AcceptThread, Callers

\* The end of a callback scope, which tells the end that was left to it.
LEMMA EndInOrder ==
  ASSUME AllI, NEW a, NEW c \in Clients, Iocp!end_callback(a, c), callback[c] = "none", feed[c] = "connected"
  PROVE  InOrder
<1>1. FeedType
  BY DEF AllI, TypesI
<1>2. callback' = callback \/ callback' = [callback EXCEPT ![c] = "disconnected"]
  BY DEF Iocp!end_callback, Iocp!on_disconnected, Iocp!feedVars
<1> QED BY <1>1, <1>2, BeginsInOrder, NoCallback

LEMMA InOrderI ==
  ASSUME AllI, Iocp!Next
  PROVE  InOrder
<1> USE DEF Iocp!feedVars, Iocp!serverVars
<1>1. FeedType
  BY DEF AllI, TypesI
<1>2. CASE Iocp!start \/ Iocp!StopBegins \/ Iocp!stop \/ Iocp!accept_loop \/ Iocp!Admit \/ Iocp!FirstReceive
           \/ Iocp!idle_monitor_loop \/ Iocp!MonitorExits \/ Iocp!ConnectionSend \/ Iocp!SendFailed
  BY <1>2, NoCallback DEF Iocp!start, Iocp!StopBegins, Iocp!stop, Iocp!StopWaits, Iocp!close_all_connections,
     Iocp!wake_workers, Iocp!accept_loop, Iocp!Admit, Iocp!FirstReceive, Iocp!idle_monitor_loop,
     Iocp!MonitorExits, Iocp!ConnectionSend, Iocp!SendFailed
<1>3. CASE Iocp!Publish
  <2>1. PICK c \in Clients : c = acceptor.client /\ TokenI(c)
    BY <1>3, Announced DEF Iocp!Publish
  <2>2. callback' = [callback EXCEPT ![c] = "connected"] /\ acceptor.at = "publish"
    BY <1>3, <2>1 DEF Iocp!Publish, Iocp!on_connected
  <2>3. feed[c] = "new"
    BY <2>1, <2>2 DEF TokenI, Accepts
  <2> QED BY <1>1, <2>2, <2>3, NewClient, BeginsInOrder
<1>4. CASE Iocp!ConnectedReturns
  <2>1. PICK c \in Clients : c = acceptor.client /\ TokenI(c) /\ ScopeI(c) /\ TurnI(c)
    BY <1>4, Announced DEF Iocp!ConnectedReturns
  <2>2. CASE acceptor.at = "connected"
    <3>1. callback' = [callback EXCEPT ![c] = "none"]
      BY <1>4, <2>1, <2>2 DEF Iocp!ConnectedReturns, Iocp!Returned
    <3> QED BY <1>1, <3>1, BeginsInOrder
  <2>3. CASE acceptor.at # "connected"
    <3>1. Iocp!end_callback("accept", c) /\ acceptor.at = "leave"
      BY <1>4, <2>1, <2>3 DEF Iocp!ConnectedReturns
    <3>2. /\ InScope(c) /\ Accepts({"connected", "leave", "receive"}, c) /\ ~Accepts({"connected"}, c)
      BY <2>1, <3>1 DEF InScope, Accepts
    <3>3. feed[c] = "connected" /\ (\A a \in Actors : ~Tells(a, c)) /\ \A w \in Workers : ~Says(w, c)
      BY <2>1, <3>2 DEF ScopeI, TokenI, TurnI, Receives, Says, Actors
    <3>4. callback[c] = "none"
      BY <2>1, <3>2, <3>3 DEF ScopeI, Actors
    <3> QED BY <3>1, <3>3, <3>4, EndInOrder
  <2> QED BY <2>2, <2>3
<1>5. ASSUME NEW w \in Workers,
             \/ Iocp!WorkerDisconnects(w) \/ Iocp!Release(w) \/ Iocp!WorkerExits(w) \/ Iocp!BeginDelivery(w)
             \/ Iocp!PostReceive(w) \/ Iocp!complete_send(w)
             \/ \E c \in Clients : Iocp!ReceiveCompletes(w, c) \/ Iocp!SendCompletes(w, c)
      PROVE  InOrder
  BY <1>5, NoCallback DEF Iocp!WorkerDisconnects, Iocp!Release, Iocp!WorkerExits, Iocp!BeginDelivery,
     Iocp!PostReceive, Iocp!complete_send, Iocp!ReceiveCompletes, Iocp!SendCompletes
<1>6. ASSUME NEW w \in Workers, Iocp!PopLine(w) \/ Iocp!MessageReturns(w) \/ Iocp!EndDelivery(w)
      PROVE  InOrder
  <2>1. PICK c \in Clients : c = worker[w].client
    BY <1>6, AtWork DEF Iocp!PopLine, Iocp!MessageReturns, Iocp!EndDelivery, Busy
  <2>2. worker[w].at \in {"pop", "leave"} => callback[c] = "none" /\ feed[c] = "connected"
    BY <2>1, CallbackIs DEF Receiving, Scope
  <2>3. CASE Iocp!PopLine(w) \/ Iocp!MessageReturns(w)
    <3>1. \/ callback' = callback
          \/ callback' = [callback EXCEPT ![c] = "none"]
          \/ callback' = [callback EXCEPT ![c] = "message"] /\ worker[w].at = "pop"
      BY <2>1, <2>3 DEF Iocp!PopLine, Iocp!MessageReturns, Iocp!on_message, Iocp!Returned
    <3> QED BY <1>1, <2>2, <3>1, BeginsInOrder, NoCallback
  <2>4. CASE Iocp!EndDelivery(w)
    BY <2>1, <2>2, <2>4, EndInOrder DEF Iocp!EndDelivery
  <2> QED BY <1>6, <2>3, <2>4
<1>7. ASSUME NEW c \in Clients, Iocp!disconnect(c) \/ Iocp!send(c) PROVE InOrder
  BY <1>7, NoCallback DEF Iocp!disconnect, Iocp!send
<1>8. ASSUME NEW a \in Actors, Iocp!request_disconnect_notification(a) PROVE InOrder
  <2>1. PICK c \in Clients : c = ending[a].client
    BY <1>8 DEF AllI, FreeI, Quiet, Actors, Iocp!request_disconnect_notification
  <2>2. /\ Asks(a, c) /\ TokenI(c) /\ ScopeI(c)
        /\ \/ callback' = callback
           \/ callback' = [callback EXCEPT ![c] = "disconnected"] /\ active[c] = 0
    BY <1>8, <2>1 DEF Asks, AllI, TokensI, ScopesI, Iocp!request_disconnect_notification, Iocp!on_disconnected
  <2>3. feed[c] = "connected" /\ \A b \in Actors : ~Tells(b, c)
    BY <2>2 DEF TokenI, Actors
  <2>4. active[c] = 0 => callback[c] = "none"
    <3> SUFFICES ASSUME active[c] = 0 PROVE callback[c] = "none"
      OBVIOUS
    <3>1. ~InScope(c)
      BY <2>2 DEF ScopeI
    <3> QED BY <2>2, <2>3, <3>1, NoScope DEF ScopeI, Actors
  <2> QED BY <1>1, <2>2, <2>3, <2>4, BeginsInOrder, NoCallback
<1>9. ASSUME NEW a \in Actors, Iocp!NotifyReturns(a) PROVE InOrder
  BY <1>1, <1>9, BeginsInOrder DEF Iocp!NotifyReturns, Iocp!Returned
<1> HIDE DEF Iocp!feedVars, Iocp!serverVars
<1> QED BY <1>2, <1>3, <1>4, <1>5, <1>6, <1>7, <1>8, <1>9, ClientsI
        DEF Iocp!Next, Iocp!AcceptThread, Iocp!WorkerSteps, Iocp!Completions, Iocp!Disconnects, Actors

\* What ITcpServer's callbacks promise the runtime, from either backend: a
\* connection is announced first, its messages come one after another, its end
\* is told once and last, and no two callbacks of it run at once.
THEOREM CallbacksComeInOrder == Spec => CallbacksInOrder
<1>1. Inv /\ [Next]_vars => [InOrder]_serverVars
  <2>1. ASSUME Inv, Next PROVE InOrder
    <3>1. CASE ThreadedStep
      BY <2>1, <3>1, PartsT, InOrderT DEF Inv, ThreadedStep
    <3>2. CASE IocpStep
      BY <2>1, <3>2, PartsI, InOrderI DEF Inv, IocpStep
    <3> QED BY <2>1, <3>1, <3>2 DEF Next
  <2>2. UNCHANGED vars => UNCHANGED serverVars
    BY DEF vars
  <2> QED BY <2>1, <2>2
<1>2. Spec => [][InOrder]_serverVars
  BY <1>1, Invariant, PTL DEF Spec
<1> QED BY <1>2 DEF CallbacksInOrder, InOrder
=============================================================================
