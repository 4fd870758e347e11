----------------------------- MODULE LineFramer -----------------------------
(***************************************************************************)
(* Splitting a TCP byte stream into lines (src/Net/Detail/LineFramer.h),   *)
(* as operators on the state of one framer, and what the lines of a stream *)
(* are, however it is cut into reads.                                      *)
(***************************************************************************)
EXTENDS Naturals, Sequences, FiniteSets, Functions

LF == "LF"
CR == "CR"

\* pending holds the bytes of the reads, of which the first consumed ones were
\* popped; lineBytes counts the bytes since the last LF.
EmptyFramer == [pending |-> <<>>, consumed |-> 0, lineBytes |-> 0, failed |-> FALSE]

\* Wrong variant of Count: the limit is off by one.
CountOneMore(max, byte, line) ==
  IF byte = LF THEN [line EXCEPT !.bytes = 0]
  ELSE IF line.bytes = max + 1 THEN [line EXCEPT !.failed = TRUE]
  ELSE [line EXCEPT !.bytes = @ + 1]

\* The limit counts the bytes before LF, a CR included.
Count(max, byte, line) ==
  IF byte = LF THEN [line EXCEPT !.bytes = 0]
  ELSE IF line.bytes = max THEN [line EXCEPT !.failed = TRUE]
  ELSE [line EXCEPT !.bytes = @ + 1]

\* The loop over the bytes of a read ends at the first byte over the limit.
CountAll(line, bytes, max) ==
  LET after[i \in 0..Len(bytes)] ==
        IF i = 0 THEN line
        ELSE IF after[i - 1].failed THEN after[i - 1]
        ELSE Count(max, bytes[i], after[i - 1])
  IN  after[Len(bytes)]

\* A failed append is terminal and stores nothing of the read.
append(f, bytes, max) ==
  LET line == CountAll([bytes |-> f.lineBytes, failed |-> f.failed], bytes, max)
  IN  IF line.failed
      THEN [f EXCEPT !.failed = TRUE, !.lineBytes = line.bytes]
      ELSE [pending |-> SubSeq(f.pending, f.consumed + 1, Len(f.pending)) \o bytes,
            consumed |-> 0, lineBytes |-> line.bytes, failed |-> FALSE]

Newlines(f) == {i \in (f.consumed + 1)..Len(f.pending) : f.pending[i] = LF}

CanPop(f) == ~f.failed /\ Newlines(f) # {}

StripCR(line) ==
  IF line # <<>> /\ line[Len(line)] = CR THEN SubSeq(line, 1, Len(line) - 1) ELSE line

\* The line try_pop returns, and the framer after it.
Newline(f) == CHOOSE i \in Newlines(f) : \A j \in Newlines(f) : i <= j
Popped(f) == StripCR(SubSeq(f.pending, f.consumed + 1, Newline(f) - 1))
try_pop(f) == [f EXCEPT !.consumed = Newline(f)]
-----------------------------------------------------------------------------
\* Reference: the n-th line of a whole stream is what lies between the LF
\* before it and its own, without a trailing CR.
LineEnd(stream, n) ==
  IF n = 0 THEN 0
  ELSE CHOOSE i \in DOMAIN stream :
         stream[i] = LF /\ Cardinality({j \in 1..i : stream[j] = LF}) = n

LineOf(stream, n) == SubSeq(stream, LineEnd(stream, n - 1) + 1, LineEnd(stream, n) - 1)

\* Wrapping is allowed only by the limit: lines are the stream's own lines, in
\* order, none longer than max.
AreLinesOf(lines, stream, max) ==
  \A n \in DOMAIN lines :
    /\ lines[n] = StripCR(LineOf(stream, n))
    /\ Len(LineOf(stream, n)) <= max
=============================================================================
