---------------------------- MODULE RedisContract ----------------------------
(***************************************************************************)
(* What the asynchronous Redis service promises a caller, without workers, *)
(* sockets or budgets.  Requests are accepted with increasing ids and      *)
(* answered and read in that order, none of them lost.  A write takes      *)
(* effect at most once, in its turn, and its answer tells the truth for    *)
(* good: only after OUTCOME_UNKNOWN may it still take effect.              *)
(***************************************************************************)
EXTENDS Naturals

CONSTANT Requests

VARIABLES
  kind,    \* of each request: none, GET, WRITE
  phase,   \* free, pending, answered, read
  effect,  \* of a write on the database: none or once
  status,  \* its answer, "none" while it is pending
  ended    \* whether a poll returned STOPPED

cvars == <<kind, phase, effect, status, ended>>

ContractInit ==
  /\ kind = [r \in Requests |-> "none"]
  /\ phase = [r \in Requests |-> "free"]
  /\ effect = [r \in Requests |-> "none"]
  /\ status = [r \in Requests |-> "none"]
  /\ ended = FALSE

\* No earlier request is in one of the given phases.
NoneBefore(r, phases) == \A q \in Requests : q < r => phase[q] \notin phases

Accept(r, k) ==
  /\ ~ended
  /\ phase[r] = "free"
  /\ NoneBefore(r, {"free"})
  /\ phase' = [phase EXCEPT ![r] = "pending"]
  /\ kind' = [kind EXCEPT ![r] = k]
  /\ UNCHANGED <<effect, status, ended>>

\* In its turn, or at any time after an answer that left it open.
TakeEffect(r) ==
  /\ kind[r] = "WRITE"
  /\ effect[r] = "none"
  /\ \/ phase[r] = "pending" /\ NoneBefore(r, {"pending"})
     \/ status[r] = "OUTCOME_UNKNOWN"
  /\ effect' = [effect EXCEPT ![r] = "once"]
  /\ UNCHANGED <<kind, phase, status, ended>>

\* What an answer may say of a write.
Truthful(r, s) ==
  \/ s = "OK" /\ effect[r] = "once"
  \/ s = "OUTCOME_UNKNOWN"
  \/ s \notin {"OK", "OUTCOME_UNKNOWN"} /\ effect[r] = "none"

Answer(r, s) ==
  /\ phase[r] = "pending"
  /\ NoneBefore(r, {"pending"})
  /\ IF kind[r] = "WRITE" THEN Truthful(r, s) ELSE s # "OUTCOME_UNKNOWN"
  /\ phase' = [phase EXCEPT ![r] = "answered"]
  /\ status' = [status EXCEPT ![r] = s]
  /\ UNCHANGED <<kind, effect, ended>>

Read(r) ==
  /\ phase[r] = "answered"
  /\ NoneBefore(r, {"answered"})
  /\ phase' = [phase EXCEPT ![r] = "read"]
  /\ UNCHANGED <<kind, effect, status, ended>>

End ==
  /\ \A r \in Requests : phase[r] \notin {"pending", "answered"}
  /\ ended' = TRUE
  /\ UNCHANGED <<kind, phase, effect, status>>

Statuses == {"OK", "STOPPED", "TIMEOUT", "IO_ERROR", "INTERNAL_ERROR", "RESULT_TOO_LARGE",
             "OUTCOME_UNKNOWN"}

ContractNext ==
  \/ \E r \in Requests :
       \/ \E k \in {"GET", "WRITE"} : Accept(r, k)
       \/ \E s \in Statuses : Answer(r, s)
       \/ TakeEffect(r) \/ Read(r)
  \/ End

Contract == ContractInit /\ [][ContractNext]_cvars
=============================================================================
