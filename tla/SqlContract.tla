----------------------------- MODULE SqlContract -----------------------------
(***************************************************************************)
(* What the asynchronous SQL service promises a caller, without workers,   *)
(* transactions or budgets.  An accepted request takes effect at most once *)
(* and as a whole, in the order of acceptance, before it is answered; its  *)
(* one answer tells the truth about the effect; and answers are read in    *)
(* order, none of them lost, before the service says that it stopped.      *)
(***************************************************************************)
EXTENDS Naturals

CONSTANT Requests

VARIABLES
  phase,   \* of each request: free, pending, answered, read, released
  effect,  \* what the database keeps of it: none or all
  status,  \* its answer, "none" while it is pending
  ended    \* whether a poll returned STOPPED

cvars == <<phase, effect, status, ended>>

ContractInit ==
  /\ phase = [r \in Requests |-> "free"]
  /\ effect = [r \in Requests |-> "none"]
  /\ status = [r \in Requests |-> "none"]
  /\ ended = FALSE

\* No earlier request is in phase p.
NoneBefore(r, p) == \A q \in Requests : q < r => phase[q] # p

Accept(r) ==
  /\ ~ended
  /\ phase[r] = "free"
  /\ \A q \in Requests : q > r => phase[q] = "free"
  /\ phase' = [phase EXCEPT ![r] = "pending"]
  /\ UNCHANGED <<effect, status, ended>>

TakeEffect(r) ==
  /\ phase[r] = "pending"
  /\ effect[r] = "none"
  /\ NoneBefore(r, "pending")
  /\ effect' = [effect EXCEPT ![r] = "all"]
  /\ UNCHANGED <<phase, status, ended>>

\* What an answer may say: OK only of a request that took effect, and only
\* OUTCOME_UNKNOWN leaves open whether it did.
Truthful(r, s) ==
  \/ s = "OK" /\ effect[r] = "all"
  \/ s = "OUTCOME_UNKNOWN"
  \/ s \in {"CANCELLED", "TIMEOUT", "ERROR", "INVALID_STATE"} /\ effect[r] = "none"

Answer(r, s) ==
  /\ phase[r] = "pending"
  /\ NoneBefore(r, "pending")
  /\ Truthful(r, s)
  /\ phase' = [phase EXCEPT ![r] = "answered"]
  /\ status' = [status EXCEPT ![r] = s]
  /\ UNCHANGED <<effect, ended>>

Read(r) ==
  /\ phase[r] = "answered"
  /\ NoneBefore(r, "answered")
  /\ phase' = [phase EXCEPT ![r] = "read"]
  /\ UNCHANGED <<effect, status, ended>>

Release(r) ==
  /\ phase[r] = "read"
  /\ phase' = [phase EXCEPT ![r] = "released"]
  /\ UNCHANGED <<effect, status, ended>>

End ==
  /\ \A r \in Requests : phase[r] \notin {"pending", "answered"}
  /\ ended' = TRUE
  /\ UNCHANGED <<phase, effect, status>>

Statuses == {"OK", "CANCELLED", "TIMEOUT", "ERROR", "OUTCOME_UNKNOWN", "INVALID_STATE"}

ContractNext ==
  \/ \E r \in Requests :
       \/ Accept(r) \/ TakeEffect(r) \/ Read(r) \/ Release(r)
       \/ \E s \in Statuses : Answer(r, s)
  \/ End

Contract == ContractInit /\ [][ContractNext]_cvars
=============================================================================
