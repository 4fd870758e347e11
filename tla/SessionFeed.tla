----------------------------- MODULE SessionFeed -----------------------------
(***************************************************************************)
(* What the server host promises the application that polls it, without    *)
(* saying how: events are numbered without a gap; each session is          *)
(* announced at most once, speaks only between its OPEN and its CLOSE and  *)
(* closes once; and after a terminal answer (OVERFLOW, or STOPPED) there   *)
(* are no more events.  A session whose OPEN was delivered may be left     *)
(* without its CLOSE in two cases only: the application was told of the    *)
(* overflow, or the shutdown was a forced one.                             *)
(***************************************************************************)
EXTENDS Naturals

CONSTANT Sessions

VARIABLES
  view,       \* what the application knows of each session
  delivered,  \* the number of the last event it got
  latest,     \* the kind and the session of that event
  terminal,   \* "live", or the last terminal answer a poll returned
  forced      \* whether the transport was shut down by force

fvars == <<view, delivered, latest, terminal, forced>>

FeedInit ==
  /\ view = [s \in Sessions |-> "unknown"]
  /\ delivered = 0
  /\ latest = [kind |-> "None"]
  /\ terminal = "live"
  /\ forced = FALSE

\* The next event in order; none follows a terminal answer.
Deliver(kind, s) ==
  /\ terminal = "live"
  /\ delivered' = delivered + 1
  /\ latest' = [kind |-> kind, peer |-> s]
  /\ UNCHANGED <<terminal, forced>>

DeliverOpen(s) ==
  /\ view[s] = "unknown"
  /\ Deliver("Open", s)
  /\ view' = [view EXCEPT ![s] = "open"]

DeliverMessage(s) ==
  /\ view[s] = "open"
  /\ Deliver("Message", s) \/ Deliver("HttpRequest", s)
  /\ UNCHANGED view

DeliverClose(s) ==
  /\ view[s] = "open"
  /\ Deliver("Close", s)
  /\ view' = [view EXCEPT ![s] = "closed"]

\* An error is about a listener, never about a session.
DeliverError ==
  /\ Deliver("Error", 0)
  /\ UNCHANGED view

\* The events lost to the overflow leave a gap before it.
ReportOverflow ==
  /\ terminal = "live"
  /\ delivered' > delivered
  /\ latest' = [kind |-> "Overflow"]
  /\ terminal' = "overflow"
  /\ UNCHANGED <<view, forced>>

ReportStopped ==
  /\ \/ terminal \in {"overflow", "stopped"}
     \/ \A s \in Sessions : view[s] # "open"
     \/ forced
  /\ terminal' = "stopped"
  /\ UNCHANGED <<view, delivered, latest, forced>>

ForceShutdown ==
  /\ forced' = TRUE
  /\ UNCHANGED <<view, delivered, latest, terminal>>

FeedNext ==
  \/ \E s \in Sessions : DeliverOpen(s) \/ DeliverMessage(s) \/ DeliverClose(s)
  \/ DeliverError
  \/ ReportOverflow
  \/ ReportStopped
  \/ ForceShutdown

FeedSpec == FeedInit /\ [][FeedNext]_fvars
=============================================================================
