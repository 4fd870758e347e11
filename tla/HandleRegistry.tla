--------------------------- MODULE HandleRegistry ---------------------------
(***************************************************************************)
(* One server handle of the C interface over the host it names:            *)
(* src/Abi/HandleRegistry.cpp, and the exported calls of Lifecycle.cpp,    *)
(* Messaging.cpp and Http.cpp.                                             *)
(*                                                                         *)
(* A handle is a number.  Every call first looks it up under the           *)
(* registry's lock and gets a shared_ptr, which it keeps until it returns; *)
(* the host's own locks come later, so another thread can destroy the      *)
(* handle in between.  destroy takes the entry out of the table, stops the *)
(* host and drops its reference; the last reference to go frees the host.  *)
(*                                                                         *)
(* The model starts after se_server_create.  Handle numbers are never      *)
(* reused, so one handle is enough.                                        *)
(***************************************************************************)
EXTENDS ServerHost

ASSUME ThreadsAssumption == IsFiniteSet(Threads)

VARIABLES
  registered,  \* the handle is in registry().hosts
  inside,      \* what each thread does with the host it looked up
  useCount     \* use_count() of the host's shared_ptr

handleVars == <<registered, inside, useCount>>
abiVars == <<vars, handleVars>>

HandleTypeOK ==
  /\ TypeOK
  /\ registered \in BOOLEAN
  /\ inside \in [Threads -> {"out", "call", "destroy"}]
  /\ useCount \in 0..(Cardinality(Threads) + 1)

\* se_server_create: the registry holds the only reference.
AbiInit ==
  /\ Init
  /\ registered = TRUE
  /\ inside = [t \in Threads |-> "out"]
  /\ useCount = 1
-----------------------------------------------------------------------------
find_host(t) ==
  /\ inside[t] = "out"
  /\ registered
  /\ inside' = [inside EXCEPT ![t] = "call"]
  /\ useCount' = useCount + 1
  /\ UNCHANGED <<vars, registered>>

\* Any call, destroy included, with a handle that is gone: SE_INVALID_HANDLE.
UnknownHandle(t) ==
  /\ inside[t] = "out"
  /\ ~registered
  /\ UNCHANGED abiVars

\* The entry leaves the table and its reference moves to the caller.
remove_host(t) ==
  /\ inside[t] = "out"
  /\ registered
  /\ registered' = FALSE

\* Wrong variant of se_server_destroy: stopping is left to the destructor.
DestroyOnly(t) ==
  /\ remove_host(t)
  /\ useCount' = useCount - 1
  /\ UNCHANGED <<vars, inside>>

\* Out of the table first, then into ServerHost::stop.
se_server_destroy(t) ==
  /\ remove_host(t)
  /\ inside' = [inside EXCEPT ![t] = "destroy"]
  /\ CallStop(t)
  /\ UNCHANGED useCount

\* The call returns and its shared_ptr goes.
Release(t) ==
  /\ inside' = [inside EXCEPT ![t] = "out"]
  /\ useCount' = useCount - 1
  /\ UNCHANGED registered

\* A call is over when its thread is out of the host again.
ReleaseOnReturn(t) == IF pc'[t] = "idle" THEN Release(t) ELSE UNCHANGED handleVars

\* The exported calls on the host they found, to the point where each returns
\* or waits.
Found(t) == inside[t] = "call" /\ pc[t] = "idle"

se_server_add_listener(t) == Found(t) /\ add_listener(t) /\ ReleaseOnReturn(t)
se_server_start(t) == Found(t) /\ start(t) /\ ReleaseOnReturn(t)
se_server_stop(t) == Found(t) /\ CallStop(t) /\ ReleaseOnReturn(t)
se_server_send(t, s) == Found(t) /\ Call(t, "send", s) /\ ReleaseOnReturn(t)
se_http_respond(t, s) == Found(t) /\ Call(t, "send", s) /\ ReleaseOnReturn(t)
se_server_disconnect(t, s) == Found(t) /\ Call(t, "disconnect", s) /\ ReleaseOnReturn(t)
se_server_poll_event(t) == Found(t) /\ poll(t) /\ ReleaseOnReturn(t)

\* Any of them refused after the lookup: an argument out of its limits
\* (decode_response and the like), a host in the wrong state, an overflow, a
\* poll that times out or has too small a buffer.
Refused(t) ==
  /\ Found(t)
  /\ Release(t)
  /\ UNCHANGED vars

\* A stop that has the lock to come, and a call that has it.
StopCall(t) == inside[t] # "out" /\ stop(t) /\ ReleaseOnReturn(t)
Proceed(t) == inside[t] # "out" /\ Continue(t) /\ ReleaseOnReturn(t)

HandlerRuns == HandlerStep /\ UNCHANGED handleVars
CommandRuns == CommandStep /\ UNCHANGED handleVars

AbiNext ==
  \/ Network /\ UNCHANGED handleVars
  \/ HandlerRuns
  \/ CommandRuns
  \/ \E t \in Threads :
       \/ find_host(t) \/ UnknownHandle(t) \/ Refused(t)
       \/ se_server_add_listener(t) \/ se_server_start(t) \/ se_server_poll_event(t)
       \/ se_server_stop(t) \/ se_server_destroy(t)
       \/ \E s \in Sessions :
            se_server_send(t, s) \/ se_http_respond(t, s) \/ se_server_disconnect(t, s)
       \/ StopCall(t) \/ Proceed(t)

AbiSpec == AbiInit /\ [][AbiNext]_abiVars

\* As in ServerHost: the worker runs its handlers and the posted command, and
\* a thread inside a call goes on.
AbiFairSpec ==
  /\ AbiSpec
  /\ WF_abiVars(HandlerRuns)
  /\ SF_abiVars(CommandRuns)
  /\ \A t \in Threads : WF_abiVars(Proceed(t))
-----------------------------------------------------------------------------
\* destroy has returned.
Destroyed == ~registered /\ \A t \in Threads : inside[t] # "destroy"

\* When destroy returns the host is stopped and its worker joined, and it stays
\* so although calls that found the host earlier still run (one may be about
\* to start it); the host is freed only when no call is inside, and its
\* destructor, which may run on any thread, finds nothing left to stop.
DestroyIsFinal ==
  /\ HandleTypeOK
  /\ Destroyed => hostState = "Stopped" /\ ~running /\ connections = {}
  /\ useCount = 0 <=> Destroyed /\ \A t \in Threads : inside[t] = "out"
  /\ useCount = 0 => lifecycle = NoThread /\ tasks = <<>>
=============================================================================
