------------------------- MODULE LineRuntimeProofs -------------------------
(***************************************************************************)
(* Proofs about the runtime above the line servers: sessions are exact,    *)
(* the handler hears of them in order, and only users are answered, for    *)
(* every number of listeners, connections, sessions, messages and starts.  *)
(***************************************************************************)
EXTENDS LineRuntime, FiniteSetTheorems, TLAPS

\* The session a connection holds: the one it is mapped to, or the one its
\* callback is about to map or has just unmapped.
Unmapped == {"map", "dispatch stop", "remove"}
Mapped == {"dispatch start", "dispatch", "handler", "reply"}
Held(c) == IF conn[c].at \in Unmapped THEN conn[c].session ELSE sessions[c]

\* Where the callback is says which of conn and sessions names the session.
CallbackAt(c) ==
  /\ conn[c].at \in {"new", "accepted", "admit", "gone"} => sessions[c] = 0
  /\ conn[c].at \in Unmapped => sessions[c] = 0 /\ conn[c].session # 0
  /\ conn[c].at \in Mapped => sessions[c] # 0 /\ conn[c].session = sessions[c]

\* A transport that is down has no callback and no session.
DownAt(c) ==
  transport[c[1]] = "down" => sessions[c] = 0 /\ conn[c].at \in {"new", "open", "gone"}

\* The handler knows a session whose start was dispatched while the server ran.
ToldAt(c) ==
  Held(c) # 0 =>
    /\ conn[c].at \in {"map", "dispatch start"} => told[Held(c)] = "none"
    /\ running /\ conn[c].at \notin {"map", "dispatch start", "remove"} => told[Held(c)] = "started"

\* A session becomes a user through its own connection's token only.
AuthAt(c) ==
  /\ Held(c) # 0 /\ hub[Held(c)].authenticated => c \in proved
  /\ conn[c].at \in {"dispatch", "handler"} /\ conn[c].data = "auth" => c \in proved
  /\ RequireAuth /\ conn[c].at = "reply" /\ conn[c].data = "answer" => c \in proved

ConnAt(c) == CallbackAt(c) /\ DownAt(c) /\ ToldAt(c) /\ AuthAt(c)

\* The entries of the hub are the sessions held, each by one connection.
HeldInv ==
  /\ \A c \in Conns : Held(c) # 0 => Held(c) \in Entries
  /\ \A c, d \in Conns : Held(c) # 0 /\ Held(c) = Held(d) => c = d
  /\ \A s \in Entries : \E c \in Conns : Held(c) = s

\* Ids that were not given out are in no table, and the limit holds.
FreshInv ==
  /\ \A s \in SessionIds : s >= nextSession => s \notin Entries /\ told[s] = "none"
  /\ Cardinality(Entries) <= MaxSessions

\* The owner's place, the flag and the transports agree.
OwnerInv ==
  /\ running <=> owner \in {"starting", "idle"}
  /\ \A l \in Listeners :
       /\ owner = "stopped" => transport[l] = "down"
       /\ owner = "starting" /\ l \in todo => transport[l] = "down"
       /\ transport[l] = "stopping" => owner = "stopping"
       /\ owner = "stopping" => (l \in todo <=> transport[l] # "down")

Inv ==
  /\ TypeOK /\ OwnerInv /\ HeldInv /\ FreshInv
  /\ \A c \in Conns : ConnAt(c)
  /\ OnlyUsersAreAnswered

ConnType == [at : Where, session : 0..MaxSessionId, data : Requests \cup Replies \cup {"none"}]
EntryType == [present : BOOLEAN, authenticated : BOOLEAN]
-----------------------------------------------------------------------------
\* The listener of a connection, and the ids.
LEMMA Constants ==
  /\ \A c \in Conns : c[1] \in Listeners
  /\ MaxSessionId \in Nat /\ MaxSessions \in Nat /\ SessionIds \subseteq Nat /\ 0 \notin SessionIds
  /\ SessionIds \cup {0} = 0..MaxSessionId
BY RuntimeAssumption DEF SessionIds

\* The places of a callback, the requests and the replies.
LEMMA Places ==
  /\ \A at \in {"new", "accepted", "admit", "map", "dispatch start", "dispatch", "handler",
                "reply", "dispatch stop", "remove", "open", "gone"} : at \in Where
  /\ \A d \in {"auth", "wrong auth", "text", "notice", "answer", "none"} :
        d \in Requests \cup Replies \cup {"none"}
BY DEF Where, InCallback, Requests, Replies

\* What a connection holds is an id or nothing.
LEMMA HeldType ==
  ASSUME TypeOK, NEW c \in Conns
  PROVE  /\ conn[c] \in ConnType /\ sessions[c] \in 0..MaxSessionId
         /\ Held(c) \in 0..MaxSessionId
         /\ Held(c) # 0 => Held(c) \in SessionIds
BY Constants DEF TypeOK, ConnType, Held

\* The hub is finite.
LEMMA EntriesFinite == IsFiniteSet(Entries) /\ Cardinality(Entries) \in Nat
<1>1. IsFiniteSet(SessionIds)
  BY FS_Interval, Constants DEF SessionIds
<1>2. Entries \in SUBSET SessionIds
  BY DEF Entries
<1> QED  BY <1>1, <1>2, FS_Subset, FS_CardinalityType

\* A step of connection c changes nothing of the others.
Others(c) ==
  /\ \A d \in Conns \ {c} : conn'[d] = conn[d] /\ sessions'[d] = sessions[d]
  /\ \A d \in Conns \ {c} : Held(d) # 0 => told'[Held(d)] = told[Held(d)] /\ hub'[Held(d)] = hub[Held(d)]
  /\ proved \subseteq proved'
  /\ UNCHANGED ownerVars

\* The other connections keep their part of the invariant.
LEMMA OthersKeep ==
  ASSUME \A d \in Conns : ConnAt(d), NEW c \in Conns, Others(c), ConnAt(c)'
  PROVE  /\ \A d \in Conns : ConnAt(d)'
         /\ \A d \in Conns \ {c} : Held(d)' = Held(d)
<1>1. \A d \in Conns \ {c} : Held(d)' = Held(d)
  BY DEF Others, Held
<1>2. ASSUME NEW d \in Conns \ {c} PROVE ConnAt(d)'
  <2>1. ConnAt(d) /\ Held(d)' = Held(d) /\ conn'[d] = conn[d] /\ sessions'[d] = sessions[d]
    BY <1>1 DEF Others
  <2>2. CallbackAt(d)' /\ DownAt(d)'
    BY <2>1 DEF Others, ConnAt, CallbackAt, DownAt, ownerVars
  <2>3. ToldAt(d)'
    BY <2>1 DEF Others, ConnAt, ToldAt, ownerVars
  <2>4. AuthAt(d)'
    BY <2>1 DEF Others, ConnAt, AuthAt
  <2> QED  BY <2>2, <2>3, <2>4 DEF ConnAt
<1> QED  BY <1>1, <1>2

\* A step that moves no session between connections keeps the hub in order.
LEMMA SameHeld ==
  ASSUME HeldInv, FreshInv, \A d \in Conns : Held(d)' = Held(d), Entries' = Entries,
         nextSession' = nextSession,
         \A s \in SessionIds : s >= nextSession => told'[s] = told[s]
  PROVE  HeldInv' /\ FreshInv'
BY DEF HeldInv, FreshInv

\* The connection's own session is not another's.
LEMMA HeldApart ==
  ASSUME HeldInv, NEW c \in Conns, NEW d \in Conns \ {c}, Held(d) # 0
  PROVE  Held(d) # Held(c)
BY DEF HeldInv

\* The owner's state is kept by every step of a connection.
LEMMA OwnerKept == ASSUME OwnerInv, UNCHANGED ownerVars PROVE OwnerInv'
BY DEF OwnerInv, ownerVars
-----------------------------------------------------------------------------
\* A step of connection c that moves its callback between two places where it
\* holds the same session, and touches no other session, keeps the invariant.
LEMMA MoveKeeps ==
  ASSUME Inv, NEW c \in Conns,
         UNCHANGED <<ownerVars, nextSession>>,
         conn' \in [Conns -> ConnType], sessions' \in [Conns -> 0..MaxSessionId],
         hub' \in [SessionIds -> EntryType],
         told' \in [SessionIds -> {"none", "started", "stopped"}],
         messages' \in 0..MaxMessages, proved' \subseteq Conns, echoed' \subseteq Conns,
         proved \subseteq proved',
         \A d \in Conns \ {c} : conn'[d] = conn[d] /\ sessions'[d] = sessions[d],
         \A s \in SessionIds \ {Held(c)} : hub'[s] = hub[s] /\ told'[s] = told[s],
         \A s \in SessionIds : hub'[s].present = hub[s].present,
         Held(c)' = Held(c), ConnAt(c)', OnlyUsersAreAnswered'
  PROVE  Inv'
<1>1. Others(c)
  BY HeldApart, HeldType DEF Others, Inv
<1>2. (\A d \in Conns : ConnAt(d)') /\ \A d \in Conns : Held(d)' = Held(d)
  BY <1>1, OthersKeep DEF Inv
<1>3. Entries' = Entries
  BY DEF Entries
<1>4. \A s \in SessionIds : s >= nextSession => told'[s] = told[s]
  BY Constants DEF Inv, FreshInv, HeldInv
<1>5. HeldInv' /\ FreshInv'
  BY <1>2, <1>3, <1>4, SameHeld DEF Inv
<1>6. TypeOK'
  BY DEF Inv, TypeOK, ownerVars, ConnType, EntryType
<1> QED  BY <1>2, <1>5, <1>6, OwnerKept DEF Inv

\* A callback that goes to its next place keeps its session and its data.
LEMMA GoesTo ==
  ASSUME TypeOK, NEW c \in Conns, NEW at \in Where, Goes(c, at)
  PROVE  /\ conn' \in [Conns -> ConnType]
         /\ \A d \in Conns \ {c} : conn'[d] = conn[d]
         /\ conn'[c].at = at /\ conn'[c].session = conn[c].session /\ conn'[c].data = conn[c].data
BY DEF TypeOK, ConnType, Goes

\* A callback that returns forgets them.
LEMMA ReturnsTo ==
  ASSUME TypeOK, NEW c \in Conns, NEW at \in Where, Returns(c, at)
  PROVE  /\ conn' \in [Conns -> ConnType]
         /\ \A d \in Conns \ {c} : conn'[d] = conn[d]
         /\ conn'[c].at = at /\ conn'[c].session = 0 /\ conn'[c].data = "none"
BY Constants, Places DEF TypeOK, ConnType, Returns, NoConn

\* What the proofs of the steps start from.
LEMMA AtConn ==
  ASSUME Inv, NEW c \in Conns
  PROVE  /\ TypeOK /\ CallbackAt(c) /\ DownAt(c) /\ ToldAt(c) /\ AuthAt(c)
         /\ OnlyUsersAreAnswered
         /\ conn[c] \in ConnType /\ sessions[c] \in 0..MaxSessionId
         /\ Held(c) # 0 => Held(c) \in SessionIds /\ hub[Held(c)].present
         /\ hub \in [SessionIds -> EntryType]
BY HeldType DEF Inv, ConnAt, HeldInv, Entries, TypeOK, EntryType

\* A client is let in.
LEMMA AcceptingKeeps ==
  ASSUME Inv, NEW c \in Conns, on_accepting(c) PROVE Inv'
<1>1. /\ conn[c].at = "new" /\ transport[c[1]] = "up" /\ Goes(c, "accepted")
      /\ UNCHANGED <<ownerVars, sessions, hub, nextSession, messages, historyVars>>
  BY DEF on_accepting
<1>2. /\ conn' \in [Conns -> ConnType] /\ \A d \in Conns \ {c} : conn'[d] = conn[d]
      /\ conn'[c].at = "accepted"
  BY <1>1, AtConn, GoesTo, Places
<1>3. CallbackAt(c)' /\ Held(c)' = Held(c) /\ Held(c) = 0
  BY <1>1, <1>2, AtConn DEF CallbackAt, Held, Unmapped, Mapped
<1>4. DownAt(c)' /\ ToldAt(c)' /\ AuthAt(c)'
  BY <1>1, <1>2, <1>3, AtConn DEF DownAt, ToldAt, AuthAt, ownerVars
<1> QED
  BY <1>1, <1>2, <1>3, <1>4, AtConn, MoveKeeps DEF ConnAt, TypeOK, historyVars, OnlyUsersAreAnswered

\* The transport could not set up the connection it accepted.
LEMMA SetupFailsKeeps ==
  ASSUME Inv, NEW c \in Conns, SetupFails(c) PROVE Inv'
<1>1. /\ conn[c].at = "accepted" /\ Goes(c, "gone")
      /\ UNCHANGED <<ownerVars, sessions, hub, nextSession, messages, historyVars>>
  BY DEF SetupFails
<1>2. /\ conn' \in [Conns -> ConnType] /\ \A d \in Conns \ {c} : conn'[d] = conn[d]
      /\ conn'[c].at = "gone"
  BY <1>1, AtConn, GoesTo, Places
<1>3. CallbackAt(c)' /\ Held(c)' = Held(c) /\ Held(c) = 0
  BY <1>1, <1>2, AtConn DEF CallbackAt, Held, Unmapped, Mapped
<1>4. DownAt(c)' /\ ToldAt(c)' /\ AuthAt(c)'
  BY <1>1, <1>2, <1>3, AtConn DEF DownAt, ToldAt, AuthAt, ownerVars
<1> QED
  BY <1>1, <1>2, <1>3, <1>4, AtConn, MoveKeeps DEF ConnAt, TypeOK, historyVars, OnlyUsersAreAnswered

\* on_connected admits the client, or leaves it to be disconnected.
LEMMA ConnectedKeeps ==
  ASSUME Inv, NEW c \in Conns, on_connected(c) PROVE Inv'
<1>1. /\ conn[c].at = "accepted"
      /\ Goes(c, IF running THEN "admit" ELSE "open")
      /\ UNCHANGED <<ownerVars, sessions, hub, nextSession, messages, historyVars>>
  BY DEF on_connected
<1>2. /\ conn' \in [Conns -> ConnType] /\ \A d \in Conns \ {c} : conn'[d] = conn[d]
      /\ conn'[c].at \in {"admit", "open"}
  <2>1. (IF running THEN "admit" ELSE "open") \in Where
    BY Places
  <2> QED  BY <1>1, <2>1, AtConn, GoesTo
<1>3. CallbackAt(c)' /\ Held(c)' = Held(c) /\ Held(c) = 0
  BY <1>1, <1>2, AtConn DEF CallbackAt, Held, Unmapped, Mapped
<1>4. DownAt(c)' /\ ToldAt(c)' /\ AuthAt(c)'
  BY <1>1, <1>2, <1>3, AtConn DEF DownAt, ToldAt, AuthAt, ownerVars
<1> QED
  BY <1>1, <1>2, <1>3, <1>4, AtConn, MoveKeeps DEF ConnAt, TypeOK, historyVars, OnlyUsersAreAnswered

\* The session is mapped to its connection.
LEMMA MapSessionKeeps ==
  ASSUME Inv, NEW c \in Conns, MapSession(c) PROVE Inv'
<1>1. /\ conn[c].at = "map" /\ Goes(c, "dispatch start")
      /\ UNCHANGED <<ownerVars, hub, nextSession, messages, historyVars>>
  BY DEF MapSession
<1>2. /\ conn' \in [Conns -> ConnType] /\ \A d \in Conns \ {c} : conn'[d] = conn[d]
      /\ conn'[c].at = "dispatch start" /\ conn'[c].session = conn[c].session
  BY <1>1, AtConn, GoesTo, Places
<1>3. /\ sessions'[c] = conn[c].session /\ sessions' \in [Conns -> 0..MaxSessionId]
      /\ \A d \in Conns \ {c} : sessions'[d] = sessions[d]
  BY AtConn DEF MapSession, TypeOK, ConnType
<1>4. CallbackAt(c)' /\ Held(c)' = Held(c)
  BY <1>1, <1>2, <1>3, AtConn DEF CallbackAt, Held, Unmapped, Mapped
<1>5. DownAt(c)' /\ ToldAt(c)' /\ AuthAt(c)'
  BY <1>1, <1>2, <1>3, <1>4, AtConn DEF DownAt, ToldAt, AuthAt, ownerVars, historyVars
<1> QED
  BY <1>1, <1>2, <1>3, <1>4, <1>5, AtConn, MoveKeeps
     DEF ConnAt, TypeOK, historyVars, OnlyUsersAreAnswered

\* The handler hears of the session, unless the server was stopped.
LEMMA StartedKeeps ==
  ASSUME Inv, NEW c \in Conns, dispatch_session_started(c) PROVE Inv'
<1>1. /\ conn[c].at = "dispatch start"
      /\ UNCHANGED <<ownerVars, sessions, hub, nextSession, messages, proved, echoed>>
      /\ Held(c) = conn[c].session /\ Held(c) # 0 /\ Held(c) \in SessionIds
  BY AtConn DEF dispatch_session_started, CallbackAt, Held, Unmapped, Mapped
<1>2. /\ conn' \in [Conns -> ConnType] /\ \A d \in Conns \ {c} : conn'[d] = conn[d]
      /\ conn'[c].at = "open" \/ (conn'[c].at = "reply" /\ conn'[c].data = "notice"
                                    /\ conn'[c].session = conn[c].session)
  <2>1. CASE Returns(c, "open")
    BY <2>1, AtConn, ReturnsTo, Places
  <2>2. CASE conn' = [conn EXCEPT ![c].at = "reply", ![c].data = "notice"]
    BY <2>2, AtConn, Places DEF TypeOK, ConnType
  <2> QED  BY <2>1, <2>2 DEF dispatch_session_started
<1>3. /\ told' \in [SessionIds -> {"none", "started", "stopped"}]
      /\ \A s \in SessionIds \ {Held(c)} : told'[s] = told[s]
      /\ running => told'[Held(c)] = "started"
  BY <1>1, AtConn DEF dispatch_session_started, TypeOK
<1>4. CallbackAt(c)' /\ Held(c)' = Held(c)
  BY <1>1, <1>2, AtConn DEF CallbackAt, Held, Unmapped, Mapped
<1>5. DownAt(c)' /\ ToldAt(c)' /\ AuthAt(c)'
  BY <1>1, <1>2, <1>3, <1>4, AtConn DEF DownAt, ToldAt, AuthAt, ownerVars
<1> QED
  BY <1>1, <1>2, <1>3, <1>4, <1>5, AtConn, MoveKeeps DEF ConnAt, TypeOK, OnlyUsersAreAnswered

\* The last notification takes the session out of the map.
LEMMA DisconnectedKeeps ==
  ASSUME Inv, NEW c \in Conns, on_disconnected(c) PROVE Inv'
<1>1. /\ conn[c].at = "open"
      /\ UNCHANGED <<ownerVars, hub, nextSession, messages, historyVars>>
      /\ sessions' \in [Conns -> 0..MaxSessionId] /\ sessions'[c] = 0
      /\ \A d \in Conns \ {c} : sessions'[d] = sessions[d]
  BY AtConn, Constants DEF on_disconnected, TypeOK
<1>2. /\ conn' \in [Conns -> ConnType] /\ \A d \in Conns \ {c} : conn'[d] = conn[d]
      /\ conn'[c].session = sessions[c]
      /\ conn'[c].at = IF sessions[c] = 0 THEN "gone" ELSE "dispatch stop"
  BY AtConn, Places DEF on_disconnected, TypeOK, ConnType
<1>3. CallbackAt(c)' /\ Held(c)' = Held(c)
  BY <1>1, <1>2, AtConn DEF CallbackAt, Held, Unmapped, Mapped
<1>4. DownAt(c)' /\ ToldAt(c)' /\ AuthAt(c)'
  BY <1>1, <1>2, <1>3, AtConn DEF DownAt, ToldAt, AuthAt, ownerVars, historyVars
<1> QED
  BY <1>1, <1>2, <1>3, <1>4, AtConn, MoveKeeps
     DEF ConnAt, TypeOK, historyVars, OnlyUsersAreAnswered

\* The handler hears of the end.
LEMMA StoppedKeeps ==
  ASSUME Inv, NEW c \in Conns, dispatch_session_stopped(c) PROVE Inv'
<1>1. /\ conn[c].at = "dispatch stop" /\ Goes(c, "remove")
      /\ UNCHANGED <<ownerVars, sessions, hub, nextSession, messages, proved, echoed>>
      /\ Held(c) = conn[c].session /\ Held(c) # 0 /\ Held(c) \in SessionIds
  BY AtConn DEF dispatch_session_stopped, CallbackAt, Held, Unmapped, Mapped
<1>2. /\ conn' \in [Conns -> ConnType] /\ \A d \in Conns \ {c} : conn'[d] = conn[d]
      /\ conn'[c].at = "remove" /\ conn'[c].session = conn[c].session
  BY <1>1, AtConn, GoesTo, Places
<1>3. /\ told' \in [SessionIds -> {"none", "started", "stopped"}]
      /\ \A s \in SessionIds \ {Held(c)} : told'[s] = told[s]
  BY <1>1, AtConn DEF dispatch_session_stopped, TypeOK
<1>4. CallbackAt(c)' /\ Held(c)' = Held(c)
  BY <1>1, <1>2, AtConn DEF CallbackAt, Held, Unmapped, Mapped
<1>5. DownAt(c)' /\ ToldAt(c)' /\ AuthAt(c)'
  BY <1>1, <1>2, <1>3, <1>4, AtConn DEF DownAt, ToldAt, AuthAt, ownerVars
<1> QED
  BY <1>1, <1>2, <1>3, <1>4, <1>5, AtConn, MoveKeeps DEF ConnAt, TypeOK, OnlyUsersAreAnswered

\* A message of a mapped connection is dispatched.
LEMMA MessageKeeps ==
  ASSUME Inv, NEW c \in Conns, NEW request \in Requests, on_message(c, request) PROVE Inv'
<1>1. /\ conn[c].at = "open"
      /\ UNCHANGED <<ownerVars, sessions, hub, nextSession, told, echoed>>
      /\ messages' \in 0..MaxMessages
      /\ proved' \subseteq Conns /\ proved \subseteq proved'
      /\ request = "auth" => c \in proved'
  BY AtConn, RuntimeAssumption DEF on_message, TypeOK
<1>2. /\ conn' \in [Conns -> ConnType] /\ \A d \in Conns \ {c} : conn'[d] = conn[d]
      /\ \/ sessions[c] = 0 /\ conn'[c] = conn[c]
         \/ /\ sessions[c] # 0 /\ conn'[c].at = "dispatch"
            /\ conn'[c].session = sessions[c] /\ conn'[c].data = request
  <2>1. CASE sessions[c] = 0
    BY <2>1, AtConn DEF on_message, find_session, TypeOK, ConnType
  <2>2. CASE sessions[c] # 0
    <3>1. [at |-> "dispatch", session |-> sessions[c], data |-> request] \in ConnType
      BY AtConn, Places DEF ConnType
    <3> QED  BY <2>2, <3>1, AtConn DEF on_message, find_session, TypeOK, ConnType
  <2> QED  BY <2>1, <2>2
<1>3. CallbackAt(c)' /\ Held(c)' = Held(c)
  BY <1>1, <1>2, AtConn DEF CallbackAt, Held, Unmapped, Mapped
<1>4. DownAt(c)' /\ ToldAt(c)' /\ AuthAt(c)'
  BY <1>1, <1>2, <1>3, AtConn DEF DownAt, ToldAt, AuthAt, ownerVars
<1> QED
  BY <1>1, <1>2, <1>3, <1>4, AtConn, MoveKeeps DEF ConnAt, TypeOK, OnlyUsersAreAnswered

\* The handler gets the message, unless the server was stopped.
LEMMA DispatchKeeps ==
  ASSUME Inv, NEW c \in Conns, dispatch_message(c) PROVE Inv'
<1>1. /\ conn[c].at = "dispatch"
      /\ UNCHANGED <<ownerVars, sessions, hub, nextSession, messages, historyVars>>
  BY DEF dispatch_message
<1>2. /\ conn' \in [Conns -> ConnType] /\ \A d \in Conns \ {c} : conn'[d] = conn[d]
      /\ \/ conn'[c].at = "handler" /\ conn'[c].session = conn[c].session
            /\ conn'[c].data = conn[c].data
         \/ conn'[c].at = "open"
  BY AtConn, GoesTo, ReturnsTo, Places DEF dispatch_message
<1>3. CallbackAt(c)' /\ Held(c)' = Held(c)
  BY <1>1, <1>2, AtConn DEF CallbackAt, Held, Unmapped, Mapped
<1>4. DownAt(c)' /\ ToldAt(c)' /\ AuthAt(c)'
  BY <1>1, <1>2, <1>3, AtConn DEF DownAt, ToldAt, AuthAt, ownerVars, historyVars
<1> QED
  BY <1>1, <1>2, <1>3, <1>4, AtConn, MoveKeeps
     DEF ConnAt, TypeOK, historyVars, OnlyUsersAreAnswered

\* A callback that replies keeps its session.
LEMMA RepliesWith ==
  ASSUME TypeOK, NEW c \in Conns, NEW reply \in {"notice", "answer"}, Replying(c, reply)
  PROVE  /\ conn' \in [Conns -> ConnType]
         /\ \A d \in Conns \ {c} : conn'[d] = conn[d]
         /\ conn'[c].at = "reply" /\ conn'[c].session = conn[c].session /\ conn'[c].data = reply
BY Places DEF TypeOK, ConnType, Replying

\* The token makes the connection's own session a user.
LEMMA AuthKeeps ==
  ASSUME Inv, NEW c \in Conns, handle_auth_command(c) PROVE Inv'
<1>1. /\ conn[c].at = "handler" /\ Replying(c, "notice")
      /\ UNCHANGED <<ownerVars, sessions, nextSession, messages, historyVars>>
      /\ Held(c) = conn[c].session /\ Held(c) # 0 /\ Held(c) \in SessionIds
  BY AtConn DEF handle_auth_command, CallbackAt, Held, Unmapped, Mapped
<1>2. /\ conn' \in [Conns -> ConnType] /\ \A d \in Conns \ {c} : conn'[d] = conn[d]
      /\ conn'[c].at = "reply" /\ conn'[c].session = conn[c].session /\ conn'[c].data = "notice"
  BY <1>1, AtConn, RepliesWith
<1>3. /\ hub' \in [SessionIds -> EntryType]
      /\ \A s \in SessionIds \ {Held(c)} : hub'[s] = hub[s]
      /\ \A s \in SessionIds : hub'[s].present = hub[s].present
  BY <1>1, AtConn DEF handle_auth_command, authenticate, EntryType
<1>4. hub'[Held(c)].authenticated => hub[Held(c)].authenticated \/ conn[c].data = "auth"
  BY <1>1, AtConn DEF handle_auth_command, authenticate, EntryType
<1>5. CallbackAt(c)' /\ Held(c)' = Held(c)
  BY <1>1, <1>2, AtConn DEF CallbackAt, Held, Unmapped, Mapped
<1>6. DownAt(c)' /\ ToldAt(c)' /\ AuthAt(c)'
  BY <1>1, <1>2, <1>4, <1>5, AtConn DEF DownAt, ToldAt, AuthAt, ownerVars, historyVars
<1> QED
  BY <1>1, <1>2, <1>3, <1>5, <1>6, AtConn, MoveKeeps
     DEF ConnAt, TypeOK, historyVars, OnlyUsersAreAnswered

\* Only a user gets an answer when authentication is required.
LEMMA AnswerKeeps ==
  ASSUME Inv, NEW c \in Conns, AnswerRequest(c) PROVE Inv'
<1>1. /\ conn[c].at = "handler"
      /\ UNCHANGED <<ownerVars, sessions, hub, nextSession, messages, historyVars>>
      /\ Held(c) = conn[c].session /\ Held(c) # 0 /\ Held(c) \in SessionIds
  BY AtConn DEF AnswerRequest, CallbackAt, Held, Unmapped, Mapped
<1>2. /\ conn' \in [Conns -> ConnType] /\ \A d \in Conns \ {c} : conn'[d] = conn[d]
      /\ conn'[c].at = "reply" /\ conn'[c].session = conn[c].session
      /\ RequireAuth /\ conn'[c].data = "answer" => hub[Held(c)].authenticated
  <2> DEFINE reply == IF RequireAuth /\ ~is_authenticated(conn[c].session) THEN "notice" ELSE "answer"
  <2>1. reply \in {"notice", "answer"} /\ Replying(c, reply)
    BY DEF AnswerRequest
  <2>2. /\ conn' \in [Conns -> ConnType] /\ \A d \in Conns \ {c} : conn'[d] = conn[d]
        /\ conn'[c].at = "reply" /\ conn'[c].session = conn[c].session /\ conn'[c].data = reply
    BY <2>1, AtConn, RepliesWith
  <2> QED  BY <1>1, <2>2 DEF is_authenticated
<1>3. CallbackAt(c)' /\ Held(c)' = Held(c)
  BY <1>1, <1>2, AtConn DEF CallbackAt, Held, Unmapped, Mapped
<1>4. DownAt(c)' /\ ToldAt(c)' /\ AuthAt(c)'
  BY <1>1, <1>2, <1>3, AtConn DEF DownAt, ToldAt, AuthAt, ownerVars, historyVars
<1> QED
  BY <1>1, <1>2, <1>3, <1>4, AtConn, MoveKeeps
     DEF ConnAt, TypeOK, historyVars, OnlyUsersAreAnswered

\* The reply is sent.
LEMMA SendKeeps ==
  ASSUME Inv, NEW c \in Conns, SessionSend(c) PROVE Inv'
<1>1. /\ conn[c].at = "reply" /\ Returns(c, "open")
      /\ UNCHANGED <<ownerVars, sessions, hub, nextSession, messages, told, proved>>
      /\ echoed' = IF conn[c].data = "answer" THEN echoed \cup {c} ELSE echoed
      /\ Held(c) # 0
  BY AtConn DEF SessionSend, CallbackAt, Held, Unmapped, Mapped
<1>2. /\ conn' \in [Conns -> ConnType] /\ \A d \in Conns \ {c} : conn'[d] = conn[d]
      /\ conn'[c].at = "open"
  BY <1>1, AtConn, ReturnsTo, Places
<1>3. CallbackAt(c)' /\ Held(c)' = Held(c)
  BY <1>1, <1>2, AtConn DEF CallbackAt, Held, Unmapped, Mapped
<1>4. DownAt(c)' /\ ToldAt(c)' /\ AuthAt(c)'
  BY <1>1, <1>2, <1>3, AtConn DEF DownAt, ToldAt, AuthAt, ownerVars
<1>5. OnlyUsersAreAnswered' /\ echoed' \subseteq Conns
  BY <1>1, AtConn DEF OnlyUsersAreAnswered, AuthAt, TypeOK
<1> QED
  BY <1>1, <1>2, <1>3, <1>4, <1>5, AtConn, MoveKeeps DEF ConnAt, TypeOK

\* The limit and the insertion are one step, and the id is new.
LEMMA TryAddKeeps ==
  ASSUME Inv, NEW c \in Conns, try_add(c) PROVE Inv'
<1>1. /\ conn[c].at = "admit" /\ Held(c) = 0 /\ sessions[c] = 0 /\ nextSession \in SessionIds
      /\ UNCHANGED <<ownerVars, sessions, messages, historyVars>>
  <2>1. conn[c].at = "admit" /\ UNCHANGED <<ownerVars, sessions, messages, historyVars>>
    BY DEF try_add
  <2>2. nextSession \in SessionIds
    BY AtConn, Constants DEF try_add, TypeOK, SessionIds
  <2> QED  BY <2>1, <2>2, AtConn DEF CallbackAt, Held, Unmapped
<1>2. CASE Cardinality(Entries) >= MaxSessions
  <2>1. Goes(c, "open") /\ UNCHANGED <<hub, nextSession>>
    BY <1>2 DEF try_add
  <2>2. /\ conn' \in [Conns -> ConnType] /\ \A d \in Conns \ {c} : conn'[d] = conn[d]
        /\ conn'[c].at = "open"
    BY <2>1, AtConn, GoesTo, Places
  <2>3. CallbackAt(c)' /\ Held(c)' = Held(c)
    BY <1>1, <2>2 DEF CallbackAt, Held, Unmapped, Mapped
  <2>4. DownAt(c)' /\ ToldAt(c)' /\ AuthAt(c)'
    BY <1>1, <2>2, <2>3 DEF DownAt, ToldAt, AuthAt
  <2> QED
    BY <1>1, <2>1, <2>2, <2>3, <2>4, AtConn, MoveKeeps
       DEF ConnAt, TypeOK, historyVars, OnlyUsersAreAnswered
<1>3. CASE ~(Cardinality(Entries) >= MaxSessions)
  <2> DEFINE n == nextSession
  <2>1. /\ hub' = [hub EXCEPT ![n] = [NoEntry EXCEPT !.present = TRUE]]
        /\ conn' = [conn EXCEPT ![c].at = "map", ![c].session = n]
        /\ nextSession' = n + 1
    BY <1>3 DEF try_add
  <2>2. /\ conn' \in [Conns -> ConnType] /\ \A d \in Conns \ {c} : conn'[d] = conn[d]
        /\ conn'[c].at = "map" /\ conn'[c].session = n
    BY <1>1, <2>1, AtConn, Constants, Places DEF TypeOK, ConnType
  <2>3. /\ hub' \in [SessionIds -> EntryType]
        /\ \A s \in SessionIds \ {n} : hub'[s] = hub[s]
        /\ hub'[n].present /\ ~hub'[n].authenticated
    BY <1>1, <2>1, AtConn DEF NoEntry, EntryType
  <2>4. n \in Nat /\ n # 0 /\ n \notin Entries /\ told[n] = "none"
    BY <1>1, Constants DEF Inv, FreshInv
  <2>5. CallbackAt(c)' /\ Held(c)' = n
    BY <1>1, <2>2, <2>4 DEF CallbackAt, Held, Unmapped, Mapped
  <2>6. DownAt(c)' /\ ToldAt(c)' /\ AuthAt(c)'
    BY <1>1, <2>2, <2>3, <2>4, <2>5, AtConn DEF DownAt, ToldAt, AuthAt, ownerVars, historyVars
  <2>7. Others(c)
    <3>1. \A d \in Conns \ {c} : Held(d) # 0 => Held(d) \in SessionIds \ {n}
      BY <2>4, HeldType DEF Inv, HeldInv
    <3> QED  BY <1>1, <2>2, <2>3, <3>1 DEF Others, historyVars
  <2>8. (\A d \in Conns : ConnAt(d)') /\ \A d \in Conns \ {c} : Held(d)' = Held(d)
    BY <2>5, <2>6, <2>7, OthersKeep DEF ConnAt, Inv
  <2>9. Entries' = Entries \cup {n}
    BY <1>1, <2>3 DEF Entries
  <2>10. HeldInv'
    <3>1. \A d \in Conns \ {c} : Held(d) # n
      BY <2>4 DEF Inv, HeldInv
    <3>2. \A d \in Conns : Held(d)' # 0 => Held(d)' \in Entries'
      BY <2>5, <2>8, <2>9 DEF Inv, HeldInv
    <3>3. \A d, e \in Conns : Held(d)' # 0 /\ Held(d)' = Held(e)' => d = e
      BY <2>5, <2>8, <3>1 DEF Inv, HeldInv
    <3>4. \A s \in Entries' : \E d \in Conns : Held(d)' = s
      <4> TAKE s \in Entries'
      <4>1. CASE s = n
        BY <2>5, <4>1
      <4>2. CASE s \in Entries
        <5>1. PICK d \in Conns : Held(d) = s
          BY <4>2 DEF Inv, HeldInv
        <5>2. s # 0
          BY <4>2, Constants DEF Entries
        <5>3. d # c
          BY <1>1, <5>1, <5>2
        <5> QED  BY <2>8, <5>1, <5>3
      <4> QED  BY <2>9, <4>1, <4>2
    <3> QED  BY <3>2, <3>3, <3>4 DEF HeldInv
  <2>11. FreshInv'
    <3>1. Cardinality(Entries') = Cardinality(Entries) + 1
      BY <2>4, <2>9, EntriesFinite, FS_AddElement
    <3>2. Cardinality(Entries') <= MaxSessions
      BY <1>3, <3>1, EntriesFinite, Constants
    <3>3. \A s \in SessionIds : s >= n + 1 => s \notin Entries' /\ told'[s] = "none"
      BY <1>1, <2>4, <2>9, Constants DEF Inv, FreshInv, historyVars
    <3> QED  BY <2>1, <3>2, <3>3 DEF FreshInv
  <2>12. TypeOK'
    BY <1>1, <2>1, <2>2, <2>3, <2>4, Constants
       DEF Inv, TypeOK, ConnType, EntryType, ownerVars, historyVars, SessionIds
  <2> QED
    BY <1>1, <2>8, <2>10, <2>11, <2>12, OwnerKept DEF Inv, historyVars, OnlyUsersAreAnswered
<1> QED  BY <1>2, <1>3

\* The slot of a session that has ended is free again.
LEMMA RemoveKeeps ==
  ASSUME Inv, NEW c \in Conns, remove_session(c) PROVE Inv'
<1> DEFINE n == conn[c].session
<1>1. /\ conn[c].at = "remove" /\ Held(c) = n /\ n # 0 /\ n \in SessionIds /\ sessions[c] = 0
      /\ hub' = [hub EXCEPT ![n] = NoEntry] /\ Returns(c, "gone")
      /\ UNCHANGED <<ownerVars, sessions, nextSession, messages, historyVars>>
  BY AtConn DEF remove_session, CallbackAt, Held, Unmapped
<1>2. /\ conn' \in [Conns -> ConnType] /\ \A d \in Conns \ {c} : conn'[d] = conn[d]
      /\ conn'[c].at = "gone"
  BY <1>1, AtConn, ReturnsTo, Places
<1>3. /\ hub' \in [SessionIds -> EntryType]
      /\ \A s \in SessionIds \ {n} : hub'[s] = hub[s]
      /\ ~hub'[n].present
  BY <1>1, AtConn DEF NoEntry, EntryType
<1>4. CallbackAt(c)' /\ Held(c)' = 0
  BY <1>1, <1>2 DEF CallbackAt, Held, Unmapped, Mapped
<1>5. DownAt(c)' /\ ToldAt(c)' /\ AuthAt(c)'
  BY <1>1, <1>2, <1>4 DEF DownAt, ToldAt, AuthAt
<1>6. Others(c)
  <2>1. \A d \in Conns \ {c} : Held(d) # 0 => Held(d) \in SessionIds \ {n}
    BY <1>1, HeldType, HeldApart DEF Inv
  <2> QED  BY <1>1, <1>2, <1>3, <2>1 DEF Others, historyVars
<1>7. (\A d \in Conns : ConnAt(d)') /\ \A d \in Conns \ {c} : Held(d)' = Held(d)
  BY <1>4, <1>5, <1>6, OthersKeep DEF ConnAt, Inv
<1>8. Entries' = Entries \ {n}
  BY <1>1, <1>3 DEF Entries
<1>9. HeldInv'
  <2>1. \A d \in Conns \ {c} : Held(d) # n
    BY <1>1 DEF Inv, HeldInv
  <2> QED  BY <1>1, <1>4, <1>7, <1>8, <2>1 DEF Inv, HeldInv
<1>10. FreshInv'
  <2>1. Cardinality(Entries') <= Cardinality(Entries) /\ Cardinality(Entries') \in Nat
    BY <1>8, EntriesFinite, FS_Subset, FS_CardinalityType
  <2> QED  BY <1>1, <1>8, <2>1, EntriesFinite, Constants DEF Inv, FreshInv, historyVars
<1>11. TypeOK'
  BY <1>1, <1>2, <1>3 DEF Inv, TypeOK, ConnType, EntryType, ownerVars, historyVars
<1> QED
  BY <1>1, <1>7, <1>9, <1>10, <1>11, OwnerKept DEF Inv, historyVars, OnlyUsersAreAnswered
-----------------------------------------------------------------------------
\* A step of the owner that leaves the connections and the transports alone
\* keeps their part, if the server did not begin to run while a session was held.
LEMMA OwnerStepKeeps ==
  ASSUME Inv, UNCHANGED <<transport, conn, sessions, hub, nextSession, messages, historyVars>>,
         running' => running \/ \A c \in Conns : Held(c) = 0
  PROVE  HeldInv' /\ FreshInv' /\ (\A c \in Conns : ConnAt(c)') /\ OnlyUsersAreAnswered'
<1>1. \A c \in Conns : Held(c)' = Held(c)
  BY DEF Held
<1>2. HeldInv' /\ FreshInv'
  BY <1>1, SameHeld DEF Inv, Entries, historyVars
<1>3. ASSUME NEW c \in Conns PROVE ConnAt(c)'
  <2>1. CallbackAt(c)' /\ DownAt(c)'
    BY AtConn DEF CallbackAt, DownAt
  <2>2. ToldAt(c)'
    BY <1>1, AtConn DEF ToldAt, historyVars
  <2>3. AuthAt(c)'
    BY <1>1, AtConn DEF AuthAt, historyVars
  <2> QED  BY <2>1, <2>2, <2>3 DEF ConnAt
<1>4. OnlyUsersAreAnswered'
  BY DEF Inv, OnlyUsersAreAnswered, historyVars
<1> QED  BY <1>2, <1>3, <1>4

\* A stopped server holds no session.
LEMMA StoppedHoldsNothing ==
  ASSUME Inv, owner = "stopped", NEW c \in Conns
  PROVE  Held(c) = 0
<1>1. transport[c[1]] = "down"
  BY Constants DEF Inv, OwnerInv
<1> QED  BY <1>1, AtConn DEF DownAt, Held, Unmapped

\* start().
LEMMA StartKeeps ==
  ASSUME Inv, start PROVE Inv'
<1>1. /\ owner = "stopped" /\ running' = TRUE /\ owner' = "starting" /\ todo' = Listeners
      /\ starts' \in 0..MaxStarts
      /\ UNCHANGED <<transport, conn, sessions, hub, nextSession, messages, historyVars>>
  BY RuntimeAssumption DEF start, Inv, TypeOK
<1>2. TypeOK'
  BY <1>1 DEF Inv, TypeOK, historyVars
<1>3. OwnerInv'
  BY <1>1 DEF Inv, OwnerInv
<1> QED  BY <1>1, <1>2, <1>3, StoppedHoldsNothing, OwnerStepKeeps DEF Inv

\* stop() begins.
LEMMA StopKeeps ==
  ASSUME Inv, stop PROVE Inv'
<1>1. /\ owner \in {"idle", "starting"} /\ running' = FALSE /\ owner' = "stopping"
      /\ todo' = {l \in Listeners : transport[l] = "up"} /\ starts' = starts
      /\ UNCHANGED <<transport, conn, sessions, hub, nextSession, messages, historyVars>>
  BY DEF stop
<1>2. TypeOK'
  BY <1>1 DEF Inv, TypeOK, historyVars
<1>3. OwnerInv'
  BY <1>1 DEF Inv, OwnerInv, TypeOK
<1> QED  BY <1>1, <1>2, <1>3, OwnerStepKeeps DEF Inv

\* stop() returns.
LEMMA StopReturnsKeeps ==
  ASSUME Inv, StopReturns PROVE Inv'
<1>1. /\ owner = "stopping" /\ todo = {} /\ owner' = "stopped"
      /\ UNCHANGED <<running, todo, starts>>
      /\ UNCHANGED <<transport, conn, sessions, hub, nextSession, messages, historyVars>>
  BY DEF StopReturns
<1>2. TypeOK'
  BY <1>1 DEF Inv, TypeOK, historyVars
<1>3. OwnerInv'
  BY <1>1 DEF Inv, OwnerInv
<1> QED  BY <1>1, <1>2, <1>3, OwnerStepKeeps DEF Inv

\* A listener starts, with connections that are new.
LEMMA StartListenerKeeps ==
  ASSUME Inv, NEW l \in Listeners, StartListener(l) PROVE Inv'
<1>1. /\ owner = "starting" /\ l \in todo /\ transport[l] = "down"
      /\ todo' = todo \ {l} /\ owner' \in {"idle", "starting"}
      /\ owner' = "idle" => todo' = {}
      /\ transport' = [transport EXCEPT ![l] = "up"]
      /\ conn' = [c \in Conns |-> IF c \in Of(l) THEN NoConn ELSE conn[c]]
      /\ proved' = proved \ Of(l) /\ echoed' = echoed \ Of(l)
      /\ UNCHANGED <<running, starts, sessions, hub, nextSession, messages, told>>
  BY DEF StartListener, Inv, OwnerInv
<1>2. \A c \in Conns : /\ c \in Of(l) => /\ c[1] = l /\ Held(c) = 0 /\ sessions[c] = 0
                       /\ c \notin Of(l) => c[1] # l
  BY <1>1, AtConn DEF Of, DownAt, Held, Unmapped
<1>3. \A c \in Conns : Held(c)' = Held(c)
  BY <1>1, <1>2 DEF Held, NoConn, Unmapped
<1>4. ASSUME NEW c \in Conns PROVE ConnAt(c)'
  <2>1. CASE c \in Of(l)
    <3>1. conn'[c].at = "new" /\ sessions'[c] = 0 /\ Held(c)' = 0
      BY <1>1, <1>2, <1>3, <2>1 DEF NoConn
    <3> QED  BY <3>1 DEF ConnAt, CallbackAt, DownAt, ToldAt, AuthAt, Mapped, Unmapped
  <2>2. CASE c \notin Of(l)
    <3>1. /\ conn'[c] = conn[c] /\ transport'[c[1]] = transport[c[1]]
          /\ c \in proved => c \in proved'
      BY <1>1, <1>2, <2>2, Constants DEF Inv, TypeOK
    <3>2. CallbackAt(c)' /\ DownAt(c)'
      BY <1>1, <3>1, AtConn DEF CallbackAt, DownAt
    <3>3. ToldAt(c)' /\ AuthAt(c)'
      BY <1>1, <1>3, <3>1, AtConn DEF ToldAt, AuthAt
    <3> QED  BY <3>2, <3>3 DEF ConnAt
  <2> QED  BY <2>1, <2>2
<1>5. HeldInv' /\ FreshInv'
  BY <1>1, <1>3, SameHeld DEF Inv, Entries
<1>6. TypeOK'
  <2>1. conn' \in [Conns -> ConnType]
    BY <1>1, Constants, Places DEF Inv, TypeOK, ConnType, NoConn
  <2> QED  BY <1>1, <2>1 DEF Inv, TypeOK, ConnType
<1>7. OwnerInv'
  BY <1>1 DEF Inv, OwnerInv, TypeOK
<1>8. OnlyUsersAreAnswered'
  BY <1>1 DEF Inv, OnlyUsersAreAnswered
<1> QED  BY <1>4, <1>5, <1>6, <1>7, <1>8 DEF Inv

\* A transport begins to stop.
LEMMA StopTransportKeeps ==
  ASSUME Inv, NEW l \in Listeners, StopTransport(l) PROVE Inv'
<1>1. /\ owner = "stopping" /\ l \in todo
      /\ transport' = [transport EXCEPT ![l] = "stopping"]
      /\ UNCHANGED <<running, owner, todo, starts, conn, sessions, hub, nextSession, messages, historyVars>>
  BY DEF StopTransport
<1>2. \A c \in Conns : Held(c)' = Held(c)
  BY <1>1 DEF Held
<1>3. ASSUME NEW c \in Conns PROVE ConnAt(c)'
  <2>1. transport'[c[1]] = "down" => transport[c[1]] = "down"
    BY <1>1, Constants DEF Inv, TypeOK
  <2>2. CallbackAt(c)' /\ DownAt(c)'
    BY <1>1, <2>1, AtConn DEF CallbackAt, DownAt
  <2>3. ToldAt(c)' /\ AuthAt(c)'
    BY <1>1, <1>2, AtConn DEF ToldAt, AuthAt, historyVars
  <2> QED  BY <2>2, <2>3 DEF ConnAt
<1>4. HeldInv' /\ FreshInv'
  BY <1>1, <1>2, SameHeld DEF Inv, Entries, historyVars
<1>5. TypeOK' /\ OwnerInv'
  BY <1>1 DEF Inv, TypeOK, OwnerInv, historyVars
<1>6. OnlyUsersAreAnswered'
  BY <1>1 DEF Inv, OnlyUsersAreAnswered, historyVars
<1> QED  BY <1>3, <1>4, <1>5, <1>6 DEF Inv

\* A listener that has stopped releases the sessions that had no last
\* notification, and no other.
LEMMA StopListenerKeeps ==
  ASSUME Inv, NEW l \in Listeners, StopListener(l) PROVE Inv'
<1>1. /\ transport[l] = "stopping" /\ owner = "stopping"
      /\ \A c \in Of(l) : conn[c].at \in {"new", "open", "gone"}
      /\ transport' = [transport EXCEPT ![l] = "down"]
      /\ todo' = todo \ {l}
      /\ hub' = [s \in SessionIds |-> IF \E c \in Of(l) : sessions[c] = s THEN NoEntry ELSE hub[s]]
      /\ sessions' = [c \in Conns |-> IF c \in Of(l) THEN 0 ELSE sessions[c]]
      /\ UNCHANGED <<running, owner, starts, conn, nextSession, messages, historyVars>>
  BY DEF StopListener, Inv, OwnerInv
<1>2. \A c \in Conns : /\ c \in Of(l) => c[1] = l /\ Held(c) = sessions[c] /\ Held(c)' = 0
                       /\ c \notin Of(l) => c[1] # l /\ Held(c)' = Held(c)
  BY <1>1 DEF Of, Held, Unmapped
<1>3. \A c \in Conns : c \notin Of(l) /\ Held(c) # 0 => hub'[Held(c)] = hub[Held(c)]
  <2> SUFFICES ASSUME NEW c \in Conns, c \notin Of(l), Held(c) # 0
               PROVE  hub'[Held(c)] = hub[Held(c)]
    OBVIOUS
  <2>1. Held(c) \in SessionIds
    BY AtConn
  <2>2. ~ \E d \in Of(l) : sessions[d] = Held(c)
    <3> SUFFICES ASSUME NEW d \in Of(l), sessions[d] = Held(c) PROVE FALSE
      OBVIOUS
    <3>1. d \in Conns /\ d # c /\ Held(d) = Held(c)
      BY <1>2 DEF Of
    <3> QED  BY <3>1, HeldApart DEF Inv
  <2> QED  BY <1>1, <2>1, <2>2
<1>4. Entries' = {s \in Entries : ~ \E c \in Of(l) : sessions[c] = s}
  BY <1>1 DEF Entries, NoEntry
<1>5. ASSUME NEW c \in Conns PROVE ConnAt(c)'
  <2>1. CASE c \in Of(l)
    <3>1. conn'[c].at \in {"new", "open", "gone"} /\ sessions'[c] = 0 /\ Held(c)' = 0
      BY <1>1, <1>2, <2>1
    <3> QED  BY <3>1 DEF ConnAt, CallbackAt, DownAt, ToldAt, AuthAt, Mapped, Unmapped
  <2>2. CASE c \notin Of(l)
    <3>1. /\ conn'[c] = conn[c] /\ transport'[c[1]] = transport[c[1]]
          /\ sessions'[c] = sessions[c] /\ Held(c)' = Held(c)
      BY <1>1, <1>2, <2>2, Constants DEF Inv, TypeOK
    <3>2. CallbackAt(c)' /\ DownAt(c)'
      BY <3>1, AtConn DEF CallbackAt, DownAt
    <3>3. ToldAt(c)'
      BY <1>1, <3>1, AtConn DEF ToldAt, historyVars
    <3>4. AuthAt(c)'
      BY <1>1, <1>3, <2>2, <3>1, AtConn DEF AuthAt, historyVars
    <3> QED  BY <3>2, <3>3, <3>4 DEF ConnAt
  <2> QED  BY <2>1, <2>2
<1>6. HeldInv'
  <2>1. \A c \in Conns : Held(c)' # 0 => Held(c)' \in Entries'
    <3> SUFFICES ASSUME NEW c \in Conns, Held(c)' # 0 PROVE Held(c)' \in Entries'
      OBVIOUS
    <3>1. c \notin Of(l) /\ Held(c)' = Held(c) /\ Held(c) \in Entries /\ Held(c) # 0
      BY <1>2 DEF Inv, HeldInv
    <3>2. hub'[Held(c)].present
      BY <1>3, <3>1, AtConn
    <3> QED  BY <3>1, <3>2 DEF Entries
  <2>2. \A c, d \in Conns : Held(c)' # 0 /\ Held(c)' = Held(d)' => c = d
    BY <1>2 DEF Inv, HeldInv
  <2>3. \A s \in Entries' : \E c \in Conns : Held(c)' = s
    BY <1>2, <1>4 DEF Inv, HeldInv
  <2> QED  BY <2>1, <2>2, <2>3 DEF HeldInv
<1>7. FreshInv'
  <2>1. Cardinality(Entries') <= Cardinality(Entries) /\ Cardinality(Entries') \in Nat
    BY <1>4, EntriesFinite, FS_Subset, FS_CardinalityType
  <2> QED  BY <1>1, <1>4, <2>1, EntriesFinite, Constants DEF Inv, FreshInv, historyVars
<1>8. TypeOK'
  <2>1. hub' \in [SessionIds -> EntryType] /\ sessions' \in [Conns -> 0..MaxSessionId]
    BY <1>1, Constants DEF Inv, TypeOK, EntryType, NoEntry
  <2> QED  BY <1>1, <2>1 DEF Inv, TypeOK, EntryType, historyVars
<1>9. OwnerInv'
  BY <1>1 DEF Inv, OwnerInv, TypeOK
<1>10. OnlyUsersAreAnswered'
  BY <1>1 DEF Inv, OnlyUsersAreAnswered, historyVars
<1> QED  BY <1>5, <1>6, <1>7, <1>8, <1>9, <1>10 DEF Inv
-----------------------------------------------------------------------------
\* The invariant holds before the first start().
LEMMA InitInv == Init => Inv
<1> SUFFICES ASSUME Init PROVE Inv
  OBVIOUS
<1>1. TypeOK
  <2>1. NoConn \in ConnType /\ NoEntry \in EntryType
    BY Constants, Places DEF NoConn, NoEntry, ConnType, EntryType
  <2>2. running \in BOOLEAN
    BY Zenon DEF Init
  <2>3. nextSession \in 1..(MaxSessionId + 1) /\ messages \in 0..MaxMessages /\ starts \in 0..MaxStarts
    BY RuntimeAssumption DEF Init
  <2>4. sessions \in [Conns -> 0..MaxSessionId]
    BY Constants DEF Init
  <2> QED  BY <2>1, <2>2, <2>3, <2>4 DEF Init, TypeOK, ConnType, EntryType
<1>2. \A c \in Conns : conn[c].at = "new" /\ sessions[c] = 0 /\ Held(c) = 0
  BY DEF Init, NoConn, Held, Unmapped
<1>3. \A c \in Conns : ConnAt(c)
  BY <1>2 DEF ConnAt, CallbackAt, DownAt, ToldAt, AuthAt, Unmapped, Mapped
<1>4. Entries = {}
  BY DEF Init, Entries, NoEntry
<1>5. HeldInv
  BY <1>2, <1>4 DEF HeldInv
<1>6. FreshInv
  BY <1>4, FS_EmptySet, Constants DEF FreshInv, Init
<1>7. OwnerInv /\ OnlyUsersAreAnswered
  BY DEF Init, OwnerInv, OnlyUsersAreAnswered
<1> QED  BY <1>1, <1>3, <1>5, <1>6, <1>7 DEF Inv

\* Every step of the owner and of the transports' callbacks keeps it.
LEMMA NextInv == Inv /\ [Next]_vars => Inv'
<1> SUFFICES ASSUME Inv, [Next]_vars PROVE Inv'
  OBVIOUS
<1>1. CASE start \/ stop \/ StopReturns
  BY <1>1, StartKeeps, StopKeeps, StopReturnsKeeps
<1>2. CASE \E l \in Listeners : StartListener(l) \/ StopTransport(l) \/ StopListener(l)
  BY <1>2, StartListenerKeeps, StopTransportKeeps, StopListenerKeeps
<1>3. CASE \E c \in Conns :
             \/ on_accepting(c) \/ SetupFails(c) \/ on_connected(c) \/ try_add(c) \/ MapSession(c)
             \/ dispatch_session_started(c)
             \/ on_disconnected(c) \/ dispatch_session_stopped(c) \/ remove_session(c)
  BY <1>3, AcceptingKeeps, SetupFailsKeeps, ConnectedKeeps, TryAddKeeps, MapSessionKeeps,
     StartedKeeps, DisconnectedKeeps, StoppedKeeps, RemoveKeeps
<1>4. CASE \E c \in Conns :
             \/ \E request \in Requests : on_message(c, request)
             \/ dispatch_message(c) \/ handle_auth_command(c) \/ AnswerRequest(c) \/ SessionSend(c)
  BY <1>4, MessageKeeps, DispatchKeeps, AuthKeeps, AnswerKeeps, SendKeeps
<1>5. CASE UNCHANGED vars
  <2>1. \A c \in Conns : Held(c)' = Held(c)
    BY <1>5 DEF vars, Held
  <2>2. HeldInv' /\ FreshInv' /\ (\A c \in Conns : ConnAt(c)') /\ OnlyUsersAreAnswered'
    BY <1>5, OwnerStepKeeps DEF vars, ownerVars, historyVars
  <2>3. TypeOK' /\ OwnerInv'
    BY <1>5, OwnerKept DEF Inv, TypeOK, vars, ownerVars, historyVars
  <2> QED  BY <2>2, <2>3 DEF Inv
<1> QED  BY <1>1, <1>2, <1>3, <1>4, <1>5 DEF Next

\* The inductive invariant of the line runtime.
THEOREM Invariant == Spec => []Inv
BY InitInv, NextInv, PTL DEF Spec

\* The connections that answer for a session are those that hold it.
LEMMA OwnersHold ==
  ASSUME Inv, NEW s \in SessionIds
  PROVE  Owners(s) = {c \in Conns : Held(c) = s}
<1>1. s # 0
  BY Constants
<1>2. \A c \in Conns :
        (sessions[c] = s \/ (conn[c].session = s /\ conn[c].at \in {"map", "dispatch stop", "remove"}))
          <=> Held(c) = s
  BY <1>1, AtConn DEF CallbackAt, Held, Unmapped
<1> QED  BY <1>2 DEF Owners

\* Sessions are exact: the limit holds across all listeners, each session has
\* exactly one connection that will release it, and none outlives stop().
THEOREM SessionsAreExact == Spec => []SessionsExact
<1>1. Inv => SessionsExact
  <2> SUFFICES ASSUME Inv PROVE SessionsExact
    OBVIOUS
  <2>1. TypeOK /\ Cardinality(Entries) <= MaxSessions
    BY DEF Inv, FreshInv
  <2>2. ASSUME NEW s \in SessionIds
        PROVE  Cardinality(Owners(s)) = IF s \in Entries THEN 1 ELSE 0
    <3>1. CASE s \in Entries
      <4>1. PICK c \in Conns : Held(c) = s
        BY <3>1 DEF Inv, HeldInv
      <4>2. \A d \in Conns : Held(d) = s => d = c
        BY <4>1, Constants DEF Inv, HeldInv
      <4>3. Owners(s) = {c}
        BY <4>1, <4>2, OwnersHold
      <4> QED  BY <3>1, <4>3, FS_Singleton
    <3>2. CASE s \notin Entries
      <4>1. Owners(s) = {}
        BY <3>2, OwnersHold, Constants DEF Inv, HeldInv
      <4> QED  BY <3>2, <4>1, FS_EmptySet
    <3> QED  BY <3>1, <3>2
  <2>3. owner = "stopped" => Entries = {}
    <3> SUFFICES ASSUME owner = "stopped", NEW s \in Entries PROVE FALSE
      OBVIOUS
    <3>1. PICK c \in Conns : Held(c) = s
      BY DEF Inv, HeldInv
    <3>2. s # 0
      BY Constants DEF Entries
    <3> QED  BY <3>1, <3>2, StoppedHoldsNothing
  <2> QED  BY <2>1, <2>2, <2>3 DEF SessionsExact
<1> QED  BY <1>1, Invariant, PTL

\* With require_auth only a connection that presented the token itself is
\* answered as a user, however its ids repeat.
THEOREM OnlyUsersGetAnswers == Spec => []OnlyUsersAreAnswered
<1>1. Inv => OnlyUsersAreAnswered
  BY DEF Inv
<1> QED  BY <1>1, Invariant, PTL
-----------------------------------------------------------------------------
\* What HandlerInOrder says of one step.
ToldInOrder ==
  \A s \in SessionIds :
    told'[s] # told[s] => <<told[s], told'[s]>> \in {<<"none", "started">>, <<"started", "stopped">>}
MessageAfterStart ==
  \A c \in Conns :
    conn'[c].at = "handler" /\ conn[c].at # "handler" => told[conn[c].session] = "started"

\* The handler is told of a start once and of a stop only after it.
LEMMA ToldSteps ==
  ASSUME Inv, Next PROVE ToldInOrder
<1>1. CASE told' = told
  BY <1>1 DEF ToldInOrder
<1>2. ASSUME NEW c \in Conns, dispatch_session_started(c) PROVE ToldInOrder
  <2>1. conn[c].at = "dispatch start" /\ Held(c) = conn[c].session /\ Held(c) # 0
    BY <1>2, AtConn DEF dispatch_session_started, CallbackAt, Held, Unmapped, Mapped
  <2>2. told[conn[c].session] = "none"
    BY <2>1, AtConn DEF ToldAt
  <2>3. told' = told \/ told' = [told EXCEPT ![conn[c].session] = "started"]
    BY <1>2 DEF dispatch_session_started
  <2> QED  BY <2>2, <2>3 DEF ToldInOrder, Inv, TypeOK
<1>3. ASSUME NEW c \in Conns, dispatch_session_stopped(c) PROVE ToldInOrder
  <2>1. conn[c].at = "dispatch stop" /\ Held(c) = conn[c].session /\ Held(c) # 0
    BY <1>3, AtConn DEF dispatch_session_stopped, CallbackAt, Held, Unmapped, Mapped
  <2>2. running => told[conn[c].session] = "started"
    BY <2>1, AtConn DEF ToldAt
  <2>3. told' = IF running THEN [told EXCEPT ![conn[c].session] = "stopped"] ELSE told
    BY <1>3 DEF dispatch_session_stopped
  <2> QED  BY <2>2, <2>3 DEF ToldInOrder, Inv, TypeOK
<1>4. \/ told' = told
      \/ \E c \in Conns : dispatch_session_started(c) \/ dispatch_session_stopped(c)
  BY DEF Next, start, stop, StopReturns, StartListener, StopTransport, StopListener, on_accepting,
         SetupFails, on_connected, try_add, MapSession, on_disconnected, remove_session, on_message,
         dispatch_message, handle_auth_command, AnswerRequest, SessionSend, historyVars
<1> QED  BY <1>1, <1>2, <1>3, <1>4

\* A step that leaves every connection but c alone, and does not bring c into
\* the handler, starts no message.
LEMMA NoMessage ==
  ASSUME NEW c \in Conns, \A d \in Conns \ {c} : conn'[d] = conn[d],
         conn'[c].at # "handler" \/ conn[c].at = "handler"
  PROVE  MessageAfterStart
BY DEF MessageAfterStart

\* A message reaches the handler only after its session's start.
LEMMA MessageSteps ==
  ASSUME Inv, Next PROVE MessageAfterStart
<1>1. CASE conn' = conn
  BY <1>1 DEF MessageAfterStart
<1>2. ASSUME NEW l \in Listeners, StartListener(l) PROVE MessageAfterStart
  BY <1>2 DEF StartListener, MessageAfterStart, NoConn
<1>3. ASSUME NEW c \in Conns, dispatch_message(c) PROVE MessageAfterStart
  <2>1. conn[c].at = "dispatch" /\ Held(c) = conn[c].session /\ Held(c) # 0
    BY <1>3, AtConn DEF dispatch_message, CallbackAt, Held, Unmapped, Mapped
  <2>2. running => told[conn[c].session] = "started"
    BY <2>1, AtConn DEF ToldAt
  <2>3. CASE running
    BY <1>3, <2>2, <2>3, AtConn, GoesTo, Places DEF dispatch_message, MessageAfterStart
  <2>4. CASE ~running
    <3>1. Returns(c, "open")
      BY <1>3, <2>4 DEF dispatch_message
    <3> QED  BY <3>1, AtConn, ReturnsTo, Places, NoMessage
  <2> QED  BY <2>3, <2>4
<1>4. ASSUME NEW c \in Conns, NEW at \in Where, at # "handler", Goes(c, at) \/ Returns(c, at)
      PROVE  MessageAfterStart
  BY <1>4, AtConn, GoesTo, ReturnsTo, NoMessage
<1>5. ASSUME NEW c \in Conns,
             on_accepting(c) \/ SetupFails(c) \/ on_connected(c) \/ MapSession(c)
      PROVE  MessageAfterStart
  BY <1>4, <1>5, Places DEF on_accepting, SetupFails, on_connected, MapSession
<1>6. ASSUME NEW c \in Conns,
             dispatch_session_stopped(c) \/ remove_session(c) \/ SessionSend(c)
      PROVE  MessageAfterStart
  BY <1>4, <1>6, Places DEF dispatch_session_stopped, remove_session, SessionSend
<1>7. ASSUME NEW c \in Conns, try_add(c) PROVE MessageAfterStart
  <2>1. CASE Goes(c, "open")
    BY <1>4, <2>1, Places
  <2>2. CASE conn' = [conn EXCEPT ![c].at = "map", ![c].session = nextSession]
    BY <2>2, AtConn, NoMessage DEF TypeOK
  <2> QED  BY <1>7, <2>1, <2>2 DEF try_add
<1>8. ASSUME NEW c \in Conns, dispatch_session_started(c) PROVE MessageAfterStart
  <2>1. CASE Returns(c, "open")
    BY <1>4, <2>1, Places
  <2>2. CASE conn' = [conn EXCEPT ![c].at = "reply", ![c].data = "notice"]
    BY <2>2, AtConn, NoMessage DEF TypeOK
  <2> QED  BY <1>8, <2>1, <2>2 DEF dispatch_session_started
<1>9. ASSUME NEW c \in Conns, on_disconnected(c) PROVE MessageAfterStart
  <2> DEFINE at == IF sessions[c] = 0 THEN "gone" ELSE "dispatch stop"
  <2>1. conn' = [conn EXCEPT ![c].session = sessions[c], ![c].at = at] /\ at # "handler"
    BY <1>9 DEF on_disconnected
  <2> HIDE DEF at
  <2>2. (\A d \in Conns \ {c} : conn'[d] = conn[d]) /\ conn'[c].at = at
    BY <2>1, AtConn DEF TypeOK, ConnType
  <2> QED  BY <2>1, <2>2, NoMessage
<1>10. ASSUME NEW c \in Conns, NEW request \in Requests, on_message(c, request)
       PROVE  MessageAfterStart
  <2>1. CASE conn' = conn
    BY <1>1, <2>1
  <2>2. CASE conn' = [conn EXCEPT ![c] = [at |-> "dispatch", session |-> find_session(c), data |-> request]]
    BY <2>2, AtConn, NoMessage DEF TypeOK
  <2> QED  BY <1>10, <2>1, <2>2 DEF on_message
<1>11. ASSUME NEW c \in Conns, handle_auth_command(c) \/ AnswerRequest(c)
       PROVE  MessageAfterStart
  <2>1. PICK reply \in {"notice", "answer"} : Replying(c, reply)
    BY <1>11 DEF handle_auth_command, AnswerRequest
  <2> QED  BY <2>1, AtConn, RepliesWith, NoMessage
<1>12. \/ conn' = conn
       \/ \E l \in Listeners : StartListener(l)
       \/ \E c \in Conns :
            \/ on_accepting(c) \/ SetupFails(c) \/ on_connected(c) \/ try_add(c) \/ MapSession(c)
            \/ dispatch_session_started(c)
            \/ on_disconnected(c) \/ dispatch_session_stopped(c) \/ remove_session(c)
            \/ \E request \in Requests : on_message(c, request)
            \/ dispatch_message(c) \/ handle_auth_command(c) \/ AnswerRequest(c) \/ SessionSend(c)
  BY DEF Next, start, stop, StopReturns, StopTransport, StopListener
<1> QED  BY <1>1, <1>2, <1>3, <1>5, <1>6, <1>7, <1>8, <1>9, <1>10, <1>11, <1>12

\* The handler hears of a session in order: started, then its messages, then
\* stopped.
THEOREM HandlerHearsInOrder == Spec => HandlerInOrder
<1>1. ASSUME Inv, [Next]_vars
      PROVE  [ToldInOrder /\ MessageAfterStart]_vars
  BY <1>1, ToldSteps, MessageSteps
<1> QED  BY <1>1, Invariant, PTL DEF Spec, HandlerInOrder, ToldInOrder, MessageAfterStart
=============================================================================
