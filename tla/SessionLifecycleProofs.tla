-------------------------- MODULE SessionLifecycleProofs --------------------------
(***************************************************************************)
(* The safety properties of SessionLifecycle, for any number of clients    *)
(* and connections, any intervals and a clock that runs as long as one     *)
(* likes: first those that hold whatever the schedule.                     *)
(*                                                                         *)
(* The inductive invariant has four parts, each kept by every step with    *)
(* the help of the types:                                                  *)
(*   Routes     RouteIsCurrent, and only a task that can still read its    *)
(*              control channel has a SessionTakenOver waiting in it;      *)
(*   Deadlines  DeadlinesIndexed as it stands;                             *)
(*   Wills      a session's will is that of a connection of the same       *)
(*              client that has got past create_session and whose will has *)
(*              not been published, which makes WillAtMostOnce inductive;  *)
(*   Types      TypeOK, with a finite set of deadlines.  It needs Wills:   *)
(*              the deadline of a will is computed from its delay.         *)
(*                                                                         *)
(* The second half proves what holds on the schedule of CalmSpec, whose    *)
(* steps are steps of the program, so that the parts above hold there too. *)
(* What has to be added:                                                   *)
(*   Turns      of the tasks of a client one at most is not told to go,    *)
(*              and the connections map names it until its cleanup;        *)
(*   Held       a task that attached last holds a session that is in the   *)
(*              table, is its own and has no deadline; a will is that of a *)
(*              task that holds its session or is through;                 *)
(*   Dated      the keys of the timer's sets are those the sessions name,  *)
(*              and the will's never lies behind the session's.            *)
(***************************************************************************)
EXTENDS SessionLifecycle, FiniteSetTheorems, TLAPS

Types == TypeOK /\ IsFiniteSet(removeTimeouts)

TakeoverPending ==
  \A k \in Conns :
    takeover[k] => pc[k] \in {"handshake", "session", "ready", "sending", "closing", "unmapped"}

Routes == RouteIsCurrent /\ TakeoverPending

WillOf(c) ==
  LET k == sessions[c].lastWill IN
  k # Null => /\ client[k] = c
              /\ pc[k] \notin {"open", "handshake"}
              /\ willDelay[k] # Null
              /\ published[k] = 0

Wills ==
  /\ WillAtMostOnce
  /\ \A k \in Conns : pc[k] \in {"open", "handshake"} => published[k] = 0
  /\ \A c \in Clients : WillOf(c)

IInv == Types /\ Routes /\ DeadlinesIndexed /\ Wills

-----------------------------------------------------------------------------
\* Before the first CONNECT there are no routes, deadlines or wills (client_loop,
\* StorageInner::default).
THEOREM InitIInv == Init => IInv
<1> SUFFICES ASSUME Init PROVE IInv
  OBVIOUS
<1> USE DEF Init
<1>1. NoSession \in Session
  BY DEF NoSession, Session
<1>2. TypeOK
  BY <1>1, LifecycleAssumption DEF TypeOK, Phases, LifecycleAssumption
<1>3. IsFiniteSet(removeTimeouts)
  BY FS_EmptySet
<1>4. Routes
  BY DEF Routes, RouteIsCurrent, TakeoverPending
<1>5. DeadlinesIndexed
  BY DEF DeadlinesIndexed, NoSession
<1>6. Wills
  BY DEF Wills, WillAtMostOnce, WillOf, NoSession
<1> QED
  BY <1>2, <1>3, <1>4, <1>5, <1>6 DEF IInv, Types

-----------------------------------------------------------------------------
(* Types.                                                                  *)

\* The lesser of two deadlines is a time.
LEMMA LesserTyped ==
  ASSUME NEW a \in Nat, NEW b \in Nat
  PROVE  Lesser(a, b) \in Nat
  BY DEF Lesser

\* Attaching a connection stores a session without deadlines.
LEMMA AttachedTyped ==
  ASSUME TypeOK, NEW k \in Conns, pc[k] = "handshake"
  PROVE  client[k] \in Clients /\ AttachedSession(k) \in Session
         /\ NotifyFor(k) \in Conns \union {Null}
<1>1. client[k] \in Clients /\ sessions[client[k]] \in Session
  BY DEF TypeOK
<1>2. NotifyFor(k) \in Conns \union {Null}
  BY <1>1 DEF NotifyFor, Session
<1>3. Will(k) \in Conns \union {Null}
  BY DEF Will
<1> QED
  BY <1>1, <1>2, <1>3 DEF AttachedSession, Session

\* CONNECT up to create_session keeps the types.
LEMMA ConnectTyped ==
  ASSUME Types, NEW k \in Conns, NEW r \in Request, ConnectTakeOver(k, r)
  PROVE  Types'
<1>1. /\ r.client \in Clients /\ r.clean \in BOOLEAN /\ r.expiry \in Nat
      /\ r.delay \in Nat \union {Null}
  BY LifecycleAssumption DEF Request, LifecycleAssumption
<1>2. GrantedExpiry(r) \in Nat
  BY <1>1, LesserTyped, LifecycleAssumption DEF GrantedExpiry, LifecycleAssumption
<1>3. TellTakenOver(owner[r.client]) \in [Conns -> BOOLEAN]
  BY DEF TellTakenOver, Types, TypeOK
<1>4. /\ pc' \in [Conns -> Phases] /\ client' \in [Conns -> Clients \union {Null}]
      /\ cleanStart' \in [Conns -> BOOLEAN] /\ willDelay' \in [Conns -> Nat \union {Null}]
      /\ expiry' \in [Conns -> Nat] /\ owner' \in [Clients -> Conns \union {Null}]
      /\ takeover' \in [Conns -> BOOLEAN]
  BY <1>1, <1>2, <1>3 DEF ConnectTakeOver, Types, TypeOK, Phases
<1>5. \A j \in Conns : pc'[j] # "open" => client'[j] \in Clients
  BY <1>1 DEF ConnectTakeOver, Types, TypeOK
<1> QED
  BY <1>4, <1>5 DEF ConnectTakeOver, Types, TypeOK, storeVars

\* create_session keeps the types.
LEMMA CreateTyped ==
  ASSUME Types, NEW k \in Conns, CreateSession(k)
  PROVE  Types'
<1> DEFINE c == client[k]
<1>1. c \in Clients /\ AttachedSession(k) \in Session /\ NotifyFor(k) \in Conns \union {Null}
  BY AttachedTyped DEF CreateSession, Types
<1>2. /\ willTimeouts' \subseteq willTimeouts /\ removeTimeouts' \subseteq removeTimeouts
  BY DEF CreateSession, Disarm
<1>3. IsFiniteSet(removeTimeouts')
  BY <1>2, FS_Subset DEF Types
<1>4. /\ pc' \in [Conns -> Phases] /\ notify' \in [Conns -> Conns \union {Null}]
      /\ sessions' \in [Clients -> Session] /\ lastWill' \in [Conns -> BOOLEAN]
      /\ cleanStart' \in [Conns -> BOOLEAN]
  BY <1>1 DEF CreateSession, Types, TypeOK, Phases
<1>5. \A j \in Conns : pc'[j] # "open" => client'[j] \in Clients
  BY <1>1 DEF CreateSession, Types, TypeOK
<1> QED
  BY <1>2, <1>3, <1>4, <1>5 DEF CreateSession, Types, TypeOK

\* A step of a task that touches neither its CONNECT nor the session table.
LEMMA LocalTyped ==
  ASSUME Types, NEW k \in Conns, pc[k] # "open",
         NEW to \in Phases, pc' = [pc EXCEPT ![k] = to],
         UNCHANGED <<now, connVars, notify, storeVars>>,
         expiry' \in [Conns -> Nat], lastWill' \in [Conns -> BOOLEAN],
         takeover' \in [Conns -> BOOLEAN], owner' \in [Clients -> Conns \union {Null}],
         connectionCount' \in Int
  PROVE  Types'
<1>1. pc' \in [Conns -> Phases] /\ \A j \in Conns : pc'[j] # "open" => client'[j] \in Clients
  BY DEF Types, TypeOK, connVars
<1> QED
  BY <1>1 DEF Types, TypeOK, connVars, storeVars

\* What a task does on its own keeps the types.
LEMMA TaskTyped ==
  ASSUME Types, NEW k \in Conns,
         \/ Socket(k) \/ SendWaits(k) \/ Leave(k) \/ HandleControl(k)
         \/ ServeWithoutSession(k) \/ UnmapConnection(k)
  PROVE  Types'
<1>1. CASE Socket(k) \/ SendWaits(k) \/ Leave(k)
  <2>1. /\ pc[k] # "open"
        /\ UNCHANGED <<now, connVars, expiry, lastWill, notify, takeover, owner, storeVars>>
        /\ connectionCount' \in {connectionCount, connectionCount + 1}
    BY <1>1 DEF Socket, SendConnAck, ConnAckFails, SendReturns, SendWaits, Leave
  <2>2. PICK to \in {"ready", "sending", "closing"} : pc' = [pc EXCEPT ![k] = to]
    BY <1>1 DEF Socket, SendConnAck, ConnAckFails, SendReturns, SendWaits, Leave
  <2>3. to \in Phases
    BY DEF Phases
  <2>4. connectionCount' \in Int
    BY <2>1 DEF Types, TypeOK
  <2>5. /\ expiry' \in [Conns -> Nat] /\ lastWill' \in [Conns -> BOOLEAN]
        /\ takeover' \in [Conns -> BOOLEAN] /\ owner' \in [Clients -> Conns \union {Null}]
    BY <2>1 DEF Types, TypeOK
  <2> QED
    BY <2>1, <2>2, <2>3, <2>4, <2>5, LocalTyped
<1>2. CASE HandleControl(k)
  <2>1. pc[k] # "open" /\ pc' = [pc EXCEPT ![k] = "done"] /\ "done" \in Phases
    BY <1>2 DEF HandleControl, Phases
  <2>2. connectionCount' \in Int
    BY <1>2 DEF HandleControl, Types, TypeOK
  <2>3. takeover' \in [Conns -> BOOLEAN]
    BY <1>2 DEF HandleControl, Types, TypeOK
  <2>4. /\ UNCHANGED <<now, connVars, notify, storeVars>>
        /\ UNCHANGED <<expiry, lastWill, owner>>
    BY <1>2 DEF HandleControl
  <2> QED
    BY <2>1, <2>2, <2>3, <2>4, LocalTyped DEF Types, TypeOK
<1>3. CASE ServeWithoutSession(k)
  <2>1. pc[k] # "open" /\ pc' = [pc EXCEPT ![k] = "panicked"] /\ "panicked" \in Phases
    BY <1>3 DEF ServeWithoutSession, Phases
  <2> QED
    BY <1>3, <2>1, LocalTyped DEF ServeWithoutSession, Types, TypeOK
<1>4. CASE UnmapConnection(k)
  <2>1. pc[k] # "open" /\ pc' = [pc EXCEPT ![k] = "unmapped"] /\ "unmapped" \in Phases
    BY <1>4 DEF UnmapConnection, Phases
  <2> QED
    BY <1>4, <2>1, LocalTyped DEF UnmapConnection, RouteErased, Types, TypeOK
<1> QED
  BY <1>1, <1>2, <1>3, <1>4

\* handle_disconnect keeps the types.
LEMMA DisconnectTyped ==
  ASSUME Types, NEW k \in Conns, NEW normal \in BOOLEAN, NEW e \in Expiries \union {Null},
         HandleDisconnect(k, normal, e)
  PROVE  Types'
<1>1. pc[k] # "open" /\ pc' = [pc EXCEPT ![k] = "closing"] /\ "closing" \in Phases
  BY DEF HandleDisconnect, Phases
<1>2. NewExpiry(k, e) \in Nat
  BY LifecycleAssumption DEF NewExpiry, Types, TypeOK, LifecycleAssumption
<1>3. expiry' \in [Conns -> Nat]
  BY <1>2 DEF HandleDisconnect, Types, TypeOK
<1>4. lastWill' \in [Conns -> BOOLEAN]
  BY DEF HandleDisconnect, Types, TypeOK
<1> QED
  BY <1>1, <1>3, <1>4, LocalTyped DEF HandleDisconnect, Types, TypeOK

\* The deadlines disconnect_session writes are points in time.
LEMMA DeadlinesTyped ==
  ASSUME Types, Wills, NEW k \in Conns, pc[k] = "unmapped"
  PROVE  /\ client[k] \in Clients
         /\ now + expiry[k] \in Nat
         /\ LET w == sessions[client[k]].lastWill IN
              w # Null => WillDeadline(k, w) \in Nat
<1>1. client[k] \in Clients /\ now \in Nat /\ expiry[k] \in Nat
  BY DEF Types, TypeOK
<1> DEFINE w == sessions[client[k]].lastWill
<1>2. ASSUME w # Null PROVE WillDeadline(k, w) \in Nat
  <2>1. w \in Conns
    BY <1>1, <1>2 DEF Types, TypeOK, Session
  <2>2. willDelay[w] # Null
    BY <1>1, <1>2 DEF Wills, WillOf
  <2>3. willDelay[w] \in Nat
    BY <2>1, <2>2 DEF Types, TypeOK
  <2>4. Lesser(willDelay[w], expiry[k]) \in Nat
    BY <1>1, <2>3, LesserTyped
  <2> QED
    BY <1>1, <2>4 DEF WillDeadline
<1> QED
  BY <1>1, <1>2

\* disconnect_session keeps the types: a will it arms has a delay.
LEMMA DisconnectSessionTyped ==
  ASSUME Types, Wills, NEW k \in Conns, DisconnectSession(k)
  PROVE  Types'
<1> DEFINE c      == client[k]
           w      == sessions[c].lastWill
           willAt == IF w = Null THEN sessions[c].willKey ELSE WillDeadline(k, w)
           dropAt == now + expiry[k]
<1>1. /\ pc[k] = "unmapped" /\ pc' = [pc EXCEPT ![k] = "done"]
      /\ takeover' = [takeover EXCEPT ![k] = FALSE]
      /\ connectionCount' = connectionCount - 1
      /\ UNCHANGED <<now, connVars, expiry, lastWill, notify, owner, clientsExpired, published>>
  BY DEF DisconnectSession
<1>2. c \in Clients /\ dropAt \in Nat /\ (w # Null => WillDeadline(k, w) \in Nat)
  BY <1>1, DeadlinesTyped
<1>3. sessions[c] \in Session
  BY <1>2 DEF Types, TypeOK
<1>4. willAt \in Nat \union {Null}
  BY <1>2, <1>3 DEF Session
<1>5. /\ sessions' \in [Clients -> Session]
      /\ willTimeouts' \subseteq TimeoutKey
      /\ removeTimeouts' \subseteq TimeoutKey /\ IsFiniteSet(removeTimeouts')
  <2>1. CASE ~Present(c)
    BY <2>1 DEF DisconnectSession, Types, TypeOK
  <2>2. CASE Present(c)
    <3>1. /\ sessions' = [sessions EXCEPT ![c].willKey = willAt, ![c].removeKey = dropAt]
          /\ willTimeouts' = IF w = Null THEN willTimeouts ELSE Arm(willTimeouts, c, willAt)
          /\ removeTimeouts' = Arm(removeTimeouts, c, dropAt)
      BY <2>2 DEF DisconnectSession
    <3>2. [[sessions[c] EXCEPT !.willKey = willAt] EXCEPT !.removeKey = dropAt] \in Session
      BY <1>2, <1>3, <1>4 DEF Session
    <3>3. sessions' \in [Clients -> Session]
      BY <1>2, <3>1, <3>2 DEF Types, TypeOK
    <3>4. Key(c, dropAt) \in TimeoutKey /\ (w # Null => Key(c, willAt) \in TimeoutKey)
      BY <1>2 DEF Key, TimeoutKey
    <3>5. willTimeouts' \subseteq TimeoutKey /\ removeTimeouts' \subseteq TimeoutKey
      BY <3>1, <3>4 DEF Arm, Types, TypeOK
    <3>6. IsFiniteSet(removeTimeouts')
      BY <3>1, FS_AddElement DEF Arm, Types
    <3> QED
      BY <3>3, <3>5, <3>6
  <2> QED
    BY <2>1, <2>2
<1>6. pc' \in [Conns -> Phases] /\ \A j \in Conns : pc'[j] # "open" => client'[j] \in Clients
  BY <1>1 DEF Types, TypeOK, Phases, connVars
<1>7. takeover' \in [Conns -> BOOLEAN]
  BY <1>1 DEF Types, TypeOK
<1>8. connectionCount' \in Int
  BY <1>1 DEF Types, TypeOK
<1> QED
  BY <1>1, <1>5, <1>6, <1>7, <1>8 DEF Types, TypeOK, connVars

\* update_sessions keeps the types.
LEMMA UpdateSessionsTyped == ASSUME Types, UpdateSessions PROVE Types'
<1>1. /\ willTimeouts' \subseteq willTimeouts /\ removeTimeouts' \subseteq removeTimeouts
  BY DEF UpdateSessions
<1>2. IsFiniteSet(removeTimeouts')
  BY <1>1, FS_Subset DEF Types
<1>3. sessions' \in [Clients -> Session]
  <2>1. NoSession \in Session
    BY DEF NoSession, Session
  <2>2. ASSUME NEW c \in Clients
        PROVE  sessions[c] \in Session /\ WillTaken(sessions[c]) \in Session
    BY DEF WillTaken, Session, Types, TypeOK
  <2> QED
    BY <2>1, <2>2 DEF UpdateSessions
<1>4. clientsExpired' \in Nat
  <2>1. IsFiniteSet(PoppedRemovals)
    BY FS_Subset DEF PoppedRemovals, Due, Types
  <2>2. Cardinality(PoppedRemovals) \in Nat
    BY <2>1, FS_CardinalityType
  <2> QED
    BY <2>2 DEF UpdateSessions, Types, TypeOK
<1>5. published' \in [Conns -> Nat]
  BY DEF UpdateSessions, Types, TypeOK
<1> QED
  BY <1>1, <1>2, <1>3, <1>4, <1>5 DEF UpdateSessions, Types, TypeOK, connVars

\* Every step keeps the types.
LEMMA NextTypes ==
  ASSUME Types, Wills, [Next]_vars
  PROVE  Types'
<1>1. ASSUME NEW k \in Conns, NEW r \in Request, ConnectTakeOver(k, r) PROVE Types'
  BY <1>1, ConnectTyped
<1>2. ASSUME NEW k \in Conns, Socket(k) \/ Serve(k) PROVE Types'
  BY <1>2, TaskTyped, DisconnectTyped DEF Serve
<1>3. ASSUME NEW k \in Conns, Task(k) PROVE Types'
  BY <1>3, CreateTyped, TaskTyped, DisconnectSessionTyped DEF Task
<1>4. CASE UpdateSessions
  BY <1>4, UpdateSessionsTyped
<1>5. CASE Tick
  BY <1>5 DEF Tick, Types, TypeOK, connVars, storeVars
<1>6. CASE UNCHANGED vars
  BY <1>6 DEF vars, Types, TypeOK, connVars, storeVars
<1> QED
  BY <1>1, <1>2, <1>3, <1>4, <1>5, <1>6 DEF Next

-----------------------------------------------------------------------------
(* Routes.                                                                 *)

\* Only a task that can still be reached is told, and it is the one the map
\* named before: the new one has nothing waiting.
LEMMA ConnectRoutes ==
  ASSUME Types, Routes, NEW k \in Conns, NEW r \in Request, ConnectTakeOver(k, r)
  PROVE  Routes'
<1> DEFINE old == owner[r.client]
<1>1. r.client \in Clients
  BY DEF Request
<1>2. /\ pc[k] = "open" /\ pc' = [pc EXCEPT ![k] = "handshake"]
      /\ client' = [client EXCEPT ![k] = r.client]
      /\ takeover' = [j \in Conns |-> takeover[j] \/ (j = old /\ Alive(j))]
      /\ owner' = [owner EXCEPT ![r.client] = k]
  BY DEF ConnectTakeOver, TellTakenOver
<1>3. old # k /\ ~takeover[k]
  BY <1>1, <1>2, LifecycleAssumption
  DEF Routes, RouteIsCurrent, TakeoverPending, LifecycleAssumption
<1>4. \A c \in Clients : c # r.client => owner[c] # k
  BY <1>2, LifecycleAssumption DEF Routes, RouteIsCurrent, LifecycleAssumption
<1>5. ASSUME NEW c \in Clients, c # r.client, owner[c] # Null PROVE owner[c] # old
  BY <1>1, <1>5 DEF Routes, RouteIsCurrent
<1>6. RouteIsCurrent'
  BY <1>1, <1>2, <1>3, <1>4, <1>5 DEF Routes, RouteIsCurrent, Types, TypeOK
<1>7. TakeoverPending'
  <2>1. old \in Conns => (Alive(old) => pc[old] \in {"handshake", "session", "ready", "sending", "closing"})
    BY <1>1, LifecycleAssumption DEF Routes, RouteIsCurrent, Alive, LifecycleAssumption
  <2> QED
    BY <1>2, <1>3, <2>1 DEF Routes, TakeoverPending, Types, TypeOK
<1> QED
  BY <1>6, <1>7 DEF Routes

\* A task goes on, and stays where the map may name it and its control channel
\* is read.
LEMMA GoesOnRoutes ==
  ASSUME Types, Routes, NEW k \in Conns, pc[k] \in {"handshake", "session", "ready", "sending"},
         NEW to \in {"session", "ready", "sending", "closing"}, pc' = [pc EXCEPT ![k] = to],
         UNCHANGED <<client, takeover, owner>>
  PROVE  Routes'
  BY DEF Routes, RouteIsCurrent, TakeoverPending, Types, TypeOK

\* A task that reads its control channel or ends keeps the map right.
LEMMA TaskRoutes ==
  ASSUME Types, Routes, NEW k \in Conns,
         \/ HandleControl(k) \/ ServeWithoutSession(k) \/ UnmapConnection(k)
         \/ DisconnectSession(k)
  PROVE  Routes'
<1>1. CASE HandleControl(k)
  BY <1>1 DEF HandleControl, Routes, RouteIsCurrent, TakeoverPending, Types, TypeOK, connVars
<1>2. CASE ServeWithoutSession(k)
  BY <1>2 DEF ServeWithoutSession, Routes, RouteIsCurrent, TakeoverPending, Types, TypeOK, connVars
<1>3. CASE UnmapConnection(k)
  BY <1>3 DEF UnmapConnection, RouteErased, Routes, RouteIsCurrent, TakeoverPending, Types,
              TypeOK, connVars
<1>4. CASE DisconnectSession(k)
  BY <1>4 DEF DisconnectSession, Routes, RouteIsCurrent, TakeoverPending, Types, TypeOK, connVars
<1> QED
  BY <1>1, <1>2, <1>3, <1>4

\* Every step keeps the routes.
LEMMA NextRoutes ==
  ASSUME Types, Routes, [Next]_vars
  PROVE  Routes'
<1>1. ASSUME NEW k \in Conns, NEW r \in Request, ConnectTakeOver(k, r) PROVE Routes'
  BY <1>1, ConnectRoutes
<1>2. ASSUME NEW k \in Conns,
             \/ CreateSession(k) \/ Socket(k) \/ SendWaits(k) \/ Leave(k)
             \/ \E normal \in BOOLEAN, e \in Expiries \union {Null} : HandleDisconnect(k, normal, e)
      PROVE  Routes'
  BY <1>2, GoesOnRoutes
  DEF CreateSession, Socket, SendConnAck, ConnAckFails, SendReturns, SendWaits, Leave,
      HandleDisconnect, connVars
<1>3. ASSUME NEW k \in Conns, Socket(k) \/ Serve(k) \/ Task(k) PROVE Routes'
  BY <1>2, <1>3, TaskRoutes DEF Serve, Task
<1>4. CASE UpdateSessions \/ Tick \/ UNCHANGED vars
  <2>1. UNCHANGED <<pc, client, takeover, owner>>
    BY <1>4 DEF UpdateSessions, Tick, vars, connVars
  <2> QED
    BY <2>1 DEF Routes, RouteIsCurrent, TakeoverPending
<1> QED
  BY <1>1, <1>3, <1>4 DEF Next

-----------------------------------------------------------------------------
(* Deadlines.                                                              *)

\* Keys of different clients are different.
LEMMA KeyDistinct ==
  ASSUME NEW c, NEW d, NEW s, NEW t, Key(c, s) = Key(d, t)
  PROVE  c = d /\ s = t
  BY DEF Key

\* create_session takes out the keys of one client, and leaves that client's
\* session without deadlines.
LEMMA CreateDeadlines ==
  ASSUME Types, DeadlinesIndexed, NEW k \in Conns, CreateSession(k)
  PROVE  DeadlinesIndexed'
<1> DEFINE c == client[k]
<1>1. /\ c \in Clients
      /\ sessions' = [sessions EXCEPT ![c] = AttachedSession(k)]
      /\ willTimeouts' = willTimeouts \ {Key(c, sessions[c].willKey)}
      /\ removeTimeouts' = removeTimeouts \ {Key(c, sessions[c].removeKey)}
  BY DEF CreateSession, Disarm, Types, TypeOK
<1>2. sessions'[c].removeKey = Null /\ sessions'[c].willKey = Null
  BY <1>1 DEF AttachedSession, Types, TypeOK
<1>3. ASSUME NEW d \in Clients, d # c
      PROVE  /\ sessions'[d].removeKey # Null => Key(d, sessions'[d].removeKey) \in removeTimeouts'
             /\ sessions'[d].willKey # Null /\ sessions'[d].lastWill # Null
                  => Key(d, sessions'[d].willKey) \in willTimeouts'
  <2>1. sessions'[d] = sessions[d]
    BY <1>1, <1>3 DEF Types, TypeOK
  <2>2. \A s, t : Key(d, s) # Key(c, t)
    BY <1>3, KeyDistinct
  <2> QED
    BY <1>1, <1>3, <2>1, <2>2 DEF DeadlinesIndexed
<1> QED
  BY <1>2, <1>3 DEF DeadlinesIndexed

\* disconnect_session puts in the keys it writes.
LEMMA DisconnectDeadlines ==
  ASSUME Types, DeadlinesIndexed, NEW k \in Conns, DisconnectSession(k)
  PROVE  DeadlinesIndexed'
<1> DEFINE c      == client[k]
           w      == sessions[c].lastWill
           willAt == IF w = Null THEN sessions[c].willKey ELSE WillDeadline(k, w)
           dropAt == now + expiry[k]
<1>1. c \in Clients /\ sessions[c] \in Session
  BY DEF DisconnectSession, Types, TypeOK
<1>2. CASE ~Present(c)
  BY <1>2 DEF DisconnectSession, DeadlinesIndexed
<1>3. CASE Present(c)
  <2>1. /\ sessions' = [sessions EXCEPT ![c].willKey = willAt, ![c].removeKey = dropAt]
        /\ willTimeouts' = IF w = Null THEN willTimeouts ELSE Arm(willTimeouts, c, willAt)
        /\ removeTimeouts' = Arm(removeTimeouts, c, dropAt)
    BY <1>3 DEF DisconnectSession
  <2>2. /\ sessions'[c].removeKey = dropAt /\ sessions'[c].willKey = willAt
        /\ sessions'[c].lastWill = w
    BY <1>1, <2>1 DEF Session, Types, TypeOK
  <2>3. Key(c, dropAt) \in removeTimeouts' /\ (w # Null => Key(c, willAt) \in willTimeouts')
    BY <2>1 DEF Arm
  <2>4. willTimeouts \subseteq willTimeouts' /\ removeTimeouts \subseteq removeTimeouts'
    BY <2>1 DEF Arm
  <2>5. \A d \in Clients : d # c => sessions'[d] = sessions[d]
    BY <2>1 DEF Types, TypeOK
  <2> QED
    BY <2>2, <2>3, <2>4, <2>5 DEF DeadlinesIndexed
<1> QED
  BY <1>2, <1>3

\* The timer takes out what is due; a session it leaves in the table has a
\* later deadline, and one it leaves a will has a later one for that.
LEMMA UpdateDeadlines ==
  ASSUME Types, DeadlinesIndexed, UpdateSessions
  PROVE  DeadlinesIndexed'
<1> SUFFICES ASSUME NEW c \in Clients
             PROVE  /\ sessions'[c].removeKey # Null
                         => Key(c, sessions'[c].removeKey) \in removeTimeouts'
                    /\ sessions'[c].willKey # Null /\ sessions'[c].lastWill # Null
                         => Key(c, sessions'[c].willKey) \in willTimeouts'
  BY DEF DeadlinesIndexed
<1>1. /\ willTimeouts' = (willTimeouts \ Due(willTimeouts))
                           \ {Key(d, sessions[d].willKey) : d \in ExpiredClients}
      /\ removeTimeouts' = (removeTimeouts \ Due(removeTimeouts))
                             \ {Key(d, sessions[d].removeKey) : d \in ExpiredClients}
      /\ sessions'[c] = IF c \in ExpiredClients THEN NoSession
                        ELSE IF c \in FiredWills THEN WillTaken(sessions[c]) ELSE sessions[c]
  BY DEF UpdateSessions
<1>2. CASE c \in ExpiredClients
  BY <1>1, <1>2 DEF NoSession
<1>3. CASE c \notin ExpiredClients
  <2>1. /\ sessions'[c].removeKey = sessions[c].removeKey
        /\ sessions'[c].willKey = sessions[c].willKey
        /\ sessions'[c].lastWill # Null => sessions'[c] = sessions[c] /\ c \notin FiredWills
    BY <1>1, <1>3 DEF WillTaken, Types, TypeOK, Session
  <2>2. ASSUME NEW t PROVE Key(c, t) \notin Due(removeTimeouts)
    BY <1>3 DEF ExpiredClients, Key
  <2>3. ASSUME NEW t, sessions[c].lastWill # Null, c \notin FiredWills
        PROVE  Key(c, t) \notin Due(willTimeouts)
    BY <2>3 DEF FiredWills, Key
  <2>4. ASSUME NEW t
        PROVE  /\ Key(c, t) \notin {Key(d, sessions[d].willKey) : d \in ExpiredClients}
               /\ Key(c, t) \notin {Key(d, sessions[d].removeKey) : d \in ExpiredClients}
    BY <1>3, KeyDistinct
  <2> QED
    BY <1>1, <2>1, <2>2, <2>3, <2>4 DEF DeadlinesIndexed
<1> QED
  BY <1>2, <1>3

\* Every step keeps the deadlines indexed.
LEMMA NextDeadlines ==
  ASSUME Types, DeadlinesIndexed, [Next]_vars
  PROVE  DeadlinesIndexed'
<1>1. ASSUME UNCHANGED <<sessions, willTimeouts, removeTimeouts>> PROVE DeadlinesIndexed'
  BY <1>1 DEF DeadlinesIndexed
<1>2. ASSUME NEW k \in Conns,
             \/ \E r \in Request : ConnectTakeOver(k, r)
             \/ Socket(k) \/ Serve(k)
             \/ HandleControl(k) \/ UnmapConnection(k)
      PROVE  DeadlinesIndexed'
  BY <1>1, <1>2
  DEF ConnectTakeOver, Socket, SendConnAck, ConnAckFails, SendReturns, Serve, SendWaits, Leave,
      HandleDisconnect, ServeWithoutSession, HandleControl, UnmapConnection, storeVars
<1>3. ASSUME NEW k \in Conns, Task(k) PROVE DeadlinesIndexed'
  BY <1>2, <1>3, CreateDeadlines, DisconnectDeadlines DEF Task
<1>4. CASE UpdateSessions
  BY <1>4, UpdateDeadlines
<1>5. CASE Tick \/ UNCHANGED vars
  BY <1>1, <1>5 DEF Tick, vars, storeVars
<1> QED
  BY <1>2, <1>3, <1>4, <1>5 DEF Next

-----------------------------------------------------------------------------
(* Wills.                                                                  *)

\* A step that leaves the wills, what was published and the CONNECTs alone, and
\* takes no task back to its handshake.
LEMMA WillsUntouched ==
  ASSUME Types, Wills,
         UNCHANGED <<client, willDelay, published>>,
         \A c \in Clients : sessions'[c].lastWill = sessions[c].lastWill,
         \A j \in Conns : pc'[j] \in {"open", "handshake"} => pc[j] = pc'[j]
  PROVE  Wills'
<1>1. WillAtMostOnce'
  BY DEF Wills, WillAtMostOnce
<1>2. \A j \in Conns : pc'[j] \in {"open", "handshake"} => published'[j] = 0
  BY DEF Wills
<1>3. ASSUME NEW c \in Clients PROVE WillOf(c)'
  <2>1. sessions[c].lastWill \in Conns \union {Null}
    BY DEF Types, TypeOK, Session
  <2> QED
    BY <2>1 DEF Wills, WillOf
<1> QED
  BY <1>1, <1>2, <1>3 DEF Wills

\* A task in front of its handshake has no will in any session.
LEMMA ConnectWills ==
  ASSUME Types, Wills, NEW k \in Conns, NEW r \in Request, ConnectTakeOver(k, r)
  PROVE  Wills'
<1>1. /\ pc[k] = "open" /\ pc' = [pc EXCEPT ![k] = "handshake"]
      /\ client' = [client EXCEPT ![k] = r.client]
      /\ willDelay' = [willDelay EXCEPT ![k] = r.delay]
      /\ UNCHANGED <<sessions, published>>
  BY DEF ConnectTakeOver, storeVars
<1>2. WillAtMostOnce'
  BY <1>1 DEF Wills, WillAtMostOnce
<1>3. \A j \in Conns : pc'[j] \in {"open", "handshake"} => published'[j] = 0
  BY <1>1 DEF Wills, Types, TypeOK
<1>4. ASSUME NEW c \in Clients PROVE WillOf(c)'
  <2>1. sessions[c].lastWill \in Conns \union {Null}
    BY DEF Types, TypeOK, Session
  <2>2. sessions[c].lastWill # k
    BY <1>1, LifecycleAssumption DEF Wills, WillOf, LifecycleAssumption
  <2> QED
    BY <1>1, <2>1, <2>2 DEF Wills, WillOf, Types, TypeOK
<1> QED
  BY <1>2, <1>3, <1>4 DEF Wills

\* The session gets the will of the connection that attaches, or none.
LEMMA CreateWills ==
  ASSUME Types, Wills, NEW k \in Conns, CreateSession(k)
  PROVE  Wills'
<1>1. /\ pc[k] = "handshake" /\ pc' = [pc EXCEPT ![k] = "session"]
      /\ sessions' = [sessions EXCEPT ![client[k]] = AttachedSession(k)]
      /\ UNCHANGED <<client, willDelay, published>>
  BY DEF CreateSession
<1>2. WillAtMostOnce' /\ \A j \in Conns : pc'[j] \in {"open", "handshake"} => published'[j] = 0
  BY <1>1 DEF Wills, WillAtMostOnce, Types, TypeOK
<1>3. ASSUME NEW c \in Clients PROVE WillOf(c)'
  <2>1. CASE c = client[k]
    <3>1. sessions'[c].lastWill = Will(k)
      BY <1>1, <2>1 DEF AttachedSession, Types, TypeOK
    <3>2. published[k] = 0
      BY <1>1 DEF Wills
    <3> QED
      BY <1>1, <2>1, <3>1, <3>2 DEF WillOf, Will, Types, TypeOK
  <2>2. CASE c # client[k]
    <3>1. sessions'[c] = sessions[c] /\ sessions[c].lastWill \in Conns \union {Null}
      BY <1>1, <2>2 DEF Types, TypeOK, Session
    <3> QED
      BY <1>1, <3>1 DEF Wills, WillOf, Types, TypeOK
  <2> QED
    BY <2>1, <2>2
<1> QED
  BY <1>2, <1>3 DEF Wills

\* The timer publishes a will and takes it out of its session in one step; the
\* will is that of one session only, because it belongs to a client.
LEMMA UpdateWills == ASSUME Types, Wills, UpdateSessions PROVE Wills'
<1>1. /\ published' = [k \in Conns |->
                         IF \E c \in FiredWills : sessions[c].lastWill = k
                           THEN published[k] + 1 ELSE published[k]]
      /\ UNCHANGED <<pc, client, willDelay>>
      /\ FiredWills \subseteq Clients
      /\ \A c \in FiredWills : sessions[c].lastWill # Null
  BY DEF UpdateSessions, connVars, FiredWills
<1>2. ASSUME NEW k \in Conns, \E c \in FiredWills : sessions[c].lastWill = k
      PROVE  published[k] = 0 /\ pc[k] \notin {"open", "handshake"} /\ published'[k] = 1
  BY <1>1, <1>2 DEF Wills, WillOf
<1>3. ASSUME NEW k \in Conns, ~ \E c \in FiredWills : sessions[c].lastWill = k
      PROVE  published'[k] = published[k]
  BY <1>1, <1>3
<1>4. WillAtMostOnce' /\ \A j \in Conns : pc'[j] \in {"open", "handshake"} => published'[j] = 0
  BY <1>1, <1>2, <1>3 DEF Wills, WillAtMostOnce
<1>5. ASSUME NEW c \in Clients PROVE WillOf(c)'
  <2>1. /\ sessions[c].lastWill \in Conns \union {Null}
        /\ sessions'[c] = IF c \in ExpiredClients THEN NoSession
                          ELSE IF c \in FiredWills THEN WillTaken(sessions[c]) ELSE sessions[c]
    BY DEF UpdateSessions, Types, TypeOK, Session
  <2>2. CASE c \in ExpiredClients \/ c \in FiredWills
    <3>1. sessions'[c].lastWill = Null
      BY <2>1, <2>2 DEF NoSession, WillTaken, Types, TypeOK, Session
    <3> QED
      BY <3>1 DEF WillOf
  <2>3. CASE c \notin ExpiredClients /\ c \notin FiredWills
    <3> DEFINE k == sessions[c].lastWill
    <3>1. sessions'[c] = sessions[c]
      BY <2>1, <2>3
    <3>2. ASSUME k # Null PROVE published'[k] = published[k]
      <4>1. k \in Conns /\ client[k] = c
        BY <2>1, <3>2 DEF Wills, WillOf
      <4>2. \A d \in FiredWills : sessions[d].lastWill # k
        BY <1>1, <2>3, <3>2, <4>1 DEF Wills, WillOf
      <4> QED
        BY <1>3, <4>1, <4>2
    <3> QED
      BY <1>1, <3>1, <3>2 DEF Wills, WillOf
  <2> QED
    BY <2>2, <2>3
<1> QED
  BY <1>4, <1>5 DEF Wills

\* Every step keeps the wills.
LEMMA NextWills ==
  ASSUME Types, Wills, [Next]_vars
  PROVE  Wills'
<1>1. ASSUME NEW k \in Conns, NEW r \in Request, ConnectTakeOver(k, r) PROVE Wills'
  BY <1>1, ConnectWills
<1>2. ASSUME NEW k \in Conns,
             \/ Socket(k) \/ Serve(k) \/ HandleControl(k)
             \/ UnmapConnection(k)
      PROVE  Wills'
  <2>1. UNCHANGED <<client, willDelay, published, sessions>>
    BY <1>2
    DEF Socket, SendConnAck, ConnAckFails, SendReturns, Serve, SendWaits, Leave,
        HandleDisconnect, ServeWithoutSession, HandleControl, UnmapConnection, storeVars, connVars
  <2>2. \E to \in Phases \ {"open", "handshake"} : pc' = [pc EXCEPT ![k] = to]
    BY <1>2
    DEF Socket, SendConnAck, ConnAckFails, SendReturns, Serve, SendWaits, Leave,
        HandleDisconnect, ServeWithoutSession, HandleControl, UnmapConnection, Phases
  <2>3. \A j \in Conns : pc'[j] \in {"open", "handshake"} => pc[j] = pc'[j]
    BY <2>2 DEF Types, TypeOK
  <2> QED
    BY <2>1, <2>3, WillsUntouched
<1>3. ASSUME NEW k \in Conns, DisconnectSession(k) PROVE Wills'
  <2>1. UNCHANGED <<client, willDelay, published>> /\ pc' = [pc EXCEPT ![k] = "done"]
    BY <1>3 DEF DisconnectSession, connVars
  <2>2. \A c \in Clients : sessions'[c].lastWill = sessions[c].lastWill
    BY <1>3 DEF DisconnectSession, Types, TypeOK, Session
  <2>3. \A j \in Conns : pc'[j] \in {"open", "handshake"} => pc[j] = pc'[j]
    BY <2>1 DEF Types, TypeOK
  <2> QED
    BY <2>1, <2>2, <2>3, WillsUntouched
<1>4. ASSUME NEW k \in Conns, Task(k) PROVE Wills'
  BY <1>2, <1>3, <1>4, CreateWills DEF Task
<1>5. CASE UpdateSessions
  BY <1>5, UpdateWills
<1>6. CASE Tick \/ UNCHANGED vars
  <2>1. UNCHANGED <<client, willDelay, published, sessions, pc>>
    BY <1>6 DEF Tick, vars, connVars, storeVars
  <2> QED
    BY <2>1, WillsUntouched
<1> QED
  BY <1>1, <1>2, <1>4, <1>5, <1>6 DEF Next

-----------------------------------------------------------------------------
\* Every step of every task, of the timer and of the clock keeps the invariant.
THEOREM NextIInv == IInv /\ [Next]_vars => IInv'
  BY NextTypes, NextRoutes, NextDeadlines, NextWills DEF IInv

\* IInv is an invariant under every interleaving.
LEMMA Invariance == Spec => []IInv
  BY InitIInv, NextIInv, PTL DEF Spec

\* The maps, deadlines and counters of connections and storage keep their types.
THEOREM TypeCorrect == Spec => []TypeOK
<1>1. IInv => TypeOK
  BY DEF IInv, Types
<1> QED
  BY <1>1, Invariance, PTL

\* The timer cannot miss a deadline that is written in a session
\* (create_session, disconnect_session, update_sessions, remove_session).
THEOREM NoDeadlineLost == Spec => []DeadlinesIndexed
<1>1. IInv => DeadlinesIndexed
  BY DEF IInv
<1> QED
  BY <1>1, Invariance, PTL

\* The connections map never names a task that is through or already told, so a
\* takeover reaches the task it is meant for (handle_connect, the cleanup).
THEOREM RoutesCurrent == Spec => []RouteIsCurrent
<1>1. IInv => RouteIsCurrent
  BY DEF IInv, Routes
<1> QED
  BY <1>1, Invariance, PTL

\* No will is published twice, whatever the interleaving of takeovers, cleanups
\* and timer ticks (last_will.take() in update_sessions).
THEOREM WillsAtMostOnce == Spec => []WillAtMostOnce
<1>1. IInv => WillAtMostOnce
  BY DEF IInv, Wills
<1> QED
  BY <1>1, Invariance, PTL

-----------------------------------------------------------------------------
(* On the schedule of CalmSpec.                                            *)

Active(k) ==
  pc[k] \in {"handshake", "session", "ready", "sending", "closing", "unmapped"} /\ ~takeover[k]

\* Task k attached to the session last: it was not taken over, or the one that
\* did so has not called create_session yet.
Holding(k) ==
  /\ pc[k] \in {"session", "ready", "sending", "closing", "unmapped"}
  /\ takeover[k] => \E j \in Conns : client[j] = client[k] /\ pc[j] = "handshake"

NoKeys(c) == \A key \in willTimeouts \union removeTimeouts : key.client # c

Turns ==
  /\ \A k \in Conns : takeover[k] => pc[k] = "ready"
  /\ \A j, k \in Conns : Active(j) /\ Active(k) /\ client[j] = client[k] => j = k
  /\ \A k \in Conns : Active(k) /\ pc[k] # "unmapped" => owner[client[k]] = k

SessionsHeld ==
  \A k \in Conns : Holding(k) =>
    /\ Present(client[k])
    /\ sessions[client[k]].notify = notify[k]
    /\ NoKeys(client[k])

WillsHeld ==
  \A c \in Clients, k \in Conns :
    sessions[c].lastWill = k => pc[k] = "done" \/ Holding(k)

KeysCurrent ==
  /\ \A key \in willTimeouts : key.timeout = sessions[key.client].willKey
  /\ \A key \in removeTimeouts : key.timeout = sessions[key.client].removeKey

WillFirst ==
  \A c \in Clients : LET s == sessions[c] IN
    /\ s.notify = Null => s = NoSession
    /\ s.willKey # Null => s.removeKey # Null
    /\ s.lastWill # Null /\ s.removeKey # Null => s.willKey # Null /\ s.willKey <= s.removeKey

Held == SessionsHeld /\ WillsHeld

Dated == KeysCurrent /\ WillFirst

CalmInv == IInv /\ Turns /\ Held /\ Dated

\* Before the first CONNECT nobody holds a session.
LEMMA InitCalm == Init => CalmInv
<1> SUFFICES ASSUME Init PROVE CalmInv
  OBVIOUS
<1>1. IInv
  BY InitIInv
<1>2. Turns /\ Held
  BY LifecycleAssumption
  DEF Init, Turns, Held, Active, SessionsHeld, WillsHeld, Holding, NoSession, LifecycleAssumption
<1>3. Dated
  BY DEF Init, Dated, KeysCurrent, WillFirst, NoSession
<1> QED
  BY <1>1, <1>2, <1>3 DEF CalmInv

\* A step of the calm schedule is a step of the program.
LEMMA CalmIsNext == CalmNext => Next
  BY DEF CalmNext, Next

\* While a task is active past its handshake, no other task holds the session
\* of its client.
LEMMA OneHolder ==
  ASSUME Turns, NEW j \in Conns, NEW k \in Conns, Active(k), pc[k] # "handshake",
         Holding(j), client[j] = client[k]
  PROVE  j = k
<1>1. ASSUME takeover[j] PROVE FALSE
  <2>1. PICK i \in Conns : client[i] = client[k] /\ pc[i] = "handshake"
    BY <1>1 DEF Holding
  <2>2. Active(i)
    BY <2>1 DEF Turns, Active
  <2> QED
    BY <2>1, <2>2 DEF Turns
<1> QED
  BY <1>1 DEF Turns, Holding, Active

-----------------------------------------------------------------------------
\* A step of task k inside its loop: who is active, who holds and what is
\* stored stay as they were.
LEMMA GoesOnCalm ==
  ASSUME Types, Turns, Held, NEW k \in Conns, ~takeover[k],
         pc[k] \in {"session", "ready", "sending", "closing"},
         NEW to \in {"ready", "sending", "closing", "unmapped"}, pc' = [pc EXCEPT ![k] = to],
         UNCHANGED <<client, takeover, notify, sessions, willTimeouts, removeTimeouts>>,
         \/ owner' = owner
         \/ to = "unmapped" /\ owner' = [owner EXCEPT ![client[k]] = Null]
  PROVE  Turns' /\ Held'
<1>1. /\ \A j \in Conns : Active(j)' = Active(j)
      /\ \A j \in Conns : (pc[j] = "handshake")' = (pc[j] = "handshake")
      /\ \A j \in Conns : pc[j] = "done" => pc'[j] = "done"
      /\ Active(k) /\ client[k] \in Clients
  BY DEF Active, Types, TypeOK
<1>2. \A j \in Conns : Holding(j)' = Holding(j)
  BY <1>1 DEF Holding, Types, TypeOK
<1>3. Turns'
  <2>1. \A j \in Conns : takeover'[j] => pc'[j] = "ready"
    BY DEF Turns, Types, TypeOK
  <2>2. ASSUME NEW j \in Conns, Active(j), pc'[j] # "unmapped" PROVE owner'[client[j]] = j
    <3>1. pc[j] # "unmapped" /\ owner[client[j]] = j /\ client[j] \in Clients
      BY <2>2 DEF Turns, Types, TypeOK, Active
    <3>2. CASE owner' = owner
      BY <3>1, <3>2
    <3>3. CASE to = "unmapped" /\ owner' = [owner EXCEPT ![client[k]] = Null]
      <4>1. j # k
        BY <2>2, <3>3 DEF Types, TypeOK
      <4>2. client[j] # client[k]
        BY <1>1, <2>2, <4>1 DEF Turns
      <4> QED
        BY <3>1, <3>3, <4>2 DEF Types, TypeOK
    <3> QED
      BY <3>2, <3>3
  <2> QED
    BY <1>1, <2>1, <2>2 DEF Turns
<1>4. SessionsHeld'
  BY <1>2 DEF Held, SessionsHeld, Present, NoKeys
<1>5. WillsHeld'
  <2>1. \A c \in Clients : sessions[c].lastWill \in Conns \union {Null}
    BY DEF Types, TypeOK, Session
  <2> QED
    BY <1>1, <1>2, <2>1 DEF Held, WillsHeld
<1> QED
  BY <1>3, <1>4, <1>5 DEF Held

\* A task that was taken over goes without a cleanup: it held nothing that the
\* one that took over does not hold.
LEMMA ControlCalm ==
  ASSUME Types, Turns, Held, NEW k \in Conns, HandleControl(k)
  PROVE  Turns' /\ Held'
<1>1. /\ pc[k] = "ready" /\ takeover[k] /\ pc' = [pc EXCEPT ![k] = "done"]
      /\ takeover' = [takeover EXCEPT ![k] = FALSE]
      /\ UNCHANGED <<client, owner, notify, sessions, willTimeouts, removeTimeouts>>
  BY DEF HandleControl, connVars, storeVars
<1>2. /\ \A j \in Conns : Active(j)' = Active(j)
      /\ \A j \in Conns : (pc[j] = "handshake")' = (pc[j] = "handshake")
      /\ \A j \in Conns : pc[j] = "done" \/ j = k => pc'[j] = "done"
      /\ \A j \in Conns : j # k => pc'[j] = pc[j] /\ takeover'[j] = takeover[j]
      /\ ~takeover'[k]
  BY <1>1 DEF Active, Types, TypeOK
<1>3. \A j \in Conns : /\ Holding(j)' => Holding(j)
                       /\ j # k /\ Holding(j) => Holding(j)'
  BY <1>1, <1>2 DEF Holding
<1>4. Turns'
  BY <1>1, <1>2 DEF Turns
<1>5. SessionsHeld'
  BY <1>1, <1>3 DEF Held, SessionsHeld, Present, NoKeys
<1>6. WillsHeld'
  <2>1. \A c \in Clients : sessions[c].lastWill \in Conns \union {Null}
    BY DEF Types, TypeOK, Session
  <2> QED
    BY <1>1, <1>2, <1>3, <2>1 DEF Held, WillsHeld
<1> QED
  BY <1>4, <1>5, <1>6 DEF Held

\* A CONNECT finds the client's other tasks in their loop or gone, and tells the
\* one that is in its loop.
LEMMA ConnectCalm ==
  ASSUME Types, Routes, Turns, Held, NEW k \in Conns, NEW r \in Request,
         ~Busy(r.client), ConnectTakeOver(k, r)
  PROVE  Turns' /\ Held'
<1> DEFINE c   == r.client
           old == owner[c]
<1>1. /\ pc[k] = "open" /\ pc' = [pc EXCEPT ![k] = "handshake"]
      /\ client' = [client EXCEPT ![k] = c]
      /\ takeover' = [j \in Conns |-> takeover[j] \/ (j = old /\ Alive(j))]
      /\ owner' = [owner EXCEPT ![c] = k]
      /\ UNCHANGED <<notify, sessions, willTimeouts, removeTimeouts>>
      /\ c \in Clients
  BY DEF ConnectTakeOver, TellTakenOver, storeVars, Request
<1>2. /\ \A j \in Conns : j # k => pc'[j] = pc[j] /\ client'[j] = client[j]
      /\ pc'[k] = "handshake" /\ client'[k] = c
      /\ owner'[c] = k /\ \A d \in Clients : d # c => owner'[d] = owner[d]
  BY <1>1 DEF Types, TypeOK
<1>3. old \in Conns => /\ client[old] = c /\ old # k
                       /\ Alive(old) => pc[old] = "ready" /\ ~takeover[old]
  BY <1>1, LifecycleAssumption DEF Routes, RouteIsCurrent, Busy, Alive, LifecycleAssumption
<1>4. ~takeover'[k] /\ ~takeover[k]
  BY <1>1, <1>3 DEF Turns
<1>5. ASSUME NEW j \in Conns, client[j] = c, j # k,
             pc[j] \in {"handshake", "session", "ready", "sending", "closing", "unmapped"}
      PROVE  pc[j] = "ready" /\ ~takeover[j] /\ takeover'[j]
  <2>1. pc[j] = "ready" /\ ~takeover[j]
    BY <1>5 DEF Busy
  <2>2. j = old
    BY <1>5, <2>1 DEF Turns, Active
  <2> QED
    BY <1>1, <2>1, <2>2 DEF Alive
<1>6. ASSUME NEW j \in Conns, client[j] # c, j # k PROVE takeover'[j] = takeover[j]
  BY <1>1, <1>3, <1>6 DEF Types, TypeOK
<1>7. Turns'
  <2>1. ASSUME NEW j \in Conns, takeover'[j] PROVE pc'[j] = "ready"
    BY <1>1, <1>2, <1>3, <1>4, <2>1 DEF Turns
  <2>2. ASSUME NEW j \in Conns, Active(j)', j # k
        PROVE  client[j] # c /\ client[j] \in Clients /\ Active(j) /\ client'[j] = client[j]
    <3>1. pc'[j] = pc[j] /\ client'[j] = client[j]
      BY <1>2, <2>2
    <3>2. client[j] # c
      BY <1>5, <2>2, <3>1 DEF Active
    <3>3. takeover'[j] = takeover[j]
      BY <1>6, <2>2, <3>2
    <3> QED
      BY <2>2, <3>1, <3>2, <3>3 DEF Active, Types, TypeOK
  <2>3. ASSUME NEW i \in Conns, NEW j \in Conns, Active(i)', Active(j)', client'[i] = client'[j]
        PROVE  i = j
    BY <1>2, <2>2, <2>3 DEF Turns
  <2>4. ASSUME NEW j \in Conns, Active(j)', pc'[j] # "unmapped" PROVE owner'[client'[j]] = j
    BY <1>2, <2>2, <2>4 DEF Turns
  <2> QED
    BY <2>1, <2>3, <2>4 DEF Turns
<1>8. ASSUME NEW j \in Conns, j # k PROVE Holding(j)' = Holding(j)
  <2>1. pc'[j] = pc[j] /\ client'[j] = client[j]
    BY <1>2, <1>8
  <2>2. CASE client[j] = c
    BY <1>2, <1>5, <1>8, <2>1, <2>2 DEF Holding
  <2>3. CASE client[j] # c
    <3>1. takeover'[j] = takeover[j]
      BY <1>6, <1>8, <2>3
    <3>2. \A i \in Conns : (client'[i] = client[j] /\ pc'[i] = "handshake")
                             = (client[i] = client[j] /\ pc[i] = "handshake")
      BY <1>1, <1>2, <2>3
    <3> QED
      BY <2>1, <3>1, <3>2 DEF Holding
  <2> QED
    BY <2>2, <2>3
<1>9. ~Holding(k)' /\ ~Holding(k)
  BY <1>1, <1>2 DEF Holding
<1>10. SessionsHeld'
  <2> SUFFICES ASSUME NEW j \in Conns, Holding(j)'
               PROVE  (/\ Present(client[j])
                       /\ sessions[client[j]].notify = notify[j]
                       /\ NoKeys(client[j]))'
    BY DEF SessionsHeld
  <2>1. Holding(j) /\ client'[j] = client[j]
    BY <1>2, <1>8, <1>9
  <2> QED
    BY <1>1, <2>1 DEF Held, SessionsHeld, Present, NoKeys
<1>11. WillsHeld'
  <2>1. \A d \in Clients : sessions[d].lastWill \in Conns \union {Null}
    BY DEF Types, TypeOK, Session
  <2>2. \A j \in Conns : pc[j] = "done" => pc'[j] = "done"
    BY <1>1, <1>2
  <2>3. \A j \in Conns : Holding(j) => Holding(j)'
    BY <1>8, <1>9
  <2> QED
    BY <1>1, <2>1, <2>2, <2>3 DEF Held, WillsHeld
<1> QED
  BY <1>7, <1>10, <1>11 DEF Held

\* The session that create_session leaves has no key in the timer's sets: the
\* keys of a client are those its session names.
LEMMA CreateNoKeys ==
  ASSUME Types, KeysCurrent, NEW k \in Conns, CreateSession(k)
  PROVE  NoKeys(client[k])'
<1> DEFINE c == client[k]
<1>1. /\ willTimeouts' = willTimeouts \ {Key(c, sessions[c].willKey)}
      /\ removeTimeouts' = removeTimeouts \ {Key(c, sessions[c].removeKey)}
      /\ client' = client
  BY DEF CreateSession, Disarm
<1>2. ASSUME NEW key \in TimeoutKey, key.client = c PROVE key = Key(c, key.timeout)
  BY <1>2 DEF TimeoutKey, Key
<1>3. ASSUME NEW key \in willTimeouts' \union removeTimeouts' PROVE key.client # c
  BY <1>1, <1>2, <1>3 DEF Types, TypeOK, KeysCurrent
<1> QED
  BY <1>1, <1>3 DEF NoKeys

\* create_session gives the session to a task whose turn it is.
LEMMA CreateCalm ==
  ASSUME Types, Turns, Held, Wills, KeysCurrent, NEW k \in Conns, CreateSession(k)
  PROVE  Turns' /\ Held'
<1> DEFINE c == client[k]
<1>1. /\ pc[k] = "handshake" /\ pc' = [pc EXCEPT ![k] = "session"]
      /\ sessions' = [sessions EXCEPT ![c] = AttachedSession(k)]
      /\ notify' = [notify EXCEPT ![k] = NotifyFor(k)]
      /\ willTimeouts' \subseteq willTimeouts /\ removeTimeouts' \subseteq removeTimeouts
      /\ UNCHANGED <<client, takeover, owner>>
  BY DEF CreateSession, Disarm
<1>2. /\ c \in Clients /\ ~takeover[k] /\ Active(k)
      /\ pc'[k] = "session" /\ \A j \in Conns : j # k => pc'[j] = pc[j]
  BY <1>1 DEF Turns, Active, Types, TypeOK
<1>3. /\ \A j \in Conns : Active(j)' = Active(j)
      /\ \A j \in Conns : pc'[j] = "handshake" => pc[j] = "handshake"
      /\ \A j \in Conns : pc[j] = "handshake" => j = k \/ pc'[j] = "handshake"
  BY <1>1, <1>2 DEF Active
<1>4. Turns'
  BY <1>1, <1>2, <1>3 DEF Turns
<1>5. ASSUME NEW j \in Conns, client[j] = c, Holding(j)' PROVE j = k
  <2>1. ASSUME NEW i \in Conns, client[i] = c, pc'[i] = "handshake" PROVE FALSE
    <3>1. pc[i] = "handshake" /\ i # k
      BY <1>2, <1>3, <2>1
    <3>2. Active(i)
      BY <3>1 DEF Turns, Active
    <3> QED
      BY <1>2, <2>1, <3>1, <3>2 DEF Turns
  <2>2. ~takeover[j]
    BY <1>1, <1>5, <2>1 DEF Holding
  <2>3. Active(j)'
    BY <1>1, <1>5, <2>2 DEF Holding, Active
  <2> QED
    BY <1>2, <1>3, <1>5, <2>3 DEF Turns
<1>6. ASSUME NEW j \in Conns, client[j] # c PROVE Holding(j)' = Holding(j)
  <2>1. j # k /\ pc'[j] = pc[j]
    BY <1>2, <1>6
  <2>2. \A i \in Conns : (client[i] = client[j] /\ pc'[i] = "handshake")
                           = (client[i] = client[j] /\ pc[i] = "handshake")
    BY <1>2, <1>6
  <2> QED
    BY <1>1, <2>1, <2>2 DEF Holding
<1>7. sessions'[c] = AttachedSession(k) /\ \A d \in Clients : d # c => sessions'[d] = sessions[d]
  BY <1>1, <1>2 DEF Types, TypeOK
<1>8. Holding(k)'
  BY <1>1, <1>2 DEF Holding
<1>9. SessionsHeld'
  <2> SUFFICES ASSUME NEW j \in Conns, Holding(j)'
               PROVE  /\ sessions'[client[j]].notify # Null
                      /\ sessions'[client[j]].notify = notify'[j]
                      /\ NoKeys(client[j])'
    BY <1>1 DEF SessionsHeld, Present
  <2>1. CASE client[j] = c
    <3>1. j = k
      BY <1>5, <2>1
    <3>2. NotifyFor(k) # Null /\ notify'[k] = NotifyFor(k)
      BY <1>1, LifecycleAssumption
      DEF NotifyFor, Resumes, Present, LifecycleAssumption, Types, TypeOK
    <3> QED
      BY <1>7, <2>1, <3>1, <3>2, CreateNoKeys DEF AttachedSession
  <2>2. CASE client[j] # c
    <3>1. Holding(j)
      BY <1>6, <2>2
    <3>2. /\ client[j] \in Clients /\ j # k
          /\ sessions'[client[j]] = sessions[client[j]]
          /\ notify'[j] = notify[j]
      BY <1>1, <1>7, <2>2, <3>1 DEF Holding, Types, TypeOK
    <3>3. NoKeys(client[j])'
      BY <1>1, <3>1 DEF Held, SessionsHeld, NoKeys
    <3> QED
      BY <3>1, <3>2, <3>3 DEF Held, SessionsHeld, Present
  <2> QED
    BY <2>1, <2>2
<1>10. WillsHeld'
  <2> SUFFICES ASSUME NEW d \in Clients, NEW w \in Conns, sessions'[d].lastWill = w
               PROVE  pc'[w] = "done" \/ Holding(w)'
    BY DEF WillsHeld
  <2>1. CASE d = c
    <3>1. w = k
      BY <1>7, <2>1, LifecycleAssumption DEF AttachedSession, Will, LifecycleAssumption
    <3> QED
      BY <1>8, <3>1
  <2>2. CASE d # c
    <3>1. sessions[d].lastWill = w
      BY <1>7, <2>2
    <3>2. client[w] = d /\ (pc[w] = "done" \/ Holding(w))
      BY <3>1, LifecycleAssumption DEF Held, WillsHeld, Wills, WillOf, LifecycleAssumption
    <3> QED
      BY <1>2, <1>6, <1>1, <2>2, <3>2
  <2> QED
    BY <2>1, <2>2
<1> QED
  BY <1>4, <1>9, <1>10 DEF Held

\* What disconnect_session finds under the calm schedule: the session the task
\* holds, without deadlines.
LEMMA DisconnectFinds ==
  ASSUME Types, Turns, Held, DeadlinesIndexed, WillFirst, NEW k \in Conns, DisconnectSession(k)
  PROVE  LET c      == client[k]
             w      == sessions[c].lastWill
             willAt == IF w = Null THEN Null ELSE WillDeadline(k, w)
         IN  /\ c \in Clients /\ Active(k) /\ Present(c) /\ NoKeys(c)
             /\ sessions[c].willKey = Null /\ sessions[c].removeKey = Null
             /\ sessions' = [sessions EXCEPT ![c].willKey = willAt,
                                             ![c].removeKey = now + expiry[k]]
             /\ willTimeouts' = IF w = Null THEN willTimeouts ELSE Arm(willTimeouts, c, willAt)
             /\ removeTimeouts' = Arm(removeTimeouts, c, now + expiry[k])
<1> DEFINE c == client[k]
<1>1. c \in Clients /\ pc[k] = "unmapped" /\ ~takeover[k]
  BY DEF DisconnectSession, Turns, Types, TypeOK
<1>2. Active(k) /\ Holding(k)
  BY <1>1 DEF Active, Holding
<1>3. Present(c) /\ NoKeys(c)
  BY <1>2 DEF Held, SessionsHeld
<1>4. sessions[c].removeKey = Null
  <2>1. \A t : Key(c, t).client = c
    BY DEF Key
  <2> QED
    BY <1>1, <1>3, <2>1 DEF DeadlinesIndexed, NoKeys
<1>5. sessions[c].willKey = Null
  BY <1>1, <1>4 DEF WillFirst
<1> QED
  BY <1>1, <1>2, <1>3, <1>4, <1>5 DEF DisconnectSession

\* disconnect_session lets go of a session its task held.
LEMMA DisconnectCalm ==
  ASSUME Types, Turns, Held, Wills, DeadlinesIndexed, WillFirst,
         NEW k \in Conns, DisconnectSession(k)
  PROVE  Turns' /\ Held'
<1> DEFINE c == client[k]
<1>1. /\ pc[k] = "unmapped" /\ pc' = [pc EXCEPT ![k] = "done"]
      /\ takeover' = [takeover EXCEPT ![k] = FALSE]
      /\ UNCHANGED <<client, owner, notify>>
  BY DEF DisconnectSession, connVars
<1>2. c \in Clients /\ Active(k)
  BY DisconnectFinds
<1>3. /\ pc'[k] = "done" /\ ~takeover'[k]
      /\ \A j \in Conns : j # k => pc'[j] = pc[j] /\ takeover'[j] = takeover[j]
      /\ \A j \in Conns : (pc[j] = "handshake")' = (pc[j] = "handshake")
  BY <1>1 DEF Types, TypeOK
<1>4. Turns'
  BY <1>1, <1>3 DEF Turns, Active
<1>5. ASSUME NEW j \in Conns, j # k PROVE Holding(j)' = Holding(j)
  BY <1>1, <1>3, <1>5 DEF Holding
<1>6. ASSUME NEW j \in Conns, j # k, Holding(j) PROVE client[j] # c /\ client[j] \in Clients
  BY <1>1, <1>2, <1>6, OneHolder DEF Holding, Types, TypeOK
<1>7. /\ \A d \in Clients : d # c => sessions'[d] = sessions[d]
      /\ \A d \in Clients : sessions'[d].lastWill = sessions[d].lastWill
      /\ \A key \in (willTimeouts \union removeTimeouts)' :
           key.client = c \/ key \in willTimeouts \union removeTimeouts
  <2> DEFINE w      == sessions[c].lastWill
             willAt == IF w = Null THEN Null ELSE WillDeadline(k, w)
             dropAt == now + expiry[k]
  <2>1. /\ sessions' = [sessions EXCEPT ![c].willKey = willAt, ![c].removeKey = dropAt]
        /\ willTimeouts' = IF w = Null THEN willTimeouts ELSE Arm(willTimeouts, c, willAt)
        /\ removeTimeouts' = Arm(removeTimeouts, c, dropAt)
    BY DisconnectFinds
  <2>2. sessions \in [Clients -> Session]
    BY DEF Types, TypeOK
  <2> HIDE DEF willAt, dropAt
  <2>3. \A key \in (willTimeouts \union removeTimeouts)' :
           key.client = c \/ key \in willTimeouts \union removeTimeouts
    BY <2>1 DEF Arm, Key
  <2>4. \A d \in Clients : d # c => sessions'[d] = sessions[d]
    BY <2>1, <2>2
  <2>5. sessions'[c].lastWill = sessions[c].lastWill
    BY <1>2, <2>1, <2>2 DEF Session
  <2> QED
    BY <2>3, <2>4, <2>5
<1>8. SessionsHeld'
  <2> SUFFICES ASSUME NEW j \in Conns, Holding(j)'
               PROVE  /\ sessions'[client[j]].notify # Null
                      /\ sessions'[client[j]].notify = notify[j]
                      /\ NoKeys(client[j])'
    BY <1>1 DEF SessionsHeld, Present
  <2>1. j # k /\ Holding(j)
    BY <1>3, <1>5 DEF Holding
  <2>2. client[j] # c /\ client[j] \in Clients
    BY <1>6, <2>1
  <2>3. Present(client[j]) /\ sessions[client[j]].notify = notify[j] /\ NoKeys(client[j])
    BY <2>1 DEF Held, SessionsHeld
  <2>4. NoKeys(client[j])'
    BY <1>1, <1>7, <2>2, <2>3 DEF NoKeys
  <2> QED
    BY <1>7, <2>2, <2>3, <2>4 DEF Present
<1>9. WillsHeld'
  <2> SUFFICES ASSUME NEW d \in Clients, NEW w \in Conns, sessions[d].lastWill = w
               PROVE  pc'[w] = "done" \/ Holding(w)'
    BY <1>7 DEF WillsHeld
  <2>1. pc[w] = "done" \/ Holding(w)
    BY DEF Held, WillsHeld
  <2> QED
    BY <1>3, <1>5, <2>1
<1> QED
  BY <1>4, <1>8, <1>9 DEF Held

\* The timer leaves alone what a connection holds.
LEMMA UpdateCalm ==
  ASSUME Types, Turns, Held, Dated, UpdateSessions
  PROVE  Turns' /\ Held'
<1>1. UNCHANGED <<pc, client, takeover, owner, notify>>
  BY DEF UpdateSessions, connVars
<1>2. /\ willTimeouts' \subseteq willTimeouts /\ removeTimeouts' \subseteq removeTimeouts
      /\ \A c \in Clients : sessions'[c] = IF c \in ExpiredClients THEN NoSession
                                           ELSE IF c \in FiredWills THEN WillTaken(sessions[c])
                                           ELSE sessions[c]
  BY DEF UpdateSessions
<1>3. Turns' /\ \A j \in Conns : Holding(j)' = Holding(j)
  BY <1>1 DEF Turns, Active, Holding
<1>4. ASSUME NEW c \in Clients, NoKeys(c) PROVE sessions'[c] = sessions[c] /\ NoKeys(c)'
  <2>1. c \notin ExpiredClients /\ c \notin FiredWills
    BY <1>4 DEF NoKeys, ExpiredClients, FiredWills, Due
  <2> QED
    BY <1>2, <1>4, <2>1 DEF NoKeys
<1>5. SessionsHeld'
  <2> SUFFICES ASSUME NEW j \in Conns, Holding(j)
               PROVE  /\ sessions'[client[j]].notify # Null
                      /\ sessions'[client[j]].notify = notify[j]
                      /\ NoKeys(client[j])'
    BY <1>1, <1>3 DEF SessionsHeld, Present
  <2>1. client[j] \in Clients
    BY DEF Holding, Types, TypeOK
  <2> QED
    <3>1. Present(client[j]) /\ sessions[client[j]].notify = notify[j] /\ NoKeys(client[j])
      BY DEF Held, SessionsHeld
    <3>2. sessions'[client[j]] = sessions[client[j]]
      BY <1>4, <2>1, <3>1
    <3>3. NoKeys(client[j])'
      BY <1>1, <1>2, <3>1 DEF NoKeys
    <3> QED
      BY <3>1, <3>2, <3>3 DEF Present
<1>6. WillsHeld'
  <2> SUFFICES ASSUME NEW c \in Clients, NEW w \in Conns, sessions'[c].lastWill = w
               PROVE  pc[w] = "done" \/ Holding(w)'
    BY <1>1 DEF WillsHeld
  <2>1. sessions[c] \in Session /\ w # Null
    BY LifecycleAssumption DEF LifecycleAssumption, Types, TypeOK
  <2>2. NoSession.lastWill = Null /\ WillTaken(sessions[c]).lastWill = Null
    BY <2>1 DEF NoSession, WillTaken, Session
  <2>3. sessions'[c] = sessions[c]
    BY <1>2, <2>1, <2>2
  <2> QED
    BY <1>3, <2>3 DEF Held, WillsHeld
<1> QED
  BY <1>3, <1>5, <1>6 DEF Held

-----------------------------------------------------------------------------
\* The keys of the sets are those the sessions name, and a will's deadline does
\* not lie behind its session's.
LEMMA CreateDated ==
  ASSUME Types, Dated, NEW k \in Conns, CreateSession(k)
  PROVE  Dated'
<1> DEFINE c == client[k]
<1>1. /\ c \in Clients
      /\ sessions' = [sessions EXCEPT ![c] = AttachedSession(k)]
      /\ willTimeouts' \subseteq willTimeouts /\ removeTimeouts' \subseteq removeTimeouts
      /\ client' = client
  BY DEF CreateSession, Disarm, Types, TypeOK
<1>2. sessions'[c] = AttachedSession(k) /\ \A d \in Clients : d # c => sessions'[d] = sessions[d]
  BY <1>1 DEF Types, TypeOK
<1>3. \A key \in willTimeouts' \union removeTimeouts' : key.client \in Clients /\ key.client # c
  BY <1>1, CreateNoKeys DEF NoKeys, Dated, Types, TypeOK, TimeoutKey
<1>4. KeysCurrent'
  BY <1>1, <1>2, <1>3 DEF Dated, KeysCurrent
<1>5. NotifyFor(k) # Null
  BY LifecycleAssumption DEF NotifyFor, Resumes, Present, LifecycleAssumption
<1>6. WillFirst'
  BY <1>2, <1>5 DEF Dated, WillFirst, AttachedSession
<1> QED
  BY <1>4, <1>6 DEF Dated

\* disconnect_session arms the will no later than the end of the session.
LEMMA DisconnectDated ==
  ASSUME Types, Turns, Held, Wills, DeadlinesIndexed, Dated, NEW k \in Conns, DisconnectSession(k)
  PROVE  Dated'
<1> DEFINE c      == client[k]
           w      == sessions[c].lastWill
           willAt == IF w = Null THEN Null ELSE WillDeadline(k, w)
           dropAt == now + expiry[k]
<1>1. /\ c \in Clients /\ Present(c) /\ NoKeys(c)
      /\ sessions' = [sessions EXCEPT ![c].willKey = willAt, ![c].removeKey = dropAt]
      /\ willTimeouts' = IF w = Null THEN willTimeouts ELSE Arm(willTimeouts, c, willAt)
      /\ removeTimeouts' = Arm(removeTimeouts, c, dropAt)
  BY DisconnectFinds DEF Dated
<1>2. sessions \in [Clients -> Session]
  BY DEF Types, TypeOK
<1>3. w # Null => willAt \in Nat /\ dropAt \in Nat /\ willAt <= dropAt
  <2> SUFFICES ASSUME w # Null PROVE willAt \in Nat /\ dropAt \in Nat /\ willAt <= dropAt
    OBVIOUS
  <2>1. w \in Conns /\ willDelay[w] \in Nat
    BY <1>1, <1>2 DEF Wills, WillOf, Session, Types, TypeOK
  <2>2. expiry[k] \in Nat /\ now \in Nat
    BY DEF Types, TypeOK
  <2>3. Lesser(willDelay[w], expiry[k]) \in Nat /\ Lesser(willDelay[w], expiry[k]) <= expiry[k]
    BY <2>1, <2>2 DEF Lesser
  <2> QED
    BY <2>2, <2>3 DEF WillDeadline
<1>4. dropAt \in Nat
  BY DEF Types, TypeOK
<1> HIDE DEF willAt, dropAt
<1>5. /\ \A d \in Clients : d # c => sessions'[d] = sessions[d]
      /\ sessions'[c].willKey = willAt /\ sessions'[c].removeKey = dropAt
      /\ sessions'[c].lastWill = w /\ sessions'[c].notify # Null
  BY <1>1, <1>2 DEF Session, Present
<1>6. KeysCurrent'
  <2>1. ASSUME NEW key \in willTimeouts' PROVE key.timeout = sessions'[key.client].willKey
    <3>1. CASE key \in willTimeouts
      BY <1>1, <1>5, <3>1 DEF NoKeys, Dated, KeysCurrent, Types, TypeOK, TimeoutKey
    <3>2. CASE key = Key(c, willAt)
      BY <1>5, <3>2 DEF Key
    <3> QED
      BY <1>1, <2>1, <3>1, <3>2 DEF Arm
  <2>2. ASSUME NEW key \in removeTimeouts' PROVE key.timeout = sessions'[key.client].removeKey
    <3>1. CASE key \in removeTimeouts
      BY <1>1, <1>5, <3>1 DEF NoKeys, Dated, KeysCurrent, Types, TypeOK, TimeoutKey
    <3>2. CASE key = Key(c, dropAt)
      BY <1>5, <3>2 DEF Key
    <3> QED
      BY <1>1, <2>2, <3>1, <3>2 DEF Arm
  <2> QED
    BY <2>1, <2>2 DEF KeysCurrent
<1>7. WillFirst'
  <2> SUFFICES ASSUME NEW d \in Clients
               PROVE  LET s == sessions'[d] IN
                        /\ s.notify = Null => s = NoSession
                        /\ s.willKey # Null => s.removeKey # Null
                        /\ s.lastWill # Null /\ s.removeKey # Null
                             => s.willKey # Null /\ s.willKey <= s.removeKey
    BY DEF WillFirst
  <2>1. CASE d = c
    BY <1>3, <1>4, <1>5, <2>1, LifecycleAssumption DEF LifecycleAssumption
  <2>2. CASE d # c
    BY <1>5, <2>2 DEF Dated, WillFirst
  <2> QED
    BY <2>1, <2>2
<1> QED
  BY <1>6, <1>7 DEF Dated

\* update_sessions takes a deadline off with what it belongs to.
LEMMA UpdateDated ==
  ASSUME Types, Dated, UpdateSessions
  PROVE  Dated'
<1>1. /\ willTimeouts' = (willTimeouts \ Due(willTimeouts))
                           \ {Key(d, sessions[d].willKey) : d \in ExpiredClients}
      /\ removeTimeouts' = (removeTimeouts \ Due(removeTimeouts))
                             \ {Key(d, sessions[d].removeKey) : d \in ExpiredClients}
      /\ \A c \in Clients : sessions'[c] = IF c \in ExpiredClients THEN NoSession
                                           ELSE IF c \in FiredWills THEN WillTaken(sessions[c])
                                           ELSE sessions[c]
  BY DEF UpdateSessions
<1>2. ASSUME NEW c \in Clients, c \notin ExpiredClients
      PROVE  /\ sessions'[c].willKey = sessions[c].willKey
             /\ sessions'[c].removeKey = sessions[c].removeKey
             /\ sessions'[c].notify = sessions[c].notify
             /\ sessions'[c].lastWill = Null \/ sessions'[c] = sessions[c]
             /\ sessions[c].lastWill = Null => sessions'[c] = sessions[c]
  <2>1. sessions[c] \in Session
    BY DEF Types, TypeOK
  <2>2. CASE c \in FiredWills
    <3>1. sessions'[c] = WillTaken(sessions[c]) /\ sessions[c].lastWill # Null
      BY <1>1, <1>2, <2>2 DEF FiredWills
    <3> QED
      BY <2>1, <3>1 DEF WillTaken, Session
  <2>3. CASE c \notin FiredWills
    BY <1>1, <1>2, <2>3
  <2> QED
    BY <2>2, <2>3
<1>3. ASSUME NEW key \in TimeoutKey PROVE key = Key(key.client, key.timeout) /\ key.client \in Clients
  BY DEF TimeoutKey, Key
<1>4. KeysCurrent'
  <2>1. ASSUME NEW key \in willTimeouts' PROVE key.timeout = sessions'[key.client].willKey
    <3>1. key \in TimeoutKey /\ key.timeout = sessions[key.client].willKey
      BY <1>1, <2>1 DEF Dated, KeysCurrent, Types, TypeOK
    <3>2. key.client \notin ExpiredClients
      BY <1>1, <1>3, <2>1, <3>1
    <3> QED
      BY <1>2, <1>3, <3>1, <3>2
  <2>2. ASSUME NEW key \in removeTimeouts' PROVE key.timeout = sessions'[key.client].removeKey
    <3>1. key \in TimeoutKey /\ key.timeout = sessions[key.client].removeKey
      BY <1>1, <2>2 DEF Dated, KeysCurrent, Types, TypeOK
    <3>2. key.client \notin ExpiredClients
      BY <1>1, <1>3, <2>2, <3>1
    <3> QED
      BY <1>2, <1>3, <3>1, <3>2
  <2> QED
    BY <2>1, <2>2 DEF KeysCurrent
<1>5. WillFirst'
  <2> SUFFICES ASSUME NEW c \in Clients
               PROVE  LET s == sessions'[c] IN
                        /\ s.notify = Null => s = NoSession
                        /\ s.willKey # Null => s.removeKey # Null
                        /\ s.lastWill # Null /\ s.removeKey # Null
                             => s.willKey # Null /\ s.willKey <= s.removeKey
    BY DEF WillFirst
  <2>1. CASE c \in ExpiredClients
    BY <1>1, <2>1 DEF NoSession
  <2>2. CASE c \notin ExpiredClients
    <3>1. sessions[c].notify = Null => sessions'[c] = NoSession
      BY <1>2, <2>2 DEF Dated, WillFirst, NoSession
    <3> QED
      BY <1>2, <2>2, <3>1 DEF Dated, WillFirst
  <2> QED
    BY <2>1, <2>2
<1> QED
  BY <1>4, <1>5 DEF Dated

-----------------------------------------------------------------------------
\* Nothing but create_session, disconnect_session and the timer touches the
\* session table.
LEMMA TableUntouched ==
  ASSUME NEW k \in Conns,
         \/ \E r \in Request : ConnectTakeOver(k, r)
         \/ Socket(k) \/ Serve(k) \/ HandleControl(k)
         \/ UnmapConnection(k)
  PROVE  UNCHANGED <<sessions, willTimeouts, removeTimeouts, clientsExpired, published>>
  BY DEF ConnectTakeOver, Socket, SendConnAck, ConnAckFails, SendReturns, Serve, SendWaits,
         Leave, HandleDisconnect, ServeWithoutSession, HandleControl, UnmapConnection, storeVars

\* A task that was not told to go finds the session it serves, so none panics.
LEMMA NoPanic ==
  ASSUME Held, NEW k \in Conns, ~takeover[k]
  PROVE  ~ServeWithoutSession(k)
  BY DEF ServeWithoutSession, Held, SessionsHeld, Holding

\* Every step of the calm schedule keeps the invariant.
THEOREM NextCalm == CalmInv /\ [CalmNext]_vars => CalmInv'
<1> SUFFICES ASSUME CalmInv, [CalmNext]_vars PROVE CalmInv'
  OBVIOUS
<1>1. /\ IInv /\ Types /\ Routes /\ DeadlinesIndexed /\ Wills /\ Turns /\ Held /\ Dated
      /\ KeysCurrent /\ WillFirst
  BY DEF CalmInv, IInv, Dated
<1>2. IInv'
  BY <1>1, CalmIsNext, NextIInv
<1>3. ASSUME UNCHANGED <<sessions, willTimeouts, removeTimeouts>> PROVE Dated'
  BY <1>1, <1>3 DEF Dated, KeysCurrent, WillFirst
<1>4. ASSUME NEW k \in Conns, NEW r \in Request, ~Busy(r.client), ConnectTakeOver(k, r)
      PROVE  Turns' /\ Held' /\ Dated'
  BY <1>1, <1>3, <1>4, ConnectCalm, TableUntouched
<1>5. ASSUME NEW k \in Conns,
             \/ Socket(k) \/ UnmapConnection(k)
             \/ ~takeover[k] /\ (SendWaits(k) \/ Leave(k))
             \/ ~takeover[k] /\ \E normal \in BOOLEAN, e \in Expiries \union {Null} :
                                  HandleDisconnect(k, normal, e)
      PROVE  Turns' /\ Held' /\ Dated'
  <2>1. /\ pc[k] \in {"session", "ready", "sending", "closing"}
        /\ UNCHANGED <<client, takeover, notify, sessions, willTimeouts, removeTimeouts>>
        /\ \E to \in {"ready", "sending", "closing", "unmapped"} :
             /\ pc' = [pc EXCEPT ![k] = to]
             /\ owner' = owner \/ (to = "unmapped" /\ owner' = [owner EXCEPT ![client[k]] = Null])
    BY <1>5
    DEF Socket, SendConnAck, ConnAckFails, SendReturns, SendWaits, UnmapConnection, RouteErased,
        Leave, HandleDisconnect, storeVars, connVars
  <2>2. ~takeover[k]
    BY <1>1, <1>5 DEF Turns, Socket, SendConnAck, ConnAckFails, SendReturns, UnmapConnection
  <2> QED
    BY <1>1, <1>3, <2>1, <2>2, GoesOnCalm
<1>6. ASSUME NEW k \in Conns, ~takeover[k], Serve(k) PROVE Turns' /\ Held' /\ Dated'
  BY <1>1, <1>5, <1>6, NoPanic DEF Serve
<1>7. ASSUME NEW k \in Conns, CreateSession(k) PROVE Turns' /\ Held' /\ Dated'
  BY <1>1, <1>7, CreateCalm, CreateDated
<1>8. ASSUME NEW k \in Conns, HandleControl(k) PROVE Turns' /\ Held' /\ Dated'
  BY <1>1, <1>3, <1>8, ControlCalm, TableUntouched
<1>9. ASSUME NEW k \in Conns, DisconnectSession(k) PROVE Turns' /\ Held' /\ Dated'
  BY <1>1, <1>9, DisconnectCalm, DisconnectDated
<1>10. ASSUME NEW k \in Conns, Task(k) PROVE Turns' /\ Held' /\ Dated'
  BY <1>5, <1>7, <1>8, <1>9, <1>10 DEF Task
<1>11. ASSUME UpdateSessions PROVE Turns' /\ Held' /\ Dated'
  BY <1>1, <1>11, UpdateCalm, UpdateDated
<1>12. ASSUME Tick \/ UNCHANGED vars PROVE Turns' /\ Held' /\ Dated'
  <2>1. UNCHANGED <<pc, client, takeover, owner, notify, sessions, willTimeouts, removeTimeouts>>
    BY <1>12 DEF Tick, vars, connVars, storeVars
  <2>2. Turns' /\ \A j \in Conns : Holding(j)' = Holding(j)
    BY <1>1, <2>1 DEF Turns, Active, Holding
  <2>3. SessionsHeld' /\ WillsHeld'
    BY <1>1, <2>1, <2>2 DEF Held, SessionsHeld, WillsHeld, Present, NoKeys
  <2> QED
    BY <1>3, <2>1, <2>2, <2>3 DEF Held
<1>13. Turns' /\ Held' /\ Dated'
  BY <1>4, <1>5, <1>6, <1>10, <1>11, <1>12 DEF CalmNext
<1> QED
  BY <1>2, <1>13 DEF CalmInv

\* CalmInv is an invariant of the calm schedule.
LEMMA CalmInvariance == CalmSpec => []CalmInv
  BY InitCalm, NextCalm, PTL DEF CalmSpec

\* On the calm schedule at most one connection serves a client id (handle_connect
\* tells the one before, its select! loop obeys).
THEOREM OneOwner == CalmSpec => []SingleOwner
<1>1. CalmInv => SingleOwner
  BY DEF CalmInv, Turns, SingleOwner, Established, Active
<1> QED
  BY <1>1, CalmInvariance, PTL

\* On the calm schedule the session a connection serves is in the table, wakes
\* that connection and has no deadline running: update_sessions cannot take it
\* away, and no unwrap of sessions.get(client_id) can fail.
THEOREM LiveSessionsKept == CalmSpec => []LiveSessionKept
<1>1. CalmInv => LiveSessionKept
  BY DEF CalmInv, Held, SessionsHeld, LiveSessionKept, Established, Holding, NoKeys
<1> QED
  BY <1>1, CalmInvariance, PTL

\* What the timer does on the calm schedule: the client of a will it publishes,
\* or of a session it ends, is served by nobody, its session is there and
\* detached, and a session that ends has its will published first.
LEMMA SweepFinds ==
  ASSUME CalmInv, NEW c \in Clients, c \in ExpiredClients \/ c \in FiredWills
  PROVE  /\ ~NoKeys(c)
         /\ Present(c) /\ sessions[c].removeKey # Null
         /\ sessions[c].lastWill # Null => c \in FiredWills
<1>1. /\ Types /\ DeadlinesIndexed /\ KeysCurrent /\ WillFirst
  BY DEF CalmInv, IInv, Dated
<1>2. sessions[c] \in Session /\ now \in Nat
  BY <1>1 DEF Types, TypeOK
<1>3. CASE c \in ExpiredClients
  <2>1. PICK key \in removeTimeouts : key.client = c /\ key.timeout < now
    BY <1>3 DEF ExpiredClients, Due
  <2>2. key.timeout \in Nat /\ key.timeout = sessions[c].removeKey
    BY <1>1, <2>1 DEF Types, TypeOK, TimeoutKey, KeysCurrent
  <2>3. sessions[c].removeKey # Null
    BY <2>2, LifecycleAssumption DEF LifecycleAssumption
  <2>4. Present(c)
    BY <1>1, <2>3 DEF WillFirst, Present, NoSession
  <2>5. ASSUME sessions[c].lastWill # Null PROVE c \in FiredWills
    <3> DEFINE at == sessions[c].willKey
    <3>1. at # Null /\ at <= sessions[c].removeKey
      BY <1>1, <2>3, <2>5 DEF WillFirst
    <3>2. Key(c, at) \in willTimeouts
      BY <1>1, <2>5, <3>1 DEF DeadlinesIndexed
    <3>3. at \in Nat /\ at < now
      BY <1>2, <2>1, <2>2, <3>1 DEF Session
    <3>4. Key(c, at).client = c /\ Key(c, at) \in Due(willTimeouts)
      BY <3>2, <3>3 DEF Due, Key
    <3> QED
      BY <2>5, <3>4 DEF FiredWills
  <2> QED
    BY <2>1, <2>3, <2>4, <2>5 DEF NoKeys
<1>4. CASE c \in FiredWills
  <2>1. PICK key \in willTimeouts : key.client = c
    BY <1>4 DEF FiredWills, Due
  <2>2. key.timeout \in Nat /\ key.timeout = sessions[c].willKey
    BY <1>1, <2>1 DEF Types, TypeOK, TimeoutKey, KeysCurrent
  <2>3. sessions[c].willKey # Null
    BY <2>2, LifecycleAssumption DEF LifecycleAssumption
  <2>4. sessions[c].removeKey # Null /\ Present(c)
    BY <1>1, <2>3 DEF WillFirst, Present, NoSession
  <2> QED
    BY <1>4, <2>1, <2>4 DEF NoKeys
<1> QED
  BY <1>3, <1>4

\* Wills are published by update_sessions alone.
LEMMA OnlyTimerPublishes ==
  ASSUME [CalmNext]_vars, ~UpdateSessions
  PROVE  published' = published
<1>1. ASSUME NEW k \in Conns, CreateSession(k) \/ DisconnectSession(k)
      PROVE  published' = published
  BY <1>1 DEF CreateSession, DisconnectSession
<1> QED
  BY <1>1, TableUntouched DEF CalmNext, Task, Tick, storeVars, vars

\* On the calm schedule no will is published while the connection that left it
\* is still at work (update_sessions after disconnect_session).
THEOREM WillsOnlyAfterLoss == CalmSpec => WillOnlyAfterLoss
<1>1. ASSUME CalmInv, [CalmNext]_vars, NEW k \in Conns, published'[k] # published[k]
      PROVE  pc[k] = "done"
  <2>1. UpdateSessions
    BY <1>1, OnlyTimerPublishes
  <2>2. PICK c \in Clients : c \in FiredWills /\ sessions[c].lastWill = k
    BY <1>1, <2>1 DEF UpdateSessions, FiredWills
  <2>3. client[k] = c
    BY <1>1, <2>2, LifecycleAssumption DEF CalmInv, IInv, Wills, WillOf, LifecycleAssumption
  <2>4. ~NoKeys(c)
    BY <1>1, <2>2, SweepFinds
  <2> QED
    BY <1>1, <2>2, <2>3, <2>4 DEF CalmInv, Held, SessionsHeld, WillsHeld
<1>2. CalmInv /\ [CalmNext]_vars
        => [\A k \in Conns : published'[k] # published[k] => pc[k] = "done"]_vars
  BY <1>1
<1> QED
  BY <1>2, CalmInvariance, PTL DEF CalmSpec, WillOnlyAfterLoss

\* On the calm schedule a session that ends by its timeout has had its will
\* published (delay_interval.min(expiry), the order of the two loops of
\* update_sessions).
THEOREM NoWillLost == CalmSpec => NoWillLostByExpiry
<1>1. ASSUME CalmInv, [CalmNext]_vars, NEW c \in Clients, c \in ExpiredClients,
             sessions[c].lastWill # Null, ~Present(c)'
      PROVE  published'[sessions[c].lastWill] = published[sessions[c].lastWill] + 1
  <2>1. Present(c) /\ c \in FiredWills /\ sessions[c].lastWill \in Conns
    BY <1>1, SweepFinds DEF CalmInv, IInv, Types, TypeOK, Session
  <2>2. ASSUME NEW k \in Conns, CreateSession(k) PROVE FALSE
    <3>1. client[k] \in Clients /\ NotifyFor(k) # Null
      BY <1>1, <2>2, LifecycleAssumption
      DEF CreateSession, CalmInv, IInv, Types, TypeOK, NotifyFor, Resumes, Present,
          LifecycleAssumption
    <3>2. sessions' = [sessions EXCEPT ![client[k]] = AttachedSession(k)]
      BY <2>2 DEF CreateSession
    <3> QED
      BY <1>1, <2>1, <3>1, <3>2 DEF CalmInv, IInv, Types, TypeOK, AttachedSession, Present
  <2>3. ASSUME NEW k \in Conns, DisconnectSession(k) PROVE FALSE
    BY <1>1, <2>1, <2>3 DEF DisconnectSession, CalmInv, IInv, Types, TypeOK, Session, Present
  <2>4. UpdateSessions \/ sessions' = sessions
    BY <1>1, <2>2, <2>3, TableUntouched DEF CalmNext, Task, Tick, storeVars, vars
  <2>5. UpdateSessions
    BY <1>1, <2>1, <2>4 DEF Present
  <2> QED
    BY <2>1, <2>5 DEF UpdateSessions
<1>2. CalmInv /\ [CalmNext]_vars
        => [\A c \in Clients :
              LET w == sessions[c].lastWill IN
              c \in ExpiredClients /\ w # Null /\ ~Present(c)'
                => published'[w] = published[w] + 1]_vars
  BY <1>1
<1> QED
  BY <1>2, CalmInvariance, PTL DEF CalmSpec, NoWillLostByExpiry

-----------------------------------------------------------------------------
(* Refinement: each step of the calm schedule is a step of SessionContract, *)
(* or changes nothing the contract sees.                                   *)

\* create_session attaches.
LEMMA CreateAttaches ==
  ASSUME CalmInv, NEW k \in Conns, CreateSession(k), NEW c \in Clients, c = client[k]
  PROVE  Contract!Attach(k, c)
<1>1. /\ pc[k] = "handshake" /\ published' = published
      /\ sessions' = [sessions EXCEPT ![c] = AttachedSession(k)]
      /\ sessions \in [Clients -> Session]
  BY DEF CreateSession, CalmInv, IInv, Types, TypeOK
<1>2. /\ sessions'[c] = AttachedSession(k)
      /\ \A d \in Clients : d # c => sessions'[d] = sessions[d]
  BY <1>1
<1>3. NotifyFor(k) # Null
  BY LifecycleAssumption DEF NotifyFor, Resumes, Present, LifecycleAssumption
<1>4. k \notin {j \in Conns : published[j] > 0}
  BY <1>1 DEF CalmInv, IInv, Wills
<1>5. \A d \in Clients : sessions[d].lastWill # k
  BY <1>1, LifecycleAssumption DEF CalmInv, IInv, Wills, WillOf, LifecycleAssumption
<1>6. [d \in Clients |-> Phase(d)]' = [[d \in Clients |-> Phase(d)] EXCEPT ![c] = "live"]
  <2>1. \A d \in Clients : Phase(d)' = IF d = c THEN "live" ELSE Phase(d)
    BY <1>1, <1>2, <1>3 DEF Phase, Present, AttachedSession
  <2> QED
    BY <1>1, <2>1
<1>7. [d \in Clients |-> sessions[d].lastWill]'
        = [[d \in Clients |-> sessions[d].lastWill] EXCEPT ![c] = Will(k)]
  BY <1>1, <1>2 DEF AttachedSession
<1>8. Will(k) \in {k, Null}
  BY DEF Will
<1> QED
  BY <1>1, <1>4, <1>5, <1>6, <1>7, <1>8 DEF Contract!Attach

\* disconnect_session detaches.
LEMMA DisconnectDetaches ==
  ASSUME CalmInv, NEW k \in Conns, DisconnectSession(k), NEW c \in Clients, c = client[k]
  PROVE  Contract!Detach(c)
<1> DEFINE w      == sessions[c].lastWill
           willAt == IF w = Null THEN Null ELSE WillDeadline(k, w)
           dropAt == now + expiry[k]
<1>1. /\ Present(c) /\ sessions[c].removeKey = Null
      /\ sessions' = [sessions EXCEPT ![c].willKey = willAt, ![c].removeKey = dropAt]
      /\ sessions \in [Clients -> Session] /\ published' = published /\ client' = client
  BY DisconnectFinds DEF CalmInv, IInv, Dated, Types, TypeOK, DisconnectSession, connVars
<1>2. dropAt # Null
  BY LifecycleAssumption DEF LifecycleAssumption, CalmInv, IInv, Types, TypeOK
<1> HIDE DEF willAt, dropAt
<1>3. /\ sessions'[c].removeKey = dropAt /\ sessions'[c].lastWill = w
      /\ sessions'[c].notify = sessions[c].notify
      /\ \A d \in Clients : d # c => sessions'[d] = sessions[d]
  BY <1>1 DEF Session
<1>4. Phase(c) = "live" /\ sessions'[c].notify # Null
  BY <1>1, <1>3 DEF Phase, Present
<1>5. \A d \in Clients : Phase(d)' = IF d = c THEN "detached" ELSE Phase(d)
  BY <1>1, <1>2, <1>3, <1>4 DEF Phase, Present
<1>6. [d \in Clients |-> Phase(d)]' = [[d \in Clients |-> Phase(d)] EXCEPT ![c] = "detached"]
  BY <1>5
<1>7. [d \in Clients |-> sessions[d].lastWill]' = [d \in Clients |-> sessions[d].lastWill]
  BY <1>3
<1> QED
  BY <1>1, <1>4, <1>6, <1>7 DEF Contract!Detach

\* update_sessions sweeps.
LEMMA UpdateSweeps ==
  ASSUME CalmInv, UpdateSessions,
         NEW W, W = FiredWills, NEW E, E = ExpiredClients
  PROVE  Contract!Sweep(W, E)
<1>1. /\ sessions \in [Clients -> Session] /\ published \in [Conns -> Nat]
      /\ \A c \in Clients : sessions'[c] = IF c \in ExpiredClients THEN NoSession
                                           ELSE IF c \in FiredWills THEN WillTaken(sessions[c])
                                           ELSE sessions[c]
      /\ published' = [k \in Conns |->
                         IF \E c \in FiredWills : sessions[c].lastWill = k
                           THEN published[k] + 1 ELSE published[k]]
  BY DEF UpdateSessions, CalmInv, IInv, Types, TypeOK
<1>2. ExpiredClients \subseteq Clients /\ FiredWills \subseteq Clients
  BY DEF ExpiredClients, FiredWills, Due, CalmInv, IInv, Types, TypeOK, TimeoutKey
<1>3. ASSUME NEW c \in ExpiredClients \union FiredWills
      PROVE  /\ Phase(c) = "detached"
             /\ c \in FiredWills => sessions[c].lastWill # Null
             /\ sessions[c].lastWill # Null => c \in FiredWills
  BY <1>2, SweepFinds DEF Phase, FiredWills
<1>4. ASSUME NEW c \in Clients
      PROVE  /\ Phase(c)' = IF c \in ExpiredClients THEN "absent" ELSE Phase(c)
             /\ sessions'[c].lastWill = IF c \in FiredWills THEN Null ELSE sessions[c].lastWill
  <2>1. CASE c \in ExpiredClients
    <3>1. sessions'[c] = NoSession
      BY <1>1, <2>1
    <3> QED
      BY <1>3, <2>1, <3>1 DEF Phase, Present, NoSession
  <2>2. CASE c \notin ExpiredClients
    <3>1. /\ sessions'[c].notify = sessions[c].notify
          /\ sessions'[c].removeKey = sessions[c].removeKey
          /\ sessions'[c].lastWill = IF c \in FiredWills THEN Null ELSE sessions[c].lastWill
      BY <1>1, <2>2 DEF WillTaken, Session
    <3> QED
      BY <2>2, <3>1 DEF Phase, Present
  <2> QED
    BY <2>1, <2>2
<1>5. {k \in Conns : published[k] > 0}'
        = {k \in Conns : published[k] > 0}
            \union {[b \in Clients |-> sessions[b].lastWill][c] : c \in FiredWills}
  <2>1. ASSUME NEW c \in FiredWills PROVE sessions[c].lastWill \in Conns
    BY <1>1, <1>2, <1>3 DEF Session
  <2>2. ASSUME NEW k \in Conns
        PROVE  published'[k] > 0 <=> published[k] > 0 \/ \E c \in FiredWills : sessions[c].lastWill = k
    BY <1>1
  <2> QED
    BY <1>2, <2>1, <2>2
<1> QED
  BY <1>2, <1>3, <1>4, <1>5 DEF Contract!Sweep

\* The session table keeps the promises of SessionContract on the calm schedule
\* (create_session attaches, disconnect_session detaches, update_sessions sweeps).
THEOREM TableImplementsContract == CalmSpec => ImplementsContract
<1>1. Init => Contract!Init
  BY DEF Init, Contract!Init, Phase, Present, NoSession
<1>2. ASSUME CalmInv, [CalmNext]_vars PROVE [Contract!Next]_(Contract!vars)
  <2>1. ASSUME NEW k \in Conns, CreateSession(k) PROVE Contract!Next
    <3>1. PICK c \in Clients : c = client[k]
      BY <1>2, <2>1 DEF CreateSession, CalmInv, IInv, Types, TypeOK
    <3>2. Contract!Attach(k, c)
      BY <1>2, <2>1, <3>1, CreateAttaches
    <3> QED
      BY <3>1, <3>2 DEF Contract!Next
  <2>2. ASSUME NEW k \in Conns, DisconnectSession(k) PROVE Contract!Next
    <3>1. PICK c \in Clients : c = client[k]
      BY <1>2, <2>2 DEF DisconnectSession, CalmInv, IInv, Types, TypeOK
    <3>2. Contract!Detach(c)
      BY <1>2, <2>2, <3>1, DisconnectDetaches
    <3> QED
      BY <3>1, <3>2 DEF Contract!Next
  <2>3. ASSUME UpdateSessions PROVE Contract!Next
    <3>1. PICK W \in SUBSET Clients, E \in SUBSET Clients : W = FiredWills /\ E = ExpiredClients
      BY <1>2
      DEF ExpiredClients, FiredWills, Due, CalmInv, IInv, Types, TypeOK, TimeoutKey
    <3>2. Contract!Sweep(W, E)
      BY <1>2, <2>3, <3>1, UpdateSweeps
    <3> QED
      BY <3>1, <3>2 DEF Contract!Next
  <2>4. ASSUME sessions' = sessions, published' = published PROVE UNCHANGED Contract!vars
    BY <2>4 DEF Contract!vars, Phase, Present
  <2> QED
    BY <1>2, <2>1, <2>2, <2>3, <2>4, TableUntouched DEF CalmNext, Task, Tick, storeVars, vars
<1>3. CalmInv /\ [CalmNext]_vars => [Contract!Next]_(Contract!vars)
  BY <1>2
<1> QED
  BY <1>1, <1>3, CalmInvariance, PTL DEF CalmSpec, ImplementsContract, Contract!Spec
=============================================================================
