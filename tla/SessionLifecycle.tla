--------------------------- MODULE SessionLifecycle ---------------------------
(***************************************************************************)
(* Who owns an MQTT session, and when it ends.                             *)
(*                                                                         *)
(* A connection task (client_loop) and the two shared tables it works on:  *)
(* the `connections` map of ServiceState (client id -> control channel of  *)
(* the connection serving it) and the session table of Storage with its    *)
(* two ordered timeout sets.  A task takes one lock at a time and gives it *)
(* back before the next, so CONNECT and the cleanup of a finished task are *)
(* two steps each, and every other task may run in between.                *)
(*                                                                         *)
(* A task serves one network connection and is identified with it.  Time   *)
(* is counted in seconds, the unit of the MQTT intervals; the bound is     *)
(* MaxTime.                                                                *)
(***************************************************************************)
EXTENDS Integers, FiniteSets

CONSTANTS
  Clients,           \* client identifiers
  Conns,             \* connection tasks
  Expiries,          \* session expiry intervals a client may ask for
  Delays,            \* will delay intervals a client may ask for
  MaxSessionExpiry,  \* ServiceConfig.max_session_expiry_interval
  MaxTime,           \* bound on the clock
  Null               \* Rust's None

ASSUME LifecycleAssumption ==
  /\ Expiries \subseteq Nat /\ 0 \in Expiries
  /\ Delays \subseteq Nat
  /\ MaxSessionExpiry \in Nat
  /\ MaxTime \in Nat
  /\ Null \notin Nat /\ Null \notin Conns /\ Null \notin Clients
  /\ IsFiniteSet(Conns) /\ IsFiniteSet(Clients)

VARIABLES
  now,             \* Instant::now(), in seconds
  pc,              \* pc[k]: how far task k has come
  client,          \* client[k]: the client id of its CONNECT
  cleanStart,      \* cleanStart[k]: Clean Start of the CONNECT in hand
  willDelay,       \* willDelay[k]: delay of the will in its CONNECT, Null if none
  expiry,          \* expiry[k]: Connection.session_expiry_interval
  lastWill,        \* lastWill[k]: whether Connection.last_will is Some
  notify,          \* notify[k]: the session incarnation whose Notify it awaits
  takeover,        \* takeover[k]: SessionTakenOver waits in its control channel
  owner,           \* ServiceState.connections
  sessions,        \* StorageInner.sessions
  willTimeouts,    \* StorageInner.send_last_will_timeout
  removeTimeouts,  \* StorageInner.remove_timeout
  clientsExpired,  \* StorageInner.clients_expired
  connectionCount, \* ServiceMetrics.connection_count
  published        \* published[k]: how often the will of k has been delivered

connVars  == <<client, cleanStart, willDelay>>
storeVars == <<sessions, willTimeouts, removeTimeouts, clientsExpired, published>>
vars == <<now, pc, connVars, expiry, lastWill, notify, takeover, owner,
          storeVars, connectionCount>>

-----------------------------------------------------------------------------
(* Types.                                                                  *)

Levels  == {"V4", "V5"}
Request == [client : Clients, level : Levels, clean : BOOLEAN,
            expiry : Expiries, delay : Delays \union {Null}]

\* "open": no CONNECT accepted yet; "handshake": the connections map names this
\* task, create_session not called yet; "session": session created, CONNACK
\* not sent; "ready": in the select! loop; "sending": in a handler of that loop that
\* awaits a send; "closing": left the loop; "unmapped": the cleanup has erased
\* its map entry; "done": through with the shared tables, though a last
\* DISCONNECT may still be on its way; "panicked": the task died in an unwrap and
\* runs no cleanup.
Phases == {"open", "handshake", "session", "ready", "sending", "closing", "unmapped",
           "done", "panicked"}

TimeoutKey == [client : Clients, timeout : Nat]

\* A session is known by the connection that created it (its Arc<Notify>), a
\* will by the connection whose CONNECT carried it.
Session == [notify : Conns \union {Null}, lastWill : Conns \union {Null},
            willKey : Nat \union {Null}, removeKey : Nat \union {Null}]

NoSession == [notify |-> Null, lastWill |-> Null, willKey |-> Null, removeKey |-> Null]

TypeOK ==
  /\ now \in Nat
  /\ pc \in [Conns -> Phases]
  /\ client \in [Conns -> Clients \union {Null}]
  /\ cleanStart \in [Conns -> BOOLEAN]
  /\ willDelay \in [Conns -> Nat \union {Null}]
  /\ expiry \in [Conns -> Nat]
  /\ lastWill \in [Conns -> BOOLEAN]
  /\ notify \in [Conns -> Conns \union {Null}]
  /\ takeover \in [Conns -> BOOLEAN]
  /\ owner \in [Clients -> Conns \union {Null}]
  /\ sessions \in [Clients -> Session]
  /\ willTimeouts \subseteq TimeoutKey
  /\ removeTimeouts \subseteq TimeoutKey
  /\ clientsExpired \in Nat
  /\ connectionCount \in Int
  /\ published \in [Conns -> Nat]
  /\ \A k \in Conns : pc[k] # "open" => client[k] \in Clients

-----------------------------------------------------------------------------
Init ==
  /\ now = 0
  /\ pc = [k \in Conns |-> "open"]
  /\ client = [k \in Conns |-> Null]
  /\ cleanStart = [k \in Conns |-> FALSE]
  /\ willDelay = [k \in Conns |-> Null]
  /\ expiry = [k \in Conns |-> 0]
  /\ lastWill = [k \in Conns |-> FALSE]
  /\ notify = [k \in Conns |-> Null]
  /\ takeover = [k \in Conns |-> FALSE]
  /\ owner = [c \in Clients |-> Null]
  /\ sessions = [c \in Clients |-> NoSession]
  /\ willTimeouts = {}
  /\ removeTimeouts = {}
  /\ clientsExpired = 0
  /\ connectionCount = 0
  /\ published = [k \in Conns |-> 0]

Present(c) == sessions[c].notify # Null
Key(c, t)  == [client |-> c, timeout |-> t]
Lesser(a, b) == IF a < b THEN a ELSE b

\* Definitions whose name begins with Bug are faults seeded to show that the
\* properties below notice them; no other definition uses them.

\* create_session and remove_session take a deadline out of its set.
BugNotDisarmed(keys, c, t) == keys
Disarm(keys, c, t) == keys \ {Key(c, t)}

\* disconnect_session puts one in.
BugNotArmed(keys, c, t) == keys
Arm(keys, c, t) == keys \union {Key(c, t)}

\* last_will.take()
BugWillCloned(s) == s
WillTaken(s) == [s EXCEPT !.lastWill = Null]

GrantedExpiry(r) ==
  IF r.level = "V4" /\ ~r.clean THEN MaxSessionExpiry
                                ELSE Lesser(r.expiry, MaxSessionExpiry)

\* A task whose control receiver still exists.
Alive(k) == pc[k] \notin {"done", "panicked"}

-----------------------------------------------------------------------------
(* CONNECT.                                                                *)

\* Send SessionTakenOver to task old; a task that is gone does not get it.
BugNobodyTold(old) == takeover
TellTakenOver(old) == [j \in Conns |-> takeover[j] \/ (j = old /\ Alive(j))]

\* Under the connections lock: the previous holder of the client id is told
\* it was taken over, and the map names the new one.
ConnectTakeOver(k, r) ==
  /\ pc[k] = "open"
  /\ r.level = "V4" => r.expiry = 0 /\ r.delay \in {0, Null}
  /\ pc' = [pc EXCEPT ![k] = "handshake"]
  /\ client' = [client EXCEPT ![k] = r.client]
  /\ cleanStart' = [cleanStart EXCEPT ![k] = r.clean]
  /\ willDelay' = [willDelay EXCEPT ![k] = r.delay]
  /\ expiry' = [expiry EXCEPT ![k] = GrantedExpiry(r)]
  /\ takeover' = TellTakenOver(owner[r.client])
  /\ owner' = [owner EXCEPT ![r.client] = k]
  /\ UNCHANGED <<now, lastWill, notify, storeVars, connectionCount>>

\* The session k finds after create_session: resumed, or new with a Notify of
\* its own; with the will of k; without deadlines.
Will(k)    == IF willDelay[k] = Null THEN Null ELSE k
Resumes(k) == ~cleanStart[k] /\ Present(client[k])
NotifyFor(k) == IF Resumes(k) THEN sessions[client[k]].notify ELSE k

BugDeadlinesCloned(k) == [sessions[client[k]] EXCEPT !.notify = NotifyFor(k),
                                                      !.lastWill = Will(k)]
AttachedSession(k) == [notify |-> NotifyFor(k), lastWill |-> Will(k),
                       willKey |-> Null, removeKey |-> Null]

\* Storage::create_session under the storage lock, and the assignments to the
\* fields of Connection that follow it.
CreateSession(k) ==
  LET c == client[k] IN
  /\ pc[k] = "handshake"
  /\ pc' = [pc EXCEPT ![k] = "session"]
  /\ sessions' = [sessions EXCEPT ![c] = AttachedSession(k)]
  /\ willTimeouts' = Disarm(willTimeouts, c, sessions[c].willKey)
  /\ removeTimeouts' = Disarm(removeTimeouts, c, sessions[c].removeKey)
  /\ notify' = [notify EXCEPT ![k] = NotifyFor(k)]
  /\ lastWill' = [lastWill EXCEPT ![k] = Will(k) # Null]
  /\ cleanStart' = [cleanStart EXCEPT ![k] = FALSE]
  /\ UNCHANGED <<now, client, willDelay, expiry, takeover, owner, clientsExpired,
                 published, connectionCount>>

SendConnAck(k) ==
  /\ pc[k] = "session"
  /\ pc' = [pc EXCEPT ![k] = "ready"]
  /\ connectionCount' = connectionCount + 1
  /\ UNCHANGED <<now, connVars, expiry, lastWill, notify, takeover, owner, storeVars>>

\* The CONNACK cannot be written: the loop ends before the counter is raised.
ConnAckFails(k) ==
  /\ pc[k] = "session"
  /\ pc' = [pc EXCEPT ![k] = "closing"]
  /\ UNCHANGED <<now, connVars, expiry, lastWill, notify, takeover, owner,
                 storeVars, connectionCount>>

-----------------------------------------------------------------------------
(* Sends.  send_packet has no timeout, and the handlers run inside the     *)
(* select! branches: while one awaits a socket that takes nothing, its     *)
(* task reads neither its control channel nor its clock.                   *)

SendWaits(k) ==
  /\ pc[k] = "ready"
  /\ pc' = [pc EXCEPT ![k] = "sending"]
  /\ UNCHANGED <<now, connVars, expiry, lastWill, notify, takeover, owner,
                 storeVars, connectionCount>>

\* The socket takes the packet, or the connection breaks; a DISCONNECT of the
\* broker is the last packet either way.
SendReturns(k) ==
  /\ pc[k] = "sending"
  /\ \E to \in {"ready", "closing"} : pc' = [pc EXCEPT ![k] = to]
  /\ UNCHANGED <<now, connVars, expiry, lastWill, notify, takeover, owner,
                 storeVars, connectionCount>>

-----------------------------------------------------------------------------
(* The ways out of the select! loop.                                       *)

\* End of stream, keep-alive timeout, I/O or protocol error.
Leave(k) ==
  /\ pc[k] = "ready"
  /\ pc' = [pc EXCEPT ![k] = "closing"]
  /\ UNCHANGED <<now, connVars, expiry, lastWill, notify, takeover, owner,
                 storeVars, connectionCount>>

\* The Session Expiry Interval of a DISCONNECT, if present, replaces that of
\* the CONNECT; it is not clamped.
BugNoneUnwrapped(k, e) == e
NewExpiry(k, e) == IF e = Null THEN expiry[k] ELSE e

\* DISCONNECT; e is its Session Expiry Interval property, Null if absent.
HandleDisconnect(k, normal, e) ==
  /\ pc[k] = "ready"
  /\ pc' = [pc EXCEPT ![k] = "closing"]
  /\ lastWill' = [lastWill EXCEPT ![k] = @ /\ ~normal]
  /\ expiry' = [expiry EXCEPT ![k] = NewExpiry(k, e)]
  /\ UNCHANGED <<now, connVars, notify, takeover, owner, storeVars, connectionCount>>

BugControlIgnored(k) ==
  /\ pc[k] = "ready"
  /\ takeover[k]
  /\ takeover' = [takeover EXCEPT ![k] = FALSE]
  /\ UNCHANGED <<now, pc, connVars, expiry, lastWill, notify, owner, storeVars,
                 connectionCount>>

\* SessionTakenOver: the task forgets its client id, so no cleanup follows.
HandleControl(k) ==
  /\ pc[k] = "ready"
  /\ takeover[k]
  /\ pc' = [pc EXCEPT ![k] = "done"]
  /\ takeover' = [takeover EXCEPT ![k] = FALSE]
  /\ connectionCount' = connectionCount - 1
  /\ UNCHANGED <<now, connVars, expiry, lastWill, notify, owner, storeVars>>

\* Every queue or in-flight operation unwraps sessions.get(client_id).
ServeWithoutSession(k) ==
  /\ pc[k] = "ready"
  /\ ~Present(client[k])
  /\ pc' = [pc EXCEPT ![k] = "panicked"]
  /\ takeover' = [takeover EXCEPT ![k] = FALSE]
  /\ UNCHANGED <<now, connVars, expiry, lastWill, notify, owner, storeVars,
                 connectionCount>>

-----------------------------------------------------------------------------
(* Cleanup at the end of client_loop.                                      *)

\* connections.write().await.remove(client_id), whoever the entry names.
BugRouteKept(c) == owner
RouteErased(c) == [owner EXCEPT ![c] = Null]

UnmapConnection(k) ==
  /\ pc[k] = "closing"
  /\ pc' = [pc EXCEPT ![k] = "unmapped"]
  /\ owner' = RouteErased(client[k])
  /\ UNCHANGED <<now, connVars, expiry, lastWill, notify, takeover, storeVars,
                 connectionCount>>

\* The will goes out after its delay, but no later than the session ends.
BugDelayOnly(k, w) == now + willDelay[w]
WillDeadline(k, w) == now + Lesser(willDelay[w], expiry[k])

\* dec_connection_count and Storage::disconnect_session: the will and the
\* session get their deadlines.  An older key of the session is overwritten,
\* not removed from its set.
DisconnectSession(k) ==
  LET c       == client[k]
      w       == sessions[c].lastWill
      willAt  == IF w = Null THEN sessions[c].willKey ELSE WillDeadline(k, w)
      dropAt  == now + expiry[k]
  IN
  /\ pc[k] = "unmapped"
  /\ pc' = [pc EXCEPT ![k] = "done"]
  /\ takeover' = [takeover EXCEPT ![k] = FALSE]
  /\ connectionCount' = connectionCount - 1
  /\ IF Present(c)
       THEN /\ sessions' = [sessions EXCEPT ![c].willKey = willAt,
                                            ![c].removeKey = dropAt]
            /\ willTimeouts' = IF w = Null THEN willTimeouts
                                 ELSE Arm(willTimeouts, c, willAt)
            /\ removeTimeouts' = Arm(removeTimeouts, c, dropAt)
       ELSE UNCHANGED <<sessions, willTimeouts, removeTimeouts>>
  /\ UNCHANGED <<now, connVars, expiry, lastWill, notify, owner, clientsExpired,
                 published>>

-----------------------------------------------------------------------------
(* The timer task: Storage::update_sessions every 100 ms.                  *)

Due(keys) == {key \in keys : key.timeout < now}

ExpiredClients == {key.client : key \in Due(removeTimeouts)}

\* The loop over the wills comes first.
BugRemovalsFirst ==
  {c \in Clients \ ExpiredClients : /\ \E key \in Due(willTimeouts) : key.client = c
                                    /\ sessions[c].lastWill # Null}
FiredWills ==
  {c \in Clients : /\ \E key \in Due(willTimeouts) : key.client = c
                   /\ sessions[c].lastWill # Null}

\* remove_session erases the session's own key too: when an older key of the
\* same client comes first, the loop never pops that one.
PoppedRemovals ==
  {key \in Due(removeTimeouts) :
     ~ /\ key.timeout = sessions[key.client].removeKey
       /\ \E older \in Due(removeTimeouts) :
            older.client = key.client /\ older.timeout < key.timeout}

UpdateSessions ==
  /\ Due(willTimeouts) \union Due(removeTimeouts) # {}
  /\ willTimeouts' = (willTimeouts \ Due(willTimeouts))
                       \ {Key(c, sessions[c].willKey) : c \in ExpiredClients}
  /\ removeTimeouts' = (removeTimeouts \ Due(removeTimeouts))
                         \ {Key(c, sessions[c].removeKey) : c \in ExpiredClients}
  /\ sessions' = [c \in Clients |->
                    IF c \in ExpiredClients THEN NoSession
                    ELSE IF c \in FiredWills THEN WillTaken(sessions[c])
                    ELSE sessions[c]]
  /\ published' = [k \in Conns |->
                     IF \E c \in FiredWills : sessions[c].lastWill = k
                       THEN published[k] + 1 ELSE published[k]]
  /\ clientsExpired' = clientsExpired + Cardinality(PoppedRemovals)
  /\ UNCHANGED <<now, pc, connVars, expiry, lastWill, notify, takeover, owner,
                 connectionCount>>

Tick ==
  /\ now < MaxTime
  /\ now' = now + 1
  /\ UNCHANGED <<pc, connVars, expiry, lastWill, notify, takeover, owner,
                 storeVars, connectionCount>>

-----------------------------------------------------------------------------
\* What the network makes a task in its loop do.
Serve(k) ==
  \/ Leave(k)
  \/ \E normal \in BOOLEAN, e \in Expiries \union {Null} : HandleDisconnect(k, normal, e)
  \/ SendWaits(k)
  \/ ServeWithoutSession(k)

\* How the sends a task awaits end.
Socket(k) ==
  \/ SendConnAck(k)
  \/ ConnAckFails(k)
  \/ SendReturns(k)

\* What a task does on its own.
Task(k) ==
  \/ CreateSession(k)
  \/ HandleControl(k)
  \/ UnmapConnection(k)
  \/ DisconnectSession(k)

Next ==
  \/ \E k \in Conns :
       \/ \E r \in Request : ConnectTakeOver(k, r)
       \/ Socket(k)
       \/ Serve(k)
       \/ Task(k)
  \/ UpdateSessions
  \/ Tick

Spec == Init /\ [][Next]_vars

(***************************************************************************)
(* The schedule a takeover is written for.  The select! loop promises no   *)
(* order between its branches, and nothing holds a second CONNECT back     *)
(* while a task is between two locks; CalmSpec is what the code does when  *)
(* the scheduler happens to                                                *)
(*   - let a client id's other tasks finish what they are in the middle of *)
(*     before its next CONNECT is processed, and                           *)
(*   - let a task that was taken over learn it before anything else.       *)
(***************************************************************************)
Busy(c) ==
  \E j \in Conns : /\ client[j] = c
                   /\ \/ pc[j] \in {"handshake", "session", "sending", "closing", "unmapped"}
                      \/ pc[j] = "ready" /\ takeover[j]

CalmNext ==
  \/ \E k \in Conns :
       \/ \E r \in Request : ~Busy(r.client) /\ ConnectTakeOver(k, r)
       \/ Socket(k)
       \/ ~takeover[k] /\ Serve(k)
       \/ Task(k)
  \/ UpdateSessions
  \/ Tick

CalmSpec == Init /\ [][CalmNext]_vars

\* The executor runs every task that can go on, and the timer task.  select!
\* starts with a branch drawn at random, so one that is ready time and again is
\* taken at last.  Nothing makes a send end: that is up to the client.
Fairness ==
  /\ \A k \in Conns : WF_vars(Task(k)) /\ SF_vars(HandleControl(k))
  /\ WF_vars(UpdateSessions)
  /\ WF_vars(Tick)

FairSpec == Spec /\ Fairness

-----------------------------------------------------------------------------
(* What holds whatever the schedule.                                       *)

\* A deadline written into a session is in the timer's set, and so is the
\* deadline of a will that is still there: the timer cannot miss one.
\* (disconnect_session, update_sessions and remove_session keep the keys in
\* the session and the two BTreeSets in step.)
DeadlinesIndexed ==
  \A c \in Clients :
    /\ sessions[c].removeKey # Null => Key(c, sessions[c].removeKey) \in removeTimeouts
    /\ sessions[c].willKey # Null /\ sessions[c].lastWill # Null
         => Key(c, sessions[c].willKey) \in willTimeouts

\* The connections map names for a client id a task of that client id which
\* nobody has told to go and which has not yet erased the entry, or one that
\* panicked: that one erases nothing, and its entry stays until the next CONNECT.
\* So no task is told twice, and none whose cleanup is over is told.
\* (handle_connect replaces the entry, the cleanup erases it.)
RouteIsCurrent ==
  \A c \in Clients : LET k == owner[c] IN
    k # Null => /\ client[k] = c
                /\ ~takeover[k]
                /\ \/ pc[k] \in {"handshake", "session", "ready", "sending", "closing"}
                   \/ pc[k] = "panicked"

\* A will is published at most once, however often the session changes hands
\* (last_will.take() in update_sessions, last_will = ... in create_session).
WillAtMostOnce == \A k \in Conns : published[k] <= 1

\* A connection that was told it was taken over ends, unless it stands in one
\* send for ever: the select! loop gets to its control branch, or it has left for
\* another reason.
InSend(k) == pc[k] \in {"session", "sending"}

TakeoverCompletes ==
  \A k \in Conns :
    []<>(~InSend(k)) => (takeover[k] ~> pc[k] \in {"done", "panicked"})

-----------------------------------------------------------------------------
(* What holds on the schedule of CalmSpec.                                 *)

Established(k) == pc[k] \in {"session", "ready", "sending"} /\ ~takeover[k]

\* At most one connection serves a client id.
SingleOwner ==
  \A j, k \in Conns :
    Established(j) /\ Established(k) /\ client[j] = client[k] => j = k

\* A served session exists, has no deadline in either timeout set, and wakes
\* the connection that serves it.
LiveSessionKept ==
  \A k \in Conns : Established(k) =>
    /\ Present(client[k])
    /\ sessions[client[k]].notify = notify[k]
    /\ \A key \in willTimeouts \union removeTimeouts : key.client # client[k]

\* update_sessions publishes a will only after the connection that left it is
\* through its cleanup.
WillOnlyAfterLoss ==
  [][\A k \in Conns : published'[k] # published[k] => pc[k] = "done"]_vars

\* A session that ends by its timeout has had its will published: the will
\* deadline never lies behind the session's (delay_interval.min(expiry)).
NoWillLostByExpiry ==
  [][\A c \in Clients :
       LET w == sessions[c].lastWill IN
       c \in ExpiredClients /\ w # Null /\ ~Present(c)' => published'[w] = published[w] + 1]_vars

\* A will left with a session is published when its deadline passes, unless a
\* new CONNECT of the client replaces it: no timer key is lost on the way.
\* (Deadlines the bounded clock cannot pass are not counted.)
WillSettled ==
  \A c \in Clients, k \in Conns :
    (/\ sessions[c].lastWill = k
     /\ sessions[c].willKey # Null
     /\ sessions[c].willKey < MaxTime) ~> sessions[c].lastWill # k

\* The session table keeps the promises of SessionContract.
Phase(c) ==
  IF ~Present(c) THEN "absent"
  ELSE IF sessions[c].removeKey = Null THEN "live" ELSE "detached"

Contract == INSTANCE SessionContract WITH
  session <- [c \in Clients |-> Phase(c)],
  will    <- [c \in Clients |-> sessions[c].lastWill],
  sent    <- {k \in Conns : published[k] > 0}

ImplementsContract == Contract!Spec

-----------------------------------------------------------------------------
(* What the repository's tests and assertions say, and the code does not.  *)

\* storage.rs unwraps sessions.get(client_id) for every connection in its
\* loop: a connection nobody has told to go finds the session it serves.
UnwrapSafe ==
  \A k \in Conns : pc[k] = "ready" /\ ~takeover[k] => Present(client[k])

\* A client that says goodbye with NormalDisconnection leaves no will.
NormalDisconnectDropsWill ==
  \A k \in Conns : published[k] > 0 => lastWill[k]
=============================================================================
