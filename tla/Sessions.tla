------------------------------ MODULE Sessions ------------------------------
(***************************************************************************)
(* Client sessions of the bridge: which WebSocket serves which client id,  *)
(* what each client watches, how long a disconnected client is remembered, *)
(* and the union of the watchlists that the gRPC side subscribes to.       *)
(*                                                                         *)
(* Every handler of BridgeServer that touches a session runs to completion *)
(* on the event loop, so each one is one action.  The clock is abstracted  *)
(* to the two ages the code compares with a limit: the time since a client *)
(* was last seen and the time since it disconnected.                       *)
(***************************************************************************)
EXTENDS Integers, FiniteSets

CONSTANTS
    ClientIds,        \* client ids a session can have
    Sockets,          \* WebSocket slots; a CLOSED slot stands for a fresh socket
    ApiKeys,          \* ids of the API keys that authenticate an upgrade
    Accounts, Mints,  \* what a client can watch, tagged by kind
    RetentionTicks,   \* grpcRetentionMs, in clock ticks; 0 disables retention
    IdleTicks,        \* wsIdleTimeoutMs, in clock ticks
    None              \* no client, no socket, no key

ASSUME RetentionAssumption == RetentionTicks \in Nat
ASSUME IdleAssumption      == IdleTicks \in Nat
ASSUME KindsAssumption     == Accounts \cap Mints = {}
ASSUME NoneAssumption      == None \notin ClientIds \cup Sockets \cup ApiKeys

Watchable == Accounts \cup Mints

VARIABLES
    sessions,      \* keys of BridgeServer.sessions
    owner,         \* session.apiKeyId
    connected,     \* sessions whose connected flag is set
    socketOf,      \* session.ws
    watch,         \* session.watchAccounts and session.watchMints
    away,          \* now - session.disconnectedAt, saturated past the limit
    idle,          \* now - session.lastSeenAt, saturated past the limit
    readyState,    \* ws.readyState
    authOf,        \* key the upgrade of a socket was authenticated with
    sessionOf,     \* socketToSession
    subscription,  \* subscriptionAccounts and subscriptionMints
    grpcWanted,    \* grpcWanted
    late           \* history: sessions attached after their retention lapsed,
                   \* since the subscription was last recomputed

sessionVars == <<sessions, owner, connected, socketOf, watch, away, idle>>
socketVars  == <<readyState, authOf, sessionOf>>
unionVars   == <<subscription, grpcWanted, late>>
vars        == <<sessions, owner, connected, socketOf, watch, away, idle,
                 readyState, authOf, sessionOf, subscription, grpcWanted, late>>

Ages(limit) == 0 .. (limit + 1)

\* An age is not counted past the limit it is compared with.
Older(age, limit) == IF age > limit THEN age ELSE age + 1

TypeOK ==
    /\ sessions \subseteq ClientIds
    /\ owner \in [ClientIds -> ApiKeys \cup {None}]
    /\ connected \subseteq ClientIds
    /\ socketOf \in [ClientIds -> Sockets \cup {None}]
    /\ watch \in [ClientIds -> SUBSET Watchable]
    /\ away \in [ClientIds -> Ages(RetentionTicks)]
    /\ idle \in [ClientIds -> Ages(IdleTicks)]
    /\ readyState \in [Sockets -> {"CLOSED", "OPEN", "CLOSING"}]
    /\ authOf \in [Sockets -> ApiKeys \cup {None}]
    /\ sessionOf \in [Sockets -> ClientIds \cup {None}]
    /\ subscription \subseteq Watchable
    /\ grpcWanted \in BOOLEAN
    /\ late \subseteq ClientIds

Init ==
    /\ sessions = {} /\ connected = {} /\ late = {}
    /\ owner = [id \in ClientIds |-> None]
    /\ socketOf = [id \in ClientIds |-> None]
    /\ watch = [id \in ClientIds |-> {}]
    /\ away = [id \in ClientIds |-> 0]
    /\ idle = [id \in ClientIds |-> 0]
    /\ readyState = [s \in Sockets |-> "CLOSED"]
    /\ authOf = [s \in Sockets |-> None]
    /\ sessionOf = [s \in Sockets |-> None]
    /\ subscription = {} /\ grpcWanted = FALSE

-----------------------------------------------------------------------------
(* Retention and the subscription union.                                   *)

\* Sessions whose watchlists count: connected, or gone for no longer than the
\* retention.
RetainedSessions ==
    {id \in sessions : \/ id \in connected
                       \/ RetentionTicks > 0 /\ away[id] <= RetentionTicks}

\* Mutant: nothing ever expires.
NeverExpired == {}

\* What the heartbeat deletes.
Expired ==
    {id \in sessions \ connected : RetentionTicks = 0 \/ away[id] > RetentionTicks}

\* Mutants: the mints are left out of the union; the union is never narrowed.
AccountsUnion(ids) ==
    LET union == Accounts \cap UNION {watch'[id] : id \in ids} IN
    /\ subscription' = union
    /\ grpcWanted' = (union # {})
KeepOldUnion(ids) ==
    LET union == subscription \cup UNION {watch'[id] : id \in ids} IN
    /\ subscription' = union
    /\ grpcWanted' = (union # {})

\* The union of the watchlists of ids becomes the wanted subscription.
UpdateSubscriptions(ids) ==
    LET union == UNION {watch'[id] : id \in ids} IN
    /\ subscription' = union
    /\ grpcWanted' = (union # {})

\* Sessions in gone are deleted; what they held is dropped with them.
DeleteSessions(gone) ==
    /\ sessions' = sessions \ gone
    /\ owner' = [id \in ClientIds |-> IF id \in gone THEN None ELSE owner[id]]
    /\ watch' = [id \in ClientIds |-> IF id \in gone THEN {} ELSE watch[id]]

-----------------------------------------------------------------------------
(* Connecting: upgrade, new session, resume by ?clientId=.                 *)

\* Mutants: a resume that ignores the owner's key, a connect that ignores
\* that the id is in use.
AnyKeyResumes(key, id) == TRUE
NeverInUse(id) == FALSE

CanResume(key, id) == owner[id] = key
InUse(id) == id \in connected

\* createSession and the status message after it: the subscription is not
\* recomputed, the new watchlist is empty.
ConnectNew(s, key, id) ==
    /\ readyState[s] = "CLOSED" /\ id \notin sessions
    /\ sessions' = sessions \cup {id}
    /\ connected' = connected \cup {id}
    /\ owner' = [owner EXCEPT ![id] = key]
    /\ socketOf' = [socketOf EXCEPT ![id] = s]
    /\ watch' = [watch EXCEPT ![id] = {}]
    /\ away' = [away EXCEPT ![id] = 0]
    /\ idle' = [idle EXCEPT ![id] = 0]
    /\ readyState' = [readyState EXCEPT ![s] = "OPEN"]
    /\ authOf' = [authOf EXCEPT ![s] = key]
    /\ sessionOf' = [sessionOf EXCEPT ![s] = id]
    /\ UNCHANGED unionVars

\* The upgrade succeeds but the socket is closed before it gets a session: no
\* pending authentication or a malformed id (both None), another key's id, an
\* id in use.
ConnectRejected(s, key, id) ==
    /\ readyState[s] = "CLOSED"
    /\ id # None => id \in sessions /\ (~CanResume(key, id) \/ InUse(id))
    /\ readyState' = [readyState EXCEPT ![s] = "CLOSING"]
    /\ authOf' = [authOf EXCEPT ![s] = key]
    /\ UNCHANGED <<sessionVars, sessionOf, unionVars>>

\* attachSession, for a socket whose previous sessions (gone) are already
\* removed: a socket the session still has is terminated and unmapped.
AttachSession(s, id, gone) ==
    LET old == {socketOf[id]} \ {None, s} IN
    /\ connected' = (connected \ gone) \cup {id}
    /\ socketOf' = [i \in ClientIds |-> IF i = id THEN s
                                        ELSE IF i \in gone THEN None ELSE socketOf[i]]
    /\ away' = [i \in ClientIds |-> IF i \in gone \cup {id} THEN 0 ELSE away[i]]
    /\ idle' = [i \in ClientIds |-> IF i \in gone \cup {id} THEN 0 ELSE idle[i]]
    /\ sessionOf' = [t \in Sockets |-> IF t = s THEN id
                                       ELSE IF t \in old THEN None ELSE sessionOf[t]]
    /\ readyState' = [t \in Sockets |-> IF t \in old THEN "CLOSING"
                                        ELSE IF t = s /\ readyState[s] = "CLOSED"
                                             THEN "OPEN" ELSE readyState[t]]

LateIfLapsed(id) == {id} \ RetainedSessions

\* The session may be past its retention and not swept yet; the subscription
\* is not recomputed.
ConnectResume(s, key, id) ==
    /\ readyState[s] = "CLOSED"
    /\ id \in sessions /\ CanResume(key, id) /\ ~InUse(id)
    /\ AttachSession(s, id, {})
    /\ authOf' = [authOf EXCEPT ![s] = key]
    /\ late' = late \cup LateIfLapsed(id)
    /\ UNCHANGED <<sessions, owner, watch, subscription, grpcWanted>>

-----------------------------------------------------------------------------
(* Messages of a client.  They are handled while the socket is open, and   *)
(* still while it is closing, as long as it has a session.                 *)

CanSend(s) == readyState[s] \in {"OPEN", "CLOSING"} /\ sessionOf[s] # None

Touched(s) == [idle EXCEPT ![sessionOf[s]] = 0]

\* A pong, or a message that changes nothing else of the session's place here:
\* ping, getState, setOptions, a message dropped by the rate limiter, a resume
\* that is refused or that names the sender's own session.
Touch(s) ==
    /\ CanSend(s)
    /\ idle' = Touched(s)
    /\ UNCHANGED <<sessions, owner, connected, socketOf, watch, away, socketVars, unionVars>>

\* applyList: the watched items of one kind are replaced, extended or reduced.
ApplyList(old, kind, list, mode) ==
    CASE mode = "set"    -> (old \ kind) \cup list
      [] mode = "add"    -> old \cup list
      [] mode = "remove" -> old \ list

\* setAccounts, addAccounts, removeAccounts and the three ops on mints.
UpdateWatchlist(s) ==
    /\ CanSend(s)
    /\ \E kind \in {Accounts, Mints}, mode \in {"set", "add", "remove"} :
          \E list \in SUBSET kind :
             LET id == sessionOf[s] IN
             watch' = [watch EXCEPT ![id] = ApplyList(watch[id], kind, list, mode)]
    /\ idle' = Touched(s)
    /\ UpdateSubscriptions(RetainedSessions)
    /\ late' = {}
    /\ UNCHANGED <<sessions, owner, connected, socketOf, away, socketVars>>

\* resume naming another, disconnected session of the same key: removeSession
\* of the sender's own session recomputes the subscription while the target is
\* still disconnected; only then is the target attached.
ResumeOther(s, id) ==
    LET current == sessionOf[s] IN
    /\ CanSend(s)
    /\ id \in sessions \ {current} /\ CanResume(owner[current], id) /\ ~InUse(id)
    /\ DeleteSessions({current})
    /\ UpdateSubscriptions(RetainedSessions \ {current})
    /\ AttachSession(s, id, {current})
    /\ late' = LateIfLapsed(id)
    /\ UNCHANGED authOf

-----------------------------------------------------------------------------
(* Disconnecting and revocation.                                           *)

\* A close handshake starts: from the peer, or from the network failing.
PeerClosing(s) ==
    /\ readyState[s] = "OPEN"
    /\ readyState' = [readyState EXCEPT ![s] = "CLOSING"]
    /\ UNCHANGED <<sessionVars, authOf, sessionOf, unionVars>>

\* The sockets of a key's sessions are closed, or terminated if already closing.
DisconnectByApiKeyId(key) ==
    LET doomed == {socketOf[id] : id \in {i \in sessions : owner[i] = key}} \ {None} IN
    /\ doomed # {}
    /\ readyState' = [s \in Sockets |-> IF s \in doomed THEN "CLOSING" ELSE readyState[s]]
    /\ UNCHANGED <<sessionVars, authOf, sessionOf, unionVars>>

SocketGone(s) ==
    /\ readyState' = [readyState EXCEPT ![s] = "CLOSED"]
    /\ authOf' = [authOf EXCEPT ![s] = None]

\* Mutant: the closed socket stays in socketToSession.
LeaveMapped(s) == UNCHANGED sessionOf

Unmap(s) == sessionOf' = [sessionOf EXCEPT ![s] = None]
ForgottenOnClose(id) == IF RetentionTicks = 0 THEN {id} ELSE {}

\* The close event of a socket with a session.
ClientClosed(s) ==
    LET id == sessionOf[s] IN
    /\ CanSend(s)
    /\ SocketGone(s)
    /\ Unmap(s)
    /\ connected' = connected \ {id}
    /\ socketOf' = [socketOf EXCEPT ![id] = None]
    /\ away' = [away EXCEPT ![id] = 0]
    /\ idle' = [idle EXCEPT ![id] = 0]
    /\ DeleteSessions(ForgottenOnClose(id))
    /\ UpdateSubscriptions(RetainedSessions')
    /\ late' = {}

\* The close event of a socket without one.
UnboundClosed(s) ==
    /\ readyState[s] \in {"OPEN", "CLOSING"} /\ sessionOf[s] = None
    /\ SocketGone(s)
    /\ UNCHANGED <<sessionVars, sessionOf, unionVars>>

-----------------------------------------------------------------------------
(* Time and the client heartbeat.                                          *)

Tick ==
    /\ away' = [id \in ClientIds |-> IF id \in sessions \ connected
                                     THEN Older(away[id], RetentionTicks) ELSE away[id]]
    /\ idle' = [id \in ClientIds |-> IF id \in connected
                                     THEN Older(idle[id], IdleTicks) ELSE idle[id]]
    /\ <<away', idle'>> # <<away, idle>>
    /\ UNCHANGED <<sessions, owner, connected, socketOf, watch, socketVars, unionVars>>

\* Mutant: idle clients are never terminated.
NoSocketIdle == {}

IdleSockets ==
    {s \in Sockets : readyState[s] = "OPEN" /\ sessionOf[s] # None
                     /\ idle[sessionOf[s]] > IdleTicks}

TerminateIdle ==
    readyState' = [s \in Sockets |-> IF s \in IdleSockets THEN "CLOSING" ELSE readyState[s]]

\* A heartbeat that finds expired sessions deletes them and recomputes the
\* subscription.
HeartbeatSweep ==
    /\ Expired # {}
    /\ TerminateIdle
    /\ DeleteSessions(Expired)
    /\ away' = [id \in ClientIds |-> IF id \in Expired THEN 0 ELSE away[id]]
    /\ UpdateSubscriptions(RetainedSessions)
    /\ late' = {}
    /\ UNCHANGED <<connected, socketOf, idle, authOf, sessionOf>>

\* Any other heartbeat only terminates idle clients.
HeartbeatQuiet ==
    /\ Expired = {} /\ IdleSockets # {}
    /\ TerminateIdle
    /\ UNCHANGED <<sessionVars, authOf, sessionOf, unionVars>>

Heartbeat == HeartbeatSweep \/ HeartbeatQuiet

-----------------------------------------------------------------------------
\* The handlers that call updateSubscriptions.
RecomputingStep ==
    \/ \E s \in Sockets : UpdateWatchlist(s) \/ ClientClosed(s)
    \/ \E s \in Sockets, id \in ClientIds : ResumeOther(s, id)
    \/ HeartbeatSweep

\* Those that do not.
QuietStep ==
    \/ \E s \in Sockets, key \in ApiKeys, id \in ClientIds :
          ConnectNew(s, key, id) \/ ConnectResume(s, key, id)
    \/ \E s \in Sockets, key \in ApiKeys, id \in ClientIds \cup {None} :
          ConnectRejected(s, key, id)
    \/ \E s \in Sockets : Touch(s) \/ PeerClosing(s) \/ UnboundClosed(s)
    \/ \E key \in ApiKeys : DisconnectByApiKeyId(key)
    \/ HeartbeatQuiet
    \/ Tick

Next == RecomputingStep \/ QuietStep

Spec == Init /\ [][Next]_vars

\* Time passes, the heartbeat timer fires, and a closing socket gets its close
\* event (the WebSocket library gives up on a silent peer by itself).
Fairness ==
    /\ WF_vars(Tick)
    /\ WF_vars(Heartbeat)
    /\ \A s \in Sockets :
          WF_vars(readyState[s] = "CLOSING" /\ (ClientClosed(s) \/ UnboundClosed(s)))

FairSpec == Spec /\ Fairness

-----------------------------------------------------------------------------
(* Properties.                                                             *)

\* socketToSession (which routes messages), session.ws (which receives events)
\* and the connected flag (which guards takeover) never disagree, whatever
\* order connects, resumes, closes and sweeps come in: a client and its socket
\* name each other, connected sessions are exactly those with a socket, and no
\* closed socket keeps a session.
MapsAgree ==
    /\ connected \subseteq sessions
    /\ \A id \in ClientIds : id \in connected <=> socketOf[id] # None
    /\ \A id \in ClientIds : socketOf[id] # None => sessionOf[socketOf[id]] = id
    /\ \A s \in Sockets : sessionOf[s] # None =>
          socketOf[sessionOf[s]] = s /\ readyState[s] # "CLOSED"

\* A socket only ever serves a session of the API key it was authenticated
\* with, also after it resumed sessions other than the one it began with
\* (CLIENT.md: "Resume is only allowed when using the same API key that created
\* the session").
SocketKeyMatches ==
    \A s \in Sockets : sessionOf[s] # None => authOf[s] = owner[sessionOf[s]]

\* The subscription asked of the endpoint covers every watchlist that counts,
\* although it is only recomputed by some of the handlers: the exception is a
\* session attached after its retention lapsed, until the next recomputation.
Coverage ==
    \A id \in RetainedSessions \ late : watch[id] \subseteq subscription

\* Nothing is subscribed that no session asks for, and the streams are wanted
\* exactly when something is subscribed.
NoStraySubscription ==
    /\ subscription \subseteq UNION {watch[id] : id \in sessions}
    /\ grpcWanted = (subscription # {})

\* A client that is connected keeps its socket until that socket is closed: no
\* second connection takes it over (README.md: "If a clientId is already
\* connected, new connections using that id are rejected").
NoTakeover ==
    [][\A id \in connected : socketOf'[id] \in {socketOf[id], None}]_vars

\* A client silent for longer than the idle limit is dropped, unless it speaks
\* up first.
SilentDropped ==
    \A id \in ClientIds :
        id \in connected /\ idle[id] > IdleTicks ~> id \notin connected \/ idle[id] = 0

\* What nobody connected watches leaves the subscription in the end: the sweep
\* and the close handler together drop every retained watchlist.
SubscriptionDrains ==
    \A w \in Watchable :
        w \in subscription ~> \/ w \notin subscription
                              \/ \E id \in connected : w \in watch[id]

\* What README.md promises of a resume ("resume and receive missed
\* transactions"): a connected client's watchlist is subscribed.  The code does
\* not keep it for a session attached after its retention lapsed.
ConnectedCovered ==
    \A id \in connected : watch[id] \subseteq subscription
=============================================================================
