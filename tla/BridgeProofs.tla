----------------------------- MODULE BridgeProofs -----------------------------
(***************************************************************************)
(* Theorems about Sessions, for any sets of clients, sockets, keys and     *)
(* watchable items and any retention and idle limit, and about Bridge: the *)
(* composition takes no step that one of its components does not allow, so *)
(* what is proved of the sessions holds in the whole bridge.               *)
(***************************************************************************)
EXTENDS Bridge, TLAPS

USE DEF sessionVars, socketVars, unionVars, Watchable

\* An age grows by at most one step past its limit.
LEMMA OlderAge ==
    ASSUME NEW limit \in Nat, NEW age \in Ages(limit)
    PROVE  /\ Older(age, limit) \in Ages(limit)
           /\ Older(age, limit) >= age
BY DEF Older, Ages

\* 0 is an age.
LEMMA ZeroAge == ASSUME NEW limit \in Nat PROVE 0 \in Ages(limit)
BY DEF Ages

\* The initial state is well typed.
LEMMA InitTypeOK == Init => TypeOK
BY RetentionAssumption, IdleAssumption, ZeroAge DEF Init, TypeOK

\* Deleting sessions keeps the types of what it touches.
LEMMA DeleteSessionsType ==
    ASSUME TypeOK, NEW gone, DeleteSessions(gone)
    PROVE  /\ sessions' \subseteq ClientIds
           /\ owner' \in [ClientIds -> ApiKeys \cup {None}]
           /\ watch' \in [ClientIds -> SUBSET Watchable]
BY DEF TypeOK, DeleteSessions

\* A recomputed subscription is a set of watchable items.
LEMMA UpdateSubscriptionsType ==
    ASSUME NEW ids, ids \subseteq ClientIds,
           watch' \in [ClientIds -> SUBSET Watchable],
           UpdateSubscriptions(ids)
    PROVE  subscription' \subseteq Watchable /\ grpcWanted' \in BOOLEAN
BY DEF UpdateSubscriptions

\* Attaching a session keeps the types of what it touches.
LEMMA AttachSessionType ==
    ASSUME TypeOK, NEW s \in Sockets, NEW id \in ClientIds, NEW gone,
           AttachSession(s, id, gone)
    PROVE  /\ connected' \subseteq ClientIds
           /\ socketOf' \in [ClientIds -> Sockets \cup {None}]
           /\ away' \in [ClientIds -> Ages(RetentionTicks)]
           /\ idle' \in [ClientIds -> Ages(IdleTicks)]
           /\ sessionOf' \in [Sockets -> ClientIds \cup {None}]
           /\ readyState' \in [Sockets -> {"CLOSED", "OPEN", "CLOSING"}]
BY RetentionAssumption, IdleAssumption, ZeroAge DEF TypeOK, AttachSession

\* Every step keeps the types.
LEMMA NextTypeOK == TypeOK /\ [Next]_vars => TypeOK'
<1> SUFFICES ASSUME TypeOK, [Next]_vars PROVE TypeOK'
  OBVIOUS
<1> USE RetentionAssumption, IdleAssumption, ZeroAge
<1>1. ASSUME NEW s \in Sockets, UpdateWatchlist(s) PROVE TypeOK'
  <2>1. PICK kind \in {Accounts, Mints}, mode \in {"set", "add", "remove"} :
          \E list \in SUBSET kind :
             watch' = [watch EXCEPT ![sessionOf[s]] =
                         ApplyList(watch[sessionOf[s]], kind, list, mode)]
    BY <1>1 DEF UpdateWatchlist
  <2>2. PICK list \in SUBSET kind :
          watch' = [watch EXCEPT ![sessionOf[s]] =
                      ApplyList(watch[sessionOf[s]], kind, list, mode)]
    BY <2>1
  <2>3. sessionOf[s] \in ClientIds
    BY <1>1 DEF UpdateWatchlist, CanSend, TypeOK
  <2>4. ApplyList(watch[sessionOf[s]], kind, list, mode) \in SUBSET Watchable
    BY <2>3 DEF ApplyList, TypeOK
  <2>5. watch' \in [ClientIds -> SUBSET Watchable]
    BY <2>2, <2>3, <2>4 DEF TypeOK
  <2>6. RetainedSessions \subseteq ClientIds
    BY DEF RetainedSessions, TypeOK
  <2>7. subscription' \subseteq Watchable /\ grpcWanted' \in BOOLEAN
    BY <1>1, <2>5, <2>6, UpdateSubscriptionsType DEF UpdateWatchlist
  <2> QED
    BY <1>1, <2>5, <2>7 DEF UpdateWatchlist, Touched, TypeOK
<1>2. ASSUME NEW s \in Sockets, ClientClosed(s) PROVE TypeOK'
  <2>1. sessionOf[s] \in ClientIds
    BY <1>2 DEF ClientClosed, CanSend, TypeOK
  <2>2. /\ sessions' \subseteq ClientIds
        /\ owner' \in [ClientIds -> ApiKeys \cup {None}]
        /\ watch' \in [ClientIds -> SUBSET Watchable]
    BY <1>2, DeleteSessionsType DEF ClientClosed
  <2>3. RetainedSessions' \subseteq ClientIds
    BY <2>2 DEF RetainedSessions
  <2>4. subscription' \subseteq Watchable /\ grpcWanted' \in BOOLEAN
    BY <1>2, <2>2, <2>3, UpdateSubscriptionsType DEF ClientClosed
  <2>5. /\ connected' \subseteq ClientIds
        /\ socketOf' \in [ClientIds -> Sockets \cup {None}]
        /\ away' \in [ClientIds -> Ages(RetentionTicks)]
        /\ idle' \in [ClientIds -> Ages(IdleTicks)]
        /\ readyState' \in [Sockets -> {"CLOSED", "OPEN", "CLOSING"}]
        /\ authOf' \in [Sockets -> ApiKeys \cup {None}]
        /\ sessionOf' \in [Sockets -> ClientIds \cup {None}]
        /\ late' = {}
    BY <1>2, <2>1 DEF ClientClosed, SocketGone, Unmap, TypeOK
  <2> QED
    BY <2>2, <2>4, <2>5 DEF TypeOK
<1>3. ASSUME NEW s \in Sockets, NEW id \in ClientIds, ResumeOther(s, id) PROVE TypeOK'
  <2>1. /\ sessions' \subseteq ClientIds
        /\ owner' \in [ClientIds -> ApiKeys \cup {None}]
        /\ watch' \in [ClientIds -> SUBSET Watchable]
    BY <1>3, DeleteSessionsType DEF ResumeOther
  <2>2. RetainedSessions \ {sessionOf[s]} \subseteq ClientIds
    BY DEF RetainedSessions, TypeOK
  <2>3. subscription' \subseteq Watchable /\ grpcWanted' \in BOOLEAN
    BY <1>3, <2>1, <2>2, UpdateSubscriptionsType DEF ResumeOther
  <2>4. AttachSession(s, id, {sessionOf[s]})
    BY <1>3 DEF ResumeOther
  <2>5. late' \subseteq ClientIds /\ authOf' = authOf
    BY <1>3 DEF ResumeOther, LateIfLapsed
  <2> QED
    BY <2>1, <2>3, <2>4, <2>5, AttachSessionType DEF TypeOK
<1>4. CASE HeartbeatSweep
  <2>1. /\ sessions' \subseteq ClientIds
        /\ owner' \in [ClientIds -> ApiKeys \cup {None}]
        /\ watch' \in [ClientIds -> SUBSET Watchable]
    BY <1>4, DeleteSessionsType DEF HeartbeatSweep
  <2>2. RetainedSessions \subseteq ClientIds
    BY DEF RetainedSessions, TypeOK
  <2>3. subscription' \subseteq Watchable /\ grpcWanted' \in BOOLEAN
    BY <1>4, <2>1, <2>2, UpdateSubscriptionsType DEF HeartbeatSweep
  <2> QED
    BY <1>4, <2>1, <2>3 DEF HeartbeatSweep, TerminateIdle, TypeOK
<1>5. ASSUME NEW s \in Sockets, NEW key \in ApiKeys, NEW id \in ClientIds,
             ConnectNew(s, key, id)
      PROVE  TypeOK'
  BY <1>5 DEF ConnectNew, TypeOK
<1>6. ASSUME NEW s \in Sockets, NEW key \in ApiKeys, NEW id \in ClientIds,
             ConnectResume(s, key, id)
      PROVE  TypeOK'
  <2>1. AttachSession(s, id, {})
    BY <1>6 DEF ConnectResume
  <2>2. /\ late' \subseteq ClientIds
        /\ authOf' \in [Sockets -> ApiKeys \cup {None}]
        /\ UNCHANGED <<sessions, owner, watch, subscription, grpcWanted>>
    BY <1>6 DEF ConnectResume, LateIfLapsed, TypeOK
  <2> QED
    BY <2>1, <2>2, AttachSessionType DEF TypeOK
<1>7. ASSUME NEW s \in Sockets, NEW key \in ApiKeys, NEW id \in ClientIds \cup {None},
             ConnectRejected(s, key, id)
      PROVE  TypeOK'
  BY <1>7 DEF ConnectRejected, TypeOK
<1>8. ASSUME NEW s \in Sockets, Touch(s) PROVE TypeOK'
  BY <1>8 DEF Touch, Touched, TypeOK
<1>9. ASSUME NEW s \in Sockets, PeerClosing(s) PROVE TypeOK'
  BY <1>9 DEF PeerClosing, TypeOK
<1>10. ASSUME NEW s \in Sockets, UnboundClosed(s) PROVE TypeOK'
  BY <1>10 DEF UnboundClosed, SocketGone, TypeOK
<1>11. ASSUME NEW key \in ApiKeys, DisconnectByApiKeyId(key) PROVE TypeOK'
  BY <1>11 DEF DisconnectByApiKeyId, TypeOK
<1>12. CASE HeartbeatQuiet
  BY <1>12 DEF HeartbeatQuiet, TerminateIdle, TypeOK
<1>13. CASE Tick
  <2>1. away' \in [ClientIds -> Ages(RetentionTicks)]
    BY <1>13, OlderAge DEF Tick, TypeOK
  <2>2. idle' \in [ClientIds -> Ages(IdleTicks)]
    BY <1>13, OlderAge DEF Tick, TypeOK
  <2> QED
    BY <1>13, <2>1, <2>2 DEF Tick, TypeOK
<1>14. CASE UNCHANGED vars
  BY <1>14 DEF vars, TypeOK
<1> QED
  BY <1>1, <1>2, <1>3, <1>4, <1>5, <1>6, <1>7, <1>8, <1>9, <1>10, <1>11, <1>12,
     <1>13, <1>14 DEF Next, RecomputingStep, QuietStep

\* Type correctness: whatever clients, timers and the revocation of keys do,
\* the session maps stay maps between what they should be.
THEOREM TypeCorrect == Spec => []TypeOK
<1>1. Init => TypeOK
  BY InitTypeOK
<1>2. TypeOK /\ [Next]_vars => TypeOK'
  BY NextTypeOK
<1> QED
  BY <1>1, <1>2, PTL DEF Spec

-----------------------------------------------------------------------------
(* The session maps.                                                       *)

\* The session of a socket is connected through that very socket.
LEMMA BoundSession ==
    ASSUME TypeOK, MapsAgree, NEW s \in Sockets, sessionOf[s] # None
    PROVE  /\ sessionOf[s] \in ClientIds
           /\ sessionOf[s] \in connected
           /\ sessionOf[s] \in sessions
           /\ socketOf[sessionOf[s]] = s
           /\ readyState[s] # "CLOSED"
BY NoneAssumption DEF TypeOK, MapsAgree

\* A session that is not connected has no socket.
LEMMA UnboundSession ==
    ASSUME TypeOK, MapsAgree, NEW id \in ClientIds, id \notin connected
    PROVE  /\ socketOf[id] = None
           /\ \A s \in Sockets : sessionOf[s] # id
BY NoneAssumption, BoundSession DEF TypeOK, MapsAgree

\* Attaching a session that is not connected, on a socket that carries no
\* session other than the one being replaced, keeps the maps in agreement.
LEMMA AttachSessionMapsAgree ==
    ASSUME TypeOK, MapsAgree,
           NEW s \in Sockets, NEW id \in sessions \ connected,
           NEW gone \in SUBSET ClientIds, id \notin gone,
           \A t \in Sockets : sessionOf[t] \in gone <=> t = s /\ sessionOf[s] # None,
           connected \cap gone = {sessionOf[s]} \ {None},
           sessions' = sessions \ gone,
           AttachSession(s, id, gone)
    PROVE  MapsAgree'
<1>1. id \in ClientIds
  BY DEF TypeOK
<1>2. socketOf[id] = None /\ \A t \in Sockets : sessionOf[t] # id
  BY <1>1, UnboundSession
<1>3. /\ connected' = (connected \ gone) \cup {id}
      /\ socketOf' = [i \in ClientIds |-> IF i = id THEN s
                                          ELSE IF i \in gone THEN None ELSE socketOf[i]]
      /\ sessionOf' = [t \in Sockets |-> IF t = s THEN id ELSE sessionOf[t]]
      /\ readyState' = [t \in Sockets |-> IF t = s /\ readyState[s] = "CLOSED"
                                          THEN "OPEN" ELSE readyState[t]]
  BY <1>2, NoneAssumption DEF AttachSession, TypeOK
<1>4. s # None /\ id # None
  BY <1>1, NoneAssumption
<1>5. connected' \subseteq sessions'
  BY <1>3 DEF MapsAgree
<1>6. ASSUME NEW i \in ClientIds PROVE i \in connected' <=> socketOf'[i] # None
  BY <1>3, <1>4 DEF MapsAgree
<1>7. ASSUME NEW i \in ClientIds, socketOf'[i] # None PROVE sessionOf'[socketOf'[i]] = i
  <2>1. CASE i = id
    BY <1>3, <2>1
  <2>2. CASE i # id
    <3>1. i \notin gone /\ socketOf'[i] = socketOf[i] /\ socketOf[i] \in Sockets
      BY <1>3, <1>7, <2>2 DEF TypeOK
    <3>2. sessionOf[socketOf[i]] = i
      BY <1>7, <3>1 DEF MapsAgree
    <3>3. i # None
      BY NoneAssumption
    <3>4. socketOf[i] # s
      BY <3>1, <3>2, <3>3
    <3> QED
      BY <1>3, <3>1, <3>2, <3>4
  <2> QED
    BY <2>1, <2>2
<1>8. ASSUME NEW t \in Sockets, sessionOf'[t] # None
      PROVE  socketOf'[sessionOf'[t]] = t /\ readyState'[t] # "CLOSED"
  <2>1. CASE t = s
    BY <1>1, <1>3, <2>1 DEF TypeOK
  <2>2. CASE t # s
    <3>1. sessionOf'[t] = sessionOf[t] /\ readyState'[t] = readyState[t]
      BY <1>3, <2>2 DEF TypeOK
    <3>2. /\ sessionOf[t] \in ClientIds /\ socketOf[sessionOf[t]] = t
          /\ readyState[t] # "CLOSED"
      BY <1>8, <3>1, BoundSession
    <3>3. sessionOf[t] # id /\ sessionOf[t] \notin gone
      BY <1>2, <2>2
    <3> QED
      BY <1>3, <3>1, <3>2, <3>3
  <2> QED
    BY <2>1, <2>2
<1> QED
  BY <1>5, <1>6, <1>7, <1>8 DEF MapsAgree

\* Every step keeps the maps in agreement.
LEMMA NextMapsAgree == TypeOK /\ MapsAgree /\ [Next]_vars => MapsAgree'
<1> SUFFICES ASSUME TypeOK, MapsAgree, [Next]_vars PROVE MapsAgree'
  OBVIOUS
<1>1. ASSUME NEW s \in Sockets, UpdateWatchlist(s) PROVE MapsAgree'
  BY <1>1 DEF UpdateWatchlist, MapsAgree
<1>2. ASSUME NEW s \in Sockets, ClientClosed(s) PROVE MapsAgree'
  <2> DEFINE id == sessionOf[s]
  <2>1. id # None /\ id \in ClientIds /\ socketOf[id] = s
    BY <1>2, BoundSession DEF ClientClosed, CanSend
  <2>2. /\ connected' = connected \ {id}
        /\ socketOf' = [socketOf EXCEPT ![id] = None]
        /\ sessionOf' = [sessionOf EXCEPT ![s] = None]
        /\ readyState' = [readyState EXCEPT ![s] = "CLOSED"]
        /\ sessions \ {id} \subseteq sessions'
    BY <1>2 DEF ClientClosed, Unmap, SocketGone, DeleteSessions, ForgottenOnClose
  <2>3. connected' \subseteq sessions'
    BY <2>2 DEF MapsAgree
  <2>4. ASSUME NEW i \in ClientIds PROVE i \in connected' <=> socketOf'[i] # None
    BY <2>1, <2>2 DEF MapsAgree, TypeOK
  <2>5. ASSUME NEW i \in ClientIds, socketOf'[i] # None PROVE sessionOf'[socketOf'[i]] = i
    <3>1. i # id /\ socketOf'[i] = socketOf[i] /\ socketOf[i] \in Sockets
      BY <2>1, <2>2, <2>5 DEF TypeOK
    <3>2. sessionOf[socketOf[i]] = i
      BY <2>5, <3>1 DEF MapsAgree
    <3> QED
      BY <2>2, <3>1, <3>2 DEF TypeOK
  <2>6. ASSUME NEW t \in Sockets, sessionOf'[t] # None
        PROVE  socketOf'[sessionOf'[t]] = t /\ readyState'[t] # "CLOSED"
    <3>1. t # s /\ sessionOf'[t] = sessionOf[t] /\ readyState'[t] = readyState[t]
      BY <2>2, <2>6 DEF TypeOK
    <3>2. /\ sessionOf[t] \in ClientIds /\ socketOf[sessionOf[t]] = t
          /\ readyState[t] # "CLOSED"
      BY <2>6, <3>1, BoundSession
    <3> QED
      BY <2>1, <2>2, <3>1, <3>2 DEF TypeOK
  <2> QED
    BY <2>3, <2>4, <2>5, <2>6 DEF MapsAgree
<1>3. ASSUME NEW s \in Sockets, NEW id \in ClientIds, ResumeOther(s, id) PROVE MapsAgree'
  <2> DEFINE current == sessionOf[s]
  <2>1. /\ current # None /\ current \in ClientIds /\ current \in connected
        /\ socketOf[current] = s
    BY <1>3, BoundSession DEF ResumeOther, CanSend
  <2>2. /\ id \in sessions \ connected /\ id # current
        /\ sessions' = sessions \ {current}
        /\ AttachSession(s, id, {current})
    BY <1>3 DEF ResumeOther, InUse, DeleteSessions
  <2>3. \A t \in Sockets : sessionOf[t] \in {current} <=> t = s /\ sessionOf[s] # None
    BY <2>1, BoundSession
  <2>4. connected \cap {current} = {sessionOf[s]} \ {None}
    BY <2>1
  <2>5. {current} \in SUBSET ClientIds /\ id \notin {current}
    BY <2>1, <2>2
  <2> HIDE DEF current
  <2> QED
    BY <2>2, <2>3, <2>4, <2>5, AttachSessionMapsAgree
<1>4. CASE HeartbeatSweep
  <2>1. /\ sessions' = sessions \ Expired /\ UNCHANGED <<connected, socketOf, sessionOf>>
        /\ \A s \in Sockets : readyState[s] # "CLOSED" => readyState'[s] # "CLOSED"
    BY <1>4 DEF HeartbeatSweep, DeleteSessions, TerminateIdle
  <2> QED
    BY <2>1 DEF MapsAgree, Expired
<1>5. ASSUME NEW s \in Sockets, NEW key \in ApiKeys, NEW id \in ClientIds,
             ConnectNew(s, key, id)
      PROVE  MapsAgree'
  <2>1. /\ id \notin sessions /\ id \notin connected /\ readyState[s] = "CLOSED"
        /\ sessionOf[s] = None
    BY <1>5 DEF ConnectNew, MapsAgree
  <2>2. socketOf[id] = None /\ \A t \in Sockets : sessionOf[t] # id
    BY <2>1, UnboundSession
  <2>3. s # None /\ id # None
    BY NoneAssumption
  <2>4. /\ sessions' = sessions \cup {id} /\ connected' = connected \cup {id}
        /\ socketOf' = [socketOf EXCEPT ![id] = s]
        /\ sessionOf' = [sessionOf EXCEPT ![s] = id]
        /\ readyState' = [readyState EXCEPT ![s] = "OPEN"]
    BY <1>5 DEF ConnectNew
  <2>5. ASSUME NEW i \in ClientIds, socketOf'[i] # None PROVE sessionOf'[socketOf'[i]] = i
    <3>1. CASE i = id
      BY <2>4, <3>1 DEF TypeOK
    <3>2. CASE i # id
      <4>1. socketOf'[i] = socketOf[i] /\ socketOf[i] \in Sockets
        BY <2>4, <2>5, <3>2 DEF TypeOK
      <4>2. sessionOf[socketOf[i]] = i
        BY <2>5, <4>1 DEF MapsAgree
      <4>3. i # None
        BY NoneAssumption
      <4> QED
        BY <2>1, <2>4, <4>1, <4>2, <4>3 DEF TypeOK
    <3> QED
      BY <3>1, <3>2
  <2>6. ASSUME NEW t \in Sockets, sessionOf'[t] # None
        PROVE  socketOf'[sessionOf'[t]] = t /\ readyState'[t] # "CLOSED"
    BY <2>2, <2>4, <2>6, BoundSession DEF TypeOK
  <2>7. ASSUME NEW i \in ClientIds PROVE i \in connected' <=> socketOf'[i] # None
    BY <2>3, <2>4 DEF MapsAgree, TypeOK
  <2>8. connected' \subseteq sessions'
    BY <2>4 DEF MapsAgree
  <2> QED
    BY <2>5, <2>6, <2>7, <2>8 DEF MapsAgree
<1>6. ASSUME NEW s \in Sockets, NEW key \in ApiKeys, NEW id \in ClientIds,
             ConnectResume(s, key, id)
      PROVE  MapsAgree'
  <2>1. /\ readyState[s] = "CLOSED" /\ id \in sessions \ connected
        /\ AttachSession(s, id, {}) /\ sessions' = sessions \ {}
    BY <1>6 DEF ConnectResume, InUse
  <2>2. sessionOf[s] = None
    BY <2>1 DEF MapsAgree
  <2> QED
    BY <2>1, <2>2, AttachSessionMapsAgree
<1>7. ASSUME NEW s \in Sockets, NEW key \in ApiKeys, NEW id \in ClientIds \cup {None},
             ConnectRejected(s, key, id)
      PROVE  MapsAgree'
  BY <1>7 DEF ConnectRejected, MapsAgree, TypeOK
<1>8. ASSUME NEW s \in Sockets, Touch(s) PROVE MapsAgree'
  BY <1>8 DEF Touch, MapsAgree
<1>9. ASSUME NEW s \in Sockets, PeerClosing(s) PROVE MapsAgree'
  BY <1>9 DEF PeerClosing, MapsAgree, TypeOK
<1>10. ASSUME NEW s \in Sockets, UnboundClosed(s) PROVE MapsAgree'
  BY <1>10 DEF UnboundClosed, SocketGone, MapsAgree, TypeOK
<1>11. ASSUME NEW key \in ApiKeys, DisconnectByApiKeyId(key) PROVE MapsAgree'
  BY <1>11 DEF DisconnectByApiKeyId, MapsAgree, TypeOK
<1>12. CASE HeartbeatQuiet
  BY <1>12 DEF HeartbeatQuiet, TerminateIdle, MapsAgree, TypeOK
<1>13. CASE Tick
  BY <1>13 DEF Tick, MapsAgree
<1>14. CASE UNCHANGED vars
  BY <1>14 DEF vars, MapsAgree
<1> QED
  BY <1>1, <1>2, <1>3, <1>4, <1>5, <1>6, <1>7, <1>8, <1>9, <1>10, <1>11, <1>12,
     <1>13, <1>14 DEF Next, RecomputingStep, QuietStep

\* Routing, delivery and the connected flag agree in every reachable state, for
\* any number of clients and sockets.
THEOREM MapsAlwaysAgree == Spec => []MapsAgree
<1>1. Init => TypeOK /\ MapsAgree
  BY InitTypeOK DEF Init, MapsAgree
<1>2. TypeOK /\ MapsAgree /\ [Next]_vars => TypeOK' /\ MapsAgree'
  BY NextTypeOK, NextMapsAgree
<1> QED
  BY <1>1, <1>2, PTL DEF Spec

\* No step moves a connected client to another socket.
LEMMA NextNoTakeover ==
    ASSUME TypeOK, MapsAgree, [Next]_vars, NEW c \in connected
    PROVE  socketOf'[c] \in {socketOf[c], None}
<1>0. c \in ClientIds /\ c \in sessions /\ socketOf[c] # None
  BY DEF TypeOK, MapsAgree
<1>1. ASSUME NEW s \in Sockets, ClientClosed(s) PROVE socketOf'[c] \in {socketOf[c], None}
  BY <1>0, <1>1 DEF ClientClosed, TypeOK
<1>2. ASSUME NEW s \in Sockets, NEW id \in ClientIds, ResumeOther(s, id)
      PROVE  socketOf'[c] \in {socketOf[c], None}
  BY <1>0, <1>2 DEF ResumeOther, InUse, AttachSession
<1>3. ASSUME NEW s \in Sockets, NEW key \in ApiKeys, NEW id \in ClientIds,
             ConnectNew(s, key, id)
      PROVE  socketOf'[c] \in {socketOf[c], None}
  BY <1>0, <1>3 DEF ConnectNew, TypeOK
<1>4. ASSUME NEW s \in Sockets, NEW key \in ApiKeys, NEW id \in ClientIds,
             ConnectResume(s, key, id)
      PROVE  socketOf'[c] \in {socketOf[c], None}
  BY <1>0, <1>4 DEF ConnectResume, InUse, AttachSession
<1>5. \/ socketOf' = socketOf
      \/ \E s \in Sockets : ClientClosed(s)
      \/ \E s \in Sockets, id \in ClientIds : ResumeOther(s, id)
      \/ \E s \in Sockets, key \in ApiKeys, id \in ClientIds :
            ConnectNew(s, key, id) \/ ConnectResume(s, key, id)
  BY DEF Next, RecomputingStep, QuietStep, vars, UpdateWatchlist, HeartbeatSweep,
         ConnectRejected, Touch, PeerClosing, UnboundClosed, DisconnectByApiKeyId,
         HeartbeatQuiet, Tick
<1> QED
  BY <1>1, <1>2, <1>3, <1>4, <1>5

\* A client id in use is never taken over: between two sockets of a client lies
\* the close of the first.
THEOREM NeverTakenOver == Spec => NoTakeover
<1>1. TypeOK /\ MapsAgree /\ [Next]_vars
        => [\A id \in connected : socketOf'[id] \in {socketOf[id], None}]_vars
  BY NextNoTakeover
<1> QED
  BY <1>1, TypeCorrect, MapsAlwaysAgree, PTL DEF Spec, NoTakeover

-----------------------------------------------------------------------------
(* The keys of sockets and sessions.                                       *)

\* Every step keeps a socket's key and its session's key equal.
LEMMA NextSocketKeyMatches ==
    TypeOK /\ MapsAgree /\ SocketKeyMatches /\ [Next]_vars => SocketKeyMatches'
<1> SUFFICES ASSUME TypeOK, MapsAgree, SocketKeyMatches, [Next]_vars,
                    NEW t \in Sockets, sessionOf'[t] # None
             PROVE  authOf'[t] = owner'[sessionOf'[t]]
  BY DEF SocketKeyMatches
<1> DEFINE Goal == authOf'[t] = owner'[sessionOf'[t]]
<1>0. sessionOf[t] # None =>
         /\ sessionOf[t] \in ClientIds /\ sessionOf[t] \in connected
         /\ readyState[t] # "CLOSED" /\ authOf[t] = owner[sessionOf[t]]
  BY BoundSession DEF SocketKeyMatches
<1>1. ASSUME NEW s \in Sockets, UpdateWatchlist(s) PROVE Goal
  BY <1>0, <1>1 DEF UpdateWatchlist
<1>2. ASSUME NEW s \in Sockets, ClientClosed(s) PROVE Goal
  <2>1. t # s /\ sessionOf'[t] = sessionOf[t] /\ authOf'[t] = authOf[t]
    BY <1>2 DEF ClientClosed, Unmap, SocketGone, TypeOK
  <2>2. sessionOf[s] # None /\ sessionOf[t] # sessionOf[s]
    BY <1>2, <2>1, BoundSession DEF ClientClosed, CanSend
  <2>3. owner'[sessionOf[t]] = owner[sessionOf[t]]
    BY <1>0, <1>2, <2>1, <2>2 DEF ClientClosed, DeleteSessions, ForgottenOnClose
  <2> QED
    BY <1>0, <2>1, <2>3
<1>3. ASSUME NEW s \in Sockets, NEW id \in ClientIds, ResumeOther(s, id) PROVE Goal
  <2>1. /\ sessionOf[s] # None /\ sessionOf[s] \in ClientIds /\ socketOf[id] = None
        /\ id # sessionOf[s] /\ owner[id] = owner[sessionOf[s]] /\ UNCHANGED authOf
    BY <1>3, BoundSession, UnboundSession DEF ResumeOther, CanSend, CanResume, InUse
  <2>2. /\ sessionOf' = [u \in Sockets |-> IF u = s THEN id ELSE sessionOf[u]]
        /\ owner' = [i \in ClientIds |-> IF i = sessionOf[s] THEN None ELSE owner[i]]
    BY <1>3, <2>1, NoneAssumption DEF ResumeOther, AttachSession, DeleteSessions, TypeOK
  <2>3. CASE t = s
    BY <1>0, <2>1, <2>2, <2>3
  <2>4. CASE t # s
    <3>1. sessionOf'[t] = sessionOf[t]
      BY <2>2, <2>4
    <3>2. sessionOf[t] # sessionOf[s]
      BY <2>1, <2>4, <3>1, BoundSession
    <3> QED
      BY <1>0, <2>1, <2>2, <3>1, <3>2
  <2> QED
    BY <2>3, <2>4
<1>4. CASE HeartbeatSweep
  <2>1. UNCHANGED <<sessionOf, authOf>> /\ sessionOf[t] \notin Expired
    BY <1>0, <1>4 DEF HeartbeatSweep, Expired
  <2> QED
    BY <1>0, <1>4, <2>1 DEF HeartbeatSweep, DeleteSessions
<1>5. ASSUME NEW s \in Sockets, NEW key \in ApiKeys, NEW id \in ClientIds,
             ConnectNew(s, key, id)
      PROVE  Goal
  <2>1. \A u \in Sockets : sessionOf[u] # id
    BY <1>5, UnboundSession DEF ConnectNew, MapsAgree
  <2> QED
    BY <1>0, <1>5, <2>1 DEF ConnectNew, TypeOK
<1>6. ASSUME NEW s \in Sockets, NEW key \in ApiKeys, NEW id \in ClientIds,
             ConnectResume(s, key, id)
      PROVE  Goal
  <2>1. socketOf[id] = None /\ owner[id] = key /\ readyState[s] = "CLOSED"
    BY <1>6, UnboundSession DEF ConnectResume, CanResume, InUse
  <2>2. /\ sessionOf' = [u \in Sockets |-> IF u = s THEN id ELSE sessionOf[u]]
        /\ authOf' = [authOf EXCEPT ![s] = key] /\ UNCHANGED owner
    BY <1>6, <2>1, NoneAssumption DEF ConnectResume, AttachSession, TypeOK
  <2> QED
    BY <1>0, <2>1, <2>2 DEF TypeOK
<1>7. ASSUME NEW s \in Sockets, NEW key \in ApiKeys, NEW id \in ClientIds \cup {None},
             ConnectRejected(s, key, id)
      PROVE  Goal
  BY <1>0, <1>7 DEF ConnectRejected, TypeOK
<1>8. ASSUME NEW s \in Sockets, UnboundClosed(s) PROVE Goal
  BY <1>0, <1>8 DEF UnboundClosed, SocketGone, TypeOK
<1>9. UNCHANGED <<sessionOf, authOf, owner>> => Goal
  BY <1>0
<1>10. ASSUME NEW s \in Sockets, Touch(s) \/ PeerClosing(s) PROVE Goal
  BY <1>9, <1>10 DEF Touch, PeerClosing
<1>11. ASSUME NEW key \in ApiKeys, DisconnectByApiKeyId(key) PROVE Goal
  BY <1>9, <1>11 DEF DisconnectByApiKeyId
<1>12. CASE HeartbeatQuiet \/ Tick \/ UNCHANGED vars
  BY <1>9, <1>12 DEF HeartbeatQuiet, Tick, vars
<1> QED
  BY <1>1, <1>2, <1>3, <1>4, <1>5, <1>6, <1>7, <1>8, <1>10, <1>11, <1>12
     DEF Next, RecomputingStep, QuietStep

\* A client only ever acts on sessions of its own API key.
THEOREM KeysAlwaysMatch == Spec => []SocketKeyMatches
<1>1. Init => SocketKeyMatches
  BY DEF Init, SocketKeyMatches
<1>2. TypeOK /\ MapsAgree /\ SocketKeyMatches /\ [Next]_vars => SocketKeyMatches'
  BY NextSocketKeyMatches
<1> QED
  BY <1>1, <1>2, TypeCorrect, MapsAlwaysAgree, PTL DEF Spec

-----------------------------------------------------------------------------
(* The subscription.                                                       *)

\* What a recomputation does for the sessions it counts, and for nothing else.
LEMMA Recomputed ==
    ASSUME NEW ids, UpdateSubscriptions(ids)
    PROVE  /\ \A id \in ids : watch'[id] \subseteq subscription'
           /\ ids \subseteq sessions' =>
                 subscription' \subseteq UNION {watch'[id] : id \in sessions'}
           /\ grpcWanted' = (subscription' # {})
BY DEF UpdateSubscriptions

\* Every step keeps the watchlists that count covered.
LEMMA NextCoverage == TypeOK /\ MapsAgree /\ Coverage /\ [Next]_vars => Coverage'
<1> SUFFICES ASSUME TypeOK, MapsAgree, Coverage, [Next]_vars,
                    NEW c \in RetainedSessions', c \notin late'
             PROVE  watch'[c] \subseteq subscription'
  BY DEF Coverage
<1> DEFINE Goal == watch'[c] \subseteq subscription'
<1>0. c \in RetainedSessions /\ c \notin late => watch[c] \subseteq subscription
  BY DEF Coverage
<1>1. ASSUME NEW s \in Sockets, UpdateWatchlist(s) PROVE Goal
  <2>1. RetainedSessions' = RetainedSessions
    BY <1>1 DEF UpdateWatchlist, RetainedSessions
  <2> QED
    BY <1>1, <2>1, Recomputed DEF UpdateWatchlist
<1>2. ASSUME NEW s \in Sockets, ClientClosed(s) PROVE Goal
  BY <1>2, Recomputed DEF ClientClosed
<1>3. ASSUME NEW s \in Sockets, NEW id \in ClientIds, ResumeOther(s, id) PROVE Goal
  <2>1. /\ AttachSession(s, id, {sessionOf[s]}) /\ sessions' = sessions \ {sessionOf[s]}
        /\ UpdateSubscriptions(RetainedSessions \ {sessionOf[s]})
        /\ late' = {id} \ RetainedSessions /\ id # sessionOf[s]
    BY <1>3 DEF ResumeOther, DeleteSessions, LateIfLapsed
  <2>2. c \in sessions /\ c # sessionOf[s] /\ c \in ClientIds
    BY <2>1 DEF RetainedSessions, TypeOK
  <2>3. c \in RetainedSessions
    <3>1. CASE c = id
      BY <2>1, <3>1
    <3>2. CASE c # id
      <4>1. (c \in connected' <=> c \in connected) /\ away'[c] = away[c]
        BY <2>1, <2>2, <3>2 DEF AttachSession
      <4> QED
        BY <2>2, <4>1 DEF RetainedSessions
    <3> QED
      BY <3>1, <3>2
  <2> QED
    BY <2>1, <2>2, <2>3, Recomputed
<1>4. CASE HeartbeatSweep
  <2>1. /\ sessions' = sessions \ Expired /\ UNCHANGED connected
        /\ away' = [i \in ClientIds |-> IF i \in Expired THEN 0 ELSE away[i]]
        /\ UpdateSubscriptions(RetainedSessions)
    BY <1>4 DEF HeartbeatSweep, DeleteSessions
  <2>2. c \in RetainedSessions
    BY <2>1 DEF RetainedSessions, TypeOK
  <2> QED
    BY <2>1, <2>2, Recomputed
<1>5. ASSUME NEW s \in Sockets, NEW key \in ApiKeys, NEW id \in ClientIds,
             ConnectNew(s, key, id)
      PROVE  Goal
  <2>1. CASE c = id
    BY <1>5, <2>1 DEF ConnectNew, TypeOK
  <2>2. CASE c # id
    <3>1. c \in RetainedSessions /\ c \notin late /\ watch'[c] = watch[c]
      BY <1>5, <2>2 DEF ConnectNew, RetainedSessions, TypeOK
    <3> QED
      BY <1>0, <1>5, <3>1 DEF ConnectNew
  <2> QED
    BY <2>1, <2>2
<1>6. ASSUME NEW s \in Sockets, NEW key \in ApiKeys, NEW id \in ClientIds,
             ConnectResume(s, key, id)
      PROVE  Goal
  <2>1. /\ AttachSession(s, id, {}) /\ late' = late \cup ({id} \ RetainedSessions)
        /\ UNCHANGED <<sessions, watch, subscription>>
    BY <1>6 DEF ConnectResume, LateIfLapsed
  <2>2. c \in RetainedSessions
    <3>1. CASE c = id
      BY <2>1, <3>1
    <3>2. CASE c # id
      BY <2>1, <3>2 DEF AttachSession, RetainedSessions, TypeOK
    <3> QED
      BY <3>1, <3>2
  <2> QED
    BY <1>0, <2>1, <2>2
<1>7. CASE Tick
  <2>1. /\ UNCHANGED <<sessions, connected, watch, subscription, late>>
        /\ \A i \in ClientIds : away'[i] >= away[i]
    <3>1. ASSUME NEW i \in ClientIds PROVE away'[i] >= away[i]
      <4>1. away[i] \in Ages(RetentionTicks) /\ away[i] >= away[i]
        BY RetentionAssumption DEF TypeOK, Ages
      <4>2. away'[i] \in {away[i], Older(away[i], RetentionTicks)}
        BY <1>7 DEF Tick
      <4> QED
        BY <4>1, <4>2, RetentionAssumption, OlderAge
    <3> QED
      BY <1>7, <3>1 DEF Tick
  <2>2. c \in sessions /\ away[c] \in Int /\ away'[c] \in Int /\ away'[c] >= away[c]
    <3>1. TypeOK' /\ c \in ClientIds /\ c \in sessions
      BY <2>1, NextTypeOK DEF RetainedSessions, TypeOK
    <3> QED
      BY <2>1, <3>1 DEF TypeOK, Ages
  <2>3. c \in RetainedSessions
    <3>1. \/ c \in connected
          \/ RetentionTicks > 0 /\ away'[c] <= RetentionTicks
      BY <2>1 DEF RetainedSessions
    <3>2. away'[c] <= RetentionTicks => away[c] <= RetentionTicks
      BY <2>2, RetentionAssumption
    <3> QED
      BY <2>2, <3>1, <3>2 DEF RetainedSessions
  <2> QED
    BY <1>0, <2>1, <2>3
<1>8. UNCHANGED <<sessions, connected, away, watch, subscription, late>> => Goal
  BY <1>0 DEF RetainedSessions
<1>9. ASSUME NEW s \in Sockets, Touch(s) \/ PeerClosing(s) \/ UnboundClosed(s) PROVE Goal
  BY <1>8, <1>9 DEF Touch, PeerClosing, UnboundClosed
<1>10. ASSUME NEW s \in Sockets, NEW key \in ApiKeys, NEW id \in ClientIds \cup {None},
             ConnectRejected(s, key, id)
      PROVE  Goal
  BY <1>8, <1>10 DEF ConnectRejected
<1>11. ASSUME NEW key \in ApiKeys, DisconnectByApiKeyId(key) PROVE Goal
  BY <1>8, <1>11 DEF DisconnectByApiKeyId
<1>12. CASE HeartbeatQuiet \/ UNCHANGED vars
  BY <1>8, <1>12 DEF HeartbeatQuiet, vars
<1> QED
  BY <1>1, <1>2, <1>3, <1>4, <1>5, <1>6, <1>7, <1>9, <1>10, <1>11, <1>12
     DEF Next, RecomputingStep, QuietStep

\* The subscription always covers the watchlists of the connected and the
\* retained clients, but for those attached after their retention lapsed.
THEOREM AlwaysCovered == Spec => []Coverage
<1>1. Init => Coverage
  BY DEF Init, Coverage, RetainedSessions
<1>2. TypeOK /\ MapsAgree /\ Coverage /\ [Next]_vars => Coverage'
  BY NextCoverage
<1> QED
  BY <1>1, <1>2, TypeCorrect, MapsAlwaysAgree, PTL DEF Spec

\* Every step keeps the subscription within what sessions watch.
LEMMA NextNoStraySubscription ==
    TypeOK /\ MapsAgree /\ NoStraySubscription /\ [Next]_vars => NoStraySubscription'
<1> SUFFICES ASSUME TypeOK, MapsAgree, NoStraySubscription, [Next]_vars
             PROVE  NoStraySubscription'
  OBVIOUS
<1>0. /\ subscription \subseteq UNION {watch[id] : id \in sessions}
      /\ grpcWanted = (subscription # {})
  BY DEF NoStraySubscription
<1>1. ASSUME NEW ids, ids \subseteq sessions', UpdateSubscriptions(ids)
      PROVE  NoStraySubscription'
  BY <1>1, Recomputed DEF NoStraySubscription
<1>2. ASSUME NEW s \in Sockets, UpdateWatchlist(s) PROVE NoStraySubscription'
  BY <1>1, <1>2 DEF UpdateWatchlist, RetainedSessions
<1>3. ASSUME NEW s \in Sockets, ClientClosed(s) PROVE NoStraySubscription'
  BY <1>1, <1>3 DEF ClientClosed, RetainedSessions
<1>4. ASSUME NEW s \in Sockets, NEW id \in ClientIds, ResumeOther(s, id)
      PROVE  NoStraySubscription'
  BY <1>1, <1>4 DEF ResumeOther, DeleteSessions, RetainedSessions
<1>5. CASE HeartbeatSweep
  <2>1. \A i \in sessions : away[i] \in Int
    BY DEF TypeOK, Ages
  <2>2. RetainedSessions \subseteq sessions \ Expired
    BY <2>1, RetentionAssumption DEF RetainedSessions, Expired
  <2> QED
    BY <1>1, <1>5, <2>2 DEF HeartbeatSweep, DeleteSessions
<1>6. ASSUME NEW s \in Sockets, NEW key \in ApiKeys, NEW id \in ClientIds,
             ConnectNew(s, key, id)
      PROVE  NoStraySubscription'
  <2>1. \A i \in sessions : i \in sessions' /\ watch'[i] = watch[i]
    BY <1>6 DEF ConnectNew, TypeOK
  <2> QED
    BY <1>0, <1>6, <2>1 DEF ConnectNew, NoStraySubscription
<1>7. UNCHANGED <<sessions, watch, subscription, grpcWanted>> => NoStraySubscription'
  BY <1>0 DEF NoStraySubscription
<1>8. ASSUME NEW s \in Sockets, NEW key \in ApiKeys, NEW id \in ClientIds,
             ConnectResume(s, key, id)
      PROVE  NoStraySubscription'
  BY <1>7, <1>8 DEF ConnectResume
<1>9. ASSUME NEW s \in Sockets, NEW key \in ApiKeys, NEW id \in ClientIds \cup {None},
             ConnectRejected(s, key, id)
      PROVE  NoStraySubscription'
  BY <1>7, <1>9 DEF ConnectRejected
<1>10. ASSUME NEW s \in Sockets, Touch(s) \/ PeerClosing(s) \/ UnboundClosed(s)
       PROVE  NoStraySubscription'
  BY <1>7, <1>10 DEF Touch, PeerClosing, UnboundClosed
<1>11. ASSUME NEW key \in ApiKeys, DisconnectByApiKeyId(key) PROVE NoStraySubscription'
  BY <1>7, <1>11 DEF DisconnectByApiKeyId
<1>12. CASE HeartbeatQuiet \/ Tick \/ UNCHANGED vars
  BY <1>7, <1>12 DEF HeartbeatQuiet, Tick, vars
<1> QED
  BY <1>2, <1>3, <1>4, <1>5, <1>6, <1>8, <1>9, <1>10, <1>11, <1>12
     DEF Next, RecomputingStep, QuietStep

\* Nothing is subscribed without a session that watches it, and the streams are
\* wanted exactly when something is.
THEOREM NeverStray == Spec => []NoStraySubscription
<1>1. Init => NoStraySubscription
  BY DEF Init, NoStraySubscription
<1>2. TypeOK /\ MapsAgree /\ NoStraySubscription /\ [Next]_vars => NoStraySubscription'
  BY NextNoStraySubscription
<1> QED
  BY <1>1, <1>2, TypeCorrect, MapsAlwaysAgree, PTL DEF Spec

-----------------------------------------------------------------------------
(* The composition with the streams.                                       *)

\* A handler that does not recompute the union leaves it alone.
LEMMA QuietUnion == QuietStep => UNCHANGED <<subscription, grpcWanted>>
<1> SUFFICES ASSUME QuietStep PROVE UNCHANGED <<subscription, grpcWanted>>
  OBVIOUS
<1>1. ASSUME NEW s \in Sockets, NEW key \in ApiKeys, NEW id \in ClientIds,
             ConnectNew(s, key, id)
      PROVE  UNCHANGED <<subscription, grpcWanted>>
  BY <1>1 DEF ConnectNew
<1>2. ASSUME NEW s \in Sockets, NEW key \in ApiKeys, NEW id \in ClientIds,
             ConnectResume(s, key, id)
      PROVE  UNCHANGED <<subscription, grpcWanted>>
  BY <1>2 DEF ConnectResume
<1>3. ASSUME NEW s \in Sockets, NEW key \in ApiKeys, NEW id \in ClientIds \cup {None},
             ConnectRejected(s, key, id)
      PROVE  UNCHANGED <<subscription, grpcWanted>>
  BY <1>3 DEF ConnectRejected
<1>4. ASSUME NEW s \in Sockets, Touch(s) \/ PeerClosing(s) \/ UnboundClosed(s)
      PROVE  UNCHANGED <<subscription, grpcWanted>>
  BY <1>4 DEF Touch, PeerClosing, UnboundClosed
<1>5. ASSUME NEW key \in ApiKeys, DisconnectByApiKeyId(key)
      PROVE  UNCHANGED <<subscription, grpcWanted>>
  BY <1>5 DEF DisconnectByApiKeyId
<1>6. CASE HeartbeatQuiet
  BY <1>6 DEF HeartbeatQuiet
<1>7. CASE Tick
  BY <1>7 DEF Tick
<1> QED
  BY <1>1, <1>2, <1>3, <1>4, <1>5, <1>6, <1>7 DEF QuietStep

\* Every step of the bridge is a step of the sessions or leaves them alone.
LEMMA SessionsStep == [BridgeNext]_allVars => [Next]_vars
BY DEF BridgeNext, Recompute, SessionStep, GrpcStep, Next, allVars

\* For any instance, the bridge behaves towards the sessions as Sessions says.
THEOREM BridgeRefinesSessions == BridgeSpec => SessionsRefined
<1>1. BridgeInit => Init
  BY DEF BridgeInit
<1> QED
  BY <1>1, SessionsStep, PTL DEF BridgeSpec, SessionsRefined, Spec

\* Every step of the bridge is a step of the streams or leaves them alone.
LEMMA StreamsStep == TypeOK' /\ [BridgeNext]_allVars => [G!Next]_(G!vars)
<1> SUFFICES ASSUME TypeOK', [BridgeNext]_allVars PROVE [G!Next]_(G!vars)
  OBVIOUS
<1>1. CASE Recompute
  <2>1. subscription' \in SUBSET Watchable
    BY DEF TypeOK
  <2> QED
    BY <1>1, <2>1 DEF Recompute, G!Next
<1>2. CASE SessionStep
  BY <1>2, QuietUnion DEF SessionStep, G!vars, streamVars
<1>3. CASE GrpcStep
  BY <1>3 DEF GrpcStep, G!Next
<1>4. CASE UNCHANGED allVars
  BY <1>4 DEF allVars, vars, G!vars, streamVars
<1> QED
  BY <1>1, <1>2, <1>3, <1>4 DEF BridgeNext

\* For any instance, the bridge drives the streams only as GrpcStreams says:
\* the session handlers change the subscription through updateSubscriptions
\* and in no other way.
THEOREM BridgeRefinesGrpc == BridgeSpec => GrpcRefined
<1>1. BridgeInit => G!Init
  BY DEF BridgeInit
<1>2. BridgeSpec => []TypeOK
  BY BridgeRefinesSessions, TypeCorrect DEF SessionsRefined
<1> QED
  BY <1>1, <1>2, StreamsStep, PTL DEF BridgeSpec, GrpcRefined, G!Spec

-----------------------------------------------------------------------------
(* What is proved of the streams holds in the bridge.                      *)

\* GrpcStreams as in Bridge, with its theorems.
GP == INSTANCE GrpcStreamsProofs WITH Watch <- Watchable

LEMMA SameStreams ==
    /\ G!Spec <=> GP!Spec
    /\ G!AttachedIsWatched <=> GP!AttachedIsWatched
    /\ G!OnlyLateAttach <=> GP!OnlyLateAttach
<1> USE DEF G!wantVars, GP!wantVars, G!vars, GP!vars, G!grpcAllowed, GP!grpcAllowed
<1>1. G!Init <=> GP!Init
  BY DEF G!Init, GP!Init
<1>2. G!LoopStep <=> GP!LoopStep
  BY DEF G!LoopStep, GP!LoopStep, G!WakeUp, GP!WakeUp, G!SubscribeOk, GP!SubscribeOk,
         G!WriteOk, GP!WriteOk, G!ConnectFails, GP!ConnectFails, G!StreamClosed, GP!StreamClosed,
         G!TopOfLoop, GP!TopOfLoop, G!Tries, GP!Tries, G!NextRound, GP!NextRound,
         G!Written, GP!Written, G!ClearField, GP!ClearField, G!AwaitsEnd, GP!AwaitsEnd
<1>3. G!TimerStep <=> GP!TimerStep
  BY DEF G!TimerStep, GP!TimerStep, G!ResubscribeTimer, GP!ResubscribeTimer, G!Ping, GP!Ping,
         G!PingRequest, GP!PingRequest, G!StopAges, GP!StopAges, G!Written, GP!Written
<1>4. G!HealthStep <=> GP!HealthStep
  BY DEF G!HealthStep, GP!HealthStep, G!HealthStatus, GP!HealthStatus, G!StopsOn, GP!StopsOn,
         G!StopGrpcStreams, GP!StopGrpcStreams, G!ScheduleResubscribe, GP!ScheduleResubscribe
<1>5. \A u : G!UpdateSubscriptions(u) <=> GP!UpdateSubscriptions(u)
  BY DEF G!UpdateSubscriptions, GP!UpdateSubscriptions, G!StopGrpcStreams, GP!StopGrpcStreams,
         G!ScheduleResubscribe, GP!ScheduleResubscribe
<1>6. [G!Next]_(G!vars) <=> [GP!Next]_(GP!vars)
  BY <1>2, <1>3, <1>4, <1>5 DEF G!Next, GP!Next
<1>7. G!Spec <=> GP!Spec
  BY <1>1, <1>6, PTL DEF G!Spec, GP!Spec
<1>8. G!AttachedIsWatched <=> GP!AttachedIsWatched
  BY DEF G!AttachedIsWatched, GP!AttachedIsWatched
<1>9. G!OnlyLateAttach <=> GP!OnlyLateAttach
  BY PTL DEF G!OnlyLateAttach, GP!OnlyLateAttach
<1> QED
  BY <1>7, <1>8, <1>9

\* Whatever the clients do, a stream that counts as connected is one whose end
\* its loop awaits, and counts while it is not allowed for one reason only.
THEOREM BridgeStreamsSafe == BridgeSpec => []G!AttachedIsWatched /\ G!OnlyLateAttach
<1>1. RequireHealthy \in BOOLEAN /\ MaxAttempt \in Nat \ {0}
  BY StreamsAssumption
<1>2. GP!Spec => []GP!AttachedIsWatched
  BY <1>1, GP!AttachedAlwaysWatched
<1>3. GP!Spec => GP!OnlyLateAttach
  BY <1>1, GP!OnlyWritesAttachLate
<1> QED
  BY <1>2, <1>3, BridgeRefinesGrpc, SameStreams, PTL DEF GrpcRefined

\* From the watchlists to the streams: a stream that is up to date with the
\* subscription serves every connected client, and nothing else is asked for.
THEOREM BridgeServes == BridgeSpec => []StreamsServe
<1>1. MapsAgree /\ Coverage /\ NoStraySubscription => StreamsServe
  <2> SUFFICES ASSUME MapsAgree, Coverage, NoStraySubscription,
                      NEW l \in attached, filter[l] = subscription
               PROVE  /\ \A id \in connected \ late : watch[id] \subseteq filter[l]
                      /\ filter[l] \subseteq UNION {watch[id] : id \in sessions}
    BY DEF StreamsServe
  <2>1. \A id \in connected \ late : watch[id] \subseteq subscription
    BY DEF MapsAgree, Coverage, RetainedSessions
  <2> QED
    BY <2>1 DEF NoStraySubscription
<1> QED
  BY <1>1, BridgeRefinesSessions, MapsAlwaysAgree, AlwaysCovered, NeverStray, PTL DEF SessionsRefined

\* With nobody watching, no stream comes to count as connected, but for a first
\* write that was under way.
THEOREM UnwatchedNotStreamed == BridgeSpec => UnwatchedStreams
<1>1. ASSUME NoStraySubscription', [BridgeNext]_allVars,
             [\A l \in attached' :
                 ~G!grpcAllowed' => (l \in attached /\ ~G!grpcAllowed) \/ loop[l] = "write"]_(G!vars),
             \A id \in sessions' : watch'[id] = {}, NEW l \in attached',
             ~UNCHANGED allVars
      PROVE  (l \in attached /\ ~G!grpcAllowed) \/ loop[l] = "write"
  <2>1. grpcWanted' = FALSE
    BY <1>1 DEF NoStraySubscription
  <2>2. ~G!grpcAllowed'
    BY <2>1 DEF G!grpcAllowed
  <2>3. CASE UNCHANGED G!vars
    BY <1>1, <2>1, <2>3 DEF G!vars, G!grpcAllowed
  <2> QED
    BY <1>1, <2>2, <2>3
<1>2. NoStraySubscription' /\ [BridgeNext]_allVars
      /\ [\A l \in attached' :
             ~G!grpcAllowed' => (l \in attached /\ ~G!grpcAllowed) \/ loop[l] = "write"]_(G!vars)
      => [(\A id \in sessions' : watch'[id] = {}) =>
            \A l \in attached' : (l \in attached /\ ~G!grpcAllowed) \/ loop[l] = "write"]_allVars
  BY <1>1
<1> QED
  BY <1>2, BridgeRefinesSessions, NeverStray, BridgeStreamsSafe, PTL
     DEF BridgeSpec, SessionsRefined, G!OnlyLateAttach, UnwatchedStreams
=============================================================================
