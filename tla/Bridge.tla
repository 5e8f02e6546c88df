------------------------------- MODULE Bridge -------------------------------
(***************************************************************************)
(* The bridge as a whole: client sessions (Sessions) that drive the gRPC   *)
(* streams (GrpcStreams) through updateSubscriptions.  A handler that      *)
(* recomputes the subscription is one step of both components; every other *)
(* handler, await or timer is a step of one of them.                       *)
(***************************************************************************)
EXTENDS Sessions

CONSTANTS
    Labels,          \* the two loops: processed and confirmed
    RequireHealthy,  \* grpcRequireHealthy
    MaxAttempt       \* bound on the retry counters

ASSUME StreamsAssumption == RequireHealthy \in BOOLEAN /\ MaxAttempt \in Nat \ {0}

VARIABLES nodeHealthy, pendingWrite, stopAge, loop, attempt, attached, filter

G == INSTANCE GrpcStreams WITH Watch <- Watchable

streamVars == <<nodeHealthy, pendingWrite, stopAge, loop, attempt, attached, filter>>
allVars    == <<vars, streamVars>>

BridgeInit == Init /\ G!Init

\* Mutant: the handlers recompute the union, but the streams are not told.
SilentUpdate == RecomputingStep /\ UNCHANGED streamVars

Recompute == RecomputingStep /\ G!UpdateSubscriptions(subscription')

SessionStep == QuietStep /\ UNCHANGED streamVars

GrpcStep == (G!LoopStep \/ G!TimerStep \/ G!HealthStep) /\ UNCHANGED vars

BridgeNext == Recompute \/ SessionStep \/ GrpcStep

BridgeSpec == BridgeInit /\ [][BridgeNext]_allVars

\* The endpoint accepts a connection and a first write if it is asked often
\* enough.
BridgeFairness ==
    /\ WF_allVars(G!ResubscribeTimer /\ UNCHANGED vars)
    /\ \A l \in Labels :
          /\ WF_allVars(G!PingArrives(l) /\ UNCHANGED vars)
          /\ WF_allVars(G!WakeUp(l) /\ UNCHANGED vars)
          /\ WF_allVars((G!SubscribeOk(l) \/ G!ConnectFails(l)) /\ UNCHANGED vars)
          /\ WF_allVars((G!WriteOk(l) \/ G!ConnectFails(l)) /\ UNCHANGED vars)
          /\ WF_allVars(l \notin attached /\ G!StreamClosed(l) /\ UNCHANGED vars)
          /\ SF_allVars(G!SubscribeOk(l) /\ UNCHANGED vars)
          /\ SF_allVars(G!WriteOk(l) /\ UNCHANGED vars)

FairBridge == BridgeSpec /\ BridgeFairness

-----------------------------------------------------------------------------
(* Properties.                                                             *)

Streaming(l, w) == l \in attached /\ w \in filter[l]

\* From a watchlist message to the endpoint: what a connected client watches is
\* asked for on each stream in the end, through reconnects, resubscriptions and
\* resumes in any order, as long as the client stays, keeps watching and the
\* streams may run.  Only a client that resumed a lapsed session may wait for
\* the next recomputation.
WatchReachesStreams ==
    \A id \in ClientIds, w \in Watchable, l \in Labels :
        id \in connected /\ w \in watch[id]
            ~> \/ Streaming(l, w)
               \/ id \notin connected \/ w \notin watch[id] \/ id \in late
               \/ ~G!grpcAllowed

\* A stream that is attached and up to date with the subscription brings each
\* connected client what it watches, and nothing that no session watches.
StreamsServe ==
    \A l \in attached : filter[l] = subscription =>
        /\ \A id \in connected \ late : watch[id] \subseteq filter[l]
        /\ filter[l] \subseteq UNION {watch[id] : id \in sessions}

\* When no session watches anything, no stream counts as connected but one that
\* already did while it was not allowed, or whose first write was under way.
UnwatchedStreams ==
    [][(\A id \in sessions' : watch'[id] = {}) =>
          \A l \in attached' : (l \in attached /\ ~G!grpcAllowed) \/ loop[l] = "write"]_allVars

\* Sessions only reads and writes its own variables: the composition steps as
\* each component does.
SessionsRefined == Spec
GrpcRefined == G!Spec
=============================================================================
