---------------------------- MODULE GrpcStreams ----------------------------
(***************************************************************************)
(* The gRPC side of the bridge: one endless connect loop per commitment    *)
(* level, the streams they open, and what is written to those streams as   *)
(* the wanted subscription and the health of the node change.              *)
(*                                                                         *)
(* A step of a loop is the code between two awaits.  The endpoint, the     *)
(* timers and the health monitor act between those steps, so a loop that   *)
(* waits for subscribe() or for its first write to be acknowledged finds   *)
(* the world changed when it goes on.                                      *)
(***************************************************************************)
EXTENDS Integers, FiniteSets

CONSTANTS
    Watch,           \* what can be subscribed to
    Labels,          \* the two loops: processed and confirmed
    RequireHealthy,  \* grpcRequireHealthy
    MaxAttempt       \* attempt is counted no further than this

ASSUME RequireHealthyAssumption == RequireHealthy \in BOOLEAN
ASSUME MaxAttemptAssumption     == MaxAttempt \in Nat \ {0}

VARIABLES
    subscription,  \* subscriptionAccounts and subscriptionMints
    grpcWanted,    \* grpcWanted
    nodeHealthy,   \* nodeHealthy
    pendingWrite,  \* pendingWrite: the resubscribe timer is armed
    stopAge,       \* how long ago streams were stopped last: "now" while
                   \* stoppingGrpc is set (1 s), "recent" while lastStopAt is
                   \* at most 10 s old, "none" otherwise
    loop,          \* where each runGrpcLoop waits
    attempt,       \* attempt of each runGrpcLoop
    attached,      \* labels whose processedStream/confirmedStream is set
    filter         \* accountInclude last written to each loop's stream

wantVars  == <<subscription, grpcWanted>>
localVars == <<nodeHealthy, pendingWrite, stopAge, loop, attempt, attached, filter>>
vars      == <<subscription, grpcWanted, nodeHealthy, pendingWrite, stopAge,
               loop, attempt, attached, filter>>

\* sleep: the 500 ms of a loop that is not allowed to connect.
\* subscribe, write: connectStream awaits subscribe(), its first write.
\* up: the loop awaits the end of its stream.
\* backoff: the retry delay after a failure.
LoopStates == {"sleep", "subscribe", "write", "up", "backoff"}

TypeOK ==
    /\ subscription \subseteq Watch /\ grpcWanted \in BOOLEAN
    /\ nodeHealthy \in BOOLEAN /\ pendingWrite \in BOOLEAN /\ stopAge \in {"none", "recent", "now"}
    /\ loop \in [Labels -> LoopStates]
    /\ attempt \in [Labels -> 0 .. MaxAttempt]
    /\ attached \subseteq Labels
    /\ filter \in [Labels -> SUBSET Watch]

\* The loops start before any client is connected.
Init ==
    /\ subscription = {} /\ grpcWanted = FALSE
    /\ nodeHealthy \in BOOLEAN
    /\ pendingWrite = FALSE /\ stopAge = "none"
    /\ loop = [l \in Labels |-> "sleep"]
    /\ attempt = [l \in Labels |-> 0]
    /\ attached = {}
    /\ filter = [l \in Labels |-> {}]

grpcAllowed == grpcWanted /\ (RequireHealthy => nodeHealthy)

-----------------------------------------------------------------------------
(* Writing the subscription and stopping the streams.                      *)

\* scheduleResubscribe: arms the timer unless it is armed; `may' is
\* grpcAllowed() at the point of the call.
ScheduleResubscribe(may) == pendingWrite' = (pendingWrite \/ may)

\* Mutant: a request that adds to what the stream is subscribed to.
WrittenOnTop(ls) ==
    [l \in Labels |-> IF l \in ls THEN filter[l] \cup subscription ELSE filter[l]]

\* What the streams in ls subscribe to after currentReq is written to them.
Written(ls) == [l \in Labels |-> IF l \in ls THEN subscription ELSE filter[l]]

\* Mutant: the fields are left to the loops, which clear them as the streams
\* end.
StopLeavesFields ==
    /\ stopAge' = "now"
    /\ UNCHANGED attached

\* stopGrpcStreams: ends the streams the fields name and clears the fields.
\* A stream whose loop still awaits its first write is not among them.
StopGrpcStreams ==
    /\ stopAge' = "now"
    /\ attached' = {}

\* updateSubscriptions, once the union u is computed.
UpdateSubscriptions(u) ==
    LET wanted == u # {} IN
    /\ subscription' = u
    /\ grpcWanted' = wanted
    /\ IF ~wanted \/ (RequireHealthy /\ ~nodeHealthy)
       THEN StopGrpcStreams /\ UNCHANGED pendingWrite
       ELSE /\ IF u # subscription \/ ~grpcWanted
               THEN ScheduleResubscribe(TRUE) ELSE UNCHANGED pendingWrite
            /\ UNCHANGED <<stopAge, attached>>
    /\ UNCHANGED <<nodeHealthy, loop, attempt, filter>>

\* The 200 ms timer of scheduleResubscribe: writeSubscriptionSafely writes to
\* the streams that are attached by then.  A write that fails is reported and
\* not repeated.
ResubscribeTimer ==
    /\ pendingWrite
    /\ pendingWrite' = FALSE
    /\ IF grpcAllowed THEN \E reached \in SUBSET attached : filter' = Written(reached)
       ELSE UNCHANGED filter
    /\ UNCHANGED <<wantVars, nodeHealthy, stopAge, loop, attempt, attached>>

\* Mutant: a ping that does not carry the subscription.
BarePing(ls) == filter

PingRequest(ls) == Written(ls)

\* The 10 s ping, which carries the whole request and is written to the processed
\* stream, then to the confirmed one.  The error of a write is ignored, and a write
\* that throws leaves out the stream after it.
Ping(reached) ==
    /\ grpcAllowed
    /\ reached \subseteq attached
    /\ filter' = PingRequest(reached)
    /\ UNCHANGED <<wantVars, nodeHealthy, pendingWrite, stopAge, loop, attempt, attached>>

\* Mutant: streams are stopped on a change to unhealthy only.
StopsOnChange(ok) == RequireHealthy /\ ~ok /\ nodeHealthy

StopsOn(ok) == RequireHealthy /\ ~ok

\* handleHealthStatus, called with the result of every health check.
HealthStatus(ok) ==
    /\ nodeHealthy' = ok
    /\ IF StopsOn(ok) THEN StopGrpcStreams ELSE UNCHANGED <<stopAge, attached>>
    /\ ScheduleResubscribe(RequireHealthy /\ ok /\ grpcWanted)
    /\ UNCHANGED <<wantVars, loop, attempt, filter>>

\* stopResetTimer, a second after the last stop; then lastStopAt grows old.
StopAges ==
    /\ stopAge # "none"
    /\ stopAge' = IF stopAge = "now" THEN "recent" ELSE "none"
    /\ UNCHANGED <<wantVars, nodeHealthy, pendingWrite, loop, attempt, attached, filter>>

-----------------------------------------------------------------------------
(* runGrpcLoop.                                                            *)

\* The top of the loop: connect if allowed, else sleep with attempt reset.
TopOfLoop(l, tries) ==
    /\ loop' = [loop EXCEPT ![l] = IF grpcAllowed THEN "subscribe" ELSE "sleep"]
    /\ attempt' = [attempt EXCEPT ![l] = IF grpcAllowed THEN tries ELSE 0]

Tries(l) == IF attempt[l] < MaxAttempt THEN attempt[l] + 1 ELSE MaxAttempt

\* After a connection ended: the field is cleared; a failure is retried after a
\* random delay, which may be zero.
NextRound(l, failure) ==
    /\ IF ~failure THEN TopOfLoop(l, 0)
       ELSE \/ TopOfLoop(l, Tries(l))
            \/ /\ loop' = [loop EXCEPT ![l] = "backoff"]
               /\ attempt' = [attempt EXCEPT ![l] = Tries(l)]
    /\ filter' = [filter EXCEPT ![l] = {}]
    /\ UNCHANGED <<wantVars, nodeHealthy, pendingWrite, stopAge>>

\* The sleep or the retry delay is over.
WakeUp(l) ==
    /\ loop[l] \in {"sleep", "backoff"}
    /\ TopOfLoop(l, attempt[l])
    /\ UNCHANGED <<wantVars, nodeHealthy, pendingWrite, stopAge, attached, filter>>

\* subscribe() resolves; the current request is written, and awaited.
SubscribeOk(l) ==
    /\ loop[l] = "subscribe"
    /\ loop' = [loop EXCEPT ![l] = "write"]
    /\ filter' = Written({l})
    /\ UNCHANGED <<wantVars, nodeHealthy, pendingWrite, stopAge, attempt, attached>>

\* The write is acknowledged: the field is set, whatever happened meanwhile.
WriteOk(l) ==
    /\ loop[l] = "write"
    /\ loop' = [loop EXCEPT ![l] = "up"]
    /\ attached' = attached \cup {l}
    /\ UNCHANGED <<wantVars, nodeHealthy, pendingWrite, stopAge, attempt, filter>>

\* Mutant: the finally block leaves the field set.
KeepField(l) == attached

ClearField(l) == attached \ {l}

\* subscribe() or the write rejects.  It counts as a failure unless the error
\* is a cancellation soon after a stop.
ConnectFails(l) ==
    /\ loop[l] \in {"subscribe", "write"}
    /\ \E cancelled \in BOOLEAN : NextRound(l, ~(cancelled /\ stopAge # "none"))
    /\ attached' = ClearField(l)

\* Mutant: the loop never comes back from a stream that was stopped.
OnlyAttached(l) == loop[l] = "up" /\ l \in attached

AwaitsEnd(l) == loop[l] = "up"

\* The stream ends or closes: by the endpoint, the network or our own stop.
StreamClosed(l) ==
    /\ AwaitsEnd(l)
    /\ NextRound(l, grpcAllowed /\ stopAge # "now")
    /\ attached' = ClearField(l)

-----------------------------------------------------------------------------
LoopStep ==
    \E l \in Labels : \/ WakeUp(l)
                      \/ SubscribeOk(l)
                      \/ WriteOk(l)
                      \/ ConnectFails(l)
                      \/ StreamClosed(l)

TimerStep ==
    \/ ResubscribeTimer
    \/ \E reached \in SUBSET attached : Ping(reached)
    \/ StopAges

HealthStep == \E ok \in BOOLEAN : HealthStatus(ok)

Next ==
    \/ LoopStep
    \/ TimerStep
    \/ HealthStep
    \/ \E u \in SUBSET Watch : UpdateSubscriptions(u)

Spec == Init /\ [][Next]_vars

\* A ping that is written to the stream of l, whatever happens to the other one.
PingArrives(l) == \E reached \in SUBSET attached : l \in reached /\ Ping(reached)

\* Timers fire, a loop resumes from its sleep and from every await, and the end
\* of a stream that was stopped arrives.  A stream that stays attached takes a
\* ping sometime: one that takes no write any more ends.
LoopFairness ==
    /\ WF_vars(ResubscribeTimer) /\ WF_vars(StopAges)
    /\ \A l \in Labels :
          /\ WF_vars(PingArrives(l))
          /\ WF_vars(WakeUp(l))
          /\ WF_vars(SubscribeOk(l) \/ ConnectFails(l))
          /\ WF_vars(WriteOk(l) \/ ConnectFails(l))
          /\ WF_vars(l \notin attached /\ StreamClosed(l))

\* The health monitor repeats its verdict for as long as it stands.
HealthFairness == \A ok \in BOOLEAN : WF_vars(nodeHealthy = ok /\ HealthStatus(ok))

\* A loop that tries to connect again and again succeeds sometime.
EndpointAccepts == \A l \in Labels : SF_vars(SubscribeOk(l)) /\ SF_vars(WriteOk(l))

FairSpec == Spec /\ LoopFairness /\ HealthFairness

-----------------------------------------------------------------------------
(* Properties.                                                             *)

\* grpcConnected() tells clients that a stream is attached: its loop is then
\* waiting on that very stream, so its end will be noticed and the field
\* cleared, also when a stop cleared it first and another stream followed.
AttachedIsWatched ==
    \A l \in attached : loop[l] = "up"

\* However the last watcher's leaving, the verdicts on the node and the steps of
\* the loops interleave, a stream comes to count as connected while it is not
\* allowed in one way only: a first write that was under way when the streams
\* were stopped is acknowledged.  No stop overlooks a stream that is attached.
OnlyLateAttach ==
    [][\A l \in attached' :
          ~grpcAllowed' => (l \in attached /\ ~grpcAllowed) \/ loop[l] = "write"]_vars

\* A stream that was opened or written while the subscription changed does not
\* keep a stale filter: the resubscribe timer misses streams that attach after
\* it fires, and the ping makes up for it.
FilterConverges ==
    \A l \in Labels :
        l \in attached /\ filter[l] # subscription
            ~> l \notin attached \/ filter[l] = subscription \/ ~grpcAllowed

\* When the node stays unhealthy the streams end up stopped, also one that
\* attached after the first unhealthy verdict (README.md: "Pauses gRPC
\* subscriptions when the node is unhealthy").
UnhealthyQuiet ==
    RequireHealthy => (<>[]~nodeHealthy => <>[](attached = {}))

\* "... and resumes automatically": while the subscription is wanted and the
\* node healthy, no loop stalls; each gets its stream up again and again,
\* however often the endpoint drops it, provided that it accepts sometime.
Reconnects ==
    EndpointAccepts => \A l \in Labels : <>[]grpcAllowed => []<>(l \in attached)

\* What README.md says of a retention of 0, "drop subscriptions immediately on
\* disconnect", holds of every stop only if a stream that is no longer wanted
\* is given up in the end.  It is not, when the stop came while the stream was
\* being opened.
UnwantedDropped ==
    \A l \in Labels : ~grpcWanted /\ l \in attached ~> grpcWanted \/ l \notin attached
=============================================================================
