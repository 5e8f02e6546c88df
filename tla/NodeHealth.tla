----------------------------- MODULE NodeHealth -----------------------------
(***************************************************************************)
(* NodeHealthMonitor and the part of BridgeServer.handleHealthStatus that  *)
(* tunes it: a check, a timer, a check, ..., with an interval and a        *)
(* request timeout that follow the verdict.                                *)
(*                                                                         *)
(* The clock ticks in a unit all timers are multiples of; what is due      *)
(* happens before the next tick.                                           *)
(***************************************************************************)
EXTENDS Integers

CONSTANTS
    Interval, UnhealthyInterval,  \* healthCheckIntervalMs, ...UnhealthyMs
    Timeout, UnhealthyTimeout,    \* healthCheckTimeoutMs, the 1000 ms
    Latencies,                    \* how long the node takes to answer
    NotSet                        \* no timer, no request

ASSUME ConfigAssumption ==
    /\ {Interval, UnhealthyInterval, Timeout, UnhealthyTimeout} \subseteq Nat \ {0}
    /\ Latencies \subseteq Nat
    /\ NotSet \notin Nat

Larger(a, b) == IF a > b THEN a ELSE b

Intervals == {Interval, UnhealthyInterval, Larger(Interval, Timeout),
              Larger(UnhealthyInterval, UnhealthyTimeout)}
Timeouts  == {Timeout, UnhealthyTimeout}

VARIABLES
    started,     \* started
    timer,       \* ticks until the timer fires
    request,     \* age of the check in flight (inFlight)
    intervalMs,  \* intervalMs
    timeoutMs,   \* timeoutMs, the limit of a request
    ok,          \* status.ok
    nodeUp,      \* the node answers "ok", not an error
    latency,     \* the age at which a check is answered
    judged,      \* history: there was a verdict
    staleness    \* history: ticks since the last verdict, or since start()

vars == <<started, timer, request, intervalMs, timeoutMs, ok, nodeUp, latency,
          judged, staleness>>
nodeVars == <<nodeUp, latency>>

Init ==
    /\ started = FALSE /\ timer = NotSet /\ request = NotSet
    /\ timeoutMs = Timeout /\ intervalMs = Larger(Interval, Timeout)
    /\ ok = FALSE /\ nodeUp \in BOOLEAN /\ latency \in Latencies
    /\ judged = FALSE /\ staleness = 0

TypeOK ==
    /\ started \in BOOLEAN /\ ok \in BOOLEAN /\ nodeUp \in BOOLEAN /\ judged \in BOOLEAN
    /\ intervalMs \in Intervals /\ timeoutMs \in Timeouts
    /\ timer \in Nat \cup {NotSet} /\ request \in Nat \cup {NotSet}
    /\ latency \in Latencies
    /\ staleness \in Nat

-----------------------------------------------------------------------------
\* runOnce: begins a check, or, while one is in flight, schedules the next
\* round.
RunOnce ==
    IF request = NotSet THEN request' = 0 /\ timer' = NotSet
    ELSE UNCHANGED request /\ timer' = intervalMs

Start ==
    /\ ~started
    /\ started' = TRUE
    /\ RunOnce
    /\ staleness' = 0
    /\ UNCHANGED <<intervalMs, timeoutMs, ok, nodeVars, judged>>

Stop ==
    /\ started
    /\ started' = FALSE
    /\ timer' = NotSet
    /\ UNCHANGED <<request, intervalMs, timeoutMs, ok, nodeVars, judged, staleness>>

TimerFires ==
    /\ timer = 0
    /\ RunOnce
    /\ UNCHANGED <<started, intervalMs, timeoutMs, ok, nodeVars, judged, staleness>>

TargetTimeout(verdict)  == IF verdict THEN Timeout ELSE UnhealthyTimeout
TargetInterval(verdict) == IF verdict THEN Interval ELSE UnhealthyInterval

\* What the two setters make of an interval: setTimeoutMs lengthens one that is
\* shorter than a new timeout, setIntervalMs keeps a new one from being shorter
\* than the timeout it finds.  Neither does anything if its argument is set already.
SetTimeoutMs(interval, next) == IF next = timeoutMs THEN interval ELSE Larger(interval, next)
SetIntervalMs(interval, next, timeout) == IF next = interval THEN interval ELSE Larger(next, timeout)

\* Mutant: the interval is set before the timeout.
IntervalFirst(verdict) ==
    SetTimeoutMs(SetIntervalMs(intervalMs, TargetInterval(verdict), timeoutMs), TargetTimeout(verdict))

\* The interval after the two calls of handleHealthStatus.
Tuning(verdict) ==
    SetIntervalMs(SetTimeoutMs(intervalMs, TargetTimeout(verdict)),
                  TargetInterval(verdict), TargetTimeout(verdict))

\* Mutants: only a monitor whose node is well goes on; the next round is
\* scheduled with the interval from before the verdict.
IfWell(verdict) == started /\ verdict
OldInterval == intervalMs

GoesOn(verdict) == started
NextRound == intervalMs'

\* The check is over.  The listener tunes the monitor, then the round ends.
CheckDone(verdict) ==
    /\ request # NotSet
    /\ request' = NotSet
    /\ ok' = verdict /\ judged' = TRUE /\ staleness' = 0
    /\ timeoutMs' = TargetTimeout(verdict)
    /\ intervalMs' = Tuning(verdict)
    /\ timer' = IF GoesOn(verdict) THEN NextRound ELSE timer
    /\ UNCHANGED <<started, nodeVars>>

Answered == request # NotSet /\ request >= latency /\ CheckDone(nodeUp)
TimedOut == request = timeoutMs /\ CheckDone(FALSE)

-----------------------------------------------------------------------------
Older(t, limit) == IF t = NotSet \/ t = limit THEN t ELSE t + 1

Tick ==
    /\ timer # 0
    /\ request # NotSet => request < timeoutMs /\ request < latency
    /\ timer # NotSet \/ request # NotSet
    /\ timer' = IF timer = NotSet THEN NotSet ELSE timer - 1
    /\ request' = Older(request, timeoutMs)
    /\ staleness' = staleness + 1
    /\ UNCHANGED <<started, intervalMs, timeoutMs, ok, nodeVars, judged>>

\* A check that is in flight is answered as fast as the node was at its start.
NodeChanges ==
    /\ nodeUp' \in BOOLEAN
    /\ latency' \in (IF request = NotSet THEN Latencies ELSE {latency})
    /\ nodeVars' # nodeVars
    /\ UNCHANGED <<started, timer, request, intervalMs, timeoutMs, ok, judged, staleness>>

Next ==
    \/ Start \/ Stop
    \/ TimerFires
    \/ Answered \/ TimedOut
    \/ Tick \/ NodeChanges

Spec == Init /\ [][Next]_vars
\* Time goes on, and nothing that is due is left out.
Fairness == WF_vars(TimerFires) /\ WF_vars(Answered \/ TimedOut) /\ WF_vars(Tick)
FairSpec == Spec /\ Fairness

-----------------------------------------------------------------------------
(* Properties.                                                             *)

\* A monitor that is started always has a next step to come, also when it is
\* stopped and started again while a check is in flight.
NeverStalled == started => timer # NotSet \/ request # NotSet

\* The verdict the bridge acts on is never older than one interval and one
\* request, through every change of the two.
Fresh == started => staleness <= intervalMs + timeoutMs

\* README.md, "When the node is unhealthy, the health check interval switches
\* ... once healthy, they return": both always fit the last verdict, whatever they
\* were before and though each setter looks at what the other one sets.  A timeout
\* above the interval lengthens the interval.
Tuned ==
    judged => /\ timeoutMs = TargetTimeout(ok)
              /\ intervalMs = Larger(TargetInterval(ok), TargetTimeout(ok))

NodeStays(well) == <>[](started /\ nodeUp = well)

\* A change of the node that lasts is noticed, which is what GrpcStreams
\* assumes of its verdicts.  To be found well again a node has to answer within
\* the shorter timeout of an unhealthy one: a node that takes longer, but less
\* than healthCheckTimeoutMs, stays well or stays unwell.
FollowsNode ==
    /\ NodeStays(TRUE) /\ <>[](latency < UnhealthyTimeout) => <>[]ok
    /\ NodeStays(FALSE) => <>[]~ok
=============================================================================
