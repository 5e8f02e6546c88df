------------------------------ MODULE MCTimers ------------------------------
(* The parts of the bridge that run on timers of their own, in one run:     *)
(* small instances of NodeHealth, RateLimiter and Connection.  They share   *)
(* no state, so interleaving them would show nothing: one of the three      *)
(* moves in a behaviour, and the two others rest in an initial state.       *)
(* A tick stands for 500 ms in NodeHealth.                                  *)
EXTENDS NodeHealth, RateLimiter, Connection

NodeRests       == Init /\ ~nodeUp /\ latency = 0
LimiterRests    == LimiterInit
ConnectionRests == /\ ConnectionInit
                   /\ \A t \in IdleTimeouts, d \in Delays : idleTimeout <= t /\ delay <= d

TimersInit ==
    /\ Init /\ LimiterInit /\ ConnectionInit
    /\ NodeRests \/ ConnectionRests

TimersNext ==
    \/ Next /\ LimiterRests /\ ConnectionRests /\ UNCHANGED <<limiterVars, connectionVars>>
    \/ LimiterNext /\ NodeRests /\ ConnectionRests /\ UNCHANGED <<vars, connectionVars>>
    \/ ConnectionNext /\ NodeRests /\ LimiterRests /\ UNCHANGED <<vars, limiterVars>>

TimersSpec ==
    TimersInit /\ [][TimersNext]_<<vars, limiterVars, connectionVars>> /\ Fairness
=============================================================================
