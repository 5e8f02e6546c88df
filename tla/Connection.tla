----------------------------- MODULE Connection -----------------------------
(***************************************************************************)
(* The connection of one session over time: the heartbeat of BridgeServer  *)
(* pings an open socket and terminates one that was not heard of for       *)
(* longer than the idle timeout.  Sessions abstracts this to a choice; here *)
(* the heartbeat's interval, the idle timeout and the time a pong takes    *)
(* are numbers.                                                            *)
(*                                                                         *)
(* A heartbeat that is due comes before the next tick.                     *)
(***************************************************************************)
EXTENDS Integers

CONSTANTS
    IdleTimeouts,               \* the settings of wsIdleTimeoutMs
    Delays,                     \* how long a responsive client's pong takes
    MinInterval, MaxInterval    \* 5 s and 30 s

ASSUME ConnectionAssumption ==
    /\ IdleTimeouts \subseteq Nat /\ Delays \subseteq Nat
    /\ MinInterval \in Nat \ {0} /\ MaxInterval \in Nat \ {0}

VARIABLES
    idleTimeout,  \* config.wsIdleTimeoutMs, never changed
    delay,        \* the longest this client's pongs take, never changed
    untilBeat,    \* ticks until the heartbeat
    open,         \* the session's socket is open
    idle,         \* now - lastSeenAt
    pings,        \* ages of the pings that are not answered
    silent,       \* nothing of the client arrives any more
    terminated    \* history: the heartbeat ended the connection

config == <<idleTimeout, delay>>
connectionVars == <<config, untilBeat, open, idle, pings, silent, terminated>>

Lesser(a, b)  == IF a < b THEN a ELSE b
Greater(a, b) == IF a < b THEN b ELSE a

\* startClientHeartbeat, intervalMs
BeatInterval == Lesser(MaxInterval, Greater(MinInterval, idleTimeout \div 2))

ConnectionInit ==
    /\ idleTimeout \in IdleTimeouts /\ delay \in Delays
    /\ untilBeat = BeatInterval
    /\ open = FALSE /\ idle = 0 /\ pings = {} /\ silent = FALSE /\ terminated = FALSE

ConnectionTypeOK ==
    /\ idleTimeout \in IdleTimeouts /\ delay \in Delays
    /\ untilBeat \in 0..BeatInterval
    /\ open \in BOOLEAN /\ silent \in BOOLEAN /\ terminated \in BOOLEAN
    /\ idle \in Nat /\ pings \subseteq Nat

-----------------------------------------------------------------------------
\* createSession or attachSession, for a client that comes or comes back.
Connects ==
    /\ ~open
    /\ open' = TRUE /\ idle' = 0
    /\ pings' = {} /\ silent' = FALSE /\ terminated' = FALSE
    /\ UNCHANGED <<config, untilBeat>>

\* The client's side closes.
Closes ==
    /\ open
    /\ open' = FALSE /\ idle' = 0 /\ pings' = {} /\ silent' = FALSE
    /\ UNCHANGED <<config, untilBeat, terminated>>

GoesSilent ==
    /\ open /\ ~silent
    /\ silent' = TRUE
    /\ UNCHANGED <<config, untilBeat, open, idle, pings, terminated>>

\* Mutant: what arrives is not noted.
Untouched == idle

Touched == 0

\* touchClient: for a message, also one that is malformed for its operation or
\* over the rate limit, ...
Speaks ==
    /\ open /\ ~silent
    /\ idle' = 0
    /\ UNCHANGED <<config, untilBeat, open, pings, silent, terminated>>

\* ... and for a pong.
Pong ==
    /\ open /\ ~silent
    /\ idle' = Touched
    /\ \E p \in pings : pings' = pings \ {p}
    /\ UNCHANGED <<config, untilBeat, open, silent, terminated>>

\* Mutant: a ping counts as a sign of life.
NotHeard == idle > idleTimeout + BeatInterval

Idle == idle > idleTimeout

Heartbeat ==
    /\ untilBeat = 0
    /\ untilBeat' = BeatInterval
    /\ IF open /\ Idle
         THEN open' = FALSE /\ idle' = 0 /\ pings' = {} /\ terminated' = TRUE
         ELSE /\ pings' = IF open THEN pings \cup {0} ELSE pings
              /\ UNCHANGED <<open, idle, terminated>>
    /\ UNCHANGED <<config, silent>>

\* A pong is on time while the client is responsive; pings that nobody will
\* answer need no age.
ConnectionTick ==
    /\ untilBeat > 0
    /\ ~silent => \A p \in pings : p < delay
    /\ untilBeat' = untilBeat - 1
    /\ idle' = IF open THEN idle + 1 ELSE idle
    /\ pings' = IF silent THEN {} ELSE {p + 1 : p \in pings}
    /\ UNCHANGED <<config, open, silent, terminated>>

ConnectionNext ==
    \/ Connects \/ Closes \/ GoesSilent
    \/ Speaks \/ Pong
    \/ Heartbeat \/ ConnectionTick

ConnectionSpec == ConnectionInit /\ [][ConnectionNext]_connectionVars

-----------------------------------------------------------------------------
(* Properties.                                                             *)

\* A client that only listens, and whose pongs are on time, is not taken for
\* gone: not when its first ping comes an interval after it connected, nor when
\* pings overtake its answers.  The premise is needed: an idle timeout below the
\* 5 s the interval never goes below ends quiet connections that are well.
ResponsiveKept == BeatInterval + delay <= idleTimeout => (terminated => silent)

\* A client that is gone without a close is noticed in bounded time, whenever
\* between two heartbeats it was last heard of.
SilentGone == open => idle <= idleTimeout + BeatInterval
=============================================================================
