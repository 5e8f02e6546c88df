---------------------------- MODULE RateLimiter ----------------------------
(***************************************************************************)
(* RateLimiter, and allowClientMessage of BridgeServer: a session's        *)
(* messages are counted in windows that a message opens, and those over    *)
(* the limit are dropped.                                                  *)
(*                                                                         *)
(* What the code takes from the clock is an age here.  An age stops at     *)
(* Window: the code tells nothing older apart.  A message has a slot of    *)
(* Messages until it is that old, so Cardinality(Messages) bounds how many *)
(* a client sends within one Window.                                       *)
(***************************************************************************)
EXTENDS Integers, FiniteSets

CONSTANTS
    Limit,     \* wsRateLimitCount; 0 turns the limit off, as a Window of 0 does
    Window,    \* wsRateLimitWindowMs
    Messages   \* slots

ASSUME LimiterAssumption ==
    Limit \in Nat /\ Window \in Nat \ {0} /\ IsFiniteSet(Messages)

VARIABLES
    windowAge,  \* now - windowStart
    count,      \* count
    age,        \* history: how long ago each message came
    allowed     \* history: those that were handled

limiterVars == <<windowAge, count, age, allowed>>

\* A window that started at 0, the epoch, is over.
LimiterInit ==
    /\ windowAge = Window /\ count = 0
    /\ age = [m \in Messages |-> Window] /\ allowed = {}

LimiterTypeOK ==
    /\ windowAge \in 0..Window /\ count \in Nat
    /\ age \in [Messages -> 0..Window] /\ allowed \subseteq Messages

-----------------------------------------------------------------------------
\* Mutants: windowStart is not moved when a window opens; the limit itself is
\* one too many.
KeepWindow == windowAge
WithinLess(n) == n < Limit

WindowIsOver == windowAge = Window
Within(n) == n <= Limit
OpenWindow == IF WindowIsOver THEN 0 ELSE windowAge

\* allow
Message(m) ==
    /\ age[m] = Window
    /\ age' = [age EXCEPT ![m] = 0]
    /\ IF Limit = 0
         THEN UNCHANGED <<windowAge, count>> /\ allowed' = allowed \cup {m}
         ELSE /\ windowAge' = OpenWindow
              /\ count' = IF WindowIsOver THEN 1 ELSE count + 1
              /\ allowed' = IF Within(count') THEN allowed \cup {m} ELSE allowed \ {m}

Aged(a) == IF a < Window THEN a + 1 ELSE Window

LimiterTick ==
    /\ windowAge' = Aged(windowAge)
    /\ age' = [m \in Messages |-> Aged(age[m])]
    /\ UNCHANGED <<count, allowed>>

LimiterNext == (\E m \in Messages : Message(m)) \/ LimiterTick

LimiterSpec == LimiterInit /\ [][LimiterNext]_limiterVars

-----------------------------------------------------------------------------
(* Properties.                                                             *)

\* The messages handled within the last Window.
Recent == {m \in allowed : age[m] < Window}

\* What a client can get through, wherever the windows' boundaries fall: less
\* than twice the limit within any stretch as long as a window.
AtMostTwice == Limit > 0 => Cardinality(Recent) < 2 * Limit

\* A message is dropped only when as many as the limit were handled within the
\* last Window: those that were dropped do not count, nor do older ones.
DroppedOnlyAtLimit ==
    \A m \in Messages \ allowed : age[m] = 0 => Cardinality(Recent) >= Limit
=============================================================================
