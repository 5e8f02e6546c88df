---------------------------- MODULE TimersProofs ----------------------------
(***************************************************************************)
(* Proofs about Connection, RateLimiter and NodeHealth: what the           *)
(* heartbeat, the rate limiter and the health checks promise for every     *)
(* setting.                                                                *)
(***************************************************************************)
EXTENDS Connection, RateLimiter, NodeHealth, FiniteSetTheorems, TLAPS

-----------------------------------------------------------------------------
(* Connection.                                                             *)

\* A client that is responsive is idle for an interval at most while no ping
\* waits for its answer, and for an interval more than one that waits.
HeardOf ==
    open /\ ~silent =>
        /\ pings = {} => idle + untilBeat <= BeatInterval
        /\ pings # {} => \E p \in pings : idle <= BeatInterval + p

OnTime == open /\ ~silent => \A p \in pings : p <= delay

\* Every heartbeat looks at the client.
Bounded == open => idle + untilBeat <= idleTimeout + BeatInterval

KeptIfWell ==
    terminated => ~open /\ (BeatInterval + delay <= idleTimeout => silent)

ConnectionInv == ConnectionTypeOK /\ HeardOf /\ OnTime /\ Bounded /\ KeptIfWell

LEMMA BeatIntervalType ==
  ASSUME ConnectionAssumption, idleTimeout \in IdleTimeouts
  PROVE  BeatInterval \in Nat \ {0}
  BY DEF ConnectionAssumption, BeatInterval, Lesser, Greater

\* The interval only depends on the settings.
LEMMA BeatIntervalKept ==
  ASSUME UNCHANGED config
  PROVE  BeatInterval' = BeatInterval
  BY DEF config, BeatInterval

LEMMA ConnectionInvInit == ConnectionInit => ConnectionInv
  <1> SUFFICES ASSUME ConnectionInit PROVE ConnectionInv
    OBVIOUS
  <1>1. BeatInterval \in Nat \ {0}
    BY ConnectionAssumption, BeatIntervalType DEF ConnectionInit
  <1>s. pings \subseteq Nat /\ open \in BOOLEAN /\ silent \in BOOLEAN /\ terminated \in BOOLEAN
    BY DEF ConnectionInit
  <1>2. ConnectionTypeOK
    BY <1>1, <1>s DEF ConnectionInit, ConnectionTypeOK
  <1>3. HeardOf /\ OnTime
    BY DEF ConnectionInit, HeardOf, OnTime
  <1>4. Bounded /\ KeptIfWell
    BY DEF ConnectionInit, Bounded, KeptIfWell
  <1> QED
    BY <1>2, <1>3, <1>4 DEF ConnectionInv

LEMMA ConnectionInvStep ==
  ASSUME ConnectionInv, [ConnectionNext]_connectionVars
  PROVE  ConnectionInv'
  <1> USE ConnectionAssumption DEF ConnectionInv
  <1>0. BeatInterval \in Nat \ {0} /\ idleTimeout \in Nat /\ delay \in Nat
    BY BeatIntervalType DEF ConnectionTypeOK, ConnectionAssumption
  <1>k. UNCHANGED config => BeatInterval' = BeatInterval
    BY BeatIntervalKept
  <1>1. CASE Connects
    <2>1. pings' \subseteq Nat /\ OnTime' /\ pings' = {}
      BY <1>1 DEF Connects, OnTime
    <2>2. open' \in BOOLEAN /\ silent' \in BOOLEAN /\ terminated' \in BOOLEAN
      BY <1>1 DEF Connects, ConnectionTypeOK
    <2> QED
      BY <1>0, <1>1, <1>k, <2>1, <2>2
      DEF Connects, ConnectionTypeOK, HeardOf, Bounded, KeptIfWell, config
  <1>2. CASE Closes
    <2>1. pings' \subseteq Nat /\ OnTime' /\ pings' = {}
      BY <1>2 DEF Closes, OnTime
    <2>2. open' \in BOOLEAN /\ silent' \in BOOLEAN /\ terminated' \in BOOLEAN
      BY <1>2 DEF Closes, ConnectionTypeOK
    <2> QED
      BY <1>0, <1>2, <1>k, <2>1, <2>2
      DEF Closes, ConnectionTypeOK, HeardOf, Bounded, KeptIfWell, config
  <1>3. CASE GoesSilent
    BY <1>0, <1>3, <1>k
    DEF GoesSilent, ConnectionTypeOK, HeardOf, OnTime, Bounded, KeptIfWell, config
  <1>4. CASE Speaks
    BY <1>0, <1>4, <1>k
    DEF Speaks, ConnectionTypeOK, HeardOf, OnTime, Bounded, KeptIfWell, config
  <1>5. CASE Pong
    <2>1. pings' \subseteq pings
      BY <1>5 DEF Pong
    <2>2. pings' \subseteq Nat /\ OnTime'
      BY <1>5, <2>1 DEF Pong, ConnectionTypeOK, OnTime, config
    <2>3. HeardOf'
      <3>0. idle' = 0 /\ BeatInterval' = BeatInterval
        BY <1>5, <1>k DEF Pong, Touched
      <3>1. \A p \in pings' : idle' <= BeatInterval' + p
        BY <1>0, <2>2, <3>0
      <3>2. idle' + untilBeat' <= BeatInterval'
        BY <1>0, <1>5, <1>k DEF Pong, Touched, ConnectionTypeOK
      <3> QED
        BY <3>1, <3>2 DEF HeardOf
    <2> QED
      BY <1>0, <1>5, <1>k, <2>2, <2>3
      DEF Pong, Touched, ConnectionTypeOK, Bounded, KeptIfWell, config
  <1>6. CASE Heartbeat
    <2>1. CASE open /\ Idle
      \* It was silent, when pongs are on time within the timeout.
      <3>0. BeatInterval + delay <= idleTimeout => silent
        <4> SUFFICES ASSUME BeatInterval + delay <= idleTimeout, ~silent PROVE FALSE
          OBVIOUS
        <4>0. untilBeat = 0 /\ idle > idleTimeout
          BY <1>6, <2>1 DEF Idle, Heartbeat
        <4>1. idle \in Nat /\ idle > idleTimeout /\ untilBeat = 0
          BY <4>0 DEF ConnectionTypeOK
        <4>2. pings # {}
          BY <1>0, <2>1, <4>1 DEF HeardOf
        <4>3. PICK p \in pings : idle <= BeatInterval + p
          BY <2>1, <4>2 DEF HeardOf
        <4>4. p \in Nat /\ p <= delay
          BY <2>1 DEF OnTime, ConnectionTypeOK
        <4> QED
          BY <1>0, <4>1, <4>3, <4>4
      <3>1. KeptIfWell'
        BY <1>6, <1>k, <2>1, <3>0 DEF Heartbeat, KeptIfWell, config
      <3>2. pings' \subseteq Nat /\ OnTime' /\ HeardOf' /\ Bounded'
        BY <1>6, <2>1 DEF Heartbeat, HeardOf, OnTime, Bounded
      <3>3. open' \in BOOLEAN /\ silent' \in BOOLEAN /\ terminated' \in BOOLEAN
        BY <1>6, <2>1 DEF Heartbeat, ConnectionTypeOK
      <3> QED
        BY <1>0, <1>6, <1>k, <2>1, <3>1, <3>2, <3>3 DEF Heartbeat, ConnectionTypeOK, config
    <2>2. CASE ~(open /\ Idle)
      <3>1. /\ UNCHANGED <<config, open, idle, silent, terminated>>
            /\ untilBeat' = BeatInterval /\ untilBeat = 0
            /\ pings' = IF open THEN pings \cup {0} ELSE pings
        BY <1>6, <2>2 DEF Heartbeat
      <3>2. ConnectionTypeOK' /\ OnTime' /\ KeptIfWell'
        BY <1>0, <1>k, <3>1 DEF ConnectionTypeOK, OnTime, KeptIfWell, config
      <3>3. HeardOf'
        BY <1>0, <1>k, <3>1 DEF ConnectionTypeOK, HeardOf
      <3>4. Bounded'
        BY <1>0, <1>k, <2>2, <3>1 DEF ConnectionTypeOK, Bounded, Idle, config
      <3> QED
        BY <3>2, <3>3, <3>4
    <2> QED
      BY <2>1, <2>2
  <1>7. CASE ConnectionTick
    <2>1. /\ UNCHANGED <<config, open, silent, terminated>>
          /\ untilBeat' = untilBeat - 1 /\ untilBeat > 0
          /\ idle' = IF open THEN idle + 1 ELSE idle
          /\ pings' = IF silent THEN {} ELSE {p + 1 : p \in pings}
          /\ ~silent => \A p \in pings : p < delay
      BY <1>7 DEF ConnectionTick
    <2>2. ConnectionTypeOK' /\ Bounded' /\ KeptIfWell'
      BY <1>0, <1>k, <2>1 DEF ConnectionTypeOK, Bounded, KeptIfWell, config
    <2>3. OnTime'
      BY <1>0, <2>1 DEF ConnectionTypeOK, OnTime, config
    <2>4. HeardOf'
      <3>1. CASE open /\ ~silent /\ pings # {}
        <4>1. PICK p \in pings : idle <= BeatInterval + p
          BY <3>1 DEF HeardOf
        <4>2. p + 1 \in pings' /\ idle' <= BeatInterval' + (p + 1)
          BY <1>0, <1>k, <2>1, <3>1, <4>1 DEF ConnectionTypeOK
        <4> QED
          BY <4>2 DEF HeardOf
      <3>2. CASE open /\ ~silent /\ pings = {}
        <4>1. pings' = {}
          BY <2>1, <3>2
        <4> QED
          BY <1>0, <1>k, <2>1, <3>2, <4>1 DEF ConnectionTypeOK, HeardOf
      <3>3. CASE ~(open /\ ~silent)
        BY <2>1, <3>3 DEF HeardOf
      <3> QED
        BY <3>1, <3>2, <3>3
    <2> QED
      BY <2>2, <2>3, <2>4
  <1>8. CASE UNCHANGED connectionVars
    BY <1>8, <1>k
    DEF connectionVars, config, ConnectionTypeOK, HeardOf, OnTime, Bounded, KeptIfWell
  <1> QED
    BY <1>1, <1>2, <1>3, <1>4, <1>5, <1>6, <1>7, <1>8 DEF ConnectionNext

\* The invariant, for every idle timeout and every delay of the pongs.
THEOREM ConnectionInvariant == ConnectionSpec => []ConnectionInv
  BY ConnectionInvInit, ConnectionInvStep, PTL DEF ConnectionSpec

\* The heartbeat never ends the connection of a client whose pongs are on time.
THEOREM ResponsiveClientsKept == ConnectionSpec => []ResponsiveKept
  <1>1. ConnectionInv => ResponsiveKept
    BY DEF ConnectionInv, KeptIfWell, ResponsiveKept
  <1> QED
    BY <1>1, ConnectionInvariant, PTL

\* A client that is gone is noticed within the timeout and one interval.
THEOREM SilentClientsNoticed == ConnectionSpec => []SilentGone
  <1>1. ConnectionInv => SilentGone
    BY ConnectionAssumption, BeatIntervalType
    DEF ConnectionAssumption, ConnectionInv, ConnectionTypeOK, Bounded, SilentGone
  <1> QED
    BY <1>1, ConnectionInvariant, PTL

-----------------------------------------------------------------------------
(* RateLimiter.                                                            *)

\* The messages handled in the present window, and those of the last Window
\* that were handled before it.
Current == {m \in allowed : age[m] <= windowAge}
Earlier == {m \in allowed : windowAge < age[m] /\ age[m] < Window}

\* In a window as many were handled as came, up to the limit, and it is as old
\* as a message that was handled; what is left of the windows before it is less
\* than the limit, because the message that opened the last of them is too old.
DuringWindow ==
    /\ count >= 1
    /\ Cardinality(Current) = Lesser(count, Limit)
    /\ \E m \in Current : age[m] = windowAge
    /\ Cardinality(Earlier) < Limit

AfterWindow ==
    /\ Cardinality(Recent) < Limit
    /\ \A m \in allowed : age[m] > 0

DropsInFullWindow ==
    \A m \in Messages \ allowed : age[m] = 0 => windowAge < Window /\ count > Limit

LimiterInv ==
    /\ LimiterTypeOK
    /\ Limit > 0 =>
        /\ windowAge < Window => DuringWindow
        /\ windowAge = Window => AfterWindow
        /\ DropsInFullWindow

LEMMA Finite ==
  ASSUME LimiterTypeOK, NEW S \in SUBSET allowed
  PROVE  IsFiniteSet(S) /\ Cardinality(S) \in Nat
  BY LimiterAssumption, FS_Subset, FS_CardinalityType DEF LimiterAssumption, LimiterTypeOK

LEMMA FewerInSubset ==
  ASSUME LimiterTypeOK, NEW S \in SUBSET allowed, NEW U \in SUBSET S
  PROVE  Cardinality(U) <= Cardinality(S)
  BY Finite, FS_Subset

LEMMA LimiterInvInit == LimiterInit => LimiterInv
  <1> SUFFICES ASSUME LimiterInit PROVE LimiterInv
    OBVIOUS
  <1> USE LimiterAssumption DEF LimiterAssumption
  <1>1. LimiterTypeOK
    BY DEF LimiterInit, LimiterTypeOK
  <1>2. Recent = {}
    BY DEF LimiterInit, Recent
  <1>3. Limit > 0 => AfterWindow
    BY <1>2, FS_EmptySet DEF AfterWindow, LimiterInit
  <1>4. DropsInFullWindow
    BY DEF DropsInFullWindow, LimiterInit
  <1> QED
    BY <1>1, <1>3, <1>4 DEF LimiterInv, LimiterInit

LEMMA MessageInv ==
  ASSUME LimiterInv, NEW m \in Messages, Message(m)
  PROVE  LimiterInv'
  <1> USE LimiterAssumption DEF LimiterAssumption
  <1>1. LimiterTypeOK /\ LimiterTypeOK'
    BY DEF LimiterInv, LimiterTypeOK, Message, OpenWindow, WindowIsOver
  <1>a. /\ age[m] = Window /\ age'[m] = 0
        /\ \A x \in Messages : x # m => age'[x] = age[x]
        /\ allowed \subseteq Messages /\ allowed' \subseteq Messages
        /\ allowed' = allowed \cup {m} \/ allowed' = allowed \ {m}
    BY <1>1 DEF Message, LimiterTypeOK
  <1>b. \A x \in Messages : age[x] \in 0..Window /\ age'[x] \in 0..Window
    BY <1>1 DEF LimiterTypeOK
  <1> SUFFICES ASSUME Limit > 0
               PROVE  /\ windowAge' < Window => DuringWindow'
                      /\ windowAge' = Window => AfterWindow'
                      /\ DropsInFullWindow'
    BY <1>1 DEF LimiterInv
  <1>2. CASE WindowIsOver
    <2>1. windowAge' = 0 /\ count' = 1 /\ allowed' = allowed \cup {m} /\ windowAge = Window
      BY <1>2 DEF Message, OpenWindow, WindowIsOver, Within
    <2>2. AfterWindow /\ DropsInFullWindow
      BY <2>1 DEF LimiterInv
    <2>3. Current' = {m}
      BY <1>a, <1>b, <2>1, <2>2 DEF Current, AfterWindow
    <2>4. Earlier' = Recent
      BY <1>a, <1>b, <2>1, <2>2 DEF Earlier, Recent, AfterWindow
    <2>5. Cardinality(Current') = Lesser(count', Limit)
      BY <2>1, <2>3, FS_Singleton DEF Lesser
    <2>6. DuringWindow'
      BY <1>a, <2>1, <2>2, <2>3, <2>4, <2>5 DEF DuringWindow, AfterWindow
    <2>7. DropsInFullWindow'
      BY <1>a, <2>1, <2>2 DEF DropsInFullWindow
    <2> QED
      BY <2>1, <2>6, <2>7
  <1>3. CASE ~WindowIsOver
    <2>1. windowAge' = windowAge /\ count' = count + 1 /\ windowAge < Window
      BY <1>1, <1>3 DEF Message, OpenWindow, WindowIsOver, LimiterTypeOK
    <2>2. DuringWindow /\ DropsInFullWindow
      BY <2>1 DEF LimiterInv
    <2>3. m \notin Current /\ m \notin Earlier
      BY <1>1, <1>a, <2>1 DEF Current, Earlier, LimiterTypeOK
    <2>4. Earlier' = Earlier
      BY <1>1, <1>a, <2>1, <2>3 DEF Earlier, LimiterTypeOK
    <2>5. CASE Within(count')
      <3>1. allowed' = allowed \cup {m}
        BY <2>5, <1>3 DEF Message
      <3>2. Current' = Current \cup {m}
        BY <1>1, <1>a, <2>1, <3>1 DEF Current, LimiterTypeOK
      <3>3. Cardinality(Current') = Cardinality(Current) + 1
        BY <1>1, <2>3, <3>2, Finite, FS_AddElement DEF Current
      <3>4. Cardinality(Current') = Lesser(count', Limit)
        BY <1>1, <2>1, <2>2, <2>5, <3>3 DEF DuringWindow, Lesser, Within, LimiterTypeOK
      <3>5. \E x \in Current' : age'[x] = windowAge'
        BY <1>a, <2>1, <2>2, <2>3, <3>2 DEF DuringWindow, Current
      <3>6. DuringWindow'
        BY <1>1, <2>1, <2>2, <2>4, <3>4, <3>5 DEF DuringWindow, LimiterTypeOK
      <3>7. DropsInFullWindow'
        BY <1>1, <1>a, <2>1, <2>2, <2>5, <3>1 DEF DropsInFullWindow, Within, LimiterTypeOK
      <3> QED
        BY <2>1, <3>6, <3>7
    <2>6. CASE ~Within(count')
      <3>1. allowed' = allowed \ {m}
        BY <2>6, <1>3 DEF Message
      <3>2. Current' = Current
        BY <1>1, <1>a, <2>1, <2>3, <3>1 DEF Current, LimiterTypeOK
      <3>4. Cardinality(Current') = Lesser(count', Limit)
        BY <1>1, <2>1, <2>2, <2>6, <3>2 DEF DuringWindow, Lesser, Within, LimiterTypeOK
      <3>5. \E x \in Current' : age'[x] = windowAge'
        BY <1>a, <2>1, <2>2, <2>3, <3>2 DEF DuringWindow, Current
      <3>6. DuringWindow'
        BY <1>1, <2>1, <2>2, <2>4, <3>4, <3>5 DEF DuringWindow, LimiterTypeOK
      <3>7. DropsInFullWindow'
        BY <1>1, <1>a, <2>1, <2>6 DEF DropsInFullWindow, Within, LimiterTypeOK
      <3> QED
        BY <2>1, <3>6, <3>7
    <2> QED
      BY <2>5, <2>6
  <1> QED
    BY <1>2, <1>3

LEMMA LimiterTickInv ==
  ASSUME LimiterInv, LimiterTick
  PROVE  LimiterInv'
  <1> USE LimiterAssumption DEF LimiterAssumption
  <1>1. LimiterTypeOK /\ LimiterTypeOK'
    BY DEF LimiterInv, LimiterTypeOK, LimiterTick, Aged
  <1>a. /\ allowed' = allowed /\ allowed \subseteq Messages /\ count' = count
        /\ \A x \in Messages : age[x] \in 0..Window /\ age'[x] = Aged(age[x])
        /\ windowAge \in 0..Window /\ windowAge' = Aged(windowAge)
    BY <1>1 DEF LimiterTick, LimiterTypeOK
  <1> SUFFICES ASSUME Limit > 0
               PROVE  /\ windowAge' < Window => DuringWindow'
                      /\ windowAge' = Window => AfterWindow'
                      /\ DropsInFullWindow'
    BY <1>1 DEF LimiterInv
  <1>2. \A x \in Messages : age'[x] > 0
    BY <1>a DEF Aged
  <1>3. DropsInFullWindow'
    BY <1>2 DEF DropsInFullWindow
  <1>4. CASE windowAge' < Window
    <2>1. windowAge < Window /\ windowAge' = windowAge + 1 /\ DuringWindow
      BY <1>a, <1>4 DEF Aged, LimiterInv
    <2>2. Current' = Current
      BY <1>a, <1>4, <2>1 DEF Current, Aged
    <2>3. Earlier' \subseteq Earlier
      BY <1>a, <1>4, <2>1 DEF Earlier, Aged
    <2>4. Cardinality(Earlier') < Limit
      <3>1. Earlier \subseteq allowed
        BY DEF Earlier
      <3>2. /\ Cardinality(Earlier') <= Cardinality(Earlier)
            /\ Cardinality(Earlier) \in Nat /\ Cardinality(Earlier') \in Nat
        BY <1>1, <2>3, <3>1, FewerInSubset, Finite
      <3> QED
        BY <2>1, <3>2 DEF DuringWindow
    <2>5. \E x \in Current' : age'[x] = windowAge'
      BY <1>a, <2>1, <2>2 DEF DuringWindow, Current, Aged
    <2>6. DuringWindow'
      BY <1>a, <2>1, <2>2, <2>4, <2>5 DEF DuringWindow
    <2> QED
      BY <1>3, <1>4, <2>6
  <1>5. CASE windowAge' = Window /\ windowAge < Window
    <2>1. windowAge + 1 = Window /\ DuringWindow
      BY <1>a, <1>5 DEF Aged, LimiterInv
    <2>2. PICK opener \in Current : age[opener] = windowAge
      BY <2>1 DEF DuringWindow
    <2>3. Recent' \subseteq Current \ {opener}
      BY <1>a, <2>1, <2>2 DEF Recent, Current, Aged
    <2>4. Current \subseteq allowed
      BY DEF Current
    <2>5. Cardinality(Current \ {opener}) = Cardinality(Current) - 1
      BY <1>1, <2>4, Finite, FS_RemoveElement
    <2>6. /\ Cardinality(Recent') <= Cardinality(Current \ {opener})
          /\ Cardinality(Recent') \in Nat /\ Cardinality(Current) \in Nat
      BY <1>1, <2>3, <2>4, FewerInSubset, Finite
    <2>7. Cardinality(Current) <= Limit
      BY <1>1, <2>1 DEF DuringWindow, Lesser, LimiterTypeOK
    <2> QED
      BY <1>2, <1>3, <1>5, <1>a, <2>5, <2>6, <2>7 DEF AfterWindow
  <1>6. CASE windowAge' = Window /\ windowAge = Window
    <2>1. AfterWindow
      BY <1>6 DEF LimiterInv
    <2>2. Recent' \subseteq Recent /\ Recent \subseteq allowed
      BY <1>a DEF Recent, Aged
    <2>3. /\ Cardinality(Recent') <= Cardinality(Recent)
          /\ Cardinality(Recent') \in Nat /\ Cardinality(Recent) \in Nat
      BY <1>1, <2>2, FewerInSubset, Finite
    <2>4. Cardinality(Recent') < Limit
      BY <2>1, <2>3 DEF AfterWindow
    <2>5. AfterWindow'
      BY <1>a, <1>2, <2>4 DEF AfterWindow
    <2> QED
      BY <1>3, <1>6, <2>5
  <1> QED
    BY <1>4, <1>5, <1>6, <1>a DEF Aged

\* The invariant, for every limit, window and number of messages.
THEOREM LimiterInvariant == LimiterSpec => []LimiterInv
  <1>1. LimiterInv /\ [LimiterNext]_limiterVars => LimiterInv'
    <2> SUFFICES ASSUME LimiterInv, [LimiterNext]_limiterVars PROVE LimiterInv'
      OBVIOUS
    <2>1. CASE \E m \in Messages : Message(m)
      BY <2>1, MessageInv
    <2>2. CASE LimiterTick
      BY <2>2, LimiterTickInv
    <2>3. CASE UNCHANGED limiterVars
      <3>1. windowAge' = windowAge /\ count' = count /\ age' = age /\ allowed' = allowed
        BY <2>3 DEF limiterVars
      <3>2. Current' = Current /\ Earlier' = Earlier /\ Recent' = Recent
        BY <3>1 DEF Current, Earlier, Recent
      <3> QED
        BY <3>1, <3>2
        DEF LimiterInv, LimiterTypeOK, DuringWindow, AfterWindow, DropsInFullWindow
    <2> QED
      BY <2>1, <2>2, <2>3 DEF LimiterNext
  <1> QED
    BY <1>1, LimiterInvInit, PTL DEF LimiterSpec

\* No stretch as long as a window lets twice the limit through.
THEOREM AtMostTwiceTheLimit == LimiterSpec => []AtMostTwice
  <1>1. LimiterInv => AtMostTwice
    <2> SUFFICES ASSUME LimiterInv, Limit > 0 PROVE Cardinality(Recent) < 2 * Limit
      BY DEF AtMostTwice
    <2> USE LimiterAssumption DEF LimiterAssumption
    <2>t. LimiterTypeOK
      BY DEF LimiterInv
    <2>s. Recent \subseteq allowed /\ Current \subseteq allowed /\ Earlier \subseteq allowed
      BY DEF Recent, Current, Earlier
    <2>f. /\ IsFiniteSet(Current) /\ IsFiniteSet(Earlier)
          /\ {Cardinality(Recent), Cardinality(Current), Cardinality(Earlier)} \subseteq Nat
      BY <2>t, <2>s, Finite
    <2>1. CASE windowAge = Window
      BY <2>1, <2>f DEF LimiterInv, AfterWindow
    <2>2. CASE windowAge < Window
      <3>1. DuringWindow
        BY <2>2 DEF LimiterInv
      <3>2. Recent = Current \cup Earlier /\ Current \cap Earlier = {}
        BY <2>2, <2>t DEF Recent, Current, Earlier, LimiterTypeOK
      <3>3. Cardinality(Recent) = Cardinality(Current) + Cardinality(Earlier)
        <4>1. Cardinality(Current \cup Earlier)
                = Cardinality(Current) + Cardinality(Earlier) - Cardinality(Current \cap Earlier)
          BY <2>f, FS_Union
        <4> QED
          BY <2>f, <3>2, <4>1, FS_EmptySet
      <3> QED
        BY <2>f, <2>t, <3>1, <3>3 DEF DuringWindow, Lesser, LimiterTypeOK
    <2> QED
      BY <2>1, <2>2, <2>t DEF LimiterTypeOK
  <1> QED
    BY <1>1, LimiterInvariant, PTL

\* Messages are dropped only at the limit.
THEOREM DropsOnlyAtLimit == LimiterSpec => []DroppedOnlyAtLimit
  <1>1. LimiterInv => DroppedOnlyAtLimit
    <2> SUFFICES ASSUME LimiterInv, NEW m \in Messages \ allowed, age[m] = 0
                 PROVE  Cardinality(Recent) >= Limit
      BY DEF DroppedOnlyAtLimit
    <2> USE LimiterAssumption DEF LimiterAssumption
    <2>t. LimiterTypeOK
      BY DEF LimiterInv
    <2>s. Recent \subseteq allowed
      BY DEF Recent
    <2>f. Cardinality(Recent) \in Nat
      BY <2>t, <2>s, Finite
    <2>1. CASE Limit = 0
      BY <2>1, <2>f
    <2>2. CASE Limit > 0
      <3>1. windowAge < Window /\ count > Limit /\ DuringWindow
        BY <2>2 DEF LimiterInv, DropsInFullWindow
      <3>2. Cardinality(Current) = Limit
        BY <2>t, <3>1 DEF DuringWindow, Lesser, LimiterTypeOK
      <3>3. Current \subseteq Recent
        BY <2>t, <3>1 DEF Current, Recent, LimiterTypeOK
      <3>4. Cardinality(Current) <= Cardinality(Recent)
        BY <2>t, <2>s, <3>3, FewerInSubset
      <3> QED
        BY <2>f, <3>2, <3>4
    <2> QED
      BY <2>1, <2>2
  <1> QED
    BY <1>1, LimiterInvariant, PTL

-----------------------------------------------------------------------------
(* NodeHealth.  That the last verdict is fresh is not inductive: what the   *)
(* timer has left to run and the age of the check in flight account for the *)
(* time since the verdict.                                                  *)

\* Between two checks the timer runs for the rest of the interval; during a
\* check the interval is over, and the check is as old as the rest.
Accounted ==
    started => IF request = NotSet
               THEN timer # NotSet /\ staleness + timer <= intervalMs
               ELSE staleness <= intervalMs + request

InTime == request # NotSet => request <= timeoutMs

\* The interval is never shorter than the timeout, so that a setter that has nothing
\* to do leaves nothing to be done.
LongEnough == intervalMs >= timeoutMs

HealthInv == TypeOK /\ Accounted /\ InTime /\ LongEnough /\ Tuned

LEMMA LargerFact ==
    ASSUME NEW a \in Nat, NEW b \in Nat
    PROVE  /\ Larger(a, b) \in Nat /\ Larger(a, b) >= a /\ Larger(a, b) >= b
           /\ Larger(a, b) \in {a, b}
BY DEF Larger

LEMMA ConfigFacts ==
    /\ Intervals \subseteq Nat \ {0} /\ Timeouts \subseteq Nat \ {0}
    /\ \A verdict \in BOOLEAN :
          /\ TargetTimeout(verdict) \in Timeouts /\ TargetInterval(verdict) \in Nat
          /\ Larger(TargetInterval(verdict), TargetTimeout(verdict)) \in Intervals
BY ConfigAssumption
   DEF Intervals, Timeouts, TargetTimeout, TargetInterval, Larger

\* Whatever the interval was, as long as it was not shorter than the timeout, the
\* two setters make it the target or, if that is longer, the timeout's target.
LEMMA TuningFact ==
    ASSUME HealthInv, NEW verdict \in BOOLEAN
    PROVE  Tuning(verdict) = Larger(TargetInterval(verdict), TargetTimeout(verdict))
<1> DEFINE t == TargetTimeout(verdict)
           next == TargetInterval(verdict)
<1>1. t \in Nat /\ next \in Nat /\ intervalMs \in Nat /\ timeoutMs \in Nat /\ intervalMs >= timeoutMs
  BY ConfigFacts DEF HealthInv, TypeOK, LongEnough
<1> DEFINE interval == SetTimeoutMs(intervalMs, t)
<1>2. Tuning(verdict) = SetIntervalMs(interval, next, t)
  BY DEF Tuning
<1> HIDE DEF t, next
<1>3. interval \in Nat /\ interval >= t
  BY <1>1 DEF SetTimeoutMs, Larger
<1> HIDE DEF interval
<1>4. SetIntervalMs(interval, next, t) = Larger(next, t)
  BY <1>1, <1>3 DEF SetIntervalMs, Larger
<1> QED
  BY <1>2, <1>4 DEF t, next

LEMMA HealthInitInv == Init => HealthInv
<1> SUFFICES ASSUME Init PROVE HealthInv
  OBVIOUS
<1>1. TypeOK
  BY ConfigAssumption DEF Init, TypeOK, Intervals, Timeouts
<1>2. LongEnough
  BY ConfigAssumption DEF Init, LongEnough, Larger
<1> QED
  BY <1>1, <1>2 DEF Init, HealthInv, Accounted, InTime, Tuned

LEMMA RunOnceHealthInv ==
    ASSUME HealthInv, RunOnce,
           UNCHANGED <<intervalMs, timeoutMs, ok, nodeVars, judged>>,
           started' \in BOOLEAN, staleness' \in Nat,
           staleness' <= intervalMs \/ (staleness' = staleness /\ request # NotSet /\ started)
    PROVE  HealthInv'
<1>1. intervalMs \in Nat \ {0} /\ timeoutMs \in Nat \ {0} /\ NotSet \notin Nat
  BY ConfigFacts, ConfigAssumption DEF HealthInv, TypeOK
<1>2. TypeOK'
  BY <1>1 DEF HealthInv, TypeOK, RunOnce, nodeVars
<1>3. InTime' /\ LongEnough' /\ Tuned'
  BY <1>1 DEF HealthInv, InTime, LongEnough, Tuned, RunOnce
<1>4. Accounted'
  <2>1. CASE request = NotSet
    BY <1>1, <2>1 DEF HealthInv, TypeOK, RunOnce, Accounted
  <2>2. CASE request # NotSet
    BY <1>1, <2>2 DEF HealthInv, TypeOK, RunOnce, Accounted
  <2> QED
    BY <2>1, <2>2
<1> QED
  BY <1>2, <1>3, <1>4 DEF HealthInv

LEMMA CheckDoneHealthInv ==
    ASSUME HealthInv, NEW verdict \in BOOLEAN, CheckDone(verdict)
    PROVE  HealthInv'
<1>0. intervalMs' = Larger(TargetInterval(verdict), TargetTimeout(verdict))
  BY TuningFact DEF CheckDone
<1>1. intervalMs' \in Intervals /\ timeoutMs' \in Timeouts /\ intervalMs' \in Nat
  BY <1>0, ConfigFacts DEF CheckDone
<1>2. TypeOK'
  BY <1>1, ConfigFacts
     DEF HealthInv, TypeOK, CheckDone, nodeVars, GoesOn, NextRound
<1>3. Tuned'
  BY <1>0 DEF CheckDone, Tuned
<1>4. InTime' /\ LongEnough'
  <2>1. timeoutMs' = TargetTimeout(verdict) /\ timeoutMs' \in Nat /\ TargetInterval(verdict) \in Nat
    BY <1>1, ConfigFacts DEF CheckDone
  <2> QED
    BY <1>0, <2>1 DEF CheckDone, InTime, LongEnough, Larger
<1>5. Accounted'
  BY <1>1, ConfigAssumption DEF CheckDone, Accounted, GoesOn, NextRound
<1> QED
  BY <1>2, <1>3, <1>4, <1>5 DEF HealthInv

LEMMA TickHealthInv == ASSUME HealthInv, Tick PROVE HealthInv'
<1>1. intervalMs \in Nat \ {0} /\ timeoutMs \in Nat \ {0} /\ NotSet \notin Nat
  BY ConfigFacts, ConfigAssumption DEF HealthInv, TypeOK
<1>2. request # NotSet => request \in Nat /\ request < timeoutMs /\ request' = request + 1
  BY <1>1 DEF HealthInv, TypeOK, Tick, Older
<1>3. request = NotSet => request' = NotSet
  BY DEF Tick, Older
<1>4. timer # NotSet => timer \in Nat \ {0} /\ timer' = timer - 1
  BY DEF HealthInv, TypeOK, Tick
<1>5. timer = NotSet => timer' = NotSet
  BY DEF Tick
<1>6. TypeOK'
  BY <1>1, <1>2, <1>3, <1>4, <1>5 DEF HealthInv, TypeOK, Tick, nodeVars
<1>7. InTime' /\ LongEnough' /\ Tuned'
  BY <1>1, <1>2, <1>3 DEF HealthInv, InTime, LongEnough, Tuned, Tick
<1>8. Accounted'
  <2>1. CASE request = NotSet
    BY <1>1, <1>3, <1>4, <2>1 DEF HealthInv, TypeOK, Accounted, Tick
  <2>2. CASE request # NotSet
    BY <1>1, <1>2, <2>2 DEF HealthInv, TypeOK, Accounted, Tick
  <2> QED
    BY <2>1, <2>2
<1> QED
  BY <1>6, <1>7, <1>8 DEF HealthInv

LEMMA HealthNextInv == HealthInv /\ [Next]_vars => HealthInv'
<1> SUFFICES ASSUME HealthInv, [Next]_vars PROVE HealthInv'
  OBVIOUS
<1>0. intervalMs \in Nat \ {0} /\ timeoutMs \in Nat \ {0} /\ NotSet \notin Nat
  BY ConfigFacts, ConfigAssumption DEF HealthInv, TypeOK
<1>1. CASE Start
  BY <1>0, <1>1, RunOnceHealthInv DEF Start
<1>2. CASE Stop
  BY <1>2, <1>0 DEF Stop, HealthInv, TypeOK, nodeVars, Accounted, InTime, LongEnough, Tuned
<1>3. CASE TimerFires
  <2>1. staleness \in Nat /\ started \in BOOLEAN
    BY DEF HealthInv, TypeOK
  <2>2. CASE started
    <3>1. staleness <= intervalMs \/ request # NotSet
      BY <1>0, <1>3, <2>1, <2>2 DEF TimerFires, HealthInv, TypeOK, Accounted
    <3> QED
      BY <1>3, <2>1, <2>2, <3>1, RunOnceHealthInv DEF TimerFires
  <2>3. CASE ~started
    BY <1>0, <1>3, <2>3 DEF TimerFires, RunOnce, HealthInv, TypeOK, nodeVars, Accounted, InTime, LongEnough, Tuned
  <2> QED
    BY <2>2, <2>3
<1>4. CASE Answered
  BY <1>4, CheckDoneHealthInv DEF Answered, HealthInv, TypeOK
<1>5. CASE TimedOut
  BY <1>5, CheckDoneHealthInv DEF TimedOut
<1>6. CASE Tick
  BY <1>6, TickHealthInv
<1>7. CASE NodeChanges
  BY <1>7 DEF NodeChanges, HealthInv, TypeOK, Accounted, InTime, LongEnough, Tuned
<1>8. CASE UNCHANGED vars
  BY <1>8 DEF vars, nodeVars, HealthInv, TypeOK, Accounted, InTime, LongEnough, Tuned
<1> QED
  BY <1>1, <1>2, <1>3, <1>4, <1>5, <1>6, <1>7, <1>8 DEF Next

LEMMA AlwaysHealthInv == Spec => []HealthInv
BY HealthInitInv, HealthNextInv, PTL DEF Spec

\* What the variables range over.
THEOREM HealthTypeCorrect == Spec => []TypeOK
<1>1. HealthInv => TypeOK
  BY DEF HealthInv
<1> QED
  BY AlwaysHealthInv, <1>1, PTL

\* While the monitor is started a timer or a check is pending, through any
\* sequence of stops, starts and overlapping rounds.
THEOREM HealthNeverStalls == Spec => []NeverStalled
<1>1. HealthInv => NeverStalled
  BY DEF HealthInv, Accounted, NeverStalled
<1> QED
  BY AlwaysHealthInv, <1>1, PTL

\* The verdict the bridge acts on is at most one interval and one request old,
\* for all values of the configuration.
THEOREM VerdictStaysFresh == Spec => []Fresh
<1>1. HealthInv => Fresh
  BY ConfigFacts, ConfigAssumption DEF HealthInv, TypeOK, Accounted, InTime, Fresh
<1> QED
  BY AlwaysHealthInv, <1>1, PTL

\* Interval and timeout always fit the last verdict, for all values of the
\* configuration: the order of the two setters leaves nothing of the old ones.
THEOREM AlwaysTuned == Spec => []Tuned
<1>1. HealthInv => Tuned
  BY DEF HealthInv
<1> QED
  BY AlwaysHealthInv, <1>1, PTL
=============================================================================
