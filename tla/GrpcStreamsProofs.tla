-------------------------- MODULE GrpcStreamsProofs --------------------------
(***************************************************************************)
(* Theorems about GrpcStreams, for any number of loops and any items that  *)
(* can be watched.                                                         *)
(***************************************************************************)
EXTENDS GrpcStreams, TLAPS

USE DEF wantVars

LEMMA TriesType ==
    ASSUME TypeOK, NEW l \in Labels
    PROVE  Tries(l) \in 0 .. MaxAttempt
BY MaxAttemptAssumption DEF TypeOK, Tries

\* What the top of the loop leaves behind.
LEMMA TopOfLoopType ==
    ASSUME TypeOK, NEW l \in Labels, NEW tries \in 0 .. MaxAttempt, TopOfLoop(l, tries)
    PROVE  /\ loop' \in [Labels -> LoopStates]
           /\ attempt' \in [Labels -> 0 .. MaxAttempt]
           /\ \A k \in Labels \ {l} : loop'[k] = loop[k]
BY MaxAttemptAssumption DEF TypeOK, TopOfLoop, LoopStates

\* The end of a connection, however it came.
LEMMA NextRoundType ==
    ASSUME TypeOK, NEW l \in Labels, NEW failure \in BOOLEAN, NextRound(l, failure),
           attached' = ClearField(l)
    PROVE  TypeOK' /\ \A k \in Labels \ {l} : loop'[k] = loop[k]
<1>1. Tries(l) \in 0 .. MaxAttempt /\ 0 \in 0 .. MaxAttempt
  BY TriesType, MaxAttemptAssumption
<1>2. /\ loop' \in [Labels -> LoopStates]
      /\ attempt' \in [Labels -> 0 .. MaxAttempt]
      /\ \A k \in Labels \ {l} : loop'[k] = loop[k]
  <2>1. CASE \E tries \in 0 .. MaxAttempt : TopOfLoop(l, tries)
    BY <2>1, TopOfLoopType
  <2>2. CASE /\ loop' = [loop EXCEPT ![l] = "backoff"]
             /\ attempt' = [attempt EXCEPT ![l] = Tries(l)]
    BY <1>1, <2>2 DEF TypeOK, LoopStates
  <2> QED
    BY <1>1, <2>1, <2>2 DEF NextRound
<1>3. filter' \in [Labels -> SUBSET Watch] /\ attached' \subseteq Labels
  BY DEF NextRound, TypeOK, ClearField
<1> QED
  BY <1>2, <1>3 DEF NextRound, TypeOK

LEMMA WrittenType ==
    ASSUME TypeOK, NEW ls
    PROVE  Written(ls) \in [Labels -> SUBSET Watch]
BY DEF TypeOK, Written

-----------------------------------------------------------------------------
Inv == TypeOK /\ AttachedIsWatched

LEMMA InitInv == Init => Inv
<1> SUFFICES ASSUME Init PROVE Inv
  OBVIOUS
<1>1. /\ loop \in [Labels -> LoopStates]
      /\ attempt \in [Labels -> 0 .. MaxAttempt]
  BY MaxAttemptAssumption DEF Init, LoopStates
<1>2. filter \in [Labels -> SUBSET Watch] /\ subscription \subseteq Watch
  BY DEF Init
<1>3. nodeHealthy \in BOOLEAN /\ grpcWanted \in BOOLEAN /\ pendingWrite \in BOOLEAN
  BY Zenon DEF Init
<1>4. stopAge \in {"none", "recent", "now"} /\ attached = {}
  BY DEF Init
<1> QED
  BY <1>1, <1>2, <1>3, <1>4 DEF Inv, TypeOK, AttachedIsWatched

\* The steps of a loop: the field is set as the loop begins to await the end of
\* the stream, and cleared as it goes on.
LEMMA LoopStepInv == Inv /\ LoopStep => Inv'
<1> SUFFICES ASSUME Inv, NEW l \in Labels,
                    \/ WakeUp(l) \/ SubscribeOk(l) \/ WriteOk(l)
                    \/ ConnectFails(l) \/ StreamClosed(l)
             PROVE  Inv'
  BY DEF LoopStep
<1>1. CASE WakeUp(l)
  <2>1. attempt[l] \in 0 .. MaxAttempt
    BY DEF Inv, TypeOK
  <2>2. TypeOK' /\ \A k \in Labels \ {l} : loop'[k] = loop[k]
    BY <1>1, <2>1, TopOfLoopType DEF WakeUp, Inv, TypeOK
  <2>3. l \notin attached
    BY <1>1 DEF WakeUp, Inv, AttachedIsWatched
  <2> QED
    BY <1>1, <2>2, <2>3 DEF WakeUp, Inv, AttachedIsWatched, TypeOK
<1>2. CASE SubscribeOk(l)
  <2>1. TypeOK'
    BY <1>2, WrittenType DEF SubscribeOk, Inv, TypeOK, LoopStates
  <2> QED
    BY <1>2, <2>1 DEF SubscribeOk, Inv, AttachedIsWatched, TypeOK
<1>3. CASE WriteOk(l)
  BY <1>3 DEF WriteOk, Inv, AttachedIsWatched, TypeOK, LoopStates
<1>4. CASE ConnectFails(l)
  <2>1. PICK cancelled \in BOOLEAN : NextRound(l, ~(cancelled /\ stopAge # "none"))
    BY <1>4 DEF ConnectFails
  <2>2. TypeOK' /\ \A k \in Labels \ {l} : loop'[k] = loop[k]
    BY <1>4, <2>1, NextRoundType DEF ConnectFails, Inv
  <2> QED
    BY <1>4, <2>2 DEF ConnectFails, ClearField, Inv, AttachedIsWatched, TypeOK
<1>5. CASE StreamClosed(l)
  <2>1. (grpcAllowed /\ stopAge # "now") \in BOOLEAN
    OBVIOUS
  <2>2. TypeOK' /\ \A k \in Labels \ {l} : loop'[k] = loop[k]
    BY <1>5, <2>1, NextRoundType DEF StreamClosed, Inv
  <2> QED
    BY <1>5, <2>2 DEF StreamClosed, ClearField, Inv, AttachedIsWatched, TypeOK
<1> QED
  BY <1>1, <1>2, <1>3, <1>4, <1>5

\* Everything else leaves the loops where they are and sets no field.
LEMMA OtherStepInv ==
    ASSUME Inv, TimerStep \/ HealthStep \/ \E u \in SUBSET Watch : UpdateSubscriptions(u)
    PROVE  Inv'
<1>1. CASE ResubscribeTimer
  BY <1>1, WrittenType DEF ResubscribeTimer, Inv, AttachedIsWatched, TypeOK
<1>2. ASSUME NEW reached \in SUBSET attached, Ping(reached) PROVE Inv'
  BY <1>2, WrittenType DEF Ping, PingRequest, Inv, AttachedIsWatched, TypeOK
<1>3. CASE StopAges
  BY <1>3 DEF StopAges, Inv, AttachedIsWatched, TypeOK
<1>4. ASSUME NEW ok \in BOOLEAN, HealthStatus(ok) PROVE Inv'
  <2>1. pendingWrite' \in BOOLEAN
    BY <1>4 DEF HealthStatus, ScheduleResubscribe, Inv, TypeOK
  <2>2. stopAge' \in {"none", "recent", "now"} /\ attached' \subseteq attached
    BY <1>4 DEF HealthStatus, StopGrpcStreams, Inv, TypeOK
  <2> QED
    BY <1>4, <2>1, <2>2 DEF HealthStatus, Inv, AttachedIsWatched, TypeOK
<1>5. ASSUME NEW u \in SUBSET Watch, UpdateSubscriptions(u) PROVE Inv'
  <2>1. pendingWrite' \in BOOLEAN
    BY <1>5 DEF UpdateSubscriptions, ScheduleResubscribe, Inv, TypeOK
  <2>2. stopAge' \in {"none", "recent", "now"} /\ attached' \subseteq attached
    BY <1>5 DEF UpdateSubscriptions, StopGrpcStreams, Inv, TypeOK
  <2> QED
    BY <1>5, <2>1, <2>2 DEF UpdateSubscriptions, Inv, AttachedIsWatched, TypeOK
<1> QED
  BY <1>1, <1>2, <1>3, <1>4, <1>5 DEF TimerStep, HealthStep

LEMMA NextInv == Inv /\ [Next]_vars => Inv'
<1> SUFFICES ASSUME Inv, [Next]_vars PROVE Inv'
  OBVIOUS
<1>1. CASE UNCHANGED vars
  BY <1>1 DEF vars, Inv, TypeOK, AttachedIsWatched
<1> QED
  BY <1>1, LoopStepInv, OtherStepInv DEF Next

LEMMA AlwaysInv == Spec => []Inv
BY InitInv, NextInv, PTL DEF Spec

\* Type correctness, for any number of loops and whatever is watched.
THEOREM GrpcTypeCorrect == Spec => []TypeOK
<1>1. Inv => TypeOK
  BY DEF Inv
<1> QED
  BY <1>1, AlwaysInv, PTL

\* A stream that counts as connected is always one whose end its loop awaits,
\* through stops, failures and reconnects in any order: clients are never told
\* for good of a connection that is gone.
THEOREM AttachedAlwaysWatched == Spec => []AttachedIsWatched
<1>1. Inv => AttachedIsWatched
  BY DEF Inv
<1> QED
  BY <1>1, AlwaysInv, PTL

\* A stream that is attached while it is not allowed was so before, or its first
\* write has just been acknowledged.
LateAttach(l) == (l \in attached /\ ~grpcAllowed) \/ loop[l] = "write"

\* A step that changes none of what grpcAllowed reads and attaches nothing.
LEMMA SameVerdict ==
    ASSUME UNCHANGED <<wantVars, nodeHealthy>>, attached' \subseteq attached
    PROVE  \A l \in attached' : ~grpcAllowed' => LateAttach(l)
BY DEF grpcAllowed, LateAttach

LEMMA LoopStepLate == LoopStep => \A l \in attached' : ~grpcAllowed' => LateAttach(l)
<1> SUFFICES ASSUME NEW k \in Labels,
                    \/ WakeUp(k) \/ SubscribeOk(k) \/ WriteOk(k)
                    \/ ConnectFails(k) \/ StreamClosed(k)
             PROVE  \A l \in attached' : ~grpcAllowed' => LateAttach(l)
  BY DEF LoopStep
<1>1. CASE WakeUp(k) \/ SubscribeOk(k)
  BY <1>1, SameVerdict DEF WakeUp, SubscribeOk
<1>2. CASE WriteOk(k)
  BY <1>2 DEF WriteOk, grpcAllowed, LateAttach
<1>3. CASE ConnectFails(k)
  BY <1>3, SameVerdict DEF ConnectFails, NextRound, ClearField
<1>4. CASE StreamClosed(k)
  BY <1>4, SameVerdict DEF StreamClosed, NextRound, ClearField
<1> QED
  BY <1>1, <1>2, <1>3, <1>4

\* The union and the verdicts decide what is allowed; where the answer becomes
\* no, the streams that are attached are stopped in the same step.
LEMMA VerdictLate ==
    ASSUME TypeOK, HealthStep \/ \E u \in SUBSET Watch : UpdateSubscriptions(u)
    PROVE  \A l \in attached' : ~grpcAllowed' => LateAttach(l)
<1>1. ASSUME NEW ok \in BOOLEAN, HealthStatus(ok)
      PROVE  \A l \in attached' : ~grpcAllowed' => LateAttach(l)
  <2>1. CASE RequireHealthy /\ ~ok
    BY <1>1, <2>1 DEF HealthStatus, StopsOn, StopGrpcStreams
  <2>2. CASE ~(RequireHealthy /\ ~ok)
    <3>1. attached' = attached /\ grpcWanted' = grpcWanted /\ nodeHealthy' = ok
      BY <1>1, <2>2 DEF HealthStatus, StopsOn
    <3>2. ~grpcAllowed' => ~grpcAllowed
      BY <2>2, <3>1 DEF grpcAllowed
    <3> QED
      BY <3>1, <3>2 DEF LateAttach
  <2> QED
    BY <2>1, <2>2
<1>2. ASSUME NEW u \in SUBSET Watch, UpdateSubscriptions(u)
      PROVE  \A l \in attached' : ~grpcAllowed' => LateAttach(l)
  <2>1. grpcWanted' = (u # {}) /\ nodeHealthy' = nodeHealthy
    BY <1>2 DEF UpdateSubscriptions
  <2>2. CASE u = {} \/ (RequireHealthy /\ ~nodeHealthy)
    BY <1>2, <2>2 DEF UpdateSubscriptions, StopGrpcStreams
  <2>3. CASE u # {} /\ ~(RequireHealthy /\ ~nodeHealthy)
    BY <2>1, <2>3 DEF grpcAllowed
  <2> QED
    BY <2>2, <2>3
<1> QED
  BY <1>1, <1>2 DEF HealthStep

\* A stream comes to count as connected while it is not allowed only by a first
\* write that was under way when the streams were stopped: the one cause of the
\* disagreement that the run grpc_unwanted finds.
THEOREM OnlyWritesAttachLate == Spec => OnlyLateAttach
<1>1. ASSUME TypeOK, [Next]_vars
      PROVE  \A l \in attached' : ~grpcAllowed' => LateAttach(l)
  <2>1. CASE TimerStep \/ UNCHANGED vars
    BY <2>1, SameVerdict DEF TimerStep, ResubscribeTimer, Ping, StopAges, vars
  <2> QED
    BY <1>1, <2>1, LoopStepLate, VerdictLate DEF Next
<1>2. TypeOK /\ [Next]_vars =>
         [\A l \in attached' :
             ~grpcAllowed' => (l \in attached /\ ~grpcAllowed) \/ loop[l] = "write"]_vars
  BY <1>1 DEF LateAttach
<1> QED
  BY <1>2, GrpcTypeCorrect, PTL DEF Spec, OnlyLateAttach
=============================================================================
