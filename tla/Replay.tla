------------------------------- MODULE Replay -------------------------------
(***************************************************************************)
(* Delivery of transaction events to clients that come and go: broadcast   *)
(* to the connected ones, a backlog for those that are away, and replay of *)
(* the backlog when one of them resumes.                                   *)
(*                                                                         *)
(* Every event is of interest to every client; what the watchlists select  *)
(* is the subject of Sessions.  The clock is Date.now(): events, closes    *)
(* and resumes that happen within one of its units get the same time.      *)
(***************************************************************************)
EXTENDS Integers, Sequences, Functions

CONSTANTS
    Clients,        \* client ids
    Retention,      \* grpcRetentionMs, in clock units
    MaxEvents,      \* grpcRetentionMaxEvents
    MaxTime,        \* bound on the clock
    MaxEmitted      \* bound on the number of events

ASSUME RetentionAssumption == Retention \in Nat
ASSUME BoundsAssumption ==
    MaxEvents \in Nat /\ MaxTime \in Nat \ {0} /\ MaxEmitted \in Nat

VARIABLES
    now,             \* Date.now()
    status,          \* absent: no session; open, closing: connected, with the
                     \* readyState of its socket; away: disconnected
    lastSeen,        \* session.lastSeenAt
    disconnectedAt,  \* session.disconnectedAt, 0 while it is undefined
    backlog,         \* the events kept for replay, oldest first
    received,        \* the events sent to each session, as numbers, in order
    emitted,         \* history: the time of each event so far
    openUntil,       \* history: events emitted when the socket stopped being open
    goneSince        \* history: events emitted when the session was closed

clientVars  == <<status, lastSeen, disconnectedAt>>
historyVars == <<emitted, openUntil, goneSince>>
vars == <<now, status, lastSeen, disconnectedAt, backlog, received,
          emitted, openUntil, goneSince>>

Times  == 1 .. MaxTime
Events == [ts : Times, id : 1 .. MaxEmitted]

Backlog == INSTANCE BoundedQueue
              WITH Items <- Events, Capacity <- MaxEvents,
                   Cutoffs <- (1 - Retention) .. MaxTime, queue <- backlog

TypeOK ==
    /\ now \in Times
    /\ status \in [Clients -> {"absent", "open", "closing", "away"}]
    /\ lastSeen \in [Clients -> Times \cup {0}]
    /\ disconnectedAt \in [Clients -> Times \cup {0}]
    /\ backlog \in Seq(Events) /\ Len(backlog) <= MaxEvents
    /\ received \in [Clients -> Seq(1 .. MaxEmitted)]
    /\ emitted \in Seq(Times) /\ Len(emitted) <= MaxEmitted
    /\ openUntil \in [Clients -> 0 .. MaxEmitted]
    /\ goneSince \in [Clients -> 0 .. MaxEmitted]

Init ==
    /\ now = 1
    /\ status = [c \in Clients |-> "absent"]
    /\ lastSeen = [c \in Clients |-> 0]
    /\ disconnectedAt = [c \in Clients |-> 0]
    /\ backlog = <<>> /\ emitted = <<>>
    /\ received = [c \in Clients |-> <<>>]
    /\ openUntil = [c \in Clients |-> 0]
    /\ goneSince = [c \in Clients |-> 0]

-----------------------------------------------------------------------------
(* Events.                                                                 *)

\* Mutant: buffering stops one unit before the retention ends.
AwayShorter(c) == status[c] = "away" /\ now - disconnectedAt[c] < Retention

AwayRetained(c) == status[c] = "away" /\ now - disconnectedAt[c] <= Retention

\* maybeBufferEvent: kept while somebody who may resume is away, cleared once
\* nobody is.
BufferEvent(event) ==
    IF Retention = 0 \/ MaxEvents = 0 THEN UNCHANGED backlog
    ELSE IF \E c \in Clients : AwayRetained(c)
         THEN Backlog!Trimmed(Backlog!Pushed(backlog, event), now - Retention, backlog')
         ELSE backlog' = <<>>

\* emitTransaction, once the transformation is done: the event is buffered and
\* sent to every connected session whose socket is open.
Emit ==
    LET event == [ts |-> now, id |-> Len(emitted) + 1] IN
    /\ event.id <= MaxEmitted
    /\ BufferEvent(event)
    /\ received' = [c \in Clients |-> IF status[c] = "open"
                                      THEN Append(received[c], event.id) ELSE received[c]]
    /\ emitted' = Append(emitted, now)
    /\ UNCHANGED <<now, clientVars, openUntil, goneSince>>

-----------------------------------------------------------------------------
(* Clients.                                                                *)

Connect(c) ==
    /\ status[c] = "absent"
    /\ status' = [status EXCEPT ![c] = "open"]
    /\ lastSeen' = [lastSeen EXCEPT ![c] = now]
    /\ UNCHANGED <<now, disconnectedAt, backlog, received, historyVars>>

Closing(c) ==
    /\ status[c] = "open"
    /\ status' = [status EXCEPT ![c] = "closing"]
    /\ openUntil' = [openUntil EXCEPT ![c] = Len(emitted)]
    /\ UNCHANGED <<now, lastSeen, disconnectedAt, backlog, received, emitted, goneSince>>

\* The fields of deleted sessions.
Forget(gone) ==
    /\ lastSeen' = [c \in Clients |-> IF c \in gone THEN 0 ELSE lastSeen[c]]
    /\ received' = [c \in Clients |-> IF c \in gone THEN <<>> ELSE received[c]]
    /\ openUntil' = [c \in Clients |-> IF c \in gone THEN 0 ELSE openUntil[c]]

\* handleClientClosed.
Closed(c) ==
    /\ status[c] = "closing"
    /\ IF Retention = 0
       THEN /\ status' = [status EXCEPT ![c] = "absent"]
            /\ Forget({c})
            /\ UNCHANGED <<disconnectedAt, goneSince>>
       ELSE /\ status' = [status EXCEPT ![c] = "away"]
            /\ disconnectedAt' = [disconnectedAt EXCEPT ![c] = now]
            /\ goneSince' = [goneSince EXCEPT ![c] = Len(emitted)]
            /\ UNCHANGED <<lastSeen, received, openUntil>>
    /\ UNCHANGED <<now, backlog, emitted>>

\* Any message: touchClient.
Touch(c) ==
    /\ status[c] \in {"open", "closing"}
    /\ lastSeen' = [lastSeen EXCEPT ![c] = now]
    /\ UNCHANGED <<now, status, disconnectedAt, backlog, received, historyVars>>

\* Mutant: events of the disconnect's own time unit are replayed.
NotBefore(event, since) == event.ts >= since

After(event, since) == event.ts > since

\* target.disconnectedAt ?? target.lastSeenAt; a session that is connected is
\* resuming itself, and touchClient has just set its lastSeenAt.
ResumeFrom(c) == IF status[c] = "away" THEN disconnectedAt[c] ELSE now

\* The loop of replayBacklog over the backlog: what was sent after each item.
SentAfter(queue, since) ==
    LET sent[i \in 0 .. Len(queue)] ==
            IF i = 0 THEN <<>>
            ELSE IF After(queue[i], since) THEN Append(sent[i - 1], queue[i].id)
            ELSE sent[i - 1]
    IN  sent

\* What replayBacklog sends: nothing if the socket is not open.
Replayed(c, socket) ==
    IF socket = "open" THEN SentAfter(backlog, ResumeFrom(c))[Len(backlog)] ELSE <<>>

\* attachSession, and removeSession of the sessions in replaced before it.
Attach(c, socket, replaced) ==
    /\ status' = [d \in Clients |-> IF d = c THEN socket
                                    ELSE IF d \in replaced THEN "absent" ELSE status[d]]
    /\ lastSeen' = [d \in Clients |-> IF d = c THEN now
                                      ELSE IF d \in replaced THEN 0 ELSE lastSeen[d]]
    /\ disconnectedAt' = [disconnectedAt EXCEPT ![c] = 0]
    /\ received' = [d \in Clients |-> IF d = c THEN received[c] \o Replayed(c, socket)
                                      ELSE IF d \in replaced THEN <<>> ELSE received[d]]
    /\ openUntil' = [d \in Clients |-> IF d \in replaced \cup {c} THEN 0 ELSE openUntil[d]]
    /\ goneSince' = [goneSince EXCEPT ![c] = 0]
    /\ UNCHANGED <<now, backlog, emitted>>

\* A new connection with ?clientId=.
ResumeByConnect(c) == status[c] = "away" /\ Attach(c, "open", {})

\* resume with the client's own id.
ResumeSelf(c) == status[c] \in {"open", "closing"} /\ Attach(c, status[c], {})

\* resume on the socket of another session, which is replaced; the socket may
\* be closing already.
ResumeOther(c, other) ==
    /\ status[c] = "away" /\ status[other] \in {"open", "closing"}
    /\ Attach(c, status[other], {other})

-----------------------------------------------------------------------------
\* The heartbeat deletes the sessions that are away for too long and trims the
\* backlog.
Heartbeat ==
    LET gone == {c \in Clients : status[c] = "away" /\ now - disconnectedAt[c] > Retention}
    IN  /\ status' = [c \in Clients |-> IF c \in gone THEN "absent" ELSE status[c]]
        /\ disconnectedAt' = [c \in Clients |-> IF c \in gone THEN 0 ELSE disconnectedAt[c]]
        /\ goneSince' = [c \in Clients |-> IF c \in gone THEN 0 ELSE goneSince[c]]
        /\ Forget(gone)
        /\ Backlog!Trimmed(backlog, now - Retention, backlog')
        /\ UNCHANGED <<now, emitted>>

Tick ==
    /\ now < MaxTime
    /\ now' = now + 1
    /\ UNCHANGED <<clientVars, backlog, received, historyVars>>

Next ==
    \/ Emit
    \/ \E c \in Clients : Connect(c) \/ Closing(c) \/ Closed(c) \/ Touch(c)
                         \/ ResumeByConnect(c) \/ ResumeSelf(c)
    \/ \E c, other \in Clients : ResumeOther(c, other)
    \/ Heartbeat
    \/ Tick

Spec == Init /\ [][Next]_vars

-----------------------------------------------------------------------------
(* Properties.                                                             *)

\* A session gets every event at most once and in the order of emission,
\* whatever mix of broadcast and replay it gets them by: what was broadcast
\* before the close is not replayed, also when another client's absence had it
\* buffered, and a resume with the client's own id replays nothing.
InOrderOnce ==
    \A c \in Clients : \A i, j \in DOMAIN received[c] :
        i < j => received[c][i] < received[c][j]

ResumesInTime(c) ==
    /\ status[c] = "away" /\ status'[c] = "open"
    /\ now - disconnectedAt[c] <= Retention

Newest(e) == Len(emitted) - e < MaxEvents

\* A client that resumes within the retention gets, besides what it has, exactly
\* the events of a later time unit than its close, up to the capacity of the
\* backlog: none less, and none that the absence of another client had
\* buffered earlier, however trims, clears and absences fell in between.
ResumeExact ==
    [][\A c \in Clients : ResumesInTime(c) =>
          Range(received'[c]) = Range(received[c]) \cup
             {e \in DOMAIN emitted : emitted[e] > disconnectedAt[c] /\ Newest(e)}]_vars

\* README.md promises "resume and receive missed transactions from the
\* retention window".  What was emitted while the socket was closing is missed
\* for good: the session still counts as connected, so the event is neither
\* sent nor, later, replayed.
ReplayedSinceClosing ==
    [][\A c \in Clients : ResumesInTime(c) =>
          \A e \in (openUntil[c] + 1) .. goneSince[c] :
             Newest(e) => e \in Range(received'[c])]_vars
=============================================================================
