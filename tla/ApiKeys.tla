------------------------------- MODULE ApiKeys -------------------------------
(***************************************************************************)
(* The API keys: documents in a MongoDB collection, a cache in front of    *)
(* them, the admin requests that change both, the validation of an upgrade *)
(* and the batched writing of lastUsed, from the start of the process to   *)
(* its exit after a signal.                                                *)
(*                                                                         *)
(* A request is sent, executed by the database and answered, and other     *)
(* requests go on in between.  The cache is in memory: its promises        *)
(* resolve before the event loop takes the next reply, so they are no      *)
(* points of interleaving.                                                 *)
(***************************************************************************)
EXTENDS Integers

CONSTANTS
    Keys,      \* API keys; neither the id nor the key string ever changes
    Requests,  \* slots for the requests in flight
    Intervals, \* bound: flushes of the timer that are under way at a time
    MaxTime,   \* bound on the clock
    Idle       \* nothing in a slot

ASSUME MaxTimeAssumption   == MaxTime \in Nat \ {0}
ASSUME IntervalsAssumption == "close" \notin Intervals

VARIABLES
    docs,       \* the collection: the active flag of each key's document
    lastUsed,   \* the collection: lastUsed of each document, 0 if none
    cache,      \* cache; idToKey holds the ids of the same keys
    pending,    \* pendingLastUsed, 0: no mark
    request,    \* what is in each request slot
    flush,      \* the bulkWrite of each flushLastUsed: the timer's and close()'s
    status,     \* "starting", "ready", "closing" while close() flushes, "closed"
                \* while the pool closes, "exited"
    live,       \* keys that an open socket was admitted with
    now,
    revoked,    \* history: keys whose revocation was answered
    overtaken,  \* history: keys of which a reply older than the document was used
    lastUse,    \* history: the time of the last use of each key
    unseen      \* history: keys marked while a flush of theirs was under way, with
                \* a time before their last use, or too late for the last flush,
                \* and those of a last flush that failed

storeVars   == <<docs, lastUsed>>
useVars     == <<lastUse, unseen>>
historyVars == <<revoked, overtaken, lastUse, unseen>>
vars == <<docs, lastUsed, cache, pending, request, flush, status, live, now,
          revoked, overtaken, lastUse, unseen>>

Flags     == {"active", "inactive"}
Documents == Flags \cup {"none", "deleted"}
Times     == 0 .. MaxTime
Ops       == {"read", "create", "activate", "deactivate", "delete", "validate"}
Flushers  == Intervals \cup {"close"}

Sent    == [op : Ops, key : Keys, at : Times,
            reply : (Documents \ {"none"}) \cup {"awaited"}]
Flushes == [marks : [Keys -> Times], written : BOOLEAN]

ASSUME IdleAssumption == Idle \notin Sent /\ Idle \notin Flushes

TypeOK ==
    /\ docs \in [Keys -> Documents] /\ cache \in [Keys -> Flags \cup {"none"}]
    /\ lastUsed \in [Keys -> Times] /\ pending \in [Keys -> Times]
    /\ request \in [Requests -> Sent \cup {Idle}]
    /\ flush \in [Flushers -> Flushes \cup {Idle}]
    /\ status \in {"starting", "ready", "closing", "closed", "exited"}
    /\ \A k \in Keys : docs[k] = "none" => cache[k] = "none"
    /\ live \subseteq Keys /\ now \in Times
    /\ revoked \subseteq Keys /\ overtaken \subseteq Keys
    /\ lastUse \in [Keys -> Times] /\ unseen \subseteq Keys

Init ==
    /\ docs \in [Keys -> Flags \cup {"none"}] /\ cache = [k \in Keys |-> "none"]
    /\ lastUsed = [k \in Keys |-> 0] /\ pending = [k \in Keys |-> 0]
    /\ request = [r \in Requests |-> Idle] /\ flush = [f \in Flushers |-> Idle]
    /\ status = "starting" /\ live = {} /\ now = 1
    /\ revoked = {} /\ overtaken = {} /\ unseen = {}
    /\ lastUse = [k \in Keys |-> 0]

-----------------------------------------------------------------------------
(* index.ts, start: nothing is served before the store is connected.       *)

\* primeCache
Primed == [k \in Keys |-> IF docs[k] \in Flags THEN docs[k] ELSE "none"]

\* connect(): the cache is primed, unless reading the collection failed.
Starts ==
    /\ status = "starting" /\ status' = "ready"
    /\ cache' \in {Primed, cache}
    /\ UNCHANGED <<storeVars, pending, request, flush, live, now, historyVars>>

\* MongoDB is not reached, or an index cannot be created.
StartFails ==
    /\ status = "starting" /\ status' = "exited"
    /\ UNCHANGED <<storeVars, cache, pending, request, flush, live, now, historyVars>>

\* ready()
Connected == status \in {"ready", "closing"}

-----------------------------------------------------------------------------
(* Marks of use.                                                           *)

UnderWay(k) == \E f \in Flushers : flush[f] # Idle /\ flush[f].marks[k] # 0

\* markLastUsed.
MarkLastUsed(k, at) ==
    /\ pending' = [pending EXCEPT ![k] = IF at > @ THEN at ELSE @]
    /\ lastUse' = [lastUse EXCEPT ![k] = IF at > @ THEN at ELSE @]
    /\ unseen' = IF UnderWay(k) \/ at < lastUse[k] \/ status # "ready"
                 THEN unseen \cup {k} ELSE unseen

\* An upgrade whose key is admitted: the socket's session is created in the
\* same turn.
Admit(k, at) ==
    /\ live' = live \cup {k}
    /\ MarkLastUsed(k, at)

-----------------------------------------------------------------------------
(* Requests.                                                               *)

\* The routes and the upgrade ask ready() first.
Free(r) == Connected /\ request[r] = Idle

\* Only validate reads the clock.
Send(r, op, k) ==
    /\ Free(r)
    /\ request' = [request EXCEPT ![r] = [op |-> op, key |-> k, reply |-> "awaited",
                                         at |-> IF op = "validate" THEN now ELSE 0]]
    /\ UNCHANGED <<storeVars, cache, pending, flush, status, live, now, historyVars>>

\* GET of one key or of all, and PATCH of the name: all cache what they read.
\* An administrator names keys that have existed.
AdminRequest(r, op, k) ==
    /\ docs[k] # "none"
    /\ op \in {"read", "activate", "deactivate", "delete"}
    /\ Send(r, op, k)

\* POST; the generated key is new.
Create(r, k) ==
    /\ docs[k] = "none"
    /\ \A other \in Requests :
          request[other] # Idle => request[other].key # k \/ request[other].op # "create"
    /\ Send(r, "create", k)

\* validate: a key that is cached is admitted, or refused, at once.
ValidateCached(k) ==
    /\ Connected /\ cache[k] = "active"
    /\ Admit(k, now)
    /\ UNCHANGED <<storeVars, cache, request, flush, status, now, revoked, overtaken>>

ValidateUncached(r, k) ==
    /\ cache[k] = "none"
    /\ Send(r, "validate", k)

\* The document of a key once the database has executed op.
Executed(op, k) ==
    CASE op = "create" -> Flags
      [] op = "activate" /\ docs[k] \in Flags -> {"active"}
      [] op = "deactivate" /\ docs[k] \in Flags -> {"inactive"}
      [] op = "delete" /\ docs[k] \in Flags -> {"deleted"}
      [] OTHER -> {docs[k]}

\* The reply is "none" when there is no document, to be read or to be deleted.
ReplyTo(op, k, doc) ==
    IF doc = "deleted" /\ ~(op = "delete" /\ docs[k] \in Flags) THEN "none" ELSE doc

\* The database executes what it has received, also when the process has exited.
\* A request whose reply is "none" is over: nothing is done with the answer.
Execute(r) ==
    /\ request[r] # Idle /\ request[r].reply = "awaited"
    /\ LET k == request[r].key  op == request[r].op IN
       \E doc \in Executed(op, k) :
          /\ docs' = [docs EXCEPT ![k] = doc]
          /\ request' = [request EXCEPT ![r] =
                IF ReplyTo(op, k, doc) = "none" THEN Idle
                ELSE [@ EXCEPT !.reply = ReplyTo(op, k, doc)]]
          /\ revoked' = IF op = "activate" THEN revoked \ {k} ELSE revoked
    /\ UNCHANGED <<lastUsed, cache, pending, flush, status, live, now, overtaken, useVars>>

\* Mutant: a document that is cached already is not cached again.
IfMissing(k, doc) == [cache EXCEPT ![k] = IF @ = "none" THEN doc ELSE @]

\* upsertCacheFromDoc.
UpsertCacheFromDoc(k, doc) == [cache EXCEPT ![k] = doc]

\* onApiKeyRevoked: the open sockets of the key begin to close.
Disconnected(k) == live \ {k}

\* The reply comes in, also after close(): nobody asks ready() again.
Answered(r) ==
    LET k     == request[r].key
        op    == request[r].op
        reply == request[r].reply
    IN  /\ status # "exited" /\ request[r] # Idle /\ reply # "awaited"
        /\ request' = [request EXCEPT ![r] = Idle]
        /\ \/ /\ reply = "deleted"
              /\ cache' = [cache EXCEPT ![k] = "none"]
              /\ pending' = [pending EXCEPT ![k] = 0]
              /\ live' = Disconnected(k)
              /\ revoked' = revoked \cup {k}
              /\ UNCHANGED <<overtaken, useVars>>
           \/ /\ reply \in Flags
              /\ cache' = UpsertCacheFromDoc(k, reply)
              /\ overtaken' = IF docs[k] = reply THEN overtaken ELSE overtaken \cup {k}
              /\ revoked' = IF op = "deactivate" /\ docs[k] = "inactive"
                            THEN revoked \cup {k} ELSE revoked
              /\ CASE op = "validate" /\ reply = "active" -> Admit(k, request[r].at)
                   [] op = "deactivate" ->
                         live' = Disconnected(k) /\ UNCHANGED <<pending, useVars>>
                   [] OTHER -> UNCHANGED <<live, pending, useVars>>
        /\ UNCHANGED <<storeVars, flush, status, now>>

\* The request fails, before or after the database executed it.
Fails(r) ==
    /\ status # "exited" /\ request[r] # Idle
    /\ request' = [request EXCEPT ![r] = Idle]
    /\ UNCHANGED <<storeVars, cache, pending, flush, status, live, now, historyVars>>

\* The entry makes room for another key's.
Evict(k) ==
    /\ status # "exited" /\ cache[k] # "none"
    /\ cache' = [cache EXCEPT ![k] = "none"]
    /\ UNCHANGED <<storeVars, pending, request, flush, status, live, now, historyVars>>

\* The key's clients leave.
PeersClose(k) ==
    /\ k \in live
    /\ live' = Disconnected(k)
    /\ UNCHANGED <<storeVars, cache, pending, request, flush, status, now, historyVars>>

-----------------------------------------------------------------------------
(* flushLastUsed and close.                                                *)

Marked == {k \in Keys : pending[k] # 0}

Write(f) == flush' = [flush EXCEPT ![f] = [marks |-> pending, written |-> FALSE]]

\* The timer, which does not ask whether its last flush has ended.
FlushTimer(f) ==
    /\ status = "ready" /\ flush[f] = Idle /\ Marked # {}
    /\ Write(f)
    /\ UNCHANGED <<storeVars, cache, pending, request, status, live, now, historyVars>>

\* The database executes the updates of the bulkWrite; those of documents that
\* are gone have no effect.
BulkWrite(f) ==
    /\ flush[f] # Idle /\ ~flush[f].written
    /\ lastUsed' = [k \in Keys |-> IF flush[f].marks[k] # 0 /\ docs[k] \in Flags
                                   THEN flush[f].marks[k] ELSE lastUsed[k]]
    /\ flush' = [flush EXCEPT ![f].written = TRUE]
    /\ UNCHANGED <<docs, cache, pending, request, status, live, now, historyVars>>

FlushEnds(f) ==
    /\ status # "exited" /\ flush[f] # Idle
    /\ flush' = [flush EXCEPT ![f] = Idle]
    /\ status' = IF f = "close" THEN "closed" ELSE status
    /\ UNCHANGED <<storeVars, cache, request, live, now, revoked, overtaken, lastUse>>

MarkedBy(f) == {k \in Keys : flush[f].marks[k] # 0}

Unmarked(f) == [k \in Keys |-> IF k \in MarkedBy(f) THEN 0 ELSE pending[k]]

\* Mutant: a flush that fails drops its marks as well.
DropMarks(f) == Unmarked(f)

KeepMarks(f) == pending

\* The marks that were written are dropped, newer ones of the same keys
\* with them.
FlushDone(f) ==
    /\ FlushEnds(f) /\ flush[f].written
    /\ pending' = Unmarked(f)
    /\ UNCHANGED unseen

\* The marks are kept, which helps if there is another flush.
FlushFails(f) ==
    /\ FlushEnds(f)
    /\ pending' = KeepMarks(f)
    /\ unseen' = IF f = "close" THEN unseen \cup MarkedBy(f) ELSE unseen

\* shutdown of index.ts, at the first signal, and close(): the timer is cleared
\* and what is pending is flushed once more.
Close ==
    /\ status = "ready"
    /\ IF Marked = {} THEN status' = "closed" /\ UNCHANGED flush
       ELSE status' = "closing" /\ Write("close")
    /\ UNCHANGED <<storeVars, cache, pending, request, live, now, historyVars>>

\* Mutant: the pool is closed while the store still flushes.
NotAwaited == status \in {"closing", "closed"}

StoreClosed == status = "closed"

\* The pool is closed, well or not, and the process ends with what it has in
\* memory and its sockets.
Exit ==
    /\ StoreClosed /\ status' = "exited"
    /\ cache' = [k \in Keys |-> "none"] /\ pending' = [k \in Keys |-> 0] /\ live' = {}
    /\ UNCHANGED <<storeVars, request, flush, now, historyVars>>

Tick ==
    /\ now < MaxTime /\ status \notin {"starting", "exited"}
    /\ now' = now + 1
    /\ UNCHANGED <<storeVars, cache, pending, request, flush, status, live, historyVars>>

-----------------------------------------------------------------------------
Next ==
    \/ \E r \in Requests, k \in Keys :
          \/ \E op \in Ops : AdminRequest(r, op, k)
          \/ Create(r, k)
          \/ ValidateUncached(r, k)
    \/ \E k \in Keys : ValidateCached(k) \/ Evict(k) \/ PeersClose(k)
    \/ \E r \in Requests : Execute(r) \/ Answered(r) \/ Fails(r)
    \/ \E f \in Flushers : BulkWrite(f) \/ FlushDone(f) \/ FlushFails(f)
    \/ Starts \/ StartFails
    \/ \E f \in Intervals : FlushTimer(f)
    \/ Close \/ Exit \/ Tick

Spec == Init /\ [][Next]_vars

-----------------------------------------------------------------------------
(* Properties.                                                             *)

\* Once the PATCH or DELETE that revokes a key is answered, its clients are
\* disconnected and the cache admits no other, whatever validations, reads and
\* evictions go on meanwhile.  The exception is a key of which a reply older
\* than its document was used: a validation or a read that was on its way while
\* the key was revoked admits it again, and caches it as active.
RevokedOut ==
    \A k \in revoked \ overtaken : k \notin live /\ cache[k] # "active"

\* Every use of a key is in the collection or waits for the next flush, also
\* when a flush fails.  The exception is a use that is marked during a flush of
\* the same key, which is dropped with the mark that was written, after a later
\* use, or when there is no next flush.
UseRecorded ==
    status # "exited" =>
        \A k \in Keys \ unseen :
            docs[k] \in Flags => lastUsed[k] >= lastUse[k] \/ pending[k] >= lastUse[k]

\* A shutdown loses no use but those: what was used before the signal is in the
\* collection when the process has exited, also when flushes of the timer were under
\* way at the signal and whatever order the flushes are executed in, unless
\* the last flush failed.
ExitRecorded ==
    status = "exited" =>
        \A k \in Keys \ unseen : docs[k] \in Flags => lastUsed[k] >= lastUse[k]
=============================================================================
