---------------------------- MODULE ApiKeysProofs ----------------------------
(***************************************************************************)
(* Theorems about ApiKeys, for any keys, any number of requests in flight  *)
(* and any bound on the clock.                                             *)
(***************************************************************************)
EXTENDS ApiKeys, TLAPS

USE DEF storeVars, useVars, historyVars, Flags, Documents, Flushers

\* The key of a POST whose document is not yet there is new, and no other POST
\* has it.
CreatesNew ==
    \A r \in Requests :
        request[r] # Idle /\ request[r].op = "create" /\ request[r].reply = "awaited" =>
        /\ docs[request[r].key] = "none"
        /\ \A other \in Requests :
              /\ request[other] # Idle /\ request[other].op = "create"
              /\ request[other].key = request[r].key
              => other = r

\* What a reply says of the document still holds, as far as it cannot be undone.
RepliesKnown ==
    \A r \in Requests : request[r] # Idle =>
        /\ request[r].reply \in Flags => docs[request[r].key] # "none"
        /\ request[r].reply = "deleted" => docs[request[r].key] = "deleted"
        /\ request[r].op = "deactivate" => request[r].reply # "active"

\* Nothing is known of a key before its document is there.
NoneUnknown ==
    \A k \in Keys : docs[k] = "none" =>
        cache[k] = "none" /\ k \notin revoked /\ lastUse[k] = 0

\* RevokedOut, with the document that keeps it so.
RevokedInactive ==
    \A k \in revoked \ overtaken :
        k \notin live /\ cache[k] # "active" /\ docs[k] # "active"

\* A mark, pending or in a flush, is of the last use; what a flush wrote is in
\* the collection.
Recorded(k) ==
    docs[k] # "deleted" => lastUsed[k] >= lastUse[k] \/ pending[k] >= lastUse[k]

FlushExact(f, k) ==
    flush[f] # Idle =>
        /\ flush[f].marks[k] \in {0, lastUse[k]}
        /\ flush[f].written /\ flush[f].marks[k] # 0 /\ docs[k] # "deleted" =>
              lastUsed[k] = lastUse[k]

MarksExact ==
    \A k \in Keys \ unseen :
        /\ pending[k] \in {0, lastUse[k]}
        /\ \A f \in Flushers : FlushExact(f, k)
        /\ Recorded(k)

\* Nothing is left to write once close() has flushed: the last flush has every
\* mark, and later ones are unseen.
InCollection(k) == docs[k] # "deleted" => lastUsed[k] >= lastUse[k]

LastFlush(k) ==
    /\ status = "starting" => lastUse[k] = 0
    /\ flush["close"] # Idle /\ flush["close"].marks[k] = 0 => InCollection(k)
    /\ status \in {"closed", "exited"} => InCollection(k)

FlushedLast ==
    /\ flush["close"] # Idle => status = "closing"
    /\ \A k \in Keys \ unseen : LastFlush(k)

Inv == TypeOK /\ CreatesNew /\ RepliesKnown /\ NoneUnknown /\ RevokedInactive /\ MarksExact

-----------------------------------------------------------------------------
(* What is in the slots.                                                   *)

LEMMA TimesFacts == Times \subseteq Nat /\ 0 \in Times /\ 1 \in Times
BY MaxTimeAssumption DEF Times

LEMMA SentFields ==
    ASSUME TypeOK, NEW r \in Requests, request[r] # Idle
    PROVE  /\ request[r] \in Sent
           /\ request[r].op \in Ops /\ request[r].key \in Keys /\ request[r].at \in Times
           /\ request[r].reply \in (Documents \ {"none"}) \cup {"awaited"}
<1>1. request[r] \in Sent
  BY DEF TypeOK
<1> QED
  BY <1>1 DEF Sent

LEMMA FlushFields ==
    ASSUME TypeOK, NEW f \in Flushers, flush[f] # Idle
    PROVE  flush[f].marks \in [Keys -> Times] /\ flush[f].written \in BOOLEAN
<1>1. flush[f] \in Flushes
  BY DEF TypeOK
<1> QED
  BY <1>1 DEF Flushes

LEMMA InitInv == Init => Inv
<1> SUFFICES ASSUME Init PROVE Inv
  OBVIOUS
<1>1. TypeOK
  BY TimesFacts DEF Init, TypeOK
<1>2. CreatesNew /\ RepliesKnown
  BY DEF Init, CreatesNew, RepliesKnown
<1>3. NoneUnknown /\ RevokedInactive
  BY DEF Init, NoneUnknown, RevokedInactive
<1>4. ASSUME NEW k \in Keys
      PROVE  /\ pending[k] = 0 /\ lastUse[k] = 0 /\ lastUsed[k] = 0
             /\ \A f \in Flushers : flush[f] = Idle
  BY DEF Init
<1>5. ASSUME NEW k \in Keys
      PROVE  /\ pending[k] \in {0, lastUse[k]} /\ Recorded(k)
             /\ \A f \in Flushers : FlushExact(f, k)
  BY <1>4 DEF Recorded, FlushExact
<1>6. MarksExact
  BY <1>5 DEF MarksExact
<1> QED
  BY <1>1, <1>2, <1>3, <1>6 DEF Inv

-----------------------------------------------------------------------------
(* Steps that leave the documents, the marks and what is revoked alone.    *)

LEMMA SendInv ==
    ASSUME Inv, NEW r \in Requests, NEW op \in Ops, NEW k \in Keys, Send(r, op, k),
           op = "create" =>
              /\ docs[k] = "none"
              /\ \A other \in Requests :
                    request[other] # Idle => request[other].key # k \/ request[other].op # "create"
    PROVE  Inv'
<1> DEFINE sent == [op |-> op, key |-> k, reply |-> "awaited",
                    at |-> IF op = "validate" THEN now ELSE 0]
<1>1. sent \in Sent /\ sent # Idle
  BY TimesFacts, IdleAssumption DEF Inv, TypeOK, Sent
<1>2. /\ request' = [request EXCEPT ![r] = sent] /\ request \in [Requests -> Sent \cup {Idle}]
      /\ UNCHANGED <<docs, lastUsed, cache, pending, flush, status, live, now,
                     revoked, overtaken, lastUse, unseen>>
  BY DEF Send, Inv, TypeOK
<1>3. /\ request' \in [Requests -> Sent \cup {Idle}]
      /\ request'[r] = sent /\ \A q \in Requests \ {r} : request'[q] = request[q]
  BY <1>1, <1>2
<1>4. TypeOK'
  BY <1>2, <1>3 DEF Inv, TypeOK
<1>5. CreatesNew'
  BY <1>2, <1>3 DEF Inv, CreatesNew
<1>6. RepliesKnown'
  BY <1>2, <1>3 DEF Inv, RepliesKnown
<1>7. NoneUnknown' /\ RevokedInactive' /\ MarksExact'
  BY <1>2 DEF Inv, NoneUnknown, RevokedInactive, MarksExact, FlushExact, Recorded
<1> QED
  BY <1>4, <1>5, <1>6, <1>7 DEF Inv

\* A slot that becomes free again.
LEMMA FreedInv ==
    ASSUME Inv, NEW r \in Requests, request' = [request EXCEPT ![r] = Idle], docs' = docs
    PROVE  /\ request' \in [Requests -> Sent \cup {Idle}]
           /\ CreatesNew' /\ RepliesKnown'
<1>1. /\ request' \in [Requests -> Sent \cup {Idle}] /\ request'[r] = Idle
      /\ \A q \in Requests \ {r} : request'[q] = request[q]
  BY DEF Inv, TypeOK
<1>2. CreatesNew'
  BY <1>1 DEF Inv, CreatesNew
<1>3. RepliesKnown'
  BY <1>1 DEF Inv, RepliesKnown
<1> QED
  BY <1>1, <1>2, <1>3

LEMMA FailsInv ==
    ASSUME Inv, NEW r \in Requests, Fails(r)
    PROVE  Inv'
<1>1. /\ request' \in [Requests -> Sent \cup {Idle}]
      /\ CreatesNew' /\ RepliesKnown'
  BY FreedInv DEF Fails
<1>2. TypeOK' /\ NoneUnknown' /\ RevokedInactive' /\ MarksExact'
  BY <1>1 DEF Fails, Inv, TypeOK, NoneUnknown, RevokedInactive, MarksExact, FlushExact, Recorded
<1> QED
  BY <1>1, <1>2 DEF Inv

LEMMA EvictInv ==
    ASSUME Inv, NEW k \in Keys, Evict(k)
    PROVE  Inv'
<1>1. TypeOK'
  BY DEF Evict, Inv, TypeOK
<1>2. CreatesNew' /\ RepliesKnown' /\ MarksExact'
  BY DEF Evict, Inv, CreatesNew, RepliesKnown, MarksExact, FlushExact, Recorded
<1>3. NoneUnknown' /\ RevokedInactive'
  BY DEF Evict, Inv, TypeOK, NoneUnknown, RevokedInactive
<1> QED
  BY <1>1, <1>2, <1>3 DEF Inv

LEMMA PeersCloseInv ==
    ASSUME Inv, NEW k \in Keys, PeersClose(k)
    PROVE  Inv'
<1>1. TypeOK'
  BY DEF PeersClose, Disconnected, Inv, TypeOK
<1>2. CreatesNew' /\ RepliesKnown' /\ MarksExact' /\ NoneUnknown'
  BY DEF PeersClose, Inv, CreatesNew, RepliesKnown, MarksExact, FlushExact, Recorded, NoneUnknown
<1>3. RevokedInactive'
  BY DEF PeersClose, Disconnected, Inv, RevokedInactive
<1> QED
  BY <1>1, <1>2, <1>3 DEF Inv

LEMMA TickInv ==
    ASSUME Inv, Tick
    PROVE  Inv'
<1>1. now' \in Times
  BY MaxTimeAssumption DEF Tick, Inv, TypeOK, Times
<1>2. TypeOK'
  BY <1>1 DEF Tick, Inv, TypeOK
<1>3. CreatesNew' /\ RepliesKnown' /\ MarksExact' /\ NoneUnknown' /\ RevokedInactive'
  BY DEF Tick, Inv, CreatesNew, RepliesKnown, MarksExact, FlushExact, Recorded,
         NoneUnknown, RevokedInactive
<1> QED
  BY <1>2, <1>3 DEF Inv

-----------------------------------------------------------------------------
(* Marks of use.                                                           *)

\* A mark may be the first one of a key that has a document.
LEMMA MarkInv ==
    ASSUME Inv, NEW k \in Keys, NEW at \in Times, MarkLastUsed(k, at), docs[k] # "none",
           UNCHANGED <<docs, lastUsed, flush>>
    PROVE  /\ pending' \in [Keys -> Times] /\ lastUse' \in [Keys -> Times]
           /\ unseen' \subseteq Keys /\ MarksExact'
           /\ \A j \in Keys : docs[j] = "none" => lastUse'[j] = lastUse[j]
<1>1. /\ pending \in [Keys -> Times] /\ lastUse \in [Keys -> Times] /\ unseen \subseteq Keys
      /\ lastUsed \in [Keys -> Times]
  BY DEF Inv, TypeOK
<1>2. /\ \A j \in Keys \ {k} : pending'[j] = pending[j] /\ lastUse'[j] = lastUse[j]
      /\ pending' \in [Keys -> Times] /\ lastUse' \in [Keys -> Times]
      /\ pending'[k] = IF at > pending[k] THEN at ELSE pending[k]
      /\ lastUse'[k] = IF at > lastUse[k] THEN at ELSE lastUse[k]
      /\ unseen \subseteq unseen' /\ unseen' \subseteq unseen \cup {k}
      /\ k \notin unseen' => ~UnderWay(k) /\ ~(at < lastUse[k])
  BY <1>1 DEF MarkLastUsed
<1>3. ASSUME NEW j \in Keys \ unseen', j # k
      PROVE  /\ pending'[j] \in {0, lastUse'[j]}
             /\ \A f \in Flushers : FlushExact(f, j)'
             /\ Recorded(j)'
  <2>1. /\ pending[j] \in {0, lastUse[j]} /\ Recorded(j)
        /\ \A f \in Flushers : FlushExact(f, j)
    BY <1>2, <1>3 DEF Inv, MarksExact
  <2>2. pending'[j] = pending[j] /\ lastUse'[j] = lastUse[j]
    BY <1>2, <1>3
  <2> QED
    BY <2>1, <2>2 DEF FlushExact, Recorded
<1>4. ASSUME k \notin unseen'
      PROVE  /\ pending'[k] \in {0, lastUse'[k]}
             /\ pending'[k] >= lastUse'[k]
             /\ \A f \in Flushers : flush'[f] # Idle => flush'[f].marks[k] = 0
  <2>1. pending[k] \in {0, lastUse[k]}
    BY <1>2, <1>4 DEF Inv, MarksExact
  <2>2. /\ at \in Nat /\ pending[k] \in Nat /\ lastUse[k] \in Nat
    BY <1>1, TimesFacts
  <2>3. ~(at < lastUse[k]) /\ ~UnderWay(k)
    BY <1>2, <1>4
  <2>4. at >= lastUse[k]
    BY <2>2, <2>3
  <2>5. lastUse'[k] = at /\ pending'[k] = at
    BY <1>2, <2>1, <2>2, <2>4
  <2> QED
    BY <2>2, <2>3, <2>5 DEF UnderWay
<1>5. MarksExact'
  BY <1>3, <1>4 DEF MarksExact, FlushExact, Recorded
<1> QED
  BY <1>1, <1>2, <1>5

LEMMA ValidateCachedInv ==
    ASSUME Inv, NEW k \in Keys, ValidateCached(k)
    PROVE  Inv'
<1>1. docs[k] # "none" /\ now \in Times
  BY DEF ValidateCached, Inv, TypeOK
<1>2. /\ pending' \in [Keys -> Times] /\ lastUse' \in [Keys -> Times]
      /\ unseen' \subseteq Keys /\ MarksExact'
      /\ \A j \in Keys : docs[j] = "none" => lastUse'[j] = lastUse[j]
  BY <1>1, MarkInv DEF ValidateCached, Admit
<1>3. TypeOK'
  BY <1>2 DEF ValidateCached, Admit, Inv, TypeOK
<1>4. CreatesNew' /\ RepliesKnown'
  BY DEF ValidateCached, Inv, CreatesNew, RepliesKnown
<1>5. NoneUnknown'
  BY <1>2 DEF ValidateCached, Inv, NoneUnknown
<1>6. RevokedInactive'
  BY DEF ValidateCached, Admit, Inv, RevokedInactive
<1> QED
  BY <1>2, <1>3, <1>4, <1>5, <1>6 DEF Inv

-----------------------------------------------------------------------------
(* The database executes a request.                                        *)

\* What can become of a document.
LEMMA ExecutedFacts ==
    ASSUME Inv, NEW r \in Requests, request[r] # Idle, request[r].reply = "awaited",
           NEW doc \in Executed(request[r].op, request[r].key)
    PROVE  LET k == request[r].key  op == request[r].op IN
           /\ doc \in Documents
           /\ docs[k] # "none" => doc # "none" /\ op # "create"
           /\ docs[k] = "none" /\ op # "create" => doc = "none"
           /\ docs[k] = "deleted" => doc = "deleted"
           /\ doc = "active" => docs[k] = "active" \/ op = "activate" \/ docs[k] = "none"
           /\ ReplyTo(op, k, doc) \in Documents
           /\ ReplyTo(op, k, doc) \in Flags => doc # "none"
           /\ ReplyTo(op, k, doc) = "deleted" => doc = "deleted"
           /\ op = "deactivate" => ReplyTo(op, k, doc) # "active"
<1> DEFINE k == request[r].key
           op == request[r].op
<1>1. k \in Keys /\ op \in Ops /\ docs[k] \in Documents
  BY SentFields DEF Inv, TypeOK
<1>2. op = "create" => docs[k] = "none"
  BY DEF Inv, CreatesNew
<1>3. /\ doc \in Documents
      /\ docs[k] # "none" => doc # "none" /\ op # "create"
      /\ docs[k] = "none" /\ op # "create" => doc = "none"
      /\ docs[k] = "deleted" => doc = "deleted"
      /\ doc = "active" => docs[k] = "active" \/ op = "activate" \/ docs[k] = "none"
      /\ op = "deactivate" => doc # "active"
  BY <1>1, <1>2 DEF Executed, Ops
<1> QED
  BY <1>3 DEF ReplyTo

LEMMA ExecuteInv ==
    ASSUME Inv, NEW r \in Requests, Execute(r)
    PROVE  Inv'
<1> DEFINE k == request[r].key
           op == request[r].op
<1>1. PICK doc \in Executed(op, k) :
         /\ docs' = [docs EXCEPT ![k] = doc]
         /\ request' = [request EXCEPT ![r] =
               IF ReplyTo(op, k, doc) = "none" THEN Idle
               ELSE [@ EXCEPT !.reply = ReplyTo(op, k, doc)]]
         /\ revoked' = IF op = "activate" THEN revoked \ {k} ELSE revoked
  BY DEF Execute
<1> DEFINE reply == ReplyTo(op, k, doc)
<1>2. /\ request[r] # Idle /\ request[r].reply = "awaited"
      /\ UNCHANGED <<lastUsed, cache, pending, flush, status, live, now, overtaken,
                     lastUse, unseen>>
  BY DEF Execute
<1>3. /\ doc \in Documents
      /\ docs[k] # "none" => doc # "none" /\ op # "create"
      /\ docs[k] = "none" /\ op # "create" => doc = "none"
      /\ docs[k] = "deleted" => doc = "deleted"
      /\ doc = "active" => docs[k] = "active" \/ op = "activate" \/ docs[k] = "none"
      /\ reply \in Documents
      /\ reply \in Flags => doc # "none"
      /\ reply = "deleted" => doc = "deleted"
      /\ op = "deactivate" => reply # "active"
  BY <1>2, ExecutedFacts
<1>4. /\ k \in Keys /\ op \in Ops /\ request[r].at \in Times /\ request[r] \in Sent
      /\ docs \in [Keys -> Documents] /\ request \in [Requests -> Sent \cup {Idle}]
  BY <1>2, SentFields DEF Inv, TypeOK
<1>5. /\ docs'[k] = doc /\ docs' \in [Keys -> Documents]
      /\ \A j \in Keys \ {k} : docs'[j] = docs[j]
  BY <1>1, <1>3, <1>4
<1>6. /\ request'[r] # Idle =>
            /\ reply # "none"
            /\ request'[r] = [op |-> op, key |-> k, at |-> request[r].at, reply |-> reply]
      /\ \A q \in Requests \ {r} : request'[q] = request[q]
  BY <1>1, <1>4 DEF Sent
<1>7. request' \in [Requests -> Sent \cup {Idle}]
  <2>1. request'[r] \in Sent \cup {Idle}
    BY <1>3, <1>4, <1>6 DEF Sent
  <2> QED
    BY <1>1, <1>4, <2>1
<1>8. \A q \in Requests : request[q] # Idle => request[q].key \in Keys
  BY SentFields DEF Inv
<1>9. TypeOK'
  <2>1. \A j \in Keys : docs'[j] = "none" => docs[j] = "none"
    BY <1>3, <1>5
  <2> QED
    BY <1>1, <1>2, <1>5, <1>7, <2>1 DEF Inv, TypeOK
<1>10. CreatesNew'
  <2> SUFFICES ASSUME NEW q \in Requests, request'[q] # Idle, request'[q].op = "create",
                      request'[q].reply = "awaited"
               PROVE  /\ docs'[request'[q].key] = "none"
                      /\ \A other \in Requests :
                            /\ request'[other] # Idle /\ request'[other].op = "create"
                            /\ request'[other].key = request'[q].key
                            => other = q
    BY DEF CreatesNew
  <2>1. q # r /\ request'[q] = request[q]
    BY <1>3, <1>6
  <2>2. \A other \in Requests : request'[other] # Idle =>
           /\ request[other] # Idle
           /\ request'[other].op = request[other].op /\ request'[other].key = request[other].key
    BY <1>2, <1>6
  <2>3. docs[request[q].key] = "none" /\ (request[q].key = k => op # "create")
    BY <1>2, <2>1 DEF Inv, CreatesNew
  <2>4. \A other \in Requests :
           /\ request[other] # Idle /\ request[other].op = "create"
           /\ request[other].key = request[q].key
           => other = q
    BY <2>1 DEF Inv, CreatesNew
  <2> QED
    BY <1>3, <1>5, <1>8, <2>1, <2>2, <2>3, <2>4
<1>11. RepliesKnown'
  BY <1>2, <1>3, <1>5, <1>6, <1>7, <1>8 DEF Inv, RepliesKnown
<1>12. NoneUnknown'
  BY <1>1, <1>2, <1>3, <1>5 DEF Inv, NoneUnknown
<1>13. RevokedInactive'
  BY <1>1, <1>2, <1>3, <1>4, <1>5 DEF Inv, TypeOK, RevokedInactive, NoneUnknown
<1>14. MarksExact'
  <2>1. \A j \in Keys : docs'[j] # "deleted" => docs[j] # "deleted"
    BY <1>3, <1>5
  <2> QED
    BY <1>2, <2>1 DEF Inv, MarksExact, FlushExact, Recorded
<1> QED
  BY <1>9, <1>10, <1>11, <1>12, <1>13, <1>14 DEF Inv

-----------------------------------------------------------------------------
(* The reply comes in.                                                     *)

LEMMA AnsweredInv ==
    ASSUME Inv, NEW r \in Requests, Answered(r)
    PROVE  Inv'
<1> DEFINE k     == request[r].key
           op    == request[r].op
           reply == request[r].reply
<1>1. /\ request[r] # Idle /\ reply # "awaited"
      /\ request' = [request EXCEPT ![r] = Idle]
      /\ UNCHANGED <<docs, lastUsed, flush, status, now>>
  BY DEF Answered
<1>2. /\ k \in Keys /\ op \in Ops /\ reply \in Documents /\ request[r].at \in Times
  BY <1>1, SentFields DEF Inv
<1>3. /\ request' \in [Requests -> Sent \cup {Idle}]
      /\ CreatesNew' /\ RepliesKnown'
  BY <1>1, FreedInv
<1>4. /\ reply \in Flags => docs[k] # "none"
      /\ reply = "deleted" => docs[k] = "deleted"
      /\ op = "deactivate" => reply # "active"
  BY <1>1 DEF Inv, RepliesKnown
<1>5. CASE /\ reply = "deleted"
           /\ cache' = [cache EXCEPT ![k] = "none"]
           /\ pending' = [pending EXCEPT ![k] = 0]
           /\ live' = Disconnected(k)
           /\ revoked' = revoked \cup {k}
           /\ UNCHANGED <<overtaken, useVars>>
  <2>1. docs[k] = "deleted"
    BY <1>4, <1>5
  <2>2. /\ cache' \in [Keys -> Flags \cup {"none"}] /\ cache'[k] = "none"
        /\ \A j \in Keys \ {k} : cache'[j] = cache[j]
        /\ live' \subseteq live \ {k} /\ live \subseteq Keys
    BY <1>2, <1>5 DEF Inv, TypeOK, Disconnected
  <2>3. /\ pending' \in [Keys -> Times] /\ pending'[k] = 0
        /\ \A j \in Keys \ {k} : pending'[j] = pending[j]
    <3>1. pending \in [Keys -> Times]
      BY DEF Inv, TypeOK
    <3> QED
      BY <1>2, <1>5, <3>1, TimesFacts
  <2>4. TypeOK'
    BY <1>1, <1>2, <1>3, <1>5, <2>1, <2>2, <2>3 DEF Inv, TypeOK
  <2>5. NoneUnknown'
    BY <1>1, <1>5, <2>1, <2>2 DEF Inv, NoneUnknown
  <2>6. RevokedInactive'
    BY <1>1, <1>5, <2>1, <2>2 DEF Inv, RevokedInactive, TypeOK
  <2>7. MarksExact'
    <3> SUFFICES ASSUME NEW j \in Keys \ unseen'
                 PROVE  /\ pending'[j] \in {0, lastUse'[j]} /\ Recorded(j)'
                        /\ \A f \in Flushers : FlushExact(f, j)'
      BY DEF MarksExact
    <3>1. /\ pending[j] \in {0, lastUse[j]} /\ Recorded(j)
          /\ \A f \in Flushers : FlushExact(f, j)
          /\ UNCHANGED <<docs, lastUsed, flush, lastUse>>
      BY <1>1, <1>5 DEF Inv, MarksExact
    <3>2. \A f \in Flushers : FlushExact(f, j)'
      BY <3>1 DEF FlushExact
    <3>3. pending'[j] \in {0, lastUse'[j]} /\ Recorded(j)'
      BY <2>1, <2>3, <3>1 DEF Recorded
    <3> QED
      BY <3>2, <3>3
  <2> QED
    BY <1>3, <2>4, <2>5, <2>6, <2>7 DEF Inv
<1>6. CASE /\ reply \in Flags
           /\ cache' = UpsertCacheFromDoc(k, reply)
           /\ overtaken' = IF docs[k] = reply THEN overtaken ELSE overtaken \cup {k}
           /\ revoked' = IF op = "deactivate" /\ docs[k] = "inactive"
                         THEN revoked \cup {k} ELSE revoked
           /\ CASE op = "validate" /\ reply = "active" -> Admit(k, request[r].at)
                [] op = "deactivate" ->
                      live' = Disconnected(k) /\ UNCHANGED <<pending, useVars>>
                [] OTHER -> UNCHANGED <<live, pending, useVars>>
  <2>1. docs[k] # "none"
    BY <1>4, <1>6
  <2>2. /\ cache' \in [Keys -> Flags \cup {"none"}] /\ cache'[k] = reply
        /\ \A j \in Keys \ {k} : cache'[j] = cache[j]
    BY <1>2, <1>6 DEF Inv, TypeOK, UpsertCacheFromDoc
  <2>3. /\ pending' \in [Keys -> Times] /\ lastUse' \in [Keys -> Times]
        /\ unseen' \subseteq Keys /\ MarksExact'
        /\ \A j \in Keys : docs[j] = "none" => lastUse'[j] = lastUse[j]
        /\ live' \subseteq live \cup {k}
        /\ reply = "inactive" => live' \subseteq live
        /\ op = "deactivate" => k \notin live'
    <3>1. CASE op = "validate" /\ reply = "active"
      <4>1. live' = live \cup {k} /\ MarkLastUsed(k, request[r].at)
        BY <1>6, <3>1 DEF Admit
      <4> QED
        BY <1>1, <1>2, <2>1, <3>1, <4>1, MarkInv
    <3>2. CASE ~(op = "validate" /\ reply = "active")
      <4>1. /\ UNCHANGED <<pending, lastUse, unseen>> /\ live' \subseteq live
            /\ op = "deactivate" => k \notin live'
        BY <1>6, <3>2 DEF Disconnected
      <4>2. MarksExact'
        BY <1>1, <4>1 DEF Inv, MarksExact, FlushExact, Recorded
      <4> QED
        BY <3>2, <4>1, <4>2 DEF Inv, TypeOK
    <3> QED
      BY <3>1, <3>2
  <2>4. /\ overtaken' \subseteq overtaken \cup {k} /\ overtaken \subseteq overtaken'
        /\ revoked' \subseteq revoked \cup {k}
        /\ k \notin overtaken' => docs[k] = reply
        /\ revoked' # revoked => op = "deactivate"
    BY <1>6
  <2>5. TypeOK'
    BY <1>1, <1>2, <1>3, <2>1, <2>2, <2>3, <2>4 DEF Inv, TypeOK
  <2>6. NoneUnknown'
    BY <1>1, <2>1, <2>2, <2>3, <2>4 DEF Inv, NoneUnknown
  <2>7. RevokedInactive'
    <3>1. ASSUME NEW j \in revoked' \ overtaken', j # k
          PROVE  j \notin live' /\ cache'[j] # "active" /\ docs'[j] # "active"
      BY <1>1, <2>2, <2>3, <2>4, <3>1 DEF Inv, TypeOK, RevokedInactive
    <3>2. ASSUME k \in revoked' \ overtaken'
          PROVE  k \notin live' /\ cache'[k] # "active" /\ docs'[k] # "active"
      <4>1. docs[k] = reply
        BY <2>4, <3>2
      <4>2. CASE op = "deactivate"
        BY <1>1, <1>4, <2>2, <2>3, <4>1, <4>2
      <4>3. CASE op # "deactivate"
        <5>1. k \in revoked \ overtaken
          BY <2>4, <3>2, <4>3
        <5>2. k \notin live /\ docs[k] # "active"
          BY <5>1 DEF Inv, RevokedInactive
        <5> QED
          BY <1>1, <1>6, <2>2, <2>3, <4>1, <5>2
      <4> QED
        BY <4>2, <4>3
    <3> QED
      BY <3>1, <3>2 DEF RevokedInactive
  <2> QED
    BY <1>3, <2>3, <2>5, <2>6, <2>7 DEF Inv
<1> QED
  BY <1>5, <1>6 DEF Answered

-----------------------------------------------------------------------------
(* Flushes.                                                                *)

LEMMA WriteFacts ==
    ASSUME Inv, NEW f \in Flushers, Write(f), UNCHANGED <<docs, lastUsed, pending, lastUse, unseen>>
    PROVE  flush' \in [Flushers -> Flushes \cup {Idle}] /\ MarksExact'
<1> DEFINE written == [marks |-> pending, written |-> FALSE]
<1>1. written \in Flushes /\ written # Idle
  <2>1. pending \in [Keys -> Times]
    BY DEF Inv, TypeOK
  <2>2. written \in Flushes
    BY <2>1 DEF Flushes
  <2> QED
    BY <2>2, IdleAssumption
<1>2. /\ flush' \in [Flushers -> Flushes \cup {Idle}] /\ flush'[f] = written
      /\ \A g \in Flushers \ {f} : flush'[g] = flush[g]
  BY <1>1 DEF Write, Inv, TypeOK
<1>3. ASSUME NEW k \in Keys \ unseen
      PROVE  \A g \in Flushers : FlushExact(g, k)'
  BY <1>2 DEF Inv, MarksExact, FlushExact
<1>4. ASSUME NEW k \in Keys \ unseen
      PROVE  pending'[k] \in {0, lastUse'[k]} /\ Recorded(k)'
  BY DEF Inv, MarksExact, Recorded
<1>5. MarksExact'
  BY <1>3, <1>4 DEF MarksExact
<1> QED
  BY <1>2, <1>5

LEMMA FlushTimerInv ==
    ASSUME Inv, NEW f \in Intervals, FlushTimer(f)
    PROVE  Inv'
<1>1. flush' \in [Flushers -> Flushes \cup {Idle}] /\ MarksExact'
  BY WriteFacts DEF FlushTimer
<1>2. TypeOK' /\ CreatesNew' /\ RepliesKnown' /\ NoneUnknown' /\ RevokedInactive'
  BY <1>1 DEF FlushTimer, Inv, TypeOK, CreatesNew, RepliesKnown, NoneUnknown, RevokedInactive
<1> QED
  BY <1>1, <1>2 DEF Inv

LEMMA CloseInv ==
    ASSUME Inv, Close
    PROVE  Inv'
<1>1. flush' \in [Flushers -> Flushes \cup {Idle}] /\ MarksExact'
  <2>1. CASE Marked = {}
    BY <2>1 DEF Close, Inv, TypeOK, MarksExact, FlushExact, Recorded
  <2>2. CASE Marked # {}
    BY <2>2, WriteFacts DEF Close
  <2> QED
    BY <2>1, <2>2
<1>2. TypeOK' /\ CreatesNew' /\ RepliesKnown' /\ NoneUnknown' /\ RevokedInactive'
  BY <1>1 DEF Close, Inv, TypeOK, CreatesNew, RepliesKnown, NoneUnknown, RevokedInactive
<1> QED
  BY <1>1, <1>2 DEF Inv

LEMMA BulkWriteInv ==
    ASSUME Inv, NEW f \in Flushers, BulkWrite(f)
    PROVE  Inv'
<1>1. /\ flush[f].marks \in [Keys -> Times] /\ flush[f] # Idle /\ flush[f] \in Flushes
      /\ flush' = [flush EXCEPT ![f].written = TRUE]
      /\ flush \in [Flushers -> Flushes \cup {Idle}] /\ lastUsed \in [Keys -> Times]
  BY FlushFields DEF BulkWrite, Inv, TypeOK
<1>2. /\ flush'[f] = [marks |-> flush[f].marks, written |-> TRUE]
      /\ \A g \in Flushers \ {f} : flush'[g] = flush[g]
      /\ flush'[f] \in Flushes /\ flush' \in [Flushers -> Flushes \cup {Idle}]
  BY <1>1 DEF Flushes
<1>3. /\ lastUsed' \in [Keys -> Times]
      /\ \A k \in Keys : lastUsed'[k] = IF flush[f].marks[k] # 0 /\ docs[k] \in Flags
                                        THEN flush[f].marks[k] ELSE lastUsed[k]
  BY <1>1 DEF BulkWrite
<1>4. TypeOK' /\ CreatesNew' /\ RepliesKnown' /\ NoneUnknown' /\ RevokedInactive'
  BY <1>2, <1>3
     DEF BulkWrite, Inv, TypeOK, CreatesNew, RepliesKnown, NoneUnknown, RevokedInactive
<1>5. ASSUME NEW k \in Keys \ unseen
      PROVE  /\ pending'[k] \in {0, lastUse'[k]} /\ Recorded(k)'
             /\ \A g \in Flushers : FlushExact(g, k)'
  <2>1. /\ pending[k] \in {0, lastUse[k]} /\ Recorded(k)
        /\ \A g \in Flushers : FlushExact(g, k)
        /\ flush[f].marks[k] \in {0, lastUse[k]}
        /\ UNCHANGED <<docs, pending, lastUse, unseen>>
    BY <1>1 DEF BulkWrite, Inv, MarksExact, FlushExact
  <2>2. docs[k] \in Flags \/ docs[k] = "deleted" \/ lastUse[k] = 0
    BY DEF Inv, TypeOK, NoneUnknown
  <2>3. lastUse[k] \in Nat
    BY TimesFacts DEF Inv, TypeOK
  <2>4. lastUsed'[k] = lastUsed[k] \/ lastUsed'[k] = lastUse[k]
    BY <1>3, <2>1
  <2>5. flush[f].marks[k] # 0 /\ docs[k] # "deleted" => lastUsed'[k] = lastUse[k]
    BY <1>3, <2>1, <2>2
  <2>6. Recorded(k)'
    BY <2>1, <2>3, <2>4 DEF Recorded
  <2>7. \A g \in Flushers : FlushExact(g, k)'
    BY <1>2, <2>1, <2>4, <2>5 DEF FlushExact
  <2> QED
    BY <2>1, <2>6, <2>7
<1>6. MarksExact'
  BY <1>5 DEF MarksExact, BulkWrite
<1> QED
  BY <1>4, <1>6 DEF Inv

\* A flush ends; marks it wrote may be dropped.
LEMMA FlushEndsInv ==
    ASSUME Inv, NEW f \in Flushers, FlushEnds(f),
           \/ flush[f].written /\ pending' = Unmarked(f)
           \/ pending' = pending,
           unseen \subseteq unseen', unseen' \subseteq Keys
    PROVE  Inv'
<1>1. /\ flush[f] # Idle /\ flush[f].marks \in [Keys -> Times]
      /\ flush' = [flush EXCEPT ![f] = Idle] /\ flush \in [Flushers -> Flushes \cup {Idle}]
      /\ UNCHANGED <<docs, lastUsed, cache, request, live, now, revoked, overtaken, lastUse>>
      /\ status' \in {"starting", "ready", "closing", "closed", "exited"}
  BY FlushFields DEF FlushEnds, Inv, TypeOK
<1>2. /\ flush' \in [Flushers -> Flushes \cup {Idle}] /\ flush'[f] = Idle
      /\ \A g \in Flushers \ {f} : flush'[g] = flush[g]
  BY <1>1
<1>3. /\ pending' \in [Keys -> Times]
      /\ \A k \in Keys : \/ pending'[k] = pending[k]
                         \/ pending'[k] = 0 /\ flush[f].written /\ flush[f].marks[k] # 0
  BY TimesFacts DEF Unmarked, MarkedBy, Inv, TypeOK
<1>4. TypeOK' /\ CreatesNew' /\ RepliesKnown' /\ NoneUnknown' /\ RevokedInactive'
  BY <1>1, <1>2, <1>3
     DEF Inv, TypeOK, CreatesNew, RepliesKnown, NoneUnknown, RevokedInactive
<1>5. ASSUME NEW k \in Keys \ unseen'
      PROVE  /\ pending'[k] \in {0, lastUse'[k]} /\ Recorded(k)'
             /\ \A g \in Flushers : FlushExact(g, k)'
  <2>1. /\ pending[k] \in {0, lastUse[k]} /\ Recorded(k)
        /\ \A g \in Flushers : FlushExact(g, k)
    BY DEF Inv, MarksExact
  <2>2. lastUse[k] \in Nat
    BY TimesFacts DEF Inv, TypeOK
  <2>3. \A g \in Flushers : FlushExact(g, k)'
    BY <1>1, <1>2, <2>1 DEF FlushExact
  <2>4. pending'[k] \in {0, lastUse'[k]}
    BY <1>1, <1>3, <2>1
  <2>5. Recorded(k)'
    <3>1. CASE pending'[k] = pending[k]
      BY <1>1, <2>1, <3>1 DEF Recorded
    <3>2. CASE flush[f].written /\ flush[f].marks[k] # 0
      <4>1. docs[k] # "deleted" => lastUsed[k] = lastUse[k]
        BY <1>1, <2>1, <3>2 DEF FlushExact
      <4> QED
        BY <1>1, <2>2, <4>1 DEF Recorded
    <3> QED
      BY <1>3, <3>1, <3>2
  <2> QED
    BY <2>3, <2>4, <2>5
<1>6. MarksExact'
  BY <1>1, <1>5 DEF MarksExact
<1> QED
  BY <1>4, <1>6 DEF Inv

-----------------------------------------------------------------------------
(* Startup and shutdown.                                                   *)

LEMMA StartsInv ==
    ASSUME Inv, Starts \/ StartFails
    PROVE  Inv'
<1>1. /\ UNCHANGED <<docs, lastUsed, pending, request, flush, live, now,
                     revoked, overtaken, lastUse, unseen>>
      /\ status' \in {"ready", "exited"}
  BY DEF Starts, StartFails
<1>2. /\ cache' \in [Keys -> Flags \cup {"none"}]
      /\ \A k \in Keys : docs[k] = "none" => cache'[k] = "none"
      /\ \A k \in Keys : cache'[k] \in {"none", docs[k], cache[k]}
  <2>1. cache' = Primed \/ cache' = cache
    BY DEF Starts, StartFails
  <2> QED
    BY <2>1 DEF Inv, TypeOK, Primed
<1>3. TypeOK'
  BY <1>1, <1>2 DEF Inv, TypeOK
<1>4. NoneUnknown'
  <2>1. \A k \in Keys : docs[k] = "none" => cache'[k] = "none"
    BY <1>2
  <2>2. docs' = docs /\ revoked' = revoked /\ lastUse' = lastUse
    BY <1>1
  <2> QED
    BY <2>1, <2>2 DEF Inv, NoneUnknown
<1>5. CreatesNew' /\ RepliesKnown' /\ MarksExact'
  BY <1>1 DEF Inv, CreatesNew, RepliesKnown, MarksExact, FlushExact, Recorded
<1>6. RevokedInactive'
  <2>1. \A k \in Keys : cache'[k] = "active" => docs[k] = "active" \/ cache[k] = "active"
    BY <1>2
  <2>2. docs' = docs /\ revoked' = revoked /\ live' = live /\ overtaken' = overtaken
    BY <1>1
  <2>3. revoked \subseteq Keys
    BY DEF Inv, TypeOK
  <2> QED
    BY <2>1, <2>2, <2>3 DEF Inv, RevokedInactive
<1> QED
  BY <1>3, <1>4, <1>5, <1>6 DEF Inv

LEMMA ExitInv ==
    ASSUME Inv, FlushedLast, Exit
    PROVE  Inv'
<1>1. /\ UNCHANGED <<docs, lastUsed, request, flush, now, revoked, overtaken, lastUse, unseen>>
      /\ status = "closed" /\ status' = "exited" /\ live' = {}
      /\ \A k \in Keys : cache'[k] = "none" /\ pending'[k] = 0
      /\ cache' \in [Keys -> Flags \cup {"none"}] /\ pending' \in [Keys -> Times]
  BY TimesFacts DEF Exit, StoreClosed
<1>2. TypeOK' /\ CreatesNew' /\ RepliesKnown' /\ NoneUnknown' /\ RevokedInactive'
  BY <1>1 DEF Inv, TypeOK, CreatesNew, RepliesKnown, NoneUnknown, RevokedInactive
<1>3. MarksExact'
  BY <1>1 DEF Inv, FlushedLast, LastFlush, InCollection, MarksExact, FlushExact, Recorded
<1> QED
  BY <1>2, <1>3 DEF Inv

-----------------------------------------------------------------------------
\* Every step preserves the invariant.
LEMMA NextInv == Inv /\ FlushedLast /\ [Next]_vars => Inv'
<1> SUFFICES ASSUME Inv, FlushedLast, [Next]_vars PROVE Inv'
  OBVIOUS
<1>1. ASSUME NEW r \in Requests, NEW k \in Keys, NEW op \in Ops, AdminRequest(r, op, k)
      PROVE  Inv'
  BY <1>1, SendInv DEF AdminRequest
<1>2. ASSUME NEW r \in Requests, NEW k \in Keys, Create(r, k)
      PROVE  Inv'
  BY <1>2, SendInv DEF Create, Ops
<1>3. ASSUME NEW r \in Requests, NEW k \in Keys, ValidateUncached(r, k)
      PROVE  Inv'
  BY <1>3, SendInv DEF ValidateUncached, Ops
<1>4. ASSUME NEW k \in Keys, ValidateCached(k) \/ Evict(k) \/ PeersClose(k)
      PROVE  Inv'
  BY <1>4, ValidateCachedInv, EvictInv, PeersCloseInv
<1>5. ASSUME NEW r \in Requests, Execute(r) \/ Answered(r) \/ Fails(r)
      PROVE  Inv'
  BY <1>5, ExecuteInv, AnsweredInv, FailsInv
<1>6. ASSUME NEW f \in Flushers, BulkWrite(f)
      PROVE  Inv'
  BY <1>6, BulkWriteInv
<1>7. ASSUME NEW f \in Flushers, FlushDone(f) \/ FlushFails(f)
      PROVE  Inv'
  <2>1. unseen \subseteq unseen' /\ unseen' \subseteq Keys
    BY <1>7 DEF FlushDone, FlushFails, MarkedBy, Inv, TypeOK
  <2> QED
    BY <1>7, <2>1, FlushEndsInv DEF FlushDone, FlushFails, KeepMarks
<1>8. CASE Starts \/ StartFails \/ Close \/ Exit \/ Tick \/ \E f \in Intervals : FlushTimer(f)
  BY <1>8, StartsInv, FlushTimerInv, CloseInv, ExitInv, TickInv
<1>9. CASE UNCHANGED vars
  BY <1>9 DEF vars, Inv, TypeOK, CreatesNew, RepliesKnown, NoneUnknown, RevokedInactive,
              MarksExact, FlushExact, Recorded
<1> QED
  BY <1>1, <1>2, <1>3, <1>4, <1>5, <1>6, <1>7, <1>8, <1>9 DEF Next

-----------------------------------------------------------------------------
(* The last flush.                                                         *)

LEMMA InitLast == Init => FlushedLast
  BY DEF Init, FlushedLast, LastFlush

\* A step that leaves the collection, the flushes and the uses alone.
LEMMA SameLast ==
    ASSUME FlushedLast, UNCHANGED <<docs, lastUsed, flush, status, lastUse, unseen>>
    PROVE  FlushedLast'
BY DEF FlushedLast, LastFlush, InCollection

\* What is marked while the store is not ready is unseen.
LEMMA MarkLast ==
    ASSUME Inv, FlushedLast, NEW k \in Keys, NEW at \in Times, MarkLastUsed(k, at),
           UNCHANGED <<docs, lastUsed, flush, status>>
    PROVE  FlushedLast'
<1>1. /\ \A j \in Keys \ {k} : lastUse'[j] = lastUse[j]
      /\ unseen \subseteq unseen' /\ (status # "ready" => k \in unseen')
  BY DEF MarkLastUsed, Inv, TypeOK
<1> QED
  BY <1>1 DEF FlushedLast, LastFlush, InCollection

LEMMA AnsweredLast ==
    ASSUME Inv, FlushedLast, NEW r \in Requests, Answered(r)
    PROVE  FlushedLast'
<1>1. UNCHANGED <<docs, lastUsed, flush, status>>
  BY DEF Answered
<1>2. request[r].key \in Keys /\ request[r].at \in Times
  BY SentFields DEF Answered, Inv
<1>3. CASE UNCHANGED <<lastUse, unseen>>
  BY <1>1, <1>3, SameLast
<1>4. CASE MarkLastUsed(request[r].key, request[r].at)
  BY <1>1, <1>2, <1>4, MarkLast
<1> QED
  BY <1>3, <1>4 DEF Answered, Admit

\* Deleted documents stay deleted, and a new one was not used.
LEMMA ExecuteLast ==
    ASSUME Inv, FlushedLast, NEW r \in Requests, Execute(r)
    PROVE  FlushedLast'
<1>1. PICK doc \in Executed(request[r].op, request[r].key) :
         docs' = [docs EXCEPT ![request[r].key] = doc]
  BY DEF Execute
<1>2. /\ request[r] # Idle /\ request[r].reply = "awaited"
      /\ UNCHANGED <<lastUsed, flush, status, lastUse, unseen>>
  BY DEF Execute
<1>3. request[r].key \in Keys /\ docs \in [Keys -> Documents]
  BY <1>2, SentFields DEF Inv, TypeOK
<1>4. \A j \in Keys : docs'[j] # "deleted" => docs[j] # "deleted"
  BY <1>1, <1>2, <1>3, ExecutedFacts
<1> QED
  BY <1>2, <1>4 DEF FlushedLast, LastFlush, InCollection

LEMMA WriteLast ==
    ASSUME Inv, FlushedLast, Close \/ \E f \in Intervals : FlushTimer(f)
    PROVE  FlushedLast'
<1>1. /\ UNCHANGED <<docs, lastUsed, pending, lastUse, unseen>> /\ status = "ready"
      /\ flush["close"] = Idle
  BY DEF FlushTimer, Close, FlushedLast
<1>2. \A k \in Keys \ unseen : pending[k] = 0 => InCollection(k)
  <2> SUFFICES ASSUME NEW k \in Keys \ unseen, pending[k] = 0 PROVE InCollection(k)
    OBVIOUS
  <2>1. lastUsed[k] \in Nat /\ lastUse[k] \in Nat
    BY TimesFacts DEF Inv, TypeOK
  <2> QED
    BY <2>1 DEF Inv, MarksExact, Recorded, InCollection
<1>3. ASSUME NEW f \in Intervals, FlushTimer(f) PROVE FlushedLast'
  <2>1. flush'["close"] = flush["close"] /\ status' = status
    BY <1>3, IntervalsAssumption DEF FlushTimer, Write, Inv, TypeOK
  <2> QED
    BY <1>1, <2>1 DEF FlushedLast, LastFlush, InCollection
<1>4. CASE Close /\ Marked = {}
  <2>1. \A k \in Keys : pending[k] = 0
    BY <1>4 DEF Marked
  <2>2. flush' = flush /\ status' = "closed"
    BY <1>4 DEF Close
  <2> QED
    BY <1>1, <1>2, <2>1, <2>2 DEF FlushedLast, LastFlush, InCollection
<1>5. CASE Close /\ Marked # {}
  <2>1. status' = "closing" /\ flush'["close"].marks = pending
    BY <1>5 DEF Close, Write, Inv, TypeOK
  <2> QED
    BY <1>1, <1>2, <2>1 DEF FlushedLast, LastFlush, InCollection
<1> QED
  BY <1>3, <1>4, <1>5

\* A flush may put back nothing: its marks are of the last use.
LEMMA BulkWriteLast ==
    ASSUME Inv, FlushedLast, NEW f \in Flushers, BulkWrite(f)
    PROVE  FlushedLast'
<1>1. /\ UNCHANGED <<docs, pending, status, lastUse, unseen>> /\ flush[f] # Idle
      /\ flush \in [Flushers -> Flushes \cup {Idle}] /\ flush[f] \in Flushes
      /\ flush' = [flush EXCEPT ![f].written = TRUE]
  BY DEF BulkWrite, Inv, TypeOK
<1>2. /\ (flush'["close"] # Idle => flush["close"] # Idle)
      /\ (flush["close"] # Idle => flush'["close"].marks = flush["close"].marks)
  BY <1>1 DEF Flushes
<1>3. ASSUME NEW k \in Keys \ unseen, InCollection(k)
      PROVE  InCollection(k)'
  <2>1. flush[f].marks[k] \in {0, lastUse[k]} /\ lastUse[k] \in Nat
    BY <1>1, <1>3, TimesFacts DEF Inv, MarksExact, FlushExact, TypeOK
  <2>2. lastUsed'[k] = lastUsed[k] \/ lastUsed'[k] = lastUse[k]
    BY <1>3, <2>1 DEF BulkWrite
  <2> QED
    BY <1>1, <1>3, <2>1, <2>2 DEF InCollection
<1>4. \A k \in Keys \ unseen' : LastFlush(k)'
  BY <1>1, <1>2, <1>3 DEF FlushedLast, LastFlush
<1> QED
  BY <1>1, <1>2, <1>4 DEF FlushedLast

\* The last flush wrote its marks, or they are unseen.
LEMMA FlushEndsLast ==
    ASSUME Inv, FlushedLast, NEW f \in Flushers, FlushDone(f) \/ FlushFails(f)
    PROVE  FlushedLast'
<1>1. /\ UNCHANGED <<docs, lastUsed, lastUse>> /\ flush[f] # Idle
      /\ flush \in [Flushers -> Flushes \cup {Idle}]
      /\ flush' = [flush EXCEPT ![f] = Idle]
      /\ status' = IF f = "close" THEN "closed" ELSE status
      /\ unseen \subseteq unseen'
  BY DEF FlushDone, FlushFails, FlushEnds, Inv, TypeOK
<1>2. CASE f # "close"
  <2>1. flush'["close"] = flush["close"] /\ status' = status
    BY <1>1, <1>2
  <2> QED
    BY <1>1, <2>1 DEF FlushedLast, LastFlush, InCollection
<1>3. CASE f = "close"
  <2>1. flush'["close"] = Idle /\ status' = "closed" /\ status = "closing"
    BY <1>1, <1>3 DEF FlushedLast
  <2>2. ASSUME NEW k \in Keys \ unseen'
        PROVE  InCollection(k)
    <3>1. k \notin unseen /\ lastUse[k] \in Nat
      BY <1>1, <2>2, TimesFacts DEF Inv, TypeOK
    <3>2. CASE flush["close"].marks[k] = 0
      BY <1>1, <1>3, <3>1, <3>2 DEF FlushedLast, LastFlush
    <3>3. CASE flush["close"].marks[k] # 0
      <4>1. flush["close"].written
        BY <1>3, <2>2, <3>3 DEF FlushDone, FlushFails, MarkedBy
      <4>2. docs[k] # "deleted" => lastUsed[k] = lastUse[k]
        BY <1>1, <1>3, <3>1, <3>3, <4>1 DEF Inv, MarksExact, FlushExact
      <4> QED
        BY <3>1, <4>2 DEF InCollection
    <3> QED
      BY <3>2, <3>3
  <2> QED
    BY <1>1, <2>1, <2>2 DEF FlushedLast, LastFlush, InCollection
<1> QED
  BY <1>2, <1>3

LEMMA StartLast ==
    ASSUME Inv, FlushedLast, Starts \/ StartFails \/ Exit
    PROVE  FlushedLast'
<1>1. /\ UNCHANGED <<docs, lastUsed, flush, lastUse, unseen>>
      /\ \/ status = "starting" /\ status' \in {"ready", "exited"}
         \/ status = "closed" /\ status' = "exited"
  BY DEF Starts, StartFails, Exit, StoreClosed
<1>2. ASSUME NEW k \in Keys, lastUse[k] = 0
      PROVE  InCollection(k)
  <2>1. lastUsed[k] \in Nat
    BY TimesFacts DEF Inv, TypeOK
  <2> QED
    BY <1>2, <2>1 DEF InCollection
<1> QED
  BY <1>1, <1>2 DEF FlushedLast, LastFlush, InCollection

LEMMA NextLast == Inv /\ FlushedLast /\ [Next]_vars => FlushedLast'
<1> SUFFICES ASSUME Inv, FlushedLast, [Next]_vars PROVE FlushedLast'
  OBVIOUS
<1>1. ASSUME NEW r \in Requests, NEW k \in Keys, NEW op \in Ops,
             AdminRequest(r, op, k) \/ Create(r, k) \/ ValidateUncached(r, k)
      PROVE  FlushedLast'
  BY <1>1, SameLast DEF AdminRequest, Create, ValidateUncached, Send
<1>2. ASSUME NEW k \in Keys, ValidateCached(k)
      PROVE  FlushedLast'
  <2>1. now \in Times
    BY DEF Inv, TypeOK
  <2> QED
    BY <1>2, <2>1, MarkLast DEF ValidateCached, Admit
<1>3. ASSUME NEW k \in Keys, Evict(k) \/ PeersClose(k)
      PROVE  FlushedLast'
  BY <1>3, SameLast DEF Evict, PeersClose
<1>4. ASSUME NEW r \in Requests, Execute(r) \/ Answered(r)
      PROVE  FlushedLast'
  BY <1>4, ExecuteLast, AnsweredLast
<1>5. ASSUME NEW r \in Requests, Fails(r)
      PROVE  FlushedLast'
  BY <1>5, SameLast DEF Fails
<1>6. ASSUME NEW f \in Flushers, BulkWrite(f) \/ FlushDone(f) \/ FlushFails(f)
      PROVE  FlushedLast'
  BY <1>6, BulkWriteLast, FlushEndsLast
<1>7. CASE Starts \/ StartFails \/ Close \/ Exit \/ \E f \in Intervals : FlushTimer(f)
  BY <1>7, StartLast, WriteLast
<1>8. CASE Tick \/ UNCHANGED vars
  BY <1>8, SameLast DEF Tick, vars
<1> QED
  BY <1>1, <1>2, <1>3, <1>4, <1>5, <1>6, <1>7, <1>8 DEF Next, Ops

\* The invariant holds in every reachable state of the key store (apiKeys.ts).
LEMMA AlwaysInv == Spec => [](Inv /\ FlushedLast)
BY InitInv, InitLast, NextInv, NextLast, PTL DEF Spec

\* The state of the store stays well typed, and no key is cached before its
\* document is there (apiKeys.ts, HealthServer.ts).
THEOREM ApiKeysTypeCorrect == Spec => []TypeOK
<1>1. Inv => TypeOK
  BY DEF Inv
<1> QED
  BY <1>1, AlwaysInv, PTL

\* For any keys and any number of requests in flight: once the answer to a
\* revocation is in, the key has no client and is not cached as active, unless a
\* reply older than its document was used (HealthServer.ts, update and delete of
\* apiKeys.ts).
THEOREM RevokedStayOut == Spec => []RevokedOut
<1>1. Inv => RevokedOut
  BY DEF Inv, RevokedInactive, RevokedOut
<1> QED
  BY <1>1, AlwaysInv, PTL

\* For any keys and any number of requests in flight: every use is in the
\* collection or waits for the next flush, except one that was marked during a
\* flush of its key or out of order (markLastUsed and flushLastUsed of
\* apiKeys.ts).
THEOREM UsesRecorded == Spec => []UseRecorded
<1>1. Inv => UseRecorded
  BY DEF Inv, MarksExact, Recorded, UseRecorded
<1> QED
  BY <1>1, AlwaysInv, PTL

\* For any keys and any number of requests in flight: a process that has exited
\* has every use before its shutdown in the collection, except those that
\* UsesRecorded leaves out and those of a last flush that failed (shutdown of
\* index.ts and close of apiKeys.ts).
THEOREM UsesOutlastExit == Spec => []ExitRecorded
<1>1. FlushedLast => ExitRecorded
  BY DEF FlushedLast, LastFlush, InCollection, ExitRecorded
<1> QED
  BY <1>1, AlwaysInv, PTL
=============================================================================
