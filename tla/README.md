# A TLA+ model of the gRPC-to-WebSocket bridge

These modules model `src/src` of yellowstone-grpc-ws-bridge: a Node.js service
that subscribes to a Yellowstone gRPC endpoint on behalf of many WebSocket
clients, filters what it receives by what the clients watch, and forwards it.
TLC checks small instances; TLAPS proves every safety property the runs check,
and three refinements, for every instance.

Everything in the service runs on one event loop. What makes it hard is not
parallel threads but everything that can happen *between* two turns of the
loop: a handler that stops at an `await` and finds the world changed when it
goes on, a timer that fires late, a close event that arrives after the thing it
closes has been replaced. The modules therefore make **the code between two
awaits one action**, and leave the order of actions open.

## Inventory

| part | state it keeps | operations | hard behaviour | what must hold |
|---|---|---|---|---|
| Client sessions (`BridgeServer.ts` 393-617, 887-930, 1431-1476, 1551-1568) | `sessions`, `socketToSession`, per session `ws`, `connected`, `apiKeyId`, watchlists, `disconnectedAt`, `lastSeenAt`; the union `subscriptionAccounts/Mints`, `grpcWanted` | connect, resume by URL or by message, watchlist ops, close, revoke, heartbeat | stale close events, two sockets and one client id, retention lapsing between two heartbeats, the union recomputed by some handlers only | the maps agree, no takeover, keys match, the union covers what is retained and nothing else |
| gRPC streams (`BridgeServer.ts` 753-785, 887-1052, 1335-1381, 1414-1533) | `processedStream`, `confirmedStream`, `pendingWrite`, `stoppingGrpc`, `lastStopAt`, `nodeHealthy`, one loop per commitment level | open, write, stop, ping, resubscribe, retry | stops and filter changes while a stream is being opened | a stream that counts as connected is watched; filters converge; unhealthy nodes are left alone; no loop stalls |
| Replay (`BridgeServer.ts` 871-885, 1293-1333) | the ring buffer, `disconnectedAt` of every session | broadcast, buffer, trim, replay | several clients away at once, closing sockets, equal timestamps | no event twice or out of order; nothing lost in the retention window |
| Ring buffer (`utils/ringBuffer.ts`) | array, `head`, `size` | push, forEach, trimBefore, clear | wrapping | it is a bounded queue |
| Confirmed buffer (`BridgeServer.ts` 1083-1229, `blockCache.ts`) | `pendingConfirmed`, timers, `pendingConfirmedItems`, cached block times | hold, release by block or timer, emit | timer against block update, emission that awaits | nothing lost, doubled or reordered; the counter is exact |
| Heartbeat of a connection (`BridgeServer.ts` 400, 659-662, 1431-1454) | `lastSeenAt`, the interval | ping, pong, terminate | late pongs, intervals with a lower bound | responsive clients are kept, silent ones noticed |
| Node health monitor (`NodeHealthMonitor.ts`, `BridgeServer.ts` 759-772) | interval, timeout, timer, check in flight, verdict | start, stop, check, retune | retuning inside a round by two setters that look at each other's value | the verdict is fresh, interval and timeout fit it |
| API keys (`apiKeys.ts`, `HealthServer.ts` 90-200, `BridgeServer.ts` 349-382) | the collection, a cache in front of it, `pendingLastUsed` | connect, validate, list, get, create, update, delete, flush, close | replies overtaken by writes, revocation during a validation, marks set during a flush, a shutdown meanwhile | revoked keys stay out, uses are recorded and outlast the process |
| Token account cache and transfers (`tokenAccountCache.ts`, `tokenTransfers.ts`) | an LRU map, counters | get, set, getOrFetch, populate | concurrent fetches of one account, eviction during a lookup | bounded; a transaction's transfers agree; its own balances suffice |
| Transformation and selection (`transactionTransformer.ts`, `utils/transforms.ts`, `BridgeServer.ts` 672-694, 799-869) | the transformations under way, per session options | derive changes and transfers, match, filter, format | watchlists that change during a transformation, accounts created or closed | a client is told of exactly what it watches then |
| Native transfers, instructions (`nativeTransfers.ts`, `instructionParser.ts`) | none | join inner instructions, resolve accounts, recognise transfers | nesting, kinds with another order of accounts, amounts a double does not have | native transfers explain the balance changes up to rounding |
| Rate limiter (`utils/rateLimit.ts`, `BridgeServer.ts` 631-642) | window start, count | allow, shouldWarn | window boundary | fewer than twice the limit per window, no drop below it |
| Startup and shutdown (`index.ts`, `utils/mongoPoolManager.ts`) | the pool, `shuttingDown` | start, signal, close, exit | requests and flushes under way at the signal | nothing is served too early, no use is lost |
| Statistics (`utils/stats.ts`) | counters, a ping table | record, log | pongs of two streams | display only |
| HTTP server, env, hub, types | wiring | | | |

### How the parts interact

```
  WebSocket client ──upgrade──▶ API keys ──auth──▶ client sessions
        │  watchlist, setOptions, resume               │ updateSubscriptions (a call)
        ▼                                              ▼
  client sessions ◀─broadcast/replay─┐        gRPC streams ──request──▶ endpoint
        ▲                            │              │ data events
        │ disconnectByApiKeyId       │              ▼
  HTTP admin ──▶ API keys      replay backlog ◀─ confirmed buffer ─▶ transformation
                                                                      │ lookups (await)
  node health monitor ──onStatus──▶ gRPC streams                token account cache
```

- *Calls.* `updateSubscriptions` is the only link from sessions to streams;
  `Bridge` models it as a joint step.
- *Callbacks.* `onStatus` of the monitor, `onApiKeyRevoked` of the admin
  server, the events of `ws` and of the gRPC streams.
- *Shared state.* Broadcast, buffering and replay read the sessions' `connected`,
  `disconnectedAt` and watchlists at the moment they run. A transformation that
  began before a watchlist message ends after it.

## Modules

| module | models | instance and run |
|---|---|---|
| `Sessions` | sessions, sockets, watchlists, the subscription union | `MCSessions`: `sessions`, `sessions_lapsed` |
| `GrpcStreams` | the connect loops, stops, writes, health verdicts | `MCGrpcStreams`: `grpc`, `grpc_unwanted` |
| `Bridge` | `Sessions` and `GrpcStreams` joined | `MCBridge`: `bridge` |
| `Replay` | broadcast, backlog, replay; uses the operators of `BoundedQueue` | `MCReplay`: `replay`, `replay_closing` |
| `BoundedQueue` | abstract specification of the backlog | (through the two runs next to it) |
| `RingBuffer` | `utils/ringBuffer.ts`, shown to implement `BoundedQueue` | `MCRingBuffer`: `ring_buffer` |
| `ConfirmedBuffer` | confirmed transactions held back per slot, block metadata cache; shown to implement `Outbox` | `MCConfirmedBuffer`: `confirmed` |
| `Outbox` | abstract specification of the confirmed buffer: who waits, behind whom, and who was settled | (through the run next to it) |
| `NodeHealth` | the monitor and the part of the bridge that tunes it | `MCTimers`: `timers` |
| `RateLimiter` | one session's limiter and what gets through it | `MCTimers`: `timers` |
| `Connection` | the heartbeat of one session, with intervals and delays as numbers | `MCTimers`: `timers` |
| `ApiKeys` | the key store with its admin requests and validations, from the start of the process to its exit | `MCApiKeys`: `api_keys` |
| `Transactions` | instructions and their transfers, transformation, token account cache, selection and payloads | `MCTransactions`: `transactions` |
| `BridgeProofs` | theorems about `Sessions` and `Bridge` | checked by tlapm, as the next ones |
| `TimersProofs` | theorems about `NodeHealth`, `RateLimiter` and `Connection` | |
| `GrpcStreamsProofs`, `RingBufferProofs`, `ReplayProofs`, `ConfirmedBufferProofs`, `ApiKeysProofs`, `TransactionsProofs` | theorems about the module of that name | |

### How state and actions correspond to the code

Each variable has the name of the field it stands for, or its comment names
that field; each action has the name of the method, or its comment names the
handler. In particular:

- **Sessions.** Every handler runs to completion, so each is one action, the
  recomputation of the union included where the code calls it. The two time
  stamps of a session are ages (`away`, `idle`), which is all the code does
  with them, and an age is not counted past the limit it is compared with.
  A socket slot that is `CLOSED` may be used again by a new connection. A
  message dropped by the rate limiter still counts as activity: `Touch`.
- **GrpcStreams.** `loop[l]` is the await a `runGrpcLoop` sits in. `attached`
  is `processedStream`/`confirmedStream`; a stream that is being opened is in
  neither, which is what most of the hazards come from. The 1 s of
  `stoppingGrpc` and the 10 s of `lastStopAt` are the ages of `stopAge`. The ping
  ignores write errors, and one that is thrown keeps the second stream from being
  written to, so `Ping` reaches any subset of the attached streams.
- **Replay.** `status` joins the session's flag with the `readyState` of its
  socket, because a closing socket is connected for one part of the code and
  unreachable for the other. A time unit stands for everything that gets the
  same `Date.now()`.
- **ConfirmedBuffer.** A running `flushConfirmedSlot` is a sequence of items
  still to emit; the direct emission of a message is a sequence of one.
- **NodeHealth.** A tick is the unit in which intervals and timeouts are
  measured. `latency` is what the node does, not what the code knows. `Tuning` is
  the two calls of `handleHealthStatus`, each with its early return. `stop` is an
  operation of the class that the bridge does not call.
- **RateLimiter.** `windowAge` is `now - windowStart`. The history variables say
  how long ago each message came and whether it was handled; the window's own
  counter is not used to state the properties.
- **Connection.** What `Sessions` leaves to a choice (a socket is idle or not) is
  computed here: `BeatInterval` is the code's clamped interval, `idle` is
  `now - lastSeenAt`. The client is `delay` and `silent`: its pongs are on time
  until it falls silent. A due heartbeat is not overtaken by time.
- **ApiKeys.** A request is sent, executed and answered in three steps, and may
  fail before or after it was executed. Awaits of the in-memory cache are
  not steps: their promises are settled before the next event. `setInterval` does
  not wait for the flush it started last, so flushes of the timer overlap; each
  has a slot of its own in `Intervals`, and that of `close()` one more. `status` is how far `start` and `shutdown` of
  `index.ts` have come. The database goes on with what it has received when the
  process has exited; everything in memory is gone. The pool has one caller at
  startup, so its shared connect promise needs no state.
- **Transactions.** A job is the state of one `buildTokenTransfers`: what it
  looked up, what it waits for, the transfers built. Its last step selects and
  formats the payload with the watchlists and options of that moment; `sent` is
  the set of what the last step sent, one payload or none. An
  address is a name and a signature a number. `Raw` is the transaction that
  `handleStreamData` makes of a message; an instruction is the kind and the
  amount its data decodes to. Both lists of transfers are derived from one
  traversal, as in the code (each instruction, then its inner ones). Lamports are
  integers in the code (`bigint`) until they are reported: `Number` rounds an
  amount, a change of a balance and the fee to the nearest double, of two to the
  even one. `Exact` is 2^53 and `Units` are the distances of the doubles above it.
  Decimals are left out, as are options that only omit a field.

Definitions under the comment *Mutant* are wrong on purpose. None is used by a
specification: each replaces one definition to show that a property notices.

## Runs: what is checked and what it shows

**sessions.** Two clients, two sockets, two API keys. The maps agree
(`MapsAgree`), keys match (`SocketKeyMatches`), nobody is taken over
(`NoTakeover`), the union covers the retained watchlists (`Coverage`) and
nothing else (`NoStraySubscription`); silent clients are dropped
(`SilentDropped`) and abandoned subscriptions drain (`SubscriptionDrains`).
`Coverage` leaves out the sessions in `late`, which the next run is about.

**sessions_lapsed** finds a violation. A session whose retention lapsed is still
there until the next heartbeat. A client that resumes it is connected, is told
of its watchlist, and has nothing subscribed.

**grpc.** Two loops and two watchable items. A stream that counts as connected is
one whose end is awaited (`AttachedIsWatched`); while streams are not allowed,
one comes to count in one way only, by a first write that was under way when
they were stopped (`OnlyLateAttach`); stale filters converge
(`FilterConverges`); an unhealthy node ends up with no stream
(`UnhealthyQuiet`); no loop stalls (`Reconnects`).

**grpc_unwanted** finds a violation. When the last watcher leaves while a stream is
being opened, the stop finds nothing to stop and the stream stays.

**bridge.** What a connected client watches reaches the streams
(`WatchReachesStreams`), over both components; and the composition takes no
step that `GrpcStreams` does not allow (`GrpcRefined`). Two more statements
about both components are not in the run's list: `StreamsServe` and
`UnwatchedStreams` are proved for all values instead, and hold on this
instance as well.

**ring_buffer.** `LiveSlots` and the refinement `ImplementsQueue`.

**replay.** Nobody gets an event twice or out of order (`InOrderOnce`); a resume
in time has what it had before and every event of a later time unit than the
close that the backlog's capacity allows, and nothing else (`ResumeExact`). An event of the same millisecond as the close is on
neither side of the code's comparison.

**replay_closing** finds a violation. An event that is broadcast while the socket
closes is neither sent nor replayed.

**confirmed.** Each message is in one place and concluded once (`Conserved`), in
the end (`Delivered`); the counter and the timers match the entries
(`EntriesAccounted`). `OutboxRefined`: whatever the timers, the block updates and
the two kinds of flush do, the buffer is an outbox, which settles one message
at a time and none before those that it was put behind.

**timers.** Three components that share no state, one of which moves in a behaviour.

- *Node health.* The verdict is never older than an interval and a request
  (`Fresh`); these two fit the last verdict, whatever they were before (`Tuned`:
  `Fresh` alone would not notice a wrong interval, which moves its bound); and a
  change of the node that lasts becomes the verdict (`FollowsNode`). The last one
  has a condition: a
  node that needs longer than the 1 s an unhealthy node is given, but less than
  the configured timeout, stays whatever it was.
- *Rate limiter.* The window is fixed, so a client gets more than the limit
  through around its boundary, but always less than twice as much
  (`AtMostTwice`, not the limit itself); and what is dropped is dropped because
  the limit was reached within the last window (`DroppedOnlyAtLimit`).
- *Heartbeat.* A client that only listens is kept if its pongs are on time
  (`ResponsiveKept`), one that is gone is noticed within the idle timeout and one
  interval (`SilentGone`). The first one has the premise that an interval and a
  pong fit the idle timeout. The interval is never shorter than 5 s, so with an
  idle timeout below that the code ends quiet connections that are well.

**api_keys.** A revoked key has no client and is not cached as active
(`RevokedOut`); every use is recorded or waiting (`UseRecorded`). Revoked means
that the request was answered: a revocation whose answer is lost is not
counted. The exceptions are named by history variables. `overtaken`: a
validation or read that was executed before the revocation and answered after
it puts the key back into the cache, and the code serves it. `unseen`: a use that is
marked while a flush of the same key is under way is deleted with the mark that
was written; that is the only use overlapping flushes lose.
`ExitRecorded` carries the second property over the end of the process: what
was used before the signal is in the collection when the process has exited,
in whatever order the database executes the flushes, unless the last one
failed. A use that is marked after the signal goes with the process, as does
one of a last flush that fails: these are in `unseen` as well.

**transactions.** A client is told of a transaction exactly if it touches what is
watched when the transformation ends (`SentIffWatched`); both formats carry
exactly the changes they should (`ChangesExact`), and these add up to what
the balances gained or lost (`DeltasAddUp`); the transfers of a transaction
agree on whose an account is (`HopsAgree`), and what the transaction says
itself needs no request to the node (`OwnBalancesSuffice`, for the first
transfer: a later one may find its entry evicted). The reference in these
properties is computed from the balances, not from the changes. `NativesExplain`
relates the two accounts of lamports that an enhanced event gives: what the
instructions are reported to transfer, with the fee, is what each balance is
reported to have gained or lost, up to the rounding of these numbers
(`RoundingOf`: half a unit for each number that belongs to the account, nothing
for numbers up to 2^53). Exact equality does not hold: above 2^53 each number is
rounded on its own, and the instance has transactions for which the sums differ.
The property does not hold, and is not claimed, for transactions with
`CreateAccountWithSeed`, which the code does not report although lamports move,
or in which another program moves lamports by itself. What the System program
does to the balances is said by `LedgerMoves`, independently of the code's
functions; TLC evaluates it for the transactions of the instance.

All type invariants are proved. Those of `Sessions`, `GrpcStreams`, `RingBuffer`,
`NodeHealth`, `ApiKeys`, `RateLimiter`, `Connection` and `Replay` are not checked
again by the runs; those of `ConfirmedBuffer` and `Transactions`, which hold the
bounds of the two caches, are.

### Bounds, and why they are enough

- *sessions*: two clients and two sockets give every conflict of one client
  with another and of two sockets over one client; a third would only repeat
  them. One tick of retention and of idleness distinguishes before, at and
  past each limit. The safety properties are proved for all values.
- *grpc*: `MaxAttempt` only caps the counter that a retry delay is computed
  from. Two items are enough for a filter that is too wide or too narrow.
- *bridge*: one socket for two clients makes them resume each other's sessions;
  the two streams do not read each other's state, so one label is enough.
- *ring_buffer*: capacity 4 with pushes, trims and clears in every order wraps
  the indices any number of times. The refinement is proved for all values.
- *replay*: `MaxTime` 3 with a retention of one unit lets an event be before,
  at and past the cutoff of two clients that left at different times;
  `MaxEmitted` 3 overflows the two places of the backlog.
- *confirmed*: three items of one slot, so that an entry can be flushed while
  the next one is filling, and two of another, so that two flushes with items
  left run at a time; a block cache of one, so that a block time is evicted.
- *timers*: timeouts shorter and longer than the intervals, latencies on
  both sides of each; no bound is needed, since what is due bounds the ages.
  A limit of 2 in a window of 3 with 5 messages, so that two windows are filled
  and one message is left to be dropped. Idle timeouts of 1, 3, 6 and 10 ticks
  with an interval between 2 and 4 ticks are on both sides of each clamp, and
  delays of 1, 3 and 6 on both sides of the premise. All but `FollowsNode` is
  proved for all values.
- *api_keys*: one key, because keys meet only in the cache, where one evicts
  another: `Evict` may do so at any time. Two requests in flight, because a
  race is between a reply and one write. Two flushes of the timer and the last
  one may overlap (`Intervals`); the theorems hold for any number.
- *transactions*: three transactions on three token accounts and a cache of two;
  an owner, a token account and a mint can be watched. Each transaction comes
  in once. The transactions without token transfers come alone (`Together`):
  nothing in their transformation waits, so they meet no other. There is one for
  each pair of instructions, one at the top and one in a call; a third would be
  reported like the second. `Exact` is 8 and the units 1, 2 and 4: amounts of 9
  and changes of 9 to 18 are rounded, some up and some down.

Deadlock is checked except in `api_keys`, where the process exits.

### Fairness

Only what the runtime guarantees is fair: timers fire, time goes on, a closing
socket gets its close event (the WebSocket library gives up on a silent peer
by itself), an await of the code ends with an answer, an error or a timeout,
and the health monitor repeats its verdict. None of the clients, the admin or
the node is ever assumed to do anything. `Reconnects` and
`WatchReachesStreams` need more: that the endpoint accepts a connection
sometime when it is asked again and again (strong fairness, `EndpointAccepts`
and `BridgeFairness`). A ping may fail to reach a stream any number of times, but
a stream that stays attached is reached sometime (`PingArrives`): one that takes
no write any more ends. `Delivered` needs that each transformation ends: it
waits for a request to the node, for which the code sets no limit of its own.

## Proofs

tlapm checks these for every value of the constants that satisfies the named
assumptions of the module.

**Sessions** (`RetentionAssumption`, `IdleAssumption`, `KindsAssumption`,
`NoneAssumption`). `TypeCorrect` is inductive by itself. `MapsAgree` is
inductive given the types: the step that matters is `AttachSession`, which
moves a socket from one session to another (lemma `AttachSessionMapsAgree`).
`NoTakeover`, `SocketKeyMatches`, `Coverage` and `NoStraySubscription` need both:
which session a handler changes is only known through the agreement of the
maps. For `Coverage` the proof shows that every action that adds a retained
session or widens a watchlist recomputes the union or puts the session into `late`,
and that ages only grow.

**RingBuffer** (`CapacityAssumption`, `TimesAssumption`,
`UndefinedAssumption`). The invariant is `TypeOK /\ LiveSlots`: without
`LiveSlots` the loop of `trimBefore` might stop at an empty slot and leave old
items, and the refinement would fail. The rest is arithmetic on `Slot` (lemmas
`ModOnce`, `SlotPlaces`, `SlotShift`). `RingBufferIsQueue` is the refinement
theorem: the initial states map, and each step maps to a step of the queue or
to a stutter.

**NodeHealth** (`ConfigAssumption`). `Fresh` is not inductive; it needs to know
how far the current round is. `Accounted` says so: with a timer pending,
staleness and the rest of the timer fit one interval; with a check in flight,
staleness fits one interval and the age of the check; `InTime` bounds that age.
A change of the interval between two rounds is harmless because it happens at
a verdict, where staleness is 0. `Tuned` needs that the interval is never
shorter than the timeout (`LongEnough`): only then does a setter that returns
early, because its own value is set already, leave nothing to be done
(`TuningFact`). That a started monitor has always a timer or a check pending
(`NeverStalled`) follows from `Accounted` as well.

**GrpcStreams** (`MaxAttemptAssumption`). `AttachedIsWatched` is inductive given
the types. The steps that matter are the ends of a connection
(`NextRoundType`): they clear the field in the turn in which the loop leaves its
await. `OnlyWritesAttachLate` goes by cases on what a continuation of a loop and what a
verdict or a change of the subscription assign (`LoopStepLate`, `VerdictLate`).
This narrows down what the run `grpc_unwanted` shows.

**Bridge.** `BridgeRefinesGrpc`: every step of the bridge is a step of
`GrpcStreams` or leaves it alone. What a session step does to the streams is
`UpdateSubscriptions` with the new union or nothing, because the union only
changes where the code calls it (lemma `QuietUnion`); that the streams can be
asked for the new union follows from the type invariant of `Sessions`.
`BridgeRefinesSessions` is the other half; with it the
theorems of `Sessions` hold of the bridge. The theorems of `GrpcStreams` hold of it
too (`BridgeStreamsSafe`): `BridgeProofs` instantiates `GrpcStreamsProofs` under
`StreamsAssumption`, and `SameStreams` says that this instance and the one in `Bridge`
are the same specification. Two theorems need both halves. `BridgeServes`: a stream
that is up to date with the subscription has everything in its filter that a
connected client (not in `late`) watches, and nothing that no session watches; it follows from
`Coverage` and `NoStraySubscription`. `UnwatchedNotStreamed`: while no session watches
anything, no stream comes to count but by a first write that was under way;
it follows from `NoStraySubscription` and `OnlyLateAttach`.

**ApiKeys** (`MaxTimeAssumption`, `IdleAssumption`, `IntervalsAssumption`). `RevokedOut` needs to know why
nothing lets the key in again: the document of a revoked key is not active
(`RevokedInactive`), a reply that is not outdated says the same, and a key
that is being created has no history (`CreatesNew`, `NoneUnknown`).
`UseRecorded` needs that marks, pending or in a flush, are of the *last* use
(`MarksExact`): then dropping a mark that was written loses nothing. Runs use
one key and two flushes of the timer; the theorems hold for any number of both.

`ExitRecorded` needs to know what the database may still do after the process
(`FlushedLast`): while the last flush is under way, a use that it does not write
is in the collection already, and once the store is closed every use is. A
flush of the timer that is executed later writes the same time again, by `MarksExact`.

**Timers** (`LimiterAssumption`, `ConnectionAssumption`). `AtMostTwice` splits what
was handled lately in two: the messages of the present window, which its counter
bounds, and what is left of earlier ones, which is less than the limit because
the message that opened the last of them is too old by now (`DuringWindow`,
`AfterWindow`); the rest is arithmetic on cardinalities of finite sets.
`DroppedOnlyAtLimit` adds that a message is only dropped in a full window
(`DropsInFullWindow`). `ResponsiveKept` needs that a ping is under way whenever
the client has been quiet for an interval (`HeardOf`) and that it is not older
than the delay (`OnTime`); `SilentGone` that idleness and the rest of the interval
fit together (`Bounded`).

**Replay** (`RetentionAssumption`, `BoundsAssumption`). `InOrderOnce` needs that the
backlog is sorted (`QueueFits`) and that what an absent client has was broadcast no
later than its close (`ReceivedFits`): a replay then only adds younger events, once
each. `ResumeExact` is an action property of the step that attaches a session.
That nothing is missing rests on `NothingMissing`: the backlog still has every event that somebody
who may resume misses, as far as its capacity goes. Three things could break it: a
push over the limit drops the oldest item, which is why `QueueFits` also counts how
much room is behind each item; a trim drops what is older than the retention, but the
close of whoever may still resume is not; and the backlog is cleared
only when no retained session is away. That nothing more is sent rests on `QueueFits` as well: the backlog is a
gap-free run of the newest events (`BacklogNewest`), so what it holds from after
the close is what there is. `NothingKept` covers the configurations without
retention or without capacity.
`AwayFits` and `ClockFits` keep the time stamps in order.

**ConfirmedBuffer** (`UpdatesAssumption`, `SlotsAssumption`, `BlocksAssumption`).
`Conserved` is not inductive. Two flushes run at a time and each goes on while the
entry of its slot fills again, so the invariant has to say that a message is in no
entry and a flush at once (`TasksFit`), in no two flushes (`TasksApart`), and that
none is anywhere twice or nowhere (`EntriesFit`, `NoneLost`). The counter follows
(`Counted`): a flush takes off as many as its entry has messages, because the entry
has none twice. `EntryOrder` needs `StillBehind`: of two messages that were in one
entry, the first is concluded or still in front of the second. `BlocksFit` is the
bound of the block cache; evicting the lowest slots leaves `MaxBlocks` at most.

`BufferImplementsOutbox` is the refinement of `Outbox`: a data event is an arrival
behind what is in the entry of its slot (`DataArrives`), the emission of the next
item settles it (`EmittedSettles`, which needs `StillBehind` for the guard of the
outbox), and every other step, flushes and timers included, is a stutter.

**Transactions** (`CacheAssumption`, `WatchableAssumption`, `NumberAssumption`, `TxAssumption`). What is
assumed of a transaction is what the ledger grants: account indices in range, no
account listed twice, one balance for an account and a mint. Nothing is assumed
of the amounts, of what the instructions do (except by `NativesAlwaysExplain`)
or of the answers of the node. The invariant
(`IInv`) has four parts.

- `CacheFits`: no account has two entries and there are `CacheSize` at most. What a
  refresh or an insertion uses goes to the end of the list and evictions come from
  its front, so after `populateFromTokenBalances` the accounts it named are at the
  end (`PopulatedFacts`); if they fit the cache, they are all in it
  (`OwnBalancesSuffice`).
- `JobsFit`: every transfer says what the lookups of its job say (`Explained`), and a
  settled lookup is never replaced (`LookedUp`): hence `HopsAgree`.
- `SentFits`: what was sent is the payload of a transaction and some transfers, under
  the options of that moment; the options change in a step that sends nothing.
- the types.

`SentIffWatched` and `ChangesExact` then say that two computations agree: the
code's, over one entry per index and mint, and the reference's, which sums up
balances (`MovedIffChanged`, `KeptIfConcerned`, `MatchesIfInteresting`). `DeltasAddUp` is a
fact about sums: two lists with the same numbers under the same keys have the
same sum, whatever their order (`SameSum`), the balances that did not move cancel
out (`StillTheSame`), and the rest is the list of changes (`MovedListed`).

`NativesAlwaysExplain` has a hypothesis, `LedgerMoves`: the balances change by what the
instructions of the System program move, each together with those it called, and
by the fee, and all of these are numbers of 64 bits (`IsLamports`). It is stated about the raw transaction, by program, kind and place of
the receiver, without the functions the code decides with; the theorem says
that the code's flattened list, what it takes for a transfer and whom it takes
for the recipient come to the same, but for what the doubles round. The steps: a
number is half a unit from what it reports at most (`NumberNear`; `LeastExists`
provides the unit), and such distances add up (`NearSum`); the loop of
`deriveNativeTransfers` adds to both sides alike, and to what may be rounded
(`NativesAdd`, with `SoundFacts` for one instruction); and what a flattened list
moves is the sum of what its families move (`GainsFlattened`,
`NativesOfFamilies`).

Loops of the code (`replayBacklog`, `populateFromTokenBalances`, `flattenInstructions`,
`deriveNativeTransfers`, the sums of the reference) are functions defined by recursion on the number of rounds.
`LoopExists` and `SummedFacts` show that such a function exists and obeys its
equation; what holds after every round is proved by looking at the least round after
which it does not (`SetInduction`), over a set instead of a predicate.

The invariants of `Replay`, `ConfirmedBuffer` and `Transactions` were checked by TLC on their instances as
well (`SentFits` with the transfers of the payload, TLC cannot search for them).

Only model-checked: liveness (`SilentDropped`, `SubscriptionDrains`, `FilterConverges`,
`UnhealthyQuiet`, `Reconnects`, `WatchReachesStreams`, `Delivered`, `FollowsNode`), which is
out of the prover's reach, as is anything about ENABLED: that deadlock is absent
is TLC's result as well. What stays an assumption is what is not in the code:
`LedgerMoves` and `TxAssumption` about the ledger, and the fairness above.

## Disagreements with the documents

| run | the code | the document |
|---|---|---|
| `sessions_lapsed` | a lapsed session can be resumed without being subscribed | `README.md` on resuming |
| `grpc_unwanted` | a stream opened while the last watcher leaves stays open | `README.md` on dropping subscriptions |
| `replay_closing` | events of the closing phase are lost | `README.md` on missed transactions |

One more has no run of its own: an event that is broadcast in the millisecond in which
a session's close is recorded, after the close, is not sent, and the replay begins
after that millisecond (`BridgeServer.ts` 1317), so that the client misses it.
`ResumeExact` states what is replayed with this exception; the document is `README.md` on
missed transactions again.

## Not modelled

- `utils/stats.ts`: counters, ages and log lines, which nothing reads but the
  metrics page.
- Decoding: base58, little-endian amounts, public keys, hashing and generation of
  keys. A module has the decoded value.
- `env.ts`, `types.ts` and the construction of the parts in `index.ts`: no behaviour
  beyond the constants of the modules.
- The shared promise of `ensureConnected`: its one caller is awaited once.
- Metrics snapshots, the admin page, log lines, the example clients.

## State of the project

The component modules, their runs, and proofs of every safety property, invariant
or action property, that the runs check, are done; what is left to TLC is named at the
end of *Proofs*.

Worth adding if the code changes there: statistics, once anything but a page
reads them; the cached owner of a token account, once an entry can expire or be
replaced (today the first answer stays, so no property can demand a fresh one); a
second connected client in `Transactions`, once sessions share options.
