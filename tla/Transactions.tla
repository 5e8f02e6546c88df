----------------------------- MODULE Transactions -----------------------------
(***************************************************************************)
(* What a client is told of a transaction: the transformation of the       *)
(* message, which may wait for the owners of token accounts, the selection *)
(* by the client's watchlists and the two formats of the payload.          *)
(*                                                                         *)
(* One connected client is enough: the sessions share nothing but the      *)
(* transformed event.  Amounts are integers and an instruction is what its *)
(* data decodes to: a kind and an amount.  Lamports are reported as        *)
(* doubles, with what that rounds.  Decimals, logs, the instructions       *)
(* themselves and the options that only leave such a field out are not in  *)
(* the payload.                                                            *)
(***************************************************************************)
EXTENDS Integers, FiniteSets, SequencesExt

CONSTANTS
    Messages,           \* the transactions: what the endpoint sends for each signature
    Together,           \* bound: those of them that come in in one behaviour
    WatchableAccounts,  \* the addresses the client may watch as accounts
    WatchableMints,     \* and those it may watch as mints
    Found,              \* what the node may know of each token account
    CacheSize,          \* maxSize of the token account cache
    Exact,              \* 2^53: a double has every integer up to it
    Units,              \* 1, 2, 4 ... 2^11: the units of larger ones, up to 2^64
    None                \* undefined

ASSUME CacheAssumption     == CacheSize \in Nat
ASSUME WatchableAssumption == None \notin WatchableAccounts
ASSUME NumberAssumption    == Exact \in Nat /\ Units \subseteq Nat \ {0}

\* A transaction is known by its signature.  Its message: accounts, the fee payer
\* first; token balances pre and post, lamports before and after; the fee;
\* instructions, and the inner ones, if any, in groups with the index of the
\* instruction they belong to.  handleStreamData makes the raw transaction of it.
Txs == DOMAIN Messages
Raw == [tx \in Txs |-> [Messages[tx] EXCEPT !.inner = IF @ = None THEN <<>> ELSE @]]
IsList(l) == l \in Seq(Range(l))
\* The ledger lists an account of a transaction once, and its balance of a mint.
ASSUME TxAssumption ==
    /\ Together \subseteq Txs
    /\ \A tx \in Txs :
          /\ IsList(Raw[tx].accounts) /\ IsInjective(Raw[tx].accounts)
          /\ \A balances \in {Raw[tx].pre, Raw[tx].post} :
                /\ IsList(balances)
                /\ \A b \in Range(balances) : b.index \in DOMAIN Raw[tx].accounts /\ b.amount \in Nat
                /\ \A i, k \in DOMAIN balances :
                      <<balances[i].index, balances[i].mint>> = <<balances[k].index, balances[k].mint>>
                      => i = k
          /\ IsList(Raw[tx].instructions) /\ IsList(Raw[tx].inner)
          /\ \A group \in Range(Raw[tx].inner) :
                group.index \in DOMAIN Raw[tx].instructions /\ IsList(group.instructions)

VARIABLES
    watchAccounts,  \* session.watchAccounts
    watchMints,     \* session.watchMints
    options,        \* session.options
    cache,          \* TokenAccountCache: its entries, least recently used first
    jobs,           \* the transformations under way, per transaction
    sent,           \* the payloads the last step sent to the client: one at most
    arrived         \* the transactions that came in: each comes in once

sessionVars == <<watchAccounts, watchMints, options>>
vars == <<watchAccounts, watchMints, options, cache, jobs, sent, arrived>>

SYSTEM_PROGRAM_ID == "system"
TokenPrograms == {"token", "token2022"}

TokenAccounts == DOMAIN Found
Options == [eventFormat : {"raw", "enhanced"},
            includeTokenBalanceChanges : BOOLEAN, filterTokenBalances : BOOLEAN]

Holds(entries, account) == \E e \in Range(entries) : e.account = account
PlaceOf(entries, account) == CHOOSE i \in DOMAIN entries : entries[i].account = account
InfoIn(entries, account) == entries[PlaceOf(entries, account)]

\* The function f after f.set(x, y).
Bound(f, x, y) == [z \in DOMAIN f \cup {x} |-> IF z = x THEN y ELSE f[z]]

-----------------------------------------------------------------------------
(* Number(n) of a bigint: the nearest double, of two the even one.         *)

Size(n) == IF n < 0 THEN -n ELSE n

\* Doubles of the size of n are a unit apart.
Unit(n) == CHOOSE u \in Units : /\ Size(n) <= Exact * u
                                /\ \A v \in Units : Size(n) <= Exact * v => u <= v

Nearest(n, u) ==
    LET below == n - (n % u)
    IN  IF \/ 2 * (n % u) < u
           \/ 2 * (n % u) = u /\ below % (2 * u) = 0
        THEN below ELSE below + u

Number(n) == IF n < 0 THEN -Nearest(-n, Unit(n)) ELSE Nearest(n, Unit(n))

-----------------------------------------------------------------------------
(* Instructions, and the transfers they stand for.                         *)

\* accountKeys[index] ?? ''.
Key(tx, index) == IF index \in DOMAIN Raw[tx].accounts THEN Raw[tx].accounts[index] ELSE ""
Decoded(tx, ix) ==
    [ix EXCEPT !.program = Key(tx, ix.program),
               !.accounts = [i \in DOMAIN ix.accounts |-> Key(tx, ix.accounts[i])]]

\* innerInstructionsMap: of two groups with one index the later one counts.
InnerOf(tx, index) ==
    LET groups == {g \in DOMAIN Raw[tx].inner : Raw[tx].inner[g].index = index}
    IN  IF groups = {} THEN <<>> ELSE Raw[tx].inner[Max(groups)].instructions

\* parseInstructions: an instruction, then its inner ones.
Family(tx, i) ==
    LET all == <<Raw[tx].instructions[i]>> \o InnerOf(tx, i)
    IN  [k \in DOMAIN all |-> Decoded(tx, all[k])]

\* flattenInstructions.
Instructions == [tx \in Txs |->
    FlattenSeq([i \in DOMAIN Raw[tx].instructions |-> Family(tx, i)])]

\* Mutant: the recipient always comes second.
SecondAccount(kind) == 2

\* The base account comes second when the sender is derived from a seed.
Recipient(kind) == IF kind = "TransferWithSeed" THEN 3 ELSE 2

\* parseSystemInstruction does not return null; an amount the data is too short for
\* is None.
IsNativeTransfer(ix) ==
    /\ ix.program = SYSTEM_PROGRAM_ID
    /\ ix.kind \in {"Transfer", "CreateAccount", "WithdrawNonceAccount", "TransferWithSeed"}
    /\ ix.amount # None
    /\ Len(ix.accounts) >= Recipient(ix.kind)

\* deriveNativeTransfers: the transfers after each of the instructions.
ParsedNative(ix) ==
    [from |-> ix.accounts[1], to |-> ix.accounts[Recipient(ix.kind)], amount |-> Number(ix.amount)]
NativesOf(ixs) ==
    LET transfers[i \in 0 .. Len(ixs)] ==
            IF i = 0 THEN <<>>
            ELSE IF IsNativeTransfer(ixs[i]) THEN Append(transfers[i - 1], ParsedNative(ixs[i]))
            ELSE transfers[i - 1]
    IN  transfers[Len(ixs)]
NativeTransfers == [tx \in Txs |-> NativesOf(Instructions[tx])]

\* parseTokenTransferInstruction does not return null.
IsTokenTransfer(ix) ==
    /\ ix.program \in TokenPrograms
    /\ ix.amount # None
    /\ \/ ix.kind = "Transfer" /\ Len(ix.accounts) >= 3
       \/ ix.kind = "TransferChecked" /\ Len(ix.accounts) >= 4

\* The list pending of buildTokenTransfers: only TransferChecked names the mint.
TokenTransfers == [tx \in Txs |->
    LET found == SelectSeq(Instructions[tx], IsTokenTransfer)
        Parsed(a, kind) ==
            IF kind = "Transfer"
            THEN [from |-> a[1], to |-> a[2], authority |-> a[3], mint |-> None]
            ELSE [from |-> a[1], to |-> a[3], authority |-> a[4], mint |-> a[2]]
    IN  [i \in DOMAIN found |-> Parsed(found[i].accounts, found[i].kind)]]

-----------------------------------------------------------------------------
(* Types and the initial state.                                            *)

TypeOK ==
    /\ watchAccounts \subseteq WatchableAccounts /\ watchMints \subseteq WatchableMints
    /\ options \in Options
    /\ Len(cache) <= CacheSize
    /\ \A i, k \in DOMAIN cache : cache[i].account = cache[k].account => i = k
    /\ DOMAIN jobs \subseteq arrived /\ arrived \subseteq Txs
    /\ \A tx \in DOMAIN jobs :
          /\ jobs[tx].waiting \cap DOMAIN jobs[tx].looked = {}
          /\ DOMAIN jobs[tx].transfers \subseteq DOMAIN TokenTransfers[tx]
    /\ \A payload \in sent : payload.tx \in Txs /\ payload.format \in {"raw", "enhanced"}

Init ==
    /\ watchAccounts = {} /\ watchMints = {}
    /\ options = [eventFormat |-> "raw", includeTokenBalanceChanges |-> TRUE,
                  filterTokenBalances |-> FALSE]
    /\ cache = <<>>
    /\ jobs = [tx \in {} |-> None]
    /\ sent = {}
    /\ arrived = {}

-----------------------------------------------------------------------------
(* Token balance changes and what the watchlists select.                   *)

\* The keys of byIndexMint.
BalanceKeys(tx) == {<<b.index, b.mint>> : b \in Range(Raw[tx].pre) \cup Range(Raw[tx].post)}

At(balances, key) == {b \in Range(balances) : <<b.index, b.mint>> = key}
AmountAt(balances, key) ==
    IF At(balances, key) = {} THEN 0 ELSE (CHOOSE b \in At(balances, key) : TRUE).amount
OwnerAt(balances, key) ==
    IF At(balances, key) = {} THEN None ELSE (CHOOSE b \in At(balances, key) : TRUE).owner

\* Mutant: an amount that is missing afterwards makes no difference.
DeltaIfKept(tx, key) ==
    IF At(Raw[tx].post, key) = {} THEN 0 ELSE AmountAt(Raw[tx].post, key) - AmountAt(Raw[tx].pre, key)

Delta(tx, key) == AmountAt(Raw[tx].post, key) - AmountAt(Raw[tx].pre, key)

\* extractTokenBalanceChanges: one entry per account and mint whose amount
\* differs; an account that was not there before, or is not there afterwards,
\* had, or has, nothing.  The owner afterwards wins over the one before.
TokenBalanceChanges(tx) ==
    {[account |-> Raw[tx].accounts[key[1]], mint |-> key[2],
      owner |-> IF OwnerAt(Raw[tx].post, key) # None THEN OwnerAt(Raw[tx].post, key)
                ELSE OwnerAt(Raw[tx].pre, key),
      delta |-> Delta(tx, key)] :
        key \in {k \in BalanceKeys(tx) : AmountAt(Raw[tx].pre, k) # AmountAt(Raw[tx].post, k)}}

\* filterTokenBalanceChanges.
FilterChanges(changes) ==
    {c \in changes : \/ c.account \in watchAccounts
                     \/ c.owner \in watchAccounts
                     \/ c.mint \in watchMints}

\* Mutant: a mint is looked for among the changes only.
MatchesChanges(tx) ==
    \/ Range(Raw[tx].accounts) \cap watchAccounts # {}
    \/ FilterChanges(TokenBalanceChanges(tx)) # {}

MatchesWatchlist(tx) ==
    \/ Range(Raw[tx].accounts) \cap (watchAccounts \cup watchMints) # {}
    \/ FilterChanges(TokenBalanceChanges(tx)) # {}

\* buildAccountData: what happened to each account.
NativeBalanceChange(tx, i) ==
    LET Lamports(balances) == IF i \in DOMAIN balances THEN balances[i] ELSE 0
    IN  Number(Lamports(Raw[tx].after) - Lamports(Raw[tx].before))
AccountData(tx) ==
    [a \in Range(Raw[tx].accounts) |->
        [native |-> NativeBalanceChange(tx, CHOOSE i \in DOMAIN Raw[tx].accounts : Raw[tx].accounts[i] = a),
         changes |-> {c \in TokenBalanceChanges(tx) : c.account = a}]]

WithoutChanges(data) == [a \in DOMAIN data |-> [data[a] EXCEPT !.changes = {}]]

\* Mutant: the owner of a token account does not count in the enhanced format.
FilterByAccount(data) ==
    [a \in DOMAIN data |-> [data[a] EXCEPT !.changes =
        {c \in @ : c.account \in watchAccounts \/ c.mint \in watchMints}]]

FilterAccountData(data) ==
    [a \in DOMAIN data |-> [data[a] EXCEPT !.changes =
        {c \in @ : \/ c.account \in watchAccounts
                   \/ c.owner \in watchAccounts
                   \/ c.mint \in watchMints}]]

\* prepareTransactionForSession, for a transaction that matches.
RawPayload(tx) ==
    [tx |-> tx, format |-> "raw",
     changes |-> IF ~options.includeTokenBalanceChanges THEN {}
                 ELSE IF options.filterTokenBalances THEN FilterChanges(TokenBalanceChanges(tx))
                 ELSE TokenBalanceChanges(tx)]

EnhancedPayload(tx, transfers) ==
    [tx |-> tx, format |-> "enhanced",
     fee |-> Number(Raw[tx].fee),
     natives |-> NativeTransfers[tx],
     transfers |-> IF options.includeTokenBalanceChanges THEN transfers ELSE <<>>,
     data |-> IF ~options.includeTokenBalanceChanges
              THEN WithoutChanges(AccountData(tx))
              ELSE IF options.filterTokenBalances THEN FilterAccountData(AccountData(tx))
              ELSE AccountData(tx)]

Payload(tx, transfers) ==
    IF options.eventFormat = "raw" THEN RawPayload(tx) ELSE EnhancedPayload(tx, transfers)

-----------------------------------------------------------------------------
(* The token account cache.                                                *)

\* Mutant: nothing is evicted.
EvictNothing(entries) == entries

\* evictIfNeeded: an entry was added, so one at most is too many.
Evicted(entries) == IF Len(entries) > CacheSize THEN Tail(entries) ELSE entries

\* cache.delete.
Without(entries, account) ==
    IF Holds(entries, account) THEN RemoveAt(entries, PlaceOf(entries, account)) ELSE entries

\* set.
Put(entries, entry) == Evicted(Append(Without(entries, entry.account), entry))

\* Mutant: an entry that is used does not get younger.
LeftInPlace(entries, account) == entries

\* get: the entry becomes the most recently used one.
Refreshed(entries, account) ==
    Append(Without(entries, account), InfoIn(entries, account))

\* populateFromTokenBalances for one balance: what is cached already is not
\* overwritten.
Add(entries, b, accounts) ==
    IF b.owner = None THEN entries
    ELSE IF Holds(entries, accounts[b.index]) THEN Refreshed(entries, accounts[b.index])
    ELSE Put(entries, [account |-> accounts[b.index], mint |-> b.mint, owner |-> b.owner])

\* Its loop: the cache after each of the balances.
Populated(entries, balances, accounts) ==
    LET known[i \in 0 .. Len(balances)] ==
            IF i = 0 THEN entries ELSE Add(known[i - 1], balances[i], accounts)
    IN  known[Len(balances)]

-----------------------------------------------------------------------------
(* The transformation.  A job is the state of one buildTokenTransfers:     *)
(* looked is its lookupCache of settled lookups, waiting the accounts the  *)
(* node was asked for, transfers the ones built so far.                    *)

\* The state of the lookups of one job: getInfo(account).
\* Mutant: the transaction keeps no lookups of its own.
LookUpAgain(state, account) ==
    IF Holds(state.cache, account)
    THEN [state EXCEPT !.cache = Refreshed(@, account),
                       !.looked = Bound(@, account, InfoIn(state.cache, account)),
                       !.waiting = @ \ {account}]
    ELSE [state EXCEPT !.looked = [a \in DOMAIN @ \ {account} |-> @[a]],
                       !.waiting = @ \cup {account}]

LookUp(state, account) ==
    IF account \in DOMAIN state.looked \cup state.waiting THEN state
    ELSE IF Holds(state.cache, account)
    THEN [state EXCEPT !.cache = Refreshed(@, account),
                       !.looked = Bound(@, account, InfoIn(state.cache, account))]
    ELSE [state EXCEPT !.waiting = @ \cup {account}]

\* The loop of buildTokenTransfers up to its await: the accounts of the next
\* transfer are looked up, if there is one.
ToAwait(entries, tx, job) ==
    LET next  == Len(job.transfers) + 1
        state == [cache |-> entries, looked |-> job.looked, waiting |-> job.waiting]
    IN  IF next \notin DOMAIN TokenTransfers[tx] THEN state
        ELSE LookUp(LookUp(state, TokenTransfers[tx][next].from), TokenTransfers[tx][next].to)

Resumes(tx, job, state) ==
    /\ cache' = state.cache
    /\ jobs' = Bound(jobs, tx, [job EXCEPT !.looked = state.looked, !.waiting = state.waiting])

NewJob == [looked |-> [a \in {} |-> None], waiting |-> {}, transfers |-> <<>>]

\* emitTransaction and transformTransaction, up to the first await.
Arrive(tx) ==
    LET known == Populated(Populated(cache, Raw[tx].pre, Raw[tx].accounts), Raw[tx].post, Raw[tx].accounts) IN
    /\ tx \notin arrived
    /\ arrived = {} \/ arrived \cup {tx} \subseteq Together
    /\ arrived' = arrived \cup {tx}
    /\ Resumes(tx, NewJob, ToAwait(known, tx, NewJob))
    /\ sent' = {}
    /\ UNCHANGED sessionVars

\* fetchFromRpc: what the node knows, None for a failure, for an account that is
\* no token account, and without a node to ask.
Known(account) == Found[account] \cup {None}

\* getOrFetch, once the node answered.
Fetched(tx, account, info) ==
    /\ account \in jobs[tx].waiting
    /\ cache' = IF info = None THEN cache ELSE Put(cache, info)
    /\ jobs' = [jobs EXCEPT ![tx].waiting = @ \ {account},
                            ![tx].looked = Bound(@, account, info)]
    /\ sent' = {}
    /\ UNCHANGED <<sessionVars, arrived>>

\* A transfer, once the two lookups of its accounts are settled.
Built(t, looked) ==
    LET from == looked[t.from]
        to   == looked[t.to]
    IN  [from |-> t.from, to |-> t.to,
         fromUser |-> IF from # None THEN from.owner ELSE t.authority,
         toUser |-> IF to # None THEN to.owner ELSE None,
         mint |-> IF t.mint # None THEN t.mint
                  ELSE IF from # None THEN from.mint
                  ELSE IF to # None THEN to.mint ELSE None]

\* The continuation of the loop: the transfer is pushed, the next one begun.
PushTransfer(tx) ==
    LET job  == jobs[tx]
        next == Len(job.transfers) + 1
        t    == TokenTransfers[tx][next]
        more == [job EXCEPT !.transfers = Append(@, Built(t, job.looked))]
    IN  /\ next \in DOMAIN TokenTransfers[tx]
        /\ {t.from, t.to} \subseteq DOMAIN job.looked
        /\ Resumes(tx, more, ToAwait(cache, tx, more))
        /\ sent' = {}
        /\ UNCHANGED <<sessionVars, arrived>>

\* emitTransaction, once transformTransaction is done: broadcastTransaction.
Broadcast(tx) ==
    /\ Len(jobs[tx].transfers) + 1 \notin DOMAIN TokenTransfers[tx]
    /\ sent' = IF MatchesWatchlist(tx) THEN {Payload(tx, jobs[tx].transfers)} ELSE {}
    /\ jobs' = [t \in DOMAIN jobs \ {tx} |-> jobs[t]]
    /\ UNCHANGED <<sessionVars, cache, arrived>>

-----------------------------------------------------------------------------
(* The client.                                                             *)

\* setAccounts and setMints, and what add and remove messages come to.
WatchAccounts(accounts) ==
    /\ watchAccounts' = accounts
    /\ sent' = {}
    /\ UNCHANGED <<watchMints, options, cache, jobs, arrived>>

WatchMints(mints) ==
    /\ watchMints' = mints
    /\ sent' = {}
    /\ UNCHANGED <<watchAccounts, options, cache, jobs, arrived>>

\* setOptions: updateClientOptions.
UpdateClientOptions(chosen) ==
    /\ options' = chosen
    /\ sent' = {}
    /\ UNCHANGED <<watchAccounts, watchMints, cache, jobs, arrived>>

Next ==
    \/ \E tx \in Txs : Arrive(tx)
    \/ \E tx \in DOMAIN jobs : \E a \in TokenAccounts :
          \E info \in Known(a) : Fetched(tx, a, info)
    \/ \E tx \in DOMAIN jobs : PushTransfer(tx)
    \/ \E tx \in DOMAIN jobs : Broadcast(tx)
    \/ \E accounts \in SUBSET WatchableAccounts : WatchAccounts(accounts)
    \/ \E mints \in SUBSET WatchableMints : WatchMints(mints)
    \/ \E chosen \in Options : UpdateClientOptions(chosen)

Spec == Init /\ [][Next]_vars

-----------------------------------------------------------------------------
(* Properties.                                                             *)

Summed(numbers) ==
    LET sum[i \in 0 .. Len(numbers)] == IF i = 0 THEN 0 ELSE sum[i - 1] + numbers[i]
    IN  sum[Len(numbers)]

Total(balances, mint) ==
    Summed([i \in DOMAIN balances |-> IF balances[i].mint = mint THEN balances[i].amount ELSE 0])
TotalDelta(changes, mint) ==
    LET list == SetToSeq(changes)
    IN  Summed([i \in DOMAIN list |-> IF list[i].mint = mint THEN list[i].delta ELSE 0])
MintsOf(tx) == {b.mint : b \in Range(Raw[tx].pre) \cup Range(Raw[tx].post)}

\* The changes in a payload, in either format.
ChangesIn(payload) == IF payload.format = "raw" THEN payload.changes
                      ELSE UNION {payload.data[a].changes : a \in DOMAIN payload.data}

\* What a watched address has to do with a balance that moved: it is the token
\* account, its owner (the last one known) or the mint.
IsOf(tx, b, account, mint) == Raw[tx].accounts[b.index] = account /\ b.mint = mint
Holding(tx, balances, account, mint) ==
    Summed([i \in DOMAIN balances |->
               IF IsOf(tx, balances[i], account, mint) THEN balances[i].amount ELSE 0])
Moved(tx, account, mint) ==
    Holding(tx, Raw[tx].pre, account, mint) # Holding(tx, Raw[tx].post, account, mint)
Owners(tx, balances, account, mint) ==
    {b.owner : b \in {l \in Range(balances) : IsOf(tx, l, account, mint)}} \ {None}
LastOwners(tx, account, mint) ==
    LET after == Owners(tx, Raw[tx].post, account, mint)
    IN  IF after # {} THEN after ELSE Owners(tx, Raw[tx].pre, account, mint)
Concerns(tx, account, mint) ==
    \/ account \in watchAccounts
    \/ mint \in watchMints
    \/ LastOwners(tx, account, mint) \cap watchAccounts # {}
Interesting(tx) ==
    \/ \E a \in Range(Raw[tx].accounts) : a \in watchAccounts \/ a \in watchMints
    \/ \E a \in Range(Raw[tx].accounts), m \in MintsOf(tx) : Moved(tx, a, m) /\ Concerns(tx, a, m)

\* "Changes apply immediately": when the transformation of a transaction ends,
\* the client is told of it exactly if it touches what the client watches then,
\* whatever it watched when the transaction came in.
SentIffWatched ==
    [][\A tx \in DOMAIN jobs \ DOMAIN jobs' : (sent' # {}) <=> Interesting(tx)]_vars

\* Both formats carry the same changes: none, those of every balance that moved
\* or, filtered, those that concern the watchlists; and never one twice.
ChangesExact ==
    \A payload \in sent :
        LET tx == payload.tx IN
        {<<c.account, c.mint>> : c \in ChangesIn(payload)} =
            {pair \in Range(Raw[tx].accounts) \X MintsOf(tx) :
                /\ options.includeTokenBalanceChanges
                /\ Moved(tx, pair[1], pair[2])
                /\ options.filterTokenBalances => Concerns(tx, pair[1], pair[2])}

\* The deltas a client gets add up: over all changes of a mint they are what its
\* balances gained or lost, accounts that appear or are closed included.
DeltasAddUp ==
    options.includeTokenBalanceChanges /\ ~options.filterTokenBalances =>
        \A payload \in sent : \A m \in MintsOf(payload.tx) :
            TotalDelta(ChangesIn(payload), m) =
                Total(Raw[payload.tx].post, m) - Total(Raw[payload.tx].pre, m)

\* What moves lamports (external): the System program takes them from the first
\* account of an instruction and gives them to its second, or to its third if the
\* sender is derived from a seed; an instruction that lacks one of these fails.
MovesLamports(ix) ==
    /\ ix.program = SYSTEM_PROGRAM_ID
    /\ ix.kind \in {"Transfer", "CreateAccount", "WithdrawNonceAccount", "TransferWithSeed"}
Receiver(ix) == IF ix.kind = "TransferWithSeed" THEN 3 ELSE 2
Gained(ix, account) ==
    IF MovesLamports(ix)
    THEN (IF ix.accounts[Receiver(ix)] = account THEN ix.amount ELSE 0)
         - (IF ix.accounts[1] = account THEN ix.amount ELSE 0)
    ELSE 0
GainedBy(ixs, account) == Summed([k \in DOMAIN ixs |-> Gained(ixs[k], account)])

\* Lamports that move otherwise: into accounts that the System program creates
\* from a seed, and by other programs, as the token program when it closes an account.
MovesOtherwise(ix) == ix.kind \in {"CreateAccountWithSeed", "CloseAccount"}
OnlyTransfers(tx) == \A ix \in Range(Instructions[tx]) : ~MovesOtherwise(ix)

\* A u64.
IsLamports(n) == n \in Nat /\ \E u \in Units : n <= Exact * u

\* What the ledger makes of the balances of a transaction (external): they change by
\* what its instructions, each with those it called, move, and by the fee.
LedgerMoves ==
    \A tx \in Txs : OnlyTransfers(tx) =>
        /\ IsLamports(Raw[tx].fee)
        /\ \A balances \in {Raw[tx].before, Raw[tx].after} :
              /\ DOMAIN balances = DOMAIN Raw[tx].accounts
              /\ \A n \in DOMAIN balances : IsLamports(balances[n])
        /\ \A i \in DOMAIN Raw[tx].instructions : \A ix \in Range(Family(tx, i)) :
              MovesLamports(ix) =>
                  IsLamports(ix.amount) /\ ix.amount # None /\ Len(ix.accounts) >= Receiver(ix)
        /\ \A n \in DOMAIN Raw[tx].accounts :
              Raw[tx].after[n] - Raw[tx].before[n] =
                  Summed([i \in DOMAIN Raw[tx].instructions |->
                             GainedBy(Family(tx, i), Raw[tx].accounts[n])])
                  - (IF n = 1 THEN Raw[tx].fee ELSE 0)

\* What the doubles may be off: half a unit for each number reported of an account,
\* nothing for one up to Exact.
Rounding(n) == Unit(n) \div 2
RoundingIn(ix, account) ==
    IF MovesLamports(ix)
    THEN (IF ix.accounts[Receiver(ix)] = account THEN Rounding(ix.amount) ELSE 0)
         + (IF ix.accounts[1] = account THEN Rounding(ix.amount) ELSE 0)
    ELSE 0
RoundingBy(ixs, account) == Summed([k \in DOMAIN ixs |-> RoundingIn(ixs[k], account)])
RoundingOf(tx, n) ==
    RoundingBy(Instructions[tx], Raw[tx].accounts[n])
    + Rounding(Raw[tx].after[n] - Raw[tx].before[n])
    + (IF n = 1 THEN Rounding(Raw[tx].fee) ELSE 0)

\* The two accounts of lamports in an enhanced event agree: what the instructions,
\* inner ones included, are reported to transfer, with the fee, is what each balance
\* is reported to have gained or lost, up to the rounding of the numbers reported;
\* nothing else is left that the code calls unexplained.
TotalNative(natives, end, account) ==
    Summed([i \in DOMAIN natives |-> IF natives[i][end] = account THEN natives[i].amount ELSE 0])
NativesExplain ==
    \A payload \in sent :
        payload.format = "enhanced" /\ OnlyTransfers(payload.tx) =>
            \A n \in DOMAIN Raw[payload.tx].accounts :
                LET a == Raw[payload.tx].accounts[n]
                    explained == TotalNative(payload.natives, "to", a)
                                 - TotalNative(payload.natives, "from", a)
                                 - (IF n = 1 THEN payload.fee ELSE 0)
                IN  Size(payload.data[a].native - explained) <= RoundingOf(payload.tx, n)

\* The transfers of one transaction agree on whose a token account is, however
\* the cache changes while the transformation waits.
HopsAgree ==
    \A tx \in DOMAIN jobs :
        LET built == Range(jobs[tx].transfers) IN
        \A x, y \in built :
            /\ x.to = y.to => x.toUser = y.toUser
            /\ x.to = y.from /\ x.toUser # None => y.fromUser = x.toUser

\* The node is not asked about what the transaction itself says, as long as
\* that fits the cache; a later transfer may find it evicted in the meantime.
Listed(tx) == {Raw[tx].accounts[b.index] :
                 b \in {l \in Range(Raw[tx].pre) \cup Range(Raw[tx].post) : l.owner # None}}
OwnBalancesSuffice ==
    \A tx \in DOMAIN jobs :
        jobs[tx].transfers = <<>> /\ Cardinality(Listed(tx)) <= CacheSize =>
            jobs[tx].waiting \cap Listed(tx) = {}
=============================================================================
