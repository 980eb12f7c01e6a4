# TLA+ models of the eucalAI backend

The backend is four Python services around one MySQL database per service,
Redis and HTTP. This directory holds TLA+ models of its core, the TLC
configurations that check them on small instances, and proofs, checked by
TLAPS, of what holds for every instance. Every definition is translated from
the code; `PROJECT.json` ("map") names the lines each one stands for.

    tlc -workers 2 -config wallet_mixed.cfg MCWallet    # any run of the table below
    tlapm WalletProofs.tla                              # the proofs of one module

The proof modules are `WalletProofs`, `CallLogProofs`, `UpstreamProofs`,
`SignInProofs`, `KeysProofs`, `AdminProofs`, `ServingProofs`, and `NumberFacts`
with the lemmas they share. Paths below are relative to `src/services/`.

## 1. The system

A user calls **router-service** with an API key. The router asks
**user-service** whether the key, its quota and the user's balance are good
(and caches the answer), limits the rate, asks **inference-service** how hard
the prompt is, picks a channel of the tier (a pool account of a provider),
calls the provider with retries on other channels, streams the answer back, and
reports the call, with its cost, to user-service, which writes the log row,
charges the wallet and counts the statistics. **admin-service** owns providers,
accounts, the model catalog and the routing configuration, checks the health of
accounts and publishes it through Redis, and manages users by calling
user-service. All internal calls are JSON over HTTP with a shared secret, a
retry loop and a circuit breaker (`common/internal.py`).

Every service runs on asyncio: code between two `await`s is atomic, and every
`await` is a place where another request of the same process runs. Requests of
different processes meet only in the database.

### Inventory

| component | state | operations | what is hard | what makes it correct |
|---|---|---|---|---|
| wallet (user-service) | `users.balance`, `used_amount`; `balance_transactions`; `topup_orders`; `voucher_redemption_codes`; `user_api_keys.quota_used` | top up, generate / redeem / disable a code, adjust, charge a call | row locks, rows cached by the session, duplicate delivery, rollback halfway | balance = sum of the ledger; every document and call booked exactly once; no overdraft |
| call-log buffer (router) | dictionary of pending entries, batch in flight, retry counts | record, update, periodic flush, shutdown | an update arrives while its entry is in flight; failure puts the batch back; eviction; cancellation | no reported outcome is lost except in named ways |
| call-log ingestion (user-service) | `api_call_logs`, charges, statistics | batch endpoint: create or update each row, bill, commit, count, commit | two copies of a batch at a time; one failing insert rolls back all; two commits | rows only move on; a charge needs a paid row; a batch counts once |
| usage statistics | hourly buckets in `usage_stats` | add a call, recompute an hour | unlocked read-modify-write; recomputation races with late batches | bucket = what the logs say |
| API keys | status, quota, count per user; principal cache in the router | create, update, disable, enable, delete, validate | `_refresh_status` writes a status read earlier; 60 s cache | a disabled key stays disabled; at most N keys |
| user sessions | `user_sessions`, `login_fail_count`, cookies | login, refresh, logout, change password | check, await of a hash, write | a revoked session grants nothing; a refresh token is used once |
| e-mail codes | codes with expiry and used flag | send, verify, mark used | count, await, add; failure to send | a code is used once; daily limit |
| channel selection | failures, cool-down, auto-disable, health cache per channel | select, report failure / success | selection under exclusion, fallback when nothing is healthy, tiers | a retry goes to another channel; each in proportion to its weight; disabled only by failures in a row |
| upstream retry | attempts, excluded channels | attempt, classify, retry | which errors count against a channel | bounded attempts; no channel twice while the list has another; every call ends |
| rate limiting | windows per user / account / global in Redis or memory | check, consume | check and consume are separate for accounts; Redis failure | at most N per window |
| channel affinity, routing | LRU of conversation -> channel | get, set, expire | stale entry for a disabled channel | affinity never overrides exclusion |
| configuration refresh | current config, version, source | periodic fetch, fallback to local | reading while it is replaced | one request sees one version |
| internal HTTP client | pool, retry count, breaker per target | request | the failure count survives the cool-down | the breaker closes after a success |
| provider pools, health checks (admin) | accounts: status, balance, failures | create, edit, disable, check, probe, publish | the job writes from objects read minutes before | a disabled account stays disabled |
| admin accounts | administrators, sessions, token blacklist, fail counts | login, refresh, logout, change password, roles | check and blacklist in two steps | a refresh token is used once |
| model catalog, routing settings | vendors, categories, models, links, tiers | CRUD | checks read one table and writes go to another; links are written row by row | a tier keeps a model that is sold; the card shows what was asked for |
| request handlers | none of their own | the three doors: chat, messages, responses | a stream ends, breaks or is left anywhere | the row tells what the client was told |
| audit, user management gateway | audit rows | call user-service, write audit | the call takes effect, the audit row fails | every effect is audited |
| inference-service | model weights, runtime config, forward hooks on the model | classify | concurrent questions run through one shared model | a question is judged by its own texts; a harder one gets no weaker tier |
| dashboards, route monitor | none | read windows, buckets, pages | every figure is a query of its own; rows share a second | figures of one window agree; pages skip nothing |
| format conversion, backends | converter of one stream | translate OpenAI / Anthropic / Responses payloads | text held back, tags across chunks, streams that break | events a client can read; a conversation survives translation |
| jobs | none of their own | aggregate, clean up, reconcile | run beside requests | `reconcile_balance_ledger` finds no drift |

`PROJECT.json` lists the same components with their sources and status, and
under "hazards" the places where the code is hardest to test, with the
properties that watch them. Four more have no property: two top-ups of one user
may deadlock until MySQL aborts one (`topup_order_service.py:44`; `Abort` covers
the outcome); a batch of more than 500 entries is refused as a whole, put back
and refused again (`internal_call_logs.py:62` against a buffer of 10000; the
liveness run assumes that batches fit); `provider_cost` of a pinned call is 0
(`routing.py:228` reads a key that the normalised configuration does not have);
`settle` releases the holds of other calls (`balance_service.py:166`; nothing
calls it).

## 2. The plan

In the order of what a failure costs: money first, then the path a call takes to
become money, then access control, then availability.

| # | module | models | composes / implements | run | status |
|---|---|---|---|---|---|
| 1 | `Wallet` | the wallet | implements `WalletSpec` | `wallet_*` | done |
| 2 | `WalletProofs` | theorems of 1 | | | done |
| 3 | `CallLogBuffer`, `CallLogBatch`, `CallLogPipeline` | buffer, endpoint, and both joined by HTTP | implements `CallLogSpec` | `calllog_*` | done |
| 4 | `ChannelSelector`, `UpstreamRetry` | selection, tiers, cool-down; the retry loop around it | implements `UpstreamSpec` | `upstream_*` | done |
| 5 | `UpstreamProofs` | theorems of 4, and of `Translate` | | | done |
| 6 | `ApiKeys`, `Sessions`, `EmailCodes`, `RateLimit`, `InternalCalls` | who may call, and how the router asks | | `access` | done |
| 7 | `AdminTokens`, `AdminAccounts`, `PoolHealth`, `RoutingSettings`, `ConfigRefresh`, `AdminCalls`, `ModelCatalog` | what administrators change and how it comes into force | `ConfigRefresh` extends `PoolHealth` and `RoutingSettings` | `admin` | done |
| 8 | `Doors`, `Translate`, `AnthropicStream`, `ResponsesStream` | a call at the three doors | | `serving` | done |
| 9 | `Classify`, `Judgement`, `Engine` | the choice of a model | `Engine` extends `Judgement` | `serving` | done |
| 10 | `UsageStats`, `Reports` | what is counted and shown | | `serving` | done |
| 11 | `CallLogProofs` | theorems of 3 | | | done |
| 12 | `SignInProofs`, `KeysProofs` | theorems of 6: sessions, codes; keys, rates | | | done |
| 13 | `AdminProofs` | theorems of 7, all but what is lively | | | done |
| 14 | `ServingProofs` | theorems of `InternalCalls`, `Classify`, `UsageStats`, `Doors`, `Engine`, `AnthropicStream`, `ResponsesStream`, `Reports` | | | done |
| 15 | `NumberFacts` | lemmas on sums, groups, folds, sequences, finite sets, arrangements, extremes and remainders | used by 2, 5, 11 to 14 | | done |
| 16 | `WalletHolds` | `freeze` / `settle` / `refund`, which nothing calls yet | | | open |

Liveness stays with TLC. A type invariant that no run checks
(`KeysTypeOK`, `SessionsTypeOK`, ...) is part of a theorem.

Modules of 6 to 10 share no variable with each other, except where the table
says that one extends another, so each run follows one of them at a time in
each behaviour (`part` of `MCAccess`, `MCAdmin`, `MCServing`): the state spaces
add up instead of multiplying.

## 3. The wallet: `WalletSpec`, `Wallet`, `MCWallet`, `WalletProofs`

### Model

`Wallet` has the committed rows as variables (`user`, `ledger`, `booked`,
`order`, `voucher`, `quota`, `liveKeys`) and one record per database session
(`sess`). `ledger` is the set of unique keys `(type, ref)`, `booked[u][t]` the
sum of `amount` over the rows of user `u` and type `t`; together they are what
the reconciliation job and the properties need of `balance_transactions`.

A request goes through the stages `open` (it has made its unlocked reads),
`shared` (it has inserted a row that refers to the user, which takes a shared
lock on the user's row), `code` (a redemption holds the voucher's row) and
`exclusive` (it holds the user's row FOR UPDATE). The step that ends it commits
everything it wrote in one step or, as `Abort` or a rejection, nothing.

| code | actions |
|---|---|
| `BalanceService.topup`, `TopupOrderService.create_manual`, `POST /users/{uid}/topup` | `BeginTopup`, `InsertChild`, `LockUser`, `CommitTopup` |
| `VoucherService.redeem_code` | `BeginRedeem`, `LockCode`, `LockUser`, `CommitRedeem`, `RejectRedeem` |
| `VoucherService.generate_codes`, `disable` | `GenerateCode`, `DisableCode` |
| `BalanceService.admin_adjust` | `BeginAdjust`, `LockUser`, `FailAdjust` |
| `BalanceService.consume_for_call_log` | `BeginConsume`, `InsertChild`, `LockUser`, `CommitConsume`, `RejectConsume`, `DuplicateConsume` |
| `ApiKeyService.delete` | `DeleteKey` |
| exceptions, deadlocks, lost connections | `Abort` |

The point of the model is `copy`, the session's copy of the user's row.
SQLAlchemy does not reload an object that is already in the session's identity
map when a later `SELECT ... FOR UPDATE` returns its row (no
`populate_existing`). `_get_user_or_404` and the authentication dependency load
the user before the service locks it, so a top-up and a redemption compute with
the balance they saw first; billing loads it under the lock. An UPDATE writes
only the columns that changed, which is why `used_amount` survives such a race.

`WalletSpec` is the promise: balances, and a set of rows that are posted one at
a time, atomically, each key once, never below zero.

### Checked

| run | instance | shows |
|---|---|---|
| `wallet_mixed` | 1 user, 2 sessions, 1 order, 1 voucher, 2 calls, 1 key; all kinds | `TypeOK` (no balance is negative), `UsedMatchesLedger`, `DocumentsMatchLedger`, `ChargesMatchLedger` under every interleaving; 42,766 states |
| `wallet_apart` | 2 users, 3 calls, requests that load the user early do not overlap others of that user | `Conservation` and `KeepsPromise` (refinement of `WalletSpec`); 157,704 states |
| `wallet_drift` | top-up and billing of one user | **violates** `Conservation` |
| `wallet_adjust` | adjustments only | **violates** `AdjustmentIsBooked` |

Two sessions are enough because every conflict in the code is between two
holders or readers of one row; a third session can only wait or repeat what one
of the two does. The amounts (1 and 2 against openings of 2 and 1) are such
that a charge can succeed, empty the balance, and fail.

### Proved (`WalletProofs`)

For every set of users, sessions, documents, keys and amounts that satisfies
`WalletAssumption`:

- `TypeCorrect`: `Spec => []TypeOK`.
- `UsedIsLedger`: `Spec => []UsedMatchesLedger`.
- `DocumentsAreBookedOnce`: `Spec => []DocumentsMatchLedger`.
- `CallsAreBilledOnce`: `Spec => []ChargesMatchLedger`.
- `SerialConservation`: `Spec /\ []NoOverlap => []Conservation`.
- `SerialRefinement`: `Spec /\ []NoOverlap => KeepsPromise`.
- `BillingRefinement`: if neither top-ups nor redemptions are served, both hold
  without any condition.

The argument. `TypeOK` is not inductive: that `balance` stays in `Nat` when a
charge commits needs that the copy it was checked against is the row it is
taken from, and that the row of a document is posted under its own type needs
what a session carries. The inductive invariant `Inv` is `TypeOK`; `Shape` (the
document and amount a request of each kind carries); `RowLocks` (the holder of
a user's row is alone: no other holder, and nobody with a child row in flight);
`Fresh` (a billing session that holds the row computes with the committed row,
because billing loads the user under the lock); `Issued` (a code that is being
redeemed was issued with an amount). `Conservation` needs `Fresh` for top-ups
and redemptions too. That is false in general - it is the defect - and follows
from `NoOverlap`, or holds vacuously where only billing and adjustments run.
The refinement maps every commit to a `Post` of the promise and every other
step to a stutter.

`ChargesMatchLedger` is about sums over the calls in the ledger. It needs a
second invariant, `Payers`: the ledger is finite, and a billing session carries
the user whose call it bills. A commit then adds one call to exactly one sum per
user and per key, which `SumWith` of `NumberFacts` turns into the cost of that call;
the unique key of the ledger is what makes the call a new one.

## 4. The call log: `CallLogSpec`, `CallLogBuffer`, `CallLogBatch`, `CallLogPipeline`, `MCCallLog`

### Model

`CallLogBuffer` is `CallLogBuffer` of router-service. A Python dictionary is a
record `[of, order]`: what a key maps to, and the keys in the order of
insertion, which decides what is evicted and in which order a batch is
processed. An entry keeps whether it has what the row needs (`user_id`,
`model_name`), its status, and its number of retries. `_lock` protects only code
that does not await, so each `async with` block is one step. `Record`, `Route`
and `Finish` are the handlers' calls (`create_call_log` and the two
`update_call_log`s), `StartFlush`, `FlushOk`, `FlushFail` the periodic task, and
`Stop` the shutdown, which cancels the task - and what it was waiting for - and
flushes once more.

`CallLogBatch` is `POST /call-logs/batch`. A worker is one request: a
transaction with the snapshot of its first read (REPEATABLE READ), and then one
action per entry: `UpdateRow`, `InsertRow`, `DuplicateRow` (the insert meets a
row of another transaction, rolls back and reads again) and `SkipEntry` (the
insert fails for want of a column; the rollback takes all that came before and
the loop goes on). The charge is part of the entry's action. `CommitBatch` is
the first commit, `CountBatch` the statistics and the answer, `AbortBatch` any
exception.

`CallLogPipeline` joins them: `Receive`, `Refused`, `Timeout`, `Answer`, `Fail`
are the HTTP request between the two, which the transport does not retry
(`max_retries=0`) and which the router gives up after 10 s while user-service
goes on. A second copy of a batch can therefore be at work beside the first.

`CallLogSpec` is the promise: a row goes from absent to open to the reported
outcome and never back; a call is charged only with or after its paid row.

### Checked

| run | instance | shows |
|---|---|---|
| `calllog_faults` | 2 calls of one user, buffer of 1, 2 workers, 1 retry, all faults | `KeepsPromise` (refinement of `CallLogSpec`), `OutcomeKept`, `CountedAtMost`; 1.9 million states |
| `calllog_calm` | 2 calls of two users, one of them broke, buffer of 3, 2 retries, constraint `Calm` | `EventuallySettled`; 106,623 states |
| `calllog_ack` | as `calllog_faults` with a buffer of 2 | **violates** `AckIsLogged` |

Two calls are what one entry's failure needs to harm another; two workers are
what a late copy needs to race with its retry; a buffer of one makes eviction
and the return of a failed batch meet; one retry makes both branches of
`retry_count <= max_retries` happen. Calls and workers are interchangeable in
`calllog_faults` (equal owners), so it uses symmetry; the liveness run does not.

**Fairness** (`calllog_calm`): the flush task, the arrival of a batch, and the
steps of a worker are weakly fair. The first is a `while True` loop with a
sleep, the others are code that does not wait for anything but the database.
Handlers are not fair, and nothing is assumed to fail or not to fail by
fairness: what must not happen is stated in `Calm`, as `[]Calm => ...`, and
`Calm` still allows every entry one failed attempt before, during or after the
work of user-service.

**Assumed**: request ids are unique (the id may come from an `X-Request-ID`
header); one router process (the buffer is its memory); MySQL's REPEATABLE
READ, the default the code does not change; a row of another transaction
blocks an insert of the same key until that transaction ends.

`CountedAtMost` says at most MaxRetries + 1 times, and not once, because the
code counts again on every delivery that gets to its second commit.

### Proved (`CallLogProofs`)

For every set of requests, users and workers, every buffer, batch size, retry
limit and balance that satisfies `BufferAssumption` and `BatchAssumption`
(numbers are numbers, an absent entry is no entry, and finitely many
requests of the endpoint run at a time):

- `CallLogTyped`: `Spec => []TypeOK`.
- `CountsAreBounded`: `Spec => []CountedAtMost`.
- `OutcomesAreKept`: `Spec => OutcomeKept`.
- `PromiseIsKept`: `Spec => KeepsPromise`.

The argument. A dictionary is well formed (`DictOK`) when its order lists
exactly its keys, each once; without the second half the oldest entry could be
evicted and still be in the order, and a worker could process an entry twice.
The first part of the module shows that `Put`, `DropOldest`, `PutAll` and the
tail of a batch keep it so. `TypeOK` contains it and is inductive by itself. The
other parts of the invariant, all of which TLC checked on the instance of
`calllog_faults` before they were proved:

- `ToldByRouter`: a status in the buffer or in flight is "none" or the one the
  handler reported, so a row can only get that one.
- `OneBatch`: only one batch is sent at a time, one worker at most is awaited,
  and a call whose outcome is in flight has no other entry in the buffer.
  `OutcomeKept` needs it: otherwise a batch that fails would find the place of its
  entry taken and drop the outcome.
- `Sendings`: for each call, the times it was counted, the workers that may
  still count it (`Carriers`), and the sendings its entry has left (`Left`)
  together never exceed MaxRetries + 1. That is why a late copy of a batch cannot
  push the count over the limit: it holds the place of the sending it came from.
- `RowsTold`, with `TransactionOK` for each open transaction: a row was told by the
  router; a transaction has written a call only after it took it from its list,
  has the rows it inserted to itself, and bills only what it wrote as paid.
  The snapshot only ever holds rows that are there.

The refinement maps `CommitBatch` to `Log` of the promise (several rows and
charges in one step), `Finish` to `Report`, and every other step to a
stutter. `EventuallySettled` is liveness and stays with TLC; `AckIsLogged` does
not hold.

## 5. Calling a provider: `UpstreamSpec`, `ChannelSelector`, `UpstreamRetry`, `MCUpstream`, `UpstreamProofs`

### Model

`ChannelSelector` is the class of that name, for one model: the round-robin
counter, and per channel whether it cools down, how many failures in a row it
has had, whether it is disabled, and what the health poll last said.
`Candidates` is the cascade of fallbacks in `select`, `Tier` the choice of a
priority, `Picked` the weighted round-robin. The methods do not await, so each
is one step. `UpstreamRetry` puts the calls around it, one step from each await
to the next:

| code | actions |
|---|---|
| `route_and_resolve`: load the configuration, await the classification | `Route` |
| `_resolve_target_with_affinity`: `affinity_store.get`, then the pin is good, or is not | `ReadPin`, `UsePin`, `MissPin` |
| `_get_rate_limited_accounts`, one `is_account_available` at a time | `ReadLimit` |
| `ChannelSelector.select`, its errors, `affinity_store.set` | `Select`, `Refuse`, `Pin` |
| `upstream_call_with_retry`: the answer and `report_success`, `check_account` | `Succeed`, `Meter` |
| `upstream_call_with_retry`: the error, `report_failure`, `should_retry`, the next attempt | `Fail` |
| a new configuration; Redis and cool-down clocks; the health poll | `Publish`, `WindowSlides`, `PinExpires`, `Clocks` |

A first attempt uses the configuration it loaded before it awaited the
classification; a retry loads the configuration of its moment. Both happen here:
`Route` keeps the list, `Publish` changes it behind the call's back.

`UpstreamSpec` is the promise: a call is sent at most `MaxAttempts` times, to a
channel it has tried only when it has tried the whole of a published list; each
attempt is held for or against exactly the channel it went to; a channel is
benched only by `Threshold` failures with no success in between.

### Checked

| run | instance | shows |
|---|---|---|
| `upstream_retry` | 2 calls of one conversation, 3 channels in 2 tiers with weights 2, 0, 1, the second limited to 1 per window, 1 retry, the list shrinks to the second channel and grows back | `KeepsPromise` (refinement of `UpstreamSpec`), `BestEffort`, `RoundRobinShare`, `EveryCallEnds`; 85,808 distinct states |
| `upstream_tiers` | 1 call, 2 retries, 3 tiers | **violates** `TiersDescend` |

Two calls are what it takes for one to report, pin or meter between another's
read and its selection; the shrinking list makes a retry start over on a channel
it has tried, and refuses a call when its only channel is at its limit; a weight of 0 and a total of 4 and 3 in turn exercise the shares.
`Threshold = 2` lets two calls disable a channel together. The counter is kept
modulo `Cycle = 12`, a multiple of every total of shares (`CycleAssumption`),
so it picks what the unbounded one picks.

**Fairness** (`upstream_retry`): a handler is a coroutine that goes on when what
it awaits is there, hence weak fairness of `Finds` and `Meter`; `Answers` is weakly
fair because `dispatch` has a timeout that raises. Clocks, publication and the
health poll are not fair. `EveryCallEnds` says that no interference with the
list, limits or health can leave a call without an end.

**Assumed**: a channel slug stands for one account; one router process (the
selector is its memory); what a clock ends may end at any moment; which errors
are retryable is a free choice; the affinity store has one value per
conversation (its two copies, in Redis and in memory, are written one after the
other); the model has channels in the configuration (the older
`model_providers` form and `no_channel` answers of routing are not modelled).

### Proved (`UpstreamProofs`)

For every set of calls, channels, lists, limits, priorities and weights that
satisfies `SelectorAssumption` and `RetryAssumption`:

- `TypeCorrect`: `Spec => []TypeOK`.
- `Refinement`: `Spec => KeepsPromise`.
- `SelectionIsBest`: `Spec => BestEffort`.
- `SharesAreKept`: `Spec => []RoundRobinShare`.

The argument. `TypeOK` is inductive here: a call goes on only with a list that
was published, and a retry is taken only below `MaxRetries`. `SelectedInList` is
the lemma about the cascade: whatever rests, is ill or is limited, what `select`
returns is in the list, and untried unless the whole list is. With it, `UsePin`
and `Select` map to `Send`, `Refuse` to `GiveUp`, `Succeed` and `Fail` to
their namesakes, `Reenable` to `Return`, and every other step to a stutter.
For `SelectionIsBest`: the cascade leaves a layer only when it is empty, and what
the other actions may change while a call reads the windows (`unhealthy`,
cool-downs, the list) is read again in the step that chooses.
For `SharesAreKept`: the shares of a set of channels, laid one after the other,
cut `0..TotalShare(S) - 1` into intervals, one per channel and as long as its
share (`ShareOf`, `SharesInOrder`, by `SumOfPart` of `NumberFacts`); a value of
the counter picks the one channel whose interval holds its remainder
(`PickedAlone`; none is left over, by `SharesCover`, so that the last line of
`select`, which takes the last channel, is never reached); and a round that
starts anywhere meets each remainder once (`OneRemainder`, `TurnsAround`, a bijection in `RoundCounts`). No induction is
needed, and a weight of 0, which counts as 1, is no special case.
`EveryCallEnds` is liveness and model-checked only; `TypeOK` is proved and in no run.

## 6. Who may call: `ApiKeys`, `Sessions`, `EmailCodes`, `RateLimit`, `InternalCalls`, `MCAccess`

### Model

The three modules of user-service share one view of a request: it reads a
snapshot when it begins, awaits (a hash in a thread, a mail, an answer), and at
its commit writes the columns that *it* changed and no others. What others
commit in between is overwritten only in those columns. `Flushed` of `ApiKeys`
and `Written` of `Sessions` are that rule.

| code | actions |
|---|---|
| `ApiKeyService.create`, `update`, `disable`, `enable`, `delete`, begun by `controllers/keys.py` | `BeginCreate`, `BeginUpdate`, `BeginChange`; `Create`, `Update`, `Disable`, `Enable`, `Delete` |
| `validate_by_hash` with `_refresh_status`, asked for by the router | `BeginValidate`, `ReadKey`, `Validate`, `CacheAnswer`, `GiveUp` |
| the principal cache of `require_api_key` | `CacheHit`, `Tick` |
| a charge, a change of the user's status, a top-up | `Bill`, `SetUserStatus`, `Fund` |
| `AuthService.login`, `refresh_access_token`, `logout`, `change_password`, `reset_password` | `BeginLogin`, `BeginCodeLogin`, `BeginRefresh`, `BeginLogout`, `BeginPassword`; `LoginFails`, `LoginSucceeds` (with `AddSession`), `Refresh`, `Logout`, `SetPassword` |
| `EmailService.send_verification_code` | `BeginSend`, `StoreCode`, `Mailed`, `MailFails` |
| `get_valid_code_or_raise`, which holds the newest unused row FOR UPDATE, and the handlers around it | `Present`, `RejectCode`, `AcceptCode`, `UseCode`, `AbandonCode` |
| `check_global`, `check_user`, their Lua scripts, `InMemoryRateLimiter` | `CheckRedis`, `CheckDown`, `CheckLost`, `RedisTurns`, `RateTick` |
| `request_internal_json` for a validation: attempts, breaker | `BeginAsk`, `AskAgain`, `EndAsk` |
| the same for the flush of `CallLogBuffer` | `RecordRow`, `FlushNothing`, `FlushRefused`, `FlushSent`, `FlushEnds` |
| user-service, the secret and the clocks; time | `LinkTurns`, `IntervalEnds` |

### Checked

`access`, 974,859 distinct states in five parts:

| property | what it shows of the code |
|---|---|
| `KeysBounded` | count and insert are not one step: the limit is exceeded, by less than the number of requests at a time |
| `DisabledStays` | a disabled key comes back only through an enable, or a request that had read it before it was disabled |
| `CacheIsRecent` | what the router serves from its cache was so less than KeyTTL + KeyTimeout ticks ago, also when the answer it cached was late |
| `CutSessionsDead` | no refresh, logout or login under way revives a session that a password change found; one that was still being added lives on |
| `LimitsHold` | the cap on sessions is exceeded only by a login that had read the sessions before another request changed them; a lock is cut short only by a login with the right password that began after an earlier lock had run out, or by a code |
| `OneUseFewGuesses` | because the row is held over the hash, no wrong guess goes uncounted and one code serves one request |
| `RatesBounded` | with Redis coming and going, also in the middle of a script whose answer is lost, a minute lets through the limit once by Redis and once by each process (for a user's bucket: its capacity and its refill) |
| `LostOnlyNearOutage` | validations and flushes share one circuit; while it is open a flush fails in the router, so rows use up their retries though user-service is well - not later than CoolDown intervals after the trouble |

What the traces show besides: two racing refreshes of one token leave one client
with a token that is in no row; parallel failed logins count as one; the daily
limit of codes does not count a code that was deleted because its mail failed;
the lists of allowed models and addresses of a key are looked at when it is
validated and not when the cache answers; a 2xx that is no JSON counts as a
success and then as a failure; a 403 for a bad signature counts as a success.

**Bounds.** Two requests of each kind of service, three keys or sessions with a
limit of one, two codes, two wrong guesses, one router process, one row of the
buffer; clocks (`KeyHorizon`, `SignHorizon`, `CodeHorizon`, `RateHorizon`) long
enough for each period (TTL, lock, window) to run out with room to act after
it; `KeyBudget` and `SignBudget` count events. Every conflict here is between
two requests. When a budget or a clock is used up a part stops, hence
`CHECK_DEADLOCK FALSE`. In `InternalCalls`, LogRetries + 1 flushes are fewer
than the intervals of the cool-down, as in the defaults of the configuration;
otherwise an open circuit alone would lose nothing.

**Assumed**: one account and one address (nothing relates the rows of two);
registration is only its login; the size limit of the cache, which drops entries
early, is left out; a user's status is active or not.

### Proved (`SignInProofs`, `KeysProofs`, `ServingProofs`)

For every number of keys, sessions, codes, requests, processes and rows, and
every limit and period that the assumptions of the modules admit:

| theorem | states | the invariant, and why it is needed |
|---|---|---|
| `KeysTyped` | `KeysTypeOK` | with `Requested`: a request carries what its operation needs, and a key that is not stored yet is not disabled |
| `DisabledKeysStay` | `DisabledStays` | the same; what a request writes is related to what it read |
| `KeysAreBounded` | `KeysBounded` | `RoomKept`: the keys of a user and the creations that found room together stay below the limit plus the number of requests; the bare number of keys is not inductive |
| `CachedKeysAreRecent` | `CacheIsRecent` | `RecentInv`: what was true is dated (`seen`) for a key, for an answer that is on its way or will be, and for an entry of the cache |
| `RatesAreBounded` | `RateTypeOK`, `RatesBounded` | `RateInv`: the calls let through can be split (`Splittable`) into a part on the record of Redis and one part on the counter of each process |
| `PasswordChangesCut` | `SessionsTypeOK`, `CutSessionsDead` | `ReadsSurvive` (rows read are still there, and still revoked if they were), `LoginsApart` (the id of a session to be added is in no row), `CutsHold` |
| `LimitsKept` | `LimitsHold` | the same and `LockBounded`: no lock is further ahead than one made now |
| `CodesServeOnce` | `EmailCodesTypeOK`, `OneUseFewGuesses` | `HeldIsOwn` (the row lock: the copy is the row, and nobody else has it), `CodesCounted`, `LockOutlives` (a code without an error to spare is locked until it has expired) |
| `RowsLostNearOutages` | `InternalTypeOK`, `LostOnlyNearOutage` | `AsksDated`, `FlushDated`, `BreakerDated`, `OutageDated`: everything that can fail a flush tells how long ago the trouble was |

What is counted must be finite: `IsFiniteSet` of keys, requests, processes and
sessions is in the assumptions, as the code has it. `RatesBounded` asks for a
split of what was admitted, so its proof constructs one in every step; sums
over the ticks of the window and over the processes need the lemmas on sums of
`NumberFacts`.

## 7. Administration: `AdminTokens`, `AdminAccounts`, `PoolHealth`, `RoutingSettings`, `ConfigRefresh`, `AdminCalls`, `ModelCatalog`, `MCAdmin`

### Model

| code | actions |
|---|---|
| `AuthService.login`, `refresh_access_token`, `logout` of admin-service, the blacklist in Redis | `BeginAdminLogin`, `AdminLoginFails`, `AdminLoginSucceeds`; `BeginAdminRefresh`, `RefreshReads`, `RefreshEnds`; `BeginSignOut`, `SignOutAccess`, `SignOutRefresh`; `LockRunsOut`, `Expires`, `RedisSwitches`, `AdminSwitched` |
| `AdminManagementService`: create, status, passwords, role | `BeginCreateAdmin`, `BeginSetAdminStatus`, `BeginResetPassword`, `BeginOwnPassword`, `BeginSetRole`; `ChangeCommits`, `ChangeFails` |
| `ensure_super_admin` at the start of a process | `StarterReads`, `StarterUpdates`, `StarterLocks`, `StarterInserts`, `StarterCommits`, `StarterDies` |
| pools and accounts; `HealthCheckService`, `check_balances` | `SwitchPool`, `AddAccount`, `SetAccountStatus`; `StartCheck`, `FindHealth`, `CommitCheck`, `AbortCheck` |
| tiers, models of pools, routing slugs | `BeginSetTier`, `BeginRemoveModel`, `BeginClearSlug`; `CommitTier`, `CommitRemoveModel`, `CommitClearSlug`, `SettingFails`; `AddModel`, `SwitchModel`, `CreateModel`, `SwitchCatalog`, `RenameSlug` |
| `ConfigManager` of the router, `get_active_routing_config_full` of admin-service | `AnswerPoll`, `PollFails`, `Adopt`, `StartRouter`, `StopRouter` |
| a changing call to user-service, its retries and breaker, the audit row | `BeginCall`, `SendAttempt`, `Process`, `ReceiveDone`, `ReceiveGarbled`, `ReceiveRefusal`, `ReceiveFailure`, `LoseAnswer`, `Audit`; `CoolDownEnds`, `ServiceTurns` |
| vendors, categories, one model and its links; the queries of the catalog | `CreateVendor`, `UpdateVendor`, `CreateCategory`, `UpdateCategory`, `BeginCreate`, `BeginReplace`, `CommitCreate`, `CommitReplace`, `EditFails`, `UpdateColumns`; `Card`, `Listed` |

An edit that reads and writes one row takes effect as if at its commit and is
one step. Requests that check one table and write another, that await a hash,
or that write row by row, begin and commit in steps of their own.

### Checked

`admin`, 328,588 distinct states in six parts:

| property | what it shows of the code |
|---|---|
| `ForksBounded` | as long as Redis answers, a refresh token is spent at most once by each of the requests that overlap (not once: the check and the write are two steps) |
| `RootStays` | whatever starts and changes race, there is a root once a process serves, and it stays one active super admin; the second count under the named lock sees the snapshot of the first and stops nobody, the unique address does |
| `SuperSpared` | a super admin is disabled or gets a password from another only by a request that read the row before the promotion |
| `DisabledComesBack` | a disabled account becomes active or erroneous by a check only if that check had loaded it before; later checks leave it alone |
| `TierStaysServed` | a tier that has a pool and a price keeps them, unless two requests overlap, a slug in use is renamed, or a text with blanks around it is stored |
| `DisabledLeaves` | liveness: an account that stays out of use is taken from the router in the end, unless every poll is refused for a blank tier |
| `EffectsBounded` | a top-up may take effect more than once, and after the administrator was told that it failed, but never more often than attempts were given up or reported |
| `RecoversAlone` | liveness: the count of failures survives the cool-down, and still the breaker closes once user-service serves for good |
| `CardFromEdits` | two overlapping edits of the categories of a model may leave a list that neither asked for, but no category twice and none at a place nobody gave it; a model on the card is found under its categories |

What the traces show besides: `reset_admin_password` ends no session of its
target; a failure to write the audit row is only logged; an edit of the links
that another has deleted or inserted first aborts with a 500; `update_model`
may put a model on sale without the routing slug and prices that `create_model`
requires, and a price that is NULL is published as 0; a model of an inactive
vendor is shown under "all" only; a card shows inactive categories.

**Fairness.** The poll is a loop that sleeps and asks again: it is weakly fair
that it is answered, strongly fair that an answer is adopted, since a router that
restarts for ever never has to adopt one (`ConfigFairness`). The steps of a
call, the end of a cool-down and the next call of an administrator are weakly fair
(`CallFairness`). Nothing makes user-service serve; `RecoversAlone` says what
follows if it does.

**Bounds.** Two requests of each kind, two starting processes, two addresses,
four pairs of tokens, two pools with an account each, one tier, two models, two
calls of two attempts, a threshold of two, one vendor, two categories, four
edits of which the last two find everything on sale, and budgets
(`TokenBudget`, `ChangeBudget`, `SettingBudget`, `EditBudget`) on what is begun.
`MCAdmin` follows pools and settings twice: all operations on settings, and
checks and polls with a tier that is blanked and set. Parts stop when a budget is
used up, hence `CHECK_DEADLOCK FALSE`.

**Assumed**: names of pools and addresses of administrators are unique; which
password is right is a free choice; the catalog holds one model.

### Proved (`AdminProofs`)

For every number of requests, processes, addresses, tokens, accounts, pools,
tiers, models, calls and attempts that satisfies the assumptions:

| theorem | states | the invariant, and why it is needed |
|---|---|---|
| `RootIsKept` | `AdminAccountsTypeOK`, `RootStays` | `RootIntact` (once there is an administrator there is the root, active and super, under its own address) and `ChangesHarmless` (no request under way computes a new value of what makes it so, though it was decided on an older row) |
| `SuperAdminsSpared` | `SuperSpared` | the same: a write to another super admin was decided on a row that said "admin" |
| `RefreshesAreBounded` | `AdminTokensTypeOK`, `ForksBounded` | `SpentOnceEach`: the successors of a token and the refreshes that may yet add one together are no more than requests can overlap, and a live token has none |
| `DisabledAccountsStay` | `PoolHealthTypeOK`, `DisabledComesBack` | `HealthSound`: a check writes only accounts it has loaded, and none has loaded one that was disabled behind no check's back |
| `TiersStayServed` | `RoutingSettingsTypeOK`, `TierStaysServed` | `SettingsSound`: what the check of a request found is still true unless another request has committed since |
| `EffectsAreBounded` | `AdminCallsTypeOK`, `EffectsBounded` | `EffectsCovered` (effects, and copies of attempts that may still have one, are covered by attempts given up and by what was heard), `AttemptsOnce` |
| `CardsAreAsked` | `ModelCatalogTypeOK`, `CardFromEdits` | `ComesOf` (a category is linked once, at a place one of the writers gave it, and if all writers asked for one list all of it is there), `EditsKnown` (an edit behind whose back nothing was committed has read what is there) |

`CardsAreAsked` has two halves. `FlushedComes` is the step: an edit writes row by row
what differs from what it read, and an overlapping one may have moved, added or
dropped rows since. What it does not write keeps the place of an earlier writer,
which is still one of those that overlapped, since the edit is stale then. The
other half is about the card, which arranges the links by position: an
arrangement exists (`SortedExists`), and where one list was asked for, positions
that climb and leave none out are the places of the list (`ClimbIsCount`).

`DisabledLeaves` and `RecoversAlone` are liveness and only model-checked.

## 8. A call from the door to the charts: `Doors`, `Translate`, `AnthropicStream`, `ResponsesStream`, `Classify`, `Judgement`, `Engine`, `UsageStats`, `Reports`, `MCServing`

### Model

| code | actions and operators |
|---|---|
| `chat_completions`, `messages`, `responses`: gates, routing, upstream, both ways of answering, `finally` | `TurnedAway`, `Enter`, `RoutingRefuses`, `AllLimited`, `Routes`, `Unexpected`, `UpstreamFails`, `UpstreamAnswers`, `Answers`, `SaysPiece`, `NativeCounts`, `ChunkCounts`, `SaysEnd`, `StreamEnds`, `StreamBreaks`, `ClientLeaves`, `AbortReported` of `Doors` |
| translation of requests and answers between OpenAI, Anthropic and Responses | operators `AnthropicToOpenAI`, `ResponsesToOpenAI`, `OpenAIToAnthropic`, `DispatchedWish`, ...; `ItemComes`, `UserSays`, `AssistantSays`, `ProviderSays` build what is translated |
| `AnthropicStreamConverter`, as the record `told` (only its field `strayed` is not the code's: upstream went back to an earlier call, or called a tool in a thought) | `ChunkArrives`, `UpstreamEnds`, `UpstreamBreaks`, `LogAnswer`, `ClientGoes` |
| `ResponsesStreamConverter`, and the events of Anthropic made into chunks | `StreamBegins`, `UpstreamRefuses`, `OpenAIChunk`, `AnthropicEvent`, `FeedEnds`, `FeedBreaks`, `LogReply`, `ReaderGoes` |
| `route_and_resolve`, the question to inference-service, the two polls | `BeginRequest`, `QuestionArrives`, `TakeEngine`, `EngineAnswers`, `GiveUpAttempt`, `AttemptFails`, `QuestionRefused`, `QuestionBreaks`, `SettleRequest`, `LeaveRouter`; `Publish`, `PollRouter`, `PollEngine`, `BreakerCools` |
| `predict_chat_messages`: texts, three passes, hooks, scores, tier | `LoadConfig`, `BeginJudging`, `EnterEngine`, `StartPass`, `Forward`, `EndPass`, `Decide`, `PassFails`, `LeaveEngine`; `Judgement` has the pure functions |
| `UsageStatService.upsert_from_log`, `aggregate_hour` | `OpenCall`, `SettleCalls`, `SettleClashing`, `ReadBucket`, `CommitTally`, `ReadHour`, `CommitHour`, `TallyFails` |
| analytics, dashboard, route monitor, lists | operators `UserWindow`, `AdminWindow`, `ByTime`, `Bucket`, `Percentile`, ...; `Time`, `OpenRow`, `SettleRow`, `Register` make the rows, `TurnPage` turns a list |

### Checked

`serving`, 1,488,113 distinct states in eleven parts:

| property | what it shows of the code |
|---|---|
| `RowTellsOutcome` | for each of the three protocols, streamed or not, and each way a call can end, the row says what the client was told, and only a call that ended well is charged for what was counted |
| `ConversationKept` | a conversation, the input of a response, an answer and the client's wishes arrive in the other protocol with their parts, order and pairs of call and result, save for what the comment of each part names |
| `AnthropicFramed` | on any four chunks, ended, broken or left, the events can be read: blocks one after the other, nothing after the end, no text kept back |
| `ItemsCompleted` | the same for the items of a response, whose completion waits for the usage |
| `RefusedOnlyBySkew` | a complete configuration refuses nobody for want of a price, a channel or a fallback, unless the two services work with different maps of tiers |
| `JudgedFairly` | hooks sit on one shared model: a question is judged on another's text only if a pass of the other came through the layer after its own; with graded bands the harder of two like questions gets no weaker tier |
| `UsageWithinLogs` | a bucket counts a call at most once per committed delivery of its batch, and once more only if the job had counted it first; it misses one only if two transactions overlapped or one failed |
| `FiguresAgree` | sums, buckets, models, charts and the route monitor agree on the calls to known models of one window; buckets only if the window begins with one |
| `PagesMissOnlyTies` | turning the pages of call logs, over a window that stays, skips a row only if another has the same second; of users none |

What the traces show besides, by module:

- `Doors`: the `X-Request-ID` of a client is the key of the log, so two calls
  with one id share a row; an exception outside the handled paths leaves the row open;
  a client that leaves at the last event is a 499 and is not charged; the error
  path of the Responses protocol says "completed" while the log says 502.
- `Doors`: Anthropic counts input without cached tokens, and `compute_cost`
  subtracts the cached ones once more.
- `Translate`: text of the user beside tool results is put first; only the last
  thought of an answer is kept; a `tool_choice` of "none" is lost.
- `AnthropicStream`: up to six held-back characters come out behind the block of
  a tool call; `</think>` split over two chunks is not seen; usage after the
  finish reason is told as 0; a stream that ends before its first chunk has a
  `message_stop` without `message_start`.
- `Classify`: a price is read again when the call is settled, so a call can be
  free after a poll; the local file has no prices; a question that is given up
  keeps its place on the GPU.
- `Engine`: two questions at once mix when their passes cross between hook and
  removal. DEPLOY.md advises a limit of 2, the default is 8.
- `Judgement`: weights of the configuration count only without prototypes; the
  judge of tool use looks at the last text of the user that is not empty, the
  prototypes at the last one even if it is.
- `UsageStats`: the job counts calls in flight too. A row that is settled already
  is written and counted like any, so a batch that is sent again after a timeout
  counts again. Entries that a clashing insert rolls back are counted
  without having a row, or, if they had one before, make the request fail before
  any is counted.
- `Reports`: a window of one's own that starts inside an hour shows empty
  buckets. The code and three of its comments differ: `_percentile` is said to take
  the "ceiling rank" (`route_monitor_repository.py:17`) and rounds half to even, which
  may be one rank lower; "All aggregate queries exclude rows tagged invalid_model"
  (lines 25-27, and `usage_stat_repository.py:15-19`), but the totals and the
  time series of the route monitor include them (`base_filters`, lines 214-225
  and 242-259). The model does what the code does. `FiguresAgree` takes
  neither side: it compares the route monitor with the charts on the calls both are
  to have, and asks of percentiles only that they climb.

**Bounds.** Four chunks and two tool calls per stream, both in one chunk or one
after the other, and texts of up to four pieces; two requests and two
configurations, one of them incomplete; one GPU slot; two pieces of a streamed
answer; five turns of a conversation and four parts of an answer; two calls, four
batches to arrive (`BatchBudget`) and two runs of the hourly job, so that a call is
delivered again after a job has counted it, and again after that; three rows and
three users; two threads, two judges, two layers, four conversations and three
configurations, of which the part with both threads at once has one
configuration and two conversations. Four chunks are what it takes to go from
a thought to text to a call and back; two layers, for one pass to be
between another's hooks. Scores are whole hundredths. Parts end, hence
`CHECK_DEADLOCK FALSE`.

**Assumed**: how hard a text is found (`Hard`) and how like a prototype
(`Likeness`) are constants, the same for every judge, and a mixture of texts is
as hard as the hardest; the hooks of one pass are registered in one step, since
its own pass fills them after; a question given up by the router does not
arrive late.

### Proved (`ServingProofs`; `Translate` in `UpstreamProofs`)

- `UsageIsBounded`: `UsageSpec => [](UsageTypeOK /\ UsageWithinLogs)`, for any number of
  batches, deliveries and calls. `worth[c]` is how often call `c` may count by now, and
  the bucket is compared with its sum. The invariant says that the calls a writer
  holds are calls (`CallsThere`), that what it has read is no more than that sum will
  be when it writes (`ReadsBounded`), and that without an overlap it is what is there
  (`ReadsFresh`). A delivery adds one for each of its calls to both sides (`OnesOnTop`); the
  job writes a number of rows, which those worth anything bound from below (`CountsAtMost`).
- `RefusalsAreExplained`: `ClassifySpec => [](ClassifyTypeOK /\ RefusedOnlyBySkew)`, for
  any configurations. `RequestSound` relates the stage of a question to the
  configuration the router held when it asked and the one it settles with. The
  proof showed that the property had to name the price of the model asked for
  (`Priced`): for a model named by the client the configuration may be
  complete and have no price for it, which no instance had.
- `OutcomesAreTold`: `DoorsSpec => [](DoorsTypeOK /\ RowTellsOutcome)`, for any
  counts, prices and subset of the refusals. The invariant `DoorsInv` adds
  what a stage says of the call (`CallSound`: nobody is blamed before it is over, a
  stream that is ending has ended, one that is left is not answered) and that the
  row of a call under way is open and names where the call went (`RowOpen`). The cost
  is bounded through `CeilDivGrows` (rounding up is monotone) and `SightsCost`
  (what a handler sees of the counts is charged at what they are worth, or less). The proof
  needed the exact codes that a `RoutingError` is raised with (400, 428, 502, 503,
  in `DoorsAssumption`): with 499 or 404 among them the property is false, as
  a refusal could then look like a client that left.

- `QuestionsAreJudgedFairly`: `EngineSpec => [](EngineTypeOK /\ JudgedFairly)`, for
  any number of threads, judges and layers, any configurations and any texts.
  The invariant `EngineInv` says of each thread that its hooks are of the pass
  it is in and, before its own pass has gone through a layer, stand at every
  layer that pass looks at (`HooksSound`), that what it has kept of a pass is its
  own text as long as no other pass went through a layer behind its own
  (`CaughtSound`), and that the tier it answers with is the one its scores and
  its configuration give (`TierSound`). That the harder question gets no weaker
  tier is then a chain of monotone steps: the hardest text of a conversation
  (`RawScore`), the average of the judges (`SumGrows`, `QuotientGrows`), the
  scaling, and the bands, where two scores in graded bands are compared band by
  band. The proof assumes that every judge looks at one layer at least
  (`torch.cat` of nothing raises) and that the weights of the prototypes are
  positive (they are a softmax). A conversation's texts are given as sets of its
  indices, as `tlapm` cannot expand `SelectSeq`; the order of the marked turns does not
  matter to a score.

- `AnswersCanBeRead`: `AnthropicSpec => [](AnthropicTypeOK /\ AnthropicFramed)`,
  for any texts, lists of calls and number of chunks. `AnthropicFramed` looks at the
  whole sequence of events, so the invariant does too: at each event the blocks
  that have begun are those below one number, those that have been stopped
  are those below another (`UpTo`), the two differ by the open block, and each event
  finds them as it needs (`EventSound`); what is told later changes
  nothing of that (`EarlierKept`). `Coherent` ties the record of the converter to it:
  a thought is open exactly while `think` says so, a call that is noted has a block
  that has begun. A chunk is a fold over its pieces, then over its calls.
- `ItemsAreCompleted`: `ResponsesSpec => [](ResponsesTypeOK /\ ItemsCompleted)`, for
  any lists of calls and any order of chunks or events. While a response goes
  on (`ReplyGoesOn`) its items are those that were added, once each and before
  their deltas (`Listed`), where they belong (`Placed`), and all of them are open
  until a finish reason, then all closed (`AllOpen`, `AllDone`); one that is over
  (`ReplyIsOver`) has them closed, or has its text closed where upstream gave no
  finish reason.
- `PagesAreComplete`: `ReportsSpec => []PagesMissOnlyTies`, for any page size,
  rows, users and moments. What was meant to be seen and is not yet still has as
  many entries ahead of it as were turned (`UnseenIsAhead`): what is added
  only puts more ahead (`Additions`: an entry never leaves its list and keeps its
  second). A page is a part of some order, which the code leaves open among
  entries of one second; an entry without such a neighbour has one place in all of them,
  behind those ahead of it (`PlacedBehind`, by counting: `PlaceCounts`), so it
  is on the page turned now or still as far away as it has to be.
- `FiguresAddUp`: `ReportsSpec => []FiguresAgree`, for any rows, users, named
  ranges, hours and days (a day is whole hours) and questions. Every chart groups the rows of a
  window by a key (`GroupedBy`); what the groups have together is what the rows have
  (`SumByKey`, by a least counterexample: a row taken away changes one group). A
  bucket without rows adds nothing, but a row without a bucket is lost, which a start
  on the grid excludes (`FloorOnGrid`, `BucketsGroup`). Percentiles climb since
  rounding to the nearest rank does (`RoundedIsNear`, `RanksGrow`) and the samples
  are in order (`LatenciesInOrder`); the chart of users is right as whoever came
  before the window came no later than its first day (`GrowthCounts`). `Latencies` is any
  order by latency, as a database may return those of one latency in any order, and
  sums are `SumFunction`, whose table the lemmas on sums know.

A fold is a table over the sets of positions (`MapThenFoldSet`), which the prover
does not know to exist. `StepsTable` of `NumberFacts` shows that it does, filled by
size, and `StepsStay` that what each step keeps the whole fold keeps: a finite set
without its greatest number is smaller, so the argument is the one by a
least counterexample that the sums use.

`ConversationsArrive`: `TranslateSpec => []ConversationKept`, for any `TalkBound` and
`AnswerBound`, in the phrasings that the model lets a turn have. Inputs, answers and
wishes arrive whatever they are, so of them the invariant `TranslateInv` says only what
they consist of. A conversation does not: a result has to follow its call, so
`TalkKept` says that what is translated so far arrives, that each tool message
follows its call (`Follows`), and that the message translated last has the calls of
the last turn, if it has any (`AsksLast`); a turn of the user that answers them
all, or one of the assistant that calls last, keeps it (`TurnAdded`, with
`ResultsFollow`). What a conversion makes of a sequence is what it makes of each
member, in a row (`JoinedOf`), and that is a fold from the left, about which
`StepsUnfold` of `NumberFacts` says what one member more does. From it follow the
lemmas on sequences that are chosen from (`Among`, `Only`), put in a row and
mapped, each by `SequencesStay`: what holds of the empty sequence and stays
with one member more holds of all. `ResponsesToOpenAI` carries calls over from one item to the
next; `TakingReads` says what a state has when its messages and the calls it keeps
are read in any of three ways (`Reads`: everything, what the system says, the rest),
which covers both the messages and what `OpenAIToAnthropic` makes of them. The folds of
`Translate` are stated by `FoldLeft` for this, as `SelectSeq` cannot be expanded.

## 9. What the violated runs show

- `wallet_drift` / `Conservation`: a top-up loads the user, a charge commits,
  the top-up locks the user, does not reload it and writes the old balance plus
  the amount. The ledger keeps both rows, the balance forgets the charge; the
  daily job reports it as drift. Redemption has the same shape.
- `wallet_adjust` / `AdjustmentIsBooked`: the constructor of the ledger row
  raises without `ref_type` and `ref_id`, and `admin_adjust` passes neither.
- `calllog_ack` / `AckIsLogged`: one entry that lacks its create fields (its
  update came while the first half was in flight, and that flush failed) makes
  the endpoint roll back the rows of the other entries, then answer ok.
- `upstream_tiers` / `TiersDescend`: priorities 3, 2, 1 are tried as 3, 1, 2.
  The first retry passes 1 as the tier, but priority 3 is gone from the
  candidates, so index 1 is the lowest of the two left; the second passes 2,
  is capped to the last index of the one left, and climbs back.

## 10. Not modelled, and why

- `freeze`, `settle`, `refund` and the single-row call-log endpoints: nothing
  calls them.
- The lifecycle of the processes (`main.py`), logging, observability, schemas,
  migrations, containers, scripts and the load test of the GPU: no state that
  two actors share.
- The pools of HTTP and SDK clients; the profile and registration of users; the
  queries that only read `usage_stats` back, most filters of lists, and the
  comparison of replayed calls: one read each. Of the filters the default window of the
  user's own list of calls matters: it is taken anew for every page
  (`billing.py:282-289`, the last 30 days from now), so a row that ages out between two pages
  moves those behind it, and one can be missed without a tie. `PagesMissOnlyTies` is
  about a window that stays.
- The networks of inference-service: numerical.
- Deadlocks that the database resolves appear only as `Abort` or a failed request.
- Amounts are unbounded integers: the columns are BIGINT in micro-yuan, far from
  overflow. Within the wallet, `total_requests` and `total_tokens`, which move
  with `used_amount` and decide nothing, are left out; within the call log, the
  fields of a row other than its status; within upstream calls, the prices.
- Prices in pools and catalog are present or not.

Proofs. Of the 40 properties of the passing runs, 36 of them safety and 4
liveness, 36 are stated by theorems: every one that is safety. Model-checked only:

- `EventuallySettled`, `EveryCallEnds`, `DisabledLeaves`, `RecoversAlone`:
  liveness under fairness, which the prover does not do, nor `ENABLED`.

Induction over data is not available to the provers as a rule. What holds of every
set or sequence is had by taking a least counterexample (`LeastElement` of
`NumberFacts`), as for sums, folds and conversations.

RECURSIVE operators are used by none of the modules that proofs reach.
