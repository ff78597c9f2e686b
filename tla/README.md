# Guardrail: the account lock and everything around it

Guardrail watches futures accounts at Tradovate and locks an account for the rest of the
trading day when one of the trader's rules is breached, or when the trader asks for it.
This directory models the parts of the program that keep state and race for it: the lock
and what becomes of it at the broker, the realtime listener, the tokens, the trader's
settings, the counting of trades, the closing of positions, and the discovery of
accounts. It holds TLA+ modules translated from the source, the configurations that check
them with TLC, and proofs that TLAPS checks.

    tlc -workers 2 -config AccountLock_races.cfg AccountLock.tla
    tlapm AccountLock_proofs.tla

## 1. Inventory

| part | state | operations | what is hard about it |
|---|---|---|---|
| **Account lock and session state** (`lib/brokers/tradovate-sync.ts`, `lib/guardian-engine/*`, the webhook, lockout and reset routes) | one `LiveSessionState` row per account (riskState, counters, cooldown, session date); `InternalLockEvent` rows, unique by `activeDedupKey` while active | sync (cron and on demand), props event, trade webhook, lockout click, reset | five writers, no common lock, every `await` an interleaving; rollover of the trading day done three ways; failures and crashes between two writes; un-awaited lock upserts |
| **Broker enforcement** (`broker-enforcement-service.ts`, `manual-broker-lock-service.ts`, `brokers/enforcement.ts`) | `GuardianIntervention` rows with a unique dedup key, `brokerActionTaken` on the lock row | listener path, c7b script, manual lock, manual retry | the key is checked before and taken after the broker call; unconfirmed requests; retries; death between write and record |
| **Automatic flatten, order cancellation and consent** (`tradovate-sync.ts`, `enforcement.ts`, `cancel-open-orders.ts`, `flatten-positions.ts`, `automated-actions-consent.ts`) | none but the audit rows; orders and positions at the broker | exit by a sync, by the enforcement task, by the lockout click; editing the consent | orders fill between two calls; an answer lost is not a request lost; one of several steps fails; consent and switches read early |
| **Realtime listener** (`tradovate-user-sync-listener.ts`, `tradovate-listener-manager.ts`, `scripts/tradovate-listener-worker.ts`) | a socket, timers and retry flags per connection; `listenerStatus`, `listenerNextRetryAt` in `BrokerConnection` | connect, authorise, heartbeat, reconnect, give up, cool down; the worker's scan; shutdown | callbacks after `close()`; scans that overlap; row updates that are not awaited and land in any order; death of the worker; fills nobody heard |
| **Token renewal** (`tradovate-ensure-token.ts`, `tradovate-client.ts`, `cron/renew-tradovate-tokens`) | encrypted tokens, status, expiry and `lastRenewedAt` in `BrokerConnection`; status of the linked `ConnectedAccount` rows | renew, refresh, store, heal, mark expired, reconnect | cron, syncs, listener and clients rotate one refresh token without a lock; three writes to store, two to mark, no transaction; the answer of a grant may be lost |
| **Broker REST client** (`tradovate-client.ts`) | tokens in memory | requests and parsing | renews with tokens that may be stale |
| **Rule edits and pending promotion** (`api/accounts/[id]`, `api/rules`, `rules/copy`, `pending-rule-promoter.ts`) | `AccountRiskRules` or the template `RiskRules`, each with a queued change | edit, queue, copy, promote by cron | an edit judged by what was read before the first trade; a promoter that applies what it read |
| **Account protection, disconnect and removal** (`protection/route.ts`, `account-removal-*.ts`, `pending-connected-account-promoter.ts`) | protection status and a deferred change with its date | change, defer, archive, disconnect, import | two clocks (17:00 and midnight); a cron that archives what it read as deferred |
| **Trade counting** (`canonical-trade-count.ts`, `fill-classifier.ts`, webhook and sync) | `NormalizedTradeEvent` rows, `tradesCount` | webhook, sync | the same fill by two paths; late, repeated and reordered webhooks; death between the row and its effect |
| **Futures exposure** (`position-exposure.ts`, `contracts.ts`, `symbol-limits.ts`) | none, pure | weigh positions against limits | mixed sizes, unknown symbols |
| **Trading day and market hours** (`trading-day.ts`, `market-hours.ts`, `cme-session.ts`) | none, pure | the session key, the calendar date, whether the market is open | key and date disagree from midnight to 17:00 |
| Manual guardian sessions (`guardian.ts`, `rule-engine.ts`) | counters entered by hand | start, end, enable | none of it is concurrent with the lock |
| Position limits at the broker (`tradovate-position-limit.ts`, `tradovate-risk-settings-service.ts`) | at the broker | read, write | permissions |
| **OAuth connect, discovery, rate limiting** (`tradovate-discovery.ts`, `discovery-decision.ts`, callback, finalize, reattach and delete routes) | which `ConnectedAccount` is reached through which `BrokerConnection`, missing and expired flags | discover, authorise, pick, reconnect, reattach, disconnect, delete | discoveries over one or two connections decide on links read before a loop of writes; every request reads first and writes later |
| **Trade history and statistics** (`round-trips.ts`, `merge.ts`, `load.ts`, `stats.ts`) | none, pure | merge rows and reports, reconstruct trades | partial exits, scale-ins, reversals, two sources of one fill |
| Users, billing, Telegram, coach | various | request handlers | outside the lock |
| User interface | none | pages | shows what the others keep |

Parts in bold are modelled, wholly or in part (`PROJECT.json` says which).

How they meet. The broker client feeds numbers to the **sync**, which evaluates the rules
and writes the session row and, for three rules, a lock row; a sync that stops the account
starts the **enforcement** without awaiting it and may first send the exit of the
positions. The **listener** hands socket frames to `applyInternalLockForConnection`,
which works on the session row, not on the frame; a lock it finds or creates is handed,
not awaited, to broker enforcement, and each return of the listener starts a sync. The
**webhook** stores the fill, updates the counters and applies its own interventions. The
**click** cancels orders, flattens, writes session and lock in one transaction and then
calls manual broker enforcement. **Settings** read the session row and the locks to decide
what may change now; the rules in force are what the sync evaluates. **Discovery** runs before
the syncs of a connection and creates and moves the rows everything else is keyed by;
**renewal** keeps the connection those go through. Everything is shared through Postgres;
the only mutual exclusion is the unique indexes (dedup key, active lock, trade event,
account) and the transactions of a few handlers.

What makes each part correct:

- an active lock becomes the risk state, whatever writes over it, and no sync overrides a
  lock that stood before it read the rules;
- an outcome recorded for a rule and day is final for the callers that begin later, a lock
  is reported only when the broker confirmed it, and every outcome is entered by the
  call's turn; that the broker is asked once is promised, and not kept;
- an account over its maximum position is stopped, and gets below it while the trader has
  consented and no rule that outranks it is in breach; nothing is sent without the
  consent; a lockout that reports success leaves the account flat;
- a healthy connection is heard again whatever happened; what was missed is read back; an
  unhealthy connection is left alone; that there is one listener is promised, and not
  kept;
- no refresh token is lost that could have been kept, and a connection that still works
  does not stay expired;
- the plan does not change while the account trades; what is queued comes into force, and
  so does a removal;
- the trade count comes to be that of the broker's report or of the recount, whatever was
  lost, repeated or reordered; the history accounts for every lot, price and fee that it
  knows once;
- every active account of the broker has a row with a connection, and the rows come to say
  what the broker says.

## 2. Modules

| module | models | used by |
|---|---|---|
| `AccountLock` | session row and locks of one account, five handlers | `AccountLock_proofs` |
| `BrokerEnforcement`, `EnforcementLedger` | enforcement by dedup key; its promise | `BrokerEnforcement_proofs` |
| `TokenRenewal` | one connection's tokens | `TokenRenewal_proofs` |
| `Listener` | one connection's listener and worker | `Listener_proofs` |
| `AccountSession` | one account over hours and sessions, as the settings see it | `RuleEdits`, `Removal` |
| `RuleEdits`, `Removal` | plan edits; status and removal | `Settings` |
| `Settings` | both over one account | `Settings_proofs` |
| `Fills` | fills, the rows that store them, the pure counts | `TradeCount`, `TradeHistory` |
| `TradeCount`, `TradeCountMC` | the two paths into the count; its instance | `Trades_proofs` |
| `TradeHistory`, `TradeHistoryMC` | the reconstruction of trades; its instance | `Trades_proofs` |
| `Exposure` | the position size rule, pure | `PositionExit` |
| `PositionExit`, `PositionExitMC` | the exits of one account; its instance | `PositionExit_proofs` |
| `Discovery` | accounts and the connections they hang on | `Discovery_proofs` |

A handler is always cut at its database and broker accesses: what lies between two
accesses is one action, and what one statement or transaction writes is written at once.
Definitions named `X_Something` are mutated forms of `X` that some property must reject;
no specification uses them. A `TypeOK` is proved where there is a proof module
(section 4) and otherwise kept as documentation of the state space.

### AccountLock

One protected demo account (every query is scoped by `accountId`, so accounts do not
interact). `session` is the `LiveSessionState` row; `locks` is the set of active lock
keys; `sync`, `props`, `hook` and `click` are the handlers in flight, each with a
program counter and the locals it still needs. A handler is cut at its database accesses:
what lies between two accesses is one action, and what one statement or transaction
writes is written at once.

| action | code |
|---|---|
| `SyncStart`, `SyncEvaluate`, `SyncHold`, `SyncPersist`, `SyncClear`, `SyncLock`, `SyncFail` | `syncTradovateAccount`: trading-day key; row and rules read and evaluated; `shouldHoldRiskStateStopped`; the upsert of the row; the rollover's `updateMany` of the locks; the lock upsert that is not awaited; the `catch`, or a crash, anywhere |
| `PropsRead`, `PropsApply`, `PropsLookup`, `PropsBackfill` | `applyInternalLockForConnection` |
| `HookRead`, `HookCreate`, `HookRollover`, `HookExpire`, `HookTrade`, `HookAct` | the webhook route with `getOrCreateSessionState`, `applyTradeClose`, `detectIntervention`, `setCooldown` and `setRiskState` |
| `ClickPlan`, `ClickCommit` | the lockout route |
| `ResetSession` | `reset-session-state` |
| `NextDay`, `SessionEnds`, `CooldownElapses` | the clock |

Abstractions. A loss is a level (below 80 %, from 80 %, at the limit), since that is all
a comparison sees; counters stop at the value past which no comparison changes, and are
kept only for rules in `Configured`. A sync's reading of the broker is any consistent
reading (`Readings`): the broker's numbers may disagree with the counters the webhook
keeps, as the code allows. Trade counts are taken as verified, which is when the code
enforces on them. The environment flags that arm the internal lock are taken as set, and
`max_position_size` in `Configured` as "a contract limit is set". Warnings the
detector derives from single trades are a choice, since the trades are not kept. An
intervention that `alreadyFired` suppresses is likewise a choice. A props event that finds
Guardian switched off does nothing, as one that does not come.

`standing[s]` is a history variable: the locks active ever since sync `s` read the rules.

### BrokerEnforcement, EnforcementLedger

`BrokerEnforcement` starts where `AccountLock` ends, with lock rows that come and go
(`LockBorn`, `LockCleared`). Four callers go through load, check, write, record and, in
the manual paths, mark; they differ in the guard of `Check` and in how they record, and
have an action for each step (`ListenerLoad`, `ListenerCheck`, ..., `RetryRecord`,
`Mark`; `AutomaticWrite` is `applyBrokerDayLockout` in `lock_only` mode, `ManualWrite`
is `applyManualBrokerLock`). `Results` is what a broker call comes to: a confirmed lock
was sent, a dry run was not, a failure may be either (an error or an unconfirmed
read-back may follow a request that took effect). `Die` ends a call anywhere.
`confirmed` and `late` are history.

`EnforcementLedger` is what the callers keep to per dedup key, however they overlap. A call
needs a turn to ask the broker; it is given at the look at the key's outcome (`Grant`),
never once a lock is entered there; the call asks at most once in it (`Ask`); the turn ends
with an outcome entered (`Enter`) or without (`Leave`); only a call that has asked enters a
lock; and a turn given on a key without outcome never overwrites one entered meanwhile.
`BrokerEnforcement` implements it in every interleaving, with `outcome <- recorded` and as
`turns` the calls between check and record (`TurnOf`). The ledger does not say that one
turn is given at a time: it is not so, see section 3.

Left out here: the sync's own `triggerEnforcement` (tradovate-sync.ts 843), which passes
no dedup key and so neither sees nor leaves a mark this protocol looks at; flatten and
cancel, which the modelled callers do not run.

### TokenRenewal

One `BrokerConnection` row: `conn` and `accounts` are the statuses, `refresh` the stored
refresh token, `age` what `tokenExpiresAt` and `lastRenewedAt` say of the access token.
`call[c]` is a process that calls again and again, as cron, sync, listener, client, probe
or reconnect; `valid` and `minted` are the broker's refresh tokens; `lost` is history.

| action | code |
|---|---|
| `CronHeal`, `CronSelect` | the cron's heal and its query |
| `EnsureLoad` | `ensureTradovateAccessToken` up to attempt 1, from cron, sync or listener |
| `ClientLoad`, `ClientUnauthorized`, `ClientRetry`, `ClientDone` | `TradovateClient`: `initialize`; a first and a second 401; the end of its use |
| `RenewAccepted`, `RenewFailed` | attempt 1, and what its failure leads to |
| `GrantAccepted`, `GrantRefused`, `GrantUnanswered` | attempt 2 |
| `Store`, `HealConn`, `HealAccounts`, `StoreFails` | `persistRenewedTokens`, `#storeRefreshedTokens` |
| `Mark`, `MarkAccounts` | `markExpiredWithAccounts`, `#markConnectionExpired` |
| `ProbeRead`, `ReconnectGrant`, `ReconnectStore` | the probe's heal, the OAuth callback |
| `Die`, `Revoke`, `Age` | a crash, the user at Tradovate, the clock |

Abstractions. Time is five ages of a token, cut where the code compares: 60 s after a
renewal (race guard), 25 min (cron) and 15 min (renewal) before its expiry; a token is
taken to live longer than an hour and shorter than the cron's two-hour heal window, and to
have a known expiry. The broker takes a refresh token once, or leaves it in force;
it refuses only those it has replaced or the user withdrew; whether it takes an access
token is free, so attempt 1 may succeed or fail at any time. `lastRenewError`, error
texts and legacy accounts that keep tokens of their own are left out. So is the trade
webhook's write of `connected_live`, which touches one account and no token.

`MayFail` lets a process die and a write fail. `Timely` keeps the clock from
bringing a token to its last 25 minutes, half an hour or more after its renewal, while a
call that overlapped the renewal is still running or the cron (every ten minutes) has not
come round. `Crossing = FALSE` keeps the user
from authorising between a renewal's grant and its write: with it the later write may
hold the older token, and what that is worth is the broker's decision.

### Listener

One connection. `ear[l]` is a `TradovateUserSyncListener` object (state, `#closed`, the
token fetch it awaits, its socket, its counters and flags), `managed` the manager's map
entry, `scan[s]` a reconcile pass of the worker, `row` the listener columns of the
`BrokerConnection`, `writes` the row updates issued and not landed, `gap` the fills nobody
heard.

| action | code |
|---|---|
| `TimerFires`, `TokenArrives`, `TokenFails`, `OpenFrame`, `Heartbeat`, `AuthAccepted`, `SyncAccepted`, `AskClose` | `#connect`, `#sendAuthorize`, `#handleFrame` and what follows, callback by callback |
| `Auth401First`, `Auth401Again` | the first 401 (forced refresh on the next connect), the second (give up) |
| `SocketClosesClosed`, `SocketClosesRetry`, `SocketClosesTerminal` | `onclose`, by what it finds |
| `WriteLands`, `WriteFails`, `CooldownPasses` | the worker's `updateConnectionStatus` calls, not awaited; the clock |
| `ScanRead`, `ScanClear`, `ScanStop`, `ScanClosed`, `ScanDedup`, `ScanUnresolved`, `ScanMark`, `ScanStart` | `reconcileListeners` with `planListenerStartups`, `startListener` and `stopListener` |
| `Crash`, `Shutdown`, `BecomesUnhealthy`, `BecomesHealthy`, `Repair` | the process, the filters of the plan, the repair routes |
| `Fill`, `CatchUp` | a fill nobody hears; `reconcileConnectionAccounts` |

Abstractions. "recovering" stands for connecting, reconnecting, closed and null, which the
plan treats alike; "cooling" and "lapsed" for an error whose retry time is ahead or past.
Delays and backoff are nondeterminism. A write in flight absorbs one like it. `MayDie` and
`Fills` let the worker die and fills come; what a stopped listener's last refusal does to
the map is in every instance.

### AccountSession, RuleEdits, Removal, Settings

`AccountSession` is one account over the day: `phase` (evening, day, break), whether a
trade of the session is on record, the flags of the session row, an active lock, and the
account's connection, status and deferred status. `Tick` passes the hours, `Weekend` the
long break; `SyncAccount`, `Webhook`, `Lockout`, `ResetSession`, `ConnectionLapses` are
the handlers of the other modules reduced to what the settings see of them. Two clocks
matter: a session key is the date of its opening until 17:00 Chicago time, while the
removal routes compare it with the calendar date, which moves on at midnight
(`KeyIsDate`).

| action | code |
|---|---|
| `PatchPlan`, `CopyPlan`, `PatchTemplate` | the three routes up to their decision: refuse, queue or apply |
| `WritePlan`, `WriteTemplate`, `EditFails` | their write |
| `PromotePlan`, `PromotedPlan`, `PromoteTemplate`, `PromotedTemplate`, `PromotionFails` | `pending-rule-promoter.ts`, read and write |
| `Archive`, `ChangeStatus`, `Disconnect`, `Connect` | the protection and disconnect routes, OAuth, up to their decision |
| `WriteMove`, `MoveFails` | their write |
| `StartArchival`, `FinishArchival`, `ArchivalFails` | `pending-connected-account-promoter.ts` |

`Settings` composes both over one `AccountSession`: they share the account row and the
cron. Abstractions. A plan is the number of the request that set it, since no decision
looks into it. The user's windows (session hours, protection hours, the manual lockout
flag) are a Boolean free at each request. One request and one promoted row at a time of
each kind; `calm` is history.

### Fills, TradeCount, TradeHistory

`Fills` has the broker's fills in order, the `NormalizedTradeEvent` rows that store them
(by the webhook as one of three "trade_closed" types, as the broker states a profit, a loss
or neither, `EventType`; by the sync as "fill"), `ClassifyFill`, the deduplication and the
canonical counts. Two references are computed from the fills: `Trips`, those that end a
trade, and `Openings`, those that open a position. `TradeCount` has the webhook
(`HookCheck`, `HookCreate`, `HookJudge`, `HookApply`, `HookDies`) and the sync
(`SyncFetch`, `SyncStore`, `SyncCount`, `SyncWrite`, `SyncDies`) over them, with `Execute`
for the trader. The count a sync writes is the broker's report, which counts openings, or
the recount, which counts trades completed: they differ by the position that is open.

`TradeHistory` has no process of its own: its actions bring about every way in which fills
can have been stored and reported (`Executed`, `Store`, `StoreOrder`, `Report`).
`loadAccountFillInputs` does not look at the type of a row, so `Events` has all of them:
both rows of a fill that both paths stored, and the rows of limit orders; then the
reported fills that no row has. `Merged` is their sorted union; `Books[k]` is what
`reconstructRoundTrips` has made of its first k fills by `AfterFill`, and `Book` the end of
the walk. A fill opens at most one lot, so the queues of lots are kept as what is left of
each fill (`left`): the lots of a contract are its fills with something left, in their
order, and `Taken` says how much of each a close consumes from the front. `KnownOnce` says
that no fill is in the history twice, by two rows or by the row of its order.

Abstractions. A fill is its number: ids and times grow with it, and an order has the
number of its fill. `Price` and `Fee` give each fill any price and any fee per contract,
and a point is worth one. The broker's own P&L of a fill, which replaces the computed one
where there is one, is left out.

### Exposure, PositionExit

`Exposure` is `deriveMaxPositionSizeBreach` over the crude-oil family of the registry.
`PositionExit` has one account: `market` per symbol (flat; an order live in a state the
client's list leaves out, "held"; working; open; leaving), `consent`, `breach` (another
limit in breach), `stopped`, the environment (permission, status, switches), and the
processes in `act`.

| action | code |
|---|---|
| `SyncRead`, `SyncRules`, `SyncDecide`, `SyncPersist`, `SyncFails` | `syncTradovateAccount`: position read, rules and consent read, session row read with decision and gate, row and enforcement |
| `TaskGate`, `TaskConsent`, `TaskThrows`, `TaskLock`, `TaskRecord`, `TaskDies` | `triggerEnforcement`, `applyBrokerDayLockout` |
| `ClickBegin`, `ClickCancel`, `ClickCancelled`, `ClickCommit` | the lockout route, `cancelOpenOrders` |
| `ExitRead`, `ExitSend`, `ExitConfirm`, `ExitFails` | `applyFlattenOpenPositions`, shared by the three |
| `Order`, `Release`, `Fill`, `Liquidated`, `CloseByHand`, `EditConsent`, `BreachMoves`, `OthersMoveTheRisk` | the trader, the broker, the day's loss and the limits, the other handlers |

Abstractions. An order is working until it fills or is cancelled, a cancellation accepted
is done, and a liquidation the broker took is filled later. A sync may begin on any
connection (the button, a discovery and the listener do not ask for its status); the cron's
syncs, which fairness is about, need `Connected`. What other handlers do to the risk state
is any change at any time. `lost`, `agreed` and `clean` are history; `hidden` is what a
click's list of orders left out.

### Discovery

Two connections of one broker login. `roster` is what `/account/list` says of each
account, `conns` the connections, `rows` the `ConnectedAccount` of each account (link,
status, missing, expired), `runs` the discoveries under way, `setup` a pick after OAuth,
`request` any other request of the user.

| action | code |
|---|---|
| `Fetch`, `Read`, `WriteMatched`, `Create`, `Flag`, `RunDies` | `runDiscoveryForConnection`, `decideReconciliation`, `reconcileDiscoveredAccounts` |
| `Authorize`, `Find`, `Save` | the OAuth callback, finalize |
| `Reconnect`, `Heal`, `Sweep` | the callback of a reconnect |
| `Reattach`, `Attach` | the reattach route |
| `DeleteConnection`, `Disconnect`, `ArchiveNext`, `Count`, `Delete` | the connection's delete and disconnect routes |
| `Decide` | the protection routes, `DELETE /api/accounts/[id]` |
| `RosterChanges`, `Expire`, `Renew` | the broker; the expiry and renewal of tokens |

Abstractions. "undecided" is pending_decision or ignored, "guarded" protected or
monitor_only, "removed" an account with `isActive` false. One request of the user besides
a setup at a time. A fetch that fails or is refused changes nothing. A discovery may run
over an expired connection, whose token may still be taken: only the button of one account
does that, so it costs one of the `MaxEvents`.

## 3. Runs

| run | instance | shows |
|---|---|---|
| `AccountLock_races` | one sync, props event, webhook and click, with failures, two days; 2.2 million states | every overlap over a rollover: a sync overrides no lock that stood since it read (`HoldIsEffective`) |
| `AccountLock_live` | the same handlers, losing streak and session end, one day, `FairSpec` | an active lock becomes the risk state (`LockTakesEffect`), also after a sync that looked before it was there, an expired cooldown or a session end wrote over it |
| `BrokerEnforcement_races` | three overlapping calls of any kind, failures and deaths | a key recorded before a call began stops it (`RecordedKeyIsFinal`), nothing claims an unconfirmed lock (`NoFalseLock`), and the refinement of `EnforcementLedger` (`LedgerKept`) |
| `BrokerEnforcement_twice` | two overlapping calls | **violated**: `AtMostOneRequest` |
| `TokenRenewal_races` | two processes of any kind, failures, deaths, ageing; 1.32 million states | no overlap loses a refresh token (`RefreshTokenKept`); a connection falsely expired is one the cron will heal (`FalseExpiryIsHealed`) |
| `Listener_live` | one object, one pass, deaths, fills, `FairSpec` | `TypeOK`, `GapIsCovered`; a healthy connection is heard again (`HealthyIsHeardAgain`), the row ends up saying so (`HeardIsShown`), an unhealthy one is left (`UnhealthyIsLeft`) |
| `Listener_stray` | two objects, one pass | **violated**: `OneListener` |
| `Settings_races` | two requests, edits and moves together, over any number of days, `FairSpec` | `PlanHoldsWhileTrading`; what is queued drains (`QueueDrains`), a deferred removal comes (`RemovalComes`) |
| `TradeCount_races` | three fills, two webhooks, one sync, `FairSpec` | `OrderlyCountIsExact`, `AppliedOnce`; the count settles on the report's or the recount's (`CountSettles`) |
| `TradeHistory` | three fills of one or two lots and one order, stored and reported in any way | `CanonicalCountIsRight`, `MoneyIsAccountedFor`, `OpenLotsAreTheNewest`, `HistoryAgreesWithCount` |
| `PositionExit` | one product over its limit, five environments, one sync, task and click, `FairSpec` | `LockoutLeavesFlat`, `RowsAreTrue`, `AutomaticWritesAreArmed`; an account over its limit is stopped (`OverLimitStops`) and gets below it (`OverLimitIsLeft`) |
| `Discovery_races` | two accounts, two connections, two discoveries, also over expired connections, `FairSpec` | the rows come to mirror the broker (`RosterIsMirrored`), every active account is found (`EveryAccountIsFound`) |

The two runs marked *violated* state what a comment of the repository promises; TLC finds
the behaviour that breaks it, and "Where the code differs" tells it.

Several properties hold only under an exception that their formulas name: `calm` (nothing
happened between a read and its write), `orderly` (webhooks in order, one at a time),
`lost` (a lock write that threw after a liquidation, or a token whose write failed),
`hidden` (orders the client's list leaves out), `KnownOnce` (no fill twice in the history),
`breach = "none"` (no rule that outranks the position size). Each exception is a behaviour
of the code listed below; outside it the property holds in every interleaving.

### Bounds

`AccountLock`: one handler of each kind; a property that fails takes one actor between two
steps of another, and every pair of kinds occurs. `MaxDay = 2` gives the rollover;
`LockTakesEffect` needs none, since a new day only adds an end of the lock.
`MaxTradesPerDay` and `StopAfterLosses` are 1, the first value at which `>=` and `>`
differ; `TradeCap` keeps one trade past the allowance. `BrokerEnforcement`: three calls
over two keys give two that overlap and a third that sees what they leave. `TokenRenewal`:
two processes that call for ever give every pair of kinds and every overlap of two
renewals; three tokens give a chain of two rotations. `Listener`: one object and one pass
meet every order of callbacks, writes and deaths, which the liveness properties are about;
two objects are needed for the stray listener; the theorems cover any number.
`MaxAuthFailures = 2` is the least with a retry before giving up. `Settings`:
`MaxRequests = 2` gives a request that replaces another; sessions are not counted, so days
pass without bound. `TradeCount`: three fills open, close and reverse a position, two
webhooks overlap each other and a sync; the profit of one fill is stated and that of the
others is not. `TradeHistory`: three fills suffice for two lots partly closed, and for a
reversal after a scale-in; the instance makes price and fee of each fill unlike any
other's; one order row shows what order rows do. `PositionExit`: CL at 2 lots against a
limit of 1, `MaxInFlight = 2`; an instance with two products (1.3 million states) was
explored for the safety properties. `Discovery`: `MaxEvents = 2` allows any two of expiry,
death, roster change, request and discovery over an expired connection in one behaviour.
The theorems do not depend on these bounds.

`CHECK_DEADLOCK` is off in two configurations: in `TradeHistory` there is nothing left to
do once every fill is stored and reported, and in `Discovery_races` once the events are
used up and every connection is deleted or expired. Elsewhere something may always happen.

### Fairness

Nothing is assumed of the trader, of webhooks, clicks, resets, crashes or failures. What
is assumed is that schedulers go on and that the broker and the database, which may refuse
any number of times, do not refuse for ever what is asked again and again: strong
fairness for a step a failure may preempt, weak fairness for one it cannot.

- `AccountLock`: strong on each step of a sync, since the cron retries for ever; nothing of
  a props event, since the code expects none to come (internal-lock-evaluator-db.ts:378).
- `Listener`: weak on what the process does by itself (timers, a fetch ends, a socket
  asked to close closes, the broker recycles a socket nobody manages), on the scans
  (`setInterval`), the heartbeats and the end of a write; strong on the broker's token,
  open frame and two acceptances and on the write of "connected".
- `Settings`: the hours pass; the cron runs every few minutes, so in every break.
- `TradeCount`: requests end; strong on a sync's fetch and count.
- `PositionExit`: processes go on, a liquidation is filled; strong on a sync of a connected
  account that sees all (`SeesAll`; the cron takes no other, cron/tradovate-sync/route.ts:39),
  stops the account and is accepted. Both liveness properties are about connected accounts
  only.
- `Discovery`: strong on the cron's fetch over a working connection that guards an account;
  weak on the steps of a discovery and on renewals. Nothing is assumed of the button.

Without the retries none of the liveness properties holds: one failure would leave the row
as it is.

### Where the code differs from what it says

Met while modelling. Two have a run of their own that TLC ends with a counterexample; the
others are in the modules' behaviours too, no run is spent on them, and no property is
stated that holds only because they are left out. A line quoted is a doc or comment of the
repository.

*Asked twice* (`BrokerEnforcement_twice`). "The DB unique constraint on
GuardianIntervention.listenerBrokerDedupKey enforces at-most-once semantics even under
concurrent props events" (broker-enforcement-dedup.ts:19). The key is looked up before the
broker is called and taken after (broker-enforcement-service.ts:173, enforcement.ts:703): two
overlapping events both pass the look, both ask the broker, and the constraint refuses only
the second row. That request is then logged nowhere, although "all outcomes - including
failures - are logged" (enforcement.ts:60); so is one whose row a failing database refuses.

*Two listeners* (`Listener_stray`). "At most one TradovateUserSyncListener per
brokerConnectionId" (tradovate-listener-manager.ts:5). A listener stopped in the middle of
a token fetch still connects; when it is refused for the last time, `onTerminalError` deletes
the connection's map entry (line 145), which by then is that of its successor. The
successor runs on, no scan sees or stops it, and the next scan starts a third.

*Lock.* An expired cooldown sets NORMAL under an active lock (session-state.ts:61; "the
account is locked until the lock is cleared", internal-lock-evaluator.ts:58); a later sync
stops the account again, which is all that `LockTakesEffect` says. A webhook or a click that
rolls the day over leaves yesterday's lock active and hides the rollover from the sync that
would clear it (session-state.ts:40, schema.prisma:754). A lockout clicked before the first
sync of a day is cleared by that sync (tradovate-sync.ts:822; "manual same-day account
lockout", lockout-helpers.ts:2). Two webhook requests that both see an elapsed cooldown end a newer
one, set in between. The lock upsert of a sync is not awaited, and when it fails nothing is
bound to write the lock. The sync after the one that stopped the account at session end sets
NORMAL, since a stopped account has no session end (enforcement-helpers.ts:574) and session
end writes no lock; a webhook lockdown writes none either. The sync stops at
`tradesCount >= maxTradesPerDay` (tradovate-sync.ts:618), the listener past the allowance
(dry-run-rule-evaluator.ts:95). The sync that rolls the session over evaluates the losing
streak of the old row (tradovate-sync.ts:626). The sync does not look at the Guardian
switch.

*Broker.* The c7b script records the enforcement that follows a dry run without the key, so
it can be repeated (broker-enforcement-service.ts:455). Overlapping retries may overwrite
`broker_locked` (manual-broker-lock-service.ts:300).

*Tokens.* The race guard looks at `lastRenewedAt` only as the loser marks the connection;
a loser refused before the winner has stored passes it, and its second, unguarded write
may expire the accounts after the winner healed them: they stay expired under a connected
connection, and are refused flatten and cancel (tradovate-ensure-token.ts:402-425,
order-actions-helpers.ts:56). The cron restores a connection whose authorisation the user
withdrew within two hours of a renewal, and not its accounts.

*Listener.* The force flag is used up before the token is had, so a reason "401 after forced
token refresh" may be untrue. Writes that are not awaited may drop a cooldown. Heartbeats
write "connected" before the listener is authorised. Nothing watches a socket that falls
silent. A scan's old rows may restart a listener right after it gave up.

*Settings.* The eligibility for removal compares the session key with the calendar date
(account-removal-eligibility.ts:83): from midnight to 17:00 an account stopped without a
lock row is archived at once, and one whose removal was deferred in the evening is
archived by the cron in the session that stopped it ("we CANNOT bypass a rule lockout or
session stop", protection/route.ts:88). Asking for the present status says "applied" and
keeps a deferred archive; so does importing the account. A deferred "ignored" or
"monitor_only" is never applied, though the answer says "Changes will apply from the next
trading day" (line 182): only an archive has a promoter. Promotion
looks at the market and not at `pendingEffectiveDate`, though the cron's header says so,
and promotes while the account is stopped or cools down. A promoter that read before an
edit overwrites it, and clears what it has queued (pending-rule-promoter.ts:278); a cron
that read an account as deferred archives it though the user has moved it since
(pending-connected-account-promoter.ts:96). The copy route ignores a stop. A read-only connection counts as not
live. The delete route is not guarded by a stop. The webhook and the listener use only
the account's own rules, the sync also the template.

*Counting.* The report counts positions opened and overrides the recount, which counts trades
completed ("matches the product definition exactly", tradovate-sync.ts:323): the count may
change by the open position as the report comes and goes. The unique index includes the
event type, so a fill stored by both paths has two rows and advances the session state twice
until the next sync ("makes duplicate inserts impossible", schema.prisma:673). The history
reads all rows, whatever their type (load.ts:28): it takes both rows of such a fill, and the
rows of limit orders for fills. A position entered in rows and left in the report is not
paired (keys by contract id and by symbol). A trade is emitted at each partial exit, where a
comment says "when the position returns to flat" (round-trips.ts:314), and each losing partial
exit counts as a loss in a row. Late webhooks miscount until the next sync; a position held
over 17:00 starts the count as if flat.

*Exits.* An exception in the lock write is recorded as "not_needed" although a liquidation
may have been sent (enforcement.ts:651; "All outcomes ... are logged", line 60); a click's
exit that throws leaves no row. A flatten on an account already stopped leaves none. An
`errorText` of liquidatepositions is ignored. The automatic flatten of an enforcement task
ignores the order-actions switch ("all order actions run in dry-run simulation only",
order-actions-flag.ts:4). A lockout cancels the orders in state Working or Pending only
(tradovate-client.ts:1028): one that is suspended or about to be accepted outlives a lockout
that reports success. A lockout clicked again cancels the working liquidation of the one
before. The cron syncs connected accounts only, so one over its limit on a dead connection is
read by nobody until somebody asks. While a loss or trade limit stays in breach it
outranks the position size (tradovate-sync.ts:603), and the over-limit position is not exited
again. The settings page says the session cutoff is not active, while the sync stops and
flattens. A position read that failed counts as flat. An unresolved contract counts as
unsupported and stops the account.

*Discovery.* Whose row it is is decided on the link read before a loop of writes, and the
write does not ask again: a row that a reattach or a newer grant has moved in between is
taken back ("must not be reclaimed by this sync", tradovate-discovery.ts:203). The sync
route of one account runs discovery without looking at the connection's status (line 279):
as long as an expired connection's token is still taken, two discoveries can pass an
unlinked row back and forth. A row whose connection expired is not moved by another
connection's discovery. A row without connection that is not listed is never flagged. The
cron discovers only over connections that guard an account. A removed account is marked
expired with its connection, and the heal then shows it as connected. A reattached account
shows "expired" until the next renewal.

## 4. Proofs

| theorem | says |
|---|---|
| `AccountLock_proofs!TypeCorrect` | `Spec => []TypeOK` |
| `AccountLock_proofs!HoldCorrect` | `Spec => []HoldIsEffective` |
| `BrokerEnforcement_proofs!TypeCorrect` | `Spec => []TypeOK` |
| `BrokerEnforcement_proofs!FinalCorrect` | `Spec => []RecordedKeyIsFinal` |
| `BrokerEnforcement_proofs!NoFalseLockCorrect` | `Spec => []NoFalseLock` |
| `BrokerEnforcement_proofs!LedgerCorrect` | `Spec => LedgerKept` |
| `TokenRenewal_proofs!TypeCorrect` | `Spec => []TypeOK` |
| `TokenRenewal_proofs!KeptCorrect` | `~Crossing`: `Spec => []RefreshTokenKept` |
| `TokenRenewal_proofs!HealedCorrect` | `Timely`: `Spec => []FalseExpiryIsHealed` |
| `Listener_proofs!TypeCorrect` | `Spec => []TypeOK` |
| `Listener_proofs!GapCorrect` | `Spec => []GapIsCovered` |
| `Settings_proofs!TypeCorrect` | `Spec => []TypeOK` |
| `Settings_proofs!PlanHoldsCorrect` | `Spec => PlanHoldsWhileTrading` |
| `Trades_proofs!TypeCorrect` | `Spec => []TypeOK` |
| `Trades_proofs!AppliedOnceCorrect` | `Spec => AppliedOnce` |
| `Trades_proofs!OrderlyCorrect` | `Spec => []OrderlyCountIsExact` |
| `Trades_proofs!CanonicalCorrect` | `Spec => []CanonicalCountIsRight` |
| `Trades_proofs!MoneyCorrect` | `HistorySpec => []MoneyIsAccountedFor` |
| `Trades_proofs!NewestCorrect` | `HistorySpec => []OpenLotsAreTheNewest` |
| `Trades_proofs!HistoryCorrect` | `HistorySpec => []HistoryAgreesWithCount` |
| `Trades_proofs!HistoryCountCorrect` | `HistorySpec => []CanonicalCountIsRight` |
| `PositionExit_proofs!TypeCorrect` | `Spec => []TypeOK` |
| `PositionExit_proofs!ArmedCorrect` | `Spec => []AutomaticWritesAreArmed` |
| `PositionExit_proofs!RowsCorrect` | `Spec => []RowsAreTrue` |
| `PositionExit_proofs!FlatCorrect` | `Spec => []LockoutLeavesFlat` |
| `Discovery_proofs!TypeCorrect` | `Spec => []TypeOK` |

They hold for any number of syncs, events, webhooks, clicks, tasks, requests, calls,
keys, listeners, scans, fills, accounts, connections and discoveries, any prices, fees,
limits, rules and number of days, with every overlap, failure and death the modules have.
The assumptions are those the modules state on their constants and the two named in the
table, `~Crossing` and `Timely`, as section 2 explains them under `TokenRenewal`.
`HealedCorrect` does not need `~Crossing`.

Each inductive invariant named below was checked by TLC on a small instance first.

*Account lock.* `HoldIsEffective` is not inductive: that a sync about to write NORMAL
overrides nothing rests on `StandingIsActive`, every lock counted as standing is active.
The lookup of `SyncHold` finds no lock, so none is standing; a lock born later is not
counted; and every action that clears locks empties `standing`.

*Broker.* `IInv` joins to `NoFalseLock` that a call which carries `broker_locked`
towards its record, or towards the mark on the lock row, is of a key the broker confirmed
(`Sound`); `RecordedKeyIsFinal` needs that a recorded key stays recorded. The refinement
needs little more (`LInv`): a call carries a lock only if it has asked (`Asks`). Then each
step of a call grants a turn, asks in one, ends one, or leaves the turns and the outcomes
alone (the loads, the checks that stop, the marks); the first turn leaves an outcome alone
because the listener's and the lockout's records create a row and never change one.

*Tokens.* `KInv` says that a token held by a call, received and not yet stored,
is known nowhere else - not in the row, not in another call's memory, not lost
(`HeldApart`), likewise a lost one (`LostApart`) - and is still valid (`HeldValid`). So a
grant that retires the token of one call cannot retire what another is about to store,
and a write of the row replaces the stored token only by one the broker takes. Each step
is one of four kinds (`DropKeeps`, `StoreKeeps`, `MintKeeps`, `LoseKeeps`) or leaves the
tokens alone.

`FalseExpiryIsHealed` says what the row is worth when a call expires it. `HInv` says what
each call knows: it works with the row's own token, or somebody has stored one since and
the row is recent (`Abreast`); one that has stored, or retries, leaves a recent row
(`Renewed`); one that marks was refused with a token the broker no longer takes, or the
row is recent (`Refused`). So a mark under a valid token falls on a recent row, which the
cron heals. `Timely` is what keeps a row recent while those calls run, and until the cron
has come round.

*Listener.* `GapIsCovered` speaks of the managed listener; `Covered` extends it to every
object, since one that was stopped may come up again. Its second part, `Apart`, says what
an object that waits does not have: a socket while it fetches a token or sits out a delay.
Hence a socket opens only on an object that is not ready, and "ready" is reached by
`SyncAccepted`, which starts the reconciliation.

*Settings.* `StillSo` says that while nothing has happened since a request or a promoter
read (`calm`), what it judged by is still so: a request that will write at once found no
trade on record, a promoter found the account safe. `PlanHoldsWhileTrading` is then a
matter of the four writing steps. `Carried` says that a request under way carries a plan.

*Trade count.* The model counts with the folds of the community modules, and the first
part of the module shows what they give: a fold over a finite set adds its members in
whatever order (`FoldExists`, `FoldAnyOrder`, `FoldAgrees`); the walk over the
deduplicated fills sees the position the earlier fills of the contract add up to
(`WalkIsNet`, `PositionIsHeld`); the ranks of `Deduplicated` list the stored fills in
order (`Sorted`). From these, the fill at which the classifier sees an exit or a reversal
ends a trade (`CompletesIsTrip`), so the canonical count is the number of trades
(`CountIsTrips`), and the entries are the trades and the contracts still open
(`EntriesAreTripsOrOpen`). Inductions over finite sets are done one instance at a time,
by a least counterexample (`LeastNatural`, `LeastSubset`).

The invariant of the processes is `Known`, `Once` and, while `orderly`, `Exact`. `Once`
says that a request which has created the row of a fill is the only one that holds it,
and that what was applied has its row: this is what the unique index gives. `Exact` says
that one process is under way (`Alone`), that no earlier fill is missing (`NoGap`), and
what the request or sync under way has still to add or write (`HookExact`, `SyncExact`,
`Settled`).

*Trade history.* What the state needs is little: what is stored or reported was executed
(`HistoryInv`). The work is in the walk, and it is an induction over its steps: three
claims about `Books[k]`, each kept by `AfterFill` (`BooksStep`: each book is made from
the one before).

- `LotsRight` states first in, first out in closed form. Let V be what the first j fills
  traded of the contract on the position's side, and W what the first k traded on the
  other. Then V - W, or nothing where that is negative, remains of the first j fills
  (`Remains`), and what is left of fill j is the difference between j and j - 1. A close
  moves W, an entry or scale-in moves V; a reversal swaps the two, which is why the claim
  is about both sides' volumes and not about the queue. `TakenIs` shows that the
  front of the queue, as `Taken` consumes it, is what `Remains` loses (`LotsStep`).
  `OpenLotsAreTheNewest` is `LotsRight` at the last fill, with the position as V - W
  (`PositionIsVolumes`).
- `MoneyRight` is `MoneyIsAccountedFor` after the first k fills. `FillLeaves` says how
  much a fill closes and opens, `CostMoves` what that does to the cost and the fees of
  the open lots, `ClosedTradeIs` what the trade shows; the three add up (`Balance`,
  `FeeBalance`, `MoneyStep`). The claim for partial exits and that for reversals are the
  same: only what is closed differs. That is about what the walk met; when every fill is
  known once (`KnownOnce`), what it met is the fills, and the claim is about their cash.
- The exits after which a contract shows nothing open are the fills that complete a trade
  by the position the walk has reached (`FlatStep`, `FlatExitsAreEnds`). With one row for
  each fill and none missing, that position is what the account holds
  (`PositionAtIsHeld`), so they are the trades of `Trips`, which the count was shown to
  find: `HistoryAgreesWithCount`.

The rules of sums they need (`SumIsFold`, `SumAdds`, `SumLinear`, `SumParts`, `SumMoved`)
are proved from the same facts about folds as the count.

*Exits.* `Sound` says for every step of every process what it has established:
`SyncIsSound` and `TaskIsSound` the switches passed, the consent seen while it held
(`Agrees`: who runs while a consent holds has noticed it), and that what the row will say
of the exit is what was sent (`Truthful`). For the row to answer for one exit only it
matters that a sync exits before its task for other rules than the daily loss, and a task
makes an exit of its own for that rule alone. `ClickIsSound` says of a click that is still
clean that every working order is on its list, then that none works, and at its end, if
the exit is reported done, that nothing is open.

Every safety invariant and action property that a passing run checks is also a theorem,
under the assumptions above. Of `Discovery`, whose properties are both of liveness, only the
types are proved. Model-checked only: every liveness property (`LockTakesEffect`,
`HealthyIsHeardAgain`, `HeardIsShown`, `UnhealthyIsLeft`,
`QueueDrains`, `RemovalComes`, `CountSettles`, `OverLimitStops`, `OverLimitIsLeft`,
`RosterIsMirrored`, `EveryAccountIsFound`), since fairness and ENABLED are out of the
prover's reach. What `Exposure` computes is checked through `PositionExit`'s runs; the
theorems take its verdict as it comes.

## 5. Not modelled, not covered, planned

Not modelled, and why:

- the user interface, debug pages, the coach, users, billing, Telegram: most of the
  program's lines; they keep no state the lock depends on, and show or describe what the
  modelled parts keep;
- manual guardian sessions: counters entered by hand, of which the pages use only enable,
  start and end; none of it meets the lock. Reading it one notes that a limit of 0 locks
  at once where `activeRules` takes 0 for no rule, and that counters of an unlocked day are
  not reset;
- the broker client's HTTP, the parsing of answers and reports, the contract registry
  beyond one family, symbol resolution, wording: data without control; the models take any
  consistent answer;
- position limits at the broker: read and written on request, no state kept;
- time-zone arithmetic over `Intl`: what it yields (session key, calendar date, break) is
  the phases of `AccountSession`;
- the one-shot OAuth code exchange and its state check, the legacy callback that sets up a
  single account, the per-process rate counter;
- the sync's own enforcement beside the keyed callers (it passes no dedup key and so
  neither sees nor leaves a mark) is in `PositionExit` only as far as its exits go.

Hazards seen that no property covers: the differences of section 3; a props event keyed
by yesterday's session that applies its lock after a rollover
(internal-lock-evaluator-db.ts:257); a process that dies between the rollover's write and
its cleanup (tradovate-sync.ts:812); a lock upsert that lands after a reset
(tradovate-sync.ts:844); a WARNING written over a STOPPED decided in between
(webhook/route.ts:311); permission changes between gate and write
(broker-enforcement-gate.ts:203).

Planned next: the composition of `AccountLock` with `BrokerEnforcement`, from breach to
broker lock; a property of the settings' deferred status that a promoter for all of
them would have to keep.
