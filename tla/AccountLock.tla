---------------------------- MODULE AccountLock ----------------------------
(***************************************************************************)
(* The lock and the session state of ONE protected demo account.  Every    *)
(* query of the code is scoped by accountId, so accounts do not interact.  *)
(*                                                                         *)
(* Two tables hold the truth: the LiveSessionState row (riskState and the  *)
(* day's counters) and the InternalLockEvent rows, of which `locks' keeps  *)
(* the active ones by their unique activeDedupKey (rule x trading day).    *)
(* They are written, without a common lock or transaction, by              *)
(*   - periodic and on-demand syncs            lib/brokers/tradovate-sync  *)
(*   - realtime props events                   internal-lock-evaluator-db  *)
(*   - trade webhooks                          api/tradovate/webhook       *)
(*   - the trader's lockout click              api/accounts/[id]/lockout   *)
(*   - the session reset route                 reset-session-state         *)
(* A handler is cut into one action per database access, since every await *)
(* lets the other handlers run.                                            *)
(*                                                                         *)
(* Data are kept to what the rules compare: losses as a level, counters up *)
(* to the value past which no comparison changes, and only for the rules   *)
(* that are Configured.                                                    *)
(***************************************************************************)
EXTENDS Integers, FiniteSets

CONSTANTS
    Syncs,            \* syncs that may be in flight at once
    Events,           \* props events the listener may be handling at once
    Hooks,            \* webhook requests that may be in flight at once
    Clicks,           \* lockout requests that may be in flight at once
    Configured,       \* the rules the trader has set
    MaxTradesPerDay,  \* the trade allowance
    StopAfterLosses,  \* the losing streak that stops the account
    FlattenAtEnd,     \* sessionEndBehavior = "flatten_at_session_end"
    MaxDay            \* bound: the last trading day of the model

Triggers == {"daily_loss_limit", "profit_target", "trade_limit",
             "consecutive_losses", "max_position_size", "session_end"}

ASSUME RulesAssumption == Configured \subseteq Triggers
ASSUME LimitsAssumption == /\ MaxTradesPerDay \in Nat \ {0}
                           /\ StopAfterLosses \in Nat \ {0}
                           /\ MaxDay \in Nat \ {0}
ASSUME SwitchAssumption == FlattenAtEnd \in BOOLEAN

VARIABLES
    day,         \* the current CME trading day
    afterHours,  \* the configured session-end hour has been reached today
    session,     \* the LiveSessionState row
    locks,       \* keys of the active InternalLockEvent rows
    sync,        \* per sync: its program counter and locals
    props,       \* per props event
    hook,        \* per webhook request
    click,       \* per lockout request
    standing     \* history: locks active ever since a sync evaluated the rules

rows == <<session, locks>>
clock == <<day, afterHours>>
vars == <<day, afterHours, session, locks, sync, props, hook, click, standing>>

-----------------------------------------------------------------------------
(* Data *)

Days == 1..MaxDay
Risks == {"NORMAL", "WARNING", "STOPPED"}
LockRules == {"daily_loss_limit", "daily_profit_target", "trade_limit",
              "max_loss_streak", "max_position_size", "manual_lock"}
Keys == [rule : LockRules, day : Days]

\* Loss levels: 0 below 80% of the limit, 1 from 80%, 2 at the limit or past it.
LossCap == IF "daily_loss_limit" \in Configured THEN 2 ELSE 0
TradeCap == IF "trade_limit" \in Configured THEN MaxTradesPerDay + 1 ELSE 0
StreakCap == IF "consecutive_losses" \in Configured THEN StopAfterLosses ELSE 0
Unknown == -1   \* the broker reported no P&L

Up(n, cap) == IF n < cap THEN n + 1 ELSE n

Sessions == [exists : BOOLEAN, date : Days, risk : Risks, loss : 0..LossCap,
             trades : 0..TradeCap, streak : 0..StreakCap,
             cooldown : {"off", "running", "elapsed"}, pending : BOOLEAN]

\* The row as a create writes it (the schema's defaults).
NewSession(d) == [exists |-> TRUE, date |-> d, risk |-> "NORMAL", loss |-> 0,
                  trades |-> 0, streak |-> 0, cooldown |-> "off",
                  pending |-> FALSE]

Flag(rule) == IF rule \in Configured THEN BOOLEAN ELSE {FALSE}

\* What one sync may read from the broker: realised P&L, P&L with the open
\* positions in it, trade count, profit target reached, exposure too large,
\* no open position.
Readings ==
    {r \in [realised : {Unknown} \cup 0..LossCap,
            effective : {Unknown} \cup 0..LossCap,
            trades : 0..TradeCap, profit : Flag("profit_target"),
            oversize : Flag("max_position_size"), flat : BOOLEAN] :
        /\ r.effective = Unknown => r.realised = Unknown
        /\ r.flat => ~r.oversize}

SyncIdle == [pc |-> "idle", key |-> 1, ended |-> FALSE, found |-> FALSE,
             stale |-> FALSE, violation |-> FALSE, risk |-> "NORMAL",
             trigger |-> "none", realised |-> 0, trades |-> 0,
             pending |-> FALSE]
SyncStates == [pc : {"idle", "read", "hold", "persist", "clear", "lock"},
               key : Days, ended : BOOLEAN, found : BOOLEAN, stale : BOOLEAN,
               violation : BOOLEAN, risk : Risks, trigger : Triggers \cup {"none"},
               realised : {Unknown} \cup 0..LossCap, trades : 0..TradeCap,
               pending : BOOLEAN]

NoKey == [rule |-> "manual_lock", day |-> 1]  \* fills the field when unused
PropsIdle == [pc |-> "idle", key |-> NoKey]
PropsStates == [pc : {"idle", "apply", "lookup", "backfill"},
                key : Keys]

HookIdle == [pc |-> "idle", key |-> 1]
HookStates == [pc : {"idle", "create", "rollover", "expire", "trade",
                     "cooldown", "lockdown", "warn"}, key : Days]

ClickIdle == [pc |-> "idle", key |-> 1]
ClickStates == [pc : {"idle", "planned"}, key : Days]

TypeOK ==
    /\ day \in Days
    /\ afterHours \in BOOLEAN
    /\ session \in Sessions
    /\ locks \subseteq Keys
    /\ sync \in [Syncs -> SyncStates]
    /\ props \in [Events -> PropsStates]
    /\ hook \in [Hooks -> HookStates]
    /\ click \in [Clicks -> ClickStates]
    /\ standing \in [Syncs -> SUBSET Keys]

\* The account has just been connected: no session row, no lock.
Init ==
    /\ day = 1
    /\ afterHours = FALSE
    /\ session = [NewSession(1) EXCEPT !.exists = FALSE]
    /\ locks = {}
    /\ sync = [s \in Syncs |-> SyncIdle]
    /\ props = [e \in Events |-> PropsIdle]
    /\ hook = [h \in Hooks |-> HookIdle]
    /\ click = [c \in Clicks |-> ClickIdle]
    /\ standing = [s \in Syncs |-> {}]

-----------------------------------------------------------------------------
(* The clock *)

\* The CME session rolls over at 17:00 Chicago time.
NextDay ==
    /\ day < MaxDay
    /\ day' = day + 1
    /\ afterHours' = FALSE
    /\ UNCHANGED <<session, locks, sync, props, hook, click, standing>>

\* isSessionEndReached becomes true and stays so until the session rolls over.
SessionEnds ==
    /\ "session_end" \in Configured
    /\ ~afterHours
    /\ afterHours' = TRUE
    /\ UNCHANGED <<day, session, locks, sync, props, hook, click, standing>>

\* cooldownUntil passes.
CooldownElapses ==
    /\ session.cooldown = "running"
    /\ session' = [session EXCEPT !.cooldown = "elapsed"]
    /\ UNCHANGED <<clock, locks, sync, props, hook, click, standing>>

-----------------------------------------------------------------------------
(* syncTradovateAccount *)

\* What deriveSessionEndAction decides; a pending lock waits for flatness only.
SessionEndAction(ended, flat, stopped, pending) ==
    CASE stopped                           -> "none"
      [] ~stopped /\ pending /\ flat       -> "lock_pending"
      [] ~stopped /\ pending /\ ~flat      -> "none"
      [] ~stopped /\ ~pending /\ ~ended    -> "none"
      [] ~stopped /\ ~pending /\ ended /\ flat -> "lock_immediately"
      [] ~stopped /\ ~pending /\ ended /\ ~flat ->
            IF FlattenAtEnd THEN "flatten_then_lock" ELSE "await_flat"

\* The enforcement cascade: the first rule in breach wins.
Trigger(r, streak, endAction) ==
    IF "daily_loss_limit" \in Configured /\ r.effective = 2 THEN "daily_loss_limit"
    ELSE IF r.profit THEN "profit_target"
    ELSE IF "trade_limit" \in Configured /\ r.trades >= MaxTradesPerDay
         THEN "trade_limit"
    ELSE IF "consecutive_losses" \in Configured /\ streak >= StopAfterLosses
         THEN "consecutive_losses"
    ELSE IF r.oversize THEN "max_position_size"
    ELSE IF endAction \in {"lock_immediately", "flatten_then_lock", "lock_pending"}
         THEN "session_end"
    ELSE "none"

NearLimit(r) == \/ r.effective = 1
                \/ /\ "trade_limit" \in Configured
                   /\ MaxTradesPerDay > 1
                   /\ r.trades = MaxTradesPerDay - 1

EvaluatedRisk(trigger, r) == IF trigger # "none" THEN "STOPPED"
                             ELSE IF NearLimit(r) THEN "WARNING"
                             ELSE "NORMAL"

\* `now' and the trading-day key are taken once, before the broker is read.
SyncStart(s) ==
    /\ sync[s].pc = "idle"
    /\ sync' = [sync EXCEPT ![s] = [SyncIdle EXCEPT !.pc = "read", !.key = day,
                                                    !.ended = afterHours]]
    /\ UNCHANGED <<clock, rows, props, hook, click, standing>>

\* The verdict of a sync with locals l on a reading r.  A row that does not exist
\* reads as the defaults.
Evaluated(l, r) ==
    LET stale     == session.exists /\ session.date # l.key
        pending   == ~stale /\ session.pending
        stopped   == session.risk = "STOPPED"
        endAction == SessionEndAction(l.ended, r.flat, stopped, pending)
        trigger   == Trigger(r, session.streak, endAction)
        risk      == EvaluatedRisk(trigger, r)
    IN  [pc |-> IF ~stale /\ risk # "STOPPED" THEN "hold" ELSE "persist",
         key |-> l.key, ended |-> FALSE, found |-> session.exists, stale |-> stale,
         violation |-> trigger # "none" /\ ~stopped, risk |-> risk,
         trigger |-> trigger, realised |-> r.realised, trades |-> r.trades,
         pending |-> \/ endAction = "await_flat"
                     \/ endAction # "lock_pending" /\ pending]

\* The broker has answered: the row is read and the rules are evaluated.
SyncEvaluate(s) ==
    /\ sync[s].pc = "read"
    /\ \E r \in Readings : sync' = [sync EXCEPT ![s] = Evaluated(@, r)]
    /\ standing' = [standing EXCEPT ![s] = locks]
    /\ UNCHANGED <<clock, rows, props, hook, click>>

\* Mutant: the sync trusts its own evaluation and looks up no lock.
SyncHold_NoLookup(s) ==
    /\ sync[s].pc = "hold"
    /\ sync' = [sync EXCEPT ![s].pc = "persist"]
    /\ UNCHANGED <<clock, rows, props, hook, click, standing>>

\* shouldHoldRiskStateStopped: an active lock keeps the account stopped.
SyncHold(s) ==
    /\ sync[s].pc = "hold"
    /\ LET risk == IF locks # {} THEN "STOPPED" ELSE sync[s].risk
       IN  sync' = [sync EXCEPT ![s] = [@ EXCEPT !.pc = "persist", !.risk = risk]]
    /\ UNCHANGED <<clock, rows, props, hook, click, standing>>

\* The rule under which the sync upserts an InternalLockEvent, if any.
LockRule(l) ==
    CASE l.trigger = "max_position_size"                -> {"max_position_size"}
      [] l.trigger = "daily_loss_limit" /\ l.violation  -> {"daily_loss_limit"}
      [] l.trigger = "profit_target" /\ l.violation     -> {"daily_profit_target"}
      [] OTHER                                          -> {}

\* The locals still needed once the row is written.
Remaining(l, pc) == [SyncIdle EXCEPT !.pc = pc, !.key = l.key, !.trigger = l.trigger,
                                     !.violation = l.violation]
AfterClear(l) == IF LockRule(l) = {} THEN SyncIdle ELSE Remaining(l, "lock")

Persisted(l) ==
    IF ~l.found
    THEN [NewSession(l.key) EXCEPT !.loss = IF l.realised = Unknown THEN 0
                                            ELSE l.realised,
                                   !.trades = l.trades, !.risk = l.risk]
    ELSE [session EXCEPT
            !.date    = IF l.stale THEN l.key ELSE @,
            !.trades  = l.trades,
            !.risk    = l.risk,
            !.pending = ~l.stale /\ l.pending,
            !.loss    = IF l.realised # Unknown THEN l.realised
                        ELSE IF l.stale THEN 0 ELSE @]

\* The row is written from values read before; creating it twice fails.
SyncPersist(s) ==
    /\ sync[s].pc = "persist"
    /\ \/ /\ ~sync[s].found /\ session.exists
          /\ sync' = [sync EXCEPT ![s] = SyncIdle]
          /\ UNCHANGED session
       \/ /\ sync[s].found \/ ~session.exists
          /\ session' = Persisted(sync[s])
          /\ sync' = [sync EXCEPT ![s] = IF @.stale THEN Remaining(@, "clear")
                                         ELSE AfterClear(@)]
    /\ standing' = [standing EXCEPT ![s] = {}]
    /\ UNCHANGED <<clock, locks, props, hook, click>>

\* Rollover cleanup: every active lock of the account, whatever its day.
SyncClear(s) ==
    /\ sync[s].pc = "clear"
    /\ locks' = {}
    /\ standing' = [t \in Syncs |-> {}]
    /\ sync' = [sync EXCEPT ![s] = AfterClear(@)]
    /\ UNCHANGED <<clock, session, props, hook, click>>

\* The upsert that was started and not awaited lands.
SyncLock(s) ==
    /\ sync[s].pc = "lock"
    /\ locks' = locks \cup [rule : LockRule(sync[s]), day : {sync[s].key}]
    /\ sync' = [sync EXCEPT ![s] = SyncIdle]
    /\ UNCHANGED <<clock, session, props, hook, click, standing>>

\* A broker or database error, or a process that dies, ends a sync anywhere.
SyncFail(s) ==
    /\ sync[s].pc # "idle"
    /\ sync' = [sync EXCEPT ![s] = SyncIdle]
    /\ standing' = [standing EXCEPT ![s] = {}]
    /\ UNCHANGED <<clock, rows, props, hook, click>>

Sync(s) == \/ SyncStart(s) \/ SyncEvaluate(s) \/ SyncHold(s) \/ SyncPersist(s)
           \/ SyncClear(s) \/ SyncLock(s) \/ SyncFail(s)

-----------------------------------------------------------------------------
(* applyInternalLockForConnection: one props event *)

\* evaluateDryRunRules in evaluation order, the profit target left out.
Violated ==
    IF "daily_loss_limit" \in Configured /\ session.loss = 2 THEN {"daily_loss_limit"}
    ELSE IF "trade_limit" \in Configured /\ session.trades > MaxTradesPerDay
         THEN {"trade_limit"}
    ELSE IF "consecutive_losses" \in Configured /\ session.streak >= StopAfterLosses
         THEN {"max_loss_streak"}
    ELSE {}

\* One query reads Guardian's switch and the session; the rest works on that
\* snapshot.  An event that finds nothing to do, or the switch off, is left out.
PropsRead(e) ==
    /\ props[e].pc = "idle"
    /\ session.exists
    /\ \E rule \in Violated :
         props' = [props EXCEPT ![e] =
                     [pc |-> IF session.risk = "STOPPED" THEN "lookup" ELSE "apply",
                      key |-> [rule |-> rule, day |-> session.date]]]
    /\ UNCHANGED <<clock, rows, sync, hook, click, standing>>

\* One transaction: the account is stopped and the lock upserted.
PropsApply(e) ==
    /\ props[e].pc = "apply"
    /\ session' = [session EXCEPT !.risk = "STOPPED"]
    /\ locks' = locks \cup {props[e].key}
    /\ props' = [props EXCEPT ![e] = PropsIdle]
    /\ UNCHANGED <<clock, sync, hook, click, standing>>

\* Already stopped: is there an active lock, of any rule and day?
PropsLookup(e) ==
    /\ props[e].pc = "lookup"
    /\ props' = [props EXCEPT ![e] = IF locks = {} THEN [@ EXCEPT !.pc = "backfill"]
                                     ELSE PropsIdle]
    /\ UNCHANGED <<clock, rows, sync, hook, click, standing>>

\* Stopped by a sync that wrote no lock: the lock is written, riskState is not.
PropsBackfill(e) ==
    /\ props[e].pc = "backfill"
    /\ locks' = locks \cup {props[e].key}
    /\ props' = [props EXCEPT ![e] = PropsIdle]
    /\ UNCHANGED <<clock, session, sync, hook, click, standing>>

Props(e) == PropsRead(e) \/ PropsApply(e) \/ PropsLookup(e) \/ PropsBackfill(e)

-----------------------------------------------------------------------------
(* POST /api/tradovate/webhook *)

\* What detectIntervention may lead to on a row.  "none" beside a lockdown is the
\* once-per-day skip; warnings depend on trades the model does not keep.
Outcomes(row) ==
    IF row.cooldown # "off" \/ row.risk = "STOPPED" THEN {"none"}
    ELSE IF "daily_loss_limit" \in Configured /\ row.loss = 2
         THEN {"lockdown", "none"}
    ELSE IF "consecutive_losses" \in Configured /\ row.streak >= StopAfterLosses
         THEN {"cooldown"}
    ELSE IF "trade_limit" \in Configured /\ row.trades > MaxTradesPerDay
         THEN {"lockdown", "none"}
    ELSE {"warn", "none"}

Settle(h, outcome) ==
    hook' = [hook EXCEPT ![h] = IF outcome = "none" THEN HookIdle
                                ELSE [HookIdle EXCEPT !.pc = outcome]]

\* Fills go on to update the row; other events are judged on the row as read.
Proceed(h, row) == \E o \in Outcomes(row) \cup {"trade"} : Settle(h, o)

\* getOrCreateSessionState reads the row and decides what to write ...
HookRead(h) ==
    /\ hook[h].pc = "idle"
    /\ LET later(pc) == hook' = [hook EXCEPT ![h] = [pc |-> pc, key |-> day]]
       IN  \/ ~session.exists /\ later("create")
           \/ session.exists /\ session.date # day /\ later("rollover")
           \/ /\ session.exists /\ session.date = day
              /\ session.cooldown = "elapsed"
              /\ later("expire")
           \/ /\ session.exists /\ session.date = day
              /\ session.cooldown # "elapsed"
              /\ Proceed(h, session)
    /\ UNCHANGED <<clock, rows, sync, props, click, standing>>

\* ... and writes it on whatever the row holds by then.
HookCreate(h) ==
    /\ hook[h].pc = "create"
    /\ \/ /\ session.exists
          /\ Settle(h, "none")
          /\ UNCHANGED session
       \/ /\ ~session.exists
          /\ session' = NewSession(hook[h].key)
          /\ Proceed(h, session')
    /\ UNCHANGED <<clock, locks, sync, props, click, standing>>

\* A new day: everything is reset except pendingSessionEndLock and the locks.
HookRollover(h) ==
    /\ hook[h].pc = "rollover"
    /\ session' = [session EXCEPT !.date = hook[h].key, !.risk = "NORMAL",
                                  !.loss = 0, !.trades = 0, !.streak = 0,
                                  !.cooldown = "off"]
    /\ Proceed(h, session')
    /\ UNCHANGED <<clock, locks, sync, props, click, standing>>

\* The cooldown is over: the account re-enters NORMAL.
HookExpire(h) ==
    /\ hook[h].pc = "expire"
    /\ session' = [session EXCEPT !.risk = "NORMAL", !.streak = 0,
                                  !.cooldown = "off"]
    /\ Proceed(h, session')
    /\ UNCHANGED <<clock, locks, sync, props, click, standing>>

\* A fill opens or closes a position (applyTradeOpen, applyTradeClose).
HookTrade(h) ==
    /\ hook[h].pc = "trade"
    /\ \/ UNCHANGED session
       \/ \E losing, complete \in BOOLEAN, loss \in 0..LossCap :
            /\ IF losing THEN loss >= session.loss ELSE loss <= session.loss
            /\ session' = [session EXCEPT
                 !.loss   = loss,
                 !.trades = IF complete THEN Up(@, TradeCap) ELSE @,
                 !.streak = IF losing THEN Up(@, StreakCap) ELSE 0]
    /\ \E o \in Outcomes(session') : Settle(h, o)
    /\ UNCHANGED <<clock, locks, sync, props, click, standing>>

\* The enforcement tier is applied: setCooldown, or setRiskState.
HookAct(h) ==
    /\ \/ /\ hook[h].pc = "cooldown"
          /\ session' = [session EXCEPT !.risk = "STOPPED", !.cooldown = "running"]
       \/ /\ hook[h].pc = "lockdown"
          /\ session' = [session EXCEPT !.risk = "STOPPED"]
       \/ /\ hook[h].pc = "warn"
          /\ session' = [session EXCEPT !.risk = "WARNING"]
    /\ Settle(h, "none")
    /\ UNCHANGED <<clock, locks, sync, props, click, standing>>

Hook(h) == \/ HookRead(h) \/ HookCreate(h) \/ HookRollover(h) \/ HookExpire(h)
           \/ HookTrade(h) \/ HookAct(h)

-----------------------------------------------------------------------------
(* POST /api/accounts/[id]/lockout and the reset route *)

\* buildManualLockoutPlan fixes the trading day; cancelling orders and
\* flattening positions at the broker follow before anything is written.
ClickPlan(c) ==
    /\ click[c].pc = "idle"
    /\ click' = [click EXCEPT ![c] = [pc |-> "planned", key |-> day]]
    /\ UNCHANGED <<clock, rows, sync, props, hook, standing>>

\* One transaction: an existing row keeps its sessionDate.
ClickCommit(c) ==
    /\ click[c].pc = "planned"
    /\ session' = IF session.exists
                  THEN [session EXCEPT !.risk = "STOPPED"]
                  ELSE [NewSession(click[c].key) EXCEPT !.risk = "STOPPED"]
    /\ locks' = locks \cup {[rule |-> "manual_lock", day |-> click[c].key]}
    /\ click' = [click EXCEPT ![c] = ClickIdle]
    /\ UNCHANGED <<clock, sync, props, hook, standing>>

Click(c) == ClickPlan(c) \/ ClickCommit(c)

\* One transaction: the row goes back to NORMAL and every lock is cleared.
ResetSession ==
    /\ session.exists
    /\ session' = [session EXCEPT !.risk = "NORMAL", !.pending = FALSE,
                                  !.cooldown = "off"]
    /\ locks' = {}
    /\ standing' = [s \in Syncs |-> {}]
    /\ UNCHANGED <<clock, sync, props, hook, click>>

-----------------------------------------------------------------------------

Next == \/ NextDay \/ SessionEnds \/ CooldownElapses \/ ResetSession
        \/ \E s \in Syncs : Sync(s)
        \/ \E e \in Events : Props(e)
        \/ \E h \in Hooks : Hook(h)
        \/ \E c \in Clicks : Click(c)

Spec == Init /\ [][Next]_vars

\* The schedule the code relies on: the cron starts a sync every few minutes and,
\* however often one fails, does not fail for ever at the same step.
SyncFairness == \A s \in Syncs :
    /\ SF_vars(SyncStart(s)) /\ SF_vars(SyncEvaluate(s)) /\ SF_vars(SyncHold(s))
    /\ SF_vars(SyncPersist(s)) /\ SF_vars(SyncClear(s)) /\ WF_vars(SyncLock(s))
FairSpec == Spec /\ SyncFairness

-----------------------------------------------------------------------------
(* Properties of every interleaving *)

\* A sync about to write something else than STOPPED into a session that did not
\* roll over overrides no lock that was active ever since it read the rules:
\* the read-then-write in tradovate-sync.ts 751-795 can only lose to a lock that
\* was created or cleared in between.
HoldIsEffective ==
    \A s \in Syncs :
        sync[s].pc = "persist" /\ ~sync[s].stale /\ sync[s].risk # "STOPPED"
            => standing[s] = {}

\* The inductive form: a lock counted as standing is active.
StandingIsActive == \A s \in Syncs : standing[s] \subseteq locks

\* An active lock ends up being the risk state, or is cleared, whatever
\* interleaves with the syncs and however many of them fail.
LockTakesEffect ==
    (locks # {}) ~> (session.risk = "STOPPED" \/ locks = {})

=============================================================================
