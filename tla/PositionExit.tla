---------------------------- MODULE PositionExit ----------------------------
(***************************************************************************)
(* How the positions of ONE account are closed at the broker.  Three kinds *)
(* of process do it, with the same client call and different gates:        *)
(*   - a sync that finds the account over its maximum position size, or    *)
(*     past its session end                        lib/brokers/tradovate-sync *)
(*   - the enforcement task a sync starts and does not await               *)
(*                                                 lib/brokers/enforcement *)
(*   - the trader's lockout click, which first cancels the working orders  *)
(*     api/accounts/[id]/lockout, lib/brokers/{cancel-open-orders,         *)
(*     flatten-positions}                                                  *)
(* while the trader keeps trading and edits the consent to automated       *)
(* actions.  The risk state, its locks and the broker's daily-loss lock    *)
(* are modelled in AccountLock and BrokerEnforcement; here `stopped' is    *)
(* riskState = STOPPED, and the other handlers may change it at any time.  *)
(***************************************************************************)
EXTENDS Exposure, FiniteSets

CONSTANTS
    Lots,           \* the net position each symbol's order would open
    Limits,         \* the trader's maximum position size rule
    Environments,   \* deployments and connections to start from
    Breaches,       \* other limits that may be in breach
    SessionEnds,    \* whether the trader's rules end the session
    OwnConsents,    \* what rules of the account's own may say of the consent
    FlattenAtEnd,   \* sessionEndBehavior = "flatten_at_session_end"
    Syncs, Tasks, Clicks,
    MaxInFlight     \* bound: requests handled at once

ASSUME SwitchAssumption == FlattenAtEnd \in BOOLEAN /\ SessionEnds \in BOOLEAN
ASSUME BreachesAssumption == Breaches \subseteq {"daily_loss_limit", "trade_limit"}
ASSUME ConsentsAssumption == OwnConsents \subseteq {"missing", "given"}
ASSUME ActorsAssumption ==
    Syncs \cap Tasks = {} /\ Syncs \cap Clicks = {} /\ Tasks \cap Clicks = {}
ASSUME EnvironmentsAssumption ==
    Environments \subseteq
        [permission : {"full_access", "read_only", "unknown"},
         status : {"connected_live", "connected_readonly", "expired"},
         granted : BOOLEAN, dryRun : BOOLEAN, orderActions : BOOLEAN]

Symbols == DOMAIN Lots
Actors == Syncs \cup Tasks \cup Clicks

VARIABLES
    env,       \* the probed permission and status of the connection, whether its
               \* token really covers orders, and the two server switches
    market,    \* per symbol: what the broker holds for it
    consent,   \* the consent on the account's own rules and on the template
    breach,    \* the limit in breach besides the position size
    stopped,   \* LiveSessionState.riskState = "STOPPED"
    act        \* per process: its program counter, locals and history

vars == <<env, market, consent, breach, stopped, act>>

-----------------------------------------------------------------------------
(* Data *)

\* No position; an opening order is live in a state other than Working (not yet
\* accepted, suspended, being replaced); it is working; a position is open; it is
\* open with a liquidation order working.
Markets == {"flat", "held", "working", "open", "leaving"}
Open == {s \in Symbols : market[s] \in {"open", "leaving"}}
WorkingOrders == {s \in Symbols : market[s] \in {"working", "leaving"}}
HeldOrders == {s \in Symbols : market[s] = "held"}

\* Net positions of a set of symbols.  A contract whose name was not resolved
\* goes by its numeric id, which the registry does not know.
Holding(S) == [s \in S |-> Lots[s]]
Nameless(S) == IF S = {} THEN [s \in {} |-> 0] ELSE [s \in {"contract id"} |-> 1]
Over == MaxPositionSizeBreach(Holding(Open), Limits)

\* decideConsentGate: an account with rules of its own answers for itself.
Consents == [own : {"none", "missing", "given"}, template : {"missing", "given"}]
Consented == (IF consent.own # "none" THEN consent.own ELSE consent.template) = "given"

Triggers == {"none", "daily_loss_limit", "trade_limit", "max_position_size",
             "session_end"}
\* FlattenStatus, "none" while there is none.
Exits == {"none", "not_needed", "dry_run", "unavailable_read_only",
          "unavailable_consent_missing", "unavailable_permission", "attempted",
          "flattened", "failed"}

Idle == [pc |-> "idle", seen |-> {}, oversize |-> FALSE, trigger |-> "none",
         allowed |-> FALSE, fresh |-> FALSE, ids |-> {}, hidden |-> {},
         exit |-> "none", sent |-> FALSE, lost |-> FALSE, agreed |-> FALSE,
         clean |-> TRUE]
\* trigger: of a sync that has not decided, the other rule it found in breach;
\* allowed: the consent it read; hidden: what a click's list left out.  History:
\* agreed, the consent was given at some time between the begin of the process and
\* its question, if it needs one; clean, the click has only good news so far; lost, the task's lock
\* write threw.
ActStates ==
    [pc : {"idle", "rules", "decide", "persist", "gate", "consent", "exit_read",
           "exit_send", "confirm", "lock", "record", "cancel", "commit", "done"},
     seen : SUBSET Symbols, oversize : BOOLEAN, trigger : Triggers,
     allowed : BOOLEAN, fresh : BOOLEAN, ids : SUBSET Symbols,
     hidden : SUBSET Symbols, exit : Exits, sent : BOOLEAN, lost : BOOLEAN,
     agreed : BOOLEAN, clean : BOOLEAN]

TypeOK ==
    /\ env \in Environments
    /\ market \in [Symbols -> Markets]
    /\ consent \in Consents
    /\ breach \in Breaches \cup {"none"}
    /\ stopped \in BOOLEAN
    /\ act \in [Actors -> ActStates]

Init ==
    /\ env \in Environments
    /\ market = [s \in Symbols |-> "flat"]
    /\ consent = [own |-> "none", template |-> "given"]
    /\ breach = "none"
    /\ stopped = FALSE
    /\ act = [a \in Actors |-> Idle]

At(a, pc) == act[a].pc = pc
MayBegin == Cardinality({a \in Actors : act[a].pc \notin {"idle", "done"}}) < MaxInFlight

-----------------------------------------------------------------------------
(* The trader and the market *)

\* A click whose report is not all good, or not about the newest order.
Spoiled(l) == [l EXCEPT !.clean = FALSE, !.hidden = {}]

\* An opening order is placed, and a click that has begun does not answer for it.
Order(s) ==
    /\ market[s] = "flat"
    /\ \E state \in {"held", "working"} : market' = [market EXCEPT ![s] = state]
    /\ act' = [a \in Actors |-> IF a \in Clicks /\ act[a].pc # "idle"
                                THEN Spoiled(act[a]) ELSE act[a]]
    /\ UNCHANGED <<env, consent, breach, stopped>>

\* The order becomes a working one; it fills; a liquidation fills; the trader
\* closes the position.
Release(s) ==
    /\ market[s] = "held"
    /\ market' = [market EXCEPT ![s] = "working"]
    /\ UNCHANGED <<env, consent, breach, stopped, act>>
Fill(s) ==
    /\ market[s] = "working"
    /\ market' = [market EXCEPT ![s] = "open"]
    /\ UNCHANGED <<env, consent, breach, stopped, act>>
Liquidated(s) ==
    /\ market[s] = "leaving"
    /\ market' = [market EXCEPT ![s] = "flat"]
    /\ UNCHANGED <<env, consent, breach, stopped, act>>
CloseByHand(s) ==
    /\ market[s] = "open"
    /\ market' = [market EXCEPT ![s] = "flat"]
    /\ UNCHANGED <<env, consent, breach, stopped, act>>

\* A sync or a task that has not asked for the consent yet.
Asking == {"rules", "gate", "consent"}

\* The trader saves the template, or the account's rules, with or without the
\* box checked, or deletes the account's rules.  Saving never takes a consent
\* back, but a new row of the account replaces the template's.
EditConsent ==
    /\ \/ consent' = [consent EXCEPT !.template = "given"]
       \/ \E own \in OwnConsents \cup {"none"} :
            /\ own = "missing" => consent.own = "none"
            /\ consent' = [consent EXCEPT !.own = own]
    /\ act' = [a \in Actors |-> IF Consented' /\ act[a].pc \in Asking
                                THEN [act[a] EXCEPT !.agreed = TRUE] ELSE act[a]]
    /\ UNCHANGED <<env, market, breach, stopped>>

\* The other handlers stop the account or let it go.
OthersMoveTheRisk ==
    /\ stopped' = ~stopped
    /\ UNCHANGED <<env, market, consent, breach, act>>

\* A limit comes into breach, or its breach ends: the day's loss shrinks, the limit
\* is raised, a new day begins.
BreachMoves ==
    /\ breach' \in (Breaches \cup {"none"}) \ {breach}
    /\ UNCHANGED <<env, market, consent, stopped, act>>

-----------------------------------------------------------------------------
(* TradovateClient.applyFlattenOpenPositions, as each caller uses it *)

After(a) == IF a \in Syncs THEN "persist" ELSE IF a \in Tasks THEN "lock" ELSE "commit"
\* A sync that did not stop the account tells nobody of its exit.
Told(a) == a \in Syncs => act[a].fresh
Left(a, exit) ==
    [act[a] EXCEPT !.pc = After(a), !.ids = {}, !.exit = IF Told(a) THEN exit ELSE "none",
                   !.sent = Told(a) /\ @]

\* Step 1: the open positions are read; with none there is nothing to send.
ExitRead(a) ==
    /\ At(a, "exit_read")
    /\ act' = [act EXCEPT ![a] =
                 IF Open = {} THEN Left(a, "not_needed")
                 ELSE [@ EXCEPT !.pc = "exit_send", !.ids = Open]]
    /\ UNCHANGED <<env, market, consent, breach, stopped>>

\* Step 2: liquidatepositions is accepted, or refused in an errorText nobody reads.
ExitSend(a) ==
    /\ At(a, "exit_send")
    /\ env.granted
    /\ \/ market' = [s \in Symbols |-> IF s \in act[a].ids \cap Open THEN "leaving"
                                       ELSE market[s]]
       \/ UNCHANGED market
    /\ act' = [act EXCEPT ![a].pc = "confirm", ![a].sent = TRUE]
    /\ UNCHANGED <<env, consent, breach, stopped>>

\* Step 3: the read-back; when it fails the exit stays "attempted".
ExitConfirm(a) ==
    /\ At(a, "confirm")
    /\ \/ act' = [act EXCEPT ![a] = Left(a, IF Open = {} THEN "flattened" ELSE "attempted")]
       \/ act' = [act EXCEPT ![a] = Left(a, "attempted")]
    /\ UNCHANGED <<env, market, consent, breach, stopped>>

\* Mutant: a sync does not catch what the exit throws.
ExitFails_Aborts(a) ==
    /\ \/ At(a, "exit_read")
       \/ At(a, "exit_send") /\ ~env.granted
    /\ act' = [act EXCEPT ![a] = IF a \in Syncs THEN Idle ELSE Left(a, "failed")]
    /\ UNCHANGED <<env, market, consent, breach, stopped>>

\* A call throws, before or after the broker acted on it; each caller goes on.
ExitFails(a) ==
    /\ \/ /\ At(a, "exit_read")
          /\ act' = [act EXCEPT ![a] = Left(a, "failed")]
          /\ UNCHANGED market
       \/ /\ At(a, "exit_send")
          /\ ~env.granted
          /\ act' = [act EXCEPT ![a] = Left(a, "unavailable_permission")]
          /\ UNCHANGED market
       \/ /\ At(a, "exit_send")
          /\ env.granted
          /\ market' \in {market, [s \in Symbols |-> IF s \in act[a].ids \cap Open
                                                     THEN "leaving" ELSE market[s]]}
          /\ act' = [act EXCEPT ![a] = [Left(a, "failed") EXCEPT !.sent = Told(a)]]
    /\ UNCHANGED <<env, consent, breach, stopped>>

Exit(a) == ExitRead(a) \/ ExitSend(a) \/ ExitConfirm(a) \/ ExitFails(a)

-----------------------------------------------------------------------------
(* syncTradovateAccount, from the position read to the write of the row *)

\* Whether the cron syncs the account; the button, discovery and the listener's
\* reconciliation do not ask.
Connected == env.status \in {"connected_live", "connected_readonly"}

\* loadLivePositions is best-effort: a failure leaves the sync with no position,
\* and a failed contract lookup with positions nobody can classify.
SyncRead(s) ==
    /\ MayBegin
    /\ At(s, "idle")
    /\ \E seen \in {Open, {}}, oversize \in BOOLEAN :
         /\ oversize \in {MaxPositionSizeBreach(Holding(seen), Limits),
                         MaxPositionSizeBreach(Nameless(seen), Limits)}
         /\ act' = [act EXCEPT ![s] = [Idle EXCEPT !.pc = "rules", !.seen = seen,
                                       !.oversize = oversize, !.agreed = Consented]]
    /\ UNCHANGED <<env, market, consent, breach, stopped>>

\* Rules and consent are read; the session may be over.
SyncRules(s) ==
    /\ At(s, "rules")
    /\ \E found \in {breach} \cup IF SessionEnds /\ breach = "none"
                                  THEN {"session_end"} ELSE {} :
         act' = [act EXCEPT ![s].pc = "decide", ![s].trigger = found,
                            ![s].allowed = Consented, ![s].agreed = @ /\ Consented]
    /\ UNCHANGED <<env, market, consent, breach, stopped>>

\* The cascade, cut to what the exit depends on: what the sync found, and the row.
\* A stopped account has no session end.
SyncTrigger(l) ==
    IF l.trigger \in Breaches THEN l.trigger
    ELSE IF l.oversize THEN "max_position_size"
    ELSE IF l.trigger = "session_end" /\ ~stopped /\ (l.seen = {} \/ FlattenAtEnd)
         THEN "session_end"
    ELSE "none"

\* Mutant: the permission is judged by the connection status, which only says
\* whether a webhook has arrived.
SyncGate_ByStatus(l) ==
    IF env.dryRun \/ ~env.orderActions THEN "dry_run"
    ELSE IF env.status = "connected_readonly" THEN "unavailable_read_only"
    ELSE IF ~l.allowed THEN "unavailable_consent_missing"
    ELSE "none"

\* What keeps a sync from writing to the broker, in the order the code asks.
SyncGate(l) ==
    IF env.dryRun \/ ~env.orderActions THEN "dry_run"
    ELSE IF env.permission = "read_only" THEN "unavailable_read_only"
    ELSE IF ~l.allowed THEN "unavailable_consent_missing"
    ELSE "none"

\* Mutant: only the sync that stops the account sends the exit.
SyncDecide_OnceOnly(s) ==
    LET l       == act[s]
        trigger == SyncTrigger(l)
        fresh   == trigger # "none" /\ ~stopped
        wants   == trigger \in {"max_position_size", "session_end"} /\ l.seen # {} /\ fresh
        exit    == IF wants THEN SyncGate(l) ELSE "none"
        new     == [Idle EXCEPT !.pc = "persist", !.trigger = trigger, !.fresh = fresh]
    IN  /\ At(s, "decide")
        /\ act' = [act EXCEPT ![s] =
                     IF wants /\ exit = "none"
                     THEN [new EXCEPT !.pc = "exit_read", !.agreed = l.agreed]
                     ELSE [new EXCEPT !.exit = IF new.fresh THEN exit ELSE "none"]]
        /\ UNCHANGED <<env, market, consent, breach, stopped>>

\* The session row is read and the sync decides what to do.
SyncDecide(s) ==
    LET l       == act[s]
        trigger == SyncTrigger(l)
        wants   == trigger \in {"max_position_size", "session_end"} /\ l.seen # {}
        exit    == IF wants THEN SyncGate(l) ELSE "none"
        new     == [Idle EXCEPT !.pc = "persist", !.trigger = trigger,
                                !.fresh = trigger # "none" /\ ~stopped]
    IN  /\ At(s, "decide")
        /\ act' = [act EXCEPT ![s] =
                     IF wants /\ exit = "none"
                     THEN [new EXCEPT !.pc = "exit_read", !.agreed = l.agreed]
                     ELSE [new EXCEPT !.exit = IF new.fresh THEN exit ELSE "none"]]
        /\ UNCHANGED <<env, market, consent, breach, stopped>>

\* The row is written, held at STOPPED if an active lock was found; a sync that
\* stopped the account starts the enforcement and goes its way.
SyncPersist(s) ==
    /\ At(s, "persist")
    /\ IF act[s].trigger # "none" THEN stopped' = TRUE ELSE stopped' \in BOOLEAN
    /\ \/ /\ act[s].fresh
          /\ \E t \in Tasks :
               /\ At(t, "idle")
               /\ act' = [act EXCEPT ![s] = Idle,
                            ![t] = [Idle EXCEPT !.pc = "gate", !.exit = act[s].exit,
                                      !.trigger = act[s].trigger,
                                      !.sent = act[s].sent, !.agreed = Consented]]
       \/ /\ act[s].fresh => \A t \in Tasks : ~At(t, "idle")
          /\ act' = [act EXCEPT ![s] = Idle]
    /\ UNCHANGED <<env, market, consent, breach>>

\* The sync fails or its process dies.  One that dies before it decides has changed
\* nothing, as if it had not begun; dying during the exit leaves the same behind as
\* dying right after it.  So no more points are needed.
SyncFails(s) ==
    /\ At(s, "persist")
    /\ act' = [act EXCEPT ![s] = Idle]
    /\ UNCHANGED <<env, market, consent, breach, stopped>>

Sync(s) == SyncRead(s) \/ SyncRules(s) \/ SyncDecide(s) \/ SyncPersist(s) \/ SyncFails(s)

-----------------------------------------------------------------------------
(* triggerEnforcement and applyBrokerDayLockout *)

\* Mutant: what the sync did is not passed on to the row.
Recorded_OwnExit(t, exit) ==
    [Idle EXCEPT !.pc = "record", !.exit = exit, !.sent = act[t].sent]

\* An exit the sync has made or skipped already is the one that is recorded.
Recorded(t, exit) ==
    [Idle EXCEPT !.pc = "record", !.sent = act[t].sent,
                 !.exit = IF act[t].exit = "none" THEN exit ELSE act[t].exit]

\* shouldSkipBrokerEnforcement: only the P&L rules have a broker lock, and
\* neither a dead nor a read-only connection is written to.  A permission not
\* probed yet falls back on the connection status.
TaskGate(t) ==
    /\ At(t, "gate")
    /\ act' = [act EXCEPT ![t] =
          IF \/ act[t].trigger # "daily_loss_limit"
             \/ env.status = "expired"
          THEN Recorded(t, "not_needed")
          ELSE IF \/ env.permission = "read_only"
                  \/ env.permission = "unknown" /\ env.status = "connected_readonly"
          THEN Recorded(t, "unavailable_read_only")
          ELSE [@ EXCEPT !.pc = "consent"]]
    /\ UNCHANGED <<env, market, consent, breach, stopped>>

\* The consent comes before the dry run, so that a dry run does not hide it.
TaskConsent(t) ==
    /\ At(t, "consent")
    /\ act' = [act EXCEPT ![t] =
          IF ~Consented THEN Recorded(t, "unavailable_consent_missing")
          ELSE IF env.dryRun THEN Recorded(t, "dry_run")
          ELSE [@ EXCEPT !.pc = "exit_read"]]
    /\ UNCHANGED <<env, market, consent, breach, stopped>>

\* The client cannot be initialised, or the lock write throws: one handler
\* catches both and records an exit that was not attempted.
TaskThrows(t) ==
    /\ At(t, "exit_read") \/ At(t, "lock")
    /\ act' = [act EXCEPT ![t] = [Idle EXCEPT !.pc = "record", !.exit = "not_needed",
                                             !.lost = TRUE]]
    /\ UNCHANGED <<env, market, consent, breach, stopped>>

\* The day lock is written, confirmed or not (BrokerEnforcement).
TaskLock(t) ==
    /\ At(t, "lock")
    /\ act' = [act EXCEPT ![t] = Recorded(t, "none")]
    /\ UNCHANGED <<env, market, consent, breach, stopped>>

\* The GuardianIntervention row is created; or the process dies before it is.
TaskRecord(t) ==
    /\ At(t, "record")
    /\ act' = [act EXCEPT ![t] = Idle]
    /\ UNCHANGED <<env, market, consent, breach, stopped>>
TaskDies(t) ==
    /\ ~At(t, "idle")
    /\ act' = [act EXCEPT ![t] = Idle]
    /\ UNCHANGED <<env, market, consent, breach, stopped>>

Task(t) == \/ TaskGate(t) \/ TaskConsent(t) \/ TaskThrows(t) \/ TaskLock(t)
           \/ TaskRecord(t) \/ TaskDies(t)

-----------------------------------------------------------------------------
(* POST /api/accounts/[id]/lockout *)

\* The orders are listed whose state is Working; without permission and switch this
\* is a dry run, and the exit will be one too.  An ineligible account fails both
\* steps.
ClickBegin(c) ==
    /\ MayBegin
    /\ At(c, "idle")
    /\ act' = [act EXCEPT ![c] =
          IF env.status = "expired"
          THEN [Idle EXCEPT !.pc = "commit", !.exit = "failed", !.clean = FALSE]
          ELSE IF ~env.orderActions \/ env.permission = "read_only"
          THEN [Idle EXCEPT !.pc = "commit", !.exit = "dry_run", !.clean = FALSE]
          ELSE [Idle EXCEPT !.pc = "cancel", !.ids = WorkingOrders,
                            !.hidden = HeldOrders]]
    /\ UNCHANGED <<env, market, consent, breach, stopped>>

\* Mutant: an errorText in the answer is taken for a cancelled order.
ClickCancel_IgnoresErrors(c) ==
    /\ At(c, "cancel")
    /\ \E s \in act[c].ids :
         /\ act' = [act EXCEPT ![c].ids = @ \ {s}]
         /\ \/ /\ s \in WorkingOrders
               /\ market' = [market EXCEPT ![s] = IF @ = "working" THEN "flat" ELSE "open"]
            \/ UNCHANGED market
    /\ UNCHANGED <<env, consent, breach, stopped>>

\* One order after the other: it is cancelled, or is not working any more, or the
\* call throws; a failure is counted and the next order is tried.
ClickCancel(c) ==
    /\ At(c, "cancel")
    /\ \E s \in act[c].ids :
         LET rest == [act[c] EXCEPT !.ids = @ \ {s}]
         IN  \/ /\ s \in WorkingOrders
                /\ market' = [market EXCEPT ![s] = IF @ = "working" THEN "flat" ELSE "open"]
                /\ act' = [act EXCEPT ![c] = rest]
             \/ act' = [act EXCEPT ![c] = Spoiled(rest)] /\ UNCHANGED market
    /\ UNCHANGED <<env, consent, breach, stopped>>

\* All were tried, or the list could not be read.
ClickCancelled(c) ==
    /\ At(c, "cancel")
    /\ \/ act[c].ids = {} /\ act' = [act EXCEPT ![c].pc = "exit_read"]
       \/ act' = [act EXCEPT ![c] = Spoiled([@ EXCEPT !.pc = "exit_read", !.ids = {}])]
    /\ UNCHANGED <<env, market, consent, breach, stopped>>

\* The one unconditional step: the internal lock; and the answer to the trader.
ClickCommit(c) ==
    LET done == [Idle EXCEPT !.pc = "done", !.hidden = act[c].hidden]
    IN  /\ At(c, "commit")
        /\ stopped' = TRUE
        /\ act' = [act EXCEPT ![c] =
              IF @.clean /\ @.exit \in {"not_needed", "flattened"} THEN done ELSE Spoiled(done)]
        /\ UNCHANGED <<env, market, consent, breach>>

Click(c) == ClickBegin(c) \/ ClickCancel(c) \/ ClickCancelled(c) \/ ClickCommit(c)

-----------------------------------------------------------------------------

Next == \/ EditConsent \/ OthersMoveTheRisk \/ BreachMoves
        \/ \E s \in Symbols : Order(s) \/ Release(s) \/ Fill(s) \/ Liquidated(s) \/ CloseByHand(s)
        \/ \E a \in Actors : Exit(a)
        \/ \E s \in Syncs : Sync(s)
        \/ \E t \in Tasks : Task(t)
        \/ \E c \in Clicks : Click(c)

Spec == Init /\ [][Next]_vars

\* What has begun goes on.  The cron starts a sync of a connected account every few
\* minutes, and however often a sync dies or goes without a broker answer, this does
\* not happen to every one that could find the account over its limit; and a
\* liquidation the broker works is filled in the end.
SeesAll(s) == Connected /\ SyncRead(s) /\ act'[s].seen = Open /\ act'[s].oversize = Over
Stops(s) == SyncPersist(s) /\ act[s].trigger # "none"
Accepted(s) == ExitSend(s) /\ \A x \in act[s].ids \cap Open : market'[x] = "leaving"
Fairness ==
    /\ \A s \in Syncs : WF_vars(Exit(s) \/ (~At(s, "idle") /\ Sync(s)))
    /\ \A t \in Tasks : WF_vars(Exit(t) \/ Task(t))
    /\ \A c \in Clicks : WF_vars(Exit(c) \/ (~At(c, "idle") /\ Click(c)))
    /\ \A s \in Syncs :
         /\ SF_vars(SeesAll(s)) /\ SF_vars(Stops(s))
         /\ SF_vars(ExitRead(s)) /\ SF_vars(Accepted(s))
    /\ \A x \in Symbols : WF_vars(Liquidated(x))
FairSpec == Spec /\ Fairness

-----------------------------------------------------------------------------
(* Properties *)

\* A lockout that reports every order cancelled and the exit done leaves nothing
\* behind that could open a position, until the trader orders again, whatever a
\* sync or a task does to the same orders at the same time (lockout/route.ts
\* 33-36).  Only an order that the broker did not call Working when the click asked
\* for the list is left out of it (getOrders), and nobody is told.
LockoutLeavesFlat ==
    \A c \in Clicks :
        At(c, "done") /\ act[c].clean =>
            \A s \in Symbols \ act[c].hidden : market[s] = "flat"

\* The row of an enforcement tells whether a liquidation was sent to the broker
\* on its behalf, by the sync before it or by itself (enforcement.ts 60: "All
\* outcomes ... are logged"), except when the lock write threw after it.
RowsAreTrue ==
    \A t \in Tasks : At(t, "record") /\ ~act[t].lost =>
        /\ act[t].sent => act[t].exit \in {"attempted", "flattened", "failed"}
        /\ act[t].exit \in {"attempted", "flattened"} => act[t].sent

\* An automatic write to the broker leaves only outside a dry run and with a
\* permission that is not read-only, and the consent that governs the account was
\* valid at some time since the process began (automated-actions-consent.ts 4-6), not
\* that of a template which rules of its own replace.  The order-actions switch holds
\* back the syncs alone: a task exits positions without it, although "all order
\* actions run in dry-run simulation only" (order-actions-flag.ts).
AutomaticWritesAreArmed ==
    /\ \A a \in Syncs \cup Tasks :
         act[a].pc \in {"exit_send", "confirm", "lock"} =>
             act[a].agreed /\ ~env.dryRun /\ env.permission # "read_only"
    /\ \A s \in Syncs : act[s].pc \in {"exit_send", "confirm"} => env.orderActions

\* A connected account that stays over its maximum position size is stopped again
\* and again, whatever else lets it go and whether or not its positions can be
\* closed (tradovate-sync.ts 722: "flatten failed - proceeding to lock").
OverLimitStops == <>[](Connected /\ Over) => []<>stopped

\* With consent, permission and switches in place, a connected account that is over
\* its limit gets below it: every sync that still finds it over sends the exit again,
\* though an earlier one was refused or undone.  This is so as long as no loss or trade
\* limit is in breach as well: these outrank the position size, all day, and then no
\* exit is sent for it.
Armed == /\ Connected /\ Consented /\ env.granted /\ env.permission # "read_only"
         /\ ~env.dryRun /\ env.orderActions
OverLimitIsLeft == <>[](Armed /\ breach = "none") => []<>~Over
=============================================================================
