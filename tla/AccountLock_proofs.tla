------------------------- MODULE AccountLock_proofs -------------------------
(***************************************************************************)
(* Theorems about AccountLock, for any rules and any number of trading     *)
(* days, syncs, props events, webhook and lockout requests: under every    *)
(* interleaving the state is well typed and the hold of                    *)
(* tradovate-sync.ts 751-770 is effective.                                 *)
(***************************************************************************)
EXTENDS AccountLock, TLAPS

-----------------------------------------------------------------------------
(* Lemmas on the data *)

LEMMA Caps == /\ LossCap \in Nat /\ TradeCap \in Nat /\ StreakCap \in Nat
              /\ 0 \in 0..LossCap /\ 0 \in 0..TradeCap /\ 0 \in 0..StreakCap
              /\ MaxDay \in Nat /\ 1 \in Days
  BY LimitsAssumption DEF LossCap, TradeCap, StreakCap, Days

LEMMA UpType == ASSUME NEW cap \in Nat, NEW n \in 0..cap
                PROVE  Up(n, cap) \in 0..cap
  BY DEF Up

LEMMA NewSessionType == ASSUME NEW d \in Days PROVE NewSession(d) \in Sessions
  BY Caps DEF NewSession, Sessions, Risks

LEMMA TriggerType ==
    ASSUME NEW r, NEW streak, NEW endAction
    PROVE  Trigger(r, streak, endAction) \in Triggers \cup {"none"}
  BY DEF Trigger, Triggers

LEMMA RiskType == ASSUME NEW trigger, NEW r
                  PROVE  EvaluatedRisk(trigger, r) \in Risks
  BY DEF EvaluatedRisk, Risks

LEMMA IdleTypes == /\ SyncIdle \in SyncStates
                   /\ PropsIdle \in PropsStates
                   /\ HookIdle \in HookStates
                   /\ ClickIdle \in ClickStates
  <1>1. SyncIdle \in SyncStates
    BY Caps DEF SyncIdle, SyncStates, Risks, Triggers
  <1>2. PropsIdle \in PropsStates
    BY Caps DEF PropsIdle, PropsStates, NoKey, Keys, LockRules
  <1>3. HookIdle \in HookStates /\ ClickIdle \in ClickStates
    BY Caps DEF HookIdle, HookStates, ClickIdle, ClickStates
  <1>4. QED BY <1>1, <1>2, <1>3

LEMMA RemainingType ==
    ASSUME NEW l \in SyncStates, NEW pc \in {"clear", "lock"}
    PROVE  Remaining(l, pc) \in SyncStates
  BY IdleTypes DEF Remaining, SyncIdle, SyncStates

LEMMA AfterClearType == ASSUME NEW l \in SyncStates
                        PROVE  AfterClear(l) \in SyncStates
  BY RemainingType, IdleTypes DEF AfterClear

LEMMA PersistedType ==
    ASSUME NEW l \in SyncStates, session \in Sessions
    PROVE  Persisted(l) \in Sessions
  <1>1. l.realised # Unknown => l.realised \in 0..LossCap
    BY DEF SyncStates
  <1>2. CASE ~l.found
    BY <1>1, <1>2, Caps, NewSessionType
       DEF Persisted, SyncStates, Sessions, NewSession
  <1>3. CASE l.found
    <2> DEFINE date == IF l.stale THEN l.key ELSE session.date
               pending == ~l.stale /\ l.pending
               loss == IF l.realised # Unknown THEN l.realised
                       ELSE IF l.stale THEN 0 ELSE session.loss
    <2>1. date \in Days /\ l.trades \in 0..TradeCap /\ l.risk \in Risks
      BY DEF SyncStates, Sessions
    <2>2. pending \in BOOLEAN
      OBVIOUS
    <2>3. loss \in 0..LossCap
      BY <1>1, Caps DEF Sessions
    <2>4. Persisted(l) = [session EXCEPT !.date = date, !.trades = l.trades,
                            !.risk = l.risk, !.pending = pending, !.loss = loss]
      BY <1>3 DEF Persisted
    <2> HIDE DEF date, pending, loss
    <2>5. QED BY <2>1, <2>2, <2>3, <2>4 DEF Sessions
  <1>4. QED BY <1>2, <1>3

LEMMA EvaluatedType ==
    ASSUME NEW l \in SyncStates, NEW r \in Readings, session \in Sessions
    PROVE  Evaluated(l, r) \in SyncStates
  <1> DEFINE stale     == session.exists /\ session.date # l.key
             pending   == ~stale /\ session.pending
             stopped   == session.risk = "STOPPED"
             endAction == SessionEndAction(l.ended, r.flat, stopped, pending)
             trigger   == Trigger(r, session.streak, endAction)
             risk      == EvaluatedRisk(trigger, r)
             next      == endAction = "await_flat" \/ (endAction # "lock_pending" /\ pending)
             violation == trigger # "none" /\ ~stopped
             pc        == IF ~stale /\ risk # "STOPPED" THEN "hold" ELSE "persist"
  <1>1. trigger \in Triggers \cup {"none"} /\ risk \in Risks
    BY TriggerType, RiskType
  <1>2. /\ stale \in BOOLEAN /\ next \in BOOLEAN /\ violation \in BOOLEAN
        /\ session.exists \in BOOLEAN /\ pc \in {"hold", "persist"}
        /\ l.key \in Days
    BY DEF Sessions, SyncStates
  <1>3. r.realised \in {Unknown} \cup 0..LossCap /\ r.trades \in 0..TradeCap
    BY DEF Readings
  <1>4. Evaluated(l, r) =
          [pc |-> pc, key |-> l.key, ended |-> FALSE, found |-> session.exists,
           stale |-> stale, violation |-> violation, risk |-> risk,
           trigger |-> trigger, realised |-> r.realised, trades |-> r.trades,
           pending |-> next]
    BY DEF Evaluated
  <1> HIDE DEF stale, pending, stopped, endAction, trigger, risk, next, violation, pc
  <1>5. QED BY <1>1, <1>2, <1>3, <1>4 DEF SyncStates

\* A verdict that skips the lookup of active locks is STOPPED or a rollover.
LEMMA EvaluatedHeld ==
    ASSUME NEW l, NEW r, Evaluated(l, r).pc = "persist"
    PROVE  Evaluated(l, r).stale \/ Evaluated(l, r).risk = "STOPPED"
  <1> DEFINE stale     == session.exists /\ session.date # l.key
             pending   == ~stale /\ session.pending
             stopped   == session.risk = "STOPPED"
             endAction == SessionEndAction(l.ended, r.flat, stopped, pending)
             trigger   == Trigger(r, session.streak, endAction)
             risk      == EvaluatedRisk(trigger, r)
  <1>1. /\ Evaluated(l, r).pc = IF ~stale /\ risk # "STOPPED" THEN "hold" ELSE "persist"
        /\ Evaluated(l, r).stale = stale
        /\ Evaluated(l, r).risk = risk
    BY DEF Evaluated
  <1> HIDE DEF stale, risk
  <1>2. QED BY <1>1

LEMMA LockRuleType == ASSUME NEW l PROVE LockRule(l) \subseteq LockRules
  BY DEF LockRule, LockRules

LEMMA ViolatedType == Violated \subseteq LockRules
  BY DEF Violated, LockRules

LEMMA OutcomesType ==
    ASSUME NEW row PROVE Outcomes(row) \subseteq {"cooldown", "lockdown", "warn", "none"}
  BY DEF Outcomes

LEMMA SettleType ==
    ASSUME NEW h \in Hooks, hook \in [Hooks -> HookStates],
           NEW o \in {"cooldown", "lockdown", "warn", "none", "trade"}, Settle(h, o)
    PROVE  hook' \in [Hooks -> HookStates]
  BY Caps, IdleTypes DEF Settle, HookIdle, HookStates

LEMMA ProceedType ==
    ASSUME NEW h \in Hooks, hook \in [Hooks -> HookStates], NEW row,
           \E o \in Outcomes(row) \cup {"trade"} : Settle(h, o)
    PROVE  hook' \in [Hooks -> HookStates]
  BY SettleType, OutcomesType

-----------------------------------------------------------------------------
(* Type correctness *)

LEMMA TypeInit == Init => TypeOK
  <1> SUFFICES ASSUME Init PROVE TypeOK
    OBVIOUS
  <1>1. session \in Sessions
    <2>1. NewSession(1) \in Sessions
      BY NewSessionType, Caps
    <2>2. session = [NewSession(1) EXCEPT !.exists = FALSE]
      BY DEF Init
    <2> HIDE DEF NewSession
    <2>3. QED BY <2>1, <2>2 DEF Sessions
  <1>2. QED BY <1>1, Caps, IdleTypes DEF Init, TypeOK

LEMMA TypeSync ==
    ASSUME TypeOK, NEW s \in Syncs, Sync(s) PROVE TypeOK'
  <1> USE DEF TypeOK
  <1>1. CASE SyncStart(s)
    BY <1>1, IdleTypes DEF SyncStart, clock, rows, SyncIdle, SyncStates
  <1>2. CASE SyncEvaluate(s)
    BY <1>2, EvaluatedType DEF SyncEvaluate, clock, rows
  <1>3. CASE SyncHold(s)
    <2>1. \A risk \in Risks :
            [sync[s] EXCEPT !.pc = "persist", !.risk = risk] \in SyncStates
      BY ZenonT(30) DEF SyncStates
    <2>2. (IF locks # {} THEN "STOPPED" ELSE sync[s].risk) \in Risks
      BY DEF SyncStates, Risks
    <2>3. \E risk \in Risks :
            sync' = [sync EXCEPT ![s] = [@ EXCEPT !.pc = "persist", !.risk = risk]]
      BY <1>3, <2>2 DEF SyncHold
    <2>4. PICK risk \in Risks :
            sync' = [sync EXCEPT ![s] = [@ EXCEPT !.pc = "persist", !.risk = risk]]
      BY <2>3
    <2>6. [sync[s] EXCEPT !.pc = "persist", !.risk = risk] \in SyncStates
      BY <2>1
    <2>7. sync' \in [Syncs -> SyncStates]
      BY <2>4, <2>6
    <2>8. QED BY <1>3, <2>7 DEF SyncHold, clock, rows
  <1>4. CASE SyncPersist(s)
    <2>1. session' \in Sessions
      BY <1>4, PersistedType DEF SyncPersist
    <2>2. Remaining(sync[s], "clear") \in SyncStates
      BY RemainingType
    <2>3. AfterClear(sync[s]) \in SyncStates
      BY AfterClearType
    <2>4. sync' \in [Syncs -> SyncStates]
      BY <1>4, <2>2, <2>3, IdleTypes DEF SyncPersist
    <2>5. QED BY <1>4, <2>1, <2>4 DEF SyncPersist, clock
  <1>5. CASE SyncClear(s)
    <2>1. AfterClear(sync[s]) \in SyncStates
      BY AfterClearType
    <2>2. QED BY <1>5, <2>1 DEF SyncClear, clock
  <1>6. CASE SyncLock(s)
    <2>1. sync[s].key \in Days /\ LockRule(sync[s]) \subseteq LockRules
      BY LockRuleType DEF SyncStates
    <2>2. [rule : LockRule(sync[s]), day : {sync[s].key}] \subseteq Keys
      BY <2>1 DEF Keys
    <2>3. QED BY <1>6, <2>2, IdleTypes DEF SyncLock, clock
  <1>7. CASE SyncFail(s)
    BY <1>7, IdleTypes DEF SyncFail, clock, rows
  <1>8. QED BY <1>1, <1>2, <1>3, <1>4, <1>5, <1>6, <1>7 DEF Sync

LEMMA TypeProps ==
    ASSUME TypeOK, NEW e \in Events, Props(e) PROVE TypeOK'
  <1> USE DEF TypeOK
  <1>1. props[e].key \in Keys
    BY DEF PropsStates
  <1>2. CASE PropsRead(e)
    <2>1. PICK rule \in Violated :
            props' = [props EXCEPT ![e] =
                       [pc |-> IF session.risk = "STOPPED" THEN "lookup" ELSE "apply",
                        key |-> [rule |-> rule, day |-> session.date]]]
      BY <1>2 DEF PropsRead
    <2>2. [rule |-> rule, day |-> session.date] \in Keys
      BY ViolatedType DEF Keys, Sessions
    <2>3. props' \in [Events -> PropsStates]
      BY <2>1, <2>2 DEF PropsStates
    <2>4. QED BY <1>2, <2>3 DEF PropsRead, clock, rows
  <1>3. CASE PropsApply(e)
    BY <1>1, <1>3, IdleTypes DEF PropsApply, clock, Sessions, Risks
  <1>4. CASE PropsLookup(e)
    BY <1>4, IdleTypes DEF PropsLookup, clock, rows, PropsStates
  <1>5. CASE PropsBackfill(e)
    BY <1>1, <1>5, IdleTypes DEF PropsBackfill, clock
  <1>6. QED BY <1>2, <1>3, <1>4, <1>5 DEF Props

LEMMA TypeHook ==
    ASSUME TypeOK, NEW h \in Hooks, Hook(h) PROVE TypeOK'
  <1> USE DEF TypeOK
  <1>1. hook[h].key \in Days
    BY DEF HookStates
  <1>2. ASSUME Settle(h, "none") PROVE hook' \in [Hooks -> HookStates]
    BY <1>2, SettleType
  <1>3. CASE HookRead(h)
    <2>1. ASSUME NEW pc \in {"create", "rollover", "expire"},
                 hook' = [hook EXCEPT ![h] = [pc |-> pc, key |-> day]]
          PROVE  hook' \in [Hooks -> HookStates]
      BY <2>1 DEF HookStates
    <2>2. ASSUME Proceed(h, session) PROVE hook' \in [Hooks -> HookStates]
      BY <2>2, ProceedType DEF Proceed
    <2>3. hook' \in [Hooks -> HookStates]
      BY <1>3, <2>1, <2>2 DEF HookRead
    <2>4. QED BY <1>3, <2>3 DEF HookRead, clock, rows
  <1>4. ASSUME Proceed(h, session') PROVE hook' \in [Hooks -> HookStates]
    BY <1>4, ProceedType DEF Proceed
  <1>5. CASE HookCreate(h)
    <2>1. hook' \in [Hooks -> HookStates]
      BY <1>5, <1>2, <1>4 DEF HookCreate
    <2>2. session' \in Sessions
      BY <1>5, <1>1, NewSessionType DEF HookCreate
    <2>3. QED BY <1>5, <2>1, <2>2 DEF HookCreate, clock
  <1>6. CASE HookRollover(h)
    <2>1. session' = [session EXCEPT !.date = hook[h].key, !.risk = "NORMAL",
                                     !.loss = 0, !.trades = 0, !.streak = 0,
                                     !.cooldown = "off"]
      BY <1>6 DEF HookRollover
    <2>2. session' \in Sessions
      BY <2>1, <1>1, Caps DEF Sessions, Risks
    <2>3. QED BY <1>6, <1>4, <2>2 DEF HookRollover, clock
  <1>7. CASE HookExpire(h)
    <2>1. session' = [session EXCEPT !.risk = "NORMAL", !.streak = 0,
                                     !.cooldown = "off"]
      BY <1>7 DEF HookExpire
    <2>2. session' \in Sessions
      BY <2>1, Caps DEF Sessions, Risks
    <2>3. QED BY <1>7, <1>4, <2>2 DEF HookExpire, clock
  <1>8. CASE HookTrade(h)
    <2>1. Up(session.trades, TradeCap) \in 0..TradeCap
      BY UpType, Caps DEF Sessions
    <2>2. Up(session.streak, StreakCap) \in 0..StreakCap
      BY UpType, Caps DEF Sessions
    <2>3. session' \in Sessions
      <3>1. CASE UNCHANGED session
        BY <3>1
      <3>2. ASSUME NEW losing \in BOOLEAN, NEW complete \in BOOLEAN,
                   NEW loss \in 0..LossCap,
                   session' = [session EXCEPT
                     !.loss   = loss,
                     !.trades = IF complete THEN Up(@, TradeCap) ELSE @,
                     !.streak = IF losing THEN Up(@, StreakCap) ELSE 0]
            PROVE  session' \in Sessions
        <4> DEFINE trades == IF complete THEN Up(session.trades, TradeCap)
                             ELSE session.trades
                   streak == IF losing THEN Up(session.streak, StreakCap) ELSE 0
        <4>1. trades \in 0..TradeCap /\ streak \in 0..StreakCap
          BY <2>1, <2>2, Caps DEF Sessions
        <4>2. session' = [session EXCEPT !.loss = loss, !.trades = trades,
                                         !.streak = streak]
          BY <3>2
        <4> HIDE DEF trades, streak
        <4>3. QED BY <4>1, <4>2 DEF Sessions
      <3>3. QED BY <1>8, <3>1, <3>2 DEF HookTrade
    <2>4. PICK o \in Outcomes(session') : Settle(h, o)
      BY <1>8 DEF HookTrade
    <2>5. o \in {"cooldown", "lockdown", "warn", "none", "trade"}
      BY <2>4, OutcomesType
    <2>6. hook' \in [Hooks -> HookStates]
      BY <2>4, <2>5, SettleType
    <2>7. QED BY <1>8, <2>3, <2>6 DEF HookTrade, clock
  <1>9. CASE HookAct(h)
    <2>1. session' \in Sessions
      BY <1>9 DEF HookAct, Sessions, Risks
    <2>2. QED BY <1>9, <1>2, <2>1 DEF HookAct, clock
  <1>10. QED BY <1>3, <1>5, <1>6, <1>7, <1>8, <1>9 DEF Hook

LEMMA TypeClick ==
    ASSUME TypeOK, NEW c \in Clicks, Click(c) PROVE TypeOK'
  <1> USE DEF TypeOK
  <1>1. click[c].key \in Days
    BY DEF ClickStates
  <1>2. CASE ClickPlan(c)
    BY <1>2 DEF ClickPlan, clock, rows, ClickStates
  <1>3. CASE ClickCommit(c)
    <2>1. session' \in Sessions
      BY <1>1, <1>3, NewSessionType DEF ClickCommit, Sessions, Risks
    <2>2. [rule |-> "manual_lock", day |-> click[c].key] \in Keys
      BY <1>1 DEF Keys, LockRules
    <2>3. QED BY <1>3, <2>1, <2>2, IdleTypes DEF ClickCommit, clock
  <1>4. QED BY <1>2, <1>3 DEF Click

LEMMA TypeStep == TypeOK /\ [Next]_vars => TypeOK'
  <1> SUFFICES ASSUME TypeOK, [Next]_vars PROVE TypeOK'
    OBVIOUS
  <1>1. CASE NextDay
    <2>1. day' \in Days
      BY <1>1, LimitsAssumption DEF NextDay, TypeOK, Days
    <2>2. QED BY <1>1, <2>1 DEF NextDay, TypeOK
  <1>2. CASE SessionEnds
    BY <1>2 DEF SessionEnds, TypeOK
  <1>3. CASE CooldownElapses
    BY <1>3 DEF CooldownElapses, TypeOK, clock, Sessions
  <1>4. CASE ResetSession
    BY <1>4 DEF ResetSession, TypeOK, clock, Sessions, Risks
  <1>5. CASE UNCHANGED vars
    BY <1>5 DEF vars, TypeOK
  <1>6. QED
    BY <1>1, <1>2, <1>3, <1>4, <1>5, TypeSync, TypeProps, TypeHook, TypeClick
       DEF Next

\* Every reachable state is well typed: no handler of account locking writes a
\* session row, lock key or local outside the values the code's types allow.
THEOREM TypeCorrect == Spec => []TypeOK
  BY TypeInit, TypeStep, PTL DEF Spec

-----------------------------------------------------------------------------
(* The hold.  HoldIsEffective is not inductive: it needs that a lock counted *)
(* as standing is active, so that finding no lock empties the history.       *)

IInv == TypeOK /\ StandingIsActive /\ HoldIsEffective

LEMMA HoldInit == Init => IInv
  BY TypeInit DEF Init, IInv, StandingIsActive, HoldIsEffective, SyncIdle

\* A step that creates locks, and leaves the syncs and their history alone.
LEMMA HoldFrame ==
    ASSUME IInv, UNCHANGED <<sync, standing>>, locks \subseteq locks'
    PROVE  StandingIsActive' /\ HoldIsEffective'
  BY DEF IInv, StandingIsActive, HoldIsEffective

\* A step that forgets what stood.
LEMMA HoldForget ==
    ASSUME standing' = [t \in Syncs |-> {}]
    PROVE  StandingIsActive' /\ HoldIsEffective'
  BY DEF StandingIsActive, HoldIsEffective

LEMMA HoldSync ==
    ASSUME IInv, NEW s \in Syncs, Sync(s)
    PROVE  StandingIsActive' /\ HoldIsEffective'
  <1> USE DEF IInv
  <1>1. sync \in [Syncs -> SyncStates] /\ standing \in [Syncs -> SUBSET Keys]
    BY DEF TypeOK
  <1>2. SyncIdle.pc = "idle"
    BY DEF SyncIdle
  <1>3. CASE SyncStart(s)
    <2>1. sync'[s].pc = "read" /\ \A t \in Syncs \ {s} : sync'[t] = sync[t]
      BY <1>1, <1>3 DEF SyncStart, SyncIdle
    <2>2. UNCHANGED <<locks, standing>>
      BY <1>3 DEF SyncStart, rows
    <2>3. QED BY <2>1, <2>2 DEF StandingIsActive, HoldIsEffective
  <1>4. CASE SyncEvaluate(s)
    <2>1. /\ \A t \in Syncs \ {s} : sync'[t] = sync[t]
          /\ sync'[s].pc = "persist" => sync'[s].stale \/ sync'[s].risk = "STOPPED"
      <3>1. PICK r \in Readings : sync' = [sync EXCEPT ![s] = Evaluated(@, r)]
        BY <1>4 DEF SyncEvaluate
      <3>2. sync'[s] = Evaluated(sync[s], r)
        BY <1>1, <3>1
      <3>3. QED BY <1>1, <3>1, <3>2, EvaluatedHeld
    <2>2. standing' = [standing EXCEPT ![s] = locks] /\ UNCHANGED locks
      BY <1>4 DEF SyncEvaluate, rows
    <2>3. QED BY <1>1, <2>1, <2>2 DEF StandingIsActive, HoldIsEffective
  <1>5. CASE SyncHold(s)
    <2>1. /\ \A t \in Syncs \ {s} : sync'[t] = sync[t]
          /\ sync'[s].risk # "STOPPED" => locks = {}
      BY <1>1, <1>5 DEF SyncHold, SyncStates
    <2>2. UNCHANGED <<locks, standing>>
      BY <1>5 DEF SyncHold, rows
    <2>3. QED BY <2>1, <2>2 DEF StandingIsActive, HoldIsEffective
  <1>6. CASE SyncPersist(s)
    <2>1. /\ \A t \in Syncs \ {s} : sync'[t] = sync[t]
          /\ standing' = [standing EXCEPT ![s] = {}]
          /\ UNCHANGED locks
      BY <1>1, <1>6 DEF SyncPersist
    <2>2. QED BY <1>1, <2>1 DEF StandingIsActive, HoldIsEffective
  <1>7. CASE SyncClear(s)
    BY <1>7, HoldForget DEF SyncClear
  <1>8. CASE SyncLock(s)
    <2>1. sync'[s].pc = "idle" /\ \A t \in Syncs \ {s} : sync'[t] = sync[t]
      BY <1>1, <1>2, <1>8 DEF SyncLock
    <2>2. locks \subseteq locks' /\ UNCHANGED standing
      BY <1>8 DEF SyncLock
    <2>3. QED BY <2>1, <2>2 DEF StandingIsActive, HoldIsEffective
  <1>9. CASE SyncFail(s)
    <2>1. /\ \A t \in Syncs \ {s} : sync'[t] = sync[t]
          /\ standing' = [standing EXCEPT ![s] = {}]
          /\ UNCHANGED locks
      BY <1>1, <1>9 DEF SyncFail, rows
    <2>2. QED BY <1>1, <2>1 DEF StandingIsActive, HoldIsEffective
  <1>10. QED BY <1>3, <1>4, <1>5, <1>6, <1>7, <1>8, <1>9 DEF Sync

LEMMA HoldStep == IInv /\ [Next]_vars => IInv'
  <1> SUFFICES ASSUME IInv, [Next]_vars PROVE IInv'
    OBVIOUS
  <1>1. TypeOK'
    BY TypeStep DEF IInv
  <1>2. StandingIsActive' /\ HoldIsEffective'
    <2>1. CASE NextDay \/ SessionEnds \/ CooldownElapses
      BY <2>1, HoldFrame
         DEF NextDay, SessionEnds, CooldownElapses, rows
    <2>2. CASE ResetSession
      BY <2>2, HoldForget DEF ResetSession
    <2>3. ASSUME NEW e \in Events, Props(e)
          PROVE  StandingIsActive' /\ HoldIsEffective'
      BY <2>3, HoldFrame
         DEF Props, PropsRead, PropsApply, PropsLookup, PropsBackfill, rows
    <2>4. ASSUME NEW h \in Hooks, Hook(h)
          PROVE  StandingIsActive' /\ HoldIsEffective'
      BY <2>4, HoldFrame
         DEF Hook, HookRead, HookCreate, HookRollover, HookExpire, HookTrade,
             HookAct, rows
    <2>5. ASSUME NEW c \in Clicks, Click(c)
          PROVE  StandingIsActive' /\ HoldIsEffective'
      BY <2>5, HoldFrame DEF Click, ClickPlan, ClickCommit, rows
    <2>6. CASE UNCHANGED vars
      BY <2>6, HoldFrame DEF vars
    <2>7. QED BY <2>1, <2>2, <2>3, <2>4, <2>5, <2>6, HoldSync DEF Next
  <1>3. QED BY <1>1, <1>2 DEF IInv

\* However many handlers interleave and wherever they fail, a same-session sync
\* never writes a state other than STOPPED over a lock that was active ever since
\* the sync read the rules.
THEOREM HoldCorrect == Spec => []HoldIsEffective
  <1>1. IInv => HoldIsEffective
    BY DEF IInv
  <1>2. QED BY HoldInit, HoldStep, <1>1, PTL DEF Spec
=============================================================================
