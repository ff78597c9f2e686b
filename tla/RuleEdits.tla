----------------------------- MODULE RuleEdits -----------------------------
(***************************************************************************)
(* The trading plan of an account: its own AccountRiskRules row or, failing *)
(* that, the user's default template RiskRules, and the changes queued for *)
(* each (pendingPayloadJson).                                              *)
(*                                                                         *)
(* A plan is named by the number of the request that set it: 0 is what was *)
(* there at the start.  A request reads everything it judges by, and       *)
(* writes later; the promoter of queued plans does the same.  A user may   *)
(* edit while the cron runs, so one request and one promoter may overlap.  *)
(***************************************************************************)
EXTENDS AccountSession

VARIABLES
    override,        \* the account's own row: absent, or a plan
    queued,          \* the change queued in that row
    template,        \* the default plan of the user
    queuedTemplate,  \* the change queued for it
    edit,            \* the request being handled
    promotion        \* the promoter's row being handled

planVars == <<override, queued, template, queuedTemplate, edit, promotion>>

Plans == 0..MaxRequests
NoPlan == -1       \* no row, or nothing queued
Blank == -2        \* a row that holds a queued change and no rule
Change(n, remove) == [plan |-> n, remove |-> remove]
NoChange == Change(NoPlan, FALSE)
Changes == [plan : Plans, remove : BOOLEAN] \cup {NoChange}
Result(change) == IF change.remove THEN NoPlan ELSE change.plan

\* calm: history, nothing else has happened since the request read its inputs.
Idle == [op |-> "idle", change |-> NoChange, calm |-> FALSE]
Edits == [op : {"idle", "set", "queue", "setTemplate", "queueTemplate"},
          change : Changes, calm : BOOLEAN]
Promotions == [op : {"idle", "account", "template"}, change : Changes,
               calm : BOOLEAN]

PlanTypeOK ==
    /\ override \in Plans \cup {NoPlan, Blank}
    /\ queued \in Changes
    /\ template \in Plans
    /\ queuedTemplate \in Plans \cup {NoPlan}
    /\ edit \in Edits
    /\ promotion \in Promotions

\* Accounts with rules of their own and accounts without.
PlanInit ==
    /\ override \in {0, NoPlan}
    /\ queued = NoChange
    /\ template = 0
    /\ queuedTemplate = NoPlan
    /\ edit = Idle
    /\ promotion = Idle

Disturbed(slot) == IF slot.op = "idle" THEN slot ELSE [slot EXCEPT !.calm = FALSE]
Disturb == edit' = Disturbed(edit) /\ promotion' = Disturbed(promotion)

rowsOfPlans == <<override, queued, template, queuedTemplate>>

-----------------------------------------------------------------------------
(* The user's requests.  One that is refused changes nothing and is left    *)
(* out.  `inWindow' stands for the session windows the user has configured  *)
(* and for the manual lockout flag of GuardianStatus: any request may fall  *)
(* inside or outside of them.                                               *)

Ask(op, remove) ==
    /\ asked < MaxRequests
    /\ asked' = asked + 1
    /\ edit' = [op |-> op, change |-> Change(asked', remove), calm |-> TRUE]

FirstTimeSetup == override = NoPlan

\* Mutant: a trade of this session does not close the plan.
PatchPlan_NoTraded(inWindow) ==
    /\ edit.op = "idle"
    /\ FirstTimeSetup \/ ~row.stopped
    /\ \E remove \in BOOLEAN :
         IF ~FirstTimeSetup /\ account.conn = "live" /\ (inWindow \/ row.cool)
         THEN Ask("queue", remove)
         ELSE Ask("set", remove)
    /\ UNCHANGED <<sessionVars, rowsOfPlans, promotion>>

\* PATCH /api/accounts/[id]: a first setup passes every check; after that a stop
\* and a trade of this session refuse it, and a live account that is in its window
\* or cools down has the change queued.
PatchPlan(inWindow) ==
    /\ edit.op = "idle"
    /\ FirstTimeSetup \/ (~row.stopped /\ ~traded)
    /\ \E remove \in BOOLEAN :
         IF ~FirstTimeSetup /\ account.conn = "live" /\ (inWindow \/ row.cool)
         THEN Ask("queue", remove)
         ELSE Ask("set", remove)
    /\ UNCHANGED <<sessionVars, rowsOfPlans, promotion>>

\* POST .../rules/copy: another account's plan, at once; a stop is not looked at.
CopyPlan ==
    /\ edit.op = "idle"
    /\ FirstTimeSetup \/ ~traded
    /\ Ask("set", FALSE)
    /\ UNCHANGED <<sessionVars, rowsOfPlans, promotion>>

\* POST /api/rules: the same checks over all of the user's accounts, and no
\* exception for a first setup or a connection that is not live.
PatchTemplate(inWindow) ==
    /\ edit.op = "idle"
    /\ ~row.stopped
    /\ ~traded
    /\ Ask(IF inWindow \/ row.cool THEN "queueTemplate" ELSE "setTemplate", FALSE)
    /\ UNCHANGED <<sessionVars, rowsOfPlans, promotion>>

\* The row is upserted or deleted.  A plan set now drops the queued one; a plan
\* queued leaves the rules alone and makes a row without rules if there is none.
WritePlan ==
    /\ edit.op \in {"set", "queue"}
    /\ override' = IF edit.op = "set" THEN Result(edit.change)
                   ELSE IF override = NoPlan THEN Blank ELSE override
    /\ queued' = IF edit.op = "queue" THEN edit.change ELSE NoChange
    /\ edit' = Idle
    /\ promotion' = Disturbed(promotion)
    /\ UNCHANGED <<sessionVars, template, queuedTemplate, asked>>

WriteTemplate ==
    /\ edit.op \in {"setTemplate", "queueTemplate"}
    /\ template' = IF edit.op = "setTemplate" THEN edit.change.plan ELSE template
    /\ queuedTemplate' = IF edit.op = "queueTemplate" THEN edit.change.plan ELSE NoPlan
    /\ edit' = Idle
    /\ promotion' = Disturbed(promotion)
    /\ UNCHANGED <<sessionVars, override, queued, asked>>

-----------------------------------------------------------------------------
(* The promoter: the cron, or "apply pending now" *)

\* Mutant: a closed market is not a safe time.
SafeForAccount_AnyHour == account.conn # "live" \/ IsAccountLocked

\* canActivateRulesNow, scope "account".
SafeForAccount == ~MarketOpen \/ account.conn # "live" \/ IsAccountLocked

\* Scope "default": no live, unlocked account inherits the template.  A row, even
\* one without rules, counts as rules of the account's own.
SafeForTemplate == ~MarketOpen \/ override # NoPlan \/ account.conn # "live"
                   \/ IsAccountLocked

PromotePlan ==
    /\ promotion.op = "idle"
    /\ queued # NoChange
    /\ SafeForAccount
    /\ promotion' = [op |-> "account", change |-> queued, calm |-> TRUE]
    /\ UNCHANGED <<sessionVars, rowsOfPlans, edit, asked>>

PromoteTemplate ==
    /\ promotion.op = "idle"
    /\ queuedTemplate # NoPlan
    /\ SafeForTemplate
    /\ promotion' = [op |-> "template", change |-> Change(queuedTemplate, FALSE),
                     calm |-> TRUE]
    /\ UNCHANGED <<sessionVars, rowsOfPlans, edit, asked>>

\* The change read earlier is applied, whatever is queued by now; a row that is
\* gone makes the update fail.
PromotedPlan ==
    /\ promotion.op = "account"
    /\ override # NoPlan
    /\ override' = Result(promotion.change)
    /\ queued' = NoChange
    /\ promotion' = Idle
    /\ edit' = Disturbed(edit)
    /\ UNCHANGED <<sessionVars, template, queuedTemplate, asked>>

PromotedTemplate ==
    /\ promotion.op = "template"
    /\ template' = promotion.change.plan
    /\ queuedTemplate' = NoPlan
    /\ promotion' = Idle
    /\ edit' = Disturbed(edit)
    /\ UNCHANGED <<sessionVars, override, queued, asked>>

\* The database refuses, the row is gone or the process dies; the row stays queued.
PromotionFails ==
    /\ promotion.op # "idle"
    /\ promotion' = Idle
    /\ UNCHANGED <<sessionVars, rowsOfPlans, edit, asked>>

TemplateDone == PromotedTemplate \/ (promotion.op = "template" /\ PromotionFails)

EditFails ==
    /\ edit.op # "idle"
    /\ edit' = Idle
    /\ UNCHANGED <<sessionVars, rowsOfPlans, promotion, asked>>

PlanNext == \/ \E inWindow \in BOOLEAN : PatchPlan(inWindow) \/ PatchTemplate(inWindow)
            \/ CopyPlan \/ WritePlan \/ WriteTemplate \/ EditFails
            \/ PromotePlan \/ PromoteTemplate \/ PromotedPlan \/ PromotedTemplate
            \/ PromotionFails

-----------------------------------------------------------------------------
(* Properties *)

\* A live account trading on an open market, free of any stop, whose first trade
\* of the session is on record.
Trading == /\ MarketOpen
           /\ account.conn = "live"
           /\ traded
           /\ ~IsAccountLocked

\* While the account trades, the plan in force does not change, whoever writes:
\* neither a request nor a promoter that has read this state changes the rules of
\* the account, nor the template of an account that has none.  A first setup may
\* add rules; a writer that read before the trade may still write (PatchPlan and
\* the promoter do not check again).
PlanHoldsWhileTrading ==
    [][Trading =>
         \/ edit' = Idle /\ ~edit.calm /\ edit.op # "idle"
         \/ promotion' = Idle /\ ~promotion.calm /\ promotion.op # "idle"
         \/ IF override # NoPlan THEN override' = override ELSE template' = template
      ]_<<override, template>>

\* A queued plan comes into force or is replaced: each day has its break, in which
\* every account is safe, and the cron runs in it.
QueueDrains == (queued # NoChange) ~> (queued = NoChange)

=============================================================================
