------------------------------ MODULE Settings ------------------------------
(***************************************************************************)
(* Plan edits and account removal on one account, over its sessions.  The  *)
(* two meet in the ConnectedAccount row: a disconnect or a lapsed token    *)
(* makes a queued plan safe to apply, an account that is not live edits    *)
(* its plan without a queue.  /api/cron/promote-pending-rules runs both    *)
(* promoters in one Promise.all, so their steps interleave.                *)
(***************************************************************************)
EXTENDS RuleEdits, Removal

vars == <<sessionVars, asked, planVars, moveVars>>

TypeOK == SessionTypeOK /\ PlanTypeOK /\ MoveTypeOK

Init == SessionInit /\ PlanInit /\ MoveInit

\* The plan rows do not change, but what a request in flight has read may be old.
AroundPlans == /\ Disturb
               /\ UNCHANGED rowsOfPlans

SessionStep == /\ SessionNext
               /\ AroundPlans
               /\ UNCHANGED <<asked, moveVars>>
PlanStep == PlanNext /\ UNCHANGED moveVars
MoveStep == MoveNext /\ AroundPlans

Next == SessionStep \/ PlanStep \/ MoveStep

Spec == Init /\ [][Next]_vars

\* The hours pass.  The cron runs every few minutes, so in every break, and a
\* database that refuses now and then does not refuse for ever.  A promotion of the
\* template takes seconds, so it does not fill every break.
Fairness ==
    /\ WF_vars(SessionStep /\ Tick)
    /\ SF_vars(PromotePlan /\ UNCHANGED moveVars)
    /\ SF_vars(PromotedPlan /\ UNCHANGED moveVars)
    /\ SF_vars(~MarketOpen /\ TemplateDone /\ UNCHANGED moveVars)
    /\ WF_vars(StartArchival /\ AroundPlans)
    /\ SF_vars(FinishArchival /\ AroundPlans)

FairSpec == Spec /\ Fairness

=============================================================================
