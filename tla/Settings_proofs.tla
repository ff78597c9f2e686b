-------------------------- MODULE Settings_proofs ---------------------------
(***************************************************************************)
(* Theorems about Settings, for any number of requests: its state stays    *)
(* well typed, and while the account trades no request and no promoter     *)
(* that has read so changes the plan in force.                             *)
(***************************************************************************)
EXTENDS Settings, TLAPS

\* A request or a promoter under way carries a plan.
Carried == /\ edit.op # "idle" => edit.change.plan \in Plans
           /\ promotion.op # "idle" => promotion.change.plan \in Plans

\* What a request or a promoter read is still so while nothing else has happened.
StillSo ==
    /\ edit.calm => /\ edit.op = "set" => override = NoPlan \/ ~traded
                    /\ edit.op = "setTemplate" => ~traded
    /\ promotion.calm => /\ promotion.op = "account" => SafeForAccount
                         /\ promotion.op = "template" => SafeForTemplate

IInv == TypeOK /\ Carried /\ StillSo

-----------------------------------------------------------------------------
(* Operators *)

LEMMA ChangeType ==
    /\ NoChange \in Changes /\ NoChange.plan \notin Plans
    /\ \A n \in Plans, remove \in BOOLEAN :
         Change(n, remove) \in Changes /\ Change(n, remove).plan = n
    /\ \A c \in Changes : c # NoChange => /\ c.plan \in Plans
                                          /\ Result(c) \in Plans \cup {NoPlan}
BY RequestsAssumption DEF NoChange, Change, Changes, Plans, NoPlan, Result

LEMMA PlanValues == NoPlan \notin Plans /\ Blank \notin Plans /\ Blank # NoPlan /\ 0 \in Plans
BY RequestsAssumption DEF NoPlan, Blank, Plans

LEMMA IdleType == Idle \in Edits /\ Idle \in Promotions /\ Idle.op = "idle" /\ ~Idle.calm
BY ChangeType DEF Idle, Edits, Promotions

\* An undisturbed answer is the one of a request nothing has happened around.
LEMMA EditDisturbed ==
    ASSUME edit \in Edits
    PROVE  /\ Disturbed(edit) \in Edits
           /\ Disturbed(edit).op = edit.op /\ Disturbed(edit).change = edit.change
           /\ edit.op # "idle" => ~Disturbed(edit).calm
BY DEF Disturbed, Edits

LEMMA PromotionDisturbed ==
    ASSUME promotion \in Promotions
    PROVE  /\ Disturbed(promotion) \in Promotions
           /\ Disturbed(promotion).op = promotion.op
           /\ Disturbed(promotion).change = promotion.change
           /\ promotion.op # "idle" => ~Disturbed(promotion).calm
BY DEF Disturbed, Promotions

LEMMA SessionType ==
    ASSUME SessionTypeOK, SessionNext, asked' = asked
    PROVE  SessionTypeOK'
  <1> USE DEF SessionTypeOK, Accounts, Rows
  <1>1. CASE Tick
    <2>1. phase' \in Phases /\ traded' \in BOOLEAN /\ UNCHANGED lock
      BY <1>1 DEF Tick, Following, Phases
    <2>2. row' = [row EXCEPT !.fresh = row.fresh /\ phase # "break"]
      BY <1>1 DEF Tick
    <2>3. account' = [account EXCEPT !.due = IF phase = "evening" THEN 0 ELSE account.due]
      BY <1>1 DEF Tick
    <2>4. row' \in Rows
      BY <2>2
    <2>5. account' \in Accounts
      BY <2>3
    <2> QED BY <2>1, <2>4, <2>5
  <1>2. CASE Weekend
    BY <1>2 DEF Weekend
  <1>3. CASE SyncAccount
    <2>1. row' \in Rows /\ lock' \in BOOLEAN
      BY <1>3 DEF SyncAccount
    <2>2. traded' \in BOOLEAN /\ UNCHANGED <<phase, account>>
      BY <1>3 DEF SyncAccount, MayRecordTrade
    <2> QED BY <2>1, <2>2
  <1>4. CASE Webhook
    <2>1. ASSUME NEW r \in AfterWebhook(row) PROVE r \in Rows
      <3> DEFINE reset == [fresh |-> TRUE, stopped |-> FALSE, cool |-> FALSE]
                 bases == IF ~row.fresh THEN {reset}
                          ELSE IF row.cool THEN {reset, row} ELSE {row}
                 acts(b) == IF b.stopped \/ b.cool THEN {b}
                            ELSE {b, [b EXCEPT !.stopped = TRUE],
                                  [b EXCEPT !.stopped = TRUE, !.cool = TRUE]}
      <3>1. \A b \in Rows : acts(b) \subseteq Rows
        OBVIOUS
      <3>2. reset \in Rows /\ row \in Rows /\ bases \subseteq {reset, row}
        <4>1. reset \in Rows
          OBVIOUS
        <4>2. row \in Rows
          BY Zenon
        <4> HIDE DEF reset
        <4> QED BY <4>1, <4>2
      <3>3. AfterWebhook(row) = UNION {acts(b) : b \in bases}
        BY DEF AfterWebhook
      <3> HIDE DEF acts, bases
      <3>4. PICK b \in bases : r \in acts(b)
        BY <2>1, <3>3
      <3> QED BY <3>1, <3>2, <3>4
    <2>2. traded' \in BOOLEAN /\ row' \in AfterWebhook(row) /\ UNCHANGED <<phase, lock>>
          /\ account' = [account EXCEPT !.conn = "live"]
      BY <1>4 DEF Webhook, MayRecordTrade
    <2> QED BY <2>1, <2>2
  <1>5. CASE Lockout
    BY <1>5 DEF Lockout
  <1>6. CASE ResetSession
    BY <1>6 DEF ResetSession
  <1>7. CASE ConnectionLapses
    BY <1>7 DEF ConnectionLapses
  <1> QED BY <1>1, <1>2, <1>3, <1>4, <1>5, <1>6, <1>7 DEF SessionNext

\* Around the plans: the rows stay, and what was read may be old.
LEMMA AroundInv ==
    ASSUME IInv, AroundPlans
    PROVE  /\ PlanTypeOK' /\ StillSo'
           /\ edit'.op # "idle" => edit'.change.plan \in Plans
           /\ promotion'.op # "idle" => promotion'.change.plan \in Plans
  <1>1. edit \in Edits /\ promotion \in Promotions
    BY DEF IInv, TypeOK, PlanTypeOK
  <1>2. edit' = Disturbed(edit) /\ promotion' = Disturbed(promotion)
        /\ UNCHANGED <<override, queued, template, queuedTemplate>>
    BY DEF AroundPlans, Disturb, rowsOfPlans
  <1>3. PlanTypeOK'
    BY <1>1, <1>2, EditDisturbed, PromotionDisturbed DEF IInv, TypeOK, PlanTypeOK
  <1>4. StillSo'
    BY <1>1, <1>2, EditDisturbed, PromotionDisturbed DEF StillSo
  <1> QED BY <1>1, <1>2, <1>3, <1>4, EditDisturbed, PromotionDisturbed
          DEF IInv, Carried

-----------------------------------------------------------------------------
(* The invariant *)

LEMMA InitInv == Init => IInv
  <1> SUFFICES ASSUME Init PROVE IInv
    OBVIOUS
  <1>1. SessionTypeOK
    <2>1. phase \in Phases /\ traded \in BOOLEAN /\ row \in Rows /\ lock \in BOOLEAN
      BY DEF Init, SessionInit, Phases, Rows
    <2>2. account \in Accounts
      BY DEF Init, SessionInit, Accounts, Statuses
    <2>3. asked \in 0..MaxRequests
      BY RequestsAssumption DEF Init, SessionInit
    <2> QED BY <2>1, <2>2, <2>3 DEF SessionTypeOK
  <1>2. PlanTypeOK
    BY ChangeType, PlanValues, IdleType DEF Init, PlanInit, PlanTypeOK
  <1>3. MoveTypeOK
    BY <1>1 DEF Init, MoveInit, MoveTypeOK, NoMove, Moves, Statuses, SessionTypeOK, Accounts
  <1>4. Carried /\ StillSo
    BY IdleType DEF Init, PlanInit, MoveInit, NoMove, Carried, StillSo
  <1> QED BY <1>1, <1>2, <1>3, <1>4 DEF IInv, TypeOK

LEMMA SessionInv ==
    ASSUME IInv, SessionStep
    PROVE  IInv'
  <1>1. SessionNext /\ AroundPlans /\ asked' = asked
        /\ UNCHANGED <<move, archival>>
    BY DEF SessionStep, moveVars
  <1>2. SessionTypeOK'
    BY <1>1, SessionType DEF IInv, TypeOK
  <1>3. MoveTypeOK'
    BY <1>1 DEF IInv, TypeOK, MoveTypeOK
  <1> QED BY <1>1, <1>2, <1>3, AroundInv DEF IInv, TypeOK, Carried

\* What the requests for a status do to the account.
LEMMA MoveInv ==
    ASSUME IInv, MoveStep
    PROVE  IInv'
  <1>1. MoveNext /\ AroundPlans
    BY DEF MoveStep
  <1>2. /\ SessionTypeOK /\ MoveTypeOK /\ account \in Accounts /\ move \in Moves
        /\ asked \in 0..MaxRequests
    BY DEF IInv, TypeOK, SessionTypeOK, MoveTypeOK
  <1> DEFINE Good == SessionTypeOK' /\ MoveTypeOK'
  <1>3. ASSUME NEW op \in {"apply", "defer", "disconnect", "import", "reconnect"},
               NEW to \in Statuses, AskMove(op, to)
        PROVE  Good
    <2>1. move' = [op |-> op, to |-> to] /\ asked' \in 0..MaxRequests
      BY <1>2, <1>3, RequestsAssumption DEF AskMove
    <2>2. UNCHANGED <<phase, traded, row, lock, account, archival>>
      BY <1>3 DEF AskMove, sessionVars
    <2> QED BY <1>2, <2>1, <2>2 DEF SessionTypeOK, MoveTypeOK, Moves
  <1>4. account.status \in Statuses /\ Nothing \notin Statuses /\ "protected" \in Statuses
        /\ "archived" \in Statuses
    BY <1>2 DEF Accounts, Statuses, Nothing
  <1>5. ASSUME Archive PROVE Good
    BY <1>3, <1>4, <1>5 DEF Archive
  <1>6. ASSUME Connect PROVE Good
    BY <1>3, <1>4, <1>6 DEF Connect
  <1>7. ASSUME NEW inWindow \in BOOLEAN, Disconnect(inWindow) PROVE Good
    BY <1>3, <1>4, <1>7 DEF Disconnect
  <1>8. ASSUME NEW inWindow \in BOOLEAN, NEW to \in Statuses, ChangeStatus(to, inWindow)
        PROVE  Good
    BY <1>3, <1>8 DEF ChangeStatus
  <1>9. ASSUME WriteMove PROVE Good
    <2>1. UNCHANGED <<phase, traded, row, lock, asked, archival>> /\ move' = NoMove
          /\ account' = Written(move) /\ move.op # "idle"
      BY <1>9 DEF WriteMove
    <2>2. Written(move) \in Accounts
      <3>1. CASE move.op = "apply"
        BY <1>2, <3>1 DEF Written, Accounts, Moves
      <3>2. CASE move.op = "defer"
        BY <1>2, <3>2 DEF Written, Accounts, Moves
      <3>3. CASE move.op = "disconnect"
        BY <1>2, <3>3 DEF Written, Accounts
      <3>4. CASE move.op = "import"
        BY <1>2, <3>4 DEF Written, Accounts, Moves
      <3>5. CASE move.op = "reconnect"
        BY <1>2, <3>5 DEF Written, Accounts
      <3> QED BY <1>2, <2>1, <3>1, <3>2, <3>3, <3>4, <3>5 DEF Moves
    <2>3. move' \in Moves
      BY <1>4, <2>1 DEF NoMove, Moves
    <2> QED BY <1>2, <2>1, <2>2, <2>3 DEF SessionTypeOK, MoveTypeOK
  <1>10. ASSUME FinishArchival PROVE Good
    <2>1. /\ UNCHANGED <<phase, traded, row, lock, asked, move>>
          /\ account' = [account EXCEPT !.status = "archived", !.wanted = Nothing, !.due = 0]
          /\ archival' = FALSE
      BY <1>10 DEF FinishArchival
    <2>2. account' \in Accounts
      BY <1>2, <1>4, <2>1 DEF Accounts
    <2> QED BY <1>2, <2>1, <2>2 DEF SessionTypeOK, MoveTypeOK
  <1>11. ASSUME MoveFails \/ StartArchival \/ ArchivalFails PROVE Good
    <2>1. /\ UNCHANGED <<phase, traded, row, lock, account, asked>>
          /\ archival' \in BOOLEAN /\ move' \in {move, NoMove}
      BY <1>2, <1>11 DEF MoveFails, StartArchival, ArchivalFails, sessionVars, MoveTypeOK
    <2>2. NoMove \in Moves
      BY <1>4 DEF NoMove, Moves
    <2> QED BY <1>2, <2>1, <2>2 DEF SessionTypeOK, MoveTypeOK
  <1>12. Good
    BY <1>1, <1>5, <1>6, <1>7, <1>8, <1>9, <1>10, <1>11 DEF MoveNext
  <1> QED BY <1>1, <1>12, AroundInv DEF IInv, TypeOK, Carried

\* What the requests for a plan and the promoters do to the rows.
LEMMA PlanInv ==
    ASSUME IInv, PlanStep
    PROVE  IInv'
  <1>1. PlanNext /\ UNCHANGED <<move, archival>>
    BY DEF PlanStep, moveVars
  <1>2. /\ edit \in Edits /\ promotion \in Promotions
        /\ override \in Plans \cup {NoPlan, Blank} /\ queued \in Changes
        /\ template \in Plans /\ queuedTemplate \in Plans \cup {NoPlan}
        /\ asked \in 0..MaxRequests
        /\ StillSo /\ Carried
    BY DEF IInv, TypeOK, PlanTypeOK, SessionTypeOK
  <1> DEFINE Good == /\ UNCHANGED <<phase, traded, row, lock, account>>
                     /\ asked' \in 0..MaxRequests
                     /\ PlanTypeOK' /\ StillSo'
                     /\ edit'.op # "idle" => edit'.change.plan \in Plans
                     /\ promotion'.op # "idle" => promotion'.change.plan \in Plans
  \* A request is taken on.
  <1>3. ASSUME NEW op \in {"set", "queue", "setTemplate", "queueTemplate"},
               NEW remove \in BOOLEAN, Ask(op, remove),
               op = "set" => override = NoPlan \/ ~traded,
               op = "setTemplate" => ~traded,
               UNCHANGED <<sessionVars, rowsOfPlans, promotion>>
        PROVE  Good
    <2>1. /\ asked' \in 0..MaxRequests /\ asked' \in Plans
          /\ edit' = [op |-> op, change |-> Change(asked', remove), calm |-> TRUE]
      BY <1>2, <1>3, RequestsAssumption DEF Ask, Plans
    <2>2. UNCHANGED <<phase, traded, row, lock, account, override, queued, template,
                      queuedTemplate, promotion>>
      BY <1>3 DEF sessionVars, rowsOfPlans
    <2>3. Change(asked', remove) \in Changes /\ Change(asked', remove).plan \in Plans
      BY <2>1, ChangeType
    <2>4. /\ edit' \in Edits /\ edit'.op = op
          /\ edit'.change.plan \in Plans
      BY <2>1, <2>3 DEF Edits
    <2>5. PlanTypeOK'
      BY <1>2, <2>2, <2>4 DEF PlanTypeOK
    <2>6. StillSo'
      BY <1>2, <1>3, <2>2, <2>4
         DEF StillSo, SafeForAccount, SafeForTemplate, MarketOpen, IsAccountLocked
    <2> QED BY <1>2, <2>1, <2>2, <2>4, <2>5, <2>6 DEF Carried
  <1>4. ASSUME NEW inWindow \in BOOLEAN, PatchPlan(inWindow) PROVE Good
    <2>1. /\ UNCHANGED <<sessionVars, rowsOfPlans, promotion>>
          /\ override = NoPlan \/ ~traded
          /\ \E remove \in BOOLEAN : Ask("queue", remove) \/ Ask("set", remove)
      BY <1>4 DEF PatchPlan, FirstTimeSetup
    <2> QED BY <1>3, <2>1
  <1>5. ASSUME NEW inWindow \in BOOLEAN, PatchTemplate(inWindow) PROVE Good
    <2>1. /\ UNCHANGED <<sessionVars, rowsOfPlans, promotion>> /\ ~traded
          /\ Ask("queueTemplate", FALSE) \/ Ask("setTemplate", FALSE)
      BY <1>5 DEF PatchTemplate
    <2> QED BY <1>3, <2>1
  <1>6. ASSUME CopyPlan PROVE Good
    <2>1. /\ UNCHANGED <<sessionVars, rowsOfPlans, promotion>>
          /\ override = NoPlan \/ ~traded
      BY <1>6 DEF CopyPlan, FirstTimeSetup
    <2>2. Ask("set", FALSE)
      BY <1>6 DEF CopyPlan
    <2> QED BY <1>3, <2>1, <2>2
  \* A step that ends one slot and disturbs the other, and rewrites the rows.
  <1>7. ASSUME \/ edit' = Idle /\ promotion' = Disturbed(promotion)
               \/ promotion' = Idle /\ edit' = Disturbed(edit),
               UNCHANGED <<phase, traded, row, lock, account, asked>>,
               \/ edit.op # "idle" \/ promotion.op # "idle",
               override' \in Plans \cup {NoPlan, Blank}, queued' \in Changes,
               template' \in Plans, queuedTemplate' \in Plans \cup {NoPlan}
        PROVE  Good
    <2>1. edit' \in Edits /\ promotion' \in Promotions
      BY <1>2, <1>7, IdleType, EditDisturbed, PromotionDisturbed
    <2>2. PlanTypeOK'
      BY <1>7, <2>1 DEF PlanTypeOK
    <2>3. StillSo'
      BY <1>2, <1>7, IdleType, EditDisturbed, PromotionDisturbed DEF StillSo
    <2>4. /\ edit'.op # "idle" => edit'.change.plan \in Plans
          /\ promotion'.op # "idle" => promotion'.change.plan \in Plans
      BY <1>2, <1>7, IdleType, EditDisturbed, PromotionDisturbed DEF Carried
    <2> QED BY <1>2, <1>7, <2>2, <2>3, <2>4
  <1>8. ASSUME WritePlan PROVE Good
    <2> DEFINE c == edit.change
    <2>1. /\ edit.op \in {"set", "queue"} /\ edit' = Idle
          /\ promotion' = Disturbed(promotion)
          /\ override' = (IF edit.op = "set" THEN Result(c)
                          ELSE IF override = NoPlan THEN Blank ELSE override)
          /\ queued' = (IF edit.op = "queue" THEN c ELSE NoChange)
          /\ UNCHANGED <<phase, traded, row, lock, account, asked>>
          /\ UNCHANGED <<template, queuedTemplate>>
      BY <1>8 DEF WritePlan, sessionVars
    <2>2. c \in Changes /\ c # NoChange /\ Result(c) \in Plans \cup {NoPlan}
      BY <1>2, <2>1, ChangeType DEF Edits, Carried
    <2> HIDE DEF c
    <2> QED BY <1>2, <1>7, <2>1, <2>2, ChangeType
  <1>9. ASSUME WriteTemplate PROVE Good
    <2> DEFINE n == edit.change.plan
    <2>1. /\ edit.op \in {"setTemplate", "queueTemplate"} /\ edit' = Idle
          /\ promotion' = Disturbed(promotion)
          /\ template' = (IF edit.op = "setTemplate" THEN n ELSE template)
          /\ queuedTemplate' = (IF edit.op = "queueTemplate" THEN n ELSE NoPlan)
          /\ UNCHANGED <<phase, traded, row, lock, account, asked>>
          /\ UNCHANGED <<override, queued>>
      BY <1>9 DEF WriteTemplate, sessionVars
    <2>2. n \in Plans
      BY <1>2, <2>1 DEF Carried
    <2> HIDE DEF n
    <2> QED BY <1>2, <1>7, <2>1, <2>2
  <1>10. ASSUME PromotedPlan PROVE Good
    <2> DEFINE c == promotion.change
    <2>1. /\ promotion.op = "account" /\ promotion' = Idle /\ edit' = Disturbed(edit)
          /\ override' = Result(c) /\ queued' = NoChange
          /\ UNCHANGED <<phase, traded, row, lock, account, asked>>
          /\ UNCHANGED <<template, queuedTemplate>>
      BY <1>10 DEF PromotedPlan, sessionVars
    <2>2. c \in Changes /\ c # NoChange /\ Result(c) \in Plans \cup {NoPlan}
      BY <1>2, <2>1, ChangeType DEF Promotions, Carried
    <2> HIDE DEF c
    <2> QED BY <1>2, <1>7, <2>1, <2>2, ChangeType
  <1>11. ASSUME PromotedTemplate PROVE Good
    <2> DEFINE n == promotion.change.plan
    <2>1. /\ promotion.op = "template" /\ promotion' = Idle /\ edit' = Disturbed(edit)
          /\ template' = n /\ queuedTemplate' = NoPlan
          /\ UNCHANGED <<phase, traded, row, lock, account, asked>>
          /\ UNCHANGED <<override, queued>>
      BY <1>11 DEF PromotedTemplate, sessionVars
    <2>2. n \in Plans
      BY <1>2, <2>1 DEF Carried
    <2> HIDE DEF n
    <2> QED BY <1>2, <1>7, <2>1, <2>2
  \* The other steps of a promoter, and a request that fails.
  <1>12. ASSUME NEW op \in {"account", "template"}, NEW c \in Changes, c.plan \in Plans,
                op = "account" => SafeForAccount,
                op = "template" => SafeForTemplate,
                promotion' = [op |-> op, change |-> c, calm |-> TRUE],
                UNCHANGED <<sessionVars, rowsOfPlans, edit, asked>>
         PROVE  Good
    <2>1. UNCHANGED <<phase, traded, row, lock, account, override, queued, template,
                      queuedTemplate, edit, asked>>
      BY <1>12 DEF sessionVars, rowsOfPlans
    <2>2. promotion' \in Promotions /\ promotion'.op = op /\ promotion'.change.plan \in Plans
      BY <1>12 DEF Promotions
    <2>3. PlanTypeOK'
      BY <1>2, <2>1, <2>2 DEF PlanTypeOK
    <2>4. StillSo'
      BY <1>2, <1>12, <2>1, <2>2
         DEF StillSo, SafeForAccount, SafeForTemplate, MarketOpen, IsAccountLocked
    <2> QED BY <1>2, <2>1, <2>2, <2>3, <2>4 DEF Carried
  <1>13. ASSUME PromotePlan PROVE Good
    <2>1. queued \in Changes /\ queued.plan \in Plans
      BY <1>2, <1>13, ChangeType DEF PromotePlan
    <2> QED BY <1>12, <1>13, <2>1 DEF PromotePlan
  <1>14. ASSUME PromoteTemplate PROVE Good
    <2> DEFINE c == Change(queuedTemplate, FALSE)
    <2>1. c \in Changes /\ c.plan \in Plans
      BY <1>2, <1>14, ChangeType DEF PromoteTemplate
    <2>2. /\ SafeForTemplate
          /\ promotion' = [op |-> "template", change |-> c, calm |-> TRUE]
          /\ UNCHANGED <<sessionVars, rowsOfPlans, edit, asked>>
      BY <1>14 DEF PromoteTemplate
    <2> HIDE DEF c
    <2> QED BY <1>12, <2>1, <2>2
  <1>15. ASSUME PromotionFails \/ EditFails PROVE Good
    <2>1. /\ UNCHANGED <<phase, traded, row, lock, account, override, queued, template,
                         queuedTemplate, asked>>
          /\ edit' \in {edit, Idle} /\ promotion' \in {promotion, Idle}
      BY <1>15 DEF PromotionFails, EditFails, sessionVars, rowsOfPlans
    <2>2. PlanTypeOK'
      BY <1>2, <2>1, IdleType DEF PlanTypeOK
    <2>3. StillSo'
      BY <1>2, <2>1, IdleType
         DEF StillSo, SafeForAccount, SafeForTemplate, MarketOpen, IsAccountLocked
    <2> QED BY <1>2, <2>1, <2>2, <2>3, IdleType DEF Carried
  <1>16. Good
    BY <1>1, <1>4, <1>5, <1>6, <1>8, <1>9, <1>10, <1>11, <1>13, <1>14, <1>15 DEF PlanNext
  <1>17. SessionTypeOK' /\ MoveTypeOK'
    BY <1>1, <1>16 DEF IInv, TypeOK, SessionTypeOK, MoveTypeOK
  <1> QED BY <1>1, <1>16, <1>17 DEF IInv, TypeOK, Carried

LEMMA StutterInv ==
    ASSUME IInv, UNCHANGED vars
    PROVE  IInv'
  <1> USE DEF vars, sessionVars, planVars, moveVars
  <1>1. TypeOK'
    BY DEF IInv, TypeOK, SessionTypeOK, PlanTypeOK, MoveTypeOK
  <1>2. Carried' /\ StillSo'
    BY DEF IInv, Carried, StillSo, SafeForAccount, SafeForTemplate, MarketOpen,
           IsAccountLocked
  <1> QED BY <1>1, <1>2 DEF IInv

LEMMA Invariance == Spec => []IInv
<1>1. Init => IInv
  BY InitInv
<1>2. IInv /\ [Next]_vars => IInv'
  BY SessionInv, PlanInv, MoveInv, StutterInv DEF Next
<1> QED BY <1>1, <1>2, PTL DEF Spec

-----------------------------------------------------------------------------
(* Theorems *)

\* The state of the sessions, of the plans and of the account row stays well typed.
THEOREM TypeCorrect == Spec => []TypeOK
<1>1. IInv => TypeOK
  BY DEF IInv
<1> QED BY <1>1, Invariance, PTL

\* While a live account trades unlocked on an open market, no request and no
\* promoter that has read so changes the plan in force (canActivateRulesNow, and
\* the checks of PATCH /api/accounts/[id], .../rules/copy and POST /api/rules).
THEOREM PlanHoldsCorrect == Spec => PlanHoldsWhileTrading
  <1> DEFINE Held == Trading =>
                 \/ edit' = Idle /\ ~edit.calm /\ edit.op # "idle"
                 \/ promotion' = Idle /\ ~promotion.calm /\ promotion.op # "idle"
                 \/ IF override # NoPlan THEN override' = override ELSE template' = template
  <1>1. IInv /\ [Next]_vars => [Held]_<<override, template>>
    <2> SUFFICES ASSUME IInv, [Next]_vars, Trading,
                        <<override, template>>' # <<override, template>>
                 PROVE  Held
      OBVIOUS
    <2>1. StillSo /\ traded
      BY DEF IInv, Trading
    <2>2. WritePlan \/ WriteTemplate \/ PromotedPlan \/ PromotedTemplate
      BY DEF Next, SessionStep, MoveStep, AroundPlans, PlanStep, PlanNext, PatchPlan,
             PatchTemplate, CopyPlan, EditFails, PromotePlan, PromoteTemplate,
             PromotionFails, rowsOfPlans, vars, planVars
    <2>3. CASE WritePlan
      BY <2>1, <2>3 DEF WritePlan, StillSo
    <2>4. CASE WriteTemplate
      BY <2>1, <2>4 DEF WriteTemplate, StillSo
    <2>5. CASE PromotedPlan
      BY <2>1, <2>5 DEF PromotedPlan, StillSo, SafeForAccount, Trading
    <2>6. CASE PromotedTemplate
      BY <2>1, <2>6 DEF PromotedTemplate, StillSo, SafeForTemplate, Trading
    <2> QED BY <2>2, <2>3, <2>4, <2>5, <2>6
  <1> QED BY <1>1, Invariance, PTL DEF Spec, PlanHoldsWhileTrading

=============================================================================
