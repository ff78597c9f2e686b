------------------------ MODULE PositionExit_proofs -------------------------
(***************************************************************************)
(* Theorems about PositionExit: its state stays well typed; no automatic   *)
(* write leaves in a dry run, with a read-only permission or without the   *)
(* consent; the row of an enforcement tells what was sent; and a lockout   *)
(* that reports success leaves every contract flat but those whose order   *)
(* it could not see.  All four hold for any contracts and limits, any      *)
(* deployment, and any number of syncs, tasks and clicks that overlap.     *)
(***************************************************************************)
EXTENDS PositionExit, TLAPS

-----------------------------------------------------------------------------
(* What is true of each process at each of its steps *)

\* What a row may say of a liquidation.
Truthful(l) == /\ l.sent => l.exit \in {"attempted", "flattened", "failed"}
               /\ l.exit \in {"attempted", "flattened"} => l.sent
Unsent(l) == l.exit = "none" /\ ~l.sent

\* A consent that holds now was noticed by everyone who has yet to ask for it.
Agrees(a) == act[a].pc \in Asking /\ Consented => act[a].agreed
Writable == ~env.dryRun /\ env.permission # "read_only"

\* Only an exit for another rule than the daily loss comes before a task, and
\* only a task for the daily loss makes one of its own: no row answers for two.
SyncIsSound(s) ==
    /\ act[s].pc \in {"idle", "rules", "decide", "exit_read", "exit_send", "confirm",
                      "persist"}
    /\ Agrees(s)
    /\ act[s].pc = "decide" /\ act[s].allowed => act[s].agreed
    /\ act[s].pc \in {"exit_read", "exit_send", "confirm"} =>
         /\ act[s].agreed /\ Writable /\ env.orderActions
         /\ act[s].trigger # "daily_loss_limit"
    /\ act[s].pc \in {"exit_read", "exit_send"} => Unsent(act[s])
    /\ act[s].pc = "confirm" => act[s].sent
    /\ act[s].pc = "persist" =>
         /\ Truthful(act[s])
         /\ act[s].trigger = "daily_loss_limit" => Unsent(act[s])

TaskIsSound(t) ==
    /\ act[t].pc \in {"idle", "gate", "consent", "exit_read", "exit_send", "confirm",
                      "lock", "record"}
    /\ Agrees(t)
    /\ act[t].pc = "gate" =>
         /\ Truthful(act[t])
         /\ act[t].trigger = "daily_loss_limit" => Unsent(act[t])
    /\ act[t].pc = "consent" => env.permission # "read_only"
    /\ act[t].pc \in {"exit_read", "exit_send", "confirm", "lock"} =>
         act[t].agreed /\ Writable
    /\ act[t].pc \in {"consent", "exit_read", "exit_send"} => Unsent(act[t])
    /\ act[t].pc = "confirm" => act[t].sent
    /\ act[t].pc = "lock" => Truthful(act[t])
    /\ act[t].pc = "record" => act[t].lost \/ Truthful(act[t])

\* What a click that is still clean may say of the market, but for what its list
\* left out: every order that could open a position is on its list, then there is
\* none, then no position.
NoneWorking(c) == \A s \in Symbols \ act[c].hidden : market[s] \notin {"held", "working"}
AllFlat(c) == \A s \in Symbols \ act[c].hidden : market[s] = "flat"
ClickIsSound(c) ==
    act[c].clean =>
        /\ act[c].pc = "cancel" =>
             \A s \in Symbols \ act[c].hidden :
                 market[s] # "held" /\ (market[s] = "working" => s \in act[c].ids)
        /\ act[c].pc \in {"exit_read", "exit_send", "confirm"} => NoneWorking(c)
        /\ act[c].pc = "commit" /\ act[c].exit \in {"not_needed", "flattened"} => AllFlat(c)
        /\ act[c].pc = "done" => AllFlat(c)

Sound == /\ \A s \in Syncs : SyncIsSound(s)
         /\ \A t \in Tasks : TaskIsSound(t)
         /\ \A c \in Clicks : ClickIsSound(c)
IInv == TypeOK /\ Sound

-----------------------------------------------------------------------------
(* Operators *)

LEMMA IdleType == Idle \in ActStates /\ Idle.pc = "idle"
BY DEF Idle, ActStates, Triggers, Exits

LEMMA OpenType == /\ Open \subseteq Symbols /\ WorkingOrders \subseteq Symbols
                  /\ HeldOrders \subseteq Symbols
BY DEF Open, WorkingOrders, HeldOrders

\* The exit is told with what was sent, or neither is.
LEMMA LeftType ==
    ASSUME TypeOK, NEW a \in Actors, NEW e \in Exits
    PROVE  /\ Left(a, e) \in ActStates
           /\ Left(a, e).pc = After(a)
           /\ \/ Left(a, e).exit = e /\ Left(a, e).sent = act[a].sent
              \/ Left(a, e).exit = "none" /\ Left(a, e).sent = FALSE
           /\ Left(a, e).agreed = act[a].agreed
           /\ Left(a, e).clean = act[a].clean
           /\ Left(a, e).hidden = act[a].hidden
           /\ Left(a, e).trigger = act[a].trigger
           /\ Left(a, e).lost = act[a].lost
<1>1. After(a) \in {"persist", "lock", "commit"} /\ act[a] \in ActStates
  BY DEF TypeOK, After
<1>2. CASE Told(a)
  <2>1. Left(a, e) = [act[a] EXCEPT !.pc = After(a), !.ids = {}, !.exit = e,
                                    !.sent = Told(a) /\ @]
    BY <1>2 DEF Left
  <2>2. (Told(a) /\ act[a].sent) = act[a].sent
    BY <1>1, <1>2 DEF ActStates
  <2>3. Left(a, e) = [act[a] EXCEPT !.pc = After(a), !.ids = {}, !.exit = e,
                                    !.sent = act[a].sent]
    BY <1>1, <2>1, <2>2, ZenonT(30) DEF ActStates
  <2> QED BY <1>1, <2>3, ZenonT(30) DEF ActStates
<1>3. CASE ~Told(a)
  <2>1. (Told(a) /\ act[a].sent) = FALSE
    BY <1>3
  <2>2. Left(a, e) = [act[a] EXCEPT !.pc = After(a), !.ids = {}, !.exit = "none",
                                    !.sent = FALSE]
    BY <1>1, <1>3, <2>1, ZenonT(30) DEF Left, ActStates
  <2>3. "none" \in Exits
    BY DEF Exits
  <2> QED BY <1>1, <2>2, <2>3, ZenonT(30) DEF ActStates
<1> QED BY <1>2, <1>3

LEMMA RecordedType ==
    ASSUME TypeOK, NEW t \in Actors, NEW e \in Exits
    PROVE  /\ Recorded(t, e) \in ActStates
           /\ Recorded(t, e).pc = "record"
           /\ Recorded(t, e).exit = IF act[t].exit = "none" THEN e ELSE act[t].exit
           /\ Recorded(t, e).sent = act[t].sent
<1> DEFINE exit == IF act[t].exit = "none" THEN e ELSE act[t].exit
<1>1. exit \in Exits /\ act[t].sent \in BOOLEAN
  BY DEF TypeOK, ActStates
<1>2. Recorded(t, e) = [Idle EXCEPT !.pc = "record", !.sent = act[t].sent, !.exit = exit]
  BY DEF Recorded
<1> HIDE DEF exit
<1>3. /\ Recorded(t, e) \in ActStates /\ Recorded(t, e).pc = "record"
      /\ Recorded(t, e).exit = exit /\ Recorded(t, e).sent = act[t].sent
  BY <1>1, <1>2, ZenonT(30) DEF Idle, ActStates, Triggers
<1> QED BY <1>3 DEF exit

LEMMA SpoiledType ==
    ASSUME NEW l \in ActStates
    PROVE  /\ Spoiled(l) \in ActStates /\ Spoiled(l).pc = l.pc /\ ~Spoiled(l).clean
BY ZenonT(30) DEF Spoiled, ActStates

\* What the cascade finds: the daily loss, or a rule with an exit of its own.
LEMMA TriggerType ==
    ASSUME NEW l
    PROVE  SyncTrigger(l) \in Triggers
BY BreachesAssumption DEF SyncTrigger, Triggers

LEMMA GateType ==
    ASSUME NEW l
    PROVE  /\ SyncGate(l) \in {"dry_run", "unavailable_read_only",
                               "unavailable_consent_missing", "none"}
           /\ SyncGate(l) = "none" => Writable /\ env.orderActions /\ l.allowed
BY DEF SyncGate, Writable

\* A step that opens nothing: no new order, and what is flat stays flat.
Calmer == \A s \in Symbols : /\ market'[s] = "held" => market[s] = "held"
                             /\ market'[s] = "working" => market[s] \in {"held", "working"}
                             /\ market[s] = "flat" => market'[s] = "flat"

\* What a step that changes one process has to show.
LEMMA OneActor ==
    ASSUME IInv, NEW a \in Actors, NEW l \in ActStates,
           act' = [act EXCEPT ![a] = l],
           env' = env, consent' = consent, breach' = breach, stopped' \in BOOLEAN,
           market' \in [Symbols -> Markets], Calmer,
           a \in Syncs => SyncIsSound(a)',
           a \in Tasks => TaskIsSound(a)',
           a \in Clicks => ClickIsSound(a)'
    PROVE  IInv'
<1>1. TypeOK'
  BY DEF IInv, TypeOK
<1>2. act'[a] = l /\ \A b \in Actors \ {a} : act'[b] = act[b]
  BY DEF IInv, TypeOK
<1>3. ASSUME NEW s \in Syncs PROVE SyncIsSound(s)'
  BY <1>2 DEF IInv, Sound, SyncIsSound, Actors, Agrees, Asking, Consented, Writable
<1>4. ASSUME NEW t \in Tasks PROVE TaskIsSound(t)'
  BY <1>2 DEF IInv, Sound, TaskIsSound, Actors, Agrees, Asking, Consented, Writable
<1>5. ASSUME NEW c \in Clicks PROVE ClickIsSound(c)'
  BY <1>2 DEF IInv, Sound, ClickIsSound, Actors, NoneWorking, AllFlat, Calmer
<1> QED BY <1>1, <1>3, <1>4, <1>5 DEF IInv, Sound

\* What a step that leaves the processes alone has to show.
LEMMA NoActor ==
    ASSUME IInv, UNCHANGED <<env, consent, act>>, stopped' \in BOOLEAN,
           breach' \in Breaches \cup {"none"}, market' \in [Symbols -> Markets], Calmer
    PROVE  IInv'
<1>1. TypeOK'
  BY DEF IInv, TypeOK
<1>2. ASSUME NEW s \in Syncs PROVE SyncIsSound(s)'
  BY DEF IInv, Sound, SyncIsSound, Agrees, Asking, Consented, Writable
<1>3. ASSUME NEW t \in Tasks PROVE TaskIsSound(t)'
  BY DEF IInv, Sound, TaskIsSound, Agrees, Asking, Consented, Writable
<1>4. ASSUME NEW c \in Clicks PROVE ClickIsSound(c)'
  BY DEF IInv, Sound, ClickIsSound, NoneWorking, AllFlat, Calmer
<1> QED BY <1>1, <1>2, <1>3, <1>4 DEF IInv, Sound

-----------------------------------------------------------------------------
(* The invariant *)

LEMMA InitInv == Init => IInv
  <1> SUFFICES ASSUME Init PROVE IInv
    OBVIOUS
  <1>1. TypeOK
    BY IdleType DEF Init, TypeOK, Markets, Consents
  <1>2. ASSUME NEW s \in Syncs PROVE SyncIsSound(s)
    BY IdleType DEF Init, SyncIsSound, Agrees, Asking, Actors
  <1>3. ASSUME NEW t \in Tasks PROVE TaskIsSound(t)
    BY IdleType DEF Init, TaskIsSound, Agrees, Asking, Actors
  <1>4. ASSUME NEW c \in Clicks PROVE ClickIsSound(c)
    BY IdleType DEF Init, ClickIsSound, Actors
  <1> QED BY <1>1, <1>2, <1>3, <1>4 DEF IInv, Sound

LEMMA MarketInv ==
    ASSUME IInv, NEW s \in Symbols, Release(s) \/ Fill(s) \/ Liquidated(s) \/ CloseByHand(s)
    PROVE  IInv'
  <1>1. market' \in [Symbols -> Markets] /\ Calmer
    BY DEF IInv, TypeOK, Release, Fill, Liquidated, CloseByHand, Markets, Calmer
  <1>2. /\ UNCHANGED <<env, consent, act>> /\ stopped' \in BOOLEAN
        /\ breach' \in Breaches \cup {"none"}
    BY DEF IInv, TypeOK, Release, Fill, Liquidated, CloseByHand
  <1> QED BY <1>1, <1>2, NoActor

LEMMA RiskInv ==
    ASSUME IInv, OthersMoveTheRisk \/ BreachMoves
    PROVE  IInv'
  <1>1. /\ UNCHANGED <<env, consent, act, market>> /\ stopped' \in BOOLEAN
        /\ breach' \in Breaches \cup {"none"}
    BY DEF IInv, TypeOK, OthersMoveTheRisk, BreachMoves
  <1>2. market' \in [Symbols -> Markets] /\ Calmer
    BY <1>1 DEF IInv, TypeOK, Calmer
  <1> QED BY <1>1, <1>2, NoActor

\* An order ends the answer of every click that has begun.
LEMMA OrderInv ==
    ASSUME IInv, NEW x \in Symbols, Order(x)
    PROVE  IInv'
  <1> DEFINE new(a) == IF a \in Clicks /\ act[a].pc # "idle"
                       THEN Spoiled(act[a]) ELSE act[a]
  <1>1. act' = [a \in Actors |-> new(a)] /\ UNCHANGED <<env, consent, breach, stopped>>
    BY DEF Order
  <1>2. ASSUME NEW a \in Actors
        PROVE  /\ new(a) \in ActStates
               /\ new(a).pc = act[a].pc
               /\ a \notin Clicks => new(a) = act[a]
               /\ a \in Clicks /\ new(a).clean => act[a].pc = "idle"
    BY SpoiledType DEF IInv, TypeOK
  <1> HIDE DEF new
  <1>3. TypeOK'
    BY <1>1, <1>2 DEF IInv, TypeOK, Order, Markets
  <1>4. ASSUME NEW s \in Syncs PROVE SyncIsSound(s)'
    <2>1. act'[s] = act[s]
      BY <1>1, <1>2, ActorsAssumption DEF Actors
    <2> QED BY <1>1, <2>1 DEF IInv, Sound, SyncIsSound, Agrees, Asking, Consented, Writable
  <1>5. ASSUME NEW t \in Tasks PROVE TaskIsSound(t)'
    <2>1. act'[t] = act[t]
      BY <1>1, <1>2, ActorsAssumption DEF Actors
    <2> QED BY <1>1, <2>1 DEF IInv, Sound, TaskIsSound, Agrees, Asking, Consented, Writable
  <1>6. ASSUME NEW c \in Clicks PROVE ClickIsSound(c)'
    BY <1>1, <1>2 DEF ClickIsSound, Actors
  <1> QED BY <1>3, <1>4, <1>5, <1>6 DEF IInv, Sound

\* A consent that becomes valid is noticed by everyone who is running.
LEMMA ConsentInv ==
    ASSUME IInv, EditConsent
    PROVE  IInv'
  <1> DEFINE new(a) == IF Consented' /\ act[a].pc \in Asking
                       THEN [act[a] EXCEPT !.agreed = TRUE] ELSE act[a]
  <1>1. act' = [a \in Actors |-> new(a)] /\ UNCHANGED <<env, market, breach, stopped>>
    BY DEF EditConsent
  <1>2. ASSUME NEW a \in Actors
        PROVE  /\ new(a) \in ActStates
               /\ \A f \in {"pc", "trigger", "exit", "sent", "lost", "ids", "clean",
                           "hidden", "allowed"} :
                    new(a)[f] = act[a][f]
               /\ act[a].agreed => new(a).agreed
               /\ Consented' /\ act[a].pc \in Asking => new(a).agreed
    BY ZenonT(30) DEF IInv, TypeOK, ActStates
  <1>3. ASSUME NEW a \in Actors
        PROVE  /\ new(a).pc = act[a].pc /\ new(a).trigger = act[a].trigger
               /\ new(a).exit = act[a].exit /\ new(a).sent = act[a].sent
               /\ new(a).lost = act[a].lost /\ new(a).ids = act[a].ids
               /\ new(a).clean = act[a].clean /\ new(a).hidden = act[a].hidden
               /\ new(a).allowed = act[a].allowed
    BY <1>2
  <1> HIDE DEF new
  <1>4. TypeOK'
    <2>1. consent' \in Consents
      BY ConsentsAssumption DEF IInv, TypeOK, EditConsent, Consents
    <2> QED BY <2>1, <1>1, <1>2 DEF IInv, TypeOK
  <1>5. ASSUME NEW s \in Syncs PROVE SyncIsSound(s)'
    <2>1. s \in Actors /\ s \notin Clicks /\ act'[s] = new(s)
      BY <1>1, ActorsAssumption DEF Actors
    <2> QED BY <1>1, <1>2, <1>3, <2>1
            DEF IInv, Sound, SyncIsSound, Agrees, Asking, Writable, Unsent, Truthful
  <1>6. ASSUME NEW t \in Tasks PROVE TaskIsSound(t)'
    <2>1. t \in Actors /\ t \notin Clicks /\ act'[t] = new(t)
      BY <1>1, ActorsAssumption DEF Actors
    <2> QED BY <1>1, <1>2, <1>3, <2>1
            DEF IInv, Sound, TaskIsSound, Agrees, Asking, Writable, Unsent, Truthful
  <1>7. ASSUME NEW c \in Clicks PROVE ClickIsSound(c)'
    BY <1>1, <1>3 DEF IInv, Sound, ClickIsSound, NoneWorking, AllFlat, Actors
  <1> QED BY <1>4, <1>5, <1>6, <1>7 DEF IInv, Sound

\* The three steps of an exit, for whoever takes them.
LEMMA ExitInv ==
    ASSUME IInv, NEW a \in Actors, Exit(a)
    PROVE  IInv'
  <1> DEFINE liquidation == [s \in Symbols |-> IF s \in act[a].ids \cap Open
                                              THEN "leaving" ELSE market[s]]
             Goes(l) == /\ act' = [act EXCEPT ![a] = l]
                        /\ UNCHANGED <<env, consent, breach, stopped>>
                        /\ market' \in {market, liquidation}
  <1>1. /\ act[a] \in ActStates /\ stopped \in BOOLEAN
        /\ market \in [Symbols -> Markets] /\ liquidation \in [Symbols -> Markets]
    BY DEF IInv, TypeOK, Markets
  <1>2. \A s \in Symbols : s \in Open => market[s] \in {"open", "leaving"}
    BY DEF Open
  <1>3. ASSUME market' \in {market, liquidation} PROVE Calmer
    BY <1>2, <1>3 DEF Calmer
  <1>4. /\ a \in Syncs => SyncIsSound(a) /\ a \notin Tasks /\ a \notin Clicks
        /\ a \in Tasks => TaskIsSound(a) /\ a \notin Syncs /\ a \notin Clicks
        /\ a \in Clicks => ClickIsSound(a) /\ a \notin Syncs /\ a \notin Tasks
    BY ActorsAssumption DEF IInv, Sound
  <1> HIDE DEF liquidation
  <1>5. ASSUME NEW l \in ActStates, Goes(l),
               l.pc \in {"exit_send", "confirm", After(a)},
               a \in Syncs => SyncIsSound(a)',
               a \in Tasks => TaskIsSound(a)',
               a \in Clicks => ClickIsSound(a)'
        PROVE  IInv'
    <2>1. market' \in [Symbols -> Markets] /\ Calmer
      BY <1>1, <1>3, <1>5
    <2> QED BY <2>1, <1>1, <1>5, OneActor
  \* The end of an exit: what it says is true of what was sent.
  <1>6. ASSUME NEW l \in ActStates, Goes(l), l.pc = After(a),
               act[a].pc \in {"exit_read", "exit_send", "confirm"},
               l.agreed = act[a].agreed, l.trigger = act[a].trigger,
               l.clean = act[a].clean, l.hidden = act[a].hidden, a \in Clicks \/ Truthful(l),
               l.exit \in {"not_needed", "flattened"} => Open = {} /\ market' = market
        PROVE  IInv'
    <2>1. act'[a] = l
      BY <1>6 DEF IInv, TypeOK
    <2>2. UNCHANGED <<env, consent>>
      BY <1>6
    <2>3. CASE a \in Syncs
      <3>1. SyncIsSound(a)'
        BY <1>4, <1>6, <2>1, <2>2, <2>3
           DEF SyncIsSound, Agrees, Asking, Consented, Writable, After
      <3> QED BY <3>1, <1>4, <1>5, <1>6, <2>3
    <2>4. CASE a \in Tasks
      <3>1. TaskIsSound(a)'
        BY <1>4, <1>6, <2>1, <2>2, <2>4
           DEF TaskIsSound, Agrees, Asking, Consented, Writable, After
      <3> QED BY <3>1, <1>4, <1>5, <1>6, <2>4
    <2>5. CASE a \in Clicks
      <3>1. After(a) = "commit"
        BY <1>4, <2>5 DEF After
      <3>2. NoneWorking(a) /\ Open = {} => AllFlat(a)
        BY <1>1 DEF NoneWorking, AllFlat, Open, Markets
      <3>3. ClickIsSound(a)'
        BY <1>4, <1>6, <2>1, <2>5, <3>1, <3>2 DEF ClickIsSound, AllFlat
      <3> QED BY <3>3, <1>4, <1>5, <1>6, <2>5
    <2> QED BY <2>3, <2>4, <2>5 DEF Actors
  <1>7. CASE ExitRead(a)
    <2>1. act[a].pc = "exit_read" /\ UNCHANGED <<env, consent, breach, stopped, market>>
      BY <1>7 DEF ExitRead, At
    <2>2. CASE Open = {}
      <3> DEFINE l == Left(a, "not_needed")
      <3>1. Goes(l)
        BY <1>7, <2>1, <2>2 DEF ExitRead
      <3>2. /\ l \in ActStates /\ l.pc = After(a)
            /\ \/ l.exit = "not_needed" /\ l.sent = act[a].sent
               \/ l.exit = "none" /\ l.sent = FALSE
            /\ l.agreed = act[a].agreed /\ l.hidden = act[a].hidden
            /\ l.clean = act[a].clean /\ l.trigger = act[a].trigger
        BY LeftType DEF IInv, Exits
      <3>3. a \in Clicks \/ ~act[a].sent
        BY <1>4, <2>1 DEF SyncIsSound, TaskIsSound, Unsent, Actors
      <3>4. a \in Clicks \/ Truthful(l)
        BY <3>2, <3>3 DEF Truthful
      <3> HIDE DEF l
      <3> QED BY <1>6, <2>1, <2>2, <3>1, <3>2, <3>4
    <2>3. CASE Open # {}
      <3> DEFINE l == [act[a] EXCEPT !.pc = "exit_send", !.ids = Open]
      <3>1. Goes(l)
        BY <1>7, <2>1, <2>3 DEF ExitRead
      <3>2. /\ l \in ActStates /\ l.pc = "exit_send" /\ l.agreed = act[a].agreed
            /\ l.clean = act[a].clean /\ l.exit = act[a].exit
            /\ l.sent = act[a].sent /\ l.trigger = act[a].trigger
            /\ l.hidden = act[a].hidden
        BY <1>1, OpenType DEF ActStates
      <3> HIDE DEF l
      <3>3. act'[a] = l
        BY <3>1 DEF IInv, TypeOK
      <3>4. a \in Syncs => SyncIsSound(a)'
        BY <1>4, <2>1, <3>2, <3>3 DEF SyncIsSound, Agrees, Asking, Consented, Writable, Unsent
      <3>5. a \in Tasks => TaskIsSound(a)'
        BY <1>4, <2>1, <3>2, <3>3 DEF TaskIsSound, Agrees, Asking, Consented, Writable, Unsent
      <3>6. a \in Clicks => ClickIsSound(a)'
        BY <1>4, <2>1, <3>2, <3>3 DEF ClickIsSound, NoneWorking
      <3> QED BY <1>5, <3>1, <3>2, <3>4, <3>5, <3>6
    <2> QED BY <2>2, <2>3
  <1>8. CASE ExitSend(a)
    <2> DEFINE l == [act[a] EXCEPT !.pc = "confirm", !.sent = TRUE]
    <2>1. act[a].pc = "exit_send" /\ Goes(l)
      BY <1>8 DEF ExitSend, At, liquidation
    <2>2. /\ l \in ActStates /\ l.pc = "confirm" /\ l.agreed = act[a].agreed
          /\ l.clean = act[a].clean /\ l.sent /\ l.trigger = act[a].trigger
          /\ l.hidden = act[a].hidden
      BY <1>1 DEF ActStates
    <2> HIDE DEF l
    <2>3. act'[a] = l
      BY <2>1 DEF IInv, TypeOK
    <2>4. a \in Syncs => SyncIsSound(a)'
      BY <1>4, <2>1, <2>2, <2>3 DEF SyncIsSound, Agrees, Asking, Consented, Writable
    <2>5. a \in Tasks => TaskIsSound(a)'
      BY <1>4, <2>1, <2>2, <2>3 DEF TaskIsSound, Agrees, Asking, Consented, Writable
    <2>6. a \in Clicks => ClickIsSound(a)'
      BY <1>3, <1>4, <2>1, <2>2, <2>3 DEF ClickIsSound, NoneWorking, Calmer
    <2> QED BY <1>5, <2>1, <2>2, <2>4, <2>5, <2>6
  <1>9. CASE ExitConfirm(a)
    <2>1. act[a].pc = "confirm" /\ UNCHANGED <<env, consent, breach, stopped, market>>
      BY <1>9 DEF ExitConfirm, At
    <2>2. PICK e \in {"attempted", "flattened"} :
             act' = [act EXCEPT ![a] = Left(a, e)] /\ (e = "flattened" => Open = {})
      BY <1>9 DEF ExitConfirm
    <2> DEFINE l == Left(a, e)
    <2>3. Goes(l)
      BY <2>1, <2>2
    <2>4. /\ l \in ActStates /\ l.pc = After(a)
          /\ \/ l.exit = e /\ l.sent = act[a].sent
             \/ l.exit = "none" /\ l.sent = FALSE
          /\ l.agreed = act[a].agreed /\ l.hidden = act[a].hidden
          /\ l.clean = act[a].clean /\ l.trigger = act[a].trigger
      <3>1. TypeOK /\ e \in Exits
        BY DEF IInv, Exits
      <3> QED BY <3>1, LeftType, Zenon
    <2>5. a \in Clicks \/ act[a].sent
      BY <1>4, <2>1 DEF SyncIsSound, TaskIsSound, Actors
    <2>6. a \in Clicks \/ Truthful(l)
      BY <2>4, <2>5 DEF Truthful
    <2> HIDE DEF l
    <2> QED BY <1>6, <2>1, <2>2, <2>3, <2>4, <2>6
  <1>10. CASE ExitFails(a)
    <2>1. ASSUME NEW e \in {"failed", "unavailable_permission"},
                 act[a].pc \in {"exit_read", "exit_send"}, Goes(Left(a, e))
          PROVE  IInv'
      <3> DEFINE l == Left(a, e)
      <3>1. /\ l \in ActStates /\ l.pc = After(a)
            /\ \/ l.exit = e /\ l.sent = act[a].sent
               \/ l.exit = "none" /\ l.sent = FALSE
            /\ l.agreed = act[a].agreed /\ l.hidden = act[a].hidden
            /\ l.clean = act[a].clean /\ l.trigger = act[a].trigger
        <4>1. TypeOK /\ e \in Exits
          BY DEF IInv, Exits
        <4> QED BY <4>1, LeftType, Zenon
      <3>2. a \in Clicks \/ ~act[a].sent
        BY <1>4, <2>1 DEF SyncIsSound, TaskIsSound, Unsent, Actors
      <3>3. a \in Clicks \/ Truthful(l)
        BY <3>1, <3>2 DEF Truthful
      <3>4. Goes(l)
        BY <2>1
      <3> HIDE DEF l
      <3> QED BY <1>6, <2>1, <3>1, <3>3, <3>4
    <2>2. CASE At(a, "exit_send") /\ env.granted
      <3> DEFINE k == Left(a, "failed")
                 l == [k EXCEPT !.sent = Told(a)]
      <3>1. act[a].pc = "exit_send" /\ Goes(l)
        BY <1>10, <2>2 DEF ExitFails, At, liquidation
      <3>2. /\ k \in ActStates /\ k.pc = After(a) /\ (Told(a) => k.exit = "failed")
            /\ k.exit \in {"failed", "none"}
            /\ k.agreed = act[a].agreed /\ k.hidden = act[a].hidden
            /\ k.clean = act[a].clean /\ k.trigger = act[a].trigger
        <4>1. Told(a) => k.exit = "failed"
          BY <1>1, ZenonT(30) DEF Left, ActStates
        <4> HIDE DEF k
        <4> QED BY <4>1, LeftType DEF IInv, Exits, k
      <3>3. Told(a) \in BOOLEAN
        BY <1>1 DEF Told, ActStates
      <3> HIDE DEF k
      <3>4. /\ l \in ActStates /\ l.pc = After(a) /\ l.exit = k.exit
            /\ l.sent = Told(a) /\ l.agreed = act[a].agreed /\ l.hidden = act[a].hidden
            /\ l.clean = act[a].clean /\ l.trigger = act[a].trigger
        BY <3>2, <3>3, ZenonT(30) DEF ActStates
      <3>5. Truthful(l)
        BY <3>2, <3>4 DEF Truthful
      <3> HIDE DEF l
      <3> QED BY <1>6, <3>1, <3>2, <3>4, <3>5
    <2>3. CASE At(a, "exit_send") /\ ~env.granted
      <3>1. act[a].pc = "exit_send" /\ Goes(Left(a, "unavailable_permission"))
        BY <1>10, <2>3 DEF ExitFails, At
      <3> QED BY <2>1, <3>1
    <2>4. CASE At(a, "exit_read")
      <3>1. act[a].pc = "exit_read" /\ Goes(Left(a, "failed"))
        BY <1>10, <2>4 DEF ExitFails, At
      <3> QED BY <2>1, <3>1
    <2> QED BY <1>10, <2>2, <2>3, <2>4 DEF ExitFails
  <1> QED BY <1>7, <1>8, <1>9, <1>10 DEF Exit

LEMMA SyncInv ==
    ASSUME IInv, NEW s \in Syncs, Sync(s)
    PROVE  IInv'
  <1>1. /\ act[s] \in ActStates /\ SyncIsSound(s) /\ s \in Actors
        /\ s \notin Tasks /\ s \notin Clicks
        /\ market \in [Symbols -> Markets] /\ stopped \in BOOLEAN
    BY ActorsAssumption DEF IInv, TypeOK, Sound, Actors
  \* A step of the sync alone.
  <1>2. ASSUME NEW l \in ActStates, act' = [act EXCEPT ![s] = l],
               UNCHANGED <<env, market, consent, breach>>, stopped' \in BOOLEAN,
               act'[s] = l => SyncIsSound(s)'
        PROVE  IInv'
    <2>1. act'[s] = l
      BY <1>1, <1>2 DEF IInv, TypeOK
    <2>2. market' \in [Symbols -> Markets] /\ Calmer
      BY <1>1, <1>2 DEF Calmer
    <2> QED BY <1>1, <1>2, <2>1, <2>2, OneActor
  \* It gives up, or is done.
  <1>3. ASSUME act' = [act EXCEPT ![s] = Idle], UNCHANGED <<env, market, consent, breach>>,
               stopped' \in BOOLEAN
        PROVE  IInv'
    <2>1. act'[s] = Idle => SyncIsSound(s)'
      BY IdleType DEF SyncIsSound, Agrees, Asking
    <2> QED BY <1>2, <1>3, <2>1, IdleType
  <1>4. CASE SyncRead(s)
    <2>1. PICK seen \in {Open, {}}, oversize \in BOOLEAN :
             act' = [act EXCEPT ![s] = [Idle EXCEPT !.pc = "rules", !.seen = seen,
                                         !.oversize = oversize, !.agreed = Consented]]
      BY <1>4 DEF SyncRead
    <2> DEFINE l == [Idle EXCEPT !.pc = "rules", !.seen = seen,
                                 !.oversize = oversize, !.agreed = Consented]
    <2>2. Consented \in BOOLEAN
      BY DEF Consented
    <2>3. l \in ActStates
      BY <2>2, IdleType, OpenType DEF Idle, ActStates
    <2>4. l.pc = "rules" /\ l.agreed = Consented
      BY DEF Idle
    <2>5. UNCHANGED <<env, market, consent, breach, stopped>>
      BY <1>4 DEF SyncRead
    <2> HIDE DEF l
    <2>6. act'[s] = l => SyncIsSound(s)'
      BY <2>4, <2>5 DEF SyncIsSound, Agrees, Asking, Consented
    <2>7. act' = [act EXCEPT ![s] = l]
      BY <2>1 DEF l
    <2> QED BY <1>1, <1>2, <2>3, <2>5, <2>6, <2>7
  <1>5. CASE SyncRules(s)
    <2>1. act[s].pc = "rules" /\ UNCHANGED <<env, market, consent, breach, stopped>>
      BY <1>5 DEF SyncRules, At
    <2>2. PICK found \in {breach, "session_end"} :
             act' = [act EXCEPT ![s].pc = "decide", ![s].trigger = found,
                        ![s].allowed = Consented, ![s].agreed = @ /\ Consented]
      BY <1>5 DEF SyncRules
    <2> DEFINE l == [act[s] EXCEPT !.pc = "decide", !.trigger = found,
                        !.allowed = Consented, !.agreed = @ /\ Consented]
    <2>3. act' = [act EXCEPT ![s] = l]
      BY <2>2
    <2>4. found \in Triggers
      BY BreachesAssumption DEF IInv, TypeOK, Triggers
    <2>5. /\ Consented \in BOOLEAN /\ (act[s].agreed /\ Consented) \in BOOLEAN
          /\ Consented => act[s].agreed
      BY <1>1, <2>1 DEF Consented, SyncIsSound, Agrees, Asking
    <2>6. /\ l \in ActStates /\ l.pc = "decide" /\ l.allowed = Consented
          /\ l.agreed = (act[s].agreed /\ Consented)
      BY <1>1, <2>4, <2>5, ZenonT(30) DEF ActStates
    <2> HIDE DEF l
    <2>7. act'[s] = l => SyncIsSound(s)'
      BY <2>5, <2>6 DEF SyncIsSound, Agrees, Asking
    <2> QED BY <1>1, <1>2, <2>1, <2>3, <2>6, <2>7
  <1>8. CASE SyncDecide(s)
    <2>1. act[s].pc = "decide" /\ UNCHANGED <<env, market, consent, breach, stopped>>
      BY <1>8 DEF SyncDecide, At
    <2> DEFINE trigger == SyncTrigger(act[s])
               wants == trigger \in {"max_position_size", "session_end"} /\ act[s].seen # {}
               exit == IF wants THEN SyncGate(act[s]) ELSE "none"
               new == [Idle EXCEPT !.pc = "persist", !.trigger = trigger,
                                   !.fresh = trigger # "none" /\ ~stopped]
               send == [new EXCEPT !.pc = "exit_read", !.agreed = act[s].agreed]
               skip == [new EXCEPT !.exit = IF new.fresh THEN exit ELSE "none"]
    <2>2. \/ act' = [act EXCEPT ![s] = send] /\ wants /\ exit = "none"
          \/ act' = [act EXCEPT ![s] = skip] /\ ~(wants /\ exit = "none")
      BY <1>8 DEF SyncDecide
    <2>3. trigger \in Triggers
      BY TriggerType
    <2>4. /\ exit \in {"dry_run", "unavailable_read_only", "unavailable_consent_missing",
                      "none"}
          /\ wants /\ exit = "none" =>
               Writable /\ env.orderActions /\ act[s].allowed
          /\ trigger = "daily_loss_limit" => ~wants /\ exit = "none"
      BY GateType
    <2>5. wants /\ exit = "none" =>
            /\ Writable /\ env.orderActions /\ act[s].agreed
            /\ trigger # "daily_loss_limit"
      BY <1>1, <2>1, <2>4 DEF SyncIsSound
    <2> HIDE DEF trigger, exit
    <2>6. /\ new \in ActStates /\ new.pc = "persist" /\ new.trigger = trigger
          /\ new.exit = "none" /\ new.sent = FALSE
      <3> DEFINE fresh == trigger # "none" /\ ~stopped
      <3>1. fresh \in BOOLEAN
        OBVIOUS
      <3> HIDE DEF fresh
      <3>2. new = [Idle EXCEPT !.pc = "persist", !.trigger = trigger, !.fresh = fresh]
        BY DEF fresh
      <3> HIDE DEF new
      <3> QED BY <3>1, <3>2, <2>3, ZenonT(30) DEF Idle, ActStates, Exits
    <2>7. act[s].agreed \in BOOLEAN /\ exit \in Exits /\ "none" \in Exits
      BY <1>1, <2>4 DEF ActStates, Exits
    <2> HIDE DEF new
    <2>8. CASE act' = [act EXCEPT ![s] = send] /\ wants /\ exit = "none"
      <3>1. /\ send \in ActStates /\ send.pc = "exit_read" /\ send.trigger = trigger
            /\ send.exit = "none" /\ send.sent = FALSE /\ send.agreed = act[s].agreed
        BY <2>6, <2>7, ZenonT(30) DEF ActStates
      <3> HIDE DEF send, wants
      <3>2. act'[s] = send => SyncIsSound(s)'
        BY <2>1, <2>5, <2>8, <3>1 DEF SyncIsSound, Agrees, Asking, Writable, Unsent
      <3> QED BY <1>1, <1>2, <2>1, <2>8, <3>1, <3>2
    <2>9. CASE act' = [act EXCEPT ![s] = skip]
      <3> DEFINE told == IF new.fresh THEN exit ELSE "none"
      <3>1. told \in {exit, "none"}
        OBVIOUS
      <3> HIDE DEF told
      <3>2. skip = [new EXCEPT !.exit = told]
        BY DEF told
      <3>3. /\ skip \in ActStates /\ skip.pc = "persist" /\ skip.trigger = trigger
            /\ skip.exit = told /\ skip.sent = FALSE
        BY <2>6, <2>7, <3>1, <3>2, ZenonT(30) DEF ActStates
      <3> HIDE DEF skip, wants
      <3>4. act'[s] = skip => SyncIsSound(s)'
        BY <2>4, <3>1, <3>3 DEF SyncIsSound, Agrees, Asking, Truthful, Unsent
      <3> QED BY <1>1, <1>2, <2>1, <2>9, <3>3, <3>4
    <2> QED BY <2>2, <2>8, <2>9
  <1>6. CASE SyncPersist(s)
    <2>1. act[s].pc = "persist" /\ UNCHANGED <<env, market, consent, breach>> /\ stopped' \in BOOLEAN
      BY <1>6 DEF SyncPersist, At
    <2>2. CASE act' = [act EXCEPT ![s] = Idle]
      BY <1>3, <2>1, <2>2
    <2>3. CASE act' # [act EXCEPT ![s] = Idle]
      <3> DEFINE l == [Idle EXCEPT !.pc = "gate", !.exit = act[s].exit,
                                   !.trigger = act[s].trigger,
                                   !.sent = act[s].sent, !.agreed = Consented]
      <3>1. PICK t \in Tasks : act' = [act EXCEPT ![s] = Idle, ![t] = l]
        BY <1>6, <2>3 DEF SyncPersist
      <3>2. l \in ActStates
        <4>1. Consented \in BOOLEAN
          BY DEF Consented
        <4> QED BY <4>1, <1>1 DEF Idle, ActStates, Triggers, Exits
      <3>3. /\ l.pc = "gate" /\ l.exit = act[s].exit /\ l.trigger = act[s].trigger
            /\ l.sent = act[s].sent /\ l.agreed = Consented
        BY DEF Idle
      <3> HIDE DEF l
      <3>4. t # s /\ t \in Actors /\ t \notin Syncs /\ t \notin Clicks
        BY ActorsAssumption DEF Actors
      <3>5. /\ act'[s] = Idle /\ act'[t] = l
            /\ \A b \in Actors \ {s, t} : act'[b] = act[b]
            /\ act' \in [Actors -> ActStates]
        BY <1>1, <3>1, <3>2, <3>4, IdleType DEF IInv, TypeOK
      <3>6. TypeOK'
        BY <2>1, <3>5 DEF IInv, TypeOK
      <3>7. ASSUME NEW x \in Syncs PROVE SyncIsSound(x)'
        <4>1. x \in Actors \ {t}
          BY ActorsAssumption DEF Actors
        <4>2. CASE x = s
          BY <3>5, <4>2, IdleType DEF SyncIsSound, Agrees, Asking
        <4>3. CASE x # s
          BY <2>1, <3>5, <4>1, <4>3
             DEF IInv, Sound, SyncIsSound, Agrees, Asking, Consented, Writable
        <4> QED BY <4>2, <4>3
      <3>8. ASSUME NEW x \in Tasks PROVE TaskIsSound(x)'
        <4>1. x \in Actors \ {s}
          BY <1>1 DEF Actors
        <4>2. CASE x = t
          <5>1. Truthful(act[s]) /\ (act[s].trigger = "daily_loss_limit" => Unsent(act[s]))
            BY <1>1, <2>1 DEF SyncIsSound
          <5>2. Truthful(l) /\ (l.trigger = "daily_loss_limit" => Unsent(l))
            BY <3>3, <5>1 DEF Truthful, Unsent
          <5> QED BY <2>1, <3>3, <3>5, <4>2, <5>2 DEF TaskIsSound, Agrees, Asking, Consented
        <4>3. CASE x # t
          BY <2>1, <3>5, <4>1, <4>3
             DEF IInv, Sound, TaskIsSound, Agrees, Asking, Consented, Writable
        <4> QED BY <4>2, <4>3
      <3>9. ASSUME NEW c \in Clicks PROVE ClickIsSound(c)'
        <4>1. c \in Actors \ {s, t}
          BY <1>1, <3>4 DEF Actors
        <4> QED BY <2>1, <3>5, <4>1 DEF IInv, Sound, ClickIsSound, NoneWorking, AllFlat
      <3> QED BY <3>6, <3>7, <3>8, <3>9 DEF IInv, Sound
    <2> QED BY <2>2, <2>3
  <1>7. CASE SyncFails(s)
    <2>1. act' = [act EXCEPT ![s] = Idle] /\ UNCHANGED <<env, market, consent, breach, stopped>>
      BY <1>7 DEF SyncFails
    <2> QED BY <1>1, <1>3, <2>1
  <1> QED BY <1>4, <1>5, <1>6, <1>7, <1>8 DEF Sync

LEMMA TaskInv ==
    ASSUME IInv, NEW t \in Tasks, Task(t)
    PROVE  IInv'
  <1>1. /\ act[t] \in ActStates /\ TaskIsSound(t) /\ t \in Actors
        /\ t \notin Syncs /\ t \notin Clicks
        /\ market \in [Symbols -> Markets] /\ stopped \in BOOLEAN
    BY ActorsAssumption DEF IInv, TypeOK, Sound, Actors
  <1>2. ASSUME NEW l \in ActStates, act' = [act EXCEPT ![t] = l],
               UNCHANGED <<env, market, consent, breach, stopped>>,
               act'[t] = l => TaskIsSound(t)'
        PROVE  IInv'
    <2>1. act'[t] = l
      BY <1>1, <1>2 DEF IInv, TypeOK
    <2>2. market' \in [Symbols -> Markets] /\ Calmer
      BY <1>1, <1>2 DEF Calmer
    <2> QED BY <1>1, <1>2, <2>1, <2>2, OneActor
  <1>3. ASSUME act' = [act EXCEPT ![t] = Idle], UNCHANGED <<env, market, consent, breach, stopped>>
        PROVE  IInv'
    <2>1. act'[t] = Idle => TaskIsSound(t)'
      BY IdleType DEF TaskIsSound, Agrees, Asking
    <2> QED BY <1>2, <1>3, <2>1, IdleType
  \* A task that needs no exit of its own goes on to its row.
  <1>4. ASSUME NEW e \in {"not_needed", "unavailable_read_only",
                         "unavailable_consent_missing", "dry_run"},
               act' = [act EXCEPT ![t] = Recorded(t, e)],
               UNCHANGED <<env, market, consent, breach, stopped>>,
               act[t].pc # "idle", Truthful(act[t])
        PROVE  IInv'
    <2> DEFINE l == Recorded(t, e)
    <2>1. /\ l \in ActStates /\ l.pc = "record" /\ l.sent = act[t].sent
          /\ l.exit = (IF act[t].exit = "none" THEN e ELSE act[t].exit)
      BY <1>1, RecordedType DEF IInv, Exits
    <2> HIDE DEF l
    <2>2. Truthful(l)
      BY <1>4, <2>1 DEF Truthful
    <2>3. act'[t] = l => TaskIsSound(t)'
      BY <1>1, <1>4, <2>1, <2>2 DEF TaskIsSound, Agrees, Asking, Consented
    <2>4. act' = [act EXCEPT ![t] = l]
      BY <1>4 DEF l
    <2> QED BY <1>2, <1>4, <2>1, <2>3, <2>4
  <1>5. CASE TaskGate(t)
    <2>1. act[t].pc = "gate" /\ UNCHANGED <<env, market, consent, breach, stopped>>
      BY <1>5 DEF TaskGate, At
    <2>2. Truthful(act[t]) /\ (act[t].trigger = "daily_loss_limit" => Unsent(act[t]))
      BY <1>1, <2>1 DEF TaskIsSound
    <2> DEFINE l == [act[t] EXCEPT !.pc = "consent"]
    <2>3. \/ act' = [act EXCEPT ![t] = Recorded(t, "not_needed")]
          \/ act' = [act EXCEPT ![t] = Recorded(t, "unavailable_read_only")]
          \/ /\ act' = [act EXCEPT ![t] = l] /\ env.permission # "read_only"
             /\ act[t].trigger = "daily_loss_limit"
      BY <1>5 DEF TaskGate
    <2>4. CASE act' = [act EXCEPT ![t] = l] /\ env.permission # "read_only"
               /\ act[t].trigger = "daily_loss_limit"
      <3>1. /\ l \in ActStates /\ l.pc = "consent" /\ l.agreed = act[t].agreed
            /\ l.exit = act[t].exit /\ l.sent = act[t].sent
        BY <1>1 DEF ActStates
      <3> HIDE DEF l
      <3>2. act'[t] = l => TaskIsSound(t)'
        BY <1>1, <2>1, <2>2, <2>4, <3>1 DEF TaskIsSound, Agrees, Asking, Consented, Unsent
      <3> QED BY <1>2, <2>1, <2>4, <3>1, <3>2
    <2> QED BY <1>4, <2>1, <2>2, <2>3, <2>4
  <1>6. CASE TaskConsent(t)
    <2>1. act[t].pc = "consent" /\ UNCHANGED <<env, market, consent, breach, stopped>>
      BY <1>6 DEF TaskConsent, At
    <2>2. Unsent(act[t]) /\ Truthful(act[t]) /\ env.permission # "read_only"
          /\ (Consented => act[t].agreed)
      BY <1>1, <2>1 DEF TaskIsSound, Unsent, Truthful, Agrees, Asking
    <2> DEFINE l == [act[t] EXCEPT !.pc = "exit_read"]
    <2>3. \/ act' = [act EXCEPT ![t] = Recorded(t, "unavailable_consent_missing")]
          \/ act' = [act EXCEPT ![t] = Recorded(t, "dry_run")]
          \/ act' = [act EXCEPT ![t] = l] /\ Consented /\ ~env.dryRun
      BY <1>6 DEF TaskConsent
    <2>4. CASE act' = [act EXCEPT ![t] = l] /\ Consented /\ ~env.dryRun
      <3>1. /\ l \in ActStates /\ l.pc = "exit_read" /\ l.agreed = act[t].agreed
            /\ l.exit = act[t].exit /\ l.sent = act[t].sent
        BY <1>1 DEF ActStates
      <3> HIDE DEF l
      <3>2. act'[t] = l => TaskIsSound(t)'
        BY <2>1, <2>2, <2>4, <3>1 DEF TaskIsSound, Agrees, Asking, Writable, Unsent
      <3> QED BY <1>2, <2>1, <2>4, <3>1, <3>2
    <2> QED BY <1>4, <2>1, <2>2, <2>3, <2>4
  <1>7. CASE TaskThrows(t)
    <2> DEFINE l == [Idle EXCEPT !.pc = "record", !.exit = "not_needed", !.lost = TRUE]
    <2>1. /\ act[t].pc # "idle" /\ UNCHANGED <<env, market, consent, breach, stopped>>
          /\ act' = [act EXCEPT ![t] = l]
      BY <1>7 DEF TaskThrows, At
    <2>2. l \in ActStates /\ l.pc = "record" /\ l.lost
      BY DEF Idle, ActStates, Triggers, Exits
    <2> HIDE DEF l
    <2>3. act'[t] = l => TaskIsSound(t)'
      BY <1>1, <2>1, <2>2 DEF TaskIsSound, Agrees, Asking, Consented
    <2> QED BY <1>2, <2>1, <2>2, <2>3
  <1>8. CASE TaskLock(t)
    <2> DEFINE l == Recorded(t, "none")
    <2>1. /\ act[t].pc = "lock" /\ UNCHANGED <<env, market, consent, breach, stopped>>
          /\ act' = [act EXCEPT ![t] = l]
      BY <1>8 DEF TaskLock, At
    <2>2. /\ l \in ActStates /\ l.pc = "record"
          /\ l.exit = act[t].exit /\ l.sent = act[t].sent
      BY <1>1, RecordedType DEF IInv, Exits
    <2> HIDE DEF l
    <2>3. act'[t] = l => TaskIsSound(t)'
      BY <1>1, <2>1, <2>2 DEF TaskIsSound, Agrees, Asking, Truthful
    <2> QED BY <1>2, <2>1, <2>2, <2>3
  <1>9. CASE TaskRecord(t) \/ TaskDies(t)
    <2>1. act' = [act EXCEPT ![t] = Idle] /\ UNCHANGED <<env, market, consent, breach, stopped>>
      BY <1>9 DEF TaskRecord, TaskDies
    <2> QED BY <1>3, <2>1
  <1> QED BY <1>5, <1>6, <1>7, <1>8, <1>9 DEF Task

LEMMA ClickInv ==
    ASSUME IInv, NEW c \in Clicks, Click(c)
    PROVE  IInv'
  <1>1. /\ act[c] \in ActStates /\ ClickIsSound(c) /\ c \in Actors
        /\ c \notin Syncs /\ c \notin Tasks
        /\ market \in [Symbols -> Markets] /\ stopped \in BOOLEAN
    BY ActorsAssumption DEF IInv, TypeOK, Sound, Actors
  <1>2. ASSUME NEW l \in ActStates, act' = [act EXCEPT ![c] = l],
               UNCHANGED <<env, consent, breach>>, stopped' \in BOOLEAN,
               market' \in [Symbols -> Markets], Calmer,
               act'[c] = l => ClickIsSound(c)'
        PROVE  IInv'
    <2>1. act'[c] = l
      BY <1>1, <1>2 DEF IInv, TypeOK
    <2> QED BY <1>1, <1>2, <2>1, OneActor
  <1>3. market' = market => market' \in [Symbols -> Markets] /\ Calmer
    BY <1>1 DEF Calmer
  \* A step after which the click does not answer for the market any more.
  <1>4. ASSUME NEW l \in ActStates, act' = [act EXCEPT ![c] = l],
               UNCHANGED <<env, market, consent, breach, stopped>>, ~l.clean
        PROVE  IInv'
    <2>1. act'[c] = l => ClickIsSound(c)'
      BY <1>4 DEF ClickIsSound
    <2> QED BY <1>1, <1>2, <1>3, <1>4, <2>1
  <1>5. CASE ClickBegin(c)
    <2>1. UNCHANGED <<env, market, consent, breach, stopped>>
      BY <1>5 DEF ClickBegin
    <2> DEFINE failed == [Idle EXCEPT !.pc = "commit", !.exit = "failed", !.clean = FALSE]
               dry == [Idle EXCEPT !.pc = "commit", !.exit = "dry_run", !.clean = FALSE]
               l == [Idle EXCEPT !.pc = "cancel", !.ids = WorkingOrders,
                                 !.hidden = HeldOrders]
    <2>2. \/ act' = [act EXCEPT ![c] = failed]
          \/ act' = [act EXCEPT ![c] = dry]
          \/ act' = [act EXCEPT ![c] = l]
      BY <1>5 DEF ClickBegin
    <2>3. /\ failed \in ActStates /\ ~failed.clean
          /\ dry \in ActStates /\ ~dry.clean
          /\ l \in ActStates /\ l.pc = "cancel" /\ l.ids = WorkingOrders
          /\ l.hidden = HeldOrders
      BY OpenType DEF Idle, ActStates, Triggers, Exits
    <2> HIDE DEF failed, dry, l
    <2>4. \A s \in Symbols : /\ market[s] = "working" => s \in WorkingOrders
                             /\ market[s] = "held" => s \in HeldOrders
      BY DEF WorkingOrders, HeldOrders
    <2>5. ASSUME act'[c] = l PROVE ClickIsSound(c)'
      <3>1. act'[c].pc = "cancel"
        BY <2>3, <2>5
      <3>2. \A s \in Symbols \ act'[c].hidden :
              market'[s] # "held" /\ (market'[s] = "working" => s \in act'[c].ids)
        <4>1. /\ act'[c].hidden = HeldOrders /\ act'[c].ids = WorkingOrders
              /\ market' = market
          BY <2>1, <2>3, <2>5
        <4> QED BY <2>4, <4>1
      <3> QED BY <3>1, <3>2 DEF ClickIsSound
    <2> QED BY <1>1, <1>2, <1>3, <1>4, <2>1, <2>2, <2>3, <2>5
  <1>6. CASE ClickCancel(c)
    <2>1. act[c].pc = "cancel" /\ UNCHANGED <<env, consent, breach, stopped>>
      BY <1>6 DEF ClickCancel, At
    <2>2. PICK s \in act[c].ids :
            LET rest == [act[c] EXCEPT !.ids = @ \ {s}]
            IN  \/ /\ s \in WorkingOrders
                   /\ market' = [market EXCEPT ![s] = IF @ = "working" THEN "flat" ELSE "open"]
                   /\ act' = [act EXCEPT ![c] = rest]
                \/ act' = [act EXCEPT ![c] = Spoiled(rest)] /\ UNCHANGED market
      BY <1>6, Zenon DEF ClickCancel
    <2> DEFINE l == [act[c] EXCEPT !.ids = @ \ {s}]
               k == Spoiled(l)
    <2>3. /\ l \in ActStates /\ l.pc = "cancel" /\ l.ids = act[c].ids \ {s}
          /\ l.clean = act[c].clean /\ l.hidden = act[c].hidden
          /\ k \in ActStates /\ ~k.clean
      <3>1. /\ l \in ActStates /\ l.pc = "cancel" /\ l.ids = act[c].ids \ {s}
            /\ l.clean = act[c].clean /\ l.hidden = act[c].hidden
        BY <1>1, <2>1 DEF ActStates
      <3>2. k \in ActStates /\ ~k.clean
        BY <3>1, SpoiledType, Zenon
      <3> QED BY <3>1, <3>2
    <2>7. \/ /\ s \in WorkingOrders
             /\ market' = [market EXCEPT ![s] = IF @ = "working" THEN "flat" ELSE "open"]
             /\ act' = [act EXCEPT ![c] = l]
          \/ act' = [act EXCEPT ![c] = k] /\ market' = market
      BY <2>2, Zenon
    <2> HIDE DEF k
    <2>4. CASE market' # market
      <3>1. act' = [act EXCEPT ![c] = l]
        BY <2>4, <2>7
      <3>2. /\ s \in WorkingOrders
            /\ market' = [market EXCEPT ![s] = IF @ = "working" THEN "flat" ELSE "open"]
        BY <2>4, <2>7
      <3>3. market' \in [Symbols -> Markets] /\ Calmer
        BY <1>1, <3>2 DEF Markets, Calmer, WorkingOrders
      <3>4. market'[s] # "working"
        BY <1>1, <3>2, OpenType
      <3> HIDE DEF l
      <3>5. act'[c] = l => ClickIsSound(c)'
        BY <1>1, <2>1, <2>3, <3>3, <3>4 DEF ClickIsSound, Calmer
      <3> QED BY <1>1, <1>2, <2>1, <2>3, <3>1, <3>3, <3>5
    <2>5. CASE market' = market
      <3>1. CASE act' = [act EXCEPT ![c] = k]
        BY <1>4, <2>1, <2>3, <2>5, <3>1
      <3>2. CASE act' # [act EXCEPT ![c] = k]
        <4>1. /\ s \in WorkingOrders
              /\ market' = [market EXCEPT ![s] = IF @ = "working" THEN "flat" ELSE "open"]
          BY <2>7, <3>2
        <4>2. market'[s] # market[s]
          BY <1>1, <4>1, OpenType DEF WorkingOrders
        <4> QED BY <2>5, <4>2
      <3> QED BY <3>1, <3>2
    <2> QED BY <2>4, <2>5
  <1>7. CASE ClickCancelled(c)
    <2>1. act[c].pc = "cancel" /\ UNCHANGED <<env, market, consent, breach, stopped>>
      BY <1>7 DEF ClickCancelled, At
    <2> DEFINE l == [act[c] EXCEPT !.pc = "exit_read"]
               m == [act[c] EXCEPT !.pc = "exit_read", !.ids = {}]
               k == Spoiled(m)
    <2>2. /\ l \in ActStates /\ l.pc = "exit_read" /\ l.clean = act[c].clean
          /\ l.hidden = act[c].hidden /\ k \in ActStates /\ ~k.clean
      <3>1. m \in ActStates
        BY <1>1 DEF ActStates
      <3>2. k \in ActStates /\ ~k.clean
        BY <3>1, SpoiledType, Zenon
      <3> QED BY <1>1, <3>2 DEF ActStates
    <2>3. \/ act' = [act EXCEPT ![c] = l] /\ act[c].ids = {}
          \/ act' = [act EXCEPT ![c] = k]
      BY <1>7 DEF ClickCancelled
    <2> HIDE DEF l, k, m
    <2>4. act[c].ids = {} /\ act'[c] = l => ClickIsSound(c)'
      BY <1>1, <2>1, <2>2 DEF ClickIsSound, NoneWorking
    <2> QED BY <1>1, <1>2, <1>3, <1>4, <2>1, <2>2, <2>3, <2>4
  <1>8. CASE ClickCommit(c)
    <2> DEFINE l == [Idle EXCEPT !.pc = "done", !.hidden = act[c].hidden]
    <2>1. /\ act[c].pc = "commit" /\ UNCHANGED <<env, market, consent, breach>>
          /\ stopped' \in BOOLEAN
          /\ \/ /\ act' = [act EXCEPT ![c] = l]
                /\ act[c].clean /\ act[c].exit \in {"not_needed", "flattened"}
             \/ act' = [act EXCEPT ![c] = Spoiled(l)]
      BY <1>8 DEF ClickCommit, At
    <2>2. l \in ActStates /\ l.pc = "done" /\ l.hidden = act[c].hidden
      BY <1>1 DEF Idle, ActStates, Triggers, Exits
    <2>3. Spoiled(l) \in ActStates /\ ~Spoiled(l).clean
      BY <2>2, SpoiledType
    <2> HIDE DEF l
    <2>4. CASE act' = [act EXCEPT ![c] = l] /\ act[c].clean
               /\ act[c].exit \in {"not_needed", "flattened"}
      <3>1. AllFlat(c)
        BY <1>1, <2>1, <2>4 DEF ClickIsSound
      <3>2. act'[c] = l => ClickIsSound(c)'
        BY <2>1, <2>2, <3>1 DEF ClickIsSound, AllFlat
      <3> QED BY <1>2, <1>3, <2>1, <2>2, <2>4, <3>2
    <2>5. CASE act' = [act EXCEPT ![c] = Spoiled(l)]
      <3>1. act'[c] = Spoiled(l) => ClickIsSound(c)'
        BY <2>3 DEF ClickIsSound
      <3> QED BY <1>2, <1>3, <2>1, <2>3, <2>5, <3>1
    <2> QED BY <2>1, <2>4, <2>5
  <1> QED BY <1>5, <1>6, <1>7, <1>8 DEF Click

LEMMA Invariance == Spec => []IInv
<1>1. Init => IInv
  BY InitInv
<1>2. IInv /\ [Next]_vars => IInv'
  <2> SUFFICES ASSUME IInv, [Next]_vars PROVE IInv'
    OBVIOUS
  <2>1. CASE EditConsent \/ OthersMoveTheRisk \/ BreachMoves
    BY <2>1, ConsentInv, RiskInv
  <2>2. CASE \E s \in Symbols : \/ Order(s) \/ Release(s) \/ Fill(s) \/ Liquidated(s)
                                \/ CloseByHand(s)
    BY <2>2, OrderInv, MarketInv
  <2>3. CASE \E a \in Actors : Exit(a)
    BY <2>3, ExitInv
  <2>4. CASE \E s \in Syncs : Sync(s)
    BY <2>4, SyncInv
  <2>5. CASE \E t \in Tasks : Task(t)
    BY <2>5, TaskInv
  <2>6. CASE \E c \in Clicks : Click(c)
    BY <2>6, ClickInv
  <2>7. CASE UNCHANGED vars
    <3>1. market' \in [Symbols -> Markets] /\ Calmer
      BY <2>7 DEF vars, IInv, TypeOK, Calmer
    <3>2. /\ UNCHANGED <<env, consent, act>> /\ stopped' \in BOOLEAN
          /\ breach' \in Breaches \cup {"none"}
      BY <2>7 DEF vars, IInv, TypeOK
    <3> QED BY <3>1, <3>2, NoActor
  <2> QED BY <2>1, <2>2, <2>3, <2>4, <2>5, <2>6, <2>7 DEF Next
<1> QED BY <1>1, <1>2, PTL DEF Spec

-----------------------------------------------------------------------------
(* Theorems *)

\* The state of the market, of the consent and of every sync, enforcement task
\* and lockout click stays well typed.
THEOREM TypeCorrect == Spec => []TypeOK
<1>1. IInv => TypeOK
  BY DEF IInv
<1> QED BY <1>1, Invariance, PTL

\* A sync or a task that is about to write to the broker, or has just written, does
\* so outside a dry run and with a permission that is not read-only, and the consent
\* was valid at some time since it started (tradovate-sync.ts flattenForBreach,
\* enforcement.ts triggerEnforcement), however the trader edits the consent and the
\* syncs overlap.  The order-actions switch is on for a sync; the code asks no task
\* for it, and neither does the theorem.
THEOREM ArmedCorrect == Spec => []AutomaticWritesAreArmed
<1>1. IInv => AutomaticWritesAreArmed
  BY DEF IInv, Sound, SyncIsSound, TaskIsSound, Writable, AutomaticWritesAreArmed
<1> QED BY <1>1, Invariance, PTL

\* The row an enforcement task leaves says truly whether a liquidation was sent
\* for it, by the sync that started it or by itself, unless the lock write threw
\* (enforcement.ts applyBrokerDayLockout): no sync starts a task that sends again.
THEOREM RowsCorrect == Spec => []RowsAreTrue
<1>1. IInv => RowsAreTrue
  BY DEF IInv, Sound, TaskIsSound, Truthful, RowsAreTrue, At
<1> QED BY <1>1, Invariance, PTL

\* A lockout click that reports every order cancelled and the exit done leaves flat
\* every contract whose order was not hidden from its list, until the trader orders
\* again (lockout/route.ts POST), with any number of syncs, tasks and other clicks
\* working on the same orders.
THEOREM FlatCorrect == Spec => []LockoutLeavesFlat
<1>1. IInv => LockoutLeavesFlat
  BY DEF IInv, Sound, ClickIsSound, AllFlat, LockoutLeavesFlat, At
<1> QED BY <1>1, Invariance, PTL

=============================================================================
