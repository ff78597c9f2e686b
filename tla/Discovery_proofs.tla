-------------------------- MODULE Discovery_proofs --------------------------
(***************************************************************************)
(* Discovery for any accounts, any number of connections and of            *)
(* discoveries at once: types.                                             *)
(***************************************************************************)
EXTENDS Discovery, TLAPS

-----------------------------------------------------------------------------
(* Types *)

LEMMA RowType == NoRow \in Rows /\ \A c \in Connections, status \in Statuses :
                                     Linked(c, status) \in Rows
  BY DEF NoRow, Linked, Rows, Statuses

LEMMA NoneType == /\ NoRun \in RunStates
                  /\ NoSetup \in Setups
                  /\ NoRequest \in Requests
  BY DEF NoRun, RunStates, Listings, NoSetup, Setups, NoRequest, Requests

LEMMA EventType == ASSUME TypeOK, Event PROVE events' \in 0..MaxEvents
  BY DiscoveryAssumption DEF TypeOK, Event

LEMMA SettledType == ASSUME NEW run \in RunStates PROVE Settled(run) \in RunStates
  BY NoneType DEF Settled

LEMMA WriteType ==
    ASSUME TypeOK, NEW r \in Runs, NEW a \in Accounts, NEW row \in Rows,
           NEW run \in RunStates, Write(r, a, row, run)
    PROVE  /\ rows' \in [Accounts -> Rows]
           /\ runs' \in [Runs -> RunStates]
  BY SettledType DEF TypeOK, Write

LEMMA HealedType ==
    ASSUME TypeOK, NEW c
    PROVE  Healed(c) \in [Accounts -> Rows]
  BY DEF TypeOK, Healed, Rows

\* What the steps of a discovery do to rows and runs.
LEMMA RunStepType ==
    ASSUME TypeOK, NEW r \in Runs, RunStep(r)
    PROVE  /\ rows' \in [Accounts -> Rows]
           /\ runs' \in [Runs -> RunStates]
           /\ UNCHANGED <<roster, conns, setup, request, events>>
  <1>1. rows \in [Accounts -> Rows] /\ runs \in [Runs -> RunStates] /\ runs[r] \in RunStates
    BY DEF TypeOK
  <1>2. CASE Read(r)
    <2> DEFINE run == [NoRun EXCEPT !.step = "write", !.conn = runs[r].conn,
                                    !.claim = Claimed(runs[r].conn, runs[r].list),
                                    !.clear = Cleared(runs[r].list),
                                    !.create = New(runs[r].list),
                                    !.flag = Flagged(runs[r].conn, runs[r].list)]
    <2>1. /\ Claimed(runs[r].conn, runs[r].list) \in SUBSET Accounts
          /\ Cleared(runs[r].list) \in SUBSET Accounts
          /\ New(runs[r].list) \in SUBSET Accounts
          /\ Flagged(runs[r].conn, runs[r].list) \in SUBSET Accounts
          /\ runs[r].conn \in Connections \cup {None}
      BY <1>1 DEF Claimed, Cleared, New, Flagged, RunStates
    <2>2. run \in RunStates
      BY <2>1, NoneType DEF RunStates, NoRun
    <2>3. runs' = [runs EXCEPT ![r] = Settled(run)]
      BY <1>2 DEF Read
    <2> HIDE DEF run
    <2>4. QED BY <1>1, <1>2, <2>2, <2>3, SettledType DEF Read
  <1>3. ASSUME Abort(r)
        PROVE  rows' \in [Accounts -> Rows] /\ runs' \in [Runs -> RunStates]
    BY <1>1, <1>3, NoneType DEF Abort
  <1>4. ASSUME NEW a \in Accounts, WriteMatched(r, a)
        PROVE  rows' \in [Accounts -> Rows] /\ runs' \in [Runs -> RunStates]
    <2> DEFINE run == [runs[r] EXCEPT !.claim = @ \ {a}, !.clear = @ \ {a}]
               link == IF a \in runs[r].claim THEN runs[r].conn ELSE rows[a].link
               missing == rows[a].missing /\ a \notin runs[r].clear
               row == [rows[a] EXCEPT !.link = link, !.missing = missing]
    <2>1. CASE Abort(r)
      BY <1>3, <2>1
    <2>2. CASE Write(r, a, row, run)
      <3>1. run \in RunStates
        BY <1>1 DEF RunStates
      <3>2. rows[a] \in Rows
        BY <1>1
      <3>3. link \in Connections \cup {None} /\ missing \in BOOLEAN
        BY <1>1, <3>2 DEF RunStates, Rows
      <3>4. row \in Rows
        BY <3>2, <3>3 DEF Rows
      <3> HIDE DEF row, run
      <3>5. QED BY <2>2, <3>1, <3>4, WriteType
    <2>3. QED BY <1>4, <2>1, <2>2 DEF WriteMatched
  <1>5. ASSUME NEW a \in Accounts, Create(r, a)
        PROVE  rows' \in [Accounts -> Rows] /\ runs' \in [Runs -> RunStates]
    <2> DEFINE run == [runs[r] EXCEPT !.create = @ \ {a}]
    <2>1. CASE Abort(r)
      BY <1>3, <2>1
    <2>2. CASE Exists(runs[r].conn) /\ Write(r, a, Linked(runs[r].conn, "undecided"), run)
      <3>1. run \in RunStates
        BY <1>1 DEF RunStates
      <3>2. runs[r].conn \in Connections \cup {None}
        BY <1>1 DEF RunStates
      <3>3. Linked(runs[r].conn, "undecided") \in Rows
        BY <3>2 DEF Linked, NoRow, Rows, Statuses
      <3> HIDE DEF run
      <3>4. QED BY <2>2, <3>1, <3>3, WriteType
    <2>3. QED BY <1>5, <2>1, <2>2 DEF Create
  <1>6. ASSUME NEW a \in Accounts, Flag(r, a)
        PROVE  rows' \in [Accounts -> Rows] /\ runs' \in [Runs -> RunStates]
    <2> DEFINE run == [runs[r] EXCEPT !.flag = @ \ {a}]
               row == [rows[a] EXCEPT !.missing = TRUE]
    <2>1. run \in RunStates
      BY <1>1 DEF RunStates
    <2>2. row \in Rows
      BY <1>1 DEF Rows
    <2>3. Write(r, a, row, run)
      BY <1>6 DEF Flag
    <2> HIDE DEF row, run
    <2>4. QED BY <2>1, <2>2, <2>3, WriteType
  <1>7. UNCHANGED <<roster, conns, setup, request, events>>
    BY DEF RunStep, Read, WriteMatched, Create, Flag
  <1>8. QED BY <1>2, <1>4, <1>5, <1>6, <1>7 DEF RunStep

LEMMA TypeInit == Init => TypeOK
  <1> SUFFICES ASSUME Init PROVE TypeOK
    OBVIOUS
  <1>1. roster \in [Accounts -> Listings] /\ conns \in [Connections -> ConnStates]
    BY DEF Init, Listings, ConnStates
  <1>2. rows \in [Accounts -> Rows]
    BY DiscoveryAssumption, RowType DEF Init, Statuses
  <1>3. QED BY <1>1, <1>2, NoneType, DiscoveryAssumption DEF Init, TypeOK

\* The remaining steps, by what they change.
LEMMA SetupType ==
    ASSUME TypeOK, Save \/ \E a \in Accounts : Find(a)
    PROVE  TypeOK'
  <1>1. setup \in Setups /\ rows \in [Accounts -> Rows]
    BY DEF TypeOK
  <1>2. ASSUME NEW a \in Accounts, Find(a) PROVE TypeOK'
    <2>1. setup' \in Setups
      BY <1>1, <1>2 DEF Find, Setups
    <2>2. QED BY <1>2, <2>1 DEF Find, TypeOK
  <1>3. ASSUME Save PROVE TypeOK'
    <2> DEFINE newRows == [rows EXCEPT ![setup.at] = Linked(setup.conn, "guarded")]
    <2>1. setup' \in Setups
      BY <1>1, <1>3, NoneType DEF Save, Setups
    <2>2. CASE UNCHANGED rows
      BY <1>3, <2>1, <2>2 DEF Save, TypeOK
    <2>3. CASE rows' = newRows
      <3>1. Linked(setup.conn, "guarded") \in Rows
        BY <1>1 DEF Setups, Linked, NoRow, Rows, Statuses
      <3>2. newRows \in [Accounts -> Rows]
        BY <1>1, <3>1
      <3> HIDE DEF newRows
      <3>3. QED BY <1>3, <2>1, <2>3, <3>2 DEF Save, TypeOK
    <2>4. QED BY <1>3, <2>2, <2>3 DEF Save
  <1>4. QED BY <1>2, <1>3

LEMMA AskType ==
    ASSUME TypeOK, NEW op \in {"heal", "attach", "archive", "delete"},
           NEW c \in Connections, NEW left \in SUBSET Accounts, Ask(op, c, left)
    PROVE  request' \in Requests /\ events' \in 0..MaxEvents
  BY EventType DEF Ask, Requests

LEMMA AskedType ==
    ASSUME TypeOK, NEW c \in Connections,
           Reconnect(c) \/ Reattach(c) \/ DeleteConnection(c) \/ Disconnect(c)
    PROVE  TypeOK'
  <1>1. request' \in Requests /\ events' \in 0..MaxEvents
    <2>1. CASE Reconnect(c)
      BY <2>1, AskType DEF Reconnect
    <2>2. CASE Reattach(c)
      <3>1. PICK d \in Connections : Ask("attach", c, {a \in Accounts : rows[a].link = d})
        BY <2>2 DEF Reattach
      <3>2. {a \in Accounts : rows[a].link = d} \in SUBSET Accounts
        OBVIOUS
      <3>3. QED BY <3>1, <3>2, AskType
    <2>3. CASE DeleteConnection(c)
      BY <2>3, AskType DEF DeleteConnection
    <2>4. CASE Disconnect(c)
      <3> DEFINE left == {a \in Accounts : rows[a].link = c
                                           /\ rows[a].status \in {"undecided", "guarded"}}
      <3>1. Ask("archive", c, left) /\ left \in SUBSET Accounts
        BY <2>4 DEF Disconnect
      <3> HIDE DEF left
      <3>2. QED BY <3>1, AskType
    <2>5. QED BY <2>1, <2>2, <2>3, <2>4
  <1>2. conns' \in [Connections -> ConnStates]
    BY DEF TypeOK, ConnStates, Reconnect, Reattach, DeleteConnection, Disconnect
  <1>3. QED BY <1>1, <1>2 DEF TypeOK, Reconnect, Reattach, DeleteConnection, Disconnect

LEMMA RequestType ==
    ASSUME TypeOK,
           Heal \/ Sweep \/ ArchiveNext \/ Count \/ Delete \/ \E a \in Accounts : Attach(a)
    PROVE  TypeOK'
  <1>1. /\ request \in Requests
        /\ rows \in [Accounts -> Rows]
        /\ conns \in [Connections -> ConnStates]
    BY DEF TypeOK
  <1>2. request' \in Requests
    <2>1. CASE Heal
      BY <1>1, <2>1 DEF Heal, Requests
    <2>2. CASE Sweep
      BY <1>1, <2>2, NoneType DEF Sweep, Requests
    <2>3. CASE ArchiveNext
      BY <1>1, <2>3 DEF ArchiveNext, Requests
    <2>4. CASE Count
      BY <1>1, <2>4, NoneType DEF Count, Requests
    <2>5. CASE Delete
      BY <2>5, NoneType DEF Delete
    <2>6. ASSUME NEW a \in Accounts, Attach(a) PROVE request' \in Requests
      BY <1>1, <2>6, NoneType DEF Attach, Requests
    <2>7. QED BY <2>1, <2>2, <2>3, <2>4, <2>5, <2>6
  <1>3. CASE Heal
    BY <1>2, <1>3, HealedType DEF Heal, TypeOK
  <1>4. CASE Sweep \/ Count
    BY <1>2, <1>4 DEF Sweep, Count, TypeOK
  <1>5. CASE ArchiveNext
    <2>1. rows' \in [Accounts -> Rows]
      BY <1>1, <1>5 DEF ArchiveNext, Rows, Statuses
    <2>2. QED BY <1>2, <1>5, <2>1 DEF ArchiveNext, TypeOK
  <1>6. CASE Delete
    <2> DEFINE newRows == [a \in Accounts |-> [rows[a] EXCEPT !.link =
                             IF @ = request.conn THEN None ELSE @]]
    <2>1. newRows \in [Accounts -> Rows]
      BY <1>1 DEF Rows
    <2>2. conns' \in [Connections -> ConnStates]
      BY <1>1, <1>6 DEF Delete, ConnStates
    <2>3. rows' = newRows
      BY <1>6 DEF Delete
    <2> HIDE DEF newRows
    <2>4. QED BY <1>2, <1>6, <2>1, <2>2, <2>3 DEF Delete, TypeOK
  <1>7. ASSUME NEW a \in Accounts, Attach(a) PROVE TypeOK'
    <2> DEFINE newRows == [rows EXCEPT ![a].link = request.conn]
    <2>1. newRows \in [Accounts -> Rows]
      BY <1>1 DEF Rows, Requests
    <2>2. rows' = newRows
      BY <1>7 DEF Attach
    <2> HIDE DEF newRows
    <2>3. QED BY <1>2, <1>7, <2>1, <2>2 DEF Attach, TypeOK
  <1>8. QED BY <1>3, <1>4, <1>5, <1>6, <1>7

LEMMA TypeStep == TypeOK /\ [Next]_vars => TypeOK'
  <1> SUFFICES ASSUME TypeOK, [Next]_vars PROVE TypeOK'
    OBVIOUS
  <1>1. ASSUME NEW r \in Runs, NEW c \in Connections, Fetch(r, c) PROVE TypeOK'
    <2>1. [NoRun EXCEPT !.step = "listed", !.conn = c, !.list = roster] \in RunStates
      BY NoneType DEF RunStates, NoRun, TypeOK
    <2>2. events' \in 0..MaxEvents
      BY <1>1, EventType DEF Fetch, Exists, TypeOK
    <2>3. QED BY <1>1, <2>1, <2>2 DEF Fetch, TypeOK
  <1>2. ASSUME NEW r \in Runs, RunStep(r) PROVE TypeOK'
    BY <1>2, RunStepType DEF TypeOK
  <1>3. ASSUME NEW r \in Runs, RunDies(r) PROVE TypeOK'
    BY <1>3, NoneType, EventType DEF RunDies, TypeOK
  <1>4. ASSUME NEW c \in Connections, Authorize(c) PROVE TypeOK'
    <2>1. setup' \in Setups
      BY <1>4, NoneType DEF Authorize, Setups, NoSetup
    <2>2. conns' \in [Connections -> ConnStates]
      BY <1>4 DEF Authorize, TypeOK, ConnStates
    <2>3. QED BY <1>4, <2>1, <2>2, EventType DEF Authorize, TypeOK
  <1>5. ASSUME NEW c \in Connections,
               Reconnect(c) \/ Reattach(c) \/ DeleteConnection(c) \/ Disconnect(c)
        PROVE  TypeOK'
    BY <1>5, AskedType
  <1>6. ASSUME NEW c \in Connections, Expire(c) PROVE TypeOK'
    <2>1. rows' \in [Accounts -> Rows]
      BY <1>6 DEF Expire, TypeOK, Rows
    <2>2. conns' \in [Connections -> ConnStates]
      BY <1>6 DEF Expire, TypeOK, ConnStates
    <2>3. QED BY <1>6, <2>1, <2>2, EventType DEF Expire, TypeOK
  <1>7. ASSUME NEW c \in Connections, Renew(c) PROVE TypeOK'
    BY <1>7, HealedType DEF Renew, TypeOK
  <1>8. ASSUME NEW a \in Accounts, Decide(a) PROVE TypeOK'
    <2>1. rows' \in [Accounts -> Rows]
      <3>1. PICK status \in {"undecided", "guarded", "archived", "removed"} :
              rows' = [rows EXCEPT ![a] = Decided(rows[a], status)]
        BY <1>8 DEF Decide
      <3>2. Decided(rows[a], status) \in Rows
        BY DEF Decided, TypeOK, Rows, Statuses
      <3>3. QED BY <3>1, <3>2 DEF TypeOK
    <2>2. QED BY <1>8, <2>1, EventType DEF Decide, TypeOK
  <1>9. ASSUME NEW a \in Accounts, RosterChanges(a) PROVE TypeOK'
    <2>1. roster' \in [Accounts -> Listings]
      BY <1>9 DEF RosterChanges, TypeOK
    <2>2. QED BY <1>9, <2>1, EventType DEF RosterChanges, TypeOK
  <1>10. CASE UNCHANGED vars
    BY <1>10 DEF vars, TypeOK
  <1>11. QED BY <1>1, <1>2, <1>3, <1>4, <1>5, <1>6, <1>7, <1>8, <1>9, <1>10,
                SetupType, RequestType DEF Next

\* Rows, discoveries, the setup and the request in hand stay well formed.
THEOREM TypeCorrect == Spec => []TypeOK
  BY TypeInit, TypeStep, PTL DEF Spec

=============================================================================
