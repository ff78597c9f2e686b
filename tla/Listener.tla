------------------------------ MODULE Listener ------------------------------
(***************************************************************************)
(* The realtime listener of ONE broker connection and the worker process   *)
(* that keeps it (the map, the rows and the callbacks are keyed by         *)
(* connectionId, so connections do not interact).                          *)
(*                                                                         *)
(*   - TradovateUserSyncListener: one object with one socket at a time; it *)
(*     reconnects by itself, forces one token refresh after a 401 and      *)
(*     gives up after repeated failures        tradovate-user-sync-listener *)
(*   - TradovateListenerManager: the map of running listeners              *)
(*   - the worker: a scan every minute starts and stops listeners after    *)
(*     the rows it has read; callbacks write the row without being awaited *)
(*                                          scripts/tradovate-listener-worker *)
(*                                                                         *)
(* The process runs one callback at a time: an action is what one callback *)
(* does up to its next await.  Several listener objects can be alive: a    *)
(* listener that was stopped still runs the callbacks it has pending.      *)
(*                                                                         *)
(* listenerStatus is kept to what the planner and the dashboard tell apart *)
(* (see Rows); delays are left to nondeterminism.                          *)
(***************************************************************************)
EXTENDS Integers, FiniteSets

CONSTANTS
    Listeners,        \* identities of listener objects
    Scans,            \* reconcile passes that may overlap (setInterval)
    NoListener,       \* the map has no entry
    MaxAuthFailures,  \* closes during authorisation before giving up
    MayDie,           \* TRUE: the worker may be shut down or die at any time
    Fills             \* TRUE: fills and their reconciliation are modelled

ASSUME ListenerAssumption == NoListener \notin Listeners
ASSUME FailuresAssumption == MaxAuthFailures \in Nat \ {0}
ASSUME SwitchAssumption == {MayDie, Fills} \subseteq BOOLEAN

VARIABLES
    healthy,   \* the row passes every other filter of planListenerStartups
    row,       \* BrokerConnection.listenerStatus and listenerNextRetryAt
    writes,    \* row updates issued and not yet landed
    ear,       \* per listener object: its fields
    managed,   \* the manager's entry for the connection
    scan,      \* per reconcile pass: its program counter
    gap        \* fills that no listener heard, and their reconciliation

process == <<ear, managed, scan>>
vars == <<healthy, row, writes, ear, managed, scan, gap>>

-----------------------------------------------------------------------------
(* Data *)

\* "recovering" stands for connecting, reconnecting, closed and null, which
\* the planner treats alike; "cooling" and "lapsed" for "error" with
\* listenerNextRetryAt ahead or past ("error" without a retry time is never
\* written).
Rows == {"recovering", "connected", "cooling", "lapsed"}

\* What an update sets: a heartbeat writes "connected" like ready does.
Writes == {"recovering", "connected", "error"}

\* "open": fills were missed; "due": the reconciliation of the last "ready" is
\* running; "failed": it failed or died with the worker.
Gaps == {"none", "open", "due", "failed"}

States == {"none", "connecting", "authorizing", "syncing", "ready",
           "reconnecting", "closed"}

Ears == [state : States, closed : BOOLEAN,
         fetch : {"none", "plain", "forced"},     \* awaiting getAccessToken
         socket : {"none", "open", "closing"},    \* #ws; "closing": ws.close() called
         failures : 0..(MaxAuthFailures - 1),     \* #consecutiveAuthFailures
         retried : BOOLEAN,                       \* #has401Retried
         force : BOOLEAN]                         \* #forceRefreshNextConnect

NoEar == [state |-> "none", closed |-> FALSE, fetch |-> "none",
          socket |-> "none", failures |-> 0, retried |-> FALSE, force |-> FALSE]

TypeOK ==
    /\ healthy \in BOOLEAN
    /\ row \in Rows
    /\ writes \subseteq Writes
    /\ ear \in [Listeners -> Ears]
    /\ managed \in Listeners \cup {NoListener}
    /\ scan \in [Scans -> {"idle", "clear", "judge_start", "judge_stop",
                           "clear_stop", "closed", "mark", "start"}]
    /\ gap \in Gaps

\* The worker starts, on whatever row and gap an earlier one left.
Init ==
    /\ healthy = TRUE
    /\ row \in Rows
    /\ writes = {}
    /\ ear = [l \in Listeners |-> NoEar]
    /\ managed = NoListener
    /\ scan = [s \in Scans |-> "idle"]
    /\ gap \in IF Fills THEN {"none", "open", "failed"} ELSE {"none"}

\* listenerStateToDbStatus
DbStatus(state) == IF state \in {"ready", "syncing"} THEN "connected" ELSE "recovering"

\* What #setState issues: a write for every change of state, none otherwise.
StatusWrite(from, to) == IF from = to THEN {} ELSE {DbStatus(to)}

\* A write in flight absorbs a second one like it (bound: see the README).
Issue(ws) == writes' = writes \cup ws

\* An object that nothing can call any more.
Dead(l) == /\ l # managed
           /\ ear[l].fetch = "none"
           /\ ear[l].socket = "none"
           /\ ear[l].state \in {"none", "closed"}

\* start() was called and the listener has neither been closed nor given up.
Live(l) == ear[l].state # "none" /\ ~ear[l].closed

Heard == \E l \in Listeners : /\ l = managed
                              /\ ear[l].state = "ready"
                              /\ ear[l].socket = "open"

-----------------------------------------------------------------------------
(* TradovateUserSyncListener *)

\* #connect up to its await: the force flag is used up before the token is had.
Connecting(e) == [e EXCEPT !.state = "connecting", !.force = FALSE,
                           !.fetch = IF e.force THEN "forced" ELSE "plain"]

\* #scheduleReconnect does nothing on a closed listener.
Reconnecting(e) == IF e.closed THEN e ELSE [e EXCEPT !.state = "reconnecting"]

\* The reconnect timer fires.
TimerFires(l) ==
    /\ ear[l].state = "reconnecting"
    /\ ~ear[l].closed
    /\ ear' = [ear EXCEPT ![l] = Connecting(@)]
    /\ Issue({"recovering"})
    /\ UNCHANGED <<healthy, row, managed, scan, gap>>

\* getAccessToken returns: the socket is opened.  #closed is not looked at again.
TokenArrives(l) ==
    /\ ear[l].fetch # "none"
    /\ ear' = [ear EXCEPT ![l].fetch = "none", ![l].socket = "open"]
    /\ UNCHANGED <<healthy, row, writes, managed, scan, gap>>

\* getAccessToken throws.
TokenFails(l) ==
    LET e == Reconnecting([ear[l] EXCEPT !.fetch = "none"]) IN
    /\ ear[l].fetch # "none"
    /\ ear' = [ear EXCEPT ![l] = e]
    /\ Issue(StatusWrite(ear[l].state, e.state))
    /\ UNCHANGED <<healthy, row, managed, scan, gap>>

\* The SockJS "o" frame: #sendAuthorize uses the parked token, once.
OpenFrame(l) ==
    /\ ear[l].socket = "open"
    /\ ear[l].state \in {"connecting", "closed"}
    /\ ear' = [ear EXCEPT ![l].state = "authorizing"]
    /\ Issue({"recovering"})
    /\ UNCHANGED <<healthy, row, managed, scan, gap>>

\* A heartbeat frame is reported in every state, authorised or not.
\* Mutant: it only stamps the time, as the field's name says.
Heartbeat_TimeOnly(l) ==
    /\ ear[l].socket # "none"
    /\ UNCHANGED vars
Heartbeat(l) ==
    /\ ear[l].socket # "none"
    /\ Issue({"connected"})
    /\ UNCHANGED <<healthy, row, process, gap>>

\* authorize is answered with success: user/syncrequest goes out.
AuthAccepted(l) ==
    /\ ear[l].socket = "open"
    /\ ear[l].state = "authorizing"
    /\ ear' = [ear EXCEPT ![l].state = "syncing", ![l].failures = 0, ![l].retried = FALSE]
    /\ Issue({"connected"})
    /\ UNCHANGED <<healthy, row, managed, scan, gap>>

\* user/syncrequest is answered with success: onReady starts a reconciliation.
\* Mutant: no reconciliation is asked for.
SyncAccepted_NoReconcile(l) ==
    /\ ear[l].socket = "open"
    /\ ear[l].state = "syncing"
    /\ ear' = [ear EXCEPT ![l].state = "ready"]
    /\ Issue({"connected"})
    /\ UNCHANGED <<healthy, row, managed, scan, gap>>
SyncAccepted(l) ==
    /\ ear[l].socket = "open"
    /\ ear[l].state = "syncing"
    /\ ear' = [ear EXCEPT ![l].state = "ready"]
    /\ Issue({"connected"})
    /\ gap' = IF Fills THEN "due" ELSE "none"
    /\ UNCHANGED <<healthy, row, managed, scan>>

\* The listener asks for a close: a SockJS "c" frame, an authorize refused
\* with another status than 401, a user/syncrequest refused.
AskClose(l) ==
    /\ ear[l].socket = "open"
    /\ ear' = [ear EXCEPT ![l].socket = "closing"]
    /\ UNCHANGED <<healthy, row, writes, managed, scan, gap>>

\* The manager's onTerminalError drops the connection's entry, whoever has it.
TerminalError(w) ==
    /\ Issue(w \cup {"error"})
    /\ managed' = NoListener

\* The first 401: one forced refresh on the next connect.
Auth401First(l) ==
    /\ ear[l].socket = "open"
    /\ ear[l].state = "authorizing"
    /\ ~ear[l].retried
    /\ ear' = [ear EXCEPT ![l].retried = TRUE, ![l].force = TRUE, ![l].socket = "closing"]
    /\ UNCHANGED <<healthy, row, writes, managed, scan, gap>>

\* A 401 with has401Retried set: give up.
Auth401Again(l) ==
    /\ ear[l].socket = "open"
    /\ ear[l].state = "authorizing"
    /\ ear[l].retried
    /\ ear' = [ear EXCEPT ![l].closed = TRUE, ![l].state = "closed", ![l].socket = "closing"]
    /\ TerminalError({"recovering"})
    /\ UNCHANGED <<healthy, row, scan, gap>>

DuringAuth(e) == e.state \in {"connecting", "authorizing"}

\* onclose of a listener that was closed.
SocketClosesClosed(l) ==
    /\ ear[l].socket # "none"
    /\ ear[l].closed
    /\ ear' = [ear EXCEPT ![l].socket = "none", ![l].state = "closed"]
    /\ Issue(StatusWrite(ear[l].state, "closed"))
    /\ UNCHANGED <<healthy, row, managed, scan, gap>>

\* onclose, to be reconnected; a close during authorisation is counted.
\* Mutant: failures are counted and never compared.
SocketClosesRetry_NoLimit(l) ==
    /\ ear[l].socket # "none"
    /\ ~ear[l].closed
    /\ ear' = [ear EXCEPT ![l].socket = "none", ![l].state = "reconnecting",
                          ![l].failures = @ + (IF DuringAuth(ear[l]) THEN 1 ELSE 0)]
    /\ Issue({"recovering"})
    /\ UNCHANGED <<healthy, row, managed, scan, gap>>
\* Mutant: #closed is not asked, so a stopped listener reconnects.
SocketClosesRetry_Closed(l) ==
    /\ ear[l].socket # "none"
    /\ ear' = [ear EXCEPT ![l].socket = "none", ![l].state = "reconnecting"]
    /\ Issue({"recovering"})
    /\ UNCHANGED <<healthy, row, managed, scan, gap>>
SocketClosesRetry(l) ==
    LET failures == ear[l].failures + (IF DuringAuth(ear[l]) THEN 1 ELSE 0) IN
    /\ ear[l].socket # "none"
    /\ ~ear[l].closed
    /\ failures < MaxAuthFailures
    /\ ear' = [ear EXCEPT ![l].socket = "none", ![l].state = "reconnecting",
                          ![l].failures = failures]
    /\ Issue({"recovering"})
    /\ UNCHANGED <<healthy, row, managed, scan, gap>>

\* onclose during authorisation for the last time: give up.
SocketClosesTerminal(l) ==
    /\ ear[l].socket # "none"
    /\ ~ear[l].closed
    /\ DuringAuth(ear[l])
    /\ ear[l].failures + 1 >= MaxAuthFailures
    /\ ear' = [ear EXCEPT ![l].socket = "none", ![l].state = "closed", ![l].closed = TRUE]
    /\ TerminalError({"recovering"})
    /\ UNCHANGED <<healthy, row, scan, gap>>

SocketCloses(l) == \/ SocketClosesClosed(l)
                   \/ SocketClosesRetry(l)
                   \/ SocketClosesTerminal(l)

\* close(): the socket is dropped, a token fetch under way is not.
Closed(e) == [e EXCEPT !.closed = TRUE, !.socket = "none", !.state = "closed"]

-----------------------------------------------------------------------------
(* The row updates in flight *)

Landed(w) == IF w = "error" THEN "cooling" ELSE w

WriteLands(w) ==
    /\ w \in writes
    /\ row' = Landed(w)
    /\ writes' = writes \ {w}
    /\ UNCHANGED <<healthy, process, gap>>

\* The update fails: it is logged, nothing is retried.
WriteFails(w) ==
    /\ w \in writes
    /\ writes' = writes \ {w}
    /\ UNCHANGED <<healthy, row, process, gap>>

\* listenerNextRetryAt passes.
CooldownPasses ==
    /\ row = "cooling"
    /\ row' = "lapsed"
    /\ UNCHANGED <<healthy, writes, process, gap>>

-----------------------------------------------------------------------------
(* reconcileListeners *)

\* planListenerStartups on the row as it was read.
\* Mutant: a row in error waits for an operator.
Planned_ErrorIsHard == healthy /\ row \notin {"cooling", "lapsed"}
Planned == healthy /\ row # "cooling"

\* The rows are loaded and the plan made.  A row that is not healthy may be in
\* the query (disabled, failed to renew) or not: a lapsed one is cleared or not.
ScanRead(s) ==
    /\ scan[s] = "idle"
    /\ \/ /\ Planned /\ row = "lapsed"
          /\ scan' = [scan EXCEPT ![s] = "clear"]
       \/ /\ Planned /\ row # "lapsed"
          /\ scan' = [scan EXCEPT ![s] = "judge_start"]
       \/ /\ ~Planned
          /\ scan' = [scan EXCEPT ![s] = "judge_stop"]
       \/ /\ ~Planned /\ row = "lapsed"
          /\ scan' = [scan EXCEPT ![s] = "clear_stop"]
    /\ UNCHANGED <<healthy, row, writes, ear, managed, gap>>

\* The lapsed error is cleared, or the update fails and is logged.
ScanClear(s) ==
    /\ scan[s] \in {"clear", "clear_stop"}
    /\ row' \in {row, "recovering"}
    /\ scan' = [scan EXCEPT ![s] = IF @ = "clear" THEN "judge_start" ELSE "judge_stop"]
    /\ UNCHANGED <<healthy, writes, ear, managed, gap>>

\* A running listener whose row is not in the plan is stopped.
ScanStop(s) ==
    /\ scan[s] = "judge_stop"
    /\ \/ /\ managed = NoListener
          /\ scan' = [scan EXCEPT ![s] = "idle"]
          /\ UNCHANGED <<writes, ear, managed>>
       \/ /\ managed # NoListener
          /\ ear' = [ear EXCEPT ![managed] = Closed(@)]
          /\ Issue(StatusWrite(ear[managed].state, "closed"))
          /\ managed' = NoListener
          /\ scan' = [scan EXCEPT ![s] = "closed"]
    /\ UNCHANGED <<healthy, row, gap>>

\* The awaited write of "closed"; a failure is logged.
ScanClosed(s) ==
    /\ scan[s] = "closed"
    /\ row' \in {row, "recovering"}
    /\ scan' = [scan EXCEPT ![s] = "idle"]
    /\ UNCHANGED <<healthy, writes, ear, managed, gap>>

\* hasListener, asked before the broker's user id is resolved (an await).
ScanDedup(s) ==
    /\ scan[s] = "judge_start"
    /\ scan' = [scan EXCEPT ![s] = IF managed = NoListener THEN "mark" ELSE "idle"]
    /\ UNCHANGED <<healthy, row, writes, ear, managed, gap>>

\* The user id cannot be resolved: the connection waits for the next scan.
ScanUnresolved(s) ==
    /\ scan[s] = "mark"
    /\ scan' = [scan EXCEPT ![s] = "idle"]
    /\ UNCHANGED <<healthy, row, writes, ear, managed, gap>>

\* The awaited write of "connecting"; a failure is logged.
ScanMark(s) ==
    /\ scan[s] = "mark"
    /\ row' \in {row, "recovering"}
    /\ scan' = [scan EXCEPT ![s] = "start"]
    /\ UNCHANGED <<healthy, writes, ear, managed, gap>>

\* startListener: asks the map again, enters the new listener, connects it.
ScanStart(s) ==
    /\ scan[s] = "start"
    /\ scan' = [scan EXCEPT ![s] = "idle"]
    /\ \/ /\ managed # NoListener
          /\ UNCHANGED <<writes, ear, managed>>
       \/ /\ managed = NoListener
          /\ \E l \in Listeners : /\ Dead(l)
                                  /\ ear' = [ear EXCEPT ![l] = Connecting(NoEar)]
                                  /\ managed' = l
          /\ Issue({"recovering"})
    /\ UNCHANGED <<healthy, row, gap>>

-----------------------------------------------------------------------------
(* The worker process and what is outside it *)

NoProcess == /\ ear' = [l \in Listeners |-> NoEar]
             /\ managed' = NoListener
             /\ scan' = [s \in Scans |-> "idle"]
             /\ gap' = IF gap = "due" THEN "failed" ELSE gap

\* The process dies: a write in flight has reached the database or not.
Crash ==
    /\ MayDie
    /\ NoProcess
    /\ writes' \in SUBSET writes
    /\ UNCHANGED <<healthy, row>>

\* SIGTERM: closeAll, then "closed" for every listener, then exit.
Shutdown ==
    /\ MayDie
    /\ managed # NoListener
    /\ NoProcess
    /\ \E kept \in SUBSET (writes \cup {"recovering"}) : writes' = kept
    /\ UNCHANGED <<healthy, row>>

\* The connection is disabled, disconnected, expires or fails to renew.
BecomesUnhealthy ==
    /\ healthy
    /\ healthy' = FALSE
    /\ UNCHANGED <<row, writes, process, gap>>

BecomesHealthy ==
    /\ ~healthy
    /\ healthy' = TRUE
    /\ UNCHANGED <<row, writes, process, gap>>

\* The repair and reset-errors routes clear the error (and the disable flag).
Repair ==
    /\ row \in {"cooling", "lapsed"}
    /\ row' = "recovering"
    /\ UNCHANGED <<healthy, writes, process, gap>>

\* The broker fills an order; a reconciliation that is due will read it.
Fill ==
    /\ Fills
    /\ gap = "none"
    /\ ~\E l \in Listeners : ear[l].state = "ready" /\ ear[l].socket = "open"
    /\ gap' = "open"
    /\ UNCHANGED <<healthy, row, writes, process>>

\* reconcileConnectionAccounts syncs the accounts, or all of them fail.
CatchUp ==
    /\ gap = "due"
    /\ gap' \in {"none", "failed"}
    /\ UNCHANGED <<healthy, row, writes, process>>

-----------------------------------------------------------------------------
(* The system *)

ListenerStep(l) ==
    \/ TimerFires(l) \/ TokenArrives(l) \/ TokenFails(l)
    \/ OpenFrame(l) \/ Heartbeat(l)
    \/ AuthAccepted(l) \/ SyncAccepted(l) \/ AskClose(l)
    \/ Auth401First(l) \/ Auth401Again(l)
    \/ SocketCloses(l)

ScanStep(s) ==
    \/ ScanRead(s) \/ ScanClear(s) \/ ScanStop(s) \/ ScanClosed(s)
    \/ ScanDedup(s) \/ ScanUnresolved(s) \/ ScanMark(s) \/ ScanStart(s)

Environment ==
    \/ CooldownPasses \/ BecomesUnhealthy \/ BecomesHealthy \/ Repair
    \/ Fill \/ CatchUp \/ Crash \/ Shutdown

Next ==
    \/ \E l \in Listeners : ListenerStep(l)
    \/ \E s \in Scans : ScanStep(s)
    \/ \E w \in Writes : WriteLands(w) \/ WriteFails(w)
    \/ Environment

Spec == Init /\ [][Next]_vars

\* What runs by itself: timers, a token fetch ends, a socket asked to close
\* closes, the broker recycles the session of a listener nobody manages.
Duty(l) == \/ TimerFires(l) \/ TokenArrives(l) \/ TokenFails(l)
           \/ (l # managed \/ ear[l].socket = "closing") /\ SocketCloses(l)

\* The broker and the database may refuse any number of times, but do not
\* refuse for ever what is asked again and again.
ManagedDoes(A(_)) == \E l \in Listeners : l = managed /\ A(l)
Fairness ==
    /\ \A l \in Listeners : WF_vars(Duty(l))
    /\ SF_vars(ManagedDoes(TokenArrives))
    /\ SF_vars(ManagedDoes(OpenFrame))
    /\ SF_vars(ManagedDoes(AuthAccepted))
    /\ SF_vars(ManagedDoes(SyncAccepted))
    /\ WF_vars(ManagedDoes(Heartbeat))
    /\ \A s \in Scans : WF_vars(ScanStep(s)) /\ SF_vars(ScanMark(s))
    /\ SF_vars(WriteLands("connected"))
    /\ WF_vars(\E w \in Writes \ {"connected"} : WriteLands(w) \/ WriteFails(w))
    /\ WF_vars(CooldownPasses)
FairSpec == Spec /\ Fairness

-----------------------------------------------------------------------------
(* Properties *)

\* While a listener is ready nothing it has missed is left unread, unless the
\* reconciliation itself failed: every way to "ready" reads the gap before it.
GapIsCovered == Heard => gap # "open"

\* A connection that stays healthy is heard again and again, whatever it took:
\* refusals, forced refreshes, give-ups, cooldowns, deaths of the worker and the row
\* and gap they left; unless the worker goes on dying for ever.
HealthyIsHeardAgain ==
    <>[]healthy /\ <>[][~Crash /\ ~Shutdown]_vars => []<>Heard

\* While the listener stays ready the row ends up saying so: the heartbeats
\* overwrite whatever older update lands late.
HeardIsShown == <>[]Heard => <>[](row = "connected")

\* A connection that stays disabled, expired or disconnected is left alone in
\* the end: the listener in the map is stopped and none is entered again, and every
\* listener that was stopped or gave up falls silent, also one whose token was on
\* its way and opens a socket late.
UnhealthyIsLeft ==
    <>[]~healthy
        => <>[](managed = NoListener /\ \A l \in Listeners : ear[l].closed => Dead(l))

-----------------------------------------------------------------------------
(* The manager's promise, which the callback of a stopped listener breaks: the  *)
(* entry it drops may be that of the listener started after it.                 *)

\* tradovate-listener-manager.ts:5: "At most one TradovateUserSyncListener per
\* brokerConnectionId."  A listener that still reconnects is the one in the map,
\* where a scan can stop it.
OneListener == \A l \in Listeners : Live(l) => l = managed
=============================================================================
