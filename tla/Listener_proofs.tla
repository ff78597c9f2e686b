--------------------------- MODULE Listener_proofs ---------------------------
(***************************************************************************)
(* Theorems about Listener: its state stays well typed, and what a         *)
(* listener has missed is read back, whatever the number of scans that     *)
(* overlap, of objects still winding down and of restarts.                 *)
(***************************************************************************)
EXTENDS Listener, TLAPS

\* An object that was never started has nothing pending.
Blank == \A l \in Listeners : ear[l].state = "none" =>
            ear[l].fetch = "none" /\ ear[l].socket = "none"

IInv == TypeOK /\ Blank

-----------------------------------------------------------------------------
(* Operators *)

LEMMA NoEarType == NoEar \in Ears
BY FailuresAssumption DEF NoEar, Ears, States

LEMMA ConnectingType ==
    ASSUME NEW e \in Ears
    PROVE  /\ Connecting(e) \in Ears
           /\ Connecting(e).state = "connecting"
           /\ Connecting(e).closed = e.closed
BY DEF Connecting, Ears, States

LEMMA ReconnectingType ==
    ASSUME NEW e \in Ears
    PROVE  /\ Reconnecting(e) \in Ears
           /\ Reconnecting(e).closed = e.closed
           /\ Reconnecting(e).fetch = e.fetch
           /\ Reconnecting(e).socket = e.socket
           /\ Reconnecting(e).state \in {e.state, "reconnecting"}
BY DEF Reconnecting, Ears, States

LEMMA ClosedType ==
    ASSUME NEW e \in Ears
    PROVE  Closed(e) \in Ears /\ Closed(e).closed /\ Closed(e).state = "closed"
BY DEF Closed, Ears, States

\* What a step that changes one object has to show.
LEMMA OneEar ==
    ASSUME IInv, NEW l \in Listeners, NEW e \in Ears,
           ear' = [ear EXCEPT ![l] = e], managed' = managed,
           e.state # "none",
           Live(l) \/ e.closed
    PROVE  ear' \in [Listeners -> Ears] /\ Blank'
<1>1. ear' \in [Listeners -> Ears]
  BY DEF IInv, TypeOK
<1>2. ear'[l] = e /\ \A m \in Listeners \ {l} : ear'[m] = ear[m]
  BY DEF IInv, TypeOK
<1>3. Blank'
  BY <1>2 DEF IInv, Blank
<1> QED BY <1>1, <1>3

\* What a step that ends with a terminal error has to show.
LEMMA LastEar ==
    ASSUME IInv, NEW l \in Listeners, NEW e \in Ears,
           ear' = [ear EXCEPT ![l] = e], managed' = NoListener,
           e.closed, e.state # "none"
    PROVE  /\ ear' \in [Listeners -> Ears]
           /\ managed' \in Listeners \cup {NoListener}
           /\ Blank'
<1>1. ear' \in [Listeners -> Ears]
  BY DEF IInv, TypeOK
<1>2. ear'[l] = e /\ \A m \in Listeners \ {l} : ear'[m] = ear[m]
  BY DEF IInv, TypeOK
<1>3. Blank'
  BY <1>2 DEF IInv, Blank
<1> QED BY <1>1, <1>3

\* What a step that leaves the objects alone has to show.
LEMMA NoEarChange ==
    ASSUME IInv, UNCHANGED <<ear, managed>>
    PROVE  /\ ear' \in [Listeners -> Ears]
           /\ managed' \in Listeners \cup {NoListener}
           /\ Blank'
BY DEF IInv, TypeOK, Blank

LEMMA StatusWriteType ==
    ASSUME NEW a, NEW b PROVE StatusWrite(a, b) \subseteq Writes
BY DEF StatusWrite, DbStatus, Writes

-----------------------------------------------------------------------------
(* The invariant *)

LEMMA InitInv == Init => IInv
  <1> SUFFICES ASSUME Init PROVE IInv
    OBVIOUS
  <1>1. TypeOK
    BY NoEarType DEF Init, TypeOK, Rows, Gaps
  <1>2. Blank
    BY DEF Init, Blank, NoEar
  <1> QED BY <1>1, <1>2 DEF IInv

\* A listener's own steps.
LEMMA ListenerInv ==
    ASSUME IInv, NEW l \in Listeners, ListenerStep(l)
    PROVE  IInv'
  <1> DEFINE e == ear[l]
             Good == /\ ear' \in [Listeners -> Ears]
                     /\ managed' \in Listeners \cup {NoListener}
                     /\ Blank'
  <1>0. e \in Ears /\ managed \in Listeners \cup {NoListener}
    BY DEF IInv, TypeOK
  <1>1. e.fetch # "none" \/ e.socket # "none" => e.state # "none"
    BY DEF IInv, Blank
  <1>2. e.state # "none" => Live(l) \/ e.closed
    BY <1>0 DEF Live, Ears
  <1>3. ASSUME NEW f \in Ears, ear' = [ear EXCEPT ![l] = f], managed' = managed,
               f.state # "none", e.state # "none", f.closed = e.closed
        PROVE  Good
    BY <1>0, <1>2, <1>3, OneEar
  <1>4. ASSUME NEW f \in Ears, ear' = [ear EXCEPT ![l] = f], managed' = NoListener,
               f.state # "none", f.closed
        PROVE  Good
    BY <1>4, LastEar
  <1>5. CASE TimerFires(l)
    <2>1. ear' = [ear EXCEPT ![l] = Connecting(e)] /\ managed' = managed /\ e.state # "none"
      BY <1>5 DEF TimerFires
    <2>2. Good
      BY <1>0, <2>1, <1>3, ConnectingType
    <2>3. writes' \subseteq Writes /\ UNCHANGED <<healthy, row, scan, gap>>
      BY <1>5 DEF TimerFires, Issue, Writes, IInv, TypeOK
    <2> QED BY <2>2, <2>3 DEF IInv, TypeOK
  <1>6. CASE TokenArrives(l)
    <2> DEFINE f == [e EXCEPT !.fetch = "none", !.socket = "open"]
    <2>1. f \in Ears /\ f.state = e.state /\ f.closed = e.closed
      BY <1>0 DEF Ears
    <2>2. ear' = [ear EXCEPT ![l] = f] /\ managed' = managed /\ e.state # "none"
      BY <1>6, <1>1 DEF TokenArrives
    <2>3. Good
      BY <2>1, <2>2, <1>3
    <2> QED BY <1>6, <2>3 DEF TokenArrives, IInv, TypeOK
  <1>7. CASE TokenFails(l)
    <2> DEFINE f == [e EXCEPT !.fetch = "none"]
               g == Reconnecting(f)
    <2>1. f \in Ears /\ f.state = e.state /\ f.closed = e.closed
      BY <1>0 DEF Ears
    <2>2. g \in Ears /\ g.closed = e.closed /\ g.state \in {e.state, "reconnecting"}
      BY <2>1, ReconnectingType
    <2>3. ear' = [ear EXCEPT ![l] = g] /\ managed' = managed /\ e.state # "none"
      BY <1>7, <1>1 DEF TokenFails
    <2>4. Good
      BY <2>2, <2>3, <1>3
    <2>5. writes' \subseteq Writes /\ UNCHANGED <<healthy, row, scan, gap>>
      BY <1>7, StatusWriteType DEF TokenFails, Issue, IInv, TypeOK
    <2> QED BY <2>4, <2>5 DEF IInv, TypeOK
  <1>8. CASE OpenFrame(l)
    <2> DEFINE f == [e EXCEPT !.state = "authorizing"]
    <2>1. f \in Ears /\ f.state = "authorizing" /\ f.closed = e.closed
      BY <1>0 DEF Ears, States
    <2>2. ear' = [ear EXCEPT ![l] = f] /\ managed' = managed /\ e.state # "none"
      BY <1>8, <1>1 DEF OpenFrame
    <2>3. Good
      BY <2>1, <2>2, <1>3
    <2>4. writes' \subseteq Writes /\ UNCHANGED <<healthy, row, scan, gap>>
      BY <1>8 DEF OpenFrame, Issue, Writes, IInv, TypeOK
    <2> QED BY <2>3, <2>4 DEF IInv, TypeOK
  <1>9. CASE Heartbeat(l)
    <2>1. Good
      BY <1>9, NoEarChange DEF Heartbeat, process
    <2>2. writes' \subseteq Writes /\ UNCHANGED <<healthy, row, scan, gap>>
      BY <1>9 DEF Heartbeat, process, Issue, Writes, IInv, TypeOK
    <2> QED BY <2>1, <2>2 DEF IInv, TypeOK
  <1>10. CASE AuthAccepted(l)
    <2> DEFINE f == [e EXCEPT !.state = "syncing", !.failures = 0, !.retried = FALSE]
    <2>0. 0 \in 0..(MaxAuthFailures - 1)
      BY FailuresAssumption
    <2>1. f \in Ears /\ f.state = "syncing" /\ f.closed = e.closed
      BY <1>0, <2>0 DEF Ears, States
    <2>2. ear' = [ear EXCEPT ![l] = f] /\ managed' = managed /\ e.state # "none"
      BY <1>10, <1>1 DEF AuthAccepted
    <2>3. Good
      BY <2>1, <2>2, <1>3
    <2>4. writes' \subseteq Writes /\ UNCHANGED <<healthy, row, scan, gap>>
      BY <1>10 DEF AuthAccepted, Issue, Writes, IInv, TypeOK
    <2> QED BY <2>3, <2>4 DEF IInv, TypeOK
  <1>11. CASE SyncAccepted(l)
    <2> DEFINE f == [e EXCEPT !.state = "ready"]
    <2>1. f \in Ears /\ f.state = "ready" /\ f.closed = e.closed
      BY <1>0 DEF Ears, States
    <2>2. ear' = [ear EXCEPT ![l] = f] /\ managed' = managed /\ e.state # "none"
      BY <1>11, <1>1 DEF SyncAccepted
    <2>3. Good
      BY <2>1, <2>2, <1>3
    <2>4. writes' \subseteq Writes /\ gap' \in Gaps /\ UNCHANGED <<healthy, row, scan>>
      BY <1>11 DEF SyncAccepted, Issue, Writes, Gaps, IInv, TypeOK
    <2> QED BY <2>3, <2>4 DEF IInv, TypeOK
  <1>12. CASE AskClose(l)
    <2> DEFINE f == [e EXCEPT !.socket = "closing"]
    <2>1. f \in Ears /\ f.state = e.state /\ f.closed = e.closed
      BY <1>0 DEF Ears
    <2>2. ear' = [ear EXCEPT ![l] = f] /\ managed' = managed /\ e.state # "none"
      BY <1>12, <1>1 DEF AskClose
    <2>3. Good
      BY <2>1, <2>2, <1>3
    <2> QED BY <1>12, <2>3 DEF AskClose, IInv, TypeOK
  <1>13. CASE Auth401First(l)
    <2> DEFINE f == [e EXCEPT !.retried = TRUE, !.force = TRUE, !.socket = "closing"]
    <2>1. f \in Ears /\ f.state = e.state /\ f.closed = e.closed
      BY <1>0 DEF Ears
    <2>2. ear' = [ear EXCEPT ![l] = f] /\ managed' = managed /\ e.state # "none"
      BY <1>13, <1>1 DEF Auth401First
    <2>3. Good
      BY <2>1, <2>2, <1>3
    <2> QED BY <1>13, <2>3 DEF Auth401First, IInv, TypeOK
  <1>14. CASE Auth401Again(l)
    <2> DEFINE f == [e EXCEPT !.closed = TRUE, !.state = "closed", !.socket = "closing"]
    <2>1. f \in Ears /\ f.state = "closed" /\ f.closed
      BY <1>0 DEF Ears, States
    <2>2. /\ ear' = [ear EXCEPT ![l] = f]
          /\ managed' = NoListener
      BY <1>14 DEF Auth401Again, TerminalError
    <2>3. Good
      BY <2>1, <2>2, <1>4
    <2>4. writes' \subseteq Writes /\ UNCHANGED <<healthy, row, scan, gap>>
      BY <1>14 DEF Auth401Again, TerminalError, Issue, Writes, IInv, TypeOK
    <2> QED BY <2>3, <2>4 DEF IInv, TypeOK
  <1>15. CASE SocketClosesClosed(l)
    <2> DEFINE f == [e EXCEPT !.socket = "none", !.state = "closed"]
    <2>1. f \in Ears /\ f.state = "closed" /\ f.closed = e.closed
      BY <1>0 DEF Ears, States
    <2>2. ear' = [ear EXCEPT ![l] = f] /\ managed' = managed /\ e.state # "none"
      BY <1>15, <1>1 DEF SocketClosesClosed
    <2>3. Good
      BY <2>1, <2>2, <1>3
    <2>4. writes' \subseteq Writes /\ UNCHANGED <<healthy, row, scan, gap>>
      BY <1>15, StatusWriteType DEF SocketClosesClosed, Issue, IInv, TypeOK
    <2> QED BY <2>3, <2>4 DEF IInv, TypeOK
  <1>16. CASE SocketClosesRetry(l)
    <2> DEFINE n == e.failures + (IF DuringAuth(e) THEN 1 ELSE 0)
               f == [e EXCEPT !.socket = "none", !.state = "reconnecting", !.failures = n]
    <2>1. n \in 0..(MaxAuthFailures - 1)
      BY <1>0, <1>16, FailuresAssumption DEF SocketClosesRetry, Ears
    <2>2. f \in Ears /\ f.state = "reconnecting" /\ f.closed = e.closed
      BY <1>0, <2>1 DEF Ears, States
    <2>3. ear' = [ear EXCEPT ![l] = f] /\ managed' = managed /\ e.state # "none"
      BY <1>16, <1>1 DEF SocketClosesRetry
    <2>4. Good
      BY <2>2, <2>3, <1>3
    <2>5. writes' \subseteq Writes /\ UNCHANGED <<healthy, row, scan, gap>>
      BY <1>16 DEF SocketClosesRetry, Issue, Writes, IInv, TypeOK
    <2> QED BY <2>4, <2>5 DEF IInv, TypeOK
  <1>17. CASE SocketClosesTerminal(l)
    <2> DEFINE f == [e EXCEPT !.socket = "none", !.state = "closed", !.closed = TRUE]
    <2>1. f \in Ears /\ f.state = "closed" /\ f.closed
      BY <1>0 DEF Ears, States
    <2>2. ear' = [ear EXCEPT ![l] = f] /\ managed' = NoListener
      BY <1>17 DEF SocketClosesTerminal, TerminalError
    <2>3. Good
      BY <2>1, <2>2, <1>4
    <2>4. writes' \subseteq Writes /\ UNCHANGED <<healthy, row, scan, gap>>
      BY <1>17 DEF SocketClosesTerminal, TerminalError, Issue, Writes, IInv, TypeOK
    <2> QED BY <2>3, <2>4 DEF IInv, TypeOK
  <1> QED BY <1>5, <1>6, <1>7, <1>8, <1>9, <1>10, <1>11, <1>12, <1>13, <1>14,
             <1>15, <1>16, <1>17 DEF ListenerStep, SocketCloses

\* A reconcile pass.
LEMMA ScanInv ==
    ASSUME IInv, NEW s \in Scans, ScanStep(s)
    PROVE  IInv'
  <1> DEFINE Good == /\ ear' \in [Listeners -> Ears]
                     /\ managed' \in Listeners \cup {NoListener}
                     /\ Blank'
  <1>1. scan' \in [Scans -> {"idle", "clear", "judge_start", "judge_stop",
                            "clear_stop", "closed", "mark", "start"}]
    BY DEF ScanStep, ScanRead, ScanClear, ScanStop, ScanClosed, ScanDedup,
           ScanUnresolved, ScanMark, ScanStart, IInv, TypeOK
  <1>2. row' \in Rows /\ UNCHANGED <<healthy, gap>>
    BY DEF ScanStep, ScanRead, ScanClear, ScanStop, ScanClosed, ScanDedup,
           ScanUnresolved, ScanMark, ScanStart, IInv, TypeOK, Rows
  <1>3. CASE UNCHANGED <<writes, ear, managed>>
    <2>1. Good
      BY <1>3, NoEarChange
    <2> QED BY <1>1, <1>2, <1>3, <2>1 DEF IInv, TypeOK
  <1>4. CASE /\ ScanStop(s)
             /\ managed # NoListener
             /\ ear' = [ear EXCEPT ![managed] = Closed(ear[managed])]
             /\ Issue(StatusWrite(ear[managed].state, "closed"))
             /\ managed' = NoListener
    <2>1. managed \in Listeners /\ ear[managed] \in Ears
      BY <1>4 DEF IInv, TypeOK
    <2>2. PICK l \in Listeners : l = managed
      BY <2>1
    <2>3. Closed(ear[l]) \in Ears /\ Closed(ear[l]).closed /\ Closed(ear[l]).state = "closed"
      BY <2>1, <2>2, ClosedType
    <2>4. Good
      BY <1>4, <2>2, <2>3, LastEar
    <2>5. writes' \subseteq Writes
      BY <1>4, StatusWriteType DEF Issue, IInv, TypeOK
    <2> QED BY <1>1, <1>2, <2>4, <2>5 DEF IInv, TypeOK
  <1>5. CASE /\ ScanStart(s)
             /\ managed = NoListener
             /\ Issue({"recovering"})
             /\ \E l \in Listeners : /\ Dead(l)
                                     /\ ear' = [ear EXCEPT ![l] = Connecting(NoEar)]
                                     /\ managed' = l
    <2>1. PICK l \in Listeners : /\ ear' = [ear EXCEPT ![l] = Connecting(NoEar)]
                                 /\ managed' = l
      BY <1>5
    <2>2. Connecting(NoEar) \in Ears /\ Connecting(NoEar).state = "connecting"
      BY NoEarType, ConnectingType
    <2>3. ear' \in [Listeners -> Ears] /\ managed' \in Listeners \cup {NoListener}
      BY <2>1, <2>2 DEF IInv, TypeOK
    <2>4. /\ ear'[l] = Connecting(NoEar)
          /\ \A m \in Listeners \ {l} : ear'[m] = ear[m]
      BY <2>1 DEF IInv, TypeOK
    <2>5. Blank'
      BY <2>2, <2>4 DEF IInv, Blank
    <2>6. writes' \subseteq Writes
      BY <1>5 DEF Issue, Writes, IInv, TypeOK
    <2> QED BY <1>1, <1>2, <2>3, <2>5, <2>6 DEF IInv, TypeOK
  <1>6. \/ UNCHANGED <<writes, ear, managed>>
        \/ ScanStop(s) \/ ScanStart(s)
    BY DEF ScanStep, ScanRead, ScanClear, ScanClosed, ScanDedup, ScanUnresolved, ScanMark
  <1>7. CASE ScanStop(s)
    BY <1>3, <1>4, <1>7 DEF ScanStop
  <1>8. CASE ScanStart(s)
    BY <1>3, <1>5, <1>8 DEF ScanStart
  <1> QED BY <1>3, <1>6, <1>7, <1>8

\* The rest: writes that land or fail, the environment, the worker's end.
LEMMA OtherInv ==
    ASSUME IInv,
           (\E w \in Writes : WriteLands(w) \/ WriteFails(w)) \/ Environment
    PROVE  IInv'
  <1>1. CASE UNCHANGED process
    <2>1. /\ ear' \in [Listeners -> Ears]
          /\ managed' \in Listeners \cup {NoListener}
          /\ Blank'
      BY <1>1, NoEarChange DEF process
    <2>2. CASE \E w \in Writes : WriteLands(w) \/ WriteFails(w)
      <3>1. row' \in Rows /\ writes' \subseteq Writes /\ UNCHANGED <<healthy, gap>>
        BY <2>2 DEF WriteLands, WriteFails, Landed, IInv, TypeOK, Rows, Writes
      <3> QED BY <1>1, <2>1, <3>1 DEF process, IInv, TypeOK
    <2>3. CASE CooldownPasses \/ BecomesUnhealthy \/ BecomesHealthy \/ Repair \/ Fill \/ CatchUp
      <3>1. row' \in Rows /\ UNCHANGED writes /\ healthy' \in BOOLEAN /\ gap' \in Gaps
        BY <2>3 DEF CooldownPasses, BecomesUnhealthy, BecomesHealthy, Repair, Fill,
                    CatchUp, IInv, TypeOK, Rows, Gaps
      <3> QED BY <1>1, <2>1, <3>1 DEF process, IInv, TypeOK
    <2>4. CASE Crash \/ Shutdown
      <3>1. writes' \subseteq Writes /\ gap' \in Gaps /\ UNCHANGED <<healthy, row>>
        BY <2>4 DEF Crash, Shutdown, NoProcess, Writes, Gaps, IInv, TypeOK
      <3> QED BY <1>1, <2>1, <3>1 DEF process, IInv, TypeOK
    <2> QED BY <2>2, <2>3, <2>4 DEF Environment
  <1>2. CASE Crash \/ Shutdown
    <2>1. NoProcess /\ UNCHANGED <<healthy, row>>
      BY <1>2 DEF Crash, Shutdown
    <2>2. writes' \subseteq Writes
      BY <1>2 DEF Crash, Shutdown, Writes, IInv, TypeOK
    <2>3. /\ ear' \in [Listeners -> Ears]
          /\ \A l \in Listeners : ear'[l] = NoEar
      BY <2>1, NoEarType DEF NoProcess
    <2>4. Blank'
      BY <2>3 DEF Blank, NoEar
    <2>5. gap' \in Gaps /\ managed' = NoListener
      BY <2>1 DEF NoProcess, Gaps, IInv, TypeOK
    <2>6. scan' = [s \in Scans |-> "idle"]
      BY <2>1 DEF NoProcess
    <2> QED BY <2>1, <2>2, <2>3, <2>4, <2>5, <2>6 DEF IInv, TypeOK
  <1>3. Crash \/ Shutdown \/ UNCHANGED process
    BY DEF WriteLands, WriteFails, Environment, CooldownPasses, BecomesUnhealthy,
           BecomesHealthy, Repair, Fill, CatchUp
  <1> QED BY <1>1, <1>2, <1>3

-----------------------------------------------------------------------------
(* What was missed is read back *)

\* An object that waits for a token or for its timer has no socket, and one that
\* waits for a token is not ready, and has no timer.
Apart(e) == /\ e.fetch # "none" => /\ e.socket = "none"
                                   /\ e.state \notin {"ready", "reconnecting"}
            /\ e.state = "reconnecting" => e.socket = "none"

Hears(e) == e.state = "ready" /\ e.socket = "open"

\* Any object that hears, managed or not, has asked for what it missed.
Covered == /\ \A l \in Listeners : Apart(ear[l])
           /\ \A l \in Listeners : Hears(ear[l]) => gap # "open"

\* A step that gives one object new fields, and leaves the gap or closes it.
LEMMA OneEarCovered ==
    ASSUME TypeOK, Covered, NEW l \in Listeners, NEW e,
           ear' = [ear EXCEPT ![l] = e], gap' = gap \/ gap' # "open",
           Apart(e), Hears(e) => Hears(ear[l]) \/ gap' # "open"
    PROVE  Covered'
  <1>1. ear'[l] = e /\ \A m \in Listeners \ {l} : ear'[m] = ear[m]
    BY DEF TypeOK
  <1> QED BY <1>1 DEF Covered

LEMMA ConnectingCovered ==
    ASSUME NEW e \in Ears, e.socket = "none"
    PROVE  Apart(Connecting(e)) /\ ~Hears(Connecting(e))
  BY DEF Connecting, Ears, Apart, Hears

LEMMA ReconnectingCovered ==
    ASSUME NEW e \in Ears, e.socket = "none", e.fetch = "none"
    PROVE  Apart(Reconnecting(e)) /\ ~Hears(Reconnecting(e))
  BY DEF Reconnecting, Ears, Apart, Hears

LEMMA ListenerCovered ==
    ASSUME TypeOK, Covered, NEW l \in Listeners, ListenerStep(l)
    PROVE  Covered'
  <1> DEFINE e == ear[l]
  <1>1. e \in Ears /\ Apart(e)
    BY DEF TypeOK, Covered
  <1>2. CASE TimerFires(l)
    <2>1. e.socket = "none"
      BY <1>1, <1>2 DEF TimerFires, Apart
    <2>2. Apart(Connecting(e)) /\ ~Hears(Connecting(e))
      BY <1>1, <2>1, ConnectingCovered
    <2> QED BY <1>2, <2>2, OneEarCovered DEF TimerFires
  <1>3. CASE TokenArrives(l)
    <2> DEFINE f == [e EXCEPT !.fetch = "none", !.socket = "open"]
    <2>1. Apart(f) /\ ~Hears(f)
      BY <1>1, <1>3 DEF TokenArrives, Apart, Hears, Ears
    <2>2. ear' = [ear EXCEPT ![l] = f] /\ gap' = gap
      BY <1>3 DEF TokenArrives
    <2> QED BY <2>1, <2>2, OneEarCovered
  <1>4. CASE TokenFails(l)
    <2> DEFINE f == [e EXCEPT !.fetch = "none"]
    <2>1. f \in Ears /\ f.socket = "none" /\ f.fetch = "none"
      BY <1>1, <1>4 DEF TokenFails, Apart, Ears
    <2>2. Apart(Reconnecting(f)) /\ ~Hears(Reconnecting(f))
      BY <2>1, ReconnectingCovered
    <2>3. ear' = [ear EXCEPT ![l] = Reconnecting(f)] /\ gap' = gap
      BY <1>4 DEF TokenFails
    <2> QED BY <2>2, <2>3, OneEarCovered
  <1>5. CASE Heartbeat(l)
    BY <1>5 DEF Heartbeat, process, Covered
  <1>6. CASE OpenFrame(l) \/ AuthAccepted(l)
    <2>1. PICK f : /\ ear' = [ear EXCEPT ![l] = f]
                   /\ Apart(f) /\ ~Hears(f)
      <3>1. CASE OpenFrame(l)
        <4>1. Apart([e EXCEPT !.state = "authorizing"])
              /\ ~Hears([e EXCEPT !.state = "authorizing"])
          BY <1>1, <3>1 DEF OpenFrame, Apart, Hears, Ears
        <4> QED BY <3>1, <4>1 DEF OpenFrame
      <3>2. CASE AuthAccepted(l)
        <4> DEFINE g == [e EXCEPT !.state = "syncing", !.failures = 0, !.retried = FALSE]
        <4>1. Apart(g) /\ ~Hears(g)
          BY <1>1, <3>2 DEF AuthAccepted, Apart, Hears, Ears
        <4> QED BY <3>2, <4>1 DEF AuthAccepted
      <3> QED BY <1>6, <3>1, <3>2
    <2>2. gap' = gap
      BY <1>6 DEF OpenFrame, AuthAccepted
    <2> QED BY <2>1, <2>2, OneEarCovered
  <1>7. CASE SyncAccepted(l)
    <2> DEFINE f == [e EXCEPT !.state = "ready"]
    <2>1. Apart(f)
      BY <1>1, <1>7 DEF SyncAccepted, Apart, Ears
    <2>2. ear' = [ear EXCEPT ![l] = f] /\ gap' # "open"
      BY <1>7 DEF SyncAccepted
    <2> QED BY <2>1, <2>2, OneEarCovered
  <1>8. CASE AskClose(l) \/ Auth401First(l) \/ Auth401Again(l)
    <2>1. PICK f : /\ ear' = [ear EXCEPT ![l] = f]
                   /\ Apart(f) /\ ~Hears(f)
      <3>1. CASE AskClose(l)
        <4> DEFINE g == [e EXCEPT !.socket = "closing"]
        <4>1. Apart(g) /\ ~Hears(g)
          BY <1>1, <3>1 DEF AskClose, Apart, Hears, Ears
        <4> QED BY <3>1, <4>1 DEF AskClose
      <3>2. CASE Auth401First(l)
        <4> DEFINE g == [e EXCEPT !.retried = TRUE, !.force = TRUE, !.socket = "closing"]
        <4>1. Apart(g) /\ ~Hears(g)
          BY <1>1, <3>2 DEF Auth401First, Apart, Hears, Ears
        <4> QED BY <3>2, <4>1 DEF Auth401First
      <3>3. CASE Auth401Again(l)
        <4> DEFINE g == [e EXCEPT !.closed = TRUE, !.state = "closed", !.socket = "closing"]
        <4>1. Apart(g) /\ ~Hears(g)
          BY <1>1, <3>3 DEF Auth401Again, Apart, Hears, Ears
        <4> QED BY <3>3, <4>1 DEF Auth401Again
      <3> QED BY <1>8, <3>1, <3>2, <3>3
    <2>2. gap' = gap
      BY <1>8 DEF AskClose, Auth401First, Auth401Again
    <2> QED BY <2>1, <2>2, OneEarCovered
  <1>9. CASE SocketCloses(l)
    <2>0. e.fetch = "none"
      BY <1>1, <1>9 DEF SocketCloses, SocketClosesClosed, SocketClosesRetry,
                        SocketClosesTerminal, Apart
    <2>1. PICK f : /\ ear' = [ear EXCEPT ![l] = f]
                   /\ f.socket = "none" /\ f.fetch = "none"
                   /\ f.state \in {"closed", "reconnecting"}
      <3>1. CASE SocketClosesClosed(l)
        <4> DEFINE g == [e EXCEPT !.socket = "none", !.state = "closed"]
        <4>1. g.socket = "none" /\ g.fetch = "none" /\ g.state = "closed"
          BY <1>1, <2>0 DEF Ears
        <4> QED BY <3>1, <4>1 DEF SocketClosesClosed
      <3>2. CASE SocketClosesRetry(l)
        <4> DEFINE n == e.failures + (IF DuringAuth(e) THEN 1 ELSE 0)
                   g == [e EXCEPT !.socket = "none", !.state = "reconnecting", !.failures = n]
        <4>1. g.socket = "none" /\ g.fetch = "none" /\ g.state = "reconnecting"
          BY <1>1, <2>0 DEF Ears
        <4>2. ear' = [ear EXCEPT ![l] = g]
          BY <3>2 DEF SocketClosesRetry
        <4> HIDE DEF g
        <4> QED BY <4>1, <4>2
      <3>3. CASE SocketClosesTerminal(l)
        <4> DEFINE g == [e EXCEPT !.socket = "none", !.state = "closed", !.closed = TRUE]
        <4>1. g.socket = "none" /\ g.fetch = "none" /\ g.state = "closed"
          BY <1>1, <2>0 DEF Ears
        <4> QED BY <3>3, <4>1 DEF SocketClosesTerminal
      <3> QED BY <1>9, <3>1, <3>2, <3>3 DEF SocketCloses
    <2>2. Apart(f) /\ ~Hears(f)
      BY <2>1 DEF Apart, Hears
    <2>3. gap' = gap
      BY <1>9 DEF SocketCloses, SocketClosesClosed, SocketClosesRetry, SocketClosesTerminal
    <2> QED BY <2>1, <2>2, <2>3, OneEarCovered
  <1> QED BY <1>2, <1>3, <1>4, <1>5, <1>6, <1>7, <1>8, <1>9 DEF ListenerStep

\* A reconcile pass closes a socket or connects a new object.
LEMMA ScanCovered ==
    ASSUME TypeOK, Covered, NEW s \in Scans, ScanStep(s)
    PROVE  Covered'
  <1>1. gap' = gap
    BY DEF ScanStep, ScanRead, ScanClear, ScanStop, ScanClosed, ScanDedup,
           ScanUnresolved, ScanMark, ScanStart
  <1>2. CASE UNCHANGED ear
    BY <1>1, <1>2 DEF Covered
  <1>3. ASSUME NEW l \in Listeners, ear' = [ear EXCEPT ![l] = Closed(ear[l])]
        PROVE  Covered'
    <2>1. ear[l] \in Ears
      BY DEF TypeOK
    <2>2. Apart(Closed(ear[l])) /\ ~Hears(Closed(ear[l]))
      BY <2>1 DEF Closed, Apart, Hears, Ears
    <2> QED BY <1>1, <1>3, <2>2, OneEarCovered
  <1>4. ASSUME NEW l \in Listeners, ear' = [ear EXCEPT ![l] = Connecting(NoEar)]
        PROVE  Covered'
    <2>1. Apart(Connecting(NoEar)) /\ ~Hears(Connecting(NoEar))
      BY NoEarType, ConnectingCovered DEF NoEar
    <2> QED BY <1>1, <1>4, <2>1, OneEarCovered
  <1>5. \/ UNCHANGED ear
        \/ managed # NoListener /\ ear' = [ear EXCEPT ![managed] = Closed(ear[managed])]
        \/ \E l \in Listeners : ear' = [ear EXCEPT ![l] = Connecting(NoEar)]
    BY DEF ScanStep, ScanRead, ScanClear, ScanStop, ScanClosed, ScanDedup,
           ScanUnresolved, ScanMark, ScanStart
  <1> QED BY <1>2, <1>3, <1>4, <1>5 DEF TypeOK

\* A fill is missed only while nobody hears, and a worker that ends hears nothing.
LEMMA OtherCovered ==
    ASSUME TypeOK, Covered,
           (\E w \in Writes : WriteLands(w) \/ WriteFails(w)) \/ Environment
    PROVE  Covered'
  <1>1. CASE Crash \/ Shutdown
    <2>1. \A l \in Listeners : ear'[l] = NoEar
      BY <1>1 DEF Crash, Shutdown, NoProcess
    <2> QED BY <2>1 DEF Covered, Apart, Hears, NoEar
  <1>2. CASE Fill
    <2>1. \A l \in Listeners : ~Hears(ear[l])
      BY <1>2 DEF Fill, Hears
    <2> QED BY <1>2, <2>1 DEF Fill, process, Covered
  <1>3. CASE UNCHANGED ear /\ (gap' = gap \/ gap' # "open")
    BY <1>3 DEF Covered
  <1>4. \/ Crash \/ Shutdown \/ Fill
        \/ UNCHANGED ear /\ (gap' = gap \/ gap' # "open")
    BY DEF WriteLands, WriteFails, Environment, CooldownPasses, BecomesUnhealthy,
           BecomesHealthy, Repair, CatchUp, process
  <1> QED BY <1>1, <1>2, <1>3, <1>4

-----------------------------------------------------------------------------
(* The theorems *)

LEMMA Invariance == Spec => []IInv
  <1>1. IInv /\ [Next]_vars => IInv'
    <2> SUFFICES ASSUME IInv, [Next]_vars PROVE IInv'
      OBVIOUS
    <2>1. CASE \E l \in Listeners : ListenerStep(l)
      BY <2>1, ListenerInv
    <2>2. CASE \E s \in Scans : ScanStep(s)
      BY <2>2, ScanInv
    <2>3. CASE (\E w \in Writes : WriteLands(w) \/ WriteFails(w)) \/ Environment
      BY <2>3, OtherInv
    <2>4. CASE UNCHANGED vars
      BY <2>4 DEF vars, IInv, TypeOK, Blank
    <2> QED BY <2>1, <2>2, <2>3, <2>4 DEF Next
  <1> QED BY <1>1, InitInv, PTL DEF Spec

\* The listener, the manager and the worker stay within their types; in
\* particular the count of failed authorisations never passes its limit.
THEOREM TypeCorrect == Spec => []TypeOK
BY Invariance, PTL DEF IInv

\* Fills that nobody heard are read back before or while a listener is ready, for
\* any number of listener objects and passes, also of objects that were stopped and
\* come up again (tradovate-user-sync-listener.ts:452): "ready" is reached by the
\* one step that starts a reconciliation.
THEOREM GapCorrect == Spec => []GapIsCovered
  <1>1. Init => Covered
    BY DEF Init, Covered, Apart, Hears, NoEar
  <1>2. TypeOK /\ Covered /\ [Next]_vars => Covered'
    <2> SUFFICES ASSUME TypeOK, Covered, [Next]_vars PROVE Covered'
      OBVIOUS
    <2>1. CASE \E l \in Listeners : ListenerStep(l)
      BY <2>1, ListenerCovered
    <2>2. CASE \E s \in Scans : ScanStep(s)
      BY <2>2, ScanCovered
    <2>3. CASE (\E w \in Writes : WriteLands(w) \/ WriteFails(w)) \/ Environment
      BY <2>3, OtherCovered
    <2>4. CASE UNCHANGED vars
      BY <2>4 DEF vars, Covered
    <2> QED BY <2>1, <2>2, <2>3, <2>4 DEF Next
  <1>3. Covered => GapIsCovered
    BY DEF Covered, GapIsCovered, Heard, Hears
  <1> QED BY <1>1, <1>2, <1>3, TypeCorrect, PTL DEF Spec

=============================================================================
