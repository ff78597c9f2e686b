------------------------------ MODULE Removal ------------------------------
(***************************************************************************)
(* How an account leaves protection: the protection status, the change of  *)
(* it that is deferred (pendingProtectionStatus with its date), archiving, *)
(* disconnecting and connecting again.                                     *)
(*                                                                         *)
(* A request reads what it judges by and writes later; so does the cron    *)
(* that archives the accounts whose date has come.  The request slot is    *)
(* the user's, the archival slot the cron's.                               *)
(***************************************************************************)
EXTENDS AccountSession

VARIABLES
    move,       \* the request being handled
    archival    \* the cron has read this account and will archive it

moveVars == <<move, archival>>

NoMove == [op |-> "idle", to |-> "protected"]
Moves == [op : {"idle", "apply", "defer", "disconnect", "import", "reconnect"},
          to : Statuses]

MoveTypeOK ==
    /\ move \in Moves
    /\ archival \in BOOLEAN

MoveInit ==
    /\ move = NoMove
    /\ archival = FALSE

-----------------------------------------------------------------------------
(* Decisions *)

Rank == [protected |-> 4, monitor_only |-> 3, pending_decision |-> 2,
         ignored |-> 1, archived |-> 0]

\* canChangeProtection: less protection has to wait while the session is locked.
CanChange(to, inWindow) == \/ ~inWindow
                           \/ account.status = "pending_decision"
                           \/ Rank[to] >= Rank[account.status]

\* decideRemovalEligibility: the session row counts only while its key, the date of
\* the session's opening, is the calendar date.
CanRemoveNow(keyIsDate) ==
    \/ account.status \in {"ignored", "archived"}
    \/ /\ ~(keyIsDate /\ row.fresh /\ IsAccountLocked)
       /\ ~lock

\* A protected account cannot be disconnected in its window.
CanDisconnect(inWindow) ==
    account.status \in {"protected", "monitor_only"} => ~inWindow

-----------------------------------------------------------------------------
(* The user's requests.  `inWindow': within the protection hours, which the  *)
(* user configures or leaves out.                                            *)

AskMove(op, to) ==
    /\ move.op = "idle"
    /\ asked < MaxRequests
    /\ asked' = asked + 1
    /\ move' = [op |-> op, to |-> to]
    /\ UNCHANGED <<sessionVars, archival>>

\* POST .../protection with "archived", and the disconnect of a connection, which
\* does the same to each of its accounts.  Asking for the present status is
\* answered at once and changes nothing, a deferred change included.
Archive ==
    /\ account.status # "archived"
    /\ \E keyIsDate \in KeyIsDate[phase] :
         AskMove(IF CanRemoveNow(keyIsDate) THEN "apply" ELSE "defer", "archived")

\* POST .../protection with any other status.
ChangeStatus(to, inWindow) ==
    /\ to \in {"protected", "monitor_only", "ignored"} \ {account.status}
    /\ AskMove(IF CanChange(to, inWindow) THEN "apply" ELSE "defer", to)

\* DELETE /api/accounts/[id]
Disconnect(inWindow) ==
    /\ account.conn # "gone"
    /\ CanDisconnect(inWindow)
    /\ AskMove("disconnect", account.status)

\* OAuth: the account is picked again (finalize), or only connected again.
Connect ==
    \/ AskMove("import", "protected")
    \/ AskMove("reconnect", account.status)

\* The ConnectedAccount row after a request.  Importing an account protects it but
\* forgets no deferred change.
Written(m) ==
    CASE m.op = "apply" -> [account EXCEPT !.status = m.to, !.wanted = Nothing,
                                           !.due = 0]
      [] m.op = "defer" -> [account EXCEPT !.wanted = m.to, !.due = 1]
      [] m.op = "disconnect" -> [account EXCEPT !.conn = "gone"]
      [] m.op = "import" -> [account EXCEPT !.conn = "readonly", !.status = m.to]
      [] m.op = "reconnect" -> [account EXCEPT !.conn = "readonly"]

WriteMove ==
    /\ move.op # "idle"
    /\ account' = Written(move)
    /\ move' = NoMove
    /\ UNCHANGED <<phase, traded, row, lock, asked, archival>>

MoveFails ==
    /\ move.op # "idle"
    /\ move' = NoMove
    /\ UNCHANGED <<sessionVars, asked, archival>>

-----------------------------------------------------------------------------
(* promotePendingConnectedAccountProtection *)

\* Mutant: the cron waits for the lock to be cleared.
StartArchival_WhenFree ==
    /\ ~archival
    /\ account.wanted = "archived"
    /\ account.due = 0
    /\ ~lock
    /\ archival' = TRUE
    /\ UNCHANGED <<sessionVars, asked, move>>

\* Only "archived" is promoted; the date alone decides.
StartArchival ==
    /\ ~archival
    /\ account.wanted = "archived"
    /\ account.due = 0
    /\ archival' = TRUE
    /\ UNCHANGED <<sessionVars, asked, move>>

\* The update does not ask whether the change is still pending.
FinishArchival ==
    /\ archival
    /\ account' = [account EXCEPT !.status = "archived", !.wanted = Nothing, !.due = 0]
    /\ archival' = FALSE
    /\ UNCHANGED <<phase, traded, row, lock, asked, move>>

ArchivalFails ==
    /\ archival
    /\ archival' = FALSE
    /\ UNCHANGED <<sessionVars, asked, move>>

MoveNext == \/ Archive \/ Connect
            \/ \E inWindow \in BOOLEAN :
                 \/ Disconnect(inWindow)
                 \/ \E to \in Statuses : ChangeStatus(to, inWindow)
            \/ WriteMove \/ MoveFails
            \/ StartArchival \/ FinishArchival \/ ArchivalFails

-----------------------------------------------------------------------------
(* Properties *)

\* A deferred removal is carried out, or replaced by another choice.  Of the
\* changes the routes defer it is the only one: no promoter looks for the others.
RemovalComes == (account.wanted = "archived") ~> (account.wanted # "archived")

=============================================================================
