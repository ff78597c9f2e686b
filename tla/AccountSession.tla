-------------------------- MODULE AccountSession --------------------------
(***************************************************************************)
(* One account over its trading sessions, as the routes that change its    *)
(* settings see it: the hour, whether a trade of this session is on        *)
(* record, the risk flags of its LiveSessionState row, an active lock, and *)
(* the columns of ConnectedAccount.                                        *)
(*                                                                         *)
(* Two clocks run through that code.  A session opens at 17:00 Chicago     *)
(* time and keeps the calendar date of its opening as its key until 17:00  *)
(* the next day; the routes that remove accounts compare that key with the *)
(* calendar date, which moves on at midnight.  A day therefore has three   *)
(* phases: the evening (17:00 to midnight, key = date), the day (midnight  *)
(* to 16:00, key = yesterday's date) and the break (16:00 to 17:00), the   *)
(* only time the market is closed.  The weekend is a break that lasts, in  *)
(* which the key and the date go on changing.                              *)
(*                                                                         *)
(* How stops and locks come about is the subject of AccountLock; here they *)
(* happen at any time, with the effects those handlers have on the row.    *)
(***************************************************************************)
EXTENDS Integers

CONSTANT MaxRequests   \* bound: changes of plan or status the user asks for

ASSUME RequestsAssumption == MaxRequests \in Nat

VARIABLES
    phase,    \* of the Chicago day
    traded,   \* a trade of this session is on record
    row,      \* LiveSessionState: date is the current key, STOPPED, cooldown
    lock,     \* an active InternalLockEvent
    account,  \* connection, protection status and the pending change of it
    asked     \* requests so far

sessionVars == <<phase, traded, row, lock, account>>

Phases == {"evening", "day", "break"}
Statuses == {"protected", "monitor_only", "pending_decision", "ignored", "archived"}
Nothing == "nothing"   \* no pending status

Rows == [fresh : BOOLEAN, stopped : BOOLEAN, cool : BOOLEAN]
Accounts == [conn : {"live", "readonly", "gone"}, status : Statuses,
             wanted : Statuses \cup {Nothing}, due : {0, 1}]

SessionTypeOK ==
    /\ phase \in Phases
    /\ traded \in BOOLEAN
    /\ row \in Rows
    /\ lock \in BOOLEAN
    /\ account \in Accounts
    /\ asked \in 0..MaxRequests

\* A protected account on an open market, heard from, before its first trade.
SessionInit ==
    /\ phase = "evening"
    /\ traded = FALSE
    /\ row = [fresh |-> FALSE, stopped |-> FALSE, cool |-> FALSE]
    /\ lock = FALSE
    /\ account = [conn |-> "live", status |-> "protected", wanted |-> Nothing,
                  due |-> 0]
    /\ asked = 0

MarketOpen == phase # "break"
IsAccountLocked == row.stopped \/ row.cool   \* whatever the row's date

-----------------------------------------------------------------------------

Following == [evening |-> "day", day |-> "break", break |-> "evening"]

\* At midnight a pending change comes due; at 17:00 the session rolls over, and
\* the row keeps the old key until somebody writes it.
Tick ==
    /\ phase' = Following[phase]
    /\ traded' = (traded /\ phase # "break")
    /\ row' = [row EXCEPT !.fresh = @ /\ phase # "break"]
    /\ account' = [account EXCEPT !.due = IF phase = "evening" THEN 0 ELSE @]
    /\ UNCHANGED lock

\* The market stays closed over another 17:00, or another midnight.
Weekend ==
    /\ phase = "break"
    /\ \/ /\ traded' = FALSE
          /\ row' = [row EXCEPT !.fresh = FALSE]
          /\ UNCHANGED account
       \/ /\ account' = [account EXCEPT !.due = 0]
          /\ UNCHANGED <<traded, row>>
    /\ UNCHANGED <<phase, lock>>

\* Whether the key of the session is the calendar date.
KeyIsDate == [evening |-> {TRUE}, day |-> {FALSE}, break |-> BOOLEAN]

\* A webhook writes the trade event, a sync the day's trade count.
MayRecordTrade == \/ UNCHANGED traded
                  \/ MarketOpen /\ traded' = TRUE

\* A sync rolls the row over (clearing the locks), recomputes STOPPED, lets an
\* active lock hold it, and may create a lock.
SyncAccount ==
    /\ account.conn # "gone"
    /\ \E verdict \in {"fine", "stop", "lock"} :
         LET held == lock /\ row.fresh
         IN  /\ row' = [row EXCEPT !.fresh = TRUE,
                                   !.stopped = held \/ verdict # "fine"]
             /\ lock' = (held \/ verdict = "lock")
    /\ MayRecordTrade
    /\ UNCHANGED <<phase, account>>

\* What a webhook makes of the row: a rollover or an elapsed cooldown resets it,
\* and the event may then stop the account or start a cooldown.
AfterWebhook(r) ==
    LET reset == [fresh |-> TRUE, stopped |-> FALSE, cool |-> FALSE]
        bases == IF ~r.fresh THEN {reset} ELSE IF r.cool THEN {reset, r} ELSE {r}
        acts(b) == IF b.stopped \/ b.cool THEN {b}
                   ELSE {b, [b EXCEPT !.stopped = TRUE],
                            [b EXCEPT !.stopped = TRUE, !.cool = TRUE]}
    IN  UNION {acts(b) : b \in bases}

\* An event arrives, of a fill or of anything else; the connection is live.
Webhook ==
    /\ account.conn # "gone"
    /\ row' \in AfterWebhook(row)
    /\ MayRecordTrade
    /\ account' = [account EXCEPT !.conn = "live"]
    /\ UNCHANGED <<phase, lock>>

\* The lockout click, on whatever session the row is of.
Lockout ==
    /\ account.conn # "gone"
    /\ row' = [row EXCEPT !.stopped = TRUE]
    /\ lock' = TRUE
    /\ UNCHANGED <<phase, traded, account>>

\* reset-session-state
ResetSession ==
    /\ row' = [row EXCEPT !.stopped = FALSE, !.cool = FALSE]
    /\ lock' = FALSE
    /\ UNCHANGED <<phase, traded, account>>

\* A token expires or is healed, and the status of the accounts goes with it.
ConnectionLapses ==
    /\ account.conn = "live"
    /\ account' = [account EXCEPT !.conn = "readonly"]
    /\ UNCHANGED <<phase, traded, row, lock>>

SessionNext == \/ Tick \/ Weekend \/ SyncAccount \/ Webhook \/ Lockout
               \/ ResetSession \/ ConnectionLapses

=============================================================================
