------------------------- MODULE BrokerEnforcement -------------------------
(***************************************************************************)
(* How an active InternalLockEvent becomes a risk setting at the broker.   *)
(* Four callers go the same way - load the lock row, look for an earlier   *)
(* GuardianIntervention under the dedup key, write to Tradovate, record    *)
(* the outcome - and differ in what they check and how they record:        *)
(*   listener  maybeAttemptBrokerDailyLossLockoutForInternalLock, called   *)
(*             without await for every props event that finds a lock       *)
(*   c7b       attemptRealBrokerEnforcementAfterDryRun, an operator script *)
(*   manual    maybeAttemptBrokerLockForManualLock, the lockout route      *)
(*   retry     retryManualBrokerLock, an operator script                   *)
(* Every await between these steps lets the other callers run.             *)
(*                                                                         *)
(* One account.  A key stands for (rule, trading day): the manual ones are *)
(* locked by the trader, the others by the daily loss rule, the only one   *)
(* that gate 5 lets through.  The gates on environment, allowlist,         *)
(* connection and permission are read in the same query as the lock row;   *)
(* an attempt they block does nothing and is left out.                     *)
(***************************************************************************)
EXTENDS Integers, FiniteSets

CONSTANTS
    Attempts,     \* calls, each made at most once
    Keys,         \* dedup keys
    ManualKeys,   \* those of manual_lock rows
    MaxLocks      \* bound: lock rows of one key, the earlier ones cleared

Kinds == {"listener", "c7b", "manual", "retry"}

ASSUME KeysAssumption == Keys # {} /\ ManualKeys \subseteq Keys
ASSUME MaxLocksAssumption == MaxLocks \in Nat \ {0}

VARIABLES
    guardian,   \* GuardianProfile.guardianEnabled
    rows,       \* state of each InternalLockEvent row
    taken,      \* rows with brokerActionTaken
    recorded,   \* brokerLockStatus of the GuardianIntervention holding a key
    attempt,    \* per call: kind, program counter and locals
    confirmed   \* history: keys whose lock the broker confirmed

vars == <<guardian, rows, taken, recorded, attempt, confirmed>>

-----------------------------------------------------------------------------

Rows == [key : Keys, gen : 1..MaxLocks]
RowStates == {"unborn", "active", "cleared"}

\* "failed" stands for broker_lock_failed, the unavailable_* statuses and
\* monitoring_only, which every caller treats alike.
Statuses == {"broker_locked", "dry_run", "failed"}

\* What a call to the broker comes to.  A failure - an error, an unconfirmed
\* read-back - may follow a request that took effect; consent, availability and
\* dry run are looked at first and send nothing.
Results == {r \in [status : Statuses, sent : BOOLEAN] :
              /\ r.status = "broker_locked" => r.sent
              /\ r.status = "dry_run" => ~r.sent}

\* `late' is history: the key was recorded before the call began.
AttemptStates ==
    [kind : Kinds \cup {"none"}, row : Rows,
     pc : {"idle", "check", "write", "record", "mark", "done"},
     status : Statuses \cup {"none"}, sent : BOOLEAN, late : BOOLEAN]
NoRow == CHOOSE r \in Rows : TRUE   \* fills the field before a row is loaded
AttemptIdle == [kind |-> "none", row |-> NoRow, pc |-> "idle", status |-> "none",
                sent |-> FALSE, late |-> FALSE]

TypeOK ==
    /\ guardian \in BOOLEAN
    /\ rows \in [Rows -> RowStates]
    /\ taken \subseteq Rows
    /\ recorded \in [Keys -> Statuses \cup {"none"}]
    /\ attempt \in [Attempts -> AttemptStates]
    /\ confirmed \subseteq Keys

Init ==
    /\ guardian = TRUE
    /\ rows = [r \in Rows |-> "unborn"]
    /\ taken = {}
    /\ recorded = [k \in Keys |-> "none"]
    /\ attempt = [a \in Attempts |-> AttemptIdle]
    /\ confirmed = {}

-----------------------------------------------------------------------------
(* The rows and the switch, which AccountLock writes *)

\* activeDedupKey is unique while active, so the rows of a key follow each other.
LockBorn(r) ==
    /\ rows[r] = "unborn"
    /\ \A s \in Rows : s.key = r.key /\ s.gen < r.gen => rows[s] = "cleared"
    /\ rows' = [rows EXCEPT ![r] = "active"]
    /\ UNCHANGED <<guardian, taken, recorded, attempt, confirmed>>

LockCleared(r) ==
    /\ rows[r] = "active"
    /\ rows' = [rows EXCEPT ![r] = "cleared"]
    /\ UNCHANGED <<guardian, taken, recorded, attempt, confirmed>>

SetGuardian ==
    /\ guardian' = ~guardian
    /\ UNCHANGED <<rows, taken, recorded, attempt, confirmed>>

-----------------------------------------------------------------------------
(* Steps the callers share *)

Key(a) == attempt[a].row.key
In(a, kinds, pc) == attempt[a].pc = pc /\ attempt[a].kind \in kinds
Goto(a, pc) == attempt' = [attempt EXCEPT ![a].pc = pc]

\* The lock row is loaded; a cleared one is stale and ends the call.
Load(a, kind, r) ==
    /\ attempt[a].pc = "idle"
    /\ rows[r] = "active"
    /\ attempt' = [attempt EXCEPT ![a] =
         [AttemptIdle EXCEPT !.kind = kind, !.row = r, !.pc = "check",
                             !.late = recorded[r.key] # "none"]]
    /\ UNCHANGED <<guardian, rows, taken, recorded, confirmed>>

\* The earlier intervention is looked up by the dedup key.
Check(a, goOn) ==
    /\ Goto(a, IF goOn THEN "write" ELSE "done")
    /\ UNCHANGED <<guardian, rows, taken, recorded, confirmed>>

\* The broker is called, or not, and answers, or not.
Write(a) ==
    /\ \E result \in Results :
         /\ attempt' = [attempt EXCEPT ![a] =
              [@ EXCEPT !.pc = "record", !.status = result.status,
                        !.sent = result.sent]]
         /\ confirmed' = IF result.status = "broker_locked"
                         THEN confirmed \cup {Key(a)} ELSE confirmed
    /\ UNCHANGED <<guardian, rows, taken, recorded>>

\* Mutant: a request that went out is taken for a lock.
AfterRecord_Sent(a) == IF attempt[a].sent THEN "mark" ELSE "done"

\* What follows a record in the manual paths.
AfterRecord(a) == IF attempt[a].status = "broker_locked" THEN "mark" ELSE "done"

-----------------------------------------------------------------------------
(* The listener path *)

ListenerLoad(a) ==
    /\ guardian
    /\ \E r \in Rows : r.key \notin ManualKeys /\ Load(a, "listener", r)

\* Mutant: a failed attempt does not hold its key.
ListenerCheck_FailedAgain(a) ==
    /\ In(a, {"listener"}, "check")
    /\ Check(a, recorded[Key(a)] \in {"none", "failed"})

ListenerCheck(a) ==
    /\ In(a, {"listener"}, "check")
    /\ Check(a, recorded[Key(a)] = "none")

\* applyBrokerDayLockout, in lock_only mode: neither the lock row nor the
\* switch is looked at again.
AutomaticWrite(a) == In(a, {"listener", "c7b"}, "write") /\ Write(a)

\* triggerEnforcement creates the row; on a taken key it throws.
ListenerRecord(a) ==
    /\ In(a, {"listener"}, "record")
    /\ \/ /\ recorded[Key(a)] = "none"
          /\ recorded' = [recorded EXCEPT ![Key(a)] = attempt[a].status]
          /\ Goto(a, "done")
       \/ /\ recorded[Key(a)] # "none"
          /\ Goto(a, "done")
          /\ UNCHANGED recorded
    /\ UNCHANGED <<guardian, rows, taken, confirmed>>

-----------------------------------------------------------------------------
(* The controlled same-day real enforcement *)

C7bLoad(a) ==
    /\ guardian
    /\ \E r \in Rows : r.key \notin ManualKeys /\ Load(a, "c7b", r)

\* Only a dry run may be followed by the real thing.
C7bCheck(a) ==
    /\ In(a, {"c7b"}, "check")
    /\ Check(a, recorded[Key(a)] = "dry_run")

\* The key is held by the dry run, so the row is created without it.
C7bRecord(a) ==
    /\ In(a, {"c7b"}, "record")
    /\ Goto(a, "done")
    /\ UNCHANGED <<guardian, rows, taken, recorded, confirmed>>

-----------------------------------------------------------------------------
(* The manual lock and its retry *)

ManualLoad(a) == \E r \in Rows : r.key \in ManualKeys /\ Load(a, "manual", r)

ManualCheck(a) ==
    /\ In(a, {"manual"}, "check")
    /\ Check(a, recorded[Key(a)] = "none")

ManualWrite(a) == In(a, {"manual", "retry"}, "write") /\ Write(a)

\* Mutant: the row is upserted, over whatever has taken the key meanwhile.
ManualRecord_Upsert(a) ==
    /\ In(a, {"manual"}, "record")
    /\ recorded' = [recorded EXCEPT ![Key(a)] = attempt[a].status]
    /\ Goto(a, AfterRecord(a))
    /\ UNCHANGED <<guardian, rows, taken, confirmed>>

\* A taken key is tolerated: the call ends without marking the lock row.
ManualRecord(a) ==
    /\ In(a, {"manual"}, "record")
    /\ \/ /\ recorded[Key(a)] = "none"
          /\ recorded' = [recorded EXCEPT ![Key(a)] = attempt[a].status]
          /\ Goto(a, AfterRecord(a))
       \/ /\ recorded[Key(a)] # "none"
          /\ Goto(a, "done")
          /\ UNCHANGED recorded
    /\ UNCHANGED <<guardian, rows, taken, confirmed>>

RetryLoad(a) == \E r \in Rows : r.key \in ManualKeys /\ Load(a, "retry", r)

RetryCheck(a) ==
    /\ In(a, {"retry"}, "check")
    /\ Check(a, recorded[Key(a)] \in {"dry_run", "failed"})

\* The earlier row is updated in place, whatever it holds by now.
RetryRecord(a) ==
    /\ In(a, {"retry"}, "record")
    /\ recorded' = [recorded EXCEPT ![Key(a)] = attempt[a].status]
    /\ Goto(a, AfterRecord(a))
    /\ UNCHANGED <<guardian, rows, taken, confirmed>>

\* brokerActionTaken is set on the lock row.
Mark(a) ==
    /\ In(a, {"manual", "retry"}, "mark")
    /\ taken' = taken \cup {attempt[a].row}
    /\ Goto(a, "done")
    /\ UNCHANGED <<guardian, rows, recorded, confirmed>>

\* The process dies, or a query fails and the call throws.
Die(a) ==
    /\ attempt[a].pc \notin {"idle", "done"}
    /\ Goto(a, "done")
    /\ UNCHANGED <<guardian, rows, taken, recorded, confirmed>>

Call(a) == \/ ListenerLoad(a) \/ ListenerCheck(a) \/ AutomaticWrite(a)
           \/ ListenerRecord(a) \/ C7bLoad(a) \/ C7bCheck(a) \/ C7bRecord(a)
           \/ ManualLoad(a) \/ ManualCheck(a) \/ ManualWrite(a) \/ ManualRecord(a)
           \/ RetryLoad(a) \/ RetryCheck(a) \/ RetryRecord(a) \/ Mark(a) \/ Die(a)

Next == \/ SetGuardian
        \/ \E r \in Rows : LockBorn(r) \/ LockCleared(r)
        \/ \E a \in Attempts : Call(a)

Spec == Init /\ [][Next]_vars

-----------------------------------------------------------------------------
(* Properties of every interleaving *)

\* A key recorded before a call of the listener or of the lockout route began
\* stops it from writing to the broker (gate 10 of broker-enforcement-gate.ts,
\* the idempotency check of manual-broker-lock-service.ts 86-99), whatever the
\* outcome recorded, whoever recorded it and however many calls overlap.
RecordedKeyIsFinal ==
    \A a \in Attempts :
        attempt[a].kind \in {"listener", "manual"} /\ attempt[a].late
            => ~attempt[a].sent

\* Nobody reports a broker lock the broker did not confirm: neither the audit row
\* of the key (manual-broker-lock-service.ts 101-153, enforcement.ts 703-724) nor
\* brokerActionTaken on a lock row, which is of a manual key.
NoFalseLock ==
    /\ \A k \in Keys : recorded[k] = "broker_locked" => k \in confirmed
    /\ \A r \in taken : r.key \in confirmed \cap ManualKeys

-----------------------------------------------------------------------------
(* The promise of broker-enforcement-dedup.ts 18-21, which the code does not    *)
(* keep: the key is looked up before the broker is called and taken after.      *)

\* The listener asks the broker at most once for a key ("the DB unique constraint
\* enforces at-most-once semantics even under concurrent props events").
AtMostOneRequest ==
    \A a, b \in Attempts :
        /\ attempt[a].sent /\ attempt[b].sent
        /\ attempt[a].kind = "listener" /\ attempt[b].kind = "listener"
        /\ Key(a) = Key(b)
        => a = b

-----------------------------------------------------------------------------
(* The ledger.  A call has its turn from its check to its record; the listener  *)
(* and the lockout route look for a key without outcome, so theirs are first    *)
(* turns.                                                                       *)

TurnOf(a) ==
    [call |-> a, key |-> Key(a), first |-> attempt[a].kind \in {"listener", "manual"},
     asked |-> attempt[a].sent]
Turning(a) == attempt[a].pc \in {"write", "record"}

Ledger == INSTANCE EnforcementLedger
            WITH Calls <- Attempts, outcome <- recorded,
                 turns <- {TurnOf(a) : a \in {b \in Attempts : Turning(b)}}

\* Four callers, overlapping and dying anyhow, keep one ledger: nobody gets as far
\* as the broker on a key with a lock entered, an outcome found at the record is
\* never overwritten by a call that had looked for none, and a lock is entered by
\* a call whose own request went out (broker-enforcement-service.ts 173-260,
\* manual-broker-lock-service.ts 86-153, enforcement.ts 703-724).
LedgerKept == Ledger!Spec
=============================================================================
