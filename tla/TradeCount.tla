----------------------------- MODULE TradeCount -----------------------------
(***************************************************************************)
(* How the fills of one account in one session become its trade count      *)
(* (LiveSessionState.tradesCount), what the trade limit is judged by.      *)
(*                                                                         *)
(* The broker's fills reach NormalizedTradeEvent twice: each is sent to    *)
(* the webhook, perhaps late, again or never, and a sync fetches all of    *)
(* them.  The webhook stores the fill and advances the count by what the   *)
(* fill does to the position; a sync stores what it fetched and replaces   *)
(* the count by the broker's report or, failing that, by a recount of the  *)
(* stored fills.  Nothing serialises the two.  The report counts positions *)
(* opened, everything else trades completed.  Orders reach the webhook too *)
(* and are stored as trade_opened, but no count reads them.                *)
(***************************************************************************)
EXTENDS Fills

CONSTANTS
    Hooks,   \* webhook requests that may overlap
    Syncs    \* syncs that may overlap (cron, button, listener)

VARIABLES
    count,     \* LiveSessionState.tradesCount
    hook,      \* the webhook requests
    sync,      \* the syncs
    applied,   \* history: fills whose webhook has advanced the session state
    orderly    \* history: one at a time, in order, nothing missing or interrupted

vars == <<fills, rows, count, hook, sync, applied, orderly>>

-----------------------------------------------------------------------------
(* Data *)

IdleHook == [pc |-> "idle", fill |-> 0, adds |-> 0]
IdleSync == [pc |-> "idle", seen |-> 0, count |-> 0]

TypeOK ==
    /\ FillsTypeOK
    /\ count \in Nat
    /\ hook \in [Hooks -> [pc : {"idle", "checked", "created", "judged"},
                           fill : 0..MaxFills, adds : {0, 1}]]
    /\ sync \in [Syncs -> [pc : {"idle", "fetched", "stored", "counted"},
                           seen : 0..MaxFills, count : Nat]]
    /\ applied \subseteq 1..MaxFills
    /\ orderly \in BOOLEAN

Init ==
    /\ FillsInit
    /\ count = 0
    /\ hook = [h \in Hooks |-> IdleHook]
    /\ sync = [s \in Syncs |-> IdleSync]
    /\ applied = {}
    /\ orderly = TRUE

Execute(contract, delta) ==
    /\ Trade(contract, delta)
    /\ UNCHANGED <<rows, count, hook, sync, applied, orderly>>

-----------------------------------------------------------------------------
(* The webhook *)

Quiet == (\A h \in Hooks : hook[h].pc = "idle") /\ (\A s \in Syncs : sync[s].pc = "idle")

\* A fill is delivered; a stored one, by either path, is skipped.
HookCheck(h, i) ==
    /\ hook[h].pc = "idle"
    /\ i \notin Stored
    /\ hook' = [hook EXCEPT ![h] = [pc |-> "checked", fill |-> i, adds |-> 0]]
    /\ orderly' = (orderly /\ Quiet /\ 1..(i - 1) \subseteq Stored)
    /\ UNCHANGED <<fills, rows, count, sync, applied>>

\* Mutant: there is no unique index.
HookCreate_NoIndex(h) ==
    LET row == [id |-> hook[h].fill, kind |-> EventType[hook[h].fill]]
    IN  /\ hook[h].pc = "checked"
        /\ rows' = rows \cup {row}
        /\ hook' = [hook EXCEPT ![h].pc = "created"]
        /\ UNCHANGED <<fills, count, sync, applied, orderly>>

\* The row is created, or refused by the unique index (P2002) if there is one of the
\* same type; one that a sync has stored since the check does not stand in its way.
HookCreate(h) ==
    LET row == [id |-> hook[h].fill, kind |-> EventType[hook[h].fill]]
    IN  /\ hook[h].pc = "checked"
        /\ rows' = rows \cup {row}
        /\ hook' = [hook EXCEPT ![h] = IF row \in rows THEN IdleHook
                                       ELSE [@ EXCEPT !.pc = "created"]]
        /\ UNCHANGED <<fills, count, sync, applied, orderly>>

\* Mutant: the fill just stored is part of the position it meets.
NetPosition_WithItself(i) ==
    MapThenSumSet(LAMBDA j : fills[j].delta,
                  {j \in Stored : fills[j].contract = fills[i].contract})

\* computeNetPosition: every other fill of the contract stored so far, later ones
\* included.
NetPosition(i) ==
    MapThenSumSet(LAMBDA j : fills[j].delta,
                  {j \in Stored \ {i} : fills[j].contract = fills[i].contract})

\* The webhook reads the position; a completed trade counts if the event states its
\* profit.
HookJudge(h) ==
    LET i == hook[h].fill
        completes == Completes(NetPosition(i), fills[i].delta)
        stated == EventType[i] # "trade_closed"
    IN  /\ hook[h].pc = "created"
        /\ hook' = [hook EXCEPT ![h].pc = "judged",
                                ![h].adds = IF completes /\ stated THEN 1 ELSE 0]
        /\ orderly' = (orderly /\ (completes => stated))
        /\ UNCHANGED <<fills, rows, count, sync, applied>>

\* applyTradeClose, applyTradeOpen: an increment in the database.
HookApply(h) ==
    /\ hook[h].pc = "judged"
    /\ count' = count + hook[h].adds
    /\ applied' = applied \cup {hook[h].fill}
    /\ hook' = [hook EXCEPT ![h] = IdleHook]
    /\ UNCHANGED <<fills, rows, sync, orderly>>

\* The request dies; its retry will find the row, if it got so far.
HookDies(h) ==
    /\ hook[h].pc # "idle"
    /\ hook' = [hook EXCEPT ![h] = IdleHook]
    /\ orderly' = FALSE
    /\ UNCHANGED <<fills, rows, count, sync, applied>>

-----------------------------------------------------------------------------
(* The sync *)

\* Phase B: the fills of the session, or nothing when the broker does not answer or
\* the database refuses them.
SyncFetch(s) ==
    /\ sync[s].pc = "idle"
    /\ \/ sync' = [sync EXCEPT ![s] = [pc |-> "fetched", seen |-> Len(fills), count |-> 0]]
       \/ sync' = [sync EXCEPT ![s].pc = "stored"]
    /\ orderly' = (orderly /\ Quiet)
    /\ UNCHANGED <<fills, rows, count, hook, applied>>

\* createMany, skipDuplicates
SyncStore(s) ==
    /\ sync[s].pc = "fetched"
    /\ rows' = rows \cup {[id |-> i, kind |-> "fill"] : i \in 1..sync[s].seen}
    /\ sync' = [sync EXCEPT ![s] = [pc |-> "stored", seen |-> 0, count |-> 0]]
    /\ UNCHANGED <<fills, count, hook, applied, orderly>>

\* Phase C: the broker's Performance Report, "number of times a position opened from
\* flat" and a reversal once more (canonical-trade-count.ts), or else the trades
\* completed among the stored fills.
SyncCount(s) ==
    /\ sync[s].pc = "stored"
    /\ \E n \in {Cardinality(Openings(Ids)), CanonicalCount} :
         /\ sync' = [sync EXCEPT ![s] = [pc |-> "counted", seen |-> 0, count |-> n]]
         /\ orderly' = (orderly /\ n = CanonicalCount)
    /\ UNCHANGED <<fills, rows, count, hook, applied>>

\* Mutant: a count never goes down within a session.
SyncWrite_Upwards(s) ==
    /\ sync[s].pc = "counted"
    /\ count' = IF sync[s].count > count THEN sync[s].count ELSE count
    /\ sync' = [sync EXCEPT ![s] = IdleSync]
    /\ UNCHANGED <<fills, rows, hook, applied, orderly>>

SyncWrite(s) ==
    /\ sync[s].pc = "counted"
    /\ count' = sync[s].count
    /\ sync' = [sync EXCEPT ![s] = IdleSync]
    /\ UNCHANGED <<fills, rows, hook, applied, orderly>>

\* It throws or dies somewhere before its write.
SyncDies(s) ==
    /\ sync[s].pc = "stored"
    /\ sync' = [sync EXCEPT ![s] = IdleSync]
    /\ orderly' = FALSE
    /\ UNCHANGED <<fills, rows, count, hook, applied>>

-----------------------------------------------------------------------------

Next ==
    \/ \E c \in Contracts, d \in Deltas : Execute(c, d)
    \/ \E h \in Hooks : \/ \E i \in Ids : HookCheck(h, i)
                        \/ HookCreate(h) \/ HookJudge(h) \/ HookApply(h) \/ HookDies(h)
    \/ \E s \in Syncs : \/ SyncFetch(s) \/ SyncStore(s) \/ SyncCount(s) \/ SyncWrite(s)
                        \/ SyncDies(s)

Spec == Init /\ [][Next]_vars

\* The step of SyncCount as the sync alone shows it.
Counts(s) ==
    /\ sync[s].pc = "stored"
    /\ \E n \in 0..MaxFills :
         sync' = [sync EXCEPT ![s] = [pc |-> "counted", seen |-> 0, count |-> n]]

\* A sync is started again and again, each request ends, and a broker and a
\* database that fail now and then do not fail for ever.
Fairness ==
    /\ \A h \in Hooks : WF_vars(HookDies(h) \/ HookCreate(h) \/ HookJudge(h) \/ HookApply(h))
    /\ \A s \in Syncs :
         /\ SF_vars(SyncFetch(s) /\ sync'[s].pc = "fetched")
         /\ SF_sync(Counts(s))
         /\ WF_vars(SyncDies(s) \/ SyncStore(s) \/ SyncWrite(s) \/ SyncCount(s))

FairSpec == Spec /\ Fairness

-----------------------------------------------------------------------------
(* Properties *)

\* Webhooks handled one at a time and in order, and between them syncs that find no
\* report, or one that says what a recount does, keep the count exact: "Only then is
\* tradesCount incremented -- partial exits that leave a position open do NOT count"
\* (session-state.ts).
OrderlyCountIsExact ==
    orderly /\ Quiet => count = Cardinality(Trips(Stored))

\* A webhook that is repeated, or overlaps its own repetition, advances the session
\* state once: "treat it as a duplicate and stop here [...] so session-state
\* mutations below are not applied twice" (webhook/route.ts).
AppliedOnce ==
    [][\A h \in Hooks : HookApply(h) => hook[h].fill \notin applied]_vars

\* Whatever was lost, repeated, reordered, interrupted or counted twice on the way,
\* the count comes to be that of the report or of the recount over all that was
\* executed, and stays one of them: "The periodic sync (countCanonicalEntries) will
\* reconcile the count" (webhook/route.ts).  The two agree while the account is flat;
\* a position that is open counts in the report only, so that the count may go on
\* changing between the two as the report comes and goes.
CountSettles ==
    <>[](count \in {Cardinality(Trips(Ids)), Cardinality(Openings(Ids))})

=============================================================================
