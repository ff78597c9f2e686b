-------------------------------- MODULE Fills --------------------------------
(***************************************************************************)
(* The fills of one account in one session: what was executed at the       *)
(* broker, which of it NormalizedTradeEvent knows, and how many trades the *)
(* fills make.                                                             *)
(*                                                                         *)
(* A fill is its number in the broker's order: ids and times grow with it. *)
(* An account starts the session flat.                                     *)
(***************************************************************************)
EXTENDS Integers, Sequences, FiniteSets, SequencesExt, FiniteSetsExt

CONSTANTS
    Contracts,     \* what the account trades
    Buys, Sells,   \* quantities of a fill
    EventType,     \* the type of the event by which the webhook stores each fill
    MaxFills       \* bound: fills of the session

ASSUME BoundsAssumption == Buys \cup Sells \subseteq Nat \ {0} /\ MaxFills \in Nat

\* normalizeFill: by whether the broker states the profit of the fill, and its sign.
ClosedTypes == {"trade_closed", "trade_closed_win", "trade_closed_loss"}

\* One fill is one body, however often it is delivered.
ASSUME EventAssumption == EventType \in [1..MaxFills -> ClosedTypes]

VARIABLES
    fills,   \* what was executed at the broker, in order
    rows     \* NormalizedTradeEvent

\* normalizeSide: a buy adds to the position, anything else takes away.
Deltas == Buys \cup {-q : q \in Sells}
Fill == [contract : Contracts, delta : Deltas]
Ids == 1..Len(fills)

\* The unique index is on (account, eventType, externalTradeId): a fill may have a
\* row of the sync and one of the webhook.
Row == {r \in [id : 1..MaxFills, kind : {"fill"} \cup ClosedTypes] :
          r.kind \in {"fill", EventType[r.id]}}
Stored == {r.id : r \in rows}

FillsTypeOK ==
    /\ fills \in Seq(Fill) /\ Len(fills) <= MaxFills
    /\ rows \subseteq Row

FillsInit == fills = <<>> /\ rows = {}

\* The trader's orders are executed.
Trade(contract, delta) ==
    /\ Len(fills) < MaxFills
    /\ fills' = Append(fills, [contract |-> contract, delta |-> delta])

Sign(n) == IF n > 0 THEN 1 ELSE IF n < 0 THEN -1 ELSE 0
Magnitude(n) == n * Sign(n)

-----------------------------------------------------------------------------
(* Counting stored fills: classifyFill, canonical-trade-count *)

ClassifyFill(position, delta) ==
    LET next == position + delta
    IN  IF position = 0 /\ next # 0 THEN "entry"
        ELSE IF next # 0 /\ Sign(position) # Sign(next) THEN "reversal"
        ELSE IF Sign(position) = Sign(next) /\ Magnitude(next) > Magnitude(position)
             THEN "scale_in"
        ELSE "reduction"

\* Mutant: the two rows of a fill are both counted.
Deduplicated_Not(events) ==
    SetToSortSeq(events, LAMBDA a, b : a.id < b.id \/ (a.id = b.id /\ a.kind = "fill"
                                                      /\ b.kind # "fill"))

\* The k-th of a set of numbers: the one with k of them up to it.
Kth(numbers, k) == CHOOSE i \in numbers : Cardinality({j \in numbers : j <= i}) = k

\* One fill per id, sorted by time and id.
Deduplicated(events) ==
    LET ids == {r.id : r \in events}
    IN  [k \in 1..Cardinality(ids) |-> [id |-> Kth(ids, k), kind |-> "fill"]]

\* Mutant: a partial exit completes a trade.
Completes_PartialToo(position, delta) ==
    ClassifyFill(position, delta) \in {"reversal", "reduction"}

\* Whether a fill that finds this position completes a trade: it returns to flat or
\* crosses it.
Completes(position, delta) ==
    LET class == ClassifyFill(position, delta)
    IN  class = "reversal" \/ (class = "reduction" /\ position + delta = 0)

\* What the walk over a contract's fills has accumulated before event k.
Position(events, k) ==
    FoldLeft(LAMBDA p, r : p + (IF fills[r.id].contract = fills[events[k].id].contract
                                THEN fills[r.id].delta ELSE 0),
             0, SubSeq(events, 1, k - 1))

\* deriveCanonicalCompletedCount and deriveCanonicalEntryCount, over sorted fills.
CompletedAt(events) ==
    {k \in DOMAIN events : Completes(Position(events, k), fills[events[k].id].delta)}
Completed(events) == Cardinality(CompletedAt(events))
Entries(events) ==
    Cardinality({k \in DOMAIN events :
                   ClassifyFill(Position(events, k), fills[events[k].id].delta)
                     \in {"entry", "reversal"}})

\* countCanonicalEntries
CanonicalCount == Completed(Deduplicated(rows))

-----------------------------------------------------------------------------
(* The broker *)

\* The position of fills `ids' in contract c after fill i.
Held(ids, c, i) ==
    MapThenSumSet(LAMBDA j : fills[j].delta,
                  {j \in ids : j <= i /\ fills[j].contract = c})

\* The reference for every count: among the fills `ids', those that end a trade,
\* leaving a position that was held at nothing or on the other side.
Trips(ids) ==
    {i \in ids : LET c == fills[i].contract
                     before == Held(ids, c, i - 1)
                     after == Held(ids, c, i)
                 IN  before # 0 /\ Sign(after) \in {0, -Sign(before)}}

\* Those that open a position, from nothing or from the other side.
Openings(ids) ==
    {i \in ids : LET c == fills[i].contract
                     before == Held(ids, c, i - 1)
                     after == Held(ids, c, i)
                 IN  after # 0 /\ Sign(before) \in {0, -Sign(after)}}

-----------------------------------------------------------------------------

\* What is stored is counted right, though fills are missing, stored in any order
\* or stored by both paths: the canonical count is the number of trades completed
\* among the fills known.
CanonicalCountIsRight ==
    /\ CanonicalCount = Cardinality(Trips(Stored))
    /\ Entries(Deduplicated(rows)) = CanonicalCount
         + Cardinality({c \in Contracts : Held(Stored, c, MaxFills) # 0})

=============================================================================
