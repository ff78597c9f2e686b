---------------------------- MODULE TradeHistory ----------------------------
(***************************************************************************)
(* The trade history: the round trips reconstructed from the stored fills, *)
(* merged with those of the broker's Fills report, first in first out.     *)
(* Pure functions of what is stored; the actions below only bring about    *)
(* every way in which fills and orders can have been stored and reported.  *)
(*                                                                         *)
(* Money is counted in points: a point is worth one.  The broker's own P&L *)
(* of a fill, which replaces the computed one where there is one, is left  *)
(* out.                                                                    *)
(***************************************************************************)
EXTENDS Fills

CONSTANTS
    Price, Fee,   \* of each fill by its number: its price, its fee per contract
    MaxOrders     \* bound: orders stored

ASSUME MoneyAssumption == {Price, Fee} \subseteq [1..MaxFills -> Int]

VARIABLES
    ordered,    \* fills whose order has a row of its own, trade_opened, with a price
    reported    \* fills in the broker's Fills report

historyVars == <<fills, rows, ordered, reported>>

HistoryInit == FillsInit /\ ordered = {} /\ reported = {}

Executed(contract, delta) ==
    /\ Trade(contract, delta)
    /\ UNCHANGED <<rows, ordered, reported>>

\* A sync or a webhook stores a fill, whatever the other has done.
Store(i, kind) ==
    /\ [id |-> i, kind |-> kind] \notin rows
    /\ rows' = rows \cup {[id |-> i, kind |-> kind]}
    /\ UNCHANGED <<fills, ordered, reported>>

\* The webhook stores a limit order.  The order of a fill that is in no row itself
\* looks like one that was never executed.
StoreOrder(i) ==
    /\ i \notin ordered
    /\ Cardinality(ordered) < MaxOrders
    /\ ordered' = ordered \cup {i}
    /\ UNCHANGED <<fills, rows, reported>>

\* The Fills report is fetched: it lists what was executed until then.
Report ==
    /\ reported # Ids
    /\ reported' = Ids
    /\ UNCHANGED <<fills, rows, ordered>>

HistoryNext ==
    \/ \E c \in Contracts, d \in Deltas : Executed(c, d)
    \/ Report
    \/ \E i \in Ids : \/ StoreOrder(i)
                      \/ \E kind \in {"fill", EventType[i]} : Store(i, kind)

HistorySpec == HistoryInit /\ [][HistoryNext]_historyVars

-----------------------------------------------------------------------------
(* What is reconstructed: loadAccountFillInputs, reconstructMergedTrades *)

\* All rows of the account that have a side, a quantity and a price, whatever their
\* type: both of a fill that both paths stored, and those of orders; and the reported
\* fills that have no row.
Events == rows \cup {[id |-> i, kind |-> "trade_opened"] : i \in ordered}
               \cup {[id |-> i, kind |-> "report"] : i \in reported \ Stored}

\* Sorted by time and id; an order comes before its fill.
Place(event) == 3 * event.id + (IF event.kind = "trade_opened" THEN 0
                                ELSE IF event.kind = "fill" THEN 1 ELSE 2)
Merged ==
    LET places == {Place(e) : e \in Events}
    IN  [k \in 1..Cardinality(places) |->
           CHOOSE e \in Events : Place(e) = Kth(places, k)]

\* contractKey: a reported fill has no contract id and is matched by its symbol.
ContractKey(event) ==
    <<fills[event.id].contract, IF event.kind = "report" THEN "sym" ELSE "cid">>

ContractKeys == Contracts \X {"cid", "sym"}

\* Neither an order nor the Fills report has fees: they count as nothing.
FeePerUnit(event) == IF event.kind \in {"report", "trade_opened"} THEN 0 ELSE Fee[event.id]

\* What the walk meets at its k-th step.
KeyAt(k) == ContractKey(Merged[k])
DeltaAt(k) == fills[Merged[k].id].delta
PriceAt(k) == Price[Merged[k].id]
FeeAt(k) == FeePerUnit(Merged[k])

-----------------------------------------------------------------------------
(* reconstructRoundTrips.  Each fill opens at most one lot, so a queue of   *)
(* lots is kept as what is left of each fill: the fills of a contract with  *)
(* something left, in their order.                                          *)

OpenLots(book, key) == {j \in DOMAIN book.left : KeyAt(j) = key /\ book.left[j] > 0}

\* Mutant: the newest lots are closed first.
Taken_NewestFirst(left, lots, qty) ==
    [j \in lots |->
       Min({left[j], Max({0, qty - SumFunctionOnSet(left, {i \in lots : i > j})})})]

\* How much of each lot is consumed when qty is closed, from the front of the queue.
Taken(left, lots, qty) ==
    [j \in lots |->
       Min({left[j], Max({0, qty - SumFunctionOnSet(left, {i \in lots : i < j})})})]

\* Mutant: the closing fee is charged whole to the trade closed by a reversal.
ClosedTrade_WholeFee(book, k, taken, qty) ==
    LET gain == [j \in DOMAIN taken |-> taken[j] * (PriceAt(k) - PriceAt(j))]
        fee == [j \in DOMAIN taken |-> taken[j] * FeeAt(j)]
    IN  [exit |-> Merged[k].id,
         pnl |-> book.side[KeyAt(k)] * SumFunction(gain),
         fees |-> SumFunction(fee) + FeeAt(k) * Magnitude(DeltaAt(k)),
         flat |-> \A j \in DOMAIN taken : taken[j] = book.left[j]]

\* The trade that closing qty yields: its profit against the lots consumed, their
\* share of the entry fees and that of the closing fill.
ClosedTrade(book, k, taken, qty) ==
    LET gain == [j \in DOMAIN taken |-> taken[j] * (PriceAt(k) - PriceAt(j))]
        fee == [j \in DOMAIN taken |-> taken[j] * FeeAt(j)]
    IN  [exit |-> Merged[k].id,
         pnl |-> book.side[KeyAt(k)] * SumFunction(gain),
         fees |-> SumFunction(fee) + FeeAt(k) * qty,
         flat |-> \A j \in DOMAIN taken : taken[j] = book.left[j]]

\* One fill against the open lots of its contract.  Every exit yields a trade, a
\* partial one too; a reversal closes all lots and opens the rest on the other side.
AfterFill(book, k) ==
    LET key == KeyAt(k)
        lots == OpenLots(book, key)
        open == SumFunctionOnSet(book.left, lots)
        class == ClassifyFill(book.side[key] * open, DeltaAt(k))
        closed == CASE class = "reduction" -> Magnitude(DeltaAt(k))
                    [] class = "reversal" -> open
                    [] OTHER -> 0
        taken == Taken(book.left, lots, closed)
    IN  [left |-> [j \in DOMAIN book.left |->
                     IF j = k THEN Magnitude(DeltaAt(k)) - closed
                     ELSE IF j \in lots THEN book.left[j] - taken[j]
                     ELSE book.left[j]],
         side |-> IF class \in {"entry", "reversal"}
                  THEN [book.side EXCEPT ![key] = Sign(DeltaAt(k))] ELSE book.side,
         trades |-> IF class \in {"reduction", "reversal"}
                    THEN Append(book.trades, ClosedTrade(book, k, taken, closed))
                    ELSE book.trades]

NoBook == [left |-> [j \in DOMAIN Merged |-> 0],
           side |-> [key \in ContractKeys |-> 1],
           trades |-> <<>>]

\* The walk over the first k fills, and over all of them.
Books[k \in 0..Len(Merged)] == IF k = 0 THEN NoBook ELSE AfterFill(Books[k - 1], k)
Book == Books[Len(Merged)]

-----------------------------------------------------------------------------
(* Properties *)

\* Every fill known from one source only, and no order among the rows.  The code
\* guarantees neither: the index tells a row of the sync from one of the webhook, and
\* the query of the history does not look at the type.
KnownOnce == Cardinality(rows) = Cardinality(Stored) /\ ordered = {}

\* No money is lost or counted twice, over partial exits, scale-ins and reversals: what
\* the trades made and what the open lots cost is the cash that changed hands in the
\* fills known, and each of their fees is in one trade or rides with an open lot
\* ("Attribute only the closed-portion share to this round trip; the remainder rides
\* with the newly-opened opposite lot", round-trips.ts); as long as each fill is known
\* once.
MoneyIsAccountedFor ==
    KnownOnce =>
      LET book == Book
          Known == Stored \cup reported
          Made == [n \in DOMAIN book.trades |-> book.trades[n].pnl]
          Charged == [n \in DOMAIN book.trades |-> book.trades[n].fees]
          Cost == [k \in DOMAIN Merged |-> book.side[KeyAt(k)] * book.left[k] * PriceAt(k)]
          Carried == [k \in DOMAIN Merged |-> book.left[k] * FeeAt(k)]
          Received == [i \in Known |-> -fills[i].delta * Price[i]]
          Paid == [i \in Stored |-> Magnitude(fills[i].delta) * Fee[i]]
      IN  /\ SumFunction(Made) = SumFunction(Received) + SumFunction(Cost)
          /\ SumFunction(Charged) + SumFunction(Carried) = SumFunction(Paid)

\* First in, first out ("each exit fill consumes lots from the front of the queue",
\* round-trips.ts): what is open at the end are the last units bought of a long
\* position, the last sold of a short one.
OpenLotsAreTheNewest ==
    LET book == Book
        Delta == [k \in DOMAIN Merged |-> DeltaAt(k)]
        Units == [k \in DOMAIN Merged |-> Magnitude(DeltaAt(k))]
    IN  \A key \in ContractKeys :
          LET mine == {k \in DOMAIN Merged : KeyAt(k) = key}
              position == SumFunctionOnSet(Delta, mine)
              opening == {k \in mine : Sign(DeltaAt(k)) = Sign(position)}
              later(k) == SumFunctionOnSet(Units, {j \in opening : j > k})
              newest(k) == IF k \in opening
                           THEN Min({Units[k], Max({0, Magnitude(position) - later(k)})})
                           ELSE 0
          IN  \A k \in mine : book.left[k] = newest(k)

\* The fills that take from a position held, in part, whole or beyond.
Exits(ids) ==
    {i \in ids : LET before == Held(ids, fills[i].contract, i - 1)
                 IN  Sign(fills[i].delta) = -Sign(before)}

\* The history shows one trade for each exit, a partial one too ("partial exit emits
\* one trade; remaining exit emits a second", round-trips.test.ts); the trades that the
\* limit counts are those among them that left nothing open.  So the two walks over the
\* same fills agree on when a position has ended, as long as each fill is known once,
\* by its row.
HistoryAgreesWithCount ==
    KnownOnce /\ reported \subseteq Stored =>
      LET trades == Book.trades
          Flat == {n \in DOMAIN trades : trades[n].flat}
      IN  /\ Len(trades) = Cardinality(Exits(Stored))
          /\ {trades[n].exit : n \in DOMAIN trades} = Exits(Stored)
          /\ {trades[n].exit : n \in Flat}
               = {Deduplicated(rows)[k].id : k \in CompletedAt(Deduplicated(rows))}

=============================================================================
