--------------------------- MODULE TradeHistoryMC ---------------------------
(* The instance TLC checks: prices and fees that tell any two fills apart.  The  *)
(* history does not look at the type of a row.                                   *)
EXTENDS TradeHistory

MCPrice == [i \in 1..MaxFills |-> i * i]
MCFee == [i \in 1..MaxFills |-> i]
MCEventType == [i \in 1..MaxFills |-> "trade_closed"]
=============================================================================
