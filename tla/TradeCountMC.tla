----------------------------- MODULE TradeCountMC -----------------------------
(* The instance TLC checks: the broker states the profit of the second fill, *)
(* and not that of the others, so a trade may complete with and without.     *)
EXTENDS TradeCount

MCEventType == [i \in 1..MaxFills |->
                  IF i = 2 THEN "trade_closed_loss" ELSE "trade_closed"]
=============================================================================
