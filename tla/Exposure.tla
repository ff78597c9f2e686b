------------------------------ MODULE Exposure ------------------------------
(***************************************************************************)
(* The maximum position size rule, as lib/brokers/position-exposure.ts     *)
(* decides it: pure functions of the open positions and of the trader's    *)
(* limits.                                                                 *)
(*                                                                         *)
(* `positions' is a function from symbol roots to net lots, negative when  *)
(* short.  The registry is the crude-oil family of lib/futures/contracts   *)
(* (a standard, a mini and a micro contract of one parent); a root outside *)
(* it is a symbol Guardrail cannot classify.  Exposure is counted in       *)
(* thousandths of a standard contract, as in the code.                     *)
(***************************************************************************)
EXTENDS Integers, Functions

\* exposureRatioToParent of each root, in thousandths.
Registry == [CL |-> 1000, QM |-> 500, MCL |-> 100]

NoLimit == 0   \* a limit that is null, or not positive, is no rule

\* A rule: the global limit in standard contracts, and raw lots for some roots.
Rule(max, limits) == [max |-> max, limits |-> limits]

Magnitude(n) == IF n < 0 THEN -n ELSE n

Opened(positions) == {s \in DOMAIN positions : positions[s] # 0}
Classified(positions) == Opened(positions) \cap DOMAIN Registry
Unsupported(positions) == Opened(positions) \ DOMAIN Registry

\* Long and short lots weigh the same and never offset each other.
Millis(positions, s) == Magnitude(positions[s]) * Registry[s]

TotalMillis(positions) ==
    FoldFunctionOnSet(+, 0, [s \in Classified(positions) |-> Millis(positions, s)],
                      Classified(positions))

\* Without per-symbol limits: the sum over all positions against the global limit.
AggregateBreach(positions, rule) ==
    /\ rule.max > NoLimit
    /\ \/ Unsupported(positions) # {}
       \/ TotalMillis(positions) > rule.max * 1000

\* The limit that governs one root: its own raw lots, else the global limit.
LimitMillis(s, rule) ==
    IF s \in DOMAIN rule.limits THEN rule.limits[s] * Registry[s] ELSE rule.max * 1000
Governed(s, rule) == s \in DOMAIN rule.limits \/ rule.max > NoLimit

\* With per-symbol limits: each root by itself, and no sum over roots.
PerSymbolBreach(positions, rule) ==
    \/ Unsupported(positions) # {}
    \/ \E s \in Classified(positions) :
          Governed(s, rule) /\ Millis(positions, s) > LimitMillis(s, rule)

\* deriveMaxPositionSizeBreach(...).shouldTrigger
MaxPositionSizeBreach(positions, rule) ==
    IF DOMAIN rule.limits # {} THEN PerSymbolBreach(positions, rule)
    ELSE AggregateBreach(positions, rule)
=============================================================================
