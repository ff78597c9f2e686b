------------------------- MODULE EnforcementLedger -------------------------
(***************************************************************************)
(* What the enforcement of locks keeps to for each dedup key (account,     *)
(* rule, trading day), however many calls overlap and whichever of them    *)
(* die.  A call needs a turn to ask the broker; a turn is given at the     *)
(* look at the key's outcome, never once a lock is entered there; a call   *)
(* asks at most once in its turn, and only a call that has asked enters a  *)
(* lock.  The outcome that was there when the turn was given decides what  *)
(* it allows: a first turn, given on a key without outcome, leaves any     *)
(* outcome alone that another call has entered meanwhile.                  *)
(*                                                                         *)
(* It does not say that one turn is given at a time: two calls may look    *)
(* before either enters, and then both ask.                                *)
(***************************************************************************)
CONSTANTS Calls, Keys

VARIABLES
    turns,     \* the turns now taken
    outcome    \* per key, the outcome last entered

vars == <<turns, outcome>>

Init == turns = {} /\ outcome = [k \in Keys |-> "none"]

Turn(c, k, first, asked) == [call |-> c, key |-> k, first |-> first, asked |-> asked]

Grant(c, k) ==
    /\ \A t \in turns : t.call # c
    /\ outcome[k] # "broker_locked"
    /\ turns' = turns \cup {Turn(c, k, outcome[k] = "none", FALSE)}
    /\ UNCHANGED outcome

Ask(t) ==
    /\ ~t.asked
    /\ turns' = (turns \ {t}) \cup {Turn(t.call, t.key, t.first, TRUE)}
    /\ UNCHANGED outcome

\* The turn ends with an outcome entered.
Enter(t, result) ==
    /\ t.first => outcome[t.key] = "none"
    /\ result = "broker_locked" => t.asked
    /\ outcome' = [outcome EXCEPT ![t.key] = result]
    /\ turns' = turns \ {t}

\* The turn ends without: the process died, the key was taken, the row goes
\* without a key.
Leave(t) == turns' = turns \ {t} /\ UNCHANGED outcome

Next == \/ \E c \in Calls, k \in Keys : Grant(c, k)
        \/ \E t \in turns : \/ Ask(t)
                            \/ \E result \in {"broker_locked", "dry_run", "failed"} :
                                  Enter(t, result)
                            \/ Leave(t)

Spec == Init /\ [][Next]_vars
=============================================================================
