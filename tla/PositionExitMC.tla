--------------------------- MODULE PositionExitMC ---------------------------
(* The instance TLC checks: one product, whose position is over the limit. *)
EXTENDS PositionExit

MCLots == [CL |-> 2]
MCLimits == Rule(1, [s \in {} |-> 0])

Ready == [permission |-> "full_access", status |-> "connected_live",
          granted |-> TRUE, dryRun |-> FALSE, orderActions |-> TRUE]

\* Armed; an unprobed token that does not cover orders, behind a connection that has
\* seen no webhook; a read-only one behind a dead connection; a dry run; a server
\* without order actions.
MCEnvironments ==
    {Ready,
     [Ready EXCEPT !.permission = "unknown", !.granted = FALSE,
                   !.status = "connected_readonly"],
     [Ready EXCEPT !.permission = "read_only", !.granted = FALSE, !.status = "expired"],
     [Ready EXCEPT !.orderActions = FALSE],
     [Ready EXCEPT !.orderActions = FALSE, !.dryRun = TRUE]}
=============================================================================
