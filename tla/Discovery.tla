----------------------------- MODULE Discovery -----------------------------
(***************************************************************************)
(* Which of the user's broker accounts the program knows of, and through   *)
(* which BrokerConnection it reaches them.                                 *)
(*                                                                         *)
(* A discovery fetches the broker's list over one connection, reads the    *)
(* user's ConnectedAccount rows and writes the differences one row at a    *)
(* time; several may run at once (the cron, a dashboard, a settings page), *)
(* over one connection or two.  Meanwhile the user authorizes connections, *)
(* picks accounts, reconnects, reattaches and removes, each a handler that *)
(* reads first and writes later.  The two connections belong to one broker *)
(* login, so both list the same accounts.                                  *)
(***************************************************************************)
EXTENDS Naturals

CONSTANTS
    Accounts,      \* externalAccountId, unique among the user's rows
    Connections,   \* ids of BrokerConnection rows
    First, Known,  \* the connection and the accounts guarded at the start
    Runs,          \* discoveries that may be under way at once
    None,          \* no connection, no account in hand
    MaxEvents      \* bound: requests, expiries, crashes, changes at the broker

ASSUME DiscoveryAssumption ==
    /\ First \in Connections
    /\ Known \subseteq Accounts
    /\ None \notin Connections \cup Accounts
    /\ MaxEvents \in Nat

VARIABLES
    roster,    \* what /account/list says of each account
    conns,     \* each connection
    rows,      \* the ConnectedAccount row of each account
    runs,      \* the discoveries
    setup,     \* the connection being set up: what the user picked for it
    request,   \* any other request of the user being handled
    events     \* how many events there have been

vars == <<roster, conns, rows, runs, setup, request, events>>

Listings == {"active", "inactive", "gone"}
ConnStates == {"none", "usable", "expired", "deleted"}

\* "guarded" is protected or monitor_only, "undecided" pending_decision or ignored,
\* "removed" a row with isActive = FALSE that was not archived before.
Statuses == {"absent", "undecided", "guarded", "archived", "removed"}
Rows == [link : Connections \cup {None}, status : Statuses,
         missing : BOOLEAN,    \* missingFromBrokerSince is set
         expired : BOOLEAN]    \* connectionStatus is "expired"
NoRow == [link |-> None, status |-> "absent", missing |-> FALSE, expired |-> FALSE]
Linked(c, status) == [NoRow EXCEPT !.link = c, !.status = status]

NoRun == [step |-> "idle", conn |-> None, list |-> [a \in Accounts |-> "gone"],
          claim |-> {}, clear |-> {}, create |-> {}, flag |-> {}]
RunStates == [step : {"idle", "listed", "write"}, conn : Connections \cup {None},
              list : [Accounts -> Listings],
              claim : SUBSET Accounts, clear : SUBSET Accounts,
              create : SUBSET Accounts, flag : SUBSET Accounts]

NoSetup == [op |-> "idle", conn |-> None, left |-> {}, at |-> None]
Setups == [op : {"idle", "find", "create", "update"}, conn : Connections \cup {None},
           left : SUBSET Accounts, at : Accounts \cup {None}]

NoRequest == [op |-> "idle", conn |-> None, left |-> {}]
Requests == [op : {"idle", "heal", "sweep", "attach", "archive", "delete"},
             conn : Connections \cup {None}, left : SUBSET Accounts]

TypeOK ==
    /\ roster \in [Accounts -> Listings]
    /\ conns \in [Connections -> ConnStates]
    /\ rows \in [Accounts -> Rows]
    /\ runs \in [Runs -> RunStates]
    /\ setup \in Setups
    /\ request \in Requests
    /\ events \in 0..MaxEvents

\* One connection guards accounts; another may have been authorized without them.
Init ==
    /\ roster \in {f \in [Accounts -> {"active", "gone"}] :
                     \A a \in Known : f[a] = "active"}
    /\ conns \in {f \in [Connections -> {"none", "usable"}] : f[First] = "usable"}
    /\ rows = [a \in Accounts |-> IF a \in Known THEN Linked(First, "guarded") ELSE NoRow]
    /\ runs = [r \in Runs |-> NoRun]
    /\ setup = NoSetup
    /\ request = NoRequest
    /\ events = 0

Event == events < MaxEvents /\ events' = events + 1

Exists(c) == conns[c] \in {"usable", "expired"}
Holds(c, statuses) == \E a \in Accounts : rows[a].link = c /\ rows[a].status \in statuses

-----------------------------------------------------------------------------
(* decideReconciliation *)

\* Mutant: an account without a connection stays without.
Claimed_Own(c, list) ==
    {a \in Accounts : /\ list[a] # "gone"
                      /\ rows[a].status # "absent"
                      /\ rows[a].link = c}

\* Listed rows that are written this connection: those that have it, where nothing
\* changes unless they are moved meanwhile, and those that have none.
Claimed(c, list) ==
    {a \in Accounts : /\ list[a] # "gone"
                      /\ rows[a].status # "absent"
                      /\ rows[a].link \in {None, c}}

Cleared(list) == {a \in Accounts : list[a] = "active" /\ rows[a].missing}
New(list) == {a \in Accounts : list[a] = "active" /\ rows[a].status = "absent"}

\* Mutant: an account the broker lists as inactive is not missing.
Flagged_Gone(c, list) ==
    {a \in Accounts : /\ list[a] = "gone"
                      /\ rows[a].link = c
                      /\ rows[a].status # "archived"
                      /\ ~rows[a].missing}

\* Rows of this connection, archived ones left alone, that are not listed active.
Flagged(c, list) ==
    {a \in Accounts : /\ list[a] # "active"
                      /\ rows[a].link = c
                      /\ rows[a].status # "archived"
                      /\ ~rows[a].missing}

-----------------------------------------------------------------------------
(* runDiscoveryForConnection.  It asks nothing of the connection's status, and a *)
(* fetch that fails or is refused changes nothing.                             *)

\* The cron keeps to working connections; the button of one account runs a discovery
\* over whatever connection the account has, and an expired one may still answer.
Fetch(r, c) ==
    /\ runs[r].step = "idle"
    /\ Exists(c)
    /\ conns[c] = "expired" => Event
    /\ conns[c] = "usable" => UNCHANGED events
    /\ runs' = [runs EXCEPT ![r] = [NoRun EXCEPT !.step = "listed", !.conn = c,
                                                 !.list = roster]]
    /\ UNCHANGED <<roster, conns, rows, setup, request>>

\* Nothing left to write.
Settled(run) == IF run.claim \cup run.clear \cup run.create \cup run.flag = {}
                THEN NoRun ELSE run

Read(r) ==
    /\ runs[r].step = "listed"
    /\ LET run == runs[r]
       IN  runs' = [runs EXCEPT ![r] = Settled(
             [NoRun EXCEPT !.step = "write", !.conn = run.conn,
                           !.claim = Claimed(run.conn, run.list),
                           !.clear = Cleared(run.list),
                           !.create = New(run.list),
                           !.flag = Flagged(run.conn, run.list)])]
    /\ UNCHANGED <<roster, conns, rows, setup, request, events>>

\* A run writes a row and goes on.
Write(r, a, row, run) ==
    /\ rows' = [rows EXCEPT ![a] = row]
    /\ runs' = [runs EXCEPT ![r] = Settled(run)]

\* The database refuses; the rest of the run is dropped.
Abort(r) == runs' = [runs EXCEPT ![r] = NoRun] /\ UNCHANGED rows

\* The matched rows first.  A connection deleted meanwhile is a broken foreign key.
WriteMatched(r, a) ==
    LET run == runs[r]
        row == [rows[a] EXCEPT !.link = IF a \in run.claim THEN run.conn ELSE @,
                               !.missing = @ /\ a \notin run.clear]
    IN  /\ a \in run.claim \cup run.clear
        /\ IF a \in run.claim /\ ~Exists(run.conn) THEN Abort(r)
           ELSE Write(r, a, row, [run EXCEPT !.claim = @ \ {a}, !.clear = @ \ {a}])
        /\ UNCHANGED <<roster, conns, setup, request, events>>

\* Then the new ones, as pending_decision.  A row created meanwhile is a duplicate.
Create(r, a) ==
    LET run == runs[r]
    IN  /\ run.claim \cup run.clear = {}
        /\ a \in run.create
        /\ IF rows[a].status # "absent" \/ ~Exists(run.conn) THEN Abort(r)
           ELSE Write(r, a, Linked(run.conn, "undecided"), [run EXCEPT !.create = @ \ {a}])
        /\ UNCHANGED <<roster, conns, setup, request, events>>

\* Then the missing ones.
Flag(r, a) ==
    LET run == runs[r]
    IN  /\ run.claim \cup run.clear \cup run.create = {}
        /\ a \in run.flag
        /\ Write(r, a, [rows[a] EXCEPT !.missing = TRUE], [run EXCEPT !.flag = @ \ {a}])
        /\ UNCHANGED <<roster, conns, setup, request, events>>

RunStep(r) == \/ Read(r)
              \/ \E a \in Accounts : WriteMatched(r, a) \/ Create(r, a) \/ Flag(r, a)

RunDies(r) ==
    /\ runs[r].step # "idle"
    /\ Event
    /\ runs' = [runs EXCEPT ![r] = NoRun]
    /\ UNCHANGED <<roster, conns, rows, setup, request>>

-----------------------------------------------------------------------------
(* OAuth *)

\* The callback stores a new connection and the list it fetched; the user picks
\* from the list, now or later, or lets the setup lapse.
Authorize(c) ==
    /\ conns[c] = "none"
    /\ setup.op = "idle"
    /\ Event
    /\ conns' = [conns EXCEPT ![c] = "usable"]
    /\ \E picked \in SUBSET {a \in Accounts : roster[a] # "gone"} :
         setup' = IF picked = {} THEN NoSetup
                  ELSE [NoSetup EXCEPT !.op = "find", !.conn = c, !.left = picked]
    /\ UNCHANGED <<roster, rows, runs, request>>

\* POST .../finalize, account by account: look for the row ...
Find(a) ==
    /\ setup.op = "find"
    /\ a \in setup.left
    /\ setup' = [setup EXCEPT !.op = IF rows[a].status = "absent" THEN "create" ELSE "update",
                              !.left = @ \ {a}, !.at = a]
    /\ UNCHANGED <<roster, conns, rows, runs, request, events>>

\* ... and update it, or create it.  The database refuses if the connection has been
\* deleted, or if the row to create is there by now; what was saved stays.
Save ==
    /\ setup.op \in {"create", "update"}
    /\ IF \/ ~Exists(setup.conn)
          \/ setup.op = "create" /\ rows[setup.at].status # "absent"
       THEN setup' = NoSetup /\ UNCHANGED rows
       ELSE /\ rows' = [rows EXCEPT ![setup.at] = Linked(setup.conn, "guarded")]
            /\ setup' = IF setup.left = {} THEN NoSetup
                        ELSE [setup EXCEPT !.op = "find", !.at = None]
    /\ UNCHANGED <<roster, conns, runs, request, events>>

Ask(op, c, left) ==
    /\ request.op = "idle"
    /\ Event
    /\ request' = [op |-> op, conn |-> c, left |-> left]

\* What a fresh token, or a probe of the connection, does to the accounts on it.
Healed(c) == [a \in Accounts |-> [rows[a] EXCEPT !.expired =
                 @ /\ ~(rows[a].link = c /\ ~rows[a].missing)]]

\* The callback of a reconnect stores the token, heals the accounts ...
Reconnect(c) ==
    /\ Exists(c)
    /\ Ask("heal", c, {})
    /\ conns' = [conns EXCEPT ![c] = "usable"]
    /\ UNCHANGED <<roster, rows, runs, setup>>

Heal ==
    /\ request.op = "heal"
    /\ rows' = Healed(request.conn)
    /\ request' = [request EXCEPT !.op = "sweep"]
    /\ UNCHANGED <<roster, conns, runs, setup, events>>

\* ... and looks for another expired connection that no account uses, to delete it.
Sweep ==
    /\ request.op = "sweep"
    /\ \/ \E d \in Connections \ {request.conn} :
            /\ conns[d] = "expired"
            /\ ~Holds(d, Statuses)
            /\ request' = [request EXCEPT !.op = "delete", !.conn = d]
       \/ /\ \A d \in Connections \ {request.conn} :
               conns[d] = "expired" => Holds(d, Statuses)
          /\ request' = NoRequest
    /\ UNCHANGED <<roster, conns, rows, runs, setup, events>>

-----------------------------------------------------------------------------
(* Moving and removing *)

\* reattach: the accounts of a connection that does not work go to one that does.
Reattach(c) ==
    /\ conns[c] = "usable"
    /\ \E d \in Connections \ {c} :
         /\ conns[d] = "expired"
         /\ Holds(d, Statuses)
         /\ Ask("attach", c, {a \in Accounts : rows[a].link = d})
    /\ UNCHANGED <<roster, conns, rows, runs, setup>>

Attach(a) ==
    /\ request.op = "attach"
    /\ a \in request.left
    /\ rows' = [rows EXCEPT ![a].link = request.conn]
    /\ request' = IF request.left = {a} THEN NoRequest
                  ELSE [request EXCEPT !.left = @ \ {a}]
    /\ UNCHANGED <<roster, conns, runs, setup, events>>

\* DELETE /api/broker-connections/[id]
DeleteConnection(c) ==
    /\ Exists(c)
    /\ ~Holds(c, {"undecided", "guarded"})
    /\ Ask("delete", c, {})
    /\ UNCHANGED <<roster, conns, rows, runs, setup>>

\* POST .../disconnect: every account is archived, or will be, ...
Disconnect(c) ==
    /\ Exists(c)
    /\ Ask("archive", c, {a \in Accounts : rows[a].link = c
                                           /\ rows[a].status \in {"undecided", "guarded"}})
    /\ UNCHANGED <<roster, conns, rows, runs, setup>>

ArchiveNext ==
    /\ request.op = "archive"
    /\ \E a \in request.left :
         /\ request' = [request EXCEPT !.left = @ \ {a}]
         /\ \/ rows' = [rows EXCEPT ![a].status = "archived"]
            \/ UNCHANGED rows    \* scheduled
    /\ UNCHANGED <<roster, conns, runs, setup, events>>

\* ... and the connection goes when none is left on it.
Count ==
    /\ request.op = "archive"
    /\ request.left = {}
    /\ request' = IF Holds(request.conn, {"undecided", "guarded"}) THEN NoRequest
                  ELSE [request EXCEPT !.op = "delete"]
    /\ UNCHANGED <<roster, conns, rows, runs, setup, events>>

\* The database unlinks whatever is still linked (onDelete: SetNull).
Delete ==
    /\ request.op = "delete"
    /\ rows' = [a \in Accounts |-> [rows[a] EXCEPT !.link =
                 IF @ = request.conn THEN None ELSE @]]
    /\ conns' = [conns EXCEPT ![request.conn] = "deleted"]
    /\ request' = NoRequest
    /\ UNCHANGED <<roster, runs, setup, events>>

\* The protection routes, and DELETE /api/accounts/[id].
Decided(row, status) ==
    [row EXCEPT !.status = IF row.status = "archived" /\ status = "removed"
                           THEN "archived" ELSE status,
                !.expired = row.expired /\ status # "removed"]

Decide(a) ==
    /\ rows[a].status \notin {"absent", "removed"}
    /\ Event
    /\ \E status \in {"undecided", "guarded", "archived", "removed"} \ {rows[a].status} :
         rows' = [rows EXCEPT ![a] = Decided(rows[a], status)]
    /\ UNCHANGED <<roster, conns, runs, setup, request>>

-----------------------------------------------------------------------------
(* The broker, and the renewal of tokens (the subject of TokenRenewal)        *)

RosterChanges(a) ==
    /\ Event
    /\ \E listing \in Listings \ {roster[a]} : roster' = [roster EXCEPT ![a] = listing]
    /\ UNCHANGED <<conns, rows, runs, setup, request>>

Expire(c) ==
    /\ conns[c] = "usable"
    /\ Event
    /\ conns' = [conns EXCEPT ![c] = "expired"]
    /\ rows' = [a \in Accounts |-> [rows[a] EXCEPT !.expired = @ \/ rows[a].link = c]]
    /\ UNCHANGED <<roster, runs, setup, request>>

Renew(c) ==
    /\ conns[c] = "usable"
    /\ rows # Healed(c)
    /\ rows' = Healed(c)
    /\ UNCHANGED <<roster, conns, runs, setup, request, events>>

-----------------------------------------------------------------------------

Next ==
    \/ \E r \in Runs : \/ \E c \in Connections : Fetch(r, c)
                       \/ RunStep(r)
                       \/ RunDies(r)
    \/ \E c \in Connections : \/ Authorize(c) \/ Reconnect(c) \/ Reattach(c)
                              \/ DeleteConnection(c) \/ Disconnect(c)
                              \/ Expire(c) \/ Renew(c)
    \/ \E a \in Accounts : Find(a) \/ Attach(a) \/ Decide(a) \/ RosterChanges(a)
    \/ Save \/ Heal \/ Sweep \/ ArchiveNext \/ Count \/ Delete

Spec == Init /\ [][Next]_vars

\* The cron syncs the working connections that guard an account, and the broker does
\* not refuse it for ever; a discovery that has begun goes on; tokens are renewed
\* before they expire.
Due(c) == conns[c] = "usable" /\ Holds(c, {"guarded"})

Fairness ==
    /\ \A c \in Connections : /\ SF_vars(Due(c) /\ \E r \in Runs : Fetch(r, c))
                              /\ WF_vars(Renew(c))
    /\ \A r \in Runs : WF_vars(RunStep(r))

FairSpec == Spec /\ Fairness

-----------------------------------------------------------------------------
(* Properties *)

\* When the broker and the user come to rest, the rows of a synced connection say
\* what the broker says: not missing and not expired if it lists the account active,
\* missing otherwise, whatever discoveries raced, died or were refused before, and
\* whatever an expired connection that still answered had them write.
RosterIsMirrored ==
    <>[](\A a \in Accounts, c \in Connections :
           rows[a].link = c /\ Due(c) =>
             IF roster[a] = "active" THEN ~rows[a].missing /\ ~rows[a].expired
             ELSE rows[a].missing \/ rows[a].status = "archived")

\* And every active account has a row with a connection: one that is new at the
\* broker, one whose creation collided, one whose connection was deleted from
\* under it.
EveryAccountIsFound ==
    <>[]((\E c \in Connections : Due(c)) =>
           \A a \in Accounts : roster[a] = "active" => rows[a].link # None)

=============================================================================
