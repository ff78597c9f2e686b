---------------------------- MODULE TokenRenewal ----------------------------
(***************************************************************************)
(* The tokens of one BrokerConnection and who renews them.                 *)
(*   cron       POST /api/cron/renew-tradovate-tokens, every ten minutes   *)
(*   sync       syncTradovateConnection, before the account syncs; it was  *)
(*              selected earlier, the connection may have expired since    *)
(*   listener   getAccessTokenForConnection with forceRefresh, after the   *)
(*              broker rejected an authorize                               *)
(*   client     TradovateClient: initialize, then requests that may meet a *)
(*              401                                                        *)
(*   probe      runPermissionProbe, of which only the account heal matters *)
(*   reconnect  the OAuth callback of a user who authorises again          *)
(* The first three go through ensureTradovateAccessToken.  They all share  *)
(* one row, without a lock: each database write and each request to the    *)
(* broker is a step of its own.                                            *)
(*                                                                         *)
(* A refresh token is a number; the broker takes it once and hands out     *)
(* another (or leaves it in force).  Whether it takes an access token is a *)
(* choice.  Of the statuses, connected stands for connected_live and       *)
(* connected_readonly.  The linked accounts are present at the broker and  *)
(* have one status: all of these callers write them together.              *)
(***************************************************************************)
EXTENDS Integers, FiniteSets

CONSTANTS
    Calls,      \* processes, each of which calls again and again
    Kinds,      \* the callers in use
    MaxToken,   \* bound: refresh tokens ever issued
    MayFail,    \* TRUE: a process may die, a write may fail
    Timely,     \* TRUE: cron and calls keep pace with the tokens' ageing
    Crossing    \* TRUE: a user may authorise while a renewal has yet to store

Ensure == {"cron", "sync", "listener"}
AllKinds == Ensure \cup {"client", "probe", "reconnect"}

ASSUME KindsAssumption == Kinds \subseteq AllKinds
ASSUME MaxTokenAssumption == MaxToken \in Nat \ {0}
ASSUME SwitchAssumption == {MayFail, Timely, Crossing} \subseteq BOOLEAN

VARIABLES
    conn,       \* BrokerConnection.connectionStatus
    accounts,   \* connectionStatus of the linked accounts
    refresh,    \* refreshTokenEncrypted, 0 when null
    age,        \* what tokenExpiresAt and lastRenewedAt say of the access token
    call,       \* per process: kind, program counter and locals
    valid,      \* the broker: refresh tokens it will take
    minted,     \* the broker: refresh tokens issued so far
    lost        \* history: tokens issued that nobody will store

vars == <<conn, accounts, refresh, age, call, valid, minted, lost>>

-----------------------------------------------------------------------------

ConnStatuses == {"connected", "expired"}

\* first   more than 25 minutes to live, as connected: lastRenewedAt is null
\* new     renewed less than 60 s ago; fresh  more than 25 minutes to live
\* near    less than 25 minutes, more than 15; due  less than 15, or expired
\* Tokens live longer than an hour and shorter than the two hours of the cron's heal
\* window, so that new and fresh lie within it and due does not.
Ages == {"first", "new", "fresh", "near", "due"}

Tokens == 0..MaxToken   \* 0 is no token

\* `mem' is the refresh token loaded, `new' one received and not yet stored, `via'
\* the request that succeeded, `retry' a client on the renewal after a 401.
CallStates ==
    [kind : Kinds \cup {"none"},
     pc : {"idle", "select", "load", "renew", "grant", "store", "healConn",
           "healAccounts", "mark", "markAccounts", "ready", "retry", "adopt"},
     mem : Tokens, new : Tokens, via : {"renew", "grant"}, retry : BOOLEAN]
NoCall == [kind |-> "none", pc |-> "idle", mem |-> 0, new |-> 0, via |-> "renew",
           retry |-> FALSE]

TypeOK ==
    /\ conn \in ConnStatuses
    /\ accounts \in ConnStatuses
    /\ refresh \in Tokens
    /\ age \in Ages
    /\ call \in [Calls -> CallStates]
    /\ valid \subseteq 1..MaxToken
    /\ minted \in Tokens
    /\ lost \subseteq 1..MaxToken

\* A connection as the OAuth callback creates it.
Init ==
    /\ conn = "connected"
    /\ accounts = "connected"
    /\ refresh \in {0, 1}
    /\ age = "first"
    /\ call = [c \in Calls |-> NoCall]
    /\ valid = {refresh} \ {0}
    /\ minted = 1
    /\ lost = {}

In(c, kinds, pc) == call[c].pc = pc /\ call[c].kind \in kinds
Begins(c, kind) == kind \in Kinds /\ call[c].pc = "idle"
Goto(c, pc) == call' = [call EXCEPT ![c].pc = pc]
End(c) == call' = [call EXCEPT ![c] = NoCall]
Quiet == \A c \in Calls : call[c].pc = "idle"

\* Tokens received and not yet stored.
Held == {call[c].new : c \in Calls} \ {0}

-----------------------------------------------------------------------------
(* The cron, and the load of ensureTradovateAccessToken *)

Healable == conn = "expired" /\ age \in {"new", "fresh"}

\* The cron first heals: the connection, not its accounts.
CronHeal(c) ==
    /\ Begins(c, "cron")
    /\ conn' = IF Healable THEN "connected" ELSE conn
    /\ call' = [call EXCEPT ![c] = [NoCall EXCEPT !.kind = "cron", !.pc = "select"]]
    /\ UNCHANGED <<accounts, refresh, age, valid, minted, lost>>

\* Then it looks for connected connections within the look-ahead.
CronSelect(c) ==
    /\ In(c, {"cron"}, "select")
    /\ IF conn = "connected" /\ age \in {"near", "due"}
       THEN Goto(c, "load") ELSE End(c)
    /\ UNCHANGED <<conn, accounts, refresh, age, valid, minted, lost>>

\* The row is read; a token that is not due ends the call, unless forced.
Load(c, kind) ==
    /\ IF age = "due" \/ kind = "listener"
       THEN call' = [call EXCEPT ![c] =
              [NoCall EXCEPT !.kind = kind, !.pc = "renew", !.mem = refresh]]
       ELSE End(c)
    /\ UNCHANGED <<conn, accounts, refresh, age, valid, minted, lost>>

EnsureLoad(c) ==
    \/ In(c, {"cron"}, "load") /\ Load(c, "cron")
    \/ \E kind \in {"sync", "listener"} : Begins(c, kind) /\ Load(c, kind)

-----------------------------------------------------------------------------
(* TradovateClient *)

ClientLoad(c) ==
    /\ Begins(c, "client")
    /\ call' = [call EXCEPT ![c] =
         [NoCall EXCEPT !.kind = "client", !.mem = refresh,
                        !.pc = IF age = "due" THEN "renew" ELSE "ready"]]
    /\ UNCHANGED <<conn, accounts, refresh, age, valid, minted, lost>>

\* A request meets a 401 and renews with the tokens in memory.
ClientUnauthorized(c) ==
    /\ In(c, {"client"}, "ready")
    /\ call' = [call EXCEPT ![c] = [@ EXCEPT !.pc = "renew", !.retry = TRUE]]
    /\ UNCHANGED <<conn, accounts, refresh, age, valid, minted, lost>>

\* The request is made again: it passes, or a second 401 expires the connection,
\* or - where a 401 is tolerated - ends the call.
ClientRetry(c) ==
    /\ In(c, {"client"}, "retry")
    /\ \/ call' = [call EXCEPT ![c] = [@ EXCEPT !.pc = "ready", !.retry = FALSE]]
       \/ Goto(c, "mark")
       \/ End(c)
    /\ UNCHANGED <<conn, accounts, refresh, age, valid, minted, lost>>

ClientDone(c) ==
    /\ In(c, {"client"}, "ready")
    /\ End(c)
    /\ UNCHANGED <<conn, accounts, refresh, age, valid, minted, lost>>

-----------------------------------------------------------------------------
(* The two requests *)

\* Attempt 1, GET /auth/renewAccessToken, succeeds.
RenewAccepted(c) ==
    /\ In(c, Ensure \cup {"client"}, "renew")
    /\ call' = [call EXCEPT ![c] = [@ EXCEPT !.pc = "store", !.via = "renew"]]
    /\ UNCHANGED <<conn, accounts, refresh, age, valid, minted, lost>>

\* What follows a failure of attempt 1 that is not transient: attempt 2 if there is a
\* refresh token.  If there is none, ensure marks the connection; a client does so
\* only when the broker refused (`refused') and not when the error is unknown.
AfterRenewFailure(c, refused) ==
    \/ call[c].mem # 0 /\ Goto(c, "grant")
    \/ call[c].mem = 0 /\ (call[c].kind \in Ensure \/ refused) /\ Goto(c, "mark")
    \/ call[c].mem = 0 /\ call[c].kind = "client" /\ ~refused /\ End(c)

RenewFailed(c) ==
    /\ In(c, Ensure \cup {"client"}, "renew")
    /\ \/ \E refused \in BOOLEAN : AfterRenewFailure(c, refused)
       \/ End(c)   \* transient
    /\ UNCHANGED <<conn, accounts, refresh, age, valid, minted, lost>>

\* The broker takes the refresh token and issues another.
Rotate(token) ==
    /\ minted < MaxToken
    /\ minted' = minted + 1
    /\ valid' = (valid \ {token}) \cup {minted + 1}

\* Attempt 2, the refresh_token grant, succeeds, with or without a new refresh token.
GrantAccepted(c) ==
    /\ In(c, Ensure \cup {"client"}, "grant")
    /\ call[c].mem \in valid
    /\ \/ /\ Rotate(call[c].mem)
          /\ call' = [call EXCEPT ![c] =
               [@ EXCEPT !.pc = "store", !.via = "grant", !.new = minted + 1]]
       \/ /\ call' = [call EXCEPT ![c] = [@ EXCEPT !.pc = "store", !.via = "grant"]]
          /\ UNCHANGED <<valid, minted>>
    /\ UNCHANGED <<conn, accounts, refresh, age, lost>>

\* The broker refuses a token it has replaced.  A client does not read the body, so a
\* 400 invalid_grant is transient to it.
GrantRefused(c) ==
    /\ In(c, Ensure \cup {"client"}, "grant")
    /\ call[c].mem \notin valid
    /\ \/ Goto(c, "mark")
       \/ call[c].kind = "client" /\ End(c)
    /\ UNCHANGED <<conn, accounts, refresh, age, valid, minted, lost>>

\* No answer, or none that is understood; the token may have been replaced.
GrantUnanswered(c) ==
    /\ In(c, Ensure \cup {"client"}, "grant")
    /\ End(c)
    /\ \/ UNCHANGED <<valid, minted, lost>>
       \/ /\ call[c].mem \in valid
          /\ Rotate(call[c].mem)
          /\ lost' = lost \cup {minted + 1}
    /\ UNCHANGED <<conn, accounts, refresh, age>>

-----------------------------------------------------------------------------
(* persistRenewedTokens and #storeRefreshedTokens: writes without a transaction *)

\* Mutant: the refresh token in memory is written back when none was issued.
Store_Loaded(c) ==
    /\ In(c, Ensure \cup {"client"}, "store")
    /\ refresh' = IF call[c].new # 0 THEN call[c].new ELSE call[c].mem
    /\ age' = "new"
    /\ call' = [call EXCEPT ![c] =
         [@ EXCEPT !.pc = IF call[c].kind = "client" THEN "healAccounts" ELSE "healConn",
                   !.new = 0]]
    /\ UNCHANGED <<conn, accounts, valid, minted, lost>>

\* Mutant: lastRenewedAt is not written.
Store_NoStamp(c) ==
    /\ In(c, Ensure \cup {"client"}, "store")
    /\ refresh' = IF call[c].new # 0 THEN call[c].new ELSE refresh
    /\ age' = "first"
    /\ call' = [call EXCEPT ![c] =
         [@ EXCEPT !.pc = IF call[c].kind = "client" THEN "healAccounts" ELSE "healConn",
                   !.mem = IF call[c].new # 0 THEN call[c].new ELSE call[c].mem,
                   !.new = 0]]
    /\ UNCHANGED <<conn, accounts, valid, minted, lost>>

\* The tokens: a refresh token is written only if one was issued.  A client does
\* not touch the status of the connection.
Store(c) ==
    /\ In(c, Ensure \cup {"client"}, "store")
    /\ refresh' = IF call[c].new # 0 THEN call[c].new ELSE refresh
    /\ age' = "new"
    /\ call' = [call EXCEPT ![c] =
         [@ EXCEPT !.pc = IF call[c].kind = "client" THEN "healAccounts" ELSE "healConn",
                   !.mem = IF call[c].new # 0 THEN call[c].new ELSE call[c].mem,
                   !.new = 0]]
    /\ UNCHANGED <<conn, accounts, valid, minted, lost>>

HealConn(c) ==
    /\ In(c, Ensure, "healConn")
    /\ conn' = "connected"
    /\ Goto(c, "healAccounts")
    /\ UNCHANGED <<accounts, refresh, age, valid, minted, lost>>

HealAccounts(c) ==
    /\ call[c].pc = "healAccounts"
    /\ accounts' = "connected"
    /\ \/ call[c].kind = "client" /\ Goto(c, IF call[c].retry THEN "retry" ELSE "ready")
       \/ call[c].kind # "client" /\ End(c)
    /\ UNCHANGED <<conn, refresh, age, valid, minted, lost>>

\* A write that fails: within attempt 1 it is an unknown error of that attempt, and
\* attempt 2 follows; within attempt 2 it ends the call.
StoreFails(c) ==
    /\ MayFail
    /\ \E pc \in {"store", "healConn", "healAccounts"} :
         In(c, Ensure \cup {"client"}, pc)
    /\ \/ call[c].via = "renew" /\ AfterRenewFailure(c, FALSE)
       \/ call[c].via = "grant" /\ End(c)
    /\ lost' = lost \cup ({call[c].new} \ {0})
    /\ UNCHANGED <<conn, accounts, refresh, age, valid, minted>>

-----------------------------------------------------------------------------
(* markExpiredWithAccounts and #markConnectionExpired *)

\* Ensure spares a connection renewed in the last minute; a client does not look.
Mark(c) ==
    /\ call[c].pc = "mark"
    /\ IF call[c].kind \in Ensure /\ age = "new"
       THEN End(c) /\ UNCHANGED conn
       ELSE Goto(c, "markAccounts") /\ conn' = "expired"
    /\ UNCHANGED <<accounts, refresh, age, valid, minted, lost>>

MarkAccounts(c) ==
    /\ call[c].pc = "markAccounts"
    /\ accounts' = "expired"
    /\ End(c)
    /\ UNCHANGED <<conn, refresh, age, valid, minted, lost>>

-----------------------------------------------------------------------------
(* Permission probe, reconnect, failure, the broker and the clock *)

\* The probe reads the connection's status and heals the accounts after it.
ProbeRead(c) ==
    /\ Begins(c, "probe")
    /\ conn = "connected"
    /\ call' = [call EXCEPT ![c] =
         [NoCall EXCEPT !.kind = "probe", !.pc = "healAccounts"]]
    /\ UNCHANGED <<conn, accounts, refresh, age, valid, minted, lost>>

\* The user authorises again; the broker may or may not retire earlier tokens.
ReconnectGrant(c) ==
    /\ Begins(c, "reconnect")
    /\ Crossing \/ Held = {}
    /\ \/ /\ minted < MaxToken
          /\ minted' = minted + 1
          /\ \E kept \in {{}, valid} : valid' = kept \cup {minted + 1}
          /\ call' = [call EXCEPT ![c] =
               [NoCall EXCEPT !.kind = "reconnect", !.pc = "adopt", !.new = minted + 1]]
       \/ /\ call' = [call EXCEPT ![c] =
               [NoCall EXCEPT !.kind = "reconnect", !.pc = "adopt"]]
          /\ UNCHANGED <<valid, minted>>
    /\ UNCHANGED <<conn, accounts, refresh, age, lost>>

\* One write of tokens and status; the accounts follow.
ReconnectStore(c) ==
    /\ In(c, {"reconnect"}, "adopt")
    /\ conn' = "connected"
    /\ refresh' = IF call[c].new # 0 THEN call[c].new ELSE refresh
    /\ age' = "new"
    /\ call' = [call EXCEPT ![c] = [@ EXCEPT !.pc = "healAccounts", !.new = 0]]
    /\ UNCHANGED <<accounts, valid, minted, lost>>

\* The process dies, or a query outside the renewal's try throws.
Die(c) ==
    /\ MayFail
    /\ call[c].pc # "idle"
    /\ End(c)
    /\ lost' = lost \cup ({call[c].new} \ {0})
    /\ UNCHANGED <<conn, accounts, refresh, age, valid, minted>>

\* The user withdraws the authorisation at Tradovate.
Revoke ==
    /\ valid' = {}
    /\ UNCHANGED <<conn, accounts, refresh, age, call, minted, lost>>

\* Timely: before a token has but 25 minutes left, the calls that overlapped its
\* renewal, half an hour ago or more, are over, and the cron has come round.
Age ==
    /\ \/ age = "new" /\ age' = "fresh"
       \/ age = "fresh" /\ (Timely => Quiet /\ ~Healable) /\ age' = "near"
       \/ age = "first" /\ age' = "near"
       \/ age = "near" /\ age' = "due"
    /\ UNCHANGED <<conn, accounts, refresh, call, valid, minted, lost>>

Step(c) == \/ CronHeal(c) \/ CronSelect(c) \/ EnsureLoad(c)
           \/ ClientLoad(c) \/ ClientUnauthorized(c) \/ ClientRetry(c) \/ ClientDone(c)
           \/ RenewAccepted(c) \/ RenewFailed(c)
           \/ GrantAccepted(c) \/ GrantRefused(c) \/ GrantUnanswered(c)
           \/ Store(c) \/ HealConn(c) \/ HealAccounts(c) \/ StoreFails(c)
           \/ Mark(c) \/ MarkAccounts(c)
           \/ ProbeRead(c) \/ ReconnectGrant(c) \/ ReconnectStore(c) \/ Die(c)

Next == Revoke \/ Age \/ \E c \in Calls : Step(c)

Spec == Init /\ [][Next]_vars

-----------------------------------------------------------------------------
(* Properties of every interleaving *)

\* However renewals overlap, fail and die, the row holds a refresh token the broker
\* takes, or a call holds one and is about to store it, or the one that replaced it
\* never reached the program's database, or the broker takes none
\* (tradovate-ensure-token.ts 369-371: a refresh token is written only if one was
\* issued; tradovate-client.ts 709-710: "never overwrite a working refresh token").
RefreshTokenKept ==
    \/ valid = {} \/ refresh \in valid
    \/ valid \cap (Held \cup lost) # {}

\* A connection whose refresh token the broker still takes is expired only while the
\* cron would heal it (renew-tradovate-tokens/route.ts 58-63): the losers of a race,
\* the unguarded mark of a client and a process that dies between two writes are
\* all repaired without the user.
FalseExpiryIsHealed == conn = "expired" /\ refresh \in valid => Healable
=============================================================================
