------------------------ MODULE TokenRenewal_proofs ------------------------
(***************************************************************************)
(* TokenRenewal for any number of callers of any kinds and any number of   *)
(* tokens: types, and that no interleaving or failure costs the row its    *)
(* refresh token.                                                          *)
(***************************************************************************)
EXTENDS TokenRenewal, TLAPS

-----------------------------------------------------------------------------
(* Types *)

Touches(c, t) == call' = [call EXCEPT ![c] = t]

LEMMA NoCallType == NoCall \in CallStates
  BY MaxTokenAssumption DEF NoCall, CallStates, Tokens

\* What each step does to the record of its process.
LEMMA StepTouches ==
    ASSUME TypeOK, NEW c \in Calls, Step(c)
    PROVE  \E t \in CallStates : Touches(c, t)
  <1>1. call[c] \in CallStates
    BY DEF TypeOK
  <1>2. refresh \in Tokens /\ 0 \in Tokens
    BY MaxTokenAssumption DEF TypeOK, Tokens
  <1>3. minted < MaxToken => minted + 1 \in Tokens
    BY MaxTokenAssumption DEF TypeOK, Tokens
  <1>4. CASE End(c)
    BY <1>4, NoCallType DEF End, Touches
  <1>5. ASSUME NEW pc \in {"load", "grant", "mark", "markAccounts", "ready", "retry",
                           "healAccounts"},
               Goto(c, pc)
        PROVE  \E t \in CallStates : Touches(c, t)
    <2>1. [call[c] EXCEPT !.pc = pc] \in CallStates
      BY <1>1 DEF CallStates
    <2>2. QED BY <1>5, <2>1 DEF Goto, Touches
  <1>6. ASSUME NEW kind \in Kinds, Load(c, kind)
        PROVE  \E t \in CallStates : Touches(c, t)
    <2>1. [NoCall EXCEPT !.kind = kind, !.pc = "renew", !.mem = refresh] \in CallStates
      BY <1>2 DEF CallStates, NoCall
    <2>2. QED BY <1>4, <1>6, <2>1 DEF Load, Touches
  <1>7. CASE CronHeal(c)
    <2>1. [NoCall EXCEPT !.kind = "cron", !.pc = "select"] \in CallStates
      BY <1>2, <1>7 DEF CallStates, NoCall, CronHeal, Begins
    <2>2. QED BY <1>7, <2>1 DEF CronHeal, Touches
  <1>8. CASE EnsureLoad(c)
    BY <1>1, <1>6, <1>8 DEF EnsureLoad, In, Begins, CallStates
  <1>9. CASE ClientLoad(c)
    <2> DEFINE pc == IF age = "due" THEN "renew" ELSE "ready"
    <2>1. [NoCall EXCEPT !.kind = "client", !.mem = refresh, !.pc = pc] \in CallStates
      BY <1>2, <1>9 DEF CallStates, NoCall, ClientLoad, Begins
    <2>2. QED BY <1>9, <2>1 DEF ClientLoad, Touches
  <1>10. CASE ClientUnauthorized(c)
    <2>1. [call[c] EXCEPT !.pc = "renew", !.retry = TRUE] \in CallStates
      BY <1>1 DEF CallStates
    <2>2. QED BY <1>10, <2>1 DEF ClientUnauthorized, Touches
  <1>11. CASE ClientRetry(c)
    <2>1. [call[c] EXCEPT !.pc = "ready", !.retry = FALSE] \in CallStates
      BY <1>1 DEF CallStates
    <2>2. CASE call' = [call EXCEPT ![c] = [@ EXCEPT !.pc = "ready", !.retry = FALSE]]
      BY <2>1, <2>2 DEF Touches
    <2>3. QED BY <1>4, <1>5, <1>11, <2>2 DEF ClientRetry
  <1>12. CASE RenewAccepted(c)
    <2>1. [call[c] EXCEPT !.pc = "store", !.via = "renew"] \in CallStates
      BY <1>1 DEF CallStates
    <2>2. QED BY <1>12, <2>1 DEF RenewAccepted, Touches
  <1>13. ASSUME NEW refused \in BOOLEAN, AfterRenewFailure(c, refused)
         PROVE  \E t \in CallStates : Touches(c, t)
    BY <1>4, <1>5, <1>13 DEF AfterRenewFailure
  <1>14. CASE GrantAccepted(c)
    <2>1. ASSUME minted < MaxToken
          PROVE  [call[c] EXCEPT !.pc = "store", !.via = "grant", !.new = minted + 1]
                   \in CallStates
      BY <1>1, <1>3, <2>1 DEF CallStates
    <2>2. [call[c] EXCEPT !.pc = "store", !.via = "grant"] \in CallStates
      BY <1>1 DEF CallStates
    <2>3. QED BY <1>14, <2>1, <2>2 DEF GrantAccepted, Rotate, Touches
  <1>15. CASE Store(c)
    <2> DEFINE pc == IF call[c].kind = "client" THEN "healAccounts" ELSE "healConn"
               mem == IF call[c].new # 0 THEN call[c].new ELSE call[c].mem
    <2>1. pc \in {"healAccounts", "healConn"} /\ mem \in Tokens
      BY <1>1 DEF CallStates
    <2>2. call' = [call EXCEPT ![c] = [@ EXCEPT !.pc = pc, !.mem = mem, !.new = 0]]
      BY <1>15, <1>1 DEF Store, CallStates
    <2> HIDE DEF pc, mem
    <2>3. [call[c] EXCEPT !.pc = pc, !.mem = mem, !.new = 0] \in CallStates
      BY <1>1, <1>2, <2>1 DEF CallStates
    <2>4. QED BY <2>2, <2>3 DEF Touches
  <1>16. CASE ReconnectGrant(c)
    <2> DEFINE t == [NoCall EXCEPT !.kind = "reconnect", !.pc = "adopt"]
    <2>1. t \in CallStates
      BY <1>2, <1>16 DEF CallStates, NoCall, ReconnectGrant, Begins
    <2>2. ASSUME minted < MaxToken
          PROVE  [t EXCEPT !.new = minted + 1] \in CallStates
      BY <1>3, <2>1, <2>2 DEF CallStates
    <2>3. QED BY <1>16, <2>1, <2>2 DEF ReconnectGrant, Touches, NoCall
  <1>17. CASE ReconnectStore(c)
    <2>1. [call[c] EXCEPT !.pc = "healAccounts", !.new = 0] \in CallStates
      BY <1>1, <1>2 DEF CallStates
    <2>2. QED BY <1>17, <2>1 DEF ReconnectStore, Touches
  <1>18. CASE ProbeRead(c)
    <2>1. [NoCall EXCEPT !.kind = "probe", !.pc = "healAccounts"] \in CallStates
      BY <1>2, <1>18 DEF CallStates, NoCall, ProbeRead, Begins
    <2>2. QED BY <1>18, <2>1 DEF ProbeRead, Touches
  <1>19. QED
    BY <1>4, <1>5, <1>7, <1>8, <1>9, <1>10, <1>11, <1>12, <1>13, <1>14, <1>15,
       <1>16, <1>17, <1>18
       DEF Step, CronSelect, ClientDone, RenewFailed, GrantRefused, GrantUnanswered,
           HealConn, HealAccounts, StoreFails, Mark, MarkAccounts, Die

\* A step has the broker issue at most one token, and drops at most that one or its own.
LEMMA StepTokens ==
    ASSUME NEW c \in Calls, Step(c)
    PROVE  /\ \/ minted < MaxToken /\ minted' = minted + 1
                 /\ valid' \subseteq valid \cup {minted + 1}
              \/ UNCHANGED <<valid, minted>>
           /\ \/ minted < MaxToken /\ minted' = minted + 1 /\ lost' = lost \cup {minted + 1}
              \/ lost' = lost \cup ({call[c].new} \ {0})
              \/ UNCHANGED lost
  <1>1. \/ minted < MaxToken /\ minted' = minted + 1
           /\ valid' \subseteq valid \cup {minted + 1}
        \/ UNCHANGED <<valid, minted>>
    BY DEF Rotate, Step, CronHeal, CronSelect, EnsureLoad, Load, ClientLoad,
           ClientUnauthorized, ClientRetry, ClientDone, RenewAccepted, RenewFailed,
           GrantAccepted, GrantRefused, GrantUnanswered, Store, HealConn,
           HealAccounts, StoreFails, Mark, MarkAccounts, ProbeRead, ReconnectGrant,
           ReconnectStore, Die
  <1>2. \/ minted < MaxToken /\ minted' = minted + 1 /\ lost' = lost \cup {minted + 1}
        \/ lost' = lost \cup ({call[c].new} \ {0})
        \/ UNCHANGED lost
    BY DEF Rotate, Step, CronHeal, CronSelect, EnsureLoad, Load, ClientLoad,
           ClientUnauthorized, ClientRetry, ClientDone, RenewAccepted, RenewFailed,
           GrantAccepted, GrantRefused, GrantUnanswered, Store, HealConn,
           HealAccounts, StoreFails, Mark, MarkAccounts, ProbeRead, ReconnectGrant,
           ReconnectStore, Die
  <1>3. QED BY <1>1, <1>2

LEMMA TypeInit == Init => TypeOK
  BY NoCallType, MaxTokenAssumption
     DEF Init, TypeOK, ConnStatuses, Ages, Tokens

LEMMA TypeStep == TypeOK /\ [Next]_vars => TypeOK'
  <1> SUFFICES ASSUME TypeOK, [Next]_vars PROVE TypeOK'
    OBVIOUS
  <1>1. CASE Revoke
    BY <1>1 DEF Revoke, TypeOK
  <1>2. CASE Age
    BY <1>2 DEF Age, TypeOK, Ages
  <1>3. ASSUME NEW c \in Calls, Step(c) PROVE TypeOK'
    <2>1. call' \in [Calls -> CallStates]
      BY <1>3, StepTouches DEF TypeOK, Touches
    <2>2. call[c] \in CallStates
      BY DEF TypeOK
    <2>3. call[c].new \in Tokens /\ {call[c].new} \ {0} \subseteq 1..MaxToken
      BY <2>2 DEF CallStates, Tokens
    <2>4. /\ conn' \in ConnStatuses
          /\ accounts' \in ConnStatuses
          /\ age' \in Ages
      BY <1>3
         DEF TypeOK, ConnStatuses, Ages, Step, CronHeal, CronSelect, EnsureLoad, Load,
             ClientLoad, ClientUnauthorized, ClientRetry, ClientDone, RenewAccepted,
             RenewFailed, GrantAccepted, GrantRefused, GrantUnanswered, Store, HealConn,
             HealAccounts, StoreFails, Mark, MarkAccounts, ProbeRead, ReconnectGrant,
             ReconnectStore, Die
    <2>5. refresh' \in Tokens
      BY <1>3, <2>3
         DEF TypeOK, Step, CronHeal, CronSelect, EnsureLoad, Load, ClientLoad,
             ClientUnauthorized, ClientRetry, ClientDone, RenewAccepted, RenewFailed,
             GrantAccepted, GrantRefused, GrantUnanswered, Store, HealConn,
             HealAccounts, StoreFails, Mark, MarkAccounts, ProbeRead, ReconnectGrant,
             ReconnectStore, Die
    <2>6. \/ minted < MaxToken /\ minted' = minted + 1
             /\ valid' \subseteq valid \cup {minted + 1}
          \/ UNCHANGED <<valid, minted>>
      BY <1>3, StepTokens
    <2>7. \/ minted < MaxToken /\ lost' = lost \cup {minted + 1}
          \/ lost' = lost \cup ({call[c].new} \ {0})
          \/ UNCHANGED lost
      BY <1>3, StepTokens
    <2>8. minted < MaxToken => minted + 1 \in 1..MaxToken
      BY MaxTokenAssumption DEF TypeOK, Tokens
    <2>9. valid' \subseteq 1..MaxToken
      BY <2>6, <2>8 DEF TypeOK
    <2>10. minted' \in Tokens
      BY <2>6, MaxTokenAssumption DEF TypeOK, Tokens
    <2>11. lost' \subseteq 1..MaxToken
      BY <2>3, <2>7, <2>8 DEF TypeOK
    <2>12. QED BY <2>1, <2>4, <2>5, <2>9, <2>10, <2>11 DEF TypeOK
  <1>4. CASE UNCHANGED vars
    BY <1>4 DEF TypeOK, vars
  <1>5. QED BY <1>1, <1>2, <1>3, <1>4 DEF Next

\* Every state the callers reach, interleaved and interrupted anyhow, is well typed.
THEOREM TypeCorrect == Spec => []TypeOK
  BY TypeInit, TypeStep, PTL DEF Spec

-----------------------------------------------------------------------------
(* The refresh token.  Each one issued is with one call until that call stores   *)
(* it or drops it, and nobody else can have it meanwhile, so nobody can have it  *)
(* replaced at the broker.                                                       *)

Unknown(t) == t # refresh /\ \A d \in Calls : call[d].mem # t

Bounded ==
    /\ refresh <= minted
    /\ \A c \in Calls : call[c].mem <= minted /\ call[c].new <= minted
    /\ \A t \in valid \cup lost : t <= minted

HeldApart ==
    \A c \in Calls : call[c].new # 0 =>
        /\ call[c].pc = "adopt" \/ (call[c].pc = "store" /\ call[c].via = "grant")
        /\ Unknown(call[c].new)
        /\ call[c].new \notin lost
        /\ \A d \in Calls : call[d].new = call[c].new => d = c

LostApart == \A t \in lost : Unknown(t)

HeldValid == valid = {} \/ \A c \in Calls : call[c].new # 0 => call[c].new \in valid

\* RefreshTokenKept, token by token.
Kept ==
    \/ valid = {} \/ refresh \in valid
    \/ \E t \in valid : t \in lost \/ \E c \in Calls : call[c].new = t

KInv == TypeOK /\ Bounded /\ HeldApart /\ LostApart /\ HeldValid /\ Kept

LEMMA KeptIsRefreshTokenKept == TypeOK /\ Kept => RefreshTokenKept
  <1> SUFFICES ASSUME TypeOK, NEW t \in valid,
                      t \in lost \/ \E c \in Calls : call[c].new = t
               PROVE  t \in Held \cup lost
    BY DEF Kept, RefreshTokenKept
  <1>1. t # 0
    BY DEF TypeOK
  <1>2. QED BY <1>1 DEF Held

LEMMA KInvInit == Init => KInv
  <1> SUFFICES ASSUME Init PROVE KInv
    OBVIOUS
  <1>1. TypeOK
    BY TypeInit
  <1>2. \A c \in Calls : call[c].new = 0 /\ call[c].mem = 0
    BY DEF Init, NoCall
  <1>3. QED BY <1>1, <1>2
            DEF Init, KInv, Bounded, HeldApart, LostApart, HeldValid, Kept

\* A call ends or goes on, and drops the token it held, if any.
LEMMA DropKeeps ==
    ASSUME KInv, TypeOK', NEW c \in Calls, NEW t \in CallStates, Touches(c, t),
           t.new = 0, t.mem \in {0, refresh, call[c].mem},
           lost' = lost \cup ({call[c].new} \ {0}),
           UNCHANGED <<refresh, valid, minted>>
    PROVE  KInv'
  <1>1. \A d \in Calls : call'[d] = IF d = c THEN t ELSE call[d]
    BY DEF Touches, KInv, TypeOK
  <1>2. /\ \A d \in Calls : call[d].new \in 0..MaxToken /\ call[d].mem \in 0..MaxToken
        /\ valid \subseteq 1..MaxToken /\ lost \subseteq 1..MaxToken
        /\ minted \in 0..MaxToken /\ refresh \in 0..MaxToken
    BY DEF KInv, TypeOK, CallStates, Tokens
  <1>3. Bounded'
    BY <1>1, <1>2 DEF KInv, Bounded
  <1>4. ASSUME NEW u, u # 0, Unknown(u) PROVE Unknown(u)'
    BY <1>1, <1>4 DEF Unknown
  <1>5. HeldApart'
    <2> SUFFICES ASSUME NEW d \in Calls, call'[d].new # 0
                 PROVE  /\ call'[d].pc = "adopt"
                             \/ (call'[d].pc = "store" /\ call'[d].via = "grant")
                        /\ Unknown(call[d].new)'
                        /\ call'[d].new \notin lost'
                        /\ \A e \in Calls : call'[e].new = call'[d].new => e = d
      BY <1>1 DEF HeldApart, Unknown
    <2>1. d # c /\ call'[d] = call[d]
      BY <1>1
    <2>2. call[c].new # call[d].new
      BY <2>1 DEF KInv, HeldApart
    <2>3. Unknown(call[d].new)'
      BY <1>4, <2>1 DEF KInv, HeldApart
    <2>4. QED BY <1>1, <2>1, <2>2, <2>3 DEF KInv, HeldApart
  <1>6. LostApart'
    <2> SUFFICES ASSUME NEW u \in lost' PROVE Unknown(u)'
      BY DEF LostApart
    <2>1. u # 0 /\ Unknown(u)
      BY <1>2 DEF KInv, LostApart, HeldApart
    <2>2. QED BY <1>4, <2>1
  <1>7. HeldValid'
    BY <1>1 DEF KInv, HeldValid
  <1>8. Kept'
    <2>1. CASE valid = {} \/ refresh \in valid
      BY <2>1 DEF Kept
    <2>2. ASSUME NEW u \in valid, u \in lost \/ \E d \in Calls : call[d].new = u
          PROVE  Kept'
      <3>1. u \in lost' \/ \E d \in Calls : call'[d].new = u
        BY <1>1, <1>2, <2>2
      <3>2. QED BY <3>1 DEF Kept
    <2>3. QED BY <2>1, <2>2 DEF KInv, Kept
  <1>9. QED BY <1>3, <1>5, <1>6, <1>7, <1>8 DEF KInv

\* A call stores what it received.
LEMMA StoreKeeps ==
    ASSUME KInv, TypeOK', NEW c \in Calls, NEW t \in CallStates, Touches(c, t),
           t.new = 0, t.mem \in {call[c].mem, refresh'},
           refresh' = IF call[c].new # 0 THEN call[c].new ELSE refresh,
           UNCHANGED <<valid, minted, lost>>
    PROVE  KInv'
  <1>1. \A d \in Calls : call'[d] = IF d = c THEN t ELSE call[d]
    BY DEF Touches, KInv, TypeOK
  <1>2. /\ \A d \in Calls : call[d].new \in 0..MaxToken /\ call[d].mem \in 0..MaxToken
        /\ valid \subseteq 1..MaxToken /\ lost \subseteq 1..MaxToken
        /\ minted \in 0..MaxToken /\ refresh \in 0..MaxToken
    BY DEF KInv, TypeOK, CallStates, Tokens
  <1>3. Bounded'
    BY <1>1, <1>2 DEF KInv, Bounded
  <1>4. ASSUME NEW u, u # call[c].new, Unknown(u) PROVE Unknown(u)'
    BY <1>1, <1>4 DEF Unknown
  <1>5. HeldApart'
    <2> SUFFICES ASSUME NEW d \in Calls, call'[d].new # 0
                 PROVE  /\ call'[d].pc = "adopt"
                             \/ (call'[d].pc = "store" /\ call'[d].via = "grant")
                        /\ Unknown(call[d].new)'
                        /\ call'[d].new \notin lost'
                        /\ \A e \in Calls : call'[e].new = call'[d].new => e = d
      BY <1>1 DEF HeldApart, Unknown
    <2>1. d # c /\ call'[d] = call[d]
      BY <1>1
    <2>2. call[c].new # call[d].new
      BY <2>1 DEF KInv, HeldApart
    <2>3. Unknown(call[d].new)'
      BY <1>4, <2>1, <2>2 DEF KInv, HeldApart
    <2>4. QED BY <1>1, <2>1, <2>2, <2>3 DEF KInv, HeldApart
  <1>6. LostApart'
    <2> SUFFICES ASSUME NEW u \in lost PROVE Unknown(u)'
      BY DEF LostApart
    <2>1. u # call[c].new /\ Unknown(u)
      BY <1>2 DEF KInv, LostApart, HeldApart
    <2>2. QED BY <1>4, <2>1
  <1>7. HeldValid'
    BY <1>1 DEF KInv, HeldValid
  <1>8. Kept'
    <2>1. CASE call[c].new # 0
      BY <2>1 DEF KInv, HeldValid, Kept
    <2>2. CASE call[c].new = 0 /\ (valid = {} \/ refresh \in valid)
      BY <2>2 DEF Kept
    <2>3. ASSUME call[c].new = 0, NEW u \in valid,
                 u \in lost \/ \E d \in Calls : call[d].new = u
          PROVE  Kept'
      <3>1. u \in lost' \/ \E d \in Calls : call'[d].new = u
        BY <1>1, <1>2, <2>3
      <3>2. QED BY <3>1 DEF Kept
    <2>4. QED BY <2>1, <2>2, <2>3 DEF KInv, Kept
  <1>9. QED BY <1>3, <1>5, <1>6, <1>7, <1>8 DEF KInv
\* The broker issues a token n to a call, for one it takes back or because the user
\* authorised.  It is with that call only.
LEMMA MintKeeps ==
    ASSUME KInv, TypeOK', NEW c \in Calls, NEW t \in CallStates, Touches(c, t),
           NEW n, n = minted + 1, minted' = n, UNCHANGED <<refresh, lost>>,
           call[c].new = 0, t.new = n, t.mem \in {0, call[c].mem},
           t.pc = "adopt" \/ (t.pc = "store" /\ t.via = "grant"),
           \/ call[c].mem \in valid /\ valid' = (valid \ {call[c].mem}) \cup {n}
           \/ /\ \A d \in Calls : call[d].new = 0
              /\ \E kept \in SUBSET valid : valid' = kept \cup {n}
    PROVE  KInv'
  <1>1. \A d \in Calls : call'[d] = IF d = c THEN t ELSE call[d]
    BY DEF Touches, KInv, TypeOK
  <1>2. /\ \A d \in Calls : call[d].new \in 0..MaxToken /\ call[d].mem \in 0..MaxToken
        /\ valid \subseteq 1..MaxToken /\ lost \subseteq 1..MaxToken
        /\ minted \in 0..MaxToken /\ refresh \in 0..MaxToken
    BY DEF KInv, TypeOK, CallStates, Tokens
  <1>3. /\ refresh # n /\ n # 0 /\ n \notin lost
        /\ \A d \in Calls : call[d].mem # n /\ call[d].new # n
    BY <1>2 DEF KInv, Bounded
  <1>4. Bounded'
    <2>1. refresh' <= n
      BY <1>2 DEF KInv, Bounded
    <2>2. ASSUME NEW d \in Calls PROVE call'[d].mem <= n /\ call'[d].new <= n
      BY <1>1, <1>2 DEF KInv, Bounded
    <2>3. ASSUME NEW u \in valid' \cup lost' PROVE u <= n
      <3>1. u \in valid \cup lost \/ u = n
        BY <2>3
      <3>2. u \in valid \cup lost => u <= minted /\ u \in 1..MaxToken
        BY <1>2 DEF KInv, Bounded
      <3>3. n \in Int /\ minted \in Int /\ n = minted + 1
        BY <1>2
      <3>4. QED BY <3>1, <3>2, <3>3
    <2>4. QED BY <2>1, <2>2, <2>3 DEF Bounded
  <1>5. ASSUME NEW u, u # 0, Unknown(u) PROVE Unknown(u)'
    BY <1>1, <1>5 DEF Unknown
  <1>6. Unknown(n)'
    BY <1>1, <1>3 DEF Unknown
  <1>7. HeldApart'
    <2> SUFFICES ASSUME NEW d \in Calls, call'[d].new # 0
                 PROVE  /\ call'[d].pc = "adopt"
                             \/ (call'[d].pc = "store" /\ call'[d].via = "grant")
                        /\ Unknown(call[d].new)'
                        /\ call'[d].new \notin lost'
                        /\ \A e \in Calls : call'[e].new = call'[d].new => e = d
      BY DEF HeldApart
    <2>1. CASE d = c
      <3>1. call'[d].new = n
        BY <1>1, <2>1
      <3>2. Unknown(call[d].new)'
        BY <1>6, <3>1 DEF Unknown
      <3>3. QED BY <1>1, <1>3, <2>1, <3>2
    <2>2. CASE d # c
      <3>1. call'[d] = call[d]
        BY <1>1, <2>2
      <3>2. Unknown(call[d].new)'
        BY <1>5, <3>1 DEF KInv, HeldApart
      <3>3. \A e \in Calls : call'[e].new = call'[d].new => e = d
        BY <1>1, <1>3, <3>1 DEF KInv, HeldApart
      <3>4. QED BY <3>1, <3>2, <3>3 DEF KInv, HeldApart
    <2>3. QED BY <2>1, <2>2
  <1>8. LostApart'
    BY <1>2, <1>5 DEF KInv, LostApart
  <1>9. HeldValid'
    <2> SUFFICES ASSUME NEW d \in Calls, call'[d].new # 0 PROVE call'[d].new \in valid'
      BY DEF HeldValid
    <2>1. CASE d = c
      BY <1>1, <2>1
    <2>2. CASE d # c
      <3>1. call'[d] = call[d]
        BY <1>1, <2>2
      <3>2. call[c].mem \in valid /\ valid' = (valid \ {call[c].mem}) \cup {n}
        BY <3>1
      <3>3. call[d].new \in valid
        BY <3>1, <3>2 DEF KInv, HeldValid
      <3>4. call[d].new # call[c].mem
        BY <3>1 DEF KInv, HeldApart, Unknown
      <3>5. QED BY <3>1, <3>2, <3>3, <3>4
    <2>3. QED BY <2>1, <2>2
  <1>10. Kept'
    <2>1. n \in valid' /\ call'[c].new = n
      BY <1>1
    <2>2. QED BY <2>1 DEF Kept
  <1>11. QED BY <1>4, <1>7, <1>8, <1>9, <1>10 DEF KInv

\* The broker replaces the token of a call and the answer is lost.
LEMMA LoseKeeps ==
    ASSUME KInv, TypeOK', NEW c \in Calls, Touches(c, NoCall),
           NEW n, n = minted + 1, minted' = n, lost' = lost \cup {n}, UNCHANGED refresh,
           call[c].new = 0, valid' = (valid \ {call[c].mem}) \cup {n},
           call[c].mem \in valid
    PROVE  KInv'
  <1>1. \A d \in Calls : call'[d] = IF d = c THEN NoCall ELSE call[d]
    BY DEF Touches, KInv, TypeOK
  <1>2. /\ \A d \in Calls : call[d].new \in 0..MaxToken /\ call[d].mem \in 0..MaxToken
        /\ valid \subseteq 1..MaxToken /\ lost \subseteq 1..MaxToken
        /\ minted \in 0..MaxToken /\ refresh \in 0..MaxToken
    BY DEF KInv, TypeOK, CallStates, Tokens
  <1>3. /\ refresh # n /\ n # 0
        /\ \A d \in Calls : call[d].mem # n /\ call[d].new # n
    BY <1>2 DEF KInv, Bounded
  <1>4. Bounded'
    <2>1. refresh' <= n
      BY <1>2 DEF KInv, Bounded
    <2>2. ASSUME NEW d \in Calls PROVE call'[d].mem <= n /\ call'[d].new <= n
      BY <1>1, <1>2 DEF KInv, Bounded, NoCall
    <2>3. ASSUME NEW u \in valid' \cup lost' PROVE u <= n
      <3>1. u \in valid \cup lost \/ u = n
        BY <2>3
      <3>2. u \in valid \cup lost => u <= minted /\ u \in 1..MaxToken
        BY <1>2 DEF KInv, Bounded
      <3>3. n \in Int /\ minted \in Int /\ n = minted + 1
        BY <1>2
      <3>4. QED BY <3>1, <3>2, <3>3
    <2>4. QED BY <2>1, <2>2, <2>3 DEF Bounded
  <1>5. ASSUME NEW u, u # 0, Unknown(u) PROVE Unknown(u)'
    BY <1>1, <1>5 DEF Unknown, NoCall
  <1>6. Unknown(n)'
    BY <1>1, <1>3 DEF Unknown, NoCall
  <1>7. HeldApart'
    <2> SUFFICES ASSUME NEW d \in Calls, call'[d].new # 0
                 PROVE  /\ call'[d].pc = "adopt"
                             \/ (call'[d].pc = "store" /\ call'[d].via = "grant")
                        /\ Unknown(call[d].new)'
                        /\ call'[d].new \notin lost'
                        /\ \A e \in Calls : call'[e].new = call'[d].new => e = d
      BY DEF HeldApart
    <2>1. call'[d] = call[d]
      BY <1>1 DEF NoCall
    <2>2. Unknown(call[d].new)'
      BY <1>5, <2>1 DEF KInv, HeldApart
    <2>3. \A e \in Calls : call'[e].new = call'[d].new => e = d
      BY <1>1, <2>1 DEF KInv, HeldApart, NoCall
    <2>4. QED BY <1>3, <2>1, <2>2, <2>3 DEF KInv, HeldApart
  <1>8. LostApart'
    BY <1>2, <1>5, <1>6 DEF KInv, LostApart
  <1>9. HeldValid'
    <2> SUFFICES ASSUME NEW d \in Calls, call'[d].new # 0 PROVE call'[d].new \in valid'
      BY DEF HeldValid
    <2>1. call'[d] = call[d]
      BY <1>1 DEF NoCall
    <2>2. call[d].new \in valid
      BY <2>1 DEF KInv, HeldValid
    <2>3. call[d].new # call[c].mem
      BY <2>1 DEF KInv, HeldApart, Unknown
    <2>4. QED BY <2>1, <2>2, <2>3
  <1>10. Kept'
    BY DEF Kept
  <1>11. QED BY <1>4, <1>7, <1>8, <1>9, <1>10 DEF KInv
\* Each step is one of the four.
LEMMA KInvStep == ASSUME ~Crossing PROVE KInv /\ [Next]_vars => KInv'
  <1> SUFFICES ASSUME KInv, [Next]_vars PROVE KInv'
    OBVIOUS
  <1>0. TypeOK /\ TypeOK'
    BY TypeStep DEF KInv
  <1>1. CASE Revoke
    BY <1>0, <1>1
       DEF Revoke, KInv, Bounded, HeldApart, LostApart, HeldValid, Kept, Unknown
  <1>2. CASE Age \/ UNCHANGED vars
    BY <1>0, <1>2
       DEF Age, vars, KInv, Bounded, HeldApart, LostApart, HeldValid, Kept, Unknown
  <1>3. ASSUME NEW c \in Calls, Step(c) PROVE KInv'
    <2>1. /\ call[c] \in CallStates
          /\ call[c].new = 0 \/ call[c].pc = "adopt"
               \/ (call[c].pc = "store" /\ call[c].via = "grant")
      BY <1>0 DEF TypeOK, KInv, HeldApart
    <2>2. PICK t \in CallStates : Touches(c, t)
      BY <1>0, <1>3, StepTouches
    <2>3. call'[c] = t /\ call \in [Calls -> CallStates]
      BY <1>0, <2>2 DEF Touches, TypeOK
    <2>4. NoCall.new = 0 /\ NoCall.mem = 0 /\ NoCall.pc = "idle"
      BY DEF NoCall
    <2>5. ASSUME /\ t.new = 0 /\ t.mem \in {0, refresh, call[c].mem}
                 /\ UNCHANGED <<refresh, valid, minted>>
                 /\ lost' = lost \cup ({call[c].new} \ {0})
          PROVE  KInv'
      BY <1>0, <2>2, <2>5, DropKeeps
    <2>6. ASSUME /\ t.new = 0 /\ t.mem \in {0, refresh, call[c].mem}
                 /\ call[c].new = 0 /\ UNCHANGED <<refresh, valid, minted, lost>>
          PROVE  KInv'
      BY <2>5, <2>6
    <2>7. End(c) => t.new = 0 /\ t.mem = 0
      BY <2>3, <2>4 DEF End
    <2>8. ASSUME NEW pc, Goto(c, pc) PROVE t.new = call[c].new /\ t.mem = call[c].mem
      BY <2>1, <2>3, <2>8 DEF Goto, CallStates
    <2>9. CASE CronHeal(c) \/ CronSelect(c)
      <3>1. CASE CronHeal(c)
        BY <2>1, <2>3, <2>6, <3>1 DEF CronHeal, Begins, NoCall
      <3>2. CASE CronSelect(c)
        BY <2>1, <2>6, <2>7, <2>8, <3>2 DEF CronSelect, In
      <3>3. QED BY <2>9, <3>1, <3>2
    <2>10. CASE EnsureLoad(c)
      <3>1. PICK kind : Load(c, kind) /\ call[c].new = 0
        BY <2>1, <2>10 DEF EnsureLoad, In, Begins
      <3>2. CASE End(c)
        BY <2>6, <2>7, <3>1, <3>2 DEF Load
      <3>3. CASE ~End(c)
        BY <2>3, <2>6, <3>1, <3>3 DEF Load, NoCall
      <3>4. QED BY <3>2, <3>3
    <2>11. CASE ClientLoad(c) \/ ClientUnauthorized(c)
      <3>1. CASE ClientLoad(c)
        BY <2>1, <2>3, <2>6, <3>1 DEF ClientLoad, Begins, NoCall
      <3>2. CASE ClientUnauthorized(c)
        BY <2>1, <2>3, <2>6, <3>2 DEF ClientUnauthorized, In, CallStates
      <3>3. QED BY <2>11, <3>1, <3>2
    <2>12. CASE ClientRetry(c) \/ ClientDone(c)
      <3>1. CASE ClientRetry(c)
        <4>1. \/ t.new = call[c].new /\ t.mem = call[c].mem
              \/ t.new = 0 /\ t.mem = 0
          <5>1. CASE call' = [call EXCEPT ![c] =
                       [call[c] EXCEPT !.pc = "ready", !.retry = FALSE]]
            <6>1. t = [call[c] EXCEPT !.pc = "ready", !.retry = FALSE]
              BY <2>3, <5>1
            <6>2. QED BY <2>1, <6>1 DEF CallStates
          <5>2. QED BY <2>7, <2>8, <3>1, <5>1 DEF ClientRetry
        <4>2. QED BY <2>1, <2>6, <3>1, <4>1 DEF ClientRetry, In
      <3>2. CASE ClientDone(c)
        BY <2>1, <2>6, <2>7, <3>2 DEF ClientDone, In
      <3>3. QED BY <2>12, <3>1, <3>2
    <2>13. ASSUME NEW refused, AfterRenewFailure(c, refused)
           PROVE  \/ t.new = call[c].new /\ t.mem = call[c].mem
                  \/ t.new = 0 /\ t.mem = 0
      BY <2>7, <2>8, <2>13 DEF AfterRenewFailure
    <2>14. CASE RenewAccepted(c) \/ RenewFailed(c) \/ GrantRefused(c)
      <3>1. CASE RenewAccepted(c)
        BY <2>1, <2>3, <2>6, <3>1 DEF RenewAccepted, In, CallStates
      <3>2. CASE RenewFailed(c)
        BY <2>1, <2>6, <2>7, <2>13, <3>2 DEF RenewFailed, In
      <3>3. CASE GrantRefused(c)
        BY <2>1, <2>6, <2>7, <2>8, <3>3 DEF GrantRefused, In
      <3>4. QED BY <2>14, <3>1, <3>2, <3>3
    <2>15. CASE HealConn(c) \/ HealAccounts(c) \/ ProbeRead(c)
      <3>1. CASE HealConn(c)
        BY <2>1, <2>6, <2>8, <3>1 DEF HealConn, In
      <3>2. CASE HealAccounts(c)
        BY <2>1, <2>6, <2>7, <2>8, <3>2 DEF HealAccounts
      <3>3. CASE ProbeRead(c)
        BY <2>1, <2>3, <2>6, <3>3 DEF ProbeRead, Begins, NoCall
      <3>4. QED BY <2>15, <3>1, <3>2, <3>3
    <2>16. CASE Mark(c) \/ MarkAccounts(c)
      <3>1. CASE Mark(c)
        BY <2>1, <2>6, <2>7, <2>8, <3>1 DEF Mark
      <3>2. CASE MarkAccounts(c)
        BY <2>1, <2>6, <2>7, <3>2 DEF MarkAccounts
      <3>3. QED BY <2>16, <3>1, <3>2
    <2>17. CASE StoreFails(c) \/ Die(c)
      <3>1. CASE StoreFails(c)
        <4>1. call[c].via = "renew" => call[c].new = 0
          BY <2>1, <3>1 DEF StoreFails, In
        <4>2. t.new = 0 /\ t.mem \in {0, call[c].mem}
          BY <2>7, <2>13, <3>1, <4>1 DEF StoreFails
        <4>3. QED BY <2>5, <3>1, <4>2 DEF StoreFails
      <3>2. CASE Die(c)
        BY <2>5, <2>7, <3>2 DEF Die
      <3>3. QED BY <2>17, <3>1, <3>2
    <2>18. CASE Store(c) \/ ReconnectStore(c)
      BY <1>0, <2>1, <2>2, <2>3, <2>18, StoreKeeps
         DEF Store, ReconnectStore, CallStates
    <2>19. CASE GrantAccepted(c)
      <3>1. call[c].new = 0 /\ call[c].mem \in valid
        BY <2>1, <2>19 DEF GrantAccepted, In
      <3>2. CASE UNCHANGED <<valid, minted>>
        <4>1. minted' # minted + 1
          BY <1>0, <3>2 DEF TypeOK, Tokens
        <4>2. t = [call[c] EXCEPT !.pc = "store", !.via = "grant"]
          BY <2>3, <2>19, <4>1 DEF GrantAccepted, Rotate
        <4>3. t.new = 0 /\ t.mem = call[c].mem
          BY <2>1, <3>1, <4>2 DEF CallStates
        <4>4. QED BY <2>6, <2>19, <3>1, <3>2, <4>3 DEF GrantAccepted
      <3>3. CASE ~UNCHANGED <<valid, minted>>
        <4> DEFINE n == minted + 1
        <4>1. /\ minted' = n
              /\ valid' = (valid \ {call[c].mem}) \cup {n}
              /\ t = [call[c] EXCEPT !.pc = "store", !.via = "grant", !.new = n]
          BY <2>3, <2>19, <3>3 DEF GrantAccepted, Rotate
        <4>2. t.new = n /\ t.mem = call[c].mem /\ t.pc = "store" /\ t.via = "grant"
          BY <2>1, <4>1 DEF CallStates
        <4>3. UNCHANGED <<refresh, lost>>
          BY <2>19 DEF GrantAccepted
        <4>4. QED BY <1>0, <2>2, <3>1, <4>1, <4>2, <4>3, MintKeeps
      <3>4. QED BY <3>2, <3>3
    <2>20. CASE GrantUnanswered(c)
      <3>1. call[c].new = 0
        BY <2>1, <2>20 DEF GrantUnanswered, In
      <3>2. CASE UNCHANGED <<valid, minted, lost>>
        BY <2>6, <2>7, <2>20, <3>1, <3>2 DEF GrantUnanswered
      <3>3. CASE ~UNCHANGED <<valid, minted, lost>>
        <4> DEFINE n == minted + 1
        <4>1. /\ call[c].mem \in valid
              /\ minted' = n
              /\ valid' = (valid \ {call[c].mem}) \cup {n}
              /\ lost' = lost \cup {n}
              /\ UNCHANGED refresh
              /\ Touches(c, NoCall)
          BY <2>20, <3>3 DEF GrantUnanswered, Rotate, End, Touches
        <4>2. QED BY <1>0, <3>1, <4>1, LoseKeeps
      <3>4. QED BY <3>2, <3>3
    <2>21. CASE ReconnectGrant(c)
      <3>1. call[c].new = 0 /\ UNCHANGED <<refresh, lost>>
        BY <2>1, <2>21 DEF ReconnectGrant, Begins
      <3>2. \A d \in Calls : call[d].new = 0
        BY <2>21 DEF ReconnectGrant, Held
      <3>3. CASE UNCHANGED <<valid, minted>>
        <4>1. minted' # minted + 1
          BY <1>0, <3>3 DEF TypeOK, Tokens
        <4>2. t = [NoCall EXCEPT !.kind = "reconnect", !.pc = "adopt"]
          BY <2>3, <2>21, <4>1 DEF ReconnectGrant
        <4>3. t.new = 0 /\ t.mem = 0
          BY <4>2 DEF NoCall
        <4>4. QED BY <2>6, <3>1, <3>3, <4>3
      <3>4. CASE ~UNCHANGED <<valid, minted>>
        <4> DEFINE n == minted + 1
        <4>1. /\ minted' = n
              /\ \E kept \in {{}, valid} : valid' = kept \cup {n}
              /\ t = [NoCall EXCEPT !.kind = "reconnect", !.pc = "adopt", !.new = n]
          BY <2>3, <2>21, <3>4 DEF ReconnectGrant
        <4>2. t.new = n /\ t.mem = 0 /\ t.pc = "adopt"
          BY <4>1 DEF NoCall
        <4>3. \E kept \in SUBSET valid : valid' = kept \cup {n}
          BY <4>1
        <4>4. QED BY <1>0, <2>2, <3>1, <3>2, <4>1, <4>2, <4>3, MintKeeps
      <3>5. QED BY <3>3, <3>4
    <2>22. QED BY <1>3, <2>9, <2>10, <2>11, <2>12, <2>14, <2>15, <2>16, <2>17, <2>18,
                  <2>19, <2>20, <2>21 DEF Step
  <1>4. QED BY <1>1, <1>2, <1>3 DEF Next

\* Whatever overlaps, fails and dies, short of an authorisation granted while a
\* renewal has a token to store, the row keeps a refresh token the broker takes, or
\* one is on its way to it, or the broker's answer never arrived.
THEOREM KeptCorrect == ASSUME ~Crossing PROVE Spec => []RefreshTokenKept
  <1>1. KInv => RefreshTokenKept
    BY KeptIsRefreshTokenKept DEF KInv
  <1>2. QED BY <1>1, KInvInit, KInvStep, PTL DEF Spec

-----------------------------------------------------------------------------
(* The false expiry.  A call that marks the connection was refused with the      *)
(* token that the row had, or somebody has stored one meanwhile: then the row    *)
(* was renewed while the call was under way, and is still recent.                *)

Recent == age \in {"new", "fresh"}

\* What a call knows of the row at each of its steps.
Abreast(c) == call[c].pc \in {"renew", "grant", "store", "ready", "mark"} =>
                 Recent \/ refresh = call[c].mem
Renewed(c) == \/ call[c].pc \in {"healConn", "retry"}
              \/ call[c].pc = "healAccounts" /\ call[c].kind \in Ensure \cup {"client"}
              => Recent
Refused(c) == call[c].pc = "mark" => Recent \/ call[c].mem \notin valid

Sound(c) == Abreast(c) /\ Renewed(c) /\ Refused(c)

\* FalseExpiryIsHealed is inductive together with what the calls know.
HInv == TypeOK /\ Bounded /\ (\A c \in Calls : Sound(c)) /\ FalseExpiryIsHealed

\* What a step does to the row: nothing, or it stores what its call received.
LEMMA StepRow ==
    ASSUME NEW c \in Calls, Step(c)
    PROVE  /\ \/ UNCHANGED <<refresh, age>>
              \/ age' = "new" /\ refresh' \in {refresh, call[c].new}
           /\ conn' = "expired" => conn = "expired" \/ call[c].pc = "mark"
  <1>1. \/ UNCHANGED <<refresh, age>>
        \/ age' = "new" /\ refresh' \in {refresh, call[c].new}
    BY DEF Step, CronHeal, CronSelect, EnsureLoad, Load, ClientLoad,
           ClientUnauthorized, ClientRetry, ClientDone, RenewAccepted, RenewFailed,
           GrantAccepted, GrantRefused, GrantUnanswered, Store, HealConn,
           HealAccounts, StoreFails, Mark, MarkAccounts, ProbeRead, ReconnectGrant,
           ReconnectStore, Die
  <1>2. conn' = "expired" => conn = "expired" \/ call[c].pc = "mark"
    BY DEF Step, CronHeal, CronSelect, EnsureLoad, Load, ClientLoad,
           ClientUnauthorized, ClientRetry, ClientDone, RenewAccepted, RenewFailed,
           GrantAccepted, GrantRefused, GrantUnanswered, Store, HealConn,
           HealAccounts, StoreFails, Mark, MarkAccounts, ProbeRead, ReconnectGrant,
           ReconnectStore, Die
  <1>3. QED BY <1>1, <1>2

\* What a step does to what its own call knows and holds.
LEMMA SoundStep ==
    ASSUME HInv, NEW c \in Calls, Step(c)
    PROVE  /\ Sound(c)'
           /\ call'[c].mem \in {0, refresh, call[c].mem, call[c].new}
           /\ call'[c].new \in {0, call[c].new, minted'}
  <1> DEFINE t == call'[c]
             Carries == t.mem = call[c].mem /\ t.new = call[c].new /\ t.kind = call[c].kind
             Known == /\ t.mem \in {0, refresh, call[c].mem, call[c].new}
                      /\ t.new \in {0, call[c].new, minted'}
             Goal == Sound(c)' /\ Known
  <1>1. call[c] \in CallStates /\ call \in [Calls -> CallStates] /\ 0 \notin valid /\ Sound(c)
    BY DEF HInv, TypeOK
  <1>2. NoCall.pc = "idle" /\ NoCall.mem = 0 /\ NoCall.new = 0 /\ NoCall.kind = "none"
    BY DEF NoCall
  <1>3. CASE End(c)
    <2>1. t = NoCall
      BY <1>1, <1>3 DEF End
    <2>2. QED BY <1>2, <2>1 DEF Sound, Abreast, Renewed, Refused
  <1>4. ASSUME NEW pc, Goto(c, pc)
        PROVE  t.pc = pc /\ Carries
    <2>1. t = [call[c] EXCEPT !.pc = pc]
      BY <1>1, <1>4 DEF Goto
    <2>2. QED BY <1>1, <2>1 DEF CallStates
  <1>5. ASSUME call[c].pc \in {"renew", "store"} \/ Recent,
               UNCHANGED <<refresh, age, valid>>, NEW refused, AfterRenewFailure(c, refused)
        PROVE  Goal
    <2>1. CASE call[c].mem # 0 /\ Goto(c, "grant")
      BY <1>1, <1>4, <1>5, <2>1 DEF Sound, Abreast, Renewed, Refused, Recent
    <2>2. CASE call[c].mem = 0 /\ Goto(c, "mark")
      BY <1>1, <1>4, <1>5, <2>2 DEF Sound, Abreast, Renewed, Refused, Recent
    <2>3. QED BY <1>3, <1>5, <2>1, <2>2 DEF AfterRenewFailure
  <1>6. ASSUME NEW kind, Load(c, kind) PROVE Goal
    <2>1. CASE End(c)
      BY <1>3, <2>1
    <2>2. CASE ~End(c)
      <3>1. t = [NoCall EXCEPT !.kind = kind, !.pc = "renew", !.mem = refresh]
        BY <1>1, <1>6, <2>2 DEF Load
      <3>2. t.pc = "renew" /\ t.mem = refresh /\ t.new = 0 /\ UNCHANGED refresh
        BY <1>6, <3>1 DEF NoCall, Load
      <3>3. QED BY <3>2 DEF Sound, Abreast, Renewed, Refused
    <2>3. QED BY <2>1, <2>2
  <1>7. CASE CronHeal(c) \/ CronSelect(c) \/ EnsureLoad(c)
    <2>1. CASE CronHeal(c)
      <3>1. t = [NoCall EXCEPT !.kind = "cron", !.pc = "select"]
        BY <1>1, <2>1 DEF CronHeal
      <3>2. t.pc = "select" /\ t.mem = 0 /\ t.new = 0
        BY <3>1 DEF NoCall
      <3>3. QED BY <3>2 DEF Sound, Abreast, Renewed, Refused
    <2>2. CASE CronSelect(c)
      <3>1. CASE Goto(c, "load")
        BY <1>4, <3>1 DEF Sound, Abreast, Renewed, Refused
      <3>2. QED BY <1>3, <2>2, <3>1 DEF CronSelect
    <2>3. QED BY <1>6, <1>7, <2>1, <2>2 DEF EnsureLoad
  <1>8. CASE ClientLoad(c)
    <2> DEFINE pc == IF age = "due" THEN "renew" ELSE "ready"
    <2>1. t = [NoCall EXCEPT !.kind = "client", !.mem = refresh, !.pc = pc]
      BY <1>1, <1>8 DEF ClientLoad
    <2> HIDE DEF pc
    <2>2. t.pc = pc /\ t.mem = refresh /\ t.new = 0
      BY <2>1 DEF NoCall
    <2>3. pc \in {"renew", "ready"} /\ UNCHANGED refresh
      BY <1>8 DEF pc, ClientLoad
    <2>4. QED BY <2>2, <2>3 DEF Sound, Abreast, Renewed, Refused
  <1>9. CASE ClientUnauthorized(c) \/ RenewAccepted(c)
    <2>1. /\ call[c].pc \in {"ready", "renew"} /\ UNCHANGED <<refresh, age>>
          /\ \/ t = [call[c] EXCEPT !.pc = "renew", !.retry = TRUE]
             \/ t = [call[c] EXCEPT !.pc = "store", !.via = "renew"]
      BY <1>1, <1>9 DEF ClientUnauthorized, RenewAccepted, In
    <2>2. t.pc \in {"renew", "store"} /\ Carries
      BY <1>1, <2>1 DEF CallStates
    <2>3. QED BY <1>1, <2>1, <2>2 DEF Sound, Abreast, Renewed, Refused, Recent
  <1>10. CASE ClientRetry(c)
    <2>1. Recent /\ UNCHANGED age
      BY <1>1, <1>10 DEF ClientRetry, In, Sound, Renewed
    <2>2. CASE t = [call[c] EXCEPT !.pc = "ready", !.retry = FALSE]
      <3>1. t.pc = "ready" /\ Carries
        BY <1>1, <2>2 DEF CallStates
      <3>2. QED BY <2>1, <3>1 DEF Sound, Abreast, Renewed, Refused, Recent
    <2>3. CASE Goto(c, "mark")
      BY <1>4, <2>1, <2>3 DEF Sound, Abreast, Renewed, Refused, Recent
    <2>4. QED BY <1>1, <1>3, <1>10, <2>2, <2>3 DEF ClientRetry
  <1>11. CASE RenewFailed(c)
    BY <1>3, <1>5, <1>11 DEF RenewFailed, In
  <1>12. CASE GrantAccepted(c)
    <2>1. /\ call[c].pc = "grant" /\ UNCHANGED <<refresh, age>>
          /\ \/ t = [call[c] EXCEPT !.pc = "store", !.via = "grant", !.new = minted + 1]
                /\ minted' = minted + 1
             \/ t = [call[c] EXCEPT !.pc = "store", !.via = "grant"]
      BY <1>1, <1>12 DEF GrantAccepted, In, Rotate
    <2>2. t.pc = "store" /\ t.mem = call[c].mem /\ t.new \in {call[c].new, minted'}
      BY <1>1, <2>1 DEF CallStates
    <2>3. QED BY <1>1, <2>1, <2>2 DEF Sound, Abreast, Renewed, Refused, Recent
  <1>13. CASE GrantRefused(c)
    <2>1. CASE Goto(c, "mark")
      BY <1>1, <1>4, <1>13, <2>1
         DEF GrantRefused, In, Sound, Abreast, Renewed, Refused, Recent
    <2>2. QED BY <1>3, <1>13, <2>1 DEF GrantRefused
  <1>14. CASE Store(c) \/ ReconnectStore(c)
    <2>1. CASE Store(c)
      <3> DEFINE pc == IF call[c].kind = "client" THEN "healAccounts" ELSE "healConn"
                 mem == IF call[c].new # 0 THEN call[c].new ELSE call[c].mem
      <3>1. t = [call[c] EXCEPT !.pc = pc, !.mem = mem, !.new = 0]
        BY <1>1, <2>1 DEF Store, CallStates
      <3> HIDE DEF pc
      <3>2. t.mem = mem /\ t.new = 0
        BY <1>1, <3>1 DEF CallStates
      <3>3. age' = "new"
        BY <2>1 DEF Store
      <3>4. QED BY <3>2, <3>3 DEF Sound, Abreast, Renewed, Refused, Recent
    <2>2. CASE ReconnectStore(c)
      <3>1. t = [call[c] EXCEPT !.pc = "healAccounts", !.new = 0] /\ age' = "new"
        BY <1>1, <2>2 DEF ReconnectStore
      <3>2. t.mem = call[c].mem /\ t.new = 0
        BY <1>1, <3>1 DEF CallStates
      <3>3. QED BY <3>1, <3>2 DEF Sound, Abreast, Renewed, Refused, Recent
    <2>3. QED BY <1>14, <2>1, <2>2
  <1>15. CASE HealConn(c) \/ HealAccounts(c)
    <2>1. CASE HealConn(c)
      BY <1>1, <1>4, <2>1 DEF HealConn, In, Sound, Abreast, Renewed, Refused, Recent
    <2>2. CASE call[c].kind = "client" /\ HealAccounts(c)
      <3>1. Recent /\ UNCHANGED age
        BY <1>1, <2>2 DEF HealAccounts, Sound, Renewed
      <3>2. Goto(c, "retry") \/ Goto(c, "ready")
        BY <1>1, <2>2 DEF HealAccounts, CallStates
      <3>3. QED BY <1>4, <3>1, <3>2 DEF Sound, Abreast, Renewed, Refused, Recent
    <2>3. CASE call[c].kind # "client" /\ HealAccounts(c)
      BY <1>3, <2>3 DEF HealAccounts
    <2>4. QED BY <1>15, <2>1, <2>2, <2>3
  <1>16. CASE StoreFails(c)
    <2>1. call[c].pc = "store" \/ Recent
      BY <1>1, <1>16 DEF StoreFails, In, Sound, Renewed
    <2>2. QED BY <1>3, <1>5, <1>16, <2>1 DEF StoreFails
  <1>17. CASE Mark(c)
    <2>1. CASE Goto(c, "markAccounts")
      BY <1>4, <2>1 DEF Sound, Abreast, Renewed, Refused
    <2>2. QED BY <1>3, <1>17, <2>1 DEF Mark
  <1>18. CASE ProbeRead(c)
    <2>1. t = [NoCall EXCEPT !.kind = "probe", !.pc = "healAccounts"]
      BY <1>1, <1>18 DEF ProbeRead
    <2>2. t.pc = "healAccounts" /\ t.kind = "probe" /\ t.mem = 0 /\ t.new = 0
      BY <2>1 DEF NoCall
    <2>3. QED BY <2>2 DEF Sound, Abreast, Renewed, Refused, Ensure
  <1>19. CASE ReconnectGrant(c)
    <2>1. \/ t = [NoCall EXCEPT !.kind = "reconnect", !.pc = "adopt", !.new = minted + 1]
             /\ minted' = minted + 1
          \/ t = [NoCall EXCEPT !.kind = "reconnect", !.pc = "adopt"]
      BY <1>1, <1>19 DEF ReconnectGrant
    <2>2. t.pc = "adopt" /\ t.mem = 0 /\ t.new \in {0, minted'}
      BY <2>1 DEF NoCall
    <2>3. QED BY <2>2 DEF Sound, Abreast, Renewed, Refused
  <1>20. QED
    BY <1>3, <1>7, <1>8, <1>9, <1>10, <1>11, <1>12, <1>13, <1>14, <1>15, <1>16, <1>17,
       <1>18, <1>19
       DEF Step, ClientDone, GrantUnanswered, MarkAccounts, Die

LEMMA HInvInit == Init => HInv
  <1> SUFFICES ASSUME Init PROVE HInv
    OBVIOUS
  <1>1. TypeOK
    BY TypeInit
  <1>2. \A c \in Calls : call[c].new = 0 /\ call[c].mem = 0 /\ call[c].pc = "idle"
    BY DEF Init, NoCall
  <1>3. QED BY <1>1, <1>2 DEF Init, HInv, Bounded, Sound, Abreast, Renewed, Refused,
                              FalseExpiryIsHealed

LEMMA HInvStep == ASSUME Timely PROVE HInv /\ [Next]_vars => HInv'
  <1> SUFFICES ASSUME HInv, [Next]_vars PROVE HInv'
    OBVIOUS
  <1>0. TypeOK /\ TypeOK'
    BY TypeStep DEF HInv
  <1>1. CASE Revoke \/ UNCHANGED vars
    <2>1. valid' \subseteq valid /\ UNCHANGED <<conn, refresh, age, call, minted, lost>>
      BY <1>1 DEF Revoke, vars
    <2>2. QED BY <1>0, <2>1 DEF HInv, Bounded, Sound, Abreast, Renewed, Refused, Recent,
                                 FalseExpiryIsHealed, Healable
  <1>2. CASE Age
    <2>1. UNCHANGED <<conn, refresh, call, minted, valid, lost>>
      BY <1>2 DEF Age
    <2>2. Recent' \/ ~Recent \/ (Quiet /\ ~Healable)
      BY <1>2 DEF Age, Recent
    <2>3. QED BY <1>0, <2>1, <2>2 DEF HInv, Bounded, Sound, Abreast, Renewed, Refused,
                                       Recent, Quiet, FalseExpiryIsHealed, Healable
  <1>3. ASSUME NEW c \in Calls, Step(c) PROVE HInv'
    <2>1. PICK t \in CallStates : Touches(c, t)
      BY <1>0, <1>3, StepTouches
    <2>2. \A d \in Calls : d # c => call'[d] = call[d]
      BY <1>0, <2>1 DEF Touches, TypeOK
    <2>3. /\ call \in [Calls -> CallStates] /\ valid \subseteq 1..MaxToken
          /\ lost \subseteq 1..MaxToken /\ minted \in 0..MaxToken /\ refresh \in 0..MaxToken
          /\ \A d \in Calls : call[d].new \in 0..MaxToken /\ call[d].mem \in 0..MaxToken
      BY <1>0 DEF TypeOK, CallStates, Tokens
    <2>4. /\ refresh <= minted /\ \A u \in valid \cup lost : u <= minted
          /\ \A d \in Calls : call[d].mem <= minted /\ call[d].new <= minted
      BY DEF HInv, Bounded
    <2>5. /\ valid' \subseteq valid \cup {minted + 1}
          /\ lost' \subseteq lost \cup {call[c].new, minted'}
          /\ minted' \in {minted, minted + 1} /\ (minted' = minted => valid' \subseteq valid)
      BY <1>3, <2>3, StepTokens
    <2>6. /\ \/ UNCHANGED <<refresh, age>>
             \/ age' = "new" /\ refresh' \in {refresh, call[c].new}
          /\ conn' = "expired" => conn = "expired" \/ call[c].pc = "mark"
      BY <1>3, StepRow
    <2>7. /\ Sound(c)'
          /\ call'[c].mem \in {0, refresh, call[c].mem, call[c].new}
          /\ call'[c].new \in {0, call[c].new, minted'}
      BY <1>3, SoundStep
    <2>8. Bounded'
      <3>1. refresh' <= minted'
        BY <2>3, <2>4, <2>5, <2>6
      <3>2. ASSUME NEW d \in Calls PROVE call'[d].mem <= minted' /\ call'[d].new <= minted'
        <4>1. CASE d = c
          BY <2>3, <2>4, <2>5, <2>7, <4>1
        <4>2. CASE d # c
          BY <2>2, <2>3, <2>4, <2>5, <4>2
        <4>3. QED BY <4>1, <4>2
      <3>3. ASSUME NEW u \in valid' \cup lost' PROVE u <= minted'
        <4>1. CASE u \in valid
          BY <2>3, <2>4, <2>5, <4>1
        <4>2. CASE u \in lost
          BY <2>3, <2>4, <2>5, <4>2
        <4>3. CASE u = call[c].new \/ u = minted'
          BY <2>3, <2>4, <2>5, <4>3
        <4>4. CASE u = minted + 1 /\ minted' = minted + 1
          BY <2>3, <4>4
        <4>5. QED BY <2>5, <3>3, <4>1, <4>2, <4>3, <4>4
      <3>4. QED BY <3>1, <3>2, <3>3 DEF Bounded
    <2>9. ASSUME NEW d \in Calls PROVE Sound(d)'
      <3>1. CASE d = c
        BY <2>7, <3>1
      <3>2. CASE d # c
        <4>1. Sound(d) /\ call'[d] = call[d]
          BY <2>2, <3>2 DEF HInv
        <4>2. call[d].mem \notin valid => call[d].mem \notin valid'
          BY <2>3, <2>4, <2>5
        <4>3. Recent' \/ UNCHANGED <<refresh, age>>
          BY <2>6 DEF Recent
        <4>4. QED BY <4>1, <4>2, <4>3 DEF Sound, Abreast, Renewed, Refused, Recent
      <3>3. QED BY <3>1, <3>2
    <2>10. FalseExpiryIsHealed'
      <3> SUFFICES ASSUME conn' = "expired", refresh' \in valid' PROVE Recent'
        BY DEF FalseExpiryIsHealed, Healable, Recent
      <3>1. CASE age' = "new"
        BY <3>1 DEF Recent
      <3>2. CASE UNCHANGED <<refresh, age>>
        <4>1. refresh \in valid
          BY <2>3, <2>4, <2>5, <3>2
        <4>2. CASE conn = "expired"
          BY <3>2, <4>1, <4>2 DEF HInv, FalseExpiryIsHealed, Healable, Recent
        <4>3. CASE call[c].pc = "mark"
          BY <3>2, <4>1, <4>3 DEF HInv, Sound, Abreast, Refused, Recent
        <4>4. QED BY <2>6, <4>2, <4>3
      <3>3. QED BY <2>6, <3>1, <3>2
    <2>11. QED BY <1>0, <2>8, <2>9, <2>10 DEF HInv
  <1>4. QED BY <1>1, <1>2, <1>3 DEF Next

\* As long as the cron and the calls keep pace with the tokens' ageing, a connection
\* whose refresh token the broker still takes is never expired for longer than until
\* the cron's next heal, though callers overlap, fail, die and mark it as they find it,
\* and though a user authorises at any moment.
THEOREM HealedCorrect == ASSUME Timely PROVE Spec => []FalseExpiryIsHealed
  <1>1. HInv => FalseExpiryIsHealed
    BY DEF HInv
  <1>2. QED BY <1>1, HInvInit, HInvStep, PTL DEF Spec
=============================================================================
