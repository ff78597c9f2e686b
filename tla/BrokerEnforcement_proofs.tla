---------------------- MODULE BrokerEnforcement_proofs ----------------------
(***************************************************************************)
(* BrokerEnforcement for any number of calls, keys and lock rows: types,   *)
(* the two invariants that survive every interleaving and failure, and the *)
(* refinement of EnforcementLedger.                                        *)
(***************************************************************************)
EXTENDS BrokerEnforcement, TLAPS

-----------------------------------------------------------------------------
(* Types *)

LEMMA RowsNotEmpty == NoRow \in Rows
  <1>1. PICK k \in Keys : TRUE
    BY KeysAssumption
  <1>2. [key |-> k, gen |-> 1] \in Rows
    BY <1>1, MaxLocksAssumption DEF Rows
  <1>3. QED BY <1>2 DEF NoRow

LEMMA IdleType == AttemptIdle \in AttemptStates
  BY RowsNotEmpty DEF AttemptIdle, AttemptStates

LEMMA TypeInit == Init => TypeOK
  BY IdleType DEF Init, TypeOK, RowStates

LEMMA TypeStep == TypeOK /\ [Next]_vars => TypeOK'
  <1> SUFFICES ASSUME TypeOK, [Next]_vars PROVE TypeOK'
    OBVIOUS
  <1>1. CASE SetGuardian
    BY <1>1 DEF TypeOK, SetGuardian
  <1>2. ASSUME NEW r \in Rows, LockBorn(r) \/ LockCleared(r) PROVE TypeOK'
    BY <1>2 DEF TypeOK, LockBorn, LockCleared, RowStates
  <1>3. ASSUME NEW a \in Attempts, NEW kind \in Kinds, NEW r \in Rows,
               Load(a, kind, r)
        PROVE  TypeOK'
    <2> DEFINE late == recorded[r.key] # "none"
               t == [AttemptIdle EXCEPT !.kind = kind, !.row = r, !.pc = "check",
                                        !.late = late]
    <2>1. late \in BOOLEAN
      OBVIOUS
    <2> HIDE DEF late
    <2>2. t \in AttemptStates
      BY <1>3, <2>1, IdleType DEF Load, AttemptStates, AttemptIdle
    <2>3. attempt' = [attempt EXCEPT ![a] = t]
      BY <1>3 DEF Load, late
    <2> HIDE DEF t
    <2>4. QED BY <1>3, <2>2, <2>3 DEF TypeOK, Load
  <1>4. ASSUME NEW a \in Attempts, NEW goOn, Check(a, goOn) PROVE TypeOK'
    BY <1>4 DEF TypeOK, Check, Goto, AttemptStates
  <1>5. ASSUME NEW a \in Attempts, Write(a) PROVE TypeOK'
    <2>1. PICK result \in Results :
            /\ attempt' = [attempt EXCEPT ![a] =
                 [@ EXCEPT !.pc = "record", !.status = result.status,
                           !.sent = result.sent]]
            /\ confirmed' = IF result.status = "broker_locked"
                            THEN confirmed \cup {Key(a)} ELSE confirmed
      BY <1>5 DEF Write
    <2>2. result.status \in Statuses /\ result.sent \in BOOLEAN
      BY DEF Results, Statuses
    <2>3. attempt' \in [Attempts -> AttemptStates]
      <3> DEFINE t == [attempt[a] EXCEPT !.pc = "record",
                         !.status = result.status, !.sent = result.sent]
      <3>1. t \in AttemptStates
        BY <2>2, ZenonT(30) DEF TypeOK, AttemptStates
      <3>2. attempt' = [attempt EXCEPT ![a] = t]
        BY <2>1
      <3> HIDE DEF t
      <3>3. QED BY <3>1, <3>2 DEF TypeOK
    <2>4. confirmed' \subseteq Keys
      BY <2>1 DEF TypeOK, AttemptStates, Key, Rows
    <2>5. QED BY <1>5, <2>3, <2>4 DEF TypeOK, Write
  <1>6. ASSUME NEW a \in Attempts,
               ListenerRecord(a) \/ C7bRecord(a) \/ ManualRecord(a) \/ RetryRecord(a)
        PROVE  TypeOK'
    <2>1. attempt[a] \in AttemptStates
      BY DEF TypeOK
    <2>2. AfterRecord(a) \in {"mark", "done"}
      BY DEF AfterRecord
    <2>3. attempt' \in [Attempts -> AttemptStates]
      <3>1. ASSUME NEW pc \in {"mark", "done"}, Goto(a, pc)
            PROVE  attempt' \in [Attempts -> AttemptStates]
        <4>1. [attempt[a] EXCEPT !.pc = pc] \in AttemptStates
          BY ZenonT(30) DEF TypeOK, AttemptStates
        <4>2. \E t \in AttemptStates : attempt' = [attempt EXCEPT ![a] = t]
          BY <3>1, <4>1 DEF Goto
        <4>3. QED BY <4>2 DEF TypeOK
      <3>2. QED BY <1>6, <2>2, <3>1
                DEF ListenerRecord, C7bRecord, ManualRecord, RetryRecord
    <2>4. recorded' \in [Keys -> Statuses \cup {"none"}]
      BY <1>6, <2>1 DEF TypeOK, AttemptStates, ListenerRecord, C7bRecord,
                        ManualRecord, RetryRecord
    <2>5. QED BY <1>6, <2>3, <2>4
              DEF TypeOK, ListenerRecord, C7bRecord, ManualRecord, RetryRecord
  <1>7. ASSUME NEW a \in Attempts, Mark(a) \/ Die(a) PROVE TypeOK'
    <2>1. [attempt[a] EXCEPT !.pc = "done"] \in AttemptStates
      BY ZenonT(30) DEF TypeOK, AttemptStates
    <2>2. attempt' \in [Attempts -> AttemptStates]
      BY <1>7, <2>1 DEF TypeOK, Mark, Die, Goto
    <2>3. taken' \subseteq Rows
      BY <1>7 DEF TypeOK, AttemptStates, Mark, Die
    <2>4. QED BY <1>7, <2>2, <2>3 DEF TypeOK, Mark, Die
  <1>8. CASE UNCHANGED vars
    BY <1>8 DEF TypeOK, vars
  <1>9. ASSUME NEW a \in Attempts, Call(a) PROVE TypeOK'
    BY <1>3, <1>4, <1>5, <1>6, <1>7, <1>9
       DEF Call, Kinds, ListenerLoad, ListenerCheck, AutomaticWrite, C7bLoad,
           C7bCheck, ManualLoad, ManualCheck, ManualWrite, RetryLoad, RetryCheck
  <1>10. QED BY <1>1, <1>2, <1>8, <1>9 DEF Next

\* Every state the four callers reach, interleaved and interrupted anyhow, is well
\* typed.
THEOREM TypeCorrect == Spec => []TypeOK
  BY TypeInit, TypeStep, PTL DEF Spec

-----------------------------------------------------------------------------
(* Every interleaving.  What is recorded stays recorded and what is confirmed   *)
(* stays confirmed, so what a call has learnt stays true while others run.      *)

Sound(a) ==
    /\ attempt[a].kind \in {"listener", "manual"} /\ attempt[a].late
         => /\ ~attempt[a].sent
            /\ attempt[a].pc \in {"check", "done"}
            /\ recorded[Key(a)] # "none"
    /\ attempt[a].pc = "record" => attempt[a].status # "none"
    /\ attempt[a].pc = "record" /\ attempt[a].status = "broker_locked"
         => Key(a) \in confirmed
    /\ attempt[a].pc = "mark" => Key(a) \in confirmed
    /\ attempt[a].pc \notin {"idle", "done"} /\ attempt[a].kind \in {"manual", "retry"}
         => Key(a) \in ManualKeys
    /\ attempt[a].pc \in {"write", "record", "mark"} => attempt[a].kind \in Kinds

IInv == TypeOK /\ (\A a \in Attempts : Sound(a)) /\ NoFalseLock

Grows == /\ \A k \in Keys : recorded[k] # "none" => recorded'[k] # "none"
         /\ confirmed \subseteq confirmed'

LEMMA KeyType == TypeOK => \A a \in Attempts : Key(a) \in Keys
  BY DEF TypeOK, AttemptStates, Rows, Key

LEMMA SoundKept ==
    ASSUME TypeOK, Grows, NEW a \in Attempts, Sound(a), attempt'[a] = attempt[a]
    PROVE  Sound(a)'
  BY KeyType DEF Sound, Grows, Key

LEMMA SafeInit == Init => IInv
  BY TypeInit DEF Init, IInv, Sound, NoFalseLock, AttemptIdle

LEMMA SafeStep == IInv /\ [Next]_vars => IInv'
  <1> SUFFICES ASSUME IInv, [Next]_vars PROVE IInv'
    OBVIOUS
  <1> USE DEF IInv
  <1>1. TypeOK'
    BY TypeStep
  <1>2. \A a \in Attempts : Key(a) \in Keys
    BY KeyType
  <1>3. CASE attempt' = attempt /\ UNCHANGED <<taken, recorded, confirmed>>
    BY <1>1, <1>3 DEF Sound, NoFalseLock, Key
  <1>4. ASSUME NEW a \in Attempts, Grows, NoFalseLock', Sound(a)',
               \A b \in Attempts \ {a} : attempt'[b] = attempt[b]
        PROVE  IInv'
    BY <1>1, <1>4, SoundKept
  <1>5. ASSUME NEW a \in Attempts, NEW kind \in Kinds, NEW r \in Rows,
               kind \in {"manual", "retry"} => r.key \in ManualKeys,
               Load(a, kind, r)
        PROVE  IInv'
    <2>1. Grows /\ NoFalseLock'
      BY <1>5 DEF Load, Grows, NoFalseLock
    <2> DEFINE late == recorded[r.key] # "none"
    <2>a. attempt' = [attempt EXCEPT ![a] =
            [AttemptIdle EXCEPT !.kind = kind, !.row = r, !.pc = "check",
                                !.late = late]]
      BY <1>5 DEF Load
    <2> HIDE DEF late
    <2>2. /\ attempt'[a].kind = kind /\ attempt'[a].row = r
          /\ attempt'[a].pc = "check" /\ attempt'[a].sent = FALSE
          /\ attempt'[a].late = late
          /\ \A b \in Attempts \ {a} : attempt'[b] = attempt[b]
      BY <2>a DEF TypeOK, AttemptIdle
    <2>3. Sound(a)'
      BY <1>5, <2>2 DEF Load, Sound, Key, late
    <2>4. QED BY <1>4, <2>1, <2>2, <2>3
  <1>6. ASSUME NEW a \in Attempts, NEW pc \in {"write", "done"}, Goto(a, pc),
               UNCHANGED <<guardian, rows, taken, recorded, confirmed>>,
               attempt[a].pc = "check", attempt[a].kind \in Kinds,
               pc = "write" /\ attempt[a].kind \in {"listener", "manual"}
                 => recorded[Key(a)] = "none"
        PROVE  IInv'
    <2>1. Grows /\ NoFalseLock'
      BY <1>6 DEF Grows, NoFalseLock
    <2>2. /\ attempt'[a] = [attempt[a] EXCEPT !.pc = pc]
          /\ \A b \in Attempts \ {a} : attempt'[b] = attempt[b]
      BY <1>6 DEF Goto, TypeOK
    <2>3. attempt[a] \in AttemptStates
      BY DEF TypeOK
    <2>4. Sound(a)'
      BY <1>6, <2>2, <2>3 DEF Sound, Key, AttemptStates
    <2>5. QED BY <1>4, <2>1, <2>2, <2>4
  <1>7. ASSUME NEW a \in Attempts, attempt[a].pc = "write", Write(a) PROVE IInv'
    <2>1. PICK result \in Results :
            /\ attempt' = [attempt EXCEPT ![a] =
                 [@ EXCEPT !.pc = "record", !.status = result.status,
                           !.sent = result.sent]]
            /\ confirmed' = IF result.status = "broker_locked"
                            THEN confirmed \cup {Key(a)} ELSE confirmed
      BY <1>7 DEF Write
    <2>2. attempt[a] \in AttemptStates
      BY DEF TypeOK
    <2>3. /\ attempt'[a] = [attempt[a] EXCEPT !.pc = "record",
                              !.status = result.status, !.sent = result.sent]
          /\ \A b \in Attempts \ {a} : attempt'[b] = attempt[b]
      BY <2>1 DEF TypeOK
    <2>4. Grows /\ NoFalseLock'
      BY <1>7, <2>1 DEF Write, Grows, NoFalseLock
    <2>5. Sound(a)'
      <3>1. result.status # "none"
        BY DEF Results, Statuses
      <3>2. ~(attempt[a].kind \in {"listener", "manual"} /\ attempt[a].late)
        BY <1>7 DEF Sound
      <3>3. /\ attempt'[a].pc = "record" /\ attempt'[a].status = result.status
            /\ attempt'[a].kind = attempt[a].kind /\ attempt'[a].row = attempt[a].row
            /\ attempt'[a].late = attempt[a].late
        BY <2>2, <2>3 DEF AttemptStates
      <3>4. QED BY <1>7, <2>1, <3>1, <3>2, <3>3 DEF Sound, Key
    <2>6. QED BY <1>4, <2>3, <2>4, <2>5
  <1>8. ASSUME NEW a \in Attempts,
               ListenerRecord(a) \/ C7bRecord(a) \/ ManualRecord(a) \/ RetryRecord(a)
        PROVE  IInv'
    <2>1. attempt[a] \in AttemptStates /\ attempt[a].pc = "record" /\ Sound(a)
      BY <1>8 DEF TypeOK, In, ListenerRecord, C7bRecord, ManualRecord, RetryRecord
    <2>2. PICK pc \in {"done", "mark"} :
            /\ Goto(a, pc)
            /\ pc = "mark" => /\ attempt[a].status = "broker_locked"
                              /\ attempt[a].kind \in {"manual", "retry"}
      BY <1>8 DEF AfterRecord, In, ListenerRecord, C7bRecord, ManualRecord, RetryRecord
    <2>3. /\ attempt'[a].pc = pc
          /\ attempt'[a].kind = attempt[a].kind /\ attempt'[a].row = attempt[a].row
          /\ attempt'[a].late = attempt[a].late /\ attempt'[a].sent = attempt[a].sent
          /\ \A b \in Attempts \ {a} : attempt'[b] = attempt[b]
      BY <2>1, <2>2 DEF Goto, TypeOK, AttemptStates
    <2>4. /\ UNCHANGED <<taken, confirmed>>
          /\ \/ UNCHANGED recorded
             \/ recorded' = [recorded EXCEPT ![Key(a)] = attempt[a].status]
      BY <1>8 DEF ListenerRecord, C7bRecord, ManualRecord, RetryRecord
    <2>5. attempt[a].status # "none"
      BY <2>1, <1>8 DEF Sound
    <2>6. Grows
      BY <1>2, <2>4, <2>5 DEF Grows, TypeOK
    <2>7. NoFalseLock'
      BY <1>2, <2>1, <2>4 DEF NoFalseLock, Sound, TypeOK
    <2>8. Sound(a)'
      BY <2>1, <2>2, <2>3, <2>4 DEF Sound, Key
    <2>9. QED BY <1>4, <2>3, <2>6, <2>7, <2>8
  <1>9. ASSUME NEW a \in Attempts, Mark(a) \/ Die(a) PROVE IInv'
    <2>1. /\ attempt'[a] = [attempt[a] EXCEPT !.pc = "done"]
          /\ \A b \in Attempts \ {a} : attempt'[b] = attempt[b]
          /\ attempt[a] \in AttemptStates
      BY <1>9 DEF Mark, Die, Goto, TypeOK
    <2>2. Grows /\ UNCHANGED <<recorded, confirmed>>
      BY <1>9 DEF Mark, Die, Grows
    <2>3. NoFalseLock'
      BY <1>9 DEF Mark, Die, In, NoFalseLock, Sound, Key
    <2>4. Sound(a)'
      BY <1>9, <2>1, <2>2 DEF Sound, Key, AttemptStates, Mark, Die, In
    <2>5. QED BY <1>4, <2>1, <2>2, <2>3, <2>4
  <1>10. ASSUME NEW a \in Attempts, Call(a) PROVE IInv'
    <2>1. CASE ListenerLoad(a) \/ C7bLoad(a) \/ ManualLoad(a) \/ RetryLoad(a)
      BY <1>5, <2>1 DEF ListenerLoad, C7bLoad, ManualLoad, RetryLoad, Kinds
    <2>2. CASE ListenerCheck(a) \/ C7bCheck(a) \/ ManualCheck(a) \/ RetryCheck(a)
      <3>1. /\ attempt[a].pc = "check" /\ attempt[a].kind \in Kinds
            /\ UNCHANGED <<guardian, rows, taken, recorded, confirmed>>
        BY <2>2 DEF ListenerCheck, C7bCheck, ManualCheck, RetryCheck, In, Check, Kinds
      <3>2. \/ Goto(a, "done")
            \/ /\ Goto(a, "write")
               /\ attempt[a].kind \in {"listener", "manual"} => recorded[Key(a)] = "none"
        BY <2>2 DEF ListenerCheck, C7bCheck, ManualCheck, RetryCheck, In, Check
      <3>3. QED BY <1>6, <3>1, <3>2
    <2>3. CASE AutomaticWrite(a) \/ ManualWrite(a)
      BY <1>7, <2>3 DEF AutomaticWrite, ManualWrite, In
    <2>4. QED BY <1>8, <1>9, <1>10, <2>1, <2>2, <2>3 DEF Call
  <1>11. CASE SetGuardian \/ \E r \in Rows : LockBorn(r) \/ LockCleared(r)
    BY <1>3, <1>11 DEF SetGuardian, LockBorn, LockCleared
  <1>12. CASE UNCHANGED vars
    BY <1>3, <1>12 DEF vars
  <1>13. QED BY <1>10, <1>11, <1>12 DEF Next

\* Whatever overlaps or dies, a call of the listener or of the lockout route that
\* began after its key was recorded sends nothing to the broker.
THEOREM FinalCorrect == Spec => []RecordedKeyIsFinal
  <1>1. IInv => RecordedKeyIsFinal
    BY DEF IInv, Sound, RecordedKeyIsFinal
  <1>2. QED BY SafeInit, SafeStep, <1>1, PTL DEF Spec

\* Whatever overlaps or dies, a broker lock in the audit rows, or marked on a lock
\* row, was confirmed by the broker.
THEOREM NoFalseLockCorrect == Spec => []NoFalseLock
  <1>1. IInv => NoFalseLock
    BY DEF IInv
  <1>2. QED BY SafeInit, SafeStep, <1>1, PTL DEF Spec

-----------------------------------------------------------------------------
(* The ledger.  A step of one call changes its own turn and, when it records,   *)
(* its own key's outcome; the strengthening says what a call has asked for at   *)
(* each of its steps.                                                           *)

Asks(a) ==
    /\ attempt[a].pc \in {"check", "write"} => ~attempt[a].sent
    /\ attempt[a].pc = "record"
         => /\ attempt[a].status # "none"
            /\ attempt[a].status = "broker_locked" => attempt[a].sent

LInv == TypeOK /\ \A a \in Attempts : Asks(a)

LEMMA AsksInit == Init => LInv
  BY TypeInit DEF Init, LInv, Asks, AttemptIdle

LEMMA AsksStep == LInv /\ [Next]_vars => LInv'
  <1> SUFFICES ASSUME LInv, [Next]_vars PROVE LInv'
    OBVIOUS
  <1>1. TypeOK /\ TypeOK'
    BY TypeStep DEF LInv
  <1>2. \A a \in Attempts : attempt[a] \in AttemptStates /\ Asks(a)
    BY DEF LInv, TypeOK
  <1>3. CASE attempt' = attempt
    BY <1>1, <1>2, <1>3 DEF LInv, Asks
  <1>4. ASSUME NEW a \in Attempts, Asks(a)',
               \A b \in Attempts \ {a} : attempt'[b] = attempt[b]
        PROVE  LInv'
    BY <1>1, <1>2, <1>4 DEF LInv, Asks
  <1>5. ASSUME NEW a \in Attempts, NEW kind, NEW r, Load(a, kind, r) PROVE LInv'
    <2> DEFINE late == recorded[r.key] # "none"
    <2>1. attempt' = [attempt EXCEPT ![a] =
            [AttemptIdle EXCEPT !.kind = kind, !.row = r, !.pc = "check",
                                !.late = late]]
      BY <1>5 DEF Load
    <2> HIDE DEF late
    <2>2. Asks(a)' /\ \A b \in Attempts \ {a} : attempt'[b] = attempt[b]
      BY <1>1, <2>1 DEF TypeOK, AttemptIdle, Asks
    <2>3. QED BY <1>4, <2>2
  <1>6. ASSUME NEW a \in Attempts, NEW pc \in {"write", "mark", "done"}, Goto(a, pc),
               pc = "write" => attempt[a].pc = "check"
        PROVE  LInv'
    <2>1. Asks(a)' /\ \A b \in Attempts \ {a} : attempt'[b] = attempt[b]
      BY <1>1, <1>2, <1>6 DEF TypeOK, AttemptStates, Goto, Asks
    <2>2. QED BY <1>4, <2>1
  <1>7. ASSUME NEW a \in Attempts, Write(a) PROVE LInv'
    <2>1. PICK result \in Results :
            attempt' = [attempt EXCEPT ![a] =
              [@ EXCEPT !.pc = "record", !.status = result.status,
                        !.sent = result.sent]]
      BY <1>7 DEF Write
    <2>2. result.status # "none" /\ (result.status = "broker_locked" => result.sent)
      BY DEF Results, Statuses
    <2>3. Asks(a)' /\ \A b \in Attempts \ {a} : attempt'[b] = attempt[b]
      BY <1>1, <1>2, <2>1, <2>2 DEF TypeOK, AttemptStates, Asks
    <2>4. QED BY <1>4, <2>3
  <1>8. ASSUME NEW a \in Attempts, Call(a) PROVE LInv'
    <2>1. CASE ListenerLoad(a) \/ C7bLoad(a) \/ ManualLoad(a) \/ RetryLoad(a)
      BY <1>5, <2>1 DEF ListenerLoad, C7bLoad, ManualLoad, RetryLoad
    <2>2. CASE ListenerCheck(a) \/ C7bCheck(a) \/ ManualCheck(a) \/ RetryCheck(a)
      BY <1>6, <2>2 DEF ListenerCheck, C7bCheck, ManualCheck, RetryCheck, In, Check
    <2>3. CASE AutomaticWrite(a) \/ ManualWrite(a)
      BY <1>7, <2>3 DEF AutomaticWrite, ManualWrite
    <2>4. CASE ListenerRecord(a) \/ C7bRecord(a) \/ ManualRecord(a) \/ RetryRecord(a)
               \/ Mark(a) \/ Die(a)
      BY <1>6, <2>4 DEF ListenerRecord, C7bRecord, ManualRecord, RetryRecord, Mark, Die,
                        AfterRecord
    <2>5. QED BY <1>8, <2>1, <2>2, <2>3, <2>4 DEF Call
  <1>9. CASE SetGuardian \/ (\E r \in Rows : LockBorn(r) \/ LockCleared(r))
             \/ UNCHANGED vars
    BY <1>3, <1>9 DEF SetGuardian, LockBorn, LockCleared, vars
  <1>10. QED BY <1>8, <1>9 DEF Next

TurnSet == {TurnOf(a) : a \in {b \in Attempts : Turning(b)}}

\* Another call's step leaves a turn alone.
LEMMA OneTurn ==
    ASSUME NEW a \in Attempts,
           \A b \in Attempts \ {a} : attempt'[b] = attempt[b]
    PROVE  /\ Turning(a) => TurnSet \ {TurnOf(a)} = {t \in TurnSet : t.call # a}
           /\ ~Turning(a) => TurnSet = {t \in TurnSet : t.call # a}
           /\ Turning(a)' => TurnSet' = {t \in TurnSet : t.call # a} \cup {TurnOf(a)'}
           /\ ~Turning(a)' => TurnSet' = {t \in TurnSet : t.call # a}
  <1>1. \A b \in Attempts : TurnOf(b).call = b /\ TurnOf(b)'.call = b
    BY DEF TurnOf
  <1>2. \A b \in Attempts \ {a} : TurnOf(b)' = TurnOf(b) /\ Turning(b)' = Turning(b)
    BY DEF TurnOf, Turning, Key
  <1>3. QED BY <1>1, <1>2 DEF TurnSet

LEMMA LedgerInit == Init => Ledger!Init
  <1> SUFFICES ASSUME Init PROVE Ledger!Init
    OBVIOUS
  <1>1. TurnSet = {}
    BY DEF Init, AttemptIdle, TurnSet, Turning
  <1>2. QED BY <1>1 DEF Init, Ledger!Init, TurnSet

LEMMA LedgerStep == LInv /\ [Next]_vars => [Ledger!Next]_(Ledger!vars)
  <1> SUFFICES ASSUME LInv, [Next]_vars,
                      ~(TurnSet' = TurnSet /\ recorded' = recorded)
               PROVE  Ledger!Next
    BY DEF Ledger!vars, TurnSet
  <1>1. \A a \in Attempts : attempt[a] \in AttemptStates /\ Asks(a) /\ Key(a) \in Keys
    BY KeyType DEF LInv, TypeOK
  <1>2. CASE attempt' = attempt /\ UNCHANGED recorded
    BY <1>2 DEF TurnSet, TurnOf, Turning, Key
  <1>3. ASSUME NEW a \in Attempts, ~Turning(a), ~Turning(a)', UNCHANGED recorded,
               \A b \in Attempts \ {a} : attempt'[b] = attempt[b]
        PROVE  FALSE
    BY <1>3, OneTurn
  <1>4. ASSUME NEW a \in Attempts, NEW kind, NEW r, Load(a, kind, r) PROVE FALSE
    <2> DEFINE late == recorded[r.key] # "none"
    <2>1. attempt' = [attempt EXCEPT ![a] =
            [AttemptIdle EXCEPT !.kind = kind, !.row = r, !.pc = "check",
                                !.late = late]]
      BY <1>4 DEF Load
    <2> HIDE DEF late
    <2>2. ~Turning(a) /\ ~Turning(a)' /\ UNCHANGED recorded
          /\ \A b \in Attempts \ {a} : attempt'[b] = attempt[b]
      BY <1>4, <2>1 DEF Load, LInv, TypeOK, AttemptIdle, Turning
    <2>3. QED BY <1>3, <2>2
  <1>5. ASSUME NEW a \in Attempts, NEW pc \in {"mark", "done"}, Goto(a, pc)
        PROVE  ~Turning(a)' /\ \A b \in Attempts \ {a} : attempt'[b] = attempt[b]
    BY <1>1, <1>5 DEF Goto, LInv, TypeOK, AttemptStates, Turning
  <1>6. ASSUME NEW a \in Attempts, attempt[a].pc = "check", UNCHANGED recorded,
               Goto(a, "write"), recorded[Key(a)] # "broker_locked",
               attempt[a].kind \in {"listener", "manual"} <=> recorded[Key(a)] = "none"
        PROVE  Ledger!Grant(a, Key(a))
    <2>1. /\ ~Turning(a) /\ Turning(a)'
          /\ \A b \in Attempts \ {a} : attempt'[b] = attempt[b]
      BY <1>1, <1>6 DEF Goto, LInv, TypeOK, AttemptStates, Turning
    <2>2. TurnOf(a)' = [call |-> a, key |-> Key(a),
                        first |-> recorded[Key(a)] = "none", asked |-> FALSE]
      <3>1. /\ attempt'[a].row = attempt[a].row /\ attempt'[a].kind = attempt[a].kind
            /\ attempt'[a].sent = FALSE
        BY <1>1, <1>6 DEF Goto, LInv, TypeOK, AttemptStates, Asks
      <3>2. /\ Key(a)' = Key(a)
            /\ (attempt'[a].kind \in {"listener", "manual"}) = (recorded[Key(a)] = "none")
        BY <1>6, <3>1 DEF Key
      <3>3. QED BY <3>1, <3>2, Zenon DEF TurnOf
    <2>3. TurnSet = {t \in TurnSet : t.call # a} /\ TurnSet' = TurnSet \cup {TurnOf(a)'}
      BY <2>1, OneTurn
    <2>4. QED BY <1>6, <2>2, <2>3 DEF Ledger!Grant, Ledger!Turn, TurnSet
  <1>7. ASSUME NEW a \in Attempts, attempt[a].pc = "write", Write(a)
        PROVE  \E t \in TurnSet : Ledger!Ask(t)
    <2>1. PICK result \in Results :
            attempt' = [attempt EXCEPT ![a] =
              [@ EXCEPT !.pc = "record", !.status = result.status,
                        !.sent = result.sent]]
      BY <1>7 DEF Write
    <2>2. /\ Turning(a) /\ Turning(a)'
          /\ \A b \in Attempts \ {a} : attempt'[b] = attempt[b]
      BY <1>1, <1>7, <2>1 DEF LInv, TypeOK, AttemptStates, Turning
    <2>3. attempt'[a].row = attempt[a].row /\ attempt'[a].kind = attempt[a].kind
          /\ attempt'[a].sent = result.sent
      BY <1>1, <2>1 DEF LInv, TypeOK, AttemptStates
    <2>4. TurnSet' = (TurnSet \ {TurnOf(a)}) \cup {TurnOf(a)'} /\ TurnOf(a) \in TurnSet
      <3>1. TurnSet' = (TurnSet \ {TurnOf(a)}) \cup {TurnOf(a)'}
        BY <2>2, OneTurn
      <3>2. QED BY <2>2, <3>1 DEF TurnSet
    <2>5. attempt[a].sent = FALSE
      BY <1>1, <1>7 DEF Asks, AttemptStates
    <2>6. UNCHANGED recorded
      BY <1>7 DEF Write
    <2>7. result.sent \in BOOLEAN
      BY DEF Results
    <2>8. CASE result.sent = FALSE
      <3>1. TurnOf(a)' = TurnOf(a)
        BY <2>3, <2>5, <2>8 DEF TurnOf, Key
      <3>2. QED BY <2>4, <2>6, <3>1
    <2>9. CASE result.sent = TRUE
      <3>1. TurnOf(a)' = Ledger!Turn(TurnOf(a).call, TurnOf(a).key, TurnOf(a).first, TRUE)
        <4> DEFINE first == attempt[a].kind \in {"listener", "manual"}
        <4>1. Key(a)' = Key(a) /\ first' = first /\ attempt'[a].sent = TRUE
          BY <2>3, <2>9 DEF Key
        <4>2. TurnOf(a)' = [call |-> a, key |-> Key(a), first |-> first, asked |-> TRUE]
          BY <4>1, Zenon DEF TurnOf
        <4>3. QED BY <4>2, Zenon DEF TurnOf, Ledger!Turn
      <3>2. ~TurnOf(a).asked
        BY <2>5 DEF TurnOf
      <3>3. QED BY <2>4, <2>6, <3>1, <3>2 DEF Ledger!Ask, TurnSet
    <2>10. QED BY <2>7, <2>8, <2>9
  <1>8. ASSUME NEW a \in Attempts, attempt[a].pc = "record", UNCHANGED recorded,
               NEW pc \in {"mark", "done"}, Goto(a, pc)
        PROVE  \E t \in TurnSet : Ledger!Leave(t)
    <2>1. TurnSet' = TurnSet \ {TurnOf(a)} /\ TurnOf(a) \in TurnSet
      <3>1. Turning(a) /\ ~Turning(a)'
        BY <1>5, <1>8 DEF Turning
      <3>2. TurnSet' = TurnSet \ {TurnOf(a)}
        BY <1>5, <1>8, <3>1, OneTurn
      <3>3. QED BY <3>1, <3>2 DEF TurnSet
    <2>2. QED BY <1>8, <2>1 DEF Ledger!Leave, TurnSet
  <1>9. ASSUME NEW a \in Attempts, attempt[a].pc = "record",
               recorded' = [recorded EXCEPT ![Key(a)] = attempt[a].status],
               attempt[a].kind \in {"listener", "manual"} => recorded[Key(a)] = "none",
               NEW pc \in {"mark", "done"}, Goto(a, pc)
        PROVE  \E t \in TurnSet, result \in {"broker_locked", "dry_run", "failed"} :
                  Ledger!Enter(t, result)
    <2>1. TurnSet' = TurnSet \ {TurnOf(a)} /\ TurnOf(a) \in TurnSet
      <3>1. Turning(a) /\ ~Turning(a)'
        BY <1>5, <1>9 DEF Turning
      <3>2. TurnSet' = TurnSet \ {TurnOf(a)}
        BY <1>5, <1>9, <3>1, OneTurn
      <3>3. QED BY <3>1, <3>2 DEF TurnSet
    <2>2. attempt[a].status \in {"broker_locked", "dry_run", "failed"}
      BY <1>1, <1>9 DEF Asks, AttemptStates, Statuses
    <2>3. /\ TurnOf(a).key = Key(a) /\ TurnOf(a).asked = attempt[a].sent
          /\ TurnOf(a).first = (attempt[a].kind \in {"listener", "manual"})
      BY DEF TurnOf
    <2>4. attempt[a].status = "broker_locked" => attempt[a].sent
      BY <1>1, <1>9 DEF Asks
    <2>5. Ledger!Enter(TurnOf(a), attempt[a].status)
      BY <1>9, <2>1, <2>3, <2>4 DEF Ledger!Enter, TurnSet
    <2>6. QED BY <2>1, <2>2, <2>5
  <1>10. ASSUME NEW a \in Attempts, Call(a) PROVE Ledger!Next
    <2>1. CASE ListenerLoad(a) \/ C7bLoad(a) \/ ManualLoad(a) \/ RetryLoad(a)
      BY <1>4, <2>1 DEF ListenerLoad, C7bLoad, ManualLoad, RetryLoad
    <2>2. CASE ListenerCheck(a) \/ C7bCheck(a) \/ ManualCheck(a) \/ RetryCheck(a)
      <3>1. attempt[a].pc = "check" /\ UNCHANGED recorded
        BY <2>2 DEF ListenerCheck, C7bCheck, ManualCheck, RetryCheck, In, Check
      <3>2. \/ Goto(a, "done")
            \/ /\ Goto(a, "write") /\ recorded[Key(a)] # "broker_locked"
               /\ attempt[a].kind \in {"listener", "manual"} <=> recorded[Key(a)] = "none"
        BY <2>2 DEF ListenerCheck, C7bCheck, ManualCheck, RetryCheck, In, Check
      <3>3. CASE Goto(a, "done")
        BY <1>3, <1>5, <3>1, <3>3 DEF Turning
      <3>4. QED BY <1>1, <1>6, <3>1, <3>2, <3>3 DEF Ledger!Next
    <2>3. CASE AutomaticWrite(a) \/ ManualWrite(a)
      BY <1>7, <2>3 DEF AutomaticWrite, ManualWrite, In, Ledger!Next, TurnSet
    <2>4. CASE ListenerRecord(a) \/ C7bRecord(a) \/ ManualRecord(a) \/ RetryRecord(a)
      <3>1. AfterRecord(a) \in {"mark", "done"}
        BY DEF AfterRecord
      <3>2. attempt[a].pc = "record"
        BY <2>4 DEF ListenerRecord, C7bRecord, ManualRecord, RetryRecord, In
      <3>3. \E pc \in {"mark", "done"} :
              /\ Goto(a, pc)
              /\ \/ UNCHANGED recorded
                 \/ /\ recorded' = [recorded EXCEPT ![Key(a)] = attempt[a].status]
                    /\ attempt[a].kind \in {"listener", "manual"}
                         => recorded[Key(a)] = "none"
        BY <2>4, <3>1 DEF ListenerRecord, C7bRecord, ManualRecord, RetryRecord, In
      <3>4. QED BY <1>8, <1>9, <3>2, <3>3 DEF Ledger!Next, TurnSet
    <2>5. CASE Mark(a)
      BY <1>3, <1>5, <2>5 DEF Mark, In, Turning
    <2>6. CASE Die(a)
      <3>1. CASE ~Turning(a)
        BY <1>3, <1>5, <2>6, <3>1 DEF Die
      <3>2. CASE Turning(a)
        <4>1. TurnSet' = TurnSet \ {TurnOf(a)} /\ TurnOf(a) \in TurnSet
          <5>1. TurnSet' = TurnSet \ {TurnOf(a)}
            BY <1>5, <2>6, <3>2, OneTurn DEF Die
          <5>2. QED BY <3>2, <5>1 DEF TurnSet
        <4>2. QED BY <2>6, <4>1 DEF Die, Ledger!Leave, Ledger!Next, TurnSet
      <3>3. QED BY <3>1, <3>2
    <2>7. QED BY <1>10, <2>1, <2>2, <2>3, <2>4, <2>5, <2>6 DEF Call
  <1>11. CASE SetGuardian \/ (\E r \in Rows : LockBorn(r) \/ LockCleared(r))
              \/ UNCHANGED vars
    BY <1>2, <1>11 DEF SetGuardian, LockBorn, LockCleared, vars
  <1>12. QED BY <1>10, <1>11 DEF Next

\* However many calls overlap and whichever of them die, they implement the ledger:
\* no turn once a lock is entered, one request per turn, a lock entered only by a
\* call that asked, and no outcome overwritten by a call that had looked for none.
THEOREM LedgerCorrect == Spec => LedgerKept
  <1>1. QED BY LedgerInit, AsksInit, AsksStep, LedgerStep, PTL
            DEF Spec, LedgerKept, Ledger!Spec
=============================================================================
