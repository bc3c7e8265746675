--------------------- MODULE TransferStateMachineProofs ---------------------
(***************************************************************************)
(* Proofs about TransferStateMachine for every set of addresses, every     *)
(* timeout table, every history cap and every number of transfers.         *)
(***************************************************************************)
EXTENDS TransferStateMachine, TLAPS

-----------------------------------------------------------------------------
(* Type correctness.                                                       *)

\* Moving a record keeps it a record.
LEMMA MovedType ==
    ASSUME TypeOK, NEW t \in Transfer, NEW to \in TransferState
    PROVE  Moved(t, to) \in Transfer /\ Moved(t, to).state = to
<1>1. timeout_secs_for(to) \in Nat
  BY DEF TypeOK, timeout_secs_for
<1>2. timeout_secs_for(to) \in Int
  BY <1>1
<1> QED
  BY <1>2 DEF Moved, Transfer

\* One transition, with its history row, keeps the types.
LEMMA ApplyType ==
    ASSUME TypeOK, NEW id \in Ids, NEW to \in TransferState,
           NEW actor \in Address, apply_transition(id, to, actor),
           UNCHANGED <<config, seq>>
    PROVE  TypeOK'
<1>1. Moved(transfer[id], to) \in Transfer
  BY MovedType DEF TypeOK
<1>2. Row(transfer[id].state, to, actor) \in LogEntry
  BY DEF TypeOK, Row, LogEntry, Transfer
<1>3. Append(history[id], Row(transfer[id].state, to, actor)) \in Seq(LogEntry)
  BY <1>2 DEF TypeOK
<1> QED
  BY <1>1, <1>3 DEF TypeOK, apply_transition, config, Ids

\* A rollback, with its two rows, keeps the types.
LEMMA RollbackType ==
    ASSUME TypeOK, NEW id \in Ids, NEW caller \in Address,
           rollback_transfer(caller, id)
    PROVE  TypeOK'
<1> DEFINE r1 == Row(transfer[id].state, "RollingBack", caller)
           r2 == Row("RollingBack", "RolledBack", caller)
           t1 == Moved(transfer[id], "RollingBack")
<1>1. t1 \in Transfer
  BY MovedType DEF TypeOK, TransferState
<1>2. Moved(t1, "RolledBack") \in Transfer
  BY <1>1, MovedType DEF TransferState, Terminal
<1>3. r1 \in LogEntry /\ r2 \in LogEntry
  BY DEF TypeOK, Row, LogEntry, Transfer, TransferState, Terminal
<1>4. Append(Append(history[id], r1), r2) \in Seq(LogEntry)
  BY <1>3 DEF TypeOK
<1> QED
  BY <1>2, <1>4 DEF TypeOK, rollback_transfer, config, Ids

\* Every call on a transfer is one of three kinds: it makes one transition
\* out of a state that is not final, it is a rollback, or it records an
\* answer and moves nothing.
LEMMA CallKinds ==
    ASSUME TypeOK, NEW id \in Ids, CallOn(id)
    PROVE  \/ \E to \in TransferState, actor \in Address :
                /\ apply_transition(id, to, actor)
                /\ transfer[id].state \notin Final
                /\ UNCHANGED <<config, seq>>
           \/ \E actor \in Address : rollback_transfer(actor, id)
           \/ \E caller \in Address, ok \in BOOLEAN :
                \/ submit_verification_result(caller, id, ok)
                \/ submit_oracle_result(caller, id, ok)
<1>0. transfer[id].initiator \in Address
  BY DEF TypeOK, Transfer
<1>1. ASSUME NEW caller \in Address, NEW next \in TransferState,
             advance_state(caller, id, next)
      PROVE  transfer[id].state \notin Final
  BY <1>1 DEF advance_state, transition_allowed, Final, InFlight
<1>2. handle_timeout(id) => transfer[id].state \notin Final
  BY DEF handle_timeout, Final, Terminal
<1>3. ASSUME try_auto_progress(id)
      PROVE  \E next \in TransferState :
                /\ apply_transition(id, next, transfer[id].initiator)
                /\ transfer[id].state \notin Final
                /\ UNCHANGED <<config, seq>>
  BY <1>3 DEF try_auto_progress, AutoNext, TransferState, InFlight, Final
<1> QED
  BY <1>0, <1>1, <1>2, <1>3
  DEF CallOn, advance_state, handle_timeout, admin_override_state,
      TransferState, Terminal

\* TypeOK is inductive.
LEMMA TypeStep == TypeOK /\ [Next]_vars => TypeOK'
<1> SUFFICES ASSUME TypeOK, [Next]_vars PROVE TypeOK'
  OBVIOUS
<1> USE AddressAssumption, TimeoutAssumption, BoundAssumption
<1>1. ASSUME NEW a \in AdminChoices, initialize(a) PROVE TypeOK'
  <2>1. seq = 0 /\ seq' = 0
    BY <1>1 DEF TypeOK, initialize
  <2>2. timeout' \in [TransferState -> Nat]
    BY <1>1 DEF initialize
  <2>3. contracts' \in IntegrationTriple
    BY <1>1 DEF initialize, IntegrationTriple
  <2> QED
    BY <1>1, <2>1, <2>2, <2>3 DEF TypeOK, initialize, Ids
<1>2. CASE \E caller \in Address, c \in Integrations :
              set_integration_contracts(caller, c)
  BY <1>2 DEF TypeOK, set_integration_contracts, Ids
<1>3. CASE \E caller \in Address, secs \in TimeoutChoices :
              set_default_timeout(caller, secs)
  BY <1>3 DEF TypeOK, set_default_timeout, Ids
<1>4. CASE \E caller \in Address, s \in TunableStates, secs \in TimeoutChoices :
              set_state_timeout(caller, s, secs)
  BY <1>4 DEF TypeOK, set_state_timeout, Ids
<1>5. ASSUME NEW i \in Initiators, NEW mode \in TransferMode,
             initiate_transfer(i, mode)
      PROVE  TypeOK'
  <2>1. NewTransfer(i, mode) \in Transfer
    <3>1. timeout_secs_for("Initiated") \in Nat
      BY DEF TypeOK, timeout_secs_for, TransferState, InFlight
    <3> QED
      BY <3>1 DEF NewTransfer, Transfer, TransferState, InFlight
  <2>2. <<>> \in Seq(LogEntry)
    OBVIOUS
  <2>3. seq' \in 0..MaxTransfers /\ Ids' = 1..(seq + 1)
    BY <1>5 DEF TypeOK, initiate_transfer, Ids
  <2>4. transfer' \in [Ids' -> Transfer]
    BY <1>5, <2>1, <2>3 DEF TypeOK, initiate_transfer, Ids
  <2>5. history' \in [Ids' -> Seq(LogEntry)]
    BY <1>5, <2>2, <2>3 DEF TypeOK, initiate_transfer, Ids
  <2> QED
    BY <1>5, <2>3, <2>4, <2>5 DEF TypeOK, initiate_transfer, config
<1>6. ASSUME NEW id \in Ids, CallOn(id) PROVE TypeOK'
  <2>1. ASSUME NEW to \in TransferState, NEW actor \in Address,
               apply_transition(id, to, actor), UNCHANGED <<config, seq>>
        PROVE  TypeOK'
    BY <2>1, ApplyType
  <2>2. ASSUME NEW actor \in Address, rollback_transfer(actor, id)
        PROVE  TypeOK'
    BY <2>2, RollbackType
  <2>3. ASSUME NEW caller \in Address, NEW ok \in BOOLEAN,
               submit_verification_result(caller, id, ok)
        PROVE  TypeOK'
    <3>1. [transfer[id] EXCEPT !.verification_ok = ok] \in Transfer
      BY DEF TypeOK, Transfer
    <3> QED
      BY <2>3, <3>1 DEF TypeOK, submit_verification_result, config, Ids
  <2>4. ASSUME NEW caller \in Address, NEW ok \in BOOLEAN,
               submit_oracle_result(caller, id, ok)
        PROVE  TypeOK'
    <3>1. [transfer[id] EXCEPT !.oracle_ok = ok] \in Transfer
      BY DEF TypeOK, Transfer
    <3> QED
      BY <2>4, <3>1 DEF TypeOK, submit_oracle_result, config, Ids
  <2> QED
    BY <1>6, CallKinds, <2>1, <2>2, <2>3, <2>4
<1>7. CASE Tick
  <2>1. ASSUME NEW id \in Ids
        PROVE  [transfer[id] EXCEPT !.left = IF @ >= 0 THEN @ - 1 ELSE @]
                  \in Transfer
    <3> DEFINE n == IF transfer[id].left >= 0 THEN transfer[id].left - 1
                                             ELSE transfer[id].left
    <3>1. transfer[id] \in Transfer /\ transfer[id].left \in Int
      BY DEF TypeOK, Transfer
    <3>2. n \in Int
      BY <3>1
    <3> HIDE DEF n
    <3>3. [transfer[id] EXCEPT !.left = n] \in Transfer
      BY <3>1, <3>2 DEF Transfer
    <3> QED
      BY <3>3 DEF n
  <2> QED
    BY <1>7, <2>1 DEF TypeOK, Tick, config, Ids
<1>8. CASE UNCHANGED vars
  BY <1>8 DEF TypeOK, vars, Ids
<1> QED
  BY <1>1, <1>2, <1>3, <1>4, <1>5, <1>6, <1>7, <1>8 DEF Next, Configure

\* No call leaves the contract's storage in a shape its readers do not expect.
THEOREM TypeCorrect == Spec => []TypeOK
<1>1. Init => TypeOK
  <2> SUFFICES ASSUME Init PROVE TypeOK
    OBVIOUS
  <2>1. Ids = 1..0
    BY DEF Init, Ids
  <2>2. /\ <<>> \in Seq(Transfer) /\ <<>> \in Seq(Seq(LogEntry))
        /\ Len(<<>>) = 0
    OBVIOUS
  <2>3. <<>> \in [1..0 -> Transfer] /\ <<>> \in [1..0 -> Seq(LogEntry)]
    BY <2>2
  <2> QED
    BY <2>1, <2>3, BoundAssumption DEF Init, TypeOK
<1> QED
  BY <1>1, TypeStep, PTL DEF Spec

-----------------------------------------------------------------------------
(* The history.                                                            *)

\* A row that starts where the path ends extends the path.
LEMMA AppendPath ==
    ASSUME NEW h \in Seq(LogEntry), NEW s, IsPath(h, s),
           NEW r \in LogEntry, r.from = s
    PROVE  IsPath(Append(h, r), r.to)
<1> DEFINE g == Append(h, r)
<1>1. /\ Len(g) = Len(h) + 1 /\ g[Len(h) + 1] = r
      /\ \A i \in 1..Len(h) : g[i] = h[i]
      /\ g # <<>> /\ Len(h) \in Nat
  OBVIOUS
<1>2. CASE h = <<>>
  BY <1>1, <1>2 DEF IsPath
<1>3. CASE h # <<>>
  <2>1. Len(h) > 0
    BY <1>3
  <2>2. g[1].from = "Initiated"
    BY <1>1, <1>3, <2>1 DEF IsPath
  <2>3. ASSUME NEW i \in 1..Len(h) PROVE g[i + 1].from = g[i].to
    <3>1. CASE i = Len(h)
      BY <3>1, <1>1, <1>3, <2>1 DEF IsPath
    <3>2. CASE i # Len(h)
      <4>1. i \in 1..(Len(h) - 1) /\ i + 1 \in 1..Len(h)
        BY <3>2, <1>1
      <4> QED
        BY <4>1, <1>1, <1>3 DEF IsPath
    <3> QED
      BY <3>1, <3>2
  <2> HIDE DEF g
  <2> QED
    BY <1>1, <2>2, <2>3 DEF IsPath, g
<1> QED
  BY <1>2, <1>3

\* HistoryIsThePath is inductive relative to the types.
LEMMA HistoryStep == TypeOK /\ HistoryIsThePath /\ [Next]_vars => HistoryIsThePath'
<1> SUFFICES ASSUME TypeOK, HistoryIsThePath, [Next]_vars PROVE HistoryIsThePath'
  OBVIOUS
<1> USE BoundAssumption
<1>1. ASSUME Configure PROVE HistoryIsThePath'
  <2>1. ASSUME NEW a \in AdminChoices, initialize(a) PROVE HistoryIsThePath'
    <3>1. Ids' = {}
      BY <2>1 DEF initialize, Ids
    <3> QED
      BY <3>1 DEF HistoryIsThePath
  <2> QED
    BY <1>1, <2>1
    DEF Configure, set_integration_contracts, set_default_timeout,
        set_state_timeout, HistoryIsThePath, Ids
<1>2. ASSUME NEW i \in Initiators, NEW mode \in TransferMode,
             initiate_transfer(i, mode)
      PROVE  HistoryIsThePath'
  <2>1. Ids' = 1..(seq + 1) /\ seq' = seq + 1 /\ seq \in Nat
    BY <1>2 DEF initiate_transfer, Ids, TypeOK
  <2>2. \A id \in Ids : transfer'[id] = transfer[id] /\ history'[id] = history[id]
    BY <1>2, <2>1 DEF initiate_transfer, Ids
  <2>3. /\ transfer'[seq + 1].state = "Initiated" /\ history'[seq + 1] = <<>>
    BY <1>2, <2>1 DEF initiate_transfer, NewTransfer
  <2>4. \A id \in Ids' : id \in Ids \/ id = seq + 1
    BY <2>1 DEF Ids
  <2>5. Len(<<>>) = 0
    OBVIOUS
  <2> QED
    BY <2>2, <2>3, <2>4, <2>5 DEF HistoryIsThePath, IsPath
<1>3. ASSUME NEW id \in Ids, CallOn(id) PROVE HistoryIsThePath'
  <2>0. /\ history[id] \in Seq(LogEntry) /\ transfer[id] \in Transfer
        /\ IsPath(history[id], transfer[id].state)
        /\ transfer[id].state \in TransferState
    BY DEF TypeOK, HistoryIsThePath, Transfer
  <2>1. ASSUME NEW to \in TransferState, NEW actor \in Address,
               apply_transition(id, to, actor), UNCHANGED <<config, seq>>
        PROVE  HistoryIsThePath'
    <3> DEFINE r == Row(transfer[id].state, to, actor)
    <3>1. r \in LogEntry /\ r.from = transfer[id].state /\ r.to = to
      BY <2>0 DEF Row, LogEntry
    <3>2. IsPath(Append(history[id], r), to)
      BY <2>0, <3>1, AppendPath
    <3>3. /\ Ids' = Ids
          /\ history'[id] = Append(history[id], r)
          /\ transfer'[id].state = to
          /\ \A j \in Ids \ {id} : /\ history'[j] = history[j]
                                   /\ transfer'[j] = transfer[j]
      BY <2>1, <2>0, MovedType DEF apply_transition, TypeOK, Ids
    <3>4. Len(history'[id]) <= MaxHistory
      BY <2>1, <2>0, <3>3 DEF apply_transition, CanEnter
    <3> QED
      BY <3>2, <3>3, <3>4 DEF HistoryIsThePath
  <2>2. ASSUME NEW actor \in Address, rollback_transfer(actor, id)
        PROVE  HistoryIsThePath'
    <3> DEFINE r1 == Row(transfer[id].state, "RollingBack", actor)
               r2 == Row("RollingBack", "RolledBack", actor)
               h1 == Append(history[id], r1)
               t1 == Moved(transfer[id], "RollingBack")
    <3>1. /\ r1 \in LogEntry /\ r1.from = transfer[id].state /\ r1.to = "RollingBack"
          /\ r2 \in LogEntry /\ r2.from = "RollingBack" /\ r2.to = "RolledBack"
      BY <2>0 DEF Row, LogEntry, TransferState, Terminal
    <3>2. IsPath(h1, "RollingBack") /\ h1 \in Seq(LogEntry)
      BY <2>0, <3>1, AppendPath
    <3>3. IsPath(Append(h1, r2), "RolledBack")
      BY <3>1, <3>2, AppendPath
    <3>4. Moved(t1, "RolledBack").state = "RolledBack"
      BY <2>0, MovedType DEF TransferState, Terminal
    <3>5. /\ Ids' = Ids
          /\ history'[id] = Append(h1, r2)
          /\ transfer'[id].state = "RolledBack"
          /\ \A j \in Ids \ {id} : /\ history'[j] = history[j]
                                   /\ transfer'[j] = transfer[j]
      BY <2>2, <3>4 DEF rollback_transfer, TypeOK, Ids
    <3>6. Len(history'[id]) <= MaxHistory
      <4>1. Len(Append(h1, r2)) = Len(history[id]) + 2 /\ Len(history[id]) \in Nat
        BY <2>0
      <4> QED
        BY <2>2, <3>5, <4>1 DEF rollback_transfer, CanEnter
    <3> QED
      BY <3>3, <3>5, <3>6 DEF HistoryIsThePath
  <2>3. ASSUME NEW caller \in Address, NEW ok \in BOOLEAN,
               \/ submit_verification_result(caller, id, ok)
               \/ submit_oracle_result(caller, id, ok)
        PROVE  HistoryIsThePath'
    <3>1. \A j \in Ids : transfer'[j].state = transfer[j].state
      BY <2>3 DEF submit_verification_result, submit_oracle_result, TypeOK, Transfer
    <3> QED
      BY <2>3, <3>1
      DEF submit_verification_result, submit_oracle_result, HistoryIsThePath, Ids
  <2> QED
    BY <1>3, CallKinds, <2>1, <2>2, <2>3
<1>4. CASE Tick
  <2>1. \A j \in Ids : transfer'[j].state = transfer[j].state
    BY <1>4 DEF Tick, TypeOK, Transfer
  <2> QED
    BY <1>4, <2>1 DEF Tick, HistoryIsThePath, Ids
<1>5. CASE UNCHANGED vars
  BY <1>5 DEF vars, HistoryIsThePath, Ids
<1> QED
  BY <1>1, <1>2, <1>3, <1>4, <1>5 DEF Next

\* The history of every transfer is its whole path, within the cap, for any
\* cap and whatever the admin overrides.
THEOREM HistoryIsThePathHolds == Spec => []HistoryIsThePath
<1>1. Init => HistoryIsThePath
  BY DEF Init, HistoryIsThePath, Ids
<1> QED
  BY <1>1, HistoryStep, TypeCorrect, PTL DEF Spec

-----------------------------------------------------------------------------
(* Settlement.                                                             *)

\* How a step grows the history of one transfer: not at all, or by one row
\* that leaves a state that is not final, or by the two rows of a rollback.
Grows(id) ==
    \/ history'[id] = history[id]
    \/ \E r \in LogEntry : /\ r.from \notin Final
                           /\ history'[id] = Append(history[id], r)
    \/ \E r1, r2 \in LogEntry :
          /\ r1.from \notin Final /\ r2.from \notin Final
          /\ history'[id] = Append(Append(history[id], r1), r2)

LEMMA HistoryGrowth ==
    ASSUME TypeOK, [Next]_vars
    PROVE  \A id \in Ids' :
              IF id \in Ids THEN Grows(id) ELSE history'[id] = <<>>
<1>1. CASE Configure
  <2>1. ASSUME NEW a \in AdminChoices, initialize(a) PROVE Ids' = {}
    BY <2>1 DEF initialize, Ids
  <2> QED
    BY <1>1, <2>1
    DEF Configure, set_integration_contracts, set_default_timeout,
        set_state_timeout, Ids, Grows
<1>2. ASSUME NEW i \in Initiators, NEW mode \in TransferMode,
             initiate_transfer(i, mode)
      PROVE  \A id \in Ids' :
                IF id \in Ids THEN Grows(id) ELSE history'[id] = <<>>
  BY <1>2 DEF initiate_transfer, Ids, TypeOK, Grows
<1>3. ASSUME NEW id \in Ids, CallOn(id)
      PROVE  Ids' = Ids /\ Grows(id) /\ \A j \in Ids \ {id} : Grows(j)
  <2>0. transfer[id].state \in TransferState
    BY DEF TypeOK, Transfer
  <2>1. ASSUME NEW to \in TransferState, NEW actor \in Address,
               apply_transition(id, to, actor), transfer[id].state \notin Final,
               UNCHANGED <<config, seq>>
        PROVE  Ids' = Ids /\ Grows(id) /\ \A j \in Ids \ {id} : Grows(j)
    <3> DEFINE r == Row(transfer[id].state, to, actor)
    <3>1. r \in LogEntry /\ r.from = transfer[id].state
      BY <2>0 DEF Row, LogEntry
    <3>2. /\ Ids' = Ids /\ history'[id] = Append(history[id], r)
          /\ \A j \in Ids \ {id} : history'[j] = history[j]
      BY <2>1 DEF apply_transition, TypeOK, Ids
    <3> QED
      BY <2>1, <3>1, <3>2 DEF Grows
  <2>2. ASSUME NEW actor \in Address, rollback_transfer(actor, id)
        PROVE  Ids' = Ids /\ Grows(id) /\ \A j \in Ids \ {id} : Grows(j)
    <3> DEFINE r1 == Row(transfer[id].state, "RollingBack", actor)
               r2 == Row("RollingBack", "RolledBack", actor)
    <3>1. /\ r1 \in LogEntry /\ r1.from \notin Final
          /\ r2 \in LogEntry /\ r2.from \notin Final
      BY <2>0, <2>2
      DEF Row, LogEntry, TransferState, Terminal, InFlight, Final, rollback_transfer
    <3>2. /\ Ids' = Ids /\ history'[id] = Append(Append(history[id], r1), r2)
          /\ \A j \in Ids \ {id} : history'[j] = history[j]
      BY <2>2 DEF rollback_transfer, TypeOK, Ids
    <3> QED
      BY <3>1, <3>2 DEF Grows
  <2>3. ASSUME NEW caller \in Address, NEW ok \in BOOLEAN,
               \/ submit_verification_result(caller, id, ok)
               \/ submit_oracle_result(caller, id, ok)
        PROVE  Ids' = Ids /\ Grows(id) /\ \A j \in Ids \ {id} : Grows(j)
    BY <2>3 DEF submit_verification_result, submit_oracle_result, Ids, Grows
  <2> QED
    BY <1>3, CallKinds, <2>1, <2>2, <2>3
<1>4. CASE Tick \/ UNCHANGED vars
  BY <1>4 DEF Tick, vars, Ids, Grows
<1> QED
  BY <1>1, <1>2, <1>3, <1>4 DEF Next

\* SettlesOnce is inductive relative to the types.
LEMMA SettlesStep == TypeOK /\ SettlesOnce /\ [Next]_vars => SettlesOnce'
<1> SUFFICES ASSUME TypeOK, SettlesOnce, [Next]_vars, NEW id \in Ids',
                    NEW i \in DOMAIN history'[id]
             PROVE  history'[id][i].from \notin Final
  BY DEF SettlesOnce
<1>1. id \in Ids
  <2>1. DOMAIN <<>> = {}
    OBVIOUS
  <2> QED
    BY <2>1, HistoryGrowth
<1>2. history[id] \in Seq(LogEntry)
  BY <1>1 DEF TypeOK
<1>3. Grows(id)
  BY <1>1, HistoryGrowth
<1>4. \A k \in DOMAIN history[id] : history[id][k].from \notin Final
  BY <1>1 DEF SettlesOnce
<1>5. CASE history'[id] = history[id]
  BY <1>4, <1>5
<1>6. ASSUME NEW h \in Seq(LogEntry), NEW r \in LogEntry, r.from \notin Final,
             \A k \in DOMAIN h : h[k].from \notin Final
      PROVE  /\ Append(h, r) \in Seq(LogEntry)
             /\ \A k \in DOMAIN Append(h, r) : Append(h, r)[k].from \notin Final
  BY <1>6
<1>7. ASSUME NEW r \in LogEntry, r.from \notin Final,
             history'[id] = Append(history[id], r)
      PROVE  history'[id][i].from \notin Final
  BY <1>2, <1>4, <1>6, <1>7
<1>8. ASSUME NEW r1 \in LogEntry, NEW r2 \in LogEntry,
             r1.from \notin Final, r2.from \notin Final,
             history'[id] = Append(Append(history[id], r1), r2)
      PROVE  history'[id][i].from \notin Final
  <2> DEFINE h1 == Append(history[id], r1)
  <2>1. h1 \in Seq(LogEntry) /\ \A k \in DOMAIN h1 : h1[k].from \notin Final
    BY <1>2, <1>4, <1>6, <1>8
  <2> HIDE DEF h1
  <2>2. \A k \in DOMAIN Append(h1, r2) : Append(h1, r2)[k].from \notin Final
    BY <2>1, <1>6, <1>8
  <2> QED
    BY <2>2, <1>8 DEF h1
<1> QED
  BY <1>3, <1>5, <1>7, <1>8 DEF Grows

\* A settled transfer never moves again, for any length of history.
THEOREM SettlesOnceHolds == Spec => []SettlesOnce
<1>1. Init => SettlesOnce
  BY DEF Init, SettlesOnce, Ids
<1> QED
  BY <1>1, SettlesStep, TypeCorrect, PTL DEF Spec

-----------------------------------------------------------------------------
(* Release.                                                                *)

\* The admin never changes once a transfer exists.
LEMMA AdminStays ==
    ASSUME TypeOK, [Next]_vars, NEW id \in Ids
    PROVE  admin' = admin
<1>1. seq > 0 /\ admin # NoAddress
  BY DEF TypeOK, Ids
<1>2. ASSUME NEW j \in Ids, CallOn(j) PROVE admin' = admin
  BY <1>2, CallKinds
  DEF rollback_transfer, submit_verification_result, submit_oracle_result, config
<1> QED
  BY <1>1, <1>2
  DEF Next, Configure, initialize, set_integration_contracts,
      set_default_timeout, set_state_timeout, initiate_transfer, Tick, config, vars

\* A waiver lasts while the rows that are added stay within its states.
LEMMA WaivedStays ==
    ASSUME TypeOK, [Next]_vars, NEW id \in Ids, NEW states, Waived(id, states),
           \/ history'[id] = history[id]
           \/ \E r \in LogEntry : r.to \in states /\ history'[id] = Append(history[id], r)
    PROVE  Waived(id, states)'
<1>1. admin' = admin
  BY AdminStays
<1>2. history[id] \in Seq(LogEntry)
  BY DEF TypeOK
<1> DEFINE h == history[id]
           n == Len(h)
<1>3. PICK i \in DOMAIN h :
         /\ h[i].actor = admin /\ <<h[i].from, h[i].to>> \in OverrideEdges
         /\ h[i].from \notin states /\ \A j \in i..n : h[j].to \in states
  BY DEF Waived
<1>4. CASE history'[id] = h
  BY <1>1, <1>3, <1>4 DEF Waived
<1>5. ASSUME NEW r \in LogEntry, r.to \in states, history'[id] = Append(h, r)
      PROVE  Waived(id, states)'
  <2> DEFINE g == Append(h, r)
  <2>1. n \in Nat /\ i \in 1..n /\ Len(g) = n + 1 /\ DOMAIN g = 1..(n + 1)
        /\ g[n + 1] = r /\ \A j \in 1..n : g[j] = h[j]
    BY <1>2
  <2> HIDE DEF g, h, n
  <2>2. i \in DOMAIN g /\ g[i] = h[i]
    BY <2>1
  <2>3. \A j \in i..Len(g) : g[j].to \in states
    <3> SUFFICES ASSUME NEW j \in i..Len(g) PROVE g[j].to \in states
      OBVIOUS
    <3>1. CASE j = n + 1
      BY <1>5, <2>1, <3>1
    <3>2. CASE j # n + 1
      <4>1. j \in i..n /\ j \in 1..n
        BY <2>1, <3>2
      <4> QED
        BY <1>3, <2>1, <4>1
    <3> QED
      BY <3>1, <3>2
  <2>4. history'[id] = g
    BY <1>5 DEF g
  <2> QED
    BY <1>1, <1>3, <2>2, <2>3, <2>4 DEF Waived
<1> QED
  BY <1>4, <1>5 DEF h

\* A step along a normal edge out of a vetted state leads to a vetted state.
LEMMA NormalEdgeVetted ==
    ASSUME TypeOK, [Next]_vars, NEW id \in Ids, Vetted(id),
           NEW to \in TransferState, NEW actor \in Address,
           transition_allowed(transfer[id], transfer[id].state, to),
           apply_transition(id, to, actor), UNCHANGED <<config, seq>>
    PROVE  Vetted(id)'
<1>1. transfer[id] \in Transfer /\ Ids' = Ids
  BY DEF TypeOK, Ids
<1>2. transfer'[id] = Moved(transfer[id], to)
  BY DEF apply_transition, TypeOK
<1>3. /\ transfer'[id].state = to
      /\ transfer'[id].verification_ok = transfer[id].verification_ok
      /\ transfer'[id].oracle_ok = transfer[id].oracle_ok
  BY <1>1, <1>2 DEF Moved, Transfer
<1>4. /\ to \in Verified /\ Waived(id, Verified) => Waived(id, Verified)'
      /\ to \in Cleared /\ Waived(id, Cleared) => Waived(id, Cleared)'
  <2> DEFINE r == Row(transfer[id].state, to, actor)
  <2>1. r \in LogEntry /\ r.to = to
    BY <1>1 DEF Transfer, Row, LogEntry
  <2>2. history'[id] = Append(history[id], r)
    BY DEF apply_transition, TypeOK
  <2> HIDE DEF r
  <2> QED
    BY <2>1, <2>2, WaivedStays
<1>5. to = "OraclePending" => transfer[id].verification_ok
  BY DEF transition_allowed, InFlight
<1>6. to = "ReleasePending" =>
         transfer[id].state = "OraclePending" /\ transfer[id].oracle_ok
  BY DEF transition_allowed, InFlight
<1>7. to = "Completed" => transfer[id].state = "ReleasePending"
  BY DEF transition_allowed, InFlight
<1> QED
  BY <1>3, <1>4, <1>5, <1>6, <1>7 DEF Vetted, Verified, Cleared

\* An override into a set of states waives its vote; one within the set
\* leaves the vote or the waiver that was there.
LEMMA OverrideVetted ==
    ASSUME TypeOK, [Next]_vars, NEW id \in Ids, Vetted(id),
           NEW caller \in Address, NEW next \in TransferState,
           admin_override_state(caller, id, next)
    PROVE  Vetted(id)'
<1> DEFINE r == Row(transfer[id].state, next, caller)
           h == history[id]
<1>1. transfer[id] \in Transfer /\ Ids' = Ids
  BY DEF TypeOK, Ids, admin_override_state
<1>2. r \in LogEntry /\ r.to = next /\ r.from = transfer[id].state
  BY <1>1 DEF Transfer, Row, LogEntry
<1>3. history'[id] = Append(h, r) /\ h \in Seq(LogEntry)
  BY DEF admin_override_state, apply_transition, TypeOK
<1>4. transfer'[id] = Moved(transfer[id], next)
  BY DEF admin_override_state, apply_transition, TypeOK
<1>5. /\ transfer'[id].state = next
      /\ transfer'[id].verification_ok = transfer[id].verification_ok
      /\ transfer'[id].oracle_ok = transfer[id].oracle_ok
  BY <1>1, <1>4 DEF Moved, Transfer
<1>6. r.actor = admin /\ <<r.from, r.to>> \in OverrideEdges /\ admin' = admin
  BY DEF admin_override_state, Row, config
<1> HIDE DEF r
<1>7. ASSUME NEW states, next \in states, transfer[id].state \notin states
      PROVE  Waived(id, states)'
  <2> DEFINE n == Len(h) + 1
             g == history'[id]
  <2>1. n \in DOMAIN g /\ n = Len(g) /\ n \in Nat /\ g[n] = r
    BY <1>2, <1>3
  <2> HIDE DEF n, g
  <2>2. \A j \in n..Len(g) : j = n
    BY <2>1
  <2>3. \A j \in n..Len(g) : g[j].to \in states
    BY <1>2, <1>7, <2>1, <2>2
  <2> QED
    BY <1>2, <1>6, <1>7, <2>1, <2>3 DEF Waived, g
<1>8. ASSUME NEW states, next \in states, Waived(id, states)
      PROVE  Waived(id, states)'
  BY <1>2, <1>3, <1>8, WaivedStays
<1>9. next \in Verified => transfer'[id].verification_ok \/ Waived(id, Verified)'
  BY <1>5, <1>7, <1>8 DEF Vetted
<1>10. next \in Cleared => transfer'[id].oracle_ok \/ Waived(id, Cleared)'
  BY <1>5, <1>7, <1>8 DEF Vetted
<1> QED
  BY <1>5, <1>9, <1>10 DEF Vetted, Verified, Cleared

\* ReleaseIsVetted is inductive relative to the types.
LEMMA VettedStep == TypeOK /\ ReleaseIsVetted /\ [Next]_vars => ReleaseIsVetted'
<1> SUFFICES ASSUME TypeOK, ReleaseIsVetted, [Next]_vars, NEW id \in Ids'
             PROVE  Vetted(id)'
  BY DEF ReleaseIsVetted
<1>1. ASSUME id \notin Ids PROVE Vetted(id)'
  <2>1. CASE Configure
    BY <1>1, <2>1
    DEF Configure, initialize, set_integration_contracts, set_default_timeout,
        set_state_timeout, Ids
  <2>2. ASSUME NEW i \in Initiators, NEW mode \in TransferMode,
               initiate_transfer(i, mode)
        PROVE  Vetted(id)'
    BY <1>1, <2>2 DEF initiate_transfer, NewTransfer, Ids, Vetted, Verified, Cleared
  <2>3. ASSUME NEW j \in Ids, CallOn(j) PROVE Ids' = Ids
    BY <2>3, CallKinds
    DEF rollback_transfer, submit_verification_result, submit_oracle_result, Ids
  <2> QED
    BY <1>1, <2>1, <2>2, <2>3 DEF Next, Tick, vars, Ids
<1>2. ASSUME id \in Ids PROVE Vetted(id)'
  <2>0. Vetted(id) /\ transfer[id] \in Transfer
    BY <1>2 DEF ReleaseIsVetted, TypeOK
  <2>1. ASSUME NEW states, Waived(id, states), history'[id] = history[id]
        PROVE  Waived(id, states)'
    BY <1>2, <2>1, WaivedStays
  <2>2. ASSUME history'[id] = history[id], transfer'[id].state = transfer[id].state,
               transfer'[id].verification_ok = transfer[id].verification_ok,
               transfer'[id].oracle_ok = transfer[id].oracle_ok
        PROVE  Vetted(id)'
    BY <2>0, <2>1, <2>2 DEF Vetted, Verified, Cleared
  <2>3. CASE Configure \/ UNCHANGED vars
    BY <2>2, <2>3
    DEF Configure, initialize, set_integration_contracts, set_default_timeout,
        set_state_timeout, vars
  <2>4. CASE \E i \in Initiators, mode \in TransferMode : initiate_transfer(i, mode)
    <3>1. transfer'[id] = transfer[id] /\ history'[id] = history[id]
      BY <1>2, <2>4 DEF initiate_transfer, Ids, TypeOK
    <3> QED
      BY <3>1, <2>2
  <2>5. CASE Tick
    <3>1. transfer'[id] = [transfer[id] EXCEPT
                             !.left = IF @ >= 0 THEN @ - 1 ELSE @]
      BY <1>2, <2>5 DEF Tick
    <3>2. history'[id] = history[id]
      BY <2>5 DEF Tick
    <3> QED
      BY <3>1, <3>2, <2>0, <2>2 DEF Transfer
  <2>6. ASSUME NEW j \in Ids, CallOn(j), j # id PROVE Vetted(id)'
    <3>1. transfer'[id] = transfer[id] /\ history'[id] = history[id]
      BY <1>2, <2>6, CallKinds
      DEF apply_transition, rollback_transfer, submit_verification_result,
          submit_oracle_result, TypeOK
    <3> QED
      BY <3>1, <2>2
  <2>7. ASSUME CallOn(id) PROVE Vetted(id)'
    <3>1. ASSUME NEW caller \in Address, NEW next \in TransferState,
                 advance_state(caller, id, next)
          PROVE  Vetted(id)'
      BY <1>2, <2>0, <3>1, NormalEdgeVetted DEF advance_state
    <3>2. ASSUME handle_timeout(id) PROVE Vetted(id)'
      BY <1>2, <2>0, <3>2, NormalEdgeVetted
      DEF handle_timeout, TransferState, Terminal, Transfer
    <3>3. ASSUME NEW caller \in Address, rollback_transfer(caller, id)
          PROVE  Vetted(id)'
      <4> DEFINE t1 == Moved(transfer[id], "RollingBack")
      <4>1. t1 \in Transfer
        BY <2>0, MovedType DEF TransferState
      <4>2. Moved(t1, "RolledBack").state = "RolledBack"
        BY <4>1, MovedType DEF TransferState, Terminal
      <4>3. transfer'[id].state = "RolledBack"
        BY <1>2, <3>3, <4>2 DEF rollback_transfer, TypeOK
      <4> QED
        BY <4>3 DEF Vetted, Verified, Cleared
    <3>4. ASSUME NEW caller \in Address, NEW next \in TransferState,
                 admin_override_state(caller, id, next)
          PROVE  Vetted(id)'
      BY <1>2, <2>0, <3>4, OverrideVetted
    <3>5. ASSUME NEW caller \in Address, NEW ok \in BOOLEAN,
                 submit_verification_result(caller, id, ok)
          PROVE  Vetted(id)'
      <4>1. transfer'[id].state = "VerificationPending"
        BY <1>2, <2>0, <3>5 DEF submit_verification_result, TypeOK, Transfer
      <4> QED
        BY <4>1 DEF Vetted, Verified, Cleared
    <3>6. ASSUME NEW caller \in Address, NEW ok \in BOOLEAN,
                 submit_oracle_result(caller, id, ok)
          PROVE  Vetted(id)'
      <4>1. /\ transfer'[id].state = "OraclePending"
            /\ transfer[id].state = "OraclePending"
            /\ transfer'[id].verification_ok = transfer[id].verification_ok
            /\ history'[id] = history[id]
        BY <1>2, <2>0, <3>6 DEF submit_oracle_result, TypeOK, Transfer
      <4> QED
        BY <4>1, <2>0, <2>1 DEF Vetted, Verified, Cleared
    <3>7. ASSUME try_auto_progress(id) PROVE Vetted(id)'
      BY <1>2, <2>0, <3>7, NormalEdgeVetted
      DEF try_auto_progress, AutoNext, TransferState, InFlight, Transfer
    <3> QED
      BY <2>7, <3>1, <3>2, <3>3, <3>4, <3>5, <3>6, <3>7 DEF CallOn
  <2> QED
    BY <2>3, <2>4, <2>5, <2>6, <2>7 DEF Next
<1> QED
  BY <1>1, <1>2

\* Nothing passes the verifier or the oracle without its vote unless the admin
\* overrode the transition that took it there.
THEOREM ReleaseIsVettedHolds == Spec => []ReleaseIsVetted
<1>1. Init => ReleaseIsVetted
  BY DEF Init, ReleaseIsVetted, Ids
<1> QED
  BY <1>1, VettedStep, TypeCorrect, PTL DEF Spec

-----------------------------------------------------------------------------
(* Step properties.                                                        *)

\* Only a call on the transfer itself changes its state.
LEMMA OnlyOwnCalls ==
    ASSUME TypeOK, [Next]_vars, NEW id \in Ids,
           transfer'[id].state # transfer[id].state
    PROVE  CallOn(id)
<1> SUFFICES ASSUME ~ CallOn(id) PROVE FALSE
  OBVIOUS
<1>0. transfer[id] \in Transfer /\ admin # NoAddress
  BY DEF TypeOK, Ids
<1>1. CASE Configure \/ UNCHANGED vars
  BY <1>0, <1>1
  DEF Configure, initialize, set_integration_contracts, set_default_timeout,
      set_state_timeout, vars
<1>2. CASE \E i \in Initiators, mode \in TransferMode : initiate_transfer(i, mode)
  BY <1>2 DEF initiate_transfer, Ids, TypeOK
<1>3. CASE Tick
  <2>1. transfer'[id] = [transfer[id] EXCEPT
                           !.left = IF @ >= 0 THEN @ - 1 ELSE @]
    BY <1>3 DEF Tick
  <2> QED
    BY <1>0, <2>1 DEF Transfer
<1>4. ASSUME NEW j \in Ids, CallOn(j), j # id PROVE FALSE
  BY <1>4, CallKinds
  DEF apply_transition, rollback_transfer, submit_verification_result,
      submit_oracle_result, TypeOK
<1> QED
  BY <1>1, <1>2, <1>3, <1>4 DEF Next

\* After one transition the last row carries its actor.
LEMMA LastActor ==
    ASSUME TypeOK, NEW id \in Ids, NEW to \in TransferState,
           NEW actor \in Address, apply_transition(id, to, actor)
    PROVE  /\ history'[id][Len(history'[id])].actor = actor
           /\ transfer'[id] = Moved(transfer[id], to)
           /\ transfer'[id].state = to
<1> DEFINE r == Row(transfer[id].state, to, actor)
<1>1. history[id] \in Seq(LogEntry) /\ transfer[id] \in Transfer
  BY DEF TypeOK
<1>2. r.actor = actor
  BY DEF Row
<1>3. history'[id] = Append(history[id], r)
  BY DEF apply_transition, TypeOK
<1>4. transfer'[id] = Moved(transfer[id], to) /\ transfer'[id].state = to
  BY <1>1, MovedType DEF apply_transition, TypeOK
<1> HIDE DEF r
<1>5. history'[id][Len(history'[id])] = r
  BY <1>1, <1>3
<1> QED
  BY <1>2, <1>4, <1>5

\* A rollback ends in RolledBack.
LEMMA RollbackEnds ==
    ASSUME TypeOK, NEW id \in Ids, NEW caller, rollback_transfer(caller, id)
    PROVE  transfer'[id].state = "RolledBack"
<1> DEFINE t1 == Moved(transfer[id], "RollingBack")
<1>1. t1 \in Transfer
  BY MovedType DEF TransferState, TypeOK
<1>2. Moved(t1, "RolledBack").state = "RolledBack"
  BY <1>1, MovedType DEF TransferState, Terminal
<1> QED
  BY <1>2 DEF rollback_transfer, TypeOK

\* Recording an answer leaves the state alone.
LEMMA AnswersMoveNothing ==
    ASSUME TypeOK, NEW id \in Ids, NEW caller, NEW ok,
           \/ submit_verification_result(caller, id, ok)
           \/ submit_oracle_result(caller, id, ok)
    PROVE  transfer'[id].state = transfer[id].state
BY DEF submit_verification_result, submit_oracle_result, TypeOK, Transfer

\* Nobody but the admin revives a transfer that timed out.
THEOREM RevivedOnlyByAdminHolds == Spec => RevivedOnlyByAdmin
<1> DEFINE Revive(id) ==
      transfer[id].state = "TimedOut" /\ transfer'[id].state # "TimedOut" =>
         /\ history'[id][Len(history'[id])].actor = admin
         /\ transfer'[id].state \in InFlight => transfer'[id].left >= 0
<1>1. ASSUME TypeOK, [Next]_vars, NEW id \in Ids PROVE Revive(id)
  <2> SUFFICES ASSUME transfer[id].state = "TimedOut",
                      transfer'[id].state # "TimedOut"
               PROVE  /\ history'[id][Len(history'[id])].actor = admin
                      /\ transfer'[id].state \in InFlight => transfer'[id].left >= 0
    OBVIOUS
  <2>1. CallOn(id)
    BY <1>1, OnlyOwnCalls
  <2>2. PICK caller \in Address, next \in TransferState :
           admin_override_state(caller, id, next)
    BY <1>1, <2>1, AnswersMoveNothing
    DEF CallOn, advance_state, transition_allowed, handle_timeout, Terminal,
        rollback_transfer, InFlight, try_auto_progress, AutoNext
  <2>3. caller = admin /\ apply_transition(id, next, caller)
    BY <2>2 DEF admin_override_state
  <2>4. /\ history'[id][Len(history'[id])].actor = admin
        /\ transfer'[id] = Moved(transfer[id], next)
        /\ transfer'[id].state = next
    BY <1>1, <2>3, LastActor
  <2>5. timeout_secs_for(next) >= 0
    BY <1>1 DEF TypeOK, timeout_secs_for
  <2>6. next \in InFlight => transfer'[id].left = timeout_secs_for(next)
    BY <1>1, <2>4 DEF TypeOK, Transfer, Moved, InFlight, Terminal
  <2> QED
    BY <2>4, <2>5, <2>6
<1> HIDE DEF Revive
<1>2. TypeOK /\ [Next]_vars => [\A id \in Ids : Revive(id)]_vars
  BY <1>1
<1>3. Spec => [][\A id \in Ids : Revive(id)]_vars
  BY <1>2, TypeCorrect, PTL DEF Spec
<1> QED
  BY <1>3 DEF Revive, RevivedOnlyByAdmin

\* Nobody but the configured escrow contract or the admin locks the funds.
THEOREM LockedByEscrowHolds == Spec => LockedByEscrow
<1> DEFINE Lock(id) ==
      transfer[id].state # "EscrowLocked" /\ transfer'[id].state = "EscrowLocked" =>
         history'[id][Len(history'[id])].actor \in {contracts.escrow, admin}
<1>1. ASSUME TypeOK, [Next]_vars, NEW id \in Ids PROVE Lock(id)
  <2> SUFFICES ASSUME transfer[id].state # "EscrowLocked",
                      transfer'[id].state = "EscrowLocked"
               PROVE  history'[id][Len(history'[id])].actor
                         \in {contracts.escrow, admin}
    OBVIOUS
  <2>1. CallOn(id)
    BY <1>1, OnlyOwnCalls
  <2>2. ASSUME NEW caller \in Address, NEW next \in TransferState,
               advance_state(caller, id, next)
        PROVE  history'[id][Len(history'[id])].actor \in {contracts.escrow, admin}
    <3>1. next = "EscrowLocked" /\ history'[id][Len(history'[id])].actor = caller
      BY <1>1, <2>2, LastActor DEF advance_state
    <3>2. transfer[id].state = "EscrowPending"
      BY <2>2, <3>1 DEF advance_state, transition_allowed
    <3> QED
      BY <2>2, <3>1, <3>2 DEF advance_state, assert_advance_auth
  <2>3. ASSUME NEW caller \in Address, NEW next \in TransferState,
               admin_override_state(caller, id, next)
        PROVE  history'[id][Len(history'[id])].actor \in {contracts.escrow, admin}
    BY <1>1, <2>3, LastActor DEF admin_override_state
  <2>4. ~ handle_timeout(id)
    <3> SUFFICES ASSUME handle_timeout(id) PROVE FALSE
      OBVIOUS
    <3>1. transfer[id].initiator \in Address /\ "TimedOut" \in TransferState
      BY <1>1 DEF TypeOK, Transfer, TransferState, Terminal
    <3>2. transfer'[id].state = "TimedOut"
      BY <1>1, <3>1, LastActor DEF handle_timeout
    <3> QED
      BY <3>2
  <2>5. ~ try_auto_progress(id)
    <3> SUFFICES ASSUME try_auto_progress(id) PROVE FALSE
      OBVIOUS
    <3>1. PICK next \in {"OraclePending", "ReleasePending"} :
             apply_transition(id, next, transfer[id].initiator)
      BY DEF try_auto_progress, AutoNext
    <3>2. transfer[id].initiator \in Address /\ next \in TransferState
      BY <1>1 DEF TypeOK, Transfer, TransferState, InFlight
    <3> QED
      BY <1>1, <3>1, <3>2, LastActor
  <2> QED
    BY <1>1, <2>1, <2>2, <2>3, <2>4, <2>5, RollbackEnds, AnswersMoveNothing DEF CallOn
<1> HIDE DEF Lock
<1>2. TypeOK /\ [Next]_vars => [\A id \in Ids : Lock(id)]_vars
  BY <1>1
<1>3. Spec => [][\A id \in Ids : Lock(id)]_vars
  BY <1>2, TypeCorrect, PTL DEF Spec
<1> QED
  BY <1>3 DEF Lock, LockedByEscrow

-----------------------------------------------------------------------------
(* Refinement of TransferLifecycle.                                        *)

\* A call on one transfer moves the phase of that transfer only.
LEMMA PhaseOfCall ==
    ASSUME TypeOK, NEW id \in Ids, CallOn(id)
    PROVE  /\ id \in 1..MaxTransfers
           /\ phaseBar[id] = PhaseOf(transfer[id].state)
           /\ phaseBar' = [phaseBar EXCEPT ![id] = PhaseOf(transfer'[id].state)]
<1>1. Ids' = Ids /\ \A j \in Ids \ {id} : transfer'[j] = transfer[j]
  BY CallKinds
  DEF apply_transition, rollback_transfer, submit_verification_result,
      submit_oracle_result, TypeOK, Ids
<1>2. id \in 1..MaxTransfers
  BY BoundAssumption DEF TypeOK, Ids
<1> QED
  BY <1>1, <1>2 DEF phaseBar

\* Every allowed edge of a call is a step of the life cycle or keeps the phase.
LEMMA EdgeRefines ==
    ASSUME TypeOK, NEW id \in Ids, CallOn(id), NEW to \in TransferState,
           transfer'[id].state = to,
           \/ transition_allowed(transfer[id], transfer[id].state, to)
           \/ <<transfer[id].state, to>> \in OverrideEdges
              /\ transfer[id].state \notin Final
    PROVE  [Lifecycle!Next]_phaseBar
<1> DEFINE old == PhaseOf(transfer[id].state)
           new == PhaseOf(to)
<1>1. /\ id \in 1..MaxTransfers /\ phaseBar[id] = old
      /\ phaseBar' = [phaseBar EXCEPT ![id] = new]
  BY PhaseOfCall
<1>2. transfer[id].state \in TransferState
  BY DEF TypeOK, Transfer
<1>3. CASE old = new
  <2>1. phaseBar' = phaseBar
    BY <1>1, <1>3 DEF phaseBar
  <2> QED
    BY <2>1
<1>4. CASE old # new
  <2>1. \/ old = "pending" /\ new = "locked"
        \/ old = "locked" /\ new = "cleared"
        \/ old = "cleared" /\ new = "released"
        \/ old \in {"pending", "locked", "cleared"}
           /\ new \in {"failed", "parked", "unwinding"}
        \/ old = "unwinding" /\ new = "refunded"
        \/ old = "parked" /\ new \in {"locked", "cleared", "failed", "refunded"}
    BY <1>2, <1>4
    DEF transition_allowed, OverrideEdges, InFlight, Final, PhaseOf
  <2> QED
    BY <1>1, <2>1
    DEF Lifecycle!Next, Lifecycle!Lock, Lifecycle!Clear, Lifecycle!Release,
        Lifecycle!Park, Lifecycle!Recover, Lifecycle!Unwind, Lifecycle!Refund,
        Lifecycle!Fail, Lifecycle!Become, Lifecycle!Active
<1> QED
  BY <1>3, <1>4

LEMMA LifecycleStep == TypeOK /\ [Next]_vars => [Lifecycle!Next]_phaseBar
<1> SUFFICES ASSUME TypeOK, [Next]_vars PROVE [Lifecycle!Next]_phaseBar
  OBVIOUS
<1>1. ASSUME Configure PROVE phaseBar' = phaseBar
  <2>1. ASSUME NEW a \in AdminChoices, initialize(a)
        PROVE  Ids = {} /\ Ids' = {}
    BY <2>1 DEF initialize, TypeOK, Ids
  <2>2. Ids' = Ids /\ \A id \in Ids : transfer'[id] = transfer[id]
    BY <1>1, <2>1
    DEF Configure, set_integration_contracts, set_default_timeout,
        set_state_timeout, Ids
  <2> QED
    BY <2>2 DEF phaseBar
<1>2. ASSUME NEW i \in Initiators, NEW mode \in TransferMode,
             initiate_transfer(i, mode)
      PROVE  Lifecycle!Next
  <2> DEFINE new == seq + 1
  <2>1. new \in 1..MaxTransfers /\ new \notin Ids /\ Ids' = 1..new
    BY <1>2, BoundAssumption DEF initiate_transfer, TypeOK, Ids
  <2>2. /\ transfer'[new].state = "Initiated"
        /\ \A id \in Ids : transfer'[id] = transfer[id]
    BY <1>2, <2>1 DEF initiate_transfer, NewTransfer, TypeOK, Ids
  <2>3. phaseBar[new] = "none"
    BY <2>1 DEF phaseBar
  <2>4. phaseBar' = [phaseBar EXCEPT ![new] = "pending"]
    <3>1. ASSUME NEW id \in 1..MaxTransfers
          PROVE  phaseBar'[id] = IF id = new THEN "pending" ELSE phaseBar[id]
      <4>1. CASE id = new
        BY <2>1, <2>2, <4>1 DEF phaseBar, PhaseOf
      <4>2. CASE id # new
        <5>1. id \in Ids' <=> id \in Ids
          BY <1>2, <2>1, <4>2 DEF Ids, TypeOK, initiate_transfer
        <5> QED
          BY <2>2, <4>2, <5>1 DEF phaseBar
      <4> QED
        BY <4>1, <4>2
    <3> QED
      BY <3>1 DEF phaseBar
  <2> QED
    BY <2>1, <2>3, <2>4 DEF Lifecycle!Next, Lifecycle!Start, Lifecycle!Become
<1>3. ASSUME NEW id \in Ids, CallOn(id) PROVE [Lifecycle!Next]_phaseBar
  <2>0. /\ transfer[id] \in Transfer /\ transfer[id].initiator \in Address
        /\ transfer[id].state \in TransferState
    BY DEF TypeOK, Transfer
  <2>1. ASSUME NEW caller \in Address, NEW next \in TransferState,
               advance_state(caller, id, next)
        PROVE  [Lifecycle!Next]_phaseBar
    BY <1>3, <2>1, LastActor, EdgeRefines DEF advance_state
  <2>2. ASSUME handle_timeout(id) PROVE [Lifecycle!Next]_phaseBar
    <3>1. /\ transition_allowed(transfer[id], transfer[id].state, "TimedOut")
          /\ apply_transition(id, "TimedOut", transfer[id].initiator)
      BY <2>2 DEF handle_timeout
    <3>2. "TimedOut" \in TransferState
      BY DEF TransferState, Terminal
    <3>3. transfer'[id].state = "TimedOut"
      BY <2>0, <3>1, <3>2, LastActor
    <3> QED
      BY <1>3, <3>1, <3>2, <3>3, EdgeRefines
  <2>3. ASSUME NEW caller \in Address, rollback_transfer(caller, id)
        PROVE  [Lifecycle!Next]_phaseBar
    <3>1. /\ id \in 1..MaxTransfers
          /\ phaseBar[id] = PhaseOf(transfer[id].state)
          /\ phaseBar' = [phaseBar EXCEPT ![id] = PhaseOf("RolledBack")]
      BY <1>3, <2>3, PhaseOfCall, RollbackEnds
    <3>2. /\ phaseBar[id] \in {"pending", "locked", "cleared"}
          /\ PhaseOf("RolledBack") = "refunded"
      BY <2>3, <3>1 DEF rollback_transfer, InFlight, PhaseOf
    <3> QED
      BY <3>1, <3>2
      DEF Lifecycle!Next, Lifecycle!Refund, Lifecycle!Become, Lifecycle!Active
  <2>4. ASSUME NEW caller \in Address, NEW next \in TransferState,
               admin_override_state(caller, id, next)
        PROVE  [Lifecycle!Next]_phaseBar
    BY <1>3, <2>4, LastActor, EdgeRefines DEF admin_override_state
  <2>5. ASSUME transfer'[id].state = transfer[id].state
        PROVE  phaseBar' = phaseBar
    BY <1>3, <2>5, PhaseOfCall DEF phaseBar
  <2>6. ASSUME try_auto_progress(id) PROVE [Lifecycle!Next]_phaseBar
    <3>1. PICK next \in {"OraclePending", "ReleasePending"} :
             /\ transition_allowed(transfer[id], transfer[id].state, next)
             /\ apply_transition(id, next, transfer[id].initiator)
      BY <2>6 DEF try_auto_progress, AutoNext
    <3>2. next \in TransferState
      BY DEF TransferState, InFlight
    <3> QED
      BY <1>3, <2>0, <3>1, <3>2, LastActor, EdgeRefines
  <2> QED
    BY <1>3, <2>1, <2>2, <2>3, <2>4, <2>5, <2>6, AnswersMoveNothing DEF CallOn
<1>4. CASE Tick
  <2>1. \A id \in Ids : transfer'[id].state = transfer[id].state
    BY <1>4 DEF Tick, TypeOK, Transfer
  <2> QED
    BY <1>4, <2>1 DEF Tick, phaseBar, Ids
<1>5. CASE UNCHANGED vars
  BY <1>5 DEF vars, phaseBar, Ids
<1> QED
  BY <1>1, <1>2, <1>3, <1>4, <1>5 DEF Next

\* The contract implements the life cycle that its users rely on.
THEOREM LifecycleHolds == Spec => LifecycleSpec
<1>1. Init => Lifecycle!Init
  BY BoundAssumption DEF Init, Lifecycle!Init, phaseBar, Ids
<1> QED
  BY <1>1, LifecycleStep, TypeCorrect, PTL DEF Spec, LifecycleSpec, Lifecycle!Spec
=============================================================================
