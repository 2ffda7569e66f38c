--------------------------- MODULE CostGateProofs ---------------------------
(***************************************************************************)
(* Proofs about CostGate for every set of calls and replicas, every        *)
(* request, price table, configuration and clock.                          *)
(***************************************************************************)
EXTENDS CostGate, FiniteSetTheorems, WellFoundedInduction, TLAPS

(***************************************************************************)
(* What a call's program counter says about its durable row, its local     *)
(* mirror and reservationMeta.  None of the safety properties is inductive *)
(* without it.                                                             *)
(***************************************************************************)
CallLinked(c) ==
  LET s == reservations[c].status
      r == call[c].replica
      pc == call[c].pc
      held == /\ s = "reserved"
              /\ c \in meta[r]
              /\ ledger[r][c] = [status |-> "reserved", amountUsd |-> call[c].amountUsd]
  IN /\ pc \in {"idle", "resolved", "reserving", "denied"} => s = "none"
     /\ pc = "reserving" => call[c].verdict \in Grants
     /\ pc = "reserved" => s = "reserved" /\ call[c].verdict \in Grants
     /\ pc = "auditing" /\ call[c].verdict \in Grants => held
     /\ pc = "auditing" /\ call[c].verdict \notin Grants => s = "none"
     /\ pc = "granted" => held
     /\ pc = "settled" => s = "settled"
     /\ pc = "released" =>
          /\ s = "released"
          /\ ledger[r][c] = [status |-> "reserved", amountUsd |-> call[c].amountUsd]
     /\ pc = "settleFailed" =>
          /\ s \in {"reserved", "settled"}
          /\ s = "reserved" => held
     /\ pc = "done" => s \in {"settled", "released"}
     /\ s \in {"reserved", "released"} => reservations[c].amountUsd = call[c].amountUsd

\* A local entry belongs to the replica of its call, and exists only once the
\* durable store has confirmed the reservation.
LocalLinked(r, c) ==
  /\ c \in meta[r] =>
       /\ r = call[c].replica
       /\ call[c].pc \notin {"idle", "resolved", "reserving", "reserved", "crashed"}
  /\ ledger[r][c].status # "none" =>
       /\ r = call[c].replica
       /\ reservations[c].status # "none"
       /\ call[c].pc \notin {"idle", "resolved", "reserving", "reserved", "crashed"}
       /\ call[c].pc = "done" =>
            /\ ledger[r][c].status = reservations[c].status
            /\ ledger[r][c].amountUsd = reservations[c].amountUsd

Linked == /\ \A c \in Calls : CallLinked(c)
          /\ \A r \in Replicas, c \in Calls : LocalLinked(r, c)

\* The inductive invariant.
IInv == TypeOK /\ Linked /\ CeilingHolds

-----------------------------------------------------------------------------
\* Every ceiling levelsFor yields is a dollar amount or null.
LEMMA CeilingForType ==
  ASSUME NEW i \in Inputs, NEW d \in Days, NEW cfg \in Configs, NEW k \in ScopeKeys(i, d)
  PROVE  CeilingFor(k[1], i, cfg) \in Ceiling
<1>1. i \in InputType /\ cfg \in ConfigType
  BY ParameterAssumption
<1>2. PICK level \in Levels : k = ScopeKey(level, i, d)
  BY DEF ScopeKeys
<1>3. k[1] = level
  BY <1>2 DEF ScopeKey, Levels
<1>4. CeilingFor(level, i, cfg) \in Ceiling
  BY <1>1 DEF CeilingFor, Levels, InputType, ConfigType, Ceiling
<1>5. QED
  BY <1>3, <1>4

\* The pre-check returns a verdict and a reservable amount.
LEMMA VerdictType ==
  ASSUME NEW r \in Replicas, NEW i \in Inputs, NEW cfg \in Configs
  PROVE  /\ EvaluateGateVerdict(r, i, cfg).kind \in Verdicts
         /\ EvaluateGateVerdict(r, i, cfg).amountUsd \in Nat
<1>1. i.model \in Models /\ Refusal(i) \in Verdicts
  BY ParameterAssumption DEF InputType, Refusal, Verdicts
<1>2. ASSUME NEW m, FitsAt(r, i, cfg, m), m \in Models \cup {NoModel}
      PROVE  Estimate[m] \in Nat
  BY <1>2, ParameterAssumption DEF FitsAt
<1>3. LowerModel[i.model] \in Models \cup {NoModel}
  BY <1>1, ParameterAssumption
<1>4. QED
  BY <1>1, <1>2, <1>3 DEF EvaluateGateVerdict, Verdicts

\* A counter row created or read by a reservation has a ceiling of the right type.
LEMMA RowCeilingType ==
  ASSUME TypeOK, NEW i \in Inputs, NEW d \in Days, NEW cfg \in Configs,
         NEW k \in Keys, k \in ScopeKeys(i, d)
  PROVE  RowCeiling(k, i, cfg) \in Ceiling
  BY CeilingForType DEF RowCeiling, TypeOK, RowType, Ceiling

-----------------------------------------------------------------------------
(* Type correctness.                                                         *)

USE DEF vars

\* The empty tables, ledgers and idle calls are well typed.
LEMMA TypeInit == Init => TypeOK
<1> SUFFICES ASSUME Init PROVE TypeOK
  OBVIOUS
<1>1. 0 \in Days
  BY ParameterAssumption DEF Days
<1>2. /\ (CHOOSE r \in Replicas : TRUE) \in Replicas
      /\ (CHOOSE i \in Inputs : TRUE) \in Inputs
      /\ (CHOOSE cfg \in Configs : TRUE) \in Configs
  BY ParameterAssumption
<1>3. call \in [Calls -> CallType]
  BY <1>1, <1>2 DEF Init, CallType, Pcs, Verdicts
<1>4. QED
  BY <1>1, <1>3 DEF Init, TypeOK, RowType, ReservationType, LocalType, EmptyLedger

\* A call that only moves on stays a call.
LEMMA PcStep ==
  ASSUME call \in [Calls -> CallType], NEW c \in Calls, NEW pc \in Pcs,
         call' = [call EXCEPT ![c].pc = pc]
  PROVE  call' \in [Calls -> CallType]
BY DEF CallType

\* A well-typed entry written to a replica's ledger leaves the ledgers typed.
LEMMA LedgerStep ==
  ASSUME ledger \in [Replicas -> [Calls -> LocalType]], NEW r \in Replicas, NEW c \in Calls,
         NEW e \in LocalType, ledger' = [ledger EXCEPT ![r][c] = e]
  PROVE  ledger' \in [Replicas -> [Calls -> LocalType]]
OBVIOUS

\* Each action keeps every variable in its type.
LEMMA TypeStep == TypeOK /\ [Next]_vars => TypeOK'
<1> SUFFICES ASSUME TypeOK, [Next]_vars PROVE TypeOK'
  OBVIOUS
<1>c. ASSUME NEW c \in Calls
      PROVE  /\ call[c] \in CallType /\ call[c].replica \in Replicas
             /\ call[c].input \in Inputs /\ call[c].config \in Configs
             /\ call[c].amountUsd \in Nat /\ call[c].day \in Days
             /\ reservations[c] \in ReservationType /\ reservations[c].amountUsd \in Nat
             /\ reservations[c].day \in Days
  BY DEF TypeOK, CallType, ReservationType
<1>1. ASSUME NEW c \in Calls, NEW r \in Replicas, NEW i \in Inputs, ResolveCeilings(c, r, i)
      PROVE  TypeOK'
  <2>1. [call[c] EXCEPT !.pc = "resolved", !.replica = r, !.input = i, !.config = config]
          \in CallType
    BY <1>c DEF TypeOK, CallType, Pcs
  <2>2. QED
    BY <1>1, <2>1 DEF ResolveCeilings, TypeOK
<1>2. ASSUME NEW c \in Calls, PreCheck(c) PROVE TypeOK'
  <2> DEFINE v == EvaluateGateVerdict(call[c].replica, call[c].input, call[c].config)
             next == IF v.kind \in Grants THEN "reserving" ELSE "auditing"
  <2>1. v.kind \in Verdicts /\ v.amountUsd \in Nat
    BY <1>c, VerdictType
  <2>2. next \in Pcs
    BY DEF Pcs
  <2>3. call' = [call EXCEPT ![c] = [@ EXCEPT !.pc = next, !.verdict = v.kind,
                                              !.amountUsd = v.amountUsd, !.day = today]]
    BY <1>2 DEF PreCheck
  <2> HIDE DEF v, next
  <2>4. [call[c] EXCEPT !.pc = next, !.verdict = v.kind, !.amountUsd = v.amountUsd, !.day = today]
          \in CallType
    BY <1>c, <2>1, <2>2 DEF TypeOK, CallType
  <2>5. QED
    BY <1>2, <2>3, <2>4 DEF PreCheck, TypeOK
<1>3. ASSUME NEW c \in Calls, ReserveCommit(c) PROVE TypeOK'
  <2>1. \A k \in Keys : k \in ScopeKeys(call[c].input, call[c].day) =>
          RowCeiling(k, call[c].input, call[c].config) \in Ceiling
    BY <1>c, RowCeilingType
  <2>2. counters' \in [Keys -> RowType]
    BY <1>3, <1>c, <2>1 DEF ReserveCommit, TypeOK, RowType, Ceiling
  <2>3. reservations' \in [Calls -> ReservationType]
    BY <1>3, <1>c DEF ReserveCommit, TypeOK, ReservationType
  <2>4. call' \in [Calls -> CallType]
    BY <1>3, PcStep DEF ReserveCommit, TypeOK, Pcs
  <2>5. QED
    BY <1>3, <2>2, <2>3, <2>4 DEF ReserveCommit, TypeOK
<1>4. ASSUME NEW c \in Calls, ReserveRefused(c) PROVE TypeOK'
  <2>1. Refusal(call[c].input) \in Verdicts
    BY DEF Refusal, Verdicts
  <2>2. [call[c] EXCEPT !.pc = "auditing", !.verdict = Refusal(call[c].input)] \in CallType
    BY <1>c, <2>1 DEF CallType, Pcs
  <2>3. QED
    BY <1>4, <2>2 DEF ReserveRefused, TypeOK
<1>5. ASSUME NEW c \in Calls, MirrorReservation(c) PROVE TypeOK'
  <2>1. [status |-> "reserved", amountUsd |-> call[c].amountUsd] \in LocalType
    BY <1>c DEF LocalType
  <2>2. ledger' \in [Replicas -> [Calls -> LocalType]]
    BY <1>5, <1>c, <2>1, LedgerStep DEF MirrorReservation, TypeOK
  <2>3. call' \in [Calls -> CallType]
    BY <1>5, PcStep DEF MirrorReservation, TypeOK, Pcs
  <2>4. QED
    BY <1>5, <1>c, <2>2, <2>3 DEF MirrorReservation, TypeOK
<1>6. ASSUME NEW c \in Calls, AuditAppended(c) PROVE TypeOK'
  <2>1. (IF call[c].verdict \in Grants THEN "granted" ELSE "denied") \in Pcs
    BY DEF Pcs
  <2>2. call' \in [Calls -> CallType]
    BY <1>6, <2>1, PcStep DEF AuditAppended, TypeOK
  <2>3. QED
    BY <1>6, <2>2 DEF AuditAppended, TypeOK
<1>7. ASSUME NEW c \in Calls, NEW actual \in Actuals, SettleCommit(c, actual) PROVE TypeOK'
  <2>1. actual \in Nat
    BY ParameterAssumption
  <2>2. counters' \in [Keys -> RowType]
    BY <1>7, <1>c, <2>1 DEF SettleCommit, AdjustCounters, TypeOK, RowType
  <2>3. reservations' \in [Calls -> ReservationType]
    BY <1>7, <1>c, <2>1 DEF SettleCommit, TypeOK, ReservationType
  <2>4. call' \in [Calls -> CallType]
    BY <1>7, PcStep DEF SettleCommit, TypeOK, Pcs
  <2>5. QED
    BY <1>7, <2>2, <2>3, <2>4 DEF SettleCommit, TypeOK
<1>8. ASSUME NEW c \in Calls, MirrorSettle(c) PROVE TypeOK'
  <2>1. [status |-> "settled", amountUsd |-> reservations[c].amountUsd] \in LocalType
    BY <1>c DEF LocalType
  <2>2. ledger' \in [Replicas -> [Calls -> LocalType]]
    BY <1>8, <1>c, <2>1, LedgerStep DEF MirrorSettle, TypeOK
  <2>3. call' \in [Calls -> CallType]
    BY <1>8, PcStep DEF MirrorSettle, TypeOK, Pcs
  <2>4. QED
    BY <1>8, <1>c, <2>2, <2>3 DEF MirrorSettle, TypeOK
<1>9. ASSUME NEW c \in Calls, ReleaseCommit(c) PROVE TypeOK'
  <2>1. counters' \in [Keys -> RowType]
    BY <1>9, <1>c DEF ReleaseCommit, AdjustCounters, TypeOK, RowType
  <2>2. reservations' \in [Calls -> ReservationType]
    BY <1>9, <1>c DEF ReleaseCommit, TypeOK, ReservationType
  <2>3. call' \in [Calls -> CallType]
    BY <1>9, PcStep DEF ReleaseCommit, TypeOK, Pcs
  <2>4. QED
    BY <1>9, <2>1, <2>2, <2>3 DEF ReleaseCommit, TypeOK
<1>10. ASSUME NEW c \in Calls, MirrorRelease(c) PROVE TypeOK'
  <2>1. call' \in [Calls -> CallType]
    BY <1>10, PcStep DEF MirrorRelease, TypeOK, Pcs
  <2>2. ledger' \in [Replicas -> [Calls -> LocalType]]
    <3> DEFINE r == call[c].replica
    <3>0. ledger[r][c] \in LocalType
      BY <1>c DEF TypeOK
    <3>1. [ledger[r][c] EXCEPT !.status = "released"] \in LocalType
      BY <3>0 DEF LocalType
    <3>2. ledger' = [ledger EXCEPT ![r][c] = [ledger[r][c] EXCEPT !.status = "released"]]
      BY <1>10 DEF MirrorRelease
    <3>3. QED
      BY <1>c, <3>1, <3>2, LedgerStep DEF TypeOK
  <2>3. QED
    BY <1>10, <1>c, <2>1, <2>2 DEF MirrorRelease, TypeOK
<1>11. ASSUME NEW c \in Calls, CallThrows(c) PROVE TypeOK'
  <2>1. (IF call[c].pc \in {"granted", "settled"} THEN "settleFailed" ELSE "failed") \in Pcs
    BY DEF Pcs
  <2>2. call' \in [Calls -> CallType]
    BY <1>11, <2>1, PcStep DEF CallThrows, TypeOK
  <2>3. QED
    BY <1>11, <2>2 DEF CallThrows, TypeOK
<1>12. ASSUME NEW r \in Replicas, Crash(r) PROVE TypeOK'
  <2>1. \A c \in Calls : [call[c] EXCEPT !.pc = "crashed"] \in CallType
    BY <1>c DEF CallType, Pcs
  <2>2. call' \in [Calls -> CallType]
    BY <1>12, <1>c, <2>1 DEF Crash
  <2>3. EmptyLedger \in [Calls -> LocalType]
    BY DEF EmptyLedger, LocalType
  <2>4. QED
    BY <1>12, <2>2, <2>3 DEF Crash, TypeOK
<1>13. ASSUME NEW cfg \in Configs, SetCeilings(cfg) PROVE TypeOK'
  BY <1>13 DEF SetCeilings, TypeOK
<1>14. CASE NextDay
  BY <1>14, ParameterAssumption DEF NextDay, Days, TypeOK
<1>15. CASE UNCHANGED vars
  BY <1>15 DEF TypeOK
<1>16. QED
  BY <1>1, <1>2, <1>3, <1>4, <1>5, <1>6, <1>7, <1>8, <1>9, <1>10, <1>11, <1>12,
     <1>13, <1>14, <1>15 DEF Next, CallStep

\* Every reachable state of the cost gate is well typed: in particular no
\* counter row, reservation or local entry ever holds a non-amount.
THEOREM TypeCorrect == Spec => []TypeOK
<1>1. Init => TypeOK
  BY TypeInit
<1>2. TypeOK /\ [Next]_vars => TypeOK'
  BY TypeStep
<1>3. QED
  BY <1>1, <1>2, PTL DEF Spec

-----------------------------------------------------------------------------
(* The link between a call, its durable row and its local mirror.            *)

\* A step that leaves a call's state alone leaves its links alone.
LEMMA LinkFrame ==
  ASSUME TypeOK, Linked, NEW c \in Calls,
         call'[c] = call[c], reservations'[c] = reservations[c],
         \A r \in Replicas : /\ ledger'[r][c] = ledger[r][c]
                             /\ c \in meta'[r] <=> c \in meta[r]
  PROVE  CallLinked(c)' /\ \A r \in Replicas : LocalLinked(r, c)'
<1>1. call[c].replica \in Replicas
  BY DEF TypeOK, CallType
<1>2. CallLinked(c)'
  BY <1>1 DEF Linked, CallLinked
<1>3. \A r \in Replicas : LocalLinked(r, c)'
  BY DEF Linked, LocalLinked
<1>4. QED
  BY <1>2, <1>3

\* A step of call c that leaves every other call alone preserves the links if
\* it preserves those of c.
LEMMA LinkLocal ==
  ASSUME TypeOK, Linked, NEW c \in Calls,
         \A b \in Calls \ {c} :
            /\ call'[b] = call[b] /\ reservations'[b] = reservations[b]
            /\ \A r \in Replicas : /\ ledger'[r][b] = ledger[r][b]
                                   /\ b \in meta'[r] <=> b \in meta[r],
         CallLinked(c)', \A r \in Replicas : LocalLinked(r, c)'
  PROVE  Linked'
<1>1. \A b \in Calls \ {c} : CallLinked(b)' /\ \A r \in Replicas : LocalLinked(r, b)'
  BY LinkFrame
<1>2. QED
  BY <1>1 DEF Linked

\* An idle call has no reservation, no local entry and no meta entry.
LEMMA LinkInit == Init => Linked
  BY DEF Init, Linked, CallLinked, LocalLinked, EmptyLedger, Grants

\* Every action preserves the links.
LEMMA LinkStep == TypeOK /\ Linked /\ [Next]_vars => Linked'
<1> SUFFICES ASSUME TypeOK, Linked, [Next]_vars PROVE Linked'
  OBVIOUS
<1>0. \A c \in Calls : /\ call[c] \in CallType /\ reservations[c] \in ReservationType
                       /\ CallLinked(c)
                       /\ \A r \in Replicas : LocalLinked(r, c) /\ ledger[r][c] \in LocalType
  BY DEF TypeOK, Linked
<1> USE DEF TypeOK
<1>1. ASSUME NEW c \in Calls, NEW r \in Replicas, NEW i \in Inputs, ResolveCeilings(c, r, i)
      PROVE  Linked'
  <2>1. CallLinked(c)'
    BY <1>0, <1>1 DEF ResolveCeilings, CallLinked, CallType
  <2>2. ASSUME NEW q \in Replicas PROVE LocalLinked(q, c)'
    <3>1. ledger[q][c].status = "none" /\ reservations[c].status = "none"
      BY <1>0, <1>1 DEF ResolveCeilings, LocalLinked, CallLinked
    <3>2. QED
      BY <1>0, <1>1, <3>1 DEF ResolveCeilings, LocalLinked, CallType
  <2>3. QED
    BY <1>1, <2>1, <2>2, LinkLocal DEF ResolveCeilings
<1>2. ASSUME NEW c \in Calls, PreCheck(c) PROVE Linked'
  <2>1. CallLinked(c)'
    BY <1>0, <1>2 DEF PreCheck, CallLinked, CallType, Grants
  <2>2. ASSUME NEW q \in Replicas PROVE LocalLinked(q, c)'
    BY <1>0, <1>2 DEF PreCheck, LocalLinked, CallLinked, CallType, Grants
  <2>3. QED
    BY <1>0, <1>2, <2>1, <2>2, LinkLocal DEF PreCheck, CallType
<1>3. ASSUME NEW c \in Calls, ReserveCommit(c) PROVE Linked'
  <2>1. CallLinked(c)'
    BY <1>0, <1>3 DEF ReserveCommit, CallLinked, CallType, Grants
  <2>2. ASSUME NEW q \in Replicas PROVE LocalLinked(q, c)'
    BY <1>0, <1>3 DEF ReserveCommit, LocalLinked, CallLinked, CallType, Grants
  <2>3. QED
    BY <1>0, <1>3, <2>1, <2>2, LinkLocal DEF ReserveCommit, CallType
<1>4. ASSUME NEW c \in Calls, ReserveRefused(c) PROVE Linked'
  <2>1. CallLinked(c)'
    BY <1>0, <1>4 DEF ReserveRefused, CallLinked, CallType, Grants, Refusal
  <2>2. ASSUME NEW q \in Replicas PROVE LocalLinked(q, c)'
    BY <1>0, <1>4 DEF ReserveRefused, LocalLinked, CallLinked, CallType, Grants, Refusal
  <2>3. QED
    BY <1>0, <1>4, <2>1, <2>2, LinkLocal DEF ReserveRefused, CallType
<1>5. ASSUME NEW c \in Calls, MirrorReservation(c) PROVE Linked'
  <2>1. CallLinked(c)'
    BY <1>0, <1>5 DEF MirrorReservation, CallLinked, CallType, Grants
  <2>2. ASSUME NEW q \in Replicas PROVE LocalLinked(q, c)'
    BY <1>0, <1>5 DEF MirrorReservation, LocalLinked, CallLinked, CallType, Grants
  <2>3. QED
    BY <1>0, <1>5, <2>1, <2>2, LinkLocal DEF MirrorReservation, CallType
<1>6. ASSUME NEW c \in Calls, AuditAppended(c) PROVE Linked'
  <2>1. CallLinked(c)'
    BY <1>0, <1>6 DEF AuditAppended, CallLinked, CallType, Grants
  <2>2. ASSUME NEW q \in Replicas PROVE LocalLinked(q, c)'
    BY <1>0, <1>6 DEF AuditAppended, LocalLinked, CallLinked, CallType, Grants
  <2>3. QED
    BY <1>0, <1>6, <2>1, <2>2, LinkLocal DEF AuditAppended, CallType
<1>7. ASSUME NEW c \in Calls, NEW actual \in Actuals, SettleCommit(c, actual) PROVE Linked'
  <2>1. CallLinked(c)'
    BY <1>0, <1>7 DEF SettleCommit, CallLinked, CallType, Grants
  <2>2. ASSUME NEW q \in Replicas PROVE LocalLinked(q, c)'
    <3>1. /\ reservations'[c].status = "settled"
          /\ call'[c].pc = "settled" /\ call'[c].replica = call[c].replica
          /\ call[c].pc \in {"granted", "settleFailed"}
          /\ ledger'[q][c] = ledger[q][c] /\ meta' = meta
      BY <1>0, <1>7 DEF SettleCommit, CallType, ReservationType
    <3>2. QED
      BY <1>0, <3>1 DEF LocalLinked
  <2>3. QED
    BY <1>0, <1>7, <2>1, <2>2, LinkLocal DEF SettleCommit, CallType
<1>8. ASSUME NEW c \in Calls, MirrorSettle(c) PROVE Linked'
  <2>1. CallLinked(c)'
    <3>1. /\ call'[c].pc = "done" /\ reservations' = reservations
          /\ reservations[c].status = "settled"
      BY <1>0, <1>8 DEF MirrorSettle, CallLinked, CallType
    <3>2. QED
      BY <3>1 DEF CallLinked
  <2>2. ASSUME NEW q \in Replicas PROVE LocalLinked(q, c)'
    <3> DEFINE r == call[c].replica
    <3>1. /\ reservations' = reservations /\ reservations[c].status = "settled"
          /\ call'[c].pc = "done" /\ call'[c].replica = r
          /\ meta'[q] = IF q = r THEN meta[q] \ {c} ELSE meta[q]
      BY <1>0, <1>8 DEF MirrorSettle, CallType, CallLinked
    <3>2. CASE q = r
      <4>1. ledger'[r][c] = [status |-> "settled", amountUsd |-> reservations[c].amountUsd]
        BY <1>0, <1>8, <3>2 DEF MirrorSettle
      <4>2. QED
        BY <3>1, <3>2, <4>1 DEF LocalLinked
    <3>3. CASE q # r
      <4>1. ledger'[q][c] = ledger[q][c] /\ ledger[q][c].status = "none" /\ c \notin meta[q]
        BY <1>0, <1>8, <3>3 DEF MirrorSettle, LocalLinked
      <4>2. QED
        BY <3>1, <3>3, <4>1 DEF LocalLinked
    <3>4. QED
      BY <3>2, <3>3
  <2>3. QED
    BY <1>0, <1>8, <2>1, <2>2, LinkLocal DEF MirrorSettle, CallType
<1>9. ASSUME NEW c \in Calls, ReleaseCommit(c) PROVE Linked'
  <2>1. CallLinked(c)'
    BY <1>0, <1>9 DEF ReleaseCommit, CallLinked, CallType, Grants
  <2>2. ASSUME NEW q \in Replicas PROVE LocalLinked(q, c)'
    <3>1. /\ reservations'[c].status = "released"
          /\ call'[c].pc = "released" /\ call'[c].replica = call[c].replica
          /\ call[c].pc \in {"granted", "settleFailed"}
          /\ ledger'[q][c] = ledger[q][c] /\ meta' = meta
      BY <1>0, <1>9 DEF ReleaseCommit, CallType, ReservationType
    <3>2. QED
      BY <1>0, <3>1 DEF LocalLinked
  <2>3. QED
    BY <1>0, <1>9, <2>1, <2>2, LinkLocal DEF ReleaseCommit, CallType
<1>10. ASSUME NEW c \in Calls, MirrorRelease(c) PROVE Linked'
  <2>1. CallLinked(c)'
    <3>1. /\ call'[c].pc = "done" /\ call'[c].amountUsd = call[c].amountUsd
          /\ reservations' = reservations /\ reservations[c].status = "released"
          /\ reservations[c].amountUsd = call[c].amountUsd
      BY <1>0, <1>10 DEF MirrorRelease, CallLinked, CallType
    <3>2. QED
      BY <3>1 DEF CallLinked
  <2>2. ASSUME NEW q \in Replicas PROVE LocalLinked(q, c)'
    <3> DEFINE r == call[c].replica
    <3>1. /\ reservations' = reservations /\ reservations[c].status = "released"
          /\ call'[c].pc = "done" /\ call'[c].replica = r
          /\ meta'[q] = IF q = r THEN meta[q] \ {c} ELSE meta[q]
      BY <1>0, <1>10 DEF MirrorRelease, CallType, CallLinked
    <3>2. CASE q = r
      <4>1. ledger[r][c] = [status |-> "reserved", amountUsd |-> call[c].amountUsd]
        BY <1>0, <1>10 DEF MirrorRelease, CallLinked
      <4>2. ledger'[r][c] = [status |-> "released", amountUsd |-> call[c].amountUsd]
        BY <1>0, <1>10, <4>1 DEF MirrorRelease, CallType
      <4>3. reservations[c].amountUsd = call[c].amountUsd
        BY <1>0, <3>1 DEF CallLinked
      <4>4. QED
        BY <3>1, <3>2, <4>2, <4>3 DEF LocalLinked
    <3>3. CASE q # r
      <4>1. ledger'[q][c] = ledger[q][c] /\ ledger[q][c].status = "none" /\ c \notin meta[q]
        BY <1>0, <1>10, <3>3 DEF MirrorRelease, CallType, LocalLinked
      <4>2. QED
        BY <3>1, <3>3, <4>1 DEF LocalLinked
    <3>4. QED
      BY <3>2, <3>3
  <2>3. QED
    BY <1>0, <1>10, <2>1, <2>2, LinkLocal DEF MirrorRelease, CallType
<1>11. ASSUME NEW c \in Calls, CallThrows(c) PROVE Linked'
  <2>1. CallLinked(c)'
    BY <1>0, <1>11 DEF CallThrows, CallLinked, CallType, Grants, Running
  <2>2. ASSUME NEW q \in Replicas PROVE LocalLinked(q, c)'
    <3>1. /\ call'[c].pc \in {"settleFailed", "failed"} /\ call'[c].replica = call[c].replica
          /\ UNCHANGED <<reservations, ledger, meta>>
      BY <1>0, <1>11 DEF CallThrows, CallType
    <3>2. QED
      BY <1>0, <3>1 DEF LocalLinked
  <2>3. QED
    BY <1>0, <1>11, <2>1, <2>2, LinkLocal DEF CallThrows, CallType
<1>12. ASSUME NEW r \in Replicas, Crash(r) PROVE Linked'
  <2>1. ASSUME NEW c \in Calls PROVE CallLinked(c)'
    BY <1>0, <1>12 DEF Crash, CallLinked, CallType, Running, Pcs
  <2>2. ASSUME NEW q \in Replicas, NEW c \in Calls PROVE LocalLinked(q, c)'
    BY <1>0, <1>12 DEF Crash, LocalLinked, CallType, Running, Pcs, EmptyLedger
  <2>3. QED
    BY <2>1, <2>2 DEF Linked
<1>13. ASSUME NEW cfg \in Configs, SetCeilings(cfg) PROVE Linked'
  BY <1>13 DEF SetCeilings, Linked, CallLinked, LocalLinked
<1>14. CASE NextDay
  BY <1>14 DEF NextDay, Linked, CallLinked, LocalLinked
<1>15. CASE UNCHANGED vars
  BY <1>15 DEF Linked, CallLinked, LocalLinked
<1>16. QED
  BY <1>1, <1>2, <1>3, <1>4, <1>5, <1>6, <1>7, <1>8, <1>9, <1>10, <1>11, <1>12,
     <1>13, <1>14, <1>15 DEF Next, CallStep

-----------------------------------------------------------------------------
(* The ceiling.                                                              *)

\* A settled reservation is never touched again, so an overrun on a row stays.
LEMMA OverrunPersists ==
  ASSUME TypeOK, NEW k \in Keys, OverrunOn(k),
         \A b \in Calls : reservations[b].status = "settled" =>
            /\ reservations'[b] = reservations[b]
            /\ call'[b].input = call[b].input /\ call'[b].amountUsd = call[b].amountUsd
  PROVE  OverrunOn(k)'
<1>1. PICK b \in Calls : /\ reservations[b].status = "settled"
                        /\ reservations[b].amountUsd > call[b].amountUsd
                        /\ k \in ScopeKeys(call[b].input, reservations[b].day)
  BY DEF OverrunOn
<1>2. /\ reservations'[b] = reservations[b]
      /\ call'[b].input = call[b].input /\ call'[b].amountUsd = call[b].amountUsd
  BY <1>1
<1>3. QED
  BY <1>1, <1>2 DEF OverrunOn

\* No step touches a settled reservation or what its call estimated.
LEMMA SettledIsFinal ==
  ASSUME TypeOK, Linked, [Next]_vars, NEW b \in Calls,
         reservations[b].status \in {"settled", "released"}
  PROVE  /\ reservations'[b] = reservations[b]
         /\ call'[b].input = call[b].input /\ call'[b].amountUsd = call[b].amountUsd
<1>1. /\ call[b] \in CallType
      /\ call[b].pc \notin {"idle", "resolved", "reserving", "reserved", "granted"}
  BY DEF Linked, CallLinked, TypeOK
<1> USE DEF TypeOK
<1>2. ASSUME NEW c \in Calls, CallStep(c)
      PROVE  /\ reservations'[b] = reservations[b]
             /\ call'[b].input = call[b].input /\ call'[b].amountUsd = call[b].amountUsd
  <2>1. CASE c = b
    <3>1. AuditAppended(b) \/ MirrorSettle(b) \/ MirrorRelease(b) \/ CallThrows(b)
      BY <1>1, <1>2, <2>1 DEF CallStep, ResolveCeilings, PreCheck, ReserveCommit,
         ReserveRefused, MirrorReservation, SettleCommit, ReleaseCommit
    <3>2. /\ reservations' = reservations
          /\ \E p : call' = [call EXCEPT ![b].pc = p]
      BY <3>1 DEF AuditAppended, MirrorSettle, MirrorRelease, CallThrows
    <3>3. QED
      BY <1>1, <3>2 DEF CallType
  <2>2. CASE c # b
    BY <1>1, <1>2, <2>2 DEF CallStep, ResolveCeilings, PreCheck, ReserveCommit, ReserveRefused,
       MirrorReservation, AuditAppended, SettleCommit, MirrorSettle, ReleaseCommit,
       MirrorRelease, CallThrows, CallType
  <2>3. QED
    BY <2>1, <2>2
<1>3. ASSUME NEW r \in Replicas, Crash(r)
      PROVE  /\ reservations'[b] = reservations[b]
             /\ call'[b].input = call[b].input /\ call'[b].amountUsd = call[b].amountUsd
  BY <1>1, <1>3 DEF Crash, CallType
<1>4. ASSUME NEW cfg \in Configs, SetCeilings(cfg)
      PROVE  reservations' = reservations /\ call' = call
  BY <1>4 DEF SetCeilings
<1>5. CASE NextDay
  BY <1>5 DEF NextDay
<1>6. CASE UNCHANGED vars
  BY <1>6
<1>7. QED
  BY <1>2, <1>3, <1>4, <1>5, <1>6 DEF Next

\* Every action preserves the cap: reserving re-checks it under the row lock,
\* settling above the estimate leaves a witness, everything else lowers totals.
LEMMA CeilingStep == TypeOK /\ Linked /\ CeilingHolds /\ [Next]_vars => CeilingHolds'
<1> SUFFICES ASSUME TypeOK, Linked, CeilingHolds, [Next]_vars,
                    NEW k \in Keys, counters'[k].ceiling \in Nat
             PROVE  counters'[k].total <= counters'[k].ceiling \/ OverrunOn(k)'
  BY DEF CeilingHolds
<1>1. OverrunOn(k) => OverrunOn(k)'
  BY OverrunPersists, SettledIsFinal
<1>2. counters[k] \in RowType
  BY DEF TypeOK
<1>3. counters'[k] = counters[k] => counters'[k].total <= counters'[k].ceiling \/ OverrunOn(k)'
  BY <1>1 DEF CeilingHolds
<1>4. ASSUME NEW c \in Calls, ReserveCommit(c), k \in ScopeKeys(call[c].input, call[c].day)
      PROVE  counters'[k].total <= counters'[k].ceiling
  <2>1. /\ counters'[k].total = counters[k].total + call[c].amountUsd
        /\ counters'[k].ceiling = RowCeiling(k, call[c].input, call[c].config)
    BY <1>4 DEF ReserveCommit
  <2>2. Fits(counters[k].total, call[c].amountUsd, RowCeiling(k, call[c].input, call[c].config))
    BY <1>4 DEF ReserveCommit, WithinDurableCeilings
  <2>3. QED
    BY <2>1, <2>2, SentinelAssumption DEF Fits
<1>5. ASSUME NEW c \in Calls, ReserveCommit(c), k \notin ScopeKeys(call[c].input, call[c].day)
      PROVE  counters'[k] = counters[k]
  BY <1>5 DEF ReserveCommit
<1>6. ASSUME NEW c \in Calls, NEW actual \in Actuals, SettleCommit(c, actual),
             counters'[k] # counters[k]
      PROVE  counters'[k].total <= counters'[k].ceiling \/ OverrunOn(k)'
  <2>1. /\ actual \in Nat /\ reservations[c].amountUsd \in Nat
        /\ reservations[c].amountUsd = call[c].amountUsd
    BY <1>6, ParameterAssumption DEF SettleCommit, Linked, CallLinked, TypeOK, ReservationType
  <2>2. /\ k \in ScopeKeys(call[c].input, reservations[c].day)
        /\ counters'[k].total = counters[k].total + (actual - reservations[c].amountUsd)
        /\ counters'[k].ceiling = counters[k].ceiling
    BY <1>2, <1>6 DEF SettleCommit, AdjustCounters, RowType
  <2>3. CASE actual <= call[c].amountUsd
    <3>1. counters'[k].total <= counters[k].total
      BY <1>2, <2>1, <2>2, <2>3 DEF RowType
    <3>2. counters[k].total <= counters[k].ceiling \/ OverrunOn(k)
      BY <2>2 DEF CeilingHolds
    <3>3. QED
      BY <1>1, <1>2, <2>1, <2>2, <3>1, <3>2 DEF RowType
  <2>4. CASE actual > call[c].amountUsd
    <3>1. /\ reservations'[c].status = "settled" /\ reservations'[c].amountUsd = actual
          /\ reservations'[c].day = reservations[c].day
          /\ call'[c].input = call[c].input /\ call'[c].amountUsd = call[c].amountUsd
      BY <1>6 DEF SettleCommit, TypeOK, ReservationType, CallType
    <3>2. QED
      BY <2>2, <2>4, <3>1 DEF OverrunOn
  <2>5. QED
    BY <2>1, <2>3, <2>4
<1>7. ASSUME NEW c \in Calls, ReleaseCommit(c), counters'[k] # counters[k]
      PROVE  counters'[k].total <= counters'[k].ceiling \/ OverrunOn(k)'
  <2>1. reservations[c].amountUsd \in Nat
    BY DEF TypeOK, ReservationType
  <2>2. /\ counters'[k].total = counters[k].total + (-reservations[c].amountUsd)
        /\ counters'[k].ceiling = counters[k].ceiling
    BY <1>2, <1>7 DEF ReleaseCommit, AdjustCounters, RowType
  <2>3. counters[k].total <= counters[k].ceiling \/ OverrunOn(k)
    BY <2>2 DEF CeilingHolds
  <2>4. QED
    BY <1>1, <1>2, <2>1, <2>2, <2>3 DEF RowType
<1>8. ASSUME NEW c \in Calls, CallStep(c)
      PROVE  counters'[k].total <= counters'[k].ceiling \/ OverrunOn(k)'
  BY <1>3, <1>4, <1>5, <1>6, <1>7, <1>8 DEF CallStep, ResolveCeilings, PreCheck, ReserveRefused,
     MirrorReservation, AuditAppended, MirrorSettle, MirrorRelease, CallThrows
<1>9. QED
  BY <1>3, <1>8 DEF Next, Crash, SetCeilings, NextDay

-----------------------------------------------------------------------------
(* The theorems.                                                             *)

\* The conjunction of types, links and cap holds in every reachable state.
THEOREM Invariance == Spec => []IInv
<1>1. Init => IInv
  <2>1. Init => CeilingHolds
    BY SentinelAssumption DEF Init, CeilingHolds
  <2>2. QED
    BY <2>1, TypeInit, LinkInit DEF IInv
<1>2. IInv /\ [Next]_vars => IInv'
  BY TypeStep, LinkStep, CeilingStep DEF IInv
<1>3. QED
  BY <1>1, <1>2, PTL DEF Spec

\* The ceiling is a real cap, for any number of concurrent calls, replicas,
\* restarts and lost replies: a counter is above its row's ceiling only after
\* an admitted call cost more than its estimate.
THEOREM CeilingIsCap == Spec => []CeilingHolds
<1>1. IInv => CeilingHolds
  BY DEF IInv
<1>2. QED
  BY <1>1, Invariance, PTL

\* A grant handed to a caller is backed by an unresolved durable reservation
\* of the estimated amount that its replica can settle or release.
THEOREM GrantsBacked == Spec => []GrantIsBacked
<1>1. IInv => GrantIsBacked
  BY DEF IInv, Linked, CallLinked, GrantIsBacked
<1>2. QED
  BY <1>1, Invariance, PTL

\* Budget is orphaned only by an exception or by the death of a process.
THEOREM Orphans == Spec => []OrphansExplained
<1>1. IInv => OrphansExplained
  <2> SUFFICES ASSUME IInv, NEW c \in Calls, reservations[c].status = "reserved"
               PROVE  \/ call[c].pc \in {"reserved", "failed", "crashed"}
                      \/ c \in meta[call[c].replica]
    BY DEF OrphansExplained
  <2>1. CallLinked(c) /\ call[c].pc \in Pcs
    BY DEF IInv, Linked, TypeOK, CallType
  <2>2. QED
    BY <2>1 DEF CallLinked, Pcs
<1>2. QED
  BY <1>1, Invariance, PTL

\* The local ledger is a faithful mirror of the durable store except where a
\* reply is outstanding or was lost.
THEOREM LocalMirror == Spec => []LocalMirrorsDurable
<1>1. IInv => LocalMirrorsDurable
  <2> SUFFICES ASSUME IInv, NEW r \in Replicas, NEW c \in Calls, ledger[r][c].status # "none"
               PROVE  /\ reservations[c].status # "none"
                      /\ call[c].pc \notin {"settled", "released", "settleFailed", "failed"} =>
                           /\ ledger[r][c].status = reservations[c].status
                           /\ ledger[r][c].amountUsd = reservations[c].amountUsd
    BY DEF LocalMirrorsDurable
  <2>1. CallLinked(c) /\ LocalLinked(r, c) /\ call[c].pc \in Pcs
    BY DEF IInv, Linked, TypeOK, CallType
  <2>2. QED
    BY <2>1 DEF CallLinked, LocalLinked, Pcs
<1>2. QED
  BY <1>1, Invariance, PTL

\* A reservation is settled or released at most once and never changed after.
THEOREM ResolutionIsFinal == Spec => ResolvedOnce
<1>1. IInv /\ [Next]_vars =>
        [\A c \in Calls : reservations[c].status \in {"settled", "released"}
                             => reservations'[c] = reservations[c]]_vars
  BY SettledIsFinal DEF IInv
<1>2. QED
  BY <1>1, Invariance, PTL DEF Spec, ResolvedOnce

-----------------------------------------------------------------------------
(* Sums over finite sets.  SumFunctionOnSet is a recursive function over    *)
(* the subsets of a set; induction is over a set of naturals, so that no     *)
(* lemma takes an operator.                                                  *)

\* Induction over a set of naturals.
LEMMA NatSetInduction ==
  ASSUME NEW N, 0 \in N, \A n \in Nat : n \in N => n + 1 \in N
  PROVE  \A n \in Nat : n \in N
<1>1. ASSUME NEW n \in Nat, n \notin N PROVE FALSE
  <2>1. PICK Bad : Bad = {k \in Nat : k \notin N}
    OBVIOUS
  <2>2. Bad \subseteq Nat /\ Bad # {}
    BY <1>1, <2>1
  <2>3. PICK m \in Bad : \A y \in Bad : ~(<<y, m>> \in OpToRel(<, Nat))
    BY <2>2, WFMin, NatLessThanWellFounded
  <2>4. \A y \in Bad : ~(y < m)
    BY <2>2, <2>3 DEF OpToRel
  <2>5. m \in Nat /\ m \notin N
    BY <2>1
  <2>6. m # 0
    BY <2>5
  <2>7. m - 1 \in Nat /\ m - 1 < m /\ (m - 1) + 1 = m
    BY <2>5, <2>6
  <2>8. m - 1 \in N
    BY <2>1, <2>4, <2>7
  <2>9. (m - 1) + 1 \in N
    BY <2>7, <2>8
  <2>10. QED
    BY <2>5, <2>7, <2>9
<1>2. QED
  BY <1>1

\* The recursive equation of a sum over the subsets of S.
Chosen(s) == CHOOSE x \in s : TRUE
SumsTo(f, S, g) ==
  g = [s \in SUBSET S |-> IF s = {} THEN 0 ELSE f[Chosen(s)] + g[s \ {Chosen(s)}]]

LEMMA SumIsChosen ==
  ASSUME NEW f, NEW S
  PROVE  SumFunctionOnSet(f, S) = (CHOOSE g : SumsTo(f, S, g))[S]
BY DEF SumFunctionOnSet, FoldFunctionOnSet, MapThenFoldSet, SumsTo, Chosen

\* The size of a set with one element less.
LEMMA OneLess ==
  ASSUME NEW S, IsFiniteSet(S), NEW T \in SUBSET S, NEW x \in T
  PROVE  /\ IsFiniteSet(T) /\ IsFiniteSet(T \ {x})
         /\ Cardinality(T) \in Nat /\ Cardinality(T \ {x}) \in Nat
         /\ Cardinality(T) = Cardinality(T \ {x}) + 1
<1>1. IsFiniteSet(T)
  BY FS_Subset
<1>2. IsFiniteSet(T \ {x}) /\ Cardinality(T \ {x}) = Cardinality(T) - 1
  BY <1>1, FS_RemoveElement
<1>3. Cardinality(T) \in Nat /\ Cardinality(T \ {x}) \in Nat
  BY <1>1, <1>2, FS_CardinalityType
<1>4. QED
  BY <1>1, <1>2, <1>3

UpTo(S, n) == {s \in SUBSET S : Cardinality(s) <= n}
SumsUpTo(f, S, g, n) ==
  /\ g \in [UpTo(S, n) -> Int]
  /\ \A s \in UpTo(S, n) : g[s] = IF s = {} THEN 0 ELSE f[Chosen(s)] + g[s \ {Chosen(s)}]

LEMMA ChosenIn == \A s : s # {} => Chosen(s) \in s
BY DEF Chosen

LEMMA SubsetSize ==
  ASSUME NEW S, IsFiniteSet(S)
  PROVE  \A s \in SUBSET S : Cardinality(s) \in Nat /\ (Cardinality(s) = 0 <=> s = {})
BY FS_Subset, FS_CardinalityType, FS_EmptySet

\* What is left of a set without its chosen element is one smaller.
LEMMA ChosenLess ==
  ASSUME NEW S, IsFiniteSet(S), NEW n \in Nat, NEW s \in UpTo(S, n + 1), s # {}
  PROVE  Chosen(s) \in S /\ s \ {Chosen(s)} \in UpTo(S, n) /\ s \ {Chosen(s)} \in UpTo(S, n + 1)
<1>1. s \in SUBSET S /\ Cardinality(s) <= n + 1 /\ Chosen(s) \in s
  BY ChosenIn DEF UpTo
<1>2. PICK x : x = Chosen(s)
  OBVIOUS
<1>3. /\ Cardinality(s) \in Nat /\ Cardinality(s \ {x}) \in Nat
      /\ Cardinality(s) = Cardinality(s \ {x}) + 1
  BY <1>1, <1>2, OneLess
<1>4. Cardinality(s \ {x}) <= n /\ Cardinality(s \ {x}) <= n + 1
  BY <1>1, <1>3
<1>5. QED
  BY <1>1, <1>2, <1>4 DEF UpTo

\* The equation has a solution.
LEMMA SumExists ==
  ASSUME NEW S, IsFiniteSet(S), NEW f, \A x \in S : f[x] \in Int
  PROVE  \E g : SumsTo(f, S, g) /\ g \in [SUBSET S -> Int]
<1>1. PICK N : N = {n \in Nat : \E g : SumsUpTo(f, S, g, n)}
  OBVIOUS
<1>2. 0 \in N
  <2>1. UpTo(S, 0) = {{}}
    BY SubsetSize DEF UpTo
  <2>2. SumsUpTo(f, S, [s \in UpTo(S, 0) |-> 0], 0)
    BY <2>1 DEF SumsUpTo
  <2>3. QED
    BY <1>1, <2>2
<1>3. ASSUME NEW n \in Nat, n \in N PROVE n + 1 \in N
  <2>1. PICK g : SumsUpTo(f, S, g, n)
    BY <1>1, <1>3
  <2>2. PICK h : h = [s \in UpTo(S, n + 1) |-> IF s \in UpTo(S, n) THEN g[s]
                                               ELSE f[Chosen(s)] + g[s \ {Chosen(s)}]]
    OBVIOUS
  <2>3. ASSUME NEW s \in UpTo(S, n + 1), s \notin UpTo(S, n) PROVE s # {}
    BY <2>3, SubsetSize DEF UpTo
  <2>4. \A s \in UpTo(S, n) : s \in UpTo(S, n + 1)
    BY SubsetSize DEF UpTo
  <2>5. \A s \in UpTo(S, n) : h[s] = g[s] /\ g[s] \in Int
    BY <2>1, <2>2, <2>4 DEF SumsUpTo
  <2>6. ASSUME NEW s \in UpTo(S, n + 1), s # {}
        PROVE  /\ h[s] = f[Chosen(s)] + g[s \ {Chosen(s)}]
               /\ g[s \ {Chosen(s)}] \in Int /\ f[Chosen(s)] \in Int
               /\ h[s \ {Chosen(s)}] = g[s \ {Chosen(s)}]
    <3>1. Chosen(s) \in S /\ s \ {Chosen(s)} \in UpTo(S, n) /\ s \ {Chosen(s)} \in UpTo(S, n + 1)
      BY <2>6, ChosenLess
    <3>2. h[s] = f[Chosen(s)] + g[s \ {Chosen(s)}]
      BY <2>1, <2>2, <2>6, <2>5 DEF SumsUpTo
    <3>3. QED
      BY <2>5, <3>1, <3>2
  <2>7. ASSUME NEW s \in UpTo(S, n + 1)
        PROVE  h[s] \in Int /\ h[s] = IF s = {} THEN 0 ELSE f[Chosen(s)] + h[s \ {Chosen(s)}]
    <3>1. CASE s = {}
      <4>1. s \in UpTo(S, n)
        BY <2>3, <3>1
      <4>2. QED
        BY <2>1, <2>5, <3>1, <4>1 DEF SumsUpTo
    <3>2. CASE s # {}
      <4>1. PICK x : x = Chosen(s)
        OBVIOUS
      <4>2. /\ h[s] = f[x] + g[s \ {x}] /\ g[s \ {x}] \in Int /\ f[x] \in Int
            /\ h[s \ {x}] = g[s \ {x}]
        BY <2>6, <3>2, <4>1
      <4>3. h[s] = f[x] + h[s \ {x}] /\ h[s] \in Int
        BY <4>2
      <4>4. QED
        BY <3>2, <4>1, <4>3
    <3>3. QED
      BY <3>1, <3>2
  <2>8. SumsUpTo(f, S, h, n + 1)
    BY <2>2, <2>7 DEF SumsUpTo
  <2>9. QED
    BY <1>1, <2>8
<1>4. Cardinality(S) \in Nat
  BY SubsetSize
<1>5. PICK g : SumsUpTo(f, S, g, Cardinality(S))
  BY <1>1, <1>2, <1>3, <1>4, NatSetInduction
<1>6. UpTo(S, Cardinality(S)) = SUBSET S
  BY FS_Subset DEF UpTo
<1>7. QED
  BY <1>5, <1>6 DEF SumsTo, SumsUpTo

\* The solutions over a set and over a subset of it agree.
LEMMA SumsAgree ==
  ASSUME NEW S, IsFiniteSet(S), NEW T \in SUBSET S, NEW f, NEW g, NEW h,
         SumsTo(f, S, g), SumsTo(f, T, h)
  PROVE  \A s \in SUBSET T : g[s] = h[s]
<1>1. PICK N : N = {n \in Nat : \A s \in SUBSET T : Cardinality(s) = n => g[s] = h[s]}
  OBVIOUS
<1>2. IsFiniteSet(T)
  BY FS_Subset
<1>3. ASSUME NEW s \in SUBSET T
      PROVE  /\ s = {} => g[s] = 0 /\ h[s] = 0
             /\ s # {} => /\ g[s] = f[Chosen(s)] + g[s \ {Chosen(s)}]
                          /\ h[s] = f[Chosen(s)] + h[s \ {Chosen(s)}]
  BY DEF SumsTo
<1>4. 0 \in N
  BY <1>1, <1>2, <1>3, SubsetSize
<1>5. ASSUME NEW n \in Nat, n \in N PROVE n + 1 \in N
  <2>1. ASSUME NEW s \in SUBSET T, Cardinality(s) = n + 1 PROVE g[s] = h[s]
    <3>1. s # {}
      BY <1>2, <2>1, SubsetSize
    <3>2. Chosen(s) \in s
      BY <3>1, ChosenIn
    <3>3. PICK x : x = Chosen(s)
      OBVIOUS
    <3>4. Cardinality(s \ {x}) \in Nat /\ Cardinality(s) = Cardinality(s \ {x}) + 1
      BY <1>2, <3>2, <3>3, OneLess
    <3>5. Cardinality(s \ {x}) = n
      BY <2>1, <3>4
    <3>6. g[s \ {x}] = h[s \ {x}]
      BY <1>1, <1>5, <3>5
    <3>7. QED
      BY <1>3, <3>1, <3>3, <3>6
  <2>2. QED
    BY <1>1, <2>1
<1>6. \A n \in Nat : n \in N
  BY <1>4, <1>5, NatSetInduction
<1>7. QED
  BY <1>1, <1>2, <1>6, SubsetSize

\* A sum over a finite set, by the element that is chosen first.
LEMMA SumStep ==
  ASSUME NEW S, IsFiniteSet(S), NEW f, \A x \in S : f[x] \in Int
  PROVE  /\ SumFunctionOnSet(f, S) \in Int
         /\ S = {} => SumFunctionOnSet(f, S) = 0
         /\ S # {} => SumFunctionOnSet(f, S) = f[Chosen(S)] + SumFunctionOnSet(f, S \ {Chosen(S)})
<1>1. ASSUME NEW T \in SUBSET S
      PROVE  \E g : SumsTo(f, T, g) /\ g \in [SUBSET T -> Int] /\ SumFunctionOnSet(f, T) = g[T]
  <2>1. IsFiniteSet(T) /\ \A x \in T : f[x] \in Int
    BY FS_Subset
  <2>2. PICK g1 : SumsTo(f, T, g1) /\ g1 \in [SUBSET T -> Int]
    BY <2>1, SumExists
  <2>3. PICK g : g = (CHOOSE h : SumsTo(f, T, h))
    OBVIOUS
  <2>4. SumsTo(f, T, g)
    BY <2>2, <2>3
  <2>5. \A s \in SUBSET T : g[s] = g1[s]
    BY <2>1, <2>2, <2>4, SumsAgree
  <2>6. g \in [SUBSET T -> Int]
    BY <2>2, <2>4, <2>5 DEF SumsTo
  <2>7. SumFunctionOnSet(f, T) = g[T]
    BY <2>3, SumIsChosen
  <2>8. QED
    BY <2>4, <2>6, <2>7
<1>2. PICK g : SumsTo(f, S, g) /\ g \in [SUBSET S -> Int] /\ SumFunctionOnSet(f, S) = g[S]
  BY <1>1
<1>3. SumFunctionOnSet(f, S) \in Int /\ (S = {} => SumFunctionOnSet(f, S) = 0)
  BY <1>2 DEF SumsTo
<1>4. ASSUME S # {}
      PROVE  SumFunctionOnSet(f, S) = f[Chosen(S)] + SumFunctionOnSet(f, S \ {Chosen(S)})
  <2>1. PICK T : T = S \ {Chosen(S)}
    OBVIOUS
  <2>2. PICK h : SumsTo(f, T, h) /\ SumFunctionOnSet(f, T) = h[T]
    BY <1>1, <2>1
  <2>3. h[T] = g[T]
    BY <1>2, <2>1, <2>2, SumsAgree
  <2>4. g[S] = f[Chosen(S)] + g[S \ {Chosen(S)}]
    BY <1>2, <1>4 DEF SumsTo
  <2>5. QED
    BY <1>2, <2>1, <2>2, <2>3, <2>4
<1>5. QED
  BY <1>3, <1>4

\* The order in which a sum is taken does not matter.
LEMMA SumRemove ==
  ASSUME NEW S, IsFiniteSet(S), NEW f, \A x \in S : f[x] \in Int
  PROVE  \A x \in S : SumFunctionOnSet(f, S) = f[x] + SumFunctionOnSet(f, S \ {x})
<1> DEFINE Holds(T) == \A x \in T : SumFunctionOnSet(f, T) = f[x] + SumFunctionOnSet(f, T \ {x})
<1>1. PICK N : N = {n \in Nat : \A T \in SUBSET S : Cardinality(T) = n => Holds(T)}
  OBVIOUS
<1>2. 0 \in N
  BY <1>1, SubsetSize
<1>3. ASSUME NEW n \in Nat, n \in N PROVE n + 1 \in N
  <2>1. ASSUME NEW T \in SUBSET S, Cardinality(T) = n + 1, NEW x \in T
        PROVE  SumFunctionOnSet(f, T) = f[x] + SumFunctionOnSet(f, T \ {x})
    <3>1. PICK y : y = Chosen(T)
      OBVIOUS
    <3>2. y \in T
      BY <3>1, ChosenIn
    <3>3. /\ IsFiniteSet(T) /\ \A z \in T : f[z] \in Int
          /\ \A z \in T : IsFiniteSet(T \ {z}) /\ Cardinality(T \ {z}) = n
      <4>1. \A z \in T : /\ IsFiniteSet(T) /\ IsFiniteSet(T \ {z})
                         /\ Cardinality(T \ {z}) \in Nat /\ n + 1 = Cardinality(T \ {z}) + 1
        BY <2>1, OneLess
      <4>2. ASSUME NEW z \in T PROVE IsFiniteSet(T \ {z}) /\ Cardinality(T \ {z}) = n
        <5>1. PICK k : k = Cardinality(T \ {z})
          OBVIOUS
        <5>2. k \in Nat /\ n + 1 = k + 1
          BY <4>1, <5>1
        <5>3. k = n
          BY <5>2
        <5>4. QED
          BY <4>1, <5>1, <5>3
      <4>3. IsFiniteSet(T) /\ \A z \in T : f[z] \in Int
        BY <2>1, <4>1
      <4>4. QED
        BY <4>2, <4>3
    <3>4. SumFunctionOnSet(f, T) = f[y] + SumFunctionOnSet(f, T \ {y})
      BY <3>1, <3>2, <3>3, SumStep
    <3>5. CASE x = y
      BY <3>4, <3>5
    <3>6. CASE x # y
      <4>1. Holds(T \ {y}) /\ Holds(T \ {x})
        BY <1>1, <1>3, <3>2, <3>3
      <4>2. PICK a, b, R : a = f[x] /\ b = f[y] /\ R = (T \ {x}) \ {y}
        OBVIOUS
      <4>3. R = (T \ {y}) \ {x} /\ IsFiniteSet(R) /\ \A z \in R : f[z] \in Int
        BY <3>3, <4>2, FS_Subset
      <4>4. PICK c, d, e, t :
              /\ c = SumFunctionOnSet(f, T \ {x}) /\ d = SumFunctionOnSet(f, T \ {y})
              /\ e = SumFunctionOnSet(f, R) /\ t = SumFunctionOnSet(f, T)
        OBVIOUS
      <4>5. a \in Int /\ b \in Int /\ e \in Int
        BY <3>2, <3>3, <4>2, <4>3, <4>4, SumStep
      <4>6. c = b + e
        BY <3>2, <3>6, <4>1, <4>2, <4>4
      <4>7. d = a + e
        BY <3>6, <4>1, <4>2, <4>3, <4>4
      <4>8. t = b + d
        BY <3>4, <4>2, <4>4
      <4>9. t = a + c
        BY <4>5, <4>6, <4>7, <4>8
      <4>10. QED
        BY <4>2, <4>4, <4>9
    <3>7. QED
      BY <3>5, <3>6
  <2>2. QED
    BY <1>1, <2>1
<1>4. \A n \in Nat : n \in N
  BY <1>2, <1>3, NatSetInduction
<1>5. QED
  BY <1>1, <1>4, SubsetSize

\* A sum only grows with its set and with its terms.
LEMMA SumMonotone ==
  ASSUME NEW S, IsFiniteSet(S), NEW R \in SUBSET S, NEW f, NEW h,
         \A x \in S : f[x] \in Nat, \A x \in R : h[x] \in Nat /\ h[x] <= f[x]
  PROVE  SumFunctionOnSet(h, R) <= SumFunctionOnSet(f, S)
<1>1. PICK N :
        N = {n \in Nat : \A T \in SUBSET S :
               Cardinality(T) = n => SumFunctionOnSet(h, T \cap R) <= SumFunctionOnSet(f, T)}
  OBVIOUS
<1>2. ASSUME NEW T \in SUBSET S
      PROVE  /\ IsFiniteSet(T) /\ IsFiniteSet(T \cap R)
             /\ \A x \in T : f[x] \in Int
             /\ \A x \in T \cap R : h[x] \in Int
  BY FS_Subset
<1>3. 0 \in N
  <2>1. ASSUME NEW T \in SUBSET S, Cardinality(T) = 0
        PROVE  SumFunctionOnSet(h, T \cap R) <= SumFunctionOnSet(f, T)
    <3>1. T = {} /\ T \cap R = {}
      BY <2>1, SubsetSize
    <3>2. SumFunctionOnSet(h, T \cap R) = 0 /\ SumFunctionOnSet(f, T) = 0
      BY <1>2, <3>1, SumStep
    <3>3. QED
      BY <3>2
  <2>2. QED
    BY <1>1, <2>1
<1>4. ASSUME NEW n \in Nat, n \in N PROVE n + 1 \in N
  <2>1. ASSUME NEW T \in SUBSET S, Cardinality(T) = n + 1
        PROVE  SumFunctionOnSet(h, T \cap R) <= SumFunctionOnSet(f, T)
    <3>1. PICK x : x \in T
      BY <2>1, SubsetSize
    <3>2. PICK U : U = T \ {x}
      OBVIOUS
    <3>3. Cardinality(U) = n /\ U \in SUBSET S
      <4>1. Cardinality(U) \in Nat /\ n + 1 = Cardinality(U) + 1
        BY <2>1, <3>1, <3>2, OneLess
      <4>2. QED
        BY <3>2, <4>1
    <3>4. SumFunctionOnSet(h, U \cap R) <= SumFunctionOnSet(f, U)
      BY <1>1, <1>4, <3>3
    <3>5. PICK a, b, t, v :
            /\ a = SumFunctionOnSet(h, U \cap R) /\ b = SumFunctionOnSet(f, U)
            /\ t = SumFunctionOnSet(h, T \cap R) /\ v = SumFunctionOnSet(f, T)
      OBVIOUS
    <3>6. a \in Int /\ b \in Int /\ f[x] \in Nat /\ a <= b
      BY <1>2, <3>1, <3>3, <3>4, <3>5, SumStep
    <3>7. v = f[x] + b
      BY <1>2, <3>1, <3>2, <3>5, SumRemove
    <3>8. CASE x \in R
      <4>1. x \in T \cap R /\ (T \cap R) \ {x} = U \cap R
        BY <3>1, <3>2, <3>8
      <4>2. t = h[x] + a
        <5>1. PICK W : W = T \cap R
          OBVIOUS
        <5>2. IsFiniteSet(W) /\ (\A z \in W : h[z] \in Int) /\ x \in W
          BY <1>2, <4>1, <5>1
        <5>3. SumFunctionOnSet(h, W) = h[x] + SumFunctionOnSet(h, W \ {x})
          BY <5>2, SumRemove
        <5>4. QED
          BY <3>5, <4>1, <5>1, <5>3
      <4>3. h[x] \in Nat /\ h[x] <= f[x]
        BY <3>8
      <4>4. t <= v
        BY <3>6, <3>7, <4>2, <4>3
      <4>5. QED
        BY <3>5, <4>4
    <3>9. CASE x \notin R
      <4>1. T \cap R = U \cap R
        BY <3>2, <3>9
      <4>2. t = a
        BY <3>5, <4>1
      <4>3. t <= v
        BY <3>6, <3>7, <4>2
      <4>4. QED
        BY <3>5, <4>3
    <3>10. QED
      BY <3>8, <3>9
  <2>2. QED
    BY <1>1, <2>1
<1>5. \A n \in Nat : n \in N
  BY <1>3, <1>4, NatSetInduction
<1>6. SumFunctionOnSet(h, S \cap R) <= SumFunctionOnSet(f, S)
  BY <1>1, <1>5, SubsetSize
<1>7. S \cap R = R
  OBVIOUS
<1>8. QED
  BY <1>6, <1>7

\* Equal terms, equal sums.
LEMMA SumEqual ==
  ASSUME NEW S, IsFiniteSet(S), NEW f, NEW h, \A x \in S : f[x] \in Nat /\ h[x] = f[x]
  PROVE  SumFunctionOnSet(h, S) = SumFunctionOnSet(f, S)
<1>1. SumFunctionOnSet(h, S) <= SumFunctionOnSet(f, S)
  BY SumMonotone
<1>2. SumFunctionOnSet(f, S) <= SumFunctionOnSet(h, S)
  BY SumMonotone
<1>3. SumFunctionOnSet(h, S) \in Int /\ SumFunctionOnSet(f, S) \in Int
  <2>1. (\A x \in S : f[x] \in Int) /\ (\A x \in S : h[x] \in Int)
    OBVIOUS
  <2>2. SumFunctionOnSet(h, S) \in Int
    BY <2>1, SumStep
  <2>3. SumFunctionOnSet(f, S) \in Int
    BY <2>1, SumStep
  <2>4. QED
    BY <2>2, <2>3
<1>4. QED
  BY <1>1, <1>2, <1>3

-----------------------------------------------------------------------------
(* The counters and the reservations behind them.                            *)

\* The reservations behind the counter of key k, what they amount to, and what one
\* call contributes.
Behind(k) == {c \in Calls : /\ reservations[c].status \in {"reserved", "settled"}
                            /\ k \in ScopeKeys(call[c].input, call[c].day)}
Amounts == [c \in Calls |-> reservations[c].amountUsd]
Share(c, k) == IF c \in Behind(k) THEN reservations[c].amountUsd ELSE 0

\* The reservation has its four counter rows.
RowsExist ==
  \A c \in Calls :
    reservations[c].status # "none" =>
      \A k \in ScopeKeys(call[c].input, call[c].day) : counters[k].ceiling # NoRow

CountersInv == RowsExist /\ CountersMatchReservations

\* A sum over some calls, split into the term of one call and the rest.
LEMMA SumSplit ==
  ASSUME NEW f, NEW B \in SUBSET Calls, \A b \in Calls : f[b] \in Nat, NEW c \in Calls
  PROVE  /\ SumFunctionOnSet(f, B) \in Int /\ SumFunctionOnSet(f, B \ {c}) \in Int
         /\ SumFunctionOnSet(f, B)
              = (IF c \in B THEN f[c] ELSE 0) + SumFunctionOnSet(f, B \ {c})
<1>1. IsFiniteSet(B) /\ IsFiniteSet(B \ {c})
  BY FS_Subset, ParameterAssumption
<1>2. (\A b \in B : f[b] \in Int) /\ (\A b \in B \ {c} : f[b] \in Int)
  OBVIOUS
<1>3. SumFunctionOnSet(f, B) \in Int /\ SumFunctionOnSet(f, B \ {c}) \in Int
  BY <1>1, <1>2, SumStep
<1>4. CASE c \in B
  BY <1>1, <1>2, <1>3, <1>4, SumRemove
<1>5. CASE c \notin B
  <2>1. B \ {c} = B
    BY <1>5
  <2>2. QED
    BY <1>3, <1>5, <2>1
<1>6. QED
  BY <1>4, <1>5

\* A step about one reservation changes a sum by the change of that one's share.
LEMMA CommittedChange ==
  ASSUME TypeOK, TypeOK', NEW c \in Calls, NEW k,
         \A b \in Calls : b # c =>
            /\ reservations'[b] = reservations[b]
            /\ reservations[b].status # "none" =>
                 call'[b].input = call[b].input /\ call'[b].day = call[b].day
  PROVE  /\ Committed(k) \in Int /\ Share(c, k) \in Int /\ Share(c, k)' \in Int
         /\ Committed(k)' = Committed(k) + (Share(c, k)' - Share(c, k))
<1>1. PICK f, B : f = Amounts /\ B = Behind(k)
  OBVIOUS
<1>2. PICK h, D : h = Amounts' /\ D = Behind(k)'
  OBVIOUS
<1>3. B \in SUBSET Calls /\ D \in SUBSET Calls
  BY <1>1, <1>2 DEF Behind
<1>4. /\ \A b \in Calls : f[b] \in Nat /\ f[b] = reservations[b].amountUsd
      /\ \A b \in Calls : h[b] \in Nat /\ h[b] = reservations'[b].amountUsd
  BY <1>1, <1>2 DEF Amounts, TypeOK, ReservationType
<1>5. D \ {c} = B \ {c}
  <2>1. \A b \in Calls : b # c => (b \in D <=> b \in B)
    BY <1>1, <1>2 DEF Behind
  <2>2. QED
    BY <1>3, <2>1
<1>6. SumFunctionOnSet(h, B \ {c}) = SumFunctionOnSet(f, B \ {c})
  <2>1. PICK W : W = B \ {c}
    OBVIOUS
  <2>2. IsFiniteSet(W) /\ \A b \in W : f[b] \in Nat /\ h[b] = f[b]
    BY <1>3, <1>4, <2>1, FS_Subset, ParameterAssumption
  <2>3. QED
    BY <2>1, <2>2, SumEqual
<1>7. /\ SumFunctionOnSet(f, B) \in Int /\ SumFunctionOnSet(f, B \ {c}) \in Int
      /\ SumFunctionOnSet(f, B)
           = (IF c \in B THEN f[c] ELSE 0) + SumFunctionOnSet(f, B \ {c})
  BY <1>3, <1>4, SumSplit
<1>8. /\ SumFunctionOnSet(h, D) \in Int
      /\ SumFunctionOnSet(h, D)
           = (IF c \in D THEN h[c] ELSE 0) + SumFunctionOnSet(h, D \ {c})
  BY <1>3, <1>4, SumSplit
<1>9. Committed(k) = SumFunctionOnSet(f, B) /\ Committed(k)' = SumFunctionOnSet(h, D)
  BY <1>1, <1>2 DEF Committed, Amounts, Behind
<1>10. /\ Share(c, k) = (IF c \in B THEN f[c] ELSE 0) /\ Share(c, k) \in Int
       /\ Share(c, k)' = (IF c \in D THEN h[c] ELSE 0) /\ Share(c, k)' \in Int
  BY <1>1, <1>2, <1>4 DEF Share
<1>11. PICK m, n, u, v, w : /\ m = SumFunctionOnSet(f, B) /\ n = SumFunctionOnSet(h, D)
                            /\ u = Share(c, k) /\ v = Share(c, k)'
                            /\ w = SumFunctionOnSet(f, B \ {c})
  OBVIOUS
<1>12. m \in Int /\ n \in Int /\ u \in Int /\ v \in Int /\ w \in Int /\ m = u + w /\ n = v + w
  BY <1>5, <1>6, <1>7, <1>8, <1>10, <1>11
<1>13. n = m + (v - u)
  BY <1>12
<1>14. QED
  BY <1>9, <1>11, <1>12, <1>13

\* A step that neither writes a reservation nor moves the request of one leaves every
\* sum alone.
LEMMA CommittedKept ==
  ASSUME reservations' = reservations, NEW k,
         \A b \in Calls : reservations[b].status # "none" =>
            call'[b].input = call[b].input /\ call'[b].day = call[b].day
  PROVE  Committed(k)' = Committed(k)
<1>1. Behind(k)' = Behind(k) /\ Amounts' = Amounts
  BY DEF Behind, Amounts
<1>2. Committed(k) = SumFunctionOnSet(Amounts, Behind(k))
  BY DEF Committed, Amounts, Behind
<1>3. Committed(k)' = SumFunctionOnSet(Amounts', Behind(k)')
  BY DEF Committed, Amounts, Behind
<1>4. QED
  BY <1>1, <1>2, <1>3

\* The scope keys of a call are counter keys.
LEMMA KeysOfCall ==
  ASSUME TypeOK, NEW c \in Calls
  PROVE  ScopeKeys(call[c].input, call[c].day) \subseteq Keys
<1>1. call[c].input \in Inputs /\ call[c].day \in Days
  BY DEF TypeOK, CallType
<1>2. QED
  BY <1>1 DEF Keys

\* Once a call has a reservation its request, its day and the row's day are fixed.
LEMMA EnteredIsKept ==
  ASSUME TypeOK, Linked, [Next]_vars, NEW b \in Calls, reservations[b].status # "none"
  PROVE  /\ call'[b].input = call[b].input /\ call'[b].day = call[b].day
         /\ reservations'[b].status # "none" /\ reservations'[b].day = reservations[b].day
<1>1. /\ call[b] \in CallType /\ reservations[b] \in ReservationType
      /\ call[b].pc \notin {"idle", "resolved", "reserving"}
  BY DEF Linked, CallLinked, TypeOK
<1> USE DEF TypeOK
<1>2. ASSUME NEW c \in Calls, CallStep(c)
      PROVE  /\ call'[b].input = call[b].input /\ call'[b].day = call[b].day
             /\ reservations'[b].status # "none" /\ reservations'[b].day = reservations[b].day
  <2>1. CASE c = b
    <3>0. \/ MirrorReservation(b) \/ AuditAppended(b)
          \/ \E actual \in Actuals : SettleCommit(b, actual)
          \/ MirrorSettle(b) \/ ReleaseCommit(b) \/ MirrorRelease(b) \/ CallThrows(b)
      BY <1>1, <1>2, <2>1 DEF CallStep, ResolveCeilings, PreCheck, ReserveCommit, ReserveRefused
    <3>1. CASE /\ MirrorReservation(b) \/ AuditAppended(b) \/ MirrorSettle(b)
                  \/ MirrorRelease(b) \/ CallThrows(b)
      <4>1. \E p : \/ call' = [call EXCEPT ![b].pc = p]
                   \/ call' = [call EXCEPT ![b] = [@ EXCEPT !.pc = "auditing",
                                                            !.verdict = Refusal(call[b].input)]]
        BY <3>1 DEF MirrorReservation, AuditAppended, MirrorSettle, MirrorRelease, CallThrows
      <4>2. reservations' = reservations
        BY <3>1 DEF MirrorReservation, AuditAppended, MirrorSettle, MirrorRelease, CallThrows
      <4>3. QED
        BY <1>1, <4>1, <4>2 DEF CallType
    <3>2. CASE \E actual \in Actuals : SettleCommit(b, actual)
      <4>1. \E a : reservations' = [reservations EXCEPT ![b].status = "settled", ![b].amountUsd = a]
        BY <3>2 DEF SettleCommit
      <4>2. call' = [call EXCEPT ![b].pc = "settled"]
        BY <3>2 DEF SettleCommit
      <4>3. QED
        BY <1>1, <4>1, <4>2 DEF CallType, ReservationType
    <3>3. CASE ReleaseCommit(b)
      <4>1. reservations' = [reservations EXCEPT ![b].status = "released"]
        BY <3>3 DEF ReleaseCommit
      <4>2. call' = [call EXCEPT ![b].pc = "released"]
        BY <3>3 DEF ReleaseCommit
      <4>3. QED
        BY <1>1, <4>1, <4>2 DEF CallType, ReservationType
    <3>4. QED
      BY <3>0, <3>1, <3>2, <3>3
  <2>2. CASE c # b
    BY <1>1, <1>2, <2>2 DEF CallStep, ResolveCeilings, PreCheck, ReserveCommit, ReserveRefused,
       MirrorReservation, AuditAppended, SettleCommit, MirrorSettle, ReleaseCommit,
       MirrorRelease, CallThrows, CallType
  <2>3. QED
    BY <2>1, <2>2
<1>3. ASSUME NEW r \in Replicas, Crash(r)
      PROVE  /\ reservations' = reservations
             /\ call'[b].input = call[b].input /\ call'[b].day = call[b].day
  BY <1>1, <1>3 DEF Crash, CallType
<1>4. ASSUME NEW cfg \in Configs, SetCeilings(cfg)
      PROVE  reservations' = reservations /\ call' = call
  BY <1>4 DEF SetCeilings
<1>5. CASE NextDay
  BY <1>5 DEF NextDay
<1>6. CASE UNCHANGED vars
  BY <1>6
<1>7. QED
  BY <1>2, <1>3, <1>4, <1>5, <1>6 DEF Next

\* So a reserve that straddled midnight is never forgotten.
LEMMA StraddleStays ==
  ASSUME TypeOK, Linked, [Next]_vars, NoMidnightStraddle' PROVE NoMidnightStraddle
BY EnteredIsKept DEF NoMidnightStraddle

\* A counter row, once inserted, is never deleted.
LEMMA RowsStay ==
  ASSUME TypeOK, [Next]_vars, NEW k \in Keys, counters[k].ceiling # NoRow
  PROVE  counters'[k].ceiling # NoRow
<1>1. counters[k] \in RowType
  BY DEF TypeOK
<1>2. ASSUME NEW c \in Calls, ReserveCommit(c) PROVE counters'[k].ceiling # NoRow
  BY <1>2 DEF ReserveCommit, RowCeiling
<1>3. ASSUME NEW c \in Calls, NEW actual \in Actuals, SettleCommit(c, actual)
      PROVE  counters'[k].ceiling # NoRow
  BY <1>1, <1>3 DEF SettleCommit, AdjustCounters, RowType
<1>4. ASSUME NEW c \in Calls, ReleaseCommit(c) PROVE counters'[k].ceiling # NoRow
  BY <1>1, <1>4 DEF ReleaseCommit, AdjustCounters, RowType
<1>5. ASSUME NEW c \in Calls, CallStep(c) PROVE counters'[k].ceiling # NoRow
  BY <1>2, <1>3, <1>4, <1>5 DEF CallStep, ResolveCeilings, PreCheck, ReserveRefused,
     MirrorReservation, AuditAppended, MirrorSettle, MirrorRelease, CallThrows
<1>6. QED
  BY <1>5 DEF Next, Crash, SetCeilings, NextDay

\* A reserve leaves a row of every level behind.
LEMMA RowsInserted ==
  ASSUME TypeOK, NEW c \in Calls, ReserveCommit(c),
         NEW k \in ScopeKeys(call[c].input, call[c].day)
  PROVE  counters'[k].ceiling # NoRow
<1>1. /\ call[c].input \in Inputs /\ call[c].day \in Days /\ call[c].config \in Configs
      /\ k \in Keys
  BY KeysOfCall DEF TypeOK, CallType
<1>2. RowCeiling(k, call[c].input, call[c].config) \in Ceiling
  BY <1>1, RowCeilingType
<1>3. counters'[k].ceiling = RowCeiling(k, call[c].input, call[c].config)
  BY <1>1 DEF ReserveCommit
<1>4. QED
  BY <1>2, <1>3, SentinelAssumption DEF Ceiling

\* Every step keeps the rows of every reservation.
LEMMA RowsStep ==
  ASSUME TypeOK, Linked, RowsExist, [Next]_vars PROVE RowsExist'
<1> SUFFICES ASSUME NEW b \in Calls, reservations'[b].status # "none",
                    NEW k \in ScopeKeys(call'[b].input, call'[b].day)
             PROVE  counters'[k].ceiling # NoRow
  BY DEF RowsExist
<1>1. CASE reservations[b].status # "none"
  <2>1. call'[b].input = call[b].input /\ call'[b].day = call[b].day
    BY <1>1, EnteredIsKept
  <2>2. k \in Keys /\ counters[k].ceiling # NoRow
    BY <1>1, <2>1, KeysOfCall DEF RowsExist
  <2>3. QED
    BY <2>2, RowsStay
<1>2. CASE reservations[b].status = "none"
  <2>1. ReserveCommit(b)
    <3>1. \E c \in Calls : CallStep(c)
      BY <1>2 DEF Next, Crash, SetCeilings, NextDay
    <3>2. PICK c \in Calls : CallStep(c)
      BY <3>1
    <3>3. \/ ReserveCommit(c)
          \/ \E actual \in Actuals : SettleCommit(c, actual)
          \/ ReleaseCommit(c)
      BY <1>2, <3>2 DEF CallStep, ResolveCeilings, PreCheck, ReserveRefused,
         MirrorReservation, AuditAppended, MirrorSettle, MirrorRelease, CallThrows
    <3>4. c = b
      BY <1>2, <3>3 DEF ReserveCommit, SettleCommit, ReleaseCommit, TypeOK
    <3>5. QED
      BY <1>2, <3>3, <3>4 DEF SettleCommit, ReleaseCommit
  <2>2. call'[b].input = call[b].input /\ call'[b].day = call[b].day
    BY <2>1 DEF ReserveCommit, TypeOK, CallType
  <2>3. QED
    BY <2>1, <2>2, RowsInserted
<1>3. QED
  BY <1>1, <1>2

\* Reserving adds the estimate to exactly the counters the reservation is behind.
LEMMA ReserveCounts ==
  ASSUME TypeOK, TypeOK', Linked, NEW c \in Calls, ReserveCommit(c),
         NEW k \in Keys, counters[k].total = Committed(k)
  PROVE  counters'[k].total = Committed(k)'
<1>1. /\ reservations[c].status = "none" /\ call[c].amountUsd \in Nat
      /\ counters[k].total \in Int
  BY DEF ReserveCommit, Linked, CallLinked, TypeOK, CallType, RowType
<1>2. /\ call'[c].input = call[c].input /\ call'[c].day = call[c].day
      /\ reservations'[c].status = "reserved"
      /\ reservations'[c].amountUsd = call[c].amountUsd
      /\ \A b \in Calls : b # c => call'[b] = call[b] /\ reservations'[b] = reservations[b]
  BY DEF ReserveCommit, TypeOK, CallType
<1>3. /\ Committed(k) \in Int /\ Share(c, k) \in Int /\ Share(c, k)' \in Int
      /\ Committed(k)' = Committed(k) + (Share(c, k)' - Share(c, k))
  BY <1>2, CommittedChange
<1>4. Share(c, k) = 0
  BY <1>1 DEF Share, Behind
<1>5. Share(c, k)' = IF k \in ScopeKeys(call[c].input, call[c].day)
                     THEN call[c].amountUsd ELSE 0
  BY <1>2 DEF Share, Behind
<1>6. counters'[k].total = counters[k].total + (IF k \in ScopeKeys(call[c].input, call[c].day)
                                                THEN call[c].amountUsd ELSE 0)
  BY <1>1 DEF ReserveCommit, TypeOK, RowType
<1>7. QED
  BY <1>1, <1>3, <1>4, <1>5, <1>6

\* Settling and releasing move the counters the reservation is behind, all of which
\* exist, by what its share changes.
LEMMA ResolveCounts ==
  ASSUME TypeOK, TypeOK', Linked, RowsExist, NEW c \in Calls, NEW delta \in Int,
         reservations[c].status = "reserved", reservations[c].day = call[c].day,
         counters' = AdjustCounters(call[c].input, reservations[c].day, delta),
         \A b \in Calls : b # c => reservations'[b] = reservations[b],
         \A b \in Calls : call'[b].input = call[b].input /\ call'[b].day = call[b].day,
         \/ /\ reservations'[c].status = "settled"
            /\ delta = reservations'[c].amountUsd - reservations[c].amountUsd
         \/ reservations'[c].status = "released" /\ delta = -reservations[c].amountUsd,
         NEW k \in Keys, counters[k].total = Committed(k)
  PROVE  counters'[k].total = Committed(k)'
<1>1. /\ reservations[c].amountUsd \in Int /\ reservations'[c].amountUsd \in Int
      /\ counters[k] \in RowType
  BY DEF TypeOK, ReservationType
<1>2. /\ Committed(k) \in Int /\ Share(c, k) \in Int /\ Share(c, k)' \in Int
      /\ Committed(k)' = Committed(k) + (Share(c, k)' - Share(c, k))
  BY CommittedChange
<1>3. CASE k \in ScopeKeys(call[c].input, call[c].day)
  <2>1. counters[k].ceiling # NoRow
    BY <1>3 DEF RowsExist
  <2>2. counters'[k].total = counters[k].total + delta
    BY <1>1, <1>3, <2>1 DEF AdjustCounters, RowType
  <2>3. Share(c, k) = reservations[c].amountUsd
    BY <1>3 DEF Share, Behind
  <2>4. Share(c, k)' = IF reservations'[c].status = "settled"
                       THEN reservations'[c].amountUsd ELSE 0
    BY <1>3 DEF Share, Behind
  <2>5. Share(c, k)' - Share(c, k) = delta
    BY <1>1, <1>2, <2>3, <2>4
  <2>6. QED
    BY <1>1, <1>2, <2>2, <2>5 DEF RowType
<1>4. CASE k \notin ScopeKeys(call[c].input, call[c].day)
  <2>1. counters'[k] = counters[k]
    BY <1>4 DEF AdjustCounters
  <2>2. Share(c, k) = 0 /\ Share(c, k)' = 0
    BY <1>4 DEF Share, Behind
  <2>3. QED
    BY <1>1, <1>2, <2>1, <2>2 DEF RowType
<1>5. QED
  BY <1>3, <1>4

\* Each action keeps every counter equal to the sum behind it.
LEMMA CountersStep ==
  ASSUME TypeOK, TypeOK', Linked, CountersInv, [Next]_vars PROVE CountersInv'
<1>1. RowsExist'
  BY RowsStep DEF CountersInv
<1> SUFFICES ASSUME NoMidnightStraddle', NEW k \in Keys
             PROVE  counters'[k].total = Committed(k)'
  BY <1>1 DEF CountersInv, CountersMatchReservations
<1>2. NoMidnightStraddle /\ counters[k].total = Committed(k) /\ RowsExist
  BY StraddleStays DEF CountersInv, CountersMatchReservations
<1>3. ASSUME NEW c \in Calls, ReserveCommit(c) PROVE counters'[k].total = Committed(k)'
  BY <1>2, <1>3, ReserveCounts
<1>4. ASSUME NEW c \in Calls, NEW actual \in Actuals, SettleCommit(c, actual)
      PROVE  counters'[k].total = Committed(k)'
  <2>1. PICK delta : delta = actual - reservations[c].amountUsd
    OBVIOUS
  <2>2. delta \in Int
    BY <2>1, ParameterAssumption DEF TypeOK, ReservationType
  <2>3. /\ reservations[c].status = "reserved" /\ reservations[c].day = call[c].day
        /\ counters' = AdjustCounters(call[c].input, reservations[c].day, delta)
        /\ reservations'[c].status = "settled" /\ reservations'[c].amountUsd = actual
        /\ \A b \in Calls : b # c => reservations'[b] = reservations[b]
        /\ \A b \in Calls : call'[b].input = call[b].input /\ call'[b].day = call[b].day
    BY <1>2, <1>4, <2>1
       DEF SettleCommit, NoMidnightStraddle, TypeOK, ReservationType, CallType
  <2>4. QED
    BY <1>2, <2>1, <2>2, <2>3, ResolveCounts
<1>5. ASSUME NEW c \in Calls, ReleaseCommit(c) PROVE counters'[k].total = Committed(k)'
  <2>1. PICK delta : delta = -reservations[c].amountUsd
    OBVIOUS
  <2>2. delta \in Int
    BY <2>1 DEF TypeOK, ReservationType
  <2>3. /\ reservations[c].status = "reserved" /\ reservations[c].day = call[c].day
        /\ counters' = AdjustCounters(call[c].input, reservations[c].day, delta)
        /\ reservations'[c].status = "released"
        /\ \A b \in Calls : b # c => reservations'[b] = reservations[b]
        /\ \A b \in Calls : call'[b].input = call[b].input /\ call'[b].day = call[b].day
    BY <1>2, <1>5, <2>1
       DEF ReleaseCommit, NoMidnightStraddle, TypeOK, ReservationType, CallType
  <2>4. QED
    BY <1>2, <2>1, <2>2, <2>3, ResolveCounts
<1>6. CASE counters' = counters /\ reservations' = reservations
  <2>1. Committed(k)' = Committed(k)
    BY <1>6, EnteredIsKept, CommittedKept
  <2>2. QED
    BY <1>2, <1>6, <2>1
<1>7. ASSUME NEW c \in Calls, CallStep(c) PROVE counters'[k].total = Committed(k)'
  BY <1>3, <1>4, <1>5, <1>6, <1>7 DEF CallStep, ResolveCeilings, PreCheck, ReserveRefused,
     MirrorReservation, AuditAppended, MirrorSettle, MirrorRelease, CallThrows
<1>8. QED
  BY <1>6, <1>7 DEF Next, Crash, SetCeilings, NextDay

\* Before any call there is nothing behind a counter and nothing in it.
LEMMA CountersInit == Init => CountersInv
<1> SUFFICES ASSUME Init PROVE CountersInv
  OBVIOUS
<1>1. RowsExist
  BY DEF Init, RowsExist
<1>2. ASSUME NEW k \in Keys PROVE counters[k].total = Committed(k)
  <2>1. Behind(k) = {}
    BY DEF Init, Behind
  <2>2. Committed(k) = SumFunctionOnSet(Amounts, {})
    BY <2>1 DEF Committed, Amounts, Behind
  <2>3. PICK f : f = Amounts
    OBVIOUS
  <2>4. SumFunctionOnSet(f, {}) = 0
    BY FS_EmptySet, SumStep
  <2>5. QED
    BY <2>2, <2>3, <2>4 DEF Init
<1>3. QED
  BY <1>1, <1>2 DEF CountersInv, CountersMatchReservations

\* The counters, kept as running totals by concurrent reserves, settles and releases,
\* always equal the sum of the reservations behind them, for any number of calls and
\* replicas, unless a reserve straddled midnight.
THEOREM CountersMatch == Spec => []CountersMatchReservations
<1>1. Init => CountersInv
  BY CountersInit
<1>2. IInv /\ IInv' /\ CountersInv /\ [Next]_vars => CountersInv'
  BY CountersStep DEF IInv
<1>3. CountersInv => CountersMatchReservations
  BY DEF CountersInv
<1>4. QED
  BY <1>1, <1>2, <1>3, Invariance, PTL DEF Spec

\* Within a month, without an outstanding reply and without a straddled midnight, what
\* a replica believes to be spent is at most what the durable company counter holds.
THEOREM LocalNeverOver == Spec => []LocalUnderestimates
<1>1. ASSUME TypeOK, LocalMirrorsDurable, CountersMatchReservations
      PROVE  LocalUnderestimates
  <2> SUFFICES ASSUME NEW r \in Replicas, LocalIsCurrent(r), NoMidnightStraddle
               PROVE  LocalSpend(r, Inputs) <= counters[<<"company", MonthOf(today)>>].total
    BY DEF LocalUnderestimates
  <2>1. PICK k : k = <<"company", MonthOf(today)>>
    OBVIOUS
  <2>2. k \in Keys
    <3>1. PICK i \in Inputs : TRUE
      BY ParameterAssumption
    <3>2. k = ScopeKey("company", i, today) /\ "company" \in Levels /\ today \in Days
      BY <1>1, <2>1 DEF ScopeKey, Levels, TypeOK
    <3>3. k \in ScopeKeys(i, today)
      BY <3>2 DEF ScopeKeys
    <3>4. QED
      BY <3>1, <3>2, <3>3 DEF Keys
  <2>3. PICK h, Y : /\ h = [c \in Calls |-> ledger[r][c].amountUsd]
                    /\ Y = {c \in Calls : /\ ledger[r][c].status \in {"reserved", "settled"}
                                          /\ call[c].input \in Inputs}
    OBVIOUS
  <2>4. PICK f, B : f = Amounts /\ B = Behind(k)
    OBVIOUS
  <2>5. ASSUME NEW c \in Y
        PROVE  c \in B /\ h[c] \in Nat /\ h[c] <= f[c]
    <3>1. c \in Calls /\ ledger[r][c].status \in {"reserved", "settled"}
      BY <2>3
    <3>2. /\ ledger[r][c].status = reservations[c].status
          /\ ledger[r][c].amountUsd = reservations[c].amountUsd
          /\ MonthOf(call[c].day) = MonthOf(today)
      BY <1>1, <3>1 DEF LocalIsCurrent, LocalMirrorsDurable
    <3>3. k = ScopeKey("company", call[c].input, call[c].day) /\ "company" \in Levels
      BY <2>1, <3>2 DEF ScopeKey, Levels
    <3>4. c \in B
      BY <2>4, <3>1, <3>2, <3>3 DEF Behind, ScopeKeys
    <3>5. reservations[c].amountUsd \in Nat
      BY <1>1, <3>1 DEF TypeOK, ReservationType
    <3>6. QED
      BY <2>3, <2>4, <3>1, <3>2, <3>4, <3>5 DEF Amounts
  <2>6. IsFiniteSet(B) /\ Y \in SUBSET B /\ \A c \in B : f[c] \in Nat
    <3>1. B \subseteq Calls
      BY <2>4 DEF Behind
    <3>2. \A c \in B : f[c] \in Nat
      BY <1>1, <2>4, <3>1 DEF Amounts, TypeOK, ReservationType
    <3>3. QED
      BY <2>5, <3>1, <3>2, FS_Subset, ParameterAssumption
  <2>7. SumFunctionOnSet(h, Y) <= SumFunctionOnSet(f, B)
    BY <2>5, <2>6, SumMonotone
  <2>8. counters[k].total = SumFunctionOnSet(f, B)
    BY <1>1, <2>2, <2>4 DEF CountersMatchReservations, Committed, Amounts, Behind
  <2>9. LocalSpend(r, Inputs) = SumFunctionOnSet(h, Y)
    BY <2>3 DEF LocalSpend
  <2>10. QED
    BY <2>1, <2>7, <2>8, <2>9
<1>2. QED
  BY <1>1, TypeCorrect, LocalMirror, CountersMatch, PTL
=============================================================================
