---------------------------- MODULE VaultProofs ----------------------------
(***************************************************************************)
(* Theorems about Vault, for any number of requests, roles, keys, DEKs and *)
(* master keys.                                                            *)
(*                                                                         *)
(* A request works on the copy of a row it read some awaits ago, so the    *)
(* properties of the stored rows are not inductive: they rest on what a    *)
(* request may still hold at each await.  Shape relates a request's place  *)
(* to its locals, and each theorem adds what it needs: who refreshes which *)
(* key, who holds a live copy of a revoked one, under which DEK a request  *)
(* is about to encrypt.                                                    *)
(***************************************************************************)
EXTENDS Vault, TLAPS

-----------------------------------------------------------------------------
(* Rows and locals: the updates the vault makes, and what they leave alone.  *)

Pcs == {"idle", "validate", "dek", "putIfAbsent", "reread", "discard", "write",
        "decrypt", "refreshing", "awaiting", "revokeRead", "revokeWrite"}

Local == [op: Ops, slot: 0..MaxKeys + NRoles, last: 0..NRoles, row: KeyRecord, dek: 0..MaxDeks]

\* A row filed under a new id, one encrypted again, one whose token has expired.
Filed(r, id, d) == [r EXCEPT !.id = id, !.dek = d]
Renewed(r, d) == [r EXCEPT !.dek = d, !.expired = FALSE]
Overdue(r) == [r EXCEPT !.expired = TRUE]

Fields == [id: 0..MaxKeys, dek: 0..MaxDeks, revoked: BOOLEAN, expired: BOOLEAN, oauth: BOOLEAN]

\* A key record is one that is not revoked, or has lost its material.
LEMMA RecordFields ==
  /\ 0 \in 0..MaxKeys /\ 0 \in 0..MaxDeks
  /\ \A r \in KeyRecord : r \in Fields
  /\ \A r \in Fields : r.revoked = FALSE \/ r.dek = 0 => r \in KeyRecord
<1>1. \A r \in Fields : r.revoked = FALSE \/ r.dek = 0 => r \in KeyRecord
  BY DEF KeyRecord, Fields
<1>2. QED
  BY <1>1, VaultAssumption DEF KeyRecord, Fields

\* Purging a row keeps everything but its material.
LEMMA RowPurged ==
  ASSUME NEW r \in KeyRecord
  PROVE  LET u == purged(r)
         IN  u \in KeyRecord /\ u.id = r.id /\ u.dek = 0 /\ u.revoked = TRUE /\ u.oauth = r.oauth
<1>1. LET u == purged(r)
      IN  u \in Fields /\ u.id = r.id /\ u.dek = 0 /\ u.revoked = TRUE /\ u.oauth = r.oauth
  BY RecordFields DEF purged, Fields
<1>2. QED
  BY <1>1, RecordFields

\* A live row can be filed under any id and DEK.
LEMMA RowFiled ==
  ASSUME NEW r \in KeyRecord, r.revoked = FALSE, NEW id \in 0..MaxKeys, NEW d \in 0..MaxDeks
  PROVE  LET u == Filed(r, id, d)
         IN  u \in KeyRecord /\ u.id = id /\ u.dek = d /\ u.revoked = FALSE /\ u.oauth = r.oauth
<1>1. LET u == Filed(r, id, d)
      IN  u \in Fields /\ u.id = id /\ u.dek = d /\ u.revoked = FALSE /\ u.oauth = r.oauth
  BY RecordFields DEF Filed, Fields
<1>2. QED
  BY <1>1, RecordFields

\* A live row can be encrypted again.
LEMMA RowRenewed ==
  ASSUME NEW r \in KeyRecord, r.revoked = FALSE, NEW d \in 0..MaxDeks
  PROVE  LET u == Renewed(r, d)
         IN  u \in KeyRecord /\ u.id = r.id /\ u.dek = d /\ u.revoked = FALSE /\ u.oauth = r.oauth
<1>1. LET u == Renewed(r, d)
      IN  u \in Fields /\ u.id = r.id /\ u.dek = d /\ u.revoked = FALSE /\ u.oauth = r.oauth
  BY RecordFields DEF Renewed, Fields
<1>2. QED
  BY <1>1, RecordFields

\* The token of a live row can expire.
LEMMA RowOverdue ==
  ASSUME NEW r \in KeyRecord, r.revoked = FALSE
  PROVE  LET u == Overdue(r)
         IN  u \in KeyRecord /\ u.id = r.id /\ u.dek = r.dek /\ u.revoked = FALSE
<1>1. LET u == Overdue(r)
      IN  u \in Fields /\ u.id = r.id /\ u.dek = r.dek /\ u.revoked = FALSE
  BY RecordFields DEF Overdue, Fields
<1>2. QED
  BY <1>1, RecordFields

\* The empty row and the row of an OAuth credential about to be stored.
LEMMA EmptyRows ==
  /\ NoRow \in KeyRecord /\ NoRow.id = 0 /\ NoRow.dek = 0
  /\ NoRow.revoked = FALSE /\ NoRow.oauth = FALSE
  /\ LET u == [NoRow EXCEPT !.oauth = TRUE] IN u \in KeyRecord /\ u.id = 0 /\ u.revoked = FALSE
<1>1. 0 \in 0..MaxKeys /\ 0 \in 0..MaxDeks
  BY VaultAssumption
<1>2. QED
  BY <1>1 DEF NoRow, KeyRecord

\* How a request's locals change on the way.
WithDek(l, d) == [l EXCEPT !.dek = d]
WithRow(l, r) == [l EXCEPT !.row = r]
NextRole(l) == [l EXCEPT !.slot = @ + 1]
AsRefresh(l) == [l EXCEPT !.op = "performRefresh", !.dek = 0]

\* The fields of the locals after each of these changes.
LEMMA LocalUpdates ==
  ASSUME NEW l \in Local, NEW d \in 0..MaxDeks, NEW r \in KeyRecord
  PROVE  /\ LET u == WithDek(l, d)
            IN  u \in Local /\ u.op = l.op /\ u.slot = l.slot /\ u.last = l.last /\ u.row = l.row /\ u.dek = d
         /\ LET u == WithRow(l, r)
            IN  u \in Local /\ u.op = l.op /\ u.slot = l.slot /\ u.last = l.last /\ u.row = r /\ u.dek = l.dek
         /\ LET u == AsRefresh(l)
            IN  u \in Local /\ u.op = "performRefresh" /\ u.slot = l.slot /\ u.last = l.last /\ u.row = l.row /\ u.dek = 0
         /\ l.slot \in Roles /\ l.slot < l.last =>
              LET u == NextRole(l)
              IN  u \in Local /\ u.op = l.op /\ u.slot = l.slot + 1 /\ u.slot \in Roles
                  /\ u.last = l.last /\ u.row = l.row /\ u.dek = l.dek
<1>1. LET u == WithDek(l, d)
      IN  u \in Local /\ u.op = l.op /\ u.slot = l.slot /\ u.last = l.last /\ u.row = l.row /\ u.dek = d
  BY DEF Local, WithDek
<1>2. LET u == WithRow(l, r)
      IN  u \in Local /\ u.op = l.op /\ u.slot = l.slot /\ u.last = l.last /\ u.row = r /\ u.dek = l.dek
  BY DEF Local, WithRow
<1>3. LET u == AsRefresh(l)
      IN  u \in Local /\ u.op = "performRefresh" /\ u.slot = l.slot /\ u.last = l.last /\ u.row = l.row /\ u.dek = 0
  <2>1. "performRefresh" \in Ops /\ 0 \in 0..MaxDeks
    BY VaultAssumption DEF Ops
  <2>2. QED
    BY <2>1 DEF Local, AsRefresh
<1>4. ASSUME l.slot \in Roles, l.slot < l.last
      PROVE  LET u == NextRole(l)
             IN  u \in Local /\ u.op = l.op /\ u.slot = l.slot + 1 /\ u.slot \in Roles
                 /\ u.last = l.last /\ u.row = l.row /\ u.dek = l.dek
  <2>1. l.slot + 1 \in Roles /\ l.slot + 1 \in 0..MaxKeys + NRoles
    BY <1>4, VaultAssumption DEF Roles, Local
  <2>2. QED
    BY <2>1 DEF Local, NextRole
<1>5. QED
  BY <1>1, <1>2, <1>3, <1>4

-----------------------------------------------------------------------------
(* What a request's place says of its locals.                                *)

Handsy == {"rotateHandsKey", "revokeHandsKey", "decryptHandsKey", "performRefresh"}
Writers == {"storeBrainKey", "storeHandsKey", "rotateBrainKey", "rotateHandsKey", "performRefresh"}

\* The copy of a row is live until the request is about to write its revocation; only
\* Hands keys are refreshed; who works on a stored key names it.
Fits(pc, l) ==
  /\ pc = "idle" => l = Idle
  /\ l.op \in Brainy => l.slot \in Roles /\ l.row.oauth = FALSE
  /\ l.op \in {"storeBrainKey", "storeHandsKey"} => l.row.id = 0
  /\ l.op \in Handsy => l.slot \in Ids /\ l.row.id = l.slot
  /\ pc # "revokeWrite" => l.row.revoked = FALSE
  /\ pc = "revokeWrite" =>
       /\ l.row.revoked = TRUE /\ l.row.id \in Ids
       /\ l.op \in {"revokeBrainKey", "revokeHandsKey", "performRefresh"}
  /\ pc = "validate" => l.op \in Writers \ {"performRefresh"}
  /\ pc \in {"discard", "write"} => l.op \in Writers
  /\ pc \in {"dek", "putIfAbsent", "reread"} => l.op \in Writers \cup Readers
  /\ pc = "decrypt" => l.op \in Readers
  /\ pc = "awaiting" => l.op = "decryptHandsKey"
  /\ pc \in {"refreshing", "revokeRead"} => l.op = "performRefresh"

\* The tables and the histories, typed as in TypeOK.
TablesOK ==
  /\ brain \in [Roles -> KeyRecord] /\ hands \in [Ids -> KeyRecord]
  /\ dekRow \in [key: 0..MaxDeks, master: 0..MaxMasters]
  /\ master \in 1..MaxMasters /\ deks \in [1..MaxDeks -> 0..MaxMasters] /\ keys \in 0..MaxKeys
  /\ inFlight \subseteq Ids /\ settled \subseteq Ids /\ liveDekDiscarded \in BOOLEAN

\* A Hands row that a request works on is still there, under its id.
OnRow(l) == l.op \in Handsy => hands[l.slot].id = l.slot

Shape ==
  /\ TablesOK
  /\ at \in [Procs -> Pcs] /\ loc \in [Procs -> Local]
  /\ \A r \in Roles : brain[r].oauth = FALSE
  /\ \A i \in Ids : hands[i].id \in {0, i}
  /\ \A p \in Procs : Fits(at[p], loc[p]) /\ OnRow(loc[p])

\* A request at rest holds nothing.
LEMMA IdleFits == Idle \in Local /\ Fits("idle", Idle) /\ OnRow(Idle)
<1>1. Idle.op = "none" /\ Idle.row = NoRow /\ Idle.slot = 0 /\ Idle.last = 0 /\ Idle.dek = 0
  BY DEF Idle
<1>2. Idle \in Local
  BY EmptyRows, VaultAssumption DEF Idle, Local, Ops
<1>3. QED
  BY <1>1, <1>2, EmptyRows DEF Fits, OnRow, Handsy, Brainy

\* goto moves one request.
LEMMA Goto ==
  ASSUME at \in [Procs -> Pcs], loc \in [Procs -> Local], NEW p \in Procs, NEW pc \in Pcs,
         NEW l \in Local, goto(p, pc, l)
  PROVE  /\ at' \in [Procs -> Pcs] /\ loc' \in [Procs -> Local]
         /\ at'[p] = pc /\ loc'[p] = l
         /\ \A q \in Procs : q # p => at'[q] = at[q] /\ loc'[q] = loc[q]
BY DEF goto

\* The end of a refresh lets its owner and everyone awaiting it go.
LEMMA RefreshDone ==
  ASSUME at \in [Procs -> Pcs], loc \in [Procs -> Local], NEW p \in Procs, NEW id, refreshDone(p, id)
  PROVE  /\ at' \in [Procs -> Pcs] /\ loc' \in [Procs -> Local]
         /\ inFlight' = inFlight \ {id}
         /\ at'[p] = "idle" /\ loc'[p] = Idle
         /\ \A q \in Procs : \/ at'[q] = at[q] /\ loc'[q] = loc[q]
                             \/ at'[q] = "idle" /\ loc'[q] = Idle
         /\ \A q \in Procs : at[q] = "awaiting" /\ loc[q].row.id = id =>
                               at'[q] = "idle" /\ loc'[q] = Idle
BY IdleFits DEF refreshDone, Pcs

\* A step keeps the shape when its tables are typed, rows keep their ids, and each
\* request it moves fits its new place.
LEMMA ShapeKept ==
  ASSUME Shape, TablesOK',
         \A r \in Roles : brain'[r].oauth = FALSE,
         \A i \in Ids : hands'[i].id \in {0, i} /\ (hands[i].id = i => hands'[i].id = i),
         at' \in [Procs -> Pcs], loc' \in [Procs -> Local],
         \A q \in Procs : \/ at'[q] = at[q] /\ loc'[q] = loc[q]
                          \/ at'[q] = "idle" /\ loc'[q] = Idle
                          \/ Fits(at'[q], loc'[q]) /\ (loc'[q].op \in Handsy =>
                                                         hands[loc'[q].slot].id = loc'[q].slot)
  PROVE  Shape'
<1>1. \A q \in Procs : Fits(at'[q], loc'[q])
  BY IdleFits DEF Shape
<1>2. ASSUME NEW q \in Procs, loc'[q].op \in Handsy
      PROVE  loc'[q].slot \in Ids /\ hands[loc'[q].slot].id = loc'[q].slot
  <2>1. loc'[q].slot \in Ids
    BY <1>1, <1>2 DEF Fits
  <2>2. Idle.op \notin Handsy
    BY DEF Idle, Handsy
  <2>3. QED
    BY <1>2, <2>1, <2>2 DEF Shape, OnRow
<1>3. \A q \in Procs : loc'[q].op \in Handsy => hands'[loc'[q].slot].id = loc'[q].slot
  BY <1>2
<1>4. QED
  BY <1>1, <1>3 DEF Shape, OnRow

\* A step that moves one request and leaves the rows alone.
LEMMA ShapeMoved ==
  ASSUME Shape, NEW p \in Procs, NEW pc \in Pcs, NEW l \in Local, goto(p, pc, l),
         Fits(pc, l), l.op \in Handsy => hands[l.slot].id = l.slot,
         UNCHANGED <<brain, hands>>, TablesOK'
  PROVE  Shape'
<1>1. /\ at' \in [Procs -> Pcs] /\ loc' \in [Procs -> Local]
      /\ at'[p] = pc /\ loc'[p] = l
      /\ \A q \in Procs : q # p => at'[q] = at[q] /\ loc'[q] = loc[q]
  BY Goto DEF Shape
<1>2. /\ \A r \in Roles : brain'[r].oauth = FALSE
      /\ \A i \in Ids : hands'[i].id \in {0, i} /\ (hands[i].id = i => hands'[i].id = i)
  BY DEF Shape
<1>3. QED
  BY <1>1, <1>2, ShapeKept

\* Starting an operation on a row that fits it.
LEMMA ShapeBegun ==
  ASSUME Shape, NEW p \in Procs, NEW op \in Ops, NEW slot \in 0..MaxKeys + NRoles,
         NEW last \in 0..NRoles, NEW row \in KeyRecord, NEW pc \in Pcs,
         begin(p, op, slot, last, row, pc),
         Fits(pc, [op |-> op, slot |-> slot, last |-> last, row |-> row, dek |-> 0]),
         op \in Handsy => hands[slot].id = slot
  PROVE  Shape'
<1> DEFINE l == [op |-> op, slot |-> slot, last |-> last, row |-> row, dek |-> 0]
<1>1. l \in Local /\ l.op = op /\ l.slot = slot
  BY VaultAssumption DEF Local
<1>2. goto(p, pc, l) /\ nothingElse
  BY DEF begin
<1>3. TablesOK' /\ UNCHANGED <<brain, hands>>
  BY <1>2 DEF Shape, TablesOK, nothingElse, rowsUnchanged, dekUnchanged
<1> HIDE DEF l
<1>4. Fits(pc, l)
  BY DEF l
<1>5. QED
  BY <1>1, <1>2, <1>3, <1>4, ShapeMoved

\* Passing on to the next await with a DEK in hand, or without one.
LEMMA WithKeyFits ==
  ASSUME Shape, NEW p \in Procs, at[p] \in {"dek", "putIfAbsent", "reread", "discard"},
         NEW d \in 0..MaxDeks
  PROVE  /\ loc[p] \in Local /\ WithDek(loc[p], d) \in Local
         /\ WithDek(loc[p], d).op = loc[p].op /\ WithDek(loc[p], d).slot = loc[p].slot
         /\ WithDek(loc[p], d).row = loc[p].row /\ WithDek(loc[p], d).dek = d
         /\ afterDek(p) \in {"decrypt", "write"}
         /\ Fits(afterDek(p), WithDek(loc[p], d)) /\ Fits(afterDek(p), loc[p])
         /\ \A pc \in {"putIfAbsent", "reread"} : Fits(pc, WithDek(loc[p], d)) /\ Fits(pc, loc[p])
         /\ loc[p].op \notin Readers => /\ Fits("discard", loc[p])
                                        /\ Fits("write", WithDek(loc[p], d))
         /\ loc[p].op \in Handsy => hands[loc[p].slot].id = loc[p].slot
<1> DEFINE l == WithDek(loc[p], d)
<1>1. loc[p] \in Local /\ Fits(at[p], loc[p]) /\ OnRow(loc[p])
  BY DEF Shape
<1>2. NoRow \in KeyRecord
  BY EmptyRows
<1>3. l \in Local /\ l.op = loc[p].op /\ l.slot = loc[p].slot /\ l.row = loc[p].row /\ l.dek = d
  BY <1>1, <1>2, LocalUpdates
<1> HIDE DEF l
<1>4. loc[p].op \in Writers \cup Readers
  BY <1>1 DEF Fits
<1>5. afterDek(p) \in {"decrypt", "write"} /\ (afterDek(p) = "decrypt" <=> loc[p].op \in Readers)
  BY DEF afterDek
<1>6. /\ loc[p].op \in Brainy => loc[p].slot \in Roles /\ loc[p].row.oauth = FALSE
      /\ loc[p].op \in {"storeBrainKey", "storeHandsKey"} => loc[p].row.id = 0
      /\ loc[p].op \in Handsy => loc[p].slot \in Ids /\ loc[p].row.id = loc[p].slot
      /\ loc[p].row.revoked = FALSE
  BY <1>1 DEF Fits
<1>7. ASSUME NEW pc \in {"decrypt", "write", "putIfAbsent", "reread", "discard"},
             pc = "decrypt" => loc[p].op \in Readers,
             pc \in {"write", "discard"} => loc[p].op \in Writers
      PROVE  Fits(pc, l) /\ Fits(pc, loc[p])
  BY <1>3, <1>4, <1>6, <1>7 DEF Fits
<1>8. Fits(afterDek(p), l) /\ Fits(afterDek(p), loc[p])
  BY <1>4, <1>5, <1>7
<1>9. \A pc \in {"putIfAbsent", "reread"} : Fits(pc, l) /\ Fits(pc, loc[p])
  BY <1>7
<1>10. loc[p].op \notin Readers => Fits("discard", loc[p]) /\ Fits("write", l)
  BY <1>4, <1>7
<1>11. QED
  BY <1>1, <1>3, <1>5, <1>8, <1>9, <1>10 DEF OnRow, l

\* A generated DEK is recorded under the master key in use.
LEMMA Generated ==
  ASSUME TablesOK, NEW p \in Procs, NEW d \in 1..MaxDeks, NEW pc, generateKey(p, d, pc)
  PROVE  /\ deks[d] = 0 /\ deks'[d] = master
         /\ deks' \in [1..MaxDeks -> 0..MaxMasters]
         /\ \A e \in 1..MaxDeks : e # d => deks'[e] = deks[e]
         /\ goto(p, pc, WithDek(loc[p], d))
<1>1. deks' = [deks EXCEPT ![d] = master] /\ deks[d] = 0 /\ goto(p, pc, WithDek(loc[p], d))
  BY DEF generateKey, unused, WithDek
<1>2. master \in 0..MaxMasters
  BY VaultAssumption DEF TablesOK
<1>3. QED
  BY <1>1, <1>2 DEF TablesOK

\* Reading the DEK on file keeps the shape.
LEMMA ShapeDecryptOrThrow ==
  ASSUME Shape, NEW p \in Procs, at[p] \in {"dek", "reread"}, decryptOrThrow(p),
         UNCHANGED <<brain, hands>>, TablesOK'
  PROVE  Shape'
<1>0. dekRow.key \in 0..MaxDeks
  BY DEF Shape, TablesOK
<1>1. CASE readable(dekRow)
  <2>1. goto(p, afterDek(p), WithDek(loc[p], dekRow.key))
    BY <1>1 DEF decryptOrThrow, WithDek
  <2>2. afterDek(p) \in Pcs
    BY <1>0, WithKeyFits DEF Pcs
  <2>3. QED
    BY <1>0, <2>1, <2>2, WithKeyFits, ShapeMoved
<1>2. CASE ~readable(dekRow) /\ loc[p].op \in Readers
  <2>1. goto(p, "idle", Idle)
    BY <1>2 DEF decryptOrThrow, finish
  <2>2. "idle" \in Pcs /\ Idle.op \notin Handsy
    BY DEF Pcs, Idle, Handsy
  <2>3. QED
    BY <2>1, <2>2, IdleFits, ShapeMoved
<1>3. CASE ~readable(dekRow) /\ loc[p].op \notin Readers
  <2>1. goto(p, "discard", loc[p]) /\ "discard" \in Pcs
    BY <1>3 DEF decryptOrThrow, Pcs
  <2>2. QED
    BY <1>0, <1>3, <2>1, WithKeyFits, ShapeMoved
<1>4. QED
  BY <1>1, <1>2, <1>3

\* Finding, creating or replacing the DEK keeps the shape.
LEMMA ShapeDek ==
  ASSUME Shape, NEW p \in Procs,
         getOrCreateDek(p) \/ putIfAbsent(p) \/ rereadWinner(p) \/ discardAndRecreateDek(p)
  PROVE  Shape'
<1>0. TablesOK /\ loc[p] \in Local
  BY DEF Shape
<1>1. CASE getOrCreateDek(p)
  <2>1. at[p] = "dek" /\ rowsUnchanged /\ UNCHANGED <<dekRow, master, liveDekDiscarded>>
    BY <1>1 DEF getOrCreateDek
  <2>2. CASE decryptOrThrow(p) /\ UNCHANGED deks
    <3>1. TablesOK' /\ UNCHANGED <<brain, hands>>
      BY <1>0, <2>1, <2>2 DEF TablesOK, rowsUnchanged
    <3>2. QED
      BY <2>1, <2>2, <3>1, ShapeDecryptOrThrow
  <2>3. ASSUME NEW d \in 1..MaxDeks, generateKey(p, d, "putIfAbsent") PROVE Shape'
    <3>1. deks' \in [1..MaxDeks -> 0..MaxMasters] /\ goto(p, "putIfAbsent", WithDek(loc[p], d))
      BY <1>0, <2>3, Generated
    <3>2. TablesOK' /\ UNCHANGED <<brain, hands>>
      BY <1>0, <2>1, <3>1 DEF TablesOK, rowsUnchanged
    <3>3. d \in 0..MaxDeks /\ "putIfAbsent" \in Pcs
      BY DEF Pcs
    <3>4. QED
      BY <2>1, <3>1, <3>2, <3>3, WithKeyFits, ShapeMoved
  <2>4. QED
    BY <1>1, <2>2, <2>3 DEF getOrCreateDek
<1>2. CASE putIfAbsent(p)
  <2>1. /\ at[p] = "putIfAbsent" /\ rowsUnchanged /\ UNCHANGED <<deks, master, liveDekDiscarded>>
        /\ goto(p, IF dekRow.key = 0 THEN afterDek(p) ELSE "reread", loc[p])
        /\ dekRow' = IF dekRow.key = 0 THEN [key |-> loc[p].dek, master |-> master] ELSE dekRow
    BY <1>2 DEF putIfAbsent
  <2>2. loc[p].dek \in 0..MaxDeks /\ master \in 0..MaxMasters
    BY <1>0, VaultAssumption DEF Local, TablesOK
  <2>3. TablesOK' /\ UNCHANGED <<brain, hands>>
    BY <1>0, <2>1, <2>2 DEF TablesOK, rowsUnchanged
  <2>4. afterDek(p) \in Pcs /\ "reread" \in Pcs
    BY <2>1, <2>2, WithKeyFits DEF Pcs
  <2>5. CASE dekRow.key = 0
    BY <2>1, <2>2, <2>3, <2>4, <2>5, WithKeyFits, ShapeMoved
  <2>6. CASE dekRow.key # 0
    BY <2>1, <2>2, <2>3, <2>4, <2>6, WithKeyFits, ShapeMoved
  <2>7. QED
    BY <2>5, <2>6
<1>3. CASE rereadWinner(p)
  <2>1. at[p] = "reread" /\ decryptOrThrow(p) /\ nothingElse
    BY <1>3 DEF rereadWinner
  <2>2. TablesOK' /\ UNCHANGED <<brain, hands>>
    BY <1>0, <2>1 DEF TablesOK, nothingElse, rowsUnchanged, dekUnchanged
  <2>3. QED
    BY <2>1, <2>2, ShapeDecryptOrThrow
<1>4. CASE discardAndRecreateDek(p)
  <2>1. PICK d \in 1..MaxDeks : generateKey(p, d, "write") /\ dekRow' = [key |-> d, master |-> master]
    BY <1>4 DEF discardAndRecreateDek
  <2>2. deks' \in [1..MaxDeks -> 0..MaxMasters] /\ goto(p, "write", WithDek(loc[p], d))
    BY <1>0, <2>1, Generated
  <2>3. at[p] = "discard" /\ rowsUnchanged /\ master' = master
    BY <1>4 DEF discardAndRecreateDek
  <2>4. liveDekDiscarded' \in BOOLEAN
    BY <1>4 DEF discardAndRecreateDek
  <2>5. TablesOK' /\ UNCHANGED <<brain, hands>>
    <3>1. dekRow' \in [key: 0..MaxDeks, master: 0..MaxMasters]
      BY <1>0, <2>1, VaultAssumption DEF TablesOK
    <3>2. QED
      BY <1>0, <2>2, <2>3, <2>4, <3>1 DEF TablesOK, rowsUnchanged
  <2>6. loc[p].op \notin Readers /\ d \in 0..MaxDeks /\ "write" \in Pcs
    BY <2>3 DEF Shape, Fits, Writers, Readers, Pcs
  <2>7. QED
    BY <2>2, <2>3, <2>5, <2>6, WithKeyFits, ShapeMoved
<1>5. QED
  BY <1>1, <1>2, <1>3, <1>4

\* Starting any operation keeps the shape.
LEMMA ShapeStart ==
  ASSUME Shape, NEW p \in Procs,
         \/ \E r \in Roles : storeForRoles(p, r, r)
         \/ storeForRoles(p, 1, NRoles)
         \/ handsConnect(p) \/ handsOAuthCallback(p)
         \/ \E r \in Roles : rotateBrainKey(p, r) \/ revokeBrainKey(p, r) \/ decryptBrainKey(p, r)
         \/ \E i \in Ids : rotateHandsKey(p, i) \/ revokeHandsKey(p, i)
         \/ decryptHandsKey(p)
  PROVE  Shape'
<1>0. /\ \A r \in Roles : brain[r] \in KeyRecord /\ brain[r].oauth = FALSE
      /\ \A i \in Ids : hands[i] \in KeyRecord /\ hands[i].id \in {0, i}
  BY DEF Shape, TablesOK
<1>1. /\ \A r \in Roles : r \in 0..MaxKeys + NRoles /\ r \in 0..NRoles
      /\ \A i \in Ids : i \in 0..MaxKeys + NRoles
      /\ 0 \in 0..MaxKeys + NRoles /\ 0 \in 0..NRoles /\ NRoles \in 0..NRoles /\ 1 \in Roles
      /\ NRoles \in Roles
  BY VaultAssumption DEF Roles, Ids
<1>2. /\ {"storeBrainKey", "storeHandsKey", "rotateBrainKey", "rotateHandsKey", "revokeBrainKey",
          "revokeHandsKey", "decryptBrainKey", "decryptHandsKey"} \subseteq Ops
      /\ {"validate", "dek", "revokeWrite"} \subseteq Pcs
  BY DEF Ops, Pcs
<1>3. \A r \in KeyRecord : r.id \in 0..MaxKeys /\ r.revoked \in BOOLEAN
  BY DEF KeyRecord
<1>4. ASSUME NEW first \in Roles, NEW last \in Roles, storeForRoles(p, first, last) PROVE Shape'
  <2>1. begin(p, "storeBrainKey", first, last, NoRow, "validate")
    BY <1>4 DEF storeForRoles
  <2>2. Fits("validate", [op |-> "storeBrainKey", slot |-> first, last |-> last, row |-> NoRow, dek |-> 0])
    BY EmptyRows DEF Fits, Brainy, Handsy, Writers
  <2>3. "storeBrainKey" \notin Handsy
    BY DEF Handsy
  <2>4. QED
    BY <1>1, <1>2, <2>1, <2>2, <2>3, EmptyRows, ShapeBegun
<1>5. CASE handsConnect(p)
  <2>1. begin(p, "storeHandsKey", 0, 0, NoRow, "dek")
    BY <1>5 DEF handsConnect
  <2>2. Fits("dek", [op |-> "storeHandsKey", slot |-> 0, last |-> 0, row |-> NoRow, dek |-> 0])
    BY EmptyRows DEF Fits, Brainy, Handsy, Writers
  <2>3. "storeHandsKey" \notin Handsy
    BY DEF Handsy
  <2>4. QED
    BY <1>1, <1>2, <2>1, <2>2, <2>3, EmptyRows, ShapeBegun
<1>6. CASE handsOAuthCallback(p)
  <2> DEFINE row == [NoRow EXCEPT !.oauth = TRUE]
  <2>1. begin(p, "storeHandsKey", 0, 0, row, "dek") /\ row \in KeyRecord /\ row.id = 0 /\ row.revoked = FALSE
    BY <1>6, EmptyRows DEF handsOAuthCallback
  <2> HIDE DEF row
  <2>2. Fits("dek", [op |-> "storeHandsKey", slot |-> 0, last |-> 0, row |-> row, dek |-> 0])
    BY <2>1 DEF Fits, Brainy, Handsy, Writers
  <2>3. "storeHandsKey" \notin Handsy
    BY DEF Handsy
  <2>4. QED
    BY <1>1, <1>2, <2>1, <2>2, <2>3, ShapeBegun
<1>7. ASSUME NEW r \in Roles, rotateBrainKey(p, r) \/ decryptBrainKey(p, r) PROVE Shape'
  <2>1. brain[r].revoked = FALSE
    BY <1>0, <1>3, <1>7 DEF rotateBrainKey, decryptBrainKey, active
  <2>2. "rotateBrainKey" \notin Handsy /\ "decryptBrainKey" \notin Handsy
    BY DEF Handsy
  <2>3. CASE rotateBrainKey(p, r)
    <3>1. begin(p, "rotateBrainKey", r, 0, brain[r], "validate")
      BY <2>3 DEF rotateBrainKey
    <3>2. Fits("validate", [op |-> "rotateBrainKey", slot |-> r, last |-> 0, row |-> brain[r], dek |-> 0])
      BY <1>0, <2>1 DEF Fits, Brainy, Handsy, Writers
    <3>3. QED
      BY <1>0, <1>1, <1>2, <2>2, <3>1, <3>2, ShapeBegun
  <2>4. CASE decryptBrainKey(p, r)
    <3>1. begin(p, "decryptBrainKey", r, 0, brain[r], "dek")
      BY <2>4 DEF decryptBrainKey
    <3>2. Fits("dek", [op |-> "decryptBrainKey", slot |-> r, last |-> 0, row |-> brain[r], dek |-> 0])
      BY <1>0, <2>1 DEF Fits, Brainy, Handsy, Readers
    <3>3. QED
      BY <1>0, <1>1, <1>2, <2>2, <3>1, <3>2, ShapeBegun
  <2>5. QED
    BY <1>7, <2>3, <2>4
<1>8. ASSUME NEW r \in Roles, revokeBrainKey(p, r) PROVE Shape'
  <2> DEFINE row == purged(brain[r])
  <2>1. begin(p, "revokeBrainKey", r, 0, row, "revokeWrite") /\ brain[r].id # 0
    BY <1>8 DEF revokeBrainKey
  <2>2. 0 \in 0..MaxKeys /\ 0 \in 0..MaxDeks
    BY VaultAssumption
  <2>3. row \in KeyRecord /\ row.id = brain[r].id /\ row.revoked = TRUE /\ row.oauth = FALSE
    <3>1. brain[r] \in KeyRecord
      BY <1>0
    <3>2. row \in KeyRecord /\ row.id = brain[r].id /\ row.revoked = TRUE /\ row.oauth = brain[r].oauth
      BY <2>2, <3>1, RowPurged
    <3> HIDE DEF row
    <3>3. QED
      BY <1>0, <3>2
  <2>4. row.id \in Ids
    BY <1>0, <1>3, <2>1, <2>3, VaultAssumption DEF Ids
  <2> HIDE DEF row
  <2>5. Fits("revokeWrite", [op |-> "revokeBrainKey", slot |-> r, last |-> 0, row |-> row, dek |-> 0])
    BY <2>3, <2>4 DEF Fits, Brainy, Handsy
  <2>6. "revokeBrainKey" \notin Handsy
    BY DEF Handsy
  <2>7. QED
    BY <1>1, <1>2, <2>1, <2>3, <2>5, <2>6, ShapeBegun
<1>9. ASSUME NEW i \in Ids, rotateHandsKey(p, i) PROVE Shape'
  <2>1. /\ begin(p, "rotateHandsKey", i, 0, hands[i], "validate")
        /\ hands[i].id = i /\ hands[i].revoked = FALSE
    BY <1>0, <1>3, <1>9 DEF rotateHandsKey, active
  <2>2. Fits("validate", [op |-> "rotateHandsKey", slot |-> i, last |-> 0, row |-> hands[i], dek |-> 0])
    BY <2>1 DEF Fits, Brainy, Handsy, Writers
  <2>3. QED
    BY <1>0, <1>1, <1>2, <2>1, <2>2, ShapeBegun
<1>10. ASSUME NEW i \in Ids, revokeHandsKey(p, i) PROVE Shape'
  <2> DEFINE row == purged(hands[i])
  <2>1. begin(p, "revokeHandsKey", i, 0, row, "revokeWrite") /\ hands[i].id = i
    BY <1>0, <1>10 DEF revokeHandsKey
  <2>2. 0 \in 0..MaxKeys /\ 0 \in 0..MaxDeks
    BY VaultAssumption
  <2>3. row \in KeyRecord /\ row.id = i /\ row.revoked = TRUE
    BY <1>0, <2>1, <2>2, RowPurged
  <2> HIDE DEF row
  <2>4. Fits("revokeWrite", [op |-> "revokeHandsKey", slot |-> i, last |-> 0, row |-> row, dek |-> 0])
    BY <2>3 DEF Fits, Brainy, Handsy
  <2>5. QED
    BY <1>1, <1>2, <2>1, <2>3, <2>4, ShapeBegun
<1>11. CASE decryptHandsKey(p)
  <2>1. PICK i \in Ids : active(hands[i]) /\ begin(p, "decryptHandsKey", i, 0, hands[i], "dek")
    BY <1>11 DEF decryptHandsKey, resolveHandsKeyId
  <2>2. hands[i].id = i /\ hands[i].revoked = FALSE
    BY <1>0, <1>3, <2>1 DEF active
  <2>3. Fits("dek", [op |-> "decryptHandsKey", slot |-> i, last |-> 0, row |-> hands[i], dek |-> 0])
    BY <2>2 DEF Fits, Brainy, Handsy, Readers
  <2>4. QED
    BY <1>0, <1>1, <1>2, <2>1, <2>2, <2>3, ShapeBegun
<1>12. QED
  BY <1>1, <1>4, <1>5, <1>6, <1>7, <1>8, <1>9, <1>10, <1>11

\* What an operation starts with: nothing, a copy of a live row, or the purged copy of
\* the row it revokes.
LEMMA Starts ==
  ASSUME Shape, NEW p \in Procs,
         \/ \E r \in Roles : storeForRoles(p, r, r)
         \/ storeForRoles(p, 1, NRoles)
         \/ handsConnect(p) \/ handsOAuthCallback(p)
         \/ \E r \in Roles : rotateBrainKey(p, r) \/ revokeBrainKey(p, r) \/ decryptBrainKey(p, r)
         \/ \E i \in Ids : rotateHandsKey(p, i) \/ revokeHandsKey(p, i)
         \/ decryptHandsKey(p)
  PROVE  \E op \in Ops \ {"performRefresh"}, slot \in 0..MaxKeys + NRoles, last \in 0..NRoles,
            row \in KeyRecord, pc \in {"validate", "dek", "revokeWrite"} :
              /\ begin(p, op, slot, last, row, pc)
              /\ row.id = 0 \/ row.revoked = TRUE \/ row \in storedRows
              /\ op \in Brainy => row.id \in {0, brain[slot].id}
<1>0. /\ \A r \in Roles : brain[r] \in KeyRecord /\ brain[r] \in storedRows
      /\ \A i \in Ids : hands[i] \in KeyRecord /\ hands[i] \in storedRows
  BY DEF Shape, TablesOK, storedRows
<1>1. /\ \A r \in Roles : r \in 0..MaxKeys + NRoles /\ r \in 0..NRoles
      /\ \A i \in Ids : i \in 0..MaxKeys + NRoles
      /\ 0 \in 0..MaxKeys + NRoles /\ 0 \in 0..NRoles /\ NRoles \in Roles /\ 1 \in Roles
  BY VaultAssumption DEF Roles, Ids
<1>2. {"storeBrainKey", "storeHandsKey", "rotateBrainKey", "rotateHandsKey", "revokeBrainKey",
       "revokeHandsKey", "decryptBrainKey", "decryptHandsKey"} \subseteq Ops \ {"performRefresh"}
  BY DEF Ops
<1>3. ASSUME NEW first \in Roles, NEW last \in Roles, storeForRoles(p, first, last)
      PROVE  begin(p, "storeBrainKey", first, last, NoRow, "validate")
  BY <1>3 DEF storeForRoles
<1>4. ASSUME NEW first \in Roles, NEW last \in Roles, storeForRoles(p, first, last)
      PROVE  \E op \in Ops \ {"performRefresh"}, slot \in 0..MaxKeys + NRoles, t \in 0..NRoles,
               row \in KeyRecord, pc \in {"validate", "dek", "revokeWrite"} :
                 /\ begin(p, op, slot, t, row, pc) /\ row.id = 0
  BY <1>1, <1>2, <1>3, <1>4, EmptyRows
<1>5. CASE handsConnect(p)
  BY <1>1, <1>2, <1>5, EmptyRows DEF handsConnect, Brainy
<1>6. CASE handsOAuthCallback(p)
  <2> DEFINE row == [NoRow EXCEPT !.oauth = TRUE]
  <2>1. begin(p, "storeHandsKey", 0, 0, row, "dek") /\ row \in KeyRecord /\ row.id = 0
    BY <1>6, EmptyRows DEF handsOAuthCallback
  <2> HIDE DEF row
  <2>2. QED
    BY <1>1, <1>2, <2>1 DEF Brainy
<1>7. ASSUME NEW r \in Roles, rotateBrainKey(p, r)
      PROVE  begin(p, "rotateBrainKey", r, 0, brain[r], "validate")
  BY <1>7 DEF rotateBrainKey
<1>8. ASSUME NEW r \in Roles, decryptBrainKey(p, r)
      PROVE  begin(p, "decryptBrainKey", r, 0, brain[r], "dek")
  BY <1>8 DEF decryptBrainKey
<1>9. ASSUME NEW r \in Roles, revokeBrainKey(p, r)
      PROVE  \E row \in KeyRecord : /\ begin(p, "revokeBrainKey", r, 0, row, "revokeWrite")
                                    /\ row.revoked = TRUE /\ row.id = brain[r].id
  <2>1. /\ purged(brain[r]) \in KeyRecord /\ purged(brain[r]).revoked = TRUE
        /\ purged(brain[r]).id = brain[r].id
    BY <1>0, RowPurged
  <2>2. QED
    BY <1>9, <2>1 DEF revokeBrainKey
<1>10. ASSUME NEW i \in Ids, rotateHandsKey(p, i)
       PROVE  begin(p, "rotateHandsKey", i, 0, hands[i], "validate")
  BY <1>10 DEF rotateHandsKey
<1>11. ASSUME NEW i \in Ids, revokeHandsKey(p, i)
       PROVE  \E row \in KeyRecord : /\ begin(p, "revokeHandsKey", i, 0, row, "revokeWrite")
                                     /\ row.revoked = TRUE
  <2>1. purged(hands[i]) \in KeyRecord /\ purged(hands[i]).revoked = TRUE
    BY <1>0, RowPurged
  <2>2. QED
    BY <1>11, <2>1 DEF revokeHandsKey
<1>12. CASE decryptHandsKey(p)
  <2>1. PICK i \in Ids : begin(p, "decryptHandsKey", i, 0, hands[i], "dek")
    BY <1>12 DEF decryptHandsKey, resolveHandsKeyId
  <2>2. QED
    BY <1>0, <1>1, <1>2, <2>1 DEF Brainy
<1>13. CASE (\E r \in Roles : storeForRoles(p, r, r)) \/ storeForRoles(p, 1, NRoles)
  BY <1>1, <1>4, <1>13
<1>14. ASSUME NEW r \in Roles, rotateBrainKey(p, r) \/ revokeBrainKey(p, r) \/ decryptBrainKey(p, r)
       PROVE  \E op \in Ops \ {"performRefresh"}, slot \in 0..MaxKeys + NRoles, last \in 0..NRoles,
                row \in KeyRecord, pc \in {"validate", "dek", "revokeWrite"} :
                  /\ begin(p, op, slot, last, row, pc)
                  /\ row.id = 0 \/ row.revoked = TRUE \/ row \in storedRows
                  /\ op \in Brainy => row.id \in {0, brain[slot].id}
  BY <1>0, <1>1, <1>2, <1>7, <1>8, <1>9, <1>14
<1>15. ASSUME NEW i \in Ids, rotateHandsKey(p, i) \/ revokeHandsKey(p, i)
       PROVE  \E op \in Ops \ {"performRefresh"}, slot \in 0..MaxKeys + NRoles, last \in 0..NRoles,
                row \in KeyRecord, pc \in {"validate", "dek", "revokeWrite"} :
                  /\ begin(p, op, slot, last, row, pc)
                  /\ row.id = 0 \/ row.revoked = TRUE \/ row \in storedRows
                  /\ op \in Brainy => row.id \in {0, brain[slot].id}
  BY <1>0, <1>1, <1>2, <1>10, <1>11, <1>15 DEF Brainy
<1>16. QED
  BY <1>5, <1>6, <1>12, <1>13, <1>14, <1>15

\* Validating, decrypting and refreshing keep the shape.
LEMMA ShapeMove ==
  ASSUME Shape, NEW p \in Procs,
         runValidation(p) \/ decrypt(p) \/ performRefresh(p) \/ revokeAfterRefresh(p)
  PROVE  Shape'
<1>0. TablesOK /\ loc[p] \in Local /\ Fits(at[p], loc[p]) /\ OnRow(loc[p])
  BY DEF Shape
<1>1. loc[p].op \in Handsy => hands[loc[p].slot].id = loc[p].slot
  BY <1>0 DEF OnRow
<1>2. {"idle", "dek", "awaiting", "refreshing", "revokeRead", "revokeWrite"} \subseteq Pcs /\ Idle.op \notin Handsy
  BY DEF Pcs, Idle, Handsy
<1>3. 0 \in 0..MaxDeks /\ NoRow \in KeyRecord
  BY VaultAssumption, EmptyRows
<1>4. ASSUME finish(p), UNCHANGED <<brain, hands>>, TablesOK' PROVE Shape'
  BY <1>2, <1>4, IdleFits, ShapeMoved DEF finish
<1>5. CASE runValidation(p)
  <2>1. at[p] = "validate" /\ nothingElse
    BY <1>5 DEF runValidation
  <2>2. TablesOK' /\ UNCHANGED <<brain, hands>>
    BY <1>0, <2>1 DEF TablesOK, nothingElse, rowsUnchanged, dekUnchanged
  <2>3. Fits("dek", loc[p])
    BY <1>0, <2>1 DEF Fits
  <2>4. QED
    BY <1>0, <1>1, <1>2, <1>4, <1>5, <2>2, <2>3, ShapeMoved DEF runValidation
<1>6. CASE decrypt(p)
  <2>1. at[p] = "decrypt" /\ dekUnchanged /\ UNCHANGED <<brain, hands, keys, master, settled>>
    BY <1>6 DEF decrypt
  <2>2. CASE finish(p) /\ UNCHANGED inFlight
    <3>1. TablesOK'
      BY <1>0, <2>1, <2>2 DEF TablesOK, dekUnchanged
    <3>2. QED
      BY <1>4, <2>1, <2>2, <3>1
  <2>3. CASE credentialIsExpired(loc[p].row) /\ getOrRefreshCredential(p)
    <3>1. loc[p].op = "decryptHandsKey"
      BY <1>0, <2>1, <2>3 DEF Fits, Brainy, Readers, credentialIsExpired
    <3>2. loc[p].slot \in Ids /\ loc[p].row.id = loc[p].slot /\ loc[p].row.revoked = FALSE
      BY <1>0, <2>1, <3>1 DEF Fits, Handsy
    <3>3. inFlight' \subseteq Ids
      BY <1>0, <2>3, <3>2 DEF getOrRefreshCredential, TablesOK
    <3>4. TablesOK'
      BY <1>0, <2>1, <3>3 DEF TablesOK, dekUnchanged
    <3>5. CASE loc[p].row.id \in inFlight
      <4>1. goto(p, "awaiting", loc[p])
        BY <2>3, <3>5 DEF getOrRefreshCredential
      <4>2. Fits("awaiting", loc[p])
        BY <3>1, <3>2 DEF Fits, Brainy, Handsy
      <4>3. QED
        BY <1>0, <1>1, <1>2, <2>1, <3>4, <4>1, <4>2, ShapeMoved
    <3>6. CASE loc[p].row.id \notin inFlight
      <4> DEFINE l == AsRefresh(loc[p])
      <4>1. goto(p, "refreshing", l)
        BY <2>3, <3>6 DEF getOrRefreshCredential, AsRefresh
      <4>2. l \in Local /\ l.op = "performRefresh" /\ l.slot = loc[p].slot /\ l.row = loc[p].row
        BY <1>0, <1>3, LocalUpdates
      <4> HIDE DEF l
      <4>3. Fits("refreshing", l)
        BY <3>1, <3>2, <4>2 DEF Fits, Brainy, Handsy
      <4>4. hands[l.slot].id = l.slot
        BY <1>1, <3>1, <4>2 DEF Handsy
      <4>5. QED
        BY <1>2, <2>1, <3>4, <4>1, <4>2, <4>3, <4>4, ShapeMoved
    <3>7. QED
      BY <3>5, <3>6
  <2>4. QED
    BY <1>6, <2>2, <2>3 DEF decrypt
<1>7. CASE performRefresh(p)
  <2>1. /\ at[p] = "refreshing" /\ loc[p].op = "performRefresh" /\ loc[p].row.revoked = FALSE
        /\ loc[p].slot \in Ids /\ loc[p].row.id = loc[p].slot
        /\ dekUnchanged /\ UNCHANGED <<brain, hands, keys, master, settled>>
    BY <1>0, <1>7 DEF performRefresh, Fits, Handsy
  <2>2. Fits("dek", loc[p]) /\ Fits("revokeRead", loc[p])
    BY <2>1 DEF Fits, Brainy, Handsy, Writers
  <2>3. CASE (goto(p, "dek", loc[p]) \/ goto(p, "revokeRead", loc[p])) /\ UNCHANGED inFlight
    <3>1. TablesOK'
      BY <1>0, <2>1, <2>3 DEF TablesOK, dekUnchanged
    <3>2. QED
      BY <1>0, <1>1, <1>2, <2>1, <2>2, <2>3, <3>1, ShapeMoved
  <2>4. CASE refreshDone(p, loc[p].row.id)
    <3>1. /\ at' \in [Procs -> Pcs] /\ loc' \in [Procs -> Local] /\ inFlight' \subseteq inFlight
          /\ \A q \in Procs : \/ at'[q] = at[q] /\ loc'[q] = loc[q]
                              \/ at'[q] = "idle" /\ loc'[q] = Idle
      BY <2>4, RefreshDone DEF Shape
    <3>2. TablesOK'
      BY <1>0, <2>1, <3>1 DEF TablesOK, dekUnchanged
    <3>3. /\ \A r \in Roles : brain'[r].oauth = FALSE
          /\ \A i \in Ids : hands'[i].id \in {0, i} /\ (hands[i].id = i => hands'[i].id = i)
      BY <2>1 DEF Shape
    <3>4. QED
      BY <3>1, <3>2, <3>3, ShapeKept
  <2>5. QED
    BY <1>7, <2>3, <2>4 DEF performRefresh
<1>8. CASE revokeAfterRefresh(p)
  <2> DEFINE row == purged(hands[loc[p].slot])
             l == WithRow(loc[p], row)
  <2>1. at[p] = "revokeRead" /\ goto(p, "revokeWrite", l) /\ nothingElse
    BY <1>8 DEF revokeAfterRefresh, WithRow
  <2>2. loc[p].op = "performRefresh" /\ loc[p].slot \in Ids /\ hands[loc[p].slot].id = loc[p].slot
    BY <1>0, <1>1, <2>1 DEF Fits, Handsy
  <2>3. hands[loc[p].slot] \in KeyRecord /\ 0 \in 0..MaxKeys
    BY <1>0, <2>2, VaultAssumption DEF TablesOK
  <2>4. row \in KeyRecord /\ row.id = loc[p].slot /\ row.revoked = TRUE
    BY <1>3, <2>2, <2>3, RowPurged
  <2> HIDE DEF row
  <2>5. l \in Local /\ l.op = "performRefresh" /\ l.slot = loc[p].slot /\ l.row = row
    BY <1>0, <1>3, <2>2, <2>4, LocalUpdates
  <2> HIDE DEF l
  <2>6. Fits("revokeWrite", l)
    BY <2>2, <2>4, <2>5 DEF Fits, Brainy, Handsy
  <2>7. TablesOK' /\ UNCHANGED <<brain, hands>>
    BY <1>0, <2>1 DEF TablesOK, nothingElse, rowsUnchanged, dekUnchanged
  <2>8. QED
    BY <1>2, <2>1, <2>2, <2>5, <2>6, <2>7, ShapeMoved
<1>9. QED
  BY <1>5, <1>6, <1>7, <1>8

\* Writing a row, and the passing of time, keep the shape.
LEMMA ShapeWrite ==
  ASSUME Shape, NEW p \in Procs,
         storeBrainKey(p) \/ storeHandsKey(p) \/ writeRotated(p) \/ writeRevoked(p) \/ writeRefreshed(p)
  PROVE  Shape'
<1> DEFINE l == loc[p]
<1>0. TablesOK /\ l \in Local /\ Fits(at[p], l) /\ OnRow(l)
  BY DEF Shape
<1>1. l.row \in KeyRecord /\ l.dek \in 0..MaxDeks /\ l.row.id \in 0..MaxKeys
  BY <1>0 DEF Local, KeyRecord
<1>2. /\ \A r \in Roles : brain[r].oauth = FALSE
      /\ \A i \in Ids : hands[i].id \in {0, i}
      /\ at \in [Procs -> Pcs] /\ loc \in [Procs -> Local]
  BY DEF Shape
<1>3. "idle" \in Pcs /\ "dek" \in Pcs /\ NoRow \in KeyRecord
  BY EmptyRows DEF Pcs
\* A write that ends its request, or lets the refreshed key go, and stores typed rows.
<1>4. ASSUME TablesOK',
             \A r \in Roles : brain'[r].oauth = FALSE,
             \A i \in Ids : hands'[i].id \in {0, i} /\ (hands[i].id = i => hands'[i].id = i),
             finish(p) \/ refreshDone(p, l.row.id)
      PROVE  Shape'
  <2>1. /\ at' \in [Procs -> Pcs] /\ loc' \in [Procs -> Local]
        /\ \A q \in Procs : \/ at'[q] = at[q] /\ loc'[q] = loc[q]
                            \/ at'[q] = "idle" /\ loc'[q] = Idle
    <3>1. CASE finish(p)
      BY <1>2, <1>3, <3>1, IdleFits, Goto DEF finish
    <3>2. CASE refreshDone(p, l.row.id)
      BY <1>2, <3>2, RefreshDone
    <3>3. QED
      BY <1>4, <3>1, <3>2
  <2>2. QED
    BY <1>4, <2>1, ShapeKept
<1> HIDE DEF l
\* The row of the request's own slot is overwritten.
<1>5. ASSUME NEW row \in KeyRecord, row.oauth = FALSE, l.slot \in Roles,
             \/ brain' = [brain EXCEPT ![l.slot] = row]
             \/ brain' = IF brain[l.slot].id = row.id THEN [brain EXCEPT ![l.slot] = row] ELSE brain
      PROVE  brain' \in [Roles -> KeyRecord] /\ \A r \in Roles : brain'[r].oauth = FALSE
  <2>1. brain \in [Roles -> KeyRecord]
    BY <1>0 DEF TablesOK
  <2>2. QED
    BY <1>2, <1>5, <2>1
<1>6. ASSUME NEW row \in KeyRecord, row.id \in Ids, hands' = [hands EXCEPT ![row.id] = row]
      PROVE  /\ hands' \in [Ids -> KeyRecord]
             /\ \A i \in Ids : hands'[i].id \in {0, i} /\ (hands[i].id = i => hands'[i].id = i)
  <2>1. hands \in [Ids -> KeyRecord]
    BY <1>0 DEF TablesOK
  <2>2. QED
    BY <1>2, <1>6, <2>1
<1>7. CASE storeBrainKey(p)
  <2> DEFINE row == Filed(NoRow, keys + 1, l.dek)
  <2>1. /\ at[p] = "write" /\ l.op = "storeBrainKey" /\ keys < MaxKeys /\ keys' = keys + 1
        /\ brain' = [brain EXCEPT ![l.slot] = row] /\ dekUnchanged
        /\ UNCHANGED <<hands, master, inFlight, settled>>
        /\ IF l.slot < l.last THEN goto(p, "dek", NextRole(l)) ELSE finish(p)
    BY <1>7 DEF storeBrainKey, Filed, NextRole, l
  <2>2. keys + 1 \in 0..MaxKeys
    BY <1>0, <2>1, VaultAssumption DEF TablesOK
  <2>3. PICK blank \in KeyRecord : blank = NoRow /\ blank.revoked = FALSE /\ blank.oauth = FALSE
    BY EmptyRows
  <2>4. row \in KeyRecord /\ row.oauth = FALSE
    <3>0. PICK id \in 0..MaxKeys, d \in 0..MaxDeks : id = keys + 1 /\ d = l.dek
      BY <1>1, <2>2
    <3>1. LET u == Filed(blank, id, d) IN u \in KeyRecord /\ u.oauth = blank.oauth
      BY ZenonT(30), <2>3, <3>0, RowFiled
    <3>2. row = Filed(blank, id, d)
      BY <2>3, <3>0
    <3> HIDE DEF row
    <3>3. QED
      BY <2>3, <3>1, <3>2
  <2> HIDE DEF row
  <2>5. l.slot \in Roles /\ l.row.oauth = FALSE /\ l.row.id = 0 /\ l.row.revoked = FALSE
    BY <1>0, <2>1 DEF Fits, Brainy
  <2>6. brain' \in [Roles -> KeyRecord] /\ \A r \in Roles : brain'[r].oauth = FALSE
    BY <1>5, <2>1, <2>4, <2>5
  <2>7. TablesOK'
    BY <1>0, <2>1, <2>2, <2>6 DEF TablesOK, dekUnchanged
  <2>8. \A i \in Ids : hands'[i].id \in {0, i} /\ (hands[i].id = i => hands'[i].id = i)
    BY <1>2, <2>1
  <2>9. CASE l.slot < l.last
    <3> DEFINE m == NextRole(l)
    <3>1. m \in Local /\ m.op = l.op /\ m.slot \in Roles /\ m.row = l.row
      BY <1>0, <1>1, <2>5, <2>9, LocalUpdates
    <3> HIDE DEF m
    <3>2. Fits("dek", m) /\ m.op \notin Handsy
      BY <2>1, <2>5, <3>1 DEF Fits, Brainy, Handsy, Writers
    <3>3. goto(p, "dek", m)
      BY <2>1, <2>9 DEF m
    <3>4. /\ at' \in [Procs -> Pcs] /\ loc' \in [Procs -> Local]
          /\ at'[p] = "dek" /\ loc'[p] = m
          /\ \A q \in Procs : q # p => at'[q] = at[q] /\ loc'[q] = loc[q]
      BY <1>2, <1>3, <3>1, <3>3, Goto
    <3>5. QED
      BY <2>6, <2>7, <2>8, <3>2, <3>4, ShapeKept
  <2>10. CASE ~(l.slot < l.last)
    BY <1>4, <2>1, <2>6, <2>7, <2>8, <2>10
  <2>11. QED
    BY <2>9, <2>10
<1>8. CASE storeHandsKey(p)
  <2> DEFINE row == Filed(l.row, keys + 1, l.dek)
  <2>1. /\ at[p] = "write" /\ l.op = "storeHandsKey" /\ keys < MaxKeys /\ keys' = keys + 1
        /\ hands' = [hands EXCEPT ![keys + 1] = row] /\ dekUnchanged
        /\ UNCHANGED <<brain, master, inFlight, settled>> /\ finish(p)
    BY <1>8 DEF storeHandsKey, Filed, l
  <2>2. keys + 1 \in 0..MaxKeys /\ keys + 1 \in Ids
    BY <1>0, <2>1, VaultAssumption DEF TablesOK, Ids
  <2>3. l.row.revoked = FALSE
    BY <1>0, <2>1 DEF Fits
  <2>4. row \in KeyRecord /\ row.id = keys + 1
    BY <1>1, <2>2, <2>3, RowFiled
  <2> HIDE DEF row
  <2>5. /\ hands' \in [Ids -> KeyRecord]
        /\ \A i \in Ids : hands'[i].id \in {0, i} /\ (hands[i].id = i => hands'[i].id = i)
    BY <1>6, <2>1, <2>2, <2>4
  <2>6. TablesOK'
    BY <1>0, <2>1, <2>2, <2>5 DEF TablesOK, dekUnchanged
  <2>7. QED
    BY <1>2, <1>4, <2>1, <2>5, <2>6
<1>9. CASE writeRotated(p) \/ writeRefreshed(p)
  <2> DEFINE row == Renewed(l.row, l.dek)
  <2>0. rotated(p) = row
    BY DEF rotated, Renewed, l
  <2>1. /\ at[p] = "write" /\ dekUnchanged /\ UNCHANGED <<keys, master, settled>>
        /\ \/ l.op = "rotateBrainKey" /\ updateBrainKey(p, row) /\ finish(p) /\ UNCHANGED inFlight
           \/ l.op = "rotateHandsKey" /\ updateHandsKey(row) /\ finish(p) /\ UNCHANGED inFlight
           \/ l.op = "performRefresh" /\ updateHandsKey(row) /\ refreshDone(p, l.row.id)
    BY <1>9, <2>0 DEF writeRotated, writeRefreshed, l
  <2>2. l.row.revoked = FALSE
    BY <1>0, <2>1 DEF Fits
  <2>3. row \in KeyRecord /\ row.id = l.row.id /\ row.oauth = l.row.oauth
    BY <1>1, <2>2, RowRenewed
  <2> HIDE DEF row
  <2>4. inFlight' \subseteq Ids
    <3>1. refreshDone(p, l.row.id) => inFlight' \subseteq inFlight
      BY <1>2, RefreshDone
    <3>2. QED
      BY <1>0, <2>1, <3>1 DEF TablesOK
  <2>5. CASE l.op = "rotateBrainKey"
    <3>1. l.slot \in Roles /\ row.oauth = FALSE
      BY <1>0, <2>3, <2>5 DEF Fits, Brainy
    <3>2. /\ brain' = IF brain[l.slot].id = row.id THEN [brain EXCEPT ![l.slot] = row] ELSE brain
          /\ hands' = hands /\ finish(p)
      BY <2>1, <2>5 DEF updateBrainKey, l
    <3>3. brain' \in [Roles -> KeyRecord] /\ \A r \in Roles : brain'[r].oauth = FALSE
      BY <1>5, <2>3, <3>1, <3>2
    <3>4. TablesOK'
      BY <1>0, <2>1, <2>4, <3>2, <3>3 DEF TablesOK, dekUnchanged
    <3>5. QED
      BY <1>2, <1>4, <3>2, <3>3, <3>4
  <2>6. CASE l.op \in {"rotateHandsKey", "performRefresh"}
    <3>1. row.id \in Ids
      BY <1>0, <2>3, <2>6 DEF Fits, Handsy
    <3>2. /\ hands' = [hands EXCEPT ![row.id] = row] /\ brain' = brain
          /\ finish(p) \/ refreshDone(p, l.row.id)
      BY <2>1, <2>6 DEF updateHandsKey
    <3>3. /\ hands' \in [Ids -> KeyRecord]
          /\ \A i \in Ids : hands'[i].id \in {0, i} /\ (hands[i].id = i => hands'[i].id = i)
      BY <1>6, <2>3, <3>1, <3>2
    <3>4. TablesOK'
      BY <1>0, <2>1, <2>4, <3>2, <3>3 DEF TablesOK, dekUnchanged
    <3>5. QED
      BY <1>2, <1>4, <3>2, <3>3, <3>4
  <2>7. QED
    BY <2>1, <2>5, <2>6
<1>10. CASE writeRevoked(p)
  <2> DEFINE row == l.row
  <2>1. /\ at[p] = "revokeWrite" /\ dekUnchanged /\ UNCHANGED <<keys, master>>
        /\ IF l.op \in Brainy THEN updateBrainKey(p, row) ELSE updateHandsKey(row)
        /\ settled' = IF heldLive(p, row.id) THEN settled ELSE settled \cup {row.id}
        /\ IF l.op = "performRefresh" THEN refreshDone(p, row.id) ELSE finish(p) /\ UNCHANGED inFlight
    BY <1>10 DEF writeRevoked, l
  <2>2. row \in KeyRecord /\ row.id \in Ids
        /\ l.op \in {"revokeBrainKey", "revokeHandsKey", "performRefresh"}
    BY <1>0, <1>1, <2>1 DEF Fits
  <2>3. inFlight' \subseteq Ids /\ settled' \subseteq Ids
    <3>1. refreshDone(p, row.id) => inFlight' \subseteq inFlight
      BY <1>2, RefreshDone
    <3>2. settled' \subseteq Ids
      BY <1>0, <2>1, <2>2 DEF TablesOK
    <3>3. QED
      BY <1>0, <2>1, <3>1, <3>2 DEF TablesOK
  <2>4. finish(p) \/ refreshDone(p, l.row.id)
    BY <2>1
  <2>5. CASE l.op = "revokeBrainKey"
    <3>1. l.slot \in Roles /\ row.oauth = FALSE
      BY <1>0, <2>5 DEF Fits, Brainy
    <3>2. /\ brain' = IF brain[l.slot].id = row.id THEN [brain EXCEPT ![l.slot] = row] ELSE brain
          /\ hands' = hands
      BY <2>1, <2>5 DEF updateBrainKey, Brainy, l
    <3>3. brain' \in [Roles -> KeyRecord] /\ \A r \in Roles : brain'[r].oauth = FALSE
      BY <1>5, <2>2, <3>1, <3>2
    <3>4. TablesOK'
      BY <1>0, <2>1, <2>3, <3>2, <3>3 DEF TablesOK, dekUnchanged
    <3>5. QED
      BY <1>2, <1>4, <2>4, <3>2, <3>3, <3>4
  <2>6. CASE l.op \in {"revokeHandsKey", "performRefresh"}
    <3>1. l.op \notin Brainy
      BY <2>6 DEF Brainy
    <3>2. hands' = [hands EXCEPT ![row.id] = row] /\ brain' = brain
      BY <2>1, <3>1 DEF updateHandsKey
    <3>3. /\ hands' \in [Ids -> KeyRecord]
          /\ \A i \in Ids : hands'[i].id \in {0, i} /\ (hands[i].id = i => hands'[i].id = i)
      BY <1>6, <2>2, <3>2
    <3>4. TablesOK'
      BY <1>0, <2>1, <2>3, <3>2, <3>3 DEF TablesOK, dekUnchanged
    <3>5. QED
      BY <1>2, <1>4, <2>4, <3>2, <3>3, <3>4
  <2>7. QED
    BY <2>2, <2>5, <2>6
<1>11. QED
  BY <1>7, <1>8, <1>9, <1>10

\* An expiry marks a live row and changes nothing else of it.
LEMMA ExpireRow ==
  ASSUME TablesOK, NEW i \in Ids, Expire(i)
  PROVE  LET row == Overdue(hands[i])
         IN  /\ row \in KeyRecord /\ row.id = hands[i].id /\ row.dek = hands[i].dek
             /\ row.revoked = FALSE /\ hands[i].revoked = FALSE
             /\ hands' = [hands EXCEPT ![i] = row]
             /\ hands' \in [Ids -> KeyRecord] /\ hands'[i] = row
             /\ \A j \in Ids : j # i => hands'[j] = hands[j]
             /\ dekUnchanged /\ UNCHANGED <<brain, master, keys, at, loc, inFlight, settled>>
<1> DEFINE row == Overdue(hands[i])
<1>1. hands \in [Ids -> KeyRecord] /\ hands[i] \in KeyRecord
  BY DEF TablesOK
<1>2. hands[i].revoked = FALSE
  BY <1>1 DEF Expire, active, KeyRecord
<1>3. 0 \in 0..MaxKeys /\ 0 \in 0..MaxDeks
  BY VaultAssumption
<1>4. row \in KeyRecord /\ row.id = hands[i].id /\ row.dek = hands[i].dek /\ row.revoked = FALSE
  BY <1>1, <1>2, RowOverdue
<1>5. /\ hands' = [hands EXCEPT ![i] = row]
      /\ dekUnchanged /\ UNCHANGED <<brain, master, keys, at, loc, inFlight, settled>>
  BY DEF Expire, Overdue
<1> HIDE DEF row
<1>6. hands' \in [Ids -> KeyRecord] /\ hands'[i] = row /\ \A j \in Ids : j # i => hands'[j] = hands[j]
  BY <1>1, <1>4, <1>5
<1>7. QED
  BY <1>2, <1>4, <1>5, <1>6 DEF row

\* A restart forgets every request.
LEMMA RestartForgets ==
  ASSUME TablesOK, NEW m \in 1..MaxMasters, Restart(m)
  PROVE  /\ m \in {master, master + 1} /\ master' = m
         /\ \A q \in Procs : at'[q] = "idle" /\ loc'[q] = Idle
         /\ at' \in [Procs -> Pcs] /\ loc' \in [Procs -> Local] /\ inFlight' = {}
         /\ dekUnchanged /\ UNCHANGED <<brain, hands, keys, settled>>
BY IdleFits DEF Restart, Pcs

\* Every step keeps the shape.
LEMMA ShapeStep == Shape /\ [Next]_vars => Shape'
<1> SUFFICES ASSUME Shape, [Next]_vars PROVE Shape'
  OBVIOUS
<1>1. ASSUME NEW p \in Procs, Step(p) PROVE Shape'
  BY <1>1, ShapeStart, ShapeMove, ShapeDek, ShapeWrite DEF Step
<1>2. ASSUME NEW i \in Ids, Expire(i) PROVE Shape'
  <2>1. TablesOK
    BY DEF Shape
  <2> DEFINE row == Overdue(hands[i])
  <2>2. /\ row.id = hands[i].id
        /\ hands' \in [Ids -> KeyRecord] /\ hands'[i] = row
        /\ \A j \in Ids : j # i => hands'[j] = hands[j]
        /\ dekUnchanged /\ UNCHANGED <<brain, master, keys, at, loc, inFlight, settled>>
    BY <1>2, <2>1, ExpireRow
  <2> HIDE DEF row
  <2>3. TablesOK'
    BY <2>1, <2>2 DEF TablesOK, dekUnchanged
  <2>4. \A j \in Ids : hands'[j].id \in {0, j} /\ (hands[j].id = j => hands'[j].id = j)
    BY <2>2 DEF Shape
  <2>5. QED
    BY <2>2, <2>3, <2>4, ShapeKept DEF Shape
<1>3. ASSUME NEW m \in 1..MaxMasters, Restart(m) PROVE Shape'
  <2>1. TablesOK
    BY DEF Shape
  <2>2. /\ master' = m /\ \A q \in Procs : at'[q] = "idle" /\ loc'[q] = Idle
        /\ at' \in [Procs -> Pcs] /\ loc' \in [Procs -> Local] /\ inFlight' = {}
        /\ dekUnchanged /\ UNCHANGED <<brain, hands, keys, settled>>
    BY <1>3, <2>1, RestartForgets
  <2>3. TablesOK'
    BY <2>1, <2>2 DEF TablesOK, dekUnchanged
  <2>4. /\ \A r \in Roles : brain'[r].oauth = FALSE
        /\ \A i \in Ids : hands'[i].id \in {0, i} /\ (hands[i].id = i => hands'[i].id = i)
    BY <2>2 DEF Shape
  <2>5. QED
    BY <2>2, <2>3, <2>4, ShapeKept
<1>4. CASE UNCHANGED vars
  <2>1. TablesOK'
    BY <1>4 DEF vars, Shape, TablesOK
  <2>2. QED
    BY <1>4, <2>1 DEF vars, Shape, OnRow
<1>5. QED
  BY <1>1, <1>2, <1>3, <1>4 DEF Next

\* The empty vault has the shape.
LEMMA ShapeInit == Init => Shape
<1> SUFFICES ASSUME Init PROVE Shape
  OBVIOUS
<1>1. /\ brain = [r \in Roles |-> NoRow] /\ hands = [i \in Ids |-> NoRow]
      /\ \A p \in Procs : at[p] = "idle" /\ loc[p] = Idle
      /\ at \in [Procs -> Pcs] /\ loc \in [Procs -> Local]
  BY IdleFits DEF Init, Pcs
<1>2. liveDekDiscarded \in BOOLEAN
  BY DEF Init
<1>3. TablesOK
  <2>1. brain \in [Roles -> KeyRecord] /\ hands \in [Ids -> KeyRecord]
    BY <1>1, EmptyRows
  <2>2. /\ dekRow \in [key: 0..MaxDeks, master: 0..MaxMasters]
        /\ master \in 1..MaxMasters /\ deks \in [1..MaxDeks -> 0..MaxMasters] /\ keys \in 0..MaxKeys
        /\ inFlight \subseteq Ids /\ settled \subseteq Ids
    BY VaultAssumption DEF Init, NoDek
  <2>3. QED
    BY <1>2, <2>1, <2>2 DEF TablesOK
<1>4. \A r \in Roles : brain[r].oauth = FALSE
  BY <1>1, EmptyRows
<1>5. \A i \in Ids : hands[i].id \in {0, i}
  BY <1>1, EmptyRows
<1>6. QED
  BY <1>1, <1>3, <1>4, <1>5, IdleFits DEF Shape

\* Requests keep to their shape in every reachable state.
LEMMA ShapeInvariance == Spec => []Shape
  BY ShapeInit, ShapeStep, PTL DEF Spec

\* The vault's tables and requests are well typed, and a revoked row is purged of its
\* material, whatever a rotation or a refresh under way writes back.
THEOREM TypeCorrect == Spec => []TypeOK
<1>1. Shape => TypeOK
  BY DEF Shape, TablesOK, TypeOK, Pcs, Local
<1>2. QED
  BY <1>1, ShapeInvariance, PTL

-----------------------------------------------------------------------------
(* Single flight.                                                            *)

Refreshes(l, id) == l.op = "performRefresh" /\ l.slot = id

\* inFlightRefreshes names exactly the keys being refreshed, one request refreshes each
\* of them, and a request awaits only those.
FlightInv ==
  /\ \A p, q \in Procs, id \in Ids : Refreshes(loc[p], id) /\ Refreshes(loc[q], id) => p = q
  /\ \A p \in Procs, id \in Ids : Refreshes(loc[p], id) => id \in inFlight
  /\ \A id \in inFlight : \E q \in Procs : Refreshes(loc[q], id)
  /\ \A p \in Procs : at[p] = "awaiting" => loc[p].slot \in inFlight

\* A step of one request that neither starts, joins nor ends a refresh.
QuietMove(p) ==
  \E pc \in Pcs \ {"awaiting"}, l \in Local :
    /\ goto(p, pc, l) /\ inFlight' = inFlight
    /\ \A id \in Ids : Refreshes(l, id) <=> Refreshes(loc[p], id)

\* Such a step leaves the refreshes as they are.
LEMMA FlightQuiet ==
  ASSUME Shape, FlightInv, NEW p \in Procs, QuietMove(p)
  PROVE  FlightInv'
<1>1. PICK pc \in Pcs \ {"awaiting"}, l \in Local :
         /\ goto(p, pc, l) /\ inFlight' = inFlight
         /\ \A id \in Ids : Refreshes(l, id) <=> Refreshes(loc[p], id)
  BY DEF QuietMove
<1>2. /\ at'[p] = pc /\ loc'[p] = l
      /\ \A q \in Procs : q # p => at'[q] = at[q] /\ loc'[q] = loc[q]
  BY <1>1, Goto DEF Shape
<1>3. \A q \in Procs, id \in Ids : Refreshes(loc'[q], id) <=> Refreshes(loc[q], id)
  BY <1>1, <1>2
<1>4. \A q \in Procs : at'[q] = "awaiting" => at[q] = "awaiting" /\ loc'[q] = loc[q]
  BY <1>1, <1>2
<1>5. inFlight \subseteq Ids
  BY DEF Shape, TablesOK
<1> HIDE DEF Refreshes
<1>6. /\ \A q, r \in Procs, id \in Ids : Refreshes(loc'[q], id) /\ Refreshes(loc'[r], id) => q = r
      /\ \A q \in Procs, id \in Ids : Refreshes(loc'[q], id) => id \in inFlight'
  BY <1>1, <1>3 DEF FlightInv
<1>7. \A id \in inFlight' : \E q \in Procs : Refreshes(loc'[q], id)
  BY <1>1, <1>3, <1>5 DEF FlightInv
<1>8. \A q \in Procs : at'[q] = "awaiting" => loc'[q].slot \in inFlight'
  BY <1>1, <1>4 DEF FlightInv
<1>9. QED
  BY <1>6, <1>7, <1>8 DEF FlightInv

\* Ending a refresh frees the key and everyone who awaits it.
LEMMA FlightDone ==
  ASSUME Shape, FlightInv, NEW p \in Procs, loc[p].op = "performRefresh",
         refreshDone(p, loc[p].slot)
  PROVE  FlightInv'
<1> DEFINE id == loc[p].slot
<1>1. id \in Ids /\ Refreshes(loc[p], id)
  BY DEF Shape, Fits, Handsy, Refreshes
<1>2. /\ inFlight' = inFlight \ {id} /\ loc'[p] = Idle
      /\ \A q \in Procs : \/ at'[q] = at[q] /\ loc'[q] = loc[q]
                          \/ at'[q] = "idle" /\ loc'[q] = Idle
      /\ \A q \in Procs : at[q] = "awaiting" /\ loc[q].row.id = id =>
                            at'[q] = "idle" /\ loc'[q] = Idle
  BY RefreshDone DEF Shape
<1>3. \A q \in Procs : at[q] = "awaiting" =>
         loc[q].row.id = loc[q].slot /\ loc[q].op = "decryptHandsKey" /\ loc[q].slot \in Ids
  BY DEF Shape, Fits, Handsy
<1>4. \A q \in Procs, i \in Ids : Refreshes(loc'[q], i) => Refreshes(loc[q], i) /\ loc'[q] = loc[q] /\ q # p
  BY <1>2 DEF Refreshes, Idle
\* Whoever the step lets go was p, or awaited the key: nobody else was refreshing.
<1>5. \A q \in Procs, i \in Ids : Refreshes(loc[q], i) /\ i # id => loc'[q] = loc[q]
  <2> SUFFICES ASSUME NEW q \in Procs, NEW i \in Ids, Refreshes(loc[q], i), i # id
               PROVE  loc'[q] = loc[q]
    OBVIOUS
  <2>1. q # p /\ at[q] # "awaiting"
    BY <1>1, <1>3 DEF Refreshes
  <2>2. QED
    BY <2>1 DEF refreshDone, Shape
<1>6. /\ \A q, r \in Procs, i \in Ids : Refreshes(loc'[q], i) /\ Refreshes(loc'[r], i) => q = r
      /\ \A q \in Procs, i \in Ids : Refreshes(loc'[q], i) => i \in inFlight'
  BY <1>1, <1>2, <1>4 DEF FlightInv
<1>7. \A i \in inFlight' : \E q \in Procs : Refreshes(loc'[q], i)
  <2> SUFFICES ASSUME NEW i \in inFlight' PROVE \E q \in Procs : Refreshes(loc'[q], i)
    OBVIOUS
  <2>1. i \in inFlight /\ i # id /\ i \in Ids
    BY <1>2 DEF Shape, TablesOK
  <2>2. PICK q \in Procs : Refreshes(loc[q], i)
    BY <2>1 DEF FlightInv
  <2>3. QED
    BY <1>5, <2>1, <2>2
<1>8. \A q \in Procs : at'[q] = "awaiting" => loc'[q].slot \in inFlight'
  <2> SUFFICES ASSUME NEW q \in Procs, at'[q] = "awaiting" PROVE loc'[q].slot \in inFlight'
    OBVIOUS
  <2>1. at[q] = "awaiting" /\ loc'[q] = loc[q] /\ loc[q].row.id # id
    BY <1>2
  <2>2. loc[q].slot \in inFlight /\ loc[q].slot # id
    BY <1>3, <2>1 DEF FlightInv
  <2>3. QED
    BY <1>2, <2>1, <2>2
<1>9. QED
  BY <1>6, <1>7, <1>8 DEF FlightInv

\* The second caller for a key awaits the first; the first one refreshes it.
LEMMA FlightDecrypt ==
  ASSUME Shape, FlightInv, NEW p \in Procs, at[p] = "decrypt",
         credentialIsExpired(loc[p].row), getOrRefreshCredential(p)
  PROVE  FlightInv'
<1>1. loc[p] \in Local /\ Fits(at[p], loc[p]) /\ inFlight \subseteq Ids
  BY DEF Shape, TablesOK
<1>2. loc[p].op = "decryptHandsKey"
  BY <1>1 DEF Fits, Brainy, Readers, credentialIsExpired
<1>3. loc[p].slot \in Ids /\ loc[p].row.id = loc[p].slot
  BY <1>1, <1>2 DEF Fits, Handsy
<1>4. \A id \in Ids : ~Refreshes(loc[p], id)
  BY <1>2 DEF Refreshes
<1>5. CASE loc[p].row.id \in inFlight
  <2>1. goto(p, "awaiting", loc[p]) /\ inFlight' = inFlight /\ "awaiting" \in Pcs
    BY <1>5 DEF getOrRefreshCredential, Pcs
  <2>2. /\ loc'[p] = loc[p]
        /\ \A q \in Procs : q # p => at'[q] = at[q] /\ loc'[q] = loc[q]
    BY <1>1, <2>1, Goto DEF Shape
  <2>3. \A q \in Procs : loc'[q] = loc[q]
    BY <2>2
  <2>4. \A q \in Procs : at'[q] = "awaiting" => q = p \/ at[q] = "awaiting"
    BY <2>2
  <2>5. QED
    BY <1>3, <1>5, <2>1, <2>3, <2>4 DEF FlightInv
<1>6. CASE loc[p].row.id \notin inFlight
  <2> DEFINE l == AsRefresh(loc[p])
             id == loc[p].slot
  <2>1. goto(p, "refreshing", l) /\ inFlight' = inFlight \cup {id} /\ "refreshing" \in Pcs
    BY <1>3, <1>6 DEF getOrRefreshCredential, AsRefresh, Pcs
  <2>2. l \in Local /\ l.op = "performRefresh" /\ l.slot = id
    BY <1>1, EmptyRows, RecordFields, LocalUpdates
  <2> HIDE DEF l
  <2>3. /\ at'[p] = "refreshing" /\ loc'[p] = l
        /\ \A q \in Procs : q # p => at'[q] = at[q] /\ loc'[q] = loc[q]
    BY <2>1, <2>2, Goto DEF Shape
  <2>4. Refreshes(loc'[p], id) /\ \A i \in Ids : i # id => ~Refreshes(loc'[p], i)
    BY <2>2, <2>3 DEF Refreshes
  <2>5. \A q \in Procs : ~Refreshes(loc[q], id)
    BY <1>3, <1>6 DEF FlightInv
  <2>6. /\ \A q, r \in Procs, i \in Ids : Refreshes(loc'[q], i) /\ Refreshes(loc'[r], i) => q = r
        /\ \A q \in Procs, i \in Ids : Refreshes(loc'[q], i) => i \in inFlight'
    BY <1>3, <2>1, <2>3, <2>4, <2>5 DEF FlightInv
  <2>7. \A i \in inFlight' : \E q \in Procs : Refreshes(loc'[q], i)
    <3> SUFFICES ASSUME NEW i \in inFlight', i # id PROVE \E q \in Procs : Refreshes(loc'[q], i)
      BY <2>4
    <3>1. i \in inFlight /\ i \in Ids
      BY <1>1, <2>1
    <3>2. PICK q \in Procs : Refreshes(loc[q], i)
      BY <3>1 DEF FlightInv
    <3>3. q # p
      BY <1>4, <3>1, <3>2
    <3>4. QED
      BY <2>3, <3>2, <3>3
  <2>8. \A q \in Procs : at'[q] = "awaiting" => loc'[q].slot \in inFlight'
    BY <2>1, <2>3 DEF FlightInv
  <2>9. QED
    BY <2>6, <2>7, <2>8 DEF FlightInv
<1>7. QED
  BY <1>5, <1>6

\* All other steps of a request are quiet.
LEMMA QuietSteps ==
  ASSUME Shape, NEW p \in Procs, inFlight' = inFlight,
         \/ \E op \in Ops \ {"performRefresh"}, slot \in 0..MaxKeys + NRoles, last \in 0..NRoles,
               row \in KeyRecord, pc \in Pcs \ {"awaiting"} : begin(p, op, slot, last, row, pc)
         \/ loc[p].op # "performRefresh" /\ finish(p)
         \/ \E pc \in Pcs \ {"awaiting"}, d \in 0..MaxDeks, r \in KeyRecord :
               \/ goto(p, pc, loc[p]) \/ goto(p, pc, WithDek(loc[p], d))
               \/ goto(p, pc, WithRow(loc[p], r))
         \/ loc[p].op = "storeBrainKey" /\ loc[p].slot < loc[p].last /\ goto(p, "dek", NextRole(loc[p]))
  PROVE  QuietMove(p)
<1>0. loc[p] \in Local /\ {"idle", "dek"} \subseteq Pcs \ {"awaiting"}
  BY DEF Shape, Pcs
<1>1. ASSUME NEW op \in Ops \ {"performRefresh"}, NEW slot \in 0..MaxKeys + NRoles,
             NEW last \in 0..NRoles, NEW row \in KeyRecord, NEW pc \in Pcs \ {"awaiting"},
             begin(p, op, slot, last, row, pc)
      PROVE  QuietMove(p)
  <2> DEFINE l == [op |-> op, slot |-> slot, last |-> last, row |-> row, dek |-> 0]
  <2>1. l \in Local /\ l.op # "performRefresh"
    BY RecordFields DEF Local
  <2>2. loc[p].op # "performRefresh" /\ goto(p, pc, l)
    BY <1>1 DEF begin, Shape, Fits, Idle
  <2> HIDE DEF l
  <2>3. QED
    BY <2>1, <2>2 DEF QuietMove, Refreshes
<1>2. CASE loc[p].op # "performRefresh" /\ finish(p)
  <2>1. Idle.op # "performRefresh"
    BY DEF Idle
  <2>2. QED
    BY <1>0, <1>2, <2>1, IdleFits DEF QuietMove, Refreshes, finish
<1>3. ASSUME NEW pc \in Pcs \ {"awaiting"}, goto(p, pc, loc[p]) PROVE QuietMove(p)
  BY <1>0, <1>3 DEF QuietMove
<1>4. ASSUME NEW pc \in Pcs \ {"awaiting"}, NEW d \in 0..MaxDeks, goto(p, pc, WithDek(loc[p], d))
      PROVE  QuietMove(p)
  <2> DEFINE l == WithDek(loc[p], d)
  <2>0. NoRow \in KeyRecord
    BY EmptyRows
  <2>1. l \in Local /\ l.op = loc[p].op /\ l.slot = loc[p].slot
    BY <1>0, <2>0, LocalUpdates
  <2> HIDE DEF l
  <2>2. goto(p, pc, l)
    BY <1>4 DEF l
  <2>3. QED
    BY <2>1, <2>2 DEF QuietMove, Refreshes
<1>5. ASSUME NEW pc \in Pcs \ {"awaiting"}, NEW r \in KeyRecord, goto(p, pc, WithRow(loc[p], r))
      PROVE  QuietMove(p)
  <2> DEFINE l == WithRow(loc[p], r)
  <2>1. l \in Local /\ l.op = loc[p].op /\ l.slot = loc[p].slot
    BY <1>0, RecordFields, LocalUpdates
  <2> HIDE DEF l
  <2>2. goto(p, pc, l)
    BY <1>5 DEF l
  <2>3. QED
    BY <2>1, <2>2 DEF QuietMove, Refreshes
<1>6. ASSUME loc[p].op = "storeBrainKey", loc[p].slot < loc[p].last, goto(p, "dek", NextRole(loc[p]))
      PROVE  QuietMove(p)
  <2> DEFINE l == NextRole(loc[p])
  <2>0. NoRow \in KeyRecord /\ loc[p].slot \in Roles
    BY <1>6, EmptyRows DEF Shape, Fits, Brainy
  <2>1. l \in Local /\ l.op = loc[p].op
    BY <1>0, <1>6, <2>0, RecordFields, LocalUpdates
  <2> HIDE DEF l
  <2>2. goto(p, "dek", l)
    BY <1>6 DEF l
  <2>3. QED
    BY <1>0, <1>6, <2>1, <2>2 DEF QuietMove, Refreshes
<1>7. QED
  BY <1>1, <1>2, <1>3, <1>4, <1>5, <1>6

\* A request's DEK steps are quiet.
LEMMA FlightDek ==
  ASSUME Shape, FlightInv, NEW p \in Procs,
         getOrCreateDek(p) \/ putIfAbsent(p) \/ rereadWinner(p) \/ discardAndRecreateDek(p)
  PROVE  FlightInv'
<1>0. /\ dekRow.key \in 0..MaxDeks /\ TablesOK /\ inFlight' = inFlight
      /\ at[p] \in {"dek", "putIfAbsent", "reread", "discard"}
  BY DEF Shape, TablesOK, getOrCreateDek, putIfAbsent, rereadWinner, discardAndRecreateDek,
     nothingElse, rowsUnchanged
<1>1. NoRow \in KeyRecord /\ {"discard", "reread", "putIfAbsent", "write", "decrypt"} \subseteq Pcs \ {"awaiting"}
  BY EmptyRows DEF Pcs
<1>2. afterDek(p) \in Pcs \ {"awaiting"}
  BY <1>1 DEF afterDek
<1>3. CASE decryptOrThrow(p)
  <2>1. CASE readable(dekRow)
    BY <1>0, <1>2, <2>1, <1>3, EmptyRows, QuietSteps, FlightQuiet DEF decryptOrThrow, WithDek
  <2>2. CASE ~readable(dekRow) /\ loc[p].op \in Readers
    <3>1. loc[p].op # "performRefresh"
      BY <2>2 DEF Readers
    <3>2. QED
      BY <1>0, <1>3, <2>2, <3>1, QuietSteps, FlightQuiet DEF decryptOrThrow
  <2>3. CASE ~readable(dekRow) /\ loc[p].op \notin Readers
    BY <1>0, <1>1, <1>3, <2>3, QuietSteps, FlightQuiet DEF decryptOrThrow
  <2>4. QED
    BY <2>1, <2>2, <2>3
<1>4. ASSUME NEW d \in 1..MaxDeks, NEW pc \in {"putIfAbsent", "write"}, generateKey(p, d, pc)
      PROVE  FlightInv'
  <2>1. goto(p, pc, WithDek(loc[p], d)) /\ d \in 0..MaxDeks /\ pc \in Pcs \ {"awaiting"}
    BY <1>0, <1>1, <1>4, Generated
  <2>2. QED
    BY <1>0, <1>1, <2>1, QuietSteps, FlightQuiet
<1>5. CASE putIfAbsent(p)
  <2>1. \E pc \in Pcs \ {"awaiting"} : goto(p, pc, loc[p])
    BY <1>1, <1>2, <1>5 DEF putIfAbsent
  <2>2. QED
    BY <1>0, <1>1, <2>1, QuietSteps, FlightQuiet
<1>6. QED
  BY <1>3, <1>4, <1>5 DEF getOrCreateDek, rereadWinner, discardAndRecreateDek

\* Every step keeps the refreshes in single flight.
LEMMA FlightStep == Shape /\ FlightInv /\ [Next]_vars => FlightInv'
<1> SUFFICES ASSUME Shape, FlightInv, [Next]_vars PROVE FlightInv'
  OBVIOUS
<1>0. /\ TablesOK /\ \A p \in Procs : loc[p] \in Local /\ Fits(at[p], loc[p])
      /\ 0 \in 0..MaxDeks /\ NoRow \in KeyRecord
  BY RecordFields, EmptyRows DEF Shape
<1>a. {"dek", "refreshing", "revokeRead", "revokeWrite", "validate"} \subseteq Pcs \ {"awaiting"}
  BY DEF Pcs
<1>1. ASSUME NEW p \in Procs,
             \/ \E r \in Roles : storeForRoles(p, r, r)
             \/ storeForRoles(p, 1, NRoles)
             \/ handsConnect(p) \/ handsOAuthCallback(p)
             \/ \E r \in Roles : rotateBrainKey(p, r) \/ revokeBrainKey(p, r) \/ decryptBrainKey(p, r)
             \/ \E i \in Ids : rotateHandsKey(p, i) \/ revokeHandsKey(p, i)
             \/ decryptHandsKey(p)
      PROVE  FlightInv'
  <2>1. PICK op \in Ops \ {"performRefresh"}, slot \in 0..MaxKeys + NRoles, last \in 0..NRoles,
             row \in KeyRecord, pc \in {"validate", "dek", "revokeWrite"} :
           begin(p, op, slot, last, row, pc)
    BY <1>1, Starts
  <2>2. inFlight' = inFlight
    BY <2>1 DEF begin, nothingElse, rowsUnchanged
  <2>3. QED
    BY <1>a, <2>1, <2>2, QuietSteps, FlightQuiet
<1>2. ASSUME NEW p \in Procs, runValidation(p) PROVE FlightInv'
  <2>1. loc[p].op # "performRefresh" /\ inFlight' = inFlight
    BY <1>0, <1>2 DEF runValidation, Fits, Writers, nothingElse, rowsUnchanged
  <2>2. goto(p, "dek", loc[p]) \/ finish(p)
    BY <1>2 DEF runValidation
  <2>3. QED
    BY <1>0, <1>a, <2>1, <2>2, QuietSteps, FlightQuiet
<1>3. ASSUME NEW p \in Procs, storeBrainKey(p) PROVE FlightInv'
  <2>1. loc[p].op = "storeBrainKey" /\ inFlight' = inFlight
    BY <1>3 DEF storeBrainKey
  <2>2. (loc[p].slot < loc[p].last /\ goto(p, "dek", NextRole(loc[p]))) \/ finish(p)
    BY <1>3 DEF storeBrainKey, NextRole
  <2>3. QED
    BY <2>1, <2>2, QuietSteps, FlightQuiet
<1>4. ASSUME NEW p \in Procs, storeHandsKey(p) \/ writeRotated(p) PROVE FlightInv'
  <2>1. loc[p].op # "performRefresh" /\ inFlight' = inFlight /\ finish(p)
    BY <1>4 DEF storeHandsKey, writeRotated
  <2>2. QED
    BY <2>1, QuietSteps, FlightQuiet
<1>5. ASSUME NEW p \in Procs, writeRevoked(p) PROVE FlightInv'
  <2>1. CASE loc[p].op = "performRefresh"
    <3>1. refreshDone(p, loc[p].slot)
      BY <1>0, <1>5, <2>1 DEF writeRevoked, Fits, Handsy
    <3>2. QED
      BY <2>1, <3>1, FlightDone
  <2>2. CASE loc[p].op # "performRefresh"
    <3>1. inFlight' = inFlight /\ finish(p)
      BY <1>5, <2>2 DEF writeRevoked
    <3>2. QED
      BY <2>2, <3>1, QuietSteps, FlightQuiet
  <2>3. QED
    BY <2>1, <2>2
<1>6. ASSUME NEW p \in Procs, decrypt(p) PROVE FlightInv'
  <2>1. CASE finish(p) /\ UNCHANGED inFlight
    <3>1. loc[p].op # "performRefresh"
      BY <1>0, <1>6 DEF decrypt, Fits, Readers
    <3>2. QED
      BY <2>1, <3>1, QuietSteps, FlightQuiet
  <2>2. CASE credentialIsExpired(loc[p].row) /\ getOrRefreshCredential(p)
    BY <1>6, <2>2, FlightDecrypt DEF decrypt
  <2>3. QED
    BY <1>6, <2>1, <2>2 DEF decrypt
<1>7. ASSUME NEW p \in Procs, performRefresh(p) PROVE FlightInv'
  <2>1. loc[p].op = "performRefresh" /\ loc[p].row.id = loc[p].slot
    BY <1>0, <1>7 DEF performRefresh, Fits, Handsy
  <2>2. \/ (goto(p, "dek", loc[p]) \/ goto(p, "revokeRead", loc[p])) /\ inFlight' = inFlight
        \/ refreshDone(p, loc[p].slot)
    BY <1>7, <2>1 DEF performRefresh
  <2>3. CASE refreshDone(p, loc[p].slot)
    BY <2>1, <2>3, FlightDone
  <2>4. CASE (goto(p, "dek", loc[p]) \/ goto(p, "revokeRead", loc[p])) /\ inFlight' = inFlight
    BY <1>0, <1>a, <2>4, QuietSteps, FlightQuiet
  <2>5. QED
    BY <2>2, <2>3, <2>4
<1>8. ASSUME NEW p \in Procs, revokeAfterRefresh(p) PROVE FlightInv'
  <2> DEFINE row == purged(hands[loc[p].slot])
  <2>1. goto(p, "revokeWrite", WithRow(loc[p], row)) /\ inFlight' = inFlight
    BY <1>8 DEF revokeAfterRefresh, WithRow, nothingElse, rowsUnchanged
  <2>2. loc[p].slot \in Ids
    BY <1>0, <1>8 DEF revokeAfterRefresh, Fits, Handsy
  <2>3. row \in KeyRecord
    BY <1>0, <2>2, RowPurged DEF TablesOK
  <2> HIDE DEF row
  <2>4. QED
    BY <1>0, <1>a, <2>1, <2>3, QuietSteps, FlightQuiet
<1>9. ASSUME NEW p \in Procs, writeRefreshed(p) PROVE FlightInv'
  <2>1. loc[p].op = "performRefresh" /\ refreshDone(p, loc[p].slot)
    BY <1>0, <1>9 DEF writeRefreshed, Fits, Handsy
  <2>2. QED
    BY <2>1, FlightDone
<1>10. ASSUME NEW i \in Ids, Expire(i) PROVE FlightInv'
  <2>1. UNCHANGED <<at, loc, inFlight>>
    BY <1>10 DEF Expire
  <2>2. QED
    BY <2>1 DEF FlightInv, Refreshes
<1>11. ASSUME NEW m \in 1..MaxMasters, Restart(m) PROVE FlightInv'
  <2>1. inFlight' = {} /\ \A q \in Procs : at'[q] = "idle" /\ loc'[q] = Idle
    BY <1>0, <1>11, RestartForgets
  <2>2. Idle.op # "performRefresh"
    BY DEF Idle
  <2>3. QED
    BY <2>1, <2>2 DEF FlightInv, Refreshes
<1>12. CASE UNCHANGED vars
  BY <1>12 DEF vars, FlightInv, Refreshes
<1>13. QED
  BY <1>1, <1>2, <1>3, <1>4, <1>5, <1>6, <1>7, <1>8, <1>9, <1>10, <1>11, <1>12, FlightDek DEF Next, Step

\* However many requests decrypt an expired credential at once, and whatever else they
\* do to its key meanwhile, one of them refreshes it, and the others await only a
\* refresh that is under way.
THEOREM OneRefresh == Spec => []SingleFlightRefresh
<1>1. Init => FlightInv
  BY DEF Init, FlightInv, Refreshes, Idle
<1>2. Shape /\ FlightInv => SingleFlightRefresh
  <2> SUFFICES ASSUME Shape, FlightInv PROVE SingleFlightRefresh
    OBVIOUS
  <2>1. \A p \in Procs : loc[p].op = "performRefresh" => loc[p].slot \in Ids
    BY DEF Shape, Fits, Handsy
  <2>2. QED
    BY <2>1 DEF FlightInv, Refreshes, SingleFlightRefresh
<1>3. QED
  BY <1>1, <1>2, ShapeInvariance, FlightStep, PTL DEF Spec

-----------------------------------------------------------------------------
(* Settled revocations.                                                      *)

\* The id in a request's copy was given out, and a Brain request's copy can only be of
\* the row in its own slot.
Names(l) ==
  /\ l.row.id <= keys
  /\ l.op \in Brainy /\ l.row.id # 0 =>
       /\ \A r \in Roles : brain[r].id = l.row.id => r = l.slot
       /\ \A i \in Ids : hands[i].id = i => l.row.id # i

\* No id is given out twice, so a settled id has no live copy, neither in the tables nor
\* in a request's hands.
HeldInv ==
  /\ \A r \in Roles : /\ brain[r].id <= keys
                      /\ brain[r].id \in settled => brain[r].revoked = TRUE
  /\ \A i \in Ids : /\ hands[i].id <= keys
                    /\ hands[i].id \in settled => hands[i].revoked = TRUE
  /\ \A r, s \in Roles : brain[r].id = brain[s].id /\ brain[r].id # 0 => r = s
  /\ \A r \in Roles, i \in Ids : hands[i].id = i => brain[r].id # i
  /\ \A id \in settled : id <= keys
  /\ \A p \in Procs : /\ Names(loc[p])
                      /\ loc[p].row.id \in settled => loc[p].row.revoked = TRUE

\* A step that gives out no id keeps the invariant when what it writes and what its
\* request goes on with respect the settled ids.
LEMMA HeldKept ==
  ASSUME Shape, HeldInv, TablesOK', keys' = keys,
         \A r \in Roles : brain'[r].id = brain[r].id,
         \A i \in Ids : hands'[i].id = hands[i].id,
         \A r \in Roles : brain'[r].id \in settled' => brain'[r].revoked = TRUE,
         \A i \in Ids : hands'[i].id \in settled' => hands'[i].revoked = TRUE,
         \A id \in settled' : id <= keys,
         \A q \in Procs : \/ loc'[q] = Idle
                          \/ /\ Names(loc'[q])
                             /\ loc'[q].row.id \in settled' => loc'[q].row.revoked = TRUE
  PROVE  HeldInv'
<1>1. Idle.row.id = 0 /\ Idle.op \notin Brainy /\ 0 \notin settled' /\ 0 <= keys
  <2>1. settled' \subseteq Ids /\ keys \in Nat
    BY VaultAssumption DEF TablesOK, Shape
  <2>2. QED
    BY <2>1 DEF Idle, NoRow, Brainy, Ids
<1>2. \A q \in Procs : Names(loc'[q]) /\ (loc'[q].row.id \in settled' => loc'[q].row.revoked = TRUE)
  BY <1>1 DEF Names
<1>3. \A q \in Procs : Names(loc[q])'
  BY <1>2 DEF Names
<1>4. QED
  BY <1>2, <1>3 DEF HeldInv

\* A step of one request that leaves rows and histories alone.
LEMMA HeldMoved ==
  ASSUME Shape, HeldInv, NEW p \in Procs, UNCHANGED <<brain, hands, keys, settled>>, Shape',
         \A q \in Procs : \/ loc'[q] = loc[q] \/ loc'[q] = Idle
                          \/ /\ Names(loc'[q])
                             /\ loc'[q].row.id \in settled => loc'[q].row.revoked = TRUE
  PROVE  HeldInv'
<1>1. TablesOK'
  BY DEF Shape
<1>2. QED
  BY <1>1, HeldKept DEF HeldInv

\* Going on with the same copy of the same row.
LEMMA HeldSame ==
  ASSUME HeldInv, NEW p \in Procs, NEW l, l.row = loc[p].row,
         l.op \in Brainy => loc[p].op \in Brainy /\ (l.slot = loc[p].slot \/ l.row.id = 0)
  PROVE  Names(l) /\ (l.row.id \in settled => l.row.revoked = TRUE)
BY DEF HeldInv, Names

\* A request goes on with the copy it holds, or with none.
LEMMA HeldGoto ==
  ASSUME Shape, HeldInv, Shape', NEW p \in Procs, NEW pc \in Pcs, NEW l \in Local, goto(p, pc, l),
         UNCHANGED <<brain, hands, keys, settled>>,
         l.row = loc[p].row /\ (l.op \in Brainy => loc[p].op \in Brainy /\ l.slot = loc[p].slot)
  PROVE  HeldInv'
<1>1. loc'[p] = l /\ \A q \in Procs : q # p => loc'[q] = loc[q]
  BY Goto DEF Shape
<1>2. Names(l) /\ (l.row.id \in settled => l.row.revoked = TRUE)
  BY HeldSame
<1>3. QED
  BY <1>1, <1>2, HeldMoved

\* A request that ends leaves nothing behind.
LEMMA HeldFinished ==
  ASSUME Shape, HeldInv, Shape', NEW p \in Procs, UNCHANGED <<brain, hands, keys, settled>>, finish(p)
  PROVE  HeldInv'
<1>1. goto(p, "idle", Idle) /\ "idle" \in Pcs
  BY DEF finish, Pcs
<1>2. loc'[p] = Idle /\ \A q \in Procs : q # p => loc'[q] = loc[q]
  BY <1>1, IdleFits, Goto DEF Shape
<1>3. QED
  BY <1>2, HeldMoved

\* Starting an operation: the copy it takes is a live row's, or already purged.
LEMMA HeldStart ==
  ASSUME Shape, HeldInv, Shape', NEW p \in Procs,
         NEW op \in Ops \ {"performRefresh"}, NEW slot \in 0..MaxKeys + NRoles,
         NEW last \in 0..NRoles, NEW row \in KeyRecord, NEW pc \in {"validate", "dek", "revokeWrite"},
         begin(p, op, slot, last, row, pc),
         row.id = 0 \/ row.revoked = TRUE \/ row \in storedRows,
         op \in Brainy => row.id \in {0, brain[slot].id}
  PROVE  HeldInv'
<1> DEFINE l == [op |-> op, slot |-> slot, last |-> last, row |-> row, dek |-> 0]
<1>1. l \in Local /\ l.op = op /\ l.slot = slot /\ l.row = row
  BY RecordFields DEF Local
<1>2. goto(p, pc, l) /\ nothingElse /\ pc \in Pcs
  BY DEF begin, Pcs
<1> HIDE DEF l
<1>3. /\ loc'[p] = l /\ \A q \in Procs : q # p => loc'[q] = loc[q]
      /\ UNCHANGED <<brain, hands, keys, settled>>
  BY <1>1, <1>2, Goto DEF Shape, nothingElse, rowsUnchanged
<1>4. Fits(pc, l) /\ OnRow(l) /\ settled \subseteq Ids /\ keys \in Nat
  BY <1>1, <1>2, <1>3, VaultAssumption, Goto DEF Shape, OnRow, TablesOK
<1>5. row.id \in settled => row.revoked = TRUE
  BY <1>4 DEF HeldInv, storedRows, Ids
<1>6. row.id <= keys
  <2>1. CASE op \in Brainy /\ row.id # 0
    <3>1. slot \in Roles
      BY <1>1, <1>4, <2>1 DEF Fits
    <3>2. QED
      BY <2>1, <3>1 DEF HeldInv
  <2>2. CASE op \in Handsy
    BY <1>1, <1>4, <2>2 DEF Fits, OnRow, HeldInv
  <2>3. CASE op \in {"none", "storeHandsKey"} \/ row.id = 0
    <3>1. op # "none"
      BY <1>1, <1>4 DEF Fits, Idle, Writers, Readers
    <3>2. row.id = 0
      BY <1>1, <1>4, <2>3, <3>1 DEF Fits
    <3>3. QED
      BY <1>4, <3>2
  <2>4. QED
    BY <2>1, <2>2, <2>3 DEF Ops, Brainy, Handsy
<1>7. Names(l)
  <2> SUFFICES ASSUME op \in Brainy, row.id # 0
               PROVE  /\ \A r \in Roles : brain[r].id = row.id => r = slot
                      /\ \A i \in Ids : hands[i].id = i => row.id # i
    BY <1>1, <1>6 DEF Names
  <2>1. slot \in Roles /\ row.id = brain[slot].id
    BY <1>1, <1>4 DEF Fits
  <2>2. QED
    BY <2>1 DEF HeldInv
<1>8. QED
  BY <1>1, <1>3, <1>5, <1>7, HeldMoved

\* A write that keeps every row under its id, and at most settles the id it wrote.
LEMMA HeldWritten ==
  ASSUME Shape, HeldInv, Shape', NEW p \in Procs, NEW id, keys' = keys,
         finish(p) \/ refreshDone(p, id),
         \A r \in Roles : brain'[r].id = brain[r].id,
         \A i \in Ids : hands'[i].id = hands[i].id,
         \A r \in Roles : brain'[r].id \in settled' => brain'[r].revoked = TRUE,
         \A i \in Ids : hands'[i].id \in settled' => hands'[i].revoked = TRUE,
         \A k \in settled' : k <= keys,
         \A q \in Procs \ {p} : loc'[q] = loc[q] /\ loc[q].row.id \in settled' => loc[q].row.revoked = TRUE
  PROVE  HeldInv'
<1>1. at \in [Procs -> Pcs] /\ loc \in [Procs -> Local] /\ TablesOK'
  BY DEF Shape
<1>2. loc'[p] = Idle /\ \A q \in Procs : loc'[q] = loc[q] \/ loc'[q] = Idle
  <2>1. CASE finish(p)
    BY <1>1, <2>1, IdleFits, Goto DEF finish, Pcs
  <2>2. CASE refreshDone(p, id)
    BY <1>1, <2>2, RefreshDone
  <2>3. QED
    BY <2>1, <2>2
<1>3. \A q \in Procs : \/ loc'[q] = Idle
                       \/ /\ Names(loc'[q])
                          /\ loc'[q].row.id \in settled' => loc'[q].row.revoked = TRUE
  BY <1>2 DEF HeldInv
<1>4. QED
  BY <1>1, <1>3, HeldKept

\* A new Brain key gets an id of its own.
LEMMA HeldStoreBrain ==
  ASSUME Shape, HeldInv, Shape', NEW p \in Procs, storeBrainKey(p)
  PROVE  HeldInv'
<1> DEFINE row == Filed(NoRow, keys + 1, loc[p].dek)
           m == IF loc[p].slot < loc[p].last THEN NextRole(loc[p]) ELSE Idle
<1>0. /\ TablesOK /\ TablesOK' /\ loc[p] \in Local /\ Fits(at[p], loc[p])
      /\ at \in [Procs -> Pcs] /\ loc \in [Procs -> Local]
  BY DEF Shape
<1>1. /\ loc[p].op = "storeBrainKey" /\ keys < MaxKeys /\ keys' = keys + 1
      /\ brain' = [brain EXCEPT ![loc[p].slot] = row] /\ hands' = hands /\ settled' = settled
      /\ (loc[p].slot < loc[p].last /\ goto(p, "dek", NextRole(loc[p]))) \/ finish(p)
  BY DEF storeBrainKey, Filed, NextRole
<1>2. loc[p].slot \in Roles /\ loc[p].row.id = 0 /\ keys \in Nat /\ settled \subseteq Ids
      /\ keys + 1 \in 0..MaxKeys
  BY <1>0, <1>1, VaultAssumption DEF Fits, Brainy, TablesOK
<1>3. row.id = keys + 1
  <2>1. PICK blank \in KeyRecord : blank = NoRow /\ blank.revoked = FALSE
    BY EmptyRows
  <2>2. PICK d \in 0..MaxDeks : d = loc[p].dek
    BY <1>0 DEF Local
  <2>3. PICK id \in 0..MaxKeys : id = keys + 1
    BY <1>2
  <2>4. Filed(blank, id, d).id = id
    BY <2>1, RowFiled
  <2>5. QED
    BY <2>1, <2>2, <2>3, <2>4
<1> HIDE DEF row
<1>4. brain'[loc[p].slot] = row /\ \A r \in Roles : r # loc[p].slot => brain'[r] = brain[r]
  BY <1>0, <1>1, <1>2 DEF TablesOK
<1>5. \A q \in Procs : loc'[q] = loc[q] \/ loc'[q].row.id = 0
  <2>1. CASE finish(p)
    <3>1. Idle.row.id = 0
      BY DEF Idle, NoRow
    <3>2. QED
      BY <1>0, <2>1, <3>1, IdleFits, Goto DEF finish, Pcs
  <2>2. CASE loc[p].slot < loc[p].last /\ goto(p, "dek", NextRole(loc[p]))
    <3> DEFINE n == NextRole(loc[p])
    <3>1. n \in Local /\ n.row = loc[p].row /\ "dek" \in Pcs
      BY <1>0, <1>2, <2>2, EmptyRows, RecordFields, LocalUpdates DEF Pcs
    <3> HIDE DEF n
    <3>2. goto(p, "dek", n)
      BY <2>2 DEF n
    <3>3. QED
      BY <1>0, <1>2, <3>1, <3>2, Goto
  <2>3. QED
    BY <1>1, <2>1, <2>2
<1>6. \A r \in Roles : brain[r].id \in Nat /\ brain[r].id <= keys
  BY <1>0 DEF TablesOK, KeyRecord, HeldInv
<1>7. \A i \in Ids : hands[i].id \in Nat /\ hands[i].id <= keys
  BY <1>0 DEF TablesOK, KeyRecord, HeldInv
<1>8. \A id \in settled : id <= keys
  BY DEF HeldInv
<1>9. \A q \in Procs : loc[q].row.id \in Nat /\ loc[q].row.id <= keys
  BY <1>0 DEF Local, KeyRecord, HeldInv, Names
<1>10. /\ \A r \in Roles : /\ brain'[r].id <= keys'
                           /\ brain'[r].id \in settled' => brain'[r].revoked = TRUE
       /\ \A r, s \in Roles : brain'[r].id = brain'[s].id /\ brain'[r].id # 0 => r = s
       /\ \A r \in Roles, i \in Ids : hands'[i].id = i => brain'[r].id # i
  <2>1. \A r \in Roles : \/ brain'[r].id = keys + 1 /\ r = loc[p].slot
                         \/ brain'[r] = brain[r] /\ brain[r].id <= keys
    BY <1>3, <1>4, <1>6
  <2>2. keys + 1 \notin settled /\ keys + 1 <= keys'
    BY <1>1, <1>2, <1>8
  <2>3. \A r \in Roles : /\ brain'[r].id <= keys'
                         /\ brain'[r].id \in settled' => brain'[r].revoked = TRUE
    BY <1>1, <1>2, <1>6, <2>1, <2>2 DEF HeldInv
  <2>4. \A r, s \in Roles : brain'[r].id = brain'[s].id /\ brain'[r].id # 0 => r = s
    BY <1>2, <1>6, <2>1 DEF HeldInv
  <2>5. \A r \in Roles, i \in Ids : hands'[i].id = i => brain'[r].id # i
    BY <1>1, <1>2, <1>7, <2>1 DEF HeldInv
  <2>6. QED
    BY <2>3, <2>4, <2>5
<1>11. \A i \in Ids : /\ hands'[i].id <= keys'
                      /\ hands'[i].id \in settled' => hands'[i].revoked = TRUE
  BY <1>1, <1>2, <1>7 DEF HeldInv
<1>12. \A id \in settled' : id <= keys'
  BY <1>1, <1>2, <1>8 DEF Ids
<1>13. ASSUME NEW q \in Procs
       PROVE  Names(loc[q])' /\ (loc'[q].row.id \in settled' => loc'[q].row.revoked = TRUE)
  <2>1. CASE loc'[q].row.id = 0
    BY <1>1, <1>2, <2>1 DEF Names, Ids
  <2>2. CASE loc'[q] = loc[q]
    <3>1. loc[q].row.id <= keys'
      BY <1>1, <1>2, <1>9
    <3>2. ASSUME NEW r \in Roles, brain'[r].id = loc[q].row.id PROVE brain[r].id = loc[q].row.id
      BY <1>2, <1>3, <1>4, <1>9, <3>2
    <3>3. QED
      BY <1>1, <2>2, <3>1, <3>2 DEF HeldInv, Names
  <2>3. QED
    BY <1>5, <2>1, <2>2
<1>14. QED
  BY <1>10, <1>11, <1>12, <1>13 DEF HeldInv

\* A new Hands key gets an id of its own.
LEMMA HeldStoreHands ==
  ASSUME Shape, HeldInv, Shape', NEW p \in Procs, storeHandsKey(p)
  PROVE  HeldInv'
<1> DEFINE row == Filed(loc[p].row, keys + 1, loc[p].dek)
<1>0. /\ TablesOK /\ TablesOK' /\ loc[p] \in Local /\ Fits(at[p], loc[p])
      /\ at \in [Procs -> Pcs] /\ loc \in [Procs -> Local]
  BY DEF Shape
<1>1. /\ loc[p].op = "storeHandsKey" /\ keys < MaxKeys /\ keys' = keys + 1 /\ at[p] = "write"
      /\ hands' = [hands EXCEPT ![keys + 1] = row] /\ brain' = brain /\ settled' = settled
      /\ finish(p)
  BY DEF storeHandsKey, Filed
<1>2. /\ loc[p].row.revoked = FALSE /\ loc[p].row \in KeyRecord /\ loc[p].dek \in 0..MaxDeks
      /\ keys \in Nat /\ settled \subseteq Ids /\ keys + 1 \in 0..MaxKeys /\ keys + 1 \in Ids
  BY <1>0, <1>1, VaultAssumption DEF Fits, TablesOK, Local, Ids
<1>3. row.id = keys + 1
  BY <1>2, RowFiled
<1> HIDE DEF row
<1>4. hands'[keys + 1] = row /\ \A i \in Ids : i # keys + 1 => hands'[i] = hands[i]
  BY <1>0, <1>1, <1>2 DEF TablesOK
<1>5. \A q \in Procs : loc'[q] = loc[q] \/ (loc'[q].row.id = 0 /\ loc'[q].op \notin Brainy)
  <2>1. Idle.row.id = 0 /\ Idle.op \notin Brainy
    BY DEF Idle, NoRow, Brainy
  <2>2. QED
    BY <1>0, <1>1, <2>1, IdleFits, Goto DEF finish, Pcs
<1>6. \A r \in Roles : brain[r].id \in Nat /\ brain[r].id <= keys
  BY <1>0 DEF TablesOK, KeyRecord, HeldInv
<1>7. \A i \in Ids : hands[i].id \in Nat /\ hands[i].id <= keys
  BY <1>0 DEF TablesOK, KeyRecord, HeldInv
<1>8. \A id \in settled : id <= keys
  BY DEF HeldInv
<1>9. \A q \in Procs : loc[q].row.id \in Nat /\ loc[q].row.id <= keys
  BY <1>0 DEF Local, KeyRecord, HeldInv, Names
<1>10. \A i \in Ids : /\ hands'[i].id <= keys'
                      /\ hands'[i].id \in settled' => hands'[i].revoked = TRUE
  <2>1. keys + 1 \notin settled /\ keys + 1 <= keys'
    BY <1>1, <1>2, <1>8
  <2>2. QED
    BY <1>1, <1>2, <1>3, <1>4, <1>7, <2>1 DEF HeldInv
<1>11. \A r \in Roles : /\ brain'[r].id <= keys'
                        /\ brain'[r].id \in settled' => brain'[r].revoked = TRUE
  BY <1>1, <1>2, <1>6 DEF HeldInv
<1>12. \A r \in Roles, i \in Ids : hands'[i].id = i => brain'[r].id # i
  <2>1. \A r \in Roles : brain'[r].id # keys + 1
    BY <1>1, <1>2, <1>6
  <2>2. QED
    BY <1>1, <1>4, <2>1 DEF HeldInv
<1>13. \A id \in settled' : id <= keys'
  BY <1>1, <1>2, <1>8 DEF Ids
<1>14. ASSUME NEW q \in Procs
       PROVE  Names(loc[q])' /\ (loc'[q].row.id \in settled' => loc'[q].row.revoked = TRUE)
  <2>1. CASE loc'[q].row.id = 0
    BY <1>1, <1>2, <2>1 DEF Names, Ids
  <2>2. CASE loc'[q] = loc[q]
    <3>1. loc[q].row.id <= keys' /\ loc[q].row.id # keys + 1
      BY <1>1, <1>2, <1>9
    <3>2. QED
      BY <1>1, <1>4, <2>2, <3>1 DEF HeldInv, Names
  <2>3. QED
    BY <1>5, <2>1, <2>2
<1>15. QED
  BY <1>1, <1>10, <1>11, <1>12, <1>13, <1>14 DEF HeldInv

\* Encrypting a row again: a live copy is of no settled id.
LEMMA HeldRenew ==
  ASSUME Shape, HeldInv, Shape', NEW p \in Procs, writeRotated(p) \/ writeRefreshed(p)
  PROVE  HeldInv'
<1> DEFINE row == Renewed(loc[p].row, loc[p].dek)
<1>0. /\ TablesOK /\ TablesOK' /\ loc[p] \in Local /\ Fits(at[p], loc[p]) /\ OnRow(loc[p])
  BY DEF Shape
<1>1. rotated(p) = row
  BY DEF rotated, Renewed
<1>2. /\ at[p] = "write" /\ keys' = keys /\ settled' = settled
      /\ finish(p) \/ refreshDone(p, loc[p].row.id)
      /\ \/ loc[p].op = "rotateBrainKey" /\ updateBrainKey(p, row)
         \/ loc[p].op \in {"rotateHandsKey", "performRefresh"} /\ updateHandsKey(row)
  BY <1>1 DEF writeRotated, writeRefreshed
<1>3. loc[p].row.revoked = FALSE /\ loc[p].row \in KeyRecord /\ loc[p].dek \in 0..MaxDeks
  BY <1>0, <1>2 DEF Fits, Local
<1>4. row.id = loc[p].row.id
  BY <1>3, RowRenewed
<1> HIDE DEF row
<1>5. row.id \notin settled
  BY <1>3, <1>4 DEF HeldInv
<1>6. CASE loc[p].op = "rotateBrainKey" /\ updateBrainKey(p, row)
  <2>1. \A r \in Roles : brain'[r] = brain[r] \/ (brain'[r] = row /\ brain[r].id = row.id)
    BY <1>0, <1>6 DEF updateBrainKey, TablesOK
  <2>2. hands' = hands
    BY <1>6 DEF updateBrainKey
  <2>3. QED
    BY <1>2, <1>5, <2>1, <2>2, HeldWritten DEF HeldInv
<1>7. CASE loc[p].op \in {"rotateHandsKey", "performRefresh"} /\ updateHandsKey(row)
  <2>1. row.id \in Ids /\ hands[row.id].id = row.id
    BY <1>0, <1>4, <1>7 DEF Fits, OnRow, Handsy
  <2>2. \A i \in Ids : hands'[i] = hands[i] \/ (hands'[i] = row /\ hands[i].id = row.id)
    BY <1>0, <1>7, <2>1 DEF updateHandsKey, TablesOK
  <2>3. brain' = brain
    BY <1>7 DEF updateHandsKey
  <2>4. QED
    BY <1>2, <1>5, <2>2, <2>3, HeldWritten DEF HeldInv
<1>8. QED
  BY <1>2, <1>6, <1>7

\* Writing a revocation: its id is settled only when nobody else holds it live, and the
\* row it names is the only one there is.
LEMMA HeldRevoke ==
  ASSUME Shape, HeldInv, Shape', NEW p \in Procs, writeRevoked(p)
  PROVE  HeldInv'
<1> DEFINE row == loc[p].row
<1>0. /\ TablesOK /\ TablesOK' /\ loc[p] \in Local /\ Fits(at[p], loc[p]) /\ OnRow(loc[p])
      /\ at \in [Procs -> Pcs] /\ loc \in [Procs -> Local]
      /\ \A q \in Procs : Fits(at[q], loc[q])
  BY DEF Shape
<1>1. /\ at[p] = "revokeWrite" /\ keys' = keys
      /\ IF loc[p].op \in Brainy THEN updateBrainKey(p, row) ELSE updateHandsKey(row)
      /\ settled' = IF heldLive(p, row.id) THEN settled ELSE settled \cup {row.id}
      /\ finish(p) \/ refreshDone(p, row.id)
  BY DEF writeRevoked
<1>2. /\ row.revoked = TRUE /\ row.id \in Ids /\ row.id <= keys
      /\ loc[p].op \in {"revokeBrainKey", "revokeHandsKey", "performRefresh"}
  BY <1>0, <1>1 DEF Fits, HeldInv, Names
<1>3. \A k \in settled' : k <= keys
  BY <1>1, <1>2 DEF HeldInv
<1>4. ASSUME NEW q \in Procs \ {p}, loc'[q] = loc[q], loc[q].row.id \in settled'
      PROVE  loc[q].row.revoked = TRUE
  <2>1. CASE loc[q].row.id \in settled
    BY <2>1 DEF HeldInv
  <2>2. CASE loc[q].row.id = row.id /\ ~heldLive(p, row.id)
    <3>1. at[q] # "idle"
      <4>1. loc[q] = Idle => loc[q].row.id = 0
        BY DEF Idle, NoRow
      <4>2. loc[q].row.id # 0
        BY <1>2, <2>2 DEF Ids
      <4>3. QED
        BY <1>0, <4>1, <4>2 DEF Fits
    <3>2. loc[q].row.revoked \in BOOLEAN
      BY <1>0 DEF Local, KeyRecord
    <3>3. loc[q].row.revoked
      BY <2>2, <3>1 DEF heldLive
    <3>4. QED
      BY <3>2, <3>3
  <2>3. QED
    BY <1>1, <1>4, <2>1, <2>2
<1>5. CASE loc[p].op = "revokeBrainKey"
  <2>1. loc[p].slot \in Roles /\ loc[p].op \in Brainy /\ updateBrainKey(p, row)
    BY <1>0, <1>1, <1>5 DEF Fits, Brainy
  <2>2. /\ \A r \in Roles : row.id = brain[r].id => r = loc[p].slot
        /\ \A i \in Ids : hands[i].id = i => row.id # i
    BY <1>2, <2>1 DEF HeldInv, Names, Ids
  <2>3. hands' = hands /\ \A r \in Roles : \/ brain'[r] = row /\ brain[r].id = row.id
                                           \/ brain'[r] = brain[r] /\ brain[r].id # row.id
    BY <1>0, <2>1, <2>2 DEF updateBrainKey, TablesOK
  <2>4. \A r \in Roles : brain'[r].id \in settled' => brain'[r].revoked = TRUE
    BY <1>1, <1>2, <2>3 DEF HeldInv
  <2>5. \A i \in Ids : hands[i].id # row.id
    <3>1. \A i \in Ids : hands[i].id \in {0, i}
      BY DEF Shape
    <3>2. row.id # 0
      BY <1>2 DEF Ids
    <3>3. QED
      BY <2>2, <3>1, <3>2
  <2>6. \A i \in Ids : hands'[i].id \in settled' => hands'[i].revoked = TRUE
    BY <1>1, <2>3, <2>5 DEF HeldInv
  <2>7. QED
    BY <1>1, <1>3, <1>4, <2>3, <2>4, <2>6, HeldWritten
<1>6. CASE loc[p].op \in {"revokeHandsKey", "performRefresh"}
  <2>1. updateHandsKey(row) /\ hands[row.id].id = row.id
    BY <1>0, <1>1, <1>6 DEF Fits, OnRow, Handsy, Brainy
  <2>2. brain' = brain /\ \A i \in Ids : \/ hands'[i] = row /\ hands[i].id = row.id
                                         \/ hands'[i] = hands[i] /\ i # row.id
    BY <1>0, <1>2, <2>1 DEF updateHandsKey, TablesOK
  <2>3. \A i \in Ids : i # row.id => hands[i].id # row.id
    <3>1. \A i \in Ids : hands[i].id \in {0, i}
      BY DEF Shape
    <3>2. row.id # 0
      BY <1>2 DEF Ids
    <3>3. QED
      BY <3>1, <3>2
  <2>4. \A i \in Ids : hands'[i].id \in settled' => hands'[i].revoked = TRUE
    BY <1>1, <1>2, <2>2, <2>3 DEF HeldInv
  <2>5. \A r \in Roles : brain[r].id # row.id
    BY <1>2, <2>1 DEF HeldInv
  <2>6. \A r \in Roles : brain'[r].id \in settled' => brain'[r].revoked = TRUE
    BY <1>1, <2>2, <2>5 DEF HeldInv
  <2>7. /\ \A r \in Roles : brain'[r].id = brain[r].id
        /\ \A i \in Ids : hands'[i].id = hands[i].id
    BY <2>2
  <2>8. QED
    BY <1>1, <1>3, <1>4, <2>4, <2>6, <2>7, HeldWritten
<1>7. QED
  BY <1>2, <1>5, <1>6

\* A request's DEK steps keep its copy.
LEMMA HeldDek ==
  ASSUME Shape, HeldInv, Shape', NEW p \in Procs,
         getOrCreateDek(p) \/ putIfAbsent(p) \/ rereadWinner(p) \/ discardAndRecreateDek(p)
  PROVE  HeldInv'
<1>0. /\ dekRow.key \in 0..MaxDeks /\ TablesOK /\ loc[p] \in Local /\ NoRow \in KeyRecord
      /\ UNCHANGED <<brain, hands, keys, settled>>
  BY EmptyRows DEF Shape, TablesOK, getOrCreateDek, putIfAbsent, rereadWinner, discardAndRecreateDek,
     nothingElse, rowsUnchanged
<1>1. {"discard", "reread", "putIfAbsent", "write", "decrypt"} \subseteq Pcs /\ afterDek(p) \in Pcs
  BY DEF Pcs, afterDek
<1>2. ASSUME NEW pc \in Pcs, NEW d \in 0..MaxDeks, goto(p, pc, WithDek(loc[p], d)) PROVE HeldInv'
  <2> DEFINE l == WithDek(loc[p], d)
  <2>1. l \in Local /\ l.op = loc[p].op /\ l.slot = loc[p].slot /\ l.row = loc[p].row /\ goto(p, pc, l)
    BY <1>0, <1>2, LocalUpdates
  <2> HIDE DEF l
  <2>2. QED
    BY <1>0, <2>1, HeldGoto
<1>3. ASSUME NEW pc \in Pcs, goto(p, pc, loc[p]) PROVE HeldInv'
  BY <1>0, <1>3, HeldGoto
<1>4. CASE decryptOrThrow(p)
  <2>1. \/ goto(p, afterDek(p), WithDek(loc[p], dekRow.key))
        \/ finish(p)
        \/ goto(p, "discard", loc[p])
    BY <1>4 DEF decryptOrThrow, WithDek
  <2>2. QED
    BY <1>0, <1>1, <1>2, <1>3, <2>1, HeldFinished
<1>5. ASSUME NEW d \in 1..MaxDeks, NEW pc \in Pcs, generateKey(p, d, pc) PROVE HeldInv'
  <2>1. goto(p, pc, WithDek(loc[p], d)) /\ d \in 0..MaxDeks
    BY <1>0, <1>5, Generated
  <2>2. QED
    BY <1>2, <2>1
<1>6. CASE putIfAbsent(p)
  <2>1. \E pc \in Pcs : goto(p, pc, loc[p])
    BY <1>1, <1>6 DEF putIfAbsent
  <2>2. QED
    BY <1>3, <2>1
<1>7. QED
  BY <1>1, <1>4, <1>5, <1>6 DEF getOrCreateDek, rereadWinner, discardAndRecreateDek

\* Every step leaves the settled ids without a live copy.
LEMMA HeldStep == Shape /\ Shape' /\ HeldInv /\ [Next]_vars => HeldInv'
<1> SUFFICES ASSUME Shape, Shape', HeldInv, [Next]_vars PROVE HeldInv'
  OBVIOUS
<1>0. /\ TablesOK /\ TablesOK' /\ \A p \in Procs : loc[p] \in Local /\ Fits(at[p], loc[p]) /\ OnRow(loc[p])
      /\ at \in [Procs -> Pcs] /\ loc \in [Procs -> Local]
      /\ 0 \in 0..MaxDeks /\ NoRow \in KeyRecord
  BY RecordFields, EmptyRows DEF Shape
<1>a. {"dek", "refreshing", "awaiting", "revokeRead", "revokeWrite", "validate"} \subseteq Pcs
  BY DEF Pcs
<1>1. ASSUME NEW p \in Procs,
             \/ \E r \in Roles : storeForRoles(p, r, r)
             \/ storeForRoles(p, 1, NRoles)
             \/ handsConnect(p) \/ handsOAuthCallback(p)
             \/ \E r \in Roles : rotateBrainKey(p, r) \/ revokeBrainKey(p, r) \/ decryptBrainKey(p, r)
             \/ \E i \in Ids : rotateHandsKey(p, i) \/ revokeHandsKey(p, i)
             \/ decryptHandsKey(p)
      PROVE  HeldInv'
  <2>1. PICK op \in Ops \ {"performRefresh"}, slot \in 0..MaxKeys + NRoles, last \in 0..NRoles,
             row \in KeyRecord, pc \in {"validate", "dek", "revokeWrite"} :
           /\ begin(p, op, slot, last, row, pc)
           /\ row.id = 0 \/ row.revoked = TRUE \/ row \in storedRows
           /\ op \in Brainy => row.id \in {0, brain[slot].id}
    BY <1>1, Starts
  <2>2. QED
    BY <2>1, HeldStart
<1>2. ASSUME NEW p \in Procs, runValidation(p) PROVE HeldInv'
  BY <1>0, <1>a, <1>2, HeldGoto, HeldFinished DEF runValidation, nothingElse, rowsUnchanged
<1>3. ASSUME NEW p \in Procs, decrypt(p) PROVE HeldInv'
  <2> DEFINE l == AsRefresh(loc[p])
  <2>1. l \in Local /\ l.op = "performRefresh" /\ l.row = loc[p].row
    BY <1>0, LocalUpdates
  <2>2. /\ UNCHANGED <<brain, hands, keys, settled>>
        /\ finish(p) \/ goto(p, "awaiting", loc[p]) \/ goto(p, "refreshing", l)
    BY <1>3 DEF decrypt, getOrRefreshCredential, AsRefresh
  <2> HIDE DEF l
  <2>3. l.op \notin Brainy
    BY <2>1 DEF Brainy
  <2>4. QED
    BY <1>0, <1>a, <2>1, <2>2, <2>3, HeldGoto, HeldFinished
<1>4. ASSUME NEW p \in Procs, performRefresh(p) PROVE HeldInv'
  <2>1. /\ UNCHANGED <<brain, hands, keys, settled>>
        /\ goto(p, "dek", loc[p]) \/ goto(p, "revokeRead", loc[p]) \/ refreshDone(p, loc[p].row.id)
    BY <1>4 DEF performRefresh
  <2>2. CASE refreshDone(p, loc[p].row.id)
    <3>1. \A q \in Procs : loc'[q] = loc[q] \/ loc'[q] = Idle
      BY <1>0, <2>2, RefreshDone
    <3>2. QED
      BY <2>1, <3>1, HeldMoved
  <2>3. QED
    BY <1>0, <1>a, <2>1, <2>2, HeldGoto
<1>5. ASSUME NEW p \in Procs, revokeAfterRefresh(p) PROVE HeldInv'
  <2> DEFINE row == purged(hands[loc[p].slot])
             l == WithRow(loc[p], row)
  <2>1. goto(p, "revokeWrite", l) /\ UNCHANGED <<brain, hands, keys, settled>>
    BY <1>5 DEF revokeAfterRefresh, WithRow, nothingElse, rowsUnchanged
  <2>2. loc[p].op = "performRefresh" /\ loc[p].slot \in Ids
    BY <1>0, <1>5 DEF revokeAfterRefresh, Fits, Handsy
  <2>3. row \in KeyRecord /\ row.revoked = TRUE /\ row.id = hands[loc[p].slot].id
    BY <1>0, <2>2, RowPurged DEF TablesOK
  <2> HIDE DEF row
  <2>4. l \in Local /\ l.op = loc[p].op /\ l.row = row
    BY <1>0, <2>3, LocalUpdates
  <2> HIDE DEF l
  <2>5. loc'[p] = l /\ \A q \in Procs : q # p => loc'[q] = loc[q]
    BY <1>0, <1>a, <2>1, <2>4, Goto
  <2>6. row.id <= keys /\ l.op \notin Brainy
    BY <2>2, <2>3, <2>4 DEF HeldInv, Brainy
  <2>7. Names(l) /\ l.row.revoked = TRUE
    BY <2>3, <2>4, <2>6 DEF Names
  <2>8. QED
    BY <2>1, <2>5, <2>7, HeldMoved
<1>6. ASSUME NEW i \in Ids, Expire(i) PROVE HeldInv'
  <2> DEFINE row == Overdue(hands[i])
  <2>1. /\ row.id = hands[i].id /\ hands[i].revoked = FALSE
        /\ hands'[i] = row /\ \A j \in Ids : j # i => hands'[j] = hands[j]
        /\ UNCHANGED <<brain, master, keys, at, loc, inFlight, settled>>
    BY <1>0, <1>6, ExpireRow
  <2> HIDE DEF row
  <2>2. hands[i].id \notin settled
    BY <2>1 DEF HeldInv
  <2>3. QED
    BY <1>0, <2>1, <2>2, HeldKept DEF HeldInv
<1>7. ASSUME NEW m \in 1..MaxMasters, Restart(m) PROVE HeldInv'
  <2>1. UNCHANGED <<brain, hands, keys, settled>> /\ \A q \in Procs : loc'[q] = Idle
    BY <1>0, <1>7, RestartForgets
  <2>2. QED
    BY <1>0, <2>1, HeldKept DEF HeldInv
<1>8. CASE UNCHANGED vars
  <2>1. UNCHANGED <<brain, hands, keys, settled, loc>>
    BY <1>8 DEF vars
  <2>2. QED
    BY <1>0, <2>1, HeldKept DEF HeldInv
<1>9. QED
  BY <1>1, <1>2, <1>3, <1>4, <1>5, <1>6, <1>7, <1>8, HeldStoreBrain, HeldStoreHands, HeldRenew,
     HeldRevoke, HeldDek DEF Next, Step

\* Whatever requests run beside each other, and however often the process restarts, a
\* key revoked while nobody else held it stays revoked and purged.
THEOREM RevocationsHold == Spec => []SettledRevocationIsFinal
<1>1. Init => HeldInv
  <2> SUFFICES ASSUME Init PROVE HeldInv
    OBVIOUS
  <2>1. /\ \A r \in Roles : brain[r] = NoRow
        /\ \A i \in Ids : hands[i] = NoRow /\ i # 0
        /\ \A p \in Procs : loc[p].row = NoRow /\ loc[p].op \notin Brainy
        /\ settled = {} /\ keys = 0
    BY DEF Init, Idle, Brainy, Ids
  <2>2. QED
    BY <2>1, EmptyRows DEF HeldInv, Names
<1>2. Shape /\ HeldInv => SettledRevocationIsFinal
  <2> SUFFICES ASSUME Shape, HeldInv, NEW row \in storedRows, row.id \in settled
               PROVE  row.revoked /\ row.dek = 0
    BY DEF SettledRevocationIsFinal
  <2>1. row.revoked = TRUE
    BY DEF HeldInv, storedRows
  <2>2. row \in KeyRecord
    BY DEF Shape, TablesOK, storedRows
  <2>3. QED
    BY <2>1, <2>2 DEF KeyRecord
<1>3. QED
  BY <1>1, <1>2, ShapeInvariance, HeldStep, PTL DEF Spec

-----------------------------------------------------------------------------
(* Which DEK a request encrypts under.                                       *)

\* Where a request holds a DEK: one it generated, or one it read from the file.
Keyed == {"putIfAbsent", "write", "decrypt"}

\* A DEK is generated under the master key of its time, and one in use under today's.
\* Until a live DEK is discarded, the one on file is the only one anybody uses.
DekInv ==
  /\ dekRow.key # 0 => dekRow.master # 0 /\ deks[dekRow.key] = dekRow.master
  /\ \A d \in 1..MaxDeks : deks[d] <= master
  /\ \A row \in storedRows : row.dek # 0 => deks[row.dek] # 0
  /\ \A p \in Procs : at[p] \in Keyed => loc[p].dek \in 1..MaxDeks /\ deks[loc[p].dek] = master
  /\ liveDekDiscarded = FALSE =>
       /\ \A row \in storedRows : row.dek # 0 /\ deks[row.dek] = master => row.dek = dekRow.key
       /\ \A p \in Procs : at[p] \in {"write", "decrypt"} => loc[p].dek = dekRow.key

\* What a write may store: a row there was, one without material, one under the DEK in hand.
Writable(row) ==
  \/ row.dek = 0
  \/ row \in storedRows
  \/ \E p \in Procs : at[p] = "write" /\ row.dek = loc[p].dek

\* Where a request may go while the DEKs stay as they are.
Passes(q) ==
  \/ at'[q] \notin Keyed
  \/ at'[q] = at[q] /\ loc'[q] = loc[q]
  \/ readable(dekRow) /\ loc'[q].dek = dekRow.key

\* A step that leaves the DEKs alone.
LEMMA DekKept ==
  ASSUME Shape, DekInv, dekUnchanged, master' = master,
         \A r \in Roles : Writable(brain'[r]),
         \A i \in Ids : Writable(hands'[i]),
         \A q \in Procs : Passes(q)
  PROVE  DekInv'
<1>0. dekRow' = dekRow /\ deks' = deks /\ liveDekDiscarded' = liveDekDiscarded
  BY DEF dekUnchanged
<1>1. dekRow.key \in 0..MaxDeks /\ liveDekDiscarded \in BOOLEAN /\ master \in Nat /\ master # 0
  BY VaultAssumption DEF Shape, TablesOK
<1>2. \A row \in storedRows' : Writable(row)
  BY DEF storedRows
<1>3. \A row \in storedRows' : row.dek # 0 => deks[row.dek] # 0
  BY <1>1, <1>2 DEF DekInv, Writable, Keyed
<1>4. ASSUME NEW q \in Procs, at'[q] \in Keyed
      PROVE  loc'[q].dek \in 1..MaxDeks /\ deks[loc'[q].dek] = master
  <2>1. CASE at'[q] = at[q] /\ loc'[q] = loc[q]
    BY <1>4, <2>1 DEF DekInv
  <2>2. CASE readable(dekRow) /\ loc'[q].dek = dekRow.key
    BY <1>1, <2>2, VaultAssumption DEF DekInv, readable
  <2>3. QED
    BY <1>4, <2>1, <2>2 DEF Passes
<1>5. liveDekDiscarded = FALSE =>
       /\ \A row \in storedRows' : row.dek # 0 /\ deks[row.dek] = master => row.dek = dekRow.key
       /\ \A p \in Procs : at'[p] \in {"write", "decrypt"} => loc'[p].dek = dekRow.key
  BY <1>2 DEF DekInv, Writable, Passes, Keyed
<1>6. QED
  BY <1>0, <1>3, <1>4, <1>5, master' = master DEF DekInv

\* Rows that stay as they are are writable.
LEMMA SameWritable ==
  /\ \A r \in Roles : Writable(brain[r])
  /\ \A i \in Ids : Writable(hands[i])
BY DEF Writable, storedRows

\* A step of one request that touches neither rows nor DEKs.
LEMMA DekMoved ==
  ASSUME Shape, DekInv, NEW p \in Procs, NEW pc \in Pcs, NEW l \in Local, goto(p, pc, l),
         dekUnchanged, UNCHANGED <<brain, hands, master>>,
         pc \notin Keyed \/ (readable(dekRow) /\ l.dek = dekRow.key)
  PROVE  DekInv'
<1>1. /\ at'[p] = pc /\ loc'[p] = l
      /\ \A q \in Procs : q # p => at'[q] = at[q] /\ loc'[q] = loc[q]
  BY Goto DEF Shape
<1>2. \A q \in Procs : Passes(q)
  BY <1>1 DEF Passes
<1>3. QED
  BY <1>2, SameWritable, DekKept

\* A request that ends, or lets a refreshed key go, after writing rows.
LEMMA DekEnded ==
  ASSUME Shape, DekInv, NEW p \in Procs, NEW id, finish(p) \/ refreshDone(p, id),
         dekUnchanged, master' = master,
         \A r \in Roles : Writable(brain'[r]),
         \A i \in Ids : Writable(hands'[i])
  PROVE  DekInv'
<1>1. at \in [Procs -> Pcs] /\ loc \in [Procs -> Local] /\ "idle" \in Pcs /\ "idle" \notin Keyed
  BY DEF Shape, Pcs, Keyed
<1>2. \A q \in Procs : at'[q] = "idle" \/ (at'[q] = at[q] /\ loc'[q] = loc[q])
  <2>1. CASE finish(p)
    BY <1>1, <2>1, IdleFits, Goto DEF finish
  <2>2. CASE refreshDone(p, id)
    BY <1>1, <2>2, RefreshDone
  <2>3. QED
    BY <2>1, <2>2
<1>3. \A q \in Procs : Passes(q)
  BY <1>1, <1>2 DEF Passes
<1>4. QED
  BY <1>3, DekKept

\* A new DEK is nobody's yet.
LEMMA DekGenerated ==
  ASSUME Shape, DekInv, NEW p \in Procs, NEW d \in 1..MaxDeks, NEW pc \in {"putIfAbsent", "write"},
         generateKey(p, d, pc), UNCHANGED <<brain, hands, master>>,
         \/ pc = "putIfAbsent" /\ UNCHANGED <<dekRow, liveDekDiscarded>>
         \/ /\ dekRow' = [key |-> d, master |-> master]
            /\ liveDekDiscarded' = (liveDekDiscarded \/ readable(dekRow))
  PROVE  DekInv'
<1>0. /\ TablesOK /\ at \in [Procs -> Pcs] /\ loc \in [Procs -> Local] /\ loc[p] \in Local
      /\ liveDekDiscarded \in BOOLEAN /\ master \in Nat /\ master # 0 /\ d \in 0..MaxDeks
      /\ dekRow.key \in 0..MaxDeks
  BY VaultAssumption DEF Shape, TablesOK
<1>1. /\ deks[d] = 0 /\ deks'[d] = master
      /\ \A e \in 1..MaxDeks : e # d => deks'[e] = deks[e]
      /\ goto(p, pc, WithDek(loc[p], d))
  BY <1>0, Generated
<1>2. /\ at'[p] = pc /\ loc'[p].dek = d
      /\ \A q \in Procs : q # p => at'[q] = at[q] /\ loc'[q] = loc[q]
  <2> DEFINE l == WithDek(loc[p], d)
  <2>1. l \in Local /\ l.dek = d /\ pc \in Pcs
    BY <1>0, EmptyRows, LocalUpdates DEF Pcs
  <2>2. goto(p, pc, l)
    BY <1>1
  <2> HIDE DEF l
  <2>3. QED
    BY <1>0, <2>1, <2>2, Goto
<1>3. storedRows' = storedRows /\ \A row \in storedRows : row.dek \in 0..MaxDeks
  BY <1>0 DEF storedRows, TablesOK, KeyRecord
<1>4. \A row \in storedRows : row.dek # 0 => deks[row.dek] # 0 /\ deks'[row.dek] = deks[row.dek]
  BY <1>1, <1>3 DEF DekInv
<1>5. \A q \in Procs \ {p} : at[q] \in Keyed =>
        loc[q].dek \in 1..MaxDeks /\ deks'[loc[q].dek] = master /\ deks[loc[q].dek] = master
  BY <1>0, <1>1 DEF DekInv
<1>6. \A e \in 1..MaxDeks : deks'[e] <= master
  BY <1>0, <1>1 DEF DekInv
<1>7. \A q \in Procs : at'[q] \in Keyed => loc'[q].dek \in 1..MaxDeks /\ deks'[loc'[q].dek] = master
  BY <1>1, <1>2, <1>5
<1>8. CASE pc = "putIfAbsent" /\ UNCHANGED <<dekRow, liveDekDiscarded>>
  <2>1. dekRow.key # 0 => dekRow.master # 0 /\ deks'[dekRow.key] = dekRow.master
    <3>1. dekRow.key # 0 => deks[dekRow.key] # 0
      BY DEF DekInv
    <3>2. QED
      BY <1>0, <1>1, <3>1 DEF DekInv
  <2>2. liveDekDiscarded = FALSE =>
       /\ \A row \in storedRows : row.dek # 0 /\ deks'[row.dek] = master => row.dek = dekRow.key
       /\ \A q \in Procs : at'[q] \in {"write", "decrypt"} => loc'[q].dek = dekRow.key
    BY <1>2, <1>4, <1>8 DEF DekInv
  <2>3. QED
    BY <1>3, <1>4, <1>6, <1>7, <1>8, <2>1, <2>2 DEF DekInv
<1>9. CASE /\ dekRow' = [key |-> d, master |-> master]
           /\ liveDekDiscarded' = (liveDekDiscarded \/ readable(dekRow))
  <2>1. dekRow'.key = d /\ dekRow'.master = master
    BY <1>9
  <2>2. ASSUME liveDekDiscarded' = FALSE
        PROVE  liveDekDiscarded = FALSE /\ ~(dekRow.key # 0 /\ deks[dekRow.key] = master)
    <3>1. liveDekDiscarded = FALSE /\ ~readable(dekRow)
      BY <1>0, <1>9, <2>2
    <3>2. QED
      BY <3>1 DEF readable, DekInv
  <2>3. liveDekDiscarded' = FALSE =>
       /\ \A row \in storedRows : row.dek # 0 /\ deks'[row.dek] = master => row.dek = d
       /\ \A q \in Procs : at'[q] \in {"write", "decrypt"} => loc'[q].dek = d
    <3> SUFFICES ASSUME liveDekDiscarded' = FALSE
                 PROVE  /\ \A row \in storedRows : row.dek # 0 /\ deks'[row.dek] = master => row.dek = d
                        /\ \A q \in Procs : at'[q] \in {"write", "decrypt"} => loc'[q].dek = d
      OBVIOUS
    <3>1. \A row \in storedRows : ~(row.dek # 0 /\ deks'[row.dek] = master)
      BY <1>4, <2>2 DEF DekInv
    <3>2. ASSUME NEW q \in Procs, q # p, at[q] \in {"write", "decrypt"} PROVE FALSE
      <4>1. loc[q].dek = dekRow.key /\ loc[q].dek \in 1..MaxDeks /\ deks[loc[q].dek] = master
        BY <1>5, <2>2, <3>2 DEF DekInv, Keyed
      <4>2. loc[q].dek # 0
        BY <4>1, VaultAssumption
      <4>3. QED
        BY <2>2, <4>1, <4>2
    <3>3. QED
      BY <1>2, <3>1, <3>2
  <2>4. QED
    BY <1>0, <1>1, <1>3, <1>4, <1>6, <1>7, <2>1, <2>3 DEF DekInv
<1>10. QED
  BY <1>8, <1>9

\* The insert that finds the file empty puts the request's own DEK there, which no row
\* and no other request uses yet.
LEMMA DekInserted ==
  ASSUME Shape, DekInv, NEW p \in Procs, putIfAbsent(p), dekRow.key = 0
  PROVE  DekInv'
<1>0. /\ TablesOK /\ at \in [Procs -> Pcs] /\ loc \in [Procs -> Local] /\ loc[p] \in Local
      /\ liveDekDiscarded \in BOOLEAN /\ master # 0
  BY VaultAssumption DEF Shape, TablesOK
<1>1. /\ at[p] = "putIfAbsent" /\ rowsUnchanged /\ UNCHANGED <<deks, master, liveDekDiscarded>>
      /\ goto(p, afterDek(p), loc[p])
      /\ dekRow' = [key |-> loc[p].dek, master |-> master]
  BY DEF putIfAbsent
<1>2. dekRow'.key = loc[p].dek /\ dekRow'.master = master
  BY <1>1
<1>3. loc[p].dek \in 1..MaxDeks /\ deks[loc[p].dek] = master
  BY <1>1 DEF DekInv, Keyed
<1>4. afterDek(p) \in {"write", "decrypt"} /\ afterDek(p) \in Pcs
  BY DEF afterDek, Pcs
<1>5. /\ at'[p] = afterDek(p) /\ loc'[p] = loc[p]
      /\ \A q \in Procs : q # p => at'[q] = at[q] /\ loc'[q] = loc[q]
  BY <1>0, <1>1, <1>4, Goto
<1>6. storedRows' = storedRows
  BY <1>1 DEF storedRows, rowsUnchanged
<1>7. liveDekDiscarded = FALSE =>
       /\ \A row \in storedRows : ~(row.dek # 0 /\ deks[row.dek] = master)
       /\ \A q \in Procs : at[q] \notin {"write", "decrypt"}
  <2>1. ASSUME liveDekDiscarded = FALSE, NEW q \in Procs, at[q] \in {"write", "decrypt"} PROVE FALSE
    <3>1. loc[q].dek = 0 /\ loc[q].dek \in 1..MaxDeks
      BY <2>1 DEF DekInv, Keyed
    <3>2. QED
      BY <3>1, VaultAssumption
  <2>2. QED
    BY <2>1 DEF DekInv
<1>8. \A q \in Procs : at'[q] \in Keyed => loc'[q].dek \in 1..MaxDeks /\ deks[loc'[q].dek] = master
  BY <1>3, <1>5 DEF DekInv
<1>9. \A q \in Procs : liveDekDiscarded = FALSE /\ at'[q] \in {"write", "decrypt"} => loc'[q].dek = loc[p].dek
  BY <1>5, <1>7
<1>10. QED
  BY <1>0, <1>1, <1>2, <1>3, <1>6, <1>7, <1>8, <1>9 DEF DekInv

\* Finding, creating and replacing the DEK.
LEMMA DekSteps ==
  ASSUME Shape, DekInv, NEW p \in Procs,
         getOrCreateDek(p) \/ putIfAbsent(p) \/ rereadWinner(p) \/ discardAndRecreateDek(p)
  PROVE  DekInv'
<1>0. /\ dekRow.key \in 0..MaxDeks /\ loc[p] \in Local /\ NoRow \in KeyRecord
      /\ UNCHANGED <<brain, hands, master>>
  BY EmptyRows DEF Shape, TablesOK, getOrCreateDek, putIfAbsent, rereadWinner, discardAndRecreateDek,
     nothingElse, rowsUnchanged
<1>1. {"discard", "reread", "idle"} \subseteq Pcs \ Keyed /\ afterDek(p) \in Pcs
  BY DEF Pcs, afterDek, Keyed
<1>2. ASSUME decryptOrThrow(p), dekUnchanged PROVE DekInv'
  <2>1. CASE readable(dekRow)
    <3> DEFINE l == WithDek(loc[p], dekRow.key)
    <3>1. l \in Local /\ l.dek = dekRow.key
      BY <1>0, LocalUpdates
    <3>2. goto(p, afterDek(p), l)
      BY <1>2, <2>1 DEF decryptOrThrow, WithDek
    <3> HIDE DEF l
    <3>3. QED
      BY <1>0, <1>1, <1>2, <2>1, <3>1, <3>2, DekMoved
  <2>2. CASE ~readable(dekRow)
    BY <1>0, <1>1, <1>2, <2>2, IdleFits, DekMoved DEF decryptOrThrow, finish
  <2>3. QED
    BY <2>1, <2>2
<1>3. CASE getOrCreateDek(p)
  <2>1. UNCHANGED <<dekRow, liveDekDiscarded>>
    BY <1>3 DEF getOrCreateDek
  <2>2. CASE decryptOrThrow(p) /\ UNCHANGED deks
    BY <1>2, <2>1, <2>2 DEF dekUnchanged
  <2>3. ASSUME NEW d \in 1..MaxDeks, generateKey(p, d, "putIfAbsent") PROVE DekInv'
    BY <1>0, <2>1, <2>3, DekGenerated
  <2>4. QED
    BY <1>3, <2>2, <2>3 DEF getOrCreateDek
<1>4. CASE putIfAbsent(p) /\ dekRow.key # 0
  <2>1. goto(p, "reread", loc[p]) /\ dekUnchanged
    BY <1>4 DEF putIfAbsent, dekUnchanged
  <2>2. QED
    BY <1>0, <1>1, <2>1, DekMoved
<1>5. CASE rereadWinner(p)
  BY <1>2, <1>5 DEF rereadWinner, nothingElse
<1>6. CASE discardAndRecreateDek(p)
  BY <1>0, <1>6, DekGenerated DEF discardAndRecreateDek
<1>7. QED
  BY <1>3, <1>4, <1>5, <1>6, DekInserted

\* A write stores its material under the DEK in hand.
LEMMA DekWrite ==
  ASSUME Shape, DekInv, NEW p \in Procs,
         storeBrainKey(p) \/ storeHandsKey(p) \/ writeRotated(p) \/ writeRefreshed(p) \/ writeRevoked(p)
  PROVE  DekInv'
<1>0. /\ TablesOK /\ loc[p] \in Local /\ Fits(at[p], loc[p])
      /\ dekUnchanged /\ master' = master
  BY DEF Shape, storeBrainKey, storeHandsKey, writeRotated, writeRefreshed, writeRevoked
<1>1. loc[p].row \in KeyRecord /\ loc[p].dek \in 0..MaxDeks
  BY <1>0 DEF Local
<1>2. ASSUME NEW row, Writable(row), NEW s, brain' = [brain EXCEPT ![s] = row] \/ brain' = brain
      PROVE  \A r \in Roles : Writable(brain'[r])
  <2>1. \A r \in Roles : brain'[r] = row \/ brain'[r] = brain[r]
    BY <1>0, <1>2 DEF TablesOK
  <2>2. QED
    BY <1>2, <2>1, SameWritable
<1>3. ASSUME NEW row, Writable(row), NEW s, hands' = [hands EXCEPT ![s] = row] \/ hands' = hands
      PROVE  \A i \in Ids : Writable(hands'[i])
  <2>1. \A i \in Ids : hands'[i] = row \/ hands'[i] = hands[i]
    BY <1>0, <1>3 DEF TablesOK
  <2>2. QED
    BY <1>3, <2>1, SameWritable
<1>4. CASE storeBrainKey(p)
  <2> DEFINE row == Filed(NoRow, keys + 1, loc[p].dek)
  <2>1. /\ at[p] = "write" /\ brain' = [brain EXCEPT ![loc[p].slot] = row] /\ hands' = hands
        /\ keys < MaxKeys /\ loc[p].op = "storeBrainKey"
        /\ (loc[p].slot < loc[p].last /\ goto(p, "dek", NextRole(loc[p]))) \/ finish(p)
    BY <1>4 DEF storeBrainKey, Filed, NextRole
  <2>2. row.dek = loc[p].dek
    <3>1. PICK blank \in KeyRecord : blank = NoRow /\ blank.revoked = FALSE
      BY EmptyRows
    <3>2. PICK id \in 0..MaxKeys : id = keys + 1
      BY <1>0, <2>1, VaultAssumption DEF TablesOK
    <3>3. PICK d \in 0..MaxDeks : d = loc[p].dek
      BY <1>1
    <3>4. Filed(blank, id, d).dek = d
      BY <3>1, RowFiled
    <3>5. row = Filed(blank, id, d)
      BY <3>1, <3>2, <3>3
    <3> HIDE DEF row
    <3>6. QED
      BY <3>3, <3>4, <3>5
  <2> HIDE DEF row
  <2>3. Writable(row)
    BY <2>1, <2>2 DEF Writable
  <2>4. (\A r \in Roles : Writable(brain'[r])) /\ (\A i \in Ids : Writable(hands'[i]))
    BY <1>2, <1>3, <2>1, <2>3
  <2>5. CASE loc[p].slot < loc[p].last /\ goto(p, "dek", NextRole(loc[p]))
    <3> DEFINE n == NextRole(loc[p])
    <3>1. loc[p].slot \in Roles /\ 0 \in 0..MaxDeks /\ NoRow \in KeyRecord
      BY <1>0, <2>1, RecordFields, EmptyRows DEF Fits, Brainy
    <3>2. n \in Local /\ "dek" \in Pcs \ Keyed
      BY <1>0, <2>5, <3>1, LocalUpdates DEF Pcs, Keyed
    <3> HIDE DEF n
    <3>3. goto(p, "dek", n)
      BY <2>5 DEF n
    <3>4. /\ at'[p] = "dek"
          /\ \A q \in Procs : q # p => at'[q] = at[q] /\ loc'[q] = loc[q]
      BY <3>2, <3>3, Goto DEF Shape
    <3>5. \A q \in Procs : Passes(q)
      BY <3>2, <3>4 DEF Passes
    <3>6. QED
      BY <1>0, <2>4, <3>5, DekKept
  <2>6. QED
    BY <1>0, <2>1, <2>4, <2>5, DekEnded
<1>5. CASE storeHandsKey(p)
  <2> DEFINE row == Filed(loc[p].row, keys + 1, loc[p].dek)
  <2>1. /\ at[p] = "write" /\ hands' = [hands EXCEPT ![keys + 1] = row] /\ brain' = brain
        /\ keys < MaxKeys /\ finish(p)
    BY <1>5 DEF storeHandsKey, Filed
  <2>2. keys + 1 \in 0..MaxKeys /\ loc[p].row.revoked = FALSE
    BY <1>0, <2>1, VaultAssumption DEF TablesOK, Fits
  <2>3. row.dek = loc[p].dek
    BY <1>1, <2>2, RowFiled
  <2> HIDE DEF row
  <2>4. Writable(row)
    BY <2>1, <2>3 DEF Writable
  <2>5. (\A r \in Roles : Writable(brain'[r])) /\ (\A i \in Ids : Writable(hands'[i]))
    BY <1>2, <1>3, <2>1, <2>4
  <2>6. QED
    BY <1>0, <2>1, <2>5, DekEnded
<1>6. ASSUME NEW row, Writable(row), updateBrainKey(p, row) \/ updateHandsKey(row),
             finish(p) \/ refreshDone(p, loc[p].row.id)
      PROVE  DekInv'
  <2>1. (\A r \in Roles : Writable(brain'[r])) /\ (\A i \in Ids : Writable(hands'[i]))
    BY <1>2, <1>3, <1>6 DEF updateBrainKey, updateHandsKey
  <2>2. QED
    BY <1>0, <1>6, <2>1, DekEnded
<1>7. CASE writeRotated(p) \/ writeRefreshed(p)
  <2> DEFINE row == Renewed(loc[p].row, loc[p].dek)
  <2>1. rotated(p) = row
    BY DEF rotated, Renewed
  <2>2. /\ at[p] = "write"
        /\ updateBrainKey(p, row) \/ updateHandsKey(row)
        /\ finish(p) \/ refreshDone(p, loc[p].row.id)
    BY <1>7, <2>1 DEF writeRotated, writeRefreshed
  <2>3. loc[p].row.revoked = FALSE
    BY <1>0, <2>2 DEF Fits
  <2>4. row.dek = loc[p].dek
    BY <1>1, <2>3, RowRenewed
  <2> HIDE DEF row
  <2>5. Writable(row)
    BY <2>2, <2>4 DEF Writable
  <2>6. QED
    BY <1>6, <2>2, <2>5
<1>8. CASE writeRevoked(p)
  <2>1. /\ at[p] = "revokeWrite"
        /\ updateBrainKey(p, loc[p].row) \/ updateHandsKey(loc[p].row)
        /\ finish(p) \/ refreshDone(p, loc[p].row.id)
    BY <1>8 DEF writeRevoked
  <2>2. loc[p].row.dek = 0
    BY <1>0, <1>1, <2>1 DEF Fits, KeyRecord
  <2>3. Writable(loc[p].row)
    BY <2>2 DEF Writable
  <2>4. QED
    BY <1>6, <2>1, <2>3
<1>9. QED
  BY <1>4, <1>5, <1>7, <1>8

\* Every step keeps what is stored readable.
LEMMA DekStep == Shape /\ DekInv /\ [Next]_vars => DekInv'
<1> SUFFICES ASSUME Shape, DekInv, [Next]_vars PROVE DekInv'
  OBVIOUS
<1>0. /\ TablesOK /\ \A p \in Procs : loc[p] \in Local /\ Fits(at[p], loc[p])
      /\ at \in [Procs -> Pcs] /\ loc \in [Procs -> Local]
      /\ 0 \in 0..MaxDeks /\ NoRow \in KeyRecord
  BY RecordFields, EmptyRows DEF Shape
<1>a. {"dek", "refreshing", "awaiting", "revokeRead", "revokeWrite", "validate"} \subseteq Pcs \ Keyed
  BY DEF Pcs, Keyed
<1>b. ASSUME dekUnchanged, UNCHANGED <<brain, hands, master>>, NEW p \in Procs,
             \/ \E pc \in Pcs \ Keyed, l \in Local : goto(p, pc, l)
             \/ finish(p) \/ refreshDone(p, loc[p].row.id)
      PROVE  DekInv'
  BY <1>b, DekMoved, DekEnded, SameWritable
<1>1. ASSUME NEW p \in Procs,
             \/ \E r \in Roles : storeForRoles(p, r, r)
             \/ storeForRoles(p, 1, NRoles)
             \/ handsConnect(p) \/ handsOAuthCallback(p)
             \/ \E r \in Roles : rotateBrainKey(p, r) \/ revokeBrainKey(p, r) \/ decryptBrainKey(p, r)
             \/ \E i \in Ids : rotateHandsKey(p, i) \/ revokeHandsKey(p, i)
             \/ decryptHandsKey(p)
      PROVE  DekInv'
  <2>1. PICK op \in Ops \ {"performRefresh"}, slot \in 0..MaxKeys + NRoles, last \in 0..NRoles,
             row \in KeyRecord, pc \in {"validate", "dek", "revokeWrite"} :
           begin(p, op, slot, last, row, pc)
    BY <1>1, Starts
  <2> DEFINE l == [op |-> op, slot |-> slot, last |-> last, row |-> row, dek |-> 0]
  <2>2. l \in Local
    BY <1>0 DEF Local
  <2>3. goto(p, pc, l) /\ nothingElse
    BY <2>1 DEF begin
  <2> HIDE DEF l
  <2>4. QED
    BY <1>a, <1>b, <2>2, <2>3 DEF nothingElse, rowsUnchanged
<1>2. ASSUME NEW p \in Procs, runValidation(p) PROVE DekInv'
  BY <1>0, <1>a, <1>b, <1>2 DEF runValidation, nothingElse, rowsUnchanged
<1>3. ASSUME NEW p \in Procs, decrypt(p) PROVE DekInv'
  <2>1. AsRefresh(loc[p]) \in Local
    BY <1>0, LocalUpdates
  <2>2. /\ dekUnchanged /\ UNCHANGED <<brain, hands, master>>
        /\ finish(p) \/ goto(p, "awaiting", loc[p]) \/ goto(p, "refreshing", AsRefresh(loc[p]))
    BY <1>3 DEF decrypt, getOrRefreshCredential, AsRefresh
  <2>3. QED
    BY <1>0, <1>a, <1>b, <2>1, <2>2
<1>4. ASSUME NEW p \in Procs, performRefresh(p) PROVE DekInv'
  <2>1. /\ dekUnchanged /\ UNCHANGED <<brain, hands, master>>
        /\ goto(p, "dek", loc[p]) \/ goto(p, "revokeRead", loc[p]) \/ refreshDone(p, loc[p].row.id)
    BY <1>4 DEF performRefresh
  <2>2. QED
    BY <1>0, <1>a, <1>b, <2>1
<1>5. ASSUME NEW p \in Procs, revokeAfterRefresh(p) PROVE DekInv'
  <2> DEFINE l == WithRow(loc[p], purged(hands[loc[p].slot]))
  <2>1. goto(p, "revokeWrite", l) /\ nothingElse
    BY <1>5 DEF revokeAfterRefresh, WithRow
  <2>2. loc[p].slot \in Ids
    BY <1>0, <1>5 DEF revokeAfterRefresh, Fits, Handsy
  <2>3. purged(hands[loc[p].slot]) \in KeyRecord
    BY <1>0, <2>2, RowPurged DEF TablesOK
  <2>4. l \in Local
    BY <1>0, <2>3, LocalUpdates
  <2> HIDE DEF l
  <2>5. QED
    BY <1>a, <1>b, <2>1, <2>4 DEF nothingElse, rowsUnchanged
<1>6. ASSUME NEW i \in Ids, Expire(i) PROVE DekInv'
  <2> DEFINE row == Overdue(hands[i])
  <2>1. /\ row.dek = hands[i].dek
        /\ hands'[i] = row /\ \A j \in Ids : j # i => hands'[j] = hands[j]
        /\ dekUnchanged /\ UNCHANGED <<brain, master, at, loc>>
    BY <1>0, <1>6, ExpireRow
  <2> HIDE DEF row
  <2>2. \A q \in Procs : Passes(q)
    BY <2>1 DEF Passes
  <2>3. /\ dekRow' = dekRow /\ deks' = deks /\ liveDekDiscarded' = liveDekDiscarded
        /\ at' = at /\ loc' = loc /\ master' = master
    BY <2>1 DEF dekUnchanged
  <2>4. \A r1 \in storedRows' : \E r0 \in storedRows : r1.dek = r0.dek
    BY <2>1 DEF storedRows
  <2>5. QED
    BY <2>3, <2>4 DEF DekInv
<1>7. ASSUME NEW m \in 1..MaxMasters, Restart(m) PROVE DekInv'
  <2>1. /\ m \in {master, master + 1} /\ master' = m
        /\ \A q \in Procs : at'[q] = "idle" /\ loc'[q] = Idle
        /\ dekUnchanged /\ UNCHANGED <<brain, hands>>
    BY <1>0, <1>7, RestartForgets
  <2>2. storedRows' = storedRows /\ \A q \in Procs : at'[q] \notin Keyed
    BY <2>1 DEF storedRows, Keyed
  <2>3. dekRow' = dekRow /\ deks' = deks /\ liveDekDiscarded' = liveDekDiscarded
    BY <2>1 DEF dekUnchanged
  <2>4. \A row \in storedRows : row.dek \in 0..MaxDeks
    BY <1>0 DEF storedRows, TablesOK, KeyRecord
  <2>5. master \in Nat /\ \A d \in 1..MaxDeks : deks[d] \in Nat
    BY <1>0 DEF TablesOK
  <2>6. \A d \in 1..MaxDeks : deks[d] <= m /\ (deks[d] = m => m = master)
    BY <2>1, <2>5 DEF DekInv
  <2>7. liveDekDiscarded = FALSE =>
          \A row \in storedRows : row.dek # 0 /\ deks[row.dek] = m => row.dek = dekRow.key
    BY <2>4, <2>6 DEF DekInv
  <2>8. QED
    BY <2>1, <2>2, <2>3, <2>6, <2>7 DEF DekInv, Keyed
<1>8. CASE UNCHANGED vars
  <2>1. /\ dekUnchanged /\ UNCHANGED <<brain, hands, master, at, loc>>
    BY <1>8 DEF vars, dekUnchanged
  <2>2. QED
    BY <2>1, SameWritable, DekKept DEF Passes
<1>9. QED
  BY <1>1, <1>2, <1>3, <1>4, <1>5, <1>6, <1>7, <1>8, DekSteps, DekWrite DEF Next, Step

\* However requests race to create the DEK, and however often the master key is lost,
\* what is stored under the master key in use is stored under the DEK on file, until a
\* second writer discards a DEK that could be read.
THEOREM KeysReadable == Spec => []StoredKeysStayReadable
<1>1. Init => DekInv
  <2> SUFFICES ASSUME Init PROVE DekInv
    OBVIOUS
  <2>1. /\ \A row \in storedRows : row = NoRow
        /\ dekRow.key = 0 /\ master = 1
        /\ \A d \in 1..MaxDeks : deks[d] = 0
        /\ \A p \in Procs : at[p] = "idle"
    BY DEF Init, NoDek, storedRows
  <2>2. QED
    BY <2>1, EmptyRows DEF DekInv, Keyed
<1>2. Shape /\ DekInv => StoredKeysStayReadable
  BY DEF Shape, TablesOK, DekInv, StoredKeysStayReadable
<1>3. QED
  BY <1>1, <1>2, ShapeInvariance, DekStep, PTL DEF Spec
=============================================================================
