-------------------------------- MODULE Vault --------------------------------
(***************************************************************************)
(* The vault of one tenant (packages/vault): Brain keys per role, Hands    *)
(* keys by id, and the tenant's data-encryption key (DEK), which is itself *)
(* stored encrypted under the KMS master key.  Every await of the code is  *)
(* a step boundary, so requests (Procs) interleave between reading a row   *)
(* and writing it back.  A row's material is modelled by the number of the *)
(* DEK it is encrypted under, 0 standing for the NULL of a purged row.     *)
(***************************************************************************)
EXTENDS Integers, FiniteSets

CONSTANTS Procs,     \* concurrent requests of one API process
          NRoles,    \* the team ids of the org chart, in chart order
          MaxKeys,   \* bound: key rows ever created
          MaxDeks,   \* bound: DEKs ever generated
          MaxMasters \* bound: KMS master keys ever configured

ASSUME VaultAssumption == NRoles \in Nat \ {0} /\ MaxKeys \in Nat /\ MaxDeks \in Nat /\ MaxMasters \in Nat \ {0}

VARIABLES brain,     \* brain_keys: the row of each role
          hands,     \* hands_keys: the rows of one (sub-agent, capability) by id
          dekRow,    \* tenant_deks: the DEK on file and the master key it is encrypted under
          master,    \* the master key the running process is configured with
          deks,      \* the DEKs generated so far, each with its master key
          keys,      \* how many key ids were drawn
          at,        \* where each request is
          loc,       \* its locals
          inFlight,  \* inFlightRefreshes: key id -> a promise
          settled,   \* history: ids revoked while no request held a live copy
          liveDekDiscarded \* history: discardAndRecreateDek replaced a readable DEK

vars == <<brain, hands, dekRow, master, deks, keys, at, loc, inFlight, settled, liveDekDiscarded>>

Roles == 1..NRoles
Ids == 1..MaxKeys
NoDek == [key |-> 0, master |-> 0]
NoRow == [id |-> 0, dek |-> 0, revoked |-> FALSE, expired |-> FALSE, oauth |-> FALSE]

\* A key record: a revoked one is purged of its material.
KeyRecord == {r \in [id: 0..MaxKeys, dek: 0..MaxDeks, revoked: BOOLEAN, expired: BOOLEAN, oauth: BOOLEAN] :
                 r.revoked => r.dek = 0}

Ops == {"none", "storeBrainKey", "storeHandsKey", "rotateBrainKey", "rotateHandsKey",
        "revokeBrainKey", "revokeHandsKey", "decryptBrainKey", "decryptHandsKey", "performRefresh"}
Brainy == {"storeBrainKey", "rotateBrainKey", "revokeBrainKey", "decryptBrainKey"}
Readers == {"decryptBrainKey", "decryptHandsKey"}
Idle == [op |-> "none", slot |-> 0, last |-> 0, row |-> NoRow, dek |-> 0]

\* The rows, the DEK record, the requests' locals and the histories keep their types,
\* and a revoked key has no material left (vault.ts:329, "vault entry purged").
TypeOK ==
    /\ brain \in [Roles -> KeyRecord] /\ hands \in [Ids -> KeyRecord]
    /\ dekRow \in [key: 0..MaxDeks, master: 0..MaxMasters]
    /\ master \in 1..MaxMasters /\ deks \in [1..MaxDeks -> 0..MaxMasters] /\ keys \in 0..MaxKeys
    /\ at \in [Procs -> {"idle", "validate", "dek", "putIfAbsent", "reread", "discard", "write",
                         "decrypt", "refreshing", "awaiting", "revokeRead", "revokeWrite"}]
    /\ loc \in [Procs -> [op: Ops, slot: 0..MaxKeys + NRoles, last: 0..NRoles, row: KeyRecord, dek: 0..MaxDeks]]
    /\ inFlight \subseteq Ids /\ settled \subseteq Ids /\ liveDekDiscarded \in BOOLEAN

Init ==
    /\ brain = [r \in Roles |-> NoRow] /\ hands = [i \in Ids |-> NoRow]
    /\ dekRow = NoDek /\ master = 1 /\ deks = [d \in 1..MaxDeks |-> 0] /\ keys = 0
    /\ at = [p \in Procs |-> "idle"] /\ loc = [p \in Procs |-> Idle]
    /\ inFlight = {} /\ settled = {} /\ liveDekDiscarded = FALSE

goto(p, pc, locals) == at' = [at EXCEPT ![p] = pc] /\ loc' = [loc EXCEPT ![p] = locals]
finish(p) == goto(p, "idle", Idle)

rowsUnchanged == UNCHANGED <<brain, hands, keys, inFlight, settled>>
dekUnchanged == UNCHANGED <<dekRow, deks, liveDekDiscarded>>
nothingElse == rowsUnchanged /\ dekUnchanged /\ UNCHANGED master

------------------------------------------------------------------------------
(* The start of each operation: a rotation needs an active row, a decryption *)
(* one that is active, and a revocation any row.                             *)

begin(p, op, slot, last, row, pc) ==
    /\ at[p] = "idle"
    /\ goto(p, pc, [op |-> op, slot |-> slot, last |-> last, row |-> row, dek |-> 0])
    /\ nothingElse

active(row) == row.id # 0 /\ ~row.revoked
purged(row) == [row EXCEPT !.dek = 0, !.revoked = TRUE]

\* The connect route: the same key under every role of the chart, or under one.
storeForRoles(p, first, last) == begin(p, "storeBrainKey", first, last, NoRow, "validate")

\* An opaque Hands key is stored without a live check.
handsConnect(p) == begin(p, "storeHandsKey", 0, 0, NoRow, "dek")

\* The OAuth callback stores the exchanged credential.
handsOAuthCallback(p) == begin(p, "storeHandsKey", 0, 0, [NoRow EXCEPT !.oauth = TRUE], "dek")

\* A rotation that does not ask whether the key was revoked (a mutant).
rotateBrainKeyUnchecked(p, r) == brain[r].id # 0 /\ begin(p, "rotateBrainKey", r, 0, [brain[r] EXCEPT !.revoked = FALSE], "validate")

rotateBrainKey(p, r) == active(brain[r]) /\ begin(p, "rotateBrainKey", r, 0, brain[r], "validate")

rotateHandsKey(p, i) == active(hands[i]) /\ begin(p, "rotateHandsKey", i, 0, hands[i], "validate")

revokeBrainKey(p, r) == brain[r].id # 0 /\ begin(p, "revokeBrainKey", r, 0, purged(brain[r]), "revokeWrite")

revokeHandsKey(p, i) == hands[i].id # 0 /\ begin(p, "revokeHandsKey", i, 0, purged(hands[i]), "revokeWrite")

\* decryptBrainKey, and verifyBrainKeyDecryptable, which takes the same path.
decryptBrainKey(p, r) == active(brain[r]) /\ begin(p, "decryptBrainKey", r, 0, brain[r], "dek")

\* Which Hands key a caller gets: the newest one that is not revoked.
resolveHandsKeyId == {i \in Ids : active(hands[i]) /\ \A j \in Ids : active(hands[j]) => j <= i}

decryptHandsKey(p) == \E i \in resolveHandsKeyId : begin(p, "decryptHandsKey", i, 0, hands[i], "dek")

\* The live check of a new key with its provider; a failed one stores nothing.
runValidation(p) ==
    /\ at[p] = "validate"
    /\ \/ goto(p, "dek", loc[p])
       \/ finish(p)
    /\ nothingElse

------------------------------------------------------------------------------
(* DekStore.  A reader that finds an unreadable DEK gives up, a writer       *)
(* discards it and starts a fresh one.                                       *)

afterDek(p) == IF loc[p].op \in Readers THEN "decrypt" ELSE "write"
unused(d) == deks[d] = 0
readable(row) == row.key # 0 /\ row.master = master

decryptOrThrow(p) ==
    IF readable(dekRow) THEN goto(p, afterDek(p), [loc[p] EXCEPT !.dek = dekRow.key])
    ELSE IF loc[p].op \in Readers THEN finish(p)
    ELSE goto(p, "discard", loc[p])

generateKey(p, d, pc) ==
    /\ unused(d) /\ \A e \in 1..d - 1 : ~unused(e)
    /\ deks' = [deks EXCEPT ![d] = master]
    /\ goto(p, pc, [loc[p] EXCEPT !.dek = d])

getOrCreateDek(p) ==
    /\ at[p] = "dek"
    /\ \/ dekRow.key # 0 /\ decryptOrThrow(p) /\ UNCHANGED deks
       \/ dekRow.key = 0 /\ \E d \in 1..MaxDeks : generateKey(p, d, "putIfAbsent")
    /\ rowsUnchanged /\ UNCHANGED <<dekRow, master, liveDekDiscarded>>

\* The loser of the insert goes on with its own DEK (a mutant).
putIfAbsentOwnKey(p) ==
    /\ at[p] = "putIfAbsent"
    /\ dekRow' = IF dekRow.key = 0 THEN [key |-> loc[p].dek, master |-> master] ELSE dekRow
    /\ goto(p, afterDek(p), loc[p])
    /\ rowsUnchanged /\ UNCHANGED <<deks, master, liveDekDiscarded>>

\* INSERT ... ON CONFLICT DO NOTHING: the loser re-reads the winner's DEK.
putIfAbsent(p) ==
    /\ at[p] = "putIfAbsent"
    /\ dekRow' = IF dekRow.key = 0 THEN [key |-> loc[p].dek, master |-> master] ELSE dekRow
    /\ goto(p, IF dekRow.key = 0 THEN afterDek(p) ELSE "reread", loc[p])
    /\ rowsUnchanged /\ UNCHANGED <<deks, master, liveDekDiscarded>>

rereadWinner(p) ==
    /\ at[p] = "reread"
    /\ decryptOrThrow(p)
    /\ nothingElse

discardAndRecreateDek(p) ==
    /\ at[p] = "discard"
    /\ \E d \in 1..MaxDeks :
        /\ generateKey(p, d, "write")
        /\ dekRow' = [key |-> d, master |-> master]
    /\ liveDekDiscarded' = (liveDekDiscarded \/ readable(dekRow))
    /\ rowsUnchanged /\ UNCHANGED master

------------------------------------------------------------------------------
(* The writes.                                                               *)

\* storeBrainKey: the role's row is replaced, id included; the connect route then
\* goes on to its next role without validating again.
storeBrainKey(p) ==
    /\ at[p] = "write" /\ loc[p].op = "storeBrainKey" /\ keys < MaxKeys
    /\ keys' = keys + 1
    /\ brain' = [brain EXCEPT ![loc[p].slot] = [NoRow EXCEPT !.id = keys + 1, !.dek = loc[p].dek]]
    /\ IF loc[p].slot < loc[p].last THEN goto(p, "dek", [loc[p] EXCEPT !.slot = @ + 1]) ELSE finish(p)
    /\ dekUnchanged /\ UNCHANGED <<hands, master, inFlight, settled>>

storeHandsKey(p) ==
    /\ at[p] = "write" /\ loc[p].op = "storeHandsKey" /\ keys < MaxKeys
    /\ keys' = keys + 1
    /\ hands' = [hands EXCEPT ![keys + 1] = [loc[p].row EXCEPT !.id = keys + 1, !.dek = loc[p].dek]]
    /\ finish(p)
    /\ dekUnchanged /\ UNCHANGED <<brain, master, inFlight, settled>>

\* UPDATE ... WHERE id: the whole copy, its revoked flag included; nothing when the
\* row was replaced meanwhile.
updateBrainKey(p, row) ==
    /\ brain' = IF brain[loc[p].slot].id = row.id THEN [brain EXCEPT ![loc[p].slot] = row] ELSE brain
    /\ UNCHANGED hands

updateHandsKey(row) == hands' = [hands EXCEPT ![row.id] = row] /\ UNCHANGED brain

rotated(p) == [loc[p].row EXCEPT !.dek = loc[p].dek, !.expired = FALSE]

writeRotated(p) ==
    /\ at[p] = "write"
    /\ \/ loc[p].op = "rotateBrainKey" /\ updateBrainKey(p, rotated(p))
       \/ loc[p].op = "rotateHandsKey" /\ updateHandsKey(rotated(p))
    /\ finish(p)
    /\ dekUnchanged /\ UNCHANGED <<keys, master, inFlight, settled>>

\* Whether some other request still holds the key as it was before it was revoked.
heldLive(p, id) == \E q \in Procs \ {p} : at[q] # "idle" /\ loc[q].row.id = id /\ ~loc[q].row.revoked

\* The key id is free again, and everyone awaiting its refresh gets the outcome.
refreshDone(p, id) ==
    /\ inFlight' = inFlight \ {id}
    /\ at' = [q \in Procs |-> IF q = p \/ (at[q] = "awaiting" /\ loc[q].row.id = id) THEN "idle" ELSE at[q]]
    /\ loc' = [q \in Procs |-> IF q = p \/ (at[q] = "awaiting" /\ loc[q].row.id = id) THEN Idle ELSE loc[q]]

writeRevoked(p) ==
    LET row == loc[p].row IN
    /\ at[p] = "revokeWrite"
    /\ IF loc[p].op \in Brainy THEN updateBrainKey(p, row) ELSE updateHandsKey(row)
    /\ settled' = IF heldLive(p, row.id) THEN settled ELSE settled \cup {row.id}
    /\ IF loc[p].op = "performRefresh" THEN refreshDone(p, row.id) ELSE finish(p) /\ UNCHANGED inFlight
    /\ dekUnchanged /\ UNCHANGED <<keys, master>>

------------------------------------------------------------------------------
(* Decrypting, and refreshing an expired OAuth credential.                   *)

credentialIsExpired(row) == row.oauth /\ row.expired

\* Every caller refreshes by itself (a mutant).
getOrRefreshAlone(p) ==
    /\ goto(p, "refreshing", [loc[p] EXCEPT !.op = "performRefresh", !.dek = 0])
    /\ inFlight' = inFlight \cup {loc[p].row.id}

\* Single flight: the second caller for a key awaits the first one's promise.
getOrRefreshCredential(p) ==
    IF loc[p].row.id \in inFlight
    THEN goto(p, "awaiting", loc[p]) /\ UNCHANGED inFlight
    ELSE /\ goto(p, "refreshing", [loc[p] EXCEPT !.op = "performRefresh", !.dek = 0])
         /\ inFlight' = inFlight \cup {loc[p].row.id}

\* Material under another DEK does not decrypt: the request fails.
decrypt(p) ==
    /\ at[p] = "decrypt"
    /\ IF loc[p].row.dek = loc[p].dek /\ credentialIsExpired(loc[p].row)
       THEN getOrRefreshCredential(p) ELSE finish(p) /\ UNCHANGED inFlight
    /\ dekUnchanged /\ UNCHANGED <<brain, hands, keys, master, settled>>

\* What the Google refresher answers: a fresh token; invalid_grant, the news that the
\* refresh token is dead; or any other error, a timeout included.
refresh == {"fresh", "dead", "error"}

\* A dead refresh token revokes the key; any other error fails closed.
performRefresh(p) ==
    /\ at[p] = "refreshing"
    /\ \E answer \in refresh :
           \/ answer = "fresh" /\ goto(p, "dek", loc[p]) /\ UNCHANGED inFlight
           \/ answer = "error" /\ refreshDone(p, loc[p].row.id)
           \/ answer = "dead" /\ goto(p, "revokeRead", loc[p]) /\ UNCHANGED inFlight
    /\ dekUnchanged /\ UNCHANGED <<brain, hands, keys, master, settled>>

revokeAfterRefresh(p) ==
    /\ at[p] = "revokeRead"
    /\ goto(p, "revokeWrite", [loc[p] EXCEPT !.row = purged(hands[loc[p].slot])])
    /\ nothingElse

writeRefreshed(p) ==
    /\ at[p] = "write" /\ loc[p].op = "performRefresh"
    /\ updateHandsKey(rotated(p))
    /\ refreshDone(p, loc[p].row.id)
    /\ dekUnchanged /\ UNCHANGED <<keys, master, settled>>

------------------------------------------------------------------------------
(* The environment.                                                          *)

\* An access token comes within the safety margin of its expiry.
Expire(i) ==
    /\ active(hands[i]) /\ hands[i].oauth /\ ~hands[i].expired
    /\ hands' = [hands EXCEPT ![i].expired = TRUE]
    /\ dekUnchanged /\ UNCHANGED <<brain, master, keys, at, loc, inFlight, settled>>

\* The process dies between two statements and comes back, with its master key or
\* with another one; what it held in memory is gone.
Restart(m) ==
    /\ m \in {master, master + 1} /\ m <= MaxMasters
    /\ master' = m
    /\ at' = [p \in Procs |-> "idle"] /\ loc' = [p \in Procs |-> Idle] /\ inFlight' = {}
    /\ dekUnchanged /\ UNCHANGED <<brain, hands, keys, settled>>

Step(p) ==
    \/ \E r \in Roles : storeForRoles(p, r, r)
    \/ storeForRoles(p, 1, NRoles)
    \/ handsConnect(p) \/ handsOAuthCallback(p)
    \/ \E r \in Roles : rotateBrainKey(p, r) \/ revokeBrainKey(p, r) \/ decryptBrainKey(p, r)
    \/ \E i \in Ids : rotateHandsKey(p, i) \/ revokeHandsKey(p, i)
    \/ decryptHandsKey(p)
    \/ runValidation(p)
    \/ getOrCreateDek(p) \/ putIfAbsent(p) \/ rereadWinner(p) \/ discardAndRecreateDek(p)
    \/ storeBrainKey(p) \/ storeHandsKey(p) \/ writeRotated(p) \/ writeRevoked(p)
    \/ decrypt(p) \/ performRefresh(p) \/ revokeAfterRefresh(p) \/ writeRefreshed(p)

Next ==
    \/ \E p \in Procs : Step(p)
    \/ \E i \in Ids : Expire(i)
    \/ \E m \in 1..MaxMasters : Restart(m)

Spec == Init /\ [][Next]_vars

------------------------------------------------------------------------------

storedRows == {brain[r] : r \in Roles} \cup {hands[i] : i \in Ids}

\* What is stored can be read back: every key whose DEK was made under the master key
\* in use is encrypted under the DEK on file, so a request that lost the race to create
\* the DEK never used its own (dekStore.ts:56-58).  The exception is a second writer
\* that discards the DEK a first one has just recreated after a master-key loss.
StoredKeysStayReadable ==
    \/ liveDekDiscarded
    \/ \A row \in storedRows : row.dek # 0 /\ deks[row.dek] = master => row.dek = dekRow.key

\* A key revoked while no other request held it stays revoked and purged for good:
\* no later rotation, refresh or decryption brings it back (vault.ts:309, 332).
SettledRevocationIsFinal ==
    \A row \in storedRows : row.id \in settled => row.revoked /\ row.dek = 0

\* At most one refresh of a key runs against its provider, and a request awaits a
\* refresh only while one is running, so nobody waits for ever (vault.ts:564-583).
SingleFlightRefresh ==
    /\ \A p, q \in Procs :
         loc[p].op = "performRefresh" /\ loc[q].op = "performRefresh" /\ loc[p].slot = loc[q].slot => p = q
    /\ \A p \in Procs : at[p] = "awaiting" =>
         \E q \in Procs : loc[q].op = "performRefresh" /\ loc[q].slot = loc[p].slot
=============================================================================
