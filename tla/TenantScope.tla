----------------------------- MODULE TenantScope -----------------------------
(***************************************************************************)
(* Who sees which row.  Requests borrow sessions of one pg pool, open a     *)
(* transaction, set the three app.* settings that the row-level policies    *)
(* read, work, and give the session back with the settings still on it      *)
(* (packages/db/src/tenantContext.ts, userContext.ts, signupMetrics.ts).    *)
(* A tenant route holds one session for the whole request and needs a       *)
(* second one for every store call (apps/api/src/middleware/tenant.ts).     *)
(* Meanwhile other replicas boot and run every migration again              *)
(* (migrate.ts), which recreates and drops policies.                        *)
(***************************************************************************)
EXTENDS Naturals, SequencesExt

CONSTANTS
    Conns,          \* the pool's slots (max of createPool)
    Requests,       \* requests in flight
    MaxDbFaults,    \* bound: queries and sessions that fail
    MaxBoots        \* bound: boots over a behaviour

\* "no session" is not one of the pool's slots.
ASSUME DbAssumption == "none" \notin Conns

VARIABLES
    conn,       \* slot -> its session: who has it, alive, in a transaction, settings
    rows,       \* rows of tenant_members and signup_extraction_batches
    active,     \* user_active_tenant: user -> tenant or NoOne
    req,        \* request -> its script, position, borrowed sessions, outcome
    policies,   \* the policies on signup_extraction_batches
    boot,       \* the file the booting replica applies next, or NoOne
    dbFaults, boots

dbVars == <<conn, rows, active, req, policies, boot, dbFaults, boots>>

NoOne == "none"
Unset == "00000000"       \* UNSET_SCOPE_UUID: no row ever carries it
Users == {"u1", "u2"}

Batch(u, t) == [table |-> "batches", user |-> u, tenant |-> t]
Member(u, t) == [table |-> "members", user |-> u, tenant |-> t]

-----------------------------------------------------------------------------
(* The scope functions: how each rewrites the settings found on a session.  *)

withTenantScope(s, t) == [s EXCEPT !.tenant = t, !.user = Unset, !.metrics = FALSE]

\* A user scope on top of the tenant's (a mutant).
withUserScopeKeepingTenant(s, u) == [s EXCEPT !.user = u, !.metrics = FALSE]

withUserScope(s, u) == [s EXCEPT !.user = u, !.tenant = Unset, !.metrics = FALSE]

withUserAndTenantScope(s, u, t) == [s EXCEPT !.user = u, !.tenant = t, !.metrics = FALSE]

withInternalMetricsScope(s) == [s EXCEPT !.metrics = TRUE, !.user = Unset, !.tenant = Unset]

NoSettings == [tenant |-> NoOne, user |-> NoOne, metrics |-> FALSE]

ScopeSettings(s, k) ==
    CASE k.scope = "tenant" -> withTenantScope(s, k.tenant)
      [] k.scope = "user" -> withUserScope(s, k.user)
      [] k.scope = "both" -> withUserAndTenantScope(s, k.user, k.tenant)
      [] k.scope = "metrics" -> withInternalMetricsScope(s)
      [] k.scope = "bare" -> s

-----------------------------------------------------------------------------
(* The policies: which rows a session's settings reveal.                    *)

user_isolation(s, x) == x.user = s.user \/ s.metrics

owner_isolation(s, x) ==
    \/ x.tenant = NoOne /\ x.user = s.user
    \/ x.tenant # NoOne /\ x.tenant = s.tenant
    \/ s.metrics

tenant_isolation(s, x) == x.tenant = s.tenant

\* Postgres ORs the permissive policies of a table.
Visible(s) ==
    {x \in rows :
        \/ x.table = "members" /\ tenant_isolation(s, x)
        \/ x.table = "batches" /\ "user_isolation" \in policies /\ user_isolation(s, x)
        \/ x.table = "batches" /\ "owner_isolation" \in policies /\ owner_isolation(s, x)}

-----------------------------------------------------------------------------
(* What a request does: a sequence of calls, each in a scope of its own.    *)

Call(scope, u, t, op, row) == [scope |-> scope, user |-> u, tenant |-> t, op |-> op, row |-> row]

TenantCall(t, op, row) == Call("tenant", NoOne, t, op, row)
UserCall(u, op, row) == Call("user", u, NoOne, op, row)
Outside(scope, op, row) == Call(scope, NoOne, NoOne, op, row)
NoRow == Batch(NoOne, NoOne)

\* createApp: the guard in front of a group of routes decides the scopes its
\* requests run in; behind tenantMiddleware a store call opens a second scope.
RouteScripts ==
    {<<TenantCall("tA", "route", NoRow)>>, <<UserCall("u1", "read", NoRow)>>}

claimScript(u, t) == <<Call("both", u, t, "claim", Batch(u, t))>>

\* setActiveTenant checks the membership inside the tenant's scope; isTenantActive
\* reads an unprotected table outside any.
setActiveTenant(u, t) == <<TenantCall(t, "activate", Member(u, t)), Outside("bare", "read", NoRow)>>

\* internalMetricsRoute: the users, then the reads across every user (issued
\* together in the code; none of them holds a session while it waits for one).
internalMetricsRoute == <<Outside("bare", "users", NoRow), Outside("metrics", "read", NoRow)>>

\* deleteAccountByEmail: look the user up, delete what the user's scope sees, each
\* company's members, then the unprotected roots, whose deletion cascades.
deleteAccountByEmail(u, t) ==
    <<Outside("bare", "users", NoRow), UserCall(u, "delete", Batch(u, NoOne)),
      TenantCall(t, "delete", Member(u, t)), Outside("bare", "cascade", Batch(u, NoOne))>>

\* verifyTenantIsolation, verifyUserIsolation and verifyTransferIsolation write a
\* row and read it back from sessions that must find it and sessions that must
\* miss it, one of them a fresh client that never set anything; then clean up.
verifyTenantIsolation ==
    LET x == Member("vU", "vA")
    IN  <<TenantCall("vA", "insert", x), TenantCall("vA", "find", x),
          TenantCall("vB", "miss", x), Outside("client", "miss", x), TenantCall("vA", "delete", x)>>

verifyUserIsolation ==
    LET x == Batch("vU", NoOne)
    IN  <<UserCall("vU", "insert", x), UserCall("vU", "find", x),
          UserCall("vW", "miss", x), Outside("client", "miss", x), UserCall("vU", "delete", x)>>

verifyTransferIsolation ==
    LET x == Batch("vU", "vA")
    IN  <<UserCall("vU", "insert", Batch("vU", NoOne)), Call("both", "vU", "vA", "claim", x),
          TenantCall("vA", "find", x), UserCall("vU", "miss", x),
          TenantCall("vB", "miss", x), TenantCall("vA", "delete", x)>>

VerifyScripts == {verifyTenantIsolation, verifyUserIsolation, verifyTransferIsolation}

Scripts ==
    RouteScripts \cup VerifyScripts
        \cup {claimScript("u1", "tA"), setActiveTenant("u2", "tB"), internalMetricsRoute,
              deleteAccountByEmail("u2", "tB")}

-----------------------------------------------------------------------------
NoSession == [st |-> "absent", live |-> FALSE, txn |-> FALSE, settings |-> NoSettings]
NewSession == [st |-> "held", live |-> TRUE, txn |-> FALSE, settings |-> NoSettings]
NoFrame == [phase |-> "connect", conn |-> NoOne]
NotStarted == [script |-> <<>>, at |-> 1, stack |-> <<>>, threw |-> FALSE, outcome |-> NoOne]

\* A database that earlier boots have brought up to date, and an empty pool.
\* Bound: a behaviour has failing queries or booting replicas, not both.
DbInit ==
    /\ conn = [c \in Conns |-> NoSession]
    /\ rows = {Batch(u, NoOne) : u \in Users} \cup {Member("u1", "tA"), Member("u2", "tB")}
    /\ active = [u \in Users |-> NoOne]
    /\ req = [r \in Requests |-> NotStarted]
    /\ policies = {"owner_isolation"}
    /\ boot = NoOne
    /\ \/ dbFaults = 0 /\ boots = MaxBoots
       \/ dbFaults = MaxDbFaults /\ boots = 0

TheCall(r) == req[r].script[req[r].at]
Top(r) == Last(req[r].stack)
Session(r) == conn[Top(r).conn]
At(r, phase) == req[r].stack # <<>> /\ Top(r).phase = phase
SetPhase(r, phase) == [req EXCEPT ![r].stack[Len(req[r].stack)].phase = phase]
Quiet == UNCHANGED <<policies, boot, boots>>

\* The top scope returned or threw.  A nested scope returns to the handler's own
\* (Hono turns a handler's error into a response, so that one commits).  After a
\* throw a verify script goes to its clean-up and any other request ends.
Leave(r, threw) ==
    LET q == req[r]
        failed == q.threw \/ threw
        last == Len(q.script)
        next == IF threw /\ q.script \in VerifyScripts /\ q.at < last THEN last ELSE q.at + 1
        over == next > last \/ (threw /\ q.script \notin VerifyScripts)
    IN  IF Len(q.stack) = 2
        THEN [req EXCEPT ![r].stack = <<[q.stack[1] EXCEPT !.phase = "commit"]>>, ![r].threw = failed]
        ELSE [req EXCEPT ![r].stack = IF over THEN <<>> ELSE <<NoFrame>>,
                         ![r].at = IF over THEN @ ELSE next,
                         ![r].threw = failed,
                         ![r].outcome = IF over THEN IF failed THEN "error" ELSE "ok" ELSE @]

-----------------------------------------------------------------------------
\* A request arrives and enters its first scope.  Bound: one of the longer jobs
\* over a behaviour, next to any number of route requests.
Arrive(r) ==
    /\ req[r] = NotStarted
    /\ \E s \in Scripts :
        /\ s \notin RouteScripts => \A q \in Requests : req[q].script \in RouteScripts \cup {<<>>}
        /\ req' = [req EXCEPT ![r].script = s, ![r].stack = <<NoFrame>>]
    /\ UNCHANGED <<conn, rows, active, dbFaults>> /\ Quiet

\* timedConnect: an idle session as it was left, or a new one in a free slot.
timedConnect(r) ==
    /\ At(r, "connect") /\ TheCall(r).scope # "client"
    /\ \E c \in Conns :
        /\ conn[c].st = "idle" \/ (conn[c].st = "absent" /\ \A d \in Conns : conn[d].st # "idle")
        /\ conn' = [conn EXCEPT ![c] = IF @.st = "idle" THEN [@ EXCEPT !.st = "held"] ELSE NewSession]
        /\ req' = [req EXCEPT ![r].stack[Len(req[r].stack)] = [phase |-> "begin", conn |-> c]]
    /\ UNCHANGED <<rows, active, dbFaults>> /\ Quiet

\* Callers without a connection timeout (a mutant).
waitForever(r) == FALSE /\ UNCHANGED dbVars

\* connectionTimeoutMillis of createPool: a caller that waits for a slot of a
\* saturated pool gives up; there is nothing to release.
connectionTimeout(r) ==
    /\ At(r, "connect") /\ TheCall(r).scope # "client"
    /\ \A c \in Conns : conn[c].st = "held"
    /\ req' = Leave(r, TRUE)
    /\ UNCHANGED <<conn, rows, active, dbFaults>> /\ Quiet

\* The verify scripts' fresh client: not of the pool, no settings at all.
FreshClient(r) ==
    /\ At(r, "connect") /\ TheCall(r).scope = "client"
    /\ req' = Leave(r, TheCall(r).row \in Visible(NoSettings))
    /\ UNCHANGED <<conn, rows, active, dbFaults>> /\ Quiet

\* BEGIN and the set_config calls; a bare query does neither.
Begin(r) ==
    /\ At(r, "begin") /\ Session(r).live
    /\ conn' = [conn EXCEPT ![Top(r).conn].settings = ScopeSettings(@, TheCall(r)),
                            ![Top(r).conn].txn = (TheCall(r).scope # "bare")]
    /\ req' = SetPhase(r, "fn")
    /\ UNCHANGED <<rows, active, dbFaults>> /\ Quiet

\* The handler behind tenantMiddleware calls a store, which opens its own scope.
CallStore(r) ==
    /\ At(r, "fn") /\ TheCall(r).op = "route" /\ Len(req[r].stack) = 1
    /\ req' = [req EXCEPT ![r].stack = Append(@, NoFrame)]
    /\ UNCHANGED <<conn, rows, active, dbFaults>> /\ Quiet

\* fn throws when a row it must find is not visible, one it must miss is, or the
\* membership it checks is missing.
FnThrows(r) ==
    LET k == TheCall(r)
        seen == k.row \in Visible(Session(r).settings)
    IN  (k.op \in {"find", "activate"} /\ ~seen) \/ (k.op = "miss" /\ seen)

Fn(r) ==
    /\ At(r, "fn") /\ Session(r).live
    /\ TheCall(r).op = "route" => Len(req[r].stack) = 2
    /\ req' = SetPhase(r, IF FnThrows(r) THEN "rollback" ELSE "commit")
    /\ UNCHANGED <<conn, rows, active, dbFaults>> /\ Quiet

\* What the call's statements leave once committed.  A claim takes the user's row
\* only while no tenant has it; deleting a user cascades to its rows.
Effect(r) ==
    LET k == TheCall(r)
        unclaimed == [k.row EXCEPT !.tenant = NoOne]
    IN  CASE k.op = "insert" -> rows \cup {k.row}
          [] k.op = "claim" /\ unclaimed \in rows -> (rows \ {unclaimed}) \cup {k.row}
          [] k.op = "delete" -> rows \ {x \in Visible(Session(r).settings) : x.user = k.row.user}
          [] k.op = "cascade" -> {x \in rows : x.user # k.row.user}
          [] OTHER -> rows

Activated(r) ==
    LET k == TheCall(r)
    IN  CASE k.op = "activate" -> [active EXCEPT ![k.row.user] = k.row.tenant]
          [] k.op = "cascade" -> [active EXCEPT ![k.row.user] = NoOne]
          [] OTHER -> active

\* COMMIT and release(): the settings stay on the session, or read as empty again
\* (a custom setting's SET LOCAL does not reliably revert).
Commit(r) ==
    /\ At(r, "commit") /\ Session(r).live
    /\ rows' = Effect(r) /\ active' = Activated(r)
    /\ \E s \in {Session(r).settings, NoSettings} :
        conn' = [conn EXCEPT ![Top(r).conn] = [@ EXCEPT !.st = "idle", !.txn = FALSE, !.settings = s]]
    /\ req' = Leave(r, FALSE)
    /\ UNCHANGED dbFaults /\ Quiet

\* A query fails and the scope's catch is next.  A COMMIT whose answer is lost may
\* have happened.
QueryFails(r) ==
    /\ \E p \in {"begin", "fn", "commit"} : At(r, p)
    /\ TheCall(r).op = "route" => ~(At(r, "fn") /\ Len(req[r].stack) = 1)
    /\ \/ UNCHANGED <<rows, active>>
       \/ At(r, "commit") /\ rows' = Effect(r) /\ active' = Activated(r)
    /\ req' = SetPhase(r, "rollback")
    /\ UNCHANGED conn /\ Quiet

\* statement_timeout, or a statement the server rejects.
StatementFails(r) ==
    /\ QueryFails(r) /\ Session(r).live
    /\ dbFaults < MaxDbFaults /\ dbFaults' = dbFaults + 1

\* The session died while the request held it.
SessionGone(r) == QueryFails(r) /\ ~Session(r).live /\ UNCHANGED dbFaults

\* Every session goes back to the pool (a mutant).
releaseClean(r) == [conn EXCEPT ![Top(r).conn].st = "idle"]

\* ROLLBACK, whose own failure is swallowed, then release(err): pg discards the
\* session.  ActiveTenantStore's bare reads release without an error; pg keeps
\* the session unless it is gone.
release(r) ==
    [conn EXCEPT ![Top(r).conn] =
        IF TheCall(r).scope = "bare" /\ TheCall(r).op = "read" /\ @.live
        THEN [@ EXCEPT !.st = "idle"] ELSE NoSession]

Rollback(r) ==
    /\ At(r, "rollback")
    /\ conn' = release(r)
    /\ req' = Leave(r, TRUE)
    /\ UNCHANGED <<rows, active, dbFaults>> /\ Quiet

\* The server ends a session: idle in a transaction too long, a restart, a network
\* drop.  The pool's error listener drops it at once when nobody holds it.
SessionDies(c) ==
    /\ conn[c].live /\ dbFaults < MaxDbFaults
    /\ conn' = [conn EXCEPT ![c] = IF @.st = "idle" THEN NoSession ELSE [@ EXCEPT !.live = FALSE]]
    /\ dbFaults' = dbFaults + 1
    /\ UNCHANGED <<rows, active, req>> /\ Quiet

-----------------------------------------------------------------------------
(* Boot: every file again, in order, one transaction each.  The advisory    *)
(* lock lets one replica at a time past it: boot is that replica's position. *)
(* One that waits, or gives up waiting, has done nothing yet.               *)

\* The files that touch the policies of the two tables, in MIGRATION_FILES order.
MIGRATION_FILES == <<"0004", "0005", "0006">>

AfterMigration(file) ==
    IF file = "0006" THEN (policies \ {"user_isolation"}) \cup {"owner_isolation"}
    ELSE policies \cup {"user_isolation"}

BootStart ==
    /\ boot = NoOne /\ boots < MaxBoots
    /\ boot' = MIGRATION_FILES[1] /\ boots' = boots + 1
    /\ UNCHANGED <<conn, rows, active, req, policies, dbFaults>>

runMigrations ==
    /\ \E i \in DOMAIN MIGRATION_FILES :
        /\ boot = MIGRATION_FILES[i]
        /\ policies' = AfterMigration(MIGRATION_FILES[i])
        /\ boot' = IF i = Len(MIGRATION_FILES) THEN NoOne ELSE MIGRATION_FILES[i + 1]
    /\ UNCHANGED <<conn, rows, active, req, dbFaults, boots>>

\* A boot dies: its session ends, and with it the lock.
BootFails ==
    /\ boot # NoOne /\ boot' = NoOne
    /\ UNCHANGED <<conn, rows, active, req, policies, dbFaults, boots>>

-----------------------------------------------------------------------------
\* What a request does once it has arrived, faults aside.
Progress(r) ==
    \/ timedConnect(r) \/ connectionTimeout(r) \/ FreshClient(r) \/ Begin(r) \/ CallStore(r)
    \/ Fn(r) \/ Commit(r) \/ SessionGone(r) \/ Rollback(r)

DbNext ==
    \/ \E r \in Requests : Arrive(r) \/ Progress(r) \/ StatementFails(r)
    \/ \E c \in Conns : SessionDies(c)
    \/ BootStart \/ runMigrations \/ BootFails

-----------------------------------------------------------------------------
Phases == {"connect", "begin", "fn", "commit", "rollback"}

\* The variables keep their types.
DbTypeOK ==
    /\ \A c \in Conns :
        /\ conn[c].st \in {"absent", "idle", "held"} /\ conn[c].live \in BOOLEAN
        /\ conn[c].txn \in BOOLEAN /\ conn[c].settings.metrics \in BOOLEAN
    /\ \A r \in Requests :
        /\ req[r].script \in Scripts \cup {<<>>}
        /\ \A i \in DOMAIN req[r].stack :
            req[r].stack[i].phase \in Phases /\ req[r].stack[i].conn \in Conns \cup {NoOne}
        /\ req[r].outcome \in {NoOne, "ok", "error"}
    /\ policies \in SUBSET {"user_isolation", "owner_isolation"}
    /\ boot \in Range(MIGRATION_FILES) \cup {NoOne}

\* The rows a call may see, from who it is made for and not from the settings.
Entitled(k) ==
    {x \in rows :
        \/ k.scope = "metrics" /\ x.table = "batches"
        \/ k.scope \in {"tenant", "both"} /\ x.tenant = k.tenant
        \/ k.scope \in {"user", "both"} /\ x.table = "batches" /\ x.user = k.user /\ x.tenant = NoOne}

\* tenantContext.ts 27-41, migration 0006: while a call's statements run, its
\* session shows exactly the rows of the tenant or user it is made for, whatever
\* an earlier borrower of that session left on it, and a claimed row no longer its
\* user's.  Only while a replica re-runs the migrations before 0006 does the user
\* who entered a row see it again; nobody else ever does.
ScopeIsolation ==
    \A r \in Requests :
        At(r, "fn") /\ TheCall(r).scope # "bare" =>
            LET k == TheCall(r)
                shown == Visible(Session(r).settings)
            IN  /\ Entitled(k) \subseteq shown
                /\ \A x \in shown \ Entitled(k) :
                    policies # {"owner_isolation"} /\ x.table = "batches" /\ x.user = k.user

\* tenantContext.ts 10-17: a session in the pool is alive and outside any
\* transaction; a session that is out belongs to one scope of one request, and
\* when no scope is open every session is back: none leaks on any error path.
PoolIsClean ==
    \A c \in Conns :
        /\ conn[c].st = "idle" => conn[c].live /\ ~conn[c].txn
        /\ (conn[c].st = "held") <=>
            (\E r \in Requests : \E i \in DOMAIN req[r].stack : req[r].stack[i].conn = c)

\* connection.ts 5-12 (ADR-030): a request that arrived is answered, even when
\* every session is held by requests that wait for a second one.
RequestsAnswered == \A r \in Requests : (req[r] # NotStarted) ~> (req[r].outcome # NoOne)
=============================================================================
