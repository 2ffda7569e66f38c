------------------------------ MODULE MCRuntime ------------------------------
(***************************************************************************)
(* The small machines of the runtime that share no state: a task chain, the *)
(* billing webhook, the worker's circuit breaker, the OAuth connect flow, and *)
(* the database sessions of concurrent requests.  A behaviour follows one of *)
(* them, chosen at the start, while the others stay where they are: the      *)
(* state space is the sum of theirs, and none of them reads another.         *)
(***************************************************************************)
EXTENDS Chains, Billing, CircuitBreaker, HandsOAuth, TenantScope

VARIABLE focus

vars == <<chainVars, billingVars, breakerVars, oauthVars, dbVars, focus>>

Init == /\ ChainInit /\ BillingInit /\ BreakerInit /\ OAuthInit /\ DbInit
        /\ focus \in {"chain", "billing", "breaker", "oauth", "database"}

Next ==
    \/ focus = "chain" /\ ChainNext /\ UNCHANGED <<billingVars, breakerVars, oauthVars, dbVars, focus>>
    \/ focus = "billing" /\ BillingNext /\ UNCHANGED <<chainVars, breakerVars, oauthVars, dbVars, focus>>
    \/ focus = "breaker" /\ BreakerNext /\ UNCHANGED <<chainVars, billingVars, oauthVars, dbVars, focus>>
    \/ focus = "oauth" /\ OAuthNext /\ UNCHANGED <<chainVars, billingVars, breakerVars, dbVars, focus>>
    \/ focus = "database" /\ DbNext /\ UNCHANGED <<chainVars, billingVars, breakerVars, oauthVars, focus>>

\* Each request's own code runs on: the event loop resumes it when its query, its
\* session or its connection timeout is due.
RequestRuns(r) ==
    focus = "database" /\ Progress(r) /\ UNCHANGED <<chainVars, billingVars, breakerVars, oauthVars, focus>>

Spec == Init /\ [][Next]_vars /\ \A r \in Requests : WF_vars(RequestRuns(r))

\* Tenants stay apart: no statement reads or writes another tenant's or user's rows, and
\* a connected credential lands with the tenant that asked for it (the named parts).
TenantsStayApart == ScopeIsolation /\ StoredWhereStarted
=============================================================================
