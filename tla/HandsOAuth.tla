------------------------------ MODULE HandsOAuth ------------------------------
(***************************************************************************)
(* Connecting a sub-agent's calendar by OAuth (apps/api/src/routes/         *)
(* handsOAuth.ts over oauth/state.ts and oauth/googleCalendar.ts): a start  *)
(* sends the browser to the provider with a signed state, the provider      *)
(* sends it back with a code, the callback checks the state against the     *)
(* session and exchanges the code, and the vault stores the credential.     *)
(*                                                                          *)
(* The server keeps nothing between start and callback.  The browser may    *)
(* change its active tenant or sign out at any time, load a callback link   *)
(* again, and load it long after; a flow stands for the state signed for    *)
(* it, which nobody else can sign.                                          *)
(***************************************************************************)
EXTENDS Integers, FiniteSets

CONSTANTS
    OAuthTenants,  \* tenants the browser's user belongs to
    SubAgents,     \* sub-agents with a calendar
    MaxFlows,      \* bound: connect flows started
    MaxCallbacks,  \* bound: callbacks in flight at once
    StateTtl,      \* STATE_TTL_MS
    MaxOAuthTime   \* bound: the clock

ASSUME OAuthAssumption == {MaxFlows, MaxCallbacks, StateTtl, MaxOAuthTime} \subseteq Nat

SignedOut == "signed-out"
Flows == 1 .. MaxFlows
NoFlow == [tenant |-> SignedOut, agent |-> "none", issuedAt |-> 0, code |-> "none"]

VARIABLES
    session,     \* the active tenant of the browser's session
    flow,        \* per flow: what its state binds, and the provider's code for it
    callbacks,   \* callbacks past their checks: what they will store, and their next call
    connected,   \* the credentials stored in the vault
    oauthTime

oauthVars == <<session, flow, callbacks, connected, oauthTime>>

OAuthInit ==
    /\ session = SignedOut
    /\ flow = [f \in Flows |-> NoFlow]
    /\ callbacks = {} /\ connected = {} /\ oauthTime = 0

\* The state binds tenant, sub-agent and service, and the time it was issued.
createOAuthState(tenant, agent) ==
    [tenant |-> tenant, agent |-> agent, issuedAt |-> oauthTime, code |-> "none"]

\* GET /:service/start, for the session's active tenant.
startFlow(f, agent) ==
    /\ session # SignedOut
    /\ flow[f] = NoFlow /\ \A g \in 1 .. f - 1 : flow[g] # NoFlow
    /\ flow' = [flow EXCEPT ![f] = createOAuthState(session, agent)]
    /\ UNCHANGED <<session, callbacks, connected, oauthTime>>

\* The consent screen, asked for with every start: the provider issues a code.
Consent(f) ==
    /\ flow[f] # NoFlow /\ flow[f].code = "none"
    /\ flow' = [flow EXCEPT ![f].code = "issued"]
    /\ UNCHANGED <<session, callbacks, connected, oauthTime>>

\* The state is genuine; it must also be young.
verifyOAuthState(f) == flow[f] # NoFlow /\ oauthTime - flow[f].issuedAt <= StateTtl

\* The signature alone, without the session's tenant (a mutant).
callbackChecksUnbound(f) == verifyOAuthState(f) /\ session # SignedOut

\* The session must be in the tenant the state was signed for.
callbackChecks(f) == verifyOAuthState(f) /\ session # SignedOut /\ flow[f].tenant = session

\* GET /:service/callback up to its exchange.  Anything wrong redirects with an error and
\* stores nothing; the tenant stored for is the session's, read here.
callback(f) ==
    /\ flow[f].code # "none" /\ callbackChecks(f)
    /\ Cardinality(callbacks) < MaxCallbacks
    /\ \E n \in 1 .. MaxCallbacks :
           /\ \A c \in callbacks : c.n # n
           /\ \A m \in 1 .. n - 1 : \E c \in callbacks : c.n = m
           /\ callbacks' = callbacks \cup {[n |-> n, flow |-> f, tenant |-> session,
                                            agent |-> flow[f].agent, acceptedAt |-> oauthTime, pc |-> "exchange"]}
    /\ UNCHANGED <<session, flow, connected, oauthTime>>

\* exchangeGoogleCalendarCode: a code is good for one exchange; its answer may be lost.
exchangeGoogleCalendarCode(c) ==
    /\ c \in callbacks /\ c.pc = "exchange"
    /\ flow' = [flow EXCEPT ![c.flow].code = "used"]
    /\ \/ flow[c.flow].code = "issued" /\ callbacks' = (callbacks \ {c}) \cup {[c EXCEPT !.pc = "store"]}
       \/ callbacks' = callbacks \ {c}
    /\ UNCHANGED <<session, connected, oauthTime>>

\* vault.storeHandsKey, which may fail; either way the callback redirects.
storeExchanged(c) ==
    /\ c \in callbacks /\ c.pc = "store"
    /\ \/ connected' = connected \cup {[flow |-> c.flow, tenant |-> c.tenant, agent |-> c.agent,
                                        acceptedAt |-> c.acceptedAt]}
       \/ UNCHANGED connected
    /\ callbacks' = callbacks \ {c}
    /\ UNCHANGED <<session, flow, oauthTime>>

\* The browser signs in or out, or switches its active organisation.
SwitchTenant(t) ==
    /\ t # session
    /\ session' = t
    /\ UNCHANGED <<flow, callbacks, connected, oauthTime>>

OAuthTick ==
    /\ oauthTime < MaxOAuthTime
    /\ oauthTime' = oauthTime + 1
    /\ UNCHANGED <<session, flow, callbacks, connected>>

OAuthNext ==
    \/ \E f \in Flows : (\E a \in SubAgents : startFlow(f, a)) \/ Consent(f) \/ callback(f)
    \/ \E c \in callbacks : exchangeGoogleCalendarCode(c) \/ storeExchanged(c)
    \/ \E t \in OAuthTenants \cup {SignedOut} : SwitchTenant(t)
    \/ OAuthTick

(***************************************************************************)
(* Properties                                                              *)
(***************************************************************************)

OAuthTypeOK ==
    /\ session \in OAuthTenants \cup {SignedOut}
    /\ flow \in [Flows -> {NoFlow} \cup
                  [tenant : OAuthTenants, agent : SubAgents, issuedAt : 0 .. MaxOAuthTime,
                   code : {"none", "issued", "used"}]]
    /\ callbacks \subseteq [n : 1 .. MaxCallbacks, flow : Flows, tenant : OAuthTenants, agent : SubAgents,
                            acceptedAt : 0 .. MaxOAuthTime, pc : {"exchange", "store"}]
    /\ connected \subseteq [flow : Flows, tenant : OAuthTenants, agent : SubAgents,
                            acceptedAt : 0 .. MaxOAuthTime]
    /\ oauthTime \in 0 .. MaxOAuthTime

\* However the browser switches tenants between start, consent and callback, and however
\* often a link is loaded, a credential ends up in the tenant and with the sub-agent the
\* flow was started for, within the state's lifetime, and one consent stores one
\* credential (handsOAuth.ts's cross-check of state and session).
StoredWhereStarted ==
    \A c \in connected :
        /\ c.tenant = flow[c.flow].tenant /\ c.agent = flow[c.flow].agent
        /\ c.acceptedAt - flow[c.flow].issuedAt <= StateTtl
        /\ \A d \in connected : d.flow = c.flow => d = c
==============================================================================
