------------------------------ MODULE Billing ------------------------------
(***************************************************************************)
(* Platform billing of one tenant: the checkout and the Stripe webhook of  *)
(* apps/api/src/routes/billing.ts over billing/stripeClient.ts, and the    *)
(* stripe_subscription_id column that is the only record of who has paid.  *)
(* Stripe delivers its events at least once; a failed delivery is retried. *)
(***************************************************************************)
EXTENDS Integers, Sequences

CONSTANTS Subscriptions,  \* subscriptions the tenant ever starts
          NoSubscription, \* NULL
          MaxFailures     \* bound: deliveries whose handler throws

ASSUME BillingAssumption == NoSubscription \notin Subscriptions /\ MaxFailures \in Nat

VARIABLES live,       \* Stripe's truth: the tenant's live subscription
          used,       \* subscriptions started so far
          events,     \* undelivered webhook events, oldest first
          column,     \* tenants.stripe_subscription_id
          resync,     \* the schedule has to be re-synced for the latest stored id
          failures

billingVars == <<live, used, events, column, resync, failures>>

Event == [kind: {"subscription-active", "subscription-canceled", "ignored"},
          subscription: Subscriptions]

BillingTypeOK ==
    /\ live \in Subscriptions \cup {NoSubscription}
    /\ used \subseteq Subscriptions
    /\ events \in Seq(Event)
    /\ column \in Subscriptions \cup {NoSubscription}
    /\ resync \in BOOLEAN /\ failures \in 0..MaxFailures

BillingInit ==
    /\ live = NoSubscription /\ used = {} /\ events = <<>>
    /\ column = NoSubscription /\ resync = FALSE /\ failures = 0

\* createCheckoutSession, paid by the founder: Stripe makes a subscription whose
\* metadata carries the tenant, and queues created (kind active) and invoice events.
Checkout(s) ==
    /\ live = NoSubscription /\ s \notin used
    /\ live' = s /\ used' = used \cup {s}
    /\ events' = events \o <<[kind |-> "subscription-active", subscription |-> s],
                             [kind |-> "ignored", subscription |-> s]>>
    /\ UNCHANGED <<column, resync, failures>>

\* The subscription ends at Stripe.
Cancel ==
    /\ live # NoSubscription
    /\ live' = NoSubscription
    /\ events' = Append(events, [kind |-> "subscription-canceled", subscription |-> live])
    /\ UNCHANGED <<used, column, resync, failures>>

\* The id of a canceled subscription too (a mutant).
SetCanceledId(e) == e.subscription

\* The id setTenantStripeIds stores for an event.
stripeSubscriptionIdFor(e) ==
    IF e.kind = "subscription-active" THEN e.subscription ELSE NoSubscription

\* billingWebhookRoute: signature verified, the ids stored, then the schedule re-synced.
Webhook ==
    /\ events # <<>>
    /\ events' = Tail(events)
    /\ IF Head(events).kind = "ignored" THEN UNCHANGED <<column, resync>>
       ELSE column' = stripeSubscriptionIdFor(Head(events)) /\ resync' = FALSE
    /\ UNCHANGED <<live, used, failures>>

\* The same, but applyTierChange throws after the ids are stored: Stripe gets a
\* 500 and delivers the event again.
WebhookThrows ==
    /\ events # <<>> /\ Head(events).kind # "ignored" /\ failures < MaxFailures
    /\ column' = stripeSubscriptionIdFor(Head(events)) /\ resync' = TRUE
    /\ failures' = failures + 1
    /\ UNCHANGED <<live, used, events>>

BillingNext == (\E s \in Subscriptions : Checkout(s)) \/ Cancel \/ Webhook \/ WebhookThrows

BillingSpec == BillingInit /\ [][BillingNext]_billingVars

\* The paid signal converges: once Stripe's events are delivered in order, retries
\* included, the stored subscription is the live one, NULL when there is none, and
\* the schedule was re-synced after it (billing.ts:72-74, 109-120).
PaidSignalConverges == events = <<>> => (column = live /\ ~resync)
=============================================================================
