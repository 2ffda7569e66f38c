------------------------------ MODULE Templates ------------------------------
(***************************************************************************)
(* The seven curated business templates (packages/templates/src), as the   *)
(* extraction pipeline sees them: the tasks of each, with the fields that  *)
(* decide how a task is clustered, restricted and scheduled.  Wording,     *)
(* labels and branch questions are left out.                               *)
(***************************************************************************)
EXTENDS Integers, Sequences

NoTool == "none"
NoCadence == "none"

\* A TemplateTask: tier T1..T3 and autonomy (0 locked, 1 earnable, 2 eligible-early)
\* by their ranks; verified stands for requiresProfessionalVerification.
Task(id, agentType, teamHint, tier, autonomy, handsTool, verified, cadence, triggerType) ==
    [id |-> id, agentType |-> agentType, teamHint |-> teamHint, tier |-> tier, autonomy |-> autonomy,
     handsTool |-> handsTool, verified |-> verified, cadence |-> cadence, triggerType |-> triggerType]

chiefOfStaffTask ==
    Task("founder.chief-of-staff.weekly-plan", "chief-of-staff", "founder", 3, 1, NoTool, FALSE, "weekly", "cadence")

ecommerceCfoCmo == <<
    Task("cfo.invoicing.create", "invoicing", "cfo", 2, 1, "Stripe", FALSE, "daily", "cadence"),
    Task("cfo.invoicing.remind", "invoicing", "cfo", 2, 1, "Stripe", FALSE, NoCadence, "event"),
    Task("cfo.expenses.categorize", "expense-categorization", "cfo", 1, 2, "Stripe", FALSE, "nightly", "cadence"),
    Task("cfo.cashflow.forecast", "cashflow-forecast", "cfo", 2, 1, NoTool, FALSE, "weekly", "cadence"),
    Task("cfo.tax.tracker", "tax-deadline-tracker", "cfo", 1, 0, NoTool, FALSE, "monthly", "cadence"),
    Task("cmo.social.posts", "social-manager", "cmo", 1, 1, "Instagram/Meta", FALSE, "daily", "cadence"),
    Task("cmo.content.blog", "content-writer", "cmo", 2, 1, NoTool, FALSE, "monthly", "cadence"),
    Task("cmo.email.campaigns", "email-marketing", "cmo", 2, 1, "Resend", FALSE, "weekly", "cadence"),
    Task("cmo.seo.listings", "seo-agent", "cmo", 1, 2, NoTool, FALSE, "monthly", "cadence") >>

ecommerceOpsSupport == <<
    Task("ops.inventory.levels", "inventory", "ops", 1, 2, "Shopify/Etsy", FALSE, "daily", "threshold"),
    Task("ops.inventory.reorder", "inventory", "ops", 1, 2, "Shopify/Etsy", FALSE, "weekly", "threshold"),
    Task("ops.fulfillment.status", "fulfillment", "ops", 1, 1, "Shipping carrier", FALSE, "daily", "cadence"),
    Task("ops.fulfillment.delay", "fulfillment", "ops", 1, 1, "Shipping carrier", FALSE, "weekly", "cadence"),
    Task("ops.vendor.tracking", "vendor-manager", "ops", 1, 2, NoTool, FALSE, "weekly", "cadence"),
    Task("ops.vendor.comms", "vendor-manager", "ops", 2, 0, NoTool, FALSE, "weekly", "cadence"),
    Task("support.triage.inbound", "tier1-triage", "support", 1, 1, "Shared inbox", FALSE, NoCadence, "event"),
    Task("support.escalation.detect", "escalation", "support", 2, 0, NoTool, FALSE, NoCadence, "event") >>

ecommerceTemplate == <<chiefOfStaffTask>> \o ecommerceCfoCmo \o ecommerceOpsSupport

serviceCfoDelivery == <<
    Task("cfo.invoicing.create", "invoicing", "cfo", 2, 1, "Stripe", FALSE, "weekly", "cadence"),
    Task("cfo.invoicing.remind", "invoicing", "cfo", 2, 1, "Stripe", FALSE, NoCadence, "event"),
    Task("cfo.expenses.categorize", "expense-categorization", "cfo", 1, 2, NoTool, FALSE, "nightly", "cadence"),
    Task("cfo.cashflow.forecast", "cashflow-forecast", "cfo", 2, 1, NoTool, FALSE, "weekly", "cadence"),
    Task("cfo.tax.tracker", "tax-deadline-tracker", "cfo", 1, 0, NoTool, FALSE, "monthly", "cadence"),
    Task("delivery.core.execute", "core-service-delivery", "delivery", 2, 0, "Client-facing systems (per-client, scoped access)", FALSE, "weekly", "cadence"),
    Task("delivery.core.qa", "delivery-qa", "delivery", 2, 0, NoTool, FALSE, "weekly", "cadence"),
    Task("delivery.core.handoff", "delivery-handoff", "delivery", 1, 1, "Client-facing systems (per-client, scoped access)", FALSE, "weekly", "cadence") >>

serviceSalesSupportCompliance == <<
    Task("sales.qualifier.score", "lead-qualifier", "sales", 1, 2, "CRM", FALSE, "daily", "cadence"),
    Task("sales.outreach.draft", "outreach-drafter", "sales", 2, 0, "Email", FALSE, "daily", "cadence"),
    Task("sales.crm.hygiene", "crm-hygiene", "sales", 1, 2, "CRM", FALSE, "daily", "cadence"),
    Task("sales.proposal.build", "proposal-builder", "sales", 2, 0, "CRM", FALSE, "weekly", "cadence"),
    Task("support.onboarding.welcome", "onboarding", "support", 2, 1, "Email", FALSE, "weekly", "cadence"),
    Task("support.onboarding.setup", "onboarding", "support", 2, 1, NoTool, FALSE, "weekly", "cadence"),
    Task("support.triage.inbound", "tier1-triage", "support", 1, 1, "Shared inbox", FALSE, NoCadence, "event"),
    Task("support.escalation.detect", "escalation", "support", 2, 0, NoTool, FALSE, NoCadence, "event"),
    Task("compliance.review", "compliance-review", "compliance", 3, 0, NoTool, TRUE, "monthly", "cadence") >>

serviceCmoOps == <<
    Task("cmo.social.expertise", "social-manager", "cmo", 1, 1, NoTool, FALSE, "monthly", "cadence"),
    Task("ops.scheduling.calls", "scheduling", "ops", 1, 1, "Calendar", FALSE, "weekly", "cadence") >>

serviceTemplate == <<chiefOfStaffTask>> \o serviceCfoDelivery \o serviceSalesSupportCompliance \o serviceCmoOps

saasProductDevCmo == <<
    Task("productdev.spec.write", "spec-writer", "product-dev", 3, 1, NoTool, FALSE, "weekly", "cadence"),
    Task("productdev.build.propose", "build-agent", "product-dev", 2, 0, "GitHub", FALSE, "daily", "cadence"),
    Task("productdev.qa.smoketest", "qa-smoke-test", "product-dev", 2, 0, "GitHub", FALSE, NoCadence, "event"),
    Task("productdev.deploy.coordinate", "deploy-coordinator", "product-dev", 1, 0, "GitHub", FALSE, NoCadence, "event"),
    Task("cmo.content.buildinpublic", "content-writer", "cmo", 2, 1, "Twitter/X", FALSE, "weekly", "cadence"),
    Task("cmo.content.landing", "content-writer", "cmo", 2, 1, NoTool, FALSE, "monthly", "cadence"),
    Task("cmo.social.waitlist", "social-manager", "cmo", 1, 1, NoTool, FALSE, "weekly", "cadence"),
    Task("cmo.seo.landing", "seo-agent", "cmo", 1, 2, NoTool, FALSE, "monthly", "cadence") >>

saasCfoSupport == <<
    Task("cfo.invoicing.create", "invoicing", "cfo", 2, 1, "Stripe", FALSE, "monthly", "cadence"),
    Task("cfo.expenses.categorize", "expense-categorization", "cfo", 1, 2, NoTool, FALSE, "nightly", "cadence"),
    Task("cfo.cashflow.runway", "cashflow-forecast", "cfo", 2, 1, NoTool, FALSE, "weekly", "cadence"),
    Task("support.digest.weekly-summary", "ops-digest", "support", 1, 1, "Resend", FALSE, "weekly", "cadence"),
    Task("support.waitlist.updates", "onboarding", "support", 1, 1, "Email", FALSE, "weekly", "cadence"),
    Task("support.triage.inbound", "tier1-triage", "support", 1, 1, "Shared inbox", FALSE, NoCadence, "event") >>

saasTemplate == <<chiefOfStaffTask>> \o saasProductDevCmo \o saasCfoSupport

contentCmoCfo == <<
    Task("cmo.content.longform", "content-writer", "cmo", 2, 1, NoTool, FALSE, "daily", "cadence"),
    Task("cmo.social.clips", "social-manager", "cmo", 1, 1, "Instagram/TikTok", FALSE, "daily", "cadence"),
    Task("cmo.seo.growth", "seo-agent", "cmo", 1, 2, NoTool, FALSE, "weekly", "cadence"),
    Task("cmo.email.newsletter", "email-marketing", "cmo", 2, 1, "Resend/ConvertKit", FALSE, "weekly", "cadence"),
    Task("cmo.ad.sponsorcopy", "ad-creative", "cmo", 2, 0, NoTool, FALSE, "monthly", "cadence"),
    Task("cfo.invoicing.sponsors", "invoicing", "cfo", 2, 1, "Stripe", FALSE, "monthly", "cadence"),
    Task("cfo.invoicing.remind", "invoicing", "cfo", 2, 1, "Stripe", FALSE, NoCadence, "event"),
    Task("cfo.expenses.categorize", "expense-categorization", "cfo", 1, 2, NoTool, FALSE, "nightly", "cadence"),
    Task("cfo.cashflow.forecast", "cashflow-forecast", "cfo", 2, 1, NoTool, FALSE, "weekly", "cadence") >>

contentSupportSales == <<
    Task("support.triage.inbound", "tier1-triage", "support", 1, 1, "Shared inbox", FALSE, NoCadence, "event"),
    Task("support.community.onboarding", "onboarding", "support", 2, 1, "Discord", FALSE, "weekly", "cadence"),
    Task("sales.outreach.brand", "outreach-drafter", "sales", 2, 0, "Email", FALSE, "weekly", "cadence"),
    Task("sales.crm.sponsors", "crm-hygiene", "sales", 1, 2, "CRM", FALSE, "weekly", "cadence") >>

contentTemplate == <<chiefOfStaffTask>> \o contentCmoCfo \o contentSupportSales

localCfoCmo == <<
    Task("cfo.invoicing.create", "invoicing", "cfo", 2, 1, "Square", FALSE, "weekly", "cadence"),
    Task("cfo.expenses.categorize", "expense-categorization", "cfo", 1, 2, "Square", FALSE, "nightly", "cadence"),
    Task("cfo.cashflow.forecast", "cashflow-forecast", "cfo", 2, 1, NoTool, FALSE, "weekly", "cadence"),
    Task("cfo.tax.tracker", "tax-deadline-tracker", "cfo", 1, 0, NoTool, FALSE, "monthly", "cadence"),
    Task("cfo.payroll.prep", "payroll-prep", "cfo", 2, 0, "Payroll provider", FALSE, "weekly", "cadence"),
    Task("cmo.social.local", "social-manager", "cmo", 1, 1, "Instagram/Facebook", FALSE, "daily", "cadence"),
    Task("cmo.seo.googlebusiness", "seo-agent", "cmo", 1, 2, "Google Business", FALSE, "monthly", "cadence"),
    Task("cmo.email.promos", "email-marketing", "cmo", 2, 1, "Resend", FALSE, "weekly", "cadence") >>

localOpsSupportPeople == <<
    Task("ops.scheduling.shifts", "scheduling", "ops", 1, 1, "Calendar", FALSE, "daily", "cadence"),
    Task("ops.vendor.tracking", "vendor-manager", "ops", 1, 2, "POS", FALSE, "weekly", "threshold"),
    Task("ops.vendor.comms", "vendor-manager", "ops", 2, 0, "POS", FALSE, "weekly", "cadence"),
    Task("ops.inventory.levels", "inventory", "ops", 1, 2, "POS", FALSE, "daily", "threshold"),
    Task("support.triage.inbound", "tier1-triage", "support", 1, 1, "Shared inbox", FALSE, NoCadence, "event"),
    Task("support.escalation.detect", "escalation", "support", 2, 0, NoTool, FALSE, NoCadence, "event"),
    Task("people.jobpost.write", "job-post-writer", "people", 2, 1, NoTool, FALSE, NoCadence, "event"),
    Task("people.applicant.summarize", "applicant-summarizer", "people", 1, 2, NoTool, FALSE, NoCadence, "event") >>

localTemplate == <<chiefOfStaffTask>> \o localCfoCmo \o localOpsSupportPeople

physicalSpaceCfoOps == <<
    Task("cfo.membership.billing", "membership-billing", "cfo", 2, 1, "Membership/payment platform", FALSE, "daily", "cadence"),
    Task("cfo.expenses.categorize", "expense-categorization", "cfo", 1, 2, NoTool, FALSE, "nightly", "cadence"),
    Task("cfo.cashflow.forecast", "cashflow-forecast", "cfo", 2, 1, NoTool, FALSE, "weekly", "cadence"),
    Task("cfo.tax.tracker", "tax-deadline-tracker", "cfo", 1, 0, NoTool, FALSE, "monthly", "cadence"),
    Task("ops.booking.scheduler", "booking-scheduler", "ops", 1, 1, "Booking platform", FALSE, "daily", "cadence"),
    Task("ops.membership.tracking", "membership-tracking", "ops", 1, 2, "Membership platform", FALSE, "daily", "threshold"),
    Task("ops.facility.maintenance", "facility-maintenance", "ops", 1, 2, NoTool, FALSE, "weekly", "threshold"),
    Task("ops.vendor.supplies", "vendor-manager", "ops", 1, 2, NoTool, FALSE, "weekly", "threshold"),
    Task("ops.event.coordinator", "event-coordinator", "ops", 1, 1, "Calendar", FALSE, "weekly", "cadence") >>

physicalSpaceCmoSupportCompliancePeople == <<
    Task("cmo.social.local", "social-manager", "cmo", 1, 1, "Instagram/Facebook", FALSE, "daily", "cadence"),
    Task("cmo.email.member", "email-marketing", "cmo", 2, 1, "Email", FALSE, "weekly", "cadence"),
    Task("cmo.seo.local", "seo-agent", "cmo", 1, 2, "Google Business", FALSE, "monthly", "cadence"),
    Task("support.triage.inbound", "tier1-triage", "support", 1, 1, "Shared inbox", FALSE, NoCadence, "event"),
    Task("support.escalation.detect", "escalation", "support", 2, 0, NoTool, FALSE, NoCadence, "event"),
    Task("compliance.safety-waivers", "safety-waivers", "compliance", 3, 0, NoTool, TRUE, "monthly", "cadence"),
    Task("people.jobpost.write", "job-post-writer", "people", 2, 1, NoTool, FALSE, NoCadence, "event"),
    Task("people.applicant.summarize", "applicant-summarizer", "people", 1, 2, NoTool, FALSE, NoCadence, "event") >>

physicalSpaceTemplate == <<chiefOfStaffTask>> \o physicalSpaceCfoOps \o physicalSpaceCmoSupportCompliancePeople

foodHospitalityCfoCmo == <<
    Task("cfo.invoicing.create", "invoicing", "cfo", 2, 1, "Square", FALSE, "weekly", "cadence"),
    Task("cfo.expenses.categorize", "expense-categorization", "cfo", 1, 2, "Square", FALSE, "nightly", "cadence"),
    Task("cfo.cashflow.forecast", "cashflow-forecast", "cfo", 2, 1, NoTool, FALSE, "weekly", "cadence"),
    Task("cfo.tax.tracker", "tax-deadline-tracker", "cfo", 1, 0, NoTool, FALSE, "monthly", "cadence"),
    Task("cmo.social.local", "social-manager", "cmo", 1, 1, "Instagram/Facebook", FALSE, "daily", "cadence"),
    Task("cmo.seo.googlebusiness", "seo-agent", "cmo", 1, 2, "Google Business", FALSE, "monthly", "cadence"),
    Task("cmo.email.promos", "email-marketing", "cmo", 2, 1, "Resend", FALSE, "weekly", "cadence") >>

foodHospitalityOpsDeliverySupport == <<
    Task("ops.menu.planning", "menu-planner", "ops", 2, 1, NoTool, FALSE, "weekly", "cadence"),
    Task("ops.vendor.tracking", "vendor-manager", "ops", 1, 2, "POS", FALSE, "weekly", "threshold"),
    Task("ops.kitchen.prep", "kitchen-scheduler", "ops", 2, 1, NoTool, FALSE, "weekly", "cadence"),
    Task("ops.inventory.coldchain", "inventory", "ops", 1, 2, NoTool, FALSE, "daily", "threshold"),
    Task("delivery.route.plan", "delivery-routing", "delivery", 2, 1, NoTool, FALSE, "weekly", "cadence"),
    Task("delivery.quality.check", "delivery-qa", "delivery", 2, 0, NoTool, FALSE, "weekly", "cadence"),
    Task("delivery.handoff.confirm", "delivery-handoff", "delivery", 1, 1, NoTool, FALSE, "weekly", "cadence"),
    Task("support.triage.inbound", "tier1-triage", "support", 1, 1, "Shared inbox", FALSE, NoCadence, "event"),
    Task("support.subscription.manage", "subscription-manager", "support", 2, 1, NoTool, FALSE, NoCadence, "event") >>

foodHospitalityCompliancePeople == <<
    Task("compliance.food-safety", "food-safety-compliance", "compliance", 3, 0, NoTool, TRUE, "monthly", "cadence"),
    Task("people.jobpost.write", "job-post-writer", "people", 2, 1, NoTool, FALSE, NoCadence, "event"),
    Task("people.applicant.summarize", "applicant-summarizer", "people", 1, 2, NoTool, FALSE, NoCadence, "event") >>

foodHospitalityTemplate == <<chiefOfStaffTask>> \o foodHospitalityCfoCmo \o foodHospitalityOpsDeliverySupport \o foodHospitalityCompliancePeople

BusinessTemplateIds ==
    {"ecommerce", "service", "saas", "content",
     "local", "physical-space", "food-hospitality"}

allTemplates == [id \in BusinessTemplateIds |->
    CASE id = "ecommerce" -> ecommerceTemplate
      [] id = "service" -> serviceTemplate
      [] id = "saas" -> saasTemplate
      [] id = "content" -> contentTemplate
      [] id = "local" -> localTemplate
      [] id = "physical-space" -> physicalSpaceTemplate
      [] id = "food-hospitality" -> foodHospitalityTemplate]
==============================================================================
