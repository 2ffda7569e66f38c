----------------------------- MODULE MCCostGate -----------------------------
(* TLC instances of CostGate.                                                *)
EXTENDS CostGate, TLC

CONSTANTS sales, support, emailAgent, frontier, cheap, unknownModel

Request(role, type, model, batchable) ==
  [roleId |-> role, taskType |-> type, model |-> model, batchable |-> batchable]

\* Two roles sharing an agent's task type, both priced tiers.
MCInputs ==
  {Request(sales, emailAgent, frontier, TRUE),
   Request(support, emailAgent, cheap, FALSE)}

\* An unpriced model as well, for the fail-closed branch of the gate.
MCInputsUnpriced == MCInputs \cup {Request(sales, emailAgent, unknownModel, FALSE)}

MCFrontierInputs ==
  {Request(sales, emailAgent, frontier, FALSE), Request(support, emailAgent, frontier, FALSE)}

MCEstimate == (frontier :> 2) @@ (cheap :> 1) @@ (unknownModel :> Unpriced)
MCLowerModel == (frontier :> cheap) @@ (cheap :> NoModel) @@ (unknownModel :> NoModel)

Ceilings(company, role, type, perDay) ==
  [companyMonthlyUsd    |-> company,
   perRoleUsd           |-> [x \in Roles |-> role],
   perTaskTypeUsd       |-> [x \in TaskTypes |-> type],
   perTaskTypePerDayUsd |-> [x \in TaskTypes |-> perDay]]

\* A deployed tenant (company and daily ceilings), and one with all levels set.
MCConfigs == {Ceilings(3, Uncapped, Uncapped, 2), Ceilings(4, 2, 3, Uncapped)}
\* The monthly ceiling as a tenant edits it.
MCEditable == {Ceilings(2, Uncapped, Uncapped, 4), Ceilings(4, Uncapped, Uncapped, 4)}
\* The same monthly ceiling, with and without a daily one.
MCMonthly == {Ceilings(2, Uncapped, Uncapped, Uncapped), Ceilings(2, Uncapped, Uncapped, 9)}

MCSymmetry == Permutations(Calls)
=============================================================================
