------------------------------- MODULE OrgChart -------------------------------
(***************************************************************************)
(* Bottom-up assembly of an org chart from a task list                     *)
(* (packages/agents/extraction/src/assemble.ts): tasks are clustered into   *)
(* agents by agentType, agents are named from a bank and grouped into       *)
(* teams, and two hard checks refuse a chart.  An agent's title, objective, *)
(* brain and budget are functions of the fields kept here.                  *)
(***************************************************************************)
EXTENDS Templates, FiniteSetsExt, SequencesExt

CONSTANTS
    BankSize,   \* names in NAME_BANK
    NameStart   \* hashString(agentType) % NAME_BANK.length

ASSUME NameAssumption ==
    /\ BankSize \in Nat \ {0}
    /\ \A a \in DOMAIN NameStart : NameStart[a] \in 0 .. BankSize - 1

TeamHints == {"founder", "cfo", "cmo", "support", "sales", "ops", "delivery",
              "compliance", "people", "product-dev"}

\* A list of tasks is the set of its tasks, each with its place: what a filter leaves
\* stays in order.
placed(t, at) ==
    [at |-> at, id |-> t.id, agentType |-> t.agentType, teamHint |-> t.teamHint, tier |-> t.tier,
     autonomy |-> t.autonomy, handsTool |-> t.handsTool, verified |-> t.verified,
     cadence |-> t.cadence, triggerType |-> t.triggerType]

\* A sequence of tasks as such a list, after the first `from` places.
listed(s, from) == {placed(s[i], from + i) : i \in 1 .. Len(s)}

idsOf(tasks) == {t.id : t \in tasks}

lastOf(tasks) == Max({0} \cup {t.at : t \in tasks})

\* byAgentType: its keys, and in their order the first task of each.
agentTypesOf(tasks) == {t.agentType : t \in tasks}

firstTasks(tasks) ==
    {t \in tasks : \A u \in tasks : u.at < t.at => u.agentType # t.agentType}

tasksOfAgent(tasks, agentType) == {t \in tasks : t.agentType = agentType}

\* Linear probing that does not look at the names already given (a mutant).
probeBlindly(used, start) == start

\* The first free name at or after `start`, wrapping around; a full bank gives none.
probe(used, start) ==
    LET free == {k \in 0 .. BankSize - 1 : (start + k) % BankSize \notin used}
    IN IF free = {} THEN -1 ELSE (start + Min(free)) % BankSize

\* The agents, each by its first task, with the names they get in this order.
assignAgentNames(tasks) ==
    LET firsts == firstTasks(tasks)
        last == lastOf(tasks)
        names[n \in 0 .. last] ==
            IF n = 0 THEN {}
            ELSE LET given == names[n - 1]
                     used == {g.name : g \in given}
                 IN given \cup {[first |-> t, name |-> probe(used, NameStart[t.agentType])] :
                                  t \in {u \in firsts : u.at = n}}
    IN names[last]

mostRestrictiveTier(tasks) == Max({1} \cup {t.tier : t \in tasks})

mostRestrictiveAutonomy(tasks) == Min({2} \cup {t.autonomy : t \in tasks})

\* Compliance work joins the CFO, else Ops, else stands on its own.
complianceAttachesTo(tasks) ==
    LET hints == {t.teamHint : t \in tasks} \ {"compliance"}
    IN CASE "cfo" \in hints -> "cfo"
         [] "cfo" \notin hints /\ "ops" \in hints -> "ops"
         [] OTHER -> "compliance"

\* One agent per agent type; the team is that of the agent's first task.
agentFrom(tasks, first, name) ==
    LET own == tasksOfAgent(tasks, first.agentType)
        hint == first.teamHint
    IN [id |-> first.agentType, name |-> name,
        teamId |-> IF hint = "compliance" THEN complianceAttachesTo(tasks) ELSE hint,
        taskIds |-> idsOf(own),
        tier |-> mostRestrictiveTier(own),
        autonomyDefault |-> mostRestrictiveAutonomy(own),
        hands |-> {t.handsTool : t \in own} \ {NoTool},
        complianceLocked |-> \E t \in own : t.verified]

agentsFrom(tasks) == {agentFrom(tasks, g.first, g.name) : g \in assignAgentNames(tasks)}

toolsOfTeam(agents, teamId) == UNION {a.hands : a \in {b \in agents : b.teamId = teamId}}

\* The CFO's own tools and those for clients never overlap.
validateHandsScopeSeparation(agents) ==
    toolsOfTeam(agents, "cfo") \cap toolsOfTeam(agents, "delivery") = {}

\* Every compliance task asks for a professional's verification.
validateComplianceMetadata(tasks) ==
    \A t \in tasks : t.teamHint = "compliance" => t.verified

\* assembleOrgChart's checks, in their order: which error it throws, if any.
assembleError(tasks) ==
    IF ~validateHandsScopeSeparation(agentsFrom(tasks)) THEN "hands-scope"
    ELSE IF ~validateComplianceMetadata(tasks) THEN "compliance" ELSE "none"
==============================================================================
