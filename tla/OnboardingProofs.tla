-------------------------- MODULE OnboardingProofs --------------------------
(***************************************************************************)
(* Theorems about the machines between an idea and a running company: the  *)
(* budget and the chart of an extraction run, the signup batches with      *)
(* their money and their claim, and the charter with the schedule it       *)
(* installs.  They share no state, and each part of this module speaks of  *)
(* one of them, for every value of its constants.                          *)
(***************************************************************************)
EXTENDS Extraction, Signup, CharterSchedule, FiniteSetTheorems, NaturalsInduction, TLAPS

-----------------------------------------------------------------------------
(* The budget of an extraction run.                                          *)

ExtractionSpec == ExtractionInit /\ [][ExtractionNext]_extractionVars

\* Nothing is accounted for before the customize call.
SpendInv ==
  /\ accounted \in Nat
  /\ accounted <= MaxCost + Slack
  /\ stage \in {"idea", "selected"} => accounted = 0

\* The amounts of the budget are natural numbers.
LEMMA BudgetConstants ==
  /\ MaxCost \in Nat /\ Slack \in Nat
  /\ CustomizeEstimate \in Nat /\ ValidateEstimate \in Nat /\ BatchEstimate \in Nat
BY ExtractionAssumption

\* Each step accounts for at most one call, let through by its estimate.
LEMMA SpendStep == SpendInv /\ [ExtractionNext]_extractionVars => SpendInv'
<1> SUFFICES ASSUME SpendInv, [ExtractionNext]_extractionVars PROVE SpendInv'
  OBVIOUS
<1> USE BudgetConstants DEF SpendInv
<1>1. CASE Select
  BY <1>1 DEF Select
<1>2. CASE runCustomizePass
  <2>1. stage = "selected" /\ accounted = 0 /\ stage' \in {"customized", "failed"}
    BY <1>2 DEF runCustomizePass, customizeAnswers
  <2>2. \/ accounted' = accounted
        \/ /\ CustomizeEstimate <= MaxCost
           /\ \E cost \in 1 .. CustomizeEstimate + Slack : accounted' = accounted + cost
    BY <1>2 DEF runCustomizePass, customizeAnswers, guardEstimatedCost, Billed
  <2>3. QED
    BY <2>1, <2>2
<1>3. CASE Validate
  <2>1. stage' = "validated"
    BY <1>3 DEF Validate
  <2>2. \/ accounted' = accounted
        \/ /\ ValidateEstimate <= MaxCost - accounted
           /\ \E cost \in 1 .. ValidateEstimate + Slack : accounted' = accounted + cost
    BY <1>3 DEF Validate, validateSkipped, validateCategories, validateThrows,
       guardEstimatedCost, remainingBudget, Billed
  <2>3. QED
    BY <2>1, <2>2
<1>4. CASE assembleOrgChart
  <2>1. accounted' = accounted /\ stage' \in {"assembled", "failed"}
    BY <1>4 DEF assembleOrgChart, revertCorrections
  <2>2. QED
    BY <2>1
<1>5. CASE generateOnboardingBatch
  <2>1. stage' \in {"done", "failed"}
    BY <1>5 DEF generateOnboardingBatch
  <2>2. \/ accounted' = accounted
        \/ /\ BatchEstimate <= MaxCost - accounted
           /\ \E cost \in 1 .. BatchEstimate + Slack : accounted' = accounted + cost
    BY <1>5 DEF generateOnboardingBatch, guardEstimatedCost, batchRemainingBudget, Billed
  <2>3. QED
    BY <2>1, <2>2
<1>6. CASE UNCHANGED extractionVars
  BY <1>6 DEF extractionVars
<1>7. QED
  BY <1>1, <1>2, <1>3, <1>4, <1>5, <1>6 DEF ExtractionNext

\* Whatever the calls are billed: what a run has accounted for exceeds its cap by
\* no more than the error of one estimate.
THEOREM SpendWithinCap == ExtractionSpec => []AccountedSpendWithinCap
<1>1. ExtractionInit => SpendInv
  BY BudgetConstants DEF ExtractionInit, SpendInv
<1>2. SpendInv => AccountedSpendWithinCap
  BY DEF SpendInv, AccountedSpendWithinCap
<1>3. QED
  BY <1>1, <1>2, SpendStep, PTL DEF ExtractionSpec

-----------------------------------------------------------------------------
(* The chart of an extraction run: naming, selection, assembly and log.      *)

\* A set of numbers has a least one.
LEMMA LeastNumber ==
  ASSUME NEW S \in SUBSET Nat, S # {}
  PROVE  \E m \in S : \A y \in S : m <= y
<1>1. PICK m \in S : \A y \in S : ~(<<y, m>> \in OpToRel(<, Nat))
  BY WFMin, NatLessThanWellFounded
<1>2. \A y \in S : ~(y < m)
  BY <1>1 DEF OpToRel
<1>3. \A y \in S : m <= y
  <2>1. m \in Nat /\ \A y \in S : y \in Nat
    OBVIOUS
  <2>2. QED
    BY <1>2, <2>1
<1>4. QED
  BY <1>3

\* What holds of 0 and of the successors of its members holds of every number.
LEMMA EveryNumber ==
  ASSUME NEW S, 0 \in S, \A n \in Nat : n \in S => n + 1 \in S
  PROVE  \A n \in Nat : n \in S
<1> SUFFICES ASSUME Nat \ S # {} PROVE FALSE
  OBVIOUS
<1>1. PICK m \in Nat \ S : \A y \in Nat \ S : m <= y
  <2>1. Nat \ S \in SUBSET Nat
    OBVIOUS
  <2>2. QED
    BY <2>1, LeastNumber
<1>2. m - 1 \in Nat /\ m - 1 + 1 = m /\ ~(m <= m - 1)
  BY <1>1
<1>3. m - 1 \in S
  BY <1>1, <1>2
<1>4. QED
  BY <1>1, <1>2, <1>3

\* A bounded set of numbers has a greatest one, and Max finds it.
LEMMA GreatestNumber ==
  ASSUME NEW S \in SUBSET Nat, S # {}, NEW b \in Nat, \A x \in S : x <= b
  PROVE  Max(S) \in S /\ \A y \in S : y <= Max(S)
<1>1. PICK U : U = {u \in Nat : \A x \in S : x <= u}
  OBVIOUS
<1>2. PICK m \in U : \A u \in U : m <= u
  BY <1>1, LeastNumber
<1>3. m \in Nat /\ \A x \in S : x <= m
  BY <1>1, <1>2
<1>4. m \in S
  <2>1. SUFFICES ASSUME m \notin S PROVE FALSE
    OBVIOUS
  <2>2. \A x \in S : x <= m - 1 /\ 0 < m
    <3>1. TAKE x \in S
    <3>2. x \in Nat /\ x <= m /\ x # m
      BY <1>3, <2>1
    <3>3. QED
      BY <1>3, <3>2
  <2>3. m - 1 \in U
    <3>1. \E x \in S : x \in Nat
      OBVIOUS
    <3>2. 0 < m
      BY <2>2, <3>1
    <3>3. m - 1 \in Nat
      BY <1>3, <3>2
    <3>4. QED
      BY <1>1, <2>2, <3>3
  <2>4. ~(m <= m - 1)
    BY <1>3
  <2>5. QED
    BY <1>2, <2>3, <2>4
<1>5. \E x \in S : \A y \in S : y <= x
  BY <1>3, <1>4
<1>6. QED
  BY <1>5 DEF Max

LEMMA LeastIsMin ==
  ASSUME NEW S \in SUBSET Nat, S # {}
  PROVE  Min(S) \in S /\ \A y \in S : Min(S) <= y
<1>1. \E x \in S : \A y \in S : x <= y
  BY LeastNumber
<1>2. QED
  BY <1>1 DEF Min

\* Going around a bank of n.
LEMMA WrapsFrom ==
  ASSUME NEW n \in Nat \ {0}, NEW s \in 0 .. n - 1, NEW k \in 0 .. n - 1
  PROVE  (s + k) % n = IF s + k < n THEN s + k ELSE s + k - n
<1>1. CASE s + k < n
  <2>1. s + k \in 0 .. n - 1
    BY <1>1
  <2>2. QED
    BY <1>1, <2>1
<1>2. CASE ~(s + k < n)
  BY <1>2
<1>3. QED
  BY <1>1, <1>2

\* The first name free at or after the start: it is none of those in use.
LEMMA ProbeFindsFreeName ==
  ASSUME NEW used, IsFiniteSet(used), Cardinality(used) < BankSize, NEW hash \in 0 .. BankSize - 1
  PROVE  probe(used, hash) \in (0 .. BankSize - 1) \ used
<1>0. BankSize \in Nat \ {0} /\ hash \in Nat /\ hash < BankSize
  BY NameAssumption
<1>1. PICK free : free = {k \in 0 .. BankSize - 1 : (hash + k) % BankSize \notin used}
  OBVIOUS
<1>2. \A k \in 0 .. BankSize - 1 : (hash + k) % BankSize \in 0 .. BankSize - 1
  <2>1. TAKE k \in 0 .. BankSize - 1
  <2>3. (hash + k) % BankSize = IF hash + k < BankSize THEN hash + k ELSE hash + k - BankSize
    BY <1>0, WrapsFrom, Zenon
  <2>4. QED
    BY <1>0, <2>3
<1>3. free # {}
  <2>1. SUFFICES ASSUME free = {} PROVE FALSE
    OBVIOUS
  <2>2. \A x \in 0 .. BankSize - 1 : x \in used
    <3> TAKE x \in 0 .. BankSize - 1
    <3>1. x \in Nat /\ x < BankSize
      BY <1>0
    <3>2. (IF hash <= x THEN x - hash ELSE x - hash + BankSize) \in 0 .. BankSize - 1
      BY <1>0, <3>1
    <3>3. PICK k \in 0 .. BankSize - 1 : k = IF hash <= x THEN x - hash ELSE x - hash + BankSize
      BY <3>2
    <3>4. (hash + k) % BankSize = IF hash + k < BankSize THEN hash + k ELSE hash + k - BankSize
      BY <1>0, WrapsFrom, Zenon
    <3>5. (IF hash + k < BankSize THEN hash + k ELSE hash + k - BankSize) = x
      BY <1>0, <3>1, <3>3
    <3>6. QED
      BY <1>1, <2>1, <3>4, <3>5, Zenon
  <2>3. Cardinality(0 .. BankSize - 1) = BankSize /\ IsFiniteSet(0 .. BankSize - 1)
    <3>1. 0 \in Int /\ BankSize - 1 \in Int /\ ~(0 > BankSize - 1) /\ BankSize - 1 - 0 + 1 = BankSize
      BY <1>0
    <3>2. QED
      BY <3>1, FS_Interval
  <2>4. (0 .. BankSize - 1) \subseteq used
    BY <2>2
  <2>5. Cardinality(0 .. BankSize - 1) <= Cardinality(used)
    BY <2>4, FS_Subset, Zenon
  <2>6. Cardinality(used) \in Nat
    BY FS_CardinalityType
  <2>7. QED
    BY <1>0, <2>3, <2>5, <2>6
<1>4. Min(free) \in free
  <2>1. free \in SUBSET Nat
    BY <1>0, <1>1
  <2>2. QED
    BY <1>3, <2>1, LeastIsMin
<1>5. probe(used, hash) = (hash + Min(free)) % BankSize
  BY <1>1, <1>3, Zenon DEF probe
<1>6. QED
  BY <1>1, <1>2, <1>4, <1>5

\* The names given at the first n places, as assignAgentNames computes them.
NamesBody(tasks, names, n) ==
  IF n = 0 THEN {}
  ELSE names[n - 1] \cup {[first |-> t, name |-> probe({g.name : g \in names[n - 1]}, NameStart[t.agentType])] :
                            t \in {u \in firstTasks(tasks) : u.at = n}}

\* There is such a function, up to every place.
LEMMA NamesDefined ==
  ASSUME NEW tasks, NEW last \in Nat
  PROVE  \E f : f = [n \in 0 .. last |-> NamesBody(tasks, f, n)]
<1>1. PICK S : S = {m \in Nat : \E f : f = [n \in 0 .. m |-> NamesBody(tasks, f, n)]}
  OBVIOUS
<1>2. 0 \in S
  <2>1. PICK f : f = [n \in 0 .. 0 |-> {}]
    OBVIOUS
  <2>2. \A n \in 0 .. 0 : n = 0
    OBVIOUS
  <2>3. \A n \in 0 .. 0 : NamesBody(tasks, f, n) = {}
    BY <2>2 DEF NamesBody
  <2>4. f = [n \in 0 .. 0 |-> NamesBody(tasks, f, n)]
    BY <2>1, <2>3
  <2>5. QED
    BY <1>1, <2>4
<1>3. ASSUME NEW m \in Nat, m \in S PROVE m + 1 \in S
  <2>1. PICK f : f = [n \in 0 .. m |-> NamesBody(tasks, f, n)]
    BY <1>1, <1>3
  <2>2. PICK v : v = NamesBody(tasks, f, m + 1)
    OBVIOUS
  <2>3. PICK h : h = [n \in 0 .. m + 1 |-> IF n = m + 1 THEN v ELSE f[n]]
    OBVIOUS
  <2>4. \A n \in 0 .. m : h[n] = f[n]
    <3>1. \A n \in 0 .. m : n \in 0 .. m + 1 /\ n # m + 1
      OBVIOUS
    <3>2. QED
      BY <2>3, <3>1
  <2>5. \A n \in 0 .. m + 1 : NamesBody(tasks, h, n) = NamesBody(tasks, f, n)
    <3>1. TAKE n \in 0 .. m + 1
    <3>2. n = 0 \/ n - 1 \in 0 .. m
      OBVIOUS
    <3>3. n = 0 \/ h[n - 1] = f[n - 1]
      BY <2>4, <3>2
    <3>4. QED
      BY <3>3 DEF NamesBody
  <2>6. \A n \in 0 .. m + 1 : h[n] = NamesBody(tasks, h, n)
    <3>1. TAKE n \in 0 .. m + 1
    <3>2. CASE n = m + 1
      BY <2>2, <2>3, <2>5, <3>2
    <3>3. CASE n # m + 1
      <4>1. n \in 0 .. m
        BY <3>3
      <4>2. QED
        BY <2>1, <2>4, <2>5, <4>1
    <3>4. QED
      BY <3>2, <3>3
  <2>7. h = [n \in 0 .. m + 1 |-> NamesBody(tasks, h, n)]
    BY <2>3, <2>6
  <2>8. QED
    BY <1>1, <2>7
<1>4. last \in S
  BY <1>2, <1>3, EveryNumber
<1>5. QED
  BY <1>1, <1>4

LEMMA NamesUnfold ==
  ASSUME NEW tasks, lastOf(tasks) \in Nat
  PROVE  \E names : /\ names = [n \in 0 .. lastOf(tasks) |-> NamesBody(tasks, names, n)]
                    /\ assignAgentNames(tasks) = names[lastOf(tasks)]
<1>1. PICK last : last = lastOf(tasks)
  OBVIOUS
<1>2. PICK names : names = CHOOSE f : f = [n \in 0 .. last |-> NamesBody(tasks, f, n)]
  OBVIOUS
<1>3. names = [n \in 0 .. last |-> NamesBody(tasks, names, n)]
  <2>1. last \in Nat
    BY <1>1
  <2>2. \E f : f = [n \in 0 .. last |-> NamesBody(tasks, f, n)]
    BY <2>1, NamesDefined, Zenon
  <2>3. QED
    BY <1>2, <2>2, Zenon
<1>4. assignAgentNames(tasks) = names[last]
  BY <1>1, <1>2 DEF assignAgentNames, NamesBody
<1>5. QED
  BY <1>1, <1>3, <1>4

\* A list: its places are numbers up to b, one task at each.
IsList(tasks, b) ==
  /\ IsFiniteSet(tasks)
  /\ \A t \in tasks : t.at \in 1 .. b
  /\ \A t, u \in tasks : t.at = u.at => t = u

LEMMA LastPlace ==
  ASSUME NEW tasks, NEW b \in Nat, IsList(tasks, b)
  PROVE  lastOf(tasks) \in 0 .. b /\ \A t \in tasks : t.at \in 1 .. lastOf(tasks)
<1>1. PICK S : S = {0} \cup {t.at : t \in tasks}
  OBVIOUS
<1>2. S \in SUBSET Nat /\ S # {} /\ \A x \in S : x <= b
  BY <1>1 DEF IsList
<1>3. PICK m : m = Max(S)
  OBVIOUS
<1>4. lastOf(tasks) = m /\ m \in S /\ \A y \in S : y <= m
  BY <1>1, <1>2, <1>3, GreatestNumber DEF lastOf
<1>5. m \in 0 .. b
  BY <1>2, <1>4
<1>6. \A t \in tasks : t.at \in S /\ t.at \in 1 .. b
  BY <1>1 DEF IsList
<1>7. QED
  BY <1>4, <1>5, <1>6

\* An agent type has one first task.
LEMMA OneFirst ==
  ASSUME NEW tasks, NEW b \in Nat, IsList(tasks, b), NEW t \in firstTasks(tasks),
         NEW u \in firstTasks(tasks), t.agentType = u.agentType
  PROVE  t = u
<1>1. t \in tasks /\ u \in tasks /\ ~(u.at < t.at) /\ ~(t.at < u.at)
  BY DEF firstTasks
<1>2. t.at \in 1 .. b /\ u.at \in 1 .. b
  BY <1>1 DEF IsList
<1>3. t.at = u.at
  BY <1>1, <1>2
<1>4. QED
  BY <1>1, <1>3 DEF IsList

\* The names given at the first n places: to the agents whose first task is there, and apart.
NamedApart(tasks, given, n) ==
  /\ given \subseteq [first : firstTasks(tasks), name : 0 .. BankSize - 1]
  /\ \A g \in given : g.first.at <= n
  /\ \A t \in firstTasks(tasks) : t.at <= n => \E g \in given : g.first = t
  /\ \A g, h \in given : g.name = h.name \/ g.first = h.first => g = h

\* Before the next agent is named some name is free: every name in use is another type's.
LEMMA NameIsFree ==
  ASSUME NEW tasks, NEW b \in Nat, IsList(tasks, b), Cardinality(agentTypesOf(tasks)) <= BankSize,
         NEW n \in Nat, NEW given, NamedApart(tasks, given, n),
         NEW t \in firstTasks(tasks), t.at = n + 1
  PROVE  /\ IsFiniteSet({g.name : g \in given})
         /\ Cardinality({g.name : g \in given}) < BankSize
<1>1. PICK types : types = agentTypesOf(tasks)
  OBVIOUS
<1>2. IsFiniteSet(types)
  <2>1. PICK f : f = [u \in tasks |-> u.agentType]
    OBVIOUS
  <2>2. f \in Surjection(tasks, types)
    BY <1>1, <2>1 DEF Surjection, agentTypesOf
  <2>3. QED
    BY <2>2, FS_Surjection DEF IsList
<1>3. PICK taken : taken = {g.first.agentType : g \in given}
  OBVIOUS
<1>4. PICK used : used = {g.name : g \in given}
  OBVIOUS
<1>5. taken \subseteq types /\ t.agentType \in types
  BY <1>1, <1>3 DEF NamedApart, firstTasks, agentTypesOf
<1>6. t.agentType \notin taken
  <2>1. SUFFICES ASSUME NEW g \in given, g.first.agentType = t.agentType PROVE FALSE
    BY <1>3
  <2>2. g.first \in firstTasks(tasks) /\ g.first.at <= n
    BY DEF NamedApart
  <2>3. g.first = t
    BY <2>1, <2>2, OneFirst
  <2>4. QED
    BY <2>2, <2>3
<1>7. taken \subseteq types \ {t.agentType}
  BY <1>5, <1>6
<1>8. /\ IsFiniteSet(types \ {t.agentType})
      /\ Cardinality(types \ {t.agentType}) = Cardinality(types) - 1
  BY <1>2, <1>5, FS_RemoveElement
<1>9. IsFiniteSet(taken) /\ Cardinality(taken) <= Cardinality(types \ {t.agentType})
  BY <1>7, <1>8, FS_Subset, Zenon
<1>10. PICK f : f = [a \in taken |-> (CHOOSE g \in given : g.first.agentType = a).name]
  OBVIOUS
<1>11. \A g \in given : f[g.first.agentType] = g.name
  <2>1. TAKE g \in given
  <2>2. PICK h : h = CHOOSE x \in given : x.first.agentType = g.first.agentType
    OBVIOUS
  <2>3. h \in given /\ h.first.agentType = g.first.agentType
    BY <2>2
  <2>4. h.first = g.first
    BY <2>3, OneFirst DEF NamedApart
  <2>5. h = g
    BY <2>3, <2>4 DEF NamedApart
  <2>6. g.first.agentType \in taken
    BY <1>3
  <2>7. QED
    BY <1>10, <2>2, <2>5, <2>6
<1>12. f \in Surjection(taken, used)
  <2>1. \A a \in taken : f[a] \in used
    BY <1>3, <1>4, <1>11
  <2>2. \A x \in used : \E a \in taken : f[a] = x
    BY <1>3, <1>4, <1>11
  <2>3. QED
    BY <1>10, <2>1, <2>2 DEF Surjection
<1>13. IsFiniteSet(used) /\ Cardinality(used) <= Cardinality(taken)
  BY <1>9, <1>12, FS_Surjection
<1>14. /\ Cardinality(types) \in Nat /\ Cardinality(taken) \in Nat /\ Cardinality(used) \in Nat
       /\ BankSize \in Nat
  BY <1>2, <1>9, <1>13, FS_CardinalityType, NameAssumption
<1>15. Cardinality(used) < BankSize
  BY <1>1, <1>8, <1>9, <1>13, <1>14
<1>16. QED
  BY <1>4, <1>13, <1>15

\* One more place: the first task there, if there is one, gets a name nobody has.
LEMMA OneMoreName ==
  ASSUME NEW tasks, NEW b \in Nat, IsList(tasks, b), Cardinality(agentTypesOf(tasks)) <= BankSize,
         agentTypesOf(tasks) \subseteq DOMAIN NameStart,
         NEW n \in Nat, NEW given, NamedApart(tasks, given, n), NEW more,
         more = given \cup {[first |-> t, name |-> probe({g.name : g \in given}, NameStart[t.agentType])] :
                              t \in {u \in firstTasks(tasks) : u.at = n + 1}}
  PROVE  NamedApart(tasks, more, n + 1)
<1>0. \A t \in firstTasks(tasks) : t \in tasks /\ t.at \in 1 .. b
  BY DEF firstTasks, IsList
<1>1. CASE \A t \in firstTasks(tasks) : t.at # n + 1
  <2>1. more = given
    BY <1>1
  <2>2. \A t \in firstTasks(tasks) : t.at <= n + 1 => t.at <= n
    BY <1>0, <1>1
  <2>3. \A g \in given : g.first.at <= n + 1
    <3>1. \A g \in given : g.first.at \in 1 .. b /\ g.first.at <= n
      BY <1>0 DEF NamedApart
    <3>2. QED
      BY <3>1
  <2>4. QED
    BY <2>1, <2>2, <2>3 DEF NamedApart
<1>2. CASE \E t \in firstTasks(tasks) : t.at = n + 1
  <2>1. PICK t \in firstTasks(tasks) : t.at = n + 1
    BY <1>2
  <2>2. \A u \in firstTasks(tasks) : u.at = n + 1 => u = t
    BY <1>0, <2>1 DEF IsList
  <2>3. PICK used : used = {g.name : g \in given}
    OBVIOUS
  <2>4. IsFiniteSet(used) /\ Cardinality(used) < BankSize
    BY <2>1, <2>3, NameIsFree
  <2>5. NameStart[t.agentType] \in 0 .. BankSize - 1
    BY <1>0, NameAssumption DEF agentTypesOf
  <2>6. PICK x : x = probe(used, NameStart[t.agentType])
    OBVIOUS
  <2>7. x \in 0 .. BankSize - 1 /\ x \notin used
    BY <2>4, <2>5, <2>6, ProbeFindsFreeName
  <2>8. PICK new : new = [first |-> t, name |-> x]
    OBVIOUS
  <2>9. more = given \cup {new}
    BY <2>1, <2>2, <2>3, <2>6, <2>8
  <2>10. \A g \in given : g.name # x /\ g.first # t
    <3>1. \A g \in given : g.name \in used
      BY <2>3
    <3>2. \A g \in given : g.first.at <= n
      BY DEF NamedApart
    <3>3. QED
      BY <2>1, <2>7, <3>1, <3>2
  <2>11. more \subseteq [first : firstTasks(tasks), name : 0 .. BankSize - 1]
    <3>1. new \in [first : firstTasks(tasks), name : 0 .. BankSize - 1]
      BY <2>7, <2>8
    <3>2. given \subseteq [first : firstTasks(tasks), name : 0 .. BankSize - 1]
      BY DEF NamedApart
    <3>3. QED
      BY <2>9, <3>1, <3>2, Zenon
  <2>12. \A g \in more : g.first.at <= n + 1
    <3>1. \A g \in given : g.first.at \in 1 .. b /\ g.first.at <= n
      BY <1>0 DEF NamedApart
    <3>2. \A g \in given : g.first.at <= n + 1
      BY <3>1
    <3>3. new.first.at <= n + 1
      BY <2>1, <2>8
    <3>4. QED
      BY <2>9, <3>2, <3>3
  <2>13. \A u \in firstTasks(tasks) : u.at <= n + 1 => \E g \in more : g.first = u
    <3>1. TAKE u \in firstTasks(tasks)
    <3>2. CASE u.at = n + 1
      <4>1. u = t /\ new.first = t /\ new \in more
        BY <2>2, <2>8, <2>9, <3>2
      <4>2. QED
        BY <4>1
    <3>3. CASE u.at # n + 1
      <4>1. u.at <= n + 1 => u.at <= n
        BY <1>0, <3>3
      <4>2. u.at <= n + 1 => \E g \in given : g.first = u
        BY <4>1 DEF NamedApart
      <4>3. QED
        BY <2>9, <4>2
    <3>4. QED
      BY <3>2, <3>3
  <2>14. \A g, h \in more : g.name = h.name \/ g.first = h.first => g = h
    <3>1. new.name = x /\ new.first = t
      BY <2>8
    <3>2. \A g, h \in given : g.name = h.name \/ g.first = h.first => g = h
      BY DEF NamedApart
    <3>3. QED
      BY <2>9, <2>10, <3>1, <3>2
  <2>15. QED
    BY <2>11, <2>12, <2>13, <2>14 DEF NamedApart
<1>3. QED
  BY <1>1, <1>2

\* Every agent of a chart gets a name of the bank, and no two get the same, whatever the
\* hash makes of their types (assignAgentNames): the bank need only have as many names as
\* there are agent types.
LEMMA NamesApart ==
  ASSUME NEW tasks, NEW b \in Nat, IsList(tasks, b), Cardinality(agentTypesOf(tasks)) <= BankSize,
         agentTypesOf(tasks) \subseteq DOMAIN NameStart
  PROVE  NamedApart(tasks, assignAgentNames(tasks), lastOf(tasks))
<1>1. PICK last \in Nat : last = lastOf(tasks)
  BY LastPlace
<1>2. PICK names : /\ names = [n \in 0 .. last |-> NamesBody(tasks, names, n)]
                   /\ assignAgentNames(tasks) = names[last]
  BY <1>1, NamesUnfold
<1>3. PICK S : S = {n \in Nat : n <= last => NamedApart(tasks, names[n], n)}
  OBVIOUS
<1>4. 0 \in S
  <2>1. names[0] = NamesBody(tasks, names, 0)
    BY <1>1, <1>2
  <2>2. names[0] = {}
    BY <2>1 DEF NamesBody
  <2>3. \A t \in firstTasks(tasks) : ~(t.at <= 0)
    <3>1. \A t \in firstTasks(tasks) : t.at \in 1 .. b
      BY DEF firstTasks, IsList
    <3>2. QED
      BY <3>1
  <2>4. NamedApart(tasks, {}, 0)
    BY <2>3 DEF NamedApart
  <2>5. QED
    BY <1>3, <2>2, <2>4
<1>5. ASSUME NEW n \in Nat, n \in S PROVE n + 1 \in S
  <2>1. SUFFICES ASSUME n + 1 <= last PROVE NamedApart(tasks, names[n + 1], n + 1)
    BY <1>3
  <2>2. n + 1 \in 0 .. last /\ n + 1 # 0 /\ (n + 1) - 1 = n /\ n <= last
    BY <1>1, <2>1
  <2>3. NamedApart(tasks, names[n], n)
    BY <1>3, <1>5, <2>2
  <2>4. names[n + 1] = NamesBody(tasks, names, n + 1)
    BY <1>2, <2>2
  <2>5. names[n + 1] = names[n] \cup
          {[first |-> t, name |-> probe({g.name : g \in names[n]}, NameStart[t.agentType])] :
              t \in {u \in firstTasks(tasks) : u.at = n + 1}}
    BY <2>2, <2>4 DEF NamesBody
  <2>6. PICK given, more : given = names[n] /\ more = names[n + 1]
    OBVIOUS
  <2>7. NamedApart(tasks, more, n + 1)
    BY <2>3, <2>5, <2>6, OneMoreName
  <2>8. QED
    BY <2>6, <2>7
<1>6. last \in S
  BY <1>4, <1>5, EveryNumber
<1>7. QED
  BY <1>1, <1>2, <1>3, <1>6

LEMMA AgentsApart ==
  ASSUME NEW tasks, NEW b \in Nat, IsList(tasks, b), Cardinality(agentTypesOf(tasks)) <= BankSize,
         agentTypesOf(tasks) \subseteq DOMAIN NameStart
  PROVE  \A a, c \in agentsFrom(tasks) : a.name >= 0 /\ (a.name = c.name => a = c)
<1>1. NamedApart(tasks, assignAgentNames(tasks), lastOf(tasks))
  BY NamesApart
<1>2. PICK given : given = assignAgentNames(tasks)
  OBVIOUS
<1>3. \A g, h \in given : g.name \in 0 .. BankSize - 1 /\ (g.name = h.name => g = h)
  BY <1>1, <1>2 DEF NamedApart
<1>4. TAKE a, c \in agentsFrom(tasks)
<1>5. PICK g \in given, h \in given : /\ a = agentFrom(tasks, g.first, g.name)
                                      /\ c = agentFrom(tasks, h.first, h.name)
  BY <1>2 DEF agentsFrom
<1>6. a.name = g.name /\ c.name = h.name
  BY <1>5 DEF agentFrom
<1>7. QED
  BY <1>3, <1>5, <1>6

\* Template selection always answers with a template, and blends another one or none.

LEMMA Ranks ==
  ASSUME NEW id \in BusinessTemplateIds
  PROVE  tiebreakRank(id) \in 1 .. 7 /\ TIEBREAK_PRIORITY[tiebreakRank(id)] = id
<1>1. DOMAIN TIEBREAK_PRIORITY = 1 .. 7
  BY DEF TIEBREAK_PRIORITY
<1>2. \E i \in 1 .. 7 : TIEBREAK_PRIORITY[i] = id
  BY DEF TIEBREAK_PRIORITY, BusinessTemplateIds
<1>3. QED
  BY <1>1, <1>2 DEF tiebreakRank

LEMMA BestTemplate ==
  ASSUME NEW scores \in [BusinessTemplateIds -> Nat], NEW ids \in SUBSET BusinessTemplateIds, ids # {}
  PROVE  /\ bestOf(scores, ids) \in ids
         /\ \A a \in ids : scores[a] <= scores[bestOf(scores, ids)]
<1>1. PICK rank : rank = [a \in ids |-> tiebreakRank(a)]
  OBVIOUS
<1>2. /\ \A a \in ids : rank[a] \in 1 .. 7 /\ rank[a] = tiebreakRank(a) /\ scores[a] \in Nat
      /\ \A a, c \in ids : rank[a] = rank[c] => a = c
  BY <1>1, Ranks
<1>3. PICK bound \in Nat : \A a \in ids : scores[a] <= bound
  <2>1. \A a \in BusinessTemplateIds : scores[a] \in Nat
    OBVIOUS
  <2>2. PICK n : n = scores["ecommerce"] + scores["service"] + scores["saas"] + scores["content"]
                     + scores["local"] + scores["physical-space"] + scores["food-hospitality"]
    OBVIOUS
  <2>3. n \in Nat /\ \A a \in BusinessTemplateIds : scores[a] <= n
    BY <2>1, <2>2 DEF BusinessTemplateIds
  <2>4. QED
    BY <2>3
<1>4. PICK key : key = [a \in ids |-> 8 * scores[a] + 7 - rank[a]]
  OBVIOUS
<1>5. \A a \in ids : key[a] \in Nat /\ key[a] = 8 * scores[a] + 7 - rank[a] /\ key[a] <= 8 * bound + 7
  BY <1>2, <1>3, <1>4
<1>6. PICK keys : keys = {key[a] : a \in ids}
  OBVIOUS
<1>7. keys \in SUBSET Nat /\ keys # {} /\ 8 * bound + 7 \in Nat /\ \A x \in keys : x <= 8 * bound + 7
  BY <1>3, <1>5, <1>6
<1>8. Max(keys) \in keys /\ \A y \in keys : y <= Max(keys)
  BY <1>7, GreatestNumber
<1>9. PICK a \in ids : \A c \in ids : key[c] <= key[a]
  BY <1>6, <1>8
<1>10. \A c \in ids \ {a} : scores[a] > scores[c] \/ (scores[a] = scores[c] /\ tiebreakRank(a) < tiebreakRank(c))
  <2>1. TAKE c \in ids \ {a}
  <2>2. key[c] <= key[a] /\ rank[c] # rank[a]
    BY <1>2, <1>9
  <2>3. QED
    BY <1>2, <1>5, <2>2
<1>11. PICK best : best = bestOf(scores, ids)
  OBVIOUS
<1>12. /\ best \in ids
       /\ \A c \in ids \ {best} : \/ scores[best] > scores[c]
                                  \/ scores[best] = scores[c] /\ tiebreakRank(best) < tiebreakRank(c)
  BY <1>10, <1>11, Zenon DEF bestOf
<1>13. \A c \in ids : scores[c] <= scores[best]
  BY <1>2, <1>12
<1>14. QED
  BY <1>11, <1>12, <1>13

\* Whatever was answered and however often each template's keywords occur, unless the
\* founder chose: the template is one with the best score, and another is blended in
\* exactly when some other template scores at all and comes within 70% of it; it is then
\* the best of the others (selectTemplate).
THEOREM SelectionIsBest ==
  \A answers \in InterviewAnswers, hits \in [BusinessTemplateIds -> Nat] :
    LET chosen == selectTemplate(answers, hits)
        scores == scoresOf(answers, hits)
        others == BusinessTemplateIds \ {chosen.primary}
    IN /\ chosen \in TemplateSelections
       /\ answers.templateDisambiguation = NoTemplate =>
            /\ \A id \in others : scores[id] <= scores[chosen.primary]
            /\ chosen.blendedWith # NoTemplate <=>
                 \E id \in others : scores[id] > 0 /\ closeEnough(scores[id], scores[chosen.primary])
            /\ chosen.blendedWith # NoTemplate =>
                 /\ chosen.blendedWith \in others
                 /\ \A id \in others : scores[id] <= scores[chosen.blendedWith]
<1> TAKE answers \in InterviewAnswers, hits \in [BusinessTemplateIds -> Nat]
<1>1. \A id \in BusinessTemplateIds : structuredScores(answers)[id] \in Nat
  BY DEF structuredScores, deliveryBonus, STRUCTURED_WEIGHT
<1>2. PICK scores : scores \in [BusinessTemplateIds -> Nat] /\ scores = scoresOf(answers, hits)
  <2>1. PICK scores : scores = scoresOf(answers, hits)
    OBVIOUS
  <2>2. scores = [id \in BusinessTemplateIds |-> structuredScores(answers)[id] + hits[id]]
    BY <2>1 DEF scoresOf
  <2>3. \A id \in BusinessTemplateIds : structuredScores(answers)[id] + hits[id] \in Nat
    BY <1>1
  <2>4. scores \in [BusinessTemplateIds -> Nat]
    BY <2>2, <2>3
  <2>5. QED
    BY <2>1, <2>4
<1>3. PICK best : best = bestOf(scores, BusinessTemplateIds)
  OBVIOUS
<1>4. best \in BusinessTemplateIds /\ \A id \in BusinessTemplateIds : scores[id] <= scores[best]
  <2>1. BusinessTemplateIds # {}
    BY DEF BusinessTemplateIds
  <2>2. QED
    BY <1>2, <1>3, <2>1, BestTemplate
<1>5. PICK others : others = BusinessTemplateIds \ {best}
  OBVIOUS
<1>6. PICK second : second = bestOf(scores, others)
  OBVIOUS
<1>7. second \in others /\ \A id \in others : scores[id] <= scores[second]
  <2>1. others \in SUBSET BusinessTemplateIds /\ others # {}
    BY <1>5 DEF BusinessTemplateIds
  <2>2. QED
    BY <1>2, <1>6, <2>1, BestTemplate
<1>8. PICK blended \in BOOLEAN, unsure \in BOOLEAN :
        /\ blended = (scores[best] > 0 /\ scores[second] > 0 /\ closeEnough(scores[second], scores[best]))
        /\ selectTemplate(answers, hits) =
             IF answers.templateDisambiguation # NoTemplate
             THEN [primary |-> answers.templateDisambiguation, blendedWith |-> NoTemplate, lowConfidence |-> FALSE]
             ELSE [primary |-> best, blendedWith |-> IF blended THEN second ELSE NoTemplate, lowConfidence |-> unsure]
  BY <1>2, <1>3, <1>5, <1>6 DEF selectTemplate
<1>9. PICK chosen : chosen = selectTemplate(answers, hits)
  OBVIOUS
<1>10. second \in BusinessTemplateIds /\ second # NoTemplate
  BY <1>5, <1>7 DEF BusinessTemplateIds, NoTemplate
<1>11. CASE answers.templateDisambiguation # NoTemplate
  <2>1. answers.templateDisambiguation \in BusinessTemplateIds
    BY <1>11 DEF InterviewAnswers
  <2>2. chosen \in TemplateSelections
    BY <1>8, <1>9, <1>11, <2>1 DEF TemplateSelections
  <2>3. QED
    BY <1>9, <1>11, <2>2
<1>12. CASE answers.templateDisambiguation = NoTemplate
  <2>1. chosen = [primary |-> best, blendedWith |-> IF blended THEN second ELSE NoTemplate, lowConfidence |-> unsure]
    BY <1>8, <1>9, <1>12
  <2>2. chosen \in TemplateSelections /\ chosen.primary = best
    BY <1>4, <1>10, <2>1 DEF TemplateSelections
  <2>3. chosen.blendedWith # NoTemplate <=> blended = TRUE
    BY <1>10, <2>1
  <2>4. \A id \in others : /\ scores[id] \in Nat /\ scores[best] \in Nat /\ scores[second] \in Nat
                           /\ scores[id] <= scores[best] /\ scores[id] <= scores[second]
    BY <1>2, <1>4, <1>5, <1>7, <1>10
  <2>5. blended = TRUE <=> \E id \in others : scores[id] > 0 /\ closeEnough(scores[id], scores[best])
    <3>1. blended = TRUE <=> scores[second] > 0 /\ 10 * scores[second] >= 7 * scores[best] /\ scores[best] > 0
      BY <1>8 DEF closeEnough
    <3>2. scores[second] \in Nat /\ scores[best] \in Nat /\ scores[second] <= scores[best]
      BY <1>7, <2>4
    <3>3. ASSUME NEW id \in others, scores[id] > 0, 10 * scores[id] >= 7 * scores[best]
          PROVE  scores[second] > 0 /\ 10 * scores[second] >= 7 * scores[best] /\ scores[best] > 0
      BY <2>4, <3>2, <3>3
    <3>4. (\E id \in others : scores[id] > 0 /\ 10 * scores[id] >= 7 * scores[best])
            <=> scores[second] > 0 /\ 10 * scores[second] >= 7 * scores[best] /\ scores[best] > 0
      BY <1>7, <3>2, <3>3
    <3>5. QED
      BY <3>1, <3>4 DEF closeEnough
  <2>6. chosen.blendedWith # NoTemplate => chosen.blendedWith = second
    BY <2>1
  <2>7. QED
    BY <1>2, <1>5, <1>7, <1>9, <2>2, <2>3, <2>4, <2>5, <2>6
<1>13. QED
  BY <1>11, <1>12

\* The lists of a run.

LEMMA Listed ==
  ASSUME NEW s, Len(s) \in Nat, NEW from \in Nat
  PROVE  /\ IsFiniteSet(listed(s, from))
         /\ \A t \in listed(s, from) : t.at \in Nat /\ from < t.at /\ t.at <= from + Len(s)
         /\ \A t, u \in listed(s, from) : t.at = u.at => t = u
<1>1. PICK n \in Nat : n = Len(s)
  OBVIOUS
<1>2. PICK f : f = [i \in 1 .. n |-> placed(s[i], from + i)]
  OBVIOUS
<1>3. PICK list : list = listed(s, from)
  OBVIOUS
<1>4. list = {f[i] : i \in 1 .. n}
  BY <1>1, <1>2, <1>3 DEF listed
<1>5. \A i \in 1 .. n : f[i].at = from + i
  BY <1>2 DEF placed
<1>6. IsFiniteSet(list)
  <2>1. f \in Surjection(1 .. n, list)
    BY <1>2, <1>4 DEF Surjection
  <2>2. IsFiniteSet(1 .. n)
    BY FS_Interval
  <2>3. QED
    BY <2>1, <2>2, FS_Surjection
<1>7. \A i \in 1 .. n : i \in Nat /\ from < from + i /\ from + i <= from + n /\ from + i \in Nat
  OBVIOUS
<1>8. \A t \in list : t.at \in Nat /\ from < t.at /\ t.at <= from + n
  BY <1>4, <1>5, <1>7
<1>9. \A t, u \in list : t.at = u.at => t = u
  <2>1. \A i, j \in 1 .. n : from + i = from + j => i = j
    OBVIOUS
  <2>2. QED
    BY <1>4, <1>5, <2>1
<1>10. QED
  BY <1>1, <1>3, <1>6, <1>8, <1>9

\* The base of any selection is a list.
LEMMA BaseIsList ==
  ASSUME NEW chosen \in TemplateSelections
  PROVE  \E b \in Nat : IsList(baseTasksOf(chosen), b)
<1>1. PICK primary : primary = allTemplates[chosen.primary]
  OBVIOUS
<1>2. PICK n \in Nat : n = Len(primary)
  BY <1>1, TemplatesAssumption DEF TemplateSelections
<1>3. PICK own : own = listed(primary, 0)
  OBVIOUS
<1>4. PICK other : other = IF chosen.blendedWith = NoTemplate THEN {} ELSE listed(allTemplates[chosen.blendedWith], n)
  OBVIOUS
<1>5. /\ IsFiniteSet(own) /\ \A t \in own : t.at \in Nat /\ 0 < t.at /\ t.at <= n
      /\ \A t, u \in own : t.at = u.at => t = u
  BY <1>2, <1>3, Listed
<1>6. PICK m \in Nat : /\ IsFiniteSet(other)
                       /\ \A t \in other : t.at \in Nat /\ n < t.at /\ t.at <= n + m
                       /\ \A t, u \in other : t.at = u.at => t = u
  <2>1. CASE chosen.blendedWith = NoTemplate
    <3>1. other = {}
      BY <1>4, <2>1
    <3>2. QED
      BY <3>1, FS_EmptySet
  <2>2. CASE chosen.blendedWith # NoTemplate
    <3>1. PICK s : s = allTemplates[chosen.blendedWith]
      OBVIOUS
    <3>2. Len(s) \in Nat
      BY <2>2, <3>1, TemplatesAssumption DEF TemplateSelections
    <3>3. other = listed(s, n)
      BY <1>4, <2>2, <3>1
    <3>4. QED
      BY <3>2, <3>3, Listed
  <2>3. QED
    BY <2>1, <2>2
<1>7. PICK rest : rest = {t \in other : t.id \notin idsOf(own)}
  OBVIOUS
<1>8. PICK base : base = own \cup rest
  OBVIOUS
<1>9. baseTasksOf(chosen) = base
  BY <1>1, <1>2, <1>3, <1>4, <1>7, <1>8 DEF baseTasksOf
<1>10. IsFiniteSet(base)
  <2>1. IsFiniteSet(rest)
    <3>1. rest \subseteq other
      BY <1>7
    <3>2. QED
      BY <1>6, <3>1, FS_Subset, Zenon
  <2>2. QED
    BY <1>5, <1>8, <2>1, FS_Union
<1>11. \A t \in base : t.at \in 1 .. n + m
  <2>1. \A t \in base : t.at \in Nat /\ 0 < t.at /\ t.at <= n + m
    <3>1. \A t \in own : t.at \in Nat /\ 0 < t.at /\ t.at <= n + m
      BY <1>5
    <3>2. \A t \in rest : t.at \in Nat /\ 0 < t.at /\ t.at <= n + m
      BY <1>6, <1>7
    <3>3. QED
      BY <1>8, <3>1, <3>2
  <2>2. QED
    BY <2>1
<1>12. \A t, u \in base : t.at = u.at => t = u
  <2>1. \A t \in own, u \in rest : t.at # u.at
    <3>1. TAKE t \in own, u \in rest
    <3>2. t.at \in Nat /\ t.at <= n /\ u.at \in Nat /\ n < u.at
      BY <1>5, <1>6, <1>7
    <3>3. QED
      BY <3>2
  <2>2. \A t, u \in rest : t.at = u.at => t = u
    BY <1>6, <1>7
  <2>3. QED
    BY <1>5, <1>8, <2>1, <2>2
<1>13. n + m \in Nat
  OBVIOUS
<1>14. QED
  BY <1>9, <1>10, <1>11, <1>12, <1>13 DEF IsList

\* What the customize pass may add.
AddedSeqs == UNION {[1 .. n -> Additions] : n \in 0 .. MaxAdded}

\* The added tasks follow the base, one place each.
AddedAfter(h, last) ==
  \E n \in 0 .. MaxAdded : \E f :
     /\ addedTasks(h) = {f[i] : i \in 1 .. n} /\ f = [i \in 1 .. n |-> f[i]]
     /\ \A i \in 1 .. n : /\ f[i].at = last + i /\ f[i].agentType = added[i].agentType
                          /\ added[i] \in Additions

LEMMA AddedPlaces ==
  ASSUME added \in AddedSeqs, NEW h, NEW last \in Nat, last = lastOf(baseTasks)
  PROVE  AddedAfter(h, last)
<1>1. PICK n \in 0 .. MaxAdded : added \in [1 .. n -> Additions]
  BY DEF AddedSeqs
<1>3. PICK f : f = [i \in 1 .. n |->
                      placed(Task(AddedIds[i], added[i].agentType, h[i], added[i].tier, added[i].autonomy,
                                  added[i].handsTool, added[i].verified,
                                  deriveScheduleMetadata(added[i].frequency, added[i].keyword)[1],
                                  deriveScheduleMetadata(added[i].frequency, added[i].keyword)[2]), last + i)]
  OBVIOUS
<1>4. addedTasks(h) = {f[i] : i \in 1 .. n}
  BY <1>1, <1>3 DEF addedTasks
<1>5. \A i \in 1 .. n : f[i].at = last + i /\ f[i].agentType = added[i].agentType
  BY <1>3 DEF placed, Task
<1>6. f = [i \in 1 .. n |-> f[i]]
  BY <1>3
<1>7. \A i \in 1 .. n : /\ f[i].at = last + i /\ f[i].agentType = added[i].agentType
                        /\ added[i] \in Additions
  BY <1>1, <1>5
<1>8. QED
  BY <1>4, <1>6, <1>7, Zenon DEF AddedAfter

\* The tasks of a finished run are a list, and the bank has a name for each of its agents.
LEMMA FinalIsList ==
  ASSUME selection \in TemplateSelections, added \in AddedSeqs, NEW h
  PROVE  /\ \E b \in Nat : IsList(finalTasks(h), b)
         /\ agentTypesOf(finalTasks(h)) \subseteq DOMAIN NameStart
         /\ Cardinality(agentTypesOf(finalTasks(h))) <= BankSize
<1>1. PICK base : base = baseTasks
  OBVIOUS
<1>2. PICK b \in Nat : IsList(base, b)
  BY <1>1, BaseIsList DEF baseTasks
<1>3. PICK last \in 0 .. b : last = lastOf(base) /\ \A t \in base : t.at \in 1 .. last
  BY <1>2, LastPlace
<1>3a. PICK n \in 0 .. MaxAdded : \E f :
        /\ addedTasks(h) = {f[i] : i \in 1 .. n} /\ f = [i \in 1 .. n |-> f[i]]
        /\ \A i \in 1 .. n : /\ f[i].at = last + i /\ f[i].agentType = added[i].agentType
                             /\ added[i] \in Additions
  <2>1. last \in Nat /\ last = lastOf(baseTasks)
    BY <1>1, <1>3
  <2>2. AddedAfter(h, last)
    BY <2>1, AddedPlaces
  <2>3. QED
    BY <2>2, Zenon DEF AddedAfter
<1>4. PICK f :
        /\ addedTasks(h) = {f[i] : i \in 1 .. n} /\ f = [i \in 1 .. n |-> f[i]]
        /\ \A i \in 1 .. n : /\ f[i].at = last + i /\ f[i].agentType = added[i].agentType
                             /\ added[i] \in Additions
  BY <1>3a, Zenon
<1>5. PICK kept, new, final : /\ kept = {t \in base : t.id \notin removed} /\ new = {f[i] : i \in 1 .. n}
                              /\ final = kept \cup new
  OBVIOUS
<1>6. finalTasks(h) = final
  BY <1>1, <1>4, <1>5 DEF finalTasks, keptTasks
<1>7. n \in Nat /\ n <= MaxAdded /\ MaxAdded \in Nat
  BY ExtractionAssumption
<1>8. IsFiniteSet(new)
  <2>1. f \in Surjection(1 .. n, new)
    BY <1>4, <1>5 DEF Surjection
  <2>2. IsFiniteSet(1 .. n)
    BY <1>7, FS_Interval
  <2>3. QED
    BY <2>1, <2>2, FS_Surjection
<1>9. IsList(final, last + n)
  <2>1. IsFiniteSet(final)
    <3>1. kept \subseteq base
      BY <1>5
    <3>2. IsFiniteSet(kept)
      BY <1>2, <3>1, FS_Subset, Zenon DEF IsList
    <3>3. QED
      BY <1>5, <1>8, <3>2, FS_Union
  <2>2. \A t \in kept : t.at \in Nat /\ 0 < t.at /\ t.at <= last
    BY <1>3, <1>5
  <2>3. \A t \in new : t.at \in Nat /\ last < t.at /\ t.at <= last + n
    <3>1. \A i \in 1 .. n : last + i \in Nat /\ last < last + i /\ last + i <= last + n
      BY <1>3, <1>7
    <3>2. QED
      BY <1>4, <1>5, <3>1
  <2>4. \A t \in final : t.at \in 1 .. last + n
    <3>1. TAKE t \in final
    <3>2. t.at \in Nat /\ 0 < t.at /\ t.at <= last + n
      BY <1>3, <1>5, <1>7, <2>2, <2>3
    <3>3. QED
      BY <1>3, <1>7, <3>2
  <2>5. \A t \in kept, u \in new : t.at # u.at
    <3>1. TAKE t \in kept, u \in new
    <3>2. t.at \in Nat /\ t.at <= last /\ u.at \in Nat /\ last < u.at /\ last \in Nat
      BY <1>3, <2>2, <2>3
    <3>3. QED
      BY <3>2
  <2>6. \A t, u \in kept : t.at = u.at => t = u
    BY <1>2, <1>5 DEF IsList
  <2>7. \A t, u \in new : t.at = u.at => t = u
    <3>1. \A i, j \in 1 .. n : last + i = last + j => i = j
      BY <1>3
    <3>2. QED
      BY <1>4, <1>5, <3>1
  <2>8. \A t, u \in final : t.at = u.at => t = u
    BY <1>5, <2>5, <2>6, <2>7
  <2>9. QED
    BY <2>1, <2>4, <2>8 DEF IsList
<1>10. PICK types, more : types = agentTypesOf(base) /\ more = {f[i].agentType : i \in 1 .. n}
  OBVIOUS
<1>11. agentTypesOf(final) \subseteq types \cup more
  BY <1>5, <1>10 DEF agentTypesOf
<1>12. types \subseteq DOMAIN NameStart /\ Cardinality(types) + MaxAdded <= BankSize
  BY <1>1, <1>10, TemplatesAssumption DEF baseTasks
<1>13. more \subseteq DOMAIN NameStart
  BY <1>4, <1>10, TemplatesAssumption
<1>14. IsFiniteSet(types)
  <2>1. PICK g : g = [u \in base |-> u.agentType]
    OBVIOUS
  <2>2. g \in Surjection(base, types)
    BY <1>10, <2>1 DEF Surjection, agentTypesOf
  <2>3. QED
    BY <1>2, <2>2, FS_Surjection DEF IsList
<1>15. IsFiniteSet(more) /\ Cardinality(more) <= n
  <2>1. PICK g : g = [i \in 1 .. n |-> f[i].agentType]
    OBVIOUS
  <2>2. g \in Surjection(1 .. n, more)
    BY <1>10, <2>1 DEF Surjection
  <2>3. IsFiniteSet(1 .. n) /\ Cardinality(1 .. n) = n
    <3>1. 1 \in Int /\ n \in Int /\ (IF 1 > n THEN 0 ELSE n - 1 + 1) = n
      BY <1>7
    <3>2. QED
      BY <3>1, FS_Interval
  <2>4. QED
    BY <2>2, <2>3, FS_Surjection
<1>16. Cardinality(agentTypesOf(final)) <= BankSize
  <2>1. PICK all : all = types \cup more
    OBVIOUS
  <2>2. /\ IsFiniteSet(all)
        /\ Cardinality(all) = Cardinality(types) + Cardinality(more) - Cardinality(types \cap more)
    BY <1>14, <1>15, <2>1, FS_Union
  <2>3. IsFiniteSet(types \cap more)
    BY <1>14, FS_Subset, Zenon
  <2>4. IsFiniteSet(agentTypesOf(final)) /\ Cardinality(agentTypesOf(final)) <= Cardinality(all)
    BY <1>11, <2>1, <2>2, FS_Subset, Zenon
  <2>5. /\ Cardinality(types) \in Nat /\ Cardinality(more) \in Nat /\ Cardinality(types \cap more) \in Nat
        /\ Cardinality(agentTypesOf(final)) \in Nat /\ BankSize \in Nat
    BY <1>14, <1>15, <2>3, <2>4, FS_CardinalityType, NameAssumption
  <2>6. QED
    BY <1>7, <1>12, <1>15, <2>2, <2>4, <2>5
<1>17. last + n \in Nat
  BY <1>3, <1>7
<1>18. QED
  BY <1>6, <1>9, <1>11, <1>12, <1>13, <1>16, <1>17

\* A run: what has been chosen so far, and that an assembled chart passed the checks
\* and is logged as it is.
RunInv ==
  /\ stage \in Stages
  /\ stage \notin {"idea", "failed"} => selection \in TemplateSelections
  /\ stage \in {"customized", "validated", "assembled", "done"} =>
       /\ added \in AddedSeqs /\ DOMAIN hints = DOMAIN added
       /\ adjusted \subseteq idsOf(baseTasks) \ removed
  /\ stage \in {"assembled", "done"} =>
       assembleError(finalTasks(hints)) = "none" /\ log = customizationLog(hints)

LEMMA RunSound == RunInv => FinishedChartIsSound
<1> SUFFICES ASSUME RunInv PROVE FinishedChartIsSound
  OBVIOUS
<1>1. ASSUME stage = "selected"
      PROVE  assembleError(baseTasks) = "none" /\ Cardinality(agentTypesOf(baseTasks)) + MaxAdded <= BankSize
  <2>1. selection \in TemplateSelections
    BY <1>1 DEF RunInv
  <2>2. QED
    BY <2>1, TemplatesAssumption DEF baseTasks
<1>2. SUFFICES ASSUME stage = "done", NEW tasks, tasks = finalTasks(hints)
      PROVE  /\ \A a, b \in agentsFrom(tasks) : a.name >= 0 /\ (a.name = b.name => a = b)
             /\ validateHandsScopeSeparation(agentsFrom(tasks)) /\ validateComplianceMetadata(tasks)
             /\ idsOf(tasks) = (idsOf(baseTasks) \ customizationLogToDeltas(log, tasks).removed)
                                 \cup customizationLogToDeltas(log, tasks).added
             /\ customizationLogToDeltas(log, tasks).adjusted \subseteq idsOf(tasks)
             /\ \A i \in DOMAIN added :
                  hints[i] = IF i \in DOMAIN log.corrected THEN log.corrected[i] ELSE added[i].teamHint
  BY <1>1 DEF FinishedChartIsSound
<1>3. /\ selection \in TemplateSelections /\ added \in AddedSeqs /\ DOMAIN hints = DOMAIN added
      /\ adjusted \subseteq idsOf(baseTasks) \ removed
      /\ assembleError(tasks) = "none" /\ log = customizationLog(hints)
  BY <1>2 DEF RunInv
<1>4. \A a, b \in agentsFrom(tasks) : a.name >= 0 /\ (a.name = b.name => a = b)
  BY <1>2, <1>3, FinalIsList, AgentsApart
<1>5. validateHandsScopeSeparation(agentsFrom(tasks)) /\ validateComplianceMetadata(tasks)
  BY <1>3 DEF assembleError
<1>6. PICK new : new = addedTasks(hints)
  OBVIOUS
<1>7. tasks = {t \in baseTasks : t.id \notin removed} \cup new
  BY <1>2, <1>6 DEF finalTasks, keptTasks
<1>8. idsOf(tasks) = (idsOf(baseTasks) \ removed) \cup idsOf(new)
  BY <1>7 DEF idsOf
<1>9. /\ log.added = idsOf(new) /\ log.removed = removed \cap idsOf(baseTasks) /\ log.adjusted = adjusted
      /\ log.corrected = [i \in {j \in DOMAIN added : hints[j] # added[j].teamHint} |-> hints[i]]
  BY <1>3, <1>6 DEF customizationLog
<1>10. /\ customizationLogToDeltas(log, tasks).removed = removed \cap idsOf(baseTasks)
       /\ customizationLogToDeltas(log, tasks).added = idsOf(new) \cap idsOf(tasks)
       /\ customizationLogToDeltas(log, tasks).adjusted = adjusted
  BY <1>9 DEF customizationLogToDeltas
<1>11. idsOf(tasks) = (idsOf(baseTasks) \ customizationLogToDeltas(log, tasks).removed)
                        \cup customizationLogToDeltas(log, tasks).added
  BY <1>8, <1>10
<1>12. customizationLogToDeltas(log, tasks).adjusted \subseteq idsOf(tasks)
  BY <1>3, <1>8, <1>10
<1>13. \A i \in DOMAIN added :
         hints[i] = IF i \in DOMAIN log.corrected THEN log.corrected[i] ELSE added[i].teamHint
  BY <1>9
<1>14. QED
  BY <1>4, <1>5, <1>11, <1>12, <1>13

LEMMA RunInitial == ExtractionInit => RunInv
BY DEF ExtractionInit, RunInv, Stages

\* What a chart is made of stays, and so do the chart and what is said of it.
LEMMA ChartStays ==
  ASSUME selection' = selection, removed' = removed, added' = added, adjusted' = adjusted, NEW h, hints' = h
  PROVE  /\ baseTasks' = baseTasks
         /\ assembleError(finalTasks(hints))' = assembleError(finalTasks(h))
         /\ customizationLog(hints)' = customizationLog(h)
<1>1. baseTasks' = baseTasks
  BY DEF baseTasks
<1>2. finalTasks(hints)' = finalTasks(h)
  BY <1>1 DEF finalTasks, keptTasks, addedTasks
<1>3. assembleError(finalTasks(hints))' = assembleError(finalTasks(h))
  BY <1>2
<1>4. customizationLog(hints)' = customizationLog(h)
  BY <1>1 DEF customizationLog, addedTasks
<1>5. QED
  BY <1>1, <1>3, <1>4

LEMMA SelectKeeps == RunInv /\ Select => RunInv'
<1> SUFFICES ASSUME RunInv, Select PROVE RunInv'
  OBVIOUS
<1>1. stage' = "selected" /\ selection' \in TemplateSelections
  <2>1. PICK answers \in InterviewAnswers, hits \in HitProfiles : selection' = selectTemplate(answers, hits)
    BY DEF Select
  <2>2. hits \in [BusinessTemplateIds -> Nat]
    BY TemplatesAssumption
  <2>3. QED
    BY <2>1, <2>2, SelectionIsBest DEF Select
<1>2. QED
  BY <1>1 DEF RunInv, Stages

LEMMA CustomizeKeeps == RunInv /\ runCustomizePass => RunInv'
<1> SUFFICES ASSUME RunInv, runCustomizePass PROVE RunInv'
  OBVIOUS
<1>1. selection \in TemplateSelections /\ selection' = selection
  BY DEF RunInv, runCustomizePass
<1>2. CASE stage' = "failed"
  BY <1>2 DEF RunInv, Stages
<1>3. CASE stage' # "failed"
  <2>1. PICK cost : customizeAnswers(cost)
    BY <1>3 DEF runCustomizePass
  <2>2. PICK r \in Removals, adj \in Removals, n \in 0 .. MaxAdded :
          \E adds \in [1 .. n -> Additions] :
            /\ removed' = r /\ adjusted' = (adj \ r) \cap idsOf(baseTasks) /\ added' = adds
            /\ hints' = [i \in 1 .. n |-> adds[i].teamHint] /\ stage' = "customized"
    BY <2>1 DEF customizeAnswers
  <2>3. added' \in AddedSeqs /\ DOMAIN hints' = DOMAIN added'
    BY <2>2 DEF AddedSeqs
  <2>4. baseTasks' = baseTasks
    BY <1>1 DEF baseTasks
  <2>5. adjusted' \subseteq idsOf(baseTasks') \ removed'
    BY <2>2, <2>4
  <2>6. QED
    BY <1>1, <2>2, <2>3, <2>5 DEF RunInv, Stages
<1>4. QED
  BY <1>2, <1>3

LEMMA ValidateKeeps == RunInv /\ Validate => RunInv'
<1> SUFFICES ASSUME RunInv, Validate PROVE RunInv'
  OBVIOUS
<1>1. /\ selection' = selection /\ removed' = removed /\ adjusted' = adjusted /\ added' = added
      /\ stage = "customized" /\ stage' = "validated"
  BY DEF Validate
<1>2. DOMAIN hints' = DOMAIN added'
  BY <1>1 DEF RunInv, Validate, validateSkipped, validateCategories, validateThrows
<1>3. baseTasks' = baseTasks
  BY <1>1 DEF baseTasks
<1>4. QED
  BY <1>1, <1>2, <1>3 DEF RunInv, Stages

\* Assembly: the chart passes the checks under the hints it ends with, the corrected
\* ones or the customize pass's own, and these are the ones it logs.
LEMMA AssembleKeeps == RunInv /\ assembleOrgChart => RunInv'
<1> SUFFICES ASSUME RunInv, assembleOrgChart PROVE RunInv'
  OBVIOUS
<1>1. /\ selection' = selection /\ removed' = removed /\ adjusted' = adjusted /\ added' = added
      /\ stage = "validated"
  BY DEF assembleOrgChart
<1>2. /\ selection \in TemplateSelections /\ added \in AddedSeqs /\ DOMAIN hints = DOMAIN added
      /\ adjusted \subseteq idsOf(baseTasks) \ removed
  BY <1>1 DEF RunInv
<1>3. CASE stage' = "failed"
  BY <1>3 DEF RunInv, Stages
<1>4. CASE stage' # "failed"
  <2>1. PICK h : h = hints'
    OBVIOUS
  <2>2. /\ stage' = "assembled" /\ h \in {hints, ownHints}
        /\ assembleError(finalTasks(h)) = "none" /\ log' = customizationLog(h)
    BY <1>4, <2>1 DEF assembleOrgChart, revertCorrections
  <2>3. DOMAIN hints' = DOMAIN added'
    BY <1>1, <1>2, <2>1, <2>2 DEF ownHints
  <2>4. /\ baseTasks' = baseTasks
        /\ assembleError(finalTasks(hints))' = "none"
        /\ customizationLog(hints)' = log'
    BY <1>1, <2>1, <2>2, ChartStays
  <2>5. QED
    BY <1>1, <1>2, <2>2, <2>3, <2>4 DEF RunInv, Stages
<1>5. QED
  BY <1>3, <1>4

LEMMA BatchKeeps == RunInv /\ generateOnboardingBatch => RunInv'
<1> SUFFICES ASSUME RunInv, generateOnboardingBatch PROVE RunInv'
  OBVIOUS
<1>1. /\ selection' = selection /\ removed' = removed /\ adjusted' = adjusted /\ added' = added
      /\ hints' = hints /\ log' = log /\ stage = "assembled" /\ stage' \in {"done", "failed"}
  BY DEF generateOnboardingBatch
<1>2. /\ baseTasks' = baseTasks
      /\ assembleError(finalTasks(hints))' = assembleError(finalTasks(hints))
      /\ customizationLog(hints)' = customizationLog(hints)
  BY <1>1, ChartStays
<1>3. QED
  BY <1>1, <1>2 DEF RunInv, Stages

\* Whatever the model calls answer and are billed, for any templates that fit their name
\* bank: a chart that is handed on names its agents apart, passed the checks and is what
\* its log says (FinishedChartIsSound).
THEOREM FinishedCharts == ExtractionSpec => []FinishedChartIsSound
<1>1. RunInv /\ [ExtractionNext]_extractionVars => RunInv'
  <2> SUFFICES ASSUME RunInv, [ExtractionNext]_extractionVars PROVE RunInv'
    OBVIOUS
  <2>1. CASE UNCHANGED extractionVars
    <3>1. /\ selection' = selection /\ removed' = removed /\ adjusted' = adjusted /\ added' = added
          /\ hints' = hints /\ log' = log /\ stage' = stage
      BY <2>1 DEF extractionVars
    <3>2. /\ baseTasks' = baseTasks
          /\ assembleError(finalTasks(hints))' = assembleError(finalTasks(hints))
          /\ customizationLog(hints)' = customizationLog(hints)
      BY <3>1, ChartStays
    <3>3. QED
      BY <3>1, <3>2 DEF RunInv
  <2>2. QED
    BY <2>1, SelectKeeps, CustomizeKeeps, ValidateKeeps, AssembleKeeps, BatchKeeps DEF ExtractionNext
<1>2. QED
  BY <1>1, RunInitial, RunSound, PTL DEF ExtractionSpec

-----------------------------------------------------------------------------
(* Signup batches: their runs, their money and their claim.                  *)

SignupSpec == SignupInit /\ [][SignupNext]_signupVars

\* The steps of runExtractionBatch, and those that touch a finished batch.
RunPcs == {"reserve", "extract", "settle", "complete", "release", "fail"}
FinishedPcs == {"capture", "reassemble", "rename"}
ReqPcs == RunPcs \cup FinishedPcs \cup {"idle", "claim"}

RowType == [status : {"none", "running", "completed", "failed"},
            tenant : Tenants \cup {NoTenant}, chart : Charts]
ReqType == [pc : ReqPcs, batch : 0 .. MaxBatches, chart : Charts,
            tenant : Tenants \cup {NoTenant}]

SignupShape ==
  /\ rows \in [Batches -> RowType]
  /\ deltas \subseteq Batches
  /\ reservation \in [Batches -> {"none", "held", "settled", "released"}]
  /\ req \in [Reqs -> ReqType]

Is(b, status, money) == rows[b].status = status /\ reservation[b] = money

\* What a request at each of its steps knows of its batch.
Knows(r) ==
  /\ r.pc \in RunPcs \cup FinishedPcs => r.batch \in Batches
  /\ r.pc = "reserve" => Is(r.batch, "running", "none")
  /\ r.pc \in {"extract", "settle"} => Is(r.batch, "running", "held")
  /\ r.pc = "complete" => Is(r.batch, "running", "settled")
  /\ r.pc = "release" =>
       \/ Is(r.batch, "running", "held") \/ Is(r.batch, "running", "settled")
       \/ Is(r.batch, "completed", "settled")
  /\ r.pc = "fail" => Is(r.batch, "running", "none") \/ Is(r.batch, "running", "released")
  /\ r.pc \in FinishedPcs => rows[r.batch].status = "completed"

\* A row, its money, its captures and its owner.
RowSound(b) ==
  /\ rows[b].status = "none" => reservation[b] = "none"
  /\ rows[b].status = "completed" => reservation[b] = "settled"
  /\ rows[b].status = "failed" => reservation[b] # "held"
  /\ b \in deltas => rows[b].status = "completed"
  /\ rows[b].tenant # NoTenant => rows[b].status = "completed"

OneRun ==
  \A p, q \in Reqs :
    req[p].pc \in RunPcs /\ req[q].pc \in RunPcs /\ req[p].batch = req[q].batch => p = q

OneOwner ==
  \A b, c \in Batches : rows[b].tenant = rows[c].tenant /\ rows[b].tenant # NoTenant => b = c

SignupInv ==
  /\ SignupShape
  /\ \A p \in Reqs : Knows(req[p])
  /\ \A b \in Batches : RowSound(b)
  /\ OneRun
  /\ OneOwner

\* The constants a request starts from.
LEMMA IdleTyped == Idle \in ReqType /\ Idle.pc = "idle" /\ NoChart \in Charts
<1>1. NoChart \in Charts
  BY DEF NoChart, Charts
<1>2. 0 \in 0 .. MaxBatches
  BY SignupAssumption
<1>3. QED
  BY <1>1, <1>2 DEF Idle, ReqType, ReqPcs

\* Before the first batch every part of the invariant holds.
LEMMA SignupInitial == SignupInit => SignupInv
<1> SUFFICES ASSUME SignupInit PROVE SignupInv
  OBVIOUS
<1>1. Row("none", NoTenant, NoChart) \in RowType
  BY IdleTyped DEF Row, RowType
<1>2. \A b \in Batches : rows[b].status = "none" /\ rows[b].tenant = NoTenant
  BY DEF SignupInit, Row
<1>3. SignupShape
  BY <1>1, IdleTyped DEF SignupInit, SignupShape
<1>4. \A p \in Reqs : req[p].pc = "idle"
  BY IdleTyped DEF SignupInit
<1>5. (\A p \in Reqs : Knows(req[p])) /\ OneRun
  BY <1>4 DEF Knows, OneRun, RunPcs, FinishedPcs
<1>6. (\A b \in Batches : RowSound(b)) /\ OneOwner
  BY <1>2 DEF SignupInit, RowSound, OneOwner
<1>7. QED
  BY <1>3, <1>5, <1>6 DEF SignupInv

\* A step of one request that touches one batch keeps the invariant, if it does so
\* for that request and that batch and takes nothing from another's.
LEMMA SignupFrame ==
  ASSUME SignupInv, SignupShape', NEW p \in Reqs, NEW b \in Batches,
         \A q \in Reqs : q # p => req'[q] = req[q],
         \A c \in Batches : c # b => /\ rows'[c] = rows[c] /\ reservation'[c] = reservation[c]
                                     /\ c \in deltas' => c \in deltas,
         Knows(req[p])', RowSound(b)', OneOwner',
         req'[p].pc \in RunPcs => req'[p].batch = b,
         req'[p].pc \in RunPcs => \A q \in Reqs : q # p /\ req[q].pc \in RunPcs => req[q].batch # b,
         rows[b].status = "completed" => rows'[b].status = "completed",
         \A q \in Reqs : q # p /\ req[q].pc \in RunPcs /\ req[q].batch = b =>
                           rows'[b].status = rows[b].status /\ reservation'[b] = reservation[b]
  PROVE  SignupInv'
<1>1. ASSUME NEW q \in Reqs PROVE Knows(req[q])'
  <2>1. CASE q # p
    <3>1. req'[q] = req[q] /\ Knows(req[q])
      BY <2>1 DEF SignupInv
    <3>2. CASE req[q].pc \in RunPcs
      <4>1. /\ req[q].batch \in Batches
            /\ rows'[req[q].batch].status = rows[req[q].batch].status
            /\ reservation'[req[q].batch] = reservation[req[q].batch]
        BY <2>1, <3>1, <3>2 DEF Knows
      <4>2. req[q].pc \notin FinishedPcs
        BY <3>2 DEF RunPcs, FinishedPcs
      <4>3. QED
        BY <3>1, <4>1, <4>2 DEF Knows, Is
    <3>3. CASE req[q].pc \in FinishedPcs
      <4>1. req[q].batch \in Batches /\ rows'[req[q].batch].status = "completed"
        BY <3>1, <3>3 DEF Knows
      <4>2. QED
        BY <3>1, <3>3, <4>1 DEF Knows, FinishedPcs
    <3>4. CASE req[q].pc \notin RunPcs \cup FinishedPcs
      BY <3>1, <3>4 DEF Knows, RunPcs, FinishedPcs
    <3>5. QED
      BY <3>2, <3>3, <3>4
  <2>2. QED
    BY <2>1
<1>2. ASSUME NEW c \in Batches PROVE RowSound(c)'
  <2>1. CASE c # b
    BY <2>1 DEF SignupInv, RowSound
  <2>2. QED
    BY <2>1
<1>3. OneRun'
  BY DEF SignupInv, OneRun
<1>4. QED
  BY <1>1, <1>2, <1>3 DEF SignupInv

\* Rows whose owners do not change keep one owner each.
LEMMA OwnersKept ==
  ASSUME SignupInv, \A b \in Batches : rows'[b].tenant = rows[b].tenant
  PROVE  OneOwner'
BY DEF SignupInv, OneOwner

\* Moving a request, or ending it, keeps the types of the requests.
LEMMA RequestTyped ==
  ASSUME SignupShape, NEW p \in Reqs,
         \/ \E pc \in ReqPcs : Goto(p, pc)
         \/ Return(p)
  PROVE  /\ req' \in [Reqs -> ReqType]
         /\ \A q \in Reqs : q # p => req'[q] = req[q]
         /\ req'[p].pc = "idle" \/ (req'[p].batch = req[p].batch /\ req'[p].chart = req[p].chart)
         /\ \A pc \in ReqPcs : Goto(p, pc) => req'[p].pc = pc
         /\ Return(p) => req'[p].pc = "idle"
<1>1. CASE Return(p)
  <2>1. req' = [req EXCEPT ![p] = Idle]
    BY <1>1 DEF Return
  <2>2. req' \in [Reqs -> ReqType] /\ req'[p] = Idle /\ \A q \in Reqs : q # p => req'[q] = req[q]
    BY <2>1, IdleTyped DEF SignupShape
  <2>3. req'[p].pc = "idle"
    BY <2>2, IdleTyped
  <2>4. ASSUME NEW pc \in ReqPcs, Goto(p, pc) PROVE req'[p].pc = pc
    BY <2>4 DEF Goto, SignupShape, ReqType
  <2>5. QED
    BY <2>2, <2>3, <2>4
<1>2. ASSUME NEW pc \in ReqPcs, Goto(p, pc)
      PROVE  /\ req' \in [Reqs -> ReqType] /\ req'[p].pc = pc
             /\ \A q \in Reqs : q # p => req'[q] = req[q]
             /\ req'[p].batch = req[p].batch /\ req'[p].chart = req[p].chart
  BY <1>2 DEF Goto, SignupShape, ReqType
<1>3. QED
  BY <1>1, <1>2

\* Storing an outcome keeps the types of the rows.
LEMMA RowTyped ==
  ASSUME SignupShape, NEW b \in Batches, NEW status \in {"none", "running", "completed", "failed"},
         NEW c \in Charts,
         rows' = [rows EXCEPT ![b].status = status, ![b].chart = c]
  PROVE  /\ rows' \in [Batches -> RowType]
         /\ rows'[b].status = status /\ rows'[b].tenant = rows[b].tenant
         /\ \A d \in Batches : d # b => rows'[d] = rows[d]
BY DEF SignupShape, RowType

\* The money of one batch.
LEMMA MoneyTyped ==
  ASSUME SignupShape, NEW b \in Batches, NEW how \in {"held", "settled", "released"},
         reservation' = [reservation EXCEPT ![b] = how]
  PROVE  /\ reservation' \in [Batches -> {"none", "held", "settled", "released"}]
         /\ reservation'[b] = how
         /\ \A d \in Batches : d # b => reservation'[d] = reservation[d]
BY DEF SignupShape

\* A batch with a run on it belongs to that run alone.
LEMMA RunAlone ==
  ASSUME SignupInv, NEW p \in Reqs, req[p].pc \in RunPcs
  PROVE  /\ req[p].batch \in Batches
         /\ \A q \in Reqs : q # p /\ req[q].pc \in RunPcs => req[q].batch # req[p].batch
BY DEF SignupInv, OneRun, Knows

\* A step of a run that touches nothing but its request, its row's status and its
\* money keeps the invariant if the row stays sound and the request knows it.
LEMMA RunFrame ==
  ASSUME SignupInv, NEW p \in Reqs, req[p].pc \in RunPcs, NEW b \in Batches, b = req[p].batch,
         SignupShape', deltas' = deltas,
         \A q \in Reqs : q # p => req'[q] = req[q],
         \A c \in Batches : c # b => rows'[c] = rows[c] /\ reservation'[c] = reservation[c],
         rows'[b].tenant = rows[b].tenant,
         rows[b].status = "completed" => rows'[b].status = "completed",
         req'[p].pc = "idle" \/ req'[p].batch = req[p].batch,
         Knows(req[p])', RowSound(b)'
  PROVE  SignupInv'
<1>1. \A q \in Reqs : q # p /\ req[q].pc \in RunPcs => req[q].batch # b
  BY RunAlone
<1>2. \A c \in Batches : rows'[c].tenant = rows[c].tenant
  OBVIOUS
<1>3. OneOwner'
  BY <1>2, OwnersKept
<1>4. req'[p].pc \in RunPcs => req'[p].batch = b
  BY DEF RunPcs
<1>5. QED
  BY <1>1, <1>3, <1>4, SignupFrame

\* Each step of a run hands its request and its money on as the next step expects them.
LEMMA RunStep ==
  ASSUME SignupInv, NEW p \in Reqs,
         \/ evaluateAndReserve(p) \/ extract(p) \/ settle(p) \/ completeBatch(p)
         \/ release(p) \/ failBatch(p)
  PROVE  SignupInv' /\ \A c \in Batches : rows[c].tenant # NoTenant => rows'[c] = rows[c]
<1>0. req[p].pc \in RunPcs
  BY DEF evaluateAndReserve, extract, settle, completeBatch, release, failBatch, RunPcs
<1>1. PICK b \in Batches : b = req[p].batch
  BY <1>0, RunAlone
<1>2. SignupShape /\ Knows(req[p]) /\ RowSound(b) /\ deltas \subseteq Batches
  BY DEF SignupInv, SignupShape
<1>3. /\ reservation \in [Batches -> {"none", "held", "settled", "released"}]
      /\ req \in [Reqs -> ReqType] /\ req[p].chart \in Charts /\ rows \in [Batches -> RowType]
  BY <1>2 DEF SignupShape, ReqType
\* The money moves, or not; the row does not.
<1>4. ASSUME rows' = rows, deltas' = deltas,
             \/ reservation' = reservation
             \/ \E how \in {"held", "settled", "released"} : resolve(b, how),
             req' \in [Reqs -> ReqType], \A q \in Reqs : q # p => req'[q] = req[q],
             req'[p].pc = "idle" \/ req'[p].batch = req[p].batch,
             Knows(req[p])', RowSound(b)'
      PROVE  SignupInv' /\ \A c \in Batches : rows[c].tenant # NoTenant => rows'[c] = rows[c]
  <2>1. /\ reservation' \in [Batches -> {"none", "held", "settled", "released"}]
        /\ \A c \in Batches : c # b => reservation'[c] = reservation[c]
    BY <1>2, <1>3, <1>4, MoneyTyped DEF resolve
  <2>2. SignupShape'
    BY <1>2, <1>3, <1>4, <2>1 DEF SignupShape
  <2>3. SignupInv'
    BY <1>0, <1>1, <1>4, <2>1, <2>2, RunFrame
  <2>4. QED
    BY <1>4, <2>3
\* The row moves, or not; the money does not.
<1>5. ASSUME reservation' = reservation, deltas' = deltas, rows[b].status = "running",
             \/ rows' = rows
             \/ \E status \in {"completed", "failed"}, c \in Charts :
                  rows' = [rows EXCEPT ![b].status = status, ![b].chart = c],
             req' \in [Reqs -> ReqType], \A q \in Reqs : q # p => req'[q] = req[q],
             req'[p].pc = "idle" \/ req'[p].batch = req[p].batch,
             Knows(req[p])', RowSound(b)'
      PROVE  SignupInv' /\ \A c \in Batches : rows[c].tenant # NoTenant => rows'[c] = rows[c]
  <2>1. /\ rows' \in [Batches -> RowType] /\ rows'[b].tenant = rows[b].tenant
        /\ \A c \in Batches : c # b => rows'[c] = rows[c]
    BY <1>2, <1>3, <1>5, RowTyped
  <2>2. SignupShape'
    BY <1>2, <1>3, <1>5, <2>1 DEF SignupShape
  <2>3. SignupInv'
    BY <1>0, <1>1, <1>5, <2>1, <2>2, RunFrame
  <2>4. rows[b].tenant = NoTenant
    BY <1>2, <1>5 DEF RowSound
  <2>5. QED
    BY <2>1, <2>3, <2>4
<1>6. CASE evaluateAndReserve(p)
  <2>1. /\ rows' = rows /\ deltas' = deltas /\ rows[b].status = "running"
        /\ reservation[b] = "none" /\ req[p].pc = "reserve"
    BY <1>1, <1>2, <1>6 DEF evaluateAndReserve, Knows, Is
  <2>2. CASE hold(b) /\ Goto(p, "extract")
    <3>1. resolve(b, "held") /\ reservation'[b] = "held"
      BY <1>2, <2>2, MoneyTyped DEF hold, resolve
    <3>2. /\ req' \in [Reqs -> ReqType] /\ \A q \in Reqs : q # p => req'[q] = req[q]
          /\ req'[p].pc = "extract" /\ req'[p].batch = b
      BY <1>1, <1>2, <2>2, RequestTyped DEF ReqPcs, RunPcs
    <3>3. Knows(req[p])' /\ RowSound(b)'
      BY <1>2, <2>1, <3>1, <3>2 DEF Knows, Is, RowSound, RunPcs, FinishedPcs
    <3>4. QED
      BY <1>1, <1>4, <2>1, <3>1, <3>2, <3>3
  <2>3. CASE Goto(p, "fail") /\ UNCHANGED reservation
    <3>1. /\ req' \in [Reqs -> ReqType] /\ \A q \in Reqs : q # p => req'[q] = req[q]
          /\ req'[p].pc = "fail" /\ req'[p].batch = b
      BY <1>1, <1>2, <2>3, RequestTyped DEF ReqPcs, RunPcs
    <3>2. Knows(req[p])' /\ RowSound(b)'
      BY <1>2, <2>1, <2>3, <3>1 DEF Knows, Is, RowSound, RunPcs, FinishedPcs
    <3>3. QED
      BY <1>1, <1>4, <2>1, <2>3, <3>1, <3>2
  <2>4. CASE Return(p) /\ (hold(b) \/ UNCHANGED reservation)
    <3>1. /\ req' \in [Reqs -> ReqType] /\ \A q \in Reqs : q # p => req'[q] = req[q]
          /\ req'[p].pc = "idle"
      BY <1>2, <2>4, RequestTyped
    <3>2. /\ reservation' = reservation \/ resolve(b, "held")
          /\ reservation'[b] \in {"none", "held"}
      BY <1>2, <2>1, <2>4, MoneyTyped DEF hold, resolve
    <3>3. Knows(req[p])' /\ RowSound(b)'
      BY <1>2, <2>1, <3>1, <3>2 DEF Knows, RowSound, RunPcs, FinishedPcs
    <3>4. QED
      BY <1>4, <2>1, <3>1, <3>2, <3>3
  <2>5. QED
    BY <1>1, <1>6, <2>2, <2>3, <2>4 DEF evaluateAndReserve
<1>7. CASE extract(p)
  <2>1. /\ rows' = rows /\ deltas' = deltas /\ reservation' = reservation
        /\ Is(b, "running", "held") /\ req[p].pc = "extract"
    BY <1>1, <1>2, <1>7 DEF extract, Knows
  <2>2. /\ req' \in [Reqs -> ReqType] /\ \A q \in Reqs : q # p => req'[q] = req[q]
        /\ req'[p].pc \in {"settle", "release"} /\ req'[p].batch = b
    <3>1. CASE Goto(p, "release")
      BY <1>1, <1>2, <3>1, RequestTyped DEF ReqPcs, RunPcs
    <3>2. CASE req' = [req EXCEPT ![p].pc = "settle",
                                  ![p].chart = [tasks |-> EditableTasks, renamed |-> FALSE]]
      <4>1. [tasks |-> EditableTasks, renamed |-> FALSE] \in Charts
        BY DEF Charts
      <4>2. QED
        BY <1>1, <1>3, <3>2, <4>1 DEF ReqType, ReqPcs, RunPcs
    <3>3. QED
      BY <1>7, <3>1, <3>2 DEF extract
  <2>3. Knows(req[p])' /\ RowSound(b)'
    BY <1>2, <2>1, <2>2 DEF Knows, Is, RowSound, RunPcs, FinishedPcs
  <2>4. QED
    BY <1>1, <1>4, <2>1, <2>2, <2>3
<1>8. CASE settle(p)
  <2>1. /\ rows' = rows /\ deltas' = deltas /\ Is(b, "running", "held") /\ req[p].pc = "settle"
    BY <1>1, <1>2, <1>8 DEF settle, Knows
  <2>2. \/ resolve(b, "settled") /\ Goto(p, "complete")
        \/ resolve(b, "settled") /\ Goto(p, "release")
        \/ reservation' = reservation /\ Goto(p, "release")
    BY <1>1, <1>8 DEF settle
  <2>3. /\ req' \in [Reqs -> ReqType] /\ \A q \in Reqs : q # p => req'[q] = req[q]
        /\ req'[p].batch = b
        /\ \/ resolve(b, "settled") /\ reservation'[b] = "settled" /\ req'[p].pc \in {"complete", "release"}
           \/ reservation' = reservation /\ req'[p].pc = "release"
    BY <1>1, <1>2, <2>2, RequestTyped, MoneyTyped DEF ReqPcs, RunPcs, resolve
  <2>4. Knows(req[p])' /\ RowSound(b)'
    BY <1>2, <2>1, <2>3 DEF Knows, Is, RowSound, RunPcs, FinishedPcs
  <2>5. QED
    BY <1>1, <1>4, <2>1, <2>3, <2>4
<1>9. CASE completeBatch(p)
  <2>1. /\ reservation' = reservation /\ deltas' = deltas
        /\ Is(b, "running", "settled") /\ req[p].pc = "complete"
    BY <1>1, <1>2, <1>9 DEF completeBatch, Knows
  <2>2. visibleToUser(b)
    BY <1>2, <2>1 DEF Is, RowSound, visibleToUser
  <2>3. \/ /\ rows' = [rows EXCEPT ![b].status = "completed", ![b].chart = req[p].chart]
           /\ Goto(p, "capture") \/ Goto(p, "release")
        \/ rows' = rows /\ Goto(p, "release")
    BY <1>1, <1>9, <2>2 DEF completeBatch, complete
  <2>4. /\ req' \in [Reqs -> ReqType] /\ \A q \in Reqs : q # p => req'[q] = req[q]
        /\ req'[p].batch = b
        /\ \/ rows'[b].status = "completed" /\ req'[p].pc \in {"capture", "release"}
           \/ rows' = rows /\ req'[p].pc = "release"
    BY <1>1, <1>2, <1>3, <2>3, RequestTyped, RowTyped DEF ReqPcs, RunPcs, FinishedPcs
  <2>5. Knows(req[p])' /\ RowSound(b)'
    BY <1>2, <2>1, <2>4 DEF Knows, Is, RowSound, RunPcs, FinishedPcs
  <2>6. QED
    BY <1>1, <1>3, <1>5, <2>1, <2>3, <2>4, <2>5 DEF Is
<1>10. CASE release(p)
  <2>1. /\ rows' = rows /\ deltas' = deltas /\ req[p].pc = "release"
        /\ Is(b, "running", "held") \/ Is(b, "running", "settled") \/ Is(b, "completed", "settled")
    BY <1>1, <1>2, <1>10 DEF release, Knows
  <2>2. \/ resolve(b, "released") /\ Goto(p, "fail") /\ reservation[b] = "held"
        \/ Return(p) /\ resolve(b, "released") /\ reservation[b] = "held"
        \/ Return(p) /\ reservation' = reservation
    BY <1>1, <1>10 DEF release
  <2>3. /\ req' \in [Reqs -> ReqType] /\ \A q \in Reqs : q # p => req'[q] = req[q]
        /\ req'[p].pc = "idle" \/ req'[p].batch = b
        /\ \/ /\ resolve(b, "released") /\ reservation'[b] = "released" /\ reservation[b] = "held"
              /\ req'[p].pc \in {"fail", "idle"}
           \/ reservation' = reservation /\ req'[p].pc = "idle"
    BY <1>1, <1>2, <2>2, RequestTyped, MoneyTyped DEF ReqPcs, RunPcs, resolve
  <2>4. Knows(req[p])' /\ RowSound(b)'
    BY <1>2, <2>1, <2>3 DEF Knows, Is, RowSound, RunPcs, FinishedPcs
  <2>5. QED
    BY <1>1, <1>4, <2>1, <2>3, <2>4
<1>11. CASE failBatch(p)
  <2>1. /\ reservation' = reservation /\ deltas' = deltas /\ req[p].pc = "fail"
        /\ Is(b, "running", "none") \/ Is(b, "running", "released")
    BY <1>1, <1>2, <1>11 DEF failBatch, Knows
  <2>2. visibleToUser(b)
    BY <1>2, <2>1 DEF Is, RowSound, visibleToUser
  <2>3. rows[b].chart \in Charts
    BY <1>3 DEF RowType
  <2>4. \/ rows' = [rows EXCEPT ![b].status = "failed", ![b].chart = rows[b].chart]
        \/ rows' = rows
    BY <1>1, <1>3, <1>11, <2>2 DEF failBatch, fail, RowType
  <2>5. rows'[b].status = "failed" \/ rows' = rows
    BY <1>2, <2>3, <2>4, RowTyped
  <2>6. /\ req' \in [Reqs -> ReqType] /\ \A q \in Reqs : q # p => req'[q] = req[q]
        /\ req'[p].pc = "idle"
    BY <1>2, <1>11, RequestTyped DEF failBatch
  <2>7. rows'[b].tenant = rows[b].tenant
    BY <1>2, <2>3, <2>4, RowTyped
  <2>8. Knows(req[p])' /\ RowSound(b)'
    BY <1>2, <2>1, <2>5, <2>6, <2>7 DEF Knows, Is, RowSound, RunPcs, FinishedPcs
  <2>9. QED
    BY <1>5, <2>1, <2>3, <2>4, <2>6, <2>8 DEF Is
<1>12. QED
  BY <1>6, <1>7, <1>8, <1>9, <1>10, <1>11

\* A step that changes no status and no money, and starts no run, keeps the invariant.
LEMMA QuietFrame ==
  ASSUME SignupInv, SignupShape',
         \A q \in Reqs : \/ req'[q] = req[q]
                         \/ req'[q].pc \in {"idle", "claim"}
                         \/ /\ req'[q].pc \in FinishedPcs /\ req'[q].batch \in Batches
                            /\ rows[req'[q].batch].status = "completed",
         \A c \in Batches : /\ rows'[c].status = rows[c].status
                            /\ rows'[c].tenant = rows[c].tenant \/ rows[c].status = "completed"
                            /\ c \in deltas' => c \in deltas \/ rows[c].status = "completed",
         reservation' = reservation, OneOwner'
  PROVE  SignupInv'
<1>1. ASSUME NEW q \in Reqs PROVE Knows(req[q])'
  <2>1. CASE req'[q] = req[q]
    <3>1. Knows(req[q])
      BY DEF SignupInv
    <3>2. req[q].pc \in RunPcs \cup FinishedPcs =>
            req[q].batch \in Batches /\ rows'[req[q].batch].status = rows[req[q].batch].status
      BY <3>1 DEF Knows
    <3>3. QED
      BY <2>1, <3>1, <3>2 DEF Knows, Is, RunPcs, FinishedPcs
  <2>2. CASE req'[q].pc \in {"idle", "claim"}
    BY <2>2 DEF Knows, RunPcs, FinishedPcs
  <2>3. CASE /\ req'[q].pc \in FinishedPcs /\ req'[q].batch \in Batches
             /\ rows[req'[q].batch].status = "completed"
    <3>1. rows'[req'[q].batch].status = "completed"
      BY <2>3
    <3>2. QED
      BY <2>3, <3>1 DEF Knows, RunPcs, FinishedPcs
  <2>4. QED
    BY <2>1, <2>2, <2>3
<1>2. ASSUME NEW c \in Batches PROVE RowSound(c)'
  <2>1. RowSound(c)
    BY DEF SignupInv
  <2>2. QED
    BY <2>1 DEF RowSound
<1>3. OneRun'
  <2>1. \A q \in Reqs : req'[q].pc \in RunPcs => req'[q] = req[q]
    BY DEF RunPcs, FinishedPcs
  <2>2. QED
    BY <2>1 DEF SignupInv, OneRun
<1>4. QED
  BY <1>1, <1>2, <1>3 DEF SignupInv

\* Among the eligible batches there is a latest one.
LEMMA LatestExists ==
  ASSUME eligible # {}
  PROVE  \E b \in eligible : \A c \in eligible : c <= b
<1> DEFINE below == {MaxBatches - b : b \in eligible}
<1>0. MaxBatches \in Nat /\ eligible \subseteq 1 .. MaxBatches
  BY SignupAssumption DEF eligible, Batches
<1>1. below \subseteq Nat /\ below # {}
  <2>1. \A b \in 1 .. MaxBatches : MaxBatches - b \in Nat
    BY <1>0
  <2>2. QED
    BY <1>0, <2>1
<1>2. PICK m \in below : \A n \in below : ~(<<n, m>> \in OpToRel(<, Nat))
  BY <1>1, NatLessThanWellFounded, WFMin
<1>3. \A n \in below : ~(n < m)
  BY <1>1, <1>2 DEF OpToRel
<1>4. PICK b \in eligible : m = MaxBatches - b
  OBVIOUS
<1>5. ASSUME NEW c \in eligible PROVE c <= b
  <2>1. ~(MaxBatches - c < MaxBatches - b)
    BY <1>3, <1>4
  <2>2. QED
    BY <1>0, <2>1
<1>6. QED
  BY <1>5

\* A request that begins a run, and one that read a chart to edit it.
Begun(pc, b) == [Idle EXCEPT !.pc = pc, !.batch = b]
Reading(pc, b, d) == [Idle EXCEPT !.pc = pc, !.batch = b, !.chart = d]

\* What a request that begins knows: its step, its batch and the chart it read.
LEMMA FreshRequest ==
  ASSUME NEW pc \in ReqPcs, NEW b \in Batches, NEW d \in Charts
  PROVE  /\ Begun(pc, b) \in ReqType /\ Begun(pc, b).pc = pc /\ Begun(pc, b).batch = b
         /\ Reading(pc, b, d) \in ReqType /\ Reading(pc, b, d).pc = pc /\ Reading(pc, b, d).batch = b
<1>1. PICK i \in ReqType : i = Idle
  BY IdleTyped
<1>2. b \in 0 .. MaxBatches
  BY DEF Batches
<1>3. Begun(pc, b) = [i EXCEPT !.pc = pc, !.batch = b]
  BY <1>1 DEF Begun
<1>4. Begun(pc, b) \in ReqType
  BY <1>2, <1>3 DEF ReqType
<1>5. Begun(pc, b).pc = pc /\ Begun(pc, b).batch = b
  BY <1>2, <1>3 DEF ReqType
<1>6. Reading(pc, b, d) = [i EXCEPT !.pc = pc, !.batch = b, !.chart = d]
  BY <1>1 DEF Reading
<1>7. Reading(pc, b, d) \in ReqType
  BY <1>2, <1>6 DEF ReqType
<1>8. Reading(pc, b, d).pc = pc /\ Reading(pc, b, d).batch = b
  BY <1>2, <1>6 DEF ReqType
<1>9. QED
  BY <1>4, <1>5, <1>7, <1>8

\* The start of a batch gives it to one run, with no money held yet.
LEMMA StartStep ==
  ASSUME SignupInv, NEW p \in Reqs, start(p)
  PROVE  SignupInv' /\ \A c \in Batches : rows[c].tenant # NoTenant => rows'[c] = rows[c]
<1>1. PICK b \in Batches :
        /\ rows[b].status = "none" /\ rows' = [rows EXCEPT ![b].status = "running"]
        /\ req' = [req EXCEPT ![p] = [Idle EXCEPT !.pc = "reserve", !.batch = b]]
        /\ UNCHANGED <<deltas, reservation>>
  BY DEF start
<1>2. SignupShape /\ RowSound(b) /\ \A q \in Reqs : Knows(req[q])
  BY DEF SignupInv
<1>3. /\ rows' \in [Batches -> RowType] /\ rows'[b].status = "running"
      /\ rows'[b].tenant = rows[b].tenant /\ \A c \in Batches : c # b => rows'[c] = rows[c]
  BY <1>1, <1>2 DEF SignupShape, RowType
<1>4. PICK r : r = Begun("reserve", b)
  OBVIOUS
<1>5. r \in ReqType /\ r.pc = "reserve" /\ r.batch = b
  BY <1>4, FreshRequest, IdleTyped DEF ReqPcs, RunPcs
<1>6. /\ req' \in [Reqs -> ReqType] /\ req'[p] = r /\ \A q \in Reqs : q # p => req'[q] = req[q]
  BY <1>1, <1>2, <1>4, <1>5 DEF SignupShape, Begun
<1>7. SignupShape'
  BY <1>1, <1>2, <1>3, <1>6 DEF SignupShape
<1>8. \A q \in Reqs : req[q].pc \in RunPcs => req[q].batch # b
  BY <1>1, <1>2 DEF Knows, Is, RunPcs
<1>9. Knows(req[p])' /\ RowSound(b)'
  BY <1>1, <1>2, <1>3, <1>5, <1>6 DEF Knows, Is, RowSound, RunPcs, FinishedPcs
<1>10. OneOwner'
  BY <1>3, OwnersKept
<1>11. SignupInv'
  BY <1>1, <1>3, <1>5, <1>6, <1>7, <1>8, <1>9, <1>10, SignupFrame
<1>12. QED
  BY <1>1, <1>2, <1>3, <1>11 DEF RowSound

\* Captures and edits of a finished batch leave its status, its money and its owner;
\* an edit of a claimed batch changes no row at all.
LEMMA FinishedStep ==
  ASSUME SignupInv, NEW p \in Reqs,
         \/ recordMany(p) \/ reassembleRead(p) \/ renameRead(p)
         \/ reassembleWrite(p) \/ renameWrite(p)
  PROVE  SignupInv' /\ \A c \in Batches : rows[c].tenant # NoTenant => rows'[c] = rows[c]
<1>0. /\ SignupShape /\ Knows(req[p]) /\ \A c \in Batches : RowSound(c)
      /\ rows \in [Batches -> RowType] /\ req \in [Reqs -> ReqType] /\ req[p].chart \in Charts
  BY DEF SignupInv, SignupShape, ReqType
<1>1. CASE recordMany(p)
  <2>1. /\ req[p].batch \in Batches /\ rows[req[p].batch].status = "completed"
        /\ UNCHANGED <<rows, reservation>>
        /\ deltas' = deltas \cup {req[p].batch} \/ deltas' = deltas
    BY <1>0, <1>1 DEF recordMany, Knows, FinishedPcs
  <2>2. /\ req' \in [Reqs -> ReqType] /\ req'[p].pc = "idle"
        /\ \A q \in Reqs : q # p => req'[q] = req[q]
    BY <1>0, <1>1, RequestTyped DEF recordMany
  <2>3. SignupShape'
    BY <1>0, <2>1, <2>2 DEF SignupShape
  <2>4. OneOwner'
    BY <2>1, OwnersKept
  <2>5. SignupInv'
    BY <2>1, <2>2, <2>3, <2>4, QuietFrame
  <2>6. QED
    BY <2>1, <2>5
<1>2. ASSUME NEW pc \in FinishedPcs, getForEdit(p, pc)
      PROVE  SignupInv' /\ \A c \in Batches : rows[c].tenant # NoTenant => rows'[c] = rows[c]
  <2>1. PICK b \in Batches :
          /\ rows[b].status = "completed"
          /\ req' = [req EXCEPT ![p] = [Idle EXCEPT !.pc = pc, !.batch = b, !.chart = rows[b].chart]]
          /\ UNCHANGED <<rows, deltas, reservation>>
    BY <1>2 DEF getForEdit
  <2>2. PICK d \in Charts : d = rows[b].chart
    BY <1>0 DEF RowType
  <2>3. PICK r : r = Reading(pc, b, d)
    OBVIOUS
  <2>4. r \in ReqType /\ r.pc = pc /\ r.batch = b
    BY <2>3, FreshRequest DEF ReqPcs
  <2>5. /\ req' \in [Reqs -> ReqType] /\ req'[p] = r /\ \A q \in Reqs : q # p => req'[q] = req[q]
    BY <1>0, <2>1, <2>2, <2>3, <2>4 DEF Reading
  <2>6. SignupShape'
    BY <1>0, <2>1, <2>5 DEF SignupShape
  <2>7. OneOwner'
    BY <2>1, OwnersKept
  <2>8. SignupInv'
    BY <2>1, <2>4, <2>5, <2>6, <2>7, QuietFrame
  <2>9. QED
    BY <2>1, <2>8
\* The two writes: a chart for a batch that is still the user's, and on.
<1>3. ASSUME NEW b \in Batches, b = req[p].batch, rows[b].status = "completed",
             UNCHANGED <<deltas, reservation>>,
             rows' = rows \/ \E c \in Charts : updateOrgChart(b, c),
             Return(p) \/ Goto(p, "capture")
      PROVE  SignupInv' /\ \A c \in Batches : rows[c].tenant # NoTenant => rows'[c] = rows[c]
  <2>1. \/ rows' = rows
        \/ rows[b].tenant = NoTenant /\ \E c \in Charts : rows' = [rows EXCEPT ![b].chart = c]
    BY <1>3 DEF updateOrgChart, visibleToUser
  <2>2. /\ rows' \in [Batches -> RowType]
        /\ \A c \in Batches : rows'[c].status = rows[c].status /\ rows'[c].tenant = rows[c].tenant
        /\ \A c \in Batches : rows[c].tenant # NoTenant => rows'[c] = rows[c]
    BY <1>0, <2>1 DEF RowType
  <2>3. /\ req' \in [Reqs -> ReqType] /\ \A q \in Reqs : q # p => req'[q] = req[q]
        /\ req'[p].pc = "idle" \/ (req'[p].pc = "capture" /\ req'[p].batch = b)
    BY <1>0, <1>3, RequestTyped DEF ReqPcs, FinishedPcs
  <2>4. SignupShape'
    BY <1>0, <1>3, <2>2, <2>3 DEF SignupShape
  <2>5. OneOwner'
    BY <2>2, OwnersKept
  <2>6. SignupInv'
    BY <1>3, <2>2, <2>3, <2>4, <2>5, QuietFrame DEF FinishedPcs
  <2>7. QED
    BY <2>2, <2>6
<1>4. CASE reassembleWrite(p) \/ renameWrite(p)
  <2>1. PICK b \in Batches : b = req[p].batch /\ rows[b].status = "completed"
    BY <1>0, <1>4 DEF reassembleWrite, renameWrite, Knows, FinishedPcs
  <2>2. /\ UNCHANGED <<deltas, reservation>>
        /\ Return(p) \/ Goto(p, "capture")
    BY <1>4 DEF reassembleWrite, renameWrite
  <2>3. CASE reassembleWrite(p)
    <3>1. \A tasks \in SUBSET EditableTasks \ {{}} : [tasks |-> tasks, renamed |-> FALSE] \in Charts
      BY DEF Charts
    <3>2. rows' = rows \/ \E c \in Charts : updateOrgChart(b, c)
      BY <2>1, <2>3, <3>1 DEF reassembleWrite
    <3>3. QED
      BY <1>3, <2>1, <2>2, <3>2
  <2>4. CASE renameWrite(p)
    <3>1. [req[p].chart EXCEPT !.renamed = TRUE] \in Charts
      BY <1>0 DEF Charts
    <3>2. \E c \in Charts : updateOrgChart(b, c)
      BY <2>1, <2>4, <3>1 DEF renameWrite
    <3>3. QED
      BY <1>3, <2>1, <2>2, <3>2
  <2>5. QED
    BY <1>4, <2>3, <2>4
<1>5. QED
  BY <1>1, <1>2, <1>4 DEF reassembleRead, renameRead, FinishedPcs

\* A claim gives one finished batch, that nobody owns, to a tenant that owns none.
LEMMA ClaimStep ==
  ASSUME SignupInv, NEW p \in Reqs, claimCheck(p) \/ claimUpdate(p)
  PROVE  SignupInv' /\ \A c \in Batches : rows[c].tenant # NoTenant => rows'[c] = rows[c]
<1>0. SignupShape /\ rows \in [Batches -> RowType] /\ req \in [Reqs -> ReqType]
  BY DEF SignupInv, SignupShape
<1>1. CASE claimCheck(p)
  <2>1. PICK t \in Tenants :
          /\ req' = [req EXCEPT ![p] = [Idle EXCEPT !.pc = "claim", !.tenant = t]]
          /\ UNCHANGED <<rows, deltas, reservation>>
    BY <1>1 DEF claimCheck
  <2>2. PICK r : r = [Idle EXCEPT !.pc = "claim", !.tenant = t]
    OBVIOUS
  <2>3. r \in ReqType /\ r.pc = "claim"
    <3>1. PICK i \in ReqType : i = Idle
      BY IdleTyped
    <3>2. r = [i EXCEPT !.pc = "claim", !.tenant = t]
      BY <2>2, <3>1
    <3>3. QED
      BY <3>2 DEF ReqType, ReqPcs
  <2>4. /\ req' \in [Reqs -> ReqType] /\ req'[p] = r /\ \A q \in Reqs : q # p => req'[q] = req[q]
    BY <1>0, <2>1, <2>2, <2>3
  <2>5. SignupShape'
    BY <1>0, <2>1, <2>4 DEF SignupShape
  <2>6. OneOwner'
    BY <2>1, OwnersKept
  <2>7. SignupInv'
    BY <2>1, <2>3, <2>4, <2>5, <2>6, QuietFrame
  <2>8. QED
    BY <2>1, <2>7
<1>2. CASE claimUpdate(p)
  <2>1. UNCHANGED <<deltas, reservation>>
    BY <1>2 DEF claimUpdate
  <2>2. /\ req' \in [Reqs -> ReqType] /\ req'[p].pc = "idle"
        /\ \A q \in Reqs : q # p => req'[q] = req[q]
    BY <1>0, <1>2, RequestTyped DEF claimUpdate
  <2>3. PICK t \in Tenants \cup {NoTenant} : t = req[p].tenant
    BY <1>0 DEF ReqType
  <2>4. CASE eligible = {} \/ claimedBy(t) # {}
    <3>1. rows' = rows
      BY <1>2, <2>3, <2>4 DEF claimUpdate
    <3>2. SignupShape' /\ OneOwner'
      BY <1>0, <2>1, <2>2, <3>1, OwnersKept DEF SignupShape
    <3>3. SignupInv'
      BY <2>1, <2>2, <3>1, <3>2, QuietFrame
    <3>4. QED
      BY <3>1, <3>3
  <2>5. CASE eligible # {} /\ claimedBy(t) = {}
    <3>1. PICK b \in eligible : b = CHOOSE d \in eligible : \A c \in eligible : c <= d
      BY <2>5, LatestExists
    <3>2. rows' = [rows EXCEPT ![b].tenant = t]
      BY <1>2, <2>3, <2>5, <3>1 DEF claimUpdate
    <3>3. b \in Batches /\ rows[b].status = "completed" /\ rows[b].tenant = NoTenant
      BY DEF eligible
    <3>4. /\ rows' \in [Batches -> RowType]
          /\ \A c \in Batches : rows'[c].status = rows[c].status
          /\ rows'[b].tenant = t /\ \A c \in Batches : c # b => rows'[c] = rows[c]
      BY <1>0, <3>2, <3>3 DEF RowType
    <3>5. \A c \in Batches : rows[c].tenant # t
      BY <2>5 DEF claimedBy
    <3>6. OneOwner'
      BY <3>3, <3>4, <3>5 DEF SignupInv, OneOwner
    <3>7. SignupShape'
      BY <1>0, <2>1, <2>2, <3>4 DEF SignupShape
    <3>8. SignupInv'
      BY <2>1, <2>2, <3>3, <3>4, <3>6, <3>7, QuietFrame
    <3>9. QED
      BY <3>3, <3>4, <3>8
  <2>6. QED
    BY <2>4, <2>5
<1>3. QED
  BY <1>1, <1>2

\* Every step keeps the invariant and the rows that have an owner.
LEMMA SignupStep ==
  SignupInv /\ [SignupNext]_signupVars =>
    SignupInv' /\ \A c \in Batches : rows[c].tenant # NoTenant => rows'[c] = rows[c]
<1> SUFFICES ASSUME SignupInv, [SignupNext]_signupVars
             PROVE  SignupInv' /\ \A c \in Batches : rows[c].tenant # NoTenant => rows'[c] = rows[c]
  OBVIOUS
<1>1. CASE SignupCrash
  <2>1. /\ \A q \in Reqs : req'[q] = Idle
        /\ req' = [p \in Reqs |-> Idle] /\ UNCHANGED <<rows, deltas, reservation>>
    BY <1>1 DEF SignupCrash
  <2>2. SignupShape' /\ OneOwner'
    BY <2>1, IdleTyped, OwnersKept DEF SignupInv, SignupShape
  <2>3. \A q \in Reqs : req'[q].pc = "idle"
    BY <2>1, IdleTyped
  <2>4. SignupInv'
    BY <2>1, <2>2, <2>3, QuietFrame
  <2>5. QED
    BY <2>1, <2>4
<1>2. CASE UNCHANGED signupVars
  <2>1. UNCHANGED <<rows, deltas, reservation, req>>
    BY <1>2 DEF signupVars
  <2>2. SignupShape' /\ OneOwner'
    BY <2>1, OwnersKept DEF SignupInv, SignupShape
  <2>3. SignupInv'
    BY <2>1, <2>2, QuietFrame
  <2>4. QED
    BY <2>1, <2>3
<1>3. QED
  BY <1>1, <1>2, StartStep, RunStep, FinishedStep, ClaimStep DEF SignupNext

\* However requests, faults, lost replies and crashes fall between the steps: a
\* batch's outcome, its money and its captures agree.
THEOREM MoneyMatchesOutcome == SignupSpec => []OutcomeMatchesMoney
<1>1. SignupInv => OutcomeMatchesMoney
  BY DEF SignupInv, SignupShape, RowSound, OutcomeMatchesMoney
<1>2. QED
  BY <1>1, SignupInitial, SignupStep, PTL DEF SignupSpec

\* A claimed batch is never changed again, and no tenant owns two.
THEOREM ClaimsAreFinal == SignupSpec => ClaimIsFinal
<1>1. SignupInv /\ [SignupNext]_signupVars =>
        [\A b \in Batches :
          /\ rows[b].tenant # NoTenant => rows'[b] = rows[b]
          /\ rows'[b].tenant # NoTenant =>
                 /\ rows'[b].status = "completed"
                 /\ \A c \in Batches \ {b} : rows'[c].tenant # rows'[b].tenant]_signupVars
  <2> SUFFICES ASSUME SignupInv, [SignupNext]_signupVars, NEW b \in Batches
               PROVE  /\ rows[b].tenant # NoTenant => rows'[b] = rows[b]
                      /\ rows'[b].tenant # NoTenant =>
                           /\ rows'[b].status = "completed"
                           /\ \A c \in Batches \ {b} : rows'[c].tenant # rows'[b].tenant
    OBVIOUS
  <2>1. SignupInv' /\ (rows[b].tenant # NoTenant => rows'[b] = rows[b])
    BY SignupStep
  <2>2. RowSound(b)' /\ OneOwner'
    BY <2>1 DEF SignupInv
  <2>3. QED
    BY <2>1, <2>2 DEF RowSound, OneOwner
<1>2. QED
  BY <1>1, SignupInitial, SignupStep, PTL DEF SignupSpec, ClaimIsFinal

-----------------------------------------------------------------------------
(* The charter in force and the schedule it runs on.                         *)

CharterSpec == CharterInit /\ [][CharterNext]_charterVars

Tiers == {"ceo", "role-lead", "sub-agent"}
CascadeType == [Tiers -> [of : Int, overridden : BOOLEAN]]
CharterRow == [status : {"draft", "active", "superseded"}, content : Nat, cascade : CascadeType]
ChartType == [cadence : [CadenceTasks -> Cadences], hasBatch : BOOLEAN]

SchedulingPcs == {"cadence", "list", "upsert"}
CharterPcs == SchedulingPcs \cup {"idle", "draft", "regenerate", "draft-regenerated", "accept", "accepted"}
CharterReqType ==
  [pc : CharterPcs, id : Nat, cascade : CascadeType, chart : ChartType \cup {<<>>},
   todo : SUBSET CadenceTasks, overlapped : BOOLEAN]

\* A generated cascade: nothing overridden, every prompt written for some content.
Generated(cascade) == \A e \in Tiers : cascade[e].overridden = FALSE /\ cascade[e].of >= 0

\* The schedules at or above the floor.
SlowCadences == {"nightly", "daily", "weekly", "monthly"}
SlowOptions == {cadenceToRepeatOptions(c) : c \in SlowCadences}
Wanted(c, t) == cadenceToRepeatOptions(clampCadenceToFloor(c.cadence[t]))

CharterShape ==
  /\ chart \in ChartType
  /\ charters \in Seq(CharterRow)
  /\ registry \in [CadenceTasks -> {Unregistered} \cup SlowOptions]
  /\ creq \in [CharterReqs -> CharterReqType]
  /\ edits \in Nat
  /\ alone \in BOOLEAN
  /\ \A p \in CharterReqs :
       creq[p].pc \in SchedulingPcs \cup {"regenerate"} => creq[p].chart \in ChartType

\* Constants of the model are of their types.
LEMMA CharterConstants ==
  /\ NoCascade \in CascadeType /\ DOMAIN NoCascade = Tiers
  /\ \A e \in Tiers : NoCascade[e].overridden = FALSE
  /\ CharterIdle \in CharterReqType /\ CharterIdle.pc = "idle"
<1>1. NoCascade \in CascadeType /\ DOMAIN NoCascade = Tiers
  <2>1. [of |-> -1, overridden |-> FALSE] \in [of : Int, overridden : BOOLEAN]
    OBVIOUS
  <2>2. QED
    BY <2>1 DEF NoCascade, CascadeType, Tiers
<1>2. \A e \in Tiers : NoCascade[e].overridden = FALSE
  BY DEF NoCascade, Tiers
<1>3. CharterIdle \in CharterReqType /\ CharterIdle.pc = "idle"
  <2>1. {} \in SUBSET CadenceTasks /\ 0 \in Nat /\ "idle" \in CharterPcs
    BY DEF CharterPcs
  <2>2. QED
    BY <1>1, <2>1 DEF CharterIdle, CharterReqType
<1>4. QED
  BY <1>1, <1>2, <1>3

\* Under the floor a schedule is slow, and the comparison of two slow schedules tells
\* them apart.
LEMMA FloorHolds ==
  /\ \A c \in Cadences : clampCadenceToFloor(c) \in SlowCadences
  /\ \A o \in SlowOptions : o.every \notin {1, 4}
  /\ Unregistered.every \notin {1, 4}
  /\ \A o, d \in SlowOptions : sameSchedule(o, d) => o = d
<1>1. \A c \in Cadences : clampCadenceToFloor(c) \in SlowCadences
  BY DEF Cadences, clampCadenceToFloor, CADENCE_RANK, CADENCE_FLOOR, SlowCadences
<1>2. Unregistered.every \notin {1, 4}
  BY DEF Unregistered
<1> DEFINE nightly == cadenceToRepeatOptions("nightly")
           daily == cadenceToRepeatOptions("daily")
           weekly == cadenceToRepeatOptions("weekly")
           monthly == cadenceToRepeatOptions("monthly")
<1>3. /\ nightly.every = 0 /\ nightly.pattern = "2am-daily"
      /\ daily.every = 96 /\ weekly.every = 672
      /\ monthly.every = 0 /\ monthly.pattern = "9am-first-of-month"
      /\ daily.pattern = "none" /\ weekly.pattern = "none"
  BY DEF cadenceToRepeatOptions
<1>4. \A o \in SlowOptions : o = nightly \/ o = daily \/ o = weekly \/ o = monthly
  BY DEF SlowOptions, SlowCadences
<1> HIDE DEF nightly, daily, weekly, monthly
<1>5. ASSUME NEW o \in SlowOptions PROVE o.every \notin {1, 4}
  <2>1. CASE o = nightly
    BY <1>3, <2>1
  <2>2. CASE o = daily
    BY <1>3, <2>2
  <2>3. CASE o = weekly
    BY <1>3, <2>3
  <2>4. CASE o = monthly
    BY <1>3, <2>4
  <2>5. QED
    BY <1>4, <2>1, <2>2, <2>3, <2>4
<1>6. ASSUME NEW o \in SlowOptions, NEW d \in SlowOptions, sameSchedule(o, d)
      PROVE  o = d
  <2>1. IF d.every # 0 THEN o.every = d.every ELSE o.pattern = d.pattern
    BY <1>6 DEF sameSchedule
  <2>2. CASE o = nightly
    BY <1>3, <1>4, <2>1, <2>2
  <2>3. CASE o = daily
    BY <1>3, <1>4, <2>1, <2>3
  <2>4. CASE o = weekly
    BY <1>3, <1>4, <2>1, <2>4
  <2>5. CASE o = monthly
    BY <1>3, <1>4, <2>1, <2>5
  <2>6. QED
    BY <1>4, <2>2, <2>3, <2>4, <2>5
<1>7. QED
  BY <1>1, <1>2, <1>5, <1>6

\* What a chart asks for is a slow schedule.
LEMMA WantedSlow ==
  ASSUME NEW c \in ChartType, NEW t \in CadenceTasks
  PROVE  Wanted(c, t) \in SlowOptions
<1>1. c.cadence[t] \in Cadences
  BY DEF ChartType
<1>2. QED
  BY <1>1, FloorHolds DEF Wanted, SlowOptions

\* A request that moves on keeps what it read.
LEMMA CharterMoves ==
  ASSUME creq \in [CharterReqs -> CharterReqType], NEW p \in CharterReqs, NEW pc \in CharterPcs,
         cGoto(p, pc)
  PROVE  /\ creq' \in [CharterReqs -> CharterReqType]
         /\ \A q \in CharterReqs : q # p => creq'[q] = creq[q]
         /\ creq'[p].pc = pc /\ creq'[p].id = creq[p].id /\ creq'[p].cascade = creq[p].cascade
         /\ creq'[p].chart = creq[p].chart /\ creq'[p].todo = creq[p].todo
         /\ creq'[p].overlapped = creq[p].overlapped
BY DEF cGoto, CharterReqType

\* A request that ends knows nothing more.
LEMMA CharterReturns ==
  ASSUME creq \in [CharterReqs -> CharterReqType], NEW p \in CharterReqs, cReturn(p)
  PROVE  /\ creq' \in [CharterReqs -> CharterReqType]
         /\ \A q \in CharterReqs : q # p => creq'[q] = creq[q]
         /\ creq'[p].pc = "idle"
<1>1. creq' = [creq EXCEPT ![p] = CharterIdle]
  BY DEF cReturn
<1>2. creq'[p] = CharterIdle
  BY <1>1
<1>3. QED
  BY <1>1, <1>2, CharterConstants

\* A marked request keeps everything but the mark.
Marked(r, m) == [r EXCEPT !.overlapped = m]

\* The mark is the only field that marking changes.
LEMMA Marking ==
  ASSUME NEW r \in CharterReqType, NEW m \in BOOLEAN
  PROVE  /\ Marked(r, m) \in CharterReqType
         /\ Marked(r, m).pc = r.pc /\ Marked(r, m).id = r.id /\ Marked(r, m).cascade = r.cascade
         /\ Marked(r, m).chart = r.chart /\ Marked(r, m).todo = r.todo
         /\ Marked(r, m).overlapped = m
<1>1. Marked(r, m) \in CharterReqType
  BY DEF Marked, CharterReqType
<1>2. Marked(r, m).overlapped = m
  BY DEF Marked, CharterReqType
<1>3. QED
  BY <1>1, <1>2 DEF Marked, CharterReqType

\* A request that enters the schedule marks every other one in it, and itself if there
\* is one.
LEMMA CharterEnters ==
  ASSUME creq \in [CharterReqs -> CharterReqType], NEW p \in CharterReqs, NEW r \in CharterReqType,
         entering(p, r)
  PROVE  /\ creq' \in [CharterReqs -> CharterReqType]
         /\ \A q \in CharterReqs :
              q # p => /\ creq'[q].pc = creq[q].pc /\ creq'[q].id = creq[q].id
                       /\ creq'[q].cascade = creq[q].cascade /\ creq'[q].chart = creq[q].chart
                       /\ creq'[q].todo = creq[q].todo
                       /\ creq[q].pc \in SchedulingPcs => creq'[q].overlapped = TRUE
         /\ creq'[p].pc = r.pc /\ creq'[p].chart = r.chart
         /\ creq'[p].overlapped = FALSE => \A q \in CharterReqs : q # p => creq[q].pc \notin SchedulingPcs
<1>1. PICK m \in BOOLEAN : m = (\E q \in CharterReqs \ {p} : scheduling(q))
  OBVIOUS
<1>2. creq' = [q \in CharterReqs |-> IF q = p THEN Marked(r, m) ELSE Marked(creq[q], scheduling(q))]
  BY <1>1 DEF entering, Marked
<1>3. \A q \in CharterReqs : creq[q] \in CharterReqType /\ scheduling(q) \in BOOLEAN
  BY DEF scheduling
<1>4. creq'[p] = Marked(r, m) /\ \A q \in CharterReqs : q # p => creq'[q] = Marked(creq[q], scheduling(q))
  BY <1>2
<1>5. \A q \in CharterReqs :
        q # p => /\ Marked(creq[q], scheduling(q)) \in CharterReqType
                 /\ creq'[q].pc = creq[q].pc /\ creq'[q].id = creq[q].id
                 /\ creq'[q].cascade = creq[q].cascade /\ creq'[q].chart = creq[q].chart
                 /\ creq'[q].todo = creq[q].todo /\ creq'[q].overlapped = scheduling(q)
  <2>1. SUFFICES ASSUME NEW q \in CharterReqs, q # p
                 PROVE  /\ Marked(creq[q], scheduling(q)) \in CharterReqType
                        /\ creq'[q].pc = creq[q].pc /\ creq'[q].id = creq[q].id
                        /\ creq'[q].cascade = creq[q].cascade /\ creq'[q].chart = creq[q].chart
                        /\ creq'[q].todo = creq[q].todo /\ creq'[q].overlapped = scheduling(q)
    OBVIOUS
  <2>2. PICK k \in BOOLEAN : k = scheduling(q)
    BY <1>3
  <2>3. creq[q] \in CharterReqType /\ creq'[q] = Marked(creq[q], k)
    BY <1>3, <1>4, <2>1, <2>2
  <2>4. QED
    BY <2>2, <2>3, Marking
<1>6. /\ Marked(r, m) \in CharterReqType /\ creq'[p].pc = r.pc /\ creq'[p].chart = r.chart
      /\ creq'[p].overlapped = m
  BY <1>4, Marking
<1>7. creq' \in [CharterReqs -> CharterReqType]
  BY <1>2, <1>5, <1>6
<1>8. \A q \in CharterReqs : scheduling(q) <=> creq[q].pc \in SchedulingPcs
  BY DEF scheduling, SchedulingPcs
<1>9. creq'[p].overlapped = FALSE => \A q \in CharterReqs : q # p => creq[q].pc \notin SchedulingPcs
  BY <1>1, <1>6, <1>8
<1>10. \A q \in CharterReqs : q # p /\ creq[q].pc \in SchedulingPcs => creq'[q].overlapped = TRUE
  BY <1>5, <1>8
<1>11. QED
  BY <1>5, <1>6, <1>7, <1>9, <1>10

\* One charter in force from the first acceptance on; cascades are as generated.
Drafts == \A v \in DOMAIN charters : charters[v].status = "draft"

VersionSound(v) ==
  /\ \A e \in Tiers : charters[v].cascade[e].overridden = FALSE
  /\ charters[v].status = "active" => Generated(charters[v].cascade)

ForceInv ==
  /\ \A v \in DOMAIN charters : VersionSound(v)
  /\ \A p \in CharterReqs :
       creq[p].pc = "accept" => creq[p].id \in DOMAIN charters /\ Generated(creq[p].cascade)
  /\ Drafts \/ \E v \in DOMAIN charters : activeOf = {v}

\* A request that is in the schedule alone knows the stored chart, and has left only
\* its todo list unregistered.
KnowsSchedule(p) ==
  creq[p].pc \in SchedulingPcs /\ creq[p].overlapped = FALSE =>
    /\ \A q \in CharterReqs : q # p => creq[q].pc \notin SchedulingPcs
    /\ creq[p].pc \in {"list", "upsert"} => creq[p].chart = chart
    /\ creq[p].pc = "upsert" =>
         \A t \in CadenceTasks : t \in creq[p].todo \/ registry[t] = Wanted(chart, t)

ScheduleInv ==
  /\ \A p \in CharterReqs : KnowsSchedule(p)
  /\ alone = TRUE => \A t \in CadenceTasks : registry[t] = Wanted(chart, t)

CharterInv == CharterShape /\ ForceInv /\ ScheduleInv

\* Before the first draft nothing is in force and nothing registered.
LEMMA CharterInitial == CharterInit => CharterInv
<1> SUFFICES ASSUME CharterInit PROVE CharterInv
  OBVIOUS
<1>1. chart \in ChartType
  BY DEF CharterInit, ChartType, Cadences
<1>2. \A p \in CharterReqs : creq[p] = CharterIdle
  BY DEF CharterInit
<1>3. \A p \in CharterReqs : creq[p].pc = "idle"
  BY <1>2, CharterConstants
<1>4. creq \in [CharterReqs -> CharterReqType]
  BY CharterConstants DEF CharterInit
<1>5. charters \in Seq(CharterRow) /\ DOMAIN charters = {}
  BY DEF CharterInit
<1>6. CharterShape
  BY <1>1, <1>3, <1>4, <1>5 DEF CharterInit, CharterShape, SchedulingPcs
<1>7. ForceInv
  BY <1>3, <1>5 DEF ForceInv, Drafts
<1>8. ScheduleInv
  BY <1>3 DEF CharterInit, ScheduleInv, KnowsSchedule, SchedulingPcs
<1>9. QED
  BY <1>6, <1>7, <1>8 DEF CharterInv

\* Steps that leave the versions alone.
LEMMA ForceFrame ==
  ASSUME ForceInv, charters' = charters,
         \A q \in CharterReqs :
           creq'[q].pc = "accept" => /\ creq[q].pc = "accept" /\ creq'[q].id = creq[q].id
                                     /\ creq'[q].cascade = creq[q].cascade
  PROVE  ForceInv'
<1>1. activeOf' = activeOf /\ (Drafts => Drafts')
  BY DEF activeOf, Drafts
<1>2. \A v \in DOMAIN charters : VersionSound(v)'
  BY DEF ForceInv, VersionSound
<1>3. QED
  BY <1>1, <1>2 DEF ForceInv

\* Steps that leave the stored chart and the registered jobs alone, and bring no
\* request into the schedule.
LEMMA ScheduleFrame ==
  ASSUME ScheduleInv, chart' = chart, registry' = registry, alone' = alone,
         \A q \in CharterReqs : creq'[q] = creq[q] \/ creq'[q].pc \notin SchedulingPcs
  PROVE  ScheduleInv'
<1>1. ASSUME NEW p \in CharterReqs PROVE KnowsSchedule(p)'
  BY DEF ScheduleInv, KnowsSchedule
<1>2. (alone' = TRUE) => \A t \in CadenceTasks : registry'[t] = Wanted(chart, t)'
  BY DEF ScheduleInv, Wanted
<1>3. QED
  BY <1>1, <1>2 DEF ScheduleInv

\* A new draft is a sound version and changes none before it.
LEMMA DraftAppended ==
  ASSUME CharterShape, ForceInv, NEW content \in Nat, createDraft(content),
         \A q \in CharterReqs :
           creq'[q].pc = "accept" => /\ creq[q].pc = "accept" /\ creq'[q].id = creq[q].id
                                     /\ creq'[q].cascade = creq[q].cascade
  PROVE  charters' \in Seq(CharterRow) /\ ForceInv'
<1> DEFINE row == [status |-> "draft", content |-> content, cascade |-> NoCascade]
<1>1. /\ row \in CharterRow /\ row.status = "draft"
      /\ \A e \in Tiers : row.cascade[e].overridden = FALSE
  BY CharterConstants DEF CharterRow
<1>2. charters' = Append(charters, row) /\ charters \in Seq(CharterRow)
  BY DEF createDraft, CharterShape
<1> HIDE DEF row
<1>3. /\ charters' \in Seq(CharterRow)
      /\ DOMAIN charters' = DOMAIN charters \cup {Len(charters) + 1}
      /\ \A v \in DOMAIN charters : v # Len(charters) + 1 /\ charters'[v] = charters[v]
      /\ charters'[Len(charters) + 1] = row
  BY <1>1, <1>2
<1>4. activeOf' = activeOf
  BY <1>1, <1>3 DEF activeOf
<1>5. \A v \in DOMAIN charters' : VersionSound(v)'
  BY <1>1, <1>3 DEF ForceInv, VersionSound
<1>6. Drafts => Drafts'
  BY <1>1, <1>3 DEF Drafts
<1>7. QED
  BY <1>3, <1>4, <1>5, <1>6 DEF ForceInv

\* An edit of a draft changes its content alone.
LEMMA DraftEdited ==
  ASSUME CharterShape, ForceInv, NEW v \in draftsOf, NEW content \in Nat,
         charters' = [charters EXCEPT ![v].content = content], creq' = creq
  PROVE  charters' \in Seq(CharterRow) /\ ForceInv'
<1>1. /\ charters \in Seq(CharterRow) /\ v \in DOMAIN charters
      /\ \A w \in DOMAIN charters : charters[w] \in CharterRow
  BY DEF CharterShape, draftsOf
<1>2. PICK row : row = [charters[v] EXCEPT !.content = content]
  OBVIOUS
<1>3. /\ row \in CharterRow /\ row.status = charters[v].status
      /\ row.cascade = charters[v].cascade
  BY <1>1, <1>2 DEF CharterRow
<1>4. charters' = [charters EXCEPT ![v] = row]
  BY <1>2
<1>5. /\ charters' \in Seq(CharterRow) /\ DOMAIN charters' = DOMAIN charters
      /\ charters'[v] = row /\ \A w \in DOMAIN charters : w # v => charters'[w] = charters[w]
  BY <1>1, <1>3, <1>4
<1>6. \A w \in DOMAIN charters : charters'[w].status = charters[w].status
                               /\ charters'[w].cascade = charters[w].cascade
  BY <1>3, <1>5
<1>7. activeOf' = activeOf /\ (Drafts => Drafts')
  BY <1>5, <1>6 DEF activeOf, Drafts
<1>8. \A w \in DOMAIN charters' : VersionSound(w)'
  BY <1>5, <1>6 DEF ForceInv, VersionSound
<1>9. QED
  BY <1>5, <1>7, <1>8 DEF ForceInv

\* The cascade an acceptance computes is generated, over no previous one or the last.
LEMMA CascadeGenerated ==
  ASSUME NEW content \in Nat, NEW previous \in CascadeType,
         \A e \in Tiers : previous[e].overridden = FALSE
  PROVE  /\ generateCascade(content, previous) \in CascadeType
         /\ Generated(generateCascade(content, previous))
<1>1. DOMAIN previous = Tiers
  BY DEF CascadeType
<1>2. [of |-> content, overridden |-> FALSE] \in [of : Int, overridden : BOOLEAN]
  OBVIOUS
<1>3. generateCascade(content, previous) = [e \in Tiers |-> [of |-> content, overridden |-> FALSE]]
  BY <1>1 DEF generateCascade
<1>4. QED
  BY <1>2, <1>3 DEF CascadeType, Generated

\* The latest of one active version is that version.
LEMMA TheActive ==
  ASSUME CharterShape, ForceInv, activeOf # {}
  PROVE  /\ latest(activeOf) \in DOMAIN charters
         /\ activeOf = {latest(activeOf)} /\ charters[latest(activeOf)] \in CharterRow
<1>1. PICK v \in DOMAIN charters : activeOf = {v}
  BY DEF ForceInv, Drafts, activeOf
<1>2. v \in Nat
  BY DEF CharterShape
<1>3. latest({v}) = v
  BY <1>2 DEF latest
<1>4. charters[v] \in CharterRow
  BY DEF CharterShape
<1>5. QED
  BY <1>1, <1>3, <1>4

\* An acceptance leaves one version active, the accepted one, with its cascade.
LEMMA AcceptLeavesOne ==
  ASSUME CharterShape, ForceInv, NEW v \in DOMAIN charters, NEW cascade \in CascadeType,
         Generated(cascade), accept(v, cascade),
         \A q \in CharterReqs :
           creq'[q].pc = "accept" => /\ creq[q].pc = "accept" /\ creq'[q].id = creq[q].id
                                     /\ creq'[q].cascade = creq[q].cascade
  PROVE  charters' \in Seq(CharterRow) /\ ForceInv'
<1>1. /\ charters \in Seq(CharterRow) /\ Len(charters) \in Nat /\ DOMAIN charters = 1 .. Len(charters)
      /\ \A w \in DOMAIN charters : charters[w] \in CharterRow
  BY DEF CharterShape
<1>2. PICK row : row = [charters[v] EXCEPT !.status = "active", !.cascade = cascade]
  OBVIOUS
<1>3. row \in CharterRow /\ row.status = "active" /\ row.cascade = cascade
  BY <1>1, <1>2 DEF CharterRow
<1>4. ASSUME NEW w \in DOMAIN charters
      PROVE  /\ [charters[w] EXCEPT !.status = "superseded"] \in CharterRow
             /\ [charters[w] EXCEPT !.status = "superseded"].status = "superseded"
             /\ [charters[w] EXCEPT !.status = "superseded"].cascade = charters[w].cascade
  <2>1. charters[w] \in CharterRow
    BY <1>1
  <2>2. QED
    BY <2>1 DEF CharterRow
<1>5. charters' = [w \in DOMAIN charters |->
        CASE w = v -> row
          [] w # v /\ charters[w].status = "active" -> [charters[w] EXCEPT !.status = "superseded"]
          [] OTHER -> charters[w]]
  BY <1>2 DEF accept
<1>6. DOMAIN charters' = DOMAIN charters /\ charters'[v] = row
  BY <1>5
<1>7. ASSUME NEW w \in DOMAIN charters, w # v
      PROVE  /\ charters'[w] \in CharterRow /\ charters'[w].status # "active"
             /\ charters'[w].cascade = charters[w].cascade
  <2>1. CASE charters[w].status = "active"
    <3>1. charters'[w] = [charters[w] EXCEPT !.status = "superseded"]
      BY <1>5, <1>7, <2>1
    <3>2. QED
      BY <1>4, <3>1
  <2>2. CASE charters[w].status # "active"
    <3>1. charters'[w] = charters[w]
      BY <1>5, <1>7, <2>2
    <3>2. QED
      BY <1>1, <2>2, <3>1
  <2>3. QED
    BY <2>1, <2>2
<1>8. \A w \in DOMAIN charters : charters'[w] \in CharterRow
  BY <1>3, <1>6, <1>7
<1>9. charters' \in [1 .. Len(charters) -> CharterRow]
  <2>1. charters' = [w \in DOMAIN charters |-> charters'[w]]
    BY <1>5
  <2>2. QED
    BY <1>1, <1>8, <2>1
<1>10. charters' \in Seq(CharterRow)
  BY <1>1, <1>9
<1>11. activeOf' = {v}
  BY <1>3, <1>6, <1>7 DEF activeOf
<1>12. \A w \in DOMAIN charters' : VersionSound(w)'
  BY <1>3, <1>6, <1>7 DEF ForceInv, VersionSound, Generated
<1>13. ForceInv'
  BY <1>6, <1>11, <1>12 DEF ForceInv
<1>14. QED
  BY <1>10, <1>13

\* A request that enters the schedule with the stored chart, or a copy of it with an
\* edit not written yet, knows the schedule if it is there alone.
LEMMA EntersSchedule ==
  ASSUME CharterInv, NEW p \in CharterReqs, creq[p].pc \in {"idle", "accepted"},
         NEW r \in CharterReqType, entering(p, r), r.chart \in ChartType,
         r.pc = "cadence" \/ (r.pc = "list" /\ r.chart = chart),
         UNCHANGED <<chart, charters, registry, alone>>, edits' \in Nat
  PROVE  CharterInv'
<1>1. /\ CharterShape /\ ForceInv /\ ScheduleInv /\ creq \in [CharterReqs -> CharterReqType]
  BY DEF CharterInv, CharterShape
<1>2. /\ creq' \in [CharterReqs -> CharterReqType]
      /\ \A q \in CharterReqs :
           q # p => /\ creq'[q].pc = creq[q].pc /\ creq'[q].id = creq[q].id
                    /\ creq'[q].cascade = creq[q].cascade /\ creq'[q].chart = creq[q].chart
                    /\ creq[q].pc \in SchedulingPcs => creq'[q].overlapped = TRUE
      /\ creq'[p].pc = r.pc /\ creq'[p].chart = r.chart
      /\ creq'[p].overlapped = FALSE => \A q \in CharterReqs : q # p => creq[q].pc \notin SchedulingPcs
  BY <1>1, CharterEnters
<1>3. CharterShape'
  BY <1>1, <1>2 DEF CharterShape
<1>4. ForceInv'
  BY <1>1, <1>2, ForceFrame
<1>5. ASSUME NEW q \in CharterReqs PROVE KnowsSchedule(q)'
  <2>1. CASE q = p
    BY <1>2, <2>1 DEF KnowsSchedule
  <2>2. CASE q # p
    BY <1>2, <2>2 DEF KnowsSchedule
  <2>3. QED
    BY <2>1, <2>2
<1>6. (alone' = TRUE) => \A t \in CadenceTasks : registry'[t] = Wanted(chart, t)'
  BY <1>1 DEF ScheduleInv, Wanted
<1>7. QED
  BY <1>3, <1>4, <1>5, <1>6 DEF CharterInv, ScheduleInv

\* The charter's own steps.
LEMMA DraftStep ==
  ASSUME CharterInv, NEW p \in CharterReqs,
         \/ draftRead(p) \/ draftCreate(p) \/ draftRegenerated(p) \/ updateDraft(p)
         \/ acceptRead(p) \/ acceptWrite(p) \/ requestFails(p)
  PROVE  CharterInv'
<1>1. /\ CharterShape /\ ForceInv /\ ScheduleInv /\ creq \in [CharterReqs -> CharterReqType]
      /\ edits \in Nat /\ chart \in ChartType /\ creq[p] \in CharterReqType
  BY DEF CharterInv, CharterShape
\* A request that goes on to a step outside the schedule, with the versions kept.
<1>2. ASSUME UNCHANGED <<chart, registry, alone>>, edits' \in Nat,
             charters' \in Seq(CharterRow), ForceInv',
             creq' \in [CharterReqs -> CharterReqType],
             \A q \in CharterReqs : q # p => creq'[q] = creq[q],
             creq'[p] = creq[p] \/ creq'[p].pc \notin SchedulingPcs,
             creq'[p] = creq[p] \/ (creq'[p].pc = "regenerate" => creq'[p].chart \in ChartType)
      PROVE  CharterInv'
  <2>1. CharterShape'
    BY <1>1, <1>2 DEF CharterShape
  <2>2. ScheduleInv'
    BY <1>1, <1>2, ScheduleFrame
  <2>3. QED
    BY <1>2, <2>1, <2>2 DEF CharterInv
<1>3. CASE draftRead(p)
  <2>1. cGoto(p, "draft") /\ UNCHANGED <<chart, charters, registry, edits, alone>>
    BY <1>3 DEF draftRead
  <2>2. /\ creq' \in [CharterReqs -> CharterReqType] /\ creq'[p].pc = "draft"
        /\ \A q \in CharterReqs : q # p => creq'[q] = creq[q]
    BY <1>1, <2>1, CharterMoves DEF CharterPcs
  <2>3. ForceInv'
    BY <1>1, <2>1, <2>2, ForceFrame
  <2>4. QED
    BY <1>1, <1>2, <2>1, <2>2, <2>3 DEF CharterShape, SchedulingPcs
<1>4. ASSUME NEW content \in Nat, createDraft(content), cReturn(p),
             UNCHANGED <<chart, registry, edits, alone>>
      PROVE  CharterInv'
  <2>1. /\ creq' \in [CharterReqs -> CharterReqType] /\ creq'[p].pc = "idle"
        /\ \A q \in CharterReqs : q # p => creq'[q] = creq[q]
    BY <1>1, <1>4, CharterReturns
  <2>2. charters' \in Seq(CharterRow) /\ ForceInv'
    BY <1>1, <1>4, <2>1, DraftAppended
  <2>3. QED
    BY <1>1, <1>2, <1>4, <2>1, <2>2 DEF SchedulingPcs
<1>5. CASE draftCreate(p)
  <2>1. UNCHANGED <<chart, registry, edits, alone>>
    BY <1>5 DEF draftCreate
  <2>2. CASE activeOf # {} /\ createDraft(charters[latest(activeOf)].content) /\ cReturn(p)
    <3>1. PICK content \in Nat : content = charters[latest(activeOf)].content
      BY <1>1, <2>2, TheActive DEF CharterRow
    <3>2. QED
      BY <1>4, <2>1, <2>2, <3>1
  <2>3. CASE createDraft(0) /\ cReturn(p)
    BY <1>4, <2>1, <2>3
  <2>4. CASE /\ UNCHANGED charters
             /\ creq' = [creq EXCEPT ![p].pc = "regenerate", ![p].chart = chart]
    <3>1. /\ creq' \in [CharterReqs -> CharterReqType]
          /\ creq'[p].pc = "regenerate" /\ creq'[p].chart = chart
          /\ \A q \in CharterReqs : q # p => creq'[q] = creq[q]
      BY <1>1, <2>4 DEF CharterReqType, CharterPcs
    <3>2. ForceInv'
      BY <1>1, <2>4, <3>1, ForceFrame
    <3>3. QED
      BY <1>1, <1>2, <2>1, <2>4, <3>1, <3>2 DEF CharterShape, SchedulingPcs
  <2>5. QED
    BY <1>5, <2>2, <2>3, <2>4 DEF draftCreate
<1>6. CASE draftRegenerated(p)
  BY <1>4, <1>6 DEF draftRegenerated
<1>7. CASE updateDraft(p)
  <2>1. PICK v \in draftsOf : charters' = [charters EXCEPT ![v].content = edits + 1]
    BY <1>7 DEF updateDraft
  <2>2. UNCHANGED <<chart, registry, creq, alone>> /\ edits' = edits + 1 /\ edits + 1 \in Nat
    BY <1>1, <1>7 DEF updateDraft
  <2>3. charters' \in Seq(CharterRow) /\ ForceInv'
    BY <1>1, <2>1, <2>2, DraftEdited
  <2>4. QED
    BY <1>1, <1>2, <2>2, <2>3
<1>8. CASE acceptRead(p)
  <2> DEFINE previous == IF activeOf = {} THEN NoCascade ELSE charters[latest(activeOf)].cascade
  <2>1. PICK v \in draftsOf :
          creq' = [creq EXCEPT ![p] = [CharterIdle EXCEPT !.pc = "accept", !.id = v,
                           !.cascade = generateCascade(charters[v].content, previous)]]
    BY <1>8 DEF acceptRead
  <2>2. UNCHANGED <<chart, charters, registry, edits, alone>>
    BY <1>8 DEF acceptRead
  <2>3. previous \in CascadeType /\ \A e \in Tiers : previous[e].overridden = FALSE
    <3>1. CASE activeOf = {}
      BY <3>1, CharterConstants
    <3>2. CASE activeOf # {}
      BY <1>1, <3>2, TheActive DEF CharterRow, ForceInv, VersionSound
    <3>3. QED
      BY <3>1, <3>2
  <2>4. v \in DOMAIN charters /\ v \in Nat /\ charters[v].content \in Nat
    <3>1. v \in DOMAIN charters
      BY DEF draftsOf
    <3>2. v \in Nat /\ charters[v] \in CharterRow
      BY <1>1, <3>1 DEF CharterShape
    <3>3. QED
      BY <3>1, <3>2 DEF CharterRow
  <2> HIDE DEF previous
  <2>5. PICK cascade \in CascadeType :
          cascade = generateCascade(charters[v].content, previous) /\ Generated(cascade)
    BY <2>3, <2>4, CascadeGenerated
  <2>6. PICK i \in CharterReqType : i = CharterIdle
    BY CharterConstants
  <2>7. PICK r : r = [i EXCEPT !.pc = "accept", !.id = v, !.cascade = cascade]
    OBVIOUS
  <2>8. r \in CharterReqType
    BY <2>4, <2>7 DEF CharterReqType, CharterPcs
  <2>9. r.pc = "accept" /\ r.id = v /\ r.cascade = cascade
    BY <2>4, <2>7 DEF CharterReqType, CharterPcs
  <2>10. creq' = [creq EXCEPT ![p] = r]
    BY <2>1, <2>5, <2>6, <2>7
  <2>11. /\ creq' \in [CharterReqs -> CharterReqType] /\ creq'[p] = r
         /\ \A q \in CharterReqs : q # p => creq'[q] = creq[q]
    BY <1>1, <2>8, <2>10
  <2>12. ForceInv'
    <3>1. activeOf' = activeOf /\ (Drafts => Drafts')
      BY <2>2 DEF activeOf, Drafts
    <3>2. \A w \in DOMAIN charters : VersionSound(w)'
      BY <1>1, <2>2 DEF ForceInv, VersionSound
    <3>3. \A q \in CharterReqs :
            creq'[q].pc = "accept" => creq'[q].id \in DOMAIN charters /\ Generated(creq'[q].cascade)
      BY <1>1, <2>4, <2>5, <2>9, <2>11 DEF ForceInv
    <3>4. QED
      BY <1>1, <2>2, <3>1, <3>2, <3>3 DEF ForceInv, Generated
  <2>13. QED
    BY <1>1, <1>2, <2>2, <2>9, <2>11, <2>12 DEF CharterShape, SchedulingPcs
<1>9. CASE acceptWrite(p)
  <2>1. /\ accept(creq[p].id, creq[p].cascade) /\ cGoto(p, "accepted") /\ creq[p].pc = "accept"
        /\ UNCHANGED <<chart, registry, edits, alone>>
    BY <1>9 DEF acceptWrite
  <2>2. /\ creq' \in [CharterReqs -> CharterReqType] /\ creq'[p].pc = "accepted"
        /\ \A q \in CharterReqs : q # p => creq'[q] = creq[q]
    BY <1>1, <2>1, CharterMoves DEF CharterPcs
  <2>3. PICK v \in DOMAIN charters, cascade \in CascadeType : v = creq[p].id /\ cascade = creq[p].cascade
    BY <1>1, <2>1 DEF ForceInv, CharterReqType
  <2>4. Generated(cascade)
    BY <1>1, <2>1, <2>3 DEF ForceInv
  <2>5. charters' \in Seq(CharterRow) /\ ForceInv'
    BY <1>1, <2>1, <2>2, <2>3, <2>4, AcceptLeavesOne
  <2>6. QED
    BY <1>1, <1>2, <2>1, <2>2, <2>5 DEF SchedulingPcs
<1>10. CASE requestFails(p)
  <2>1. cReturn(p) /\ UNCHANGED <<chart, charters, registry, edits, alone>>
    BY <1>10 DEF requestFails
  <2>2. /\ creq' \in [CharterReqs -> CharterReqType] /\ creq'[p].pc = "idle"
        /\ \A q \in CharterReqs : q # p => creq'[q] = creq[q]
    BY <1>1, <2>1, CharterReturns
  <2>3. ForceInv'
    BY <1>1, <2>1, <2>2, ForceFrame
  <2>4. QED
    BY <1>1, <1>2, <2>1, <2>2, <2>3 DEF CharterShape, SchedulingPcs
<1>11. QED
  BY <1>3, <1>5, <1>6, <1>7, <1>8, <1>9, <1>10

\* The steps of the schedule, and the regeneration of the stored chart.
LEMMA ScheduleStep ==
  ASSUME CharterInv, NEW p \in CharterReqs,
         \/ regenerateOnboardingBatch(p) \/ onAccepted(p) \/ syncRoute(p) \/ applyTierChange(p)
         \/ cadenceRead(p) \/ cadenceWrite(p) \/ syncList(p) \/ upsertJobScheduler(p) \/ syncDone(p)
  PROVE  CharterInv'
<1>1. /\ CharterShape /\ ForceInv /\ ScheduleInv /\ creq \in [CharterReqs -> CharterReqType]
      /\ edits \in Nat /\ chart \in ChartType /\ creq[p] \in CharterReqType
      /\ charters \in Seq(CharterRow) /\ registry \in [CadenceTasks -> {Unregistered} \cup SlowOptions]
      /\ KnowsSchedule(p) /\ alone \in BOOLEAN
  BY DEF CharterInv, CharterShape, ScheduleInv
<1>2. CASE regenerateOnboardingBatch(p)
  <2>1. CASE cReturn(p) /\ UNCHANGED <<chart, alone>>
    <3>1. /\ creq' \in [CharterReqs -> CharterReqType] /\ creq'[p].pc = "idle"
          /\ \A q \in CharterReqs : q # p => creq'[q] = creq[q]
      BY <1>1, <2>1, CharterReturns
    <3>2. UNCHANGED <<chart, charters, registry, edits, alone>>
      BY <1>2, <2>1 DEF regenerateOnboardingBatch
    <3>3. ForceInv' /\ ScheduleInv'
      BY <1>1, <3>1, <3>2, ForceFrame, ScheduleFrame DEF SchedulingPcs
    <3>4. CharterShape'
      BY <1>1, <3>1, <3>2 DEF CharterShape, SchedulingPcs
    <3>5. QED
      BY <3>3, <3>4 DEF CharterInv
  <2>2. CASE /\ chart' = [creq[p].chart EXCEPT !.hasBatch = TRUE]
             /\ creq' = [q \in CharterReqs |->
                         IF q = p THEN [creq[q] EXCEPT !.pc = "draft-regenerated"]
                         ELSE [creq[q] EXCEPT !.overlapped = scheduling(q)]]
             /\ alone' = FALSE
    <3>1. creq[p].pc = "regenerate" /\ UNCHANGED <<charters, registry, edits>>
      BY <1>2 DEF regenerateOnboardingBatch
    <3>2. chart' \in ChartType
      <4>1. creq[p].chart \in ChartType
        BY <1>1, <3>1 DEF CharterShape
      <4>2. QED
        BY <2>2, <4>1 DEF ChartType
    <3>3. PICK r \in CharterReqType : r = [creq[p] EXCEPT !.pc = "draft-regenerated"]
      BY <1>1 DEF CharterReqType, CharterPcs
    <3>4. r.pc = "draft-regenerated"
      BY <1>1, <3>3 DEF CharterReqType
    <3>5. /\ creq' = [q \in CharterReqs |-> IF q = p THEN r ELSE Marked(creq[q], scheduling(q))]
          /\ \A q \in CharterReqs : scheduling(q) \in BOOLEAN /\ creq[q] \in CharterReqType
      BY <1>1, <2>2, <3>3 DEF Marked, scheduling
    <3>6. /\ creq' \in [CharterReqs -> CharterReqType] /\ creq'[p].pc = "draft-regenerated"
          /\ \A q \in CharterReqs :
               q # p => /\ creq'[q].pc = creq[q].pc /\ creq'[q].id = creq[q].id
                        /\ creq'[q].cascade = creq[q].cascade /\ creq'[q].chart = creq[q].chart
                        /\ creq'[q].overlapped = scheduling(q)
      BY <3>4, <3>5, Marking
    <3>7. \A q \in CharterReqs : creq'[q].pc \in SchedulingPcs => creq'[q].overlapped = TRUE
      BY <3>6 DEF scheduling, SchedulingPcs
    <3>8. CharterShape'
      BY <1>1, <2>2, <3>1, <3>2, <3>6 DEF CharterShape, SchedulingPcs
    <3>9. ForceInv'
      BY <1>1, <3>1, <3>6, ForceFrame
    <3>10. ScheduleInv'
      BY <2>2, <3>7 DEF ScheduleInv, KnowsSchedule
    <3>11. QED
      BY <3>8, <3>9, <3>10 DEF CharterInv
  <2>3. QED
    BY <1>2, <2>1, <2>2 DEF regenerateOnboardingBatch
<1>3. CASE onAccepted(p) \/ syncRoute(p) \/ applyTierChange(p)
  <2>1. startSync(p) /\ creq[p].pc \in {"idle", "accepted"}
    BY <1>3 DEF onAccepted, syncRoute, applyTierChange
  <2>2. PICK i \in CharterReqType : i = CharterIdle
    BY CharterConstants
  <2>3. PICK r : r = [i EXCEPT !.pc = "list", !.chart = chart]
    OBVIOUS
  <2>4. r \in CharterReqType
    BY <1>1, <2>3 DEF CharterReqType, CharterPcs, SchedulingPcs
  <2>5. r.pc = "list" /\ r.chart = chart
    BY <1>1, <2>3 DEF CharterReqType, CharterPcs, SchedulingPcs
  <2>6. entering(p, r) /\ UNCHANGED <<chart, charters, registry, edits, alone>>
    BY <2>1, <2>2, <2>3 DEF startSync
  <2>7. QED
    BY <1>1, <2>1, <2>4, <2>5, <2>6, EntersSchedule
<1>4. CASE cadenceRead(p)
  <2>1. PICK t \in CadenceTasks, c \in EditCadences :
          entering(p, [CharterIdle EXCEPT !.pc = "cadence", !.chart = [chart EXCEPT !.cadence[t] = c]])
    BY <1>4 DEF cadenceRead
  <2>2. /\ creq[p].pc = "idle" /\ UNCHANGED <<chart, charters, registry, alone>>
        /\ edits' = edits + 1
    BY <1>4 DEF cadenceRead
  <2>3. PICK d : d = [chart EXCEPT !.cadence[t] = c]
    OBVIOUS
  <2>4. d \in ChartType
    BY <1>1, <2>3, CharterAssumption DEF ChartType
  <2>5. PICK i \in CharterReqType : i = CharterIdle
    BY CharterConstants
  <2>6. PICK r : r = [i EXCEPT !.pc = "cadence", !.chart = d]
    OBVIOUS
  <2>7. r \in CharterReqType
    BY <2>4, <2>6 DEF CharterReqType, CharterPcs, SchedulingPcs
  <2>8. r.pc = "cadence" /\ r.chart = d
    BY <2>4, <2>6 DEF CharterReqType, CharterPcs, SchedulingPcs
  <2>9. entering(p, r)
    BY <2>1, <2>3, <2>5, <2>6
  <2>10. QED
    BY <1>1, <2>2, <2>4, <2>7, <2>8, <2>9, EntersSchedule
\* A request in the schedule moves on: the others see no difference but in the
\* stored chart and the registry, which only a request that is alone may rely on.
<1>5. ASSUME creq[p].pc \in SchedulingPcs, UNCHANGED <<charters, edits>>, chart' \in ChartType,
             registry' \in [CadenceTasks -> {Unregistered} \cup SlowOptions], alone' \in BOOLEAN,
             creq' \in [CharterReqs -> CharterReqType],
             \A q \in CharterReqs : q # p => creq'[q] = creq[q],
             creq'[p].pc \in SchedulingPcs =>
               creq'[p].chart = creq[p].chart /\ creq'[p].overlapped = creq[p].overlapped,
             creq'[p].pc \in SchedulingPcs \cup {"idle"},
             KnowsSchedule(p)',
             alone' = TRUE => \A t \in CadenceTasks : registry'[t] = Wanted(chart, t)'
      PROVE  CharterInv'
  <2>1. CharterShape'
    BY <1>1, <1>5 DEF CharterShape, SchedulingPcs
  <2>2. ForceInv'
    BY <1>1, <1>5, ForceFrame DEF SchedulingPcs
  <2>3. \A q \in CharterReqs : q # p => KnowsSchedule(q)'
    BY <1>1, <1>5 DEF ScheduleInv, KnowsSchedule
  <2>4. ScheduleInv'
    BY <1>5, <2>3 DEF ScheduleInv
  <2>5. QED
    BY <2>1, <2>2, <2>4 DEF CharterInv
<1>6. CASE cadenceWrite(p)
  <2>1. /\ creq[p].pc = "cadence" /\ chart' = creq[p].chart /\ alone' = FALSE /\ cGoto(p, "list")
        /\ UNCHANGED <<charters, registry, edits>>
    BY <1>6 DEF cadenceWrite
  <2>2. /\ creq' \in [CharterReqs -> CharterReqType] /\ creq'[p].pc = "list"
        /\ \A q \in CharterReqs : q # p => creq'[q] = creq[q]
        /\ creq'[p].chart = creq[p].chart /\ creq'[p].overlapped = creq[p].overlapped
    BY <1>1, <2>1, CharterMoves DEF CharterPcs, SchedulingPcs
  <2>3. creq[p].chart \in ChartType
    BY <1>1, <2>1 DEF CharterShape, SchedulingPcs
  <2>4. KnowsSchedule(p)'
    BY <1>1, <2>1, <2>2 DEF KnowsSchedule, SchedulingPcs
  <2>5. QED
    BY <1>1, <1>5, <2>1, <2>2, <2>3, <2>4 DEF SchedulingPcs
<1>7. CASE syncList(p)
  <2> DEFINE todo == {t \in CadenceTasks :
                        \/ registry[t] = Unregistered
                        \/ ~sameSchedule(registry[t], cadenceToRepeatOptions(computeDesiredSchedule(creq[p].chart)[t]))}
  <2>1. /\ creq[p].pc = "list" /\ creq' = [creq EXCEPT ![p].pc = "upsert", ![p].todo = todo]
        /\ UNCHANGED <<chart, charters, registry, edits, alone>>
    BY <1>7 DEF syncList
  <2>2. todo \in SUBSET CadenceTasks
    OBVIOUS
  <2>3. creq[p].chart \in ChartType
    BY <1>1, <2>1 DEF CharterShape, SchedulingPcs
  <2>4. ASSUME NEW t \in CadenceTasks, t \notin todo
        PROVE  registry[t] = Wanted(creq[p].chart, t)
    <3>1. /\ registry[t] # Unregistered
          /\ sameSchedule(registry[t], cadenceToRepeatOptions(computeDesiredSchedule(creq[p].chart)[t]))
      BY <2>4
    <3>2. cadenceToRepeatOptions(computeDesiredSchedule(creq[p].chart)[t]) = Wanted(creq[p].chart, t)
      BY <2>3 DEF computeDesiredSchedule, Wanted, ChartType
    <3>3. registry[t] \in SlowOptions /\ Wanted(creq[p].chart, t) \in SlowOptions
      BY <1>1, <2>3, <3>1, WantedSlow
    <3>4. QED
      BY <3>1, <3>2, <3>3, FloorHolds
  <2> HIDE DEF todo
  <2>5. /\ creq' \in [CharterReqs -> CharterReqType] /\ creq'[p].pc = "upsert"
        /\ creq'[p].todo = todo /\ \A q \in CharterReqs : q # p => creq'[q] = creq[q]
        /\ creq'[p].chart = creq[p].chart /\ creq'[p].overlapped = creq[p].overlapped
    BY <1>1, <2>1, <2>2 DEF CharterReqType, CharterPcs, SchedulingPcs
  <2>6. KnowsSchedule(p)'
    <3>1. \A q \in CharterReqs : q # p => creq'[q].pc = creq[q].pc
      BY <2>5
    <3>2. \A t \in CadenceTasks : Wanted(chart, t)' = Wanted(chart, t)
      BY <2>1 DEF Wanted
    <3>3. QED
      BY <1>1, <2>1, <2>4, <2>5, <3>1, <3>2 DEF KnowsSchedule, SchedulingPcs
  <2>7. (alone' = TRUE) => \A t \in CadenceTasks : registry'[t] = Wanted(chart, t)'
    BY <1>1, <2>1 DEF ScheduleInv, Wanted
  <2>8. QED
    BY <1>1, <1>5, <2>1, <2>5, <2>6, <2>7 DEF SchedulingPcs
<1>8. CASE upsertJobScheduler(p)
  <2>1. PICK t \in creq[p].todo :
          /\ registry' = [registry EXCEPT ![t] =
                            cadenceToRepeatOptions(computeDesiredSchedule(creq[p].chart)[t])]
          /\ creq' = [creq EXCEPT ![p].todo = @ \ {t}]
    BY <1>8 DEF upsertJobScheduler
  <2>2. creq[p].pc = "upsert" /\ alone' = FALSE /\ UNCHANGED <<chart, charters, edits>>
    BY <1>8 DEF upsertJobScheduler
  <2>3. creq[p].chart \in ChartType /\ t \in CadenceTasks
    BY <1>1, <2>2 DEF CharterShape, SchedulingPcs, CharterReqType
  <2>4. registry' = [registry EXCEPT ![t] = Wanted(creq[p].chart, t)]
    BY <2>1, <2>3 DEF computeDesiredSchedule, Wanted, ChartType
  <2>5. /\ registry' \in [CadenceTasks -> {Unregistered} \cup SlowOptions]
        /\ registry'[t] = Wanted(creq[p].chart, t)
        /\ \A u \in CadenceTasks : u # t => registry'[u] = registry[u]
    BY <1>1, <2>3, <2>4, WantedSlow
  <2>6. PICK rest \in SUBSET CadenceTasks : rest = creq[p].todo \ {t}
    BY <1>1 DEF CharterReqType
  <2>7. /\ creq' \in [CharterReqs -> CharterReqType] /\ creq'[p].pc = "upsert"
        /\ creq'[p].todo = rest /\ \A q \in CharterReqs : q # p => creq'[q] = creq[q]
        /\ creq'[p].chart = creq[p].chart /\ creq'[p].overlapped = creq[p].overlapped
    BY <1>1, <2>1, <2>2, <2>6 DEF CharterReqType, CharterPcs, SchedulingPcs
  <2>8. KnowsSchedule(p)'
    <3>1. \A u \in CadenceTasks : Wanted(chart, u)' = Wanted(chart, u)
      BY <2>2 DEF Wanted
    <3>2. QED
      BY <1>1, <2>2, <2>5, <2>6, <2>7, <3>1 DEF KnowsSchedule, SchedulingPcs
  <2>9. QED
    BY <1>1, <1>5, <2>2, <2>5, <2>7, <2>8 DEF SchedulingPcs
<1>9. CASE syncDone(p)
  <2>1. /\ creq[p].pc = "upsert" /\ creq[p].todo = {} /\ alone' = ~creq[p].overlapped /\ cReturn(p)
        /\ UNCHANGED <<chart, charters, registry, edits>>
    BY <1>9 DEF syncDone
  <2>2. creq[p].overlapped \in BOOLEAN
    BY <1>1 DEF CharterReqType
  <2>3. /\ creq' \in [CharterReqs -> CharterReqType] /\ creq'[p].pc = "idle"
        /\ \A q \in CharterReqs : q # p => creq'[q] = creq[q]
    BY <1>1, <2>1, CharterReturns
  <2>4. (alone' = TRUE) => \A t \in CadenceTasks : registry'[t] = Wanted(chart, t)'
    <3>1. \A t \in CadenceTasks : Wanted(chart, t)' = Wanted(chart, t)
      BY <2>1 DEF Wanted
    <3>2. (alone' = TRUE) => creq[p].overlapped = FALSE
      BY <2>1, <2>2
    <3>3. QED
      BY <1>1, <2>1, <3>1, <3>2 DEF KnowsSchedule, SchedulingPcs
  <2>5. KnowsSchedule(p)'
    BY <2>3 DEF KnowsSchedule, SchedulingPcs
  <2>6. alone' \in BOOLEAN
    BY <2>1, <2>2
  <2>7. QED
    BY <1>1, <1>5, <2>1, <2>3, <2>4, <2>5, <2>6 DEF SchedulingPcs
<1>10. QED
  BY <1>2, <1>3, <1>4, <1>6, <1>7, <1>8, <1>9

\* However drafts, acceptances, cadence edits, reconciliations and failures of any
\* number of requests interleave: one charter is in force, no job runs faster than
\* the floor, and an undisturbed reconciliation leaves the stored chart's schedule.
THEOREM CompanyRuns == CharterSpec => []AcceptedCompanyRuns
<1>1. CharterInv /\ [CharterNext]_charterVars => CharterInv'
  <2> SUFFICES ASSUME CharterInv, [CharterNext]_charterVars PROVE CharterInv'
    OBVIOUS
  <2>1. CASE UNCHANGED charterVars
    <3>1. UNCHANGED <<chart, charters, registry, creq, edits, alone>>
      BY <2>1 DEF charterVars
    <3>2. CharterShape'
      BY <3>1 DEF CharterInv, CharterShape
    <3>3. ForceInv' /\ ScheduleInv'
      BY <3>1, ForceFrame, ScheduleFrame DEF CharterInv
    <3>4. QED
      BY <3>2, <3>3 DEF CharterInv
  <2>2. QED
    BY <2>1, DraftStep, ScheduleStep DEF CharterNext
<1>2. CharterInv => AcceptedCompanyRuns
  <2> SUFFICES ASSUME CharterInv PROVE OneCharterInForce /\ RegistryFollowsChart
    BY DEF AcceptedCompanyRuns
  <2>1. CharterShape /\ ForceInv /\ ScheduleInv
    BY DEF CharterInv
  <2>2. Cardinality(activeOf) = IF \E v \in DOMAIN charters : charters[v].status # "draft" THEN 1 ELSE 0
    <3>1. CASE Drafts
      <4>1. activeOf = {} /\ ~\E v \in DOMAIN charters : charters[v].status # "draft"
        BY <3>1 DEF Drafts, activeOf
      <4>2. QED
        BY <4>1, FS_EmptySet
    <3>2. CASE \E v \in DOMAIN charters : activeOf = {v}
      <4>1. PICK v \in DOMAIN charters : activeOf = {v}
        BY <3>2
      <4>2. charters[v].status = "active"
        BY <4>1 DEF activeOf
      <4>3. Cardinality({v}) = 1
        BY FS_Singleton
      <4>4. QED
        BY <4>1, <4>2, <4>3
    <3>3. QED
      BY <2>1, <3>1, <3>2 DEF ForceInv
  <2>3. \A v \in activeOf : \A e \in DOMAIN NoCascade : charters[v].cascade[e].of >= 0
    BY <2>1, CharterConstants DEF ForceInv, VersionSound, Generated, activeOf
  <2>4. \A t \in CadenceTasks : registry[t].every \notin {1, 4}
    <3> SUFFICES ASSUME NEW t \in CadenceTasks PROVE registry[t].every \notin {1, 4}
      OBVIOUS
    <3>1. registry[t] = Unregistered \/ registry[t] \in SlowOptions
      BY <2>1 DEF CharterShape
    <3>2. QED
      BY <3>1, FloorHolds
  <2>5. alone => \A t \in CadenceTasks :
           registry[t] = cadenceToRepeatOptions(clampCadenceToFloor(chart.cadence[t]))
    BY <2>1 DEF CharterShape, ScheduleInv, Wanted
  <2>6. QED
    BY <2>2, <2>3, <2>4, <2>5 DEF OneCharterInForce, RegistryFollowsChart
<1>3. QED
  BY <1>1, <1>2, CharterInitial, PTL DEF CharterSpec
=============================================================================
