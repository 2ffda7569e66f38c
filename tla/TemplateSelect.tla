---------------------------- MODULE TemplateSelect ----------------------------
(***************************************************************************)
(* Template selection (packages/agents/extraction/src/templateSelect.ts):  *)
(* the structured answers of the interview and the keywords of the idea     *)
(* score the seven templates; the best one wins, a close second is blended  *)
(* in, and the founder's own choice overrides both.                         *)
(*                                                                          *)
(* The idea's text is abstracted to `hits`, the number of keywords of each  *)
(* template it contains.                                                    *)
(***************************************************************************)
EXTENDS Templates, FiniteSetsExt

NoTemplate == "no-template"

Deliveries == {"software-saas", "shipped", "in-person", "online", "not-sure"}

InterviewAnswers ==
    [howDeliveryReaches : Deliveries, invoicedProjects : BOOLEAN, sellsToBusinesses : BOOLEAN,
     templateDisambiguation : BusinessTemplateIds \cup {NoTemplate}]

STRUCTURED_WEIGHT == 3

\* The bonus a delivery answer gives a template.
deliveryBonus(delivery, id) ==
    CASE delivery = "software-saas" /\ id = "saas" -> STRUCTURED_WEIGHT
      [] delivery = "shipped" /\ id \in {"ecommerce", "food-hospitality"} -> STRUCTURED_WEIGHT - 1
      [] delivery = "in-person" /\ id \in {"local", "physical-space"} -> STRUCTURED_WEIGHT - 1
      [] delivery = "online" /\ id = "content" -> STRUCTURED_WEIGHT - 1
      [] OTHER -> 0

structuredScores(answers) == [id \in BusinessTemplateIds |->
    deliveryBonus(answers.howDeliveryReaches, id)
    + (IF answers.invoicedProjects /\ id = "service" THEN STRUCTURED_WEIGHT ELSE 0)
    + (IF answers.sellsToBusinesses /\ id = "service" THEN 1 ELSE 0)]

TIEBREAK_PRIORITY ==
    <<"saas", "content", "physical-space", "food-hospitality", "local", "service", "ecommerce">>

tiebreakRank(id) == CHOOSE i \in DOMAIN TIEBREAK_PRIORITY : TIEBREAK_PRIORITY[i] = id

\* Templates whose score lies within 70% of the best are blended with it.
closeEnough(secondScore, bestScore) == 10 * secondScore >= 7 * bestScore

\* The scores of all templates: the structured bonus plus one per keyword hit.
scoresOf(answers, hits) == [id \in BusinessTemplateIds |-> structuredScores(answers)[id] + hits[id]]

\* The best of `ids` by score, the tie-break priority deciding between equals.
bestOf(scores, ids) ==
    CHOOSE a \in ids : \A b \in ids \ {a} :
        \/ scores[a] > scores[b]
        \/ scores[a] = scores[b] /\ tiebreakRank(a) < tiebreakRank(b)

\* The chosen template, the one blended in, and the two candidates the founder is
\* asked about when the choice is a close one.
selectTemplate(answers, hits) ==
    LET scores == scoresOf(answers, hits)
        best == bestOf(scores, BusinessTemplateIds)
        second == bestOf(scores, BusinessTemplateIds \ {best})
        blended == scores[best] > 0 /\ scores[second] > 0 /\ closeEnough(scores[second], scores[best])
        tie == scores[best] = scores[second]
    IN IF answers.templateDisambiguation # NoTemplate
       THEN [primary |-> answers.templateDisambiguation, blendedWith |-> NoTemplate, lowConfidence |-> FALSE]
       ELSE [primary |-> best,
             blendedWith |-> IF blended THEN second ELSE NoTemplate,
             lowConfidence |-> blended \/ tie]

TemplateSelections ==
    [primary : BusinessTemplateIds, blendedWith : BusinessTemplateIds \cup {NoTemplate},
     lowConfidence : BOOLEAN]
==============================================================================
