--------------------------- MODULE MCApprovalQueue ---------------------------
(* TLC instances of ApprovalQueue.                                           *)
EXTENDS ApprovalQueue, TLC

CONSTANTS newsletter, billing

\* Every action of the instance has the same task type.
MCOneTaskType == [a \in Actions |-> newsletter]

MCSymmetry == Permutations(Requests)
=============================================================================
