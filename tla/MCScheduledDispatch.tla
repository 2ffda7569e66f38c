------------------------ MODULE MCScheduledDispatch ------------------------
(* Bounded instances of ScheduledDispatch for TLC. *)
EXTENDS ScheduledDispatch, TLC

Symmetry == Permutations(Workers) \cup Permutations(Requests)
=============================================================================
