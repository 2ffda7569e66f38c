------------------------------ MODULE MCRouter ------------------------------
(* TLC instances of Router.  Permuting submissions would be a symmetry, but  *)
(* the runs check liveness, for which TLC's symmetry reduction is unsound.   *)
EXTENDS Router
=============================================================================
