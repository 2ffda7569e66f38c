--------------------------- MODULE ActionLifecycle ---------------------------
(***************************************************************************)
(* What the approval queue promises about one proposed action, without its *)
(* processes, stores and autonomy counters: an action is reviewed or, if   *)
(* it carries no effect, may pass unreviewed; a reviewed one is approved   *)
(* or rejected once; only an approved one is dispatched, at most once.     *)
(***************************************************************************)
CONSTANTS Actions, HasEffect

VARIABLE life

States == {"new", "awaiting", "unreviewed", "approved", "rejected", "dispatched"}

LifeTypeOK == life \in [Actions -> States]

LifeInit == life = [a \in Actions |-> "new"]

Move(a, from, to) == life[a] = from /\ life' = [life EXCEPT ![a] = to]

Queue(a)    == Move(a, "new", "awaiting")
Pass(a)     == a \notin HasEffect /\ Move(a, "new", "unreviewed")
Approve(a)  == Move(a, "awaiting", "approved")
Reject(a)   == Move(a, "awaiting", "rejected")
Dispatch(a) == a \in HasEffect /\ Move(a, "approved", "dispatched")

LifeNext == \E a \in Actions : Queue(a) \/ Pass(a) \/ Approve(a) \/ Reject(a) \/ Dispatch(a)

LifeSpec == LifeInit /\ [][LifeNext]_life
=============================================================================
