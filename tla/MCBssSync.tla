---------------------------- MODULE MCBssSync ----------------------------
(***************************************************************************)
(* Model checking of BssSync: two reservations are enough for the choice   *)
(* of the older row and for one row blocking another; the bounds on        *)
(* changes and faults let a second change or fault overtake every step of  *)
(* the sync of the first.                                                  *)
(***************************************************************************)
EXTENDS BssSync, TLC

Symmetry == Permutations(Res) \cup Permutations(Handlers)
=============================================================================
