--------------------------- MODULE MCAcuResSync ---------------------------
(***************************************************************************)
(* Model checking of AcuResSync: two hotels of Sihot and one outside of it *)
(* for the moves of one unit; two units and two apartments of one hotel    *)
(* for the swaps.                                                          *)
(***************************************************************************)
EXTENDS AcuResSync, TLC

Symmetry == Permutations(Units) \cup Permutations(Rooms) \cup Permutations(SihotHotels)
=============================================================================
