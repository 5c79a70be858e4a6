----------------------------- MODULE MCResImport ----------------------------
(***************************************************************************)
(* Model checking of ResImport: two JSON files with versions of two        *)
(* bookings, and an RCI file.                                              *)
(***************************************************************************)
EXTENDS ResImport

CONSTANTS b1, b2

MCContents == {<<b1>>, <<b1, b2>>}
=============================================================================
