---------------------------- MODULE MCSyncLock ----------------------------
(***************************************************************************)
(* Model checking of SyncLock: WatchPupPy beside the batches of a user,    *)
(* with an interval of two ticks, so that three intervals are more than a  *)
(* batch that is killed in time needs.                                     *)
(***************************************************************************)
EXTENDS SyncLock, TLC

CONSTANT m1     \* the user

=============================================================================
