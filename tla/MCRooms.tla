------------------------------ MODULE MCRooms -------------------------------
(***************************************************************************)
(* Model checking of RoomAlloc and RoomCache: Sihot notifies either        *)
(* AcuServer or BssServer.                                                 *)
(*                                                                         *)
(* The booking g1 has two sub-reservations, the second one with two rooms; *)
(* the booking g2 comes into the first room of g1 on the day it leaves.    *)
(***************************************************************************)
EXTENDS RoomAlloc, RoomCache, TLC

CONSTANTS a1, a2, a3, b1, g1, g2

MCApt    == a1 :> "r1" @@ a2 :> "r2" @@ a3 :> "r3" @@ b1 :> "r1"
MCGds    == a1 :> g1 @@ a2 :> g1 @@ a3 :> g1 @@ b1 :> g2
MCSub    == a1 :> "1/1" @@ a2 :> "1/2" @@ a3 :> "1/2" @@ b1 :> "2/1"
MCArrive == a1 :> 0 @@ a2 :> 0 @@ a3 :> 0 @@ b1 :> 1
MCDepart == a1 :> 1 @@ a2 :> 1 @@ a3 :> 1 @@ b1 :> 2

CONSTANT Servers    \* who is notified

vars == <<allocVars, rgr, moving>>

UnusedAlloc == aro = <<>> /\ NotChecking
UnusedCache == rgr = <<>> /\ moving = {}

Init ==
    \/ "AcuServer" \in Servers /\ AllocInit /\ UnusedCache
    \/ "BssServer" \in Servers /\ CacheInit /\ UnusedAlloc

Next ==
    \/ receiver = "AcuServer" /\ AllocNext /\ UNCHANGED <<rgr, moving>>
    \/ receiver = "BssServer" /\ CacheNext /\ UNCHANGED <<aro, checkVars>>

Spec == Init /\ [][Next]_vars
=============================================================================
