---------------------------- MODULE MCAssClients ----------------------------
(***************************************************************************)
(* Model checking of AssClients.  The guest g1 orders r1, where g2 travels *)
(* too, who is known there by one id only; g2 orders r2 alone, with both   *)
(* ids.                                                                    *)
(***************************************************************************)
EXTENDS AssClients, TLC

CONSTANTS r1, r2, g1, g2

MCguests ==
    [r \in Reservations |->
        IF r = r1
        THEN <<[who |-> g1, ids |-> {"ac", "sh"}], [who |-> g2, ids |-> {"ac"}]>>
        ELSE <<[who |-> g2, ids |-> {"ac", "sh"}]>>]
=============================================================================
