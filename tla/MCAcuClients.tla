--------------------------- MODULE MCAcuClients ---------------------------
(***************************************************************************)
(* Model checking of AcuClients: two clients and one reservation, every    *)
(* choice of couples, pseudo clients, orderer, occupant, refused person    *)
(* and options.                                                            *)
(***************************************************************************)
EXTENDS AcuClients

CONSTANTS c1, c2

\* Nobody, the second person of the couple, or the other client.
Refusals == {{}, {<<c1, 2>>}, {<<c2, 1>>}}
\* breakOnError makes a difference to more than one client only.
Configurations == [clientsFirst : {TRUE}, breakOnError : BOOLEAN]
                      \cup [clientsFirst : {FALSE}, breakOnError : {FALSE}]
=============================================================================
