----------------------------- MODULE SfReplica -----------------------------
(***************************************************************************)
(* What the Sihot -> Salesforce synchronisation promises about the data of *)
(* one reservation, without its mechanism: Salesforce holds a copy that is *)
(* some version Sihot has had, and a copy is only ever replaced by a newer *)
(* one.  Versions count the changes done in Sihot.                         *)
(***************************************************************************)
EXTENDS Naturals

CONSTANT Res            \* reservations (hotel id, reservation no, sub no)

VARIABLES
    source,             \* version of each reservation in Sihot
    replica             \* version Salesforce received last

vars == <<source, replica>>

TypeOK ==
    /\ source  \in [Res -> Nat]
    /\ replica \in [Res -> Nat]

Init ==
    /\ source  = [r \in Res |-> 0]
    /\ replica = [r \in Res |-> 0]

Change(r) ==
    /\ source' = [source EXCEPT ![r] = @ + 1]
    /\ UNCHANGED replica

Refresh(r) ==
    /\ \E v \in replica[r] .. source[r] : replica' = [replica EXCEPT ![r] = v]
    /\ UNCHANGED source

Next == \E r \in Res : Change(r) \/ Refresh(r)

Spec == Init /\ [][Next]_vars
=============================================================================
