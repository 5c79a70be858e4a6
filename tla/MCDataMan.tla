----------------------------- MODULE MCDataMan -----------------------------
(***************************************************************************)
(* Model checking of DataMan.  The client k1 is known to every system;     *)
(* AssCache and Acumen know one more, k2, that Salesforce does not know    *)
(* yet, and the reservation k1 names a guest, k3, that no system knows.    *)
(***************************************************************************)
EXTENDS DataMan, TLC

CONSTANTS k1, k2, k3, v1, v2

Act(sys, typ) == [sys |-> sys, typ |-> typ, chk |-> TRUE]
All(sys, typ) == [sys |-> sys, typ |-> typ, chk |-> FALSE]

Options(pulls, pushes, compares) ==
    {[pulls |-> pulls, pushes |-> pushes, compares |-> compares, breakOnError |-> b] :
        b \in BOOLEAN}

MCRuns ==
    UNION {
        Options(<<Act("Acu", "C"), Act("Ass", "C")>>, <<Act("Sh", "C")>>, <<Act("Sh", "C")>>),
        Options(<<Act("Ass", "C")>>, <<Act("Sf", "C"), Act("Ass", "C")>>, <<Act("Sf", "C")>>),
        Options(<<Act("Ass", "C")>>, <<Act("Acu", "C")>>, <<Act("Acu", "C"), Act("Ass", "C")>>),
        Options(<<Act("Acu", "C")>>, <<Act("Sf", "C"), Act("Sh", "C")>>, <<>>),
        Options(<<Act("Ass", "C"), Act("Sh", "R")>>, <<Act("Sf", "C"), Act("Ass", "R")>>,
                <<Act("Sf", "C")>>),
        Options(<<Act("Sf", "C")>>, <<>>, <<Act("Acu", "C")>>),
        Options(<<All("Sf", "C")>>, <<>>, <<All("Sh", "C")>>),
        Options(<<Act("Sh", "C")>>, <<Act("Ass", "R")>>, <<All("Sf", "C")>>),
        Options(<<All("Sh", "C")>>, <<>>, <<>>),
        Options(<<All("Sh", "R")>>, <<>>, <<>>),
        Options(<<Act("Ass", "R"), Act("Sh", "R")>>, <<Act("Sf", "R")>>, <<Act("Sf", "R")>>),
        Options(<<Act("Sf", "R")>>, <<Act("Ass", "R"), Act("Sh", "R")>>,
                <<Act("Ass", "R"), Act("Sh", "R"), All("Sh", "R")>>)}

MCStart ==
    [x \in Tables |->
        k3 :> None @@
        CASE x = <<"Ass", "C">> -> k1 :> [val |-> v2, sf |-> 1] @@ k2 :> [val |-> v2, sf |-> 0]
          [] x = <<"Acu", "C">> -> k1 :> [val |-> v1, sf |-> 1] @@ k2 :> [val |-> v1, sf |-> 0]
          [] OTHER              -> k1 :> [val |-> v1, sf |-> 0] @@ k2 :> None]

MCStartAccounts == <<[key |-> k1, val |-> v1]>>

MCGuests == [k \in Keys |-> IF k = k1 THEN {k1, k3} ELSE {}]
=============================================================================
