------------------------------- MODULE ResIds -------------------------------
(***************************************************************************)
(* The ids of a reservation in AssCache (sys_data_ass.py): hotel,          *)
(* reservation and sub number, the object id of Sihot, the number of the   *)
(* booking channel (GDS) and the id in Salesforce.  Before a row of        *)
(* res_groups is written, rgr_upsert() asks Sihot for the ids that are     *)
(* missing.                                                                *)
(*                                                                         *)
(* A dict of column values is a function from some of the columns; "" is a *)
(* value that is empty or None.  The look-ups of Sihot belong to the       *)
(* library ae.sys_data_sh; what they answer is a constant.                 *)
(***************************************************************************)

CONSTANTS
    ResNoToIds(_, _, _),    \* ids [obj, gds, sf] of a reservation number; obj is "": not found
    GdsNoToIds(_, _),       \* the same of a hotel and a GDS number
    ObjIdToResNo(_)         \* number [ho, res, sub] of an object id; ho is "": not found

Number == {"ho", "res", "sub"}

\* dict.get()
Get(dict, col) == IF col \in DOMAIN dict THEN dict[col] ELSE ""

Has(dict, cols) == \A col \in cols : Get(dict, col) # ""

\* dict.update()
Updated(dict, new) ==
    [col \in DOMAIN dict \cup DOMAIN new |-> IF col \in DOMAIN new THEN new[col] ELSE dict[col]]

Part(dict, cols) == [col \in cols |-> dict[col]]

\* chk_values.get(col) or col_values.get(col)
ChkOrCol(chk, cols, col) == IF Get(chk, col) # "" THEN Get(chk, col) ELSE Get(cols, col)

\* The values a row is looked for by, if the caller names none: the first id that is complete.
MinChkValues(cols) ==
    IF Has(cols, Number) THEN Part(cols, Number)
    ELSE IF Has(cols, {"obj"}) THEN Part(cols, {"obj"})
    ELSE IF Has(cols, {"gds"}) THEN Part(cols, {"gds"})
    ELSE IF Has(cols, {"sf"}) THEN Part(cols, {"sf"})
    ELSE IF Has(cols, {"ho", "res"}) THEN [ho |-> cols["ho"], res |-> cols["res"], sub |-> "-1"]
    ELSE [col \in {} |-> ""]

\* What Sihot answers, asked by the number or else by the GDS number.
FetchedIds(cols, chk) ==
    LET id(col) == ChkOrCol(chk, cols, col)
    IN  IF id("ho") # "" /\ id("res") # "" /\ id("sub") # ""
        THEN ResNoToIds(id("ho"), id("res"), id("sub"))
        ELSE IF id("ho") # "" /\ id("gds") # "" THEN GdsNoToIds(id("ho"), id("gds"))
        ELSE [obj |-> "", gds |-> "", sf |-> ""]

\* The object id, and with it the other ids that Sihot knows, over those in cols.
WithObject(cols, chk) ==
    LET ids == FetchedIds(cols, chk)
    IN  IF ChkOrCol(chk, cols, "obj") # "" \/ ids["obj"] = "" THEN cols
        ELSE Updated(cols, [col \in {id \in {"obj", "gds", "sf"} : ids[id] # ""} |-> ids[col]])

NumberKnown(cols, chk) == Has(cols, Number) \/ Has(chk, Number)

\* The reservation number, by the object id; without one the sub number is guessed.
WithNumber(cols, chk) ==
    LET obj == ChkOrCol(chk, cols, "obj")
        found == ObjIdToResNo(obj)
    IN  IF NumberKnown(cols, chk) THEN cols
        ELSE IF obj # "" THEN IF found["ho"] = "" THEN cols ELSE Updated(cols, Part(found, Number))
        ELSE IF Has(cols, {"ho", "res"}) THEN Updated(cols, [sub |-> "0"])
        ELSE cols

\* rgr_complete_ids(): the columns afterwards, and if it returns True.
CompleteIds(cols, chk) ==
    LET object == WithObject(cols, chk)
        number == WithNumber(object, chk)
    IN  [cols |-> number,
         ok |-> IF NumberKnown(object, chk) THEN ChkOrCol(chk, object, "obj") # ""
                ELSE Has(number, Number)]

\* rgr_upsert() of a single row: the columns that it writes, or the error it gives instead.
Upsert(cols, chk) ==
    LET full == CompleteIds(cols, chk)
    IN  IF DOMAIN chk = {} THEN [error |-> "missing", cols |-> cols]
        ELSE IF ~full.ok THEN [error |-> "incomplete", cols |-> full.cols]
        ELSE [error |-> "", cols |-> full.cols]
-----------------------------------------------------------------------------
(* What rgr_complete_ids() promises and does.                              *)

\* What is written has a reservation number, in its columns or in the values its row is
\* looked for by (sys_data_ass.py:1026-1039).
NumberedOrRefused(cols, chk) ==
    Upsert(cols, chk).error = "" => NumberKnown(Upsert(cols, chk).cols, chk)

\* It has an object id too, as the docstring says (sys_data_ass.py:985), with one exception: a
\* reservation that Sihot does not find and that has no sub number gets the sub number 0.
ObjectOrSubGuessed(cols, chk) ==
    Upsert(cols, chk).error = ""
    => \/ ChkOrCol(chk, Upsert(cols, chk).cols, "obj") # ""
       \/ /\ ~NumberKnown(cols, chk) /\ Has(cols, {"ho", "res"})
          /\ Upsert(cols, chk).cols = Updated(cols, [sub |-> "0"])

\* An id of Sihot that the caller has is not replaced (sys_data_ass.py:990, 1026).
IdsAreKept(cols, chk) ==
    /\ Has(cols, {"obj"}) => Upsert(cols, chk).cols["obj"] = cols["obj"]
    /\ Has(cols, Number) => \A id \in Number : Upsert(cols, chk).cols[id] = cols[id]

\* The guess is never made for a reservation that is known by hotel and number only: its row is
\* looked for by the sub number -1 (sys_data_ass.py:975), which counts as a number.
GuessNotReached(cols) ==
    Has(cols, {"ho", "res"}) /\ (\A id \in {"sub", "obj", "gds", "sf"} : Get(cols, id) = "")
    => Upsert(cols, MinChkValues(cols)).error = "incomplete"
=============================================================================
