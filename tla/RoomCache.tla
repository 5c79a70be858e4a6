----------------------------- MODULE RoomCache ------------------------------
(***************************************************************************)
(* Room occupation in AssCache: oc_room_change() of BssServer writes the   *)
(* room and the times of a sub-reservation into res_groups.                *)
(***************************************************************************)
EXTENDS RoomEvents

CONSTANTS
    MainSubs,       \* sub-reservations with the number '1'
    Rental          \* bookings of a rental market segment: not sent

\* A sub-reservation belongs to one booking.
ASSUME SubsAssumption == \A a, b \in Alloc : Sub[a] = Sub[b] => Gds[a] = Gds[b]

Subs == {Sub[a] : a \in Alloc}

VARIABLES
    rgr,            \* res_groups: room (an allocation in it), and whether the times are set
    moving          \* room moves of which the first row is committed

cacheVars == <<eventVars, rgr, moving>>

CacheInit ==
    /\ EventsInit("BssServer")
    /\ rgr = [s \in Subs |-> [room |-> NoAlloc, timeIn |-> FALSE, timeOut |-> FALSE]]
    /\ moving = {}

\* sh_room_change_to_ass()
RoomChangedOutKept(s, oc, a) ==
    [rgr EXCEPT ![s] = [room    |-> a,
                        timeIn  |-> @.timeIn \/ oc = "CI",
                        timeOut |-> @.timeOut \/ oc = "CO"]]
RoomChanged(s, oc, a) ==
    [rgr EXCEPT ![s] = [room    |-> a,
                        timeIn  |-> @.timeIn \/ oc = "CI",
                        timeOut |-> oc = "CO" \/ (oc # "CI" /\ @.timeOut)]]

\* Sihot sends OSUB-NR if the move changes the sub-reservation.
NewSub(e) == e.oc = "RM" /\ Sub[e.old] # Sub[e.new]
SameSub(e) == e.oc = "RM" /\ Sub[e.old] = Sub[e.new]

Skipped(e) == Gds[e.new] \in Rental
Ignored(e) == SameSub(e) /\ Sub[e.new] \notin MainSubs

\* A notification that commits one row, or none.
OneRow(i) ==
    LET e == log[net[i]] IN
    /\ Skipped(e) \/ ~NewSub(e)
    /\ Take(i)
    /\ \/ /\ rgr' = IF Skipped(e) \/ Ignored(e) THEN rgr
                    ELSE RoomChanged(Sub[e.new], IF e.oc = "RM" THEN "RC" ELSE e.oc, e.new)
          /\ IF moving = {} THEN Ordered(i) ELSE Fault("reordered")
          /\ spoiled' = spoiled \cup OrderMark(i) \cup (IF moving = {} THEN {} ELSE {"reordered"})
                                \cup (IF Ignored(e) THEN {"ignored"} ELSE {})
       \/ /\ Fault("refused")
          /\ spoiled' = spoiled \cup {"lost"}
          /\ UNCHANGED rgr
    /\ UNCHANGED <<receiver, stay, today, log, moving>>

\* A move to another sub-reservation: first the check-out of the old one ...
FirstRowEnters(e) == RoomChanged(Sub[e.new], "CI", e.new)
FirstRow(e) == RoomChanged(Sub[e.old], "CO", e.old)

MoveOut(i) ==
    LET e == log[net[i]] IN
    /\ ~Skipped(e) /\ NewSub(e)
    /\ Take(i)
    /\ \/ /\ rgr' = FirstRow(e)
          /\ moving' = moving \cup {e}
          /\ IF moving = {} THEN Ordered(i) ELSE Fault("reordered")
          /\ spoiled' = spoiled \cup OrderMark(i) \cup (IF moving = {} THEN {} ELSE {"reordered"})
       \/ \* asd.error_message is still set, so that the second row is not written either
          /\ Fault("refused")
          /\ spoiled' = spoiled \cup {"lost"}
          /\ UNCHANGED <<rgr, moving>>
    /\ UNCHANGED <<receiver, stay, today, log>>

\* ... then, in a transaction of its own, the check-in of the new one.
MoveIn(e) ==
    /\ e \in moving
    /\ moving' = moving \ {e}
    /\ \/ rgr' = RoomChanged(Sub[e.new], "CI", e.new) /\ UNCHANGED <<faults, spoiled>>
       \/ /\ Fault("refused")
          /\ spoiled' = spoiled \cup {"half"}
          /\ UNCHANGED rgr
    /\ UNCHANGED <<receiver, stay, today, log, net>>

CacheLose(i) == Lose(i, {}) /\ UNCHANGED <<rgr, moving>>
CacheSihot == SihotStep /\ UNCHANGED <<rgr, moving>>

CacheNext ==
    \/ CacheSihot
    \/ \E i \in 1 .. Len(net) : OneRow(i) \/ MoveOut(i) \/ CacheLose(i)
    \/ \E e \in moving : MoveIn(e)

CacheSpec == CacheInit /\ [][CacheNext]_cacheVars

-----------------------------------------------------------------------------
ShownIn(s) == rgr[s].timeIn /\ ~rgr[s].timeOut

Known(s) == \E a \in Alloc : Sub[a] = s /\ Gds[a] \notin Rental

\* AssCache shows each sub-reservation where Sihot has it, also after moves to and fro, unless
\* an event was lost, overtaken, half written, or a move inside of a sub-reservation that is
\* not the first one.
CacheAgrees ==
    /\ receiver = "BssServer" /\ net = <<>> /\ moving = {}
    /\ spoiled \subseteq {"reentry", "noGds"}
    => \A s \in Subs : Known(s) =>
          /\ ShownIn(s) <=> \E a \in Alloc : Sub[a] = s /\ stay[a] = "in"
          /\ \A a \in Alloc : Sub[a] = s /\ stay[a] = "in" => rgr[s].room = a

\* No guest is shown in two rooms, not even between the two rows of a move.
NotInTwoRooms ==
    receiver = "BssServer" /\ spoiled \cap {"lost", "reordered"} = {}
    => \A a, b \in Alloc : Gds[a] = Gds[b] /\ ShownIn(Sub[a]) /\ ShownIn(Sub[b]) => Sub[a] = Sub[b]

-----------------------------------------------------------------------------
(***************************************************************************)
(* The strengthening of the two: AssCache shows where the guests of a      *)
(* booking were after the last event that was processed.                   *)
(***************************************************************************)
CacheTypes ==
    /\ EventTypes
    /\ receiver = "BssServer"
    /\ rgr \in [Subs -> [room : Alloc \cup {NoAlloc}, timeIn : BOOLEAN, timeOut : BOOLEAN]]
    /\ \A e \in moving : e.new \in Alloc

InOrder == spoiled \cap {"lost", "reordered"} = {}

\* As long as nothing is lost or overtaken, only the last event that was processed may be a
\* move with a second row to come.
MovingIsLast ==
    InOrder =>
        /\ NetInOrder
        /\ \A e \in moving : IsAt(log, Gds[e.new], Processed, e.new) /\ Gds[e.new] \notin Rental
        /\ \A e, f \in moving : e = f

Moving(g) == \E e \in moving : Gds[e.new] = g

\* What is shown is right,
ShownIsRight ==
    InOrder =>
        \A s \in Subs : ShownIn(s) =>
            \E x \in Alloc : /\ Sub[x] = s
                             /\ Gds[x] \notin Rental /\ ~Moving(Gds[x])
                             /\ IsAt(log, Gds[x], Processed, x)

\* and what is right is shown, unless a row was refused or an event ignored.
RightIsShown ==
    spoiled \subseteq {"reentry", "noGds"} =>
        \A x \in Alloc :
            IsAt(log, Gds[x], Processed, x) /\ Gds[x] \notin Rental /\ ~Moving(Gds[x]) =>
                ShownIn(Sub[x]) /\ rgr[Sub[x]].room = x

CacheInv == CacheTypes /\ LogIsStory /\ MovingIsLast /\ ShownIsRight /\ RightIsShown
=============================================================================
