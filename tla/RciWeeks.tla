------------------------------- MODULE RciWeeks -------------------------------
(***************************************************************************)
(* The RCI weeks of sys_data_ass.py: which week of which RCI year an       *)
(* arrival belongs to.  res_save() uses the pair to find the timeshare     *)
(* week (res_inventories) behind a reservation, ri_allocated_room() to     *)
(* find out if an owner has been given the room.                           *)
(*                                                                         *)
(* A date is its proleptic Gregorian ordinal, as in Python's datetime: day *)
(* 1 is the first of January of year 1, a Monday.                          *)
(***************************************************************************)
EXTENDS Integers, Sequences

CONSTANT RcWeeks  \* the section RcWeeks of the configuration: [year -> begin of its first week]

\* The first of January.
Jan1(year) ==
    LET y == year - 1 IN 365 * y + (y \div 4) - (y \div 100) + (y \div 400) + 1

\* Monday is 0, as in date.weekday().
Weekday(date) == (date + 6) % 7

\* The first Friday of a year.
FirstFriday(year) == Jan1(year) + ((11 - Weekday(Jan1(year))) % 7)

\* rci_first_week_of_year(): as configured, else the first Friday.
FirstWeek(year) == IF year \in DOMAIN RcWeeks THEN RcWeeks[year] ELSE FirstFriday(year)

\* rci_arr_to_year_week(): year is the calendar year of arr.
ArrToYearWeek(year, arr) ==
    LET rciYear == IF arr < FirstWeek(year) THEN year - 1
                   ELSE IF arr > FirstWeek(year + 1) THEN year + 1
                   ELSE year
    IN  <<rciYear, 1 + ((arr - FirstWeek(rciYear)) \div 7)>>

\* sh_apt_wk_yr(): the key of a timeshare week, "apartment-week" with two digits, and its year.
AptWkYr(apt, year, arr) ==
    LET yw == ArrToYearWeek(year, arr) IN <<<<apt, yw[2]>>, yw[1]>>

\* ('0' + str(week))[:2] keeps the 0 and the first digit of a week of two digits.
CutWeek(week) == IF week < 10 THEN week ELSE week \div 10

\* room_no.lstrip('0'), of a room number as a sequence of its characters.
Stripped(room) ==
    LET zeros == {n \in 0 .. Len(room) : \A i \in 1 .. n : room[i] = "0"}
        last  == CHOOSE n \in zeros : \A k \in zeros : k <= n
    IN  SubSeq(room, last + 1, Len(room))

\* ri_allocated_room(): the owner's week has this room and is not swapped away.
AllocatedRoom(inventories, room, year, arr) ==
    LET yw == ArrToYearWeek(year, arr)
    IN  \E ri \in inventories :
            /\ ri.wkref = <<Stripped(room), CutWeek(yw[2])>>
            /\ ri.year = yw[1]
            /\ ri.granted = "HR" \/ ~ri.swapped \/ ri.roref \in {"RW", "RX", "rW"}
-------------------------------------------------------------------------------
\* The first weeks of a configuration: Fridays around the first of January.
WeeksAreFridays ==
    \A year \in DOMAIN RcWeeks :
        /\ RcWeeks[year] \in Int
        /\ Weekday(RcWeeks[year]) = 4
        /\ RcWeeks[year] - Jan1(year) \in -3 .. 6

\* arr is a day of that week, which is one of the 53 weeks at most of that RCI year.
LiesInWeek(arr, year, week) ==
    /\ week \in 1 .. 53
    /\ FirstWeek(year) + 7 * (week - 1) <= arr
    /\ arr < FirstWeek(year) + 7 * week
    /\ FirstWeek(year) + 7 * week <= FirstWeek(year + 1)

\* Every arrival gets the week it lies in (sys_data_ass.py:1312-1323), but for the first day of
\* an RCI year that begins in December of the year before.
WeekIsRight ==
    \A year \in Nat, arr \in Nat :
        (year > 1 /\ Jan1(year) <= arr /\ arr < Jan1(year + 1) /\ arr # FirstWeek(year + 1))
        => LiesInWeek(arr, ArrToYearWeek(year, arr)[1], ArrToYearWeek(year, arr)[2])

\* That day, which "arr_date > next_year_week_1_begin" leaves in the old year, gets a week
\* that this year does not have.
FirstDayIsWrong ==
    \A year \in Nat :
        (year > 1 /\ FirstWeek(year + 1) < Jan1(year + 1))
        => LET yw == ArrToYearWeek(year, FirstWeek(year + 1))
           IN  yw[1] = year /\ FirstWeek(yw[1] + 1) < FirstWeek(yw[1]) + 7 * yw[2]
===============================================================================
