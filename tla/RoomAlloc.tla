----------------------------- MODULE RoomAlloc ------------------------------
(***************************************************************************)
(* Room occupation in Acumen: AcuServer calls P_SIHOT_ALLOC with each      *)
(* event, and SihotOccLogChecker compares T_ARO with the log file of the   *)
(* interface and repairs what is missing.                                  *)
(*                                                                         *)
(* Of the times only matters whether they are set.  Statuses: 190 stands   *)
(* for all of not yet occupied (150, 190, 200, 220), 300 and 330 for       *)
(* checked in and moved in, 390 and 320 for checked out and moved out.     *)
(***************************************************************************)
EXTENDS RoomEvents

CONSTANTS
    MaxDaysDiff,    \* k.SihotRoomChangeMaxDaysDiff
    CheckDaysDiff,  \* maxDaysDiff of the log checker
    WholeDays,      \* dateFrom and dateTill of the log checker are dates, not times
    MaxChecks       \* bound: runs of the log checker

\* With maxDaysDiff 0 the log checker does not select the rows of the last day.
ASSUME AllocAssumption ==
    /\ MaxDaysDiff \in Nat /\ CheckDaysDiff \in Nat \ {0} /\ MaxChecks \in Nat
    /\ WholeDays \in BOOLEAN

Inside  == {300, 330}
Outside == {320, 390}

VARIABLES
    aro,            \* T_ARO: ARO_STATUS, and whether ARO_TIMEIN and ARO_TIMEOUT are set
    \* the run of the log checker
    phase, runs,
    dbRows,         \* the table as it was read
    roomStatus,     \* the occupation change that is to be checked next
    fixed,          \* fixed_res_ids
    calm            \* nothing else has happened since the table was read

checkVars == <<phase, runs, dbRows, roomStatus, fixed, calm>>
allocVars == <<eventVars, aro, checkVars>>

Nothing == [event |-> 0, leaves |-> TRUE]

NotChecking ==
    /\ phase = "off" /\ runs = 0
    /\ dbRows = <<>> /\ roomStatus = Nothing /\ fixed = {}
    /\ calm = TRUE

AllocInit ==
    /\ EventsInit("AcuServer")
    /\ aro = [a \in Alloc |-> [status |-> 190, timeIn |-> FALSE, timeOut |-> FALSE]]
    /\ NotChecking

-----------------------------------------------------------------------------
(***************************************************************************)
(* P_SIHOT_ALLOC                                                           *)
(***************************************************************************)

\* The rows of the apartment, and of the booking if the notification has one.
RowsOf(table, e, a, statuses) ==
    {b \in Alloc : /\ table[b].status \in statuses
                   /\ Apt[b] = Apt[a]
                   /\ e.gds => Gds[b] = Gds[e.new]}

OldAlloc(e) == IF e.oc = "RM" THEN e.old ELSE e.new

LeaveRows(e) == {b \in RowsOf(aro, e, OldAlloc(e), Inside) : today \in Depart[b] - MaxDaysDiff .. Depart[b]}

\* update T_ARO set ARO_TIMEOUT = sysdate, ARO_STATUS = case when 'RM' then 320 else 390 end
Left(e) ==
    IF e.oc = "CI" THEN aro
    ELSE [b \in Alloc |-> IF b \in LeaveRows(e)
                          THEN [aro[b] EXCEPT !.timeOut = TRUE, !.status = IF e.oc = "RM" THEN 320 ELSE 390]
                          ELSE aro[b]]

ArriveRows(table, e) == {b \in RowsOf(table, e, e.new, {190}) : today \in Arrive[b] .. Arrive[b] + MaxDaysDiff}
ReturnRows(table, e) == {b \in RowsOf(table, e, e.new, Outside) : today \in Arrive[b] .. Depart[b]}

InStatus(e) == IF e.oc = "RM" THEN 330 ELSE 300

\* A check-in of a row that waits for it; without one, the correction of an earlier check-out.
EnteredOnlyNew(table, e) ==
    IF e.oc = "CO" THEN table
    ELSE [b \in Alloc |-> IF b \in ArriveRows(table, e)
                          THEN [table[b] EXCEPT !.timeIn = TRUE, !.status = InStatus(e)]
                          ELSE table[b]]
EnteredTimeKept(table, e) ==
    IF e.oc = "CO" THEN table
    ELSE [b \in Alloc |-> IF b \in ArriveRows(table, e) \cup ReturnRows(table, e)
                          THEN [table[b] EXCEPT !.timeIn = TRUE, !.status = InStatus(e)]
                          ELSE table[b]]
Entered(table, e) ==
    IF e.oc = "CO" THEN table
    ELSE IF ArriveRows(table, e) # {}
    THEN [b \in Alloc |-> IF b \in ArriveRows(table, e)
                          THEN [table[b] EXCEPT !.timeIn = TRUE, !.status = InStatus(e)]
                          ELSE table[b]]
    ELSE [b \in Alloc |-> IF b \in ReturnRows(table, e)
                          THEN [table[b] EXCEPT !.timeOut = FALSE, !.status = InStatus(e)]
                          ELSE table[b]]

\* Window "outside": an event of a day that is too far from what Acumen expects.
OutsideDays(e) ==
    \/ e.oc # "CI" /\ today \notin Depart[OldAlloc(e)] - MaxDaysDiff .. Depart[OldAlloc(e)]
    \/ e.oc # "CO" /\ aro[e.new].status = 190 /\ today \notin Arrive[e.new] .. Arrive[e.new] + MaxDaysDiff

Marks(i) == OrderMark(i) \cup (IF OutsideDays(log[net[i]]) THEN {"outside"} ELSE {})

Disturb == calm' = FALSE /\ UNCHANGED <<phase, runs, dbRows, roomStatus, fixed>>

-----------------------------------------------------------------------------
(***************************************************************************)
(* AcuServer: a notification calls the procedure and logs to T_SRSL.  The  *)
(* table is committed together with that entry, or rolled back.            *)
(***************************************************************************)
AllocTrigger(i) ==
    LET e == log[net[i]] IN
    /\ Take(i)
    /\ \/ /\ aro' = Entered(Left(e), e)
          /\ Ordered(i)
          /\ spoiled' = spoiled \cup Marks(i)
       \/ /\ Fault("refused")
          /\ spoiled' = spoiled \cup {"lost"} \cup Marks(i)
          /\ UNCHANGED aro
    /\ Disturb
    /\ UNCHANGED <<receiver, stay, today, log>>

AllocLose(i) == Lose(i, Marks(i)) /\ Disturb /\ UNCHANGED aro

AllocSihot == SihotStep /\ Disturb /\ UNCHANGED aro

-----------------------------------------------------------------------------
(***************************************************************************)
(* SihotOccLogChecker                                                      *)
(***************************************************************************)

\* The rows are read once, before the log file.
CheckRead ==
    /\ phase \in {"off", "done"}
    /\ runs < MaxChecks
    /\ phase' = "read" /\ runs' = runs + 1
    /\ dbRows' = aro /\ roomStatus' = Nothing /\ fixed' = {}
    /\ calm' = TRUE
    /\ UNCHANGED <<eventVars, aro>>

Going(op) == op \in {"CO", "RO"}

\* Times in quarters of a day.  By default the time stamp of the log is compared with the
\* expected dates, which are midnights; it is truncated if the options are dates.
Midnight(day) == 4 * day
Noon(day)     == Midnight(day) + 2
Dtt(e) == IF WholeDays THEN Midnight(e.day) ELSE Midnight(e.day) + e.hour

\* Allocations of the apartment whose expected arrival or departure is near to the event:
\* check-ins until the midnight that begins the last day (daysCheckInBefore is 0), check-outs
\* until the noon of the day of departure (daysCheckOutAfter is 0.5).
NearRows(op, a, e, diff) ==
    {b \in Alloc : /\ Apt[b] = Apt[a]
                   /\ Dtt(e) \in IF Going(op) THEN Midnight(Depart[b] - diff) .. Noon(Depart[b])
                                 ELSE Midnight(Arrive[b]) .. Midnight(Arrive[b] + diff)}

\* More than one: those with the name of the guest (check-outs have none), then a smaller
\* difference of days, whatever the name.
Narrowed(op, a, e) ==
    LET named == {b \in NearRows(op, a, e, CheckDaysDiff) : op = "CO" \/ Gds[b] = Gds[a]}
        diffs == {d \in 0 .. CheckDaysDiff - 1 : Cardinality(NearRows(op, a, e, d)) = 1}
    IN  IF Cardinality(named) = 1 THEN named
        ELSE IF diffs # {} THEN NearRows(op, a, e, CHOOSE d \in diffs : \A c \in diffs : c <= d)
        ELSE NearRows(op, a, e, 0)

\* No one: a check-in into a long reservation of several chunks.
RowsAround(a, e) ==
    {b \in Alloc : Apt[b] = Apt[a] /\ Dtt(e) \in Midnight(Arrive[b]) .. Noon(Depart[b])}

Matching(op, a, e) ==
    LET near == NearRows(op, a, e, CheckDaysDiff) IN
    IF Cardinality(near) > 1 THEN Narrowed(op, a, e)
    ELSE IF near = {} /\ ~Going(op) THEN RowsAround(a, e)
    ELSE near

\* OccData of an event, if exactly one row matches the room that it leaves or enters.
HasChange(e, leaves) == IF leaves THEN e.oc # "CI" ELSE e.oc # "CO"
OpCode(e, leaves) ==
    IF leaves THEN IF e.oc = "RM" THEN "RO" ELSE "CO"
    ELSE IF e.oc = "RM" THEN "RI" ELSE "CI"
AllocOf(e, leaves) == IF leaves THEN OldAlloc(e) ELSE e.new

Found(e, leaves) ==
    LET rows == Matching(OpCode(e, leaves), AllocOf(e, leaves), e) IN
    IF HasChange(e, leaves) /\ Cardinality(rows) = 1
    THEN {[op |-> OpCode(e, leaves), row |-> b] : b \in rows}
    ELSE {}

\* The list room_status, reversed: of the events from the last one down to the first one the
\* room that is left, then the one that is entered.
NextOf(item) == IF item.leaves THEN [item EXCEPT !.leaves = FALSE]
                ELSE [event |-> item.event - 1, leaves |-> TRUE]

CheckLog ==
    /\ phase = "read"
    /\ phase' = "fix" /\ roomStatus' = [event |-> Len(log), leaves |-> TRUE]
    /\ UNCHANGED <<eventVars, aro, runs, dbRows, fixed, calm>>

\* fix_acu_discrepancies(): by the status that was read, the columns to be written.
MissingWhileIn(item) ==
    LET read == dbRows[item.row].status IN
    IF Going(item.op) THEN read \in Inside ELSE read \notin Inside \cup Outside
Missing(item) ==
    LET read == dbRows[item.row].status IN
    IF Going(item.op) THEN read \notin Outside ELSE read \notin Inside \cup Outside

FixedRow(item) ==
    IF Going(item.op)
    THEN IF dbRows[item.row].status \in Inside
         THEN [aro[item.row] EXCEPT !.status = 390, !.timeOut = TRUE]
         ELSE [status |-> IF item.op = "CO" THEN 390 ELSE 320, timeIn |-> TRUE, timeOut |-> TRUE]
    ELSE [status |-> IF item.op = "CI" THEN 300 ELSE 330, timeIn |-> TRUE, timeOut |-> FALSE]

\* A row that is fixed, or could not be written, is not looked at again.
CheckFix ==
    /\ phase = "fix"
    /\ roomStatus.event > 0
    /\ roomStatus' = NextOf(roomStatus)
    /\ LET found   == Found(log[roomStatus.event], roomStatus.leaves)
           fixable == {item \in found : item.row \notin fixed /\ Missing(item)}
       IN
       \/ \E item \in fixable :
             /\ fixed' = fixed \cup {item.row}
             /\ \/ /\ aro' = [aro EXCEPT ![item.row] = FixedRow(item)]
                   /\ spoiled' = IF calm THEN spoiled ELSE spoiled \cup {"raced"}
                   /\ UNCHANGED faults
                \/ /\ Fault("refused")
                   /\ spoiled' = spoiled \cup {"unfixed"}
                   /\ UNCHANGED aro
       \/ /\ fixable = {}
          /\ UNCHANGED <<fixed, aro, faults, spoiled>>
    /\ UNCHANGED <<receiver, stay, today, log, net, phase, runs, dbRows, calm>>

CheckEnd ==
    /\ phase = "fix"
    /\ roomStatus.event = 0
    /\ phase' = "done"
    /\ UNCHANGED <<eventVars, aro, runs, dbRows, roomStatus, fixed, calm>>

AllocNext ==
    \/ AllocSihot
    \/ \E i \in 1 .. Len(net) : AllocTrigger(i) \/ AllocLose(i)
    \/ CheckRead \/ CheckLog \/ CheckFix \/ CheckEnd

AllocSpec == AllocInit /\ [][AllocNext]_allocVars

-----------------------------------------------------------------------------
(***************************************************************************)
(* Properties.                                                             *)
(***************************************************************************)

\* The status and the times of T_ARO agree, in whatever order events are lost, repeated and
\* repaired; what a run of the log checker has read is never newer than the table.
RowAgrees(row) ==
    /\ row.status \in Inside \cup Outside => row.timeIn
    /\ row.status \in Outside <=> row.timeOut
    /\ row.status \in {190} \cup Inside \cup Outside

StatusTimes ==
    receiver = "AcuServer" =>
        \A a \in Alloc :
            /\ RowAgrees(aro[a])
            /\ phase \in {"read", "fix"} /\ dbRows[a].status \in Inside => aro[a].timeIn

InHouse(a) == aro[a].status \in Inside

\* Each event of the log with the room that it leaves or enters.
Changes == {c \in (1 .. Len(log)) \X BOOLEAN : HasChange(log[c[1]], c[2])}

NearTo(c) == NearRows(OpCode(log[c[1]], c[2]), AllocOf(log[c[1]], c[2]), log[c[1]], CheckDaysDiff)

\* No event is near to another allocation of its apartment, nor, near to none, an arrival in
\* the course of another one only,
Distinct ==
    \A c \in Changes :
        LET own == AllocOf(log[c[1]], c[2]) IN
        /\ NearTo(c) \subseteq {own}
        /\ NearTo(c) = {} /\ ~c[2] => \A b \in Alloc : RowsAround(own, log[c[1]]) = {b} => b = own

\* and each one is near to its own, or arrives in a stay that no other one overlaps.  The log
\* checker never looks for a check-out after noon of the day of departure.
Located ==
    \A c \in Changes :
        LET e == log[c[1]] IN
        \/ NearTo(c) # {}
        \/ ~c[2] /\ RowsAround(e.new, e) = {e.new}

\* Acumen shows the guests where Sihot has them, also after a check-out that was taken back
\* and after moves to and fro, unless the named windows were met: an event was lost, overtaken,
\* without booking number or too far from the expected day, or the log checker raced with it,
\* corrected an allocation that was entered twice, or took one for another.
AllocAgrees ==
    /\ receiver = "AcuServer" /\ net = <<>>
    /\ spoiled \subseteq {"reentry"}
    /\ runs = 0 \/ ("reentry" \notin spoiled /\ Distinct)
    => \A a \in Alloc : InHouse(a) <=> stay[a] = "in"

\* A run of the log checker over the complete log repairs every event that was lost, overtaken
\* or too far from the expected day for AcuServer, if no reservation was entered twice, each
\* event is near to its own allocation and to no other one, and nothing happens meanwhile.
CheckRepairs ==
    /\ phase = "done" /\ calm /\ net = <<>>
    /\ spoiled \subseteq {"lost", "reordered", "outside"}
    /\ Distinct /\ Located
    => \A a \in Alloc : InHouse(a) <=> stay[a] = "in"

\* "process reversed to detect&skip multiple occupation changes on same res"
\* (SihotOccLogChecker.py:468): a run leaves a table alone that was right when it was
\* read.  Does not hold (README, Findings).
CheckKeepsRight ==
    /\ phase = "done" /\ calm /\ net = <<>> /\ Distinct
    /\ \A a \in Alloc : dbRows[a].status \in Inside <=> stay[a] = "in"
    => \A a \in Alloc : InHouse(a) <=> stay[a] = "in"

-----------------------------------------------------------------------------
(***************************************************************************)
(* The strengthening of AllocAgrees and CheckRepairs.                      *)
(***************************************************************************)
EnteredBy(events, a, n) == \E i \in 1 .. n : events[i].oc # "CO" /\ events[i].new = a
LeftBy(events, a, n)    == \E i \in 1 .. n : events[i].oc # "CI" /\ OldAlloc(events[i]) = a

\* Without the log checker T_ARO follows the processed part of the log, also into a stay that
\* was left before.
FollowsLog ==
    /\ runs \in Nat /\ (runs = 0 => phase = "off")
    /\ runs = 0 /\ spoiled \subseteq {"reentry"} =>
          NetInOrder /\ \A a \in Alloc : InHouse(a) <=> IsAt(log, Gds[a], Processed, a)

\* If no stay is entered twice, an allocation is entered once, then left once.
OncePerStay ==
    "reentry" \notin spoiled =>
        /\ \A n \in 1 .. Len(log) : log[n].oc # "CO" => ~LeftBy(log, log[n].new, n - 1)
        /\ \A a \in Alloc :
              /\ stay[a] = "due" => ~EnteredBy(log, a, Len(log))
              /\ stay[a] = "in" => EnteredBy(log, a, Len(log)) /\ ~LeftBy(log, a, Len(log))
              /\ stay[a] = "out" => LeftBy(log, a, Len(log))

\* Then, whatever the log checker writes, T_ARO is not behind the events that were processed,
NotBehind ==
    spoiled = {} =>
        /\ NetInOrder
        /\ \A a \in Alloc : /\ EnteredBy(log, a, Processed) => aro[a].status # 190
                            /\ LeftBy(log, a, Processed) => aro[a].status \in Outside

\* and not ahead of the log.
NotAhead ==
    spoiled \subseteq {"lost", "reordered", "outside"} /\ Distinct =>
        \A a \in Alloc : /\ aro[a].status # 190 => EnteredBy(log, a, Len(log))
                         /\ aro[a].status \in Outside => LeftBy(log, a, Len(log))

\* A run of the log checker that nothing disturbs has only changed what it has fixed,
OnlyFixed ==
    /\ phase # "off" /\ calm => \A a \in Alloc : a \notin fixed => aro[a] = dbRows[a]
    /\ roomStatus \in [event : 0 .. Len(log), leaves : BOOLEAN] /\ fixed \subseteq Alloc
    /\ phase = "done" => roomStatus.event = 0
    /\ phase = "read" => fixed = {}

\* and the last change of each allocation decides what it has fixed.
Passed(c) == c[1] > roomStatus.event \/ (c[1] = roomStatus.event /\ c[2] /\ ~roomStatus.leaves)

LastDecides ==
    /\ phase \in {"fix", "done"} /\ calm
    /\ spoiled \subseteq {"lost", "reordered", "outside"} /\ Distinct /\ Located
    => /\ \A c \in Changes :
             LET a == AllocOf(log[c[1]], c[2]) IN
             Passed(c) /\ a \notin fixed =>
                dbRows[a].status \in IF c[2] THEN Outside ELSE Inside \cup Outside
       /\ \A a \in fixed : aro[a].status \in IF LeftBy(log, a, Len(log)) THEN Outside ELSE Inside

AllocFollows ==
    /\ receiver = "AcuServer" /\ EventTypes /\ LogIsStory /\ LogIsDated
    /\ FollowsLog /\ OncePerStay /\ NotBehind /\ NotAhead /\ OnlyFixed /\ LastDecides
=============================================================================
