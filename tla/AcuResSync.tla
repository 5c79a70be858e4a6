---------------------------- MODULE AcuResSync ----------------------------
(***************************************************************************)
(* SihotResSync: the propagation of reservation requests (requested units) *)
(* from Acumen to Sihot.                                                   *)
(*                                                                         *)
(* A user's transaction changes a row of T_RU; triggers date the change    *)
(* and leave an entry in the log T_RUL, with the hotel of the entry before *)
(* it.  A unit is unsynced while no entry of the log T_SRSL says SYNCED    *)
(* with a date not before the one of its newest T_RUL entry.  A run of     *)
(* SihotResSync fetches the unsynced units and passes over them three      *)
(* times: without rooms, so that rooms can be swapped within the batch; a  *)
(* cancellation in the old hotel of the units that moved; and the full     *)
(* data, logged and committed unit by unit.                                *)
(*                                                                         *)
(* Time.  Dates are only compared, so the clock is the number of changes   *)
(* dated: a change is dated clock + 1, a fetch clock.  0 is no date.       *)
(***************************************************************************)
EXTENDS Naturals

CONSTANTS
    Units,          \* requested units: RU_CODE, and the GDSNO in Sihot
    Hotels,         \* hotel ids, of Sihot and of other resorts
    SihotHotels,    \* the active hotels of Sihot (SIHOT_HOTELS)
    NoHotel,        \* no hotel
    Rooms,          \* apartments, of each hotel
    NoRoom,         \* no apartment allocated
    NoChange,       \* no open change of a unit
    NoEntry,        \* not in the batch
    Poison,         \* units that Sihot always refuses
    BreakOnError,   \* option breakOnError
    Faults,         \* kinds of fault that may happen
    MaxChanges,     \* bound: changes per unit
    MaxFaults       \* bound: faults per behaviour

FaultKinds == {"crash", "shFail", "shLostReply"}

Rows == [ver : Nat, hotel : Hotels \cup {NoHotel}, room : Rooms \cup {NoRoom}]

ChangeRecs == [row : Rows, date : Nat]

EntryRecs == [ver : Nat, hotel : Hotels \cup {NoHotel}, room : Rooms \cup {NoRoom},
              last : Hotels \cup {NoHotel}, date : Nat, obj : Hotels \cup {NoHotel}]

ASSUME ConstantsAssumption ==
    /\ SihotHotels \subseteq Hotels
    /\ NoHotel \notin Hotels
    /\ NoRoom \notin Rooms
    /\ NoChange \notin ChangeRecs
    /\ NoEntry \notin EntryRecs
    /\ Poison \subseteq Units
    /\ BreakOnError \in BOOLEAN
    /\ Faults \subseteq FaultKinds
    /\ MaxChanges \in Nat
    /\ MaxFaults \in Nat

VARIABLES
    \* Acumen, committed
    ru,             \* T_RU: version, hotel and room of a unit
    ruObj,          \* RU_SIHOT_OBJID: the hotel whose reservation it names
    rul,            \* newest T_RUL entry: RUL_DATE, RUL_SIHOT_LAST_HOTEL
    synced,         \* newest SRSL_DATE of a SYNCED entry
    \* Acumen, not committed
    tx,             \* change of a unit by a user's open transaction
    clock,          \* changes dated
    \* SihotResSync
    pc, batch, todo,
    lastFetch,      \* _last_fetch
    failed,         \* units refused in a pre-run
    \* Sihot
    sh,             \* per hotel and unit: alive, version, room
    \* environment and history
    faults,         \* faults so far
    late,           \* version that fell into the window of a late commit
    forgotten       \* units whose old hotel will not be told any more

acuVars  == <<ru, ruObj, rul, synced>>
userVars == <<tx, clock>>
runVars  == <<pc, batch, todo, lastFetch, failed>>
histVars == <<late, forgotten>>
vars == <<acuVars, userVars, runVars, sh, faults, histVars>>

Init ==
    /\ ru = [u \in Units |-> [ver |-> 0, hotel |-> NoHotel, room |-> NoRoom]]
    /\ ruObj = [u \in Units |-> NoHotel]
    /\ rul = [u \in Units |-> [date |-> 0, last |-> NoHotel]]
    /\ synced = [u \in Units |-> 0]
    /\ tx = [u \in Units |-> NoChange]
    /\ clock = 0
    /\ pc = "idle"
    /\ batch = [u \in Units |-> NoEntry]
    /\ todo = {}
    /\ lastFetch = 0
    /\ failed = {}
    /\ sh = [h \in SihotHotels |-> [u \in Units |-> [live |-> FALSE, ver |-> 0, room |-> NoRoom]]]
    /\ faults = 0
    /\ late = [u \in Units |-> 0]
    /\ forgotten = {}

Fault(f) ==
    /\ f \in Faults
    /\ faults < MaxFaults
    /\ faults' = faults + 1

-----------------------------------------------------------------------------
(***************************************************************************)
(* Acumen.                                                                 *)
(***************************************************************************)

\* V_ACU_RES_UNSYNCED: no SYNCED entry is as new as the change.
Unsynced(u) == rul[u].date > synced[u]

\* V_ACU_RES_FILTERED: only changes that concern a hotel of Sihot.
Filtered(u) == ru[u].hotel \in SihotHotels \/ rul[u].last \in SihotHotels

Queue == {u \in Units : Unsynced(u) /\ Filtered(u)}

\* Mutant: the entry does not remember where the unit was.
QueueEntryOwnHotel(u, hotel, date) == [date |-> date, last |-> hotel]

\* P_RUL_INSERT: the new newest entry.  It remembers the hotel of the entry before; where
\* the entry before is updated instead, it had this hotel already.
QueueEntry(u, hotel, date) ==
    [date |-> date, last |-> IF rul[u].date = 0 THEN hotel ELSE ru[u].hotel]

\* The newest entry asks for a cancellation in an old hotel, and is queued or never will be.
MovePending(u) ==
    /\ rul[u].last # ru[u].hotel
    /\ Unsynced(u) \/ late[u] = ru[u].ver

\* Acumen allocates an apartment to one unit at a time.
RoomsExclusive(rows) ==
    \A u, w \in Units :
        u # w /\ rows[u].hotel = rows[w].hotel /\ rows[u].room # NoRoom => rows[u].room # rows[w].room

\* A user creates or changes units in a transaction; the triggers date the changes.  The
\* rows are locked.
UserChange(S) ==
    /\ \A u \in S : tx[u] = NoChange /\ ru[u].ver < MaxChanges
    /\ clock' = clock + 1
    /\ \E hotel \in [S -> Hotels], room \in [S -> Rooms \cup {NoRoom}] :
          /\ \A u \in S : hotel[u] \notin SihotHotels => room[u] = NoRoom
          /\ tx' = [u \in Units |->
                       IF u \in S
                       THEN [row  |-> [ver |-> ru[u].ver + 1, hotel |-> hotel[u], room |-> room[u]],
                             date |-> clock + 1]
                       ELSE tx[u]]
          /\ RoomsExclusive([u \in Units |-> IF tx[u]' = NoChange THEN ru[u] ELSE tx[u]'.row])
    /\ UNCHANGED <<acuVars, runVars, sh, faults, histVars>>

\* A user commits the changes of one or of several units together.
UserCommit(S) ==
    /\ \A u \in S : tx[u] # NoChange
    /\ ru' = [u \in Units |-> IF u \in S THEN tx[u].row ELSE ru[u]]
    /\ RoomsExclusive(ru')
    /\ rul' = [u \in Units |-> IF u \in S THEN QueueEntry(u, tx[u].row.hotel, tx[u].date) ELSE rul[u]]
    /\ tx' = [u \in Units |-> IF u \in S THEN NoChange ELSE tx[u]]
    /\ late' = [u \in Units |-> IF u \in S /\ tx[u].date <= synced[u] THEN tx[u].row.ver ELSE late[u]]
    /\ forgotten' = forgotten \cup {u \in S : MovePending(u)}
    /\ UNCHANGED <<ruObj, synced, clock, runVars, sh, faults>>

-----------------------------------------------------------------------------
(***************************************************************************)
(* Sihot: finds a reservation by hotel and GDSNO, and refuses a room that  *)
(* another reservation of the hotel occupies.  What it says to an object   *)
(* id of another hotel is not known.                                       *)
(***************************************************************************)
Occupied(u, h, room) ==
    room # NoRoom /\ \E w \in Units \ {u} : sh[h][w].live /\ sh[h][w].room = room

Answers == {"ok", "refused", "lost"}

\* The answer to a request that has to be, or may be, refused.
Answer(a, mustRefuse, mayRefuse) ==
    \/ a = "ok" /\ ~mustRefuse /\ UNCHANGED faults
    \/ a = "refused" /\ (mustRefuse \/ mayRefuse) /\ UNCHANGED faults
    \/ a = "refused" /\ Fault("shFail")
    \/ a = "lost" /\ ~mustRefuse /\ Fault("shLostReply")

Foreign(obj, h) == obj # NoHotel /\ obj # h

ShUpsert(a, u, h, ver, room) ==
    sh' = IF a = "refused" THEN sh
          ELSE [sh EXCEPT ![h][u] = [live |-> TRUE, ver |-> ver, room |-> room]]

ShCancel(a, u, h) ==
    sh' = IF a = "refused" THEN sh ELSE [sh EXCEPT ![h][u].live = FALSE]

-----------------------------------------------------------------------------
(***************************************************************************)
(* SihotResSync.                                                           *)
(***************************************************************************)
InBatch(u) == batch[u] # NoEntry

\* Mutant: only units that have a room get into the first pre-run.
SwapSetWithRoom ==
    {u \in Units : InBatch(u) /\ batch[u].hotel = batch[u].last /\ batch[u].room # NoRoom}

SwapSet == {u \in Units : InBatch(u) /\ batch[u].hotel = batch[u].last}

MoveSet == {u \in Units : InBatch(u) /\ batch[u].last # batch[u].hotel /\ batch[u].last \in SihotHotels}

MainSet == {u \in Units : InBatch(u)}

\* The batch is ordered by the date of the change.
IsNext(u) ==
    /\ u \in todo
    /\ \A w \in todo : batch[u].date <= batch[w].date

Pass(p, S) == pc' = p /\ todo' = S

\* Mutant: the next run would find the work of this one.
EndRunLeavesTodo ==
    /\ pc' = "idle" /\ UNCHANGED todo
    /\ batch' = [u \in Units |-> NoEntry]
    /\ lastFetch' = 0
    /\ failed' = {}

EndRun ==
    /\ Pass("idle", {})
    /\ batch' = [u \in Units |-> NoEntry]
    /\ lastFetch' = 0
    /\ failed' = {}

\* The query: what it returns is committed when it starts.
RunSelect ==
    /\ pc = "idle"
    /\ batch' = [u \in Units |->
                    IF u \in Queue
                    THEN [ver |-> ru[u].ver, hotel |-> ru[u].hotel, room |-> ru[u].room,
                          last |-> rul[u].last, date |-> rul[u].date, obj |-> ruObj[u]]
                    ELSE NoEntry]
    /\ Pass("stamp", {})
    /\ UNCHANGED <<acuVars, userVars, lastFetch, failed, sh, faults, histVars>>

\* _last_fetch = now(), after the query has been executed.
RunStamp ==
    /\ pc = "stamp"
    /\ lastFetch' = clock
    /\ Pass("swap", SwapSet)
    /\ UNCHANGED <<acuVars, userVars, batch, failed, sh, faults, histVars>>

\* 1st pre-run: without the room; what Acumen stores of the answer is rolled back, after
\* it waited for the lock of a user who changes the row.
RunSwap(u) ==
    /\ pc = "swap" /\ IsNext(u)
    /\ \E a \in Answers :
          /\ Answer(a, u \in Poison, Foreign(batch[u].obj, batch[u].hotel))
          /\ a = "ok" => tx[u] = NoChange
          /\ ShUpsert(a, u, batch[u].hotel, batch[u].ver, NoRoom)
          /\ failed' = IF a = "refused" THEN failed \cup {u} ELSE failed
    /\ todo' = todo \ {u}
    /\ UNCHANGED <<acuVars, userVars, pc, batch, lastFetch, histVars>>

\* Mutant: the log entry is dated when it is written.
LogDateNow == clock

\* SRSL_DATE
LogDate == lastFetch

\* store_sihot_objid() and add_to_acumen_sync_log(), committed.  A new object id is a
\* change of T_RU, that the trigger dates and queues like a user's.
StoreAndLog(u, h) ==
    /\ tx[u] = NoChange
    /\ ruObj' = [ruObj EXCEPT ![u] = h]
    /\ synced' = [synced EXCEPT ![u] = LogDate]
    /\ IF ruObj[u] = h THEN UNCHANGED <<rul, clock>>
       ELSE /\ rul' = [rul EXCEPT ![u] = QueueEntry(u, ru[u].hotel, clock + 1)]
            /\ clock' = clock + 1
    /\ late' = IF ruObj[u] = h /\ rul[u].date # batch[u].date /\ rul[u].date <= lastFetch
               THEN [late EXCEPT ![u] = ru[u].ver] ELSE late
    /\ forgotten' = IF \/ u \in failed
                       \/ ruObj[u] # h /\ rul[u].date # batch[u].date /\ MovePending(u)
                    THEN forgotten \cup {u} ELSE forgotten
    /\ UNCHANGED <<ru, tx>>

\* Mutant: the cancellation goes to the hotel of the record.
CancelHotelOfRecord(u) ==
    IF batch[u].hotel \in SihotHotels THEN batch[u].hotel ELSE batch[u].last

CancelHotel(u) == batch[u].last

\* 2nd pre-run: cancels in the old hotel.  Rolled back like the first one, unless the main
\* run will skip the unit.  An error is only notified.
RunMove(u) ==
    /\ pc = "move" /\ IsNext(u)
    /\ \E a \in Answers :
          LET h == CancelHotel(u) IN
          /\ Answer(a, u \in Poison, Foreign(batch[u].obj, h) \/ ~sh[h][u].live)
          /\ a = "ok" => tx[u] = NoChange
          /\ ShCancel(a, u, h)
          /\ failed' = IF a = "refused" THEN failed \cup {u} ELSE failed
          /\ IF a = "ok" /\ batch[u].hotel \notin SihotHotels
             THEN StoreAndLog(u, h)
             ELSE UNCHANGED <<acuVars, userVars, histVars>>
    /\ todo' = todo \ {u}
    /\ UNCHANGED <<pc, batch, lastFetch>>

\* Main run: a unit that left the Sihot hotels is skipped,
RunSkip(u) ==
    /\ pc = "main" /\ IsNext(u)
    /\ batch[u].hotel \notin SihotHotels
    /\ todo' = todo \ {u}
    /\ UNCHANGED <<acuVars, userVars, pc, batch, lastFetch, failed, sh, faults, histVars>>

\* any other is sent in full; the object id of the old hotel is not sent to the new one.
SentObj(u) == IF u \in MoveSet THEN NoHotel ELSE batch[u].obj

\* Mutant: the first pre-run wipes the room of the record, not of a copy.
SentRoomWiped(u) == IF u \in SwapSet THEN NoRoom ELSE batch[u].room

SentRoom(u) == batch[u].room

RunMain(u) ==
    /\ pc = "main" /\ IsNext(u)
    /\ batch[u].hotel \in SihotHotels
    /\ \E a \in Answers :
          LET h == batch[u].hotel IN
          /\ Answer(a, u \in Poison \/ Occupied(u, h, SentRoom(u)), Foreign(SentObj(u), h))
          /\ ShUpsert(a, u, h, batch[u].ver, SentRoom(u))
          /\ IF a = "ok" THEN StoreAndLog(u, h) ELSE UNCHANGED <<acuVars, userVars, histVars>>
          /\ todo' = IF a # "ok" /\ BreakOnError THEN {} ELSE todo \ {u}
    /\ UNCHANGED <<pc, batch, lastFetch, failed>>

\* The end of a pass.
RunNextPass ==
    /\ todo = {}
    /\ \/ pc = "swap" /\ Pass("move", MoveSet) /\ UNCHANGED <<batch, lastFetch, failed>>
       \/ pc = "move" /\ Pass("main", MainSet) /\ UNCHANGED <<batch, lastFetch, failed>>
       \/ pc = "main" /\ EndRun
    /\ UNCHANGED <<acuVars, userVars, sh, faults, histVars>>

\* An exception, a failed fetch, or WatchPupPy kills the run.
Crash ==
    /\ pc # "idle"
    /\ Fault("crash")
    /\ EndRun
    /\ UNCHANGED <<acuVars, userVars, sh, histVars>>

-----------------------------------------------------------------------------
RunStep ==
    \/ RunSelect \/ RunStamp \/ RunNextPass
    \/ \E u \in Units : RunSwap(u) \/ RunMove(u) \/ RunSkip(u) \/ RunMain(u)

Next ==
    \/ \E S \in SUBSET Units \ {{}} : UserChange(S) \/ UserCommit(S)
    \/ RunStep
    \/ Crash

Spec == Init /\ [][Next]_vars

\* WatchPupPy starts the runs, and users end their transactions.
Fairness ==
    /\ WF_vars(RunStep)
    /\ WF_vars(\E S \in SUBSET Units \ {{}} : UserCommit(S))

FairSpec == Spec /\ Fairness

-----------------------------------------------------------------------------
(***************************************************************************)
(* Properties.                                                             *)
(***************************************************************************)
TypeAcu ==
    /\ ru \in [Units -> Rows]
    /\ ruObj \in [Units -> Hotels \cup {NoHotel}]
    /\ rul \in [Units -> [date : Nat, last : Hotels \cup {NoHotel}]]
    /\ synced \in [Units -> Nat]
    /\ tx \in [Units -> ChangeRecs \cup {NoChange}]
    /\ clock \in Nat

TypeRun ==
    /\ pc \in {"idle", "stamp", "swap", "move", "main"}
    /\ batch \in [Units -> EntryRecs \cup {NoEntry}]
    /\ todo \subseteq MainSet
    /\ lastFetch \in Nat
    /\ failed \subseteq Units

TypeSh ==
    /\ sh \in [SihotHotels -> [Units -> [live : BOOLEAN, ver : Nat, room : Rooms \cup {NoRoom}]]]

TypeHist ==
    /\ faults \in Nat
    /\ late \in [Units -> Nat]
    /\ forgotten \subseteq Units

\* Every variable keeps its type, and a run only works on units of its batch.
TypeOK == TypeAcu /\ TypeRun /\ TypeSh /\ TypeHist

\* Sihot has the data that Acumen has committed, in the unit's hotel and with its room.
Sent(u) ==
    sh[ru[u].hotel][u] = [live |-> TRUE, ver |-> ru[u].ver, room |-> ru[u].room]

\* README.md:1328: "On any change of the reservation within Acumen the reservation request
\* will be synchronized again onto Sihot": what Sihot has not got is still queued.
\* Does not hold (README, Findings).
SentOrQueued ==
    \A u \in Units : ru[u].hotel \in SihotHotels => Sent(u) \/ Unsynced(u)

\* The only change that is not queued and never sent is one that was dated before a fetch
\* and committed after its query.
SentOrQueuedOrLate ==
    \A u \in Units : ru[u].hotel \in SihotHotels =>
        Sent(u) \/ Unsynced(u) \/ late[u] = ru[u].ver

\* The strengthening of SentOrQueuedOrLate that every step preserves.  Dates are not ahead
\* of the clock, and an open change is newer than the entry that it will replace:
DatesInPast ==
    /\ lastFetch <= clock
    /\ \A u \in Units : synced[u] <= clock /\ rul[u].date <= clock
    /\ \A u \in Units : tx[u] # NoChange => rul[u].date < tx[u].date /\ tx[u].date <= clock

\* the batch holds the committed data of a unit unless its entry was dated again,
BatchIsCurrentOrOlder ==
    \A u \in MainSet :
        /\ batch[u].date <= rul[u].date
        /\ batch[u].date = rul[u].date =>
              ru[u] = [ver |-> batch[u].ver, hotel |-> batch[u].hotel, room |-> batch[u].room]

\* and a unit that this run may still send, or cancel, is queued.
StillToSend(u) ==
    \/ pc \in {"stamp", "swap"}
    \/ pc = "move" /\ (u \in todo \/ batch[u].hotel \in SihotHotels)
    \/ pc = "main" /\ u \in todo /\ batch[u].hotel \in SihotHotels

QueuedUntilLogged ==
    \A u \in MainSet : StillToSend(u) => synced[u] < batch[u].date

QueueInv == DatesInPast /\ BatchIsCurrentOrOlder /\ QueuedUntilLogged /\ SentOrQueuedOrLate

\* SihotResSync.py:168: "2nd pre-run for hotel movements (HOTMOVE) - to delete/cancel booking
\* in last/old hotel": a unit is alive in one hotel of Sihot, or the move is still queued.
\* Does not hold (README, Findings).
OldHotelCancelled ==
    \A u \in Units, h \in SihotHotels :
        sh[h][u].live /\ h # ru[u].hotel => Unsynced(u) /\ rul[u].last = h

\* The same but for units whose move fell into the window of a late commit, whose queued
\* move was replaced by a newer entry, or whose cancellation was refused.
OldHotelCancelledOrForgotten ==
    \A u \in Units, h \in SihotHotels :
        sh[h][u].live /\ h # ru[u].hotel =>
            \/ Unsynced(u) /\ rul[u].last = h
            \/ late[u] = ru[u].ver
            \/ u \in forgotten

\* SihotResSync.py:168, again: a move is logged as synced only when the reservation in the
\* old hotel is cancelled, or when Sihot refused to cancel it in this run.
MoveSyncedMeansCancelledOrRefused ==
    [][\A u \in MoveSet :
          synced'[u] # synced[u] => ~sh'[batch[u].last][u].live \/ u \in failed]_vars

\* The strengthening of the two.  Of a unit whose cancellation this run has tried, the old
\* hotel's reservation is cancelled, or was refused;
MovesDone ==
    pc \in {"move", "main"} =>
        \A u \in MoveSet :
            \/ pc = "move" /\ u \in todo
            \/ ~sh[batch[u].last][u].live
            \/ u \in failed

\* an entry that was not dated again names the old hotel that the batch names;
LastHotelInBatch ==
    \A u \in MainSet : batch[u].date = rul[u].date => batch[u].last = rul[u].last

\* a unit that Sihot knows, or is about to know, has an entry;
DatedIfKnown ==
    \A u \in Units : InBatch(u) \/ (\E h \in SihotHotels : sh[h][u].live) => rul[u].date # 0

\* and a hotel that is not the unit's, where it is alive or the run may still send it, is the
\* old hotel of its newest entry, or was forgotten.
WillCancel(u, h) ==
    \/ u \in forgotten
    \/ rul[u].last = h /\ (Unsynced(u) \/ late[u] = ru[u].ver)

OldHotelWillBeCancelled ==
    \A u \in Units, h \in SihotHotels :
        /\ sh[h][u].live \/ (InBatch(u) /\ batch[u].hotel = h)
        /\ h # ru[u].hotel
        => WillCancel(u, h)

MoveInv == MovesDone /\ LastHotelInBatch /\ DatedIfKnown /\ OldHotelWillBeCancelled

\* SihotResSync.py:147: "1st pre-run without room allocation - to allow room swaps in the
\* same batch": in the main run no room is occupied by another unit of the batch that the
\* pre-runs, without being refused, have wiped from the room or cancelled in the hotel.
RoomSwapsFit ==
    pc = "main" =>
        \A u \in todo, w \in MainSet \ failed :
            LET h == batch[u].hotel IN
            u # w /\ h \in SihotHotels /\ batch[w].last = h /\ batch[u].room # NoRoom =>
                ~(sh[h][w].live /\ sh[h][w].room = batch[u].room)

\* The strengthening of it: what is committed together, and so what a batch fetches, fits,
BatchFits ==
    \A u, w \in MainSet :
        u # w /\ batch[u].hotel = batch[w].hotel /\ batch[u].room # NoRoom =>
            batch[u].room # batch[w].room

\* and a unit that the first pre-run has done has no room in Sihot, or the one of the batch.
SwapsDone ==
    pc \in {"swap", "move", "main"} =>
        \A w \in SwapSet \ failed :
            \/ pc = "swap" /\ w \in todo
            \/ batch[w].hotel \notin SihotHotels
            \/ sh[batch[w].hotel][w].room \in {NoRoom, batch[w].room}

\* Sihot may refuse a unit for ever that has the object id of another hotel: the move from
\* that hotel was forgotten, or it went by way of a resort outside of Sihot.
MayBeStuck(u) ==
    /\ Foreign(ruObj[u], ru[u].hotel)
    /\ u \in forgotten \/ rul[u].last \notin SihotHotels

\* If no change is lost in the window of a late commit, then in the end every unit is sent
\* but those.
EventuallySent ==
    [](\A u \in Units : late[u] = 0) =>
        <>[](\A u \in Units \ Poison :
                ru[u].hotel \in SihotHotels => Sent(u) \/ MayBeStuck(u))
=============================================================================
