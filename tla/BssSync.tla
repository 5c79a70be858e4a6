------------------------------ MODULE BssSync ------------------------------
(***************************************************************************)
(* BssServer: the propagation of Sihot reservation and room changes to     *)
(* Salesforce through the AssCache database.                               *)
(*                                                                         *)
(* Every notification of Sihot (CR for reservation data, CI/CO/RM for the  *)
(* room) is handled by a connection thread: it accepts the notification,   *)
(* reads the clock after it has connected to the database, then it upserts *)
(* the row of the reservation in ass_cache.res_groups with that time as    *)
(* last change: the threads may read the clock in another order than they  *)
(* accepted.  One sync thread, started by a timer, repeats:                *)
(* read the clock, select the oldest row that changed after its last sync, *)
(* fetch the reservation from Sihot, save it, send it to Salesforce, stamp *)
(* the row.  The threads share nothing but the rows.                       *)
(*                                                                         *)
(* Time.  A timestamp is only ever compared with others, so the clock is   *)
(* the number of change stamps handed out: a change stamp is clock + 1, a  *)
(* sync stamp is clock.  Hence "changed > synced" iff the change was       *)
(* stamped after the sync stamp was read.  0 is the database's null.       *)
(***************************************************************************)
EXTENDS Naturals, Sequences

CONSTANTS
    Res,            \* reservations: rows of res_groups, keyed (ho_fk, res_id, sub_id)
    NoRes,          \* no reservation
    Handlers,       \* connection threads of the TCP server
    AcuKnown,       \* reservations whose Opportunity Id is stored in Acumen
    Poison,         \* reservations that Salesforce rejects until their last change
    Faults,         \* kinds of fault that may happen
    MaxChanges,     \* bound: reservation changes per reservation
    MaxRoomChanges, \* bound: room changes per reservation
    MaxFaults       \* bound: faults per behaviour

FaultKinds == {"crash", "sfFail", "sfLostReply", "sfDelete", "dbFail", "shFail"}

ASSUME ConstantsAssumption ==
    /\ NoRes \notin Res
    /\ AcuKnown \subseteq Res
    /\ Poison \subseteq Res
    /\ Faults \subseteq FaultKinds
    /\ MaxChanges \in Nat
    /\ MaxRoomChanges \in Nat
    /\ MaxFaults \in Nat

\* A connection thread has not read the clock yet.
NoStamp == 0
NoHandling == [kind |-> "none", res |-> NoRes, ver |-> 0, stamp |-> NoStamp]

VARIABLES
    \* Sihot
    shRes,          \* number of changes of the data of a reservation
    shRoom,         \* number of changes of its room occupation
    net,            \* notifications not yet accepted by a connection thread
    \* connection threads
    handling,       \* notification in work and its action_time
    clock,          \* change stamps handed out
    \* ass_cache.res_groups
    rgr_last_change, rgr_last_sync,
    rgr_room_last_change, rgr_room_last_sync,
    rgr_room_id,    \* version of (rgr_room_id, rgr_time_in, rgr_time_out)
    rgr_sf_id,      \* number of the Reservation Opportunity, 0 if empty
    \* sync thread
    pc, action_time, job,
    \* Salesforce, per reservation
    oppCount,       \* Opportunities created; the number of the newest one
    oppLive,        \* reservations whose newest one is not deleted
    sfData, sfRoom, \* versions that the newest one holds
    \* environment and history
    faults,         \* faults so far
    acked,          \* newest change that a connection thread has committed
    ackedRoom,
    excused,        \* newest change that a loss window named below may lose
    excusedRoom

shVars    == <<shRes, shRoom>>
resCols   == <<rgr_last_change, rgr_last_sync>>
roomCols  == <<rgr_room_last_change, rgr_room_last_sync, rgr_room_id>>
cacheVars == <<resCols, roomCols, rgr_sf_id>>
runVars   == <<pc, action_time, job>>
sfVars    == <<oppCount, oppLive, sfData, sfRoom>>
histVars  == <<acked, ackedRoom, excused, excusedRoom>>
vars == <<shVars, net, handling, clock, cacheVars, runVars, sfVars, faults, histVars>>

Larger(a, b) == IF a < b THEN b ELSE a

NoJob == [res |-> NoRes, rowSfId |-> 0, sfId |-> 0, changed |-> 0, ver |-> 0, room |-> 0]

\* The Opportunity Id that Acumen knows (MS_SF_DL_ID): the first one of the reservation.
AcuSfId(r) == IF r \in AcuKnown THEN 1 ELSE 0

Init ==
    /\ shRes  = [r \in Res |-> 0]
    /\ shRoom = [r \in Res |-> 0]
    /\ net = <<>>
    /\ handling = [h \in Handlers |-> NoHandling]
    /\ clock = 0
    /\ rgr_last_change = [r \in Res |-> 0]
    /\ rgr_last_sync = [r \in Res |-> 0]
    /\ rgr_room_last_change = [r \in Res |-> 0]
    /\ rgr_room_last_sync = [r \in Res |-> 0]
    /\ rgr_room_id = [r \in Res |-> 0]
    /\ rgr_sf_id = [r \in Res |-> 0]
    /\ pc = "sleep"
    /\ action_time = 0
    /\ job = NoJob
    /\ oppCount = [r \in Res |-> AcuSfId(r)]
    /\ oppLive = AcuKnown
    /\ sfData = [r \in Res |-> 0]
    /\ sfRoom = [r \in Res |-> 0]
    /\ faults = 0
    /\ acked = [r \in Res |-> 0]
    /\ ackedRoom = [r \in Res |-> 0]
    /\ excused = [r \in Res |-> 0]
    /\ excusedRoom = [r \in Res |-> 0]

Fault(f) ==
    /\ f \in Faults
    /\ faults < MaxFaults
    /\ faults' = faults + 1

\* A row exists from its first upsert on (rgr_last_change is NOT NULL).
Exists(r) == rgr_last_change[r] > 0

\* The WHERE clauses of the two queries of run_sync_to_sf().
Dirty(r) == rgr_last_change[r] > rgr_last_sync[r]

RoomDirty(r) ==
    /\ rgr_sf_id[r] # 0
    /\ rgr_room_last_change[r] > rgr_room_last_sync[r]

\* The sync thread is between the two stamps that it sets on the row of r.
HalfStamped(r) == job.res = r /\ pc = "final"

\* The room of r was read from its row and is being sent.
SyncingRoom(r) == job.res = r /\ pc \in {"sendRoom", "finalRoom"}

-----------------------------------------------------------------------------
(***************************************************************************)
(* Sihot.                                                                  *)
(***************************************************************************)
Notification(k, r, v) == [kind |-> k, res |-> r, ver |-> v]

ShResChange(r) ==
    /\ shRes[r] < MaxChanges
    /\ shRes' = [shRes EXCEPT ![r] = @ + 1]
    /\ net' = Append(net, Notification("CR", r, shRes[r] + 1))
    /\ UNCHANGED <<shRoom, handling, clock, cacheVars, runVars, sfVars, faults, histVars>>

ShRoomChange(r) ==
    /\ shRoom[r] < MaxRoomChanges
    /\ shRoom' = [shRoom EXCEPT ![r] = @ + 1]
    /\ net' = Append(net, Notification("RC", r, shRoom[r] + 1))
    /\ UNCHANGED <<shRes, handling, clock, cacheVars, runVars, sfVars, faults, histVars>>

-----------------------------------------------------------------------------
(***************************************************************************)
(* Connection threads.                                                     *)
(***************************************************************************)

\* handle_xml(): a thread of its own takes the notification of each connection, reloads
\* the configuration, connects to the database and parses the XML.
Accept(h) ==
    /\ net # <<>>
    /\ handling[h] = NoHandling
    /\ LET n == Head(net) IN
        handling' = [handling EXCEPT ![h] =
            [kind |-> n.kind, res |-> n.res, ver |-> n.ver, stamp |-> NoStamp]]
    /\ net' = Tail(net)
    /\ UNCHANGED <<shVars, clock, cacheVars, runVars, sfVars, faults, histVars>>

\* action_time = now(), the first statement of oc_res_change() and oc_room_change(): any
\* thread that has accepted may be the next one to read the clock.
ReadClock(h) ==
    /\ handling[h] # NoHandling
    /\ handling[h].stamp = NoStamp
    /\ handling' = [handling EXCEPT ![h].stamp = clock + 1]
    /\ clock' = clock + 1
    /\ UNCHANGED <<shVars, net, cacheVars, runVars, sfVars, faults, histVars>>

\* oc_res_change(): rgr_upsert(rgr_last_change = action_time), committed.
ResCommit(h) ==
    LET r == handling[h].res
        s == handling[h].stamp
        v == handling[h].ver
    IN
    /\ handling[h].kind = "CR"
    /\ s # NoStamp
    /\ rgr_last_change' = [rgr_last_change EXCEPT ![r] = s]
    /\ handling' = [handling EXCEPT ![h] = NoHandling]
    /\ acked' = [acked EXCEPT ![r] = Larger(@, v)]
    \* window "overwritten": an older stamp replaces a newer one
    /\ excused' = IF s < rgr_last_change[r]
                  THEN [excused EXCEPT ![r] = Larger(@, acked[r])]
                  ELSE excused
    /\ UNCHANGED <<shVars, net, clock, rgr_last_sync, roomCols, rgr_sf_id, runVars, sfVars,
                   faults, ackedRoom, excusedRoom>>

\* oc_room_change() -> sh_room_change_to_ass(), committed.  A row inserted by it gets
\* the current time as rgr_last_change (column default).
RoomCommit(h) ==
    LET r == handling[h].res
        s == handling[h].stamp
        v == handling[h].ver
    IN
    /\ handling[h].kind = "RC"
    /\ s # NoStamp
    /\ rgr_room_id' = [rgr_room_id EXCEPT ![r] = v]
    /\ rgr_room_last_change' = [rgr_room_last_change EXCEPT ![r] = s]
    /\ IF Exists(r)
        THEN UNCHANGED <<rgr_last_change, clock>>
        ELSE /\ rgr_last_change' = [rgr_last_change EXCEPT ![r] = clock + 1]
             /\ clock' = clock + 1
    /\ handling' = [handling EXCEPT ![h] = NoHandling]
    /\ ackedRoom' = [ackedRoom EXCEPT ![r] = Larger(@, v)]
    \* windows "overtaken" and "late": an older room replaces a newer one, or the stamp is
    \* older than a sync stamp that is set or about to be set
    /\ excusedRoom' = IF \/ v < ackedRoom[r]
                         \/ s <= rgr_room_last_sync[r]
                         \/ SyncingRoom(r) /\ s <= action_time
                      THEN [excusedRoom EXCEPT ![r] = Larger(Larger(@, v), ackedRoom[r])]
                      ELSE excusedRoom
    /\ UNCHANGED <<shVars, net, rgr_last_sync, rgr_room_last_sync, rgr_sf_id, runVars, sfVars,
                   faults, acked, excused>>

\* The upsert fails (database error, or the ids of the reservation cannot be completed):
\* the notification is acknowledged with an error code and forgotten.
CommitFails(h) ==
    /\ handling[h] # NoHandling
    /\ Fault("dbFail")
    /\ handling' = [handling EXCEPT ![h] = NoHandling]
    /\ UNCHANGED <<shVars, net, clock, cacheVars, runVars, sfVars, histVars>>

-----------------------------------------------------------------------------
(***************************************************************************)
(* The sync thread: run_sync_to_sf().                                      *)
(***************************************************************************)
Goto(l) == pc' = l

\* The locals of a round are dead after it.
LeaveRound(l) ==
    /\ Goto(l)
    /\ action_time' = 0
    /\ job' = NoJob

\* run_sync_to_sf() starts the next timer as its last act.
EndRunWithoutTimer == LeaveRound("off")
EndRun == LeaveRound("sleep")

\* threading.Timer(interval, run_sync_to_sf)
TimerFires ==
    /\ pc = "sleep"
    /\ Goto("stamp")
    /\ UNCHANGED <<shVars, net, handling, clock, cacheVars, action_time, job, sfVars, faults, histVars>>

RunStamp ==
    /\ pc = "stamp"
    /\ action_time' = clock
    /\ Goto("selectRes")
    /\ UNCHANGED <<shVars, net, handling, clock, cacheVars, job, sfVars, faults, histVars>>

OldestDirty == {r \in Res : Dirty(r) /\ \A q \in Res : Dirty(q) => rgr_last_change[r] <= rgr_last_change[q]}

OldestRoomDirty == {r \in Res : RoomDirty(r) /\ \A q \in Res :
                       RoomDirty(q) => rgr_room_last_change[r] <= rgr_room_last_change[q]}

RunSelectRes ==
    /\ pc = "selectRes"
    /\ IF OldestDirty = {}
        THEN job' = NoJob
        ELSE \E r \in OldestDirty :
                job' = [NoJob EXCEPT !.res = r, !.rowSfId = rgr_sf_id[r], !.changed = rgr_last_change[r]]
    /\ Goto("selectRoom")
    /\ UNCHANGED <<shVars, net, handling, clock, cacheVars, action_time, sfVars, faults, histVars>>

\* res_changed and (not room_changed or res_changed <= room_changed)
ResIsNextUnchecked == \A q \in OldestRoomDirty : job.changed <= rgr_room_last_change[q]
ResIsNext == job.res # NoRes /\ \A q \in OldestRoomDirty : job.changed <= rgr_room_last_change[q]

\* The second query, and the choice of the older one of the two selected changes.
RunSelectRoom ==
    /\ pc = "selectRoom"
    /\ \/ /\ ResIsNext
          /\ Goto("fetch")
          /\ UNCHANGED <<action_time, job>>
       \/ \E q \in OldestRoomDirty :
          /\ job.res = NoRes \/ rgr_room_last_change[q] < job.changed
          /\ job' = [NoJob EXCEPT !.res = q, !.sfId = rgr_sf_id[q], !.room = rgr_room_id[q]]
          /\ Goto("sendRoom")
          /\ UNCHANGED action_time
       \/ /\ job.res = NoRes
          /\ OldestRoomDirty = {}
          /\ EndRun
    /\ UNCHANGED <<shVars, net, handling, clock, cacheVars, sfVars, faults, histVars>>

\* res_from_sh_to_sf(): ResFetch, and the Opportunity Id of Acumen if the row has none.
RunFetch ==
    /\ pc = "fetch"
    /\ job' = [job EXCEPT !.ver = shRes[job.res], !.room = shRoom[job.res],
                          !.sfId = IF job.rowSfId # 0 THEN job.rowSfId ELSE AcuSfId(job.res)]
    /\ Goto("save")
    /\ UNCHANGED <<shVars, net, handling, clock, cacheVars, action_time, sfVars, faults, histVars>>

\* res_save() writes the fetched columns into the row and commits.
RunSave ==
    LET r == job.res IN
    /\ pc = "save"
    /\ rgr_room_id' = [rgr_room_id EXCEPT ![r] = job.room]
    \* window "saved over": the row got a newer room after the fetch
    /\ excusedRoom' = IF job.room < rgr_room_id[r]
                      THEN [excusedRoom EXCEPT ![r] = Larger(@, ackedRoom[r])]
                      ELSE excusedRoom
    /\ Goto("send")
    /\ UNCHANGED <<shVars, net, handling, clock, resCols, rgr_room_last_change, rgr_room_last_sync,
                   rgr_sf_id, action_time, job, sfVars, faults, acked, ackedRoom, excused>>

\* The Opportunity with this number still exists in Salesforce.
OppAlive(r, id) == id = oppCount[r] /\ r \in oppLive

\* The data sent along: those of the fetch, whether the Opportunity exists or not.
SentDataOnlyToExisting(r) == IF OppAlive(r, job.sfId) THEN job.ver ELSE 0
SentData(r) == job.ver

\* What Salesforce does with reservation_upsert(): update the Opportunity, or create one
\* if no id is passed; an id that is gone makes sf_ass_res_upsert() retry without it.
SfUpsert(r) ==
    IF OppAlive(r, job.sfId)
    THEN /\ sfData' = [sfData EXCEPT ![r] = SentData(r)]
         /\ UNCHANGED <<oppCount, oppLive, sfRoom, excusedRoom>>
    ELSE /\ oppCount' = [oppCount EXCEPT ![r] = @ + 1]
         /\ oppLive' = oppLive \cup {r}
         /\ sfData' = [sfData EXCEPT ![r] = SentData(r)]
         /\ sfRoom' = [sfRoom EXCEPT ![r] = 0]
         \* window "recreated": the new Opportunity knows no room, but the row is room-clean
         /\ excusedRoom' = IF rgr_room_last_change[r] <= rgr_room_last_sync[r]
                           THEN [excusedRoom EXCEPT ![r] = Larger(@, ackedRoom[r])]
                           ELSE excusedRoom

\* Data that Salesforce rejects, until a user corrects them in Sihot.
Rejected(r, ver) == r \in Poison /\ ver < MaxChanges

RunSend ==
    LET r == job.res IN
    /\ pc = "send"
    /\ ~Rejected(r, job.ver)
    /\ SfUpsert(r)
    /\ job' = IF OppAlive(r, job.sfId) THEN job ELSE [job EXCEPT !.sfId = 0]
    /\ Goto("cache")
    /\ UNCHANGED <<shVars, net, handling, clock, cacheVars, action_time, faults, acked, ackedRoom, excused>>

\* Salesforce rejects the reservation: the error ends the run, the row keeps its stamps.
RunSendRejectedGoesOn ==
    /\ pc = "send"
    /\ Rejected(job.res, job.ver)
    /\ Goto("cache")
    /\ UNCHANGED <<shVars, net, handling, clock, cacheVars, action_time, job, sfVars, faults, histVars>>

RunSendRejected ==
    /\ pc = "send"
    /\ Rejected(job.res, job.ver)
    /\ EndRun
    /\ UNCHANGED <<shVars, net, handling, clock, cacheVars, sfVars, faults, histVars>>

\* The call is applied, but its reply gets lost.
RunSendLostReply ==
    /\ pc = "send"
    /\ ~Rejected(job.res, job.ver)
    /\ Fault("sfLostReply")
    /\ SfUpsert(job.res)
    /\ EndRun
    /\ UNCHANGED <<shVars, net, handling, clock, cacheVars, acked, ackedRoom, excused>>

\* if not sf_res_id and sf_opp_id: the row gets the id of the created Opportunity.
CachedSfIdNever(r) == rgr_sf_id[r]
CachedSfIdIfRowHadNone(r) == IF job.rowSfId = 0 THEN oppCount[r] ELSE rgr_sf_id[r]
CachedSfId(r) == IF job.sfId = 0 THEN oppCount[r] ELSE rgr_sf_id[r]

\* The end of sf_ass_res_upsert(): rgr_last_sync = now() and the id of a new Opportunity,
\* committed.
RunCache ==
    LET r == job.res IN
    /\ pc = "cache"
    /\ rgr_last_sync' = [rgr_last_sync EXCEPT ![r] = clock]
    /\ rgr_sf_id' = [rgr_sf_id EXCEPT ![r] = CachedSfId(r)]
    /\ Goto("final")
    /\ UNCHANGED <<shVars, net, handling, clock, rgr_last_change, roomCols, action_time, job, sfVars,
                   faults, histVars>>

\* cl_save() of the account that Salesforce returned fails: the id of a new Opportunity is
\* committed, the sync stamp is not, and the error ends the run.
RunCacheIdOnly ==
    /\ pc = "cache"
    /\ Fault("dbFail")
    /\ rgr_sf_id' = [rgr_sf_id EXCEPT ![job.res] = CachedSfId(job.res)]
    /\ EndRun
    /\ UNCHANGED <<shVars, net, handling, clock, resCols, roomCols, sfVars, histVars>>

\* if not ass_res_sf_id and rgr_sf_id: the row gets the id that Acumen knows.
FinalSfId(r) == IF job.rowSfId = 0 /\ AcuSfId(r) # 0 THEN AcuSfId(r) ELSE rgr_sf_id[r]

\* The sync stamps of a row are the time at which its round began, not the current time.
SyncStampNow == clock
SyncStamp == action_time

\* The end of res_from_sh_to_sf(): rgr_last_sync = action_time, committed.
RunFinal ==
    LET r == job.res IN
    /\ pc = "final"
    /\ rgr_last_sync' = [rgr_last_sync EXCEPT ![r] = SyncStamp]
    /\ rgr_sf_id' = [rgr_sf_id EXCEPT ![r] = FinalSfId(r)]
    /\ LeaveRound("stamp")
    /\ UNCHANGED <<shVars, net, handling, clock, rgr_last_change, roomCols, sfVars, faults, histVars>>

\* Window "stamped ahead": the run stops between its two stamps, and the first one, which
\* is later than the fetch, stays.  A change stamped after action_time may be lost.
ExcuseStampedAhead ==
    excused' = IF /\ pc = "final"
                  /\ \/ rgr_last_change[job.res] > action_time
                     \/ \E h \in Handlers : /\ handling[h].res = job.res
                                            /\ handling[h].stamp > action_time
               THEN [excused EXCEPT ![job.res] = shRes[job.res]]
               ELSE excused

\* A query, a fetch or an upsert of the run fails: the error message ends the run.
RunFails ==
    /\ \/ pc \in {"selectRes", "selectRoom", "save", "cache", "final", "finalRoom"} /\ Fault("dbFail")
       \/ pc = "fetch" /\ Fault("shFail")
       \/ pc \in {"send", "sendRoom"} /\ Fault("sfFail")
    /\ ExcuseStampedAhead
    /\ EndRun
    /\ UNCHANGED <<shVars, net, handling, clock, cacheVars, sfVars, acked, ackedRoom, excusedRoom>>

\* room_change_to_sf() -> sf_ass_room_change() with the values that the query returned.
RunSendRoom ==
    LET r == job.res IN
    /\ pc = "sendRoom"
    /\ OppAlive(r, job.sfId)
    /\ sfRoom' = [sfRoom EXCEPT ![r] = job.room]
    /\ \/ /\ Goto("finalRoom")
          /\ UNCHANGED <<action_time, job, faults>>
       \/ /\ Fault("sfLostReply")
          /\ EndRun
    /\ UNCHANGED <<shVars, net, handling, clock, cacheVars, oppCount, oppLive, sfData, histVars>>

\* The Opportunity is gone: the id is wiped in order to have the reservation synced again.
\* No error is reported, neither of Salesforce nor of this upsert.
RunRoomReset ==
    LET r == job.res IN
    /\ pc = "sendRoom"
    /\ ~OppAlive(r, job.sfId)
    /\ \/ /\ rgr_last_change' = [rgr_last_change EXCEPT ![r] = clock + 1]
          /\ clock' = clock + 1
          /\ rgr_sf_id' = [rgr_sf_id EXCEPT ![r] = 0]
          /\ UNCHANGED faults
       \/ /\ Fault("dbFail")
          /\ UNCHANGED <<rgr_last_change, clock, rgr_sf_id>>
    \* window "reset": the room change will be stamped as synced although it was not sent
    /\ excusedRoom' = [excusedRoom EXCEPT ![r] = Larger(@, ackedRoom[r])]
    /\ Goto("finalRoom")
    /\ UNCHANGED <<shVars, net, handling, rgr_last_sync, roomCols, action_time, job, sfVars,
                   acked, ackedRoom, excused>>

\* The end of room_change_to_sf(): rgr_room_last_sync = action_time, committed.
RunFinalRoom ==
    /\ pc = "finalRoom"
    /\ rgr_room_last_sync' = [rgr_room_last_sync EXCEPT ![job.res] = SyncStamp]
    /\ LeaveRound("stamp")
    /\ UNCHANGED <<shVars, net, handling, clock, resCols, rgr_room_last_change, rgr_room_id, rgr_sf_id,
                   sfVars, faults, histVars>>

-----------------------------------------------------------------------------
(***************************************************************************)
(* Environment.                                                            *)
(***************************************************************************)

\* A user deletes the Reservation Opportunity in Salesforce.
SfDelete(r) ==
    /\ r \in oppLive
    /\ Fault("sfDelete")
    /\ oppLive' = oppLive \ {r}
    /\ UNCHANGED <<shVars, net, handling, clock, cacheVars, runVars, oppCount, sfData, sfRoom, histVars>>

\* The process dies and WatchPupPy starts it again.  Notifications in work are gone.
Crash ==
    /\ Fault("crash")
    /\ handling' = [h \in Handlers |-> NoHandling]
    /\ ExcuseStampedAhead
    /\ EndRun
    /\ UNCHANGED <<shVars, net, clock, cacheVars, sfVars, acked, ackedRoom, excusedRoom>>

-----------------------------------------------------------------------------
RunStep ==
    \/ TimerFires \/ RunStamp \/ RunSelectRes \/ RunSelectRoom
    \/ RunFetch \/ RunSave \/ RunSend \/ RunSendRejected \/ RunSendLostReply
    \/ RunCache \/ RunCacheIdOnly \/ RunFinal
    \/ RunFails
    \/ RunSendRoom \/ RunRoomReset \/ RunFinalRoom

HandlerStep(h) == Accept(h) \/ ReadClock(h) \/ ResCommit(h) \/ RoomCommit(h) \/ CommitFails(h)

Next ==
    \/ \E r \in Res : ShResChange(r) \/ ShRoomChange(r) \/ SfDelete(r)
    \/ \E h \in Handlers : HandlerStep(h)
    \/ RunStep
    \/ Crash

Spec == Init /\ [][Next]_vars

\* Threads are scheduled and timers fire; nobody has to change or delete anything.
Fairness ==
    /\ WF_vars(RunStep)
    /\ \A h \in Handlers : WF_vars(HandlerStep(h))

FairSpec == Spec /\ Fairness

-----------------------------------------------------------------------------
(***************************************************************************)
(* Properties.                                                             *)
(***************************************************************************)
Notifications == [kind : {"CR", "RC"}, res : Res, ver : Nat]

RunLabels == {"sleep", "stamp", "selectRes", "selectRoom", "fetch", "save", "send", "cache", "final",
              "sendRoom", "finalRoom"}

TypeSihot ==
    /\ shRes \in [Res -> Nat]
    /\ shRoom \in [Res -> Nat]
    /\ net \in Seq(Notifications)

TypeHandling ==
    /\ handling \in [Handlers -> [kind : {"none", "CR", "RC"}, res : Res \cup {NoRes}, ver : Nat, stamp : Nat]]
    /\ \A h \in Handlers : handling[h].kind # "none" => handling[h].res \in Res
    /\ clock \in Nat

TypeCache ==
    /\ rgr_last_change \in [Res -> Nat]
    /\ rgr_last_sync \in [Res -> Nat]
    /\ rgr_room_last_change \in [Res -> Nat]
    /\ rgr_room_last_sync \in [Res -> Nat]
    /\ rgr_room_id \in [Res -> Nat]
    /\ rgr_sf_id \in [Res -> Nat]

TypeRun ==
    /\ pc \in RunLabels
    /\ action_time \in Nat
    /\ job \in [res : Res \cup {NoRes}, rowSfId : Nat, sfId : Nat, changed : Nat, ver : Nat, room : Nat]
    /\ pc \in {"fetch", "save", "send", "cache", "final", "sendRoom", "finalRoom"} => job.res \in Res

TypeSf ==
    /\ oppCount \in [Res -> Nat]
    /\ oppLive \subseteq Res
    /\ sfData \in [Res -> Nat]
    /\ sfRoom \in [Res -> Nat]

TypeHist ==
    /\ faults \in Nat
    /\ acked \in [Res -> Nat]
    /\ ackedRoom \in [Res -> Nat]
    /\ excused \in [Res -> Nat]
    /\ excusedRoom \in [Res -> Nat]

\* Every variable keeps its type; a notification in work and a row in sync name a reservation.
TypeOK == TypeSihot /\ TypeHandling /\ TypeCache /\ TypeRun /\ TypeSf /\ TypeHist

\* A change of a reservation that a connection thread has committed to AssCache is in
\* Salesforce, or its row is still selected by the next run, or it is being sent - or it
\* fell into one of the two windows that the history variable excused marks: a newer stamp
\* overwritten by an older one, and a run that stops between its two stamps.
ResDeliveredOrExcused ==
    \A r \in Res :
        \/ sfData[r] >= acked[r]
        \/ Dirty(r)
        \/ HalfStamped(r)
        \/ acked[r] <= excused[r]

\* The same for room changes; a row without Opportunity Id is waited for, not selected.
RoomDeliveredOrExcused ==
    \A r \in Res :
        \/ sfRoom[r] >= ackedRoom[r]
        \/ rgr_room_last_change[r] > rgr_room_last_sync[r]
        \/ ackedRoom[r] <= excusedRoom[r]

\* The strengthening of ResDeliveredOrExcused that every step preserves.  Stamps and
\* versions in use are never ahead of the clock and of Sihot:
StampsInPast ==
    /\ \A h \in Handlers : handling[h].stamp <= clock
    /\ \A r \in Res : rgr_last_change[r] <= clock /\ rgr_last_sync[r] <= clock
    /\ action_time <= clock

VersionsInPast ==
    /\ \A i \in 1 .. Len(net) : net[i].kind = "CR" => net[i].ver <= shRes[net[i].res]
    /\ \A h \in Handlers : handling[h].kind = "CR" => handling[h].ver <= shRes[handling[h].res]
    /\ \A r \in Res : acked[r] <= shRes[r] /\ sfData[r] <= shRes[r]

\* From the fetch on, the round has the newest data that Salesforce may hold,
InRound == pc \in {"save", "send", "cache", "final"}

JobInOrder ==
    /\ InRound => sfData[job.res] <= job.ver /\ job.ver <= shRes[job.res]
    /\ pc \in {"cache", "final"} => sfData[job.res] = job.ver

\* A notification in work that has, or will get, a change stamp later than t.
ToBeStampedAfter(h, t) == handling[h].stamp = NoStamp \/ handling[h].stamp > t

\* and a change which it has not got keeps the row dirty after the final stamp,
NewerIsStampedLater ==
    InRound =>
        /\ \A h \in Handlers : handling[h].kind = "CR" /\ handling[h].res = job.res =>
              handling[h].ver <= job.ver \/ ToBeStampedAfter(h, action_time)
        /\ \/ acked[job.res] <= job.ver
           \/ rgr_last_change[job.res] > action_time
           \/ acked[job.res] <= excused[job.res]

\* as a notification in work will, unless its change was delivered already.
InWorkWillBeDirty ==
    \A h \in Handlers : handling[h].kind = "CR" =>
        \/ HalfStamped(handling[h].res)
        \/ ToBeStampedAfter(h, rgr_last_sync[handling[h].res])
        \/ sfData[handling[h].res] >= handling[h].ver
        \/ handling[h].ver <= excused[handling[h].res]

DeliveryInv ==
    /\ StampsInPast /\ VersionsInPast /\ JobInOrder
    /\ NewerIsStampedLater /\ InWorkWillBeDirty
    /\ ResDeliveredOrExcused

\* The strengthening of RoomDeliveredOrExcused that every step preserves.  What a committed
\* room change may be excused from,
RoomExcused(r) == ackedRoom[r] <= excusedRoom[r]

\* a row has the newest room that was committed to it,
RowHasNewestRoom == \A r \in Res : ackedRoom[r] <= rgr_room_id[r] \/ RoomExcused(r)

\* and the room that is being sent is the newest one but for later stamped changes; the row
\* stays dirty until it is sent.
RoomJobInOrder ==
    /\ pc = "sendRoom" =>
          /\ \/ ackedRoom[job.res] <= job.room
             \/ rgr_room_last_change[job.res] > action_time
             \/ RoomExcused(job.res)
          /\ rgr_room_last_change[job.res] > rgr_room_last_sync[job.res] \/ RoomExcused(job.res)
    /\ pc = "finalRoom" =>
          \/ ackedRoom[job.res] <= sfRoom[job.res]
          \/ rgr_room_last_change[job.res] > action_time
          \/ RoomExcused(job.res)

RoomInv ==
    /\ RowHasNewestRoom /\ RoomJobInOrder
    /\ RoomDeliveredOrExcused

\* README.md:577: every action "will be ... bulk-propagated onto our Salesforce system":
\* a committed reservation change is in Salesforce, selected by the next run or being sent.
ResDelivered ==
    \A r \in Res : sfData[r] >= acked[r] \/ Dirty(r) \/ HalfStamped(r)

\* It holds if commits have the order of their stamps and no run stops between its two stamps:
OrderedCommits ==
    /\ \A g, h \in Handlers : g = h
    /\ Faults \cap {"crash", "dbFail"} = {}
    /\ MaxRoomChanges = 0

\* then nothing is ever excused.
NothingExcused ==
    /\ \A r \in Res : excused[r] = 0 /\ rgr_room_last_change[r] = 0
    /\ \A i \in 1 .. Len(net) : net[i].kind = "CR"
    /\ \A h \in Handlers :
          /\ handling[h].kind # "RC"
          /\ handling[h].kind = "CR" => \A r \in Res : ToBeStampedAfter(h, rgr_last_change[r])
    /\ pc \notin {"sendRoom", "finalRoom"}

\* The same for room changes.  Does not hold (README, Findings).
RoomDelivered ==
    \A r \in Res : sfRoom[r] >= ackedRoom[r] \/ rgr_room_last_change[r] > rgr_room_last_sync[r]

\* sys_data_ass.py:1430: "save just (re-)created ID of Reservation Opportunity in AssCache":
\* a row with an id that is not being synced holds the id of the newest Opportunity.
RowHoldsNewestOpp ==
    \A r \in Res : rgr_sf_id[r] # 0 => rgr_sf_id[r] = oppCount[r] \/ (job.res = r /\ pc = "cache")

\* A second Opportunity for a reservation is created only after the first got deleted.
NoDuplicateOpp ==
    [][\A r \in Res : oppCount'[r] # oppCount[r] => r \notin oppLive]_vars

\* Nothing goes wrong between the creation of an Opportunity and the commit of its id, and an
\* id that Acumen knows stays valid: otherwise there are duplicates (README, Findings).
NothingLost ==
    /\ Faults \cap {"crash", "dbFail", "sfLostReply"} = {}
    /\ AcuKnown = {} \/ "sfDelete" \notin Faults

\* The strengthening of RowHoldsNewestOpp that every step preserves if NothingLost.  The ids
\* in the locals of a round are those of the row or of Acumen, until the row gets the new one;
JobIdOfRow ==
    /\ (pc = "selectRoom" /\ job.res # NoRes) \/ pc \in {"fetch", "save", "send"} =>
          job.rowSfId = rgr_sf_id[job.res]
    /\ pc \in {"save", "send"} =>
          job.sfId = IF job.rowSfId # 0 THEN job.rowSfId ELSE AcuSfId(job.res)
    /\ pc = "cache" =>
          /\ job.sfId # 0 => \/ rgr_sf_id[job.res] = oppCount[job.res]
                             \/ rgr_sf_id[job.res] = 0 /\ job.res \in AcuKnown
          /\ oppCount[job.res] # 0
    /\ pc = "sendRoom" => job.sfId = rgr_sf_id[job.res] /\ job.sfId # 0

\* a row without id has no Opportunity, but one that Acumen knows,
OppOfRow ==
    \A r \in Res :
        /\ r \in oppLive => oppCount[r] # 0
        /\ r \in oppLive /\ rgr_sf_id[r] = 0 => r \in AcuKnown \/ (job.res = r /\ pc = "cache")
        /\ r \in AcuKnown => r \in oppLive /\ oppCount[r] = 1

OppInv == JobIdOfRow /\ OppOfRow /\ RowHoldsNewestOpp

\* Salesforce gets versions of Sihot, and never an older one after a newer one.
Replica == INSTANCE SfReplica WITH source <- shRes, replica <- sfData
ReplicaSpec == Replica!Spec

\* A reservation is due that Salesforce rejects as it is: its error ends every run.
Blocked == \E p \in Poison : Rejected(p, shRes[p]) /\ Dirty(p)

\* BssServer.py:293-336: every committed reservation change eventually arrives in
\* Salesforce, unless a rejected one ends the runs from some time on.
EventuallyDelivered ==
    \/ <>[]Blocked
    \/ \A r \in Res : \A v \in 1 .. MaxChanges : (acked[r] >= v) ~> (sfData[r] >= v)
=============================================================================
