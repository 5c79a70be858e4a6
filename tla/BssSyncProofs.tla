--------------------------- MODULE BssSyncProofs ---------------------------
(***************************************************************************)
(* Theorems about BssSync for every set of reservations and of connection  *)
(* threads, and every bound on changes and faults, and about OcConfig for  *)
(* every set of threads and every choice of contents of its file.          *)
(*                                                                         *)
(* 1. Type correctness.                                                    *)
(* 2. No committed reservation change is lost outside of the named         *)
(*    windows, and Salesforce is a replica of Sihot that never goes back   *)
(*    in time: from the inductive invariant DeliveryInv.                   *)
(* 3. Without the windows, no reservation change is lost at all.           *)
(* 4. No committed room change is lost outside of the windows that         *)
(*    excusedRoom marks: from the inductive invariant RoomInv.             *)
(* 5. One Opportunity per reservation: from the inductive invariant OppInv.*)
(* 6. OcConfig: what a reload of the operation codes leaves, and how a     *)
(*    notification is treated: from the inductive invariant OcInv.         *)
(***************************************************************************)
EXTENDS BssSync, OcConfig, TLAPS

-----------------------------------------------------------------------------
(***************************************************************************)
(* 1. Types.  Which actions can change which part of the state.            *)
(***************************************************************************)
LEMMA SihotFrame ==
    ASSUME [Next]_vars
    PROVE  \/ UNCHANGED <<shVars, net>>
           \/ \E r \in Res : ShResChange(r) \/ ShRoomChange(r)
           \/ \E h \in Handlers : Accept(h)
BY DEF Next, HandlerStep, RunStep, vars, ShResChange, ShRoomChange, SfDelete, Accept, ReadClock, ResCommit, RoomCommit, CommitFails,
       TimerFires, RunStamp, RunSelectRes, RunSelectRoom, RunFetch, RunSave, RunSend,
       RunSendRejected, RunSendLostReply, RunCache, RunCacheIdOnly, RunFinal, RunFails,
       RunSendRoom, RunRoomReset, RunFinalRoom, Crash

LEMMA HandlingFrame ==
    ASSUME [Next]_vars
    PROVE  \/ UNCHANGED <<handling, clock>>
           \/ \E h \in Handlers : HandlerStep(h)
           \/ RunRoomReset \/ Crash
BY DEF Next, RunStep, vars, ShResChange, ShRoomChange, SfDelete, Accept, ReadClock, ResCommit, RoomCommit, CommitFails,
       TimerFires, RunStamp, RunSelectRes, RunSelectRoom, RunFetch, RunSave, RunSend,
       RunSendRejected, RunSendLostReply, RunCache, RunCacheIdOnly, RunFinal, RunFails,
       RunSendRoom, RunRoomReset, RunFinalRoom, Crash

LEMMA CacheFrame ==
    ASSUME [Next]_vars
    PROVE  \/ UNCHANGED cacheVars
           \/ \E h \in Handlers : ResCommit(h) \/ RoomCommit(h)
           \/ RunSave \/ RunCache \/ RunCacheIdOnly \/ RunFinal \/ RunRoomReset \/ RunFinalRoom
BY DEF Next, HandlerStep, RunStep, vars, cacheVars, resCols, roomCols, ShResChange, ShRoomChange, SfDelete, Accept, ReadClock, ResCommit, RoomCommit, CommitFails,
       TimerFires, RunStamp, RunSelectRes, RunSelectRoom, RunFetch, RunSave, RunSend,
       RunSendRejected, RunSendLostReply, RunCache, RunCacheIdOnly, RunFinal, RunFails,
       RunSendRoom, RunRoomReset, RunFinalRoom, Crash

LEMMA RunFrame ==
    ASSUME [Next]_vars
    PROVE  UNCHANGED runVars \/ RunStep \/ Crash
BY DEF Next, HandlerStep, vars, ShResChange, ShRoomChange, SfDelete, Accept, ReadClock, ResCommit, RoomCommit, CommitFails,
       TimerFires, RunStamp, RunSelectRes, RunSelectRoom, RunFetch, RunSave, RunSend,
       RunSendRejected, RunSendLostReply, RunCache, RunCacheIdOnly, RunFinal, RunFails,
       RunSendRoom, RunRoomReset, RunFinalRoom, Crash

LEMMA SfFrame ==
    ASSUME [Next]_vars
    PROVE  \/ UNCHANGED sfVars
           \/ \E r \in Res : SfDelete(r)
           \/ RunSend \/ RunSendLostReply \/ RunSendRoom
BY DEF Next, HandlerStep, RunStep, vars, sfVars, ShResChange, ShRoomChange, SfDelete, Accept, ReadClock, ResCommit, RoomCommit, CommitFails,
       TimerFires, RunStamp, RunSelectRes, RunSelectRoom, RunFetch, RunSave, RunSend,
       RunSendRejected, RunSendLostReply, RunCache, RunCacheIdOnly, RunFinal, RunFails,
       RunSendRoom, RunRoomReset, RunFinalRoom, Crash

LEMMA HistFrame ==
    ASSUME [Next]_vars
    PROVE  \/ UNCHANGED <<acked, ackedRoom, excused, excusedRoom>>
           \/ \E h \in Handlers : ResCommit(h) \/ RoomCommit(h)
           \/ RunSave \/ RunSend \/ RunSendLostReply \/ RunFails \/ RunRoomReset \/ Crash
BY DEF Next, HandlerStep, RunStep, vars, histVars, ShResChange, ShRoomChange, SfDelete, Accept, ReadClock, ResCommit, RoomCommit, CommitFails,
       TimerFires, RunStamp, RunSelectRes, RunSelectRoom, RunFetch, RunSave, RunSend,
       RunSendRejected, RunSendLostReply, RunCache, RunCacheIdOnly, RunFinal, RunFails,
       RunSendRoom, RunRoomReset, RunFinalRoom, Crash

LEMMA FaultsFrame ==
    ASSUME [Next]_vars
    PROVE  UNCHANGED faults \/ \E f \in FaultKinds : Fault(f)
BY DEF Next, HandlerStep, RunStep, vars, FaultKinds, ShResChange, ShRoomChange, SfDelete, Accept, ReadClock, ResCommit, RoomCommit, CommitFails,
       TimerFires, RunStamp, RunSelectRes, RunSelectRoom, RunFetch, RunSave, RunSend,
       RunSendRejected, RunSendLostReply, RunCache, RunCacheIdOnly, RunFinal, RunFails,
       RunSendRoom, RunRoomReset, RunFinalRoom, Crash

-----------------------------------------------------------------------------
(***************************************************************************)
(* Type correctness, one lemma for each part of the state.                 *)
(***************************************************************************)
LEMMA TypeInit == Init => TypeOK
BY ConstantsAssumption DEF ConstantsAssumption, Init, TypeOK, TypeSihot, TypeHandling, TypeCache,
   TypeRun, TypeSf, TypeHist, NoHandling, NoStamp, NoJob, RunLabels, AcuSfId, Notifications

\* Accepting a notification takes the oldest one and leaves the others.
LEMMA HeadTailType ==
    ASSUME NEW S, NEW q \in Seq(S), q # <<>>
    PROVE  Head(q) \in S /\ Tail(q) \in Seq(S)
OBVIOUS

LEMMA TypeSihotStep ==
    ASSUME TypeOK, [Next]_vars
    PROVE  TypeSihot'
<1>1. CASE UNCHANGED <<shVars, net>>
  BY <1>1 DEF TypeOK, TypeSihot, shVars
<1>2. ASSUME NEW r \in Res, ShResChange(r) \/ ShRoomChange(r) PROVE TypeSihot'
  <2>1. \A k \in {"CR", "RC"} : \A v \in Nat : Append(net, Notification(k, r, v)) \in Seq(Notifications)
    BY DEF TypeOK, TypeSihot, Notification, Notifications
  <2>2. shRes[r] + 1 \in Nat /\ shRoom[r] + 1 \in Nat
    BY DEF TypeOK, TypeSihot
  <2>3. net' \in Seq(Notifications)
    BY <1>2, <2>1, <2>2 DEF ShResChange, ShRoomChange
  <2>4. shRes' \in [Res -> Nat] /\ shRoom' \in [Res -> Nat]
    BY <1>2, <2>2 DEF TypeOK, TypeSihot, ShResChange, ShRoomChange
  <2> QED
    BY <2>3, <2>4 DEF TypeSihot
<1>3. ASSUME NEW h \in Handlers, Accept(h) PROVE TypeSihot'
  BY <1>3, HeadTailType DEF TypeOK, TypeSihot, Accept, shVars
<1> QED
  BY <1>1, <1>2, <1>3, SihotFrame

LEMMA TypeHandlingStep ==
    ASSUME TypeOK, [Next]_vars
    PROVE  TypeHandling'
<1>1. CASE UNCHANGED <<handling, clock>>
  BY <1>1 DEF TypeOK, TypeHandling
<1>2. ASSUME NEW h \in Handlers, Accept(h) PROVE TypeHandling'
  <2>1. Head(net) \in Notifications
    BY <1>2, HeadTailType DEF TypeOK, TypeSihot, Accept
  <2> QED
    BY <1>2, <2>1 DEF TypeOK, TypeHandling, Accept, Notifications, NoStamp
<1>3. ASSUME NEW h \in Handlers, ResCommit(h) PROVE TypeHandling'
  BY <1>3 DEF TypeOK, TypeHandling, ResCommit, NoHandling, NoStamp
<1>4. ASSUME NEW h \in Handlers, RoomCommit(h) PROVE TypeHandling'
  BY <1>4 DEF TypeOK, TypeHandling, RoomCommit, NoHandling, NoStamp
<1>5. ASSUME NEW h \in Handlers, CommitFails(h) PROVE TypeHandling'
  BY <1>5 DEF TypeOK, TypeHandling, CommitFails, NoHandling, NoStamp
<1>6. CASE RunRoomReset
  BY <1>6 DEF TypeOK, TypeHandling, RunRoomReset
<1>7. CASE Crash
  BY <1>7 DEF TypeOK, TypeHandling, Crash, NoHandling, NoStamp
<1>8. ASSUME NEW h \in Handlers, ReadClock(h) PROVE TypeHandling'
  <2>1. clock + 1 \in Nat /\ clock' = clock + 1
    BY <1>8 DEF TypeOK, TypeHandling, ReadClock
  <2> QED
    BY <1>8, <2>1 DEF TypeOK, TypeHandling, ReadClock
<1> QED
  BY <1>1, <1>2, <1>3, <1>4, <1>5, <1>6, <1>7, <1>8, HandlingFrame DEF HandlerStep

LEMMA TypeCacheStep ==
    ASSUME TypeOK, [Next]_vars
    PROVE  TypeCache'
<1> USE DEF TypeCache, resCols, roomCols
<1>1. CASE UNCHANGED cacheVars
  BY <1>1 DEF TypeOK, cacheVars
<1>2. ASSUME NEW h \in Handlers, ResCommit(h) PROVE TypeCache'
  BY <1>2 DEF TypeOK, TypeHandling, ResCommit
<1>3. ASSUME NEW h \in Handlers, RoomCommit(h) PROVE TypeCache'
  BY <1>3 DEF TypeOK, TypeHandling, RoomCommit
<1>4. CASE RunSave
  BY <1>4 DEF TypeOK, TypeRun, RunSave
<1>5. CASE RunCache \/ RunCacheIdOnly
  BY <1>5 DEF TypeOK, TypeHandling, TypeRun, TypeSf, RunCache, RunCacheIdOnly, CachedSfId
<1>6. CASE RunFinal
  BY <1>6 DEF TypeOK, TypeRun, RunFinal, FinalSfId, AcuSfId, SyncStamp
<1>7. CASE RunRoomReset
  BY <1>7 DEF TypeOK, TypeHandling, TypeRun, RunRoomReset
<1>8. CASE RunFinalRoom
  BY <1>8 DEF TypeOK, TypeRun, RunFinalRoom, SyncStamp
<1> QED
  BY <1>1, <1>2, <1>3, <1>4, <1>5, <1>6, <1>7, <1>8, CacheFrame

LEMMA TypeRunStep ==
    ASSUME TypeOK, [Next]_vars
    PROVE  TypeRun'
<1> USE DEF TypeRun, RunLabels, Goto
<1>0. ASSUME LeaveRound("sleep") \/ LeaveRound("stamp") PROVE TypeRun'
  BY <1>0 DEF LeaveRound, NoJob
<1>1. CASE UNCHANGED runVars
  BY <1>1 DEF TypeOK, runVars
<1>2. CASE TimerFires \/ RunStamp
  BY <1>2 DEF TypeOK, TypeHandling, TimerFires, RunStamp
<1>3. CASE RunSelectRes
  <2>1. job' \in [res : Res \cup {NoRes}, rowSfId : Nat, sfId : Nat, changed : Nat, ver : Nat, room : Nat]
    <3>1. CASE OldestDirty = {}
      BY <3>1, <1>3 DEF RunSelectRes, NoJob
    <3>2. ASSUME NEW r \in OldestDirty,
                 job' = [NoJob EXCEPT !.res = r, !.rowSfId = rgr_sf_id[r], !.changed = rgr_last_change[r]]
          PROVE  job' \in [res : Res \cup {NoRes}, rowSfId : Nat, sfId : Nat, changed : Nat, ver : Nat, room : Nat]
      <4>1. r \in Res /\ rgr_sf_id[r] \in Nat /\ rgr_last_change[r] \in Nat
        BY <3>2 DEF OldestDirty, TypeOK, TypeCache
      <4> QED
        BY <4>1, <3>2 DEF NoJob
    <3> QED
      BY <3>1, <3>2, <1>3 DEF RunSelectRes
  <2>2. action_time' \in Nat /\ pc' = "selectRoom"
    BY <1>3 DEF RunSelectRes, TypeOK
  <2> QED
    BY <2>1, <2>2
<1>4. CASE RunSelectRoom
  <2>1. CASE ResIsNext /\ Goto("fetch") /\ UNCHANGED <<action_time, job>>
    BY <2>1, <1>4 DEF TypeOK, RunSelectRoom, ResIsNext
  <2>2. ASSUME NEW q \in Res, Goto("sendRoom"), UNCHANGED action_time,
               job' = [NoJob EXCEPT !.res = q, !.sfId = rgr_sf_id[q], !.room = rgr_room_id[q]]
        PROVE  TypeRun'
    BY <2>2 DEF TypeOK, TypeCache, NoJob
  <2>3. CASE EndRun
    BY <2>3, <1>0 DEF EndRun
  <2> QED
    BY <1>4, <2>1, <2>2, <2>3 DEF RunSelectRoom, OldestRoomDirty
<1>5. CASE RunFetch
  BY <1>5 DEF TypeOK, TypeSihot, RunFetch, AcuSfId
<1>6. CASE RunSave
  BY <1>6 DEF TypeOK, RunSave
<1>7. CASE RunSend
  BY <1>7 DEF TypeOK, RunSend
<1>8. CASE RunSendRejected \/ RunSendLostReply \/ RunCacheIdOnly \/ RunFails \/ Crash
  BY <1>8, <1>0 DEF RunSendRejected, RunSendLostReply, RunCacheIdOnly, RunFails, Crash, EndRun
<1>9. CASE RunCache
  BY <1>9 DEF TypeOK, RunCache
<1>10. CASE RunFinal \/ RunFinalRoom
  BY <1>10, <1>0 DEF RunFinal, RunFinalRoom
<1>11. CASE RunSendRoom
  <2>1. CASE EndRun
    BY <2>1, <1>0 DEF EndRun
  <2>2. CASE Goto("finalRoom") /\ UNCHANGED <<action_time, job>>
    BY <2>2, <1>11 DEF TypeOK, RunSendRoom
  <2> QED
    BY <1>11, <2>1, <2>2 DEF RunSendRoom
<1>12. CASE RunRoomReset
  BY <1>12 DEF TypeOK, RunRoomReset
<1> QED
  BY <1>1, <1>2, <1>3, <1>4, <1>5, <1>6, <1>7, <1>8, <1>9, <1>10, <1>11, <1>12, RunFrame DEF RunStep

LEMMA TypeSfStep ==
    ASSUME TypeOK, [Next]_vars
    PROVE  TypeSf'
<1> USE DEF TypeSf
<1>1. CASE UNCHANGED sfVars
  BY <1>1 DEF TypeOK, sfVars
<1>2. ASSUME NEW r \in Res, SfDelete(r) PROVE TypeSf'
  BY <1>2 DEF TypeOK, SfDelete
<1>3. CASE RunSend
  BY <1>3 DEF TypeOK, TypeRun, RunSend, SfUpsert, SentData
<1>4. CASE RunSendLostReply
  BY <1>4 DEF TypeOK, TypeRun, RunSendLostReply, SfUpsert, SentData
<1>5. CASE RunSendRoom
  BY <1>5 DEF TypeOK, TypeRun, RunSendRoom
<1> QED
  BY <1>1, <1>2, <1>3, <1>4, <1>5, SfFrame

LEMMA TypeHistStep ==
    ASSUME TypeOK, [Next]_vars
    PROVE  TypeHist'
<1> DEFINE Hist == <<acked, ackedRoom, excused, excusedRoom>>
           HistOK == /\ acked \in [Res -> Nat]
                     /\ ackedRoom \in [Res -> Nat]
                     /\ excused \in [Res -> Nat]
                     /\ excusedRoom \in [Res -> Nat]
<1>1. faults' \in Nat
  BY FaultsFrame DEF TypeOK, TypeHist, Fault
<1>2. HistOK'
  <2> USE DEF Larger, histVars
  <2>0. HistOK
    BY DEF TypeOK, TypeHist
  <2>1. CASE UNCHANGED Hist
    BY <2>0, <2>1
  <2>2. ASSUME NEW h \in Handlers, ResCommit(h) PROVE HistOK'
    BY <2>0, <2>2 DEF TypeOK, TypeHandling, ResCommit
  <2>3. ASSUME NEW h \in Handlers, RoomCommit(h) PROVE HistOK'
    BY <2>0, <2>3 DEF TypeOK, TypeHandling, RoomCommit
  <2>4. CASE RunSave
    BY <2>0, <2>4 DEF RunSave
  <2>5. CASE RunSend \/ RunSendLostReply
    BY <2>0, <2>5 DEF RunSend, RunSendLostReply, SfUpsert
  <2>6. CASE RunFails \/ Crash
    <3>0. ExcuseStampedAhead /\ shRes \in [Res -> Nat]
      BY <2>6 DEF RunFails, Crash, TypeOK, TypeSihot
    <3>1. excused' \in [Res -> Nat]
      <4>1. excused' = [excused EXCEPT ![job.res] = shRes[job.res]] \/ excused' = excused
        BY <3>0 DEF ExcuseStampedAhead
      <4>2. CASE job.res \in Res
        <5>1. shRes[job.res] \in Nat
          BY <3>0, <4>2
        <5> QED
          BY <2>0, <4>1, <5>1
      <4>3. CASE job.res \notin Res
        BY <2>0, <4>1, <4>3
      <4> QED
        BY <4>2, <4>3
    <3> QED
      BY <3>1, <2>0, <2>6 DEF RunFails, Crash
  <2>7. CASE RunRoomReset
    BY <2>0, <2>7 DEF RunRoomReset
  <2> QED
    BY <2>1, <2>2, <2>3, <2>4, <2>5, <2>6, <2>7, HistFrame
<1> QED
  BY <1>1, <1>2 DEF TypeHist

LEMMA TypeStep == TypeOK /\ [Next]_vars => TypeOK'
BY TypeSihotStep, TypeHandlingStep, TypeCacheStep, TypeRunStep, TypeSfStep, TypeHistStep DEF TypeOK

\* Every variable keeps its type, and a notification in work as well as a row in sync
\* always names a reservation.
THEOREM TypeCorrect == Spec => []TypeOK
BY TypeInit, TypeStep, PTL DEF Spec

-----------------------------------------------------------------------------
(***************************************************************************)
(* 2. Reservation changes.  What the types say about single values.        *)
(***************************************************************************)
LEMMA Numbers ==
    ASSUME TypeOK
    PROVE  /\ clock \in Nat /\ action_time \in Nat /\ job.ver \in Nat
           /\ \A r \in Res : /\ shRes[r] \in Nat /\ sfData[r] \in Nat
                             /\ rgr_last_change[r] \in Nat /\ rgr_last_sync[r] \in Nat
                             /\ acked[r] \in Nat /\ excused[r] \in Nat
           /\ \A h \in Handlers : /\ handling[h].ver \in Nat /\ handling[h].stamp \in Nat
                                  /\ handling[h].kind # "none" => handling[h].res \in Res
           /\ InRound => job.res \in Res
<1> USE DEF TypeOK
<1>1. clock \in Nat /\ \A h \in Handlers : /\ handling[h].ver \in Nat /\ handling[h].stamp \in Nat
                                           /\ handling[h].kind # "none" => handling[h].res \in Res
  BY DEF TypeHandling
<1>2. action_time \in Nat /\ job.ver \in Nat /\ (InRound => job.res \in Res)
  BY DEF TypeRun, InRound
<1>3. \A r \in Res : shRes[r] \in Nat /\ sfData[r] \in Nat /\ acked[r] \in Nat /\ excused[r] \in Nat
  BY DEF TypeSihot, TypeSf, TypeHist
<1>4. \A r \in Res : rgr_last_change[r] \in Nat /\ rgr_last_sync[r] \in Nat
  BY DEF TypeCache
<1> QED
  BY <1>1, <1>2, <1>3, <1>4

LEMMA TailItems ==
    ASSUME NEW S, NEW q \in Seq(S), q # <<>>
    PROVE  /\ Head(q) = q[1] /\ 1 \in 1 .. Len(q)
           /\ \A i \in 1 .. Len(Tail(q)) : i + 1 \in 1 .. Len(q) /\ Tail(q)[i] = q[i + 1]
OBVIOUS

LEMMA AppendItems ==
    ASSUME NEW S, NEW q \in Seq(S), NEW e
    PROVE  \A i \in 1 .. Len(Append(q, e)) :
              \/ i \in 1 .. Len(q) /\ Append(q, e)[i] = q[i]
              \/ Append(q, e)[i] = e
OBVIOUS

-----------------------------------------------------------------------------
LEMMA DeliveryInit == Init => DeliveryInv
BY ConstantsAssumption DEF ConstantsAssumption, Init, DeliveryInv, StampsInPast, VersionsInPast,
   JobInOrder, NewerIsStampedLater, InWorkWillBeDirty, ResDeliveredOrExcused, InRound, NoHandling, NoStamp

(***************************************************************************)
(* Sihot.                                                                  *)
(***************************************************************************)
LEMMA SihotStep ==
    ASSUME TypeOK, DeliveryInv, NEW r \in Res, ShResChange(r) \/ ShRoomChange(r)
    PROVE  DeliveryInv'
<1> USE Numbers
<1>1. UNCHANGED <<handling, clock, rgr_last_change, rgr_last_sync, sfData, acked, excused, runVars>>
  BY DEF ShResChange, ShRoomChange, cacheVars, resCols, sfVars, histVars
<1>2. \A q \in Res : shRes'[q] = shRes[q] \/ shRes'[q] = shRes[q] + 1
  <2>1. CASE ShResChange(r)
    BY <2>1 DEF ShResChange, TypeOK, TypeSihot
  <2>2. CASE ShRoomChange(r)
    BY <2>2 DEF ShRoomChange
  <2> QED
    BY <2>1, <2>2
<1>3. \A q \in Res : shRes'[q] \in Nat /\ \A v \in Nat : v <= shRes[q] => v <= shRes'[q]
  BY <1>2
<1>4. StampsInPast'
  BY <1>1 DEF DeliveryInv, StampsInPast, runVars
<1>5. VersionsInPast'
  <2>1. ASSUME NEW i \in 1 .. Len(net'), net'[i].kind = "CR"
        PROVE  net'[i].ver <= shRes'[net'[i].res]
    <3>1. PICK e : net' = Append(net, e) /\ (e.kind = "CR" => e.ver = shRes'[e.res])
      <4>1. CASE ShResChange(r)
        <5> DEFINE e == Notification("CR", r, shRes[r] + 1)
        <5>1. net' = Append(net, e) /\ shRes'[r] = shRes[r] + 1
          BY <4>1 DEF ShResChange, TypeOK, TypeSihot
        <5>2. e.res = r /\ e.ver = shRes[r] + 1
          BY DEF Notification
        <5> HIDE DEF e
        <5> QED
          BY <5>1, <5>2
      <4>2. CASE ShRoomChange(r)
        <5> DEFINE e == Notification("RC", r, shRoom[r] + 1)
        <5>1. net' = Append(net, e) /\ e.kind = "RC"
          BY <4>2 DEF ShRoomChange, Notification
        <5> HIDE DEF e
        <5> QED
          BY <5>1
      <4> QED
        BY <4>1, <4>2
    <3>2. \/ i \in 1 .. Len(net) /\ net'[i] = net[i]
          \/ net'[i] = e
      BY <2>1, <3>1, AppendItems DEF TypeOK, TypeSihot
    <3>3. CASE i \in 1 .. Len(net) /\ net'[i] = net[i]
      <4>1. net[i] \in Notifications
        BY <3>3 DEF TypeOK, TypeSihot
      <4>2. net[i].ver <= shRes[net[i].res] /\ net[i].ver \in Nat /\ net[i].res \in Res
        BY <2>1, <3>3, <4>1 DEF DeliveryInv, VersionsInPast, Notifications
      <4> QED
        BY <3>3, <4>2, <1>2, <1>3
    <3>4. CASE net'[i] = e
      <4>1. e.kind = "CR" => e.ver \in Nat
        BY <3>1, <1>3 DEF ShResChange, ShRoomChange, Notification
      <4> QED
        BY <2>1, <3>1, <3>4, <4>1
    <3> QED
      BY <3>2, <3>3, <3>4
  <2>2. \A h \in Handlers : handling'[h].kind = "CR" => handling'[h].ver <= shRes'[handling'[h].res]
    BY <1>1, <1>2, <1>3 DEF DeliveryInv, VersionsInPast
  <2>3. \A q \in Res : acked'[q] <= shRes'[q] /\ sfData'[q] <= shRes'[q]
    BY <1>1, <1>2, <1>3 DEF DeliveryInv, VersionsInPast
  <2> QED
    BY <2>1, <2>2, <2>3 DEF VersionsInPast
<1>6. JobInOrder'
  BY <1>1, <1>2, <1>3 DEF DeliveryInv, JobInOrder, InRound, runVars
<1>7. NewerIsStampedLater'
  BY <1>1 DEF DeliveryInv, NewerIsStampedLater, ToBeStampedAfter, InRound, runVars
<1>8. InWorkWillBeDirty' /\ ResDeliveredOrExcused'
  BY <1>1 DEF DeliveryInv, InWorkWillBeDirty, ToBeStampedAfter, ResDeliveredOrExcused, HalfStamped, Dirty, runVars
<1> QED
  BY <1>4, <1>5, <1>6, <1>7, <1>8 DEF DeliveryInv

(***************************************************************************)
(* Connection threads.                                                     *)
(***************************************************************************)
LEMMA AcceptStep ==
    ASSUME TypeOK, DeliveryInv, NEW h \in Handlers, Accept(h)
    PROVE  DeliveryInv'
<1> USE Numbers DEF ToBeStampedAfter, NoStamp
<1> DEFINE n == Head(net)
<1>1. UNCHANGED <<shRes, rgr_last_change, rgr_last_sync, sfData, acked, excused, clock, runVars>>
  BY DEF Accept, shVars, cacheVars, resCols, sfVars, histVars
<1>2. n \in Notifications /\ (n.kind = "CR" => n.ver <= shRes[n.res])
  BY TailItems DEF Accept, DeliveryInv, VersionsInPast, TypeOK, TypeSihot
<1>3. /\ handling'[h] = [kind |-> n.kind, res |-> n.res, ver |-> n.ver, stamp |-> 0]
      /\ \A g \in Handlers : g # h => handling'[g] = handling[g]
  BY DEF Accept, NoStamp, TypeOK, TypeHandling
<1>4. StampsInPast'
  BY <1>1, <1>3 DEF DeliveryInv, StampsInPast, runVars
<1>5. VersionsInPast'
  <2>1. ASSUME NEW i \in 1 .. Len(net'), net'[i].kind = "CR"
        PROVE  net'[i].ver <= shRes'[net'[i].res]
    <3>1. net \in Seq(Notifications) /\ net # <<>> /\ net' = Tail(net)
      BY DEF Accept, TypeOK, TypeSihot
    <3>2. i + 1 \in 1 .. Len(net) /\ net'[i] = net[i + 1]
      BY <3>1, TailItems
    <3> QED
      BY <1>1, <2>1, <3>2 DEF DeliveryInv, VersionsInPast
  <2>2. \A g \in Handlers : handling'[g].kind = "CR" => handling'[g].ver <= shRes'[handling'[g].res]
    BY <1>1, <1>2, <1>3 DEF DeliveryInv, VersionsInPast
  <2> QED
    BY <1>1, <2>1, <2>2 DEF DeliveryInv, VersionsInPast
<1>6. JobInOrder'
  BY <1>1 DEF DeliveryInv, JobInOrder, InRound, runVars
<1>7. NewerIsStampedLater'
  BY <1>1, <1>3 DEF DeliveryInv, NewerIsStampedLater, StampsInPast, InRound, runVars
<1>8. InWorkWillBeDirty'
  <2>1. n.kind = "CR" => n.res \in Res
    BY <1>2 DEF Notifications
  <2>2. \A g \in Handlers : g # h => (handling'[g] = handling[g] /\ \A q : HalfStamped(q)' <=> HalfStamped(q))
    BY <1>1, <1>3 DEF HalfStamped, runVars
  <2> QED
    BY <1>1, <1>3, <2>1, <2>2 DEF DeliveryInv, InWorkWillBeDirty, StampsInPast
<1>9. ResDeliveredOrExcused'
  BY <1>1 DEF DeliveryInv, ResDeliveredOrExcused, HalfStamped, Dirty, runVars
<1> QED
  BY <1>4, <1>5, <1>6, <1>7, <1>8, <1>9 DEF DeliveryInv

\* A notification that is done with, or lost, leaves DeliveryInv to the others.
LEMMA HandlingDone ==
    ASSUME TypeOK, DeliveryInv,
           \A h \in Handlers : handling'[h] = NoHandling \/ handling'[h] = handling[h],
           UNCHANGED <<shRes, net, clock>>
    PROVE  /\ \A h \in Handlers : handling'[h].stamp <= clock'
           /\ \A h \in Handlers : handling'[h].kind = "CR" => handling'[h] = handling[h]
           /\ \A i \in 1 .. Len(net') : net'[i].kind = "CR" => net'[i].ver <= shRes'[net'[i].res]
           /\ \A h \in Handlers : handling'[h].kind = "CR" => handling'[h].ver <= shRes'[handling'[h].res]
BY Numbers DEF DeliveryInv, StampsInPast, VersionsInPast, NoHandling, NoStamp

\* The notifications in work stay, are done with, or get the next change stamp.
HandlersGoOn ==
    \A h \in Handlers :
        \/ handling'[h] = NoHandling
        \/ handling'[h] = handling[h]
        \/ /\ handling[h].stamp = NoStamp
           /\ handling'[h].stamp = clock + 1 /\ clock' = clock + 1
           /\ handling'[h].kind = handling[h].kind
           /\ handling'[h].res = handling[h].res
           /\ handling'[h].ver = handling[h].ver

\* Steps that at most finish or stamp notifications or stamp rows with the next change stamp, while
\* the sync thread goes on with its round or is outside of one: the stutter, CommitFails,
\* RoomCommit, RunSave, RunRoomReset and all the steps that only control the run.
LEMMA RestampStep ==
    ASSUME TypeOK, DeliveryInv, HandlersGoOn,
           clock' = clock \/ clock' = clock + 1,
           \A r \in Res : \/ rgr_last_change'[r] = rgr_last_change[r]
                          \/ rgr_last_change'[r] = clock + 1 /\ clock' = clock + 1,
           UNCHANGED <<shRes, net, rgr_last_sync, sfData, acked, excused>>,
           \/ job' = job /\ action_time' = action_time /\ (pc' = pc \/ (pc = "save" /\ pc' = "send"))
           \/ pc # "final" /\ ~InRound' /\ action_time' \in 0 .. clock
    PROVE  DeliveryInv'
<1> USE Numbers DEF ToBeStampedAfter, NoStamp
<1>1. \A h \in Handlers : \/ handling'[h] = handling[h]
                          \/ handling'[h].kind # "CR" /\ handling'[h].stamp = 0
                          \/ /\ handling[h].stamp = 0
                             /\ handling'[h].stamp = clock + 1 /\ clock' = clock + 1
                             /\ handling'[h].kind = handling[h].kind
                             /\ handling'[h].res = handling[h].res
                             /\ handling'[h].ver = handling[h].ver
  BY DEF NoHandling, HandlersGoOn
<1>2. StampsInPast'
  BY <1>1 DEF DeliveryInv, StampsInPast
<1>3. VersionsInPast'
  BY <1>1 DEF DeliveryInv, VersionsInPast
<1>4. JobInOrder'
  BY DEF DeliveryInv, JobInOrder, InRound
<1>5. NewerIsStampedLater'
  <2>1. CASE ~InRound'
    BY <2>1 DEF NewerIsStampedLater
  <2>2. CASE InRound'
    <3>1. InRound /\ UNCHANGED <<job, action_time>>
      BY <2>2 DEF InRound
    <3>2. \/ acked'[job.res] <= job.ver
          \/ rgr_last_change'[job.res] > action_time
          \/ acked'[job.res] <= excused'[job.res]
      BY <3>1 DEF DeliveryInv, NewerIsStampedLater, StampsInPast
    <3>3. ASSUME NEW h \in Handlers, handling'[h].kind = "CR", handling'[h].res = job.res
          PROVE  handling'[h].ver <= job.ver \/ ToBeStampedAfter(h, action_time)'
      BY <1>1, <3>1, <3>3 DEF DeliveryInv, NewerIsStampedLater, StampsInPast
    <3> QED
      BY <3>1, <3>2, <3>3 DEF NewerIsStampedLater
  <2> QED
    BY <2>1, <2>2
<1>6. \A r \in Res : HalfStamped(r) => HalfStamped(r)'
  BY DEF HalfStamped
<1>7. InWorkWillBeDirty'
  BY <1>1, <1>6 DEF DeliveryInv, InWorkWillBeDirty, StampsInPast
<1>8. ResDeliveredOrExcused'
  <2>1. \A r \in Res : Dirty(r) => Dirty(r)'
    BY DEF Dirty, DeliveryInv, StampsInPast
  <2> QED
    BY <1>6, <2>1 DEF DeliveryInv, ResDeliveredOrExcused
<1> QED
  BY <1>2, <1>3, <1>4, <1>5, <1>7, <1>8 DEF DeliveryInv

\* The stamp of the commit is in the row: the change is selected, unless an older stamp
\* got over a newer one or the stamp is older than the sync that delivered the change.
LEMMA ResCommitStep ==
    ASSUME TypeOK, DeliveryInv, NEW h \in Handlers, ResCommit(h)
    PROVE  DeliveryInv'
<1> USE Numbers DEF ToBeStampedAfter, NoStamp
<1> DEFINE r == handling[h].res
           s == handling[h].stamp
           v == handling[h].ver
<1>0. r \in Res /\ s \in Nat /\ v \in Nat /\ v <= shRes[r] /\ s # 0 /\ s <= clock /\ handling[h].kind = "CR"
  BY DEF ResCommit, DeliveryInv, VersionsInPast, StampsInPast
<1>1. UNCHANGED <<shRes, net, clock, rgr_last_sync, sfData, runVars>>
  BY DEF ResCommit, shVars, sfVars
<1>2. /\ rgr_last_change'[r] = s
      /\ \A q \in Res : q # r => rgr_last_change'[q] = rgr_last_change[q]
  BY <1>0 DEF ResCommit, TypeOK, TypeCache
<1>3. /\ acked'[r] = IF acked[r] < v THEN v ELSE acked[r]
      /\ \A q \in Res : q # r => acked'[q] = acked[q]
  BY <1>0 DEF ResCommit, TypeOK, TypeHist, Larger
<1>4. /\ excused'[r] \in Nat /\ excused'[r] >= excused[r]
      /\ s < rgr_last_change[r] => excused'[r] >= acked[r]
      /\ \A q \in Res : q # r => excused'[q] = excused[q]
  BY <1>0 DEF ResCommit, TypeOK, TypeHist, Larger
<1>5. \A g \in Handlers : handling'[g] = NoHandling \/ handling'[g] = handling[g]
  BY DEF ResCommit, TypeOK, TypeHandling
<1>6. /\ \A g \in Handlers : handling'[g].stamp <= clock'
      /\ \A g \in Handlers : handling'[g].kind = "CR" => handling'[g] = handling[g]
      /\ \A i \in 1 .. Len(net') : net'[i].kind = "CR" => net'[i].ver <= shRes'[net'[i].res]
      /\ \A g \in Handlers : handling'[g].kind = "CR" => handling'[g].ver <= shRes'[handling'[g].res]
  BY <1>1, <1>5, HandlingDone
<1>7. StampsInPast'
  BY <1>0, <1>1, <1>2, <1>6 DEF DeliveryInv, StampsInPast, runVars
<1>8. VersionsInPast'
  BY <1>0, <1>1, <1>3, <1>6 DEF DeliveryInv, VersionsInPast
<1>9. JobInOrder'
  BY <1>1 DEF DeliveryInv, JobInOrder, InRound, runVars
<1>10. NewerIsStampedLater'
  <2>1. ASSUME InRound
        PROVE  \/ acked'[job.res] <= job.ver
               \/ rgr_last_change'[job.res] > action_time
               \/ acked'[job.res] <= excused'[job.res]
    <3>1. CASE job.res = r
      <4>1. v <= job.ver \/ s > action_time
        BY <1>0, <2>1, <3>1 DEF DeliveryInv, NewerIsStampedLater
      <4>2. acked[r] <= job.ver \/ rgr_last_change[r] > action_time \/ acked[r] <= excused[r]
        BY <2>1, <3>1 DEF DeliveryInv, NewerIsStampedLater
      <4> QED
        BY <1>0, <1>2, <1>3, <1>4, <3>1, <4>1, <4>2
    <3>2. CASE job.res # r
      BY <1>2, <1>3, <1>4, <2>1, <3>2 DEF DeliveryInv, NewerIsStampedLater
    <3> QED
      BY <3>1, <3>2
  <2> QED
    BY <1>1, <1>6, <2>1 DEF DeliveryInv, NewerIsStampedLater, InRound, runVars
<1>11. InWorkWillBeDirty'
  <2>2. \A q \in Res : excused'[q] \in Nat /\ excused'[q] >= excused[q]
    BY <1>4
  <2>3. ASSUME NEW g \in Handlers, handling'[g].kind = "CR", ~HalfStamped(handling[g].res)'
        PROVE  \/ handling'[g].stamp = 0 \/ handling'[g].stamp > rgr_last_sync'[handling'[g].res]
               \/ sfData'[handling'[g].res] >= handling'[g].ver
               \/ handling'[g].ver <= excused'[handling'[g].res]
    <3>0. handling'[g] = handling[g] /\ handling[g].kind = "CR"
      BY <1>6, <2>3
    <3>1. handling[g].res \in Res /\ ~HalfStamped(handling[g].res)
      BY <1>1, <2>3, <3>0 DEF HalfStamped, runVars
    <3>2. \/ handling[g].stamp = 0 \/ handling[g].stamp > rgr_last_sync[handling[g].res]
          \/ sfData[handling[g].res] >= handling[g].ver
          \/ handling[g].ver <= excused[handling[g].res]
      BY <3>0, <3>1 DEF DeliveryInv, InWorkWillBeDirty
    <3> QED
      BY <1>1, <2>2, <3>0, <3>1, <3>2
  <2> QED
    BY <2>3 DEF InWorkWillBeDirty
<1>12. ResDeliveredOrExcused'
  <2>1. \A q : HalfStamped(q)' <=> HalfStamped(q)
    BY <1>1 DEF HalfStamped, runVars
  <2>2. ASSUME ~HalfStamped(r)
        PROVE  sfData[r] >= acked'[r] \/ s > rgr_last_sync[r] \/ acked'[r] <= excused'[r]
    <3>1. s > rgr_last_sync[r] \/ sfData[r] >= v \/ v <= excused[r]
      BY <1>0, <2>2 DEF DeliveryInv, InWorkWillBeDirty
    <3>2. sfData[r] >= acked[r] \/ rgr_last_change[r] > rgr_last_sync[r] \/ acked[r] <= excused[r]
      BY <1>0, <2>2 DEF DeliveryInv, ResDeliveredOrExcused, Dirty
    <3> QED
      BY <1>0, <1>3, <1>4, <3>1, <3>2
  <2>3. \A q \in Res : \/ sfData'[q] >= acked'[q]
                       \/ rgr_last_change'[q] > rgr_last_sync'[q]
                       \/ HalfStamped(q)'
                       \/ acked'[q] <= excused'[q]
    <3>1. ASSUME NEW q \in Res, q # r
          PROVE  \/ sfData'[q] >= acked'[q] \/ rgr_last_change'[q] > rgr_last_sync'[q]
                 \/ HalfStamped(q)' \/ acked'[q] <= excused'[q]
      BY <1>1, <1>2, <1>3, <1>4, <2>1, <3>1 DEF DeliveryInv, ResDeliveredOrExcused, Dirty
    <3> QED
      BY <1>1, <1>2, <2>1, <2>2, <3>1
  <2> QED
    BY <2>3 DEF ResDeliveredOrExcused, Dirty
<1> QED
  BY <1>7, <1>8, <1>9, <1>10, <1>11, <1>12 DEF DeliveryInv
(***************************************************************************)
(* A round of the sync thread.                                             *)
(***************************************************************************)

\* The fetch gets everything that was committed or is in work so far.
LEMMA FetchStep ==
    ASSUME TypeOK, DeliveryInv, RunFetch
    PROVE  DeliveryInv'
<1> USE Numbers DEF ToBeStampedAfter, NoStamp
<1>1. /\ UNCHANGED <<shRes, net, handling, clock, rgr_last_change, rgr_last_sync, sfData, acked, excused, action_time>>
      /\ pc = "fetch" /\ pc' = "save" /\ job.res \in Res
  BY DEF RunFetch, Goto, shVars, cacheVars, resCols, sfVars, histVars, TypeOK, TypeRun
<1>2. job'.res = job.res /\ job'.ver = shRes[job.res]
  BY DEF RunFetch, TypeOK, TypeRun
<1>3. StampsInPast' /\ VersionsInPast'
  BY <1>1 DEF DeliveryInv, StampsInPast, VersionsInPast
<1>4. JobInOrder'
  BY <1>1, <1>2 DEF DeliveryInv, VersionsInPast, JobInOrder
<1>5. NewerIsStampedLater'
  BY <1>1, <1>2 DEF DeliveryInv, VersionsInPast, NewerIsStampedLater
<1>6. InWorkWillBeDirty' /\ ResDeliveredOrExcused'
  BY <1>1 DEF DeliveryInv, InWorkWillBeDirty, ResDeliveredOrExcused, HalfStamped, Dirty
<1> QED
  BY <1>3, <1>4, <1>5, <1>6 DEF DeliveryInv

\* Salesforce never gets older data than it has.
LEMMA SendStep ==
    ASSUME TypeOK, DeliveryInv, RunSend \/ RunSendLostReply
    PROVE  /\ DeliveryInv'
           /\ job.res \in Res
           /\ sfData[job.res] <= job.ver /\ job.ver <= shRes[job.res]
           /\ sfData' = [sfData EXCEPT ![job.res] = job.ver]
<1> USE Numbers DEF ToBeStampedAfter, NoStamp
<1> DEFINE r == job.res
<1>1. /\ UNCHANGED <<shRes, net, handling, clock, rgr_last_change, rgr_last_sync, acked, excused>>
      /\ pc = "send" /\ InRound /\ r \in Res
  BY DEF RunSend, RunSendLostReply, shVars, cacheVars, resCols, InRound
<1>2. sfData' = [sfData EXCEPT ![r] = job.ver]
  BY DEF RunSend, RunSendLostReply, SfUpsert, SentData
<1>3. sfData[r] <= job.ver /\ job.ver <= shRes[r]
  BY <1>1 DEF DeliveryInv, JobInOrder
<1>4. sfData'[r] = job.ver /\ \A q \in Res : q # r => sfData'[q] = sfData[q]
  BY <1>1, <1>2 DEF TypeOK, TypeSf
<1>5. \A q \in Res : sfData'[q] \in Nat /\ sfData'[q] >= sfData[q]
  BY <1>1, <1>3, <1>4
<1>6. \/ pc' = "cache" /\ job'.res = r /\ job'.ver = job.ver /\ action_time' = action_time
      \/ pc' = "sleep" /\ action_time' = 0
  <2>1. CASE RunSend
    BY <2>1 DEF RunSend, Goto, TypeOK, TypeRun
  <2>2. CASE RunSendLostReply
    BY <2>2 DEF RunSendLostReply, EndRun, LeaveRound, Goto
  <2> QED
    BY <2>1, <2>2
<1>7. StampsInPast'
  BY <1>1, <1>6 DEF DeliveryInv, StampsInPast
<1>8. VersionsInPast'
  BY <1>1, <1>3, <1>4 DEF DeliveryInv, VersionsInPast
<1>9. JobInOrder'
  BY <1>1, <1>3, <1>4, <1>6 DEF JobInOrder, InRound
<1>10. NewerIsStampedLater'
  BY <1>1, <1>6 DEF DeliveryInv, NewerIsStampedLater, InRound
<1>11. \A q \in Res : ~HalfStamped(q)
  BY <1>1 DEF HalfStamped
<1>12. InWorkWillBeDirty'
  BY <1>1, <1>5, <1>11 DEF DeliveryInv, InWorkWillBeDirty
<1>13. ResDeliveredOrExcused'
  BY <1>1, <1>5, <1>11 DEF DeliveryInv, ResDeliveredOrExcused, Dirty
<1> QED
  BY <1>1, <1>2, <1>3, <1>7, <1>8, <1>9, <1>10, <1>12, <1>13 DEF DeliveryInv

\* The first of the two sync stamps only ever concerns the row of the round.
LEMMA CacheStep ==
    ASSUME TypeOK, DeliveryInv, RunCache
    PROVE  DeliveryInv'
<1> USE Numbers DEF ToBeStampedAfter, NoStamp
<1> DEFINE r == job.res
<1>1. /\ UNCHANGED <<shRes, net, handling, clock, rgr_last_change, sfData, acked, excused, action_time, job>>
      /\ pc = "cache" /\ pc' = "final" /\ r \in Res
  BY DEF RunCache, Goto, shVars, sfVars, histVars, InRound
<1>2. rgr_last_sync'[r] = clock /\ \A q \in Res : q # r => rgr_last_sync'[q] = rgr_last_sync[q]
  BY <1>1 DEF RunCache, TypeOK, TypeCache
<1>3. StampsInPast' /\ VersionsInPast'
  BY <1>1, <1>2 DEF DeliveryInv, StampsInPast, VersionsInPast
<1>4. JobInOrder' /\ NewerIsStampedLater'
  BY <1>1 DEF DeliveryInv, JobInOrder, NewerIsStampedLater, InRound
<1>5. HalfStamped(r)' /\ \A q \in Res : ~HalfStamped(q)
  BY <1>1 DEF HalfStamped
<1>6. InWorkWillBeDirty'
  <2>1. ASSUME NEW h \in Handlers, handling[h].kind = "CR", handling[h].res # r
        PROVE  \/ handling[h].stamp = 0 \/ handling[h].stamp > rgr_last_sync'[handling[h].res]
               \/ sfData[handling[h].res] >= handling[h].ver
               \/ handling[h].ver <= excused[handling[h].res]
    BY <1>2, <1>5, <2>1 DEF DeliveryInv, InWorkWillBeDirty
  <2> QED
    BY <1>1, <2>1 DEF InWorkWillBeDirty, HalfStamped
<1>7. ResDeliveredOrExcused'
  <2>1. ASSUME NEW q \in Res, q # r
        PROVE  sfData[q] >= acked[q] \/ rgr_last_change[q] > rgr_last_sync'[q] \/ acked[q] <= excused[q]
    BY <1>2, <1>5, <2>1 DEF DeliveryInv, ResDeliveredOrExcused, Dirty
  <2> QED
    BY <1>1, <2>1 DEF ResDeliveredOrExcused, HalfStamped, Dirty
<1> QED
  BY <1>3, <1>4, <1>6, <1>7 DEF DeliveryInv

\* The end of a round: the row keeps a sync stamp of the time before the fetch, so every
\* change that the round has not delivered is stamped later.
LEMMA FinalStep ==
    ASSUME TypeOK, DeliveryInv, RunFinal
    PROVE  DeliveryInv'
<1> USE Numbers DEF ToBeStampedAfter, NoStamp
<1> DEFINE r == job.res
<1>1. /\ UNCHANGED <<shRes, net, handling, clock, rgr_last_change, sfData, acked, excused>>
      /\ pc = "final" /\ InRound /\ r \in Res
  BY DEF RunFinal, shVars, sfVars, histVars, InRound
<1>2. pc' = "stamp" /\ action_time' = 0
  BY DEF RunFinal, LeaveRound, Goto
<1>3. rgr_last_sync'[r] = action_time /\ \A q \in Res : q # r => rgr_last_sync'[q] = rgr_last_sync[q]
  BY <1>1 DEF RunFinal, SyncStamp, TypeOK, TypeCache
<1>4. sfData[r] = job.ver
  BY <1>1 DEF DeliveryInv, JobInOrder
<1>5. StampsInPast' /\ VersionsInPast'
  BY <1>1, <1>2, <1>3 DEF DeliveryInv, StampsInPast, VersionsInPast
<1>6. JobInOrder' /\ NewerIsStampedLater'
  BY <1>2 DEF JobInOrder, NewerIsStampedLater, InRound
<1>7. InWorkWillBeDirty'
  <2>1. ASSUME NEW h \in Handlers, handling[h].kind = "CR"
        PROVE  \/ handling[h].stamp = 0 \/ handling[h].stamp > rgr_last_sync'[handling[h].res]
               \/ sfData[handling[h].res] >= handling[h].ver
               \/ handling[h].ver <= excused[handling[h].res]
    <3>1. CASE handling[h].res = r
      BY <1>1, <1>3, <1>4, <2>1, <3>1 DEF DeliveryInv, NewerIsStampedLater
    <3>2. CASE handling[h].res # r
      BY <1>3, <2>1, <3>2 DEF DeliveryInv, InWorkWillBeDirty, HalfStamped
    <3> QED
      BY <3>1, <3>2
  <2> QED
    BY <1>1, <2>1 DEF InWorkWillBeDirty
<1>8. ResDeliveredOrExcused'
  <2>1. ASSUME NEW q \in Res
        PROVE  sfData[q] >= acked[q] \/ rgr_last_change[q] > rgr_last_sync'[q] \/ acked[q] <= excused[q]
    <3>1. CASE q = r
      BY <1>1, <1>3, <1>4, <3>1 DEF DeliveryInv, NewerIsStampedLater
    <3>2. CASE q # r
      BY <1>3, <3>2 DEF DeliveryInv, ResDeliveredOrExcused, Dirty, HalfStamped
    <3> QED
      BY <3>1, <3>2
  <2> QED
    BY <1>1, <2>1 DEF ResDeliveredOrExcused, Dirty
<1> QED
  BY <1>5, <1>6, <1>7, <1>8 DEF DeliveryInv

\* A round that stops between its two sync stamps loses at most changes stamped later.
LEMMA AbortStep ==
    ASSUME TypeOK, DeliveryInv, RunFails \/ Crash
    PROVE  DeliveryInv'
<1> USE Numbers DEF ToBeStampedAfter, NoStamp
<1> DEFINE r == job.res
<1>1. UNCHANGED <<shRes, net, clock, rgr_last_change, rgr_last_sync, sfData, acked>>
  BY DEF RunFails, Crash, shVars, cacheVars, resCols, sfVars
<1>2. pc' = "sleep" /\ action_time' = 0
  BY DEF RunFails, Crash, EndRun, LeaveRound, Goto
<1>3. \A h \in Handlers : handling'[h] = NoHandling \/ handling'[h] = handling[h]
  BY DEF RunFails, Crash
<1>4. CASE pc # "final"
  <2>1. excused' = excused
    BY <1>4 DEF RunFails, Crash, ExcuseStampedAhead
  <2> QED
    BY <1>1, <1>2, <1>3, <1>4, <2>1, RestampStep DEF InRound, HandlersGoOn
<1>5. CASE pc = "final"
  <2> DEFINE ahead == \/ rgr_last_change[r] > action_time
                      \/ \E h \in Handlers : handling[h].res = r /\ handling[h].stamp > action_time
  <2>1. InRound /\ r \in Res /\ sfData[r] = job.ver
    BY <1>5 DEF InRound, DeliveryInv, JobInOrder
  <2>2. /\ \A q \in Res : q # r => excused'[q] = excused[q]
        /\ ahead => excused'[r] = shRes[r]
        /\ ~ahead => excused'[r] = excused[r]
    BY <1>5, <2>1 DEF RunFails, Crash, ExcuseStampedAhead, TypeOK, TypeHist
  <2>3. \A h \in Handlers : /\ handling'[h].stamp <= clock
                            /\ handling'[h].kind = "CR" => handling'[h] = handling[h]
                            /\ handling'[h].kind = "CR" => handling'[h].ver <= shRes[handling'[h].res]
    BY <1>1, <1>3, HandlingDone
  <2>4. StampsInPast' /\ VersionsInPast'
    BY <1>1, <1>2, <2>3 DEF DeliveryInv, StampsInPast, VersionsInPast
  <2>5. JobInOrder' /\ NewerIsStampedLater'
    BY <1>2 DEF JobInOrder, NewerIsStampedLater, InRound
  <2>6. InWorkWillBeDirty'
    <3>1. ASSUME NEW h \in Handlers, handling[h].kind = "CR"
          PROVE  \/ handling[h].stamp = 0 \/ handling[h].stamp > rgr_last_sync[handling[h].res]
                 \/ sfData[handling[h].res] >= handling[h].ver
                 \/ handling[h].ver <= excused'[handling[h].res]
      <4>1. CASE handling[h].res = r
        <5>1. handling[h].ver <= job.ver \/ handling[h].stamp = 0 \/ handling[h].stamp > action_time
          BY <2>1, <3>1, <4>1 DEF DeliveryInv, NewerIsStampedLater
        <5>2. handling[h].ver <= shRes[r]
          BY <3>1, <4>1 DEF DeliveryInv, VersionsInPast
        <5> QED
          BY <2>1, <2>2, <4>1, <5>1, <5>2
      <4>2. CASE handling[h].res # r
        BY <2>2, <3>1, <4>2 DEF DeliveryInv, InWorkWillBeDirty, HalfStamped
      <4> QED
        BY <4>1, <4>2
    <3> QED
      BY <1>1, <2>3, <3>1 DEF InWorkWillBeDirty
  <2>7. ResDeliveredOrExcused'
    <3>1. ASSUME NEW q \in Res
          PROVE  sfData[q] >= acked[q] \/ rgr_last_change[q] > rgr_last_sync[q] \/ acked[q] <= excused'[q]
      <4>1. CASE q = r
        <5>1. acked[r] <= job.ver \/ rgr_last_change[r] > action_time \/ acked[r] <= excused[r]
          BY <2>1 DEF DeliveryInv, NewerIsStampedLater
        <5>2. acked[r] <= shRes[r]
          BY <2>1 DEF DeliveryInv, VersionsInPast
        <5> QED
          BY <2>1, <2>2, <4>1, <5>1, <5>2
      <4>2. CASE q # r
        BY <2>2, <4>2 DEF DeliveryInv, ResDeliveredOrExcused, Dirty, HalfStamped
      <4> QED
        BY <4>1, <4>2
    <3> QED
      BY <1>1, <3>1 DEF ResDeliveredOrExcused, Dirty
  <2> QED
    BY <2>4, <2>5, <2>6, <2>7 DEF DeliveryInv
<1> QED
  BY <1>4, <1>5

(***************************************************************************)
(* All steps.                                                              *)
(***************************************************************************)

\* The steps that meet the conditions of RestampStep.
LEMMA OtherStep ==
    ASSUME TypeOK, DeliveryInv,
           \/ UNCHANGED vars
           \/ \E r \in Res : SfDelete(r)
           \/ \E h \in Handlers : CommitFails(h) \/ RoomCommit(h) \/ ReadClock(h)
           \/ TimerFires \/ RunStamp \/ RunSelectRes \/ RunSelectRoom \/ RunSave \/ RunSendRejected
           \/ RunCacheIdOnly \/ RunSendRoom \/ RunRoomReset \/ RunFinalRoom
    PROVE  DeliveryInv'
<1> USE Numbers DEF HandlersGoOn, NoStamp, shVars, cacheVars, resCols, roomCols, sfVars, histVars
<1>0. action_time <= clock
  BY DEF DeliveryInv, StampsInPast
<1>1. CASE UNCHANGED vars
  <2>1. UNCHANGED <<shRes, net, handling, clock, rgr_last_change, rgr_last_sync, sfData, acked, excused, pc, action_time, job>>
    BY <1>1 DEF vars, runVars
  <2> QED
    BY <2>1, RestampStep
<1>2. ASSUME NEW r \in Res, SfDelete(r) PROVE DeliveryInv'
  <2>1. UNCHANGED <<shRes, net, handling, clock, rgr_last_change, rgr_last_sync, sfData, acked, excused, pc, action_time, job>>
    BY <1>2 DEF SfDelete, runVars
  <2> QED
    BY <2>1, RestampStep
<1>3. ASSUME NEW h \in Handlers, CommitFails(h) \/ RoomCommit(h) PROVE DeliveryInv'
  <2>1. \A g \in Handlers : handling'[g] = NoHandling \/ handling'[g] = handling[g]
    BY <1>3 DEF CommitFails, RoomCommit, TypeOK, TypeHandling
  <2>2. CASE CommitFails(h)
    <3>1. UNCHANGED <<shRes, net, clock, rgr_last_change, rgr_last_sync, sfData, acked, excused, pc, action_time, job>>
      BY <2>2 DEF CommitFails, runVars
    <3> QED
      BY <2>1, <3>1, RestampStep
  <2>3. CASE RoomCommit(h)
    <3>1. \/ UNCHANGED <<rgr_last_change, clock>>
          \/ /\ rgr_last_change' = [rgr_last_change EXCEPT ![handling[h].res] = clock + 1]
             /\ clock' = clock + 1
      BY <2>3 DEF RoomCommit
    <3>2. \A r \in Res : \/ rgr_last_change'[r] = rgr_last_change[r]
                         \/ rgr_last_change'[r] = clock + 1 /\ clock' = clock + 1
      BY <3>1 DEF TypeOK, TypeCache
    <3>3. UNCHANGED <<shRes, net, rgr_last_sync, sfData, acked, excused, pc, action_time, job>>
      BY <2>3 DEF RoomCommit, runVars
    <3> QED
      BY <2>1, <3>1, <3>2, <3>3, RestampStep
  <2> QED
    BY <1>3, <2>2, <2>3
<1>10. ASSUME NEW h \in Handlers, ReadClock(h) PROVE DeliveryInv'
  <2>1. HandlersGoOn
    BY <1>10 DEF ReadClock, TypeOK, TypeHandling
  <2>2. /\ UNCHANGED <<shRes, net, rgr_last_change, rgr_last_sync, sfData, acked, excused, pc, action_time, job>>
        /\ clock' = clock + 1
    BY <1>10 DEF ReadClock, runVars
  <2> HIDE DEF HandlersGoOn
  <2> QED
    BY <2>1, <2>2, RestampStep
<1>4. CASE TimerFires \/ RunStamp \/ RunSelectRes
  <2>1. /\ UNCHANGED <<shRes, net, handling, clock, rgr_last_change, rgr_last_sync, sfData, acked, excused>>
        /\ pc # "final" /\ ~InRound' /\ (action_time' = action_time \/ action_time' = clock)
    BY <1>4 DEF TimerFires, RunStamp, RunSelectRes, Goto, InRound
  <2> QED
    BY <1>0, <2>1, RestampStep
<1>5. CASE RunSelectRoom
  <2>1. /\ UNCHANGED <<shRes, net, handling, clock, rgr_last_change, rgr_last_sync, sfData, acked, excused>>
        /\ pc # "final" /\ ~InRound' /\ (action_time' = action_time \/ action_time' = 0)
    BY <1>5 DEF RunSelectRoom, Goto, EndRun, LeaveRound, InRound
  <2> QED
    BY <1>0, <2>1, RestampStep
<1>6. CASE RunSave
  BY <1>6, RestampStep DEF RunSave, Goto
<1>7. CASE RunSendRejected \/ RunCacheIdOnly \/ RunFinalRoom
  <2>1. /\ UNCHANGED <<shRes, net, handling, clock, rgr_last_change, rgr_last_sync, sfData, acked, excused>>
        /\ pc # "final" /\ ~InRound' /\ action_time' = 0
    BY <1>7 DEF RunSendRejected, RunCacheIdOnly, RunFinalRoom, Goto, EndRun, LeaveRound, InRound
  <2> QED
    BY <2>1, RestampStep
<1>8. CASE RunSendRoom
  <2>1. /\ UNCHANGED <<shRes, net, handling, clock, rgr_last_change, rgr_last_sync, sfData, acked, excused>>
        /\ pc # "final" /\ ~InRound' /\ (action_time' = action_time \/ action_time' = 0)
    BY <1>8 DEF RunSendRoom, Goto, EndRun, LeaveRound, InRound
  <2> QED
    BY <1>0, <2>1, RestampStep
<1>9. CASE RunRoomReset
  <2>1. \/ UNCHANGED <<rgr_last_change, clock>>
        \/ /\ rgr_last_change' = [rgr_last_change EXCEPT ![job.res] = clock + 1]
           /\ clock' = clock + 1
    BY <1>9 DEF RunRoomReset
  <2>2. \A r \in Res : \/ rgr_last_change'[r] = rgr_last_change[r]
                       \/ rgr_last_change'[r] = clock + 1 /\ clock' = clock + 1
    BY <2>1 DEF TypeOK, TypeCache
  <2>3. /\ UNCHANGED <<shRes, net, handling, rgr_last_sync, sfData, acked, excused, action_time>>
        /\ pc # "final" /\ ~InRound'
    BY <1>9 DEF RunRoomReset, Goto, InRound
  <2> QED
    BY <1>0, <2>1, <2>2, <2>3, RestampStep
<1> QED
  BY <1>1, <1>2, <1>3, <1>4, <1>5, <1>6, <1>7, <1>8, <1>9, <1>10

LEMMA DeliveryStep == TypeOK /\ DeliveryInv /\ [Next]_vars => DeliveryInv'
<1> SUFFICES ASSUME TypeOK, DeliveryInv, [Next]_vars
             PROVE  DeliveryInv'
  OBVIOUS
<1>1. ASSUME NEW r \in Res, ShResChange(r) \/ ShRoomChange(r) \/ SfDelete(r) PROVE DeliveryInv'
  BY <1>1, SihotStep, OtherStep
<1>2. ASSUME NEW h \in Handlers, HandlerStep(h) PROVE DeliveryInv'
  BY <1>2, AcceptStep, ResCommitStep, OtherStep DEF HandlerStep
<1>3. CASE RunStep
  BY <1>3, FetchStep, SendStep, CacheStep, FinalStep, AbortStep, OtherStep DEF RunStep
<1>4. CASE Crash
  BY <1>4, AbortStep
<1>5. CASE UNCHANGED vars
  BY <1>5, OtherStep
<1> QED
  BY <1>1, <1>2, <1>3, <1>4, <1>5 DEF Next

\* The strengthened invariant: stamps are in the past, the round has the newest data, and
\* what it has not got is stamped later.
THEOREM DeliveryInvariant == Spec => []DeliveryInv
<1>1. Init => TypeOK /\ DeliveryInv
  BY TypeInit, DeliveryInit
<1>2. TypeOK /\ DeliveryInv /\ [Next]_vars => (TypeOK /\ DeliveryInv)'
  BY TypeStep, DeliveryStep
<1> QED
  BY <1>1, <1>2, PTL DEF Spec

\* No reservation change that a connection thread has committed gets lost, except in the
\* two windows that excused marks.
THEOREM NoChangeLost == Spec => []ResDeliveredOrExcused
<1>1. DeliveryInv => ResDeliveredOrExcused
  BY DEF DeliveryInv
<1> QED
  BY <1>1, DeliveryInvariant, PTL

-----------------------------------------------------------------------------
(***************************************************************************)
(* BssSync implements SfReplica.                                           *)
(***************************************************************************)
LEMMA ReplicaInit == Init => Replica!Init
BY DEF Init, Replica!Init

LEMMA ReplicaStep == TypeOK /\ DeliveryInv /\ [Next]_vars => [Replica!Next]_(Replica!vars)
<1> SUFFICES ASSUME TypeOK, DeliveryInv, [Next]_vars
             PROVE  Replica!Next \/ UNCHANGED <<shRes, sfData>>
  BY DEF Replica!vars
<1>1. CASE \E r \in Res : ShResChange(r)
  BY <1>1 DEF ShResChange, sfVars, Replica!Next, Replica!Change
<1>2. CASE RunSend \/ RunSendLostReply
  <2>1. /\ job.res \in Res /\ sfData' = [sfData EXCEPT ![job.res] = job.ver]
        /\ sfData[job.res] <= job.ver /\ job.ver <= shRes[job.res]
    BY <1>2, SendStep
  <2>2. job.ver \in sfData[job.res] .. shRes[job.res]
    BY <2>1, Numbers
  <2>3. UNCHANGED shRes
    BY <1>2 DEF RunSend, RunSendLostReply, shVars
  <2>4. Replica!Refresh(job.res)
    BY <2>1, <2>2, <2>3 DEF Replica!Refresh
  <2> QED
    BY <2>1, <2>4 DEF Replica!Next
<1>3. CASE ~(\E r \in Res : ShResChange(r)) /\ ~RunSend /\ ~RunSendLostReply
  <2>1. UNCHANGED shRes
    BY <1>3, SihotFrame DEF shVars, ShRoomChange, Accept
  <2>2. UNCHANGED sfData
    BY <1>3, SfFrame DEF sfVars, SfDelete, RunSendRoom
  <2> QED
    BY <2>1, <2>2
<1> QED
  BY <1>1, <1>2, <1>3

\* Salesforce only ever holds versions that Sihot has had, and never an older one after a
\* newer one, whatever threads, faults and crashes do.
THEOREM ImplementsReplica == Spec => ReplicaSpec
<1>1. Spec => [](TypeOK /\ DeliveryInv)
  BY TypeCorrect, DeliveryInvariant, PTL
<1> QED
  BY <1>1, ReplicaInit, ReplicaStep, PTL DEF Spec, ReplicaSpec, Replica!Spec

-----------------------------------------------------------------------------
(***************************************************************************)
(* 3. Without the two windows, no reservation change is lost at all.       *)
(***************************************************************************)
LEMMA ExcusedInit ==
    ASSUME Init
    PROVE  NothingExcused
BY DEF Init, NothingExcused, NoHandling

LEMMA ExcusedStep ==
    ASSUME OrderedCommits, TypeOK, DeliveryInv, NothingExcused, [Next]_vars
    PROVE  NothingExcused'
<1> USE Numbers
<1> DEFINE Quiet == UNCHANGED <<net, handling, rgr_last_change, rgr_room_last_change, excused>>
<1>0. ~Fault("crash") /\ ~Fault("dbFail")
  BY DEF OrderedCommits, Fault
<1>1. ASSUME Quiet, UNCHANGED pc \/ pc' \notin {"sendRoom", "finalRoom"} PROVE NothingExcused'
  BY <1>1 DEF NothingExcused, ToBeStampedAfter
<1>2. CASE UNCHANGED vars
  BY <1>1, <1>2 DEF vars, cacheVars, resCols, roomCols, histVars, runVars
<1>3. ASSUME NEW r \in Res, ShResChange(r) \/ ShRoomChange(r) PROVE NothingExcused'
  <2>1. ~ShRoomChange(r)
    BY DEF OrderedCommits, ShRoomChange, TypeOK, TypeSihot
  <2>2. /\ UNCHANGED <<handling, rgr_last_change, rgr_room_last_change, excused, pc>>
        /\ net' = Append(net, Notification("CR", r, shRes[r] + 1))
    BY <1>3, <2>1 DEF ShResChange, cacheVars, resCols, roomCols, histVars, runVars
  <2>3. \A i \in 1 .. Len(net') : net'[i].kind = "CR"
    <3>1. \A i \in 1 .. Len(net') : \/ i \in 1 .. Len(net) /\ net'[i] = net[i]
                                    \/ net'[i] = Notification("CR", r, shRes[r] + 1)
      BY <2>2, AppendItems DEF TypeOK, TypeSihot
    <3> QED
      BY <3>1 DEF NothingExcused, Notification
  <2> QED
    BY <2>2, <2>3 DEF NothingExcused, ToBeStampedAfter
<1>4. ASSUME NEW r \in Res, SfDelete(r) PROVE NothingExcused'
  BY <1>1, <1>4 DEF SfDelete, cacheVars, resCols, roomCols, histVars, runVars
<1>5. ASSUME NEW h \in Handlers, Accept(h) PROVE NothingExcused'
  <2>1. UNCHANGED <<rgr_last_change, rgr_room_last_change, excused, pc>>
    BY <1>5 DEF Accept, cacheVars, resCols, roomCols, histVars, runVars
  <2>2. /\ Head(net).kind = "CR"
        /\ \A i \in 1 .. Len(net') : i + 1 \in 1 .. Len(net) /\ net'[i] = net[i + 1]
    BY <1>5, TailItems DEF Accept, TypeOK, TypeSihot, NothingExcused
  <2>3. \A i \in 1 .. Len(net') : net'[i].kind = "CR"
    BY <2>2 DEF NothingExcused
  <2>4. handling'[h].kind = "CR" /\ handling'[h].stamp = NoStamp
    BY <1>5, <2>2 DEF Accept, TypeOK, TypeHandling
  <2> QED
    BY <2>1, <2>3, <2>4 DEF NothingExcused, OrderedCommits, ToBeStampedAfter
<1>10. ASSUME NEW h \in Handlers, ReadClock(h) PROVE NothingExcused'
  <2>1. UNCHANGED <<net, rgr_last_change, rgr_room_last_change, excused, pc>>
    BY <1>10 DEF ReadClock, cacheVars, resCols, roomCols, histVars, runVars
  <2>2. handling'[h].kind = handling[h].kind /\ handling'[h].stamp = clock + 1
    BY <1>10 DEF ReadClock, TypeOK, TypeHandling
  <2>3. \A r \in Res : rgr_last_change[r] < clock + 1
    BY DEF DeliveryInv, StampsInPast
  <2> QED
    BY <2>1, <2>2, <2>3 DEF NothingExcused, OrderedCommits, ToBeStampedAfter
<1>6. ASSUME NEW h \in Handlers, ResCommit(h) PROVE NothingExcused'
  <2>1. /\ UNCHANGED <<net, rgr_room_last_change, pc>> /\ handling[h].res \in Res /\ handling[h].kind = "CR"
        /\ handling'[h] = NoHandling
    BY <1>6 DEF ResCommit, roomCols, runVars, TypeOK, TypeHandling
  <2>2. ~(handling[h].stamp < rgr_last_change[handling[h].res])
    BY <1>6, <2>1 DEF ResCommit, NothingExcused, ToBeStampedAfter
  <2>3. excused' = excused
    BY <1>6, <2>2 DEF ResCommit
  <2> QED
    BY <2>1, <2>3 DEF NothingExcused, OrderedCommits, NoHandling
<1>7. \A h \in Handlers : ~RoomCommit(h) /\ ~CommitFails(h)
  BY <1>0 DEF RoomCommit, CommitFails, NothingExcused
<1>8. CASE RunStep
  <2>1. ~RunSendRoom /\ ~RunRoomReset /\ ~RunFinalRoom /\ ~RunCacheIdOnly
    BY <1>0 DEF RunSendRoom, RunRoomReset, RunFinalRoom, RunCacheIdOnly, NothingExcused
  <2>2. CASE TimerFires \/ RunStamp \/ RunSelectRes \/ RunFetch \/ RunSave \/ RunSend \/ RunSendRejected \/ RunSendLostReply
    BY <1>1, <2>2 DEF TimerFires, RunStamp, RunSelectRes, RunFetch, RunSave, RunSend, RunSendRejected,
          RunSendLostReply, EndRun, LeaveRound, Goto, cacheVars, resCols, roomCols, histVars
  <2>3. CASE RunCache \/ RunFinal
    BY <1>1, <2>3 DEF RunCache, RunFinal, LeaveRound, Goto, cacheVars, resCols, roomCols, histVars
  <2>4. CASE RunFails
    <3>1. pc # "final" /\ pc' = "sleep"
      BY <1>0, <2>4 DEF RunFails, EndRun, LeaveRound, Goto
    <3>2. Quiet
      BY <2>4, <3>1 DEF RunFails, ExcuseStampedAhead, cacheVars, resCols, roomCols
    <3> QED
      BY <1>1, <3>1, <3>2
  <2>5. CASE RunSelectRoom
    <3>1. OldestRoomDirty = {}
      BY DEF OldestRoomDirty, RoomDirty, NothingExcused, TypeOK, TypeCache
    <3>2. pc' # "sendRoom" /\ pc' # "finalRoom" /\ Quiet
      BY <2>5, <3>1 DEF RunSelectRoom, EndRun, LeaveRound, Goto, cacheVars, resCols, roomCols, histVars
    <3> QED
      BY <1>1, <3>2
  <2> QED
    BY <1>8, <2>1, <2>2, <2>3, <2>4, <2>5 DEF RunStep
<1>9. ~Crash
  BY <1>0 DEF Crash
<1> QED
  BY <1>2, <1>3, <1>4, <1>5, <1>6, <1>7, <1>8, <1>9, <1>10 DEF Next, HandlerStep

\* With a single connection thread, without room changes, and if no run stops between its
\* stamps, every committed change is in Salesforce, selected by the next run or being sent.
THEOREM AllDelivered == ASSUME OrderedCommits PROVE Spec => []ResDelivered
<1>1. Init => NothingExcused
  BY ExcusedInit
<1>2. TypeOK /\ DeliveryInv /\ NothingExcused /\ [Next]_vars => NothingExcused'
  BY ExcusedStep
<1>3. TypeOK /\ NothingExcused /\ ResDeliveredOrExcused => ResDelivered
  <2>1. ASSUME TypeOK, NothingExcused, NEW r \in Res, acked[r] <= excused[r] PROVE sfData[r] >= acked[r]
    <3>1. acked[r] \in Nat /\ sfData[r] \in Nat /\ excused[r] = 0
      BY <2>1, Numbers DEF NothingExcused
    <3> QED
      BY <2>1, <3>1
  <2> QED
    BY <2>1 DEF ResDeliveredOrExcused, ResDelivered
<1> QED
  BY <1>1, <1>2, <1>3, TypeCorrect, DeliveryInvariant, NoChangeLost, PTL DEF Spec

-----------------------------------------------------------------------------
(***************************************************************************)
(* 4. Room changes.  What the types say about single values.               *)
(***************************************************************************)
LEMMA RoomNumbers ==
    ASSUME TypeOK
    PROVE  /\ clock \in Nat /\ action_time \in Nat /\ job.room \in Nat
           /\ \A r \in Res : /\ shRoom[r] \in Nat /\ sfRoom[r] \in Nat
                             /\ ackedRoom[r] \in Nat /\ excusedRoom[r] \in Nat
                             /\ rgr_room_last_change[r] \in Nat /\ rgr_room_last_sync[r] \in Nat
                             /\ rgr_room_id[r] \in Nat
           /\ \A h \in Handlers : /\ handling[h].ver \in Nat /\ handling[h].stamp \in Nat
                                  /\ handling[h].kind # "none" => handling[h].res \in Res
           /\ \A i \in 1 .. Len(net) : net[i] \in Notifications
           /\ pc \in {"save", "send", "sendRoom", "finalRoom"} => job.res \in Res
<1> USE DEF TypeOK
<1>1. clock \in Nat /\ \A h \in Handlers : /\ handling[h].ver \in Nat /\ handling[h].stamp \in Nat
                                           /\ handling[h].kind # "none" => handling[h].res \in Res
  BY DEF TypeHandling
<1>2. /\ action_time \in Nat /\ job.room \in Nat
      /\ pc \in {"save", "send", "sendRoom", "finalRoom"} => job.res \in Res
  BY DEF TypeRun
<1>3. \A r \in Res : shRoom[r] \in Nat /\ sfRoom[r] \in Nat /\ ackedRoom[r] \in Nat /\ excusedRoom[r] \in Nat
  BY DEF TypeSihot, TypeSf, TypeHist
<1>4. \A r \in Res : /\ rgr_room_last_change[r] \in Nat /\ rgr_room_last_sync[r] \in Nat
                     /\ rgr_room_id[r] \in Nat
  BY DEF TypeCache
<1>5. \A i \in 1 .. Len(net) : net[i] \in Notifications
  BY DEF TypeSihot
<1> QED
  BY <1>1, <1>2, <1>3, <1>4, <1>5

LEMMA RoomInit == Init => RoomInv
BY ConstantsAssumption DEF ConstantsAssumption, Init, RoomInv,
   RowHasNewestRoom, RoomJobInOrder, RoomDeliveredOrExcused, RoomExcused

-----------------------------------------------------------------------------
(***************************************************************************)
(* Steps that leave the rooms alone: they at most excuse more than before  *)
(* or leave the two steps that send a room.                                *)
(***************************************************************************)
LEMMA QuietStep ==
    ASSUME TypeOK, RoomInv,
           \A r \in Res : excusedRoom'[r] \in Nat /\ excusedRoom'[r] >= excusedRoom[r],
           UNCHANGED <<roomCols, sfRoom, ackedRoom>>,
           UNCHANGED <<pc, job, action_time>> \/ pc' \notin {"sendRoom", "finalRoom"}
    PROVE  RoomInv'
<1> USE RoomNumbers DEF roomCols
<1>2. \A r \in Res : RoomExcused(r) => RoomExcused(r)'
  BY DEF RoomExcused
<1>5. RowHasNewestRoom' /\ RoomDeliveredOrExcused'
  BY <1>2 DEF RoomInv, RowHasNewestRoom, RoomDeliveredOrExcused, RoomExcused
<1>6. RoomJobInOrder'
  BY <1>2 DEF RoomInv, RoomJobInOrder
<1> QED
  BY <1>5, <1>6 DEF RoomInv

(***************************************************************************)
(* Connection threads.                                                     *)
(***************************************************************************)
\* The newest room comes last and is stamped later than the round, or it is excused.
LEMMA RoomCommitStep ==
    ASSUME TypeOK, RoomInv, NEW h \in Handlers, RoomCommit(h)
    PROVE  RoomInv'
<1> USE RoomNumbers
<1> DEFINE r == handling[h].res
           s == handling[h].stamp
           v == handling[h].ver
<1>0. r \in Res /\ s \in Nat /\ v \in Nat /\ handling[h].kind = "RC"
  BY DEF RoomCommit
<1>1. UNCHANGED <<rgr_room_last_sync, sfRoom, pc, job, action_time>>
  BY DEF RoomCommit, sfVars, runVars
<1>2. /\ rgr_room_id'[r] = v /\ rgr_room_last_change'[r] = s
      /\ \A q \in Res : q # r => rgr_room_id'[q] = rgr_room_id[q] /\ rgr_room_last_change'[q] = rgr_room_last_change[q]
  BY <1>0 DEF RoomCommit, TypeOK, TypeCache
<1>3. /\ ackedRoom'[r] = IF ackedRoom[r] < v THEN v ELSE ackedRoom[r]
      /\ \A q \in Res : q # r => ackedRoom'[q] = ackedRoom[q]
  BY <1>0 DEF RoomCommit, TypeOK, TypeHist, Larger
<1> DEFINE late == v < ackedRoom[r] \/ s <= rgr_room_last_sync[r] \/ (SyncingRoom(r) /\ s <= action_time)
<1>4. /\ excusedRoom'[r] \in Nat /\ excusedRoom'[r] >= excusedRoom[r]
      /\ \A q \in Res : q # r => excusedRoom'[q] = excusedRoom[q]
      /\ late => excusedRoom'[r] >= v /\ excusedRoom'[r] >= ackedRoom[r]
  <2>1. CASE late
    <3> DEFINE n == Larger(Larger(excusedRoom[r], v), ackedRoom[r])
    <3>1. excusedRoom' = [excusedRoom EXCEPT ![r] = n]
      BY <2>1 DEF RoomCommit
    <3>2. excusedRoom \in [Res -> Nat] /\ excusedRoom[r] \in Nat /\ ackedRoom[r] \in Nat
          /\ v \in Nat /\ r \in Res
      BY <1>0 DEF TypeOK, TypeHist
    <3> HIDE DEF r, s, v, late
    <3>3. n \in Nat /\ n >= excusedRoom[r] /\ n >= v /\ n >= ackedRoom[r]
      BY <3>2 DEF Larger
    <3> HIDE DEF n
    <3>4. /\ excusedRoom'[r] = n
          /\ \A q \in Res : q # r => excusedRoom'[q] = excusedRoom[q]
      BY <3>1, <3>2
    <3> QED
      BY <3>3, <3>4
  <2>2. CASE ~late
    BY <1>0, <2>2 DEF RoomCommit
  <2> QED
    BY <2>1, <2>2
<1>7. ~late => v >= ackedRoom[r] /\ s > rgr_room_last_sync[r] /\ (SyncingRoom(r) => s > action_time)
  BY <1>0
<1> HIDE DEF r, s, v, late
<1>8. \/ ackedRoom'[r] <= excusedRoom'[r]
      \/ /\ ackedRoom'[r] = v
         /\ s > rgr_room_last_sync[r]
         /\ SyncingRoom(r) => s > action_time
  BY <1>0, <1>3, <1>4, <1>7
<1>11. RowHasNewestRoom'
  <2>1. ASSUME NEW q \in Res PROVE ackedRoom'[q] <= rgr_room_id'[q] \/ ackedRoom'[q] <= excusedRoom'[q]
    <3>1. CASE q = r
      BY <1>0, <1>2, <1>8, <3>1
    <3>2. CASE q # r
      BY <1>2, <1>3, <1>4, <3>2 DEF RoomInv, RowHasNewestRoom, RoomExcused
    <3> QED
      BY <3>1, <3>2
  <2> QED
    BY <2>1 DEF RowHasNewestRoom, RoomExcused
<1>12. RoomJobInOrder'
  <2>1. CASE pc \notin {"sendRoom", "finalRoom"}
    BY <1>1, <2>1 DEF RoomJobInOrder
  <2>2. CASE pc \in {"sendRoom", "finalRoom"} /\ job.res = r
    <3>1. \/ ackedRoom'[r] <= excusedRoom'[r]
          \/ rgr_room_last_change'[r] > action_time /\ rgr_room_last_change'[r] > rgr_room_last_sync[r]
      BY <1>2, <1>8, <2>2 DEF SyncingRoom
    <3> QED
      BY <1>1, <2>2, <3>1 DEF RoomJobInOrder, RoomExcused
  <2>3. CASE pc \in {"sendRoom", "finalRoom"} /\ job.res # r
    <3>1. /\ job.res \in Res /\ ackedRoom'[job.res] = ackedRoom[job.res]
          /\ rgr_room_last_change'[job.res] = rgr_room_last_change[job.res]
          /\ excusedRoom'[job.res] = excusedRoom[job.res]
      BY <1>2, <1>3, <1>4, <2>3
    <3> QED
      BY <1>1, <3>1 DEF RoomInv, RoomJobInOrder, RoomExcused
  <2> QED
    BY <2>1, <2>2, <2>3
<1>13. RoomDeliveredOrExcused'
  <2>1. ASSUME NEW q \in Res
        PROVE  \/ sfRoom[q] >= ackedRoom'[q]
               \/ rgr_room_last_change'[q] > rgr_room_last_sync[q]
               \/ ackedRoom'[q] <= excusedRoom'[q]
    <3>1. CASE q = r
      BY <1>0, <1>2, <1>8, <3>1
    <3>2. CASE q # r
      BY <1>2, <1>3, <1>4, <3>2 DEF RoomInv, RoomDeliveredOrExcused
    <3> QED
      BY <3>1, <3>2
  <2> QED
    BY <1>1, <2>1 DEF RoomDeliveredOrExcused
<1> QED
  BY <1>11, <1>12, <1>13 DEF RoomInv

-----------------------------------------------------------------------------
(***************************************************************************)
(* The sync thread.                                                        *)
(***************************************************************************)
\* The selected row has the newest room, and stays dirty until the stamp of the round.
LEMMA SelectRoomStep ==
    ASSUME TypeOK, RoomInv, NEW q \in OldestRoomDirty, RunSelectRoom,
           job' = [NoJob EXCEPT !.res = q, !.sfId = rgr_sf_id[q], !.room = rgr_room_id[q]],
           pc' = "sendRoom"
    PROVE  RoomInv'
<1> USE RoomNumbers
<1>1. UNCHANGED <<roomCols, sfRoom, ackedRoom, excusedRoom>>
  BY DEF RunSelectRoom, shVars, cacheVars, sfVars, histVars
<1>2. q \in Res /\ rgr_room_last_change[q] > rgr_room_last_sync[q]
  BY DEF OldestRoomDirty, RoomDirty
<1>3. job'.res = q /\ job'.room = rgr_room_id[q]
  BY DEF NoJob
<1>4. ackedRoom[q] <= rgr_room_id[q] \/ ackedRoom[q] <= excusedRoom[q]
  BY <1>2 DEF RoomInv, RowHasNewestRoom, RoomExcused
<1>5. RoomJobInOrder'
  BY <1>1, <1>2, <1>3, <1>4 DEF RoomJobInOrder, RoomExcused, roomCols
<1> QED
  BY <1>1, <1>5 DEF RoomInv, RowHasNewestRoom, RoomDeliveredOrExcused,
                    RoomExcused, roomCols

\* Saving the fetched reservation puts an older room into the row at most with an excuse.
LEMMA SaveRoomStep ==
    ASSUME TypeOK, RoomInv, RunSave
    PROVE  RoomInv'
<1> USE RoomNumbers
<1> DEFINE r == job.res
<1>1. /\ UNCHANGED <<rgr_room_last_change, rgr_room_last_sync, sfRoom, ackedRoom, job, action_time>>
      /\ pc' = "send" /\ r \in Res
  BY DEF RunSave, Goto, shVars, sfVars
<1>2. rgr_room_id'[r] = job.room /\ \A q \in Res : q # r => rgr_room_id'[q] = rgr_room_id[q]
  BY <1>1 DEF RunSave, TypeOK, TypeCache
<1>3. /\ \A q \in Res : excusedRoom'[q] \in Nat /\ excusedRoom'[q] >= excusedRoom[q]
      /\ job.room < rgr_room_id[r] => excusedRoom'[r] >= ackedRoom[r]
  <2>1. CASE job.room < rgr_room_id[r]
    <3>1. excusedRoom' = [excusedRoom EXCEPT ![r] = Larger(@, ackedRoom[r])]
      BY <2>1 DEF RunSave
    <3> QED
      BY <1>1, <3>1 DEF TypeOK, TypeHist, Larger
  <2>2. CASE ~(job.room < rgr_room_id[r])
    BY <2>2 DEF RunSave
  <2> QED
    BY <2>1, <2>2
<1>4. RoomJobInOrder'
  BY <1>1 DEF RoomInv, RoomJobInOrder
<1>6. RowHasNewestRoom'
  <2>1. ASSUME NEW q \in Res PROVE ackedRoom[q] <= rgr_room_id'[q] \/ ackedRoom[q] <= excusedRoom'[q]
    <3>1. ackedRoom[q] <= rgr_room_id[q] \/ ackedRoom[q] <= excusedRoom[q]
      BY DEF RoomInv, RowHasNewestRoom, RoomExcused
    <3>2. excusedRoom'[q] \in Nat /\ excusedRoom'[q] >= excusedRoom[q]
      BY <1>3
    <3> QED
      BY <1>1, <1>2, <1>3, <3>1, <3>2
  <2> QED
    BY <1>1, <2>1 DEF RowHasNewestRoom, RoomExcused
<1>7. RoomDeliveredOrExcused'
  BY <1>1, <1>3 DEF RoomInv, RoomDeliveredOrExcused
<1> QED
  BY <1>4, <1>6, <1>7 DEF RoomInv

\* A new Opportunity has no room: the row is still to be sent, or the loss is excused.
LEMMA SendResStep ==
    ASSUME TypeOK, RoomInv, RunSend \/ RunSendLostReply
    PROVE  RoomInv'
<1> USE RoomNumbers
<1> DEFINE r == job.res
<1>1. /\ UNCHANGED <<roomCols, ackedRoom>>
      /\ pc = "send" /\ r \in Res /\ pc' \in {"cache", "sleep"} /\ SfUpsert(r)
  BY DEF RunSend, RunSendLostReply, EndRun, LeaveRound, Goto, shVars, cacheVars
<1>2. /\ \A q \in Res : excusedRoom'[q] \in Nat /\ excusedRoom'[q] >= excusedRoom[q]
      /\ \A q \in Res : \/ sfRoom'[q] = sfRoom[q]
                        \/ rgr_room_last_change[q] > rgr_room_last_sync[q]
                        \/ ackedRoom[q] <= excusedRoom'[q]
  <2>1. CASE UNCHANGED <<sfRoom, excusedRoom>>
    BY <2>1
  <2>2. CASE ~UNCHANGED <<sfRoom, excusedRoom>>
    <3>1. \A q \in Res : q # r => sfRoom'[q] = sfRoom[q]
      BY <1>1, <2>2 DEF SfUpsert, TypeOK, TypeSf
    <3>2. CASE rgr_room_last_change[r] <= rgr_room_last_sync[r]
      <4>1. excusedRoom' = [excusedRoom EXCEPT ![r] = Larger(@, ackedRoom[r])]
        BY <1>1, <2>2, <3>2 DEF SfUpsert
      <4> QED
        BY <1>1, <3>1, <4>1 DEF TypeOK, TypeHist, Larger
    <3>3. CASE ~(rgr_room_last_change[r] <= rgr_room_last_sync[r])
      <4>1. excusedRoom' = excusedRoom
        BY <1>1, <2>2, <3>3 DEF SfUpsert
      <4> QED
        BY <1>1, <3>1, <3>3, <4>1
    <3> QED
      BY <3>2, <3>3
  <2> QED
    BY <2>1, <2>2
<1>3. RoomJobInOrder'
  BY <1>1 DEF RoomInv, RoomJobInOrder
<1>4. RowHasNewestRoom'
  <2>1. \A q \in Res : RoomExcused(q) => RoomExcused(q)'
    <3>1. ASSUME NEW q \in Res, ackedRoom[q] <= excusedRoom[q]
          PROVE  ackedRoom'[q] <= excusedRoom'[q]
      <4>1. ackedRoom[q] \in Nat /\ excusedRoom[q] \in Nat
        BY DEF TypeOK, TypeHist
      <4>2. ackedRoom'[q] = ackedRoom[q] /\ excusedRoom'[q] \in Nat /\ excusedRoom'[q] >= excusedRoom[q]
        BY <1>1, <1>2
      <4> QED
        BY <3>1, <4>1, <4>2
    <3> QED
      BY <3>1 DEF RoomExcused
  <2> QED
    BY <1>1, <2>1 DEF RoomInv, RowHasNewestRoom, roomCols
<1>5. RoomDeliveredOrExcused'
  <2>1. ASSUME NEW q \in Res
        PROVE  \/ sfRoom'[q] >= ackedRoom[q]
               \/ rgr_room_last_change[q] > rgr_room_last_sync[q]
               \/ ackedRoom[q] <= excusedRoom'[q]
    <3>1. \/ sfRoom[q] >= ackedRoom[q]
          \/ rgr_room_last_change[q] > rgr_room_last_sync[q]
          \/ ackedRoom[q] <= excusedRoom[q]
      BY DEF RoomInv, RoomDeliveredOrExcused
    <3> QED
      BY <1>2, <3>1
  <2> QED
    BY <1>1, <2>1 DEF RoomDeliveredOrExcused, roomCols
<1> QED
  BY <1>3, <1>4, <1>5 DEF RoomInv

\* Salesforce gets the room of the round, while the row stays dirty.
LEMMA SendRoomStep ==
    ASSUME TypeOK, RoomInv, RunSendRoom
    PROVE  RoomInv'
<1> USE RoomNumbers
<1> DEFINE r == job.res
<1>1. /\ UNCHANGED <<roomCols, ackedRoom, excusedRoom>>
      /\ pc = "sendRoom" /\ r \in Res
  BY DEF RunSendRoom, shVars, cacheVars, histVars
<1>2. pc' = "sleep" \/ (pc' = "finalRoom" /\ job' = job /\ action_time' = action_time)
  BY DEF RunSendRoom, EndRun, LeaveRound, Goto
<1>3. sfRoom'[r] = job.room /\ \A q \in Res : q # r => sfRoom'[q] = sfRoom[q]
  BY <1>1 DEF RunSendRoom, TypeOK, TypeSf
<1>4. /\ \/ ackedRoom[r] <= job.room
         \/ rgr_room_last_change[r] > action_time
         \/ ackedRoom[r] <= excusedRoom[r]
      /\ \/ rgr_room_last_change[r] > rgr_room_last_sync[r]
         \/ ackedRoom[r] <= excusedRoom[r]
  BY <1>1 DEF RoomInv, RoomJobInOrder, RoomExcused
<1>5. RoomJobInOrder'
  BY <1>1, <1>2, <1>3, <1>4 DEF RoomJobInOrder, RoomExcused, roomCols
<1>6. RoomDeliveredOrExcused'
  <2>1. ASSUME NEW q \in Res
        PROVE  \/ sfRoom'[q] >= ackedRoom[q]
               \/ rgr_room_last_change[q] > rgr_room_last_sync[q]
               \/ ackedRoom[q] <= excusedRoom[q]
    <3>1. CASE q = r
      BY <1>4, <3>1
    <3>2. CASE q # r
      BY <1>3, <3>2 DEF RoomInv, RoomDeliveredOrExcused
    <3> QED
      BY <3>1, <3>2
  <2> QED
    BY <1>1, <2>1 DEF RoomDeliveredOrExcused, roomCols
<1> QED
  BY <1>1, <1>5, <1>6 DEF RoomInv, RowHasNewestRoom, RoomExcused, roomCols

\* Nothing is sent to a deleted Opportunity: what the row has is excused.
LEMMA RoomResetStep ==
    ASSUME TypeOK, RoomInv, RunRoomReset
    PROVE  RoomInv'
<1> USE RoomNumbers
<1> DEFINE r == job.res
<1>1. /\ UNCHANGED <<roomCols, sfRoom, ackedRoom, job, action_time>>
      /\ pc = "sendRoom" /\ pc' = "finalRoom" /\ r \in Res
  BY DEF RunRoomReset, Goto, shVars, sfVars
<1>2. /\ \A q \in Res : excusedRoom'[q] \in Nat /\ excusedRoom'[q] >= excusedRoom[q]
      /\ excusedRoom'[r] >= ackedRoom[r]
  <2>1. excusedRoom' = [excusedRoom EXCEPT ![r] = Larger(@, ackedRoom[r])]
    BY DEF RunRoomReset
  <2> QED
    BY <1>1, <2>1 DEF TypeOK, TypeHist, Larger
<1>4. RowHasNewestRoom'
  BY <1>1, <1>2 DEF RoomInv, RowHasNewestRoom, RoomExcused, roomCols
<1>5. RoomJobInOrder'
  BY <1>1, <1>2 DEF RoomJobInOrder, RoomExcused
<1>6. RoomDeliveredOrExcused'
  <2>1. ASSUME NEW q \in Res
        PROVE  \/ sfRoom[q] >= ackedRoom[q]
               \/ rgr_room_last_change[q] > rgr_room_last_sync[q]
               \/ ackedRoom[q] <= excusedRoom'[q]
    <3>1. /\ ackedRoom[q] \in Nat /\ excusedRoom[q] \in Nat
          /\ excusedRoom'[q] \in Nat /\ excusedRoom'[q] >= excusedRoom[q]
      BY <1>2
    <3>2. \/ sfRoom[q] >= ackedRoom[q]
          \/ rgr_room_last_change[q] > rgr_room_last_sync[q]
          \/ ackedRoom[q] <= excusedRoom[q]
      BY DEF RoomInv, RoomDeliveredOrExcused
    <3> QED
      BY <3>1, <3>2
  <2> QED
    BY <1>1, <2>1 DEF RoomDeliveredOrExcused, roomCols
<1> QED
  BY <1>4, <1>5, <1>6 DEF RoomInv

\* The stamp of a round leaves a row dirty that changed after the round began.
LEMMA FinalRoomStep ==
    ASSUME TypeOK, RoomInv, RunFinalRoom
    PROVE  RoomInv'
<1> USE RoomNumbers
<1> DEFINE r == job.res
<1>1. /\ UNCHANGED <<rgr_room_last_change, rgr_room_id, sfRoom, ackedRoom, excusedRoom>>
      /\ pc = "finalRoom" /\ pc' = "stamp" /\ r \in Res
  BY DEF RunFinalRoom, LeaveRound, Goto, shVars, sfVars, histVars
<1>2. /\ rgr_room_last_sync'[r] = action_time
      /\ \A q \in Res : q # r => rgr_room_last_sync'[q] = rgr_room_last_sync[q]
  BY <1>1 DEF RunFinalRoom, SyncStamp, TypeOK, TypeCache
<1>3. \/ ackedRoom[r] <= sfRoom[r]
      \/ rgr_room_last_change[r] > action_time
      \/ ackedRoom[r] <= excusedRoom[r]
  BY <1>1 DEF RoomInv, RoomJobInOrder, RoomExcused
<1>4. RoomDeliveredOrExcused'
  <2>1. ASSUME NEW q \in Res
        PROVE  \/ sfRoom[q] >= ackedRoom[q]
               \/ rgr_room_last_change[q] > rgr_room_last_sync'[q]
               \/ ackedRoom[q] <= excusedRoom[q]
    <3>1. CASE q = r
      BY <1>2, <1>3, <3>1
    <3>2. CASE q # r
      BY <1>2, <3>2 DEF RoomInv, RoomDeliveredOrExcused
    <3> QED
      BY <3>1, <3>2
  <2> QED
    BY <1>1, <2>1 DEF RoomDeliveredOrExcused
<1> QED
  BY <1>1, <1>4 DEF RoomInv, RowHasNewestRoom, RoomJobInOrder, RoomExcused

-----------------------------------------------------------------------------
(***************************************************************************)
(* All steps.                                                              *)
(***************************************************************************)
\* The steps that meet the conditions of QuietStep.
LEMMA OtherRoomStep ==
    ASSUME TypeOK, RoomInv,
           \/ UNCHANGED vars
           \/ \E r \in Res : ShResChange(r) \/ ShRoomChange(r) \/ SfDelete(r)
           \/ \E h \in Handlers : Accept(h) \/ ReadClock(h) \/ ResCommit(h) \/ CommitFails(h)
           \/ TimerFires \/ RunStamp \/ RunSelectRes \/ RunFetch \/ RunSendRejected
           \/ RunCache \/ RunCacheIdOnly \/ RunFinal \/ RunFails \/ Crash
           \/ RunSelectRoom /\ pc' # "sendRoom"
    PROVE  RoomInv'
<1> USE RoomNumbers DEF shVars, cacheVars, sfVars, histVars, runVars
<1> DEFINE Untouched == UNCHANGED <<roomCols, sfRoom, ackedRoom, excusedRoom>>
<1>1. CASE UNCHANGED vars
  <2>1. Untouched /\ UNCHANGED <<pc, job, action_time>>
    BY <1>1 DEF vars
  <2> QED
    BY <2>1, QuietStep
<1>2. ASSUME NEW r \in Res, ShResChange(r) \/ ShRoomChange(r) \/ SfDelete(r) PROVE RoomInv'
  <2>1. Untouched /\ UNCHANGED <<pc, job, action_time>>
    BY <1>2 DEF ShResChange, ShRoomChange, SfDelete
  <2> QED
    BY <2>1, QuietStep
<1>3. ASSUME NEW h \in Handlers, Accept(h) \/ ReadClock(h) \/ ResCommit(h) \/ CommitFails(h)
      PROVE  RoomInv'
  <2>1. Untouched /\ UNCHANGED <<pc, job, action_time>>
    BY <1>3 DEF Accept, ReadClock, ResCommit, CommitFails
  <2> QED
    BY <2>1, QuietStep
<1>4. CASE TimerFires \/ RunStamp \/ RunSelectRes \/ RunFetch \/ RunSendRejected
  <2>1. Untouched /\ pc' \notin {"sendRoom", "finalRoom"}
    BY <1>4 DEF TimerFires, RunStamp, RunSelectRes, RunFetch, RunSendRejected, EndRun, LeaveRound, Goto
  <2> QED
    BY <2>1, QuietStep
<1>5. CASE RunCache \/ RunCacheIdOnly \/ RunFinal
  <2>1. Untouched /\ pc' \notin {"sendRoom", "finalRoom"}
    BY <1>5 DEF RunCache, RunCacheIdOnly, RunFinal, EndRun, LeaveRound, Goto
  <2> QED
    BY <2>1, QuietStep
<1>6. CASE RunFails \/ Crash
  <2>1. Untouched /\ pc' \notin {"sendRoom", "finalRoom"}
    BY <1>6 DEF RunFails, Crash, EndRun, LeaveRound, Goto
  <2> QED
    BY <2>1, QuietStep
<1>7. CASE RunSelectRoom /\ pc' # "sendRoom"
  <2>1. Untouched /\ pc' \notin {"sendRoom", "finalRoom"}
    BY <1>7 DEF RunSelectRoom, EndRun, LeaveRound, Goto
  <2> QED
    BY <2>1, QuietStep
<1> QED
  BY <1>1, <1>2, <1>3, <1>4, <1>5, <1>6, <1>7

LEMMA RoomStep == TypeOK /\ RoomInv /\ [Next]_vars => RoomInv'
<1> SUFFICES ASSUME TypeOK, RoomInv, [Next]_vars PROVE RoomInv'
  OBVIOUS
<1>1. CASE UNCHANGED vars
  BY <1>1, OtherRoomStep
<1>2. ASSUME NEW r \in Res, ShResChange(r) \/ ShRoomChange(r) \/ SfDelete(r) PROVE RoomInv'
  BY <1>2, OtherRoomStep
<1>3. ASSUME NEW h \in Handlers, HandlerStep(h) PROVE RoomInv'
  BY <1>3, RoomCommitStep, OtherRoomStep DEF HandlerStep
<1>4. CASE RunStep
  <2>1. CASE RunSelectRoom /\ pc' = "sendRoom"
    <3>1. PICK q \in OldestRoomDirty :
             job' = [NoJob EXCEPT !.res = q, !.sfId = rgr_sf_id[q], !.room = rgr_room_id[q]]
      BY <2>1 DEF RunSelectRoom, EndRun, LeaveRound, Goto
    <3> QED
      BY <2>1, <3>1, SelectRoomStep
  <2> QED
    BY <1>4, <2>1, SaveRoomStep, SendResStep, SendRoomStep, RoomResetStep, FinalRoomStep, OtherRoomStep
       DEF RunStep
<1>5. CASE Crash
  BY <1>5, OtherRoomStep
<1> QED
  BY <1>1, <1>2, <1>3, <1>4, <1>5 DEF Next

\* Rooms: the row has the newest room, and the room of the round is the newest but for later
\* stamped changes.
THEOREM RoomInvariant == Spec => []RoomInv
BY TypeCorrect, RoomInit, RoomStep, PTL DEF Spec

\* A committed room change is in Salesforce, or its row is selected by a later run, or it
\* fell into one of the windows named at excusedRoom: connection threads that overtake each
\* other or the round, a fetch that is saved over a newer room, a deleted Opportunity.
THEOREM NoRoomChangeLost == Spec => []RoomDeliveredOrExcused
<1>1. RoomInv => RoomDeliveredOrExcused
  BY DEF RoomInv
<1> QED
  BY <1>1, RoomInvariant, PTL

-----------------------------------------------------------------------------
(***************************************************************************)
(* 5. Opportunities: rows, rounds and Salesforce agree on their ids.       *)
(***************************************************************************)
LEMMA OppTypes ==
    ASSUME TypeOK
    PROVE  /\ \A r \in Res : oppCount[r] \in Nat /\ rgr_sf_id[r] \in Nat
           /\ oppLive \subseteq Res /\ AcuKnown \subseteq Res
           /\ pc \in {"fetch", "save", "send", "cache", "final", "sendRoom", "finalRoom"} => job.res \in Res
           /\ job \in [res : Res \cup {NoRes}, rowSfId : Nat, sfId : Nat, changed : Nat, ver : Nat, room : Nat]
BY ConstantsAssumption DEF ConstantsAssumption, TypeOK, TypeSf, TypeCache, TypeRun

LEMMA OppInit ==
    ASSUME Init
    PROVE  OppInv
BY ConstantsAssumption DEF ConstantsAssumption, Init, OppInv, JobIdOfRow, OppOfRow, RowHoldsNewestOpp, AcuSfId, NoJob

\* Steps that leave all ids alone.
LEMMA IdsKeptStep ==
    ASSUME OppInv, UNCHANGED <<rgr_sf_id, oppCount, oppLive>>,
           \/ UNCHANGED <<pc, job>>
           \/ pc # "cache" /\ pc' \in {"sleep", "stamp", "selectRes", "final", "finalRoom"}
    PROVE  OppInv'
BY DEF OppInv, JobIdOfRow, OppOfRow, RowHoldsNewestOpp

\* Both queries read the id of the row with the row.
LEMMA SelectIdStep ==
    ASSUME TypeOK, OppInv, RunSelectRes \/ RunSelectRoom
    PROVE  OppInv'
<1>1. UNCHANGED <<rgr_sf_id, oppCount, oppLive>> /\ pc \in {"selectRes", "selectRoom"}
  BY DEF RunSelectRes, RunSelectRoom, cacheVars, sfVars
<1>2. RowHoldsNewestOpp' /\ OppOfRow'
  BY <1>1 DEF OppInv, RowHoldsNewestOpp, OppOfRow
<1>3. JobIdOfRow'
  <2>1. CASE RunSelectRes
    <3>1. pc' = "selectRoom"
      BY <2>1 DEF RunSelectRes, Goto
    <3>2. CASE OldestDirty = {}
      BY <2>1, <3>1, <3>2 DEF RunSelectRes, NoJob, JobIdOfRow
    <3>3. CASE OldestDirty # {}
      <4>1. PICK r \in OldestDirty :
               job' = [NoJob EXCEPT !.res = r, !.rowSfId = rgr_sf_id[r], !.changed = rgr_last_change[r]]
        BY <2>1, <3>3 DEF RunSelectRes
      <4>2. job'.res = r /\ job'.rowSfId = rgr_sf_id[r]
        BY <4>1 DEF NoJob
      <4> QED
        BY <1>1, <3>1, <4>2 DEF JobIdOfRow
    <3> QED
      BY <3>2, <3>3
  <2>2. CASE RunSelectRoom
    <3>1. CASE ResIsNext /\ Goto("fetch") /\ UNCHANGED <<action_time, job>>
      BY <1>1, <2>2, <3>1 DEF RunSelectRoom, ResIsNext, Goto, OppInv, JobIdOfRow
    <3>2. ASSUME NEW q \in OldestRoomDirty, Goto("sendRoom"),
                 job' = [NoJob EXCEPT !.res = q, !.sfId = rgr_sf_id[q], !.room = rgr_room_id[q]]
          PROVE  JobIdOfRow'
      <4>1. job'.res = q /\ job'.sfId = rgr_sf_id[q] /\ rgr_sf_id[q] # 0 /\ pc' = "sendRoom"
        BY <3>2 DEF NoJob, OldestRoomDirty, RoomDirty, Goto
      <4> QED
        BY <1>1, <4>1 DEF JobIdOfRow
    <3>3. CASE EndRun
      BY <3>3 DEF EndRun, LeaveRound, Goto, JobIdOfRow
    <3> QED
      BY <2>2, <3>1, <3>2, <3>3 DEF RunSelectRoom
  <2> QED
    BY <2>1, <2>2
<1> QED
  BY <1>2, <1>3 DEF OppInv

\* The id that is sent is that of the row, or the one that Acumen knows.
LEMMA FetchIdStep ==
    ASSUME TypeOK, OppInv, RunFetch \/ RunSave
    PROVE  OppInv'
<1>1. UNCHANGED <<rgr_sf_id, oppCount, oppLive>> /\ pc \in {"fetch", "save"} /\ pc' \in {"save", "send"}
  BY DEF RunFetch, RunSave, Goto, cacheVars, sfVars
<1>2. RowHoldsNewestOpp' /\ OppOfRow'
  BY <1>1 DEF OppInv, RowHoldsNewestOpp, OppOfRow
<1>3. JobIdOfRow'
  <2>1. CASE RunFetch
    <3>1. /\ job'.res = job.res /\ job'.rowSfId = job.rowSfId
          /\ job'.sfId = IF job.rowSfId # 0 THEN job.rowSfId ELSE AcuSfId(job.res)
      BY <2>1, OppTypes DEF RunFetch
    <3>2. AcuSfId(job'.res) = AcuSfId(job.res)
      BY <3>1
    <3> QED
      BY <1>1, <2>1, <3>1, <3>2 DEF RunFetch, OppInv, JobIdOfRow, AcuSfId
  <2>2. CASE RunSave
    BY <1>1, <2>2 DEF RunSave, OppInv, JobIdOfRow, AcuSfId
  <2> QED
    BY <2>1, <2>2
<1> QED
  BY <1>2, <1>3 DEF OppInv

\* A live Opportunity is found by the id that is sent.
LEMMA AliveIsFound ==
    ASSUME TypeOK, OppInv, pc = "send", job.res \in oppLive
    PROVE  OppAlive(job.res, job.sfId)
<1> USE OppTypes
<1>1. /\ job.rowSfId = rgr_sf_id[job.res]
      /\ job.sfId = IF job.rowSfId # 0 THEN job.rowSfId ELSE AcuSfId(job.res)
      /\ job.res \in Res
  BY DEF OppInv, JobIdOfRow
<1>2. CASE rgr_sf_id[job.res] # 0
  BY <1>1, <1>2 DEF OppInv, RowHoldsNewestOpp, OppAlive
<1>3. CASE rgr_sf_id[job.res] = 0
  <2>1. job.res \in AcuKnown /\ oppCount[job.res] = 1
    BY <1>1, <1>3 DEF OppInv, OppOfRow
  <2> QED
    BY <1>1, <1>3, <2>1 DEF OppAlive, AcuSfId
<1> QED
  BY <1>2, <1>3

LEMMA SendIdStep ==
    ASSUME TypeOK, OppInv, RunSend
    PROVE  OppInv'
<1> USE OppTypes
<1> DEFINE r == job.res
<1>1. UNCHANGED rgr_sf_id /\ pc = "send" /\ pc' = "cache" /\ r \in Res
  BY DEF RunSend, Goto, cacheVars
<1>2. CASE OppAlive(r, job.sfId)
  <2>1. UNCHANGED <<oppCount, oppLive, job>> /\ job.sfId = oppCount[r] /\ r \in oppLive
    BY <1>2 DEF RunSend, SfUpsert, OppAlive
  <2>2. rgr_sf_id[r] = oppCount[r] \/ (rgr_sf_id[r] = 0 /\ (job.sfId # 0 => r \in AcuKnown))
    BY <1>1, <2>1 DEF OppInv, JobIdOfRow, AcuSfId
  <2> QED
    BY <1>1, <2>1, <2>2 DEF OppInv, JobIdOfRow, OppOfRow, RowHoldsNewestOpp
<1>3. CASE ~OppAlive(r, job.sfId)
  <2>1. r \notin oppLive /\ r \notin AcuKnown
    BY <1>1, <1>3, AliveIsFound DEF OppInv, OppOfRow
  <2>2. /\ oppCount' = [oppCount EXCEPT ![r] = @ + 1] /\ oppLive' = oppLive \cup {r}
        /\ job' = [job EXCEPT !.sfId = 0]
    BY <1>3 DEF RunSend, SfUpsert
  <2>3. job'.res = r /\ job'.sfId = 0
    BY <2>2
  <2>4. oppCount'[r] = oppCount[r] + 1 /\ oppCount'[r] # 0
    BY <1>1, <2>2 DEF TypeOK, TypeSf
  <2>5. \A q \in Res : q # r => oppCount'[q] = oppCount[q]
    BY <1>1, <2>2 DEF TypeOK, TypeSf
  <2>6. JobIdOfRow'
    BY <1>1, <2>3, <2>4 DEF JobIdOfRow
  <2>7. OppOfRow'
    BY <1>1, <2>1, <2>2, <2>3, <2>4, <2>5 DEF OppInv, OppOfRow
  <2>8. RowHoldsNewestOpp'
    BY <1>1, <2>3, <2>5 DEF OppInv, RowHoldsNewestOpp
  <2> QED
    BY <2>6, <2>7, <2>8 DEF OppInv
<1> QED
  BY <1>2, <1>3

\* The row gets the id of a new Opportunity before the round leaves it.
LEMMA CacheIdStep ==
    ASSUME TypeOK, OppInv, RunCache \/ RunFinal
    PROVE  OppInv'
<1> USE OppTypes
<1> DEFINE r == job.res
<1>1. UNCHANGED <<oppCount, oppLive>> /\ pc \in {"cache", "final"} /\ pc' \in {"final", "stamp"} /\ r \in Res
  BY DEF RunCache, RunFinal, LeaveRound, Goto, sfVars
<1>2. \A q \in Res : q # r => rgr_sf_id'[q] = rgr_sf_id[q]
  BY <1>1 DEF RunCache, RunFinal, TypeOK, TypeCache
<1>3. rgr_sf_id'[r] = oppCount[r] \/ (rgr_sf_id'[r] = 0 /\ (r \in oppLive => r \in AcuKnown))
  <2>1. CASE RunCache
    <3>1. rgr_sf_id'[r] = CachedSfId(r) /\ pc = "cache"
      BY <1>1, <2>1 DEF RunCache, TypeOK, TypeCache
    <3> QED
      BY <3>1 DEF CachedSfId, OppInv, JobIdOfRow
  <2>2. CASE RunFinal
    <3>1. rgr_sf_id'[r] = FinalSfId(r) /\ pc = "final"
      BY <1>1, <2>2 DEF RunFinal, TypeOK, TypeCache
    <3> QED
      BY <1>1, <3>1 DEF FinalSfId, AcuSfId, OppInv, OppOfRow, RowHoldsNewestOpp
  <2> QED
    BY <2>1, <2>2
<1>4. JobIdOfRow'
  BY <1>1 DEF JobIdOfRow
<1>5. OppOfRow'
  BY <1>1, <1>2, <1>3 DEF OppInv, OppOfRow
<1>6. RowHoldsNewestOpp'
  BY <1>1, <1>2, <1>3 DEF OppInv, RowHoldsNewestOpp
<1> QED
  BY <1>4, <1>5, <1>6 DEF OppInv

\* The id is wiped only if its Opportunity is gone.
LEMMA ResetIdStep ==
    ASSUME TypeOK, OppInv, RunRoomReset
    PROVE  OppInv'
<1> USE OppTypes
<1> DEFINE r == job.res
<1>1. /\ UNCHANGED <<oppCount, oppLive, job>> /\ pc = "sendRoom" /\ pc' = "finalRoom" /\ r \in Res
      /\ ~OppAlive(r, job.sfId)
  BY DEF RunRoomReset, Goto, sfVars
<1>2. r \notin oppLive
  BY <1>1 DEF OppAlive, OppInv, JobIdOfRow, RowHoldsNewestOpp
<1>3. /\ rgr_sf_id'[r] \in {0, rgr_sf_id[r]}
      /\ \A q \in Res : q # r => rgr_sf_id'[q] = rgr_sf_id[q]
  BY <1>1 DEF RunRoomReset, TypeOK, TypeCache
<1> QED
  BY <1>1, <1>2, <1>3 DEF OppInv, JobIdOfRow, OppOfRow, RowHoldsNewestOpp

LEMMA OppStep ==
    ASSUME NothingLost, TypeOK, OppInv, [Next]_vars
    PROVE  OppInv'
<1> USE DEF cacheVars, runVars, sfVars
<1>0. ~Fault("crash") /\ ~Fault("dbFail") /\ ~Fault("sfLostReply")
  BY DEF NothingLost, Fault
<1>1. CASE UNCHANGED vars
  <2>1. UNCHANGED <<rgr_sf_id, oppCount, oppLive, pc, job>>
    BY <1>1 DEF vars
  <2> QED
    BY <2>1, IdsKeptStep
<1>2. ASSUME NEW r \in Res, ShResChange(r) \/ ShRoomChange(r) PROVE OppInv'
  <2>1. UNCHANGED <<rgr_sf_id, oppCount, oppLive, pc, job>>
    BY <1>2 DEF ShResChange, ShRoomChange
  <2> QED
    BY <2>1, IdsKeptStep
<1>3. ASSUME NEW r \in Res, SfDelete(r) PROVE OppInv'
  <2>1. UNCHANGED <<rgr_sf_id, oppCount, pc, job>> /\ oppLive' = oppLive \ {r} /\ AcuKnown = {}
    BY <1>3 DEF SfDelete, Fault, NothingLost
  <2> QED
    BY <2>1 DEF OppInv, JobIdOfRow, OppOfRow, RowHoldsNewestOpp
<1>4. ASSUME NEW h \in Handlers, HandlerStep(h) PROVE OppInv'
  <2>1. UNCHANGED <<rgr_sf_id, oppCount, oppLive, pc, job>>
    BY <1>4 DEF HandlerStep, Accept, ReadClock, ResCommit, RoomCommit, CommitFails
  <2> QED
    BY <2>1, IdsKeptStep
<1>5. CASE TimerFires \/ RunStamp \/ RunSendRejected \/ RunFails
  <2>1. UNCHANGED <<rgr_sf_id, oppCount, oppLive>> /\ pc' \in {"sleep", "stamp", "selectRes"}
    BY <1>5 DEF TimerFires, RunStamp, RunSendRejected, RunFails, EndRun, LeaveRound, Goto
  <2>2. pc # "cache"
    BY <1>0, <1>5 DEF TimerFires, RunStamp, RunSendRejected, RunFails
  <2> QED
    BY <2>1, <2>2, IdsKeptStep
<1>6. CASE RunSendRoom \/ RunFinalRoom
  <2>1. /\ UNCHANGED <<rgr_sf_id, oppCount, oppLive>> /\ pc # "cache"
        /\ pc' \in {"finalRoom", "sleep", "stamp"}
    BY <1>6 DEF RunSendRoom, RunFinalRoom, EndRun, LeaveRound, Goto
  <2> QED
    BY <2>1, IdsKeptStep
<1>7. ~RunSendLostReply /\ ~RunCacheIdOnly /\ ~Crash
  BY <1>0 DEF RunSendLostReply, RunCacheIdOnly, Crash
<1>8. CASE RunStep
  BY <1>5, <1>6, <1>7, <1>8, SelectIdStep, FetchIdStep, SendIdStep, CacheIdStep, ResetIdStep DEF RunStep
<1> QED
  BY <1>1, <1>2, <1>3, <1>4, <1>7, <1>8 DEF Next

\* If nothing goes wrong between the creation of an Opportunity and the commit of its id,
\* then rows, rounds and Salesforce agree on it, in spite of deletions and of changes that
\* are notified meanwhile.
THEOREM OppInvariant == ASSUME NothingLost PROVE Spec => []OppInv
<1>1. Init => OppInv
  BY OppInit
<1>2. TypeOK /\ OppInv /\ [Next]_vars => OppInv'
  BY OppStep
<1> QED
  BY <1>1, <1>2, TypeCorrect, PTL DEF Spec

\* A row that has an id has that of the newest Opportunity.
THEOREM NewestOppInRow == ASSUME NothingLost PROVE Spec => []RowHoldsNewestOpp
<1>1. OppInv => RowHoldsNewestOpp
  BY DEF OppInv
<1> QED
  BY <1>1, OppInvariant, PTL

\* A second Opportunity is created only after the first got deleted.
THEOREM OneOppAtATime == ASSUME NothingLost PROVE Spec => NoDuplicateOpp
<1> DEFINE NoDuplicate == \A r \in Res : oppCount'[r] # oppCount[r] => r \notin oppLive
<1>1. ASSUME TypeOK, OppInv, [Next]_vars PROVE [NoDuplicate]_vars
  <2>1. ASSUME NEW r \in Res, oppCount'[r] # oppCount[r], r \in oppLive PROVE FALSE
    <3>1. CASE RunSend \/ RunSendLostReply
      <4>1. pc = "send" /\ SfUpsert(job.res)
        BY <3>1 DEF RunSend, RunSendLostReply
      <4>2. CASE OppAlive(job.res, job.sfId)
        BY <2>1, <4>1, <4>2 DEF SfUpsert
      <4>3. CASE ~OppAlive(job.res, job.sfId)
        <5>1. job.res \notin oppLive
          BY <1>1, <4>1, <4>3, AliveIsFound
        <5>2. oppCount' = [oppCount EXCEPT ![job.res] = @ + 1]
          BY <4>1, <4>3 DEF SfUpsert
        <5> QED
          BY <1>1, <2>1, <5>1, <5>2 DEF TypeOK, TypeSf
      <4> QED
        BY <4>2, <4>3
    <3>2. CASE ~(RunSend \/ RunSendLostReply)
      <4>1. \/ UNCHANGED oppCount
            \/ \E q \in Res : SfDelete(q)
            \/ RunSendRoom
        BY <1>1, <3>2, SfFrame DEF sfVars
      <4> QED
        BY <2>1, <4>1 DEF SfDelete, RunSendRoom
    <3> QED
      BY <3>1, <3>2
  <2> QED
    BY <2>1
<1>2. TypeOK /\ OppInv /\ [Next]_vars => [NoDuplicate]_vars
  BY <1>1
<1> QED
  BY <1>2, OppInvariant, TypeCorrect, PTL DEF Spec, NoDuplicateOpp

-----------------------------------------------------------------------------
(***************************************************************************)
(* 6. OcConfig.  What a step of a thread changes.                          *)
(***************************************************************************)
\* The other threads only lose their calm, if the thread is reloading.
Others(t) ==
    \A u \in Threads \ {t} :
        /\ thread'[u].pc = thread[u].pc /\ thread'[u].oc = thread[u].oc
        /\ thread'[u].dict = thread[u].dict /\ thread'[u].i = thread[u].i
        /\ thread'[u].ignored = thread[u].ignored
        /\ thread'[u].calm => thread[u].calm /\ ~Reloading(t)

Goes(t, p) ==
    /\ thread'[t].pc = p /\ thread'[t].oc = thread[t].oc /\ thread'[t].calm = thread[t].calm
    /\ Others(t)
    /\ thread' \in [Threads -> Requests]

Keeps(t) == thread'[t].dict = thread[t].dict /\ thread'[t].i = thread[t].i

LEMMA ContentTypes ==
    ASSUME NEW c \in Contents
    PROVE  c.ignored \in Ignorable /\ {} \in Ignorable /\ c.bad \subseteq c.supported /\ c.supported \subseteq Ocs
  BY OcAssumption DEF Ignorable

LEMMA RequestType ==
    ASSUME thread \in [Threads -> Requests], NEW t \in Threads
    PROVE  /\ thread[t] \in Requests
           /\ thread[t].pc \in Places /\ thread[t].oc \in Ocs \cup {""} /\ thread[t].dict \in Nat
           /\ thread[t].i \in Nat /\ thread[t].ignored \in Ignorable /\ thread[t].calm \in BOOLEAN
  BY DEF Requests

LEMMA GoOnGoes ==
    ASSUME thread \in [Threads -> Requests], NEW t \in Threads, NEW new \in Requests, GoOn(t, new)
    PROVE  Others(t) /\ thread'[t] = new /\ thread' \in [Threads -> Requests]
<1>1. thread'[t] = new
  BY DEF GoOn
<1>2. ASSUME NEW u \in Threads \ {t}
      PROVE  /\ thread'[u].pc = thread[u].pc /\ thread'[u].oc = thread[u].oc
             /\ thread'[u].dict = thread[u].dict /\ thread'[u].i = thread[u].i
             /\ thread'[u].ignored = thread[u].ignored
             /\ thread'[u].calm => thread[u].calm /\ ~Reloading(t)
             /\ thread'[u] \in Requests
  <2> DEFINE c == thread[u].calm /\ ~Reloading(t)
  <2>1. thread'[u] = [thread[u] EXCEPT !.calm = c]
    BY <1>2 DEF GoOn
  <2>2. c \in BOOLEAN
    OBVIOUS
  <2>3. thread[u] \in Requests
    BY <1>2
  <2> HIDE DEF c
  <2>4. /\ thread'[u] \in Requests
        /\ thread'[u].pc = thread[u].pc /\ thread'[u].oc = thread[u].oc
        /\ thread'[u].dict = thread[u].dict /\ thread'[u].i = thread[u].i
        /\ thread'[u].ignored = thread[u].ignored
        /\ thread'[u].calm = c
    BY <2>1, <2>2, <2>3 DEF Requests
  <2> QED BY <2>4 DEF c
<1>3. thread' \in [Threads -> Requests]
  <2>1. \A u \in Threads : thread'[u] \in Requests
    BY <1>1, <1>2
  <2>2. DOMAIN thread' = Threads /\ thread' = [u \in Threads |-> thread'[u]]
    BY DEF GoOn
  <2> QED BY <2>1, <2>2
<1> QED BY <1>1, <1>2, <1>3 DEF Others

LEMMA GoesTo ==
    ASSUME thread \in [Threads -> Requests], NEW t \in Threads, NEW p \in Places, GoOn(t, To(t, p))
    PROVE  Goes(t, p) /\ Keeps(t)
<1>1. /\ To(t, p) \in Requests
      /\ To(t, p).pc = p /\ To(t, p).oc = thread[t].oc /\ To(t, p).calm = thread[t].calm
      /\ To(t, p).dict = thread[t].dict /\ To(t, p).i = thread[t].i
  <2>1. thread[t] \in Requests
    OBVIOUS
  <2> QED BY <2>1 DEF To, Requests
<1> HIDE DEF To
<1> QED BY <1>1, GoOnGoes DEF Goes, Keeps

LEMMA Answers ==
    ASSUME thread \in [Threads -> Requests], NEW t \in Threads, NEW p \in Outcomes, Answered(t, p),
           Contents # {}
    PROVE  Goes(t, p) /\ thread'[t].dict = 0
<1> DEFINE new == [NoRequest EXCEPT !.pc = p, !.oc = thread[t].oc, !.calm = thread[t].calm]
<1>1. {} \in Ignorable
  BY DEF Ignorable
<1>2. thread[t].oc \in Ocs \cup {""} /\ thread[t].calm \in BOOLEAN
  BY DEF Requests
<1>3. new \in Requests
  BY <1>1, <1>2 DEF NoRequest, Requests, Places
<1>4. new.pc = p /\ new.oc = thread[t].oc /\ new.calm = thread[t].calm /\ new.dict = 0
  BY DEF NoRequest
<1>5. GoOn(t, new)
  BY DEF Answered
<1> HIDE DEF new
<1> QED BY <1>3, <1>4, <1>5, GoOnGoes DEF Goes

LEMMA CheckEffect ==
    ASSUME OcTypes, NEW t \in Threads, Check(t)
    PROVE  /\ thread[t].pc = "check"
           /\ Goes(t, IF NeedsReload THEN "load" ELSE "dispatch") /\ Keeps(t)
           /\ UNCHANGED <<file, cfg, dicts, SUPPORTED_OCS, IGNORED_OCS, overtaken>>
  BY GoesTo DEF Check, OcTypes, Places

LEMMA LoadEffect ==
    ASSUME OcTypes, NEW t \in Threads, Load(t)
    PROVE  /\ thread[t].pc = "load" /\ cfg' = file
           /\ Goes(t, "get") /\ Keeps(t)
           /\ UNCHANGED <<file, dicts, SUPPORTED_OCS, IGNORED_OCS, overtaken>>
  BY GoesTo DEF Load, OcTypes, Places, Working

LEMMA GetEffect ==
    ASSUME OcTypes, NEW t \in Threads, Get(t)
    PROVE  /\ thread[t].pc = "get" /\ Goes(t, "store")
           /\ \/ /\ cfg.content.supported = {} /\ dicts' = dicts /\ thread'[t].dict = 0
              \/ /\ cfg.content.supported # {}
                 /\ dicts' = Append(dicts, [content |-> cfg.content, edit |-> cfg.edit, resolved |-> {}])
                 /\ thread'[t].dict = Len(dicts) + 1
           /\ UNCHANGED <<file, cfg, SUPPORTED_OCS, IGNORED_OCS, overtaken>>
<1>1. thread \in [Threads -> Requests] /\ thread[t] \in Requests
  BY DEF OcTypes
<1>2. ASSUME NEW d \in Nat, GoOn(t, [To(t, "store") EXCEPT !.dict = d])
      PROVE  Goes(t, "store") /\ thread'[t].dict = d
  <2> DEFINE new == [To(t, "store") EXCEPT !.dict = d]
  <2>1. /\ new \in Requests
        /\ new.pc = "store" /\ new.oc = thread[t].oc /\ new.calm = thread[t].calm /\ new.dict = d
    BY <1>1 DEF To, Requests, Places, Working
  <2>2. GoOn(t, new)
    BY <1>2
  <2> HIDE DEF new
  <2> QED BY <1>1, <2>1, <2>2, GoOnGoes DEF Goes
<1>3. CASE cfg.content.supported = {}
  BY <1>2, <1>3 DEF Get
<1>4. CASE cfg.content.supported # {}
  <2>1. dicts' = Append(dicts, [content |-> cfg.content, edit |-> cfg.edit, resolved |-> {}])
    BY <1>4 DEF Get
  <2>2. Len(dicts') = Len(dicts) + 1 /\ Len(dicts) \in Nat
    BY <2>1 DEF OcTypes
  <2>3. GoOn(t, [To(t, "store") EXCEPT !.dict = Len(dicts) + 1])
    BY <1>4, <2>2 DEF Get
  <2>4. Len(dicts) + 1 \in Nat
    BY <2>2
  <2>6. Goes(t, "store") /\ thread'[t].dict = Len(dicts) + 1
    BY <1>2, <2>3, <2>4, Zenon
  <2>5. thread[t].pc = "get" /\ UNCHANGED <<file, cfg, SUPPORTED_OCS, IGNORED_OCS, overtaken>>
    BY DEF Get
  <2> QED BY <1>4, <2>1, <2>5, <2>6, Zenon
<1> QED BY <1>3, <1>4

LEMMA StoreEffect ==
    ASSUME OcTypes, NEW t \in Threads, Store(t)
    PROVE  /\ thread[t].pc = "store" /\ SUPPORTED_OCS' = thread[t].dict
           /\ ~overtaken' =>
                 /\ ~overtaken
                 /\ thread[t].dict = 0 => cfg.content.supported = {}
                 /\ thread[t].dict # 0 => ~(dicts[thread[t].dict].edit < cfg.edit)
           /\ overtaken' \in BOOLEAN
           /\ Goes(t, "iterate") /\ Keeps(t)
           /\ UNCHANGED <<file, cfg, dicts, IGNORED_OCS>>
<1>1. Goes(t, "iterate") /\ Keeps(t)
  BY GoesTo DEF Store, OcTypes, Places, Working
<1>2. overtaken' = (overtaken \/ (IF thread[t].dict = 0 THEN cfg.content.supported # {}
                                   ELSE dicts[thread[t].dict].edit < cfg.edit))
  BY DEF Store
<1>3. overtaken' \in BOOLEAN
  <2>1. CASE thread[t].dict = 0
    BY <1>2, <2>1, Zenon DEF OcTypes
  <2>2. CASE thread[t].dict # 0
    BY <1>2, <2>2, Zenon DEF OcTypes
  <2> QED BY <2>1, <2>2
<1>4. ~overtaken' => /\ ~overtaken
                     /\ thread[t].dict = 0 => cfg.content.supported = {}
                     /\ thread[t].dict # 0 => ~(dicts[thread[t].dict].edit < cfg.edit)
  BY <1>2, Zenon
<1> QED BY <1>1, <1>3, <1>4 DEF Store

LEMMA IterateEffect ==
    ASSUME OcTypes, NEW t \in Threads, Iterate(t)
    PROVE  /\ thread[t].pc = "iterate"
           /\ \/ SUPPORTED_OCS = 0 /\ Goes(t, "refused") /\ thread'[t].dict = 0
              \/ /\ SUPPORTED_OCS # 0 /\ Goes(t, "slot")
                 /\ thread'[t].dict = SUPPORTED_OCS /\ thread'[t].i = 1
           /\ UNCHANGED <<file, cfg, dicts, SUPPORTED_OCS, IGNORED_OCS, overtaken>>
<1>1. thread \in [Threads -> Requests] /\ thread[t] \in Requests /\ Contents # {} /\ SUPPORTED_OCS \in Nat
  BY DEF OcTypes
<1>2. CASE SUPPORTED_OCS = 0
  BY <1>1, <1>2, Answers DEF Iterate, Outcomes
<1>3. CASE SUPPORTED_OCS # 0
  <2> DEFINE new == [To(t, "slot") EXCEPT !.dict = SUPPORTED_OCS, !.i = 1]
  <2>1. /\ new \in Requests
        /\ new.pc = "slot" /\ new.oc = thread[t].oc /\ new.calm = thread[t].calm
        /\ new.dict = SUPPORTED_OCS /\ new.i = 1
    BY <1>1 DEF To, Requests, Places, Working
  <2>2. GoOn(t, new)
    BY <1>3 DEF Iterate
  <2> HIDE DEF new
  <2>3. Goes(t, "slot") /\ thread'[t].dict = SUPPORTED_OCS /\ thread'[t].i = 1
    BY <1>1, <2>1, <2>2, GoOnGoes DEF Goes
  <2> QED BY <1>3, <2>3 DEF Iterate
<1> QED BY <1>2, <1>3

\* Past the code of the place.
Passes(t) ==
    /\ thread'[t].dict = thread[t].dict
    /\ \/ thread[t].i = Len(Order) /\ Goes(t, "getIgnored")
       \/ thread[t].i # Len(Order) /\ Goes(t, "slot") /\ thread'[t].i = thread[t].i + 1

LEMMA PassesOn ==
    ASSUME thread \in [Threads -> Requests], NEW t \in Threads, thread[t].pc = "slot",
           GoOn(t, IF thread[t].i = Len(Order) THEN To(t, "getIgnored") ELSE [thread[t] EXCEPT !.i = @ + 1])
    PROVE  Passes(t)
<1>1. CASE thread[t].i = Len(Order)
  <2>1. GoOn(t, To(t, "getIgnored"))
    BY <1>1
  <2> QED BY <1>1, <2>1, GoesTo DEF Passes, Keeps, Places, Working
<1>2. CASE thread[t].i # Len(Order)
  <2> DEFINE n == thread[t].i + 1
  <2> DEFINE new == [thread[t] EXCEPT !.i = n]
  <2>1. thread[t] \in Requests
    OBVIOUS
  <2>5. thread[t].i \in Nat
    BY <2>1 DEF Requests
  <2>0. n \in Nat
    BY <2>5
  <2>3. GoOn(t, new)
    BY <1>2
  <2> HIDE DEF n
  <2>2. /\ new \in Requests
        /\ new.pc = "slot" /\ new.oc = thread[t].oc /\ new.calm = thread[t].calm
        /\ new.dict = thread[t].dict /\ new.i = n
    BY <2>0, <2>1 DEF Requests
  <2> HIDE DEF new
  <2>4. Goes(t, "slot") /\ thread'[t].dict = thread[t].dict /\ thread'[t].i = n
    BY <2>2, <2>3, GoOnGoes DEF Goes
  <2> QED BY <1>2, <2>4 DEF Passes, n
<1> QED BY <1>1, <1>2

Resolves(t, d, oc) ==
    /\ oc \in dicts[d].content.supported /\ oc \notin dicts[d].content.bad \cup dicts[d].resolved
    /\ Passes(t) /\ dicts' = [dicts EXCEPT ![d].resolved = @ \cup {oc}]

LEMMA SlotEffect ==
    ASSUME OcTypes, NEW t \in Threads, Slot(t)
    PROVE  /\ thread[t].pc = "slot"
           /\ \/ /\ Order[thread[t].i] \notin dicts[thread[t].dict].content.supported
                 /\ Passes(t) /\ UNCHANGED dicts
              \/ /\ Order[thread[t].i] \in dicts[thread[t].dict].content.bad \cup dicts[thread[t].dict].resolved
                 /\ Goes(t, "refused") /\ thread'[t].dict = 0 /\ UNCHANGED dicts
              \/ Resolves(t, thread[t].dict, Order[thread[t].i])
           /\ UNCHANGED <<file, cfg, SUPPORTED_OCS, IGNORED_OCS, overtaken>>
<1>1. thread \in [Threads -> Requests] /\ Contents # {}
  BY DEF OcTypes
<1>2. thread[t].pc = "slot" /\ UNCHANGED <<file, cfg, SUPPORTED_OCS, IGNORED_OCS, overtaken>>
  BY DEF Slot
<1>3. CASE Order[thread[t].i] \notin dicts[thread[t].dict].content.supported
  <2>1. /\ GoOn(t, IF thread[t].i = Len(Order) THEN To(t, "getIgnored") ELSE [thread[t] EXCEPT !.i = @ + 1])
        /\ UNCHANGED dicts
    BY <1>3, Zenon DEF Slot
  <2> QED BY <1>1, <1>2, <1>3, <2>1, PassesOn
<1>4. CASE /\ Order[thread[t].i] \in dicts[thread[t].dict].content.supported
           /\ Order[thread[t].i] \in dicts[thread[t].dict].content.bad \cup dicts[thread[t].dict].resolved
  <2>1. Answered(t, "refused") /\ UNCHANGED dicts
    BY <1>4 DEF Slot
  <2> QED BY <1>1, <1>2, <1>4, <2>1, Answers DEF Outcomes
<1>5. CASE /\ Order[thread[t].i] \in dicts[thread[t].dict].content.supported
           /\ Order[thread[t].i] \notin dicts[thread[t].dict].content.bad \cup dicts[thread[t].dict].resolved
  <2>1. /\ GoOn(t, IF thread[t].i = Len(Order) THEN To(t, "getIgnored") ELSE [thread[t] EXCEPT !.i = @ + 1])
        /\ dicts' = [dicts EXCEPT ![thread[t].dict].resolved = @ \cup {Order[thread[t].i]}]
    BY <1>5 DEF Slot
  <2> QED BY <1>1, <1>2, <1>5, <2>1, PassesOn DEF Resolves
<1> QED BY <1>3, <1>4, <1>5

LEMMA GetIgnoredEffect ==
    ASSUME OcTypes, NEW t \in Threads, GetIgnored(t)
    PROVE  /\ thread[t].pc = "getIgnored" /\ Goes(t, "storeIgnored")
           /\ thread'[t].dict = thread[t].dict
           /\ thread'[t].ignored = cfg.content.ignored /\ thread'[t].i = cfg.edit
           /\ UNCHANGED <<file, cfg, dicts, SUPPORTED_OCS, IGNORED_OCS, overtaken>>
<1>1. thread \in [Threads -> Requests] /\ thread[t] \in Requests /\ cfg.edit \in Nat /\ cfg.content \in Contents
  BY DEF OcTypes
<1>2. cfg.content.ignored \in Ignorable
  BY <1>1, ContentTypes
<1> DEFINE new == [To(t, "storeIgnored") EXCEPT !.ignored = cfg.content.ignored, !.i = cfg.edit]
<1>3. /\ new \in Requests
      /\ new.pc = "storeIgnored" /\ new.oc = thread[t].oc /\ new.calm = thread[t].calm
      /\ new.dict = thread[t].dict /\ new.ignored = cfg.content.ignored /\ new.i = cfg.edit
  BY <1>1, <1>2 DEF To, Requests, Places, Working
<1>4. GoOn(t, new)
  BY DEF GetIgnored
<1>5. thread[t].pc = "getIgnored" /\ UNCHANGED <<file, cfg, dicts, SUPPORTED_OCS, IGNORED_OCS, overtaken>>
  BY DEF GetIgnored
<1> HIDE DEF new
<1>6. /\ Goes(t, "storeIgnored") /\ thread'[t].dict = thread[t].dict
      /\ thread'[t].ignored = cfg.content.ignored /\ thread'[t].i = cfg.edit
  BY <1>1, <1>3, <1>4, GoOnGoes DEF Goes
<1> QED BY <1>5, <1>6

LEMMA StoreIgnoredEffect ==
    ASSUME OcTypes, NEW t \in Threads, StoreIgnored(t)
    PROVE  /\ thread[t].pc = "storeIgnored" /\ IGNORED_OCS' = thread[t].ignored
           /\ overtaken' \in BOOLEAN
           /\ ~overtaken' => ~overtaken /\ ~(thread[t].i < cfg.edit)
           /\ \/ thread[t].ignored = NotAList /\ Goes(t, "refused") /\ thread'[t].dict = 0
              \/ thread[t].ignored # NotAList /\ Goes(t, "dispatch") /\ Keeps(t)
           /\ UNCHANGED <<file, cfg, dicts, SUPPORTED_OCS>>
<1>1. thread \in [Threads -> Requests] /\ Contents # {} /\ overtaken \in BOOLEAN
  BY DEF OcTypes
<1>2. overtaken' = (overtaken \/ thread[t].i < cfg.edit)
  BY DEF StoreIgnored
<1>3. overtaken' \in BOOLEAN /\ (~overtaken' => ~overtaken /\ ~(thread[t].i < cfg.edit))
  BY <1>1, <1>2, Zenon
<1>4. thread[t].pc = "storeIgnored" /\ IGNORED_OCS' = thread[t].ignored /\ UNCHANGED <<file, cfg, dicts, SUPPORTED_OCS>>
  BY DEF StoreIgnored, StoredIgnored
<1>5. CASE thread[t].ignored = NotAList
  <2>1. Answered(t, "refused")
    BY <1>5 DEF StoreIgnored
  <2> QED BY <1>1, <1>3, <1>4, <1>5, <2>1, Answers DEF Outcomes
<1>6. CASE thread[t].ignored # NotAList
  <2>1. GoOn(t, To(t, "dispatch"))
    BY <1>6 DEF StoreIgnored
  <2> QED BY <1>1, <1>3, <1>4, <1>6, <2>1, GoesTo DEF Places
<1> QED BY <1>5, <1>6

LEMMA DispatchEffect ==
    ASSUME OcTypes, NEW t \in Threads, Dispatch(t)
    PROVE  /\ thread[t].pc = "dispatch"
           /\ \/ SUPPORTED_OCS = 0 /\ Goes(t, "dead") /\ thread'[t].dict = 0
              \/ /\ SUPPORTED_OCS # 0 /\ thread[t].oc \in Stored.content.supported
                 /\ Goes(t, "process") /\ Keeps(t)
              \/ /\ SUPPORTED_OCS # 0 /\ thread[t].oc \notin Stored.content.supported
                 /\ \E p \in {"dead", "ignored", "refused"} :
                       /\ Goes(t, p) /\ thread'[t].dict = 0
                       /\ p = "refused" => thread[t].oc \notin IGNORED_OCS
           /\ UNCHANGED <<file, cfg, dicts, SUPPORTED_OCS, IGNORED_OCS, overtaken>>
<1>1. thread \in [Threads -> Requests] /\ Contents # {}
  BY DEF OcTypes
<1>2. thread[t].pc = "dispatch" /\ UNCHANGED <<file, cfg, dicts, SUPPORTED_OCS, IGNORED_OCS, overtaken>>
  BY DEF Dispatch
<1>3. CASE SUPPORTED_OCS = 0
  <2>1. Answered(t, "dead")
    BY <1>3 DEF Dispatch
  <2> QED BY <1>1, <1>2, <1>3, <2>1, Answers DEF Outcomes
<1>4. CASE SUPPORTED_OCS # 0 /\ thread[t].oc \in Stored.content.supported
  <2>1. GoOn(t, To(t, "process"))
    BY <1>4 DEF Dispatch, Stored
  <2> QED BY <1>1, <1>2, <1>4, <2>1, GoesTo DEF Places
<1>5. CASE SUPPORTED_OCS # 0 /\ thread[t].oc \notin Stored.content.supported
  <2> DEFINE p == IF IGNORED_OCS = NotAList THEN "dead"
                  ELSE IF thread[t].oc \in IGNORED_OCS THEN "ignored" ELSE "refused"
  <2>1. Answered(t, p)
    BY <1>5 DEF Dispatch, Stored
  <2>2. p \in {"dead", "ignored", "refused"} /\ (p = "refused" => thread[t].oc \notin IGNORED_OCS)
    OBVIOUS
  <2> HIDE DEF p
  <2>3. Goes(t, p) /\ thread'[t].dict = 0
    BY <1>1, <2>1, <2>2, Answers DEF Outcomes
  <2> QED BY <1>2, <1>5, <2>2, <2>3
<1> QED BY <1>3, <1>4, <1>5

LEMMA ProcessEffect ==
    ASSUME OcTypes, NEW t \in Threads, Process(t)
    PROVE  /\ thread[t].pc = "process" /\ thread'[t].dict = 0
           /\ \/ SUPPORTED_OCS # 0 /\ thread[t].oc \in Stored.resolved /\ Goes(t, "processed")
              \/ ~(SUPPORTED_OCS # 0 /\ thread[t].oc \in Stored.resolved) /\ Goes(t, "refused")
           /\ UNCHANGED <<file, cfg, dicts, SUPPORTED_OCS, IGNORED_OCS, overtaken>>
<1>1. thread \in [Threads -> Requests] /\ Contents # {}
  BY DEF OcTypes
<1>2. thread[t].pc = "process" /\ UNCHANGED <<file, cfg, dicts, SUPPORTED_OCS, IGNORED_OCS, overtaken>>
  BY DEF Process
<1>3. CASE SUPPORTED_OCS # 0 /\ thread[t].oc \in Stored.resolved
  <2>1. Answered(t, "processed")
    BY <1>3 DEF Process, Stored
  <2> QED BY <1>1, <1>2, <1>3, <2>1, Answers DEF Outcomes
<1>4. CASE ~(SUPPORTED_OCS # 0 /\ thread[t].oc \in Stored.resolved)
  <2>1. Answered(t, "refused")
    BY <1>4 DEF Process, Stored
  <2> QED BY <1>1, <1>2, <1>4, <2>1, Answers DEF Outcomes
<1> QED BY <1>3, <1>4

\* A notification is taken, the file is edited.
LEMMA ReceiveEffect ==
    ASSUME OcTypes, NEW t \in Threads, NEW oc \in Ocs, Receive(t, oc)
    PROVE  /\ thread[t].pc \in {"idle"} \cup Outcomes
           /\ thread' \in [Threads -> Requests]
           /\ \A u \in Threads \ {t} : thread'[u] = thread[u]
           /\ thread'[t].pc = "check" /\ thread'[t].dict = 0
           /\ thread'[t].calm => Correct(file.content) /\ \A u \in Threads \ {t} : ~Reloading(u)
           /\ UNCHANGED <<file, cfg, dicts, SUPPORTED_OCS, IGNORED_OCS, overtaken>>
<1> DEFINE c == Correct(file.content) /\ \A u \in Threads \ {t} : ~Reloading(u)
<1> DEFINE new == [NoRequest EXCEPT !.pc = "check", !.oc = oc, !.calm = c]
<1>1. thread' = [thread EXCEPT ![t] = new]
  BY DEF Receive
<1>2. c \in BOOLEAN
  OBVIOUS
<1>3. (c => Correct(file.content) /\ \A u \in Threads \ {t} : ~Reloading(u))
  OBVIOUS
<1> HIDE DEF c
<1>4. {} \in Ignorable
  BY DEF Ignorable
<1>5. new \in Requests /\ new.pc = "check" /\ new.dict = 0 /\ new.calm = c
  BY <1>2, <1>4 DEF NoRequest, Requests, Places
<1> HIDE DEF new
<1>6. thread \in [Threads -> Requests]
  BY DEF OcTypes
<1>7. thread' \in [Threads -> Requests] /\ thread'[t] = new /\ \A u \in Threads \ {t} : thread'[u] = thread[u]
  BY <1>1, <1>5, <1>6
<1>8. /\ thread[t].pc \in {"idle"} \cup Outcomes
      /\ UNCHANGED <<file, cfg, dicts, SUPPORTED_OCS, IGNORED_OCS, overtaken>>
  BY DEF Receive
<1> QED BY <1>3, <1>5, <1>7, <1>8

LEMMA EditEffect ==
    ASSUME OcTypes, NEW c \in Contents, Edit(c)
    PROVE  /\ file' = [content |-> c, edit |-> file.edit + 1]
           /\ thread' \in [Threads -> Requests]
           /\ \A u \in Threads :
                 /\ thread'[u].pc = thread[u].pc /\ thread'[u].dict = thread[u].dict
                 /\ thread'[u].i = thread[u].i /\ thread'[u].ignored = thread[u].ignored
                 /\ ~thread'[u].calm
           /\ UNCHANGED <<cfg, dicts, SUPPORTED_OCS, IGNORED_OCS, overtaken>>
<1>1. thread \in [Threads -> Requests]
  BY DEF OcTypes
<1>2. thread' = [u \in Threads |-> [thread[u] EXCEPT !.calm = FALSE]]
  BY DEF Edit
<1>3. ASSUME NEW u \in Threads
      PROVE  /\ thread'[u] \in Requests
             /\ thread'[u].pc = thread[u].pc /\ thread'[u].dict = thread[u].dict
             /\ thread'[u].i = thread[u].i /\ thread'[u].ignored = thread[u].ignored
             /\ ~thread'[u].calm
  <2>1. thread'[u] = [thread[u] EXCEPT !.calm = FALSE] /\ thread[u] \in Requests
    BY <1>1, <1>2
  <2> QED BY <2>1 DEF Requests
<1>4. thread' \in [Threads -> Requests]
  BY <1>2, <1>3
<1> QED BY <1>3, <1>4 DEF Edit

-----------------------------------------------------------------------------
(* Every step keeps the types. *)
LEMMA DictTypes ==
    ASSUME OcTypes
    PROVE  /\ Len(dicts) \in Nat
           /\ \A d \in 1 .. Len(dicts) :
                 /\ dicts[d].content \in Contents /\ dicts[d].edit \in Nat
                 /\ dicts[d].resolved \subseteq Ocs
                 /\ dicts[d] \in [content : Contents, edit : Nat, resolved : SUBSET Ocs]
<1> DEFINE D == [content : Contents, edit : Nat, resolved : SUBSET Ocs]
<1>1. dicts \in Seq(D)
  BY DEF OcTypes
<1>2. \A x \in D : x.content \in Contents /\ x.edit \in Nat /\ x.resolved \subseteq Ocs
  OBVIOUS
<1> HIDE DEF D
<1>3. Len(dicts) \in Nat /\ \A d \in 1 .. Len(dicts) : dicts[d] \in D
  BY <1>1
<1> QED BY <1>2, <1>3 DEF D

\* A new dictionary: the others are as before.
LEMMA NewDict ==
    ASSUME OcTypes, dicts' = Append(dicts, [content |-> cfg.content, edit |-> cfg.edit, resolved |-> {}])
    PROVE  /\ dicts' \in Seq([content : Contents, edit : Nat, resolved : SUBSET Ocs])
           /\ Len(dicts') = Len(dicts) + 1 /\ Len(dicts) \in Nat
           /\ \A d \in 1 .. Len(dicts) : dicts'[d] = dicts[d]
           /\ dicts'[Len(dicts) + 1].content = cfg.content
           /\ dicts'[Len(dicts) + 1].edit = cfg.edit
           /\ dicts'[Len(dicts) + 1].resolved = {}
<1> DEFINE D == [content : Contents, edit : Nat, resolved : SUBSET Ocs]
<1> DEFINE new == [content |-> cfg.content, edit |-> cfg.edit, resolved |-> {}]
<1>1. dicts \in Seq(D) /\ new \in D
  BY DEF OcTypes
<1>2. new.content = cfg.content /\ new.edit = cfg.edit /\ new.resolved = {}
  OBVIOUS
<1> HIDE DEF D, new
<1>3. dicts' = Append(dicts, new)
  BY DEF new
<1>4. /\ dicts' \in Seq(D) /\ Len(dicts') = Len(dicts) + 1 /\ Len(dicts) \in Nat
      /\ \A d \in 1 .. Len(dicts) : dicts'[d] = dicts[d]
      /\ dicts'[Len(dicts) + 1] = new
  BY <1>1, <1>3
<1> QED BY <1>2, <1>4 DEF D

\* A code is resolved in one dictionary.
LEMMA ResolvedDict ==
    ASSUME OcTypes, NEW d \in 1 .. Len(dicts), NEW oc \in Ocs,
           dicts' = [dicts EXCEPT ![d].resolved = @ \cup {oc}]
    PROVE  /\ dicts' \in Seq([content : Contents, edit : Nat, resolved : SUBSET Ocs])
           /\ Len(dicts') = Len(dicts) /\ Len(dicts) \in Nat
           /\ \A k \in 1 .. Len(dicts) :
                 /\ dicts'[k].content = dicts[k].content /\ dicts'[k].edit = dicts[k].edit
                 /\ k # d => dicts'[k].resolved = dicts[k].resolved
           /\ dicts'[d].resolved = dicts[d].resolved \cup {oc}
<1> DEFINE D == [content : Contents, edit : Nat, resolved : SUBSET Ocs]
<1> DEFINE r == dicts[d].resolved \cup {oc}
<1> DEFINE new == [dicts[d] EXCEPT !.resolved = r]
<1>1. dicts \in Seq(D) /\ dicts[d] \in D
  BY DictTypes DEF OcTypes
<1>2. r \subseteq Ocs
  BY <1>1
<1> HIDE DEF r
<1>3. /\ new \in D /\ new.content = dicts[d].content /\ new.edit = dicts[d].edit
      /\ new.resolved = r
  BY <1>1, <1>2
<1>4. dicts' = [dicts EXCEPT ![d] = new]
  BY DEF r
<1> HIDE DEF new, D
<1>6. Len(dicts) \in Nat /\ dicts \in [1 .. Len(dicts) -> D]
  BY <1>1
<1>7. dicts' \in [1 .. Len(dicts) -> D]
  BY <1>3, <1>4, <1>6
<1>5. /\ dicts' \in Seq(D) /\ Len(dicts') = Len(dicts) /\ Len(dicts) \in Nat
      /\ \A k \in 1 .. Len(dicts) : k # d => dicts'[k] = dicts[k]
      /\ dicts'[d] = new
  BY <1>3, <1>4, <1>6, <1>7
<1> QED BY <1>3, <1>5 DEF D, r

\* What a thread resolves is a code of a dictionary.
LEMMA SlotIn ==
    ASSUME OcTypes, DictsInWork, NEW t \in Threads, thread[t].pc = "slot"
    PROVE  /\ thread[t].dict \in 1 .. Len(dicts)
           /\ thread[t].i \in 1 .. Len(Order) /\ Len(Order) \in Nat
           /\ Order[thread[t].i] \in Ocs
<1>1. thread[t].dict \in Nat /\ thread[t].i \in Nat
  BY RequestType DEF OcTypes
<1>2. thread[t].dict <= Len(dicts) /\ thread[t].dict # 0 /\ thread[t].i \in 1 .. Len(Order)
  BY DEF OcTypes, DictsInWork
<1>3. Len(Order) \in Nat
  BY OcAssumption
<1> QED BY <1>1, <1>2, <1>3, DictTypes DEF Ocs

LEMMA TypesIf ==
    ASSUME OcTypes, NEW t \in Threads, NEW p, Goes(t, p), thread'[t].dict \in {0, thread[t].dict, SUPPORTED_OCS},
           file' = file, cfg' \in {cfg, file}, dicts' = dicts,
           SUPPORTED_OCS' \in {SUPPORTED_OCS, thread[t].dict}, overtaken' \in BOOLEAN
    PROVE  OcTypes'
<1>1. thread[t].dict \in Nat /\ SUPPORTED_OCS \in 0 .. Len(dicts) /\ Len(dicts) \in Nat
  BY RequestType, DictTypes DEF OcTypes
<1>2. file \in [content : Contents, edit : Nat \ {0}] /\ cfg \in [content : Contents, edit : Nat]
  BY DEF OcTypes
<1>3. cfg' \in [content : Contents, edit : Nat]
  BY <1>2
<1>4. \A u \in Threads : thread'[u].dict <= Len(dicts)
  BY <1>1 DEF OcTypes, Goes, Others
<1>5. SUPPORTED_OCS' \in 0 .. Len(dicts)
  BY <1>1 DEF OcTypes
<1>6. thread' \in [Threads -> Requests]
  BY DEF Goes
<1>7. dicts \in Seq([content : Contents, edit : Nat, resolved : SUBSET Ocs])
  BY DEF OcTypes
<1> QED BY <1>2, <1>3, <1>4, <1>5, <1>6, <1>7 DEF OcTypes

LEMMA OcTypesStep ==
    ASSUME OcTypes, DictsInWork, [OcNext]_ocVars
    PROVE  OcTypes'
<1>1. CASE UNCHANGED ocVars
  BY <1>1 DEF OcTypes, ocVars
<1>2. ASSUME NEW c \in Contents, Edit(c) PROVE OcTypes'
  <2>1. file.edit \in Nat
    BY DEF OcTypes
  <2>2. file' \in [content : Contents, edit : Nat \ {0}]
    BY <1>2, <2>1, EditEffect
  <2> QED BY <1>2, <2>2, EditEffect DEF OcTypes
<1>3. ASSUME NEW t \in Threads, NEW oc \in Ocs, Receive(t, oc) PROVE OcTypes'
  <2>1. \A u \in Threads : thread'[u].dict <= Len(dicts)
    BY <1>3, ReceiveEffect, DictTypes DEF OcTypes
  <2> QED BY <1>3, <2>1, ReceiveEffect DEF OcTypes
<1>4. ASSUME NEW t \in Threads, Handle(t) PROVE OcTypes'
  <2>0. overtaken \in BOOLEAN
    BY DEF OcTypes
  <2>1. CASE Check(t)
    BY <2>0, <2>1, CheckEffect, TypesIf DEF Keeps
  <2>2. CASE Load(t)
    BY <2>0, <2>2, LoadEffect, TypesIf DEF Keeps
  <2>3. CASE Get(t)
    <3>1. CASE dicts' = dicts /\ thread'[t].dict = 0
      BY <2>0, <2>3, <3>1, GetEffect, TypesIf
    <3>2. CASE /\ dicts' = Append(dicts, [content |-> cfg.content, edit |-> cfg.edit, resolved |-> {}])
               /\ thread'[t].dict = Len(dicts) + 1
      <4>1. \A u \in Threads : thread'[u].dict <= Len(dicts')
        <5>1. ASSUME NEW u \in Threads \ {t} PROVE thread'[u].dict <= Len(dicts')
          <6>1. thread[u].dict <= Len(dicts) /\ thread[u].dict \in Nat
            BY RequestType DEF OcTypes
          <6>2. thread'[u].dict = thread[u].dict
            BY <2>3, GetEffect DEF Goes, Others
          <6> QED BY <3>2, <6>1, <6>2, NewDict
        <5> QED BY <3>2, <5>1, NewDict
      <4>2. SUPPORTED_OCS' \in 0 .. Len(dicts')
        BY <2>3, <3>2, GetEffect, NewDict DEF OcTypes
      <4>3. thread' \in [Threads -> Requests]
        BY <2>3, GetEffect DEF Goes
      <4>4. UNCHANGED <<file, cfg, overtaken>>
        BY <2>3, GetEffect
      <4>5. dicts' \in Seq([content : Contents, edit : Nat, resolved : SUBSET Ocs])
        BY <3>2, NewDict
      <4> QED BY <4>1, <4>2, <4>3, <4>4, <4>5 DEF OcTypes
    <3> QED BY <2>3, <3>1, <3>2, GetEffect
  <2>4. CASE Store(t)
    BY <2>4, StoreEffect, TypesIf DEF Keeps
  <2>5. CASE Iterate(t)
    BY <2>0, <2>5, IterateEffect, TypesIf
  <2>6. CASE Slot(t)
    <3>1. CASE dicts' = dicts
      BY <2>0, <2>6, <3>1, SlotEffect, TypesIf DEF Passes, Resolves
    <3>2. CASE Resolves(t, thread[t].dict, Order[thread[t].i])
      <4>1. /\ dicts' \in Seq([content : Contents, edit : Nat, resolved : SUBSET Ocs])
            /\ Len(dicts') = Len(dicts)
        BY <2>6, <3>2, SlotEffect, SlotIn, ResolvedDict DEF Resolves
      <4>2. \A u \in Threads : thread'[u].dict = thread[u].dict
        BY <3>2 DEF Resolves, Passes, Goes, Others
      <4>3. thread' \in [Threads -> Requests]
        BY <3>2 DEF Resolves, Passes, Goes
      <4> QED BY <2>6, <4>1, <4>2, <4>3, SlotEffect DEF OcTypes
    <3> QED BY <2>6, <3>1, <3>2, SlotEffect
  <2>7. CASE GetIgnored(t)
    BY <2>0, <2>7, GetIgnoredEffect, TypesIf
  <2>8. CASE StoreIgnored(t)
    BY <2>8, StoreIgnoredEffect, TypesIf DEF Keeps
  <2>9. CASE Dispatch(t)
    BY <2>0, <2>9, DispatchEffect, TypesIf DEF Keeps
  <2>10. CASE Process(t)
    BY <2>0, <2>10, ProcessEffect, TypesIf
  <2> QED BY <1>4, <2>1, <2>2, <2>3, <2>4, <2>5, <2>6, <2>7, <2>8, <2>9, <2>10 DEF Handle
<1> QED BY <1>1, <1>2, <1>3, <1>4 DEF OcNext

-----------------------------------------------------------------------------
(* What was read is old. *)
LEMMA ReadsNums ==
    ASSUME OcTypes
    PROVE  /\ cfg.edit \in Nat /\ file.edit \in Nat /\ file.edit # 0
           /\ cfg.content \in Contents /\ file.content \in Contents
           /\ \A t \in Threads : thread[t].i \in Nat /\ thread[t].dict \in Nat /\ thread[t].pc \in Places
  BY RequestType DEF OcTypes

ThreadsAreOld ==
    \A t \in Threads :
        /\ thread[t].pc \in Working => cfg.edit > 0
        /\ thread[t].pc = "storeIgnored" =>
              thread[t].i <= cfg.edit /\ (thread[t].i = cfg.edit => thread[t].ignored = cfg.content.ignored)

DictsAreOld ==
    \A d \in 1 .. Len(dicts) :
        /\ dicts[d].content.supported # {} /\ dicts[d].resolved \subseteq dicts[d].content.supported
        /\ dicts[d].edit <= cfg.edit
        /\ dicts[d].edit = cfg.edit => dicts[d].content = cfg.content

ConfigIsOld == cfg.edit <= file.edit /\ (cfg.edit = file.edit => cfg.content = file.content)

LEMMA ReadParts == ReadsAreOld <=> ThreadsAreOld /\ DictsAreOld /\ ConfigIsOld
  BY DEF ReadsAreOld, ThreadsAreOld, DictsAreOld, ConfigIsOld

\* A thread goes on with the same config.
LEMMA ThreadsOldIf ==
    ASSUME ThreadsAreOld, NEW t \in Threads, NEW p, Goes(t, p), cfg' = cfg,
           p \in Working => thread[t].pc \in Working,
           p # "storeIgnored"
    PROVE  ThreadsAreOld'
  BY DEF ThreadsAreOld, Goes, Others

LEMMA ReadsStep ==
    ASSUME OcTypes, DictsInWork, ReadsAreOld, [OcNext]_ocVars
    PROVE  ReadsAreOld'
<1>0. ThreadsAreOld /\ DictsAreOld /\ ConfigIsOld
  BY ReadParts
<1> SUFFICES ThreadsAreOld' /\ DictsAreOld' /\ ConfigIsOld'
  BY DEF ReadsAreOld, ThreadsAreOld, DictsAreOld, ConfigIsOld
<1>1. CASE UNCHANGED ocVars
  BY <1>0, <1>1 DEF ocVars, ThreadsAreOld, DictsAreOld, ConfigIsOld
<1>2. ASSUME NEW c \in Contents, Edit(c)
      PROVE  ThreadsAreOld' /\ DictsAreOld' /\ ConfigIsOld'
  <2>1. ConfigIsOld'
    <3>1. file'.edit = file.edit + 1 /\ cfg' = cfg /\ cfg.edit \in Nat /\ file.edit \in Nat
      BY <1>2, EditEffect, ReadsNums
    <3> QED BY <1>0, <3>1 DEF ConfigIsOld
  <2>2. DictsAreOld'
    BY <1>0, <1>2, EditEffect DEF DictsAreOld
  <2>3. ThreadsAreOld'
    BY <1>0, <1>2, EditEffect DEF ThreadsAreOld
  <2> QED BY <2>1, <2>2, <2>3
<1>3. ASSUME NEW t \in Threads, NEW oc \in Ocs, Receive(t, oc)
      PROVE  ThreadsAreOld' /\ DictsAreOld' /\ ConfigIsOld'
  <2>1. DictsAreOld' /\ ConfigIsOld'
    BY <1>0, <1>3, ReceiveEffect DEF DictsAreOld, ConfigIsOld
  <2>2. ThreadsAreOld'
    BY <1>0, <1>3, ReceiveEffect DEF ThreadsAreOld, Working
  <2> QED BY <2>1, <2>2
<1>4. ASSUME NEW t \in Threads, Handle(t)
      PROVE  ThreadsAreOld' /\ DictsAreOld' /\ ConfigIsOld'
  <2>0. UNCHANGED <<file, cfg>> => ConfigIsOld'
    BY <1>0 DEF ConfigIsOld
  <2>00. UNCHANGED <<dicts, cfg>> => DictsAreOld'
    BY <1>0 DEF DictsAreOld
  <2>1. CASE Check(t)
    <3>1. ThreadsAreOld'
      BY <1>0, <2>1, CheckEffect, ThreadsOldIf DEF Working
    <3> QED BY <2>0, <2>00, <2>1, <3>1, CheckEffect
  <2>2. CASE Load(t)
    <3>1. cfg' = file /\ UNCHANGED <<file, dicts>> /\ Goes(t, "get")
      BY <2>2, LoadEffect
    <3>2. file.edit \in Nat /\ file.edit > 0 /\ cfg.edit \in Nat
          /\ \A u \in Threads : thread[u].i \in Nat
      BY ReadsNums
    <3>3. ConfigIsOld'
      BY <3>1, <3>2 DEF ConfigIsOld
    <3>4. cfg.edit = file.edit => cfg.content = file.content
      BY <1>0 DEF ConfigIsOld
    <3>5. DictsAreOld'
      BY <1>0, <3>1, <3>2, <3>4, DictTypes DEF DictsAreOld, ConfigIsOld
    <3>6. ThreadsAreOld'
      BY <1>0, <3>1, <3>2, <3>4 DEF ThreadsAreOld, ConfigIsOld, Goes, Others
    <3> QED BY <3>3, <3>5, <3>6
  <2>3. CASE Get(t)
    <3>1. ThreadsAreOld'
      BY <1>0, <2>3, GetEffect, ThreadsOldIf DEF Working
    <3>2. CASE dicts' = dicts
      BY <2>0, <2>00, <2>3, <3>1, <3>2, GetEffect
    <3>3. CASE /\ dicts' = Append(dicts, [content |-> cfg.content, edit |-> cfg.edit, resolved |-> {}])
               /\ cfg.content.supported # {}
      <4>1. cfg' = cfg /\ cfg.edit \in Nat
        BY <2>3, GetEffect, ReadsNums
      <4>2. \A d \in 1 .. Len(dicts') : d \in 1 .. Len(dicts) \/ d = Len(dicts) + 1
        BY <3>3, NewDict
      <4>3. DictsAreOld'
        BY <1>0, <3>3, <4>1, <4>2, NewDict DEF DictsAreOld
      <4> QED BY <2>0, <2>3, <3>1, <4>3, GetEffect
    <3> QED BY <2>3, <3>2, <3>3, GetEffect
  <2>4. CASE Store(t)
    <3>1. ThreadsAreOld'
      BY <1>0, <2>4, StoreEffect, ThreadsOldIf DEF Working
    <3> QED BY <2>0, <2>00, <2>4, <3>1, StoreEffect
  <2>5. CASE Iterate(t)
    <3>1. ThreadsAreOld'
      BY <1>0, <2>5, IterateEffect, ThreadsOldIf DEF Working
    <3> QED BY <2>0, <2>00, <2>5, <3>1, IterateEffect
  <2>6. CASE Slot(t)
    <3>1. ThreadsAreOld'
      BY <1>0, <2>6, SlotEffect, ThreadsOldIf DEF Working, Passes, Resolves
    <3>2. CASE dicts' = dicts
      BY <2>0, <2>00, <2>6, <3>1, <3>2, SlotEffect
    <3>3. CASE Resolves(t, thread[t].dict, Order[thread[t].i])
      <4>0. /\ cfg' = cfg /\ thread[t].dict \in 1 .. Len(dicts) /\ Len(dicts') = Len(dicts)
            /\ Order[thread[t].i] \in dicts[thread[t].dict].content.supported
            /\ \A k \in 1 .. Len(dicts) :
                  /\ dicts'[k].content = dicts[k].content /\ dicts'[k].edit = dicts[k].edit
                  /\ k # thread[t].dict => dicts'[k].resolved = dicts[k].resolved
            /\ dicts'[thread[t].dict].resolved = dicts[thread[t].dict].resolved \cup {Order[thread[t].i]}
        BY <2>6, <3>3, SlotEffect, SlotIn, ResolvedDict DEF Resolves
      <4>1. DictsAreOld'
        BY <1>0, <4>0 DEF DictsAreOld
      <4> QED BY <2>0, <2>6, <3>1, <4>1, SlotEffect
    <3> QED BY <2>6, <3>2, <3>3, SlotEffect
  <2>7. CASE GetIgnored(t)
    <3>1. ThreadsAreOld'
      BY <1>0, <2>7, GetIgnoredEffect, ReadsNums DEF ThreadsAreOld, Working, Goes, Others
    <3> QED BY <2>0, <2>00, <2>7, <3>1, GetIgnoredEffect
  <2>8. CASE StoreIgnored(t)
    <3>1. ThreadsAreOld'
      BY <1>0, <2>8, StoreIgnoredEffect, ThreadsOldIf DEF Working
    <3> QED BY <2>0, <2>00, <2>8, <3>1, StoreIgnoredEffect
  <2>9. CASE Dispatch(t)
    <3>1. ThreadsAreOld'
      BY <1>0, <2>9, DispatchEffect, ThreadsOldIf DEF Working
    <3> QED BY <2>0, <2>00, <2>9, <3>1, DispatchEffect
  <2>10. CASE Process(t)
    <3>1. ThreadsAreOld'
      BY <1>0, <2>10, ProcessEffect, ThreadsOldIf DEF Working
    <3> QED BY <2>0, <2>00, <2>10, <3>1, ProcessEffect
  <2> QED BY <1>4, <2>1, <2>2, <2>3, <2>4, <2>5, <2>6, <2>7, <2>8, <2>9, <2>10 DEF Handle
<1> QED BY <1>1, <1>2, <1>3, <1>4 DEF OcNext

-----------------------------------------------------------------------------
(* The dictionaries that threads work at. *)
NotStored ==
    \A t \in Threads :
        thread[t].pc = "store" /\ thread[t].dict # 0 =>
            /\ dicts[thread[t].dict].resolved = {}
            /\ SUPPORTED_OCS # thread[t].dict
            /\ \A u \in Threads \ {t} :
                  thread[u].pc \in {"store", "slot"} => thread[u].dict # thread[t].dict

InSlots ==
    \A t \in Threads :
        thread[t].pc = "slot" =>
            /\ thread[t].dict # 0 /\ thread[t].i \in 1 .. Len(Order)
            /\ dicts[thread[t].dict].content.supported \cap Before(thread[t].i)
                    \subseteq dicts[thread[t].dict].resolved

LEMMA DictParts == DictsInWork <=> NotStored /\ InSlots
  BY DEF DictsInWork, NotStored, InSlots

LEMMA BeforeNext ==
    ASSUME NEW i \in 1 .. Len(Order)
    PROVE  /\ Before(i + 1) = Before(i) \cup {Order[i]}
           /\ Before(1) = {}
           /\ Order[i] \notin Before(i)
           /\ \A j \in 1 .. Len(Order) : j <= i => Before(j) \subseteq Before(i)
           /\ \A j \in 1 .. Len(Order) : i < j => Order[i] \in Before(j)
           /\ i = Len(Order) => Before(i + 1) = Ocs
<1>1. Len(Order) \in Nat /\ i \in Nat
  BY OcAssumption
<1>2. \A j \in 1 .. i - 1 : Order[j] # Order[i]
  BY <1>1, OcAssumption
<1>3. 1 .. (i + 1) - 1 = (1 .. i - 1) \cup {i}
  BY <1>1
<1>4. Before(i + 1) = Before(i) \cup {Order[i]}
  BY <1>3 DEF Before
<1>5. Before(1) = {} /\ Order[i] \notin Before(i)
  BY <1>1, <1>2 DEF Before
<1>6. \A j \in 1 .. Len(Order) : (j <= i => Before(j) \subseteq Before(i)) /\ (i < j => Order[i] \in Before(j))
  BY <1>1 DEF Before
<1>7. i = Len(Order) => Before(i + 1) = Ocs
  BY <1>1 DEF Before, Ocs
<1> QED BY <1>4, <1>5, <1>6, <1>7

\* A thread goes on with a dictionary that is stored, or is its own.
LEMMA NotStoredIf ==
    ASSUME NotStored, NEW t \in Threads, NEW p, Goes(t, p), dicts' = dicts,
           p = "store" => thread'[t].dict = 0,
           \/ SUPPORTED_OCS' = SUPPORTED_OCS
           \/ thread[t].pc = "store" /\ SUPPORTED_OCS' = thread[t].dict,
           p = "slot" => \/ thread'[t].dict = SUPPORTED_OCS
                         \/ thread[t].pc = "slot" /\ thread'[t].dict = thread[t].dict
    PROVE  NotStored'
<1> SUFFICES ASSUME NEW u \in Threads, thread'[u].pc = "store", thread'[u].dict # 0
             PROVE  /\ dicts'[thread'[u].dict].resolved = {}
                    /\ SUPPORTED_OCS' # thread'[u].dict
                    /\ \A w \in Threads \ {u} :
                          thread'[w].pc \in {"store", "slot"} => thread'[w].dict # thread'[u].dict
  BY DEF NotStored
<1>0. thread'[t].pc = p
  BY DEF Goes
<1>1. u # t
  BY <1>0
<1>2. thread[u].pc = "store" /\ thread'[u].dict = thread[u].dict /\ thread[u].dict # 0
  BY <1>1 DEF Goes, Others
<1>3. /\ dicts[thread[u].dict].resolved = {}
      /\ SUPPORTED_OCS # thread[u].dict
      /\ \A w \in Threads \ {u} : thread[w].pc \in {"store", "slot"} => thread[w].dict # thread[u].dict
  BY <1>2 DEF NotStored
<1>4. SUPPORTED_OCS' # thread[u].dict
  BY <1>1, <1>3
<1>5. ASSUME NEW w \in Threads \ {u}, thread'[w].pc \in {"store", "slot"}
      PROVE  thread'[w].dict # thread[u].dict
  <2>1. CASE w = t
    BY <1>0, <1>1, <1>2, <1>3, <1>5, <2>1
  <2>2. CASE w # t
    <3>1. thread[w].pc = thread'[w].pc /\ thread[w].dict = thread'[w].dict
      BY <2>2 DEF Goes, Others
    <3> QED BY <1>3, <1>5, <3>1
  <2> QED BY <2>1, <2>2
<1> QED BY <1>2, <1>3, <1>4, <1>5

LEMMA InSlotsIf ==
    ASSUME InSlots, NEW t \in Threads, NEW p, Goes(t, p), dicts' = dicts,
           p = "slot" => /\ thread'[t].dict # 0 /\ thread'[t].i \in 1 .. Len(Order)
                         /\ dicts[thread'[t].dict].content.supported \cap Before(thread'[t].i)
                               \subseteq dicts[thread'[t].dict].resolved
    PROVE  InSlots'
<1> SUFFICES ASSUME NEW u \in Threads, thread'[u].pc = "slot"
             PROVE  /\ thread'[u].dict # 0 /\ thread'[u].i \in 1 .. Len(Order)
                    /\ dicts[thread'[u].dict].content.supported \cap Before(thread'[u].i)
                          \subseteq dicts[thread'[u].dict].resolved
  BY DEF InSlots, Before
<1>1. CASE u = t
  BY <1>1 DEF Goes
<1>2. CASE u # t
  <2>1. thread[u].pc = "slot" /\ thread'[u].dict = thread[u].dict /\ thread'[u].i = thread[u].i
    BY <1>2 DEF Goes, Others
  <2> QED BY <2>1 DEF InSlots
<1> QED BY <1>1, <1>2

\* A thread goes on that neither gets a dictionary nor goes over one.
LEMMA DictsIf ==
    ASSUME NotStored, InSlots, NEW t \in Threads, NEW p, Goes(t, p), dicts' = dicts,
           SUPPORTED_OCS' = SUPPORTED_OCS, p \notin {"store", "slot"}
    PROVE  NotStored' /\ InSlots'
  BY NotStoredIf, InSlotsIf

LEMMA DictsStep ==
    ASSUME OcTypes, ReadsAreOld, DictsInWork, [OcNext]_ocVars
    PROVE  DictsInWork'
<1>0. NotStored /\ InSlots
  BY DictParts
<1> SUFFICES NotStored' /\ InSlots'
  BY DEF DictsInWork, NotStored, InSlots
<1>1. CASE UNCHANGED ocVars
  BY <1>0, <1>1 DEF ocVars, NotStored, InSlots
<1>2. ASSUME NEW c \in Contents, Edit(c)
      PROVE  NotStored' /\ InSlots'
  <2>1. /\ \A u \in Threads : /\ thread'[u].pc = thread[u].pc /\ thread'[u].dict = thread[u].dict
                               /\ thread'[u].i = thread[u].i
        /\ dicts' = dicts /\ SUPPORTED_OCS' = SUPPORTED_OCS
    BY <1>2, EditEffect
  <2>2. NotStored'
    BY <1>0, <2>1 DEF NotStored
  <2>3. InSlots'
    <3> SUFFICES ASSUME NEW u \in Threads, thread'[u].pc = "slot"
                 PROVE  /\ thread'[u].dict # 0 /\ thread'[u].i \in 1 .. Len(Order)
                        /\ dicts[thread'[u].dict].content.supported \cap Before(thread'[u].i)
                              \subseteq dicts[thread'[u].dict].resolved
      BY <2>1 DEF InSlots, Before
    <3>1. thread[u].pc = "slot" /\ thread'[u].dict = thread[u].dict /\ thread'[u].i = thread[u].i
      BY <2>1
    <3> QED BY <1>0, <3>1 DEF InSlots
  <2> QED BY <2>2, <2>3
<1>3. ASSUME NEW t \in Threads, NEW oc \in Ocs, Receive(t, oc)
      PROVE  NotStored' /\ InSlots'
  <2>1. NotStored'
    BY <1>0, <1>3, ReceiveEffect DEF NotStored
  <2>2. InSlots'
    <3> SUFFICES ASSUME NEW u \in Threads, thread'[u].pc = "slot"
                 PROVE  /\ thread'[u].dict # 0 /\ thread'[u].i \in 1 .. Len(Order)
                        /\ dicts[thread'[u].dict].content.supported \cap Before(thread'[u].i)
                              \subseteq dicts[thread'[u].dict].resolved
      BY <1>3, ReceiveEffect DEF InSlots, Before
    <3>1. thread'[u] = thread[u]
      BY <1>3, ReceiveEffect
    <3> QED BY <1>0, <3>1 DEF InSlots
  <2> QED BY <2>1, <2>2
<1>4. ASSUME NEW t \in Threads, Handle(t)
      PROVE  NotStored' /\ InSlots'
  <2>1. CASE Check(t)
    BY <1>0, <2>1, CheckEffect, DictsIf
  <2>2. CASE Load(t)
    BY <1>0, <2>2, LoadEffect, DictsIf
  <2>3. CASE Get(t)
    <3>1. CASE dicts' = dicts /\ thread'[t].dict = 0
      <4>1. NotStored'
        BY <1>0, <2>3, <3>1, GetEffect, NotStoredIf
      <4>2. InSlots'
        BY <1>0, <2>3, <3>1, GetEffect, InSlotsIf
      <4> QED BY <4>1, <4>2
    <3>2. CASE /\ dicts' = Append(dicts, [content |-> cfg.content, edit |-> cfg.edit, resolved |-> {}])
               /\ thread'[t].dict = Len(dicts) + 1
      <4>1. Goes(t, "store") /\ SUPPORTED_OCS' = SUPPORTED_OCS
        BY <2>3, GetEffect
      <4>2. /\ Len(dicts) \in Nat
            /\ \A d \in 1 .. Len(dicts) : dicts'[d] = dicts[d]
            /\ dicts'[Len(dicts) + 1].resolved = {}
        BY <3>2, NewDict
      <4>3. /\ \A u \in Threads : thread[u].dict \in Nat /\ thread[u].dict <= Len(dicts)
            /\ SUPPORTED_OCS \in 0 .. Len(dicts)
        BY ReadsNums DEF OcTypes
      <4>4. ASSUME NEW u \in Threads \ {t}, thread[u].pc = "store", thread[u].dict # 0
            PROVE  /\ dicts'[thread[u].dict].resolved = {}
                   /\ \A w \in Threads \ {u} : thread'[w].pc \in {"store", "slot"} => thread'[w].dict # thread[u].dict
        <5>1. dicts'[thread[u].dict] = dicts[thread[u].dict] /\ thread[u].dict # Len(dicts) + 1
          BY <4>2, <4>3, <4>4
        <5>2. dicts[thread[u].dict].resolved = {}
          BY <1>0, <4>4 DEF NotStored
        <5>3. \A w \in Threads \ {u} : thread[w].pc \in {"store", "slot"} => thread[w].dict # thread[u].dict
          BY <1>0, <4>4 DEF NotStored
        <5> QED BY <3>2, <4>1, <5>1, <5>2, <5>3 DEF Goes, Others
      <4>5. \A u \in Threads \ {t} : thread'[u].pc = thread[u].pc /\ thread'[u].dict = thread[u].dict
        BY <4>1 DEF Goes, Others
      <4>6. Len(dicts) + 1 # SUPPORTED_OCS /\ \A u \in Threads : thread[u].dict # Len(dicts) + 1
        BY <4>2, <4>3
      <4>7. NotStored'
        <5> SUFFICES ASSUME NEW u \in Threads, thread'[u].pc = "store", thread'[u].dict # 0
                     PROVE  /\ dicts'[thread'[u].dict].resolved = {}
                            /\ SUPPORTED_OCS # thread'[u].dict
                            /\ \A w \in Threads \ {u} :
                                  thread'[w].pc \in {"store", "slot"} => thread'[w].dict # thread'[u].dict
          BY <4>1 DEF NotStored
        <5>1. CASE u = t
          BY <3>2, <4>2, <4>5, <4>6, <5>1
        <5>2. CASE u # t
          <6>1. thread[u].pc = "store" /\ thread'[u].dict = thread[u].dict /\ thread[u].dict # 0
            BY <4>5, <5>2
          <6>2. SUPPORTED_OCS # thread[u].dict
            BY <1>0, <6>1 DEF NotStored
          <6> QED BY <4>4, <5>2, <6>1, <6>2
        <5> QED BY <5>1, <5>2
      <4>8. InSlots'
        <5> SUFFICES ASSUME NEW u \in Threads, thread'[u].pc = "slot"
                     PROVE  /\ thread'[u].dict # 0 /\ thread'[u].i \in 1 .. Len(Order)
                            /\ dicts'[thread'[u].dict].content.supported \cap Before(thread'[u].i)
                                  \subseteq dicts'[thread'[u].dict].resolved
          BY DEF InSlots, Before
        <5>1. u # t /\ thread[u].pc = "slot" /\ thread'[u].dict = thread[u].dict /\ thread'[u].i = thread[u].i
          BY <4>1 DEF Goes, Others
        <5>2. dicts'[thread[u].dict] = dicts[thread[u].dict]
          BY <4>2, <4>3, <5>1, SlotIn
        <5> QED BY <1>0, <5>1, <5>2 DEF InSlots
      <4> QED BY <4>7, <4>8
    <3> QED BY <2>3, <3>1, <3>2, GetEffect
  <2>4. CASE Store(t)
    <3>1. NotStored'
      BY <1>0, <2>4, StoreEffect, NotStoredIf
    <3>2. InSlots'
      BY <1>0, <2>4, StoreEffect, InSlotsIf
    <3> QED BY <3>1, <3>2
  <2>5. CASE Iterate(t)
    <3>1. CASE SUPPORTED_OCS = 0
      BY <1>0, <2>5, <3>1, IterateEffect, DictsIf
    <3>2. CASE SUPPORTED_OCS # 0
      <4>1. NotStored'
        BY <1>0, <2>5, <3>2, IterateEffect, NotStoredIf
      <4>2. Len(Order) \in Nat /\ Len(Order) # 0
        <5>1. SUPPORTED_OCS \in 1 .. Len(dicts)
          BY <3>2, DictTypes DEF OcTypes
        <5>2. Stored.content.supported # {} /\ Stored.content \in Contents
          BY <5>1, DictTypes DEF ReadsAreOld, Stored
        <5>3. Ocs # {}
          BY <5>2, ContentTypes
        <5> QED BY <5>3, OcAssumption DEF Ocs
      <4>3. Before(1) = {} /\ 1 \in 1 .. Len(Order)
        BY <4>2, BeforeNext
      <4>4. InSlots'
        BY <1>0, <2>5, <3>2, <4>3, IterateEffect, InSlotsIf
      <4> QED BY <4>1, <4>4
    <3> QED BY <3>1, <3>2
  <2>6. CASE Slot(t)
    <3>0. /\ thread[t].dict \in 1 .. Len(dicts) /\ thread[t].i \in 1 .. Len(Order) /\ Len(Order) \in Nat
          /\ Order[thread[t].i] \in Ocs /\ thread[t].pc = "slot"
          /\ dicts[thread[t].dict].content.supported \cap Before(thread[t].i) \subseteq dicts[thread[t].dict].resolved
          /\ SUPPORTED_OCS' = SUPPORTED_OCS
      BY <1>0, <2>6, SlotEffect, SlotIn DEF InSlots
    <3>1. CASE Goes(t, "refused") /\ UNCHANGED dicts
      BY <1>0, <3>0, <3>1, DictsIf
    <3>2. CASE /\ Order[thread[t].i] \notin dicts[thread[t].dict].content.supported
               /\ Passes(t) /\ UNCHANGED dicts
      <4>1. CASE Goes(t, "getIgnored")
        BY <1>0, <3>0, <3>2, <4>1, DictsIf
      <4>2. CASE thread[t].i # Len(Order) /\ Goes(t, "slot") /\ thread'[t].i = thread[t].i + 1 /\ thread'[t].dict = thread[t].dict
        <5>1. NotStored'
          BY <1>0, <3>0, <3>2, <4>2, NotStoredIf
        <5>2. /\ dicts[thread[t].dict].content.supported \cap Before(thread[t].i + 1) \subseteq dicts[thread[t].dict].resolved
              /\ thread[t].i + 1 \in 1 .. Len(Order)
          BY <3>0, <3>2, <4>2, BeforeNext
        <5>3. InSlots'
          BY <1>0, <3>0, <3>2, <4>2, <5>2, InSlotsIf
        <5> QED BY <5>1, <5>3
      <4> QED BY <3>2, <4>1, <4>2 DEF Passes
    <3>3. CASE Resolves(t, thread[t].dict, Order[thread[t].i])
      <4>1. /\ \A k \in 1 .. Len(dicts) :
                  /\ dicts'[k].content = dicts[k].content
                  /\ k # thread[t].dict => dicts'[k].resolved = dicts[k].resolved
            /\ dicts'[thread[t].dict].resolved = dicts[thread[t].dict].resolved \cup {Order[thread[t].i]}
        BY <3>0, <3>3, ResolvedDict DEF Resolves
      <4>2. \A u \in Threads \ {t} :
               /\ thread'[u].pc = thread[u].pc /\ thread'[u].dict = thread[u].dict /\ thread'[u].i = thread[u].i
        BY <3>3 DEF Resolves, Passes, Goes, Others
      <4>3. /\ thread'[t].dict = thread[t].dict
            /\ thread'[t].pc = "slot" => thread[t].i # Len(Order) /\ thread'[t].i = thread[t].i + 1
            /\ thread'[t].pc \in {"slot", "getIgnored"}
        BY <3>3 DEF Resolves, Passes, Goes
      <4>4. NotStored'
        <5> SUFFICES ASSUME NEW u \in Threads, thread'[u].pc = "store", thread'[u].dict # 0
                     PROVE  /\ dicts'[thread'[u].dict].resolved = {}
                            /\ SUPPORTED_OCS # thread'[u].dict
                            /\ \A w \in Threads \ {u} :
                                  thread'[w].pc \in {"store", "slot"} => thread'[w].dict # thread'[u].dict
          BY <3>0 DEF NotStored
        <5>1. u # t /\ thread[u].pc = "store" /\ thread'[u].dict = thread[u].dict /\ thread[u].dict # 0
          BY <4>2, <4>3
        <5>2. /\ dicts[thread[u].dict].resolved = {}
              /\ SUPPORTED_OCS # thread[u].dict
              /\ \A w \in Threads \ {u} :
                    thread[w].pc \in {"store", "slot"} => thread[w].dict # thread[u].dict
          BY <1>0, <5>1 DEF NotStored
        <5>3. thread[u].dict # thread[t].dict
          BY <3>0, <5>1, <5>2
        <5>4. thread[u].dict \in 1 .. Len(dicts)
          BY <5>1, ReadsNums, DictTypes DEF OcTypes
        <5> QED BY <3>0, <4>1, <4>2, <4>3, <5>1, <5>2, <5>3, <5>4
      <4>5. InSlots'
        <5> SUFFICES ASSUME NEW u \in Threads, thread'[u].pc = "slot"
                     PROVE  /\ thread'[u].dict # 0 /\ thread'[u].i \in 1 .. Len(Order)
                            /\ dicts'[thread'[u].dict].content.supported \cap Before(thread'[u].i)
                                  \subseteq dicts'[thread'[u].dict].resolved
          BY DEF InSlots, Before
        <5>1. CASE u = t
          <6>1. thread'[u].i = thread[t].i + 1 /\ thread[t].i # Len(Order) /\ thread'[u].dict = thread[t].dict
            BY <4>3, <5>1
          <6>2. Before(thread[t].i + 1) = Before(thread[t].i) \cup {Order[thread[t].i]}
            BY <3>0, BeforeNext
          <6> QED BY <3>0, <4>1, <6>1, <6>2
        <5>2. CASE u # t
          <6>1. thread[u].pc = "slot" /\ thread'[u].dict = thread[u].dict /\ thread'[u].i = thread[u].i
            BY <4>2, <5>2
          <6>2. /\ thread[u].dict # 0 /\ thread[u].i \in 1 .. Len(Order)
                /\ dicts[thread[u].dict].content.supported \cap Before(thread[u].i)
                      \subseteq dicts[thread[u].dict].resolved
            BY <1>0, <6>1 DEF InSlots
          <6>3. thread[u].dict \in 1 .. Len(dicts)
            BY <6>1, SlotIn
          <6> QED BY <4>1, <6>1, <6>2, <6>3
        <5> QED BY <5>1, <5>2
      <4> QED BY <4>4, <4>5
    <3> QED BY <2>6, <3>1, <3>2, <3>3, SlotEffect
  <2>7. CASE GetIgnored(t)
    BY <1>0, <2>7, GetIgnoredEffect, DictsIf
  <2>8. CASE StoreIgnored(t)
    BY <1>0, <2>8, StoreIgnoredEffect, DictsIf
  <2>9. CASE Dispatch(t)
    BY <1>0, <2>9, DispatchEffect, DictsIf
  <2>10. CASE Process(t)
    BY <1>0, <2>10, ProcessEffect, DictsIf
  <2> QED BY <1>4, <2>1, <2>2, <2>3, <2>4, <2>5, <2>6, <2>7, <2>8, <2>9, <2>10 DEF Handle
<1> QED BY <1>1, <1>2, <1>3, <1>4 DEF OcNext

-----------------------------------------------------------------------------
(* Somebody completes a reload. *)
LEMMA OcAssumed ==
    /\ Len(Order) \in Nat
    /\ \A c \in Contents : c.supported \subseteq Ocs /\ c.bad \subseteq c.supported
  BY OcAssumption

\* The thread in front, or the one that has not begun, goes on.
AtWork ==
    \/ Stored.resolved = {} /\ \E t \in Threads : thread[t].pc = "iterate"
    \/ \E t \in Threads :
          /\ thread[t].pc = "slot" /\ thread[t].dict = SUPPORTED_OCS
          /\ Stored.resolved = Stored.content.supported \cap Before(thread[t].i)
    \/ /\ Stored.resolved = Stored.content.supported
       /\ \/ \E t \in Threads : \/ thread[t].pc = "getIgnored"
                                \/ thread[t].pc = "storeIgnored" /\ thread[t].i = cfg.edit
          \/ IGNORED_OCS = cfg.content.ignored

StoredIsLast == SUPPORTED_OCS # 0 /\ Stored.edit = cfg.edit

LEMMA WillParts ==
    WillBeReloaded <=> \/ \E t \in Threads : thread[t].pc = "get"
                       \/ \E t \in Threads : /\ thread[t].pc = "store" /\ thread[t].dict # 0
                                             /\ dicts[thread[t].dict].edit = cfg.edit
                       \/ StoredIsLast /\ AtWork
  BY DEF WillBeReloaded, Reloaded, StoredIsLast, AtWork

\* The threads that reload stay where they are.
LEMMA WillIfSame ==
    ASSUME WillBeReloaded, UNCHANGED <<cfg, dicts, SUPPORTED_OCS, IGNORED_OCS>>,
           \A u \in Threads : thread[u].pc \in Working =>
               thread'[u].pc = thread[u].pc /\ thread'[u].dict = thread[u].dict /\ thread'[u].i = thread[u].i
    PROVE  WillBeReloaded'
<1>1. CASE \E u \in Threads : thread[u].pc = "get"
  BY <1>1 DEF WillBeReloaded, Working
<1>2. CASE \E u \in Threads : /\ thread[u].pc = "store" /\ thread[u].dict # 0
                              /\ dicts[thread[u].dict].edit = cfg.edit
  <2>1. PICK u \in Threads : /\ thread[u].pc = "store" /\ thread[u].dict # 0
                             /\ dicts[thread[u].dict].edit = cfg.edit
    BY <1>2
  <2>2. thread'[u].pc = "store" /\ thread'[u].dict # 0 /\ dicts'[thread'[u].dict].edit = cfg'.edit
    BY <2>1 DEF Working
  <2> QED BY <2>2 DEF WillBeReloaded
<1>3. CASE StoredIsLast /\ AtWork
  <2>1. StoredIsLast'
    BY <1>3 DEF StoredIsLast, Stored
  <2>2. CASE Stored.resolved = {} /\ \E u \in Threads : thread[u].pc = "iterate"
    <3>1. Stored'.resolved = {} /\ \E u \in Threads : thread'[u].pc = "iterate"
      BY <2>2 DEF Stored, Working
    <3> QED BY <2>1, <3>1, WillParts DEF WillBeReloaded, StoredIsLast
  <2>3. CASE \E u \in Threads : /\ thread[u].pc = "slot" /\ thread[u].dict = SUPPORTED_OCS
                                /\ Stored.resolved = Stored.content.supported \cap Before(thread[u].i)
    <3>1. PICK u \in Threads : /\ thread[u].pc = "slot" /\ thread[u].dict = SUPPORTED_OCS
                               /\ Stored.resolved = Stored.content.supported \cap Before(thread[u].i)
      BY <2>3
    <3>2. thread'[u].pc = "slot" /\ thread'[u].dict = SUPPORTED_OCS' /\ thread'[u].i = thread[u].i
      BY <3>1 DEF Working
    <3>3. Stored' = Stored
      BY DEF Stored
    <3>4. Stored'.resolved = Stored'.content.supported \cap Before(thread[u].i)
      BY <3>1, <3>3
    <3> QED BY <2>1, <3>2, <3>4 DEF WillBeReloaded, StoredIsLast, Before
  <2>4. CASE /\ Stored.resolved = Stored.content.supported
             /\ \/ \E u \in Threads : \/ thread[u].pc = "getIgnored"
                                      \/ thread[u].pc = "storeIgnored" /\ thread[u].i = cfg.edit
                \/ IGNORED_OCS = cfg.content.ignored
    <3>1. Stored' = Stored
      BY DEF Stored
    <3>2. \/ \E u \in Threads : \/ thread'[u].pc = "getIgnored"
                                \/ thread'[u].pc = "storeIgnored" /\ thread'[u].i = cfg'.edit
          \/ IGNORED_OCS' = cfg'.content.ignored
      BY <2>4 DEF Working
    <3> QED BY <2>1, <2>4, <3>1, <3>2 DEF WillBeReloaded, StoredIsLast, Reloaded
  <2> QED BY <1>3, <2>2, <2>3, <2>4 DEF AtWork
<1> QED BY <1>1, <1>2, <1>3, WillParts

\* The state after a step, as WillParts says it.
LEMMA WillAfter ==
    ASSUME \/ \E u \in Threads : thread'[u].pc = "get"
           \/ \E u \in Threads : /\ thread'[u].pc = "store" /\ thread'[u].dict # 0
                                 /\ dicts'[thread'[u].dict].edit = cfg'.edit
           \/ StoredIsLast' /\ AtWork'
    PROVE  WillBeReloaded'
  BY DEF WillBeReloaded, Reloaded, StoredIsLast, AtWork

\* Another thread that is about to load or to store a dictionary still is.
LEMMA OthersWill ==
    ASSUME NEW t \in Threads, NEW p, Goes(t, p), cfg' = cfg,
           \A u \in Threads \ {t} : thread[u].pc = "store" /\ thread[u].dict # 0 =>
               dicts'[thread[u].dict].edit = dicts[thread[u].dict].edit,
           thread[t].pc \notin {"get", "store"},
           WillBeReloaded
    PROVE  WillBeReloaded' \/ (StoredIsLast /\ AtWork)
<1>1. CASE \E u \in Threads : thread[u].pc = "get"
  <2>1. \E u \in Threads : thread'[u].pc = "get"
    BY <1>1 DEF Goes, Others
  <2> QED BY <2>1, WillAfter
<1>2. CASE \E u \in Threads : /\ thread[u].pc = "store" /\ thread[u].dict # 0
                              /\ dicts[thread[u].dict].edit = cfg.edit
  <2>1. \E u \in Threads : /\ thread'[u].pc = "store" /\ thread'[u].dict # 0
                           /\ dicts'[thread'[u].dict].edit = cfg'.edit
    BY <1>2 DEF Goes, Others
  <2> QED BY <2>1, WillAfter
<1> QED BY <1>1, <1>2, WillParts

\* Another thread than t is at work.
AtWorkBut(t) ==
    \/ Stored.resolved = {} /\ \E u \in Threads \ {t} : thread[u].pc = "iterate"
    \/ \E u \in Threads \ {t} :
          /\ thread[u].pc = "slot" /\ thread[u].dict = SUPPORTED_OCS
          /\ Stored.resolved = Stored.content.supported \cap Before(thread[u].i)
    \/ /\ Stored.resolved = Stored.content.supported
       /\ \/ \E u \in Threads \ {t} : \/ thread[u].pc = "getIgnored"
                                      \/ thread[u].pc = "storeIgnored" /\ thread[u].i = cfg.edit
          \/ IGNORED_OCS = cfg.content.ignored

LEMMA OtherGoesOn ==
    ASSUME NEW t \in Threads, NEW p, Goes(t, p), StoredIsLast, AtWorkBut(t),
           cfg' = cfg, SUPPORTED_OCS' = SUPPORTED_OCS, IGNORED_OCS' \in {IGNORED_OCS, cfg.content.ignored},
           dicts'[SUPPORTED_OCS].edit = Stored.edit,
           dicts'[SUPPORTED_OCS].content = Stored.content,
           dicts'[SUPPORTED_OCS].resolved = Stored.resolved
    PROVE  WillBeReloaded'
<1>1. StoredIsLast'
  BY DEF StoredIsLast, Stored
<1>2. Stored'.content = Stored.content /\ Stored'.resolved = Stored.resolved
  BY DEF Stored
<1>3. \A u \in Threads \ {t} :
         thread'[u].pc = thread[u].pc /\ thread'[u].dict = thread[u].dict /\ thread'[u].i = thread[u].i
  BY DEF Goes, Others
<1>4. CASE Stored.resolved = {} /\ \E u \in Threads \ {t} : thread[u].pc = "iterate"
  <2>1. AtWork'
    BY <1>2, <1>3, <1>4 DEF AtWork
  <2> QED BY <1>1, <2>1, WillAfter
<1>5. CASE \E u \in Threads \ {t} :
              /\ thread[u].pc = "slot" /\ thread[u].dict = SUPPORTED_OCS
              /\ Stored.resolved = Stored.content.supported \cap Before(thread[u].i)
  <2>1. PICK u \in Threads \ {t} :
              /\ thread[u].pc = "slot" /\ thread[u].dict = SUPPORTED_OCS
              /\ Stored.resolved = Stored.content.supported \cap Before(thread[u].i)
    BY <1>5
  <2>2. /\ thread'[u].pc = "slot" /\ thread'[u].dict = SUPPORTED_OCS'
        /\ Stored'.resolved = Stored'.content.supported \cap Before(thread'[u].i)
    BY <1>2, <1>3, <2>1
  <2>3. AtWork'
    BY <2>2 DEF AtWork, Before
  <2> QED BY <1>1, <2>3, WillAfter
<1>6. CASE /\ Stored.resolved = Stored.content.supported
           /\ \/ \E u \in Threads \ {t} : \/ thread[u].pc = "getIgnored"
                                          \/ thread[u].pc = "storeIgnored" /\ thread[u].i = cfg.edit
              \/ IGNORED_OCS = cfg.content.ignored
  <2>1. \/ \E u \in Threads \ {t} : \/ thread'[u].pc = "getIgnored"
                                    \/ thread'[u].pc = "storeIgnored" /\ thread'[u].i = cfg'.edit
        \/ IGNORED_OCS' = cfg'.content.ignored
    BY <1>3, <1>6
  <2>2. Stored'.resolved = Stored'.content.supported
    BY <1>2, <1>6
  <2>3. AtWork'
    BY <2>1, <2>2 DEF AtWork
  <2> QED BY <1>1, <2>3, WillAfter
<1> QED BY <1>4, <1>5, <1>6 DEF AtWorkBut

LEMMA WillGet ==
    ASSUME OcTypes, Correct(cfg.content), NEW t \in Threads, Get(t)
    PROVE  WillBeReloaded'
<1>1. cfg.content.supported # {}
  BY DEF Correct
<1>2. /\ Goes(t, "store") /\ thread'[t].dict = Len(dicts) + 1 /\ cfg' = cfg
      /\ dicts' = Append(dicts, [content |-> cfg.content, edit |-> cfg.edit, resolved |-> {}])
  BY <1>1, GetEffect
<1>3. Len(dicts) \in Nat /\ dicts'[Len(dicts) + 1].edit = cfg.edit
  BY <1>2, NewDict
<1>4. thread'[t].pc = "store" /\ thread'[t].dict # 0 /\ dicts'[thread'[t].dict].edit = cfg'.edit
  BY <1>2, <1>3 DEF Goes
<1> QED BY <1>4, WillAfter

LEMMA WillStore ==
    ASSUME OcTypes, ReadsAreOld, DictsInWork, Correct(cfg.content), NEW t \in Threads, Store(t), ~overtaken'
    PROVE  WillBeReloaded'
<1>1. /\ thread[t].pc = "store" /\ SUPPORTED_OCS' = thread[t].dict
      /\ thread[t].dict = 0 => cfg.content.supported = {}
      /\ thread[t].dict # 0 => ~(dicts[thread[t].dict].edit < cfg.edit)
      /\ Goes(t, "iterate") /\ cfg' = cfg /\ dicts' = dicts
  BY StoreEffect
<1>2. thread[t].dict # 0
  BY <1>1 DEF Correct
<1>3. thread[t].dict \in 1 .. Len(dicts)
  BY <1>2, DictTypes, ReadsNums DEF OcTypes
<1>4. dicts[thread[t].dict].edit = cfg.edit
  BY <1>1, <1>2, <1>3, DictTypes, ReadsNums DEF ReadsAreOld
<1>5. dicts[thread[t].dict].resolved = {}
  BY <1>1, <1>2 DEF DictsInWork
<1>6. StoredIsLast'
  BY <1>1, <1>2, <1>4 DEF StoredIsLast, Stored
<1>7. Stored'.resolved = {} /\ thread'[t].pc = "iterate"
  BY <1>1, <1>5 DEF Stored, Goes
<1>8. AtWork'
  BY <1>7 DEF AtWork
<1> QED BY <1>6, <1>8, WillAfter

LEMMA WillIterate ==
    ASSUME OcTypes, WillBeReloaded, NEW t \in Threads, Iterate(t)
    PROVE  WillBeReloaded'
<1>1. PICK p \in {"refused", "slot"} : Goes(t, p)
  BY IterateEffect
<1>2. thread[t].pc = "iterate" /\ UNCHANGED <<cfg, dicts, SUPPORTED_OCS, IGNORED_OCS>>
  BY IterateEffect
<1>3. WillBeReloaded' \/ (StoredIsLast /\ AtWork)
  BY <1>1, <1>2, OthersWill
<1> SUFFICES ASSUME StoredIsLast, AtWork PROVE WillBeReloaded'
  BY <1>3
<1>4. CASE AtWorkBut(t)
  BY <1>1, <1>2, <1>4, OtherGoesOn DEF Stored
<1>5. CASE ~AtWorkBut(t)
  <2>1. Stored.resolved = {}
    BY <1>2, <1>5 DEF AtWork, AtWorkBut
  <2>2. thread'[t].pc = "slot" /\ thread'[t].dict = SUPPORTED_OCS /\ thread'[t].i = 1
    BY IterateEffect DEF Goes, StoredIsLast
  <2>3. Before(1) = {}
    BY DEF Before
  <2>4. StoredIsLast' /\ Stored' = Stored
    BY <1>2 DEF StoredIsLast, Stored
  <2>5. /\ thread'[t].pc = "slot" /\ thread'[t].dict = SUPPORTED_OCS'
        /\ Stored'.resolved = Stored'.content.supported \cap Before(thread'[t].i)
    BY <1>2, <2>1, <2>2, <2>3, <2>4
  <2>6. AtWork'
    BY <2>5 DEF AtWork, Before
  <2> QED BY <2>4, <2>6, WillAfter
<1> QED BY <1>4, <1>5

\* The thread in front passes a code.
LEMMA FrontGoesOn ==
    ASSUME NEW t \in Threads, thread[t].i \in 1 .. Len(Order), Passes(t), StoredIsLast',
           thread[t].dict = SUPPORTED_OCS', Stored'.content.supported \subseteq Ocs,
           Stored'.resolved = Stored'.content.supported \cap Before(thread[t].i + 1)
    PROVE  WillBeReloaded'
<1>1. CASE thread[t].i = Len(Order) /\ Goes(t, "getIgnored")
  <2>1. Before(thread[t].i + 1) = Ocs
    BY <1>1, BeforeNext
  <2>2. Stored'.resolved = Stored'.content.supported
    BY <2>1
  <2>3. thread'[t].pc = "getIgnored"
    BY <1>1 DEF Goes
  <2>4. AtWork'
    BY <2>2, <2>3 DEF AtWork
  <2> QED BY <2>4, WillAfter
<1>2. CASE thread[t].i # Len(Order) /\ Goes(t, "slot") /\ thread'[t].i = thread[t].i + 1
  <2>1. /\ thread'[t].pc = "slot" /\ thread'[t].dict = SUPPORTED_OCS'
        /\ Stored'.resolved = Stored'.content.supported \cap Before(thread'[t].i)
    BY <1>2 DEF Goes, Passes
  <2>2. AtWork'
    BY <2>1 DEF AtWork, Before
  <2> QED BY <2>2, WillAfter
<1> QED BY <1>1, <1>2 DEF Passes

LEMMA StoredTypes ==
    ASSUME OcTypes, ReadsAreOld, StoredIsLast
    PROVE  /\ SUPPORTED_OCS \in 1 .. Len(dicts)
           /\ Stored.content = cfg.content /\ Stored.content \in Contents
           /\ Stored.content.supported \subseteq Ocs
<1>1. SUPPORTED_OCS \in 1 .. Len(dicts)
  BY DictTypes DEF OcTypes, StoredIsLast
<1>2. Stored.content = cfg.content /\ Stored.content \in Contents
  BY <1>1, DictTypes DEF ReadsAreOld, StoredIsLast, Stored
<1> QED BY <1>1, <1>2, ContentTypes

LEMMA WillSlot ==
    ASSUME OcTypes, ReadsAreOld, DictsInWork, Correct(cfg.content), WillBeReloaded, NEW t \in Threads, Slot(t)
    PROVE  WillBeReloaded'
<1> DEFINE d == thread[t].dict
           i == thread[t].i
           oc == Order[i]
<1>1. /\ thread[t].pc = "slot" /\ d \in 1 .. Len(dicts) /\ i \in 1 .. Len(Order) /\ oc \in Ocs
      /\ UNCHANGED <<cfg, SUPPORTED_OCS, IGNORED_OCS>>
  BY SlotEffect, SlotIn
<1>2. \/ /\ oc \notin dicts[d].content.supported /\ Passes(t) /\ dicts' = dicts
      \/ /\ oc \in dicts[d].content.bad \cup dicts[d].resolved
         /\ Goes(t, "refused") /\ dicts' = dicts
      \/ Resolves(t, d, oc)
  BY SlotEffect
<1>3. PICK p \in {"refused", "slot", "getIgnored"} : Goes(t, p)
  BY <1>2 DEF Passes, Resolves
<1>4. /\ \A k \in 1 .. Len(dicts) :
            /\ dicts'[k].content = dicts[k].content /\ dicts'[k].edit = dicts[k].edit
            /\ k # d \/ dicts' = dicts => dicts'[k].resolved = dicts[k].resolved
      /\ dicts' # dicts => /\ dicts'[d].resolved = dicts[d].resolved \cup {oc}
                           /\ Resolves(t, d, oc)
  <2>1. CASE dicts' = dicts
    BY <2>1
  <2>2. CASE Resolves(t, d, oc)
    BY <1>1, <2>2, ResolvedDict DEF Resolves
  <2> QED BY <1>2, <2>1, <2>2
<1>5. WillBeReloaded' \/ (StoredIsLast /\ AtWork)
  <2>1. \A u \in Threads : thread[u].pc = "store" /\ thread[u].dict # 0 => thread[u].dict \in 1 .. Len(dicts)
    BY DictTypes, ReadsNums DEF OcTypes
  <2> HIDE DEF d, i, oc
  <2>2. \A u \in Threads \ {t} : thread[u].pc = "store" /\ thread[u].dict # 0 =>
               dicts'[thread[u].dict].edit = dicts[thread[u].dict].edit
    BY <1>4, <2>1
  <2> QED BY <1>1, <1>3, <2>2, OthersWill
<1> SUFFICES ASSUME StoredIsLast, AtWork PROVE WillBeReloaded'
  BY <1>5
<1>6. /\ SUPPORTED_OCS \in 1 .. Len(dicts) /\ Stored.content = cfg.content
      /\ Stored.content.supported \subseteq Ocs /\ Stored.content.bad = {}
  BY StoredTypes DEF Correct
<1>7. StoredIsLast' /\ Stored'.content = Stored.content /\ Stored'.edit = Stored.edit
  BY <1>1, <1>4, <1>6 DEF StoredIsLast, Stored
<1>8. ASSUME AtWorkBut(t), Stored'.resolved = Stored.resolved PROVE WillBeReloaded'
  <2> HIDE DEF d, i, oc
  <2>1. dicts'[SUPPORTED_OCS].resolved = Stored.resolved
    BY <1>1, <1>8 DEF Stored
  <2>2. dicts'[SUPPORTED_OCS].edit = Stored.edit /\ dicts'[SUPPORTED_OCS].content = Stored.content
    BY <1>4, <1>6 DEF Stored
  <2> QED BY <1>1, <1>3, <1>8, <2>1, <2>2, OtherGoesOn
<1>9. \/ AtWorkBut(t)
      \/ d = SUPPORTED_OCS /\ Stored.resolved = Stored.content.supported \cap Before(i)
  BY <1>1 DEF AtWork, AtWorkBut
<1>10. CASE d # SUPPORTED_OCS
  <2>1. Stored'.resolved = Stored.resolved
    BY <1>1, <1>4, <1>6, <1>10 DEF Stored
  <2> QED BY <1>8, <1>9, <1>10, <2>1
<1>11. CASE d = SUPPORTED_OCS /\ dicts' = dicts /\ oc \in dicts[d].content.bad \cup dicts[d].resolved
  <2>1. oc \in Stored.resolved
    BY <1>6, <1>11 DEF Stored
  <2>2. oc \notin Before(i)
    BY <1>1, BeforeNext
  <2>3. Stored'.resolved = Stored.resolved
    BY <1>1, <1>11 DEF Stored
  <2>4. AtWorkBut(t)
    BY <1>9, <2>1, <2>2
  <2> QED BY <1>8, <2>3, <2>4
<1>12. CASE d = SUPPORTED_OCS /\ dicts' = dicts /\ oc \notin dicts[d].content.supported /\ Passes(t)
  <2>1. Stored'.resolved = Stored.resolved /\ oc \notin Stored.content.supported
    BY <1>1, <1>12 DEF Stored
  <2>2. CASE AtWorkBut(t)
    BY <1>8, <2>1, <2>2
  <2>3. CASE Stored.resolved = Stored.content.supported \cap Before(i)
    <3>1. Before(i + 1) = Before(i) \cup {oc}
      BY <1>1, BeforeNext
    <3>2. Stored'.resolved = Stored'.content.supported \cap Before(i + 1)
      BY <1>7, <2>1, <2>3, <3>1
    <3> QED BY <1>1, <1>6, <1>7, <1>12, <3>2, FrontGoesOn
  <2> QED BY <1>9, <2>2, <2>3
<1>13. CASE d = SUPPORTED_OCS /\ Resolves(t, d, oc)
  <2>1. oc \in Stored.content.supported /\ oc \notin Stored.resolved /\ Passes(t)
    BY <1>13 DEF Resolves, Stored
  <2>2. Stored.content.supported \cap Before(i) \subseteq Stored.resolved
    BY <1>1, <1>13 DEF DictsInWork, Stored
  <2>3. Stored.resolved = Stored.content.supported \cap Before(i)
    <3>1. CASE Stored.resolved = {}
      BY <2>2, <3>1
    <3>2. CASE \E u \in Threads : /\ thread[u].pc = "slot"
                                  /\ Stored.resolved = Stored.content.supported \cap Before(thread[u].i)
      <4>1. PICK u \in Threads : /\ thread[u].pc = "slot"
                                 /\ Stored.resolved = Stored.content.supported \cap Before(thread[u].i)
        BY <3>2
      <4>2. thread[u].i \in 1 .. Len(Order) /\ Len(Order) \in Nat
        BY <4>1, SlotIn
      <4>3. oc \notin Before(thread[u].i)
        BY <2>1, <4>1
      <4>4. i < thread[u].i => oc \in Before(thread[u].i)
        BY <1>1, <4>2, BeforeNext
      <4>5. thread[u].i <= i
        BY <1>1, <4>2, <4>3, <4>4
      <4>6. Before(thread[u].i) \subseteq Before(i)
        BY <1>1, <4>2, <4>5, BeforeNext
      <4> QED BY <2>2, <4>1, <4>6
    <3>3. CASE Stored.resolved = Stored.content.supported
      BY <2>1, <3>3
    <3> QED BY <3>1, <3>2, <3>3 DEF AtWork
  <2>4. Before(i + 1) = Before(i) \cup {oc}
    BY <1>1, BeforeNext
  <2>5. Stored'.resolved = Stored.resolved \cup {oc}
    <3>1. dicts'[d].resolved = dicts[d].resolved \cup {oc}
      BY <1>1, <1>13, ResolvedDict DEF Resolves
    <3> QED BY <1>1, <1>13, <3>1 DEF Stored
  <2>6. Stored'.resolved = Stored'.content.supported \cap Before(i + 1)
    BY <1>7, <2>1, <2>3, <2>4, <2>5
  <2> QED BY <1>1, <1>6, <1>7, <1>13, <2>1, <2>6, FrontGoesOn
<1> QED BY <1>2, <1>10, <1>11, <1>12, <1>13

LEMMA WillGetIgnored ==
    ASSUME OcTypes, WillBeReloaded, NEW t \in Threads, GetIgnored(t)
    PROVE  WillBeReloaded'
<1>1. /\ thread[t].pc = "getIgnored" /\ Goes(t, "storeIgnored") /\ thread'[t].i = cfg.edit
      /\ UNCHANGED <<cfg, dicts, SUPPORTED_OCS, IGNORED_OCS>>
  BY GetIgnoredEffect
<1>2. WillBeReloaded' \/ (StoredIsLast /\ AtWork)
  BY <1>1, OthersWill
<1> SUFFICES ASSUME StoredIsLast, AtWork PROVE WillBeReloaded'
  BY <1>2
<1>3. CASE AtWorkBut(t)
  BY <1>1, <1>3, OtherGoesOn DEF Stored
<1>4. CASE ~AtWorkBut(t)
  <2>1. Stored.resolved = Stored.content.supported
    BY <1>1, <1>4 DEF AtWork, AtWorkBut
  <2>2. StoredIsLast' /\ Stored'.resolved = Stored'.content.supported
    BY <1>1, <2>1 DEF StoredIsLast, Stored
  <2>3. thread'[t].pc = "storeIgnored" /\ thread'[t].i = cfg'.edit
    BY <1>1 DEF Goes
  <2>4. AtWork'
    BY <2>2, <2>3 DEF AtWork
  <2> QED BY <2>2, <2>4, WillAfter
<1> QED BY <1>3, <1>4

LEMMA StoresLast ==
    ASSUME OcTypes, ReadsAreOld, NEW t \in Threads, StoreIgnored(t), ~overtaken'
    PROVE  IGNORED_OCS' = cfg.content.ignored /\ thread[t].ignored = cfg.content.ignored
<1>1. thread[t].pc = "storeIgnored" /\ ~(thread[t].i < cfg.edit) /\ IGNORED_OCS' = thread[t].ignored
  BY StoreIgnoredEffect
<1>2. thread[t].i \in Nat /\ cfg.edit \in Nat /\ thread[t].i <= cfg.edit
  BY <1>1, ReadsNums DEF ReadsAreOld
<1>3. thread[t].i = cfg.edit
  BY <1>1, <1>2
<1> QED BY <1>1, <1>3 DEF ReadsAreOld

LEMMA WillStoreIgnored ==
    ASSUME OcTypes, ReadsAreOld, WillBeReloaded, NEW t \in Threads, StoreIgnored(t), ~overtaken'
    PROVE  WillBeReloaded'
<1>1. PICK p \in {"refused", "dispatch"} : Goes(t, p)
  BY StoreIgnoredEffect
<1>2. thread[t].pc = "storeIgnored" /\ UNCHANGED <<cfg, dicts, SUPPORTED_OCS>>
  BY StoreIgnoredEffect
<1>3. WillBeReloaded' \/ (StoredIsLast /\ AtWork)
  BY <1>1, <1>2, OthersWill
<1> SUFFICES ASSUME StoredIsLast, AtWork PROVE WillBeReloaded'
  BY <1>3
<1>4. IGNORED_OCS' = cfg.content.ignored
  BY StoresLast
<1>5. CASE AtWorkBut(t)
  BY <1>1, <1>2, <1>4, <1>5, OtherGoesOn DEF Stored
<1>6. CASE ~AtWorkBut(t)
  <2>1. Stored.resolved = Stored.content.supported
    BY <1>2, <1>6 DEF AtWork, AtWorkBut
  <2>2. StoredIsLast' /\ Stored'.resolved = Stored'.content.supported
    BY <1>2, <2>1 DEF StoredIsLast, Stored
  <2>3. AtWork'
    BY <1>2, <1>4, <2>2 DEF AtWork
  <2> QED BY <2>2, <2>3, WillAfter
<1> QED BY <1>5, <1>6

LEMMA WillStep ==
    ASSUME OcTypes, ReadsAreOld, DictsInWork, SomebodyReloads, [OcNext]_ocVars
    PROVE  SomebodyReloads'
<1> SUFFICES ASSUME cfg'.edit > 0, Correct(cfg'.content), ~overtaken' PROVE WillBeReloaded'
  BY DEF SomebodyReloads, Correct
<1>1. ASSUME NEW t \in Threads, Load(t) PROVE WillBeReloaded'
  <2>1. thread'[t].pc = "get"
    BY <1>1, LoadEffect DEF Goes
  <2> QED BY <2>1, WillAfter
<1>2. ASSUME cfg' = cfg, ~overtaken PROVE WillBeReloaded /\ Correct(cfg.content)
  BY <1>2 DEF SomebodyReloads
<1>3. CASE UNCHANGED ocVars
  BY <1>2, <1>3, WillIfSame DEF ocVars
<1>4. ASSUME NEW c \in Contents, Edit(c) PROVE WillBeReloaded'
  BY <1>2, <1>4, EditEffect, WillIfSame
<1>5. ASSUME NEW t \in Threads, NEW oc \in Ocs, Receive(t, oc) PROVE WillBeReloaded'
  <2>1. thread[t].pc \notin Working
    BY <1>5, ReceiveEffect DEF Working, Outcomes
  <2> QED BY <1>2, <1>5, <2>1, ReceiveEffect, WillIfSame
<1>6. ASSUME NEW t \in Threads, Check(t) PROVE WillBeReloaded'
  <2>1. \A u \in Threads : thread[u].pc \in Working =>
           thread'[u].pc = thread[u].pc /\ thread'[u].dict = thread[u].dict /\ thread'[u].i = thread[u].i
    BY <1>6, CheckEffect DEF Goes, Others, Working
  <2> QED BY <1>2, <1>6, <2>1, CheckEffect, WillIfSame
<1>7. ASSUME NEW t \in Threads, Dispatch(t) PROVE WillBeReloaded'
  <2>1. \A u \in Threads : thread[u].pc \in Working =>
           thread'[u].pc = thread[u].pc /\ thread'[u].dict = thread[u].dict /\ thread'[u].i = thread[u].i
    BY <1>7, DispatchEffect DEF Goes, Others, Working
  <2> QED BY <1>2, <1>7, <2>1, DispatchEffect, WillIfSame
<1>8. ASSUME NEW t \in Threads, Process(t) PROVE WillBeReloaded'
  <2>1. \A u \in Threads : thread[u].pc \in Working =>
           thread'[u].pc = thread[u].pc /\ thread'[u].dict = thread[u].dict /\ thread'[u].i = thread[u].i
    BY <1>8, ProcessEffect DEF Goes, Others, Working
  <2> QED BY <1>2, <1>8, <2>1, ProcessEffect, WillIfSame
<1>9. ASSUME NEW t \in Threads, Get(t) PROVE WillBeReloaded'
  BY <1>2, <1>9, GetEffect, WillGet
<1>10. ASSUME NEW t \in Threads, Store(t) PROVE WillBeReloaded'
  BY <1>2, <1>10, StoreEffect, WillStore
<1>11. ASSUME NEW t \in Threads, Iterate(t) PROVE WillBeReloaded'
  BY <1>2, <1>11, IterateEffect, WillIterate
<1>12. ASSUME NEW t \in Threads, Slot(t) PROVE WillBeReloaded'
  BY <1>2, <1>12, SlotEffect, WillSlot
<1>13. ASSUME NEW t \in Threads, GetIgnored(t) PROVE WillBeReloaded'
  BY <1>2, <1>13, GetIgnoredEffect, WillGetIgnored
<1>14. ASSUME NEW t \in Threads, StoreIgnored(t) PROVE WillBeReloaded'
  BY <1>2, <1>14, StoreIgnoredEffect, WillStoreIgnored
<1> QED
  BY <1>1, <1>3, <1>4, <1>5, <1>6, <1>7, <1>8, <1>9, <1>10, <1>11, <1>12, <1>13, <1>14 DEF OcNext, Handle

-----------------------------------------------------------------------------
(* What a calm thread has read. *)
Treated(t) ==
    /\ thread[t].pc = "processed" => thread[t].oc \in file.content.supported
    /\ thread[t].pc \in {"ignored", "refused", "dead"} => thread[t].oc \notin file.content.supported
    /\ thread[t].pc = "refused" => thread[t].oc \notin file.content.ignored

LEMMA CalmSame ==
    ASSUME NEW t \in Threads, UNCHANGED <<file, cfg, dicts, SUPPORTED_OCS, IGNORED_OCS>>,
           thread'[t].pc = thread[t].pc, thread'[t].oc = thread[t].oc, thread'[t].dict = thread[t].dict,
           thread'[t].i = thread[t].i, HasRead(t), Treated(t)
    PROVE  HasRead(t)' /\ Treated(t)'
<1>1. Treated(t)'
  BY DEF Treated
<1>2. Stored' = Stored
  BY DEF Stored
<1>3. Reloaded => Reloaded'
  BY <1>2 DEF Reloaded
<1>4. thread[t].pc = "slot" => Before(thread[t].i) = Before(thread'[t].i)
  OBVIOUS
<1>5. HasRead(t)'
  BY <1>2, <1>3, <1>4 DEF HasRead, Before
<1> QED BY <1>1, <1>5

LEMMA HandleGoes ==
    ASSUME OcTypes, NEW t \in Threads, Handle(t)
    PROVE  /\ file' = file
           /\ \E p \in Places : /\ Goes(t, p)
                                /\ ~Reloading(t) => p \notin Working
<1>1. CASE Check(t)
  BY <1>1, CheckEffect DEF Working, Places, Outcomes
<1>2. CASE Load(t)
  BY <1>2, LoadEffect DEF Reloading, Places, Working
<1>3. CASE Get(t)
  BY <1>3, GetEffect DEF Reloading, Places, Working
<1>4. CASE Store(t)
  BY <1>4, StoreEffect DEF Reloading, Places, Working
<1>5. CASE Iterate(t)
  BY <1>5, IterateEffect DEF Reloading, Places, Working, Outcomes
<1>6. CASE Slot(t)
  BY <1>6, SlotEffect DEF Passes, Resolves, Reloading, Places, Working, Outcomes
<1>7. CASE GetIgnored(t)
  BY <1>7, GetIgnoredEffect DEF Reloading, Places, Working
<1>8. CASE StoreIgnored(t)
  BY <1>8, StoreIgnoredEffect DEF Reloading, Places, Working, Outcomes
<1>9. CASE Dispatch(t)
  BY <1>9, DispatchEffect DEF Working, Places, Outcomes
<1>10. CASE Process(t)
  BY <1>10, ProcessEffect DEF Working, Places, Outcomes
<1> QED BY <1>1, <1>2, <1>3, <1>4, <1>5, <1>6, <1>7, <1>8, <1>9, <1>10 DEF Handle

\* Who else is at work.
LEMMA AloneStep ==
    ASSUME OcTypes, [OcNext]_ocVars, NEW t \in Threads, thread'[t].calm, thread[t].calm => Alone(t)
    PROVE  Alone(t)'
<1>1. CASE UNCHANGED ocVars
  BY <1>1 DEF ocVars, Alone, Correct
<1>2. ASSUME NEW c \in Contents, Edit(c) PROVE FALSE
  BY <1>2, EditEffect
<1>3. ASSUME NEW u \in Threads, NEW oc \in Ocs, Receive(u, oc) PROVE Alone(t)'
  <2>1. file' = file /\ thread'[u].pc = "check" /\ \A w \in Threads \ {u} : thread'[w] = thread[w]
    BY <1>3, ReceiveEffect
  <2>2. CASE u = t
    BY <1>3, <2>1, <2>2, ReceiveEffect DEF Alone, Reloading, Working, Correct
  <2>3. CASE u # t
    BY <2>1, <2>3 DEF Alone, Working, Correct
  <2> QED BY <2>2, <2>3
<1>4. ASSUME NEW u \in Threads, Handle(u) PROVE Alone(t)'
  <2>1. PICK p \in Places : Goes(u, p) /\ (~Reloading(u) => p \notin Working)
    BY <1>4, HandleGoes
  <2>2. file' = file
    BY <1>4, HandleGoes
  <2>3. CASE u = t
    BY <2>1, <2>2, <2>3 DEF Alone, Goes, Others, Correct
  <2>4. CASE u # t
    BY <2>1, <2>2, <2>4 DEF Alone, Goes, Others, Correct
  <2> QED BY <2>3, <2>4
<1> QED BY <1>1, <1>2, <1>3, <1>4 DEF OcNext

\* A calm thread that has read the file.
LEMMA CalmFacts ==
    ASSUME OcTypes, ReadsAreOld, NEW t \in Threads, Alone(t), HasRead(t),
           thread[t].pc \in Working \cup {"dispatch", "process"}
    PROVE  /\ cfg.edit = file.edit /\ cfg.content = file.content /\ Correct(cfg.content)
           /\ StoredIsLast => /\ Stored.content = file.content /\ Stored.content.supported \subseteq Ocs
                              /\ SUPPORTED_OCS \in 1 .. Len(dicts) /\ Stored.content.bad = {}
<1>1. cfg.edit = file.edit
  BY DEF HasRead
<1>2. cfg.content = file.content
  BY <1>1 DEF ReadsAreOld
<1>3. Correct(cfg.content)
  BY <1>2 DEF Alone
<1> QED BY <1>1, <1>2, <1>3, StoredTypes DEF Correct

\* With none at work, what should be reloaded is.
LEMMA NobodyWorks ==
    ASSUME SomebodyReloads, cfg.edit > 0, Correct(cfg.content), ~overtaken,
           \A u \in Threads : thread[u].pc \notin Working
    PROVE  Reloaded
<1>1. WillBeReloaded
  BY DEF SomebodyReloads
<1> QED BY <1>1 DEF WillBeReloaded, Working

\* Only some places ask what the thread has read.
LEMMA HasReadIf ==
    ASSUME NEW t \in Threads, thread'[t].pc \in {"check", "load"}
    PROVE  HasRead(t)' /\ Treated(t)'
  BY DEF HasRead, Treated, Working

LEMMA CalmCheck ==
    ASSUME OcTypes, ReadsAreOld, SomebodyReloads, NEW t \in Threads, Alone(t), ~overtaken, Check(t)
    PROVE  HasRead(t)' /\ Treated(t)'
<1>1. /\ thread[t].pc = "check" /\ Goes(t, IF NeedsReload THEN "load" ELSE "dispatch")
      /\ UNCHANGED <<file, cfg, dicts, SUPPORTED_OCS, IGNORED_OCS, overtaken>>
  BY CheckEffect
<1>2. CASE NeedsReload
  <2>1. thread'[t].pc = "load"
    BY <1>1, <1>2 DEF Goes
  <2> QED BY <2>1, HasReadIf
<1>3. CASE ~NeedsReload
  <2>1. thread'[t].pc = "dispatch"
    BY <1>1, <1>3 DEF Goes
  <2>2. cfg.edit = file.edit /\ cfg.edit > 0
    BY <1>3, ReadsNums DEF NeedsReload, Modified, ReadsAreOld
  <2>3. Correct(cfg.content)
    BY <2>2 DEF ReadsAreOld, Alone
  <2>4. \A u \in Threads : thread[u].pc \notin Working
    BY <1>1 DEF Alone, Working
  <2>5. Reloaded
    BY <2>2, <2>3, <2>4, NobodyWorks
  <2>6. Reloaded'
    BY <1>1, <2>5 DEF Reloaded, Stored
  <2>7. HasRead(t)'
    BY <1>1, <2>1, <2>2, <2>6 DEF HasRead, Working
  <2> QED BY <2>1, <2>7 DEF Treated
<1> QED BY <1>2, <1>3

LEMMA CalmLoad ==
    ASSUME OcTypes, NEW t \in Threads, Load(t)
    PROVE  HasRead(t)' /\ Treated(t)'
<1>1. thread'[t].pc = "get" /\ cfg' = file /\ file' = file
  BY LoadEffect DEF Goes
<1> QED BY <1>1 DEF HasRead, Treated, Working

LEMMA CalmGet ==
    ASSUME OcTypes, ReadsAreOld, NEW t \in Threads, Alone(t), HasRead(t), Get(t)
    PROVE  HasRead(t)' /\ Treated(t)'
<1>1. thread[t].pc = "get"
  BY GetEffect
<1>2. Correct(cfg.content) /\ cfg.edit = file.edit
  BY <1>1, CalmFacts DEF Working
<1>3. /\ Goes(t, "store") /\ thread'[t].dict = Len(dicts) + 1 /\ UNCHANGED <<cfg, file>>
      /\ dicts' = Append(dicts, [content |-> cfg.content, edit |-> cfg.edit, resolved |-> {}])
  BY <1>2, GetEffect DEF Correct
<1>4. Len(dicts) \in Nat /\ dicts'[Len(dicts) + 1].edit = cfg.edit
  BY <1>3, NewDict
<1>5. thread'[t].pc = "store" /\ thread'[t].dict # 0 /\ dicts'[thread'[t].dict].edit = cfg'.edit
  BY <1>3, <1>4 DEF Goes
<1> QED BY <1>2, <1>3, <1>5 DEF HasRead, Treated

LEMMA CalmStore ==
    ASSUME OcTypes, ReadsAreOld, DictsInWork, NEW t \in Threads, HasRead(t), Store(t)
    PROVE  HasRead(t)' /\ Treated(t)'
<1>1. /\ thread[t].pc = "store" /\ SUPPORTED_OCS' = thread[t].dict /\ thread'[t].pc = "iterate"
      /\ UNCHANGED <<file, cfg, dicts>>
  BY StoreEffect DEF Goes
<1>2. cfg.edit = file.edit /\ thread[t].dict # 0 /\ dicts[thread[t].dict].edit = cfg.edit
  BY <1>1 DEF HasRead, Working
<1>3. dicts[thread[t].dict].resolved = {}
  BY <1>1, <1>2 DEF DictsInWork
<1>4. SUPPORTED_OCS' # 0 /\ Stored'.edit = cfg'.edit /\ Stored'.resolved = {} /\ cfg'.edit = file'.edit
  BY <1>1, <1>2, <1>3 DEF Stored
<1> QED BY <1>1, <1>4 DEF HasRead, Treated

LEMMA CalmIterate ==
    ASSUME OcTypes, NEW t \in Threads, HasRead(t), Iterate(t)
    PROVE  HasRead(t)' /\ Treated(t)'
<1>1. thread[t].pc = "iterate" /\ UNCHANGED <<file, cfg, dicts, SUPPORTED_OCS>>
  BY IterateEffect
<1>2. cfg.edit = file.edit /\ SUPPORTED_OCS # 0 /\ Stored.edit = cfg.edit /\ Stored.resolved = {}
  BY <1>1 DEF HasRead, Working
<1>3. thread'[t].pc = "slot" /\ thread'[t].dict = SUPPORTED_OCS /\ thread'[t].i = 1
  BY <1>2, IterateEffect DEF Goes
<1>4. Before(1) = {}
  BY DEF Before
<1>5. Stored' = Stored
  BY <1>1 DEF Stored
<1>6. Stored'.resolved = Stored'.content.supported \cap Before(thread'[t].i)
  BY <1>2, <1>3, <1>4, <1>5
<1> QED BY <1>1, <1>2, <1>3, <1>5, <1>6 DEF HasRead, Treated, Before

LEMMA CalmSlot ==
    ASSUME OcTypes, ReadsAreOld, DictsInWork, NEW t \in Threads, Alone(t), HasRead(t), Slot(t)
    PROVE  HasRead(t)' /\ Treated(t)'
<1> DEFINE d == thread[t].dict
           i == thread[t].i
           oc == Order[i]
<1>1. /\ thread[t].pc = "slot" /\ d \in 1 .. Len(dicts) /\ i \in 1 .. Len(Order) /\ oc \in Ocs
      /\ UNCHANGED <<file, cfg, SUPPORTED_OCS>>
  BY SlotEffect, SlotIn
<1>2. /\ cfg.edit = file.edit /\ StoredIsLast /\ d = SUPPORTED_OCS
      /\ Stored.resolved = Stored.content.supported \cap Before(i)
  BY <1>1 DEF HasRead, Working, StoredIsLast
<1>3. Stored.content.bad = {} /\ Stored.content.supported \subseteq Ocs
  BY <1>1, <1>2, CalmFacts DEF Working
<1>4. oc \notin Before(i) /\ Before(i + 1) = Before(i) \cup {oc} /\ (i = Len(Order) => Before(i + 1) = Ocs)
  BY <1>1, BeforeNext
<1>5. /\ Passes(t)
      /\ \/ oc \notin Stored.content.supported /\ dicts' = dicts
         \/ Resolves(t, d, oc)
  <2>1. oc \notin Stored.content.bad \cup Stored.resolved
    BY <1>2, <1>3, <1>4
  <2>2. Stored = dicts[d]
    BY <1>2 DEF Stored
  <2>3. \/ /\ oc \notin dicts[d].content.supported /\ Passes(t) /\ dicts' = dicts
        \/ Resolves(t, d, oc)
    BY <2>1, <2>2, SlotEffect
  <2> QED BY <2>2, <2>3 DEF Resolves
<1>6. /\ Stored'.content = Stored.content /\ Stored'.edit = Stored.edit
      /\ Stored'.resolved = Stored.content.supported \cap Before(i + 1)
  <2>1. CASE oc \notin Stored.content.supported /\ dicts' = dicts
    <3>1. Stored' = Stored
      BY <1>1, <2>1 DEF Stored
    <3> QED BY <1>2, <1>4, <2>1, <3>1
  <2>2. CASE Resolves(t, d, oc)
    <3>1. /\ dicts'[d].content = dicts[d].content /\ dicts'[d].edit = dicts[d].edit
          /\ dicts'[d].resolved = dicts[d].resolved \cup {oc}
      BY <1>1, <2>2, ResolvedDict DEF Resolves
    <3>2. Stored' = dicts'[d] /\ Stored = dicts[d]
      BY <1>1, <1>2 DEF Stored
    <3>3. oc \in Stored.content.supported
      BY <2>2, <3>2 DEF Resolves
    <3> HIDE DEF d, i, oc
    <3> QED BY <1>2, <1>4, <3>1, <3>2, <3>3
  <2> QED BY <1>5, <2>1, <2>2
<1>7. cfg'.edit = file'.edit /\ SUPPORTED_OCS' # 0 /\ Stored'.edit = cfg'.edit
  BY <1>1, <1>2, <1>6 DEF StoredIsLast
<1>8. CASE i = Len(Order) /\ Goes(t, "getIgnored")
  <2>1. thread'[t].pc = "getIgnored"
    BY <1>8 DEF Goes
  <2>2. Stored'.resolved = Stored'.content.supported
    BY <1>3, <1>4, <1>6, <1>8
  <2> QED BY <1>7, <2>1, <2>2 DEF HasRead, Treated
<1>9. CASE i # Len(Order) /\ Goes(t, "slot") /\ thread'[t].i = i + 1
  <2>1. thread'[t].pc = "slot" /\ thread'[t].dict = SUPPORTED_OCS'
    BY <1>1, <1>2, <1>5, <1>9 DEF Goes, Passes
  <2>2. Stored'.resolved = Stored'.content.supported \cap Before(thread'[t].i)
    BY <1>6, <1>9
  <2> QED BY <1>7, <2>1, <2>2 DEF HasRead, Treated, Before
<1> QED BY <1>5, <1>8, <1>9 DEF Passes

LEMMA CalmGetIgnored ==
    ASSUME OcTypes, NEW t \in Threads, HasRead(t), GetIgnored(t)
    PROVE  HasRead(t)' /\ Treated(t)'
<1>1. /\ thread[t].pc = "getIgnored" /\ thread'[t].pc = "storeIgnored" /\ thread'[t].i = cfg.edit
      /\ UNCHANGED <<file, cfg, dicts, SUPPORTED_OCS>>
  BY GetIgnoredEffect DEF Goes
<1>2. /\ cfg.edit = file.edit /\ SUPPORTED_OCS # 0 /\ Stored.edit = cfg.edit
      /\ Stored.resolved = Stored.content.supported
  BY <1>1 DEF HasRead, Working
<1>3. Stored' = Stored
  BY <1>1 DEF Stored
<1> QED BY <1>1, <1>2, <1>3 DEF HasRead, Treated

LEMMA CalmStoreIgnored ==
    ASSUME OcTypes, ReadsAreOld, NEW t \in Threads, Alone(t), HasRead(t), StoreIgnored(t), ~overtaken'
    PROVE  HasRead(t)' /\ Treated(t)'
<1>1. thread[t].pc = "storeIgnored" /\ UNCHANGED <<file, cfg, dicts, SUPPORTED_OCS>>
  BY StoreIgnoredEffect
<1>2. /\ cfg.edit = file.edit /\ SUPPORTED_OCS # 0 /\ Stored.edit = cfg.edit
      /\ Stored.resolved = Stored.content.supported
  BY <1>1 DEF HasRead, Working
<1>3. IGNORED_OCS' = cfg.content.ignored /\ thread[t].ignored = cfg.content.ignored
  BY StoresLast
<1>4. cfg.content.ignored # NotAList
  BY <1>1, CalmFacts DEF Working, Correct
<1>5. thread'[t].pc = "dispatch"
  BY <1>3, <1>4, StoreIgnoredEffect DEF Goes
<1>6. Reloaded' /\ cfg'.edit = file'.edit
  BY <1>1, <1>2, <1>3 DEF Reloaded, Stored
<1> QED BY <1>5, <1>6 DEF HasRead, Treated

LEMMA CalmDispatch ==
    ASSUME OcTypes, ReadsAreOld, NEW t \in Threads, Alone(t), HasRead(t), Dispatch(t)
    PROVE  HasRead(t)' /\ Treated(t)'
<1>1. thread[t].pc = "dispatch" /\ UNCHANGED <<file, cfg, dicts, SUPPORTED_OCS, IGNORED_OCS>>
  BY DispatchEffect
<1>2. cfg.edit = file.edit /\ Reloaded
  BY <1>1 DEF HasRead
<1>3. cfg.content = file.content /\ Stored.content = file.content
  BY <1>1, <1>2, CalmFacts DEF Reloaded, StoredIsLast
<1>4. Reloaded'
  BY <1>1, <1>2 DEF Reloaded, Stored
<1>5. CASE thread[t].oc \in Stored.content.supported /\ Goes(t, "process")
  <2>1. thread'[t].pc = "process" /\ thread'[t].oc \in file'.content.supported
    BY <1>1, <1>3, <1>5 DEF Goes
  <2> QED BY <1>1, <1>2, <1>4, <2>1 DEF HasRead, Treated, Working
<1>6. CASE /\ thread[t].oc \notin Stored.content.supported
           /\ \E p \in {"dead", "ignored", "refused"} :
                 Goes(t, p) /\ (p = "refused" => thread[t].oc \notin IGNORED_OCS)
  <2>1. PICK p \in {"dead", "ignored", "refused"} :
                 Goes(t, p) /\ (p = "refused" => thread[t].oc \notin IGNORED_OCS)
    BY <1>6
  <2>2. thread'[t].pc = p /\ thread'[t].oc = thread[t].oc
    BY <2>1 DEF Goes
  <2>3. IGNORED_OCS = file'.content.ignored /\ thread[t].oc \notin file'.content.supported
    BY <1>1, <1>2, <1>3, <1>6 DEF Reloaded
  <2>4. HasRead(t)'
    BY <2>2 DEF HasRead, Working
  <2>5. Treated(t)'
    BY <2>1, <2>2, <2>3 DEF Treated
  <2> QED BY <2>4, <2>5
<1> QED BY <1>2, <1>5, <1>6, DispatchEffect DEF Reloaded

LEMMA CalmProcess ==
    ASSUME OcTypes, ReadsAreOld, NEW t \in Threads, Alone(t), HasRead(t), Process(t)
    PROVE  HasRead(t)' /\ Treated(t)'
<1>1. thread[t].pc = "process" /\ UNCHANGED <<file, cfg, dicts, SUPPORTED_OCS, IGNORED_OCS>>
  BY ProcessEffect
<1>2. Reloaded /\ thread[t].oc \in file.content.supported
  BY <1>1 DEF HasRead
<1>3. Stored.content = file.content
  BY <1>1, <1>2, CalmFacts DEF Reloaded, StoredIsLast
<1>4. thread[t].oc \in Stored.resolved /\ SUPPORTED_OCS # 0
  BY <1>2, <1>3 DEF Reloaded
<1>5. thread'[t].pc = "processed" /\ thread'[t].oc \in file'.content.supported
  BY <1>1, <1>2, <1>4, ProcessEffect DEF Goes
<1> QED BY <1>5 DEF HasRead, Treated, Working

LEMMA CalmStep ==
    ASSUME OcTypes, ReadsAreOld, DictsInWork, SomebodyReloads, CalmIsRight, TreatedAsConfigured, [OcNext]_ocVars
    PROVE  CalmIsRight' /\ TreatedAsConfigured'
<1>0. \A t \in Threads : thread[t].calm => /\ Alone(t)
                                           /\ ~overtaken => HasRead(t) /\ Treated(t)
  BY DEF CalmIsRight, TreatedAsConfigured, Treated
<1>1. SUFFICES ASSUME NEW t \in Threads, thread'[t].calm
               PROVE  Alone(t)' /\ (~overtaken' => HasRead(t)' /\ Treated(t)')
  BY <1>1 DEF CalmIsRight, TreatedAsConfigured, Treated, HasRead, Alone, Correct, Before
<1>2. Alone(t)'
  BY <1>0, <1>1, AloneStep
<1> SUFFICES ASSUME ~overtaken' PROVE HasRead(t)' /\ Treated(t)'
  BY <1>2
<1>3. CASE UNCHANGED ocVars
  <2>1. thread[t].calm /\ ~overtaken
    BY <1>1, <1>3 DEF ocVars
  <2>2. HasRead(t) /\ Treated(t)
    BY <1>0, <2>1
  <2> QED BY <1>3, <2>2, CalmSame DEF ocVars
<1>4. ASSUME NEW c \in Contents, Edit(c) PROVE FALSE
  BY <1>1, <1>4, EditEffect
<1>5. ASSUME NEW u \in Threads, NEW oc \in Ocs, Receive(u, oc) PROVE HasRead(t)' /\ Treated(t)'
  <2>1. CASE u = t
    BY <1>5, <2>1, ReceiveEffect, HasReadIf
  <2>2. CASE u # t
    <3>1. thread'[t] = thread[t] /\ UNCHANGED <<file, cfg, dicts, SUPPORTED_OCS, IGNORED_OCS, overtaken>>
      BY <1>5, <2>2, ReceiveEffect
    <3>2. HasRead(t) /\ Treated(t)
      BY <1>0, <1>1, <3>1
    <3> QED BY <3>1, <3>2, CalmSame
  <2> QED BY <2>1, <2>2
<1>6. ASSUME NEW u \in Threads \ {t}, Handle(u) PROVE HasRead(t)' /\ Treated(t)'
  <2>1. PICK p \in Places : Goes(u, p)
    BY <1>6, HandleGoes
  <2>2. /\ thread'[t].pc = thread[t].pc /\ thread'[t].oc = thread[t].oc /\ thread'[t].dict = thread[t].dict
        /\ thread'[t].i = thread[t].i /\ thread[t].calm /\ ~Reloading(u)
    BY <1>1, <2>1 DEF Goes, Others
  <2>3. Check(u) \/ Dispatch(u) \/ Process(u)
    BY <1>6, <2>2 DEF Handle, Reloading, Load, Get, Store, Iterate, Slot, GetIgnored, StoreIgnored
  <2>4. UNCHANGED <<file, cfg, dicts, SUPPORTED_OCS, IGNORED_OCS, overtaken>>
    BY <2>3 DEF Check, Dispatch, Process
  <2>5. HasRead(t) /\ Treated(t)
    BY <1>0, <2>2, <2>4
  <2> QED BY <2>2, <2>4, <2>5, CalmSame
<1>7. ASSUME Handle(t) PROVE HasRead(t)' /\ Treated(t)'
  <2>1. PICK p \in Places : Goes(t, p)
    BY <1>7, HandleGoes
  <2>2. thread[t].calm
    BY <1>1, <2>1 DEF Goes
  <2>3. ~overtaken
    <3>1. CASE Store(t)
      BY <3>1, StoreEffect
    <3>2. CASE StoreIgnored(t)
      BY <3>2, StoreIgnoredEffect
    <3>3. CASE ~Store(t) /\ ~StoreIgnored(t)
      BY <1>7, <3>3 DEF Handle, Check, Load, Get, Iterate, Slot, GetIgnored, Dispatch, Process
    <3> QED BY <3>1, <3>2, <3>3
  <2>4. Alone(t) /\ HasRead(t)
    BY <1>0, <2>2, <2>3
  <2>5. CASE Check(t)
    BY <2>3, <2>4, <2>5, CalmCheck
  <2>6. CASE Load(t)
    BY <2>6, CalmLoad
  <2>7. CASE Get(t)
    BY <2>4, <2>7, CalmGet
  <2>8. CASE Store(t)
    BY <2>4, <2>8, CalmStore
  <2>9. CASE Iterate(t)
    BY <2>4, <2>9, CalmIterate
  <2>10. CASE Slot(t)
    BY <2>4, <2>10, CalmSlot
  <2>11. CASE GetIgnored(t)
    BY <2>4, <2>11, CalmGetIgnored
  <2>12. CASE StoreIgnored(t)
    BY <2>4, <2>12, CalmStoreIgnored
  <2>13. CASE Dispatch(t)
    BY <2>4, <2>13, CalmDispatch
  <2>14. CASE Process(t)
    BY <2>4, <2>14, CalmProcess
  <2> QED
    BY <1>7, <2>5, <2>6, <2>7, <2>8, <2>9, <2>10, <2>11, <2>12, <2>13, <2>14 DEF Handle
<1> QED BY <1>3, <1>4, <1>5, <1>6, <1>7 DEF OcNext

-----------------------------------------------------------------------------
(* The invariant. *)
LEMMA OcStarts == OcInit => OcInv
<1> SUFFICES ASSUME OcInit PROVE OcInv
  OBVIOUS
<1>1. file \in [content : Contents, edit : {1}] /\ cfg = [content |-> file.content, edit |-> 0]
  BY DEF OcInit
<1>2. file.content \in Contents /\ file.edit = 1 /\ cfg.edit = 0
  BY <1>1
<1>3. NoRequest \in Requests /\ NoRequest.pc = "idle" /\ NoRequest.dict = 0 /\ ~NoRequest.calm
  BY DEF NoRequest, Requests, Places, Ignorable
<1>4. thread \in [Threads -> Requests] /\ \A t \in Threads : thread[t] = NoRequest
  BY <1>3 DEF OcInit
<1>5. Len(dicts) = 0 /\ dicts \in Seq([content : Contents, edit : Nat, resolved : SUBSET Ocs])
  BY DEF OcInit
<1>6. OcTypes
  <2>1. file \in [content : Contents, edit : Nat \ {0}]
    BY <1>1
  <2>2. cfg \in [content : Contents, edit : Nat]
    BY <1>1, <1>2
  <2>0. Len(dicts) = 0 /\ SUPPORTED_OCS = 0
    BY <1>5 DEF OcInit
  <2>3. SUPPORTED_OCS \in 0 .. Len(dicts)
    BY <2>0
  <2>6. overtaken \in BOOLEAN
    BY Zenon DEF OcInit
  <2>5. \A t \in Threads : thread[t].dict = 0
    BY <1>3, <1>4, Zenon
  <2>7. 0 <= Len(dicts)
    BY <2>0
  <2>4. \A t \in Threads : thread[t].dict <= Len(dicts)
    BY <2>5, <2>7, Zenon
  <2> QED BY <1>4, <1>5, <2>1, <2>2, <2>3, <2>4, <2>6 DEF OcTypes
<1>7. ReadsAreOld
  BY <1>2, <1>3, <1>4, <1>5 DEF ReadsAreOld, Working
<1>8. DictsInWork
  BY <1>3, <1>4 DEF DictsInWork
<1>9. SomebodyReloads /\ CalmIsRight /\ TreatedAsConfigured
  BY <1>2, <1>3, <1>4 DEF SomebodyReloads, CalmIsRight, TreatedAsConfigured
<1> QED BY <1>6, <1>7, <1>8, <1>9 DEF OcInv

LEMMA OcSteps == OcInv /\ [OcNext]_ocVars => OcInv'
  BY OcTypesStep, ReadsStep, DictsStep, WillStep, CalmStep DEF OcInv

\* What a thread reads is never newer than the file, a dictionary that is not stored yet belongs
\* to one thread, and a reload of the last config is complete or a thread will complete it
\* (BssServer.py, reload_oc_config()).
THEOREM OcInvariant == OcSpec => []OcInv
<1>1. OcInit => OcInv
  BY OcStarts
<1>2. OcInv /\ [OcNext]_ocVars => OcInv'
  BY OcSteps
<1> QED BY <1>1, <1>2, PTL DEF OcSpec

\* A notification that finds a correct file, and whose thread no other reload disturbs, is
\* treated as the file says (BssServer.py, reload_oc_config() and handle_xml()).
THEOREM TreatedAsFileSays == OcSpec => []TreatedAsConfigured
<1>1. OcInv => TreatedAsConfigured
  BY DEF OcInv
<1> QED BY <1>1, OcInvariant, PTL

\* Threads that reload the same correct file refuse each other's notification, but with none at
\* work what is stored is complete and fits (BssServer.py, reload_oc_config()).
THEOREM ReloadFinishes == OcSpec => []ReloadIsFinished
<1>1. OcInv => ReloadIsFinished
  <2> SUFFICES ASSUME OcInv, \A t \in Threads : ~Reloading(t),
                      cfg.edit > 0, Correct(cfg.content), ~overtaken
               PROVE  /\ SUPPORTED_OCS # 0
                      /\ dicts[SUPPORTED_OCS].edit = cfg.edit
                      /\ dicts[SUPPORTED_OCS].resolved = cfg.content.supported
                      /\ IGNORED_OCS = cfg.content.ignored
    BY DEF ReloadIsFinished
  <2>1. OcTypes /\ ReadsAreOld /\ SomebodyReloads
    BY DEF OcInv
  <2>2. \A t \in Threads : thread[t].pc \notin Working
    BY DEF Reloading, Working
  <2>3. Reloaded
    BY <2>1, <2>2, NobodyWorks
  <2>4. Stored.content = cfg.content
    BY <2>1, <2>3, StoredTypes DEF Reloaded, StoredIsLast
  <2> QED BY <2>3, <2>4 DEF Reloaded, Stored
<1> QED BY <1>1, OcInvariant, PTL
=============================================================================
