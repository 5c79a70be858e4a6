------------------------- MODULE AcuResSyncProofs -------------------------
(***************************************************************************)
(* Proofs about AcuResSync: its type invariant, and that a change of       *)
(* Acumen is sent or queued unless it fell into the window of a late       *)
(* commit; that a batch can exchange rooms in any order, and that a hotel  *)
(* keeps no reservation that has moved away; for any number of units,      *)
(* hotels, rooms and changes, and whatever Sihot answers.                  *)
(***************************************************************************)
EXTENDS AcuResSync, TLAPS

USE DEF Fault

-----------------------------------------------------------------------------
(***************************************************************************)
(* The type invariant.                                                     *)
(***************************************************************************)

\* The entry of a unit in the batch, whose fields the sends use.
LEMMA EntryType ==
    ASSUME TypeRun, NEW u \in MainSet
    PROVE  /\ u \in Units
           /\ batch[u] \in EntryRecs
           /\ batch[u].ver \in Nat /\ batch[u].date \in Nat
           /\ batch[u].hotel \in Hotels \cup {NoHotel}
           /\ batch[u].last \in Hotels \cup {NoHotel}
           /\ batch[u].room \in Rooms \cup {NoRoom}
    BY DEF TypeRun, MainSet, InBatch, EntryRecs

\* The entry that the triggers log has the date of the change.
LEMMA QueueEntryType ==
    ASSUME TypeAcu, NEW u \in Units, NEW hotel \in Hotels \cup {NoHotel}, NEW date \in Nat
    PROVE  /\ QueueEntry(u, hotel, date) \in [date : Nat, last : Hotels \cup {NoHotel}]
           /\ QueueEntry(u, hotel, date).date = date
    BY DEF TypeAcu, Rows, QueueEntry

\* What the main run or a cancellation stores has the types of the Acumen tables.
LEMMA StoreTypes ==
    ASSUME TypeAcu, TypeHist, lastFetch \in Nat,
           NEW u \in Units, NEW h \in Hotels \cup {NoHotel}, StoreAndLog(u, h)
    PROVE  TypeAcu' /\ late' \in [Units -> Nat] /\ forgotten' \subseteq Units
<1>1. clock \in Nat /\ clock + 1 \in Nat /\ ru[u] \in Rows /\ ru[u].hotel \in Hotels \cup {NoHotel}
      /\ ru[u].ver \in Nat
  BY DEF TypeAcu, Rows
<1>2. QueueEntry(u, ru[u].hotel, clock + 1) \in [date : Nat, last : Hotels \cup {NoHotel}]
  BY <1>1, QueueEntryType
<1>3. rul' \in [Units -> [date : Nat, last : Hotels \cup {NoHotel}]] /\ clock' \in Nat
  BY <1>1, <1>2 DEF StoreAndLog, TypeAcu
<1>4. ruObj' \in [Units -> Hotels \cup {NoHotel}] /\ synced' \in [Units -> Nat]
  BY DEF StoreAndLog, TypeAcu, LogDate
<1>5. late' \in [Units -> Nat]
  BY <1>1 DEF StoreAndLog, TypeHist
<1>6. forgotten' \subseteq Units
  BY DEF StoreAndLog, TypeHist
<1> QED BY <1>3, <1>4, <1>5, <1>6 DEF TypeAcu, StoreAndLog

\* A unit that is next in a pass belongs to the batch.
LEMMA NextInBatch ==
    ASSUME TypeRun, NEW u, IsNext(u)
    PROVE  u \in MainSet /\ u \in todo /\ u \in Units
    BY DEF TypeRun, IsNext, MainSet

\* A request of a run about one unit; one to a hotel that is not of Sihot changes nothing.
LEMMA ShTypes ==
    ASSUME TypeSh, NEW u \in Units, NEW h, NEW a,
           NEW ver \in Nat, NEW room \in Rooms \cup {NoRoom},
           ShUpsert(a, u, h, ver, room) \/ ShCancel(a, u, h)
    PROVE  TypeSh'
<1> DEFINE Row == [live : BOOLEAN, ver : Nat, room : Rooms \cup {NoRoom}]
           T == [Units -> Row]
<1>0. sh \in [SihotHotels -> T]
  BY DEF TypeSh
<1>9. CASE h \notin SihotHotels
  <2>1. \A r : [sh EXCEPT ![h] = r] = sh
    <3> HIDE DEF T
    <3> QED BY <1>0, <1>9
  <2>2. sh' = sh
    BY <2>1 DEF ShUpsert, ShCancel
  <2> QED BY <2>2, <1>0 DEF TypeSh
<1> SUFFICES ASSUME h \in SihotHotels PROVE TypeSh'
  BY <1>9
<1>1. sh \in [SihotHotels -> T] /\ sh[h] \in T /\ sh[h][u] \in Row
  BY <1>0
<1>2. \A r \in Row : [sh EXCEPT ![h][u] = r] \in [SihotHotels -> T]
  <2> HIDE DEF Row
  <2>1. \A r \in Row : [sh[h] EXCEPT ![u] = r] \in T
    BY <1>1
  <2> HIDE DEF T
  <2> QED BY <1>1, <2>1
<1>3. [live |-> TRUE, ver |-> ver, room |-> room] \in Row
  OBVIOUS
<1>4. [sh[h][u] EXCEPT !.live = FALSE] \in Row
  BY <1>1
<1>5. [sh EXCEPT ![h][u].live = FALSE] = [sh EXCEPT ![h][u] = [sh[h][u] EXCEPT !.live = FALSE]]
  OBVIOUS
<1>6. [sh EXCEPT ![h][u].live = FALSE] \in [SihotHotels -> T]
  BY <1>2, <1>4, <1>5
<1>7. sh' \in [SihotHotels -> T]
  <2>1. CASE ShUpsert(a, u, h, ver, room)
    BY <1>1, <1>2, <1>3, <2>1 DEF ShUpsert
  <2>2. CASE ShCancel(a, u, h)
    BY <1>1, <1>6, <2>2 DEF ShCancel
  <2> QED BY <2>1, <2>2
<1> QED BY <1>7 DEF TypeSh

\* The answers of Sihot count the faults.
LEMMA FaultTypes ==
    ASSUME faults \in Nat, NEW a, NEW must, NEW may, Answer(a, must, may)
    PROVE  faults' \in Nat
    BY DEF Answer

\* The parts of the type invariant that an action leaves alone.
LEMMA TypeFrame ==
    /\ TypeAcu /\ UNCHANGED <<ru, ruObj, rul, synced, tx, clock>> => TypeAcu'
    /\ TypeRun /\ UNCHANGED <<pc, batch, todo, lastFetch, failed>> => TypeRun'
    /\ TypeSh /\ UNCHANGED sh => TypeSh'
    /\ TypeHist /\ UNCHANGED <<faults, late, forgotten>> => TypeHist'
<1>1. ASSUME TypeRun, UNCHANGED <<pc, batch, todo, lastFetch, failed>> PROVE TypeRun'
  BY <1>1 DEF TypeRun, MainSet, InBatch
<1> QED BY <1>1 DEF TypeAcu, TypeSh, TypeHist

\* A pass that the run goes on to works on units of the batch.
LEMMA PassTypes ==
    ASSUME TypeRun, NEW p \in {"idle", "stamp", "swap", "move", "main"}, NEW S \in SUBSET MainSet,
           Pass(p, S), UNCHANGED <<batch, failed>>, lastFetch' \in Nat
    PROVE  TypeRun'
    BY DEF TypeRun, Pass, MainSet, InBatch

\* A run that ends forgets its batch.
LEMMA EndRunTypes ==
    ASSUME EndRun
    PROVE  TypeRun' /\ lastFetch' = 0 /\ (\A u \in Units : batch'[u] = NoEntry)
    BY DEF EndRun, Pass, TypeRun, MainSet, InBatch

\* Every step of a run keeps the types.
LEMMA RunTypes ==
    ASSUME TypeOK, RunStep
    PROVE  TypeOK'
<1>0. TypeAcu /\ TypeRun /\ TypeSh /\ TypeHist
  BY DEF TypeOK
<1>t. faults \in Nat /\ lastFetch \in Nat /\ clock \in Nat /\ failed \subseteq Units
      /\ NoEntry \notin EntryRecs
  BY <1>0, ConstantsAssumption DEF TypeHist, TypeRun, TypeAcu
<1>1. CASE RunSelect
  <2>1. TypeAcu' /\ TypeSh' /\ TypeHist'
    BY <1>0, <1>1, TypeFrame DEF RunSelect, acuVars, userVars, histVars
  <2>2. \A u \in Units : batch'[u] \in EntryRecs \cup {NoEntry}
    <3> TAKE u \in Units
    <3>1. ru[u] \in Rows /\ rul[u] \in [date : Nat, last : Hotels \cup {NoHotel}]
          /\ ruObj[u] \in Hotels \cup {NoHotel}
      BY <1>0 DEF TypeAcu
    <3>2. [ver |-> ru[u].ver, hotel |-> ru[u].hotel, room |-> ru[u].room,
           last |-> rul[u].last, date |-> rul[u].date, obj |-> ruObj[u]] \in EntryRecs
      BY <3>1 DEF Rows, EntryRecs
    <3> QED BY <1>1, <3>2 DEF RunSelect
  <2>3. TypeRun'
    <3>1. batch' = [u \in Units |-> batch'[u]] /\ pc' = "stamp" /\ todo' = {}
          /\ lastFetch' = lastFetch /\ failed' = failed
      BY <1>1 DEF RunSelect, Pass
    <3> QED BY <1>t, <2>2, <3>1 DEF TypeRun
  <2> QED BY <2>1, <2>3 DEF TypeOK
<1>2. CASE RunStamp
  <2>1. TypeAcu' /\ TypeSh' /\ TypeHist'
    BY <1>0, <1>2, TypeFrame DEF RunStamp, acuVars, userVars, histVars
  <2>2. TypeRun'
    <3>1. SwapSet \subseteq MainSet
      BY DEF SwapSet, MainSet
    <3> QED BY <1>0, <1>2, <1>t, <3>1, PassTypes DEF RunStamp
  <2> QED BY <2>1, <2>2 DEF TypeOK
<1>3. CASE RunNextPass
  <2>1. TypeAcu' /\ TypeSh' /\ TypeHist'
    BY <1>0, <1>3, TypeFrame DEF RunNextPass, acuVars, userVars, histVars
  <2>2. TypeRun'
    <3>1. MoveSet \subseteq MainSet
      BY DEF MoveSet, MainSet
    <3>2. CASE EndRun
      BY <3>2, EndRunTypes
    <3>3. CASE Pass("move", MoveSet) /\ UNCHANGED <<batch, lastFetch, failed>>
      BY <1>0, <1>t, <3>1, <3>3, PassTypes
    <3>4. CASE Pass("main", MainSet) /\ UNCHANGED <<batch, lastFetch, failed>>
      BY <1>0, <1>t, <3>4, PassTypes
    <3> QED BY <1>3, <3>2, <3>3, <3>4 DEF RunNextPass
  <2> QED BY <2>1, <2>2 DEF TypeOK
<1>4. ASSUME NEW u \in Units, RunSwap(u) PROVE TypeOK'
  <2>1. u \in MainSet
    BY <1>0, <1>4, NextInBatch DEF RunSwap
  <2>2. PICK a \in Answers :
          /\ Answer(a, u \in Poison, Foreign(batch[u].obj, batch[u].hotel))
          /\ ShUpsert(a, u, batch[u].hotel, batch[u].ver, NoRoom)
          /\ failed' = IF a = "refused" THEN failed \cup {u} ELSE failed
    BY <1>4 DEF RunSwap
  <2>3. TypeSh'
    BY <1>0, <2>1, <2>2, EntryType, ShTypes
  <2>4. TypeAcu'
    BY <1>0, <1>4, TypeFrame DEF RunSwap, acuVars, userVars
  <2>5. TypeHist'
    BY <1>0, <1>t, <2>2, <1>4, FaultTypes DEF RunSwap, TypeHist, histVars
  <2>6. TypeRun'
    BY <1>0, <1>4, <2>2 DEF RunSwap, TypeRun, MainSet, InBatch
  <2> QED BY <2>3, <2>4, <2>5, <2>6 DEF TypeOK
<1>5. ASSUME NEW u \in Units, RunMove(u) PROVE TypeOK'
  <2>1. u \in MainSet
    BY <1>0, <1>5, NextInBatch DEF RunMove
  <2>2. batch[u].last \in Hotels \cup {NoHotel}
    BY <1>0, <2>1, EntryType
  <2> DEFINE h == CancelHotel(u)
  <2>3. PICK a \in Answers :
          /\ Answer(a, u \in Poison, Foreign(batch[u].obj, h) \/ ~sh[h][u].live)
          /\ ShCancel(a, u, h)
          /\ failed' = IF a = "refused" THEN failed \cup {u} ELSE failed
          /\ StoreAndLog(u, h) \/ UNCHANGED <<acuVars, userVars, histVars>>
    BY <1>5 DEF RunMove
  <2>4. TypeSh'
    BY <1>0, <2>3, 0 \in Nat, NoRoom \in Rooms \cup {NoRoom}, ShTypes
  <2>5. TypeAcu' /\ late' \in [Units -> Nat] /\ forgotten' \subseteq Units
    <3>1. CASE StoreAndLog(u, h)
      BY <1>0, <1>t, <2>2, <3>1, StoreTypes DEF CancelHotel
    <3>2. CASE UNCHANGED <<acuVars, userVars, histVars>>
      BY <1>0, <3>2, TypeFrame DEF acuVars, userVars, histVars, TypeHist
    <3> QED BY <2>3, <3>1, <3>2
  <2>6. TypeHist'
    BY <1>t, <2>3, <2>5, FaultTypes DEF TypeHist
  <2>7. TypeRun'
    BY <1>0, <1>5, <2>3 DEF RunMove, TypeRun, MainSet, InBatch
  <2> QED BY <2>4, <2>5, <2>6, <2>7 DEF TypeOK
<1>6. ASSUME NEW u \in Units, RunSkip(u) PROVE TypeOK'
  <2>1. TypeAcu' /\ TypeSh' /\ TypeHist'
    BY <1>0, <1>6, TypeFrame DEF RunSkip, acuVars, userVars, histVars
  <2>2. TypeRun'
    BY <1>0, <1>6 DEF RunSkip, TypeRun, MainSet, InBatch
  <2> QED BY <2>1, <2>2 DEF TypeOK
<1>7. ASSUME NEW u \in Units, RunMain(u) PROVE TypeOK'
  <2>1. u \in MainSet
    BY <1>0, <1>7, NextInBatch DEF RunMain
  <2> DEFINE h == batch[u].hotel
  <2>2. h \in Hotels \cup {NoHotel} /\ batch[u].ver \in Nat /\ SentRoom(u) \in Rooms \cup {NoRoom}
    BY <1>0, <2>1, EntryType DEF SentRoom
  <2>3. PICK a \in Answers :
          /\ Answer(a, u \in Poison \/ Occupied(u, h, SentRoom(u)), Foreign(SentObj(u), h))
          /\ ShUpsert(a, u, h, batch[u].ver, SentRoom(u))
          /\ StoreAndLog(u, h) \/ UNCHANGED <<acuVars, userVars, histVars>>
          /\ todo' = IF a # "ok" /\ BreakOnError THEN {} ELSE todo \ {u}
    BY <1>7 DEF RunMain
  <2>4. TypeSh'
    BY <1>0, <2>2, <2>3, ShTypes
  <2>5. TypeAcu' /\ late' \in [Units -> Nat] /\ forgotten' \subseteq Units
    <3>1. CASE StoreAndLog(u, h)
      BY <1>0, <1>t, <2>2, <3>1, StoreTypes
    <3>2. CASE UNCHANGED <<acuVars, userVars, histVars>>
      BY <1>0, <3>2, TypeFrame DEF acuVars, userVars, histVars, TypeHist
    <3> QED BY <2>3, <3>1, <3>2
  <2>6. TypeHist'
    BY <1>t, <2>3, <2>5, FaultTypes DEF TypeHist
  <2>7. TypeRun'
    BY <1>0, <1>7, <2>3 DEF RunMain, TypeRun, MainSet, InBatch
  <2> QED BY <2>4, <2>5, <2>6, <2>7 DEF TypeOK
<1> QED BY <1>1, <1>2, <1>3, <1>4, <1>5, <1>6, <1>7 DEF RunStep

\* A user's change is dated and typed; what the triggers log of it is, too.
LEMMA UserTypes ==
    ASSUME TypeOK, NEW S \in SUBSET Units, UserChange(S) \/ UserCommit(S)
    PROVE  TypeOK'
<1>0. TypeAcu /\ TypeRun /\ TypeSh /\ TypeHist
  BY DEF TypeOK
<1>t. clock \in Nat /\ NoChange \notin ChangeRecs
  BY <1>0, ConstantsAssumption DEF TypeAcu
<1>1. CASE UserChange(S)
  <2>1. TypeRun' /\ TypeSh' /\ TypeHist'
    BY <1>0, <1>1, TypeFrame DEF UserChange, runVars, histVars
  <2>2. PICK hotel \in [S -> Hotels], room \in [S -> Rooms \cup {NoRoom}] :
          tx' = [u \in Units |->
                   IF u \in S
                   THEN [row  |-> [ver |-> ru[u].ver + 1, hotel |-> hotel[u], room |-> room[u]],
                         date |-> clock + 1]
                   ELSE tx[u]]
    BY <1>1 DEF UserChange
  <2>3. tx' \in [Units -> ChangeRecs \cup {NoChange}]
    <3>1. \A u \in S : ru[u].ver + 1 \in Nat
      BY <1>0 DEF TypeAcu, Rows
    <3>2. \A u \in S : [ver |-> ru[u].ver + 1, hotel |-> hotel[u], room |-> room[u]] \in Rows
      BY <3>1 DEF Rows
    <3>3. \A u \in S : [row  |-> [ver |-> ru[u].ver + 1, hotel |-> hotel[u], room |-> room[u]],
                        date |-> clock + 1] \in ChangeRecs
      BY <1>t, <3>2 DEF ChangeRecs
    <3> QED BY <1>0, <2>2, <3>3 DEF TypeAcu
  <2>4. TypeAcu'
    BY <1>0, <1>1, <1>t, <2>3 DEF UserChange, acuVars, TypeAcu
  <2> QED BY <2>1, <2>4 DEF TypeOK
<1>2. CASE UserCommit(S)
  <2>1. \A u \in S : tx[u] \in ChangeRecs /\ tx[u].row \in Rows /\ tx[u].date \in Nat
                     /\ tx[u].row.hotel \in Hotels \cup {NoHotel} /\ tx[u].row.ver \in Nat
    BY <1>0, <1>2 DEF UserCommit, TypeAcu, ChangeRecs, Rows
  <2>2. ru' \in [Units -> Rows] /\ tx' \in [Units -> ChangeRecs \cup {NoChange}]
    BY <1>0, <1>2, <2>1 DEF UserCommit, TypeAcu
  <2>3. rul' \in [Units -> [date : Nat, last : Hotels \cup {NoHotel}]]
    <3>1. \A u \in S : QueueEntry(u, tx[u].row.hotel, tx[u].date)
                         \in [date : Nat, last : Hotels \cup {NoHotel}]
      BY <1>0, <2>1, QueueEntryType
    <3> QED BY <1>0, <1>2, <3>1 DEF UserCommit, TypeAcu
  <2>4. TypeAcu'
    BY <1>0, <1>2, <2>2, <2>3 DEF UserCommit, TypeAcu
  <2>5. TypeRun' /\ TypeSh'
    BY <1>0, <1>2, TypeFrame DEF UserCommit, runVars
  <2>6. TypeHist'
    BY <1>0, <1>2, <2>1 DEF UserCommit, TypeHist
  <2> QED BY <2>4, <2>5, <2>6 DEF TypeOK
<1> QED BY <1>1, <1>2

\* So does a crash,
LEMMA CrashTypes ==
    ASSUME TypeOK, Crash
    PROVE  TypeOK'
<1>1. TypeAcu' /\ TypeSh'
  BY TypeFrame DEF TypeOK, Crash, acuVars, userVars
<1>2. TypeRun'
  BY EndRunTypes DEF Crash
<1>3. TypeHist'
  BY DEF TypeOK, TypeHist, Crash, histVars
<1> QED BY <1>1, <1>2, <1>3 DEF TypeOK

\* and a step of something else.
LEMMA StutterTypes ==
    ASSUME TypeOK, UNCHANGED vars
    PROVE  TypeOK'
<1>1. /\ UNCHANGED <<ru, ruObj, rul, synced, tx, clock>>
      /\ UNCHANGED <<pc, batch, todo, lastFetch, failed>>
      /\ UNCHANGED sh
      /\ UNCHANGED <<faults, late, forgotten>>
  BY DEF vars, acuVars, userVars, runVars, histVars
<1> QED BY <1>1, TypeFrame DEF TypeOK

\* Every variable keeps its type, and a run of SihotResSync only works on units of the batch
\* that it has fetched.
THEOREM TypeCorrect == Spec => []TypeOK
<1>1. Init => TypeOK
  <2> SUFFICES ASSUME Init PROVE TypeOK
    OBVIOUS
  <2>1. TypeAcu
    BY DEF Init, TypeAcu, Rows
  <2>2. TypeRun
    BY DEF Init, TypeRun
  <2>3. TypeSh
    BY DEF Init, TypeSh
  <2>4. TypeHist
    BY DEF Init, TypeHist
  <2> QED BY <2>1, <2>2, <2>3, <2>4 DEF TypeOK
<1>2. TypeOK /\ [Next]_vars => TypeOK'
  BY RunTypes, UserTypes, CrashTypes, StutterTypes DEF Next
<1> QED BY <1>1, <1>2, PTL DEF Spec

-----------------------------------------------------------------------------
(***************************************************************************)
(* Nothing is lost from the queue.  Every action preserves QueueInv.       *)
(***************************************************************************)

\* The dates and versions that the argument compares are numbers.
Numbers ==
    /\ clock \in Nat /\ lastFetch \in Nat
    /\ \A u \in Units : /\ synced[u] \in Nat /\ rul[u].date \in Nat /\ ru[u].ver \in Nat
                        /\ tx[u] # NoChange => tx[u].date \in Nat
    /\ \A u \in MainSet : u \in Units /\ batch[u].date \in Nat

\* The type invariant says so.
LEMMA TypeNumbers == TypeOK => Numbers
<1> SUFFICES ASSUME TypeOK PROVE Numbers
  OBVIOUS
<1>1. TypeAcu /\ TypeRun
  BY DEF TypeOK
<1>2. \A u \in Units : synced[u] \in Nat /\ rul[u].date \in Nat /\ ru[u].ver \in Nat
                       /\ (tx[u] # NoChange => tx[u].date \in Nat)
  BY <1>1 DEF TypeAcu, Rows, ChangeRecs
<1>3. \A u \in MainSet : u \in Units /\ batch[u].date \in Nat
  BY <1>1, EntryType
<1> QED BY <1>1, <1>2, <1>3 DEF Numbers, TypeAcu, TypeRun

\* A unit that the run is about to send, or to cancel, is still queued.
LEMMA StillQueued ==
    ASSUME Numbers, QueueInv, NEW u \in MainSet, StillToSend(u)
    PROVE  synced[u] < rul[u].date
<1>1. synced[u] < batch[u].date
  BY DEF QueueInv, QueuedUntilLogged
<1>2. batch[u].date <= rul[u].date
  BY DEF QueueInv, BatchIsCurrentOrOlder
<1>3. synced[u] \in Nat /\ batch[u].date \in Nat /\ rul[u].date \in Nat
  BY DEF Numbers
<1> QED BY <1>1, <1>2, <1>3

\* The frame of the invariant: a step that only moves the run on, where no unit gets back
\* to be sent and no unit's data in Sihot changes.
LEMMA QueueFrame ==
    ASSUME QueueInv, UNCHANGED <<acuVars, userVars, batch, sh, late>>,
           lastFetch' <= clock,
           \A u \in MainSet : StillToSend(u)' => StillToSend(u)
    PROVE  QueueInv'
<1>1. UNCHANGED <<ru, ruObj, rul, synced, tx, clock, batch, sh, late>> /\ MainSet' = MainSet
  BY DEF acuVars, userVars, MainSet, InBatch
<1>2. DatesInPast'
  BY <1>1 DEF QueueInv, DatesInPast
<1>3. BatchIsCurrentOrOlder'
  BY <1>1 DEF QueueInv, BatchIsCurrentOrOlder
<1>4. QueuedUntilLogged'
  BY <1>1 DEF QueueInv, QueuedUntilLogged
<1>5. SentOrQueuedOrLate'
  BY <1>1 DEF QueueInv, SentOrQueuedOrLate, Sent, Unsynced
<1> QED BY <1>2, <1>3, <1>4, <1>5 DEF QueueInv

\* A request about a unit does not touch the other units in Sihot.
LEMMA ShOthers ==
    ASSUME TypeSh, NEW u \in Units, NEW h, NEW a, NEW ver, NEW room,
           ShUpsert(a, u, h, ver, room) \/ ShCancel(a, u, h)
    PROVE  \A g \in SihotHotels, w \in Units \ {u} : sh'[g][w] = sh[g][w]
    BY DEF TypeSh, ShUpsert, ShCancel

\* A step of the run that sends nothing new of a unit to the log: the unit is still queued.
LEMMA RequestKeepsQueue ==
    ASSUME TypeOK, QueueInv, NEW u \in MainSet, StillToSend(u),
           UNCHANGED <<acuVars, userVars, batch, lastFetch, late>>,
           \A g \in SihotHotels, w \in Units \ {u} : sh'[g][w] = sh[g][w],
           \A w \in MainSet : StillToSend(w)' => StillToSend(w)
    PROVE  QueueInv'
<1>1. UNCHANGED <<ru, ruObj, rul, synced, tx, clock, batch, lastFetch, late>> /\ MainSet' = MainSet
  BY DEF acuVars, userVars, MainSet, InBatch
<1>2. DatesInPast'
  BY <1>1 DEF QueueInv, DatesInPast
<1>3. BatchIsCurrentOrOlder'
  BY <1>1 DEF QueueInv, BatchIsCurrentOrOlder
<1>4. QueuedUntilLogged'
  BY <1>1 DEF QueueInv, QueuedUntilLogged
<1>5. SentOrQueuedOrLate'
  <2> SUFFICES ASSUME NEW w \in Units, ru[w].hotel \in SihotHotels
               PROVE  Sent(w)' \/ Unsynced(w) \/ late[w] = ru[w].ver
    BY <1>1 DEF SentOrQueuedOrLate, Unsynced
  <2>1. CASE w = u
    <3>1. synced[u] < rul[u].date /\ synced[u] \in Nat /\ rul[u].date \in Nat
      BY StillQueued, TypeNumbers, <2>1 DEF Numbers
    <3> QED BY <2>1, <3>1 DEF Unsynced
  <2>2. CASE w # u
    <3>1. sh'[ru[w].hotel][w] = sh[ru[w].hotel][w]
      BY <2>2
    <3> QED BY <1>1, <3>1 DEF QueueInv, SentOrQueuedOrLate, Sent
  <2> QED BY <2>1, <2>2
<1> QED BY <1>2, <1>3, <1>4, <1>5 DEF QueueInv

\* A unit that is logged as synced: its data is as committed, and sent; or its entry was dated
\* again, after the fetch and it is still queued, or before it and it is late.
LEMMA StoreKeepsQueue ==
    ASSUME TypeOK, QueueInv, NEW u \in MainSet, NEW h \in Hotels \cup {NoHotel}, StoreAndLog(u, h),
           UNCHANGED <<batch, lastFetch>>,
           \A g \in SihotHotels, w \in Units \ {u} : sh'[g][w] = sh[g][w],
           \A w \in MainSet : StillToSend(w)' => StillToSend(w) /\ w # u,
           rul[u].date = batch[u].date /\ ru[u].hotel \in SihotHotels => Sent(u)'
    PROVE  QueueInv'
<1>n. Numbers /\ u \in Units
  BY TypeNumbers DEF Numbers
<1>0. /\ clock \in Nat /\ lastFetch \in Nat /\ lastFetch <= clock
      /\ rul[u].date \in Nat /\ batch[u].date \in Nat /\ rul[u].date <= clock
      /\ TypeAcu /\ TypeHist
  BY <1>n DEF Numbers, QueueInv, DatesInPast, TypeOK
<1>1. /\ UNCHANGED <<ru, tx, batch, lastFetch>> /\ MainSet' = MainSet
      /\ tx[u] = NoChange
      /\ synced' = [synced EXCEPT ![u] = lastFetch]
  BY DEF StoreAndLog, LogDate, MainSet, InBatch
<1>2. synced'[u] = lastFetch /\ (\A w \in Units \ {u} : synced'[w] = synced[w])
  BY <1>0, <1>1, <1>n DEF TypeAcu
<1>3. /\ \A w \in Units \ {u} : rul'[w] = rul[w]
      /\ \/ rul'[u] = rul[u] /\ clock' = clock /\ ruObj[u] = h
         \/ rul'[u].date = clock + 1 /\ clock' = clock + 1
  <2>1. CASE ruObj[u] = h
    BY <2>1 DEF StoreAndLog
  <2>2. CASE ruObj[u] # h
    <3>1. rul' = [rul EXCEPT ![u] = QueueEntry(u, ru[u].hotel, clock + 1)] /\ clock' = clock + 1
      BY <2>2 DEF StoreAndLog
    <3>2. QueueEntry(u, ru[u].hotel, clock + 1).date = clock + 1
      BY DEF QueueEntry
    <3> QED BY <3>1, <3>2, <1>0, <1>n DEF TypeAcu
  <2> QED BY <2>1, <2>2
<1>4. \A w \in Units \ {u} : late'[w] = late[w]
  BY <1>0 DEF StoreAndLog, TypeHist
<1>5. DatesInPast'
  <2>1. clock' \in Nat /\ clock <= clock' /\ lastFetch' <= clock'
    BY <1>0, <1>1, <1>3
  <2>2. \A w \in Units : synced'[w] <= clock' /\ rul'[w].date <= clock'
    <3> SUFFICES ASSUME NEW w \in Units PROVE synced'[w] <= clock' /\ rul'[w].date <= clock'
      OBVIOUS
    <3>1. synced[w] <= clock /\ rul[w].date <= clock /\ synced[w] \in Nat /\ rul[w].date \in Nat
      BY <1>n DEF QueueInv, DatesInPast, Numbers
    <3> QED BY <1>0, <1>2, <1>3, <2>1, <3>1
  <2>3. \A w \in Units : tx'[w] # NoChange => rul'[w].date < tx'[w].date /\ tx'[w].date <= clock'
    <3> SUFFICES ASSUME NEW w \in Units, tx[w] # NoChange
                 PROVE  rul'[w].date < tx[w].date /\ tx[w].date <= clock'
      BY <1>1
    <3>1. rul[w].date < tx[w].date /\ tx[w].date <= clock /\ tx[w].date \in Nat
      BY <1>n DEF QueueInv, DatesInPast, Numbers
    <3>2. w # u
      BY <1>1
    <3> QED BY <1>0, <1>3, <2>1, <3>1, <3>2
  <2> QED BY <2>1, <2>2, <2>3 DEF DatesInPast
<1>6. BatchIsCurrentOrOlder'
  <2> SUFFICES ASSUME NEW w \in MainSet
               PROVE  /\ batch[w].date <= rul'[w].date
                      /\ batch[w].date = rul'[w].date =>
                            ru[w] = [ver |-> batch[w].ver, hotel |-> batch[w].hotel,
                                     room |-> batch[w].room]
    BY <1>1 DEF BatchIsCurrentOrOlder
  <2>1. /\ batch[w].date <= rul[w].date
        /\ batch[w].date = rul[w].date =>
              ru[w] = [ver |-> batch[w].ver, hotel |-> batch[w].hotel, room |-> batch[w].room]
    BY DEF QueueInv, BatchIsCurrentOrOlder
  <2>2. w \in Units /\ batch[w].date \in Nat /\ rul[w].date \in Nat /\ rul[w].date <= clock
    BY <1>n DEF Numbers, QueueInv, DatesInPast
  <2>3. rul'[w] = rul[w] \/ rul'[w].date = clock + 1
    BY <1>3, <2>2
  <2> QED BY <1>0, <2>1, <2>2, <2>3
<1>7. QueuedUntilLogged'
  <2> SUFFICES ASSUME NEW w \in MainSet, StillToSend(w), w # u
               PROVE  synced'[w] < batch[w].date
    BY <1>1 DEF QueuedUntilLogged
  <2> QED BY <1>2, <1>n DEF QueueInv, QueuedUntilLogged, Numbers
<1>8. SentOrQueuedOrLate'
  <2> SUFFICES ASSUME NEW w \in Units, ru[w].hotel \in SihotHotels
               PROVE  Sent(w)' \/ Unsynced(w)' \/ late'[w] = ru[w].ver
    BY <1>1 DEF SentOrQueuedOrLate
  <2>1. CASE w # u
    <3>1. sh'[ru[w].hotel][w] = sh[ru[w].hotel][w]
      BY <2>1
    <3>2. Sent(w) \/ Unsynced(w) \/ late[w] = ru[w].ver
      BY DEF QueueInv, SentOrQueuedOrLate
    <3> QED BY <1>1, <1>2, <1>3, <1>4, <2>1, <3>1, <3>2 DEF Sent, Unsynced
  <2>2. CASE w = u
    <3>1. CASE rul'[u].date = clock + 1
      BY <1>0, <1>2, <2>2, <3>1 DEF Unsynced
    <3>2. CASE rul'[u] = rul[u] /\ ruObj[u] = h
      <4>1. CASE rul[u].date = batch[u].date
        BY <2>2, <4>1
      <4>2. CASE rul[u].date # batch[u].date /\ rul[u].date <= lastFetch
        <5>1. late' = [late EXCEPT ![u] = ru[u].ver]
          BY <3>2, <4>2 DEF StoreAndLog
        <5> QED BY <1>0, <1>n, <2>2, <5>1 DEF TypeHist
      <4>3. CASE ~(rul[u].date <= lastFetch)
        BY <1>0, <1>2, <2>2, <3>2, <4>3 DEF Unsynced
      <4> QED BY <4>1, <4>2, <4>3
    <3> QED BY <1>3, <3>1, <3>2
  <2> QED BY <2>1, <2>2
<1> QED BY <1>5, <1>6, <1>7, <1>8 DEF QueueInv

\* A pass over the batch does not come back to a unit.
LEMMA OnlyLess ==
    ASSUME UNCHANGED <<pc, batch>>, todo' \subseteq todo
    PROVE  \A w \in MainSet : StillToSend(w)' => StillToSend(w)
    BY DEF StillToSend

\* A run that ends, or dies, leaves what it has not logged in the queue.
LEMMA EndKeepsQueue ==
    ASSUME QueueInv, clock \in Nat, EndRun, UNCHANGED <<acuVars, userVars, sh, late>>
    PROVE  QueueInv'
<1>1. UNCHANGED <<ru, ruObj, rul, synced, tx, clock, sh, late>> /\ lastFetch' = 0
  BY DEF acuVars, userVars, EndRun
<1>2. MainSet' = {}
  BY DEF EndRun, MainSet, InBatch
<1>3. DatesInPast'
  BY <1>1 DEF QueueInv, DatesInPast
<1>4. SentOrQueuedOrLate'
  BY <1>1 DEF QueueInv, SentOrQueuedOrLate, Sent, Unsynced
<1> QED BY <1>2, <1>3, <1>4 DEF QueueInv, BatchIsCurrentOrOlder, QueuedUntilLogged

\* Every step of a run: the pre-runs and refusals log nothing of a unit that stays in a hotel of
\* Sihot, the main run what it has sent.
LEMMA RunKeepsQueue ==
    ASSUME TypeOK, QueueInv, RunStep
    PROVE  QueueInv'
<1>0. Numbers /\ TypeAcu /\ TypeRun /\ TypeSh /\ TypeHist
      /\ lastFetch <= clock /\ lastFetch \in Nat /\ clock \in Nat
  BY TypeNumbers DEF TypeOK, Numbers, QueueInv, DatesInPast
<1>1. CASE RunSelect
  <2>1. /\ UNCHANGED <<ru, ruObj, rul, synced, tx, clock, lastFetch, sh, late>>
        /\ pc' = "stamp"
    BY <1>1 DEF RunSelect, Pass, acuVars, userVars, histVars
  <2>2. \A w \in MainSet' :
           /\ w \in Queue
           /\ batch'[w] = [ver |-> ru[w].ver, hotel |-> ru[w].hotel, room |-> ru[w].room,
                           last |-> rul[w].last, date |-> rul[w].date, obj |-> ruObj[w]]
    BY <1>1 DEF RunSelect, MainSet, InBatch
  <2>8. \A w \in MainSet' :
           /\ w \in Units /\ rul[w].date > synced[w]
           /\ rul[w].date \in Nat /\ synced[w] \in Nat
           /\ batch'[w].date = rul[w].date /\ batch'[w].ver = ru[w].ver
           /\ batch'[w].hotel = ru[w].hotel /\ batch'[w].room = ru[w].room
    <3> TAKE w \in MainSet'
    <3>1. w \in Queue
      BY <2>2
    <3>2. w \in Units /\ rul[w].date > synced[w]
      BY <3>1 DEF Queue, Unsynced
    <3>3. batch'[w] = [ver |-> ru[w].ver, hotel |-> ru[w].hotel, room |-> ru[w].room,
                       last |-> rul[w].last, date |-> rul[w].date, obj |-> ruObj[w]]
      BY <2>2
    <3> QED BY <1>0, <3>2, <3>3 DEF Numbers
  <2>3. \A w \in Units : ru[w] = [ver |-> ru[w].ver, hotel |-> ru[w].hotel, room |-> ru[w].room]
    BY <1>0 DEF TypeAcu, Rows
  <2>4. DatesInPast'
    BY <2>1 DEF QueueInv, DatesInPast
  <2>5. BatchIsCurrentOrOlder'
    <3> SUFFICES ASSUME NEW w \in MainSet'
                 PROVE  /\ batch'[w].date <= rul[w].date
                        /\ ru[w] = [ver |-> batch'[w].ver, hotel |-> batch'[w].hotel,
                                    room |-> batch'[w].room]
      BY <2>1 DEF BatchIsCurrentOrOlder
    <3> QED BY <2>3, <2>8
  <2>6. QueuedUntilLogged'
    <3> SUFFICES ASSUME NEW w \in MainSet' PROVE synced[w] < batch'[w].date
      BY <2>1 DEF QueuedUntilLogged
    <3> QED BY <2>8
  <2>7. SentOrQueuedOrLate'
    BY <2>1 DEF QueueInv, SentOrQueuedOrLate, Sent, Unsynced
  <2> QED BY <2>4, <2>5, <2>6, <2>7 DEF QueueInv
<1>2. CASE RunStamp
  <2>1. UNCHANGED <<acuVars, userVars, batch, sh, late>> /\ lastFetch' <= clock
    BY <1>0, <1>2 DEF RunStamp, histVars
  <2>2. \A w \in MainSet : StillToSend(w)' => StillToSend(w)
    BY <1>2 DEF RunStamp, Pass, StillToSend
  <2> QED BY <2>1, <2>2, QueueFrame
<1>3. CASE RunNextPass
  <2>1. UNCHANGED <<acuVars, userVars, sh, late>>
    BY <1>3 DEF RunNextPass, histVars
  <2>2. CASE UNCHANGED <<batch, lastFetch>> /\ pc = "swap" /\ Pass("move", MoveSet)
    <3>1. \A w \in MainSet : StillToSend(w)' => StillToSend(w)
      BY <2>2 DEF StillToSend
    <3> QED BY <1>0, <2>1, <2>2, <3>1, QueueFrame
  <2>3. CASE UNCHANGED <<batch, lastFetch>> /\ pc = "move" /\ Pass("main", MainSet)
    <3>1. \A w \in MainSet : StillToSend(w)' => StillToSend(w)
      BY <2>3 DEF StillToSend, Pass
    <3> QED BY <1>0, <2>1, <2>3, <3>1, QueueFrame
  <2>4. CASE EndRun
    <3> QED BY <1>0, <2>1, <2>4, EndKeepsQueue
  <2> QED BY <1>3, <2>2, <2>3, <2>4 DEF RunNextPass
<1>4. ASSUME NEW u \in Units, RunSwap(u) PROVE QueueInv'
  <2>1. u \in MainSet /\ u \in todo /\ pc = "swap"
    BY <1>0, <1>4, NextInBatch DEF RunSwap
  <2>2. StillToSend(u)
    BY <2>1 DEF StillToSend
  <2>3. UNCHANGED <<acuVars, userVars, pc, batch, lastFetch, late>> /\ todo' \subseteq todo
    BY <1>4 DEF RunSwap, histVars
  <2>4. \A g \in SihotHotels, w \in Units \ {u} : sh'[g][w] = sh[g][w]
    BY <1>0, <1>4, ShOthers DEF RunSwap
  <2> QED BY <2>1, <2>2, <2>3, <2>4, OnlyLess, RequestKeepsQueue
<1>5. ASSUME NEW u \in Units, RunMove(u) PROVE QueueInv'
  <2>1. u \in MainSet /\ u \in todo /\ pc = "move"
    BY <1>0, <1>5, NextInBatch DEF RunMove
  <2>2. StillToSend(u)
    BY <2>1 DEF StillToSend
  <2> DEFINE h == CancelHotel(u)
  <2>3. h \in Hotels \cup {NoHotel}
    BY <1>0, <2>1, EntryType DEF CancelHotel
  <2>4. UNCHANGED <<pc, batch, lastFetch>> /\ todo' = todo \ {u}
    BY <1>5 DEF RunMove
  <2>5. \A g \in SihotHotels, w \in Units \ {u} : sh'[g][w] = sh[g][w]
    BY <1>0, <1>5, ShOthers DEF RunMove
  <2>6. CASE UNCHANGED <<acuVars, userVars, histVars>>
    <3>1. UNCHANGED late
      BY <2>6 DEF histVars
    <3> QED BY <2>1, <2>2, <2>4, <2>5, <2>6, <3>1, OnlyLess, RequestKeepsQueue
  <2>7. CASE batch[u].hotel \notin SihotHotels /\ StoreAndLog(u, h)
    <3>1. \A w \in MainSet : StillToSend(w)' => StillToSend(w) /\ w # u
      BY <2>1, <2>4, <2>7 DEF StillToSend
    <3>2. rul[u].date = batch[u].date => ru[u].hotel \notin SihotHotels
      <4>1. ASSUME rul[u].date = batch[u].date PROVE ru[u].hotel = batch[u].hotel
        <5>1. ru[u] = [ver |-> batch[u].ver, hotel |-> batch[u].hotel, room |-> batch[u].room]
          BY <2>1, <4>1 DEF QueueInv, BatchIsCurrentOrOlder
        <5> QED BY <5>1
      <4> QED BY <2>7, <4>1
    <3> QED BY <2>1, <2>3, <2>4, <2>5, <2>7, <3>1, <3>2, StoreKeepsQueue
  <2> QED BY <1>5, <2>6, <2>7 DEF RunMove
<1>6. ASSUME NEW u \in Units, RunSkip(u) PROVE QueueInv'
  <2>1. UNCHANGED <<acuVars, userVars, pc, batch, sh, late>> /\ lastFetch' <= clock
        /\ todo' \subseteq todo
    BY <1>0, <1>6 DEF RunSkip, histVars
  <2> QED BY <2>1, OnlyLess, QueueFrame
<1>7. ASSUME NEW u \in Units, RunMain(u) PROVE QueueInv'
  <2> DEFINE h == batch[u].hotel
  <2>1. u \in MainSet /\ u \in todo /\ pc = "main" /\ h \in SihotHotels
    BY <1>0, <1>7, NextInBatch DEF RunMain
  <2>2. StillToSend(u) /\ h \in Hotels \cup {NoHotel}
    BY <1>0, <2>1, EntryType DEF StillToSend
  <2>3. PICK a \in Answers :
          /\ ShUpsert(a, u, h, batch[u].ver, SentRoom(u))
          /\ IF a = "ok" THEN StoreAndLog(u, h) ELSE UNCHANGED <<acuVars, userVars, histVars>>
          /\ todo' = IF a # "ok" /\ BreakOnError THEN {} ELSE todo \ {u}
    BY <1>7 DEF RunMain
  <2>4. UNCHANGED <<pc, batch, lastFetch>> /\ todo' \subseteq todo
    BY <1>7, <2>3 DEF RunMain
  <2>5. \A g \in SihotHotels, w \in Units \ {u} : sh'[g][w] = sh[g][w]
    BY <1>0, <2>3, ShOthers
  <2>6. CASE a # "ok"
    <3>1. UNCHANGED <<acuVars, userVars, late>>
      BY <2>3, <2>6 DEF histVars
    <3> QED BY <2>1, <2>2, <2>4, <2>5, <3>1, OnlyLess, RequestKeepsQueue
  <2>7. CASE a = "ok"
    <3>1. StoreAndLog(u, h) /\ u \notin todo' /\ UNCHANGED ru
      BY <2>3, <2>7 DEF StoreAndLog
    <3>2. \A w \in MainSet : StillToSend(w)' => StillToSend(w) /\ w # u
      BY <2>1, <2>4, <3>1 DEF StillToSend
    <3>3. ASSUME rul[u].date = batch[u].date PROVE Sent(u)'
      <4>1. ru[u] = [ver |-> batch[u].ver, hotel |-> h, room |-> batch[u].room]
        BY <2>1, <3>3 DEF QueueInv, BatchIsCurrentOrOlder
      <4>2. ru'[u].ver = batch[u].ver /\ ru'[u].hotel = h /\ ru'[u].room = batch[u].room
        BY <3>1, <4>1
      <4>3. sh'[h][u] = [live |-> TRUE, ver |-> batch[u].ver, room |-> batch[u].room]
        BY <1>0, <2>1, <2>3, <2>7 DEF ShUpsert, SentRoom, TypeSh
      <4> QED BY <4>2, <4>3 DEF Sent
    <3> QED BY <2>1, <2>2, <2>4, <2>5, <3>1, <3>2, <3>3, StoreKeepsQueue
  <2> QED BY <2>6, <2>7
<1> QED BY <1>1, <1>2, <1>3, <1>4, <1>5, <1>6, <1>7 DEF RunStep

\* A change that is not committed yet gets a date after all others.
LEMMA ChangeKeepsQueue ==
    ASSUME TypeOK, QueueInv, NEW S \in SUBSET Units, UserChange(S)
    PROVE  QueueInv'
<1>0. Numbers /\ clock \in Nat
  BY TypeNumbers DEF Numbers
<1>1. /\ UNCHANGED <<ru, rul, synced, batch, pc, todo, lastFetch, sh, late>>
      /\ clock' = clock + 1 /\ MainSet' = MainSet
  BY DEF UserChange, acuVars, runVars, histVars, MainSet, InBatch
<1>2. \A u \in Units : tx'[u] = tx[u] \/ tx'[u].date = clock + 1
  BY DEF UserChange
<1>3. DatesInPast'
  <2> SUFFICES ASSUME NEW u \in Units
               PROVE  /\ lastFetch <= clock + 1
                      /\ synced[u] <= clock + 1 /\ rul[u].date <= clock + 1
                      /\ tx'[u] # NoChange =>
                            rul[u].date < tx'[u].date /\ tx'[u].date <= clock + 1
    BY <1>0, <1>1 DEF DatesInPast, QueueInv, Numbers
  <2>1. /\ lastFetch <= clock /\ synced[u] <= clock /\ rul[u].date <= clock
        /\ tx[u] # NoChange =>
              rul[u].date < tx[u].date /\ tx[u].date <= clock /\ tx[u].date \in Nat
        /\ lastFetch \in Nat /\ synced[u] \in Nat /\ rul[u].date \in Nat
    BY <1>0 DEF DatesInPast, QueueInv, Numbers
  <2> QED BY <1>0, <1>2, <2>1
<1>4. BatchIsCurrentOrOlder'
  BY <1>1 DEF QueueInv, BatchIsCurrentOrOlder
<1>5. QueuedUntilLogged'
  BY <1>1 DEF QueueInv, QueuedUntilLogged, StillToSend
<1>6. SentOrQueuedOrLate'
  BY <1>1 DEF QueueInv, SentOrQueuedOrLate, Sent, Unsynced
<1> QED BY <1>3, <1>4, <1>5, <1>6 DEF QueueInv

\* A commit puts the unit into the queue, or the change is late; either way the batch that a
\* run holds of the unit is older now.
LEMMA CommitKeepsQueue ==
    ASSUME TypeOK, QueueInv, NEW S \in SUBSET Units, UserCommit(S)
    PROVE  QueueInv'
<1>0. Numbers /\ clock \in Nat /\ TypeAcu /\ TypeHist
  BY TypeNumbers DEF Numbers, TypeOK
<1>1. /\ UNCHANGED <<synced, clock, batch, pc, todo, lastFetch, sh>> /\ MainSet' = MainSet
  BY DEF UserCommit, runVars, MainSet, InBatch
<1>2. \A u \in Units \ S : ru'[u] = ru[u] /\ rul'[u] = rul[u] /\ tx'[u] = tx[u] /\ late'[u] = late[u]
  BY <1>0 DEF UserCommit, TypeAcu, TypeHist
<1>3. \A u \in S : /\ u \in Units /\ tx[u] # NoChange
                   /\ rul'[u].date = tx[u].date /\ tx'[u] = NoChange /\ ru'[u] = tx[u].row
                   /\ late'[u] = IF tx[u].date <= synced[u] THEN tx[u].row.ver ELSE late[u]
  BY DEF UserCommit, QueueEntry
<1>4. \A u \in S : /\ rul[u].date < tx[u].date /\ tx[u].date <= clock
                   /\ tx[u].date \in Nat /\ rul[u].date \in Nat /\ synced[u] \in Nat
  BY <1>0, <1>3 DEF QueueInv, DatesInPast, Numbers
<1>5. DatesInPast'
  BY <1>1, <1>2, <1>3, <1>4 DEF QueueInv, DatesInPast
<1>6. BatchIsCurrentOrOlder'
  <2> SUFFICES ASSUME NEW w \in MainSet
               PROVE  /\ batch[w].date <= rul'[w].date
                      /\ batch[w].date = rul'[w].date =>
                            ru'[w] = [ver |-> batch[w].ver, hotel |-> batch[w].hotel,
                                      room |-> batch[w].room]
    BY <1>1 DEF BatchIsCurrentOrOlder
  <2>1. /\ batch[w].date <= rul[w].date
        /\ batch[w].date = rul[w].date =>
              ru[w] = [ver |-> batch[w].ver, hotel |-> batch[w].hotel, room |-> batch[w].room]
        /\ w \in Units /\ batch[w].date \in Nat
    BY <1>0 DEF QueueInv, BatchIsCurrentOrOlder, Numbers
  <2>2. CASE w \in S
    <3>1. batch[w].date < rul'[w].date
      BY <1>3, <1>4, <2>1, <2>2
    <3> QED BY <1>3, <1>4, <2>1, <2>2, <3>1
  <2>3. CASE w \notin S
    BY <1>2, <2>1, <2>3
  <2> QED BY <2>2, <2>3
<1>7. QueuedUntilLogged'
  BY <1>1 DEF QueueInv, QueuedUntilLogged, StillToSend
<1>8. SentOrQueuedOrLate'
  <2> SUFFICES ASSUME NEW u \in Units, ru'[u].hotel \in SihotHotels
               PROVE  Sent(u)' \/ Unsynced(u)' \/ late'[u] = ru'[u].ver
    BY DEF SentOrQueuedOrLate
  <2>1. CASE u \in S
    BY <1>1, <1>3, <1>4, <2>1 DEF Unsynced
  <2>2. CASE u \notin S
    BY <1>1, <1>2, <2>2 DEF QueueInv, SentOrQueuedOrLate, Sent, Unsynced
  <2> QED BY <2>1, <2>2
<1> QED BY <1>5, <1>6, <1>7, <1>8 DEF QueueInv

\* Every step preserves the invariant.
LEMMA NextKeepsQueue == TypeOK /\ QueueInv /\ [Next]_vars => QueueInv'
<1> SUFFICES ASSUME TypeOK, QueueInv, [Next]_vars PROVE QueueInv'
  OBVIOUS
<1>1. CASE Crash
  <2>1. clock \in Nat /\ EndRun /\ UNCHANGED <<acuVars, userVars, sh, late>>
    BY <1>1 DEF TypeOK, TypeAcu, Crash, histVars
  <2> QED BY <2>1, EndKeepsQueue
<1>2. CASE UNCHANGED vars
  <2>1. UNCHANGED <<ru, ruObj, rul, synced, tx, clock, pc, batch, todo, lastFetch, sh, late>>
    BY <1>2 DEF vars, acuVars, userVars, runVars, histVars
  <2>2. UNCHANGED <<acuVars, userVars, batch, sh, late>>
    BY <2>1 DEF acuVars, userVars
  <2>3. lastFetch' <= clock /\ \A w \in MainSet : StillToSend(w)' => StillToSend(w)
    BY <2>1 DEF QueueInv, DatesInPast, StillToSend
  <2> QED BY <2>2, <2>3, QueueFrame
<1> QED BY <1>1, <1>2, RunKeepsQueue, ChangeKeepsQueue, CommitKeepsQueue DEF Next

\* The inductive invariant of the queue: a run holds what is committed, or an older entry, of
\* the units that it has still to send, and they stay queued until it logs them.
THEOREM QueueInvariant == Spec => []QueueInv
<1>1. Init => QueueInv
  <2> SUFFICES ASSUME Init PROVE QueueInv
    OBVIOUS
  <2>1. DatesInPast
    BY DEF Init, DatesInPast
  <2>2. MainSet = {}
    BY DEF Init, MainSet, InBatch
  <2>3. SentOrQueuedOrLate
    BY ConstantsAssumption DEF Init, SentOrQueuedOrLate
  <2> QED BY <2>1, <2>2, <2>3 DEF QueueInv, BatchIsCurrentOrOlder, QueuedUntilLogged
<1> QED BY <1>1, TypeCorrect, NextKeepsQueue, PTL DEF Spec

\* What Acumen has committed for a hotel of Sihot has been sent, or is queued, or was dated
\* before a fetch and committed after its query: no refusal of Sihot, no lost answer, no crash
\* of a run and no object id that is stored takes a change out of the queue.
THEOREM NothingButLateIsLost == Spec => []SentOrQueuedOrLate
<1>1. QueueInv => SentOrQueuedOrLate
  BY DEF QueueInv
<1> QED BY <1>1, QueueInvariant, PTL

-----------------------------------------------------------------------------
(***************************************************************************)
(* What the pre-runs have done.  MovesDone and SwapsDone are about the run *)
(* and Sihot only, which no user touches.                                  *)
(***************************************************************************)

\* A request to a hotel does not touch the others.
LEMMA ShElsewhere ==
    ASSUME TypeSh, NEW u \in Units, NEW h, NEW a, NEW ver, NEW room,
           ShUpsert(a, u, h, ver, room) \/ ShCancel(a, u, h)
    PROVE  \A g \in SihotHotels \ {h}, w \in Units : sh'[g][w] = sh[g][w]
    BY DEF TypeSh, ShUpsert, ShCancel

\* What an upsert that is not refused leaves of the unit in its hotel.
LEMMA ShUpserted ==
    ASSUME TypeSh, NEW u \in Units, NEW h \in SihotHotels, NEW a, NEW ver, NEW room,
           ShUpsert(a, u, h, ver, room), a # "refused"
    PROVE  sh'[h][u] = [live |-> TRUE, ver |-> ver, room |-> room]
<1>1. sh' = [sh EXCEPT ![h][u] = [live |-> TRUE, ver |-> ver, room |-> room]]
  BY DEF ShUpsert
<1> QED BY <1>1 DEF TypeSh

\* A cancellation that is not refused leaves the unit without its life, and no request to
\* cancel changes a room or revives a unit.
LEMMA ShCancelled ==
    ASSUME TypeSh, NEW u \in Units, NEW h, NEW a, ShCancel(a, u, h)
    PROVE  /\ h \in SihotHotels /\ a # "refused" => ~sh'[h][u].live
           /\ \A g \in SihotHotels, w \in Units :
                 /\ sh'[g][w].room = sh[g][w].room
                 /\ sh'[g][w].live => sh[g][w].live
<1>1. CASE a = "refused"
  BY <1>1 DEF ShCancel
<1>2. CASE a # "refused"
  <2>1. sh' = [sh EXCEPT ![h][u].live = FALSE]
    BY <1>2 DEF ShCancel
  <2>2. CASE h \in SihotHotels
    <3>1. sh'[h][u] = [sh[h][u] EXCEPT !.live = FALSE]
      BY <2>1, <2>2 DEF TypeSh
    <3>2. sh[h][u] \in [live : BOOLEAN, ver : Nat, room : Rooms \cup {NoRoom}]
      BY <2>2 DEF TypeSh
    <3>3. sh'[h][u].live = FALSE /\ sh'[h][u].room = sh[h][u].room
      BY <3>1, <3>2
    <3>4. \A g \in SihotHotels, w \in Units : g # h \/ w # u => sh'[g][w] = sh[g][w]
      BY ShOthers, ShElsewhere
    <3> QED BY <3>3, <3>4
  <2>3. CASE h \notin SihotHotels
    <3>1. \A g \in SihotHotels \ {h}, w \in Units : sh'[g][w] = sh[g][w]
      BY ShElsewhere
    <3> QED BY <2>3, <3>1
  <2> QED BY <2>2, <2>3
<1> QED BY <1>1, <1>2

PreRuns == MovesDone /\ SwapsDone

\* A step that changes neither the run nor Sihot.
LEMMA PreRunsFrame ==
    ASSUME PreRuns, UNCHANGED <<pc, batch, todo, failed, sh>>
    PROVE  PreRuns'
<1>1. MoveSet' = MoveSet /\ SwapSet' = SwapSet
  BY DEF MoveSet, SwapSet, InBatch
<1> QED BY <1>1 DEF PreRuns, MovesDone, SwapsDone

\* A step of a run.
LEMMA RunKeepsPreRuns ==
    ASSUME TypeOK, PreRuns, RunStep
    PROVE  PreRuns'
<1>0. TypeAcu /\ TypeRun /\ TypeSh /\ MovesDone /\ SwapsDone
  BY DEF TypeOK, PreRuns
<1>s. ASSUME UNCHANGED batch PROVE MoveSet' = MoveSet /\ SwapSet' = SwapSet
  BY <1>s DEF MoveSet, SwapSet, InBatch
<1>b. /\ \A w \in MoveSet : w \in Units /\ batch[w].last \in SihotHotels /\ batch[w].last # batch[w].hotel
      /\ \A w \in SwapSet : w \in Units
  BY DEF MoveSet, SwapSet
<1>1. CASE RunSelect
  BY <1>1 DEF RunSelect, Pass, PreRuns, MovesDone, SwapsDone
<1>2. CASE RunStamp
  <2>1. pc' = "swap" /\ todo' = SwapSet /\ UNCHANGED batch
    BY <1>2 DEF RunStamp, Pass
  <2> QED BY <1>s, <2>1 DEF PreRuns, MovesDone, SwapsDone
<1>3. CASE RunNextPass
  <2>1. todo = {} /\ UNCHANGED sh
    BY <1>3 DEF RunNextPass
  <2>2. CASE pc = "swap" /\ Pass("move", MoveSet) /\ UNCHANGED <<batch, failed>>
    BY <1>0, <1>s, <2>1, <2>2 DEF Pass, PreRuns, MovesDone, SwapsDone
  <2>3. CASE pc = "move" /\ Pass("main", MainSet) /\ UNCHANGED <<batch, failed>>
    BY <1>0, <1>s, <2>1, <2>3 DEF Pass, PreRuns, MovesDone, SwapsDone
  <2>4. CASE EndRun
    BY <2>4 DEF EndRun, Pass, PreRuns, MovesDone, SwapsDone
  <2> QED BY <1>3, <2>2, <2>3, <2>4 DEF RunNextPass
<1>4. ASSUME NEW u \in Units, RunSwap(u) PROVE PreRuns'
  <2>1. pc = "swap" /\ pc' = "swap" /\ todo' = todo \ {u} /\ UNCHANGED batch
    BY <1>4 DEF RunSwap
  <2>2. PICK a \in Answers :
          /\ ShUpsert(a, u, batch[u].hotel, batch[u].ver, NoRoom)
          /\ failed' = IF a = "refused" THEN failed \cup {u} ELSE failed
    BY <1>4 DEF RunSwap
  <2>3. \A g \in SihotHotels, w \in Units \ {u} : sh'[g][w] = sh[g][w]
    BY <1>0, <2>2, ShOthers
  <2>4. batch[u].hotel \in SihotHotels /\ a # "refused" => sh'[batch[u].hotel][u].room = NoRoom
    <3> SUFFICES ASSUME batch[u].hotel \in SihotHotels, a # "refused"
                 PROVE  sh'[batch[u].hotel][u].room = NoRoom
      OBVIOUS
    <3>1. sh'[batch[u].hotel][u] = [live |-> TRUE, ver |-> batch[u].ver, room |-> NoRoom]
      BY <1>0, <2>2, ShUpserted
    <3> QED BY <3>1
  <2>5. SwapsDone'
    <3> SUFFICES ASSUME NEW w \in SwapSet, w \notin failed', batch[w].hotel \in SihotHotels,
                        w \notin todo'
                 PROVE  sh'[batch[w].hotel][w].room \in {NoRoom, batch[w].room}
      BY <1>s, <2>1 DEF SwapsDone
    <3>1. CASE w = u
      BY <2>2, <2>4, <3>1
    <3>2. CASE w # u
      BY <1>0, <1>b, <2>1, <2>2, <2>3, <3>2 DEF SwapsDone
    <3> QED BY <3>1, <3>2
  <2> QED BY <2>1, <2>5 DEF PreRuns, MovesDone
<1>5. ASSUME NEW u \in Units, RunMove(u) PROVE PreRuns'
  <2>1. pc = "move" /\ pc' = "move" /\ todo' = todo \ {u} /\ UNCHANGED batch
    BY <1>5 DEF RunMove
  <2>2. PICK a \in Answers :
          /\ ShCancel(a, u, batch[u].last)
          /\ failed' = IF a = "refused" THEN failed \cup {u} ELSE failed
    BY <1>5 DEF RunMove, CancelHotel
  <2>3. /\ batch[u].last \in SihotHotels /\ a # "refused" => ~sh'[batch[u].last][u].live
        /\ \A g \in SihotHotels, w \in Units :
              /\ sh'[g][w].room = sh[g][w].room
              /\ sh'[g][w].live => sh[g][w].live
    BY <1>0, <2>2, ShCancelled
  <2>4. SwapsDone'
    <3>1. \A w \in SwapSet \ failed : \/ batch[w].hotel \notin SihotHotels
                                      \/ sh[batch[w].hotel][w].room \in {NoRoom, batch[w].room}
      BY <1>0, <2>1 DEF SwapsDone
    <3>2. \A w \in SwapSet \ failed' : \/ batch[w].hotel \notin SihotHotels
                                       \/ sh'[batch[w].hotel][w].room \in {NoRoom, batch[w].room}
      BY <1>b, <2>2, <2>3, <3>1
    <3> QED BY <1>s, <2>1, <3>2 DEF SwapsDone
  <2>5. MovesDone'
    <3> SUFFICES ASSUME NEW w \in MoveSet, w \notin failed', w \notin todo'
                 PROVE  ~sh'[batch[w].last][w].live
      BY <1>s, <2>1 DEF MovesDone
    <3>1. CASE w = u
      BY <1>b, <2>2, <2>3, <3>1
    <3>2. CASE w # u
      <4>1. ~sh[batch[w].last][w].live
        BY <1>0, <2>1, <2>2, <3>2 DEF MovesDone
      <4> QED BY <1>b, <2>3, <4>1
    <3> QED BY <3>1, <3>2
  <2> QED BY <2>4, <2>5 DEF PreRuns
<1>6. ASSUME NEW u \in Units, RunSkip(u) PROVE PreRuns'
  <2>1. pc = "main" /\ pc' = "main" /\ UNCHANGED <<batch, failed, sh>>
    BY <1>6 DEF RunSkip
  <2> QED BY <1>0, <1>s, <2>1 DEF PreRuns, MovesDone, SwapsDone
<1>7. ASSUME NEW u \in Units, RunMain(u) PROVE PreRuns'
  <2>1. pc = "main" /\ pc' = "main" /\ UNCHANGED <<batch, failed>> /\ batch[u].hotel \in SihotHotels
    BY <1>7 DEF RunMain
  <2>2. PICK a \in Answers : ShUpsert(a, u, batch[u].hotel, batch[u].ver, batch[u].room)
    BY <1>7 DEF RunMain, SentRoom
  <2>3. /\ \A g \in SihotHotels, w \in Units \ {u} : sh'[g][w] = sh[g][w]
        /\ \A g \in SihotHotels \ {batch[u].hotel}, w \in Units : sh'[g][w] = sh[g][w]
    BY <1>0, <2>2, ShOthers, ShElsewhere
  <2>4. \/ sh'[batch[u].hotel][u].room = batch[u].room
        \/ sh'[batch[u].hotel][u] = sh[batch[u].hotel][u]
    <3>1. CASE a = "refused"
      BY <2>2, <3>1 DEF ShUpsert
    <3>2. CASE a # "refused"
      <4>1. sh'[batch[u].hotel][u] = [live |-> TRUE, ver |-> batch[u].ver, room |-> batch[u].room]
        BY <1>0, <2>1, <2>2, <3>2, ShUpserted
      <4> QED BY <4>1
    <3> QED BY <3>1, <3>2
  <2>5. SwapsDone'
    <3> SUFFICES ASSUME NEW w \in SwapSet \ failed, batch[w].hotel \in SihotHotels
                 PROVE  sh'[batch[w].hotel][w].room \in {NoRoom, batch[w].room}
      BY <1>s, <2>1 DEF SwapsDone
    <3>1. sh[batch[w].hotel][w].room \in {NoRoom, batch[w].room}
      BY <1>0, <2>1 DEF SwapsDone
    <3> QED BY <1>b, <2>3, <2>4, <3>1
  <2>6. MovesDone'
    <3> SUFFICES ASSUME NEW w \in MoveSet, w \notin failed
                 PROVE  ~sh'[batch[w].last][w].live
      BY <1>s, <2>1 DEF MovesDone
    <3>1. ~sh[batch[w].last][w].live
      BY <1>0, <2>1 DEF MovesDone
    <3> QED BY <1>b, <2>3, <3>1
  <2> QED BY <2>5, <2>6 DEF PreRuns
<1> QED BY <1>1, <1>2, <1>3, <1>4, <1>5, <1>6, <1>7 DEF RunStep

\* Any step.
LEMMA NextKeepsPreRuns == TypeOK /\ PreRuns /\ [Next]_vars => PreRuns'
<1> SUFFICES ASSUME TypeOK, PreRuns, [Next]_vars PROVE PreRuns'
  OBVIOUS
<1>1. ASSUME NEW S \in SUBSET Units, UserChange(S) \/ UserCommit(S) PROVE PreRuns'
  BY <1>1, PreRunsFrame DEF UserChange, UserCommit, runVars
<1>2. CASE Crash
  BY <1>2 DEF Crash, EndRun, Pass, PreRuns, MovesDone, SwapsDone
<1>3. CASE UNCHANGED vars
  BY <1>3, PreRunsFrame DEF vars, runVars
<1> QED BY <1>1, <1>2, <1>3, RunKeepsPreRuns DEF Next

\* In the main run each unit of the batch that the pre-runs are for has been cancelled in its
\* old hotel, or wiped from its room, or was refused.
THEOREM PreRunsDone == Spec => [](MovesDone /\ SwapsDone)
<1>1. Init => PreRuns
  BY DEF Init, PreRuns, MovesDone, SwapsDone
<1>2. PreRuns => MovesDone /\ SwapsDone
  BY DEF PreRuns
<1> QED BY <1>1, <1>2, TypeCorrect, NextKeepsPreRuns, PTL DEF Spec

-----------------------------------------------------------------------------
(***************************************************************************)
(* The rooms of a batch fit.                                               *)
(***************************************************************************)

\* What is committed stays exclusive, and a batch is a copy of it.
LEMMA NextKeepsFit ==
    TypeOK /\ RoomsExclusive(ru) /\ BatchFits /\ [Next]_vars => RoomsExclusive(ru)' /\ BatchFits'
<1> SUFFICES ASSUME TypeOK, RoomsExclusive(ru), BatchFits, [Next]_vars
             PROVE  RoomsExclusive(ru)' /\ BatchFits'
  OBVIOUS
<1>1. ASSUME UNCHANGED <<ru, batch>> PROVE RoomsExclusive(ru)' /\ BatchFits'
  BY <1>1 DEF RoomsExclusive, BatchFits, MainSet, InBatch
<1>2. ASSUME NEW S \in SUBSET Units, UserChange(S) PROVE UNCHANGED <<ru, batch>>
  BY <1>2 DEF UserChange, acuVars, runVars
<1>3. ASSUME NEW S \in SUBSET Units, UserCommit(S) PROVE RoomsExclusive(ru)' /\ BatchFits'
  BY <1>3 DEF UserCommit, runVars, RoomsExclusive, BatchFits, MainSet, InBatch
<1>4. ASSUME UNCHANGED ru, EndRun PROVE RoomsExclusive(ru)' /\ BatchFits'
  BY <1>4 DEF EndRun, RoomsExclusive, BatchFits, MainSet, InBatch
<1>5. CASE RunSelect
  <2>1. UNCHANGED ru
    BY <1>5 DEF RunSelect, acuVars
  <2>2. \A w \in MainSet' : /\ w \in Units
                            /\ batch'[w].hotel = ru[w].hotel /\ batch'[w].room = ru[w].room
    BY <1>5 DEF RunSelect, MainSet, InBatch
  <2> QED BY <2>1, <2>2 DEF RoomsExclusive, BatchFits
<1>6. ASSUME NEW u \in Units, NEW h, StoreAndLog(u, h), UNCHANGED batch PROVE UNCHANGED <<ru, batch>>
  BY <1>6 DEF StoreAndLog
<1>7. ASSUME NEW u \in Units, RunSwap(u) \/ RunMove(u) \/ RunSkip(u) \/ RunMain(u)
      PROVE  UNCHANGED <<ru, batch>>
  <2>1. CASE RunSwap(u) \/ RunSkip(u)
    BY <2>1 DEF RunSwap, RunSkip, acuVars
  <2>2. CASE RunMove(u)
    BY <2>2, <1>6 DEF RunMove, acuVars
  <2>3. CASE RunMain(u)
    BY <2>3, <1>6 DEF RunMain, acuVars
  <2> QED BY <1>7, <2>1, <2>2, <2>3
<1>8. CASE RunStep
  <2>1. CASE RunStamp
    BY <1>1, <2>1 DEF RunStamp, acuVars
  <2>2. CASE RunNextPass
    BY <1>1, <1>4, <2>2 DEF RunNextPass, acuVars
  <2> QED BY <1>1, <1>5, <1>7, <1>8, <2>1, <2>2 DEF RunStep
<1>9. CASE Crash
  BY <1>4, <1>9 DEF Crash, acuVars
<1>10. CASE UNCHANGED vars
  BY <1>1, <1>10 DEF vars, acuVars, runVars
<1> QED BY <1>1, <1>2, <1>3, <1>8, <1>9, <1>10 DEF Next

\* In the main run no room of the batch is occupied by a unit of the batch: it has been wiped
\* from the room, or moves to one that fits, or has left the hotel.
LEMMA WipedRoomsFit == PreRuns /\ BatchFits /\ TypeOK => RoomSwapsFit
<1> SUFFICES ASSUME PreRuns, BatchFits, TypeOK, pc = "main",
                    NEW u \in todo, NEW w \in MainSet \ failed,
                    u # w, batch[u].hotel \in SihotHotels, batch[w].last = batch[u].hotel,
                    batch[u].room # NoRoom,
                    sh[batch[u].hotel][w].room = batch[u].room
             PROVE  ~sh[batch[u].hotel][w].live
  BY DEF RoomSwapsFit
<1>1. u \in MainSet
  BY DEF TypeOK, TypeRun
<1>2. CASE batch[w].hotel = batch[u].hotel
  <2>1. w \in SwapSet \ failed
    BY <1>2 DEF SwapSet, MainSet
  <2>2. sh[batch[w].hotel][w].room \in {NoRoom, batch[w].room}
    BY <1>2, <2>1 DEF PreRuns, SwapsDone
  <2>3. batch[u].room # batch[w].room
    BY <1>1, <1>2 DEF BatchFits
  <2> QED BY <1>2, <2>2, <2>3
<1>3. CASE batch[w].hotel # batch[u].hotel
  <2>1. w \in MoveSet /\ w \notin failed
    BY <1>3 DEF MoveSet, MainSet
  <2> QED BY <2>1 DEF PreRuns, MovesDone
<1> QED BY <1>2, <1>3

\* The first pre-run does what it is for, with any number of units, hotels and rooms, and
\* whatever users change meanwhile: units of a batch that exchange their rooms, or take the
\* room of a unit that leaves the hotel, fit, unless Sihot has refused a pre-run.
THEOREM RoomSwapsSucceed == Spec => []RoomSwapsFit
<1> DEFINE Inv == RoomsExclusive(ru) /\ BatchFits
<1>1. Init => Inv
  BY DEF Init, RoomsExclusive, BatchFits, MainSet, InBatch
<1>2. TypeOK /\ Inv /\ [Next]_vars => Inv'
  BY NextKeepsFit
<1>3. PreRuns /\ Inv /\ TypeOK => RoomSwapsFit
  BY WipedRoomsFit
<1>4. MovesDone /\ SwapsDone => PreRuns
  BY DEF PreRuns
<1> QED BY <1>1, <1>2, <1>3, <1>4, TypeCorrect, PreRunsDone, PTL DEF Spec

-----------------------------------------------------------------------------
(***************************************************************************)
(* Moves.  The parts of MoveInv that are about the entries of the log.     *)
(***************************************************************************)
Moves == LastHotelInBatch /\ DatedIfKnown /\ OldHotelWillBeCancelled

\* A step that leaves the tables of Acumen alone, and after which Sihot knows no unit in a
\* hotel where the run was not about to send it.
LEMMA MovesFrame ==
    ASSUME Moves, UNCHANGED <<ru, rul, synced, late, forgotten>>,
           \A w \in Units : InBatch(w)' => InBatch(w) /\ batch'[w] = batch[w],
           \A g \in SihotHotels, w \in Units :
              sh'[g][w].live => sh[g][w].live \/ (InBatch(w) /\ batch[w].hotel = g)
    PROVE  Moves'
<1>1. LastHotelInBatch'
  BY DEF Moves, LastHotelInBatch, MainSet
<1>2. DatedIfKnown'
  BY DEF Moves, DatedIfKnown
<1>3. OldHotelWillBeCancelled'
  <2> SUFFICES ASSUME NEW w \in Units, NEW h \in SihotHotels,
                      sh'[h][w].live \/ (InBatch(w)' /\ batch'[w].hotel = h),
                      h # ru[w].hotel
               PROVE  WillCancel(w, h)'
    BY DEF OldHotelWillBeCancelled
  <2>1. WillCancel(w, h)
    BY DEF Moves, OldHotelWillBeCancelled
  <2> QED BY <2>1 DEF WillCancel, Unsynced
<1> QED BY <1>1, <1>2, <1>3 DEF Moves

\* The fetch: the batch names the unit's own hotel, and the old one of its entry.
LEMMA SelectKeepsMoves ==
    ASSUME TypeOK, Moves, RunSelect
    PROVE  Moves'
<1>1. UNCHANGED <<ru, rul, synced, late, forgotten, sh>>
  BY DEF RunSelect, acuVars, histVars
<1>2. \A w \in Units : InBatch(w)' =>
         /\ w \in Queue
         /\ batch'[w].hotel = ru[w].hotel /\ batch'[w].last = rul[w].last
  BY DEF RunSelect, InBatch
<1>3. LastHotelInBatch'
  BY <1>1, <1>2 DEF LastHotelInBatch, MainSet
<1>4. DatedIfKnown'
  <2> SUFFICES ASSUME NEW w \in Units, InBatch(w)' PROVE rul[w].date # 0
    BY <1>1 DEF Moves, DatedIfKnown
  <2>1. rul[w].date > synced[w] /\ rul[w].date \in Nat /\ synced[w] \in Nat
    BY <1>2, TypeNumbers DEF Queue, Unsynced, Numbers
  <2> QED BY <2>1
<1>5. OldHotelWillBeCancelled'
  <2> SUFFICES ASSUME NEW w \in Units, NEW h \in SihotHotels, sh[h][w].live, h # ru[w].hotel
               PROVE  WillCancel(w, h)'
    BY <1>1, <1>2 DEF OldHotelWillBeCancelled
  <2>1. WillCancel(w, h)
    BY DEF Moves, OldHotelWillBeCancelled
  <2> QED BY <1>1, <2>1 DEF WillCancel, Unsynced
<1> QED BY <1>3, <1>4, <1>5 DEF Moves

\* A commit: the entry remembers the hotel that the unit leaves, which is queued or late; what
\* the entry before it asked for is forgotten.
LEMMA CommitKeepsMoves ==
    ASSUME TypeOK, QueueInv, Moves, NEW S \in SUBSET Units, UserCommit(S)
    PROVE  Moves'
<1>0. Numbers /\ TypeAcu /\ TypeHist /\ clock \in Nat
  BY TypeNumbers DEF Numbers, TypeOK
<1>1. /\ UNCHANGED <<synced, batch, sh>> /\ MainSet' = MainSet
      /\ \A w \in Units : InBatch(w)' <=> InBatch(w)
  BY DEF UserCommit, runVars, MainSet, InBatch
<1>2. \A w \in Units \ S : ru'[w] = ru[w] /\ rul'[w] = rul[w] /\ late'[w] = late[w]
  BY <1>0 DEF UserCommit, TypeAcu, TypeHist
<1>3. \A w \in S : /\ w \in Units /\ ru'[w] = tx[w].row
                   /\ rul'[w] = QueueEntry(w, tx[w].row.hotel, tx[w].date)
                   /\ late'[w] = IF tx[w].date <= synced[w] THEN tx[w].row.ver ELSE late[w]
  BY DEF UserCommit
<1>4. \A w \in S : /\ rul'[w].date = tx[w].date
                   /\ rul[w].date # 0 => rul'[w].last = ru[w].hotel
  <2> TAKE w \in S
  <2>1. rul'[w] = [date |-> tx[w].date,
                   last |-> IF rul[w].date = 0 THEN tx[w].row.hotel ELSE ru[w].hotel]
    BY <1>3 DEF QueueEntry
  <2> QED BY <2>1
<1>5. \A w \in S : /\ rul[w].date < tx[w].date
                   /\ tx[w].date \in Nat /\ rul[w].date \in Nat /\ synced[w] \in Nat
  BY <1>0, <1>3 DEF UserCommit, QueueInv, DatesInPast, Numbers
<1>6. forgotten \subseteq forgotten' /\ (\A w \in S : MovePending(w) => w \in forgotten')
  BY DEF UserCommit
<1>7. LastHotelInBatch'
  <2> SUFFICES ASSUME NEW w \in MainSet, batch[w].date = rul'[w].date
               PROVE  batch[w].last = rul'[w].last
    BY <1>1 DEF LastHotelInBatch
  <2>1. w \in Units /\ batch[w].date <= rul[w].date /\ batch[w].date \in Nat
    BY <1>0 DEF QueueInv, BatchIsCurrentOrOlder, Numbers
  <2>2. w \notin S
    BY <1>4, <1>5, <2>1
  <2> QED BY <1>2, <2>1, <2>2 DEF Moves, LastHotelInBatch
<1>8. DatedIfKnown'
  <2> SUFFICES ASSUME NEW w \in Units, InBatch(w) \/ (\E h \in SihotHotels : sh[h][w].live)
               PROVE  rul'[w].date # 0
    BY <1>1 DEF DatedIfKnown
  <2>1. CASE w \in S
    BY <1>4, <1>5, <2>1
  <2>2. CASE w \notin S
    BY <1>2, <2>2 DEF Moves, DatedIfKnown
  <2> QED BY <2>1, <2>2
<1>9. OldHotelWillBeCancelled'
  <2> SUFFICES ASSUME NEW w \in Units, NEW h \in SihotHotels,
                      sh[h][w].live \/ (InBatch(w) /\ batch[w].hotel = h),
                      h # ru'[w].hotel
               PROVE  WillCancel(w, h)'
    BY <1>1 DEF OldHotelWillBeCancelled
  <2>1. rul[w].date # 0
    BY DEF Moves, DatedIfKnown
  <2>2. h # ru[w].hotel => WillCancel(w, h)
    BY DEF Moves, OldHotelWillBeCancelled
  <2>3. CASE w \notin S
    BY <1>1, <1>2, <1>6, <2>2, <2>3 DEF WillCancel, Unsynced
  <2>4. CASE w \in S /\ h = ru[w].hotel
    <3>1. rul'[w].last = h /\ rul'[w].date = tx[w].date
      BY <1>4, <2>1, <2>4
    <3>2. CASE tx[w].date <= synced[w]
      BY <1>3, <2>4, <3>1, <3>2 DEF WillCancel
    <3>3. CASE ~(tx[w].date <= synced[w])
      BY <1>1, <1>5, <2>4, <3>1, <3>3 DEF WillCancel, Unsynced
    <3> QED BY <3>2, <3>3
  <2>5. CASE w \in S /\ h # ru[w].hotel
    BY <1>6, <2>2, <2>5 DEF WillCancel, MovePending
  <2> QED BY <2>3, <2>4, <2>5
<1> QED BY <1>7, <1>8, <1>9 DEF Moves

\* What the run logs as synced: the move that it has cancelled is done, one that Sihot has
\* refused to cancel is forgotten, and one that was dated since the fetch is queued, or late,
\* or forgotten with the entry that the object id replaces.
LEMMA StoreKeepsMoves ==
    ASSUME TypeOK, QueueInv, Moves, NEW u \in MainSet, NEW h0, StoreAndLog(u, h0),
           UNCHANGED batch,
           \A g \in SihotHotels, w \in Units :
              sh'[g][w].live => sh[g][w].live \/ (InBatch(w) /\ batch[w].hotel = g),
           u \in MoveSet => ~sh'[batch[u].last][u].live \/ u \in failed
    PROVE  Moves'
<1>0. Numbers /\ TypeAcu /\ TypeHist /\ clock \in Nat /\ lastFetch \in Nat /\ u \in Units
  BY TypeNumbers DEF Numbers, TypeOK
<1>1. /\ UNCHANGED ru /\ MainSet' = MainSet
      /\ synced' = [synced EXCEPT ![u] = lastFetch]
      /\ \A w \in Units : InBatch(w)' <=> InBatch(w)
  BY DEF StoreAndLog, LogDate, MainSet, InBatch
<1>2. synced'[u] = lastFetch /\ (\A w \in Units \ {u} : synced'[w] = synced[w])
  BY <1>0, <1>1 DEF TypeAcu
<1>3. \A w \in Units \ {u} : rul'[w] = rul[w] /\ late'[w] = late[w]
  BY <1>0 DEF StoreAndLog, TypeAcu, TypeHist
<1>4. ruObj[u] = h0 => rul'[u] = rul[u]
  BY DEF StoreAndLog
<1>5. ruObj[u] # h0 => rul'[u] = QueueEntry(u, ru[u].hotel, clock + 1)
  BY <1>0 DEF StoreAndLog, TypeAcu
<1>6. ruObj[u] # h0 => /\ rul'[u].date = clock + 1
                       /\ rul'[u].last = ru[u].hotel
  BY <1>5 DEF QueueEntry
<1>7. /\ forgotten \subseteq forgotten'
      /\ u \in failed => u \in forgotten'
      /\ ruObj[u] # h0 /\ rul[u].date # batch[u].date /\ MovePending(u) => u \in forgotten'
  BY DEF StoreAndLog
<1>8. late'[u] = late[u] \/ late'[u] = ru[u].ver
  BY <1>0 DEF StoreAndLog, TypeHist
<1>9. /\ ruObj[u] = h0 /\ rul[u].date # batch[u].date /\ rul[u].date <= lastFetch
      => late'[u] = ru[u].ver
  BY <1>0 DEF StoreAndLog, TypeHist
<1>d. /\ batch[u].date <= rul[u].date /\ rul[u].date <= clock
      /\ batch[u].date \in Nat /\ rul[u].date \in Nat
      /\ batch[u].date = rul[u].date => ru[u].hotel = batch[u].hotel /\ rul[u].last = batch[u].last
  <2>1. batch[u].date = rul[u].date =>
           ru[u] = [ver |-> batch[u].ver, hotel |-> batch[u].hotel, room |-> batch[u].room]
    BY DEF QueueInv, BatchIsCurrentOrOlder
  <2>2. batch[u].date = rul[u].date => ru[u].hotel = batch[u].hotel
    BY <2>1
  <2> QED BY <1>0, <2>2 DEF QueueInv, BatchIsCurrentOrOlder, DatesInPast, Moves, LastHotelInBatch,
                            Numbers
<1>10. LastHotelInBatch'
  <2> SUFFICES ASSUME NEW w \in MainSet, batch[w].date = rul'[w].date
               PROVE  batch[w].last = rul'[w].last
    BY <1>1 DEF LastHotelInBatch
  <2>1. w \in Units
    BY DEF MainSet
  <2>2. CASE w # u \/ ruObj[u] = h0
    BY <1>3, <1>4, <2>1, <2>2 DEF Moves, LastHotelInBatch
  <2>3. CASE w = u /\ ruObj[u] # h0
    BY <1>0, <1>6, <1>d, <2>3
  <2> QED BY <2>2, <2>3
<1>11. DatedIfKnown'
  <2> SUFFICES ASSUME NEW w \in Units, InBatch(w) \/ (\E h \in SihotHotels : sh'[h][w].live)
               PROVE  rul'[w].date # 0
    BY <1>1 DEF DatedIfKnown
  <2>1. rul[w].date # 0
    BY DEF Moves, DatedIfKnown
  <2> QED BY <1>0, <1>3, <1>4, <1>6, <2>1
<1>12. OldHotelWillBeCancelled'
  <2> SUFFICES ASSUME NEW w \in Units, NEW h \in SihotHotels,
                      sh'[h][w].live \/ (InBatch(w) /\ batch[w].hotel = h),
                      h # ru[w].hotel
               PROVE  WillCancel(w, h)'
    BY <1>1 DEF OldHotelWillBeCancelled
  <2>1. WillCancel(w, h)
    BY DEF Moves, OldHotelWillBeCancelled
  <2>2. CASE w # u
    BY <1>1, <1>2, <1>3, <1>7, <2>1, <2>2 DEF WillCancel, Unsynced
  <2>3. CASE u \in forgotten'
    BY <2>2, <2>3 DEF WillCancel
  <2>4. CASE w = u /\ u \notin forgotten'
    <3>1. rul[u].last = h /\ (Unsynced(u) \/ late[u] = ru[u].ver) /\ u \notin failed
      BY <1>7, <2>1, <2>4 DEF WillCancel
    <3>2. CASE batch[u].date = rul[u].date
      <4>1. batch[u].hotel = ru[u].hotel /\ batch[u].last = h
        BY <1>d, <3>1, <3>2
      <4>2. u \in MoveSet
        BY <2>4, <4>1 DEF MoveSet, MainSet
      <4>3. ~sh'[h][u].live
        BY <3>1, <4>1, <4>2
      <4> QED BY <2>4, <4>1, <4>3
    <3>3. CASE batch[u].date # rul[u].date
      <4>1. MovePending(u)
        BY <2>4, <3>1 DEF MovePending
      <4>2. ruObj[u] = h0
        BY <1>7, <2>4, <3>3, <4>1
      <4>3. rul'[u] = rul[u]
        BY <1>4, <4>2
      <4>4. CASE rul[u].date <= lastFetch
        BY <1>1, <1>9, <2>4, <3>1, <3>3, <4>2, <4>3, <4>4 DEF WillCancel
      <4>5. CASE ~(rul[u].date <= lastFetch)
        BY <1>0, <1>2, <1>d, <2>4, <3>1, <4>3, <4>5 DEF WillCancel, Unsynced
      <4> QED BY <4>4, <4>5
    <3> QED BY <3>2, <3>3
  <2> QED BY <2>2, <2>3, <2>4
<1> QED BY <1>10, <1>11, <1>12 DEF Moves

\* A request of a run gives life to a unit of the batch in its hotel, and to nothing else.
LEMMA ShRevives ==
    ASSUME TypeSh, NEW u \in MainSet, NEW a, NEW h, NEW ver, NEW room,
           (ShUpsert(a, u, h, ver, room) /\ h = batch[u].hotel) \/ ShCancel(a, u, h)
    PROVE  \A g \in SihotHotels, w \in Units :
              sh'[g][w].live => sh[g][w].live \/ (InBatch(w) /\ batch[w].hotel = g)
<1>1. u \in Units /\ InBatch(u)
  BY DEF MainSet
<1>2. CASE ShUpsert(a, u, h, ver, room) /\ h = batch[u].hotel
  <2>1. \A g \in SihotHotels, w \in Units : g # h \/ w # u => sh'[g][w] = sh[g][w]
    BY <1>1, <1>2, ShOthers, ShElsewhere
  <2> QED BY <1>1, <1>2, <2>1
<1>3. CASE ShCancel(a, u, h)
  BY <1>1, <1>3, ShCancelled
<1> QED BY <1>2, <1>3

\* Every step of a run.
LEMMA RunKeepsMoves ==
    ASSUME TypeOK, QueueInv, MovesDone, Moves, RunStep
    PROVE  Moves'
<1>0. TypeAcu /\ TypeRun /\ TypeSh
  BY DEF TypeOK
<1>b. ASSUME UNCHANGED batch
      PROVE  \A w \in Units : InBatch(w)' => InBatch(w) /\ batch'[w] = batch[w]
  BY <1>b DEF InBatch
<1>a. ASSUME UNCHANGED <<acuVars, userVars, histVars>>
      PROVE  UNCHANGED <<ru, rul, synced, late, forgotten>>
  BY <1>a DEF acuVars, userVars, histVars
<1>2. CASE RunStamp
  <2>1. UNCHANGED batch /\ UNCHANGED sh /\ UNCHANGED <<acuVars, userVars, histVars>>
    BY <1>2 DEF RunStamp
  <2> QED BY <1>a, <1>b, <2>1, MovesFrame
<1>3. CASE RunNextPass
  <2>1. UNCHANGED sh /\ UNCHANGED <<acuVars, userVars, histVars>>
    BY <1>3 DEF RunNextPass
  <2>2. \A w \in Units : InBatch(w)' => InBatch(w) /\ batch'[w] = batch[w]
    <3>1. CASE EndRun
      BY <3>1 DEF EndRun, InBatch
    <3>2. CASE UNCHANGED batch
      BY <1>b, <3>2
    <3> QED BY <1>3, <3>1, <3>2 DEF RunNextPass
  <2> QED BY <1>a, <2>1, <2>2, MovesFrame
<1>4. ASSUME NEW u \in Units, RunSwap(u) PROVE Moves'
  <2>1. u \in MainSet /\ UNCHANGED batch /\ UNCHANGED <<acuVars, userVars, histVars>>
    BY <1>0, <1>4, NextInBatch DEF RunSwap
  <2>2. \E a \in Answers : ShUpsert(a, u, batch[u].hotel, batch[u].ver, NoRoom)
    BY <1>4 DEF RunSwap
  <2>3. \A g \in SihotHotels, w \in Units :
           sh'[g][w].live => sh[g][w].live \/ (InBatch(w) /\ batch[w].hotel = g)
    BY <1>0, <2>1, <2>2, ShRevives
  <2> QED BY <1>a, <1>b, <2>1, <2>3, MovesFrame
<1>5. ASSUME NEW u \in Units, RunMove(u) PROVE Moves'
  <2>1. u \in MainSet /\ UNCHANGED batch
    BY <1>0, <1>5, NextInBatch DEF RunMove
  <2>2. PICK a \in Answers :
          /\ ShCancel(a, u, batch[u].last)
          /\ IF a = "ok" /\ batch[u].hotel \notin SihotHotels
             THEN StoreAndLog(u, batch[u].last)
             ELSE UNCHANGED <<acuVars, userVars, histVars>>
    BY <1>5 DEF RunMove, CancelHotel
  <2>3. \A g \in SihotHotels, w \in Units :
           sh'[g][w].live => sh[g][w].live \/ (InBatch(w) /\ batch[w].hotel = g)
    BY <1>0, <2>1, <2>2, ShRevives
  <2>4. CASE UNCHANGED <<acuVars, userVars, histVars>>
    BY <1>a, <1>b, <2>1, <2>3, <2>4, MovesFrame
  <2>5. CASE a = "ok" /\ StoreAndLog(u, batch[u].last)
    <3>1. u \in MoveSet => batch[u].last \in SihotHotels
      BY DEF MoveSet
    <3>2. u \in MoveSet => ~sh'[batch[u].last][u].live
      BY <1>0, <2>2, <2>5, <3>1, ShCancelled
    <3> QED BY <2>1, <2>3, <2>5, <3>2, StoreKeepsMoves
  <2> QED BY <2>2, <2>4, <2>5
<1>6. ASSUME NEW u \in Units, RunSkip(u) PROVE Moves'
  <2>1. UNCHANGED batch /\ UNCHANGED sh /\ UNCHANGED <<acuVars, userVars, histVars>>
    BY <1>6 DEF RunSkip
  <2> QED BY <1>a, <1>b, <2>1, MovesFrame
<1>7. ASSUME NEW u \in Units, RunMain(u) PROVE Moves'
  <2>1. u \in MainSet /\ pc = "main" /\ UNCHANGED batch
    BY <1>0, <1>7, NextInBatch DEF RunMain
  <2>2. PICK a \in Answers :
          /\ ShUpsert(a, u, batch[u].hotel, batch[u].ver, SentRoom(u))
          /\ IF a = "ok" THEN StoreAndLog(u, batch[u].hotel)
             ELSE UNCHANGED <<acuVars, userVars, histVars>>
    BY <1>7 DEF RunMain
  <2>3. \A g \in SihotHotels, w \in Units :
           sh'[g][w].live => sh[g][w].live \/ (InBatch(w) /\ batch[w].hotel = g)
    BY <1>0, <2>1, <2>2, ShRevives
  <2>4. CASE UNCHANGED <<acuVars, userVars, histVars>>
    BY <1>a, <1>b, <2>1, <2>3, <2>4, MovesFrame
  <2>5. CASE StoreAndLog(u, batch[u].hotel)
    <3>1. ASSUME u \in MoveSet, u \notin failed PROVE ~sh'[batch[u].last][u].live
      <4>1. batch[u].last \in SihotHotels \ {batch[u].hotel}
        BY <3>1 DEF MoveSet
      <4>2. ~sh[batch[u].last][u].live
        BY <2>1, <3>1 DEF MovesDone
      <4>3. sh'[batch[u].last][u] = sh[batch[u].last][u]
        BY <1>0, <2>2, <4>1, ShElsewhere
      <4> QED BY <4>2, <4>3
    <3> QED BY <2>1, <2>3, <2>5, <3>1, StoreKeepsMoves
  <2> QED BY <2>2, <2>4, <2>5
<1> QED BY <1>2, <1>3, <1>4, <1>5, <1>6, <1>7, SelectKeepsMoves DEF RunStep

\* Any step.
LEMMA NextKeepsMoves ==
    TypeOK /\ QueueInv /\ MovesDone /\ Moves /\ [Next]_vars => Moves'
<1> SUFFICES ASSUME TypeOK, QueueInv, MovesDone, Moves, [Next]_vars PROVE Moves'
  OBVIOUS
<1>1. ASSUME UNCHANGED <<ru, rul, synced, late, forgotten, sh>>,
             \A w \in Units : InBatch(w)' => InBatch(w) /\ batch'[w] = batch[w]
      PROVE  Moves'
  BY <1>1, MovesFrame
<1>2. ASSUME NEW S \in SUBSET Units, UserChange(S) PROVE Moves'
  BY <1>1, <1>2 DEF UserChange, acuVars, runVars, histVars, InBatch
<1>3. CASE Crash
  <2>1. \A w \in Units : InBatch(w)' => InBatch(w) /\ batch'[w] = batch[w]
    BY <1>3 DEF Crash, EndRun, InBatch
  <2> QED BY <1>1, <1>3, <2>1 DEF Crash, acuVars, histVars
<1>4. CASE UNCHANGED vars
  BY <1>1, <1>4 DEF vars, acuVars, runVars, histVars, InBatch
<1> QED BY <1>2, <1>3, <1>4, RunKeepsMoves, CommitKeepsMoves DEF Next

\* The inductive invariant of the moves.
THEOREM MoveInvariant == Spec => []MoveInv
<1>1. Init => Moves
  <2> SUFFICES ASSUME Init PROVE Moves
    OBVIOUS
  <2>1. /\ \A u \in Units : ~InBatch(u)
        /\ \A h \in SihotHotels, u \in Units : ~sh[h][u].live
    BY DEF Init, InBatch
  <2> QED BY <2>1 DEF Moves, LastHotelInBatch, DatedIfKnown, OldHotelWillBeCancelled, MainSet
<1>2. MovesDone /\ Moves => MoveInv
  BY DEF Moves, MoveInv
<1> QED BY <1>1, <1>2, TypeCorrect, QueueInvariant, PreRunsDone, NextKeepsMoves, PTL DEF Spec

\* A unit is alive in a hotel of Sihot that is not its own only while the move from there is
\* queued, or when that move was late, refused or replaced by a newer one: whatever Sihot
\* refuses or loses and wherever a run dies.
THEOREM OldHotelIsCancelled == Spec => []OldHotelCancelledOrForgotten
<1>1. MoveInv => OldHotelCancelledOrForgotten
  BY DEF MoveInv, OldHotelWillBeCancelled, OldHotelCancelledOrForgotten, WillCancel
<1> QED BY <1>1, MoveInvariant, PTL

\* A step that logs a move as synced is the cancellation in the old hotel itself, or one of the
\* main run, that comes after the pass of the cancellations.
LEMMA LoggedMoveIsDone ==
    ASSUME TypeOK, MovesDone, [Next]_vars, NEW u \in MoveSet, synced'[u] # synced[u]
    PROVE  ~sh'[batch[u].last][u].live \/ u \in failed
<1>0. TypeAcu /\ TypeSh /\ u \in Units /\ batch[u].last \in SihotHotels \ {batch[u].hotel}
  BY DEF TypeOK, MoveSet
<1>1. ASSUME UNCHANGED synced PROVE FALSE
  BY <1>1
<1>2. ASSUME NEW w \in Units, NEW h, StoreAndLog(w, h) PROVE w = u
  BY <1>0, <1>2 DEF StoreAndLog, TypeAcu
<1>3. ASSUME NEW w \in Units, RunMove(w) PROVE ~sh'[batch[u].last][u].live
  <2>1. PICK a \in Answers :
          /\ ShCancel(a, w, batch[w].last)
          /\ IF a = "ok" /\ batch[w].hotel \notin SihotHotels
             THEN StoreAndLog(w, batch[w].last)
             ELSE UNCHANGED <<acuVars, userVars, histVars>>
    BY <1>3 DEF RunMove, CancelHotel
  <2>2. a = "ok" /\ StoreAndLog(w, batch[w].last)
    BY <1>1, <2>1 DEF acuVars
  <2>3. w = u
    BY <1>2, <2>2
  <2> QED BY <1>0, <2>1, <2>2, <2>3, ShCancelled
<1>4. ASSUME NEW w \in Units, RunMain(w) PROVE ~sh'[batch[u].last][u].live \/ u \in failed
  <2>1. PICK a \in Answers :
          /\ ShUpsert(a, w, batch[w].hotel, batch[w].ver, SentRoom(w))
          /\ IF a = "ok" THEN StoreAndLog(w, batch[w].hotel)
             ELSE UNCHANGED <<acuVars, userVars, histVars>>
    BY <1>4 DEF RunMain
  <2>2. w = u
    BY <1>1, <1>2, <2>1 DEF acuVars
  <2>3. sh'[batch[u].last][u] = sh[batch[u].last][u]
    BY <1>0, <2>1, <2>2, ShElsewhere
  <2>4. pc = "main"
    BY <1>4 DEF RunMain
  <2> QED BY <2>3, <2>4 DEF MovesDone
<1>5. ASSUME NEW w \in Units, RunSwap(w) \/ RunSkip(w) PROVE FALSE
  BY <1>1, <1>5 DEF RunSwap, RunSkip, acuVars
<1>6. CASE RunSelect \/ RunStamp \/ RunNextPass \/ Crash
  BY <1>1, <1>6 DEF RunSelect, RunStamp, RunNextPass, Crash, acuVars
<1>7. ASSUME NEW S \in SUBSET Units, UserChange(S) \/ UserCommit(S) PROVE FALSE
  BY <1>1, <1>7 DEF UserChange, UserCommit, acuVars
<1>8. CASE UNCHANGED vars
  BY <1>1, <1>8 DEF vars, acuVars
<1>9. CASE RunStep
  BY <1>3, <1>4, <1>5, <1>6, <1>9 DEF RunStep
<1> QED BY <1>6, <1>7, <1>8, <1>9 DEF Next

\* A move is logged as synced only after the reservation in the old hotel is cancelled, or Sihot
\* has refused to cancel it in this run.
THEOREM MoveIsLoggedWhenDone == Spec => MoveSyncedMeansCancelledOrRefused
<1> DEFINE Logged == \A u \in MoveSet :
              synced'[u] # synced[u] => ~sh'[batch[u].last][u].live \/ u \in failed
<1>1. TypeOK /\ MovesDone /\ [Next]_vars => Logged
  BY LoggedMoveIsDone
<1>2. TypeOK /\ MovesDone /\ [Next]_vars => [Logged]_vars
  BY <1>1
<1> QED BY <1>2, TypeCorrect, PreRunsDone, PTL DEF Spec, MoveSyncedMeansCancelledOrRefused
=============================================================================
