--------------------------- MODULE SyncLockProofs ---------------------------
(***************************************************************************)
(* Proofs about the lock of SihotResSync, for any number of batches,       *)
(* intervals and faults.                                                   *)
(***************************************************************************)
EXTENDS SyncLock, TLAPS

Values ==
    /\ owner \in Batches \cup {NoBatch}
    /\ stage \in [Batches -> Stages]
    /\ forced \in BOOLEAN /\ errors \in BOOLEAN
    /\ broken \subseteq {"raced", "unlocked", "released", "forced", "outlived", "overwritten"}

Ages ==
    /\ lockAge \in 0 .. MaxAge
    /\ runTime \in Nat /\ pause \in Nat /\ sinceCheck \in Nat /\ sinceRun \in Nat
    /\ starts \in Nat /\ faults \in Nat

Places ==
    /\ watch \in {"prepare", "sleep", "waitCheck", "waitRun", "run", "reset", "resetWrite",
                  "ended", "unreachable"}
    /\ stage[Child] # "off" <=> watch = "run"

LEMMA TypeParts == TypeOK <=> Values /\ Ages /\ Places
  BY DEF TypeOK, Values, Ages, Places

\* Division of the interval, as far as it is needed here.
LEMMA CheckIntervalNat == CheckInterval \in Nat
  BY LockAssumption DEF CheckInterval

LEMMA InitType == Init => TypeOK
  <1> SUFFICES ASSUME Init PROVE Values /\ Ages /\ Places
    BY TypeParts
  <1>1. Values /\ Places
    BY DEF Init, Values, Places, Batches, Stages
  <1>2. Ages
    BY LockAssumption, CheckIntervalNat DEF Init, Ages, MaxAge
  <1> QED BY <1>1, <1>2

-----------------------------------------------------------------------------
(***************************************************************************)
(* Type correctness, one part of the state at a time.                      *)
(***************************************************************************)

LEMMA StepValues ==
  ASSUME Values, [Next]_vars
  PROVE  Values'
  <1> USE LockAssumption DEF Values, Batches, Stages
  <1>1. ASSUME NEW b \in Manual, StartManual(b) PROVE Values'
    BY <1>1 DEF StartManual, Loaded, watchVars, lockVars
  <1>2. ASSUME NEW b \in Batches, TakeLock(b) PROVE Values'
    BY <1>2 DEF TakeLock, Racing, Fault, watchVars, lockVars
  <1>3. ASSUME NEW b \in Batches, ExitLocked(b) PROVE Values'
    BY <1>3 DEF ExitLocked, Returns, ChildReturns, watchVars, lockVars
  <1>4. ASSUME NEW b \in Batches, Finish(b) PROVE Values'
    BY <1>4 DEF Finish, Release, Returns, ChildReturns, Fault, watchVars, lockVars
  <1>5. ASSUME NEW b \in Batches, Dies(b) PROVE Values'
    BY <1>5 DEF Dies, Returns, ChildReturns, Fault, watchVars, lockVars
  <1>6. CASE Prepare \/ WakeUp \/ EnvCheck \/ StartChild
    BY <1>6 DEF Prepare, WakeUp, EnvCheck, StartChild, Loaded, Fault, lockVars
  <1>7. CASE KillChild \/ ResetRead \/ ResetWrite
    BY <1>7 DEF KillChild, ResetRead, ResetWrite, Fault, lockVars
  <1>8. CASE UserBreak \/ TimerRollsOver \/ Tick
    BY <1>8 DEF UserBreak, TimerRollsOver, Tick, Fault, lockVars
  <1>9. CASE UNCHANGED vars
    BY <1>9 DEF vars
  <1> QED BY <1>1, <1>2, <1>3, <1>4, <1>5, <1>6, <1>7, <1>8, <1>9 DEF Next

LEMMA StepAges ==
  ASSUME Ages, [Next]_vars
  PROVE  Ages'
  <1> USE LockAssumption, CheckIntervalNat DEF Ages, MaxAge
  <1>1. ASSUME NEW b \in Manual, StartManual(b) PROVE Ages'
    BY <1>1 DEF StartManual, watchVars, lockVars
  <1>2. ASSUME NEW b \in Batches, TakeLock(b) PROVE Ages'
    BY <1>2 DEF TakeLock, Fault, watchVars, lockVars
  <1>3. ASSUME NEW b \in Batches, ExitLocked(b) PROVE Ages'
    BY <1>3 DEF ExitLocked, Returns, ChildReturns, watchVars, lockVars
  <1>4. ASSUME NEW b \in Batches, Finish(b) PROVE Ages'
    BY <1>4 DEF Finish, Release, Returns, ChildReturns, Fault, watchVars, lockVars
  <1>5. ASSUME NEW b \in Batches, Dies(b) PROVE Ages'
    BY <1>5 DEF Dies, Returns, ChildReturns, Fault, watchVars, lockVars
  <1>6. CASE Prepare \/ WakeUp \/ EnvCheck \/ StartChild
    BY <1>6 DEF Prepare, WakeUp, EnvCheck, StartChild, Fault, lockVars
  <1>7. CASE KillChild \/ ResetRead \/ ResetWrite
    BY <1>7 DEF KillChild, ResetRead, ResetWrite, Fault, lockVars
  <1>8. CASE UserBreak \/ TimerRollsOver
    BY <1>8 DEF UserBreak, TimerRollsOver, Fault, lockVars
  <1>9. CASE Tick
    BY <1>9 DEF Tick, Older
  <1>10. CASE UNCHANGED vars
    BY <1>10 DEF vars
  <1> QED BY <1>1, <1>2, <1>3, <1>4, <1>5, <1>6, <1>7, <1>8, <1>9, <1>10 DEF Next

LEMMA StepPlaces ==
  ASSUME Values, Places, [Next]_vars
  PROVE  Places'
  <1> USE LockAssumption DEF Values, Places, Batches, Stages
  <1>1. ASSUME NEW b \in Manual, StartManual(b) PROVE Places'
    BY <1>1 DEF StartManual, Loaded, watchVars, lockVars
  <1>2. ASSUME NEW b \in Batches, TakeLock(b) PROVE Places'
    BY <1>2 DEF TakeLock, Fault, watchVars, lockVars
  <1>3. ASSUME NEW b \in Batches, NEW code \in {0, 1, 4, 12, 13},
               stage[b] # "off", Returns(b, code)
        PROVE Places'
    <2>1. CASE b = Child
      BY <1>3, <2>1 DEF Returns, ChildReturns
    <2>2. CASE b # Child
      BY <1>3, <2>2 DEF Returns, watchVars
    <2> QED BY <2>1, <2>2
  <1>4. ASSUME NEW b \in Batches, ExitLocked(b) \/ Finish(b) \/ Dies(b) PROVE Places'
    BY <1>3, <1>4 DEF ExitLocked, Finish, Dies
  <1>6. CASE Prepare \/ WakeUp \/ EnvCheck \/ StartChild
    BY <1>6 DEF Prepare, WakeUp, EnvCheck, StartChild, Loaded, Fault, lockVars
  <1>7. CASE KillChild \/ ResetRead \/ ResetWrite
    BY <1>7 DEF KillChild, ResetRead, ResetWrite, Fault, lockVars
  <1>8. CASE UserBreak \/ TimerRollsOver \/ Tick
    BY <1>8 DEF UserBreak, TimerRollsOver, Tick, Fault, lockVars
  <1>9. CASE UNCHANGED vars
    BY <1>9 DEF vars
  <1> QED BY <1>1, <1>2, <1>4, <1>6, <1>7, <1>8, <1>9 DEF Next

\* Every variable keeps its type, and WatchPupPy waits for its batch as long as that lives.
THEOREM TypeCorrect == Spec => []TypeOK
  <1>1. TypeOK /\ [Next]_vars => TypeOK'
    <2> SUFFICES ASSUME TypeOK, [Next]_vars PROVE TypeOK'
      OBVIOUS
    <2>1. Values /\ Ages /\ Places
      BY TypeParts
    <2>2. Values' /\ Ages' /\ Places'
      BY <2>1, StepValues, StepAges, StepPlaces
    <2> QED BY <2>2 DEF TypeOK, Values, Ages, Places
  <1> QED BY <1>1, InitType, PTL DEF Spec

-----------------------------------------------------------------------------
(***************************************************************************)
(* The lock.                                                               *)
(***************************************************************************)

LEMMA StepLock ==
  ASSUME Values, Places, LockInv, [Next]_vars
  PROVE  LockInv'
  <1> USE LockAssumption DEF Values, Batches, Stages, LockInv, Working
  <1>1. ASSUME NEW b \in Manual, StartManual(b) PROVE LockInv'
    BY <1>1 DEF StartManual, Loaded, watchVars, lockVars
  <1>2. ASSUME NEW b \in Batches, TakeLock(b) PROVE LockInv'
    <2>1. CASE Fault("iniWrite") /\ broken' = broken \cup {"unlocked"}
      BY <2>1
    <2>2. CASE owner' = b /\ broken' = broken \cup Racing(b)
      <3> SUFFICES ASSUME broken' = {} PROVE LockInv'
        BY DEF LockInv
      <3>1. broken = {} /\ Racing(b) = {}
        BY <2>2
      <3>2. \A c \in Batches \ {b} : stage[c] # "sawFree"
        BY <3>1 DEF Racing
      <3>3. stage[b] = "sawFree" /\ stage' = [stage EXCEPT ![b] = "working"]
        BY <1>2 DEF TakeLock
      <3>4. Working = {}
        BY <3>1, <3>3
      <3> QED BY <2>2, <3>1, <3>2, <3>3, <3>4
    <2> QED BY <1>2, <2>1, <2>2 DEF TakeLock
  <1>3. ASSUME NEW b \in Batches, ExitLocked(b) \/ Dies(b) PROVE LockInv'
    <2>1. /\ stage' = [stage EXCEPT ![b] = "off"]
          /\ UNCHANGED <<owner, broken>>
      BY <1>3 DEF ExitLocked, Dies, Returns, lockVars
    <2> QED BY <2>1
  <1>4. ASSUME NEW b \in Batches, Finish(b) PROVE LockInv'
    <2>1. stage[b] = "working" /\ stage' = [stage EXCEPT ![b] = "off"]
      BY <1>4 DEF Finish, Returns
    <2>2. CASE Release(b)
      BY <2>1, <2>2 DEF Release
    <2>3. CASE UNCHANGED <<owner, broken>>
      BY <2>1, <2>3
    <2> QED BY <1>4, <2>2, <2>3 DEF Finish, lockVars
  <1>5. CASE Prepare \/ WakeUp \/ EnvCheck \/ ResetRead \/ TimerRollsOver \/ Tick
    BY <1>5 DEF Prepare, WakeUp, EnvCheck, ResetRead, TimerRollsOver, Tick, lockVars
  <1>6. CASE StartChild
    BY <1>6 DEF StartChild, Loaded, lockVars
  <1>7. CASE KillChild \/ UserBreak
    BY <1>7 DEF KillChild, UserBreak, lockVars
  <1>8. CASE ResetWrite
    BY <1>8 DEF ResetWrite, lockVars
  <1>9. CASE UNCHANGED vars
    BY <1>9 DEF vars
  <1> QED BY <1>1, <1>2, <1>3, <1>4, <1>5, <1>6, <1>7, <1>8, <1>9 DEF Next

\* Until the lock fails in one of the named ways, the batch that works is the one in the file,
\* and no other batch is past the test of the lock.
THEOREM LockCorrect == Spec => []LockInv
  <1>1. Init => LockInv
    BY DEF Init, LockInv, Working
  <1>2. TypeOK /\ LockInv /\ [Next]_vars => LockInv'
    BY TypeParts, StepLock
  <1> QED BY <1>1, <1>2, TypeCorrect, PTL DEF Spec

\* Two batches of SihotResSync only work at once after one of the named failures of the lock.
THEOREM OneBatch == Spec => []OneBatchOrBroken
  <1>1. LockInv => OneBatchOrBroken
    BY DEF LockInv, OneBatchOrBroken
  <1> QED BY <1>1, LockCorrect, PTL

-----------------------------------------------------------------------------
LEMMA StepAlone ==
  ASSUME Values, Places, AloneUnbroken, [Next]_vars
  PROVE  AloneUnbroken'
  <1> USE LockAssumption DEF Values, Batches, Stages
  <1> SUFFICES ASSUME Manual = {}, broken \subseteq {"unlocked"}
               PROVE  broken' \subseteq {"unlocked"}
    BY DEF AloneUnbroken
  <1>1. ASSUME NEW b \in Batches, TakeLock(b) PROVE broken' \subseteq {"unlocked"}
    BY <1>1 DEF TakeLock, Racing
  <1>2. ASSUME NEW b \in Batches, Finish(b) PROVE broken' \subseteq {"unlocked"}
    BY <1>2 DEF Finish, Release
  <1>3. CASE ResetWrite
    <2>1. stage[Child] = "off"
      BY <1>3 DEF ResetWrite, Places
    <2> QED BY <1>3, <2>1 DEF ResetWrite
  <1>4. ASSUME NEW b \in Batches, ExitLocked(b) \/ Dies(b) PROVE broken' \subseteq {"unlocked"}
    BY <1>4 DEF ExitLocked, Dies
  <1>5. CASE Prepare \/ WakeUp \/ EnvCheck \/ StartChild \/ KillChild \/ ResetRead
    BY <1>5 DEF Prepare, WakeUp, EnvCheck, StartChild, KillChild, ResetRead
  <1>6. CASE UserBreak \/ TimerRollsOver \/ Tick
    BY <1>6 DEF UserBreak, TimerRollsOver, Tick
  <1>7. CASE UNCHANGED vars
    BY <1>7 DEF vars
  <1> QED BY <1>1, <1>2, <1>3, <1>4, <1>5, <1>6, <1>7 DEF Next

\* WatchPupPy alone never breaks its own lock: as long as no user starts a batch, the only
\* failure is a lock that could not be written.
THEOREM Alone == Spec => []AloneUnbroken
  <1>1. Init => AloneUnbroken
    BY DEF Init, AloneUnbroken
  <1>2. TypeOK /\ AloneUnbroken /\ [Next]_vars => AloneUnbroken'
    BY TypeParts, StepAlone
  <1> QED BY <1>1, <1>2, TypeCorrect, PTL DEF Spec
=============================================================================
