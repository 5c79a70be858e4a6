------------------------------ MODULE SyncLock ------------------------------
(***************************************************************************)
(* The lock that keeps two batches of SihotResSync apart, and WatchPupPy,  *)
(* which runs the batches.                                                 *)
(*                                                                         *)
(* The lock is a variable of SihotResSync.ini: "@" and the time of its     *)
(* start while a batch works, -1 after it.  A batch loads the file at its  *)
(* start, and decides by what it loaded.  WatchPupPy starts a batch every  *)
(* interval, kills it at a timeout and resets the lock of the one it has   *)
(* killed; after an exit code 4 (locked) it resets the lock if that is     *)
(* older than three intervals.  Users start further batches by hand.       *)
(*                                                                         *)
(* Time.  Ticks of any length that divides the intervals.  Timestamps and  *)
(* timer values are only compared with the current one, so that their ages *)
(* are kept, as far as a comparison can tell them apart.                   *)
(***************************************************************************)
EXTENDS Naturals, FiniteSets

CONSTANTS
    Child,          \* the batch that WatchPupPy runs
    Manual,         \* batches that users start
    NoBatch,        \* nobody
    Interval,       \* cmdInterval
    EnvChecks,      \* envChecks: environment checks per interval
    Timeout,        \* a batch of WatchPupPy is killed after it
    SleepAfterErr,  \* pause after an error
    BreakOnError,   \* breakOnError: WatchPupPy ends with the first error
    Faults,         \* kinds of fault that may happen
    MaxManual,      \* bound: batches started by users
    MaxFaults       \* bound: faults per behaviour

FaultKinds == {"envCheck", "iniWrite", "batchError", "batchDies", "userBreak", "rollOver"}

ASSUME LockAssumption ==
    /\ Child \notin Manual
    /\ NoBatch \notin Manual \cup {Child}
    /\ Interval \in Nat /\ Timeout \in Nat /\ SleepAfterErr \in Nat
    /\ EnvChecks \in Nat \ {0}
    /\ BreakOnError \in BOOLEAN
    /\ Faults \subseteq FaultKinds
    /\ MaxManual \in Nat
    /\ MaxFaults \in Nat

Batches == Manual \cup {Child}
Stages == {"off", "sawFree", "sawLocked", "working"}

CheckInterval == Interval \div EnvChecks

VARIABLES
    \* SihotResSync.ini
    owner,          \* the batch that wrote the "@", or NoBatch if the value has none
    lockAge,        \* age of the time that follows the "@"
    \* SihotResSync
    stage,          \* of each batch
    runTime,        \* age of the current batch of WatchPupPy
    \* WatchPupPy
    watch,          \* where its loop is
    forced,         \* the parameter force of the pending reset_last_run_time()
    errors,         \* the list of errors is not empty
    pause,          \* rest of the pause after an error
    sinceCheck,     \* timer - last_check
    sinceRun,       \* timer - last_run
    \* bounds and history
    starts, faults,
    broken          \* the ways in which the lock has failed

watchVars == <<watch, forced, errors, pause, sinceCheck, sinceRun>>
lockVars == <<owner, lockAge>>
vars == <<owner, lockAge, stage, runTime, watch, forced, errors, pause, sinceCheck, sinceRun,
          starts, faults, broken>>

\* now_dt > last_start_dt + interval_delta
IsStaleNever(age) == age > 3 * Interval /\ age < Interval
IsStale(age) == age > 3 * Interval

MaxAge == 3 * Interval + 1
Older(age, max) == IF age < max THEN age + 1 ELSE age

Fault(kind) == kind \in Faults /\ faults < MaxFaults /\ faults' = faults + 1

Init ==
    /\ owner = NoBatch /\ lockAge = 0
    /\ stage = [b \in Batches |-> "off"]
    /\ runTime = 0
    /\ watch = "waitCheck" /\ forced = FALSE /\ errors = FALSE /\ pause = 0
    /\ sinceCheck = CheckInterval /\ sinceRun = Interval
    /\ starts = 0 /\ faults = 0 /\ broken = {}

-----------------------------------------------------------------------------
(***************************************************************************)
(* SihotResSync.                                                           *)
(***************************************************************************)

\* The configuration, and with it the lock, is loaded when the program starts; the value is
\* tested after all options are read and the mail server is set up.
LoadedAlwaysFree == "sawFree"
Loaded == IF owner = NoBatch THEN "sawFree" ELSE "sawLocked"

\* A user starts a batch.
StartManual(b) ==
    /\ stage[b] = "off"
    /\ starts < MaxManual
    /\ starts' = starts + 1
    /\ stage' = [stage EXCEPT ![b] = Loaded]
    /\ UNCHANGED <<lockVars, runTime, watchVars, faults, broken>>

\* Window "raced": a batch takes the lock while another one that saw it free is about to.
Racing(b) == IF \E c \in Batches \ {b} : stage[c] = "sawFree" THEN {"raced"} ELSE {}

\* cae.set_var(last_rt_prefix + 'lastRt', '@' + now)
TakeLock(b) ==
    /\ stage[b] = "sawFree"
    /\ stage' = [stage EXCEPT ![b] = "working"]
    /\ \/ /\ owner' = b /\ lockAge' = 0
          /\ broken' = broken \cup Racing(b)
          /\ UNCHANGED faults
       \/ \* the error message of set_var() is only mailed, at the end of the batch
          /\ Fault("iniWrite")
          /\ broken' = broken \cup {"unlocked"}
          /\ UNCHANGED lockVars
    /\ UNCHANGED <<runTime, watchVars, starts>>

\* What WatchPupPy does at the end of a batch it has started: after a success the next run
\* is due an interval after the last environment check; after a failure at once.
ChildReturnsUncaught(code) ==
    /\ runTime' = 0
    /\ watch' = IF code = 0 THEN "prepare" ELSE watch
    /\ errors' = (code # 0)
    /\ UNCHANGED <<forced, pause, sinceCheck, sinceRun>>
ChildReturns(code) ==
    /\ runTime' = 0
    /\ IF code = 0
       THEN /\ sinceRun' = sinceCheck
            /\ watch' = "prepare"
            /\ UNCHANGED <<forced, errors>>
       ELSE /\ errors' = TRUE
            /\ watch' = IF code = 4 THEN "reset" ELSE "prepare"
            /\ forced' = FALSE
            /\ UNCHANGED sinceRun
    /\ UNCHANGED <<pause, sinceCheck>>

Returns(b, code) ==
    /\ stage' = [stage EXCEPT ![b] = "off"]
    /\ IF b = Child THEN ChildReturns(code) ELSE UNCHANGED <<runTime, watchVars>>

\* The loaded value starts with "@": cae.shutdown(4)
ExitLocked(b) ==
    /\ stage[b] = "sawLocked"
    /\ Returns(b, 4)
    /\ UNCHANGED <<lockVars, starts, faults, broken>>

\* Window "released": a batch that is not (any longer) the one in the file writes the -1.
Release(b) ==
    /\ owner' = NoBatch /\ lockAge' = 0
    /\ broken' = IF owner \notin {b, NoBatch} THEN broken \cup {"released"} ELSE broken

\* The end of a batch.  Its exit code is 13 if the lock could not be written, else 12 if a
\* reservation was refused, else 0.
Finish(b) ==
    /\ stage[b] = "working"
    /\ \/ /\ Release(b)
          /\ \/ Returns(b, 0) /\ UNCHANGED faults
             \/ Returns(b, 12) /\ Fault("batchError")
       \/ /\ Fault("iniWrite")
          /\ Returns(b, 13)
          /\ UNCHANGED <<lockVars, broken>>
    /\ UNCHANGED starts

\* The process of a batch is killed, or ends at an exception before its release.
Dies(b) ==
    /\ stage[b] # "off"
    /\ Fault("batchDies")
    /\ Returns(b, 1)
    /\ UNCHANGED <<lockVars, starts, broken>>

-----------------------------------------------------------------------------
(***************************************************************************)
(* WatchPupPy.                                                             *)
(***************************************************************************)

\* Top of the loop: errors are mailed, and followed by a pause or by the end of WatchPupPy.
Prepare ==
    /\ watch = "prepare"
    /\ errors' = FALSE
    /\ IF ~errors THEN watch' = "waitCheck" /\ UNCHANGED pause
       ELSE IF BreakOnError THEN watch' = "ended" /\ UNCHANGED pause
       ELSE watch' = "sleep" /\ pause' = SleepAfterErr
    /\ UNCHANGED <<lockVars, stage, runTime, forced, sinceCheck, sinceRun, starts, faults, broken>>

WakeUp ==
    /\ watch = "sleep"
    /\ pause = 0
    /\ watch' = "waitCheck"
    /\ UNCHANGED <<lockVars, stage, runTime, forced, errors, pause, sinceCheck, sinceRun,
                   starts, faults, broken>>

\* The environment check.  A run is prepared if it is due before the next check.
EnvCheck ==
    /\ watch = "waitCheck"
    /\ sinceCheck >= CheckInterval
    /\ \/ /\ sinceCheck' = 0
          /\ watch' = IF sinceRun + CheckInterval < Interval THEN "prepare" ELSE "waitRun"
          /\ UNCHANGED <<errors, faults>>
       \/ /\ Fault("envCheck")
          /\ errors' = TRUE
          /\ watch' = "prepare"
          /\ UNCHANGED sinceCheck
    /\ UNCHANGED <<lockVars, stage, runTime, forced, pause, sinceRun, starts, broken>>

StartChild ==
    /\ watch = "waitRun"
    /\ sinceRun >= Interval
    /\ watch' = "run"
    /\ stage' = [stage EXCEPT ![Child] = Loaded]
    /\ runTime' = 0
    /\ UNCHANGED <<lockVars, forced, errors, pause, sinceCheck, sinceRun, starts, faults, broken>>

\* subprocess.TimeoutExpired: the batch was killed, where it was; its lock is to be reset.
KillChild ==
    /\ watch = "run"
    /\ Interval > 0
    /\ runTime >= Timeout
    /\ stage' = [stage EXCEPT ![Child] = "off"]
    /\ runTime' = 0
    /\ errors' = TRUE
    /\ watch' = "reset" /\ forced' = TRUE
    /\ UNCHANGED <<lockVars, pause, sinceCheck, sinceRun, starts, faults, broken>>

\* reset_last_run_time(), first half: the file is read, and the age of the lock compared.
ResetRead ==
    /\ watch = "reset"
    /\ watch' = IF owner # NoBatch /\ (forced \/ IsStale(lockAge)) THEN "resetWrite" ELSE "prepare"
    /\ UNCHANGED <<lockVars, stage, runTime, forced, errors, pause, sinceCheck, sinceRun,
                   starts, faults, broken>>

\* Second half: the file is written with the value -999, whatever it holds by now.  The lock
\* of a working batch is lost if WatchPupPy has killed another one ("forced"), if it works for
\* more than three intervals ("outlived"), or if it was taken since the file was read
\* ("overwritten").
ResetWrite ==
    /\ watch = "resetWrite"
    /\ watch' = "prepare"
    /\ \/ /\ owner' = NoBatch /\ lockAge' = 0
          /\ broken' = IF owner # NoBatch /\ stage[owner] = "working"
                       THEN broken \cup {IF forced THEN "forced"
                                         ELSE IF IsStale(lockAge) THEN "outlived"
                                         ELSE "overwritten"}
                       ELSE broken
          /\ UNCHANGED faults
       \/ Fault("iniWrite") /\ UNCHANGED <<lockVars, broken>>
    /\ UNCHANGED <<stage, runTime, forced, errors, pause, sinceCheck, sinceRun, starts>>

\* Ctrl+C: WatchPupPy notifies and ends; a batch that it runs is killed.
UserBreak ==
    /\ watch \in {"waitCheck", "waitRun", "run", "sleep"}
    /\ Fault("userBreak")
    /\ watch' = "ended"
    /\ stage' = [stage EXCEPT ![Child] = "off"]
    /\ runTime' = 0
    /\ UNCHANGED <<lockVars, forced, errors, pause, sinceCheck, sinceRun, starts, broken>>

\* The timer starts again at 0.  get_timer_corrected() resets last_run and last_check, but the
\* loop that waits compares the timer with next_check or next_run, that were computed before:
\* the timer will not reach them for a whole period.  Only a loop that has just ended goes on.
TimerRollsOver ==
    /\ watch \in {"waitCheck", "waitRun"}
    /\ Fault("rollOver")
    /\ \/ watch' = "unreachable"
       \/ /\ \/ watch = "waitCheck" /\ sinceCheck >= CheckInterval
             \/ watch = "waitRun" /\ sinceRun >= Interval
          /\ UNCHANGED watch
    /\ sinceRun' = Interval /\ sinceCheck' = CheckInterval
    /\ UNCHANGED <<lockVars, stage, runTime, forced, errors, pause, starts, broken>>

-----------------------------------------------------------------------------
Tick ==
    /\ lockAge' = IF owner = NoBatch THEN lockAge ELSE Older(lockAge, MaxAge)
    /\ runTime' = IF watch = "run" THEN Older(runTime, Timeout) ELSE runTime
    /\ pause' = IF watch = "sleep" /\ pause > 0 THEN pause - 1 ELSE pause
    /\ sinceCheck' = Older(sinceCheck, Interval)
    /\ sinceRun' = Older(sinceRun, Interval)
    /\ UNCHANGED <<owner, stage, watch, forced, errors, starts, faults, broken>>

WatchStep == Prepare \/ WakeUp \/ EnvCheck \/ StartChild \/ KillChild \/ ResetRead \/ ResetWrite
BatchStep(b) == TakeLock(b) \/ ExitLocked(b) \/ Finish(b)

Next ==
    \/ \E b \in Manual : StartManual(b)
    \/ \E b \in Batches : TakeLock(b) \/ ExitLocked(b) \/ Finish(b) \/ Dies(b)
    \/ Prepare \/ WakeUp \/ EnvCheck \/ StartChild \/ KillChild \/ ResetRead \/ ResetWrite
    \/ UserBreak \/ TimerRollsOver
    \/ Tick

Spec == Init /\ [][Next]_vars

\* Time passes; WatchPupPy and the batches of users execute their next statement; a batch of
\* WatchPupPy that is started again and again does not hang before its lock each time.
FairSpec ==
    /\ Spec
    /\ WF_vars(Tick)
    /\ WF_vars(WatchStep)
    /\ \A b \in Manual : WF_vars(BatchStep(b))
    /\ SF_vars(TakeLock(Child) \/ ExitLocked(Child))

-----------------------------------------------------------------------------
(***************************************************************************)
(* Properties.                                                             *)
(***************************************************************************)

\* The values of the variables; the child only lives while WatchPupPy waits for it.
TypeOK ==
    /\ owner \in Batches \cup {NoBatch}
    /\ lockAge \in 0 .. MaxAge
    /\ stage \in [Batches -> Stages]
    /\ runTime \in Nat
    /\ watch \in {"prepare", "sleep", "waitCheck", "waitRun", "run", "reset", "resetWrite",
                  "ended", "unreachable"}
    /\ forced \in BOOLEAN /\ errors \in BOOLEAN
    /\ pause \in Nat /\ sinceCheck \in Nat /\ sinceRun \in Nat
    /\ starts \in Nat /\ faults \in Nat
    /\ broken \subseteq {"raced", "unlocked", "released", "forced", "outlived", "overwritten"}
    /\ stage[Child] # "off" <=> watch = "run"

Working == {b \in Batches : stage[b] = "working"}

\* While the lock has not failed in one of the named ways, a batch that works is the one in
\* the file, and nobody who saw the file free before is still about to take it.
LockInv ==
    broken = {} =>
        /\ \A b \in Working : owner = b
        /\ owner # NoBatch /\ owner \in Working => \A b \in Batches : stage[b] # "sawFree"

\* "Duplicate execution lock" (SihotResSync.py:255): no two batches work at once, but for the
\* windows raced, unlocked, released, forced, outlived and overwritten.
OneBatchOrBroken == broken = {} => \A b, c \in Working : b = c

\* Whatever batch dies, and whatever it leaves in the file: the batches of WatchPupPy always
\* get to work again, unless WatchPupPy was ended, or waits for a time that its timer will not
\* reach any more.
SyncGoesOn == []<>(stage[Child] = "working") \/ <>[](watch \in {"ended", "unreachable"})

\* All lock failures need a batch of a user, or a file that cannot be written.
AloneUnbroken == Manual = {} => broken \subseteq {"unlocked"}

=============================================================================
