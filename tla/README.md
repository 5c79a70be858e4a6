# AcuSihotInterfaces in TLA+

AcuSihotInterfaces keeps four systems in step: **Acumen** (Oracle: timeshare owners and their
reservations), **Sihot.PMS** (the hotel's property management system), **AssCache** (a
Postgres cache of clients and reservations) and **Salesforce**. This directory holds TLA+
modules of its parts, the TLC configurations that check them, and proofs for TLAPS.

    tlc -config BssFaults.cfg MCBssSync      # one of the runs below
    tlc -config AcuMoves.cfg MCAcuResSync
    tlapm BssSyncProofs.tla                  # a proof module

`PROJECT.json` lists the components, the runs, a mutant of the code for every checked
property, the source lines behind every definition, the hazards and the theorems.

## 1. The system

### Who talks to whom

    Acumen --SihotResSync--> Sihot --CR/CI/CO/RM--> BssServer --> AssCache --sync thread--> Salesforce
       ^     (WatchPupPy)      |  ^                                  ^                         ^
       +----AcuServer <--------+  +--SihotResImport                  +------- SysDataMan ------+

| Component | State | Operations | What is hard | What makes it correct | Module |
|---|---|---|---|---|---|
| **BssServer, connection threads** (`BssServer.py:357-632`) | rows of `res_groups`, the operation codes | `oc_res_change` (CR), `oc_room_change` (CI, CO, RM), `reload_oc_config`, each thread with its own database connection | concurrent with each other and with the sync thread; the clock is read long before the commit; errors are acknowledged and the notification is never repeated; the operation codes are shared without a lock | a change that was committed is propagated; a notification is treated as the file says | `BssSync`, `RoomCache`, `OcConfig` |
| **BssServer, sync thread** (`BssServer.py:156-241, 284-352`) | locals of a run: the time a round began, the selected row | select the oldest changed row; fetch, save, send, stamp; send and stamp a room | five separate transactions and two remote systems per round; every step may fail; rows change meanwhile | nothing is stamped as synced that was not sent; nothing goes back in time | `BssSync` |
| **BssServer, timer** (`BssServer.py:244-281, 335-352, 635-652`) | `sync_run_requested`, `sync_timer`, `sync_lock` | `check_and_init_sync_to_sf` | nobody restarts a dead thread | the next run always comes | `BssSync` |
| **AssSysData, reservations** (`sys_data_ass.py`) | `res_groups`, `res_group_clients` | `rgr_upsert`, `rgr_complete_ids`, `res_save`, `sf_ass_res_upsert`, `sf_ass_room_change`, `sh_room_change_to_ass` | several ids for a row, each of which may be missing; errors in a shared string | one row per reservation, the id of the live Opportunity | `BssSync`, `RoomCache`, `ResIds`, `RciWeeks` |
| **AssSysData, clients** (`sys_data_ass.py`) | `clients`, a list in memory | `cl_ensure_id`, `cl_save`, look-ups | two programs create the same client; a rollback leaves the memory | one row per client; a reservation refers to its guests | `AssClients` |
| **AssSysData/SysDataMan, transfers** | records in memory | pull, push, compare of clients and reservations | partial failures, order of the actions, error texts that stay | records end where they were sent; the exit code tells the truth | `DataMan`, `SfConnector` |
| **SihotResSync** (`SihotResSync.py`, `sys_data_acu.py`) | the queue in Acumen | two pre-runs (room swaps, hotel moves) and a main run; clients before them; commit per reservation | pre-runs send and roll back; clients go over a connection of their own | what is logged Sihot has | `AcuResSync`, `AcuClients` |
| **Lock of SihotResSync, WatchPupPy** | an INI variable; last run, next check, next run | load, test, set, reset; runs a command at an interval, kills it at a timeout, resets its lock | the lock is not atomic; killed commands leave it behind | one batch at a time, and there always is a next one | `SyncLock` |
| **Acumen queue** (`sql/*RUL*`, `sql/*SRSL*`, `sql/V_ACU_*`) | `T_RUL`, `T_SRSL`, `T_RU`, `T_CD`, `T_LOG` | triggers that queue, views that select, log inserts | a change during its own transmission | an unsent change stays queued | `AcuResSync`, `AcuClients` |
| **AcuServer, P_SIHOT_ALLOC, SihotOccLogChecker** | `T_ARO` status and times | check-in, check-out, room move; repair from the log | wrong order, repeated and lost calls; the log is read while the server goes on | status and times agree, guests are where Sihot has them | `RoomEvents`, `RoomAlloc` |
| **SihotResImport** | folders of files | collect, load, send, move | cancel, breakOnError, refused bookings | a file leaves the folder when it was sent, the latest version wins | `ResImport` |
| **SihotServer, AcuSihotMonitor** | none that lasts | web services, status screen | | | - |
| **Migrations, validators, testers; ae: validation, notification, calendar, lock file** | none | single-process scripts, conversions | | | - |

`PROJECT.json` says for each of them what is modelled; `hazards` lists what a test of this code
would hardly reach, at the line where it bites.

### Plan

Done, in the order of what can be lost: `BssSync` and its abstraction `SfReplica`; `AcuResSync`; `SyncLock`;
`RoomEvents` with `RoomAlloc` and `RoomCache`; `OcConfig`; `AcuClients`; `AssClients`; `SfConnector` and `DataMan`;
`ResImport`; `RciWeeks` and `ResIds`.

Every safety invariant and action property of the runs is proved as well (section 5).

Left, in the order of what they would add:

1. An abstract specification of the pair queue and Sihot: a unit is as in Acumen, or still queued; shown to be
   implemented by `AcuResSync` as `SfReplica` is by `BssSync`.
2. A CR notification with several reservations and the rental filter; DELETE entries in the queue of Acumen.
3. `cat_by_size()`, and the e-mail and phone look-ups of `cl_save()`, as operators.

Bounds throughout: one or two actors of each kind, two changes of each thing, one or two faults
per behaviour. All modules have CONSTANTS with a named assumption, one action per step between two
commits or remote calls, and no RECURSIVE operator.

## 2. Modules

| Module | Content | MC module | Proofs |
|---|---|---|---|
| `SfReplica` | abstract: a replica that only ever moves forward to versions its source has had | | |
| `BssSync` | the sync thread, the handlers of CR and CI/CO/RM and the part of AssSysData that they use | `MCBssSync` | `BssSyncProofs` |
| `OcConfig` | the operation codes of BssServer and their reload by each connection thread | `MCOcConfig` | `BssSyncProofs` |
| `AcuResSync` | SihotResSync, the queue in Acumen and what Sihot answers, for reservations | `MCAcuResSync` | `AcuResSyncProofs` |
| `AcuClients` | the same for clients, alone and with a reservation, also in SihotMigration | `MCAcuClients` | `AcuClientsProofs` |
| `SyncLock` | the lock of SihotResSync and WatchPupPy | `MCSyncLock` | `SyncLockProofs` |
| `RoomEvents` | Sihot's check-ins, check-outs and room moves, and their notification | `MCRooms` | `RoomProofs` |
| `RoomAlloc` | extends it: AcuServer, P_SIHOT_ALLOC and SihotOccLogChecker | `MCRooms` | `RoomProofs` |
| `RoomCache` | extends it: the same events in AssCache, written by BssServer | `MCRooms` | `RoomProofs` |
| `AssClients` | `res_save()` and `cl_ensure_id()` by two programs | `MCAssClients` | `AssSysDataProofs` |
| `SfConnector` | login, queries, account and external reference upserts of Salesforce | | `DataManProofs` |
| `DataMan` | extends it: a run of SysDataMan | `MCDataMan` | `DataManProofs` |
| `ResImport` | SihotResImport and its folders | `MCResImport` | `ResImportProofs` |
| `RciWeeks` | year and week of an arrival, for every date | | `AssSysDataProofs` |
| `ResIds` | completion of the ids of a reservation | | `AssSysDataProofs` |

`MCRooms` composes both receivers of room events with Sihot; `DataMan` composes SysDataMan with the connector.
The other models share no state: each takes changes from one system to the next, and
the system between two of them is the environment of both.

### BssSync: state

* **Sihot** is two counters per reservation: the version of its data (`shRes`) and of its room
  occupation (`shRoom`). A change appends a notification to `net`, from where the connection threads
  take them in the order in which Sihot sent them.
* **A connection thread** holds the notification it works on and the clock, once it has read it
  (`handling`). Two threads may read the clock, and commit, in another order than they accepted:
  `log/OSUB-NR-empty-bug.txt:6-35` shows three room moves within 125 ms on three connections.
* **`res_groups`**: change and sync stamps of data and room, `rgr_room_id` (standing for
  `rgr_room_id`, `rgr_time_in` and `rgr_time_out`, that always change together) and `rgr_sf_id`.
* **The sync thread** has a label per step that another thread can come between (`pc`), the
  `action_time` of the round and the columns and the fetched versions that it works with (`job`).
* **Salesforce** knows, per reservation, how many Opportunities were created (the number is the id),
  whether the newest one is alive, and which versions it holds.
* **History**: `acked` and `ackedRoom` are the newest versions whose notification was committed;
  `excused` and `excusedRoom` the newest ones that fell into one of the loss windows below.

**Time.** Stamps are only compared. The code asks "was it changed after the last sync began?", so
the clock counts the change stamps handed out: a change stamp is `clock + 1` and moves the clock, a
sync stamp is `clock`. `changed > synced` then holds exactly if the change was stamped after
the sync stamp was read. The clock never runs backwards (no clock adjustment is modelled).

**What a step is.** `Accept` is a thread that takes a notification, reloads the configuration,
connects to the database and parses the XML; `ReadClock` is `action_time = now()`, the first
statement of its handler, `ResCommit` and `RoomCommit` the commit. `RunStamp`, `RunSelectRes`, `RunSelectRoom` are the two queries of `run_sync_to_sf()`,
in separate transactions; `RunFetch`, `RunSave`, `RunSend`, `RunCache`, `RunFinal` are the five
effects of `res_from_sh_to_sf()`; `RunSendRoom`/`RunRoomReset` and `RunFinalRoom` those of
`room_change_to_sf()`. `RunFails`, `RunCacheIdOnly`, `RunSendRejected`, `RunSendLostReply` and
`Crash` are the ways in which a run ends early; `MaxFaults` bounds them.

**Loss windows.** The code does lose changes. Each window has a name, sets `excused` or
`excusedRoom` at the step where it opens:

| Window | What happens |
|---|---|
| overwritten | two handlers commit in another order than they read the clock |
| stamped ahead | a run stops between `rgr_last_sync = now()` and `rgr_last_sync = action_time` |
| overtaken (room) | an older room is committed after a newer one: their threads read the clock, or committed, in another order than Sihot sent |
| late (room) | a room handler commits a stamp that is not newer than a sync stamp that is set, or about to be |
| saved over (room) | `res_save()` writes an older room over a newer one |
| recreated, reset (room) | the Opportunity was deleted; the new one never gets the room |

### BssSync: what is left out

* CR with several reservations, and the filter of rental agencies, whose `return` skips the rest of
  the notification: each CR has one reservation that passes the filter.
* RM with an old sub number commits two rows (`RoomCache`); here each room notification is one row. The time
  stamps of check-in and check-out are part of the room version.
* `roomChangeWithOccupants` (off by default) and the person account (`SfId`) sent along.
* `rgr_complete_ids()` (`ResIds`) and an Opportunity id that Sihot itself passes back in `ResSfId` or
  `GdsNo`; reservations born in Salesforce.
* `SfIdResetResendFragments` is configured with the messages of a deleted Opportunity; without it,
  a deleted Opportunity is rejected for ever. A reservation in `Poison` is rejected until its last change.
* A fetched reservation carries its room number, so `res_save()` writes it.

### AcuResSync: state

* **Acumen, committed**: `ru` is the row of `T_RU` with a version for its data, the hotel and the
  allocated room; `ruObj` is `RU_SIHOT_OBJID`, of which only the hotel matters whose reservation it
  names; `rul` is the newest entry of `T_RUL` (the views look at no other): its date and
  `RUL_SIHOT_LAST_HOTEL`; `synced` is the newest `SRSL_DATE` of a SYNCED entry.
* **Acumen, not committed**: `tx`, the change of a user who has not committed yet. Its date is that of
  the statement (SYSDATE in the trigger), it becomes visible at the commit; the row is locked.
* **SihotResSync**: the pass (`pc`), the fetched records (`batch`), the units the pass has left
  (`todo`), `_last_fetch` and the units that were refused in a pre-run.
* **Sihot**: per hotel and unit whether a reservation is alive, and its version and room.
* **History**: `late`, `forgotten`: the two ways in which something is lost.

**Time** is counted as in `BssSync`: a change is dated `clock + 1`, a fetch `clock`. Dates in the code
have the resolution of a second; two changes in the same second are not distinguished there
(`SRSL_DATE >= RUL_DATE`), here they are.

**What a step is.** `UserChange`, `UserCommit`: a statement and the commit of one or more units of
Acumen's users. `RunSelect`, `RunStamp`: the query, then `_last_fetch = now()`. `RunSwap`, `RunMove`, `RunMain`: a
request of one of the three passes with the answer of Sihot and what is stored of it; `RunSkip` a unit
whose new hotel is not in Sihot; `RunNextPass`; `Crash`: an exception, or the supervisor kills the
run. A request whose result is stored waits while a user holds the lock of the row; nothing
that happens meanwhile depends on it, so that request and store are one step after the wait.

Sihot refuses a room that another reservation of the hotel occupies, and units in `Poison`; it may refuse an
object id of another hotel and a cancellation of what is not alive, and accept them as well.
The connector (package `ae`/`sihot` outside of this repository) is modelled by how it is used.

### AcuResSync: what is left out

* `DELETE` entries and cancelled requests (status 120), units without a market segment rate, past
  stays and the other filters by data of `V_ACU_RES_FILTERED`: every unit passes them.
* Date ranges. Migration mode and clients are in `AcuClients`.
* Where `P_RUL_INSERT` updates the newest entry instead of inserting one, hotel and last hotel
  are the same before and after, so both are the same here. Entries by apartment and board
  triggers are changes like others.
* Errors of the database itself: then the run ends (`Crash`). A user's rollback.
* Two runs at once: `SyncLock` says when that may happen.

### AcuClients

**State.** `cd`, `cdObj`, `cdLog`, `cdSynced` are `T_CD` with its object ids, the newest entry of `T_LOG` and the
newest SYNCED date; `ru...` the same of a reservation; `guest` and `resv` what Sihot has. `tx` is the date of an open
transaction that has changed a client or a reservation: of a user, or of AcuServer, which answers Sihot first and commits
when it closes its connection (`SihotSaves`, `Commit`). `clock` counts the dates as in `AcuResSync`. `pc`, `batch`,
`resBatch`, `todo`, `error` are the locals of a run of SihotResSync or SihotMigration, `cl` the client that is being
sent (person by person, then the log), `job` the reservation whose clients are sent first. Clients and reservations are
each selected in one step (`RunStart`, `RunSelect`) and dated in the next (`RunStamp`, `RunResStamp`, `EnsureStamp`).
`late` is history: the version that was dated before a `_last_fetch` and committed after its query. An object id is stored with
the row locked, so that a person is accepted after an open change of the client is committed.
**Left out**: a transaction of a user or of AcuServer that is rolled back, `clientsFirst=2` (`SihotMigration.py:75-93`), the filter of cancelled reservations, clients that are
not found, `T_CR`. A refused person is an event of the bound `MaxEvents`.

### SyncLock

**State.** `owner` and `lockAge` are the INI variable; `stage` is where each batch is between reading the file and
writing it; `watch`, `sinceCheck`, `sinceRun`, `pause`, `errors`, `forced` are WatchPupPy's loop. Times are kept as
ages, which stop growing when no comparison can tell them apart. `broken` names the ways in which the lock
has failed: *raced* (two batches saw it free), *unlocked* (it could not be written), *released* (a batch that had lost
it writes the -1), *forced* (WatchPupPy has killed another batch), *outlived* (a batch works longer than three
intervals), *overwritten* (it was taken between reading and writing by the reset).

### RoomEvents, RoomAlloc, RoomCache

**State.** `stay` is where Sihot has the guests of an allocation (a booking in an apartment), `log` the log file of the
interface, `net` what the server has not got yet. `aro` is `T_ARO`: one status for all of "not yet occupied",
300/330 for inside, 320/390 for outside, and whether the times are set. `phase`, `dbRows`, `roomStatus`, `fixed` are
a run of the log checker, which compares the time stamps of the log with the midnights of the expected dates
(`Midnight`, `Noon`, in quarters of a day; `Hours` are those at which events happen; `WholeDays` is the option of dates
without times, which truncates them). It goes through the log from its end: `roomStatus` is the event it is at, and whether the
room that was left or the one that was entered is next. `rgr` is the room and the times of a sub-reservation in AssCache; `moving` are moves of which
only the first row is committed. `spoiled` names what the servers do not cope with.
So a check-out later than the noon of the day of departure is never found, nor a check-in after the midnight that begins
the last day of the limit (`Located` says which events are found).
**Left out**: the log checker's AssCache mode. There the columns of its query are shifted by one against those it reads,
so that no row ever matches and nothing is repaired.

### OcConfig

**State.** `file` is the configuration file, `cfg` what was read of it last, `dicts` the dictionaries that threads have
built, `SUPPORTED_OCS` the number of the one in use, `thread` the notification of a thread with its place in
`reload_oc_config()` and `handle_xml()`. A thread is *calm* if it found a correct file and no other thread reloaded or
edited meanwhile. How the text of a file is evaluated belongs to the package `ae`.

### AssClients

**State.** Committed rows (`clients`), the reservations with their foreign keys (`stored`), and for each program the rows of
its open transaction (`inserted`), its list in memory (`cached`) and its place in `res_save()`. The name of a guest
(`who`) is what the properties compare; the programs only see ids. `raced` are guests that two open transactions have created.
BssServer saves a reservation, its clients and its occupants in one transaction (`Commit`); SysDataMan passes `commit=True`
down, so that the row of the reservation is committed with the clients (`CommitRes`), and then each occupant by itself
(`CommitOccupant`). A refused occupant or a kill between them leaves the rest away: `half` names these reservations
until they are saved as a whole. A run starts only while BssServer has reservations left to save (a bound).
**Left out**: `cl_save()` with all ids of a pushed client, matching by e-mail, phone and name, external references.

### SfConnector, DataMan

**State.** `link` is the connection, `accounts` and `refs` are Salesforce; `stored` what the other systems hold;
`todo` the pulls, pushes and compares of the run in the order of the main script, `memory` the records, `errorMessage` the
string that stays, `errorLog` and `exit` what the run tells. A record has one value for all of its fields.
`Guests` are the guests of a reservation: its push onto AssCache creates those that are not known as clients and appends them
to the memory (`AssReservationsPush`), commits the reservation with the clients, then each occupant, so that a refused
occupant leaves it partly saved. An external reference (`Referred` clients have one) is sent in steps, and the session may
expire before each: `refStep` is *check* (`sys_core_sf.py:540`), *object* (548), *find* (558), *update* or *create* (569, 575), or
*stale*, a write with the object of the old session after a new login or its refusal.
History: `want`, `wrote`, `failed`, `differs`, `touched`, `link.overwritten`, and the windows

| Window | What happens |
|---|---|
| `forgotten` | the id of an account was lost: taken out before a call that failed, created without an answer, or only in the memory of a run that is over |
| `unaware` | a run that pushes clients has pulled one without the id of its account: from Acumen, which never gets ids, or a second time. The documented `--pull=AcuC --push=SfC --push=ShC` (`README.md:486`) does so |
| `created` | a push of reservations has created clients: they are in memory as if pulled |
| `blind` | the references of an account could not be looked up |
| `link.overwritten` | the mark of a refused login was overwritten by the error of a write: one more login follows |

An exception ends the run (`Die`): the handlers format it by `format_exc(ex)`, which raises again.
**Left out**: e-mail and phone validation, duplicate rules, Lead and Contact conversion, filters by `where`. A create that
answers with `success` False (`sys_core_sf.py:577, 717`) is not told apart: Salesforce refuses by an HTTP error, which the library
raises, and that is the outcome *refused*.

### ResImport

**State.** The folders (`folder`, `processed`), what Sihot has accepted (`version`, `accepted`), and a run by its loops
(`phase`, `queue`, the collected files `rciFiles` and `jsoFiles`, `rows`, `errs`, `cancelled`). **Left out**: bookings of RCI files. Their client look-up
raises an exception at the first booking (see *Findings*), so that nothing behind it runs; the TCI and BKC
imports are disabled by `if False`.

### RciWeeks, ResIds

Pure operators over all dates, or over every dict of ids and every answer of Sihot. They have no run: the
theorems say more than TLC could evaluate.

## 3. Runs

| Run | Checks | Shows |
|---|---|---|
| `faults` | `TypeOK`, `ResDeliveredOrExcused`, `RoomDeliveredOrExcused`, `ReplicaSpec` | one reservation, two threads, two changes of data and room, one fault of any kind anywhere: losses only in the windows; Salesforce never goes back |
| `opp` | `RowHoldsNewestOpp`, `NoDuplicateOpp` | while the Opportunity is deleted up to twice, the row follows the newest one, and a second one is only created after a deletion |
| `live` | `ResDelivered`, `EventuallyDelivered` | two reservations, the first data of one rejected by Salesforce, one thread, no crash, but two failing, unanswered and undone calls: no change is lost at all, with no excuse, and every one arrives unless a rejected one stays in front of it |
| `acu_moves` | `TypeOK`, `SentOrQueuedOrLate`, `OldHotelCancelledOrForgotten`, `MoveSyncedMeansCancelledOrRefused`, `EventuallySent` | one unit, two hotels of Sihot and one outside, four changes, two faults: what is not sent is queued, no old hotel keeps a reservation but for the windows, a move is not logged before its cancellation, and in the end all is sent but what carries the object id of another hotel |
| `acu_rooms` | `RoomSwapsFit`, `EventuallySent` | two units that exchange a room, `breakOnError`: no order of the batch meets an occupied room, and refusals in one batch are repaired by the next |
| `acu_clients` | `ClientSentOrQueued`, `ResOfKnownGuests`, `EventuallySynced` | a couple and a client that may be a pseudo client, one reservation, both programs, two changes, faults or a refused person: committed later than dated: no client change is lost but in the window between a query and its date, a logged reservation has its guests, all is sent in the end unless a refused client blocks it |
| `sync_lock` | `TypeOK`, `OneBatchOrBroken`, `SyncGoesOn` | WatchPupPy with one user who starts two batches, any two faults: two batches never work at once but in the windows, and WatchPupPy always gets to run again |
| `rooms` | `StatusTimes`, `AllocAgrees`, `CheckRepairs`, `CacheAgrees`, `NotInTwoRooms` | four allocations in three rooms, three events on three days, in the morning or late, notified to AcuServer or to BssServer, one fault, one run of the log checker: times and status agree always; guests are where Sihot has them unless a window was met; the log checker repairs lost and overtaken events that it can find; AssCache shows rooms and times unless a window was met, also between the two rows of a move |
| `oc_config` | `TreatedAsConfigured`, `ReloadIsFinished` | two threads, three codes, five contents of which three are faulty, one edit: a thread that is alone is right in spite of everything before |
| `ass_clients` | `RightGuest`, `OneClientPerId`, `ResStored` | two programs, a couple's reservation and one of its second guest alone, a kill or a rejected statement, also between two commits: what is saved of a reservation refers to its guests, and only SysDataMan leaves some of them away; clients are doubled only by a race; every reservation is stored with all guests in the end |
| `data_man` | `LastPullWins`, `ZeroMeansAll`, `PushedIsEqual`, `LoginNotRepeated`, `OneAccount`, `OneExtRef` | twelve option sets, with and without `breakOnError`, two runs, a failing call or fetch and a change by a user: what a run with exit code 0 has done, and what is done twice in the named windows only |
| `res_import` | `ProcessedDelivered`, `LatestWins`, `ImportGoesOn` | two JSON files with versions of two bookings and an RCI file of any kind, two refusals, kills or cancels |

**Bounds.** A loss in BssServer needs a round, a change before its fetch and one after it, hence two changes; two
handlers of the same reservation to overtake each other, hence two threads; one fault that cuts a
round short. A second reservation only matters for the order in which rows are selected (`live`): rows share
nothing else. The Opportunity can be deleted, recreated, and deleted again while the row still holds the first
id, hence two faults in `opp`. For Acumen, a move is forgotten by the second change after the first, and is loaded
with a second move by the fourth; two units are enough for an exchange of rooms and for an error that ends a batch.
A couple is the largest client; a second client is needed to be sent after, or to block, the first.
The lock needs an interval longer than the timeout of a batch, or each batch of WatchPupPy dies by itself; one user
and WatchPupPy are two batches, the second start of the user is needed for *released*. A check-in, a move and a
check-out are three events; the second booking follows in the same room, the second sub-reservation has two rooms; one hour of
the day before noon and one after are on both sides of every limit of the log checker. The same
three events give AssCache its overtaken notifications, also around the two rows of a move.
The second guest of `ass_clients` is known by one id with the couple, and by both alone: each program may insert it first.
Two threads of `OcConfig` are enough, since a thread only disturbs by what it stores (three threads without an
edit, and two edits with two threads, were checked as well). Two runs of SysDataMan are needed for what one leaves to
the next; the third client of `data_man` is a guest that only a push of reservations finds. The theorems below hold without these bounds.

**Fairness.** Nothing is assumed of users, of faults and of what Sihot or Salesforce refuse: they are bounded, so they stop.

* `live`: weak fairness of the sync thread's step, which includes the timer, because a thread with a next statement
  executes it and `threading.Timer` fires; weak fairness of each connection thread, because TCP delivers.
* `acu_moves`, `acu_rooms`, `acu_clients`: weak fairness of a run's step, since WatchPupPy starts the runs again and
  again; and of `UserCommit`, or `Commit` and `CommitRes`, since a lock that a user never releases would stop the run for ever,
  and AcuServer closes its connection after each request. `EventuallySent`
  excuses late commits, `Poison`, and a unit that carries the object id of another hotel after a
  forgotten move or a stay outside of Sihot: no document says what Sihot answers to it.
* `sync_lock`: time passes, WatchPupPy and the batches execute their next statement; strong fairness of the step
  of WatchPupPy's batch that reads the lock, because it is killed at the timeout and started again, and does not hang
  at this very step each time.
* `ass_clients`: the sync runs of BssServer are repeated by its timer; SysDataMan may never be started.
* `res_import`: the import is started again while files are in the folder, and goes on.

**Deadlock** is checked where something is always to be done (BssServer, SihotResSync, the lock, the operation codes). It is
off in `rooms`, `ass_clients`, `data_man` and `res_import`: all guests have left, all reservations are saved, the last run is
over, the folder is empty.

## 4. Findings

Statements of the repository that the code does not keep, and losses that it accepts. Those with a name in
parentheses are definitions of a module; TLC gives a counterexample when they are listed in its configuration.

BssServer and AssCache

* `oc_room_change()` writes room and time without comparing, and reads the clock only after the
  reload, the connection to the database and the parsing: of two moves that Sihot sends at once on two connections the
  older one may be the last that is written, and stays (window *overtaken*, `RoomDelivered` with two threads).
* `oc_res_change()` writes the time at which it began without comparing. Thread A reads the clock, thread B reads it
  later and commits, a sync round begins between the two stamps, A commits its older stamp after B: B's change may not
  be selected any more (`ResDelivered` with two threads).
* A check-in committed after the fetch is overwritten by `res_save()`; its stamp stays, so the old room is sent and
  stamped (`RoomDelivered`).
* The id of Acumen is written over the id of the Opportunity just created (`RowHoldsNewestOpp` with `AcuKnown`).
* An error ends the run, and the next run starts with the same row: one reservation that Salesforce rejects stops
  all others until it is changed.
* `sf_ass_res_upsert()` commits `rgr_last_sync = now()`, the caller then the time of the round's beginning; a crash
  between leaves the later one. A deleted Opportunity makes `sf_ass_room_change()` reset the row and return no error, so
  that the caller stamps the room though no Opportunity has it; that reset races with a late CR, which takes
  the change stamp back, so that the row has no id and is not due.
* `check_and_init_sync_to_sf()` is called at the start of the server and at the end of a run only: its lock timeout
  (`BssServer.py:254-265`) is never reached. An exception of `close_dbs()` after `BssServer.py:332` kills the thread with
  the lock held; nothing restarts it, although the comment at 628 says "also in case the time thread died".
* Two threads that reload the same dictionary refuse each other's notification, for instance the first two after the
  start of the server ("not implemented", `BssServer.py:490`); a thread that uses a half-resolved dictionary refuses, too. A
  faulty file makes the first notification fail with 90, later ones use the half-resolved dictionary; without
  `IGNORED_OCS` an unknown code raises an exception and gets no answer. All this against "allow to change processing
  of OCs without the need to restart this server" (`BssServer.py:466`).
* An error of the check-out row of a room move stays in `error_message`, so that the check-in is not written either.
* `cl_ensure_id()` promises a key of a client that exists; after a rollback the keys in memory have no row
  (`CachedExists`), the next reservation with this guest is refused, and SysDataMan goes on with them to the end of the run.
* `res_save()` ends with `ass_db.rollback()` after an error (`sys_data_ass.py:1279`), but with `commit=True`, as SysDataMan calls it,
  the reservation and the occupants before the refused one are committed already: it stays without the others until BssServer saves it.
* `rgr_complete_ids()` "True if all required ids could be set" (`sys_data_ass.py:985`), yet it is True without an object id when
  the sub number was guessed as 0. That guess is not reached by the default look-up, which uses the sub number -1.
* The first day of an RCI year that begins in December is given a week of the old year which that year does not have
  (`>` instead of `>=`, `sys_data_ass.py:1319`). It needs a configured `RcWeeks`: the default first Fridays lie in January.
  `('0' + str(week))[:2]` (`sys_data_ass.py:955`) makes week 23 to 02, so that an owner's room is looked for in another week.

Acumen and Sihot

* The trigger dates a change at the statement, the run dates its fetch after its query. A change that is dated between
  the previous one and the fetch, and committed after the query, is neither in the batch nor newer than the SYNCED
  entry (`SentOrQueued`). The comment at `sys_data_acu.py:252` shows that the authors closed most of this window.
* The newest entry remembers one hotel back. Any change between a hotel move and its synchronisation, even an object
  id that a run stores, hides the hotel where the reservation lives (`OldHotelCancelled`). A cancellation in the old
  hotel that Sihot refuses is only mailed, and the main run then logs the move as synced.
* The error of the last client blocks the reservations of the run (`SihotResSync.py:134`). A refused client is alone,
  and so the last one, in the next run: it blocks the reservations as long as it is queued.
* `V_ACU_CD_LOG` leaves pseudo clients out, its comment says; the outer join of `V_ACU_CD_FILTERED` brings them back
  without a log entry, so that they are sent on every run. `sys_data_acu.py:355` says "use for sync only" of clients
  with log entries; those without are sent as well.
* AcuServer answers a changed client before its connection commits: the same window for a change of Sihot's guest, whose entry
  in `T_LOG` is dated earlier. A failed insert of references after their deletion
  loses them.
* The log checker says "process reversed to detect&skip multiple occupation changes on same res"
  (`SihotOccLogChecker.py:468`), but changes a table that was right if a reservation was entered twice (`CheckKeepsRight`);
  a check-out after 12:00 of the day of departure is not looked for at all (`daysCheckOutAfter`, `SihotOccLogChecker.py:70`), a
  check-in only until 0:00 of the last day of the limit; a status 300 or 330 is repaired to 390 where P_SIHOT_ALLOC sets 320. The default of `maxDaysDiff` is 2 in
  `README.md:719` and 3.0 in the code.

SysDataMan and SihotResImport

* `breakOnError`, "Abort processing if error occurs" (`README.md:79`), only ends the loop of a push; an exception
  of any action ends the run whatever the option says.
* A refused login is to be tried once, "preventing lock of user account" (`sys_core_sf.py:359, 365`). The mark is the text of the last
  error. When the session expires between the first question of `cl_ext_ref_upsert()` and its look-up (558), and
  the password was changed, the look-up is refused, but the write that follows uses the object of the old session; its error
  replaces the mark (585, 738), and the next record logs in again (`LoginNeverRepeated`).
* `--pull=AcuC --push=SfC --push=ShC`, the example of `README.md:486`, creates a second account of every client that has one, since
  Acumen does not keep the id of Salesforce: no document says so (`OneAccount` excuses it as `unaware`).
* `--pull=AssC --pull=ShR --push=SfC --push=AssR --compare=SfC` may end with exit code 0 and a difference: the push of reservations
  creates clients in AssCache and in memory that were never pushed to Salesforce (`PushedIsEqual` excuses it as `created`).
* A pull of Salesforce or Sihot clients is merged into the reservations, against `README.md:475-484`. Without `chk_values` the pull of
  Salesforce clients dies at the step for Leads. The push of reservations onto Sihot has a wrong method name (`sys_data_ass.py:2417`).
* `log_error()` asks for `breakOnErrors`, the option is called `breakOnError`: an important error ends the program with a `KeyError`.
* The error text of one record stays in `error_message`: later pushes count as failed though saved, later AssCache pulls are empty.
* `cl_upsert()` takes the Salesforce id out of the record before the call: a refused update loses it, and the next
  push creates a second account. A failed look-up of external references inserts a second one.
* An RCI booking raises an exception in the look-up of its client (`sf_conn.cl_ass_id_by_idx` does not exist, and a tuple is used as a
  record), before anything is sent or moved: one such file in a folder stops all imports (`ErrorsAreSkipped`).
  A run that is cancelled, or ended by `breakOnError`, moves files to *processed* that it has not sent.

## 5. Proofs

The theorems hold for every value of the constants: any reservations, units, clients, threads, files, options and days,
any number of changes and faults. Each module's named assumption only says that the constants have the right type, and
what else is said below. Each safety property of a run is proved by an inductive invariant, which stands with the property at
the end of the module; the proof module has one lemma per action. The invariants were checked with TLC, on the
constants of the runs or others of that size, before they were proved; they are not part of the runs.

| Theorems | Invariant | States checked |
|---|---|---|
| `TypeCorrect`, `NoChangeLost`, `ImplementsReplica`, `AllDelivered` (BssSync) | `DeliveryInv` | 4 939 787 |
| `NoRoomChangeLost` (BssSync) | `RoomInv` | 4 939 787 |
| `NewestOppInRow`, `OneOppAtATime` (BssSync) | `OppInv` | 816 944 |
| `TreatedAsFileSays`, `ReloadFinishes` (OcConfig) | `OcInv` | 653 660 |
| `NothingButLateIsLost`, `PreRunsDone`, `RoomSwapsSucceed`, `OldHotelIsCancelled`, `MoveIsLoggedWhenDone` (AcuResSync) | `QueueInv`, `MovesDone /\ SwapsDone`, `MoveInv` | 341 823, and 223 366 for two units |
| `ClientsAreQueued`, `ReservationsNameKnownGuests` (AcuClients) | `ClientsInv` | 1 698 219 |
| `OneBatch`, `Alone` (SyncLock) | `LockInv` | 174 228 |
| `StatusTimesAgree`, `AcumenShowsSihot`, `CheckerRepairs` (RoomAlloc) | `AllocFollows` | 2 656 441 |
| `CacheShowsSihot`, `GuestInOneRoom` (RoomCache) | `CacheInv` | 280 225 |
| `ReservationsKeepTheirGuests`, `OneClientForAnId` (AssClients) | `ClientInv`, `IdInv` | 1 939 718 |
| `LoginCorrect`, `ZeroIsTrue`, `RefsAreSingle`, `LastPullIsPushed`, `PushedAreEqual`, `OneAccountPerClient` (DataMan) | `WinInv`, `EqualInv`, `AccountInv` | 3 623 488 |
| `ProcessedAreDelivered`, `LatestVersionWins` (ResImport) | `ImportInv` | 545 074 |
| `ArrivalGetsItsWeek`, `FirstDayGetsNoWeek` (RciWeeks), `OnlyNumberedIsWritten` and three more (ResIds) | none: they are about operators | |

### BssSync

* `TypeCorrect`: one lemma per part of the state; the frame lemmas say which actions touch a part.
* `DeliveryInvariant`: `ResDeliveredOrExcused` is not inductive, because at the final stamp nothing in it
  says that what the round has not sent is stamped later. `DeliveryInv` adds what the
  argument needs: stamps are not ahead of the clock (`StampsInPast`) and versions not ahead of
  Sihot (`VersionsInPast`); the round's data is at least as new as Salesforce's, and equal to it after
  the send (`JobInOrder`); a handler or a committed change that the round has not fetched
  has a stamp later than the round's beginning (`NewerIsStampedLater`); a handler in work will
  make its row dirty unless its change has arrived (`InWorkWillBeDirty`). `FetchStep` establishes
  the round's part (everything stamped before is in the fetched version), `ResCommitStep`
  hands the handler's part over to the row, `FinalStep` uses both; `AbortStep` is why "stamped
  ahead" is the only loss of a run that stops; all other steps are instances of `RestampStep`.
* `ImplementsReplica`: `Spec => ReplicaSpec`, with `source <- shRes` and `replica <- sfData`.
  `JobInOrder` makes the send a step forward; every other action stutters or changes the source.
* `AllDelivered`: under `OrderedCommits` (one connection thread, no crash, no failing database, no room events) neither
  of the two windows ever opens (`NothingExcused`), so that no change is lost at all, whatever Salesforce does.
* `RoomInvariant`: nothing is said of the order of notifications and stamps, as there is none. The row has the
  newest room that was committed unless `excusedRoom` covers it (`RowHasNewestRoom`); what a round sends is that room, or will
  be stamped over (`RoomJobInOrder`). A room that an older one replaces, or whose stamp a round will hide, is
  excused at its commit, so that the threads before their commit need no invariant.
* `OppInvariant`: under `NothingLost` (no crash, no failed transaction and no lost answer of Salesforce, for each of
  them loses a new id; and Acumen knows no id if Opportunities may be deleted, for it writes the dead one back). The ids in a
  round are those of its row or of Acumen (`JobIdOfRow`); a row without an id has no Opportunity but one that Acumen knows.

### OcConfig

`OcInv` says of a reload that it will be completed. A dictionary that is not stored yet belongs to one thread, and is
empty; a thread that goes over a dictionary has resolved, or found resolved, all codes behind it (`DictsInWork`); what
was read with an edit number is the content of that edit (`ReadsAreOld`). `SomebodyReloads`: after the last read of a correct file
some thread is about to make or to store a dictionary; or the last one is stored, and the thread in front has resolved
exactly the codes behind it, or is past the last; or all is done. A thread that refuses a notification because it meets a resolved code is never the one in
front. `CalmIsRight` follows a thread that nobody disturbs through its reload.

### AcuResSync

* `TypeCorrect`: per part of the state. A request to a hotel that Sihot does not have changes nothing.
* `QueueInvariant`: `SentOrQueuedOrLate` is not inductive, as nothing in it says what a batch holds when
  it is logged. `QueueInv` adds: no date is ahead of the clock, and an open change is newer than the
  entry that it will replace (`DatesInPast`); what a batch holds of a unit is the committed data, unless the
  entry was dated again (`BatchIsCurrentOrOlder`); and a unit that a run has still to send, or to
  cancel, is queued (`QueuedUntilLogged`), which is why a pre-run may change Sihot at will.
  `StoreKeepsQueue` is the heart: a unit is logged with the date of the fetch, so its entry is
  that of the batch, and was sent just now; or a newer one after the fetch, and still queued; or late.
  `RequestKeepsQueue` covers pre-runs, refusals and lost answers, `QueueFrame` everything else.
* `PreRunsDone`, `RoomSwapsSucceed`: the pre-runs have treated all their units when the main run begins, whatever was refused
  and in whatever order; a room that a unit of the batch needs is only occupied by one that keeps it or was refused.
* `MoveInvariant`: an old hotel where a unit lives is the last hotel of the batch, or of the newest entry, or was forgotten
  (`OldHotelWillBeCancelled`, `LastHotelInBatch`); hence `OldHotelIsCancelled` and the action property `MoveIsLoggedWhenDone`.

### AcuClients

`ClientsInv`: no date is ahead of the clock, and an open change is newer than what is logged of its client (`ClientDates`, `DatesPassed`); a
client that was changed after it was fetched is queued by an entry newer than the fetched one (`ChangedIsQueued`), so that what is logged of it
leaves it queued or falls into the window; accepted persons are as new as fetched (`ClientInFlight`); and which clients of a
reservation are done, of those that it will name (`ResInFlight`).

### SyncLock

`LockInv` strengthens `OneBatchOrBroken` by who is in the file and by who has seen it free.
`OneBatch`: two batches work at once only after a named failure. `Alone`: without batches of users, the only failure is
a file that cannot be written.

### RoomAlloc, RoomCache

Allocations are finite, and one apartment and booking are one allocation (`EventsAssumption`); a sub-reservation belongs to
one booking (`SubsAssumption`).

* `StatusTimesAgree`: what the log checker read is never newer than the table, so that its repairs keep
  status and times together.
* `CacheInvariant`: the log tells the story of each booking (`LogIsStory`), so that a server that has processed its first n events
  shows each booking where it was after n; a move in work is the last event processed (`MovingIsLast`).
* `AllocInvariant`: `AllocFollows` says the same of T_ARO, and of a run of the checker at an event: what is later in the log is
  skipped or right already.
* `CheckerRepairs` holds for all limits of days (of the checker at least one), all hours and both kinds of dates. It needs `Distinct` for the
  checker's own limit, and `Located`: an event is near to its allocation by its time stamp, or is an arrival in a stay that is the only one there. With 4 days in the procedure (`sql/PK_K09_HEADER_ONLY.sql:22`) and 3 in
  the checker, the two limits differ in production; events outside of the procedure's limit are repaired as well.

### AssClients

`RightGuest` holds as every key in a transaction or in memory names a row of that guest (`KeyNamesOneGuest`), rolled back or not; as
`res_save()` has found a client for each guest up to the one it works at, and stored them up to it (`FoundInOrder`); and as
SysDataMan has committed the clients before the first occupant (`OccupantsLast`).
`OneClientPerId`: a program only creates guests whose ids it has not found (`CreatesUnknown`); `raced` guests are the exception.

### DataMan

* `LoginCorrect`: a refused login leaves a mark in the connector that only a new run, or the error of writing an external reference, takes
  away. The latter needs the object of a session that was open, hence an accepted login; after a second refusal there is none.
* `ZeroIsTrue`, `RefsAreSingle`: a failure leaves a line in the error log until the end; an inserted external reference is one that the look-up has not found.
* `LastPullIsPushed`: actions are left in the order of the options (`InOrder`), and the memory is what the last pull read (`MemoryWins`).
* `PushedAreEqual`: what is pulled once stays equal to the systems that were pushed so far. It assumes that no record names the account of
  another client at the start (`StartIdsRight`), and excludes runs with a pull that puts clients among the reservations (`Misplaced`, see *Findings*);
  of clients also runs whose push of reservations has created some.
* `OneAccountPerClient` assumes only that AssCache knows all accounts at the start (`StartIds`); the options are any. Every account is known
  to AssCache or to the memory (`AccountsKnown`), and a run that pushes clients has one record of each with the id of the account
  (`ClientsOnce`), unless it is `Excused`: forgotten, or pulled unaware.

### ResImport

`ImportInv`: every booking of a collected file is still ahead in the run, or was sent, or its file is in the error log
(`NothingDropped`); files are sent in the order of their arrival (`RowsInOrder`), and one that is collected after a newer one was sent has been
collected before (`OlderIsSentAgain`).

### RciWeeks, ResIds

* `ArrivalGetsItsWeek` from the length of a year (365 or 366 days) and of an RCI year (51 to 53 whole weeks, because
  both ends are Fridays); `FirstDayGetsNoWeek` for the exception. The assumption `WeeksAreFridays` is about configured
  first weeks; the default ones are proved to be Fridays.
* `OnlyNumberedIsWritten`, `ObjectIdOrGuess`, `CallersIdsAreKept`, for any dict and any answer of Sihot;
  `NumberWithoutSubIsRefused` if Sihot has no sub number -1.

### Only model-checked

The liveness properties `EventuallyDelivered`, `EventuallySent`, `EventuallySynced`, `SyncGoesOn`, `ResStored` and `ImportGoesOn`:
TLAPS proves nothing about fairness and ENABLED.

## 6. Not modelled

* SihotServer: each request is one call of Sihot; nothing is kept between requests.
* AcuSihotMonitor: a user interface that runs read-only checks and shows their text.
* ShSfClientMigration, SfClientValidator, ClientQuestionnaireExport, MatchcodeToObjId and the testers: one process that goes
  once through the records of a system, without state of its own.
* The lock file of `ae_lockfile` is used by no program. Validation, mail transport, calendar and unicode tables are conversions.
* The lock timeout of BssServer's timer and the RCI, TCI and BKC imports cannot be reached (see *Findings*).
* Values of fields, formats and logs, except where a property is about them.
