---------------------------- MODULE AcuClients ----------------------------
(***************************************************************************)
(* The propagation of clients from Acumen to Sihot: the clients that       *)
(* SihotResSync (option clientsFirst) and SihotMigration send before the   *)
(* reservations, and the clients of a reservation that are sent before the *)
(* reservation itself.                                                     *)
(*                                                                         *)
(* A client is one person or a couple, and each person is a guest of       *)
(* Sihot, found by its matchcode.  T_CD keeps the object ids of the guests *)
(* and T_SRSL logs what was sent; a client is unsynced while no entry of   *)
(* T_SRSL says SYNCED with a date not before its newest entry in T_LOG.    *)
(* A change is dated by its statement and seen when it is committed.       *)
(* The clients of a reservation are sent over a connection of their own,   *)
(* which is committed when it is closed, whatever becomes of the           *)
(* reservation.                                                            *)
(*                                                                         *)
(* Left out: the field values, rooms and hotel moves (AcuResSync), and the *)
(* external references T_CR.                                               *)
(***************************************************************************)
EXTENDS Naturals, Sequences

CONSTANTS
    Clients,        \* CD_CODE
    Couples,        \* clients that are two persons
    MayBePseudo,    \* clients that may have a short code, like TCAG
    Options,        \* clientsFirst and breakOnError, as the programs may be configured
    MayBeRefused,   \* sets of persons that Sihot may always refuse
    Res,            \* requested units
    NoClient,       \* no client is being sent
    NoRes,          \* no reservation is being sent
    NoEntry,        \* not in the batch
    Faults,         \* kinds of fault that may happen
    MaxEvents       \* bound: changes of users and faults per behaviour

FaultKinds == {"crash", "shFail", "shLostReply"}

ASSUME ConstantsAssumption ==
    /\ NoClient \notin Clients
    /\ Options \subseteq [clientsFirst : BOOLEAN, breakOnError : BOOLEAN]
    /\ Couples \cup MayBePseudo \subseteq Clients
    /\ Couples \cap MayBePseudo = {}
    /\ MayBeRefused \subseteq SUBSET (Clients \X {1, 2})
    /\ NoRes \notin Res /\ Clients \cap Res = {}
    /\ Faults \subseteq FaultKinds
    /\ MaxEvents \in Nat

VARIABLES
    \* given: who the clients are, and the options of the programs
    pseudo,         \* clients with a short pseudo code
    refused,        \* persons that Sihot always refuses
    orderer,        \* of a reservation: OC_CODE
    occupant,       \* of a reservation: RU_CDREF
    opt,            \* clientsFirst, breakOnError
    \* Acumen
    cd,             \* T_CD: version of a client
    cdObj,          \* T_CD: persons whose CD_SIHOT_OBJID(2) is set
    cdLog,          \* newest date in V_ACU_CD_LOG, 0 if there is none
    cdSynced,       \* newest SRSL_DATE of a SYNCED entry
    ru, ruLog, ruSynced,    \* the same of a reservation
    tx,             \* date of the open change of a client or reservation, 0 if there is none
    clock,          \* dates given out
    \* Sihot
    guest,          \* version of each person
    resv,           \* reservation: version, and the occupants it names by object id
    \* the program that runs
    pc, prog,
    batch,          \* clients fetched
    resBatch,       \* reservations fetched
    todo,           \* what the loop has left
    lastFetch,      \* _last_fetch of the loops
    error,          \* error_msg of the last client
    cl,             \* AcuClientToSihot: the client being sent
    job,            \* the reservation being sent
    \* environment and history
    events,
    late            \* version that was dated before a _last_fetch and committed after its query

given    == <<pseudo, refused, orderer, occupant, opt>>
cdVars   == <<cd, cdObj, cdLog, cdSynced>>
ruVars   == <<ru, ruLog, ruSynced>>
txVars   == <<tx, clock>>
loopVars == <<pc, prog, batch, resBatch, todo, lastFetch, error>>
vars == <<given, cdVars, ruVars, txVars, guest, resv, loopVars, cl, job, events, late>>

NoCl  == [c |-> NoClient, stage |-> "none", ver |-> 0, log |-> 0, at |-> 0, ok |-> {}, err |-> FALSE]
NoJob == [r |-> NoRes, ensure |-> <<>>, seen |-> [c \in Clients |-> 0], named |-> {}]

Persons(c) == IF c \in Couples THEN {1, 2} ELSE {1}

Init ==
    /\ pseudo \in SUBSET MayBePseudo
    /\ refused \in MayBeRefused
    /\ orderer \in [Res -> Clients]
    /\ occupant \in [Res -> Clients \ MayBePseudo]
    /\ opt \in Options
    /\ cd = [c \in Clients |-> 1]
    /\ cdObj = [c \in Clients |-> {}]
    /\ cdLog = [c \in Clients |-> 0]
    /\ cdSynced = [c \in Clients |-> 0]
    /\ ru = [r \in Res |-> 1]
    /\ ruLog = [r \in Res |-> 1]
    /\ ruSynced = [r \in Res |-> 0]
    /\ tx = [x \in Clients \cup Res |-> 0]
    /\ clock = 1
    /\ guest = [c \in Clients |-> [p \in {1, 2} |-> 0]]
    /\ resv = [r \in Res |-> [ver |-> 0, named |-> {}]]
    /\ pc = "idle"
    /\ prog = "sync"
    /\ batch = [c \in Clients |-> NoEntry]
    /\ resBatch = [r \in Res |-> NoEntry]
    /\ todo = {}
    /\ lastFetch = 0
    /\ error = FALSE
    /\ cl = NoCl
    /\ job = NoJob
    /\ events = IF refused = {} THEN 0 ELSE 1     \* a refused person is one
    /\ late = [x \in Clients \cup Res |-> 0]

Event == events < MaxEvents /\ events' = events + 1

Fault(f) ==
    /\ f \in Faults
    /\ Event

-----------------------------------------------------------------------------
(***************************************************************************)
(* Acumen.                                                                 *)
(***************************************************************************)

\* V_ACU_CD_LOG leaves pseudo clients out, so that they have no entry in it,
Logged(c) == c \notin pseudo

\* Mutant: the log is joined by an inner join.
CdUnsyncedLoggedOnly(c) == cdLog[c] > cdSynced[c]

\* and V_ACU_CD_UNSYNCED takes a client without an entry for unsynced.
CdUnsynced(c) == cdLog[c] = 0 \/ cdLog[c] > cdSynced[c]

RuUnsynced(r) == ruLog[r] > ruSynced[r]

\* AcuClientToSihot has stored the object id of a person and not yet committed it.
Locked(c) == cl.c = c /\ cl.ok # {}

\* The first statement of a transaction; the trigger dates the change, and the row is locked.
Changed(x) ==
    /\ Event
    /\ tx[x] = 0
    /\ tx' = [tx EXCEPT ![x] = clock + 1]
    /\ clock' = clock + 1

\* A user changes a client.
UserSaves(c) ==
    /\ ~Locked(c)
    /\ Changed(c)
    /\ UNCHANGED <<given, cdVars, ruVars, guest, resv, loopVars, cl, job, late>>

\* AcuServer: a guest that was changed in Sihot is saved in T_CD; it commits when it closes
\* the connection, after the answer was made.
SihotSaves(c) ==
    /\ Logged(c) /\ ~Locked(c)
    /\ Changed(c)
    /\ guest' = [guest EXCEPT ![c][1] = cd[c] + 1]
    /\ UNCHANGED <<given, cdVars, ruVars, resv, loopVars, cl, job, late>>

\* A user changes a reservation.
UserSavesRes(r) ==
    /\ Changed(r)
    /\ UNCHANGED <<given, cdVars, ruVars, guest, resv, loopVars, cl, job, late>>

\* The new version is seen.
Commit(c) ==
    /\ tx[c] # 0
    /\ cd' = [cd EXCEPT ![c] = @ + 1]
    /\ cdLog' = IF Logged(c) THEN [cdLog EXCEPT ![c] = tx[c]] ELSE cdLog
    /\ tx' = [tx EXCEPT ![c] = 0]
    /\ UNCHANGED <<given, cdObj, cdSynced, ruVars, clock, guest, resv, loopVars, cl, job, events, late>>

CommitRes(r) ==
    /\ tx[r] # 0
    /\ ru' = [ru EXCEPT ![r] = @ + 1]
    /\ ruLog' = [ruLog EXCEPT ![r] = tx[r]]
    /\ tx' = [tx EXCEPT ![r] = 0]
    /\ UNCHANGED <<given, cdVars, ruSynced, clock, guest, resv, loopVars, cl, job, events, late>>

-----------------------------------------------------------------------------
(***************************************************************************)
(* AcuClientToSihot: one client at a time, in cl.                          *)
(***************************************************************************)
Idle == cl = NoCl /\ job = NoJob

\* The client as it was fetched; at is the _last_fetch of the object that fetched it.
Fetched(c, entry, at, stage) ==
    [c |-> c, stage |-> stage, ver |-> entry.ver, log |-> entry.log, at |-> at, ok |-> {}, err |-> FALSE]

Entry(c) == [ver |-> cd[c], log |-> cdLog[c]]

Answers == {"ok", "refused", "lost"}

\* The answer of Sihot to a request that it must refuse or not.
Answer(a, mustRefuse) ==
    \/ a = "ok" /\ ~mustRefuse /\ UNCHANGED events
    \/ a = "refused" /\ mustRefuse /\ UNCHANGED events
    \/ a = "refused" /\ Fault("shFail")
    \/ a = "lost" /\ ~mustRefuse /\ Fault("shLostReply")

\* Mutant: the second person is sent after an error, too, whose answer replaces it.
NextStageIgnoringError(p, a) == IF p = 1 /\ 2 \in Persons(cl.c) THEN "send2" ELSE "log"
\* send_client_to_sihot(): the second person only after the first one was accepted.
NextStage(p, a) == IF a = "ok" /\ p = 1 /\ 2 \in Persons(cl.c) THEN "send2" ELSE "log"

\* After an answer without error the object id is stored, which waits for a change of the
\* client to be committed, and locks the row.
SendPerson(p) ==
    /\ cl.stage = <<"send1", "send2">>[p]
    /\ \E a \in Answers :
          /\ Answer(a, <<cl.c, p>> \in refused)
          /\ a = "ok" => tx[cl.c] = 0
          /\ guest' = IF a = "refused" THEN guest ELSE [guest EXCEPT ![cl.c][p] = cl.ver]
          /\ cl' = [cl EXCEPT !.stage = NextStage(p, a),
                              !.ok = IF a = "ok" THEN @ \cup {p} ELSE @,
                              !.err = a # "ok"]
    /\ UNCHANGED <<given, cdVars, ruVars, txVars, resv, loopVars, job, late>>

\* add_to_acumen_sync_log(), committed with the stored object ids.  The trigger on T_CD dates
\* a new object id like any change.
StoreAndLog ==
    LET c == cl.c
        newIds == cl.ok \ cdObj[c]
    IN  /\ cdObj' = [cdObj EXCEPT ![c] = @ \cup cl.ok]
        /\ cdSynced' = IF cl.err \/ cl.at < cdSynced[c] THEN cdSynced
                       ELSE [cdSynced EXCEPT ![c] = cl.at]
        /\ IF newIds = {} THEN UNCHANGED <<cdLog, clock>>
           ELSE /\ cdLog' = IF Logged(c) THEN [cdLog EXCEPT ![c] = clock + 1] ELSE cdLog
                /\ clock' = clock + 1
        /\ late' = IF ~cl.err /\ newIds = {} /\ cdLog[c] # cl.log /\ cdLog[c] <= cl.at
                   THEN [late EXCEPT ![c] = cd[c]] ELSE late
        /\ UNCHANGED cd

-----------------------------------------------------------------------------
(***************************************************************************)
(* SihotResSync and SihotMigration: the clients.                           *)
(***************************************************************************)
LeaveLoop(l) ==
    /\ pc' = l
    /\ batch' = [c \in Clients |-> NoEntry]
    /\ resBatch' = [r \in Res |-> NoEntry]
    /\ todo' = {}
    /\ lastFetch' = 0
    /\ error' = FALSE

EndRun == LeaveLoop("idle") /\ prog' = "sync"

\* What a program fetches: the unsynced clients, or all of them.
ClientQuery(p) == IF p = "sync" THEN {c \in Clients : CdUnsynced(c)} ELSE Clients

\* A program is started, and selects the clients.
RunStart(p) ==
    /\ pc = "idle"
    /\ prog' = p
    /\ IF opt.clientsFirst
       THEN /\ pc' = "stamp"
            /\ todo' = ClientQuery(p)
            /\ batch' = [c \in Clients |-> IF c \in ClientQuery(p) THEN Entry(c) ELSE NoEntry]
       ELSE pc' = "select" /\ UNCHANGED <<todo, batch>>
    /\ UNCHANGED <<given, cdVars, ruVars, txVars, guest, resv, resBatch, lastFetch, error, cl, job,
                   events, late>>

\* _last_fetch = now(), after the query has been executed.
RunStamp ==
    /\ pc = "stamp"
    /\ pc' = "clients"
    /\ lastFetch' = clock
    /\ UNCHANGED <<given, cdVars, ruVars, txVars, guest, resv, prog, batch, resBatch, todo, error, cl,
                   job, events, late>>

\* V_ACU_CD_UNSYNCED is ordered by CDL_CODE, the clients without an entry come last.
ClientIsNext(c) ==
    /\ c \in todo
    /\ prog = "sync" => \A d \in todo : batch[d].log # 0 =>
                            batch[c].log # 0 /\ batch[c].log <= batch[d].log

RunClient(c) ==
    /\ pc = "clients" /\ Idle
    /\ ClientIsNext(c)
    /\ cl' = Fetched(c, batch[c], lastFetch, "send1")
    /\ UNCHANGED <<given, cdVars, ruVars, txVars, guest, resv, loopVars, job, events, late>>

\* The log entry of a client; SihotMigration rolls it back after an error.  error_msg is
\* the one of the client just sent.
RunClientLog ==
    /\ pc = "clients" /\ cl.stage = "log"
    /\ IF cl.err /\ prog = "migration"
       THEN UNCHANGED <<cdVars, clock, late>>
       ELSE StoreAndLog
    /\ error' = cl.err
    /\ todo' = IF cl.err /\ opt.breakOnError THEN {} ELSE todo \ {cl.c}
    /\ cl' = NoCl
    /\ UNCHANGED <<given, ruVars, tx, guest, resv, pc, prog, batch, resBatch, lastFetch, job, events>>

\* Only if the last client left no error, the reservations follow.
RunClientsDone ==
    /\ pc = "clients" /\ Idle /\ todo = {}
    /\ IF error THEN EndRun ELSE LeaveLoop("select") /\ UNCHANGED prog
    /\ UNCHANGED <<given, cdVars, ruVars, txVars, guest, resv, cl, job, events, late>>

-----------------------------------------------------------------------------
(***************************************************************************)
(* The reservations: in SihotResSync a pre-run that ignores the errors of  *)
(* the clients and is rolled back, then the full run.                      *)
(***************************************************************************)
ResQuery == {r \in Res : RuUnsynced(r)}

\* fetch_from_acu_by_aru(),
RunSelect ==
    /\ pc = "select"
    /\ resBatch' = [r \in Res |-> IF r \in ResQuery
                                  THEN [ver |-> ru[r], log |-> ruLog[r], named |-> cdObj[occupant[r]]]
                                  ELSE NoEntry]
    /\ todo' = ResQuery
    /\ pc' = "resStamp"
    /\ UNCHANGED <<given, cdVars, ruVars, txVars, guest, resv, prog, batch, lastFetch, error, cl, job,
                   events, late>>

\* and _last_fetch.
RunResStamp ==
    /\ pc = "resStamp"
    /\ lastFetch' = clock
    /\ pc' = IF prog = "sync" THEN "pre" ELSE "main"
    /\ UNCHANGED <<given, cdVars, ruVars, txVars, guest, resv, prog, batch, resBatch, todo, error, cl,
                   job, events, late>>

\* _ensure_clients_exist_and_updated(): the orderer, unless it is the occupant or has a
\* short pseudo code, and the occupant.
Ensured(r) ==
    IF orderer[r] # occupant[r] /\ orderer[r] \notin pseudo
    THEN <<orderer[r], occupant[r]>>
    ELSE <<occupant[r]>>

RunRes(r) ==
    /\ pc \in {"pre", "main"} /\ Idle
    /\ r \in todo
    /\ job' = [r |-> r, ensure |-> Ensured(r), seen |-> cd, named |-> resBatch[r].named]
    /\ UNCHANGED <<given, cdVars, ruVars, txVars, guest, resv, loopVars, cl, events, late>>

\* fetch_from_acu_by_cd(), by a new connection,
EnsureSelect ==
    /\ cl = NoCl
    /\ job.ensure # <<>>
    /\ LET c == Head(job.ensure) IN cl' = Fetched(c, Entry(c), 0, "stamp")
    /\ UNCHANGED <<given, cdVars, ruVars, txVars, guest, resv, loopVars, job, events, late>>

\* and its _last_fetch.
EnsureStamp ==
    /\ cl.stage = "stamp"
    /\ cl' = [cl EXCEPT !.stage = "send1", !.at = clock]
    /\ UNCHANGED <<given, cdVars, ruVars, txVars, guest, resv, loopVars, job, events, late>>

\* The reservation is left out of the loop.
DropRes == todo' = IF opt.breakOnError /\ pc = "main" THEN {} ELSE todo \ {job.r}

\* Mutant: the reservation keeps the ids it was fetched with.
NamedAsFetched == job.named

\* The client is fetched again by the same connection, which knows the new object ids.
NamedAfterRefetch ==
    IF cl.c = occupant[job.r] THEN cdObj[cl.c] \cup cl.ok ELSE job.named

\* Log and commit of a client of a reservation: the connection is closed, with an error or
\* without.  An error ends the reservation, but not in the pre-run, that sends it then.
EnsureLog ==
    /\ pc \in {"pre", "main"} /\ cl.stage = "log"
    /\ StoreAndLog
    /\ cl' = NoCl
    /\ IF ~cl.err
       THEN /\ job' = [job EXCEPT !.ensure = Tail(@), !.named = NamedAfterRefetch]
            /\ UNCHANGED todo
       ELSE IF pc = "pre"
            THEN job' = [job EXCEPT !.ensure = <<>>] /\ UNCHANGED todo
            ELSE job' = NoJob /\ DropRes
    /\ UNCHANGED <<given, ruVars, tx, guest, resv, pc, prog, batch, resBatch, lastFetch, error, events>>

\* _add_occupants(): the reservation names the occupants whose object ids it got.
NamedOccupants == job.named

\* The reservation is sent, and its object id stored; only the full run is logged and committed.
SendRes ==
    LET r == job.r IN
    /\ r # NoRes /\ job.ensure = <<>> /\ cl = NoCl
    /\ \E a \in Answers :
          LET logged == a = "ok" /\ pc = "main" IN
          /\ Answer(a, FALSE)
          /\ a = "ok" => tx[r] = 0
          /\ resv' = IF a = "refused" THEN resv
                     ELSE [resv EXCEPT ![r] = [ver |-> resBatch[r].ver, named |-> NamedOccupants]]
          /\ ruSynced' = IF logged THEN [ruSynced EXCEPT ![r] = lastFetch] ELSE ruSynced
          /\ late' = IF logged /\ ruLog[r] # resBatch[r].log /\ ruLog[r] <= lastFetch
                     THEN [late EXCEPT ![r] = ru[r]] ELSE late
          /\ IF a = "ok" THEN todo' = todo \ {r} ELSE DropRes
    /\ job' = NoJob
    /\ UNCHANGED <<given, cdVars, ru, ruLog, txVars, guest, pc, prog, batch, resBatch, lastFetch, error,
                   cl>>

\* The end of the pre-run, or of the run.
RunNextPass ==
    /\ Idle /\ todo = {}
    /\ \/ /\ pc = "pre"
          /\ pc' = "main" /\ todo' = {r \in Res : resBatch[r] # NoEntry}
          /\ UNCHANGED <<prog, batch, resBatch, lastFetch, error>>
       \/ pc = "main" /\ EndRun
    /\ UNCHANGED <<given, cdVars, ruVars, txVars, guest, resv, cl, job, events, late>>

\* An exception or WatchPupPy ends the program; what is not committed is lost.
Crash ==
    /\ pc # "idle"
    /\ Fault("crash")
    /\ EndRun
    /\ cl' = NoCl
    /\ job' = NoJob
    /\ UNCHANGED <<given, cdVars, ruVars, txVars, guest, resv, late>>

-----------------------------------------------------------------------------
RunStep ==
    \/ RunStart("sync") \/ RunStamp \/ RunClientLog \/ RunClientsDone \/ RunSelect \/ RunResStamp \/ RunNextPass
    \/ EnsureSelect \/ EnsureStamp \/ EnsureLog \/ SendRes
    \/ \E c \in Clients : RunClient(c)
    \/ \E p \in {1, 2} : SendPerson(p)
    \/ \E r \in Res : RunRes(r)

Next ==
    \/ \E c \in Clients : UserSaves(c) \/ SihotSaves(c) \/ Commit(c)
    \/ \E r \in Res : UserSavesRes(r) \/ CommitRes(r)
    \/ RunStart("migration")
    \/ RunStep
    \/ Crash

Spec == Init /\ [][Next]_vars

\* WatchPupPy starts SihotResSync again and again, a program goes on, and transactions end.
Fairness ==
    /\ WF_vars(RunStep)
    /\ WF_vars((\E c \in Clients : Commit(c)) \/ \E r \in Res : CommitRes(r))

FairSpec == Spec /\ Fairness

-----------------------------------------------------------------------------
(***************************************************************************)
(* Properties.                                                             *)
(***************************************************************************)
\* Newer in Sihot is a change that AcuServer has not yet committed.
InSihot(c) == \A p \in Persons(c) : guest[c][p] >= cd[c]

\* sys_data_acu.py:252: "Therefore added the self._last_fetch timestamp explicitly": a
\* client, with both persons of a couple, is in Sihot as it is in Acumen, or is queued, or
\* was changed by a user or by AcuServer in a transaction that was dated before _last_fetch
\* and committed after its query.
ClientSentOrQueued ==
    \A c \in Clients : InSihot(c) \/ CdUnsynced(c) \/ late[c] = cd[c]

\* sys_data_acu.py:544: the full run logs a reservation as synced only when every client
\* of it is in Sihot as new as it was when its sending began, and when it names all of its
\* occupants by their object ids.
ResOfKnownGuests ==
    [][\A r \in Res : ruSynced'[r] # ruSynced[r] =>
          /\ resv'[r].named = Persons(occupant[r])
          /\ \A c \in {orderer[r], occupant[r]} : c \notin pseudo =>
                \A p \in Persons(c) : guest[c][p] >= job.seen[c]]_vars

\* A client that Sihot refuses is queued, or belongs to an unsynced reservation.
Blocked ==
    \E c \in Clients :
        /\ \E p \in Persons(c) : <<c, p>> \in refused
        /\ \/ opt.clientsFirst /\ CdUnsynced(c)
           \/ \E r \in Res : c \in {orderer[r], occupant[r]} /\ RuUnsynced(r)

\* In the end every reservation and, with clientsFirst, every client is in Sihot, unless a
\* refused client stops the clients or the reservations for ever, and unless the last change
\* was dated before a _last_fetch and committed after its query.
EventuallySynced ==
    \/ <>[]Blocked
    \/ <>[](/\ \A r \in Res : resv[r].ver = ru[r] \/ late[r] = ru[r]
            /\ opt.clientsFirst => \A c \in Clients : InSihot(c) \/ late[c] = cd[c])

-----------------------------------------------------------------------------
(***************************************************************************)
(* The strengthening of ClientSentOrQueued and ResOfKnownGuests.           *)
(***************************************************************************)
ClEntry  == [ver : Nat, log : Nat]
ResState == [ver : Nat, named : SUBSET {1, 2}]
ResEntry == [ver : Nat, log : Nat, named : SUBSET {1, 2}]
Job == [r : Res, ensure : Seq(Clients), seen : [Clients -> Nat], named : SUBSET {1, 2}]
Sending == [c : Clients, stage : {"stamp", "send1", "send2", "log"}, ver : Nat, log : Nat, at : Nat,
            ok : SUBSET {1, 2}, err : BOOLEAN]

TypeOK ==
    /\ orderer \in [Res -> Clients] /\ occupant \in [Res -> Clients]
    /\ cd \in [Clients -> Nat] /\ cdObj \in [Clients -> SUBSET {1, 2}]
    /\ cdLog \in [Clients -> Nat] /\ cdSynced \in [Clients -> Nat]
    /\ ru \in [Res -> Nat] /\ ruLog \in [Res -> Nat] /\ ruSynced \in [Res -> Nat]
    /\ tx \in [Clients \cup Res -> Nat] /\ clock \in Nat /\ late \in [Clients \cup Res -> Nat]
    /\ guest \in [Clients -> [{1, 2} -> Nat]]
    /\ resv \in [Res -> ResState]
    /\ pc \in {"idle", "stamp", "clients", "select", "resStamp", "pre", "main"} /\ lastFetch \in Nat
    /\ batch \in [Clients -> {NoEntry} \cup ClEntry] /\ resBatch \in [Res -> {NoEntry} \cup ResEntry]
    /\ cl = NoCl \/ cl \in Sending
    /\ job = NoJob \/ job \in Job

\* What the loops have left was fetched; a client is sent only by them.
InLoops ==
    /\ pc \in {"stamp", "clients"} => \A c \in todo : c \in Clients /\ batch[c] \in ClEntry
    /\ pc \in {"resStamp", "pre", "main"} => \A r \in todo : r \in Res /\ resBatch[r] \in ResEntry
    /\ cl # NoCl => pc \in {"clients", "pre", "main"}
    /\ job # NoJob => pc \in {"pre", "main"} /\ job.r \in todo
    /\ cl # NoCl /\ pc = "clients" => cl.c \in todo
    /\ cl # NoCl /\ pc # "clients" =>
           job # NoJob /\ job.ensure # <<>> /\ cl.c = Head(job.ensure) /\ cl.ver >= job.seen[cl.c]

\* No date is ahead of the clock; an open change is newer than what is logged, and the row is not
\* locked by the program; pseudo clients are not logged; what Sihot has of a person is not newer
\* than the open change.
ClientDates(c) ==
    /\ cdLog[c] <= clock /\ cdSynced[c] <= clock /\ tx[c] <= clock
    /\ tx[c] # 0 => tx[c] > cdLog[c] /\ tx[c] > cdSynced[c] /\ ~Locked(c)
    /\ ~Logged(c) => cdLog[c] = 0
    /\ cdObj[c] \subseteq Persons(c)
    /\ \A p \in {1, 2} : guest[c][p] <= IF tx[c] = 0 THEN cd[c] ELSE cd[c] + 1

\* What was fetched or seen of a client is not newer than the client.
DatesPassed ==
    /\ lastFetch <= clock /\ (cl # NoCl => cl.log <= cdLog[cl.c] /\ cl.at <= clock)
    /\ pc \in {"stamp", "clients"} => \A c \in todo : batch[c].log <= cdLog[c]
    /\ job # NoJob => \A c \in Clients : job.seen[c] <= cd[c]
    /\ \A c \in Clients : ClientDates(c)

\* A client that was changed since it was fetched is queued, by an entry that is newer.
ChangedIsQueued(c, ver, log) ==
    ver <= cd[c] /\ (Logged(c) /\ cd[c] # ver => cdLog[c] > log /\ cdLog[c] > cdSynced[c])

\* The persons who were accepted are in Sihot; without an error, both of a couple.
ClientInFlight ==
    /\ pc \in {"stamp", "clients"} => \A c \in todo : ChangedIsQueued(c, batch[c].ver, batch[c].log)
    /\ cl # NoCl =>
          /\ ChangedIsQueued(cl.c, cl.ver, cl.log)
          /\ \A p \in cl.ok : guest[cl.c][p] >= cl.ver
          /\ cl.ok \subseteq Persons(cl.c)
          /\ cl.stage = "send2" => 1 \in cl.ok /\ cl.c \in Couples
          /\ cl.stage = "log" /\ ~cl.err => cl.ok = Persons(cl.c)

\* The clients of a reservation that are done are in Sihot as new as they were.
ResInFlight ==
    job # NoJob /\ pc = "main" =>
        LET r == job.r
            SentAsSeen(c) == \A p \in Persons(c) : guest[c][p] >= job.seen[c]
        IN  /\ job.ensure \in {Ensured(r), <<occupant[r]>>, <<>>}
            /\ job.ensure = <<>> => SentAsSeen(occupant[r]) /\ job.named = Persons(occupant[r])
            /\ job.ensure # Ensured(r) /\ orderer[r] \notin pseudo =>
                  orderer[r] = occupant[r] \/ SentAsSeen(orderer[r])

ClientsInv == TypeOK /\ InLoops /\ DatesPassed /\ ClientInFlight /\ ResInFlight /\ ClientSentOrQueued
=============================================================================
