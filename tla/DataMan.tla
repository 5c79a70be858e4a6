------------------------------ MODULE DataMan ------------------------------
(***************************************************************************)
(* SysDataMan: a run pulls records of clients and reservations from some   *)
(* systems into the memory of AssSysData, pushes them onto others, and     *)
(* compares them with others, in this order.                               *)
(*                                                                         *)
(* A key stands for the id that a record is matched by (match_fields; in   *)
(* Salesforce always its own id, that the record may hold).  An action is  *)
(* [sys, typ, chk]; chk: with chk_values to select the records.            *)
(***************************************************************************)
EXTENDS SfConnector, FiniteSets, SequencesExt

CONSTANTS
    Runs,           \* the option sets: [pulls, pushes, compares, breakOnError]
    MaxRuns,        \* bound: runs of SysDataMan
    MaxChanges,     \* bound: changes by the users of the systems
    Referred,       \* clients with an external reference
    Guests,         \* the clients that a reservation names
    Start,          \* what the systems hold at the beginning
    StartAccounts,  \* ... the clients of Salesforce
    None

Types == {"C", "R"}
Tables == {"Acu", "Ass", "Sf", "Sh"} \X Types
Steps == {"pull", "push", "compare"}

Data == [val : Values, sf : Nat]
Records == [key : Keys, val : Values, sf : Nat, typ : Types]

Action == [sys : {"Acu", "Ass", "Sf", "Sh"}, typ : Types, chk : BOOLEAN]

OptionSets == [pulls : Seq(Action), pushes : Seq(Action), compares : Seq(Action),
               breakOnError : BOOLEAN]

ASSUME DataManAssumption ==
    /\ IsFiniteSet(Keys)
    /\ None \notin Values /\ None \notin Data
    /\ \A r \in Runs : r \in OptionSets
    /\ Start \in [Tables -> [Keys -> Data \cup {None}]]
    /\ StartAccounts \in Seq([key : Keys, val : Values])
    /\ Referred \subseteq Keys
    /\ Guests \in [Keys -> SUBSET Keys]
    /\ MaxRuns \in Nat /\ MaxChanges \in Nat /\ MaxFaults \in Nat

VARIABLES
    stored,         \* the records of the systems, but for the clients of Salesforce
    run,            \* its options
    todo,           \* its actions left: [step, sys, typ, chk]
    memory,         \* self.clients, self.reservations
    at,             \* the record that is pushed; 0: the push has not begun
    skipped,        \* ignored_errors > 0
    errorMessage,   \* asd.error_message is not empty
    errorLog,       \* error_log is not empty
    exit,           \* none | running | 0 | 36 | 42 | died
    \* history
    want,           \* the value that was pulled last
    wrote,          \* the value that was pushed last
    failed,         \* a fetch failed, or a record was refused
    differs,        \* tables that a compare found different
    touched,        \* tables that users changed since they were pushed onto
    forgotten,      \* clients whose id in Salesforce was lost
    unaware,        \* ... that were pulled without it, or twice before they had one
    created,        \* a push of reservations added clients to the memory
    runs, changes

progVars == <<run, todo, memory, at, skipped, errorMessage, errorLog, exit>>
histVars == <<want, wrote, failed, differs, touched, forgotten, unaware, created>>
vars == <<sfVars, stored, progVars, histVars, runs, changes>>

Nothing == [key \in Keys |-> None]

Init ==
    /\ link = NewLink /\ password = TRUE /\ session = TRUE
    /\ accounts = StartAccounts /\ refs = [i \in DOMAIN StartAccounts |-> 0]
    /\ refStep = "none" /\ blind = {} /\ faults = 0
    /\ stored = Start
    /\ run \in Runs /\ todo = <<>>
    /\ memory = [t \in Types |-> <<>>]
    /\ at = 0 /\ skipped = FALSE
    /\ errorMessage = FALSE /\ errorLog = FALSE /\ exit = "none"
    /\ want = [t \in Types |-> Nothing] /\ wrote = [x \in Tables |-> Nothing]
    /\ failed = FALSE /\ differs = {} /\ touched = {} /\ forgotten = {}
    /\ unaware = {} /\ created = FALSE
    /\ runs = 0 /\ changes = 0

-----------------------------------------------------------------------------
(* The run.                                                                *)

Do(step, actions) ==
    [i \in DOMAIN actions |-> [step |-> step, sys |-> actions[i].sys,
                               typ |-> actions[i].typ, chk |-> actions[i].chk]]

ActionsComparedFirst(r) ==
    Do("pull", r.pulls) \o Do("compare", r.compares) \o Do("push", r.pushes)

Actions(r) == Do("pull", r.pulls) \o Do("push", r.pushes) \o Do("compare", r.compares)

(* The ids that a run got from Salesforce are lost with it, unless they    *)
(* were pushed onto AssCache.                                              *)
Unsaved ==
    {r.key : r \in {q \in ToSet(memory["C"]) :
        q.sf # NoId /\ (IF stored[<<"Ass", "C">>][q.key] = None THEN TRUE
                        ELSE stored[<<"Ass", "C">>][q.key].sf # q.sf)}}

(* init_ass_data(): a new AssSysData, without records and not yet logged   *)
(* in to Salesforce.                                                       *)
Restart ==
    /\ exit # "running" /\ runs < MaxRuns
    /\ runs' = runs + 1
    /\ memory' = [t \in Types |-> <<>>]
    /\ at' = 0 /\ skipped' = FALSE
    /\ errorMessage' = FALSE /\ errorLog' = FALSE
    /\ link' = NewLink /\ session' = TRUE /\ refStep' = "none"
    /\ want' = [t \in Types |-> Nothing] /\ wrote' = [x \in Tables |-> Nothing]
    /\ failed' = FALSE /\ differs' = {} /\ touched' = {} /\ created' = FALSE
    /\ forgotten' = forgotten \cup Unsaved
    /\ UNCHANGED <<password, accounts, refs, blind, stored, unaware, changes>>

StartRun ==
    /\ Restart
    /\ exit' = "running"
    /\ \E r \in Runs : run' = r /\ todo' = Actions(r)
    /\ UNCHANGED faults

(* A system that is not reached at the start ends the run: log_error()     *)
(* mails the error and then asks for an option by a wrong name.            *)
StartDies ==
    /\ Restart /\ faults < MaxFaults
    /\ faults' = faults + 1
    /\ exit' = "died"
    /\ UNCHANGED run /\ todo' = <<>>

(* A mail that cannot be sent is told by the exit code 36 or 39, if it was *)
(* to be 0; there are only warnings to be mailed then.                     *)
SendNotification(code) == {code} \cup (IF code = "0" THEN {"36"} ELSE {})

(* The exit code tells whether an error was logged. *)
Finish ==
    /\ exit = "running" /\ todo = <<>>
    /\ exit' \in SendNotification(IF errorLog THEN "42" ELSE "0")
    /\ UNCHANGED <<sfVars, stored, run, todo, memory, at, skipped, errorMessage,
                   errorLog, histVars, runs, changes>>

Now(step, sys, typ) ==
    /\ exit = "running" /\ todo # <<>>
    /\ Head(todo).step = step /\ Head(todo).sys = sys /\ Head(todo).typ = typ

(* An exception of an action ends the run, whatever breakOnError says: the *)
(* handlers of system_records_action() and of the main program format it   *)
(* by a call that raises another one.                                      *)
Die ==
    /\ exit' = "died"
    /\ UNCHANGED <<stored, run, todo, memory, at, skipped, errorMessage, errorLog,
                   want, wrote, differs, touched, forgotten, unaware, created, runs, changes>>

(* There is a method for an action, or an error is logged: the push of     *)
(* reservations onto Sihot has another name.                               *)
Implemented(a) ==
    <<a.sys, a.typ>> # <<"Acu", "R">> /\ ~(a.step = "push" /\ <<a.sys, a.typ>> = <<"Sh", "R">>)

NotImplemented ==
    /\ exit = "running" /\ todo # <<>> /\ ~Implemented(Head(todo))
    /\ todo' = Tail(todo) /\ errorLog' = TRUE /\ failed' = TRUE
    /\ UNCHANGED <<sfVars, stored, run, memory, at, skipped, errorMessage, exit,
                   want, wrote, differs, touched, forgotten, unaware, created, runs, changes>>

-----------------------------------------------------------------------------
(* Fetching the records of a system: the private pull methods.  A result   *)
(* is [recs, msg, log]: msg is error_message afterwards.                   *)

KeysIn(sys, typ) == {k \in Keys : stored[<<sys, typ>>][k] # None}

Row(sys, typ, k) == [key |-> k, val |-> stored[<<sys, typ>>][k].val,
                     sf |-> stored[<<sys, typ>>][k].sf, typ |-> typ]

Rows(sys, typ) ==
    [i \in 1 .. Cardinality(KeysIn(sys, typ)) |-> Row(sys, typ, SetToSeq(KeysIn(sys, typ))[i])]

AccountRows ==
    [i \in DOMAIN accounts |-> [key |-> accounts[i].key, val |-> accounts[i].val,
                                sf |-> i, typ |-> "C"]]

Result(recs, msg) == [recs |-> recs, msg |-> msg, log |-> msg]

(* Acumen: error_message is what the fetch returns. *)
AcuClients(fails) == Result(IF fails THEN <<>> ELSE Rows("Acu", "C"), fails)

(* AssCache: an older error_message counts as one of the fetch. *)
AssClients(fails) ==
    Result(IF errorMessage \/ fails THEN <<>> ELSE Rows("Ass", "C"), errorMessage \/ fails)

(* The reservations are returned all the same. *)
AssReservations(fails) ==
    Result(IF fails THEN <<>> ELSE Rows("Ass", "R"), errorMessage \/ fails)

(* The accounts, and the leads by a second fetch, which may fail alone. *)
SfClients(o) ==
    IF o = "done" THEN Result(AccountRows, errorMessage)
    ELSE Result(IF o = "leads" THEN AccountRows ELSE <<>>, TRUE)

(* The second fetch looks into chk_values, which are None by default. *)
SfClientsRaise(o, chk) == o # "refused" /\ accounts # <<>> /\ ~chk

(* No record, or an error: logged with an importance that makes            *)
(* log_error() ask for the option by a wrong name.                         *)
SfReservationsRaise(o) == o = "refused" \/ Rows("Sf", "R") = <<>>

ShRecords(typ, fails) ==
    Result(IF fails THEN <<>> ELSE Rows("Sh", typ), errorMessage \/ fails)

(* A call of a database or of Sihot, which may fail. *)
DbCalled(fails) ==
    /\ fails => faults < MaxFaults
    /\ faults' = IF fails THEN faults + 1 ELSE faults
    /\ UNCHANGED <<link, password, session, accounts, refs, refStep, blind>>

DbCall(fails) == DbCalled(fails) /\ failed' = (failed \/ fails)

SfFetch(o) == SoqlQueryAll(o) /\ failed' = (failed \/ o # "done")

Chk == Head(todo).chk

(* An assertion of the fetches from Sihot. *)
DieUnchecked == ~Chk /\ Die /\ UNCHANGED <<sfVars, failed>>

-----------------------------------------------------------------------------
(* Pull.                                                                   *)

MergedInFront(list, recs, match) == recs \o list

(* Records.merge_records() replaces the records that match if it is told   *)
(* how to match them; all others are appended.                             *)
SameRecord(q, r) == q.key = r.key /\ q.typ = r.typ

Replaced(q, recs) ==
    IF \E r \in ToSet(recs) : SameRecord(q, r)
    THEN CHOOSE r \in ToSet(recs) : SameRecord(q, r) ELSE q

NewRecords(list, recs) == {r \in ToSet(recs) : \A q \in ToSet(list) : ~SameRecord(q, r)}

Merged(list, recs, match) ==
    IF match
    THEN [i \in DOMAIN list |-> Replaced(list[i], recs)] \o SetToSeq(NewRecords(list, recs))
    ELSE list \o recs

Pulled(recs, k, before) ==
    IF \E r \in ToSet(recs) : r.key = k
    THEN (CHOOSE r \in ToSet(recs) : r.key = k).val ELSE before

(* Of a run that pushes clients, the record of one that has an account, or *)
(* that the run has already, comes without the id of it: Acumen never gets *)
(* the id, and AssCache has none before it was pushed onto.                *)
PushesClients(r) ==
    \E i \in DOMAIN r.pushes : r.pushes[i].typ = "C" /\ r.pushes[i].sys \in {"Sf", "Ass"}

HasAccount(k) == \E i \in DOMAIN accounts : accounts[i].key = k

InMemory(k) == \E r \in ToSet(memory["C"]) : r.key = k

PulledUnaware(list, recs) ==
    {r.key : r \in {q \in ToSet(recs) :
        /\ list = "C" /\ PushesClients(run) /\ q.sf = NoId
        /\ (Head(todo).sys = "Acu" /\ HasAccount(q.key)) \/ InMemory(q.key)}}

PullInto(list, match, typ, res) ==
    /\ memory' = [memory EXCEPT ![list] = Merged(@, res.recs, match)]
    /\ errorMessage' = res.msg /\ errorLog' = (errorLog \/ res.log)
    /\ todo' = Tail(todo)
    /\ want' = [want EXCEPT ![typ] = [k \in Keys |-> Pulled(res.recs, k, @[k])]]
    /\ unaware' = unaware \cup PulledUnaware(list, res.recs)
    /\ UNCHANGED <<stored, run, at, skipped, exit, wrote, differs, touched,
                   forgotten, created, runs, changes>>

AcuClientsPull ==
    Now("pull", "Acu", "C") /\ \E fails \in BOOLEAN :
        DbCall(fails) /\ PullInto("C", FALSE, "C", AcuClients(fails))

AssClientsPull ==
    Now("pull", "Ass", "C") /\ \E fails \in BOOLEAN :
        DbCall(fails) /\ PullInto("C", FALSE, "C", AssClients(fails))

AssReservationsPull ==
    Now("pull", "Ass", "R") /\ \E fails \in BOOLEAN :
        DbCall(fails) /\ PullInto("R", FALSE, "R", AssReservations(fails))

(* The clients of Salesforce and of Sihot are put among the reservations.  *)
SfClientsPull ==
    Now("pull", "Sf", "C") /\ \E o \in {"done", "refused", "leads"} :
        /\ SfFetch(o) /\ (o = "leads" => Chk /\ accounts # <<>>)
        /\ IF SfClientsRaise(o, Chk) THEN Die ELSE PullInto("R", FALSE, "C", SfClients(o))

SfReservationsPull ==
    Now("pull", "Sf", "R") /\ \E o \in {"done", "refused"} :
        /\ SfFetch(o)
        /\ IF SfReservationsRaise(o) THEN Die
           ELSE PullInto("R", FALSE, "R", [Result(Rows("Sf", "R"), errorMessage)
                                           EXCEPT !.log = FALSE])

ShClientsPull ==
    /\ Now("pull", "Sh", "C")
    /\ \/ DieUnchecked
       \/ Chk /\ \E fails \in BOOLEAN :
            DbCall(fails) /\ PullInto("R", TRUE, "C", ShRecords("C", fails))

ShReservationsPull ==
    /\ Now("pull", "Sh", "R")
    /\ \/ DieUnchecked
       \/ Chk /\ \E fails \in BOOLEAN :
            DbCall(fails) /\ PullInto("R", TRUE, "R", ShRecords("R", fails))

-----------------------------------------------------------------------------
(* Push: the records in memory, one after the other.                       *)

Rec == memory[Head(todo).typ][at + 1]

Pushing(sys, typ) == Now("push", sys, typ) /\ at < Len(memory[typ])

AfterRecordUncounted(err) ==
    IF err /\ run.breakOnError
    THEN at' = 0 /\ todo' = Tail(todo) /\ skipped' = FALSE /\ errorLog' = TRUE
    ELSE at' = at + 1 /\ UNCHANGED <<skipped, todo, errorLog>>

(* After a record: an error ends the push, or is counted. *)
AfterRecord(err) ==
    IF err /\ run.breakOnError
    THEN /\ at' = 0 /\ todo' = Tail(todo) /\ skipped' = FALSE /\ errorLog' = TRUE
    ELSE /\ at' = at + 1 /\ skipped' = (skipped \/ err) /\ UNCHANGED <<todo, errorLog>>

PushDone ==
    /\ exit = "running" /\ todo # <<>> /\ Head(todo).step = "push" /\ Implemented(Head(todo))
    /\ at = Len(memory[Head(todo).typ])
    /\ at' = 0 /\ todo' = Tail(todo) /\ skipped' = FALSE
    /\ errorLog' = (errorLog \/ skipped)
    /\ UNCHANGED <<sfVars, stored, run, memory, errorMessage, exit, histVars,
                   runs, changes>>

PushUnchanged ==
    UNCHANGED <<run, exit, want, differs, touched, unaware, runs, changes>>

(* The row that a record is saved as. *)
Written(sys, typ, applied, sf) ==
    IF applied
    THEN /\ stored' = [stored EXCEPT ![<<sys, typ>>][Rec.key] = [val |-> Rec.val, sf |-> sf]]
         /\ wrote' = [wrote EXCEPT ![<<sys, typ>>][Rec.key] = Rec.val]
    ELSE UNCHANGED <<stored, wrote>>

(* Acumen does not take the id of Salesforce. *)
KeptId(sys) == IF stored[<<sys, "C">>][Rec.key] = None THEN NoId ELSE stored[<<sys, "C">>][Rec.key].sf

(* error_message stays, and every record after it counts as an error. *)
AcuClientsPush ==
    Pushing("Acu", "C") /\ \E fails \in BOOLEAN :
        /\ DbCall(fails) /\ Written("Acu", "C", ~fails, KeptId("Acu"))
        /\ errorMessage' = (errorMessage \/ fails)
        /\ AfterRecord(fails \/ errorMessage)
        /\ UNCHANGED <<memory, created, forgotten>> /\ PushUnchanged

AssClientsPush ==
    Pushing("Ass", "C") /\ \E fails \in BOOLEAN :
        /\ DbCall(fails) /\ Written("Ass", "C", ~fails, Rec.sf)
        /\ errorMessage' = (errorMessage \/ fails)
        /\ AfterRecord(fails \/ errorMessage)
        /\ UNCHANGED <<memory, created, forgotten>> /\ PushUnchanged

(* res_save() of a reservation finds or creates its guests as clients, and *)
(* appends the new ones to the memory.  The reservation is committed with  *)
(* them, and after that each occupant: done | refused: all is rolled back, *)
(* but not the memory | partly: an occupant is refused.  A guest of the    *)
(* memory whose row was rolled back is refused again.  A client is refused *)
(* at once: it has no ids of a reservation.                                *)
UnknownGuests(k) == {g \in Guests[k] : stored[<<"Ass", "C">>][g] = None}

Saved(o, made) ==
    /\ Rec.typ # "R" => o = "refused" /\ made = {}
    /\ o = "done" => made = UnknownGuests(Rec.key)
    /\ o = "partly" => \A g \in UnknownGuests(Rec.key) \ made : InMemory(g)

SaveFails(o) ==
    o # "done" /\ Rec.typ = "R" /\ \A g \in UnknownGuests(Rec.key) : ~InMemory(g)

NewClient(g, data) == [key |-> g, val |-> data[g], sf |-> NoId, typ |-> "C"]

WithGuests(made, data) ==
    [memory EXCEPT !["C"] =
        @ \o SetToSeq({NewClient(g, data) : g \in {h \in made : ~InMemory(h)}})]

SavedRows(made, data) ==
    [stored EXCEPT ![<<"Ass", "R">>][Rec.key] = [val |-> Rec.val, sf |-> NoId],
                   ![<<"Ass", "C">>] = [g \in Keys |->
                        IF g \in made THEN [val |-> data[g], sf |-> NoId] ELSE @[g]]]

AssReservationsPush ==
    Pushing("Ass", "R")
    /\ \E o \in {"done", "refused", "partly"}, made \in SUBSET UnknownGuests(Rec.key) :
       \E data \in [made -> Values] :
        /\ Saved(o, made)
        /\ DbCalled(SaveFails(o)) /\ failed' = (failed \/ o # "done")
        /\ IF o = "refused" THEN UNCHANGED <<stored, wrote>>
           ELSE /\ stored' = SavedRows(made, data)
                /\ wrote' = [wrote EXCEPT ![<<"Ass", "R">>][Rec.key] = Rec.val]
        /\ memory' = WithGuests(made, data) /\ created' = (created \/ made # {})
        /\ errorMessage' = (o # "done")
        /\ AfterRecord(o # "done")
        /\ UNCHANGED forgotten /\ PushUnchanged

SfError(err) ==
    /\ failed' = (failed \/ err)
    /\ errorMessage' = (errorMessage \/ (err /\ run.breakOnError))
    /\ AfterRecord(err)

SfClientsPush ==
    Pushing("Sf", "C") /\ ~RefOpen /\ \E o \in Outcomes :
        LET id == IdAfterUpsert(Rec, o) IN
        /\ ClUpsert(Rec, o)
        /\ IF o = "raised" THEN Die /\ UNCHANGED <<refStep, failed>> ELSE
           /\ memory' = [memory EXCEPT !["C"][at + 1].sf = id]
           /\ wrote' = IF Applied(o) THEN [wrote EXCEPT ![<<"Sf", "C">>][Rec.key] = Rec.val]
                       ELSE wrote
           /\ forgotten' = IF o = "lost" \/ (Rec.sf # id /\ Rec.sf # NoId)
                           THEN forgotten \cup {Rec.key} ELSE forgotten
           /\ IF o = "done" /\ id # NoId /\ Rec.key \in Referred
              THEN refStep' = "check"
                   /\ UNCHANGED <<at, todo, skipped, errorLog, errorMessage, failed>>
              ELSE SfError(o # "done") /\ UNCHANGED refStep
           /\ UNCHANGED <<stored, created>> /\ PushUnchanged

SfClientRefPush ==
    Pushing("Sf", "C") /\ RefOpen /\ \E o \in Outcomes :
        /\ ClExtRefUpsert(Rec.sf, o)
        /\ IF o = "raised" THEN Die /\ UNCHANGED failed ELSE
           /\ IF refStep' # "none"
              THEN UNCHANGED <<at, todo, skipped, errorLog, errorMessage, failed>>
              ELSE SfError(o # "done")
           /\ UNCHANGED <<stored, memory, wrote, created, forgotten>> /\ PushUnchanged

SfReservationsPush ==
    Pushing("Sf", "R") /\ \E o \in Outcomes :
        /\ Called(o) /\ UNCHANGED <<accounts, refs, refStep, blind>>
        /\ IF o = "raised" THEN Die /\ UNCHANGED failed ELSE
           /\ Written("Sf", "R", Applied(o), NoId) /\ SfError(o # "done")
           /\ UNCHANGED <<memory, created, forgotten>> /\ PushUnchanged

ShClientsPush ==
    Pushing("Sh", "C") /\ \E fails \in BOOLEAN :
        /\ DbCall(fails) /\ Written("Sh", "C", ~fails, NoId)
        /\ errorMessage' = (errorMessage \/ (fails /\ run.breakOnError))
        /\ AfterRecord(fails)
        /\ UNCHANGED <<memory, created, forgotten>> /\ PushUnchanged

-----------------------------------------------------------------------------
(* Compare.                                                                *)

Matches(sys, rec, row) ==
    IF sys = "Sf" /\ rec.typ = "C" THEN rec.sf = row.sf ELSE rec.key = row.key

Different(sys, typ, rows) ==
    \E rec \in ToSet(memory[typ]) :
        \A row \in ToSet(rows) : ~(Matches(sys, rec, row) /\ rec.val = row.val)

CompareWith(sys, typ, res) ==
    /\ errorMessage' = res.msg /\ errorLog' = (errorLog \/ res.log)
    /\ differs' = IF ~res.msg /\ Different(sys, typ, res.recs)
                  THEN differs \cup {<<sys, typ>>} ELSE differs
    /\ todo' = Tail(todo)
    /\ UNCHANGED <<stored, run, memory, at, skipped, exit, want, wrote, touched,
                   forgotten, unaware, created, runs, changes>>

AcuClientsCompare ==
    Now("compare", "Acu", "C") /\ \E fails \in BOOLEAN :
        DbCall(fails) /\ CompareWith("Acu", "C", AcuClients(fails))

AssClientsCompare ==
    Now("compare", "Ass", "C") /\ \E fails \in BOOLEAN :
        DbCall(fails) /\ CompareWith("Ass", "C", AssClients(fails))

AssReservationsCompare ==
    Now("compare", "Ass", "R") /\ \E fails \in BOOLEAN :
        DbCall(fails) /\ CompareWith("Ass", "R", AssReservations(fails))

SfClientsCompare ==
    Now("compare", "Sf", "C") /\ \E o \in {"done", "refused", "leads"} :
        /\ SfFetch(o) /\ (o = "leads" => Chk /\ accounts # <<>>)
        /\ IF SfClientsRaise(o, Chk) THEN Die ELSE CompareWith("Sf", "C", SfClients(o))

SfReservationsCompare ==
    Now("compare", "Sf", "R") /\ \E o \in {"done", "refused"} :
        /\ SfFetch(o)
        /\ IF SfReservationsRaise(o) THEN Die
           ELSE CompareWith("Sf", "R", [Result(Rows("Sf", "R"), errorMessage)
                                        EXCEPT !.log = FALSE])

ShClientsCompare ==
    /\ Now("compare", "Sh", "C")
    /\ \/ DieUnchecked
       \/ Chk /\ \E fails \in BOOLEAN :
            DbCall(fails) /\ CompareWith("Sh", "C", ShRecords("C", fails))

ShReservationsCompare ==
    /\ Now("compare", "Sh", "R")
    /\ \/ DieUnchecked
       \/ Chk /\ \E fails \in BOOLEAN :
            DbCall(fails) /\ CompareWith("Sh", "R", ShRecords("R", fails))

-----------------------------------------------------------------------------
(* The users of a system change a record of it. *)
Change(sys, typ, key) ==
    /\ exit = "running" /\ changes < MaxChanges
    /\ changes' = changes + 1 /\ touched' = touched \cup {<<sys, typ>>}
    /\ \E val \in Values :
        IF <<sys, typ>> = <<"Sf", "C">>
        THEN /\ \E i \in DOMAIN accounts :
                  accounts[i].key = key /\ accounts' = [accounts EXCEPT ![i].val = val]
             /\ UNCHANGED <<stored, link, password, session, refs, refStep, blind, faults>>
        ELSE /\ stored[<<sys, typ>>][key] # None
             /\ stored' = [stored EXCEPT ![<<sys, typ>>][key].val = val]
             /\ UNCHANGED sfVars
    /\ UNCHANGED <<progVars, want, wrote, failed, differs, forgotten, unaware, created, runs>>

Salesforce ==
    /\ exit = "running"
    /\ SessionExpires \/ PasswordChanges
    /\ UNCHANGED <<stored, progVars, histVars, runs, changes>>

Next ==
    \/ StartRun \/ StartDies \/ Finish \/ NotImplemented \/ PushDone
    \/ AcuClientsPull \/ AssClientsPull \/ AssReservationsPull
    \/ SfClientsPull \/ SfReservationsPull \/ ShClientsPull \/ ShReservationsPull
    \/ AcuClientsPush \/ AssClientsPush \/ AssReservationsPush
    \/ SfClientsPush \/ SfClientRefPush \/ SfReservationsPush \/ ShClientsPush
    \/ AcuClientsCompare \/ AssClientsCompare \/ AssReservationsCompare
    \/ SfClientsCompare \/ SfReservationsCompare \/ ShClientsCompare \/ ShReservationsCompare
    \/ Salesforce
    \/ \E sys \in {"Acu", "Ass", "Sf", "Sh"}, typ \in Types, key \in Keys : Change(sys, typ, key)

Spec == Init /\ [][Next]_vars

-----------------------------------------------------------------------------
(* Properties.                                                             *)

(* README.md:486-489: the pulls come before the pushes, and a system that  *)
(* was pushed onto gets the value of the pull that was the last to bring a *)
(* record; but for the clients of Salesforce and Sihot, which are put      *)
(* among the reservations.                                                 *)
Misplaced == \E i \in DOMAIN run.pulls : run.pulls[i].sys \in {"Sf", "Sh"} /\ run.pulls[i].typ = "C"

LastPullWins ==
    exit = "0" /\ ~Misplaced =>
        \A i \in DOMAIN run.pushes, key \in Keys :
            LET p == run.pushes[i] IN
            want[p.typ][key] # None => wrote[<<p.sys, p.typ>>][key] = want[p.typ][key]

(* The exit code 0 says that every fetch worked, and that every record was *)
(* taken by the system that it was pushed onto.                            *)
ZeroMeansAll == exit = "0" => ~failed

(* A system that was pushed onto, without an error, from one system, and   *)
(* was not changed by others meanwhile, does not differ; the clients do if *)
(* a push of reservations found new ones.                                  *)
PushedIsEqual ==
    exit = "0" =>
        \A i \in DOMAIN run.pushes :
            LET p == run.pushes[i] IN
            /\ Cardinality({j \in DOMAIN run.pulls : run.pulls[j].typ = p.typ}) = 1
            /\ <<p.sys, p.typ>> \notin touched
            /\ p.typ = "C" => ~created
            => <<p.sys, p.typ>> \notin differs

(* sys_core_sf.py:359, 365: a login that was refused is not tried again,   *)
(* "preventing lock of user account"; but once, after its mark was         *)
(* overwritten by the error of writing an external reference.              *)
LoginNotRepeated == link.refused <= IF link.overwritten THEN 2 ELSE 1

(* As the comment there says it: never.  The code breaks it once, see the  *)
(* findings in the README.                                                 *)
LoginNeverRepeated == link.refused <= 1

(* A client has one account, however many runs push it, unless its id was  *)
(* lost before it was in AssCache, or a run pulled it without the id.      *)
OneAccount ==
    \A key \in Keys \ (forgotten \cup unaware \cup Unsaved) :
        Cardinality({i \in DOMAIN accounts : accounts[i].key = key}) <= 1

(* An account has an external reference once, unless it could not be read. *)
OneExtRef == \A i \in DOMAIN accounts : i \notin blind => refs[i] <= 1

-----------------------------------------------------------------------------
(* Invariants that the properties rest on.                                 *)

Entry == [step : Steps, sys : {"Acu", "Ass", "Sf", "Sh"}, typ : Types, chk : BOOLEAN]

(* Of the data of the run and of the systems. *)
TypeOK ==
    /\ accounts \in Seq([key : Keys, val : Values])
    /\ refs \in Seq(Nat) /\ Len(refs) = Len(accounts)
    /\ stored \in [Tables -> [Keys -> Data \cup {None}]]
    /\ run \in Runs /\ todo \in Seq(Entry)
    /\ memory \in [Types -> Seq(Records)] /\ at \in Nat
    /\ want \in [Types -> [Keys -> Values \cup {None}]]
    /\ wrote \in [Tables -> [Keys -> Values \cup {None}]]

(* A failure is in the error log, or counted by the push that goes on. *)
ErrorsTold ==
    /\ exit = "0" => ~errorLog /\ ~skipped
    /\ failed => errorLog \/ skipped \/ exit = "died"
    /\ exit = "running" /\ skipped =>
          todo # <<>> /\ Head(todo).step = "push" /\ Implemented(Head(todo))

Left(step, sys, typ) ==
    \E i \in DOMAIN todo : todo[i].step = step /\ todo[i].sys = sys /\ todo[i].typ = typ

(* What is left of the run: its pulls, then its pushes, then its compares. *)
InOrder ==
    exit = "running" =>
        /\ \A i, j \in DOMAIN todo : i < j =>
              /\ todo[j].step = "pull" => todo[i].step = "pull"
              /\ todo[i].step = "compare" => todo[j].step = "compare"
        /\ \A i \in DOMAIN todo :
              /\ todo[i].step = "pull" => \E j \in DOMAIN run.pulls :
                    run.pulls[j].sys = todo[i].sys /\ run.pulls[j].typ = todo[i].typ
              /\ todo[i].step = "push" => \E j \in DOMAIN run.pushes :
                    run.pushes[j].sys = todo[i].sys /\ run.pushes[j].typ = todo[i].typ
        /\ (\E i \in DOMAIN todo : todo[i].step = "pull") =>
              \A j \in DOMAIN run.pushes : Left("push", run.pushes[j].sys, run.pushes[j].typ)
        /\ at > 0 => todo # <<>> /\ Head(todo).step = "push" /\ Implemented(Head(todo))
        /\ RefOpen => todo # <<>> /\ Now("push", "Sf", "C") /\ at < Len(memory["C"])

Clean == exit = "running" /\ ~Misplaced /\ ~errorLog /\ ~skipped

(* The last record of a key has the value, and there is one. *)
LastHas(list, key, val) ==
    /\ \E i \in DOMAIN list : list[i].key = key
    /\ \A i \in DOMAIN list :
          list[i].key = key /\ (\A j \in DOMAIN list : j > i => list[j].key # key)
          => list[i].val = val

(* The memory ends with what was pulled last ... *)
MemoryWins ==
    /\ \A t \in Types : \A r \in ToSet(memory[t]) : r.typ = t
    /\ \A t \in Types, k \in Keys : want[t][k] # None => LastHas(memory[t], k, want[t][k])

(* ... and so does every system that was pushed onto, as far as the push is. *)
Delivered(sys, typ, k) == want[typ][k] # None => wrote[<<sys, typ>>][k] = want[typ][k]

PushesWin ==
    /\ \A i \in DOMAIN run.pushes :
          \/ Left("push", run.pushes[i].sys, run.pushes[i].typ)
          \/ \A k \in Keys : Delivered(run.pushes[i].sys, run.pushes[i].typ, k)
    /\ todo # <<>> /\ Head(todo).step = "push" =>
          \A k \in Keys :
             \/ \E i \in DOMAIN memory[Head(todo).typ] :
                   i > at /\ memory[Head(todo).typ][i].key = k
             \/ Delivered(Head(todo).sys, Head(todo).typ, k)
    /\ RefOpen => wrote[<<"Sf", "C">>][Rec.key] = Rec.val

WinInv == TypeOK /\ InOrder /\ (Clean => MemoryWins /\ PushesWin)

(* The ids of Salesforce that are known anywhere are those of the client. *)
IdOf(k, id) == id # NoId => id \in DOMAIN accounts /\ accounts[id].key = k

IdsRight ==
    /\ \A x \in Tables, k \in Keys :
          x[2] = "C" /\ stored[x][k] # None => IdOf(k, stored[x][k].sf)
    /\ \A t \in Types : \A r \in ToSet(memory[t]) : r.typ = "C" => IdOf(r.key, r.sf)
    /\ \A r \in ToSet(memory["C"]) : r.typ = "C"
    /\ RefOpen => Rec.sf # NoId

(* A record of the memory is equal to what a system holds. *)
Same(sys, typ, r) ==
    IF <<sys, typ>> = <<"Sf", "C">>
    THEN r.sf # NoId /\ accounts[r.sf].val = r.val
    ELSE stored[<<sys, typ>>][r.key] # None /\ stored[<<sys, typ>>][r.key].val = r.val

PulledOnce(typ) == Cardinality({j \in DOMAIN run.pulls : run.pulls[j].typ = typ}) = 1

(* A record is pulled once, and none before the only pull. *)
MemoryOnce(typ) ==
    /\ \A i, j \in DOMAIN memory[typ] : memory[typ][i].key = memory[typ][j].key => i = j
    /\ (\E i \in DOMAIN todo : todo[i].step = "pull" /\ todo[i].typ = typ) => memory[typ] = <<>>
    /\ \A i, j \in DOMAIN todo :
          (todo[i].step = "pull" /\ todo[j].step = "pull" /\ todo[i].typ = typ /\ todo[j].typ = typ)
          => i = j

EqualSoFar(sys, typ) ==
    /\ <<sys, typ>> \notin differs
    /\ \/ Left("push", sys, typ)
       \/ \A i \in DOMAIN memory[typ] : Same(sys, typ, memory[typ][i])
    /\ Now("push", sys, typ) =>
          \A i \in DOMAIN memory[typ] :
             i <= at \/ (RefOpen /\ i = at + 1) => Same(sys, typ, memory[typ][i])

PushesOnto(sys, typ) ==
    \E i \in DOMAIN run.pushes : run.pushes[i].sys = sys /\ run.pushes[i].typ = typ

EqualInv ==
    /\ TypeOK /\ InOrder /\ IdsRight
    /\ Clean => MemoryWins /\ \A typ \in Types : PulledOnce(typ) =>
          /\ MemoryOnce(typ)
          /\ \A sys \in {"Acu", "Ass", "Sf", "Sh"} :
                /\ PushesOnto(sys, typ) /\ <<sys, typ>> \notin touched
                /\ typ = "C" => ~created
                => EqualSoFar(sys, typ)

ClientPull(a) == a.typ = "C" /\ a.sys \in {"Acu", "Ass"}

(* At the beginning no system knows a wrong account, and AssCache all.     *)
StartIdsRight ==
    \A x \in Tables, k \in Keys :
        (x[2] = "C" /\ Start[x][k] # None /\ Start[x][k].sf # NoId) =>
            /\ Start[x][k].sf \in DOMAIN StartAccounts
            /\ StartAccounts[Start[x][k].sf].key = k

StartIds ==
    /\ StartIdsRight
    /\ \A i \in DOMAIN StartAccounts :
          /\ Start[<<"Ass", "C">>][StartAccounts[i].key] # None
          /\ Start[<<"Ass", "C">>][StartAccounts[i].key].sf = i

AssId(k) == IF stored[<<"Ass", "C">>][k] = None THEN NoId ELSE stored[<<"Ass", "C">>][k].sf

Excused == forgotten \cup unaware

(* AssCache or the run knows every account, but those of the excused ... *)
AccountsKnown ==
    \A i \in DOMAIN accounts, k \in Keys :
        accounts[i].key = k /\ k \notin Excused =>
            AssId(k) = i \/ \E r \in ToSet(memory["C"]) : r.key = k /\ r.sf = i

(* ... and a run that pushes clients knows of each the only one, AssCache  *)
(* before the run pulls them.                                              *)
ClientsOnce ==
    PushesClients(run) =>
        /\ \A i, j \in DOMAIN memory["C"] :
              memory["C"][i].key = memory["C"][j].key /\ memory["C"][i].key \notin Excused
              /\ memory["C"][i].sf = NoId => i = j
        /\ \A r \in ToSet(memory["C"]), i \in DOMAIN accounts :
              accounts[i].key = r.key /\ r.key \notin Excused => r.sf = i
        /\ exit = "running" /\ (\E i \in DOMAIN todo : todo[i].step = "pull" /\ ClientPull(todo[i])) =>
              \A i \in DOMAIN accounts :
                  accounts[i].key \notin Excused => AssId(accounts[i].key) = i

AccountInv == TypeOK /\ InOrder /\ IdsRight /\ AccountsKnown /\ ClientsOnce

=============================================================================
