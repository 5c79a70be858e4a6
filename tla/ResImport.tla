------------------------------ MODULE ResImport -----------------------------
(***************************************************************************)
(* SihotResImport: the files of the import folders are loaded, their       *)
(* bookings are sent to Sihot, and the files are moved to "processed".     *)
(*                                                                         *)
(* A JSON file is named by the number of its export, and the folder lists  *)
(* them in this order only after a sort; its bookings are changes of a     *)
(* booking, or its cancellation, of which the last one has to win.  An RCI *)
(* file (RCI weeks) is abstracted to what the run makes of it: no line of  *)
(* it is imported ("skipped"), it has a line or a header that is reported  *)
(* ("faulty"), or it has a booking ("booking").  The look-up of the client *)
(* of an RCI booking raises an exception, see README, so that nothing that *)
(* follows in the code for RCI bookings is ever reached.                   *)
(***************************************************************************)
EXTENDS Naturals, Sequences, SequencesExt

CONSTANTS
    JsonFiles,      \* the names of the JSON files, in alphabetical order
    RciFiles,
    Bookings,
    Contents,       \* the sequences of bookings a JSON file may hold
    MaxFaults       \* bound: refused bookings, failed fetches, kills and cancels

ASSUME ImportAssumption ==
    /\ JsonFiles \subseteq Nat \ {0}
    /\ RciFiles \cap JsonFiles = {}
    /\ Contents \subseteq Seq(Bookings)
    /\ MaxFaults \in Nat

Files == JsonFiles \cup RciFiles
RciKinds == {"skipped", "faulty", "booking"}
NoVersion == 0

VARIABLES
    \* given
    lines,          \* JSON file -> its bookings
    readable,       \* the JSON files that can be loaded and have the old names of the fields
    rciKind,        \* RCI file -> what it holds
    breakOnError,
    \* the import folders, Sihot
    arrived,        \* the files exported so far
    folder,         \* files in the import folders
    processed,      \* files in the sub-folders "processed"
    version,        \* booking -> the file of the version that Sihot has
    accepted,       \* <<file, booking>>: accepted by Sihot
    \* a run
    phase,          \* "idle", or the part of run_import()
    queue,          \* the files that the current loop has to do
    rciFiles,       \* rci_files
    jsoFiles,       \* jso_files
    rows,           \* res_rows: the rest that has to be sent, as [file, booking]
    errs,           \* files with an entry in error_log
    cancelled,      \* cancel_import
    \* bounds and history
    cut,            \* the run has left out a part of the work
    cutMoved,       \* files moved to "processed" by a run that was cut
    tried, again,   \* files collected by a run; by a second one
    faults

given == <<lines, readable, rciKind, breakOnError>>
disk == <<arrived, folder, processed>>
sihot == <<version, accepted>>
history == <<cutMoved, tried, again>>
collected == <<rciFiles, jsoFiles>>
vars == <<given, disk, sihot, phase, queue, collected, rows, errs, cancelled,
          cut, history, faults>>

Phases == {"idle", "fetch", "rci", "lines", "json", "load", "send", "sending", "move"}
Running == phase # "idle"
BreakAfter(e) == e # {} /\ breakOnError

Init ==
    /\ lines \in [JsonFiles -> Contents]
    /\ readable \in SUBSET JsonFiles
    /\ rciKind \in [RciFiles -> RciKinds]
    /\ breakOnError \in BOOLEAN
    /\ arrived = {} /\ folder = {} /\ processed = {}
    /\ version = [b \in Bookings |-> NoVersion] /\ accepted = {}
    /\ phase = "idle" /\ queue = <<>> /\ rciFiles = <<>> /\ jsoFiles = <<>> /\ rows = <<>>
    /\ errs = {} /\ cancelled = FALSE
    /\ cut = FALSE /\ cutMoved = {} /\ tried = {} /\ again = {}
    /\ faults = 0

-----------------------------------------------------------------------------
(* The world around.                                                       *)

(* The exporters write the JSON files in the order of their names. *)
Arrive(f) ==
    /\ f \notin arrived
    /\ f \in JsonFiles => \A g \in JsonFiles : g < f => g \in arrived
    /\ arrived' = arrived \cup {f}
    /\ folder' = folder \cup {f}
    /\ UNCHANGED <<given, processed, sihot, phase, queue, collected, rows, errs,
                   cancelled, cut, history, faults>>

(* The user presses "Cancel Import". *)
Cancel ==
    /\ Running /\ ~cancelled /\ faults < MaxFaults
    /\ cancelled' = TRUE
    /\ faults' = faults + 1
    /\ UNCHANGED <<given, disk, sihot, phase, queue, collected, rows, errs, cut, history>>

-----------------------------------------------------------------------------
(* collect_files() and the order of the files in a run.                    *)

(* Mutant: the sort of jso_files is missing. *)
CollectFilesUnsorted ==
    /\ rciFiles' \in SetToSeqs(folder \cap RciFiles)
    /\ jsoFiles' \in SetToSeqs(folder \cap JsonFiles)

ByName(fs) == \A i, j \in DOMAIN fs : i < j => fs[i] < fs[j]

(* rci_files keeps the order of glob(), which is arbitrary. *)
CollectFiles ==
    /\ rciFiles' \in SetToSeqs(folder \cap RciFiles)
    /\ jsoFiles' \in {fs \in SetToSeqs(folder \cap JsonFiles) : ByName(fs)}

StartImport ==
    /\ ~Running /\ folder # {}
    /\ CollectFiles
    /\ phase' = IF folder \cap RciFiles # {} THEN "fetch" ELSE "json"
    /\ tried' = tried \cup folder
    /\ again' = again \cup (tried \cap folder)
    /\ UNCHANGED <<given, disk, sihot, queue, rows, errs, cancelled, cut, cutMoved, faults>>

(* The end of exec_import() and of the join() after a cancel, without or   *)
(* after the files were moved.                                             *)
EndOfRun ==
    /\ phase' = "idle" /\ queue' = <<>> /\ rciFiles' = <<>> /\ jsoFiles' = <<>> /\ rows' = <<>>
    /\ errs' = {} /\ cancelled' = FALSE /\ cut' = FALSE

(* ass_clients_pull() or ri_fetch_all() reports an error: run_import() returns. *)
FetchFails ==
    /\ phase = "fetch" /\ ~cancelled /\ faults < MaxFaults
    /\ EndOfRun
    /\ faults' = faults + 1
    /\ UNCHANGED <<given, disk, sihot, history>>

(* The process ends, or an exception leaves run_import(). *)
Killed ==
    /\ Running /\ faults < MaxFaults
    /\ EndOfRun
    /\ faults' = faults + 1
    /\ UNCHANGED <<given, disk, sihot, history>>

-----------------------------------------------------------------------------
(* Loading.                                                                *)

GoOn(p) == phase' = p /\ UNCHANGED <<given, disk, sihot, cancelled, history, faults>>

Fetched ==
    /\ phase = "fetch" /\ ~cancelled
    /\ queue' = rciFiles
    /\ GoOn("rci")
    /\ UNCHANGED <<collected, rows, errs, cut>>

(* Cancelled before the RCI files: they get no entry in error_log. *)
RciSkipped ==
    /\ phase = "fetch" /\ cancelled
    /\ cut' = TRUE
    /\ GoOn("json")
    /\ UNCHANGED <<queue, collected, rows, errs>>

(* The next file, or the cancelled loop over the RCI files. *)
RciFile ==
    /\ phase = "rci" /\ queue # <<>>
    /\ \/ /\ cancelled
          /\ errs' = errs \cup {Head(queue)}
          /\ queue' = <<>> /\ cut' = TRUE
          /\ GoOn("rci")
       \/ /\ ~cancelled
          /\ GoOn("lines")
          /\ UNCHANGED <<queue, errs, cut>>
    /\ UNCHANGED <<collected, rows>>

(* The rest of the loop after a file is left out by breakOnError. *)
NextRciFile(e) ==
    /\ errs' = e
    /\ queue' = IF BreakAfter(e) THEN <<>> ELSE Tail(queue)
    /\ GoOn("rci")

RciLines ==
    /\ phase = "lines"
    /\ \/ /\ cancelled
          /\ NextRciFile(errs \cup {Head(queue)})
          /\ cut' = TRUE
       \/ /\ ~cancelled /\ rciKind[Head(queue)] = "faulty"
          /\ NextRciFile(errs \cup {Head(queue)})
          /\ UNCHANGED cut
       \/ /\ ~cancelled /\ rciKind[Head(queue)] = "skipped"
          /\ NextRciFile(errs)
          /\ UNCHANGED cut
    /\ UNCHANGED <<collected, rows>>

(* cl_idx_by_rci_id() raises an exception: nothing was sent or moved. *)
RciBooking ==
    /\ phase = "lines" /\ ~cancelled
    /\ rciKind[Head(queue)] = "booking"
    /\ EndOfRun
    /\ UNCHANGED <<given, disk, sihot, history, faults>>

RciDone ==
    /\ phase = "rci" /\ queue = <<>>
    /\ GoOn("json")
    /\ UNCHANGED <<queue, collected, rows, errs, cut>>

MayGoOn == ~cancelled /\ ~BreakAfter(errs)

(* The entry into the loop over the JSON files, or none. *)
JsonStart ==
    /\ phase = "json" /\ queue = <<>> /\ rows = <<>>
    /\ MayGoOn /\ jsoFiles # <<>>
    /\ queue' = jsoFiles
    /\ GoOn("load")
    /\ UNCHANGED <<collected, rows, errs, cut>>

(* Cancelled, an error and breakOnError, or no JSON file. *)
JsonSkipped ==
    /\ phase = "json" /\ queue = <<>>
    /\ MayGoOn => jsoFiles = <<>>
    /\ cut' = (cut \/ jsoFiles # <<>>)
    /\ GoOn("send")
    /\ UNCHANGED <<queue, collected, rows, errs>>

RowsOf(f) == [i \in DOMAIN lines[f] |-> [file |-> f, booking |-> lines[f][i]]]

JsonFile ==
    /\ phase = "load" /\ queue # <<>>
    /\ \/ /\ cancelled
          /\ errs' = errs \cup {Head(queue)}
          /\ queue' = <<>> /\ cut' = TRUE
          /\ UNCHANGED rows
       \/ /\ ~cancelled /\ Head(queue) \in readable
          /\ rows' = rows \o RowsOf(Head(queue))
          /\ queue' = Tail(queue)
          /\ UNCHANGED <<errs, cut>>
    /\ GoOn("load")
    /\ UNCHANGED collected

(* json.load() or row.pop() of an old field name raises an exception. *)
JsonUnreadable ==
    /\ phase = "load" /\ queue # <<>> /\ ~cancelled
    /\ Head(queue) \notin readable
    /\ EndOfRun
    /\ UNCHANGED <<given, disk, sihot, history, faults>>

JsonDone ==
    /\ phase = "load" /\ queue = <<>>
    /\ GoOn("send")
    /\ UNCHANGED <<queue, collected, rows, errs, cut>>

-----------------------------------------------------------------------------
(* Sending, and moving the files.                                          *)

SendStart ==
    /\ phase = "send" /\ MayGoOn
    /\ GoOn("sending")
    /\ UNCHANGED <<queue, collected, rows, errs, cut>>

SendSkipped ==
    /\ phase = "send" /\ ~MayGoOn
    /\ cut' = (cut \/ rows # <<>>)
    /\ rows' = <<>>
    /\ GoOn("sending")
    /\ UNCHANGED <<queue, collected, errs>>

SendCancelled ==
    /\ phase = "sending" /\ rows # <<>> /\ cancelled
    /\ errs' = errs \cup {Head(rows).file}
    /\ rows' = <<>> /\ cut' = TRUE
    /\ GoOn("sending")
    /\ UNCHANGED <<queue, collected>>

SendAccepted ==
    /\ phase = "sending" /\ rows # <<>> /\ ~cancelled
    /\ version' = [version EXCEPT ![Head(rows).booking] = Head(rows).file]
    /\ accepted' = accepted \cup {<<Head(rows).file, Head(rows).booking>>}
    /\ rows' = Tail(rows)
    /\ UNCHANGED <<given, disk, phase, queue, collected, errs, cancelled, cut, history, faults>>

(* Mutant: the answer of Sihot is only a warning. *)
SendRefusedSilent ==
    /\ phase = "sending" /\ rows # <<>> /\ ~cancelled /\ faults < MaxFaults
    /\ rows' = Tail(rows)
    /\ faults' = faults + 1
    /\ UNCHANGED <<given, disk, sihot, phase, queue, collected, errs, cancelled, cut, history>>

SendRefused ==
    /\ phase = "sending" /\ rows # <<>> /\ ~cancelled /\ faults < MaxFaults
    /\ errs' = errs \cup {Head(rows).file}
    /\ rows' = IF breakOnError THEN <<>> ELSE Tail(rows)
    /\ cut' = (cut \/ (breakOnError /\ Tail(rows) # <<>>))
    /\ faults' = faults + 1
    /\ UNCHANGED <<given, disk, sihot, phase, queue, collected, cancelled, history>>

SendDone ==
    /\ phase = "sending" /\ rows = <<>>
    /\ queue' = rciFiles \o jsoFiles
    /\ GoOn("move")
    /\ UNCHANGED <<collected, rows, errs, cut>>

(* Mutants: the files are moved after a run without any error; only copied. *)
MoveFileAllOrNone ==
    /\ phase = "move" /\ queue # <<>>
    /\ LET moved == IF errs = {} THEN {Head(queue)} ELSE {} IN
       /\ folder' = folder \ moved
       /\ processed' = processed \cup moved
       /\ cutMoved' = IF cut THEN cutMoved \cup moved ELSE cutMoved
    /\ queue' = Tail(queue)
    /\ UNCHANGED <<given, arrived, sihot, phase, collected, rows, errs, cancelled,
                   cut, tried, again, faults>>

(* A file is moved if it has no entry in error_log, however far it came. *)
MoveFile ==
    /\ phase = "move" /\ queue # <<>>
    /\ LET moved == {Head(queue)} \ errs IN
       /\ folder' = folder \ moved
       /\ processed' = processed \cup moved
       /\ cutMoved' = IF cut THEN cutMoved \cup moved ELSE cutMoved
    /\ queue' = Tail(queue)
    /\ UNCHANGED <<given, arrived, sihot, phase, collected, rows, errs, cancelled,
                   cut, tried, again, faults>>

Finish ==
    /\ phase = "move" /\ queue = <<>>
    /\ EndOfRun
    /\ UNCHANGED <<given, disk, sihot, history, faults>>

-----------------------------------------------------------------------------

RunStep ==
    \/ Fetched \/ RciSkipped \/ RciFile \/ RciLines \/ RciBooking \/ RciDone
    \/ JsonStart \/ JsonSkipped \/ JsonFile \/ JsonUnreadable \/ JsonDone
    \/ SendStart \/ SendSkipped \/ SendCancelled \/ SendAccepted \/ SendDone
    \/ MoveFile \/ Finish

Next ==
    \/ \E f \in Files : Arrive(f)
    \/ Cancel \/ StartImport \/ FetchFails \/ Killed
    \/ RunStep \/ SendRefused

(* A run that works goes on, and somebody starts a further one. *)
Spec == Init /\ [][Next]_vars /\ WF_vars(RunStep) /\ WF_vars(StartImport)

-----------------------------------------------------------------------------

BookingsOf(f) == {lines[f][i] : i \in DOMAIN lines[f]}

(* A JSON file leaves the import folder only when Sihot has accepted every *)
(* one of its bookings, unless a cancel or breakOnError has cut the run:   *)
(* run_import() decides by the error log alone, not by what it has sent.   *)
ProcessedDelivered ==
    \A f \in (processed \cap JsonFiles) \ cutMoved :
        \A b \in BookingsOf(f) : <<f, b>> \in accepted

(* Sihot has the latest version of every booking that it has accepted,     *)
(* over several runs with refusals, kills and cancels, unless a file with  *)
(* an older one was left in the folder and is sent again.                  *)
LatestWins ==
    \A b \in Bookings :
        \/ \A f \in JsonFiles : <<f, b>> \in accepted => f <= version[b]
        \/ \E f \in again \cap JsonFiles : b \in BookingsOf(f)

(* A file with an entry in the error log of a run, or which makes the run  *)
(* end with an exception. *)
Faulty(f) == f \in RciFiles /\ rciKind[f] = "faulty"
Deadly(f) ==
    \/ f \in RciFiles /\ rciKind[f] = "booking"
    \/ f \in JsonFiles \ readable

(* Refused, cancelled and killed runs are repeated until every file is     *)
(* imported, unless a file in one of the folders makes every run end early.*)
ImportGoesOn ==
    \A f \in Files :
        f \in folder ~> (f \in processed \/ Faulty(f) \/ \E g \in folder : Deadly(g))

(* breakOnError documents the abort of an import as the exception: without *)
(* it, no file should end a run.  Does not hold (README, Findings).        *)
ErrorsAreSkipped ==
    [][ (RciBooking \/ JsonUnreadable) => breakOnError ]_vars

-----------------------------------------------------------------------------
(* The strengthening of ProcessedDelivered and LatestWins.                 *)

Row == [file : JsonFiles, booking : Bookings]

ImportTypes ==
    /\ lines \in [JsonFiles -> Seq(Bookings)]
    /\ version \in [Bookings -> JsonFiles \cup {NoVersion}]
    /\ accepted \subseteq JsonFiles \X Bookings
    /\ queue \in Seq(Files) /\ rciFiles \in Seq(RciFiles) /\ jsoFiles \in Seq(JsonFiles)
    /\ rows \in Seq(Row)

(* A file is in one folder.  With a JSON file every older one has arrived, *)
(* and was in the folder when a run collected the newer one, or before.    *)
FilesKnown ==
    /\ arrived = folder \cup processed /\ folder \cap processed = {} /\ IsFiniteSet(folder)
    /\ processed \subseteq tried /\ tried \subseteq arrived
    /\ \A f, g \in JsonFiles : g < f =>
          (f \in arrived => g \in arrived) /\ (f \in tried => g \in tried)
    /\ ToSet(rciFiles) \cup ToSet(jsoFiles) \subseteq tried
    /\ \A a \in accepted : a[1] \in tried

(* The files, and the bookings that were loaded from them, are in order.   *)
RowsInOrder ==
    /\ ByName(jsoFiles)
    /\ \A i \in DOMAIN rows : rows[i].booking \in BookingsOf(rows[i].file) /\ rows[i].file \in tried
    /\ \A i, j \in DOMAIN rows : i <= j => rows[i].file <= rows[j].file
    /\ phase = "load" =>
          /\ ByName(queue) /\ ToSet(queue) \subseteq ToSet(jsoFiles)
          /\ \A i \in DOMAIN rows, j \in DOMAIN queue : rows[i].file < queue[j]

(* A file that is sent after a newer one has been collected before. *)
OlderIsSentAgain ==
    \A a \in accepted :
        /\ phase \notin {"sending", "move"} =>
              \A f \in ToSet(jsoFiles) : a[1] > f => f \in again
        /\ \A i \in DOMAIN rows : a[1] > rows[i].file => rows[i].file \in again

(* A run that was not cut has loaded every booking, or reports its file. *)
Kept(f, b) ==
    \/ <<f, b>> \in accepted
    \/ [file |-> f, booking |-> b] \in ToSet(rows)
    \/ phase = "load" /\ f \in ToSet(queue)

NothingDropped ==
    /\ ~cut /\ phase \in {"load", "send", "sending", "move"} =>
          \A f \in ToSet(jsoFiles) : f \in errs \/ \A b \in BookingsOf(f) : Kept(f, b)
    /\ phase = "move" =>
          rows = <<>> /\ ToSet(queue) \subseteq ToSet(rciFiles) \cup ToSet(jsoFiles)
    /\ phase = "lines" => queue # <<>>

ImportInv ==
    /\ ImportTypes /\ FilesKnown /\ RowsInOrder /\ OlderIsSentAgain /\ NothingDropped
    /\ ProcessedDelivered /\ LatestWins
=============================================================================
