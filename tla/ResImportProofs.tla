-------------------------- MODULE ResImportProofs --------------------------
(***************************************************************************)
(* Proofs about SihotResImport (ResImport): what a file in the folder      *)
(* "processed" says about Sihot, and which version of a booking Sihot has. *)
(*                                                                         *)
(* MoveFile looks at nothing but the error log, so that ProcessedDelivered *)
(* needs to know of every step of a run that it keeps a booking in the     *)
(* rest of the run, or reports its file, or cuts the run (NothingDropped). *)
(* LatestWins needs the order of the rest (RowsInOrder), and that a file   *)
(* which is collected after a newer one was sent has been collected before *)
(* (OlderIsSentAgain), which follows from the order in which the files     *)
(* arrive (FilesKnown).                                                    *)
(***************************************************************************)
EXTENDS ResImport, FiniteSetTheorems, TLAPS

-----------------------------------------------------------------------------
(* Sequences, types, and the part of a run before the JSON files.          *)

LEMMA TailOf ==
    ASSUME NEW S, NEW s \in Seq(S), s # <<>>
    PROVE  /\ Head(s) \in S /\ Tail(s) \in Seq(S)
           /\ 1 \in DOMAIN s /\ Head(s) = s[1]
           /\ \A i \in DOMAIN Tail(s) : i \in Nat /\ i >= 1 /\ i + 1 \in DOMAIN s /\ Tail(s)[i] = s[i + 1]
           /\ ToSet(s) = {Head(s)} \cup ToSet(Tail(s))
  <1>1. Head(s) \in S /\ Tail(s) \in Seq(S) /\ Len(s) \in Nat /\ Len(s) # 0
    OBVIOUS
  <1>2. DOMAIN s = 1 .. Len(s) /\ DOMAIN Tail(s) = 1 .. Len(s) - 1
    BY <1>1
  <1>3. Head(s) = s[1] /\ \A i \in 1 .. Len(s) - 1 : Tail(s)[i] = s[i + 1]
    OBVIOUS
  <1>4. \A i \in DOMAIN Tail(s) : i \in Nat /\ i >= 1 /\ i + 1 \in DOMAIN s /\ Tail(s)[i] = s[i + 1]
    BY <1>1, <1>2, <1>3
  <1>5. 1 \in DOMAIN s
    BY <1>1, <1>2
  <1>6. ASSUME NEW x \in ToSet(s) PROVE x = Head(s) \/ x \in ToSet(Tail(s))
    <2>1. PICK i \in DOMAIN s : x = s[i]
      BY DEF ToSet
    <2>2. CASE i = 1
      BY <1>3, <2>1, <2>2
    <2>3. CASE i # 1
      <3>1. i - 1 \in 1 .. Len(s) - 1 /\ (i - 1) + 1 = i
        BY <1>1, <1>2, <2>3
      <3>2. Tail(s)[i - 1] = x /\ i - 1 \in DOMAIN Tail(s)
        BY <1>2, <1>3, <2>1, <3>1
      <3> QED BY <3>2 DEF ToSet
    <2> QED BY <2>2, <2>3
  <1>7. Head(s) \in ToSet(s) /\ \A x \in ToSet(Tail(s)) : x \in ToSet(s)
    BY <1>3, <1>4, <1>5 DEF ToSet
  <1> QED BY <1>1, <1>3, <1>4, <1>5, <1>6, <1>7

LEMMA InSeq == ASSUME NEW S, NEW s \in Seq(S) PROVE \A i \in DOMAIN s : i \in Nat /\ i >= 1 /\ s[i] \in S
  <1>1. Len(s) \in Nat /\ DOMAIN s = 1 .. Len(s) /\ \A i \in 1 .. Len(s) : s[i] \in S
    OBVIOUS
  <1> QED BY <1>1

LEMMA ElemsOf == ASSUME NEW S, NEW s \in Seq(S) PROVE ToSet(s) \subseteq S
  <1>1. \A i \in DOMAIN s : s[i] \in S
    <2>1. DOMAIN s = 1 .. Len(s) /\ \A i \in 1 .. Len(s) : s[i] \in S
      OBVIOUS
    <2> QED BY <2>1
  <1> QED BY <1>1 DEF ToSet

LEMMA EmptyOf == DOMAIN <<>> = {} /\ ToSet(<<>>) = {} /\ \A S : <<>> \in Seq(S)
  <1>1. DOMAIN <<>> = {} /\ \A S : <<>> \in Seq(S)
    OBVIOUS
  <1> QED BY <1>1 DEF ToSet

LEMMA BookingsType == ASSUME ImportTypes, NEW f \in JsonFiles PROVE BookingsOf(f) \subseteq Bookings
  <1>1. lines[f] \in Seq(Bookings)
    BY DEF ImportTypes
  <1>2. \A i \in DOMAIN lines[f] : lines[f][i] \in Bookings
    <2>1. DOMAIN lines[f] = 1 .. Len(lines[f]) /\ \A i \in 1 .. Len(lines[f]) : lines[f][i] \in Bookings
      BY <1>1
    <2> QED BY <2>1
  <1> QED BY <1>2 DEF BookingsOf

\* The files of an import are numbers.
LEMMA FilesType == JsonFiles \subseteq Nat /\ NoVersion \in Nat /\ \A f \in RciFiles : f \notin JsonFiles
  BY ImportAssumption DEF NoVersion

LEMMA InvInit == Init => ImportInv
  <1> SUFFICES ASSUME Init PROVE ImportInv
    OBVIOUS
  <1>1. queue = <<>> /\ rciFiles = <<>> /\ jsoFiles = <<>> /\ rows = <<>>
    BY DEF Init
  <1>2. ImportTypes
    <2>1. lines \in [JsonFiles -> Seq(Bookings)]
      BY ImportAssumption DEF Init
    <2> QED BY <1>1, <2>1, EmptyOf DEF Init, ImportTypes
  <1>3. RowsInOrder /\ OlderIsSentAgain /\ NothingDropped
    BY <1>1, EmptyOf DEF Init, RowsInOrder, OlderIsSentAgain, NothingDropped, ByName
  <1>4. FilesKnown
    BY <1>1, EmptyOf, FS_EmptySet DEF Init, FilesKnown
  <1>5. ProcessedDelivered /\ LatestWins
    BY DEF Init, ProcessedDelivered, LatestWins
  <1> QED BY <1>2, <1>3, <1>4, <1>5 DEF ImportInv

\* A step that leaves the folders, Sihot and the collected files as they are.
LEMMA StepKeeps ==
    ASSUME ImportInv, UNCHANGED <<given, disk, sihot, history, rciFiles, jsoFiles>>,
           queue' \in Seq(Files), rows' \in Seq(Row), RowsInOrder', OlderIsSentAgain', NothingDropped'
    PROVE  ImportInv'
  <1>1. UNCHANGED <<lines, arrived, folder, processed, version, accepted, cutMoved, tried, again>>
    BY DEF given, disk, sihot, history
  <1>2. ImportTypes'
    BY <1>1 DEF ImportInv, ImportTypes
  <1>3. FilesKnown'
    BY <1>1 DEF ImportInv, FilesKnown
  <1>4. ProcessedDelivered' /\ LatestWins'
    BY <1>1 DEF ImportInv, ProcessedDelivered, LatestWins, BookingsOf
  <1> QED BY <1>2, <1>3, <1>4 DEF ImportInv

\* The part of a run before the JSON files.
LEMMA RciKeeps ==
    ASSUME ImportInv, UNCHANGED <<given, disk, sihot, history, rciFiles, jsoFiles, rows>>,
           queue' \in Seq(Files), phase \in {"fetch", "rci", "lines"}, phase' \in {"rci", "lines", "json"},
           phase' = "lines" => queue' # <<>>
    PROVE  ImportInv'
  <1>1. UNCHANGED <<lines, accepted, tried, again>>
    BY DEF given, sihot, history
  <1>2. rows' \in Seq(Row)
    BY DEF ImportInv, ImportTypes
  <1>3. RowsInOrder'
    BY <1>1 DEF ImportInv, RowsInOrder, BookingsOf
  <1>4. OlderIsSentAgain'
    BY <1>1 DEF ImportInv, OlderIsSentAgain
  <1>5. NothingDropped'
    BY DEF NothingDropped
  <1> QED BY <1>2, <1>3, <1>4, <1>5, StepKeeps

LEMMA RciStepKeeps ==
    ASSUME ImportInv, Fetched \/ RciSkipped \/ RciFile \/ RciLines \/ RciDone
    PROVE  ImportInv'
  <1>1. UNCHANGED <<given, disk, sihot, history, rciFiles, jsoFiles, rows>>
    BY DEF Fetched, RciSkipped, RciFile, RciLines, RciDone, NextRciFile, GoOn, collected
  <1>2. phase \in {"fetch", "rci", "lines"} /\ phase' \in {"rci", "lines", "json"}
    BY DEF Fetched, RciSkipped, RciFile, RciLines, RciDone, NextRciFile, GoOn
  <1>3. queue' \in {queue, rciFiles, <<>>, Tail(queue)}
    BY DEF Fetched, RciSkipped, RciFile, RciLines, RciDone, NextRciFile, GoOn
  <1>4. queue \in Seq(Files) /\ rciFiles \in Seq(Files) /\ <<>> \in Seq(Files)
    <2>1. rciFiles \in Seq(RciFiles) /\ RciFiles \subseteq Files /\ queue \in Seq(Files)
      BY DEF ImportInv, ImportTypes, Files
    <2> QED BY <2>1
  <1>5. queue' = Tail(queue) => Tail(queue) \in Seq(Files) \/ queue' = <<>>
    <2>1. queue # <<>> => Tail(queue) \in Seq(Files)
      BY <1>4
    <2>2. CASE RciLines
      <3>1. queue # <<>>
        BY <2>2 DEF RciLines, ImportInv, NothingDropped
      <3> QED BY <2>1, <3>1
    <2>3. CASE RciFile
      <3>1. queue # <<>>
        BY <2>3 DEF RciFile
      <3> QED BY <2>1, <3>1
    <2>4. CASE Fetched \/ RciSkipped \/ RciDone
      <3>1. queue' \in {queue, rciFiles}
        BY <2>4 DEF Fetched, RciSkipped, RciDone, GoOn
      <3>2. rciFiles \in Seq(Files)
        BY <1>4
      <3> QED BY <1>4, <3>1, <3>2
    <2> QED BY <2>2, <2>3, <2>4
  <1>6. queue' \in Seq(Files)
    BY <1>3, <1>4, <1>5
  <1>7. phase' = "lines" => queue' # <<>>
    BY DEF Fetched, RciSkipped, RciFile, RciLines, RciDone, NextRciFile, GoOn
  <1> QED BY <1>1, <1>2, <1>6, <1>7, RciKeeps

-----------------------------------------------------------------------------
(* The steps that collect files, and those that end a run.                 *)

\* Nothing of a run changes.
LEMMA RunStays ==
    ASSUME ImportInv, UNCHANGED <<given, accepted, tried, again, phase, queue, rciFiles, jsoFiles, rows, errs, cut>>
    PROVE  RowsInOrder' /\ OlderIsSentAgain' /\ NothingDropped'
  <1>1. UNCHANGED lines
    BY DEF given
  <1>2. RowsInOrder /\ OlderIsSentAgain /\ NothingDropped
    BY DEF ImportInv
  <1>3. RowsInOrder'
    BY <1>1, <1>2 DEF RowsInOrder, BookingsOf
  <1>4. OlderIsSentAgain'
    BY <1>2 DEF OlderIsSentAgain
  <1>5. NothingDropped'
    BY <1>1, <1>2 DEF NothingDropped, BookingsOf, Kept
  <1> QED BY <1>3, <1>4, <1>5

LEMMA ArriveKeeps ==
    ASSUME ImportInv, NEW f \in Files, Arrive(f)
    PROVE  ImportInv'
  <1>1. /\ f \notin arrived /\ arrived' = arrived \cup {f} /\ folder' = folder \cup {f}
        /\ f \in JsonFiles => \A g \in JsonFiles : g < f => g \in arrived
        /\ UNCHANGED <<lines, processed, version, accepted, phase, queue, rciFiles, jsoFiles, rows, errs,
                       cut, cutMoved, tried, again>>
    BY DEF Arrive, given, sihot, history, collected
  <1>2. RowsInOrder' /\ OlderIsSentAgain' /\ NothingDropped'
    BY <1>1, RunStays DEF Arrive
  <1>3. ImportTypes' /\ ProcessedDelivered' /\ LatestWins'
    <2>1. ImportTypes'
      BY <1>1 DEF ImportInv, ImportTypes
    <2>2. ProcessedDelivered'
      BY <1>1 DEF ImportInv, ProcessedDelivered, BookingsOf
    <2>3. LatestWins'
      BY <1>1 DEF ImportInv, LatestWins, BookingsOf
    <2> QED BY <2>1, <2>2, <2>3
  <1>4. FilesKnown'
    <2>1. FilesKnown
      BY DEF ImportInv
    <2>2. \A g, h \in JsonFiles : h < g /\ g \in arrived' => h \in arrived'
      BY <1>1, <2>1 DEF FilesKnown
    <2>3. arrived' = folder' \cup processed' /\ folder' \cap processed' = {} /\ tried' \subseteq arrived'
      BY <1>1, <2>1 DEF FilesKnown
    <2>4. IsFiniteSet(folder')
      BY <1>1, <2>1, FS_AddElement DEF FilesKnown
    <2> QED BY <1>1, <2>1, <2>2, <2>3, <2>4 DEF FilesKnown
  <1> QED BY <1>2, <1>3, <1>4 DEF ImportInv

LEMMA CancelKeeps ==
    ASSUME ImportInv, Cancel
    PROVE  ImportInv'
  <1>1. UNCHANGED <<given, disk, sihot, history, phase, queue, rciFiles, jsoFiles, rows, errs, cut>>
    BY DEF Cancel, collected
  <1>2. RowsInOrder' /\ OlderIsSentAgain' /\ NothingDropped'
    BY <1>1, RunStays DEF sihot, history
  <1>3. queue' \in Seq(Files) /\ rows' \in Seq(Row)
    BY <1>1 DEF ImportInv, ImportTypes
  <1> QED BY <1>1, <1>2, <1>3, StepKeeps

\* The files are listed, the JSON files by their names.
LEMMA StartKeeps ==
    ASSUME ImportInv, StartImport
    PROVE  ImportInv'
  <1>1. /\ tried' = tried \cup folder /\ again' = again \cup (tried \cap folder)
        /\ phase' \in {"fetch", "json"}
        /\ UNCHANGED <<lines, arrived, folder, processed, version, accepted, queue, rows, cutMoved>>
    BY DEF StartImport, given, disk, sihot
  <1>2. ImportTypes /\ FilesKnown /\ RowsInOrder /\ OlderIsSentAgain /\ ProcessedDelivered /\ LatestWins
    BY DEF ImportInv
  <1>3. /\ rciFiles' \in Seq(RciFiles) /\ ToSet(rciFiles') \subseteq folder
        /\ jsoFiles' \in Seq(JsonFiles) /\ ToSet(jsoFiles') \subseteq folder /\ ByName(jsoFiles')
    <2>1. ASSUME NEW S, IsFiniteSet(S), NEW s \in SetToSeqs(S) PROVE s \in Seq(S) /\ ToSet(s) \subseteq S
      <3>1. s \in [1 .. Cardinality(S) -> S] /\ Cardinality(S) \in Nat
        BY <2>1, FS_CardinalityType DEF SetToSeqs
      <3>2. s \in Seq(S)
        BY <3>1
      <3> QED BY <3>2, ElemsOf
    <2>2. /\ rciFiles' \in SetToSeqs(folder \cap RciFiles)
          /\ jsoFiles' \in SetToSeqs(folder \cap JsonFiles) /\ ByName(jsoFiles')
      BY DEF StartImport, CollectFiles
    <2>3. IsFiniteSet(folder \cap RciFiles) /\ IsFiniteSet(folder \cap JsonFiles)
      BY <1>2, FS_Subset DEF FilesKnown
    <2>4. /\ rciFiles' \in Seq(folder \cap RciFiles) /\ ToSet(rciFiles') \subseteq folder \cap RciFiles
          /\ jsoFiles' \in Seq(folder \cap JsonFiles) /\ ToSet(jsoFiles') \subseteq folder \cap JsonFiles
      BY <2>1, <2>2, <2>3
    <2>5. \A S, T : Seq(S \cap T) \subseteq Seq(T)
      OBVIOUS
    <2> QED BY <2>2, <2>4, <2>5
  <1>4. ImportTypes'
    BY <1>1, <1>2, <1>3 DEF ImportTypes
  <1>5. FilesKnown'
    <2>1. \A g, h \in JsonFiles : h < g /\ g \in tried' => h \in tried'
      BY <1>1, <1>2 DEF FilesKnown
    <2> QED BY <1>1, <1>2, <1>3, <2>1 DEF FilesKnown
  <1>6. RowsInOrder'
    BY <1>1, <1>2, <1>3 DEF RowsInOrder, BookingsOf
  <1>7. OlderIsSentAgain'
    <2>1. ASSUME NEW a \in accepted, NEW f \in ToSet(jsoFiles'), a[1] > f
          PROVE  f \in again'
      <3>1. a[1] \in JsonFiles /\ f \in JsonFiles /\ a[1] \in tried
        BY <1>2, <1>3, ElemsOf DEF ImportTypes, FilesKnown
      <3>2. f \in tried
        BY <1>2, <2>1, <3>1, FilesType DEF FilesKnown
      <3> QED BY <1>1, <1>3, <3>2
    <2> QED BY <1>1, <1>2, <2>1 DEF OlderIsSentAgain
  <1>8. NothingDropped'
    BY <1>1 DEF NothingDropped
  <1>9. ProcessedDelivered' /\ LatestWins'
    BY <1>1, <1>2 DEF ProcessedDelivered, LatestWins, BookingsOf
  <1> QED BY <1>4, <1>5, <1>6, <1>7, <1>8, <1>9 DEF ImportInv

\* The run ends, and forgets what it has loaded.
LEMMA EndKeeps ==
    ASSUME ImportInv, EndOfRun, UNCHANGED <<given, disk, sihot, history>>
    PROVE  ImportInv'
  <1>1. phase' = "idle" /\ queue' = <<>> /\ rciFiles' = <<>> /\ jsoFiles' = <<>> /\ rows' = <<>>
    BY DEF EndOfRun
  <1>2. UNCHANGED <<lines, arrived, folder, processed, version, accepted, cutMoved, tried, again>>
    BY DEF given, disk, sihot, history
  <1>3. ImportTypes'
    BY <1>1, <1>2, EmptyOf DEF ImportInv, ImportTypes
  <1>4. FilesKnown'
    BY <1>1, <1>2, EmptyOf DEF ImportInv, FilesKnown
  <1>5. RowsInOrder' /\ OlderIsSentAgain' /\ NothingDropped'
    BY <1>1, EmptyOf DEF RowsInOrder, OlderIsSentAgain, NothingDropped, ByName
  <1>6. ProcessedDelivered' /\ LatestWins'
    BY <1>2 DEF ImportInv, ProcessedDelivered, LatestWins, BookingsOf
  <1> QED BY <1>3, <1>4, <1>5, <1>6 DEF ImportInv

-----------------------------------------------------------------------------
(* The JSON files are loaded.                                              *)

LEMMA JsonStartKeeps ==
    ASSUME ImportInv, JsonStart
    PROVE  ImportInv'
  <1>1. /\ phase' = "load" /\ queue' = jsoFiles /\ rows = <<>>
        /\ UNCHANGED <<given, disk, sihot, history, rciFiles, jsoFiles, rows, errs, cut>>
    BY DEF JsonStart, GoOn, collected
  <1>2. UNCHANGED <<lines, accepted, tried, again>>
    BY <1>1 DEF given, sihot, history
  <1>3. jsoFiles \in Seq(Files) /\ rows' \in Seq(Row)
    <2>1. jsoFiles \in Seq(JsonFiles) /\ JsonFiles \subseteq Files
      BY DEF ImportInv, ImportTypes, Files
    <2> QED BY <1>1, <2>1, EmptyOf
  <1>4. RowsInOrder'
    BY <1>1, <1>2, EmptyOf DEF ImportInv, RowsInOrder, BookingsOf, ByName
  <1>5. OlderIsSentAgain'
    BY <1>1, <1>2, EmptyOf DEF OlderIsSentAgain, JsonStart, ImportInv
  <1>6. NothingDropped'
    BY <1>1, <1>2 DEF NothingDropped, Kept
  <1> QED BY <1>1, <1>3, <1>4, <1>5, <1>6, StepKeeps

LEMMA JsonSkippedKeeps ==
    ASSUME ImportInv, JsonSkipped
    PROVE  ImportInv'
  <1>1. /\ phase = "json" /\ phase' = "send" /\ cut' = (cut \/ jsoFiles # <<>>)
        /\ UNCHANGED <<given, disk, sihot, history, queue, rciFiles, jsoFiles, rows, errs>>
    BY DEF JsonSkipped, GoOn, collected
  <1>2. UNCHANGED <<lines, accepted, tried, again>>
    BY <1>1 DEF given, sihot, history
  <1>3. queue' \in Seq(Files) /\ rows' \in Seq(Row)
    BY <1>1 DEF ImportInv, ImportTypes
  <1>4. RowsInOrder'
    BY <1>1, <1>2 DEF ImportInv, RowsInOrder, BookingsOf
  <1>5. OlderIsSentAgain'
    BY <1>1, <1>2 DEF OlderIsSentAgain, ImportInv
  <1>6. NothingDropped'
    BY <1>1, EmptyOf DEF NothingDropped
  <1> QED BY <1>1, <1>3, <1>4, <1>5, <1>6, StepKeeps

LEMMA JsonDoneKeeps ==
    ASSUME ImportInv, JsonDone
    PROVE  ImportInv'
  <1>1. /\ phase = "load" /\ phase' = "send" /\ queue = <<>>
        /\ UNCHANGED <<given, disk, sihot, history, queue, rciFiles, jsoFiles, rows, errs, cut>>
    BY DEF JsonDone, GoOn, collected
  <1>2. UNCHANGED <<lines, accepted, tried, again>>
    BY <1>1 DEF given, sihot, history
  <1>3. queue' \in Seq(Files) /\ rows' \in Seq(Row)
    BY <1>1 DEF ImportInv, ImportTypes
  <1>4. RowsInOrder'
    BY <1>1, <1>2 DEF ImportInv, RowsInOrder, BookingsOf
  <1>5. OlderIsSentAgain'
    BY <1>1, <1>2 DEF OlderIsSentAgain, ImportInv
  <1>6. NothingDropped'
    <2>1. ~cut => \A f \in ToSet(jsoFiles) : f \in errs \/ \A b \in BookingsOf(f) :
                     <<f, b>> \in accepted \/ [file |-> f, booking |-> b] \in ToSet(rows)
      BY <1>1, EmptyOf DEF ImportInv, NothingDropped, Kept
    <2> QED BY <1>1, <1>2, <2>1 DEF NothingDropped, Kept, BookingsOf
  <1> QED BY <1>1, <1>3, <1>4, <1>5, <1>6, StepKeeps

\* What is loaded from a file.
LEMMA RowsType ==
    ASSUME ImportTypes, NEW f \in JsonFiles
    PROVE  /\ Len(lines[f]) \in Nat
           /\ RowsOf(f) \in Seq(Row) /\ Len(RowsOf(f)) = Len(lines[f])
           /\ \A i \in 1 .. Len(lines[f]) :
                 RowsOf(f)[i].file = f /\ RowsOf(f)[i].booking \in BookingsOf(f)
           /\ \A b \in BookingsOf(f) :
                 \E i \in 1 .. Len(lines[f]) : RowsOf(f)[i] = [file |-> f, booking |-> b]
  <1>1. lines[f] \in Seq(Bookings)
    BY DEF ImportTypes
  <1> DEFINE k == Len(lines[f])
             s == lines[f]
             r == RowsOf(f)
  <1>2. k \in Nat /\ DOMAIN s = 1 .. k /\ \A i \in 1 .. k : s[i] \in Bookings
    BY <1>1
  <1>3. r = [i \in 1 .. k |-> [file |-> f, booking |-> s[i]]]
    BY <1>2 DEF RowsOf
  <1>9. BookingsOf(f) = {s[i] : i \in 1 .. k}
    BY <1>2 DEF BookingsOf
  <1> HIDE DEF k, s, r
  <1>4. \A b \in Bookings : [file |-> f, booking |-> b] \in Row
    BY DEF Row
  <1>5. r \in [1 .. k -> Row]
    BY <1>2, <1>3, <1>4
  <1>6. r \in Seq(Row) /\ Len(r) = k
    BY <1>2, <1>5
  <1>7. \A i \in 1 .. k : r[i] = [file |-> f, booking |-> s[i]]
    BY <1>3
  <1>10. ASSUME NEW i \in 1 .. k PROVE r[i].file = f /\ r[i].booking = s[i]
    <2>1. r[i] = [file |-> f, booking |-> s[i]]
      BY <1>7
    <2>2. r[i].file = [file |-> f, booking |-> s[i]].file /\ r[i].booking = [file |-> f, booking |-> s[i]].booking
      BY <2>1, Zenon
    <2> QED BY <2>2
  <1>11. /\ \A i \in 1 .. k : r[i].file = f /\ r[i].booking \in BookingsOf(f)
         /\ \A b \in BookingsOf(f) : \E i \in 1 .. k : r[i] = [file |-> f, booking |-> b]
    <2>1. \A i \in 1 .. k : s[i] \in BookingsOf(f)
      BY <1>9
    <2>2. \A b \in BookingsOf(f) : \E i \in 1 .. k : b = s[i]
      BY <1>9
    <2> QED BY <1>7, <1>10, <2>1, <2>2
  <1> QED BY <1>2, <1>6, <1>11 DEF k, r

LEMMA ConcatOf ==
    ASSUME NEW S, NEW s \in Seq(S), NEW t \in Seq(S)
    PROVE  /\ s \o t \in Seq(S) /\ Len(s) \in Nat /\ Len(t) \in Nat /\ DOMAIN (s \o t) = 1 .. Len(s) + Len(t)
           /\ \A i \in 1 .. Len(s) : (s \o t)[i] = s[i] /\ i \in 1 .. Len(s) + Len(t)
           /\ \A i \in 1 .. Len(t) : (s \o t)[Len(s) + i] = t[i] /\ Len(s) + i \in 1 .. Len(s) + Len(t)
  <1>1. Len(s) \in Nat /\ Len(t) \in Nat /\ s \o t \in Seq(S) /\ Len(s \o t) = Len(s) + Len(t)
    OBVIOUS
  <1>2. \A i \in 1 .. Len(s) + Len(t) : (s \o t)[i] = IF i <= Len(s) THEN s[i] ELSE t[i - Len(s)]
    OBVIOUS
  <1>3. DOMAIN (s \o t) = 1 .. Len(s) + Len(t)
    BY <1>1
  <1>4. ASSUME NEW i \in 1 .. Len(s) PROVE (s \o t)[i] = s[i] /\ i \in 1 .. Len(s) + Len(t)
    BY <1>1, <1>2
  <1>5. ASSUME NEW i \in 1 .. Len(t)
        PROVE  (s \o t)[Len(s) + i] = t[i] /\ Len(s) + i \in 1 .. Len(s) + Len(t)
    <2>1. Len(s) + i \in 1 .. Len(s) + Len(t) /\ ~(Len(s) + i <= Len(s)) /\ (Len(s) + i) - Len(s) = i
      BY <1>1
    <2> QED BY <1>2, <2>1
  <1> QED BY <1>1, <1>3, <1>4, <1>5

\* The next file is loaded, behind the older ones.
LEMMA JsonFileKeeps ==
    ASSUME ImportInv, JsonFile
    PROVE  ImportInv'
  <1>1. /\ phase = "load" /\ phase' = "load" /\ queue # <<>>
        /\ UNCHANGED <<given, disk, sihot, history, rciFiles, jsoFiles>>
    BY DEF JsonFile, GoOn, collected
  <1>2. UNCHANGED <<lines, accepted, tried, again>>
    BY <1>1 DEF given, sihot, history
  <1>3. ImportTypes /\ RowsInOrder /\ OlderIsSentAgain /\ NothingDropped
    BY DEF ImportInv
  <1>4. CASE cancelled
    <2>1. queue' = <<>> /\ cut' /\ rows' = rows
      BY <1>4 DEF JsonFile
    <2>2. queue' \in Seq(Files) /\ rows' \in Seq(Row)
      BY <1>3, <2>1, EmptyOf DEF ImportTypes
    <2>3. RowsInOrder'
      BY <1>1, <1>2, <1>3, <2>1, EmptyOf DEF RowsInOrder, BookingsOf, ByName
    <2>4. OlderIsSentAgain'
      BY <1>1, <1>2, <1>3, <2>1 DEF OlderIsSentAgain
    <2>5. NothingDropped'
      BY <1>1, <2>1 DEF NothingDropped
    <2> QED BY <1>1, <2>2, <2>3, <2>4, <2>5, StepKeeps
  <1>5. CASE ~cancelled
    <2> DEFINE f == Head(queue)
    <2>1. rows' = rows \o RowsOf(f) /\ queue' = Tail(queue) /\ UNCHANGED <<errs, cut>>
      BY <1>5 DEF JsonFile
    <2>2. /\ queue \in Seq(Files) /\ Tail(queue) \in Seq(Files) /\ ToSet(queue) = {f} \cup ToSet(Tail(queue))
          /\ 1 \in DOMAIN queue /\ f = queue[1]
          /\ \A i \in DOMAIN Tail(queue) : i \in Nat /\ i >= 1 /\ i + 1 \in DOMAIN queue /\ Tail(queue)[i] = queue[i + 1]
      BY <1>1, <1>3, TailOf DEF ImportTypes
    <2>3. /\ ByName(queue) /\ ToSet(queue) \subseteq ToSet(jsoFiles)
          /\ \A i \in DOMAIN rows, j \in DOMAIN queue : rows[i].file < queue[j]
      BY <1>1, <1>3 DEF RowsInOrder
    <2>4. /\ f \in JsonFiles /\ ToSet(queue) \subseteq JsonFiles /\ f \in Nat
          /\ \A i \in DOMAIN queue : queue[i] \in JsonFiles /\ queue[i] \in Nat
      <3>1. ToSet(jsoFiles) \subseteq JsonFiles
        BY <1>3, ElemsOf DEF ImportTypes
      <3> QED BY <2>2, <2>3, <3>1, FilesType DEF ToSet
    <2> DEFINE n == Len(rows)
               k == Len(lines[f])
    <2>5. /\ k \in Nat /\ RowsOf(f) \in Seq(Row) /\ Len(RowsOf(f)) = k
          /\ \A i \in 1 .. k : /\ RowsOf(f)[i].file = f /\ RowsOf(f)[i].booking \in BookingsOf(f)
          /\ \A b \in BookingsOf(f) : \E i \in 1 .. k : RowsOf(f)[i] = [file |-> f, booking |-> b]
      <3>1. f \in JsonFiles
        BY <2>4
      <3> HIDE DEF f
      <3> QED BY <1>3, <3>1, RowsType
    <2> HIDE DEF f
    <2>6. n \in Nat /\ rows \in Seq(Row) /\ DOMAIN rows = 1 .. n /\ \A i \in 1 .. n : rows[i] \in Row
      BY <1>3 DEF ImportTypes
    <2> DEFINE t == RowsOf(f)
    <2>14. /\ rows \o t \in Seq(Row) /\ DOMAIN (rows \o t) = 1 .. Len(rows) + Len(t)
           /\ \A i \in 1 .. Len(rows) : (rows \o t)[i] = rows[i] /\ i \in 1 .. Len(rows) + Len(t)
           /\ \A i \in 1 .. Len(t) : (rows \o t)[Len(rows) + i] = t[i] /\ Len(rows) + i \in 1 .. Len(rows) + Len(t)
      <3>1. t \in Seq(Row)
        BY <2>5
      <3> HIDE DEF t
      <3> QED BY <2>6, <3>1, ConcatOf
    <2>7. rows' \in Seq(Row) /\ DOMAIN rows' = 1 .. n + k
      BY <2>1, <2>5, <2>14
    <2>8. /\ \A i \in 1 .. n : rows'[i] = rows[i] /\ i \in 1 .. n + k
          /\ \A i \in 1 .. k : rows'[n + i] = RowsOf(f)[i] /\ n + i \in 1 .. n + k
      BY <2>1, <2>5, <2>14
    <2>9. \A i \in 1 .. n + k : \/ i \in 1 .. n /\ rows'[i] = rows[i]
                                \/ /\ i > n /\ i \notin 1 .. n
                                   /\ rows'[i].file = f /\ rows'[i].booking \in BookingsOf(f)
      <3>1. ASSUME NEW i \in 1 .. n + k, i \notin 1 .. n
            PROVE  i - n \in 1 .. k /\ i > n /\ n + (i - n) = i
        BY <2>5, <2>6, <3>1
      <3>2. ASSUME NEW i \in 1 .. n + k, i \notin 1 .. n
            PROVE  rows'[i] = RowsOf(f)[i - n] /\ i - n \in 1 .. k
        <4>1. i - n \in 1 .. k /\ n + (i - n) = i
          BY <3>1, <3>2
        <4>2. rows'[n + (i - n)] = RowsOf(f)[i - n]
          BY <2>8, <4>1
        <4> QED BY <4>1, <4>2
      <3>3. ASSUME NEW i \in 1 .. n + k, i \notin 1 .. n
            PROVE  i > n /\ rows'[i].file = f /\ rows'[i].booking \in BookingsOf(f)
        <4>1. i - n \in 1 .. k /\ i > n /\ rows'[i] = RowsOf(f)[i - n]
          BY <3>1, <3>2, <3>3
        <4>2. RowsOf(f)[i - n].file = f /\ RowsOf(f)[i - n].booking \in BookingsOf(f)
          BY <2>5, <4>1
        <4> QED BY <4>1, <4>2
      <3> QED BY <2>8, <3>3
    <2> HIDE DEF n, k
    <2>10. \A i \in 1 .. n : rows[i].file \in Nat /\ rows[i].file < f
      <3>1. \A i \in 1 .. n : rows[i].file \in JsonFiles
        BY <2>6 DEF Row
      <3> QED BY <2>2, <2>3, <2>6, <3>1, FilesType
    <2>11. RowsInOrder'
      <3>1. \A i \in DOMAIN rows' : rows'[i].booking \in BookingsOf(rows'[i].file) /\ rows'[i].file \in tried
        <4>1. \A i \in 1 .. n : rows[i].booking \in BookingsOf(rows[i].file) /\ rows[i].file \in tried
          BY <1>3, <2>6 DEF RowsInOrder
        <4>2. f \in tried
          BY <2>2, <2>3 DEF ImportInv, FilesKnown
        <4> QED BY <2>7, <2>9, <4>1, <4>2
      <3>2. \A i, j \in DOMAIN rows' : i <= j => rows'[i].file <= rows'[j].file
        <4>1. ASSUME NEW i \in 1 .. n + k, NEW j \in 1 .. n + k, i <= j
              PROVE  rows'[i].file <= rows'[j].file
          <5>1. CASE i \in 1 .. n /\ j \in 1 .. n
            BY <1>3, <2>6, <2>8, <4>1, <5>1 DEF RowsInOrder
          <5>2. CASE i \in 1 .. n /\ j \notin 1 .. n
            <6>1. rows'[j].file = f /\ rows'[i].file = rows[i].file /\ rows[i].file < f /\ rows[i].file \in Nat
              BY <2>8, <2>9, <2>10, <5>2
            <6> QED BY <2>4, <6>1
          <5>3. CASE i \notin 1 .. n
            <6>1. i > n /\ rows'[i].file = f
              BY <2>9, <5>3
            <6>2. j \notin 1 .. n
              BY <2>6, <4>1, <6>1
            <6>3. rows'[j].file = f
              BY <2>9, <6>2
            <6> QED BY <2>4, <6>1, <6>3
          <5> QED BY <5>1, <5>2, <5>3
        <4> QED BY <2>7, <4>1
      <3>3. ByName(queue') /\ ToSet(queue') \subseteq ToSet(jsoFiles)
        BY <2>1, <2>2, <2>3 DEF ByName
      <3>4. \A i \in DOMAIN rows', j \in DOMAIN queue' : rows'[i].file < queue'[j]
        <4>1. ASSUME NEW i \in 1 .. n + k, NEW j \in DOMAIN Tail(queue)
              PROVE  rows'[i].file < Tail(queue)[j]
          <5>1. /\ j + 1 \in DOMAIN queue /\ Tail(queue)[j] = queue[j + 1] /\ 1 < j + 1 /\ 1 \in DOMAIN queue
                /\ queue[j + 1] \in Nat
            BY <2>2, <2>4
          <5>2. f < queue[j + 1]
            BY <2>2, <2>3, <5>1 DEF ByName
          <5>3. rows'[i].file = f \/ (i \in 1 .. n /\ rows'[i].file = rows[i].file)
            BY <2>9
          <5> QED BY <2>4, <2>10, <5>1, <5>2, <5>3
        <4> QED BY <2>1, <2>7, <4>1
      <3>5. ByName(jsoFiles')
        BY <1>1, <1>3 DEF RowsInOrder
      <3> QED BY <1>1, <1>2, <3>1, <3>2, <3>3, <3>4, <3>5 DEF RowsInOrder, BookingsOf, ByName
    <2>12. OlderIsSentAgain'
      <3>1. ASSUME NEW a \in accepted, NEW i \in 1 .. n + k, a[1] > rows'[i].file
            PROVE  rows'[i].file \in again
        <4>1. f \in ToSet(jsoFiles)
          BY <2>2, <2>3
        <4> QED BY <1>1, <1>3, <2>6, <2>9, <3>1, <4>1 DEF OlderIsSentAgain
      <3>2. \A a \in accepted : \A g \in ToSet(jsoFiles) : a[1] > g => g \in again
        BY <1>1, <1>3 DEF OlderIsSentAgain
      <3> QED BY <1>1, <1>2, <2>7, <3>1, <3>2 DEF OlderIsSentAgain
    <2>13. NothingDropped'
      <3>1. ASSUME NEW b \in BookingsOf(f) PROVE [file |-> f, booking |-> b] \in ToSet(rows')
        <4>1. PICK i \in 1 .. k : RowsOf(f)[i] = [file |-> f, booking |-> b]
          BY <2>5
        <4>2. rows'[n + i] = [file |-> f, booking |-> b] /\ n + i \in 1 .. n + k
          BY <2>8, <4>1
        <4> QED BY <2>7, <4>2 DEF ToSet
      <3>2. ToSet(rows) \subseteq ToSet(rows')
        BY <2>6, <2>7, <2>8 DEF ToSet
      <3>3. ~cut => \A g \in ToSet(jsoFiles) : g \in errs \/ \A b \in BookingsOf(g) :
                       \/ <<g, b>> \in accepted \/ [file |-> g, booking |-> b] \in ToSet(rows)
                       \/ g \in ToSet(queue)
        BY <1>1, <1>3 DEF NothingDropped, Kept
      <3>4. ~cut => \A g \in ToSet(jsoFiles) : g \in errs \/ \A b \in BookingsOf(g) :
                       \/ <<g, b>> \in accepted \/ [file |-> g, booking |-> b] \in ToSet(rows')
                       \/ g \in ToSet(Tail(queue))
        BY <2>2, <3>1, <3>2, <3>3
      <3> QED BY <1>1, <1>2, <2>1, <3>4 DEF NothingDropped, Kept, BookingsOf
    <2> QED BY <1>1, <2>1, <2>2, <2>7, <2>11, <2>12, <2>13, StepKeeps
  <1> QED BY <1>4, <1>5

-----------------------------------------------------------------------------
(* The bookings are sent.                                                  *)

\* The bookings are sent, or left out.
LEMMA SendStartKeeps ==
    ASSUME ImportInv, SendStart \/ SendSkipped
    PROVE  ImportInv'
  <1>1. /\ phase = "send" /\ phase' = "sending" /\ rows' \in {rows, <<>>}
        /\ rows' # rows => cut'
        /\ cut => cut'
        /\ UNCHANGED <<given, disk, sihot, history, queue, rciFiles, jsoFiles, errs>>
    <2>1. CASE SendStart
      BY <2>1 DEF SendStart, GoOn, collected
    <2>2. CASE SendSkipped
      <3>1. /\ phase = "send" /\ phase' = "sending" /\ rows' = <<>> /\ cut' = (cut \/ rows # <<>>)
            /\ UNCHANGED <<given, disk, sihot, history, queue, rciFiles, jsoFiles, errs>>
        BY <2>2 DEF SendSkipped, GoOn, collected
      <3> QED BY <3>1
    <2> QED BY <2>1, <2>2
  <1>2. UNCHANGED <<lines, accepted, tried, again>>
    BY <1>1 DEF given, sihot, history
  <1>3. queue' \in Seq(Files) /\ rows' \in Seq(Row)
    BY <1>1, EmptyOf DEF ImportInv, ImportTypes
  <1>4. RowsInOrder'
    BY <1>1, <1>2, EmptyOf DEF ImportInv, RowsInOrder, BookingsOf
  <1>5. OlderIsSentAgain'
    BY <1>1, <1>2, EmptyOf DEF OlderIsSentAgain, ImportInv
  <1>6. NothingDropped'
    <2>1. ~cut => \A f \in ToSet(jsoFiles) : f \in errs \/ \A b \in BookingsOf(f) :
                     <<f, b>> \in accepted \/ [file |-> f, booking |-> b] \in ToSet(rows)
      BY <1>1 DEF ImportInv, NothingDropped, Kept
    <2> QED BY <1>1, <1>2, <2>1 DEF NothingDropped, Kept, BookingsOf
  <1> QED BY <1>1, <1>3, <1>4, <1>5, <1>6, StepKeeps

\* A step that takes the first booking from the rest, or all of it.
LEMMA RowsLeft ==
    ASSUME ImportInv, rows # <<>>, rows' \in {Tail(rows), <<>>}, phase = "sending", phase' = "sending",
           UNCHANGED <<lines, jsoFiles, tried>>
    PROVE  /\ rows' \in Seq(Row) /\ RowsInOrder' /\ Head(rows) \in Row
           /\ \A i \in DOMAIN rows' : \E j \in DOMAIN rows : rows'[i] = rows[j]
           /\ \A i \in DOMAIN rows' : Head(rows).file <= rows'[i].file
           /\ Head(rows).booking \in BookingsOf(Head(rows).file) /\ Head(rows).file \in tried
           /\ rows' = Tail(rows) => ToSet(rows) = {Head(rows)} \cup ToSet(rows')
  <1>1. ImportTypes /\ RowsInOrder
    BY DEF ImportInv
  <1>2. /\ Head(rows) \in Row /\ Tail(rows) \in Seq(Row)
        /\ 1 \in DOMAIN rows /\ Head(rows) = rows[1]
        /\ \A i \in DOMAIN Tail(rows) : i \in Nat /\ i >= 1 /\ i + 1 \in DOMAIN rows /\ Tail(rows)[i] = rows[i + 1]
        /\ ToSet(rows) = {Head(rows)} \cup ToSet(Tail(rows))
    BY <1>1, TailOf DEF ImportTypes
  <1>3. rows' \in Seq(Row)
    BY <1>2, EmptyOf
  <1>4. \A i \in DOMAIN rows' : i \in Nat /\ i >= 1 /\ i + 1 \in DOMAIN rows /\ rows'[i] = rows[i + 1]
    BY <1>2, EmptyOf
  <1>5. \A i, j \in DOMAIN rows : i <= j => rows[i].file <= rows[j].file
    BY <1>1 DEF RowsInOrder
  <1>6. ASSUME NEW i \in DOMAIN rows', NEW j \in DOMAIN rows', i <= j
        PROVE  rows'[i].file <= rows'[j].file
    <2>1. i + 1 \in DOMAIN rows /\ j + 1 \in DOMAIN rows /\ i + 1 <= j + 1
      BY <1>4, <1>6
    <2>2. rows[i + 1].file <= rows[j + 1].file
      BY <1>5, <2>1
    <2> QED BY <1>4, <2>2
  <1>7. \A i \in DOMAIN rows : rows[i].booking \in BookingsOf(rows[i].file) /\ rows[i].file \in tried
    BY <1>1 DEF RowsInOrder
  <1>8. \A i \in DOMAIN rows' : rows'[i].booking \in BookingsOf(rows'[i].file) /\ rows'[i].file \in tried
    BY <1>4, <1>7
  <1>9. RowsInOrder'
    BY <1>1, <1>6, <1>8 DEF RowsInOrder, ByName, BookingsOf
  <1>10. ASSUME NEW i \in DOMAIN rows' PROVE Head(rows).file <= rows'[i].file
    <2>1. i + 1 \in DOMAIN rows /\ 1 <= i + 1 /\ rows'[i] = rows[i + 1]
      BY <1>4
    <2>2. rows[1].file <= rows[i + 1].file
      BY <1>2, <1>5, <2>1
    <2> QED BY <1>2, <2>1, <2>2
  <1>11. Head(rows).booking \in BookingsOf(Head(rows).file) /\ Head(rows).file \in tried
    BY <1>2, <1>7
  <1> QED BY <1>2, <1>3, <1>4, <1>9, <1>10, <1>11

LEMMA NotAcceptedKeeps ==
    ASSUME ImportInv, SendCancelled \/ SendRefused
    PROVE  ImportInv'
  <1>1. /\ phase = "sending" /\ phase' = "sending" /\ rows # <<>> /\ rows' \in {Tail(rows), <<>>}
        /\ errs' = errs \cup {Head(rows).file} /\ (cut => cut')
        /\ rows' # Tail(rows) => cut'
        /\ UNCHANGED <<given, disk, sihot, history, queue, rciFiles, jsoFiles>>
    BY DEF SendCancelled, SendRefused, GoOn, collected
  <1>2. UNCHANGED <<lines, accepted, tried, again>>
    BY <1>1 DEF given, sihot, history
  <1>3. queue' \in Seq(Files) /\ rows' \in Seq(Row) /\ RowsInOrder'
    BY <1>1, <1>2, RowsLeft DEF ImportInv, ImportTypes
  <1>4. OlderIsSentAgain'
    <2>1. \A i \in DOMAIN rows' : \E j \in DOMAIN rows : rows'[i] = rows[j]
      BY <1>1, <1>2, RowsLeft
    <2>2. \A a \in accepted : \A i \in DOMAIN rows : a[1] > rows[i].file => rows[i].file \in again
      BY DEF ImportInv, OlderIsSentAgain
    <2>3. \A a \in accepted : \A i \in DOMAIN rows' : a[1] > rows'[i].file => rows'[i].file \in again
      BY <2>1, <2>2
    <2> QED BY <1>1, <1>2, <2>3 DEF OlderIsSentAgain
  <1>5. NothingDropped'
    <2>1. SUFFICES ASSUME ~cut' PROVE NothingDropped'
      BY <1>1 DEF NothingDropped
    <2>2. /\ ToSet(rows) = {Head(rows)} \cup ToSet(rows')
      BY <1>1, <1>2, <2>1, RowsLeft
    <2>3. \A f \in ToSet(jsoFiles) : f \in errs \/ \A b \in BookingsOf(f) :
                 <<f, b>> \in accepted \/ [file |-> f, booking |-> b] \in ToSet(rows)
      BY <1>1, <2>1 DEF ImportInv, NothingDropped, Kept
    <2>4. ASSUME NEW f \in ToSet(jsoFiles), f \notin errs', NEW b \in BookingsOf(f)
          PROVE  <<f, b>> \in accepted \/ [file |-> f, booking |-> b] \in ToSet(rows')
      <3>1. f # Head(rows).file /\ f \notin errs
        BY <1>1, <2>4
      <3>2. [file |-> f, booking |-> b] # Head(rows)
        <4>1. [file |-> f, booking |-> b].file = f
          OBVIOUS
        <4> QED BY <3>1, <4>1
      <3> QED BY <2>2, <2>3, <3>1, <3>2
    <2> QED BY <1>1, <1>2, <2>4 DEF NothingDropped, Kept, BookingsOf
  <1> QED BY <1>1, <1>3, <1>4, <1>5, StepKeeps

\* Sihot accepts a booking.
LEMMA AcceptedKeeps ==
    ASSUME ImportInv, SendAccepted
    PROVE  ImportInv'
  <1> DEFINE f == Head(rows).file
             b == Head(rows).booking
  <1>1. /\ phase = "sending" /\ phase' = "sending" /\ rows # <<>> /\ rows' = Tail(rows)
        /\ version' = [version EXCEPT ![b] = f] /\ accepted' = accepted \cup {<<f, b>>}
        /\ UNCHANGED <<lines, arrived, folder, processed, queue, rciFiles, jsoFiles, errs, cut, cutMoved,
                       tried, again>>
    BY DEF SendAccepted, given, disk, history, collected
  <1>2. ImportTypes /\ FilesKnown /\ OlderIsSentAgain /\ NothingDropped /\ ProcessedDelivered /\ LatestWins
    BY DEF ImportInv
  <1>3. /\ rows' \in Seq(Row) /\ RowsInOrder' /\ Head(rows) \in Row
        /\ \A i \in DOMAIN rows' : \E j \in DOMAIN rows : rows'[i] = rows[j]
        /\ \A i \in DOMAIN rows' : f <= rows'[i].file
        /\ b \in BookingsOf(f) /\ f \in tried
        /\ ToSet(rows) = {Head(rows)} \cup ToSet(rows')
    BY <1>1, RowsLeft
  <1>4. /\ f \in JsonFiles /\ b \in Bookings /\ Head(rows) = [file |-> f, booking |-> b]
        /\ 1 \in DOMAIN rows /\ Head(rows) = rows[1]
    <2>1. 1 \in DOMAIN rows /\ Head(rows) = rows[1]
      BY <1>1, <1>2, TailOf DEF ImportTypes
    <2> QED BY <1>3, <2>1 DEF Row
  <1> HIDE DEF f, b
  <1>5. ImportTypes'
    <2>1. version' \in [Bookings -> JsonFiles \cup {NoVersion}]
      BY <1>1, <1>2, <1>4 DEF ImportTypes
    <2>2. accepted' \subseteq JsonFiles \X Bookings
      BY <1>1, <1>2, <1>4 DEF ImportTypes
    <2> QED BY <1>1, <1>2, <1>3, <2>1, <2>2 DEF ImportTypes
  <1>6. \A a \in accepted' : a \in accepted \/ (a = <<f, b>> /\ a[1] = f)
    BY <1>1
  <1>7. FilesKnown'
    BY <1>1, <1>2, <1>3, <1>6 DEF FilesKnown
  <1>8. OlderIsSentAgain'
    <2>1. \A a \in accepted : \A i \in DOMAIN rows : a[1] > rows[i].file => rows[i].file \in again
      BY <1>2 DEF OlderIsSentAgain
    <2>2. ASSUME NEW a \in accepted', NEW i \in DOMAIN rows', a[1] > rows'[i].file
          PROVE  rows'[i].file \in again
      <3>1. CASE a \in accepted
        BY <1>3, <2>1, <2>2, <3>1
      <3>2. CASE a[1] = f
        <4>1. rows'[i].file \in Nat /\ f \in Nat
          <5>1. PICK j \in DOMAIN rows : rows'[i] = rows[j]
            BY <1>3
          <5>2. rows[j].file \in JsonFiles
            <6>1. rows[j] \in Row
              BY <1>2, <5>1, ElemsOf DEF ImportTypes, ToSet
            <6> QED BY <6>1 DEF Row
          <5> QED BY <1>4, <5>1, <5>2, FilesType
        <4> QED BY <1>3, <2>2, <3>2, <4>1
      <3> QED BY <1>6, <3>1, <3>2
    <2> QED BY <1>1, <2>2 DEF OlderIsSentAgain
  <1>9. NothingDropped'
    <2>1. ~cut => \A g \in ToSet(jsoFiles) : g \in errs \/ \A c \in BookingsOf(g) :
                     <<g, c>> \in accepted \/ [file |-> g, booking |-> c] \in ToSet(rows)
      BY <1>1, <1>2 DEF NothingDropped, Kept
    <2>2. ASSUME NEW g, NEW c, [file |-> g, booking |-> c] = Head(rows) PROVE <<g, c>> \in accepted'
      <3>1. [file |-> g, booking |-> c].file = [file |-> f, booking |-> b].file
            /\ [file |-> g, booking |-> c].booking = [file |-> f, booking |-> b].booking
        BY <1>4, <2>2, Zenon
      <3>2. g = f /\ c = b
        BY <3>1
      <3> QED BY <1>1, <3>2
    <2>3. ~cut => \A g \in ToSet(jsoFiles) : g \in errs \/ \A c \in BookingsOf(g) :
                     <<g, c>> \in accepted' \/ [file |-> g, booking |-> c] \in ToSet(rows')
      <3> SUFFICES ASSUME ~cut, NEW g \in ToSet(jsoFiles), g \notin errs, NEW c \in BookingsOf(g)
                   PROVE  <<g, c>> \in accepted' \/ [file |-> g, booking |-> c] \in ToSet(rows')
        OBVIOUS
      <3>1. CASE <<g, c>> \in accepted
        BY <1>1, <3>1
      <3>2. CASE [file |-> g, booking |-> c] \in ToSet(rows)
        <4>1. CASE [file |-> g, booking |-> c] = Head(rows)
          BY <2>2, <4>1
        <4>2. CASE [file |-> g, booking |-> c] # Head(rows)
          BY <1>3, <3>2, <4>2
        <4> QED BY <4>1, <4>2
      <3> QED BY <2>1, <3>1, <3>2
    <2> QED BY <1>1, <2>3 DEF NothingDropped, Kept, BookingsOf
  <1>10. ProcessedDelivered'
    <2>1. ASSUME NEW g \in (processed \cap JsonFiles) \ cutMoved, NEW c \in BookingsOf(g)
          PROVE  <<g, c>> \in accepted'
      <3>1. <<g, c>> \in accepted
        BY <1>2, <2>1 DEF ProcessedDelivered
      <3> QED BY <1>1, <3>1
    <2>2. processed' = processed /\ cutMoved' = cutMoved /\ lines' = lines
      BY <1>1
    <2> QED BY <2>1, <2>2 DEF ProcessedDelivered, BookingsOf
  <1>11. LatestWins'
    <2>1. ASSUME NEW c \in Bookings
          PROVE  \/ \A g \in JsonFiles : <<g, c>> \in accepted' => g <= version'[c]
                 \/ \E g \in again \cap JsonFiles : c \in BookingsOf(g)
      <3>1. CASE c = b
        <4>1. version'[c] = f
          BY <1>1, <1>2, <1>4, <3>1 DEF ImportTypes
        <4>2. CASE f \in again
          BY <1>3, <1>4, <3>1, <4>2
        <4>3. CASE f \notin again
          <5>1. ASSUME NEW g \in JsonFiles, <<g, c>> \in accepted' PROVE g <= f
            <6>1. CASE <<g, c>> \in accepted
              <7>1. ~(g > f)
                <8>1. <<g, c>>[1] > rows[1].file => rows[1].file \in again
                  BY <1>2, <1>4, <6>1 DEF OlderIsSentAgain
                <8>2. rows[1].file = f
                  BY <1>4 DEF f
                <8> QED BY <4>3, <8>1, <8>2
              <7> QED BY <1>4, <7>1, FilesType
            <6>2. CASE <<g, c>> = <<f, b>>
              BY <1>4, <6>2, FilesType
            <6> QED BY <1>1, <5>1, <6>1, <6>2
          <5> QED BY <4>1, <5>1
        <4> QED BY <4>2, <4>3
      <3>2. CASE c # b
        <4>1. version'[c] = version[c]
          BY <1>1, <1>2, <3>2 DEF ImportTypes
        <4>2. \A g : <<g, c>> \in accepted' => <<g, c>> \in accepted
          BY <1>1, <3>2
        <4> QED BY <1>2, <4>1, <4>2 DEF LatestWins
      <3> QED BY <3>1, <3>2
    <2> QED BY <1>1, <2>1 DEF LatestWins, BookingsOf
  <1> QED BY <1>3, <1>5, <1>7, <1>8, <1>9, <1>10, <1>11 DEF ImportInv

-----------------------------------------------------------------------------
(* The files are moved, and the theorems.                                  *)

LEMMA SendDoneKeeps ==
    ASSUME ImportInv, SendDone
    PROVE  ImportInv'
  <1>1. /\ phase = "sending" /\ phase' = "move" /\ rows = <<>> /\ queue' = rciFiles \o jsoFiles
        /\ UNCHANGED <<given, disk, sihot, history, rciFiles, jsoFiles, rows, errs, cut>>
    BY DEF SendDone, GoOn, collected
  <1>2. UNCHANGED <<lines, accepted, tried, again>>
    BY <1>1 DEF given, sihot, history
  <1>3. rows' \in Seq(Row) /\ rciFiles \in Seq(Files) /\ jsoFiles \in Seq(Files)
    <2>1. /\ rciFiles \in Seq(RciFiles) /\ jsoFiles \in Seq(JsonFiles)
          /\ RciFiles \subseteq Files /\ JsonFiles \subseteq Files
      BY DEF ImportInv, ImportTypes, Files
    <2> QED BY <1>1, <2>1, EmptyOf
  <1>4. queue' \in Seq(Files)
    BY <1>1, <1>3
  <1>5. RowsInOrder'
    BY <1>1, <1>2 DEF ImportInv, RowsInOrder, BookingsOf
  <1>6. OlderIsSentAgain'
    BY <1>1, <1>2, EmptyOf DEF OlderIsSentAgain
  <1>7. NothingDropped'
    <2>1. ~cut => \A f \in ToSet(jsoFiles) : f \in errs \/ \A b \in BookingsOf(f) :
                     <<f, b>> \in accepted \/ [file |-> f, booking |-> b] \in ToSet(rows)
      BY <1>1 DEF ImportInv, NothingDropped, Kept
    <2>2. ToSet(queue') \subseteq ToSet(rciFiles) \cup ToSet(jsoFiles)
      <3> DEFINE s == rciFiles
                 t == jsoFiles
      <3>1. s \in Seq(Files) /\ t \in Seq(Files)
        BY <1>3
      <3> HIDE DEF s, t
      <3>2. ASSUME NEW i \in DOMAIN (s \o t) PROVE (s \o t)[i] \in ToSet(s) \cup ToSet(t)
        <4>1. /\ Len(s) \in Nat /\ Len(t) \in Nat /\ i \in 1 .. Len(s) + Len(t)
              /\ DOMAIN s = 1 .. Len(s) /\ DOMAIN t = 1 .. Len(t)
          BY <3>1, <3>2
        <4>2. (s \o t)[i] = IF i <= Len(s) THEN s[i] ELSE t[i - Len(s)]
          BY <3>1, <4>1
        <4>3. CASE i <= Len(s)
          <5>1. i \in DOMAIN s /\ (s \o t)[i] = s[i]
            BY <4>1, <4>2, <4>3
          <5> QED BY <5>1 DEF ToSet
        <4>4. CASE ~(i <= Len(s))
          <5>1. i - Len(s) \in DOMAIN t /\ (s \o t)[i] = t[i - Len(s)]
            BY <4>1, <4>2, <4>4
          <5> QED BY <5>1 DEF ToSet
        <4> QED BY <4>3, <4>4
      <3>3. ToSet(s \o t) \subseteq ToSet(s) \cup ToSet(t)
        <4>1. \A x \in ToSet(s \o t) : \E i \in DOMAIN (s \o t) : x = (s \o t)[i]
          BY DEF ToSet
        <4> QED BY <3>2, <4>1
      <3> QED BY <1>1, <3>3 DEF s, t
    <2> QED BY <1>1, <1>2, <2>1, <2>2 DEF NothingDropped, Kept, BookingsOf
  <1> QED BY <1>1, <1>3, <1>4, <1>5, <1>6, <1>7, StepKeeps

\* A file without an error is moved.
LEMMA MoveKeeps ==
    ASSUME ImportInv, MoveFile
    PROVE  ImportInv'
  <1> DEFINE f == Head(queue)
             moved == {f} \ errs
  <1>1. /\ phase = "move" /\ queue # <<>> /\ queue' = Tail(queue)
        /\ folder' = folder \ moved /\ processed' = processed \cup moved
        /\ cutMoved' = (IF cut THEN cutMoved \cup moved ELSE cutMoved)
        /\ UNCHANGED <<lines, arrived, version, accepted, phase, rciFiles, jsoFiles, rows, errs, cut, tried, again>>
    BY DEF MoveFile, given, sihot, collected
  <1>2. ImportTypes /\ FilesKnown /\ RowsInOrder /\ OlderIsSentAgain /\ NothingDropped /\ ProcessedDelivered /\ LatestWins
    BY DEF ImportInv
  <1>3. queue' \in Seq(Files) /\ ToSet(queue) = {f} \cup ToSet(queue')
    BY <1>1, <1>2, TailOf DEF ImportTypes
  <1>4. rows = <<>> /\ ToSet(queue) \subseteq ToSet(rciFiles) \cup ToSet(jsoFiles)
    BY <1>1, <1>2 DEF NothingDropped
  <1> HIDE DEF f
  <1>5. f \in tried
    BY <1>2, <1>3, <1>4 DEF FilesKnown
  <1>6. ImportTypes'
    BY <1>1, <1>2, <1>3 DEF ImportTypes
  <1>7. FilesKnown'
    <2>1. arrived' = folder' \cup processed' /\ folder' \cap processed' = {}
      BY <1>1, <1>2, <1>5 DEF FilesKnown
    <2>2. IsFiniteSet(folder')
      BY <1>1, <1>2, FS_Subset DEF FilesKnown
    <2> QED BY <1>1, <1>2, <1>5, <2>1, <2>2 DEF FilesKnown
  <1>8. RowsInOrder'
    BY <1>1, <1>2 DEF RowsInOrder, BookingsOf
  <1>9. OlderIsSentAgain'
    BY <1>1, <1>2 DEF OlderIsSentAgain
  <1>10. NothingDropped'
    <2>1. ToSet(queue') \subseteq ToSet(rciFiles) \cup ToSet(jsoFiles)
      BY <1>3, <1>4
    <2>2. ~cut => \A g \in ToSet(jsoFiles) : g \in errs \/ \A b \in BookingsOf(g) :
                     <<g, b>> \in accepted \/ [file |-> g, booking |-> b] \in ToSet(rows)
      BY <1>1, <1>2 DEF NothingDropped, Kept
    <2> QED BY <1>1, <1>4, <2>1, <2>2 DEF NothingDropped, Kept, BookingsOf
  <1>11. ProcessedDelivered'
    <2>1. ASSUME NEW g \in JsonFiles, g \in processed', g \notin cutMoved', NEW b \in BookingsOf(g)
          PROVE  <<g, b>> \in accepted
      <3>1. CASE g \in processed
        <4>1. g \notin cutMoved
          BY <1>1, <2>1
        <4> QED BY <1>2, <2>1, <3>1, <4>1 DEF ProcessedDelivered
      <3>2. CASE g \notin processed
        <4>1. g = f /\ f \notin errs /\ ~cut
          BY <1>1, <2>1, <3>2
        <4>2. ToSet(rciFiles) \subseteq RciFiles
          BY <1>2, ElemsOf DEF ImportTypes
        <4>3. f \in ToSet(jsoFiles)
          BY <1>3, <1>4, <2>1, <4>1, <4>2, FilesType
        <4>4. [file |-> g, booking |-> b] \notin ToSet(rows)
          BY <1>4, EmptyOf
        <4> QED BY <1>1, <1>2, <2>1, <4>1, <4>3, <4>4 DEF NothingDropped, Kept
      <3> QED BY <3>1, <3>2
    <2> QED BY <1>1, <2>1 DEF ProcessedDelivered, BookingsOf
  <1>12. LatestWins'
    BY <1>1, <1>2 DEF LatestWins, BookingsOf
  <1> QED BY <1>6, <1>7, <1>8, <1>9, <1>10, <1>11, <1>12 DEF ImportInv

LEMMA ImportNext ==
    ASSUME ImportInv, [Next]_vars
    PROVE  ImportInv'
  <1>1. ASSUME NEW f \in Files, Arrive(f) PROVE ImportInv'
    BY <1>1, ArriveKeeps
  <1>2. CASE Cancel
    BY <1>2, CancelKeeps
  <1>3. CASE StartImport
    BY <1>3, StartKeeps
  <1>4. CASE FetchFails \/ Killed \/ RciBooking \/ JsonUnreadable \/ Finish
    <2>1. EndOfRun /\ UNCHANGED <<given, disk, sihot, history>>
      BY <1>4 DEF FetchFails, Killed, RciBooking, JsonUnreadable, Finish
    <2> QED BY <2>1, EndKeeps
  <1>5. CASE Fetched \/ RciSkipped \/ RciFile \/ RciLines \/ RciDone
    BY <1>5, RciStepKeeps
  <1>6. CASE JsonStart
    BY <1>6, JsonStartKeeps
  <1>7. CASE JsonSkipped
    BY <1>7, JsonSkippedKeeps
  <1>8. CASE JsonFile
    BY <1>8, JsonFileKeeps
  <1>9. CASE JsonDone
    BY <1>9, JsonDoneKeeps
  <1>10. CASE SendStart \/ SendSkipped
    BY <1>10, SendStartKeeps
  <1>11. CASE SendCancelled \/ SendRefused
    BY <1>11, NotAcceptedKeeps
  <1>12. CASE SendAccepted
    BY <1>12, AcceptedKeeps
  <1>13. CASE SendDone
    BY <1>13, SendDoneKeeps
  <1>14. CASE MoveFile
    BY <1>14, MoveKeeps
  <1>15. CASE UNCHANGED vars
    <2>1. UNCHANGED <<given, disk, sihot, history, phase, queue, rciFiles, jsoFiles, rows, errs, cut>>
      BY <1>15 DEF vars, collected
    <2>2. UNCHANGED <<given, accepted, tried, again, phase, queue, rciFiles, jsoFiles, rows, errs, cut>>
      BY <2>1 DEF sihot, history
    <2>3. RowsInOrder' /\ OlderIsSentAgain' /\ NothingDropped'
      BY <2>2, RunStays
    <2>4. queue' \in Seq(Files) /\ rows' \in Seq(Row)
      BY <2>1 DEF ImportInv, ImportTypes
    <2> QED BY <2>1, <2>3, <2>4, StepKeeps
  <1> QED BY <1>1, <1>2, <1>3, <1>4, <1>5, <1>6, <1>7, <1>8, <1>9, <1>10, <1>11, <1>12, <1>13, <1>14,
             <1>15 DEF Next, RunStep

\* ImportInv is an invariant, for every set of files, every number of runs and of faults.
THEOREM ImportInvariant == Spec => []ImportInv
  <1>1. Init => ImportInv
    BY InvInit
  <1>2. ImportInv /\ [Next]_vars => ImportInv'
    BY ImportNext
  <1> QED BY <1>1, <1>2, PTL DEF Spec

\* A JSON file is moved to the processed ones by a run that was not cut only when Sihot has accepted
\* all of its bookings.
THEOREM ProcessedAreDelivered == Spec => []ProcessedDelivered
  <1>1. ImportInv => ProcessedDelivered
    BY DEF ImportInv
  <1> QED BY <1>1, ImportInvariant, PTL

\* Sihot has the latest accepted version of a booking, unless an older one had to be sent again.
THEOREM LatestVersionWins == Spec => []LatestWins
  <1>1. ImportInv => LatestWins
    BY DEF ImportInv
  <1> QED BY <1>1, ImportInvariant, PTL
=============================================================================
