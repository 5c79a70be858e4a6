----------------------------- MODULE OcConfig -------------------------------
(***************************************************************************)
(* BssServer: the operation codes that handle_xml() processes, ignores or  *)
(* refuses, and reload_oc_config(), which every connection thread calls    *)
(* for each notification so that they can be changed while the server      *)
(* runs.                                                                   *)
(*                                                                         *)
(* SUPPORTED_OCS is one dictionary for all threads.  A thread that reloads *)
(* it stores the dictionary with the names that the file has, and replaces *)
(* them one operation code after the other by the classes and functions    *)
(* that they name; another thread may use the dictionary, or reload it     *)
(* too, at any time in between.                                            *)
(***************************************************************************)
EXTENDS Naturals, Sequences

CONSTANTS
    Threads,        \* connection threads
    Order,          \* the operation codes, in the order of the file
    Contents,       \* what the main config file may hold
    NotAList,       \* IGNORED_OCS is missing
    MaxEdits        \* bound: edits of the file

Ocs == {Order[i] : i \in 1 .. Len(Order)}

\* A content: supported is {} if SUPPORTED_OCS is missing; bad are the codes with a name that
\* is not implemented; ignored may be missing, too.
ASSUME OcAssumption ==
    /\ Order \in Seq(Ocs)
    /\ \A i, j \in 1 .. Len(Order) : Order[i] = Order[j] => i = j
    /\ \A c \in Contents : c.bad \subseteq c.supported /\ c.supported \subseteq Ocs
    /\ MaxEdits \in Nat

VARIABLES
    file,           \* the main config file: its content and the number of its last edit
    cfg,            \* the config that load_cfg_files() has read, and the edit it read
    dicts,          \* dictionaries made by get_var(): content, edit, and the codes resolved in them
    SUPPORTED_OCS,  \* number of a dictionary, 0 if it is empty
    IGNORED_OCS,
    thread,         \* the notification that a connection thread handles
    overtaken       \* some value was stored after a newer one could have been read

ocVars == <<file, cfg, dicts, SUPPORTED_OCS, IGNORED_OCS, thread, overtaken>>

\* calm: the thread has been alone with a correct file since it took the notification.
NoRequest == [pc |-> "idle", oc |-> "", dict |-> 0, i |-> 0, ignored |-> {}, calm |-> FALSE]

Correct(c) == c.supported # {} /\ c.bad = {} /\ c.ignored # NotAList

Reloading(t) == thread[t].pc \in {"load", "get", "store", "iterate", "slot", "getIgnored", "storeIgnored"}

OcInit ==
    /\ file \in [content : Contents, edit : {1}]
    /\ cfg = [content |-> file.content, edit |-> 0]
    /\ dicts = <<>>
    /\ SUPPORTED_OCS = 0
    /\ IGNORED_OCS = {}
    /\ thread = [t \in Threads |-> NoRequest]
    /\ overtaken = FALSE

-----------------------------------------------------------------------------
\* An operator edits the main config file.
Edit(c) ==
    /\ file.edit <= MaxEdits
    /\ c # file.content
    /\ file' = [content |-> c, edit |-> file.edit + 1]
    /\ thread' = [t \in Threads |-> [thread[t] EXCEPT !.calm = FALSE]]
    /\ UNCHANGED <<cfg, dicts, SUPPORTED_OCS, IGNORED_OCS, overtaken>>

\* The next step of t; a thread that reloads disturbs the others.
GoOn(t, new) ==
    thread' = [u \in Threads |->
                  IF u = t THEN new
                  ELSE [thread[u] EXCEPT !.calm = @ /\ ~Reloading(t)]]

To(t, l) == [thread[t] EXCEPT !.pc = l]

\* The answer to a notification.
Answered(t, how) == GoOn(t, [NoRequest EXCEPT !.pc = how, !.oc = thread[t].oc, !.calm = thread[t].calm])

Outcomes == {"processed", "ignored", "refused", "dead"}

\* A thread takes a notification.
Receive(t, oc) ==
    /\ thread[t].pc \in {"idle"} \cup Outcomes
    /\ thread' = [thread EXCEPT ![t] =
          [NoRequest EXCEPT !.pc = "check", !.oc = oc,
                            !.calm = Correct(file.content) /\ \A u \in Threads \ {t} : ~Reloading(u)]]
    /\ UNCHANGED <<file, cfg, dicts, SUPPORTED_OCS, IGNORED_OCS, overtaken>>

-----------------------------------------------------------------------------
(***************************************************************************)
(* reload_oc_config().                                                     *)
(***************************************************************************)
Modified == file.edit > cfg.edit

\* Mutant: the config is only loaded when the server starts.
NeedsReloadOnce == SUPPORTED_OCS = 0
NeedsReload == SUPPORTED_OCS = 0 \/ Modified

Check(t) ==
    /\ thread[t].pc = "check"
    /\ GoOn(t, To(t, IF NeedsReload THEN "load" ELSE "dispatch"))
    /\ UNCHANGED <<file, cfg, dicts, SUPPORTED_OCS, IGNORED_OCS, overtaken>>

\* load_cfg_files() of the console application.
Load(t) ==
    /\ thread[t].pc = "load"
    /\ cfg' = file
    /\ GoOn(t, To(t, "get"))
    /\ UNCHANGED <<file, dicts, SUPPORTED_OCS, IGNORED_OCS, overtaken>>

\* get_var() evaluates what was loaded, each time anew ...
Get(t) ==
    /\ thread[t].pc = "get"
    /\ IF cfg.content.supported = {}
       THEN GoOn(t, [To(t, "store") EXCEPT !.dict = 0]) /\ UNCHANGED dicts
       ELSE /\ dicts' = Append(dicts, [content |-> cfg.content, edit |-> cfg.edit, resolved |-> {}])
            /\ GoOn(t, [To(t, "store") EXCEPT !.dict = Len(dicts')])
    /\ UNCHANGED <<file, cfg, SUPPORTED_OCS, IGNORED_OCS, overtaken>>

\* ... and the thread stores its value, maybe over a newer one.
Store(t) ==
    /\ thread[t].pc = "store"
    /\ SUPPORTED_OCS' = thread[t].dict
    /\ overtaken' = (overtaken \/ (IF thread[t].dict = 0 THEN cfg.content.supported # {}
                                   ELSE dicts[thread[t].dict].edit < cfg.edit))
    /\ GoOn(t, To(t, "iterate"))
    /\ UNCHANGED <<file, cfg, dicts, IGNORED_OCS>>

\* The loop goes over the dictionary that is stored now.
Iterate(t) ==
    /\ thread[t].pc = "iterate"
    /\ IF SUPPORTED_OCS = 0
       THEN Answered(t, "refused")
       ELSE GoOn(t, [To(t, "slot") EXCEPT !.dict = SUPPORTED_OCS, !.i = 1])
    /\ UNCHANGED <<file, cfg, dicts, SUPPORTED_OCS, IGNORED_OCS, overtaken>>

\* The slot of one operation code.  A class in the place of its name is no known name.
Slot(t) ==
    LET d == thread[t].dict
        oc == Order[thread[t].i]
        next == IF thread[t].i = Len(Order) THEN To(t, "getIgnored")
                ELSE [thread[t] EXCEPT !.i = @ + 1]
    IN  /\ thread[t].pc = "slot"
        /\ \/ /\ oc \notin dicts[d].content.supported
              /\ GoOn(t, next) /\ UNCHANGED dicts
           \/ /\ oc \in dicts[d].content.supported
              /\ oc \in dicts[d].content.bad \cup dicts[d].resolved
              /\ Answered(t, "refused") /\ UNCHANGED dicts
           \/ /\ oc \in dicts[d].content.supported
              /\ oc \notin dicts[d].content.bad \cup dicts[d].resolved
              /\ GoOn(t, next) /\ dicts' = [dicts EXCEPT ![d].resolved = @ \cup {oc}]
        /\ UNCHANGED <<file, cfg, SUPPORTED_OCS, IGNORED_OCS, overtaken>>

GetIgnored(t) ==
    /\ thread[t].pc = "getIgnored"
    /\ GoOn(t, [To(t, "storeIgnored") EXCEPT !.ignored = cfg.content.ignored, !.i = cfg.edit])
    /\ UNCHANGED <<file, cfg, dicts, SUPPORTED_OCS, IGNORED_OCS, overtaken>>

\* Mutant: without "global", only a local variable gets the value.
StoredIgnoredLocally(t) == IGNORED_OCS
StoredIgnored(t) == thread[t].ignored

StoreIgnored(t) ==
    /\ thread[t].pc = "storeIgnored"
    /\ IGNORED_OCS' = StoredIgnored(t)
    /\ overtaken' = (overtaken \/ thread[t].i < cfg.edit)
    /\ IF thread[t].ignored = NotAList THEN Answered(t, "refused") ELSE GoOn(t, To(t, "dispatch"))
    /\ UNCHANGED <<file, cfg, dicts, SUPPORTED_OCS>>

-----------------------------------------------------------------------------
(***************************************************************************)
(* handle_xml().                                                           *)
(***************************************************************************)
\* Which branch; a value that is no dictionary or list ends the thread without an answer.
Dispatch(t) ==
    LET oc == thread[t].oc IN
    /\ thread[t].pc = "dispatch"
    /\ \/ SUPPORTED_OCS = 0 /\ Answered(t, "dead")
       \/ /\ SUPPORTED_OCS # 0 /\ oc \in dicts[SUPPORTED_OCS].content.supported
          /\ GoOn(t, To(t, "process"))
       \/ /\ SUPPORTED_OCS # 0 /\ oc \notin dicts[SUPPORTED_OCS].content.supported
          /\ Answered(t, IF IGNORED_OCS = NotAList THEN "dead"
                         ELSE IF oc \in IGNORED_OCS THEN "ignored" ELSE "refused")
    /\ UNCHANGED <<file, cfg, dicts, SUPPORTED_OCS, IGNORED_OCS, overtaken>>

\* The thread has connected to its databases, and looks the slots up again.
Process(t) ==
    /\ thread[t].pc = "process"
    /\ Answered(t, IF SUPPORTED_OCS # 0 /\ thread[t].oc \in dicts[SUPPORTED_OCS].resolved
                   THEN "processed" ELSE "refused")
    /\ UNCHANGED <<file, cfg, dicts, SUPPORTED_OCS, IGNORED_OCS, overtaken>>

Handle(t) ==
    \/ Check(t) \/ Load(t) \/ Get(t) \/ Store(t) \/ Iterate(t) \/ Slot(t)
    \/ GetIgnored(t) \/ StoreIgnored(t) \/ Dispatch(t) \/ Process(t)

OcNext ==
    \/ \E c \in Contents : Edit(c)
    \/ \E t \in Threads : \/ Handle(t)
                          \/ \E oc \in Ocs : Receive(t, oc)

OcSpec == OcInit /\ [][OcNext]_ocVars

-----------------------------------------------------------------------------
(***************************************************************************)
(* Properties.                                                             *)
(***************************************************************************)
\* BssServer.py:466: "allow to change processing of OCs without the need to restart this
\* server": a notification that finds a correct file, and whose thread is not disturbed by
\* the reload of another one, is treated as the file says, also if an earlier content was
\* faulty or its reload was broken off - unless a thread has stored an old value late.
TreatedAsConfigured ==
    \A t \in Threads : thread[t].calm /\ ~overtaken =>
        /\ thread[t].pc = "processed" => thread[t].oc \in file.content.supported
        /\ thread[t].pc \in {"ignored", "refused", "dead"} => thread[t].oc \notin file.content.supported
        /\ thread[t].pc = "refused" => thread[t].oc \notin file.content.ignored

\* Threads that reload the same correct file refuse each other's notification, but one of
\* them finishes: when none is at work, the dictionary is complete and fits the ignored codes.
ReloadIsFinished ==
    /\ \A t \in Threads : ~Reloading(t)
    /\ cfg.edit > 0 /\ Correct(cfg.content) /\ ~overtaken
    => /\ SUPPORTED_OCS # 0
       /\ dicts[SUPPORTED_OCS].edit = cfg.edit
       /\ dicts[SUPPORTED_OCS].resolved = cfg.content.supported
       /\ IGNORED_OCS = cfg.content.ignored

-----------------------------------------------------------------------------
(***************************************************************************)
(* The strengthening of the two.                                           *)
(***************************************************************************)
Working == {"get", "store", "iterate", "slot", "getIgnored", "storeIgnored"}

Places == {"idle", "check", "load", "dispatch", "process"} \cup Working \cup Outcomes

Ignorable == {{}} \cup {c.ignored : c \in Contents}

Requests == [pc : Places, oc : Ocs \cup {""}, dict : Nat, i : Nat, ignored : Ignorable, calm : BOOLEAN]

OcTypes ==
    /\ file \in [content : Contents, edit : Nat \ {0}]
    /\ cfg \in [content : Contents, edit : Nat]
    /\ dicts \in Seq([content : Contents, edit : Nat, resolved : SUBSET Ocs])
    /\ SUPPORTED_OCS \in 0 .. Len(dicts)
    /\ thread \in [Threads -> Requests]
    /\ \A t \in Threads : thread[t].dict <= Len(dicts)
    /\ overtaken \in BOOLEAN

\* The codes in front of a place of the order.
Before(i) == {Order[j] : j \in 1 .. i - 1}

\* What was read has the content of its edit: of the file, of a dictionary and of the ignored
\* codes that a thread is about to store.
ReadsAreOld ==
    /\ cfg.edit <= file.edit
    /\ cfg.edit = file.edit => cfg.content = file.content
    /\ \A d \in 1 .. Len(dicts) :
          /\ dicts[d].content.supported # {}
          /\ dicts[d].resolved \subseteq dicts[d].content.supported
          /\ dicts[d].edit <= cfg.edit
          /\ dicts[d].edit = cfg.edit => dicts[d].content = cfg.content
    /\ \A t \in Threads :
          /\ thread[t].pc \in Working => cfg.edit > 0
          /\ thread[t].pc = "storeIgnored" =>
                /\ thread[t].i <= cfg.edit
                /\ thread[t].i = cfg.edit => thread[t].ignored = cfg.content.ignored

\* A dictionary that is not stored yet belongs to one thread; one that goes over it has
\* resolved the codes behind it.
DictsInWork ==
    \A t \in Threads :
        /\ thread[t].pc = "store" /\ thread[t].dict # 0 =>
              /\ dicts[thread[t].dict].resolved = {}
              /\ SUPPORTED_OCS # thread[t].dict
              /\ \A u \in Threads \ {t} :
                    thread[u].pc \in {"store", "slot"} => thread[u].dict # thread[t].dict
        /\ thread[t].pc = "slot" =>
              /\ thread[t].dict # 0 /\ thread[t].i \in 1 .. Len(Order)
              /\ dicts[thread[t].dict].content.supported \cap Before(thread[t].i)
                    \subseteq dicts[thread[t].dict].resolved

\* A reload of the last content is complete, or a thread will complete it: the one that will
\* store a new dictionary, or of those that work at the stored one the one in front.
Stored == dicts[SUPPORTED_OCS]

Reloaded ==
    /\ SUPPORTED_OCS # 0
    /\ Stored.edit = cfg.edit
    /\ Stored.resolved = Stored.content.supported
    /\ IGNORED_OCS = cfg.content.ignored

WillBeReloaded ==
    \/ \E t \in Threads : thread[t].pc = "get"
    \/ \E t \in Threads :
          thread[t].pc = "store" /\ thread[t].dict # 0 /\ dicts[thread[t].dict].edit = cfg.edit
    \/ /\ SUPPORTED_OCS # 0
       /\ Stored.edit = cfg.edit
       /\ \/ Stored.resolved = {} /\ \E t \in Threads : thread[t].pc = "iterate"
          \/ \E t \in Threads :
                /\ thread[t].pc = "slot" /\ thread[t].dict = SUPPORTED_OCS
                /\ Stored.resolved = Stored.content.supported \cap Before(thread[t].i)
          \/ /\ Stored.resolved = Stored.content.supported
             /\ \E t \in Threads : \/ thread[t].pc = "getIgnored"
                                   \/ thread[t].pc = "storeIgnored" /\ thread[t].i = cfg.edit
    \/ Reloaded

SomebodyReloads ==
    cfg.edit > 0 /\ Correct(cfg.content) /\ ~overtaken => WillBeReloaded

\* Nobody else has passed the load while a thread is calm, which has the last content.
Alone(t) ==
    /\ Correct(file.content)
    /\ \A u \in Threads \ {t} : thread[u].pc \notin Working

HasRead(t) ==
    /\ thread[t].pc \in Working \cup {"dispatch", "process"} =>
          cfg.edit = file.edit
    /\ thread[t].pc = "store" =>
          thread[t].dict # 0 /\ dicts[thread[t].dict].edit = cfg.edit
    /\ thread[t].pc \in {"iterate", "slot", "getIgnored", "storeIgnored"} =>
          SUPPORTED_OCS # 0 /\ Stored.edit = cfg.edit
    /\ thread[t].pc = "iterate" => Stored.resolved = {}
    /\ thread[t].pc = "slot" =>
          /\ thread[t].dict = SUPPORTED_OCS
          /\ Stored.resolved = Stored.content.supported \cap Before(thread[t].i)
    /\ thread[t].pc \in {"getIgnored", "storeIgnored"} =>
          Stored.resolved = Stored.content.supported
    /\ thread[t].pc = "storeIgnored" => thread[t].i = cfg.edit
    /\ thread[t].pc \in {"dispatch", "process"} => Reloaded
    /\ thread[t].pc = "process" => thread[t].oc \in file.content.supported

CalmIsRight ==
    \A t \in Threads : thread[t].calm =>
        /\ Alone(t)
        /\ ~overtaken => HasRead(t)

OcInv ==
    /\ OcTypes /\ ReadsAreOld /\ DictsInWork /\ SomebodyReloads
    /\ CalmIsRight /\ TreatedAsConfigured
=============================================================================
