----------------------------- MODULE RoomEvents -----------------------------
(***************************************************************************)
(* Check-ins, check-outs and room moves of Sihot.PMS, and the interface    *)
(* that notifies AcuServer or BssServer of them (both external).           *)
(*                                                                         *)
(* An allocation is the stay of one booking in one apartment.  Sihot moves *)
(* a guest to another allocation of the same booking.  Each of the two     *)
(* servers has an interface of its own, with its own log file, so that a   *)
(* behaviour follows only one of them.                                     *)
(***************************************************************************)
EXTENDS Integers, Sequences, FiniteSets

CONSTANTS
    Alloc,          \* allocations
    NoAlloc,        \* no former allocation
    Apt,            \* apartment of an allocation
    Gds,            \* its booking
    Sub,            \* the sub-reservation of Sihot to which it belongs
    Arrive, Depart, \* its first and last day
    Hours,          \* bound: times of day, in quarters of a day after midnight
    MaxDay,         \* bound: days
    MaxEvents,      \* bound: events of Sihot
    Faults,         \* kinds of fault that may happen
    MaxFaults       \* bound: faults per behaviour

ASSUME EventsAssumption ==
    /\ IsFiniteSet(Alloc) /\ NoAlloc \notin Alloc
    /\ Arrive \in [Alloc -> Int] /\ Depart \in [Alloc -> Int]
    /\ Hours \subseteq 0 .. 3
    /\ MaxDay \in Nat /\ MaxEvents \in Nat /\ MaxFaults \in Nat
    /\ \A a, b \in Alloc : Apt[a] = Apt[b] /\ Gds[a] = Gds[b] => a = b
    /\ Faults \subseteq {"lost", "refused", "reordered", "noGds"}

VARIABLES
    receiver,       \* the server that is notified
    stay,           \* of each allocation: "due", "in" or "out"
    today,
    log,            \* log file of the interface: all events
    net,            \* the events that wait for their server
    faults,
    spoiled         \* what has happened that the servers do not cope with

eventVars == <<receiver, stay, today, log, net, faults, spoiled>>

EventsInit(server) ==
    /\ receiver = server
    /\ stay = [a \in Alloc |-> "due"]
    /\ today = 0
    /\ log = <<>> /\ net = <<>>
    /\ faults = 0 /\ spoiled = {}

Fault(kind) == kind \in Faults /\ faults < MaxFaults /\ faults' = faults + 1

\* The apartment is free, and the guests of the booking are nowhere else.
CanEnter(a, besides) ==
    /\ stay[a] # "in"
    /\ today \in Arrive[a] .. Depart[a]
    /\ \A b \in Alloc \ {besides} : stay[b] = "in" => Apt[b] # Apt[a] /\ Gds[b] # Gds[a]

LastHour == IF log # <<>> /\ log[Len(log)].day = today THEN log[Len(log)].hour ELSE 0

\* Windows "noGds": the notification has no GDS number (older builds of Sihot); "reentry": the
\* allocation was left before.
Emit(oc, old, new) ==
    /\ Len(log) < MaxEvents
    /\ \E gds \in BOOLEAN, hour \in Hours :
          /\ hour >= LastHour
          /\ log' = Append(log, [oc |-> oc, old |-> old, new |-> new, gds |-> gds,
                                 day |-> today, hour |-> hour])
          /\ IF gds THEN UNCHANGED faults ELSE Fault("noGds")
          /\ spoiled' = spoiled \cup (IF gds THEN {} ELSE {"noGds"})
                                \cup (IF oc # "CO" /\ stay[new] = "out" THEN {"reentry"} ELSE {})
    /\ net' = Append(net, Len(log) + 1)
    /\ UNCHANGED <<receiver, today>>

CheckIn(a) ==
    /\ CanEnter(a, NoAlloc)
    /\ stay' = [stay EXCEPT ![a] = "in"]
    /\ Emit("CI", NoAlloc, a)

CheckOut(a) ==
    /\ stay[a] = "in"
    /\ stay' = [stay EXCEPT ![a] = "out"]
    /\ Emit("CO", NoAlloc, a)

Move(a, b) ==
    /\ stay[a] = "in"
    /\ Gds[a] = Gds[b] /\ Apt[a] # Apt[b]
    /\ CanEnter(b, a)
    /\ stay' = [stay EXCEPT ![a] = "out", ![b] = "in"]
    /\ Emit("RM", a, b)

\* A day is over when its notifications are processed or lost.
NextDay ==
    /\ today < MaxDay
    /\ net = <<>>
    /\ today' = today + 1
    /\ UNCHANGED <<receiver, stay, log, net, faults, spoiled>>

SihotStep == \/ \E a \in Alloc : CheckIn(a) \/ CheckOut(a)
             \/ \E a, b \in Alloc : Move(a, b)
             \/ NextDay

\* A notification leaves the net; the servers have a thread for each, so that it may overtake.
Take(i) == net' = SubSeq(net, 1, i - 1) \o SubSeq(net, i + 1, Len(net))

Lose(i, marks) ==
    /\ Take(i)
    /\ Fault("lost")
    /\ spoiled' = spoiled \cup {"lost"} \cup marks
    /\ UNCHANGED <<receiver, stay, today, log>>

Ordered(i) == IF i = 1 THEN UNCHANGED faults ELSE Fault("reordered")
OrderMark(i) == IF i = 1 THEN {} ELSE {"reordered"}

-----------------------------------------------------------------------------
(***************************************************************************)
(* What the log and the net tell, whatever the servers do: the types, and  *)
(* where the guests of a booking were after an event of the log.           *)
(***************************************************************************)
Event == [oc : {"CI", "CO", "RM"}, old : Alloc \cup {NoAlloc}, new : Alloc, gds : BOOLEAN,
          day : Int, hour : Hours]

EventTypes ==
    /\ stay \in [Alloc -> {"due", "in", "out"}]
    /\ log \in Seq(Event)
    /\ \A n \in 1 .. Len(log) : log[n].oc = "RM" => /\ log[n].old \in Alloc /\ log[n].old # log[n].new
                                                   /\ Gds[log[n].old] = Gds[log[n].new]
    /\ net \in Seq(Nat) /\ \A j \in 1 .. Len(net) : net[j] \in 1 .. Len(log)
    /\ today \in Int /\ faults \in Nat

Before(e) == IF e.oc = "CI" THEN NoAlloc ELSE IF e.oc = "RM" THEN e.old ELSE e.new
After(e)  == IF e.oc = "CO" THEN NoAlloc ELSE e.new

\* After n of the events the guests of booking g are in allocation x, or nowhere.
IsAt(events, g, n, x) ==
    \/ x = NoAlloc /\ \A i \in 1 .. n : Gds[events[i].new] # g
    \/ \E i \in 1 .. n :
          /\ Gds[events[i].new] = g /\ x = After(events[i])
          /\ \A j \in i + 1 .. n : Gds[events[j].new] # g

\* The log tells a story of each booking that ends where Sihot has its guests.
LogIsStory ==
    /\ \A n \in 1 .. Len(log) : IsAt(log, Gds[log[n].new], n - 1, Before(log[n]))
    /\ \A a \in Alloc :
          /\ stay[a] = "in" => IsAt(log, Gds[a], Len(log), a)
          /\ (\A b \in Alloc : Gds[b] = Gds[a] => stay[b] # "in") => IsAt(log, Gds[a], Len(log), NoAlloc)

\* Events wait in the net on the day they happened; a guest arrives within the stay; a
\* notification without booking number is marked.
LogIsDated ==
    /\ \A j \in 1 .. Len(net) : log[net[j]].day = today
    /\ \A n \in 1 .. Len(log) : /\ log[n].oc # "CO" => log[n].day \in Arrive[log[n].new] .. Depart[log[n].new]
                                /\ log[n].gds \/ "noGds" \in spoiled

\* The net has the end of the log: nothing was overtaken.
Processed == Len(log) - Len(net)

NetInOrder ==
    /\ Len(net) <= Len(log)
    /\ \A j \in 1 .. Len(net) : net[j] = Processed + j
=============================================================================
