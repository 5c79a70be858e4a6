----------------------------- MODULE RoomProofs -----------------------------
(***************************************************************************)
(* Proofs about the two servers that Sihot notifies of check-ins, check-   *)
(* outs and room moves: the status and the times of T_ARO agree, whatever  *)
(* AcuServer and SihotOccLogChecker write, in whatever order; AcuServer    *)
(* and BssServer show the guests where the log of Sihot has them.          *)
(*                                                                         *)
(* The argument of the latter: the log tells of each booking where it was  *)
(* before and after each of its events (LogIsStory), so that a server that *)
(* has processed the first n events in order must show each booking where  *)
(* it was after n events (IsAt), which an event of another booking does    *)
(* not change (AtNext, AtFrame), and a booking is at one place (AtOnePlace).*)
(***************************************************************************)
EXTENDS RoomAlloc, RoomCache, SequenceTheorems, FiniteSetTheorems, TLAPS

-----------------------------------------------------------------------------
(***************************************************************************)
(* The log and the net.                                                    *)
(***************************************************************************)
\* Where a booking is after the next event, that is or is not about it.
LEMMA AtNext ==
    ASSUME NEW l, NEW g, NEW n \in Nat, NEW x
    PROVE  /\ Gds[l[n + 1].new] # g => (IsAt(l, g, n + 1, x) <=> IsAt(l, g, n, x))
           /\ Gds[l[n + 1].new] = g => (IsAt(l, g, n + 1, x) <=> x = After(l[n + 1]))
<1>1. CASE Gds[l[n + 1].new] # g
  <2>1. (\A i \in 1 .. n + 1 : Gds[l[i].new] # g) <=> (\A i \in 1 .. n : Gds[l[i].new] # g)
    BY <1>1
  <2>2. ASSUME NEW i \in 1 .. n
        PROVE  (\A j \in i + 1 .. n + 1 : Gds[l[j].new] # g)
                  <=> (\A j \in i + 1 .. n : Gds[l[j].new] # g)
    BY <1>1
  <2>3. \A i \in 1 .. n + 1 : Gds[l[i].new] = g => i \in 1 .. n
    BY <1>1
  <2>4. 1 .. n \subseteq 1 .. n + 1
    OBVIOUS
  <2> QED BY <1>1, <2>1, <2>2, <2>3, <2>4 DEF IsAt
<1>2. CASE Gds[l[n + 1].new] = g
  <2>1. n + 1 \in 1 .. n + 1 /\ (n + 1) + 1 .. n + 1 = {}
    OBVIOUS
  <2>2. ~ \A i \in 1 .. n + 1 : Gds[l[i].new] # g
    BY <1>2, <2>1
  <2>3. ASSUME NEW i \in 1 .. n + 1, \A j \in i + 1 .. n + 1 : Gds[l[j].new] # g
        PROVE  i = n + 1
    BY <1>2, <2>3
  <2> QED BY <1>2, <2>1, <2>2, <2>3 DEF IsAt
<1> QED BY <1>1, <1>2

\* A booking is at one place at a time.
LEMMA AtOnePlace ==
    ASSUME NEW l, NEW g, NEW n \in Nat, NEW x, NEW y, IsAt(l, g, n, x), IsAt(l, g, n, y)
    PROVE  x = y
<1>1. ASSUME NEW i \in 1 .. n, Gds[l[i].new] = g, \A k \in i + 1 .. n : Gds[l[k].new] # g,
             NEW j \in 1 .. n, Gds[l[j].new] = g, \A k \in j + 1 .. n : Gds[l[k].new] # g
      PROVE  i = j
  <2>1. ~(i < j)
    <3> SUFFICES ASSUME i < j PROVE FALSE
      OBVIOUS
    <3>1. j \in i + 1 .. n
      OBVIOUS
    <3> QED BY <1>1, <3>1
  <2>2. ~(j < i)
    <3> SUFFICES ASSUME j < i PROVE FALSE
      OBVIOUS
    <3>1. i \in j + 1 .. n
      OBVIOUS
    <3> QED BY <1>1, <3>1
  <2> QED BY <2>1, <2>2
<1> QED BY <1>1 DEF IsAt

\* Events that come later do not change where it was.
LEMMA AtFrame ==
    ASSUME NEW l, NEW m, NEW n \in Nat, \A i \in 1 .. n : m[i] = l[i], NEW g, NEW x
    PROVE  IsAt(m, g, n, x) <=> IsAt(l, g, n, x)
<1>1. \A i \in 1 .. n : \A j \in i + 1 .. n : j \in 1 .. n
  OBVIOUS
<1> QED BY <1>1 DEF IsAt

\* The events of the log, and the numbers in the net, have their types.
LEMMA LogTypes ==
    ASSUME EventTypes
    PROVE  /\ Len(log) \in Nat /\ Len(net) \in Nat
           /\ \A n \in 1 .. Len(log) :
                 /\ log[n].oc \in {"CI", "CO", "RM"} /\ log[n].new \in Alloc
                 /\ log[n].oc = "RM" => /\ log[n].old \in Alloc /\ log[n].old # log[n].new
                                       /\ Gds[log[n].old] = Gds[log[n].new]
<1>1. \A e \in Event : e.oc \in {"CI", "CO", "RM"} /\ e.new \in Alloc
  BY DEF Event
<1>2. /\ log \in Seq(Event) /\ net \in Seq(Nat)
      /\ \A n \in 1 .. Len(log) : log[n].oc = "RM" => /\ log[n].old \in Alloc
                                                     /\ log[n].old # log[n].new
                                                     /\ Gds[log[n].old] = Gds[log[n].new]
  BY DEF EventTypes
<1>3. \A n \in 1 .. Len(log) : log[n] \in Event
  BY <1>2, ElementOfSeq
<1>4. Len(log) \in Nat /\ Len(net) \in Nat
  BY <1>2
<1> QED BY <1>1, <1>2, <1>3, <1>4

\* What Sihot appends to the log and the net.
LEMMA Emitted ==
    ASSUME EventTypes, NEW oc \in {"CI", "CO", "RM"}, NEW old \in Alloc \cup {NoAlloc},
           NEW new \in Alloc, oc = "RM" => old \in Alloc /\ old # new /\ Gds[old] = Gds[new],
           Emit(oc, old, new)
    PROVE  /\ Len(log') = Len(log) + 1 /\ \A n \in 1 .. Len(log) : log'[n] = log[n]
           /\ log'[Len(log) + 1].oc = oc /\ log'[Len(log) + 1].old = old
           /\ log'[Len(log) + 1].new = new /\ log'[Len(log) + 1].day = today
           /\ log'[Len(log) + 1].gds \/ "noGds" \in spoiled'
           /\ Len(net') = Len(net) + 1 /\ net'[Len(net) + 1] = Len(log) + 1
           /\ \A j \in 1 .. Len(net) : net'[j] = net[j]
           /\ spoiled \subseteq spoiled'
           /\ log' \in Seq(Event) /\ net' \in Seq(Nat) /\ faults' \in Nat
<1>0. log \in Seq(Event) /\ net \in Seq(Nat) /\ today \in Int /\ faults \in Nat
  BY DEF EventTypes
<1>1. PICK gds \in BOOLEAN, hour \in Hours :
        /\ log' = Append(log, [oc |-> oc, old |-> old, new |-> new, gds |-> gds,
                               day |-> today, hour |-> hour])
        /\ gds => UNCHANGED faults
        /\ ~gds => Fault("noGds") /\ "noGds" \in spoiled'
        /\ spoiled \subseteq spoiled'
  BY DEF Emit
<1>2. net' = Append(net, Len(log) + 1)
  BY DEF Emit
<1> DEFINE e == [oc |-> oc, old |-> old, new |-> new, gds |-> gds,
                 day |-> today, hour |-> hour]
<1>3. /\ e \in Event /\ e.oc = oc /\ e.old = old /\ e.new = new /\ e.day = today
      /\ e.gds = gds
  BY <1>0 DEF Event
<1>4. faults' \in Nat
  BY <1>0, <1>1 DEF Fault
<1> HIDE DEF e
<1>5. log' = Append(log, e)
  BY <1>1 DEF e
<1>6. /\ Len(log') = Len(log) + 1 /\ log' \in Seq(Event) /\ log'[Len(log) + 1] = e
      /\ \A n \in 1 .. Len(log) : log'[n] = log[n]
  BY <1>0, <1>3, <1>5
<1>7. Len(log) + 1 \in Nat
  BY <1>0
<1>8. /\ Len(net') = Len(net) + 1 /\ net' \in Seq(Nat) /\ net'[Len(net) + 1] = Len(log) + 1
      /\ \A j \in 1 .. Len(net) : net'[j] = net[j]
  BY <1>0, <1>2, <1>7
<1> QED BY <1>1, <1>3, <1>4, <1>6, <1>8

\* A notification that is taken out of the net.
LEMMA Taken ==
    ASSUME EventTypes, NEW i \in 1 .. Len(net), Take(i)
    PROVE  /\ net' \in Seq(Nat) /\ Len(net') = Len(net) - 1
           /\ \A j \in 1 .. Len(net') : net'[j] \in 1 .. Len(log)
           /\ \A j \in 1 .. Len(net') : \E k \in 1 .. Len(net) : net'[j] = net[k]
           /\ i = 1 => \A j \in 1 .. Len(net') : net'[j] = net[j + 1]
<1>0. net \in Seq(Nat) /\ Len(net) \in Nat /\ i \in Int /\ 1 <= i /\ i <= Len(net)
      /\ \A j \in 1 .. Len(net) : net[j] \in Nat /\ net[j] \in 1 .. Len(log)
  BY DEF EventTypes
<1> DEFINE s == SubSeq(net, 1, i - 1)
           t == SubSeq(net, i + 1, Len(net))
<1>1. /\ s \in Seq(Nat) /\ Len(s) = i - 1
      /\ \A j \in 1 .. i - 1 : s[j] = net[j]
  <2>1. \A j \in 1 .. i - 1 : net[j] \in Nat
    BY <1>0
  <2>2. /\ s \in Seq(Nat)
        /\ Len(s) = IF 1 <= i - 1 THEN (i - 1) - 1 + 1 ELSE 0
        /\ \A j \in 1 .. (i - 1) - 1 + 1 : s[j] = net[1 + j - 1]
    BY <1>0, <2>1, SubSeqProperties
  <2> HIDE DEF s
  <2>3. Len(s) = i - 1
    BY <1>0, <2>2
  <2>4. \A j \in 1 .. i - 1 : s[j] = net[j]
    <3> TAKE j \in 1 .. i - 1
    <3>1. j \in 1 .. (i - 1) - 1 + 1 /\ 1 + j - 1 = j
      BY <1>0
    <3> QED BY <2>2, <3>1
  <2> QED BY <2>2, <2>3, <2>4
<1>2. /\ t \in Seq(Nat) /\ Len(t) = Len(net) - i
      /\ \A j \in 1 .. Len(net) - i : t[j] = net[i + j]
  <2>1. \A j \in i + 1 .. Len(net) : net[j] \in Nat
    BY <1>0
  <2>2. /\ t \in Seq(Nat)
        /\ Len(t) = IF i + 1 <= Len(net) THEN Len(net) - (i + 1) + 1 ELSE 0
        /\ \A j \in 1 .. Len(net) - (i + 1) + 1 : t[j] = net[(i + 1) + j - 1]
    BY <1>0, <2>1, SubSeqProperties
  <2> HIDE DEF t
  <2>3. Len(t) = Len(net) - i
    BY <1>0, <2>2
  <2>4. \A j \in 1 .. Len(net) - i : t[j] = net[i + j]
    <3> TAKE j \in 1 .. Len(net) - i
    <3>1. j \in 1 .. Len(net) - (i + 1) + 1 /\ (i + 1) + j - 1 = i + j
      BY <1>0
    <3> QED BY <2>2, <3>1
  <2> QED BY <2>2, <2>3, <2>4
<1>3. net' = s \o t
  BY DEF Take
<1> HIDE DEF s, t
<1>4. /\ net' \in Seq(Nat) /\ Len(net') = Len(s) + Len(t)
      /\ \A j \in 1 .. Len(s) + Len(t) : net'[j] = IF j <= Len(s) THEN s[j] ELSE t[j - Len(s)]
  BY <1>1, <1>2, <1>3, ConcatProperties
<1>5. Len(net') = Len(net) - 1
  BY <1>0, <1>1, <1>2, <1>4
<1>6. ASSUME NEW j \in 1 .. Len(net')
      PROVE  /\ j <= i - 1 => net'[j] = net[j] /\ j \in 1 .. Len(net)
             /\ ~(j <= i - 1) => net'[j] = net[j + 1] /\ j + 1 \in 1 .. Len(net)
  <2>1. CASE j <= i - 1
    <3>1. j \in 1 .. Len(s) + Len(t) /\ j <= Len(s) /\ j \in 1 .. i - 1 /\ j \in 1 .. Len(net)
      BY <1>0, <1>1, <1>4, <1>5, <2>1
    <3>2. net'[j] = s[j]
      BY <1>4, <3>1
    <3> QED BY <1>1, <2>1, <3>1, <3>2
  <2>2. CASE ~(j <= i - 1)
    <3>1. j - (i - 1) \in 1 .. Len(net) - i /\ i + (j - (i - 1)) = j + 1
      BY <1>0, <1>5, <2>2
    <3>2. net'[j] = t[j - (i - 1)]
      BY <1>0, <1>1, <1>2, <1>4, <1>5, <2>2
    <3>3. t[j - (i - 1)] = net[i + (j - (i - 1))]
      BY <1>2, <3>1
    <3> QED BY <1>0, <1>5, <2>2, <3>1, <3>2, <3>3
  <2> QED BY <2>1, <2>2
<1>7. \A j \in 1 .. Len(net') : net'[j] \in 1 .. Len(log)
  BY <1>0, <1>6
<1>8. i = 1 => \A j \in 1 .. Len(net') : net'[j] = net[j + 1]
  BY <1>5, <1>6
<1>9. \A j \in 1 .. Len(net') : \E k \in 1 .. Len(net) : net'[j] = net[k]
  BY <1>6
<1> QED BY <1>4, <1>5, <1>7, <1>8, <1>9

\* What Sihot does makes the story of the booking longer.
LEMMA Told ==
    ASSUME EventTypes, LogIsStory, NEW oc \in {"CI", "CO", "RM"},
           NEW old \in Alloc \cup {NoAlloc}, NEW new \in Alloc,
           oc = "RM" => old \in Alloc /\ old # new /\ Gds[old] = Gds[new], Emit(oc, old, new),
           IsAt(log, Gds[new], Len(log),
                IF oc = "CI" THEN NoAlloc ELSE IF oc = "RM" THEN old ELSE new),
           \A a \in Alloc : Gds[a] # Gds[new] => stay'[a] = stay[a],
           \A a \in Alloc : Gds[a] = Gds[new] => (stay'[a] = "in" <=> oc # "CO" /\ a = new)
    PROVE  LogIsStory'
<1> DEFINE L == Len(log)
<1>0. L \in Nat
  BY LogTypes
<1>1. /\ Len(log') = L + 1 /\ \A n \in 1 .. L : log'[n] = log[n]
      /\ log'[L + 1].oc = oc /\ log'[L + 1].old = old /\ log'[L + 1].new = new
  BY Emitted
<1>2. ASSUME NEW n \in 0 .. L, NEW g, NEW x
      PROVE  IsAt(log', g, n, x) <=> IsAt(log, g, n, x)
  <2>1. n \in Nat /\ \A j \in 1 .. n : log'[j] = log[j]
    BY <1>0, <1>1
  <2> QED BY <2>1, AtFrame
<1>3. \A n \in 1 .. L : IsAt(log, Gds[log[n].new], n - 1, Before(log[n]))
  BY DEF LogIsStory
<1>4. ASSUME NEW n \in 1 .. Len(log')
      PROVE  IsAt(log', Gds[log'[n].new], n - 1, Before(log'[n]))
  <2>1. CASE n \in 1 .. L
    <3>1. n - 1 \in 0 .. L /\ log'[n] = log[n]
      BY <1>0, <1>1, <2>1
    <3> QED BY <1>2, <1>3, <2>1, <3>1
  <2>2. CASE n = L + 1
    <3>1. n - 1 = L /\ L \in 0 .. L
      BY <1>0, <2>2
    <3>2. Before(log'[L + 1]) = IF oc = "CI" THEN NoAlloc ELSE IF oc = "RM" THEN old ELSE new
      BY <1>1 DEF Before
    <3> QED BY <1>1, <1>2, <2>2, <3>1, <3>2
  <2> QED BY <1>0, <1>1, <2>1, <2>2
<1>5. ASSUME NEW a \in Alloc, NEW x
      PROVE  /\ Gds[a] # Gds[new] => (IsAt(log', Gds[a], Len(log'), x) <=> IsAt(log, Gds[a], L, x))
             /\ Gds[a] = Gds[new] =>
                  (IsAt(log', Gds[a], Len(log'), x) <=> x = IF oc = "CO" THEN NoAlloc ELSE new)
  <2>1. L \in 0 .. L
    BY <1>0
  <2>2. After(log'[L + 1]) = IF oc = "CO" THEN NoAlloc ELSE new
    BY <1>1 DEF After
  <2>3. /\ Gds[log'[L + 1].new] # Gds[a] =>
               (IsAt(log', Gds[a], L + 1, x) <=> IsAt(log', Gds[a], L, x))
        /\ Gds[log'[L + 1].new] = Gds[a] =>
               (IsAt(log', Gds[a], L + 1, x) <=> x = After(log'[L + 1]))
    BY <1>0, AtNext
  <2> QED BY <1>1, <1>2, <2>1, <2>2, <2>3
<1>6. \A a \in Alloc :
         /\ stay[a] = "in" => IsAt(log, Gds[a], L, a)
         /\ (\A b \in Alloc : Gds[b] = Gds[a] => stay[b] # "in") => IsAt(log, Gds[a], L, NoAlloc)
  BY DEF LogIsStory
<1>7. ASSUME NEW a \in Alloc
      PROVE  /\ stay'[a] = "in" => IsAt(log', Gds[a], Len(log'), a)
             /\ (\A b \in Alloc : Gds[b] = Gds[a] => stay'[b] # "in")
                   => IsAt(log', Gds[a], Len(log'), NoAlloc)
  <2>1. CASE Gds[a] # Gds[new]
    <3>1. \A b \in Alloc : Gds[b] = Gds[a] => stay'[b] = stay[b]
      BY <2>1
    <3> QED BY <1>5, <1>6, <2>1, <3>1
  <2>2. CASE Gds[a] = Gds[new]
    <3>1. stay'[a] = "in" => oc # "CO" /\ a = new
      BY <2>2
    <3>2. (\A b \in Alloc : Gds[b] = Gds[a] => stay'[b] # "in") => oc = "CO"
      BY <2>2
    <3> QED BY <1>5, <2>2, <3>1, <3>2
  <2> QED BY <2>1, <2>2
<1> QED BY <1>4, <1>7 DEF LogIsStory

\* What Sihot emits has the types.
LEMMA EmittedTypes ==
    ASSUME EventTypes, NEW oc \in {"CI", "CO", "RM"}, NEW old \in Alloc \cup {NoAlloc},
           NEW new \in Alloc, oc = "RM" => old \in Alloc /\ old # new /\ Gds[old] = Gds[new],
           Emit(oc, old, new), stay' \in [Alloc -> {"due", "in", "out"}]
    PROVE  EventTypes'
<1>0. Len(log) \in Nat /\ Len(net) \in Nat
  BY LogTypes
<1>1. /\ Len(log') = Len(log) + 1 /\ \A n \in 1 .. Len(log) : log'[n] = log[n]
      /\ log'[Len(log) + 1].oc = oc /\ log'[Len(log) + 1].old = old
      /\ log'[Len(log) + 1].new = new
      /\ Len(net') = Len(net) + 1 /\ net'[Len(net) + 1] = Len(log) + 1
      /\ \A j \in 1 .. Len(net) : net'[j] = net[j]
      /\ log' \in Seq(Event) /\ net' \in Seq(Nat) /\ faults' \in Nat
  BY Emitted
<1>2. ASSUME NEW n \in 1 .. Len(log')
      PROVE  log'[n].oc = "RM" => /\ log'[n].old \in Alloc /\ log'[n].old # log'[n].new
                                  /\ Gds[log'[n].old] = Gds[log'[n].new]
  <2>1. n = Len(log) + 1 \/ n \in 1 .. Len(log)
    BY <1>0, <1>1
  <2> QED BY <1>1, <2>1, LogTypes
<1>3. ASSUME NEW j \in 1 .. Len(net')
      PROVE  net'[j] \in 1 .. Len(log')
  <2>1. j = Len(net) + 1 \/ j \in 1 .. Len(net)
    BY <1>0, <1>1
  <2>2. \A m \in 1 .. Len(net) : net[m] \in 1 .. Len(log)
    BY DEF EventTypes
  <2>3. net'[j] = Len(log) + 1 \/ net'[j] \in 1 .. Len(log)
    BY <1>1, <2>1, <2>2
  <2> QED BY <1>0, <1>1, <2>3
<1>4. today' \in Int
  BY DEF Emit, EventTypes
<1> QED BY <1>1, <1>2, <1>3, <1>4 DEF EventTypes

\* Sihot checks in only a booking that is nowhere, and moves and checks out one that is there.
LEMMA SihotTells ==
    ASSUME EventTypes, LogIsStory, SihotStep
    PROVE  EventTypes' /\ LogIsStory'
<1> USE EventsAssumption
<1>0. /\ stay \in [Alloc -> {"due", "in", "out"}]
      /\ \A a \in Alloc :
            /\ stay[a] = "in" => IsAt(log, Gds[a], Len(log), a)
            /\ (\A b \in Alloc : Gds[b] = Gds[a] => stay[b] # "in")
                  => IsAt(log, Gds[a], Len(log), NoAlloc)
  BY DEF EventTypes, LogIsStory
<1>1. ASSUME NEW a \in Alloc, CheckIn(a)
      PROVE  EventTypes' /\ LogIsStory'
  <2>1. /\ CanEnter(a, NoAlloc) /\ stay' = [stay EXCEPT ![a] = "in"] /\ Emit("CI", NoAlloc, a)
    BY <1>1 DEF CheckIn
  <2>2. \A b \in Alloc : Gds[b] = Gds[a] => stay[b] # "in"
    BY <2>1 DEF CanEnter
  <2>3. stay' \in [Alloc -> {"due", "in", "out"}]
    BY <1>0, <2>1
  <2>4. \A b \in Alloc : stay'[b] = IF b = a THEN "in" ELSE stay[b]
    BY <1>0, <2>1
  <2>5. IsAt(log, Gds[a], Len(log), NoAlloc)
    BY <1>0, <2>2
  <2>6. /\ \A b \in Alloc : Gds[b] # Gds[a] => stay'[b] = stay[b]
        /\ \A b \in Alloc : Gds[b] = Gds[a] => (stay'[b] = "in" <=> "CI" # "CO" /\ b = a)
    BY <2>2, <2>4
  <2>7. LogIsStory'
    BY <2>1, <2>5, <2>6, Told
  <2> QED BY <2>1, <2>3, <2>7, EmittedTypes
<1>2. ASSUME NEW a \in Alloc, CheckOut(a)
      PROVE  EventTypes' /\ LogIsStory'
  <2>1. stay[a] = "in" /\ stay' = [stay EXCEPT ![a] = "out"] /\ Emit("CO", NoAlloc, a)
    BY <1>2 DEF CheckOut
  <2>2. \A b \in Alloc : Gds[b] = Gds[a] /\ stay[b] = "in" => b = a
    BY <1>0, <2>1, AtOnePlace, LogTypes
  <2>3. stay' \in [Alloc -> {"due", "in", "out"}]
    BY <1>0, <2>1
  <2>4. \A b \in Alloc : stay'[b] = IF b = a THEN "out" ELSE stay[b]
    BY <1>0, <2>1
  <2>5. IsAt(log, Gds[a], Len(log), a)
    BY <1>0, <2>1
  <2>6. /\ \A b \in Alloc : Gds[b] # Gds[a] => stay'[b] = stay[b]
        /\ \A b \in Alloc : Gds[b] = Gds[a] => (stay'[b] = "in" <=> "CO" # "CO" /\ b = a)
    BY <2>2, <2>4
  <2>7. LogIsStory'
    BY <2>1, <2>5, <2>6, Told
  <2> QED BY <2>1, <2>3, <2>7, EmittedTypes
<1>3. ASSUME NEW a \in Alloc, NEW b \in Alloc, Move(a, b)
      PROVE  EventTypes' /\ LogIsStory'
  <2>1. /\ stay[a] = "in" /\ Gds[a] = Gds[b] /\ a # b
        /\ CanEnter(b, a)
        /\ stay' = [stay EXCEPT ![a] = "out", ![b] = "in"] /\ Emit("RM", a, b)
    BY <1>3 DEF Move
  <2>2. \A c \in Alloc : Gds[c] = Gds[b] /\ stay[c] = "in" => c = a
    BY <2>1 DEF CanEnter
  <2>3. stay' \in [Alloc -> {"due", "in", "out"}]
    BY <1>0, <2>1
  <2>4. \A c \in Alloc : stay'[c] = IF c = b THEN "in" ELSE IF c = a THEN "out" ELSE stay[c]
    BY <1>0, <2>1
  <2>5. IsAt(log, Gds[b], Len(log), a)
    BY <1>0, <2>1
  <2>6. /\ \A c \in Alloc : Gds[c] # Gds[b] => stay'[c] = stay[c]
        /\ \A c \in Alloc : Gds[c] = Gds[b] => (stay'[c] = "in" <=> "RM" # "CO" /\ c = b)
    <3>1. "RM" # "CO" /\ "out" # "in"
      OBVIOUS
    <3>2. ASSUME NEW c \in Alloc, Gds[c] = Gds[b], c # b, c # a
          PROVE  stay[c] # "in"
      BY <2>2, <3>2
    <3> QED BY <2>1, <2>4, <3>1, <3>2
  <2>7. LogIsStory'
    BY <2>1, <2>5, <2>6, Told
  <2> QED BY <2>1, <2>3, <2>7, EmittedTypes
<1>4. ASSUME NextDay
      PROVE  EventTypes' /\ LogIsStory'
  <2>1. UNCHANGED <<receiver, stay, log, net, faults>>
    BY <1>4 DEF NextDay
  <2>2. today' \in Int
    BY <1>4 DEF NextDay, EventTypes
  <2>3. EventTypes'
    BY <2>1, <2>2 DEF EventTypes
  <2>4. LogIsStory'
    BY <2>1 DEF LogIsStory
  <2> QED BY <2>3, <2>4
<1> QED BY <1>1, <1>2, <1>3, <1>4 DEF SihotStep

\* What a server does with a notification keeps the types; the story is that of Sihot.
LEMMA TakenTypes ==
    ASSUME EventTypes, NEW i \in 1 .. Len(net), Take(i), UNCHANGED <<stay, today, log>>,
           faults' \in Nat
    PROVE  EventTypes'
<1>1. /\ net' \in Seq(Nat)
      /\ \A j \in 1 .. Len(net') : net'[j] \in 1 .. Len(log')
  BY Taken
<1> QED BY <1>1 DEF EventTypes

LEMMA StoryKept ==
    ASSUME LogIsStory, UNCHANGED <<stay, log>>
    PROVE  LogIsStory'
  BY DEF LogIsStory

LEMMA Faulty ==
    ASSUME EventTypes
    PROVE  /\ \A kind : Fault(kind) => faults' \in Nat
           /\ \A i : Ordered(i) => faults' \in Nat
           /\ UNCHANGED faults => faults' \in Nat
  BY DEF EventTypes, Fault, Ordered

\* The event of a notification.
LEMMA Noticed ==
    ASSUME EventTypes, NEW i \in 1 .. Len(net)
    PROVE  LET e == log[net[i]] IN
           /\ e.oc \in {"CI", "CO", "RM"} /\ e.new \in Alloc
           /\ e.oc = "RM" => e.old \in Alloc /\ e.old # e.new /\ Gds[e.old] = Gds[e.new]
<1>1. net[i] \in 1 .. Len(log)
  BY DEF EventTypes
<1> QED BY <1>1, LogTypes

\* The notification that comes next, and where the booking of its event was.
LEMMA NextEvent ==
    ASSUME EventTypes, LogIsStory, NetInOrder, 1 \in 1 .. Len(net), Take(1), log' = log
    PROVE  LET e == log[net[1]] IN
           /\ NetInOrder'
           /\ IsAt(log, Gds[e.new], Processed, Before(e))
           /\ \A g, x :
                 /\ Gds[e.new] # g => (IsAt(log, g, Processed', x) <=> IsAt(log, g, Processed, x))
                 /\ Gds[e.new] = g => (IsAt(log, g, Processed', x) <=> x = After(e))
           /\ Processed \in Nat
<1> DEFINE k == Processed
<1>0. Len(log) \in Nat /\ Len(net) \in Nat /\ 1 <= Len(net)
  BY LogTypes
<1>1. Len(net) <= Len(log) /\ \A j \in 1 .. Len(net) : net[j] = k + j
  BY DEF NetInOrder
<1>2. k \in Nat /\ k + 1 \in 1 .. Len(log) /\ net[1] = k + 1 /\ k + 1 - 1 = k
  BY <1>0, <1>1 DEF Processed
<1>3. Len(net') = Len(net) - 1 /\ \A j \in 1 .. Len(net') : net'[j] = net[j + 1]
  BY Taken
<1>4. Processed' = k + 1
  BY <1>0, <1>3 DEF Processed
<1>5. Len(net') <= Len(log')
  BY <1>0, <1>1, <1>3
<1>6. ASSUME NEW j \in 1 .. Len(net')
      PROVE  net'[j] = Processed' + j
  <2>1. j + 1 \in 1 .. Len(net) /\ k + (j + 1) = (k + 1) + j
    BY <1>0, <1>2, <1>3
  <2> QED BY <1>1, <1>3, <1>4, <2>1
<1>7. IsAt(log, Gds[log[k + 1].new], k + 1 - 1, Before(log[k + 1]))
  BY <1>2 DEF LogIsStory
<1>8. ASSUME NEW g, NEW x
      PROVE  /\ Gds[log[k + 1].new] # g => (IsAt(log, g, k + 1, x) <=> IsAt(log, g, k, x))
             /\ Gds[log[k + 1].new] = g => (IsAt(log, g, k + 1, x) <=> x = After(log[k + 1]))
  BY <1>2, AtNext
<1> QED BY <1>2, <1>4, <1>5, <1>6, <1>7, <1>8 DEF NetInOrder

\* The net keeps its order when Sihot goes on,
LEMMA EmittedInOrder ==
    ASSUME EventTypes, NetInOrder, NEW oc \in {"CI", "CO", "RM"}, NEW old \in Alloc \cup {NoAlloc},
           NEW new \in Alloc, oc = "RM" => old \in Alloc /\ old # new /\ Gds[old] = Gds[new],
           Emit(oc, old, new)
    PROVE  /\ NetInOrder' /\ Processed' = Processed
           /\ \A g, x : IsAt(log', g, Processed, x) <=> IsAt(log, g, Processed, x)
<1>0. Len(log) \in Nat /\ Len(net) \in Nat
  BY LogTypes
<1>1. /\ Len(log') = Len(log) + 1 /\ \A n \in 1 .. Len(log) : log'[n] = log[n]
      /\ Len(net') = Len(net) + 1 /\ net'[Len(net) + 1] = Len(log) + 1
      /\ \A j \in 1 .. Len(net) : net'[j] = net[j]
  BY Emitted
<1>2. Processed' = Processed
  BY <1>0, <1>1 DEF Processed
<1>3. Len(net) <= Len(log) /\ \A j \in 1 .. Len(net) : net[j] = Processed + j
  BY DEF NetInOrder
<1>4. ASSUME NEW g, NEW x
      PROVE  IsAt(log', g, Processed, x) <=> IsAt(log, g, Processed, x)
  <2>1. Processed \in Nat /\ Processed <= Len(log)
    BY <1>0, <1>3 DEF Processed
  <2>2. \A n \in 1 .. Processed : log'[n] = log[n]
    BY <1>0, <1>1, <2>1
  <2> QED BY <2>1, <2>2, AtFrame
<1>5. Len(net') <= Len(log')
  BY <1>0, <1>1, <1>3
<1>6. ASSUME NEW j \in 1 .. Len(net')
      PROVE  net'[j] = Processed' + j
  <2>1. CASE j \in 1 .. Len(net)
    BY <1>1, <1>2, <1>3, <2>1
  <2>2. CASE j = Len(net) + 1
    BY <1>0, <1>1, <1>2, <2>2 DEF Processed
  <2> QED BY <1>0, <1>1, <2>1, <2>2
<1> QED BY <1>2, <1>4, <1>5, <1>6 DEF NetInOrder

\* and it tells nothing new of what was processed.
LEMMA SihotInOrder ==
    ASSUME EventTypes, NetInOrder, SihotStep
    PROVE  /\ NetInOrder' /\ Processed' = Processed
           /\ \A g, x : IsAt(log', g, Processed, x) <=> IsAt(log, g, Processed, x)
           /\ spoiled \subseteq spoiled'
<1>1. ASSUME NEW a \in Alloc, CheckIn(a) \/ CheckOut(a)
      PROVE  Emit("CI", NoAlloc, a) \/ Emit("CO", NoAlloc, a)
  BY <1>1 DEF CheckIn, CheckOut
<1>2. ASSUME NEW a \in Alloc, NEW b \in Alloc, Move(a, b)
      PROVE  Emit("RM", a, b) /\ Gds[a] = Gds[b] /\ a # b
  BY <1>2 DEF Move
<1>3. CASE NextDay
  <2>1. UNCHANGED <<log, net, spoiled>>
    BY <1>3 DEF NextDay
  <2> QED BY <2>1 DEF NetInOrder, Processed
<1>4. CASE ~NextDay
  <2>1. PICK oc \in {"CI", "CO", "RM"}, old \in Alloc \cup {NoAlloc}, new \in Alloc :
          /\ oc = "RM" => old \in Alloc /\ old # new /\ Gds[old] = Gds[new]
          /\ Emit(oc, old, new)
    <3>1. CASE \E a \in Alloc : CheckIn(a) \/ CheckOut(a)
      <4>1. "CI" # "RM" /\ "CO" # "RM"
        OBVIOUS
      <4> QED BY <1>1, <3>1, <4>1
    <3>2. CASE \E a, b \in Alloc : Move(a, b)
      BY <1>2, <3>2
    <3> QED BY <1>4, <3>1, <3>2 DEF SihotStep
  <2> QED BY <2>1, EmittedInOrder, Emitted
<1> QED BY <1>3, <1>4

\* The dates of the log.
LEMMA EmittedDated ==
    ASSUME EventTypes, LogIsDated, NEW oc \in {"CI", "CO", "RM"}, NEW old \in Alloc \cup {NoAlloc},
           NEW new \in Alloc, oc = "RM" => old \in Alloc /\ old # new /\ Gds[old] = Gds[new],
           Emit(oc, old, new), oc # "CO" => today \in Arrive[new] .. Depart[new]
    PROVE  LogIsDated'
<1>0. Len(log) \in Nat /\ Len(net) \in Nat
  BY LogTypes
<1>1. /\ Len(log') = Len(log) + 1 /\ \A n \in 1 .. Len(log) : log'[n] = log[n]
      /\ log'[Len(log) + 1].oc = oc /\ log'[Len(log) + 1].new = new
      /\ log'[Len(log) + 1].day = today
      /\ log'[Len(log) + 1].gds \/ "noGds" \in spoiled'
      /\ Len(net') = Len(net) + 1 /\ net'[Len(net) + 1] = Len(log) + 1
      /\ \A j \in 1 .. Len(net) : net'[j] = net[j]
      /\ spoiled \subseteq spoiled'
  BY Emitted
<1>2. today' = today
  BY DEF Emit
<1>3. \A j \in 1 .. Len(net) : net[j] \in 1 .. Len(log)
  BY DEF EventTypes
<1>4. ASSUME NEW j \in 1 .. Len(net')
      PROVE  log'[net'[j]].day = today'
  <2>1. CASE j \in 1 .. Len(net)
    BY <1>1, <1>2, <1>3, <2>1 DEF LogIsDated
  <2>2. CASE j = Len(net) + 1
    BY <1>1, <1>2, <2>2
  <2> QED BY <1>0, <1>1, <2>1, <2>2
<1>5. ASSUME NEW n \in 1 .. Len(log')
      PROVE  /\ log'[n].oc # "CO" => log'[n].day \in Arrive[log'[n].new] .. Depart[log'[n].new]
             /\ log'[n].gds \/ "noGds" \in spoiled'
  <2>1. CASE n \in 1 .. Len(log)
    BY <1>1, <2>1 DEF LogIsDated
  <2>2. CASE n = Len(log) + 1
    BY <1>1, <2>2
  <2> QED BY <1>0, <1>1, <2>1, <2>2
<1> QED BY <1>4, <1>5 DEF LogIsDated

LEMMA SihotDated ==
    ASSUME EventTypes, LogIsDated, SihotStep
    PROVE  LogIsDated'
<1>1. ASSUME NEW a \in Alloc, CheckIn(a)
      PROVE  LogIsDated'
  <2>1. Emit("CI", NoAlloc, a) /\ today \in Arrive[a] .. Depart[a]
    BY <1>1 DEF CheckIn, CanEnter
  <2> QED BY <2>1, EmittedDated
<1>2. ASSUME NEW a \in Alloc, CheckOut(a)
      PROVE  LogIsDated'
  <2>1. Emit("CO", NoAlloc, a)
    BY <1>2 DEF CheckOut
  <2> QED BY <2>1, EmittedDated
<1>3. ASSUME NEW a \in Alloc, NEW b \in Alloc, Move(a, b)
      PROVE  LogIsDated'
  <2>1. Emit("RM", a, b) /\ Gds[a] = Gds[b] /\ a # b /\ today \in Arrive[b] .. Depart[b]
    BY <1>3 DEF Move, CanEnter
  <2> QED BY <2>1, EmittedDated
<1>4. ASSUME NextDay
      PROVE  LogIsDated'
  <2>1. UNCHANGED <<log, net, spoiled>> /\ Len(net') = 0
    BY <1>4 DEF NextDay
  <2> QED BY <2>1 DEF LogIsDated
<1> QED BY <1>1, <1>2, <1>3, <1>4 DEF SihotStep

LEMMA TakenDated ==
    ASSUME EventTypes, LogIsDated, NEW i \in 1 .. Len(net), Take(i), UNCHANGED <<today, log>>,
           spoiled \subseteq spoiled'
    PROVE  LogIsDated'
<1>1. \A j \in 1 .. Len(net') : \E k \in 1 .. Len(net) : net'[j] = net[k]
  BY Taken
<1> QED BY <1>1 DEF LogIsDated

-----------------------------------------------------------------------------
(***************************************************************************)
(* T_ARO: the status and the times agree.                                  *)
(***************************************************************************)
Row == [status : {190} \cup Inside \cup Outside, timeIn : BOOLEAN, timeOut : BOOLEAN]

\* A table of rows that agree, in which no row of an older table has lost its check-in time.
Sound(table) == table \in [Alloc -> Row] /\ \A a \in Alloc : RowAgrees(table[a])
KeepsTimeIn(old, table) == \A a \in Alloc : old[a].timeIn => table[a].timeIn

\* What a run has read is a sound table, older than T_ARO.
ReadInv ==
    phase \in {"read", "fix"} =>
        Sound(dbRows) /\ \A a \in Alloc : dbRows[a].status \in Inside => aro[a].timeIn

AllocInv == Sound(aro) /\ ReadInv

LEMMA InvImpliesStatusTimes == AllocInv => StatusTimes
  BY DEF AllocInv, ReadInv, Sound, StatusTimes

-----------------------------------------------------------------------------
(***************************************************************************)
(* P_SIHOT_ALLOC keeps a table sound.                                      *)
(***************************************************************************)

\* A row that is left, entered, or entered again.
LEMMA RowLeft ==
  ASSUME NEW r \in Row, RowAgrees(r), r.status \in Inside, NEW st \in Outside
  PROVE  LET q == [r EXCEPT !.timeOut = TRUE, !.status = st]
         IN  q \in Row /\ RowAgrees(q) /\ q.timeIn
  <1> DEFINE q == [r EXCEPT !.timeOut = TRUE, !.status = st]
  <1>1. q.timeOut = TRUE
    BY DEF Row
  <1>4. q.status = st
    BY DEF Row
  <1>5. q.timeIn = r.timeIn
    BY DEF Row
  <1>6. q \in Row
    BY DEF Row
  <1>2. r.timeIn
    BY DEF RowAgrees
  <1> HIDE DEF q
  <1>3. RowAgrees(q)
    BY <1>1, <1>2, <1>4, <1>5 DEF RowAgrees
  <1> QED BY <1>2, <1>3, <1>5, <1>6 DEF q

EnteredRow(r, st) == [r EXCEPT !.timeIn = TRUE, !.status = st]

LEMMA RowEntered ==
  ASSUME NEW r \in Row, RowAgrees(r), r.status \in {190}, NEW st \in Inside
  PROVE  LET q == EnteredRow(r, st) IN q \in Row /\ RowAgrees(q) /\ q.timeIn
  <1> DEFINE q == EnteredRow(r, st)
  <1>1. q.timeOut = r.timeOut
    BY DEF Row, EnteredRow
  <1>5. q.status = st
    BY DEF Row, EnteredRow
  <1>6. q.timeIn = TRUE
    BY DEF Row, EnteredRow
  <1>7. q \in Row
    BY DEF Row, EnteredRow
  <1>2. ~ r.timeOut
    BY DEF RowAgrees, Outside
  <1>3. st \notin Outside
    BY DEF Inside, Outside
  <1> HIDE DEF q
  <1>4. RowAgrees(q)
    BY <1>1, <1>2, <1>3, <1>5, <1>6 DEF RowAgrees, Inside
  <1> QED BY <1>4, <1>6, <1>7 DEF q

LEMMA RowReturned ==
  ASSUME NEW r \in Row, RowAgrees(r), r.status \in Outside, NEW st \in Inside
  PROVE  LET q == [r EXCEPT !.timeOut = FALSE, !.status = st]
         IN  q \in Row /\ RowAgrees(q) /\ q.timeIn
  <1> DEFINE q == [r EXCEPT !.timeOut = FALSE, !.status = st]
  <1>1. q.timeOut = FALSE
    BY DEF Row
  <1>5. q.status = st
    BY DEF Row
  <1>6. q.timeIn = r.timeIn
    BY DEF Row
  <1>7. q \in Row
    BY DEF Row
  <1>2. r.timeIn
    BY DEF RowAgrees
  <1>3. st \notin Outside
    BY DEF Inside, Outside
  <1> HIDE DEF q
  <1>4. RowAgrees(q)
    BY <1>1, <1>2, <1>3, <1>5, <1>6 DEF RowAgrees, Inside
  <1> QED BY <1>2, <1>4, <1>6, <1>7 DEF q

LEMMA LeftSound ==
  ASSUME NEW e, Sound(aro)
  PROVE  Sound(Left(e)) /\ KeepsTimeIn(aro, Left(e))
  <1>1. CASE e.oc = "CI"
    BY <1>1 DEF Left, KeepsTimeIn
  <1>2. CASE e.oc # "CI"
    <2> DEFINE st == IF e.oc = "RM" THEN 320 ELSE 390
               q(b) == [aro[b] EXCEPT !.timeOut = TRUE, !.status = st]
    <2>1. Left(e) = [b \in Alloc |-> IF b \in LeaveRows(e) THEN q(b) ELSE aro[b]]
      BY <1>2 DEF Left
    <2>2. st \in Outside
      BY DEF Outside
    <2>3. \A b \in Alloc : aro[b] \in Row /\ RowAgrees(aro[b])
      BY DEF Sound
    <2>4. \A b \in Alloc : b \in LeaveRows(e) => aro[b].status \in Inside
      BY DEF LeaveRows, RowsOf
    <2>5. ASSUME NEW b \in Alloc, b \in LeaveRows(e)
          PROVE  q(b) \in Row /\ RowAgrees(q(b)) /\ q(b).timeIn
      <3>1. aro[b] \in Row /\ RowAgrees(aro[b]) /\ aro[b].status \in Inside
        BY <2>3, <2>4, <2>5
      <3> HIDE DEF st
      <3> QED BY <2>2, <3>1, RowLeft
    <2> HIDE DEF q, st
    <2> QED BY <2>1, <2>3, <2>5 DEF Sound, KeepsTimeIn
  <1> QED BY <1>1, <1>2

LEMMA EnteredSound ==
  ASSUME NEW e, NEW table, Sound(table)
  PROVE  Sound(Entered(table, e)) /\ KeepsTimeIn(table, Entered(table, e))
  <1>1. CASE e.oc = "CO"
    BY <1>1 DEF Entered, KeepsTimeIn
  <1> DEFINE st == InStatus(e)
             q(b) == EnteredRow(table[b], st)
             p(b) == [table[b] EXCEPT !.timeOut = FALSE, !.status = st]
  <1>s. st \in Inside
    BY DEF InStatus, Inside
  <1>t. \A b \in Alloc : table[b] \in Row /\ RowAgrees(table[b])
    BY DEF Sound
  <1>2. CASE e.oc # "CO" /\ ArriveRows(table, e) # {}
    <2>1. Entered(table, e) = [b \in Alloc |-> IF b \in ArriveRows(table, e) THEN q(b) ELSE table[b]]
      BY <1>2 DEF Entered, EnteredRow
    <2>2. \A b \in Alloc : b \in ArriveRows(table, e) => table[b].status = 190
      BY DEF ArriveRows, RowsOf
    <2>3. ASSUME NEW b \in Alloc, b \in ArriveRows(table, e)
          PROVE  q(b) \in Row /\ RowAgrees(q(b)) /\ q(b).timeIn
      <3>1. table[b] \in Row /\ RowAgrees(table[b]) /\ table[b].status \in {190}
        BY <1>t, <2>2, <2>3
      <3> HIDE DEF st
      <3> QED BY <1>s, <3>1, RowEntered
    <2> HIDE DEF q, st
    <2> QED BY <1>t, <2>1, <2>3 DEF Sound, KeepsTimeIn
  <1>3. CASE e.oc # "CO" /\ ArriveRows(table, e) = {}
    <2>1. Entered(table, e) = [b \in Alloc |-> IF b \in ReturnRows(table, e) THEN p(b) ELSE table[b]]
      BY <1>3 DEF Entered
    <2>2. \A b \in Alloc : b \in ReturnRows(table, e) => table[b].status \in Outside
      BY DEF ReturnRows, RowsOf
    <2>3. ASSUME NEW b \in Alloc, b \in ReturnRows(table, e)
          PROVE  p(b) \in Row /\ RowAgrees(p(b)) /\ p(b).timeIn
      <3>1. table[b] \in Row /\ RowAgrees(table[b]) /\ table[b].status \in Outside
        BY <1>t, <2>2, <2>3
      <3> HIDE DEF st
      <3> QED BY <1>s, <3>1, RowReturned
    <2> HIDE DEF p, st
    <2> QED BY <1>t, <2>1, <2>3 DEF Sound, KeepsTimeIn
  <1> QED BY <1>1, <1>2, <1>3

-----------------------------------------------------------------------------
LEMMA StepUnchanged ==
  ASSUME AllocInv, UNCHANGED <<aro, dbRows, phase>>
  PROVE  AllocInv'
  BY DEF AllocInv, ReadInv, Sound, RowAgrees, Row, Inside, Outside

\* A table that keeps its check-in times keeps the relation to what was read.
LEMMA StepKeeps ==
  ASSUME AllocInv, Sound(aro'), KeepsTimeIn(aro, aro'), UNCHANGED <<dbRows, phase>>
  PROVE  AllocInv'
  BY DEF AllocInv, ReadInv, Sound, KeepsTimeIn, RowAgrees, Row, Inside, Outside

LEMMA StepTrigger ==
  ASSUME AllocInv, NEW i, AllocTrigger(i)
  PROVE  AllocInv'
  <1> DEFINE e == log[net[i]]
  <1>1. UNCHANGED <<dbRows, phase>>
    BY DEF AllocTrigger, Disturb
  <1>2. CASE aro' = Entered(Left(e), e)
    <2>1. Sound(Left(e)) /\ KeepsTimeIn(aro, Left(e))
      BY LeftSound DEF AllocInv
    <2>2. Sound(Entered(Left(e), e)) /\ KeepsTimeIn(Left(e), Entered(Left(e), e))
      BY <2>1, EnteredSound
    <2>3. Sound(aro') /\ KeepsTimeIn(aro, aro')
      BY <1>2, <2>1, <2>2 DEF KeepsTimeIn
    <2> QED BY <1>1, <2>3, StepKeeps
  <1>3. CASE UNCHANGED aro
    BY <1>1, <1>3, StepUnchanged
  <1> QED BY <1>2, <1>3 DEF AllocTrigger

\* A row that the check marks as left keeps its type and its check-in time.
LEMMA RowCheckedOut ==
  ASSUME NEW r \in Row
  PROVE  LET q == [r EXCEPT !.status = 390, !.timeOut = TRUE]
         IN  q \in Row /\ q.status = 390 /\ q.timeOut = TRUE /\ q.timeIn = r.timeIn
BY Zenon DEF Row, Outside

LEMMA StepFix ==
  ASSUME AllocInv, CheckFix
  PROVE  AllocInv'
  <1>1. UNCHANGED <<dbRows, phase>> /\ phase = "fix"
    BY DEF CheckFix
  <1>2. CASE UNCHANGED aro
    BY <1>1, <1>2, StepUnchanged
  <1>3. ASSUME NEW item, aro' = [aro EXCEPT ![item.row] = FixedRow(item)]
        PROVE  AllocInv'
    <2>1. Sound(aro) /\ Sound(dbRows)
          /\ \A a \in Alloc : dbRows[a].status \in Inside => aro[a].timeIn
      BY <1>1 DEF AllocInv, ReadInv
    <2>2. ASSUME item.row \in Alloc
          PROVE  /\ FixedRow(item) \in Row
                 /\ RowAgrees(FixedRow(item))
                 /\ FixedRow(item).timeIn
      <3> DEFINE r == aro[item.row]
      <3>1. r \in Row /\ dbRows[item.row].status \in Inside => r.timeIn
        BY <2>1, <2>2 DEF Sound
      <3>2. CASE Going(item.op) /\ dbRows[item.row].status \in Inside
        <4> DEFINE q == [r EXCEPT !.status = 390, !.timeOut = TRUE]
        <4>1. r \in Row /\ r.timeIn
          BY <2>1, <2>2, <3>2 DEF Sound
        <4>0. 390 \in Outside
          BY DEF Outside
        <4>2. q \in Row /\ q.status = 390 /\ q.timeOut = TRUE /\ q.timeIn = r.timeIn
          BY <4>1, RowCheckedOut, Zenon
        <4>3. FixedRow(item) = q
          BY <3>2 DEF FixedRow
        <4> HIDE DEF q
        <4>4. RowAgrees(q)
          BY <4>0, <4>1, <4>2 DEF RowAgrees, Outside
        <4> QED BY <4>1, <4>2, <4>3, <4>4
      <3>3. CASE ~(Going(item.op) /\ dbRows[item.row].status \in Inside)
        BY <3>3 DEF FixedRow, Row, RowAgrees, Inside, Outside
      <3> QED BY <3>2, <3>3
    <2>3. Sound(aro') /\ KeepsTimeIn(aro, aro')
      <3>1. CASE item.row \in Alloc
        <4>1. /\ FixedRow(item) \in Row /\ RowAgrees(FixedRow(item)) /\ FixedRow(item).timeIn
          BY <2>2, <3>1
        <4>2. \A a \in Alloc : aro'[a] = IF a = item.row THEN FixedRow(item) ELSE aro[a]
          BY <1>3, <2>1 DEF Sound
        <4>3. aro' \in [Alloc -> Row]
          BY <1>3, <2>1, <4>1 DEF Sound
        <4> QED BY <2>1, <4>1, <4>2, <4>3 DEF Sound, KeepsTimeIn
      <3>2. CASE item.row \notin Alloc
        BY <1>3, <2>1, <3>2 DEF Sound, KeepsTimeIn
      <3> QED BY <3>1, <3>2
    <2> QED BY <1>1, <2>3, StepKeeps
  <1> QED BY <1>2, <1>3 DEF CheckFix

LEMMA StepRead ==
  ASSUME AllocInv, CheckRead
  PROVE  AllocInv'
  <1>1. aro' = aro /\ dbRows' = aro
    BY DEF CheckRead
  <1>2. Sound(aro) /\ \A a \in Alloc : aro[a].status \in Inside => aro[a].timeIn
    BY DEF AllocInv, Sound, RowAgrees
  <1> QED BY <1>1, <1>2 DEF AllocInv, ReadInv, Sound, RowAgrees, Row, Inside, Outside

LEMMA StepLogEnd ==
  ASSUME AllocInv, CheckLog \/ CheckEnd
  PROVE  AllocInv'
  BY DEF CheckLog, CheckEnd, AllocInv, ReadInv, Sound, RowAgrees, Row, Inside, Outside

LEMMA AllocInitInv == AllocInit => AllocInv
  BY DEF AllocInit, AllocInv, ReadInv, NotChecking, Sound, RowAgrees, Row, Inside, Outside

LEMMA AllocNextInv == AllocInv /\ [AllocNext]_allocVars => AllocInv'
  <1> SUFFICES ASSUME AllocInv, [AllocNext]_allocVars PROVE AllocInv'
    OBVIOUS
  <1>1. CASE AllocSihot
    BY <1>1, StepUnchanged DEF AllocSihot, Disturb
  <1>2. ASSUME NEW i \in 1 .. Len(net), AllocTrigger(i) PROVE AllocInv'
    BY <1>2, StepTrigger
  <1>3. ASSUME NEW i \in 1 .. Len(net), AllocLose(i) PROVE AllocInv'
    BY <1>3, StepUnchanged DEF AllocLose, Disturb
  <1>4. CASE CheckRead \/ CheckLog \/ CheckEnd
    BY <1>4, StepRead, StepLogEnd
  <1>5. CASE CheckFix
    BY <1>5, StepFix
  <1>6. CASE UNCHANGED allocVars
    BY <1>6, StepUnchanged DEF allocVars, checkVars
  <1> QED BY <1>1, <1>2, <1>3, <1>4, <1>5, <1>6 DEF AllocNext

\* A booking that T_ARO shows as checked in or out has its check-in time, and one that is
\* checked out, and no other, has its check-out time: for any allocations, any loss, order and
\* repetition of events, and any number of runs of the log checker in between.
THEOREM StatusTimesAgree == AllocSpec => []StatusTimes
  BY AllocInitInv, AllocNextInv, InvImpliesStatusTimes, PTL DEF AllocSpec

-----------------------------------------------------------------------------
(***************************************************************************)
(* T_ARO shows the guests where Sihot has them.                            *)
(***************************************************************************)

\* With its booking number a notification finds the one row that it is about.
LEMMA OneRowFound ==
    ASSUME NEW table, NEW e, NEW x \in Alloc, NEW statuses, e.gds, Gds[x] = Gds[e.new]
    PROVE  \A b : b \in RowsOf(table, e, x, statuses) <=> b = x /\ table[b].status \in statuses
  BY EventsAssumption DEF RowsOf

\* Its old row is left, its new row is entered, and no other row is touched.
LEMMA LeftStatus ==
    ASSUME NEW e, e.gds, e.new \in Alloc, OldAlloc(e) \in Alloc, Gds[OldAlloc(e)] = Gds[e.new],
           Sound(aro), NEW b \in Alloc
    PROVE  /\ e.oc = "CI" \/ b # OldAlloc(e) \/ aro[b].status \notin Inside => Left(e)[b] = aro[b]
           /\ aro[b].status \in Inside => Left(e)[b].status \in Inside \cup Outside
           /\ /\ e.oc # "CI" /\ b = OldAlloc(e) /\ aro[b].status \in Inside
              /\ today \in Depart[b] - MaxDaysDiff .. Depart[b]
              => Left(e)[b].status \in Outside
<1>1. \A c : c \in LeaveRows(e) <=> /\ c = OldAlloc(e) /\ aro[c].status \in Inside
                                    /\ today \in Depart[c] - MaxDaysDiff .. Depart[c]
  <2>1. \A c : c \in RowsOf(aro, e, OldAlloc(e), Inside)
                   <=> c = OldAlloc(e) /\ aro[c].status \in Inside
    BY OneRowFound
  <2> QED BY <2>1 DEF LeaveRows
<1>2. aro[b] \in Row
  BY DEF Sound
<1>3. CASE e.oc = "CI"
  BY <1>3 DEF Left
<1>4. CASE e.oc # "CI" /\ b \notin LeaveRows(e)
  <2>1. Left(e)[b] = aro[b]
    BY <1>4 DEF Left
  <2> QED BY <1>1, <1>4, <2>1
<1>5. CASE e.oc # "CI" /\ b \in LeaveRows(e)
  <2> DEFINE st == IF e.oc = "RM" THEN 320 ELSE 390
  <2>1. Left(e)[b] = [aro[b] EXCEPT !.timeOut = TRUE, !.status = st]
    BY <1>5 DEF Left
  <2>2. st \in Outside
    BY DEF Outside
  <2>3. Left(e)[b].status \in Outside
    BY <1>2, <2>1, <2>2 DEF Row
  <2> QED BY <1>1, <1>5, <2>3
<1> QED BY <1>3, <1>4, <1>5

LEMMA EnteredStatus ==
    ASSUME NEW e, e.gds, e.new \in Alloc, NEW table, Sound(table), NEW b \in Alloc,
           NEW q, q = Entered(table, e)[b]
    PROVE  /\ e.oc = "CO" \/ b # e.new => q = table[b]
           /\ e.oc # "CO" /\ b = e.new =>
                 /\ table[b].status = 190 /\ today \in Arrive[b] .. Arrive[b] + MaxDaysDiff
                       => q.status \in Inside
                 /\ table[b].status \in Outside /\ today \in Arrive[b] .. Depart[b]
                       => q.status \in Inside
                 /\ table[b].status # 190 => q.status # 190
                 /\ q.status \in Outside => table[b].status \in Outside
                 /\ table[b].status \in Inside => q.status \in Inside
<1> DEFINE st == InStatus(e)
<1>1. /\ \A c : c \in ArriveRows(table, e) <=>
                 /\ c = e.new /\ table[c].status = 190
                 /\ today \in Arrive[c] .. Arrive[c] + MaxDaysDiff
      /\ \A c : c \in ReturnRows(table, e) <=>
                 /\ c = e.new /\ table[c].status \in Outside
                 /\ today \in Arrive[c] .. Depart[c]
  <2>0. ASSUME NEW statuses
        PROVE  \A c : c \in RowsOf(table, e, e.new, statuses) <=>
                         c = e.new /\ table[c].status \in statuses
    BY OneRowFound
  <2>1. /\ \A c : c \in RowsOf(table, e, e.new, {190}) <=> c = e.new /\ table[c].status \in {190}
        /\ \A c : c \in RowsOf(table, e, e.new, Outside) <=> c = e.new /\ table[c].status \in Outside
    BY <2>0
  <2>2. \A c : c \in ArriveRows(table, e) <=>
                 /\ c \in RowsOf(table, e, e.new, {190})
                 /\ today \in Arrive[c] .. Arrive[c] + MaxDaysDiff
    BY DEF ArriveRows
  <2>3. \A c : c \in ReturnRows(table, e) <=>
                 /\ c \in RowsOf(table, e, e.new, Outside)
                 /\ today \in Arrive[c] .. Depart[c]
    BY DEF ReturnRows
  <2> QED BY <2>1, <2>2, <2>3
<1>2. table[b] \in Row /\ st \in Inside
  BY DEF Sound, InStatus, Inside
<1>3. Inside \cap Outside = {} /\ 190 \notin Inside /\ 190 \notin Outside
  BY DEF Inside, Outside
<1>4. CASE e.oc = "CO"
  BY <1>4 DEF Entered
<1>5. CASE e.oc # "CO" /\ b \in ArriveRows(table, e)
  <2>1. q = [table[b] EXCEPT !.timeIn = TRUE, !.status = st]
    BY <1>5 DEF Entered
  <2>2. q.status \in Inside
    BY <1>2, <2>1 DEF Row
  <2> QED BY <1>1, <1>3, <1>5, <2>2
<1>6. CASE e.oc # "CO" /\ ArriveRows(table, e) = {} /\ b \in ReturnRows(table, e)
  <2>1. q = [table[b] EXCEPT !.timeOut = FALSE, !.status = st]
    BY <1>6 DEF Entered
  <2>2. q.status \in Inside
    BY <1>2, <2>1 DEF Row
  <2> QED BY <1>1, <1>3, <1>6, <2>2
<1>7. CASE /\ e.oc # "CO" /\ b \notin ArriveRows(table, e)
           /\ ArriveRows(table, e) # {} \/ b \notin ReturnRows(table, e)
  <2>1. q = table[b]
    BY <1>7 DEF Entered
  <2>2. b # e.new \/ b \notin ReturnRows(table, e)
    BY <1>1, <1>7
  <2> QED BY <1>1, <1>3, <1>7, <2>1, <2>2
<1> QED BY <1>4, <1>5, <1>6, <1>7

\* The two together.
LEMMA StepStatus ==
    ASSUME NEW e, e.gds, e.oc \in {"CI", "CO", "RM"}, e.new \in Alloc, OldAlloc(e) \in Alloc,
           e.oc = "RM" => OldAlloc(e) # e.new, Gds[OldAlloc(e)] = Gds[e.new],
           Sound(aro), NEW b \in Alloc, NEW q, q = Entered(Left(e), e)[b]
    PROVE  /\ b # OldAlloc(e) /\ b # e.new => q = aro[b]
           /\ e.oc # "CI" /\ b = OldAlloc(e) =>
                 /\ aro[b].status \in Inside /\ today \in Depart[b] - MaxDaysDiff .. Depart[b]
                       => q.status \in Outside
                 /\ aro[b].status \in Outside => q.status \in Outside
                 /\ aro[b].status = 190 <=> q.status = 190
           /\ e.oc # "CO" /\ b = e.new =>
                 /\ aro[b].status = 190 /\ today \in Arrive[b] .. Arrive[b] + MaxDaysDiff
                       => q.status \in Inside
                 /\ aro[b].status \in Outside /\ today \in Arrive[b] .. Depart[b]
                       => q.status \in Inside
                 /\ aro[b].status # 190 => q.status # 190
                 /\ q.status \in Outside => aro[b].status \in Outside
                 /\ aro[b].status \in Inside => q.status \in Inside
<1>1. Sound(Left(e))
  BY LeftSound
<1>2. /\ e.oc = "CI" \/ b # OldAlloc(e) \/ aro[b].status \notin Inside => Left(e)[b] = aro[b]
      /\ aro[b].status \in Inside => Left(e)[b].status \in Inside \cup Outside
      /\ /\ e.oc # "CI" /\ b = OldAlloc(e) /\ aro[b].status \in Inside
         /\ today \in Depart[b] - MaxDaysDiff .. Depart[b]
         => Left(e)[b].status \in Outside
  BY LeftStatus
<1>3. /\ e.oc = "CO" \/ b # e.new => q = Left(e)[b]
      /\ e.oc # "CO" /\ b = e.new =>
            /\ Left(e)[b].status = 190 /\ today \in Arrive[b] .. Arrive[b] + MaxDaysDiff
                  => q.status \in Inside
            /\ Left(e)[b].status \in Outside /\ today \in Arrive[b] .. Depart[b]
                  => q.status \in Inside
            /\ Left(e)[b].status # 190 => q.status # 190
            /\ q.status \in Outside => Left(e)[b].status \in Outside
            /\ Left(e)[b].status \in Inside => q.status \in Inside
  BY <1>1, EnteredStatus
<1>4. Inside \cap Outside = {} /\ 190 \notin Inside /\ 190 \notin Outside
  BY DEF Inside, Outside
<1>5. e.oc = "CI" => OldAlloc(e) = e.new
  BY DEF OldAlloc
<1>6. CASE b # OldAlloc(e)
  BY <1>2, <1>3, <1>5, <1>6
<1>7. CASE b = OldAlloc(e) /\ e.oc # "CI"
  <2>1. q = Left(e)[b] /\ (e.oc # "CO" => b # e.new)
    BY <1>3, <1>7
  <2> QED BY <1>2, <1>4, <1>7, <2>1
<1>8. CASE b = OldAlloc(e) /\ e.oc = "CI"
  BY <1>2, <1>3, <1>5, <1>8
<1> QED BY <1>6, <1>7, <1>8

\* Who is in an allocation has entered it; who leaves it has entered it before.
LEMMA AtWasEntered ==
    ASSUME NEW l, NEW n \in Nat, NEW a \in Alloc, IsAt(l, Gds[a], n, a)
    PROVE  EnteredBy(l, a, n)
<1>1. a # NoAlloc
  BY EventsAssumption
<1>2. PICK i \in 1 .. n : a = After(l[i])
  BY <1>1 DEF IsAt
<1>3. l[i].oc # "CO" /\ l[i].new = a
  BY <1>1, <1>2 DEF After
<1> QED BY <1>3 DEF EnteredBy

LEMMA LeftWasEntered ==
    ASSUME EventTypes, LogIsStory, NEW n \in 1 .. Len(log), log[n].oc # "CI"
    PROVE  EnteredBy(log, OldAlloc(log[n]), n - 1)
<1> DEFINE e == log[n]
<1>1. /\ e.oc \in {"CI", "CO", "RM"} /\ e.new \in Alloc
      /\ e.oc = "RM" => e.old \in Alloc /\ Gds[e.old] = Gds[e.new]
      /\ Len(log) \in Nat
  BY LogTypes
<1>2. IsAt(log, Gds[e.new], n - 1, Before(e))
  BY DEF LogIsStory
<1>3. Before(e) = OldAlloc(e) /\ OldAlloc(e) \in Alloc /\ Gds[OldAlloc(e)] = Gds[e.new]
  BY <1>1 DEF Before, OldAlloc
<1>4. n - 1 \in Nat
  BY <1>1
<1> HIDE DEF e
<1>5. IsAt(log, Gds[OldAlloc(e)], n - 1, OldAlloc(e))
  BY <1>2, <1>3
<1>6. EnteredBy(log, OldAlloc(e), n - 1)
  BY <1>3, <1>4, <1>5, AtWasEntered
<1> QED BY <1>6 DEF e

\* What has happened by an event has happened by each later one.
LEMMA LaterStill ==
    ASSUME NEW l, NEW a, NEW m \in Int, NEW n \in Int, m <= n
    PROVE  /\ EnteredBy(l, a, m) => EnteredBy(l, a, n)
           /\ LeftBy(l, a, m) => LeftBy(l, a, n)
<1>1. \A i \in 1 .. m : i \in 1 .. n
  OBVIOUS
<1> QED BY <1>1 DEF EnteredBy, LeftBy

LEMMA LeftMeansEntered ==
    ASSUME EventTypes, LogIsStory, NEW a, LeftBy(log, a, Len(log))
    PROVE  EnteredBy(log, a, Len(log))
<1>1. PICK i \in 1 .. Len(log) : log[i].oc # "CI" /\ OldAlloc(log[i]) = a
  BY DEF LeftBy
<1>2. EnteredBy(log, a, i - 1)
  BY <1>1, LeftWasEntered
<1>3. i - 1 \in Int /\ Len(log) \in Int /\ i - 1 <= Len(log)
  BY LogTypes
<1> QED BY <1>2, <1>3, LaterStill

\* An event more, or the same ones in a longer log.
LEMMA HappenedNext ==
    ASSUME NEW l, NEW a, NEW n \in Nat
    PROVE  /\ EnteredBy(l, a, n + 1) <=> \/ EnteredBy(l, a, n)
                                         \/ l[n + 1].oc # "CO" /\ l[n + 1].new = a
           /\ LeftBy(l, a, n + 1) <=> \/ LeftBy(l, a, n)
                                      \/ l[n + 1].oc # "CI" /\ OldAlloc(l[n + 1]) = a
<1>1. \A i : i \in 1 .. n + 1 <=> i \in 1 .. n \/ i = n + 1
  OBVIOUS
<1> QED BY <1>1 DEF EnteredBy, LeftBy

LEMMA HappenedFrame ==
    ASSUME NEW l, NEW m, NEW n \in Int, \A i \in 1 .. n : m[i] = l[i], NEW a
    PROVE  /\ EnteredBy(m, a, n) <=> EnteredBy(l, a, n)
           /\ LeftBy(m, a, n) <=> LeftBy(l, a, n)
BY DEF EnteredBy, LeftBy

\* The checker finds no other row than that of the event, and finds it if it is near.
LEMMA MatchesOwn ==
    ASSUME EventTypes, LogIsDated, Distinct, NEW c \in Changes,
           NEW e, e = log[c[1]], NEW a, a = AllocOf(e, c[2]),
           NEW rows, rows = Matching(OpCode(e, c[2]), a, e)
    PROVE  /\ Cardinality(rows) = 1 => rows = {a}
           /\ Located => rows = {a} /\ Cardinality(rows) = 1
<1> DEFINE near == NearRows(OpCode(e, c[2]), a, e, CheckDaysDiff)
           around == RowsAround(a, e)
<1>1. NearTo(c) = near
  BY DEF NearTo
<1>2. near \subseteq {a}
  BY <1>1 DEF Distinct
<1>3. c[1] \in 1 .. Len(log) /\ c[2] \in BOOLEAN /\ HasChange(e, c[2])
  BY DEF Changes
<1>4. near = {} \/ near = {a}
  BY <1>2
<1>5. Cardinality({}) = 0 /\ Cardinality({a}) = 1
  BY FS_EmptySet, FS_Singleton
<1>6. Cardinality(near) \in {0, 1}
  BY <1>4, <1>5
<1>7. Going(OpCode(e, c[2])) <=> c[2]
  BY <1>3 DEF Going, OpCode
<1>8. rows = IF near = {} /\ ~c[2] THEN around ELSE near
  <2>1. rows = IF Cardinality(near) > 1 THEN Narrowed(OpCode(e, c[2]), a, e)
               ELSE IF near = {} /\ ~Going(OpCode(e, c[2])) THEN around ELSE near
    BY DEF Matching
  <2>2. ~(Cardinality(near) > 1)
    BY <1>6
  <2> HIDE DEF near, around
  <2> QED BY <2>1, <2>2, <1>7
<1>9. near = {} /\ ~c[2] => \A b \in Alloc : around = {b} => b = a
  BY <1>1 DEF Distinct
<1>10. Located => near # {} \/ (~c[2] /\ around = {a})
  <2>1. SUFFICES ASSUME Located, near = {} PROVE ~c[2] /\ around = {a}
    OBVIOUS
  <2>2. ~c[2] /\ RowsAround(e.new, e) = {e.new}
    BY <1>1, <2>1 DEF Located
  <2>3. a = e.new
    BY <1>3, <2>2 DEF AllocOf, HasChange
  <2> QED BY <2>2, <2>3
<1> HIDE DEF near, around
<1>11. CASE near = {a}
  BY <1>4, <1>5, <1>8, <1>11
<1>12. CASE near = {} /\ c[2]
  <2>1. rows = {} /\ ~Located
    BY <1>8, <1>10, <1>12
  <2>2. Cardinality(rows) = 0
    BY <1>5, <2>1
  <2> QED BY <2>1, <2>2
<1>13. CASE near = {} /\ ~c[2]
  <2>1. rows = around /\ \A b \in Alloc : around = {b} => b = a
    BY <1>8, <1>9, <1>13
  <2>2. ASSUME Cardinality(rows) = 1 PROVE rows = {a}
    <3>1. rows \subseteq Alloc
      BY <2>1 DEF around, RowsAround
    <3>2. IsFiniteSet(rows)
      BY <3>1, EventsAssumption, FS_Subset
    <3>3. \E x : rows = {x}
      BY <2>2, <3>2, FS_Singleton
    <3> QED BY <2>1, <3>1, <3>3
  <2> QED BY <1>5, <1>10, <1>13, <2>1, <2>2
<1> QED BY <1>4, <1>11, <1>12, <1>13

\* Sihot only appends to the log.
LEMMA LogGrows ==
    ASSUME EventTypes, SihotStep
    PROVE  /\ Len(log) \in Nat /\ Len(log') \in Nat /\ Len(log') >= Len(log)
           /\ \A n \in 1 .. Len(log) : log'[n] = log[n]
<1>0. Len(log) \in Nat
  BY LogTypes
<1>1. ASSUME NEW a \in Alloc, CheckIn(a) \/ CheckOut(a)
      PROVE  Emit("CI", NoAlloc, a) \/ Emit("CO", NoAlloc, a)
  BY <1>1 DEF CheckIn, CheckOut
<1>2. ASSUME NEW a \in Alloc, NEW b \in Alloc, Move(a, b)
      PROVE  Emit("RM", a, b) /\ Gds[a] = Gds[b] /\ a # b
  BY <1>2 DEF Move
<1>3. CASE NextDay
  <2>1. log' = log
    BY <1>3 DEF NextDay
  <2> QED BY <1>0, <2>1
<1>4. ASSUME NEW a \in Alloc, Emit("CI", NoAlloc, a) \/ Emit("CO", NoAlloc, a)
      PROVE  Len(log') = Len(log) + 1 /\ \A n \in 1 .. Len(log) : log'[n] = log[n]
  <2>1. "CI" # "RM" /\ "CO" # "RM" /\ NoAlloc \in Alloc \cup {NoAlloc}
    OBVIOUS
  <2> QED BY <1>4, <2>1, Emitted
<1>5. ASSUME NEW a \in Alloc, NEW b \in Alloc, Emit("RM", a, b), Gds[a] = Gds[b], a # b
      PROVE  Len(log') = Len(log) + 1 /\ \A n \in 1 .. Len(log) : log'[n] = log[n]
  <2>1. a \in Alloc \cup {NoAlloc}
    OBVIOUS
  <2> QED BY <1>5, <2>1, Emitted
<1>6. CASE Len(log') = Len(log) + 1 /\ \A n \in 1 .. Len(log) : log'[n] = log[n]
  BY <1>0, <1>6
<1> QED BY <1>1, <1>2, <1>3, <1>4, <1>5, <1>6 DEF SihotStep

\* Events that are not near to another allocation do not become so.
LEMMA DistinctBefore ==
    ASSUME Len(log) \in Nat, Len(log') \in Nat, Len(log') >= Len(log),
           \A n \in 1 .. Len(log) : log'[n] = log[n], Distinct'
    PROVE  Distinct
<1> SUFFICES ASSUME NEW c \in Changes
             PROVE  /\ NearTo(c) \subseteq {AllocOf(log[c[1]], c[2])}
                    /\ NearTo(c) = {} /\ ~c[2] =>
                          \A b \in Alloc : RowsAround(AllocOf(log[c[1]], c[2]), log[c[1]]) = {b}
                                             => b = AllocOf(log[c[1]], c[2])
  BY DEF Distinct
<1>1. c \in (1 .. Len(log)) \X BOOLEAN /\ HasChange(log[c[1]], c[2])
  BY DEF Changes
<1>2. c[1] \in 1 .. Len(log) /\ log'[c[1]] = log[c[1]]
  BY <1>1
<1>3. c \in (1 .. Len(log')) \X BOOLEAN
  BY <1>1
<1>4. c \in Changes'
  BY <1>1, <1>2, <1>3 DEF Changes
<1>5. NearTo(c)' = NearTo(c)
  BY <1>2 DEF NearTo
<1>6. /\ NearTo(c)' \subseteq {AllocOf(log'[c[1]], c[2])}
      /\ NearTo(c)' = {} /\ ~c[2] =>
            \A b \in Alloc : RowsAround(AllocOf(log'[c[1]], c[2]), log'[c[1]]) = {b}
                               => b = AllocOf(log'[c[1]], c[2])
  BY <1>4 DEF Distinct
<1> QED BY <1>2, <1>5, <1>6

\* An event more of Sihot.
LEMMA OnceKept ==
    ASSUME EventTypes, LogIsStory, OncePerStay, NEW oc \in {"CI", "CO", "RM"},
           NEW old \in Alloc \cup {NoAlloc}, NEW new \in Alloc,
           oc = "RM" => old \in Alloc /\ old # new /\ Gds[old] = Gds[new],
           Emit(oc, old, new), oc # "CO" => stay[new] # "in",
           NEW left, left = IF oc = "RM" THEN old ELSE new,
           \A a \in Alloc : stay'[a] = IF oc # "CO" /\ a = new THEN "in"
                                       ELSE IF oc # "CI" /\ a = left THEN "out" ELSE stay[a]
    PROVE  OncePerStay'
<1> SUFFICES ASSUME "reentry" \notin spoiled'
             PROVE  /\ \A n \in 1 .. Len(log') : log'[n].oc # "CO" => ~LeftBy(log', log'[n].new, n - 1)
                    /\ \A a \in Alloc :
                          /\ stay'[a] = "due" => ~EnteredBy(log', a, Len(log'))
                          /\ stay'[a] = "in" => EnteredBy(log', a, Len(log')) /\ ~LeftBy(log', a, Len(log'))
                          /\ stay'[a] = "out" => LeftBy(log', a, Len(log'))
  BY DEF OncePerStay
<1> DEFINE N == Len(log)
<1>1. /\ Len(log') = N + 1 /\ \A n \in 1 .. N : log'[n] = log[n]
      /\ log'[N + 1].oc = oc /\ log'[N + 1].old = old /\ log'[N + 1].new = new
      /\ spoiled \subseteq spoiled'
  BY Emitted
<1>2. N \in Nat /\ stay \in [Alloc -> {"due", "in", "out"}]
  BY LogTypes DEF EventTypes
<1>3. "reentry" \notin spoiled /\ (oc # "CO" => stay[new] # "out")
  BY <1>1 DEF Emit
<1>4. /\ \A n \in 1 .. N : log[n].oc # "CO" => ~LeftBy(log, log[n].new, n - 1)
      /\ \A a \in Alloc :
            /\ stay[a] = "due" => ~EnteredBy(log, a, N)
            /\ stay[a] = "in" => EnteredBy(log, a, N) /\ ~LeftBy(log, a, N)
            /\ stay[a] = "out" => LeftBy(log, a, N)
  BY <1>3 DEF OncePerStay
<1>5. OldAlloc(log'[N + 1]) = left
  BY <1>1 DEF OldAlloc
<1> HIDE DEF N
<1>11. \A n \in Int : n <= N => \A i \in 1 .. n : log'[i] = log[i]
  BY <1>1, <1>2
<1>12. ASSUME NEW n \in Int, n <= N, NEW a
       PROVE  /\ EnteredBy(log', a, n) <=> EnteredBy(log, a, n)
              /\ LeftBy(log', a, n) <=> LeftBy(log, a, n)
  <2>1. \A i \in 1 .. n : log'[i] = log[i]
    BY <1>11, <1>12
  <2> QED BY <2>1, HappenedFrame
<1>13. N \in Int /\ N <= N
  BY <1>2
<1>6. ASSUME NEW a
      PROVE  /\ EnteredBy(log', a, N + 1) <=> EnteredBy(log, a, N) \/ (oc # "CO" /\ new = a)
             /\ LeftBy(log', a, N + 1) <=> LeftBy(log, a, N) \/ (oc # "CI" /\ left = a)
  <2>1. /\ EnteredBy(log', a, N) <=> EnteredBy(log, a, N)
        /\ LeftBy(log', a, N) <=> LeftBy(log, a, N)
    BY <1>12, <1>13
  <2>2. /\ EnteredBy(log', a, N + 1) <=> \/ EnteredBy(log', a, N)
                                         \/ log'[N + 1].oc # "CO" /\ log'[N + 1].new = a
        /\ LeftBy(log', a, N + 1) <=> \/ LeftBy(log', a, N)
                                      \/ log'[N + 1].oc # "CI" /\ OldAlloc(log'[N + 1]) = a
    BY <1>2, HappenedNext
  <2> QED BY <1>1, <1>5, <2>1, <2>2
<1>7. \A a : LeftBy(log, a, N) => EnteredBy(log, a, N)
  BY LeftMeansEntered DEF N
<1>8. oc # "CO" => stay[new] = "due" /\ ~EnteredBy(log, new, N) /\ ~LeftBy(log, new, N)
  BY <1>2, <1>3, <1>4, <1>7
<1>9. ASSUME NEW n \in 1 .. N + 1, log'[n].oc # "CO"
      PROVE  ~LeftBy(log', log'[n].new, n - 1)
  <2>1. CASE n = N + 1
    <3>1. oc # "CO" /\ log'[n].new = new /\ n - 1 = N
      BY <1>1, <1>2, <1>9, <2>1
    <3>2. LeftBy(log', new, N) <=> LeftBy(log, new, N)
      BY <1>12, <1>13
    <3> QED BY <1>8, <3>1, <3>2
  <2>2. CASE n # N + 1
    <3>0. n \in 1 .. N
      BY <1>2, <2>2
    <3>1. n - 1 \in Int /\ n - 1 <= N /\ log'[n] = log[n]
      BY <1>1, <1>2, <3>0
    <3>2. ~LeftBy(log, log[n].new, n - 1)
      BY <1>4, <1>9, <3>0, <3>1
    <3>3. LeftBy(log', log[n].new, n - 1) <=> LeftBy(log, log[n].new, n - 1)
      BY <1>12, <3>1
    <3> QED BY <3>1, <3>2, <3>3
  <2> QED BY <2>1, <2>2
<1>10. ASSUME NEW a \in Alloc
       PROVE  /\ stay'[a] = "due" => ~EnteredBy(log', a, N + 1)
              /\ stay'[a] = "in" => EnteredBy(log', a, N + 1) /\ ~LeftBy(log', a, N + 1)
              /\ stay'[a] = "out" => LeftBy(log', a, N + 1)
  <2>1. CASE oc # "CO" /\ a = new
    <3>1. stay'[a] = "in"
      BY <2>1
    <3>2. oc # "CI" => left # a
      BY <2>1
    <3> QED BY <1>6, <1>8, <2>1, <3>1, <3>2
  <2>2. CASE ~(oc # "CO" /\ a = new) /\ oc # "CI" /\ a = left
    <3>1. stay'[a] = "out"
      BY <2>2
    <3> QED BY <1>6, <2>2, <3>1
  <2>3. CASE ~(oc # "CO" /\ a = new) /\ ~(oc # "CI" /\ a = left)
    <3>1. stay'[a] = stay[a]
      BY <2>3
    <3> QED BY <1>4, <1>6, <2>3, <3>1
  <2> QED BY <2>1, <2>2, <2>3
<1> QED BY <1>1, <1>9, <1>10 DEF N

LEMMA SihotOnce ==
    ASSUME EventTypes, LogIsStory, OncePerStay, SihotStep
    PROVE  OncePerStay'
<1>0. stay \in [Alloc -> {"due", "in", "out"}]
  BY DEF EventTypes
<1>1. ASSUME NEW a \in Alloc, CheckIn(a)
      PROVE  OncePerStay'
  <2>1. stay[a] # "in" /\ Emit("CI", NoAlloc, a)
    BY <1>1 DEF CheckIn, CanEnter
  <2>2. \A b \in Alloc : stay'[b] = IF b = a THEN "in" ELSE stay[b]
    BY <1>0, <1>1 DEF CheckIn
  <2>3. \A b \in Alloc : stay'[b] = IF "CI" # "CO" /\ b = a THEN "in"
                                    ELSE IF "CI" # "CI" /\ b = a THEN "out" ELSE stay[b]
    BY <2>2
  <2>4. a = IF "CI" = "RM" THEN NoAlloc ELSE a
    OBVIOUS
  <2> QED BY <2>1, <2>3, <2>4, OnceKept
<1>2. ASSUME NEW a \in Alloc, CheckOut(a)
      PROVE  OncePerStay'
  <2>1. Emit("CO", NoAlloc, a)
    BY <1>2 DEF CheckOut
  <2>2. \A b \in Alloc : stay'[b] = IF b = a THEN "out" ELSE stay[b]
    BY <1>0, <1>2 DEF CheckOut
  <2>3. \A b \in Alloc : stay'[b] = IF "CO" # "CO" /\ b = a THEN "in"
                                    ELSE IF "CO" # "CI" /\ b = a THEN "out" ELSE stay[b]
    BY <2>2
  <2>4. a = IF "CO" = "RM" THEN NoAlloc ELSE a
    OBVIOUS
  <2> QED BY <2>1, <2>3, <2>4, OnceKept
<1>3. ASSUME NEW a \in Alloc, NEW b \in Alloc, Move(a, b)
      PROVE  OncePerStay'
  <2>1. stay[b] # "in" /\ Emit("RM", a, b) /\ Gds[a] = Gds[b] /\ a # b
    BY <1>3 DEF Move, CanEnter
  <2>2. \A c \in Alloc : stay'[c] = IF c = b THEN "in" ELSE IF c = a THEN "out" ELSE stay[c]
    BY <1>0, <1>3 DEF Move
  <2>3. \A c \in Alloc : stay'[c] = IF "RM" # "CO" /\ c = b THEN "in"
                                    ELSE IF "RM" # "CI" /\ c = a THEN "out" ELSE stay[c]
    BY <2>2
  <2>4. a = IF "RM" = "RM" THEN a ELSE b
    OBVIOUS
  <2> QED BY <2>1, <2>3, <2>4, OnceKept
<1>4. CASE NextDay
  BY <1>4 DEF NextDay, OncePerStay
<1> QED BY <1>1, <1>2, <1>3, <1>4 DEF SihotStep

\* The event of a notification has what StepStatus asks for.
LEMMA Notified ==
    ASSUME EventTypes, LogIsDated, "noGds" \notin spoiled, NEW i \in 1 .. Len(net),
           NEW e, e = log[net[i]]
    PROVE  /\ e.gds /\ e.oc \in {"CI", "CO", "RM"} /\ e.new \in Alloc /\ OldAlloc(e) \in Alloc
           /\ e.oc = "RM" => OldAlloc(e) # e.new
           /\ Gds[OldAlloc(e)] = Gds[e.new]
           /\ net[i] \in 1 .. Len(log)
           /\ e.oc # "CO" => today \in Arrive[e.new] .. Depart[e.new]
<1>1. net[i] \in 1 .. Len(log) /\ Len(log) \in Nat
  BY LogTypes DEF EventTypes
<1>2. /\ e.oc \in {"CI", "CO", "RM"} /\ e.new \in Alloc
      /\ e.oc = "RM" => e.old \in Alloc /\ e.old # e.new /\ Gds[e.old] = Gds[e.new]
  BY <1>1, LogTypes
<1>3. e.day = today /\ e.gds /\ (e.oc # "CO" => e.day \in Arrive[e.new] .. Depart[e.new])
  BY <1>1 DEF LogIsDated
<1> QED BY <1>1, <1>2, <1>3 DEF OldAlloc

\* Sihot goes on: T_ARO does not, and a run of the log checker is disturbed.
LEMMA SihotFollows ==
    ASSUME AllocFollows, AllocSihot
    PROVE  AllocFollows'
<1>1. /\ EventTypes /\ LogIsStory /\ LogIsDated /\ FollowsLog /\ OncePerStay
      /\ NotBehind /\ NotAhead /\ OnlyFixed /\ SihotStep
      /\ calm' = FALSE /\ UNCHANGED <<phase, runs, dbRows, roomStatus, fixed, aro>>
  BY DEF AllocFollows, AllocSihot, Disturb
<1>2. EventTypes' /\ LogIsStory' /\ LogIsDated' /\ OncePerStay'
  BY <1>1, SihotTells, SihotDated, SihotOnce
<1>3. receiver' = "AcuServer"
  BY DEF AllocFollows, AllocSihot, SihotStep, CheckIn, CheckOut, Move, NextDay, Emit
<1>4. /\ Len(log) \in Nat /\ Len(log') \in Nat /\ Len(log') >= Len(log)
      /\ \A n \in 1 .. Len(log) : log'[n] = log[n]
  BY <1>1, LogGrows
<1>5. spoiled \subseteq spoiled'
  <2>1. ASSUME NEW oc, NEW old, NEW new, Emit(oc, old, new) PROVE spoiled \subseteq spoiled'
    BY <2>1 DEF Emit
  <2> QED BY <1>1, <2>1 DEF SihotStep, CheckIn, CheckOut, Move, NextDay
<1>6. NetInOrder => /\ NetInOrder' /\ Processed' = Processed
                    /\ \A g, x : IsAt(log', g, Processed, x) <=> IsAt(log, g, Processed, x)
                    /\ Processed \in Int /\ Processed <= Len(log)
  BY <1>1, <1>4, SihotInOrder, LogTypes DEF Processed, NetInOrder
<1>7. FollowsLog'
  <2>1. runs' \in Nat /\ (runs' = 0 => phase' = "off")
    BY <1>1 DEF FollowsLog
  <2>2. ASSUME runs' = 0, spoiled' \subseteq {"reentry"}
        PROVE  NetInOrder' /\ \A a \in Alloc : InHouse(a)' <=> IsAt(log', Gds[a], Processed', a)
    <3>1. NetInOrder /\ \A a \in Alloc : InHouse(a) <=> IsAt(log, Gds[a], Processed, a)
      BY <1>1, <1>5, <2>2 DEF FollowsLog
    <3>2. \A a : InHouse(a)' <=> InHouse(a)
      BY <1>1 DEF InHouse
    <3> QED BY <1>6, <3>1, <3>2
  <2> QED BY <2>1, <2>2 DEF FollowsLog
<1>8. NotBehind'
  <2>1. SUFFICES ASSUME spoiled' = {}
        PROVE  /\ NetInOrder'
               /\ \A a \in Alloc : /\ EnteredBy(log', a, Processed') => aro'[a].status # 190
                                   /\ LeftBy(log', a, Processed') => aro'[a].status \in Outside
    BY DEF NotBehind
  <2>2. /\ NetInOrder
        /\ \A a \in Alloc : /\ EnteredBy(log, a, Processed) => aro[a].status # 190
                            /\ LeftBy(log, a, Processed) => aro[a].status \in Outside
    BY <1>1, <1>5, <2>1 DEF NotBehind
  <2>3. \A i \in 1 .. Processed : log'[i] = log[i]
    BY <1>4, <1>6, <2>2
  <2>4. \A a : /\ EnteredBy(log', a, Processed) <=> EnteredBy(log, a, Processed)
               /\ LeftBy(log', a, Processed) <=> LeftBy(log, a, Processed)
    BY <1>6, <2>2, <2>3, HappenedFrame
  <2> QED BY <1>1, <1>6, <2>2, <2>4
<1>9. NotAhead'
  <2>1. SUFFICES ASSUME spoiled' \subseteq {"lost", "reordered", "outside"}, Distinct', NEW a \in Alloc
        PROVE  /\ aro'[a].status # 190 => EnteredBy(log', a, Len(log'))
               /\ aro'[a].status \in Outside => LeftBy(log', a, Len(log'))
    BY DEF NotAhead
  <2>2. Distinct
    BY <1>4, <2>1, DistinctBefore
  <2>3. /\ aro[a].status # 190 => EnteredBy(log, a, Len(log))
        /\ aro[a].status \in Outside => LeftBy(log, a, Len(log))
    BY <1>1, <1>5, <2>1, <2>2 DEF NotAhead
  <2>4. /\ EnteredBy(log', a, Len(log)) <=> EnteredBy(log, a, Len(log))
        /\ LeftBy(log', a, Len(log)) <=> LeftBy(log, a, Len(log))
    <3>1. Len(log) \in Int
      BY <1>4
    <3> QED BY <1>4, <3>1, HappenedFrame
  <2>5. /\ EnteredBy(log', a, Len(log)) => EnteredBy(log', a, Len(log'))
        /\ LeftBy(log', a, Len(log)) => LeftBy(log', a, Len(log'))
    <3>1. Len(log) \in Int /\ Len(log') \in Int /\ Len(log) <= Len(log')
      BY <1>4
    <3> QED BY <3>1, LaterStill
  <2> QED BY <1>1, <2>3, <2>4, <2>5
<1>10. OnlyFixed'
  BY <1>1, <1>4 DEF OnlyFixed
<1>11. LastDecides'
  BY <1>1 DEF LastDecides
<1> QED BY <1>2, <1>3, <1>7, <1>8, <1>9, <1>10, <1>11 DEF AllocFollows

\* A lost notification spoils what is said of T_ARO.
LEMMA LoseFollows ==
    ASSUME AllocFollows, NEW i \in 1 .. Len(net), AllocLose(i)
    PROVE  AllocFollows'
<1>1. /\ EventTypes /\ LogIsStory /\ LogIsDated /\ FollowsLog /\ OncePerStay
      /\ NotBehind /\ NotAhead /\ OnlyFixed /\ Take(i) /\ Fault("lost")
      /\ calm' = FALSE
      /\ UNCHANGED <<phase, runs, dbRows, roomStatus, fixed, aro, receiver, stay, today, log>>
      /\ spoiled \subseteq spoiled' /\ "lost" \in spoiled'
  BY DEF AllocFollows, AllocLose, Lose, Disturb
<1>2. EventTypes' /\ LogIsStory' /\ LogIsDated'
  BY <1>1, Faulty, TakenTypes, StoryKept, TakenDated
<1>3. FollowsLog' /\ OncePerStay' /\ NotBehind' /\ OnlyFixed' /\ LastDecides'
  BY <1>1 DEF FollowsLog, OncePerStay, NotBehind, OnlyFixed, LastDecides
<1>4. NotAhead'
  <2>1. Distinct' <=> Distinct
    BY <1>1 DEF Distinct, Changes, NearTo
  <2> QED BY <1>1, <2>1 DEF NotAhead
<1> QED BY <1>1, <1>2, <1>3, <1>4 DEF AllocFollows

\* What a processed notification does to T_ARO.
LEMMA TriggerCases ==
    ASSUME EventTypes, LogIsDated, NEW i \in 1 .. Len(net), AllocTrigger(i), Sound(aro)
    PROVE  /\ Take(i) /\ faults' \in Nat /\ spoiled \subseteq spoiled'
           /\ UNCHANGED <<receiver, stay, today, log, phase, runs, dbRows, roomStatus, fixed>>
           /\ calm' = FALSE
           /\ aro' = aro \/ aro' = Entered(Left(log[net[i]]), log[net[i]])
           /\ {"lost", "reordered", "outside"} \cap spoiled' = {} =>
                 /\ i = 1 /\ aro' = Entered(Left(log[net[i]]), log[net[i]])
                 /\ ~OutsideDays(log[net[i]])
<1>1. /\ Take(i) /\ spoiled \subseteq spoiled'
      /\ UNCHANGED <<receiver, stay, today, log, phase, runs, dbRows, roomStatus, fixed>>
      /\ calm' = FALSE
  BY DEF AllocTrigger, Disturb
<1>2. \/ /\ aro' = Entered(Left(log[net[i]]), log[net[i]]) /\ Ordered(i)
         /\ spoiled' = spoiled \cup Marks(i)
      \/ Fault("refused") /\ "lost" \in spoiled' /\ aro' = aro
  BY DEF AllocTrigger
<1>3. faults' \in Nat
  BY <1>2, Faulty
<1>4. /\ i # 1 => "reordered" \in Marks(i)
      /\ OutsideDays(log[net[i]]) => "outside" \in Marks(i)
  BY DEF Marks, OrderMark
<1>5. ASSUME {"lost", "reordered", "outside"} \cap spoiled' = {}
      PROVE  /\ i = 1 /\ aro' = Entered(Left(log[net[i]]), log[net[i]])
             /\ ~OutsideDays(log[net[i]])
  <2>1. "lost" \notin spoiled' /\ "reordered" \notin spoiled' /\ "outside" \notin spoiled'
    BY <1>5
  <2> QED BY <1>2, <1>4, <2>1
<1> QED BY <1>1, <1>2, <1>3, <1>5

\* The days on which the procedure finds the rows.
LEMMA WithinDays ==
    ASSUME NEW e, ~OutsideDays(e)
    PROVE  /\ e.oc # "CI" => today \in Depart[OldAlloc(e)] - MaxDaysDiff .. Depart[OldAlloc(e)]
           /\ e.oc # "CO" /\ aro[e.new].status = 190 => today \in Arrive[e.new] .. Arrive[e.new] + MaxDaysDiff
BY DEF OutsideDays

\* In order, T_ARO follows the log,
LEMMA TriggerFollowsLog ==
    ASSUME AllocFollows, Sound(aro), NEW i \in 1 .. Len(net), AllocTrigger(i)
    PROVE  FollowsLog'
<1> DEFINE e == log[net[1]]
<1>1. /\ EventTypes /\ LogIsStory /\ LogIsDated /\ FollowsLog
  BY DEF AllocFollows
<1>2. /\ Take(i) /\ UNCHANGED <<receiver, stay, today, log, phase, runs>>
      /\ spoiled \subseteq spoiled'
      /\ {"lost", "reordered", "outside"} \cap spoiled' = {} =>
            /\ i = 1 /\ aro' = Entered(Left(log[net[i]]), log[net[i]])
            /\ ~OutsideDays(log[net[i]])
  BY <1>1, TriggerCases
<1>3. runs' \in Nat /\ (runs' = 0 => phase' = "off")
  BY <1>1, <1>2 DEF FollowsLog
<1>4. SUFFICES ASSUME runs' = 0, spoiled' \subseteq {"reentry"}
      PROVE  NetInOrder' /\ \A a \in Alloc : InHouse(a)' <=> IsAt(log', Gds[a], Processed', a)
  BY <1>3 DEF FollowsLog
<1>5. /\ NetInOrder /\ "noGds" \notin spoiled
      /\ \A a \in Alloc : aro[a].status \in Inside <=> IsAt(log, Gds[a], Processed, a)
  BY <1>1, <1>2, <1>4 DEF FollowsLog, InHouse
<1>6. i = 1 /\ aro' = Entered(Left(e), e) /\ ~OutsideDays(e) /\ Take(1)
  BY <1>2, <1>4
<1>7. /\ e.gds /\ e.oc \in {"CI", "CO", "RM"} /\ e.new \in Alloc /\ OldAlloc(e) \in Alloc
      /\ e.oc = "RM" => OldAlloc(e) # e.new
      /\ Gds[OldAlloc(e)] = Gds[e.new]
      /\ e.oc # "CO" => today \in Arrive[e.new] .. Depart[e.new]
  BY <1>1, <1>5, <1>6, Notified
<1>8. /\ NetInOrder'
      /\ IsAt(log, Gds[e.new], Processed, Before(e))
      /\ \A g, x :
            /\ Gds[e.new] # g => (IsAt(log, g, Processed', x) <=> IsAt(log, g, Processed, x))
            /\ Gds[e.new] = g => (IsAt(log, g, Processed', x) <=> x = After(e))
      /\ Processed \in Nat
  BY <1>1, <1>2, <1>5, <1>6, NextEvent
<1>9. /\ e.oc # "CI" => today \in Depart[OldAlloc(e)] - MaxDaysDiff .. Depart[OldAlloc(e)]
      /\ e.oc # "CO" /\ aro[e.new].status = 190 => today \in Arrive[e.new] .. Arrive[e.new] + MaxDaysDiff
  BY <1>6, WithinDays
<1> HIDE DEF e
<1>10. ASSUME NEW b \in Alloc
       PROVE  aro'[b].status \in Inside <=> IsAt(log, Gds[b], Processed', b)
  <2> DEFINE q == Entered(Left(e), e)[b]
  <2>1. aro'[b] = q
    BY <1>6
  <2>2. /\ b # OldAlloc(e) /\ b # e.new => q = aro[b]
        /\ e.oc # "CI" /\ b = OldAlloc(e) =>
              /\ aro[b].status \in Inside /\ today \in Depart[b] - MaxDaysDiff .. Depart[b]
                    => q.status \in Outside
              /\ aro[b].status \in Outside => q.status \in Outside
              /\ aro[b].status = 190 <=> q.status = 190
        /\ e.oc # "CO" /\ b = e.new =>
              /\ aro[b].status = 190 /\ today \in Arrive[b] .. Arrive[b] + MaxDaysDiff
                    => q.status \in Inside
              /\ aro[b].status \in Outside /\ today \in Arrive[b] .. Depart[b]
                    => q.status \in Inside
              /\ aro[b].status \in Inside => q.status \in Inside
    BY <1>7, StepStatus
  <2> HIDE DEF q
  <2>3. aro[b].status \in {190} \cup Inside \cup Outside
    BY DEF Sound, Row
  <2>4. Inside \cap Outside = {} /\ 190 \notin Inside /\ 190 \notin Outside
    BY DEF Inside, Outside
  <2>5. b # NoAlloc /\ OldAlloc(e) # NoAlloc /\ e.new # NoAlloc
    BY <1>7, EventsAssumption
  <2>6. \A x : IsAt(log, Gds[e.new], Processed, x) => x = Before(e)
    BY <1>8, AtOnePlace
  <2>7. Before(e) = (IF e.oc = "CI" THEN NoAlloc ELSE OldAlloc(e))
        /\ After(e) = (IF e.oc = "CO" THEN NoAlloc ELSE e.new)
    BY DEF Before, After, OldAlloc
  <2>8. CASE Gds[b] # Gds[e.new]
    <3>1. q = aro[b]
      BY <1>7, <2>2, <2>8
    <3> QED BY <1>5, <1>8, <2>1, <2>8, <3>1
  <2>9. CASE Gds[b] = Gds[e.new] /\ e.oc # "CO" /\ b = e.new
    <3>1. IsAt(log, Gds[b], Processed', b)
      BY <1>8, <2>7, <2>9
    <3>2. q.status \in Inside
      BY <1>7, <1>9, <2>2, <2>3, <2>9
    <3> QED BY <2>1, <3>1, <3>2
  <2>10. CASE Gds[b] = Gds[e.new] /\ e.oc # "CI" /\ b = OldAlloc(e) /\ ~(e.oc # "CO" /\ b = e.new)
    <3>1. ~IsAt(log, Gds[b], Processed', b)
      BY <1>8, <2>5, <2>7, <2>10
    <3>2. IsAt(log, Gds[b], Processed, b)
      BY <1>8, <2>7, <2>10
    <3>3. q.status \in Outside
      BY <1>5, <1>9, <2>2, <2>10, <3>2
    <3> QED BY <2>1, <2>4, <3>1, <3>3
  <2>11. CASE Gds[b] = Gds[e.new] /\ ~(e.oc # "CI" /\ b = OldAlloc(e)) /\ ~(e.oc # "CO" /\ b = e.new)
    <3>1. ~IsAt(log, Gds[b], Processed', b)
      BY <1>8, <2>5, <2>7, <2>11
    <3>2. ~IsAt(log, Gds[b], Processed, b)
      BY <2>5, <2>6, <2>7, <2>11
    <3>3. b # OldAlloc(e) /\ b # e.new
      BY <1>7, <2>11 DEF OldAlloc
    <3> QED BY <1>5, <2>1, <2>2, <3>1, <3>2, <3>3
  <2> QED BY <2>8, <2>9, <2>10, <2>11
<1>11. log' = log
  BY <1>2
<1> QED BY <1>8, <1>10, <1>11 DEF InHouse

\* is not behind it,
LEMMA TriggerNotBehind ==
    ASSUME AllocFollows, Sound(aro), NEW i \in 1 .. Len(net), AllocTrigger(i)
    PROVE  NotBehind'
<1> DEFINE e == log[net[1]]
<1>1. /\ EventTypes /\ LogIsStory /\ LogIsDated /\ OncePerStay /\ NotBehind
  BY DEF AllocFollows
<1>2. /\ Take(i) /\ UNCHANGED <<receiver, stay, today, log, phase, runs>>
      /\ spoiled \subseteq spoiled'
      /\ {"lost", "reordered", "outside"} \cap spoiled' = {} =>
            /\ i = 1 /\ aro' = Entered(Left(log[net[i]]), log[net[i]])
            /\ ~OutsideDays(log[net[i]])
  BY <1>1, TriggerCases
<1>3. SUFFICES ASSUME spoiled' = {}
      PROVE  /\ NetInOrder'
             /\ \A a \in Alloc : /\ EnteredBy(log', a, Processed') => aro'[a].status # 190
                                 /\ LeftBy(log', a, Processed') => aro'[a].status \in Outside
  BY DEF NotBehind
<1>4. /\ NetInOrder /\ spoiled = {}
      /\ \A a \in Alloc : /\ EnteredBy(log, a, Processed) => aro[a].status # 190
                          /\ LeftBy(log, a, Processed) => aro[a].status \in Outside
  BY <1>1, <1>2, <1>3 DEF NotBehind
<1>5. \A n \in 1 .. Len(log) : log[n].oc # "CO" => ~LeftBy(log, log[n].new, n - 1)
  BY <1>1, <1>4 DEF OncePerStay
<1>6. i = 1 /\ aro' = Entered(Left(e), e) /\ ~OutsideDays(e) /\ Take(1)
  BY <1>2, <1>3
<1>7. /\ e.gds /\ e.oc \in {"CI", "CO", "RM"} /\ e.new \in Alloc /\ OldAlloc(e) \in Alloc
      /\ e.oc = "RM" => OldAlloc(e) # e.new
      /\ Gds[OldAlloc(e)] = Gds[e.new]
      /\ e.oc # "CO" => today \in Arrive[e.new] .. Depart[e.new]
      /\ net[1] \in 1 .. Len(log)
  BY <1>1, <1>4, <1>6, Notified
<1>8. /\ NetInOrder' /\ Processed \in Nat
      /\ net[1] = Processed + 1 /\ Processed' = Processed + 1
  <2>1. NetInOrder' /\ Processed \in Nat
    BY <1>1, <1>2, <1>4, <1>6, NextEvent
  <2>2. Len(net') = Len(net) - 1 /\ Len(net) \in Nat /\ Len(log) \in Nat
    BY <1>1, <1>6, Taken, LogTypes
  <2>3. Processed' = Processed + 1
    BY <1>2, <2>2 DEF Processed
  <2>4. net[1] = Processed + 1
    BY <1>4, <1>6 DEF NetInOrder
  <2> QED BY <2>1, <2>3, <2>4
<1>9. /\ e.oc # "CI" => today \in Depart[OldAlloc(e)] - MaxDaysDiff .. Depart[OldAlloc(e)]
      /\ e.oc # "CO" /\ aro[e.new].status = 190 => today \in Arrive[e.new] .. Arrive[e.new] + MaxDaysDiff
  BY <1>6, WithinDays
<1>10. e.oc # "CI" => EnteredBy(log, OldAlloc(e), Processed)
  <2>1. net[1] - 1 = Processed
    BY <1>8
  <2> QED BY <1>1, <1>7, <2>1, LeftWasEntered
<1>11. e.oc # "CO" => ~LeftBy(log, e.new, Processed)
  <2>1. net[1] - 1 = Processed
    BY <1>8
  <2> QED BY <1>5, <1>7, <2>1
<1>12. \A a : /\ EnteredBy(log, a, Processed') <=> EnteredBy(log, a, Processed) \/ (e.oc # "CO" /\ e.new = a)
              /\ LeftBy(log, a, Processed') <=> LeftBy(log, a, Processed) \/ (e.oc # "CI" /\ OldAlloc(e) = a)
  BY <1>8, HappenedNext
<1> HIDE DEF e
<1>13. ASSUME NEW b \in Alloc
       PROVE  /\ EnteredBy(log, b, Processed') => aro'[b].status # 190
              /\ LeftBy(log, b, Processed') => aro'[b].status \in Outside
  <2> DEFINE q == Entered(Left(e), e)[b]
  <2>1. aro'[b] = q
    BY <1>6
  <2>2. /\ b # OldAlloc(e) /\ b # e.new => q = aro[b]
        /\ e.oc # "CI" /\ b = OldAlloc(e) =>
              /\ aro[b].status \in Inside /\ today \in Depart[b] - MaxDaysDiff .. Depart[b]
                    => q.status \in Outside
              /\ aro[b].status \in Outside => q.status \in Outside
        /\ e.oc # "CO" /\ b = e.new =>
              /\ aro[b].status = 190 /\ today \in Arrive[b] .. Arrive[b] + MaxDaysDiff
                    => q.status \in Inside
              /\ aro[b].status # 190 => q.status # 190
    BY <1>7, StepStatus
  <2> HIDE DEF q
  <2>3. aro[b].status \in {190} \cup Inside \cup Outside
    BY DEF Sound, Row
  <2>4. Inside \cap Outside = {} /\ 190 \notin Inside /\ 190 \notin Outside
    BY DEF Inside, Outside
  <2>5. CASE e.oc # "CI" /\ b = OldAlloc(e)
    <3>1. q.status \in Outside
      BY <1>4, <1>9, <1>10, <2>2, <2>3, <2>5
    <3> QED BY <2>1, <2>4, <3>1
  <2>6. CASE e.oc # "CO" /\ b = e.new /\ ~(e.oc # "CI" /\ b = OldAlloc(e))
    <3>1. q.status # 190
      BY <1>9, <2>2, <2>4, <2>6
    <3>2. ~LeftBy(log, b, Processed')
      BY <1>11, <1>12, <2>6
    <3> QED BY <2>1, <3>1, <3>2
  <2>7. CASE ~(e.oc # "CO" /\ b = e.new) /\ ~(e.oc # "CI" /\ b = OldAlloc(e))
    <3>1. b # OldAlloc(e) /\ b # e.new
      BY <1>7, <2>7 DEF OldAlloc
    <3> QED BY <1>4, <1>12, <2>1, <2>2, <2>7, <3>1
  <2> QED BY <2>5, <2>6, <2>7
<1>14. log' = log
  BY <1>2
<1> QED BY <1>8, <1>13, <1>14

\* and is never ahead of it.
LEMMA TriggerNotAhead ==
    ASSUME AllocFollows, Sound(aro), NEW i \in 1 .. Len(net), AllocTrigger(i)
    PROVE  NotAhead'
<1> DEFINE e == log[net[i]]
<1>1. /\ EventTypes /\ LogIsDated /\ NotAhead
  BY DEF AllocFollows
<1>2. /\ log' = log /\ spoiled \subseteq spoiled'
      /\ aro' = aro \/ aro' = Entered(Left(e), e)
  BY <1>1, TriggerCases
<1>3. SUFFICES ASSUME spoiled' \subseteq {"lost", "reordered", "outside"}, Distinct', NEW b \in Alloc
               PROVE  /\ aro'[b].status # 190 => EnteredBy(log, b, Len(log))
                      /\ aro'[b].status \in Outside => LeftBy(log, b, Len(log))
  BY <1>2 DEF NotAhead
<1>4. Distinct
  BY <1>2, <1>3 DEF Distinct, Changes, NearTo
<1>5. /\ aro[b].status # 190 => EnteredBy(log, b, Len(log))
      /\ aro[b].status \in Outside => LeftBy(log, b, Len(log))
  BY <1>1, <1>2, <1>3, <1>4 DEF NotAhead
<1>6. CASE aro' = aro
  BY <1>5, <1>6
<1>7. CASE aro' = Entered(Left(e), e)
  <2>1. /\ e.gds /\ e.oc \in {"CI", "CO", "RM"} /\ e.new \in Alloc /\ OldAlloc(e) \in Alloc
        /\ e.oc = "RM" => OldAlloc(e) # e.new
        /\ Gds[OldAlloc(e)] = Gds[e.new]
        /\ net[i] \in 1 .. Len(log)
    BY <1>1, <1>2, <1>3, Notified
  <2>2. e.oc # "CO" => EnteredBy(log, e.new, Len(log))
    BY <2>1 DEF EnteredBy
  <2>3. e.oc # "CI" => LeftBy(log, OldAlloc(e), Len(log))
    BY <2>1 DEF LeftBy
  <2> HIDE DEF e
  <2> DEFINE q == Entered(Left(e), e)[b]
  <2>4. aro'[b] = q
    BY <1>7
  <2>5. /\ b # OldAlloc(e) /\ b # e.new => q = aro[b]
        /\ e.oc # "CI" /\ b = OldAlloc(e) => (aro[b].status = 190 <=> q.status = 190)
        /\ e.oc # "CO" /\ b = e.new => (q.status \in Outside => aro[b].status \in Outside)
    BY <2>1, StepStatus
  <2> HIDE DEF q
  <2>6. e.oc = "CI" => OldAlloc(e) = e.new
    BY DEF OldAlloc
  <2>7. e.oc = "CO" => OldAlloc(e) = e.new
    BY DEF OldAlloc
  <2> QED BY <1>5, <2>1, <2>2, <2>3, <2>4, <2>5, <2>6, <2>7
<1> QED BY <1>2, <1>6, <1>7

LEMMA TriggerFollows ==
    ASSUME AllocFollows, Sound(aro), NEW i \in 1 .. Len(net), AllocTrigger(i)
    PROVE  AllocFollows'
<1>1. /\ receiver = "AcuServer" /\ EventTypes /\ LogIsStory /\ LogIsDated /\ OncePerStay /\ OnlyFixed
  BY DEF AllocFollows
<1>2. /\ Take(i) /\ faults' \in Nat /\ spoiled \subseteq spoiled'
      /\ UNCHANGED <<receiver, stay, today, log, phase, runs, dbRows, roomStatus, fixed>>
      /\ calm' = FALSE
  BY <1>1, TriggerCases
<1>3. EventTypes' /\ LogIsStory' /\ LogIsDated'
  BY <1>1, <1>2, TakenTypes, StoryKept, TakenDated
<1>4. OncePerStay'
  BY <1>1, <1>2 DEF OncePerStay
<1>5. OnlyFixed' /\ LastDecides'
  BY <1>1, <1>2 DEF OnlyFixed, LastDecides
<1>6. FollowsLog' /\ NotBehind' /\ NotAhead'
  BY TriggerFollowsLog, TriggerNotBehind, TriggerNotAhead
<1> QED BY <1>1, <1>2, <1>3, <1>4, <1>5, <1>6 DEF AllocFollows

LEMMA ReadFollows ==
    ASSUME AllocFollows, CheckRead \/ CheckLog \/ CheckEnd
    PROVE  AllocFollows'
<1>1. /\ receiver = "AcuServer" /\ EventTypes /\ LogIsStory /\ LogIsDated
      /\ FollowsLog /\ OncePerStay /\ NotBehind /\ NotAhead /\ OnlyFixed /\ LastDecides
      /\ UNCHANGED eventVars /\ UNCHANGED aro
  BY DEF AllocFollows, CheckRead, CheckLog, CheckEnd
<1>2. /\ UNCHANGED <<receiver, stay, today, log, net, faults, spoiled>>
      /\ Len(log) \in Nat /\ runs \in Nat
  BY <1>1, LogTypes DEF eventVars, FollowsLog
<1>3. receiver' = "AcuServer" /\ EventTypes' /\ LogIsStory' /\ LogIsDated' /\ OncePerStay' /\ NotBehind'
  BY <1>1, <1>2 DEF EventTypes, LogIsStory, LogIsDated, OncePerStay, NotBehind, NetInOrder, Processed
<1>4. Distinct' <=> Distinct
  BY <1>2 DEF Distinct, Changes, NearTo
<1>5. NotAhead'
  BY <1>1, <1>2, <1>4 DEF NotAhead
<1>6. FollowsLog'
  <2>1. CASE CheckRead
    <3>1. runs' \in Nat /\ runs' # 0
      BY <1>2, <2>1 DEF CheckRead
    <3> QED BY <3>1 DEF FollowsLog
  <2>2. CASE CheckLog \/ CheckEnd
    <3>1. runs' = runs /\ phase # "off"
      BY <2>2 DEF CheckLog, CheckEnd
    <3>2. runs' # 0
      BY <1>1, <3>1 DEF FollowsLog
    <3> QED BY <1>2, <3>1, <3>2 DEF FollowsLog
  <2> QED BY <2>1, <2>2
<1>7. OnlyFixed'
  <2>1. CASE CheckRead
    <3>1. roomStatus' = [event |-> 0, leaves |-> TRUE]
      BY <2>1 DEF CheckRead, Nothing
    <3>2. phase' = "read" /\ dbRows' = aro /\ aro' = aro /\ fixed' = {}
      BY <2>1 DEF CheckRead
    <3>3. roomStatus' \in [event : 0 .. Len(log'), leaves : BOOLEAN]
      BY <1>2, <3>1
    <3>4. \A a \in Alloc : aro'[a] = dbRows'[a]
      BY <3>2
    <3>5. phase' # "done" /\ (phase' = "read" => fixed' = {}) /\ fixed' \subseteq Alloc
      BY <3>2
    <3> QED BY <3>3, <3>4, <3>5 DEF OnlyFixed
  <2>2. CASE CheckLog
    <3>1. roomStatus' = [event |-> Len(log), leaves |-> TRUE]
      BY <2>2 DEF CheckLog
    <3>2. phase' = "fix" /\ phase = "read" /\ UNCHANGED <<aro, dbRows, fixed, calm>>
      BY <2>2 DEF CheckLog
    <3>3. roomStatus' \in [event : 0 .. Len(log'), leaves : BOOLEAN]
      BY <1>2, <3>1
    <3>4. calm => \A a \in Alloc : a \notin fixed => aro[a] = dbRows[a]
      BY <1>1, <3>2 DEF OnlyFixed
    <3>5. phase' # "done" /\ phase' # "read" /\ fixed' \subseteq Alloc
      BY <1>1, <3>2 DEF OnlyFixed
    <3>6. calm' => \A a \in Alloc : a \notin fixed' => aro'[a] = dbRows'[a]
      BY <3>2, <3>4
    <3> QED BY <3>3, <3>5, <3>6 DEF OnlyFixed
  <2>3. CASE CheckEnd
    BY <1>1, <1>2, <2>3 DEF OnlyFixed, CheckEnd
  <2> QED BY <2>1, <2>2, <2>3
<1>8. LastDecides'
  <2>1. CASE CheckRead
    BY <2>1 DEF LastDecides, CheckRead
  <2>2. CASE CheckLog
    <3>1. roomStatus'.event = Len(log) /\ roomStatus'.leaves = TRUE /\ fixed' = {}
      BY <1>1, <2>2 DEF CheckLog, OnlyFixed
    <3>2. \A c \in Changes' : ~Passed(c)'
      <4>1. ASSUME NEW c \in Changes', Passed(c)' PROVE FALSE
        <5>1. c[1] \in 1 .. Len(log)
          BY <1>2, <4>1 DEF Changes
        <5>2. ~(c[1] > Len(log)) /\ roomStatus'.leaves
          BY <1>2, <3>1, <5>1
        <5>3. ~(c[1] > roomStatus'.event) /\ roomStatus'.leaves
          BY <3>1, <5>2
        <5> QED BY <4>1, <5>3 DEF Passed
      <4> QED BY <4>1
    <3> QED BY <3>1, <3>2 DEF LastDecides
  <2>3. CASE CheckEnd
    <3>1. phase = "fix" /\ UNCHANGED <<aro, dbRows, roomStatus, fixed, calm>>
      BY <2>3 DEF CheckEnd
    <3>2. Changes' = Changes /\ (Located' <=> Located) /\ \A c : Passed(c)' <=> Passed(c)
      BY <1>2, <3>1 DEF Changes, Located, NearTo, Passed
    <3> QED BY <1>1, <1>2, <1>4, <3>1, <3>2 DEF LastDecides
  <2> QED BY <2>1, <2>2, <2>3
<1> QED BY <1>3, <1>5, <1>6, <1>7, <1>8 DEF AllocFollows

\* What one item of the list fixes.
LEMMA FixCases ==
    ASSUME AllocFollows, Sound(aro), CheckFix,
           NEW e, e = log[roomStatus.event], NEW k, k = <<roomStatus.event, roomStatus.leaves>>,
           NEW a, a = AllocOf(e, roomStatus.leaves)
    PROVE  /\ phase = "fix" /\ roomStatus.event \in 1 .. Len(log) /\ roomStatus.leaves \in BOOLEAN
           /\ roomStatus' = NextOf(roomStatus) /\ faults' \in Nat /\ spoiled \subseteq spoiled'
           /\ UNCHANGED <<receiver, stay, today, log, net, phase, runs, dbRows, calm>>
           /\ k[1] = roomStatus.event /\ k[2] = roomStatus.leaves
           /\ \A item \in Found(e, roomStatus.leaves) :
                 /\ k \in Changes /\ item.row \in Alloc /\ item.op = OpCode(e, roomStatus.leaves)
                 /\ Distinct => item.row = a
           /\ Distinct /\ Located /\ k \in Changes =>
                 \E item \in Found(e, roomStatus.leaves) : item.row = a
<1>1. /\ phase = "fix" /\ roomStatus.event > 0 /\ roomStatus' = NextOf(roomStatus)
      /\ UNCHANGED <<receiver, stay, today, log, net, phase, runs, dbRows, calm>>
  BY DEF CheckFix
<1>2. spoiled \subseteq spoiled' /\ faults' \in Nat
  <2>1. EventTypes
    BY DEF AllocFollows
  <2>2. UNCHANGED faults \/ Fault("refused")
    BY DEF CheckFix
  <2>3. spoiled \subseteq spoiled'
    BY DEF CheckFix
  <2> QED BY <2>1, <2>2, <2>3, Faulty
<1>3. roomStatus.event \in 1 .. Len(log) /\ roomStatus.leaves \in BOOLEAN
  <2>1. roomStatus \in [event : 0 .. Len(log), leaves : BOOLEAN]
    BY DEF AllocFollows, OnlyFixed
  <2> QED BY <1>1, <2>1
<1>4. k[1] = roomStatus.event /\ k[2] = roomStatus.leaves
  OBVIOUS
<1>5. k \in Changes <=> HasChange(e, roomStatus.leaves)
  BY <1>3 DEF Changes
<1> DEFINE rows == Matching(OpCode(e, roomStatus.leaves), a, e)
<1>6. Found(e, roomStatus.leaves) = IF HasChange(e, roomStatus.leaves) /\ Cardinality(rows) = 1
                                    THEN {[op |-> OpCode(e, roomStatus.leaves), row |-> b] : b \in rows}
                                    ELSE {}
  BY DEF Found
<1>7. \A b \in rows : b \in Alloc
  BY DEF Matching, Narrowed, NearRows, RowsAround
<1>8. EventTypes /\ LogIsDated
  BY DEF AllocFollows
<1>9. Distinct /\ k \in Changes => /\ Cardinality(rows) = 1 => rows = {a}
                                   /\ Located => rows = {a} /\ Cardinality(rows) = 1
  <2>1. SUFFICES ASSUME Distinct, k \in Changes
                 PROVE  /\ Cardinality(rows) = 1 => rows = {a}
                        /\ Located => rows = {a} /\ Cardinality(rows) = 1
    OBVIOUS
  <2>2. e = log[k[1]] /\ a = AllocOf(e, k[2]) /\ rows = Matching(OpCode(e, k[2]), a, e)
    BY <1>4
  <2> HIDE DEF rows
  <2> QED BY <1>8, <2>1, <2>2, MatchesOwn
<1> HIDE DEF rows
<1>10. ASSUME NEW item \in Found(e, roomStatus.leaves)
       PROVE  /\ k \in Changes /\ item.row \in Alloc /\ item.op = OpCode(e, roomStatus.leaves)
              /\ Distinct => item.row = a
  <2>1. HasChange(e, roomStatus.leaves) /\ Cardinality(rows) = 1
    BY <1>6
  <2>2. PICK b \in rows : item = [op |-> OpCode(e, roomStatus.leaves), row |-> b]
    BY <1>6, <2>1
  <2>3. item.row = b /\ item.op = OpCode(e, roomStatus.leaves)
    BY <2>2
  <2> QED BY <1>5, <1>7, <1>9, <2>1, <2>3
<1>11. ASSUME Distinct, Located, k \in Changes
       PROVE  \E item \in Found(e, roomStatus.leaves) : item.row = a
  <2>1. HasChange(e, roomStatus.leaves) /\ Cardinality(rows) = 1 /\ a \in rows
    BY <1>5, <1>9, <1>11
  <2>2. [op |-> OpCode(e, roomStatus.leaves), row |-> a] \in Found(e, roomStatus.leaves)
    BY <1>6, <2>1
  <2> QED BY <2>2
<1> QED BY <1>1, <1>2, <1>3, <1>4, <1>10, <1>11

\* The statuses that are written, by the status that was read.
LEMMA FixedStatus ==
    ASSUME NEW item, Missing(item), aro[item.row] \in Row, NEW q, q = FixedRow(item)
    PROVE  /\ q.status # 190
           /\ Going(item.op) => q.status \in Outside /\ dbRows[item.row].status \notin Outside
           /\ ~Going(item.op) => /\ q.status \in Inside
                                 /\ dbRows[item.row].status \notin Inside \cup Outside
<1>1. CASE Going(item.op) /\ dbRows[item.row].status \in Inside
  <2>1. q = [aro[item.row] EXCEPT !.status = 390, !.timeOut = TRUE]
    BY <1>1 DEF FixedRow
  <2>2. q.status = 390
    BY <2>1 DEF Row
  <2> QED BY <1>1, <2>2 DEF Missing, Outside
<1>2. CASE Going(item.op) /\ dbRows[item.row].status \notin Inside
  <2>1. q = [status |-> IF item.op = "CO" THEN 390 ELSE 320, timeIn |-> TRUE, timeOut |-> TRUE]
    BY <1>2 DEF FixedRow
  <2>2. q.status \in {390, 320}
    BY <2>1
  <2> QED BY <1>2, <2>2 DEF Missing, Outside
<1>3. CASE ~Going(item.op)
  <2>1. q = [status |-> IF item.op = "CI" THEN 300 ELSE 330, timeIn |-> TRUE, timeOut |-> FALSE]
    BY <1>3 DEF FixedRow
  <2>2. q.status \in {300, 330}
    BY <2>1
  <2> QED BY <1>3, <2>2 DEF Missing, Inside
<1> QED BY <1>1, <1>2, <1>3

\* Either nothing is missing, or the row is fixed, or could not be written.
LEMMA FixOutcomes ==
    ASSUME CheckFix, Sound(aro), NEW found, found = Found(log[roomStatus.event], roomStatus.leaves),
           \A item \in found : item.row \in Alloc
    PROVE  \/ /\ \A item \in found : item.row \in fixed \/ ~Missing(item)
              /\ UNCHANGED <<fixed, aro, spoiled>>
           \/ \E item \in found :
                 /\ item.row \notin fixed /\ Missing(item)
                 /\ fixed' = fixed \cup {item.row}
                 /\ \/ /\ \A b \in Alloc : b # item.row => aro'[b] = aro[b]
                       /\ aro'[item.row] = FixedRow(item)
                       /\ calm \/ "raced" \in spoiled'
                    \/ aro' = aro /\ "unfixed" \in spoiled'
<1> DEFINE fixable == {item \in found : item.row \notin fixed /\ Missing(item)}
<1>1. \/ \E item \in fixable :
            /\ fixed' = fixed \cup {item.row}
            /\ \/ /\ aro' = [aro EXCEPT ![item.row] = FixedRow(item)]
                  /\ spoiled' = IF calm THEN spoiled ELSE spoiled \cup {"raced"}
               \/ spoiled' = spoiled \cup {"unfixed"} /\ aro' = aro
      \/ fixable = {} /\ UNCHANGED <<fixed, aro, spoiled>>
  BY DEF CheckFix
<1>2. CASE fixable = {} /\ UNCHANGED <<fixed, aro, spoiled>>
  BY <1>2
<1>3. ASSUME NEW item \in fixable, fixed' = fixed \cup {item.row},
             aro' = [aro EXCEPT ![item.row] = FixedRow(item)],
             spoiled' = IF calm THEN spoiled ELSE spoiled \cup {"raced"}
      PROVE  /\ item \in found /\ item.row \notin fixed /\ Missing(item)
             /\ \A b \in Alloc : b # item.row => aro'[b] = aro[b]
             /\ aro'[item.row] = FixedRow(item)
             /\ calm \/ "raced" \in spoiled'
  <2>1. aro \in [Alloc -> Row] /\ item.row \in Alloc
    BY <1>3 DEF Sound
  <2> HIDE DEF Row
  <2>2. /\ \A b \in Alloc : b # item.row => aro'[b] = aro[b]
        /\ aro'[item.row] = FixedRow(item)
    BY <1>3, <2>1
  <2>3. calm \/ "raced" \in spoiled'
    BY <1>3
  <2> QED BY <1>3, <2>2, <2>3
<1> QED BY <1>1, <1>2, <1>3

\* A run of the log checker sets an allocation to what the last of its changes says.
LEMMA FixFollows ==
    ASSUME AllocFollows, Sound(aro), CheckFix
    PROVE  AllocFollows'
<1> DEFINE e == log[roomStatus.event]
           k == <<roomStatus.event, roomStatus.leaves>>
           a == AllocOf(e, roomStatus.leaves)
           found == Found(e, roomStatus.leaves)
<1>1. /\ receiver = "AcuServer" /\ EventTypes /\ LogIsStory /\ LogIsDated
      /\ FollowsLog /\ OncePerStay /\ NotBehind /\ NotAhead /\ OnlyFixed /\ LastDecides
  BY DEF AllocFollows
<1>2. /\ phase = "fix" /\ roomStatus.event \in 1 .. Len(log) /\ roomStatus.leaves \in BOOLEAN
      /\ roomStatus' = NextOf(roomStatus) /\ faults' \in Nat /\ spoiled \subseteq spoiled'
      /\ UNCHANGED <<receiver, stay, today, log, net, phase, runs, dbRows, calm>>
      /\ k[1] = roomStatus.event /\ k[2] = roomStatus.leaves
      /\ \A item \in found :
            /\ k \in Changes /\ item.row \in Alloc /\ item.op = OpCode(e, roomStatus.leaves)
            /\ Distinct => item.row = a
      /\ Distinct /\ Located /\ k \in Changes => \E item \in found : item.row = a
  BY FixCases
<1>3. \/ /\ \A item \in found : item.row \in fixed \/ ~Missing(item)
         /\ UNCHANGED <<fixed, aro, spoiled>>
      \/ \E item \in found :
            /\ item.row \notin fixed /\ Missing(item)
            /\ fixed' = fixed \cup {item.row}
            /\ \/ /\ \A b \in Alloc : b # item.row => aro'[b] = aro[b]
                  /\ aro'[item.row] = FixedRow(item)
                  /\ calm \/ "raced" \in spoiled'
               \/ aro' = aro /\ "unfixed" \in spoiled'
  BY <1>2, FixOutcomes
<1>4. k \in Changes => /\ HasChange(e, roomStatus.leaves)
                       /\ Going(OpCode(e, roomStatus.leaves)) <=> roomStatus.leaves
                       /\ e.oc \in {"CI", "CO", "RM"}
  <2>1. e.oc \in {"CI", "CO", "RM"}
    BY <1>1, <1>2, LogTypes
  <2>2. k \in Changes => HasChange(e, roomStatus.leaves)
    BY <1>2 DEF Changes
  <2> QED BY <1>2, <2>1, <2>2 DEF HasChange, Going, OpCode
<1>5. k \in Changes => IF roomStatus.leaves THEN LeftBy(log, a, Len(log))
                       ELSE EnteredBy(log, a, Len(log)) /\ a = e.new /\ e.oc # "CO"
  BY <1>2, <1>4 DEF HasChange, AllocOf, LeftBy, EnteredBy
<1>6. aro \in [Alloc -> Row] /\ Len(log) \in Nat /\ runs # 0
  BY <1>1, <1>2, LogTypes DEF Sound, FollowsLog
<1>7. roomStatus \in [event : 0 .. Len(log), leaves : BOOLEAN]
  BY <1>1 DEF OnlyFixed
<1>8. /\ roomStatus' \in [event : 0 .. Len(log), leaves : BOOLEAN]
      /\ \A c \in Changes : Passed(c)' => Passed(c) \/ c = k
  <2>0. \A c \in Changes : c[1] \in 1 .. Len(log) /\ c[2] \in BOOLEAN /\ c = <<c[1], c[2]>>
    BY DEF Changes
  <2>1. CASE roomStatus.leaves = TRUE
    <3>1. roomStatus' = [roomStatus EXCEPT !.leaves = FALSE]
      BY <1>2, <2>1 DEF NextOf
    <3>2. /\ roomStatus'.event = roomStatus.event /\ roomStatus'.leaves = FALSE
          /\ roomStatus' \in [event : 0 .. Len(log), leaves : BOOLEAN]
      BY <1>7, <3>1
    <3>3. ASSUME NEW c \in Changes, Passed(c)' PROVE Passed(c) \/ c = k
      <4>1. c[1] > roomStatus'.event \/ (c[1] = roomStatus'.event /\ c[2])
        BY <3>3 DEF Passed
      <4>2. c[1] > roomStatus.event \/ (c[1] = roomStatus.event /\ c[2] = TRUE)
        BY <2>0, <3>2, <4>1
      <4>3. c[1] = roomStatus.event /\ c[2] = TRUE => c = k
        BY <2>0, <2>1
      <4> QED BY <4>2, <4>3 DEF Passed
    <3> QED BY <3>2, <3>3
  <2>2. CASE roomStatus.leaves = FALSE
    <3>1. roomStatus' = [event |-> roomStatus.event - 1, leaves |-> TRUE]
      BY <1>2, <2>2 DEF NextOf
    <3>2. roomStatus'.event = roomStatus.event - 1 /\ roomStatus'.leaves = TRUE
      BY <3>1
    <3>3. roomStatus' \in [event : 0 .. Len(log), leaves : BOOLEAN]
      BY <1>2, <1>6, <3>1
    <3>4. ASSUME NEW c \in Changes, Passed(c)' PROVE Passed(c) \/ c = k
      <4>1. c[1] > roomStatus'.event
        BY <3>2, <3>4 DEF Passed
      <4>2. c[1] > roomStatus.event \/ c[1] = roomStatus.event
        BY <1>2, <2>0, <3>2, <4>1
      <4>3. c[1] = roomStatus.event /\ c[2] = FALSE => c = k
        BY <2>0, <2>2
      <4>4. c[1] = roomStatus.event /\ c[2] = TRUE => Passed(c)
        BY <2>2 DEF Passed
      <4> QED BY <2>0, <4>2, <4>3, <4>4 DEF Passed
    <3> QED BY <3>3, <3>4
  <2> QED BY <1>2, <2>1, <2>2
<1>9. /\ receiver' = "AcuServer" /\ EventTypes' /\ LogIsStory' /\ LogIsDated'
      /\ FollowsLog' /\ OncePerStay'
  <2>1. EventTypes'
    BY <1>1, <1>2 DEF EventTypes
  <2>2. LogIsDated'
    BY <1>1, <1>2 DEF LogIsDated
  <2>3. FollowsLog'
    <3>1. runs' \in Nat /\ runs' # 0
      BY <1>1, <1>2, <1>6 DEF FollowsLog
    <3> QED BY <3>1 DEF FollowsLog
  <2> QED BY <1>1, <1>2, <2>1, <2>2, <2>3 DEF LogIsStory, OncePerStay
<1>10. /\ Changes' = Changes /\ (Distinct' <=> Distinct) /\ (Located' <=> Located)
       /\ (NetInOrder' <=> NetInOrder) /\ Processed' = Processed
  BY <1>2 DEF Changes, Distinct, Located, NearTo, NetInOrder, Processed
<1>11. Inside \cap Outside = {} /\ 190 \notin Inside /\ 190 \notin Outside
  BY DEF Inside, Outside
\* What is written, if anything is.
<1>12. ASSUME NEW item \in found, Missing(item), aro'[item.row] = FixedRow(item)
       PROVE  /\ aro'[item.row].status # 190 /\ k \in Changes
              /\ IF roomStatus.leaves
                 THEN aro'[item.row].status \in Outside /\ dbRows[item.row].status \notin Outside
                 ELSE aro'[item.row].status \in Inside /\ dbRows[item.row].status \notin Inside \cup Outside
  <2>1. aro[item.row] \in Row /\ k \in Changes /\ item.op = OpCode(e, roomStatus.leaves)
    BY <1>2, <1>6
  <2>2. Going(item.op) <=> roomStatus.leaves
    BY <1>4, <2>1
  <2> HIDE DEF e, k, a, found
  <2> QED BY <1>12, <2>1, <2>2, FixedStatus
<1> HIDE DEF e, k, a, found
<1>13. NotBehind'
  <2>1. SUFFICES ASSUME spoiled' = {}
                 PROVE  /\ NetInOrder
                        /\ \A b \in Alloc : /\ EnteredBy(log, b, Processed) => aro'[b].status # 190
                                            /\ LeftBy(log, b, Processed) => aro'[b].status \in Outside
    BY <1>2, <1>10 DEF NotBehind
  <2>2. /\ NetInOrder
        /\ \A b \in Alloc : /\ EnteredBy(log, b, Processed) => aro[b].status # 190
                            /\ LeftBy(log, b, Processed) => aro[b].status \in Outside
    BY <1>1, <1>2, <2>1 DEF NotBehind
  <2>3. CASE aro' = aro
    BY <2>2, <2>3
  <2>4. ASSUME NEW item \in found, item.row \notin fixed, Missing(item), calm,
               \A b \in Alloc : b # item.row => aro'[b] = aro[b], aro'[item.row] = FixedRow(item)
        PROVE  \A b \in Alloc : /\ EnteredBy(log, b, Processed) => aro'[b].status # 190
                                /\ LeftBy(log, b, Processed) => aro'[b].status \in Outside
    <3>1. aro[item.row] = dbRows[item.row]
      BY <1>1, <1>2, <2>4 DEF OnlyFixed
    <3>2. aro'[item.row].status # 190 /\ (aro[item.row].status \in Outside => aro'[item.row].status \in Outside)
      BY <1>12, <2>4, <3>1
    <3> QED BY <2>2, <2>4, <3>2
  <2> QED BY <1>3, <2>1, <2>2, <2>3, <2>4
<1>14. NotAhead'
  <2>1. SUFFICES ASSUME spoiled' \subseteq {"lost", "reordered", "outside"}, Distinct, NEW b \in Alloc
                 PROVE  /\ aro'[b].status # 190 => EnteredBy(log, b, Len(log))
                        /\ aro'[b].status \in Outside => LeftBy(log, b, Len(log))
    BY <1>2, <1>10 DEF NotAhead
  <2>2. /\ aro[b].status # 190 => EnteredBy(log, b, Len(log))
        /\ aro[b].status \in Outside => LeftBy(log, b, Len(log))
    BY <1>1, <1>2, <2>1 DEF NotAhead
  <2>3. CASE aro'[b] = aro[b]
    BY <2>2, <2>3
  <2>4. ASSUME NEW item \in found, Missing(item), aro'[item.row] = FixedRow(item), b = item.row
        PROVE  /\ EnteredBy(log, b, Len(log))
               /\ aro'[b].status \in Outside => LeftBy(log, b, Len(log))
    <3>1. b = a /\ k \in Changes
      BY <1>2, <2>1, <2>4
    <3>2. roomStatus.leaves => LeftBy(log, b, Len(log)) /\ EnteredBy(log, b, Len(log))
      BY <1>1, <1>5, <3>1, LeftMeansEntered
    <3>3. ~roomStatus.leaves => EnteredBy(log, b, Len(log)) /\ aro'[b].status \notin Outside
      BY <1>5, <1>11, <1>12, <2>4, <3>1
    <3> QED BY <3>2, <3>3
  <2> QED BY <1>3, <2>1, <2>2, <2>3, <2>4
<1>15. OnlyFixed'
  <2>1. ASSUME calm, NEW b \in Alloc, b \notin fixed'
        PROVE  aro'[b] = dbRows[b]
    <3>1. b \notin fixed /\ aro'[b] = aro[b]
      BY <1>3, <2>1
    <3> QED BY <1>1, <1>2, <2>1, <3>1 DEF OnlyFixed
  <2>2. fixed' \subseteq Alloc
    BY <1>1, <1>2, <1>3 DEF OnlyFixed
  <2> QED BY <1>2, <1>8, <2>1, <2>2 DEF OnlyFixed
<1>16. LastDecides'
  <2>1. SUFFICES ASSUME calm, spoiled' \subseteq {"lost", "reordered", "outside"}, Distinct, Located
        PROVE  /\ \A c \in Changes :
                     Passed(c)' /\ AllocOf(log[c[1]], c[2]) \notin fixed' =>
                        dbRows[AllocOf(log[c[1]], c[2])].status \in IF c[2] THEN Outside ELSE Inside \cup Outside
               /\ \A b \in fixed' : aro'[b].status \in IF LeftBy(log, b, Len(log)) THEN Outside ELSE Inside
    BY <1>2, <1>10 DEF LastDecides
  <2>2. /\ \A c \in Changes :
              Passed(c) /\ AllocOf(log[c[1]], c[2]) \notin fixed =>
                 dbRows[AllocOf(log[c[1]], c[2])].status \in IF c[2] THEN Outside ELSE Inside \cup Outside
        /\ \A b \in fixed : aro[b].status \in IF LeftBy(log, b, Len(log)) THEN Outside ELSE Inside
    BY <1>1, <1>2, <2>1 DEF LastDecides
  <2>3. AllocOf(log[k[1]], k[2]) = a /\ k[2] = roomStatus.leaves
    BY <1>2 DEF a, e
  <2>4. CASE /\ \A item \in found : item.row \in fixed \/ ~Missing(item)
             /\ UNCHANGED <<fixed, aro, spoiled>>
    <3>1. ASSUME k \in Changes, a \notin fixed
          PROVE  dbRows[a].status \in IF roomStatus.leaves THEN Outside ELSE Inside \cup Outside
      <4>1. PICK item \in found : item.row = a
        BY <1>2, <2>1, <3>1
      <4>2. ~Missing(item) /\ (Going(item.op) <=> roomStatus.leaves)
        BY <1>2, <1>4, <2>4, <3>1, <4>1
      <4> QED BY <4>1, <4>2 DEF Missing
    <3>2. ASSUME NEW c \in Changes, Passed(c)', AllocOf(log[c[1]], c[2]) \notin fixed
          PROVE  dbRows[AllocOf(log[c[1]], c[2])].status \in IF c[2] THEN Outside ELSE Inside \cup Outside
      <4>1. CASE Passed(c)
        BY <2>2, <3>2, <4>1
      <4>2. CASE c = k
        BY <2>3, <3>1, <3>2, <4>2
      <4> QED BY <1>8, <3>2, <4>1, <4>2
    <3> QED BY <2>2, <2>4, <3>2
  <2>5. ASSUME NEW item \in found, item.row \notin fixed, Missing(item), fixed' = fixed \cup {item.row},
               \A b \in Alloc : b # item.row => aro'[b] = aro[b], aro'[item.row] = FixedRow(item)
        PROVE  /\ \A c \in Changes :
                     Passed(c)' /\ AllocOf(log[c[1]], c[2]) \notin fixed' =>
                        dbRows[AllocOf(log[c[1]], c[2])].status \in IF c[2] THEN Outside ELSE Inside \cup Outside
               /\ \A b \in fixed' : aro'[b].status \in IF LeftBy(log, b, Len(log)) THEN Outside ELSE Inside
    <3>1. item.row = a /\ k \in Changes
      BY <1>2, <2>1, <2>5
    <3>2. ASSUME NEW c \in Changes, Passed(c)', AllocOf(log[c[1]], c[2]) \notin fixed'
          PROVE  dbRows[AllocOf(log[c[1]], c[2])].status \in IF c[2] THEN Outside ELSE Inside \cup Outside
      <4>1. c # k
        BY <2>3, <2>5, <3>1, <3>2
      <4>2. Passed(c) /\ AllocOf(log[c[1]], c[2]) \notin fixed
        BY <1>8, <2>5, <3>2, <4>1
      <4> QED BY <2>2, <4>2
    <3>3. aro'[a].status \in IF LeftBy(log, a, Len(log)) THEN Outside ELSE Inside
      <4>1. CASE roomStatus.leaves
        BY <1>5, <1>12, <2>5, <3>1, <4>1
      <4>2. CASE ~roomStatus.leaves
        <5>1. aro'[a].status \in Inside /\ dbRows[a].status \notin Outside
          BY <1>12, <2>5, <3>1, <4>2
        <5>2. ~LeftBy(log, a, Len(log))
          <6>1. SUFFICES ASSUME LeftBy(log, a, Len(log)) PROVE FALSE
            OBVIOUS
          <6>2. PICK j \in 1 .. Len(log) : log[j].oc # "CI" /\ OldAlloc(log[j]) = a
            BY <6>1 DEF LeftBy
          <6>3. a = e.new /\ e.oc # "CO" /\ e = log[roomStatus.event]
            BY <1>5, <3>1, <4>2 DEF e
          <6>4. ~LeftBy(log, a, roomStatus.event - 1)
            BY <1>1, <1>2, <2>1, <6>3 DEF OncePerStay
          <6>5. ~(j < roomStatus.event)
            BY <1>2, <6>2, <6>4 DEF LeftBy
          <6>6. j # roomStatus.event
            BY <1>1, <1>2, <6>2, <6>3, LogTypes DEF OldAlloc
          <6>7. j > roomStatus.event
            BY <1>2, <6>5, <6>6
          <6> DEFINE c == <<j, TRUE>>
          <6>8. c \in Changes /\ c[1] = j /\ c[2] = TRUE /\ AllocOf(log[c[1]], c[2]) = a
            BY <6>2 DEF Changes, HasChange, AllocOf
          <6>9. Passed(c)
            BY <6>7 DEF Passed
          <6> HIDE DEF c
          <6>10. dbRows[a].status \in Outside
            BY <2>2, <2>5, <3>1, <6>8, <6>9
          <6> QED BY <5>1, <6>10
        <5> QED BY <5>1, <5>2
      <4> QED BY <4>1, <4>2
    <3>4. ASSUME NEW b \in fixed
          PROVE  aro'[b].status \in IF LeftBy(log, b, Len(log)) THEN Outside ELSE Inside
      <4>1. b # item.row /\ b \in Alloc
        BY <1>1, <2>5 DEF OnlyFixed
      <4>2. aro'[b] = aro[b]
        BY <2>5, <4>1
      <4> QED BY <2>2, <4>2
    <3> QED BY <2>5, <3>1, <3>2, <3>3, <3>4
  <2> QED BY <1>3, <2>1, <2>4, <2>5
<1> QED BY <1>9, <1>13, <1>14, <1>15, <1>16 DEF AllocFollows

LEMMA AllocInitFollows == AllocInit => AllocFollows
<1> SUFFICES ASSUME AllocInit PROVE AllocFollows
  OBVIOUS
<1>1. /\ receiver = "AcuServer" /\ stay = [a \in Alloc |-> "due"] /\ today = 0
      /\ log = <<>> /\ net = <<>> /\ faults = 0 /\ spoiled = {}
      /\ \A a \in Alloc : aro[a].status = 190
      /\ phase = "off" /\ runs = 0 /\ fixed = {} /\ roomStatus = [event |-> 0, leaves |-> TRUE]
  BY DEF AllocInit, EventsInit, NotChecking, Nothing
<1>2. Len(log) = 0 /\ Len(net) = 0
  BY <1>1
<1>3. EventTypes
  BY <1>1, <1>2 DEF EventTypes
<1>4. Processed = 0 /\ NetInOrder
  BY <1>2 DEF Processed, NetInOrder
<1>5. \A a \in Alloc : stay[a] = "due"
  BY <1>1
<1>6. \A g, x : IsAt(log, g, 0, x) <=> x = NoAlloc
  BY DEF IsAt
<1>7. LogIsStory /\ LogIsDated
  BY <1>2, <1>5, <1>6 DEF LogIsStory, LogIsDated
<1>8. \A a : ~EnteredBy(log, a, 0) /\ ~LeftBy(log, a, 0)
  BY DEF EnteredBy, LeftBy
<1>9. 190 \notin Inside /\ 190 \notin Outside /\ NoAlloc \notin Alloc
  BY EventsAssumption DEF Inside, Outside
<1>10. FollowsLog
  BY <1>1, <1>4, <1>6, <1>9 DEF FollowsLog, InHouse
<1>11. OncePerStay
  BY <1>2, <1>5, <1>8 DEF OncePerStay
<1>12. NotBehind /\ NotAhead
  BY <1>1, <1>2, <1>4, <1>8, <1>9 DEF NotBehind, NotAhead
<1>13. OnlyFixed /\ LastDecides
  BY <1>1, <1>2 DEF OnlyFixed, LastDecides
<1> QED BY <1>1, <1>3, <1>7, <1>10, <1>11, <1>12, <1>13 DEF AllocFollows

LEMMA AllocNextFollows == AllocInv /\ AllocFollows /\ [AllocNext]_allocVars => AllocFollows'
<1> SUFFICES ASSUME AllocInv, AllocFollows, [AllocNext]_allocVars PROVE AllocFollows'
  OBVIOUS
<1>1. Sound(aro)
  BY DEF AllocInv
<1>2. CASE AllocSihot
  BY <1>2, SihotFollows
<1>3. ASSUME NEW i \in 1 .. Len(net), AllocTrigger(i) PROVE AllocFollows'
  BY <1>1, <1>3, TriggerFollows
<1>4. ASSUME NEW i \in 1 .. Len(net), AllocLose(i) PROVE AllocFollows'
  BY <1>4, LoseFollows
<1>5. CASE CheckRead \/ CheckLog \/ CheckEnd
  BY <1>5, ReadFollows
<1>6. CASE CheckFix
  BY <1>1, <1>6, FixFollows
<1>7. CASE UNCHANGED allocVars
  <2>1. /\ UNCHANGED <<receiver, stay, today, log, net, faults, spoiled>>
        /\ UNCHANGED <<aro, phase, runs, dbRows, roomStatus, fixed, calm>>
    BY <1>7 DEF allocVars, eventVars, checkVars
  <2>2. /\ receiver' = "AcuServer" /\ EventTypes' /\ LogIsStory' /\ LogIsDated'
        /\ FollowsLog' /\ OncePerStay' /\ NotBehind'
    BY <2>1 DEF AllocFollows, EventTypes, LogIsStory, LogIsDated, FollowsLog, InHouse, OncePerStay,
                NotBehind, NetInOrder, Processed
  <2>3. NotAhead' /\ OnlyFixed' /\ LastDecides'
    <3>1. (Distinct' <=> Distinct) /\ (Located' <=> Located) /\ Changes' = Changes
      BY <2>1 DEF Distinct, Located, Changes, NearTo
    <3>2. \A c : Passed(c)' <=> Passed(c)
      BY <2>1 DEF Passed
    <3>3. NotAhead' /\ OnlyFixed'
      BY <2>1, <3>1 DEF AllocFollows, NotAhead, OnlyFixed
    <3>4. LastDecides'
      BY <2>1, <3>1, <3>2 DEF AllocFollows, LastDecides
    <3> QED BY <3>3, <3>4
  <2> QED BY <2>2, <2>3 DEF AllocFollows
<1> QED BY <1>2, <1>3, <1>4, <1>5, <1>6, <1>7 DEF AllocNext

\* T_ARO is consistent with the log of Sihot (P_SIHOT_ALLOC and SihotOccLogChecker).
THEOREM AllocInvariant == AllocSpec => []AllocFollows
<1>1. AllocInv /\ [AllocNext]_allocVars => AllocInv'
  BY AllocNextInv
<1> QED BY <1>1, AllocInitInv, AllocInitFollows, AllocNextFollows, PTL DEF AllocSpec

\* What the invariants tell of each allocation.
LEMMA StayTold ==
    ASSUME AllocFollows, Sound(aro), NEW a \in Alloc
    PROVE  /\ stay[a] \in {"due", "in", "out"}
           /\ aro[a].status \in {190} \cup Inside \cup Outside
           /\ "reentry" \notin spoiled =>
                 /\ stay[a] = "due" => ~EnteredBy(log, a, Len(log))
                 /\ stay[a] = "in" => EnteredBy(log, a, Len(log)) /\ ~LeftBy(log, a, Len(log))
                 /\ stay[a] = "out" => LeftBy(log, a, Len(log))
           /\ spoiled \subseteq {"lost", "reordered", "outside"} /\ Distinct =>
                 /\ aro[a].status # 190 => EnteredBy(log, a, Len(log))
                 /\ aro[a].status \in Outside => LeftBy(log, a, Len(log))
<1>1. aro[a].status \in {190} \cup Inside \cup Outside
  BY DEF Sound, Row
<1>2. stay[a] \in {"due", "in", "out"}
  BY DEF AllocFollows, EventTypes
<1> QED BY <1>1, <1>2 DEF AllocFollows, OncePerStay, NotAhead

LEMMA FollowsImpliesAgrees == AllocInv /\ AllocFollows => AllocAgrees
<1> SUFFICES ASSUME AllocInv, AllocFollows, net = <<>>, spoiled \subseteq {"reentry"},
                    runs = 0 \/ ("reentry" \notin spoiled /\ Distinct), NEW a \in Alloc
             PROVE  InHouse(a) <=> stay[a] = "in"
  BY DEF AllocAgrees
<1>1. /\ EventTypes /\ LogIsStory /\ FollowsLog /\ NotBehind /\ Sound(aro)
  BY DEF AllocFollows, AllocInv
<1>2. Processed = Len(log) /\ Len(log) \in Nat
  BY <1>1, LogTypes DEF Processed
<1>3. CASE runs = 0
  <2>1. InHouse(a) <=> IsAt(log, Gds[a], Len(log), a)
    BY <1>1, <1>2, <1>3 DEF FollowsLog
  <2>2. ASSUME IsAt(log, Gds[a], Len(log), a) PROVE stay[a] = "in"
    <3>1. ~IsAt(log, Gds[a], Len(log), NoAlloc)
      BY <1>2, <2>2, AtOnePlace, EventsAssumption
    <3>2. PICK b \in Alloc : Gds[b] = Gds[a] /\ stay[b] = "in"
      BY <1>1, <3>1 DEF LogIsStory
    <3>3. IsAt(log, Gds[a], Len(log), b)
      BY <1>1, <3>2 DEF LogIsStory
    <3>4. a = b
      BY <1>2, <2>2, <3>3, AtOnePlace
    <3> QED BY <3>2, <3>4
  <2> QED BY <1>1, <2>1, <2>2 DEF LogIsStory
<1>4. CASE "reentry" \notin spoiled /\ Distinct
  <2>1. spoiled = {} /\ spoiled \subseteq {"lost", "reordered", "outside"}
    BY <1>4
  <2>2. /\ EnteredBy(log, a, Len(log)) => aro[a].status # 190
        /\ LeftBy(log, a, Len(log)) => aro[a].status \in Outside
    BY <1>1, <1>2, <2>1 DEF NotBehind
  <2>3. /\ stay[a] \in {"due", "in", "out"}
        /\ aro[a].status \in {190} \cup Inside \cup Outside
        /\ stay[a] = "due" => ~EnteredBy(log, a, Len(log))
        /\ stay[a] = "in" => EnteredBy(log, a, Len(log)) /\ ~LeftBy(log, a, Len(log))
        /\ stay[a] = "out" => LeftBy(log, a, Len(log))
        /\ aro[a].status # 190 => EnteredBy(log, a, Len(log))
        /\ aro[a].status \in Outside => LeftBy(log, a, Len(log))
    BY <1>1, <1>4, <2>1, StayTold
  <2>4. Inside \cap Outside = {} /\ 190 \notin Inside /\ 190 \notin Outside
    BY DEF Inside, Outside
  <2> QED BY <2>2, <2>3, <2>4 DEF InHouse
<1> QED BY <1>3, <1>4

\* Without the windows that are named, T_ARO shows each guest where Sihot has him: for any number
\* of allocations, days, events, and runs of the log checker in between.
THEOREM AcumenShowsSihot == AllocSpec => []AllocAgrees
  BY AllocInitInv, AllocNextInv, AllocInitFollows, AllocNextFollows, FollowsImpliesAgrees, PTL
     DEF AllocSpec

LEMMA FollowsImpliesRepairs == AllocInv /\ AllocFollows => CheckRepairs
<1> SUFFICES ASSUME AllocInv, AllocFollows, phase = "done", calm, net = <<>>,
                    spoiled \subseteq {"lost", "reordered", "outside"}, Distinct, Located,
                    NEW a \in Alloc
             PROVE  InHouse(a) <=> stay[a] = "in"
  BY DEF CheckRepairs
<1>1. Sound(aro) /\ OnlyFixed /\ LastDecides /\ EventTypes
  BY DEF AllocInv, AllocFollows
<1>2. /\ stay[a] \in {"due", "in", "out"}
      /\ aro[a].status \in {190} \cup Inside \cup Outside
      /\ stay[a] = "due" => ~EnteredBy(log, a, Len(log))
      /\ stay[a] = "in" => EnteredBy(log, a, Len(log)) /\ ~LeftBy(log, a, Len(log))
      /\ stay[a] = "out" => LeftBy(log, a, Len(log))
      /\ aro[a].status # 190 => EnteredBy(log, a, Len(log))
      /\ aro[a].status \in Outside => LeftBy(log, a, Len(log))
  BY <1>1, StayTold
<1>3. Inside \cap Outside = {} /\ 190 \notin Inside /\ 190 \notin Outside
  BY DEF Inside, Outside
<1>4. /\ \A c \in Changes :
             Passed(c) /\ AllocOf(log[c[1]], c[2]) \notin fixed =>
                dbRows[AllocOf(log[c[1]], c[2])].status \in IF c[2] THEN Outside ELSE Inside \cup Outside
      /\ \A b \in fixed : aro[b].status \in IF LeftBy(log, b, Len(log)) THEN Outside ELSE Inside
  BY <1>1 DEF LastDecides
<1>5. CASE a \in fixed
  BY <1>2, <1>3, <1>4, <1>5 DEF InHouse
<1>6. CASE a \notin fixed
  <2>1. aro[a] = dbRows[a] /\ roomStatus.event = 0
    BY <1>1, <1>6 DEF OnlyFixed
  <2>2. \A c \in Changes : Passed(c)
    BY <1>1, <2>1, LogTypes DEF Changes, Passed
  <2>3. EnteredBy(log, a, Len(log)) => aro[a].status \in Inside \cup Outside
    <3>1. SUFFICES ASSUME NEW i \in 1 .. Len(log), log[i].oc # "CO", log[i].new = a
                   PROVE  aro[a].status \in Inside \cup Outside
      BY DEF EnteredBy
    <3> DEFINE c == <<i, FALSE>>
    <3>2. c \in Changes /\ ~c[2] /\ AllocOf(log[c[1]], c[2]) = a
      BY <3>1 DEF Changes, HasChange, AllocOf
    <3> HIDE DEF c
    <3> QED BY <1>4, <1>6, <2>1, <2>2, <3>2
  <2>4. LeftBy(log, a, Len(log)) => aro[a].status \in Outside
    <3>1. SUFFICES ASSUME NEW i \in 1 .. Len(log), log[i].oc # "CI", OldAlloc(log[i]) = a
                   PROVE  aro[a].status \in Outside
      BY DEF LeftBy
    <3> DEFINE c == <<i, TRUE>>
    <3>2. c \in Changes /\ c[2] /\ AllocOf(log[c[1]], c[2]) = a
      BY <3>1 DEF Changes, HasChange, AllocOf
    <3> HIDE DEF c
    <3> QED BY <1>4, <1>6, <2>1, <2>2, <3>2
  <2> QED BY <1>2, <1>3, <2>3, <2>4 DEF InHouse
<1> QED BY <1>5, <1>6

\* The log checker repairs what AcuServer has not processed: for any allocations, any events, and
\* any of them lost, overtaken or too far from the expected day.
THEOREM CheckerRepairs == AllocSpec => []CheckRepairs
  BY AllocInitInv, AllocNextInv, AllocInitFollows, AllocNextFollows, FollowsImpliesRepairs, PTL
     DEF AllocSpec

-----------------------------------------------------------------------------
(***************************************************************************)
(* res_groups: the rooms are shown where Sihot has the guests.             *)
(***************************************************************************)
\* A row of res_groups that is written.
LEMMA RowWritten ==
    ASSUME CacheTypes, NEW s \in Subs, NEW oc \in {"CI", "CO", "RC"}, NEW a \in Alloc,
           rgr' = RoomChanged(s, oc, a)
    PROVE  /\ rgr' \in [Subs -> [room : Alloc \cup {NoAlloc}, timeIn : BOOLEAN, timeOut : BOOLEAN]]
           /\ \A z \in Subs : z # s => rgr'[z] = rgr[z]
           /\ rgr'[s].room = a
           /\ (rgr'[s].timeIn /\ ~rgr'[s].timeOut) <=> (oc = "CI" \/ (oc = "RC" /\ ShownIn(s)))
<1> DEFINE R == [room : Alloc \cup {NoAlloc}, timeIn : BOOLEAN, timeOut : BOOLEAN]
           r == [room |-> a, timeIn |-> rgr[s].timeIn \/ oc = "CI",
                 timeOut |-> oc = "CO" \/ (oc # "CI" /\ rgr[s].timeOut)]
<1>1. rgr \in [Subs -> R]
  BY DEF CacheTypes
<1>2. rgr' = [rgr EXCEPT ![s] = r]
  BY DEF RoomChanged
<1>3. rgr[s].timeIn \in BOOLEAN /\ rgr[s].timeOut \in BOOLEAN
  BY <1>1
<1>4. r \in R
  BY <1>3
<1>5. /\ r.room = a /\ r.timeIn = (rgr[s].timeIn \/ oc = "CI")
      /\ r.timeOut = (oc = "CO" \/ (oc # "CI" /\ rgr[s].timeOut))
  OBVIOUS
<1> HIDE DEF r, R
<1>6. rgr' \in [Subs -> R] /\ rgr'[s] = r /\ \A z \in Subs : z # s => rgr'[z] = rgr[z]
  BY <1>1, <1>2, <1>4
<1>7. (r.timeIn /\ ~r.timeOut) <=> (oc = "CI" \/ (oc = "RC" /\ ShownIn(s)))
  BY <1>5 DEF ShownIn
<1> QED BY <1>5, <1>6, <1>7 DEF R

ShownInv == MovingIsLast /\ ShownIsRight /\ RightIsShown

\* The two notions of order.
LEMMA CleanIsInOrder ==
    ASSUME spoiled \subseteq {"reentry", "noGds"}
    PROVE  InOrder
  BY DEF InOrder

\* What Sihot does next changes nothing of it.
LEMMA SihotKeepsShown ==
    ASSUME CacheTypes, ShownInv, SihotStep, UNCHANGED <<rgr, moving>>
    PROVE  ShownInv'
<1> USE DEF CacheTypes
<1>1. ASSUME InOrder
      PROVE  /\ NetInOrder' /\ Processed' = Processed
             /\ \A g, x : IsAt(log', g, Processed, x) <=> IsAt(log, g, Processed, x)
             /\ spoiled \subseteq spoiled'
  <2>1. NetInOrder
    BY <1>1 DEF ShownInv, MovingIsLast
  <2> QED BY <2>1, SihotInOrder
<1>2. spoiled \subseteq spoiled'
  BY DEF SihotStep, CheckIn, CheckOut, Move, NextDay, Emit
<1>3. /\ InOrder' => InOrder
      /\ spoiled' \subseteq {"reentry", "noGds"} => spoiled \subseteq {"reentry", "noGds"}
  BY <1>2 DEF InOrder
<1>4. MovingIsLast'
  BY <1>1, <1>3 DEF ShownInv, MovingIsLast
<1>5. ShownIsRight'
  BY <1>1, <1>3 DEF ShownInv, ShownIsRight, ShownIn, Moving, Subs
<1>6. RightIsShown'
  <2> SUFFICES ASSUME spoiled' \subseteq {"reentry", "noGds"}, NEW x \in Alloc,
                      IsAt(log', Gds[x], Processed', x), Gds[x] \notin Rental,
                      ~ \E e \in moving : Gds[e.new] = Gds[x]
               PROVE  rgr[Sub[x]].timeIn /\ ~rgr[Sub[x]].timeOut /\ rgr[Sub[x]].room = x
    BY DEF RightIsShown, ShownIn, Moving
  <2>1. InOrder /\ spoiled \subseteq {"reentry", "noGds"}
    BY <1>3, CleanIsInOrder
  <2> QED BY <1>1, <2>1 DEF ShownInv, RightIsShown, ShownIn, Moving
<1> QED BY <1>4, <1>5, <1>6 DEF ShownInv

RowTypes == [Subs -> [room : Alloc \cup {NoAlloc}, timeIn : BOOLEAN, timeOut : BOOLEAN]]

LEMMA OneRowTypes ==
    ASSUME CacheTypes, NEW i \in 1 .. Len(net), OneRow(i)
    PROVE  CacheTypes'
<1> DEFINE e == log[net[i]]
<1> USE DEF CacheTypes
<1>0. /\ e.oc \in {"CI", "CO", "RM"} /\ e.new \in Alloc
      /\ e.oc = "RM" => e.old \in Alloc /\ Gds[e.old] = Gds[e.new]
  BY Noticed
<1>1. Take(i) /\ UNCHANGED <<receiver, stay, today, log, moving>>
  BY DEF OneRow
<1>2. \/ rgr' = rgr
      \/ rgr' = RoomChanged(Sub[e.new], IF e.oc = "RM" THEN "RC" ELSE e.oc, e.new)
  BY DEF OneRow
<1>3. \/ moving = {} /\ Ordered(i)
      \/ Fault("reordered")
      \/ Fault("refused")
  BY DEF OneRow
<1>4. faults' \in Nat
  BY <1>3, Faulty
<1>5. Sub[e.new] \in Subs
  BY <1>0 DEF Subs
<1>6. (IF e.oc = "RM" THEN "RC" ELSE e.oc) \in {"CI", "CO", "RC"}
  BY <1>0
<1>7. rgr' \in RowTypes
  <2>1. CASE rgr' = rgr
    BY <2>1 DEF CacheTypes, RowTypes
  <2>2. CASE rgr' = RoomChanged(Sub[e.new], IF e.oc = "RM" THEN "RC" ELSE e.oc, e.new)
    BY <1>0, <1>5, <1>6, <2>2, RowWritten DEF RowTypes
  <2> QED BY <1>2, <2>1, <2>2
<1>8. \A f \in moving' : f.new \in Alloc
  BY <1>1 DEF CacheTypes
<1> QED BY <1>1, <1>4, <1>7, <1>8, TakenTypes DEF RowTypes

LEMMA MoveOutTypes ==
    ASSUME CacheTypes, NEW i \in 1 .. Len(net), MoveOut(i)
    PROVE  CacheTypes'
<1> DEFINE e == log[net[i]]
<1> USE DEF CacheTypes
<1>0. /\ e.oc \in {"CI", "CO", "RM"} /\ e.new \in Alloc
      /\ e.oc = "RM" => e.old \in Alloc /\ Gds[e.old] = Gds[e.new]
  BY Noticed
<1>1. Take(i) /\ UNCHANGED <<receiver, stay, today, log>> /\ e.oc = "RM"
  BY DEF MoveOut, NewSub
<1>2. \/ rgr' = rgr /\ moving' = moving
      \/ rgr' = RoomChanged(Sub[e.old], "CO", e.old) /\ moving' = moving \cup {e}
  BY DEF MoveOut, FirstRow
<1>3. \/ moving = {} /\ Ordered(i)
      \/ Fault("reordered")
      \/ Fault("refused")
  BY DEF MoveOut
<1>4. faults' \in Nat
  BY <1>3, Faulty
<1>5. Sub[e.old] \in Subs
  BY <1>0, <1>1 DEF Subs
<1>7. rgr' \in RowTypes
  <2>1. CASE rgr' = rgr
    BY <2>1 DEF CacheTypes, RowTypes
  <2>2. CASE rgr' = RoomChanged(Sub[e.old], "CO", e.old)
    BY <1>0, <1>1, <1>5, <2>2, RowWritten DEF RowTypes
  <2> QED BY <1>2, <2>1, <2>2
<1>8. \A f \in moving : f.new \in Alloc
  BY DEF CacheTypes
<1>9. \A f \in moving' : f.new \in Alloc
  BY <1>0, <1>2, <1>8
<1> QED BY <1>1, <1>4, <1>7, <1>9, TakenTypes DEF RowTypes

LEMMA MoveInTypes ==
    ASSUME CacheTypes, NEW e \in moving, MoveIn(e)
    PROVE  CacheTypes'
<1> USE DEF CacheTypes
<1>0. e.new \in Alloc /\ Sub[e.new] \in Subs
  BY DEF Subs
<1>1. UNCHANGED <<receiver, stay, today, log, net>> /\ moving' \subseteq moving
  BY DEF MoveIn
<1>2. rgr' = rgr \/ rgr' = RoomChanged(Sub[e.new], "CI", e.new)
  BY DEF MoveIn
<1>3. faults' = faults \/ Fault("refused")
  BY DEF MoveIn
<1>4. faults' \in Nat
  BY <1>0, <1>3, Faulty
<1>5. rgr' \in RowTypes
  <2>1. CASE rgr' = rgr
    BY <2>1 DEF CacheTypes, RowTypes
  <2>2. CASE rgr' = RoomChanged(Sub[e.new], "CI", e.new)
    BY <1>0, <2>2, RowWritten DEF RowTypes
  <2> QED BY <1>2, <2>1, <2>2
<1>6. EventTypes'
  BY <1>1, <1>4 DEF EventTypes
<1> QED BY <1>1, <1>5, <1>6 DEF RowTypes

\* Rows of other bookings are rows of other sub-reservations.
LEMMA OtherSub ==
    ASSUME NEW a \in Alloc, NEW b \in Alloc, Gds[a] # Gds[b]
    PROVE  Sub[a] # Sub[b]
  BY SubsAssumption

LEMMA OneRowShown ==
    ASSUME CacheTypes, LogIsStory, ShownInv, NEW i \in 1 .. Len(net), OneRow(i)
    PROVE  ShownInv'
<1> USE DEF CacheTypes
<1> DEFINE e == log[net[i]]
           g == Gds[e.new]
           oc == IF e.oc = "RM" THEN "RC" ELSE e.oc
<1>0. /\ e.oc \in {"CI", "CO", "RM"} /\ e.new \in Alloc /\ Sub[e.new] \in Subs
      /\ e.oc = "RM" => e.old \in Alloc /\ Gds[e.old] = g
      /\ oc \in {"CI", "CO", "RC"}
  BY Noticed DEF Subs
<1>1. CASE Fault("refused") /\ spoiled' = spoiled \cup {"lost"}
  BY <1>1 DEF ShownInv, MovingIsLast, ShownIsRight, RightIsShown, InOrder
<1>2. CASE /\ rgr' = IF Skipped(e) \/ Ignored(e) THEN rgr ELSE RoomChanged(Sub[e.new], oc, e.new)
           /\ spoiled' = spoiled \cup OrderMark(i) \cup (IF moving = {} THEN {} ELSE {"reordered"})
                                 \cup (IF Ignored(e) THEN {"ignored"} ELSE {})
  <2>1. CASE ~InOrder'
    <3>1. ~(spoiled' \subseteq {"reentry", "noGds"})
      BY <2>1 DEF InOrder
    <3> QED BY <2>1, <3>1 DEF ShownInv, MovingIsLast, ShownIsRight, RightIsShown
  <2>2. CASE InOrder'
    <3>1. i = 1 /\ moving = {} /\ InOrder
      BY <1>2, <2>2 DEF InOrder, OrderMark
    <3>2. /\ Take(1) /\ log' = log /\ moving' = {} /\ 1 \in 1 .. Len(net)
          /\ Skipped(e) \/ ~NewSub(e)
      BY <3>1 DEF OneRow
    <3>3. /\ NetInOrder'
          /\ IsAt(log, g, Processed, Before(e))
          /\ \A h, x :
                /\ g # h => (IsAt(log, h, Processed', x) <=> IsAt(log, h, Processed, x))
                /\ g = h => (IsAt(log, h, Processed', x) <=> x = After(e))
          /\ Processed \in Nat
      <4>1. NetInOrder
        BY <3>1 DEF ShownInv, MovingIsLast
      <4> QED BY <3>1, <3>2, <4>1, NextEvent
    <3>4. MovingIsLast'
      BY <3>2, <3>3 DEF MovingIsLast
    <3>5. \A s \in Subs : ShownIn(s) =>
             \E x \in Alloc : Sub[x] = s /\ Gds[x] \notin Rental /\ IsAt(log, Gds[x], Processed, x)
      BY <3>1 DEF ShownInv, ShownIsRight
    <3>6. \A x \in Alloc : /\ spoiled \subseteq {"reentry", "noGds"}
                           /\ IsAt(log, Gds[x], Processed, x) /\ Gds[x] \notin Rental
                           => ShownIn(Sub[x]) /\ rgr[Sub[x]].room = x
      BY <3>1 DEF ShownInv, RightIsShown, Moving
    <3>7. /\ spoiled' \subseteq {"reentry", "noGds"} => spoiled \subseteq {"reentry", "noGds"}
          /\ Ignored(e) => ~(spoiled' \subseteq {"reentry", "noGds"})
      BY <1>2
    <3> DEFINE Shown(s) == rgr'[s].timeIn /\ ~rgr'[s].timeOut
    <3>8. SUFFICES
            /\ \A s \in Subs : Shown(s) =>
                  \E x \in Alloc : /\ Sub[x] = s /\ Gds[x] \notin Rental
                                   /\ IsAt(log, Gds[x], Processed', x)
            /\ \A x \in Alloc : /\ spoiled' \subseteq {"reentry", "noGds"}
                                /\ IsAt(log, Gds[x], Processed', x) /\ Gds[x] \notin Rental
                                => Shown(Sub[x]) /\ rgr'[Sub[x]].room = x
      BY <3>2, <3>4 DEF ShownInv, ShownIsRight, RightIsShown, ShownIn, Moving, Subs
    <3>9. \A x \in Alloc : IsAt(log, g, Processed, x) => x = Before(e)
      BY <3>3, AtOnePlace
    <3>10. CASE Skipped(e) \/ Ignored(e)
      <4>1. \A s \in Subs : Shown(s) <=> ShownIn(s)
        BY <1>2, <3>10 DEF ShownIn
      <4>2. ASSUME NEW s \in Subs, Shown(s)
            PROVE  \E x \in Alloc : /\ Sub[x] = s /\ Gds[x] \notin Rental
                                    /\ IsAt(log, Gds[x], Processed', x)
        <5>1. PICK x \in Alloc : /\ Sub[x] = s /\ Gds[x] \notin Rental
                                 /\ IsAt(log, Gds[x], Processed, x)
          BY <3>5, <4>1, <4>2
        <5>2. CASE Gds[x] # g
          BY <3>3, <5>1, <5>2
        <5>3. CASE Gds[x] = g
          <6>1. Ignored(e) /\ e.oc = "RM" /\ Sub[e.old] = Sub[e.new]
            BY <3>10, <5>1, <5>3 DEF Skipped, Ignored, SameSub
          <6>2. x = e.old
            BY <3>9, <5>1, <5>3, <6>1 DEF Before
          <6>3. After(e) = e.new
            BY <6>1 DEF After
          <6>4. IsAt(log, g, Processed', e.new)
            BY <3>3, <6>3
          <6> QED BY <1>0, <5>1, <5>3, <6>1, <6>2, <6>4
        <5> QED BY <5>2, <5>3
      <4>3. ASSUME NEW x \in Alloc, spoiled' \subseteq {"reentry", "noGds"},
                   IsAt(log, Gds[x], Processed', x), Gds[x] \notin Rental
            PROVE  Shown(Sub[x]) /\ rgr'[Sub[x]].room = x
        <5>1. Skipped(e)
          BY <3>7, <3>10, <4>3
        <5>2. Gds[x] # g
          BY <4>3, <5>1 DEF Skipped
        <5>3. IsAt(log, Gds[x], Processed, x)
          BY <3>3, <4>3, <5>2
        <5>4. ShownIn(Sub[x]) /\ rgr[Sub[x]].room = x
          BY <3>6, <3>7, <4>3, <5>3
        <5>5. rgr' = rgr
          BY <1>2, <3>10
        <5> QED BY <5>4, <5>5 DEF ShownIn
      <4> QED BY <4>2, <4>3
    <3>11. CASE ~Skipped(e) /\ ~Ignored(e)
      <4>0. rgr' = RoomChanged(Sub[e.new], oc, e.new)
        BY <1>2, <3>11
      <4>1. /\ \A z \in Subs : z # Sub[e.new] => rgr'[z] = rgr[z]
            /\ rgr'[Sub[e.new]].room = e.new
            /\ Shown(Sub[e.new]) <=> (oc = "CI" \/ (oc = "RC" /\ ShownIn(Sub[e.new])))
        <5>1. CacheTypes /\ Sub[e.new] \in Subs /\ oc \in {"CI", "CO", "RC"} /\ e.new \in Alloc
          BY <1>0
        <5> HIDE DEF CacheTypes, oc
        <5> QED BY <4>0, <5>1, RowWritten
      <4>2. \A z \in Subs : z # Sub[e.new] => (Shown(z) <=> ShownIn(z))
        BY <4>1 DEF ShownIn
      <4>3. e.oc = "RM" => Sub[e.old] = Sub[e.new]
        BY <3>2, <3>11 DEF NewSub
      <4>4. g \notin Rental
        BY <3>11 DEF Skipped
      <4>5. /\ e.oc = "CI" => Before(e) = NoAlloc /\ After(e) = e.new
            /\ e.oc = "CO" => Before(e) = e.new /\ After(e) = NoAlloc
            /\ e.oc = "RM" => Before(e) = e.old /\ After(e) = e.new
        BY DEF Before, After
      <4>6. /\ e.oc = "CI" => oc = "CI"
            /\ e.oc = "CO" => oc = "CO"
            /\ e.oc = "RM" => oc = "RC"
        OBVIOUS
      <4>7. ASSUME NEW s \in Subs, Shown(s)
            PROVE  \E x \in Alloc : /\ Sub[x] = s /\ Gds[x] \notin Rental
                                    /\ IsAt(log, Gds[x], Processed', x)
        <5>1. CASE s = Sub[e.new]
          <6>1. e.oc = "CI" \/ e.oc = "RM"
            BY <1>0, <4>1, <4>6, <4>7, <5>1
          <6>2. IsAt(log, g, Processed', e.new)
            BY <3>3, <4>5, <6>1
          <6> QED BY <1>0, <4>4, <5>1, <6>2
        <5>2. CASE s # Sub[e.new]
          <6>1. PICK x \in Alloc : /\ Sub[x] = s /\ Gds[x] \notin Rental
                                   /\ IsAt(log, Gds[x], Processed, x)
            BY <3>5, <4>2, <4>7, <5>2
          <6>2. Gds[x] # g
            <7> SUFFICES ASSUME Gds[x] = g PROVE FALSE
              OBVIOUS
            <7>1. x = Before(e)
              BY <3>9, <6>1
            <7>2. x = NoAlloc \/ x = e.new \/ (e.oc = "RM" /\ x = e.old)
              BY <1>0, <4>5, <7>1
            <7> QED BY <4>3, <5>2, <6>1, <7>2, EventsAssumption
          <6> QED BY <3>3, <6>1, <6>2
        <5> QED BY <5>1, <5>2
      <4>8. ASSUME NEW x \in Alloc, spoiled' \subseteq {"reentry", "noGds"},
                   IsAt(log, Gds[x], Processed', x), Gds[x] \notin Rental
            PROVE  Shown(Sub[x]) /\ rgr'[Sub[x]].room = x
        <5>0. spoiled \subseteq {"reentry", "noGds"}
          BY <3>7, <4>8
        <5>1. CASE Gds[x] # g
          <6>1. IsAt(log, Gds[x], Processed, x)
            BY <3>3, <4>8, <5>1
          <6>2. ShownIn(Sub[x]) /\ rgr[Sub[x]].room = x
            BY <3>6, <4>8, <5>0, <6>1
          <6>3. Sub[x] # Sub[e.new] /\ Sub[x] \in Subs
            BY <1>0, <5>1, OtherSub DEF Subs
          <6> QED BY <4>1, <4>2, <6>2, <6>3
        <5>2. CASE Gds[x] = g
          <6>1. x = After(e)
            BY <3>3, <4>8, <5>2
          <6>2. x = e.new /\ (e.oc = "CI" \/ e.oc = "RM")
            BY <1>0, <4>5, <6>1, EventsAssumption
          <6>3. CASE e.oc = "CI"
            BY <4>1, <4>6, <6>2, <6>3
          <6>4. CASE e.oc = "RM"
            <7>1. e.old \in Alloc /\ Gds[e.old] = g /\ IsAt(log, g, Processed, e.old)
              BY <1>0, <3>3, <4>5, <6>4
            <7>2. ShownIn(Sub[e.old])
              BY <3>6, <4>4, <5>0, <7>1
            <7> QED BY <4>1, <4>3, <4>6, <6>2, <6>4, <7>2
          <6> QED BY <6>2, <6>3, <6>4
        <5> QED BY <5>1, <5>2
      <4> QED BY <4>7, <4>8
    <3> QED BY <3>10, <3>11
  <2> QED BY <2>1, <2>2
<1> QED BY <1>1, <1>2 DEF OneRow

LEMMA MoveOutShown ==
    ASSUME CacheTypes, LogIsStory, ShownInv, NEW i \in 1 .. Len(net), MoveOut(i)
    PROVE  ShownInv'
<1> USE DEF CacheTypes
<1> DEFINE e == log[net[i]]
           g == Gds[e.new]
<1>0. /\ e.oc = "RM" /\ e.new \in Alloc /\ e.old \in Alloc /\ Gds[e.old] = g
      /\ Sub[e.old] \in Subs /\ g \notin Rental
  BY Noticed DEF Subs, MoveOut, NewSub, Skipped
<1>1. CASE Fault("refused") /\ spoiled' = spoiled \cup {"lost"}
  BY <1>1 DEF ShownInv, MovingIsLast, ShownIsRight, RightIsShown, InOrder
<1>2. CASE /\ rgr' = RoomChanged(Sub[e.old], "CO", e.old)
           /\ moving' = moving \cup {e}
           /\ spoiled' = spoiled \cup OrderMark(i) \cup (IF moving = {} THEN {} ELSE {"reordered"})
  <2>1. CASE ~InOrder'
    <3>1. ~(spoiled' \subseteq {"reentry", "noGds"})
      BY <2>1 DEF InOrder
    <3> QED BY <2>1, <3>1 DEF ShownInv, MovingIsLast, ShownIsRight, RightIsShown
  <2>2. CASE InOrder'
    <3>1. i = 1 /\ moving = {} /\ InOrder
      BY <1>2, <2>2 DEF InOrder, OrderMark
    <3>2. /\ Take(1) /\ log' = log /\ moving' = {e} /\ 1 \in 1 .. Len(net)
      BY <1>2, <3>1 DEF MoveOut
    <3>3. /\ NetInOrder'
          /\ IsAt(log, g, Processed, Before(e))
          /\ \A h, x :
                /\ g # h => (IsAt(log, h, Processed', x) <=> IsAt(log, h, Processed, x))
                /\ g = h => (IsAt(log, h, Processed', x) <=> x = After(e))
          /\ Processed \in Nat
      <4>1. NetInOrder
        BY <3>1 DEF ShownInv, MovingIsLast
      <4> QED BY <3>1, <3>2, <4>1, NextEvent
    <3>4. Before(e) = e.old /\ After(e) = e.new
      BY <1>0 DEF Before, After
    <3>5. IsAt(log, g, Processed', e.new)
      BY <3>3, <3>4
    <3>6. MovingIsLast'
      <4> HIDE DEF e
      <4> QED BY <1>0, <3>2, <3>3, <3>5 DEF MovingIsLast
    <3>7. \A s \in Subs : ShownIn(s) =>
             \E x \in Alloc : Sub[x] = s /\ Gds[x] \notin Rental /\ IsAt(log, Gds[x], Processed, x)
      BY <3>1 DEF ShownInv, ShownIsRight
    <3>8. \A x \in Alloc : /\ spoiled \subseteq {"reentry", "noGds"}
                           /\ IsAt(log, Gds[x], Processed, x) /\ Gds[x] \notin Rental
                           => ShownIn(Sub[x]) /\ rgr[Sub[x]].room = x
      BY <3>1 DEF ShownInv, RightIsShown, Moving
    <3> DEFINE Shown(s) == rgr'[s].timeIn /\ ~rgr'[s].timeOut
    <3>9. SUFFICES
            /\ \A s \in Subs : Shown(s) =>
                  \E x \in Alloc : /\ Sub[x] = s /\ Gds[x] \notin Rental /\ Gds[x] # g
                                   /\ IsAt(log, Gds[x], Processed', x)
            /\ \A x \in Alloc : /\ spoiled' \subseteq {"reentry", "noGds"}
                                /\ IsAt(log, Gds[x], Processed', x) /\ Gds[x] \notin Rental
                                /\ Gds[x] # g
                                => Shown(Sub[x]) /\ rgr'[Sub[x]].room = x
      BY <3>2, <3>6 DEF ShownInv, ShownIsRight, RightIsShown, ShownIn, Moving, Subs
    <3>10. /\ \A z \in Subs : z # Sub[e.old] => rgr'[z] = rgr[z]
           /\ ~Shown(Sub[e.old])
      BY <1>0, <1>2, RowWritten
    <3>11. \A z \in Subs : z # Sub[e.old] => (Shown(z) <=> ShownIn(z))
      BY <3>10 DEF ShownIn
    <3>12. ASSUME NEW s \in Subs, Shown(s)
           PROVE  \E x \in Alloc : /\ Sub[x] = s /\ Gds[x] \notin Rental /\ Gds[x] # g
                                   /\ IsAt(log, Gds[x], Processed', x)
      <4>1. s # Sub[e.old] /\ ShownIn(s)
        BY <3>10, <3>11, <3>12
      <4>2. PICK x \in Alloc : /\ Sub[x] = s /\ Gds[x] \notin Rental
                               /\ IsAt(log, Gds[x], Processed, x)
        BY <3>7, <4>1
      <4>3. Gds[x] # g
        BY <3>3, <3>4, <4>1, <4>2, AtOnePlace
      <4> QED BY <3>3, <4>2, <4>3
    <3>13. ASSUME NEW x \in Alloc, spoiled' \subseteq {"reentry", "noGds"},
                  IsAt(log, Gds[x], Processed', x), Gds[x] \notin Rental, Gds[x] # g
           PROVE  Shown(Sub[x]) /\ rgr'[Sub[x]].room = x
      <4>1. spoiled \subseteq {"reentry", "noGds"}
        BY <1>2, <3>13
      <4>2. ShownIn(Sub[x]) /\ rgr[Sub[x]].room = x
        BY <3>3, <3>8, <3>13, <4>1
      <4>3. Sub[x] # Sub[e.old] /\ Sub[x] \in Subs
        BY <1>0, <3>13, OtherSub DEF Subs
      <4> QED BY <3>10, <3>11, <4>2, <4>3
    <3> QED BY <3>12, <3>13
  <2> QED BY <2>1, <2>2
<1> QED BY <1>1, <1>2 DEF MoveOut, FirstRow

LEMMA MoveInShown ==
    ASSUME CacheTypes, ShownInv, NEW e \in moving, MoveIn(e)
    PROVE  ShownInv'
<1> USE DEF CacheTypes
<1> DEFINE g == Gds[e.new]
           Shown(s) == rgr'[s].timeIn /\ ~rgr'[s].timeOut
<1>0. e.new \in Alloc /\ Sub[e.new] \in Subs
  BY DEF CacheTypes, Subs
<1>1. UNCHANGED <<log, net>> /\ moving' = moving \ {e} /\ spoiled \subseteq spoiled'
  BY DEF MoveIn
<1>2. /\ InOrder' => InOrder /\ Processed' = Processed
      /\ spoiled' \subseteq {"reentry", "noGds"} => spoiled \subseteq {"reentry", "noGds"}
  BY <1>1 DEF InOrder, Processed
<1>3. Processed' = Processed
  BY <1>1 DEF Processed
<1>4. MovingIsLast'
  BY <1>1, <1>2, <1>3 DEF ShownInv, MovingIsLast, NetInOrder
<1>5. ASSUME InOrder
      PROVE  /\ moving = {e} /\ IsAt(log, g, Processed, e.new) /\ g \notin Rental
             /\ Processed \in Nat
  <2>1. Len(net) <= Len(log)
    BY <1>5 DEF ShownInv, MovingIsLast, NetInOrder
  <2>2. Processed \in Nat
    BY <2>1, LogTypes DEF Processed
  <2> QED BY <1>5, <2>2 DEF ShownInv, MovingIsLast
<1>6. ASSUME InOrder
      PROVE  \A s \in Subs : ShownIn(s) =>
                \E x \in Alloc : /\ Sub[x] = s /\ Gds[x] \notin Rental
                                 /\ IsAt(log, Gds[x], Processed, x)
  BY <1>6 DEF ShownInv, ShownIsRight
<1>7. ASSUME spoiled \subseteq {"reentry", "noGds"}
      PROVE  \A x \in Alloc : /\ IsAt(log, Gds[x], Processed, x) /\ Gds[x] \notin Rental
                              /\ Gds[x] # g
                              => ShownIn(Sub[x]) /\ rgr[Sub[x]].room = x
  <2>1. moving = {e}
    BY <1>5, <1>7, CleanIsInOrder
  <2> QED BY <1>7, <2>1 DEF ShownInv, RightIsShown, Moving
<1>8. CASE rgr' = RoomChanged(Sub[e.new], "CI", e.new)
  <2>1. /\ \A z \in Subs : z # Sub[e.new] => rgr'[z] = rgr[z]
        /\ rgr'[Sub[e.new]].room = e.new
        /\ Shown(Sub[e.new])
    BY <1>0, <1>8, RowWritten
  <2>2. \A z \in Subs : z # Sub[e.new] => (Shown(z) <=> ShownIn(z))
    BY <2>1 DEF ShownIn
  <2>3. ASSUME InOrder', NEW s \in Subs, Shown(s)
        PROVE  \E x \in Alloc : /\ Sub[x] = s /\ Gds[x] \notin Rental
                                /\ IsAt(log, Gds[x], Processed, x)
    <3>1. CASE s = Sub[e.new]
      BY <1>0, <1>2, <1>5, <2>3, <3>1
    <3>2. CASE s # Sub[e.new]
      BY <1>2, <1>6, <2>2, <2>3, <3>2
    <3> QED BY <3>1, <3>2
  <2>4. ASSUME spoiled' \subseteq {"reentry", "noGds"}, NEW x \in Alloc,
               IsAt(log, Gds[x], Processed, x), Gds[x] \notin Rental
        PROVE  Shown(Sub[x]) /\ rgr'[Sub[x]].room = x
    <3>0. spoiled \subseteq {"reentry", "noGds"} /\ InOrder
      BY <1>2, <2>4, CleanIsInOrder
    <3>1. CASE Gds[x] = g
      <4>1. x = e.new
        BY <1>5, <2>4, <3>0, <3>1, AtOnePlace
      <4> QED BY <2>1, <4>1
    <3>2. CASE Gds[x] # g
      <4>1. ShownIn(Sub[x]) /\ rgr[Sub[x]].room = x
        BY <1>7, <2>4, <3>0, <3>2
      <4>2. Sub[x] # Sub[e.new] /\ Sub[x] \in Subs
        BY <1>0, <3>2, OtherSub DEF Subs
      <4> QED BY <2>1, <2>2, <4>1, <4>2
    <3> QED BY <3>1, <3>2
  <2>5. InOrder' => moving' = {}
    BY <1>1, <1>2, <1>5
  <2>6. ShownIsRight'
    BY <1>1, <1>3, <2>3, <2>5 DEF ShownIsRight, ShownIn, Moving, Subs
  <2>7. RightIsShown'
    BY <1>1, <1>3, <2>4 DEF RightIsShown, ShownIn, Moving
  <2> QED BY <1>4, <2>6, <2>7 DEF ShownInv
<1>9. CASE rgr' = rgr /\ spoiled' = spoiled \cup {"half"}
  <2>1. ShownIsRight'
    BY <1>1, <1>2, <1>3, <1>9 DEF ShownInv, ShownIsRight, ShownIn, Moving, Subs
  <2>2. RightIsShown'
    BY <1>9 DEF RightIsShown
  <2> QED BY <1>4, <2>1, <2>2 DEF ShownInv
<1> QED BY <1>8, <1>9 DEF MoveIn

LEMMA CacheInitInv == CacheInit => CacheInv
<1> SUFFICES ASSUME CacheInit PROVE CacheInv
  OBVIOUS
<1> USE DEF CacheInit, EventsInit
<1>1. Len(log) = 0 /\ Len(net) = 0 /\ Processed = 0
  BY DEF Processed
<1>2. CacheTypes
  BY <1>1 DEF CacheTypes, EventTypes
<1>3. \A g : IsAt(log, g, 0, NoAlloc)
  BY DEF IsAt
<1>4. LogIsStory
  BY <1>1, <1>3 DEF LogIsStory
<1>5. MovingIsLast
  BY <1>1 DEF MovingIsLast, NetInOrder
<1>6. ShownIsRight
  BY DEF ShownIsRight, ShownIn
<1>7. \A x \in Alloc : ~IsAt(log, Gds[x], 0, x)
  BY EventsAssumption DEF IsAt
<1>8. RightIsShown
  BY <1>1, <1>7 DEF RightIsShown
<1> QED BY <1>2, <1>4, <1>5, <1>6, <1>8 DEF CacheInv

LEMMA CacheNextInv == CacheInv /\ [CacheNext]_cacheVars => CacheInv'
<1> SUFFICES ASSUME CacheTypes, LogIsStory, ShownInv, [CacheNext]_cacheVars
             PROVE  CacheTypes' /\ LogIsStory' /\ ShownInv'
  BY DEF CacheInv, ShownInv
<1>1. ASSUME CacheSihot
      PROVE  CacheTypes' /\ LogIsStory' /\ ShownInv'
  <2>1. EventTypes' /\ LogIsStory'
    BY <1>1, SihotTells DEF CacheSihot, CacheTypes
  <2>2. UNCHANGED <<receiver, rgr, moving>>
    BY <1>1 DEF CacheSihot, SihotStep, CheckIn, CheckOut, Move, Emit, NextDay
  <2>3. CacheTypes'
    BY <2>1, <2>2 DEF CacheTypes, Subs
  <2> QED BY <1>1, <2>1, <2>3, SihotKeepsShown DEF CacheSihot
<1>2. ASSUME NEW i \in 1 .. Len(net), OneRow(i)
      PROVE  CacheTypes' /\ LogIsStory' /\ ShownInv'
  <2>1. UNCHANGED <<stay, log>>
    BY <1>2 DEF OneRow
  <2> QED BY <1>2, <2>1, OneRowTypes, StoryKept, OneRowShown
<1>3. ASSUME NEW i \in 1 .. Len(net), MoveOut(i)
      PROVE  CacheTypes' /\ LogIsStory' /\ ShownInv'
  <2>1. UNCHANGED <<stay, log>>
    BY <1>3 DEF MoveOut
  <2> QED BY <1>3, <2>1, MoveOutTypes, StoryKept, MoveOutShown
<1>4. ASSUME NEW i \in 1 .. Len(net), CacheLose(i)
      PROVE  CacheTypes' /\ LogIsStory' /\ ShownInv'
  <2>1. /\ Take(i) /\ UNCHANGED <<receiver, stay, today, log, rgr, moving>>
        /\ Fault("lost") /\ "lost" \in spoiled'
    BY <1>4 DEF CacheLose, Lose
  <2>2. faults' \in Nat
    BY <2>1, Faulty DEF CacheTypes
  <2>3. /\ rgr' \in [Subs -> [room : Alloc \cup {NoAlloc}, timeIn : BOOLEAN, timeOut : BOOLEAN]]
        /\ \A e \in moving' : e.new \in Alloc
    BY <2>1 DEF CacheTypes
  <2>4. CacheTypes'
    BY <2>1, <2>2, <2>3, TakenTypes DEF CacheTypes
  <2>5. ShownInv'
    BY <2>1 DEF ShownInv, MovingIsLast, ShownIsRight, RightIsShown, InOrder
  <2> QED BY <2>1, <2>4, <2>5, StoryKept
<1>5. ASSUME NEW e \in moving, MoveIn(e)
      PROVE  CacheTypes' /\ LogIsStory' /\ ShownInv'
  <2>1. UNCHANGED <<stay, log>>
    BY <1>5 DEF MoveIn
  <2> QED BY <1>5, <2>1, MoveInTypes, StoryKept, MoveInShown
<1>6. ASSUME UNCHANGED cacheVars
      PROVE  CacheTypes' /\ LogIsStory' /\ ShownInv'
  <2>1. UNCHANGED <<receiver, stay, today, log, net, faults, spoiled, rgr, moving>>
    BY <1>6 DEF cacheVars, eventVars
  <2>2. CacheTypes'
    BY <2>1 DEF CacheTypes, EventTypes, Subs
  <2>3. ShownInv'
    BY <2>1 DEF ShownInv, MovingIsLast, ShownIsRight, RightIsShown, InOrder, Processed, ShownIn,
                Moving, Subs, NetInOrder
  <2> QED BY <2>1, <2>2, <2>3, StoryKept
<1> QED BY <1>1, <1>2, <1>3, <1>4, <1>5, <1>6 DEF CacheNext

\* AssCache is consistent with the log of Sihot as far as it was processed (sh_room_change_to_ass).
THEOREM CacheInvariant == CacheSpec => []CacheInv
  BY CacheInitInv, CacheNextInv, PTL DEF CacheSpec

LEMMA InvImpliesAgrees == CacheInv => CacheAgrees
<1> SUFFICES ASSUME CacheInv, net = <<>>, moving = {}, spoiled \subseteq {"reentry", "noGds"},
                    NEW s \in Subs, Known(s)
             PROVE  /\ ShownIn(s) <=> \E a \in Alloc : Sub[a] = s /\ stay[a] = "in"
                    /\ \A a \in Alloc : Sub[a] = s /\ stay[a] = "in" => rgr[s].room = a
  BY DEF CacheAgrees
<1> USE DEF CacheInv
<1>0. Processed = Len(log) /\ Len(log) \in Nat
  BY LogTypes DEF Processed, CacheTypes
<1>1. InOrder
  BY CleanIsInOrder
<1>2. \A a \in Alloc : Sub[a] = s => Gds[a] \notin Rental
  BY SubsAssumption DEF Known
<1>3. ASSUME NEW a \in Alloc, Sub[a] = s, stay[a] = "in"
      PROVE  ShownIn(s) /\ rgr[s].room = a
  <2>1. IsAt(log, Gds[a], Processed, a)
    BY <1>0, <1>3 DEF LogIsStory
  <2> QED BY <1>2, <1>3, <2>1 DEF RightIsShown, Moving
<1>4. ASSUME ShownIn(s)
      PROVE  \E a \in Alloc : Sub[a] = s /\ stay[a] = "in"
  <2>1. PICK x \in Alloc : Sub[x] = s /\ IsAt(log, Gds[x], Len(log), x)
    BY <1>0, <1>1, <1>4 DEF ShownIsRight
  <2>2. ~IsAt(log, Gds[x], Len(log), NoAlloc)
    BY <1>0, <2>1, AtOnePlace, EventsAssumption
  <2>3. PICK b \in Alloc : Gds[b] = Gds[x] /\ stay[b] = "in"
    BY <2>2 DEF LogIsStory
  <2>4. IsAt(log, Gds[x], Len(log), b)
    BY <2>3 DEF LogIsStory
  <2>5. b = x
    BY <1>0, <2>1, <2>4, AtOnePlace
  <2> QED BY <2>1, <2>3, <2>5
<1> QED BY <1>3, <1>4

\* When all events are processed, AssCache shows each sub-reservation where Sihot has it, for any
\* number of bookings, rooms, days and events.
THEOREM CacheShowsSihot == CacheSpec => []CacheAgrees
  BY CacheInvariant, InvImpliesAgrees, PTL

LEMMA InvImpliesOneRoom == CacheInv => NotInTwoRooms
<1> SUFFICES ASSUME CacheInv, InOrder, NEW a \in Alloc, NEW b \in Alloc, Gds[a] = Gds[b],
                    ShownIn(Sub[a]), ShownIn(Sub[b])
             PROVE  Sub[a] = Sub[b]
  BY DEF NotInTwoRooms, InOrder
<1> USE DEF CacheInv
<1>0. Processed \in Nat
  <2>1. Len(net) <= Len(log)
    BY DEF MovingIsLast, NetInOrder
  <2> QED BY <2>1, LogTypes DEF Processed, CacheTypes
<1>1. Sub[a] \in Subs /\ Sub[b] \in Subs
  BY DEF Subs
<1>2. PICK x \in Alloc : Sub[x] = Sub[a] /\ IsAt(log, Gds[x], Processed, x)
  BY <1>1 DEF ShownIsRight
<1>3. PICK y \in Alloc : Sub[y] = Sub[b] /\ IsAt(log, Gds[y], Processed, y)
  BY <1>1 DEF ShownIsRight
<1>4. Gds[x] = Gds[y]
  BY <1>2, <1>3, SubsAssumption
<1>5. x = y
  BY <1>0, <1>2, <1>3, <1>4, AtOnePlace
<1> QED BY <1>2, <1>3, <1>5

\* No guest is shown in two rooms, not even between the two rows of a move.
THEOREM GuestInOneRoom == CacheSpec => []NotInTwoRooms
  BY CacheInvariant, InvImpliesOneRoom, PTL
=============================================================================
