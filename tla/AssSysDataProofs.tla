--------------------------- MODULE AssSysDataProofs ---------------------------
(***************************************************************************)
(* Proofs about the modules of AssSysData: the clients that it finds and   *)
(* creates while it saves reservations (1. to 3.), the ids of a reservation*)
(* (4.) and the RCI weeks (5.), for every number of reservations, guests,  *)
(* rows and dates.                                                         *)
(***************************************************************************)
EXTENDS AssClients, ResIds, RciWeeks, TLAPS

-----------------------------------------------------------------------------
(***************************************************************************)
(* 1. AssClients: the type invariant.                                      *)
(***************************************************************************)

\* The guest that a program works at has a name and ids.
LEMMA GuestType ==
    ASSUME TypeOK, NEW a \in Programs, stage[a] \in {"find", "create"}, at[a] <= Len(guests[res[a]])
    PROVE  Guest(a) \in GuestIds /\ res[a] \in Reservations /\ at[a] \in 1 .. Len(guests[res[a]])
<1>1. res[a] \in Reservations /\ at[a] \in Nat /\ 1 <= at[a]
  BY DEF TypeOK, AtGuest
<1>2. guests[res[a]] \in Seq(GuestIds)
  BY <1>1, ClientsAssumption
<1> QED BY <1>1, <1>2 DEF Guest

\* At its creation it is one of the reservation.
LEMMA CreatedGuest ==
    ASSUME TypeOK, NEW a \in Programs, stage[a] = "create"
    PROVE  Guest(a) \in GuestIds /\ res[a] \in Reservations /\ at[a] \in 1 .. Len(guests[res[a]])
    BY GuestType DEF TypeOK, AtGuest

\* What a look-up finds are rows, or records, of the guest.
LEMMA FoundClient ==
    ASSUME TypeOK, NEW a \in Programs, NEW g, NEW c \in KnownClients(a, g)
    PROVE  c \in Clients /\ c.who = g.who /\ c \in cached[a] \cup Visible(a)
<1>1. cached[a] \subseteq Clients /\ Visible(a) \subseteq Clients
  BY DEF TypeOK, Visible
<1>2. \E ids \in {IdKinds, {"sh"}, {"ac"}} : c \in LookUp(a, g.who, ids)
  BY DEF KnownClients, FirstNonEmpty, ClAssIdByShId, ClAssIdByAcId
<1>3. c \in cached[a] \cup Visible(a) /\ c.who = g.who
  BY <1>2 DEF LookUp, WithIds
<1> QED BY <1>1, <1>3

\* The end of a reservation's transaction, and of a run, in the types.
LEMMA OverTypes ==
    ASSUME TypeOK, NEW a \in Programs
    PROVE  /\ ResOver(a) =>
                /\ inserted' \in [Programs -> SUBSET Clients]
                /\ res' \in [Programs -> Reservations \cup {NoRes}]
                /\ at' \in [Programs -> Nat]
                /\ refs' \in [Programs -> SUBSET [at : Nat, who : Guests, pk : Nat]]
                /\ \A b \in Programs \ {a} :
                      inserted'[b] = inserted[b] /\ res'[b] = res[b] /\ at'[b] = at[b]
           /\ RunOver(a) =>
                /\ stage' \in [Programs -> Stages]
                /\ left' \in [Programs -> SUBSET Reservations]
                /\ cached' \in [Programs -> SUBSET Clients]
                /\ stage'[a] = "off"
                /\ \A b \in Programs \ {a} : stage'[b] = stage[b]
    BY DEF TypeOK, ResOver, RunOver, Stages

\* A program that has ended its work at a reservation; the other is at its guest still.
LEMMA OthersAtGuest ==
    ASSUME TypeOK, NEW a \in Programs, stage'[a] \in {"off", "next"},
           \A b \in Programs \ {a} : stage'[b] = stage[b] /\ res'[b] = res[b] /\ at'[b] = at[b]
    PROVE  AtGuest'
    BY DEF TypeOK, AtGuest

LEMMA RollbackTypes ==
    ASSUME TypeOK, NEW a \in Programs, Rollback(a), faults' \in Nat
    PROVE  TypeOK'
<1>1. /\ ResOver(a)
      /\ RunOver(a) \/ (stage' = [stage EXCEPT ![a] = "next"] /\ UNCHANGED <<left, cached>>)
      /\ UNCHANGED <<clients, nextPk, tables, raced>>
  BY DEF Rollback
<1>2. CASE RunOver(a)
  BY <1>1, <1>2, OverTypes, OthersAtGuest DEF TypeOK, tables
<1>3. CASE stage' = [stage EXCEPT ![a] = "next"] /\ UNCHANGED <<left, cached>>
  <2>1. stage' \in [Programs -> Stages] /\ stage'[a] = "next"
        /\ (\A b \in Programs \ {a} : stage'[b] = stage[b])
    BY <1>3 DEF TypeOK, Stages
  <2> QED BY <1>1, <1>3, <2>1, OverTypes, OthersAtGuest DEF TypeOK, tables
<1> QED BY <1>1, <1>2, <1>3

\* A guest that is found, or was created, is one of the reservation's clients.
LEMMA NextGuestTypes ==
    ASSUME TypeOK, NEW a \in Programs, NEW pk \in Nat, NextGuest(a, pk), UNCHANGED res,
           stage[a] \in {"find", "create"}, at[a] <= Len(guests[res[a]])
    PROVE  /\ refs' \in [Programs -> SUBSET [at : Nat, who : Guests, pk : Nat]]
           /\ at' \in [Programs -> Nat] /\ stage' \in [Programs -> Stages]
           /\ AtGuest'
<1>1. Guest(a).who \in Guests /\ res[a] \in Reservations /\ at[a] \in 1 .. Len(guests[res[a]])
  BY GuestType DEF GuestIds
<1>2. [at |-> at[a], who |-> Guest(a).who, pk |-> pk] \in [at : Nat, who : Guests, pk : Nat]
  BY <1>1
<1>3. refs' \in [Programs -> SUBSET [at : Nat, who : Guests, pk : Nat]]
  BY <1>2 DEF NextGuest, TypeOK
<1>4. /\ at' = [at EXCEPT ![a] = at[a] + 1] /\ at \in [Programs -> Nat]
      /\ stage' = [stage EXCEPT ![a] = "find"] /\ stage \in [Programs -> Stages]
  BY DEF NextGuest, TypeOK
<1>5. at' \in [Programs -> Nat] /\ stage' \in [Programs -> Stages]
  BY <1>4 DEF Stages
<1>6. Len(guests[res[a]]) \in Nat
  BY <1>1, ClientsAssumption
<1>7. AtGuest'
  <2> SUFFICES ASSUME NEW b \in Programs, stage'[b] \in {"find", "create", "save", "occupants"}
               PROVE  /\ res[b] \in Reservations /\ at'[b] \in Nat \ {0}
                      /\ stage'[b] # "occupants" => at'[b] <= Len(guests[res[b]]) + 1
                      /\ stage'[b] = "create" => at'[b] <= Len(guests[res[b]])
    BY DEF AtGuest
  <2>1. CASE b = a
    BY <1>1, <1>4, <1>6, <2>1
  <2>2. CASE b # a
    BY <1>4, <2>2 DEF TypeOK, AtGuest
  <2> QED BY <2>1, <2>2
<1> QED BY <1>3, <1>5, <1>7

\* The rows that are stored.
LEMMA StoredTypes ==
    ASSUME TypeOK, NEW a \in Programs, NEW ns, StoreRows(a, ns), res[a] \in Reservations
    PROVE  stored' \subseteq [res : Reservations, at : Nat, who : Guests, pk : Nat]
<1>1. refs[a] \subseteq [at : Nat, who : Guests, pk : Nat]
  BY DEF TypeOK
<1>2. \A f \in refs[a] : [res |-> res[a], at |-> f.at, who |-> f.who, pk |-> f.pk]
                            \in [res : Reservations, at : Nat, who : Guests, pk : Nat]
  BY <1>1
<1> QED BY <1>2 DEF StoreRows, FoundAs, TypeOK

\* Every step keeps the types.
LEMMA NextTypes == TypeOK /\ [Next]_vars => TypeOK'
<1> SUFFICES ASSUME TypeOK, [Next]_vars PROVE TypeOK'
  OBVIOUS
<1>1. ASSUME NEW a \in Programs, StartRun(a) PROVE TypeOK'
  <2>1. ToDo(a) \subseteq Reservations
    BY DEF ToDo
  <2>2. /\ stage' = [stage EXCEPT ![a] = "next"]
        /\ left' = [left EXCEPT ![a] = ToDo(a)]
        /\ UNCHANGED <<clients, nextPk, tables, inserted, cached, res, at, refs, raced, faults>>
    BY <1>1 DEF StartRun
  <2> QED BY <2>1, <2>2 DEF TypeOK, Stages, AtGuest, tables
<1>2. ASSUME NEW a \in Programs, StartRes(a) PROVE TypeOK'
  <2>1. PICK r \in left[a] : left' = [left EXCEPT ![a] = @ \ {r}] /\ res' = [res EXCEPT ![a] = r]
    BY <1>2 DEF StartRes
  <2>2. r \in Reservations
    BY <2>1 DEF TypeOK
  <2>3. Len(guests[r]) \in Nat
    BY <2>2, ClientsAssumption
  <2>4. /\ stage' = [stage EXCEPT ![a] = "find"] /\ at' = [at EXCEPT ![a] = 1]
        /\ refs' = [refs EXCEPT ![a] = {}]
        /\ UNCHANGED <<clients, nextPk, tables, inserted, cached, raced, faults>>
    BY <1>2 DEF StartRes
  <2>5. AtGuest'
    <3> SUFFICES ASSUME NEW b \in Programs, stage'[b] \in {"find", "create", "save", "occupants"}
                 PROVE  /\ res'[b] \in Reservations /\ at'[b] \in Nat \ {0}
                        /\ stage'[b] # "occupants" => at'[b] <= Len(guests[res'[b]]) + 1
                        /\ stage'[b] = "create" => at'[b] <= Len(guests[res'[b]])
      BY DEF AtGuest
    <3>1. CASE b = a
      BY <2>1, <2>2, <2>3, <2>4, <3>1 DEF TypeOK
    <3>2. CASE b # a
      BY <2>1, <2>4, <3>2 DEF TypeOK, AtGuest
    <3> QED BY <3>1, <3>2
  <2> QED BY <2>1, <2>2, <2>4, <2>5 DEF TypeOK, Stages, tables
<1>3. ASSUME NEW a \in Programs, EndRun(a) PROVE TypeOK'
  <2>1. RunOver(a) /\ UNCHANGED <<clients, nextPk, tables, inserted, res, at, refs, raced, faults>>
    BY <1>3 DEF EndRun
  <2> QED BY <2>1, OverTypes, OthersAtGuest DEF TypeOK, tables
<1>4. ASSUME NEW a \in Programs, Find(a) PROVE TypeOK'
  <2>1. /\ stage[a] = "find" /\ at[a] <= Len(guests[res[a]])
        /\ UNCHANGED <<clients, nextPk, tables, inserted, cached, left, res, faults>>
    BY <1>4 DEF Find
  <2>2. CASE \E c \in KnownClients(a, Guest(a)) : NextGuest(a, c.pk) /\ UNCHANGED raced
    <3>1. PICK c \in KnownClients(a, Guest(a)) : NextGuest(a, c.pk) /\ UNCHANGED raced
      BY <2>2
    <3>2. c.pk \in Nat
      BY FoundClient DEF Clients
    <3> QED BY <2>1, <3>1, <3>2, NextGuestTypes DEF TypeOK, tables
  <2>3. CASE /\ stage' = [stage EXCEPT ![a] = "create"]
             /\ raced' = raced \cup Races(a, Guest(a))
             /\ UNCHANGED <<at, refs>>
    <3>1. Races(a, Guest(a)) \subseteq Guests
      BY <2>1, GuestType DEF Races, GuestIds
    <3>2. AtGuest'
      <4> SUFFICES ASSUME NEW b \in Programs, stage'[b] \in {"find", "create", "save", "occupants"}
                   PROVE  /\ res[b] \in Reservations /\ at[b] \in Nat \ {0}
                          /\ stage'[b] # "occupants" => at[b] <= Len(guests[res[b]]) + 1
                          /\ stage'[b] = "create" => at[b] <= Len(guests[res[b]])
        BY <2>1, <2>3 DEF AtGuest
      <4>1. CASE b = a
        BY <2>1, <4>1 DEF TypeOK, AtGuest
      <4>2. CASE b # a
        BY <2>3, <4>2 DEF TypeOK, AtGuest
      <4> QED BY <4>1, <4>2
    <3> QED BY <2>1, <2>3, <3>1, <3>2 DEF TypeOK, Stages, tables
  <2> QED BY <1>4, <2>2, <2>3 DEF Find
<1>5. ASSUME NEW a \in Programs, FoundAll(a) PROVE TypeOK'
  BY <1>5 DEF FoundAll, TypeOK, Stages, AtGuest, tables
<1>6. ASSUME NEW a \in Programs, ClSave(a) PROVE TypeOK'
  <2>1. /\ stage[a] = "create" /\ UNCHANGED <<clients, tables, left, res, faults>>
    BY <1>6 DEF ClSave
  <2>2. Guest(a) \in GuestIds /\ at[a] <= Len(guests[res[a]])
    BY <2>1, CreatedGuest DEF TypeOK, AtGuest
  <2>3. CASE Insert(a, Guest(a))
    <3> DEFINE g == Guest(a)
               new == [pk |-> nextPk, who |-> g.who, ids |-> g.ids]
    <3>1. /\ inserted' = [inserted EXCEPT ![a] = @ \cup {new}] /\ nextPk' = nextPk + 1
          /\ cached' = [cached EXCEPT ![a] = @ \cup {new}]
          /\ raced' = raced \cup Races(a, g) /\ NextGuest(a, nextPk)
      BY <2>3 DEF Insert
    <3>2. new \in Clients
      BY <2>2 DEF TypeOK, Clients, GuestIds
    <3>3. Races(a, g) \subseteq Guests
      BY <2>2 DEF Races, GuestIds
    <3> HIDE DEF new, g
    <3>4. inserted' \in [Programs -> SUBSET Clients] /\ cached' \in [Programs -> SUBSET Clients]
      BY <3>1, <3>2 DEF TypeOK
    <3>5. nextPk \in Nat /\ nextPk' \in Nat /\ raced' \subseteq Guests
      BY <3>1, <3>3 DEF TypeOK
    <3> QED BY <2>1, <2>2, <3>1, <3>4, <3>5, NextGuestTypes DEF TypeOK, tables
  <2>4. ASSUME NEW c \in WithIds(Visible(a), Guest(a).who, Guest(a).ids), Update(a, Guest(a), c)
        PROVE  TypeOK'
    <3> DEFINE new == [pk |-> c.pk, who |-> Guest(a).who, ids |-> Guest(a).ids]
    <3>1. /\ cached' = [cached EXCEPT ![a] = @ \cup {new}] /\ NextGuest(a, c.pk)
          /\ UNCHANGED <<inserted, nextPk, raced>>
      BY <2>4 DEF Update
    <3>2. c \in Clients
      BY DEF WithIds, Visible, TypeOK
    <3>3. c.pk \in Nat /\ new \in Clients
      BY <2>2, <3>2 DEF Clients, GuestIds
    <3> HIDE DEF new
    <3>4. cached' \in [Programs -> SUBSET Clients]
      BY <3>1, <3>3 DEF TypeOK
    <3> QED BY <2>1, <2>2, <3>1, <3>3, <3>4, NextGuestTypes DEF TypeOK, tables
  <2> QED BY <1>6, <2>3, <2>4 DEF ClSave
<1>7. ASSUME NEW a \in Programs, Commit(a) \/ ResDone(a) PROVE TypeOK'
  <2>1. /\ ResOver(a) /\ stage' = [stage EXCEPT ![a] = "next"] /\ half' = half \ {res[a]}
        /\ stage[a] \in {"save", "occupants"}
        /\ \/ stored' = stored /\ clients' = clients /\ synced' = synced
           \/ /\ StoreRows(a, Numbers(res[a])) /\ clients' = clients \cup inserted[a]
              /\ synced' = synced \cup {res[a]}
        /\ UNCHANGED <<nextPk, cached, left, raced, faults>>
    BY <1>7 DEF Commit, ResDone, ResSaved
  <2>2. res[a] \in Reservations
    BY <2>1 DEF TypeOK, AtGuest
  <2>3. clients' \subseteq Clients /\ synced' \subseteq Reservations /\ half' \subseteq Reservations
    BY <2>1, <2>2 DEF TypeOK
  <2>4. stored' \subseteq [res : Reservations, at : Nat, who : Guests, pk : Nat]
    BY <2>1, <2>2, StoredTypes DEF TypeOK
  <2>5. /\ stage' \in [Programs -> Stages] /\ stage'[a] = "next"
        /\ \A b \in Programs \ {a} : stage'[b] = stage[b]
    BY <2>1 DEF TypeOK, Stages
  <2> QED BY <2>1, <2>3, <2>4, <2>5, OverTypes, OthersAtGuest DEF TypeOK
<1>11. ASSUME NEW a \in Programs, CommitRes(a) \/ CommitOccupant(a) PROVE TypeOK'
  <2>1. PICK n \in Nat : StoreRows(a, {n})
    <3>1. CommitOccupant(a) => StoreRows(a, {at[a]}) /\ at[a] \in Nat
      BY DEF CommitOccupant, TypeOK
    <3> QED BY <1>11, <3>1 DEF CommitRes
  <2>2. /\ stage[a] \in {"save", "occupants"} /\ stage' = [stage EXCEPT ![a] = "occupants"]
        /\ clients' \subseteq clients \cup inserted[a]
        /\ half' \subseteq half \cup {res[a]}
        /\ inserted' = inserted \/ inserted' = [inserted EXCEPT ![a] = {}]
        /\ UNCHANGED <<nextPk, synced, cached, left, res, refs, raced, faults>>
        /\ \/ at' = [at EXCEPT ![a] = 2]
           \/ at' = [at EXCEPT ![a] = @ + 1] /\ at[a] <= Len(guests[res[a]])
    <3>1. CASE CommitRes(a)
      BY <3>1 DEF CommitRes
    <3>2. CASE CommitOccupant(a)
      <4>1. stage' = [stage EXCEPT ![a] = "occupants"]
        BY <3>2 DEF CommitOccupant, TypeOK
      <4> QED BY <3>2, <4>1 DEF CommitOccupant
    <3> QED BY <1>11, <3>1, <3>2
  <2>3. res[a] \in Reservations /\ Len(guests[res[a]]) \in Nat
    BY <2>2, ClientsAssumption DEF TypeOK, AtGuest
  <2>4. stored' \subseteq [res : Reservations, at : Nat, who : Guests, pk : Nat]
    BY <2>1, <2>3, StoredTypes
  <2>5. /\ clients' \subseteq Clients /\ half' \subseteq Reservations /\ inserted' \in [Programs -> SUBSET Clients]
        /\ stage' \in [Programs -> Stages] /\ at' \in [Programs -> Nat]
    <3>1. clients' \subseteq Clients /\ half' \subseteq Reservations
      BY <2>2, <2>3 DEF TypeOK
    <3>2. inserted' \in [Programs -> SUBSET Clients]
      BY <2>2 DEF TypeOK
    <3>3. stage' \in [Programs -> Stages]
      BY <2>2 DEF TypeOK, Stages
    <3>4. at' \in [Programs -> Nat]
      BY <2>2 DEF TypeOK
    <3> QED BY <3>1, <3>2, <3>3, <3>4
  <2>6. AtGuest'
    <3> SUFFICES ASSUME NEW b \in Programs, stage'[b] \in {"find", "create", "save", "occupants"}
                 PROVE  /\ res[b] \in Reservations
                        /\ at'[b] \in Nat \ {0}
                        /\ stage'[b] # "occupants" => at'[b] <= Len(guests[res[b]]) + 1
                        /\ stage'[b] = "create" => at'[b] <= Len(guests[res[b]])
      BY <2>2 DEF AtGuest
    <3>1. CASE b = a
      <4>1. at'[a] = 2 \/ (at'[a] = at[a] + 1 /\ at[a] <= Len(guests[res[a]]))
        BY <2>2 DEF TypeOK
      <4>2. stage'[a] = "occupants" /\ at[a] \in Nat
        BY <2>2 DEF TypeOK
      <4> QED BY <2>3, <3>1, <4>1, <4>2
    <3>2. CASE b # a
      <4>1. stage'[b] = stage[b] /\ at'[b] = at[b]
        BY <2>2, <3>2 DEF TypeOK
      <4> QED BY <4>1 DEF TypeOK, AtGuest
    <3> QED BY <3>1, <3>2
  <2> QED BY <2>2, <2>4, <2>5, <2>6 DEF TypeOK
<1>8. ASSUME NEW a \in Programs, SaveRefused(a) \/ SaveRejected(a) PROVE TypeOK'
  <2>1. Rollback(a) /\ faults' \in Nat
    BY <1>8 DEF SaveRefused, SaveRejected, TypeOK
  <2> QED BY <2>1, RollbackTypes
<1>9. ASSUME NEW a \in Programs, Killed(a) PROVE TypeOK'
  <2>1. ResOver(a) /\ RunOver(a) /\ faults' = faults + 1
        /\ UNCHANGED <<clients, nextPk, tables, raced>>
    BY <1>9 DEF Killed
  <2> QED BY <2>1, OverTypes, OthersAtGuest DEF TypeOK, tables
<1>10. CASE UNCHANGED vars
  BY <1>10 DEF vars, TypeOK, AtGuest, tables
<1> QED BY <1>1, <1>2, <1>3, <1>4, <1>5, <1>6, <1>7, <1>8, <1>9, <1>10, <1>11 DEF Next, RunStep

\* Every variable keeps its type, and a program that works at a guest works at one of its
\* reservation.
THEOREM ClientTypes == Spec => []TypeOK
<1>1. Init => TypeOK
  BY ClientsAssumption DEF Init, TypeOK, Stages, AtGuest
<1> QED BY <1>1, NextTypes, PTL DEF Spec

-----------------------------------------------------------------------------
(***************************************************************************)
(* 2. A key stands for one guest, so that a saved reservation belongs to   *)
(* its guests.                                                             *)
(***************************************************************************)

\* Who holds a key.
LEMMA HoldersOf ==
    \A x : x \in Holders <=>
              \/ x \in clients
              \/ \E a \in Programs : x \in inserted[a] \/ x \in cached[a] \/ x \in refs[a]
    BY DEF Holders, Rows, Programs

\* A step after which a key is held that was held for the same guest before, or that the
\* sequence has just given.
LEMMA KeysKept ==
    ASSUME TypeOK, KeyNamesOneGuest, NEW w,
           nextPk' \in {nextPk, nextPk + 1},
           \A x \in Holders' : \/ \E y \in Holders : y.pk = x.pk /\ y.who = x.who
                               \/ x.pk = nextPk /\ x.who = w /\ nextPk' = nextPk + 1
    PROVE  KeyNamesOneGuest'
<1>0. nextPk \in Nat
  BY DEF TypeOK
<1>1. \A y \in Holders : y.pk \in Nat /\ y.pk < nextPk
  BY DEF KeyNamesOneGuest, Holders, Rows, TypeOK, Clients, Programs
<1>2. \A x \in Holders' : x.pk < nextPk'
  BY <1>0, <1>1
<1>3. ASSUME NEW x \in Holders', NEW y \in Holders', x.pk = y.pk PROVE x.who = y.who
  <2>1. CASE x.pk = nextPk
    <3>1. \A z \in Holders : z.pk # nextPk
      BY <1>0, <1>1
    <3>2. x.who = w
      BY <2>1, <3>1
    <3>3. y.who = w
      BY <1>3, <2>1, <3>1
    <3> QED BY <3>2, <3>3
  <2>2. CASE x.pk # nextPk
    BY <1>3, <2>2 DEF KeyNamesOneGuest
  <2> QED BY <2>1, <2>2
<1> QED BY <1>2, <1>3 DEF KeyNamesOneGuest

\* No key is new where rows, records and foreign keys only get less, or move.
LEMMA HoldersKept ==
    ASSUME TypeOK, KeyNamesOneGuest, UNCHANGED nextPk, Holders' \subseteq Holders
    PROVE  KeyNamesOneGuest'
<1>1. \A x \in Holders' : \E y \in Holders : y.pk = x.pk /\ y.who = x.who
  OBVIOUS
<1> QED BY <1>1, KeysKept

\* What a program forgets at the end of a reservation, and of its run.
LEMMA OverHolds ==
    ASSUME TypeOK, NEW a \in Programs, NEW b \in Programs
    PROVE  /\ ResOver(a) => /\ inserted'[b] \subseteq inserted[b]
                            /\ refs'[b] \subseteq refs[b]
           /\ RunOver(a) => cached'[b] \subseteq cached[b]
    BY DEF TypeOK, ResOver, RunOver

\* Every step keeps the keys.
LEMMA NextKeepsKeys == TypeOK /\ KeyNamesOneGuest /\ [Next]_vars => KeyNamesOneGuest'
<1> SUFFICES ASSUME TypeOK, KeyNamesOneGuest, [Next]_vars PROVE KeyNamesOneGuest'
  OBVIOUS
<1>1. ASSUME UNCHANGED <<clients, nextPk>>,
             \A b \in Programs : inserted'[b] \subseteq inserted[b] /\ cached'[b] \subseteq cached[b]
                                 /\ refs'[b] \subseteq refs[b]
      PROVE  KeyNamesOneGuest'
  <2>1. Holders' \subseteq Holders
    BY <1>1 DEF Holders, Rows, Programs
  <2> QED BY <1>1, <2>1, HoldersKept
<1>2. ASSUME NEW a \in Programs, StartRun(a) \/ FoundAll(a) PROVE KeyNamesOneGuest'
  BY <1>1, <1>2 DEF StartRun, FoundAll
<1>3. ASSUME NEW a \in Programs, StartRes(a) PROVE KeyNamesOneGuest'
  <2>1. \A b \in Programs : refs'[b] \subseteq refs[b]
    BY <1>3 DEF StartRes, TypeOK
  <2> QED BY <1>1, <1>3, <2>1 DEF StartRes
<1>4. ASSUME NEW a \in Programs, EndRun(a) PROVE KeyNamesOneGuest'
  BY <1>1, <1>4, OverHolds DEF EndRun
<1>5. ASSUME NEW a \in Programs, Find(a) PROVE KeyNamesOneGuest'
  <2>1. UNCHANGED <<clients, nextPk, inserted, cached>> /\ stage[a] = "find"
    BY <1>5 DEF Find
  <2>2. CASE UNCHANGED refs
    BY <1>1, <2>1, <2>2
  <2>3. ASSUME NEW c \in KnownClients(a, Guest(a)), NextGuest(a, c.pk) PROVE KeyNamesOneGuest'
    <3>1. c \in Holders /\ c.who = Guest(a).who
      BY FoundClient, HoldersOf DEF Visible
    <3>2. \A b \in Programs :
             refs'[b] \subseteq refs[b] \cup {[at |-> at[a], who |-> Guest(a).who, pk |-> c.pk]}
      BY <2>3 DEF NextGuest, TypeOK
    <3>3. \A x \in Holders' : x \in Holders \/ x = [at |-> at[a], who |-> Guest(a).who, pk |-> c.pk]
      BY <2>1, <3>2 DEF Holders, Rows, Programs
    <3>4. \A x \in Holders' : \E y \in Holders : y.pk = x.pk /\ y.who = x.who
      BY <3>1, <3>3
    <3> QED BY <2>1, <3>4, KeysKept
  <2> QED BY <1>5, <2>2, <2>3 DEF Find
<1>6. ASSUME NEW a \in Programs, ClSave(a) PROVE KeyNamesOneGuest'
  <2> DEFINE who == Guest(a).who
             ids == Guest(a).ids
  <2>1. UNCHANGED clients
    BY <1>6 DEF ClSave
  <2>2. CASE Insert(a, Guest(a))
    <3> DEFINE new == [pk |-> nextPk, who |-> who, ids |-> ids]
               ref == [at |-> at[a], who |-> who, pk |-> nextPk]
    <3>1. /\ inserted' = [inserted EXCEPT ![a] = @ \cup {new}]
          /\ cached' = [cached EXCEPT ![a] = @ \cup {new}]
          /\ refs' = [refs EXCEPT ![a] = @ \cup {ref}]
          /\ nextPk' = nextPk + 1
      BY <2>2 DEF Insert, NextGuest
    <3>2. new.pk = nextPk /\ new.who = who /\ ref.pk = nextPk /\ ref.who = who
      OBVIOUS
    <3> HIDE DEF new, ref, who, ids
    <3>3. \A b \in Programs : /\ inserted'[b] \subseteq inserted[b] \cup {new}
                              /\ cached'[b] \subseteq cached[b] \cup {new}
                              /\ refs'[b] \subseteq refs[b] \cup {ref}
      BY <3>1 DEF TypeOK
    <3>4. \A x \in Holders' : x \in Holders \/ x = new \/ x = ref
      BY <2>1, <3>3 DEF Holders, Rows, Programs
    <3>5. \A x \in Holders' : \/ \E y \in Holders : y.pk = x.pk /\ y.who = x.who
                              \/ x.pk = nextPk /\ x.who = who /\ nextPk' = nextPk + 1
      BY <3>1, <3>2, <3>4
    <3> QED BY <3>1, <3>5, KeysKept
  <2>3. ASSUME NEW c \in WithIds(Visible(a), who, ids), Update(a, Guest(a), c)
        PROVE  KeyNamesOneGuest'
    <3> DEFINE new == [pk |-> c.pk, who |-> who, ids |-> ids]
               ref == [at |-> at[a], who |-> who, pk |-> c.pk]
    <3>1. /\ cached' = [cached EXCEPT ![a] = @ \cup {new}]
          /\ refs' = [refs EXCEPT ![a] = @ \cup {ref}]
          /\ UNCHANGED <<inserted, nextPk>>
      BY <2>3 DEF Update, NextGuest
    <3>2. new.pk = c.pk /\ new.who = who /\ ref.pk = c.pk /\ ref.who = who
      OBVIOUS
    <3>3. c \in Holders /\ c.who = who
      BY HoldersOf DEF WithIds, Visible
    <3> HIDE DEF new, ref, who, ids
    <3>4. \A b \in Programs : /\ cached'[b] \subseteq cached[b] \cup {new}
                              /\ refs'[b] \subseteq refs[b] \cup {ref}
      BY <3>1 DEF TypeOK
    <3>5. \A x \in Holders' : x \in Holders \/ x = new \/ x = ref
      BY <2>1, <3>1, <3>4 DEF Holders, Rows, Programs
    <3>6. \A x \in Holders' : \E y \in Holders : y.pk = x.pk /\ y.who = x.who
      BY <3>2, <3>3, <3>5
    <3> QED BY <3>1, <3>6, KeysKept
  <2> QED BY <1>6, <2>2, <2>3 DEF ClSave
<1>11. ASSUME NEW a \in Programs, CommitRes(a) \/ CommitOccupant(a) \/ ResDone(a) PROVE KeyNamesOneGuest'
  <2>1. /\ clients' \subseteq clients \cup inserted[a] /\ UNCHANGED <<nextPk, cached>>
        /\ \A b \in Programs : inserted'[b] \subseteq inserted[b] /\ refs'[b] \subseteq refs[b]
    BY <1>11, OverHolds DEF CommitRes, CommitOccupant, ResDone, ResSaved, TypeOK
  <2>2. Holders' \subseteq Holders
    BY <2>1 DEF Holders, Rows, Programs
  <2> QED BY <2>1, <2>2, HoldersKept
<1>7. ASSUME NEW a \in Programs, Commit(a) PROVE KeyNamesOneGuest'
  <2>1. /\ clients' = clients \cup inserted[a] /\ ResOver(a) /\ UNCHANGED <<nextPk, cached>>
    BY <1>7 DEF Commit, ResSaved
  <2>2. \A b \in Programs : inserted'[b] \subseteq inserted[b] /\ refs'[b] \subseteq refs[b]
    BY <2>1, OverHolds
  <2>3. Holders' \subseteq Holders
    BY <2>1, <2>2 DEF Holders, Rows, Programs
  <2> QED BY <2>1, <2>3, HoldersKept
<1>8. ASSUME NEW a \in Programs, SaveRefused(a) \/ SaveRejected(a) PROVE KeyNamesOneGuest'
  <2>1. ResOver(a) /\ (RunOver(a) \/ UNCHANGED cached) /\ UNCHANGED <<clients, nextPk>>
    BY <1>8 DEF SaveRefused, SaveRejected, Rollback
  <2>2. \A b \in Programs : inserted'[b] \subseteq inserted[b] /\ cached'[b] \subseteq cached[b]
                            /\ refs'[b] \subseteq refs[b]
    BY <2>1, OverHolds
  <2> QED BY <1>1, <2>1, <2>2
<1>9. ASSUME NEW a \in Programs, Killed(a) PROVE KeyNamesOneGuest'
  BY <1>1, <1>9, OverHolds DEF Killed
<1>10. CASE UNCHANGED vars
  BY <1>1, <1>10 DEF vars
<1> QED BY <1>2, <1>3, <1>4, <1>5, <1>6, <1>7, <1>8, <1>9, <1>10, <1>11 DEF Next, RunStep

\* What a commit leaves of the rows of res_groups and res_group_clients: none goes, and those of the
\* guests that it stores are there.
LEMMA StoredRows ==
    ASSUME TypeOK, FoundInOrder, RightGuest, NEW a \in Programs, stage[a] \in {"save", "occupants"},
           NEW ns, StoreRows(a, ns)
    PROVE  /\ \A r, n : HasRow(r, n) => HasRow(r, n)'
           /\ \A r, n : r = res[a] /\ n \in ns \cap Numbers(r) => HasRow(r, n)'
           /\ \A s \in stored' : \/ s \in stored
                                 \/ \E f \in FoundAs(a, ns) :
                                       s = [res |-> res[a], at |-> f.at, who |-> f.who, pk |-> f.pk]
<1>1. stored' = {s \in stored : s.res # res[a] \/ s.at \notin ns}
                \cup {[res |-> res[a], at |-> f.at, who |-> f.who, pk |-> f.pk] : f \in FoundAs(a, ns)}
  BY DEF StoreRows
<1>2. \A n \in Numbers(res[a]) : \E f \in refs[a] : f.at = n
  BY DEF FoundInOrder, InOrder
<1>3. ASSUME NEW r, r = res[a], NEW n \in ns \cap Numbers(r) PROVE HasRow(r, n)'
  <2>1. PICK f \in refs[a] : f.at = n
    BY <1>2, <1>3
  <2> DEFINE s == [res |-> res[a], at |-> f.at, who |-> f.who, pk |-> f.pk]
  <2>2. s \in stored' /\ s.at = n /\ s.res = r
    BY <1>1, <1>3, <2>1 DEF FoundAs
  <2> HIDE DEF s
  <2> QED BY <2>2 DEF HasRow
<1>4. ASSUME NEW r, NEW n, HasRow(r, n) PROVE HasRow(r, n)'
  <2>1. PICK s \in stored : s.res = r /\ s.at = n
    BY <1>4 DEF HasRow
  <2>2. CASE s.res # res[a] \/ s.at \notin ns
    BY <1>1, <2>1, <2>2 DEF HasRow
  <2>3. CASE s.res = res[a] /\ s.at \in ns
    <3>1. n \in ns \cap Numbers(res[a]) /\ r = res[a]
      BY <2>1, <2>3 DEF RightGuest
    <3>2. PICK f \in refs[a] : f.at = n
      BY <1>2, <3>1
    <3> DEFINE t == [res |-> res[a], at |-> f.at, who |-> f.who, pk |-> f.pk]
    <3>3. t \in stored' /\ t.at = n /\ t.res = r
      BY <1>1, <3>1, <3>2 DEF FoundAs
    <3> HIDE DEF t
    <3> QED BY <3>3 DEF HasRow
  <2> QED BY <2>2, <2>3
<1> QED BY <1>1, <1>3, <1>4

\* The frame: a program that does not work at its reservation keeps what it has found, as the rows
\* stay.
LEMMA OrderStays ==
    ASSUME FoundInOrder, NEW b \in Programs,
           refs'[b] = refs[b], res'[b] = res[b], stage'[b] = stage[b], at'[b] = at[b],
           \A r, n : HasRow(r, n) => HasRow(r, n)'
    PROVE  InOrder(b)'
<1>1. InOrder(b)
  BY DEF FoundInOrder
<1>2. \A n : HasRow(res[b], n) => \E s \in stored' : s.res = res[b] /\ s.at = n
  BY DEF HasRow
<1> QED BY <1>1, <1>2 DEF InOrder, Numbers, HasRow

\* A program that has found nothing yet, or has forgotten it.
LEMMA NothingFound ==
    ASSUME NEW b \in Programs, refs'[b] = {}, stage'[b] \in {"off", "next"}
    PROVE  InOrder(b)'
    BY DEF InOrder

\* One guest more.
LEMMA NextGuestInOrder ==
    ASSUME TypeOK, FoundInOrder, NEW a \in Programs, NEW pk \in Nat, NextGuest(a, pk), UNCHANGED res,
           stage[a] \in {"find", "create"}, at[a] <= Len(guests[res[a]])
    PROVE  InOrder(a)'
<1>1. at[a] \in Numbers(res[a])
  BY GuestType DEF Numbers
<1> DEFINE new == [at |-> at[a], who |-> Guest(a).who, pk |-> pk]
<1>2. new.at = at[a] /\ new.who = guests[res[a]][at[a]].who
  BY DEF Guest
<1>3. refs'[a] = refs[a] \cup {new} /\ at'[a] = at[a] + 1 /\ stage'[a] = "find" /\ at[a] \in Nat
  BY DEF NextGuest, TypeOK
<1> HIDE DEF new
<1>4. InOrder(a)
  BY DEF FoundInOrder
<1>5. \A f \in refs'[a] : f.at \in Numbers(res[a]) /\ f.who = guests[res[a]][f.at].who
  BY <1>1, <1>2, <1>3, <1>4 DEF InOrder
<1>6. ASSUME NEW n \in Numbers(res[a]), n < at[a] + 1 PROVE \E f \in refs'[a] : f.at = n
  <2>1. n < at[a] \/ n = at[a]
    BY <1>3, <1>6 DEF Numbers
  <2> QED BY <1>2, <1>3, <1>4, <2>1 DEF InOrder
<1> QED BY <1>3, <1>5, <1>6 DEF InOrder, Numbers

\* Every step keeps the order.
LEMMA NextKeepsOrder == TypeOK /\ ClientInv /\ [Next]_vars => FoundInOrder'
<1> SUFFICES ASSUME TypeOK, FoundInOrder, RightGuest, [Next]_vars, NEW b \in Programs PROVE InOrder(b)'
  BY DEF ClientInv, FoundInOrder
<1>1. ASSUME UNCHANGED stored PROVE \A r, n : HasRow(r, n) => HasRow(r, n)'
  BY <1>1 DEF HasRow
<1>2. ASSUME NEW a \in Programs, StartRun(a) \/ EndRun(a) PROVE InOrder(b)'
  <2>1. UNCHANGED <<stored, refs, res, at>> /\ (b # a => stage'[b] = stage[b])
    BY <1>2 DEF StartRun, EndRun, RunOver, tables, TypeOK
  <2>2. CASE b = a
    <3>1. stage[a] \in {"off", "next"} /\ stage'[a] \in {"off", "next"}
      BY <1>2 DEF StartRun, EndRun, RunOver, TypeOK
    <3>2. refs[a] = {}
      BY <3>1 DEF FoundInOrder, InOrder
    <3> QED BY <2>1, <2>2, <3>1, <3>2, NothingFound
  <2> QED BY <1>1, <2>1, <2>2, OrderStays
<1>3. ASSUME NEW a \in Programs, StartRes(a) PROVE InOrder(b)'
  <2>1. /\ UNCHANGED stored /\ stage'[a] = "find" /\ at'[a] = 1 /\ refs'[a] = {}
        /\ b # a => stage'[b] = stage[b] /\ at'[b] = at[b] /\ refs'[b] = refs[b] /\ res'[b] = res[b]
    BY <1>3 DEF StartRes, tables, TypeOK
  <2>2. CASE b = a
    BY <2>1, <2>2 DEF InOrder, Numbers
  <2> QED BY <1>1, <2>1, <2>2, OrderStays
<1>4. ASSUME NEW a \in Programs, Find(a) PROVE InOrder(b)'
  <2>1. /\ UNCHANGED <<stored, res>> /\ stage[a] = "find" /\ at[a] <= Len(guests[res[a]])
    BY <1>4 DEF Find, tables
  <2>2. CASE \E c \in KnownClients(a, Guest(a)) : NextGuest(a, c.pk)
    <3>1. PICK c \in KnownClients(a, Guest(a)) : NextGuest(a, c.pk)
      BY <2>2
    <3>2. c.pk \in Nat
      BY FoundClient DEF Clients
    <3>3. b # a => stage'[b] = stage[b] /\ at'[b] = at[b] /\ refs'[b] = refs[b]
      BY <3>1 DEF NextGuest, TypeOK
    <3> QED BY <1>1, <2>1, <3>1, <3>2, <3>3, NextGuestInOrder, OrderStays
  <2>3. CASE stage' = [stage EXCEPT ![a] = "create"] /\ UNCHANGED <<at, refs>>
    <3>1. CASE b = a
      <4>1. stage'[a] = "create"
        BY <2>3 DEF TypeOK
      <4> QED BY <2>1, <2>3, <3>1, <4>1 DEF FoundInOrder, InOrder, Numbers
    <3>2. CASE b # a
      <4>1. stage'[b] = stage[b]
        BY <2>3, <3>2 DEF TypeOK
      <4> QED BY <1>1, <2>1, <2>3, <4>1, OrderStays
    <3> QED BY <3>1, <3>2
  <2> QED BY <1>4, <2>2, <2>3 DEF Find
<1>5. ASSUME NEW a \in Programs, FoundAll(a) PROVE InOrder(b)'
  <2>1. /\ UNCHANGED <<stored, res, at, refs>> /\ stage[a] = "find" /\ at[a] > Len(guests[res[a]])
        /\ stage'[a] = "save" /\ (b # a => stage'[b] = stage[b])
    BY <1>5 DEF FoundAll, tables, TypeOK
  <2>2. CASE b = a
    <3>1. \A n \in Numbers(res[a]) : n < at[a]
      <4>1. res[a] \in Reservations /\ at[a] \in Nat
        BY <2>1 DEF TypeOK, AtGuest
      <4>2. Len(guests[res[a]]) \in Nat
        BY <4>1, ClientsAssumption
      <4> QED BY <2>1, <4>1, <4>2 DEF Numbers
    <3> QED BY <2>1, <2>2, <3>1 DEF FoundInOrder, InOrder, Numbers
  <2> QED BY <1>1, <2>1, <2>2, OrderStays
<1>6. ASSUME NEW a \in Programs, ClSave(a) PROVE InOrder(b)'
  <2>1. UNCHANGED <<stored, res>> /\ stage[a] = "create" /\ at[a] <= Len(guests[res[a]])
    BY <1>6 DEF ClSave, tables, TypeOK, AtGuest
  <2>2. PICK pk \in Nat : NextGuest(a, pk)
    <3>1. \A c \in WithIds(Visible(a), Guest(a).who, Guest(a).ids) : c.pk \in Nat
      BY DEF WithIds, Visible, TypeOK, Clients
    <3>2. nextPk \in Nat
      BY DEF TypeOK
    <3> QED BY <1>6, <3>1, <3>2 DEF ClSave, Insert, Update
  <2>3. b # a => stage'[b] = stage[b] /\ at'[b] = at[b] /\ refs'[b] = refs[b]
    BY <2>2 DEF NextGuest, TypeOK
  <2> QED BY <1>1, <2>1, <2>2, <2>3, NextGuestInOrder, OrderStays
<1>7. ASSUME NEW a \in Programs, ResOver(a), stage'[a] \in {"off", "next"},
             b # a => stage'[b] = stage[b], \A r, n : HasRow(r, n) => HasRow(r, n)'
      PROVE  InOrder(b)'
  <2>1. refs'[a] = {} /\ (b # a => refs'[b] = refs[b] /\ res'[b] = res[b] /\ at'[b] = at[b])
    BY <1>7 DEF ResOver, TypeOK
  <2> QED BY <1>7, <2>1, NothingFound, OrderStays
<1>8. ASSUME NEW a \in Programs, Commit(a) \/ ResDone(a) PROVE InOrder(b)'
  <2>1. ResOver(a) /\ stage'[a] = "next" /\ (b # a => stage'[b] = stage[b])
    BY <1>8 DEF Commit, ResDone, ResSaved, TypeOK
  <2>2. \A r, n : HasRow(r, n) => HasRow(r, n)'
    <3>1. CASE Commit(a)
      BY <3>1, StoredRows DEF Commit
    <3>2. CASE ResDone(a)
      BY <1>1, <3>2 DEF ResDone
    <3> QED BY <1>8, <3>1, <3>2
  <2> QED BY <1>7, <2>1, <2>2
<1>9. ASSUME NEW a \in Programs, CommitRes(a) \/ CommitOccupant(a) PROVE InOrder(b)'
  <2>1. PICK n \in Nat :
          /\ StoreRows(a, {n}) /\ at'[a] = n + 1
          /\ \A m \in Numbers(res[a]) : m < n => HasRow(res[a], m)
    <3>1. CASE CommitRes(a)
      <4>1. StoreRows(a, {1}) /\ at'[a] = 1 + 1
        BY <3>1 DEF CommitRes, TypeOK
      <4>2. \A m \in Numbers(res[a]) : ~(m < 1)
        BY DEF Numbers
      <4> QED BY <4>1, <4>2
    <3>2. CASE CommitOccupant(a)
      BY <3>2 DEF CommitOccupant, TypeOK, FoundInOrder, InOrder
    <3> QED BY <1>9, <3>1, <3>2
  <2>2. /\ UNCHANGED <<res, refs>> /\ stage[a] \in {"save", "occupants"} /\ stage'[a] = "occupants"
        /\ b # a => stage'[b] = stage[b] /\ at'[b] = at[b]
    BY <1>9 DEF CommitRes, CommitOccupant, TypeOK
  <2>3. /\ \A r, m : HasRow(r, m) => HasRow(r, m)'
        /\ \A r, m : r = res[a] /\ m \in {n} \cap Numbers(r) => HasRow(r, m)'
    BY <2>1, <2>2, StoredRows
  <2>4. CASE b = a
    <3>1. ASSUME NEW r, r = res[a], NEW m \in Numbers(r), m < n + 1 PROVE HasRow(r, m)'
      <4>1. m < n \/ m = n
        BY <3>1 DEF Numbers
      <4> QED BY <2>1, <2>3, <3>1, <4>1
    <3>2. \A m \in Numbers(res[a]) : m < at'[a] => \E t \in stored' : t.res = res[a] /\ t.at = m
      BY <2>1, <3>1 DEF HasRow
    <3> QED BY <2>2, <2>4, <3>2 DEF FoundInOrder, InOrder, Numbers, HasRow
  <2> QED BY <2>2, <2>3, <2>4, OrderStays
<1>10. ASSUME NEW a \in Programs, SaveRefused(a) \/ SaveRejected(a) \/ Killed(a) PROVE InOrder(b)'
  <2>1. /\ ResOver(a) /\ UNCHANGED stored
        /\ RunOver(a) \/ stage' = [stage EXCEPT ![a] = "next"]
    BY <1>10 DEF SaveRefused, SaveRejected, Killed, Rollback, tables
  <2>2. stage'[a] \in {"off", "next"} /\ (b # a => stage'[b] = stage[b])
    BY <2>1 DEF RunOver, TypeOK
  <2> QED BY <1>1, <1>7, <2>1, <2>2
<1>11. CASE UNCHANGED vars
  <2>1. UNCHANGED <<stored, refs, res, stage, at>>
    BY <1>11 DEF vars, tables
  <2> QED BY <1>1, <2>1, OrderStays
<1> QED BY <1>2, <1>3, <1>4, <1>5, <1>6, <1>8, <1>9, <1>10, <1>11 DEF Next, RunStep

\* An occupant is stored when the reservation is, with the clients that the program has created.
LEMMA NextKeepsLast == TypeOK /\ OccupantsLast /\ [Next]_vars => OccupantsLast'
<1> SUFFICES ASSUME TypeOK, OccupantsLast, [Next]_vars PROVE OccupantsLast'
  OBVIOUS
<1>1. ASSUME NEW a \in Programs, stage'[a] # "occupants",
             \A b \in Programs \ {a} :
                stage'[b] = stage[b] /\ inserted'[b] = inserted[b] /\ at'[b] = at[b]
      PROVE  OccupantsLast'
  BY <1>1 DEF OccupantsLast
<1>2. ASSUME NEW a \in Programs, StartRun(a) \/ StartRes(a) \/ EndRun(a) \/ FoundAll(a) PROVE OccupantsLast'
  BY <1>1, <1>2 DEF StartRun, StartRes, EndRun, FoundAll, RunOver, TypeOK
<1>3. ASSUME NEW a \in Programs, Find(a) PROVE OccupantsLast'
  BY <1>1, <1>3 DEF Find, NextGuest, TypeOK
<1>4. ASSUME NEW a \in Programs, ClSave(a) PROVE OccupantsLast'
  <2>1. stage' = [stage EXCEPT ![a] = "find"] /\ at' = [at EXCEPT ![a] = @ + 1]
    BY <1>4 DEF ClSave, Insert, Update, NextGuest
  <2>2. \A b \in Programs \ {a} : inserted'[b] = inserted[b]
    BY <1>4 DEF ClSave, Insert, Update, TypeOK
  <2> QED BY <1>1, <2>1, <2>2 DEF TypeOK
<1>5. ASSUME NEW a \in Programs,
             Commit(a) \/ ResDone(a) \/ SaveRefused(a) \/ SaveRejected(a) \/ Killed(a)
      PROVE  OccupantsLast'
  <2>1. ResOver(a) /\ (RunOver(a) \/ stage' = [stage EXCEPT ![a] = "next"])
    BY <1>5 DEF Commit, ResDone, ResSaved, SaveRefused, SaveRejected, Killed, Rollback
  <2>2. stage'[a] # "occupants" /\ \A b \in Programs \ {a} : stage'[b] = stage[b]
    BY <2>1 DEF RunOver, TypeOK
  <2> QED BY <1>1, <2>1, <2>2, OverTypes
<1>6. ASSUME NEW a \in Programs, CommitRes(a) \/ CommitOccupant(a) PROVE OccupantsLast'
  <2>1. \A b \in Programs \ {a} : stage'[b] = stage[b] /\ inserted'[b] = inserted[b] /\ at'[b] = at[b]
    BY <1>6 DEF CommitRes, CommitOccupant, TypeOK
  <2>2. inserted'[a] = {} /\ at'[a] >= 2
    BY <1>6 DEF CommitRes, CommitOccupant, OccupantsLast, TypeOK
  <2> QED BY <2>1, <2>2 DEF OccupantsLast
<1>7. CASE UNCHANGED vars
  BY <1>7 DEF vars, OccupantsLast
<1> QED BY <1>2, <1>3, <1>4, <1>5, <1>6, <1>7 DEF Next, RunStep

\* A commit stores keys that the database finds; the rows they are of stay.
LEMMA CommitKeepsGuests ==
    ASSUME TypeOK, ClientInv, NEW a \in Programs, stage[a] \in {"save", "occupants"}, NEW ns,
           StoreRows(a, ns), ForeignKeysHold(a, ns), clients \subseteq clients',
           inserted[a] \subseteq clients'
    PROVE  \A s \in stored' : /\ s.at \in Numbers(s.res) /\ s.who = guests[s.res][s.at].who
                              /\ \E c \in clients' : c.pk = s.pk /\ c.who = s.who
<1>1. KeyNamesOneGuest /\ FoundInOrder /\ RightGuest
  BY DEF ClientInv
<1>2. ASSUME NEW f \in FoundAs(a, ns) PROVE \E c \in clients' : c.pk = f.pk /\ c.who = f.who
  <2>1. PICK c \in clients \cup inserted[a] : c.pk = f.pk
    BY DEF ForeignKeysHold, Visible
  <2>2. c \in Holders /\ f \in Holders
    BY HoldersOf DEF FoundAs
  <2> QED BY <1>1, <2>1, <2>2 DEF KeyNamesOneGuest
<1> SUFFICES ASSUME NEW s \in stored'
             PROVE  /\ s.at \in Numbers(s.res) /\ s.who = guests[s.res][s.at].who
                    /\ \E c \in clients' : c.pk = s.pk /\ c.who = s.who
  OBVIOUS
<1>3. CASE s \in stored
  BY <1>1, <1>3 DEF RightGuest
<1>4. CASE \E f \in FoundAs(a, ns) : s = [res |-> res[a], at |-> f.at, who |-> f.who, pk |-> f.pk]
  <2>1. PICK f \in FoundAs(a, ns) : s = [res |-> res[a], at |-> f.at, who |-> f.who, pk |-> f.pk]
    BY <1>4
  <2>2. f.at \in Numbers(res[a]) /\ f.who = guests[res[a]][f.at].who
    BY <1>1 DEF FoundAs, FoundInOrder, InOrder
  <2> QED BY <1>2, <2>1, <2>2
<1> QED BY <1>1, <1>3, <1>4, StoredRows

LEMMA NextKeepsGuests == TypeOK /\ ClientInv /\ [Next]_vars => RightGuest'
<1> SUFFICES ASSUME TypeOK, ClientInv, [Next]_vars PROVE RightGuest'
  OBVIOUS
<1>0. FoundInOrder /\ OccupantsLast /\ RightGuest
  BY DEF ClientInv
<1>1. CASE UNCHANGED <<clients, tables>>
  BY <1>0, <1>1 DEF RightGuest, StoredRes, Complete, HasRow, tables
<1>2. ASSUME NEW a \in Programs, Commit(a) PROVE RightGuest'
  <2>1. /\ stage[a] = "save" /\ ForeignKeysHold(a, Numbers(res[a])) /\ StoreRows(a, Numbers(res[a]))
        /\ clients' = clients \cup inserted[a] /\ half' = half \ {res[a]}
    BY <1>2 DEF Commit, ResSaved
  <2>2. \A s \in stored' : /\ s.at \in Numbers(s.res) /\ s.who = guests[s.res][s.at].who
                           /\ \E c \in clients' : c.pk = s.pk /\ c.who = s.who
    BY <2>1, CommitKeepsGuests
  <2>3. /\ \A r, n : HasRow(r, n) => HasRow(r, n)'
        /\ \A s \in stored' : s \in stored \/ s.res = res[a]
    BY <1>0, <2>1, StoredRows
  <2>4. \A r, n : r = res[a] /\ n \in Numbers(r) => HasRow(r, n)'
    BY <1>0, <2>1, StoredRows
  <2>5. ASSUME NEW s \in stored' PROVE Complete(s.res)' \/ s.res \in half'
    <3>1. CASE s.res = res[a]
      BY <2>4, <3>1 DEF Complete, Numbers
    <3>2. CASE s.res # res[a]
      <4>1. Complete(s.res) \/ s.res \in half
        BY <1>0, <2>3, <3>2 DEF RightGuest, StoredRes
      <4>2. Complete(s.res) => Complete(s.res)'
        BY <2>3 DEF Complete, Numbers
      <4> QED BY <2>1, <3>2, <4>1, <4>2
    <3> QED BY <3>1, <3>2
  <2> QED BY <2>2, <2>5 DEF RightGuest, StoredRes
<1>3. ASSUME NEW a \in Programs, CommitRes(a) \/ CommitOccupant(a) PROVE RightGuest'
  <2>1. PICK n \in Nat : StoreRows(a, {n}) /\ ForeignKeysHold(a, {n})
    BY <1>3 DEF CommitRes, CommitOccupant, TypeOK
  <2>2. stage[a] \in {"save", "occupants"} /\ half \subseteq half'
    BY <1>3 DEF CommitRes, CommitOccupant
  <2>3. clients \subseteq clients' /\ inserted[a] \subseteq clients'
    BY <1>0, <1>3 DEF CommitRes, CommitOccupant, OccupantsLast
  <2>4. \A s \in stored' : /\ s.at \in Numbers(s.res) /\ s.who = guests[s.res][s.at].who
                           /\ \E c \in clients' : c.pk = s.pk /\ c.who = s.who
    BY <2>1, <2>2, <2>3, CommitKeepsGuests
  <2>5. /\ \A r, m : HasRow(r, m) => HasRow(r, m)'
        /\ \A s \in stored' : s \in stored \/ s.res = res[a]
    BY <1>0, <2>1, <2>2, StoredRows
  <2>6. Complete(res[a]) \/ res[a] \in half'
    <3>1. CASE CommitRes(a)
      BY <3>1 DEF CommitRes
    <3>2. CASE CommitOccupant(a)
      <4>1. stage[a] = "occupants" /\ at[a] <= Len(guests[res[a]])
        BY <3>2 DEF CommitOccupant
      <4>2. 1 \in Numbers(res[a]) /\ 1 < at[a]
        <5>1. at[a] \in Nat /\ at[a] >= 2 /\ Len(guests[res[a]]) \in Nat
          BY <1>0, <4>1, ClientsAssumption DEF TypeOK, AtGuest, OccupantsLast
        <5> QED BY <4>1, <5>1 DEF Numbers
      <4>3. HasRow(res[a], 1)
        BY <1>0, <4>1, <4>2 DEF FoundInOrder, InOrder
      <4> QED BY <1>0, <2>2, <4>3 DEF HasRow, RightGuest, StoredRes
    <3> QED BY <1>3, <3>1, <3>2
  <2>7. ASSUME NEW s \in stored' PROVE Complete(s.res)' \/ s.res \in half'
    <3>1. \A r : Complete(r) => Complete(r)'
      BY <2>5 DEF Complete, Numbers
    <3>2. CASE s.res = res[a]
      BY <2>6, <3>1, <3>2
    <3>3. CASE s \in stored
      BY <1>0, <2>2, <3>1, <3>3 DEF RightGuest, StoredRes
    <3> QED BY <2>5, <3>2, <3>3
  <2> QED BY <2>4, <2>7 DEF RightGuest, StoredRes
<1>4. ASSUME NEW a \in Programs, ResDone(a) PROVE RightGuest'
  <2>1. /\ UNCHANGED <<clients, stored>> /\ half' = half \ {res[a]}
        /\ stage[a] = "occupants" /\ at[a] > Len(guests[res[a]])
    BY <1>4 DEF ResDone, ResSaved
  <2>2. \A n \in Numbers(res[a]) : n < at[a]
    <3>1. at[a] \in Nat /\ Len(guests[res[a]]) \in Nat
      BY <2>1, ClientsAssumption DEF TypeOK, AtGuest
    <3> QED BY <2>1, <3>1 DEF Numbers
  <2>3. Complete(res[a])
    BY <1>0, <2>1, <2>2 DEF FoundInOrder, InOrder, Complete
  <2>4. \A r : Complete(r)' <=> Complete(r)
    BY <2>1 DEF Complete, HasRow, Numbers
  <2> QED BY <1>0, <2>1, <2>3, <2>4 DEF RightGuest, StoredRes
<1>5. ASSUME NEW a \in Programs,
             \/ StartRun(a) \/ StartRes(a) \/ EndRun(a) \/ Find(a) \/ FoundAll(a) \/ ClSave(a)
             \/ SaveRefused(a) \/ SaveRejected(a) \/ Killed(a)
      PROVE  UNCHANGED <<clients, tables>>
  BY <1>5 DEF StartRun, StartRes, EndRun, Find, FoundAll, ClSave, SaveRefused, SaveRejected,
              Rollback, Killed
<1> QED BY <1>1, <1>2, <1>3, <1>4, <1>5 DEF Next, RunStep, vars

\* A saved reservation belongs to clients that exist and are its guests, and to all of them but
\* where SysDataMan has left it without occupants; for any reservations and guests, however often
\* runs are rolled back or killed: a record in memory of a row that was rolled back makes the save
\* fail, but never names a row of another guest, and what one program has stored of a reservation
\* the other does not take away.
THEOREM ReservationsKeepTheirGuests == Spec => []RightGuest
<1>1. Init => ClientInv
  BY DEF Init, ClientInv, KeyNamesOneGuest, FoundInOrder, InOrder, OccupantsLast, RightGuest, StoredRes, Holders, Rows, Programs
<1>2. TypeOK /\ ClientInv /\ [Next]_vars => ClientInv'
  BY NextKeepsKeys, NextKeepsOrder, NextKeepsLast, NextKeepsGuests DEF ClientInv
<1>3. ClientInv => RightGuest
  BY DEF ClientInv
<1> QED BY <1>1, <1>2, <1>3, ClientTypes, PTL DEF Spec

-----------------------------------------------------------------------------
(***************************************************************************)
(* 3. A guest has one row per id.                                          *)
(***************************************************************************)

\* The frame of IdInv: no new rows, and nobody comes to create a guest.
LEMMA IdsFrame ==
    ASSUME IdInv, Rows' \subseteq Rows, raced \subseteq raced',
           \A b \in Programs : stage'[b] = "create" =>
              stage[b] = "create" /\ res'[b] = res[b] /\ at'[b] = at[b]
    PROVE  IdInv'
<1>1. OneRowPerId'
  BY DEF IdInv, OneRowPerId
<1>2. CreatesUnknown'
  <2> SUFFICES ASSUME NEW b \in Programs, stage'[b] = "create",
                      NEW c \in Rows, SharesId(c, Guest(b))'
               PROVE  c.who \in raced
    BY DEF CreatesUnknown
  <2>1. SharesId(c, Guest(b))
    BY DEF SharesId, Guest
  <2> QED BY <2>1 DEF IdInv, CreatesUnknown
<1> QED BY <1>1, <1>2 DEF IdInv

\* A guest who is not found has no id that a row, which the program sees, has too.
LEMMA NotFoundUnknown ==
    ASSUME TypeOK, NEW a \in Programs, NEW g \in GuestIds, KnownClients(a, g) = {}
    PROVE  \A c \in Visible(a) : ~SharesId(c, g)
<1> SUFFICES ASSUME NEW c \in Visible(a), c.who = g.who, NEW id \in c.ids \cap g.ids
             PROVE  FALSE
  BY DEF SharesId
<1>1. id \in {"ac", "sh"}
  BY DEF GuestIds, IdKinds
<1>2. c \in WithIds(Visible(a), g.who, {id})
  BY DEF WithIds
<1>3. LookUp(a, g.who, {id}) # {}
  BY <1>2 DEF LookUp
<1> QED BY <1>1, <1>3 DEF KnownClients, FirstNonEmpty, ClAssIdByShId, ClAssIdByAcId

\* Every step keeps one row per id.
LEMMA NextKeepsIds == TypeOK /\ IdInv /\ [Next]_vars => IdInv'
<1> SUFFICES ASSUME TypeOK, IdInv, [Next]_vars PROVE IdInv'
  OBVIOUS
<1>o. \A a \in Programs : /\ Other(a) \in Programs /\ Other(a) # a
                          /\ Rows = Visible(a) \cup inserted[Other(a)]
                          /\ \A b \in Programs : b \in {a, Other(a)}
  BY ClientsAssumption DEF Other, Programs, Rows, Visible
<1>1. ASSUME NEW a \in Programs, stage'[a] # "create",
             \A b \in Programs \ {a} : stage'[b] = stage[b] /\ res'[b] = res[b] /\ at'[b] = at[b],
             Rows' \subseteq Rows, raced \subseteq raced'
      PROVE  IdInv'
  BY <1>1, IdsFrame
<1>2. ASSUME NEW a \in Programs, StartRun(a) \/ FoundAll(a) \/ EndRun(a) PROVE IdInv'
  <2>1. /\ stage'[a] # "create" /\ UNCHANGED <<clients, inserted, res, at, raced>>
        /\ \A b \in Programs \ {a} : stage'[b] = stage[b]
    BY <1>2 DEF StartRun, FoundAll, EndRun, RunOver, TypeOK
  <2> QED BY <1>1, <2>1 DEF Rows
<1>3. ASSUME NEW a \in Programs, StartRes(a) PROVE IdInv'
  <2>1. /\ stage'[a] # "create" /\ UNCHANGED <<clients, inserted, raced>>
        /\ \A b \in Programs \ {a} : stage'[b] = stage[b] /\ res'[b] = res[b] /\ at'[b] = at[b]
    BY <1>3 DEF StartRes, TypeOK
  <2> QED BY <1>1, <2>1 DEF Rows
<1>4. ASSUME NEW a \in Programs, Find(a) PROVE IdInv'
  <2>1. /\ stage[a] = "find" /\ at[a] <= Len(guests[res[a]])
        /\ UNCHANGED <<clients, inserted, res>>
    BY <1>4 DEF Find
  <2>2. CASE \E pk : NextGuest(a, pk) /\ UNCHANGED raced
    <3>1. /\ stage'[a] # "create" /\ UNCHANGED raced
          /\ \A b \in Programs \ {a} : stage'[b] = stage[b] /\ at'[b] = at[b]
      BY <2>2 DEF NextGuest, TypeOK
    <3> QED BY <1>1, <2>1, <3>1 DEF Rows
  <2>3. CASE /\ KnownClients(a, Guest(a)) = {}
             /\ stage' = [stage EXCEPT ![a] = "create"]
             /\ raced' = raced \cup Races(a, Guest(a))
             /\ UNCHANGED at
    <3>1. Guest(a) \in GuestIds
      BY <2>1, GuestType
    <3>2. \A c \in Visible(a) : ~SharesId(c, Guest(a))
      BY <2>3, <3>1, NotFoundUnknown
    <3>3. \A c \in inserted[Other(a)] : SharesId(c, Guest(a)) => c.who \in raced'
      BY <2>3 DEF Races, AlsoCreates, SharesId
    <3>4. UNCHANGED Rows /\ \A b \in Programs : Guest(b)' = Guest(b)
      BY <2>1, <2>3 DEF Rows, Guest
    <3>5. \A c \in Rows, b \in Programs : SharesId(c, Guest(b))' <=> SharesId(c, Guest(b))
      BY <3>4 DEF SharesId
    <3>6. OneRowPerId'
      BY <2>3, <3>4 DEF IdInv, OneRowPerId
    <3>7. CreatesUnknown'
      <4> SUFFICES ASSUME NEW b \in Programs, stage'[b] = "create",
                          NEW c \in Rows, SharesId(c, Guest(b))
                   PROVE  c.who \in raced'
        BY <3>4, <3>5 DEF CreatesUnknown
      <4>1. CASE b = a
        BY <1>o, <3>2, <3>3, <4>1
      <4>2. CASE b # a
        BY <2>3, <4>2 DEF IdInv, CreatesUnknown, TypeOK
      <4> QED BY <4>1, <4>2
    <3> QED BY <3>6, <3>7 DEF IdInv
  <2> QED BY <1>4, <2>2, <2>3 DEF Find
<1>5. ASSUME NEW a \in Programs, ClSave(a) PROVE IdInv'
  <2>1. stage[a] = "create" /\ UNCHANGED <<clients, res>>
    BY <1>5 DEF ClSave
  <2> DEFINE g == Guest(a)
             b0 == Other(a)
  <2>2. CASE \E c : Update(a, g, c)
    <3>1. /\ stage'[a] # "create" /\ UNCHANGED <<inserted, raced>>
          /\ \A b \in Programs \ {a} : stage'[b] = stage[b] /\ at'[b] = at[b]
      BY <2>2 DEF Update, NextGuest, TypeOK
    <3> QED BY <1>1, <2>1, <3>1 DEF Rows
  <2>3. CASE Insert(a, g)
    <3> DEFINE new == [pk |-> nextPk, who |-> g.who, ids |-> g.ids]
    <3>1. /\ inserted' = [inserted EXCEPT ![a] = @ \cup {new}]
          /\ raced' = raced \cup Races(a, g)
          /\ stage' = [stage EXCEPT ![a] = "find"] /\ at' = [at EXCEPT ![a] = @ + 1]
      BY <2>3 DEF Insert, NextGuest
    <3>2. new.who = g.who /\ new.ids = g.ids
      OBVIOUS
    <3>3. \A c \in Rows : SharesId(c, g) => c.who \in raced
      BY <2>1 DEF IdInv, CreatesUnknown
    <3>4. stage[b0] = "create" /\ SharesId(Guest(b0), g) => g.who \in raced'
      BY <3>1 DEF Races, AlsoCreates
    <3> HIDE DEF new, g, b0
    <3>5. \A c \in Rows' : c \in Rows \/ c = new
      BY <2>1, <3>1 DEF Rows, TypeOK, Programs
    <3>6. OneRowPerId'
      <4> SUFFICES ASSUME NEW c \in Rows', NEW d \in Rows', c.pk # d.pk, c.who = d.who,
                          c.ids \cap d.ids # {}
                   PROVE  c.who \in raced'
        BY DEF OneRowPerId
      <4>1. CASE c \in Rows /\ d \in Rows
        BY <3>1, <4>1 DEF IdInv, OneRowPerId
      <4>2. CASE c = new /\ d \in Rows
        BY <3>1, <3>2, <3>3, <4>2 DEF SharesId
      <4>3. CASE c \in Rows /\ d = new
        BY <3>1, <3>2, <3>3, <4>3 DEF SharesId
      <4> QED BY <3>5, <4>1, <4>2, <4>3
    <3>7. CreatesUnknown'
      <4> SUFFICES ASSUME NEW b \in Programs, stage'[b] = "create",
                          NEW c \in Rows', SharesId(c, Guest(b))'
                   PROVE  c.who \in raced'
        BY DEF CreatesUnknown
      <4>1. b # a /\ stage[b] = "create"
        BY <3>1 DEF TypeOK
      <4>2. b = b0
        BY <1>o, <4>1 DEF b0
      <4>3. Guest(b)' = Guest(b)
        BY <2>1, <3>1, <4>1 DEF Guest, TypeOK
      <4>4. SharesId(c, Guest(b))
        BY <4>3 DEF SharesId
      <4>5. CASE c \in Rows
        BY <3>1, <4>1, <4>4, <4>5 DEF IdInv, CreatesUnknown
      <4>6. CASE c = new
        <5>1. SharesId(Guest(b0), g)
          BY <3>2, <4>2, <4>4, <4>6 DEF SharesId
        <5> QED BY <3>2, <3>4, <4>1, <4>2, <4>6, <5>1
      <4> QED BY <3>5, <4>5, <4>6
    <3> QED BY <3>6, <3>7 DEF IdInv
  <2> QED BY <1>5, <2>2, <2>3 DEF ClSave
<1>6. ASSUME NEW a \in Programs, Commit(a) PROVE IdInv'
  <2>1. /\ clients' = clients \cup inserted[a] /\ ResOver(a) /\ UNCHANGED raced
        /\ stage' = [stage EXCEPT ![a] = "next"]
    BY <1>6 DEF Commit, ResSaved
  <2>2. Rows' \subseteq Rows
    BY <2>1 DEF ResOver, Rows, TypeOK, Programs
  <2>3. /\ stage'[a] # "create"
        /\ \A b \in Programs \ {a} : stage'[b] = stage[b] /\ res'[b] = res[b] /\ at'[b] = at[b]
    BY <2>1, OverTypes DEF TypeOK
  <2> QED BY <1>1, <2>1, <2>2, <2>3
<1>7. ASSUME NEW a \in Programs, ResOver(a), UNCHANGED <<clients, raced>>,
             RunOver(a) \/ stage' = [stage EXCEPT ![a] = "next"]
      PROVE  IdInv'
  <2>1. Rows' \subseteq Rows
    BY <1>7 DEF ResOver, Rows, TypeOK, Programs
  <2>2. /\ stage'[a] # "create"
        /\ \A b \in Programs \ {a} : stage'[b] = stage[b]
    BY <1>7 DEF RunOver, TypeOK
  <2>3. \A b \in Programs \ {a} : res'[b] = res[b] /\ at'[b] = at[b]
    BY <1>7, OverTypes
  <2> QED BY <1>1, <1>7, <2>1, <2>2, <2>3
<1>11. ASSUME NEW a \in Programs, CommitRes(a) \/ CommitOccupant(a) PROVE IdInv'
  <2>1. Rows' \subseteq Rows
    BY <1>11 DEF CommitRes, CommitOccupant, Rows, TypeOK, Programs
  <2>2. /\ stage'[a] # "create" /\ UNCHANGED <<res, raced>>
        /\ \A b \in Programs \ {a} : stage'[b] = stage[b] /\ at'[b] = at[b]
    BY <1>11 DEF CommitRes, CommitOccupant, TypeOK
  <2> QED BY <1>1, <2>1, <2>2
<1>8. ASSUME NEW a \in Programs, SaveRefused(a) \/ SaveRejected(a) PROVE IdInv'
  BY <1>7, <1>8 DEF SaveRefused, SaveRejected, Rollback
<1>9. ASSUME NEW a \in Programs, Killed(a) PROVE IdInv'
  BY <1>7, <1>9 DEF Killed
<1>12. ASSUME NEW a \in Programs, ResDone(a) PROVE IdInv'
  BY <1>7, <1>12 DEF ResDone, ResSaved
<1>10. CASE UNCHANGED vars
  <2>1. UNCHANGED <<clients, inserted, raced, stage, res, at>>
    BY <1>10 DEF vars
  <2> QED BY <2>1, IdsFrame DEF Rows
<1> QED BY <1>2, <1>3, <1>4, <1>5, <1>6, <1>8, <1>9, <1>10, <1>11, <1>12 DEF Next, RunStep

\* The table gets no two clients with the same id, unless both programs have created the guest
\* in transactions that did not see each other.
THEOREM OneClientForAnId == Spec => []OneClientPerId
<1>1. Init => IdInv
  BY DEF Init, IdInv, OneRowPerId, CreatesUnknown, Rows, Programs
<1>2. IdInv => OneClientPerId
  BY DEF IdInv, OneRowPerId, OneClientPerId, Rows
<1> QED BY <1>1, <1>2, NextKeepsIds, ClientTypes, PTL DEF Spec

-----------------------------------------------------------------------------
(***************************************************************************)
(* 4. ResIds: what rgr_complete_ids() gives, for every dict of columns and *)
(* whatever Sihot answers.                                                 *)
(***************************************************************************)

LEMMA UpdatedValue ==
    ASSUME NEW dict, NEW new, NEW col
    PROVE  Get(Updated(dict, new), col)
             = IF col \in DOMAIN new THEN new[col] ELSE Get(dict, col)
BY DEF Get, Updated

\* The look-up of the object id leaves the reservation number alone.
LEMMA ObjectLeavesNumber ==
    ASSUME NEW cols, NEW chk, NEW col \in Number
    PROVE  Get(WithObject(cols, chk), col) = Get(cols, col)
<1> DEFINE ids == FetchedIds(cols, chk)
           new == [c \in {id \in {"obj", "gds", "sf"} : ids[id] # ""} |-> ids[c]]
<1>1. CASE ChkOrCol(chk, cols, "obj") # "" \/ ids["obj"] = ""
  <2>1. WithObject(cols, chk) = cols
    BY <1>1 DEF WithObject
  <2> QED
    BY <2>1
<1>2. CASE ~(ChkOrCol(chk, cols, "obj") # "" \/ ids["obj"] = "")
  <2>1. WithObject(cols, chk) = Updated(cols, new)
    BY <1>2 DEF WithObject
  <2>2. col \notin DOMAIN new
    BY DEF Number
  <2> HIDE DEF new
  <2> QED
    BY <2>1, <2>2, UpdatedValue
<1> QED
  BY <1>1, <1>2

LEMMA NumberStaysKnown ==
    ASSUME NEW cols, NEW chk
    PROVE  NumberKnown(WithObject(cols, chk), chk) <=> NumberKnown(cols, chk)
BY ObjectLeavesNumber DEF NumberKnown, Has

LEMMA ObjectStays ==
    ASSUME NEW cols, NEW chk, ChkOrCol(chk, cols, "obj") # ""
    PROVE  WithObject(cols, chk) = cols
BY DEF WithObject

\* What the second half of the completion does to a value.
LEMMA NumberStep ==
    ASSUME NEW cols, NEW chk, NEW col
    PROVE  /\ NumberKnown(cols, chk) => WithNumber(cols, chk) = cols
           /\ col \notin Number => Get(WithNumber(cols, chk), col) = Get(cols, col)
<1> DEFINE found == ObjIdToResNo(ChkOrCol(chk, cols, "obj"))
<1>1. \/ WithNumber(cols, chk) = cols
      \/ ~NumberKnown(cols, chk) /\ WithNumber(cols, chk) = Updated(cols, Part(found, Number))
      \/ ~NumberKnown(cols, chk) /\ WithNumber(cols, chk) = Updated(cols, [sub |-> "0"])
  BY DEF WithNumber
<1>2. DOMAIN Part(found, Number) = Number
  BY DEF Part
<1>3. DOMAIN [sub |-> "0"] = {"sub"} /\ "sub" \in Number
  BY DEF Number
<1>4. \/ ~NumberKnown(cols, chk)
      \/ WithNumber(cols, chk) = cols
  BY DEF WithNumber
<1>5. ASSUME col \notin Number
      PROVE  Get(WithNumber(cols, chk), col) = Get(cols, col)
  <2>1. Get(Updated(cols, Part(found, Number)), col) = Get(cols, col)
    BY <1>2, <1>5, UpdatedValue
  <2>2. Get(Updated(cols, [sub |-> "0"]), col) = Get(cols, col)
    BY <1>3, <1>5, UpdatedValue
  <2> QED
    BY <1>1, <2>1, <2>2
<1> QED
  BY <1>4, <1>5

\* Nothing without a reservation number is written (sys_data_ass.py:1026-1039).
THEOREM OnlyNumberedIsWritten ==
    ASSUME NEW cols, NEW chk
    PROVE  NumberedOrRefused(cols, chk)
<1> DEFINE object == WithObject(cols, chk)
           number == WithNumber(object, chk)
<1>1. SUFFICES ASSUME CompleteIds(cols, chk).ok
               PROVE  NumberKnown(number, chk)
  BY DEF NumberedOrRefused, Upsert, CompleteIds
<1>2. CASE NumberKnown(object, chk)
  BY <1>2, NumberStep
<1>3. CASE ~NumberKnown(object, chk)
  BY <1>1, <1>3 DEF CompleteIds, NumberKnown
<1> QED
  BY <1>2, <1>3

\* What is written has an object id, or a guessed sub number (sys_data_ass.py:985, 1038).
THEOREM ObjectIdOrGuess ==
    ASSUME NEW cols, NEW chk
    PROVE  ObjectOrSubGuessed(cols, chk)
<1> DEFINE object == WithObject(cols, chk)
           number == WithNumber(object, chk)
<1>1. SUFFICES ASSUME CompleteIds(cols, chk).ok, ChkOrCol(chk, number, "obj") = ""
               PROVE  /\ ~NumberKnown(cols, chk) /\ Has(cols, {"ho", "res"})
                      /\ number = Updated(cols, [sub |-> "0"])
  BY DEF ObjectOrSubGuessed, Upsert, CompleteIds
<1>2. Get(number, "obj") = Get(object, "obj")
  BY NumberStep DEF Number
<1>3. ChkOrCol(chk, object, "obj") = ""
  BY <1>1, <1>2 DEF ChkOrCol
<1>4. ~NumberKnown(object, chk) /\ Has(number, Number)
  BY <1>1, <1>3 DEF CompleteIds
<1>5. ~Has(object, Number)
  BY <1>4 DEF NumberKnown
<1>6. number # object
  BY <1>4, <1>5
<1>7. Has(object, {"ho", "res"}) /\ number = Updated(object, [sub |-> "0"])
  BY <1>3, <1>4, <1>6 DEF WithNumber
<1>8. object = cols
  <2> DEFINE ids == FetchedIds(cols, chk)
             new == [c \in {id \in {"obj", "gds", "sf"} : ids[id] # ""} |-> ids[c]]
  <2>1. SUFFICES ASSUME ids["obj"] # "", object = Updated(cols, new)
                 PROVE  FALSE
    BY DEF WithObject
  <2>2. "obj" \in DOMAIN new /\ new["obj"] # ""
    BY <2>1
  <2> HIDE DEF new
  <2>3. Get(Updated(cols, new), "obj") = new["obj"]
    BY <2>2, UpdatedValue
  <2>4. Get(object, "obj") = new["obj"]
    BY <2>1, <2>3
  <2> QED
    BY <1>3, <2>2, <2>4 DEF ChkOrCol
<1> QED
  BY <1>4, <1>7, <1>8

\* An object id and a whole reservation number of the caller are written as they are.
THEOREM CallersIdsAreKept ==
    ASSUME NEW cols, NEW chk
    PROVE  IdsAreKept(cols, chk)
<1> DEFINE object == WithObject(cols, chk)
           number == WithNumber(object, chk)
<1>1. Upsert(cols, chk).cols \in {cols, number}
  BY DEF Upsert, CompleteIds
<1>2. ASSUME Has(cols, {"obj"})
      PROVE  number["obj"] = cols["obj"]
  <2>1. Get(cols, "obj") # "" /\ cols["obj"] = Get(cols, "obj")
    BY <1>2 DEF Has, Get
  <2>2. object = cols
    BY <2>1, ObjectStays DEF ChkOrCol
  <2>3. Get(number, "obj") = Get(cols, "obj")
    BY <2>2, NumberStep DEF Number
  <2> QED
    BY <2>1, <2>3 DEF Get
<1>3. ASSUME Has(cols, Number), NEW id \in Number
      PROVE  number[id] = cols[id]
  <2>1. Get(cols, id) # "" /\ cols[id] = Get(cols, id)
    BY <1>3 DEF Has, Get
  <2>2. NumberKnown(object, chk)
    BY <1>3, NumberStaysKnown DEF NumberKnown
  <2>3. number = object
    BY <2>2, NumberStep
  <2>4. Get(number, id) = Get(cols, id)
    BY <2>3, ObjectLeavesNumber
  <2> QED
    BY <2>1, <2>4 DEF Get
<1> QED
  BY <1>1, <1>2, <1>3 DEF IdsAreKept

\* If Sihot has no reservation with the sub number -1, then a reservation of which only hotel and
\* number are known is refused, and the guess of sys_data_ass.py:1038 is not reached.
THEOREM NumberWithoutSubIsRefused ==
    ASSUME NEW cols,
           \A hotel, no : ResNoToIds(hotel, no, "-1")["obj"] = ""
    PROVE  GuessNotReached(cols)
<1> DEFINE chk == [ho |-> cols["ho"], res |-> cols["res"], sub |-> "-1"]
<1>1. SUFFICES ASSUME Has(cols, {"ho", "res"}),
                      \A id \in {"sub", "obj", "gds", "sf"} : Get(cols, id) = ""
               PROVE  Upsert(cols, MinChkValues(cols)).error = "incomplete"
  BY DEF GuessNotReached
<1>2. MinChkValues(cols) = chk
  BY <1>1 DEF MinChkValues, Has, Number
<1>3. /\ Get(chk, "ho") = Get(cols, "ho") /\ Get(chk, "ho") # ""
      /\ Get(chk, "res") = Get(cols, "res") /\ Get(chk, "res") # ""
      /\ Get(chk, "sub") = "-1" /\ Get(chk, "obj") = ""
  BY <1>1 DEF Has, Get
<1>4. Has(chk, Number)
  BY <1>3 DEF Has, Number
<1>5. FetchedIds(cols, chk) = ResNoToIds(Get(chk, "ho"), Get(chk, "res"), "-1")
  <2> HIDE DEF chk
  <2> QED
    BY <1>3 DEF FetchedIds, ChkOrCol
<1>6. WithObject(cols, chk) = cols
  BY <1>1, <1>5 DEF WithObject
<1>7. NumberKnown(cols, chk) /\ ChkOrCol(chk, cols, "obj") = ""
  BY <1>1, <1>3, <1>4 DEF NumberKnown, ChkOrCol
<1>8. ~CompleteIds(cols, chk).ok
  BY <1>6, <1>7 DEF CompleteIds
<1>9. DOMAIN chk # {}
  OBVIOUS
<1> QED
  BY <1>2, <1>8, <1>9 DEF Upsert

-----------------------------------------------------------------------------
(***************************************************************************)
(* 5. RciWeeks: the weeks for every date and every configuration. Each     *)
(* arrival gets its week, and one day a year does not.                     *)
(***************************************************************************)

\* A calendar year has 365 or 366 days.
LEMMA YearLength ==
    ASSUME NEW year \in Int
    PROVE  /\ Jan1(year) \in Int
           /\ Jan1(year + 1) - Jan1(year) \in {365, 366}
<1>1. Jan1(year) \in Int
  BY DEF Jan1
<1>2. /\ (year \div 4) - ((year - 1) \div 4) \in {0, 1}
      /\ (year \div 100) - ((year - 1) \div 100) \in {0, 1}
      /\ (year \div 400) - ((year - 1) \div 400) \in {0, 1}
  OBVIOUS
<1>3. /\ ((year \div 400) - ((year - 1) \div 400) = 1) => ((year \div 100) - ((year - 1) \div 100) = 1)
      /\ ((year \div 100) - ((year - 1) \div 100) = 1) => ((year \div 4) - ((year - 1) \div 4) = 1)
  OBVIOUS
<1>4. (year + 1) - 1 = year
  OBVIOUS
<1> QED
  BY <1>1, <1>2, <1>3, <1>4 DEF Jan1

\* The first week of a year begins on a Friday around its first of January.
LEMMA FirstWeekIsFriday ==
    ASSUME WeeksAreFridays, NEW year \in Int
    PROVE  /\ FirstWeek(year) \in Int
           /\ Weekday(FirstWeek(year)) = 4
           /\ FirstWeek(year) - Jan1(year) \in -3 .. 6
<1>1. Jan1(year) \in Int
  BY YearLength
<1>2. CASE year \in DOMAIN RcWeeks
  BY <1>2 DEF WeeksAreFridays, FirstWeek
<1>3. CASE year \notin DOMAIN RcWeeks
  <2> DEFINE jan == Jan1(year)
  <2>1. jan \in Int
    BY <1>1
  <2> HIDE DEF jan
  <2>2. /\ (11 - ((jan + 6) % 7)) % 7 \in 0 .. 6
        /\ ((jan + ((11 - ((jan + 6) % 7)) % 7)) + 6) % 7 = 4
    BY <2>1
  <2>3. FirstWeek(year) = jan + ((11 - ((jan + 6) % 7)) % 7)
    BY <1>3 DEF FirstWeek, FirstFriday, Weekday, jan
  <2>4. FirstWeek(year) \in Int /\ FirstWeek(year) - jan \in -3 .. 6
    BY <2>1, <2>2, <2>3
  <2>5. Weekday(FirstWeek(year)) = 4
    BY <2>2, <2>3 DEF Weekday
  <2> QED
    BY <2>4, <2>5 DEF jan
<1> QED
  BY <1>2, <1>3

\* An RCI year has 51, 52 or 53 whole weeks.
LEMMA WholeWeeks ==
    ASSUME WeeksAreFridays, NEW year \in Int
    PROVE  \E n \in 51 .. 53 : FirstWeek(year + 1) = FirstWeek(year) + 7 * n
<1>1. /\ FirstWeek(year) \in Int
      /\ Weekday(FirstWeek(year)) = 4
      /\ FirstWeek(year) - Jan1(year) \in -3 .. 6
  BY FirstWeekIsFriday
<1>2. /\ FirstWeek(year + 1) \in Int
      /\ Weekday(FirstWeek(year + 1)) = 4
      /\ FirstWeek(year + 1) - Jan1(year + 1) \in -3 .. 6
  BY FirstWeekIsFriday
<1>3. /\ Jan1(year) \in Int
      /\ Jan1(year + 1) \in Int
      /\ Jan1(year + 1) - Jan1(year) \in {365, 366}
  BY YearLength
<1> DEFINE a == FirstWeek(year)
           b == FirstWeek(year + 1)
<1>4. a \in Int /\ b \in Int /\ b - a \in 356 .. 375
  BY <1>1, <1>2, <1>3
<1>5. (a + 6) % 7 = 4 /\ (b + 6) % 7 = 4
  BY <1>1, <1>2 DEF Weekday
<1> HIDE DEF a, b
<1>6. b = a + 7 * 51 \/ b = a + 7 * 52 \/ b = a + 7 * 53
  BY <1>4, <1>5
<1> QED
  BY <1>6 DEF a, b

\* A day between the first days of two RCI years lies in the week that the division yields.
LEMMA WeekOfDay ==
    ASSUME WeeksAreFridays, NEW year \in Int, NEW arr \in Int,
           FirstWeek(year) <= arr, arr < FirstWeek(year + 1)
    PROVE  LiesInWeek(arr, year, 1 + ((arr - FirstWeek(year)) \div 7))
<1>1. FirstWeek(year) \in Int
  BY FirstWeekIsFriday
<1>2. PICK n \in 51 .. 53 : FirstWeek(year + 1) = FirstWeek(year) + 7 * n
  BY WholeWeeks
<1> DEFINE a == FirstWeek(year)
           w == 1 + ((arr - a) \div 7)
<1>3. a \in Int /\ a <= arr /\ arr < a + 7 * n
  BY <1>1, <1>2
<1> HIDE DEF a
<1>4. w \in Int /\ a + 7 * (w - 1) <= arr /\ arr < a + 7 * w
  BY <1>3
<1> HIDE DEF w
<1>5. 1 <= w /\ w <= n
  BY <1>3, <1>4
<1>6. w \in 1 .. 53 /\ a + 7 * w <= a + 7 * n
  BY <1>3, <1>4, <1>5
<1> QED
  BY <1>2, <1>4, <1>6 DEF LiesInWeek, a, w

\* Every arrival but the first day of an RCI year that begins in December gets the week that it
\* lies in: rci_arr_to_year_week() (sys_data_ass.py:1312) neither invents a week nor skips one.
THEOREM ArrivalGetsItsWeek == WeeksAreFridays => WeekIsRight
<1> SUFFICES ASSUME WeeksAreFridays, NEW year \in Nat, NEW arr \in Nat,
                    year > 1, Jan1(year) <= arr, arr < Jan1(year + 1), arr # FirstWeek(year + 1)
             PROVE  LiesInWeek(arr, ArrToYearWeek(year, arr)[1], ArrToYearWeek(year, arr)[2])
  BY DEF WeekIsRight
<1>1. /\ FirstWeek(year) \in Int
      /\ FirstWeek(year + 1) \in Int
      /\ FirstWeek(year - 1) \in Int
  BY FirstWeekIsFriday
<1>2. CASE arr < FirstWeek(year)
  <2>1. ArrToYearWeek(year, arr) = <<year - 1, 1 + ((arr - FirstWeek(year - 1)) \div 7)>>
    BY <1>2 DEF ArrToYearWeek
  <2>2. (year - 1) + 1 = year
    OBVIOUS
  <2>3. FirstWeek(year - 1) <= arr
    <3>1. FirstWeek(year - 1) - Jan1(year - 1) \in -3 .. 6
      BY FirstWeekIsFriday
    <3>2. Jan1((year - 1) + 1) - Jan1(year - 1) \in {365, 366} /\ Jan1(year - 1) \in Int
      BY YearLength
    <3> QED
      BY <1>1, <2>2, <3>1, <3>2, YearLength
  <2>4. LiesInWeek(arr, year - 1, 1 + ((arr - FirstWeek(year - 1)) \div 7))
    BY <1>2, <2>2, <2>3, WeekOfDay
  <2> QED
    BY <2>1, <2>4
<1>3. CASE arr > FirstWeek(year + 1)
  <2>1. FirstWeek(year) < FirstWeek(year + 1)
    BY <1>1, WholeWeeks
  <2>2. ArrToYearWeek(year, arr) = <<year + 1, 1 + ((arr - FirstWeek(year + 1)) \div 7)>>
    BY <1>1, <1>3, <2>1 DEF ArrToYearWeek
  <2>3. arr < FirstWeek((year + 1) + 1)
    <3>1. FirstWeek((year + 1) + 1) \in Int /\ FirstWeek(year + 1) - Jan1(year + 1) \in -3 .. 6
      BY FirstWeekIsFriday
    <3>2. PICK n \in 51 .. 53 : FirstWeek((year + 1) + 1) = FirstWeek(year + 1) + 7 * n
      BY WholeWeeks
    <3>3. Jan1(year + 1) \in Int
      BY YearLength
    <3> QED
      BY <1>1, <3>1, <3>2, <3>3
  <2>4. LiesInWeek(arr, year + 1, 1 + ((arr - FirstWeek(year + 1)) \div 7))
    BY <1>1, <1>3, <2>3, WeekOfDay
  <2> QED
    BY <2>2, <2>4
<1>4. CASE ~(arr < FirstWeek(year)) /\ ~(arr > FirstWeek(year + 1))
  <2>1. ArrToYearWeek(year, arr) = <<year, 1 + ((arr - FirstWeek(year)) \div 7)>>
    BY <1>4 DEF ArrToYearWeek
  <2>2. FirstWeek(year) <= arr /\ arr < FirstWeek(year + 1)
    BY <1>1, <1>4
  <2>3. LiesInWeek(arr, year, 1 + ((arr - FirstWeek(year)) \div 7))
    BY <2>2, WeekOfDay
  <2> QED
    BY <2>1, <2>3
<1> QED
  BY <1>2, <1>3, <1>4

\* The comparison in sys_data_ass.py:1319 leaves the first day of an RCI year that begins in
\* December in the old year, in a week that lies in the new one.
THEOREM FirstDayGetsNoWeek == WeeksAreFridays => FirstDayIsWrong
<1> SUFFICES ASSUME WeeksAreFridays, NEW year \in Nat, year > 1, FirstWeek(year + 1) < Jan1(year + 1)
             PROVE  LET yw == ArrToYearWeek(year, FirstWeek(year + 1))
                    IN  yw[1] = year /\ FirstWeek(yw[1] + 1) < FirstWeek(yw[1]) + 7 * yw[2]
  BY DEF FirstDayIsWrong
<1>1. FirstWeek(year) \in Int /\ FirstWeek(year + 1) \in Int
  BY FirstWeekIsFriday
<1>2. PICK n \in 51 .. 53 : FirstWeek(year + 1) = FirstWeek(year) + 7 * n
  BY WholeWeeks
<1>3. ~(FirstWeek(year + 1) < FirstWeek(year))
  BY <1>1, <1>2
<1>4. ArrToYearWeek(year, FirstWeek(year + 1))
        = <<year, 1 + ((FirstWeek(year + 1) - FirstWeek(year)) \div 7)>>
  BY <1>1, <1>3 DEF ArrToYearWeek
<1>5. (FirstWeek(year + 1) - FirstWeek(year)) \div 7 = n
  BY <1>1, <1>2
<1>6. FirstWeek(year + 1) < FirstWeek(year) + 7 * (1 + n)
  BY <1>1, <1>2
<1> QED
  BY <1>4, <1>5, <1>6
=============================================================================
