----------------------------- MODULE AssClients -----------------------------
(***************************************************************************)
(* The clients of AssCache while reservations are saved: res_save() looks  *)
(* for the orderer and the occupants by their Sihot and Acumen ids, and    *)
(* creates those it does not find, in the transaction of the reservation.  *)
(* The row of the reservation has a foreign key of the orderer, and a row  *)
(* of its own each occupant.                                               *)
(*                                                                         *)
(* Two programs do it, each with a connection of its own and a list        *)
(* self.clients in memory: the sync run of BssServer, which commits a      *)
(* reservation as a whole and ends with the first error, and SysDataMan,   *)
(* which pushes all reservations, commits each row and goes on after an    *)
(* error unless it has to break.                                           *)
(*                                                                         *)
(* A client is a row of the table with the ids of one guest: a guest has   *)
(* one id in each system, so that a row is [pk, who, ids].  The database   *)
(* shows a connection the committed rows and its own, and no pk twice.     *)
(***************************************************************************)
EXTENDS Naturals, Sequences, FiniteSets

CONSTANTS
    Sync, Push,     \* the two programs
    Reservations,
    NoRes,          \* none of them
    Guests,         \* persons
    guests,         \* reservation -> sequence of [who, ids]: the orderer, the occupants
    BreakOnError,   \* SysDataMan stops at the first error
    MaxFaults       \* bound: rejected reservations and killed programs

Programs == {Sync, Push}
IdKinds == {"ac", "sh"}
GuestIds == [who : Guests, ids : SUBSET IdKinds \ {{}}]
Clients == [pk : Nat, who : Guests, ids : SUBSET IdKinds \ {{}}]

ASSUME ClientsAssumption ==
    /\ Sync # Push
    /\ NoRes \notin Reservations
    /\ guests \in [Reservations -> Seq(GuestIds)]
    /\ BreakOnError \in BOOLEAN
    /\ MaxFaults \in Nat

VARIABLES
    clients,        \* the committed rows of the table clients
    nextPk,         \* its sequence, which a rollback does not turn back
    stored,         \* res_groups and res_group_clients: [res, at, who, pk], the committed keys
    synced,         \* reservations that BssServer has saved
    \* of each program
    inserted,       \* rows of its open transaction
    cached,         \* self.clients
    left,           \* reservations that its run has to save
    stage,
    res,            \* the reservation that res_save() works at
    at,             \* number of the guest that it works at
    refs,           \* [at, who, pk]: the clients it has found or created
    \* history and bound
    raced,          \* guests that two open transactions have created
    half,           \* incomplete reservations: SysDataMan has not committed all occupants
    faults

tables == <<stored, synced, half>>
vars == <<clients, nextPk, tables, inserted, cached, left, stage, res, at, refs, raced, faults>>

Stages == {"off", "next", "find", "create", "save", "occupants"}

Init ==
    /\ clients = {} /\ nextPk = 0 /\ stored = {} /\ synced = {} /\ half = {}
    /\ inserted = [a \in Programs |-> {}]
    /\ cached = [a \in Programs |-> {}]
    /\ left = [a \in Programs |-> {}]
    /\ stage = [a \in Programs |-> "off"]
    /\ res = [a \in Programs |-> NoRes]
    /\ at = [a \in Programs |-> 0]
    /\ refs = [a \in Programs |-> {}]
    /\ raced = {} /\ faults = 0

StoredRes == {s.res : s \in stored}
Guest(a) == guests[res[a]][at[a]]

-----------------------------------------------------------------------------
(* A run: the list in memory lives as long as its AssSysData.              *)

(* BssServer has the reservations to do that were not synchronised yet. *)
ToDo(a) == IF a = Sync THEN Reservations \ synced ELSE Reservations

(* Bound: no program is started when BssServer has saved all of them. *)
StartRun(a) ==
    /\ stage[a] = "off" /\ Reservations \ synced # {}
    /\ stage' = [stage EXCEPT ![a] = "next"]
    /\ left' = [left EXCEPT ![a] = ToDo(a)]
    /\ UNCHANGED <<clients, nextPk, tables, inserted, cached, res, at, refs, raced, faults>>

(* Mutant: one AssSysData for all runs. *)
RunOverCached(a) ==
    /\ stage' = [stage EXCEPT ![a] = "off"]
    /\ left' = [left EXCEPT ![a] = {}]
    /\ UNCHANGED cached

RunOver(a) ==
    /\ stage' = [stage EXCEPT ![a] = "off"]
    /\ left' = [left EXCEPT ![a] = {}]
    /\ cached' = [cached EXCEPT ![a] = {}]

StartRes(a) ==
    /\ stage[a] = "next"
    /\ \E r \in left[a] :
        /\ left' = [left EXCEPT ![a] = @ \ {r}]
        /\ res' = [res EXCEPT ![a] = r]
    /\ stage' = [stage EXCEPT ![a] = "find"]
    /\ at' = [at EXCEPT ![a] = 1]
    /\ refs' = [refs EXCEPT ![a] = {}]
    /\ UNCHANGED <<clients, nextPk, tables, inserted, cached, raced, faults>>

EndRun(a) ==
    /\ stage[a] = "next" /\ left[a] = {}
    /\ RunOver(a)
    /\ UNCHANGED <<clients, nextPk, tables, inserted, res, at, refs, raced, faults>>

(* The end of res_save(), of its transaction and of its local variables. *)
ResOver(a) ==
    /\ inserted' = [inserted EXCEPT ![a] = {}]
    /\ res' = [res EXCEPT ![a] = NoRes]
    /\ at' = [at EXCEPT ![a] = 0]
    /\ refs' = [refs EXCEPT ![a] = {}]

-----------------------------------------------------------------------------
(* cl_ensure_id() and cl_save().                                           *)

(* What a select of the program finds. *)
Visible(a) == clients \cup inserted[a]

(* The rows, or the records in memory, that have the given ids of a guest. *)
WithIds(rows, who, ids) == {c \in rows : c.who = who /\ ids \subseteq c.ids}

(* A look-up takes a record in memory, or else a row of the table. *)
LookUp(a, who, ids) ==
    IF WithIds(cached[a], who, ids) # {}
    THEN WithIds(cached[a], who, ids)
    ELSE WithIds(Visible(a), who, ids)

FirstNonEmpty(s, t) == IF s # {} THEN s ELSE t

ClAssIdByShId(a, g) == IF "sh" \in g.ids THEN LookUp(a, g.who, {"sh"}) ELSE {}
ClAssIdByAcId(a, g) == IF "ac" \in g.ids THEN LookUp(a, g.who, {"ac"}) ELSE {}

(* Mutant: a client that has a Sihot id is looked for only by it. *)
KnownClientsOneId(a, g) ==
    IF "sh" \in g.ids THEN ClAssIdByShId(a, g) ELSE ClAssIdByAcId(a, g)

(* By both ids, then by the Sihot id, then by the Acumen id. *)
KnownClients(a, g) ==
    FirstNonEmpty(IF g.ids = IdKinds THEN LookUp(a, g.who, IdKinds) ELSE {},
        FirstNonEmpty(ClAssIdByShId(a, g), ClAssIdByAcId(a, g)))

Other(a) == IF a = Sync THEN Push ELSE Sync

SharesId(c, g) == c.who = g.who /\ c.ids \cap g.ids # {}

(* The program has created the guest in its open transaction, or has just  *)
(* found that it does not exist.                                           *)
AlsoCreates(a, g) ==
    \/ \E c \in inserted[a] : SharesId(c, g)
    \/ stage[a] = "create" /\ SharesId(Guest(a), g)

Races(a, g) == IF AlsoCreates(Other(a), g) THEN {g.who} ELSE {}

NextGuest(a, pk) ==
    /\ refs' = [refs EXCEPT ![a] = @ \cup {[at |-> at[a], who |-> Guest(a).who, pk |-> pk]}]
    /\ at' = [at EXCEPT ![a] = @ + 1]
    /\ stage' = [stage EXCEPT ![a] = "find"]

Find(a) ==
    /\ stage[a] = "find" /\ at[a] <= Len(guests[res[a]])
    /\ \/ /\ \E c \in KnownClients(a, Guest(a)) : NextGuest(a, c.pk)
          /\ UNCHANGED raced
       \/ /\ KnownClients(a, Guest(a)) = {}
          /\ stage' = [stage EXCEPT ![a] = "create"]
          /\ raced' = raced \cup Races(a, Guest(a))
          /\ UNCHANGED <<at, refs>>
    /\ UNCHANGED <<clients, nextPk, tables, inserted, cached, left, res, faults>>

FoundAll(a) ==
    /\ stage[a] = "find" /\ at[a] > Len(guests[res[a]])
    /\ stage' = [stage EXCEPT ![a] = "save"]
    /\ UNCHANGED <<clients, nextPk, tables, inserted, cached, left, res, at, refs, raced, faults>>

(* The insert of the upsert: without a commit. *)
Insert(a, g) ==
    LET new == [pk |-> nextPk, who |-> g.who, ids |-> g.ids] IN
    /\ inserted' = [inserted EXCEPT ![a] = @ \cup {new}]
    /\ nextPk' = nextPk + 1
    /\ cached' = [cached EXCEPT ![a] = @ \cup {new}]
    /\ raced' = raced \cup Races(a, g)
    /\ NextGuest(a, nextPk)

(* The update of the upsert, of a row that is there meanwhile. *)
Update(a, g, c) ==
    /\ cached' = [cached EXCEPT ![a] = @ \cup {[pk |-> c.pk, who |-> g.who, ids |-> g.ids]}]
    /\ NextGuest(a, c.pk)
    /\ UNCHANGED <<inserted, nextPk, raced>>

ClSave(a) ==
    /\ stage[a] = "create"
    /\ LET g == Guest(a) IN
       \/ WithIds(Visible(a), g.who, g.ids) = {} /\ Insert(a, g)
       \/ \E c \in WithIds(Visible(a), g.who, g.ids) : Update(a, g, c)
    /\ UNCHANGED <<clients, tables, left, res, faults>>

-----------------------------------------------------------------------------
(* The rest of res_save().                                                 *)

(* The first of the guests is the orderer. *)
Numbers(r) == 1 .. Len(guests[r])

(* All guests of a reservation are stored with it. *)
HasRow(r, n) == \E s \in stored : s.res = r /\ s.at = n
Complete(r) == \A n \in Numbers(r) : HasRow(r, n)

FoundAs(a, ns) == {f \in refs[a] : f.at \in ns}

(* The foreign keys of res_groups and res_group_clients. *)
ForeignKeysHold(a, ns) == \A f \in FoundAs(a, ns) : f.pk \in {c.pk : c \in Visible(a)}

StoreRows(a, ns) ==
    stored' = {s \in stored : s.res # res[a] \/ s.at \notin ns}
              \cup {[res |-> res[a], at |-> f.at, who |-> f.who, pk |-> f.pk] : f \in FoundAs(a, ns)}

(* The reservation is stored. *)
ResSaved(a) ==
    /\ ResOver(a)
    /\ stage' = [stage EXCEPT ![a] = "next"]
    /\ half' = half \ {res[a]}

(* Mutant: the clients are not part of the transaction that is committed. *)
CommitResOnly(a) ==
    /\ a = Sync /\ stage[a] = "save" /\ ForeignKeysHold(a, Numbers(res[a]))
    /\ StoreRows(a, Numbers(res[a]))
    /\ synced' = synced \cup {res[a]}
    /\ ResSaved(a)
    /\ UNCHANGED <<clients, nextPk, cached, left, raced, faults>>

(* BssServer commits the reservation with its clients and its occupants. *)
Commit(a) ==
    /\ a = Sync /\ stage[a] = "save" /\ ForeignKeysHold(a, Numbers(res[a]))
    /\ StoreRows(a, Numbers(res[a]))
    /\ clients' = clients \cup inserted[a]
    /\ synced' = synced \cup {res[a]}
    /\ ResSaved(a)
    /\ UNCHANGED <<nextPk, cached, left, raced, faults>>

(* SysDataMan commits with the clients the row of the reservation only, *)
CommitRes(a) ==
    /\ a = Push /\ stage[a] = "save" /\ ForeignKeysHold(a, {1})
    /\ StoreRows(a, {1})
    /\ clients' = clients \cup inserted[a]
    /\ inserted' = [inserted EXCEPT ![a] = {}]
    /\ half' = IF Complete(res[a]) THEN half ELSE half \cup {res[a]}
    /\ stage' = [stage EXCEPT ![a] = "occupants"]
    /\ at' = [at EXCEPT ![a] = 2]
    /\ UNCHANGED <<nextPk, synced, cached, left, res, refs, raced, faults>>

(* and then the row of one occupant after the other. *)
CommitOccupant(a) ==
    /\ stage[a] = "occupants" /\ at[a] <= Len(guests[res[a]])
    /\ ForeignKeysHold(a, {at[a]})
    /\ StoreRows(a, {at[a]})
    /\ at' = [at EXCEPT ![a] = @ + 1]
    /\ UNCHANGED <<clients, nextPk, synced, half, inserted, cached, left, stage, res, refs, raced, faults>>

ResDone(a) ==
    /\ stage[a] = "occupants" /\ at[a] > Len(guests[res[a]])
    /\ ResSaved(a)
    /\ UNCHANGED <<clients, nextPk, stored, synced, cached, left, raced, faults>>

(* The rows go, the records of self.clients stay as long as the run does. *)
Rollback(a) ==
    /\ ResOver(a)
    /\ \/ /\ a = Sync \/ BreakOnError
          /\ RunOver(a)
       \/ /\ a = Push /\ ~BreakOnError
          /\ stage' = [stage EXCEPT ![a] = "next"]
          /\ UNCHANGED <<left, cached>>
    /\ UNCHANGED <<clients, nextPk, tables, raced>>

(* The database refuses a key of a client that does not exist: of the row  *)
(* of the reservation or, in SysDataMan later, of an occupant.             *)
SaveRefused(a) ==
    /\ \/ stage[a] = "save" /\ ~ForeignKeysHold(a, IF a = Sync THEN Numbers(res[a]) ELSE {1})
       \/ stage[a] = "occupants" /\ ~ForeignKeysHold(a, {at[a]})
    /\ Rollback(a)
    /\ UNCHANGED faults

(* The database rejects one of the statements of res_save(). *)
SaveRejected(a) ==
    /\ stage[a] \in {"create", "save", "occupants"} /\ faults < MaxFaults
    /\ Rollback(a)
    /\ faults' = faults + 1

Killed(a) ==
    /\ stage[a] # "off" /\ faults < MaxFaults
    /\ ResOver(a) /\ RunOver(a)
    /\ faults' = faults + 1
    /\ UNCHANGED <<clients, nextPk, tables, raced>>

-----------------------------------------------------------------------------

RunStep(a) ==
    StartRun(a) \/ StartRes(a) \/ EndRun(a) \/ Find(a) \/ FoundAll(a)
    \/ ClSave(a) \/ Commit(a) \/ CommitRes(a) \/ CommitOccupant(a) \/ ResDone(a) \/ SaveRefused(a)

Next == \E a \in Programs : RunStep(a) \/ SaveRejected(a) \/ Killed(a)

(* The sync runs of BssServer are repeated by its timer, SysDataMan is     *)
(* started by somebody and may never be.                                   *)
Spec == Init /\ [][Next]_vars /\ WF_vars(RunStep(Sync))

-----------------------------------------------------------------------------

(* Every variable keeps its type, and a program that works at a guest      *)
(* works at one of its reservation.                                        *)
AtGuest ==
    \A a \in Programs : stage[a] \in {"find", "create", "save", "occupants"} =>
        /\ res[a] \in Reservations /\ at[a] \in Nat \ {0}
        /\ stage[a] # "occupants" => at[a] <= Len(guests[res[a]]) + 1
        /\ stage[a] = "create" => at[a] <= Len(guests[res[a]])

TypeOK ==
    /\ clients \subseteq Clients /\ nextPk \in Nat
    /\ stored \subseteq [res : Reservations, at : Nat, who : Guests, pk : Nat]
    /\ synced \subseteq Reservations /\ half \subseteq Reservations
    /\ inserted \in [Programs -> SUBSET Clients]
    /\ cached \in [Programs -> SUBSET Clients]
    /\ left \in [Programs -> SUBSET Reservations]
    /\ stage \in [Programs -> Stages]
    /\ res \in [Programs -> Reservations \cup {NoRes}]
    /\ at \in [Programs -> Nat]
    /\ refs \in [Programs -> SUBSET [at : Nat, who : Guests, pk : Nat]]
    /\ raced \subseteq Guests /\ faults \in Nat
    /\ AtGuest

(* A saved reservation belongs to clients that exist and are its guests,   *)
(* and to all of them, whatever was rolled back, killed or saved by the    *)
(* other program before; but SysDataMan leaves it without occupants that   *)
(* are refused or that it has not reached when it is killed.               *)
RightGuest ==
    /\ \A s \in stored : /\ s.at \in Numbers(s.res) /\ s.who = guests[s.res][s.at].who
                         /\ \E c \in clients : c.pk = s.pk /\ c.who = s.who
    /\ \A r \in StoredRes : Complete(r) \/ r \in half

(* The strengthening of it: a key that the sequence has given stands for   *)
(* one guest for ever, in the rows, the records in memory and the foreign  *)
(* keys, those of rows that were rolled back included.                     *)
Rows == clients \cup inserted[Sync] \cup inserted[Push]

Holders ==
    Rows \cup cached[Sync] \cup cached[Push] \cup refs[Sync] \cup refs[Push]

KeyNamesOneGuest ==
    /\ \A x \in Holders : x.pk < nextPk
    /\ \A x, y \in Holders : x.pk = y.pk => x.who = y.who

(* What res_save() has found, and stored, up to a guest. *)
InOrder(a) ==
    /\ \A f \in refs[a] : f.at \in Numbers(res[a]) /\ f.who = guests[res[a]][f.at].who
    /\ stage[a] \in {"off", "next"} => refs[a] = {}
    /\ stage[a] \in {"find", "create"} =>
          \A n \in Numbers(res[a]) : n < at[a] => \E f \in refs[a] : f.at = n
    /\ stage[a] \in {"save", "occupants"} => \A n \in Numbers(res[a]) : \E f \in refs[a] : f.at = n
    /\ stage[a] = "occupants" => \A n \in Numbers(res[a]) : n < at[a] => HasRow(res[a], n)

FoundInOrder == \A a \in Programs : InOrder(a)

(* The clients are committed before the first occupant is stored. *)
OccupantsLast ==
    \A a \in Programs : stage[a] = "occupants" => inserted[a] = {} /\ at[a] >= 2

ClientInv == KeyNamesOneGuest /\ FoundInOrder /\ OccupantsLast /\ RightGuest

(* Two clients never have an id of a guest in common, although the table   *)
(* has no constraint that prevents it, unless both programs have created   *)
(* the guest in transactions that did not see each other.                  *)
OneClientPerId ==
    \A c, d \in clients :
        c.pk # d.pk /\ c.who = d.who => c.ids \cap d.ids = {} \/ c.who \in raced

(* The strengthening of it: nor do rows that are not committed yet, and a  *)
(* program that is about to create a guest has seen none of the rows that  *)
(* have an id of it.                                                       *)
OneRowPerId ==
    \A c, d \in Rows :
        c.pk # d.pk /\ c.who = d.who => c.ids \cap d.ids = {} \/ c.who \in raced

CreatesUnknown ==
    \A a \in Programs : stage[a] = "create" =>
        \A c \in Rows : SharesId(c, Guest(a)) => c.who \in raced

IdInv == OneRowPerId /\ CreatesUnknown

(* In the end every reservation is stored with all of its guests, also     *)
(* after a rollback has left records in memory of clients that do not      *)
(* exist and after SysDataMan has left it without occupants.               *)
ResStored == \A r \in Reservations : <>[](Complete(r))

(* The docstring of cl_ensure_id() promises the primary key of a client    *)
(* that exists: the keys in memory should be those of rows.  Does not hold *)
(* after a rollback (README, Findings).                                    *)
CachedExists ==
    \A a \in Programs :
        stage[a] # "off" => {c.pk : c \in cached[a]} \subseteq {c.pk : c \in Visible(a)}
=============================================================================
