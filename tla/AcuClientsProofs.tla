------------------------- MODULE AcuClientsProofs -------------------------
(***************************************************************************)
(* Proofs about the clients on their way from Acumen to Sihot (AcuClients).*)
(*                                                                         *)
(* ClientSentOrQueued is not inductive: whether a client that is logged as *)
(* synced is in Sihot depends on what the program fetched before.          *)
(* ClientsInv adds that a client which was changed after it was fetched    *)
(* has an entry in the log that is newer than the one it was fetched with, *)
(* so that the date of a SYNCED entry cannot cover it but in the window    *)
(* between a query and its _last_fetch, and that the persons whom Sihot    *)
(* accepted are there at least as new as they were fetched.  For a         *)
(* reservation it adds which of its clients are done (ResInFlight).        *)
(***************************************************************************)
EXTENDS AcuClients, TLAPS

-----------------------------------------------------------------------------
(* Types.                                                                  *)

\* A client is being sent, a reservation is being sent.
LEMMA IsSending ==
    ASSUME TypeOK
    PROVE  /\ cl # NoCl <=> cl \in Sending
           /\ cl.stage # "none" <=> cl \in Sending
           /\ job # NoJob <=> job \in Job
           /\ job.r # NoRes <=> job \in Job
           /\ job.ensure # <<>> => job \in Job
<1>1. NoCl.stage = "none" /\ NoCl \notin Sending
  BY DEF NoCl, Sending
<1>2. \A x \in Sending : x.stage # "none"
  BY DEF Sending
<1>3. NoJob.r = NoRes /\ NoJob.ensure = <<>> /\ NoRes \notin Res
  BY ConstantsAssumption DEF NoJob
<1>4. NoJob \notin Job /\ \A x \in Job : x.r \in Res
  BY <1>3 DEF Job
<1> QED BY <1>1, <1>2, <1>3, <1>4 DEF TypeOK

LEMMA PersonsType == \A c : Persons(c) \subseteq {1, 2} /\ 1 \in Persons(c) /\ (2 \in Persons(c) <=> c \in Couples)
  BY DEF Persons

LEMMA EnsuredType ==
    ASSUME TypeOK, NEW r \in Res
    PROVE  Ensured(r) \in Seq(Clients)
  BY DEF TypeOK, Ensured

\* What the end of a loop leaves.
LEMMA LeftLoop ==
    ASSUME NEW l, LeaveLoop(l)
    PROVE  /\ pc' = l /\ todo' = {} /\ lastFetch' = 0
           /\ batch' \in [Clients -> {NoEntry} \cup ClEntry] /\ resBatch' \in [Res -> {NoEntry} \cup ResEntry]
  BY DEF LeaveLoop

LEMMA TypeInit == Init => TypeOK
  <1> SUFFICES ASSUME Init PROVE TypeOK
    OBVIOUS
  <1>1. occupant \in [Res -> Clients] /\ orderer \in [Res -> Clients]
    BY DEF Init
  <1>2. guest \in [Clients -> [{1, 2} -> Nat]]
    BY DEF Init
  <1>3. resv \in [Res -> ResState]
    BY DEF Init, ResState
  <1>4. batch \in [Clients -> {NoEntry} \cup ClEntry] /\ resBatch \in [Res -> {NoEntry} \cup ResEntry]
    BY DEF Init
  <1> QED BY <1>1, <1>2, <1>3, <1>4 DEF Init, TypeOK

LEMMA SihotGuest ==
    ASSUME TypeOK, NEW c \in Clients, NEW p \in {1, 2}, NEW v \in Nat,
           guest' = [guest EXCEPT ![c][p] = v]
    PROVE  /\ guest' \in [Clients -> [{1, 2} -> Nat]]
           /\ \A d \in Clients, q \in {1, 2} : guest'[d][q] = IF d = c /\ q = p THEN v ELSE guest[d][q]
  <1>1. guest \in [Clients -> [{1, 2} -> Nat]]
    BY DEF TypeOK
  <1>2. guest' = [guest EXCEPT ![c] = [guest[c] EXCEPT ![p] = v]]
    BY <1>1
  <1>3. [guest[c] EXCEPT ![p] = v] \in [{1, 2} -> Nat]
    BY <1>1
  <1>4. guest'[c] = [guest[c] EXCEPT ![p] = v] /\ \A d \in Clients : d # c => guest'[d] = guest[d]
    BY <1>1, <1>2
  <1>5. guest' \in [Clients -> [{1, 2} -> Nat]]
    BY <1>1, <1>2, <1>3
  <1>6. \A q \in {1, 2} : guest'[c][q] = IF q = p THEN v ELSE guest[c][q]
    BY <1>1, <1>4
  <1> QED BY <1>4, <1>5, <1>6

LEMMA StoredTypes ==
    ASSUME TypeOK, cl \in Sending, StoreAndLog
    PROVE  /\ cd' = cd /\ cdObj' \in [Clients -> SUBSET {1, 2}] /\ cdLog' \in [Clients -> Nat]
           /\ cdSynced' \in [Clients -> Nat] /\ late' \in [Clients \cup Res -> Nat] /\ clock' \in Nat
  <1>1. cl.c \in Clients /\ cl.ok \in SUBSET {1, 2} /\ cl.at \in Nat
    BY DEF Sending
  <1>2. cd' = cd /\ cdObj' = [cdObj EXCEPT ![cl.c] = @ \cup cl.ok]
    BY DEF StoreAndLog
  <1>3. cdObj[cl.c] \cup cl.ok \in SUBSET {1, 2}
    BY <1>1 DEF TypeOK
  <1>4. cdObj' \in [Clients -> SUBSET {1, 2}]
    BY <1>2, <1>3 DEF TypeOK
  <1>5. cdSynced' = cdSynced \/ cdSynced' = [cdSynced EXCEPT ![cl.c] = cl.at]
    BY DEF StoreAndLog
  <1>6. late' = late \/ late' = [late EXCEPT ![cl.c] = cd[cl.c]]
    BY DEF StoreAndLog
  <1>7. /\ cdLog' = cdLog \/ cdLog' = [cdLog EXCEPT ![cl.c] = clock + 1]
        /\ clock' = clock \/ clock' = clock + 1
    BY DEF StoreAndLog
  <1>8. cdSynced' \in [Clients -> Nat] /\ clock' \in Nat
    BY <1>1, <1>5, <1>7 DEF TypeOK
  <1>9. late' \in [Clients \cup Res -> Nat]
    <2>1. cd[cl.c] \in Nat
      BY <1>1 DEF TypeOK
    <2> QED BY <1>6, <2>1 DEF TypeOK
  <1>10. cdLog' \in [Clients -> Nat]
    <2>1. clock + 1 \in Nat
      BY DEF TypeOK
    <2> QED BY <1>7, <2>1 DEF TypeOK
  <1> QED BY <1>2, <1>4, <1>8, <1>9, <1>10

LEMMA SentTypes ==
    ASSUME TypeOK, NEW p \in {1, 2}, SendPerson(p)
    PROVE  TypeOK' /\ cl \in Sending /\ cl' \in Sending
  <1>1. cl.stage \in {"send1", "send2"}
    BY DEF SendPerson
  <1>2. cl \in Sending
    BY <1>1, IsSending
  <1>3. cl.c \in Clients /\ cl.ver \in Nat /\ cl.ok \in SUBSET {1, 2}
    BY <1>2 DEF Sending
  <1>4. PICK a \in Answers :
          /\ guest' = IF a = "refused" THEN guest ELSE [guest EXCEPT ![cl.c][p] = cl.ver]
          /\ cl' = [cl EXCEPT !.stage = NextStage(p, a),
                              !.ok = IF a = "ok" THEN @ \cup {p} ELSE @, !.err = a # "ok"]
    BY DEF SendPerson
  <1>5. guest' \in [Clients -> [{1, 2} -> Nat]]
    <2>1. CASE a = "refused"
      BY <1>4, <2>1 DEF TypeOK
    <2>2. CASE a # "refused"
      <3>1. guest' = [guest EXCEPT ![cl.c][p] = cl.ver]
        BY <1>4, <2>2
      <3> QED BY <1>3, <3>1, SihotGuest
    <2> QED BY <2>1, <2>2
  <1>6. cl' \in Sending
    <2>1. NextStage(p, a) \in {"send2", "log"}
      BY DEF NextStage
    <2>2. (IF a = "ok" THEN cl.ok \cup {p} ELSE cl.ok) \in SUBSET {1, 2} /\ (a # "ok") \in BOOLEAN
      BY <1>3
    <2>3. cl' = [cl EXCEPT !.stage = NextStage(p, a),
                           !.ok = IF a = "ok" THEN cl.ok \cup {p} ELSE cl.ok, !.err = a # "ok"]
      BY <1>4
    <2> QED BY <1>2, <2>1, <2>2, <2>3 DEF Sending
  <1>7. UNCHANGED <<given, cdVars, ruVars, txVars, resv, loopVars, job, late>>
    BY DEF SendPerson
  <1> QED BY <1>2, <1>5, <1>6, <1>7 DEF TypeOK, given, cdVars, ruVars, txVars, loopVars

-----------------------------------------------------------------------------
(* The initial states, and the changes of clients.                         *)

LEMMA InvInit == Init => ClientsInv
  <1> SUFFICES ASSUME Init PROVE ClientsInv
    OBVIOUS
  <1>1. TypeOK
    BY TypeInit
  <1>2. cl = NoCl /\ job = NoJob /\ pc = "idle" /\ lastFetch = 0 /\ clock = 1
    BY DEF Init
  <1>3. \A c \in Clients : /\ cd[c] = 1 /\ cdObj[c] = {} /\ cdLog[c] = 0 /\ cdSynced[c] = 0
                           /\ \A p \in {1, 2} : guest[c][p] = 0
    BY DEF Init
  <1>4. InLoops /\ ClientInFlight /\ ResInFlight
    BY <1>2 DEF InLoops, ClientInFlight, ResInFlight
  <1>5. DatesPassed
    <2>1. \A c \in Clients : tx[c] = 0
      BY DEF Init
    <2> QED BY <1>2, <1>3, <2>1 DEF DatesPassed, ClientDates
  <1>6. ClientSentOrQueued
    BY <1>3 DEF ClientSentOrQueued, CdUnsynced
  <1> QED BY <1>1, <1>4, <1>5, <1>6 DEF ClientsInv

\* While the clients stay as they are.
LEMMA ClientsStay ==
    ASSUME ClientsInv, UNCHANGED <<pseudo, orderer, occupant, cd, cdObj, cdLog, cdSynced, tx, clock, guest>>,
           \A c \in Clients : late'[c] = late[c],
           cl'.ok # {} => cl'.ok = cl.ok /\ cl'.c = cl.c
    PROVE  ClientSentOrQueued' /\ \A c \in Clients : ClientDates(c)'
  <1>1. DatesPassed /\ ClientSentOrQueued
    BY DEF ClientsInv
  <1>2. ClientSentOrQueued'
    BY <1>1 DEF ClientSentOrQueued, InSihot, CdUnsynced
  <1>3. \A c \in Clients : ClientDates(c)'
    BY <1>1 DEF DatesPassed, ClientDates, Logged, Locked
  <1> QED BY <1>2, <1>3

\* A change is dated and not yet seen.
LEMMA ChangedKeeps ==
    ASSUME ClientsInv, NEW x \in Clients \cup Res, Changed(x), x \in Clients => ~Locked(x),
           UNCHANGED <<given, cdVars, ruVars, resv, loopVars, cl, job, late>>,
           guest' \in [Clients -> [{1, 2} -> Nat]],
           \A d \in Clients, p \in {1, 2} :
              guest'[d][p] = guest[d][p] \/ (d = x /\ guest'[d][p] = cd[d] + 1)
    PROVE  ClientsInv'
  <1>1. TypeOK /\ InLoops /\ DatesPassed /\ ClientInFlight /\ ResInFlight /\ ClientSentOrQueued
    BY DEF ClientsInv
  <1>2. /\ UNCHANGED <<pseudo, orderer, occupant, cd, cdObj, cdLog, cdSynced, ru, ruLog, ruSynced, resv, pc,
                       prog, batch, resBatch, todo, lastFetch, cl, job, late>>
        /\ clock' = clock + 1 /\ clock \in Nat /\ clock' \in Nat
        /\ tx[x] = 0 /\ tx' \in [Clients \cup Res -> Nat]
        /\ \A d \in Clients : tx'[d] = IF d = x THEN clock + 1 ELSE tx[d]
    BY <1>1 DEF Changed, TypeOK, given, cdVars, ruVars, loopVars
  <1>3. TypeOK'
    BY <1>1, <1>2 DEF TypeOK
  <1>4. \A d \in Clients : /\ cd[d] \in Nat /\ cdLog[d] \in Nat /\ cdSynced[d] \in Nat /\ tx[d] \in Nat
                           /\ \A p \in {1, 2} : guest[d][p] \in Nat /\ guest'[d][p] \in Nat
    BY <1>1, <1>3 DEF TypeOK
  <1>5. \A d \in Clients : ClientDates(d)
    BY <1>1 DEF DatesPassed
  <1>6. \A d \in Clients, p \in {1, 2} : guest'[d][p] >= guest[d][p]
    <2>1. ASSUME NEW d \in Clients, NEW p \in {1, 2}, d = x PROVE guest[d][p] <= cd[d]
      BY <1>2, <1>5, <2>1 DEF ClientDates
    <2> QED BY <1>4, <2>1
  <1>7. \A d \in Clients, p \in {1, 2}, n \in Nat : guest[d][p] >= n => guest'[d][p] >= n
    BY <1>4, <1>6
  <1>8. InLoops'
    BY <1>1, <1>2 DEF InLoops
  <1>9. ASSUME NEW d \in Clients PROVE ClientDates(d)'
    <2>1. /\ cdLog'[d] <= clock' /\ cdSynced'[d] <= clock' /\ tx'[d] <= clock'
          /\ tx'[d] # 0 => tx'[d] > cdLog'[d] /\ tx'[d] > cdSynced'[d] /\ (d = x \/ ~Locked(d))
      BY <1>2, <1>4, <1>5 DEF ClientDates
    <2>2. Locked(d)' <=> Locked(d)
      BY <1>2 DEF Locked
    <2>3. /\ ~Logged(d)' => cdLog'[d] = 0
          /\ cdObj'[d] \subseteq Persons(d)
      BY <1>2, <1>5 DEF ClientDates, Logged
    <2>4. ASSUME NEW p \in {1, 2} PROVE guest'[d][p] <= IF tx'[d] = 0 THEN cd'[d] ELSE cd'[d] + 1
      <3>1. guest[d][p] <= IF tx[d] = 0 THEN cd[d] ELSE cd[d] + 1
        BY <1>5 DEF ClientDates
      <3> QED BY <1>2, <1>4, <3>1
    <2> QED BY <2>1, <2>2, <2>3, <2>4 DEF ClientDates
  <1>10. DatesPassed'
    <2>1. lastFetch' <= clock' /\ (cl' # NoCl => cl'.log <= cdLog'[cl'.c] /\ cl'.at <= clock')
      <3>1. cl # NoCl => cl.at \in Nat
        BY <1>1, IsSending DEF Sending
      <3> QED BY <1>1, <1>2, <3>1 DEF DatesPassed, TypeOK
    <2> QED BY <1>1, <1>2, <1>9, <2>1 DEF DatesPassed
  <1>11. ClientInFlight'
    <2>1. cl # NoCl => cl.c \in Clients /\ cl.ver \in Nat /\ cl.ok \subseteq {1, 2}
      BY <1>1, IsSending DEF Sending
    <2>2. cl # NoCl => \A p \in cl.ok : guest'[cl.c][p] >= cl.ver
      BY <1>1, <1>7, <2>1 DEF ClientInFlight
    <2> QED BY <1>1, <1>2, <2>2 DEF ClientInFlight, ChangedIsQueued, Logged
  <1>12. ResInFlight'
    <2>1. job # NoJob => \A d \in Clients : job.seen[d] \in Nat
      BY <1>1, IsSending DEF Job
    <2>2. job # NoJob => \A d \in Clients : (\A p \in Persons(d) : guest[d][p] >= job.seen[d])
                                             => \A p \in Persons(d) : guest'[d][p] >= job.seen[d]
      BY <1>7, <2>1, PersonsType
    <2>3. job # NoJob => job.r \in Res /\ orderer[job.r] \in Clients /\ occupant[job.r] \in Clients
      BY <1>1, IsSending DEF Job, TypeOK
    <2> QED BY <1>1, <1>2, <2>2, <2>3 DEF ResInFlight, Ensured
  <1>13. ClientSentOrQueued'
    <2>1. \A d \in Clients : InSihot(d) => \A p \in Persons(d) : guest'[d][p] >= cd[d]
      BY <1>4, <1>7, PersonsType DEF InSihot
    <2> QED BY <1>1, <1>2, <2>1 DEF ClientSentOrQueued, InSihot, CdUnsynced
  <1> QED BY <1>3, <1>8, <1>10, <1>11, <1>12, <1>13 DEF ClientsInv

LEMMA UserKeeps ==
    ASSUME ClientsInv, NEW c \in Clients, UserSaves(c) \/ SihotSaves(c)
    PROVE  ClientsInv'
  <1>0. TypeOK /\ cd[c] + 1 \in Nat
    BY DEF ClientsInv, TypeOK
  <1>1. CASE UserSaves(c)
    <2>1. guest' = guest
      BY <1>1 DEF UserSaves
    <2>2. guest' \in [Clients -> [{1, 2} -> Nat]]
      BY <1>0, <2>1 DEF TypeOK
    <2> QED BY <1>1, <2>1, <2>2, ChangedKeeps DEF UserSaves
  <1>2. CASE SihotSaves(c)
    <2> DEFINE v == cd[c] + 1
    <2>1. guest' = [guest EXCEPT ![c][1] = v] /\ v \in Nat
      BY <1>0, <1>2 DEF SihotSaves
    <2> HIDE DEF v
    <2>2. /\ guest' \in [Clients -> [{1, 2} -> Nat]]
          /\ \A d \in Clients, q \in {1, 2} :
                guest'[d][q] = IF d = c /\ q = 1 THEN v ELSE guest[d][q]
      <3> DEFINE g == [guest[c] EXCEPT ![1] = v]
      <3>1. guest \in [Clients -> [{1, 2} -> Nat]]
        BY <1>0 DEF TypeOK
      <3>2. guest' = [guest EXCEPT ![c] = g]
        BY <2>1
      <3>3. g \in [{1, 2} -> Nat] /\ g[1] = v /\ g[2] = guest[c][2]
        BY <2>1, <3>1
      <3> HIDE DEF g
      <3>4. /\ guest' \in [Clients -> [{1, 2} -> Nat]]
            /\ guest'[c] = g
            /\ \A d \in Clients : d # c => guest'[d] = guest[d]
        BY <3>1, <3>2, <3>3
      <3>5. ASSUME NEW d \in Clients, NEW q \in {1, 2}
            PROVE  guest'[d][q] = IF d = c /\ q = 1 THEN v ELSE guest[d][q]
        BY <3>3, <3>4
      <3> QED BY <3>4, <3>5
    <2> QED BY <1>2, <2>2, ChangedKeeps DEF SihotSaves, v
  <1> QED BY <1>1, <1>2

LEMMA UserResKeeps ==
    ASSUME ClientsInv, NEW r \in Res, UserSavesRes(r)
    PROVE  ClientsInv'
  <1>1. r \notin Clients /\ TypeOK /\ guest' = guest
    BY ConstantsAssumption DEF ClientsInv, UserSavesRes
  <1>2. guest' \in [Clients -> [{1, 2} -> Nat]]
    BY <1>1 DEF TypeOK
  <1> QED BY <1>1, <1>2, ChangedKeeps DEF UserSavesRes

\* A change that is seen is newer than all that was fetched and logged.
LEMMA CommitKeeps ==
    ASSUME ClientsInv, NEW c \in Clients, Commit(c)
    PROVE  ClientsInv'
  <1>1. TypeOK /\ InLoops /\ DatesPassed /\ ClientInFlight /\ ResInFlight /\ ClientSentOrQueued
    BY DEF ClientsInv
  <1>2. /\ UNCHANGED <<pseudo, orderer, occupant, cdObj, cdSynced, ru, ruLog, ruSynced, clock, guest, resv, pc,
                       prog, batch, resBatch, todo, lastFetch, cl, job, late>>
        /\ tx[c] # 0
        /\ cd' = [cd EXCEPT ![c] = @ + 1]
        /\ cdLog' = IF c \notin pseudo THEN [cdLog EXCEPT ![c] = tx[c]] ELSE cdLog
        /\ tx' = [tx EXCEPT ![c] = 0]
    BY DEF Commit, given, ruVars, loopVars, Logged
  <1>3. \A d \in Clients : /\ cd[d] \in Nat /\ cdLog[d] \in Nat /\ cdSynced[d] \in Nat /\ tx[d] \in Nat
                           /\ \A p \in {1, 2} : guest[d][p] \in Nat
    BY <1>1 DEF TypeOK
  <1>4. /\ cd' \in [Clients -> Nat] /\ cdLog' \in [Clients -> Nat] /\ tx' \in [Clients \cup Res -> Nat]
        /\ \A d \in Clients : /\ cd'[d] = IF d = c THEN cd[d] + 1 ELSE cd[d]
                              /\ cdLog'[d] = IF d = c /\ c \notin pseudo THEN tx[c] ELSE cdLog[d]
                              /\ tx'[d] = IF d = c THEN 0 ELSE tx[d]
    <2>1. cd[c] + 1 \in Nat /\ tx[c] \in Nat
      BY <1>3
    <2>2. cd' \in [Clients -> Nat] /\ \A d \in Clients : cd'[d] = IF d = c THEN cd[d] + 1 ELSE cd[d]
      BY <1>1, <1>2, <2>1 DEF TypeOK
    <2>3. /\ cdLog' \in [Clients -> Nat]
          /\ \A d \in Clients : cdLog'[d] = IF d = c /\ c \notin pseudo THEN tx[c] ELSE cdLog[d]
      BY <1>1, <1>2, <2>1 DEF TypeOK
    <2>4. tx' \in [Clients \cup Res -> Nat] /\ \A d \in Clients : tx'[d] = IF d = c THEN 0 ELSE tx[d]
      BY <1>1, <1>2 DEF TypeOK
    <2> QED BY <2>2, <2>3, <2>4
  <1>5. TypeOK'
    BY <1>1, <1>2, <1>4 DEF TypeOK
  <1>6. InLoops'
    BY <1>1, <1>2 DEF InLoops
  <1>7. \A d \in Clients : ClientDates(d)
    BY <1>1 DEF DatesPassed
  <1>8. \A d \in Clients : cdLog'[d] >= cdLog[d] /\ cd'[d] >= cd[d]
    BY <1>2, <1>3, <1>4, <1>7 DEF ClientDates
  <1>9. ASSUME NEW d \in Clients PROVE ClientDates(d)'
    <2>1. Locked(d)' <=> Locked(d)
      BY <1>2 DEF Locked
    <2>2. /\ cdLog'[d] <= clock' /\ cdSynced'[d] <= clock' /\ tx'[d] <= clock'
          /\ tx'[d] # 0 => tx'[d] > cdLog'[d] /\ tx'[d] > cdSynced'[d] /\ ~Locked(d)
      BY <1>1, <1>2, <1>3, <1>4, <1>7 DEF ClientDates, TypeOK
    <2>3. ~Logged(d)' => cdLog'[d] = 0
      BY <1>2, <1>4, <1>7 DEF ClientDates, Logged
    <2>4. ASSUME NEW p \in {1, 2} PROVE guest'[d][p] <= IF tx'[d] = 0 THEN cd'[d] ELSE cd'[d] + 1
      <3>1. guest[d][p] <= IF tx[d] = 0 THEN cd[d] ELSE cd[d] + 1
        BY <1>7 DEF ClientDates
      <3> QED BY <1>2, <1>3, <1>4, <3>1
    <2>5. cdObj'[d] \subseteq Persons(d)
      BY <1>2, <1>7 DEF ClientDates
    <2> QED BY <2>1, <2>2, <2>3, <2>4, <2>5 DEF ClientDates
  <1>10. cl # NoCl => cl.c \in Clients /\ cl.ver \in Nat /\ cl.log \in Nat /\ cl.log <= cdLog[cl.c]
    BY <1>1, IsSending DEF Sending, DatesPassed
  <1>11. pc \in {"stamp", "clients"} =>
            \A d \in todo : d \in Clients /\ batch[d].ver \in Nat /\ batch[d].log \in Nat /\ batch[d].log <= cdLog[d]
    BY <1>1 DEF InLoops, ClEntry, DatesPassed
  <1>12. job # NoJob => \A d \in Clients : job.seen[d] \in Nat
    BY <1>1, IsSending DEF Job
  <1>13. DatesPassed'
    <2>1. cl' # NoCl => cl'.log <= cdLog'[cl'.c]
      BY <1>2, <1>3, <1>4, <1>8, <1>10
    <2>2. pc' \in {"stamp", "clients"} => \A d \in todo' : batch'[d].log <= cdLog'[d]
      BY <1>2, <1>3, <1>5, <1>8, <1>11 DEF TypeOK
    <2>3. job' # NoJob => \A d \in Clients : job'.seen[d] <= cd'[d]
      BY <1>1, <1>2, <1>3, <1>4, <1>8, <1>12 DEF DatesPassed
    <2> QED BY <1>1, <1>2, <1>9, <2>1, <2>2, <2>3 DEF DatesPassed
  <1>14. ASSUME NEW d \in Clients, NEW ver \in Nat, NEW n \in Nat, n <= cdLog[d], ChangedIsQueued(d, ver, n)
         PROVE  /\ ver <= cd'[d]
                /\ d \notin pseudo /\ cd'[d] # ver => cdLog'[d] > n /\ cdLog'[d] > cdSynced[d]
    BY <1>2, <1>3, <1>4, <1>7, <1>14 DEF ChangedIsQueued, Logged, ClientDates
  <1>15. ClientInFlight'
    <2>1. pc' \in {"stamp", "clients"} =>
              \A d \in todo' : /\ batch'[d].ver <= cd'[d]
                               /\ d \notin pseudo' /\ cd'[d] # batch'[d].ver =>
                                     cdLog'[d] > batch'[d].log /\ cdLog'[d] > cdSynced'[d]
      BY <1>1, <1>2, <1>11, <1>14 DEF ClientInFlight
    <2>2. cl' # NoCl => /\ cl'.ver <= cd'[cl'.c]
                        /\ cl'.c \notin pseudo' /\ cd'[cl'.c] # cl'.ver =>
                              cdLog'[cl'.c] > cl'.log /\ cdLog'[cl'.c] > cdSynced'[cl'.c]
      BY <1>1, <1>2, <1>10, <1>14 DEF ClientInFlight
    <2> QED BY <1>1, <1>2, <2>1, <2>2 DEF ClientInFlight, ChangedIsQueued, Logged
  <1>16. ResInFlight'
    BY <1>1, <1>2 DEF ResInFlight, Ensured
  <1>17. ClientSentOrQueued'
    <2>1. ASSUME NEW d \in Clients
          PROVE  (\A q \in Persons(d) : guest'[d][q] >= cd'[d])
                 \/ cdLog'[d] = 0 \/ cdLog'[d] > cdSynced'[d] \/ late'[d] = cd'[d]
      <3>1. CASE d = c
        BY <1>2, <1>3, <1>4, <1>7, <3>1 DEF ClientDates, Logged
      <3>2. CASE d # c
        BY <1>1, <1>2, <1>4, <3>2 DEF ClientSentOrQueued, InSihot, CdUnsynced
      <3> QED BY <3>1, <3>2
    <2> QED BY <2>1 DEF ClientSentOrQueued, InSihot, CdUnsynced
  <1> QED BY <1>5, <1>6, <1>13, <1>15, <1>16, <1>17 DEF ClientsInv

LEMMA CommitResKeeps ==
    ASSUME ClientsInv, NEW r \in Res, CommitRes(r)
    PROVE  ClientsInv'
  <1>1. TypeOK /\ InLoops /\ DatesPassed /\ ClientInFlight /\ ResInFlight /\ ClientSentOrQueued
    BY DEF ClientsInv
  <1>2. /\ UNCHANGED <<pseudo, orderer, occupant, cd, cdObj, cdLog, cdSynced, ruSynced, clock, guest, resv, pc,
                       prog, batch, resBatch, todo, lastFetch, cl, job, late>>
        /\ ru' = [ru EXCEPT ![r] = @ + 1] /\ ruLog' = [ruLog EXCEPT ![r] = tx[r]] /\ tx' = [tx EXCEPT ![r] = 0]
    BY DEF CommitRes, given, cdVars, loopVars
  <1>3. TypeOK'
    <2>1. ru[r] + 1 \in Nat /\ tx[r] \in Nat
      BY <1>1 DEF TypeOK
    <2>2. ru' \in [Res -> Nat] /\ ruLog' \in [Res -> Nat] /\ tx' \in [Clients \cup Res -> Nat]
      BY <1>1, <1>2, <2>1 DEF TypeOK
    <2> QED BY <1>1, <1>2, <2>2 DEF TypeOK
  <1>4. \A c \in Clients : tx'[c] = tx[c]
    BY <1>1, <1>2, ConstantsAssumption DEF TypeOK
  <1>5. InLoops' /\ ClientInFlight' /\ ResInFlight'
    <2>1. InLoops'
      BY <1>1, <1>2 DEF InLoops
    <2>2. ClientInFlight'
      BY <1>1, <1>2 DEF ClientInFlight, ChangedIsQueued, Logged
    <2>3. ResInFlight'
      BY <1>1, <1>2 DEF ResInFlight, Ensured
    <2> QED BY <2>1, <2>2, <2>3
  <1>6. \A c \in Clients : ClientDates(c)'
    BY <1>1, <1>2, <1>4 DEF DatesPassed, ClientDates, Logged, Locked
  <1>7. DatesPassed'
    BY <1>1, <1>2, <1>6 DEF DatesPassed
  <1>8. ClientSentOrQueued'
    BY <1>1, <1>2 DEF ClientSentOrQueued, InSihot, CdUnsynced
  <1> QED BY <1>3, <1>5, <1>7, <1>8 DEF ClientsInv

-----------------------------------------------------------------------------
(* A client is sent.                                                       *)

\* A client is sent.
LEMMA SendKeeps ==
    ASSUME ClientsInv, NEW p \in {1, 2}, SendPerson(p)
    PROVE  ClientsInv'
  <1>1. TypeOK /\ InLoops /\ DatesPassed /\ ClientInFlight /\ ResInFlight /\ ClientSentOrQueued
    BY DEF ClientsInv
  <1>2. TypeOK' /\ cl \in Sending /\ cl' \in Sending /\ cl # NoCl /\ cl' # NoCl
    BY <1>1, SentTypes, IsSending DEF NoCl, Sending
  <1>3. UNCHANGED <<pseudo, orderer, occupant, cd, cdObj, cdLog, cdSynced, ru, ruLog, ruSynced, tx, clock, resv, pc,
                    batch, resBatch, todo, lastFetch, job, late>>
    BY DEF SendPerson, given, cdVars, ruVars, txVars, loopVars
  <1>4. /\ cl.stage = <<"send1", "send2">>[p]
        /\ p = 1 => cl.stage = "send1"
        /\ p = 2 => cl.stage = "send2"
    BY DEF SendPerson
  <1>5. PICK a \in Answers :
          /\ a = "ok" => tx[cl.c] = 0
          /\ guest' = IF a = "refused" THEN guest ELSE [guest EXCEPT ![cl.c][p] = cl.ver]
          /\ cl' = [cl EXCEPT !.stage = NextStage(p, a),
                              !.ok = IF a = "ok" THEN @ \cup {p} ELSE @, !.err = a # "ok"]
    BY DEF SendPerson
  <1>6. /\ cl'.c = cl.c /\ cl'.ver = cl.ver /\ cl'.log = cl.log /\ cl'.at = cl.at
        /\ cl'.stage = NextStage(p, a) /\ cl'.err = (a # "ok")
        /\ cl'.ok = IF a = "ok" THEN cl.ok \cup {p} ELSE cl.ok
    BY <1>2, <1>5 DEF Sending
  <1>7. cl.c \in Clients /\ cl.ver \in Nat /\ cl.ok \subseteq {1, 2} /\ cl.log \in Nat
    BY <1>2 DEF Sending
  <1>8. \A d \in Clients : /\ cd[d] \in Nat /\ cdLog[d] \in Nat /\ cdSynced[d] \in Nat
                           /\ \A q \in {1, 2} : guest[d][q] \in Nat
    BY <1>1 DEF TypeOK
  <1>9. \A d \in Clients, q \in {1, 2} :
           guest'[d][q] = IF a # "refused" /\ d = cl.c /\ q = p THEN cl.ver ELSE guest[d][q]
    <2>1. CASE a = "refused"
      BY <1>5, <2>1
    <2>2. CASE a # "refused"
      <3>1. guest' = [guest EXCEPT ![cl.c][p] = cl.ver]
        BY <1>5, <2>2
      <3>2. \A d \in Clients, q \in {1, 2} : guest'[d][q] = IF d = cl.c /\ q = p THEN cl.ver ELSE guest[d][q]
        BY <1>1, <1>7, <3>1, SihotGuest
      <3> QED BY <2>2, <3>2
    <2> QED BY <2>1, <2>2
  <1>10. /\ cl.ver <= cd[cl.c]
         /\ cl.c \notin pseudo /\ cd[cl.c] # cl.ver => cdLog[cl.c] > cl.log /\ cdLog[cl.c] > cdSynced[cl.c]
         /\ \A q \in cl.ok : guest[cl.c][q] >= cl.ver
         /\ cl.ok \subseteq Persons(cl.c)
         /\ cl.stage = "send2" => 1 \in cl.ok /\ cl.c \in Couples
    BY <1>1, <1>2 DEF ClientInFlight, ChangedIsQueued, Logged
  <1>11. InLoops'
    BY <1>1, <1>2, <1>3, <1>6 DEF InLoops
  <1>12. DatesPassed'
    <2>1. ASSUME NEW d \in Clients PROVE ClientDates(d)'
      <3>1. ClientDates(d) /\ tx[d] \in Nat
        BY <1>1 DEF DatesPassed, TypeOK
      <3>2. ASSUME NEW q \in {1, 2} PROVE guest'[d][q] <= IF tx'[d] = 0 THEN cd'[d] ELSE cd'[d] + 1
        BY <1>3, <1>7, <1>8, <1>9, <1>10, <3>1 DEF ClientDates
      <3>3. tx'[d] # 0 => ~Locked(d)'
        BY <1>3, <1>5, <1>6, <3>1 DEF ClientDates, Locked
      <3> QED BY <1>3, <3>1, <3>2, <3>3 DEF ClientDates, Logged
    <2> QED BY <1>1, <1>2, <1>3, <1>6, <2>1 DEF DatesPassed
  <1>13. ClientInFlight'
    <2>1. pc \in {"stamp", "clients"} => \A c \in todo : ChangedIsQueued(c, batch[c].ver, batch[c].log)
      BY <1>1 DEF ClientInFlight
    <2>2. pc' \in {"stamp", "clients"} =>
              \A d \in todo' : /\ batch'[d].ver <= cd'[d]
                               /\ d \notin pseudo' /\ cd'[d] # batch'[d].ver =>
                                     cdLog'[d] > batch'[d].log /\ cdLog'[d] > cdSynced'[d]
      BY <1>3, <2>1 DEF ChangedIsQueued, Logged
    <2>3. \A q \in cl'.ok : guest'[cl.c][q] >= cl.ver
      <3>1. \A q \in cl'.ok : q \in cl.ok \/ (q = p /\ a = "ok")
        BY <1>6
      <3>2. ASSUME NEW q \in cl'.ok, q = p, a # "refused" PROVE guest'[cl.c][q] >= cl.ver
        BY <1>7, <1>9, <3>2
      <3>3. ASSUME NEW q \in cl.ok, q # p \/ a = "refused" PROVE guest'[cl.c][q] >= cl.ver
        <4>1. q \in {1, 2} /\ guest'[cl.c][q] = guest[cl.c][q]
          BY <1>7, <1>9, <3>3
        <4> QED BY <1>10, <4>1
      <3>4. "ok" # "refused"
        OBVIOUS
      <3> QED BY <3>1, <3>2, <3>3, <3>4
    <2>4. cl'.ok \subseteq Persons(cl.c)
      <3>1. p \in Persons(cl.c)
        BY <1>4, <1>10, PersonsType
      <3> QED BY <1>6, <1>10, <3>1
    <2>5. cl'.stage = "send2" => 1 \in cl'.ok /\ cl.c \in Couples
      <3>1. SUFFICES ASSUME NextStage(p, a) = "send2" PROVE 1 \in cl'.ok /\ cl.c \in Couples
        BY <1>6
      <3>2. a = "ok" /\ p = 1 /\ 2 \in Persons(cl.c)
        BY <3>1 DEF NextStage
      <3> QED BY <1>6, <3>2, PersonsType
    <2>6. cl'.stage = "log" /\ ~cl'.err => cl'.ok = Persons(cl.c)
      <3>1. SUFFICES ASSUME NextStage(p, a) = "log", a = "ok" PROVE cl'.ok = Persons(cl.c)
        BY <1>6
      <3>2. p = 2 \/ 2 \notin Persons(cl.c)
        BY <3>1 DEF NextStage
      <3>3. p \in cl'.ok /\ cl.ok \subseteq cl'.ok
        BY <1>6, <3>1
      <3>4. CASE p = 2
        <4>1. 1 \in cl'.ok /\ 2 \in cl'.ok
          BY <1>4, <1>10, <3>3, <3>4
        <4> QED BY <2>4, <4>1, PersonsType
      <3>5. CASE p = 1
        BY <2>4, <3>2, <3>3, <3>5, PersonsType
      <3> QED BY <3>4, <3>5
    <2>7. /\ cl'.ver <= cd'[cl'.c]
          /\ cl'.c \notin pseudo' /\ cd'[cl'.c] # cl'.ver =>
                cdLog'[cl'.c] > cl'.log /\ cdLog'[cl'.c] > cdSynced'[cl'.c]
      BY <1>3, <1>6, <1>10
    <2> QED BY <1>6, <2>2, <2>3, <2>4, <2>5, <2>6, <2>7 DEF ClientInFlight, ChangedIsQueued, Logged
  <1>14. ResInFlight'
    <2>1. SUFFICES ASSUME job # NoJob, pc = "main" PROVE ResInFlight'
      BY <1>3 DEF ResInFlight
    <2>2. cl.ver >= job.seen[cl.c] /\ job \in Job
      BY <1>1, <1>2, <2>1, IsSending DEF InLoops
    <2>3. ASSUME NEW d \in Clients, \A q \in Persons(d) : guest[d][q] >= job.seen[d]
          PROVE  \A q \in Persons(d) : guest'[d][q] >= job.seen[d]
      <3>1. \A q \in Persons(d) : guest'[d][q] = guest[d][q] \/ (d = cl.c /\ guest'[d][q] = cl.ver)
        BY <1>9, PersonsType
      <3> QED BY <2>2, <2>3, <3>1
    <2>4. job.r \in Res /\ orderer[job.r] \in Clients /\ occupant[job.r] \in Clients
      BY <1>1, <2>2 DEF Job, TypeOK
    <2> QED BY <1>1, <1>3, <2>1, <2>3, <2>4 DEF ResInFlight, Ensured
  <1>15. ClientSentOrQueued'
    <2>1. ASSUME NEW d \in Clients
          PROVE  (\A q \in Persons(d) : guest'[d][q] >= cd'[d])
                 \/ cdLog'[d] = 0 \/ cdLog'[d] > cdSynced'[d] \/ late'[d] = cd'[d]
      <3>1. CASE d = cl.c /\ cl.ver # cd[d]
        <4>1. d \in pseudo => cdLog[d] = 0
          BY <1>1 DEF DatesPassed, ClientDates, Logged
        <4> QED BY <1>3, <1>10, <3>1, <4>1
      <3>2. CASE d # cl.c \/ cl.ver = cd[d]
        <4>1. \A q \in Persons(d) : guest'[d][q] = guest[d][q] \/ guest'[d][q] = cd[d]
          BY <1>9, <3>2, PersonsType
        <4>2. cd[d] >= cd[d]
          BY <1>8
        <4> QED BY <1>1, <1>3, <4>1, <4>2 DEF ClientSentOrQueued, InSihot, CdUnsynced
      <3> QED BY <3>1, <3>2
    <2> QED BY <2>1 DEF ClientSentOrQueued, InSihot, CdUnsynced
  <1> QED BY <1>2, <1>11, <1>12, <1>13, <1>14, <1>15 DEF ClientsInv

-----------------------------------------------------------------------------
(* A client is logged.                                                     *)

\* The entry of a client that was sent changes its own dates, which only grow, and marks it as
\* synced only if nothing newer is known.
LEMMA Stored ==
    ASSUME ClientsInv, cl \in Sending, cl.stage = "log", StoreAndLog, cl' = NoCl,
           UNCHANGED <<pseudo, tx, guest>>
    PROVE  /\ cd' = cd /\ clock' >= clock /\ clock' \in Nat
           /\ cdObj' \in [Clients -> SUBSET {1, 2}] /\ cdLog' \in [Clients -> Nat]
           /\ cdSynced' \in [Clients -> Nat] /\ late' \in [Clients \cup Res -> Nat]
           /\ \A d \in Clients : /\ ClientDates(d)' /\ cdLog'[d] >= cdLog[d]
                                 /\ d # cl.c => cdLog'[d] = cdLog[d] /\ cdSynced'[d] = cdSynced[d]
           /\ ClientSentOrQueued'
  <1>1. TypeOK /\ DatesPassed /\ ClientInFlight /\ ClientSentOrQueued
    BY DEF ClientsInv
  <1>2. /\ cd' = cd /\ cdObj' \in [Clients -> SUBSET {1, 2}] /\ cdLog' \in [Clients -> Nat]
        /\ cdSynced' \in [Clients -> Nat] /\ late' \in [Clients \cup Res -> Nat] /\ clock' \in Nat
    BY <1>1, StoredTypes
  <1>3. cl.c \in Clients /\ cl.ok \subseteq {1, 2} /\ cl.at \in Nat /\ cl.ver \in Nat /\ cl.log \in Nat /\ cl # NoCl
    BY <1>1, IsSending DEF Sending
  <1>4. \A d \in Clients : /\ cd[d] \in Nat /\ cdLog[d] \in Nat /\ cdSynced[d] \in Nat /\ clock \in Nat
                           /\ cdLog[d] <= clock /\ cdSynced[d] <= clock /\ cdObj[d] \subseteq Persons(d)
                           /\ tx[d] \in Nat /\ tx[d] <= clock
                           /\ tx[d] # 0 => tx[d] > cdLog[d] /\ tx[d] > cdSynced[d] /\ ~Locked(d)
                           /\ \A p \in {1, 2} : /\ guest[d][p] \in Nat
                                                 /\ guest[d][p] <= IF tx[d] = 0 THEN cd[d] ELSE cd[d] + 1
                           /\ d \in pseudo => cdLog[d] = 0
    BY <1>1 DEF TypeOK, DatesPassed, ClientDates, Logged
  <1>5. /\ cl.ver <= cd[cl.c]
        /\ cl.c \notin pseudo /\ cd[cl.c] # cl.ver => cdLog[cl.c] > cl.log /\ cdLog[cl.c] > cdSynced[cl.c]
        /\ \A q \in cl.ok : guest[cl.c][q] >= cl.ver
        /\ cl.ok \subseteq Persons(cl.c) /\ (~cl.err => cl.ok = Persons(cl.c))
        /\ cl.at <= clock
    BY <1>1, <1>3 DEF ClientInFlight, ChangedIsQueued, Logged, DatesPassed
  <1> DEFINE newIds == cl.ok \ cdObj[cl.c]
  <1>6. \A d \in Clients : cdObj'[d] = IF d = cl.c THEN cdObj[d] \cup cl.ok ELSE cdObj[d]
    BY <1>1, <1>3 DEF StoreAndLog, TypeOK
  <1>7. \A d \in Clients : cdSynced'[d] = IF d = cl.c /\ ~cl.err /\ cl.at >= cdSynced[d] THEN cl.at ELSE cdSynced[d]
    <2>1. cdSynced' = IF cl.err \/ cl.at < cdSynced[cl.c] THEN cdSynced ELSE [cdSynced EXCEPT ![cl.c] = cl.at]
      BY DEF StoreAndLog
    <2>2. cl.at < cdSynced[cl.c] <=> ~(cl.at >= cdSynced[cl.c])
      BY <1>3, <1>4
    <2> QED BY <1>1, <1>3, <2>1, <2>2 DEF TypeOK
  <1>8. /\ newIds = {} => cdLog' = cdLog /\ clock' = clock
        /\ newIds # {} => /\ clock' = clock + 1
                          /\ \A d \in Clients : cdLog'[d] = IF d = cl.c /\ d \notin pseudo THEN clock + 1 ELSE cdLog[d]
    BY <1>1, <1>3 DEF StoreAndLog, TypeOK, Logged
  <1>9. \A d \in Clients : late'[d] = IF d = cl.c /\ ~cl.err /\ newIds = {} /\ cdLog[d] # cl.log /\ cdLog[d] <= cl.at
                                      THEN cd[d] ELSE late[d]
    BY <1>1, <1>3 DEF StoreAndLog, TypeOK
  <1> HIDE DEF newIds
  <1>10. clock' >= clock
    BY <1>1, <1>8 DEF TypeOK
  <1>11. ASSUME NEW d \in Clients
         PROVE  /\ cdLog'[d] <= clock' /\ cdSynced'[d] <= clock'
                /\ d \in pseudo => cdLog'[d] = 0
                /\ cdObj'[d] \subseteq Persons(d)
                /\ cdLog'[d] >= cdLog[d]
                /\ d # cl.c => cdLog'[d] = cdLog[d] /\ cdSynced'[d] = cdSynced[d]
    <2>1. cdLog'[d] <= clock' /\ cdLog'[d] >= cdLog[d]
      BY <1>4, <1>8
    <2>2. cdSynced'[d] <= clock'
      BY <1>3, <1>4, <1>5, <1>7, <1>8
    <2>3. d \in pseudo => cdLog'[d] = 0
      BY <1>4, <1>8
    <2>4. cdObj'[d] \subseteq Persons(d)
      BY <1>4, <1>5, <1>6
    <2>5. d # cl.c => cdLog'[d] = cdLog[d] /\ cdSynced'[d] = cdSynced[d]
      BY <1>7, <1>8
    <2> QED BY <2>1, <2>2, <2>3, <2>4, <2>5
  <1>14. ASSUME NEW d \in Clients PROVE ClientDates(d)'
    <2>1. ~Locked(d)'
      <3>1. NoCl.ok = {}
        BY DEF NoCl
      <3> QED BY <3>1 DEF Locked
    <2>2. tx[d] # 0 => cdLog'[d] = cdLog[d] /\ cdSynced'[d] = cdSynced[d]
      <3>1. CASE d # cl.c
        BY <1>11, <3>1
      <3>2. CASE d = cl.c /\ cl.ok # {}
        BY <1>4, <3>2 DEF Locked
      <3>3. CASE d = cl.c /\ cl.ok = {}
        <4>1. newIds = {} /\ cl.err
          BY <1>5, <3>3, PersonsType DEF newIds
        <4> QED BY <1>7, <1>8, <4>1
      <3> QED BY <3>1, <3>2, <3>3
    <2>3. /\ tx'[d] <= clock'
          /\ tx'[d] # 0 => tx'[d] > cdLog'[d] /\ tx'[d] > cdSynced'[d]
      BY <1>4, <1>8, <2>2
    <2>4. \A p \in {1, 2} : guest'[d][p] <= IF tx'[d] = 0 THEN cd'[d] ELSE cd'[d] + 1
      BY <1>2, <1>4
    <2> QED BY <1>11, <2>1, <2>3, <2>4 DEF ClientDates, Logged
  <1>12. ASSUME NEW d \in Clients
         PROVE  (\A q \in Persons(d) : guest[d][q] >= cd[d])
                \/ cdLog'[d] = 0 \/ cdLog'[d] > cdSynced'[d] \/ late'[d] = cd[d]
    <2>1. \/ \A q \in Persons(d) : guest[d][q] >= cd[d]
          \/ cdLog[d] = 0 \/ cdLog[d] > cdSynced[d] \/ late[d] = cd[d]
      BY <1>1 DEF ClientSentOrQueued, InSihot, CdUnsynced
    <2>2. CASE d # cl.c
      BY <1>9, <1>11, <2>1, <2>2
    <2>3. CASE d = cl.c /\ d \in pseudo
      BY <1>11, <2>3
    <2>4. CASE d = cl.c /\ d \notin pseudo /\ newIds # {}
      BY <1>3, <1>4, <1>5, <1>7, <1>8, <2>4
    <2>5. CASE d = cl.c /\ d \notin pseudo /\ newIds = {} /\ cl.err
      BY <1>7, <1>8, <1>9, <2>1, <2>5
    <2>6. CASE d = cl.c /\ d \notin pseudo /\ newIds = {} /\ ~cl.err /\ cd[d] = cl.ver
      <3>1. \A q \in Persons(d) : q \in {1, 2} /\ guest[d][q] >= cd[d]
        BY <1>5, <2>6, PersonsType
      <3> QED BY <3>1
    <2>7. CASE d = cl.c /\ d \notin pseudo /\ newIds = {} /\ ~cl.err /\ cd[d] # cl.ver
      BY <1>3, <1>4, <1>5, <1>7, <1>8, <1>9, <2>7
    <2> QED BY <2>2, <2>3, <2>4, <2>5, <2>6, <2>7
  <1>13. ClientSentOrQueued'
    BY <1>2, <1>12 DEF ClientSentOrQueued, InSihot, CdUnsynced
  <1> QED BY <1>2, <1>10, <1>11, <1>13, <1>14

\* The loop over the clients.
LEMMA ClientLogKeeps ==
    ASSUME ClientsInv, RunClientLog
    PROVE  ClientsInv'
  <1>1. TypeOK /\ InLoops /\ DatesPassed /\ ClientInFlight /\ ResInFlight /\ ClientSentOrQueued
    BY DEF ClientsInv
  <1>2. /\ pc = "clients" /\ cl.stage = "log" /\ cl' = NoCl /\ todo' \subseteq todo \ {cl.c}
        /\ UNCHANGED <<pseudo, orderer, occupant, ru, ruLog, ruSynced, tx, guest, resv, pc, batch, resBatch,
                       lastFetch, job>>
    BY DEF RunClientLog, given, ruVars
  <1>3. cl \in Sending /\ job = NoJob
    BY <1>1, <1>2, IsSending DEF InLoops
  <1>4. /\ cd' = cd /\ clock' >= clock /\ clock' \in Nat
        /\ cdObj' \in [Clients -> SUBSET {1, 2}] /\ cdLog' \in [Clients -> Nat]
        /\ cdSynced' \in [Clients -> Nat] /\ late' \in [Clients \cup Res -> Nat]
        /\ \A d \in Clients : /\ ClientDates(d)' /\ cdLog'[d] >= cdLog[d]
                              /\ d # cl.c => cdLog'[d] = cdLog[d] /\ cdSynced'[d] = cdSynced[d]
        /\ ClientSentOrQueued'
    <2>1. CASE StoreAndLog
      BY <1>2, <1>3, <2>1, Stored
    <2>2. CASE UNCHANGED <<cdVars, clock, late>>
      <3>1. UNCHANGED <<cd, cdObj, cdLog, cdSynced, clock, late>>
        BY <2>2 DEF cdVars
      <3>2. cl'.ok = {}
        BY <1>2 DEF NoCl
      <3>3. ClientSentOrQueued' /\ \A d \in Clients : ClientDates(d)'
        BY <1>2, <3>1, <3>2, ClientsStay
      <3>4. \A d \in Clients : cdLog[d] >= cdLog[d]
        BY <1>1 DEF TypeOK
      <3>5. clock \in Nat /\ clock >= clock
        BY <1>1 DEF TypeOK
      <3> QED BY <1>1, <3>1, <3>3, <3>4, <3>5 DEF TypeOK
    <2> QED BY <2>1, <2>2 DEF RunClientLog
  <1>5. TypeOK'
    BY <1>1, <1>2, <1>4 DEF TypeOK
  <1>6. InLoops'
    BY <1>1, <1>2, <1>3 DEF InLoops
  <1>7. DatesPassed'
    <2>1. lastFetch' <= clock'
      BY <1>1, <1>2, <1>4 DEF DatesPassed, TypeOK
    <2>2. ASSUME NEW d \in todo' PROVE batch'[d].log <= cdLog'[d]
      <3>1. d \in Clients /\ batch[d].log \in Nat /\ batch[d].log <= cdLog[d] /\ cdLog[d] \in Nat
        BY <1>1, <1>2 DEF InLoops, DatesPassed, ClEntry, TypeOK
      <3> QED BY <1>2, <1>4, <3>1
    <2> QED BY <1>2, <1>3, <1>4, <2>1, <2>2 DEF DatesPassed
  <1>8. ClientInFlight'
    <2>1. \A d \in todo' : /\ batch'[d].ver <= cd'[d]
                           /\ d \notin pseudo' /\ cd'[d] # batch'[d].ver =>
                                 cdLog'[d] > batch'[d].log /\ cdLog'[d] > cdSynced'[d]
      <3>1. ASSUME NEW d \in todo'
            PROVE  /\ batch[d].ver <= cd[d]
                   /\ d \notin pseudo /\ cd[d] # batch[d].ver =>
                         cdLog[d] > batch[d].log /\ cdLog[d] > cdSynced[d]
        BY <1>1, <1>2 DEF ClientInFlight, ChangedIsQueued, Logged
      <3>2. \A d \in todo' : d # cl.c /\ d \in Clients
        BY <1>1, <1>2 DEF InLoops
      <3> QED BY <1>2, <1>4, <3>1, <3>2
    <2> QED BY <1>2, <2>1 DEF ClientInFlight, ChangedIsQueued, Logged
  <1>9. ResInFlight'
    BY <1>2, <1>3 DEF ResInFlight
  <1> QED BY <1>4, <1>5, <1>6, <1>7, <1>8, <1>9 DEF ClientsInv

-----------------------------------------------------------------------------
(* The loop over the clients.                                              *)

\* Outside of the loops nothing is being sent.
LEMMA OutsideLoops ==
    ASSUME ClientsInv, pc \in {"idle", "stamp", "select", "resStamp"}
    PROVE  cl = NoCl /\ job = NoJob
  BY DEF ClientsInv, InLoops

\* A loop ends or has not begun.
LEMMA LeftLoopKeeps ==
    ASSUME ClientsInv, pc' \in {"idle", "select"}, cl' = NoCl, job' = NoJob,
           lastFetch' \in {0, lastFetch},
           batch' \in [Clients -> {NoEntry} \cup ClEntry], resBatch' \in [Res -> {NoEntry} \cup ResEntry],
           UNCHANGED <<pseudo, orderer, occupant, cd, cdObj, cdLog, cdSynced, ru, ruLog, ruSynced, tx, clock, guest,
                       resv, late>>
    PROVE  ClientsInv'
  <1>1. TypeOK /\ DatesPassed
    BY DEF ClientsInv
  <1>2. TypeOK'
    BY <1>1 DEF TypeOK
  <1>3. InLoops' /\ ClientInFlight' /\ ResInFlight'
    BY DEF InLoops, ClientInFlight, ResInFlight
  <1>4. lastFetch' <= clock' /\ cl'.ok = {}
    BY <1>1 DEF TypeOK, DatesPassed, NoCl
  <1>5. DatesPassed'
    BY <1>4, ClientsStay DEF DatesPassed
  <1> QED BY <1>2, <1>3, <1>4, <1>5, ClientsStay DEF ClientsInv

LEMMA StartKeeps ==
    ASSUME ClientsInv, NEW q, RunStart(q)
    PROVE  ClientsInv'
  <1>1. TypeOK /\ DatesPassed /\ cl = NoCl /\ job = NoJob
    BY OutsideLoops DEF ClientsInv, RunStart
  <1>2. UNCHANGED <<pseudo, orderer, occupant, cd, cdObj, cdLog, cdSynced, ru, ruLog, ruSynced, tx, clock, guest,
                    resv, resBatch, lastFetch, cl, job, late>>
    BY DEF RunStart, given, cdVars, ruVars, txVars
  <1>3. clock \in Nat /\ clock' \in Nat /\ clock' >= clock
    BY <1>1, <1>2 DEF TypeOK
  <1>4. CASE ~opt.clientsFirst
    <2>1. pc' = "select" /\ batch' = batch
      BY <1>4 DEF RunStart
    <2> QED BY <1>1, <1>2, <2>1, LeftLoopKeeps DEF TypeOK
  <1>5. CASE opt.clientsFirst
    <2>1. /\ pc' = "stamp" /\ todo' = ClientQuery(q)
          /\ batch' = [c \in Clients |-> IF c \in ClientQuery(q) THEN Entry(c) ELSE NoEntry]
      BY <1>5 DEF RunStart
    <2>2. \A c \in Clients : Entry(c) \in ClEntry
      BY <1>1 DEF Entry, ClEntry, TypeOK
    <2>3. \A c \in todo' : c \in Clients /\ batch'[c] = Entry(c)
      BY <2>1 DEF ClientQuery
    <2>4. batch' \in [Clients -> {NoEntry} \cup ClEntry]
      BY <2>1, <2>2
    <2>5. TypeOK'
      BY <1>1, <1>2, <2>1, <2>4 DEF TypeOK
    <2>6. InLoops'
      BY <1>1, <1>2, <2>1, <2>2, <2>3 DEF InLoops
    <2>7. \A c \in todo' : batch'[c].ver = cd[c] /\ batch'[c].log = cdLog[c] /\ cd[c] \in Nat
      <3>1. \A c \in Clients : Entry(c).ver = cd[c] /\ Entry(c).log = cdLog[c]
        BY DEF Entry
      <3>2. \A c \in Clients : cd[c] \in Nat
        BY <1>1 DEF TypeOK
      <3> QED BY <2>3, <3>1, <3>2
    <2>8. DatesPassed'
      <3>1. lastFetch' <= clock' /\ \A c \in todo' : batch'[c].log <= cdLog'[c]
        <4>1. \A c \in Clients : cdLog[c] <= cdLog[c]
          BY <1>1 DEF TypeOK
        <4> QED BY <1>1, <1>2, <2>3, <2>7, <4>1 DEF DatesPassed
      <3> QED BY <1>1, <1>2, <1>3, <3>1, ClientsStay DEF DatesPassed
    <2>9. ClientInFlight' /\ ResInFlight'
      <3>1. \A c \in todo' : batch'[c].ver <= cd'[c] /\ batch'[c].ver = cd'[c]
        BY <1>2, <2>7
      <3>2. cl' = NoCl /\ job' = NoJob
        BY <1>1, <1>2
      <3>3. \A c \in todo' : ChangedIsQueued(c, batch[c].ver, batch[c].log)'
        BY <3>1 DEF ChangedIsQueued
      <3> QED BY <3>2, <3>3 DEF ClientInFlight, ResInFlight
    <2> QED BY <1>2, <1>3, <2>5, <2>6, <2>8, <2>9, ClientsStay DEF ClientsInv
  <1> QED BY <1>4, <1>5

LEMMA StampKeeps ==
    ASSUME ClientsInv, RunStamp
    PROVE  ClientsInv'
  <1>1. TypeOK /\ InLoops /\ DatesPassed /\ ClientInFlight /\ cl = NoCl /\ job = NoJob
    BY OutsideLoops DEF ClientsInv, RunStamp
  <1>2. /\ pc = "stamp" /\ pc' = "clients" /\ lastFetch' = clock
        /\ UNCHANGED <<pseudo, orderer, occupant, cd, cdObj, cdLog, cdSynced, ru, ruLog, ruSynced, tx, clock, guest,
                       resv, batch, resBatch, todo, cl, job, late>>
    BY DEF RunStamp, given, cdVars, ruVars, txVars
  <1>3. clock \in Nat /\ clock' \in Nat /\ clock' >= clock
    BY <1>1, <1>2 DEF TypeOK
  <1>4. TypeOK'
    BY <1>1, <1>2 DEF TypeOK
  <1>5. InLoops' /\ ResInFlight'
    BY <1>1, <1>2 DEF InLoops, ResInFlight
  <1>6. DatesPassed'
    <2>1. lastFetch' <= clock' /\ \A c \in todo' : batch'[c].log <= cdLog'[c]
      BY <1>1, <1>2, <1>3 DEF DatesPassed
    <2> QED BY <1>1, <1>2, <1>3, <2>1, ClientsStay DEF DatesPassed
  <1>7. ClientInFlight'
    BY <1>1, <1>2 DEF ClientInFlight, ChangedIsQueued, Logged
  <1> QED BY <1>2, <1>3, <1>4, <1>5, <1>6, <1>7, ClientsStay DEF ClientsInv

LEMMA ClientKeeps ==
    ASSUME ClientsInv, NEW c \in Clients, RunClient(c)
    PROVE  ClientsInv'
  <1>1. TypeOK /\ InLoops /\ DatesPassed /\ ClientInFlight
    BY DEF ClientsInv
  <1>2. /\ pc = "clients" /\ cl = NoCl /\ job = NoJob /\ c \in todo
        /\ cl' = Fetched(c, batch[c], lastFetch, "send1")
        /\ UNCHANGED <<pseudo, orderer, occupant, cd, cdObj, cdLog, cdSynced, ru, ruLog, ruSynced, tx, clock, guest,
                       resv, pc, batch, resBatch, todo, lastFetch, job, late>>
    BY DEF RunClient, ClientIsNext, Idle, given, cdVars, ruVars, txVars, loopVars
  <1>3. clock \in Nat /\ clock' \in Nat /\ clock' >= clock
    BY <1>1, <1>2 DEF TypeOK
  <1>4. batch[c] \in ClEntry /\ lastFetch \in Nat /\ lastFetch <= clock /\ batch[c].log <= cdLog[c]
    BY <1>1, <1>2 DEF InLoops, TypeOK, DatesPassed
  <1>5. /\ cl'.c = c /\ cl'.ver = batch[c].ver /\ cl'.log = batch[c].log /\ cl'.at = lastFetch
        /\ cl'.ok = {} /\ cl'.stage = "send1" /\ cl' \in Sending
    BY <1>2, <1>4 DEF Fetched, Sending, ClEntry
  <1>6. TypeOK'
    BY <1>1, <1>2, <1>5 DEF TypeOK
  <1>7. InLoops' /\ ResInFlight'
    BY <1>1, <1>2, <1>5 DEF InLoops, ResInFlight
  <1>8. DatesPassed'
    BY <1>1, <1>2, <1>3, <1>4, <1>5, ClientsStay DEF DatesPassed
  <1>9. ClientInFlight'
    <2>1. /\ batch[c].ver <= cd[c]
          /\ c \notin pseudo /\ cd[c] # batch[c].ver => cdLog[c] > batch[c].log /\ cdLog[c] > cdSynced[c]
      BY <1>1, <1>2 DEF ClientInFlight, ChangedIsQueued, Logged
    <2> QED BY <1>1, <1>2, <1>5, <2>1 DEF ClientInFlight, ChangedIsQueued, Logged
  <1> QED BY <1>2, <1>5, <1>6, <1>7, <1>8, <1>9, ClientsStay DEF ClientsInv

-----------------------------------------------------------------------------
(* The loop over the reservations.                                         *)

LEMMA SelectKeeps ==
    ASSUME ClientsInv, RunSelect
    PROVE  ClientsInv'
  <1>1. TypeOK /\ DatesPassed /\ cl = NoCl /\ job = NoJob
    BY OutsideLoops DEF ClientsInv, RunSelect
  <1>2. /\ pc' = "resStamp" /\ todo' = ResQuery
        /\ resBatch' = [r \in Res |-> IF r \in ResQuery
                                      THEN [ver |-> ru[r], log |-> ruLog[r], named |-> cdObj[occupant[r]]]
                                      ELSE NoEntry]
        /\ UNCHANGED <<pseudo, orderer, occupant, cd, cdObj, cdLog, cdSynced, ru, ruLog, ruSynced, tx, clock, guest,
                       resv, batch, lastFetch, cl, job, late>>
    BY DEF RunSelect, given, cdVars, ruVars, txVars
  <1>3. clock \in Nat /\ clock' \in Nat /\ clock' >= clock
    BY <1>1, <1>2 DEF TypeOK
  <1>4. \A r \in Res : [ver |-> ru[r], log |-> ruLog[r], named |-> cdObj[occupant[r]]] \in ResEntry
    <2>1. \A r \in Res : ru[r] \in Nat /\ ruLog[r] \in Nat /\ cdObj[occupant[r]] \in SUBSET {1, 2}
      BY <1>1 DEF TypeOK
    <2> QED BY <2>1 DEF ResEntry
  <1>5. /\ resBatch' \in [Res -> {NoEntry} \cup ResEntry]
        /\ \A r \in todo' : r \in Res /\ resBatch'[r] \in ResEntry
    BY <1>2, <1>4 DEF ResQuery
  <1>6. TypeOK'
    BY <1>1, <1>2, <1>5 DEF TypeOK
  <1>7. InLoops' /\ ClientInFlight' /\ ResInFlight'
    BY <1>1, <1>2, <1>5 DEF InLoops, ClientInFlight, ResInFlight
  <1>8. DatesPassed'
    <2>1. lastFetch' <= clock'
      BY <1>1, <1>2 DEF DatesPassed
    <2> QED BY <1>1, <1>2, <1>3, <2>1, ClientsStay DEF DatesPassed
  <1> QED BY <1>2, <1>3, <1>6, <1>7, <1>8, ClientsStay DEF ClientsInv

LEMMA ResStampKeeps ==
    ASSUME ClientsInv, RunResStamp
    PROVE  ClientsInv'
  <1>1. TypeOK /\ InLoops /\ DatesPassed /\ cl = NoCl /\ job = NoJob
    BY OutsideLoops DEF ClientsInv, RunResStamp
  <1>2. /\ pc = "resStamp" /\ pc' \in {"pre", "main"} /\ lastFetch' = clock
        /\ UNCHANGED <<pseudo, orderer, occupant, cd, cdObj, cdLog, cdSynced, ru, ruLog, ruSynced, tx, clock, guest,
                       resv, batch, resBatch, todo, cl, job, late>>
    BY DEF RunResStamp, given, cdVars, ruVars, txVars
  <1>3. clock \in Nat /\ clock' >= clock
    BY <1>1, <1>2 DEF TypeOK
  <1>4. TypeOK'
    BY <1>1, <1>2, <1>3 DEF TypeOK
  <1>5. InLoops' /\ ClientInFlight' /\ ResInFlight'
    BY <1>1, <1>2 DEF InLoops, ClientInFlight, ResInFlight
  <1>6. DatesPassed'
    <2>1. lastFetch' <= clock'
      BY <1>2, <1>3
    <2> QED BY <1>1, <1>2, <2>1, ClientsStay DEF DatesPassed
  <1> QED BY <1>2, <1>4, <1>5, <1>6, ClientsStay DEF ClientsInv

LEMMA NextPassKeeps ==
    ASSUME ClientsInv, RunNextPass
    PROVE  ClientsInv'
  <1>1. TypeOK /\ DatesPassed /\ cl = NoCl /\ job = NoJob
    BY DEF ClientsInv, RunNextPass, Idle
  <1>2. UNCHANGED <<pseudo, orderer, occupant, cd, cdObj, cdLog, cdSynced, ru, ruLog, ruSynced, tx, clock, guest,
                    resv, cl, job, late>>
    BY DEF RunNextPass, given, cdVars, ruVars, txVars
  <1>3. clock \in Nat /\ clock' \in Nat /\ clock' >= clock
    BY <1>1, <1>2 DEF TypeOK
  <1>4. CASE EndRun
    <2>1. LeaveLoop("idle")
      BY <1>4 DEF EndRun
    <2> QED BY <1>1, <1>2, <2>1, LeftLoop, LeftLoopKeeps
  <1>5. CASE /\ pc' = "main" /\ todo' = {r \in Res : resBatch[r] # NoEntry}
             /\ UNCHANGED <<prog, batch, resBatch, lastFetch, error>>
    <2>1. TypeOK'
      BY <1>1, <1>2, <1>5 DEF TypeOK
    <2>2. \A r \in todo' : r \in Res /\ resBatch'[r] \in ResEntry
      BY <1>1, <1>5 DEF TypeOK
    <2>3. InLoops' /\ ClientInFlight' /\ ResInFlight'
      BY <1>1, <1>2, <1>5, <2>2 DEF InLoops, ClientInFlight, ResInFlight
    <2>4. DatesPassed'
      BY <1>1, <1>2, <1>3, <1>5, ClientsStay DEF DatesPassed
    <2> QED BY <1>2, <1>3, <2>1, <2>3, <2>4, ClientsStay DEF ClientsInv
  <1> QED BY <1>4, <1>5 DEF RunNextPass

LEMMA ClientsDoneKeeps ==
    ASSUME ClientsInv, RunClientsDone
    PROVE  ClientsInv'
  <1>1. cl = NoCl /\ job = NoJob
    BY DEF RunClientsDone, Idle
  <1>2. LeaveLoop("idle") \/ LeaveLoop("select")
    BY DEF RunClientsDone, EndRun
  <1>3. UNCHANGED <<pseudo, orderer, occupant, cd, cdObj, cdLog, cdSynced, ru, ruLog, ruSynced, tx, clock, guest,
                    resv, cl, job, late>>
    BY DEF RunClientsDone, given, cdVars, ruVars, txVars
  <1> QED BY <1>1, <1>2, <1>3, LeftLoop, LeftLoopKeeps

LEMMA CrashKeeps ==
    ASSUME ClientsInv, Crash
    PROVE  ClientsInv'
  <1>1. LeaveLoop("idle") /\ cl' = NoCl /\ job' = NoJob
    BY DEF Crash, EndRun
  <1>2. UNCHANGED <<pseudo, orderer, occupant, cd, cdObj, cdLog, cdSynced, ru, ruLog, ruSynced, tx, clock, guest,
                    resv, late>>
    BY DEF Crash, given, cdVars, ruVars, txVars
  <1> QED BY <1>1, <1>2, LeftLoop, LeftLoopKeeps

LEMMA ResKeeps ==
    ASSUME ClientsInv, NEW r \in Res, RunRes(r)
    PROVE  ClientsInv'
  <1>1. TypeOK /\ InLoops /\ DatesPassed /\ ClientInFlight
    BY DEF ClientsInv
  <1>2. /\ pc \in {"pre", "main"} /\ cl = NoCl /\ job = NoJob /\ r \in todo
        /\ job' = [r |-> r, ensure |-> Ensured(r), seen |-> cd, named |-> resBatch[r].named]
        /\ UNCHANGED <<pseudo, orderer, occupant, cd, cdObj, cdLog, cdSynced, ru, ruLog, ruSynced, tx, clock, guest,
                       resv, pc, batch, resBatch, todo, lastFetch, cl, late>>
    BY DEF RunRes, Idle, given, cdVars, ruVars, txVars, loopVars
  <1>3. clock \in Nat /\ clock' \in Nat /\ clock' >= clock
    BY <1>1, <1>2 DEF TypeOK
  <1>4. /\ job'.r = r /\ job'.ensure = Ensured(r) /\ job'.seen = cd
        /\ job' \in Job
    <2>1. Ensured(r) \in Seq(Clients) /\ cd \in [Clients -> Nat]
      BY <1>1, EnsuredType DEF TypeOK
    <2>2. resBatch[r].named \in SUBSET {1, 2}
      BY <1>1, <1>2 DEF InLoops, ResEntry
    <2> QED BY <1>2, <2>1, <2>2 DEF Job
  <1>5. TypeOK'
    BY <1>1, <1>2, <1>4 DEF TypeOK
  <1>6. InLoops'
    BY <1>1, <1>2, <1>4 DEF InLoops
  <1>7. ClientInFlight'
    BY <1>1, <1>2 DEF ClientInFlight
  <1>8. ResInFlight'
    <2>1. Ensured(r)' = Ensured(r) /\ Ensured(r) # <<>>
      BY <1>2 DEF Ensured
    <2> QED BY <1>4, <2>1 DEF ResInFlight
  <1>9. DatesPassed'
    <2>1. \A c \in Clients : job'.seen[c] <= cd'[c]
      BY <1>1, <1>2, <1>4 DEF TypeOK
    <2> QED BY <1>1, <1>2, <1>3, <2>1, ClientsStay DEF DatesPassed
  <1> QED BY <1>2, <1>3, <1>5, <1>6, <1>7, <1>8, <1>9, ClientsStay DEF ClientsInv

LEMMA EnsureSelectKeeps ==
    ASSUME ClientsInv, EnsureSelect
    PROVE  ClientsInv'
  <1>1. TypeOK /\ InLoops /\ DatesPassed /\ ClientInFlight /\ ResInFlight
    BY DEF ClientsInv
  <1> DEFINE c == Head(job.ensure)
  <1>2. /\ cl = NoCl /\ job.ensure # <<>> /\ cl' = Fetched(c, Entry(c), 0, "stamp")
        /\ UNCHANGED <<pseudo, orderer, occupant, cd, cdObj, cdLog, cdSynced, ru, ruLog, ruSynced, tx, clock, guest,
                       resv, pc, batch, resBatch, todo, lastFetch, job, late>>
    BY DEF EnsureSelect, given, cdVars, ruVars, txVars, loopVars
  <1>3. clock \in Nat /\ clock' \in Nat /\ clock' >= clock
    BY <1>1, <1>2 DEF TypeOK
  <1>4. job \in Job /\ job # NoJob /\ pc \in {"pre", "main"}
    BY <1>1, <1>2, IsSending DEF InLoops
  <1>5. c \in Clients
    BY <1>2, <1>4 DEF Job
  <1>6. cd[c] \in Nat /\ cdLog[c] \in Nat /\ cdLog[c] <= cdLog[c] /\ job.seen[c] <= cd[c]
    BY <1>1, <1>4, <1>5 DEF TypeOK, DatesPassed
  <1>7. /\ cl'.c = c /\ cl'.ver = cd[c] /\ cl'.log = cdLog[c] /\ cl'.at = 0
        /\ cl'.ok = {} /\ cl'.stage = "stamp" /\ cl' \in Sending
    BY <1>2, <1>5, <1>6 DEF Fetched, Sending, Entry
  <1>8. cl'.c = Head(job.ensure) /\ cl'.ver >= job.seen[cl'.c]
    <2>1. job.seen[c] \in Nat
      BY <1>4, <1>5 DEF Job
    <2> QED BY <1>6, <1>7, <2>1
  <1> HIDE DEF c
  <1>9. TypeOK'
    BY <1>1, <1>2, <1>7 DEF TypeOK
  <1>10. InLoops'
    BY <1>1, <1>2, <1>4, <1>7, <1>8 DEF InLoops
  <1>11. ResInFlight'
    BY <1>1, <1>2 DEF ResInFlight, Ensured
  <1>12. DatesPassed'
    <2>1. cl'.log <= cdLog'[cl'.c] /\ cl'.at <= clock' /\ lastFetch' <= clock'
      BY <1>1, <1>2, <1>3, <1>6, <1>7 DEF DatesPassed
    <2> QED BY <1>1, <1>2, <1>3, <1>4, <1>7, <2>1, ClientsStay DEF DatesPassed
  <1>13. ClientInFlight'
    <2>1. cl'.ver <= cd'[cl'.c] /\ cl'.ver = cd'[cl'.c]
      BY <1>2, <1>6, <1>7
    <2> QED BY <1>2, <1>4, <1>7, <2>1 DEF ClientInFlight, ChangedIsQueued
  <1> QED BY <1>2, <1>7, <1>9, <1>10, <1>11, <1>12, <1>13, ClientsStay DEF ClientsInv

LEMMA EnsureStampKeeps ==
    ASSUME ClientsInv, EnsureStamp
    PROVE  ClientsInv'
  <1>1. TypeOK /\ InLoops /\ DatesPassed /\ ClientInFlight /\ ResInFlight
    BY DEF ClientsInv
  <1>2. /\ cl.stage = "stamp" /\ cl' = [cl EXCEPT !.stage = "send1", !.at = clock]
        /\ UNCHANGED <<pseudo, orderer, occupant, cd, cdObj, cdLog, cdSynced, ru, ruLog, ruSynced, tx, clock, guest,
                       resv, pc, batch, resBatch, todo, lastFetch, job, late>>
    BY DEF EnsureStamp, given, cdVars, ruVars, txVars, loopVars
  <1>3. clock \in Nat /\ clock' \in Nat /\ clock' >= clock
    BY <1>1, <1>2 DEF TypeOK
  <1>4. cl \in Sending /\ cl # NoCl
    BY <1>1, <1>2, IsSending
  <1>5. /\ cl' \in Sending /\ cl'.c = cl.c /\ cl'.ver = cl.ver /\ cl'.log = cl.log /\ cl'.at = clock
        /\ cl'.ok = cl.ok /\ cl'.stage = "send1"
    BY <1>2, <1>3, <1>4 DEF Sending
  <1>6. TypeOK'
    BY <1>1, <1>2, <1>5 DEF TypeOK
  <1>7. InLoops'
    BY <1>1, <1>2, <1>4, <1>5 DEF InLoops
  <1>8. ResInFlight'
    BY <1>1, <1>2 DEF ResInFlight, Ensured
  <1>9. DatesPassed'
    <2>1. cl'.log <= cdLog'[cl'.c] /\ cl'.at <= clock' /\ lastFetch' <= clock'
      BY <1>1, <1>2, <1>3, <1>4, <1>5 DEF DatesPassed
    <2> QED BY <1>1, <1>2, <1>3, <2>1, ClientsStay DEF DatesPassed
  <1>10. ClientInFlight'
    <2>1. /\ cl.ver <= cd[cl.c]
          /\ cl.c \notin pseudo /\ cd[cl.c] # cl.ver => cdLog[cl.c] > cl.log /\ cdLog[cl.c] > cdSynced[cl.c]
      BY <1>1, <1>4 DEF ClientInFlight, ChangedIsQueued, Logged
    <2> QED BY <1>1, <1>2, <1>4, <1>5, <2>1 DEF ClientInFlight, ChangedIsQueued, Logged
  <1> QED BY <1>2, <1>3, <1>6, <1>7, <1>8, <1>9, <1>10, ClientsStay DEF ClientsInv

-----------------------------------------------------------------------------
(* The clients of a reservation, and the theorems.                         *)

\* The end of a client of a reservation.
LEMMA EnsureLogKeeps ==
    ASSUME ClientsInv, EnsureLog
    PROVE  ClientsInv'
  <1>1. TypeOK /\ InLoops /\ DatesPassed /\ ClientInFlight /\ ResInFlight
    BY DEF ClientsInv
  <1>2. /\ pc \in {"pre", "main"} /\ cl.stage = "log" /\ StoreAndLog /\ cl' = NoCl
        /\ todo' \subseteq todo
        /\ UNCHANGED <<pseudo, orderer, occupant, ru, ruLog, ruSynced, tx, guest, resv, pc, batch, resBatch,
                       lastFetch>>
    BY DEF EnsureLog, DropRes, given, ruVars
  <1>3. cl \in Sending /\ cl # NoCl
    BY <1>1, <1>2, IsSending
  <1>4. job # NoJob /\ job \in Job /\ job.ensure # <<>> /\ cl.c = Head(job.ensure) /\ job.r \in todo
        /\ cl.ver >= job.seen[cl.c]
    BY <1>1, <1>2, <1>3, IsSending DEF InLoops
  <1>5. /\ cd' = cd /\ clock' >= clock /\ clock' \in Nat
        /\ cdObj' \in [Clients -> SUBSET {1, 2}] /\ cdLog' \in [Clients -> Nat]
        /\ cdSynced' \in [Clients -> Nat] /\ late' \in [Clients \cup Res -> Nat]
        /\ \A d \in Clients : ClientDates(d)'
        /\ ClientSentOrQueued'
    BY <1>2, <1>3, Stored
  <1>6. /\ job.r \in Res /\ job.ensure \in Seq(Clients) /\ job.seen \in [Clients -> Nat]
        /\ job.named \in SUBSET {1, 2}
        /\ cl.c \in Clients /\ cl.ok \in SUBSET {1, 2} /\ cl.ver \in Nat
    BY <1>3, <1>4 DEF Job, Sending
  <1>7. CASE ~cl.err
    <2>1. /\ todo' = todo /\ job' = [job EXCEPT !.ensure = Tail(@), !.named = NamedAfterRefetch]
      BY <1>2, <1>7 DEF EnsureLog
    <2>2. NamedAfterRefetch \in SUBSET {1, 2}
      <3>1. cdObj[cl.c] \in SUBSET {1, 2}
        BY <1>1, <1>6 DEF TypeOK
      <3> QED BY <1>6, <3>1 DEF NamedAfterRefetch
    <2>3. /\ job'.r = job.r /\ job'.seen = job.seen /\ job'.ensure = Tail(job.ensure)
          /\ job'.named = NamedAfterRefetch /\ job' \in Job
      <3>1. Tail(job.ensure) \in Seq(Clients)
        BY <1>4, <1>6
      <3> QED BY <1>4, <2>1, <2>2, <3>1 DEF Job
    <2>4. TypeOK'
      BY <1>1, <1>2, <1>5, <2>3 DEF TypeOK
    <2>5. InLoops'
      BY <1>1, <1>2, <1>4, <2>1, <2>3 DEF InLoops
    <2>6. DatesPassed'
      <3>1. lastFetch' <= clock' /\ \A d \in Clients : job'.seen[d] <= cd'[d]
        BY <1>1, <1>2, <1>4, <1>5, <2>3 DEF DatesPassed, TypeOK
      <3> QED BY <1>2, <1>5, <3>1 DEF DatesPassed
    <2>7. ClientInFlight'
      BY <1>2 DEF ClientInFlight
    <2>8. ResInFlight'
      <3>1. SUFFICES ASSUME pc = "main" PROVE ResInFlight'
        BY <1>2 DEF ResInFlight
      <3> DEFINE r == job.r
                 SentAsSeen(c) == \A p \in Persons(c) : guest[c][p] >= job.seen[c]
      <3>2. /\ job.ensure \in {Ensured(r), <<occupant[r]>>}
            /\ job.ensure # Ensured(r) /\ orderer[r] \notin pseudo =>
                  orderer[r] = occupant[r] \/ SentAsSeen(orderer[r])
        BY <1>1, <1>4, <3>1 DEF ResInFlight
      <3>3. SentAsSeen(cl.c) /\ cl.ok = Persons(cl.c)
        <4>1. cl.ok = Persons(cl.c) /\ \A p \in cl.ok : guest[cl.c][p] >= cl.ver
          BY <1>1, <1>2, <1>3, <1>7 DEF ClientInFlight
        <4>2. ASSUME NEW p \in Persons(cl.c) PROVE guest[cl.c][p] >= job.seen[cl.c]
          <5>1. guest[cl.c][p] \in Nat /\ job.seen[cl.c] \in Nat
            <6>1. p \in {1, 2}
              BY PersonsType
            <6>2. guest \in [Clients -> [{1, 2} -> Nat]]
              BY <1>1 DEF TypeOK
            <6> QED BY <1>6, <6>1, <6>2
          <5> QED BY <1>4, <1>6, <4>1, <5>1
        <4> QED BY <4>1, <4>2
      <3>4. cl.c = occupant[r] => NamedAfterRefetch = Persons(occupant[r])
        <4>1. cdObj[cl.c] \subseteq Persons(cl.c)
          BY <1>1, <1>6 DEF DatesPassed, ClientDates
        <4> QED BY <3>3, <4>1 DEF NamedAfterRefetch
      <3>5. \A a, b : /\ Head(<<a, b>>) = a /\ Tail(<<a, b>>) = <<b>>
                      /\ Head(<<b>>) = b /\ Tail(<<b>>) = <<>> /\ <<b>> # <<>>
        <4>1. ASSUME NEW a, NEW b PROVE Head(<<a, b>>) = a /\ Head(<<b>>) = b /\ <<b>> # <<>>
          OBVIOUS
        <4>2. ASSUME NEW a, NEW b PROVE Tail(<<a, b>>) = <<b>>
          OBVIOUS
        <4>3. ASSUME NEW b PROVE Tail(<<b>>) = <<>>
          OBVIOUS
        <4> QED BY <4>1, <4>2, <4>3
      <3>6. Ensured(r) = <<occupant[r]>> \/ (Ensured(r) = <<orderer[r], occupant[r]>> /\ orderer[r] # occupant[r])
        BY DEF Ensured
      <3>7. Ensured(r) = <<occupant[r]>> => orderer[r] = occupant[r] \/ orderer[r] \in pseudo
        BY DEF Ensured
      <3> HIDE DEF SentAsSeen
      <3>8. CASE job.ensure = <<occupant[r]>>
        <4>1. cl.c = occupant[r] /\ job'.ensure = <<>>
          BY <1>4, <2>3, <3>5, <3>8
        <4>2. SentAsSeen(occupant[r]) /\ job'.named = Persons(occupant[r])
          BY <2>3, <3>3, <3>4, <4>1
        <4>3. orderer[r] \notin pseudo => orderer[r] = occupant[r] \/ SentAsSeen(orderer[r])
          BY <3>2, <3>7, <3>8
        <4> QED BY <1>2, <2>3, <4>1, <4>2, <4>3 DEF ResInFlight, SentAsSeen, Ensured
      <3>9. CASE job.ensure = <<orderer[r], occupant[r]>> /\ orderer[r] # occupant[r]
        <4>1. cl.c = orderer[r] /\ job'.ensure = <<occupant[r]>> /\ job'.ensure # <<>>
          BY <1>4, <2>3, <3>5, <3>9
        <4> QED BY <1>2, <2>3, <3>3, <4>1 DEF ResInFlight, SentAsSeen, Ensured
      <3> QED BY <3>2, <3>6, <3>8, <3>9
    <2> QED BY <1>5, <2>4, <2>5, <2>6, <2>7, <2>8 DEF ClientsInv
  <1>8. CASE cl.err
    <2>1. \/ /\ pc = "pre" /\ todo' = todo /\ job' = [job EXCEPT !.ensure = <<>>]
          \/ job' = NoJob
      BY <1>2, <1>8 DEF EnsureLog
    <2>2. job' # NoJob =>
             /\ pc = "pre" /\ todo' = todo
             /\ job'.r = job.r /\ job'.seen = job.seen /\ job'.ensure = <<>> /\ job' \in Job
      <3>1. <<>> \in Seq(Clients)
        OBVIOUS
      <3> QED BY <1>4, <2>1, <3>1 DEF Job
    <2>3. TypeOK'
      BY <1>1, <1>2, <1>5, <2>2 DEF TypeOK
    <2>4. InLoops'
      BY <1>1, <1>2, <1>4, <2>2 DEF InLoops
    <2>5. DatesPassed'
      <3>1. lastFetch' <= clock' /\ (job' # NoJob => \A d \in Clients : job'.seen[d] <= cd'[d])
        BY <1>1, <1>2, <1>4, <1>5, <2>2 DEF DatesPassed, TypeOK
      <3> QED BY <1>2, <1>5, <3>1 DEF DatesPassed
    <2>6. ClientInFlight' /\ ResInFlight'
      BY <1>2, <2>2 DEF ClientInFlight, ResInFlight
    <2> QED BY <1>5, <2>3, <2>4, <2>5, <2>6 DEF ClientsInv
  <1> QED BY <1>7, <1>8

\* A reservation is sent.
LEMMA SendResKeeps ==
    ASSUME ClientsInv, SendRes
    PROVE  ClientsInv'
  <1>1. TypeOK /\ InLoops /\ DatesPassed /\ ClientInFlight
    BY DEF ClientsInv
  <1>2. /\ job.r # NoRes /\ cl = NoCl /\ job' = NoJob
        /\ UNCHANGED <<pseudo, orderer, occupant, cd, cdObj, cdLog, cdSynced, ru, ruLog, tx, clock, guest,
                       pc, batch, resBatch, lastFetch, cl>>
    BY DEF SendRes, given, cdVars, txVars
  <1>3. /\ todo' \subseteq todo
        /\ resv' = resv \/ resv' = [resv EXCEPT ![job.r] = [ver |-> resBatch[job.r].ver, named |-> job.named]]
        /\ ruSynced' = ruSynced \/ ruSynced' = [ruSynced EXCEPT ![job.r] = lastFetch]
        /\ late' = late \/ late' = [late EXCEPT ![job.r] = ru[job.r]]
    BY DEF SendRes, DropRes, NamedOccupants
  <1>4. lastFetch \in Nat
    BY <1>1 DEF TypeOK
  <1>5. job \in Job /\ job # NoJob /\ pc \in {"pre", "main"} /\ job.r \in todo
    BY <1>1, <1>2, IsSending DEF InLoops
  <1>6. /\ resv' \in [Res -> ResState] /\ ruSynced' \in [Res -> Nat]
        /\ late' \in [Clients \cup Res -> Nat] /\ \A c \in Clients : late'[c] = late[c]
    <2>1. resBatch[job.r] \in ResEntry /\ job.named \in SUBSET {1, 2}
      BY <1>1, <1>5 DEF InLoops, Job
    <2>2. [ver |-> resBatch[job.r].ver, named |-> job.named] \in ResState
      BY <2>1 DEF ResEntry, ResState
    <2>3. resv' \in [Res -> ResState]
      BY <1>1, <1>3, <2>2 DEF TypeOK
    <2>4. ruSynced' \in [Res -> Nat]
      BY <1>1, <1>3, <1>4 DEF TypeOK
    <2>5. late' \in [Clients \cup Res -> Nat] /\ \A c \in Clients : late'[c] = late[c]
      <3>1. job.r \in Res /\ \A c \in Clients : c # job.r
        BY <1>5, ConstantsAssumption DEF Job
      <3>2. ru[job.r] \in Nat
        BY <1>1, <3>1 DEF TypeOK
      <3> QED BY <1>1, <1>3, <3>1, <3>2 DEF TypeOK
    <2> QED BY <2>3, <2>4, <2>5
  <1>7. TypeOK'
    BY <1>1, <1>2, <1>6 DEF TypeOK
  <1>8. InLoops' /\ ClientInFlight' /\ ResInFlight'
    BY <1>1, <1>2, <1>3, <1>5 DEF InLoops, ClientInFlight, ResInFlight
  <1>9. DatesPassed'
    BY <1>1, <1>2, <1>5, <1>6, ClientsStay DEF DatesPassed
  <1> QED BY <1>2, <1>6, <1>7, <1>8, <1>9, ClientsStay DEF ClientsInv

LEMMA ClientsNext ==
    ASSUME ClientsInv, [Next]_vars
    PROVE  ClientsInv'
  <1>1. ASSUME NEW c \in Clients, UserSaves(c) \/ SihotSaves(c) \/ Commit(c) PROVE ClientsInv'
    BY <1>1, UserKeeps, CommitKeeps
  <1>2. ASSUME NEW r \in Res, UserSavesRes(r) \/ CommitRes(r) PROVE ClientsInv'
    BY <1>2, UserResKeeps, CommitResKeeps
  <1>3. ASSUME RunStart("sync") \/ RunStart("migration") PROVE ClientsInv'
    BY <1>3, StartKeeps
  <1>4. ASSUME NEW c \in Clients, RunClient(c) PROVE ClientsInv'
    BY <1>4, ClientKeeps
  <1>5. ASSUME NEW p \in {1, 2}, SendPerson(p) PROVE ClientsInv'
    BY <1>5, SendKeeps
  <1>6. ASSUME NEW r \in Res, RunRes(r) PROVE ClientsInv'
    BY <1>6, ResKeeps
  <1>7. CASE RunStamp
    BY <1>7, StampKeeps
  <1>8. CASE RunClientLog
    BY <1>8, ClientLogKeeps
  <1>9. CASE RunClientsDone
    BY <1>9, ClientsDoneKeeps
  <1>10. CASE RunSelect \/ RunResStamp
    BY <1>10, SelectKeeps, ResStampKeeps
  <1>11. CASE RunNextPass
    BY <1>11, NextPassKeeps
  <1>12. CASE EnsureSelect
    BY <1>12, EnsureSelectKeeps
  <1>13. CASE EnsureStamp
    BY <1>13, EnsureStampKeeps
  <1>14. CASE EnsureLog
    BY <1>14, EnsureLogKeeps
  <1>15. CASE SendRes
    BY <1>15, SendResKeeps
  <1>16. CASE Crash
    BY <1>16, CrashKeeps
  <1>17. CASE UNCHANGED vars
    <2>1. UNCHANGED <<pseudo, refused, orderer, occupant, opt, cd, cdObj, cdLog, cdSynced, ru, ruLog, ruSynced,
                      tx, clock, guest, resv, pc, prog, batch, resBatch, todo, lastFetch, error, cl, job, late>>
      BY <1>17 DEF vars, given, cdVars, ruVars, txVars, loopVars
    <2>2. TypeOK /\ InLoops /\ DatesPassed /\ ClientInFlight /\ ResInFlight /\ ClientSentOrQueued
      BY DEF ClientsInv
    <2>3. TypeOK' /\ InLoops' /\ DatesPassed'
      BY <2>1, <2>2 DEF TypeOK, InLoops, DatesPassed, ClientDates, Logged, Locked
    <2>4. ClientInFlight' /\ ResInFlight' /\ ClientSentOrQueued'
      BY <2>1, <2>2 DEF ClientInFlight, ChangedIsQueued, Logged, ResInFlight, Ensured, ClientSentOrQueued,
         InSihot, CdUnsynced
    <2> QED BY <2>3, <2>4 DEF ClientsInv
  <1> QED BY <1>1, <1>2, <1>3, <1>4, <1>5, <1>6, <1>7, <1>8, <1>9, <1>10, <1>11, <1>12, <1>13, <1>14,
             <1>15, <1>16, <1>17 DEF Next, RunStep

\* ClientsInv is an invariant: what the programs have fetched and what they have sent stays behind
\* Acumen only where the queue knows it.
THEOREM ClientsInvariant == Spec => []ClientsInv
  <1>1. Init => ClientsInv
    BY InvInit
  <1>2. ClientsInv /\ [Next]_vars => ClientsInv'
    BY ClientsNext
  <1> QED BY <1>1, <1>2, PTL DEF Spec

\* No change of a client is lost between Acumen and Sihot, but in the window of a query.
THEOREM ClientsAreQueued == Spec => []ClientSentOrQueued
  <1>1. ClientsInv => ClientSentOrQueued
    BY DEF ClientsInv
  <1> QED BY <1>1, ClientsInvariant, PTL

\* A reservation is logged as synced only with clients who are in Sihot as new as they were when
\* its sending began.
THEOREM ReservationsNameKnownGuests == Spec => ResOfKnownGuests
  <1> DEFINE Known(r) ==
        /\ resv'[r].named = Persons(occupant[r])
        /\ \A c \in {orderer[r], occupant[r]} : c \notin pseudo =>
              \A p \in Persons(c) : guest[c][p] >= job.seen[c]
  <1>1. ASSUME ClientsInv, [Next]_vars, NEW r \in Res, ruSynced'[r] # ruSynced[r]
        PROVE  Known(r)
    <2>1. SendRes
      BY <1>1 DEF Next, RunStep, UserSaves, SihotSaves, UserSavesRes, Commit, CommitRes, RunStart, RunStamp, RunClientLog,
         RunClientsDone, RunSelect, RunResStamp, RunNextPass, EnsureSelect, EnsureStamp, EnsureLog, RunClient, SendPerson,
         RunRes, Crash, vars, ruVars
    <2>2. TypeOK /\ InLoops /\ ResInFlight /\ job \in Job /\ job # NoJob
      BY <1>1, <2>1, IsSending DEF ClientsInv, SendRes
    <2>3. PICK a \in Answers :
            /\ resv' = IF a = "refused" THEN resv
                       ELSE [resv EXCEPT ![job.r] = [ver |-> resBatch[job.r].ver, named |-> job.named]]
            /\ ruSynced' = IF a = "ok" /\ pc = "main" THEN [ruSynced EXCEPT ![job.r] = lastFetch] ELSE ruSynced
      BY <2>1 DEF SendRes, NamedOccupants
    <2>4. a = "ok" /\ pc = "main" /\ r = job.r
      BY <1>1, <2>2, <2>3 DEF TypeOK
    <2>5. resv'[r].named = job.named
      BY <2>2, <2>3, <2>4 DEF TypeOK
    <2>6. job.ensure = <<>> /\ Ensured(r) # <<>>
      BY <2>1 DEF SendRes, Ensured
    <2>7. /\ \A p \in Persons(occupant[r]) : guest[occupant[r]][p] >= job.seen[occupant[r]]
          /\ job.named = Persons(occupant[r])
          /\ orderer[r] \notin pseudo => \/ orderer[r] = occupant[r]
                                         \/ \A p \in Persons(orderer[r]) :
                                               guest[orderer[r]][p] >= job.seen[orderer[r]]
      BY <2>2, <2>4, <2>6 DEF ResInFlight
    <2> QED BY <2>5, <2>7
  <1>2. ClientsInv /\ [Next]_vars => [\A r \in Res : ruSynced'[r] # ruSynced[r] => Known(r)]_vars
    BY <1>1
  <1> HIDE DEF Known
  <1>3. Spec => [][\A r \in Res : ruSynced'[r] # ruSynced[r] => Known(r)]_vars
    BY <1>2, ClientsInvariant, PTL DEF Spec
  <1> QED BY <1>3 DEF ResOfKnownGuests, Known
=============================================================================
