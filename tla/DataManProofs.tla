--------------------------- MODULE DataManProofs ---------------------------
(***************************************************************************)
(* What the runs of SysDataMan pull and push: a login that Salesforce      *)
(* refuses is not repeated, but once after its mark was overwritten; the   *)
(* exit code 0 says that nothing failed; the pull that was last is what is *)
(* pushed, and the systems are equal afterwards; a client has one account, *)
(* unless its id was lost or a run pulled it without it.  All for any      *)
(* runs, keys, values, faults and changes.                                 *)
(***************************************************************************)
EXTENDS DataMan, FiniteSetTheorems, SequenceTheorems, TLAPS

-----------------------------------------------------------------------------
(* The login to Salesforce.                                                *)

(* A refused login leaves its mark, and another only after the mark was    *)
(* overwritten ... *)
Marked(l) ==
    /\ l.err = "INVALID_LOGIN" => ~l.conn
    /\ ~l.overwritten => l.refused = 0 \/ (l.refused = 1 /\ l.err = "INVALID_LOGIN")
    /\ l.overwritten => l.refused = 1 \/ (l.refused = 2 /\ l.err = "INVALID_LOGIN")

(* ... and no connection, nor is there another one with this password. *)
Barred(l, accepted) == l.refused > 0 => ~l.conn /\ ~accepted

Links == [conn : BOOLEAN, err : {"none", "INVALID_LOGIN", "other"}, refused : Nat,
          overwritten : BOOLEAN]

(* A mark that a write overwrites is that of the first refused login. *)
Held(l) == l.conn \/ (l.err = "INVALID_LOGIN" /\ l.refused = 1 /\ ~l.overwritten)

LinkInv == password \in BOOLEAN /\ link \in Links /\ Marked(link) /\ Barred(link, password)

LoginInv == LinkInv /\ (refStep \notin {"none", "check"} => Held(link))

LEMMA EnsureMarked ==
    ASSUME LinkInv
    PROVE  /\ EnsureLazyConnect \in Links /\ Marked(EnsureLazyConnect)
           /\ Barred(EnsureLazyConnect, password)
           /\ Answers => EnsureLazyConnect.refused = 0
           /\ Held(link) => Held(EnsureLazyConnect)
<1> DEFINE e == EnsureLazyConnect
<1>1. CASE link.err = "INVALID_LOGIN"
  <2>1. e = link /\ ~link.conn
    BY <1>1 DEF LinkInv, Marked, EnsureLazyConnect
  <2> QED BY <2>1 DEF LinkInv, Answers
<1>2. CASE link.err # "INVALID_LOGIN" /\ link.conn /\ session
  <2>1. e = [link EXCEPT !.err = "none"]
    BY <1>2 DEF EnsureLazyConnect
  <2>2. link \in Links /\ link.refused = 0 /\ link.overwritten = FALSE /\ link.conn = TRUE
    BY <1>2 DEF LinkInv, Marked, Barred, Links
  <2> HIDE DEF e
  <2>3. e \in Links /\ e.err = "none" /\ e.refused = 0 /\ e.overwritten = FALSE /\ e.conn = TRUE
    BY <2>1, <2>2 DEF Links
  <2>4. Marked(e) /\ Barred(e, password) /\ Held(e)
    BY <2>3 DEF Marked, Barred, Held
  <2> QED BY <2>3, <2>4 DEF e
<1>3. CASE link.err # "INVALID_LOGIN" /\ ~(link.conn /\ session) /\ password
  <2>1. e = [link EXCEPT !.conn = TRUE, !.err = "none"]
    BY <1>3 DEF EnsureLazyConnect, Connect
  <2>2. link \in Links /\ link.refused = 0 /\ link.overwritten = FALSE
    BY <1>3 DEF LinkInv, Marked, Barred, Links
  <2> HIDE DEF e
  <2>3. e \in Links /\ e.err = "none" /\ e.refused = 0 /\ e.overwritten = FALSE /\ e.conn = TRUE
    BY <2>1, <2>2 DEF Links
  <2>4. Marked(e) /\ Barred(e, password) /\ Held(e)
    BY <2>3 DEF Marked, Barred, Held
  <2> QED BY <2>3, <2>4 DEF e
<1>4. CASE link.err # "INVALID_LOGIN" /\ ~(link.conn /\ session) /\ ~password
  <2>1. e = [link EXCEPT !.conn = FALSE, !.err = "INVALID_LOGIN", !.refused = @ + 1]
    BY <1>4 DEF EnsureLazyConnect, Connect
  <2>2. /\ link \in Links /\ link.refused = IF link.overwritten THEN 1 ELSE 0
        /\ Held(link) => ~link.overwritten
    BY <1>4 DEF LinkInv, Marked, Barred, Links, Held
  <2> HIDE DEF e
  <2>3. /\ e \in Links /\ e.err = "INVALID_LOGIN" /\ e.conn = FALSE
        /\ e.overwritten = link.overwritten /\ e.refused = IF link.overwritten THEN 2 ELSE 1
    <3>0. link.refused + 1 \in Nat
      BY <2>2
    <3>1. e \in Links /\ e.refused = link.refused + 1
      BY <2>1, <2>2, <3>0 DEF Links
    <3>2. e.err = "INVALID_LOGIN" /\ e.conn = FALSE /\ e.overwritten = link.overwritten
      BY <2>1, <2>2 DEF Links
    <3> QED BY <2>2, <3>1, <3>2
  <2>4. Marked(e) /\ Barred(e, password) /\ (Held(link) => Held(e))
    BY <1>4, <2>2, <2>3 DEF Marked, Barred, Held
  <2> QED BY <2>3, <2>4 DEF Answers, e
<1> QED
  BY <1>1, <1>2, <1>3, <1>4

LEMMA CalledMarked ==
    ASSUME LinkInv, NEW o, Called(o)
    PROVE  /\ LinkInv' /\ (Held(link) => Held(link)')
           /\ o = "done" => link'.conn
<1> DEFINE e == EnsureLazyConnect
<1>1. /\ e \in Links /\ Marked(e) /\ Barred(e, password) /\ (Answers => e.refused = 0)
      /\ (Held(link) => Held(e))
  BY EnsureMarked
<1>2. UNCHANGED password /\ password \in BOOLEAN
  BY DEF Called, LinkInv
<1>3. o = "done" => Answers
  BY DEF Called, Possible
<1>4. Answers => e.conn = TRUE
  BY <1>1 DEF Answers, Links
<1>5. link' = e \/ (Answers /\ o # "done" /\ link' = [e EXCEPT !.err = "other"])
  BY DEF Called
<1> HIDE DEF e
<1>6. CASE link' = e
  BY <1>1, <1>2, <1>3, <1>4, <1>6 DEF LinkInv, Marked, Barred, Held
<1>7. CASE Answers /\ o # "done" /\ link' = [e EXCEPT !.err = "other"]
  <2>1. e.overwritten = FALSE
    BY <1>1, <1>7 DEF Marked, Links
  <2>2. link' \in Links /\ link'.refused = 0 /\ link'.err = "other" /\ link'.overwritten = FALSE
        /\ link'.conn = TRUE
    BY <1>1, <1>4, <1>7, <2>1 DEF Links
  <2> QED BY <1>2, <1>7, <2>2 DEF LinkInv, Marked, Barred, Held
<1> QED BY <1>5, <1>6, <1>7

LEMMA SameLink ==
    ASSUME LoginInv, UNCHANGED <<link, password, refStep>>
    PROVE  LoginInv'
  BY DEF LoginInv, LinkInv, Marked, Barred, Held

LEMMA DbStep ==
    ASSUME LoginInv, NEW fails, DbCalled(fails)
    PROVE  LoginInv'
  BY SameLink DEF DbCalled

LEMMA SfStep ==
    ASSUME LoginInv, NEW o, Called(o), UNCHANGED refStep \/ refStep' \in {"none", "check"}
    PROVE  LoginInv'
  BY CalledMarked DEF LoginInv

LEMMA FetchStep ==
    ASSUME LoginInv, NEW o, SfFetch(o)
    PROVE  LoginInv'
  BY SfStep DEF SfFetch, SoqlQueryAll

(* The steps of an external reference: the mark of a login that is refused *)
(* by the look-up is overwritten by the write. *)
LEMMA ReferenceStep ==
    ASSUME LoginInv, NEW id, NEW o, ClExtRefUpsert(id, o)
    PROVE  LoginInv'
<1>1. CASE ExtRefAsked(o)
  <2>1. Called(o)
    BY <1>1 DEF ExtRefAsked
  <2>2. LinkInv' /\ (Held(link) => Held(link)') /\ (o = "done" => link'.conn)
    BY <2>1, CalledMarked DEF LoginInv
  <2>3. CASE o = "done"
    BY <2>2, <2>3 DEF LoginInv, Held
  <2>4. CASE o # "done"
    <3>1. UNCHANGED refStep \/ refStep' \in {"none", "check"}
      BY <1>1, <2>4 DEF ExtRefAsked
    <3> QED BY <2>1, <3>1, SfStep
  <2> QED BY <2>3, <2>4
<1>2. CASE ClExtRefs(id, o)
  <2>1. Called(o) /\ refStep = "find"
    BY <1>2 DEF ClExtRefs
  <2>2. LinkInv' /\ Held(link)'
    BY <2>1, CalledMarked DEF LoginInv
  <2> QED BY <2>2 DEF LoginInv
<1>3. CASE ExtRefWrite(id, o)
  <2>1. /\ refStep \in {"update", "create", "stale"} /\ refStep' = "none" /\ UNCHANGED password
        /\ link' = IF o = "done" THEN link
                   ELSE [link EXCEPT !.err = "other",
                                     !.overwritten = @ \/ link.err = "INVALID_LOGIN"]
    BY <1>3 DEF ExtRefWrite
  <2>2. LinkInv /\ Held(link) /\ link \in Links
    BY <2>1 DEF LoginInv, LinkInv
  <2>3. CASE o = "done"
    BY <2>1, <2>2, <2>3 DEF LoginInv, LinkInv, Marked, Barred
  <2>4. CASE o # "done" /\ link.conn
    <3>1. link.refused = 0 /\ link.overwritten = FALSE /\ link.err # "INVALID_LOGIN"
      BY <2>2, <2>4 DEF LinkInv, Marked, Barred, Links
    <3>2. link' = [link EXCEPT !.err = "other", !.overwritten = FALSE]
      BY <2>1, <2>4, <3>1
    <3>3. link' \in Links /\ link'.refused = 0 /\ link'.err = "other" /\ link'.overwritten = FALSE
      BY <2>2, <3>1, <3>2 DEF Links
    <3> QED BY <2>1, <2>2, <3>3 DEF LoginInv, LinkInv, Marked, Barred
  <2>5. CASE o # "done" /\ ~link.conn
    <3>1. link.refused = 1 /\ link.err = "INVALID_LOGIN" /\ link.conn = FALSE /\ ~password
      BY <2>2, <2>5 DEF LinkInv, Held, Barred, Links
    <3>2. link' = [link EXCEPT !.err = "other", !.overwritten = TRUE]
      BY <2>1, <2>5, <3>1
    <3>3. link' \in Links /\ link'.refused = 1 /\ link'.err = "other" /\ link'.overwritten = TRUE
          /\ link'.conn = FALSE
      BY <2>2, <3>1, <3>2 DEF Links
    <3> QED BY <2>1, <2>2, <3>1, <3>3 DEF LoginInv, LinkInv, Marked, Barred
  <2> QED BY <2>3, <2>4, <2>5
<1> QED BY <1>1, <1>2, <1>3 DEF ClExtRefUpsert

(* sys_core_sf.py:359, 365: a login that was refused is not tried again,   *)
(* "preventing lock of user account", as long as its mark is not           *)
(* overwritten; and at most once more if it is.                            *)
THEOREM LoginCorrect == Spec => []LoginNotRepeated
<1>1. Init => LoginInv
  BY DEF Init, NewLink, LoginInv, LinkInv, Marked, Barred, Links
<1>2. LoginInv /\ [Next]_vars => LoginInv'
  <2> SUFFICES ASSUME LoginInv, [Next]_vars PROVE LoginInv'
    OBVIOUS
  <2>1. CASE StartRun \/ StartDies
    <3>1. Restart
      BY <2>1 DEF StartRun, StartDies
    <3> QED
      BY <3>1 DEF Restart, NewLink, LoginInv, LinkInv, Marked, Barred, Links
  <2>2. CASE Finish \/ NotImplemented \/ PushDone
    BY <2>2, SameLink DEF Finish, NotImplemented, PushDone, sfVars
  <2>3. CASE AcuClientsPull \/ AssClientsPull \/ AssReservationsPull
    BY <2>3, DbStep DEF DbCall, AcuClientsPull, AssClientsPull, AssReservationsPull
  <2>4. CASE SfClientsPull
    BY <2>4, FetchStep DEF SfClientsPull
  <2>5. CASE SfReservationsPull
    BY <2>5, FetchStep DEF SfReservationsPull
  <2>6. CASE ShClientsPull
    BY <2>6, DbStep, SameLink DEF DbCall, ShClientsPull, DieUnchecked, sfVars
  <2>7. CASE ShReservationsPull
    BY <2>7, DbStep, SameLink DEF DbCall, ShReservationsPull, DieUnchecked, sfVars
  <2>8. CASE AcuClientsPush
    BY <2>8, DbStep DEF DbCall, AcuClientsPush
  <2>9. CASE AssClientsPush
    BY <2>9, DbStep DEF DbCall, AssClientsPush
  <2>10. CASE AssReservationsPush
    BY <2>10, DbStep DEF AssReservationsPush
  <2>11. CASE SfClientsPush
    <3>1. PICK o \in Outcomes :
              ClUpsert(Rec, o) /\ (refStep' \in {"none", "check"} \/ UNCHANGED refStep)
      BY <2>11 DEF SfClientsPush
    <3> QED
      BY <3>1, SfStep DEF ClUpsert
  <2>12. CASE SfClientRefPush
    <3>1. PICK o \in Outcomes : ClExtRefUpsert(Rec.sf, o)
      BY <2>12 DEF SfClientRefPush
    <3> QED
      BY <3>1, ReferenceStep
  <2>13. CASE SfReservationsPush
    <3>1. PICK o \in Outcomes : Called(o) /\ UNCHANGED refStep
      BY <2>13 DEF SfReservationsPush
    <3> QED
      BY <3>1, SfStep
  <2>14. CASE ShClientsPush
    BY <2>14, DbStep DEF DbCall, ShClientsPush
  <2>15. CASE AcuClientsCompare \/ AssClientsCompare \/ AssReservationsCompare
    BY <2>15, DbStep DEF DbCall, AcuClientsCompare, AssClientsCompare, AssReservationsCompare
  <2>16. CASE SfClientsCompare
    BY <2>16, FetchStep DEF SfClientsCompare
  <2>17. CASE SfReservationsCompare
    BY <2>17, FetchStep DEF SfReservationsCompare
  <2>18. CASE ShClientsCompare
    BY <2>18, DbStep, SameLink DEF DbCall, ShClientsCompare, DieUnchecked, sfVars
  <2>19. CASE ShReservationsCompare
    BY <2>19, DbStep, SameLink DEF DbCall, ShReservationsCompare, DieUnchecked, sfVars
  <2>20. CASE Salesforce
    BY <2>20 DEF Salesforce, SessionExpires, PasswordChanges, LoginInv, LinkInv, Marked, Barred, Held
  <2>21. ASSUME NEW sys, NEW typ, NEW key, Change(sys, typ, key) PROVE LoginInv'
    BY <2>21, SameLink DEF Change, sfVars
  <2>22. CASE UNCHANGED vars
    BY <2>22, SameLink DEF vars, sfVars
  <2> QED
    BY <2>1, <2>2, <2>3, <2>4, <2>5, <2>6, <2>7, <2>8, <2>9, <2>10, <2>11, <2>12, <2>13,
       <2>14, <2>15, <2>16, <2>17, <2>18, <2>19, <2>20, <2>21, <2>22 DEF Next
<1>3. LoginInv => LoginNotRepeated
  BY DEF LoginInv, LinkInv, Marked, LoginNotRepeated
<1> QED
  BY <1>1, <1>2, <1>3, PTL DEF Spec

-----------------------------------------------------------------------------
(* Sequences, and the rows of the systems.                                 *)

LEMMA SeqFacts ==
    ASSUME NEW S, NEW s \in Seq(S)
    PROVE  /\ Len(s) \in Nat /\ DOMAIN s = 1 .. Len(s)
           /\ \A i \in DOMAIN s : i \in Nat /\ i >= 1 /\ s[i] \in S
           /\ \A r \in ToSet(s) : r \in S /\ \E i \in DOMAIN s : r = s[i]
           /\ \A i \in DOMAIN s : s[i] \in ToSet(s)
<1>1. Len(s) \in Nat
  OBVIOUS
<1>2. DOMAIN s = 1 .. Len(s)
  OBVIOUS
<1>3. \A i \in DOMAIN s : i \in Nat /\ i >= 1 /\ s[i] \in S
  OBVIOUS
<1>4. \A r \in ToSet(s) : r \in S /\ \E i \in DOMAIN s : r = s[i]
  BY <1>3 DEF ToSet
<1>5. \A i \in DOMAIN s : s[i] \in ToSet(s)
  BY DEF ToSet
<1> QED BY <1>1, <1>2, <1>3, <1>4, <1>5, Zenon

LEMMA FunOf ==
    ASSUME NEW S, NEW n \in Nat, NEW s \in [1 .. n -> S]
    PROVE  s \in Seq(S) /\ Len(s) = n /\ DOMAIN s = 1 .. n
  OBVIOUS

(* A sequence of all elements of a finite set. *)
LEMMA SetSeq ==
    ASSUME NEW S, IsFiniteSet(S)
    PROVE  /\ Cardinality(S) \in Nat
           /\ SetToSeq(S) \in [1 .. Cardinality(S) -> S]
           /\ \A i, j \in 1 .. Cardinality(S) : SetToSeq(S)[i] = SetToSeq(S)[j] => i = j
           /\ \A x \in S : \E i \in 1 .. Cardinality(S) : SetToSeq(S)[i] = x
<1> DEFINE n == Cardinality(S)
           D == 1 .. n
<1>1. n \in Nat /\ ExistsBijection(D, S)
  BY FS_CardinalityType
<1>2. PICK f \in Bijection(D, S) : TRUE
  BY <1>1 DEF ExistsBijection
<1>3. f \in [D -> S] /\ IsInjective(f)
  BY <1>2 DEF Bijection, Injection
<1>4. SetToSeq(S) \in [D -> S] /\ IsInjective(SetToSeq(S))
  BY <1>3 DEF SetToSeq
<1>5. SetToSeq(S) \in Injection(D, S)
  BY <1>4 DEF Injection
<1>6. IsFiniteSet(D) /\ Cardinality(D) = n
  BY <1>1, FS_Interval
<1>7. SetToSeq(S) \in Surjection(D, S)
  BY <1>5, <1>6, FS_Injection
<1>8. \A x \in S : \E i \in D : SetToSeq(S)[i] = x
  BY <1>7 DEF Surjection
<1>9. \A i, j \in D : SetToSeq(S)[i] = SetToSeq(S)[j] => i = j
  BY <1>4 DEF IsInjective
<1> QED BY <1>1, <1>4, <1>8, <1>9

Systems == {"Acu", "Ass", "Sf", "Sh"}

(* The rows of a table: one for each record, as it is stored. *)
LEMMA RowsOf ==
    ASSUME TypeOK, NEW sys \in Systems, NEW typ \in Types
    PROVE  /\ Rows(sys, typ) \in Seq(Records)
           /\ \A i \in DOMAIN Rows(sys, typ) :
                /\ Rows(sys, typ)[i].typ = typ
                /\ stored[<<sys, typ>>][Rows(sys, typ)[i].key] # None
                /\ Rows(sys, typ)[i].val = stored[<<sys, typ>>][Rows(sys, typ)[i].key].val
                /\ Rows(sys, typ)[i].sf = stored[<<sys, typ>>][Rows(sys, typ)[i].key].sf
           /\ \A i, j \in DOMAIN Rows(sys, typ) :
                Rows(sys, typ)[i].key = Rows(sys, typ)[j].key => i = j
           /\ \A k \in Keys : stored[<<sys, typ>>][k] # None =>
                \E i \in DOMAIN Rows(sys, typ) : Rows(sys, typ)[i].key = k
<1> DEFINE K == KeysIn(sys, typ)
           n == Cardinality(K)
           s == SetToSeq(K)
           R == Rows(sys, typ)
           T == stored[<<sys, typ>>]
<1>1. <<sys, typ>> \in Tables
  BY DEF Tables, Systems, Types
<1>2. T \in [Keys -> Data \cup {None}]
  BY <1>1 DEF TypeOK
<1>3. K \subseteq Keys /\ \A k \in Keys : k \in K <=> T[k] # None
  BY DEF KeysIn
<1>4. IsFiniteSet(K)
  BY <1>3, FS_Subset, DataManAssumption
<1>5. /\ n \in Nat /\ s \in [1 .. n -> K]
      /\ \A i, j \in 1 .. n : s[i] = s[j] => i = j
      /\ \A x \in K : \E i \in 1 .. n : s[i] = x
  BY <1>4, SetSeq
<1>6. R = [i \in 1 .. n |-> Row(sys, typ, s[i])]
  BY DEF Rows
<1> HIDE DEF K, n, s, R
<1>7. ASSUME NEW k \in K
      PROVE  /\ Row(sys, typ, k) \in Records
             /\ Row(sys, typ, k).key = k /\ Row(sys, typ, k).typ = typ
             /\ Row(sys, typ, k).val = T[k].val /\ Row(sys, typ, k).sf = T[k].sf
             /\ T[k] # None
  <2>1. T[k] \in Data
    BY <1>2, <1>3
  <2> QED BY <1>3, <2>1 DEF Row, Records, Data
<1>8. R \in [1 .. n -> Records]
  BY <1>5, <1>6, <1>7
<1>9. R \in Seq(Records) /\ DOMAIN R = 1 .. n
  BY <1>5, <1>8, FunOf
<1>10. \A i \in 1 .. n : s[i] \in K /\ R[i] = Row(sys, typ, s[i])
  BY <1>5, <1>6
<1>11. \A i \in 1 .. n : R[i].key = s[i] /\ R[i].typ = typ /\ R[i].val = T[s[i]].val
                         /\ R[i].sf = T[s[i]].sf /\ T[s[i]] # None
  BY <1>7, <1>10
<1>12. \A k \in Keys : T[k] # None => \E i \in 1 .. n : R[i].key = k
  BY <1>3, <1>5, <1>11
<1>13. \A i, j \in 1 .. n : R[i].key = R[j].key => i = j
  BY <1>5, <1>11
<1>14. /\ R \in Seq(Records)
       /\ \A i \in DOMAIN R : R[i].typ = typ /\ T[R[i].key] # None
              /\ R[i].val = T[R[i].key].val /\ R[i].sf = T[R[i].key].sf
       /\ \A i, j \in DOMAIN R : R[i].key = R[j].key => i = j
       /\ \A k \in Keys : T[k] # None => \E i \in DOMAIN R : R[i].key = k
  BY <1>9, <1>11, <1>12, <1>13
<1> QED BY <1>14 DEF R

LEMMA AccountRowsOf ==
    ASSUME TypeOK
    PROVE  /\ AccountRows \in Seq(Records) /\ DOMAIN AccountRows = DOMAIN accounts
           /\ \A i \in DOMAIN accounts :
                /\ AccountRows[i].key = accounts[i].key /\ AccountRows[i].val = accounts[i].val
                /\ AccountRows[i].sf = i /\ AccountRows[i].typ = "C" /\ i # NoId
<1> DEFINE A == [key : Keys, val : Values]
<1>1. accounts \in Seq(A)
  BY DEF TypeOK
<1> HIDE DEF A
<1>2. /\ Len(accounts) \in Nat /\ DOMAIN accounts = 1 .. Len(accounts)
      /\ \A i \in DOMAIN accounts : i \in Nat /\ i >= 1 /\ accounts[i] \in A
  BY <1>1, SeqFacts
<1>3. \A i \in DOMAIN accounts :
        [key |-> accounts[i].key, val |-> accounts[i].val, sf |-> i, typ |-> "C"] \in Records
  BY <1>2 DEF A, Records, Types
<1>4. AccountRows \in [1 .. Len(accounts) -> Records]
  BY <1>2, <1>3 DEF AccountRows
<1>5. AccountRows \in Seq(Records) /\ DOMAIN AccountRows = 1 .. Len(accounts)
  BY <1>2, <1>4, FunOf
<1>6. \A i \in DOMAIN accounts : i # 0 /\ AccountRows[i] =
         [key |-> accounts[i].key, val |-> accounts[i].val, sf |-> i, typ |-> "C"]
  BY <1>2 DEF AccountRows
<1> QED BY <1>2, <1>5, <1>6 DEF NoId

-----------------------------------------------------------------------------
(* The kinds of steps, as far as the invariants tell them apart.           *)

Same1 == UNCHANGED <<accounts, refs, stored, run, todo, memory, at, RefOpen, skipped,
                     errorLog, want, wrote, differs, touched, forgotten, unaware, created>>

(* A reference is created if the look-up found none, or failed. *)
LookedUp ==
    /\ blind \subseteq blind'
    /\ refStep' = "create" => refStep = "create" \/ ~(refs[Rec.sf] > 0) \/ Rec.sf \in blind'

(* An exception ends the run. *)
Died == exit' = "died" /\ Same1 /\ LookedUp

(* What is left after the run, what the connection goes through, and the   *)
(* steps before an external reference is written.                          *)
Idle == UNCHANGED exit /\ UNCHANGED failed /\ Same1 /\ LookedUp

(* The answer of a system: its records, or an error. *)
TableRows(sys, typ) == IF <<sys, typ>> = <<"Sf", "C">> THEN AccountRows ELSE Rows(sys, typ)

Fetched(sys, typ, res) ==
    /\ sys \in Systems /\ typ \in Types
    /\ res.recs = <<>> \/ res.recs = TableRows(sys, typ)
    /\ ~res.msg => res.recs = TableRows(sys, typ)
    /\ failed' => failed \/ res.log
    /\ UNCHANGED <<accounts, refs, blind, refStep, RefOpen>>

PullStep(sys, typ, list, match, res) ==
    /\ Now("pull", sys, typ) /\ Fetched(sys, typ, res) /\ PullInto(list, match, typ, res)
    /\ list \in Types /\ match \in BOOLEAN
    /\ list # typ => typ = "C" /\ sys \in {"Sf", "Sh"}
    /\ (list = "C" => sys \in {"Acu", "Ass"}) /\ (match => sys = "Sh")

CompareStep(sys, typ, res) ==
    Now("compare", sys, typ) /\ Fetched(sys, typ, res) /\ CompareWith(sys, typ, res)

(* A push of a record; the clients of Salesforce are different. *)
PushStep(sys, typ, applied, sf, err) ==
    /\ Pushing(sys, typ) /\ sys \in Systems /\ typ \in Types
    /\ <<sys, typ>> \notin {<<"Sf", "C">>, <<"Acu", "R">>, <<"Sh", "R">>, <<"Ass", "R">>}
    /\ sf \in {NoId, Rec.sf} \/ (typ = "C" /\ sf = KeptId(sys))
    /\ <<sys, typ>> = <<"Ass", "C">> => sf = Rec.sf
    /\ Written(sys, typ, applied, sf) /\ AfterRecord(err)
    /\ ~err => applied
    /\ failed' => failed \/ err
    /\ UNCHANGED <<accounts, refs, blind, refStep, RefOpen, run, memory, exit, want, differs,
                   touched, forgotten, unaware, created>>

(* A push of a reservation with its guests. *)
GuestStep(o, made, data) ==
    /\ Pushing("Ass", "R") /\ o \in {"done", "refused", "partly"}
    /\ made \subseteq UnknownGuests(Rec.key) /\ data \in [made -> Values]
    /\ IF o = "refused" THEN UNCHANGED <<stored, wrote>>
       ELSE /\ stored' = SavedRows(made, data)
            /\ wrote' = [wrote EXCEPT ![<<"Ass", "R">>][Rec.key] = Rec.val]
    /\ memory' = WithGuests(made, data) /\ created' = (created \/ made # {})
    /\ AfterRecord(o # "done")
    /\ failed' => failed \/ o # "done"
    /\ UNCHANGED <<accounts, refs, blind, refStep, RefOpen, run, exit, want, differs, touched,
                   forgotten, unaware>>

SfPushStep(o) ==
    /\ Pushing("Sf", "C") /\ ~RefOpen /\ o \in {"done", "refused", "lost"}
    /\ IF ~Applied(o)
       THEN UNCHANGED <<accounts, refs>>
       ELSE IF Rec.sf # NoId
       THEN accounts' = [accounts EXCEPT ![Rec.sf] = Account(Rec)] /\ UNCHANGED refs
       ELSE accounts' = Append(accounts, Account(Rec)) /\ refs' = Append(refs, 0)
    /\ memory' = [memory EXCEPT !["C"][at + 1].sf = IdAfterUpsert(Rec, o)]
    /\ wrote' = IF Applied(o) THEN [wrote EXCEPT ![<<"Sf", "C">>][Rec.key] = Rec.val] ELSE wrote
    /\ forgotten' = IF o = "lost" \/ (Rec.sf # IdAfterUpsert(Rec, o) /\ Rec.sf # NoId)
                    THEN forgotten \cup {Rec.key} ELSE forgotten
    /\ \/ /\ o = "done" /\ RefOpen' = TRUE
          /\ UNCHANGED <<at, todo, skipped, errorLog, failed>>
       \/ /\ UNCHANGED RefOpen /\ AfterRecord(o # "done") /\ (failed' => failed \/ o # "done")
    /\ refStep' # "create"
    /\ UNCHANGED <<blind, stored, run, exit, want, differs, touched, unaware, created>>

(* An external reference is written, or given up. *)
RefStep(o) ==
    /\ Pushing("Sf", "C") /\ RefOpen /\ RefOpen' = FALSE /\ refStep' = "none"
    /\ refs' = IF Applied(o) /\ refStep = "create" THEN [refs EXCEPT ![Rec.sf] = @ + 1] ELSE refs
    /\ AfterRecord(o # "done")
    /\ failed' => failed \/ o # "done"
    /\ UNCHANGED <<accounts, blind, stored, run, memory, exit, want, wrote, differs, touched,
                   forgotten, unaware, created>>

Steps1 ==
    \/ StartRun \/ StartDies \/ Finish \/ NotImplemented \/ PushDone
    \/ \E sys \in {"Acu", "Ass", "Sf", "Sh"}, typ \in Types, key \in Keys : Change(sys, typ, key)
    \/ Died \/ Idle
    \/ \E sys, typ, list, match, res : PullStep(sys, typ, list, match, res)
    \/ \E sys, typ, res : CompareStep(sys, typ, res)
    \/ \E sys, typ, applied, sf, err : PushStep(sys, typ, applied, sf, err)
    \/ \E o, made, data : GuestStep(o, made, data)
    \/ \E o : SfPushStep(o)
    \/ \E o : RefStep(o)

LEMMA ResultOf ==
    ASSUME NEW recs, NEW msg
    PROVE  /\ Result(recs, msg).recs = recs /\ Result(recs, msg).msg = msg
           /\ Result(recs, msg).log = msg
  BY DEF Result

LEMMA DbFetched ==
    ASSUME NEW sys \in Systems, NEW typ \in Types, NEW fails \in BOOLEAN, NEW res, DbCall(fails),
           <<sys, typ>> # <<"Sf", "C">>,
           \/ res = AcuClients(fails) /\ <<sys, typ>> = <<"Acu", "C">>
           \/ res = AssClients(fails) /\ <<sys, typ>> = <<"Ass", "C">>
           \/ res = AssReservations(fails) /\ <<sys, typ>> = <<"Ass", "R">>
           \/ res = ShRecords(typ, fails) /\ sys = "Sh"
    PROVE  Fetched(sys, typ, res)
<1>1. TableRows(sys, typ) = Rows(sys, typ)
  BY DEF TableRows
<1>2. failed' = (failed \/ fails) /\ UNCHANGED <<accounts, refs, blind, refStep, RefOpen>>
  BY DEF DbCall, DbCalled, RefOpen
<1>3. /\ res.recs = <<>> \/ res.recs = Rows(sys, typ)
      /\ ~res.msg => res.recs = Rows(sys, typ)
      /\ fails => res.log
  <2>1. CASE res = AcuClients(fails) /\ <<sys, typ>> = <<"Acu", "C">>
    BY <2>1, ResultOf DEF AcuClients
  <2>2. CASE res = AssClients(fails) /\ <<sys, typ>> = <<"Ass", "C">>
    BY <2>2, ResultOf DEF AssClients
  <2>3. CASE res = AssReservations(fails) /\ <<sys, typ>> = <<"Ass", "R">>
    BY <2>3, ResultOf DEF AssReservations
  <2>4. CASE res = ShRecords(typ, fails) /\ sys = "Sh"
    BY <2>4, ResultOf DEF ShRecords
  <2> QED BY <2>1, <2>2, <2>3, <2>4
<1> QED BY <1>1, <1>2, <1>3 DEF Fetched

LEMMA SfFetched ==
    ASSUME NEW o, SfFetch(o), o \in {"done", "refused", "leads"}
    PROVE  /\ Fetched("Sf", "C", SfClients(o))
           /\ (~SfReservationsRaise(o) /\ o # "leads") =>
                 Fetched("Sf", "R", [Result(Rows("Sf", "R"), errorMessage) EXCEPT !.log = FALSE])
           /\ UNCHANGED <<accounts, refs, blind, refStep, RefOpen>>
<1>0. failed' = (failed \/ o # "done")
  BY DEF SfFetch
<1>1. UNCHANGED <<accounts, refs, blind, refStep, RefOpen>>
  BY DEF SfFetch, SoqlQueryAll, RefOpen
<1>2. TableRows("Sf", "C") = AccountRows /\ TableRows("Sf", "R") = Rows("Sf", "R")
  BY DEF TableRows
<1>3. Fetched("Sf", "C", SfClients(o))
  <2>1. CASE o = "done"
    <3>1. SfClients(o) = Result(AccountRows, errorMessage)
      BY <2>1 DEF SfClients
    <3>2. SfClients(o).recs = AccountRows /\ SfClients(o).msg = errorMessage
      BY <3>1, ResultOf
    <3>3. failed' => failed
      BY <1>0, <2>1
    <3>4. "Sf" \in Systems /\ "C" \in Types
      BY DEF Systems, Types
    <3> QED BY <1>1, <1>2, <3>2, <3>3, <3>4 DEF Fetched
  <2>2. CASE o # "done"
    <3>1. SfClients(o) = Result(IF o = "leads" THEN AccountRows ELSE <<>>, TRUE)
      BY <2>2 DEF SfClients
    <3>2. /\ SfClients(o).recs = AccountRows \/ SfClients(o).recs = <<>>
          /\ SfClients(o).msg = TRUE /\ SfClients(o).log = TRUE
      <4>1. CASE o = "leads"
        <5>1. SfClients(o) = Result(AccountRows, TRUE)
          BY <3>1, <4>1
        <5>2. SfClients(o).recs = AccountRows /\ SfClients(o).msg = TRUE /\ SfClients(o).log = TRUE
          BY <5>1 DEF Result
        <5> QED BY <5>2
      <4>2. CASE o # "leads"
        <5>1. SfClients(o) = Result(<<>>, TRUE)
          BY <3>1, <4>2
        <5>2. SfClients(o).recs = <<>> /\ SfClients(o).msg = TRUE /\ SfClients(o).log = TRUE
          BY <5>1 DEF Result
        <5> QED BY <5>2
      <4> QED BY <4>1, <4>2
    <3>3. "Sf" \in Systems /\ "C" \in Types
      BY DEF Systems, Types
    <3> QED BY <1>1, <1>2, <3>2, <3>3 DEF Fetched
  <2> QED BY <2>1, <2>2
<1>4. ASSUME ~SfReservationsRaise(o), o # "leads"
      PROVE  Fetched("Sf", "R", [Result(Rows("Sf", "R"), errorMessage) EXCEPT !.log = FALSE])
  <2> DEFINE q == [Result(Rows("Sf", "R"), errorMessage) EXCEPT !.log = FALSE]
  <2>1. o = "done"
    BY <1>4 DEF SfReservationsRaise
  <2>2. q.recs = Rows("Sf", "R")
    BY DEF Result
  <2>3. failed' => failed
    BY <1>0, <2>1
  <2>4. "Sf" \in Systems /\ "R" \in Types
    BY DEF Systems, Types
  <2> HIDE DEF q
  <2>5. Fetched("Sf", "R", q)
    BY <1>1, <1>2, <2>2, <2>3, <2>4 DEF Fetched
  <2> QED BY <2>5 DEF q
<1> QED BY <1>1, <1>3, <1>4

(* Every step is of one of these kinds. *)
LEMMA PullKind ==
    ASSUME AcuClientsPull \/ AssClientsPull \/ AssReservationsPull \/ SfClientsPull
           \/ SfReservationsPull \/ ShClientsPull \/ ShReservationsPull
    PROVE  Died \/ \E sys, typ, list, match, res : PullStep(sys, typ, list, match, res)
<1>0. /\ "Acu" \in Systems /\ "Ass" \in Systems /\ "Sf" \in Systems /\ "Sh" \in Systems
      /\ "C" \in Types /\ "R" \in Types
  BY DEF Systems, Types
<1>1. CASE AcuClientsPull
  <2>1. PICK fails \in BOOLEAN : DbCall(fails) /\ PullInto("C", FALSE, "C", AcuClients(fails))
    BY <1>1 DEF AcuClientsPull
  <2>2. Fetched("Acu", "C", AcuClients(fails)) /\ Now("pull", "Acu", "C")
    BY <1>0, <1>1, <2>1, DbFetched DEF AcuClientsPull
  <2>3. PullStep("Acu", "C", "C", FALSE, AcuClients(fails))
    BY <1>0, <2>1, <2>2 DEF PullStep
  <2> QED BY <2>3
<1>2. CASE AssClientsPull
  <2>1. PICK fails \in BOOLEAN : DbCall(fails) /\ PullInto("C", FALSE, "C", AssClients(fails))
    BY <1>2 DEF AssClientsPull
  <2>2. Fetched("Ass", "C", AssClients(fails)) /\ Now("pull", "Ass", "C")
    BY <1>0, <1>2, <2>1, DbFetched DEF AssClientsPull
  <2>3. PullStep("Ass", "C", "C", FALSE, AssClients(fails))
    BY <1>0, <2>1, <2>2 DEF PullStep
  <2> QED BY <2>3
<1>3. CASE AssReservationsPull
  <2>1. PICK fails \in BOOLEAN : DbCall(fails) /\ PullInto("R", FALSE, "R", AssReservations(fails))
    BY <1>3 DEF AssReservationsPull
  <2>2. Fetched("Ass", "R", AssReservations(fails)) /\ Now("pull", "Ass", "R")
    BY <1>0, <1>3, <2>1, DbFetched DEF AssReservationsPull
  <2>3. PullStep("Ass", "R", "R", FALSE, AssReservations(fails))
    BY <1>0, <2>1, <2>2 DEF PullStep
  <2> QED BY <2>3
<1>4. CASE SfClientsPull
  <2>1. PICK o \in {"done", "refused", "leads"} :
            SfFetch(o) /\ IF SfClientsRaise(o, Chk) THEN Die ELSE PullInto("R", FALSE, "C", SfClients(o))
    BY <1>4 DEF SfClientsPull
  <2>2. Fetched("Sf", "C", SfClients(o)) /\ Now("pull", "Sf", "C") 
        /\ UNCHANGED <<accounts, refs, blind, refStep, RefOpen>>
    BY <1>4, <2>1, SfFetched DEF SfClientsPull
  <2>3. CASE SfClientsRaise(o, Chk)
    BY <2>1, <2>2, <2>3 DEF Die, Died, Same1, LookedUp
  <2>4. CASE ~SfClientsRaise(o, Chk)
    <3>1. PullStep("Sf", "C", "R", FALSE, SfClients(o))
      BY <1>0, <2>1, <2>2, <2>4 DEF PullStep
    <3> QED BY <3>1
  <2> QED BY <2>3, <2>4
<1>5. CASE SfReservationsPull
  <2> DEFINE q == [Result(Rows("Sf", "R"), errorMessage) EXCEPT !.log = FALSE]
  <2>1. PICK o \in {"done", "refused"} :
            SfFetch(o) /\ IF SfReservationsRaise(o) THEN Die ELSE PullInto("R", FALSE, "R", q)
    BY <1>5 DEF SfReservationsPull
  <2>2. /\ ~SfReservationsRaise(o) => Fetched("Sf", "R", q)
        /\ Now("pull", "Sf", "R") 
        /\ UNCHANGED <<accounts, refs, blind, refStep, RefOpen>>
    BY <1>5, <2>1, SfFetched DEF SfReservationsPull
  <2> HIDE DEF q
  <2>3. CASE SfReservationsRaise(o)
    BY <2>1, <2>2, <2>3 DEF Die, Died, Same1, LookedUp
  <2>4. CASE ~SfReservationsRaise(o)
    <3>1. PullStep("Sf", "R", "R", FALSE, q)
      BY <1>0, <2>1, <2>2, <2>4 DEF PullStep
    <3> QED BY <3>1
  <2> QED BY <2>3, <2>4
<1>6. CASE ShClientsPull
  <2>1. CASE DieUnchecked
    BY <2>1 DEF DieUnchecked, Die, Died, Same1, LookedUp, RefOpen, sfVars
  <2>2. ASSUME NEW fails \in BOOLEAN, DbCall(fails), PullInto("R", TRUE, "C", ShRecords("C", fails))
        PROVE  PullStep("Sh", "C", "R", TRUE, ShRecords("C", fails))
    <3>1. Fetched("Sh", "C", ShRecords("C", fails)) /\ Now("pull", "Sh", "C")
      BY <1>0, <1>6, <2>2, DbFetched DEF ShClientsPull
    <3> QED BY <1>0, <2>2, <3>1 DEF PullStep
  <2> QED BY <1>6, <2>1, <2>2 DEF ShClientsPull
<1>7. CASE ShReservationsPull
  <2>1. CASE DieUnchecked
    BY <2>1 DEF DieUnchecked, Die, Died, Same1, LookedUp, RefOpen, sfVars
  <2>2. ASSUME NEW fails \in BOOLEAN, DbCall(fails), PullInto("R", TRUE, "R", ShRecords("R", fails))
        PROVE  PullStep("Sh", "R", "R", TRUE, ShRecords("R", fails))
    <3>1. Fetched("Sh", "R", ShRecords("R", fails)) /\ Now("pull", "Sh", "R")
      BY <1>0, <1>7, <2>2, DbFetched DEF ShReservationsPull
    <3> QED BY <1>0, <2>2, <3>1 DEF PullStep
  <2> QED BY <1>7, <2>1, <2>2 DEF ShReservationsPull
<1> QED BY <1>1, <1>2, <1>3, <1>4, <1>5, <1>6, <1>7

LEMMA CompareKind ==
    ASSUME AcuClientsCompare \/ AssClientsCompare \/ AssReservationsCompare \/ SfClientsCompare
           \/ SfReservationsCompare \/ ShClientsCompare \/ ShReservationsCompare
    PROVE  Died \/ \E sys, typ, res : CompareStep(sys, typ, res)
<1>0. /\ "Acu" \in Systems /\ "Ass" \in Systems /\ "Sf" \in Systems /\ "Sh" \in Systems
      /\ "C" \in Types /\ "R" \in Types
  BY DEF Systems, Types
<1>1. CASE AcuClientsCompare
  <2>1. PICK fails \in BOOLEAN : DbCall(fails) /\ CompareWith("Acu", "C", AcuClients(fails))
    BY <1>1 DEF AcuClientsCompare
  <2>2. Fetched("Acu", "C", AcuClients(fails)) /\ Now("compare", "Acu", "C")
    BY <1>0, <1>1, <2>1, DbFetched DEF AcuClientsCompare
  <2>3. CompareStep("Acu", "C", AcuClients(fails))
    BY <2>1, <2>2 DEF CompareStep
  <2> QED BY <2>3
<1>2. CASE AssClientsCompare
  <2>1. PICK fails \in BOOLEAN : DbCall(fails) /\ CompareWith("Ass", "C", AssClients(fails))
    BY <1>2 DEF AssClientsCompare
  <2>2. Fetched("Ass", "C", AssClients(fails)) /\ Now("compare", "Ass", "C")
    BY <1>0, <1>2, <2>1, DbFetched DEF AssClientsCompare
  <2>3. CompareStep("Ass", "C", AssClients(fails))
    BY <2>1, <2>2 DEF CompareStep
  <2> QED BY <2>3
<1>3. CASE AssReservationsCompare
  <2>1. PICK fails \in BOOLEAN : DbCall(fails) /\ CompareWith("Ass", "R", AssReservations(fails))
    BY <1>3 DEF AssReservationsCompare
  <2>2. Fetched("Ass", "R", AssReservations(fails)) /\ Now("compare", "Ass", "R")
    BY <1>0, <1>3, <2>1, DbFetched DEF AssReservationsCompare
  <2>3. CompareStep("Ass", "R", AssReservations(fails))
    BY <2>1, <2>2 DEF CompareStep
  <2> QED BY <2>3
<1>4. CASE SfClientsCompare
  <2>1. PICK o \in {"done", "refused", "leads"} :
            SfFetch(o) /\ IF SfClientsRaise(o, Chk) THEN Die ELSE CompareWith("Sf", "C", SfClients(o))
    BY <1>4 DEF SfClientsCompare
  <2>2. Fetched("Sf", "C", SfClients(o)) /\ Now("compare", "Sf", "C") 
        /\ UNCHANGED <<accounts, refs, blind, refStep, RefOpen>>
    BY <1>4, <2>1, SfFetched DEF SfClientsCompare
  <2>3. CASE SfClientsRaise(o, Chk)
    BY <2>1, <2>2, <2>3 DEF Die, Died, Same1, LookedUp
  <2>4. CASE ~SfClientsRaise(o, Chk)
    <3>1. CompareStep("Sf", "C", SfClients(o))
      BY <2>1, <2>2, <2>4 DEF CompareStep
    <3> QED BY <3>1
  <2> QED BY <2>3, <2>4
<1>5. CASE SfReservationsCompare
  <2> DEFINE q == [Result(Rows("Sf", "R"), errorMessage) EXCEPT !.log = FALSE]
  <2>1. PICK o \in {"done", "refused"} :
            SfFetch(o) /\ IF SfReservationsRaise(o) THEN Die ELSE CompareWith("Sf", "R", q)
    BY <1>5 DEF SfReservationsCompare
  <2>2. /\ ~SfReservationsRaise(o) => Fetched("Sf", "R", q)
        /\ Now("compare", "Sf", "R") 
        /\ UNCHANGED <<accounts, refs, blind, refStep, RefOpen>>
    BY <1>5, <2>1, SfFetched DEF SfReservationsCompare
  <2> HIDE DEF q
  <2>3. CASE SfReservationsRaise(o)
    BY <2>1, <2>2, <2>3 DEF Die, Died, Same1, LookedUp
  <2>4. CASE ~SfReservationsRaise(o)
    <3>1. CompareStep("Sf", "R", q)
      BY <2>1, <2>2, <2>4 DEF CompareStep
    <3> QED BY <3>1
  <2> QED BY <2>3, <2>4
<1>6. CASE ShClientsCompare
  <2>1. CASE DieUnchecked
    BY <2>1 DEF DieUnchecked, Die, Died, Same1, LookedUp, RefOpen, sfVars
  <2>2. ASSUME NEW fails \in BOOLEAN, DbCall(fails), CompareWith("Sh", "C", ShRecords("C", fails))
        PROVE  CompareStep("Sh", "C", ShRecords("C", fails))
    <3>1. Fetched("Sh", "C", ShRecords("C", fails)) /\ Now("compare", "Sh", "C")
      BY <1>0, <1>6, <2>2, DbFetched DEF ShClientsCompare
    <3> QED BY <2>2, <3>1 DEF CompareStep
  <2> QED BY <1>6, <2>1, <2>2 DEF ShClientsCompare
<1>7. CASE ShReservationsCompare
  <2>1. CASE DieUnchecked
    BY <2>1 DEF DieUnchecked, Die, Died, Same1, LookedUp, RefOpen, sfVars
  <2>2. ASSUME NEW fails \in BOOLEAN, DbCall(fails), CompareWith("Sh", "R", ShRecords("R", fails))
        PROVE  CompareStep("Sh", "R", ShRecords("R", fails))
    <3>1. Fetched("Sh", "R", ShRecords("R", fails)) /\ Now("compare", "Sh", "R")
      BY <1>0, <1>7, <2>2, DbFetched DEF ShReservationsCompare
    <3> QED BY <2>2, <3>1 DEF CompareStep
  <2> QED BY <1>7, <2>1, <2>2 DEF ShReservationsCompare
<1> QED BY <1>1, <1>2, <1>3, <1>4, <1>5, <1>6, <1>7

LEMMA SfErrorIs ==
    ASSUME NEW err, SfError(err)
    PROVE  AfterRecord(err) /\ (failed' => failed \/ err)
  BY DEF SfError

LEMMA LookUpIs ==
    ASSUME NEW id, NEW o, ClExtRefUpsert(id, o), refStep' = "create"
    PROVE  ~(refs[id] > 0) \/ id \in blind' \/ refStep = "create"
  BY DEF ClExtRefUpsert, ExtRefAsked, ClExtRefs, ExtRefWrite, ExtRefFound

LEMMA WriteIs ==
    ASSUME NEW id, NEW o \in Outcomes, ClExtRefUpsert(id, o), refStep' = "none"
    PROVE  /\ refs' = IF Applied(o) /\ refStep = "create" THEN [refs EXCEPT ![id] = @ + 1] ELSE refs
           /\ UNCHANGED blind
<1>1. CASE ExtRefAsked(o)
  BY <1>1 DEF ExtRefAsked, Applied
<1>2. CASE ClExtRefs(id, o)
  BY <1>2 DEF ClExtRefs
<1>3. CASE ExtRefWrite(id, o)
  BY <1>3 DEF ExtRefWrite
<1> QED BY <1>1, <1>2, <1>3 DEF ClExtRefUpsert

LEMMA PushKind ==
    ASSUME AcuClientsPush \/ AssClientsPush \/ AssReservationsPush \/ SfClientsPush
           \/ SfClientRefPush \/ SfReservationsPush \/ ShClientsPush
    PROVE  \/ Died
           \/ Idle
           \/ \E sys, typ, applied, sf, err : PushStep(sys, typ, applied, sf, err)
           \/ \E o, made, data : GuestStep(o, made, data)
           \/ \E o : SfPushStep(o)
           \/ \E o : RefStep(o)
<1>0. /\ "Acu" \in Systems /\ "Ass" \in Systems /\ "Sf" \in Systems /\ "Sh" \in Systems
      /\ "C" \in Types /\ "R" \in Types
  BY DEF Systems, Types
<1>1. CASE AcuClientsPush
  <2>1. PICK fails \in BOOLEAN :
            /\ DbCall(fails) /\ Written("Acu", "C", ~fails, KeptId("Acu"))
            /\ AfterRecord(fails \/ errorMessage)
            /\ UNCHANGED <<memory, created, forgotten>> /\ PushUnchanged
    BY <1>1 DEF AcuClientsPush
  <2>2. PushStep("Acu", "C", ~fails, KeptId("Acu"), fails \/ errorMessage)
    BY <1>0, <1>1, <2>1 DEF PushStep, AcuClientsPush, DbCall, DbCalled, RefOpen, PushUnchanged
  <2> QED BY <2>2
<1>2. CASE AssClientsPush
  <2>1. PICK fails \in BOOLEAN :
            /\ DbCall(fails) /\ Written("Ass", "C", ~fails, Rec.sf)
            /\ AfterRecord(fails \/ errorMessage)
            /\ UNCHANGED <<memory, created, forgotten>> /\ PushUnchanged
    BY <1>2 DEF AssClientsPush
  <2>2. PushStep("Ass", "C", ~fails, Rec.sf, fails \/ errorMessage)
    BY <1>0, <1>2, <2>1 DEF PushStep, AssClientsPush, DbCall, DbCalled, RefOpen, PushUnchanged
  <2> QED BY <2>2
<1>3. CASE AssReservationsPush
  <2>1. PICK o \in {"done", "refused", "partly"}, made \in SUBSET UnknownGuests(Rec.key) :
           \E data \in [made -> Values] :
            /\ DbCalled(SaveFails(o)) /\ failed' = (failed \/ o # "done")
            /\ IF o = "refused" THEN UNCHANGED <<stored, wrote>>
               ELSE /\ stored' = SavedRows(made, data)
                    /\ wrote' = [wrote EXCEPT ![<<"Ass", "R">>][Rec.key] = Rec.val]
            /\ memory' = WithGuests(made, data) /\ created' = (created \/ made # {})
            /\ AfterRecord(o # "done")
            /\ UNCHANGED forgotten /\ PushUnchanged
    BY <1>3, Zenon DEF AssReservationsPush
  <2>2. PICK data \in [made -> Values] :
            /\ DbCalled(SaveFails(o)) /\ failed' = (failed \/ o # "done")
            /\ IF o = "refused" THEN UNCHANGED <<stored, wrote>>
               ELSE /\ stored' = SavedRows(made, data)
                    /\ wrote' = [wrote EXCEPT ![<<"Ass", "R">>][Rec.key] = Rec.val]
            /\ memory' = WithGuests(made, data) /\ created' = (created \/ made # {})
            /\ AfterRecord(o # "done")
            /\ UNCHANGED forgotten /\ PushUnchanged
    BY <2>1, Zenon
  <2>3. Pushing("Ass", "R")
    BY <1>3 DEF AssReservationsPush
  <2>4. UNCHANGED <<accounts, refs, blind, refStep, RefOpen>>
    BY <2>2 DEF DbCalled, RefOpen
  <2>5. UNCHANGED <<run, exit, want, differs, touched, unaware>>
    BY <2>2 DEF PushUnchanged
  <2>6. failed' => failed \/ o # "done"
    BY <2>2
  <2>7. GuestStep(o, made, data)
    BY <2>1, <2>2, <2>3, <2>4, <2>5, <2>6, Zenon DEF GuestStep
  <2> QED BY <2>7, Zenon
<1>4. CASE ShClientsPush
  <2>1. PICK fails \in BOOLEAN :
            /\ DbCall(fails) /\ Written("Sh", "C", ~fails, NoId)
            /\ AfterRecord(fails)
            /\ UNCHANGED <<memory, created, forgotten>> /\ PushUnchanged
    BY <1>4 DEF ShClientsPush
  <2>2. PushStep("Sh", "C", ~fails, NoId, fails)
    BY <1>0, <1>4, <2>1 DEF PushStep, ShClientsPush, DbCall, DbCalled, RefOpen, PushUnchanged
  <2> QED BY <2>2
<1>5. CASE SfReservationsPush
  <2>1. PICK o \in Outcomes :
            /\ UNCHANGED <<accounts, refs, blind, refStep>>
            /\ IF o = "raised" THEN Die /\ UNCHANGED failed ELSE
               /\ Written("Sf", "R", Applied(o), NoId) /\ SfError(o # "done")
               /\ UNCHANGED <<memory, created, forgotten>> /\ PushUnchanged
    BY <1>5 DEF SfReservationsPush
  <2>2. CASE o = "raised"
    BY <2>1, <2>2 DEF Die, Died, Same1, LookedUp, RefOpen
  <2>3. CASE o # "raised"
    <3>1. (~(o # "done")) => Applied(o)
      BY DEF Applied
    <3>2. PushStep("Sf", "R", Applied(o), NoId, o # "done")
      BY <1>0, <1>5, <2>1, <2>3, <3>1, SfErrorIs DEF PushStep, SfReservationsPush, RefOpen, PushUnchanged
    <3> QED BY <3>2
  <2> QED BY <2>2, <2>3
<1>6. CASE SfClientsPush
  <2>1. PICK o \in Outcomes :
            /\ ClUpsert(Rec, o)
            /\ IF o = "raised" THEN Die /\ UNCHANGED <<refStep, failed>> ELSE
               /\ memory' = [memory EXCEPT !["C"][at + 1].sf = IdAfterUpsert(Rec, o)]
               /\ wrote' = IF Applied(o) THEN [wrote EXCEPT ![<<"Sf", "C">>][Rec.key] = Rec.val]
                           ELSE wrote
               /\ forgotten' = IF o = "lost" \/ (Rec.sf # IdAfterUpsert(Rec, o) /\ Rec.sf # NoId)
                               THEN forgotten \cup {Rec.key} ELSE forgotten
               /\ IF o = "done" /\ IdAfterUpsert(Rec, o) # NoId /\ Rec.key \in Referred
                  THEN refStep' = "check"
                       /\ UNCHANGED <<at, todo, skipped, errorLog, errorMessage, failed>>
                  ELSE SfError(o # "done") /\ UNCHANGED refStep
               /\ UNCHANGED <<stored, created>> /\ PushUnchanged
    BY <1>6 DEF SfClientsPush
  <2>2. Pushing("Sf", "C") /\ ~RefOpen
    BY <1>6 DEF SfClientsPush
  <2>3. CASE o = "raised"
    BY <2>1, <2>3 DEF Die, Died, Same1, LookedUp, RefOpen, ClUpsert, Applied
  <2>4. CASE o # "raised"
    <3>1. o \in {"done", "refused", "lost"}
      BY <2>1, <2>4 DEF Outcomes
    <3>2. /\ IF ~Applied(o)
             THEN UNCHANGED <<accounts, refs>>
             ELSE IF Rec.sf # NoId
             THEN accounts' = [accounts EXCEPT ![Rec.sf] = Account(Rec)] /\ UNCHANGED refs
             ELSE accounts' = Append(accounts, Account(Rec)) /\ refs' = Append(refs, 0)
          /\ UNCHANGED blind
      BY <2>1 DEF ClUpsert
    <3>3. \/ /\ o = "done" /\ refStep' = "check"
             /\ UNCHANGED <<at, todo, skipped, errorLog, failed>>
          \/ /\ UNCHANGED refStep /\ AfterRecord(o # "done") /\ (failed' => failed \/ o # "done")
      BY <2>1, <2>4, SfErrorIs
    <3>4. UNCHANGED <<stored, run, exit, want, differs, touched, unaware, created>>
      BY <2>1, <2>4 DEF PushUnchanged
    <3>5. refStep' # "create" /\ (refStep' = "check" => RefOpen' = TRUE)
          /\ (refStep' = refStep => UNCHANGED RefOpen)
      BY <2>2, <3>3 DEF RefOpen
    <3>6. \/ /\ o = "done" /\ RefOpen' = TRUE
             /\ UNCHANGED <<at, todo, skipped, errorLog, failed>>
          \/ /\ UNCHANGED RefOpen /\ AfterRecord(o # "done") /\ (failed' => failed \/ o # "done")
      BY <3>3, <3>5
    <3>7. /\ memory' = [memory EXCEPT !["C"][at + 1].sf = IdAfterUpsert(Rec, o)]
          /\ wrote' = IF Applied(o) THEN [wrote EXCEPT ![<<"Sf", "C">>][Rec.key] = Rec.val] ELSE wrote
          /\ forgotten' = IF o = "lost" \/ (Rec.sf # IdAfterUpsert(Rec, o) /\ Rec.sf # NoId)
                          THEN forgotten \cup {Rec.key} ELSE forgotten
      BY <2>1, <2>4
    <3>8. SfPushStep(o)
      BY <2>2, <3>1, <3>2, <3>4, <3>5, <3>6, <3>7 DEF SfPushStep
    <3> QED BY <3>8
  <2> QED BY <2>3, <2>4
<1>7. CASE SfClientRefPush
  <2>1. PICK o \in Outcomes :
            /\ ClExtRefUpsert(Rec.sf, o)
            /\ IF o = "raised" THEN Die /\ UNCHANGED failed ELSE
               /\ IF refStep' # "none"
                  THEN UNCHANGED <<at, todo, skipped, errorLog, errorMessage, failed>>
                  ELSE SfError(o # "done")
               /\ UNCHANGED <<stored, memory, wrote, created, forgotten>> /\ PushUnchanged
    BY <1>7 DEF SfClientRefPush
  <2>2. Pushing("Sf", "C") /\ RefOpen
    BY <1>7 DEF SfClientRefPush
  <2>3. UNCHANGED accounts /\ blind \subseteq blind'
    BY <2>1 DEF ClExtRefUpsert, ExtRefAsked, ClExtRefs, ExtRefWrite
  <2>4. refStep' = "create" => ~(refs[Rec.sf] > 0) \/ Rec.sf \in blind' \/ refStep = "create"
    BY <2>1, LookUpIs
  <2>5. /\ refStep' # "none" => UNCHANGED refs
        /\ o = "raised" => UNCHANGED <<refs, refStep>>
    BY <2>1 DEF ClExtRefUpsert, ExtRefAsked, ClExtRefs, ExtRefWrite, Applied
  <2>6. CASE o = "raised"
    BY <2>1, <2>3, <2>5, <2>6 DEF Die, Died, Same1, LookedUp, RefOpen
  <2>7. CASE o # "raised" /\ refStep' # "none"
    <3>1. UNCHANGED RefOpen
      BY <2>2, <2>7 DEF RefOpen
    <3>2. UNCHANGED <<stored, run, todo, memory, at, skipped, errorLog, want, wrote, differs,
                      touched, forgotten, unaware, created, exit, failed>>
      BY <2>1, <2>7 DEF PushUnchanged
    <3>3. Idle
      BY <2>3, <2>4, <2>5, <2>7, <3>1, <3>2 DEF Idle, Same1, LookedUp
    <3> QED BY <3>3
  <2>8. CASE o # "raised" /\ refStep' = "none"
    <3>1. SfError(o # "done")
      BY <2>1, <2>8
    <3>2. AfterRecord(o # "done") /\ (failed' => failed \/ o # "done")
      BY <3>1, Zenon DEF SfError
    <3>3. UNCHANGED <<stored, run, memory, exit, want, wrote, differs, touched, forgotten,
                      unaware, created>>
      BY <2>1, <2>8 DEF PushUnchanged
    <3>4. /\ refs' = IF Applied(o) /\ refStep = "create"
                     THEN [refs EXCEPT ![Rec.sf] = @ + 1] ELSE refs
          /\ UNCHANGED blind
      BY <2>1, <2>8, WriteIs
    <3>5. RefOpen' = FALSE
      BY <2>8 DEF RefOpen
    <3>6. RefStep(o)
      BY <2>2, <2>3, <2>8, <3>2, <3>3, <3>4, <3>5, Zenon DEF RefStep
    <3> QED BY <3>6
  <2> QED BY <2>6, <2>7, <2>8
<1> QED BY <1>1, <1>2, <1>3, <1>4, <1>5, <1>6, <1>7

LEMMA Kinds == [Next]_vars => Steps1
<1> DEFINE Pulls ==
        \/ AcuClientsPull \/ AssClientsPull \/ AssReservationsPull \/ SfClientsPull
        \/ SfReservationsPull \/ ShClientsPull \/ ShReservationsPull
           Compares ==
        \/ AcuClientsCompare \/ AssClientsCompare \/ AssReservationsCompare \/ SfClientsCompare
        \/ SfReservationsCompare \/ ShClientsCompare \/ ShReservationsCompare
           Pushes ==
        \/ AcuClientsPush \/ AssClientsPush \/ AssReservationsPush \/ SfClientsPush
        \/ SfClientRefPush \/ SfReservationsPush \/ ShClientsPush
           Changed == \E sys \in {"Acu", "Ass", "Sf", "Sh"}, typ \in Types, key \in Keys :
                         Change(sys, typ, key)
<1>1. ASSUME Salesforce PROVE Idle
  BY <1>1 DEF Salesforce, SessionExpires, PasswordChanges, Idle, Same1, LookedUp, RefOpen, progVars,
              histVars
<1>2. ASSUME UNCHANGED vars PROVE Idle
  BY <1>2 DEF vars, sfVars, Idle, Same1, LookedUp, RefOpen, progVars, histVars
<1>3. ASSUME Pulls PROVE Steps1
  <2>1. Died \/ \E sys, typ, list, match, res : PullStep(sys, typ, list, match, res)
    BY <1>3, PullKind
  <2> QED BY <2>1 DEF Steps1
<1>4. ASSUME Compares PROVE Steps1
  <2>1. Died \/ \E sys, typ, res : CompareStep(sys, typ, res)
    BY <1>4, CompareKind
  <2> QED BY <2>1 DEF Steps1
<1>5. ASSUME Pushes PROVE Steps1
  <2>1. \/ Died \/ Idle
        \/ \E sys, typ, applied, sf, err : PushStep(sys, typ, applied, sf, err)
        \/ \E o, made, data : GuestStep(o, made, data)
        \/ \E o : SfPushStep(o)
        \/ \E o : RefStep(o)
    BY <1>5, PushKind
  <2> QED BY <2>1 DEF Steps1
<1>6. ASSUME StartRun \/ StartDies \/ Finish \/ NotImplemented \/ PushDone
             \/ Changed \/ Idle
      PROVE  Steps1
  BY <1>6 DEF Steps1
<1>0. Next => StartRun \/ StartDies \/ Finish \/ NotImplemented \/ PushDone
                \/ Changed \/ Salesforce \/ Pulls \/ Compares \/ Pushes
  BY Zenon DEF Next
<1> HIDE DEF Pulls, Compares, Pushes, Changed
<1> SUFFICES ASSUME [Next]_vars PROVE Steps1
  OBVIOUS
<1>7. CASE UNCHANGED vars
  BY <1>2, <1>6, <1>7, Zenon
<1>8. CASE Next
  BY <1>0, <1>1, <1>3, <1>4, <1>5, <1>6, <1>8, Zenon
<1> QED BY <1>7, <1>8

-----------------------------------------------------------------------------
(* Types.                                                                  *)

LEMMA TailOf ==
    ASSUME NEW S, NEW s \in Seq(S), s # <<>>
    PROVE  /\ Head(s) \in S /\ Tail(s) \in Seq(S) /\ 1 \in DOMAIN s /\ Head(s) = s[1]
           /\ \A i \in DOMAIN Tail(s) : i + 1 \in DOMAIN s /\ Tail(s)[i] = s[i + 1]
           /\ \A i \in DOMAIN s : i # 1 => i - 1 \in DOMAIN Tail(s) /\ Tail(s)[i - 1] = s[i]
<1>1. Head(s) \in S /\ Tail(s) \in Seq(S) /\ Head(s) = s[1]
  OBVIOUS
<1>2. Len(s) \in Nat /\ Len(s) # 0 /\ DOMAIN s = 1 .. Len(s)
  OBVIOUS
<1>3. Len(Tail(s)) = Len(s) - 1 /\ DOMAIN Tail(s) = 1 .. Len(Tail(s))
  <2>1. Len(Tail(s)) = Len(s) - 1
    OBVIOUS
  <2>2. DOMAIN Tail(s) = 1 .. Len(Tail(s))
    BY <1>1
  <2> QED BY <2>1, <2>2
<1>4. \A i \in 1 .. (Len(s) - 1) : Tail(s)[i] = s[i + 1]
  OBVIOUS
<1>5. DOMAIN Tail(s) = 1 .. (Len(s) - 1) /\ DOMAIN s = 1 .. Len(s)
  BY <1>2, <1>3
<1> DEFINE T == Tail(s)
           n == Len(s)
<1>6. n \in Nat /\ n # 0 /\ DOMAIN T = 1 .. (n - 1) /\ DOMAIN s = 1 .. n
      /\ \A i \in 1 .. (n - 1) : T[i] = s[i + 1]
  BY <1>2, <1>4, <1>5
<1> HIDE DEF T, n
<1>7. 1 \in DOMAIN s
  BY <1>6
<1>8. \A i \in DOMAIN T : i + 1 \in DOMAIN s /\ T[i] = s[i + 1]
  BY <1>6
<1>9. ASSUME NEW i \in DOMAIN s, i # 1 PROVE i - 1 \in DOMAIN T /\ T[i - 1] = s[i]
  <2>1. i \in Nat /\ i >= 1 /\ i <= n /\ i - 1 \in 1 .. (n - 1) /\ (i - 1) + 1 = i
    BY <1>6, <1>9
  <2> QED BY <1>6, <2>1
<1> QED BY <1>1, <1>7, <1>8, <1>9 DEF T

LEMMA ConcatOf ==
    ASSUME NEW S, NEW s \in Seq(S), NEW u \in Seq(S)
    PROVE  /\ s \o u \in Seq(S) /\ Len(s) \in Nat
           /\ \A i \in DOMAIN s : i <= Len(s) /\ i \in DOMAIN (s \o u) /\ (s \o u)[i] = s[i]
           /\ \A i \in DOMAIN u : Len(s) + i \in DOMAIN (s \o u) /\ (s \o u)[Len(s) + i] = u[i]
           /\ \A i \in DOMAIN (s \o u) :
                 \/ i \in DOMAIN s
                 \/ i > Len(s) /\ i - Len(s) \in DOMAIN u /\ (s \o u)[i] = u[i - Len(s)]
           /\ \A r : r \in ToSet(s \o u) <=> r \in ToSet(s) \/ r \in ToSet(u)
<1> DEFINE m == Len(s)
           n == Len(u)
           c == s \o u
<1>1. /\ m \in Nat /\ n \in Nat /\ DOMAIN s = 1 .. m /\ DOMAIN u = 1 .. n
  OBVIOUS
<1>2. c \in Seq(S) /\ Len(c) = m + n
  OBVIOUS
<1>3. \A i \in 1 .. (m + n) : c[i] = IF i <= m THEN s[i] ELSE u[i - m]
  BY ConcatProperties
<1>4. DOMAIN c = 1 .. (m + n)
  BY <1>2
<1> HIDE DEF m, n, c
<1>5. \A i \in DOMAIN s : i <= m /\ i \in DOMAIN c /\ c[i] = s[i]
  BY <1>1, <1>3, <1>4
<1>6. ASSUME NEW i \in DOMAIN u PROVE m + i \in DOMAIN c /\ c[m + i] = u[i]
  <2>1. m + i \in 1 .. (m + n) /\ ~(m + i <= m) /\ (m + i) - m = i
    BY <1>1
  <2> QED BY <1>3, <1>4, <2>1
<1>7. \A i \in DOMAIN c : i \in DOMAIN s \/ (i > m /\ i - m \in DOMAIN u /\ c[i] = u[i - m])
  BY <1>1, <1>3, <1>4
<1>8. \A r : r \in ToSet(c) <=> r \in ToSet(s) \/ r \in ToSet(u)
  BY <1>5, <1>6, <1>7 DEF ToSet
<1> QED BY <1>1, <1>2, <1>5, <1>6, <1>7, <1>8 DEF m, c

LEMMA TodoOf ==
    ASSUME TypeOK, todo # <<>>
    PROVE  /\ Head(todo) \in Entry /\ Tail(todo) \in Seq(Entry)
           /\ 1 \in DOMAIN todo /\ Head(todo) = todo[1]
           /\ \A i \in DOMAIN Tail(todo) :
                i \in Nat /\ i >= 1 /\ i + 1 \in DOMAIN todo /\ Tail(todo)[i] = todo[i + 1]
           /\ \A i \in DOMAIN todo : i # 1 => i - 1 \in DOMAIN Tail(todo) /\ Tail(todo)[i - 1] = todo[i]
<1>1. todo \in Seq(Entry)
  BY DEF TypeOK
<1>2. Tail(todo) \in Seq(Entry) /\ Head(todo) \in Entry
  BY <1>1, TailOf
<1>3. \A i \in DOMAIN Tail(todo) : i \in Nat /\ i >= 1
  BY <1>2, SeqFacts
<1> QED BY <1>1, <1>3, TailOf

LEMMA RecOf ==
    ASSUME TypeOK, NEW sys, NEW typ, Pushing(sys, typ)
    PROVE  /\ typ \in Types /\ sys \in Systems /\ Rec = memory[typ][at + 1] /\ Rec \in Records
           /\ at + 1 \in DOMAIN memory[typ] /\ memory[typ] \in Seq(Records)
<1>1. /\ exit = "running" /\ todo # <<>> /\ Head(todo).sys = sys /\ Head(todo).typ = typ
      /\ at < Len(memory[typ]) /\ Rec = memory[typ][at + 1]
  BY DEF Pushing, Now, Rec
<1>2. Head(todo) \in Entry
  BY <1>1, TodoOf
<1>3. typ \in Types /\ sys \in Systems
  BY <1>1, <1>2 DEF Entry, Systems
<1>4. memory[typ] \in Seq(Records) /\ at \in Nat
  BY <1>3 DEF TypeOK
<1>5. Len(memory[typ]) \in Nat /\ DOMAIN memory[typ] = 1 .. Len(memory[typ])
  BY <1>4
<1>6. at + 1 \in DOMAIN memory[typ]
  BY <1>1, <1>4, <1>5
<1>7. memory[typ][at + 1] \in Records
  BY <1>4, <1>6, SeqFacts
<1> QED BY <1>1, <1>3, <1>4, <1>6, <1>7

(* A record takes the place of the same record, or is put after all others. *)
LEMMA ReplacedOf ==
    ASSUME NEW recs \in Seq(Records), NEW q \in Records
    PROVE  /\ Replaced(q, recs) \in Records
           /\ \/ Replaced(q, recs) = q /\ \A r \in ToSet(recs) : ~SameRecord(q, r)
              \/ Replaced(q, recs) \in ToSet(recs) /\ SameRecord(q, Replaced(q, recs))
<1>1. CASE \E r \in ToSet(recs) : SameRecord(q, r)
  <2> DEFINE x == CHOOSE r \in ToSet(recs) : SameRecord(q, r)
  <2>1. x \in ToSet(recs) /\ SameRecord(q, x)
    BY <1>1
  <2>2. Replaced(q, recs) = x
    BY <1>1 DEF Replaced
  <2> HIDE DEF x
  <2>3. x \in Records
    BY <2>1, SeqFacts
  <2> QED BY <2>1, <2>2, <2>3
<1>2. CASE ~\E r \in ToSet(recs) : SameRecord(q, r)
  <2>1. Replaced(q, recs) = q
    BY <1>2 DEF Replaced
  <2> QED BY <1>2, <2>1
<1> QED BY <1>1, <1>2

LEMMA MergedParts ==
    ASSUME NEW list \in Seq(Records), NEW recs \in Seq(Records)
    PROVE  \E A, B \in Seq(Records) :
              /\ Merged(list, recs, TRUE) = A \o B /\ DOMAIN A = DOMAIN list
              /\ \A i \in DOMAIN list : A[i] = Replaced(list[i], recs)
              /\ \A r : r \in ToSet(B) <=> r \in NewRecords(list, recs)
              /\ \A i, j \in DOMAIN B : B[i] = B[j] => i = j
<1> DEFINE A == [i \in DOMAIN list |-> Replaced(list[i], recs)]
           N == NewRecords(list, recs)
           B == SetToSeq(N)
<1>1. Merged(list, recs, TRUE) = A \o B
  BY DEF Merged
<1>2. Len(list) \in Nat /\ DOMAIN list = 1 .. Len(list) /\ \A i \in DOMAIN list : list[i] \in Records
  BY SeqFacts
<1>3. \A i \in DOMAIN list : A[i] = Replaced(list[i], recs)
  OBVIOUS
<1>4. A \in Seq(Records) /\ DOMAIN A = DOMAIN list
  <2>1. \A i \in DOMAIN list : Replaced(list[i], recs) \in Records
    BY <1>2, ReplacedOf
  <2>2. A \in [1 .. Len(list) -> Records]
    BY <1>2, <2>1
  <2> QED BY <1>2, <2>2, FunOf
<1>5. N \subseteq ToSet(recs) /\ ToSet(recs) \subseteq Records
  BY SeqFacts DEF NewRecords
<1>6. IsFiniteSet(N)
  <2>1. recs \in Surjection(1 .. Len(recs), ToSet(recs))
    <3>1. Len(recs) \in Nat /\ DOMAIN recs = 1 .. Len(recs) /\ recs \in [1 .. Len(recs) -> Records]
      OBVIOUS
    <3>2. recs \in [1 .. Len(recs) -> ToSet(recs)]
      BY <3>1 DEF ToSet
    <3> QED BY <3>1, <3>2 DEF Surjection, ToSet
  <2>2. IsFiniteSet(1 .. Len(recs))
    BY FS_Interval
  <2>3. IsFiniteSet(ToSet(recs))
    BY <2>1, <2>2, FS_Surjection
  <2> QED BY <1>5, <2>3, FS_Subset
<1> HIDE DEF N
<1>7. /\ Cardinality(N) \in Nat /\ B \in [1 .. Cardinality(N) -> N]
      /\ \A i, j \in 1 .. Cardinality(N) : B[i] = B[j] => i = j
      /\ \A x \in N : \E i \in 1 .. Cardinality(N) : B[i] = x
  BY <1>6, SetSeq
<1>8. B \in Seq(Records) /\ DOMAIN B = 1 .. Cardinality(N)
  <2>1. B \in [1 .. Cardinality(N) -> Records]
    BY <1>5, <1>7
  <2> QED BY <1>7, <2>1, FunOf
<1> HIDE DEF A, B
<1>9. \A r : r \in ToSet(B) <=> r \in N
  <2>1. \A i \in DOMAIN B : B[i] \in N
    BY <1>7, <1>8
  <2> QED BY <1>7, <1>8, <2>1 DEF ToSet
<1>10. \A i, j \in DOMAIN B : B[i] = B[j] => i = j
  BY <1>7, <1>8
<1> QED BY <1>1, <1>3, <1>4, <1>8, <1>9, <1>10 DEF N, A

LEMMA MergedOf ==
    ASSUME NEW list \in Seq(Records), NEW recs \in Seq(Records), NEW match \in BOOLEAN
    PROVE  /\ Merged(list, recs, match) \in Seq(Records)
           /\ \A r \in ToSet(Merged(list, recs, match)) : r \in ToSet(list) \/ r \in ToSet(recs)
           /\ ~match => Merged(list, recs, match) = list \o recs
<1>1. CASE ~match
  <2>1. Merged(list, recs, match) = list \o recs
    BY <1>1 DEF Merged
  <2>2. list \o recs \in Seq(Records)
    OBVIOUS
  <2>3. \A r \in ToSet(list \o recs) : r \in ToSet(list) \/ r \in ToSet(recs)
    BY ConcatOf
  <2> QED BY <2>1, <2>2, <2>3
<1>2. CASE match
  <2>1. PICK A, B \in Seq(Records) :
              /\ Merged(list, recs, TRUE) = A \o B /\ DOMAIN A = DOMAIN list
              /\ \A i \in DOMAIN list : A[i] = Replaced(list[i], recs)
              /\ \A r : r \in ToSet(B) <=> r \in NewRecords(list, recs)
              /\ \A i, j \in DOMAIN B : B[i] = B[j] => i = j
    BY MergedParts, Zenon
  <2>0. Merged(list, recs, match) = A \o B
    BY <1>2, <2>1 DEF Merged
  <2>2. \A r \in ToSet(A) : r \in ToSet(list) \/ r \in ToSet(recs)
    <3> SUFFICES ASSUME NEW r \in ToSet(A) PROVE r \in ToSet(list) \/ r \in ToSet(recs)
      OBVIOUS
    <3>1. PICK i \in DOMAIN A : r = A[i]
      BY SeqFacts
    <3>2. list[i] \in Records /\ list[i] \in ToSet(list)
      BY <2>1, SeqFacts
    <3>3. r = Replaced(list[i], recs)
      BY <2>1, <3>1
    <3> QED BY <3>2, <3>3, ReplacedOf
  <2>3. \A r \in ToSet(B) : r \in ToSet(recs)
    BY <2>1 DEF NewRecords
  <2>4. A \o B \in Seq(Records)
    OBVIOUS
  <2>5. \A r \in ToSet(A \o B) : r \in ToSet(A) \/ r \in ToSet(B)
    BY ConcatOf
  <2> QED BY <1>2, <2>0, <2>2, <2>3, <2>4, <2>5
<1> QED BY <1>1, <1>2

LEMMA DoOf ==
    ASSUME NEW step \in Steps, NEW a \in Seq(Action)
    PROVE  /\ Do(step, a) \in Seq(Entry) /\ DOMAIN Do(step, a) = DOMAIN a /\ Len(Do(step, a)) = Len(a)
           /\ \A i \in DOMAIN a : Do(step, a)[i].step = step /\ Do(step, a)[i].sys = a[i].sys
                                  /\ Do(step, a)[i].typ = a[i].typ
<1>1. Len(a) \in Nat /\ DOMAIN a = 1 .. Len(a) /\ \A i \in DOMAIN a : a[i] \in Action
  BY SeqFacts
<1>2. \A i \in DOMAIN a : [step |-> step, sys |-> a[i].sys, typ |-> a[i].typ, chk |-> a[i].chk] \in Entry
  BY <1>1 DEF Action, Entry
<1>3. Do(step, a) \in [1 .. Len(a) -> Entry]
  BY <1>1, <1>2 DEF Do
<1>4. Do(step, a) \in Seq(Entry) /\ DOMAIN Do(step, a) = DOMAIN a /\ Len(Do(step, a)) = Len(a)
  BY <1>1, <1>3, FunOf
<1>5. \A i \in DOMAIN a : Do(step, a)[i] =
         [step |-> step, sys |-> a[i].sys, typ |-> a[i].typ, chk |-> a[i].chk]
  BY DEF Do
<1> QED BY <1>4, <1>5

(* The entries of a run: pulls up to m, pushes up to n, then compares. *)
Planned(r, A, m, n) ==
    /\ m \in Nat /\ n \in Nat /\ A \in Seq(Entry)
    /\ \A i \in DOMAIN A :
          /\ A[i].step = "pull" <=> i <= m
          /\ A[i].step = "push" <=> i > m /\ i <= n
          /\ i <= m => /\ i \in DOMAIN r.pulls
                       /\ A[i].sys = r.pulls[i].sys /\ A[i].typ = r.pulls[i].typ
          /\ i > m /\ i <= n => \E j \in DOMAIN r.pushes :
                A[i].sys = r.pushes[j].sys /\ A[i].typ = r.pushes[j].typ
    /\ \A j \in DOMAIN r.pushes : \E i \in DOMAIN A :
          A[i].step = "push" /\ A[i].sys = r.pushes[j].sys /\ A[i].typ = r.pushes[j].typ

LEMMA ActionsOf ==
    ASSUME NEW r \in Runs
    PROVE  \E m, n : Planned(r, Actions(r), m, n)
<1> DEFINE P == Do("pull", r.pulls)
           Q == Do("push", r.pushes)
           C == Do("compare", r.compares)
           PQ == P \o Q
           A == PQ \o C
           m == Len(P)
           n == Len(PQ)
<1>1. r.pulls \in Seq(Action) /\ r.pushes \in Seq(Action) /\ r.compares \in Seq(Action)
  BY DataManAssumption DEF OptionSets
<1>2. "pull" \in Steps /\ "push" \in Steps /\ "compare" \in Steps
  BY DEF Steps
<1>3. /\ P \in Seq(Entry) /\ DOMAIN P = DOMAIN r.pulls
      /\ \A i \in DOMAIN P : P[i].step = "pull" /\ P[i].sys = r.pulls[i].sys /\ P[i].typ = r.pulls[i].typ
  BY <1>1, <1>2, DoOf
<1>4. /\ Q \in Seq(Entry) /\ DOMAIN Q = DOMAIN r.pushes
      /\ \A i \in DOMAIN Q : Q[i].step = "push" /\ Q[i].sys = r.pushes[i].sys /\ Q[i].typ = r.pushes[i].typ
  BY <1>1, <1>2, DoOf
<1>5. C \in Seq(Entry) /\ \A i \in DOMAIN C : C[i].step = "compare"
  BY <1>1, <1>2, DoOf
<1>6. A = Actions(r)
  BY DEF Actions
<1> HIDE DEF P, Q, C
<1>7. /\ PQ \in Seq(Entry) /\ m \in Nat
      /\ \A i \in DOMAIN P : i <= m /\ i \in DOMAIN PQ /\ PQ[i] = P[i]
      /\ \A i \in DOMAIN Q : m + i \in DOMAIN PQ /\ PQ[m + i] = Q[i]
      /\ \A i \in DOMAIN PQ : i \in DOMAIN P \/ (i > m /\ i - m \in DOMAIN Q /\ PQ[i] = Q[i - m])
  BY <1>3, <1>4, ConcatOf
<1> HIDE DEF PQ, m
<1>8. /\ A \in Seq(Entry) /\ n \in Nat
      /\ \A i \in DOMAIN PQ : i <= n /\ i \in DOMAIN A /\ A[i] = PQ[i]
      /\ \A i \in DOMAIN A : i \in DOMAIN PQ \/ (i > n /\ i - n \in DOMAIN C /\ A[i] = C[i - n])
  BY <1>5, <1>7, ConcatOf
<1>9. m <= n
  <2>1. n = Len(P) + Len(Q) /\ Len(P) \in Nat /\ Len(Q) \in Nat
    BY <1>3, <1>4 DEF PQ
  <2> QED BY <2>1 DEF m
<1> HIDE DEF A, n
<1>10. ASSUME NEW i \in DOMAIN A
       PROVE  \/ /\ i \in Nat /\ i <= m /\ i \in DOMAIN r.pulls /\ A[i].step = "pull"
                 /\ A[i].sys = r.pulls[i].sys /\ A[i].typ = r.pulls[i].typ
              \/ /\ i \in Nat /\ i > m /\ i <= n /\ A[i].step = "push"
                 /\ \E j \in DOMAIN r.pushes :
                       A[i].sys = r.pushes[j].sys /\ A[i].typ = r.pushes[j].typ
              \/ i \in Nat /\ i > m /\ i > n /\ A[i].step = "compare"
  <2>0. i \in Nat
    BY <1>8, SeqFacts
  <2>1. CASE i \in DOMAIN P
    BY <1>3, <1>7, <1>8, <2>0, <2>1
  <2>2. CASE i \in DOMAIN PQ /\ i \notin DOMAIN P
    <3>1. i > m /\ i - m \in DOMAIN Q /\ A[i] = Q[i - m] /\ i <= n
      BY <1>7, <1>8, <2>2
    <3> QED BY <1>4, <2>0, <3>1
  <2>3. CASE i \notin DOMAIN PQ
    <3>1. i > n /\ A[i].step = "compare"
      BY <1>5, <1>8, <2>3
    <3>2. i > m
      BY <1>7, <1>8, <1>9, <2>0, <3>1
    <3> QED BY <2>0, <3>1, <3>2
  <2> QED BY <2>1, <2>2, <2>3
<1>11. ASSUME NEW j \in DOMAIN r.pushes
       PROVE  \E i \in DOMAIN A :
                A[i].step = "push" /\ A[i].sys = r.pushes[j].sys /\ A[i].typ = r.pushes[j].typ
  <2>1. m + j \in DOMAIN A /\ A[m + j] = Q[j] /\ j \in DOMAIN Q
    BY <1>4, <1>7, <1>8
  <2> QED BY <1>4, <2>1
<1>12. Planned(r, A, m, n)
  <2>1. \A i \in DOMAIN A : i <= m => i \in DOMAIN r.pulls /\ A[i].step = "pull"
                                      /\ A[i].sys = r.pulls[i].sys /\ A[i].typ = r.pulls[i].typ
    BY <1>7, <1>10
  <2>2. \A i \in DOMAIN A : i > m /\ i <= n => A[i].step = "push" /\ \E j \in DOMAIN r.pushes :
                A[i].sys = r.pushes[j].sys /\ A[i].typ = r.pushes[j].typ
    BY <1>7, <1>8, <1>10
  <2>3. \A i \in DOMAIN A : (A[i].step = "pull" => i <= m) /\ (A[i].step = "push" => i > m /\ i <= n)
    BY <1>10
  <2> QED BY <1>7, <1>8, <1>11, <2>1, <2>2, <2>3 DEF Planned
<1> QED BY <1>6, <1>12

LEMMA FetchedOf ==
    ASSUME TypeOK, NEW sys, NEW typ, NEW res, Fetched(sys, typ, res)
    PROVE  /\ res.recs \in Seq(Records) /\ sys \in Systems /\ typ \in Types
           /\ \A r \in ToSet(res.recs) : r.typ = typ
           /\ <<sys, typ>> # <<"Sf", "C">> =>
                \A i, j \in DOMAIN res.recs : res.recs[i].key = res.recs[j].key => i = j
<1>1. sys \in Systems /\ typ \in Types /\ (res.recs = <<>> \/ res.recs = TableRows(sys, typ))
  BY DEF Fetched
<1>2. CASE res.recs = <<>>
  <2>1. res.recs \in Seq(Records) /\ DOMAIN res.recs = {} /\ ToSet(res.recs) = {}
    BY <1>2 DEF ToSet
  <2> QED BY <1>1, <2>1
<1>3. CASE res.recs = TableRows(sys, typ) /\ <<sys, typ>> = <<"Sf", "C">>
  <2>1. res.recs = AccountRows /\ typ = "C"
    BY <1>3 DEF TableRows
  <2>2. res.recs \in Seq(Records) /\ \A i \in DOMAIN res.recs : res.recs[i].typ = typ
    <3>1. AccountRows \in Seq(Records) /\ \A i \in DOMAIN AccountRows : AccountRows[i].typ = "C"
      BY AccountRowsOf
    <3> QED BY <2>1, <3>1
  <2>3. \A r \in ToSet(res.recs) : r.typ = typ
    BY <2>2 DEF ToSet
  <2> QED BY <1>1, <1>3, <2>2, <2>3
<1>4. CASE res.recs = TableRows(sys, typ) /\ <<sys, typ>> # <<"Sf", "C">>
  <2>1. res.recs = Rows(sys, typ)
    BY <1>4 DEF TableRows
  <2>2. /\ res.recs \in Seq(Records) /\ \A i \in DOMAIN res.recs : res.recs[i].typ = typ
        /\ \A i, j \in DOMAIN res.recs : res.recs[i].key = res.recs[j].key => i = j
    <3>1. /\ Rows(sys, typ) \in Seq(Records)
          /\ \A i \in DOMAIN Rows(sys, typ) : Rows(sys, typ)[i].typ = typ
          /\ \A i, j \in DOMAIN Rows(sys, typ) : Rows(sys, typ)[i].key = Rows(sys, typ)[j].key => i = j
      BY <1>1, RowsOf
    <3> QED BY <2>1, <3>1
  <2>3. \A r \in ToSet(res.recs) : r.typ = typ
    BY <2>2 DEF ToSet
  <2> QED BY <1>1, <2>2, <2>3
<1> QED BY <1>1, <1>2, <1>3, <1>4

LEMMA PulledOf ==
    ASSUME NEW recs \in Seq(Records), NEW k, NEW before
    PROVE  \/ /\ Pulled(recs, k, before) = before
              /\ \A r \in ToSet(recs) : r.key # k
           \/ \E r \in ToSet(recs) : r \in Records /\ r.key = k /\ Pulled(recs, k, before) = r.val
<1>1. CASE \E r \in ToSet(recs) : r.key = k
  <2> DEFINE q == CHOOSE r \in ToSet(recs) : r.key = k
  <2>1. q \in ToSet(recs) /\ q.key = k
    BY <1>1
  <2>2. q \in Records
    BY <2>1, SeqFacts
  <2>3. Pulled(recs, k, before) = q.val
    BY <1>1 DEF Pulled
  <2> HIDE DEF q
  <2> QED BY <2>1, <2>2, <2>3
<1>2. CASE ~\E r \in ToSet(recs) : r.key = k
  BY <1>2 DEF Pulled
<1> QED BY <1>1, <1>2

LEMMA TypeInit == Init => TypeOK
<1> SUFFICES ASSUME Init PROVE TypeOK
  OBVIOUS
<1>1. /\ accounts = StartAccounts /\ refs = [i \in DOMAIN StartAccounts |-> 0]
      /\ stored = Start /\ run \in Runs /\ todo = <<>> /\ memory = [t \in Types |-> <<>>]
      /\ at = 0
      /\ want = [t \in Types |-> Nothing] /\ wrote = [x \in Tables |-> Nothing]
  BY DEF Init
<1>2. accounts \in Seq([key : Keys, val : Values])
  BY <1>1, DataManAssumption
<1>3. refs \in Seq(Nat) /\ Len(refs) = Len(accounts)
  <2>1. Len(StartAccounts) \in Nat /\ DOMAIN StartAccounts = 1 .. Len(StartAccounts)
    BY <1>1, <1>2
  <2>2. refs \in [1 .. Len(StartAccounts) -> Nat]
    BY <1>1, <2>1
  <2> QED BY <1>1, <2>1, <2>2, FunOf
<1>4. Nothing \in [Keys -> Values \cup {None}]
  BY DEF Nothing
<1>5. <<>> \in Seq(Records) /\ <<>> \in Seq(Entry)
  OBVIOUS
<1>6. stored \in [Tables -> [Keys -> Data \cup {None}]]
  BY <1>1, DataManAssumption
<1> QED BY <1>1, <1>2, <1>3, <1>4, <1>5, <1>6 DEF TypeOK

LEMMA RestartTypes ==
    ASSUME TypeOK, Restart, run' \in Runs, todo' \in Seq(Entry)
    PROVE  TypeOK'
<1>1. /\ UNCHANGED <<accounts, refs, stored>> /\ memory' = [t \in Types |-> <<>>] /\ at' = 0
      /\ want' = [t \in Types |-> Nothing] /\ wrote' = [x \in Tables |-> Nothing]
  BY DEF Restart
<1>2. Nothing \in [Keys -> Values \cup {None}]
  BY DEF Nothing
<1>3. <<>> \in Seq(Records)
  OBVIOUS
<1> QED BY <1>1, <1>2, <1>3 DEF TypeOK

LEMMA AfterTypes ==
    ASSUME TypeOK, todo # <<>>, NEW err, AfterRecord(err)
    PROVE  todo' \in Seq(Entry) /\ at' \in Nat
<1>1. Tail(todo) \in Seq(Entry) /\ todo \in Seq(Entry) /\ at \in Nat
  BY TodoOf DEF TypeOK
<1> QED BY <1>1 DEF AfterRecord

LEMMA PullTypes ==
    ASSUME TypeOK, NEW sys, NEW typ, NEW list, NEW match, NEW res, PullStep(sys, typ, list, match, res)
    PROVE  TypeOK'
<1>1. /\ res.recs \in Seq(Records) /\ typ \in Types /\ list \in Types /\ match \in BOOLEAN
      /\ todo # <<>>
  BY FetchedOf DEF PullStep, Now
<1>2. /\ memory' = [memory EXCEPT ![list] = Merged(@, res.recs, match)]
      /\ todo' = Tail(todo)
      /\ want' = [want EXCEPT ![typ] = [k \in Keys |-> Pulled(res.recs, k, @[k])]]
      /\ UNCHANGED <<stored, run, at, wrote, accounts, refs>>
  BY DEF PullStep, PullInto, Fetched
<1>3. todo' \in Seq(Entry)
  BY <1>1, <1>2, TodoOf
<1>4. memory' \in [Types -> Seq(Records)]
  <2>1. memory[list] \in Seq(Records) /\ memory \in [Types -> Seq(Records)]
    BY <1>1 DEF TypeOK
  <2>2. Merged(memory[list], res.recs, match) \in Seq(Records)
    BY <1>1, <2>1, MergedOf
  <2> QED BY <1>1, <1>2, <2>1, <2>2
<1>5. want' \in [Types -> [Keys -> Values \cup {None}]]
  <2>1. want \in [Types -> [Keys -> Values \cup {None}]] /\ want[typ] \in [Keys -> Values \cup {None}]
    BY <1>1 DEF TypeOK
  <2>2. ASSUME NEW k \in Keys PROVE Pulled(res.recs, k, want[typ][k]) \in Values \cup {None}
    <3>1. CASE Pulled(res.recs, k, want[typ][k]) = want[typ][k]
      BY <2>1, <3>1
    <3>2. CASE \E r \in ToSet(res.recs) : r \in Records /\ Pulled(res.recs, k, want[typ][k]) = r.val
      BY <3>2 DEF Records
    <3> QED BY <1>1, <3>1, <3>2, PulledOf
  <2>3. [k \in Keys |-> Pulled(res.recs, k, want[typ][k])] \in [Keys -> Values \cup {None}]
    BY <2>2
  <2>4. want' = [want EXCEPT ![typ] = [k \in Keys |-> Pulled(res.recs, k, want[typ][k])]]
    BY <1>2
  <2> HIDE DEF Pulled
  <2> QED BY <1>1, <2>1, <2>3, <2>4
<1> QED BY <1>2, <1>3, <1>4, <1>5 DEF TypeOK

LEMMA WrittenTypes ==
    ASSUME TypeOK, NEW sys \in Systems, NEW typ \in Types, Rec \in Records, NEW applied, NEW sf \in Nat,
           Written(sys, typ, applied, sf)
    PROVE  /\ stored' \in [Tables -> [Keys -> Data \cup {None}]]
           /\ wrote' \in [Tables -> [Keys -> Values \cup {None}]]
<1>1. <<sys, typ>> \in Tables
  BY DEF Tables, Systems
<1>2. Rec.key \in Keys /\ Rec.val \in Values /\ [val |-> Rec.val, sf |-> sf] \in Data
  BY DEF Records, Data
<1>3. CASE applied
  <2>1. /\ stored' = [stored EXCEPT ![<<sys, typ>>][Rec.key] = [val |-> Rec.val, sf |-> sf]]
        /\ wrote' = [wrote EXCEPT ![<<sys, typ>>][Rec.key] = Rec.val]
    BY <1>3 DEF Written
  <2>2. /\ stored \in [Tables -> [Keys -> Data \cup {None}]]
        /\ wrote \in [Tables -> [Keys -> Values \cup {None}]]
    BY DEF TypeOK
  <2> DEFINE x == <<sys, typ>>
             d == [val |-> Rec.val, sf |-> sf]
             D == Data \cup {None}
             V == Values \cup {None}
  <2>3. x \in Tables /\ d \in D /\ Rec.val \in V
    BY <1>1, <1>2
  <2>4. /\ stored' = [stored EXCEPT ![x][Rec.key] = d] /\ wrote' = [wrote EXCEPT ![x][Rec.key] = Rec.val]
        /\ stored \in [Tables -> [Keys -> D]] /\ wrote \in [Tables -> [Keys -> V]]
    BY <2>1, <2>2
  <2> HIDE DEF x, d, D, V
  <2>5. stored' \in [Tables -> [Keys -> D]] /\ wrote' \in [Tables -> [Keys -> V]]
    BY <1>2, <2>3, <2>4
  <2> QED BY <2>5 DEF D, V
<1>4. CASE ~applied
  BY <1>4 DEF Written, TypeOK
<1> QED BY <1>3, <1>4

LEMMA KeptIdType ==
    ASSUME TypeOK, NEW sys \in Systems, Rec \in Records
    PROVE  KeptId(sys) \in Nat
<1>1. <<sys, "C">> \in Tables /\ Rec.key \in Keys
  BY DEF Tables, Systems, Types, Records
<1>2. stored[<<sys, "C">>][Rec.key] \in Data \cup {None}
  BY <1>1 DEF TypeOK
<1> QED BY <1>2 DEF KeptId, Data, NoId

LEMMA PushTypes ==
    ASSUME TypeOK, NEW sys, NEW typ, NEW applied, NEW sf, NEW err, PushStep(sys, typ, applied, sf, err)
    PROVE  TypeOK' /\ sf \in Nat /\ Rec \in Records
<1>1. Rec \in Records /\ sys \in Systems /\ typ \in Types /\ todo # <<>>
  BY RecOf DEF PushStep, Pushing, Now
<1>2. sf \in Nat
  <2>1. Rec.sf \in Nat /\ NoId \in Nat
    BY <1>1 DEF Records, NoId
  <2> QED BY <1>1, <2>1, KeptIdType DEF PushStep
<1>3. Written(sys, typ, applied, sf) /\ AfterRecord(err) /\ UNCHANGED <<accounts, refs, run, memory, want>>
  BY DEF PushStep
<1>4. /\ stored' \in [Tables -> [Keys -> Data \cup {None}]]
      /\ wrote' \in [Tables -> [Keys -> Values \cup {None}]]
  BY <1>1, <1>2, <1>3, WrittenTypes
<1>5. todo' \in Seq(Entry) /\ at' \in Nat
  BY <1>1, <1>3, AfterTypes
<1> QED BY <1>1, <1>2, <1>3, <1>4, <1>5 DEF TypeOK

(* A client that is pushed onto Salesforce: its record, and the accounts. *)
LEMMA SfPushOf ==
    ASSUME TypeOK, NEW o, SfPushStep(o)
    PROVE  /\ Rec \in Records /\ Rec = memory["C"][at + 1] /\ at + 1 \in DOMAIN memory["C"]
           /\ IdAfterUpsert(Rec, o) \in Nat
           /\ memory' \in [Types -> Seq(Records)]
           /\ memory'["R"] = memory["R"] /\ DOMAIN memory'["C"] = DOMAIN memory["C"]
           /\ \A i \in DOMAIN memory["C"] :
                /\ memory'["C"][i].key = memory["C"][i].key /\ memory'["C"][i].val = memory["C"][i].val
                /\ memory'["C"][i].typ = memory["C"][i].typ
                /\ i # at + 1 => memory'["C"][i] = memory["C"][i]
           /\ memory'["C"][at + 1].sf = IdAfterUpsert(Rec, o)
<1> DEFINE M == memory["C"]
           id == IdAfterUpsert(Rec, o)
           n == at + 1
<1>1. Pushing("Sf", "C") /\ memory' = [memory EXCEPT !["C"][n].sf = id]
  BY DEF SfPushStep
<1>2. Rec \in Records /\ Rec = M[n] /\ n \in DOMAIN M /\ M \in Seq(Records)
  BY <1>1, RecOf
<1>3. accounts \in Seq([key : Keys, val : Values]) /\ memory \in [Types -> Seq(Records)]
  BY DEF TypeOK
<1>4. id \in Nat
  <2>1. Len(accounts) \in Nat
    BY <1>3
  <2> QED BY <1>2, <2>1 DEF IdAfterUpsert, NoId, Records
<1> HIDE DEF id, n
<1>5. [M[n] EXCEPT !.sf = id] \in Records /\ M[n] \in Records
  BY <1>2, <1>4 DEF Records
<1>6. "C" \in Types /\ "R" \in Types
  BY DEF Types
<1>7. memory'["C"] = [M EXCEPT ![n] = [M[n] EXCEPT !.sf = id]] /\ memory'["R"] = memory["R"]
      /\ memory' = [memory EXCEPT !["C"] = memory'["C"]]
  BY <1>1, <1>3, <1>6
<1> HIDE DEF M
<1> DEFINE M2 == memory'["C"]
           q == [M[n] EXCEPT !.sf = id]
<1>8. M2 = [M EXCEPT ![n] = q]
  BY <1>7
<1>9. q.sf = id /\ q.key = M[n].key /\ q.val = M[n].val /\ q.typ = M[n].typ /\ q \in Records
  BY <1>5 DEF Records
<1> HIDE DEF M2, q
<1>10. DOMAIN M2 = DOMAIN M /\ M2 \in Seq(Records)
  BY <1>2, <1>8, <1>9
<1>11. \A i \in DOMAIN M : M2[i] = IF i = n THEN q ELSE M[i]
  BY <1>2, <1>8
<1>12. \A i \in DOMAIN M :
          /\ M2[i].key = M[i].key /\ M2[i].val = M[i].val /\ M2[i].typ = M[i].typ
          /\ i # n => M2[i] = M[i]
  BY <1>9, <1>11
<1>13. M2[n].sf = id
  BY <1>2, <1>9, <1>11
<1>14. memory' \in [Types -> Seq(Records)]
  BY <1>3, <1>6, <1>7, <1>10 DEF M2
<1> QED BY <1>2, <1>4, <1>7, <1>10, <1>12, <1>13, <1>14 DEF M2, M, n, id

LEMMA SfPushTypes ==
    ASSUME TypeOK, NEW o, SfPushStep(o)
    PROVE  TypeOK'
<1>1. Rec \in Records /\ memory' \in [Types -> Seq(Records)]
  BY SfPushOf
<1> DEFINE A == [key : Keys, val : Values]
           a == Account(Rec)
<1>2. accounts \in Seq(A) /\ refs \in Seq(Nat) /\ Len(refs) = Len(accounts)
  BY DEF TypeOK
<1>3. a \in A
  BY <1>1 DEF Account, Records
<1>4. \/ UNCHANGED <<accounts, refs>>
      \/ accounts' = [accounts EXCEPT ![Rec.sf] = a] /\ UNCHANGED refs
      \/ accounts' = Append(accounts, a) /\ refs' = Append(refs, 0)
  BY DEF SfPushStep
<1> HIDE DEF A, a
<1>5. accounts' \in Seq(A) /\ refs' \in Seq(Nat) /\ Len(refs') = Len(accounts')
  <2>1. CASE UNCHANGED <<accounts, refs>>
    BY <1>2, <2>1
  <2>2. CASE accounts' = [accounts EXCEPT ![Rec.sf] = a] /\ UNCHANGED refs
    <3> DEFINE id == Rec.sf
    <3>1. accounts' = [accounts EXCEPT ![id] = a]
      BY <2>2
    <3> HIDE DEF id
    <3>2. accounts' \in Seq(A) /\ Len(accounts') = Len(accounts)
      <4>1. Len(accounts) \in Nat /\ accounts \in [1 .. Len(accounts) -> A]
        BY <1>2
      <4>2. accounts' \in [1 .. Len(accounts) -> A]
        BY <1>3, <3>1, <4>1
      <4> QED BY <4>1, <4>2, FunOf
    <3> QED BY <1>2, <2>2, <3>2
  <2>3. CASE accounts' = Append(accounts, a) /\ refs' = Append(refs, 0)
    <3>1. accounts' \in Seq(A) /\ Len(accounts') = Len(accounts) + 1
      BY <1>2, <1>3, <2>3
    <3>2. refs' \in Seq(Nat) /\ Len(refs') = Len(refs) + 1
      <4>1. 0 \in Nat /\ refs \in Seq(Nat) /\ refs' = Append(refs, 0)
        BY <1>2, <2>3
      <4> QED BY <4>1, AppendProperties
    <3> QED BY <1>2, <3>1, <3>2
  <2> QED BY <1>4, <2>1, <2>2, <2>3
<1>6. wrote' \in [Tables -> [Keys -> Values \cup {None}]]
  <2>1. <<"Sf", "C">> \in Tables
    BY DEF Tables, Types
  <2>2. wrote \in [Tables -> [Keys -> Values \cup {None}]] /\ Rec.key \in Keys /\ Rec.val \in Values
    BY <1>1 DEF TypeOK, Records
  <2>3. wrote' = [wrote EXCEPT ![<<"Sf", "C">>][Rec.key] = Rec.val] \/ wrote' = wrote
    BY DEF SfPushStep
  <2> DEFINE x == <<"Sf", "C">>
             V == Values \cup {None}
             k == Rec.key
             v == Rec.val
  <2>4. /\ x \in Tables /\ wrote \in [Tables -> [Keys -> V]] /\ k \in Keys /\ v \in V
        /\ wrote' = [wrote EXCEPT ![x][k] = v] \/ wrote' = wrote
    BY <2>1, <2>2, <2>3
  <2> HIDE DEF x, V, k, v
  <2>5. wrote' \in [Tables -> [Keys -> V]]
    BY <2>4
  <2> QED BY <2>5 DEF V
<1>7. todo' \in Seq(Entry) /\ at' \in Nat
  <2>1. todo # <<>>
    BY DEF SfPushStep, Pushing, Now
  <2>2. CASE UNCHANGED <<at, todo>>
    BY <2>2 DEF TypeOK
  <2>3. CASE AfterRecord(o # "done")
    BY <2>1, <2>3, AfterTypes
  <2> QED BY <2>2, <2>3 DEF SfPushStep
<1>8. UNCHANGED <<stored, run, want>>
  BY DEF SfPushStep
<1> QED BY <1>1, <1>5, <1>6, <1>7, <1>8 DEF TypeOK, A

LEMMA RefTypes ==
    ASSUME TypeOK, NEW o, RefStep(o)
    PROVE  TypeOK'
<1>1. todo' \in Seq(Entry) /\ at' \in Nat
  BY AfterTypes DEF RefStep, Pushing, Now
<1>2. refs' \in Seq(Nat) /\ Len(refs') = Len(accounts)
  <2>1. refs \in Seq(Nat) /\ Len(refs) = Len(accounts)
    BY DEF TypeOK
  <2>2. CASE refs' = refs
    BY <2>1, <2>2
  <2>3. CASE refs' = [refs EXCEPT ![Rec.sf] = @ + 1]
    <3>1. Rec.sf \in DOMAIN refs => refs[Rec.sf] + 1 \in Nat
      <4>1. Rec.sf \in DOMAIN refs => refs[Rec.sf] \in Nat
        BY <2>1, SeqFacts
      <4> QED BY <4>1
    <3> DEFINE id == Rec.sf
               c == refs[Rec.sf] + 1
    <3>2. refs' = [refs EXCEPT ![id] = c] /\ (id \in DOMAIN refs => c \in Nat)
      BY <2>3, <3>1
    <3> HIDE DEF id, c
    <3>3. CASE id \in DOMAIN refs
      BY <2>1, <3>2, <3>3
    <3>4. CASE id \notin DOMAIN refs
      <4>1. refs' = refs
        BY <2>1, <3>2, <3>4
      <4> QED BY <2>1, <4>1
    <3> QED BY <3>3, <3>4
  <2> QED BY <2>2, <2>3 DEF RefStep
<1>3. UNCHANGED <<accounts, stored, run, memory, want, wrote>>
  BY DEF RefStep
<1> QED BY <1>1, <1>2, <1>3 DEF TypeOK

(* A reservation that is pushed onto AssCache: the rows of it and of its   *)
(* new guests, who are put behind the clients of the memory.               *)
LEMMA NewClientsOf ==
    ASSUME TypeOK, NEW made \in SUBSET Keys, NEW data \in [made -> Values]
    PROVE  \E N \in Seq(Records) :
              /\ WithGuests(made, data) = [memory EXCEPT !["C"] = @ \o N]
              /\ \A i \in DOMAIN N : N[i].key \in made /\ ~InMemory(N[i].key)
                                     /\ N[i].sf = NoId /\ N[i].typ = "C"
              /\ \A i, j \in DOMAIN N : N[i].key = N[j].key => i = j
<1> DEFINE G == {h \in made : ~InMemory(h)}
           S == {NewClient(g, data) : g \in G}
           f == [g \in G |-> NewClient(g, data)]
           N == SetToSeq(S)
           n == Cardinality(S)
<1>1. WithGuests(made, data) = [memory EXCEPT !["C"] = @ \o N]
  BY DEF WithGuests
<1>2. IsFiniteSet(G)
  BY FS_Subset, DataManAssumption
<1>3. f \in Surjection(G, S)
  <2>1. f \in [G -> S]
    OBVIOUS
  <2>2. \A x \in S : \E g \in G : f[g] = x
    OBVIOUS
  <2> QED BY <2>1, <2>2 DEF Surjection
<1>4. IsFiniteSet(S)
  BY <1>2, <1>3, FS_Surjection
<1>5. \A q \in S : q \in Records /\ q.key \in made /\ ~InMemory(q.key) /\ q.sf = NoId /\ q.typ = "C"
  <2> SUFFICES ASSUME NEW g \in G
               PROVE  LET q == NewClient(g, data) IN
                      q \in Records /\ q.key \in made /\ ~InMemory(q.key) /\ q.sf = NoId
                      /\ q.typ = "C"
    OBVIOUS
  <2>1. g \in made /\ g \in Keys /\ ~InMemory(g) /\ data[g] \in Values
    OBVIOUS
  <2> QED BY <2>1 DEF NewClient, Records, Types, NoId
<1>6. \A q, r \in S : q.key = r.key => q = r
  BY DEF NewClient
<1> HIDE DEF G, S, f
<1>7. /\ n \in Nat /\ N \in [1 .. n -> S] /\ \A i, j \in 1 .. n : N[i] = N[j] => i = j
  BY <1>4, SetSeq
<1> HIDE DEF N, n
<1>8. N \in [1 .. n -> Records] /\ \A i \in 1 .. n : N[i] \in S
  BY <1>5, <1>7
<1>9. N \in Seq(Records) /\ DOMAIN N = 1 .. n
  BY <1>7, <1>8, FunOf
<1>10. \A i \in DOMAIN N : N[i].key \in made /\ ~InMemory(N[i].key) /\ N[i].sf = NoId
                           /\ N[i].typ = "C"
  BY <1>5, <1>8, <1>9
<1>11. \A i, j \in DOMAIN N : N[i].key = N[j].key => i = j
  BY <1>6, <1>7, <1>8, <1>9
<1> QED BY <1>1, <1>9, <1>10, <1>11

LEMMA SavedRowsOf ==
    ASSUME TypeOK, NEW made \in SUBSET Keys, NEW data \in [made -> Values], Rec \in Records
    PROVE  /\ SavedRows(made, data) \in [Tables -> [Keys -> Data \cup {None}]]
           /\ \A k \in made : SavedRows(made, data)[<<"Ass", "C">>][k] \in Data
                             /\ SavedRows(made, data)[<<"Ass", "C">>][k].sf = NoId
           /\ SavedRows(made, data)[<<"Ass", "R">>][Rec.key] \in Data
           /\ SavedRows(made, data)[<<"Ass", "R">>][Rec.key].val = Rec.val
           /\ \A x \in Tables, k \in Keys :
                \/ SavedRows(made, data)[x][k] = stored[x][k]
                \/ x = <<"Ass", "R">> /\ k = Rec.key
                \/ x = <<"Ass", "C">> /\ k \in made
<1> DEFINE D == Data \cup {None}
           T == Tables
           a == <<"Ass", "R">>
           b == <<"Ass", "C">>
           d == [val |-> Rec.val, sf |-> NoId]
           e == [g \in Keys |-> IF g \in made THEN [val |-> data[g], sf |-> NoId]
                                 ELSE stored[b][g]]
           key == Rec.key
           S == SavedRows(made, data)
<1>1. a \in T /\ b \in T /\ a # b /\ stored \in [T -> [Keys -> D]] /\ key \in Keys
  BY DEF Tables, Types, TypeOK, Records
<1>2. d \in D /\ d \in Data /\ d.val = Rec.val
  BY DEF Records, Data, NoId
<1>3. e \in [Keys -> D]
  <2>1. \A g \in made : [val |-> data[g], sf |-> NoId] \in Data
    BY DEF Data, NoId
  <2> QED BY <1>1, <2>1
<1>4. S = [stored EXCEPT ![a][key] = d, ![b] = [g \in Keys |->
                        IF g \in made THEN [val |-> data[g], sf |-> NoId] ELSE @[g]]]
  BY DEF SavedRows
<1> DEFINE s1 == [stored EXCEPT ![a][key] = d]
<1>5. s1[b] = stored[b] /\ s1 \in [T -> [Keys -> D]]
  <2> HIDE DEF a, b, d, e, D, T, key
  <2> QED BY <1>1, <1>2
<1>6. S = [s1 EXCEPT ![b] = e]
  BY <1>4, <1>5
<1>7. /\ \A k \in made : e[k] \in Data /\ e[k].sf = NoId
      /\ \A k \in Keys : k \notin made => e[k] = stored[b][k]
  <2>1. ASSUME NEW k \in made PROVE e[k] \in Data /\ e[k].sf = NoId
    <3>1. data[k] \in Values /\ k \in Keys
      OBVIOUS
    <3> DEFINE v == data[k]
    <3>2. e[k] = [val |-> v, sf |-> NoId]
      BY <3>1
    <3> HIDE DEF v, e
    <3> QED BY <3>1, <3>2 DEF Data, NoId, v
  <2>2. ASSUME NEW k \in Keys, k \notin made PROVE e[k] = stored[b][k]
    BY <2>2
  <2> QED BY <2>1, <2>2
<1>8. \A x \in T, k \in Keys : s1[x][k] = IF x = a /\ k = key THEN d ELSE stored[x][k]
  <2> HIDE DEF a, b, d, e, D, T, key
  <2> QED BY <1>1, <1>2
<1> HIDE DEF a, b, d, e, D, T, S, key, s1
<1>9. S \in [T -> [Keys -> D]]
  BY <1>1, <1>3, <1>5, <1>6
<1>10. \A x \in T, k \in Keys : S[x][k] = IF x = b THEN e[k] ELSE s1[x][k]
  BY <1>1, <1>3, <1>5, <1>6
<1>11. \A k \in made : S[b][k] \in Data /\ S[b][k].sf = NoId
  BY <1>1, <1>7, <1>10
<1>12. S[a][key] \in Data /\ S[a][key].val = Rec.val
  <2>1. S[a][key] = d
    BY <1>1, <1>8, <1>10
  <2> QED BY <1>2, <2>1
<1>13. \A x \in T, k \in Keys :
          S[x][k] = stored[x][k] \/ (x = a /\ k = key) \/ (x = b /\ k \in made)
  <2> SUFFICES ASSUME NEW x \in T, NEW k \in Keys, ~(x = a /\ k = key), ~(x = b /\ k \in made)
               PROVE  S[x][k] = stored[x][k]
    OBVIOUS
  <2>1. CASE x = b
    <3>1. S[x][k] = e[k] /\ k \notin made
      BY <1>10, <2>1
    <3>2. e[k] = stored[b][k]
      BY <1>7, <3>1
    <3> QED BY <2>1, <3>1, <3>2, Zenon
  <2>2. CASE x # b
    <3>1. S[x][k] = s1[x][k]
      BY <1>10, <2>2
    <3>2. s1[x][k] = stored[x][k]
      BY <1>8
    <3> QED BY <3>1, <3>2, Zenon
  <2> QED BY <2>1, <2>2
<1>14. SavedRows(made, data) \in [Tables -> [Keys -> Data \cup {None}]]
  BY <1>9 DEF S, D, T
<1>15. \A k \in made : SavedRows(made, data)[<<"Ass", "C">>][k] \in Data
                      /\ SavedRows(made, data)[<<"Ass", "C">>][k].sf = NoId
  BY <1>11 DEF S, b
<1>16. SavedRows(made, data)[<<"Ass", "R">>][Rec.key] \in Data
       /\ SavedRows(made, data)[<<"Ass", "R">>][Rec.key].val = Rec.val
  BY <1>12 DEF S, a, key
<1>17. \A x \in Tables, k \in Keys :
          \/ SavedRows(made, data)[x][k] = stored[x][k]
          \/ x = <<"Ass", "R">> /\ k = Rec.key
          \/ x = <<"Ass", "C">> /\ k \in made
  BY <1>13 DEF S, T, a, b, key
<1> QED BY <1>14, <1>15, <1>16, <1>17

(* A row that an UnknownGuest gets has no id. *)
GuestRows(o, made) ==
    \A x \in Tables, k \in Keys :
        \/ stored'[x][k] = stored[x][k]
        \/ x = <<"Ass", "R">> /\ k = Rec.key /\ stored'[x][k] # None
           /\ stored'[x][k].val = Rec.val
        \/ x = <<"Ass", "C">> /\ k \in made /\ stored[x][k] = None /\ stored'[x][k] # None
           /\ stored'[x][k].sf = NoId

NewGuests(N, made) ==
    /\ N \in Seq(Records)
    /\ memory'["C"] = memory["C"] \o N
    /\ \A i \in DOMAIN N : N[i].key \in made /\ ~InMemory(N[i].key)
                           /\ N[i].sf = NoId /\ N[i].typ = "C"
    /\ \A i, j \in DOMAIN N : N[i].key = N[j].key => i = j

LEMMA GuestOf ==
    ASSUME TypeOK, NEW o, NEW made, NEW data, GuestStep(o, made, data)
    PROVE  /\ TypeOK' /\ made \subseteq Keys
           /\ Rec \in Records /\ Rec = memory["R"][at + 1] /\ at + 1 \in DOMAIN memory["R"]
           /\ memory'["R"] = memory["R"]
           /\ \E N : NewGuests(N, made)
           /\ \A k \in made : stored[<<"Ass", "C">>][k] = None
           /\ GuestRows(o, made)
           /\ o # "refused" => stored'[<<"Ass", "R">>][Rec.key] # None
                               /\ stored'[<<"Ass", "R">>][Rec.key].val = Rec.val
           /\ wrote' = IF o = "refused" THEN wrote
                       ELSE [wrote EXCEPT ![<<"Ass", "R">>][Rec.key] = Rec.val]
<1>1. /\ Rec \in Records /\ Rec = memory["R"][at + 1] /\ at + 1 \in DOMAIN memory["R"] /\ todo # <<>>
  BY RecOf DEF GuestStep, Pushing, Now
<1>2. made \in SUBSET Keys /\ data \in [made -> Values]
      /\ \A k \in made : stored[<<"Ass", "C">>][k] = None
  <2>1. Guests[Rec.key] \subseteq Keys
    BY <1>1, DataManAssumption DEF Records
  <2>2. made \subseteq UnknownGuests(Rec.key) /\ data \in [made -> Values]
    BY DEF GuestStep
  <2> QED BY <2>1, <2>2 DEF UnknownGuests
<1>3. "C" \in Types /\ "R" \in Types /\ memory \in [Types -> Seq(Records)]
  BY DEF Types, TypeOK
<1>4. PICK N \in Seq(Records) :
              /\ WithGuests(made, data) = [memory EXCEPT !["C"] = @ \o N]
              /\ \A i \in DOMAIN N : N[i].key \in made /\ ~InMemory(N[i].key)
                                     /\ N[i].sf = NoId /\ N[i].typ = "C"
              /\ \A i, j \in DOMAIN N : N[i].key = N[j].key => i = j
  BY <1>2, NewClientsOf
<1>5. memory' = [memory EXCEPT !["C"] = memory["C"] \o N]
  BY <1>4 DEF GuestStep
<1>6. memory["C"] \in Seq(Records) /\ memory["C"] \o N \in Seq(Records)
  BY <1>3, ConcatOf
<1>7. memory' \in [Types -> Seq(Records)] /\ memory'["C"] = memory["C"] \o N
      /\ memory'["R"] = memory["R"]
  BY <1>3, <1>5, <1>6
<1>8. NewGuests(N, made)
  BY <1>4, <1>7 DEF NewGuests
<1>9. <<"Ass", "R">> \in Tables /\ <<"Ass", "C">> \in Tables /\ Rec.key \in Keys /\ Rec.val \in Values
  BY <1>1 DEF Tables, Types, Records
<1>10. /\ stored' \in [Tables -> [Keys -> Data \cup {None}]] /\ GuestRows(o, made)
       /\ o # "refused" => stored'[<<"Ass", "R">>][Rec.key] # None
                           /\ stored'[<<"Ass", "R">>][Rec.key].val = Rec.val
  <2>1. CASE o = "refused"
    <3>1. stored' = stored
      BY <2>1 DEF GuestStep
    <3> QED BY <2>1, <3>1 DEF TypeOK, GuestRows
  <2>2. CASE o # "refused"
    <3> DEFINE S == SavedRows(made, data)
    <3>1. stored' = S
      BY <2>2 DEF GuestStep
    <3>2. /\ S \in [Tables -> [Keys -> Data \cup {None}]]
          /\ \A k \in made : S[<<"Ass", "C">>][k] \in Data /\ S[<<"Ass", "C">>][k].sf = NoId
          /\ S[<<"Ass", "R">>][Rec.key] \in Data /\ S[<<"Ass", "R">>][Rec.key].val = Rec.val
          /\ \A x \in Tables, k \in Keys :
                \/ S[x][k] = stored[x][k]
                \/ x = <<"Ass", "R">> /\ k = Rec.key
                \/ x = <<"Ass", "C">> /\ k \in made
      BY <1>1, <1>2, SavedRowsOf
    <3> HIDE DEF S
    <3>3. \A d \in Data : d # None
      BY DataManAssumption
    <3>5. GuestRows(o, made)
      BY <1>2, <3>1, <3>2, <3>3 DEF GuestRows
    <3>6. stored'[<<"Ass", "R">>][Rec.key] # None /\ stored'[<<"Ass", "R">>][Rec.key].val = Rec.val
      BY <3>1, <3>2, <3>3
    <3> QED BY <3>1, <3>2, <3>5, <3>6
  <2> QED BY <2>1, <2>2
<1>11. wrote' = IF o = "refused" THEN wrote
                ELSE [wrote EXCEPT ![<<"Ass", "R">>][Rec.key] = Rec.val]
  BY DEF GuestStep
<1>12. wrote' \in [Tables -> [Keys -> Values \cup {None}]]
  <2> DEFINE x == <<"Ass", "R">>
             V == Values \cup {None}
             k == Rec.key
             v == Rec.val
  <2>1. /\ x \in Tables /\ wrote \in [Tables -> [Keys -> V]] /\ k \in Keys /\ v \in V
        /\ wrote' = [wrote EXCEPT ![x][k] = v] \/ wrote' = wrote
    BY <1>9, <1>11 DEF TypeOK
  <2> HIDE DEF x, V, k, v
  <2>2. wrote' \in [Tables -> [Keys -> V]]
    BY <2>1
  <2> QED BY <2>2 DEF V
<1>13. todo' \in Seq(Entry) /\ at' \in Nat
  BY <1>1, AfterTypes DEF GuestStep
<1>14. UNCHANGED <<accounts, refs, run, want>>
  BY DEF GuestStep
<1>15. TypeOK'
  BY <1>7, <1>10, <1>12, <1>13, <1>14 DEF TypeOK
<1> QED BY <1>1, <1>2, <1>7, <1>8, <1>10, <1>11, <1>15

(* A change by a user: the keys and ids stay. *)
LEMMA ChangeOf ==
    ASSUME TypeOK, NEW sys \in Systems, NEW typ \in Types, NEW key \in Keys, Change(sys, typ, key)
    PROVE  /\ TypeOK' /\ DOMAIN accounts' = DOMAIN accounts
           /\ \A i \in DOMAIN accounts : accounts'[i].key = accounts[i].key
           /\ <<sys, typ>> # <<"Sf", "C">> => UNCHANGED accounts
           /\ \A x \in Tables, k \in Keys :
                /\ stored'[x][k] = None <=> stored[x][k] = None
                /\ stored'[x][k].sf = stored[x][k].sf
                /\ x # <<sys, typ>> => stored'[x][k] = stored[x][k]
           /\ UNCHANGED <<refs, blind, progVars, want, wrote, failed, differs, forgotten,
                           unaware, created, refStep>>
           /\ touched' = touched \cup {<<sys, typ>>} /\ exit = "running"
<1>1. /\ UNCHANGED <<refs, blind, progVars, want, wrote, failed, differs, forgotten,
                      unaware, created, refStep>>
      /\ touched' = touched \cup {<<sys, typ>>} /\ exit = "running"
  BY DEF Change, sfVars
<1>2. CASE <<sys, typ>> = <<"Sf", "C">>
  <2>1. PICK val \in Values, i \in DOMAIN accounts : accounts' = [accounts EXCEPT ![i].val = val]
    BY <1>2 DEF Change
  <2>2. UNCHANGED stored
    BY <1>2 DEF Change
  <2> DEFINE A == [key : Keys, val : Values]
             a == [accounts[i] EXCEPT !.val = val]
  <2>3. accounts \in Seq(A) /\ accounts[i] \in A /\ Len(refs) = Len(accounts)
    <3>1. accounts \in Seq(A) /\ Len(refs) = Len(accounts)
      BY DEF TypeOK
    <3> HIDE DEF A
    <3> QED BY <3>1, SeqFacts
  <2>4. a \in A /\ a.key = accounts[i].key
    BY <2>3
  <2>5. accounts' = [accounts EXCEPT ![i] = a]
    BY <2>1
  <2> HIDE DEF A, a
  <2>6. accounts' \in Seq(A) /\ DOMAIN accounts' = DOMAIN accounts /\ Len(accounts') = Len(accounts)
    BY <2>3, <2>4, <2>5
  <2>7. \A j \in DOMAIN accounts : accounts'[j] = IF j = i THEN a ELSE accounts[j]
    BY <2>3, <2>5
  <2>8. \A j \in DOMAIN accounts : accounts'[j].key = accounts[j].key
    BY <2>4, <2>7
  <2>9. TypeOK'
    BY <1>1, <2>2, <2>3, <2>6 DEF TypeOK, progVars, A
  <2> QED BY <1>1, <1>2, <2>2, <2>6, <2>8, <2>9
<1>3. CASE <<sys, typ>> # <<"Sf", "C">>
  <2> DEFINE x == <<sys, typ>>
             d == stored[x][key]
             D == Data \cup {None}
  <2>1. PICK val \in Values : stored' = [stored EXCEPT ![<<sys, typ>>][key].val = val]
    BY <1>3 DEF Change
  <2>2. d # None /\ UNCHANGED accounts
    BY <1>3 DEF Change, sfVars
  <2>3. x \in Tables /\ stored \in [Tables -> [Keys -> D]] /\ d \in Data
    <3>1. x \in Tables
      BY DEF Tables, Systems
    <3>2. stored \in [Tables -> [Keys -> D]]
      BY DEF TypeOK
    <3>3. d \in D
      BY <3>1, <3>2
    <3> QED BY <2>2, <3>1, <3>2, <3>3
  <2> DEFINE e == [d EXCEPT !.val = val]
  <2>4. e \in Data /\ e.sf = d.sf /\ e # None
    BY <2>3, DataManAssumption DEF Data
  <2>5. stored' = [stored EXCEPT ![x][key] = e]
    BY <2>1
  <2> HIDE DEF e, d, D, x
  <2>6. stored' \in [Tables -> [Keys -> D]]
    <3>1. e \in D
      BY <2>4 DEF D
    <3> QED BY <2>3, <2>5, <3>1
  <2>7. \A y \in Tables, k \in Keys : stored'[y][k] = IF y = x /\ k = key THEN e ELSE stored[y][k]
    BY <2>3, <2>5
  <2>8. stored[x][key] = d
    BY DEF d
  <2>9. \A y \in Tables, k \in Keys :
                /\ stored'[y][k] = None <=> stored[y][k] = None
                /\ stored'[y][k].sf = stored[y][k].sf
                /\ y # x => stored'[y][k] = stored[y][k]
    BY <2>2, <2>4, <2>7, <2>8
  <2>10. TypeOK'
    BY <1>1, <2>2, <2>6 DEF TypeOK, progVars, D
  <2> QED BY <1>1, <2>2, <2>9, <2>10 DEF x
<1> QED BY <1>2, <1>3

LEMMA TypeStep == TypeOK /\ Steps1 => TypeOK'
<1> SUFFICES ASSUME TypeOK, Steps1 PROVE TypeOK'
  OBVIOUS
<1>1. CASE StartRun
  <2>1. Restart /\ \E r \in Runs : run' = r /\ todo' = Actions(r)
    BY <1>1 DEF StartRun
  <2>2. run' \in Runs /\ todo' \in Seq(Entry)
    BY <2>1, ActionsOf DEF Planned
  <2> QED BY <2>1, <2>2, RestartTypes
<1>2. CASE StartDies
  <2>1. Restart /\ UNCHANGED run /\ todo' = <<>>
    BY <1>2 DEF StartDies
  <2>2. run' \in Runs /\ todo' \in Seq(Entry)
    BY <2>1 DEF TypeOK
  <2> QED BY <2>1, <2>2, RestartTypes
<1>3. CASE Finish
  BY <1>3 DEF Finish, TypeOK, sfVars, histVars
<1>4. CASE NotImplemented
  BY <1>4, TodoOf DEF NotImplemented, TypeOK, sfVars
<1>5. CASE PushDone
  BY <1>5, TodoOf DEF PushDone, TypeOK, sfVars, histVars
<1>6. ASSUME NEW sys \in Systems, NEW typ \in Types, NEW key \in Keys, Change(sys, typ, key)
      PROVE  TypeOK'
  BY <1>6, ChangeOf
<1>7. CASE Died \/ Idle
  BY <1>7 DEF Died, Idle, Same1, TypeOK
<1>8. ASSUME NEW sys, NEW typ, NEW res, CompareStep(sys, typ, res) PROVE TypeOK'
  BY <1>8, TodoOf DEF CompareStep, CompareWith, Fetched, Now, TypeOK
<1> QED BY <1>1, <1>2, <1>3, <1>4, <1>5, <1>6, <1>7, <1>8, PullTypes, PushTypes, GuestOf, SfPushTypes, RefTypes
        DEF Steps1, Systems

-----------------------------------------------------------------------------
(* The exit code.                                                          *)

LEMMA AfterTold ==
    ASSUME ErrorsTold, NEW err, AfterRecord(err), failed' => failed \/ err, UNCHANGED exit,
           exit = "running", todo # <<>>, Head(todo).step = "push", Implemented(Head(todo))
    PROVE  ErrorsTold'
<1>1. exit # "0" /\ exit # "died" /\ (failed => errorLog \/ skipped)
  BY DEF ErrorsTold
<1>2. CASE err /\ run.breakOnError
  <2>1. skipped' = FALSE /\ errorLog' = TRUE
    BY <1>2 DEF AfterRecord
  <2> QED BY <1>1, <2>1 DEF ErrorsTold
<1>3. CASE ~(err /\ run.breakOnError)
  <2>1. skipped' = (skipped \/ err) /\ UNCHANGED <<todo, errorLog>>
    BY <1>3 DEF AfterRecord
  <2> QED BY <1>1, <2>1 DEF ErrorsTold
<1> QED BY <1>2, <1>3

LEMMA ToldStep == ErrorsTold /\ Steps1 => ErrorsTold'
<1> SUFFICES ASSUME ErrorsTold, Steps1 PROVE ErrorsTold'
  OBVIOUS
<1>1. CASE StartRun \/ StartDies
  <2>1. /\ skipped' = FALSE /\ errorLog' = FALSE /\ failed' = FALSE
    BY <1>1 DEF StartRun, StartDies, Restart
  <2> QED BY <2>1 DEF ErrorsTold
<1>2. CASE Finish
  <2>1. /\ exit = "running" /\ todo = <<>> /\ UNCHANGED <<failed, errorLog, skipped>>
        /\ exit' \in {IF errorLog THEN "42" ELSE "0"} \cup
                     (IF (IF errorLog THEN "42" ELSE "0") = "0" THEN {"36"} ELSE {})
    BY <1>2 DEF Finish, SendNotification, histVars
  <2>2. ~skipped /\ (failed => errorLog)
    BY <2>1 DEF ErrorsTold
  <2>3. CASE errorLog
    <3>1. exit' = "42"
      BY <2>1, <2>3
    <3> QED BY <2>1, <2>2, <2>3, <3>1 DEF ErrorsTold
  <2>4. CASE ~errorLog
    <3>1. exit' \in {"0", "36"}
      BY <2>1, <2>4
    <3> QED BY <2>1, <2>2, <2>4, <3>1 DEF ErrorsTold
  <2> QED BY <2>3, <2>4
<1>3. CASE NotImplemented
  <2>1. exit = "running" /\ errorLog' = TRUE /\ UNCHANGED <<skipped, exit>> /\ todo' = Tail(todo) /\ todo # <<>>
        /\ ~Implemented(Head(todo))
    BY <1>3 DEF NotImplemented
  <2>2. CASE ~skipped
    BY <2>1, <2>2 DEF ErrorsTold
  <2>3. CASE skipped
    BY <2>1, <2>3 DEF ErrorsTold
  <2> QED BY <2>2, <2>3
<1>4. CASE PushDone
  <2>1. /\ exit = "running" /\ skipped' = FALSE /\ errorLog' = (errorLog \/ skipped)
        /\ UNCHANGED <<exit, failed>>
    BY <1>4 DEF PushDone, histVars
  <2> QED BY <2>1 DEF ErrorsTold
<1>5. ASSUME NEW sys \in Systems, NEW typ \in Types, NEW key \in Keys, Change(sys, typ, key)
      PROVE  ErrorsTold'
  <2>1. UNCHANGED <<exit, errorLog, skipped, todo, failed>>
    BY <1>5 DEF Change, progVars
  <2> QED BY <2>1 DEF ErrorsTold
<1>6. CASE Died
  <2>1. exit' = "died"
    BY <1>6 DEF Died
  <2> QED BY <2>1 DEF ErrorsTold
<1>7. CASE Idle
  BY <1>7 DEF Idle, Same1, ErrorsTold
<1>8. ASSUME exit = "running", todo # <<>>, Head(todo).step # "push", UNCHANGED <<exit, skipped>>,
             NEW log, errorLog' = (errorLog \/ log), failed' => failed \/ log
      PROVE  ErrorsTold'
  <2>1. ~skipped
    BY <1>8 DEF ErrorsTold
  <2> QED BY <1>8, <2>1 DEF ErrorsTold
<1>9. ASSUME NEW sys, NEW typ, NEW list, NEW match, NEW res, PullStep(sys, typ, list, match, res)
      PROVE  ErrorsTold'
  <2>1. /\ exit = "running" /\ todo # <<>> /\ Head(todo).step = "pull" /\ UNCHANGED <<exit, skipped>>
        /\ errorLog' = (errorLog \/ res.log) /\ (failed' => failed \/ res.log)
    BY <1>9 DEF PullStep, PullInto, Now, Fetched
  <2> QED BY <1>8, <2>1
<1>10. ASSUME NEW sys, NEW typ, NEW res, CompareStep(sys, typ, res)
      PROVE  ErrorsTold'
  <2>1. /\ exit = "running" /\ todo # <<>> /\ Head(todo).step = "compare" /\ UNCHANGED <<exit, skipped>>
        /\ errorLog' = (errorLog \/ res.log) /\ (failed' => failed \/ res.log)
    BY <1>10 DEF CompareStep, CompareWith, Now, Fetched
  <2> QED BY <1>8, <2>1
<1>11. ASSUME NEW sys, NEW typ, NEW applied, NEW sf, NEW err, PushStep(sys, typ, applied, sf, err)
       PROVE  ErrorsTold'
  <2>1. /\ exit = "running" /\ todo # <<>> /\ Head(todo).step = "push" /\ UNCHANGED exit
        /\ AfterRecord(err) /\ (failed' => failed \/ err)
    BY <1>11 DEF PushStep, Pushing, Now
  <2>2. Implemented(Head(todo))
    BY <1>11 DEF PushStep, Pushing, Now, Implemented
  <2> QED BY <2>1, <2>2, AfterTold
<1>12. ASSUME NEW o, SfPushStep(o) PROVE ErrorsTold'
  <2>1. exit = "running" /\ todo # <<>> /\ Head(todo).step = "push" /\ UNCHANGED exit
        /\ Implemented(Head(todo))
    BY <1>12 DEF SfPushStep, Pushing, Now, Implemented
  <2>2. CASE UNCHANGED <<at, todo, skipped, errorLog, failed>>
    BY <2>1, <2>2 DEF ErrorsTold
  <2>3. CASE AfterRecord(o # "done") /\ (failed' => failed \/ o # "done")
    <3> DEFINE err == o # "done"
    <3>1. AfterRecord(err) /\ (failed' => failed \/ err)
      BY <2>3
    <3> HIDE DEF err
    <3> QED BY <2>1, <3>1, AfterTold
  <2> QED BY <1>12, <2>2, <2>3 DEF SfPushStep
<1>13. ASSUME NEW o, RefStep(o) PROVE ErrorsTold'
  <2> DEFINE err == o # "done"
  <2>1. /\ exit = "running" /\ todo # <<>> /\ Head(todo).step = "push" /\ UNCHANGED exit
        /\ AfterRecord(err) /\ (failed' => failed \/ err) /\ Implemented(Head(todo))
    BY <1>13 DEF RefStep, Pushing, Now, Implemented
  <2> HIDE DEF err
  <2> QED BY <2>1, AfterTold
<1>14. ASSUME NEW o, NEW made, NEW data, GuestStep(o, made, data) PROVE ErrorsTold'
  <2> DEFINE err == o # "done"
  <2>1. /\ exit = "running" /\ todo # <<>> /\ Head(todo).step = "push" /\ UNCHANGED exit
        /\ AfterRecord(err) /\ (failed' => failed \/ err) /\ Implemented(Head(todo))
    BY <1>14 DEF GuestStep, Pushing, Now, Implemented
  <2> HIDE DEF err
  <2> QED BY <2>1, AfterTold
<1> QED BY <1>1, <1>2, <1>3, <1>4, <1>5, <1>6, <1>7, <1>9, <1>10, <1>11, <1>12, <1>13, <1>14
        DEF Steps1, Systems

(* The exit code 0 says that every fetch worked and that every record was  *)
(* taken by the system that it was pushed onto.                            *)
THEOREM ZeroIsTrue == Spec => []ZeroMeansAll
<1>1. Init => ErrorsTold
  BY DEF Init, ErrorsTold
<1>2. ErrorsTold /\ [Next]_vars => ErrorsTold'
  BY ToldStep, Kinds
<1>3. ErrorsTold => ZeroMeansAll
  BY DEF ErrorsTold, ZeroMeansAll
<1> QED BY <1>1, <1>2, <1>3, PTL DEF Spec

-----------------------------------------------------------------------------
(* The order of the actions.                                               *)

LeftOf(q, step, sys, typ) ==
    \E i \in DOMAIN q : q[i].step = step /\ q[i].sys = sys /\ q[i].typ = typ

Ordered(q, r) ==
    /\ \A i, j \in DOMAIN q : i < j =>
          /\ q[j].step = "pull" => q[i].step = "pull"
          /\ q[i].step = "compare" => q[j].step = "compare"
    /\ \A i \in DOMAIN q :
          /\ q[i].step = "pull" => \E j \in DOMAIN r.pulls :
                r.pulls[j].sys = q[i].sys /\ r.pulls[j].typ = q[i].typ
          /\ q[i].step = "push" => \E j \in DOMAIN r.pushes :
                r.pushes[j].sys = q[i].sys /\ r.pushes[j].typ = q[i].typ
    /\ (\E i \in DOMAIN q : q[i].step = "pull") =>
          \A j \in DOMAIN r.pushes : LeftOf(q, "push", r.pushes[j].sys, r.pushes[j].typ)

Position ==
    /\ at > 0 => todo # <<>> /\ Head(todo).step = "push" /\ Implemented(Head(todo))
    /\ RefOpen => todo # <<>> /\ Now("push", "Sf", "C") /\ at < Len(memory["C"])

LEMMA InOrderIs == InOrder <=> (exit = "running" => Ordered(todo, run) /\ Position)
  BY DEF InOrder, Ordered, Position, Left, LeftOf

LEMMA InOrderNext ==
    (exit' = "running" => Ordered(todo', run') /\ Position') => InOrder'
  BY DEF InOrder, Ordered, Position, Left, LeftOf

(* The first action is done with. *)
LEMMA LeftTail ==
    ASSUME TypeOK, todo # <<>>, NEW step, NEW sys, NEW typ
    PROVE  /\ Left(step, sys, typ) <=> LeftOf(todo, step, sys, typ)
           /\ LeftOf(Tail(todo), step, sys, typ) => LeftOf(todo, step, sys, typ)
           /\ LeftOf(todo, step, sys, typ) =>
                 \/ Head(todo).step = step /\ Head(todo).sys = sys /\ Head(todo).typ = typ
                 \/ LeftOf(Tail(todo), step, sys, typ)
<1>1. /\ 1 \in DOMAIN todo /\ Head(todo) = todo[1]
      /\ \A i \in DOMAIN Tail(todo) : i + 1 \in DOMAIN todo /\ Tail(todo)[i] = todo[i + 1]
      /\ \A i \in DOMAIN todo : i # 1 => i - 1 \in DOMAIN Tail(todo) /\ Tail(todo)[i - 1] = todo[i]
  BY TodoOf
<1> DEFINE T == Tail(todo)
<1> HIDE DEF T
<1>2. LeftOf(T, step, sys, typ) => LeftOf(todo, step, sys, typ)
  BY <1>1 DEF LeftOf, T
<1>3. ASSUME LeftOf(todo, step, sys, typ)
      PROVE  \/ Head(todo).step = step /\ Head(todo).sys = sys /\ Head(todo).typ = typ
             \/ LeftOf(T, step, sys, typ)
  <2>1. PICK i \in DOMAIN todo : todo[i].step = step /\ todo[i].sys = sys /\ todo[i].typ = typ
    BY <1>3 DEF LeftOf
  <2>2. CASE i = 1
    BY <1>1, <2>1, <2>2
  <2>3. CASE i # 1
    <3>1. i - 1 \in DOMAIN T /\ T[i - 1] = todo[i]
      BY <1>1, <2>3 DEF T
    <3> QED BY <2>1, <3>1 DEF LeftOf
  <2> QED BY <2>2, <2>3
<1> QED BY <1>2, <1>3 DEF T, Left, LeftOf

LEMMA OrderedTail ==
    ASSUME TypeOK, todo # <<>>, NEW r, Ordered(todo, r)
    PROVE  Ordered(Tail(todo), r)
<1> DEFINE T == Tail(todo)
<1>1. /\ 1 \in DOMAIN todo /\ Head(todo) = todo[1]
      /\ \A i \in DOMAIN T : i \in Nat /\ i >= 1 /\ i + 1 \in DOMAIN todo /\ T[i] = todo[i + 1]
  BY TodoOf
<1>2. ASSUME NEW j \in DOMAIN r.pushes, NEW i \in DOMAIN T, T[i].step = "pull"
      PROVE  LeftOf(T, "push", r.pushes[j].sys, r.pushes[j].typ)
  <2>1. i + 1 \in DOMAIN todo /\ todo[i + 1].step = "pull" /\ 1 < i + 1
    BY <1>1, <1>2
  <2>2. LeftOf(todo, "push", r.pushes[j].sys, r.pushes[j].typ)
    BY <2>1 DEF Ordered
  <2>3. Head(todo).step = "pull"
    BY <1>1, <2>1 DEF Ordered
  <2>4. ~(Head(todo).step = "push")
    BY <2>3
  <2> QED BY <2>2, <2>4, LeftTail
<1> HIDE DEF T
<1>3. ASSUME NEW i \in DOMAIN T, NEW j \in DOMAIN T, i < j
      PROVE  /\ T[j].step = "pull" => T[i].step = "pull"
             /\ T[i].step = "compare" => T[j].step = "compare"
  <2>1. i + 1 \in DOMAIN todo /\ j + 1 \in DOMAIN todo /\ i + 1 < j + 1
        /\ T[i] = todo[i + 1] /\ T[j] = todo[j + 1]
    BY <1>1, <1>3
  <2> QED BY <2>1 DEF Ordered
<1>4. ASSUME NEW i \in DOMAIN T
      PROVE  /\ T[i].step = "pull" => \E j \in DOMAIN r.pulls :
                   r.pulls[j].sys = T[i].sys /\ r.pulls[j].typ = T[i].typ
             /\ T[i].step = "push" => \E j \in DOMAIN r.pushes :
                   r.pushes[j].sys = T[i].sys /\ r.pushes[j].typ = T[i].typ
  <2>1. i + 1 \in DOMAIN todo /\ T[i] = todo[i + 1]
    BY <1>1
  <2> QED BY <2>1 DEF Ordered
<1>5. Ordered(T, r)
  BY <1>2, <1>3, <1>4 DEF Ordered
<1> QED BY <1>5 DEF T

LEMMA OrderedStart ==
    ASSUME NEW r \in Runs
    PROVE  Ordered(Actions(r), r)
<1>1. PICK m, n : Planned(r, Actions(r), m, n)
  BY ActionsOf
<1> DEFINE A == Actions(r)
<1> HIDE DEF A
<1>2. /\ m \in Nat /\ n \in Nat /\ A \in Seq(Entry)
      /\ \A i \in DOMAIN A :
            /\ A[i].step = "pull" <=> i <= m
            /\ A[i].step = "push" <=> (i > m /\ i <= n)
            /\ i <= m => /\ i \in DOMAIN r.pulls
                         /\ A[i].sys = r.pulls[i].sys /\ A[i].typ = r.pulls[i].typ
            /\ (i > m /\ i <= n) => \E j \in DOMAIN r.pushes :
                  A[i].sys = r.pushes[j].sys /\ A[i].typ = r.pushes[j].typ
      /\ \A j \in DOMAIN r.pushes : \E i \in DOMAIN A :
            A[i].step = "push" /\ A[i].sys = r.pushes[j].sys /\ A[i].typ = r.pushes[j].typ
  BY <1>1 DEF Planned, A
<1>3. \A i \in DOMAIN A : i \in Nat /\ A[i] \in Entry
  BY <1>2, SeqFacts
<1>4. \A i \in DOMAIN A : A[i].step \in {"pull", "push", "compare"}
  BY <1>3 DEF Entry, Steps
<1>5. ASSUME NEW i \in DOMAIN A, NEW j \in DOMAIN A, i < j
      PROVE  /\ A[j].step = "pull" => A[i].step = "pull"
             /\ A[i].step = "compare" => A[j].step = "compare"
  <2>1. i \in Nat /\ j \in Nat
    BY <1>3
  <2>2. A[j].step = "pull" => A[i].step = "pull"
    BY <1>2, <1>5, <2>1
  <2>3. ASSUME A[i].step = "compare" PROVE A[j].step = "compare"
    <3>1. i > m /\ i > n
      <4>1. ~(i <= m) /\ ~(i > m /\ i <= n)
        BY <1>2, <2>3
      <4> QED BY <1>2, <2>1, <4>1
    <3>2. ~(j <= m) /\ ~(j > m /\ j <= n)
      BY <1>2, <1>5, <2>1, <3>1
    <3>3. A[j].step # "pull" /\ A[j].step # "push"
      BY <1>2, <3>2
    <3> QED BY <1>4, <3>3
  <2> QED BY <2>2, <2>3
<1>6. Ordered(A, r)
  BY <1>2, <1>5 DEF Ordered, LeftOf
<1> QED BY <1>6 DEF A

LEMMA AfterInOrder ==
    ASSUME TypeOK, todo # <<>>, Head(todo).step = "push", Implemented(Head(todo)), ~RefOpen',
           Ordered(todo, run), UNCHANGED run, NEW err, AfterRecord(err)
    PROVE  Ordered(todo', run') /\ Position'
<1>1. CASE err /\ run.breakOnError
  <2>1. at' = 0 /\ todo' = Tail(todo)
    BY <1>1 DEF AfterRecord
  <2>2. ~(at' > 0)
    BY <2>1
  <2> QED BY <2>1, <2>2, OrderedTail DEF Position
<1>2. CASE ~(err /\ run.breakOnError)
  <2>1. UNCHANGED todo
    BY <1>2 DEF AfterRecord
  <2> QED BY <2>1 DEF Position, Implemented
<1> QED BY <1>1, <1>2

LEMMA OrderStep == TypeOK /\ InOrder /\ Steps1 => InOrder'
<1> SUFFICES ASSUME TypeOK, InOrder, Steps1, exit' = "running"
             PROVE  Ordered(todo', run') /\ Position'
  BY InOrderNext
<1>0. /\ exit = "running" => Ordered(todo, run) /\ Position
      /\ at \in Nat
  BY InOrderIs DEF TypeOK
<1>1. CASE StartRun
  <2>1. PICK r \in Runs : run' = r /\ todo' = Actions(r)
    BY <1>1 DEF StartRun
  <2>2. at' = 0 /\ RefOpen' = FALSE
    BY <1>1 DEF StartRun, Restart, RefOpen
  <2>3. ~(at' > 0)
    BY <2>2
  <2> QED BY <2>1, <2>2, <2>3, OrderedStart DEF Position
<1>2. CASE StartDies
  BY <1>2 DEF StartDies
<1>3. CASE Finish
  BY <1>3 DEF Finish, SendNotification
<1>4. CASE Died
  BY <1>4 DEF Died
<1>5. CASE NotImplemented
  <2>1. /\ exit = "running" /\ todo # <<>> /\ ~Implemented(Head(todo))
        /\ todo' = Tail(todo) /\ UNCHANGED <<run, at, RefOpen>>
    BY <1>5 DEF NotImplemented, sfVars, RefOpen
  <2>2. ~(at > 0) /\ ~RefOpen
    BY <1>0, <2>1 DEF Position, Now, Implemented
  <2> QED BY <1>0, <2>1, <2>2, OrderedTail DEF Position
<1>6. CASE PushDone
  <2>1. /\ exit = "running" /\ todo # <<>> /\ at = Len(memory[Head(todo).typ]) /\ at' = 0
        /\ todo' = Tail(todo) /\ UNCHANGED <<run, RefOpen>>
    BY <1>6 DEF PushDone, sfVars, RefOpen
  <2>2. ~RefOpen
    BY <1>0, <2>1 DEF Position, Now
  <2>3. ~(at' > 0)
    BY <2>1
  <2> QED BY <1>0, <2>1, <2>2, <2>3, OrderedTail DEF Position
<1>7. ASSUME UNCHANGED <<todo, run, exit, at, RefOpen, memory>>
      PROVE  Ordered(todo', run') /\ Position'
  <2>1. Ordered(todo, run) /\ Position
    BY <1>0, <1>7
  <2>2. Position'
    BY <1>7, <2>1 DEF Position, Now, Implemented
  <2> QED BY <1>7, <2>1, <2>2
<1>8. CASE Idle
  BY <1>7, <1>8 DEF Idle, Same1
<1>9. ASSUME NEW sys \in Systems, NEW typ \in Types, NEW key \in Keys, Change(sys, typ, key)
      PROVE  Ordered(todo', run') /\ Position'
  <2>1. UNCHANGED <<progVars, RefOpen>>
    BY <1>9, ChangeOf DEF RefOpen
  <2> QED BY <1>7, <2>1 DEF progVars
<1>10. ASSUME exit = "running", todo # <<>>, Head(todo).step # "push", todo' = Tail(todo),
              UNCHANGED <<run, at, RefOpen>>
       PROVE  Ordered(todo', run') /\ Position'
  <2>1. ~(at > 0) /\ ~RefOpen
    BY <1>0, <1>10 DEF Position, Now
  <2> QED BY <1>0, <1>10, <2>1, OrderedTail DEF Position
<1>11. ASSUME NEW sys, NEW typ, NEW list, NEW match, NEW res, PullStep(sys, typ, list, match, res)
       PROVE  Ordered(todo', run') /\ Position'
  BY <1>10, <1>11 DEF PullStep, PullInto, Now, Fetched
<1>12. ASSUME NEW sys, NEW typ, NEW res, CompareStep(sys, typ, res)
       PROVE  Ordered(todo', run') /\ Position'
  BY <1>10, <1>12 DEF CompareStep, CompareWith, Now, Fetched
<1>13. ASSUME NEW sys, NEW typ, NEW applied, NEW sf, NEW err, PushStep(sys, typ, applied, sf, err)
       PROVE  Ordered(todo', run') /\ Position'
  <2>1. /\ exit = "running" /\ todo # <<>> /\ Head(todo).step = "push" /\ AfterRecord(err)
        /\ UNCHANGED <<run, RefOpen>>
        /\ Head(todo).sys = sys /\ Head(todo).typ = typ
        /\ <<sys, typ>> \notin {<<"Sf", "C">>, <<"Acu", "R">>, <<"Sh", "R">>}
    BY <1>13 DEF PushStep, Pushing, Now
  <2>2. Implemented(Head(todo))
    BY <2>1 DEF Implemented
  <2>3. ~RefOpen
    BY <1>0, <2>1 DEF Position, Now
  <2> QED BY <1>0, <2>1, <2>2, <2>3, AfterInOrder
<1>14. ASSUME NEW o, SfPushStep(o) PROVE Ordered(todo', run') /\ Position'
  <2>1. /\ exit = "running" /\ todo # <<>> /\ Head(todo).step = "push" /\ UNCHANGED <<run, exit>>
        /\ Head(todo).sys = "Sf" /\ Head(todo).typ = "C" /\ at < Len(memory["C"]) /\ ~RefOpen
    BY <1>14 DEF SfPushStep, Pushing, Now
  <2>2. Implemented(Head(todo))
    BY <2>1 DEF Implemented
  <2>3. CASE UNCHANGED <<at, todo>>
    <3>1. memory["C"] \in Seq(Records) /\ memory'["C"] \in Seq(Records)
          /\ DOMAIN memory'["C"] = DOMAIN memory["C"]
      BY <1>14, SfPushOf DEF TypeOK, Types
    <3>2. Len(memory'["C"]) = Len(memory["C"])
      BY <3>1
    <3>3. Now("push", "Sf", "C")'
      BY <2>1, <2>3 DEF Now
    <3>4. Implemented(Head(todo'))
      BY <2>2, <2>3
    <3>5. Position'
      BY <2>1, <2>3, <3>2, <3>3, <3>4 DEF Position, Implemented
    <3> QED BY <1>0, <2>1, <2>3, <3>5
  <2>4. CASE AfterRecord(o # "done") /\ UNCHANGED RefOpen
    <3> DEFINE err == o # "done"
    <3>1. AfterRecord(err)
      BY <2>4
    <3> HIDE DEF err
    <3> QED BY <1>0, <2>1, <2>2, <2>4, <3>1, AfterInOrder
  <2> QED BY <1>14, <2>3, <2>4 DEF SfPushStep
<1>15. ASSUME NEW o, RefStep(o) PROVE Ordered(todo', run') /\ Position'
  <2> DEFINE err == o # "done"
  <2>1. /\ exit = "running" /\ todo # <<>> /\ Head(todo).step = "push" /\ UNCHANGED <<run, exit>>
        /\ Head(todo).sys = "Sf" /\ Head(todo).typ = "C" /\ ~RefOpen' /\ AfterRecord(err)
    BY <1>15 DEF RefStep, Pushing, Now
  <2>2. Implemented(Head(todo))
    BY <2>1 DEF Implemented
  <2> HIDE DEF err
  <2> QED BY <1>0, <2>1, <2>2, AfterInOrder
<1>16. ASSUME NEW o, NEW made, NEW data, GuestStep(o, made, data)
       PROVE  Ordered(todo', run') /\ Position'
  <2> DEFINE err == o # "done"
  <2>1. /\ exit = "running" /\ todo # <<>> /\ Head(todo).step = "push" /\ AfterRecord(err)
        /\ UNCHANGED <<run, RefOpen>> /\ Head(todo).sys = "Ass" /\ Head(todo).typ = "R"
    BY <1>16 DEF GuestStep, Pushing, Now
  <2> HIDE DEF err
  <2>2. Implemented(Head(todo))
    BY <2>1 DEF Implemented
  <2>3. ~RefOpen
    BY <1>0, <2>1 DEF Position, Now
  <2> QED BY <1>0, <2>1, <2>2, <2>3, AfterInOrder
<1> QED BY <1>1, <1>2, <1>3, <1>4, <1>5, <1>6, <1>8, <1>9, <1>11, <1>12, <1>13, <1>14, <1>15, <1>16
        DEF Steps1, Systems

LEMMA OrderInit == Init => InOrder
  BY DEF Init, InOrder

-----------------------------------------------------------------------------
(* External references.                                                    *)

(* Before one is created there is none, or it could not be read. *)
RefsInv == OneExtRef /\ (refStep = "create" => ~(refs[Rec.sf] > 0) \/ Rec.sf \in blind)

LEMMA RefsStep == TypeOK /\ InOrder /\ RefsInv /\ Steps1 => RefsInv'
<1> SUFFICES ASSUME TypeOK, InOrder, RefsInv, Steps1 PROVE RefsInv'
  OBVIOUS
<1>0. refs \in Seq(Nat) /\ Len(refs) = Len(accounts) /\ DOMAIN refs = DOMAIN accounts
      /\ DOMAIN accounts = 1 .. Len(accounts) /\ Len(accounts) \in Nat
  <2>1. accounts \in Seq([key : Keys, val : Values]) /\ refs \in Seq(Nat) /\ Len(refs) = Len(accounts)
    BY DEF TypeOK
  <2> QED BY <2>1
<1>1. ASSUME UNCHANGED refs, blind \subseteq blind', DOMAIN accounts' = DOMAIN accounts
      PROVE  OneExtRef'
  BY <1>1 DEF OneExtRef, RefsInv
<1>2. ASSUME UNCHANGED refs, blind \subseteq blind', DOMAIN accounts' = DOMAIN accounts,
             refStep' # "create"
      PROVE  RefsInv'
  BY <1>1, <1>2 DEF RefsInv
<1>3. ASSUME Same1, LookedUp PROVE RefsInv'
  <2>1. UNCHANGED <<refs, accounts>> /\ blind \subseteq blind' /\ Rec' = Rec
    BY <1>3 DEF Same1, LookedUp, Rec
  <2>2. OneExtRef'
    BY <1>1, <2>1
  <2>3. refStep' = "create" => ~(refs[Rec.sf] > 0) \/ Rec.sf \in blind'
    BY <1>3, <2>1 DEF LookedUp, RefsInv
  <2> QED BY <2>1, <2>2, <2>3 DEF RefsInv
<1>4. CASE StartRun \/ StartDies
  <2>1. UNCHANGED <<refs, blind, accounts>> /\ refStep' = "none"
    BY <1>4 DEF StartRun, StartDies, Restart
  <2> QED BY <1>2, <2>1
<1>5. CASE Finish
  <2>1. UNCHANGED <<refs, blind, accounts, refStep, memory, at, todo>>
    BY <1>5 DEF Finish, sfVars
  <2>2. Rec' = Rec
    BY <2>1 DEF Rec
  <2> QED BY <1>1, <2>1, <2>2 DEF RefsInv
<1>6. ASSUME exit = "running", refStep = "create"
      PROVE  todo # <<>> /\ Now("push", "Sf", "C") /\ at < Len(memory["C"])
  BY <1>6 DEF InOrder, RefOpen
<1>7. CASE NotImplemented
  <2>1. exit = "running" /\ ~Implemented(Head(todo)) /\ UNCHANGED <<refs, blind, accounts, refStep>>
    BY <1>7 DEF NotImplemented, sfVars
  <2>2. refStep # "create"
    BY <1>6, <2>1 DEF Now, Implemented
  <2> QED BY <1>2, <2>1, <2>2
<1>8. CASE PushDone
  <2>1. exit = "running" /\ at = Len(memory[Head(todo).typ])
        /\ UNCHANGED <<refs, blind, accounts, refStep>> /\ at \in Nat
    BY <1>8 DEF PushDone, sfVars, TypeOK
  <2>2. refStep # "create"
    BY <1>6, <2>1 DEF Now
  <2> QED BY <1>2, <2>1, <2>2
<1>9. CASE Died \/ Idle
  BY <1>3, <1>9 DEF Died, Idle
<1>10. ASSUME NEW sys \in Systems, NEW typ \in Types, NEW key \in Keys, Change(sys, typ, key)
       PROVE  RefsInv'
  <2>1. UNCHANGED <<refs, blind, refStep, memory, at, todo>> /\ DOMAIN accounts' = DOMAIN accounts
    BY <1>10, ChangeOf DEF progVars
  <2>2. Rec' = Rec
    BY <2>1 DEF Rec
  <2> QED BY <1>1, <2>1, <2>2 DEF RefsInv
<1>11. ASSUME NEW sys, NEW typ, NEW list, NEW match, NEW res, PullStep(sys, typ, list, match, res)
       PROVE  RefsInv'
  <2>1. exit = "running" /\ Head(todo).step = "pull" /\ UNCHANGED <<refs, blind, accounts, refStep>>
    BY <1>11 DEF PullStep, Fetched, Now
  <2>2. refStep # "create"
    BY <1>6, <2>1 DEF Now
  <2> QED BY <1>2, <2>1, <2>2
<1>12. ASSUME NEW sys, NEW typ, NEW res, CompareStep(sys, typ, res)
       PROVE  RefsInv'
  <2>1. exit = "running" /\ Head(todo).step = "compare"
        /\ UNCHANGED <<refs, blind, accounts, refStep>>
    BY <1>12 DEF CompareStep, Fetched, Now
  <2>2. refStep # "create"
    BY <1>6, <2>1 DEF Now
  <2> QED BY <1>2, <2>1, <2>2
<1>13. ASSUME NEW sys, NEW typ, NEW applied, NEW sf, NEW err, PushStep(sys, typ, applied, sf, err)
       PROVE  RefsInv'
  <2>1. exit = "running" /\ Head(todo).sys = sys /\ Head(todo).typ = typ
        /\ <<sys, typ>> # <<"Sf", "C">> /\ UNCHANGED <<refs, blind, accounts, refStep>>
    BY <1>13 DEF PushStep, Pushing, Now
  <2>2. refStep # "create"
    BY <1>6, <2>1 DEF Now
  <2> QED BY <1>2, <2>1, <2>2
<1>14. ASSUME NEW o, NEW made, NEW data, GuestStep(o, made, data) PROVE RefsInv'
  <2>1. exit = "running" /\ Head(todo).sys = "Ass" /\ UNCHANGED <<refs, blind, accounts, refStep>>
    BY <1>14 DEF GuestStep, Pushing, Now
  <2>2. refStep # "create"
    BY <1>6, <2>1 DEF Now
  <2> QED BY <1>2, <2>1, <2>2
<1>15. ASSUME NEW o, SfPushStep(o) PROVE RefsInv'
  <2>0. UNCHANGED blind /\ refStep' # "create"
    BY <1>15 DEF SfPushStep
  <2>1. CASE UNCHANGED <<accounts, refs>>
    BY <1>2, <2>0, <2>1
  <2>2. CASE accounts' = [accounts EXCEPT ![Rec.sf] = Account(Rec)] /\ UNCHANGED refs
    BY <1>2, <2>0, <2>2
  <2>3. CASE accounts' = Append(accounts, Account(Rec)) /\ refs' = Append(refs, 0)
    <3>1. /\ \A i \in 1 .. Len(refs) : refs'[i] = refs[i]
          /\ refs'[Len(refs) + 1] = 0
      BY <1>0, <2>3, AppendProperties
    <3>2. DOMAIN accounts' = 1 .. Len(accounts) + 1
      <4>1. Account(Rec) \in [key : Keys, val : Values]
        BY <1>15, SfPushOf DEF Account, Records
      <4>2. accounts \in Seq([key : Keys, val : Values])
        BY DEF TypeOK
      <4> DEFINE A == [key : Keys, val : Values]
                 a == Account(Rec)
      <4>3. accounts \in Seq(A) /\ a \in A /\ accounts' = Append(accounts, a)
        BY <2>3, <4>1, <4>2
      <4> HIDE DEF A, a
      <4>4. accounts' \in Seq(A) /\ Len(accounts') = Len(accounts) + 1
        BY <4>3, AppendProperties
      <4> QED BY <4>4
    <3>3. ASSUME NEW i \in DOMAIN accounts', i \notin blind PROVE refs'[i] <= 1
      <4>1. CASE i \in DOMAIN accounts
        BY <1>0, <3>1, <3>3, <4>1 DEF OneExtRef, RefsInv
      <4>2. CASE i = Len(refs) + 1
        BY <3>1, <4>2
      <4> QED BY <1>0, <3>2, <4>1, <4>2
    <3> QED BY <2>0, <3>3 DEF OneExtRef, RefsInv
  <2> QED BY <1>15, <2>1, <2>2, <2>3 DEF SfPushStep
<1>16. ASSUME NEW o, RefStep(o) PROVE RefsInv'
  <2> DEFINE id == Rec.sf
  <2>1. /\ refs' = IF Applied(o) /\ refStep = "create" THEN [refs EXCEPT ![id] = @ + 1] ELSE refs
        /\ UNCHANGED <<accounts, blind>> /\ refStep' = "none"
    BY <1>16 DEF RefStep
  <2>2. refStep = "create" => ~(refs[id] > 0) \/ id \in blind
    BY DEF RefsInv
  <2> HIDE DEF id
  <2>3. ASSUME NEW i \in DOMAIN accounts, i \notin blind PROVE refs'[i] <= 1
    <3>1. refs[i] <= 1 /\ refs[i] \in Nat
      BY <1>0, <2>3 DEF OneExtRef, RefsInv
    <3>2. CASE refs' = refs
      BY <3>1, <3>2
    <3>3. CASE refs' = [refs EXCEPT ![id] = @ + 1] /\ refStep = "create"
      <4>1. CASE i = id
        <5>1. refs[i] = 0
          BY <2>2, <2>3, <3>1, <3>3, <4>1
        <5>2. refs'[i] = refs[i] + 1
          BY <1>0, <3>3, <4>1
        <5> QED BY <5>1, <5>2
      <4>2. CASE i # id
        BY <1>0, <3>1, <3>3, <4>2
      <4> QED BY <4>1, <4>2
    <3> QED BY <2>1, <3>2, <3>3
  <2> QED BY <2>1, <2>3 DEF OneExtRef, RefsInv
<1> QED BY <1>4, <1>5, <1>7, <1>8, <1>9, <1>10, <1>11, <1>12, <1>13, <1>14, <1>15, <1>16
        DEF Steps1, Systems

(* sys_data_ass.py looks an external reference up before it is added: no   *)
(* account has one twice, but those whose references could not be read.    *)
THEOREM RefsAreSingle == Spec => []OneExtRef
<1> DEFINE I == TypeOK /\ InOrder /\ RefsInv
<1>1. Init => I
  <2> SUFFICES ASSUME Init PROVE RefsInv
    BY TypeInit, OrderInit
  <2>1. accounts = StartAccounts /\ refs = [i \in DOMAIN StartAccounts |-> 0] /\ refStep = "none"
    BY DEF Init
  <2> QED BY <2>1 DEF OneExtRef, RefsInv
<1>2. I /\ [Next]_vars => I'
  BY Kinds, TypeStep, OrderStep, RefsStep
<1>3. I => OneExtRef
  BY DEF RefsInv
<1> QED BY <1>1, <1>2, <1>3, PTL DEF Spec

-----------------------------------------------------------------------------
(* The last record of a key.                                               *)

LEMMA LastAppend ==
    ASSUME NEW list \in Seq(Records), NEW recs \in Seq(Records), NEW k, NEW v,
           \A r \in ToSet(recs) : r.key = k => r.val = v,
           LastHas(list, k, v) \/ \E r \in ToSet(recs) : r.key = k
    PROVE  LastHas(list \o recs, k, v)
<1> DEFINE c == list \o recs
           m == Len(list)
<1>1. /\ m \in Nat
      /\ \A i \in DOMAIN list : i <= m /\ i \in DOMAIN c /\ c[i] = list[i]
      /\ \A i \in DOMAIN recs : m + i \in DOMAIN c /\ c[m + i] = recs[i]
      /\ \A i \in DOMAIN c :
            i \in DOMAIN list \/ (i > m /\ i - m \in DOMAIN recs /\ c[i] = recs[i - m])
  BY ConcatOf
<1>2. \A i \in DOMAIN list : i \in Nat
  BY SeqFacts
<1>3. \A i \in DOMAIN recs : i \in Nat /\ i >= 1 /\ recs[i] \in ToSet(recs)
  BY SeqFacts
<1> HIDE DEF c, m
<1>4. \E i \in DOMAIN c : c[i].key = k
  <2>1. CASE \E r \in ToSet(recs) : r.key = k
    <3>1. PICK j \in DOMAIN recs : recs[j].key = k
      BY <2>1, SeqFacts
    <3> QED BY <1>1, <3>1
  <2>2. CASE LastHas(list, k, v)
    BY <1>1, <2>2 DEF LastHas
  <2> QED BY <2>1, <2>2
<1>5. ASSUME NEW i \in DOMAIN c, c[i].key = k, \A j \in DOMAIN c : j > i => c[j].key # k
      PROVE  c[i].val = v
  <2>1. CASE i \in DOMAIN list
    <3>1. ASSUME NEW r \in ToSet(recs), r.key = k PROVE FALSE
      <4>1. PICK j \in DOMAIN recs : recs[j] = r
        BY SeqFacts
      <4>2. m + j \in DOMAIN c /\ c[m + j].key = k /\ m + j > i
        BY <1>1, <1>2, <1>3, <2>1, <3>1, <4>1
      <4> QED BY <1>5, <4>2
    <3>2. LastHas(list, k, v)
      BY <3>1
    <3>3. list[i].key = k /\ \A j \in DOMAIN list : j > i => list[j].key # k
      BY <1>1, <1>5, <2>1
    <3> QED BY <1>1, <2>1, <3>2, <3>3 DEF LastHas
  <2>2. CASE i > m /\ i - m \in DOMAIN recs /\ c[i] = recs[i - m]
    BY <1>3, <1>5, <2>2
  <2> QED BY <1>1, <2>1, <2>2
<1>6. LastHas(c, k, v)
  BY <1>4, <1>5 DEF LastHas
<1> QED BY <1>6 DEF c

LEMMA LastMerged ==
    ASSUME NEW list \in Seq(Records), NEW recs \in Seq(Records), NEW match \in BOOLEAN,
           NEW typ, \A r \in ToSet(list) : r.typ = typ, \A r \in ToSet(recs) : r.typ = typ,
           \A i, j \in DOMAIN recs : recs[i].key = recs[j].key => i = j,
           NEW k, NEW before, before # None => LastHas(list, k, before),
           Pulled(recs, k, before) # None
    PROVE  LastHas(Merged(list, recs, match), k, Pulled(recs, k, before))
<1> DEFINE v == Pulled(recs, k, before)
<1>1. \/ v = before /\ \A r \in ToSet(recs) : r.key # k
      \/ \E r \in ToSet(recs) : r.key = k /\ v = r.val
  BY PulledOf
<1>2. \A r, q \in ToSet(recs) : r.key = q.key => r = q
  <2>1. \A r \in ToSet(recs) : \E i \in DOMAIN recs : r = recs[i]
    BY SeqFacts
  <2> QED BY <2>1
<1> HIDE DEF v
<1>3. \A r \in ToSet(recs) : r.key = k => r.val = v
  BY <1>1, <1>2
<1>4. LastHas(list, k, v) \/ \E r \in ToSet(recs) : r.key = k
  BY <1>1 DEF v
<1>5. CASE ~match
  <2>1. Merged(list, recs, match) = list \o recs
    BY <1>5, MergedOf
  <2>2. LastHas(list \o recs, k, v)
    BY <1>3, <1>4, LastAppend
  <2> QED BY <2>1, <2>2 DEF v
<1>6. CASE match
  <2>1. PICK A, B \in Seq(Records) :
              /\ Merged(list, recs, TRUE) = A \o B /\ DOMAIN A = DOMAIN list
              /\ \A i \in DOMAIN list : A[i] = Replaced(list[i], recs)
              /\ \A r : r \in ToSet(B) <=> r \in NewRecords(list, recs)
              /\ \A i, j \in DOMAIN B : B[i] = B[j] => i = j
    BY MergedParts, Zenon
  <2>0. Merged(list, recs, match) = A \o B
    BY <1>6, <2>1 DEF Merged
  <2>2. \A r \in ToSet(B) : r.key = k => r.val = v
    BY <1>3, <2>1 DEF NewRecords
  <2>3. ASSUME NEW i \in DOMAIN list
        PROVE  /\ A[i].key = list[i].key
               /\ A[i] \in ToSet(recs) \/ (A[i] = list[i] /\ \A r \in ToSet(recs) : r.key # list[i].key)
    <3>1. list[i] \in Records /\ list[i] \in ToSet(list)
      BY SeqFacts
    <3>2. \/ A[i] = list[i] /\ \A r \in ToSet(recs) : ~SameRecord(list[i], r)
          \/ A[i] \in ToSet(recs) /\ SameRecord(list[i], A[i])
      BY <2>1, <3>1, ReplacedOf
    <3> QED BY <3>1, <3>2 DEF SameRecord
  <2>4. CASE \E r \in ToSet(recs) : r.key = k
    <3>1. PICK r \in ToSet(recs) : r.key = k
      BY <2>4
    <3>2. \A i \in DOMAIN A : A[i].key = k => A[i].val = v
      BY <1>3, <2>1, <2>3, <3>1
    <3>3. CASE r \in NewRecords(list, recs)
      BY <2>0, <2>2, <3>1, <3>3, <2>1, LastAppend DEF v
    <3>4. CASE r \notin NewRecords(list, recs)
      <4>1. PICK q \in ToSet(list) : SameRecord(q, r)
        BY <3>1, <3>4 DEF NewRecords
      <4>2. PICK i \in DOMAIN list : q = list[i]
        BY SeqFacts
      <4>3. A[i].key = k /\ i \in DOMAIN A
        BY <2>1, <2>3, <3>1, <4>1, <4>2 DEF SameRecord
      <4>4. LastHas(A, k, v)
        BY <3>2, <4>3 DEF LastHas
      <4> QED BY <2>0, <2>2, <4>4, LastAppend DEF v
    <3> QED BY <3>3, <3>4
  <2>5. CASE \A r \in ToSet(recs) : r.key # k
    <3>1. LastHas(list, k, v)
      BY <1>4, <2>5
    <3>2. \A i \in DOMAIN A : A[i].key = list[i].key
      BY <2>1, <2>3
    <3>3. \A i \in DOMAIN A : A[i].key = k => A[i] = list[i]
      BY <2>1, <2>3, <2>5
    <3>4. LastHas(A, k, v)
      BY <2>1, <3>1, <3>2, <3>3 DEF LastHas
    <3> QED BY <2>0, <2>2, <3>4, LastAppend DEF v
  <2> QED BY <2>4, <2>5
<1> QED BY <1>5, <1>6

-----------------------------------------------------------------------------
(* Who wins.                                                               *)

(* Without an error after it, a record was taken and is not tried again. *)
LEMMA NoError ==
    ASSUME NEW err, AfterRecord(err), ~errorLog', ~skipped'
    PROVE  ~err /\ at' = at + 1 /\ UNCHANGED todo /\ ~errorLog /\ ~skipped
<1>1. CASE err /\ run.breakOnError
  BY <1>1 DEF AfterRecord
<1>2. CASE ~(err /\ run.breakOnError)
  BY <1>2 DEF AfterRecord
<1> QED BY <1>1, <1>2

(* No pull is misplaced: the records are put into the list of their type. *)
LEMMA PullPlaced ==
    ASSUME TypeOK, InOrder, Clean, NEW sys, NEW typ, NEW list, NEW match, NEW res,
           PullStep(sys, typ, list, match, res)
    PROVE  list = typ /\ <<sys, typ>> # <<"Sf", "C">>
<1>1. /\ todo # <<>> /\ Head(todo).step = "pull" /\ Head(todo).sys = sys /\ Head(todo).typ = typ
      /\ exit = "running"
  BY DEF PullStep, Now
<1>2. 1 \in DOMAIN todo /\ Head(todo) = todo[1]
  BY <1>1, TodoOf
<1>3. PICK j \in DOMAIN run.pulls : run.pulls[j].sys = sys /\ run.pulls[j].typ = typ
  BY <1>1, <1>2 DEF InOrder
<1>4. ~(sys \in {"Sf", "Sh"} /\ typ = "C")
  BY <1>3 DEF Clean, Misplaced
<1> QED BY <1>4 DEF PullStep

LEMMA MemoryPulled ==
    ASSUME TypeOK, InOrder, Clean, MemoryWins, NEW sys, NEW typ, NEW list, NEW match, NEW res,
           PullStep(sys, typ, list, match, res)
    PROVE  MemoryWins'
<1>1. /\ res.recs \in Seq(Records) /\ typ \in Types /\ match \in BOOLEAN
      /\ \A r \in ToSet(res.recs) : r.typ = typ
      /\ \A i, j \in DOMAIN res.recs : res.recs[i].key = res.recs[j].key => i = j
  BY FetchedOf, PullPlaced DEF PullStep
<1>2. /\ memory' = [memory EXCEPT ![typ] = Merged(@, res.recs, match)]
      /\ want' = [want EXCEPT ![typ] = [k \in Keys |-> Pulled(res.recs, k, @[k])]]
  BY PullPlaced DEF PullStep, PullInto
<1>3. /\ memory \in [Types -> Seq(Records)] /\ memory[typ] \in Seq(Records)
      /\ want \in [Types -> [Keys -> Values \cup {None}]]
  BY <1>1 DEF TypeOK
<1>4. /\ memory'[typ] = Merged(memory[typ], res.recs, match)
      /\ \A t \in Types : t # typ => memory'[t] = memory[t] /\ want'[t] = want[t]
      /\ want'[typ] = [k \in Keys |-> Pulled(res.recs, k, want[typ][k])]
  BY <1>1, <1>2, <1>3
<1>5. ASSUME NEW t \in Types, NEW r \in ToSet(memory'[t]) PROVE r.typ = t
  <2>1. CASE t = typ
    <3>1. r \in ToSet(memory[typ]) \/ r \in ToSet(res.recs)
      BY <1>1, <1>3, <1>4, <1>5, <2>1, MergedOf
    <3> QED BY <1>1, <2>1, <3>1 DEF MemoryWins
  <2>2. CASE t # typ
    BY <1>4, <1>5, <2>2 DEF MemoryWins
  <2> QED BY <2>1, <2>2
<1>6. ASSUME NEW t \in Types, NEW k \in Keys, want'[t][k] # None
      PROVE  LastHas(memory'[t], k, want'[t][k])
  <2>1. CASE t = typ
    <3> DEFINE before == want[typ][k]
               M == memory[typ]
    <3>1. want'[t][k] = Pulled(res.recs, k, before) /\ memory'[t] = Merged(M, res.recs, match)
      BY <1>4, <2>1
    <3>2. before # None => LastHas(M, k, before)
      BY <1>1 DEF MemoryWins
    <3>3. M \in Seq(Records) /\ \A r \in ToSet(M) : r.typ = typ
      BY <1>1, <1>3 DEF MemoryWins
    <3>4. Pulled(res.recs, k, before) # None
      BY <1>6, <3>1
    <3> HIDE DEF before, M
    <3>5. LastHas(Merged(M, res.recs, match), k, Pulled(res.recs, k, before))
      BY <1>1, <3>2, <3>3, <3>4, LastMerged
    <3> QED BY <3>1, <3>5
  <2>2. CASE t # typ
    BY <1>4, <1>6, <2>2 DEF MemoryWins
  <2> QED BY <2>1, <2>2
<1> QED BY <1>5, <1>6 DEF MemoryWins

(* The ids do not matter. *)
LEMMA MemorySame ==
    ASSUME TypeOK, MemoryWins, UNCHANGED want, DOMAIN memory'["C"] = DOMAIN memory["C"],
           memory'["R"] = memory["R"], memory' \in [Types -> Seq(Records)],
           \A i \in DOMAIN memory["C"] :
                /\ memory'["C"][i].key = memory["C"][i].key /\ memory'["C"][i].val = memory["C"][i].val
                /\ memory'["C"][i].typ = memory["C"][i].typ
    PROVE  MemoryWins'
<1>1. \A t \in Types :
         /\ DOMAIN memory'[t] = DOMAIN memory[t]
         /\ \A i \in DOMAIN memory[t] :
                /\ memory'[t][i].key = memory[t][i].key /\ memory'[t][i].val = memory[t][i].val
                /\ memory'[t][i].typ = memory[t][i].typ
  BY DEF Types
<1>2. ASSUME NEW t \in Types, NEW r \in ToSet(memory'[t]) PROVE r.typ = t
  <2>1. PICK i \in DOMAIN memory'[t] : r = memory'[t][i]
    BY <1>2 DEF ToSet
  <2>2. i \in DOMAIN memory[t] /\ memory[t][i].typ = r.typ /\ memory[t][i] \in ToSet(memory[t])
    BY <1>1, <2>1 DEF ToSet
  <2> QED BY <2>2 DEF MemoryWins
<1>3. ASSUME NEW t \in Types, NEW k \in Keys, want[t][k] # None
      PROVE  LastHas(memory'[t], k, want[t][k])
  <2> DEFINE M == memory[t]
             M2 == memory'[t]
             v == want[t][k]
  <2>1. LastHas(M, k, v)
    BY <1>3 DEF MemoryWins
  <2>2. /\ DOMAIN M2 = DOMAIN M
        /\ \A i \in DOMAIN M : M2[i].key = M[i].key /\ M2[i].val = M[i].val
    BY <1>1
  <2> HIDE DEF M, M2, v
  <2>3. LastHas(M2, k, v)
    BY <2>1, <2>2 DEF LastHas
  <2> QED BY <2>3 DEF M2, v
<1>4. \A t \in Types, k \in Keys : want'[t][k] = want[t][k]
  OBVIOUS
<1> QED BY <1>2, <1>3, <1>4 DEF MemoryWins

(* New guests were not in the memory, hence not wanted. *)
LEMMA MemoryGuests ==
    ASSUME TypeOK, MemoryWins, NEW o, NEW made, NEW data, GuestStep(o, made, data)
    PROVE  MemoryWins'
<1>1. PICK N : NewGuests(N, made)
  BY GuestOf
<1>2. /\ N \in Seq(Records) /\ memory'["C"] = memory["C"] \o N
      /\ \A i \in DOMAIN N : ~InMemory(N[i].key) /\ N[i].typ = "C"
  BY <1>1 DEF NewGuests
<1>3. memory'["R"] = memory["R"] /\ UNCHANGED want
  BY GuestOf DEF GuestStep
<1>4. memory["C"] \in Seq(Records)
  BY DEF TypeOK, Types
<1> DEFINE M == memory["C"]
<1>5. \A r : r \in ToSet(M \o N) <=> r \in ToSet(M) \/ r \in ToSet(N)
  BY <1>2, <1>4, ConcatOf
<1>6. \A r \in ToSet(N) : r.typ = "C" /\ ~InMemory(r.key)
  BY <1>2 DEF ToSet
<1>7. ASSUME NEW t \in Types, NEW r \in ToSet(memory'[t]) PROVE r.typ = t
  <2>1. CASE t = "C"
    <3>1. r \in ToSet(M) \/ r \in ToSet(N)
      BY <1>2, <1>5, <1>7, <2>1
    <3> QED BY <1>6, <2>1, <3>1 DEF MemoryWins
  <2>2. CASE t = "R"
    BY <1>3, <1>7, <2>2 DEF MemoryWins
  <2> QED BY <2>1, <2>2 DEF Types
<1>8. ASSUME NEW t \in Types, NEW k \in Keys, want'[t][k] # None
      PROVE  LastHas(memory'[t], k, want'[t][k])
  <2> DEFINE v == want[t][k]
  <2>1. LastHas(memory[t], k, v)
    BY <1>3, <1>8 DEF MemoryWins
  <2>2. CASE t = "C"
    <3>1. LastHas(M, k, v)
      BY <2>1, <2>2
    <3>2. InMemory(k)
      <4>1. PICK i \in DOMAIN M : M[i].key = k
        BY <3>1 DEF LastHas
      <4> QED BY <1>4, <4>1, SeqFacts DEF InMemory
    <3>3. \A r \in ToSet(N) : r.key = k => r.val = v
      BY <1>6, <3>2
    <3> HIDE DEF M, v
    <3>4. M \in Seq(Records)
      BY <1>4 DEF M
    <3>5. LastHas(M \o N, k, v)
      BY <1>2, <3>1, <3>3, <3>4, LastAppend
    <3> QED BY <1>2, <1>3, <2>2, <3>5 DEF M, v
  <2>3. CASE t = "R"
    BY <1>3, <2>1, <2>3
  <2> QED BY <2>2, <2>3 DEF Types
<1> QED BY <1>7, <1>8 DEF MemoryWins

(* Every key that is wanted is in the memory, so that a push that begins   *)
(* has it before itself.                                                   *)
LEMMA AllAhead ==
    ASSUME TypeOK, MemoryWins, at = 0, NEW typ \in Types, NEW k \in Keys, want[typ][k] # None
    PROVE  \E i \in DOMAIN memory[typ] : i > at /\ memory[typ][i].key = k
<1>1. PICK i \in DOMAIN memory[typ] : memory[typ][i].key = k
  BY DEF MemoryWins, LastHas
<1>2. memory[typ] \in Seq(Records)
  BY DEF TypeOK
<1>3. i \in Nat /\ i >= 1
  BY <1>2, SeqFacts
<1> QED BY <1>1, <1>3

(* The record that is pushed is the last of its key, or another follows. *)
LEMMA RecWins ==
    ASSUME TypeOK, MemoryWins, NEW sys, NEW typ, Pushing(sys, typ),
           want[typ][Rec.key] # None
    PROVE  \/ \E i \in DOMAIN memory[typ] : i > at + 1 /\ memory[typ][i].key = Rec.key
           \/ Rec.val = want[typ][Rec.key]
<1>1. /\ typ \in Types /\ Rec = memory[typ][at + 1] /\ Rec \in Records /\ at + 1 \in DOMAIN memory[typ]
  BY RecOf
<1>2. Rec.key \in Keys
  BY <1>1 DEF Records
<1>3. LastHas(memory[typ], Rec.key, want[typ][Rec.key])
  BY <1>1, <1>2 DEF MemoryWins
<1> QED BY <1>1, <1>3 DEF LastHas

LEMMA PushTable ==
    ASSUME TypeOK, NEW i \in DOMAIN run.pushes
    PROVE  run.pushes[i].sys \in Systems /\ run.pushes[i].typ \in Types
<1>1. run.pushes \in Seq(Action)
  BY DataManAssumption DEF TypeOK, OptionSets
<1>2. run.pushes[i] \in Action
  BY <1>1, SeqFacts
<1> QED BY <1>2 DEF Action, Systems

LEMMA PairOf ==
    ASSUME NEW a, NEW b, NEW c, NEW d
    PROVE  <<a, b>> = <<c, d>> <=> a = c /\ b = d
  OBVIOUS

(* What is delivered to the other tables and under the other keys stays. *)
LEMMA OtherDelivered ==
    ASSUME TypeOK, MemoryWins, PushesWin, NEW sys, NEW typ, Pushing(sys, typ),
           UNCHANGED <<run, todo, want>>,
           \A x \in Tables, k \in Keys :
              x # <<sys, typ>> \/ k # Rec.key => wrote'[x][k] = wrote[x][k]
    PROVE  \A i \in DOMAIN run'.pushes :
              \/ Left("push", run.pushes[i].sys, run.pushes[i].typ)'
              \/ \A k \in Keys : Delivered(run.pushes[i].sys, run.pushes[i].typ, k)'
<1> SUFFICES ASSUME NEW i \in DOMAIN run.pushes
             PROVE  \/ Left("push", run.pushes[i].sys, run.pushes[i].typ)'
                    \/ \A k \in Keys : Delivered(run.pushes[i].sys, run.pushes[i].typ, k)'
  OBVIOUS
<1> DEFINE s == run.pushes[i].sys
           t == run.pushes[i].typ
<1>1. s \in Systems /\ t \in Types /\ UNCHANGED <<s, t>>
  BY PushTable
<1>2. Left("push", s, t) \/ \A k \in Keys : Delivered(s, t, k)
  BY DEF PushesWin
<1>3. todo # <<>> /\ Head(todo).step = "push" /\ Head(todo).sys = sys /\ Head(todo).typ = typ
  BY DEF Pushing, Now
<1>4. 1 \in DOMAIN todo /\ Head(todo) = todo[1]
  BY <1>3, TodoOf
<1> HIDE DEF s, t
<1>5. Left("push", s, t)' <=> Left("push", s, t)
  BY <1>1 DEF Left
<1>6. CASE s = sys /\ t = typ
  <2>1. Left("push", s, t)
    BY <1>3, <1>4, <1>6 DEF Left
  <2> QED BY <1>5, <2>1 DEF s, t
<1>7. CASE ~(s = sys /\ t = typ)
  <2>1. <<s, t>> # <<sys, typ>> /\ <<s, t>> \in Tables
    BY <1>1, <1>7, PairOf DEF Tables, Systems
  <2>2. \A k \in Keys : wrote'[<<s, t>>][k] = wrote[<<s, t>>][k]
    BY <2>1
  <2>3. \A k \in Keys : Delivered(s, t, k) => Delivered(s, t, k)'
    BY <1>1, <2>2 DEF Delivered
  <2>4. Left("push", s, t)' \/ \A k \in Keys : Delivered(s, t, k)'
    BY <1>2, <1>5, <2>3
  <2> QED BY <2>4 DEF s, t
<1> QED BY <1>6, <1>7

LEMMA Advanced ==
    ASSUME TypeOK, MemoryWins, PushesWin, NEW sys, NEW typ, Pushing(sys, typ),
           UNCHANGED <<run, todo, want>>, at' = at + 1, ~RefOpen',
           DOMAIN memory'[typ] = DOMAIN memory[typ],
           \A i \in DOMAIN memory[typ] : memory'[typ][i].key = memory[typ][i].key,
           wrote'[<<sys, typ>>][Rec.key] = Rec.val,
           \A x \in Tables, k \in Keys :
              x # <<sys, typ>> \/ k # Rec.key => wrote'[x][k] = wrote[x][k]
    PROVE  PushesWin'
<1>1. /\ todo # <<>> /\ Head(todo).step = "push" /\ Head(todo).sys = sys /\ Head(todo).typ = typ
  BY DEF Pushing, Now
<1>2. /\ typ \in Types /\ sys \in Systems /\ Rec = memory[typ][at + 1] /\ Rec \in Records
      /\ at + 1 \in DOMAIN memory[typ] /\ memory[typ] \in Seq(Records)
  BY RecOf
<1>3. at \in Nat /\ \A i \in DOMAIN memory[typ] : i \in Nat
  BY <1>2, SeqFacts DEF TypeOK
<1>4. Rec.key \in Keys /\ <<sys, typ>> \in Tables
  BY <1>2 DEF Records, Tables, Systems
<1>5. ASSUME NEW k \in Keys
      PROVE  \/ \E i \in DOMAIN memory'[typ] : i > at' /\ memory'[typ][i].key = k
             \/ Delivered(sys, typ, k)'
  <2>1. \/ \E i \in DOMAIN memory[typ] : i > at /\ memory[typ][i].key = k
        \/ Delivered(sys, typ, k)
    BY <1>1 DEF PushesWin
  <2>2. CASE \E i \in DOMAIN memory[typ] : i > at + 1 /\ memory[typ][i].key = k
    BY <2>2
  <2>3. CASE k = Rec.key /\ ~\E i \in DOMAIN memory[typ] : i > at + 1 /\ memory[typ][i].key = k
    <3>1. want[typ][k] # None => Rec.val = want[typ][k]
      BY <2>3, RecWins
    <3> QED BY <2>3, <3>1 DEF Delivered
  <2>4. CASE k # Rec.key /\ ~\E i \in DOMAIN memory[typ] : i > at + 1 /\ memory[typ][i].key = k
    <3>1. ~\E i \in DOMAIN memory[typ] : i > at /\ memory[typ][i].key = k
      BY <1>2, <1>3, <2>4
    <3>2. wrote'[<<sys, typ>>][k] = wrote[<<sys, typ>>][k]
      BY <1>4, <2>4
    <3> QED BY <2>1, <3>1, <3>2 DEF Delivered
  <2> QED BY <2>2, <2>3, <2>4
<1>6. \A i \in DOMAIN run'.pushes :
              \/ Left("push", run.pushes[i].sys, run.pushes[i].typ)'
              \/ \A k \in Keys : Delivered(run.pushes[i].sys, run.pushes[i].typ, k)'
  BY OtherDelivered
<1>7. \A k \in Keys :
             \/ \E i \in DOMAIN memory'[Head(todo').typ] : i > at' /\ memory'[Head(todo').typ][i].key = k
             \/ Delivered(Head(todo).sys, Head(todo).typ, k)'
  <2>1. Head(todo').typ = typ /\ UNCHANGED <<Head(todo).sys, Head(todo).typ>>
    BY <1>1
  <2>2. \A k \in Keys : Delivered(Head(todo).sys, Head(todo).typ, k)' <=> Delivered(sys, typ, k)'
    BY <1>1, <2>1 DEF Delivered
  <2> QED BY <1>5, <2>1, <2>2
<1> QED BY <1>6, <1>7 DEF PushesWin

(* What was not left of the run before an action, is not left after it. *)
LEMMA NextPush ==
    ASSUME TypeOK, MemoryWins', PushesWin, UNCHANGED <<run, wrote, stored, accounts, refs>>, TypeOK',
           todo # <<>>, todo' = Tail(todo), at' = 0, ~RefOpen',
           \/ /\ Head(todo).step = "push" /\ at = Len(memory[Head(todo).typ]) /\ UNCHANGED want
           \/ Head(todo).step = "compare" /\ UNCHANGED want
           \/ Head(todo).step = "pull" /\ Ordered(todo, run)
    PROVE  PushesWin'
<1>0. /\ 1 \in DOMAIN todo /\ Head(todo) = todo[1] /\ Head(todo) \in Entry
  BY TodoOf
<1>1. ASSUME NEW i \in DOMAIN run.pushes
      PROVE  \/ Left("push", run.pushes[i].sys, run.pushes[i].typ)'
             \/ \A k \in Keys : Delivered(run.pushes[i].sys, run.pushes[i].typ, k)'
  <2> DEFINE s == run.pushes[i].sys
             t == run.pushes[i].typ
  <2>1. UNCHANGED <<s, t>>
    OBVIOUS
  <2>2. Left("push", s, t) \/ \A k \in Keys : Delivered(s, t, k)
    BY DEF PushesWin
  <2>3. Head(todo).step = "pull" => LeftOf(todo, "push", s, t)
    BY <1>0 DEF Ordered
  <2> HIDE DEF s, t
  <2>4. Left("push", s, t)' <=> LeftOf(Tail(todo), "push", s, t)
    BY <2>1 DEF Left, LeftOf
  <2>5. /\ Left("push", s, t) <=> LeftOf(todo, "push", s, t)
        /\ LeftOf(todo, "push", s, t) =>
              \/ Head(todo).step = "push" /\ Head(todo).sys = s /\ Head(todo).typ = t
              \/ LeftOf(Tail(todo), "push", s, t)
    BY LeftTail
  <2>6. CASE LeftOf(Tail(todo), "push", s, t)
    BY <2>4, <2>6 DEF s, t
  <2>7. ASSUME NEW k \in Keys, ~LeftOf(Tail(todo), "push", s, t)
        PROVE  Delivered(s, t, k)'
    <3>1. Head(todo).step # "pull" /\ UNCHANGED want
      BY <2>3, <2>5, <2>7
    <3>2. CASE Delivered(s, t, k)
      BY <2>1, <3>1, <3>2 DEF Delivered
    <3>3. CASE ~Delivered(s, t, k)
      <4>1. Head(todo).step = "push" /\ Head(todo).sys = s /\ Head(todo).typ = t
        BY <2>2, <2>5, <2>7, <3>3
      <4>2. at = Len(memory[t])
        BY <4>1
      <4>3. \/ \E j \in DOMAIN memory[t] : j > at /\ memory[t][j].key = k
            \/ Delivered(s, t, k)
        BY <4>1 DEF PushesWin
      <4>4. t \in Types
        BY <1>0, <4>1 DEF Entry
      <4>5. memory[t] \in Seq(Records)
        BY <4>4 DEF TypeOK
      <4>6. \A j \in DOMAIN memory[t] : ~(j > at)
        BY <4>2, <4>5
      <4> QED BY <3>3, <4>3, <4>6
    <3> QED BY <3>2, <3>3
  <2> QED BY <2>6, <2>7 DEF s, t
<1>2. ASSUME todo' # <<>>, NEW k \in Keys
      PROVE  \/ \E i \in DOMAIN memory'[Head(todo').typ] :
                   i > at' /\ memory'[Head(todo').typ][i].key = k
             \/ Delivered(Head(todo).sys, Head(todo).typ, k)'
  <2> DEFINE t == Head(todo').typ
             s == Head(todo').sys
  <2>1. t \in Types
    <3>1. Head(todo') \in Entry
      BY <1>2, TodoOf, TypeOK'
    <3> QED BY <3>1 DEF Entry
  <2>2. want'[t][k] # None => \E i \in DOMAIN memory'[t] : i > at' /\ memory'[t][i].key = k
    <3>1. LastHas(memory'[t], k, want'[t][k]) \/ want'[t][k] = None
      BY <2>1 DEF MemoryWins
    <3>2. memory'[t] \in Seq(Records)
      BY <2>1 DEF TypeOK
    <3>3. \A i \in DOMAIN memory'[t] : i > 0
      <4> DEFINE M2 == memory'[t]
      <4>1. M2 \in Seq(Records)
        BY <3>2
      <4> HIDE DEF M2
      <4>2. \A i \in DOMAIN M2 : i \in Nat /\ i >= 1
        BY <4>1, SeqFacts
      <4>3. \A i \in DOMAIN M2 : i > 0
        BY <4>2
      <4> QED BY <4>3, Zenon DEF M2
    <3>4. want'[t][k] # None => \E i \in DOMAIN memory'[t] : memory'[t][i].key = k
      BY <3>1 DEF LastHas
    <3> QED BY <3>3, <3>4
  <2>3. want'[t][k] = None => Delivered(Head(todo).sys, Head(todo).typ, k)'
    BY DEF Delivered
  <2> QED BY <2>2, <2>3
<1> QED BY <1>1, <1>2 DEF PushesWin

LEMMA WinStep ==
    ASSUME TypeOK, InOrder, ErrorsTold, Clean => MemoryWins /\ PushesWin, Steps1, Clean', TypeOK'
    PROVE  MemoryWins' /\ PushesWin'
<1>0. exit' = "running" /\ ~errorLog' /\ ~skipped' /\ ~Misplaced'
  BY DEF Clean
<1>1. ASSUME exit = "running", ~errorLog, ~skipped, UNCHANGED run
      PROVE  /\ Clean /\ MemoryWins /\ PushesWin /\ Ordered(todo, run) /\ Position /\ at \in Nat
  <2>1. Misplaced' <=> Misplaced
    BY <1>1 DEF Misplaced
  <2> QED BY <1>0, <1>1, <2>1, InOrderIs DEF Clean, TypeOK
<1>2. ASSUME StartRun PROVE MemoryWins' /\ PushesWin'
  <2>1. /\ memory' = [t \in Types |-> <<>>] /\ RefOpen' = FALSE
        /\ want' = [t \in Types |-> Nothing]
    BY <1>2 DEF StartRun, Restart, RefOpen
  <2>2. \A t \in Types, k \in Keys : want'[t][k] = None
    BY <2>1 DEF Nothing
  <2>3. \A t \in Types : ToSet(memory'[t]) = {}
    BY <2>1 DEF ToSet
  <2>4. MemoryWins'
    BY <2>2, <2>3 DEF MemoryWins
  <2>5. \A s, t, k : (t \in Types /\ k \in Keys) => Delivered(s, t, k)'
    BY <2>2 DEF Delivered
  <2>6. ASSUME NEW i \in DOMAIN run'.pushes, NEW k \in Keys
        PROVE  Delivered(run.pushes[i].sys, run.pushes[i].typ, k)'
    <3>1. run'.pushes[i].typ \in Types
      <4>1. run'.pushes \in Seq(Action)
        BY TypeOK', DataManAssumption DEF TypeOK, OptionSets
      <4>2. run'.pushes[i] \in Action
        BY <4>1, SeqFacts
      <4> QED BY <4>2 DEF Action
    <3> QED BY <2>2, <3>1 DEF Delivered
  <2>7. ASSUME todo' # <<>>, NEW k \in Keys
        PROVE  Delivered(Head(todo).sys, Head(todo).typ, k)'
    <3>1. Head(todo') \in Entry
      <4>1. todo' \in Seq(Entry)
        BY DEF TypeOK
      <4> QED BY <2>7, <4>1
    <3>2. Head(todo').typ \in Types
      BY <3>1 DEF Entry
    <3> QED BY <2>2, <3>2 DEF Delivered
  <2> QED BY <2>1, <2>4, <2>6, <2>7 DEF PushesWin
<1>3. CASE StartDies \/ Finish \/ Died \/ NotImplemented
  BY <1>0, <1>3 DEF StartDies, Finish, SendNotification, Died, NotImplemented
<1>4. ASSUME PushDone PROVE MemoryWins' /\ PushesWin'
  <2>1. /\ exit = "running" /\ todo # <<>> /\ Head(todo).step = "push"
        /\ at = Len(memory[Head(todo).typ]) /\ at' = 0 /\ todo' = Tail(todo)
        /\ errorLog' = (errorLog \/ skipped)
        /\ UNCHANGED <<accounts, refs, stored, run, memory, RefOpen, want, wrote>>
    BY <1>4 DEF PushDone, sfVars, histVars, RefOpen
  <2>2. ~errorLog /\ ~skipped
    BY <1>0, <2>1
  <2>3. MemoryWins /\ PushesWin /\ Position
    BY <1>1, <2>1, <2>2
  <2>4. MemoryWins'
    BY <2>1, <2>3 DEF MemoryWins
  <2>5. ~RefOpen
    BY <2>1, <2>3 DEF Position, Now
  <2> QED BY <2>1, <2>3, <2>4, <2>5, NextPush
<1>5. ASSUME UNCHANGED <<exit, errorLog, skipped, run, todo, memory, at, RefOpen, want, wrote>>
      PROVE  MemoryWins' /\ PushesWin'
  <2>1. MemoryWins /\ PushesWin
    BY <1>0, <1>1, <1>5
  <2>2. PushesWin' <=> PushesWin
    BY <1>5 DEF PushesWin, Left, Delivered, Rec
  <2> QED BY <1>5, <2>1, <2>2 DEF MemoryWins
<1>6. ASSUME NEW sys \in Systems, NEW typ \in Types, NEW key \in Keys, Change(sys, typ, key)
      PROVE  MemoryWins' /\ PushesWin'
  <2>1. UNCHANGED <<progVars, want, wrote, RefOpen>>
    BY <1>6, ChangeOf DEF RefOpen
  <2> QED BY <1>5, <2>1 DEF progVars
<1>7. CASE Idle
  BY <1>5, <1>7 DEF Idle, Same1
<1>8. ASSUME NEW sys, NEW typ, NEW list, NEW match, NEW res, PullStep(sys, typ, list, match, res)
      PROVE  MemoryWins' /\ PushesWin'
  <2>1. /\ exit = "running" /\ todo # <<>> /\ Head(todo).step = "pull" /\ todo' = Tail(todo)
        /\ errorLog' = (errorLog \/ res.log) /\ UNCHANGED <<run, skipped, at, RefOpen, wrote, stored>>
        /\ UNCHANGED <<accounts, refs>>
    BY <1>8 DEF PullStep, PullInto, Now, Fetched
  <2>2. Clean /\ MemoryWins /\ PushesWin /\ Ordered(todo, run) /\ Position /\ at \in Nat
    BY <1>0, <1>1, <2>1
  <2>3. MemoryWins'
    BY <1>8, <2>2, MemoryPulled
  <2>4. at' = 0 /\ ~RefOpen'
    BY <2>1, <2>2 DEF Position, Now
  <2> QED BY <2>1, <2>2, <2>3, <2>4, NextPush
<1>9. ASSUME NEW sys, NEW typ, NEW res, CompareStep(sys, typ, res)
      PROVE  MemoryWins' /\ PushesWin'
  <2>1. /\ exit = "running" /\ todo # <<>> /\ Head(todo).step = "compare" /\ todo' = Tail(todo)
        /\ errorLog' = (errorLog \/ res.log)
        /\ UNCHANGED <<run, skipped, at, RefOpen, wrote, stored, want, memory>>
        /\ UNCHANGED <<accounts, refs>>
    BY <1>9 DEF CompareStep, CompareWith, Now, Fetched
  <2>2. MemoryWins /\ PushesWin /\ Position /\ at \in Nat
    BY <1>0, <1>1, <2>1
  <2>3. MemoryWins'
    BY <2>1, <2>2 DEF MemoryWins
  <2>4. at' = 0 /\ ~RefOpen'
    BY <2>1, <2>2 DEF Position, Now
  <2> QED BY <2>1, <2>2, <2>3, <2>4, NextPush
<1>10. ASSUME NEW sys, NEW typ, NEW applied, NEW sf, NEW err, PushStep(sys, typ, applied, sf, err)
       PROVE  MemoryWins' /\ PushesWin'
  <2>1. /\ Pushing(sys, typ) /\ exit = "running" /\ sys \in Systems /\ typ \in Types
        /\ todo # <<>> /\ Head(todo).sys = sys /\ Head(todo).typ = typ
        /\ <<sys, typ>> # <<"Sf", "C">>
        /\ Written(sys, typ, applied, sf) /\ AfterRecord(err) /\ (~err => applied)
        /\ UNCHANGED <<run, memory, RefOpen, exit, want>>
    BY <1>10 DEF PushStep, Pushing, Now
  <2>2. ~err /\ at' = at + 1 /\ UNCHANGED todo /\ ~errorLog /\ ~skipped
    BY <1>0, <2>1, NoError
  <2>3. MemoryWins /\ PushesWin /\ Position
    BY <1>1, <2>1, <2>2
  <2>4. MemoryWins'
    BY <2>1, <2>3 DEF MemoryWins
  <2>5. ~RefOpen'
    BY <2>1, <2>3, PairOf DEF Position, Now
  <2>6. Rec.key \in Keys /\ <<sys, typ>> \in Tables
    BY <2>1, RecOf DEF Records, Tables, Systems
  <2>7. wrote' = [wrote EXCEPT ![<<sys, typ>>][Rec.key] = Rec.val]
    BY <2>1, <2>2 DEF Written
  <2>8. /\ wrote'[<<sys, typ>>][Rec.key] = Rec.val
        /\ \A x \in Tables, k \in Keys :
              x # <<sys, typ>> \/ k # Rec.key => wrote'[x][k] = wrote[x][k]
    <3> DEFINE y == <<sys, typ>>
               V == Values \cup {None}
               key == Rec.key
               v == Rec.val
    <3>1. wrote \in [Tables -> [Keys -> V]] /\ y \in Tables /\ key \in Keys
          /\ wrote' = [wrote EXCEPT ![y][key] = v]
      BY <2>6, <2>7 DEF TypeOK
    <3> HIDE DEF y, V, key, v
    <3>2. /\ wrote'[y][key] = v
          /\ \A x \in Tables, k \in Keys : x # y \/ k # key => wrote'[x][k] = wrote[x][k]
      BY <3>1
    <3> QED BY <3>2 DEF y, key, v
  <2>9. PushesWin'
    BY <2>1, <2>2, <2>3, <2>5, <2>8, Advanced
  <2> QED BY <2>4, <2>9
<1>11. ASSUME NEW o, SfPushStep(o) PROVE MemoryWins' /\ PushesWin'
  <2>1. /\ Pushing("Sf", "C") /\ exit = "running" /\ ~RefOpen /\ UNCHANGED <<run, exit, want>>
        /\ todo # <<>> /\ Head(todo).step = "push" /\ Head(todo).sys = "Sf" /\ Head(todo).typ = "C"
    BY <1>11 DEF SfPushStep, Pushing, Now
  <2>2. /\ o = "done" /\ UNCHANGED todo /\ ~errorLog /\ ~skipped
        /\ (RefOpen' = TRUE /\ UNCHANGED at) \/ (RefOpen' = FALSE /\ at' = at + 1)
    <3>1. CASE o = "done" /\ RefOpen' = TRUE /\ UNCHANGED <<at, todo, skipped, errorLog, failed>>
      BY <1>0, <3>1
    <3>2. CASE UNCHANGED RefOpen /\ AfterRecord(o # "done")
      <4> DEFINE err == o # "done"
      <4>1. AfterRecord(err)
        BY <3>2
      <4> HIDE DEF err
      <4>2. ~err /\ at' = at + 1 /\ UNCHANGED todo /\ ~errorLog /\ ~skipped
        BY <1>0, <4>1, NoError
      <4>3. RefOpen' = FALSE
        BY <1>1, <2>1, <3>2, <4>2 DEF Position, Now, SfPushStep
      <4> QED BY <4>2, <4>3 DEF err
    <3> QED BY <1>11, <3>1, <3>2 DEF SfPushStep
  <2>3. MemoryWins /\ PushesWin /\ at \in Nat
    BY <1>1, <2>1, <2>2
  <2>4. /\ Rec \in Records /\ Rec = memory["C"][at + 1] /\ at + 1 \in DOMAIN memory["C"]
        /\ memory' \in [Types -> Seq(Records)]
        /\ memory'["R"] = memory["R"] /\ DOMAIN memory'["C"] = DOMAIN memory["C"]
        /\ \A i \in DOMAIN memory["C"] :
              /\ memory'["C"][i].key = memory["C"][i].key /\ memory'["C"][i].val = memory["C"][i].val
              /\ memory'["C"][i].typ = memory["C"][i].typ
    BY <1>11, SfPushOf
  <2>5. MemoryWins'
    BY <2>1, <2>3, <2>4, MemorySame
  <2>6. wrote' = [wrote EXCEPT ![<<"Sf", "C">>][Rec.key] = Rec.val]
    BY <1>11, <2>2 DEF SfPushStep, Applied
  <2>7. /\ wrote'[<<"Sf", "C">>][Rec.key] = Rec.val
        /\ \A x \in Tables, k \in Keys :
              x # <<"Sf", "C">> \/ k # Rec.key => wrote'[x][k] = wrote[x][k]
    <3> DEFINE y == <<"Sf", "C">>
               V == Values \cup {None}
               key == Rec.key
               v == Rec.val
    <3>1. wrote \in [Tables -> [Keys -> V]] /\ y \in Tables /\ key \in Keys
          /\ wrote' = [wrote EXCEPT ![y][key] = v]
      BY <2>4, <2>6 DEF TypeOK, Tables, Types, Records
    <3> HIDE DEF y, V, key, v
    <3>2. /\ wrote'[y][key] = v
          /\ \A x \in Tables, k \in Keys : x # y \/ k # key => wrote'[x][k] = wrote[x][k]
      BY <3>1
    <3> QED BY <3>2 DEF y, key, v
  <2>8. CASE RefOpen' = FALSE /\ at' = at + 1
    <3>1. PushesWin'
      BY <2>1, <2>2, <2>3, <2>4, <2>7, <2>8, Advanced
    <3> QED BY <2>5, <3>1
  <2>9. CASE RefOpen' = TRUE /\ UNCHANGED at
    <3>1. \A i \in DOMAIN run'.pushes :
              \/ Left("push", run.pushes[i].sys, run.pushes[i].typ)'
              \/ \A k \in Keys : Delivered(run.pushes[i].sys, run.pushes[i].typ, k)'
      BY <2>1, <2>2, <2>3, <2>7, OtherDelivered
    <3>2. ASSUME NEW k \in Keys
          PROVE  \/ \E i \in DOMAIN memory'["C"] : i > at' /\ memory'["C"][i].key = k
                 \/ Delivered("Sf", "C", k)'
      <4>1. CASE k = Rec.key
        <5>1. memory'["C"][at + 1].key = k /\ at + 1 > at'
          BY <2>3, <2>4, <2>9, <4>1
        <5> QED BY <2>4, <5>1
      <4>2. CASE k # Rec.key
        <5>1. \/ \E i \in DOMAIN memory["C"] : i > at /\ memory["C"][i].key = k
              \/ Delivered("Sf", "C", k)
          BY <2>1, <2>3 DEF PushesWin
        <5>2. <<"Sf", "C">> \in Tables
          BY DEF Tables, Types
        <5>3. wrote'[<<"Sf", "C">>][k] = wrote[<<"Sf", "C">>][k]
          BY <2>7, <4>2, <5>2
        <5>4. Delivered("Sf", "C", k) => Delivered("Sf", "C", k)'
          BY <2>1, <5>3 DEF Delivered
        <5> QED BY <2>4, <2>9, <5>1, <5>4
      <4> QED BY <4>1, <4>2
    <3>3. wrote'[<<"Sf", "C">>][Rec'.key] = Rec'.val
      <4>1. Rec' = memory'["C"][at + 1]
        BY <2>1, <2>2, <2>9 DEF Rec
      <4> QED BY <2>4, <2>7, <4>1
    <3>4. Head(todo').sys = "Sf" /\ Head(todo').typ = "C"
      BY <2>1, <2>2
    <3>5. \A k \in Keys : Delivered(Head(todo).sys, Head(todo).typ, k)' <=> Delivered("Sf", "C", k)'
      BY <3>4 DEF Delivered
    <3>6. PushesWin'
      BY <3>1, <3>2, <3>3, <3>4, <3>5 DEF PushesWin
    <3> QED BY <2>5, <3>6
  <2> QED BY <2>2, <2>8, <2>9
<1>12. ASSUME NEW o, RefStep(o) PROVE MemoryWins' /\ PushesWin'
  <2> DEFINE err == o # "done"
  <2>1. /\ Pushing("Sf", "C") /\ exit = "running" /\ RefOpen /\ RefOpen' = FALSE
        /\ AfterRecord(err) /\ UNCHANGED <<run, exit, want, wrote, memory>>
    BY <1>12 DEF RefStep, Pushing, Now
  <2> HIDE DEF err
  <2>2. ~err /\ at' = at + 1 /\ UNCHANGED todo /\ ~errorLog /\ ~skipped
    BY <1>0, <2>1, NoError
  <2>3. MemoryWins /\ PushesWin
    BY <1>1, <2>1, <2>2
  <2>4. MemoryWins'
    BY <2>1, <2>3 DEF MemoryWins
  <2>5. wrote'[<<"Sf", "C">>][Rec.key] = Rec.val
    BY <2>1, <2>3 DEF PushesWin
  <2>6. PushesWin'
    BY <2>1, <2>2, <2>3, <2>5, Advanced
  <2> QED BY <2>4, <2>6
<1>13. ASSUME NEW o, NEW made, NEW data, GuestStep(o, made, data)
       PROVE  MemoryWins' /\ PushesWin'
  <2> DEFINE err == o # "done"
  <2>1. /\ Pushing("Ass", "R") /\ exit = "running" /\ todo # <<>> /\ Head(todo).sys = "Ass"
        /\ AfterRecord(err) /\ UNCHANGED <<run, RefOpen, exit, want>>
    BY <1>13 DEF GuestStep, Pushing, Now
  <2> HIDE DEF err
  <2>2. ~err /\ at' = at + 1 /\ UNCHANGED todo /\ ~errorLog /\ ~skipped
    BY <1>0, <2>1, NoError
  <2>3. MemoryWins /\ PushesWin /\ Position
    BY <1>1, <2>1, <2>2
  <2>4. MemoryWins'
    BY <1>13, <2>3, MemoryGuests
  <2>5. ~RefOpen'
    BY <2>1, <2>3 DEF Position, Now
  <2>6. /\ Rec.key \in Keys /\ <<"Ass", "R">> \in Tables /\ memory'["R"] = memory["R"]
        /\ wrote' = [wrote EXCEPT ![<<"Ass", "R">>][Rec.key] = Rec.val]
    BY <1>13, <2>2, GuestOf DEF Records, Tables, Types, err
  <2>7. /\ wrote'[<<"Ass", "R">>][Rec.key] = Rec.val
        /\ \A x \in Tables, k \in Keys :
              x # <<"Ass", "R">> \/ k # Rec.key => wrote'[x][k] = wrote[x][k]
    <3> DEFINE y == <<"Ass", "R">>
               V == Values \cup {None}
               key == Rec.key
               v == Rec.val
    <3>1. wrote \in [Tables -> [Keys -> V]] /\ y \in Tables /\ key \in Keys
          /\ wrote' = [wrote EXCEPT ![y][key] = v]
      BY <2>6 DEF TypeOK
    <3> HIDE DEF y, V, key, v
    <3>2. /\ wrote'[y][key] = v
          /\ \A x \in Tables, k \in Keys : x # y \/ k # key => wrote'[x][k] = wrote[x][k]
      BY <3>1
    <3> QED BY <3>2 DEF y, key, v
  <2>8. PushesWin'
    BY <2>1, <2>2, <2>3, <2>5, <2>6, <2>7, Advanced
  <2> QED BY <2>4, <2>8
<1> QED BY <1>2, <1>3, <1>4, <1>6, <1>7, <1>8, <1>9, <1>10, <1>11, <1>12, <1>13 DEF Steps1, Systems

(* The exit code 0 is what a run ends with, or what it ended with. *)
LEMMA ZeroStep ==
    ASSUME Steps1, exit' = "0"
    PROVE  Finish \/ Idle
<1>1. ~StartRun /\ ~StartDies /\ ~Died
  BY DEF StartRun, StartDies, Died
<1>2. ~NotImplemented /\ ~PushDone
  BY DEF NotImplemented, PushDone
<1>3. \A sys, typ, key : ~Change(sys, typ, key)
  BY DEF Change, progVars
<1>4. \A sys, typ, list, match, res : ~PullStep(sys, typ, list, match, res)
  BY DEF PullStep, PullInto, Now
<1>5. \A sys, typ, res : ~CompareStep(sys, typ, res)
  BY DEF CompareStep, CompareWith, Now
<1>6. \A sys, typ, applied, sf, err : ~PushStep(sys, typ, applied, sf, err)
  BY DEF PushStep, Pushing, Now
<1>7. \A o : ~SfPushStep(o)
  BY DEF SfPushStep, Pushing, Now
<1>8. \A o : ~RefStep(o)
  BY DEF RefStep, Pushing, Now
<1>9. \A o, made, data : ~GuestStep(o, made, data)
  BY DEF GuestStep, Pushing, Now
<1> QED BY <1>1, <1>2, <1>3, <1>4, <1>5, <1>6, <1>7, <1>8, <1>9 DEF Steps1

LEMMA WonStep ==
    ASSUME TypeOK, ErrorsTold, Clean => MemoryWins /\ PushesWin, LastPullWins, Steps1
    PROVE  LastPullWins'
<1> SUFFICES ASSUME exit' = "0", ~Misplaced' PROVE LastPullWins'
  BY DEF LastPullWins
<1>1. CASE Finish
  <2>1. /\ exit = "running" /\ todo = <<>> /\ UNCHANGED <<run, want, wrote, errorLog>>
        /\ ~errorLog
    BY <1>1 DEF Finish, SendNotification, histVars
  <2>2. ~skipped
    BY <2>1 DEF ErrorsTold
  <2>3. ~Misplaced
    BY <2>1 DEF Misplaced
  <2>4. PushesWin
    BY <2>1, <2>2, <2>3 DEF Clean
  <2>5. \A step, sys, typ : ~Left(step, sys, typ)
    BY <2>1 DEF Left
  <2>6. \A i \in DOMAIN run.pushes, k \in Keys : Delivered(run.pushes[i].sys, run.pushes[i].typ, k)
    BY <2>4, <2>5 DEF PushesWin
  <2> QED BY <2>1, <2>6 DEF LastPullWins, Delivered
<1>2. CASE Idle
  <2>1. UNCHANGED <<exit, run, want, wrote>>
    BY <1>2 DEF Idle, Same1
  <2>2. ~Misplaced
    BY <2>1 DEF Misplaced
  <2> QED BY <2>1, <2>2 DEF LastPullWins
<1> QED BY <1>1, <1>2, ZeroStep

LEMMA WinInit == Init => (Clean => MemoryWins /\ PushesWin) /\ LastPullWins
  BY DEF Init, Clean, LastPullWins

(* The invariant that the memory and the pushes keep. *)
THEOREM WinInvariant == Spec => [](WinInv /\ ErrorsTold)
<1>1. Init => WinInv /\ ErrorsTold
  <2>1. Init => ErrorsTold
    BY DEF Init, ErrorsTold
  <2> QED BY <2>1, TypeInit, OrderInit, WinInit DEF WinInv
<1>2. WinInv /\ ErrorsTold /\ [Next]_vars => (WinInv /\ ErrorsTold)'
  <2> SUFFICES ASSUME WinInv, ErrorsTold, Steps1 PROVE WinInv' /\ ErrorsTold'
    BY Kinds
  <2>1. TypeOK' /\ InOrder' /\ ErrorsTold'
    BY TypeStep, OrderStep, ToldStep DEF WinInv
  <2>2. (Clean => MemoryWins /\ PushesWin)'
    BY <2>1, WinStep DEF WinInv
  <2> QED BY <2>1, <2>2 DEF WinInv
<1> QED BY <1>1, <1>2, PTL DEF Spec

(* README.md:486-489: the pulls come before the pushes, and a system that  *)
(* was pushed onto has, after a run without an error, the value of the     *)
(* pull that was the last to bring a record.                               *)
THEOREM LastPullIsPushed == Spec => []LastPullWins
<1>1. Init => LastPullWins
  BY WinInit
<1>2. WinInv /\ ErrorsTold /\ LastPullWins /\ [Next]_vars => LastPullWins'
  BY Kinds, WonStep DEF WinInv
<1> QED BY <1>1, <1>2, WinInvariant, PTL DEF Spec

-----------------------------------------------------------------------------
(* The ids of Salesforce.                                                  *)

(* No account goes away, or to another client. *)
Grows ==
    \A i \in DOMAIN accounts : i \in DOMAIN accounts' /\ accounts'[i].key = accounts[i].key

LEMMA SfAccounts ==
    ASSUME TypeOK, IdsRight, NEW o, SfPushStep(o)
    PROVE  /\ Grows
           /\ Rec.sf # NoId => Rec.sf \in DOMAIN accounts /\ accounts[Rec.sf].key = Rec.key
           /\ ~Applied(o) => UNCHANGED accounts
           /\ Applied(o) /\ Rec.sf # NoId =>
                 /\ DOMAIN accounts' = DOMAIN accounts /\ accounts'[Rec.sf] = Account(Rec)
                 /\ \A i \in DOMAIN accounts : i # Rec.sf => accounts'[i] = accounts[i]
           /\ Applied(o) /\ Rec.sf = NoId =>
                 /\ DOMAIN accounts' = DOMAIN accounts \cup {Len(accounts) + 1}
                 /\ accounts'[Len(accounts) + 1] = Account(Rec)
                 /\ \A i \in DOMAIN accounts : accounts'[i] = accounts[i]
           /\ Rec.typ = "C" /\ Len(accounts) \in Nat
<1>1. Rec \in Records /\ Rec = memory["C"][at + 1] /\ at + 1 \in DOMAIN memory["C"]
  BY SfPushOf
<1>2. Rec \in ToSet(memory["C"])
  BY <1>1 DEF ToSet
<1>3. Rec.typ = "C" /\ IdOf(Rec.key, Rec.sf)
  BY <1>2 DEF IdsRight, Types
<1> DEFINE A == [key : Keys, val : Values]
           a == Account(Rec)
           id == Rec.sf
<1>4. accounts \in Seq(A) /\ a \in A /\ a.key = Rec.key
  BY <1>1 DEF TypeOK, Account, Records
<1>5. IF ~Applied(o) THEN UNCHANGED accounts
      ELSE IF id # NoId THEN accounts' = [accounts EXCEPT ![id] = a]
      ELSE accounts' = Append(accounts, a)
  BY DEF SfPushStep
<1>6. id # NoId => id \in DOMAIN accounts /\ accounts[id].key = Rec.key
  BY <1>3 DEF IdOf
<1> HIDE DEF A, a, id
<1>7. Len(accounts) \in Nat /\ DOMAIN accounts = 1 .. Len(accounts)
  BY <1>4, SeqFacts
<1>8. Applied(o) /\ id # NoId =>
                 /\ DOMAIN accounts' = DOMAIN accounts /\ accounts'[id] = a
                 /\ \A i \in DOMAIN accounts : i # id => accounts'[i] = accounts[i]
  BY <1>4, <1>5, <1>6
<1>9. Applied(o) /\ id = NoId =>
                 /\ DOMAIN accounts' = DOMAIN accounts \cup {Len(accounts) + 1}
                 /\ accounts'[Len(accounts) + 1] = a
                 /\ \A i \in DOMAIN accounts : accounts'[i] = accounts[i]
  <2> SUFFICES ASSUME Applied(o), id = NoId
               PROVE  /\ DOMAIN accounts' = DOMAIN accounts \cup {Len(accounts) + 1}
                      /\ accounts'[Len(accounts) + 1] = a
                      /\ \A i \in DOMAIN accounts : accounts'[i] = accounts[i]
    OBVIOUS
  <2>1. accounts' = Append(accounts, a)
    BY <1>5
  <2>2. /\ accounts' \in Seq(A) /\ Len(accounts') = Len(accounts) + 1
        /\ \A i \in 1 .. Len(accounts) : accounts'[i] = accounts[i]
        /\ accounts'[Len(accounts) + 1] = a
    BY <1>4, <2>1, AppendProperties
  <2>3. DOMAIN accounts' = 1 .. (Len(accounts) + 1)
    BY <2>2
  <2>4. 1 .. (Len(accounts) + 1) = 1 .. Len(accounts) \cup {Len(accounts) + 1}
    BY <1>7
  <2> QED BY <1>7, <2>2, <2>3, <2>4
<1>10. Grows
  <2>1. CASE ~Applied(o)
    BY <1>5, <2>1 DEF Grows
  <2>2. CASE Applied(o) /\ id # NoId
    BY <1>4, <1>6, <1>8, <2>2 DEF Grows
  <2>3. CASE Applied(o) /\ id = NoId
    BY <1>9, <2>3 DEF Grows
  <2> QED BY <2>1, <2>2, <2>3
<1> QED BY <1>3, <1>5, <1>6, <1>7, <1>8, <1>9, <1>10 DEF a, id

(* The id that the record holds after the push is that of its account. *)
LEMMA SfIdAfter ==
    ASSUME TypeOK, IdsRight, NEW o, SfPushStep(o), IdAfterUpsert(Rec, o) # NoId
    PROVE  /\ IdAfterUpsert(Rec, o) \in DOMAIN accounts'
           /\ accounts'[IdAfterUpsert(Rec, o)] = Account(Rec)
<1>1. o = "done" /\ Applied(o)
  BY DEF IdAfterUpsert, Applied
<1>2. IdAfterUpsert(Rec, o) = IF Rec.sf # NoId THEN Rec.sf ELSE Len(accounts) + 1
  BY <1>1 DEF IdAfterUpsert
<1> DEFINE id == IdAfterUpsert(Rec, o)
           a == Account(Rec)
<1>3. CASE Rec.sf # NoId
  BY <1>1, <1>2, <1>3, SfAccounts
<1>4. CASE Rec.sf = NoId
  BY <1>1, <1>2, <1>4, SfAccounts
<1> QED BY <1>3, <1>4

LEMMA StepGrows ==
    ASSUME TypeOK, IdsRight, Steps1
    PROVE  Grows
<1>1. UNCHANGED accounts => Grows
  BY DEF Grows
<1>2. CASE StartRun \/ StartDies \/ Finish \/ NotImplemented \/ PushDone \/ Died \/ Idle
  <2>1. UNCHANGED accounts
    BY <1>2 DEF StartRun, StartDies, Restart, Finish, NotImplemented, PushDone, Died, Idle, Same1, sfVars
  <2> QED BY <1>1, <2>1
<1>3. ASSUME NEW sys \in Systems, NEW typ \in Types, NEW key \in Keys, Change(sys, typ, key)
      PROVE  Grows
  BY <1>3, ChangeOf DEF Grows
<1>4. ASSUME NEW sys, NEW typ, NEW list, NEW match, NEW res, PullStep(sys, typ, list, match, res)
      PROVE  Grows
  BY <1>1, <1>4 DEF PullStep, Fetched
<1>5. ASSUME NEW sys, NEW typ, NEW res, CompareStep(sys, typ, res)
      PROVE  Grows
  BY <1>1, <1>5 DEF CompareStep, Fetched
<1>6. ASSUME NEW sys, NEW typ, NEW applied, NEW sf, NEW err, PushStep(sys, typ, applied, sf, err)
      PROVE  Grows
  BY <1>1, <1>6 DEF PushStep
<1>7. ASSUME NEW o, SfPushStep(o) PROVE Grows
  BY <1>7, SfAccounts
<1>8. ASSUME NEW o, RefStep(o) PROVE Grows
  BY <1>1, <1>8 DEF RefStep
<1>9. ASSUME NEW o, NEW made, NEW data, GuestStep(o, made, data) PROVE Grows
  BY <1>1, <1>9 DEF GuestStep
<1> QED BY <1>2, <1>3, <1>4, <1>5, <1>6, <1>7, <1>8, <1>9 DEF Steps1, Systems

LEMMA IdGrows ==
    ASSUME Grows, NEW k, NEW id, IdOf(k, id)
    PROVE  id # NoId => id \in DOMAIN accounts' /\ accounts'[id].key = k
  BY DEF Grows, IdOf

LEMMA IdsNext ==
    ASSUME \A x \in Tables, k \in Keys : x[2] = "C" /\ stored'[x][k] # None =>
              (stored'[x][k].sf # NoId =>
                  stored'[x][k].sf \in DOMAIN accounts' /\ accounts'[stored'[x][k].sf].key = k),
           \A t \in Types : \A r \in ToSet(memory'[t]) : r.typ = "C" =>
              (r.sf # NoId => r.sf \in DOMAIN accounts' /\ accounts'[r.sf].key = r.key),
           \A r \in ToSet(memory'["C"]) : r.typ = "C",
           RefOpen' => Rec'.sf # NoId
    PROVE  IdsRight'
  BY DEF IdsRight, IdOf

LEMMA PulledIds ==
    ASSUME TypeOK, IdsRight, NEW sys, NEW res, Fetched(sys, "C", res), NEW r \in ToSet(res.recs)
    PROVE  IdOf(r.key, r.sf) /\ r.typ = "C"
<1>1. /\ res.recs \in Seq(Records) /\ sys \in Systems
      /\ \A q \in ToSet(res.recs) : q.typ = "C"
      /\ res.recs = <<>> \/ res.recs = TableRows(sys, "C")
  BY FetchedOf DEF Fetched
<1>2. PICK i \in DOMAIN res.recs : r = res.recs[i]
  BY <1>1, SeqFacts
<1>3. res.recs = TableRows(sys, "C")
  BY <1>1, <1>2
<1>4. "C" \in Types
  BY DEF Types
<1>5. CASE sys = "Sf"
  <2>1. res.recs = AccountRows
    BY <1>3, <1>5 DEF TableRows
  <2>2. i \in DOMAIN accounts /\ r.key = accounts[i].key /\ r.sf = i
    BY <1>2, <2>1, AccountRowsOf
  <2> QED BY <1>1, <2>2 DEF IdOf
<1>6. CASE sys # "Sf"
  <2>1. res.recs = Rows(sys, "C")
    BY <1>3, <1>6 DEF TableRows
  <2>2. stored[<<sys, "C">>][r.key] # None /\ r.sf = stored[<<sys, "C">>][r.key].sf
    BY <1>1, <1>2, <1>4, <2>1, RowsOf
  <2>3. r.key \in Keys
    <3>1. r \in Records
      BY <1>1, <2>1, SeqFacts
    <3> QED BY <3>1 DEF Records
  <2>4. <<sys, "C">> \in Tables /\ <<sys, "C">>[2] = "C"
    BY <1>1 DEF Tables, Systems, Types
  <2>5. IdOf(r.key, stored[<<sys, "C">>][r.key].sf)
    BY <2>2, <2>3, <2>4 DEF IdsRight
  <2> QED BY <1>1, <2>2, <2>5
<1> QED BY <1>5, <1>6

(* What a push writes, and what it leaves. *)
LEMMA WrittenIs ==
    ASSUME TypeOK, NEW sys \in Systems, NEW typ \in Types, Rec \in Records, NEW sf,
           Written(sys, typ, TRUE, sf)
    PROVE  /\ stored'[<<sys, typ>>][Rec.key] = [val |-> Rec.val, sf |-> sf]
           /\ wrote'[<<sys, typ>>][Rec.key] = Rec.val
           /\ \A x \in Tables, k \in Keys :
                 x # <<sys, typ>> \/ k # Rec.key =>
                     wrote'[x][k] = wrote[x][k] /\ stored'[x][k] = stored[x][k]
<1> DEFINE y == <<sys, typ>>
           key == Rec.key
           v == Rec.val
           d == [val |-> Rec.val, sf |-> sf]
           V == Values \cup {None}
           D == Data \cup {None}
<1>1. /\ wrote \in [Tables -> [Keys -> V]] /\ stored \in [Tables -> [Keys -> D]]
      /\ y \in Tables /\ key \in Keys
  BY DEF TypeOK, Tables, Systems, Types, Records
<1>2. wrote' = [wrote EXCEPT ![y][key] = v] /\ stored' = [stored EXCEPT ![y][key] = d]
  BY DEF Written
<1> HIDE DEF y, key, v, d, V, D
<1>3. /\ stored'[y][key] = d /\ wrote'[y][key] = v
      /\ \A x \in Tables, k \in Keys :
            x # y \/ k # key => wrote'[x][k] = wrote[x][k] /\ stored'[x][k] = stored[x][k]
  BY <1>1, <1>2
<1> QED BY <1>3 DEF y, key, v, d

LEMMA WrittenNot ==
    ASSUME NEW sys, NEW typ, NEW applied, NEW sf, Written(sys, typ, applied, sf)
    PROVE  Written(sys, typ, TRUE, sf) \/ UNCHANGED <<stored, wrote>>
  BY DEF Written

LEMMA IdsStep ==
    ASSUME TypeOK, InOrder, IdsRight, Steps1, TypeOK'
    PROVE  IdsRight'
<1>0. Grows
  BY StepGrows
<1>1. /\ \A x \in Tables, k \in Keys : x[2] = "C" /\ stored[x][k] # None =>
            (stored[x][k].sf # NoId =>
               stored[x][k].sf \in DOMAIN accounts' /\ accounts'[stored[x][k].sf].key = k)
      /\ \A t \in Types : \A r \in ToSet(memory[t]) : r.typ = "C" =>
            (r.sf # NoId => r.sf \in DOMAIN accounts' /\ accounts'[r.sf].key = r.key)
      /\ \A r \in ToSet(memory["C"]) : r.typ = "C"
      /\ RefOpen => Rec.sf # NoId
  BY <1>0, IdGrows DEF IdsRight
<1>2. "C" \in Types /\ "R" \in Types
  BY DEF Types
<1>3. ASSUME UNCHANGED <<stored, memory>>, RefOpen' => RefOpen /\ UNCHANGED <<todo, at>>
      PROVE  IdsRight'
  <2>1. RefOpen' => Rec'.sf # NoId
    BY <1>1, <1>3 DEF Rec
  <2> QED BY <1>1, <1>3, <2>1, IdsNext
<1>4. exit = "running" => (Position /\ (at > 0 \/ at = 0))
  BY InOrderIs DEF TypeOK
<1>5. CASE StartRun \/ StartDies
  <2>1. memory' = [t \in Types |-> <<>>] /\ RefOpen' = FALSE /\ UNCHANGED stored
    BY <1>5 DEF StartRun, StartDies, Restart, RefOpen
  <2>2. \A t \in Types : ToSet(memory'[t]) = {}
    BY <2>1 DEF ToSet
  <2> QED BY <1>1, <1>2, <2>1, <2>2, IdsNext
<1>6. CASE Finish \/ Died \/ Idle
  <2>1. UNCHANGED <<stored, memory, RefOpen, todo, at>>
    BY <1>6 DEF Finish, Died, Idle, Same1, sfVars, RefOpen
  <2> QED BY <1>3, <2>1
<1>7. CASE NotImplemented
  <2>1. UNCHANGED <<stored, memory, RefOpen>> /\ ~RefOpen
    BY <1>4, <1>7 DEF NotImplemented, Position, Now, Implemented, sfVars, RefOpen
  <2> QED BY <1>3, <2>1
<1>8. CASE PushDone
  <2>1. UNCHANGED <<stored, memory, RefOpen>> /\ ~RefOpen
    BY <1>4, <1>8 DEF PushDone, Position, Now, sfVars, RefOpen
  <2> QED BY <1>3, <2>1
<1>9. ASSUME NEW sys \in Systems, NEW typ \in Types, NEW key \in Keys, Change(sys, typ, key)
      PROVE  IdsRight'
  <2>1. /\ \A x \in Tables, k \in Keys :
                /\ stored'[x][k] = None <=> stored[x][k] = None
                /\ stored'[x][k].sf = stored[x][k].sf
        /\ UNCHANGED <<memory, RefOpen, todo, at>>
    BY <1>9, ChangeOf DEF progVars, RefOpen
  <2>2. RefOpen' => Rec'.sf # NoId
    BY <1>1, <2>1 DEF Rec
  <2> QED BY <1>1, <2>1, <2>2, IdsNext
<1>10. ASSUME NEW sys, NEW typ, NEW list, NEW match, NEW res, PullStep(sys, typ, list, match, res)
       PROVE  IdsRight'
  <2>1. /\ exit = "running" /\ Head(todo).step = "pull" /\ UNCHANGED <<RefOpen, stored, accounts>>
        /\ memory' = [memory EXCEPT ![list] = Merged(@, res.recs, match)]
        /\ Fetched(sys, typ, res) /\ typ \in Types /\ list \in Types /\ match \in BOOLEAN
        /\ list = "C" => sys \in {"Acu", "Ass"}
        /\ list # typ => sys \in {"Sf", "Sh"}
    BY <1>10 DEF PullStep, PullInto, Now, Fetched
  <2>2. ~RefOpen'
    BY <1>4, <2>1 DEF Position, Now
  <2>3. memory[list] \in Seq(Records) /\ res.recs \in Seq(Records)
        /\ (\A r \in ToSet(res.recs) : r.typ = typ)
        /\ memory'[list] = Merged(memory[list], res.recs, match)
        /\ \A t \in Types : t # list => memory'[t] = memory[t]
    BY <2>1, FetchedOf DEF TypeOK
  <2>4. ASSUME NEW t \in Types, NEW r \in ToSet(memory'[t])
        PROVE  r \in ToSet(memory[t]) \/ (t = list /\ r \in ToSet(res.recs))
    <3>1. CASE t = list
      <4> DEFINE M == memory[list]
      <4>1. M \in Seq(Records) /\ r \in ToSet(Merged(M, res.recs, match))
        BY <2>3, <2>4, <3>1
      <4> HIDE DEF M
      <4>2. r \in ToSet(M) \/ r \in ToSet(res.recs)
        BY <2>1, <2>3, <4>1, MergedOf
      <4> QED BY <3>1, <4>2 DEF M
    <3>2. CASE t # list
      BY <2>3, <2>4, <3>2
    <3> QED BY <3>1, <3>2
  <2>5. ASSUME NEW t \in Types, NEW r \in ToSet(memory'[t]), r.typ = "C", r.sf # NoId
        PROVE  r.sf \in DOMAIN accounts' /\ accounts'[r.sf].key = r.key
    <3>1. CASE r \in ToSet(memory[t])
      BY <1>1, <2>5, <3>1
    <3>2. CASE r \in ToSet(res.recs)
      <4>1. typ = "C"
        BY <2>3, <2>5, <3>2
      <4>2. IdOf(r.key, r.sf)
        BY <2>1, <3>2, <4>1, PulledIds
      <4> QED BY <1>0, <2>5, <4>2, IdGrows
    <3> QED BY <2>4, <3>1, <3>2
  <2>6. ASSUME NEW r \in ToSet(memory'["C"]) PROVE r.typ = "C"
    <3>1. list = "C" => typ = "C"
      BY <2>1
    <3> QED BY <1>1, <1>2, <2>3, <2>4, <3>1
  <2> QED BY <1>1, <2>1, <2>2, <2>5, <2>6, IdsNext
<1>11. ASSUME NEW sys, NEW typ, NEW res, CompareStep(sys, typ, res)
       PROVE  IdsRight'
  <2>1. /\ exit = "running" /\ Head(todo).step = "compare"
        /\ UNCHANGED <<RefOpen, stored, accounts, memory>>
    BY <1>11 DEF CompareStep, CompareWith, Now, Fetched
  <2>2. ~RefOpen'
    BY <1>4, <2>1 DEF Position, Now
  <2> QED BY <1>3, <2>1, <2>2
<1>12. ASSUME NEW sys, NEW typ, NEW applied, NEW sf, NEW err, PushStep(sys, typ, applied, sf, err)
       PROVE  IdsRight'
  <2>1. /\ exit = "running" /\ UNCHANGED <<RefOpen, memory, accounts>> /\ sys \in Systems /\ typ \in Types
        /\ <<sys, typ>> # <<"Sf", "C">> /\ Head(todo).sys = sys /\ Head(todo).typ = typ
        /\ sf \in {NoId, Rec.sf} \/ (typ = "C" /\ sf = KeptId(sys))
        /\ Pushing(sys, typ) /\ Written(sys, typ, applied, sf)
    BY <1>12 DEF PushStep, Pushing, Now
  <2>2. ~RefOpen'
    BY <1>4, <2>1, PairOf DEF Position, Now
  <2>3. CASE UNCHANGED stored
    BY <1>3, <2>1, <2>2, <2>3
  <2>4. CASE Written(sys, typ, TRUE, sf)
    <3>1. /\ Rec \in Records /\ Rec = memory[typ][at + 1] /\ at + 1 \in DOMAIN memory[typ]
      BY <2>1, RecOf
    <3>2. /\ stored'[<<sys, typ>>][Rec.key] = [val |-> Rec.val, sf |-> sf]
          /\ wrote'[<<sys, typ>>][Rec.key] = Rec.val
          /\ \A x \in Tables, k \in Keys :
                x # <<sys, typ>> \/ k # Rec.key =>
                    wrote'[x][k] = wrote[x][k] /\ stored'[x][k] = stored[x][k]
      <4>1. Rec \in Records /\ sys \in Systems /\ typ \in Types
        BY <2>1, <3>1
      <4> QED BY <2>4, <4>1, WrittenIs, Zenon
    <3>3. stored'[<<sys, typ>>][Rec.key].sf = sf
      BY <3>2
    <3>4. ASSUME typ = "C", sf # NoId PROVE sf \in DOMAIN accounts' /\ accounts'[sf].key = Rec.key
      <4>1. Rec \in ToSet(memory["C"]) /\ Rec.key \in Keys
        BY <3>1, <3>4 DEF ToSet, Records
      <4>2. CASE sf = Rec.sf
        BY <1>1, <1>2, <3>4, <4>1, <4>2
      <4>3. CASE sf = KeptId(sys)
        <5>1. sf = stored[<<sys, "C">>][Rec.key].sf /\ stored[<<sys, "C">>][Rec.key] # None
          BY <3>4, <4>3 DEF KeptId
        <5>2. <<sys, "C">> \in Tables /\ <<sys, "C">>[2] = "C"
          BY <2>1 DEF Tables, Systems, Types
        <5> QED BY <1>1, <3>4, <4>1, <5>1, <5>2
      <4> QED BY <2>1, <3>4, <4>2, <4>3
    <3>5. ASSUME NEW x \in Tables, NEW k \in Keys, x[2] = "C", stored'[x][k] # None,
                 stored'[x][k].sf # NoId
          PROVE  stored'[x][k].sf \in DOMAIN accounts' /\ accounts'[stored'[x][k].sf].key = k
      <4>1. CASE x = <<sys, typ>> /\ k = Rec.key
        <5>1. typ = "C"
          BY <3>5, <4>1
        <5> QED BY <3>3, <3>4, <3>5, <4>1, <5>1
      <4>2. CASE ~(x = <<sys, typ>> /\ k = Rec.key)
        <5>1. stored'[x][k] = stored[x][k]
          BY <3>2, <4>2
        <5> QED BY <1>1, <3>5, <5>1
      <4> QED BY <4>1, <4>2
    <3> QED BY <1>1, <2>1, <2>2, <3>5, IdsNext
  <2> QED BY <2>1, <2>3, <2>4, WrittenNot
<1>13. ASSUME NEW o, SfPushStep(o) PROVE IdsRight'
  <2>1. /\ Rec \in Records /\ Rec = memory["C"][at + 1] /\ at + 1 \in DOMAIN memory["C"]
        /\ memory'["R"] = memory["R"] /\ DOMAIN memory'["C"] = DOMAIN memory["C"]
        /\ \A i \in DOMAIN memory["C"] :
                /\ memory'["C"][i].key = memory["C"][i].key
                /\ memory'["C"][i].typ = memory["C"][i].typ
                /\ i # at + 1 => memory'["C"][i] = memory["C"][i]
        /\ memory'["C"][at + 1].sf = IdAfterUpsert(Rec, o)
    BY <1>13, SfPushOf
  <2>2. /\ UNCHANGED stored /\ Head(todo).typ = "C"
        /\ RefOpen' => o = "done" /\ UNCHANGED <<at, todo>>
    BY <1>13 DEF SfPushStep, Pushing, Now
  <2>3. IdAfterUpsert(Rec, o) # NoId =>
          /\ IdAfterUpsert(Rec, o) \in DOMAIN accounts'
          /\ accounts'[IdAfterUpsert(Rec, o)].key = Rec.key
    BY <1>13, SfIdAfter DEF Account
  <2>4. ASSUME NEW r \in ToSet(memory'["C"])
        PROVE  /\ r.typ = "C"
               /\ r.sf # NoId => r.sf \in DOMAIN accounts' /\ accounts'[r.sf].key = r.key
    <3>1. PICK i \in DOMAIN memory'["C"] : r = memory'["C"][i]
      BY <2>4 DEF ToSet
    <3>2. i \in DOMAIN memory["C"] /\ memory["C"][i] \in ToSet(memory["C"])
      BY <2>1, <3>1 DEF ToSet
    <3>3. r.typ = "C"
      BY <1>1, <2>1, <3>1, <3>2
    <3>4. CASE i = at + 1
      BY <2>1, <2>3, <3>1, <3>3, <3>4
    <3>5. CASE i # at + 1
      <4>1. r \in ToSet(memory["C"])
        BY <2>1, <3>1, <3>2, <3>5
      <4> QED BY <1>1, <1>2, <3>3, <4>1
    <3> QED BY <3>4, <3>5
  <2>5. RefOpen' => Rec'.sf # NoId
    <3> SUFFICES ASSUME RefOpen' PROVE Rec'.sf # NoId
      OBVIOUS
    <3>1. Rec' = memory'["C"][at + 1] /\ o = "done"
      BY <2>2 DEF Rec
    <3>2. IdAfterUpsert(Rec, o) = IF Rec.sf # NoId THEN Rec.sf ELSE Len(accounts) + 1
      BY <3>1 DEF IdAfterUpsert
    <3>3. Len(accounts) \in Nat
      BY <1>13, SfAccounts
    <3> QED BY <2>1, <3>1, <3>2, <3>3 DEF NoId
  <2>6. ASSUME NEW t \in Types, NEW r \in ToSet(memory'[t]), r.typ = "C", r.sf # NoId
        PROVE  r.sf \in DOMAIN accounts' /\ accounts'[r.sf].key = r.key
    <3>1. CASE t = "C"
      BY <2>4, <2>6, <3>1
    <3>2. CASE t = "R"
      BY <1>1, <1>2, <2>1, <2>6, <3>2
    <3> QED BY <3>1, <3>2 DEF Types
  <2> QED BY <1>1, <2>2, <2>4, <2>5, <2>6, IdsNext
<1>14. ASSUME NEW o, RefStep(o) PROVE IdsRight'
  BY <1>3, <1>14 DEF RefStep
<1>15. ASSUME NEW o, NEW made, NEW data, GuestStep(o, made, data) PROVE IdsRight'
  <2>1. GuestRows(o, made) /\ memory'["R"] = memory["R"] /\ \E N : NewGuests(N, made)
    BY <1>15, GuestOf
  <2>2. ~RefOpen'
    BY <1>4, <1>15 DEF GuestStep, Pushing, Position, Now
  <2>3. ASSUME NEW x \in Tables, NEW k \in Keys, x[2] = "C", stored'[x][k] # None,
               stored'[x][k].sf # NoId
        PROVE  stored'[x][k].sf \in DOMAIN accounts' /\ accounts'[stored'[x][k].sf].key = k
    <3>1. x # <<"Ass", "R">>
      BY <2>3
    <3>2. stored'[x][k] = stored[x][k]
      BY <2>1, <2>3, <3>1 DEF GuestRows
    <3> QED BY <1>1, <2>3, <3>2
  <2>4. PICK N : NewGuests(N, made)
    BY <2>1
  <2>5. ASSUME NEW r \in ToSet(memory'["C"])
        PROVE  r \in ToSet(memory["C"]) \/ (r.typ = "C" /\ r.sf = NoId)
    <3>1. memory["C"] \in Seq(Records) /\ N \in Seq(Records) /\ memory'["C"] = memory["C"] \o N
      BY <1>2, <2>4 DEF NewGuests, TypeOK
    <3>2. r \in ToSet(memory["C"]) \/ r \in ToSet(N)
      BY <2>5, <3>1, ConcatOf
    <3> QED BY <2>4, <3>2 DEF NewGuests, ToSet
  <2>6. ASSUME NEW t \in Types, NEW r \in ToSet(memory'[t]), r.typ = "C", r.sf # NoId
        PROVE  r.sf \in DOMAIN accounts' /\ accounts'[r.sf].key = r.key
    <3>1. CASE t = "C"
      BY <1>1, <2>5, <2>6, <3>1
    <3>2. CASE t = "R"
      BY <1>1, <2>1, <2>6, <3>2
    <3> QED BY <3>1, <3>2 DEF Types
  <2> QED BY <1>1, <2>2, <2>3, <2>5, <2>6, IdsNext
<1> QED BY <1>5, <1>6, <1>7, <1>8, <1>9, <1>10, <1>11, <1>12, <1>13, <1>14, <1>15
    DEF Steps1, Systems

LEMMA IdsInit ==
    ASSUME StartIdsRight, Init
    PROVE  IdsRight
<1>1. accounts = StartAccounts /\ stored = Start /\ RefOpen = FALSE
  BY DEF Init, RefOpen
<1>2. \A t \in Types : ToSet(memory[t]) = {}
  BY DEF Init, ToSet
<1>3. ToSet(memory["C"]) = {}
  BY <1>2 DEF Types
<1> QED BY <1>1, <1>2, <1>3 DEF IdsRight, IdOf, StartIdsRight

-----------------------------------------------------------------------------
(* The accounts of the clients.                                            *)

LEMMA AtMostOne ==
    ASSUME NEW S, \A x, y \in S : x = y
    PROVE  Cardinality(S) <= 1
<1>1. CASE S = {}
  BY <1>1, FS_EmptySet
<1>2. CASE S # {}
  <2>1. PICK x \in S : TRUE
    BY <1>2
  <2>2. S = {x}
    BY <2>1
  <2>3. Cardinality(S) = 1
    BY <2>2, FS_Singleton
  <2> QED BY <2>3
<1> QED BY <1>1, <1>2

(* Neither the accounts nor what is known of them changes, but for more    *)
(* records in the memory and more that is excused.                         *)
SameIds ==
    /\ DOMAIN accounts' = DOMAIN accounts
    /\ \A i \in DOMAIN accounts : accounts'[i].key = accounts[i].key
    /\ \A k \in Excused : k \in Excused'

SameAssIds == \A k \in Keys : AssId(k)' = AssId(k)

(* The three parts of ClientsOnce. *)
UniqueWithoutId(list, excused) ==
    \A i, j \in DOMAIN list :
        list[i].key = list[j].key /\ list[i].key \notin excused /\ list[i].sf = NoId => i = j

KnownInMemory(list, accs, excused) ==
    \A r \in ToSet(list), i \in DOMAIN accs : accs[i].key = r.key /\ r.key \notin excused => r.sf = i

ClientPullLeft == \E i \in DOMAIN todo : todo[i].step = "pull" /\ ClientPull(todo[i])

KnownToAss ==
    \A i \in DOMAIN accounts, k \in Keys : accounts[i].key = k /\ k \notin Excused => AssId(k) = i

LEMMA AccountKeys ==
    ASSUME TypeOK
    PROVE  \A i \in DOMAIN accounts : accounts[i].key \in Keys /\ i # NoId
<1>1. accounts \in Seq([key : Keys, val : Values])
  BY DEF TypeOK
<1>2. \A i \in DOMAIN accounts : accounts[i] \in [key : Keys, val : Values] /\ i \in Nat /\ i >= 1
  BY <1>1, SeqFacts
<1> QED BY <1>2 DEF NoId

LEMMA OnceIs ==
    ASSUME ClientsOnce, PushesClients(run)
    PROVE  /\ UniqueWithoutId(memory["C"], Excused)
           /\ KnownInMemory(memory["C"], accounts, Excused)
           /\ exit = "running" /\ ClientPullLeft => KnownToAss
  BY DEF ClientsOnce, UniqueWithoutId, KnownInMemory, ClientPullLeft, KnownToAss

LEMMA OnceNext ==
    ASSUME TypeOK', PushesClients(run') =>
            /\ UniqueWithoutId(memory'["C"], Excused')
            /\ KnownInMemory(memory'["C"], accounts', Excused')
            /\ exit' = "running" /\ ClientPullLeft' => KnownToAss'
    PROVE  ClientsOnce'
<1>1. \A i \in DOMAIN accounts' : accounts'[i].key \in Keys
  <2>1. accounts' \in Seq([key : Keys, val : Values])
    BY DEF TypeOK
  <2>2. \A i \in DOMAIN accounts' : accounts'[i] \in [key : Keys, val : Values]
    BY <2>1, SeqFacts
  <2> QED BY <2>2
<1>2. KnownToAss' => \A i \in DOMAIN accounts' :
                        accounts'[i].key \notin Excused' => AssId(accounts[i].key)' = i
  BY <1>1 DEF KnownToAss, AssId
<1> QED BY <1>2 DEF ClientsOnce, PushesClients, UniqueWithoutId, KnownInMemory, ClientPullLeft

LEMMA KnownStays ==
    ASSUME AccountsKnown, SameIds, SameAssIds,
           \A r \in ToSet(memory["C"]) : r \in ToSet(memory'["C"])
    PROVE  AccountsKnown'
<1> SUFFICES ASSUME NEW i \in DOMAIN accounts', NEW k \in Keys,
                    accounts'[i].key = k, k \notin Excused'
             PROVE  AssId(k)' = i \/ \E r \in ToSet(memory'["C"]) : r.key = k /\ r.sf = i
  BY DEF AccountsKnown
<1>1. i \in DOMAIN accounts /\ accounts[i].key = k /\ k \notin Excused
  BY DEF SameIds
<1>2. AssId(k) = i \/ \E r \in ToSet(memory["C"]) : r.key = k /\ r.sf = i
  BY <1>1 DEF AccountsKnown
<1> QED BY <1>2 DEF SameAssIds

(* What AssCache knows before the clients are pulled. *)
LEMMA AssStays ==
    ASSUME SameIds, SameAssIds, KnownToAss
    PROVE  KnownToAss'
<1> SUFFICES ASSUME NEW i \in DOMAIN accounts', NEW k \in Keys, accounts'[i].key = k, k \notin Excused'
             PROVE  AssId(k)' = i
  BY DEF KnownToAss
<1>1. i \in DOMAIN accounts /\ accounts[i].key = k /\ k \notin Excused
  BY DEF SameIds
<1> QED BY <1>1 DEF KnownToAss, SameAssIds

LEMMA OnceStays ==
    ASSUME TypeOK, TypeOK', ClientsOnce, SameIds, memory'["C"] = memory["C"], UNCHANGED run,
           SameAssIds \/ \A i \in DOMAIN todo' : todo'[i].step # "pull",
           exit' = "running" => exit = "running" /\ (UNCHANGED todo \/ (todo # <<>> /\ todo' = Tail(todo)))
    PROVE  ClientsOnce'
<1> SUFFICES ASSUME PushesClients(run) PROVE ClientsOnce'
  BY DEF ClientsOnce, PushesClients
<1>1. /\ UniqueWithoutId(memory["C"], Excused)
      /\ KnownInMemory(memory["C"], accounts, Excused)
      /\ exit = "running" /\ ClientPullLeft => KnownToAss
  BY OnceIs
<1>2. ASSUME exit' = "running", ClientPullLeft' PROVE KnownToAss'
  <2>1. PICK i \in DOMAIN todo' : todo'[i].step = "pull" /\ ClientPull(todo'[i])
    BY <1>2 DEF ClientPullLeft, ClientPull
  <2>2. ClientPullLeft
    <3>1. CASE UNCHANGED todo
      BY <2>1, <3>1 DEF ClientPullLeft
    <3>2. CASE todo # <<>> /\ todo' = Tail(todo)
      <4>1. i + 1 \in DOMAIN todo /\ todo'[i] = todo[i + 1]
        BY <2>1, <3>2, TodoOf
      <4> QED BY <2>1, <4>1 DEF ClientPullLeft
    <3> QED BY <1>2, <3>1, <3>2
  <2> QED BY <1>1, <1>2, <2>1, <2>2, AssStays
<1>3. UniqueWithoutId(memory'["C"], Excused')
  BY <1>1 DEF UniqueWithoutId, SameIds
<1>4. KnownInMemory(memory'["C"], accounts', Excused')
  BY <1>1 DEF KnownInMemory, SameIds
<1> QED BY <1>2, <1>3, <1>4, OnceNext

LEMMA NoPullLeft ==
    ASSUME TypeOK, todo # <<>>, Head(todo).step = "push", Ordered(todo, run)
    PROVE  \A i \in DOMAIN todo : todo[i].step # "pull"
<1>1. 1 \in DOMAIN todo /\ Head(todo) = todo[1]
  BY TodoOf
<1>2. ASSUME NEW i \in DOMAIN todo, todo[i].step = "pull" PROVE FALSE
  <2>1. i \in Nat /\ i >= 1
    <3>1. todo \in Seq(Entry)
      BY DEF TypeOK
    <3> QED BY <3>1, SeqFacts
  <2>2. i # 1
    BY <1>1, <1>2
  <2>3. 1 < i
    BY <2>1, <2>2
  <2> QED BY <1>1, <1>2, <2>3 DEF Ordered
<1> QED BY <1>2

LEMMA PushesWhat ==
    ASSUME TypeOK, InOrder, NEW sys \in {"Sf", "Ass"}, Pushing(sys, "C")
    PROVE  PushesClients(run) /\ Ordered(todo, run)
<1>1. /\ exit = "running" /\ todo # <<>> /\ Head(todo).step = "push" /\ Head(todo).sys = sys
      /\ Head(todo).typ = "C"
  BY DEF Pushing, Now
<1>2. Ordered(todo, run)
  BY <1>1, InOrderIs
<1>3. 1 \in DOMAIN todo /\ Head(todo) = todo[1]
  BY <1>1, TodoOf
<1>4. \E j \in DOMAIN run.pushes : run.pushes[j].sys = sys /\ run.pushes[j].typ = "C"
  BY <1>1, <1>2, <1>3 DEF Ordered
<1> QED BY <1>2, <1>4 DEF PushesClients

(* A new run: what the last one knew alone is forgotten. *)
LEMMA KnownRestart ==
    ASSUME TypeOK, AccountsKnown, Restart
    PROVE  AccountsKnown' /\ memory'["C"] = <<>>
<1>1. /\ UNCHANGED <<accounts, stored, unaware>> /\ memory' = [t \in Types |-> <<>>]
      /\ forgotten' = forgotten \cup Unsaved
  BY DEF Restart
<1>2. \A k \in Keys : AssId(k)' = AssId(k)
  BY <1>1 DEF AssId
<1>3. ASSUME NEW i \in DOMAIN accounts, NEW k \in Keys, accounts[i].key = k, k \notin Excused'
      PROVE  AssId(k) = i
  <2>1. k \notin Excused /\ k \notin Unsaved
    BY <1>1, <1>3 DEF Excused
  <2>2. AssId(k) = i \/ \E r \in ToSet(memory["C"]) : r.key = k /\ r.sf = i
    BY <1>3, <2>1 DEF AccountsKnown
  <2>3. i # NoId
    <3>1. accounts \in Seq([key : Keys, val : Values])
      BY DEF TypeOK
    <3> QED BY <3>1 DEF NoId
  <2>4. ASSUME NEW r \in ToSet(memory["C"]), r.key = k, r.sf = i, AssId(k) # i PROVE FALSE
    <3>1. k \in Unsaved
      BY <2>3, <2>4 DEF Unsaved, AssId
    <3> QED BY <2>1, <3>1
  <2> QED BY <2>2, <2>4
<1>4. memory'["C"] = <<>>
  BY <1>1 DEF Types
<1> QED BY <1>1, <1>2, <1>3, <1>4 DEF AccountsKnown

(* ... and AssCache knows every account that is not excused. *)
LEMMA OnceStart ==
    ASSUME TypeOK, TypeOK', AccountsKnown, Restart
    PROVE  ClientsOnce'
<1>1. AccountsKnown' /\ memory'["C"] = <<>> /\ UNCHANGED accounts
  BY KnownRestart DEF Restart
<1>2. DOMAIN memory'["C"] = {} /\ ToSet(memory'["C"]) = {}
  BY <1>1 DEF ToSet
<1>3. KnownToAss'
  BY <1>1, <1>2 DEF AccountsKnown, KnownToAss
<1> QED BY <1>2, <1>3, OnceNext DEF UniqueWithoutId, KnownInMemory

(* A pull of clients: the records that come without the id of an account   *)
(* make their clients excused.                                             *)
LEMMA AccountPull ==
    ASSUME TypeOK, TypeOK', InOrder, IdsRight, AccountsKnown, ClientsOnce,
           NEW sys, NEW typ, NEW list, NEW match, NEW res, PullStep(sys, typ, list, match, res)
    PROVE  AccountsKnown' /\ ClientsOnce'
<1>1. /\ exit = "running" /\ todo # <<>> /\ todo' = Tail(todo) /\ UNCHANGED <<run, exit, accounts, forgotten, stored>>
      /\ Head(todo).step = "pull" /\ Head(todo).sys = sys /\ Head(todo).typ = typ
      /\ Fetched(sys, typ, res) /\ memory' = [memory EXCEPT ![list] = Merged(@, res.recs, match)]
      /\ list \in Types /\ typ \in Types /\ match \in BOOLEAN
      /\ (list # typ => typ = "C" /\ sys \in {"Sf", "Sh"})
      /\ (list = "C" => sys \in {"Acu", "Ass"}) /\ (match => sys = "Sh")
      /\ unaware' = unaware \cup PulledUnaware(list, res.recs)
  BY DEF PullStep, PullInto, Fetched, Now
<1>2. SameIds /\ SameAssIds
  BY <1>1 DEF SameIds, SameAssIds, AssId, Excused
<1>3. /\ memory'[list] = Merged(memory[list], res.recs, match)
      /\ \A t \in Types : t # list => memory'[t] = memory[t]
      /\ "C" \in Types /\ memory["C"] \in Seq(Records)
  BY <1>1 DEF TypeOK, Types
<1>4. 1 \in DOMAIN todo /\ Head(todo) = todo[1]
  BY <1>1, TodoOf
<1>5. CASE list # "C"
  <2>1. memory'["C"] = memory["C"]
    BY <1>3, <1>5
  <2> QED BY <1>1, <1>2, <2>1, KnownStays, OnceStays
<1>6. CASE list = "C"
  <2>1. typ = "C" /\ sys \in {"Acu", "Ass"} /\ ~match
    BY <1>1, <1>6
  <2>2. res.recs \in Seq(Records)
        /\ \A i, j \in DOMAIN res.recs : res.recs[i].key = res.recs[j].key => i = j
    BY <1>1, <2>1, FetchedOf, PairOf
  <2> DEFINE M == memory["C"]
             N == memory'["C"]
             R == res.recs
  <2>3. N = M \o R /\ M \in Seq(Records) /\ R \in Seq(Records)
    BY <1>1, <1>3, <1>6, <2>1, <2>2, MergedOf
  <2>4. \A k : InMemory(k) <=> \E r \in ToSet(M) : r.key = k
    BY DEF InMemory
  <2>5. \A r \in ToSet(R) : IdOf(r.key, r.sf)
    BY <1>1, <2>1, PulledIds
  <2>6. PushesClients(run) => \A r \in ToSet(R) :
           /\ r.sf = NoId /\ sys = "Acu" /\ HasAccount(r.key) => r.key \in Excused'
           /\ r.sf = NoId /\ InMemory(r.key) => r.key \in Excused'
    BY <1>1, <1>6 DEF PulledUnaware, Excused
  <2>7. \A i, j \in DOMAIN R : R[i].key = R[j].key => i = j
    BY <2>2
  <2>8. R = <<>> \/ R = Rows("Ass", "C") \/ sys = "Acu"
    BY <1>1, <2>1 DEF Fetched, TableRows
  <2> HIDE DEF M, N, R
  <2>9. AccountsKnown'
    <3>1. \A r \in ToSet(M) : r \in ToSet(N)
      BY <2>3, ConcatOf
    <3> QED BY <1>2, <3>1, KnownStays DEF M, N
  <2>10. ASSUME PushesClients(run) PROVE ClientsOnce'
    <3>1. KnownToAss /\ UniqueWithoutId(M, Excused) /\ KnownInMemory(M, accounts, Excused)
      <4>1. ClientPullLeft
        BY <1>1, <1>4, <2>1 DEF ClientPull, ClientPullLeft
      <4> QED BY <1>1, <2>10, <4>1, OnceIs DEF M
    <3>2. \A k \in Excused : k \in Excused'
      BY <1>2 DEF SameIds
    <3>3. UniqueWithoutId(N, Excused')
      <4> SUFFICES ASSUME NEW i \in DOMAIN N, NEW j \in DOMAIN N, N[i].key = N[j].key,
                          N[i].key \notin Excused', N[i].sf = NoId
                   PROVE  i = j
        BY DEF UniqueWithoutId
      <4>1. /\ \/ i \in DOMAIN M /\ N[i] = M[i]
               \/ i - Len(M) \in DOMAIN R /\ N[i] = R[i - Len(M)]
            /\ \/ j \in DOMAIN M /\ N[j] = M[j]
               \/ j - Len(M) \in DOMAIN R /\ N[j] = R[j - Len(M)]
        BY <2>3, ConcatOf
      <4>2. CASE i \in DOMAIN M /\ N[i] = M[i] /\ j \in DOMAIN M /\ N[j] = M[j]
        BY <3>1, <3>2, <4>2 DEF UniqueWithoutId
      <4>3. CASE i \in DOMAIN M /\ N[i] = M[i] /\ j - Len(M) \in DOMAIN R /\ N[j] = R[j - Len(M)]
        <5>1. N[i] \in ToSet(M) /\ N[j] \in ToSet(R)
          BY <4>3 DEF ToSet
        <5>2. N[j].sf # NoId
          BY <2>4, <2>6, <2>10, <5>1
        <5>3. N[j].sf \in DOMAIN accounts /\ accounts[N[j].sf].key = N[j].key
          BY <2>5, <5>1, <5>2 DEF IdOf
        <5>4. N[i].sf = N[j].sf
          BY <3>1, <3>2, <5>1, <5>3 DEF KnownInMemory
        <5> QED BY <5>2, <5>4
      <4>4. CASE i - Len(M) \in DOMAIN R /\ N[i] = R[i - Len(M)] /\ j \in DOMAIN M /\ N[j] = M[j]
        <5>1. N[j] \in ToSet(M) /\ N[i] \in ToSet(R)
          BY <4>4 DEF ToSet
        <5> QED BY <2>4, <2>6, <2>10, <5>1
      <4>5. CASE i - Len(M) \in DOMAIN R /\ N[i] = R[i - Len(M)] /\ j - Len(M) \in DOMAIN R
                 /\ N[j] = R[j - Len(M)]
        <5>1. i - Len(M) = j - Len(M)
          BY <2>7, <4>5
        <5>2. i \in Nat /\ j \in Nat /\ Len(M) \in Nat
          <6>1. N \in Seq(Records) /\ Len(M) \in Nat
            BY <2>3, ConcatOf
          <6> QED BY <6>1, SeqFacts
        <5> QED BY <5>1, <5>2
      <4> QED BY <4>1, <4>2, <4>3, <4>4, <4>5
    <3>4. KnownInMemory(N, accounts', Excused')
      <4> SUFFICES ASSUME NEW r \in ToSet(N), NEW i \in DOMAIN accounts, accounts[i].key = r.key,
                          r.key \notin Excused'
                   PROVE  r.sf = i
        BY <1>1 DEF KnownInMemory
      <4>1. r \in ToSet(M) \/ r \in ToSet(R)
        BY <2>3, ConcatOf
      <4>2. CASE r \in ToSet(M)
        BY <3>1, <3>2, <4>2 DEF KnownInMemory
      <4>3. CASE r \in ToSet(R) /\ r.sf # NoId
        <5>1. r.sf \in DOMAIN accounts /\ accounts[r.sf].key = r.key
          BY <2>5, <4>3 DEF IdOf
        <5>2. AssId(r.key) = r.sf /\ AssId(r.key) = i
          BY <3>1, <3>2, <5>1, AccountKeys DEF KnownToAss
        <5> QED BY <5>2
      <4>4. CASE r \in ToSet(R) /\ r.sf = NoId
        <5>1. HasAccount(r.key)
          BY DEF HasAccount
        <5>2. R = <<>> \/ R = Rows("Ass", "C")
          BY <2>6, <2>8, <2>10, <4>4, <5>1
        <5>3. PICK j \in DOMAIN R : r = R[j]
          BY <4>4 DEF ToSet
        <5>4. R = Rows("Ass", "C")
          BY <5>2, <5>3
        <5>5. "Ass" \in Systems /\ "C" \in Types
          BY DEF Systems, Types
        <5>6. stored[<<"Ass", "C">>][r.key] # None /\ r.sf = stored[<<"Ass", "C">>][r.key].sf
          BY <5>3, <5>4, <5>5, RowsOf
        <5>7. AssId(r.key) = i
          BY <3>1, <3>2, AccountKeys DEF KnownToAss
        <5> QED BY <5>6, <5>7 DEF AssId
      <4> QED BY <4>1, <4>2, <4>3, <4>4
    <3>5. KnownToAss'
      BY <1>2, <3>1, AssStays
    <3> QED BY <3>3, <3>4, <3>5, OnceNext DEF N
  <2>11. ASSUME ~PushesClients(run) PROVE ClientsOnce'
    BY <1>1, <2>11 DEF ClientsOnce, PushesClients
  <2> QED BY <2>9, <2>10, <2>11
<1> QED BY <1>5, <1>6

LEMMA NoPullAfter ==
    ASSUME TypeOK, InOrder, NEW sys, NEW typ, Pushing(sys, typ), UNCHANGED todo \/ todo' = Tail(todo)
    PROVE  \A i \in DOMAIN todo' : todo'[i].step # "pull"
<1>1. exit = "running" /\ todo # <<>> /\ Head(todo).step = "push"
  BY DEF Pushing, Now
<1>2. Ordered(todo, run)
  BY <1>1, InOrderIs
<1>3. \A i \in DOMAIN todo : todo[i].step # "pull"
  BY <1>1, <1>2, NoPullLeft
<1>4. CASE todo' = Tail(todo)
  BY <1>1, <1>3, <1>4, TodoOf
<1> QED BY <1>3, <1>4

LEMMA AccountPush ==
    ASSUME TypeOK, TypeOK', InOrder, AccountsKnown, ClientsOnce, NEW sys, NEW typ, NEW applied, NEW sf, NEW err,
           PushStep(sys, typ, applied, sf, err)
    PROVE  AccountsKnown' /\ ClientsOnce'
<1>1. /\ Pushing(sys, typ) /\ sys \in Systems /\ typ \in Types /\ exit = "running" /\ todo # <<>>
      /\ <<sys, typ>> = <<"Ass", "C">> => sf = Rec.sf
      /\ Written(sys, typ, applied, sf) /\ AfterRecord(err)
      /\ UNCHANGED <<accounts, run, memory, exit, forgotten, unaware>>
  BY DEF PushStep, Pushing, Now
<1>2. UNCHANGED todo \/ todo' = Tail(todo)
  BY <1>1 DEF AfterRecord
<1>3. SameIds
  BY <1>1 DEF SameIds, Excused
<1>4. ClientsOnce'
  <2>1. \A i \in DOMAIN todo' : todo'[i].step # "pull"
    BY <1>1, <1>2, NoPullAfter
  <2> QED BY <1>1, <1>2, <1>3, <2>1, OnceStays
<1>5. CASE UNCHANGED stored
  <2>1. SameAssIds
    BY <1>5 DEF SameAssIds, AssId
  <2> QED BY <1>1, <1>3, <1>4, <2>1, KnownStays
<1>6. CASE Written(sys, typ, TRUE, sf)
  <2>1. Rec \in Records /\ Rec = memory[typ][at + 1] /\ at + 1 \in DOMAIN memory[typ]
    BY <1>1, RecOf
  <2>2. /\ stored'[<<sys, typ>>][Rec.key] = [val |-> Rec.val, sf |-> sf]
        /\ wrote'[<<sys, typ>>][Rec.key] = Rec.val
        /\ \A x \in Tables, k \in Keys :
              x # <<sys, typ>> \/ k # Rec.key =>
                  wrote'[x][k] = wrote[x][k] /\ stored'[x][k] = stored[x][k]
    BY <1>1, <1>6, <2>1, WrittenIs, Zenon
  <2>3. <<"Ass", "C">> \in Tables
    BY DEF Tables, Types
  <2>4. CASE <<sys, typ>> # <<"Ass", "C">>
    <3>1. \A k \in Keys : stored'[<<"Ass", "C">>][k] = stored[<<"Ass", "C">>][k]
      BY <2>2, <2>3, <2>4
    <3>2. SameAssIds
      BY <3>1 DEF SameAssIds, AssId
    <3> QED BY <1>1, <1>3, <1>4, <3>2, KnownStays
  <2>5. CASE <<sys, typ>> = <<"Ass", "C">>
    <3>1. sys = "Ass" /\ typ = "C" /\ sf = Rec.sf
      BY <1>1, <2>5, PairOf
    <3>2. PushesClients(run)
      BY <1>1, <3>1, PushesWhat
    <3>3. Rec \in ToSet(memory["C"])
      BY <2>1, <3>1 DEF ToSet
    <3>6. ASSUME NEW i \in DOMAIN accounts, NEW k \in Keys, accounts[i].key = k, k \notin Excused
          PROVE  AssId(k)' = i \/ \E r \in ToSet(memory["C"]) : r.key = k /\ r.sf = i
      <4>1. CASE k = Rec.key
        <5>1. Rec.sf = i
          BY <3>2, <3>3, <3>6, <4>1 DEF ClientsOnce
        <5> QED BY <3>3, <4>1, <5>1
      <4>2. CASE k # Rec.key
        <5>1. stored'[<<"Ass", "C">>][k] = stored[<<"Ass", "C">>][k]
          BY <2>2, <2>3, <4>2
        <5>2. AssId(k)' = AssId(k)
          BY <5>1 DEF AssId
        <5> QED BY <3>6, <5>2 DEF AccountsKnown
      <4> QED BY <4>1, <4>2
    <3>7. Excused' = Excused
      BY <1>1 DEF Excused
    <3>8. AccountsKnown'
      BY <1>1, <3>6, <3>7 DEF AccountsKnown
    <3> QED BY <1>4, <3>8
  <2> QED BY <2>4, <2>5
<1> QED BY <1>1, <1>5, <1>6, WrittenNot

(* The clients that a push of reservations adds have no account. *)
LEMMA AccountGuest ==
    ASSUME TypeOK, TypeOK', InOrder, AccountsKnown, ClientsOnce, NEW o, NEW made, NEW data,
           GuestStep(o, made, data)
    PROVE  AccountsKnown' /\ ClientsOnce'
<1>1. /\ Pushing("Ass", "R") /\ UNCHANGED <<accounts, run, forgotten, unaware>>
      /\ UNCHANGED todo \/ todo' = Tail(todo)
  BY DEF GuestStep, AfterRecord
<1>2. /\ GuestRows(o, made) /\ made \subseteq Keys
      /\ \A k \in made : stored[<<"Ass", "C">>][k] = None
      /\ \E N : NewGuests(N, made)
  BY GuestOf
<1>3. PICK N : NewGuests(N, made)
  BY <1>2
<1>4. <<"Ass", "C">> \in Tables /\ memory["C"] \in Seq(Records)
  BY DEF Tables, Types, TypeOK
<1>5. SameIds /\ Excused' = Excused
  BY <1>1 DEF SameIds, Excused
<1>6. SameAssIds
  BY <1>2, <1>4 DEF SameAssIds, AssId, GuestRows
<1> DEFINE M == memory["C"]
           Q == memory'["C"]
<1>7. /\ M \in Seq(Records) /\ N \in Seq(Records) /\ Q = M \o N
      /\ \A i \in DOMAIN N : N[i].key \in made /\ ~InMemory(N[i].key)
                             /\ N[i].sf = NoId /\ N[i].typ = "C"
      /\ \A i, j \in DOMAIN N : N[i].key = N[j].key => i = j
  BY <1>3, <1>4 DEF NewGuests
<1>8. \A k : InMemory(k) <=> \E r \in ToSet(M) : r.key = k
  BY DEF InMemory
<1> HIDE DEF M, Q
<1>9. AccountsKnown'
  <2>1. \A r \in ToSet(M) : r \in ToSet(Q)
    BY <1>7, ConcatOf
  <2> QED BY <1>5, <1>6, <2>1, KnownStays DEF M, Q
<1>10. ASSUME PushesClients(run) PROVE ClientsOnce'
  <2>1. UniqueWithoutId(M, Excused) /\ KnownInMemory(M, accounts, Excused)
    BY <1>10, OnceIs DEF M
  <2>2. UniqueWithoutId(Q, Excused')
    <3> SUFFICES ASSUME NEW i \in DOMAIN Q, NEW j \in DOMAIN Q, Q[i].key = Q[j].key,
                        Q[i].key \notin Excused, Q[i].sf = NoId
                 PROVE  i = j
      BY <1>5 DEF UniqueWithoutId
    <3>1. /\ \/ i \in DOMAIN M /\ Q[i] = M[i]
             \/ i - Len(M) \in DOMAIN N /\ Q[i] = N[i - Len(M)]
          /\ \/ j \in DOMAIN M /\ Q[j] = M[j]
             \/ j - Len(M) \in DOMAIN N /\ Q[j] = N[j - Len(M)]
      BY <1>7, ConcatOf
    <3>2. CASE i \in DOMAIN M /\ Q[i] = M[i] /\ j \in DOMAIN M /\ Q[j] = M[j]
      BY <2>1, <3>2 DEF UniqueWithoutId
    <3>3. ASSUME NEW x \in DOMAIN M, NEW y \in DOMAIN N PROVE M[x].key # N[y].key
      BY <1>7, <1>8 DEF ToSet
    <3>4. CASE i - Len(M) \in DOMAIN N /\ Q[i] = N[i - Len(M)] /\ j - Len(M) \in DOMAIN N
               /\ Q[j] = N[j - Len(M)]
      <4>1. i - Len(M) = j - Len(M)
        BY <1>7, <3>4
      <4>2. i \in Nat /\ j \in Nat /\ Len(M) \in Nat
        <5>1. Q \in Seq(Records) /\ Len(M) \in Nat
          BY <1>7, ConcatOf
        <5> QED BY <5>1, SeqFacts
      <4> QED BY <4>1, <4>2
    <3> QED BY <3>1, <3>2, <3>3, <3>4
  <2>3. KnownInMemory(Q, accounts', Excused')
    <3> SUFFICES ASSUME NEW r \in ToSet(Q), NEW i \in DOMAIN accounts, accounts[i].key = r.key,
                        r.key \notin Excused
                 PROVE  r.sf = i
      BY <1>1, <1>5 DEF KnownInMemory
    <3>1. CASE r \in ToSet(M)
      BY <2>1, <3>1 DEF KnownInMemory
    <3>2. CASE r \in ToSet(N)
      <4>1. r.key \in made /\ ~InMemory(r.key)
        BY <1>7, <3>2 DEF ToSet
      <4>2. r.key \in Keys /\ AssId(r.key) = NoId
        BY <1>2, <4>1 DEF AssId
      <4>3. AssId(r.key) = i
        BY <4>1, <4>2 DEF AccountsKnown, InMemory
      <4>4. i # NoId
        <5>1. accounts \in Seq([key : Keys, val : Values])
          BY DEF TypeOK
        <5> QED BY <5>1 DEF NoId
      <4> QED BY <4>2, <4>3, <4>4
    <3>3. r \in ToSet(M) \/ r \in ToSet(N)
      BY <1>7, ConcatOf
    <3> QED BY <3>1, <3>2, <3>3
  <2>4. ~ClientPullLeft'
    BY <1>1, NoPullAfter DEF ClientPullLeft
  <2> QED BY <2>2, <2>3, <2>4, OnceNext DEF Q
<1>11. ASSUME ~PushesClients(run) PROVE ClientsOnce'
  BY <1>1, <1>11 DEF ClientsOnce, PushesClients
<1> QED BY <1>9, <1>10, <1>11

LEMMA AccountSfPush ==
    ASSUME TypeOK, TypeOK', InOrder, IdsRight, AccountsKnown, ClientsOnce, NEW o, SfPushStep(o)
    PROVE  AccountsKnown' /\ ClientsOnce'
<1> DEFINE M == memory["C"]
           N == memory'["C"]
           n == at + 1
           id == IdAfterUpsert(Rec, o)
           L == Len(accounts)
<1>1. /\ Pushing("Sf", "C") /\ UNCHANGED <<run, stored, unaware>> /\ (UNCHANGED todo \/ todo' = Tail(todo))
      /\ forgotten' = IF o = "lost" \/ (Rec.sf # id /\ Rec.sf # NoId)
                      THEN forgotten \cup {Rec.key} ELSE forgotten
  BY DEF SfPushStep, AfterRecord
<1>2. PushesClients(run)
  BY <1>1, PushesWhat
<1>3. /\ Rec \in Records /\ Rec = M[n] /\ n \in DOMAIN M /\ DOMAIN N = DOMAIN M
      /\ \A i \in DOMAIN M : N[i].key = M[i].key /\ (i # n => N[i] = M[i])
      /\ N[n].sf = id
  BY SfPushOf
<1>4. UniqueWithoutId(M, Excused) /\ KnownInMemory(M, accounts, Excused)
  BY <1>2, OnceIs
<1>5. \A r \in ToSet(M) : IdOf(r.key, r.sf)
  BY DEF IdsRight, Types
<1>6. /\ ~Applied(o) => UNCHANGED accounts
      /\ Applied(o) /\ Rec.sf # NoId =>
            /\ DOMAIN accounts' = DOMAIN accounts /\ accounts'[Rec.sf] = Account(Rec)
            /\ \A i \in DOMAIN accounts : i # Rec.sf => accounts'[i] = accounts[i]
      /\ Applied(o) /\ Rec.sf = NoId =>
            /\ DOMAIN accounts' = DOMAIN accounts \cup {L + 1} /\ accounts'[L + 1] = Account(Rec)
            /\ \A i \in DOMAIN accounts : accounts'[i] = accounts[i]
      /\ Rec.sf # NoId => Rec.sf \in DOMAIN accounts /\ accounts[Rec.sf].key = Rec.key
      /\ L \in Nat
  BY SfAccounts
<1>7. id = IF o # "done" THEN NoId ELSE IF Rec.sf # NoId THEN Rec.sf ELSE L + 1
  BY DEF IdAfterUpsert
<1>8. Account(Rec).key = Rec.key
  BY DEF Account
<1>9. o = "done" => Applied(o)
  BY DEF Applied
<1>10. Rec \in ToSet(M) /\ Rec.key \in Keys
  BY <1>3 DEF ToSet, Records
<1>11. \A i \in DOMAIN accounts : i # NoId
  <2>1. accounts \in Seq([key : Keys, val : Values])
    BY DEF TypeOK
  <2> QED BY <2>1 DEF NoId
<1>12. o \in {"done", "refused", "lost"}
  BY DEF SfPushStep
<1>13. (\A k \in Excused : k \in Excused') /\ (Rec.key \notin Excused' => o # "lost" /\ (Rec.sf = id \/ Rec.sf = NoId))
  BY <1>1 DEF Excused
<1> HIDE DEF M, N, n, id, L
(* An account of the client that is pushed has the id of its record. *)
<1>14. ASSUME NEW i \in DOMAIN accounts', accounts'[i].key = Rec.key, Rec.key \notin Excused'
       PROVE  i = id
  <2>1. o # "lost" /\ (Rec.sf = id \/ Rec.sf = NoId) /\ Rec.key \notin Excused
    BY <1>13, <1>14
  <2>2. CASE i \in DOMAIN accounts /\ accounts[i].key = Rec.key
    <3>1. Rec.sf = i
      BY <1>4, <1>10, <2>1, <2>2 DEF KnownInMemory
    <3> QED BY <1>11, <2>1, <2>2, <3>1
  <2>3. CASE ~(i \in DOMAIN accounts /\ accounts[i].key = Rec.key)
    <3>1. CASE ~Applied(o)
      BY <1>6, <1>14, <2>3, <3>1
    <3>2. CASE Applied(o) /\ Rec.sf # NoId
      BY <1>6, <1>14, <2>3, <3>2
    <3>3. CASE Applied(o) /\ Rec.sf = NoId
      <4>1. i = L + 1
        BY <1>6, <1>14, <2>3, <3>3
      <4>2. o = "done"
        BY <1>12, <2>1, <3>3 DEF Applied
      <4> QED BY <1>7, <3>3, <4>1, <4>2
    <3> QED BY <3>1, <3>2, <3>3
  <2> QED BY <2>2, <2>3
<1>15. ASSUME NEW i \in DOMAIN accounts', accounts'[i].key # Rec.key
       PROVE  i \in DOMAIN accounts /\ accounts[i].key = accounts'[i].key
  <2>1. CASE ~Applied(o)
    BY <1>6, <2>1
  <2>2. CASE Applied(o) /\ Rec.sf # NoId
    BY <1>6, <1>8, <1>15, <2>2
  <2>3. CASE Applied(o) /\ Rec.sf = NoId
    BY <1>6, <1>8, <1>15, <2>3
  <2> QED BY <2>1, <2>2, <2>3
<1>16. ASSUME NEW i \in DOMAIN accounts', NEW k \in Keys, accounts'[i].key = k, k \notin Excused'
       PROVE  AssId(k) = i \/ \E r \in ToSet(N) : r.key = k /\ r.sf = i
  <2>1. CASE k = Rec.key
    <3>1. N[n].key = k /\ N[n].sf = i /\ N[n] \in ToSet(N)
      <4>1. i = id
        BY <1>14, <1>16, <2>1
      <4> QED BY <1>3, <2>1, <4>1 DEF ToSet
    <3> QED BY <3>1
  <2>2. CASE k # Rec.key
    <3>1. i \in DOMAIN accounts /\ accounts[i].key = k /\ k \notin Excused
      BY <1>13, <1>15, <1>16, <2>2
    <3>2. AssId(k) = i \/ \E r \in ToSet(M) : r.key = k /\ r.sf = i
      BY <3>1 DEF AccountsKnown, M
    <3>3. ASSUME NEW r \in ToSet(M), r.key = k PROVE r \in ToSet(N)
      <4>1. PICK j \in DOMAIN M : r = M[j]
        BY DEF ToSet
      <4>2. j # n
        BY <1>3, <2>2, <3>3, <4>1
      <4> QED BY <1>3, <4>1, <4>2 DEF ToSet
    <3> QED BY <3>2, <3>3
  <2> QED BY <2>1, <2>2
<1>17. AccountsKnown'
  <2>1. \A k \in Keys : AssId(k)' = AssId(k)
    BY <1>1 DEF AssId
  <2> QED BY <1>16, <2>1 DEF AccountsKnown, N
(* Another record of the client, if it is not excused, has the same id. *)
<1>18. ASSUME NEW r \in ToSet(N), NEW i \in DOMAIN accounts', accounts'[i].key = r.key, r.key \notin Excused'
       PROVE  r.sf = i
  <2>1. PICK j \in DOMAIN N : r = N[j]
    BY DEF ToSet
  <2>2. CASE j = n
    BY <1>3, <1>14, <1>18, <2>1, <2>2
  <2>3. CASE j # n
    <3>1. r = M[j] /\ r \in ToSet(M) /\ r.key \notin Excused
      BY <1>3, <1>13, <1>18, <2>1, <2>3 DEF ToSet
    <3>2. CASE r.key # Rec.key
      <4>1. i \in DOMAIN accounts /\ accounts[i].key = r.key
        BY <1>15, <1>18, <3>2
      <4> QED BY <1>4, <3>1, <4>1 DEF KnownInMemory
    <3>3. CASE r.key = Rec.key
      <4>1. r.sf # NoId /\ Rec.sf # NoId
        BY <1>3, <1>4, <2>1, <2>3, <3>1, <3>3 DEF UniqueWithoutId
      <4>2. r.sf \in DOMAIN accounts /\ accounts[r.sf].key = Rec.key
        BY <1>5, <3>1, <3>3, <4>1 DEF IdOf
      <4>3. Rec.sf = r.sf
        BY <1>4, <1>10, <3>1, <3>3, <4>2 DEF KnownInMemory
      <4>4. i = id /\ Rec.sf = id
        BY <1>13, <1>14, <1>18, <3>3, <4>1
      <4> QED BY <4>3, <4>4
    <3> QED BY <3>2, <3>3
  <2> QED BY <2>2, <2>3
<1>19. UniqueWithoutId(N, Excused')
  <2> SUFFICES ASSUME NEW i \in DOMAIN N, NEW j \in DOMAIN N, N[i].key = N[j].key,
                      N[i].key \notin Excused', N[i].sf = NoId
               PROVE  i = j
    BY DEF UniqueWithoutId
  <2>1. M[i].key = M[j].key /\ i \in DOMAIN M /\ j \in DOMAIN M /\ M[i].key \notin Excused
    BY <1>3, <1>13
  <2>2. M[i].sf = NoId
    <3>1. CASE i = n
      BY <1>3, <1>13, <3>1
    <3>2. CASE i # n
      BY <1>3, <3>2
    <3> QED BY <3>1, <3>2
  <2> QED BY <1>4, <2>1, <2>2 DEF UniqueWithoutId
<1>20. KnownInMemory(N, accounts', Excused')
  BY <1>18 DEF KnownInMemory
<1>21. ~ClientPullLeft'
  BY <1>1, NoPullAfter DEF ClientPullLeft
<1>22. ClientsOnce'
  BY <1>19, <1>20, <1>21, OnceNext DEF N
<1> QED BY <1>17, <1>22

LEMMA AccountStep ==
    ASSUME TypeOK, InOrder, IdsRight, AccountsKnown, ClientsOnce, Steps1, TypeOK'
    PROVE  AccountsKnown' /\ ClientsOnce'
<1>1. ASSUME SameIds, UNCHANGED <<run, memory>>, SameAssIds,
             exit' = "running" => exit = "running" /\ (UNCHANGED todo \/ (todo # <<>> /\ todo' = Tail(todo)))
      PROVE  AccountsKnown' /\ ClientsOnce'
  BY <1>1, KnownStays, OnceStays
<1>2. ASSUME UNCHANGED <<accounts, forgotten, unaware, stored>> PROVE SameIds /\ SameAssIds
  BY <1>2 DEF SameIds, SameAssIds, AssId, Excused
<1>3. CASE StartRun \/ StartDies
  <2>1. Restart
    BY <1>3 DEF StartRun, StartDies
  <2> QED BY <2>1, KnownRestart, OnceStart
<1>5. CASE Finish \/ NotImplemented \/ PushDone \/ Died \/ Idle
  <2>1. UNCHANGED <<accounts, forgotten, unaware, stored, run, memory>>
    BY <1>5 DEF Finish, NotImplemented, PushDone, Died, Idle, Same1, sfVars, histVars
  <2>2. exit' = "running" => exit = "running" /\ (UNCHANGED todo \/ (todo # <<>> /\ todo' = Tail(todo)))
    BY <1>5 DEF Finish, SendNotification, NotImplemented, PushDone, Died, Idle, Same1
  <2> QED BY <1>1, <1>2, <2>1, <2>2
<1>6. ASSUME NEW sys \in Systems, NEW typ \in Types, NEW key \in Keys, Change(sys, typ, key)
      PROVE  AccountsKnown' /\ ClientsOnce'
  <2>1. /\ DOMAIN accounts' = DOMAIN accounts
        /\ \A i \in DOMAIN accounts : accounts'[i].key = accounts[i].key
        /\ \A x \in Tables, k \in Keys :
                /\ stored'[x][k] = None <=> stored[x][k] = None
                /\ stored'[x][k].sf = stored[x][k].sf
        /\ UNCHANGED <<memory, run, todo, forgotten, unaware, exit>>
    BY <1>6, ChangeOf DEF progVars
  <2>2. <<"Ass", "C">> \in Tables
    BY DEF Tables, Types
  <2>3. SameAssIds
    BY <2>1, <2>2 DEF SameAssIds, AssId
  <2>4. SameIds
    BY <2>1 DEF SameIds, Excused
  <2> QED BY <1>1, <2>1, <2>3, <2>4
<1>7. ASSUME NEW sys, NEW typ, NEW res, CompareStep(sys, typ, res)
      PROVE  AccountsKnown' /\ ClientsOnce'
  <2>1. /\ exit = "running" /\ todo # <<>> /\ todo' = Tail(todo)
        /\ UNCHANGED <<accounts, forgotten, unaware, stored, run, memory>>
    BY <1>7 DEF CompareStep, CompareWith, Now, Fetched
  <2> QED BY <1>1, <1>2, <2>1
<1>8. ASSUME NEW o, RefStep(o)
      PROVE  AccountsKnown' /\ ClientsOnce'
  <2>1. /\ exit = "running" /\ todo # <<>> /\ (UNCHANGED todo \/ todo' = Tail(todo))
        /\ UNCHANGED <<accounts, forgotten, unaware, stored, run, memory>>
    BY <1>8 DEF RefStep, Pushing, Now, AfterRecord
  <2> QED BY <1>1, <1>2, <2>1
<1> QED BY <1>3, <1>5, <1>6, <1>7, <1>8, AccountPull, AccountPush, AccountGuest, AccountSfPush
        DEF Steps1, Systems

LEMMA AccountInit ==
    ASSUME StartIds, Init
    PROVE  AccountInv
<1>1. accounts = StartAccounts /\ stored = Start /\ memory["C"] = <<>>
  BY DEF Init, Types
<1>2. TypeOK /\ InOrder /\ IdsRight
  BY TypeInit, OrderInit, IdsInit DEF StartIds
<1>3. AccountsKnown
  BY <1>1 DEF AccountsKnown, StartIds, AssId
<1>4. ToSet(memory["C"]) = {} /\ DOMAIN memory["C"] = {} /\ exit # "running"
  BY <1>1 DEF Init, ToSet
<1>5. ClientsOnce
  BY <1>4 DEF ClientsOnce
<1> QED BY <1>2, <1>3, <1>5 DEF AccountInv

LEMMA OneAccountIf == AccountInv => OneAccount
<1> SUFFICES ASSUME AccountInv, NEW key \in Keys, key \notin Excused, key \notin Unsaved
             PROVE  Cardinality({i \in DOMAIN accounts : accounts[i].key = key}) <= 1
  BY DEF OneAccount, Excused
<1>1. ASSUME NEW i \in DOMAIN accounts, accounts[i].key = key PROVE AssId(key) = i
  <2>1. AssId(key) = i \/ \E r \in ToSet(memory["C"]) : r.key = key /\ r.sf = i
    BY <1>1 DEF AccountInv, AccountsKnown
  <2>2. i # NoId
    <3>1. accounts \in Seq([key : Keys, val : Values])
      BY DEF AccountInv, TypeOK
    <3> QED BY <3>1 DEF NoId
  <2>3. ASSUME NEW r \in ToSet(memory["C"]), r.key = key, r.sf = i, AssId(key) # i PROVE FALSE
    BY <2>2, <2>3 DEF Unsaved, AssId
  <2> QED BY <2>1, <2>3
<1> DEFINE S == {i \in DOMAIN accounts : accounts[i].key = key}
<1>2. \A x, y \in S : x = y
  BY <1>1
<1> HIDE DEF S
<1>3. Cardinality(S) <= 1
  BY <1>2, AtMostOne
<1> QED BY <1>3 DEF S

(* Whatever a run pulls and pushes: AssCache or the run knows the account  *)
(* of every client, and no other, but for those whose id was lost and      *)
(* those that a run which pushes clients pulled without their id, as from  *)
(* Acumen.                                                                 *)
THEOREM AccountInvariant ==
    ASSUME StartIds
    PROVE  Spec => []AccountInv
<1>1. Init => AccountInv
  BY AccountInit
<1>2. AccountInv /\ [Next]_vars => AccountInv'
  <2> SUFFICES ASSUME AccountInv, Steps1 PROVE AccountInv'
    BY Kinds
  <2>1. TypeOK' /\ InOrder'
    BY TypeStep, OrderStep DEF AccountInv
  <2>2. IdsRight' /\ AccountsKnown' /\ ClientsOnce'
    BY <2>1, IdsStep, AccountStep DEF AccountInv
  <2> QED BY <2>1, <2>2 DEF AccountInv
<1> QED BY <1>1, <1>2, PTL DEF Spec

(* Then every other client has one account, however many runs push it,     *)
(* with whatever failures.                                                 *)
THEOREM OneAccountPerClient ==
    ASSUME StartIds
    PROVE  Spec => []OneAccount
  BY AccountInvariant, OneAccountIf, PTL

-----------------------------------------------------------------------------
(* What was pushed is equal.                                               *)

(* A run that pulls records of a type once, does so by one action. *)
LEMMA OnePull ==
    ASSUME NEW r \in Runs, NEW typ, Cardinality({j \in DOMAIN r.pulls : r.pulls[j].typ = typ}) = 1,
           NEW i \in DOMAIN Actions(r), NEW j \in DOMAIN Actions(r),
           Actions(r)[i].step = "pull", Actions(r)[j].step = "pull",
           Actions(r)[i].typ = typ, Actions(r)[j].typ = typ
    PROVE  i = j
<1> DEFINE S == {n \in DOMAIN r.pulls : r.pulls[n].typ = typ}
           A == Actions(r)
<1>1. PICK m, n : Planned(r, A, m, n)
  BY ActionsOf
<1>2. r.pulls \in Seq(Action)
  BY DataManAssumption DEF OptionSets
<1>3. IsFiniteSet(S)
  <2>1. IsFiniteSet(1 .. Len(r.pulls))
    BY <1>2, FS_Interval
  <2>2. S \subseteq 1 .. Len(r.pulls)
    BY <1>2
  <2> QED BY <2>1, <2>2, FS_Subset
<1>4. Cardinality(S) = 1
  OBVIOUS
<1>5. i \in DOMAIN A /\ j \in DOMAIN A /\ A[i].step = "pull" /\ A[j].step = "pull"
      /\ A[i].typ = typ /\ A[j].typ = typ
  OBVIOUS
<1>6. i \in S /\ j \in S
  <2> HIDE DEF A
  <2> QED BY <1>1, <1>5 DEF Planned
<1> HIDE DEF S, A
<1>7. PICK x : S = {x}
  BY <1>3, <1>4, FS_Singleton
<1> QED BY <1>6, <1>7

LEMMA MemoryStart ==
    ASSUME StartRun, TypeOK', NEW typ \in Types, PulledOnce(typ)'
    PROVE  MemoryOnce(typ)'
<1>1. PICK r \in Runs : run' = r /\ todo' = Actions(r)
  BY DEF StartRun
<1>2. memory'[typ] = <<>> /\ Cardinality({j \in DOMAIN r.pulls : r.pulls[j].typ = typ}) = 1
  BY <1>1 DEF StartRun, Restart, PulledOnce
<1>3. \A i, j \in DOMAIN todo' :
          (todo'[i].step = "pull" /\ todo'[j].step = "pull" /\ todo'[i].typ = typ /\ todo'[j].typ = typ)
          => i = j
  <2>1. \A i, j \in DOMAIN Actions(r) :
            (Actions(r)[i].step = "pull" /\ Actions(r)[j].step = "pull"
             /\ Actions(r)[i].typ = typ /\ Actions(r)[j].typ = typ) => i = j
    BY <1>2, OnePull
  <2> QED BY <1>1, <2>1
<1> QED BY <1>2, <1>3 DEF MemoryOnce

(* As long as no record is pulled, they are as many as before. *)
LEMMA MemoryKept ==
    ASSUME TypeOK, NEW typ \in Types, MemoryOnce(typ),
           UNCHANGED todo \/ (todo # <<>> /\ todo' = Tail(todo)),
           DOMAIN memory'[typ] = DOMAIN memory[typ],
           memory'[typ] = memory[typ] \/ (\A i \in DOMAIN todo : todo[i].step # "pull"),
           \A i \in DOMAIN memory[typ] : memory'[typ][i].key = memory[typ][i].key
    PROVE  MemoryOnce(typ)'
<1> DEFINE Pulls(q, i) == q[i].step = "pull" /\ q[i].typ = typ
<1>1. \A i \in DOMAIN todo' : i \in DOMAIN todo \/ (i + 1 \in DOMAIN todo /\ i \in Nat)
  BY TodoOf
<1>2. ASSUME NEW i \in DOMAIN todo', NEW j \in DOMAIN todo', todo'[i].step = "pull", todo'[j].step = "pull",
             todo'[i].typ = typ, todo'[j].typ = typ
      PROVE  i = j
  <2>1. CASE UNCHANGED todo
    BY <1>2, <2>1 DEF MemoryOnce
  <2>2. CASE todo # <<>> /\ todo' = Tail(todo)
    <3>1. /\ i + 1 \in DOMAIN todo /\ todo'[i] = todo[i + 1] /\ i \in Nat
          /\ j + 1 \in DOMAIN todo /\ todo'[j] = todo[j + 1] /\ j \in Nat
      BY <2>2, TodoOf
    <3>2. i + 1 = j + 1
      BY <1>2, <3>1 DEF MemoryOnce
    <3> QED BY <3>1, <3>2
  <2> QED BY <2>1, <2>2
<1>3. ASSUME NEW i \in DOMAIN todo', todo'[i].step = "pull", todo'[i].typ = typ
      PROVE  memory'[typ] = <<>>
  <2>1. \E j \in DOMAIN todo : todo[j].step = "pull" /\ todo[j].typ = typ
    <3>1. CASE UNCHANGED todo
      BY <1>3, <3>1
    <3>2. CASE todo # <<>> /\ todo' = Tail(todo)
      <4>1. i + 1 \in DOMAIN todo /\ todo'[i] = todo[i + 1]
        BY <3>2, TodoOf
      <4> QED BY <1>3, <4>1
    <3> QED BY <3>1, <3>2
  <2> QED BY <2>1 DEF MemoryOnce
<1>4. \A i, j \in DOMAIN memory'[typ] : memory'[typ][i].key = memory'[typ][j].key => i = j
  BY DEF MemoryOnce
<1> QED BY <1>2, <1>3, <1>4 DEF MemoryOnce

(* The records of one pull are one for each key. *)
LEMMA MergedOnce ==
    ASSUME NEW list \in Seq(Records), list = <<>>, NEW recs \in Seq(Records),
           NEW match \in BOOLEAN,
           \A i, j \in DOMAIN recs : recs[i].key = recs[j].key => i = j
    PROVE  \A i, j \in DOMAIN Merged(list, recs, match) :
              Merged(list, recs, match)[i].key = Merged(list, recs, match)[j].key => i = j
<1>1. CASE ~match
  <2>1. Merged(list, recs, match) = recs
    <3>1. list \o recs = recs
      OBVIOUS
    <3> QED BY <1>1, <3>1 DEF Merged
  <2> QED BY <2>1
<1>2. CASE match
  <2>2. PICK A, B \in Seq(Records) :
            /\ Merged(list, recs, TRUE) = A \o B /\ DOMAIN A = DOMAIN list
            /\ \A i \in DOMAIN list : A[i] = Replaced(list[i], recs)
            /\ \A r : r \in ToSet(B) <=> r \in NewRecords(list, recs)
            /\ \A i, j \in DOMAIN B : B[i] = B[j] => i = j
    BY MergedParts
  <2>3. A \o B = B
    <3>1. DOMAIN A = {}
      BY <2>2
    <3>2. Len(A) = 0
      BY <3>1
    <3> QED BY <3>2
  <2>4. Merged(list, recs, match) = B
    BY <1>2, <2>2, <2>3
  <2>5. \A r \in ToSet(B) : \E i \in DOMAIN recs : r = recs[i]
    BY <2>2 DEF NewRecords, ToSet
  <2>6. \A i \in DOMAIN B : B[i] \in ToSet(B)
    BY DEF ToSet
  <2>7. ASSUME NEW i \in DOMAIN B, NEW j \in DOMAIN B, B[i].key = B[j].key PROVE i = j
    <3>1. B[i] = B[j]
      BY <2>5, <2>6, <2>7
    <3> QED BY <2>2, <3>1
  <2> QED BY <2>4, <2>7
<1> QED BY <1>1, <1>2

LEMMA MemoryPulledOnce ==
    ASSUME TypeOK, InOrder, Clean, NEW t \in Types, MemoryOnce(t),
           NEW sys, NEW typ, NEW list, NEW match, NEW res, PullStep(sys, typ, list, match, res)
    PROVE  MemoryOnce(t)'
<1>0. Fetched(sys, typ, res) /\ match \in BOOLEAN /\ <<sys, typ>> # <<"Sf", "C">>
  BY PullPlaced DEF PullStep
<1>1. /\ res.recs \in Seq(Records) /\ typ \in Types
      /\ \A i, j \in DOMAIN res.recs : res.recs[i].key = res.recs[j].key => i = j
  BY <1>0, FetchedOf
<1>2. /\ todo # <<>> /\ Head(todo).step = "pull" /\ Head(todo).typ = typ /\ todo' = Tail(todo)
      /\ memory' = [memory EXCEPT ![typ] = Merged(@, res.recs, match)]
  <2>1. list = typ
    BY PullPlaced
  <2>2. PullInto(list, match, typ, res) /\ Now("pull", sys, typ)
    BY DEF PullStep
  <2> QED BY <2>1, <2>2 DEF PullInto, Now
<1>3. memory \in [Types -> Seq(Records)]
  BY DEF TypeOK
<1>4. CASE t # typ
  <2>1. memory'[t] = memory[t]
    BY <1>1, <1>2, <1>3, <1>4
  <2> QED BY <1>2, <2>1, MemoryKept
<1>5. CASE t = typ
  <2>1. 1 \in DOMAIN todo /\ todo[1] = Head(todo)
    BY <1>2 DEF TypeOK
  <2>2. memory[typ] = <<>>
    BY <1>2, <1>5, <2>1 DEF MemoryOnce
  <2>3. memory'[typ] = Merged(memory[typ], res.recs, match) /\ memory[typ] \in Seq(Records)
    BY <1>1, <1>2, <1>3
  <2>4. \A i, j \in DOMAIN memory'[t] : memory'[t][i].key = memory'[t][j].key => i = j
    <3> DEFINE M == memory[typ]
               R == res.recs
               N == Merged(M, R, match)
    <3>1. M \in Seq(Records) /\ M = <<>> /\ R \in Seq(Records) /\ memory'[t] = N
          /\ \A i, j \in DOMAIN R : R[i].key = R[j].key => i = j
      BY <1>1, <1>5, <2>2, <2>3
    <3> HIDE DEF M, R
    <3>2. \A i, j \in DOMAIN N : N[i].key = N[j].key => i = j
      BY <1>0, <3>1, MergedOnce
    <3> QED BY <3>1, <3>2
  <2>5. ASSUME NEW i \in DOMAIN todo', todo'[i].step = "pull", todo'[i].typ = t PROVE FALSE
    <3>1. i + 1 \in DOMAIN todo /\ todo'[i] = todo[i + 1] /\ i \in Nat /\ i >= 1
      BY <1>2, TodoOf
    <3>2. i + 1 = 1
      BY <1>2, <1>5, <2>1, <2>5, <3>1 DEF MemoryOnce
    <3> QED BY <3>1, <3>2
  <2> QED BY <2>4, <2>5 DEF MemoryOnce
<1> QED BY <1>4, <1>5

SameAs(sys, typ, r, table, accs) ==
    IF <<sys, typ>> = <<"Sf", "C">>
    THEN r.sf # NoId /\ accs[r.sf].val = r.val
    ELSE table[r.key] # None /\ table[r.key].val = r.val

LEMMA EqualIs ==
    ASSUME NEW sys, NEW typ
    PROVE  EqualSoFar(sys, typ) <=>
              /\ <<sys, typ>> \notin differs
              /\ \/ Left("push", sys, typ)
                 \/ \A i \in DOMAIN memory[typ] :
                       SameAs(sys, typ, memory[typ][i], stored[<<sys, typ>>], accounts)
              /\ Now("push", sys, typ) =>
                    \A i \in DOMAIN memory[typ] :
                       i <= at \/ (RefOpen /\ i = at + 1) =>
                           SameAs(sys, typ, memory[typ][i], stored[<<sys, typ>>], accounts)
  BY DEF EqualSoFar, Same, SameAs

LEMMA EqualNext ==
    ASSUME NEW sys, NEW typ,
           <<sys, typ>> \notin differs',
           \/ Left("push", sys, typ)'
           \/ \A i \in DOMAIN memory'[typ] :
                 SameAs(sys, typ, memory'[typ][i], stored'[<<sys, typ>>], accounts'),
           Now("push", sys, typ)' =>
              \A i \in DOMAIN memory'[typ] :
                 i <= at' \/ (RefOpen' /\ i = at' + 1) =>
                     SameAs(sys, typ, memory'[typ][i], stored'[<<sys, typ>>], accounts')
    PROVE  EqualSoFar(sys, typ)'
  BY DEF EqualSoFar, Same, SameAs

(* The end of a push, and what does not push: all that is pushed is equal. *)
LEMMA EqualTail ==
    ASSUME TypeOK, NEW sys, NEW typ \in Types, EqualSoFar(sys, typ), todo # <<>>, exit = "running",
           todo' = Tail(todo), at' = 0, ~RefOpen', UNCHANGED <<memory, stored, accounts>>,
           <<sys, typ>> \notin differs', Now("push", sys, typ) => at = Len(memory[typ])
    PROVE  EqualSoFar(sys, typ)'
<1>1. memory[typ] \in Seq(Records)
  BY DEF TypeOK
<1>2. \A i \in DOMAIN memory[typ] : i \in Nat /\ i >= 1 /\ i <= Len(memory[typ])
  BY <1>1
<1>3. Left("push", sys, typ)' <=> LeftOf(Tail(todo), "push", sys, typ)
  BY DEF Left, LeftOf
<1>4. CASE Left("push", sys, typ)'
  BY <1>2, <1>4, EqualNext
<1>5. CASE ~Left("push", sys, typ)'
  <2>1. ~Left("push", sys, typ) \/ Now("push", sys, typ)
    BY <1>3, <1>5, LeftTail DEF Now
  <2>2. \A i \in DOMAIN memory[typ] :
            SameAs(sys, typ, memory[typ][i], stored[<<sys, typ>>], accounts)
    <3>1. CASE ~Left("push", sys, typ)
      BY <3>1, EqualIs
    <3>2. CASE Now("push", sys, typ)
      BY <1>2, <3>2, EqualIs
    <3> QED BY <2>1, <3>1, <3>2
  <2> QED BY <1>2, <2>2, EqualNext
<1> QED BY <1>4, <1>5

(* A record that is saved is equal, and none other of the table changes. *)
LEMMA EqualPush ==
    ASSUME TypeOK, NEW sys \in Systems, NEW typ \in Types, EqualSoFar(sys, typ), MemoryOnce(typ),
           NEW s, NEW t, Pushing(s, t), <<s, t>> # <<"Sf", "C">>, NEW sf \in Nat, Written(s, t, TRUE, sf),
           ~RefOpen', ~RefOpen, at' = at + 1, UNCHANGED <<todo, exit, memory, accounts, differs>>
    PROVE  EqualSoFar(sys, typ)'
<1> DEFINE M == memory[typ]
           T == stored[<<sys, typ>>]
           U == stored'[<<sys, typ>>]
           ok(i) == SameAs(sys, typ, M[i], T, accounts)
           okP(i) == SameAs(sys, typ, M[i], U, accounts)
<1>1. /\ t \in Types /\ s \in Systems /\ Rec = memory[t][at + 1] /\ Rec \in Records
      /\ at + 1 \in DOMAIN memory[t]
  BY RecOf
<1>2. /\ stored'[<<s, t>>][Rec.key] = [val |-> Rec.val, sf |-> sf]
      /\ wrote'[<<s, t>>][Rec.key] = Rec.val
      /\ \A x \in Tables, k \in Keys :
            x # <<s, t>> \/ k # Rec.key =>
                wrote'[x][k] = wrote[x][k] /\ stored'[x][k] = stored[x][k]
  BY <1>1, WrittenIs, Zenon
<1>3. [val |-> Rec.val, sf |-> sf] # None
  <2>1. [val |-> Rec.val, sf |-> sf] \in Data
    BY <1>1 DEF Data, Records
  <2> QED BY <2>1, DataManAssumption
<1>4. <<sys, typ>> \in Tables
  BY DEF Tables, Systems
<1>5. M \in Seq(Records) /\ \A i \in DOMAIN M : M[i].key \in Keys /\ i \in Nat
  <2>1. M \in Seq(Records)
    BY DEF TypeOK
  <2> HIDE DEF M
  <2>2. \A i \in DOMAIN M : M[i] \in Records /\ i \in Nat
    BY <2>1
  <2> QED BY <2>1, <2>2 DEF Records
<1>6. ASSUME NEW i \in DOMAIN M, ok(i) \/ (<<sys, typ>> = <<s, t>> /\ i = at + 1) PROVE okP(i)
  <2>1. CASE <<sys, typ>> = <<s, t>>
    <3>1. sys = s /\ typ = t
      BY <2>1, PairOf
    <3>2. CASE i = at + 1
      <4>1. M[i] = Rec
        BY <1>1, <3>1, <3>2
      <4>2. U[Rec.key] # None /\ U[Rec.key].val = Rec.val
        BY <1>2, <1>3, <3>1
      <4> HIDE DEF M, U
      <4> QED BY <2>1, <4>1, <4>2 DEF SameAs
    <3>3. CASE i # at + 1
      <4>1. M[i].key # Rec.key
        BY <1>1, <3>1, <3>3 DEF MemoryOnce
      <4>2. U[M[i].key] = T[M[i].key]
        BY <1>2, <1>4, <1>5, <4>1
      <4>3. ok(i)
        BY <1>6, <3>3
      <4> HIDE DEF M, U, T
      <4> QED BY <4>2, <4>3 DEF SameAs
    <3> QED BY <3>2, <3>3
  <2>2. CASE <<sys, typ>> # <<s, t>>
    <3>1. U[M[i].key] = T[M[i].key]
      BY <1>2, <1>4, <1>5, <2>2
    <3>2. ok(i)
      BY <1>6, <2>2
    <3> HIDE DEF M, U, T
    <3> QED BY <3>1, <3>2 DEF SameAs
  <2> QED BY <2>1, <2>2
<1>7. /\ <<sys, typ>> \notin differs
      /\ Left("push", sys, typ) \/ \A i \in DOMAIN M : ok(i)
      /\ Now("push", sys, typ) => \A i \in DOMAIN M : i <= at => ok(i)
  BY EqualIs
<1>8. (Left("push", sys, typ)' <=> Left("push", sys, typ))
      /\ (Now("push", sys, typ)' => Now("push", sys, typ) /\ <<sys, typ>> = <<s, t>>)
  BY DEF Left, Now, Pushing
<1>9. at \in Nat
  BY DEF TypeOK
<1> HIDE DEF ok, okP
<1>10. Left("push", sys, typ)' \/ \A i \in DOMAIN M : okP(i)
  BY <1>6, <1>7, <1>8
<1>11. Now("push", sys, typ)' => \A i \in DOMAIN M : i <= at' \/ (RefOpen' /\ i = at' + 1) => okP(i)
  <2> SUFFICES ASSUME Now("push", sys, typ)', NEW i \in DOMAIN M, i <= at + 1 PROVE okP(i)
    OBVIOUS
  <2>1. i \in Nat /\ (i <= at \/ i = at + 1)
    BY <1>5, <1>9
  <2> QED BY <1>6, <1>7, <1>8, <2>1
<1> QED BY <1>7, <1>10, <1>11, EqualNext DEF okP

(* A client that Salesforce took is equal to its account, and no other     *)
(* account changes.                                                        *)
LEMMA EqualSfPush ==
    ASSUME TypeOK, IdsRight, NEW sys \in Systems, NEW typ \in Types, EqualSoFar(sys, typ),
           MemoryOnce(typ), NEW o, o = "done", SfPushStep(o), UNCHANGED <<todo, exit>>,
           (RefOpen' /\ UNCHANGED at) \/ (~RefOpen' /\ at' = at + 1)
    PROVE  EqualSoFar(sys, typ)'
<1> DEFINE C == memory["C"]
           M == memory[typ]
           N == memory'[typ]
           T == stored[<<sys, typ>>]
           id == IdAfterUpsert(Rec, o)
           n == at + 1
<1>1. /\ Rec \in Records /\ Rec = C[n] /\ n \in DOMAIN C
      /\ memory'["R"] = memory["R"] /\ DOMAIN memory'["C"] = DOMAIN C
      /\ \A i \in DOMAIN C :
            /\ memory'["C"][i].key = C[i].key /\ memory'["C"][i].val = C[i].val
            /\ i # n => memory'["C"][i] = C[i]
      /\ memory'["C"][n].sf = id
  BY SfPushOf
<1>2. Applied(o) /\ id = IF Rec.sf # NoId THEN Rec.sf ELSE Len(accounts) + 1
  BY DEF Applied, IdAfterUpsert
<1>3. /\ UNCHANGED <<stored, differs>> /\ ~RefOpen /\ Pushing("Sf", "C")
  BY DEF SfPushStep
<1>4. /\ Rec.sf # NoId => Rec.sf \in DOMAIN accounts /\ accounts[Rec.sf].key = Rec.key
      /\ Len(accounts) \in Nat
      /\ \A i \in DOMAIN accounts : i # Rec.sf => accounts'[i] = accounts[i]
      /\ Rec.typ = "C"
  BY <1>2, SfAccounts
<1>5. id # NoId
  BY <1>2, <1>4 DEF NoId
<1>6. accounts'[id] = Account(Rec)
  BY <1>5, SfIdAfter
<1>7. accounts'[id].val = Rec.val
  BY <1>6 DEF Account
<1> HIDE DEF id
<1>8. DOMAIN N = DOMAIN M /\ typ \in {"C", "R"}
  BY <1>1 DEF Types
<1>9. \A i \in DOMAIN M : i \in Nat
  <2>1. M \in Seq(Records)
    BY DEF TypeOK
  <2> HIDE DEF M
  <2> QED BY <2>1
<1>10. ASSUME NEW i \in DOMAIN M,
              SameAs(sys, typ, M[i], T, accounts) \/ (<<sys, typ>> = <<"Sf", "C">> /\ i = n)
       PROVE  SameAs(sys, typ, N[i], T, accounts')
  <2>1. CASE <<sys, typ>> # <<"Sf", "C">>
    <3>1. N[i].key = M[i].key /\ N[i].val = M[i].val
      BY <1>1, <1>8
    <3>2. SameAs(sys, typ, M[i], T, accounts)
      BY <1>10, <2>1
    <3> HIDE DEF M, N, T
    <3> QED BY <2>1, <3>1, <3>2 DEF SameAs
  <2>2. CASE <<sys, typ>> = <<"Sf", "C">>
    <3>1. typ = "C" /\ sys = "Sf"
      BY <2>2, PairOf
    <3>2. CASE i = n
      <4>1. N[i].sf = id /\ N[i].val = Rec.val
        BY <1>1, <3>1, <3>2
      <4> HIDE DEF M, N, T
      <4> QED BY <1>5, <1>7, <2>2, <4>1 DEF SameAs
    <3>3. CASE i # n
      <4>1. N[i] = M[i] /\ M[i].key # Rec.key
        BY <1>1, <3>1, <3>3 DEF MemoryOnce
      <4>2. SameAs(sys, typ, M[i], T, accounts)
        BY <1>10, <3>3
      <4>3. M[i].sf # NoId /\ accounts[M[i].sf].val = M[i].val
        BY <2>2, <4>2 DEF SameAs
      <4>4. M[i].sf \in DOMAIN accounts /\ accounts[M[i].sf].key = M[i].key
        <5>1. "C" \in Types /\ M[i] \in ToSet(memory["C"])
          BY <3>1 DEF Types, ToSet
        <5> QED BY <4>3, <5>1 DEF IdsRight, IdOf
      <4>5. M[i].sf # Rec.sf
        BY <1>4, <4>1, <4>3, <4>4
      <4>6. accounts'[M[i].sf] = accounts[M[i].sf]
        BY <1>4, <4>4, <4>5
      <4> HIDE DEF M, N, T
      <4> QED BY <2>2, <4>1, <4>3, <4>6 DEF SameAs
    <3> QED BY <3>2, <3>3
  <2> QED BY <2>1, <2>2
<1>11. /\ <<sys, typ>> \notin differs
       /\ Left("push", sys, typ) \/ \A i \in DOMAIN M : SameAs(sys, typ, M[i], T, accounts)
       /\ Now("push", sys, typ) => \A i \in DOMAIN M : i <= at => SameAs(sys, typ, M[i], T, accounts)
  BY EqualIs
<1>12. (Left("push", sys, typ)' <=> Left("push", sys, typ))
       /\ (Now("push", sys, typ)' => Now("push", sys, typ) /\ <<sys, typ>> = <<"Sf", "C">>)
  BY <1>3 DEF Left, Now, Pushing
<1>13. at \in Nat
  BY DEF TypeOK
<1> DEFINE okP(i) == SameAs(sys, typ, N[i], T, accounts')
<1>14. \A i \in DOMAIN M :
          SameAs(sys, typ, M[i], T, accounts) \/ (<<sys, typ>> = <<"Sf", "C">> /\ i = n) => okP(i)
  BY <1>10
<1> HIDE DEF okP
<1>15. Left("push", sys, typ)' \/ \A i \in DOMAIN N : okP(i)
  BY <1>8, <1>11, <1>12, <1>14
<1>16. Now("push", sys, typ)' => \A i \in DOMAIN N : i <= at' \/ (RefOpen' /\ i = at' + 1) => okP(i)
  <2> SUFFICES ASSUME Now("push", sys, typ)', NEW i \in DOMAIN M, i <= at + 1 PROVE okP(i)
    BY <1>8, <1>9, <1>13
  <2>1. i \in Nat /\ (i <= at \/ i = n)
    BY <1>9, <1>13
  <2> QED BY <1>11, <1>12, <1>14, <2>1
<1> QED BY <1>3, <1>11, <1>15, <1>16, EqualNext DEF okP

(* A reservation that AssCache took is equal; its new guests are clients   *)
(* of their own.                                                           *)
LEMMA EqualGuest ==
    ASSUME TypeOK, NEW sys \in Systems, NEW typ \in Types, EqualSoFar(sys, typ), MemoryOnce(typ),
           NEW o, NEW made, NEW data, GuestStep(o, made, data), o = "done", typ = "C" => made = {},
           ~RefOpen, ~RefOpen', at' = at + 1, UNCHANGED todo
    PROVE  EqualSoFar(sys, typ)'
<1> DEFINE M == memory[typ]
           N == memory'[typ]
           T == stored[<<sys, typ>>]
           U == stored'[<<sys, typ>>]
           ok(i) == SameAs(sys, typ, M[i], T, accounts)
           okP(i) == SameAs(sys, typ, M[i], U, accounts)
<1>1. /\ Rec \in Records /\ Rec = memory["R"][at + 1] /\ GuestRows(o, made)
      /\ stored'[<<"Ass", "R">>][Rec.key] # None /\ stored'[<<"Ass", "R">>][Rec.key].val = Rec.val
      /\ memory'["R"] = memory["R"] /\ \E L : NewGuests(L, made)
  BY GuestOf
<1>2. UNCHANGED <<accounts, differs, exit>> /\ Pushing("Ass", "R")
  BY DEF GuestStep
<1>3. M \in Seq(Records) /\ at \in Nat /\ \A i \in DOMAIN M : M[i].key \in Keys /\ i \in Nat
  <2>1. M \in Seq(Records) /\ at \in Nat
    BY DEF TypeOK
  <2> HIDE DEF M
  <2>2. \A i \in DOMAIN M : M[i] \in Records /\ i \in Nat
    BY <2>1
  <2> QED BY <2>1, <2>2 DEF Records
<1>4. N = M
  <2>1. CASE typ = "R"
    BY <1>1, <2>1
  <2>2. CASE typ = "C"
    <3>1. PICK L : NewGuests(L, made)
      BY <1>1
    <3>2. L \in Seq(Records) /\ N = M \o L /\ made = {}
      BY <2>2, <3>1 DEF NewGuests
    <3>3. DOMAIN L = {}
      BY <3>1, <3>2 DEF NewGuests
    <3> HIDE DEF M, N
    <3>4. L = <<>>
      BY <3>2, <3>3
    <3> QED BY <1>3, <3>2, <3>4
  <2> QED BY <2>1, <2>2 DEF Types
<1>5. <<sys, typ>> \in Tables
  BY DEF Tables, Systems
<1>6. \A k \in Keys : U[k] = T[k] \/ (<<sys, typ>> = <<"Ass", "R">> /\ k = Rec.key)
  <2>1. <<sys, typ>> = <<"Ass", "C">> => made = {}
    BY PairOf
  <2> QED BY <1>1, <1>5, <2>1 DEF GuestRows
<1>7. ASSUME NEW i \in DOMAIN M, ok(i) \/ (<<sys, typ>> = <<"Ass", "R">> /\ i = at + 1) PROVE okP(i)
  <2>1. CASE <<sys, typ>> = <<"Ass", "R">> /\ M[i].key = Rec.key
    <3>1. typ = "R" /\ at + 1 \in DOMAIN M /\ M[at + 1] = Rec
      BY <1>1, <1>2, <2>1, PairOf, RecOf
    <3>2. i = at + 1
      BY <2>1, <3>1 DEF MemoryOnce
    <3>3. M[i] = Rec /\ U[Rec.key] # None /\ U[Rec.key].val = Rec.val
      BY <1>1, <2>1, <3>1, <3>2
    <3> HIDE DEF M, U
    <3> QED BY <2>1, <3>3 DEF SameAs
  <2>2. CASE ~(<<sys, typ>> = <<"Ass", "R">> /\ M[i].key = Rec.key)
    <3>1. U[M[i].key] = T[M[i].key]
      BY <1>3, <1>6, <2>2
    <3>2. ok(i)
      <4>1. CASE <<sys, typ>> = <<"Ass", "R">> /\ i = at + 1
        <5>1. typ = "R"
          BY <4>1, PairOf
        <5> QED BY <1>1, <2>2, <4>1, <5>1
      <4> QED BY <1>7, <4>1
    <3> HIDE DEF M, U, T
    <3> QED BY <3>1, <3>2 DEF SameAs
  <2> QED BY <2>1, <2>2
<1>8. /\ <<sys, typ>> \notin differs
      /\ Left("push", sys, typ) \/ \A i \in DOMAIN M : ok(i)
      /\ Now("push", sys, typ) => \A i \in DOMAIN M : i <= at => ok(i)
  BY EqualIs
<1>9. (Left("push", sys, typ)' <=> Left("push", sys, typ))
      /\ (Now("push", sys, typ)' => Now("push", sys, typ) /\ <<sys, typ>> = <<"Ass", "R">>)
  BY <1>2 DEF Left, Now, Pushing
<1>10. \A i \in DOMAIN M : ok(i) \/ (<<sys, typ>> = <<"Ass", "R">> /\ i = at + 1) => okP(i)
  BY <1>7
<1> HIDE DEF ok, okP
<1>11. Left("push", sys, typ)' \/ \A i \in DOMAIN M : okP(i)
  BY <1>8, <1>9, <1>10
<1>12. Now("push", sys, typ)' => \A i \in DOMAIN M : i <= at' \/ (RefOpen' /\ i = at' + 1) => okP(i)
  <2> SUFFICES ASSUME Now("push", sys, typ)', NEW i \in DOMAIN M, i <= at + 1 PROVE okP(i)
    OBVIOUS
  <2>1. i \in Nat /\ (i <= at \/ i = at + 1)
    BY <1>3
  <2> QED BY <1>8, <1>9, <1>10, <2>1
<1> QED BY <1>2, <1>4, <1>8, <1>11, <1>12, EqualNext DEF okP

LEMMA EqualRef ==
    ASSUME TypeOK, NEW sys, NEW typ \in Types, EqualSoFar(sys, typ), RefOpen, ~RefOpen', at' = at + 1,
           UNCHANGED <<todo, exit, memory, stored, accounts, differs>>
    PROVE  EqualSoFar(sys, typ)'
<1> DEFINE M == memory[typ]
           ok(i) == SameAs(sys, typ, M[i], stored[<<sys, typ>>], accounts)
<1>1. at \in Nat /\ \A i \in DOMAIN M : i \in Nat
  <2>1. M \in Seq(Records) /\ at \in Nat
    BY DEF TypeOK
  <2> HIDE DEF M
  <2> QED BY <2>1
<1>2. (Left("push", sys, typ)' <=> Left("push", sys, typ))
      /\ (Now("push", sys, typ)' <=> Now("push", sys, typ))
  BY DEF Left, Now
<1>3. /\ <<sys, typ>> \notin differs
      /\ Left("push", sys, typ) \/ \A i \in DOMAIN M : ok(i)
      /\ Now("push", sys, typ) => \A i \in DOMAIN M : i <= at \/ i = at + 1 => ok(i)
  BY EqualIs
<1> HIDE DEF ok
<1>4. Left("push", sys, typ)' \/ \A i \in DOMAIN M : ok(i)
  BY <1>2, <1>3
<1>5. Now("push", sys, typ)' => \A i \in DOMAIN M : i <= at' \/ (RefOpen' /\ i = at' + 1) => ok(i)
  <2> SUFFICES ASSUME Now("push", sys, typ)', NEW i \in DOMAIN M, i <= at + 1 PROVE ok(i)
    OBVIOUS
  <2>1. i <= at \/ i = at + 1
    BY <1>1
  <2> QED BY <1>2, <1>3, <2>1
<1> QED BY <1>3, <1>4, <1>5, EqualNext DEF ok

(* Records that are equal to the rows of a table do not differ. *)
LEMMA NotDifferent ==
    ASSUME TypeOK, IdsRight, NEW sys \in Systems, NEW typ \in Types,
           \A r \in ToSet(memory[typ]) : r.typ = typ,
           \A i \in DOMAIN memory[typ] :
              SameAs(sys, typ, memory[typ][i], stored[<<sys, typ>>], accounts)
    PROVE  ~Different(sys, typ, TableRows(sys, typ))
<1> SUFFICES ASSUME NEW rec \in ToSet(memory[typ])
             PROVE  \E row \in ToSet(TableRows(sys, typ)) : Matches(sys, rec, row) /\ rec.val = row.val
  BY DEF Different
<1>1. rec \in Records /\ SameAs(sys, typ, rec, stored[<<sys, typ>>], accounts) /\ rec.typ = typ
  <2> DEFINE M == memory[typ]
  <2>1. M \in Seq(Records)
    BY DEF TypeOK
  <2>2. rec \in ToSet(M)
    OBVIOUS
  <2> HIDE DEF M
  <2>3. rec \in Records /\ \E i \in DOMAIN M : rec = M[i]
    BY <2>1, <2>2, SeqFacts
  <2> QED BY <2>3 DEF M
<1>2. CASE <<sys, typ>> = <<"Sf", "C">>
  <2>1. typ = "C" /\ sys = "Sf"
    BY <1>2, PairOf
  <2>2. rec.sf # NoId /\ accounts[rec.sf].val = rec.val
    BY <1>1, <1>2 DEF SameAs
  <2>3. rec.sf \in DOMAIN accounts
    BY <1>1, <2>1, <2>2 DEF IdsRight, IdOf
  <2>4. /\ rec.sf \in DOMAIN AccountRows /\ AccountRows[rec.sf].sf = rec.sf
        /\ AccountRows[rec.sf].val = rec.val
    BY <2>2, <2>3, AccountRowsOf
  <2>5. AccountRows[rec.sf] \in ToSet(AccountRows)
    BY <2>4 DEF ToSet
  <2>6. TableRows(sys, typ) = AccountRows
    BY <1>2 DEF TableRows
  <2>7. Matches(sys, rec, AccountRows[rec.sf])
    BY <1>1, <2>1, <2>4 DEF Matches
  <2> QED BY <2>4, <2>5, <2>6, <2>7
<1>3. CASE <<sys, typ>> # <<"Sf", "C">>
  <2> DEFINE R == Rows(sys, typ)
  <2>1. stored[<<sys, typ>>][rec.key] # None /\ stored[<<sys, typ>>][rec.key].val = rec.val
    BY <1>1, <1>3 DEF SameAs
  <2>2. rec.key \in Keys
    BY <1>1 DEF Records
  <2>3. PICK i \in DOMAIN R : R[i].key = rec.key
    BY <2>1, <2>2, RowsOf
  <2>4. R[i].val = stored[<<sys, typ>>][R[i].key].val
    BY <2>3, RowsOf
  <2>5. TableRows(sys, typ) = R /\ R[i] \in ToSet(R)
    BY <1>3, <2>3 DEF TableRows, ToSet
  <2>6. ~(sys = "Sf" /\ rec.typ = "C")
    BY <1>1, <1>3
  <2>7. Matches(sys, rec, R[i])
    BY <2>3, <2>6 DEF Matches
  <2>8. rec.val = R[i].val
    BY <2>1, <2>3, <2>4
  <2> QED BY <2>5, <2>7, <2>8
<1> QED BY <1>2, <1>3

(* New guests are no second records. *)
LEMMA MemoryGuestsOnce ==
    ASSUME TypeOK, Ordered(todo, run), NEW typ \in Types, MemoryOnce(typ), NEW o, NEW made, NEW data,
           GuestStep(o, made, data)
    PROVE  MemoryOnce(typ)'
<1>1. /\ Pushing("Ass", "R") /\ todo # <<>> /\ Head(todo).step = "push"
      /\ UNCHANGED todo \/ todo' = Tail(todo)
  BY DEF GuestStep, Pushing, Now, AfterRecord
<1>2. \A i \in DOMAIN todo : todo[i].step # "pull"
  BY <1>1, NoPullLeft
<1>3. memory'["R"] = memory["R"] /\ \E N : NewGuests(N, made)
  BY GuestOf
<1>4. CASE typ = "R"
  BY <1>1, <1>2, <1>3, <1>4, MemoryKept
<1>5. CASE typ = "C"
  <2>1. PICK N : NewGuests(N, made)
    BY <1>3
  <2> DEFINE M == memory["C"]
             Q == memory'["C"]
  <2>2. /\ M \in Seq(Records) /\ N \in Seq(Records) /\ Q = M \o N
        /\ \A i \in DOMAIN N : ~InMemory(N[i].key)
        /\ \A i, j \in DOMAIN N : N[i].key = N[j].key => i = j
    BY <2>1 DEF NewGuests, TypeOK, Types
  <2>3. \A i, j \in DOMAIN M : M[i].key = M[j].key => i = j
    BY <1>5 DEF MemoryOnce
  <2>4. \A i \in DOMAIN M : InMemory(M[i].key)
    BY DEF InMemory, ToSet
  <2> HIDE DEF M, Q
  <2>5. ASSUME NEW i \in DOMAIN Q, NEW j \in DOMAIN Q, Q[i].key = Q[j].key PROVE i = j
    <3>1. /\ \/ i \in DOMAIN M /\ Q[i] = M[i]
             \/ i - Len(M) \in DOMAIN N /\ Q[i] = N[i - Len(M)]
          /\ \/ j \in DOMAIN M /\ Q[j] = M[j]
             \/ j - Len(M) \in DOMAIN N /\ Q[j] = N[j - Len(M)]
      BY <2>2, ConcatOf
    <3>2. CASE i - Len(M) \in DOMAIN N /\ Q[i] = N[i - Len(M)] /\ j - Len(M) \in DOMAIN N
               /\ Q[j] = N[j - Len(M)]
      <4>1. i - Len(M) = j - Len(M)
        BY <2>2, <2>5, <3>2
      <4>2. i \in Nat /\ j \in Nat /\ Len(M) \in Nat
        <5>1. Q \in Seq(Records) /\ Len(M) \in Nat
          BY <2>2, ConcatOf
        <5> QED BY <5>1, SeqFacts
      <4> QED BY <4>1, <4>2
    <3>3. ASSUME NEW x \in DOMAIN M, NEW y \in DOMAIN N PROVE M[x].key # N[y].key
      BY <2>2, <2>4
    <3> QED BY <2>3, <2>5, <3>1, <3>2, <3>3
  <2>6. \A i \in DOMAIN todo' : todo'[i].step # "pull"
    <3>1. CASE todo' = Tail(todo)
      BY <1>1, <1>2, <3>1, TodoOf
    <3> QED BY <1>1, <1>2, <3>1
  <2> QED BY <1>5, <2>5, <2>6 DEF MemoryOnce, Q
<1> QED BY <1>4, <1>5 DEF Types

(* No step that goes on repeats a pull. *)
LEMMA MemoryStep ==
    ASSUME TypeOK, InOrder, Clean, NEW typ \in Types, MemoryOnce(typ), Steps1, ~StartRun,
           exit' = "running", ~errorLog', ~skipped'
    PROVE  MemoryOnce(typ)'
<1>1. Ordered(todo, run) /\ Position /\ exit = "running"
  BY InOrderIs DEF Clean
<1>2. CASE StartDies \/ Finish \/ Died \/ NotImplemented
  BY <1>2 DEF StartDies, Finish, SendNotification, Died, NotImplemented
<1>3. ASSUME UNCHANGED memory, UNCHANGED todo \/ (todo # <<>> /\ todo' = Tail(todo))
      PROVE  MemoryOnce(typ)'
  BY <1>3, MemoryKept
<1>4. CASE PushDone \/ Idle
  BY <1>3, <1>4 DEF PushDone, Idle, Same1
<1>5. ASSUME NEW s \in Systems, NEW t \in Types, NEW key \in Keys, Change(s, t, key)
      PROVE  MemoryOnce(typ)'
  BY <1>3, <1>5 DEF Change, progVars
<1>6. ASSUME NEW s, NEW t, NEW list, NEW match, NEW res, PullStep(s, t, list, match, res)
      PROVE  MemoryOnce(typ)'
  BY <1>6, MemoryPulledOnce
<1>7. ASSUME NEW s, NEW t, NEW res, CompareStep(s, t, res)
      PROVE  MemoryOnce(typ)'
  BY <1>3, <1>7 DEF CompareStep, CompareWith, Now
<1>8. ASSUME NEW s, NEW t, NEW applied, NEW sf, NEW err, PushStep(s, t, applied, sf, err)
      PROVE  MemoryOnce(typ)'
  BY <1>3, <1>8 DEF PushStep, Pushing, Now, AfterRecord
<1>9. ASSUME NEW o, SfPushStep(o) PROVE MemoryOnce(typ)'
  <2>1. /\ todo # <<>> /\ Head(todo).step = "push"
        /\ UNCHANGED todo \/ (todo # <<>> /\ todo' = Tail(todo))
    BY <1>9 DEF SfPushStep, Pushing, Now, AfterRecord
  <2>2. \A i \in DOMAIN todo : todo[i].step # "pull"
    BY <1>1, <2>1, NoPullLeft
  <2>3. /\ memory'["R"] = memory["R"] /\ DOMAIN memory'["C"] = DOMAIN memory["C"]
        /\ \A i \in DOMAIN memory["C"] : memory'["C"][i].key = memory["C"][i].key
    BY <1>9, SfPushOf
  <2>4. DOMAIN memory'[typ] = DOMAIN memory[typ]
        /\ \A i \in DOMAIN memory[typ] : memory'[typ][i].key = memory[typ][i].key
    BY <2>3 DEF Types
  <2> QED BY <2>1, <2>2, <2>4, MemoryKept
<1>10. ASSUME NEW o, RefStep(o) PROVE MemoryOnce(typ)'
  BY <1>3, <1>10 DEF RefStep, Pushing, Now, AfterRecord
<1>11. ASSUME NEW o, NEW made, NEW data, GuestStep(o, made, data) PROVE MemoryOnce(typ)'
  BY <1>1, <1>11, MemoryGuestsOnce
<1> QED BY <1>2, <1>4, <1>5, <1>6, <1>7, <1>8, <1>9, <1>10, <1>11 DEF Steps1, Systems

(* A table that the run pushes onto and that no one else changes. *)
LEMMA EqualStep ==
    ASSUME TypeOK, InOrder, IdsRight, Clean, MemoryWins, TypeOK', NEW typ \in Types, MemoryOnce(typ),
           NEW sys \in Systems, PushesOnto(sys, typ), <<sys, typ>> \notin touched', EqualSoFar(sys, typ),
           typ = "C" => ~created', Steps1, ~StartRun, exit' = "running", ~errorLog', ~skipped'
    PROVE  EqualSoFar(sys, typ)'
<1>1. /\ exit = "running" /\ ~errorLog /\ ~skipped /\ Ordered(todo, run) /\ Position
      /\ at \in Nat
  BY InOrderIs DEF Clean, TypeOK
<1>2. CASE StartDies \/ Finish \/ Died \/ NotImplemented
  BY <1>2 DEF StartDies, Finish, SendNotification, Died, NotImplemented
<1>3. CASE PushDone
  <2>1. /\ todo # <<>> /\ at = Len(memory[Head(todo).typ]) /\ at' = 0 /\ todo' = Tail(todo)
        /\ UNCHANGED <<accounts, stored, memory, RefOpen, differs>>
    BY <1>3 DEF PushDone, sfVars, histVars, RefOpen
  <2>2. ~RefOpen
    BY <1>1, <2>1 DEF Position, Now
  <2>3. <<sys, typ>> \notin differs
    BY DEF EqualSoFar
  <2>4. Now("push", sys, typ) => at = Len(memory[typ])
    BY <2>1 DEF Now
  <2> QED BY <1>1, <2>1, <2>2, <2>3, <2>4, EqualTail
<1>4. CASE Idle
  <2>1. UNCHANGED <<exit, todo, memory, at, RefOpen, stored, accounts, differs>>
    BY <1>4 DEF Idle, Same1
  <2> QED BY <2>1 DEF EqualSoFar, Left, Now, Same
<1>5. ASSUME NEW s \in Systems, NEW t \in Types, NEW key \in Keys, Change(s, t, key)
      PROVE  EqualSoFar(sys, typ)'
  <2>1. /\ <<s, t>> # <<"Sf", "C">> => UNCHANGED accounts
        /\ \A x \in Tables, k \in Keys : x # <<s, t>> => stored'[x][k] = stored[x][k]
        /\ UNCHANGED <<progVars, differs, RefOpen>>
        /\ touched' = touched \cup {<<s, t>>}
    BY <1>5, ChangeOf DEF RefOpen
  <2>2. <<sys, typ>> # <<s, t>> /\ UNCHANGED <<exit, todo, memory, at, RefOpen, differs>>
    BY <2>1 DEF progVars
  <2>3. <<sys, typ>> \in Tables
    BY DEF Tables, Systems
  <2>4. <<sys, typ>> = <<"Sf", "C">> => UNCHANGED accounts
    BY <2>1, <2>2
  <2>5. \A k \in Keys : stored'[<<sys, typ>>][k] = stored[<<sys, typ>>][k]
    BY <2>1, <2>2, <2>3
  <2>6. \A i \in DOMAIN memory[typ] : memory[typ][i].key \in Keys
    <3> DEFINE M == memory[typ]
    <3>1. M \in Seq(Records)
      BY DEF TypeOK
    <3> HIDE DEF M
    <3>2. \A i \in DOMAIN M : M[i] \in Records
      BY <3>1
    <3> QED BY <3>2 DEF M, Records
  <2>7. \A i \in DOMAIN memory[typ] :
            SameAs(sys, typ, memory[typ][i], stored[<<sys, typ>>], accounts)
            => SameAs(sys, typ, memory[typ][i], stored'[<<sys, typ>>], accounts')
    BY <2>4, <2>5, <2>6 DEF SameAs
  <2>8. (Left("push", sys, typ)' <=> Left("push", sys, typ))
        /\ (Now("push", sys, typ)' <=> Now("push", sys, typ))
    BY <2>2 DEF Left, Now
  <2> QED BY <2>2, <2>7, <2>8, EqualIs, EqualNext
<1>6. ASSUME NEW s, NEW t, NEW list, NEW match, NEW res, PullStep(s, t, list, match, res)
      PROVE  EqualSoFar(sys, typ)'
  <2>1. /\ todo # <<>> /\ Head(todo).step = "pull" /\ todo' = Tail(todo)
        /\ UNCHANGED <<at, RefOpen, differs>>
    BY <1>6 DEF PullStep, PullInto, Now, Fetched
  <2>2. at = 0 /\ ~RefOpen
    BY <1>1, <2>1 DEF Position, Now
  <2>3. LeftOf(todo, "push", sys, typ)
    <3>1. 1 \in DOMAIN todo /\ todo[1].step = "pull"
      BY <2>1, TodoOf
    <3> QED BY <1>1, <3>1 DEF Ordered, PushesOnto
  <2>4. LeftOf(Tail(todo), "push", sys, typ)
    BY <2>1, <2>3, LeftTail
  <2>5. Left("push", sys, typ)'
    BY <2>1, <2>4 DEF Left, LeftOf
  <2>6. \A i \in DOMAIN memory'[typ] : ~(i <= 0)
    <3> DEFINE M == memory'[typ]
    <3>1. M \in Seq(Records)
      BY DEF TypeOK
    <3> HIDE DEF M
    <3>2. \A i \in DOMAIN M : ~(i <= 0)
      BY <3>1
    <3> QED BY <3>2 DEF M
  <2>7. <<sys, typ>> \notin differs'
    BY <2>1 DEF EqualSoFar
  <2> QED BY <2>1, <2>2, <2>5, <2>6, <2>7, EqualNext
<1>7. ASSUME NEW s, NEW t, NEW res, CompareStep(s, t, res)
      PROVE  EqualSoFar(sys, typ)'
  <2>1. /\ todo # <<>> /\ Head(todo).step = "compare" /\ todo' = Tail(todo)
        /\ UNCHANGED <<at, RefOpen, stored, memory, accounts>>
        /\ differs' = IF ~res.msg /\ Different(s, t, res.recs)
                      THEN differs \cup {<<s, t>>} ELSE differs
        /\ Fetched(s, t, res)
    BY <1>7 DEF CompareStep, CompareWith, Now, Fetched
  <2>2. at = 0 /\ ~RefOpen
    BY <1>1, <2>1 DEF Position, Now
  <2>3. ~Left("push", sys, typ) /\ ~Now("push", sys, typ)
    <3>1. 1 \in DOMAIN todo /\ todo[1].step = "compare"
      BY <2>1, TodoOf
    <3>2. \A i \in DOMAIN todo : i = 1 \/ 1 < i
      BY DEF TypeOK
    <3>3. \A i \in DOMAIN todo : todo[i].step = "compare"
      BY <1>1, <3>1, <3>2 DEF Ordered
    <3> QED BY <2>1, <3>3 DEF Left, Now
  <2>4. /\ <<sys, typ>> \notin differs
        /\ \A i \in DOMAIN memory[typ] :
              SameAs(sys, typ, memory[typ][i], stored[<<sys, typ>>], accounts)
    BY <2>3, EqualIs
  <2>5. ~Different(sys, typ, TableRows(sys, typ))
    BY <2>4, NotDifferent DEF MemoryWins
  <2>6. <<sys, typ>> \notin differs'
    <3>1. CASE <<s, t>> = <<sys, typ>>
      <4>1. s = sys /\ t = typ
        BY <3>1, PairOf
      <4>2. ~res.msg => res.recs = TableRows(sys, typ)
        BY <2>1, <4>1 DEF Fetched
      <4>3. ~(~res.msg /\ Different(s, t, res.recs))
        BY <2>5, <4>1, <4>2
      <4> QED BY <2>1, <2>4, <4>3
    <3>2. CASE <<s, t>> # <<sys, typ>>
      BY <2>1, <2>4, <3>2
    <3> QED BY <3>1, <3>2
  <2> QED BY <1>1, <2>1, <2>2, <2>3, <2>6, EqualTail
<1>8. ASSUME NEW s, NEW t, NEW applied, NEW sf, NEW err, PushStep(s, t, applied, sf, err)
      PROVE  EqualSoFar(sys, typ)'
  <2>1. /\ Pushing(s, t) /\ <<s, t>> # <<"Sf", "C">> /\ todo # <<>>
        /\ Head(todo).sys = s /\ Head(todo).typ = t
        /\ Written(s, t, applied, sf) /\ AfterRecord(err) /\ (~err => applied)
        /\ UNCHANGED <<memory, RefOpen, exit, accounts, differs>>
    BY <1>8 DEF PushStep, Pushing, Now
  <2>2. ~err /\ at' = at + 1 /\ UNCHANGED todo
    BY <2>1, NoError
  <2>3. Written(s, t, TRUE, sf)
    BY <2>1, <2>2 DEF Written
  <2>4. ~RefOpen /\ ~RefOpen'
    BY <1>1, <2>1, PairOf DEF Position, Now
  <2>5. sf \in Nat
    BY <1>8, PushTypes
  <2> QED BY <2>1, <2>2, <2>3, <2>4, <2>5, EqualPush
<1>9. ASSUME NEW o, SfPushStep(o) PROVE EqualSoFar(sys, typ)'
  <2>1. ~RefOpen /\ UNCHANGED exit
    BY <1>9 DEF SfPushStep
  <2>2. /\ o = "done" /\ UNCHANGED todo
        /\ (RefOpen' = TRUE /\ UNCHANGED at) \/ (RefOpen' = FALSE /\ at' = at + 1)
    <3>1. CASE o = "done" /\ RefOpen' = TRUE /\ UNCHANGED <<at, todo, skipped, errorLog, failed>>
      BY <3>1
    <3>2. CASE UNCHANGED RefOpen /\ AfterRecord(o # "done")
      <4> DEFINE err == o # "done"
      <4>1. AfterRecord(err)
        BY <3>2
      <4> HIDE DEF err
      <4>2. ~err /\ at' = at + 1 /\ UNCHANGED todo
        BY <4>1, NoError
      <4>3. RefOpen' = FALSE
        BY <1>1, <2>1, <3>2, <4>2 DEF Position, Now, SfPushStep
      <4> QED BY <4>2, <4>3 DEF err
    <3> QED BY <1>9, <3>1, <3>2 DEF SfPushStep
  <2>3. (RefOpen' /\ UNCHANGED at) \/ (~RefOpen' /\ at' = at + 1)
    BY <2>2
  <2> QED BY <1>9, <2>1, <2>2, <2>3, EqualSfPush
<1>10. ASSUME NEW o, RefStep(o) PROVE EqualSoFar(sys, typ)'
  <2> DEFINE err == o # "done"
  <2>1. /\ RefOpen /\ RefOpen' = FALSE
        /\ AfterRecord(err) /\ UNCHANGED <<exit, stored, accounts, differs, memory>>
    BY <1>10 DEF RefStep
  <2> HIDE DEF err
  <2>2. ~err /\ at' = at + 1 /\ UNCHANGED todo
    BY <2>1, NoError
  <2> QED BY <2>1, <2>2, EqualRef
<1>11. ASSUME NEW o, NEW made, NEW data, GuestStep(o, made, data) PROVE EqualSoFar(sys, typ)'
  <2> DEFINE err == o # "done"
  <2>1. /\ Pushing("Ass", "R") /\ todo # <<>> /\ Head(todo).sys = "Ass"
        /\ AfterRecord(err) /\ UNCHANGED RefOpen /\ created' = (created \/ made # {})
    BY <1>11 DEF GuestStep, Pushing, Now
  <2> HIDE DEF err
  <2>2. ~err /\ at' = at + 1 /\ UNCHANGED todo
    BY <2>1, NoError
  <2>3. ~RefOpen /\ ~RefOpen'
    BY <1>1, <2>1 DEF Position, Now
  <2>4. o = "done" /\ (typ = "C" => made = {})
    BY <2>1, <2>2 DEF err
  <2> QED BY <1>11, <2>2, <2>3, <2>4, EqualGuest
<1> QED BY <1>2, <1>3, <1>4, <1>5, <1>6, <1>7, <1>8, <1>9, <1>10, <1>11 DEF Steps1, Systems

(* A run that goes on without an error had none before. *)
LEMMA StillClean ==
    ASSUME TypeOK, Steps1, ~StartRun, Clean'
    PROVE  UNCHANGED run /\ touched \subseteq touched' /\ (created => created') /\ Clean
<1>0. exit' = "running" /\ ~errorLog' /\ ~skipped' /\ ~Misplaced'
  BY DEF Clean
<1>1. ASSUME exit = "running", ~errorLog, ~skipped, UNCHANGED run, touched \subseteq touched',
             created => created'
      PROVE  UNCHANGED run /\ touched \subseteq touched' /\ (created => created') /\ Clean
  BY <1>0, <1>1 DEF Clean, Misplaced
<1>2. CASE StartDies \/ Finish \/ Died \/ NotImplemented
  BY <1>0, <1>2 DEF StartDies, Finish, SendNotification, Died, NotImplemented
<1>3. CASE PushDone
  BY <1>0, <1>1, <1>3 DEF PushDone, histVars
<1>4. CASE Idle
  BY <1>0, <1>1, <1>4 DEF Idle, Same1
<1>5. ASSUME NEW s \in Systems, NEW t \in Types, NEW key \in Keys, Change(s, t, key)
      PROVE  UNCHANGED run /\ touched \subseteq touched' /\ (created => created') /\ Clean
  BY <1>0, <1>1, <1>5 DEF Change, progVars
<1>6. ASSUME NEW s, NEW t, NEW list, NEW match, NEW res, PullStep(s, t, list, match, res)
      PROVE  UNCHANGED run /\ touched \subseteq touched' /\ (created => created') /\ Clean
  BY <1>0, <1>1, <1>6 DEF PullStep, PullInto, Now
<1>7. ASSUME NEW s, NEW t, NEW res, CompareStep(s, t, res)
      PROVE  UNCHANGED run /\ touched \subseteq touched' /\ (created => created') /\ Clean
  BY <1>0, <1>1, <1>7 DEF CompareStep, CompareWith, Now
<1>8. ASSUME NEW s, NEW t, NEW applied, NEW sf, NEW err, PushStep(s, t, applied, sf, err)
      PROVE  UNCHANGED run /\ touched \subseteq touched' /\ (created => created') /\ Clean
  <2>1. /\ exit = "running" /\ AfterRecord(err) /\ UNCHANGED <<run, touched, created>>
    BY <1>8 DEF PushStep, Pushing, Now
  <2> QED BY <1>0, <1>1, <2>1, NoError
<1>9. ASSUME NEW o, SfPushStep(o)
      PROVE  UNCHANGED run /\ touched \subseteq touched' /\ (created => created') /\ Clean
  <2>1. /\ exit = "running" /\ UNCHANGED <<run, touched, created>>
        /\ UNCHANGED <<skipped, errorLog>> \/ AfterRecord(o # "done")
    BY <1>9 DEF SfPushStep, Pushing, Now
  <2> DEFINE err == o # "done"
  <2>2. UNCHANGED <<skipped, errorLog>> \/ AfterRecord(err)
    BY <2>1
  <2> HIDE DEF err
  <2> QED BY <1>0, <1>1, <2>1, <2>2, NoError
<1>10. ASSUME NEW o, RefStep(o)
       PROVE  UNCHANGED run /\ touched \subseteq touched' /\ (created => created') /\ Clean
  <2> DEFINE err == o # "done"
  <2>1. exit = "running" /\ UNCHANGED <<run, touched, created>> /\ AfterRecord(err)
    BY <1>10 DEF RefStep, Pushing, Now
  <2> HIDE DEF err
  <2> QED BY <1>0, <1>1, <2>1, NoError
<1>11. ASSUME NEW o, NEW made, NEW data, GuestStep(o, made, data)
       PROVE  UNCHANGED run /\ touched \subseteq touched' /\ (created => created') /\ Clean
  <2> DEFINE err == o # "done"
  <2>1. /\ exit = "running" /\ UNCHANGED <<run, touched>> /\ AfterRecord(err)
        /\ created' = (created \/ made # {})
    BY <1>11 DEF GuestStep, Pushing, Now
  <2> HIDE DEF err
  <2> QED BY <1>0, <1>1, <2>1, NoError
<1> QED BY <1>2, <1>3, <1>4, <1>5, <1>6, <1>7, <1>8, <1>9, <1>10, <1>11 DEF Steps1, Systems

LEMMA EqualStart ==
    ASSUME TypeOK', NEW typ \in Types, PulledOnce(typ)', NEW sys \in Systems, PushesOnto(sys, typ)',
           StartRun
    PROVE  MemoryOnce(typ)' /\ EqualSoFar(sys, typ)'
<1>1. /\ memory'[typ] = <<>> /\ differs' = {} /\ todo' = Actions(run') /\ run' \in Runs
  BY DEF StartRun, Restart
<1>2. DOMAIN memory'[typ] = {}
  BY <1>1
<1>3. EqualSoFar(sys, typ)'
  BY <1>1, <1>2, EqualNext
<1> QED BY <1>3, MemoryStart

LEMMA EqualInvStep ==
    ASSUME EqualInv, WinInv', Steps1
    PROVE  EqualInv'
<1>1. TypeOK' /\ InOrder' /\ IdsRight'
  BY TypeStep, OrderStep, IdsStep DEF EqualInv
<1>2. Clean' => MemoryWins'
  BY DEF WinInv
<1>3. ASSUME Clean', NEW typ \in Types, PulledOnce(typ)'
      PROVE  /\ MemoryOnce(typ)'
             /\ \A sys \in Systems :
                   PushesOnto(sys, typ)' /\ <<sys, typ>> \notin touched'
                   /\ (typ = "C" => ~created') => EqualSoFar(sys, typ)'
  <2>1. exit' = "running" /\ ~errorLog' /\ ~skipped' /\ ~Misplaced'
    BY <1>3 DEF Clean
  <2>2. CASE StartRun
    <3>1. ASSUME NEW sys \in Systems, PushesOnto(sys, typ)' PROVE EqualSoFar(sys, typ)'
      BY <1>1, <1>3, <2>2, <3>1, EqualStart
    <3>2. MemoryOnce(typ)'
      BY <1>1, <1>3, <2>2, MemoryStart
    <3> QED BY <3>1, <3>2
  <2>3. CASE ~StartRun
    <3>1. UNCHANGED run /\ touched \subseteq touched' /\ (created => created') /\ Clean
      BY <1>3, <2>3, StillClean DEF EqualInv
    <3>2. PulledOnce(typ)
      BY <1>3, <3>1 DEF PulledOnce
    <3>3. MemoryWins /\ MemoryOnce(typ)
          /\ \A sys \in Systems :
                PushesOnto(sys, typ) /\ <<sys, typ>> \notin touched
                /\ (typ = "C" => ~created) => EqualSoFar(sys, typ)
      BY <3>1, <3>2 DEF EqualInv, Systems
    <3>4. MemoryOnce(typ)'
      BY <2>1, <2>3, <3>1, <3>3, MemoryStep DEF EqualInv
    <3>5. ASSUME NEW sys \in Systems, PushesOnto(sys, typ)', <<sys, typ>> \notin touched',
                 typ = "C" => ~created'
          PROVE  EqualSoFar(sys, typ)'
      <4>1. PushesOnto(sys, typ) /\ EqualSoFar(sys, typ)
        BY <3>1, <3>3, <3>5 DEF PushesOnto
      <4> QED BY <1>1, <2>1, <2>3, <3>1, <3>3, <3>5, <4>1, EqualStep DEF EqualInv
    <3> QED BY <3>4, <3>5
  <2> QED BY <2>2, <2>3
<1>4. Clean' => \A typ \in Types : PulledOnce(typ)' =>
          /\ MemoryOnce(typ)'
          /\ \A sys \in Systems :
                PushesOnto(sys, typ)' /\ <<sys, typ>> \notin touched'
                /\ (typ = "C" => ~created') => EqualSoFar(sys, typ)'
  BY <1>3
<1> QED BY <1>1, <1>2, <1>4 DEF EqualInv, Systems

LEMMA EqualEnd ==
    ASSUME ErrorsTold, EqualInv, ~Misplaced => PushedIsEqual, Steps1
    PROVE  (~Misplaced => PushedIsEqual)'
<1> DEFINE Once(r, t) == Cardinality({j \in DOMAIN r.pulls : r.pulls[j].typ = t}) = 1
           Equal(r, others, guests, different) ==
              \A i \in DOMAIN r.pushes :
                 Once(r, r.pushes[i].typ) /\ <<r.pushes[i].sys, r.pushes[i].typ>> \notin others
                 /\ (r.pushes[i].typ = "C" => ~guests)
                 => <<r.pushes[i].sys, r.pushes[i].typ>> \notin different
<1>1. /\ PushedIsEqual <=> (exit = "0" => Equal(run, touched, created, differs))
      /\ PushedIsEqual' <=> (exit' = "0" => Equal(run', touched', created', differs'))
  BY DEF PushedIsEqual
<1>2. \A t : PulledOnce(t) <=> Once(run, t)
  BY DEF PulledOnce
<1> HIDE DEF Once
<1> SUFFICES ASSUME exit' = "0", ~Misplaced' PROVE Equal(run', touched', created', differs')
  BY <1>1
<1>3. CASE Finish
  <2>1. /\ exit = "running" /\ todo = <<>> /\ UNCHANGED <<run, touched, created, differs, errorLog>>
        /\ ~errorLog
    BY <1>3 DEF Finish, SendNotification, histVars
  <2>2. ~skipped
    BY <1>3, <2>1 DEF ErrorsTold
  <2>3. Clean
    BY <2>1, <2>2 DEF Clean, Misplaced
  <2>4. ASSUME NEW i \in DOMAIN run.pushes, NEW s, NEW t, s = run.pushes[i].sys, t = run.pushes[i].typ,
               Once(run, t), <<s, t>> \notin touched, t = "C" => ~created
        PROVE  <<s, t>> \notin differs
    <3>1. s \in Systems /\ t \in Types /\ PushesOnto(s, t)
      BY <2>4, PushTable DEF EqualInv, PushesOnto
    <3>2. EqualSoFar(s, t)
      BY <1>2, <2>3, <2>4, <3>1 DEF EqualInv, Systems
    <3> QED BY <3>2 DEF EqualSoFar
  <2>5. Equal(run, touched, created, differs)
    BY <2>4
  <2> QED BY <2>1, <2>5
<1>4. CASE Idle
  <2>1. UNCHANGED <<exit, run, touched, created, differs>>
    BY <1>4 DEF Idle, Same1
  <2>2. ~Misplaced /\ exit = "0"
    BY <2>1 DEF Misplaced
  <2> QED BY <1>1, <2>1, <2>2
<1> QED BY <1>3, <1>4, ZeroStep

(* The records of a type that is pulled once are in the memory once, and   *)
(* equal to every table that they were pushed onto, as far as the push is; *)
(* but the clients, if a push of reservations created any.                 *)
THEOREM EqualInvariant ==
    ASSUME StartIdsRight
    PROVE  Spec => []EqualInv
<1>1. Init => EqualInv
  <2>1. Init => ~Clean
    BY DEF Init, Clean
  <2> QED BY <2>1, TypeInit, OrderInit, IdsInit DEF EqualInv
<1>2. EqualInv /\ WinInv' /\ [Next]_vars => EqualInv'
  BY Kinds, EqualInvStep
<1> QED BY <1>1, <1>2, WinInvariant, PTL DEF Spec

(* A system that was pushed onto without an error, from one system, and    *)
(* was not changed by others meanwhile, does not differ from the memory;   *)
(* but for runs that put the clients among the reservations, and for the   *)
(* clients if a push of reservations created any.                          *)
THEOREM PushedAreEqual ==
    ASSUME StartIdsRight
    PROVE  Spec => [](~Misplaced => PushedIsEqual)
<1>1. Init => (~Misplaced => PushedIsEqual)
  BY DEF Init, PushedIsEqual
<1>2. EqualInv /\ ErrorsTold /\ (~Misplaced => PushedIsEqual) /\ [Next]_vars
      => (~Misplaced => PushedIsEqual)'
  BY Kinds, EqualEnd
<1> QED BY <1>1, <1>2, EqualInvariant, WinInvariant, PTL DEF Spec

=============================================================================
