---------------------------- MODULE SfConnector ----------------------------
(***************************************************************************)
(* SfSysConnector as the pushes and pulls of SysDataMan use it: a          *)
(* connection that is established lazily and may expire, the clients       *)
(* (person accounts) and their external references.  Every call asks the   *)
(* connection first; the call itself may be refused, or be done without    *)
(* an answer, or the question may raise what nobody catches.  To send an   *)
(* external reference the connection is asked three times, and between     *)
(* any two of them the session may expire.                                 *)
(***************************************************************************)
EXTENDS Naturals, Sequences

CONSTANTS
    Keys,           \* the clients, and the reservations
    Values,         \* what is stored of them
    MaxFaults       \* bound: failing calls and fetches

VARIABLES
    link,           \* the connector: _conn, last_err_msg, the logins it was refused, and
                    \* whether another message overwrote the mark of one
    password,       \* Salesforce accepts its password
    session,        \* ... and its session
    accounts,       \* Account: the id of one is its position
    refs,           \* External_Ref__c: how many of them an account has
    refStep,        \* the next step of cl_ext_ref_upsert()
    blind,          \* history: accounts whose references could not be read
    faults

sfVars == <<link, password, session, accounts, refs, refStep, blind, faults>>

NoId == 0
NewLink == [conn |-> FALSE, err |-> "none", refused |-> 0, overwritten |-> FALSE]

-----------------------------------------------------------------------------
(* The environment. *)

SessionExpires ==
    /\ link.conn /\ session
    /\ session' = FALSE
    /\ UNCHANGED <<link, password, accounts, refs, refStep, blind, faults>>

PasswordChanges ==
    /\ password
    /\ password' = FALSE
    /\ UNCHANGED <<link, session, accounts, refs, refStep, blind, faults>>

-----------------------------------------------------------------------------
(* The connection. *)

Connect ==
    IF password
    THEN [link EXCEPT !.conn = TRUE, !.err = "none"]
    ELSE [link EXCEPT !.conn = FALSE, !.err = "INVALID_LOGIN", !.refused = @ + 1]

EnsureLazyConnectAlways ==
    IF link.conn /\ session THEN [link EXCEPT !.err = "none"] ELSE Connect

(* A refused login is never tried again, "preventing lock of user account". *)
EnsureLazyConnect ==
    IF link.err = "INVALID_LOGIN" THEN link
    ELSE IF link.conn /\ session THEN [link EXCEPT !.err = "none"] ELSE Connect

Answers == EnsureLazyConnect.conn

(* done | refused | lost: done, but the answer is an exception |           *)
(* raised: an exception of the question, before the call |                 *)
(* leads: see SoqlQueryAll.                                                *)
Outcomes == {"done", "refused", "lost", "raised"}
Possible(o) == IF Answers THEN o = "done" \/ faults < MaxFaults ELSE o = "refused"
Applied(o) == o \in {"done", "lost"}

Called(o) ==
    /\ Possible(o)
    /\ link' = IF Answers /\ o \in {"refused", "lost", "leads"}
               THEN [EnsureLazyConnect EXCEPT !.err = "other"] ELSE EnsureLazyConnect
    /\ session' = (session \/ Answers)
    /\ faults' = IF Answers /\ o # "done" THEN faults + 1 ELSE faults
    /\ UNCHANGED password

(* A query: what it raises is caught, and is an error as well.  leads: a   *)
(* second query fails.                                                     *)
SoqlQueryAll(o) ==
    /\ o \in {"done", "refused", "leads"} /\ Called(o)
    /\ UNCHANGED <<accounts, refs, refStep, blind>>

-----------------------------------------------------------------------------
(* Clients.                                                                *)

(* The id is taken out of the record before the call, and put back when    *)
(* Salesforce has done it.                                                 *)
IdAfterUpsertAsBefore(rec, o) == IF o = "done" THEN rec.sf ELSE NoId

IdAfterUpsert(rec, o) ==
    IF o # "done" THEN NoId
    ELSE IF rec.sf # NoId THEN rec.sf ELSE Len(accounts) + 1

Account(rec) == [key |-> rec.key, val |-> rec.val]

ClUpsert(rec, o) ==
    /\ Called(o)
    /\ IF ~Applied(o)
       THEN UNCHANGED <<accounts, refs>>
       ELSE IF rec.sf # NoId
       THEN accounts' = [accounts EXCEPT ![rec.sf] = Account(rec)] /\ UNCHANGED refs
       ELSE accounts' = Append(accounts, Account(rec)) /\ refs' = Append(refs, 0)
    /\ UNCHANGED blind

-----------------------------------------------------------------------------
(* The external reference of a client: cl_ext_ref_upsert() asks the        *)
(* connection, fetches the object to write with, looks the reference up    *)
(* and updates or creates it.                                              *)

RefSteps == {"none", "check", "object", "find", "update", "create", "stale"}

RefOpen == refStep # "none"

(* The first two questions: what they raise is not caught. *)
ExtRefAsked(o) ==
    /\ refStep \in {"check", "object"} /\ o \in {"done", "refused", "raised"}
    /\ o = "refused" => ~Answers
    /\ Called(o)
    /\ refStep' = CASE o = "refused" -> "none"
                    [] o = "raised"  -> refStep
                    [] OTHER         -> IF refStep = "check" THEN "object" ELSE "find"
    /\ UNCHANGED <<accounts, refs, blind>>

(* A look-up that fails returns an empty list, as if there were none.  One *)
(* that finds the session expired logs in again, or tries to: the object   *)
(* fetched before stays one of the old session.                            *)
ExtRefFoundNever(id, o) == FALSE

ExtRefFound(id, o) == o # "refused" /\ refs[id] > 0

ClExtRefs(id, o) ==
    /\ refStep = "find" /\ o \in {"done", "refused"}
    /\ Called(o)
    /\ refStep' = IF ~session THEN "stale"
                  ELSE IF ExtRefFound(id, o) THEN "update" ELSE "create"
    /\ blind' = IF o = "refused" /\ session THEN blind \cup {id} ELSE blind
    /\ UNCHANGED <<accounts, refs>>

(* The write does not ask: an old session is an exception of it, whose     *)
(* text overwrites any mark of a refused login.                            *)
ExtRefWrite(id, o) ==
    LET old == refStep = "stale" \/ ~session IN
    /\ refStep \in {"update", "create", "stale"} /\ o \in {"done", "refused", "lost"}
    /\ old => o = "refused"
    /\ ~old /\ o # "done" => faults < MaxFaults
    /\ faults' = IF ~old /\ o # "done" THEN faults + 1 ELSE faults
    /\ refStep' = "none"
    /\ link' = IF o = "done" THEN link
               ELSE [link EXCEPT !.err = "other",
                                 !.overwritten = @ \/ link.err = "INVALID_LOGIN"]
    /\ refs' = IF Applied(o) /\ refStep = "create" THEN [refs EXCEPT ![id] = @ + 1] ELSE refs
    /\ UNCHANGED <<password, session, accounts, blind>>

ClExtRefUpsert(id, o) == ExtRefAsked(o) \/ ClExtRefs(id, o) \/ ExtRefWrite(id, o)

=============================================================================
