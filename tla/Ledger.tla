------------------------------- MODULE Ledger -------------------------------
(***************************************************************************)
(* What head-count promises about attendance, whatever Redis, the network  *)
(* and the number of application instances do: the contents of the three   *)
(* Postgres tables sessions, attendance and audit_logs, changed by atomic  *)
(* transactions.  There is no lock, no cache and no request in flight      *)
(* here; Attendance.tla is shown to implement this specification.          *)
(***************************************************************************)
EXTENDS FiniteSets, Integers

CONSTANTS
    Session,    \* attendance sessions (rows of sessions, by session_id)
    Student,    \* students (rows of users)
    Request,    \* one identity per HTTP request; a request audits once
    None        \* SQL NULL, and "no audit row yet"

VARIABLES
    status,     \* sessions.status, "absent" before the row exists
    row,        \* attendance row of a session and a student
    audit       \* audit_logs row written by a request

vars == <<status, row, audit>>

Status == {"absent", "active", "ended"}

(* An attendance row by what distinguishes it: created by a scan, created *)
(* or restored by an instructor, or voided (voided_at set).               *)
Row == {"none", "scan", "manual", "voided"}
Present == {"scan", "manual"}

Refusal == {"invalid_identifier", "session_closed", "not_enrolled",
            "invalid_token", "duplicate"}
Event == Refusal \cup {"accepted", "manual_add", "manual_void"}

Entry == [event : Event, session : Session \cup {None}, student : Student]

TypeOK ==
    /\ status \in [Session -> Status]
    /\ row \in [Session -> [Student -> Row]]
    /\ audit \in [Request -> Entry \cup {None}]

Init ==
    /\ status = [s \in Session |-> "absent"]
    /\ row = [s \in Session |-> [u \in Student |-> "none"]]
    /\ audit = [r \in Request |-> None]

Write(r, e, s, u) ==
    /\ audit[r] = None
    /\ audit' = [audit EXCEPT ![r] = [event |-> e, session |-> s, student |-> u]]

Open(s) ==
    /\ status[s] = "absent"
    /\ status' = [status EXCEPT ![s] = "active"]
    /\ UNCHANGED <<row, audit>>

Close(s) ==
    /\ status[s] = "active"
    /\ status' = [status EXCEPT ![s] = "ended"]
    /\ UNCHANGED <<row, audit>>

(* A scan is recorded together with its audit row, in an active session,  *)
(* and only when the student has no row there, voided or not.             *)
CheckIn(r, s, u) ==
    /\ status[s] = "active"
    /\ row[s][u] = "none"
    /\ row' = [row EXCEPT ![s][u] = "scan"]
    /\ Write(r, "accepted", s, u)
    /\ UNCHANGED status

(* A refused scan leaves an audit row and nothing else. *)
Refuse(r, e, s, u) ==
    /\ e \in Refusal
    /\ Write(r, e, s, u)
    /\ UNCHANGED <<status, row>>

(* An instructor's correction, allowed in an ended session too. *)
Add(r, s, u) ==
    /\ status[s] # "absent"
    /\ row[s][u] \notin Present
    /\ row' = [row EXCEPT ![s][u] = "manual"]
    /\ Write(r, "manual_add", s, u)
    /\ UNCHANGED status

Void(r, s, u) ==
    /\ status[s] # "absent"
    /\ row[s][u] \in Present
    /\ row' = [row EXCEPT ![s][u] = "voided"]
    /\ Write(r, "manual_void", s, u)
    /\ UNCHANGED status

Next ==
    \/ \E s \in Session : Open(s) \/ Close(s)
    \/ \E r \in Request, u \in Student :
        \/ \E s \in Session : CheckIn(r, s, u) \/ Add(r, s, u) \/ Void(r, s, u)
        \/ \E e \in Refusal, s \in Session \cup {None} : Refuse(r, e, s, u)

Spec == Init /\ [][Next]_vars

-----------------------------------------------------------------------------
(* What follows from the promise. *)

Entries(E, s, u) ==
    {r \in Request : /\ audit[r] # None
                     /\ audit[r].event \in E
                     /\ audit[r].session = s
                     /\ audit[r].student = u}

Accepted(s, u) == Entries({"accepted"}, s, u)
MarkedPresent(s, u) == Entries({"accepted", "manual_add"}, s, u)
MarkedAbsent(s, u) == Entries({"manual_void"}, s, u)

(* At most one scan of a student is ever accepted in a session, across     *)
(* token rotations, voids and corrections (scans.py, the unique constraint *)
(* on attendance).                                                         *)
ExactlyOnce ==
    \A s \in Session, u \in Student :
        \A q, r \in Accepted(s, u) : q = r

(* The audit log tells the whole history of a row: the entries that made   *)
(* the student present, less those that made the student absent, are one   *)
(* while the student counts as present and none otherwise.                 *)
AuditBalance ==
    \A s \in Session, u \in Student :
        Cardinality(MarkedPresent(s, u)) =
            Cardinality(MarkedAbsent(s, u))
                + (IF row[s][u] \in Present THEN 1 ELSE 0)
=============================================================================
