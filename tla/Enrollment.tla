----------------------------- MODULE Enrollment -----------------------------
(***************************************************************************)
(* Who is enrolled: /courses, /join and the decision of the course's owner *)
(* on a request to join, running concurrently against one Postgres.        *)
(*                                                                         *)
(* One action is one step of a handler between two awaits.  An enrollment  *)
(* is a course and a user; a decision locks its row, a join does not, and  *)
(* is ordered with others only when it writes.  Enrollments older than the *)
(* status column are approved by the migration that adds it.               *)
(***************************************************************************)
EXTENDS Integers, Sequences

CONSTANTS
    Course, Student, Instructor,
    Request,    \* HTTP requests; each is one call of one endpoint
    None,
    Faulty      \* TRUE: handlers may raise or die at any await

Place == Course \X Student

Input ==
    [op : {"join"}, e : Place, by : {None}, to : {"pending"}]
    \cup [op : {"decide"}, e : Place, by : Instructor, to : {"approved", "removed"}]

ASSUME EnrollmentAssumption ==
    /\ None \notin Instructor \cup Request \cup Input
    /\ Faulty \in BOOLEAN

VARIABLES
    \* Postgres
    legacy,     \* enrollments from before there were decisions
    owner,      \* courses.user_id
    row,        \* enrollments.status
    log,        \* audit_logs of event_type "enrollment_change", per place
    lock,       \* who has locked or written the row, or its index entry
    \* application instances
    req,        \* the input of a request
    pc,         \* its next step
    seen,       \* the enrollment it read
    result,     \* its answer
    \* history
    since       \* the decisions there were when a join read the row

postgres == <<legacy, owner, row, log, lock>>
handler == <<req, pc, seen, result>>
vars == <<postgres, handler, since>>

Status == {"none", "pending", "approved", "removed"}
Decision == [before : Status, after : Status]

TypeOK ==
    /\ legacy \subseteq Place
    /\ owner \in [Course -> Instructor \cup {None}]
    /\ row \in [Place -> Status]
    /\ log \in [Place -> Seq(Decision)]
    /\ lock \in [Place -> Request \cup {None}]
    /\ req \in [Request -> Input \cup {None}]
    /\ pc \in [Request -> {"new", "course", "read", "flush", "decide", "commit", "done"}]
    /\ seen \in [Request -> Status]
    /\ result \in [Request -> Status \cup {"not_found", "conflict", "error"}]
    /\ since \in [Request -> Nat]

(* Everything but the status of the legacy. *)
Start ==
    /\ owner \in [Course -> Instructor \cup {None}]
    /\ legacy \in SUBSET {e \in Place : owner[e[1]] # None}
    /\ log = [e \in Place |-> <<>>]
    /\ lock = [e \in Place |-> None]
    /\ req = [r \in Request |-> None]
    /\ pc = [r \in Request |-> "new"]
    /\ seen = [r \in Request |-> "none"]
    /\ result = [r \in Request |-> "none"]
    /\ since = [r \in Request |-> 0]

Migrated == [e \in Place |-> IF e \in legacy THEN "approved" ELSE "none"]

Init == Start /\ row = Migrated

-----------------------------------------------------------------------------
(* Building blocks.                                                        *)

(* The enrollment a request is about. *)
Of(r) == req[r].e

At(r, op, step) == pc[r] = step /\ req[r].op = op

GoTo(r, step) ==
    /\ pc' = [pc EXCEPT ![r] = step]
    /\ UNCHANGED <<req, result>>

(* The handler returns or raises. *)
Return(r, res) ==
    /\ pc' = [pc EXCEPT ![r] = "done"]
    /\ result' = [result EXCEPT ![r] = res]
    /\ UNCHANGED req

(* Locks go with the transaction that took them, on commit, on rollback    *)
(* and when the connection is closed.                                      *)
Release(r) == lock' = [e \in Place |-> IF lock[e] = r THEN None ELSE lock[e]]
Acquire(r) == lock[Of(r)] = None /\ lock' = [lock EXCEPT ![Of(r)] = r]

-----------------------------------------------------------------------------
(* Courses and requests.                                                   *)

(* create_course *)
CreateCourse(i, c) ==
    /\ owner[c] = None
    /\ owner' = [owner EXCEPT ![c] = i]
    /\ UNCHANGED <<legacy, row, log, lock, handler, since>>

Submit(r, x) ==
    /\ pc[r] = "new"
    /\ req' = [req EXCEPT ![r] = x]
    /\ pc' = [pc EXCEPT ![r] = "course"]
    /\ UNCHANGED <<postgres, seen, result, since>>

(* A join finds the course by its code, a decision only if it is one's own. *)
Visible(r) ==
    LET c == Of(r)[1]
    IN  owner[c] # None /\ (req[r].op = "decide" => owner[c] = req[r].by)

CourseMissing(r) ==
    /\ pc[r] = "course"
    /\ ~Visible(r)
    /\ Return(r, "not_found")
    /\ UNCHANGED <<postgres, seen, since>>

CourseFound(r) ==
    /\ pc[r] = "course"
    /\ Visible(r)
    /\ GoTo(r, IF req[r].op = "join" THEN "read" ELSE "decide")
    /\ UNCHANGED <<postgres, seen, since>>

-----------------------------------------------------------------------------
(* POST /join                                                              *)

(* The column is left NULL. *)
JoinStatusNull(r) == None

(* The status of the new row is left to its default (models.py). *)
JoinStatusDefault(r) == IF seen[r] = "none" THEN "approved" ELSE "pending"
JoinStatus(r) == "pending"

(* A join asks again whatever the status is. *)
JoinReadAny(r) ==
    /\ At(r, "join", "read")
    /\ seen' = [seen EXCEPT ![r] = row[Of(r)]]
    /\ since' = [since EXCEPT ![r] = Len(log[Of(r)])]
    /\ GoTo(r, "flush")
    /\ UNCHANGED postgres

(* Whoever is pending or approved is only told so. *)
JoinRead(r) ==
    /\ At(r, "join", "read")
    /\ seen' = [seen EXCEPT ![r] = row[Of(r)]]
    /\ since' = [since EXCEPT ![r] = Len(log[Of(r)])]
    /\ IF row[Of(r)] \in {"pending", "approved"}
         THEN Return(r, row[Of(r)])
         ELSE GoTo(r, "flush")
    /\ UNCHANGED postgres

(* The commit's flush sends the INSERT or the UPDATE.  It waits for whoever *)
(* has written the row or its index entry, or has locked it.                *)
JoinConflict(r) ==
    /\ At(r, "join", "flush")
    /\ lock[Of(r)] = None
    /\ seen[r] = "none"
    /\ row[Of(r)] # "none"
    /\ Return(r, "conflict")
    /\ UNCHANGED <<postgres, seen, since>>

(* Answered once it is flushed. *)
JoinFlushAnswered(r) ==
    /\ At(r, "join", "flush")
    /\ seen[r] = "none" => row[Of(r)] = "none"
    /\ Acquire(r)
    /\ pc' = [pc EXCEPT ![r] = "commit"]
    /\ result' = [result EXCEPT ![r] = "pending"]
    /\ UNCHANGED <<legacy, owner, row, log, req, seen, since>>

JoinFlush(r) ==
    /\ At(r, "join", "flush")
    /\ seen[r] = "none" => row[Of(r)] = "none"
    /\ Acquire(r)
    /\ GoTo(r, "commit")
    /\ UNCHANGED <<legacy, owner, row, log, seen, since>>

JoinCommit(r) ==
    /\ At(r, "join", "commit")
    /\ row' = [row EXCEPT ![Of(r)] = JoinStatus(r)]
    /\ Release(r)
    /\ Return(r, JoinStatus(r))
    /\ UNCHANGED <<legacy, owner, log, seen, since>>

-----------------------------------------------------------------------------
(* POST /courses/{course_id}/enrollments/{student_id}                      *)

(* SELECT ... FOR UPDATE does not see a row that is not committed yet. *)
DecideMissing(r) ==
    /\ At(r, "decide", "decide")
    /\ row[Of(r)] = "none"
    /\ Return(r, "not_found")
    /\ UNCHANGED <<postgres, seen, since>>

(* SELECT without FOR UPDATE. *)
DecideReadOnly(r) ==
    /\ At(r, "decide", "decide")
    /\ row[Of(r)] # "none"
    /\ seen' = [seen EXCEPT ![r] = row[Of(r)]]
    /\ GoTo(r, "commit")
    /\ UNCHANGED <<postgres, since>>

DecideLock(r) ==
    /\ At(r, "decide", "decide")
    /\ row[Of(r)] # "none"
    /\ Acquire(r)
    /\ seen' = [seen EXCEPT ![r] = row[Of(r)]]
    /\ GoTo(r, "commit")
    /\ UNCHANGED <<legacy, owner, row, log, since>>

DecideCommit(r) ==
    LET to == req[r].to
    IN  /\ At(r, "decide", "commit")
        /\ row' = [row EXCEPT ![Of(r)] = to]
        /\ log' = [log EXCEPT ![Of(r)] = Append(@, [before |-> seen[r], after |-> to])]
        /\ Release(r)
        /\ Return(r, to)
        /\ UNCHANGED <<legacy, owner, seen, since>>

-----------------------------------------------------------------------------
(* An exception, a crash or a closed connection. *)
Abort(r) ==
    /\ Faulty
    /\ pc[r] \notin {"new", "done"}
    /\ Release(r)
    /\ Return(r, "error")
    /\ UNCHANGED <<legacy, owner, row, log, seen, since>>

HandlerStep(r) ==
    \/ CourseMissing(r) \/ CourseFound(r)
    \/ JoinRead(r) \/ JoinConflict(r) \/ JoinFlush(r) \/ JoinCommit(r)
    \/ DecideMissing(r) \/ DecideLock(r) \/ DecideCommit(r)

Next ==
    \/ \E i \in Instructor, c \in Course : CreateCourse(i, c)
    \/ \E r \in Request : HandlerStep(r) \/ Abort(r) \/ \E x \in Input : Submit(r, x)

Spec == Init /\ [][Next]_vars

-----------------------------------------------------------------------------
(* Properties.                                                             *)

(* "They must approve your request" (checkin.html:23): a student is in, or *)
(* out, only by the last decision the owner took; a join makes nobody      *)
(* approved, whatever it races with.  Only the legacy is in undecided.     *)
StandsAsDecided ==
    \A e \in Place :
        row[e] \in {"approved", "removed"} =>
            IF log[e] = <<>>
              THEN e \in legacy /\ row[e] = "approved"
              ELSE row[e] = log[e][Len(log[e])].after

(* The audit of the decisions about a student is one history: each found   *)
(* what the one before it left, or a join after it.  Two decisions at once *)
(* do not both see what only the first could.                              *)
AuditChain ==
    \A e \in Place : \A k \in DOMAIN log[e] :
        \/ log[e][k].before = "pending"
        \/ k = 1 /\ e \in legacy /\ log[e][k].before = "approved"
        \/ k > 1 /\ log[e][k].before = log[e][k - 1].after

(* "Join request already exists" (records.py:132), and every other answer  *)
(* that names a status: the request is in the database, even when the join *)
(* that put it there could still have failed.                              *)
AnswersTrue ==
    \A r \in Request :
        result[r] \in {"pending", "approved", "removed", "conflict"} => row[Of(r)] # "none"

(* Who is approved and asks again stays approved.  Only a join that had    *)
(* read the row before the approval puts the student back to pending: it   *)
(* does not lock what it has read.                                         *)
ApprovalKept ==
    [][\A e \in Place :
        row[e] = "approved" /\ row'[e] = "pending" =>
            \E r \in Request :
                pc[r] = "commit" /\ Of(r) = e /\ since[r] < Len(log[e])]_vars
=============================================================================
