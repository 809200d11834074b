----------------------------- MODULE Attendance -----------------------------
(***************************************************************************)
(* Taking attendance: the handlers of /scan, /session/start, /session/end  *)
(* and the two correction endpoints, running concurrently in any number of *)
(* application instances against one Postgres and one Redis.               *)
(*                                                                         *)
(* One action is one step of a handler between two awaits (or between two  *)
(* synchronous Redis commands, which other instances interleave with).  A  *)
(* request is used once; its pc says which step comes next.  Time is left  *)
(* out: a Redis key with a TTL may expire at any moment.  TokenRotation    *)
(* has the timing of the rotator.                                          *)
(***************************************************************************)
EXTENDS FiniteSets, Integers

CONSTANTS
    Session,    \* session ids; "absent" until a handler inserts the row
    Target,     \* those that requests name; the others only have codes
    Student,    \* users enrolled, or not, in the one course of the model
    Token,      \* values of secrets.token_urlsafe: each is minted at most once
    Forged,     \* a token the server never minted
    Malformed,  \* a session id that is not a UUID
    Request,    \* HTTP requests; each is one call of one endpoint
    None,
    Faulty      \* TRUE: handlers may raise or die at any await, and Redis
                \* may lose its data

VARIABLES
    \* Postgres
    status,     \* sessions.status
    row,        \* attendance rows
    audit,      \* audit_logs rows, by the request that wrote them
    approved,   \* students whose enrollment is approved
    lock,       \* holder of FOR UPDATE on the session's row
    \* Redis
    active,     \* members of the sorted set active_sessions
    live,       \* session:<id>:live_token
    claims,     \* keys scan:<session>:<student>
    \* application instances
    opening,    \* progress of the /session/start call that made a session
    rot,        \* progress of a rotator on a session it read as due
    req,        \* the input of a request
    pc,         \* its next step
    result,     \* what it decided, "none" until then
    seen,       \* the attendance row it read under the lock
    \* history
    minted      \* the session a token was minted for

tables == <<status, row, audit>>
postgres == <<tables, approved, lock>>
redis == <<active, live, claims>>
handler == <<req, pc, result, seen>>
instance == <<opening, rot>>
vars == <<postgres, redis, handler, instance, minted>>

(* What of this state the ledger shows: the three tables as they are
   committed. *)
L == INSTANCE Ledger WITH status <- status, row <- row, audit <- audit

Input ==
    [op : {"scan"}, s : Target \cup {Malformed}, u : Student,
     t : Token \cup {Forged}]
    \cup [op : {"add", "void"}, s : Target \cup {Malformed}, u : Student,
          t : {None}]
    \cup [op : {"end"}, s : Target \cup {Malformed}, u : {None}, t : {None}]

(* The constants are what their names say: NULL is no value of a column,   *)
(* an id that is no UUID and a forged token are not the server's.          *)
ASSUME ConstantsAssumption ==
    /\ None \notin Session \cup Student \cup Token \cup Request
    /\ None \notin Input
    /\ None \notin L!Entry
    /\ Target \subseteq Session
    /\ Malformed \notin Session
    /\ Forged \notin Token \cup {None}
    /\ IsFiniteSet(Request)
    /\ Faulty \in BOOLEAN

ScanStep == {"enroll", "claim", "insert", "log", "expired"}
CorrectionStep == {"roster", "read", "write"}
EndStep == {"close", "zrem", "del"}
InFlight == {"lock"} \cup ScanStep \cup CorrectionStep \cup EndStep
Answer == L!Event \cup {"ended", "refused", "conflict", "error"}

TypeOK ==
    /\ L!TypeOK
    /\ approved \subseteq Student
    /\ lock \in [Session -> Request \cup {None}]
    /\ active \subseteq Session
    /\ live \in [Session -> Token \cup {None}]
    /\ claims \subseteq Session \X Student
    /\ opening \in [Session -> {"none", "mark", "token"}]
    /\ rot \in [Session -> {"idle", "due", "set"}]
    /\ req \in [Request -> Input \cup {None}]
    /\ pc \in [Request -> {"new", "done"} \cup InFlight]
    /\ result \in [Request -> Answer \cup {"none"}]
    /\ seen \in [Request -> L!Row]
    /\ minted \in [Token -> Session \cup {None}]

Init ==
    /\ L!Init
    /\ approved = {}
    /\ lock = [s \in Session |-> None]
    /\ active = {}
    /\ live = [s \in Session |-> None]
    /\ claims = {}
    /\ opening = [s \in Session |-> "none"]
    /\ rot = [s \in Session |-> "idle"]
    /\ req = [r \in Request |-> None]
    /\ pc = [r \in Request |-> "new"]
    /\ result = [r \in Request |-> "none"]
    /\ seen = [r \in Request |-> "none"]
    /\ minted = [t \in Token |-> None]

-----------------------------------------------------------------------------
(* Building blocks.                                                        *)

At(r, op, step) == pc[r] = step /\ req[r].op = op

(* The handler's next step, without and with a decision on its answer. *)
GoTo(r, step) ==
    /\ pc' = [pc EXCEPT ![r] = step]
    /\ UNCHANGED <<req, result>>

Decide(r, res, step) ==
    /\ pc' = [pc EXCEPT ![r] = step]
    /\ result' = [result EXCEPT ![r] = res]
    /\ UNCHANGED req

(* The handler returns or raises; its local variables are gone. *)
Return(r, res) ==
    /\ pc' = [pc EXCEPT ![r] = "done"]
    /\ result' = [result EXCEPT ![r] = res]
    /\ req' = [req EXCEPT ![r] = None]
    /\ seen' = [seen EXCEPT ![r] = "none"]

(* SELECT without FOR UPDATE; a transaction that is never closed. *)
AcquireNothing(r) == UNCHANGED lock
ReleaseNothing(r) == UNCHANGED lock

(* The session row's lock goes with the transaction that took it, on       *)
(* commit, on rollback and when the connection is closed.                  *)
Acquire(r) == lock' = [lock EXCEPT ![req[r].s] = r]
Release(r) == lock' = [s \in Session |-> IF lock[s] = r THEN None ELSE lock[s]]

(* SELECT ... FOR UPDATE waits for the row's lock; it locks nothing when   *)
(* there is no such row.                                                   *)
CanLock(s) == status[s] # "absent" /\ lock[s] = None

(* set_current_token with a fresh token_urlsafe. *)
Mint(s) ==
    \E t \in Token :
        /\ minted[t] = None
        /\ minted' = [minted EXCEPT ![t] = s]
        /\ live' = [live EXCEPT ![s] = t]

-----------------------------------------------------------------------------
(* The course's roster, decided by the instructor (decide_enrollment).     *)

SetApproval ==
    /\ \/ \E u \in Student \ approved : approved' = approved \cup {u}
       \/ \E u \in approved : approved' = approved \ {u}
    /\ UNCHANGED <<tables, lock, redis, handler, instance, minted>>

-----------------------------------------------------------------------------
(* /session/start: commit, then two Redis writes on the event loop.        *)

StartCommit(s) ==
    /\ L!Open(s)
    /\ opening' = [opening EXCEPT ![s] = "mark"]
    /\ UNCHANGED <<approved, lock, redis, handler, rot, minted>>

StartMark(s) ==
    /\ opening[s] = "mark"
    /\ active' = active \cup {s}
    /\ opening' = [opening EXCEPT ![s] = "token"]
    /\ UNCHANGED <<postgres, live, claims, handler, rot, minted>>

StartToken(s) ==
    /\ opening[s] = "token"
    /\ Mint(s)
    /\ opening' = [opening EXCEPT ![s] = "none"]
    /\ UNCHANGED <<postgres, active, claims, handler, rot>>

StartFail(s) ==
    /\ Faulty
    /\ opening[s] # "none"
    /\ opening' = [opening EXCEPT ![s] = "none"]
    /\ UNCHANGED <<postgres, redis, handler, rot, minted>>

-----------------------------------------------------------------------------
(* rotate_tokens, for the instance that wins the session's rotation lock.  *)

RotRead(s) ==
    /\ rot[s] = "idle"
    /\ s \in active
    /\ rot' = [rot EXCEPT ![s] = "due"]
    /\ UNCHANGED <<postgres, redis, handler, opening, minted>>

RotToken(s) ==
    /\ rot[s] = "due"
    /\ Mint(s)
    /\ rot' = [rot EXCEPT ![s] = "set"]
    /\ UNCHANGED <<postgres, active, claims, handler, opening>>

(* set_next_due is a ZADD: it adds the session whether or not it is there. *)
RotNext(s) ==
    /\ rot[s] = "set"
    /\ active' = active \cup {s}
    /\ rot' = [rot EXCEPT ![s] = "idle"]
    /\ UNCHANGED <<postgres, live, claims, handler, opening, minted>>

(* The lock was lost, or a Redis command raised. *)
RotDrop(s) ==
    /\ rot[s] = "due" \/ (Faulty /\ rot[s] = "set")
    /\ rot' = [rot EXCEPT ![s] = "idle"]
    /\ UNCHANGED <<postgres, redis, handler, opening, minted>>

-----------------------------------------------------------------------------
(* TTLs and the loss of Redis' memory.                                     *)

TokenExpire(s) ==
    /\ live[s] # None
    /\ live' = [live EXCEPT ![s] = None]
    /\ UNCHANGED <<postgres, active, claims, handler, instance, minted>>

ClaimExpire(c) ==
    /\ c \in claims
    /\ claims' = claims \ {c}
    /\ UNCHANGED <<postgres, active, live, handler, instance, minted>>

RedisLoss ==
    /\ Faulty
    /\ active' = {}
    /\ live' = [s \in Session |-> None]
    /\ claims' = {}
    /\ UNCHANGED <<postgres, handler, instance, minted>>

-----------------------------------------------------------------------------
(* A request arrives.  An id that is no UUID never reaches the sessions    *)
(* table: a scan is refused and logged, the other endpoints answer 404.    *)

Submit(r, in) ==
    /\ pc[r] = "new"
    /\ in.t \in Token => minted[in.t] # None
    /\ in.s = Malformed => in.op = "scan"
    /\ req' = [req EXCEPT ![r] = in]
    /\ pc' = [pc EXCEPT ![r] = IF in.s = Malformed THEN "log" ELSE "lock"]
    /\ result' = [result EXCEPT ![r] =
                    IF in.s = Malformed THEN "invalid_identifier" ELSE "none"]
    /\ UNCHANGED <<postgres, redis, seen, instance, minted>>

(* owned_session answers 404: no such session. *)
NotFound(r) ==
    /\ pc[r] = "lock"
    /\ req[r].op # "scan"
    /\ status[req[r].s] = "absent"
    /\ Return(r, "refused")
    /\ UNCHANGED <<postgres, redis, instance, minted>>

-----------------------------------------------------------------------------
(* POST /scan: validate_scan, record_attendance, then the audit row.       *)

ScanMissing(r) ==
    /\ At(r, "scan", "lock")
    /\ status[req[r].s] = "absent"
    /\ Decide(r, "session_closed", "log")
    /\ UNCHANGED <<postgres, redis, seen, instance, minted>>

(* The session read as an ordinary row. *)
ScanLockNothing(r) ==
    /\ At(r, "scan", "lock")
    /\ status[req[r].s] # "absent"
    /\ IF status[req[r].s] = "active"
         THEN GoTo(r, "enroll")
         ELSE Decide(r, "session_closed", "log")
    /\ UNCHANGED <<postgres, redis, seen, instance, minted>>

(* The lock is kept when the session has ended, until the audit commits. *)
ScanLock(r) ==
    /\ At(r, "scan", "lock")
    /\ CanLock(req[r].s)
    /\ Acquire(r)
    /\ IF status[req[r].s] = "active"
         THEN GoTo(r, "enroll")
         ELSE Decide(r, "session_closed", "log")
    /\ UNCHANGED <<tables, approved, redis, seen, instance, minted>>

ScanEnroll(r) ==
    /\ pc[r] = "enroll"
    /\ IF req[r].u \in approved
         THEN GoTo(r, "claim")
         ELSE Decide(r, "not_enrolled", "log")
    /\ UNCHANGED <<postgres, redis, seen, instance, minted>>

(* The script's own word for a closed session, passed on as it is. *)
ClaimAnswerRaw(s, u, t) ==
    CASE s \notin active -> "closed"
      [] s \in active /\ live[s] # t -> "invalid_token"
      [] s \in active /\ live[s] = t /\ <<s, u>> \in claims -> "duplicate"
      [] OTHER -> "accepted"

(* One live token for all sessions. *)
ClaimAnswerGlobal(s, u, t) ==
    CASE s \notin active -> "session_closed"
      [] s \in active /\ \A x \in Session : live[x] # t -> "invalid_token"
      [] s \in active /\ (\E x \in Session : live[x] = t) /\ <<s, u>> \in claims -> "duplicate"
      [] OTHER -> "accepted"

(* CLAIM_SCAN_LUA: one atomic Redis step. *)
ClaimAnswer(s, u, t) ==
    CASE s \notin active -> "session_closed"
      [] s \in active /\ live[s] # t -> "invalid_token"
      [] s \in active /\ live[s] = t /\ <<s, u>> \in claims -> "duplicate"
      [] OTHER -> "accepted"

ScanClaim(r) ==
    /\ pc[r] = "claim"
    /\ LET s == req[r].s
           u == req[r].u
           answer == ClaimAnswer(s, u, req[r].t)
       IN  \/ /\ answer = "accepted"
              /\ claims' = claims \cup {<<s, u>>}
              /\ GoTo(r, "insert")
           \/ /\ answer # "accepted"
              /\ Decide(r, answer, "log")
              /\ UNCHANGED claims
    /\ UNCHANGED <<postgres, active, live, seen, instance, minted>>

(* A row flushed by another open transaction makes the unique index wait. *)
Flushed(s, u) ==
    \E q \in Request : /\ pc[q] = "log" /\ result[q] = "accepted"
                       /\ req[q].s = s /\ req[q].u = u

(* No unique constraint on (session_id, user_id). *)
ScanInsertAgain(r) ==
    /\ pc[r] = "insert"
    /\ Decide(r, "accepted", "log")
    /\ UNCHANGED <<postgres, redis, seen, instance, minted>>

ScanInsert(r) ==
    /\ pc[r] = "insert"
    /\ row[req[r].s][req[r].u] = "none"
    /\ ~Flushed(req[r].s, req[r].u)
    /\ Decide(r, "accepted", "log")
    /\ UNCHANGED <<postgres, redis, seen, instance, minted>>

(* IntegrityError: rollback, "duplicate" is decided. *)
ScanConflict(r) ==
    /\ pc[r] = "insert"
    /\ row[req[r].s][req[r].u] # "none"
    /\ Release(r)
    /\ Decide(r, "duplicate", "expired")
    /\ UNCHANGED <<tables, approved, redis, seen, instance, minted>>

(* The rollback has expired every object of the AsyncSession, the user in  *)
(* the request's AuthContext included, so that context.user.user_id needs  *)
(* a refresh outside an await: the handler raises and answers 500.         *)
ScanExpired(r) ==
    /\ pc[r] = "expired"
    /\ Return(r, "error")
    /\ UNCHANGED <<postgres, redis, instance, minted>>

(* The attendance row, if one was flushed, and the audit row commit        *)
(* together; session_id is NULL when no such session exists.               *)
ScanLog(r) ==
    /\ pc[r] = "log"
    /\ LET s == req[r].s
           u == req[r].u
           known == s \in Session /\ status[s] # "absent"
       IN  /\ audit' = [audit EXCEPT ![r] =
                 [event |-> result[r], session |-> IF known THEN s ELSE None,
                  student |-> u]]
           /\ row' = IF result[r] = "accepted"
                       THEN [row EXCEPT ![s][u] = "scan"] ELSE row
    /\ Release(r)
    /\ Return(r, result[r])
    /\ UNCHANGED <<status, approved, redis, instance, minted>>

-----------------------------------------------------------------------------
(* mark_present ("add") and void_attendance ("void"); both start with      *)
(* correction_target.                                                      *)

CorrectionLock(r) ==
    /\ At(r, "add", "lock") \/ At(r, "void", "lock")
    /\ CanLock(req[r].s)
    /\ Acquire(r)
    /\ GoTo(r, "roster")
    /\ UNCHANGED <<tables, approved, redis, seen, instance, minted>>

CorrectionRoster(r) ==
    /\ pc[r] = "roster"
    /\ \/ /\ req[r].u \in approved
          /\ GoTo(r, "read")
          /\ UNCHANGED <<lock, seen>>
       \/ /\ req[r].u \notin approved
          /\ Return(r, "refused")
          /\ Release(r)
    /\ UNCHANGED <<tables, approved, redis, instance, minted>>

(* No look at the row's status. *)
AppliesAlways(op, item) == TRUE

(* Marking present needs an absent student, voiding a present one. *)
Applies(op, item) == (op = "void") = (item \in L!Present)

CorrectionRead(r) ==
    /\ pc[r] = "read"
    /\ LET item == row[req[r].s][req[r].u]
       IN  \/ /\ Applies(req[r].op, item)
              /\ seen' = [seen EXCEPT ![r] = item]
              /\ GoTo(r, "write")
              /\ UNCHANGED lock
           \/ /\ ~Applies(req[r].op, item)
              /\ Return(r, "refused")
              /\ Release(r)
    /\ UNCHANGED <<tables, approved, redis, instance, minted>>

(* An INSERT when no row was read, an UPDATE by primary key otherwise. *)
CorrectionWrite(r) ==
    /\ pc[r] = "write"
    /\ LET s == req[r].s
           u == req[r].u
           add == req[r].op = "add"
           event == IF add THEN "manual_add" ELSE "manual_void"
       IN  \/ /\ ~(seen[r] = "none" /\ row[s][u] # "none")
              /\ row' = [row EXCEPT ![s][u] = IF add THEN "manual" ELSE "voided"]
              /\ audit' = [audit EXCEPT ![r] =
                    [event |-> event, session |-> s, student |-> u]]
              /\ Return(r, event)
           \/ /\ seen[r] = "none" /\ row[s][u] # "none"
              /\ Return(r, "error")
              /\ UNCHANGED <<row, audit>>
    /\ Release(r)
    /\ UNCHANGED <<status, approved, redis, instance, minted>>

-----------------------------------------------------------------------------
(* POST /session/end.  A session that has ended may be ended again.        *)

EndLock(r) ==
    /\ At(r, "end", "lock")
    /\ CanLock(req[r].s)
    /\ Acquire(r)
    /\ GoTo(r, "close")
    /\ UNCHANGED <<tables, approved, redis, seen, instance, minted>>

EndClose(r) ==
    /\ pc[r] = "close"
    /\ status' = [status EXCEPT ![req[r].s] = "ended"]
    /\ Release(r)
    /\ GoTo(r, "zrem")
    /\ UNCHANGED <<row, audit, approved, redis, seen, instance, minted>>

EndZrem(r) ==
    /\ pc[r] = "zrem"
    /\ active' = active \ {req[r].s}
    /\ GoTo(r, "del")
    /\ UNCHANGED <<postgres, live, claims, seen, instance, minted>>

EndDelete(r) ==
    /\ pc[r] = "del"
    /\ live' = [live EXCEPT ![req[r].s] = None]
    /\ Return(r, "ended")
    /\ UNCHANGED <<postgres, active, claims, instance, minted>>

-----------------------------------------------------------------------------
(* Postgres or Redis raises, or the process dies: the open transaction is  *)
(* rolled back, what Redis was already told stays.                         *)

Abort(r) ==
    /\ Faulty
    /\ pc[r] \in InFlight
    /\ Release(r)
    /\ Return(r, "error")
    /\ UNCHANGED <<tables, approved, redis, instance, minted>>

-----------------------------------------------------------------------------
ScanNext(r) ==
    \/ ScanMissing(r) \/ ScanLock(r) \/ ScanEnroll(r) \/ ScanClaim(r)
    \/ ScanInsert(r) \/ ScanConflict(r) \/ ScanExpired(r) \/ ScanLog(r)

CorrectionNext(r) ==
    \/ CorrectionLock(r) \/ CorrectionRoster(r)
    \/ CorrectionRead(r) \/ CorrectionWrite(r)

EndNext(r) == EndLock(r) \/ EndClose(r) \/ EndZrem(r) \/ EndDelete(r)

HandlerStep(r) == NotFound(r) \/ ScanNext(r) \/ CorrectionNext(r) \/ EndNext(r)

StartNext(s) == StartCommit(s) \/ StartMark(s) \/ StartToken(s) \/ StartFail(s)
RotNextStep(s) == RotRead(s) \/ RotToken(s) \/ RotNext(s) \/ RotDrop(s)

Next ==
    \/ SetApproval
    \/ RedisLoss
    \/ \E s \in Session : StartNext(s) \/ RotNextStep(s) \/ TokenExpire(s)
    \/ \E c \in Session \X Student : ClaimExpire(c)
    \/ \E r \in Request :
        \/ \E in \in Input : Submit(r, in)
        \/ HandlerStep(r)
        \/ Abort(r)

Spec == Init /\ [][Next]_vars

(* A handler that is running keeps running: the event loop and the thread *)
(* pool are fair, and a lock that stays free is granted.                  *)
FairSpec == Spec /\ \A r \in Request : WF_vars(HandlerStep(r))

-----------------------------------------------------------------------------
(* Properties.                                                             *)

(* Every step of every handler, committed, aborted or interleaved, changes *)
(* the Postgres tables as one atomic transaction of the ledger would: a    *)
(* scan counts only in an active session and only for a student without a  *)
(* row, and a row never changes without its audit entry.                   *)
ImplementsLedger == L!Spec

(* Two scans of one student in one session are never both accepted, with   *)
(* claims expiring, Redis restarting and instructors voiding in between.   *)
ExactlyOnce == L!ExactlyOnce

(* Replaying the audit log gives who is present: no correction is lost or  *)
(* counted twice, although scans and corrections interleave and abort.     *)
AuditBalance == L!AuditBalance

(* The row a correction read under the session's lock is still the row it  *)
(* overwrites, so that the "before" it audits is true and its INSERT never *)
(* meets the unique constraint (correction_target locks the session, not   *)
(* only the attendance row, which may not exist yet).                      *)
CorrectionSeesLatest ==
    \A r \in Request : pc[r] = "write" => seen[r] = row[req[r].s][req[r].u]

(* A scan is accepted only with a code that was minted for that session,   *)
(* however codes rotate, expire and are replaced while the scan runs.      *)
TokenBoundToSession ==
    \A r \in Request :
        (pc[r] = "log" /\ result[r] = "accepted") => minted[req[r].t] = req[r].s

(* "Your attendance was recorded earlier in this session" (checkin.js:53): *)
(* a scan is answered "duplicate" only when the student has a row.         *)
DuplicateMeansRecorded ==
    \A r \in Request :
        (pc[r] \in {"log", "expired"} /\ result[r] = "duplicate")
            => row[req[r].s][req[r].u] # "none"

(* Once the database has decided that a scan is a duplicate, the scan is   *)
(* answered and audited as one ("Postgres remains the durable duplicate    *)
(* guard across token rotations", tokens.py:93).                           *)
DuplicateIsAnswered ==
    [][\A r \in Request : result[r] = "duplicate" => result'[r] = "duplicate"]_vars

(* No request is in flight for ever: no set of scans, corrections and ends *)
(* waits on the session's lock, or on each other, without an end.          *)
RequestsFinish ==
    \A r \in Request : []<>(pc[r] \notin InFlight)

-----------------------------------------------------------------------------
(* The inductive invariant AttendanceProofs proves: what a handler relies  *)
(* on between two of its steps.                                            *)

Accepting(r) == pc[r] = "log" /\ result[r] = "accepted"
Scanning(r) == pc[r] \in {"enroll", "claim", "insert"} \/ Accepting(r)
InTransaction(r) == Scanning(r) \/ pc[r] \in CorrectionStep \cup {"close"}

RequestOK(r) ==
    /\ pc[r] \in InFlight => req[r] \in Input
    /\ pc[r] \in InFlight \ {"log"} => req[r].s \in Session
    /\ pc[r] \in ScanStep => req[r].op = "scan"
    /\ pc[r] \in CorrectionStep => req[r].op \in {"add", "void"}
    /\ pc[r] \in EndStep => req[r].op = "end"
    /\ pc[r] = "log" => result[r] \in L!Refusal \cup {"accepted"}
    /\ audit[r] # None => pc[r] = "done"

LockOK(r) ==
    /\ InTransaction(r) => /\ req[r].s \in Session
                           /\ lock[req[r].s] = r
                           /\ status[req[r].s] # "absent"
    /\ Scanning(r) => status[req[r].s] = "active"

DataOK(r) ==
    /\ Accepting(r) => row[req[r].s][req[r].u] = "none"
    /\ pc[r] = "write" => /\ seen[r] = row[req[r].s][req[r].u]
                          /\ Applies(req[r].op, seen[r])
    /\ (pc[r] = "insert" \/ Accepting(r))
            => req[r].t \in Token /\ minted[req[r].t] = req[r].s
    /\ (~Faulty /\ pc[r] \in {"log", "expired"} /\ result[r] = "duplicate")
            => req[r].s \in Session /\ row[req[r].s][req[r].u] # "none"

HandlerOK(r) == RequestOK(r) /\ LockOK(r) /\ DataOK(r)

LiveBound == \A s \in Session : live[s] # None => minted[live[s]] = s

(* Without faults, a claim belongs to a row or to the scan inserting it. *)
Backs(r, s, u) ==
    /\ pc[r] = "insert" \/ Accepting(r)
    /\ req[r].s = s
    /\ req[r].u = u

ClaimsBacked ==
    ~Faulty =>
        \A s \in Session, u \in Student : <<s, u>> \in claims =>
            row[s][u] # "none" \/ \E r \in Request : Backs(r, s, u)

IInv ==
    /\ TypeOK
    /\ \A r \in Request : HandlerOK(r)
    /\ LiveBound
    /\ ClaimsBacked
=============================================================================
