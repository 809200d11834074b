-------------------------- MODULE AttendanceProofs --------------------------
(***************************************************************************)
(* Proofs about Attendance, for every set of sessions, students, tokens    *)
(* and requests, with faults and without.                                  *)
(***************************************************************************)
EXTENDS Attendance, FiniteSetTheorems, TLAPS

USE DEF tables, postgres, redis, handler, instance, vars

-----------------------------------------------------------------------------
(* Types.                                                                  *)

TypeOfTables ==
    /\ status \in [Session -> L!Status]
    /\ row \in [Session -> [Student -> L!Row]]
    /\ audit \in [Request -> L!Entry \cup {None}]

TypeOfRedis ==
    /\ active \subseteq Session
    /\ live \in [Session -> Token \cup {None}]
    /\ claims \subseteq Session \X Student
    /\ minted \in [Token -> Session \cup {None}]

TypeOfHandlers ==
    /\ req \in [Request -> Input \cup {None}]
    /\ pc \in [Request -> {"new", "done"} \cup InFlight]
    /\ result \in [Request -> Answer \cup {"none"}]
    /\ seen \in [Request -> L!Row]

TypeOfRest ==
    /\ approved \subseteq Student
    /\ lock \in [Session -> Request \cup {None}]
    /\ opening \in [Session -> {"none", "mark", "token"}]
    /\ rot \in [Session -> {"idle", "due", "set"}]

LEMMA TypeParts ==
    TypeOK <=> TypeOfTables /\ TypeOfRedis /\ TypeOfHandlers /\ TypeOfRest
  BY DEF TypeOK, L!TypeOK, TypeOfTables, TypeOfRedis, TypeOfHandlers, TypeOfRest

(* A handler's step, whatever step it takes, leaves well-typed locals. *)
LEMMA GoToType ==
    ASSUME TypeOfHandlers, NEW r \in Request, NEW step \in InFlight,
           GoTo(r, step), seen' \in [Request -> L!Row]
    PROVE  TypeOfHandlers'
  BY DEF TypeOfHandlers, GoTo

LEMMA DecideType ==
    ASSUME TypeOfHandlers, NEW r \in Request, NEW step \in InFlight,
           NEW res \in Answer, Decide(r, res, step), UNCHANGED seen
    PROVE  TypeOfHandlers'
  BY DEF TypeOfHandlers, Decide

LEMMA ReturnType ==
    ASSUME TypeOfHandlers, NEW r \in Request, NEW res \in Answer, Return(r, res)
    PROVE  TypeOfHandlers'
  BY DEF TypeOfHandlers, Return, L!Row

LEMMA ReleaseType ==
    ASSUME TypeOfRest, NEW r, Release(r), UNCHANGED <<approved, opening, rot>>
    PROVE  TypeOfRest'
  BY DEF TypeOfRest, Release

LEMMA MintType ==
    ASSUME TypeOfRedis, NEW s \in Session, Mint(s), UNCHANGED <<active, claims>>
    PROVE  TypeOfRedis'
  BY DEF TypeOfRedis, Mint

LEMMA InputType ==
    ASSUME NEW in \in Input
    PROVE  /\ in.s \in Session \cup {Malformed}
           /\ in.op \in {"scan", "add", "void", "end"}
           /\ in.op = "scan" => in.u \in Student /\ in.t \in Token \cup {Forged}
           /\ in.op \in {"add", "void"} => in.u \in Student
  BY ConstantsAssumption DEF Input

-----------------------------------------------------------------------------
(* A step that leaves a handler alone: neither its locals nor its audit    *)
(* row change, nor the session it holds the lock of; no row is deleted and *)
(* no token is minted twice.                                               *)

Spared(q) ==
    /\ pc'[q] = pc[q] /\ req'[q] = req[q] /\ result'[q] = result[q]
    /\ seen'[q] = seen[q] /\ audit'[q] = audit[q]
    /\ \A s \in Session : lock[s] = q /\ status[s] # "absent" =>
           lock'[s] = q /\ status'[s] = status[s] /\ row'[s] = row[s]

Monotone ==
    /\ \A t \in Token : minted[t] # None => minted'[t] = minted[t]
    /\ \A s \in Session, u \in Student : row[s][u] # "none" => row'[s][u] # "none"

LEMMA SparedHandler ==
    ASSUME NEW q \in Request, HandlerOK(q), Spared(q), Monotone
    PROVE  HandlerOK(q)'
<1>1. RequestOK(q)'
  BY DEF HandlerOK, RequestOK, Spared
<1>2. Accepting(q)' = Accepting(q) /\ Scanning(q)' = Scanning(q) /\ InTransaction(q)' = InTransaction(q)
  BY DEF Accepting, Scanning, InTransaction, Spared
<1>3. LockOK(q)'
  BY <1>2 DEF HandlerOK, LockOK, Spared, InTransaction
<1>4. DataOK(q)'
  <2>1. Accepting(q)' => (row[req[q].s][req[q].u] = "none")'
    BY <1>2 DEF HandlerOK, DataOK, LockOK, Spared, InTransaction, Scanning
  <2>2. (pc[q] = "write")' => /\ (seen[q] = row[req[q].s][req[q].u])'
                              /\ Applies(req[q].op, seen[q])'
    BY DEF HandlerOK, DataOK, LockOK, Spared, InTransaction, Applies, CorrectionStep
  <2>3. (pc[q] = "insert" \/ Accepting(q))'
            => (req[q].t \in Token /\ minted[req[q].t] = req[q].s)'
    <3>1. pc[q] = "insert" \/ Accepting(q) => req[q].s \in Session
      BY DEF HandlerOK, LockOK, InTransaction, Scanning
    <3> QED BY <1>2, <3>1, ConstantsAssumption DEF HandlerOK, DataOK, Spared, Monotone
  <2>4. (~Faulty /\ pc[q] \in {"log", "expired"} /\ result[q] = "duplicate")'
            => (req[q].s \in Session /\ row[req[q].s][req[q].u] # "none")'
    <3>1. pc[q] \in {"log", "expired"} => req[q].u \in Student
      BY InputType DEF HandlerOK, RequestOK, InFlight, ScanStep
    <3> QED BY <3>1 DEF HandlerOK, DataOK, Spared, Monotone
  <2> QED BY <2>1, <2>2, <2>3, <2>4 DEF DataOK
<1> QED BY <1>1, <1>3, <1>4 DEF HandlerOK
-----------------------------------------------------------------------------
(* A step of one handler: it leaves the other handlers' locals alone, and  *)
(* the locks they hold.                                                    *)

OnlyBy(r) ==
    /\ \A q \in Request \ {r} :
           /\ pc'[q] = pc[q] /\ req'[q] = req[q]
           /\ result'[q] = result[q] /\ seen'[q] = seen[q]
    /\ \A s \in Session : lock'[s] = lock[s] \/ lock[s] \in {None, r}

LEMMA GoToOnly ==
    ASSUME TypeOfHandlers, NEW r \in Request, NEW step, GoTo(r, step)
    PROVE  /\ pc'[r] = step /\ req'[r] = req[r] /\ result'[r] = result[r]
           /\ \A q \in Request \ {r} :
                pc'[q] = pc[q] /\ req'[q] = req[q] /\ result'[q] = result[q]
  BY DEF TypeOfHandlers, GoTo

LEMMA DecideOnly ==
    ASSUME TypeOfHandlers, NEW r \in Request, NEW step, NEW res, Decide(r, res, step)
    PROVE  /\ pc'[r] = step /\ req'[r] = req[r] /\ result'[r] = res
           /\ \A q \in Request \ {r} :
                pc'[q] = pc[q] /\ req'[q] = req[q] /\ result'[q] = result[q]
  BY DEF TypeOfHandlers, Decide

LEMMA ReturnOnly ==
    ASSUME TypeOfHandlers, NEW r \in Request, NEW res, Return(r, res)
    PROVE  /\ pc'[r] = "done"
           /\ \A q \in Request \ {r} :
                /\ pc'[q] = pc[q] /\ req'[q] = req[q]
                /\ result'[q] = result[q] /\ seen'[q] = seen[q]
  BY DEF TypeOfHandlers, Return

LEMMA ReturnOK ==
    ASSUME NEW r \in Request, pc'[r] = "done"
    PROVE  HandlerOK(r)'
  BY DEF HandlerOK, RequestOK, LockOK, DataOK, Scanning, InTransaction,
         Accepting, InFlight, ScanStep, CorrectionStep, EndStep

LEMMA ReleaseOnly ==
    ASSUME NEW r, Release(r), NEW s \in Session
    PROVE  lock'[s] = lock[s] \/ lock[s] = r
  BY DEF Release

(* A claim keeps its backing when the only handler that moves keeps it. *)
LEMMA ClaimsKept ==
    ASSUME IInv, NEW r \in Request,
           \A q \in Request \ {r} : Spared(q),
           Monotone,
           ~Faulty => claims' \subseteq claims,
           ~Faulty => \A s \in Session, u \in Student :
               Backs(r, s, u) => Backs(r, s, u)' \/ row'[s][u] # "none"
    PROVE  ClaimsBacked'
<1> SUFFICES ASSUME ~Faulty, NEW s \in Session, NEW u \in Student,
                    <<s, u>> \in claims', row'[s][u] = "none"
             PROVE  \E q \in Request : Backs(q, s, u)'
  BY DEF ClaimsBacked
<1>1. PICK q \in Request : Backs(q, s, u)
  BY DEF IInv, ClaimsBacked, Monotone
<1>2. CASE q = r
  BY <1>1, <1>2
<1>3. CASE q # r
  BY <1>1, <1>3 DEF Backs, Accepting, Spared
<1> QED BY <1>2, <1>3

(* Most steps of a handler change nothing but its locals and its lock. *)
LEMMA LocalStep ==
    ASSUME IInv, NEW r \in Request, OnlyBy(r), HandlerOK(r)',
           TypeOfHandlers', TypeOfRest',
           UNCHANGED <<tables, redis, minted>>,
           ~Faulty => \A s \in Session, u \in Student :
               Backs(r, s, u) => Backs(r, s, u)' \/ row'[s][u] # "none"
    PROVE  IInv'
<1>1. Monotone
  BY DEF Monotone
<1>2. \A q \in Request \ {r} : Spared(q)
  BY ConstantsAssumption DEF Spared, OnlyBy
<1>3. \A q \in Request : HandlerOK(q)'
  BY <1>1, <1>2, SparedHandler DEF IInv
<1>4. TypeOK'
  BY DEF IInv, TypeOK, L!TypeOK, TypeOfHandlers, TypeOfRest
<1>5. LiveBound'
  BY DEF IInv, LiveBound
<1>6. ClaimsBacked'
  BY <1>1, <1>2, ClaimsKept
<1> QED BY <1>3, <1>4, <1>5, <1>6 DEF IInv
-----------------------------------------------------------------------------
(* The steps of a scan.                                                    *)

LEMMA ScanMissingStep ==
    ASSUME IInv, NEW r \in Request, ScanMissing(r)
    PROVE  IInv'
<1> USE TypeParts DEF IInv
<1>1. OnlyBy(r) /\ pc'[r] = "log" /\ req'[r] = req[r] /\ result'[r] = "session_closed"
  BY DecideOnly DEF ScanMissing, OnlyBy
<1>2. HandlerOK(r)'
  BY <1>1 DEF ScanMissing, HandlerOK, RequestOK, LockOK, DataOK, At, InTransaction, Scanning,
     Accepting, InFlight, ScanStep, CorrectionStep, EndStep, L!Refusal
<1>3. TypeOfHandlers' /\ TypeOfRest'
  BY DecideType DEF ScanMissing, TypeOfRest, InFlight, ScanStep, Answer, L!Event, L!Refusal
<1> QED BY <1>1, <1>2, <1>3, LocalStep DEF ScanMissing, Backs, Accepting, At

LEMMA ScanLockStep ==
    ASSUME IInv, NEW r \in Request, ScanLock(r)
    PROVE  IInv'
<1> USE TypeParts DEF IInv
<1> DEFINE s == req[r].s
<1>1. /\ OnlyBy(r)
      /\ req'[r] = req[r]
      /\ \/ pc'[r] = "enroll" /\ status[s] = "active"
         \/ pc'[r] = "log" /\ result'[r] = "session_closed"
  BY GoToOnly, DecideOnly DEF ScanLock, OnlyBy, CanLock, Acquire, TypeOfRest
<1>2. s \in Session /\ lock'[s] = r /\ status[s] # "absent"
  BY DEF ScanLock, CanLock, Acquire, HandlerOK, RequestOK, At, InFlight, TypeOfRest
<1>3. HandlerOK(r)'
  BY <1>1, <1>2 DEF ScanLock, HandlerOK, RequestOK, LockOK, DataOK, At, InTransaction, Scanning,
     Accepting, InFlight, ScanStep, CorrectionStep, EndStep, L!Refusal
<1>4. TypeOfHandlers'
  BY DecideType, GoToType DEF ScanLock, InFlight, ScanStep, Answer, L!Event, L!Refusal, TypeOfHandlers
<1>5. TypeOfRest'
  BY <1>2 DEF ScanLock, Acquire, TypeOfRest
<1> QED BY <1>1, <1>3, <1>4, <1>5, LocalStep DEF ScanLock, Backs, Accepting, At
LEMMA ScanEnrollStep ==
    ASSUME IInv, NEW r \in Request, ScanEnroll(r)
    PROVE  IInv'
<1> USE TypeParts DEF IInv
<1>1. /\ OnlyBy(r)
      /\ req'[r] = req[r]
      /\ \/ pc'[r] = "claim"
         \/ pc'[r] = "log" /\ result'[r] = "not_enrolled"
  BY GoToOnly, DecideOnly DEF ScanEnroll, OnlyBy
<1>2. HandlerOK(r)'
  BY <1>1 DEF ScanEnroll, HandlerOK, RequestOK, LockOK, DataOK, InTransaction, Scanning,
     Accepting, InFlight, ScanStep, CorrectionStep, EndStep, L!Refusal
<1>3. TypeOfHandlers' /\ TypeOfRest'
  BY DecideType, GoToType DEF ScanEnroll, InFlight, ScanStep, Answer, L!Event, L!Refusal,
     TypeOfHandlers, TypeOfRest
<1> QED BY <1>1, <1>2, <1>3, LocalStep DEF ScanEnroll, Backs, Accepting

(* Only a scan that holds the session's lock reads or makes a claim; a     *)
(* claim that it finds was therefore backed by a row, not by a scan.       *)
LEMMA ScanClaimStep ==
    ASSUME IInv, NEW r \in Request, ScanClaim(r)
    PROVE  IInv'
<1> USE TypeParts DEF IInv
<1> DEFINE s == req[r].s
           u == req[r].u
           t == req[r].t
<1>1. /\ pc[r] = "claim" /\ s \in Session /\ lock[s] = r /\ status[s] = "active"
      /\ u \in Student /\ t \in Token \cup {Forged}
  BY InputType DEF ScanClaim, HandlerOK, RequestOK, LockOK, InTransaction, Scanning, InFlight, ScanStep
<1>2. Monotone
  BY DEF ScanClaim, Monotone
<1>3. CASE ClaimAnswer(s, u, t) = "accepted"
  <2>1. /\ OnlyBy(r) /\ pc'[r] = "insert" /\ req'[r] = req[r] /\ result'[r] = result[r]
        /\ claims' = claims \cup {<<s, u>>}
    BY <1>3, GoToOnly DEF ScanClaim, OnlyBy
  <2>2. t \in Token /\ minted[t] = s
    BY <1>1, <1>3, ConstantsAssumption DEF ClaimAnswer, LiveBound, TypeOfRedis
  <2>3. HandlerOK(r)'
    BY <1>1, <2>1, <2>2 DEF ScanClaim, HandlerOK, RequestOK, LockOK, DataOK, InTransaction, Scanning,
     Accepting, InFlight, ScanStep, CorrectionStep, EndStep, L!Refusal
  <2>4. \A q \in Request \ {r} : Spared(q)
    BY <2>1 DEF ScanClaim, Spared, OnlyBy
  <2>5. \A q \in Request : HandlerOK(q)'
    BY <1>2, <2>3, <2>4, SparedHandler
  <2>6. LiveBound'
    BY DEF LiveBound, ScanClaim
  <2>7. ClaimsBacked'
    <3> SUFFICES ASSUME ~Faulty, NEW x \in Session, NEW y \in Student,
                        <<x, y>> \in claims', row[x][y] = "none"
                 PROVE  \E q \in Request : Backs(q, x, y)'
      BY DEF ClaimsBacked, ScanClaim
    <3>1. CASE <<x, y>> = <<s, u>>
      BY <2>1, <3>1 DEF Backs
    <3>2. CASE <<x, y>> \in claims
      <4>1. PICK q \in Request : Backs(q, x, y)
        BY <3>2 DEF ClaimsBacked
      <4>2. q # r
        BY <1>1, <4>1 DEF Backs, Accepting
      <4> QED BY <2>4, <4>1, <4>2 DEF Backs, Accepting, Spared
    <3> QED BY <2>1, <3>1, <3>2
  <2>8. TypeOK'
    <3>1. TypeOfHandlers'
      BY <1>3, GoToType DEF ScanClaim, InFlight, ScanStep, TypeOfHandlers
    <3> QED BY <1>1, <2>1, <3>1 DEF ScanClaim, TypeOK, L!TypeOK, TypeOfHandlers
  <2> QED BY <2>5, <2>6, <2>7, <2>8
<1>4. CASE ClaimAnswer(s, u, t) # "accepted"
  <2> DEFINE a == ClaimAnswer(s, u, t)
  <2>1. a \in {"session_closed", "invalid_token", "duplicate"}
    BY <1>4 DEF ClaimAnswer
  <2>2. OnlyBy(r) /\ pc'[r] = "log" /\ req'[r] = req[r] /\ result'[r] = a
    BY <1>4, DecideOnly DEF ScanClaim, OnlyBy
  <2>3. a = "duplicate" /\ ~Faulty => row[s][u] # "none"
    <3> SUFFICES ASSUME a = "duplicate", ~Faulty, row[s][u] = "none" PROVE FALSE
      OBVIOUS
    <3>1. <<s, u>> \in claims
      BY DEF ClaimAnswer
    <3>2. PICK q \in Request : Backs(q, s, u)
      BY <1>1, <3>1 DEF ClaimsBacked
    <3>3. lock[s] = q
      BY <3>2 DEF Backs, HandlerOK, LockOK, InTransaction, Scanning
    <3> QED BY <1>1, <3>2, <3>3 DEF Backs, Accepting
  <2>4. HandlerOK(r)'
    BY <1>1, <2>1, <2>2, <2>3 DEF ScanClaim, HandlerOK, RequestOK, LockOK, DataOK, InTransaction, Scanning,
     Accepting, InFlight, ScanStep, CorrectionStep, EndStep, L!Refusal
  <2>5. TypeOfHandlers' /\ TypeOfRest'
    BY <1>4, <2>1, DecideType
       DEF ScanClaim, InFlight, ScanStep, Answer, L!Event, L!Refusal, TypeOfRest
  <2> QED BY <1>1, <1>4, <2>2, <2>4, <2>5, LocalStep DEF ScanClaim, Backs, Accepting
<1> QED BY <1>3, <1>4

LEMMA ScanInsertStep ==
    ASSUME IInv, NEW r \in Request, ScanInsert(r)
    PROVE  IInv'
<1> USE TypeParts DEF IInv
<1>1. OnlyBy(r) /\ pc'[r] = "log" /\ req'[r] = req[r] /\ result'[r] = "accepted"
  BY DecideOnly DEF ScanInsert, OnlyBy
<1>2. HandlerOK(r)'
  BY <1>1 DEF ScanInsert, HandlerOK, RequestOK, LockOK, DataOK, InTransaction, Scanning,
     Accepting, InFlight, ScanStep, CorrectionStep, EndStep, L!Refusal
<1>3. TypeOfHandlers' /\ TypeOfRest'
  BY DecideType DEF ScanInsert, InFlight, ScanStep, Answer, L!Event, TypeOfRest
<1> QED BY <1>1, <1>2, <1>3, LocalStep DEF ScanInsert, Backs, Accepting

LEMMA ScanConflictStep ==
    ASSUME IInv, NEW r \in Request, ScanConflict(r)
    PROVE  IInv'
<1> USE TypeParts DEF IInv
<1>1. OnlyBy(r) /\ pc'[r] = "expired" /\ req'[r] = req[r] /\ result'[r] = "duplicate"
  BY DecideOnly, ReleaseOnly DEF ScanConflict, OnlyBy
<1>2. HandlerOK(r)'
  BY <1>1 DEF ScanConflict, HandlerOK, RequestOK, LockOK, DataOK, InTransaction, Scanning,
     Accepting, InFlight, ScanStep, CorrectionStep, EndStep, L!Refusal
<1>3. TypeOfHandlers' /\ TypeOfRest'
  BY DecideType, ReleaseType
     DEF ScanConflict, InFlight, ScanStep, Answer, L!Event, L!Refusal
<1> QED BY <1>1, <1>2, <1>3, LocalStep DEF ScanConflict, Backs, Accepting

LEMMA ScanExpiredStep ==
    ASSUME IInv, NEW r \in Request, ScanExpired(r)
    PROVE  IInv'
<1> USE TypeParts DEF IInv
<1>1. OnlyBy(r) /\ HandlerOK(r)'
  BY ReturnOnly, ReturnOK DEF ScanExpired, OnlyBy
<1>2. TypeOfHandlers' /\ TypeOfRest'
  BY ReturnType DEF ScanExpired, Answer, TypeOfRest
<1> QED BY <1>1, <1>2, LocalStep DEF ScanExpired, Backs, Accepting
(* What ScanLog finds: an accepted scan still holds the lock of a session  *)
(* that is still active, and its student still has no row.                 *)
LEMMA ScanLogFacts ==
    ASSUME IInv, NEW r \in Request, ScanLog(r)
    PROVE  /\ req[r] \in Input
           /\ req[r].s \in Session \cup {Malformed}
           /\ req[r].u \in Student
           /\ result[r] \in L!Refusal \cup {"accepted"}
           /\ audit[r] = None
           /\ result[r] = "accepted" =>
                /\ req[r].s \in Session
                /\ lock[req[r].s] = r
                /\ status[req[r].s] = "active"
                /\ row[req[r].s][req[r].u] = "none"
  BY InputType DEF IInv, ScanLog, HandlerOK, RequestOK, LockOK, DataOK, InTransaction,
     Scanning, Accepting, InFlight, ScanStep

LEMMA ScanLogStep ==
    ASSUME IInv, NEW r \in Request, ScanLog(r)
    PROVE  IInv'
<1> USE TypeParts DEF IInv
<1> DEFINE s == req[r].s
           u == req[r].u
           entry == [event |-> result[r],
                     session |-> IF s \in Session /\ status[s] # "absent" THEN s ELSE None,
                     student |-> u]
<1>a. row' = IF result[r] = "accepted" THEN [row EXCEPT ![s][u] = "scan"] ELSE row
  BY DEF ScanLog
<1>b. row \in [Session -> [Student -> L!Row]]
  BY DEF TypeOfTables
<1>1. entry \in L!Entry
  BY ScanLogFacts DEF L!Entry, L!Event
<1>2. TypeOfTables'
  <2>1. audit' = [audit EXCEPT ![r] = entry]
    BY DEF ScanLog
  <2>2. audit' \in [Request -> L!Entry \cup {None}]
    BY <1>1, <2>1 DEF TypeOfTables
  <2>3. row' \in [Session -> [Student -> L!Row]]
    BY <1>a, <1>b DEF L!Row
  <2> QED BY <2>2, <2>3 DEF ScanLog, TypeOfTables
<1>3. OnlyBy(r) /\ HandlerOK(r)'
  BY ReturnOnly, ReturnOK, ReleaseOnly DEF ScanLog, OnlyBy
<1>4. TypeOfHandlers' /\ TypeOfRest'
  BY ScanLogFacts, ReturnType, ReleaseType DEF ScanLog, Answer, L!Event
<1>5. TypeOK'
  BY <1>2, <1>4 DEF ScanLog, TypeOK, L!TypeOK, TypeOfTables, TypeOfHandlers, TypeOfRest
<1>6. \A q \in Request \ {r} : audit'[q] = audit[q]
  BY DEF ScanLog, TypeOfTables
<1>7. \A x \in Session : lock[x] # r => row'[x] = row[x]
  BY <1>a, <1>b, ScanLogFacts
<1>8. \A q \in Request \ {r} : Spared(q)
  <2>1. status' = status
    BY DEF ScanLog
  <2> SUFFICES ASSUME NEW q \in Request \ {r} PROVE Spared(q)
    OBVIOUS
  <2>2. ASSUME NEW x \in Session, lock[x] = q
        PROVE  lock'[x] = q /\ status'[x] = status[x] /\ row'[x] = row[x]
    BY <1>3, <1>7, <2>1, <2>2, ConstantsAssumption DEF OnlyBy
  <2> QED BY <1>3, <1>6, <2>2 DEF Spared, OnlyBy
<1>9. Monotone /\ (result[r] = "accepted" => row'[s][u] = "scan")
  <2>1. UNCHANGED minted
    BY DEF ScanLog
  <2>2. result[r] = "accepted" => s \in Session /\ u \in Student /\ row[s][u] = "none"
    BY ScanLogFacts
  <2>3. \A x \in Session, y \in Student :
           row'[x][y] = IF result[r] = "accepted" /\ x = s /\ y = u THEN "scan" ELSE row[x][y]
    BY <1>a, <1>b, <2>2
  <2> QED BY <2>1, <2>2, <2>3 DEF Monotone
<1>10. \A q \in Request : HandlerOK(q)'
  BY <1>3, <1>8, <1>9, SparedHandler
<1>11. LiveBound'
  BY DEF LiveBound, ScanLog
<1>12. ClaimsBacked'
  BY <1>8, <1>9, ClaimsKept DEF ScanLog, Backs, Accepting
<1> QED BY <1>5, <1>10, <1>11, <1>12

-----------------------------------------------------------------------------
(* The steps of a correction.                                              *)

LEMMA NotFoundStep ==
    ASSUME IInv, NEW r \in Request, NotFound(r)
    PROVE  IInv'
<1> USE TypeParts DEF IInv
<1>1. OnlyBy(r) /\ HandlerOK(r)'
  BY ReturnOnly, ReturnOK DEF NotFound, OnlyBy
<1>2. TypeOfHandlers' /\ TypeOfRest'
  BY ReturnType DEF NotFound, Answer, TypeOfRest
<1> QED BY <1>1, <1>2, LocalStep DEF NotFound, Backs, Accepting

LEMMA CorrectionLockStep ==
    ASSUME IInv, NEW r \in Request, CorrectionLock(r)
    PROVE  IInv'
<1> USE TypeParts DEF IInv
<1> DEFINE s == req[r].s
<1>1. OnlyBy(r) /\ req'[r] = req[r] /\ pc'[r] = "roster"
  BY GoToOnly DEF CorrectionLock, OnlyBy, CanLock, Acquire, TypeOfRest
<1>2. s \in Session /\ lock'[s] = r /\ status[s] # "absent"
  BY DEF CorrectionLock, CanLock, Acquire, HandlerOK, RequestOK, At, InFlight, TypeOfRest
<1>3. HandlerOK(r)'
  BY <1>1, <1>2 DEF CorrectionLock, At, HandlerOK, RequestOK, LockOK, DataOK, InTransaction, Scanning,
     Accepting, InFlight, ScanStep, CorrectionStep, EndStep, L!Refusal
<1>4. TypeOfHandlers' /\ TypeOfRest'
  BY <1>2, GoToType
     DEF CorrectionLock, InFlight, CorrectionStep, TypeOfHandlers, TypeOfRest, Acquire
<1> QED BY <1>1, <1>3, <1>4, LocalStep DEF CorrectionLock, Backs, Accepting, At

LEMMA CorrectionRosterStep ==
    ASSUME IInv, NEW r \in Request, CorrectionRoster(r)
    PROVE  IInv'
<1> USE TypeParts DEF IInv
<1>1. CASE req[r].u \in approved
  <2>1. OnlyBy(r) /\ req'[r] = req[r] /\ pc'[r] = "read"
    BY <1>1, GoToOnly DEF CorrectionRoster, OnlyBy
  <2>2. HandlerOK(r)'
    BY <1>1, <2>1 DEF CorrectionRoster, HandlerOK, RequestOK, LockOK, DataOK, InTransaction, Scanning,
     Accepting, InFlight, ScanStep, CorrectionStep, EndStep, L!Refusal
  <2>3. TypeOfHandlers' /\ TypeOfRest'
    BY <1>1, GoToType DEF CorrectionRoster, InFlight, CorrectionStep, TypeOfHandlers, TypeOfRest
  <2> QED BY <2>1, <2>2, <2>3, LocalStep DEF CorrectionRoster, Backs, Accepting
<1>2. CASE req[r].u \notin approved
  <2>1. OnlyBy(r) /\ HandlerOK(r)'
    BY <1>2, ReturnOnly, ReturnOK, ReleaseOnly DEF CorrectionRoster, OnlyBy
  <2>2. TypeOfHandlers' /\ TypeOfRest'
    BY <1>2, ReturnType, ReleaseType DEF CorrectionRoster, Answer
  <2> QED BY <2>1, <2>2, LocalStep DEF CorrectionRoster, Backs, Accepting
<1> QED BY <1>1, <1>2

LEMMA CorrectionReadStep ==
    ASSUME IInv, NEW r \in Request, CorrectionRead(r)
    PROVE  IInv'
<1> USE TypeParts DEF IInv
<1> DEFINE s == req[r].s
           item == row[s][req[r].u]
<1>1. s \in Session /\ req[r].u \in Student /\ item \in L!Row
  BY InputType DEF CorrectionRead, HandlerOK, RequestOK, InFlight, CorrectionStep, TypeOfTables
<1>2. CASE Applies(req[r].op, item)
  <2>1. OnlyBy(r) /\ req'[r] = req[r] /\ pc'[r] = "write" /\ seen'[r] = item
    BY <1>1, <1>2, GoToOnly DEF CorrectionRead, OnlyBy, TypeOfHandlers
  <2>2. HandlerOK(r)'
    BY <1>2, <2>1 DEF CorrectionRead, Applies, HandlerOK, RequestOK, LockOK, DataOK, InTransaction, Scanning,
     Accepting, InFlight, ScanStep, CorrectionStep, EndStep, L!Refusal
  <2>3. TypeOfHandlers' /\ TypeOfRest'
    BY <1>1, <1>2, GoToType
       DEF CorrectionRead, InFlight, CorrectionStep, TypeOfHandlers, TypeOfRest
  <2> QED BY <2>1, <2>2, <2>3, LocalStep DEF CorrectionRead, Backs, Accepting
<1>3. CASE ~Applies(req[r].op, item)
  <2>1. OnlyBy(r) /\ HandlerOK(r)'
    BY <1>3, ReturnOnly, ReturnOK, ReleaseOnly DEF CorrectionRead, OnlyBy
  <2>2. TypeOfHandlers' /\ TypeOfRest'
    BY <1>3, ReturnType, ReleaseType DEF CorrectionRead, Answer
  <2> QED BY <2>1, <2>2, LocalStep DEF CorrectionRead, Backs, Accepting
<1> QED BY <1>2, <1>3
(* What CorrectionWrite finds: the row it read, so that the INSERT of      *)
(* mark_present never meets the unique constraint.                         *)
LEMMA CorrectionWriteFacts ==
    ASSUME IInv, NEW r \in Request, CorrectionWrite(r)
    PROVE  /\ req[r] \in Input
           /\ req[r].s \in Session
           /\ req[r].u \in Student
           /\ req[r].op \in {"add", "void"}
           /\ audit[r] = None
           /\ lock[req[r].s] = r
           /\ status[req[r].s] # "absent"
           /\ seen[r] = row[req[r].s][req[r].u]
           /\ Applies(req[r].op, row[req[r].s][req[r].u])
  BY InputType DEF IInv, CorrectionWrite, HandlerOK, RequestOK, LockOK, DataOK,
     InTransaction, CorrectionStep, InFlight

LEMMA CorrectionWriteStep ==
    ASSUME IInv, NEW r \in Request, CorrectionWrite(r)
    PROVE  IInv'
<1> USE TypeParts DEF IInv
<1> DEFINE s == req[r].s
           u == req[r].u
           add == req[r].op = "add"
           event == IF add THEN "manual_add" ELSE "manual_void"
           entry == [event |-> event, session |-> s, student |-> u]
<1>f. /\ s \in Session /\ u \in Student /\ lock[s] = r
      /\ seen[r] = row[s][u] /\ audit[r] = None
  BY CorrectionWriteFacts
<1>a. /\ row' = [row EXCEPT ![s][u] = IF add THEN "manual" ELSE "voided"]
      /\ audit' = [audit EXCEPT ![r] = entry]
      /\ Return(r, event)
  BY <1>f DEF CorrectionWrite
<1>b. /\ row \in [Session -> [Student -> L!Row]]
      /\ audit \in [Request -> L!Entry \cup {None}]
  BY DEF TypeOfTables
<1>c. /\ Release(r)
      /\ UNCHANGED <<status, approved, redis, instance, minted>>
  BY DEF CorrectionWrite
<1>1. entry \in L!Entry
  BY <1>f DEF L!Entry, L!Event
<1>2. TypeOfTables'
  <2>1. audit' \in [Request -> L!Entry \cup {None}]
    BY <1>a, <1>b, <1>1
  <2>2. row' \in [Session -> [Student -> L!Row]]
    BY <1>a, <1>b DEF L!Row
  <2> QED BY <1>c, <2>1, <2>2 DEF TypeOfTables
<1>3. OnlyBy(r) /\ HandlerOK(r)'
  BY <1>a, <1>c, ReturnOnly, ReturnOK, ReleaseOnly DEF OnlyBy
<1>4. TypeOfHandlers' /\ TypeOfRest'
  BY <1>a, <1>c, ReturnType, ReleaseType DEF Answer, L!Event
<1>5. TypeOK'
  BY <1>c, <1>2, <1>4 DEF TypeOK, L!TypeOK, TypeOfTables, TypeOfHandlers, TypeOfRest
<1>6. \A x \in Session, y \in Student :
         row'[x][y] = IF x = s /\ y = u
                        THEN IF add THEN "manual" ELSE "voided"
                        ELSE row[x][y]
  BY <1>a, <1>b, <1>f
<1>7. Monotone
  BY <1>c, <1>6 DEF Monotone
<1>8. \A q \in Request \ {r} : Spared(q)
  <2> SUFFICES ASSUME NEW q \in Request \ {r} PROVE Spared(q)
    OBVIOUS
  <2>1. ASSUME NEW x \in Session, lock[x] = q
        PROVE  lock'[x] = q /\ status'[x] = status[x] /\ row'[x] = row[x]
    BY <1>3, <1>a, <1>b, <1>c, <1>f, <2>1, ConstantsAssumption DEF OnlyBy
  <2>2. audit'[q] = audit[q]
    BY <1>a, <1>b
  <2> QED BY <1>3, <2>1, <2>2 DEF Spared, OnlyBy
<1>9. \A q \in Request : HandlerOK(q)'
  BY <1>3, <1>7, <1>8, SparedHandler
<1>10. LiveBound'
  BY <1>c DEF LiveBound
<1>11. ClaimsBacked'
  <2>1. ~(pc[r] = "insert" \/ Accepting(r))
    BY DEF CorrectionWrite, Accepting
  <2> QED BY <1>c, <1>7, <1>8, <2>1, ClaimsKept DEF Backs
<1> QED BY <1>5, <1>9, <1>10, <1>11

-----------------------------------------------------------------------------
(* The steps that end a session, and the failure of a handler.             *)

LEMMA EndLockStep ==
    ASSUME IInv, NEW r \in Request, EndLock(r)
    PROVE  IInv'
<1> USE TypeParts DEF IInv
<1> DEFINE s == req[r].s
<1>1. OnlyBy(r) /\ req'[r] = req[r] /\ pc'[r] = "close"
  BY GoToOnly DEF EndLock, OnlyBy, CanLock, Acquire, TypeOfRest
<1>2. s \in Session /\ lock'[s] = r /\ status[s] # "absent"
  BY DEF EndLock, CanLock, Acquire, HandlerOK, RequestOK, At, InFlight, TypeOfRest
<1>3. HandlerOK(r)'
  BY <1>1, <1>2 DEF EndLock, At, HandlerOK, RequestOK, LockOK, DataOK, InTransaction, Scanning,
     Accepting, InFlight, ScanStep, CorrectionStep, EndStep, L!Refusal
<1>4. TypeOfHandlers' /\ TypeOfRest'
  BY <1>2, GoToType
     DEF EndLock, InFlight, EndStep, TypeOfHandlers, TypeOfRest, Acquire
<1> QED BY <1>1, <1>3, <1>4, LocalStep DEF EndLock, Backs, Accepting, At

LEMMA EndCloseStep ==
    ASSUME IInv, NEW r \in Request, EndClose(r)
    PROVE  IInv'
<1> USE TypeParts DEF IInv
<1> DEFINE s == req[r].s
<1>f. s \in Session /\ lock[s] = r
  BY DEF EndClose, HandlerOK, RequestOK, LockOK, InTransaction, InFlight, EndStep
<1>a. /\ status' = [status EXCEPT ![s] = "ended"]
      /\ Release(r)
      /\ GoTo(r, "zrem")
      /\ UNCHANGED <<row, audit, approved, redis, seen, instance, minted>>
  BY DEF EndClose
<1>1. OnlyBy(r) /\ req'[r] = req[r] /\ pc'[r] = "zrem"
  BY <1>a, GoToOnly, ReleaseOnly DEF OnlyBy
<1>2. HandlerOK(r)'
  BY <1>a, <1>1 DEF EndClose, HandlerOK, RequestOK, LockOK, DataOK, InTransaction, Scanning,
     Accepting, InFlight, ScanStep, CorrectionStep, EndStep, L!Refusal
<1>3. TypeOK'
  <2>1. TypeOfHandlers' /\ TypeOfRest'
    BY <1>a, GoToType, ReleaseType DEF InFlight, EndStep, TypeOfHandlers
  <2>2. status' \in [Session -> L!Status]
    BY <1>a DEF TypeOfTables, L!Status
  <2> QED BY <1>a, <2>1, <2>2 DEF TypeOK, L!TypeOK, TypeOfHandlers, TypeOfRest
<1>4. Monotone
  BY <1>a DEF Monotone
<1>5. \A q \in Request \ {r} : Spared(q)
  <2> SUFFICES ASSUME NEW q \in Request \ {r} PROVE Spared(q)
    OBVIOUS
  <2>1. ASSUME NEW x \in Session, lock[x] = q
        PROVE  lock'[x] = q /\ status'[x] = status[x] /\ row'[x] = row[x]
    BY <1>1, <1>a, <1>f, <2>1, ConstantsAssumption DEF OnlyBy, TypeOfTables
  <2> QED BY <1>1, <1>a, <2>1 DEF Spared, OnlyBy
<1>6. \A q \in Request : HandlerOK(q)'
  BY <1>2, <1>4, <1>5, SparedHandler
<1>7. LiveBound'
  BY <1>a DEF LiveBound
<1>8. ClaimsBacked'
  <2>1. ~(pc[r] = "insert" \/ Accepting(r))
    BY DEF EndClose, Accepting
  <2> QED BY <1>a, <1>4, <1>5, <2>1, ClaimsKept DEF Backs
<1> QED BY <1>3, <1>6, <1>7, <1>8

LEMMA AbortStep ==
    ASSUME IInv, NEW r \in Request, Abort(r)
    PROVE  IInv'
<1> USE TypeParts DEF IInv
<1>1. OnlyBy(r) /\ HandlerOK(r)'
  BY ReturnOnly, ReturnOK, ReleaseOnly DEF Abort, OnlyBy
<1>2. TypeOfHandlers' /\ TypeOfRest'
  BY ReturnType, ReleaseType DEF Abort, Answer
<1> QED BY <1>1, <1>2, LocalStep DEF Abort

LEMMA SubmitStep ==
    ASSUME IInv, NEW r \in Request, NEW in \in Input, Submit(r, in)
    PROVE  IInv'
<1> USE TypeParts DEF IInv
<1>1. /\ OnlyBy(r)
      /\ req'[r] = in
      /\ \/ pc'[r] = "lock" /\ in.s \in Session
         \/ pc'[r] = "log" /\ in.op = "scan" /\ result'[r] = "invalid_identifier"
  BY InputType DEF Submit, OnlyBy, TypeOfHandlers
<1>2. HandlerOK(r)'
  BY <1>1 DEF Submit, HandlerOK, RequestOK, LockOK, DataOK, InTransaction, Scanning,
     Accepting, InFlight, ScanStep, CorrectionStep, EndStep, L!Refusal
<1>3. TypeOfHandlers' /\ TypeOfRest'
  BY DEF Submit, TypeOfHandlers, TypeOfRest, InFlight, ScanStep, Answer, L!Event, L!Refusal
<1> QED BY <1>1, <1>2, <1>3, LocalStep DEF Submit, Backs, Accepting
LEMMA EndRedisStep ==
    ASSUME IInv, NEW r \in Request, pc[r] \in {"zrem", "del"},
           OnlyBy(r), HandlerOK(r)', TypeOK', LiveBound',
           UNCHANGED <<tables, claims, minted>>
    PROVE  IInv'
<1>1. Monotone
  BY DEF Monotone
<1>2. \A q \in Request \ {r} : Spared(q)
  BY ConstantsAssumption DEF Spared, OnlyBy
<1>3. \A q \in Request : HandlerOK(q)'
  BY <1>1, <1>2, SparedHandler DEF IInv
<1>4. ClaimsBacked'
  BY <1>1, <1>2, ClaimsKept DEF Backs, Accepting
<1> QED BY <1>3, <1>4 DEF IInv

LEMMA EndZremStep ==
    ASSUME IInv, NEW r \in Request, EndZrem(r)
    PROVE  IInv'
<1> USE TypeParts DEF IInv
<1>1. OnlyBy(r) /\ req'[r] = req[r] /\ pc'[r] = "del"
  BY GoToOnly DEF EndZrem, OnlyBy
<1>2. HandlerOK(r)'
  BY <1>1 DEF EndZrem, HandlerOK, RequestOK, LockOK, DataOK, InTransaction, Scanning,
     Accepting, InFlight, ScanStep, CorrectionStep, EndStep, L!Refusal
<1>3. TypeOK'
  <2>1. TypeOfHandlers'
    BY GoToType DEF EndZrem, InFlight, EndStep, TypeOfHandlers
  <2> QED BY <2>1 DEF EndZrem, TypeOK, L!TypeOK, TypeOfHandlers
<1>4. LiveBound'
  BY DEF LiveBound, EndZrem
<1> QED BY <1>1, <1>2, <1>3, <1>4, EndRedisStep DEF EndZrem

LEMMA EndDeleteStep ==
    ASSUME IInv, NEW r \in Request, EndDelete(r)
    PROVE  IInv'
<1> USE TypeParts DEF IInv
<1>1. OnlyBy(r) /\ HandlerOK(r)'
  BY ReturnOnly, ReturnOK DEF EndDelete, OnlyBy
<1>2. TypeOK'
  <2>1. TypeOfHandlers'
    BY ReturnType DEF EndDelete, Answer
  <2> QED BY <2>1 DEF EndDelete, TypeOK, L!TypeOK, TypeOfHandlers
<1>3. LiveBound'
  BY DEF LiveBound, EndDelete, TypeOfRedis
<1> QED BY <1>1, <1>2, <1>3, EndRedisStep DEF EndDelete

-----------------------------------------------------------------------------
(* Steps that are no handler's: the roster, /session/start, the rotator,   *)
(* expiry and loss.  They never touch a row, a lock or a request.          *)

LEMMA StoreStep ==
    ASSUME IInv, UNCHANGED <<handler, row, audit, lock>>,
           \A s \in Session : status[s] # "absent" => status'[s] = status[s],
           \A t \in Token : minted[t] # None => minted'[t] = minted[t],
           claims' \subseteq claims, TypeOK', LiveBound'
    PROVE  IInv'
<1>1. Monotone
  BY DEF Monotone
<1>2. \A q \in Request : Spared(q)
  BY DEF Spared
<1>3. \A q \in Request : HandlerOK(q)'
  BY <1>1, <1>2, SparedHandler DEF IInv
<1>4. ClaimsBacked'
  BY DEF IInv, ClaimsBacked, Backs, Accepting
<1> QED BY <1>3, <1>4 DEF IInv

LEMMA MintStep ==
    ASSUME TypeOfRedis, LiveBound, NEW s \in Session, Mint(s)
    PROVE  /\ LiveBound'
           /\ \A t \in Token : minted[t] # None => minted'[t] = minted[t]
  BY ConstantsAssumption DEF Mint, LiveBound, TypeOfRedis

LEMMA StartStep ==
    ASSUME IInv, NEW s \in Session, StartNext(s)
    PROVE  IInv'
<1> USE TypeParts DEF IInv
<1>1. CASE StartCommit(s)
  BY <1>1, StoreStep DEF StartCommit, L!Open, TypeOK, L!TypeOK, L!Status, LiveBound
<1>2. CASE StartMark(s)
  BY <1>2, StoreStep DEF StartMark, TypeOK, L!TypeOK, LiveBound
<1>3. CASE StartToken(s)
  <2>1. TypeOK'
    BY <1>3, MintType DEF StartToken, TypeOK, L!TypeOK, TypeOfRedis
  <2> QED BY <1>3, <2>1, MintStep, StoreStep DEF StartToken
<1>4. CASE StartFail(s)
  BY <1>4, StoreStep DEF StartFail, TypeOK, L!TypeOK, LiveBound
<1> QED BY <1>1, <1>2, <1>3, <1>4 DEF StartNext

LEMMA RotStep ==
    ASSUME IInv, NEW s \in Session, RotNextStep(s)
    PROVE  IInv'
<1> USE TypeParts DEF IInv
<1>1. CASE RotRead(s)
  BY <1>1, StoreStep DEF RotRead, TypeOK, L!TypeOK, LiveBound
<1>2. CASE RotToken(s)
  <2>1. TypeOK'
    BY <1>2, MintType DEF RotToken, TypeOK, L!TypeOK, TypeOfRedis
  <2> QED BY <1>2, <2>1, MintStep, StoreStep DEF RotToken
<1>3. CASE RotNext(s)
  BY <1>3, StoreStep DEF RotNext, TypeOK, L!TypeOK, LiveBound
<1>4. CASE RotDrop(s)
  BY <1>4, StoreStep DEF RotDrop, TypeOK, L!TypeOK, LiveBound
<1> QED BY <1>1, <1>2, <1>3, <1>4 DEF RotNextStep

LEMMA ExpiryStep ==
    ASSUME IInv,
           \/ SetApproval \/ RedisLoss
           \/ \E s \in Session : TokenExpire(s)
           \/ \E c \in Session \X Student : ClaimExpire(c)
    PROVE  IInv'
<1> USE TypeParts DEF IInv
<1>1. CASE SetApproval
  BY <1>1, StoreStep DEF SetApproval, TypeOK, L!TypeOK, LiveBound
<1>2. CASE RedisLoss
  BY <1>2, StoreStep DEF RedisLoss, TypeOK, L!TypeOK, LiveBound
<1>3. ASSUME NEW s \in Session, TokenExpire(s) PROVE IInv'
  BY <1>3, StoreStep DEF TokenExpire, TypeOK, L!TypeOK, LiveBound
<1>4. ASSUME NEW c \in Session \X Student, ClaimExpire(c) PROVE IInv'
  BY <1>4, StoreStep DEF ClaimExpire, TypeOK, L!TypeOK, LiveBound
<1> QED BY <1>1, <1>2, <1>3, <1>4

LEMMA StutterStep ==
    ASSUME IInv, UNCHANGED vars
    PROVE  IInv'
<1>1. TypeOK' /\ LiveBound'
  BY DEF IInv, TypeOK, L!TypeOK, LiveBound
<1> QED BY <1>1, StoreStep
-----------------------------------------------------------------------------
(* The inductive invariant.                                                *)

LEMMA InitInv == Init => IInv
<1> SUFFICES ASSUME Init PROVE IInv
  OBVIOUS
<1>1. TypeOK
  BY DEF Init, TypeOK, L!Init, L!TypeOK, L!Status, L!Row
<1>2. \A r \in Request : HandlerOK(r)
  BY DEF Init, L!Init, HandlerOK, RequestOK, LockOK, DataOK, Scanning, InTransaction,
     Accepting, InFlight, ScanStep, CorrectionStep, EndStep
<1>3. LiveBound /\ ClaimsBacked
  BY DEF Init, LiveBound, ClaimsBacked
<1> QED BY <1>1, <1>2, <1>3 DEF IInv

LEMMA NextInv == IInv /\ [Next]_vars => IInv'
<1> SUFFICES ASSUME IInv, [Next]_vars PROVE IInv'
  OBVIOUS
<1>1. CASE UNCHANGED vars
  BY <1>1, StutterStep
<1>2. CASE SetApproval \/ RedisLoss \/ \E s \in Session : TokenExpire(s)
  BY <1>2, ExpiryStep
<1>3. CASE \E c \in Session \X Student : ClaimExpire(c)
  BY <1>3, ExpiryStep
<1>4. ASSUME NEW s \in Session, StartNext(s) \/ RotNextStep(s) PROVE IInv'
  BY <1>4, StartStep, RotStep
<1>5. ASSUME NEW r \in Request, NEW in \in Input, Submit(r, in) PROVE IInv'
  BY <1>5, SubmitStep
<1>6. ASSUME NEW r \in Request, NotFound(r) \/ Abort(r) PROVE IInv'
  BY <1>6, NotFoundStep, AbortStep
<1>7. ASSUME NEW r \in Request, ScanNext(r) PROVE IInv'
  BY <1>7, ScanMissingStep, ScanLockStep, ScanEnrollStep, ScanClaimStep,
     ScanInsertStep, ScanConflictStep, ScanExpiredStep, ScanLogStep DEF ScanNext
<1>8. ASSUME NEW r \in Request, CorrectionNext(r) PROVE IInv'
  BY <1>8, CorrectionLockStep, CorrectionRosterStep, CorrectionReadStep,
     CorrectionWriteStep DEF CorrectionNext
<1>9. ASSUME NEW r \in Request, EndNext(r) PROVE IInv'
  BY <1>9, EndLockStep, EndCloseStep, EndZremStep, EndDeleteStep DEF EndNext
<1> QED BY <1>1, <1>2, <1>3, <1>4, <1>5, <1>6, <1>7, <1>8, <1>9 DEF Next, HandlerStep

(* What every handler relies on between its steps holds in every reachable *)
(* state, faults or not.                                                   *)
THEOREM Invariant == Spec => []IInv
<1>1. Init => IInv
  BY InitInv
<1>2. IInv /\ [Next]_vars => IInv'
  BY NextInv
<1> QED BY <1>1, <1>2, PTL DEF Spec

(* The types of the tables, of Redis and of the handlers' locals. *)
THEOREM TypeCorrect == Spec => []TypeOK
<1>1. IInv => TypeOK
  BY DEF IInv
<1> QED BY <1>1, Invariant, PTL

(* A correction overwrites the row it read: the session's lock, taken by   *)
(* correction_target and by every scan, makes its read stable.             *)
THEOREM CorrectionReads == Spec => []CorrectionSeesLatest
<1>1. IInv => CorrectionSeesLatest
  BY DEF IInv, HandlerOK, DataOK, CorrectionSeesLatest
<1> QED BY <1>1, Invariant, PTL

(* A scan is accepted with a code of its own session only. *)
THEOREM TokenBinding == Spec => []TokenBoundToSession
<1>1. IInv => TokenBoundToSession
  BY DEF IInv, HandlerOK, DataOK, TokenBoundToSession, Accepting
<1> QED BY <1>1, Invariant, PTL

(* While nothing fails, "duplicate" is said only to a student with a row.  *)
THEOREM DuplicateIsRecorded ==
    ASSUME ~Faulty
    PROVE  Spec => []DuplicateMeansRecorded
<1>1. IInv => DuplicateMeansRecorded
  BY DEF IInv, HandlerOK, DataOK, DuplicateMeansRecorded
<1> QED BY <1>1, Invariant, PTL

-----------------------------------------------------------------------------
(* Attendance implements Ledger.                                           *)

LEMMA InitLedger == Init => L!Init
  BY DEF Init

LEMMA ScanLogLedger ==
    ASSUME IInv, NEW r \in Request, ScanLog(r)
    PROVE  L!Next
<1> DEFINE s == req[r].s
           u == req[r].u
           known == s \in Session /\ status[s] # "absent"
<1>1. CASE result[r] = "accepted"
  <2>1. s \in Session /\ u \in Student /\ known
    BY <1>1, ScanLogFacts
  <2>2. L!CheckIn(r, s, u)
    BY <1>1, <2>1, ScanLogFacts DEF ScanLog, L!CheckIn, L!Write
  <2> QED BY <2>1, <2>2 DEF L!Next
<1>2. CASE result[r] # "accepted"
  <2> DEFINE x == IF known THEN s ELSE None
  <2>1. x \in Session \cup {None} /\ u \in Student /\ result[r] \in L!Refusal
    BY <1>2, ScanLogFacts
  <2>2. L!Refuse(r, result[r], x, u)
    BY <1>2, <2>1, ScanLogFacts DEF ScanLog, L!Refuse, L!Write
  <2> QED BY <2>1, <2>2 DEF L!Next
<1> QED BY <1>1, <1>2

LEMMA CorrectionWriteLedger ==
    ASSUME IInv, NEW r \in Request, CorrectionWrite(r)
    PROVE  L!Next
<1> DEFINE s == req[r].s
           u == req[r].u
<1>1. s \in Session /\ u \in Student
  BY CorrectionWriteFacts
<1>2. L!Add(r, s, u) \/ L!Void(r, s, u)
  BY CorrectionWriteFacts DEF CorrectionWrite, L!Add, L!Void, L!Write, Applies
<1> QED BY <1>1, <1>2 DEF L!Next

LEMMA EndCloseLedger ==
    ASSUME IInv, NEW r \in Request, EndClose(r)
    PROVE  L!Next \/ UNCHANGED L!vars
<1> DEFINE s == req[r].s
<1>1. s \in Session /\ status[s] \in {"active", "ended"} /\ status \in [Session -> L!Status]
  BY DEF IInv, EndClose, HandlerOK, RequestOK, LockOK, InTransaction, InFlight, EndStep,
     TypeOK, L!TypeOK, L!Status
<1>2. CASE status[s] = "active"
  BY <1>1, <1>2 DEF EndClose, L!Next, L!Close
<1>3. CASE status[s] = "ended"
  BY <1>1, <1>3 DEF EndClose, L!vars
<1> QED BY <1>1, <1>2, <1>3

LEMMA NextLedger == IInv /\ [Next]_vars => [L!Next]_(L!vars)
<1> SUFFICES ASSUME IInv, [Next]_vars PROVE [L!Next]_(L!vars)
  OBVIOUS
<1> USE DEF L!vars
<1>1. CASE UNCHANGED vars
  BY <1>1
<1>2. CASE SetApproval \/ RedisLoss \/ \E s \in Session : TokenExpire(s)
  BY <1>2 DEF SetApproval, RedisLoss, TokenExpire
<1>3. CASE \E c \in Session \X Student : ClaimExpire(c)
  BY <1>3 DEF ClaimExpire
<1>4. ASSUME NEW s \in Session, StartNext(s) \/ RotNextStep(s) PROVE [L!Next]_(L!vars)
  <2>1. CASE StartCommit(s)
    BY <2>1 DEF StartCommit, L!Next
  <2>2. CASE ~StartCommit(s)
    BY <1>4, <2>2 DEF StartNext, RotNextStep, StartMark, StartToken, StartFail,
       RotRead, RotToken, RotNext, RotDrop
  <2> QED BY <2>1, <2>2
<1>5. ASSUME NEW r \in Request, NEW in \in Input, Submit(r, in) PROVE [L!Next]_(L!vars)
  BY <1>5 DEF Submit
<1>6. ASSUME NEW r \in Request, NotFound(r) \/ Abort(r) PROVE [L!Next]_(L!vars)
  BY <1>6 DEF NotFound, Abort
<1>7. ASSUME NEW r \in Request, ScanNext(r) PROVE [L!Next]_(L!vars)
  BY <1>7, ScanLogLedger DEF ScanNext, ScanMissing, ScanLock, ScanEnroll, ScanClaim,
     ScanInsert, ScanConflict, ScanExpired
<1>8. ASSUME NEW r \in Request, CorrectionNext(r) PROVE [L!Next]_(L!vars)
  BY <1>8, CorrectionWriteLedger
     DEF CorrectionNext, CorrectionLock, CorrectionRoster, CorrectionRead
<1>9. ASSUME NEW r \in Request, EndNext(r) PROVE [L!Next]_(L!vars)
  BY <1>9, EndCloseLedger DEF EndNext, EndLock, EndZrem, EndDelete
<1> QED BY <1>1, <1>2, <1>3, <1>4, <1>5, <1>6, <1>7, <1>8, <1>9 DEF Next, HandlerStep

(* Every step of every handler is a transaction of the ledger, or changes  *)
(* nothing durable.                                                        *)
THEOREM Refinement == Spec => ImplementsLedger
<1>1. Init => L!Init
  BY InitLedger
<1>2. IInv /\ [Next]_vars => [L!Next]_(L!vars)
  BY NextLedger
<1> QED BY <1>1, <1>2, Invariant, PTL DEF Spec, ImplementsLedger, L!Spec, L!vars
-----------------------------------------------------------------------------
(* What the ledger's transactions preserve, and Attendance with them.      *)

AcceptedHasRow ==
    \A s \in Session, u \in Student : L!Accepted(s, u) # {} => row[s][u] # "none"

LedgerInv == AcceptedHasRow /\ L!ExactlyOnce /\ L!AuditBalance

(* Ledger's Cardinality is the one of FiniteSets. *)
LEMMA SameCardinality == \A S : L!Cardinality(S) = Cardinality(S)
  BY DEF L!Cardinality, Cardinality

LEMMA EntriesFinite ==
    ASSUME NEW E, NEW s, NEW u
    PROVE  /\ IsFiniteSet(L!Entries(E, s, u))
           /\ Cardinality(L!Entries(E, s, u)) \in Nat
<1>1. IsFiniteSet(L!Entries(E, s, u))
  BY ConstantsAssumption, FS_Subset DEF L!Entries
<1> QED BY <1>1, FS_CardinalityType

(* A new audit row is an entry of its own events, session and student. *)
LEMMA WriteEntries ==
    ASSUME TypeOfTables, NEW r \in Request, NEW e \in L!Event,
           NEW x \in Session \cup {None}, NEW y \in Student, L!Write(r, e, x, y),
           NEW E \in SUBSET L!Event, NEW s \in Session, NEW u \in Student
    PROVE  /\ r \notin L!Entries(E, s, u)
           /\ L!Entries(E, s, u)' =
                IF e \in E /\ x = s /\ y = u
                  THEN L!Entries(E, s, u) \cup {r} ELSE L!Entries(E, s, u)
<1> DEFINE entry == [event |-> e, session |-> x, student |-> y]
<1>1. entry \in L!Entry
  BY DEF L!Entry
<1>2. audit[r] = None /\ audit'[r] = entry /\ audit'[r] # None
  BY <1>1, ConstantsAssumption DEF L!Write, TypeOfTables
<1>3. \A q \in Request \ {r} : audit'[q] = audit[q]
  BY DEF L!Write, TypeOfTables
<1> QED BY <1>2, <1>3 DEF L!Entries

LEMMA CountEntries ==
    ASSUME TypeOfTables, NEW r \in Request, NEW e \in L!Event,
           NEW x \in Session \cup {None}, NEW y \in Student, L!Write(r, e, x, y),
           NEW E \in SUBSET L!Event, NEW s \in Session, NEW u \in Student
    PROVE  Cardinality(L!Entries(E, s, u))' =
             IF e \in E /\ x = s /\ y = u
               THEN Cardinality(L!Entries(E, s, u)) + 1
               ELSE Cardinality(L!Entries(E, s, u))
<1>1. CASE e \in E /\ x = s /\ y = u
  BY <1>1, WriteEntries, EntriesFinite, FS_AddElement
<1>2. CASE ~(e \in E /\ x = s /\ y = u)
  BY <1>2, WriteEntries
<1> QED BY <1>1, <1>2

(* One entry and one row change together: the balance moves by what the   *)
(* entry counts for.                                                      *)
LEMMA BalanceStep ==
    ASSUME TypeOfTables, L!AuditBalance, NEW r \in Request, NEW e \in L!Event,
           NEW x \in Session \cup {None}, NEW y \in Student, L!Write(r, e, x, y),
           \A s \in Session, u \in Student :
             IF x = s /\ y = u
               THEN \/ /\ e \in {"accepted", "manual_add"}
                       /\ row[s][u] \notin L!Present /\ row'[s][u] \in L!Present
                    \/ /\ e = "manual_void"
                       /\ row[s][u] \in L!Present /\ row'[s][u] \notin L!Present
                    \/ e \in L!Refusal /\ row'[s][u] = row[s][u]
               ELSE row'[s][u] = row[s][u]
    PROVE  L!AuditBalance'
<1> SUFFICES ASSUME NEW s \in Session, NEW u \in Student
             PROVE  Cardinality(L!MarkedPresent(s, u))' =
                      Cardinality(L!MarkedAbsent(s, u))'
                        + (IF row'[s][u] \in L!Present THEN 1 ELSE 0)
  BY SameCardinality DEF L!AuditBalance, L!MarkedPresent, L!MarkedAbsent
<1> DEFINE up == {"accepted", "manual_add"}
           down == {"manual_void"}
           hit == x = s /\ y = u
<1>0. up \in SUBSET L!Event /\ down \in SUBSET L!Event
  BY DEF L!Event
<1>1. Cardinality(L!MarkedPresent(s, u))' =
        Cardinality(L!MarkedPresent(s, u)) + (IF e \in up /\ hit THEN 1 ELSE 0)
  <2>1. Cardinality(L!Entries(up, s, u))' =
          IF e \in up /\ x = s /\ y = u
            THEN Cardinality(L!Entries(up, s, u)) + 1
            ELSE Cardinality(L!Entries(up, s, u))
    BY <1>0, CountEntries
  <2> QED BY <2>1, EntriesFinite DEF L!MarkedPresent
<1>2. Cardinality(L!MarkedAbsent(s, u))' =
        Cardinality(L!MarkedAbsent(s, u)) + (IF e \in down /\ hit THEN 1 ELSE 0)
  <2>1. Cardinality(L!Entries(down, s, u))' =
          IF e \in down /\ x = s /\ y = u
            THEN Cardinality(L!Entries(down, s, u)) + 1
            ELSE Cardinality(L!Entries(down, s, u))
    BY <1>0, CountEntries
  <2> QED BY <2>1, EntriesFinite DEF L!MarkedAbsent
<1>3. /\ Cardinality(L!MarkedPresent(s, u)) \in Nat
      /\ Cardinality(L!MarkedAbsent(s, u)) \in Nat
  BY EntriesFinite DEF L!MarkedPresent, L!MarkedAbsent
<1>4. Cardinality(L!MarkedPresent(s, u)) =
        Cardinality(L!MarkedAbsent(s, u)) + (IF row[s][u] \in L!Present THEN 1 ELSE 0)
  BY SameCardinality DEF L!AuditBalance
<1>5. CASE ~hit
  BY <1>1, <1>2, <1>3, <1>4, <1>5
<1>6. CASE hit
  BY <1>1, <1>2, <1>3, <1>4, <1>6 DEF L!Refusal
<1> QED BY <1>5, <1>6
LEMMA OnceStep ==
    ASSUME TypeOfTables, AcceptedHasRow, L!ExactlyOnce,
           NEW r \in Request, NEW e \in L!Event,
           NEW x \in Session \cup {None}, NEW y \in Student, L!Write(r, e, x, y),
           \A s \in Session, u \in Student : row[s][u] # "none" => row'[s][u] # "none",
           e = "accepted" =>
             x \in Session /\ row[x][y] = "none" /\ row'[x][y] # "none"
    PROVE  AcceptedHasRow' /\ L!ExactlyOnce'
<1>1. ASSUME NEW s \in Session, NEW u \in Student
      PROVE  L!Accepted(s, u)' =
               IF e = "accepted" /\ x = s /\ y = u
                 THEN L!Accepted(s, u) \cup {r} ELSE L!Accepted(s, u)
  <2>1. {"accepted"} \in SUBSET L!Event
    BY DEF L!Event
  <2> QED BY <2>1, WriteEntries DEF L!Accepted
<1>2. AcceptedHasRow'
  BY <1>1 DEF AcceptedHasRow
<1>3. L!ExactlyOnce'
  BY <1>1 DEF AcceptedHasRow, L!ExactlyOnce
<1> QED BY <1>2, <1>3

LEMMA LedgerStep ==
    ASSUME TypeOfTables, LedgerInv, L!Next
    PROVE  LedgerInv'
<1> USE DEF LedgerInv
<1>1. ASSUME NEW s \in Session, L!Open(s) \/ L!Close(s)
      PROVE  LedgerInv'
  BY <1>1, SameCardinality DEF L!Open, L!Close, AcceptedHasRow, L!ExactlyOnce,
     L!AuditBalance, L!Accepted, L!MarkedPresent, L!MarkedAbsent, L!Entries
<1>2. ASSUME NEW r \in Request, NEW s \in Session, NEW u \in Student, L!CheckIn(r, s, u)
      PROVE  LedgerInv'
  <2>1. "accepted" \in L!Event /\ L!Write(r, "accepted", s, u)
    BY <1>2 DEF L!CheckIn, L!Event
  <2>2. \A x \in Session, y \in Student :
          row'[x][y] = IF x = s /\ y = u THEN "scan" ELSE row[x][y]
    BY <1>2 DEF L!CheckIn, TypeOfTables
  <2>3. row[s][u] = "none"
    BY <1>2 DEF L!CheckIn
  <2>4. AcceptedHasRow' /\ L!ExactlyOnce'
    BY <2>1, <2>2, <2>3, OnceStep
  <2>5. L!AuditBalance'
    BY <2>1, <2>2, <2>3, BalanceStep DEF L!Present
  <2> QED BY <2>4, <2>5
<1>3. ASSUME NEW r \in Request, NEW s \in Session, NEW u \in Student, L!Add(r, s, u)
      PROVE  LedgerInv'
  <2>1. "manual_add" \in L!Event /\ L!Write(r, "manual_add", s, u)
    BY <1>3 DEF L!Add, L!Event
  <2>2. \A x \in Session, y \in Student :
          row'[x][y] = IF x = s /\ y = u THEN "manual" ELSE row[x][y]
    BY <1>3 DEF L!Add, TypeOfTables
  <2>3. row[s][u] \notin L!Present
    BY <1>3 DEF L!Add
  <2>4. AcceptedHasRow' /\ L!ExactlyOnce'
    BY <2>1, <2>2, OnceStep
  <2>5. L!AuditBalance'
    BY <2>1, <2>2, <2>3, BalanceStep DEF L!Present
  <2> QED BY <2>4, <2>5
<1>4. ASSUME NEW r \in Request, NEW s \in Session, NEW u \in Student, L!Void(r, s, u)
      PROVE  LedgerInv'
  <2>1. "manual_void" \in L!Event /\ L!Write(r, "manual_void", s, u)
    BY <1>4 DEF L!Void, L!Event
  <2>2. \A x \in Session, y \in Student :
          row'[x][y] = IF x = s /\ y = u THEN "voided" ELSE row[x][y]
    BY <1>4 DEF L!Void, TypeOfTables
  <2>3. row[s][u] \in L!Present
    BY <1>4 DEF L!Void
  <2>4. AcceptedHasRow' /\ L!ExactlyOnce'
    BY <2>1, <2>2, OnceStep
  <2>5. L!AuditBalance'
    BY <2>1, <2>2, <2>3, BalanceStep DEF L!Present
  <2> QED BY <2>4, <2>5
<1>5. ASSUME NEW r \in Request, NEW u \in Student, NEW e \in L!Refusal,
             NEW s \in Session \cup {None}, L!Refuse(r, e, s, u)
      PROVE  LedgerInv'
  <2>1. e \in L!Event /\ L!Write(r, e, s, u) /\ row' = row
    BY <1>5 DEF L!Refuse, L!Event
  <2>2. e # "accepted"
    BY DEF L!Refusal
  <2>3. AcceptedHasRow' /\ L!ExactlyOnce'
    BY <2>1, <2>2, OnceStep
  <2>4. L!AuditBalance'
    BY <2>1, BalanceStep
  <2> QED BY <2>3, <2>4
<1> QED BY <1>1, <1>2, <1>3, <1>4, <1>5 DEF L!Next

LEMMA LedgerInitInv == Init => LedgerInv
<1> SUFFICES ASSUME Init PROVE LedgerInv
  OBVIOUS
<1>0. \A r \in Request : audit[r] = None
  BY DEF Init, L!Init
<1>2. \A s \in Session, u \in Student : row[s][u] = "none"
  BY DEF Init, L!Init
<1>3. AcceptedHasRow /\ L!ExactlyOnce
  <2>1. \A s \in Session, u \in Student : L!Accepted(s, u) = {}
    BY <1>0 DEF L!Accepted, L!Entries
  <2> QED BY <2>1 DEF AcceptedHasRow, L!ExactlyOnce
<1>4. L!AuditBalance
  <2>1. \A s \in Session, u \in Student :
          L!MarkedPresent(s, u) = {} /\ L!MarkedAbsent(s, u) = {}
    BY <1>0 DEF L!MarkedPresent, L!MarkedAbsent, L!Entries
  <2>2. L!Cardinality({}) = 0
    BY SameCardinality, FS_EmptySet
  <2> QED BY <1>2, <2>1, <2>2 DEF L!AuditBalance, L!Present
<1> QED BY <1>3, <1>4 DEF LedgerInv

LEMMA LedgerInvariant == Spec => []LedgerInv
<1>1. Init => LedgerInv
  BY LedgerInitInv
<1>2. IInv /\ LedgerInv /\ [Next]_vars => LedgerInv'
  <2> SUFFICES ASSUME IInv, LedgerInv, [Next]_vars PROVE LedgerInv'
    OBVIOUS
  <2>1. CASE L!Next
    BY <2>1, TypeParts, LedgerStep DEF IInv
  <2>2. CASE UNCHANGED L!vars
    BY <2>2, SameCardinality DEF L!vars, LedgerInv, AcceptedHasRow, L!ExactlyOnce,
       L!AuditBalance, L!Accepted, L!MarkedPresent, L!MarkedAbsent, L!Entries
  <2> QED BY <2>1, <2>2, NextLedger
<1> QED BY <1>1, <1>2, Invariant, PTL DEF Spec

(* At most one accepted scan per student and session, whatever fails. *)
THEOREM OnlyOnce == Spec => []ExactlyOnce
<1>1. LedgerInv => ExactlyOnce
  BY DEF LedgerInv, ExactlyOnce
<1> QED BY <1>1, LedgerInvariant, PTL

(* The audit log accounts for every row. *)
THEOREM Balance == Spec => []AuditBalance
<1>1. LedgerInv => AuditBalance
  BY DEF LedgerInv, AuditBalance
<1> QED BY <1>1, LedgerInvariant, PTL
=============================================================================
