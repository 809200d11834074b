-------------------------- MODULE EnrollmentProofs ---------------------------
(***************************************************************************)
(* Proofs about Enrollment, for every set of courses, students,            *)
(* instructors and requests, with faults and without.                      *)
(***************************************************************************)
EXTENDS Enrollment, TLAPS

USE EnrollmentAssumption DEF postgres, handler, vars

-----------------------------------------------------------------------------
(* The invariant.                                                          *)

Step(op) ==
    IF op = "join" THEN {"course", "read", "flush", "commit", "done"}
                   ELSE {"course", "decide", "commit", "done"}

(* A request takes the steps of its operation and is answered at the end. *)
RequestOK(r) ==
    /\ pc[r] = "new" <=> req[r] = None
    /\ req[r] # None => pc[r] \in Step(req[r].op)
    /\ pc[r] # "done" => result[r] = "none"

(* Who is about to commit holds the row.  A decision finds it as it read   *)
(* it; a join may have missed decisions, and if it has not, nobody is      *)
(* approved.                                                               *)
CommitOK(r) ==
    /\ pc[r] = "commit" => lock[Of(r)] = r
    /\ At(r, "decide", "commit") => seen[r] = row[Of(r)] /\ seen[r] # "none"
    /\ pc[r] = "flush" \/ At(r, "join", "commit") =>
          /\ since[r] <= Len(log[Of(r)])
          /\ row[Of(r)] = "approved" => since[r] < Len(log[Of(r)])

EInv ==
    /\ TypeOK
    /\ \A r \in Request : RequestOK(r) /\ CommitOK(r)
    /\ StandsAsDecided
    /\ AuditChain
    /\ AnswersTrue

-----------------------------------------------------------------------------
(* Lemmas about requests.                                                  *)

LEMMA InputShape ==
    ASSUME NEW x \in Input
    PROVE  /\ x.e \in Place
           /\ x.op = "join" \/ x.op = "decide"
           /\ x.op = "decide" => x.to = "approved" \/ x.to = "removed"
  BY DEF Input

LEMMA InputType ==
    ASSUME EInv, NEW r \in Request, pc[r] # "new"
    PROVE  /\ req[r] \in Input
           /\ Of(r) \in Place
           /\ req[r].op = "join" \/ req[r].op = "decide"
           /\ req[r].op = "decide" => req[r].to = "approved" \/ req[r].to = "removed"
           /\ pc[r] \in Step(req[r].op)
<1>1. req[r] \in Input /\ pc[r] \in Step(req[r].op)
  BY DEF EInv, TypeOK, RequestOK
<1> QED BY <1>1, InputShape DEF Of

(* What a step of r leaves alone: the other requests and their locks. *)
OnlyBy(r) ==
    \A q \in Request \ {r} :
        /\ req'[q] = req[q]
        /\ pc'[q] = pc[q]
        /\ seen'[q] = seen[q]
        /\ result'[q] = result[q]
        /\ since'[q] = since[q]
        /\ \A e \in Place : lock[e] = q => lock'[e] = q

LEMMA GoToOnly ==
    ASSUME TypeOK, NEW r \in Request, NEW step, GoTo(r, step)
    PROVE  /\ req'[r] = req[r] /\ pc'[r] = step /\ result'[r] = result[r]
           /\ \A q \in Request \ {r} :
                req'[q] = req[q] /\ pc'[q] = pc[q] /\ result'[q] = result[q]
  BY DEF TypeOK, GoTo

LEMMA ReturnOnly ==
    ASSUME TypeOK, NEW r \in Request, NEW res, Return(r, res)
    PROVE  /\ req'[r] = req[r] /\ pc'[r] = "done" /\ result'[r] = res
           /\ \A q \in Request \ {r} :
                req'[q] = req[q] /\ pc'[q] = pc[q] /\ result'[q] = result[q]
  BY DEF TypeOK, Return

LEMMA ReleaseOnly ==
    ASSUME TypeOK, NEW r \in Request, Release(r)
    PROVE  /\ lock' \in [Place -> Request \cup {None}]
           /\ \A e \in Place, q \in Request \ {r} : lock[e] = q => lock'[e] = q
  BY DEF TypeOK, Release

LEMMA AcquireOnly ==
    ASSUME TypeOK, NEW r \in Request, Of(r) \in Place, Acquire(r)
    PROVE  /\ lock' \in [Place -> Request \cup {None}]
           /\ lock'[Of(r)] = r
           /\ \A e \in Place, q \in Request : lock[e] = q => lock'[e] = q
  BY DEF TypeOK, Acquire

-----------------------------------------------------------------------------
(* The invariant after a step of one request.                              *)

AnswerOK(r) ==
    result[r] \in {"pending", "approved", "removed", "conflict"} => row[Of(r)] # "none"

(* A step that leaves the enrollments alone. *)
LEMMA LocalStep ==
    ASSUME EInv, NEW r \in Request, OnlyBy(r), TypeOK',
           UNCHANGED <<legacy, row, log>>,
           RequestOK(r)', CommitOK(r)', AnswerOK(r)'
    PROVE  EInv'
<1>1. ASSUME NEW q \in Request \ {r}
      PROVE  RequestOK(q)' /\ CommitOK(q)' /\ AnswerOK(q)'
  <2>1. RequestOK(q) /\ CommitOK(q) /\ AnswerOK(q)
    BY DEF EInv, AnswersTrue, AnswerOK
  <2>2. pc[q] # "new" => Of(q) \in Place
    BY InputType
  <2> QED BY <2>1, <2>2 DEF OnlyBy, RequestOK, CommitOK, AnswerOK, At, Of
<1>2. StandsAsDecided' /\ AuditChain'
  BY DEF EInv, StandsAsDecided, AuditChain
<1> QED BY <1>1, <1>2 DEF EInv, AnswersTrue, AnswerOK

(* A step that commits: it holds the row it writes. *)
LEMMA CommitStep ==
    ASSUME EInv, NEW r \in Request, OnlyBy(r), TypeOK',
           pc[r] = "commit", pc'[r] = "done", req'[r] = req[r],
           NEW st \in {"pending", "approved", "removed"},
           row' = [row EXCEPT ![Of(r)] = st],
           \A e \in Place : Len(log[e]) <= Len(log'[e]),
           st = "approved" => Len(log[Of(r)]) < Len(log'[Of(r)])
    PROVE  /\ \A q \in Request : RequestOK(q)' /\ CommitOK(q)'
           /\ AnswersTrue'
<1>1. /\ req[r] \in Input /\ Of(r) \in Place /\ pc[r] \in Step(req[r].op)
      /\ lock[Of(r)] = r
  BY InputType DEF EInv, CommitOK
<1>2. \A e \in Place : Len(log[e]) \in Nat /\ Len(log'[e]) \in Nat
  BY DEF EInv, TypeOK
<1>3. RequestOK(r)' /\ CommitOK(r)' /\ AnswerOK(r)'
  BY <1>1 DEF EInv, TypeOK, RequestOK, CommitOK, AnswerOK, At, Of, Step
<1>4. ASSUME NEW q \in Request \ {r}
      PROVE  RequestOK(q)' /\ CommitOK(q)' /\ AnswerOK(q)'
  <2>1. RequestOK(q) /\ CommitOK(q) /\ AnswerOK(q)
    BY DEF EInv, AnswersTrue, AnswerOK
  <2>2. RequestOK(q)' /\ Of(q)' = Of(q)
    BY <2>1 DEF OnlyBy, RequestOK, Of
  <2>3. CASE pc[q] = "new"
    BY <2>1, <2>2, <2>3 DEF OnlyBy, RequestOK, CommitOK, AnswerOK, At
  <2>4. CASE pc[q] # "new"
    <3>1. Of(q) \in Place /\ since[q] \in Nat
      BY <2>4, InputType DEF EInv, TypeOK
    <3>2. row'[Of(q)] # row[Of(q)] => Of(q) = Of(r) /\ row'[Of(q)] = st
      BY <1>1, <3>1 DEF EInv, TypeOK
    <3>3. AnswerOK(q)'
      BY <2>1, <2>2, <3>2 DEF AnswerOK, OnlyBy
    <3>4. pc[q] = "commit" => lock'[Of(q)] = q /\ Of(q) # Of(r)
      BY <1>1, <2>1, <3>1 DEF CommitOK, OnlyBy
    <3>5. CommitOK(q)'
      BY <1>1, <1>2, <2>1, <2>2, <3>1, <3>2, <3>4 DEF CommitOK, OnlyBy, At
    <3> QED BY <2>2, <3>3, <3>5
  <2> QED BY <2>3, <2>4
<1> QED BY <1>3, <1>4 DEF AnswersTrue, AnswerOK

-----------------------------------------------------------------------------
(* One lemma per action.                                                   *)

LEMMA CreateCourseStep ==
    ASSUME EInv, NEW i \in Instructor, NEW c \in Course, CreateCourse(i, c)
    PROVE  EInv'
<1>1. TypeOK'
  BY DEF EInv, TypeOK, CreateCourse
<1> QED BY <1>1 DEF EInv, CreateCourse, RequestOK, CommitOK, At, Of, StandsAsDecided,
     AuditChain, AnswersTrue

LEMMA SubmitStep ==
    ASSUME EInv, NEW r \in Request, NEW x \in Input, Submit(r, x)
    PROVE  EInv'
<1>1. TypeOK' /\ OnlyBy(r)
  BY DEF EInv, TypeOK, Submit, OnlyBy
<1>2. pc'[r] = "course" /\ req'[r] = x /\ result'[r] = "none" /\ x # None
  BY DEF EInv, TypeOK, RequestOK, Submit
<1>3. RequestOK(r)' /\ CommitOK(r)' /\ AnswerOK(r)'
  BY <1>2, InputShape DEF RequestOK, CommitOK, AnswerOK, Step, At
<1> QED BY <1>1, <1>3, LocalStep DEF Submit

LEMMA CourseMissingStep ==
    ASSUME EInv, NEW r \in Request, CourseMissing(r)
    PROVE  EInv'
<1>1. TypeOK'
  BY DEF EInv, TypeOK, CourseMissing, Return
<1>2. OnlyBy(r) /\ pc'[r] = "done" /\ req'[r] = req[r] /\ result'[r] = "not_found"
  BY ReturnOnly DEF EInv, CourseMissing, OnlyBy
<1>3. RequestOK(r)' /\ CommitOK(r)' /\ AnswerOK(r)'
  BY <1>2, InputType DEF EInv, CourseMissing, RequestOK, CommitOK, AnswerOK, Step, At
<1> QED BY <1>1, <1>2, <1>3, LocalStep DEF CourseMissing

LEMMA CourseFoundStep ==
    ASSUME EInv, NEW r \in Request, CourseFound(r)
    PROVE  EInv'
<1>1. TypeOK'
  BY DEF EInv, TypeOK, CourseFound, GoTo
<1>2. /\ OnlyBy(r) /\ req'[r] = req[r] /\ result'[r] = result[r]
      /\ pc'[r] = IF req[r].op = "join" THEN "read" ELSE "decide"
  BY GoToOnly DEF EInv, CourseFound, OnlyBy
<1>3. RequestOK(r)' /\ CommitOK(r)' /\ AnswerOK(r)'
  BY <1>2, InputType DEF EInv, CourseFound, RequestOK, CommitOK, AnswerOK, Step, At
<1> QED BY <1>1, <1>2, <1>3, LocalStep DEF CourseFound

(* Who goes on to write has found nobody approved. *)
LEMMA JoinReadStep ==
    ASSUME EInv, NEW r \in Request, JoinRead(r)
    PROVE  EInv'
<1>0. Of(r) \in Place /\ req[r].op = "join" /\ pc[r] = "read"
  BY InputType DEF JoinRead, At
<1>1. CASE row[Of(r)] \in {"pending", "approved"}
  <2>1. Return(r, row[Of(r)]) /\ UNCHANGED postgres
    BY <1>1 DEF JoinRead
  <2>2. TypeOK'
    BY <1>0, <2>1 DEF EInv, TypeOK, JoinRead, Return
  <2>3. OnlyBy(r) /\ pc'[r] = "done" /\ req'[r] = req[r] /\ result'[r] = row[Of(r)]
    BY <2>1, ReturnOnly DEF EInv, TypeOK, JoinRead, OnlyBy
  <2>4. RequestOK(r)' /\ CommitOK(r)' /\ AnswerOK(r)'
    BY <1>0, <1>1, <2>1, <2>3, InputType
       DEF EInv, RequestOK, CommitOK, AnswerOK, Step, At, Of
  <2> QED BY <2>1, <2>2, <2>3, <2>4, LocalStep
<1>2. CASE row[Of(r)] \notin {"pending", "approved"}
  <2>1. GoTo(r, "flush") /\ UNCHANGED postgres
    BY <1>2 DEF JoinRead
  <2>2. TypeOK' /\ since'[r] = Len(log[Of(r)])
    BY <1>0, <2>1 DEF EInv, TypeOK, JoinRead, GoTo
  <2>3. OnlyBy(r) /\ pc'[r] = "flush" /\ req'[r] = req[r] /\ result'[r] = result[r]
    BY <2>1, GoToOnly DEF EInv, TypeOK, JoinRead, OnlyBy
  <2>4. Len(log[Of(r)]) \in Nat
    BY <1>0 DEF EInv, TypeOK
  <2>5. RequestOK(r)' /\ CommitOK(r)' /\ AnswerOK(r)'
    BY <1>0, <1>2, <2>1, <2>2, <2>3, <2>4
       DEF EInv, RequestOK, CommitOK, AnswerOK, Step, At, Of
  <2> QED BY <2>1, <2>2, <2>3, <2>5, LocalStep
<1> QED BY <1>1, <1>2

LEMMA JoinConflictStep ==
    ASSUME EInv, NEW r \in Request, JoinConflict(r)
    PROVE  EInv'
<1>1. TypeOK'
  BY DEF EInv, TypeOK, JoinConflict, Return
<1>2. OnlyBy(r) /\ pc'[r] = "done" /\ req'[r] = req[r] /\ result'[r] = "conflict"
  BY ReturnOnly DEF EInv, JoinConflict, OnlyBy
<1>3. RequestOK(r)' /\ CommitOK(r)' /\ AnswerOK(r)'
  BY <1>2 DEF EInv, JoinConflict, RequestOK, CommitOK, AnswerOK, Step, At, Of
<1> QED BY <1>1, <1>2, <1>3, LocalStep DEF JoinConflict

LEMMA JoinFlushStep ==
    ASSUME EInv, NEW r \in Request, JoinFlush(r)
    PROVE  EInv'
<1>0. Of(r) \in Place
  BY InputType DEF JoinFlush, At
<1>1. TypeOK'
  BY <1>0, AcquireOnly DEF EInv, TypeOK, JoinFlush, GoTo
<1>2. /\ OnlyBy(r) /\ lock'[Of(r)] = r
      /\ pc'[r] = "commit" /\ req'[r] = req[r] /\ result'[r] = result[r]
  BY <1>0, GoToOnly, AcquireOnly DEF EInv, JoinFlush, OnlyBy
<1>3. RequestOK(r)' /\ CommitOK(r)' /\ AnswerOK(r)'
  BY <1>2 DEF EInv, JoinFlush, RequestOK, CommitOK, AnswerOK, Step, At, Of
<1> QED BY <1>1, <1>2, <1>3, LocalStep DEF JoinFlush

LEMMA DecideMissingStep ==
    ASSUME EInv, NEW r \in Request, DecideMissing(r)
    PROVE  EInv'
<1>1. TypeOK'
  BY DEF EInv, TypeOK, DecideMissing, Return
<1>2. OnlyBy(r) /\ pc'[r] = "done" /\ req'[r] = req[r] /\ result'[r] = "not_found"
  BY ReturnOnly DEF EInv, DecideMissing, OnlyBy
<1>3. RequestOK(r)' /\ CommitOK(r)' /\ AnswerOK(r)'
  BY <1>2 DEF EInv, DecideMissing, RequestOK, CommitOK, AnswerOK, Step, At
<1> QED BY <1>1, <1>2, <1>3, LocalStep DEF DecideMissing

LEMMA DecideLockStep ==
    ASSUME EInv, NEW r \in Request, DecideLock(r)
    PROVE  EInv'
<1>0. Of(r) \in Place
  BY InputType DEF DecideLock, At
<1>1. TypeOK' /\ seen'[r] = row[Of(r)]
  BY <1>0, AcquireOnly DEF EInv, TypeOK, DecideLock, GoTo
<1>2. /\ OnlyBy(r) /\ lock'[Of(r)] = r
      /\ pc'[r] = "commit" /\ req'[r] = req[r] /\ result'[r] = result[r]
  BY <1>0, GoToOnly, AcquireOnly DEF EInv, TypeOK, DecideLock, OnlyBy
<1>3. RequestOK(r)' /\ CommitOK(r)' /\ AnswerOK(r)'
  BY <1>1, <1>2 DEF EInv, DecideLock, RequestOK, CommitOK, AnswerOK, Step, At, Of
<1> QED BY <1>1, <1>2, <1>3, LocalStep DEF DecideLock

LEMMA AbortStep ==
    ASSUME EInv, NEW r \in Request, Abort(r)
    PROVE  EInv'
<1>1. TypeOK'
  BY ReleaseOnly DEF EInv, TypeOK, Abort, Return
<1>2. OnlyBy(r) /\ pc'[r] = "done" /\ req'[r] = req[r] /\ result'[r] = "error"
  BY ReturnOnly, ReleaseOnly DEF EInv, Abort, OnlyBy
<1>3. RequestOK(r)' /\ CommitOK(r)' /\ AnswerOK(r)'
  BY <1>2, InputType DEF EInv, Abort, RequestOK, CommitOK, AnswerOK, Step, At
<1> QED BY <1>1, <1>2, <1>3, LocalStep DEF Abort

-----------------------------------------------------------------------------
(* The two steps that write.                                               *)

LEMMA JoinCommitStep ==
    ASSUME EInv, NEW r \in Request, JoinCommit(r)
    PROVE  EInv'
<1>0. /\ Of(r) \in Place /\ pc[r] = "commit"
      /\ row' = [row EXCEPT ![Of(r)] = "pending"] /\ UNCHANGED <<legacy, log>>
  BY InputType DEF JoinCommit, JoinStatus, At
<1>1. TypeOK'
  <2>1. row' \in [Place -> Status]
    BY <1>0 DEF EInv, TypeOK, Status
  <2> QED BY <1>0, <2>1, ReleaseOnly DEF EInv, TypeOK, JoinCommit, JoinStatus, Return, Status
<1>2. OnlyBy(r) /\ pc'[r] = "done" /\ req'[r] = req[r]
  BY ReturnOnly, ReleaseOnly DEF EInv, JoinCommit, OnlyBy
<1>3. \A e \in Place : Len(log[e]) <= Len(log'[e])
  BY <1>0 DEF EInv, TypeOK
<1>4. /\ \A q \in Request : RequestOK(q)' /\ CommitOK(q)'
      /\ AnswersTrue'
  BY <1>0, <1>1, <1>2, <1>3, CommitStep
<1>5. StandsAsDecided'
  BY <1>0 DEF EInv, TypeOK, StandsAsDecided
<1>6. AuditChain'
  BY <1>0 DEF EInv, AuditChain
<1> QED BY <1>1, <1>4, <1>5, <1>6 DEF EInv

(* The log of a decision's place is one entry longer, and the entry says   *)
(* of before what the place's log has said last.                           *)
LEMMA DecideCommitStep ==
    ASSUME EInv, NEW r \in Request, DecideCommit(r)
    PROVE  EInv'
<1> DEFINE e == Of(r)
           to == req[r].to
           d == [before |-> seen[r], after |-> to]
<1>0. /\ e \in Place /\ pc[r] = "commit" /\ to \in {"approved", "removed"}
      /\ row' = [row EXCEPT ![e] = to] /\ log' = [log EXCEPT ![e] = Append(log[e], d)]
      /\ seen[r] = row[e] /\ row[e] # "none" /\ row[e] \in Status
      /\ UNCHANGED legacy
  BY InputType DEF EInv, TypeOK, CommitOK, DecideCommit, At
<1>1. d \in Decision /\ log[e] \in Seq(Decision)
  BY <1>0 DEF EInv, TypeOK, Decision, Status
<1>2. TypeOK'
  <2>1. log' \in [Place -> Seq(Decision)] /\ row' \in [Place -> Status]
    BY <1>0, <1>1 DEF EInv, TypeOK, Status
  <2> QED BY <1>0, <2>1, ReleaseOnly DEF EInv, TypeOK, DecideCommit, Return, Status
<1>3. OnlyBy(r) /\ pc'[r] = "done" /\ req'[r] = req[r]
  BY ReturnOnly, ReleaseOnly DEF EInv, DecideCommit, OnlyBy
<1>4. /\ log'[e] = Append(log[e], d) /\ \A f \in Place \ {e} : log'[f] = log[f]
      /\ row'[e] = to /\ \A f \in Place \ {e} : row'[f] = row[f]
  BY <1>0 DEF EInv, TypeOK
<1>5. /\ Len(log[e]) \in Nat /\ Len(log'[e]) = Len(log[e]) + 1
      /\ log'[e][Len(log[e]) + 1] = d
      /\ \A k \in DOMAIN log[e] : log'[e][k] = log[e][k]
      /\ DOMAIN log[e] = 1..Len(log[e])
      /\ DOMAIN log'[e] = 1..(Len(log[e]) + 1)
  BY <1>1, <1>4
<1>6. /\ \A q \in Request : RequestOK(q)' /\ CommitOK(q)'
      /\ AnswersTrue'
  <2>1. ASSUME NEW f \in Place
        PROVE  Len(log[f]) <= Len(log'[f])
    <3>1. Len(log[f]) \in Nat
      BY DEF EInv, TypeOK
    <3>2. CASE f = e
      BY <1>5, <3>2
    <3>3. CASE f # e
      BY <1>4, <3>1, <3>3
    <3> QED BY <3>2, <3>3
  <2>2. /\ to \in {"pending", "approved", "removed"}
        /\ row' = [row EXCEPT ![Of(r)] = to]
        /\ Len(log[Of(r)]) < Len(log'[Of(r)])
    BY <1>0, <1>5
  <2> HIDE DEF e, to, d
  <2> QED BY <1>0, <1>2, <1>3, <2>1, <2>2, CommitStep
<1>7. StandsAsDecided'
  <2> SUFFICES ASSUME NEW f \in Place, row'[f] \in {"approved", "removed"}
               PROVE  IF log'[f] = <<>>
                        THEN f \in legacy /\ row'[f] = "approved"
                        ELSE row'[f] = log'[f][Len(log'[f])].after
    BY <1>0 DEF StandsAsDecided
  <2>1. CASE f = e
    BY <1>4, <1>5, <2>1
  <2>2. CASE f # e
    BY <1>4, <2>2 DEF EInv, StandsAsDecided
  <2> QED BY <2>1, <2>2
<1>8. AuditChain'
  <2> SUFFICES ASSUME NEW f \in Place, NEW k \in DOMAIN log'[f]
               PROVE  \/ log'[f][k].before = "pending"
                      \/ k = 1 /\ f \in legacy /\ log'[f][k].before = "approved"
                      \/ k > 1 /\ log'[f][k].before = log'[f][k - 1].after
    BY <1>0 DEF AuditChain
  <2>1. CASE f # e
    BY <1>4, <2>1 DEF EInv, AuditChain
  <2>2. CASE f = e /\ k \in DOMAIN log[e]
    <3>1. k > 1 => k - 1 \in DOMAIN log[e]
      BY <1>5, <2>2
    <3> QED BY <1>5, <2>2, <3>1 DEF EInv, AuditChain
  <2>3. CASE f = e /\ k = Len(log[e]) + 1
    <3>1. log'[f][k].before = row[e]
      BY <1>0, <1>5, <2>3
    <3>2. CASE row[e] = "pending"
      BY <3>1, <3>2
    <3>3. CASE log[e] = <<>> /\ row[e] # "pending"
      <4>1. e \in legacy /\ row[e] = "approved"
        BY <1>0, <3>3 DEF EInv, StandsAsDecided, Status
      <4> QED BY <2>3, <3>1, <3>3, <4>1
    <3>4. CASE log[e] # <<>> /\ row[e] # "pending"
      <4>1. row[e] = log[e][Len(log[e])].after
        BY <1>0, <3>4 DEF EInv, StandsAsDecided, Status
      <4>2. Len(log[e]) > 0 /\ Len(log[e]) \in DOMAIN log[e]
        BY <1>1, <1>5, <3>4
      <4> QED BY <1>5, <2>3, <3>1, <4>1, <4>2
    <3> QED BY <3>2, <3>3, <3>4
  <2> QED BY <1>5, <2>1, <2>2, <2>3
<1> QED BY <1>2, <1>6, <1>7, <1>8 DEF EInv

-----------------------------------------------------------------------------
(* The theorems.                                                           *)

LEMMA EnrollmentStarts ==
    ASSUME Init
    PROVE  EInv
<1>1. TypeOK
  BY DEF Init, Start, TypeOK, Migrated, Status
<1>2. \A r \in Request : RequestOK(r) /\ CommitOK(r)
  BY DEF Init, Start, RequestOK, CommitOK, At
<1>3. StandsAsDecided /\ AuditChain /\ AnswersTrue
  BY DEF Init, Start, Migrated, StandsAsDecided, AuditChain, AnswersTrue
<1> QED BY <1>1, <1>2, <1>3 DEF EInv

LEMMA EnrollmentMoves ==
    ASSUME EInv, Next
    PROVE  EInv'
<1>1. ASSUME NEW i \in Instructor, NEW c \in Course, CreateCourse(i, c)
      PROVE  EInv'
  BY <1>1, CreateCourseStep
<1>2. ASSUME NEW r \in Request, HandlerStep(r)
      PROVE  EInv'
  BY <1>2, CourseMissingStep, CourseFoundStep, JoinReadStep, JoinConflictStep,
     JoinFlushStep, JoinCommitStep, DecideMissingStep, DecideLockStep,
     DecideCommitStep DEF HandlerStep
<1>3. ASSUME NEW r \in Request, Abort(r)
      PROVE  EInv'
  BY <1>3, AbortStep
<1>4. ASSUME NEW r \in Request, NEW x \in Input, Submit(r, x)
      PROVE  EInv'
  BY <1>4, SubmitStep
<1> QED BY <1>1, <1>2, <1>3, <1>4 DEF Next

LEMMA EnrollmentRests ==
    ASSUME EInv, UNCHANGED vars
    PROVE  EInv'
  BY DEF EInv, TypeOK, RequestOK, CommitOK, At, Of, StandsAsDecided, AuditChain,
         AnswersTrue

(* What the other theorems follow from: the shape of every value, who      *)
(* holds a row that is about to be written, and what is known of it.       *)
THEOREM Invariant == Spec => []EInv
<1>1. EInv /\ [Next]_vars => EInv'
  BY EnrollmentMoves, EnrollmentRests
<1> QED BY EnrollmentStarts, <1>1, PTL DEF Spec

(* The variables have the types that the model declares. *)
THEOREM TypeCorrect == Spec => []TypeOK
<1>1. EInv => TypeOK
  BY DEF EInv
<1> QED BY Invariant, <1>1, PTL

(* A student is in or out by the last decision the owner took, whatever    *)
(* joins and decisions run at the same time.                               *)
THEOREM Decided == Spec => []StandsAsDecided
<1>1. EInv => StandsAsDecided
  BY DEF EInv
<1> QED BY Invariant, <1>1, PTL

(* The audit of the decisions about a student is one history.              *)
THEOREM Chain == Spec => []AuditChain
<1>1. EInv => AuditChain
  BY DEF EInv
<1> QED BY Invariant, <1>1, PTL

(* An answer that names a status is about a request that is stored.        *)
THEOREM Answers == Spec => []AnswersTrue
<1>1. EInv => AnswersTrue
  BY DEF EInv
<1> QED BY Invariant, <1>1, PTL

(* Only the commit of a join writes "pending" over something else. *)
LEMMA ApprovalStep ==
    ASSUME EInv, Next, NEW e \in Place, row[e] = "approved", row'[e] = "pending"
    PROVE  \E r \in Request : pc[r] = "commit" /\ Of(r) = e /\ since[r] < Len(log[e])
<1>1. PICK r \in Request : JoinCommit(r) \/ DecideCommit(r)
  BY DEF Next, HandlerStep, CreateCourse, Submit, CourseMissing, CourseFound, JoinRead,
         JoinConflict, JoinFlush, DecideMissing, DecideLock, Abort
<1>2. pc[r] = "commit"
  BY <1>1 DEF JoinCommit, DecideCommit, At
<1>3. Of(r) \in Place /\ (req[r].op = "decide" => req[r].to # "pending")
  BY <1>2, InputType
<1>4. e = Of(r) /\ At(r, "join", "commit")
  BY <1>1, <1>3 DEF JoinCommit, DecideCommit, At, EInv, TypeOK
<1>5. since[r] < Len(log[e])
  BY <1>4 DEF EInv, CommitOK
<1> QED BY <1>2, <1>4, <1>5

(* An approval is lost only to a join that had read the row before it.     *)
THEOREM Approval == Spec => ApprovalKept
<1> DEFINE A == \A e \in Place :
        row[e] = "approved" /\ row'[e] = "pending" =>
            \E r \in Request :
                pc[r] = "commit" /\ Of(r) = e /\ since[r] < Len(log[e])
<1>1. EInv /\ [Next]_vars => [A]_vars
  BY ApprovalStep
<1> QED BY Invariant, <1>1, PTL DEF Spec, ApprovalKept
=============================================================================
