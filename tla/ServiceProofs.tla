---------------------------- MODULE ServiceProofs ----------------------------
(***************************************************************************)
(* Proofs about Service, for every number of migrations, instances and     *)
(* image versions: that deployments cannot be told from the outside, and   *)
(* what Enrollment promises while they go on.                              *)
(***************************************************************************)
EXTENDS Service, EnrollmentProofs

USE EnrollmentAssumption, ServiceAssumption
    DEF postgres, handler, vars, deployment, service, M!database, M!vars

-----------------------------------------------------------------------------
(* Migrations.                                                             *)

(* Who has the advisory lock has read the versions and nobody has added    *)
(* one since; a version is there with all the columns of its image.        *)
DInv ==
    /\ M!TypeOK
    /\ \E v \in versions \cup {0} : \A w \in versions : w <= v
    /\ \A v \in versions : 1..v \subseteq columns
    /\ \A m \in Migrator :
          /\ step[m] \in {"read", "commit"} => advisory = m
          /\ step[m] = "commit" =>
                /\ image[m] \in M!Version
                /\ \A w \in versions : w < image[m]
    /\ NoRace
    /\ ServesMigrated

(* The newest version there is. *)
LEMMA CurrentIs ==
    ASSUME DInv
    PROVE  M!Current \in versions \cup {0} /\ \A w \in versions : w <= M!Current
  BY DEF DInv, M!Current

(* A run of migrate_db that is over, or rolled back. *)
LEMMA EndStep ==
    ASSUME DInv, NEW m \in Migrator, M!End(m, "end"), UNCHANGED <<versions, columns, serving>>
    PROVE  DInv'
<1>1. M!TypeOK'
  BY DEF DInv, M!TypeOK, M!End, M!GoTo
<1>2. /\ step'[m] = "end"
      /\ \A q \in Migrator \ {m} :
            /\ step'[q] = step[q] /\ image'[q] = image[q]
            /\ advisory = q => advisory' = q
  BY DEF DInv, M!TypeOK, M!End, M!GoTo
<1>3. NoRace' /\ ServesMigrated'
  BY <1>2 DEF DInv, NoRace, M!NoRace, ServesMigrated, M!ServesMigrated
<1>4. \A q \in Migrator :
          /\ step'[q] \in {"read", "commit"} => advisory' = q
          /\ step'[q] = "commit" =>
                /\ image'[q] \in M!Version
                /\ \A w \in versions : w < image'[q]
  BY <1>2 DEF DInv
<1> QED BY <1>1, <1>3, <1>4 DEF DInv

LEMMA CommitMigration ==
    ASSUME DInv, NEW m \in Migrator, M!Commit(m)
    PROVE  /\ DInv'
           /\ columns \subseteq columns'
<1>1. /\ step[m] = "commit" /\ advisory = m /\ image[m] \in M!Version
      /\ \A w \in versions : w < image[m]
      /\ versions \subseteq M!Version
  BY DEF DInv, M!TypeOK, M!Commit
<1>2. image[m] \notin versions
  BY <1>1 DEF M!Version
<1>3. /\ versions' = versions \cup {image[m]}
      /\ columns' = columns \cup 1..image[m]
      /\ M!End(m, "end") /\ UNCHANGED serving
  BY <1>2 DEF M!Commit
<1>4. M!TypeOK'
  <2>1. 1..image[m] \subseteq M!Version
    BY <1>1 DEF M!Version
  <2> QED BY <1>1, <1>3, <2>1 DEF DInv, M!TypeOK, M!End, M!GoTo
<1>5. \A w \in versions' : w <= image[m]
  BY <1>1, <1>3 DEF M!Version
<1>6. \A v \in versions' : 1..v \subseteq columns'
  BY <1>3 DEF DInv
<1>7. /\ step'[m] = "end"
      /\ \A q \in Migrator \ {m} : step'[q] = step[q] /\ step[q] \notin {"read", "commit"}
  BY <1>1, <1>3 DEF DInv, M!TypeOK, M!End, M!GoTo
<1>8. NoRace' /\ ServesMigrated'
  BY <1>3, <1>7 DEF DInv, NoRace, M!NoRace, ServesMigrated, M!ServesMigrated
<1> QED BY <1>3, <1>4, <1>5, <1>6, <1>7, <1>8 DEF DInv

LEMMA BootStep ==
    ASSUME DInv, NEW a \in Instance, NEW v \in M!Version, M!Boot(a, v)
    PROVE  DInv'
<1>1. M!TypeOK' /\ serving' = [serving EXCEPT ![a] = v]
  BY DEF DInv, M!TypeOK, M!Boot
<1>2. v \in versions
  BY CurrentIs DEF M!Boot, M!Version
<1>3. ServesMigrated'
  BY <1>1, <1>2 DEF DInv, M!TypeOK, M!Boot, ServesMigrated, M!ServesMigrated
<1>4. NoRace'
  BY DEF DInv, M!Boot, NoRace, M!NoRace
<1> QED BY <1>1, <1>3, <1>4 DEF DInv, M!Boot

LEMMA StopStep ==
    ASSUME DInv, NEW a \in Instance, M!Stop(a)
    PROVE  DInv'
<1>1. M!TypeOK' /\ serving' = [serving EXCEPT ![a] = 0]
  BY DEF DInv, M!TypeOK, M!Stop
<1>2. ServesMigrated'
  BY <1>1 DEF DInv, M!TypeOK, M!Stop, ServesMigrated, M!ServesMigrated
<1>3. NoRace'
  BY DEF DInv, M!Stop, NoRace, M!NoRace
<1> QED BY <1>1, <1>2, <1>3 DEF DInv, M!Stop

LEMMA DeployStep ==
    ASSUME DInv, NEW m \in Migrator, NEW v \in M!Version, M!Deploy(m, v)
    PROVE  DInv'
<1>1. M!TypeOK'
  BY DEF DInv, M!TypeOK, M!Deploy, M!GoTo
<1>2. /\ step'[m] = "lock"
      /\ \A q \in Migrator \ {m} : step'[q] = step[q] /\ image'[q] = image[q]
  BY DEF DInv, M!TypeOK, M!Deploy, M!GoTo
<1>3. NoRace' /\ ServesMigrated'
  BY <1>2 DEF DInv, M!Deploy, NoRace, M!NoRace, ServesMigrated, M!ServesMigrated
<1> QED BY <1>1, <1>2, <1>3 DEF DInv, M!Deploy

LEMMA LockStep ==
    ASSUME DInv, NEW m \in Migrator, M!Lock(m)
    PROVE  DInv'
<1>1. M!TypeOK'
  BY DEF DInv, M!TypeOK, M!Lock, M!GoTo
<1>2. /\ step'[m] = "read" /\ advisory' = m
      /\ \A q \in Migrator \ {m} : step'[q] = step[q] /\ step[q] \notin {"read", "commit"}
  BY DEF DInv, M!TypeOK, M!Lock, M!GoTo
<1>3. NoRace' /\ ServesMigrated'
  BY <1>2 DEF DInv, M!Lock, NoRace, M!NoRace, ServesMigrated, M!ServesMigrated
<1> QED BY <1>1, <1>2, <1>3 DEF DInv, M!Lock

LEMMA AlterStep ==
    ASSUME DInv, NEW m \in Migrator, M!Alter(m)
    PROVE  DInv'
<1>1. M!TypeOK'
  BY DEF DInv, M!TypeOK, M!Alter, M!GoTo
<1>2. /\ step'[m] = "commit" /\ advisory = m
      /\ \A q \in Migrator \ {m} : step'[q] = step[q]
  BY DEF DInv, M!TypeOK, M!Alter, M!GoTo
<1>3. image[m] \in M!Version /\ \A w \in versions : w < image[m]
  <2>1. versions \subseteq M!Version /\ image[m] \in M!Version \cup {0}
    BY DEF DInv, M!TypeOK
  <2>2. M!Current < image[m]
    BY DEF M!Alter
  <2>3. M!Current \in Nat /\ \A w \in versions : w \in Nat /\ w <= M!Current
    <3>1. M!Current \in M!Version \cup {0}
      BY <2>1, CurrentIs
    <3>2. M!Version \subseteq Nat
      BY DEF M!Version
    <3> QED BY <2>1, <3>1, <3>2, CurrentIs
  <2> QED BY <2>1, <2>2, <2>3 DEF M!Version
<1>4. NoRace' /\ ServesMigrated'
  BY <1>2 DEF DInv, M!Alter, NoRace, M!NoRace, ServesMigrated, M!ServesMigrated
<1> QED BY <1>1, <1>2, <1>3, <1>4 DEF DInv, M!Alter

LEMMA MigrationStarts ==
    ASSUME M!Init
    PROVE  DInv
<1>1. M!TypeOK /\ NoRace /\ ServesMigrated
  BY DEF M!Init, M!TypeOK, NoRace, M!NoRace, ServesMigrated, M!ServesMigrated
<1>2. \E v \in versions \cup {0} : \A w \in versions : w <= v
  BY DEF M!Init
<1> QED BY <1>1, <1>2 DEF M!Init, DInv

LEMMA MigrationMoves ==
    ASSUME DInv, M!Next
    PROVE  DInv' /\ columns \subseteq columns'
<1>1. ASSUME NEW m \in Migrator, NEW v \in M!Version, M!Deploy(m, v)
      PROVE  DInv' /\ columns \subseteq columns'
  BY <1>1, DeployStep DEF M!Deploy
<1>2. ASSUME NEW m \in Migrator, M!Lock(m) \/ M!Alter(m)
      PROVE  DInv' /\ columns \subseteq columns'
  BY <1>2, LockStep, AlterStep DEF M!Lock, M!Alter
<1>3. ASSUME NEW m \in Migrator, M!Leave(m) \/ M!Fail(m)
      PROVE  DInv' /\ columns \subseteq columns'
  BY <1>3, EndStep DEF M!Leave, M!Fail
<1>4. ASSUME NEW m \in Migrator, M!Commit(m)
      PROVE  DInv' /\ columns \subseteq columns'
  BY <1>4, CommitMigration
<1>5. ASSUME NEW a \in Instance, M!Stop(a)
      PROVE  DInv' /\ columns \subseteq columns'
  BY <1>5, StopStep DEF M!Stop
<1>6. ASSUME NEW a \in Instance, NEW v \in M!Version, M!Boot(a, v)
      PROVE  DInv' /\ columns \subseteq columns'
  BY <1>6, BootStep DEF M!Boot
<1> QED BY <1>1, <1>2, <1>3, <1>4, <1>5, <1>6 DEF M!Next

-----------------------------------------------------------------------------
(* Requests and migrations.                                                *)

(* Before the columns are there nobody has been served. *)
Untouched == Start /\ row = [e \in Place |-> "none"]

SInv ==
    /\ DInv
    /\ IF 1 \in columns THEN EInv ELSE Untouched

(* What an instance serves is served with the columns. *)
LEMMA ServedAfter ==
    ASSUME DInv, M!Serves
    PROVE  1 \in columns
<1>1. PICK a \in Instance : serving[a] # 0
  BY DEF M!Serves
<1>2. serving[a] \in Nat /\ 1 \in 1..serving[a]
  BY <1>1 DEF DInv, M!TypeOK, M!Version
<1> QED BY <1>2 DEF DInv, ServesMigrated, M!ServesMigrated

LEMMA ServiceStarts ==
    ASSUME ServiceInit
    PROVE  SInv
<1>1. DInv /\ columns = {}
  BY MigrationStarts DEF ServiceInit, M!Init
<1> QED BY <1>1 DEF ServiceInit, SInv, Untouched

(* The legacy is approved with the first columns, once. *)
LEMMA BackfillOnce ==
    ASSUME SInv, DeploymentStep
    PROVE  row' = IF 1 \in columns' /\ 1 \notin columns THEN Migrated ELSE row
  BY DEF DeploymentStep, Backfilled

LEMMA MigratedInv == Init' => EInv'
<1>1. Init => EInv
  BY EnrollmentStarts
<1> QED BY <1>1, PTL

LEMMA DeploymentMoves ==
    ASSUME SInv, DeploymentStep
    PROVE  SInv'
<1>1. DInv' /\ columns \subseteq columns'
  BY MigrationMoves DEF SInv, DeploymentStep
<1>2. UNCHANGED <<legacy, owner, log, lock, handler, since>>
  BY DEF DeploymentStep
<1>3. CASE 1 \in columns
  <2>1. EInv /\ UNCHANGED vars /\ 1 \in columns'
    BY <1>1, <1>2, <1>3, BackfillOnce DEF SInv
  <2> QED BY <1>1, <2>1, EnrollmentRests DEF SInv
<1>4. CASE 1 \notin columns /\ 1 \in columns'
  <2>1. Start' /\ row' = Migrated'
    BY <1>2, <1>4, BackfillOnce DEF SInv, Untouched, Start, Migrated
  <2>2. EInv'
    BY <2>1, MigratedInv DEF Init
  <2> QED BY <1>1, <1>4, <2>2 DEF SInv
<1>5. CASE 1 \notin columns'
  BY <1>1, <1>2, <1>5, BackfillOnce DEF SInv, Untouched, Start
<1> QED BY <1>3, <1>4, <1>5

LEMMA RequestMoves ==
    ASSUME SInv, RequestStep
    PROVE  SInv'
<1>1. UNCHANGED deployment /\ DInv
  BY DEF RequestStep, SInv
<1>2. DInv'
  BY <1>1 DEF DInv, M!TypeOK, NoRace, M!NoRace, ServesMigrated, M!ServesMigrated
<1>3. CASE M!Serves /\ Next
  <2>1. 1 \in columns
    BY <1>1, <1>3, ServedAfter
  <2> QED BY <1>1, <1>2, <1>3, <2>1, EnrollmentMoves DEF SInv
<1>4. ASSUME NEW r \in Request, Abort(r)
      PROVE  SInv'
  <2>1. pc[r] # "new"
    BY <1>4 DEF Abort
  <2>2. 1 \in columns
    BY <2>1 DEF SInv, Untouched, Start
  <2> QED BY <1>1, <1>2, <1>4, <2>2, AbortStep DEF SInv
<1> QED BY <1>3, <1>4 DEF RequestStep

LEMMA ServiceRests ==
    ASSUME SInv, UNCHANGED service
    PROVE  SInv'
<1>1. UNCHANGED vars /\ UNCHANGED deployment
  OBVIOUS
<1>2. DInv'
  BY <1>1 DEF SInv, DInv, M!TypeOK, NoRace, M!NoRace, ServesMigrated, M!ServesMigrated
<1>3. EInv => EInv'
  BY <1>1, EnrollmentRests
<1>4. Untouched => Untouched'
  BY <1>1 DEF Untouched, Start
<1> QED BY <1>1, <1>2, <1>3, <1>4 DEF SInv

(* Migrations keep out of each other's way, instances serve what has been  *)
(* migrated, and the enrollments are as Enrollment has them from the first *)
(* migration on.                                                           *)
THEOREM ServiceInvariant == ServiceSpec => []SInv
<1>1. SInv /\ [ServiceNext]_service => SInv'
  BY DeploymentMoves, RequestMoves, ServiceRests DEF ServiceNext
<1> QED BY ServiceStarts, <1>1, PTL DEF ServiceSpec

(* An instance that is up serves with all the columns its image knows,     *)
(* whatever is deployed while it does.                                     *)
THEOREM ServesWhatIsMigrated == ServiceSpec => []ServesMigrated
<1>1. SInv => ServesMigrated
  BY DEF SInv, DInv
<1> QED BY ServiceInvariant, <1>1, PTL

(* The advisory lock keeps two runs of migrate_db from adding one version. *)
THEOREM NoMigrationRaces == ServiceSpec => []NoRace
<1>1. SInv => NoRace
  BY DEF SInv, DInv
<1> QED BY ServiceInvariant, <1>1, PTL

(* What Enrollment promises holds before there is a status, too. *)
LEMMA ServicePromises ==
    ASSUME SInv
    PROVE  ServiceTypeOK /\ StandsAsDecided /\ AuditChain /\ AnswersTrue
<1>1. CASE 1 \in columns
  BY <1>1 DEF SInv, DInv, EInv, ServiceTypeOK
<1>2. CASE 1 \notin columns
  <2>1. TypeOK
    <3>1. Untouched
      BY <1>2 DEF SInv
    <3> QED BY <3>1 DEF Untouched, Start, TypeOK, Status
  <2>2. StandsAsDecided /\ AuditChain /\ AnswersTrue
    BY <1>2 DEF SInv, Untouched, Start, StandsAsDecided, AuditChain, AnswersTrue
  <2> QED BY <2>1, <2>2 DEF SInv, DInv, ServiceTypeOK
<1> QED BY <1>1, <1>2

(* The variables have the types that the two models declare. *)
THEOREM ServiceTypeCorrect == ServiceSpec => []ServiceTypeOK
  BY ServiceInvariant, ServicePromises, PTL

(* Decisions stand through every deployment: no migration overrules them.  *)
THEOREM ServiceDecided == ServiceSpec => []StandsAsDecided
  BY ServiceInvariant, ServicePromises, PTL

(* The audit of the decisions stays one history through deployments.       *)
THEOREM ServiceChain == ServiceSpec => []AuditChain
  BY ServiceInvariant, ServicePromises, PTL

(* Answers are true although instances are replaced while they are made.   *)
THEOREM ServiceAnswers == ServiceSpec => []AnswersTrue
  BY ServiceInvariant, ServicePromises, PTL

-----------------------------------------------------------------------------
(* Deployments are not seen from the outside.                              *)

LEMMA SameInput == E!Input = Input /\ E!Place = Place /\ E!Migrated = Migrated
  BY DEF E!Input, Input, E!Place, Place, E!Migrated, Migrated

LEMMA SameRequest ==
    ASSUME NEW r
    PROVE  /\ E!Of(r) = Of(r)
           /\ \A op, s : E!At(r, op, s) <=> At(r, op, s)
           /\ \A s : E!GoTo(r, s) <=> GoTo(r, s)
           /\ \A res : E!Return(r, res) <=> Return(r, res)
           /\ E!Release(r) <=> Release(r)
           /\ E!Acquire(r) <=> Acquire(r)
           /\ E!Visible(r) <=> Visible(r)
  BY DEF E!Of, Of, E!At, At, E!GoTo, GoTo, E!Return, Return, E!Release, Release,
         E!Acquire, Acquire, E!Visible, Visible, E!Place, Place

(* Once the columns are there, each handler does what it does in Enrollment. *)
LEMMA SameStep ==
    ASSUME 1 \in columns, UNCHANGED columns, NEW r \in Request, HandlerStep(r)
    PROVE  E!HandlerStep(r)
<1> DEFINE status == IF 1 \in columns THEN row ELSE Migrated
<1>1. status = row /\ status' = row'
  OBVIOUS
<1>2. ASSUME CourseMissing(r) PROVE E!CourseMissing(r)
  BY <1>1, <1>2, SameRequest, SameInput DEF CourseMissing, E!CourseMissing, E!postgres
<1>3. ASSUME CourseFound(r) PROVE E!CourseFound(r)
  BY <1>1, <1>3, SameRequest, SameInput DEF CourseFound, E!CourseFound, E!postgres
<1>4. ASSUME JoinRead(r) PROVE E!JoinRead(r)
  BY <1>1, <1>4, SameRequest, SameInput DEF JoinRead, E!JoinRead, E!postgres
<1>5. ASSUME JoinConflict(r) PROVE E!JoinConflict(r)
  BY <1>1, <1>5, SameRequest, SameInput DEF JoinConflict, E!JoinConflict, E!postgres
<1>6. ASSUME JoinFlush(r) PROVE E!JoinFlush(r)
  BY <1>1, <1>6, SameRequest, SameInput DEF JoinFlush, E!JoinFlush
<1>7. ASSUME JoinCommit(r) PROVE E!JoinCommit(r)
  BY <1>1, <1>7, SameRequest, SameInput DEF JoinCommit, E!JoinCommit, JoinStatus, E!JoinStatus
<1>8. ASSUME DecideMissing(r) PROVE E!DecideMissing(r)
  BY <1>1, <1>8, SameRequest, SameInput DEF DecideMissing, E!DecideMissing, E!postgres
<1>9. ASSUME DecideLock(r) PROVE E!DecideLock(r)
  BY <1>1, <1>9, SameRequest, SameInput DEF DecideLock, E!DecideLock
<1>10. ASSUME DecideCommit(r) PROVE E!DecideCommit(r)
  BY <1>1, <1>10, SameRequest, SameInput DEF DecideCommit, E!DecideCommit
<1> QED BY <1>2, <1>3, <1>4, <1>5, <1>6, <1>7, <1>8, <1>9, <1>10
        DEF HandlerStep, E!HandlerStep

LEMMA SameNext ==
    ASSUME 1 \in columns, UNCHANGED columns, Next
    PROVE  E!Next
<1> DEFINE status == IF 1 \in columns THEN row ELSE Migrated
<1>1. status = row /\ status' = row'
  OBVIOUS
<1>2. ASSUME NEW i \in Instructor, NEW c \in Course, CreateCourse(i, c)
      PROVE  E!Next
  <2>1. E!CreateCourse(i, c)
    BY <1>1, <1>2 DEF CreateCourse, E!CreateCourse, E!handler
  <2> QED BY <2>1 DEF E!Next
<1>3. ASSUME NEW r \in Request, HandlerStep(r)
      PROVE  E!Next
  BY <1>3, SameStep DEF E!Next
<1>4. ASSUME NEW r \in Request, Abort(r)
      PROVE  E!Next
  <2>1. E!Abort(r)
    BY <1>1, <1>4, SameRequest DEF Abort, E!Abort
  <2> QED BY <2>1 DEF E!Next
<1>5. ASSUME NEW r \in Request, NEW x \in Input, Submit(r, x)
      PROVE  E!Next
  <2>1. E!Submit(r, x)
    BY <1>1, <1>5 DEF Submit, E!Submit, E!postgres
  <2> QED BY <2>1, SameInput DEF E!Next
<1> QED BY <1>2, <1>3, <1>4, <1>5 DEF Next

LEMMA RefinedStart ==
    ASSUME ServiceInit
    PROVE  E!Init
<1>1. 1 \notin columns /\ Start
  BY DEF ServiceInit, M!Init
<1>2. E!Start
  BY <1>1, SameInput DEF Start, E!Start
<1> QED BY <1>1, <1>2, SameInput DEF E!Init

(* A migration that adds the columns writes what the old enrollments have  *)
(* counted as; any other leaves the requests and the tables alone.         *)
LEMMA RefinedDeployment ==
    ASSUME SInv, DeploymentStep
    PROVE  UNCHANGED E!vars
<1> DEFINE status == IF 1 \in columns THEN row ELSE Migrated
<1>1. UNCHANGED <<legacy, owner, log, lock, handler, since>> /\ Migrated' = Migrated
  BY DEF DeploymentStep, Migrated
<1>2. columns \subseteq columns'
  BY MigrationMoves DEF SInv, DeploymentStep
<1>3. status' = status
  BY <1>1, <1>2, BackfillOnce
<1> QED BY <1>1, <1>3 DEF E!vars, E!postgres, E!handler

LEMMA RefinedRequest ==
    ASSUME SInv, RequestStep
    PROVE  E!Next
<1>1. UNCHANGED columns
  BY DEF RequestStep
<1>2. 1 \in columns
  <2>1. CASE M!Serves
    BY <2>1, ServedAfter DEF SInv
  <2>2. CASE \E r \in Request : Abort(r)
    BY <2>2 DEF SInv, Untouched, Start, Abort
  <2> QED BY <2>1, <2>2 DEF RequestStep
<1>3. Next
  BY DEF RequestStep, Next
<1> QED BY <1>1, <1>2, <1>3, SameNext

LEMMA RefinedRest ==
    ASSUME UNCHANGED service
    PROVE  UNCHANGED E!vars
  BY DEF E!vars, E!postgres, E!handler, Migrated

(* Requests do in the middle of deployments what they do on a database     *)
(* that has always been migrated: Service implements Enrollment.           *)
THEOREM Implements == ServiceSpec => ImplementsEnrollment
<1>1. SInv /\ [ServiceNext]_service => [E!Next]_E!vars
  BY RefinedDeployment, RefinedRequest, RefinedRest DEF ServiceNext
<1> QED BY RefinedStart, ServiceInvariant, <1>1, PTL DEF ServiceSpec, ImplementsEnrollment, E!Spec

LEMMA ServiceApprovalStep ==
    ASSUME SInv, ServiceNext, NEW e \in Place, row[e] = "approved", row'[e] = "pending"
    PROVE  \E r \in Request : pc[r] = "commit" /\ Of(r) = e /\ since[r] < Len(log[e])
<1>1. 1 \in columns
  BY DEF SInv, Untouched
<1>2. RequestStep
  BY <1>1, BackfillOnce DEF ServiceNext
<1>3. EInv /\ Next
  BY <1>1, <1>2 DEF SInv, RequestStep, Next
<1> QED BY <1>3, ApprovalStep

(* No deployment takes an approval away.                                   *)
THEOREM ServiceApproval == ServiceSpec => ApprovalKept
<1> DEFINE A == \A e \in Place :
        row[e] = "approved" /\ row'[e] = "pending" =>
            \E r \in Request :
                pc[r] = "commit" /\ Of(r) = e /\ since[r] < Len(log[e])
<1>1. SInv /\ [ServiceNext]_service => [A]_vars
  BY ServiceApprovalStep
<1> QED BY ServiceInvariant, <1>1, PTL DEF ServiceSpec, ApprovalKept
=============================================================================
