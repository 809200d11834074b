------------------------------ MODULE Service ------------------------------
(***************************************************************************)
(* Enrollment and Migration together: an upgrade of a database that may    *)
(* hold courses and enrollments, and requests that are served as soon as   *)
(* an instance is up, during later deployments too.                        *)
(***************************************************************************)
EXTENDS Enrollment

CONSTANTS Migrator, Instance, Newest

ASSUME ServiceAssumption == Newest \in Nat /\ None \notin Migrator

VARIABLES versions, columns, advisory, image, step, serving

M == INSTANCE Migration

deployment == <<versions, columns, advisory, image, step, serving>>
service == <<vars, deployment>>

ServiceTypeOK == TypeOK /\ M!TypeOK

(* The old enrollments have no status yet. *)
ServiceInit ==
    /\ Start
    /\ row = [e \in Place |-> "none"]
    /\ M!Init

(* Every migration approves them. *)
BackfilledAgain == IF columns' # columns THEN Migrated ELSE row

(* ADD COLUMN IF NOT EXISTS status ... DEFAULT 'approved' *)
Backfilled == IF 1 \in columns' \ columns THEN Migrated ELSE row

DeploymentStep ==
    /\ M!Next
    /\ row' = Backfilled
    /\ UNCHANGED <<legacy, owner, log, lock, handler, since>>

(* Requests need an instance; when it goes, those under way are lost. *)
RequestStep ==
    /\ (M!Serves /\ Next) \/ \E r \in Request : Abort(r)
    /\ UNCHANGED deployment

ServiceNext == DeploymentStep \/ RequestStep

ServiceSpec == ServiceInit /\ [][ServiceNext]_service

-----------------------------------------------------------------------------
(* Properties.                                                             *)

(* The old enrollments count as approved before the migration says so. *)
E == INSTANCE Enrollment WITH row <- IF 1 \in columns THEN row ELSE Migrated

(* Deployments are not seen: what the requests do in the middle of them is *)
(* what they do on a database that has always been migrated.  No request   *)
(* meets the old tables and no migration undoes a decision (db.py:55).     *)
ImplementsEnrollment == E!Spec

(* No run of migrate_db fails because of another one. *)
NoRace == M!NoRace

(* An instance that serves finds the columns it knows of. *)
ServesMigrated == M!ServesMigrated
=============================================================================
