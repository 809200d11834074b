------------------------------ MODULE Migration ------------------------------
(***************************************************************************)
(* Deployments: migrate_db, run by the containers that migrate, and the    *)
(* check_schema of every application instance that starts.                 *)
(*                                                                         *)
(* An image is its MIGRATION_VERSION.  The repository has version 1; that  *)
(* of a later image stands for what migrate_db and check_schema do with a  *)
(* database that is newer or older than they are.  A migration adds what   *)
(* is missing of its version and of those before it.                       *)
(***************************************************************************)
EXTENDS Integers

CONSTANTS
    Migrator,   \* runs of migrate_db
    Instance,   \* application instances
    Newest,     \* the newest image there is
    None

Version == 1..Newest

VARIABLES
    \* Postgres
    versions,   \* rows of schema_migrations
    columns,    \* versions whose columns and indexes are there
    advisory,   \* who holds the advisory lock
    \* migrate_db
    image,      \* the version a run of it comes with, 0 before and after
    step,       \* its next step
    \* instances
    serving     \* the image an instance serves requests with, 0 for none

database == <<versions, columns, advisory>>
vars == <<database, image, step, serving>>

TypeOK ==
    /\ versions \subseteq Version
    /\ columns \subseteq Version
    /\ advisory \in Migrator \cup {None}
    /\ image \in [Migrator -> Version \cup {0}]
    /\ step \in [Migrator -> {"new", "lock", "read", "commit", "end", "conflict"}]
    /\ serving \in [Instance -> Version \cup {0}]

Init ==
    /\ versions = {}
    /\ columns = {}
    /\ advisory = None
    /\ image = [m \in Migrator |-> 0]
    /\ step = [m \in Migrator |-> "new"]
    /\ serving = [a \in Instance |-> 0]

(* SELECT max(version), 0 for NULL *)
Current == CHOOSE v \in versions \cup {0} : \A w \in versions : w <= v

-----------------------------------------------------------------------------
(* migrate_db: one transaction. *)

GoTo(m, s) == step' = [step EXCEPT ![m] = s]

(* The transaction is over, and with it the lock. *)
End(m, how) ==
    /\ GoTo(m, how)
    /\ image' = [image EXCEPT ![m] = 0]
    /\ advisory' = IF advisory = m THEN None ELSE advisory

Deploy(m, v) ==
    /\ step[m] = "new"
    /\ image' = [image EXCEPT ![m] = v]
    /\ GoTo(m, "lock")
    /\ UNCHANGED <<database, serving>>

(* The lock is left out. *)
LockNothing(m) ==
    /\ step[m] = "lock"
    /\ GoTo(m, "read")
    /\ UNCHANGED <<database, image, serving>>

Lock(m) ==
    /\ step[m] = "lock"
    /\ advisory = None
    /\ advisory' = m
    /\ GoTo(m, "read")
    /\ UNCHANGED <<versions, columns, image, serving>>

(* Nothing to do, or a RuntimeError: the database is newer. *)
Leave(m) ==
    /\ step[m] = "read"
    /\ Current >= image[m]
    /\ End(m, "end")
    /\ UNCHANGED <<versions, columns, serving>>

Alter(m) ==
    /\ step[m] = "read"
    /\ Current < image[m]
    /\ GoTo(m, "commit")
    /\ UNCHANGED <<database, image, serving>>

(* The version is a primary key. *)
Commit(m) ==
    /\ step[m] = "commit"
    /\ IF image[m] \in versions
         THEN End(m, "conflict") /\ UNCHANGED <<versions, columns>>
         ELSE /\ versions' = versions \cup {image[m]}
              /\ columns' = columns \cup 1..image[m]
              /\ End(m, "end")
    /\ UNCHANGED serving

(* A statement fails or the container dies: all of it is rolled back. *)
Fail(m) ==
    /\ step[m] \in {"lock", "read", "commit"}
    /\ End(m, "end")
    /\ UNCHANGED <<versions, columns, serving>>

-----------------------------------------------------------------------------
(* Instances. *)

(* Started without looking at the schema. *)
BootAny(a, v) ==
    /\ serving[a] = 0
    /\ serving' = [serving EXCEPT ![a] = v]
    /\ UNCHANGED <<database, image, step>>

(* lifespan: an instance whose check_schema fails does not come up. *)
Boot(a, v) ==
    /\ serving[a] = 0
    /\ Current = v
    /\ serving' = [serving EXCEPT ![a] = v]
    /\ UNCHANGED <<database, image, step>>

Stop(a) ==
    /\ serving[a] # 0
    /\ serving' = [serving EXCEPT ![a] = 0]
    /\ UNCHANGED <<database, image, step>>

Next ==
    \/ \E m \in Migrator :
        \/ \E v \in Version : Deploy(m, v)
        \/ Lock(m) \/ Leave(m) \/ Alter(m) \/ Commit(m) \/ Fail(m)
    \/ \E a \in Instance : Stop(a) \/ \E v \in Version : Boot(a, v)

Spec == Init /\ [][Next]_vars

Serves == \E a \in Instance : serving[a] # 0

-----------------------------------------------------------------------------
(* Properties. *)

(* "One transaction and advisory lock keep concurrent deploys from racing" *)
(* (db.py:27): no run of migrate_db fails because of another one.          *)
NoRace == \A m \in Migrator : step[m] # "conflict"

(* "Startup rejects a missing/newer schema" (docs/deployment.md:22): an    *)
(* instance that serves finds every column and index its image knows of,   *)
(* also when a newer image has been deployed since it started.             *)
ServesMigrated ==
    \A a \in Instance : 1..serving[a] \subseteq columns
=============================================================================
