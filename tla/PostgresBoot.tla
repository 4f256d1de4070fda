---------------------------- MODULE PostgresBoot ----------------------------
(***************************************************************************)
(* How the postgres instance starts (wrapper.sh): the first boot sets a    *)
(* data directory up, every later one skips the setup if it sees           *)
(* PG_VERSION.  The instance crashes at any step, the platform restarts it *)
(* (restart policy `always`), and only the volume survives.                *)
(***************************************************************************)
EXTENDS Integers

CONSTANT MaxCrashes   \* bound: crashes and failed steps

ASSUME CrashAssumption == MaxCrashes \in Nat

VARIABLES disk,     \* the data directory: "none" (no volume), "absent", "bare",
                    \* then "files", "version", "cluster": how far initdb got
          hba,      \* whether the network's line is in pg_hba.conf
          db,       \* whether the openfga database exists
          exists,   \* DATABASE_ALREADY_EXISTS: "" or "true"
          pc,       \* the next step of wrapper.sh; "off", "serving"
          crashes,  \* crashes so far
          cut       \* history: a setup stopped half-way, or initdb did

bootScript == <<exists, pc>>
data == <<disk, hba, db>>
vars == <<data, bootScript, crashes, cut>>

Setup == {"initdbRuns", "versionWritten", "hba", "temp", "createdb", "stop", "execNew"}

TypeOK ==
    /\ disk \in {"none", "absent", "bare", "files", "version", "cluster"}
    /\ hba \in BOOLEAN
    /\ db \in BOOLEAN
    /\ exists \in {"", "true"}
    /\ pc \in {"off", "env", "dirs", "initdb", "exec", "serving"} \cup Setup
    /\ crashes \in 0..MaxCrashes
    /\ cut \in BOOLEAN

Init ==
    /\ disk = "none"
    /\ hba = FALSE
    /\ db = FALSE
    /\ exists = ""
    /\ pc = "off"
    /\ crashes = 0
    /\ cut = FALSE

\* deploy.sh creates the volume before the instance; cleanup.sh deletes it
\* after the instance.
VolumeCreated ==
    /\ disk = "none"
    /\ disk' = "absent"
    /\ UNCHANGED <<hba, db, bootScript, crashes, cut>>

VolumeDeleted ==
    /\ disk # "none"
    /\ pc = "off"
    /\ crashes < MaxCrashes
    /\ crashes' = crashes + 1
    /\ disk' = "none"
    /\ hba' = FALSE
    /\ db' = FALSE
    /\ cut' = FALSE
    /\ UNCHANGED bootScript

Start ==
    /\ pc = "off"
    /\ disk # "none"
    /\ pc' = "env"
    /\ exists' = ""
    /\ UNCHANGED <<data, crashes, cut>>

\* Mutant: the check finds no database.
SetupEnvBlind ==
    /\ pc = "env"
    /\ exists' = ""
    /\ pc' = "dirs"
    /\ UNCHANGED <<data, crashes, cut>>

\* Mutant: exists holds what PG_VERSION holds.
SetupEnvVersion ==
    /\ pc = "env"
    /\ exists' = disk
    /\ pc' = "dirs"
    /\ UNCHANGED <<data, crashes, cut>>

docker_setup_env ==
    /\ pc = "env"
    /\ exists' = IF disk \in {"version", "cluster"} THEN "true" ELSE ""
    /\ pc' = "dirs"
    /\ UNCHANGED <<data, crashes, cut>>

docker_create_db_directories ==
    /\ pc = "dirs"
    /\ disk' = IF disk = "absent" THEN "bare" ELSE disk
    /\ pc' = IF exists = "true" THEN "exec" ELSE "initdb"
    /\ UNCHANGED <<hba, db, exists, crashes, cut>>

\* initdb fills an empty directory and refuses any other.
InitdbStarts ==
    /\ pc = "initdb"
    /\ disk = "bare"
    /\ disk' = "files"
    /\ pc' = "initdbRuns"
    /\ UNCHANGED <<hba, db, exists, crashes, cut>>

InitdbRefuses ==
    /\ pc = "initdb"
    /\ disk # "bare"
    /\ pc' = "off"
    /\ UNCHANGED <<data, exists, crashes, cut>>

\* PG_VERSION is written long before the cluster is complete.
InitdbWritesVersion ==
    /\ pc = "initdbRuns"
    /\ disk' = "version"
    /\ pc' = "versionWritten"
    /\ UNCHANGED <<hba, db, exists, crashes, cut>>

InitdbEnds ==
    /\ pc = "versionWritten"
    /\ disk' = "cluster"
    /\ pc' = "hba"
    /\ UNCHANGED <<hba, db, exists, crashes, cut>>

\* An initdb that fails, and is not killed, removes what it wrote.
InitdbFails ==
    /\ pc \in {"initdbRuns", "versionWritten"}
    /\ crashes < MaxCrashes
    /\ crashes' = crashes + 1
    /\ disk' = "bare"
    /\ pc' = "off"
    /\ UNCHANGED <<hba, db, exists, cut>>

pg_setup_hba_conf ==
    /\ pc = "hba"
    /\ hba' = TRUE
    /\ pc' = "temp"
    /\ UNCHANGED <<disk, db, exists, crashes, cut>>

docker_temp_server_start ==
    /\ pc = "temp"
    /\ pc' = "createdb"
    /\ UNCHANGED <<data, exists, crashes, cut>>

\* Mutant: the database is created only by the second boot.
SetupDbLater ==
    /\ pc = "createdb"
    /\ db' = (exists = "true")
    /\ pc' = "stop"
    /\ UNCHANGED <<disk, hba, exists, crashes, cut>>

docker_setup_db ==
    /\ pc = "createdb"
    /\ db' = TRUE
    /\ pc' = "stop"
    /\ UNCHANGED <<disk, hba, exists, crashes, cut>>

docker_temp_server_stop ==
    /\ pc = "stop"
    /\ pc' = "execNew"
    /\ UNCHANGED <<data, exists, crashes, cut>>

\* `exec postgres`: serves the network, or exits on an incomplete cluster.
Exec ==
    /\ pc \in {"exec", "execNew"}
    /\ pc' = IF disk = "cluster" THEN "serving" ELSE "off"
    /\ UNCHANGED <<data, exists, crashes, cut>>

\* A crash, a kill, or a step that fails (set -e).
Crash ==
    /\ pc # "off"
    /\ crashes < MaxCrashes
    /\ crashes' = crashes + 1
    /\ pc' = "off"
    /\ cut' = (cut \/ (pc \in Setup /\ ~db))
    /\ UNCHANGED <<data, exists>>

BootStep ==
    \/ Start
    \/ docker_setup_env
    \/ docker_create_db_directories
    \/ InitdbStarts
    \/ InitdbRefuses
    \/ InitdbWritesVersion
    \/ InitdbEnds
    \/ pg_setup_hba_conf
    \/ docker_temp_server_start
    \/ docker_setup_db
    \/ docker_temp_server_stop
    \/ Exec

Next ==
    \/ VolumeCreated
    \/ VolumeDeleted
    \/ BootStep
    \/ InitdbFails
    \/ Crash

Spec == Init /\ [][Next]_vars

\* The script runs and the platform restarts what exits.
FairSpec == Spec /\ WF_vars(BootStep) /\ WF_vars(VolumeCreated)

(***************************************************************************)
(* Properties                                                              *)
(***************************************************************************)

\* Unless a setup on this volume was cut short, PostgreSQL serves the network
\* only with the database and the network's pg_hba.conf line in place, whatever
\* crashed before and after (wrapper.sh:327-362).
ServesWhole == pc = "serving" /\ ~cut => db /\ hba

\* The steps of wrapper.sh are those of VolumeBoot: an outsider sees the setup
\* start, fail cleanly, complete or be cut off, and a server that comes up only
\* on a volume with data (wrapper.sh:290-363).
Boot == INSTANCE VolumeBoot WITH
    volume <- IF disk = "none" THEN "none"
              ELSE IF disk \in {"absent", "bare"} THEN "empty"
              ELSE IF db THEN "ready" ELSE "half",
    boot <- IF pc = "serving" THEN "serving"
            ELSE IF pc \in Setup THEN "initialising" ELSE "down"

BootAsPromised == Boot!BootSpec

\* A volume whose setup was not cut short ends up served, however often the
\* instance crashed before (wrapper.sh:193-207, 327-362).
ComesBack == <>[](pc = "serving" \/ cut)
=============================================================================
