------------------------- MODULE PostgresBootProofs -------------------------
(***************************************************************************)
(* Proofs about PostgresBoot, for any number of crashes.                   *)
(***************************************************************************)
EXTENDS PostgresBoot, TLAPS

Half == {"files", "version", "cluster"}

\* What each step of the script relies on: the steps of the setup run one after
\* the other in one boot, on a data directory that boot found empty.
StepsInv ==
    /\ pc = "initdb" => exists = "" /\ disk \in {"bare", "files"}
    /\ pc = "dirs" => (exists = "true" <=> disk \in {"version", "cluster"})
    /\ pc = "exec" => disk \in {"version", "cluster"}
    /\ pc = "initdbRuns" => disk = "files"
    /\ pc = "versionWritten" => disk = "version"
    /\ pc \in {"hba", "temp", "createdb", "stop", "execNew", "serving"} => disk = "cluster"
    /\ pc = "hba" => ~hba
    /\ pc \in {"temp", "createdb"} => hba /\ ~db
    /\ pc \in {"stop", "execNew"} => db
    /\ pc # "off" => disk # "none"

\* What is on the volume: the database comes last, and data without it means
\* that its setup is running or was cut short, for good.
DataInv ==
    /\ hba => disk = "cluster"
    /\ db => hba
    /\ disk \in Half /\ ~db => cut \/ pc \in Setup
    /\ cut => disk \in Half /\ ~db /\ pc \notin Setup

SetupInv == TypeOK /\ StepsInv /\ DataInv

LEMMA NoCrash == 0 \in 0..MaxCrashes
  BY CrashAssumption

LEMMA MayCrash == crashes \in 0..MaxCrashes /\ crashes < MaxCrashes => crashes + 1 \in 0..MaxCrashes
  BY CrashAssumption

LEMMA InitSetup == Init => SetupInv
  BY NoCrash, Zenon DEF Init, SetupInv, TypeOK, StepsInv, DataInv, Half, Setup

LEMMA NextSetup == SetupInv /\ [Next]_vars => SetupInv'
<1>. SUFFICES ASSUME SetupInv, [Next]_vars
              PROVE  SetupInv'
  OBVIOUS
<1>. USE DEF SetupInv, TypeOK, StepsInv, DataInv, Half, Setup, data, bootScript
<1>1. CASE UNCHANGED vars
  BY <1>1 DEF vars
<1>2. CASE VolumeCreated
  BY <1>2 DEF VolumeCreated
<1>3. CASE VolumeDeleted
  BY <1>3, MayCrash, Zenon DEF VolumeDeleted
<1>4. CASE Start
  BY <1>4 DEF Start
<1>5. CASE docker_setup_env
  BY <1>5 DEF docker_setup_env
<1>6. CASE docker_create_db_directories
  BY <1>6 DEF docker_create_db_directories
<1>7. CASE InitdbStarts
  BY <1>7 DEF InitdbStarts
<1>8. CASE InitdbRefuses
  BY <1>8 DEF InitdbRefuses
<1>9. CASE InitdbWritesVersion
  BY <1>9 DEF InitdbWritesVersion
<1>10. CASE InitdbEnds
  BY <1>10 DEF InitdbEnds
<1>11. CASE pg_setup_hba_conf
  BY <1>11 DEF pg_setup_hba_conf
<1>12. CASE docker_temp_server_start
  BY <1>12 DEF docker_temp_server_start
<1>13. CASE docker_setup_db
  BY <1>13 DEF docker_setup_db
<1>14. CASE docker_temp_server_stop
  BY <1>14 DEF docker_temp_server_stop
<1>15. CASE Exec
  BY <1>15 DEF Exec
<1>16. CASE InitdbFails
  BY <1>16, MayCrash, Zenon DEF InitdbFails
<1>17. CASE Crash
  BY <1>17, MayCrash, Zenon DEF Crash
<1>. QED
  BY <1>1, <1>2, <1>3, <1>4, <1>5, <1>6, <1>7, <1>8, <1>9, <1>10, <1>11,
     <1>12, <1>13, <1>14, <1>15, <1>16, <1>17
  DEF Next, BootStep

\* The invariant holds in every state the instance reaches.
LEMMA SetupInvariant == Spec => []SetupInv
  BY InitSetup, NextSetup, PTL DEF Spec

\* The variables of the start-up have their types (wrapper.sh:290-363).
THEOREM BootTyped == Spec => []TypeOK
<1>1. SetupInv => TypeOK
  BY DEF SetupInv
<1>. QED
  BY <1>1, SetupInvariant, PTL

\* PostgreSQL serves a volume whose setup was not cut short only with the
\* database and the pg_hba.conf line in place (wrapper.sh:327-362).
THEOREM ServedWhole == Spec => []ServesWhole
<1>1. SetupInv => ServesWhole
  BY DEF SetupInv, TypeOK, StepsInv, DataInv, ServesWhole, Half, Setup
<1>. QED
  BY <1>1, SetupInvariant, PTL

LEMMA BootInitMaps == Init => Boot!BootInit
  BY DEF Init, Boot!BootInit, Setup

\* Every step of wrapper.sh is one of VolumeBoot, or one no outsider sees.
LEMMA BootNextMaps == SetupInv /\ [Next]_vars => [Boot!BootNext]_(Boot!bootVars)
<1>. SUFFICES ASSUME SetupInv, [Next]_vars
              PROVE  Boot!BootNext \/ UNCHANGED Boot!bootVars
  BY DEF Boot!bootVars
<1>. USE DEF SetupInv, TypeOK, StepsInv, DataInv, Half, Setup, data, bootScript,
             Boot!bootVars
<1>1. CASE UNCHANGED vars
  BY <1>1 DEF vars
<1>2. CASE VolumeCreated
  BY <1>2 DEF VolumeCreated, Boot!BootNext, Boot!CreateVolume
<1>3. CASE VolumeDeleted
  BY <1>3 DEF VolumeDeleted, Boot!BootNext, Boot!DeleteVolume
<1>4. CASE Start \/ docker_setup_env \/ docker_create_db_directories \/ InitdbRefuses
  <2>1. CASE Start
    BY <2>1 DEF Start
  <2>2. CASE docker_setup_env
    BY <2>2 DEF docker_setup_env
  <2>3. CASE docker_create_db_directories
    BY <2>3 DEF docker_create_db_directories
  <2>4. CASE InitdbRefuses
    BY <2>4 DEF InitdbRefuses
  <2>. QED
    BY <1>4, <2>1, <2>2, <2>3, <2>4
<1>5. CASE InitdbStarts
  BY <1>5 DEF InitdbStarts, Boot!BootNext, Boot!StartSetup
<1>6. CASE \/ InitdbWritesVersion \/ InitdbEnds \/ pg_setup_hba_conf
           \/ docker_temp_server_start \/ docker_temp_server_stop
  <2>1. CASE InitdbWritesVersion
    BY <2>1 DEF InitdbWritesVersion
  <2>2. CASE InitdbEnds
    BY <2>2 DEF InitdbEnds
  <2>3. CASE pg_setup_hba_conf
    BY <2>3 DEF pg_setup_hba_conf
  <2>4. CASE docker_temp_server_start
    BY <2>4 DEF docker_temp_server_start
  <2>5. CASE docker_temp_server_stop
    BY <2>5 DEF docker_temp_server_stop
  <2>. QED
    BY <1>6, <2>1, <2>2, <2>3, <2>4, <2>5
<1>7. CASE docker_setup_db
  BY <1>7 DEF docker_setup_db, Boot!BootNext, Boot!CompleteSetup
<1>8. CASE Exec
  BY <1>8 DEF Exec, Boot!BootNext, Boot!Serve
<1>9. CASE InitdbFails
  BY <1>9 DEF InitdbFails, Boot!BootNext, Boot!UndoSetup
<1>10. CASE Crash
  BY <1>10 DEF Crash, Boot!BootNext, Boot!GoDown
<1>. QED
  BY <1>1, <1>2, <1>3, <1>4, <1>5, <1>6, <1>7, <1>8, <1>9, <1>10 DEF Next, BootStep

\* wrapper.sh implements VolumeBoot, which the deployment builds on
\* (wrapper.sh:290-363).
THEOREM BootRefines == Spec => BootAsPromised
<1>1. Init => Boot!BootInit
  BY BootInitMaps
<1>2. SetupInv /\ [Next]_vars => [Boot!BootNext]_(Boot!bootVars)
  BY BootNextMaps
<1>. QED
  BY <1>1, <1>2, SetupInvariant, PTL DEF Spec, BootAsPromised, Boot!BootSpec
=============================================================================
