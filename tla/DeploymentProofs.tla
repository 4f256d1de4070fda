-------------------------- MODULE DeploymentProofs --------------------------
(***************************************************************************)
(* The properties of Deployment, for every set of faults, every number of  *)
(* attempts of the migration and any number of models and edits.           *)
(***************************************************************************)
EXTENDS Deployment, TLAPS

(***************************************************************************)
(* Lookups in the two tables of steps.                                      *)
(***************************************************************************)
LEMMA FirstStep ==
    /\ \A g \in {"postgres", "backend", "all"} : First[g] = "volume"
    /\ First["migrate"] = "migrate" /\ First["openfga"] = "openfga" /\ First["api"] = "pin"
    /\ First["cleanup"] = "rmApi" /\ First["seed"] = "store"
BY DEF First

LEMMA Victims ==
    /\ DOMAIN Victim = {"rmApi", "rmOpenfga", "rmMigrate", "rmPostgres"}
    /\ Victim["rmApi"] = "api" /\ Victim["rmOpenfga"] = "openfga"
    /\ Victim["rmMigrate"] = "migrate" /\ Victim["rmPostgres"] = "postgres"
BY DEF Victim

LEMMA CleanupStepNames ==
    CleanupSteps = {"rmApi", "rmOpenfga", "rmMigrate", "rmPostgres", "rmService",
                    "rmVolume", "forget", "exit"}
BY Victims DEF CleanupSteps

LEMMA NextVictims ==
    ASSUME flags \subseteq {"service", "volume"}
    PROVE
    /\ pc = "rmApi" => NextVictim = "rmOpenfga"
    /\ pc = "rmOpenfga" => NextVictim = "rmMigrate"
    /\ pc = "rmMigrate" => NextVictim = "rmPostgres"
    /\ pc = "rmPostgres" => \/ NextVictim = "rmService"
                            \/ "service" \notin flags /\ NextVictim = "rmVolume"
                            \/ flags \cap {"service", "volume"} = {} /\ NextVictim = "exit"
    /\ pc = "rmService" => \/ NextVictim = "rmVolume"
                           \/ "volume" \notin flags /\ NextVictim = "exit"
<1>1. pc = "rmApi" => NextVictim = "rmOpenfga"
  BY DEF NextVictim
<1>2. pc = "rmOpenfga" => NextVictim = "rmMigrate"
  BY DEF NextVictim
<1>3. pc = "rmMigrate" => NextVictim = "rmPostgres"
  BY DEF NextVictim
<1>4. ASSUME pc = "rmPostgres"
      PROVE  \/ NextVictim = "rmService"
             \/ "service" \notin flags /\ NextVictim = "rmVolume"
             \/ flags \cap {"service", "volume"} = {} /\ NextVictim = "exit"
  <2>1. CASE "service" \in flags
    BY <1>4, <2>1 DEF NextVictim
  <2>2. CASE "service" \notin flags /\ "volume" \in flags
    BY <1>4, <2>2 DEF NextVictim
  <2>3. CASE "service" \notin flags /\ "volume" \notin flags
    <3>1. NextVictim = "exit"
      BY <1>4, <2>3 DEF NextVictim
    <3> QED
      BY <2>3, <3>1
  <2> QED
    BY <2>1, <2>2, <2>3
<1>5. ASSUME pc = "rmService"
      PROVE  \/ NextVictim = "rmVolume"
             \/ "volume" \notin flags /\ NextVictim = "exit"
  <2>1. CASE "volume" \in flags
    BY <1>5, <2>1 DEF NextVictim
  <2>2. CASE "volume" \notin flags
    BY <1>5, <2>2 DEF NextVictim
  <2> QED
    BY <2>1, <2>2
<1> QED
  BY <1>1, <1>2, <1>3, <1>4, <1>5

(***************************************************************************)
(* The inductive invariant, in parts.                                       *)
(***************************************************************************)
Control ==
    /\ BootTypeOK
    /\ instances \subseteq Names
    /\ service \in BOOLEAN
    /\ migration \in {"none", "running", "ok", "failed"}
    /\ migrated \in BOOLEAN
    /\ store \in BOOLEAN
    /\ goal \in Targets \cup {"cleanup", "seed"}
    /\ flags \subseteq {"service", "volume"}
    /\ pc \in {"idle"} \cup DeploySteps \cup CleanupSteps \cup SeedSteps
    /\ code \in {"none", "ok", "failed"}
    /\ failed \in BOOLEAN
    /\ done \in {"none", "ok", "failed"}
    /\ missed \in BOOLEAN

Attempts ==
    /\ attempts \in 0 .. MaxAttempts
    /\ pc = "migrate" => attempts < MaxAttempts
    /\ pc \in {"volume", "postgres"} => attempts = 0

\* Ids of models count the models ever written; a version is never of the future.
Models ==
    /\ written \in Seq(1 .. MaxEdits)
    /\ lost \in 0 .. Len(written)
    /\ source \in 1 .. MaxEdits
    /\ pinFile \in 0 .. Len(written)
    /\ apiPin \in 0 .. Len(written)
    /\ modelId \in 0 .. Len(written)
    /\ \A i \in 1 .. Len(written) : written[i] <= source

\* A script is at a step of its own.
OnPath ==
    /\ pc \in {"volume", "postgres"} => goal \in {"postgres"} \cup Whole
    /\ pc \in {"migrate", "await", "drop"} => goal \in {"migrate"} \cup Whole
    /\ pc = "openfga" => goal \in {"openfga"} \cup Whole
    /\ pc \in {"pin", "service", "api"} => goal \in {"api", "all"}
    /\ pc \in CleanupSteps => goal = "cleanup"
    /\ pc \in SeedSteps => goal = "seed"

\* What a deploy has done by each of its steps.
Deployed ==
    /\ goal \in Whole /\ pc \in {"migrate", "await", "drop", "openfga", "pin", "service", "api"}
           => "postgres" \in instances
    /\ pc = "await" /\ migration = "ok" => migrated
    /\ pc = "drop" /\ code = "ok" => migrated
    /\ goal \in Whole /\ pc \in {"openfga", "pin", "service", "api"}
           => migrated /\ "migrate" \notin instances
    /\ goal = "all" /\ pc \in {"pin", "service", "api"} => "openfga" \in instances
    /\ pc = "api" => service
    /\ pc \in {"service", "api"} => modelId = pinFile

AfterApi == {"rmOpenfga", "rmMigrate", "rmPostgres", "rmService", "rmVolume", "forget", "exit"}

\* What a cleanup has deleted by each of its steps, as far as it knows.
Cleaned ==
    goal = "cleanup" /\ ~missed /\ ~failed =>
        /\ pc \in AfterApi => "api" \notin instances
        /\ pc \in AfterApi \ {"rmOpenfga"} => "openfga" \notin instances
        /\ pc \in AfterApi \ {"rmOpenfga", "rmMigrate"} => "migrate" \notin instances
        /\ pc \in {"rmService", "rmVolume", "forget", "exit"} => "postgres" \notin instances
        /\ pc \in {"rmVolume", "forget", "exit"} /\ "service" \in flags => ~service
        /\ pc \in {"forget", "exit"} /\ "volume" \in flags => volume = "none"

\* What a seed knows of the store's latest model.
Seeded ==
    /\ pc = "record" => modelId = Latest /\ Latest # 0
    /\ pc = "write" /\ ~missed /\ Latest # 0 => written[Latest] < source

IInv == Control /\ Attempts /\ Models /\ OnPath /\ Deployed /\ Cleaned /\ Seeded

LEMMA LatestWritten ==
    ASSUME Models
    PROVE  /\ Latest \in 0 .. Len(written)
           /\ Latest # 0 => written[Latest] \in 1 .. MaxEdits /\ written[Latest] <= source
BY DeploymentAssumption DEF Models, Latest

\* Types of everything but the counters and the ids.
LEMMA NextControl ==
    ASSUME Control, [Next]_vars
    PROVE  Control'
<1> USE CleanupStepNames DEF Go, Fail, fileVars, scriptVars, cloudVars, bootVars,
   Control, BootTypeOK, Names, Whole, Targets, DeploySteps, SeedSteps
<1>1. ASSUME NEW g \in Targets \cup {"cleanup", "seed"}, NEW f \in SUBSET {"service", "volume"},
               Begin(g, f)
      PROVE  Control'
  <2>1. First[g] \in {"volume", "migrate", "openfga", "pin", "rmApi", "store"}
    BY FirstStep DEF Targets, Whole
  <2>2. pc' = First[g] /\ goal' = g /\ flags' = f /\ code' = "none" /\ failed' = FALSE
        /\ done' = "none" /\ missed' = FALSE /\ UNCHANGED <<bootVars, cloudVars>>
    BY <1>1 DEF Begin
  <2>3. pc' \in {"idle"} \cup DeploySteps \cup CleanupSteps \cup SeedSteps
    BY <2>1, <2>2
  <2>4. goal' \in Targets \cup {"cleanup", "seed"} /\ flags' \subseteq {"service", "volume"}
    BY <2>2
  <2> QED
    BY <2>2, <2>3, <2>4
<1>2. CASE Interrupt
  BY <1>2 DEF Interrupt
<1>3. CASE EnsureVolume
  BY <1>3 DEF EnsureVolume, CreateVolume
<1>4. CASE VolumeMissed
  BY <1>4 DEF VolumeMissed
<1>5. CASE Refused
  BY <1>5 DEF Refused
<1>6. CASE RunPostgres
  BY <1>6 DEF RunPostgres
<1>7. CASE RunMigrate
  BY <1>7 DEF RunMigrate
<1>8. CASE ReadExitCode
  BY <1>8 DEF ReadExitCode
<1>9. CASE DropMigrate
  BY <1>9 DEF DropMigrate
<1>10. CASE RunOpenfga
  BY <1>10 DEF RunOpenfga
<1>11. CASE ReadPin
  BY <1>11 DEF ReadPin
<1>12. CASE EnsureService
  BY <1>12 DEF EnsureService
<1>13. CASE ServiceMissed
  BY <1>13 DEF ServiceMissed
<1>14. CASE RunApi
  BY <1>14 DEF RunApi
<1>15. CASE RemoveInstance
  <2>1. pc' \in CleanupSteps /\ UNCHANGED done
    BY <1>15, Victims, NextVictims DEF RemoveInstance
  <2>2. /\ instances' \subseteq instances /\ boot' \in {boot, "down"}
        /\ migration' \in {migration, "none"}
    <3>1. CASE Delete(Victim[pc])
      BY <3>1 DEF Delete
    <3>2. CASE UNCHANGED <<instances, boot, migration, apiPin>>
      BY <3>2
    <3> QED
      BY <1>15, <3>1, <3>2 DEF RemoveInstance
  <2>3. failed' \in BOOLEAN /\ missed' \in BOOLEAN
    BY <1>15 DEF RemoveInstance, Miss
  <2>4. UNCHANGED <<volume, service, migrated, store, goal, flags, code>>
    BY <1>15 DEF RemoveInstance
  <2> QED
    BY <2>1, <2>2, <2>3, <2>4
<1>16. CASE RemoveService
  <2>1. pc' \in CleanupSteps /\ UNCHANGED done
    BY <1>16, NextVictims DEF RemoveService
  <2>2. service' \in BOOLEAN /\ failed' \in BOOLEAN /\ missed' \in BOOLEAN
    BY <1>16 DEF RemoveService, Miss
  <2>3. UNCHANGED <<bootVars, instances, migration, migrated, store, goal, flags, code>>
    BY <1>16 DEF RemoveService
  <2> QED
    BY <2>1, <2>2, <2>3
<1>17. CASE RemoveVolume
  <2>1. pc' \in CleanupSteps /\ UNCHANGED done
    BY <1>17 DEF RemoveVolume
  <2>2. BootTypeOK' /\ migrated' \in BOOLEAN /\ store' \in BOOLEAN
    <3>1. CASE Wipe
      BY <3>1 DEF Wipe, DeleteVolume
    <3>2. CASE Keep
      BY <3>2 DEF Keep
    <3> QED
      BY <1>17, <3>1, <3>2 DEF RemoveVolume
  <2>3. failed' \in BOOLEAN /\ missed' \in BOOLEAN
    BY <1>17 DEF RemoveVolume, Miss
  <2>4. UNCHANGED <<instances, service, migration, goal, flags, code>>
    BY <1>17 DEF RemoveVolume
  <2> QED
    BY <2>1, <2>2, <2>3, <2>4
<1>18. CASE ForgetPin
  BY <1>18 DEF ForgetPin
<1>19. CASE CleanupExits
  BY <1>19 DEF CleanupExits
<1>20. CASE Unreachable
  BY <1>20 DEF Unreachable
<1>21. CASE FindOrCreateStore
  BY <1>21 DEF FindOrCreateStore
<1>22. CASE CompareLatest
  <2>1. pc' \in SeedSteps /\ UNCHANGED done
    BY <1>22 DEF CompareLatest
  <2>2. missed' \in BOOLEAN
    BY <1>22 DEF CompareLatest, Miss
  <2> QED
    BY <1>22, <2>1, <2>2 DEF CompareLatest
<1>23. CASE WriteModel
  BY <1>23 DEF WriteModel
<1>24. CASE RecordModel
  BY <1>24 DEF RecordModel
<1>25. CASE MigrationEnds
  <2>1. migrated' \in BOOLEAN /\ migration' \in {"ok", "failed"}
    BY <1>25 DEF MigrationEnds
  <2> QED
    BY <1>25, <2>1 DEF MigrationEnds
<1>26. CASE PostgresRuns
  BY <1>26 DEF PostgresRuns, StartSetup, UndoSetup, CompleteSetup, Serve, GoDown
<1>27. CASE EditModels
  BY <1>27 DEF EditModels
<1>28. CASE DeleteVolumeByHand
  BY <1>28 DEF DeleteVolumeByHand, Wipe, DeleteVolume
<1>29. CASE UNCHANGED vars
  BY <1>29 DEF vars
<1> QED
  BY <1>1, <1>2, <1>3, <1>4, <1>5, <1>6, <1>7, <1>8, <1>9, <1>10, <1>11, <1>12, <1>13,
     <1>14, <1>15, <1>16, <1>17, <1>18, <1>19, <1>20, <1>21, <1>22, <1>23, <1>24, <1>25,
     <1>26, <1>27, <1>28, <1>29
  DEF Next, BeginAny, ScriptNext, DeployNext, CleanupNext, SeedNext, Targets, Whole

\* The migration is never started more than MaxAttempts times.
LEMMA NextAttempts ==
    ASSUME Control, Attempts, [Next]_vars
    PROVE  Attempts'
<1> USE DeploymentAssumption DEF Go, Fail, fileVars, scriptVars, cloudVars, bootVars,
   Attempts
<1>1. ASSUME NEW g \in Targets \cup {"cleanup", "seed"}, NEW f \in SUBSET {"service", "volume"},
               Begin(g, f)
      PROVE  Attempts'
  BY <1>1, FirstStep DEF Begin, Targets, Whole
<1>2. CASE Interrupt
  BY <1>2 DEF Interrupt
<1>3. CASE EnsureVolume
  BY <1>3 DEF EnsureVolume, CreateVolume
<1>4. CASE VolumeMissed
  BY <1>4 DEF VolumeMissed
<1>5. CASE Refused
  BY <1>5 DEF Refused
<1>6. CASE RunPostgres
  BY <1>6 DEF RunPostgres
<1>7. CASE RunMigrate
  BY <1>7 DEF RunMigrate
<1>8. CASE ReadExitCode
  BY <1>8 DEF ReadExitCode
<1>9. CASE DropMigrate
  BY <1>9 DEF DropMigrate
<1>10. CASE RunOpenfga
  BY <1>10 DEF RunOpenfga
<1>11. CASE ReadPin
  BY <1>11 DEF ReadPin
<1>12. CASE EnsureService
  BY <1>12 DEF EnsureService
<1>13. CASE ServiceMissed
  BY <1>13 DEF ServiceMissed
<1>14. CASE RunApi
  BY <1>14 DEF RunApi
<1>15. CASE RemoveInstance
  BY <1>15, Victims, NextVictims DEF RemoveInstance, Delete, Miss, Control
<1>16. CASE RemoveService
  BY <1>16, NextVictims DEF RemoveService, Miss, Control
<1>17. CASE RemoveVolume
  BY <1>17 DEF RemoveVolume, Wipe, Keep, Miss, DeleteVolume
<1>18. CASE ForgetPin
  BY <1>18 DEF ForgetPin
<1>19. CASE CleanupExits
  BY <1>19 DEF CleanupExits
<1>20. CASE Unreachable
  BY <1>20 DEF Unreachable
<1>21. CASE FindOrCreateStore
  BY <1>21 DEF FindOrCreateStore
<1>22. CASE CompareLatest
  BY <1>22 DEF CompareLatest, Miss
<1>23. CASE WriteModel
  BY <1>23 DEF WriteModel
<1>24. CASE RecordModel
  BY <1>24 DEF RecordModel
<1>25. CASE MigrationEnds
  BY <1>25 DEF MigrationEnds
<1>26. CASE PostgresRuns
  BY <1>26 DEF PostgresRuns, StartSetup, UndoSetup, CompleteSetup, Serve, GoDown
<1>27. CASE EditModels
  BY <1>27 DEF EditModels
<1>28. CASE DeleteVolumeByHand
  BY <1>28 DEF DeleteVolumeByHand, Wipe, DeleteVolume
<1>29. CASE UNCHANGED vars
  BY <1>29 DEF vars
<1> QED
  BY <1>1, <1>2, <1>3, <1>4, <1>5, <1>6, <1>7, <1>8, <1>9, <1>10, <1>11, <1>12, <1>13,
     <1>14, <1>15, <1>16, <1>17, <1>18, <1>19, <1>20, <1>21, <1>22, <1>23, <1>24, <1>25,
     <1>26, <1>27, <1>28, <1>29
  DEF Next, BeginAny, ScriptNext, DeployNext, CleanupNext, SeedNext, Targets, Whole

\* Every id that is held is that of a model ever written.
LEMMA NextModels ==
    ASSUME Models, [Next]_vars
    PROVE  Models'
<1> USE DeploymentAssumption DEF Go, Fail, fileVars, scriptVars, cloudVars, bootVars, Models
<1>1. ASSUME NEW g \in Targets \cup {"cleanup", "seed"}, NEW f \in SUBSET {"service", "volume"},
               Begin(g, f)
      PROVE  Models'
  BY <1>1, FirstStep DEF Begin, Targets, Whole
<1>2. CASE Interrupt
  BY <1>2 DEF Interrupt
<1>3. CASE EnsureVolume
  BY <1>3 DEF EnsureVolume, CreateVolume
<1>4. CASE VolumeMissed
  BY <1>4 DEF VolumeMissed
<1>5. CASE Refused
  BY <1>5 DEF Refused
<1>6. CASE RunPostgres
  BY <1>6 DEF RunPostgres
<1>7. CASE RunMigrate
  BY <1>7 DEF RunMigrate
<1>8. CASE ReadExitCode
  BY <1>8 DEF ReadExitCode
<1>9. CASE DropMigrate
  BY <1>9 DEF DropMigrate
<1>10. CASE RunOpenfga
  BY <1>10 DEF RunOpenfga
<1>11. CASE ReadPin
  BY <1>11 DEF ReadPin
<1>12. CASE EnsureService
  BY <1>12 DEF EnsureService
<1>13. CASE ServiceMissed
  BY <1>13 DEF ServiceMissed
<1>14. CASE RunApi
  BY <1>14 DEF RunApi
<1>15. CASE RemoveInstance
  BY <1>15, Victims, NextVictims DEF RemoveInstance, Delete, Miss, Control
<1>16. CASE RemoveService
  BY <1>16, NextVictims DEF RemoveService, Miss, Control
<1>17. CASE RemoveVolume
  BY <1>17 DEF RemoveVolume, Wipe, Keep, Miss, DeleteVolume
<1>18. CASE ForgetPin
  BY <1>18 DEF ForgetPin
<1>19. CASE CleanupExits
  BY <1>19 DEF CleanupExits
<1>20. CASE Unreachable
  BY <1>20 DEF Unreachable
<1>21. CASE FindOrCreateStore
  BY <1>21 DEF FindOrCreateStore
<1>22. CASE CompareLatest
  <2>1. modelId' \in {0, Latest} /\ UNCHANGED <<written, lost, source, pinFile, apiPin>>
    BY <1>22 DEF CompareLatest
  <2> QED
    BY <2>1, LatestWritten
<1>23. CASE WriteModel
  BY <1>23 DEF WriteModel
<1>24. CASE RecordModel
  BY <1>24 DEF RecordModel
<1>25. CASE MigrationEnds
  BY <1>25 DEF MigrationEnds
<1>26. CASE PostgresRuns
  BY <1>26 DEF PostgresRuns, StartSetup, UndoSetup, CompleteSetup, Serve, GoDown
<1>27. CASE EditModels
  <2>1. source' = source + 1 /\ source' \in 1 .. MaxEdits
        /\ UNCHANGED <<written, lost, pinFile, apiPin, modelId>>
    BY <1>27 DEF EditModels
  <2>2. ASSUME NEW i \in 1 .. Len(written)  PROVE written[i] <= source'
    BY <2>1
  <2> QED
    BY <2>1, <2>2
<1>28. CASE DeleteVolumeByHand
  BY <1>28 DEF DeleteVolumeByHand, Wipe, DeleteVolume
<1>29. CASE UNCHANGED vars
  BY <1>29 DEF vars
<1> QED
  BY <1>1, <1>2, <1>3, <1>4, <1>5, <1>6, <1>7, <1>8, <1>9, <1>10, <1>11, <1>12, <1>13,
     <1>14, <1>15, <1>16, <1>17, <1>18, <1>19, <1>20, <1>21, <1>22, <1>23, <1>24, <1>25,
     <1>26, <1>27, <1>28, <1>29
  DEF Next, BeginAny, ScriptNext, DeployNext, CleanupNext, SeedNext, Targets, Whole

\* Only the script that owns a step is at it.
LEMMA NextOnPath ==
    ASSUME Control, OnPath, [Next]_vars
    PROVE  OnPath'
<1> USE CleanupStepNames DEF Go, Fail, fileVars, scriptVars, cloudVars, bootVars,
   OnPath, Whole, SeedSteps
<1>1. ASSUME NEW g \in Targets \cup {"cleanup", "seed"}, NEW f \in SUBSET {"service", "volume"},
               Begin(g, f)
      PROVE  OnPath'
  BY <1>1, FirstStep DEF Begin, Targets, Whole
<1>2. CASE Interrupt
  BY <1>2 DEF Interrupt
<1>3. CASE EnsureVolume
  BY <1>3 DEF EnsureVolume, CreateVolume
<1>4. CASE VolumeMissed
  BY <1>4 DEF VolumeMissed
<1>5. CASE Refused
  BY <1>5 DEF Refused
<1>6. CASE RunPostgres
  BY <1>6 DEF RunPostgres
<1>7. CASE RunMigrate
  BY <1>7 DEF RunMigrate
<1>8. CASE ReadExitCode
  BY <1>8 DEF ReadExitCode
<1>9. CASE DropMigrate
  BY <1>9 DEF DropMigrate
<1>10. CASE RunOpenfga
  BY <1>10 DEF RunOpenfga
<1>11. CASE ReadPin
  BY <1>11 DEF ReadPin
<1>12. CASE EnsureService
  BY <1>12 DEF EnsureService
<1>13. CASE ServiceMissed
  BY <1>13 DEF ServiceMissed
<1>14. CASE RunApi
  BY <1>14 DEF RunApi
<1>15. CASE RemoveInstance
  BY <1>15, Victims, NextVictims DEF RemoveInstance, Delete, Miss, Control
<1>16. CASE RemoveService
  BY <1>16, NextVictims DEF RemoveService, Miss, Control
<1>17. CASE RemoveVolume
  BY <1>17 DEF RemoveVolume, Wipe, Keep, Miss, DeleteVolume
<1>18. CASE ForgetPin
  BY <1>18 DEF ForgetPin
<1>19. CASE CleanupExits
  BY <1>19 DEF CleanupExits
<1>20. CASE Unreachable
  BY <1>20 DEF Unreachable
<1>21. CASE FindOrCreateStore
  BY <1>21 DEF FindOrCreateStore
<1>22. CASE CompareLatest
  BY <1>22 DEF CompareLatest, Miss
<1>23. CASE WriteModel
  BY <1>23 DEF WriteModel
<1>24. CASE RecordModel
  BY <1>24 DEF RecordModel
<1>25. CASE MigrationEnds
  BY <1>25 DEF MigrationEnds
<1>26. CASE PostgresRuns
  BY <1>26 DEF PostgresRuns, StartSetup, UndoSetup, CompleteSetup, Serve, GoDown
<1>27. CASE EditModels
  BY <1>27 DEF EditModels
<1>28. CASE DeleteVolumeByHand
  BY <1>28 DEF DeleteVolumeByHand, Wipe, DeleteVolume
<1>29. CASE UNCHANGED vars
  BY <1>29 DEF vars
<1> QED
  BY <1>1, <1>2, <1>3, <1>4, <1>5, <1>6, <1>7, <1>8, <1>9, <1>10, <1>11, <1>12, <1>13,
     <1>14, <1>15, <1>16, <1>17, <1>18, <1>19, <1>20, <1>21, <1>22, <1>23, <1>24, <1>25,
     <1>26, <1>27, <1>28, <1>29
  DEF Next, BeginAny, ScriptNext, DeployNext, CleanupNext, SeedNext, Targets, Whole

\* A deploy keeps what it has done until it ends: nothing else deletes an
\* instance or the schema while it runs.
LEMMA NextDeployed ==
    ASSUME Control, OnPath, Deployed, [Next]_vars
    PROVE  Deployed'
<1> USE DEF Go, Fail, fileVars, scriptVars, cloudVars, bootVars, Deployed, Whole
<1>1. ASSUME NEW g \in Targets \cup {"cleanup", "seed"}, NEW f \in SUBSET {"service", "volume"},
               Begin(g, f)
      PROVE  Deployed'
  BY <1>1, FirstStep DEF Begin, Targets, Whole
<1>2. CASE Interrupt
  BY <1>2 DEF Interrupt
<1>3. CASE EnsureVolume
  BY <1>3 DEF EnsureVolume, CreateVolume
<1>4. CASE VolumeMissed
  BY <1>4 DEF VolumeMissed
<1>5. CASE Refused
  BY <1>5 DEF Refused
<1>6. CASE RunPostgres
  BY <1>6 DEF RunPostgres
<1>7. CASE RunMigrate
  BY <1>7 DEF RunMigrate
<1>8. CASE ReadExitCode
  BY <1>8 DEF ReadExitCode
<1>9. CASE DropMigrate
  BY <1>9 DEF DropMigrate
<1>10. CASE RunOpenfga
  BY <1>10 DEF RunOpenfga
<1>11. CASE ReadPin
  BY <1>11 DEF ReadPin
<1>12. CASE EnsureService
  BY <1>12 DEF EnsureService
<1>13. CASE ServiceMissed
  BY <1>13 DEF ServiceMissed
<1>14. CASE RunApi
  BY <1>14 DEF RunApi
<1>15. CASE RemoveInstance
  BY <1>15, Victims, NextVictims DEF RemoveInstance, Delete, Miss, Control
<1>16. CASE RemoveService
  BY <1>16, NextVictims DEF RemoveService, Miss, Control
<1>17. CASE RemoveVolume
  BY <1>17 DEF RemoveVolume, Wipe, Keep, Miss, DeleteVolume
<1>18. CASE ForgetPin
  BY <1>18 DEF ForgetPin
<1>19. CASE CleanupExits
  BY <1>19 DEF CleanupExits
<1>20. CASE Unreachable
  BY <1>20 DEF Unreachable
<1>21. CASE FindOrCreateStore
  BY <1>21 DEF FindOrCreateStore
<1>22. CASE CompareLatest
  BY <1>22 DEF CompareLatest, Miss
<1>23. CASE WriteModel
  BY <1>23 DEF WriteModel
<1>24. CASE RecordModel
  BY <1>24 DEF RecordModel
<1>25. CASE MigrationEnds
  BY <1>25 DEF MigrationEnds
<1>26. CASE PostgresRuns
  BY <1>26 DEF PostgresRuns, StartSetup, UndoSetup, CompleteSetup, Serve, GoDown
<1>27. CASE EditModels
  BY <1>27 DEF EditModels
<1>28. CASE DeleteVolumeByHand
  BY <1>28 DEF DeleteVolumeByHand, Wipe, DeleteVolume
<1>29. CASE UNCHANGED vars
  BY <1>29 DEF vars
<1> QED
  BY <1>1, <1>2, <1>3, <1>4, <1>5, <1>6, <1>7, <1>8, <1>9, <1>10, <1>11, <1>12, <1>13,
     <1>14, <1>15, <1>16, <1>17, <1>18, <1>19, <1>20, <1>21, <1>22, <1>23, <1>24, <1>25,
     <1>26, <1>27, <1>28, <1>29
  DEF Next, BeginAny, ScriptNext, DeployNext, CleanupNext, SeedNext, Targets, Whole

\* A cleanup that missed nothing and failed nowhere has deleted what it passed.
LEMMA NextCleaned ==
    ASSUME Control, OnPath, Cleaned, [Next]_vars
    PROVE  Cleaned'
<1> USE DEF Go, Fail, fileVars, scriptVars, cloudVars, bootVars, Cleaned, AfterApi
<1>1. ASSUME NEW g \in Targets \cup {"cleanup", "seed"}, NEW f \in SUBSET {"service", "volume"},
               Begin(g, f)
      PROVE  Cleaned'
  BY <1>1, FirstStep DEF Begin, Targets, Whole
<1>2. CASE Interrupt
  BY <1>2 DEF Interrupt
<1>3. CASE EnsureVolume
  BY <1>3 DEF EnsureVolume, CreateVolume
<1>4. CASE VolumeMissed
  BY <1>4 DEF VolumeMissed
<1>5. CASE Refused
  BY <1>5 DEF Refused
<1>6. CASE RunPostgres
  BY <1>6 DEF RunPostgres
<1>7. CASE RunMigrate
  BY <1>7 DEF RunMigrate
<1>8. CASE ReadExitCode
  BY <1>8 DEF ReadExitCode
<1>9. CASE DropMigrate
  BY <1>9 DEF DropMigrate
<1>10. CASE RunOpenfga
  BY <1>10 DEF RunOpenfga
<1>11. CASE ReadPin
  BY <1>11 DEF ReadPin
<1>12. CASE EnsureService
  BY <1>12 DEF EnsureService
<1>13. CASE ServiceMissed
  BY <1>13 DEF ServiceMissed
<1>14. CASE RunApi
  BY <1>14 DEF RunApi
<1>15. CASE RemoveInstance
  BY <1>15, Victims, NextVictims DEF RemoveInstance, Delete, Miss, Control
<1>16. CASE RemoveService
  BY <1>16, NextVictims DEF RemoveService, Miss, Control
<1>17. CASE RemoveVolume
  BY <1>17 DEF RemoveVolume, Wipe, Keep, Miss, DeleteVolume
<1>18. CASE ForgetPin
  BY <1>18 DEF ForgetPin
<1>19. CASE CleanupExits
  BY <1>19 DEF CleanupExits
<1>20. CASE Unreachable
  BY <1>20 DEF Unreachable
<1>21. CASE FindOrCreateStore
  BY <1>21 DEF FindOrCreateStore
<1>22. CASE CompareLatest
  BY <1>22 DEF CompareLatest, Miss
<1>23. CASE WriteModel
  BY <1>23 DEF WriteModel
<1>24. CASE RecordModel
  BY <1>24 DEF RecordModel
<1>25. CASE MigrationEnds
  BY <1>25 DEF MigrationEnds
<1>26. CASE PostgresRuns
  BY <1>26 DEF PostgresRuns, StartSetup, UndoSetup, CompleteSetup, Serve, GoDown
<1>27. CASE EditModels
  BY <1>27 DEF EditModels
<1>28. CASE DeleteVolumeByHand
  BY <1>28 DEF DeleteVolumeByHand, Wipe, DeleteVolume
<1>29. CASE UNCHANGED vars
  BY <1>29 DEF vars
<1> QED
  BY <1>1, <1>2, <1>3, <1>4, <1>5, <1>6, <1>7, <1>8, <1>9, <1>10, <1>11, <1>12, <1>13,
     <1>14, <1>15, <1>16, <1>17, <1>18, <1>19, <1>20, <1>21, <1>22, <1>23, <1>24, <1>25,
     <1>26, <1>27, <1>28, <1>29
  DEF Next, BeginAny, ScriptNext, DeployNext, CleanupNext, SeedNext, Targets, Whole

\* What a seed has read of the latest model stays true until it records it:
\* nobody else writes one.
LEMMA NextSeeded ==
    ASSUME Control, Models, OnPath, Seeded, [Next]_vars
    PROVE  Seeded'
<1> USE DEF Go, Fail, fileVars, scriptVars, cloudVars, bootVars, Seeded, Latest
<1>1. ASSUME NEW g \in Targets \cup {"cleanup", "seed"}, NEW f \in SUBSET {"service", "volume"},
               Begin(g, f)
      PROVE  Seeded'
  BY <1>1, FirstStep DEF Begin, Targets, Whole
<1>2. CASE Interrupt
  BY <1>2 DEF Interrupt
<1>3. CASE EnsureVolume
  BY <1>3 DEF EnsureVolume, CreateVolume
<1>4. CASE VolumeMissed
  BY <1>4 DEF VolumeMissed
<1>5. CASE Refused
  BY <1>5 DEF Refused
<1>6. CASE RunPostgres
  BY <1>6 DEF RunPostgres
<1>7. CASE RunMigrate
  BY <1>7 DEF RunMigrate
<1>8. CASE ReadExitCode
  BY <1>8 DEF ReadExitCode
<1>9. CASE DropMigrate
  BY <1>9 DEF DropMigrate
<1>10. CASE RunOpenfga
  BY <1>10 DEF RunOpenfga
<1>11. CASE ReadPin
  BY <1>11 DEF ReadPin
<1>12. CASE EnsureService
  BY <1>12 DEF EnsureService
<1>13. CASE ServiceMissed
  BY <1>13 DEF ServiceMissed
<1>14. CASE RunApi
  BY <1>14 DEF RunApi
<1>15. CASE RemoveInstance
  <2>1. pc' \in {"rmOpenfga", "rmMigrate", "rmPostgres", "rmService", "rmVolume", "exit"}
    BY <1>15, Victims, NextVictims DEF RemoveInstance, Control
  <2> QED
    BY <2>1
<1>16. CASE RemoveService
  <2>1. pc' \in {"rmVolume", "exit"}
    BY <1>16, NextVictims DEF RemoveService, Control
  <2> QED
    BY <2>1
<1>17. CASE RemoveVolume
  BY <1>17 DEF RemoveVolume, Wipe, Keep, Miss, DeleteVolume
<1>18. CASE ForgetPin
  BY <1>18 DEF ForgetPin
<1>19. CASE CleanupExits
  BY <1>19 DEF CleanupExits
<1>20. CASE Unreachable
  BY <1>20 DEF Unreachable
<1>21. CASE FindOrCreateStore
  BY <1>21 DEF FindOrCreateStore
<1>22. CASE CompareLatest
  <2>1. CASE UpToDate /\ modelId' = Latest /\ pc' = "record"
    <3>1. Latest' = Latest
      BY <1>22 DEF CompareLatest, Latest
    <3> QED
      BY <2>1, <3>1 DEF UpToDate
  <2>2. CASE pc' = "write" /\ (missed' = TRUE \/ ~UpToDate)
    <3>1. Latest' = Latest /\ written' = written /\ source' = source
      BY <1>22 DEF CompareLatest, Latest
    <3>2. ASSUME ~missed', Latest # 0  PROVE written[Latest] < source
      BY <2>2, <3>2, LatestWritten, DeploymentAssumption DEF UpToDate, Models
    <3> QED
      BY <2>2, <3>1, <3>2
  <2> QED
    BY <1>22, <2>1, <2>2 DEF CompareLatest, Miss
<1>23. CASE WriteModel
  <2>1. written' = Append(written, source) /\ modelId' = Len(written')
        /\ pc' = "record" /\ lost' = lost
    BY <1>23 DEF WriteModel
  <2>2. Len(written') = Len(written) + 1
    BY <2>1, DeploymentAssumption DEF Models
  <2>3. Latest' = Len(written') /\ Latest' # 0
    BY <2>1, <2>2, DeploymentAssumption DEF Latest, Models
  <2> QED
    BY <2>1, <2>3
<1>24. CASE RecordModel
  BY <1>24 DEF RecordModel
<1>25. CASE MigrationEnds
  BY <1>25 DEF MigrationEnds
<1>26. CASE PostgresRuns
  BY <1>26 DEF PostgresRuns, StartSetup, UndoSetup, CompleteSetup, Serve, GoDown
<1>27. CASE EditModels
  <2>1. Latest' = Latest /\ written' = written /\ source' = source + 1
        /\ UNCHANGED <<pc, missed, modelId>>
    BY <1>27 DEF EditModels, Latest
  <2>2. Latest # 0 /\ written[Latest] < source => written[Latest] < source'
    BY <2>1, LatestWritten, DeploymentAssumption DEF Models
  <2> QED
    BY <2>1, <2>2
<1>28. CASE DeleteVolumeByHand
  BY <1>28 DEF DeleteVolumeByHand, Wipe, DeleteVolume
<1>29. CASE UNCHANGED vars
  BY <1>29 DEF vars
<1> QED
  BY <1>1, <1>2, <1>3, <1>4, <1>5, <1>6, <1>7, <1>8, <1>9, <1>10, <1>11, <1>12, <1>13,
     <1>14, <1>15, <1>16, <1>17, <1>18, <1>19, <1>20, <1>21, <1>22, <1>23, <1>24, <1>25,
     <1>26, <1>27, <1>28, <1>29
  DEF Next, BeginAny, ScriptNext, DeployNext, CleanupNext, SeedNext, Targets, Whole

\* The recorded id dies only with the volume, and the script that deletes it
\* forgets the id next.
LEMMA NextPinAlive ==
    ASSUME Control, Models, Seeded, PinAlive, Faults \cap {"interrupt", "hand"} = {}, [Next]_vars
    PROVE  PinAlive'
<1> USE DEF Go, Fail, fileVars, scriptVars, cloudVars, bootVars, PinAlive, Names, SeedSteps
<1>1. ASSUME NEW g \in Targets \cup {"cleanup", "seed"}, NEW f \in SUBSET {"service", "volume"},
               Begin(g, f)
      PROVE  PinAlive'
  BY <1>1, FirstStep DEF Begin, Targets, Whole
<1>2. CASE Interrupt
  BY <1>2 DEF Interrupt
<1>3. CASE EnsureVolume
  BY <1>3 DEF EnsureVolume, CreateVolume
<1>4. CASE VolumeMissed
  BY <1>4 DEF VolumeMissed
<1>5. CASE Refused
  BY <1>5 DEF Refused
<1>6. CASE RunPostgres
  BY <1>6 DEF RunPostgres
<1>7. CASE RunMigrate
  BY <1>7 DEF RunMigrate
<1>8. CASE ReadExitCode
  BY <1>8 DEF ReadExitCode
<1>9. CASE DropMigrate
  BY <1>9 DEF DropMigrate
<1>10. CASE RunOpenfga
  BY <1>10 DEF RunOpenfga
<1>11. CASE ReadPin
  BY <1>11 DEF ReadPin
<1>12. CASE EnsureService
  BY <1>12 DEF EnsureService
<1>13. CASE ServiceMissed
  BY <1>13 DEF ServiceMissed
<1>14. CASE RunApi
  BY <1>14 DEF RunApi
<1>15. CASE RemoveInstance
  <2>1. pc' # "forget"
    BY <1>15, Victims, NextVictims DEF RemoveInstance, Control
  <2> QED
    BY <1>15, <2>1, Victims DEF RemoveInstance
<1>16. CASE RemoveService
  <2>1. pc' # "forget"
    BY <1>16, NextVictims DEF RemoveService, Control
  <2> QED
    BY <1>16, <2>1 DEF RemoveService
<1>17. CASE RemoveVolume
  BY <1>17 DEF RemoveVolume, Wipe, Keep, Miss, DeleteVolume
<1>18. CASE ForgetPin
  BY <1>18 DEF ForgetPin
<1>19. CASE CleanupExits
  BY <1>19 DEF CleanupExits
<1>20. CASE Unreachable
  BY <1>20 DEF Unreachable
<1>21. CASE FindOrCreateStore
  BY <1>21 DEF FindOrCreateStore
<1>22. CASE CompareLatest
  BY <1>22 DEF CompareLatest, Miss
<1>23. CASE WriteModel
  BY <1>23 DEF WriteModel
<1>24. CASE RecordModel
  <2>1. pinFile' = Latest /\ lost' = lost /\ Latest # 0
    BY <1>24 DEF RecordModel, Seeded
  <2> QED
    BY <2>1, DeploymentAssumption DEF Latest, Models
<1>25. CASE MigrationEnds
  BY <1>25 DEF MigrationEnds
<1>26. CASE PostgresRuns
  BY <1>26 DEF PostgresRuns, StartSetup, UndoSetup, CompleteSetup, Serve, GoDown
<1>27. CASE EditModels
  BY <1>27 DEF EditModels
<1>28. CASE DeleteVolumeByHand
  BY <1>28 DEF DeleteVolumeByHand, Wipe, DeleteVolume
<1>29. CASE UNCHANGED vars
  BY <1>29 DEF vars
<1> QED
  BY <1>1, <1>2, <1>3, <1>4, <1>5, <1>6, <1>7, <1>8, <1>9, <1>10, <1>11, <1>12, <1>13,
     <1>14, <1>15, <1>16, <1>17, <1>18, <1>19, <1>20, <1>21, <1>22, <1>23, <1>24, <1>25,
     <1>26, <1>27, <1>28, <1>29
  DEF Next, BeginAny, ScriptNext, DeployNext, CleanupNext, SeedNext, Targets, Whole

(***************************************************************************)
(* The invariant, and what follows from it.                                 *)
(***************************************************************************)
LEMMA InitInv == Init => IInv
<1> SUFFICES ASSUME Init PROVE IInv
  OBVIOUS
<1>1. Control
  BY DEF Init, BootInit, Control, BootTypeOK, Whole, Targets
<1>2. Attempts /\ Models
  BY DeploymentAssumption DEF Init, Attempts, Models
<1>3. OnPath /\ Cleaned
  BY CleanupStepNames DEF Init, OnPath, SeedSteps, Cleaned, AfterApi
<1>4. Deployed /\ Seeded
  BY DEF Init, Deployed, Seeded
<1> QED
  BY <1>1, <1>2, <1>3, <1>4 DEF IInv

\* The inductive invariant holds of every reachable state.
THEOREM Invariant == Spec => []IInv
<1>1. Init => IInv
  BY InitInv
<1>2. IInv /\ [Next]_vars => IInv'
  BY NextControl, NextAttempts, NextModels, NextOnPath, NextDeployed, NextCleaned,
     NextSeeded
     DEF IInv
<1> QED
  BY <1>1, <1>2, PTL DEF Spec

\* Every variable of the scripts and of the cloud keeps its type.
THEOREM TypeCorrect == Spec => []TypeOK
<1>1. IInv => TypeOK
  BY DEF IInv, Control, Attempts, Models, TypeOK
<1> QED
  BY <1>1, Invariant, PTL

\* A deploy that includes the migration starts OpenFGA on a migrated database
\* only (deploy.sh:163-181), whatever was interrupted before.
THEOREM MigratesFirst == Spec => []MigratedFirst
<1>1. IInv => MigratedFirst
  BY DEF IInv, Deployed, MigratedFirst
<1> QED
  BY <1>1, Invariant, PTL

\* The steps a script can exit 0 from.
LEMMA Exits ==
    ASSUME Control, [Next]_vars, ExitsOk
    PROVE  RunPostgres \/ DropMigrate \/ RunOpenfga \/ RunApi \/ CleanupExits \/ RecordModel
<1> USE DEF ExitsOk, Go, Fail
<1>1. ~UNCHANGED vars
  BY DEF vars
<1>2. /\ ~(\E g \in Targets \cup {"seed"} : Begin(g, {}))
      /\ ~(\E f \in SUBSET {"service", "volume"} : Begin("cleanup", f))
  BY DEF Begin
<1>3. ~Interrupt /\ ~VolumeMissed /\ ~Refused /\ ~ServiceMissed /\ ~Unreachable
  BY DEF Interrupt, VolumeMissed, Refused, ServiceMissed, Unreachable
<1>4. ~EnsureVolume /\ ~RunMigrate /\ ~ReadExitCode /\ ~ReadPin /\ ~EnsureService
  BY DEF EnsureVolume, RunMigrate, ReadExitCode, ReadPin, EnsureService
<1>5. ~RemoveInstance
  BY Victims, NextVictims DEF RemoveInstance, Control
<1>6. ~RemoveService
  BY NextVictims DEF RemoveService, Control
<1>7. ~RemoveVolume /\ ~ForgetPin
  BY DEF RemoveVolume, ForgetPin
<1>8. ~FindOrCreateStore /\ ~CompareLatest /\ ~WriteModel
  BY DEF FindOrCreateStore, CompareLatest, WriteModel
<1>9. ~MigrationEnds /\ ~PostgresRuns /\ ~EditModels /\ ~DeleteVolumeByHand
  BY DEF MigrationEnds, PostgresRuns, EditModels, DeleteVolumeByHand
<1> QED
  BY <1>1, <1>2, <1>3, <1>4, <1>5, <1>6, <1>7, <1>8, <1>9
  DEF Next, BeginAny, ScriptNext, DeployNext, CleanupNext, SeedNext

\* A deploy that exits 0 has its instances, no migration left, the schema, and
\* the API in its group and pinned to the recorded model (deploy.sh:104-275).
THEOREM WordKept == Spec => DeployKeepsWord
<1> DEFINE Word == ExitsOk /\ goal \in Targets =>
          /\ goal \in {"postgres"} \cup Whole => "postgres" \in instances'
          /\ goal \in {"migrate"} \cup Whole => migrated' /\ "migrate" \notin instances'
          /\ goal \in {"openfga"} \cup Whole => "openfga" \in instances'
          /\ goal \in {"api", "all"} => "api" \in instances' /\ service' /\ apiPin' = pinFile'
<1>1. IInv /\ [Next]_vars => [Word]_vars
  <2> SUFFICES ASSUME IInv, [Next]_vars, ExitsOk, goal \in Targets
               PROVE  Word
    OBVIOUS
  <2>1. RunPostgres \/ DropMigrate \/ RunOpenfga \/ RunApi \/ CleanupExits \/ RecordModel
    BY Exits DEF IInv
  <2> USE DEF IInv, OnPath, Deployed, Whole, Targets, ExitsOk, Go, Fail, cloudVars,
     fileVars,
              bootVars, scriptVars
  <2>2. CASE RunPostgres
    BY <2>2 DEF RunPostgres
  <2>3. CASE DropMigrate
    BY <2>3 DEF DropMigrate
  <2>4. CASE RunOpenfga
    BY <2>4 DEF RunOpenfga
  <2>5. CASE RunApi
    BY <2>5 DEF RunApi
  <2>6. CASE CleanupExits
    BY <2>6, CleanupStepNames DEF CleanupExits
  <2>7. CASE RecordModel
    BY <2>7 DEF RecordModel, SeedSteps
  <2> QED
    BY <2>1, <2>2, <2>3, <2>4, <2>5, <2>6, <2>7
<1> QED
  BY <1>1, Invariant, PTL DEF Spec, DeployKeepsWord

\* A cleanup that exits 0 and missed nothing leaves nothing it was asked to
\* delete (cleanup.sh:27-84).
THEOREM LeavesNothing == Spec => GoneUnlessMissed
<1>1. IInv /\ [Next]_vars => [ExitsOk /\ goal = "cleanup" /\ ~missed => NothingLeft']_vars
  <2> SUFFICES ASSUME IInv, [Next]_vars, ExitsOk, goal = "cleanup", ~missed
               PROVE  NothingLeft'
    OBVIOUS
  <2>1. RunPostgres \/ DropMigrate \/ RunOpenfga \/ RunApi \/ CleanupExits \/ RecordModel
    BY Exits DEF IInv
  <2>2. CleanupExits
    BY <2>1 DEF IInv, OnPath, Whole, SeedSteps, RunPostgres, DropMigrate, RunOpenfga,
       RunApi,
                RecordModel
  <2>3. pc = "exit" /\ ~failed /\ UNCHANGED <<instances, service, volume, flags>>
    BY <2>2 DEF CleanupExits, ExitsOk, Fail, Go, cloudVars, bootVars, scriptVars
  <2>4. /\ Names \cap instances = {}
        /\ "service" \in flags => ~service
        /\ "volume" \in flags => volume = "none"
    BY <2>3 DEF IInv, Cleaned, AfterApi, Names
  <2>5. instances = {}
    BY <2>4 DEF IInv, Control
  <2> QED
    BY <2>3, <2>4, <2>5 DEF NothingLeft
<1> QED
  BY <1>1, Invariant, PTL DEF Spec, GoneUnlessMissed

\* What seed.sh records when it exits 0 is the store's newest model
\* (seed.sh:26-37).
THEOREM RecordsLatest == Spec => SeedRecordsLatest
<1>1. IInv /\ [Next]_vars => [ExitsOk /\ goal = "seed" => pinFile' = Latest' /\ Latest' # 0]_vars
  <2> SUFFICES ASSUME IInv, [Next]_vars, ExitsOk, goal = "seed"
               PROVE  pinFile' = Latest' /\ Latest' # 0
    OBVIOUS
  <2>1. RunPostgres \/ DropMigrate \/ RunOpenfga \/ RunApi \/ CleanupExits \/ RecordModel
    BY Exits DEF IInv
  <2>2. RecordModel
    BY <2>1, CleanupStepNames DEF IInv, OnPath, Whole, RunPostgres, DropMigrate, RunOpenfga,
                RunApi, CleanupExits
  <2>3. pc = "record" /\ pinFile' = modelId /\ Latest' = Latest
    BY <2>2 DEF RecordModel, Latest, cloudVars
  <2> QED
    BY <2>3 DEF IInv, Seeded
<1> QED
  BY <1>1, Invariant, PTL DEF Spec, SeedRecordsLatest

\* A model is written only when authz/models differs from the latest one, unless
\* that one could not be read (seed.sh:2, 21-32).
THEOREM WrittenOnce == Spec => WrittenIfChanged
<1> DEFINE Changed == written' # written /\ ~missed /\ Latest # 0
                          => written'[Latest'] # written[Latest]
<1>1. IInv /\ [Next]_vars => [Changed]_vars
  <2> SUFFICES ASSUME IInv, [Next]_vars, written' # written, ~missed, Latest # 0
               PROVE  written'[Latest'] # written[Latest]
    OBVIOUS
  <2>1. WriteModel
    <3> USE DEF cloudVars
    <3>1. ~UNCHANGED vars
      BY DEF vars
    <3>2. ~BeginAny /\ ~Interrupt
      BY DEF BeginAny, Begin, Interrupt
    <3>3. ~DeployNext
      BY DEF DeployNext, EnsureVolume, VolumeMissed, Refused, RunPostgres, RunMigrate,
             ReadExitCode, DropMigrate, RunOpenfga, ReadPin, EnsureService, ServiceMissed, RunApi
    <3>4. ~CleanupNext
      BY DEF CleanupNext, RemoveInstance, RemoveService, RemoveVolume, ForgetPin,
         CleanupExits
    <3>5. ~Unreachable /\ ~FindOrCreateStore /\ ~CompareLatest /\ ~RecordModel
      BY DEF Unreachable, FindOrCreateStore, CompareLatest, RecordModel
    <3>6. ~MigrationEnds /\ ~PostgresRuns /\ ~EditModels /\ ~DeleteVolumeByHand
      BY DEF MigrationEnds, PostgresRuns, EditModels, DeleteVolumeByHand
    <3> QED
      BY <3>1, <3>2, <3>3, <3>4, <3>5, <3>6 DEF Next, ScriptNext, SeedNext
  <2>2. written' = Append(written, source) /\ lost' = lost /\ pc = "write"
    BY <2>1 DEF WriteModel
  <2>3. Latest' = Len(written) + 1
    BY <2>2, DeploymentAssumption DEF IInv, Models, Latest
  <2>4. written'[Latest'] = source
    BY <2>2, <2>3, DeploymentAssumption DEF IInv, Models
  <2>5. written[Latest] < source
    BY <2>2 DEF IInv, Seeded
  <2>6. written[Latest] \in 1 .. MaxEdits /\ source \in 1 .. MaxEdits
    BY LatestWritten DEF IInv, Models
  <2> QED
    BY <2>4, <2>5, <2>6, DeploymentAssumption
<1> QED
  BY <1>1, Invariant, PTL DEF Spec, WrittenIfChanged

\* Unless a script is interrupted or the volume is deleted by hand, the recorded
\* id is that of a model in the present database (cleanup.sh:55-59).
THEOREM PinStaysAlive ==
    ASSUME Faults \cap {"interrupt", "hand"} = {}
    PROVE  Spec => []PinAlive
<1>1. Init => PinAlive
  BY DEF Init, PinAlive
<1>2. IInv /\ PinAlive /\ [Next]_vars => PinAlive'
  BY NextPinAlive DEF IInv
<1> QED
  BY <1>1, <1>2, Invariant, PTL DEF Spec
=============================================================================
