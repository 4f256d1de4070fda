----------------------------- MODULE Deployment -----------------------------
(***************************************************************************)
(* deploy.sh, cleanup.sh and seed.sh, run one at a time by one operator,   *)
(* over the instances, the volume and the service group in the cloud and   *)
(* the model id file on the operator's machine.  A script is interrupted,  *)
(* a command fails or a lookup goes unanswered at any step, as far as      *)
(* Faults lets it.                                                         *)
(***************************************************************************)
EXTENDS VolumeBoot, Integers, Sequences

CONSTANTS Faults,        \* which of AllFaults can happen
          MaxAttempts,   \* attempts of the migration (5)
          MaxModels,     \* bound: models ever written
          MaxEdits       \* bound: versions of authz/models

\* interrupt: a script is killed, or a command fails, having done its work or
\* not; lookup: `unikraft ... get` fails although the resource is there;
\* hand: the operator deletes the volume with the unikraft CLI (README.md).
AllFaults == {"interrupt", "lookup", "hand"}

ASSUME DeploymentAssumption ==
    /\ Faults \subseteq AllFaults
    /\ MaxAttempts \in Nat \ {0}
    /\ MaxModels \in Nat
    /\ MaxEdits \in Nat \ {0}

VARIABLES instances,   \* the instances that exist
          service,     \* whether the API's service group exists
          migration,   \* the migrate instance: "none", "running", "ok", "failed"
          migrated,    \* whether the volume's database has OpenFGA's schema
          store,       \* whether it has the demo store
          written,     \* every model ever written, by id: its version
          lost,        \* models 1..lost went with a deleted volume
          source,      \* the version of authz/models
          pinFile,     \* MODEL_ID_FILE: a model id, or 0
          apiPin,      \* FGA_MODEL_ID of the API instance, or 0
          goal,        \* the script: a deploy target, "cleanup" or "seed"
          flags,       \* the flags of cleanup
          pc,          \* its next step
          attempts, code, failed, modelId,   \* its variables
          done,        \* how the last script ended
          missed       \* history: whether one of its lookups missed something

cloudVars == <<instances, service, migration, migrated, store, written, lost>>
fileVars == <<source, pinFile>>
scriptVars == <<goal, flags, attempts, code, failed, modelId, missed>>
vars == <<bootVars, cloudVars, fileVars, apiPin, scriptVars, pc, done>>

Whole == {"backend", "all"}
Targets == {"postgres", "migrate", "openfga", "api"} \cup Whole

Names == {"postgres", "migrate", "openfga", "api"}

\* The order in which cleanup.sh deletes the instances.
Victim == [rmApi |-> "api", rmOpenfga |-> "openfga", rmMigrate |-> "migrate",
           rmPostgres |-> "postgres"]

DeploySteps == {"volume", "postgres", "migrate", "await", "drop", "openfga",
                "pin", "service", "api"}
CleanupSteps == DOMAIN Victim \cup {"rmService", "rmVolume", "forget", "exit"}
SeedSteps == {"store", "compare", "write", "record"}

TypeOK ==
    /\ BootTypeOK
    /\ instances \subseteq Names
    /\ service \in BOOLEAN
    /\ migration \in {"none", "running", "ok", "failed"}
    /\ migrated \in BOOLEAN
    /\ store \in BOOLEAN
    /\ written \in Seq(1..MaxEdits)
    /\ lost \in 0..Len(written)
    /\ source \in 1..MaxEdits
    /\ pinFile \in 0..Len(written)
    /\ apiPin \in 0..Len(written)
    /\ goal \in Targets \cup {"cleanup", "seed"}
    /\ flags \subseteq {"service", "volume"}
    /\ pc \in {"idle"} \cup DeploySteps \cup CleanupSteps \cup SeedSteps
    /\ attempts \in 0..MaxAttempts
    /\ code \in {"none", "ok", "failed"}
    /\ failed \in BOOLEAN
    /\ modelId \in 0..Len(written)
    /\ done \in {"none", "ok", "failed"}
    /\ missed \in BOOLEAN

\* The newest model in the store, or 0.
Latest == IF Len(written) > lost THEN Len(written) ELSE 0

\* seed.sh reaches OpenFGA and OpenFGA its database.
Reachable == "openfga" \in instances /\ boot = "serving" /\ volume = "ready" /\ migrated

Init ==
    /\ BootInit
    /\ instances = {}
    /\ service = FALSE
    /\ migration = "none"
    /\ migrated = FALSE
    /\ store = FALSE
    /\ written = <<>>
    /\ lost = 0
    /\ source = 1
    /\ pinFile = 0
    /\ apiPin = 0
    /\ goal = "all"
    /\ flags = {}
    /\ pc = "idle"
    /\ attempts = 0
    /\ code = "none"
    /\ failed = FALSE
    /\ modelId = 0
    /\ done = "none"
    /\ missed = FALSE

(***************************************************************************)
(* Control: starting a script, its exit, its interruption.                 *)
(***************************************************************************)
First == [postgres |-> "volume", backend |-> "volume", all |-> "volume",
          migrate |-> "migrate", openfga |-> "openfga", api |-> "pin",
          cleanup |-> "rmApi", seed |-> "store"]

Begin(g, f) ==
    /\ pc = "idle"
    /\ g = "seed" => Len(written) < MaxModels
    /\ goal' = g
    /\ flags' = f
    /\ pc' = First[g]
    /\ attempts' = 0
    /\ code' = "none"
    /\ failed' = FALSE
    /\ modelId' = 0
    /\ done' = "none"
    /\ missed' = FALSE
    /\ UNCHANGED <<bootVars, cloudVars, fileVars, apiPin>>

BeginAny ==
    \/ \E g \in Targets \cup {"seed"} : Begin(g, {})
    \/ \E f \in SUBSET {"service", "volume"} : Begin("cleanup", f)

Go(step) ==
    IF step = "idle" THEN pc' = "idle" /\ done' = "ok"
                     ELSE pc' = step /\ UNCHANGED done

Fail == pc' = "idle" /\ done' = "failed"

\* A lookup fails and its resource looks missing.
Miss == "lookup" \in Faults /\ missed' = TRUE

Interrupt ==
    /\ "interrupt" \in Faults
    /\ pc # "idle"
    /\ Fail
    /\ UNCHANGED <<bootVars, cloudVars, fileVars, apiPin, scriptVars>>

(***************************************************************************)
(* deploy.sh                                                               *)
(***************************************************************************)
EnsureVolume ==
    /\ pc = "volume"
    /\ IF volume = "none" THEN CreateVolume ELSE UNCHANGED bootVars
    /\ Go("postgres")
    /\ UNCHANGED <<cloudVars, fileVars, apiPin, scriptVars>>

\* A volume the lookup missed cannot be created again.
VolumeMissed ==
    /\ pc = "volume"
    /\ volume # "none"
    /\ "lookup" \in Faults
    /\ Fail
    /\ UNCHANGED <<bootVars, cloudVars, fileVars, apiPin, scriptVars>>

\* run_from_yaml refuses an instance that exists; if its lookup missed it, the
\* platform refuses the second one.
Refused ==
    /\ pc \in Names
    /\ pc \in instances
    /\ Fail
    /\ UNCHANGED <<bootVars, cloudVars, fileVars, apiPin, scriptVars>>

RunPostgres ==
    /\ pc = "postgres"
    /\ pc \notin instances
    /\ instances' = instances \cup {"postgres"}
    /\ Go(IF goal \in Whole THEN "migrate" ELSE "idle")
    /\ UNCHANGED <<bootVars, service, migration, migrated, store, written, lost,
                   fileVars, apiPin, scriptVars>>

RunMigrate ==
    /\ pc = "migrate"
    /\ pc \notin instances
    /\ instances' = instances \cup {"migrate"}
    /\ migration' = "running"
    /\ attempts' = attempts + 1
    /\ Go("await")
    /\ UNCHANGED <<bootVars, service, migrated, store, written, lost, fileVars,
                   apiPin, goal, flags, missed, code, failed, modelId>>

ReadExitCode ==
    /\ pc = "await"
    /\ migration \in {"ok", "failed"}
    /\ code' = migration
    /\ Go("drop")
    /\ UNCHANGED <<bootVars, cloudVars, fileVars, apiPin, goal, flags, missed, attempts,
                   failed, modelId>>

\* Mutants: one attempt too many; the attempts run out and the deploy goes on;
\* an instance whose exit code was 0 stays; the attempts are not counted.
DropOffByOne ==
    /\ pc = "drop"
    /\ instances' = instances \ {"migrate"}
    /\ migration' = "none"
    /\ IF code = "ok" THEN Go(IF goal \in Whole THEN "openfga" ELSE "idle")
       ELSE IF attempts <= MaxAttempts THEN Go("migrate") ELSE Fail
    /\ UNCHANGED <<bootVars, service, migrated, store, written, lost, fileVars,
                   apiPin, scriptVars>>

DropAndGoOn ==
    /\ pc = "drop"
    /\ instances' = instances \ {"migrate"}
    /\ migration' = "none"
    /\ IF code # "ok" /\ attempts < MaxAttempts THEN Go("migrate")
       ELSE Go(IF goal \in Whole THEN "openfga" ELSE "idle")
    /\ UNCHANGED <<bootVars, service, migrated, store, written, lost, fileVars,
                   apiPin, scriptVars>>

DropFailedOnly ==
    /\ pc = "drop"
    /\ instances' = IF code = "ok" THEN instances ELSE instances \ {"migrate"}
    /\ migration' = IF code = "ok" THEN migration ELSE "none"
    /\ IF code = "ok" THEN Go(IF goal \in Whole THEN "openfga" ELSE "idle")
       ELSE IF attempts < MaxAttempts THEN Go("migrate") ELSE Fail
    /\ UNCHANGED <<bootVars, service, migrated, store, written, lost, fileVars,
                   apiPin, scriptVars>>

DropUncounted ==
    /\ pc = "drop"
    /\ instances' = instances \ {"migrate"}
    /\ migration' = "none"
    /\ attempts' = 0
    /\ Go(IF code # "ok" THEN "migrate" ELSE IF goal \in Whole THEN "openfga" ELSE "idle")
    /\ UNCHANGED <<bootVars, service, migrated, store, written, lost, fileVars,
                   apiPin, goal, flags, missed, code, failed, modelId>>

\* The exit code read, the instance goes; without a 0 in the last attempt the
\* deploy stops.
DropMigrate ==
    /\ pc = "drop"
    /\ instances' = instances \ {"migrate"}
    /\ migration' = "none"
    /\ IF code = "ok" THEN Go(IF goal \in Whole THEN "openfga" ELSE "idle")
       ELSE IF attempts < MaxAttempts THEN Go("migrate") ELSE Fail
    /\ UNCHANGED <<bootVars, service, migrated, store, written, lost, fileVars,
                   apiPin, scriptVars>>

RunOpenfga ==
    /\ pc = "openfga"
    /\ pc \notin instances
    /\ instances' = instances \cup {"openfga"}
    /\ Go(IF goal = "all" THEN "pin" ELSE "idle")
    /\ UNCHANGED <<bootVars, service, migration, migrated, store, written, lost,
                   fileVars, apiPin, scriptVars>>

ReadPin ==
    /\ pc = "pin"
    /\ modelId' = pinFile
    /\ Go("service")
    /\ UNCHANGED <<bootVars, cloudVars, fileVars, apiPin, goal, flags, missed, attempts,
                   code, failed>>

\* A create that fails for a group the lookup missed does not count.
EnsureService ==
    /\ pc = "service"
    /\ service' = TRUE
    /\ Go("api")
    /\ UNCHANGED <<bootVars, instances, migration, migrated, store, written, lost,
                   fileVars, apiPin, scriptVars>>

\* ... unless the second lookup misses it too.
ServiceMissed ==
    /\ pc = "service"
    /\ service
    /\ "lookup" \in Faults
    /\ Fail
    /\ UNCHANGED <<bootVars, cloudVars, fileVars, apiPin, scriptVars>>

RunApi ==
    /\ pc = "api"
    /\ pc \notin instances
    /\ instances' = instances \cup {"api"}
    /\ apiPin' = modelId
    /\ Go("idle")
    /\ UNCHANGED <<bootVars, service, migration, migrated, store, written, lost,
                   fileVars, scriptVars>>

(***************************************************************************)
(* cleanup.sh                                                              *)
(***************************************************************************)
NextVictim ==
    CASE pc = "rmApi" -> "rmOpenfga"
      [] pc = "rmOpenfga" -> "rmMigrate"
      [] pc = "rmMigrate" -> "rmPostgres"
      [] pc = "rmPostgres" /\ "service" \in flags -> "rmService"
      [] pc = "rmPostgres" /\ flags = {"volume"} -> "rmVolume"
      [] pc = "rmService" /\ "volume" \in flags -> "rmVolume"
      [] OTHER -> "exit"

Delete(i) ==
    /\ instances' = instances \ {i}
    /\ boot' = IF i = "postgres" THEN "down" ELSE boot
    /\ migration' = IF i = "migrate" THEN "none" ELSE migration
    /\ apiPin' = IF i = "api" THEN 0 ELSE apiPin

\* Mutant: a failed deletion is reported but not counted.
RemoveUncounted ==
    /\ pc \in DOMAIN Victim
    /\ \/ Delete(Victim[pc])
       \/ "interrupt" \in Faults /\ UNCHANGED <<instances, boot, migration, apiPin>>
    /\ Go(NextVictim)
    /\ UNCHANGED <<volume, service, migrated, store, written, lost, fileVars,
                   scriptVars>>

\* A lookup that fails looks like a missing instance; a deletion that fails may
\* have happened, is counted, and cleanup goes on.
RemoveInstance ==
    /\ pc \in DOMAIN Victim
    /\ \/ Delete(Victim[pc]) /\ UNCHANGED <<failed, missed>>
       \/ /\ Victim[pc] \in instances
          /\ Miss
          /\ UNCHANGED <<instances, boot, migration, apiPin, failed>>
       \/ /\ "interrupt" \in Faults
          /\ Victim[pc] \in instances
          /\ Delete(Victim[pc]) \/ UNCHANGED <<instances, boot, migration, apiPin>>
          /\ failed' = TRUE
          /\ UNCHANGED missed
    /\ Go(NextVictim)
    /\ UNCHANGED <<volume, service, migrated, store, written, lost, fileVars,
                   goal, flags, attempts, code, modelId>>

RemoveService ==
    /\ pc = "rmService"
    /\ \/ service' = FALSE /\ UNCHANGED <<failed, missed>>
       \/ service /\ Miss /\ UNCHANGED <<service, failed>>
       \/ /\ "interrupt" \in Faults
          /\ service
          /\ service' \in BOOLEAN
          /\ failed' = TRUE
          /\ UNCHANGED missed
    /\ Go(NextVictim)
    /\ UNCHANGED <<bootVars, instances, migration, migrated, store, written, lost,
                   fileVars, apiPin, goal, flags, attempts, code, modelId>>

\* The volume goes, and with it the database, the store and its models.
Wipe ==
    /\ "postgres" \notin instances
    /\ DeleteVolume
    /\ migrated' = FALSE
    /\ store' = FALSE
    /\ lost' = Len(written)

Keep == UNCHANGED <<bootVars, migrated, store, lost>>

RemoveVolume ==
    /\ pc = "rmVolume"
    /\ \/ Wipe /\ Go("forget") /\ UNCHANGED <<failed, missed>>
       \/ /\ (volume = "none" /\ UNCHANGED missed) \/ (volume # "none" /\ Miss)
          /\ Keep /\ Go("exit") /\ UNCHANGED failed
       \/ /\ volume # "none"
          /\ "postgres" \in instances \/ "interrupt" \in Faults
          /\ Keep \/ ("interrupt" \in Faults /\ Wipe)
          /\ Go("exit")
          /\ failed' = TRUE
          /\ UNCHANGED missed
    /\ UNCHANGED <<instances, service, migration, written, fileVars, apiPin, goal,
                   flags, attempts, code, modelId>>

ForgetPin ==
    /\ pc = "forget"
    /\ pinFile' = 0
    /\ Go("exit")
    /\ UNCHANGED <<bootVars, cloudVars, source, apiPin, scriptVars>>

CleanupExits ==
    /\ pc = "exit"
    /\ IF failed THEN Fail ELSE Go("idle")
    /\ UNCHANGED <<bootVars, cloudVars, fileVars, apiPin, scriptVars>>

(***************************************************************************)
(* seed.sh                                                                 *)
(***************************************************************************)
Unreachable ==
    /\ pc \in SeedSteps
    /\ ~Reachable
    /\ Fail
    /\ UNCHANGED <<bootVars, cloudVars, fileVars, apiPin, scriptVars>>

FindOrCreateStore ==
    /\ pc = "store"
    /\ Reachable
    /\ store' = TRUE
    /\ Go("compare")
    /\ UNCHANGED <<bootVars, instances, service, migration, migrated, written, lost,
                   fileVars, apiPin, scriptVars>>

\* Mutant: compares with the recorded model.
CompareRecorded ==
    /\ pc = "compare"
    /\ Reachable
    /\ IF pinFile > lost /\ written[pinFile] = source
       THEN modelId' = pinFile /\ Go("record")
       ELSE modelId' = 0 /\ Go("write")
    /\ UNCHANGED <<bootVars, cloudVars, fileVars, apiPin, goal, flags, attempts,
                   code, failed, missed>>

UpToDate == Latest # 0 /\ written[Latest] = source

\* A latest model that cannot be read counts as a different one.
CompareLatest ==
    /\ pc = "compare"
    /\ Reachable
    /\ \/ UpToDate /\ modelId' = Latest /\ Go("record") /\ UNCHANGED missed
       \/ /\ (~UpToDate /\ UNCHANGED missed) \/ (UpToDate /\ Miss)
          /\ modelId' = 0
          /\ Go("write")
    /\ UNCHANGED <<bootVars, cloudVars, fileVars, apiPin, goal, flags, attempts,
                   code, failed>>

WriteModel ==
    /\ pc = "write"
    /\ Reachable
    /\ written' = Append(written, source)
    /\ modelId' = Len(written')
    /\ Go("record")
    /\ UNCHANGED <<bootVars, instances, service, migration, migrated, store, lost,
                   fileVars, apiPin, goal, flags, missed, attempts, code, failed>>

\* Mutant: an id that is already recorded is kept.
RecordOnce ==
    /\ pc = "record"
    /\ Reachable
    /\ pinFile' = IF pinFile = 0 THEN modelId ELSE pinFile
    /\ Go("idle")
    /\ UNCHANGED <<bootVars, cloudVars, source, apiPin, scriptVars>>

\* After the tuples are written.
RecordModel ==
    /\ pc = "record"
    /\ Reachable
    /\ pinFile' = modelId
    /\ Go("idle")
    /\ UNCHANGED <<bootVars, cloudVars, source, apiPin, scriptVars>>

(***************************************************************************)
(* The instances on their own, and the operator's other doings.            *)
(***************************************************************************)
\* openfga migrate succeeds only against a database that is set up; it can
\* still fail after its last statement.
MigrationEnds ==
    /\ migration = "running"
    /\ \/ /\ boot = "serving"
          /\ volume = "ready"
          /\ migrated' = TRUE
          /\ migration' \in {"ok", "failed"}
       \/ migration' = "failed" /\ UNCHANGED migrated
    /\ UNCHANGED <<bootVars, instances, service, store, written, lost, fileVars,
                   apiPin, scriptVars, pc, done>>

PostgresRuns ==
    /\ "postgres" \in instances
    /\ StartSetup \/ UndoSetup \/ CompleteSetup \/ Serve \/ GoDown
    /\ UNCHANGED <<cloudVars, fileVars, apiPin, scriptVars, pc, done>>

EditModels ==
    /\ source < MaxEdits
    /\ source' = source + 1
    /\ UNCHANGED <<bootVars, cloudVars, pinFile, apiPin, scriptVars, pc, done>>

DeleteVolumeByHand ==
    /\ "hand" \in Faults
    /\ pc = "idle"
    /\ Wipe
    /\ UNCHANGED <<instances, service, migration, written, fileVars, apiPin,
                   scriptVars, pc, done>>

DeployNext ==
    \/ EnsureVolume \/ VolumeMissed
    \/ Refused
    \/ RunPostgres
    \/ RunMigrate \/ ReadExitCode \/ DropMigrate
    \/ RunOpenfga
    \/ ReadPin
    \/ EnsureService \/ ServiceMissed
    \/ RunApi

CleanupNext ==
    \/ RemoveInstance
    \/ RemoveService
    \/ RemoveVolume
    \/ ForgetPin
    \/ CleanupExits

SeedNext ==
    \/ Unreachable
    \/ FindOrCreateStore
    \/ CompareLatest
    \/ WriteModel
    \/ RecordModel

ScriptNext == DeployNext \/ CleanupNext \/ SeedNext

Next ==
    \/ BeginAny
    \/ Interrupt
    \/ ScriptNext
    \/ MigrationEnds
    \/ PostgresRuns
    \/ EditModels
    \/ DeleteVolumeByHand

Spec == Init /\ [][Next]_vars

\* A script that runs takes its next step, and the migration ends (deploy.sh
\* waits 5 minutes for it at most).
FairSpec == Spec /\ WF_vars(ScriptNext) /\ WF_vars(MigrationEnds)

(***************************************************************************)
(* Properties                                                              *)
(***************************************************************************)
ExitsOk == pc # "idle" /\ pc' = "idle" /\ done' = "ok"

\* OpenFGA is never deployed on an unmigrated database by a deploy that
\* includes the migration, however postgres crashed during its first boot and
\* whatever an earlier, interrupted deploy left behind (deploy.sh:163-181).
MigratedFirst == pc = "openfga" /\ goal \in Whole => migrated

\* A deploy that exits 0 has done what it was asked: its instances are there,
\* the migration's is gone, the schema is in place, and the API is in the
\* service group and pinned to the model seed.sh recorded (deploy.sh:104-275).
DeployKeepsWord ==
    [][ ExitsOk /\ goal \in Targets =>
          /\ goal \in {"postgres"} \cup Whole => "postgres" \in instances'
          /\ goal \in {"migrate"} \cup Whole => migrated' /\ "migrate" \notin instances'
          /\ goal \in {"openfga"} \cup Whole => "openfga" \in instances'
          /\ goal \in {"api", "all"} => "api" \in instances' /\ service' /\ apiPin' = pinFile' ]_vars

NothingLeft ==
    /\ instances = {}
    /\ "service" \in flags => ~service
    /\ "volume" \in flags => volume = "none"

\* A leftover never looks like a clean run: a cleanup that exits 0 leaves
\* nothing it was asked to delete, whatever deletions failed, unless a lookup
\* failed and it took what it looked for as gone (cleanup.sh:27-84).
GoneUnlessMissed ==
    [][ ExitsOk /\ goal = "cleanup" /\ ~missed => NothingLeft' ]_vars

\* What seed.sh records when it exits 0 is the store's newest model, whatever
\* interrupted the seeds before it (seed.sh:26-37).
SeedRecordsLatest ==
    [][ ExitsOk /\ goal = "seed" => pinFile' = Latest' /\ Latest' # 0 ]_vars

\* A model is written only when authz/models changed (seed.sh:2, 21-22), unless
\* the latest could not be read, even if an earlier seed was killed before it
\* recorded what it wrote (seed.sh:26-32).
WrittenIfChanged ==
    [][ written' # written /\ ~missed /\ Latest # 0 => written'[Latest'] # written[Latest] ]_vars

\* The recorded id is that of a model in the present database: "the store, and
\* so the model the API pinned, went with the volume", and the file with them
\* (cleanup.sh:55-59).
PinAlive == pinFile # 0 => pinFile > lost \/ pc = "forget"

\* Every script ends: the migration's loop gives up (deploy.sh:163-181).
ScriptsEnd == pc # "idle" ~> pc = "idle"
=============================================================================
