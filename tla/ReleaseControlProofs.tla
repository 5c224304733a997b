-------------------------- MODULE ReleaseControlProofs --------------------------
(***************************************************************************)
(* Theorems about ReleaseControl, for any set of versions, any migrations  *)
(* and any number of faults.                                               *)
(***************************************************************************)
EXTENDS ReleaseControl, TLAPS

\* Moving a deployment to another step keeps it a deployment.
LEMMA DeploymentSteps ==
    /\ IdleDeploy \in Deployment
    /\ \A d \in Deployment, step \in DeployStep : [d EXCEPT !.step = step] \in Deployment
<1>1. IdleDeploy \in Deployment
  BY DEF IdleDeploy, Deployment, DeployStep, Releases
<1>2. \A d \in Deployment, step \in DeployStep : [d EXCEPT !.step = step] \in Deployment
  BY DEF Deployment
<1> QED
  BY <1>1, <1>2

\* The initial files, host and commands have their types.
LEMMA TypeCorrectInit == Init => TypeOK
  BY ReleaseConstants DEF Init, ManagerInit, AbsentState, IdleManager, IdleDeploy,
     StateRecord, Status, ReleaseType, ManagerStep, DirState, Deployment, DeployStep,
     NoAttestation, TypeOK, Releases

\* So does whatever a step of the manager, the deployment or a failure leaves.
LEMMA TypeCorrectNext == TypeOK /\ [Next]_vars => TypeOK'
<1> SUFFICES ASSUME TypeOK, [Next]_vars PROVE TypeOK'
  OBVIOUS
<1> USE DEF TypeOK
<1>1. ASSUME NEW v \in Versions, StartPrepare(v, current), UNCHANGED hostVars
      PROVE  TypeOK'
  BY <1>1 DEF StartPrepare, hostVars, ManagerStep, Releases
<1>2. ASSUME NEW v \in Versions, StartMigrate(v, current), UNCHANGED hostVars
      PROVE  TypeOK'
  BY <1>2 DEF StartMigrate, hostVars, ManagerStep, Releases
<1>3. ASSUME ManagerProgress, UNCHANGED hostVars
      PROVE  TypeOK'
  <2>1. CASE StageCandidate
    BY <1>3, <2>1 DEF StageCandidate, hostVars, ManagerStep
  <2>2. CASE RecordCandidate(Exists(manager.base))
    BY <1>3, <2>2 DEF RecordCandidate, hostVars, ManagerStep, IdleManager, StateRecord,
       Status, ReleaseType, Classify, Releases
  <2>3. CASE BackupBeforeMigrate
    BY <1>3, <2>3 DEF BackupBeforeMigrate, hostVars, ManagerStep, IdleManager, Releases
  <2>4. CASE ApplyMigration
    <3>1. PICK m \in Sql[manager.version] \ schema : schema' = schema \union {m}
      BY <2>4 DEF ApplyMigration
    <3>2. m \in Nat \ {0}
      BY <3>1, ReleaseConstants
    <3> QED
      BY <1>3, <2>4, <3>1, <3>2 DEF ApplyMigration, hostVars
  <2>5. CASE CheckMigrated
    BY <1>3, <2>5 DEF CheckMigrated, hostVars, ManagerStep, IdleManager, Releases
  <2>6. CASE WriteAttestation
    BY <1>3, <2>6 DEF WriteAttestation, hostVars, ManagerStep, NoAttestation
  <2>7. CASE NoteMigrated
    BY <1>3, <2>7 DEF NoteMigrated, hostVars, ManagerStep, IdleManager, StateRecord,
       Status, Releases
  <2>8. CASE DiscardStage
    BY <1>3, <2>8 DEF DiscardStage, hostVars, ManagerStep, IdleManager, Releases
  <2> QED
    BY <1>3, <2>1, <2>2, <2>3, <2>4, <2>5, <2>6, <2>7, <2>8 DEF ManagerProgress
<1>4. ASSUME ManagerStops, UNCHANGED hostVars
      PROVE  TypeOK'
  BY <1>4 DEF ManagerStops, hostVars, ManagerStep, IdleManager, Releases
<1>5. ASSUME NEW v \in Versions, BeginDeploy(v)
      PROVE  TypeOK'
  BY <1>5 DEF BeginDeploy, managerVars, Deployment, DeployStep, UntrappedStep,
     TrappedStep, StateRecord, Releases, DeploymentMode
<1>6. ASSUME DeployProgress
      PROVE  TypeOK'
  <2> USE DEF managerVars, Deployment, DeployStep, UntrappedStep, TrappedStep,
              RollbackStep, IdleDeploy, Goto, Releases
  <2>1. CASE ConfirmDeployed
    BY <2>1 DEF ConfirmDeployed
  <2>2. CASE PreserveFailedRelease
    <3>1. releaseDir' \in [Releases -> DirState]
      BY <2>2 DEF PreserveFailedRelease, DirState
    <3>2. deploy' = IdleDeploy \/ deploy' = [deploy EXCEPT !.step = "backup"]
      BY <2>2 DEF PreserveFailedRelease
    <3>3. deploy' \in Deployment /\ (deploy'.step # "idle" => deploy'.version \in Versions)
      <4>1. "backup" \in DeployStep /\ deploy.step # "idle"
        BY <2>2 DEF PreserveFailedRelease, DeployStep, UntrappedStep
      <4>2. CASE deploy' = IdleDeploy
        BY <4>2, DeploymentSteps DEF IdleDeploy
      <4>3. CASE deploy' = [deploy EXCEPT !.step = "backup"]
        BY <4>1, <4>3, DeploymentSteps DEF Deployment
      <4> QED
        BY <3>2, <4>2, <4>3
    <3>4. UNCHANGED <<managerVars, faults, current, running>>
      BY <2>2 DEF PreserveFailedRelease
    <3> QED
      BY <3>1, <3>3, <3>4
  <2>3. CASE BackupBeforeDeploy
    BY <2>3 DEF BackupBeforeDeploy
  <2>4. CASE UnpackRelease
    BY <2>4 DEF UnpackRelease, DirState
  <2>5. CASE InstallVenv
    BY <2>5 DEF InstallVenv, DirState
  <2>6. CASE InstallUnits
    BY <2>6 DEF InstallUnits
  <2>7. CASE SwitchCurrent
    BY <2>7 DEF SwitchCurrent
  <2>8. CASE RestartBackend
    BY <2>8 DEF RestartBackend
  <2>9. CASE AwaitHealth
    BY <2>9 DEF AwaitHealth
  <2>10. CASE BackupAfterDeploy
    BY <2>10 DEF BackupAfterDeploy
  <2>11. CASE Finalize
    <3>1. CASE MarkDeployed(deploy.version, current) /\ Goto("finalizing")
      <4>1. state' \in [Versions -> StateRecord]
        BY <2>11, <3>1 DEF Finalize, MarkDeployed, StateRecord, Status
      <4> QED
        BY <2>11, <3>1, <4>1 DEF Finalize, MarkDeployed, ManagerStep
    <3>2. CASE deploy' = IdleDeploy /\ UNCHANGED <<managerVars, faults>>
      BY <2>11, <3>2 DEF Finalize
    <3> QED
      BY <2>11, <3>1, <3>2 DEF Finalize
  <2>12. CASE EndDeploy
    BY <2>12 DEF EndDeploy
  <2>13. CASE RollBackCurrent
    BY <2>13 DEF RollBackCurrent
  <2>14. CASE RestoreBackend
    BY <2>14 DEF RestoreBackend
  <2> QED
    BY <1>6, <2>1, <2>2, <2>3, <2>4, <2>5, <2>6, <2>7, <2>8, <2>9, <2>10, <2>11,
       <2>12, <2>13, <2>14 DEF DeployProgress
<1>7. ASSUME UntrappedFailure \/ TrappedFailure \/ DeployKilled
      PROVE  TypeOK'
  <2>1. \/ deploy' = IdleDeploy
        \/ deploy' = [deploy EXCEPT !.step = "rollback"] /\ deploy.step # "idle"
    BY <1>7 DEF UntrappedFailure, TrappedFailure, DeployKilled, TrappedStep
  <2>2. faults' \in Nat /\ UNCHANGED <<managerVars, current, running, releaseDir>>
    BY <1>7 DEF UntrappedFailure, TrappedFailure, DeployKilled, Fault
  <2>3. deploy' \in Deployment /\ (deploy'.step # "idle" => deploy'.version \in Versions)
    <3>1. CASE deploy' = IdleDeploy
      BY <3>1, DeploymentSteps DEF IdleDeploy
    <3>2. CASE deploy' = [deploy EXCEPT !.step = "rollback"] /\ deploy.step # "idle"
      BY <3>2, DeploymentSteps DEF Deployment, DeployStep, RollbackStep
    <3> QED
      BY <2>1, <3>1, <3>2
  <2> QED
    BY <2>2, <2>3 DEF managerVars
<1>8. ASSUME ServiceRestarts \/ HostRestarts
      PROVE  TypeOK'
  <2>1. CASE ServiceRestarts
    BY <2>1 DEF ServiceRestarts, Fault, managerVars
  <2>2. CASE HostRestarts
    BY <2>2 DEF HostRestarts, Fault, managerVars, Deployment, DeployStep, IdleDeploy,
       IdleManager, ManagerStep, Releases
  <2> QED
    BY <1>8, <2>1, <2>2
<1>9. CASE UNCHANGED vars
  BY <1>9 DEF vars, managerVars, hostVars
<1> QED
  BY <1>1, <1>2, <1>3, <1>4, <1>5, <1>6, <1>7, <1>8, <1>9 DEF Next, ManagerNext

\* Type correctness: every step of every command keeps the types.
THEOREM TypeCorrect == Spec => []TypeOK
  BY TypeCorrectInit, TypeCorrectNext, PTL DEF Spec

----------------------------------------------------------------------------
(***************************************************************************)
(* The inductive invariant.  SchemaCoversCode alone is not inductive: that *)
(* a switch finds the migrations applied follows from what verify-deploy   *)
(* read, so the invariant has to say what the files on disk stand for, and *)
(* that this is still true when a half-finished command acts on it.        *)
(***************************************************************************)

\* What verify-deploy demands of the state file, and mark-deployed again.
Authorized(v) ==
    /\ state[v].status = IF Migrating(v) THEN "migrated" ELSE "prepared"
    /\ Migrating(v) => attestation[v] # NoAttestation

\* A record names a base the database serves; an app-only one needs no more.
RecordSound(v) ==
    Recorded(v) =>
        /\ Migrating(v) \/ Sql[v] = Sql[state[v].base]
        /\ Sql[state[v].base] \subseteq schema
        /\ state[v].status # "deployed" => v \in staged

\* An attestation vouches for the whole tree of its candidate.
AttestationSound(v) ==
    /\ attestation[v] # NoAttestation =>
        /\ Sql[v] \subseteq schema
        /\ \A m \in Sql[v] : m <= attestation[v]
    /\ state[v].status \in {"migrated", "deployed"} /\ Migrating(v) =>
        attestation[v] # NoAttestation

\* The running manager command: what it checked before is still so.
ManagerSound ==
    /\ Sql[Baseline] \subseteq schema
    /\ Sql[manager.base] \subseteq schema
    /\ manager.step \in {"stage", "record"} => ~Recorded(manager.version)
    /\ manager.step = "record" => manager.version \in staged
    /\ manager.step \in {"backup", "apply", "attest", "note"} =>
        /\ Recorded(manager.version)
        /\ Migrating(manager.version)
        /\ state[manager.version].status # "deployed"
    /\ manager.step = "attest" => Sql[manager.version] \subseteq schema
    /\ manager.step = "note" => attestation[manager.version] # NoAttestation
    /\ manager.step = "discard" => state[manager.version].status = "deployed"

\* The steps between verify-deploy and mark-deployed.
FreshStep == {"preserve", "backup", "unpack", "venv"}
PendingStep == FreshStep \union TrappedStep \union {"finalize", "rollback"}

\* The running deployment: authorised, and where it says it is.
DeploySound ==
    /\ Sql[deploy.version] \subseteq schema
    /\ Sql[deploy.base] \subseteq schema
    /\ deploy.step \in PendingStep =>
        /\ Authorized(deploy.version)
        /\ deploy.base = state[deploy.version].base
        /\ current = IF deploy.switched THEN deploy.version ELSE deploy.base
    /\ deploy.step \in {"restart", "health", "postbackup", "finalize", "rollback"} =>
        deploy.switched
    /\ deploy.step \in FreshStep => ~deploy.switched
    /\ deploy.step \in {"health", "postbackup", "finalize"} => running = deploy.version

FilesInv ==
    /\ \A v \in Versions : RecordSound(v) /\ AttestationSound(v)
    /\ ManagerSound

HostInv == DeploySound /\ SchemaCoversCode

Inv == TypeOK /\ FilesInv /\ HostInv

\* Nothing is recorded or deployed at the start: the invariant holds.
LEMMA InitInv == Init => Inv
<1> SUFFICES ASSUME Init PROVE Inv
  OBVIOUS
<1>1. TypeOK
  BY TypeCorrectInit
<1>2. FilesInv
  BY ReleaseConstants DEF Init, ManagerInit, FilesInv, RecordSound, AttestationSound,
     ManagerSound, Recorded, AbsentState, IdleManager, NoAttestation, Releases
<1>3. HostInv
  BY DEF Init, ManagerInit, HostInv, DeploySound, SchemaCoversCode, IdleDeploy,
     PendingStep, FreshStep, TrappedStep
<1> QED
  BY <1>1, <1>2, <1>3 DEF Inv

\* A manager command may change the files and the database, and each of its
\* steps keeps what the records, the attestations and the command stand for.
LEMMA ManagerKeepsFiles ==
    ASSUME Inv, ManagerNext
    PROVE  FilesInv' /\ schema \subseteq schema'
<1> USE DEF Inv, FilesInv
<1>1. CASE \E v \in Versions : StartPrepare(v, current)
  BY <1>1 DEF StartPrepare, RecordSound, AttestationSound, ManagerSound, Recorded,
     Migrating, HostInv, SchemaCoversCode
<1>2. CASE \E v \in Versions : StartMigrate(v, current)
  BY <1>2 DEF StartMigrate, RecordSound, AttestationSound, ManagerSound, Recorded,
     Migrating, HostInv, SchemaCoversCode
<1>3. CASE StageCandidate
  BY <1>3 DEF StageCandidate, RecordSound, AttestationSound, ManagerSound, Recorded,
     Migrating, TypeOK
<1>4. CASE RecordCandidate(Exists(manager.base))
  <2>1. manager.version \in Versions /\ manager.step = "record"
    BY <1>4 DEF RecordCandidate, TypeOK
  <2>2. ASSUME NEW v \in Versions PROVE (RecordSound(v) /\ AttestationSound(v))'
    BY <1>4, <2>1 DEF RecordCandidate, RecordSound, AttestationSound, ManagerSound,
       Recorded, Migrating, Classify, TypeOK
  <2>3. ManagerSound'
    BY <1>4, <2>1, ReleaseConstants DEF RecordCandidate, ManagerSound, IdleManager,
       Recorded, HostInv, DeploySound
  <2> QED
    BY <1>4, <2>2, <2>3 DEF RecordCandidate
<1>5. CASE BackupBeforeMigrate
  BY <1>5 DEF BackupBeforeMigrate, RecordSound, AttestationSound, ManagerSound, Recorded,
     Migrating, TypeOK, IdleManager
<1>6. CASE ApplyMigration
  <2>1. schema \subseteq schema' /\ UNCHANGED <<staged, state, attestation, manager>>
    BY <1>6 DEF ApplyMigration
  <2> QED
    BY <2>1 DEF RecordSound, AttestationSound, ManagerSound, Recorded, Migrating
<1>7. CASE CheckMigrated
  BY <1>7 DEF CheckMigrated, RecordSound, AttestationSound, ManagerSound, Recorded,
     Migrating, TypeOK, IdleManager
<1>8. CASE WriteAttestation
  <2>1. PICK n \in schema \union {NoAttestation} :
            /\ IsSchemaVersion(n, schema)
            /\ attestation' = [attestation EXCEPT ![manager.version] = n]
    BY <1>8 DEF WriteAttestation
  <2>2. manager.version \in Versions /\ manager.step = "attest"
    BY <1>8 DEF WriteAttestation, TypeOK
  <2>3. /\ Sql[manager.version] \subseteq schema
        /\ Sql[manager.version] # {}
    BY <2>2, ReleaseConstants DEF ManagerSound, Releases
  <2>4. n # NoAttestation /\ \A m \in Sql[manager.version] : m <= n
    BY <2>1, <2>3 DEF IsSchemaVersion, NoAttestation, TypeOK
  <2>5. ASSUME NEW v \in Versions PROVE (RecordSound(v) /\ AttestationSound(v))'
    BY <1>8, <2>1, <2>2, <2>3, <2>4 DEF WriteAttestation, RecordSound, AttestationSound,
       Recorded, Migrating, TypeOK
  <2>6. ManagerSound'
    BY <1>8, <2>1, <2>2, <2>4 DEF WriteAttestation, ManagerSound, Recorded, Migrating,
       TypeOK
  <2> QED
    BY <1>8, <2>5, <2>6 DEF WriteAttestation
<1>9. CASE NoteMigrated
  <2>1. manager.version \in Versions /\ manager.step = "note"
    BY <1>9 DEF NoteMigrated, TypeOK
  <2>2. ASSUME NEW v \in Versions PROVE (RecordSound(v) /\ AttestationSound(v))'
    BY <1>9, <2>1 DEF NoteMigrated, RecordSound, AttestationSound, ManagerSound,
       Recorded, Migrating, TypeOK, StateRecord
  <2>3. ManagerSound'
    BY <1>9 DEF NoteMigrated, ManagerSound, IdleManager, HostInv, SchemaCoversCode
  <2> QED
    BY <1>9, <2>2, <2>3 DEF NoteMigrated
<1>10. CASE DiscardStage
  BY <1>10 DEF DiscardStage, RecordSound, AttestationSound, ManagerSound, Recorded,
     Migrating, TypeOK, IdleManager
<1>11. CASE ManagerStops
  BY <1>11 DEF ManagerStops, RecordSound, AttestationSound, ManagerSound, Recorded,
     Migrating, TypeOK, IdleManager
<1> QED
  BY <1>1, <1>2, <1>3, <1>4, <1>5, <1>6, <1>7, <1>8, <1>9, <1>10, <1>11
     DEF ManagerNext, ManagerProgress

\* A manager command, even one for the very version that is being deployed,
\* takes nothing away that the deployment relies on.
LEMMA ManagerKeepsHost ==
    ASSUME Inv, ManagerNext
    PROVE  HostInv'
<1> USE DEF Inv, FilesInv
<1>1. FilesInv' /\ schema \subseteq schema'
  BY ManagerKeepsFiles
<1>2. UNCHANGED <<current, running, deploy>>
  BY DEF ManagerNext, hostVars
<1>3. ASSUME NEW v \in Versions, Recorded(v), state[v].status # "deployed"
      PROVE  /\ UNCHANGED <<state[v].type, state[v].base>>
             /\ \/ UNCHANGED state[v].status
                \/ Migrating(v) /\ state'[v].status = "migrated"
  <2>1. CASE RecordCandidate(Exists(manager.base))
    <3>1. manager.version # v
      BY <1>3, <2>1 DEF RecordCandidate, ManagerSound
    <3> QED
      BY <1>3, <2>1, <3>1 DEF RecordCandidate, TypeOK
  <2>2. CASE NoteMigrated
    <3>1. manager.version \in Versions /\ Migrating(manager.version)
      BY <2>2 DEF NoteMigrated, ManagerSound, TypeOK
    <3> QED
      BY <1>3, <2>2, <3>1 DEF NoteMigrated, TypeOK, StateRecord
  <2>3. CASE UNCHANGED state
    BY <2>3
  <2> QED
    BY <2>1, <2>2, <2>3 DEF ManagerNext, ManagerProgress, StartPrepare, StartMigrate,
       StageCandidate, BackupBeforeMigrate, ApplyMigration, CheckMigrated,
       WriteAttestation, DiscardStage, ManagerStops
<1>4. ASSUME deploy.step \in PendingStep
      PROVE  /\ Authorized(deploy.version)'
             /\ UNCHANGED state[deploy.version].base
  <2>1. deploy.version \in Versions /\ Authorized(deploy.version)
    BY <1>4 DEF HostInv, DeploySound, TypeOK, PendingStep, FreshStep, TrappedStep
  <2>2. /\ Recorded(deploy.version)
        /\ state[deploy.version].status # "deployed"
    BY <2>1 DEF Authorized, Recorded
  <2>3. AttestationSound(deploy.version)'
    BY <1>1, <1>2, <2>1
  <2> QED
    BY <1>2, <1>3, <2>1, <2>2, <2>3 DEF Authorized, Migrating, AttestationSound
<1>5. DeploySound'
  BY <1>1, <1>2, <1>4 DEF HostInv, DeploySound
<1>6. SchemaCoversCode'
  BY <1>1, <1>2 DEF HostInv, SchemaCoversCode
<1> QED
  BY <1>5, <1>6 DEF HostInv

\* What verify-deploy accepts is authorised and needs nothing the database lacks.
LEMMA BeginDeployAuthorized ==
    ASSUME Inv, NEW v \in Versions, BeginDeploy(v)
    PROVE  /\ Sql[v] \subseteq schema
           /\ Sql[state[v].base] \subseteq schema
           /\ deploy'.step \in PendingStep => Authorized(v)
           /\ deploy'.step \in FreshStep => current = state[v].base
           /\ deploy'.step \notin FreshStep => current = v
<1> DEFINE mode == DeploymentMode(v, current, Exists(v), Exists(state[v].base))
<1>1. mode # "rejected" /\ mode \in {"fresh", "resume", "complete"}
  BY DEF BeginDeploy, DeploymentMode
<1>2. /\ Recorded(v)
      /\ mode = "fresh" => current # v /\ StateFilesValid(v, current)
      /\ mode # "fresh" => current = v
      /\ mode # "complete" => Authorized(v)
      /\ mode = "complete" => state[v].status = "deployed"
      /\ Migrating(v) => attestation[v] # NoAttestation
  BY <1>1 DEF DeploymentMode, Authorized
<1>3. deploy'.step = CASE mode = "fresh" -> "preserve"
                       [] mode = "resume" -> "units"
                       [] mode = "complete" -> "confirm"
  BY DEF BeginDeploy
<1>4. RecordSound(v) /\ AttestationSound(v)
  BY DEF Inv, FilesInv
<1> HIDE DEF mode
<1>5. \/ mode = "fresh" /\ deploy'.step = "preserve"
      \/ mode = "resume" /\ deploy'.step = "units"
      \/ mode = "complete" /\ deploy'.step = "confirm"
  BY <1>1, <1>3
<1> QED
  BY <1>2, <1>4, <1>5 DEF RecordSound, AttestationSound, StateFilesValid, PendingStep,
     FreshStep, TrappedStep

\* A step that leaves the manager's files and the database alone keeps what they
\* stand for.
LEMMA SameFiles ==
    ASSUME FilesInv, UNCHANGED managerVars
    PROVE  FilesInv'
  BY DEF managerVars, FilesInv, RecordSound, AttestationSound, ManagerSound, Recorded,
     Migrating

\* One step of the deployment itself, from verify-deploy to the end of the
\* rollback handler.
LEMMA DeployKeepsInv ==
    ASSUME Inv, DeployProgress \/ \E v \in Versions : BeginDeploy(v)
    PROVE  FilesInv' /\ HostInv'
<1> USE DEF Inv, HostInv, DeploySound, SchemaCoversCode, PendingStep, FreshStep,
            TrappedStep, Authorized, Migrating, managerVars
<1>0. deploy \in Deployment
  BY DEF TypeOK
<1> USE DEF Deployment
<1>1. CASE \E v \in Versions : BeginDeploy(v)
  <2>1. PICK v \in Versions : BeginDeploy(v)
    BY <1>1
  <2>2. /\ Sql[v] \subseteq schema
        /\ Sql[state[v].base] \subseteq schema
        /\ deploy'.step \in PendingStep => Authorized(v)
        /\ deploy'.step \in FreshStep => current = state[v].base
        /\ deploy'.step \notin FreshStep => current = v
    BY <2>1, BeginDeployAuthorized
  <2>3. /\ deploy'.version = v /\ deploy'.base = state[v].base
        /\ deploy'.step \in {"preserve", "units", "confirm"}
        /\ deploy'.switched = (deploy'.step = "units")
        /\ UNCHANGED <<managerVars, current, running>>
    <3> DEFINE mode == DeploymentMode(v, current, Exists(v), Exists(state[v].base))
    <3>1. mode # "rejected" /\ mode \in {"fresh", "resume", "complete"}
      BY <2>1 DEF BeginDeploy, DeploymentMode
    <3>2. deploy' = [step |-> CASE mode = "fresh" -> "preserve"
                                [] mode = "resume" -> "units"
                                [] mode = "complete" -> "confirm",
                     version |-> v, base |-> state[v].base,
                     switched |-> mode = "resume"]
      BY <2>1 DEF BeginDeploy
    <3>3. UNCHANGED <<managerVars, current, running>>
      BY <2>1 DEF BeginDeploy
    <3> HIDE DEF mode
    <3>4. CASE mode = "fresh"
      BY <3>2, <3>3, <3>4
    <3>5. CASE mode = "resume"
      BY <3>2, <3>3, <3>5
    <3>6. CASE mode = "complete"
      BY <3>2, <3>3, <3>6
    <3> QED
      BY <3>1, <3>4, <3>5, <3>6
  <2>4. HostInv'
    BY <2>2, <2>3
  <2> QED
    BY <2>1, <2>4, SameFiles DEF BeginDeploy
<1>2. CASE ConfirmDeployed
  BY <1>0, <1>2, SameFiles DEF ConfirmDeployed, IdleDeploy, FilesInv, ManagerSound
<1>3. CASE PreserveFailedRelease
  BY <1>0, <1>3, SameFiles DEF PreserveFailedRelease, IdleDeploy, Goto, FilesInv, ManagerSound
<1>4. CASE BackupBeforeDeploy
  BY <1>0, <1>4, SameFiles DEF BackupBeforeDeploy, Goto
<1>5. CASE UnpackRelease
  BY <1>0, <1>5, SameFiles DEF UnpackRelease, Goto
<1>6. CASE InstallVenv
  BY <1>0, <1>6, SameFiles DEF InstallVenv, Goto
<1>7. CASE InstallUnits
  BY <1>0, <1>7, SameFiles DEF InstallUnits, Goto
<1>8. CASE SwitchCurrent
  BY <1>0, <1>8, SameFiles DEF SwitchCurrent
<1>9. CASE RestartBackend
  BY <1>0, <1>9, SameFiles DEF RestartBackend, Goto
<1>10. CASE AwaitHealth
  BY <1>0, <1>10, SameFiles DEF AwaitHealth, Goto
<1>11. CASE BackupAfterDeploy
  BY <1>0, <1>11, SameFiles DEF BackupAfterDeploy, Goto
<1>12. CASE Finalize
  <2>1. CASE ReadyToFinalize(deploy.version, current)
    <3>1. /\ deploy.version \in Versions
          /\ Migrating(deploy.version) => attestation[deploy.version] # NoAttestation
      BY <1>12, <2>1 DEF Finalize, ReadyToFinalize, TypeOK
    <3>2. /\ MarkDeployed(deploy.version, current)
          /\ Goto("finalizing")
          /\ UNCHANGED <<current, running>>
      BY <1>12, <2>1 DEF Finalize
    <3>3. ASSUME NEW v \in Versions PROVE (RecordSound(v) /\ AttestationSound(v))'
      BY <3>1, <3>2 DEF MarkDeployed, ReadyToFinalize, FilesInv, RecordSound,
         AttestationSound, Recorded, TypeOK, StateRecord
    <3>4. ManagerSound'
      BY <3>1, <3>2 DEF MarkDeployed, FilesInv, ManagerSound, TypeOK, StateRecord
    <3>5. HostInv'
      BY <1>0, <3>2 DEF MarkDeployed, Goto
    <3> QED
      BY <3>3, <3>4, <3>5 DEF FilesInv
  <2>2. CASE ~ReadyToFinalize(deploy.version, current)
    BY <1>0, <1>12, <2>2, SameFiles DEF Finalize, IdleDeploy, FilesInv, ManagerSound
  <2> QED
    BY <2>1, <2>2
<1>13. CASE EndDeploy
  BY <1>0, <1>13, SameFiles DEF EndDeploy, IdleDeploy, FilesInv, ManagerSound
<1>14. CASE RollBackCurrent
  BY <1>0, <1>14, SameFiles DEF RollBackCurrent, Goto
<1>15. CASE RestoreBackend
  BY <1>0, <1>15, SameFiles DEF RestoreBackend, IdleDeploy, FilesInv, ManagerSound
<1> QED
  BY <1>1, <1>2, <1>3, <1>4, <1>5, <1>6, <1>7, <1>8, <1>9, <1>10, <1>11, <1>12, <1>13,
     <1>14, <1>15 DEF DeployProgress

\* A failure, a kill or a restart at any point.
LEMMA FailuresKeepInv ==
    ASSUME Inv,
           \/ UntrappedFailure \/ TrappedFailure \/ DeployKilled
           \/ ServiceRestarts \/ HostRestarts
    PROVE  FilesInv' /\ HostInv'
<1> USE DEF Inv, HostInv, DeploySound, SchemaCoversCode, PendingStep, FreshStep,
            TrappedStep, Authorized, Migrating, managerVars
<1>0. deploy \in Deployment
  BY DEF TypeOK
<1> USE DEF Deployment
<1>1. CASE UntrappedFailure \/ DeployKilled
  BY <1>1, SameFiles DEF UntrappedFailure, DeployKilled, IdleDeploy, FilesInv, ManagerSound
<1>2. CASE TrappedFailure
  BY <1>0, <1>2, SameFiles DEF TrappedFailure, IdleDeploy, FilesInv, ManagerSound
<1>3. CASE ServiceRestarts
  BY <1>0, <1>3, SameFiles DEF ServiceRestarts
<1>4. CASE HostRestarts
  <2>1. FilesInv'
    BY <1>4 DEF HostRestarts, FilesInv, RecordSound, AttestationSound, ManagerSound,
       Recorded, IdleManager
  <2>2. HostInv'
    BY <1>4 DEF HostRestarts, IdleDeploy, FilesInv, ManagerSound
  <2> QED
    BY <2>1, <2>2
<1> QED
  BY <1>1, <1>2, <1>3, <1>4

\* Every step of the manager, the deployment and the environment keeps the invariant.
LEMMA NextInv == Inv /\ [Next]_vars => Inv'
<1> SUFFICES ASSUME Inv, [Next]_vars PROVE Inv'
  OBVIOUS
<1>1. TypeOK'
  BY TypeCorrectNext DEF Inv
<1>2. CASE ManagerNext
  BY <1>1, <1>2, ManagerKeepsFiles, ManagerKeepsHost DEF Inv
<1>3. CASE DeployProgress \/ \E v \in Versions : BeginDeploy(v)
  BY <1>1, <1>3, DeployKeepsInv DEF Inv
<1>4. CASE \/ UntrappedFailure \/ TrappedFailure \/ DeployKilled
           \/ ServiceRestarts \/ HostRestarts
  BY <1>1, <1>4, FailuresKeepInv DEF Inv
<1>5. CASE UNCHANGED vars
  <2>1. HostInv'
    BY <1>5 DEF vars, managerVars, hostVars, Inv, HostInv, DeploySound, SchemaCoversCode,
       Authorized, Migrating
  <2> QED
    BY <1>1, <1>5, <2>1, SameFiles DEF vars, Inv
<1> QED
  BY <1>2, <1>3, <1>4, <1>5 DEF Next

\* The inductive invariant holds in every reachable state of the host.
LEMMA Invariant == Spec => []Inv
  BY InitInv, NextInv, PTL DEF Spec

\* Whatever prepare, migrate, deploy, failure or rollback happens in whatever
\* order, the selected and the running release find their migrations applied.
THEOREM SchemaCoversCodeAlways == Spec => []SchemaCoversCode
<1>1. Inv => SchemaCoversCode
  BY DEF Inv, HostInv
<1> QED
  BY <1>1, Invariant, PTL

\* A status that says migrated stands for a database that holds the whole tree.
THEOREM AttestedSchemaHoldsAlways == Spec => []AttestedSchemaHolds
<1>1. Inv => AttestedSchemaHolds
  BY DEF Inv, FilesInv, AttestationSound, AttestedSchemaHolds
<1> QED
  BY <1>1, Invariant, PTL

\* The staged tree outlives every failure until its release is deployed.
THEOREM CandidateKeptForRetryAlways == Spec => []CandidateKeptForRetry
<1>1. Inv => CandidateKeptForRetry
  BY DEF Inv, FilesInv, RecordSound, CandidateKeptForRetry
<1> QED
  BY <1>1, Invariant, PTL

\* mark-deployed never refuses the candidate that passed its health check.
THEOREM HealthyCandidateFinalizesAlways == Spec => []HealthyCandidateFinalizes
<1>1. Inv => HealthyCandidateFinalizes
  BY DEF Inv, HostInv, DeploySound, PendingStep, TrappedStep, Authorized, Migrating,
     ReadyToFinalize, HealthyCandidateFinalizes, TypeOK, Deployment
<1> QED
  BY <1>1, Invariant, PTL

----------------------------------------------------------------------------
(***************************************************************************)
(* ReleaseControl implements ReleasePolicy.  Four kinds of step change the *)
(* abstract state: the state file of a new candidate, a migration, the two *)
(* moves of the current link and mark-deployed; every other step stutters. *)
(***************************************************************************)

\* Without a change to link, database and state files the policy sees a stutter.
LEMMA SamePolicyState ==
    ASSUME UNCHANGED <<state, schema, current>>
    PROVE  UNCHANGED Policy!policyVars
  BY DEF Policy!policyVars, Recorded

\* The host starts where the policy starts.
LEMMA PolicyInitially == Init => Policy!PolicyInit
  BY DEF Init, ManagerInit, Policy!PolicyInit, Recorded, AbsentState

\* A manager command records, migrates or commits, or does nothing the policy sees.
LEMMA ManagerFollowsPolicy ==
    ASSUME Inv, ManagerNext
    PROVE  [Policy!PolicyNext]_Policy!policyVars
<1> USE DEF Inv, FilesInv
<1>1. UNCHANGED current
  BY DEF ManagerNext, hostVars
<1>2. CASE RecordCandidate(Exists(manager.base))
  <2>1. CASE ~Exists(manager.base)
    BY <1>1, <1>2, <2>1, SamePolicyState DEF RecordCandidate
  <2>2. CASE Exists(manager.base)
    <3>0. PICK cand \in Versions : cand = manager.version
      BY <1>2 DEF RecordCandidate, TypeOK
    <3>1. ~Recorded(cand) /\ Sql[manager.base] \subseteq schema
             /\ manager.base \in Releases
      BY <1>2, <3>0 DEF RecordCandidate, ManagerSound, TypeOK
    <3>2. state' = [state EXCEPT ![cand] = [status |-> "prepared",
                                         type |-> Classify(cand, manager.base),
                                         base |-> manager.base]]
      BY <1>2, <2>2, <3>0 DEF RecordCandidate
    <3>3. \A w \in Versions : Recorded(w)' <=> Recorded(w) \/ w = cand
      BY <3>1, <3>2 DEF Recorded, TypeOK
    <3>4. \A w \in Versions : (state[w].status = "deployed")' <=> state[w].status = "deployed"
      BY <3>1, <3>2 DEF Recorded, TypeOK
    <3>5. \A w \in Versions : state'[w].base = IF w = cand THEN manager.base ELSE state[w].base
      BY <3>1, <3>2 DEF TypeOK
    <3>6. UNCHANGED schema
      BY <1>2 DEF RecordCandidate
    <3>7. Policy!Record(cand)
      BY <1>1, <3>1, <3>3, <3>4, <3>5, <3>6 DEF Policy!Record
    <3> QED
      BY <3>7 DEF Policy!PolicyNext
  <2> QED
    BY <2>1, <2>2
<1>3. CASE ApplyMigration
  <2>1. PICK m \in Sql[manager.version] : schema' = schema \union {m}
    BY <1>3 DEF ApplyMigration
  <2>2. /\ manager.version \in Versions /\ Recorded(manager.version)
        /\ state[manager.version].status # "deployed"
    BY <1>3 DEF ApplyMigration, ManagerSound, TypeOK
  <2>3. UNCHANGED state
    BY <1>3 DEF ApplyMigration
  <2>4. Policy!Migrate
    BY <1>1, <2>1, <2>2, <2>3 DEF Policy!Migrate, Recorded
  <2> QED
    BY <2>4 DEF Policy!PolicyNext
<1>4. CASE NoteMigrated
  <2>1. /\ manager.version \in Versions /\ Recorded(manager.version)
        /\ state[manager.version].status # "deployed"
    BY <1>4 DEF NoteMigrated, ManagerSound, TypeOK
  <2>2. /\ state' = [state EXCEPT ![manager.version].status = "migrated"]
        /\ UNCHANGED schema
    BY <1>4 DEF NoteMigrated
  <2>3. \A w \in Versions :
            /\ Recorded(w)' <=> Recorded(w)
            /\ (state[w].status = "deployed")' <=> state[w].status = "deployed"
            /\ state'[w].base = state[w].base
    BY <2>1, <2>2 DEF Recorded, TypeOK, StateRecord
  <2>4. {w \in Versions : Recorded(w)}' = {w \in Versions : Recorded(w)}
    BY <2>3 DEF Recorded
  <2>5. {w \in Versions : state[w].status = "deployed"}'
           = {w \in Versions : state[w].status = "deployed"}
    BY <2>3 DEF Recorded
  <2>6. [w \in {w \in Versions : Recorded(w)} |-> state[w].base]'
           = [w \in {w \in Versions : Recorded(w)} |-> state[w].base]
    BY <2>3, <2>4 DEF Recorded
  <2> QED
    BY <1>1, <2>2, <2>5, <2>6 DEF Policy!policyVars
<1>5. CASE UNCHANGED <<state, schema>>
  BY <1>1, <1>5, SamePolicyState
<1> QED
  BY <1>2, <1>3, <1>4, <1>5 DEF ManagerNext, ManagerProgress, StartPrepare, StartMigrate,
     StageCandidate, BackupBeforeMigrate, CheckMigrated, WriteAttestation, DiscardStage,
     ManagerStops

\* The deployment activates, reverts or commits, or does nothing the policy sees.
LEMMA DeployFollowsPolicy ==
    ASSUME Inv, DeployProgress
    PROVE  [Policy!PolicyNext]_Policy!policyVars
<1> USE DEF Inv, HostInv, DeploySound, PendingStep, FreshStep, TrappedStep
<1>1. CASE SwitchCurrent
  <2>0. PICK cand \in Versions : cand = deploy.version
    BY <1>1 DEF SwitchCurrent, TypeOK
  <2>1. /\ current' = cand
        /\ UNCHANGED <<state, schema>>
        /\ Authorized(cand)
        /\ deploy.base = state[cand].base
        /\ current = IF deploy.switched THEN cand ELSE deploy.base
        /\ Sql[cand] \subseteq schema
    BY <1>1, <2>0 DEF SwitchCurrent, managerVars
  <2>2. Recorded(cand) /\ state[cand].status # "deployed"
    BY <2>1 DEF Authorized, Recorded
  <2>3. CASE deploy.switched
    BY <2>1, <2>3, SamePolicyState
  <2>4. CASE ~deploy.switched
    <3>1. Policy!Activate(cand)
      BY <2>1, <2>2, <2>4 DEF Policy!Activate, Recorded
    <3> QED
      BY <3>1 DEF Policy!PolicyNext
  <2> QED
    BY <2>3, <2>4
<1>2. CASE RollBackCurrent
  <2>0. PICK cand \in Versions : cand = deploy.version
    BY <1>2 DEF RollBackCurrent, TypeOK
  <2>1. /\ current = cand
        /\ current' = state[cand].base
        /\ UNCHANGED <<state, schema>>
        /\ Authorized(cand)
    BY <1>2, <2>0 DEF RollBackCurrent, managerVars
  <2>2. Recorded(cand) /\ state[cand].status # "deployed"
    BY <2>1 DEF Authorized, Recorded
  <2>3. Policy!Revert(cand)
    BY <2>1, <2>2 DEF Policy!Revert, Recorded
  <2> QED
    BY <2>3 DEF Policy!PolicyNext
<1>3. CASE Finalize
  <2>0. PICK cand \in Versions : cand = deploy.version
    BY <1>3 DEF Finalize, TypeOK
  <2>1. CASE ReadyToFinalize(cand, current)
    <3>1. /\ current = cand
          /\ Recorded(cand)
          /\ state' = [state EXCEPT ![cand].status = "deployed"]
          /\ UNCHANGED <<schema, current>>
      BY <1>3, <2>0, <2>1 DEF Finalize, MarkDeployed, ReadyToFinalize, Recorded
    <3>2. \A w \in Versions :
              /\ Recorded(w)' <=> Recorded(w)
              /\ (state[w].status = "deployed")' <=> state[w].status = "deployed" \/ w = cand
              /\ state'[w].base = state[w].base
      BY <3>1 DEF Recorded, TypeOK, StateRecord
    <3>3. Policy!Commit(cand)
      BY <3>1, <3>2 DEF Policy!Commit
    <3> QED
      BY <3>3 DEF Policy!PolicyNext
  <2>2. CASE ~ReadyToFinalize(cand, current)
    BY <1>3, <2>0, <2>2, SamePolicyState DEF Finalize, managerVars
  <2> QED
    BY <2>1, <2>2
<1>4. CASE UNCHANGED <<state, schema, current>>
  BY <1>4, SamePolicyState
<1> QED
  BY <1>1, <1>2, <1>3, <1>4 DEF DeployProgress, managerVars, ConfirmDeployed,
     PreserveFailedRelease, BackupBeforeDeploy, UnpackRelease, InstallVenv, InstallUnits,
     RestartBackend, AwaitHealth, BackupAfterDeploy, EndDeploy, RestoreBackend

\* Every step of the host is a step of the policy or leaves its state alone.
LEMMA NextFollowsPolicy ==
    Inv /\ [Next]_vars => [Policy!PolicyNext]_Policy!policyVars
<1> SUFFICES ASSUME Inv, [Next]_vars PROVE [Policy!PolicyNext]_Policy!policyVars
  OBVIOUS
<1>1. CASE ManagerNext
  BY <1>1, ManagerFollowsPolicy
<1>2. CASE DeployProgress
  BY <1>2, DeployFollowsPolicy
<1>3. CASE UNCHANGED <<state, schema, current>>
  BY <1>3, SamePolicyState
<1> QED
  BY <1>1, <1>2, <1>3 DEF Next, vars, managerVars, hostVars, BeginDeploy,
     UntrappedFailure, TrappedFailure, DeployKilled, ServiceRestarts, HostRestarts

\* The pipeline keeps its promises: a switch only from the release a candidate
\* was prepared against, a rollback only of an uncommitted candidate.
THEOREM ReleaseImplementsPolicy == Spec => ImplementsPolicy
  BY PolicyInitially, Invariant, NextFollowsPolicy, PTL
     DEF Spec, ImplementsPolicy, Policy!PolicySpec

-------------------------------------------------------------------------------
(* The release the link selects is intact: a rollback goes back along the
   chain of bases, and no deployment touches a release of that chain. *)
Known(r) == r \in Versions => Recorded(r)

\* Bases were recorded before what was prepared against them: ranks grow with time.
Older(rank) ==
    \A v \in Versions : Recorded(v) =>
        Known(state[v].base) /\ rank[state[v].base] < rank[v]

\* The releases of the chain are those a sequence of rollbacks could reach.
Chain(rank, chain) ==
    /\ current \in chain
    /\ \A r \in chain :
        /\ releaseDir[r] = "ready" /\ rank[r] <= rank[current]
        /\ r \in Versions => Recorded(r) /\ state[r].base \in chain

ChainIntact ==
    \E rank \in [Releases -> Nat], chain \in SUBSET Releases : Older(rank) /\ Chain(rank, chain)

BaseKnown == manager.step \in {"stage", "record"} => Known(manager.base)

CandidateReady ==
    deploy.step \in {"units", "switch"} /\ ~deploy.switched => releaseDir[deploy.version] = "ready"

IntactInv == ChainIntact /\ BaseKnown /\ CandidateReady

\* At the start the baseline is the whole chain.
LEMMA IntactInit == Init => IntactInv
<1> SUFFICES ASSUME Init PROVE IntactInv
  OBVIOUS
<1>1. ChainIntact
  <2> DEFINE rank == [r \in Releases |-> 0]
  <2>1. rank \in [Releases -> Nat] /\ {Baseline} \in SUBSET Releases
    BY DEF Releases
  <2>2. Older(rank) /\ Chain(rank, {Baseline})
    BY ReleaseConstants DEF Init, ManagerInit, Older, Chain, Recorded, AbsentState, Releases
  <2> QED
    BY <2>1, <2>2 DEF ChainIntact
<1> QED
  BY <1>1 DEF Init, ManagerInit, IdleManager, IdleDeploy, IntactInv, BaseKnown, CandidateReady

\* Where the link stays, the chain stays, as long as its directories do and no
\* record is lost or given another base.
LEMMA ChainStays ==
    ASSUME TypeOK, ChainIntact, current' = current,
           \A v \in Versions : (Recorded(v)' <=> Recorded(v)) /\ state'[v].base = state[v].base,
           \A r \in Releases :
              (r \in Versions /\ Recorded(r) => state[r].base # current) => releaseDir'[r] = releaseDir[r]
    PROVE  ChainIntact'
<1>1. PICK rank \in [Releases -> Nat], chain \in SUBSET Releases : Older(rank) /\ Chain(rank, chain)
  BY DEF ChainIntact
<1>2. Older(rank)'
  BY <1>1 DEF Older, Known, TypeOK, StateRecord
<1>3. ASSUME NEW r \in chain PROVE releaseDir'[r] = releaseDir[r]
  <2>1. rank[r] <= rank[current] /\ rank[r] \in Nat /\ rank[current] \in Nat
    BY <1>1 DEF Chain, TypeOK
  <2>2. ASSUME r \in Versions, Recorded(r), state[r].base = current PROVE FALSE
    BY <1>1, <2>1, <2>2 DEF Older
  <2> QED
    BY <2>2
<1>4. Chain(rank, chain)'
  BY <1>1, <1>3 DEF Chain
<1> QED
  BY <1>1, <1>2, <1>4 DEF ChainIntact

\* A new record is younger than its base and outside the chain.
LEMMA ChainWithRecord ==
    ASSUME Inv, IntactInv, RecordCandidate(Exists(manager.base)), UNCHANGED hostVars
    PROVE  ChainIntact'
<1>1. CASE ~Exists(manager.base)
  BY <1>1, ChainStays DEF RecordCandidate, hostVars, IntactInv, Recorded, Inv
<1>2. CASE Exists(manager.base)
  <2>0. PICK new \in Releases : new = manager.version
    BY DEF Inv, TypeOK
  <2>1. PICK base \in Releases : base = manager.base
    BY DEF Inv, TypeOK
  <2>2. new \in Versions /\ ~Recorded(new) /\ Known(base)
    BY <2>0, <2>1 DEF RecordCandidate, Inv, TypeOK, FilesInv, ManagerSound, IntactInv, BaseKnown
  <2>3. \A v \in Versions : /\ Recorded(v)' <=> Recorded(v) \/ v = new
                            /\ state'[v].base = IF v = new THEN base ELSE state[v].base
    <3>1. state' = [state EXCEPT ![new] = [status |-> "prepared", type |-> Classify(new, base),
                                           base |-> base]]
      BY <1>2, <2>0, <2>1 DEF RecordCandidate
    <3> QED
      BY <2>2, <3>1 DEF Recorded, Inv, TypeOK, StateRecord
  <2>4. PICK rank \in [Releases -> Nat], chain \in SUBSET Releases : Older(rank) /\ Chain(rank, chain)
    BY DEF IntactInv, ChainIntact
  <2>5. PICK later \in [Releases -> Nat] : later = [rank EXCEPT ![new] = rank[base] + 1]
    <3>1. [rank EXCEPT ![new] = rank[base] + 1] \in [Releases -> Nat]
      BY <2>0, <2>1, <2>4
    <3> QED
      BY <3>1
  <2>6. base # new /\ new \notin chain
    BY <2>2, <2>4 DEF Chain, Known
  <2>7. ASSUME NEW v \in Versions, Recorded(v)'
        PROVE  Known(state[v].base)' /\ later[state'[v].base] < later[v]
    <3>1. CASE v = new
      <4>1. state'[v].base = base /\ later[base] < later[v]
        BY <2>3, <2>4, <2>5, <2>6, <3>1
      <4>2. base \in Versions => Recorded(base)'
        BY <2>2, <2>3 DEF Known
      <4> QED
        BY <4>1, <4>2 DEF Known, Recorded
    <3>2. CASE v # new
      <4>1. Recorded(v) /\ state'[v].base = state[v].base
        BY <2>3, <2>7, <3>2
      <4>2. Known(state[v].base) /\ rank[state[v].base] < rank[v] /\ state[v].base \in Releases
        BY <2>4, <4>1 DEF Older, Inv, TypeOK, StateRecord
      <4>3. state[v].base # new
        BY <2>2, <4>2 DEF Known
      <4>4. Known(state[v].base)'
        BY <2>3, <4>1, <4>2 DEF Known, Recorded
      <4> QED
        BY <2>4, <2>5, <3>2, <4>1, <4>2, <4>3, <4>4 DEF Releases
    <3> QED
      BY <3>1, <3>2
  <2>8. Older(later)'
    BY <2>7 DEF Older
  <2>9. current \in chain /\ current' = current /\ releaseDir' = releaseDir
    BY <2>4 DEF Chain, hostVars
  <2>10. ASSUME NEW r \in chain
         PROVE  /\ releaseDir[r] = "ready" /\ later[r] <= later[current]
                /\ r \in Versions => Recorded(r)' /\ state'[r].base \in chain
    BY <2>3, <2>4, <2>5, <2>6, <2>9 DEF Chain
  <2>11. Chain(later, chain)'
    BY <2>9, <2>10 DEF Chain
  <2> QED
    BY <2>4, <2>5, <2>8, <2>11 DEF ChainIntact
<1> QED
  BY <1>1, <1>2

\* The switch puts the candidate on top of the chain.
LEMMA ChainAtSwitch ==
    ASSUME Inv, IntactInv, SwitchCurrent
    PROVE  ChainIntact'
<1>1. /\ deploy.version \in Versions /\ Recorded(deploy.version)
      /\ deploy.base = state[deploy.version].base
      /\ current = IF deploy.switched THEN deploy.version ELSE deploy.base
  BY DEF SwitchCurrent, Inv, TypeOK, HostInv, DeploySound, PendingStep, TrappedStep,
     Authorized, Recorded
<1>2. current' = deploy.version /\ UNCHANGED <<state, releaseDir>>
  BY DEF SwitchCurrent, managerVars
<1>3. CASE deploy.switched
  BY <1>1, <1>2, <1>3, ChainStays DEF IntactInv, Inv, Recorded
<1>4. CASE ~deploy.switched
  <2>1. PICK rank \in [Releases -> Nat], chain \in SUBSET Releases : Older(rank) /\ Chain(rank, chain)
    BY DEF IntactInv, ChainIntact
  <2>2. rank[current] < rank[deploy.version] /\ releaseDir[deploy.version] = "ready"
    BY <1>1, <1>4, <2>1 DEF Older, IntactInv, CandidateReady, SwitchCurrent
  <2>3. PICK longer \in SUBSET Releases : longer = chain \union {deploy.version}
    BY <1>1, <2>1 DEF Releases
  <2>4. Older(rank)'
    BY <1>2, <2>1 DEF Older, Known, Recorded
  <2>5. \A r \in chain : rank[r] \in Nat /\ rank[current] \in Nat /\ rank[deploy.version] \in Nat
    BY <1>1, <2>1 DEF Inv, TypeOK, Releases
  <2>6. Chain(rank, longer)'
    BY <1>1, <1>2, <1>4, <2>1, <2>2, <2>3, <2>5 DEF Chain, Recorded, Inv, TypeOK, Releases
  <2> QED
    BY <2>1, <2>3, <2>4, <2>6 DEF ChainIntact
<1> QED
  BY <1>3, <1>4

\* A rollback takes the top off.
LEMMA ChainAtRollback ==
    ASSUME Inv, IntactInv, RollBackCurrent
    PROVE  ChainIntact'
<1>1. /\ deploy.version \in Versions /\ Recorded(deploy.version)
      /\ deploy.base = state[deploy.version].base /\ current = deploy.version
  BY DEF RollBackCurrent, Inv, TypeOK, HostInv, DeploySound, PendingStep, Authorized, Recorded
<1>2. current' = state[current].base /\ UNCHANGED <<state, releaseDir>>
  BY <1>1 DEF RollBackCurrent, managerVars
<1>3. PICK rank \in [Releases -> Nat], chain \in SUBSET Releases : Older(rank) /\ Chain(rank, chain)
  BY DEF IntactInv, ChainIntact
<1>r. PICK rest \in SUBSET Releases : rest = {r \in chain : rank[r] <= rank[current']}
  BY <1>3
<1>4. current' \in rest
  BY <1>1, <1>2, <1>3, <1>r DEF Chain, Inv, TypeOK, StateRecord
<1>5. Older(rank)'
  BY <1>2, <1>3 DEF Older, Known, Recorded
<1>6. ASSUME NEW r \in rest, r \in Versions PROVE Recorded(r) /\ state[r].base \in rest
  <2>1. Recorded(r) /\ state[r].base \in chain /\ rank[state[r].base] < rank[r]
    BY <1>3, <1>6, <1>r DEF Chain, Older
  <2>2. rank[r] \in Nat /\ rank[state[r].base] \in Nat /\ rank[current'] \in Nat
    BY <1>3, <1>4, <1>r, <2>1
  <2> QED
    BY <2>1, <2>2, <1>r
<1>7. Chain(rank, rest)'
  BY <1>2, <1>3, <1>4, <1>6, <1>r DEF Chain, Recorded
<1> QED
  BY <1>3, <1>5, <1>7, <1>r DEF ChainIntact

\* The steps that unpack a candidate touch nothing of the chain.
LEMMA ChainWhileUnpacking ==
    ASSUME Inv, IntactInv, PreserveFailedRelease \/ UnpackRelease \/ InstallVenv
    PROVE  ChainIntact'
<1>1. deploy.step \in FreshStep
  BY DEF PreserveFailedRelease, UnpackRelease, InstallVenv, FreshStep
<1>2. deploy.version \in Versions /\ Recorded(deploy.version) /\ current = state[deploy.version].base
  BY <1>1 DEF Inv, TypeOK, HostInv, DeploySound, PendingStep, FreshStep, Authorized, Recorded
<1>3. current' = current /\ state' = state
  BY DEF PreserveFailedRelease, UnpackRelease, InstallVenv, managerVars
<1>4. \A r \in Releases : releaseDir'[r] = releaseDir[r] \/ r = deploy.version
  BY DEF PreserveFailedRelease, UnpackRelease, InstallVenv, Inv, TypeOK
<1>5. \A v \in Versions : (Recorded(v)' <=> Recorded(v)) /\ state'[v].base = state[v].base
  BY <1>3 DEF Recorded
<1> QED
  BY <1>2, <1>3, <1>4, <1>5, ChainStays DEF IntactInv, Inv

\* Every step of the manager, the deployment and the environment.
LEMMA IntactNext == Inv /\ IntactInv /\ [Next]_vars => IntactInv'
<1> SUFFICES ASSUME Inv, IntactInv, [Next]_vars PROVE IntactInv'
  OBVIOUS
<1>1. ChainIntact'
  <2>1. CASE RecordCandidate(Exists(manager.base)) /\ UNCHANGED hostVars
    BY <2>1, ChainWithRecord
  <2>2. CASE NoteMigrated /\ UNCHANGED hostVars
    <3>1. \A v \in Versions : (Recorded(v)' <=> Recorded(v)) /\ state'[v].base = state[v].base
      BY <2>2 DEF NoteMigrated, Recorded, Inv, TypeOK, StateRecord, FilesInv, ManagerSound
    <3> QED
      BY <2>2, <3>1, ChainStays DEF hostVars, IntactInv, Inv
  <2>3. CASE Finalize
    <3>1. \A v \in Versions : (Recorded(v)' <=> Recorded(v)) /\ state'[v].base = state[v].base
      BY <2>3 DEF Finalize, MarkDeployed, ReadyToFinalize, Recorded, managerVars, Inv, TypeOK,
         StateRecord
    <3> QED
      BY <2>3, <3>1, ChainStays DEF Finalize, IntactInv, Inv
  <2>4. CASE SwitchCurrent
    BY <2>4, ChainAtSwitch
  <2>5. CASE RollBackCurrent
    BY <2>5, ChainAtRollback
  <2>6. CASE PreserveFailedRelease \/ UnpackRelease \/ InstallVenv
    BY <2>6, ChainWhileUnpacking
  <2>7. CASE UNCHANGED <<state, current, releaseDir>>
    BY <2>7, ChainStays DEF IntactInv, Inv, Recorded
  <2> QED
    BY <2>1, <2>2, <2>3, <2>4, <2>5, <2>6, <2>7
       DEF Next, ManagerNext, ManagerProgress, DeployProgress, vars, managerVars, hostVars,
       StartPrepare, StartMigrate, StageCandidate, BackupBeforeMigrate, ApplyMigration,
       CheckMigrated, WriteAttestation, DiscardStage, ManagerStops, BeginDeploy, ConfirmDeployed,
       BackupBeforeDeploy, InstallUnits, RestartBackend, AwaitHealth, BackupAfterDeploy, EndDeploy,
       RestoreBackend, UntrappedFailure, TrappedFailure, DeployKilled, ServiceRestarts, HostRestarts
<1>2. BaseKnown'
  <2>0. current \in Releases /\ Known(current)
    BY DEF IntactInv, ChainIntact, Chain, Known, Inv, TypeOK
  <2>1. \A r \in Releases : Known(r) => Known(r)'
    <3>1. \A v \in Versions : Recorded(v) => Recorded(v)'
      BY DEF Next, ManagerNext, ManagerProgress, DeployProgress, vars, managerVars, hostVars,
       StartPrepare, StartMigrate, StageCandidate, RecordCandidate, BackupBeforeMigrate,
       ApplyMigration, NoteMigrated, Finalize, MarkDeployed, SwitchCurrent, RollBackCurrent,
       PreserveFailedRelease, UnpackRelease, InstallVenv, Recorded, Inv, TypeOK, StateRecord,
       CheckMigrated, WriteAttestation, DiscardStage, ManagerStops, BeginDeploy, ConfirmDeployed,
       BackupBeforeDeploy, InstallUnits, RestartBackend, AwaitHealth, BackupAfterDeploy, EndDeploy,
       RestoreBackend, UntrappedFailure, TrappedFailure, DeployKilled, ServiceRestarts, HostRestarts
    <3> QED
      BY <3>1 DEF Known
  <2>2. manager.base \in Releases
    BY DEF Inv, TypeOK
  <2>3. \/ manager' = manager
        \/ manager'.step \notin {"stage", "record"}
        \/ manager'.step = "record" /\ manager.step = "stage" /\ manager'.base = manager.base
        \/ manager'.base = current
    BY DEF Next, ManagerNext, ManagerProgress, DeployProgress, vars, managerVars, hostVars,
       StartPrepare, StartMigrate, StageCandidate, RecordCandidate, BackupBeforeMigrate,
       ApplyMigration, NoteMigrated, Finalize, MarkDeployed, SwitchCurrent, RollBackCurrent,
       PreserveFailedRelease, UnpackRelease, InstallVenv, IdleManager, Inv, TypeOK,
       CheckMigrated, WriteAttestation, DiscardStage, ManagerStops, BeginDeploy, ConfirmDeployed,
       BackupBeforeDeploy, InstallUnits, RestartBackend, AwaitHealth, BackupAfterDeploy, EndDeploy,
       RestoreBackend, UntrappedFailure, TrappedFailure, DeployKilled, ServiceRestarts, HostRestarts
  <2>4. \A r \in Releases : Known(r) => (r \in Versions => Recorded(r)')
    BY <2>1 DEF Known
  <2> QED
    BY <2>0, <2>2, <2>3, <2>4 DEF IntactInv, BaseKnown, Known
<1>3. CandidateReady'
  <2>1. CASE InstallVenv
    BY <2>1 DEF InstallVenv, Goto, CandidateReady, Inv, TypeOK, Releases, Deployment
  <2>2. CASE \E v \in Versions : BeginDeploy(v)
    <3> PICK v \in Versions : BeginDeploy(v)
      BY <2>2
    <3> DEFINE mode == DeploymentMode(v, current, Exists(v), Exists(state[v].base))
    <3>1. mode \in {"fresh", "resume", "complete"}
      BY DEF BeginDeploy, DeploymentMode
    <3>2. deploy' = [step |-> CASE mode = "fresh" -> "preserve"
                                [] mode = "resume" -> "units"
                                [] mode = "complete" -> "confirm",
                     version |-> v, base |-> state[v].base, switched |-> mode = "resume"]
      BY DEF BeginDeploy
    <3> HIDE DEF mode
    <3> QED
      BY <3>1, <3>2 DEF CandidateReady
  <2>3. CASE InstallUnits
    BY <2>3 DEF InstallUnits, Goto, CandidateReady, IntactInv, Inv, TypeOK, Deployment
  <2>4. CASE UNCHANGED <<deploy, releaseDir>>
    BY <2>4 DEF CandidateReady, IntactInv
  <2>5. CASE deploy'.step \notin {"units", "switch"}
    BY <2>5 DEF CandidateReady
  <2>6. CASE ManagerNext \/ UNCHANGED vars \/ ServiceRestarts
    BY <2>4, <2>6 DEF ManagerNext, vars, hostVars, ServiceRestarts
  <2>7. CASE HostRestarts \/ UntrappedFailure \/ TrappedFailure \/ DeployKilled
    BY <2>5, <2>7 DEF HostRestarts, UntrappedFailure, TrappedFailure, DeployKilled, IdleDeploy,
       Inv, TypeOK, Deployment
  <2>8. CASE DeployProgress
    <3>1. deploy \in Deployment
      BY DEF Inv, TypeOK
    <3>2. CASE ConfirmDeployed \/ PreserveFailedRelease \/ BackupBeforeDeploy \/ UnpackRelease
      BY <2>5, <3>1, <3>2 DEF Goto, IdleDeploy, Deployment, ConfirmDeployed, PreserveFailedRelease,
         BackupBeforeDeploy, UnpackRelease
    <3>3. CASE SwitchCurrent \/ RestartBackend \/ AwaitHealth \/ BackupAfterDeploy
      BY <2>5, <3>1, <3>3 DEF Goto, Deployment, SwitchCurrent, RestartBackend, AwaitHealth,
         BackupAfterDeploy
    <3>4. CASE Finalize \/ EndDeploy \/ RollBackCurrent \/ RestoreBackend
      BY <2>5, <3>1, <3>4 DEF Goto, IdleDeploy, Deployment, Finalize, EndDeploy, RollBackCurrent,
         RestoreBackend
    <3> QED
      BY <2>1, <2>3, <2>8, <3>2, <3>3, <3>4 DEF DeployProgress
  <2> QED
    BY <2>2, <2>6, <2>7, <2>8 DEF Next
<1> QED
  BY <1>1, <1>2, <1>3 DEF IntactInv

\* Whatever is prepared, deployed, killed or rolled back, the link selects a release
\* that is unpacked and has its virtualenv, so that the service can start.
THEOREM ActiveReleaseIntactAlways == Spec => []ActiveReleaseIntact
<1>1. IntactInv => ActiveReleaseIntact
  BY DEF IntactInv, ChainIntact, Chain, ActiveReleaseIntact
<1> QED
  BY <1>1, IntactInit, IntactNext, Invariant, PTL DEF Spec
================================================================================
