---------------------------- MODULE ReleaseControl ----------------------------
(***************************************************************************)
(* The production host during releases: the release manager                *)
(* (ReleaseManager) together with infra/production/livesetlist-deploy, the *)
(* current link, the release directories and the running backend service.  *)
(*                                                                         *)
(* livesetlist-deploy holds its own lock, so there is one deployment at a  *)
(* time, and calls the manager only to verify and to finalise.  Between    *)
(* those two calls nothing keeps a prepare or a migrate of another version *)
(* from running: an SSH disconnect frees the workflow's concurrency group  *)
(* and leaves the deployment running.                                      *)
(***************************************************************************)
EXTENDS ReleaseManager

VARIABLES
    current,     \* the release the current link selects
    running,     \* the release whose code the backend service was started from
    releaseDir,  \* releaseDir[r]: what is under releases/livesetlist-r
    deploy       \* the running livesetlist-deploy

hostVars == <<current, running, releaseDir, deploy>>
vars == <<managerVars, faults, hostVars>>

\* A tree is unpacked first; it is ready once its virtualenv is installed.
DirState == {"absent", "unpacked", "ready"}

\* The steps whose failure just ends the script, those under the ERR trap,
\* and the two of the rollback handler itself.
UntrappedStep == {"confirm", "preserve", "backup", "unpack", "venv", "finalize"}
TrappedStep == {"units", "switch", "restart", "health", "postbackup"}
RollbackStep == {"rollback", "restore"}
DeployStep == {"idle", "finalizing"} \union UntrappedStep \union TrappedStep \union RollbackStep

Deployment == [step : DeployStep, version : Releases, base : Releases,
               switched : BOOLEAN]
IdleDeploy == [step |-> "idle", version |-> Baseline, base |-> Baseline,
               switched |-> FALSE]

Exists(r) == releaseDir[r] # "absent"

Init ==
    /\ ManagerInit
    /\ current = Baseline
    /\ running = Baseline
    /\ releaseDir = [r \in Releases |-> IF r = Baseline THEN "ready" ELSE "absent"]
    /\ deploy = IdleDeploy

----------------------------------------------------------------------------
(***************************************************************************)
(* The deployment, step by step.                                           *)
(***************************************************************************)
Goto(step) == deploy' = [deploy EXCEPT !.step = step]

\* verify-deploy authorises a mode and names the release to fall back to.
\* A rejected version ends the script before it changed anything.
BeginDeploy(v) ==
    LET mode == DeploymentMode(v, current, Exists(v), Exists(state[v].base))
    IN /\ deploy.step = "idle"
       /\ manager.step = "idle"
       /\ mode # "rejected"
       /\ deploy' = [step |-> CASE mode = "fresh" -> "preserve"
                                [] mode = "resume" -> "units"
                                [] mode = "complete" -> "confirm",
                     version |-> v, base |-> state[v].base,
                     switched |-> mode = "resume"]
       /\ UNCHANGED <<managerVars, faults, current, running, releaseDir>>

\* An already deployed release is only waited for.
ConfirmDeployed ==
    /\ deploy.step = "confirm"
    /\ deploy' = IdleDeploy
    /\ UNCHANGED <<managerVars, faults, current, running, releaseDir>>

PreserveRefusesLeftover ==
    /\ deploy.step = "preserve"
    /\ deploy' = IF Exists(deploy.version) THEN IdleDeploy
                 ELSE [deploy EXCEPT !.step = "backup"]
    /\ UNCHANGED <<managerVars, faults, current, running, releaseDir>>

PreserveReusesLeftover ==
    /\ deploy.step = "preserve"
    /\ IF Exists(deploy.version) THEN Goto("units") ELSE Goto("backup")
    /\ UNCHANGED <<managerVars, faults, current, running, releaseDir>>

\* A leftover directory of the candidate is moved aside, unless it is active.
PreserveFailedRelease ==
    /\ deploy.step = "preserve"
    /\ IF Exists(deploy.version) /\ (current = deploy.version \/ ~Exists(current))
       THEN deploy' = IdleDeploy /\ UNCHANGED releaseDir
       ELSE /\ Goto("backup")
            /\ releaseDir' = [releaseDir EXCEPT ![deploy.version] = "absent"]
    /\ UNCHANGED <<managerVars, faults, current, running>>

BackupBeforeDeploy ==
    /\ deploy.step = "backup"
    /\ Goto("unpack")
    /\ UNCHANGED <<managerVars, faults, current, running, releaseDir>>

UnpackRelease ==
    /\ deploy.step = "unpack"
    /\ Goto("venv")
    /\ releaseDir' = [releaseDir EXCEPT ![deploy.version] = "unpacked"]
    /\ UNCHANGED <<managerVars, faults, current, running>>

InstallVenv ==
    /\ deploy.step = "venv"
    /\ Goto("units")
    /\ releaseDir' = [releaseDir EXCEPT ![deploy.version] = "ready"]
    /\ UNCHANGED <<managerVars, faults, current, running>>

\* The candidate's systemd units are installed; no rollback puts the old ones back.
InstallUnits ==
    /\ deploy.step = "units"
    /\ Goto("switch")
    /\ UNCHANGED <<managerVars, faults, current, running, releaseDir>>

SwitchCurrent ==
    /\ deploy.step = "switch"
    /\ current' = deploy.version
    /\ deploy' = [deploy EXCEPT !.step = "restart", !.switched = TRUE]
    /\ UNCHANGED <<managerVars, faults, running, releaseDir>>

RestartBackendReload ==
    /\ deploy.step = "restart"
    /\ Goto("health")
    /\ UNCHANGED <<managerVars, faults, current, running, releaseDir>>

RestartBackend ==
    /\ deploy.step = "restart"
    /\ running' = current
    /\ Goto("health")
    /\ UNCHANGED <<managerVars, faults, current, releaseDir>>

AwaitHealth ==
    /\ deploy.step = "health"
    /\ Goto("postbackup")
    /\ UNCHANGED <<managerVars, faults, current, running, releaseDir>>

BackupAfterDeploy ==
    /\ deploy.step = "postbackup"
    /\ Goto("finalize")
    /\ UNCHANGED <<managerVars, faults, current, running, releaseDir>>

\* mark-deployed waits for the release lock; a refusal keeps the candidate.
Finalize ==
    /\ deploy.step = "finalize"
    /\ manager.step = "idle"
    /\ IF ReadyToFinalize(deploy.version, current)
       THEN MarkDeployed(deploy.version, current) /\ Goto("finalizing")
       ELSE deploy' = IdleDeploy /\ UNCHANGED <<managerVars, faults>>
    /\ UNCHANGED <<current, running, releaseDir>>

EndDeployTrapped ==
    /\ deploy.step = "finalizing"
    /\ manager.step # "discard"
    /\ Goto("rollback")
    /\ UNCHANGED <<managerVars, faults, current, running, releaseDir>>

\* mark-deployed has returned.
EndDeploy ==
    /\ deploy.step = "finalizing"
    /\ manager.step # "discard"
    /\ deploy' = IdleDeploy
    /\ UNCHANGED <<managerVars, faults, current, running, releaseDir>>

RollBackCurrent ==
    /\ deploy.step = "rollback"
    /\ current' = deploy.base
    /\ Goto("restore")
    /\ UNCHANGED <<managerVars, faults, running, releaseDir>>

\* The restart in the handler is best effort; systemd starts the service again.
RestoreBackend ==
    /\ deploy.step = "restore"
    /\ running' = current
    /\ deploy' = IdleDeploy
    /\ UNCHANGED <<managerVars, faults, current, releaseDir>>

DeployProgress ==
    \/ ConfirmDeployed \/ PreserveFailedRelease \/ BackupBeforeDeploy
    \/ UnpackRelease \/ InstallVenv \/ InstallUnits \/ SwitchCurrent
    \/ RestartBackend \/ AwaitHealth \/ BackupAfterDeploy
    \/ Finalize \/ EndDeploy \/ RollBackCurrent \/ RestoreBackend

----------------------------------------------------------------------------
(***************************************************************************)
(* Failures.                                                               *)
(***************************************************************************)
Fault == faults < MaxFaults /\ faults' = faults + 1

\* Before the trap is set, and after it is cleared, a failure ends the script.
UntrappedFailure ==
    /\ deploy.step \in UntrappedStep
    /\ Fault
    /\ deploy' = IdleDeploy
    /\ UNCHANGED <<managerVars, current, running, releaseDir>>

\* Under the trap it rolls back what was switched.
TrappedFailure ==
    /\ deploy.step \in TrappedStep
    /\ Fault
    /\ deploy' = IF deploy.switched THEN [deploy EXCEPT !.step = "rollback"]
                 ELSE IdleDeploy
    /\ UNCHANGED <<managerVars, current, running, releaseDir>>

\* The handler clears the trap first: if it fails it just exits.  A kill at
\* any step looks the same; a manager command it waits for runs on.
DeployKilled ==
    /\ deploy.step # "idle"
    /\ Fault
    /\ deploy' = IdleDeploy
    /\ UNCHANGED <<managerVars, current, running, releaseDir>>

\* systemd starts the backend through the current link (Restart=on-failure).
ServiceRestarts ==
    /\ running # current
    /\ Fault
    /\ running' = current
    /\ UNCHANGED <<managerVars, current, releaseDir, deploy>>

\* The host goes down with whatever was running and comes up again.
HostRestarts ==
    /\ Fault
    /\ manager' = IdleManager
    /\ deploy' = IdleDeploy
    /\ running' = current
    /\ UNCHANGED <<archived, staged, state, attestation, schema,
                   current, releaseDir>>

----------------------------------------------------------------------------
ManagerProgress ==
    \/ StageCandidate
    \/ RecordCandidate(Exists(manager.base))
    \/ BackupBeforeMigrate \/ ApplyMigration \/ CheckMigrated
    \/ WriteAttestation \/ NoteMigrated \/ DiscardStage

ManagerNext ==
    /\ \/ \E v \in Versions : StartPrepare(v, current) \/ StartMigrate(v, current)
       \/ ManagerProgress
       \/ ManagerStops
    /\ UNCHANGED hostVars

Next ==
    \/ ManagerNext
    \/ \E v \in Versions : BeginDeploy(v)
    \/ DeployProgress
    \/ UntrappedFailure \/ TrappedFailure \/ DeployKilled
    \/ ServiceRestarts \/ HostRestarts

Spec == Init /\ [][Next]_vars

\* A started command goes on until it ends or is stopped, and the operators
\* retry a release that can be migrated or deployed (runbook, the last section).
\* Both may wait for the release lock, which others release again and again,
\* and a waiting flock gets it in the end: strong fairness.
Fairness ==
    /\ SF_vars(DeployProgress)
    /\ WF_vars(ManagerProgress /\ UNCHANGED hostVars)
    /\ \A v \in Versions :
        /\ SF_vars(StartMigrate(v, current) /\ UNCHANGED hostVars)
        /\ SF_vars(BeginDeploy(v))

FairSpec == Spec /\ Fairness

----------------------------------------------------------------------------
(***************************************************************************)
(* Properties.                                                             *)
(***************************************************************************)

\* Every variable has its type, and a running command works on a candidate.
TypeOK ==
    /\ archived \subseteq Versions
    /\ staged \subseteq Versions
    /\ state \in [Versions -> StateRecord]
    /\ attestation \in [Versions -> Nat]
    /\ schema \subseteq Nat \ {0}
    /\ manager \in [step : ManagerStep, version : Releases, base : Releases]
    /\ manager.step # "idle" => manager.version \in Versions
    /\ faults \in Nat
    /\ current \in Releases
    /\ running \in Releases
    /\ releaseDir \in [Releases -> DirState]
    /\ deploy \in Deployment
    /\ deploy.step # "idle" => deploy.version \in Versions

\* Migrations run before the switch and are never undone: whatever the order
\* of prepares, migrates, deployments, failures and rollbacks, the release the
\* link selects and the code that is running find all their migrations applied.
SchemaCoversCode ==
    /\ Sql[current] \subseteq schema
    /\ Sql[running] \subseteq schema

\* The link never selects a release that was moved aside or is only half
\* installed, not even after a rollback, so the service can always start.
ActiveReleaseIntact == releaseDir[current] = "ready"

\* A status that says "migrated" is backed by an attestation, and everything
\* the candidate's tree holds, up to the attested version, is in the database.
AttestedSchemaHolds ==
    \A v \in Versions :
        state[v].status \in {"migrated", "deployed"} /\ Migrating(v) =>
            /\ Sql[v] \subseteq schema
            /\ \A m \in Sql[v] : m <= attestation[v]

\* A recorded candidate keeps its staged tree until it is deployed: a retry of
\* prepare, migrate or a fresh deployment finds it.
CandidateKeptForRetry ==
    \A v \in Versions :
        Recorded(v) /\ state[v].status # "deployed" => v \in staged

\* Once the candidate passed its health check it is what runs, and nothing a
\* concurrent manager command does can make mark-deployed refuse it.
HealthyCandidateFinalizes ==
    deploy.step \in {"postbackup", "finalize"} =>
        /\ running = deploy.version
        /\ ReadyToFinalize(deploy.version, current)

\* What the pipeline promises (ReleasePolicy): a switch is only to an
\* uncommitted candidate from the very release it was prepared against, a
\* rollback only of an uncommitted one, and a committed release is never
\* rolled back.
Policy == INSTANCE ReleasePolicy WITH
    Candidates <- Versions,
    active <- current,
    applied <- schema,
    plan <- [v \in {w \in Versions : Recorded(w)} |-> state[v].base],
    committed <- {v \in Versions : state[v].status = "deployed"}

ImplementsPolicy == Policy!PolicySpec

\* A prepared release that is retried converges: it becomes deployed, unless
\* another release took the place of the one it was prepared against, or the
\* database left the path its migrations can continue.
RetryConverges ==
    \A v \in Versions :
        Recorded(v) ~> \/ state[v].status = "deployed"
                       \/ current \notin {v, state[v].base}
                       \/ Migrating(v) /\ ~MigrateAccepts(Sql[v])
                       \/ Migrating(v) /\ ~(schema \subseteq Sql[v])

\* The runbook: a deployment is authorised when the database version is not
\* lower than the attested one and everything else still matches.
NotLowerIsAuthorized ==
    \A v \in Versions :
        /\ state[v].status = "migrated"
        /\ StateFilesValid(v, current)
        /\ \E m \in schema : m >= attestation[v]
        => DeploymentMode(v, current, Exists(v), Exists(current)) = "fresh"
==============================================================================
