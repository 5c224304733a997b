---------------------------- MODULE ReleaseManager ----------------------------
(***************************************************************************)
(* infra/production/release_manager.py: the root-owned command that        *)
(* prepares a candidate release, migrates the production database for it,  *)
(* authorises its deployment and marks it deployed.                        *)
(*                                                                         *)
(* Every command holds the release lock from start to end (main), so at    *)
(* most one of them runs; but a command is a sequence of writes to disk    *)
(* and to the database, and it can be killed between any two of them.      *)
(* `manager' is that one running command.  The state of the files is what  *)
(* a later command finds.                                                  *)
(*                                                                         *)
(* A version always names the same archive (its SHA-256 is part of every   *)
(* command, and a mismatch changes nothing), so contents are a function of *)
(* the version and only the existence of files is state.  A Flyway tree is *)
(* the set of its migration numbers.                                       *)
(***************************************************************************)
EXTENDS Naturals, FiniteSets

CONSTANTS
    Versions,     \* versions that can be uploaded as candidates
    Baseline,     \* the release serving the site before any of them
    Sql,          \* Sql[r]: migration numbers in r's backend/db/flyway/sql
    MaxFaults     \* bound on kills, restarts and failing steps

Releases == Versions \union {Baseline}

ASSUME ReleaseConstants ==
    /\ Baseline \notin Versions
    /\ Sql \in [Releases -> SUBSET (Nat \ {0})]
    /\ \A r \in Releases : Sql[r] # {}
    /\ MaxFaults \in Nat

VARIABLES
    archived,     \* archives in the root-only store
    staged,       \* versions with a directory under staging
    state,        \* state[v]: the release-state JSON of v
    attestation,  \* attestation[v]: flyway_version_after, or NoAttestation
    schema,       \* migrations applied to the production database
    manager,      \* the running manager command
    faults        \* faults so far

managerVars == <<archived, staged, state, attestation, schema, manager>>

Status == {"absent", "prepared", "migrated", "deployed"}
ReleaseType == {"unknown", "app-only", "migration-needed"}
StateRecord == [status : Status, type : ReleaseType, base : Releases]
AbsentState == [status |-> "absent", type |-> "unknown", base |-> Baseline]

NoAttestation == 0

ManagerStep == {"idle", "stage", "record", "backup", "apply", "attest", "note",
                "discard"}
IdleManager == [step |-> "idle", version |-> Baseline, base |-> Baseline]

Recorded(v) == state[v].status # "absent"
Migrating(v) == state[v].type = "migration-needed"

ManagerInit ==
    /\ archived = {}
    /\ staged = {}
    /\ state = [v \in Versions |-> AbsentState]
    /\ attestation = [v \in Versions |-> NoAttestation]
    /\ schema = Sql[Baseline]
    /\ manager = IdleManager
    /\ faults = 0

----------------------------------------------------------------------------
(***************************************************************************)
(* Flyway, as the manager uses it: info, migrate and validate.             *)
(***************************************************************************)

\* schemaVersion in the info output: the highest applied migration.
IsSchemaVersion(n, applied) ==
    IF applied = {} THEN n = NoAttestation
                    ELSE n \in applied /\ \A m \in applied : m <= n

\* assert_flyway_info_ready: no migration is Pending, Missing or Future.
\* A resolved migration below the schema version that was never applied is
\* reported as Ignored, which is not one of the blocking states.
InfoReady(tree) ==
    /\ schema \subseteq tree
    /\ \A m \in tree \ schema : \E applied \in schema : m < applied

\* migrate validates first: an applied migration the tree lacks is tolerated
\* only when it is newer than the tree, an unapplied one only when it is newer
\* than the schema.
MigrateAccepts(tree) ==
    /\ \A m \in schema \ tree : \A t \in tree : t < m
    /\ \A m \in tree \ schema : \A applied \in schema : applied < m

----------------------------------------------------------------------------
(***************************************************************************)
(* prepare                                                                 *)
(***************************************************************************)

\* The workflow uploads the archive before it calls prepare, which keeps its
\* own copy; then a recorded version is only rechecked, and a staged tree
\* without a record is an error.
StartPrepare(v, current) ==
    /\ manager.step = "idle"
    /\ archived' = archived \union {v}
    /\ manager' = IF ~Recorded(v) /\ v \notin staged
                  THEN [step |-> "stage", version |-> v, base |-> current]
                  ELSE manager
    /\ UNCHANGED <<staged, state, attestation, schema, faults>>

\* os.replace moves the extracted tree into place.
StageCandidate ==
    /\ manager.step = "stage"
    /\ staged' = staged \union {manager.version}
    /\ manager' = [manager EXCEPT !.step = "record"]
    /\ UNCHANGED <<archived, state, attestation, schema, faults>>

\* prepare compares the two Flyway trees file by file.
ClassifyKeepsOldFiles(v, base) ==
    IF Sql[base] \subseteq Sql[v] THEN "app-only" ELSE "migration-needed"

Classify(v, base) ==
    IF Sql[base] = Sql[v] THEN "app-only" ELSE "migration-needed"

\* Classify against the release that was current when the command started,
\* and write the state file.  `kept' says that this release's directory is
\* still there; without it the command fails, leaving the staged tree.
RecordCandidate(kept) ==
    /\ manager.step = "record"
    /\ state' = IF ~kept THEN state
                ELSE [state EXCEPT ![manager.version] =
                        [status |-> "prepared",
                         type |-> Classify(manager.version, manager.base),
                         base |-> manager.base]]
    /\ manager' = IdleManager
    /\ UNCHANGED <<archived, staged, attestation, schema, faults>>

----------------------------------------------------------------------------
(***************************************************************************)
(* migrate                                                                 *)
(***************************************************************************)

\* validate_state_files: the candidate still stands where prepare put it, and
\* the release it was prepared against is still the current one.
StateFilesValid(v, current) ==
    /\ current = state[v].base
    /\ v \in staged

\* With an attestation only its version is compared with the database;
\* without one the whole sequence info, backup, migrate, validate, info runs.
StartMigrate(v, current) ==
    /\ manager.step = "idle"
    /\ Recorded(v) /\ Migrating(v)
    /\ state[v].status # "deployed"
    /\ StateFilesValid(v, current)
    /\ v \in archived
    /\ \/ /\ attestation[v] # NoAttestation
          /\ InfoReady(Sql[v])
          /\ IsSchemaVersion(attestation[v], schema)
          /\ manager' = [step |-> "note", version |-> v, base |-> current]
       \/ /\ attestation[v] = NoAttestation
          /\ manager' = [step |-> "backup", version |-> v, base |-> current]
    /\ UNCHANGED <<archived, staged, state, attestation, schema, faults>>

\* The verified backup exists; Flyway validates before it applies anything.
BackupBeforeMigrate ==
    /\ manager.step = "backup"
    /\ manager' = IF MigrateAccepts(Sql[manager.version])
                  THEN [manager EXCEPT !.step = "apply"]
                  ELSE IdleManager
    /\ UNCHANGED <<archived, staged, state, attestation, schema, faults>>

\* Each migration commits in its own transaction, lowest version first.
ApplyMigration ==
    /\ manager.step = "apply"
    /\ \E m \in Sql[manager.version] \ schema :
        /\ \A other \in Sql[manager.version] \ schema : m <= other
        /\ schema' = schema \union {m}
    /\ UNCHANGED <<archived, staged, state, attestation, manager, faults>>

CheckMigratedUnvalidated ==
    /\ manager.step = "apply"
    /\ manager' = [manager EXCEPT !.step = "attest"]
    /\ UNCHANGED <<archived, staged, state, attestation, schema, faults>>

\* validate and the second info: a database that is ahead of the candidate
\* stops the command here, after the migrations were applied.
CheckMigrated ==
    /\ manager.step = "apply"
    /\ Sql[manager.version] \subseteq schema
    /\ manager' = IF InfoReady(Sql[manager.version])
                  THEN [manager EXCEPT !.step = "attest"]
                  ELSE IdleManager
    /\ UNCHANGED <<archived, staged, state, attestation, schema, faults>>

WriteAttestation ==
    /\ manager.step = "attest"
    /\ \E n \in schema \union {NoAttestation} :
        /\ IsSchemaVersion(n, schema)
        /\ attestation' = [attestation EXCEPT ![manager.version] = n]
    /\ manager' = [manager EXCEPT !.step = "note"]
    /\ UNCHANGED <<archived, staged, state, schema, faults>>

NoteMigratedVerified ==
    /\ manager.step = "note"
    /\ state' = [state EXCEPT ![manager.version].status = "verified"]
    /\ manager' = IdleManager
    /\ UNCHANGED <<archived, staged, attestation, schema, faults>>

NoteMigrated ==
    /\ manager.step = "note"
    /\ state' = [state EXCEPT ![manager.version].status = "migrated"]
    /\ manager' = IdleManager
    /\ UNCHANGED <<archived, staged, attestation, schema, faults>>

----------------------------------------------------------------------------
(***************************************************************************)
(* verify-deploy and mark-deployed, called by livesetlist-deploy           *)
(***************************************************************************)

\* The deployment plan verify_deploy returns, or "rejected".  `intact' says
\* that v's release directory still holds the files of its archive, `kept'
\* that the directory of its base still exists.
DeploymentMode(v, current, intact, kept) ==
    LET mode == IF current # v THEN "fresh"
                ELSE IF state[v].status = "deployed" THEN "complete" ELSE "resume"
        expected == IF mode = "complete" THEN "deployed"
                    ELSE IF Migrating(v) THEN "migrated" ELSE "prepared"
        accepted ==
            /\ Recorded(v) /\ v \in archived
            /\ IF mode = "fresh" THEN StateFilesValid(v, current) ELSE intact
            /\ mode = "complete" \/ kept
            /\ state[v].status = expected
            /\ Migrating(v) => /\ attestation[v] # NoAttestation
                               /\ InfoReady(Sql[v])
                               /\ IsSchemaVersion(attestation[v], schema)
    IN IF accepted THEN mode ELSE "rejected"

\* What mark_deployed checks before it writes.
ReadyToFinalize(v, current) ==
    /\ current = v
    /\ state[v].status = IF Migrating(v) THEN "migrated" ELSE "prepared"
    /\ Migrating(v) => attestation[v] # NoAttestation

MarkDeployedDiscardFirst(v, current) ==
    /\ manager.step = "idle"
    /\ ReadyToFinalize(v, current)
    /\ staged' = staged \ {v}
    /\ manager' = [step |-> "discard", version |-> v, base |-> current]
    /\ UNCHANGED <<archived, state, attestation, schema, faults>>

\* mark_deployed writes the state file, then drops the staged tree.
MarkDeployed(v, current) ==
    /\ manager.step = "idle"
    /\ ReadyToFinalize(v, current)
    /\ state' = [state EXCEPT ![v].status = "deployed"]
    /\ manager' = [step |-> "discard", version |-> v, base |-> current]
    /\ UNCHANGED <<archived, staged, attestation, schema, faults>>

DiscardStage ==
    /\ manager.step = "discard"
    /\ staged' = staged \ {manager.version}
    /\ manager' = IdleManager
    /\ UNCHANGED <<archived, state, attestation, schema, faults>>

\* A command ends early: killed, or one of its steps failed.
ManagerStops ==
    /\ manager.step # "idle"
    /\ faults < MaxFaults
    /\ faults' = faults + 1
    /\ manager' = IdleManager
    /\ UNCHANGED <<archived, staged, state, attestation, schema>>
==============================================================================
