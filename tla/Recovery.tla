-------------------------------- MODULE Recovery --------------------------------
(***************************************************************************)
(* The recovery of the production database (recovery/core.py,              *)
(* docker_ops.py): the old container is set aside under a backup name, a    *)
(* candidate volume is filled from a dump and checked under the formal      *)
(* container name, and on the operator's word its data replaces that of     *)
(* the formal volume.  One action per docker command that changes           *)
(* something; any of them may report failure, having taken effect or not,   *)
(* and the script may be killed between any two.                            *)
(***************************************************************************)
EXTENDS Naturals

CONSTANT MaxRuns   \* bound on the recoveries started; the code has none

ASSUME RunsAssumption == MaxRuns \in Nat

VARIABLES
    pc,      \* the next step of recover_main_database, or how the last run ended
    run,     \* the timestamp suffix of the current or last run
    data,    \* volume |-> what is in it
    con,     \* container name |-> the volume it mounts, and whether it is up
    before   \* history: what the formal name served and held when the run began

vars == <<pc, run, data, con, before>>
-----------------------------------------------------------------------------
Runs == 1..MaxRuns

\* Volumes by name: the formal one, and a candidate and a snapshot per run.
Formal == <<"formal", 0>>
Cand(r) == <<"candidate", r>>
Snap(r) == <<"snapshot", r>>
Volumes == {Formal} \union ({"candidate", "snapshot"} \X Runs)

\* "live" is what the application wrote, "restored" a dump that passed every
\* step of the restore; "partial" is an incomplete copy or restore, or a mixture.
Content == {"absent", "empty", "partial", "live", "restored"}

\* Container names: the formal one, and the backup name of each run.
Main == 0
Names == 0..MaxRuns
NoVolume == <<"none", 0>>
NoContainer == [vol |-> NoVolume, up |-> FALSE]
On(v) == [vol |-> v, up |-> TRUE]
Exists(n) == con[n].vol # NoVolume
InUse(v) == \E n \in Names : con[n].vol = v

PrepareSteps == {"stopOld", "renameOld", "makeCand", "startCand", "restore", "check", "confirm"}
RollbackSteps == {"rbRemove", "rbVolume", "rbReturn", "rbStart"}
FinalizeSteps == {"stopCand", "removeCand", "makeSnap", "copySnap", "removeOld", "removeFormal",
                  "makeFormal", "copyFormal", "dropCand", "startFormal", "cleanStale"}
HandlerSteps == {"hRemove", "hVolume", "hMake", "hCopy", "hStart"}
Ended == {"none", "done", "rolledBack", "restored", "aborted", "killed"}
Steps == PrepareSteps \union RollbackSteps \union FinalizeSteps \union HandlerSteps
           \union {"dropSnap"} \union Ended

Init ==
    /\ pc = "none"
    /\ run = 0
    /\ data = [v \in Volumes |-> IF v = Formal THEN "live" ELSE "absent"]
    /\ con = [n \in Names |-> IF n = Main THEN On(Formal) ELSE NoContainer]
    /\ before = [vol |-> Formal, data |-> "live"]
-----------------------------------------------------------------------------
(* Commands.  A failed one raises SystemExit: the candidate phase rolls    *)
(* back, the finalization restores the snapshot, and a failure inside      *)
(* those, or after the finalization, ends the script.                      *)

Raise ==
    pc' = IF pc \in PrepareSteps THEN "rbRemove"
          ELSE IF pc \in FinalizeSteps THEN "hRemove" ELSE "aborted"

\* run_step: the new containers c and volumes d, or an error with or without them.
Command(c, d, next) ==
    /\ \/ con' = c /\ data' = d /\ pc' = next
       \/ con' \in {con, c} /\ data' \in {data, d} /\ Raise
    /\ UNCHANGED <<run, before>>

Skip(next) == pc' = next /\ UNCHANGED <<run, data, con, before>>

StopContainer(next) ==
    \/ con[Main].up /\ Command([con EXCEPT ![Main].up = FALSE], data, next)
    \/ ~con[Main].up /\ Skip(next)

RemoveContainer(n, next) ==
    \/ Exists(n) /\ Command([con EXCEPT ![n] = NoContainer], data, next)
    \/ ~Exists(n) /\ Skip(next)

Rename(from, to, next) ==
    Command([con EXCEPT ![to] = con[from], ![from] = NoContainer], data, next)

\* Docker refuses to remove a volume that a container mounts, even a stopped one.
RemoveVolume(v, next) ==
    \/ data[v] = "absent" /\ Skip(next)
    \/ data[v] # "absent" /\ ~InUse(v) /\ Command(con, [data EXCEPT ![v] = "absent"], next)
    \/ data[v] # "absent" /\ InUse(v) /\ Raise /\ UNCHANGED <<run, data, con, before>>

CreateVolume(v, next) ==
    \/ data[v] # "absent" /\ Skip(next)
    \/ data[v] = "absent" /\ Command(con, [data EXCEPT ![v] = "empty"], next)

\* docker run -v makes a missing source, empty; cp -a merges into the target.
CopyVolume(src, dst, next) ==
    LET source == IF data[src] = "absent" THEN "empty" ELSE data[src]
        merged == IF data[dst] = "empty" THEN source ELSE "partial"
        After(d) == [data EXCEPT ![src] = source, ![dst] = d]
    IN  \/ Command(con, After(merged), next)
        \/ Raise /\ data' = After("partial") /\ UNCHANGED <<run, con, before>>

\* docker compose up -d and the wait for readiness.  Compose knows the containers
\* of a service by labels, which a rename keeps: it may replace the ones set aside.
\* The volume is external, so a missing one is an error.  Whether PostgreSQL gets
\* ready on an empty or partial volume is left open; it adds no application data.
ComposeUp(v, next) ==
    \E replaced \in SUBSET (Names \ {Main}) :
        LET others == [n \in Names |-> IF n \in replaced THEN NoContainer ELSE con[n]]
        IN  /\ \/ /\ data[v] # "absent"
                  /\ con' = [others EXCEPT ![Main] = On(v)]
                  /\ pc' = next
               \/ /\ data[v] # "absent"
                  /\ con' \in {[others EXCEPT ![Main] = [vol |-> v, up |-> up]] : up \in BOOLEAN}
                  /\ Raise
               \/ con' = others /\ Raise
            /\ UNCHANGED <<run, data, before>>
-----------------------------------------------------------------------------
(* recover_main_database up to the operator's confirmation *)

\* The backup that starts a recovery needs the formal container, and starts it.
StartRun ==
    /\ pc \in Ended
    /\ run < MaxRuns
    /\ Exists(Main)
    /\ con' = [con EXCEPT ![Main].up = TRUE]
    /\ \/ /\ pc' = "stopOld"
          /\ run' = run + 1
          /\ before' = [vol |-> con[Main].vol, data |-> data[Formal]]
       \/ UNCHANGED <<pc, run, before>>
    /\ UNCHANGED data

\* A mutant: the old container is renamed while it runs.
StopOldRunning == pc = "stopOld" /\ Skip("renameOld")

StopOld == pc = "stopOld" /\ StopContainer("renameOld")
RenameOld == pc = "renameOld" /\ Rename(Main, run, "makeCand")
MakeCandidate == pc = "makeCand" /\ CreateVolume(Cand(run), "startCand")
StartCandidate == pc = "startCand" /\ ComposeUp(Cand(run), "restore")

RestoreCandidate ==
    /\ pc = "restore"
    /\ \/ data' = [data EXCEPT ![Cand(run)] = "restored"] /\ pc' = "check"
       \/ /\ \E d \in {"empty", "partial", "restored"} : data' = [data EXCEPT ![Cand(run)] = d]
          /\ Raise
    /\ UNCHANGED <<run, con, before>>

\* The test database and the functional checks, then the operator's yes.
CheckCandidate == pc = "check" /\ Command(con, data, "confirm")
ConfirmFinalize == pc = "confirm" /\ Command(con, data, "stopCand")
-----------------------------------------------------------------------------
(* rollback_candidate *)

RollbackContainer == pc = "rbRemove" /\ RemoveContainer(Main, "rbVolume")
RollbackVolume == pc = "rbVolume" /\ RemoveVolume(Cand(run), "rbReturn")

\* A mutant: nothing brings the old container back when it is not under its backup name.
ReturnOldRenamedOnly ==
    /\ pc = "rbReturn"
    /\ \/ Exists(run) /\ Rename(run, Main, "rbStart")
       \/ ~Exists(run) /\ Skip("rolledBack")

ReturnOld ==
    /\ pc = "rbReturn"
    /\ \/ Exists(run) /\ Rename(run, Main, "rbStart")
       \/ ~Exists(run) /\ ComposeUp(Formal, "rolledBack")

StartOld == pc = "rbStart" /\ Command([con EXCEPT ![Main].up = TRUE], data, "rolledBack")
-----------------------------------------------------------------------------
(* finalize_candidate_as_formal *)

StopCandidate == pc = "stopCand" /\ StopContainer("removeCand")
RemoveCandidate == pc = "removeCand" /\ RemoveContainer(Main, "makeSnap")
MakeSnapshot == pc = "makeSnap" /\ CreateVolume(Snap(run), "copySnap")

\* A mutant: the exit code of the copy is not looked at.
CopySnapshotUnchecked ==
    /\ pc = "copySnap"
    /\ \E d \in {"partial", data[Formal]} : data' = [data EXCEPT ![Snap(run)] = d]
    /\ pc' = "removeOld"
    /\ UNCHANGED <<run, con, before>>

CopySnapshot == pc = "copySnap" /\ CopyVolume(Formal, Snap(run), "removeOld")
RemoveOld == pc = "removeOld" /\ RemoveContainer(run, "removeFormal")

\* A mutant: the candidate is copied over the old formal volume.
RemoveFormalKept == pc = "removeFormal" /\ Skip("makeFormal")

RemoveFormal == pc = "removeFormal" /\ RemoveVolume(Formal, "makeFormal")
MakeFormal == pc = "makeFormal" /\ CreateVolume(Formal, "copyFormal")
CopyCandidate == pc = "copyFormal" /\ CopyVolume(Cand(run), Formal, "dropCand")
DropCandidate == pc = "dropCand" /\ RemoveVolume(Cand(run), "startFormal")
StartFormal == pc = "startFormal" /\ ComposeUp(Formal, "cleanStale")

\* docker ps may fail, which is ignored; a docker rm may fail, which is not.
CleanStale ==
    /\ pc = "cleanStale"
    /\ \/ Skip("dropSnap")
       \/ \E stale \in SUBSET (Names \ {Main}) :
             Command([n \in Names |-> IF n \in stale THEN NoContainer ELSE con[n]],
                     data, "dropSnap")

DropSnapshot == pc = "dropSnap" /\ RemoveVolume(Snap(run), "done")
-----------------------------------------------------------------------------
(* restore_formal_from_snapshot *)

HandlerContainer == pc = "hRemove" /\ RemoveContainer(Main, "hVolume")

\* A mutant: the snapshot is copied over what is left in the formal volume.
HandlerVolumeKept == pc = "hVolume" /\ Skip("hMake")

HandlerVolume == pc = "hVolume" /\ RemoveVolume(Formal, "hMake")
HandlerMake == pc = "hMake" /\ CreateVolume(Formal, "hCopy")
HandlerCopy == pc = "hCopy" /\ CopyVolume(Snap(run), Formal, "hStart")
HandlerStart == pc = "hStart" /\ ComposeUp(Formal, "restored")

\* The script is killed, or interrupted by Ctrl-C, which no handler catches.
Killed ==
    /\ pc \notin Ended
    /\ pc' = "killed"
    /\ UNCHANGED <<run, data, con, before>>

Next ==
    \/ StartRun \/ StopOld \/ RenameOld \/ MakeCandidate \/ StartCandidate
    \/ RestoreCandidate \/ CheckCandidate \/ ConfirmFinalize
    \/ RollbackContainer \/ RollbackVolume \/ ReturnOld \/ StartOld
    \/ StopCandidate \/ RemoveCandidate \/ MakeSnapshot \/ CopySnapshot
    \/ RemoveOld \/ RemoveFormal \/ MakeFormal \/ CopyCandidate
    \/ DropCandidate \/ StartFormal \/ CleanStale \/ DropSnapshot
    \/ HandlerContainer \/ HandlerVolume \/ HandlerMake \/ HandlerCopy \/ HandlerStart
    \/ Killed

Spec == Init /\ [][Next]_vars
-----------------------------------------------------------------------------
\* The step, the volumes and the containers have their types.
TypeOK ==
    /\ pc \in Steps
    /\ run \in Names
    /\ data \in [Volumes -> Content]
    /\ con \in [Names -> [vol : Volumes \union {NoVolume}, up : BOOLEAN]]
    /\ before \in [vol : Volumes, data : Content]

Whole(v) == data[v] \in {"live", "restored"}

\* Whatever fails and however often the script is killed and started again, some
\* volume holds a complete database, the old one or the restored one.
SomeVolumeIsWhole == \E v \in Volumes : Whole(v)

\* A volume is only copied, or overwritten, while no container runs on it.
QuietWhenCopied ==
    \A n \in Names :
        /\ pc = "copySnap" => con[n] # On(Formal)
        /\ pc = "copyFormal" => con[n] \notin {On(Formal), On(Cand(run))}
        /\ pc = "hCopy" => con[n] \notin {On(Formal), On(Snap(run))}

\* A run that reports success leaves the restored data served from the formal
\* volume under the formal name, and no candidate or snapshot of its own.
SuccessServesRestored ==
    pc = "done" =>
        /\ con[Main] = On(Formal)
        /\ data[Formal] = "restored"
        /\ data[Cand(run)] = "absent" /\ data[Snap(run)] = "absent"

\* A rollback that ends without an error serves again what was served before,
\* with the data it had.
RollbackServesOld ==
    pc = "rolledBack" /\ before.vol = Formal =>
        con[Main] = On(Formal) /\ data[Formal] = before.data

\* Once the snapshot is complete, a failed finalization that ends without a
\* further error serves the old data again.
SnapshotServesOld ==
    pc = "restored" /\ Whole(Snap(run)) =>
        con[Main] = On(Formal) /\ data[Formal] = before.data

\* What the comment on restore_formal_from_snapshot says: when the finalization
\* fails, the formal volume is restored from the snapshot taken before it.
FailedFinalizeRestoresOld ==
    pc = "restored" => data[Formal] = before.data
===============================================================================
