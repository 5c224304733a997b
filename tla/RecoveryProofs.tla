----------------------------- MODULE RecoveryProofs -----------------------------
(***************************************************************************)
(* Theorems about Recovery, for any number of runs.                         *)
(***************************************************************************)
EXTENDS Recovery, TLAPS

\* The part of the finalization that still has the candidate volume, and the part
\* that no longer needs the formal one because the snapshot is complete.
BeforeSnapshot == {"stopCand", "removeCand", "makeSnap", "copySnap"}
AfterSnapshot == FinalizeSteps \ BeforeSnapshot
AfterCopy == {"dropCand", "startFormal", "cleanStale"}

\* A run under way has a number.
RunNamed == pc \notin Ended => run \in Runs

\* The volumes of later runs do not exist yet.
VolumesFresh == \A r \in Runs : r > run => data[Cand(r)] = "absent" /\ data[Snap(r)] = "absent"

\* A copy starts from an empty target.
TargetsEmpty ==
    /\ pc \in PrepareSteps \union {"stopCand", "removeCand", "makeSnap"} => data[Snap(run)] = "absent"
    /\ pc = "copySnap" => data[Snap(run)] = "empty"
    /\ pc = "makeFormal" => data[Formal] = "absent"
    /\ pc = "copyFormal" => data[Formal] = "empty"

\* Where the complete copy is that the rest of the run, its failures included,
\* leaves alone: Elsewhere is a volume of an earlier run.
Elsewhere == \E v \in Volumes : v # Formal /\ v # Cand(run) /\ v # Snap(run) /\ Whole(v)

CopyKept ==
    /\ pc \in Ended => SomeVolumeIsWhole
    /\ pc \in PrepareSteps \union RollbackSteps \union BeforeSnapshot =>
         Elsewhere \/ Whole(Formal)
    /\ pc \in AfterSnapshot => Elsewhere \/ Whole(Snap(run))
    /\ pc \in {"check", "confirm"} \union (FinalizeSteps \ AfterCopy) =>
         data[Cand(run)] = "restored"
    /\ pc \in AfterCopy \union {"dropSnap"} => data[Formal] = "restored"
    /\ pc \in HandlerSteps => Elsewhere \/ Whole(Cand(run)) \/ Whole(Snap(run))

\* Containers set aside are stopped, and while volumes are exchanged the formal
\* name is free.
NameFree ==
    /\ \A n \in Runs : ~con[n].up
    /\ con[Main].up \/ pc = "rbStart" => Exists(Main)
    /\ pc = "renameOld" => ~con[Main].up
    /\ pc \in {"makeSnap", "copySnap", "removeOld", "removeFormal", "makeFormal", "copyFormal"}
         => con[Main] = NoContainer
    /\ pc \in {"rbVolume", "rbReturn", "hVolume", "hMake", "hCopy"} => con[Main] = NoContainer

\* The container that a rollback has to bring back: under its own name, under the
\* backup name, or replaced by Compose.
OldSetAside ==
    /\ \A r \in Runs : r > run => con[r] = NoContainer
    /\ pc \in {"stopOld", "renameOld"} => con[Main].vol = before.vol /\ con[run] = NoContainer
    /\ pc \in (PrepareSteps \ {"stopOld", "renameOld"}) \union {"rbRemove", "rbVolume", "rbReturn"}
         => con[run].vol \in {NoVolume, before.vol}
    /\ pc = "rbStart" => con[Main].vol = before.vol

\* The old data stays in the formal volume until it is in the snapshot.
OldDataKept ==
    /\ pc \in PrepareSteps \union RollbackSteps \union BeforeSnapshot => data[Formal] = before.data
    /\ pc \in FinalizeSteps \union HandlerSteps /\ Whole(Snap(run)) => data[Snap(run)] = before.data
    /\ pc = "hMake" => data[Formal] = "absent"
    /\ pc = "hCopy" => data[Formal] = "empty"
    /\ pc = "hStart" /\ Whole(Snap(run)) => data[Formal] = before.data

\* The end of a finalization that succeeds.
NewServed ==
    /\ pc \in {"startFormal", "cleanStale", "dropSnap"} => data[Cand(run)] = "absent"
    /\ pc \in {"cleanStale", "dropSnap"} => con[Main] = On(Formal)

Served == SuccessServesRestored /\ RollbackServesOld /\ SnapshotServesOld

TypeInv == TypeOK /\ RunNamed
DataInv == TypeInv /\ VolumesFresh /\ TargetsEmpty /\ CopyKept
ServedInv == NameFree /\ OldSetAside /\ OldDataKept /\ NewServed /\ Served
-----------------------------------------------------------------------------
\* Names of volumes that differ stand for different volumes.
LEMMA VolumeNames ==
    /\ Formal \in Volumes /\ NoVolume \notin Volumes
    /\ \A r \in Runs : /\ Cand(r) \in Volumes /\ Snap(r) \in Volumes
                       /\ Cand(r) # Formal /\ Snap(r) # Formal /\ Cand(r) # Snap(r)
    /\ \A r, s \in Runs : /\ Cand(r) # Snap(s)
                          /\ r # s => Cand(r) # Cand(s) /\ Snap(r) # Snap(s)
  BY DEF Formal, NoVolume, Volumes, Cand, Snap, Runs

\* Every run has a container name, other than the formal one.
LEMMA RunNames == /\ Runs \subseteq Names \ {Main}
                  /\ Main \in Names
                  /\ Names = Runs \union {Main}
                  /\ \A n \in Names : n \in Nat
  BY RunsAssumption DEF Runs, Names, Main

\* Where a failed command leads.
LEMMA RaiseLeads ==
    ASSUME Raise
    PROVE  /\ pc \in PrepareSteps => pc' = "rbRemove"
           /\ pc \in FinalizeSteps => pc' = "hRemove"
           /\ pc \notin PrepareSteps \union FinalizeSteps => pc' = "aborted"
           /\ pc' \in Steps
  BY DEF Raise, PrepareSteps, FinalizeSteps, Steps, RollbackSteps, HandlerSteps, Ended

Containers == [Names -> [vol : Volumes \union {NoVolume}, up : BOOLEAN]]

\* A command keeps the types, when what it asks for has them.
LEMMA CommandTypes ==
    ASSUME TypeOK, NEW c \in Containers, NEW d \in [Volumes -> Content], NEW next \in Steps,
           Command(c, d, next)
    PROVE  TypeOK'
  BY RaiseLeads DEF Command, TypeOK, Containers

\* Skipping a command that has nothing to do keeps the types.
LEMMA SkipTypes == ASSUME TypeOK, NEW next \in Steps, Skip(next) PROVE TypeOK'
  BY DEF Skip, TypeOK

\* The containers that the commands ask for.
LEMMA ContainerTypes ==
    ASSUME TypeOK
    PROVE  /\ NoContainer \in [vol : Volumes \union {NoVolume}, up : BOOLEAN]
           /\ \A v \in Volumes, up \in BOOLEAN :
                [vol |-> v, up |-> up] \in [vol : Volumes \union {NoVolume}, up : BOOLEAN]
           /\ con \in Containers
           /\ \A up \in BOOLEAN : [con EXCEPT ![Main].up = up] \in Containers
  BY RunNames DEF TypeOK, NoContainer, Containers

\* Each kind of docker command keeps the types.
LEMMA StopTypes == ASSUME TypeOK, NEW next \in Steps, StopContainer(next) PROVE TypeOK'
  BY CommandTypes, SkipTypes, ContainerTypes DEF StopContainer, TypeOK

\* Removing a container keeps the types.
LEMMA RemoveContainerTypes ==
    ASSUME TypeOK, NEW n \in Names, NEW next \in Steps, RemoveContainer(n, next) PROVE TypeOK'
<1>1. [con EXCEPT ![n] = NoContainer] \in Containers
  BY ContainerTypes DEF Containers
<1> QED
  BY <1>1, CommandTypes, SkipTypes DEF RemoveContainer, TypeOK

\* So does renaming one.
LEMMA RenameTypes ==
    ASSUME TypeOK, NEW a \in Names, NEW b \in Names, NEW next \in Steps, Rename(a, b, next)
    PROVE  TypeOK'
<1>1. [con EXCEPT ![b] = con[a], ![a] = NoContainer] \in Containers
  BY ContainerTypes DEF Containers
<1> QED
  BY <1>1, CommandTypes DEF Rename, TypeOK

\* So does creating or removing a volume.
LEMMA VolumeTypes ==
    ASSUME TypeOK, NEW v \in Volumes, NEW next \in Steps,
           RemoveVolume(v, next) \/ CreateVolume(v, next)
    PROVE  TypeOK'
<1>1. \A x \in Content : [data EXCEPT ![v] = x] \in [Volumes -> Content]
  BY DEF TypeOK
<1>2. con \in Containers /\ "absent" \in Content /\ "empty" \in Content
  BY ContainerTypes DEF Content
<1>3. ASSUME Raise, UNCHANGED <<run, data, con, before>> PROVE TypeOK'
  BY <1>3, RaiseLeads DEF TypeOK
<1> QED
  BY <1>1, <1>2, <1>3, CommandTypes, SkipTypes DEF RemoveVolume, CreateVolume

\* So does copying one into another.
LEMMA CopyTypes ==
    ASSUME TypeOK, NEW src \in Volumes, NEW dst \in Volumes, NEW next \in Steps,
           CopyVolume(src, dst, next)
    PROVE  TypeOK'
<1> DEFINE source == IF data[src] = "absent" THEN "empty" ELSE data[src]
           merged == IF data[dst] = "empty" THEN source ELSE "partial"
           After(d) == [data EXCEPT ![src] = source, ![dst] = d]
<1>1. source \in Content /\ merged \in Content /\ "partial" \in Content
  BY DEF TypeOK, Content
<1>2. \A d \in Content : After(d) \in [Volumes -> Content]
  BY <1>1 DEF TypeOK
<1>3. con \in Containers
  BY ContainerTypes
<1>4. CASE Command(con, After(merged), next)
  BY <1>1, <1>2, <1>3, <1>4, CommandTypes
<1>5. CASE Raise /\ data' = After("partial") /\ UNCHANGED <<run, con, before>>
  BY <1>1, <1>2, <1>5, RaiseLeads DEF TypeOK
<1> QED
  BY <1>4, <1>5 DEF CopyVolume

\* So does Compose, whichever containers it replaces.
LEMMA ComposeTypes ==
    ASSUME TypeOK, NEW v \in Volumes, NEW next \in Steps, ComposeUp(v, next)
    PROVE  TypeOK'
<1>1. PICK replaced \in SUBSET (Names \ {Main}), up \in BOOLEAN :
        LET others == [n \in Names |-> IF n \in replaced THEN NoContainer ELSE con[n]]
        IN  con' = others \/ con' = [others EXCEPT ![Main] = [vol |-> v, up |-> up]]
  BY DEF ComposeUp, On
<1> DEFINE others == [n \in Names |-> IF n \in replaced THEN NoContainer ELSE con[n]]
<1>2. others \in Containers
  BY ContainerTypes DEF Containers
<1>3. [others EXCEPT ![Main] = [vol |-> v, up |-> up]] \in Containers
  <2>1. [vol |-> v, up |-> up] \in [vol : Volumes \union {NoVolume}, up : BOOLEAN]
    OBVIOUS
  <2> HIDE DEF others
  <2> QED
    BY <1>2, <2>1 DEF Containers
<1>4. con' \in Containers
  BY <1>1, <1>2, <1>3
<1>5. pc' \in Steps /\ UNCHANGED <<run, data, before>>
  BY RaiseLeads DEF ComposeUp
<1> QED
  BY <1>4, <1>5 DEF TypeOK, Containers

\* What every step of a run under way leaves alone.
LEMMA StepShape ==
    ASSUME Next
    PROVE  StartRun \/ (pc \notin Ended /\ UNCHANGED <<run, before>>)
<1> USE DEF Ended
<1>1. CASE StopOld \/ StopCandidate
  BY <1>1 DEF StopOld, StopCandidate, StopContainer, Command, Skip
<1>2. CASE RenameOld \/ StartOld \/ CheckCandidate \/ ConfirmFinalize
  BY <1>2 DEF RenameOld, StartOld, CheckCandidate, ConfirmFinalize, Rename, Command
<1>3. CASE \/ MakeCandidate \/ MakeSnapshot \/ MakeFormal \/ HandlerMake
  BY <1>3 DEF MakeCandidate, MakeSnapshot, MakeFormal, HandlerMake, CreateVolume, Command, Skip
<1>4. CASE \/ RollbackVolume \/ RemoveFormal \/ DropCandidate \/ DropSnapshot \/ HandlerVolume
  BY <1>4 DEF RollbackVolume, RemoveFormal, DropCandidate, DropSnapshot, HandlerVolume,
     RemoveVolume, Command, Skip
<1>5. CASE \/ RollbackContainer \/ RemoveCandidate \/ RemoveOld \/ HandlerContainer
  BY <1>5 DEF RollbackContainer, RemoveCandidate, RemoveOld, HandlerContainer,
     RemoveContainer, Command, Skip
<1>6. CASE CopySnapshot \/ CopyCandidate \/ HandlerCopy
  BY <1>6 DEF CopySnapshot, CopyCandidate, HandlerCopy, CopyVolume, Command
<1>7. CASE StartCandidate \/ StartFormal \/ HandlerStart
  BY <1>7 DEF StartCandidate, StartFormal, HandlerStart, ComposeUp
<1>8. CASE ReturnOld
  BY <1>8 DEF ReturnOld, Rename, Command, ComposeUp
<1>9. CASE CleanStale
  BY <1>9 DEF CleanStale, Command, Skip
<1>10. CASE RestoreCandidate
  BY <1>10 DEF RestoreCandidate
<1>11. CASE Killed
  BY <1>11 DEF Killed
<1> QED
  BY <1>1, <1>2, <1>3, <1>4, <1>5, <1>6, <1>7, <1>8, <1>9, <1>10, <1>11 DEF Next

\* The type invariant, with the number of the run, is inductive.
LEMMA TypeInvInit == Init => TypeInv
<1>1. \A v \in Volumes : (IF v = Formal THEN "live" ELSE "absent") \in Content
  BY DEF Content
<1>2. \A n \in Names : (IF n = Main THEN On(Formal) ELSE NoContainer)
                         \in [vol : Volumes \union {NoVolume}, up : BOOLEAN]
  BY VolumeNames DEF On, NoContainer
<1> QED
  BY <1>1, <1>2, VolumeNames, RunNames
     DEF Init, TypeInv, RunNamed, TypeOK, Steps, Ended, Content, Main

\* Every step keeps the types and the number of the run.
LEMMA TypeInvNext == TypeInv /\ [Next]_vars => TypeInv'
<1> SUFFICES ASSUME TypeInv, [Next]_vars PROVE TypeInv'
  OBVIOUS
<1>1. TypeOK /\ (pc \notin Ended => run \in Runs)
  BY DEF TypeInv, RunNamed
<1>2. CASE UNCHANGED vars
  BY <1>1, <1>2 DEF vars, TypeInv, RunNamed, TypeOK
<1>3. CASE StartRun
  <2>1. con' \in Containers
    BY <1>1, <1>3, ContainerTypes DEF StartRun
  <2>2. con[Main].vol \in Volumes /\ data[Formal] \in Content
    BY <1>1, <1>3, RunNames, VolumeNames DEF StartRun, TypeOK, Exists
  <2>3. run' \in Names /\ pc' \in Steps /\ (pc' \notin Ended => run' \in Runs)
    BY <1>1, <1>3, RunsAssumption
       DEF StartRun, TypeOK, Runs, Names, Steps, PrepareSteps, Ended
  <2>4. before' \in [vol : Volumes, data : Content]
    BY <1>1, <1>3, <2>2 DEF StartRun, TypeOK
  <2> QED
    BY <1>1, <1>3, <2>1, <2>3, <2>4 DEF StartRun, TypeInv, RunNamed, TypeOK, Containers
<1>4. CASE Next /\ ~StartRun
  <2>1. pc \notin Ended /\ run \in Runs /\ run' = run
    BY <1>1, <1>4, StepShape
  <2>2. Formal \in Volumes /\ Cand(run) \in Volumes /\ Snap(run) \in Volumes
        /\ run \in Names /\ Main \in Names
    BY <2>1, VolumeNames, RunNames
  <2>3. TypeOK'
    <3> USE <1>1, <2>1, <2>2
        DEF Steps, PrepareSteps, RollbackSteps, FinalizeSteps, HandlerSteps, Ended
    <3>1. CASE StopOld \/ StopCandidate
      BY <3>1, StopTypes DEF StopOld, StopCandidate
    <3>2. CASE RenameOld
      BY <3>2, RenameTypes DEF RenameOld
    <3>3. CASE ReturnOld
      BY <3>3, RenameTypes, ComposeTypes DEF ReturnOld
    <3>4. CASE MakeCandidate \/ MakeSnapshot \/ MakeFormal \/ HandlerMake
      BY <3>4, VolumeTypes DEF MakeCandidate, MakeSnapshot, MakeFormal, HandlerMake
    <3>5. CASE \/ RollbackVolume \/ RemoveFormal \/ DropCandidate \/ DropSnapshot
               \/ HandlerVolume
      BY <3>5, VolumeTypes DEF RollbackVolume, RemoveFormal, DropCandidate, DropSnapshot,
         HandlerVolume
    <3>6. CASE \/ RollbackContainer \/ RemoveCandidate \/ RemoveOld \/ HandlerContainer
      BY <3>6, RemoveContainerTypes
         DEF RollbackContainer, RemoveCandidate, RemoveOld, HandlerContainer
    <3>7. CASE CopySnapshot \/ CopyCandidate \/ HandlerCopy
      BY <3>7, CopyTypes DEF CopySnapshot, CopyCandidate, HandlerCopy
    <3>8. CASE StartCandidate \/ StartFormal \/ HandlerStart
      BY <3>8, ComposeTypes DEF StartCandidate, StartFormal, HandlerStart
    <3>9. CASE StartOld \/ CheckCandidate \/ ConfirmFinalize
      BY <3>9, CommandTypes, ContainerTypes
         DEF StartOld, CheckCandidate, ConfirmFinalize, TypeOK
    <3>10. CASE CleanStale
      <4>1. CASE Skip("dropSnap")
        BY <4>1, SkipTypes
      <4>2. CASE \E stale \in SUBSET (Names \ {Main}) :
                   Command([n \in Names |-> IF n \in stale THEN NoContainer ELSE con[n]],
                           data, "dropSnap")
        <5>1. \A stale \in SUBSET (Names \ {Main}) :
                [n \in Names |-> IF n \in stale THEN NoContainer ELSE con[n]] \in Containers
          BY ContainerTypes DEF Containers
        <5> QED
          BY <4>2, <5>1, CommandTypes DEF TypeOK
      <4> QED
        BY <3>10, <4>1, <4>2 DEF CleanStale
    <3>11. CASE RestoreCandidate
      <4>1. pc' \in Steps
        BY <3>11, RaiseLeads DEF RestoreCandidate
      <4>2. data' \in [Volumes -> Content]
        BY <3>11 DEF RestoreCandidate, TypeOK, Content
      <4> QED
        BY <3>11, <4>1, <4>2 DEF RestoreCandidate, TypeOK
    <3>12. CASE Killed
      BY <3>12 DEF Killed, TypeOK
    <3> QED
      BY <1>4, <3>1, <3>2, <3>3, <3>4, <3>5, <3>6, <3>7, <3>8, <3>9, <3>10, <3>11, <3>12 DEF Next
  <2> QED
    BY <2>1, <2>3 DEF TypeInv, RunNamed
<1> QED
  BY <1>2, <1>3, <1>4

\* The type invariant holds in every state of every behaviour of the recovery.
THEOREM RecoveryTypeCorrect == Spec => []TypeOK
<1>1. TypeInv => TypeOK
  BY DEF TypeInv
<1> QED
  BY <1>1, TypeInvInit, TypeInvNext, PTL DEF Spec
-----------------------------------------------------------------------------
\* What the commands do to the volumes.
LEMMA RemoveEffect ==
    ASSUME TypeOK, NEW v \in Volumes, NEW next \in Steps, RemoveVolume(v, next)
    PROVE  /\ \A u \in Volumes : u # v => data'[u] = data[u]
           /\ \/ pc' = next /\ data'[v] = "absent"
              \/ Raise
  BY DEF TypeOK, RemoveVolume, Command, Skip

\* A volume is created empty, unless it exists.
LEMMA CreateEffect ==
    ASSUME TypeOK, NEW v \in Volumes, NEW next \in Steps, CreateVolume(v, next)
    PROVE  /\ \A u \in Volumes : u # v => data'[u] = data[u]
           /\ data'[v] = data[v] \/ (data[v] = "absent" /\ data'[v] = "empty")
           /\ \/ pc' = next /\ (data[v] = "absent" => data'[v] = "empty")
              \/ Raise
  BY DEF TypeOK, CreateVolume, Command, Skip

\* A copy into an empty volume is complete when the command succeeds.
LEMMA CopyEffect ==
    ASSUME TypeOK, NEW src \in Volumes, NEW dst \in Volumes, NEW next \in Steps,
           src # dst, CopyVolume(src, dst, next)
    PROVE  /\ \A u \in Volumes : u # src /\ u # dst => data'[u] = data[u]
           /\ data'[src] = data[src] \/ (data[src] = "absent" /\ data'[src] = "empty")
           /\ \/ /\ pc' = next
                 /\ data[dst] = "empty" /\ data[src] # "absent" => data'[dst] = data[src]
              \/ Raise
           /\ data[dst] = "empty" => data'[dst] \in {"empty", "partial", data[src]}
  BY DEF TypeOK, CopyVolume, Command

\* The steps that only concern containers.
LEMMA ContainerEffect ==
    ASSUME NEW next \in Steps,
           \/ StopContainer(next)
           \/ \E n \in Names : RemoveContainer(n, next)
           \/ \E a, b \in Names : Rename(a, b, next)
           \/ \E v \in Volumes : ComposeUp(v, next)
           \/ \E c : Command(c, data, next)
    PROVE  data' = data /\ (pc' = next \/ Raise)
  BY DEF StopContainer, RemoveContainer, Rename, ComposeUp, Command, Skip

\* A step of a run touches the formal volume and the two volumes of the run only.
LEMMA DataScope ==
    ASSUME TypeInv, Next, ~StartRun
    PROVE  \A u \in Volumes : u # Formal /\ u # Cand(run) /\ u # Snap(run) => data'[u] = data[u]
<1> USE DEF TypeInv, RunNamed
<1>1. pc \notin Ended /\ run \in Runs
  BY StepShape
<1>2. Formal \in Volumes /\ Cand(run) \in Volumes /\ Snap(run) \in Volumes
      /\ Cand(run) # Formal /\ Snap(run) # Formal /\ Cand(run) # Snap(run)
      /\ run \in Names /\ Main \in Names
  BY <1>1, VolumeNames, RunNames
<1> USE <1>1, <1>2 DEF Steps, PrepareSteps, RollbackSteps, FinalizeSteps, HandlerSteps, Ended
<1>3. CASE MakeCandidate \/ MakeSnapshot \/ MakeFormal \/ HandlerMake
  BY <1>3, CreateEffect DEF MakeCandidate, MakeSnapshot, MakeFormal, HandlerMake
<1>4. CASE RollbackVolume \/ RemoveFormal \/ DropCandidate \/ DropSnapshot \/ HandlerVolume
  BY <1>4, RemoveEffect DEF RollbackVolume, RemoveFormal, DropCandidate, DropSnapshot,
     HandlerVolume
<1>5. CASE CopySnapshot \/ CopyCandidate \/ HandlerCopy
  BY <1>5, CopyEffect DEF CopySnapshot, CopyCandidate, HandlerCopy
<1>6. CASE RestoreCandidate
  BY <1>6 DEF RestoreCandidate, TypeOK
<1>7. CASE \/ StopOld \/ RenameOld \/ StartCandidate \/ CheckCandidate \/ ConfirmFinalize
           \/ RollbackContainer \/ ReturnOld \/ StartOld \/ StopCandidate \/ RemoveCandidate
           \/ RemoveOld \/ StartFormal \/ HandlerContainer \/ HandlerStart
  BY <1>7, ContainerEffect
     DEF StopOld, RenameOld, StartCandidate, CheckCandidate, ConfirmFinalize,
         RollbackContainer, ReturnOld, StartOld, StopCandidate, RemoveCandidate,
         RemoveOld, StartFormal, HandlerContainer, HandlerStart
<1>8. CASE CleanStale
  BY <1>8, ContainerEffect DEF CleanStale, Skip
<1>9. CASE Killed
  BY <1>9 DEF Killed
<1> QED
  BY <1>3, <1>4, <1>5, <1>6, <1>7, <1>8, <1>9 DEF Next

\* Wherever a run stands, it leaves a complete copy.
LEMMA KeptIsWhole == TypeInv /\ CopyKept => SomeVolumeIsWhole
  BY VolumeNames
     DEF TypeInv, RunNamed, TypeOK, CopyKept, SomeVolumeIsWhole, Whole, Elsewhere, BeforeSnapshot,
         AfterSnapshot, AfterCopy, Steps, PrepareSteps, RollbackSteps, FinalizeSteps,
         HandlerSteps, Ended

\* The volumes: initially, and when a run starts.
LEMMA DataInvInit == Init => DataInv
<1> SUFFICES ASSUME Init PROVE DataInv
  OBVIOUS
<1>1. TypeInv
  BY TypeInvInit
<1>2. \A v \in Volumes : data[v] = IF v = Formal THEN "live" ELSE "absent"
  BY DEF Init
<1>3. VolumesFresh
  BY <1>2, VolumeNames DEF VolumesFresh
<1>4. SomeVolumeIsWhole
  BY <1>2, VolumeNames DEF SomeVolumeIsWhole, Whole
<1> QED
  BY <1>1, <1>3, <1>4
     DEF Init, DataInv, TargetsEmpty, CopyKept, BeforeSnapshot, AfterSnapshot, AfterCopy,
         PrepareSteps, RollbackSteps, FinalizeSteps, HandlerSteps, Ended

\* A new run finds its volumes absent and a complete copy under another name.
LEMMA DataInvStart == DataInv /\ StartRun => DataInv'
<1> SUFFICES ASSUME DataInv, StartRun PROVE DataInv'
  OBVIOUS
<1>1. TypeInv'
  BY TypeInvNext DEF DataInv, Next
<1>2. SomeVolumeIsWhole /\ UNCHANGED data
  BY DEF DataInv, CopyKept, StartRun
<1>3. CASE UNCHANGED <<pc, run>>
  BY <1>1, <1>2, <1>3
     DEF DataInv, StartRun, VolumesFresh, TargetsEmpty, CopyKept, SomeVolumeIsWhole, Whole,
         BeforeSnapshot, AfterSnapshot, AfterCopy,
         PrepareSteps, RollbackSteps, FinalizeSteps, HandlerSteps, Ended
<1>4. CASE pc' = "stopOld" /\ run' = run + 1
  <2>1. run' \in Runs /\ run \in Nat
    BY <1>1, <1>4, RunNames DEF DataInv, TypeInv, TypeOK, RunNamed, Ended
  <2>2. data'[Cand(run')] = "absent" /\ data'[Snap(run')] = "absent"
    BY <1>2, <1>4, <2>1 DEF DataInv, VolumesFresh
  <2>3. VolumesFresh'
    BY <1>2, <1>4, <2>1 DEF DataInv, VolumesFresh, Runs
  <2>4. (Elsewhere \/ Whole(Formal))'
    BY <1>2, <2>2 DEF SomeVolumeIsWhole, Elsewhere, Whole
  <2> QED
    BY <1>1, <1>4, <2>2, <2>3, <2>4
       DEF DataInv, TargetsEmpty, CopyKept, BeforeSnapshot, AfterSnapshot, AfterCopy,
           PrepareSteps, RollbackSteps, FinalizeSteps, HandlerSteps, Ended
<1> QED
  BY <1>3, <1>4 DEF StartRun

\* Every other step.
LEMMA DataInvStep == DataInv /\ Next /\ ~StartRun => DataInv'
<1> SUFFICES ASSUME DataInv, Next, ~StartRun PROVE DataInv'
  OBVIOUS
<1> USE DEF DataInv, TypeInv, RunNamed
<1>1. pc \notin Ended /\ run \in Runs /\ run' = run
  BY StepShape
<1>2. Formal \in Volumes /\ Cand(run) \in Volumes /\ Snap(run) \in Volumes
      /\ Cand(run) # Formal /\ Snap(run) # Formal /\ Cand(run) # Snap(run)
      /\ run \in Names /\ Main \in Names
  BY <1>1, VolumeNames, RunNames
<1>3. TypeInv'
  BY TypeInvNext
<1>4. Elsewhere => Elsewhere'
  BY <1>1, DataScope DEF Elsewhere, Whole
<1>5. VolumesFresh'
  <2> SUFFICES ASSUME NEW r \in Runs, r > run
               PROVE  data'[Cand(r)] = "absent" /\ data'[Snap(r)] = "absent"
    BY <1>1 DEF VolumesFresh
  <2>1. r # run
    BY <1>1, RunNames
  <2>2. /\ Cand(r) \in Volumes /\ Cand(r) \notin {Formal, Cand(run), Snap(run)}
        /\ Snap(r) \in Volumes /\ Snap(r) \notin {Formal, Cand(run), Snap(run)}
    BY <1>1, <2>1, VolumeNames
  <2> QED
    BY <2>2, DataScope DEF VolumesFresh
<1>6. (Elsewhere \/ Whole(Formal) \/ Whole(Cand(run)) \/ Whole(Snap(run)))' => SomeVolumeIsWhole'
  BY <1>1, <1>2 DEF Elsewhere, SomeVolumeIsWhole
<1>7. SUFFICES TargetsEmpty' /\ CopyKept'
  BY <1>3, <1>5
<1> USE <1>1, <1>2, <1>4, <1>6, RaiseLeads
    DEF TargetsEmpty, CopyKept, Whole, BeforeSnapshot, AfterSnapshot, AfterCopy, Steps,
        PrepareSteps, RollbackSteps, FinalizeSteps, HandlerSteps, Ended
<1>8. CASE StopOld \/ RenameOld \/ StartCandidate \/ RollbackContainer \/ ReturnOld \/ StartOld
  BY <1>8, ContainerEffect
     DEF StopOld, RenameOld, StartCandidate, RollbackContainer, ReturnOld, StartOld
<1>9. CASE MakeCandidate
  BY <1>9, CreateEffect DEF MakeCandidate
<1>10. CASE RestoreCandidate
  BY <1>10 DEF RestoreCandidate, TypeOK
<1>11. CASE CheckCandidate \/ ConfirmFinalize
  BY <1>11, ContainerEffect DEF CheckCandidate, ConfirmFinalize
<1>12. CASE RollbackVolume
  BY <1>12, RemoveEffect DEF RollbackVolume
<1>13. CASE StopCandidate \/ RemoveCandidate \/ RemoveOld \/ StartFormal
  BY <1>13, ContainerEffect DEF StopCandidate, RemoveCandidate, RemoveOld, StartFormal
<1>14. CASE MakeSnapshot
  BY <1>14, CreateEffect DEF MakeSnapshot
<1>15. CASE CopySnapshot
  BY <1>15, CopyEffect DEF CopySnapshot
<1>16. CASE RemoveFormal
  BY <1>16, RemoveEffect DEF RemoveFormal
<1>17. CASE MakeFormal
  BY <1>17, CreateEffect DEF MakeFormal
<1>18. CASE CopyCandidate
  BY <1>18, CopyEffect DEF CopyCandidate
<1>19. CASE DropCandidate
  BY <1>19, RemoveEffect DEF DropCandidate
<1>20. CASE CleanStale
  <2>1. data' = data /\ (pc' = "dropSnap" \/ Raise)
    BY <1>20, ContainerEffect DEF CleanStale, Skip
  <2> QED
    BY <1>20, <2>1 DEF CleanStale
<1>21. CASE DropSnapshot
  BY <1>21, RemoveEffect DEF DropSnapshot
<1>22. CASE HandlerContainer \/ HandlerStart
  BY <1>22, ContainerEffect DEF HandlerContainer, HandlerStart
<1>23. CASE HandlerVolume
  BY <1>23, RemoveEffect DEF HandlerVolume
<1>24. CASE HandlerMake
  BY <1>24, CreateEffect DEF HandlerMake
<1>25. CASE HandlerCopy
  BY <1>25, CopyEffect DEF HandlerCopy
<1>26. CASE Killed
  BY <1>26, KeptIsWhole DEF Killed, SomeVolumeIsWhole
<1> QED
  BY <1>8, <1>9, <1>10, <1>11, <1>12, <1>13, <1>14, <1>15, <1>16, <1>17, <1>18, <1>19, <1>20,
     <1>21, <1>22, <1>23, <1>24, <1>25, <1>26 DEF Next

\* Together: the invariant about the volumes is inductive.
LEMMA DataInvNext == DataInv /\ [Next]_vars => DataInv'
<1>1. DataInv /\ UNCHANGED vars => DataInv'
  BY DEF vars, DataInv, TypeInv, TypeOK, RunNamed, VolumesFresh, TargetsEmpty, CopyKept,
         Elsewhere, SomeVolumeIsWhole, Whole
<1> QED
  BY <1>1, DataInvStart, DataInvStep

\* Through failures, kills and further runs, a complete database always remains in
\* some volume: the exchange of the formal volume never holds the last copy.
THEOREM SomeVolumeIsWholeAlways == Spec => []SomeVolumeIsWhole
<1>1. DataInv => SomeVolumeIsWhole
  BY KeptIsWhole DEF DataInv
<1> QED
  BY <1>1, DataInvInit, DataInvNext, PTL DEF Spec
-----------------------------------------------------------------------------
\* What the commands do to the containers.
LEMMA StopContainers ==
    ASSUME TypeOK, NEW next, StopContainer(next)
    PROVE  /\ \A n \in Runs : con'[n] = con[n]
           /\ con'[Main].vol = con[Main].vol
           /\ con'[Main].up => con[Main].up
           /\ (pc' = next /\ ~con'[Main].up) \/ Raise
  BY RunNames DEF TypeOK, StopContainer, Command, Skip

\* A container that was removed mounts nothing.
LEMMA RemoveContainers ==
    ASSUME TypeOK, NEW m \in Names, NEW next, RemoveContainer(m, next)
    PROVE  /\ \A n \in Names : n # m => con'[n] = con[n]
           /\ con'[m] \in {con[m], NoContainer}
           /\ (pc' = next /\ con'[m].vol = NoVolume) \/ Raise
  BY DEF TypeOK, RemoveContainer, Command, Skip, Exists, NoContainer

\* A rename moves the container or does nothing.
LEMMA RenameContainers ==
    ASSUME TypeOK, NEW a \in Names, NEW b \in Names, a # b, NEW next, Rename(a, b, next)
    PROVE  /\ \A n \in Names : n # a /\ n # b => con'[n] = con[n]
           /\ \/ pc' = next /\ con'[b] = con[a] /\ con'[a] = NoContainer
              \/ Raise /\ con'[b] = con[a] /\ con'[a] = NoContainer
              \/ Raise /\ con' = con
  BY DEF TypeOK, Rename, Command

\* Compose starts the formal container, and may replace the others.
LEMMA ComposeContainers ==
    ASSUME TypeOK, NEW v \in Volumes, NEW next, ComposeUp(v, next)
    PROVE  /\ \A n \in Runs : con'[n] \in {con[n], NoContainer}
           /\ con'[Main] \in {con[Main], On(v), [vol |-> v, up |-> FALSE]}
           /\ (pc' = next /\ con'[Main] = On(v)) \/ Raise
<1>1. PICK replaced \in SUBSET (Names \ {Main}) :
        LET others == [n \in Names |-> IF n \in replaced THEN NoContainer ELSE con[n]]
        IN  \/ con' = [others EXCEPT ![Main] = On(v)] /\ pc' = next
            \/ /\ con' \in {[others EXCEPT ![Main] = [vol |-> v, up |-> up]] : up \in BOOLEAN}
               /\ Raise
            \/ con' = others /\ Raise
  BY DEF ComposeUp
<1> DEFINE others == [n \in Names |-> IF n \in replaced THEN NoContainer ELSE con[n]]
<1>2. /\ \A n \in Runs : others[n] \in {con[n], NoContainer}
      /\ others[Main] = con[Main]
  BY RunNames
<1>3. \A x : /\ \A n \in Runs : [others EXCEPT ![Main] = x][n] = others[n]
             /\ [others EXCEPT ![Main] = x][Main] = x
  BY RunNames
<1>4. con' = others \/ \E up \in BOOLEAN : con' = [others EXCEPT ![Main] = [vol |-> v, up |-> up]]
  BY <1>1 DEF On
<1> HIDE DEF others
<1>5. ASSUME con' = others
      PROVE  /\ \A n \in Runs : con'[n] \in {con[n], NoContainer}
             /\ con'[Main] \in {con[Main], On(v), [vol |-> v, up |-> FALSE]}
  BY <1>2, <1>5
<1>6. ASSUME NEW up \in BOOLEAN, con' = [others EXCEPT ![Main] = [vol |-> v, up |-> up]]
      PROVE  /\ \A n \in Runs : con'[n] \in {con[n], NoContainer}
             /\ con'[Main] \in {con[Main], On(v), [vol |-> v, up |-> FALSE]}
  <2> DEFINE record == [vol |-> v, up |-> up]
  <2>1. con'[Main] = record /\ \A n \in Runs : con'[n] = others[n]
    BY <1>3, <1>6
  <2>2. record \in {On(v), [vol |-> v, up |-> FALSE]}
    BY DEF On
  <2> QED
    BY <1>2, <2>1, <2>2
<1>7. (pc' = next /\ con'[Main] = On(v)) \/ Raise
  BY <1>1, <1>3 DEF others
<1> QED
  BY <1>4, <1>5, <1>6, <1>7

\* The final clean-up removes backup containers only.
LEMMA CleanContainers ==
    ASSUME TypeOK, CleanStale
    PROVE  /\ \A n \in Runs : con'[n] \in {con[n], NoContainer}
           /\ con'[Main] = con[Main]
           /\ data' = data
           /\ pc' = "dropSnap" \/ Raise
<1>1. CASE Skip("dropSnap")
  BY <1>1 DEF Skip
<1>2. ASSUME NEW stale \in SUBSET (Names \ {Main}),
             Command([n \in Names |-> IF n \in stale THEN NoContainer ELSE con[n]], data, "dropSnap")
      PROVE  /\ \A n \in Runs : con'[n] \in {con[n], NoContainer}
             /\ con'[Main] = con[Main]
             /\ data' = data
             /\ pc' = "dropSnap" \/ Raise
  BY <1>2, RunNames DEF Command
<1> QED
  BY <1>1, <1>2 DEF CleanStale

\* The steps that only concern volumes.
LEMMA SameContainers ==
    ASSUME \/ RestoreCandidate \/ CheckCandidate \/ ConfirmFinalize \/ Killed
           \/ \E v \in Volumes, next \in Steps : RemoveVolume(v, next) \/ CreateVolume(v, next)
           \/ \E v, w \in Volumes, next \in Steps : CopyVolume(v, w, next)
    PROVE  con' = con
  BY DEF RestoreCandidate, CheckCandidate, ConfirmFinalize, Killed, RemoveVolume, CreateVolume,
     CopyVolume, Command, Skip
-----------------------------------------------------------------------------
\* Backup containers are stopped and the formal name is free when it has to be.
LEMMA NameFreeStep == TypeInv /\ NameFree /\ Next => NameFree'
<1> SUFFICES ASSUME TypeInv, NameFree, Next PROVE NameFree'
  OBVIOUS
<1>1. TypeOK /\ (pc \notin Ended => run \in Runs)
  BY DEF TypeInv, RunNamed
<1>2. Main \in Names /\ Main \notin Runs /\ Runs \subseteq Names /\ Formal \in Volumes
      /\ NoVolume \notin Volumes
  BY RunNames, VolumeNames
<1>3. \A r \in Runs : Cand(r) \in Volumes /\ Snap(r) \in Volumes
  BY VolumeNames
<1> USE <1>1, <1>2, <1>3, RaiseLeads
    DEF NameFree, NoContainer, On, Exists, Steps,
        PrepareSteps, RollbackSteps, FinalizeSteps, HandlerSteps, Ended
<1>4. CASE StartRun
  BY <1>4 DEF StartRun, TypeOK
<1>5. CASE StopOld \/ StopCandidate
  BY <1>5, StopContainers DEF StopOld, StopCandidate
<1>6. CASE RenameOld
  BY <1>6, RenameContainers DEF RenameOld
<1>7. CASE \/ RollbackContainer \/ RemoveCandidate \/ HandlerContainer
  <2>1. con[Main].vol = NoVolume => con[Main] = NoContainer
    BY DEF TypeOK
  <2>2. /\ \A n \in Runs : con'[n] = con[n]
        /\ con'[Main] \in {con[Main], NoContainer}
        /\ \/ pc' \in {"rbVolume", "makeSnap", "hVolume"} /\ con'[Main].vol = NoVolume
           \/ pc' \in {"aborted", "hRemove"}
    BY <1>7, RemoveContainers DEF RollbackContainer, RemoveCandidate, HandlerContainer
  <2>3. con'[Main].up => con'[Main].vol # NoVolume
    BY <2>2
  <2>4. pc' \in {"rbVolume", "makeSnap", "hVolume"} => con'[Main] = NoContainer
    BY <2>1, <2>2
  <2> QED
    BY <2>2, <2>3, <2>4
<1>8. CASE RemoveOld
  BY <1>8, RemoveContainers DEF RemoveOld
<1>9. ASSUME NEW v \in Volumes, NEW next, ComposeUp(v, next)
      PROVE  /\ \A n \in Runs : ~con'[n].up
             /\ con'[Main].up => Exists(Main)'
             /\ pc' = next \/ Raise
  <2>1. \A n \in Runs : con'[n] \in {con[n], NoContainer}
    BY <1>9, ComposeContainers
  <2>2. con'[Main] \in {con[Main], On(v), [vol |-> v, up |-> FALSE]}
    BY <1>9, ComposeContainers
  <2>3. pc' = next \/ Raise
    BY <1>9, ComposeContainers
  <2> QED
    BY <2>1, <2>2, <2>3
<1>17. CASE StartCandidate \/ StartFormal \/ HandlerStart
  <2>1. /\ \A n \in Runs : ~con'[n].up
        /\ con'[Main].up => Exists(Main)'
        /\ pc' \in {"restore", "rbRemove", "cleanStale", "hRemove", "restored", "aborted"}
    BY <1>9, <1>17 DEF StartCandidate, StartFormal, HandlerStart
  <2> QED
    BY <2>1
<1>10. CASE ReturnOld
  <2>1. CASE Exists(run) /\ Rename(run, Main, "rbStart")
    <3>1. pc = "rbReturn" /\ run \in Names /\ run # Main
      BY <1>10 DEF ReturnOld
    <3>2. \A n \in Runs : n # run => con'[n] = con[n]
      BY <2>1, <3>1, RenameContainers
    <3>3. \/ pc' = "rbStart" /\ con'[Main] = con[run] /\ con'[run] = NoContainer
          \/ pc' = "aborted" /\ con'[Main] = con[run] /\ con'[run] = NoContainer
          \/ pc' = "aborted" /\ con' = con
      BY <2>1, <3>1, RenameContainers
    <3>4. ~con[run].up /\ con[run].vol # NoVolume
      BY <1>10, <2>1 DEF ReturnOld
    <3> QED
      BY <3>1, <3>2, <3>3, <3>4
  <2>2. CASE ~Exists(run) /\ ComposeUp(Formal, "rolledBack")
    <3>1. /\ \A n \in Runs : ~con'[n].up
          /\ con'[Main].up => Exists(Main)'
          /\ pc' \in {"rolledBack", "aborted"}
      BY <1>9, <1>10, <2>2 DEF ReturnOld
    <3> QED
      BY <3>1
  <2> QED
    BY <1>10, <2>1, <2>2 DEF ReturnOld
<1>11. CASE StartOld
  BY <1>11 DEF StartOld, Command, TypeOK
<1>12. CASE CleanStale
  <2>1. pc = "cleanStale"
    BY <1>12 DEF CleanStale
  <2> QED
    BY <1>12, <2>1, CleanContainers
<1>13. CASE RestoreCandidate \/ CheckCandidate \/ ConfirmFinalize \/ Killed
  BY <1>13, SameContainers DEF RestoreCandidate, CheckCandidate, ConfirmFinalize, Killed, Command
<1>14. CASE MakeCandidate \/ MakeSnapshot \/ MakeFormal \/ HandlerMake
  BY <1>14, SameContainers, CreateEffect DEF MakeCandidate, MakeSnapshot, MakeFormal, HandlerMake
<1>15. CASE RollbackVolume \/ RemoveFormal \/ DropCandidate \/ DropSnapshot \/ HandlerVolume
  BY <1>15, SameContainers, RemoveEffect
     DEF RollbackVolume, RemoveFormal, DropCandidate, DropSnapshot, HandlerVolume
<1>16. CASE CopySnapshot \/ CopyCandidate \/ HandlerCopy
  <2>1. con' = con /\ (Raise \/ pc' \in {"removeOld", "dropCand", "hStart"})
    BY <1>16, SameContainers DEF CopySnapshot, CopyCandidate, HandlerCopy, CopyVolume, Command
  <2> QED
    BY <1>16, <2>1 DEF CopySnapshot, CopyCandidate, HandlerCopy, CopyVolume, Command
<1> QED
  BY <1>4, <1>5, <1>6, <1>7, <1>8, <1>9, <1>10, <1>11, <1>12, <1>13, <1>14, <1>15, <1>16, <1>17 DEF Next

\* The old data, wherever it is, is the data the run found.
LEMMA OldDataStep == DataInv /\ OldDataKept /\ Next /\ ~StartRun => OldDataKept'
<1> SUFFICES ASSUME DataInv, OldDataKept, Next, ~StartRun PROVE OldDataKept'
  OBVIOUS
<1>1. TypeOK /\ pc \notin Ended /\ run \in Runs /\ run' = run /\ before' = before
  BY StepShape DEF DataInv, TypeInv, RunNamed
<1>2. Formal \in Volumes /\ Cand(run) \in Volumes /\ Snap(run) \in Volumes
      /\ Cand(run) # Formal /\ Snap(run) # Formal /\ Cand(run) # Snap(run)
      /\ run \in Names /\ Main \in Names
  BY <1>1, VolumeNames, RunNames
<1>3. TargetsEmpty
  BY DEF DataInv
<1> USE <1>1, <1>2, <1>3, RaiseLeads
    DEF TargetsEmpty, OldDataKept, Whole, BeforeSnapshot, Steps,
        PrepareSteps, RollbackSteps, FinalizeSteps, HandlerSteps, Ended
<1>4. CASE \/ StopOld \/ RenameOld \/ StartCandidate \/ CheckCandidate \/ ConfirmFinalize
           \/ RollbackContainer \/ ReturnOld \/ StartOld
  BY <1>4, ContainerEffect
     DEF StopOld, RenameOld, StartCandidate, CheckCandidate, ConfirmFinalize,
         RollbackContainer, ReturnOld, StartOld
<1>5. CASE \/ StopCandidate \/ RemoveCandidate \/ RemoveOld \/ StartFormal
           \/ HandlerContainer \/ HandlerStart
  BY <1>5, ContainerEffect
     DEF StopCandidate, RemoveCandidate, RemoveOld, StartFormal, HandlerContainer, HandlerStart
<1>6. CASE CleanStale
  <2>1. pc = "cleanStale" /\ data' = data /\ (pc' = "dropSnap" \/ Raise)
    BY <1>6, CleanContainers DEF CleanStale
  <2> QED
    BY <2>1
<1>7. CASE MakeCandidate \/ MakeSnapshot
  BY <1>7, CreateEffect DEF MakeCandidate, MakeSnapshot
<1>8. CASE MakeFormal \/ HandlerMake
  BY <1>8, CreateEffect DEF MakeFormal, HandlerMake
<1>9. CASE RestoreCandidate
  BY <1>9 DEF RestoreCandidate, TypeOK
<1>10. CASE RollbackVolume \/ DropCandidate
  BY <1>10, RemoveEffect DEF RollbackVolume, DropCandidate
<1>11. CASE RemoveFormal \/ HandlerVolume
  BY <1>11, RemoveEffect DEF RemoveFormal, HandlerVolume
<1>12. CASE DropSnapshot
  BY <1>12, RemoveEffect DEF DropSnapshot
<1>13. CASE CopySnapshot
  BY <1>13, CopyEffect DEF CopySnapshot
<1>14. CASE CopyCandidate
  BY <1>14, CopyEffect DEF CopyCandidate
<1>15. CASE HandlerCopy
  BY <1>15, CopyEffect DEF HandlerCopy
<1>16. CASE Killed
  BY <1>16 DEF Killed
<1> QED
  BY <1>4, <1>5, <1>6, <1>7, <1>8, <1>9, <1>10, <1>11, <1>12, <1>13, <1>14, <1>15, <1>16 DEF Next

\* The old container can be brought back, until the finalization removes it.
LEMMA OldSetAsideStep ==
    TypeInv /\ OldSetAside /\ NameFree /\ Next /\ ~StartRun => OldSetAside'
<1> SUFFICES ASSUME TypeInv, OldSetAside, NameFree, Next, ~StartRun PROVE OldSetAside'
  OBVIOUS
<1>1. TypeOK /\ pc \notin Ended /\ run \in Runs /\ run' = run /\ before' = before
  BY StepShape DEF TypeInv, RunNamed
<1>2. Main \in Names /\ Main # run /\ Main \notin Runs /\ run \in Names /\ Runs \subseteq Names
      /\ \A r \in Runs : r \in Nat
  BY <1>1, RunNames
<1>3. Cand(run) \in Volumes /\ Formal \in Volumes /\ NoContainer.vol = NoVolume
  BY <1>1, VolumeNames DEF NoContainer
<1>4. \A r \in Runs : r > run => con[r] = NoContainer
  BY DEF OldSetAside
<1> USE <1>1, <1>2, <1>3, <1>4, RaiseLeads
    DEF OldSetAside, Steps, PrepareSteps, RollbackSteps, FinalizeSteps, HandlerSteps, Ended
<1>5. CASE StopOld \/ StopCandidate
  BY <1>5, StopContainers DEF StopOld, StopCandidate
<1>6. CASE RenameOld
  <2>1. \A n \in Runs : n # run => con'[n] = con[n]
    BY <1>6, RenameContainers DEF RenameOld
  <2>2. con'[run] \in {con[Main], NoContainer} /\ pc' \in {"makeCand", "rbRemove"}
    BY <1>6, RenameContainers DEF RenameOld
  <2>3. con'[run].vol \in {NoVolume, before.vol}
    BY <1>6, <2>2 DEF RenameOld
  <2> QED
    BY <2>1, <2>2, <2>3
<1>7. CASE RollbackContainer \/ RemoveCandidate \/ HandlerContainer
  BY <1>7, RemoveContainers DEF RollbackContainer, RemoveCandidate, HandlerContainer
<1>8. CASE RemoveOld
  BY <1>8, RemoveContainers DEF RemoveOld
<1>9. CASE StartCandidate \/ StartFormal \/ HandlerStart
  <2>1. /\ \A n \in Runs : con'[n] \in {con[n], NoContainer}
        /\ \/ pc = "startCand" /\ pc' \in {"restore", "rbRemove"}
           \/ pc' \in {"cleanStale", "hRemove", "restored", "aborted"}
    BY <1>9, ComposeContainers DEF StartCandidate, StartFormal, HandlerStart
  <2> QED
    BY <2>1
<1>10. CASE ReturnOld
  <2>1. CASE Exists(run) /\ Rename(run, Main, "rbStart")
    <3>1. \A n \in Runs : n # run => con'[n] = con[n]
      BY <2>1, RenameContainers
    <3>2. \/ pc' = "rbStart" /\ con'[Main] = con[run] /\ con'[run] = NoContainer
          \/ pc' = "aborted"
      BY <1>10, <2>1, RenameContainers DEF ReturnOld
    <3>3. con[run].vol = before.vol
      BY <1>10, <2>1 DEF ReturnOld, Exists
    <3> QED
      BY <3>1, <3>2, <3>3
  <2>2. CASE ~Exists(run) /\ ComposeUp(Formal, "rolledBack")
    <3>1. /\ \A n \in Runs : con'[n] \in {con[n], NoContainer}
          /\ pc' \in {"rolledBack", "aborted"}
      BY <1>10, <2>2, ComposeContainers DEF ReturnOld
    <3> QED
      BY <3>1
  <2> QED
    BY <1>10, <2>1, <2>2 DEF ReturnOld
<1>11. CASE StartOld
  BY <1>11 DEF StartOld, Command, TypeOK
<1>12. CASE CleanStale
  <2>1. pc = "cleanStale"
    BY <1>12 DEF CleanStale
  <2> QED
    BY <1>12, <2>1, CleanContainers
<1>13. CASE RestoreCandidate \/ CheckCandidate \/ ConfirmFinalize \/ Killed
  BY <1>13, SameContainers DEF RestoreCandidate, CheckCandidate, ConfirmFinalize, Killed, Command
<1>14. CASE MakeCandidate \/ MakeSnapshot \/ MakeFormal \/ HandlerMake
  BY <1>14, SameContainers, CreateEffect, VolumeNames
     DEF MakeCandidate, MakeSnapshot, MakeFormal, HandlerMake
<1>15. CASE RollbackVolume \/ RemoveFormal \/ DropCandidate \/ DropSnapshot \/ HandlerVolume
  BY <1>15, SameContainers, RemoveEffect, VolumeNames
     DEF RollbackVolume, RemoveFormal, DropCandidate, DropSnapshot, HandlerVolume
<1>16. CASE CopySnapshot \/ CopyCandidate \/ HandlerCopy
  <2>1. con' = con /\ pc' \in {"removeOld", "dropCand", "hStart", "hRemove", "aborted"}
    BY <1>16 DEF CopySnapshot, CopyCandidate, HandlerCopy, CopyVolume, Command
  <2> QED
    BY <2>1
<1> QED
  BY <1>5, <1>6, <1>7, <1>8, <1>9, <1>10, <1>11, <1>12, <1>13, <1>14, <1>15, <1>16 DEF Next

\* A finalization that goes on to its end has dropped the candidate and serves the
\* formal volume.
LEMMA NewServedStep == DataInv /\ NewServed /\ Next /\ ~StartRun => NewServed'
<1> SUFFICES ASSUME DataInv, NewServed, Next, ~StartRun PROVE NewServed'
  OBVIOUS
<1>1. TypeOK /\ pc \notin Ended /\ run \in Runs /\ run' = run
  BY StepShape DEF DataInv, TypeInv, RunNamed
<1>2. /\ Formal \in Volumes /\ Cand(run) \in Volumes /\ Snap(run) \in Volumes
      /\ Cand(run) # Snap(run)
  BY <1>1, VolumeNames
<1> USE <1>1, <1>2, RaiseLeads
    DEF NewServed, PrepareSteps, RollbackSteps, FinalizeSteps, HandlerSteps, Ended, Steps
<1>3. CASE pc' \notin {"startFormal", "cleanStale", "dropSnap"}
  BY <1>3
<1>4. CASE DropCandidate
  BY <1>4, RemoveEffect DEF DropCandidate
<1>5. CASE StartFormal
  BY <1>5, ContainerEffect, ComposeContainers DEF StartFormal
<1>6. CASE CleanStale
  <2>1. pc = "cleanStale"
    BY <1>6 DEF CleanStale
  <2> QED
    BY <1>6, <2>1, CleanContainers
<1>7. CASE ~(DropCandidate \/ StartFormal \/ CleanStale)
  <2>1. pc' \notin {"startFormal", "cleanStale", "dropSnap"}
    BY <1>7
       DEF Next, StopOld, RenameOld, MakeCandidate, StartCandidate, RestoreCandidate,
           CheckCandidate, ConfirmFinalize, RollbackContainer, RollbackVolume, ReturnOld,
           StartOld, StopCandidate, RemoveCandidate, MakeSnapshot, CopySnapshot, RemoveOld,
           RemoveFormal, MakeFormal, CopyCandidate, DropSnapshot, HandlerContainer,
           HandlerVolume, HandlerMake, HandlerCopy, HandlerStart, Killed,
           StopContainer, RemoveContainer, Rename, RemoveVolume, CreateVolume, CopyVolume,
           ComposeUp, Command, Skip
  <2> QED
    BY <2>1
<1> QED
  BY <1>4, <1>5, <1>6, <1>7

\* The last step of a run makes good what its ending says.
LEMMA ServedStep == DataInv /\ ServedInv /\ Next /\ ~StartRun => Served'
<1> SUFFICES ASSUME DataInv, ServedInv, Next, ~StartRun PROVE Served'
  OBVIOUS
<1>1. /\ TypeOK /\ pc \notin Ended /\ run \in Runs
      /\ run' = run /\ before' = before
  BY StepShape DEF DataInv, TypeInv, RunNamed
<1>2. /\ Formal \in Volumes /\ Cand(run) \in Volumes /\ Snap(run) \in Volumes
      /\ Cand(run) # Snap(run) /\ Formal # Snap(run) /\ run \in Names /\ Main \in Names
  BY <1>1, VolumeNames, RunNames
<1> USE <1>1, <1>2, RaiseLeads
    DEF Served, SuccessServesRestored, RollbackServesOld, SnapshotServesOld, Whole,
        PrepareSteps, RollbackSteps, FinalizeSteps, HandlerSteps, Ended, Steps
<1>3. CASE pc' \notin {"done", "rolledBack", "restored"}
  BY <1>3
<1>4. CASE DropSnapshot
  <2>1. data[Formal] = "restored" /\ data[Cand(run)] = "absent" /\ con[Main] = On(Formal)
    BY <1>4 DEF DropSnapshot, DataInv, CopyKept, ServedInv, NewServed
  <2>2. con' = con
    BY <1>4, SameContainers DEF DropSnapshot
  <2> QED
    BY <1>4, <2>1, <2>2, RemoveEffect, VolumeNames DEF DropSnapshot
<1>5. CASE ReturnOld
  <2>1. data[Formal] = before.data /\ pc = "rbReturn"
    BY <1>5 DEF ReturnOld, ServedInv, OldDataKept
  <2>2. CASE Exists(run) /\ Rename(run, Main, "rbStart")
    BY <2>1, <2>2 DEF Rename, Command
  <2>3. CASE ~Exists(run) /\ ComposeUp(Formal, "rolledBack")
    BY <2>1, <2>3, ComposeContainers, ContainerEffect
  <2> QED
    BY <1>5, <2>2, <2>3 DEF ReturnOld
<1>6. CASE StartOld
  <2>1. data[Formal] = before.data /\ con[Main].vol = before.vol /\ pc = "rbStart"
    BY <1>6 DEF StartOld, ServedInv, OldDataKept, OldSetAside
  <2>2. data' = data /\ (pc' = "rolledBack" => con' = [con EXCEPT ![Main].up = TRUE])
    BY <1>6 DEF StartOld, Command
  <2>3. [con EXCEPT ![Main].up = TRUE][Main] = On(con[Main].vol)
    BY DEF On, TypeOK
  <2> QED
    BY <1>6, <2>1, <2>2, <2>3 DEF StartOld, Command
<1>7. CASE HandlerStart
  <2>1. pc = "hStart" /\ (Whole(Snap(run)) => data[Formal] = before.data)
    BY <1>7 DEF HandlerStart, ServedInv, OldDataKept
  <2>2. data' = data /\ (pc' = "restored" => con'[Main] = On(Formal))
    BY <1>7, <2>1, ComposeContainers, ContainerEffect DEF HandlerStart
  <2>3. pc' \in {"restored", "aborted"}
    BY <1>7, <2>1, ComposeContainers DEF HandlerStart
  <2> QED
    BY <2>1, <2>2, <2>3
<1>8. CASE ~(DropSnapshot \/ ReturnOld \/ StartOld \/ HandlerStart)
  <2>1. pc' \notin {"done", "rolledBack", "restored"}
    BY <1>8
       DEF Next, StopOld, RenameOld, MakeCandidate, StartCandidate, RestoreCandidate,
           CheckCandidate, ConfirmFinalize, RollbackContainer, RollbackVolume,
           StopCandidate, RemoveCandidate, MakeSnapshot, CopySnapshot, RemoveOld,
           RemoveFormal, MakeFormal, CopyCandidate, DropCandidate, StartFormal, CleanStale,
           HandlerContainer, HandlerVolume, HandlerMake, HandlerCopy, Killed,
           StopContainer, RemoveContainer, Rename, RemoveVolume, CreateVolume, CopyVolume,
           ComposeUp, Command, Skip
  <2> QED
    BY <2>1
<1> QED
  BY <1>4, <1>5, <1>6, <1>7, <1>8

\* A new run finds its names free and records what it found.
LEMMA ServedStart == DataInv /\ ServedInv /\ StartRun => ServedInv'
<1> SUFFICES ASSUME DataInv, ServedInv, StartRun PROVE ServedInv'
  OBVIOUS
<1>1. TypeOK /\ Main \in Names /\ Main \notin Runs /\ data' = data
      /\ \A r \in Runs : r \in Names /\ con'[r] = con[r]
  BY RunNames DEF DataInv, TypeInv, StartRun, TypeOK
<1>2. NameFree'
  BY NameFreeStep DEF DataInv, ServedInv, Next
<1>3. CASE UNCHANGED <<pc, run, before>>
  <2>1. pc' \in Ended /\ run' = run
    BY <1>3 DEF StartRun
  <2>2. con[Main] = On(Formal) => con'[Main] = On(Formal)
    <3>1. con'[Main].vol = con[Main].vol /\ con'[Main].up = TRUE
      BY <1>1 DEF StartRun, TypeOK
    <3>2. con'[Main] \in [vol : Volumes \union {NoVolume}, up : BOOLEAN]
      BY <1>1, TypeInvNext DEF DataInv, TypeInv, TypeOK, Next
    <3>3. con'[Main] = [vol |-> con[Main].vol, up |-> TRUE]
      BY <3>1, <3>2
    <3>4. ASSUME con[Main] = On(Formal) PROVE con[Main].vol = Formal
      BY <3>4 DEF On
    <3> QED
      BY <3>3, <3>4 DEF On
  <2>3. Served'
    BY <1>1, <1>3, <2>2
       DEF ServedInv, Served, SuccessServesRestored, RollbackServesOld, SnapshotServesOld, Whole
  <2>4. OldSetAside' /\ OldDataKept' /\ NewServed'
    BY <1>1, <2>1
       DEF ServedInv, OldSetAside, OldDataKept, NewServed, BeforeSnapshot,
           PrepareSteps, RollbackSteps, FinalizeSteps, HandlerSteps, Ended
  <2> QED
    BY <1>2, <2>3, <2>4 DEF ServedInv
<1>4. CASE /\ pc' = "stopOld" /\ run' = run + 1
           /\ before' = [vol |-> con[Main].vol, data |-> data[Formal]]
  <2>1. run' \in Runs /\ run \in Nat /\ run' > run /\ \A r \in Runs : r \in Nat
    <3>1. run' \in Runs
      BY <1>4, TypeInvNext DEF DataInv, TypeInv, RunNamed, Ended, Next
    <3> QED
      BY <1>1, <1>4, <3>1, RunNames DEF TypeOK
  <2>2. \A r \in Runs : r > run => con'[r] = NoContainer
    BY <1>1 DEF ServedInv, OldSetAside
  <2>3. con'[Main].vol = before'.vol
    BY <1>1, <1>4 DEF StartRun, TypeOK
  <2>4. OldSetAside'
    BY <1>4, <2>1, <2>2, <2>3 DEF OldSetAside, PrepareSteps
  <2>5. OldDataKept' /\ NewServed' /\ Served'
    BY <1>1, <1>4
       DEF OldDataKept, NewServed, Served, SuccessServesRestored, RollbackServesOld,
           SnapshotServesOld, BeforeSnapshot,
           PrepareSteps, RollbackSteps, FinalizeSteps, HandlerSteps
  <2> QED
    BY <1>2, <2>4, <2>5 DEF ServedInv
<1> QED
  BY <1>3, <1>4 DEF StartRun

\* Initially the formal container serves the formal volume.
LEMMA ServedInit == Init => ServedInv
<1> SUFFICES ASSUME Init PROVE ServedInv
  OBVIOUS
<1>1. con[Main] = On(Formal) /\ \A r \in Runs : con[r] = NoContainer
  BY RunNames DEF Init
<1>2. NameFree
  BY <1>1, VolumeNames DEF Init, NameFree, Exists, On, NoContainer
<1> QED
  BY <1>1, <1>2
     DEF Init, ServedInv, OldSetAside, OldDataKept, NewServed, Served, BeforeSnapshot,
         SuccessServesRestored, RollbackServesOld, SnapshotServesOld,
         PrepareSteps, RollbackSteps, FinalizeSteps, HandlerSteps

\* The invariant about containers, on top of the one about volumes.
LEMMA ServedInvariant == Spec => [](DataInv /\ ServedInv)
<1>1. DataInv /\ ServedInv /\ Next => ServedInv'
  BY ServedStart, NameFreeStep, OldSetAsideStep, OldDataStep, NewServedStep, ServedStep
     DEF DataInv, ServedInv
<1>2. DataInv /\ ServedInv /\ UNCHANGED vars => ServedInv'
  BY DEF vars, ServedInv, NameFree, Exists, OldSetAside, OldDataKept, NewServed, Served, Whole,
         SuccessServesRestored, RollbackServesOld, SnapshotServesOld
<1>3. DataInv /\ [Next]_vars => DataInv'
  BY DataInvNext
<1> QED
  BY <1>1, <1>2, <1>3, DataInvInit, ServedInit, PTL DEF Spec

\* No volume is copied while a container runs on it: backup containers are stopped,
\* and the formal name is free.
THEOREM QuietWhenCopiedAlways == Spec => []QuietWhenCopied
<1>1. DataInv /\ ServedInv => QuietWhenCopied
  <2> SUFFICES ASSUME ServedInv, NEW n \in Names, pc \in {"copySnap", "copyFormal", "hCopy"}
               PROVE  ~con[n].up
    BY DEF QuietWhenCopied, On
  <2>1. CASE n = Main
    BY <2>1 DEF ServedInv, NameFree, NoContainer
  <2>2. CASE n \in Runs
    BY <2>2 DEF ServedInv, NameFree
  <2> QED
    BY <2>1, <2>2, RunNames
<1> QED
  BY <1>1, ServedInvariant, PTL

\* A run that reports success serves the restored data from the formal volume.
THEOREM SuccessServesRestoredAlways == Spec => []SuccessServesRestored
<1>1. DataInv /\ ServedInv => SuccessServesRestored
  BY DEF ServedInv, Served
<1> QED
  BY <1>1, ServedInvariant, PTL

\* A completed rollback serves what was served before, however it brings the old
\* container back.
THEOREM RollbackServesOldAlways == Spec => []RollbackServesOld
<1>1. DataInv /\ ServedInv => RollbackServesOld
  BY DEF ServedInv, Served
<1> QED
  BY <1>1, ServedInvariant, PTL

\* With a complete snapshot, a failed finalization gives the old data back.
THEOREM SnapshotServesOldAlways == Spec => []SnapshotServesOld
<1>1. DataInv /\ ServedInv => SnapshotServesOld
  BY DEF ServedInv, Served
<1> QED
  BY <1>1, ServedInvariant, PTL
===============================================================================
