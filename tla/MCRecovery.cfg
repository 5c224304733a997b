SPECIFICATION Spec
CONSTANT MaxRuns = 3
INVARIANTS
    SomeVolumeIsWhole
    QuietWhenCopied
    SuccessServesRestored
    RollbackServesOld
    SnapshotServesOld
CHECK_DEADLOCK FALSE
