\* Parts come to their ends.
CONSTANTS
    J = 3
    Bit <- MCBit
    Ages <- MCAges
    NoInode = NoInode
    NoKey = NoKey
    Injectors = {"i1", "i2", "i3"}
    HasNamedPipeBug1 = FALSE
    MaxFaults = 1
    MaxEdits = 3
    MaxHups = 3
    MaxErrors = 2
    Auto_spawn = 2
    PipeSize = 5
    Fates = {"ok", "crash"}
    MaxAborts = 1
SPECIFICATION MCSpec
INVARIANTS NoLostWakeup Root Truthful AtomicUpdate Wired
PROPERTIES Scheduled AsDocumented
CHECK_DEADLOCK FALSE
