SPECIFICATION Spec
CONSTANT Clients = {"c1", "c2"}
CONSTANT Keys = {1, 2}
CONSTANT KeysOf <- OwnKeys
CONSTANT Snaps = {"s1"}
CONSTANT Ops = {"put", "delete", "batch", "snapshot"}
CONSTANT Bottom = 2
CONSTANT MemtableSize = 1
CONSTANT MaxL0Files = 2
CONSTANT MaxSSTableSize = 2
CONSTANT MaxBytesBase = 8
CONSTANT LevelMultiplier = 2
CONSTANT FlushChanCap = 6
CONSTANT CrashRecovery = FALSE
CONSTANT SyncBatch = TRUE
CONSTANT MaxWrites = 3
CONSTANT MaxBatch = 2
CONSTANT MaxStarts = 1
CONSTANT MaxFaults = 0
CONSTANT MaxFileNum = 50
INVARIANT NoAckedLost
INVARIANT ManifestCurrent
INVARIANT SnapshotReads
