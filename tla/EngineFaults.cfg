SPECIFICATION Spec
CONSTANT Clients = {"c1"}
CONSTANT Keys = {1}
CONSTANT KeysOf <- SharedKeys
CONSTANT Snaps = {}
CONSTANT Ops = {"put", "batch", "sync", "close", "crash", "torn"}
CONSTANT Bottom = 1
CONSTANT MemtableSize = 2
CONSTANT MaxL0Files = 2
CONSTANT MaxSSTableSize = 2
CONSTANT MaxBytesBase = 2
CONSTANT LevelMultiplier = 2
CONSTANT FlushChanCap = 6
CONSTANT CrashRecovery = TRUE
CONSTANT SyncBatch = FALSE
CONSTANT MaxWrites = 3
CONSTANT MaxBatch = 2
CONSTANT MaxStarts = 2
CONSTANT MaxFaults = 1
CONSTANT MaxFileNum = 50
INVARIANT TypeOK
INVARIANT TablesOnDisk
INVARIANT ManifestCovers
CHECK_DEADLOCK FALSE
