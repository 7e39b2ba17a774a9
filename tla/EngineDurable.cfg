SPECIFICATION Spec
CONSTANT Clients = {"c1"}
CONSTANT Keys = {1, 2}
CONSTANT KeysOf <- SharedKeys
CONSTANT Snaps = {}
CONSTANT Ops = {"put", "delete", "sync", "crash"}
CONSTANT Bottom = 1
CONSTANT MemtableSize = 2
CONSTANT MaxL0Files = 4
CONSTANT MaxSSTableSize = 2
CONSTANT MaxBytesBase = 2
CONSTANT LevelMultiplier = 2
CONSTANT FlushChanCap = 6
CONSTANT CrashRecovery = TRUE
CONSTANT SyncBatch = TRUE
CONSTANT MaxWrites = 4
CONSTANT MaxBatch = 2
CONSTANT MaxStarts = 2
CONSTANT MaxFaults = 0
CONSTANT MaxFileNum = 50
INVARIANT NoAckedLost
INVARIANT AckedOnDisk
PROPERTY SyncFlushes
