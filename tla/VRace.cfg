SPECIFICATION Spec
CONSTANT Clients = {"c1", "c2"}
CONSTANT Keys = {1, 2}
CONSTANT KeysOf <- OwnKeys
CONSTANT Snaps = {}
CONSTANT Ops = {"put", "crash"}
CONSTANT Bottom = 6
CONSTANT MemtableSize = 1
CONSTANT MaxL0Files = 4
CONSTANT MaxSSTableSize = 2
CONSTANT MaxBytesBase = 2
CONSTANT LevelMultiplier = 2
CONSTANT FlushChanCap = 6
CONSTANT CrashRecovery = TRUE
CONSTANT SyncBatch = TRUE
CONSTANT MaxWrites = 2
CONSTANT MaxBatch = 2
CONSTANT MaxStarts = 2
CONSTANT MaxFaults = 0
CONSTANT MaxFileNum = 50
INVARIANT NoAckedLost
