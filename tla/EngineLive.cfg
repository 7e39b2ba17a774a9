SPECIFICATION FairSpec
CONSTANT Clients = {"c1", "c2"}
CONSTANT Keys = {1, 2}
CONSTANT KeysOf <- OwnKeys
CONSTANT Snaps = {}
CONSTANT Ops = {"put", "close"}
CONSTANT Bottom = 2
CONSTANT MemtableSize = 2
CONSTANT MaxL0Files = 1
CONSTANT MaxSSTableSize = 1
CONSTANT MaxBytesBase = 1
CONSTANT LevelMultiplier = 2
CONSTANT FlushChanCap = 1
CONSTANT CrashRecovery = FALSE
CONSTANT SyncBatch = TRUE
CONSTANT MaxWrites = 3
CONSTANT MaxBatch = 2
CONSTANT MaxStarts = 1
CONSTANT MaxFaults = 0
CONSTANT MaxFileNum = 20
PROPERTY WaitsEnd
PROPERTY FlushesEnd
