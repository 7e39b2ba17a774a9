SPECIFICATION Spec
CONSTANT Clients = {"c1"}
CONSTANT Keys = {1, 2, 3}
CONSTANT KeysOf <- SharedKeys
CONSTANT Snaps = {}
CONSTANT Ops = {"put", "delete"}
CONSTANT Bottom = 2
CONSTANT MemtableSize = 2
CONSTANT MaxL0Files = 1
CONSTANT MaxSSTableSize = 1
CONSTANT MaxBytesBase = 1
CONSTANT LevelMultiplier = 2
CONSTANT FlushChanCap = 6
CONSTANT CrashRecovery = FALSE
CONSTANT SyncBatch = TRUE
CONSTANT MaxWrites = 4
CONSTANT MaxBatch = 2
CONSTANT MaxStarts = 1
CONSTANT MaxFaults = 0
CONSTANT MaxFileNum = 24
INVARIANT OneCompaction
INVARIANT LevelsOrdered
INVARIANT ReadsNewest
PROPERTY ImplementsLSM
