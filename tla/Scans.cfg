SPECIFICATION SpecBeside
CONSTANT Clients = {"c1"}
CONSTANT Keys = {1, 2}
CONSTANT KeysOf <- SharedKeys
CONSTANT Snaps = {}
CONSTANT Ops = {"put", "delete"}
CONSTANT Bottom = 1
CONSTANT MemtableSize = 2
CONSTANT MaxL0Files = 1
CONSTANT MaxSSTableSize = 2
CONSTANT MaxBytesBase = 2
CONSTANT LevelMultiplier = 2
CONSTANT FlushChanCap = 6
CONSTANT CrashRecovery = FALSE
CONSTANT SyncBatch = FALSE
CONSTANT MaxWrites = 3
CONSTANT MaxBatch = 2
CONSTANT MaxStarts = 1
CONSTANT MaxFaults = 0
CONSTANT MaxFileNum = 9
CONSTANT Ranges <- SmallRanges
INVARIANT ScanSorted
INVARIANT ScanFresh
INVARIANT ScanDisturbed
