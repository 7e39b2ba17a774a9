SPECIFICATION Spec
CONSTANT Files = {1, 2}
CONSTANT RecordsOf <- SmallTables
CONSTANT BlockSize = 24
CONSTANT CacheCap = 2
CONSTANT Getters = {"g1"}
CONSTANT Scanners = {"i1"}
CONSTANT Lookups <- SmallLookups
CONSTANT FileNumLimit = 10
CONSTANT FilterM = 10
CONSTANT FilterK = 2
CONSTANT Hash1 <- SmallHash1
CONSTANT Hash2 <- SmallHash2
INVARIANT OpensWhole
INVARIANT GetCorrect
INVARIANT IterExact
INVARIANT CacheSound
