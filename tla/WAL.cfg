SPECIFICATION FairSpec
CONSTANT Reqs = {1, 2, 3}
CONSTANT ChanCap = 2
CONSTANT MayFail = TRUE
CONSTANT RecordsOf <- SmallRequests
INVARIANT TypeOK
INVARIANT AckedSynced
INVARIANT WrittenOnce
INVARIANT CloseDrains
INVARIANT ReplayPrefix
PROPERTY AppendOnly
PROPERTY Answered
PROPERTY CloseReturns
