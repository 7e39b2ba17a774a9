SPECIFICATION Spec
CONSTANT Records <- SmallRecords
CONSTANT Bottom = 2
INVARIANT TypeOK
INVARIANT LevelsDisjoint
INVARIANT ContentsCorrect
PROPERTY ImplementsKV
CHECK_DEADLOCK FALSE
