SPECIFICATION Spec
CONSTANT IKeys <- SmallIKeys
CONSTANT Targets <- SmallTargets
CONSTANT MaxPuts = 4
CONSTANT MaxLevel = 2
CONSTANT Iters = {"i1"}
INVARIANT LevelsNested
INVARIANT SearchCorrect
INVARIANT IterComplete
