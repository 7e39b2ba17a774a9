SPECIFICATION Spec
CONSTANT Levels = {0, 1, 2, 3, 4, 5, 6}
CONSTANT Edits <- SmallEdits
CONSTANT MaxFailures = 2
INVARIANT ReplayExact
INVARIANT TornConfined
