SPECIFICATION StartSpec
CONSTANT MaxKeys = 3
CHECK_DEADLOCK FALSE
INVARIANTS A20Open TextInOrder LogAsGiven
PROPERTY StartUpEnds
