SPECIFICATION Spec
CONSTANTS
    Name = {"a", "b"}
    Trees <- MCTrees
    Starts = {"boot", "add"}
    Limit = 9
    Batch = 2
    Capacity = 4
    QueueMax = 2
    MaxDepth = 2
    MaxOps = 3
INVARIANT TypeOK
INVARIANT TreeFollowed
CHECK_DEADLOCK FALSE
