SPECIFICATION Spec
CONSTANTS
    Name = {"a", "b"}
    Trees <- MCTrees
    Starts = {"boot"}
    Limit = 9
    Batch = 2
    Capacity = 4
    QueueMax = 2
    MaxDepth = 2
    MaxOps = 0
INVARIANT MarkedResolvable
CHECK_DEADLOCK FALSE
