SPECIFICATION Spec
CONSTANT MaxRequests = 4
CHECK_DEADLOCK FALSE
INVARIANT TypeOK
INVARIANT RepliesMatch
INVARIANT ChildHoldsNothing
PROPERTY RequestEnds
PROPERTY NoOrphan
