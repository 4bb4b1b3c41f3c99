SPECIFICATION Spec
CONSTANTS
    p1 = p1
    p2 = p2
    p3 = p3
    g1 = g1
    g2 = g2
    Proc = {p1, p2}
    Boot = {p1}
    BootNamed = {p1}
    Group = {g1}
    ChanCap = 1
    ConnCap = 3
    MaxEvents = 2
CHECK_DEADLOCK FALSE
INVARIANT TypeOK
INVARIANT NoneMissed
INVARIANT OnceInOrder
INVARIANT ChildrenIncluded
INVARIANT TopologyKnown
PROPERTY EventsDelivered
