SPECIFICATION Spec
CONSTANTS
    Agents = {a1, a2}
    Nodes = {n1, n2, n3, n4}
    a1 = a1
    a2 = a2
    n1 = n1
    n2 = n2
    n3 = n3
    n4 = n4
    NoAgent = NoAgent
    NoNode = NoNode
    Born <- WatchAndConcept
    MaxTime = 0
    Ttls = {}
    Uses <- OneAll
SYMMETRY SpareIds
INVARIANT LineageLinked
CHECK_DEADLOCK FALSE
