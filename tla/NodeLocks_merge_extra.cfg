SPECIFICATION Spec
CONSTANTS
    Agents = {a1, a2}
    Nodes = {n1, n2}
    a1 = a1
    a2 = a2
    n1 = n1
    n2 = n2
    n3 = n3
    n4 = n4
    NoAgent = NoAgent
    NoNode = NoNode
    Born <- TwoConcepts
    MaxTime = 0
    Ttls = {1}
    Uses <- OneDreams
INVARIANT MergePreservesLock
CHECK_DEADLOCK FALSE
