SPECIFICATION MCSpec
CONSTANTS
    Agents = {a1, a2}
    Nodes = {n1, n2, n3}
    a1 = a1
    a2 = a2
    n1 = n1
    n2 = n2
    n3 = n3
    n4 = n4
    NoAgent = NoAgent
    NoNode = NoNode
    Born <- OneConcept
    MaxTime = 1
    Ttls = {1}
    Uses <- EachOne
ACTION_CONSTRAINT OnePurpose
SYMMETRY SpareIdsAndAgents
INVARIANTS LockIsolatesEdits OneSuccessor
PROPERTY SweepsReadAgain
CHECK_DEADLOCK FALSE
