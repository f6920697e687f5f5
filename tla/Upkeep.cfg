SPECIFICATION FairSpec
CONSTANTS
    a1 = a1
    a2 = a2
    n1 = n1
    n2 = n2
    NoAgent = NoAgent
    NoNode = NoNode
    claude = claude
    codex = codex
    s1 = s1
    t1 = t1
    o1 = o1
    o2 = o2
    p1 = p1
    p2 = p2
    r1 = r1
    None = None
    cron = cron
    d1 = d1
    d2 = d2
    x1 = x1
    NoName = NoName
    Operator = Operator
    Expiry = Expiry
    c1 = c1
    c2 = c2
    v1 = v1
    k1 = k1
    k2 = k2
    Scenes = {"locks", "service", "talks", "wake", "drain"}
PROPERTIES ExpiredLocksCleared ExpiredEnded OutcomesDelivered AdmittedEnds
CHECK_DEADLOCK FALSE
