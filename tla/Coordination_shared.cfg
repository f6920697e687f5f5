SPECIFICATION Spec
CONSTANTS
    a1 = a1
    a2 = a2
    p1 = p1
    p2 = p2
    p3 = p3
    cron = cron
    c1 = c1
    c2 = c2
    n1 = n1
    NoName = NoName
    Operator = Operator
    Expiry = Expiry
    Agents = {a1, a2}
    Procs = {p1, p2, p3, cron}
    Cron = {cron}
    AgentOf <- TwoAndOne
    Plots <- Shared
    Convs = {c1, c2}
    Names = {n1}
    Limit = 1
    Ttl = 1
    MaxInject = 2
INVARIANTS NothingSkipped NamesakesRevived
PROPERTIES PostedKept OutsidersKeptOut
CHECK_DEADLOCK FALSE
