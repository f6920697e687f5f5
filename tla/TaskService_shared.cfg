SPECIFICATION ServiceSpec
CONSTANTS
    t1 = t1
    t2 = t2
    claude = claude
    codex = codex
    s1 = s1
    o1 = o1
    o2 = o2
    o3 = o3
    p1 = p1
    p2 = p2
    r1 = r1
    r2 = r2
    NoAgent = NoAgent
    None = None
    Claude = claude
    Agents = {claude, codex}
    Sessions = {s1}
    AgentOf <- OneSession
    Tasks = {t1, t2}
    Hooked = {}
    Readers = {}
    Owners = {NoAgent}
    DepLists = {{}}
    Rank <- Keys
    Procs = {p1, p2}
    Ops = {o1, o2, o3}
    Plots <- Shared
    Revisions = {r1, r2}
    Refused = {o1}
    MaxTime = 1
    MaxVersion = 3
    Ttls = {1}
SYMMETRY Processes
INVARIANT AuditTrail
PROPERTY TakesEffectOnce
CHECK_DEADLOCK FALSE
