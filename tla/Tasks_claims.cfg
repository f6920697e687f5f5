SPECIFICATION MCSpec
CONSTANTS
    t1 = t1
    t2 = t2
    t3 = t3
    claude = claude
    codex = codex
    s1 = s1
    s2 = s2
    NoAgent = NoAgent
    Claude = claude
    Agents = {claude, codex}
    Sessions = {s1, s2}
    AgentOf <- OneEach
    Tasks = {t1, t2, t3}
    Hooked = {}
    Readers = {s1, codex}
    Owners = {NoAgent, claude}
    DepLists = {{}}
    MaxTime = 1
    Ttls = {1}
    MaxVersion = 4
INVARIANT Acyclic
PROPERTIES LiveClaimKept ExpiredClaimsReleased
CHECK_DEADLOCK FALSE
