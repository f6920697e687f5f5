SPECIFICATION MCSpec
CONSTANTS
    v1 = v1
    v2 = v2
    k1 = k1
    k2 = k2
    c1 = c1
    c2 = c2
    c3 = c3
    g1 = g1
    g2 = g2
    m1 = m1
    n1 = n1
    n2 = n2
    w1 = w1
    w2 = w2
    d1 = d1
    d2 = d2
    i1 = i1
    Scenes = {"queue", "park", "health", "circuit", "advice", "drains", "full", "person", "writers", "drainers", "alerts"}
    Convs = {c1, c2}
    Windows = {v1, v2}
    Workers = {k1, k2}
    MaxReviews = 3
    MaxQueue = 1
    MaxJobs = 2
    Threshold = 1
    Faults = 2
    Talks = {c1, c2, c3}
    Drains = {g1, g2}
    Persons = {m1}
    Ticks = {v1}
    MaxLeased = 2
    MaxQueued = 2
    MaxTries = 2
    MaxStops = 2
    MaxGradingDeaths = 1
    Texts = {n1, n2}
    Writers = {w1, w2}
    Drainers = {d1, d2}
    MaxText = 3
    TooLarge = {2}
    MaxBatch = 2
    MaxOutages = 1
    Problems = {i1}
    Checkers = {k1, k2}
    Sustained = 2
    Cooldown = 2
    MaxClock = 2
    MaxAlerts = 2
    MaxCheckerDeaths = 1
SYMMETRY Interchangeable
INVARIANTS PaidOnce NoneLost ShownOnce OutcomesReported
  StopsAnswered GradedAgainIfForgotten StaleIsQueued ShownOncePerCooldown
CHECK_DEADLOCK FALSE
