SPECIFICATION MCSpec
CONSTANTS
    a1 = a1
    a2 = a2
    r1 = r1
    r2 = r2
    i1 = i1
    k1 = k1
    d1 = d1
    d2 = d2
    ta = ta
    tb = tb
    w1 = w1
    w2 = w2
    w3 = w3
    pa = pa
    Stop = Stop
    n1 = n1
    s1 = s1
    e1 = e1
    x1 = x1
    f1 = f1
    b1 = b1
    b2 = b2
    Scenes = {"work", "life", "graph", "queue", "schema", "ledger", "archive", "kin"}
    Tags <- Rows
    Clients <- Actors
    Captured = {k1}
    Items = {i1}
    MaxSegments = 2
    Candidates = {d1, d2}
    Payloads <- TwoPayloads
    Titles = {ta, tb}
    Concepts <- Rows
    Reviewers <- Actors
    CandidateTtl = 1
    MaxSecond = 1
    Openers = {w1, w2, w3}
    Versions = {1, 2, 3, 4, 5}
    FirstStamped = 3
    ScriptVersion = 4
    CurrentShape = 4
    BuildOf <- Builds
    MayMigrate = {w1, w2, w3}
    Profiles = {pa}
    ProfileOf <- OneProfile
    Stores <- AnyStore
    OpenFaults = 1
    Procs <- Actors
    PaidCalls = {1, 2, 3, 4}
    Limit = 1
    MaxDay = 2
    Troubles = 2
    Kept = {n1, s1}
    Completed = {s1}
    Joins <- OneJoin
    Hands <- Actors
    MaxStamp = 2
    SameSecond = FALSE
    MaxDeaths = 1
    RecordIds = {x1}
    FieldNames = {f1}
    Bodies = {b1, b2}
    MaxEdits = 3
SYMMETRY AnyActor
INVARIANTS OneActiveTag LinksListed CapturedOnce
  OpenIsCurrent Recoverable SpendKept NothingLost LatestKept
PROPERTIES DecidedAsShown MigratedOnce StoppedForTheDay
CHECK_DEADLOCK FALSE
