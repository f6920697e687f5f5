SPECIFICATION Spec
CONSTANTS
    p1 = p1
    p2 = p2
    e1 = e1
    NoProc = NoProc
    Procs = {p1, p2}
    Reminders = {e1}
    MaxAttempts = 2
    Plots <- Firings
INVARIANTS OneFiring NoOverlap
PROPERTIES LaunchesBounded NonePassedOver
CHECK_DEADLOCK FALSE
