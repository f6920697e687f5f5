------------------------------ MODULE MCUpkeep ------------------------------
(* What must happen in the end: the cron pass clears what has expired, the  *)
(* host's requests deliver outcomes, and workers finish the reviews.  The   *)
(* components share the clock; in a scene one of them works, while the      *)
(* variables of the others stay as they began.                              *)
EXTENDS Naturals, Sequences, TLC

CONSTANTS
    a1, a2, n1, n2, NoAgent, NoNode,
    claude, codex, s1, t1, o1, o2, p1, p2, r1, None,
    cron, d1, d2, x1, NoName, Operator, Expiry,
    c1, c2, v1, k1, k2,
    Scenes

VARIABLES scene, now

-----------------------------------------------------------------------------
(* NodeLocks: a watch that an agent supersedes or invalidates *)
VARIABLES node, lop, sweep, breach
lockVars == <<node, lop, sweep, breach>>

N == INSTANCE NodeLocks WITH
    Agents <- {a1, a2}, Nodes <- {n1, n2}, op <- lop, MaxTime <- 1, Ttls <- {1},
    Born <- [n \in {n1, n2} |-> IF n = n1 THEN "watch" ELSE "none"],
    Uses <- [a \in {a1, a2} |-> IF a = a1 THEN {"invalidate", "supersede"} ELSE {}]

(* TaskService: two outcomes to deliver, the first of them refused for good *)
VARIABLES task, seen, todo, repaired, tlast,
          splot, receipt, outcome, cursor, recorded, proc, faults, effects, answers
serviceVars == <<task, seen, todo, repaired, tlast,
                 splot, receipt, outcome, cursor, recorded, proc, faults, effects, answers>>

Ask(o, what, status) ==
    [op |-> o, by |-> s1, what |-> what, t |-> t1, status |-> status, ttl |-> 1,
     force |-> FALSE, expects |-> {}, items |-> {}]

S == INSTANCE TaskService WITH
    Agents <- {claude, codex}, Sessions <- {s1}, AgentOf <- (s1 :> codex),
    Claude <- claude, Tasks <- {t1}, Hooked <- {}, Readers <- {}, Owners <- {NoAgent},
    DepLists <- {{}}, MaxTime <- 0, Ttls <- {}, MaxVersion <- 3, last <- tlast,
    Procs <- {p1, p2}, Ops <- {o1, o2}, Rank <- (o1 :> 1) @@ (o2 :> 2),
    Revisions <- {r1}, Refused <- {o1}, plot <- splot,
    Plots <- {[asked |-> {Ask(o1, "create", "open"), Ask(o2, "update", "done")},
               auths |-> {r1}, older |-> {}, faults |-> 0, time |-> 0]}

(* Coordination: an agent creates and posts, and the cron pass sweeps *)
VARIABLES plot, conv, op, crashes, picked, heard, revived, clast
coordVars == <<plot, conv, op, crashes, picked, heard, revived, clast>>

C == INSTANCE Coordination WITH
    Agents <- {a1}, Procs <- {p1, cron}, Cron <- {cron}, AgentOf <- (p1 :> a1), Convs <- {d1, d2},
    Names <- {x1}, Limit <- 1, Ttl <- 1, MaxInject <- 0, last <- clast,
    Plots <- {[kinds |-> (p1 :> {"create", "post"}) @@ (cron :> {}), convs |-> {d1, d2},
               posts |-> 1, time |-> 2, crashes |-> 0]}

(* Reviews: two reviews *)
VARIABLES issued, meta, control, worker, knock, hook, health, past, mishaps
reviewVars == <<issued, meta, control, worker, knock, hook, health, past, mishaps>>

R == INSTANCE Reviews WITH
    Convs <- {c1, c2}, Windows <- {v1}, Workers <- {k1, k2}, MaxReviews <- 2, MaxQueue <- 2,
    MaxJobs <- 1, Threshold <- 1, Faults <- 2

-----------------------------------------------------------------------------
vars == <<scene, now, lockVars, serviceVars, coordVars, reviewVars>>

MCInit ==
    /\ scene \in Scenes
    /\ N!Init /\ S!ServiceInit /\ C!Init /\ R!ReviewsInit

Locks == scene = "locks" /\ UNCHANGED <<scene, serviceVars, coordVars, reviewVars>>
Service == scene = "service" /\ UNCHANGED <<scene, lockVars, coordVars, reviewVars>>
Talks == scene = "talks" /\ UNCHANGED <<scene, lockVars, serviceVars, reviewVars>>

Young(given) ==
    /\ control'.old = {}
    /\ \A w \in {k1, k2} : worker'[w].at # "check" /\ worker'[w].answer \in given \cup {"none"}

\* Nothing fails and no pass of cron comes, so that only hooks start workers.
Woken(step) ==
    /\ scene = "wake" /\ step /\ UNCHANGED <<scene, now, lockVars, serviceVars, coordVars>>
    /\ Young({"quiet"}) /\ control'.failures = 0 /\ mishaps' = 0
    /\ \A w \in {k1, k2} : ~(worker[w].at = "off" /\ worker'[w].at = "flush")

\* Workers die and calls fail, and only the passes of cron drain.
Drained(step) ==
    /\ scene = "drain" /\ step /\ UNCHANGED <<scene, now, lockVars, serviceVars, coordVars>>
    /\ Young({"quiet", "failure"}) /\ hook' = {}
    /\ \A w \in {k1, k2} : worker'[w].at # "gate"

Reviewed(step) == Woken(step) \/ Drained(step)

MCNext ==
    \/ Locks /\ N!Next
    \/ Service /\ S!ServiceNext
    \/ Talks /\ C!Next
    \/ Reviewed(R!ReviewsNext)

MCSpec == MCInit /\ [][MCNext]_vars

\* The scheduler runs the cron pass again and again, and SQLite lets it commit.  A
\* started attempt of a request goes on, and hosts go on asking.  A worker goes on,
\* one that was started gets its turn, and cooldowns and backoffs run out.  Agents,
\* sessions, hooks and the clock owe nothing.
FairSpec ==
    /\ MCSpec
    /\ WF_vars(Locks /\ N!Sweep)
    /\ WF_vars(Talks /\ (C!Begin(cron) \/ C!Change(cron)))
    /\ \A p \in {p1, p2} : WF_vars(Service /\ S!Proceed(p)) /\ SF_vars(Service /\ S!Retry(p))
    /\ WF_vars(Woken(R!Wake))
    /\ \A w \in {k1, k2} :
         /\ WF_vars(Woken(R!Enter(w))) /\ WF_vars(Drained(R!Drain(w)))
         /\ WF_vars(Reviewed(R!Works(w)))
    /\ WF_vars(Reviewed(R!CooldownEnds))
    /\ \A c \in {c1, c2} : WF_vars(Reviewed(R!BackoffEnds(c)))

-----------------------------------------------------------------------------
\* A lock that has run out is cleared (NodeLocks).
ExpiredLocksCleared == N!ExpiredLocksCleared

\* An expired conversation is ended, or a post slides its expiry (Coordination).
ExpiredEnded == C!ExpiredEnded

\* An outcome that the audit refuses does not starve the others (TaskService).
OutcomesDelivered == S!OutcomesDelivered

\* A review that was admitted ends (Reviews).
AdmittedEnds == R!AdmittedEnds
=============================================================================
