---------------------------- MODULE MCTaskService ----------------------------
(* Small instances of TaskService.                                          *)
EXTENDS TaskService, TLC

CONSTANTS t1, t2, claude, codex, s1, o1, o2, o3, p1, p2, r1, r2

OneSession == s1 :> codex
Keys == (o1 :> 1) @@ (o2 :> 2) @@ (o3 :> 3)

Ask(o, what, t, status, items) ==
    [op |-> o, by |-> s1, what |-> what, t |-> t, status |-> status, ttl |-> 1,
     force |-> FALSE, expects |-> {}, items |-> items]

\* Retries of one operation, of another, and its id reused for something else.
Retries ==
    {Ask(o1, "create", t1, "open", {}),
     Ask(o2, "update", t1, "done", {}),
     Ask(o2, "claim", t1, "in_progress", {})}

\* A collection is listed in full and then in part.
Collections ==
    {Ask(o1, "reconcile", t1, "open", {t1, t2}),
     Ask(o2, "reconcile", t1, "in_progress", {t1})}

\* The first with a death, a lost answer or a lost delivery; the second while
\* the retired agent works on the tasks.
Shared ==
    {[asked |-> Retries, auths |-> {r1, r2}, older |-> {}, faults |-> 1, time |-> 0],
     [asked |-> Collections, auths |-> {None}, older |-> {claude}, faults |-> 0, time |-> 1]}

Processes == Permutations(Procs)
=============================================================================
