-------------------------------- MODULE Tasks --------------------------------
(***************************************************************************)
(* Task nodes: their status, version, owner and dependencies, the claim an *)
(* agent holds on one while it works, the sweep that releases claims that  *)
(* ran out and the doctor that hands over those of a retired identity.     *)
(*                                                                         *)
(* Every operation runs in one BEGIN IMMEDIATE transaction and is one step *)
(* that goes through _write_task, which counts the version.  A refused     *)
(* operation raises and rolls back: it is not a step.  Title, content,     *)
(* priority and dates are data; owner stands for all the plain fields.     *)
(***************************************************************************)
EXTENDS Naturals, FiniteSets

CONSTANTS
    Agents,     \* the bare agent names, which older surfaces claim as
    Sessions,   \* host sessions: "agent:session" is a holder of its own
    AgentOf,    \* the agent of each session
    Claude,     \* the bare name that the doctor retires
    Tasks,      \* the pool of task ids, including those not yet minted
    NoAgent,
    Hooked,     \* the tasks a native hook stamped: the doctor leaves them
    Readers,    \* the callers that send the version they read
    Owners,     \* the values callers give to the owner field
    DepLists,   \* the dependency lists they give
    MaxTime,    \* bound of the clock
    Ttls,       \* the claim lifetimes callers ask for
    MaxVersion  \* bound of what callers write: no task passes this version

Callers == Agents \cup Sessions

ASSUME CallersAssumption ==
    /\ NoAgent \notin Callers
    /\ Claude \in Agents
    /\ Agents \cap Sessions = {}
    /\ AgentOf \in [Sessions -> Agents]
ASSUME TasksAssumption == Hooked \subseteq Tasks
ASSUME InputsAssumption ==
    /\ Readers \subseteq Callers
    /\ Owners \subseteq Agents \cup {NoAgent}
    /\ DepLists \subseteq SUBSET Tasks
ASSUME BoundsAssumption ==
    MaxTime \in Nat /\ Ttls \subseteq Nat /\ MaxVersion \in Nat

VARIABLES
    now,        \* the wall clock, in the unit of claim lifetimes
    task,       \* the task rows
    seen,       \* the row each reader got last, whose version it may send
    todo,       \* the rows the claim sweep read and has still to visit
    repaired,   \* history: the tasks whose claim the doctor handed over
    last        \* history: who made the last step, with what authority

vars == <<now, task, seen, todo, repaired, last>>

-----------------------------------------------------------------------------
(* Rows *)

Statuses == {"open", "in_progress", "done", "cancelled"}
Closed == {"done", "cancelled"}

NoClaim == [holder |-> NoAgent, until |-> 0]
Claims == [holder : Callers \cup {NoAgent}, until : Nat]

Rows == [status : Statuses \cup {"absent"}, version : Nat, claim : Claims,
         owner : Agents \cup {NoAgent}, deps : SUBSET Tasks]

NoRow == [status |-> "absent", version |-> 0, claim |-> NoClaim,
          owner |-> NoAgent, deps |-> {}]

Exists(t) == task[t].status # "absent"

\* tasks._claim_expired, which also wants a claim.
Claimed(r) == r.claim # NoClaim
Live(r) == Claimed(r) /\ r.claim.until > now
Expired(r) == Claimed(r) /\ r.claim.until <= now

\* tasks._write_task: the row as changed, one version on.
Written(t, r) == [task EXCEPT ![t] = [r EXCEPT !.version = task[t].version + 1]]

\* tasks.update_task writes nothing when nothing changed.
WrittenIfChanged(t, r) == IF r = task[t] THEN task ELSE Written(t, r)

-----------------------------------------------------------------------------
(* Dependencies *)

DirectlyCyclic(t, refs) == \E d \in refs : t \in task[d].deps

\* tasks._dependencies: the walk from the new references, along the rows that
\* exist, meets t.  It does exactly when t is in every set of tasks that
\* holds the references and the dependencies of its members.
Cyclic(t, refs) ==
    \A S \in SUBSET Tasks :
        (refs \subseteq S /\ \A d \in S : task[d].deps \subseteq S) => t \in S

Dependable(t, refs) ==
    /\ \A d \in refs : d # t /\ Exists(d)
    /\ ~Cyclic(t, refs)

-----------------------------------------------------------------------------
(* Who may do what *)

Note(by, force, cas) == last' = [by |-> by, force |-> force, cas |-> cas]

\* task_service._repaired_owner_matches: a session acts with force on a claim
\* held by the bare name of its agent.
Repaired(by, r) ==
    by \in Sessions /\ AgentOf[by] # Claude /\ r.claim.holder = AgentOf[by]

\* tasks._refuse_foreign_claim
MayEndClaimUnasked(by, r, force) == TRUE
MayEndClaim(by, r, force) ==
    force \/ Repaired(by, r) \/ ~Live(r) \/ r.claim.holder = by

\* A write of a caller stays within the bound of versions.
Bounded(t) == task[t].version < MaxVersion

Init ==
    /\ now = 0
    /\ task = [t \in Tasks |-> NoRow]
    /\ seen = [c \in Readers |-> [t |-> {}, row |-> NoRow]]
    /\ todo = {}
    /\ repaired = {}
    /\ last = [by |-> NoAgent, force |-> FALSE, cas |-> FALSE]

-----------------------------------------------------------------------------
(* Operations                                                              *)

\* tasks.create_task: every reference is checked before the row is minted.
CreateTask(by, t, owner, deps) ==
    /\ ~Exists(t) /\ Bounded(t)
    /\ Dependable(t, deps)
    /\ task' = Written(t, [NoRow EXCEPT !.status = "open", !.owner = owner,
                                        !.deps = deps])
    /\ Note(by, FALSE, FALSE)
    /\ UNCHANGED <<now, seen, todo, repaired>>

\* What update_task makes of a row: every status but in_progress ends the
\* claim.  A field the caller leaves out keeps its value.
WithFields(r, status, owner, deps) ==
    [r EXCEPT !.status = status, !.owner = owner, !.deps = deps,
              !.claim = IF status = "in_progress" THEN @ ELSE NoClaim]

\* Another caller's expected_version is the one of the row it read.
VersionSeen(by, t) == seen[by].t = {t} /\ seen[by].row.version = task[t].version

\* tasks.update_task, complete_task and cancel_task.
UpdateTask(by, t, status, owner, deps, force, cas) ==
    /\ Exists(t) /\ Bounded(t)
    /\ cas => by \in Readers /\ VersionSeen(by, t)
    /\ status # "in_progress" => MayEndClaim(by, task[t], force)
    /\ Dependable(t, deps)
    /\ task' = WrittenIfChanged(t, WithFields(task[t], status, owner, deps))
    /\ repaired' = {x \in repaired : Claimed(task'[x])}
    /\ Note(by, force, cas)
    /\ UNCHANGED <<now, seen, todo>>

WithClaim(r, by, until) ==
    [r EXCEPT !.status = "in_progress", !.claim = [holder |-> by, until |-> until]]

\* tasks.claim_task: the holder refreshes, an expired claim is taken over.
ClaimTask(by, t, ttl, force) ==
    /\ Exists(t) /\ Bounded(t)
    /\ task[t].status \notin Closed
    /\ force \/ ~Live(task[t]) \/ task[t].claim.holder = by
    /\ task' = Written(t, WithClaim(task[t], by, now + ttl))
    /\ repaired' = repaired \ {t}
    /\ Note(by, force, FALSE)
    /\ UNCHANGED <<now, seen, todo>>

\* The row after release_task_claim.
Released(r) ==
    [r EXCEPT !.claim = NoClaim,
              !.status = IF @ = "in_progress" THEN "open" ELSE @]

\* tasks.release_task_claim: the holder's, or forced, also when it ran out.
ReleaseTask(by, t, force) ==
    /\ Exists(t) /\ Bounded(t)
    /\ Claimed(task[t])
    /\ force \/ Repaired(by, task[t]) \/ task[t].claim.holder = by
    /\ task' = Written(t, Released(task[t]))
    /\ repaired' = repaired \ {t}
    /\ Note(by, force, FALSE)
    /\ UNCHANGED <<now, seen, todo>>

\* task_service.execute "get", or any earlier answer: what a caller will
\* compare with.
ReadTask(by, t) ==
    /\ by \in Readers
    /\ Exists(t)
    /\ seen' = [seen EXCEPT ![by] = [t |-> {t}, row |-> task[t]]]
    /\ Note(by, FALSE, FALSE)
    /\ UNCHANGED <<now, task, todo, repaired>>

\* task_service.task_owner_findings_for_nodes: what the doctor may repair.
Repairable(t) ==
    /\ Exists(t)
    /\ t \notin Hooked
    /\ task[t].owner = Claude \/ task[t].claim.holder = Claude

\* The row the doctor leaves: the owner field is renamed, an expired claim is
\* released, a live one goes to the agent with the time it had left.
Reowned(r, agent) == IF r.owner = Claude THEN [r EXCEPT !.owner = agent] ELSE r
HandedOver(r, agent) ==
    IF r.claim.holder # Claude THEN Reowned(r, agent)
    ELSE IF Expired(r) THEN Released(Reowned(r, agent))
    ELSE [Reowned(r, agent) EXCEPT !.claim.holder = agent]

\* task_service.repair_task_owners: all in one transaction.
RepairTaskOwners(agent) ==
    /\ agent # Claude
    /\ \E t \in Tasks : Repairable(t)
    /\ \A t \in Tasks : Repairable(t) => Bounded(t)
    /\ task' = [t \in Tasks |-> IF Repairable(t)
                                THEN Written(t, HandedOver(task[t], agent))[t]
                                ELSE task[t]]
    /\ repaired' = repaired \cup {t \in Tasks : Repairable(t) /\ Live(task[t])
                                                /\ task[t].claim.holder = Claude}
    /\ Note(agent, FALSE, FALSE)
    /\ UNCHANGED <<now, seen, todo>>

-----------------------------------------------------------------------------
(* The claim sweep *)

\* What list_tasks finds for the sweep.
ListedOpen == {t \in Tasks : task[t].status = "open" /\ Expired(task[t])}
Listed == {t \in Tasks : task[t].status = "in_progress" /\ Expired(task[t])}

\* tasks.cleanup_expired_claims: the list is read before the first release.
SweepRead ==
    /\ todo = {}
    /\ todo' = Listed
    /\ Note(NoAgent, FALSE, FALSE)
    /\ UNCHANGED <<now, task, seen, repaired>>

\* The expiry is checked again in the transaction of each release.
SeenExpired(t) == Claimed(task[t])
StillExpired(t) == Expired(task[t])

SweepRelease(t) ==
    /\ t \in todo
    /\ todo' = todo \ {t}
    /\ task' = IF StillExpired(t) THEN Written(t, Released(task[t])) ELSE task
    /\ repaired' = {x \in repaired : Claimed(task'[x])}
    /\ Note(NoAgent, FALSE, FALSE)
    /\ UNCHANGED <<now, seen>>

Sweep == SweepRead \/ \E t \in Tasks : SweepRelease(t)

Tick ==
    /\ now < MaxTime
    /\ now' = now + 1
    /\ Note(NoAgent, FALSE, FALSE)
    /\ UNCHANGED <<task, seen, todo, repaired>>

CallerStep(by) ==
    \E t \in Tasks :
        \/ \E owner \in Owners, deps \in DepLists : CreateTask(by, t, owner, deps)
        \/ \E status \in Statuses, owner \in Owners \cup {task[t].owner},
              deps \in DepLists \cup {task[t].deps}, force, cas \in BOOLEAN :
             UpdateTask(by, t, status, owner, deps, force, cas)
        \/ \E ttl \in Ttls, force \in BOOLEAN : ClaimTask(by, t, ttl, force)
        \/ \E force \in BOOLEAN : ReleaseTask(by, t, force)
        \/ ReadTask(by, t)

Next ==
    \/ Tick
    \/ Sweep
    \/ \E by \in Callers : CallerStep(by)
    \/ \E agent \in Agents : RepairTaskOwners(agent)

Spec == Init /\ [][Next]_vars

\* The scheduler runs the cron pass again and again; callers and clock owe
\* nothing.
FairSpec == Spec /\ WF_vars(Sweep)

-----------------------------------------------------------------------------
(* Properties *)

\* Rows, reads and sweep keep their shape.
TypeOK ==
    /\ now \in Nat
    /\ task \in [Tasks -> Rows]
    /\ seen \in [Readers -> [t : SUBSET Tasks, row : Rows]]
    /\ todo \subseteq Tasks
    /\ repaired \subseteq Tasks
    /\ last \in [by : Callers \cup {NoAgent}, force : BOOLEAN, cas : BOOLEAN]

\* Only a task in progress carries a claim, so the sweep, which looks at
\* those alone, misses none (tasks.cleanup_expired_claims).
ClaimedInProgress == \A t \in Tasks : Claimed(task[t]) => task[t].status = "in_progress"

\* No chain of dependencies comes back to its start, whoever adds them and in
\* whatever order (tasks._dependencies): in any set of tasks one depends on
\* none of the set.
Acyclic ==
    \A S \in SUBSET Tasks :
        S # {} => \E t \in S : task[t].deps \cap S = {}

\* What the claim of t may become while it is live: its holder's doing,
\* somebody's with force, that of a session of the bare holder, or the
\* doctor's, who leaves it the time it had.
ClaimRespected(t) ==
    \/ last'.force
    \/ last'.by = task[t].claim.holder
    \/ Repaired(last'.by, task[t])
    \/ task[t].claim.holder = Claude /\ task'[t].claim.until = task[t].claim.until

\* A live claim is not dropped, taken or shortened by others, neither by a
\* status change, nor by a sweep that read it before it was refreshed
\* (tasks._refuse_foreign_claim, tasks.cleanup_expired_claims).
LiveClaimKept ==
    [][\A t \in Tasks :
         (Live(task[t]) /\ task'[t].claim # task[t].claim) => ClaimRespected(t)]_vars

\* A caller that sends the version it read writes only over the very row it
\* read: a version never comes back with other content (tasks.update_task).
NoLostUpdate ==
    [][\A c \in Readers, t \in Tasks :
         (last'.cas /\ last'.by = c /\ task'[t] # task[t]) => task[t] = seen[c].row]_vars

\* A claim that ran out is released, or refreshed by somebody
\* (tasks.cleanup_expired_claims).
ExpiredClaimsReleased ==
    \A t \in Tasks : Expired(task[t]) ~> ~Expired(task[t])
-----------------------------------------------------------------------------
(* What the documentation promises and the code does not do: TLC refutes   *)
(* each of these.                                                          *)

\* A session ends a live claim held by the bare name of its agent only when
\* the doctor gave it that claim (task_service._repaired_owner_matches).
BareClaimOnlyAfterDoctor ==
    [][\A t \in Tasks :
         (/\ Live(task[t]) /\ ~Claimed(task'[t])
          /\ Repaired(last'.by, task[t]) /\ ~last'.force)
         => t \in repaired]_vars
=============================================================================
