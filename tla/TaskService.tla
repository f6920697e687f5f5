----------------------------- MODULE TaskService -----------------------------
(***************************************************************************)
(* Durable task operations for host adapters: an operation carries an id   *)
(* chosen by its host, takes effect in one transaction with the receipt    *)
(* that says so, and is retried with the same id until the host hears the  *)
(* answer.  When a policy owner (signet-eval) admits operations, the same  *)
(* transaction stores an outcome, delivered and acknowledged afterwards.   *)
(*                                                                         *)
(* Hosts run the adapter as short-lived processes, several at once, which  *)
(* may die between any two steps.  All operations address one project; an  *)
(* id stands for the pair of a session's scope and its operation id.       *)
(***************************************************************************)
EXTENDS Tasks

CONSTANTS
    Procs,      \* adapter processes
    Ops,        \* operation ids
    Plots,      \* the bounds of the behaviours: each follows one of them
    Rank,       \* the order of the outcome keys
    Revisions,  \* policy revisions; None stands for kindex itself
    Refused,    \* the operations whose outcome the audit refuses for good
    None

Whats == {"create", "update", "claim", "release", "reconcile"}

\* expects is empty or holds the expected version; items are the tasks that a
\* reconcile lists, each standing for its external id in that collection.
RequestType ==
    [op : Ops, by : Sessions, what : Whats, t : Tasks, status : Statuses,
     ttl : Nat, force : BOOLEAN, expects : SUBSET Nat, items : SUBSET Tasks]

\* What hosts ask, each under one id; the policy revisions they are admitted
\* under; the agents that also use the older surfaces; bounds of the deaths and
\* failed deliveries, and of the clock.
ASSUME PlotsAssumption ==
    Plots \subseteq [asked : SUBSET RequestType, auths : SUBSET (Revisions \cup {None}),
                     older : SUBSET Agents, faults : Nat, time : Nat]

Requests == UNION {x.asked : x \in Plots}

ASSUME RequestsAssumption ==
    /\ \A r, q \in Requests : r.op = q.op => r.by = q.by
    /\ \A x \in Plots : \A r, q \in x.asked : r.what = "create" => r.t \notin q.items
ASSUME AuditAssumption ==
    /\ Rank \in [Ops -> Nat]
    /\ \A o, x \in Ops : Rank[o] = Rank[x] => o = x
    /\ Refused \subseteq Ops
    /\ None \notin Ops

VARIABLES
    plot,       \* the bounds of this behaviour, chosen at the start
    receipt,    \* the receipt of each operation: a set of at most one
    outcome,    \* its outcome record
    cursor,     \* the outcome each session tried to deliver last
    recorded,   \* external: what the audit of signet-eval has recorded
    proc,       \* what each process is doing
    faults,     \* deaths and failed deliveries so far
    effects,    \* history: how often each operation took effect
    answers     \* history: the successes hosts were told

service == <<plot, receipt, outcome, cursor, recorded, proc, faults, effects, answers>>
allvars == <<vars, service>>

-----------------------------------------------------------------------------
(* Receipts *)

\* The rows an operation answers with; the tasks of a reconcile together.
Answered(r, rows) == [req |-> r, rows |-> rows]
Rows1(r, tasks) == {tasks[t] : t \in {r.t} \cup r.items}

Results == [req : Requests, rows : SUBSET Rows]

ASSUME NoneAssumption == None \notin Results

\* The digest binds the id to operation, arguments and scope.
Matches(rc, r) == rc.result.req = r

Replies == {rc.result : rc \in UNION {receipt[o] : o \in Ops}}

Idle == [pc |-> "idle", req |-> {}, auth |-> None, reply |-> {}, pick |-> None]

PCs == {"idle", "admit", "execute", "flush", "cursor", "deliver", "ack", "return"}

Req(p) == CHOOSE r \in proc[p].req : TRUE
At(p, pc) == proc[p].pc = pc

ServiceInit ==
    /\ Init /\ plot \in Plots
    /\ receipt = [o \in Ops |-> {}]
    /\ outcome = [o \in Ops |-> "none"]
    /\ cursor = [s \in Sessions |-> None]
    /\ recorded = {}
    /\ proc = [p \in Procs |-> Idle]
    /\ faults = 0
    /\ effects = [o \in Ops |-> 0]
    /\ answers = [o \in Ops |-> {}]

-----------------------------------------------------------------------------
(* Effects.  Each is one transaction on the tasks.                          *)

\* The row a creation leaves: another status than open is a second write.
Created(status) ==
    [NoRow EXCEPT !.status = status, !.version = IF status = "open" THEN 1 ELSE 2]

\* What a reconcile makes of its collection: the listed tasks get their
\* status, those it does not list are cancelled when they are not yet closed.
\* A collection holds the tasks of the session's earlier requests.
Collection(r) ==
    {t \in Tasks : Exists(t) /\ \E q \in plot.asked : q.by = r.by /\ t \in q.items}

Missing(r) == {t \in Collection(r) \ r.items : task[t].status \notin Closed}

\* A cancellation is the claim holder's, and never forced.
Cancellable(by, t) == ~Live(task[t]) \/ task[t].claim.holder = by

\* One refusal undoes the whole reconcile.
ReconcileAllowed(r) ==
    /\ \A t \in r.items :
         Exists(t) /\ r.status # "in_progress" => MayEndClaim(r.by, task[t], FALSE)
    /\ \A t \in Missing(r) : Cancellable(r.by, t)

ListedRow(r, t) ==
    IF Exists(t)
    THEN WrittenIfChanged(t, WithFields(task[t], r.status, task[t].owner, task[t].deps))[t]
    ELSE Created(r.status)

CancelledRow(t) ==
    Written(t, WithFields(task[t], "cancelled", task[t].owner, task[t].deps))[t]

\* task_service._reconcile
Reconcile(r) ==
    /\ \A t \in r.items \cup Missing(r) : Bounded(t)
    /\ ReconcileAllowed(r)
    /\ task' = [t \in Tasks |->
                  IF t \in r.items THEN ListedRow(r, t)
                  ELSE IF t \in Missing(r) THEN CancelledRow(t)
                  ELSE task[t]]
    /\ repaired' = {x \in repaired : Claimed(task'[x])}
    /\ Note(r.by, FALSE, FALSE)
    /\ UNCHANGED <<now, seen, todo>>

CreateWithStatus(r) ==
    /\ ~Exists(r.t) /\ Bounded(r.t)
    /\ task' = [task EXCEPT ![r.t] = Created(r.status)]
    /\ Note(r.by, FALSE, FALSE)
    /\ UNCHANGED <<now, seen, todo, repaired>>

\* task_service._apply; complete and cancel are updates of the status.
Effect(r) ==
    /\ r.expects # {} => task[r.t].version \in r.expects
    /\ CASE r.what = "create" -> CreateWithStatus(r)
         [] r.what = "update" ->
              UpdateTask(r.by, r.t, r.status, task[r.t].owner, task[r.t].deps,
                         r.force, FALSE)
         [] r.what = "claim" -> ClaimTask(r.by, r.t, r.ttl, r.force)
         [] r.what = "release" ->
              \/ ReleaseTask(r.by, r.t, r.force)
              \/ /\ Exists(r.t) /\ ~Claimed(task[r.t])
                 /\ Note(r.by, FALSE, FALSE)
                 /\ UNCHANGED <<now, task, seen, todo, repaired>>
         [] r.what = "reconcile" -> Reconcile(r)

-----------------------------------------------------------------------------
(* An attempt *)

Goes(p, pc) == proc' = [proc EXCEPT ![p].pc = pc]
Ends(p) == proc' = [proc EXCEPT ![p] = Idle]
Replays(p, r, rc) ==
    proc' = [proc EXCEPT ![p] = [@ EXCEPT !.pc = "flush", !.req = {r},
                                          !.reply = {rc.result}]]

\* integrations.execute_task begins with lookup_completed: a committed
\* operation is confirmed without a new admission.
Start(p, r) ==
    /\ At(p, "idle")
    /\ \/ /\ receipt[r.op] = {}
          /\ proc' = [proc EXCEPT ![p] = [Idle EXCEPT !.pc = "admit", !.req = {r}]]
       \/ \E rc \in receipt[r.op] : Matches(rc, r) /\ Replays(p, r, rc)
    /\ UNCHANGED <<vars, plot, receipt, outcome, cursor, recorded, faults, effects, answers>>

\* The policy owner, if there is one, allows it under its present revision.
\* A denied attempt ends: GiveUp.
Admit(p) ==
    /\ At(p, "admit")
    /\ \E auth \in plot.auths :
         proc' = [proc EXCEPT ![p].pc = "execute", ![p].auth = auth]
    /\ UNCHANGED <<vars, plot, receipt, outcome, cursor, recorded, faults, effects, answers>>

\* task_service.execute looks for the receipt again, in its transaction.
CommittedBefore(o) == FALSE
Committed(o) == receipt[o] # {}

\* What it makes of a receipt: replayed under the binding it committed with.
RowsAfter(rc) == Answered(rc.result.req, Rows1(rc.result.req, task))
Saved(rc) == rc.result

\* The outcome record, inserted in the transaction of the effect.
OutcomeLost(auth) == "none"
OutcomeStored(auth) == IF auth = None THEN "none" ELSE "pending"

ExecuteNew(p) ==
    /\ At(p, "execute")
    /\ LET r == Req(p) IN
         /\ ~Committed(r.op)
         /\ Effect(r)
         /\ LET result == Answered(r, Rows1(r, task')) IN
              /\ receipt' = [receipt EXCEPT ![r.op] =
                               {[result |-> result, auth |-> proc[p].auth]}]
              /\ proc' = [proc EXCEPT
                            ![p] = [@ EXCEPT
                              !.pc = IF proc[p].auth = None THEN "return" ELSE "flush",
                              !.reply = {result}]]
         /\ outcome' = [outcome EXCEPT ![r.op] = OutcomeStored(proc[p].auth)]
         /\ effects' = [effects EXCEPT ![r.op] = @ + 1]
    /\ UNCHANGED <<plot, cursor, recorded, faults, answers>>

ExecuteReplay(p) ==
    /\ At(p, "execute")
    /\ \E rc \in receipt[Req(p).op] :
         /\ Committed(Req(p).op)
         /\ Matches(rc, Req(p))
         /\ proc[p].auth # None => rc.auth = proc[p].auth
         /\ proc' = [proc EXCEPT
                       ![p] = [@ EXCEPT
                         !.pc = IF proc[p].auth = None THEN "return" ELSE "flush",
                         !.reply = {Saved(rc)}]]
    /\ UNCHANGED <<vars, plot, receipt, outcome, cursor, recorded, faults, effects, answers>>

\* Denied, refused by a check, conflicting or bound to another admission: an
\* error is answered, nothing is written.  Under a policy owner the refusal of
\* execute still delivers an outcome.
GiveUp(p) ==
    /\ At(p, "admit") \/ At(p, "execute")
    /\ IF At(p, "execute") /\ proc[p].auth # None THEN Goes(p, "flush") ELSE Ends(p)
    /\ UNCHANGED <<vars, plot, receipt, outcome, cursor, recorded, faults, effects, answers>>

-----------------------------------------------------------------------------
(* Delivery of outcomes, one for each request: integrations._flush          *)

Pending(s) == {o \in Ops : outcome[o] = "pending" /\ \E r \in plot.asked : r.op = o /\ r.by = s}

Least(S) == CHOOSE o \in S : \A x \in S : Rank[o] <= Rank[x]

\* The one after the last tried, if that is pending still; else the first.
FirstPending(pending, last_) == Least(pending)
Rotated(pending, last_) ==
    LET later == {o \in pending : last_ \in pending /\ Rank[o] > Rank[last_]}
    IN  IF later # {} THEN Least(later) ELSE Least(pending)

FlushRead(p) ==
    /\ At(p, "flush")
    /\ LET s == Req(p).by
           pending == Pending(s)
       IN  proc' = [proc EXCEPT
                      ![p] = IF pending = {} THEN [@ EXCEPT !.pc = "return"]
                             ELSE [@ EXCEPT !.pc = "cursor",
                                            !.pick = Rotated(pending, cursor[s])]]
    /\ UNCHANGED <<vars, plot, receipt, outcome, cursor, recorded, faults, effects, answers>>

FlushCursor(p) ==
    /\ At(p, "cursor")
    /\ cursor' = [cursor EXCEPT ![Req(p).by] = proc[p].pick]
    /\ Goes(p, "deliver")
    /\ UNCHANGED <<vars, plot, receipt, outcome, recorded, faults, effects, answers>>

\* External: the audit records an outcome, once, or refuses it for good.
Deliver(p) ==
    /\ At(p, "deliver")
    /\ IF proc[p].pick \in Refused
       THEN Goes(p, "return") /\ UNCHANGED recorded
       ELSE Goes(p, "ack") /\ recorded' = recorded \cup {proc[p].pick}
    /\ UNCHANGED <<vars, plot, receipt, outcome, cursor, faults, effects, answers>>

AcknowledgedUnheard == {"ack"}
AfterLostDelivery == {"return"}

\* The call fails or times out; the audit may have recorded it or not.
DeliverFails(p) ==
    /\ At(p, "deliver") /\ faults < plot.faults
    /\ faults' = faults + 1
    /\ recorded' \in {recorded, recorded \cup ({proc[p].pick} \ Refused)}
    /\ \E pc \in AfterLostDelivery : Goes(p, pc)
    /\ UNCHANGED <<vars, plot, receipt, outcome, cursor, effects, answers>>

\* task_service.acknowledge_outcome
Acknowledge(p) ==
    /\ At(p, "ack")
    /\ outcome' = [outcome EXCEPT ![proc[p].pick] = "acknowledged"]
    /\ Goes(p, "return")
    /\ UNCHANGED <<vars, plot, receipt, cursor, recorded, faults, effects, answers>>

\* The answer reaches the host.
Return(p) ==
    /\ At(p, "return")
    /\ answers' = [answers EXCEPT ![Req(p).op] = @ \cup proc[p].reply]
    /\ Ends(p)
    /\ UNCHANGED <<vars, plot, receipt, outcome, cursor, recorded, faults, effects>>

\* The process dies, or its answer is lost on the way.
Die(p) ==
    /\ ~At(p, "idle") /\ faults < plot.faults
    /\ faults' = faults + 1
    /\ Ends(p)
    /\ UNCHANGED <<vars, plot, receipt, outcome, cursor, recorded, effects, answers>>

-----------------------------------------------------------------------------
Proceed(p) ==
    \/ Admit(p) \/ ExecuteNew(p) \/ ExecuteReplay(p) \/ GiveUp(p)
    \/ FlushRead(p) \/ FlushCursor(p) \/ Deliver(p) \/ Acknowledge(p) \/ Return(p)

\* Everybody else: the older surfaces, the sweep, the doctor, the clock.  A
\* task that an older surface mints has no external id.
Others ==
    /\ \/ now < plot.time /\ Tick
       \/ Sweep
       \/ \E by \in plot.older : CallerStep(by) \/ RepairTaskOwners(by)
    /\ \A r \in plot.asked, t \in Tasks : t \in r.items => (Exists(t) = Exists(t)')
    /\ UNCHANGED service

ServiceNext ==
    \/ Others
    \/ \E p \in Procs :
         Proceed(p) \/ DeliverFails(p) \/ Die(p) \/ \E r \in plot.asked : Start(p, r)

ServiceSpec == ServiceInit /\ [][ServiceNext]_allvars

\* A host that asks again for something committed.
Retry(p) == \E r \in plot.asked : Committed(r.op) /\ Start(p, r)

\* A started attempt goes on, and hosts go on asking: an outcome is delivered
\* by the requests that follow it.
FairServiceSpec ==
    ServiceSpec /\ \A p \in Procs : WF_allvars(Proceed(p)) /\ SF_allvars(Retry(p))

-----------------------------------------------------------------------------
(* Properties *)

\* Receipts, outcomes and processes keep their shape.
ServiceTypeOK ==
    /\ TypeOK /\ plot \in Plots
    /\ receipt \in [Ops -> SUBSET [result : Results, auth : Revisions \cup {None}]]
    /\ outcome \in [Ops -> {"none", "pending", "acknowledged"}]
    /\ cursor \in [Sessions -> Ops \cup {None}]
    /\ recorded \subseteq Ops
    /\ proc \in [Procs -> [pc : PCs, req : SUBSET Requests, auth : Revisions \cup {None},
                           reply : SUBSET Results, pick : Ops \cup {None}]]
    /\ effects \in [Ops -> Nat]
    /\ answers \in [Ops -> SUBSET Results]

\* The result of an operation as ExactlyOnce sees it.
ResultOf(o) == IF receipt[o] = {} THEN None ELSE (CHOOSE rc \in receipt[o] : TRUE).result

Promise == INSTANCE ExactlyOnce WITH result <- [o \in Ops |-> ResultOf(o)]

\* However often an operation is retried, by however many processes, with
\* whatever lost answers: one effect, one answer (task_service.execute).
TakesEffectOnce == Promise!Spec

\* The audit knows of no effect that did not happen, and no effect that was
\* admitted by a policy goes without an outcome; none is acknowledged that
\* the audit does not have (task_service.execute, integrations._flush).
AuditTrail ==
    \A o \in Ops :
        /\ outcome[o] = "acknowledged" => o \in recorded
        /\ o \in recorded => effects[o] = 1
        /\ \A rc \in receipt[o] : rc.auth # None => outcome[o] # "none"

\* An outcome that the audit refuses for good does not starve the others
\* (integrations._flush).
OutcomesDelivered ==
    \A o \in Ops \ Refused : outcome[o] = "pending" ~> outcome[o] = "acknowledged"
=============================================================================
