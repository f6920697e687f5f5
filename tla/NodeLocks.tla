------------------------------ MODULE NodeLocks ------------------------------
(***************************************************************************)
(* Nodes of the shared graph, the advisory locks agents put on them, and   *)
(* every operation that edits or retires a node: edit, supersede,          *)
(* invalidate, graph_merge, the dream merge, watch_resolve and the sweeps  *)
(* of the cron pass.                                                       *)
(*                                                                         *)
(* Agents are operating-system processes that share one SQLite file.  A    *)
(* BEGIN IMMEDIATE transaction is one step; a read made outside it is a    *)
(* step of its own, whose result the operation carries in op.  Text,       *)
(* title, tags, weight and edges are data no property tells apart.         *)
(***************************************************************************)
EXTENDS Naturals, FiniteSets

CONSTANTS
    Agents,     \* the agent identities that share the graph
    Nodes,      \* the pool of node ids, including those not yet used
    NoAgent, NoNode,
    Born,       \* the type of each node that exists at the start, or "none"
    Uses,       \* the operations of more than one step that each agent calls
    MaxTime,    \* bound of the clock
    Ttls        \* the lock lifetimes agents ask for

\* One type per edit class, and "watch" apart: the expiry sweep skips it.
Types == {"concept", "directive", "watch", "task"}

ASSUME AgentsAssumption == NoAgent \notin Agents
ASSUME NodesAssumption == NoNode \notin Nodes
ASSUME BornAssumption == Born \in [Nodes -> Types \cup {"none"}]
ASSUME UsesAssumption ==
    Uses \in [Agents -> SUBSET {"supersede", "invalidate", "merge", "dream", "resolve"}]
ASSUME TimeAssumption == MaxTime \in Nat /\ Ttls \subseteq Nat

VARIABLES
    now,        \* the wall clock, in the unit of lock lifetimes and dates
    node,       \* the nodes table
    op,         \* what each agent has read and not yet written
    sweep,      \* the cron pass: its phase and the rows it still has to visit
    breach      \* history: the promises that the last step broke

vars == <<now, node, op, sweep, breach>>

-----------------------------------------------------------------------------
(* Rows *)

Statuses == {"absent", "active", "archived", "superseded"}

\* The dates a caller gives: one that passes within the bound, one that does not.
Dates == 1 .. (MaxTime + 1)

NoLock == [agent |-> NoAgent, until |-> 0]
Locks == [agent : Agents \cup {NoAgent}, until : Nat]

\* until and expires are absolute; 0 stands for a missing key.
NodeRows == [type : Types \cup {"none"}, status : Statuses, lock : Locks,
             expires : Nat, succ : Nodes \cup {NoNode},
             pred : Nodes \cup {NoNode}]

FreshUnlinked(type, expires, pred) ==
    [type |-> type, status |-> "active", lock |-> NoLock, expires |-> expires,
     succ |-> NoNode, pred |-> NoNode]

Fresh(type, expires, pred) ==
    [type |-> type, status |-> "active", lock |-> NoLock, expires |-> expires,
     succ |-> NoNode, pred |-> pred]

\* An id no row has yet.
NoRow == [Fresh("none", 0, NoNode) EXCEPT !.status = "absent"]

\* What every retirement but supersede writes, over whatever status is there.
Archived(r) == [r EXCEPT !.status = "archived"]

Present(n) == node[n].status # "absent"

\* schema.edit_class_for with the default policy.
EditClass(type) ==
    CASE type = "task" -> "managed"
      [] type \in {"directive", "watch"} -> "additive"
      [] OTHER -> "editable"

\* store.active_lock: a lock whose expires_at has come is treated as absent.
ActiveLock(r) == r.lock.until > now

\* store._check_lock
CheckLock(r, a, force) == force \/ ~ActiveLock(r) \/ r.lock.agent = a

\* store._check_mutable_status
Mutable(r, force) ==
    /\ r.status # "superseded"
    /\ r.status = "archived" => force

\* store.node_expired.  A node is live on its last day: expires is the first
\* instant after that day.
NodeExpired(r) == r.expires # 0 /\ r.expires <= now

-----------------------------------------------------------------------------
(* Operations in flight *)

Kinds == {"supersede", "invalidate", "merge_target", "merge_source",
          "dream_source", "resolve"}

Idle == [kind |-> "idle", n |-> NoNode, m |-> NoNode, force |-> FALSE,
         snap |-> NoRow]

Ops == [kind : Kinds \cup {"idle"}, n : Nodes \cup {NoNode},
        m : Nodes \cup {NoNode}, force : BOOLEAN, snap : NodeRows]

Running(a, kind) == op[a].kind = kind

\* A write to n by a under a live lock of somebody else, not forced.
Intrudes(a, n, force) ==
    /\ ~force
    /\ node[n].lock.until > now
    /\ node[n].lock.agent # a

\* What the history says once a has done `what` to n.
Noting(a, n, force, what) ==
    breach' = IF Intrudes(a, n, force) THEN {what} ELSE {}

Promises == {"edit", "supersede", "invalidate", "merge", "clobber", "stale_edit"}

Init ==
    /\ now = 0
    /\ node = [n \in Nodes |-> IF Born[n] = "none" THEN NoRow
                             ELSE Fresh(Born[n], 0, NoNode)]
    /\ op = [a \in Agents |-> Idle]
    /\ sweep = [phase |-> "locks", todo |-> {}]
    /\ breach = {}

-----------------------------------------------------------------------------
(* Locks *)

\* locks.lock_node: the holder refreshes, a foreign live lock refuses.
LockNode(a, n, ttl, force) ==
    /\ Present(n)
    /\ CheckLock(node[n], a, force)
    /\ node' = [node EXCEPT ![n].lock = [agent |-> a, until |-> now + ttl]]
    /\ UNCHANGED <<now, op, sweep>>
    /\ breach' = {}

\* locks.unlock_node: anyone may clear an expired lock.
UnlockNode(a, n, force) ==
    /\ Present(n)
    /\ node[n].lock # NoLock
    /\ CheckLock(node[n], a, force)
    /\ node' = [node EXCEPT ![n].lock = NoLock]
    /\ UNCHANGED <<now, op, sweep>>
    /\ breach' = {}

-----------------------------------------------------------------------------
(* Edit and supersede *)

\* store.edit_node: every check and the write are in one transaction.  The
\* only field a property tells apart is the expiry date, which an edit may
\* leave as it is.
EditNode(a, n, force, expires) ==
    /\ Present(n)
    /\ EditClass(node[n].type) # "managed"
    /\ Mutable(node[n], force)
    /\ CheckLock(node[n], a, force)
    /\ node' = [node EXCEPT ![n].expires = expires]
    /\ breach' = (IF Intrudes(a, n, force) THEN {"edit"} ELSE {})
                 \cup (IF node[n].succ # NoNode THEN {"stale_edit"} ELSE {})
    /\ UNCHANGED <<now, op, sweep>>

\* The checks supersede_node makes twice: on the row it read first and, in
\* its transaction, on the fresh row.
SupersedableIfUnlocked(a, n) == CheckLock(node[n], a, FALSE)
SupersedableIfMutable(a, n) == Mutable(node[n], FALSE)
Supersedable(a, n) == Mutable(node[n], FALSE) /\ CheckLock(node[n], a, FALSE)

\* store.supersede_node, the reads before BEGIN IMMEDIATE.  No caller of the
\* command line or the MCP server passes force.
SupersedeRead(a, n) ==
    /\ "supersede" \in Uses[a] /\ Running(a, "idle")
    /\ Present(n)
    /\ EditClass(node[n].type) # "managed"
    /\ Supersedable(a, n)
    /\ op' = [op EXCEPT ![a] = [Idle EXCEPT !.kind = "supersede", !.n = n]]
    /\ UNCHANGED <<now, node, sweep>>
    /\ breach' = {}

\* The transaction: status and lock are checked again on the fresh row.
SupersedeCommit(a, m, expires) ==
    /\ Running(a, "supersede")
    /\ ~Present(m)
    /\ LET n == op[a].n IN
         /\ Supersedable(a, n)
         /\ node' = [node EXCEPT ![n].status = "superseded", ![n].succ = m,
                                 ![m] = Fresh(node[n].type, expires, n)]
         /\ Noting(a, n, FALSE, "supersede")
    /\ op' = [op EXCEPT ![a] = Idle]
    /\ UNCHANGED <<now, sweep>>

\* An operation ends without its write: refused by a check of its
\* transaction, which rolls back, or its process is killed.
GiveUp(a) ==
    /\ ~Running(a, "idle")
    /\ op' = [op EXCEPT ![a] = Idle]
    /\ UNCHANGED <<now, node, sweep>>
    /\ breach' = {}

-----------------------------------------------------------------------------
(* Operations that check the lock on a row they read earlier *)

\* mcp_server.invalidate: the lock is checked on the row it resolved, and
\* store.invalidate_node writes in a transaction that does not look at it.
InvalidateCheck(a, n, force) ==
    /\ "invalidate" \in Uses[a] /\ Running(a, "idle")
    /\ Present(n)
    /\ CheckLock(node[n], a, force)
    /\ op' = [op EXCEPT ![a] = [Idle EXCEPT !.kind = "invalidate", !.n = n,
                                            !.force = force]]
    /\ UNCHANGED <<now, node, sweep>>
    /\ breach' = {}

\* Only the end of the valid interval, which nothing here tells apart.
InvalidateCommit(a) ==
    /\ Running(a, "invalidate")
    /\ Noting(a, op[a].n, op[a].force, "invalidate")
    /\ op' = [op EXCEPT ![a] = Idle]
    /\ UNCHANGED <<now, node, sweep>>

\* mcp_server.graph_merge, up to the snapshot of the database.
MergeRead(a, s, t, force) ==
    /\ "merge" \in Uses[a] /\ Running(a, "idle")
    /\ s # t /\ Present(s) /\ Present(t)
    /\ \A n \in {s, t} :
         /\ EditClass(node[n].type) # "managed"
         /\ EditClass(node[n].type) = "additive" => force
         /\ CheckLock(node[n], a, force)
    /\ op' = [op EXCEPT ![a] = [kind |-> "merge_target", n |-> s, m |-> t,
                                force |-> force, snap |-> node[s]]]
    /\ UNCHANGED <<now, node, sweep>>
    /\ breach' = {}

\* Its writes to the target: edges, content, weight, each its own commit.
MergeTarget(a) ==
    /\ Running(a, "merge_target")
    /\ Noting(a, op[a].m, op[a].force, "merge")
    /\ op' = [op EXCEPT ![a].kind = "merge_source"]
    /\ UNCHANGED <<now, node, sweep>>

\* The row update_node leaves: status archived, and the whole extra column
\* (lock, expires, superseded_by, supersedes) as it was read.
MergedInPlace(n, snap) ==
    [snap EXCEPT !.type = node[n].type, !.status = node[n].status]
Merged(n, snap) == Archived([snap EXCEPT !.type = node[n].type])

\* A live lock is on the row and the extra written back holds another.
Clobbers(n, snap) == node[n].lock.until > now /\ snap.lock # node[n].lock

MergeSource(a) ==
    /\ Running(a, "merge_source")
    /\ LET n == op[a].n IN
         /\ node' = [node EXCEPT ![n] = Merged(n, op[a].snap)]
         /\ breach' = (IF Intrudes(a, n, op[a].force) THEN {"merge"} ELSE {})
              \cup (IF Clobbers(n, op[a].snap) THEN {"clobber"} ELSE {})
    /\ op' = [op EXCEPT ![a] = Idle]
    /\ UNCHANGED <<now, sweep>>

\* dream.merge_nodes: no lock is looked at, protected types are refused, and
\* the pair was found among active nodes before this read.
DreamRead(a, s, t) ==
    /\ "dream" \in Uses[a] /\ Running(a, "idle")
    /\ s # t /\ Present(s) /\ Present(t)
    /\ \A n \in {s, t} : EditClass(node[n].type) = "editable"
    /\ op' = [op EXCEPT ![a] = [kind |-> "dream_source", n |-> s, m |-> t,
                                force |-> FALSE, snap |-> node[s]]]
    /\ UNCHANGED <<now, node, sweep>>
    /\ breach' = {}

DreamSource(a) ==
    /\ Running(a, "dream_source")
    /\ LET n == op[a].n IN
         /\ node' = [node EXCEPT ![n] = Merged(n, op[a].snap)]
         /\ breach' = (IF Clobbers(n, op[a].snap) THEN {"clobber"} ELSE {})
    /\ op' = [op EXCEPT ![a] = Idle]
    /\ UNCHANGED <<now, sweep>>

\* mcp_server.watch_resolve: the mark in extra, then the status flip in a
\* commit of its own; the status it overwrites is never read.
WatchResolveMark(a, n) ==
    /\ "resolve" \in Uses[a] /\ Running(a, "idle")
    /\ Present(n)
    /\ node[n].type = "watch"
    /\ op' = [op EXCEPT ![a] = [Idle EXCEPT !.kind = "resolve", !.n = n]]
    /\ UNCHANGED <<now, node, sweep>>
    /\ breach' = {}

WatchResolveArchive(a) ==
    /\ Running(a, "resolve")
    /\ node' = [node EXCEPT ![op[a].n] = Archived(@)]
    /\ op' = [op EXCEPT ![a] = Idle]
    /\ UNCHANGED <<now, sweep>>
    /\ breach' = {}

-----------------------------------------------------------------------------
(* The cron pass *)

Phases == {"watches", "expiry", "locks"}

\* daemon.cron_run visits steps 9, 9a and 9b in this order, pass after pass.
NextPhase(phase) ==
    CASE phase = "watches" -> "expiry"
      [] phase = "expiry" -> "locks"
      [] phase = "locks" -> "watches"

\* What each phase picks from a read made before its first write.
ExpiredWatches == {n \in Nodes : /\ node[n].status = "active"
                                 /\ node[n].type = "watch"
                                 /\ NodeExpired(node[n])}

ExpiredNodes == {n \in Nodes : /\ node[n].status = "active"
                               /\ node[n].type # "watch"
                               /\ NodeExpired(node[n])}

ForgottenLocks == {n \in ExpiredNodes : ~ActiveLock(node[n])}

ExpiredLocks == {n \in Nodes : /\ node[n].status = "active"
                               /\ node[n].lock # NoLock
                               /\ ~ActiveLock(node[n])}

Candidates(phase) ==
    CASE phase = "watches" -> ExpiredWatches
      [] phase = "expiry" -> ExpiredNodes
      [] phase = "locks" -> ExpiredLocks

SweepRead ==
    /\ sweep.todo = {}
    /\ sweep' = [phase |-> NextPhase(sweep.phase),
                 todo |-> Candidates(NextPhase(sweep.phase))]
    /\ UNCHANGED <<now, node, op>>
    /\ breach' = {}

Visiting(phase, n) == sweep.phase = phase /\ n \in sweep.todo

Visited(n) == sweep' = [sweep EXCEPT !.todo = @ \ {n}]

\* daemon._check_watches writes the status without reading the row again.
SweepWatch(n) ==
    /\ Visiting("watches", n)
    /\ Visited(n)
    /\ node' = [node EXCEPT ![n] = Archived(@)]
    /\ UNCHANGED <<now, op>>
    /\ breach' = {}

\* store.atomic_archive_expired: active and expired are re-read in the
\* transaction; otherwise it rolls back.
SnapshotExpired(n) == TRUE
StillExpired(n) == node[n].status = "active" /\ NodeExpired(node[n])

SweepExpiry(n) ==
    /\ Visiting("expiry", n)
    /\ Visited(n)
    /\ node' = IF StillExpired(n) THEN [node EXCEPT ![n] = Archived(@)] ELSE node
    /\ UNCHANGED <<now, op>>
    /\ breach' = {}

\* locks.cleanup_expired_locks, the re-check inside atomic_extra_update.
LockSeenExpired(n) == TRUE
LockStillExpired(n) == ~ActiveLock(node[n])

SweepLock(n) ==
    /\ Visiting("locks", n)
    /\ Visited(n)
    /\ node' = IF LockStillExpired(n) THEN [node EXCEPT ![n].lock = NoLock] ELSE node
    /\ UNCHANGED <<now, op>>
    /\ breach' = {}

Sweep == SweepRead \/ \E n \in Nodes : SweepWatch(n) \/ SweepExpiry(n) \/ SweepLock(n)

Tick ==
    /\ now < MaxTime
    /\ now' = now + 1
    /\ UNCHANGED <<node, op, sweep>>
    /\ breach' = {}

-----------------------------------------------------------------------------
AgentStep(a) ==
    \/ \E n \in Nodes, force \in BOOLEAN :
         \/ \E ttl \in Ttls : LockNode(a, n, ttl, force)
         \/ UnlockNode(a, n, force)
         \/ \E e \in {node[n].expires} \cup Dates : EditNode(a, n, force, e)
         \/ InvalidateCheck(a, n, force)
         \/ \E t \in Nodes : MergeRead(a, n, t, force)
    \/ \E n \in Nodes :
         \/ SupersedeRead(a, n)
         \/ \E e \in {0} \cup Dates : SupersedeCommit(a, n, e)
         \/ \E t \in Nodes : DreamRead(a, n, t)
         \/ WatchResolveMark(a, n)
    \/ InvalidateCommit(a)
    \/ MergeTarget(a)
    \/ MergeSource(a)
    \/ DreamSource(a)
    \/ WatchResolveArchive(a)
    \/ GiveUp(a)

Next == Tick \/ Sweep \/ \E a \in Agents : AgentStep(a)

Spec == Init /\ [][Next]_vars

\* The scheduler starts the cron pass again and again, and SQLite lets it
\* commit: the pass is fair, the agents and the clock owe nothing.
FairSpec == Spec /\ WF_vars(Sweep)

-----------------------------------------------------------------------------
(* Properties *)

\* Every row, operation in flight and sweep keeps its shape.
TypeOK ==
    /\ now \in Nat
    /\ node \in [Nodes -> NodeRows]
    /\ op \in [Agents -> Ops]
    /\ sweep \in [phase : Phases, todo : SUBSET Nodes]
    /\ breach \subseteq Promises

\* No edit and no supersede commits, unforced, under a live lock of another
\* agent, whatever was read before its transaction began (store.edit_node,
\* store.supersede_node).
LockIsolatesEdits == breach \cap {"edit", "supersede"} = {}

\* Two concurrent supersedes of a node leave one successor, also after the
\* node was merged away, swept or resolved (store.supersede_node).
OneSuccessor ==
    \A m1, m2 \in Nodes :
        (node[m1].pred = node[m2].pred /\ node[m1].pred # NoNode) => m1 = m2

\* A node that says it was superseded names a successor that exists and
\* names it back, whatever stale extra was written over it since.
LineageLinked ==
    \A n \in Nodes :
        /\ node[n].status = "superseded" => node[n].succ # NoNode
        /\ node[n].succ # NoNode => node[node[n].succ].pred = n

\* A sweep acts on what it reads in its transaction, not on what it listed: it
\* drops no lock that was refreshed or taken meanwhile
\* (locks.cleanup_expired_locks), and archives no node whose date was extended,
\* or which was superseded, meanwhile (daemon._expire_nodes).
SweepsReadAgain ==
    [][/\ Sweep => \A n \in Nodes :
            node[n].lock.until > now => node'[n].lock = node[n].lock
       /\ \A n \in Nodes :
            (Visiting("expiry", n) /\ n \notin sweep'.todo
               /\ node'[n].status # node[n].status)
            => /\ node[n].status = "active"
               /\ node[n].expires \in 1 .. now]_vars

\* A lock that has run out on an active node does not stay in the row for
\* ever: the lazy expiry is backed by the sweep (locks.cleanup_expired_locks).
ExpiredLocksCleared ==
    \A n \in Nodes :
        (node[n].status = "active" /\ node[n].lock # NoLock /\ node[n].lock.until <= now)
        ~> (node[n].status # "active" \/ node[n].lock = NoLock \/ node[n].lock.until > now)
-----------------------------------------------------------------------------
(* What the documentation promises and the code does not do: TLC refutes   *)
(* each of these.                                                          *)

\* A foreign lock on either node blocks the merge (mcp_server.graph_merge).
LockBlocksMerge == "merge" \notin breach

\* A foreign lock on the node refuses the change (mcp_server.invalidate).
LockBlocksInvalidate == "invalidate" \notin breach

\* The archive step of a merge preserves the lock in the source's extra
\* (dream.merge_nodes, mcp_server.graph_merge).
MergePreservesLock == "clobber" \notin breach

\* A superseded node is never edited, not even with force
\* (store._check_mutable_status).
SupersededRefusesEdits == "stale_edit" \notin breach

\* The watch sweep archives only watches that are past their date when it
\* writes (daemon._check_watches).
OnlyExpiredWatchesArchived ==
    [][\A n \in Nodes :
         (Visiting("watches", n) /\ n \notin sweep'.todo)
         => node[n].expires \in 1 .. now]_vars
=============================================================================
