--------------------------- MODULE NodeLocks_proofs ---------------------------
(***************************************************************************)
(* What NodeLocks guarantees for every set of agents, every pool of node   *)
(* ids and every bound of the clock.                                       *)
(***************************************************************************)
EXTENDS NodeLocks, TLAPS

-----------------------------------------------------------------------------
(* The shape of the rows *)

\* A fresh row, and an archived one, are rows.
LEMMA FreshRow ==
    ASSUME NEW type \in Types \cup {"none"}, NEW e \in Nat,
           NEW p \in Nodes \cup {NoNode}
    PROVE  Fresh(type, e, p) \in NodeRows
  BY DEF Fresh, NodeRows, NoLock, Locks, Statuses

LEMMA ArchivedRow ==
    ASSUME NEW r \in NodeRows
    PROVE  Archived(r) \in NodeRows
  BY DEF Archived, NodeRows, Statuses

LEMMA IdleOp == NoRow \in NodeRows /\ Idle \in Ops
  <1>1. NoRow \in NodeRows
    BY DEF NoRow, Fresh, NodeRows, NoLock, Locks, Statuses
  <1> QED
    BY <1>1 DEF Idle, Ops

\* Every row, operation in flight and sweep keeps its shape, whatever the
\* agents and the cron pass interleave.
LEMMA TypeInit == Init => TypeOK
  <1> SUFFICES ASSUME Init PROVE TypeOK
    OBVIOUS
  <1>1. node \in [Nodes -> NodeRows]
    BY FreshRow, IdleOp, BornAssumption DEF Init
  <1>2. op \in [Agents -> Ops]
    BY IdleOp DEF Init
  <1> QED
    BY <1>1, <1>2 DEF Init, TypeOK, Phases

\* One lemma per part of the next-state relation.
LEMMA TypeOneStep ==
    ASSUME TypeOK, NEW a \in Agents, NEW n \in Nodes, NEW force \in BOOLEAN,
           \/ \E ttl \in Ttls : LockNode(a, n, ttl, force)
           \/ UnlockNode(a, n, force)
           \/ \E e \in {node[n].expires} \cup Dates : EditNode(a, n, force, e)
    PROVE  TypeOK'
  <1> USE DEF TypeOK
  <1>1. CASE \E ttl \in Ttls : LockNode(a, n, ttl, force)
    <2> PICK ttl \in Ttls : LockNode(a, n, ttl, force)
      BY <1>1
    <2>1. now + ttl \in Nat
      BY TimeAssumption
    <2>2. node' \in [Nodes -> NodeRows]
      BY <2>1 DEF LockNode, NodeRows, Locks
    <2> QED
      BY <2>2 DEF LockNode, Promises
  <1>2. CASE UnlockNode(a, n, force)
    <2>1. node' \in [Nodes -> NodeRows]
      BY <1>2 DEF UnlockNode, NodeRows, Locks, NoLock
    <2> QED
      BY <1>2, <2>1 DEF UnlockNode, Promises
  <1>3. CASE \E e \in {node[n].expires} \cup Dates : EditNode(a, n, force, e)
    <2> PICK e \in {node[n].expires} \cup Dates : EditNode(a, n, force, e)
      BY <1>3
    <2>1. e \in Nat
      BY TimeAssumption DEF Dates, NodeRows
    <2>2. node' \in [Nodes -> NodeRows]
      BY <2>1 DEF EditNode, NodeRows
    <2> QED
      BY <2>2 DEF EditNode, Promises
  <1> QED
    BY <1>1, <1>2, <1>3

LEMMA TypeRead ==
    ASSUME TypeOK, NEW a \in Agents, NEW n \in Nodes, NEW t \in Nodes,
           NEW force \in BOOLEAN,
           \/ SupersedeRead(a, n)
           \/ InvalidateCheck(a, n, force)
           \/ MergeRead(a, n, t, force)
           \/ DreamRead(a, n, t)
           \/ WatchResolveMark(a, n)
    PROVE  TypeOK'
  <1>a. \A k \in Kinds, f \in BOOLEAN :
          [Idle EXCEPT !.kind = k, !.n = n, !.force = f] \in Ops
    BY IdleOp DEF Ops
  <1>b. \A k \in Kinds : [Idle EXCEPT !.kind = k, !.n = n] \in Ops
    BY IdleOp DEF Ops
  <1>c. \A k \in Kinds, f \in BOOLEAN :
          [kind |-> k, n |-> n, m |-> t, force |-> f, snap |-> node[n]] \in Ops
    BY DEF Ops, TypeOK
  <1>1. op' \in [Agents -> Ops]
    <2>1. CASE SupersedeRead(a, n)
      BY <1>b, <2>1 DEF SupersedeRead, Kinds, TypeOK
    <2>2. CASE InvalidateCheck(a, n, force)
      BY <1>a, <2>2 DEF InvalidateCheck, Kinds, TypeOK
    <2>3. CASE MergeRead(a, n, t, force)
      BY <1>c, <2>3 DEF MergeRead, Kinds, TypeOK
    <2>4. CASE DreamRead(a, n, t)
      BY <1>c, <2>4 DEF DreamRead, Kinds, TypeOK
    <2>5. CASE WatchResolveMark(a, n)
      BY <1>b, <2>5 DEF WatchResolveMark, Kinds, TypeOK
    <2> QED
      BY <2>1, <2>2, <2>3, <2>4, <2>5
  <1> QED
    BY <1>1 DEF TypeOK, SupersedeRead, InvalidateCheck, MergeRead, DreamRead,
                WatchResolveMark, Promises

\* An operation in flight names a node that exists.
OpNodes ==
    \A a \in Agents :
        op[a].kind # "idle" => op[a].n \in Nodes /\ Present(op[a].n)

LEMMA TypeCommit ==
    ASSUME TypeOK, OpNodes, NEW a \in Agents,
           \/ \E m \in Nodes, e \in {0} \cup Dates : SupersedeCommit(a, m, e)
           \/ InvalidateCommit(a)
           \/ MergeTarget(a)
           \/ MergeSource(a)
           \/ DreamSource(a)
           \/ WatchResolveArchive(a)
           \/ GiveUp(a)
    PROVE  TypeOK'
  <1> DEFINE n == op[a].n
  <1>1. [op EXCEPT ![a] = Idle] \in [Agents -> Ops]
    BY IdleOp DEF TypeOK
  <1>2. CASE \E m \in Nodes, e \in {0} \cup Dates : SupersedeCommit(a, m, e)
    <2> PICK m \in Nodes, e \in {0} \cup Dates : SupersedeCommit(a, m, e)
      BY <1>2
    <2>1. n \in Nodes /\ e \in Nat
      BY TimeAssumption DEF OpNodes, SupersedeCommit, Running, Dates
    <2>2. Fresh(node[n].type, e, n) \in NodeRows
      BY <2>1, FreshRow DEF TypeOK, NodeRows
    <2>3. node' \in [Nodes -> NodeRows]
      BY <2>1, <2>2 DEF SupersedeCommit, TypeOK, NodeRows, Statuses
    <2> QED
      BY <1>1, <2>3 DEF SupersedeCommit, TypeOK, Noting, Promises
  <1>3. CASE InvalidateCommit(a) \/ GiveUp(a)
    BY <1>1, <1>3 DEF InvalidateCommit, GiveUp, TypeOK, Noting, Promises
  <1>4. CASE MergeTarget(a)
    BY <1>4 DEF MergeTarget, TypeOK, Noting, Promises, Ops, Kinds
  <1>5. CASE MergeSource(a) \/ DreamSource(a)
    <2>1. n \in Nodes
      BY <1>5 DEF OpNodes, MergeSource, DreamSource, Running
    <2>2. [op[a].snap EXCEPT !.type = node[n].type] \in NodeRows
      BY <2>1 DEF TypeOK, NodeRows, Ops
    <2>3. Merged(n, op[a].snap) \in NodeRows
      BY <2>2, ArchivedRow DEF Merged
    <2>4. node' \in [Nodes -> NodeRows]
      BY <1>5, <2>3 DEF MergeSource, DreamSource, TypeOK
    <2> QED
      BY <1>1, <1>5, <2>4 DEF MergeSource, DreamSource, TypeOK, Promises
  <1>6. CASE WatchResolveArchive(a)
    <2>1. Archived(node[n]) \in NodeRows
      BY <1>6, ArchivedRow DEF OpNodes, WatchResolveArchive, Running, TypeOK
    <2> QED
      BY <1>1, <1>6, <2>1 DEF WatchResolveArchive, TypeOK, Promises
  <1> QED
    BY <1>2, <1>3, <1>4, <1>5, <1>6

LEMMA TypeSweep ==
    ASSUME TypeOK, Sweep \/ Tick
    PROVE  TypeOK'
  <1>1. CASE Tick
    BY <1>1 DEF Tick, TypeOK, Promises
  <1>2. CASE SweepRead
    BY <1>2 DEF SweepRead, TypeOK, Promises, Candidates, Phases, NextPhase,
                ExpiredWatches, ExpiredNodes, ExpiredLocks
  <1>3. ASSUME NEW n \in Nodes, SweepWatch(n) \/ SweepExpiry(n) \/ SweepLock(n)
        PROVE  TypeOK'
    <2>1. [node EXCEPT ![n] = Archived(@)] \in [Nodes -> NodeRows]
      BY ArchivedRow DEF TypeOK
    <2>2. [node EXCEPT ![n].lock = NoLock] \in [Nodes -> NodeRows]
      BY DEF TypeOK, NodeRows, NoLock, Locks
    <2>3. node' \in [Nodes -> NodeRows]
      BY <1>3, <2>1, <2>2 DEF SweepWatch, SweepExpiry, SweepLock, TypeOK
    <2>4. sweep' \in [phase : Phases, todo : SUBSET Nodes]
      BY <1>3 DEF SweepWatch, SweepExpiry, SweepLock, Visited, TypeOK
    <2> QED
      BY <1>3, <2>3, <2>4 DEF SweepWatch, SweepExpiry, SweepLock, TypeOK, Promises
  <1> QED
    BY <1>1, <1>2, <1>3 DEF Sweep

-----------------------------------------------------------------------------
(* The lineage of superseded nodes *)

Retired == {"archived", "superseded"}

\* The extra a merge will write back names the same predecessor as the row,
\* and a successor that names the row back.
Snapshots ==
    \A a \in Agents :
        op[a].kind \in {"merge_target", "merge_source", "dream_source"} =>
            /\ op[a].m \in Nodes
            /\ op[a].snap.pred = node[op[a].n].pred
            /\ op[a].snap.succ # NoNode => node[op[a].snap.succ].pred = op[a].n

SweepNodes == \A n \in sweep.todo : Present(n)

\* A node that has a successor is retired, and stays so.
Predecessors ==
    \A m \in Nodes :
        node[m].pred # NoNode => Present(m) /\ node[node[m].pred].status \in Retired

IInv == TypeOK /\ OpNodes /\ Snapshots /\ SweepNodes /\ Predecessors
        /\ OneSuccessor /\ LineageLinked

\* A step that keeps every predecessor, revives no node and leaves every
\* successor naming its node back keeps the lineage.
LEMMA LineageKept ==
    ASSUME TypeOK, Predecessors, OneSuccessor, LineageLinked,
           \A x \in Nodes :
             /\ node'[x].pred = node[x].pred
             /\ Present(x) => Present(x)'
             /\ node[x].status \in Retired => node'[x].status \in Retired
             /\ node'[x].status = "superseded" => node'[x].succ # NoNode
             /\ node'[x].succ # NoNode =>
                  node'[x].succ \in Nodes /\ node[node'[x].succ].pred = x
    PROVE  Predecessors' /\ OneSuccessor' /\ LineageLinked'
  <1>1. \A x \in Nodes : node[x].pred \in Nodes \cup {NoNode}
    BY DEF TypeOK, NodeRows
  <1>2. Predecessors'
    BY <1>1 DEF Predecessors
  <1>3. OneSuccessor'
    BY DEF OneSuccessor
  <1>4. LineageLinked'
    BY DEF LineageLinked
  <1> QED
    BY <1>2, <1>3, <1>4

\* An operation goes on as it is, ends, or passes from the target of a merge
\* to its source.
StepsOn(o, p) ==
    \/ p = o
    \/ p = Idle
    \/ o.kind = "merge_target" /\ p = [o EXCEPT !.kind = "merge_source"]

\* The same for the operations in flight and the sweep, which that step
\* leaves alone or ends.
LEMMA OpsKept ==
    ASSUME TypeOK, OpNodes, Snapshots, SweepNodes,
           \A a \in Agents : StepsOn(op[a], op'[a]),
           \A x \in Nodes : node'[x].pred = node[x].pred \/ ~Present(x),
           \A x \in Nodes : Present(x) => Present(x)',
           \A x \in Nodes : node[x].pred # NoNode => Present(x),
           sweep'.todo \subseteq sweep.todo
    PROVE  OpNodes' /\ Snapshots' /\ SweepNodes'
  <1>1. Idle.kind = "idle"
    BY DEF Idle
  <1>2. \A a \in Agents : op[a] \in Ops
    BY DEF TypeOK
  <1>3. \A a \in Agents : op[a].snap.succ \in Nodes \cup {NoNode}
    BY <1>2 DEF Ops, NodeRows
  <1>4. OpNodes'
    BY <1>1, <1>2 DEF OpNodes, Ops, StepsOn
  <1>5. SweepNodes'
    BY DEF SweepNodes, TypeOK
  <1>6. Snapshots'
    <2> SUFFICES ASSUME NEW a \in Agents,
                        op'[a].kind \in {"merge_target", "merge_source", "dream_source"}
                 PROVE  /\ op'[a].m \in Nodes
                        /\ op'[a].snap.pred = node'[op'[a].n].pred
                        /\ op'[a].snap.succ # NoNode =>
                             node'[op'[a].snap.succ].pred = op'[a].n
      BY DEF Snapshots
    <2>1. /\ op'[a].m = op[a].m /\ op'[a].n = op[a].n /\ op'[a].snap = op[a].snap
          /\ op[a].kind \in {"merge_target", "merge_source", "dream_source"}
      BY <1>1, <1>2 DEF Ops, StepsOn
    <2>2. op[a].n \in Nodes /\ Present(op[a].n)
      BY <2>1 DEF OpNodes
    <2>3. op[a].snap.succ # NoNode =>
            /\ op[a].snap.succ \in Nodes
            /\ node[op[a].snap.succ].pred = op[a].n
            /\ Present(op[a].snap.succ)
      BY <1>3, <2>1, <2>2, NodesAssumption DEF Snapshots
    <2> QED
      BY <2>1, <2>2, <2>3 DEF Snapshots
  <1> QED
    BY <1>4, <1>5, <1>6

LEMMA InvInit == Init => IInv
  <1> SUFFICES ASSUME Init PROVE IInv
    OBVIOUS
  <1>1. TypeOK
    BY TypeInit
  <1>2. \A n \in Nodes : /\ node[n].pred = NoNode /\ node[n].succ = NoNode
                         /\ node[n].status # "superseded"
    BY DEF Init, Fresh, NoRow
  <1>3. OpNodes /\ Snapshots /\ SweepNodes
    BY DEF Init, OpNodes, Snapshots, SweepNodes, Idle
  <1> QED
    BY <1>1, <1>2, <1>3 DEF IInv, Predecessors, OneSuccessor, LineageLinked

\* A read carries the row as it is now.
LEMMA InvRead ==
    ASSUME IInv, TypeOK', NEW a \in Agents, NEW n \in Nodes, NEW t \in Nodes,
           NEW force \in BOOLEAN,
           \/ SupersedeRead(a, n)
           \/ InvalidateCheck(a, n, force)
           \/ MergeRead(a, n, t, force)
           \/ DreamRead(a, n, t)
           \/ WatchResolveMark(a, n)
    PROVE  IInv'
  <1> USE DEF IInv
  <1>1. Present(n) /\ node' = node /\ sweep' = sweep
    BY DEF SupersedeRead, InvalidateCheck, MergeRead, DreamRead, WatchResolveMark
  <1>2. Predecessors' /\ OneSuccessor' /\ LineageLinked' /\ SweepNodes'
    BY <1>1 DEF Predecessors, OneSuccessor, LineageLinked, SweepNodes, Present
  <1>3. \A b \in Agents : b # a => op'[b] = op[b]
    BY DEF SupersedeRead, InvalidateCheck, MergeRead, DreamRead, WatchResolveMark, TypeOK
  <1>a. /\ [Idle EXCEPT !.kind = "supersede", !.n = n].n = n
        /\ [Idle EXCEPT !.kind = "resolve", !.n = n].n = n
        /\ [Idle EXCEPT !.kind = "invalidate", !.n = n, !.force = force].n = n
        /\ [Idle EXCEPT !.kind = "supersede", !.n = n].kind = "supersede"
        /\ [Idle EXCEPT !.kind = "resolve", !.n = n].kind = "resolve"
        /\ [Idle EXCEPT !.kind = "invalidate", !.n = n, !.force = force].kind = "invalidate"
    BY DEF Idle
  <1>4. /\ op'[a].n = n
        /\ op'[a].kind \in {"merge_target", "merge_source", "dream_source"} =>
             op'[a].m = t /\ op'[a].snap = node[n]
    <2>1. CASE SupersedeRead(a, n)
      BY <1>a, <2>1 DEF SupersedeRead, TypeOK
    <2>2. CASE InvalidateCheck(a, n, force)
      BY <1>a, <2>2 DEF InvalidateCheck, TypeOK
    <2>3. CASE MergeRead(a, n, t, force)
      BY <2>3 DEF MergeRead, TypeOK
    <2>4. CASE DreamRead(a, n, t)
      BY <2>4 DEF DreamRead, TypeOK
    <2>5. CASE WatchResolveMark(a, n)
      BY <1>a, <2>5 DEF WatchResolveMark, TypeOK
    <2> QED
      BY <2>1, <2>2, <2>3, <2>4, <2>5
  <1>5. OpNodes'
    BY <1>1, <1>3, <1>4 DEF OpNodes, Present
  <1>6. Snapshots'
    BY <1>1, <1>3, <1>4 DEF Snapshots, LineageLinked
  <1> QED
    BY <1>2, <1>5, <1>6

\* The steps that retire no node and create none.
LEMMA InvRowsKept ==
    ASSUME IInv, TypeOK', op' = op, sweep'.todo \subseteq sweep.todo,
           \A x \in Nodes : /\ node'[x].pred = node[x].pred
                            /\ node'[x].succ = node[x].succ
                            /\ node'[x].status = node[x].status
    PROVE  IInv'
  <1> USE DEF IInv
  <1>1. \A x \in Nodes : node[x].succ \in Nodes \cup {NoNode}
    BY DEF TypeOK, NodeRows
  <1>2. Predecessors' /\ OneSuccessor' /\ LineageLinked'
    BY <1>1, LineageKept DEF LineageLinked, Present
  <1>3. OpNodes' /\ Snapshots' /\ SweepNodes'
    <2>1. \A b \in Agents : StepsOn(op[b], op'[b])
      BY DEF StepsOn
    <2>2. \A y \in Nodes : node'[y].pred = node[y].pred \/ ~Present(y)
      OBVIOUS
    <2>3. \A y \in Nodes : Present(y) => Present(y)'
      BY DEF Present
    <2>4. \A y \in Nodes : node[y].pred # NoNode => Present(y)
      BY DEF Predecessors
    <2> QED
      BY <2>1, <2>2, <2>3, <2>4, OpsKept
  <1> QED
    BY <1>2, <1>3

LEMMA InvOneStep ==
    ASSUME IInv, TypeOK', NEW a \in Agents, NEW n \in Nodes, NEW force \in BOOLEAN,
           \/ \E ttl \in Ttls : LockNode(a, n, ttl, force)
           \/ UnlockNode(a, n, force)
           \/ \E e \in {node[n].expires} \cup Dates : EditNode(a, n, force, e)
    PROVE  IInv'
  <1>1. op' = op /\ sweep' = sweep
    BY DEF LockNode, UnlockNode, EditNode
  <1>2. \A x \in Nodes : /\ node'[x].pred = node[x].pred
                         /\ node'[x].succ = node[x].succ
                         /\ node'[x].status = node[x].status
    <2>1. CASE \E ttl \in Ttls : LockNode(a, n, ttl, force)
      BY <2>1 DEF LockNode, IInv, TypeOK, NodeRows
    <2>2. CASE UnlockNode(a, n, force)
      BY <2>2 DEF UnlockNode, IInv, TypeOK, NodeRows
    <2>3. CASE \E e \in {node[n].expires} \cup Dates : EditNode(a, n, force, e)
      BY <2>3 DEF EditNode, IInv, TypeOK, NodeRows
    <2> QED
      BY <2>1, <2>2, <2>3
  <1> QED
    BY <1>1, <1>2, InvRowsKept

\* The steps that retire one node.
LEMMA InvRetire ==
    ASSUME IInv, TypeOK', NEW x \in Nodes, Present(x),
           NEW row \in NodeRows, node' = [node EXCEPT ![x] = Archived(row)],
           row.pred = node[x].pred,
           row.succ # NoNode => node[row.succ].pred = x,
           \A a \in Agents : op'[a] = op[a] \/ op'[a] = Idle,
           sweep'.todo \subseteq sweep.todo
    PROVE  IInv'
  <1> USE DEF IInv
  <1>1. /\ Archived(row).pred = row.pred
        /\ Archived(row).succ = row.succ
        /\ Archived(row).status = "archived"
    BY DEF Archived, NodeRows
  <1>2. /\ node'[x] = Archived(row)
        /\ \A y \in Nodes : y # x => node'[y] = node[y]
    BY DEF TypeOK
  <1>3. \A y \in Nodes : node[y].succ \in Nodes \cup {NoNode}
    BY DEF TypeOK, NodeRows
  <1>4. row.succ \in Nodes \cup {NoNode}
    BY DEF NodeRows
  <1>5. \A y \in Nodes :
             /\ node'[y].pred = node[y].pred
             /\ Present(y) => Present(y)'
             /\ node[y].status \in Retired => node'[y].status \in Retired
             /\ node'[y].status = "superseded" => node'[y].succ # NoNode
             /\ node'[y].succ # NoNode =>
                  node'[y].succ \in Nodes /\ node[node'[y].succ].pred = y
    BY <1>1, <1>2, <1>3, <1>4 DEF Present, Retired, LineageLinked
  <1>6. Predecessors' /\ OneSuccessor' /\ LineageLinked'
    BY <1>5, LineageKept
  <1>7. OpNodes' /\ Snapshots' /\ SweepNodes'
    <2>1. \A b \in Agents : StepsOn(op[b], op'[b])
      BY DEF StepsOn
    <2>2. \A y \in Nodes : node'[y].pred = node[y].pred \/ ~Present(y)
      BY <1>5
    <2>3. \A y \in Nodes : Present(y) => Present(y)'
      BY <1>5
    <2>4. \A y \in Nodes : node[y].pred # NoNode => Present(y)
      BY DEF Predecessors
    <2> QED
      BY <2>1, <2>2, <2>3, <2>4, OpsKept
  <1> QED
    BY <1>6, <1>7

\* Supersede gives a node that had no successor its only one.
LEMMA InvSupersede ==
    ASSUME IInv, TypeOK', NEW a \in Agents, NEW m \in Nodes,
           NEW e \in {0} \cup Dates, SupersedeCommit(a, m, e)
    PROVE  IInv'
  <1> USE DEF IInv
  <1> DEFINE n == op[a].n
  <1>1. /\ n \in Nodes /\ Present(n) /\ ~Present(m) /\ n # m
        /\ node[n].status \notin Retired
    BY DEF SupersedeCommit, OpNodes, Running, Supersedable, Mutable, Retired
  <1>2. /\ Fresh(node[n].type, e, n).pred = n
        /\ Fresh(node[n].type, e, n).succ = NoNode
        /\ Fresh(node[n].type, e, n).status \in {"absent", "active"}
    BY DEF Fresh
  <1>3. /\ node'[m] = Fresh(node[n].type, e, n)
        /\ node'[n] = [node[n] EXCEPT !.status = "superseded", !.succ = m]
        /\ \A y \in Nodes \ {m, n} : node'[y] = node[y]
    BY <1>1 DEF SupersedeCommit, TypeOK
  <1>4. /\ node'[n].pred = node[n].pred
        /\ node'[n].succ = m
        /\ node'[n].status = "superseded"
    BY <1>1, <1>3 DEF TypeOK, NodeRows
  <1>5. \A y \in Nodes : y # m => /\ node[y].pred # n
                                 /\ node'[y].pred = node[y].pred
    BY <1>1, <1>3, <1>4, NodesAssumption DEF Predecessors
  <1>6. OneSuccessor'
    BY <1>2, <1>3, <1>5 DEF OneSuccessor
  <1>7. \A y \in Nodes : Present(y) => Present(y)'
    BY <1>1, <1>3, <1>4 DEF Present
  <1>8. Present(m)'
    <2>1. node'[m].status = "active"
      BY <1>3 DEF Fresh
    <2> QED
      BY <2>1 DEF Present
  <1>9. Predecessors'
    <2>1. \A y \in Nodes : node[y].status \in Retired => node'[y].status \in Retired
      BY <1>1, <1>3, <1>4 DEF Retired, Present
    <2>2. \A y \in Nodes : y # m /\ node[y].pred # NoNode => node[y].pred \in Nodes
      BY DEF TypeOK, NodeRows
    <2> SUFFICES ASSUME NEW y \in Nodes, node'[y].pred # NoNode
                 PROVE  Present(y)' /\ node'[node'[y].pred].status \in Retired
      BY DEF Predecessors
    <2>3. CASE y = m
      BY <1>2, <1>3, <1>4, <1>8, <2>3 DEF Retired
    <2>4. CASE y # m
      BY <1>5, <1>7, <2>1, <2>2, <2>4 DEF Predecessors
    <2> QED
      BY <2>3, <2>4
  <1>10. LineageLinked'
    <2>1. ASSUME NEW y \in Nodes, node[y].succ # NoNode
          PROVE  node[y].succ # m
      <3>1. node[node[y].succ].pred = y
        BY <2>1 DEF LineageLinked
      <3>2. node[m].pred = NoNode
        BY <1>1 DEF Predecessors
      <3> QED
        BY <3>1, <3>2, NodesAssumption
    <2>2. \A y \in Nodes : node[y].succ # NoNode => node[y].succ \in Nodes
      BY DEF TypeOK, NodeRows
    <2> SUFFICES ASSUME NEW y \in Nodes
                 PROVE  /\ node'[y].status = "superseded" => node'[y].succ # NoNode
                        /\ node'[y].succ # NoNode => node'[node'[y].succ].pred = y
      BY DEF LineageLinked
    <2>3. CASE y = m
      BY <1>2, <1>3, <2>3
    <2>4. CASE y = n
      BY <1>2, <1>3, <1>4, <2>4, NodesAssumption
    <2>5. CASE y # m /\ y # n
      <3>1. node'[y] = node[y]
        BY <1>3, <2>5
      <3> QED
        BY <1>5, <2>1, <2>2, <3>1 DEF LineageLinked
    <2> QED
      BY <2>3, <2>4, <2>5
  <1>11. OpNodes' /\ Snapshots' /\ SweepNodes'
    <2>1. \A b \in Agents : StepsOn(op[b], op'[b])
      BY DEF SupersedeCommit, TypeOK, StepsOn
    <2>2. \A y \in Nodes : node'[y].pred = node[y].pred \/ ~Present(y)
      BY <1>1, <1>5
    <2>3. \A y \in Nodes : node[y].pred # NoNode => Present(y)
      BY DEF Predecessors
    <2>4. sweep'.todo \subseteq sweep.todo
      BY DEF SupersedeCommit
    <2> QED
      BY <2>1, <2>2, <2>3, <2>4, <1>7, OpsKept
  <1> QED
    BY <1>6, <1>9, <1>10, <1>11

\* The steps that touch no row.
LEMMA InvNoRow ==
    ASSUME IInv, TypeOK',
           \/ \E a \in Agents : InvalidateCommit(a) \/ MergeTarget(a) \/ GiveUp(a)
           \/ Tick \/ SweepRead
    PROVE  IInv'
  <1> USE DEF IInv
  <1>1. node' = node
    BY DEF InvalidateCommit, MergeTarget, GiveUp, Tick, SweepRead
  <1>2. Predecessors' /\ OneSuccessor' /\ LineageLinked'
    BY <1>1 DEF Predecessors, OneSuccessor, LineageLinked, Present
  <1>3. CASE SweepRead
    <2>1. SweepNodes'
      BY <1>3, <1>1 DEF SweepRead, SweepNodes, Candidates, NextPhase, Present, Phases,
                        TypeOK, ExpiredWatches, ExpiredNodes, ExpiredLocks
    <2>2. OpNodes' /\ Snapshots'
      BY <1>3, <1>1 DEF SweepRead, OpNodes, Snapshots, Present
    <2> QED
      BY <1>2, <2>1, <2>2
  <1>4. CASE ~SweepRead
    <2>1. \A b \in Agents : StepsOn(op[b], op'[b])
      BY <1>4 DEF InvalidateCommit, MergeTarget, GiveUp, Tick, Running, TypeOK, StepsOn
    <2>2. sweep'.todo \subseteq sweep.todo
      BY <1>4 DEF InvalidateCommit, MergeTarget, GiveUp, Tick
    <2>3. \A y \in Nodes : Present(y) => Present(y)'
      BY <1>1 DEF Present
    <2>4. \A y \in Nodes : node[y].pred # NoNode => Present(y)
      BY DEF Predecessors
    <2>5. \A y \in Nodes : node'[y].pred = node[y].pred \/ ~Present(y)
      BY <1>1
    <2> QED
      BY <1>2, <2>1, <2>2, <2>3, <2>4, <2>5, OpsKept
  <1> QED
    BY <1>3, <1>4
THEOREM Invariance == Spec => []IInv
  <1>1. IInv /\ [Next]_vars => IInv'
    <2> SUFFICES ASSUME IInv, [Next]_vars PROVE IInv'
      OBVIOUS
    <2>1. TypeOK /\ OpNodes
      BY DEF IInv
    <2>2. CASE UNCHANGED vars
      BY <2>2 DEF IInv, vars, TypeOK, OpNodes, Snapshots, SweepNodes, Predecessors,
                  OneSuccessor, LineageLinked, Present
    <2>3. CASE Tick \/ SweepRead
      <3>1. TypeOK'
        BY <2>1, <2>3, TypeSweep DEF Sweep
      <3> QED
        BY <2>3, <3>1, InvNoRow
    <2>4. ASSUME NEW x \in Nodes, SweepWatch(x) \/ SweepExpiry(x) \/ SweepLock(x)
          PROVE  IInv'
      <3>1. TypeOK'
        BY <2>1, <2>4, TypeSweep DEF Sweep
      <3>2. CASE SweepLock(x)
        <4>1. op' = op /\ sweep'.todo \subseteq sweep.todo
          BY <2>1, <3>2 DEF SweepLock, Visited, TypeOK
        <4>2. \A y \in Nodes : /\ node'[y].pred = node[y].pred
                               /\ node'[y].succ = node[y].succ
                               /\ node'[y].status = node[y].status
          BY <2>1, <3>2 DEF SweepLock, TypeOK, NodeRows
        <4> QED
          BY <3>1, <4>1, <4>2, InvRowsKept
      <3>3. CASE SweepWatch(x) \/ (SweepExpiry(x) /\ StillExpired(x))
        <4>1. /\ Present(x)
              /\ \A b \in Agents : op'[b] = op[b]
              /\ sweep'.todo \subseteq sweep.todo
              /\ node' = [node EXCEPT ![x] = Archived(node[x])]
          BY <3>3 DEF SweepWatch, SweepExpiry, Visiting, Visited, IInv, SweepNodes, TypeOK
        <4>2. node[x] \in NodeRows
          BY <2>1 DEF TypeOK
        <4>3. node[x].succ # NoNode => node[node[x].succ].pred = x
          BY DEF IInv, LineageLinked
        <4> QED
          BY <3>1, <4>1, <4>2, <4>3, InvRetire
      <3>4. CASE SweepExpiry(x) /\ ~StillExpired(x)
        <4>1. /\ node' = node /\ op' = op
              /\ sweep'.todo \subseteq sweep.todo
          BY <3>4 DEF SweepExpiry, Visited, TypeOK, IInv
        <4> QED
          BY <3>1, <4>1, InvRowsKept
      <3> QED
        BY <2>4, <3>2, <3>3, <3>4
    <2>5. ASSUME NEW a \in Agents, AgentStep(a)
          PROVE  IInv'
      <3>1. ASSUME NEW n \in Nodes, NEW force \in BOOLEAN, NEW t \in Nodes,
                   \/ \E ttl \in Ttls : LockNode(a, n, ttl, force)
                   \/ UnlockNode(a, n, force)
                   \/ \E e \in {node[n].expires} \cup Dates : EditNode(a, n, force, e)
            PROVE  IInv'
        BY <2>1, <3>1, TypeOneStep, InvOneStep
      <3>2. ASSUME NEW n \in Nodes, NEW t \in Nodes, NEW force \in BOOLEAN,
                   \/ SupersedeRead(a, n)
                   \/ InvalidateCheck(a, n, force)
                   \/ MergeRead(a, n, t, force)
                   \/ DreamRead(a, n, t)
                   \/ WatchResolveMark(a, n)
            PROVE  IInv'
        BY <2>1, <3>2, TypeRead, InvRead
      <3>3. ASSUME NEW m \in Nodes, NEW e \in {0} \cup Dates, SupersedeCommit(a, m, e)
            PROVE  IInv'
        BY <2>1, <3>3, TypeCommit, InvSupersede
      <3>4. CASE InvalidateCommit(a) \/ MergeTarget(a) \/ GiveUp(a)
        BY <2>1, <3>4, TypeCommit, InvNoRow
      <3>5. CASE MergeSource(a) \/ DreamSource(a)
        <4> DEFINE n == op[a].n
                   row == [op[a].snap EXCEPT !.type = node[n].type]
        <4>1. /\ op[a].kind \in {"merge_source", "dream_source"}
              /\ node' = [node EXCEPT ![n] = Archived(row)]
              /\ op' = [op EXCEPT ![a] = Idle]
              /\ sweep' = sweep
          BY <3>5 DEF MergeSource, DreamSource, Running, Merged
        <4>2. n \in Nodes /\ Present(n)
          BY <2>1, <4>1 DEF OpNodes
        <4>3. row \in NodeRows /\ row.pred = op[a].snap.pred /\ row.succ = op[a].snap.succ
          BY <2>1, <4>2 DEF TypeOK, NodeRows, Ops
        <4>4. /\ row.pred = node[n].pred
              /\ row.succ # NoNode => node[row.succ].pred = n
          BY <4>1, <4>3 DEF IInv, Snapshots
        <4>5. TypeOK'
          BY <2>1, <3>5, TypeCommit
        <4>6. \A b \in Agents : op'[b] = op[b] \/ op'[b] = Idle
          BY <2>1, <4>1 DEF TypeOK
        <4> HIDE DEF n, row
        <4> QED
          BY <4>1, <4>2, <4>3, <4>4, <4>5, <4>6, InvRetire
      <3>6. CASE WatchResolveArchive(a)
        <4> DEFINE n == op[a].n
        <4>1. /\ n \in Nodes /\ Present(n)
              /\ node' = [node EXCEPT ![n] = Archived(node[n])]
              /\ \A b \in Agents : op'[b] = op[b] \/ op'[b] = Idle
              /\ sweep'.todo \subseteq sweep.todo
          BY <2>1, <3>6 DEF WatchResolveArchive, Running, OpNodes, TypeOK
        <4>2. node[n] \in NodeRows
          BY <2>1, <4>1 DEF TypeOK
        <4>3. node[n].succ # NoNode => node[node[n].succ].pred = n
          BY <4>1 DEF IInv, LineageLinked
        <4>4. TypeOK'
          BY <2>1, <3>6, TypeCommit
        <4> HIDE DEF n
        <4> QED
          BY <4>1, <4>2, <4>3, <4>4, InvRetire
      <3> QED
        BY <2>5, <3>1, <3>2, <3>3, <3>4, <3>5, <3>6 DEF AgentStep
    <2> QED
      BY <2>2, <2>3, <2>4, <2>5 DEF Next, Sweep
  <1> QED
    BY InvInit, <1>1, PTL DEF Spec

\* Every row, operation in flight and sweep keeps its shape, in every
\* reachable state.
THEOREM TypeCorrect == Spec => []TypeOK
  <1>1. IInv => TypeOK
    BY DEF IInv
  <1> QED
    BY Invariance, <1>1, PTL

\* However supersedes, merges and sweeps interleave, a node has at most one
\* successor (store.supersede_node).
THEOREM SuccessorUnique == Spec => []OneSuccessor
  <1>1. IInv => OneSuccessor
    BY DEF IInv
  <1> QED
    BY Invariance, <1>1, PTL

\* A superseded node always names a successor that names it back.
THEOREM LineageHolds == Spec => []LineageLinked
  <1>1. IInv => LineageLinked
    BY DEF IInv
  <1> QED
    BY Invariance, <1>1, PTL

\* No edit and no supersede commits, unforced, under another agent's live
\* lock.
THEOREM LocksIsolate == Spec => []LockIsolatesEdits
  <1>1. Init => LockIsolatesEdits
    BY DEF Init, LockIsolatesEdits
  <1>2. LockIsolatesEdits /\ [Next]_vars => LockIsolatesEdits'
    <2> SUFFICES ASSUME LockIsolatesEdits, [Next]_vars PROVE LockIsolatesEdits'
      OBVIOUS
    <2>1. ASSUME NEW a \in Agents, NEW n \in Nodes, NEW force \in BOOLEAN, NEW e,
                 EditNode(a, n, force, e)
          PROVE  LockIsolatesEdits'
      BY <2>1 DEF EditNode, CheckLock, ActiveLock, Intrudes, LockIsolatesEdits
    <2>2. ASSUME NEW a \in Agents, NEW m \in Nodes, NEW e, SupersedeCommit(a, m, e)
          PROVE  LockIsolatesEdits'
      BY <2>2 DEF SupersedeCommit, Supersedable, CheckLock, ActiveLock, Intrudes,
                  Noting, LockIsolatesEdits
    <2>3. ASSUME NEW a \in Agents,
                 InvalidateCommit(a) \/ MergeTarget(a) \/ MergeSource(a) \/ DreamSource(a)
          PROVE  LockIsolatesEdits'
      BY <2>3 DEF InvalidateCommit, MergeTarget, MergeSource, DreamSource, Noting,
                  LockIsolatesEdits
    <2>4. CASE UNCHANGED vars \/ breach' = {}
      BY <2>4 DEF vars, LockIsolatesEdits
    <2>5. CASE Tick \/ Sweep
      BY <2>4, <2>5 DEF Tick, Sweep, SweepRead, SweepWatch, SweepExpiry, SweepLock
    <2>6. ASSUME NEW a \in Agents, AgentStep(a)
          PROVE  LockIsolatesEdits'
      BY <2>1, <2>2, <2>3, <2>4, <2>6
         DEF AgentStep, LockNode, UnlockNode, SupersedeRead, InvalidateCheck, MergeRead,
             DreamRead, WatchResolveMark, WatchResolveArchive, GiveUp
    <2> QED
      BY <2>4, <2>5, <2>6 DEF Next
  <1> QED
    BY <1>1, <1>2, PTL DEF Spec

-----------------------------------------------------------------------------
\* Only the cron pass itself takes a row off its list.
LEMMA AgentsLeaveSweep ==
    ASSUME NEW a \in Agents, AgentStep(a)
    PROVE  sweep' = sweep
  <1>1. ASSUME NEW n \in Nodes, NEW force \in BOOLEAN,
               \/ \E ttl \in Ttls : LockNode(a, n, ttl, force)
               \/ UnlockNode(a, n, force)
               \/ \E e \in {node[n].expires} \cup Dates : EditNode(a, n, force, e)
               \/ InvalidateCheck(a, n, force)
               \/ \E t \in Nodes : MergeRead(a, n, t, force)
        PROVE  sweep' = sweep
    BY <1>1 DEF LockNode, UnlockNode, EditNode, InvalidateCheck, MergeRead
  <1>2. ASSUME NEW n \in Nodes,
               \/ SupersedeRead(a, n)
               \/ \E e \in {0} \cup Dates : SupersedeCommit(a, n, e)
               \/ \E t \in Nodes : DreamRead(a, n, t)
               \/ WatchResolveMark(a, n)
        PROVE  sweep' = sweep
    BY <1>2 DEF SupersedeRead, SupersedeCommit, DreamRead, WatchResolveMark
  <1>3. CASE \/ InvalidateCommit(a) \/ MergeTarget(a) \/ MergeSource(a)
             \/ DreamSource(a) \/ WatchResolveArchive(a) \/ GiveUp(a)
    BY <1>3 DEF InvalidateCommit, MergeTarget, MergeSource, DreamSource,
                WatchResolveArchive, GiveUp
  <1> QED
    BY <1>1, <1>2, <1>3 DEF AgentStep

\* A visit to a row of the list changes that row alone: it archives it, in the
\* expiry phase only if it is still active and expired, or it takes a dead lock
\* from it.
LEMMA VisitReadsAgain ==
    ASSUME TypeOK, NEW x \in Nodes, SweepWatch(x) \/ SweepExpiry(x) \/ SweepLock(x)
    PROVE  /\ \A n \in Nodes : node[n].lock.until > now => node'[n].lock = node[n].lock
           /\ \A n \in Nodes :
                 (Visiting("expiry", n) /\ n \notin sweep'.todo
                    /\ node'[n].status # node[n].status)
                 => node[n].status = "active" /\ node[n].expires \in 1 .. now
  <1>1. node \in [Nodes -> NodeRows] /\ now \in Nat /\ node[x] \in NodeRows
    BY DEF TypeOK
  <1>2. sweep'.todo = sweep.todo \ {x}
    BY DEF TypeOK, SweepWatch, SweepExpiry, SweepLock, Visited
  <1>3. \A n \in Nodes \ {x} : node'[n] = node[n]
    BY <1>1 DEF SweepWatch, SweepExpiry, SweepLock
  <1>4. CASE SweepWatch(x)
    <2>1. node'[x] = Archived(node[x]) /\ sweep.phase = "watches"
      BY <1>1, <1>4 DEF SweepWatch, Visiting
    <2>2. node'[x].lock = node[x].lock
      BY <1>1, <2>1 DEF Archived, NodeRows
    <2> QED
      BY <1>3, <2>1, <2>2 DEF Visiting
  <1>5. CASE SweepExpiry(x)
    <2>1. \/ node'[x] = node[x]
          \/ node'[x] = Archived(node[x]) /\ StillExpired(x)
      BY <1>1, <1>5 DEF SweepExpiry
    <2>2. node'[x].lock = node[x].lock
      BY <1>1, <2>1 DEF Archived, NodeRows
    <2>3. StillExpired(x) => node[x].status = "active" /\ node[x].expires \in 1 .. now
      BY <1>1 DEF StillExpired, NodeExpired, NodeRows
    <2>4. \A n \in Nodes : Visiting("expiry", n) /\ n \notin sweep'.todo => n = x
      BY <1>2 DEF Visiting
    <2> QED
      BY <1>3, <2>1, <2>2, <2>3, <2>4
  <1>6. CASE SweepLock(x)
    <2>1. sweep.phase = "locks" /\ (node'[x] = node[x] \/ ~ActiveLock(node[x]))
      BY <1>1, <1>6 DEF SweepLock, Visiting, LockStillExpired
    <2> QED
      BY <1>3, <2>1 DEF Visiting, ActiveLock
  <1> QED
    BY <1>4, <1>5, <1>6

\* A sweep drops no lock that was refreshed or taken since it listed the row, and
\* archives no node whose date was extended or which was superseded since
\* (locks.cleanup_expired_locks, daemon._expire_nodes).
THEOREM SweepsLookAgain == Spec => SweepsReadAgain
  <1> DEFINE Kept ==
          /\ Sweep => \A n \in Nodes :
                 node[n].lock.until > now => node'[n].lock = node[n].lock
          /\ \A n \in Nodes :
                 (Visiting("expiry", n) /\ n \notin sweep'.todo
                    /\ node'[n].status # node[n].status)
                 => /\ node[n].status = "active"
                    /\ node[n].expires \in 1 .. now
  <1>1. TypeOK /\ [Next]_vars => [Kept]_vars
    <2> SUFFICES ASSUME TypeOK, Next PROVE Kept
      OBVIOUS
    <2>1. CASE \E x \in Nodes : SweepWatch(x) \/ SweepExpiry(x) \/ SweepLock(x)
      BY <2>1, VisitReadsAgain
    <2>2. CASE SweepRead
      BY <2>2 DEF SweepRead, Visiting
    <2>3. CASE ~Sweep
      <3>1. sweep' = sweep
        BY <2>3, AgentsLeaveSweep DEF Next, Tick
      <3> QED
        BY <2>3, <3>1 DEF Visiting
    <2> QED
      BY <2>1, <2>2, <2>3 DEF Sweep
  <1> QED
    BY <1>1, TypeCorrect, PTL DEF Spec, SweepsReadAgain
=============================================================================
