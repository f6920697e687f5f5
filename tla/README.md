# kindex, modelled in TLA+

kindex keeps a knowledge graph for AI agents in one SQLite file per graph
(`src/src/kindex`). Nothing in it is a server: every agent session, every CLI
command, every editor hook and the cron pass is an operating-system process that
opens the same file, and some state lies in files beside it that have no common
lock (the ledger, the archives, the files that git merges). The hard behaviour is
therefore what happens between the transactions of several processes: a row read
in one transaction and written in another, leases that run out while their holder
is still working, a process that dies half way, a call that was paid for and not
recorded, a retry of an operation that already happened.

## How code becomes TLA+

* A `BEGIN IMMEDIATE ... COMMIT` block (and every single-statement commit) is one
  action: SQLite serialises writers. A read outside such a block is an action of
  its own; what it returned is kept in a variable of the process that read it. A
  file is replaced in one step (`os.replace`).
* A process may stop for good between any two of its actions.
* Text, titles, tags, scores, vectors and log lines are left out unless a property
  tells them apart: an edit of a text is its version, a payload a model value. Time
  is a bounded clock or a flag that says whether a deadline has passed; each module
  says which.
* Every definition that stands for code has an entry in `PROJECT.json` under `map`.
* A definition that a comment calls a mutant, or whose name ends in `Blind`,
  `IfUnlocked`, `AsRead` and the like, stands just before the definition it
  resembles and is not part of the model: it is a bug that the properties are known
  to detect.

## Inventory

| Component | Code | State | Operations | Hard part | What makes it correct |
|---|---|---|---|---|---|
| Node editing and locks | `store.py`, `locks.py`, `mcp_server.py`, `dream.py`, `daemon.py` | node rows, `extra.lock`, `extra.expires`, `extra.superseded_by` | lock, unlock, edit, supersede, invalidate, merge, sweeps | checks on rows read earlier; whole `extra` written back | locks isolate edits; one successor; sweeps honour what changed |
| Coordination | `coordination.py` | conversation nodes: messages, members, cursors, standing injects | create, join, post, read, inject, attach, end, sweep | snapshot, then transaction; sliding expiry | no message skipped or lost; ended by those who may |
| Tasks | `tasks.py` | task nodes: claim lease, version, dependencies | create, update, claim, release, complete, cancel, sweep, doctor | claim expiry; force; rows read earlier | a live claim is respected; acyclic dependencies |
| Task service | `task_service.py`, `integrations.py` | operation receipts and outcomes in `meta` | execute, answer, deliver, reconcile | retries after a lost answer; death between commits | an operation takes effect once; the audit agrees |
| Reminders and actions | `reminders.py`, `actions.py` | reminder rows, action claim, streak, occurrence, sweep lease in `meta` | sweep, dispatch, claim, run, settle, snooze, complete, cancel, exec | a side effect that may or may not have happened; lease loss | bounded launches per occurrence; no overlap; none passed over |
| Sessions | `sessions.py`, `hooks.py`, `store.py` | session tags, their segments and links | start, update, segment, link, pause, resume, complete | lookups outside the transaction; JSON columns rewritten | one active tag per project and name; no link lost |
| Capture candidates | `store.py`, `extract.py` | candidate rows, review tokens | stage, show, accept, reject, prune, erase | acceptance of what has changed since | one node per candidate; decided as shown |
| Schema migration and snapshots | `store.py`, `snapshots.py` | version stamp, tables, migration lock, recovery snapshot | open, create, migrate, snapshot | two openers of two builds; a crash half way | a current store has every change; a way back exists |
| Budget | `budget.py` | ledger file, a snapshot of it in each process | follow, ask, record, recover | an unreadable file while others hold good snapshots | no spend forgotten; a day stopped stays stopped |
| Archive | `archive.py` | archive files, the graph | archive, rotate, restore | three commits in three files; renames | every node is somewhere |
| Merge of `.kin` files | `kin_merge.py` | the two branches' files | edit, merge | deletions against edits | the latest change survives |
| Sim review queue | `sim.py`, `sim_queue.py`, `adaptive_sim.py` | queue, durable claim, receipts, circuit, in `meta` | admit, wake, claim, call, save, park, acknowledge, report, show | paid calls; death between call and record; full queue | paid once, lost never, shown once, ends |
| Reinforcement grading | `reinforce.py`, `attention.py` | queue, markers and stamps | enqueue, lease, grade, settle, tick | stale state written back; a stop during its own grading | every stop answered |
| Embedding queue | `vectors.py`, `store.py` | queue, vectors, quarantine | edit, delete, drain, dismiss | an edit while its text is with the provider; rows read and written back whole | what is stale is queued, save where a named race or failure cost it |
| Supervisor alerts | `supervisor_notifications.py`, `supervisor_health.py` | alerts and their claims | check, submit, acknowledge | two checkers; death in a submission | once per cooldown |
| Daemon and cron | `daemon.py`, `scheduling.py` | pid and lock files | passes | two passes at once, a step that fails | a failed step does not stop the next |
| Dream | `dream.py`, `dream_deep.py` | lock file, suggestions | cycle, merge, suggest | interrupted merge | nothing is deleted, only archived |
| Supervisor | `supervisor*.py` | health | observe, render | | |
| Attention | `attention.py` | weights, the judge's queue | tick, judge | stale state written back | bounded weights |
| Retrieval and answering | `retrieve.py`, `answer.py`, `recall_cues.py` | caches | search, fuse, rank, answer | stale index | pure ranking |
| Import and export | `graph_transfer.py` | other databases | import, export | partial import | every row imported once |
| Ingest and adapters | `ingest.py`, `adapters/`, `conversations.py`, `code_map.py` | nodes | scan, write | re-ingest of what is there | idempotent |
| Surfaces | `cli.py`, `mcp_server.py`, `mcp_lite.py`, `hooks.py`, `setup.py`, `claude_install.py` | none | parse, call, print | none of their own beyond what is listed above | |

How they meet: everything edits the nodes table; sessions, tasks, conversations and
candidates are rows of the same store, each with a lifecycle of its own and no field
in common, which is why each has a module of its own. Components meet in four
places, and each is inside a module: tasks with their service (`TaskService`
extends `Tasks`), locks with supersede, merge and the sweeps (`NodeLocks`), grading
with attention ticks (`Grading`), node edits with the embedding queue
(`Embeddings`) and with the tokens of reviewers (`Captures`).

## Modules and the code they stand for

`PROJECT.json` maps every definition to its lines; this is the way in.

| Module | Models | State and its source |
|---|---|---|
| `NodeLocks` | the node rows and everything that edits or retires one | `node` = columns type, status and the keys `lock`, `expires`, `superseded_by`, `supersedes` of `extra`; `op` = what each agent read before its transaction; `sweep` = steps 9, 9a, 9b of `daemon.cron_run`, with the rows each one read |
| `Tasks` | task rows, claims, dependencies, the claim sweep, the owner doctor | `task` = `extra` of a task node; `seen` = the row each reader got; `todo` = the sweep's list |
| `TaskService` | durable operations of host adapters, over the rows of `Tasks`, which it extends | `receipt`, `outcome`, `cursor` = rows of `meta`; `proc` = where each adapter process is in `integrations.execute_task`; `recorded` = the audit of signet-eval (external) |
| `ExactlyOnce` | the abstract promise: one effect, one answer | implemented by `TaskService`: `Promise == INSTANCE ExactlyOnce WITH result <- ...` |
| `Coordination` | conversations, messages, cursors, standing messages, their sweep | `conv` = coordination nodes; `op` = the row each process looked up, the rest of its sweep, the page it is about to return |
| `Reminders` | the reminder sweep and its lease, the claim of an action, settlement, parking | `row` = the reminders table with the action's state of `extra`; `lock` = the lease in `meta`; `op` = where each process is in `_fire_one` and `execute_action` |
| `Sessions` | the rows of one tag name, the edges to linked nodes, the unique index and the migration that makes it | `tag` = `extra` of a session node; `call` = the row each call looked up; `indexed` = the index of active tags exists |
| `Captures` | staging, showing, promotion, rejection, quarantine, pruning and erasure, beside edits of the graph | `candidate` = the table `capture_candidates`; `review` = what each reviewer was shown and its token; `concept`, `relation` = the part of the graph that candidates touch |
| `Schema` | the opening of a database from `Store.conn` to the last migration | `db` = tables, version stamp, shape, recovery snapshot, profile and identity; `lock` = the migration lock; the processes' looks before and under it |
| `Ledger` | `BudgetLedger` in every process | `file`, `kept` = the ledger and its `unreadable-*` copies; `ledger` = each process's snapshot with the stamp it was read at; `flock` = the lock |
| `Archive` | archive cycles and restores over the graph and the archive files | `graph`, `joined` = nodes and edges; `inode`, `name` = the files and their names; `hand` = where each process is, with the inode it opened |
| `KinMerge` | the three-way merge of the index and of the code map, between two branches | `branch`, `base` = the files; `latest`, `gone` = when each record was changed, and the changes a deletion has seen |
| `Reviews` | hooks, workers, the durable claim, circuit, receipts, health, advice | `meta` = the rows of the queue, the claim, outcomes and receipts; `control` = `ControlState`; `worker`, `hook` = where each process is |
| `Grading` | the queue of stopped conversations, drains, people, ticks | `jobs`, `marker`, `stamped` = rows of `meta` and of the attention state; `grader`, `tick` = what each process has read |
| `Embeddings` | edits, merges and deletions, the embedding queue and its drains | `text`, `vector` by version; `embedQueue`, `rejected` = rows of `meta`; `writer`, `drainer` = what each has read |
| `Alerts` | checks, alerts, their claims and submissions | `lasting` = consecutive checks; `alerts` = the inbox; `checker` = where each check is |
| `Filters` | the selection of rows by a set, as a recursive function | used by the queues |
| `NodeLocks_proofs`, `Tasks_proofs`, `TaskService_proofs`, `Coordination_proofs`, `Reminders_proofs`, `Sessions_proofs` | the theorems about each of these modules | |
| `Stores_proofs` | the theorems about `KinMerge`, `Ledger`, `Captures`, `Schema` and `Archive` | |
| `Queues_proofs` | the theorems about `Grading`, `Embeddings`, `Alerts` and `Reviews`, and the lemmas about `Filters` | |
| `MCNodeLocks`, `MCTasks`, `MCTaskService`, `MCCoordination`, `MCReminders` | small instances of one module each | |
| `MCStores` | the stores: `Sessions`, `Captures`, `Schema`, `Ledger`, `Archive`, `KinMerge` | |
| `MCQueues` | the queues: `Reviews`, `Grading`, `Embeddings`, `Alerts` | |
| `MCUpkeep` | liveness of `NodeLocks`, `TaskService`, `Coordination` and `Reviews` under one fair specification | |

Each action is a handler or, where the code commits several times, one
transaction of it. Conventions that are not obvious from the modules:

* Tasks: the node's `status` follows `task_status` and is not kept apart. A caller
  that leaves a field out of an update passes the present value. A refused
  operation raises, rolls back and is no step.
* TaskService: a task of the pool stands for its external id in a collection; an
  operation id stands for the pair of a session's scope and its id; a reconcile
  always cancels what it does not list, which is what makes it interesting.
* Coordination: a message is its author, the n-th message has id n. A lookup by id
  and one by name both return a stored row. Explicit `since_id` reads move no
  cursor and are left out.
* Reminders: one unit of the clock is the lease of one reminder (420 s), which
  covers the 300 s of a run; a claim is stale after 660 s, which is more than one
  unit and less than two. `Tick` lets no process stay in a run, or a sweep with one
  reminder, past that budget, which `subprocess` timeouts enforce; between two
  reminders a sweep may sleep as long as it likes. Whether an action is too overdue
  to run is nondeterministic.
* Sessions: the rows of one name in one project; neither a lookup by name nor the
  index relates two names.
* Captures: the clock counts whole seconds, as the token does: two edits in one
  second have one time.
* Schema: a version's change of the tables is a member of `shape`. `FirstStamped`,
  `ScriptVersion` and `CurrentShape` stand for 8, 11 and 13 among five versions.
* Ledger: every call costs one unit; an entry is the number of a call.
* Archive: a file is an inode, and a connection keeps the one it opened when the
  name goes to another; the name of a rotated file is its second.
* Grading: a job stands for the stop that enqueued it; a lease and a marker lapse
  only when their holder is dead, for a paid call ends before their 1800 and 3600 s.
* Embeddings: queue and quarantine, which an enqueue reads one after the other, are
  read in one step. Every write that cost a node its refresh says so at the write, in
  `unrefreshed`: a text written without an entry, an entry that failed, a node that a
  copy of queue or quarantine takes off, an older answer stored over the present
  one. An edit of the node, or an answer for its text, takes it out again.
* Alerts: the claim of a submission outlasts the submission, unless the claimant died.
* History variables (`breach`, `last`, `repaired`, `revived`, `picked`, `heard`,
  `effects`, `answers`, `tries`, `notified`, `sent`, `parked`, `written`, `stopped`,
  `late`, `latest`, `gone`, `past`, `tally`, `unrefreshed`) record what the code does
  not keep, so that a property can name it. No step depends on one, save that `written` numbers
  the next paid call.

## Runs and bounds

`tlc -workers 2 -config <run>.cfg <module>`, the module being the one that
`PROJECT.json` names for the run; about three minutes for the longest.

| Run | Question | Bounds and why they are enough |
|---|---|---|
| `NodeLocks_supersede` | may a second supersede, an edit or the sweep slip between a supersede's read and its commit, or between the sweep's read and its write? | two agents, one concept or one watch that both invalidate, two spare ids (each supersede needs one), one lock lifetime, clock 0..1: a lock and a date can pass once |
| `NodeLocks_history` | does anything written back from a stale read break the lineage? | a watch, a concept and two spare ids, so that a revived node could be superseded twice; no clock, because lineage does not look at time |
| `NodeLocks_merge_extra` | violation: see below | |
| `Tasks_claims` | is a live claim respected and an expired one released in the end? does a chain of dependencies close? | one task is enough as claims do not relate tasks; a session of the live agent and one of the retired, both bare names, versions up to 4, clock 0..1; second scene: three tasks, every dependency list, two versions, which a cycle of three needs (it is not found by looking one step ahead), nobody claims |
| `TaskService_shared` | retried operations against one another and against the older surfaces | first plot: three requests, one id reused, two processes, one death, lost answer or lost delivery, two policy revisions; second plot: a collection of two tasks, listed in full and then in part, while the retired agent claims, releases and the clock passes a claim |
| `Coordination_shared` | pages, cursors, ends, standing messages and names among processes | four plots, each with the operations that can disturb one another: pages of one message with two processes of one agent; ends with expiry, sweep and one crash; standing messages; two conversations of one name |
| `Coordination_ended_live` | violation: see below | |
| `Reminders_fire` | leases, claims, take-over, parking, settlement and people | one reminder, recurring or not, wake or not; two attempts, so that one is used up by a worker that died; clock 0..2, which passes the lease and a stale claim; three plots: two sweeps and people; a sweep or shell beside a tool or shell with two faults; two shells and an early completion |
| `Upkeep` | does what must happen happen? | `locks`: one watch, one spare id; `service`: an outcome that is always refused and one behind it; `talks`: two conversations, one post that slides the expiry; `wake`: two reviews and two workers that only hooks start; `drain`: the same with two faults and only the cron pass to start a worker |
| `Stores` | one question for each store, below | below |
| `Queues` | one question for each queue, below | below |
| `Archive_rotation` | violation: see below | the archive of `Stores` with rotations that may fall in one second |

`Stores`, by the variable `scene`:

* `work`, `life`: two callers, two rows of one name (the second is needed for a
  duplicate), one node to link, one item of remaining work, two segments. `work` has
  starts, updates, segments and links, `life` pauses, completions and resumptions in
  the place of updates. In both, old tags are migrated first.
* `graph`: one candidate and one reviewer beside edits, verification and
  contradiction of the concepts it is compared with. `queue`: two candidates of one
  title and two reviewers. A candidate lives one second, the clock is 0..1, so that
  one second has two edits and one candidate runs out.
* `schema`: three openers: two of the newer build, one with a profile, and one of the
  older. The store is any of: empty, partly created, unstamped at several ages, at
  each version. One death, lost wait, or busy graph: in a migration, or when an open
  would stamp its identity and goes on without one; whoever went on asks again later.
* `ledger`: two processes, a limit of one call, four calls, two days, two of: death,
  damage, repair, copy that cannot be kept. Two processes is what exceeds a limit.
* `archive`: a node and a completed session tag with an edge between them, two
  processes, two seconds in which a rotation may fall, one death or a person's
  deletions, not both. Two rotations do not fall in one second here: that is
  `Archive_rotation`.
* `kin`: one record and one other field, two bodies, three edits: an edit on each side
  and a deletion.

`Queues`:

* `queue` (a death at every step of a review while two share the queue), `park` (three
  reviews, a queue of one, one review parked for its conversation's backoff), `health`
  (health does not take a report), `circuit` (failures, cooldown, backoff, one review),
  `advice` (two pieces of advice on their way to hosts). Two faults, a drain of two
  jobs, a circuit that one failure opens.
* `drains` (two drains, a conversation stops again while it is graded), `full` (three
  conversations, a queue of two), `person` (a person and an attention tick beside a
  drain). Two attempts, one death.
* `writers` (two nodes of two versions, two writers beside one drain: entries and
  records written back over one another), `drainers` (two drains beside one writer of
  one node of three versions, one outage: answers out of order). The provider rejects
  the second version; batches of two.
* `alerts`: one problem, two checkers, two checks until it is sustained, a cooldown of
  two on a clock of 0..2, two alerts, one death.

What differs between plots or scenes is chosen in `Init` and never changed; a
composition of two of them is not checked. Components in different scenes of one run
share no state in the code either, except the rows named under the inventory. Other
bounds are in the guards: `MaxVersion` (`Bounded`), `MaxInject`, `posts`, `crashes`,
`faults`, `mishaps`, `troubles`, `deaths`, `MaxTime` and the like. `CHECK_DEADLOCK
FALSE` stands in every cfg because each program may stop: every operation is
somebody's choice, and the bounds end the clock. Symmetry is used only where the
permuted values are interchangeable and no liveness is checked.

### What the properties say

Each is stated, with the lines it is about, where it is defined. In short:

* `NodeLocks`: `LockIsolatesEdits`, `OneSuccessor`, `LineageLinked`,
  `SweepsReadAgain` (a sweep drops no lock and archives no node that was refreshed,
  extended or superseded since it was listed), `ExpiredLocksCleared`.
* `Tasks`, `TaskService`: `LiveClaimKept`, `ExpiredClaimsReleased`, `Acyclic`,
  `TakesEffectOnce` (the refinement of `ExactlyOnce`), `AuditTrail`,
  `OutcomesDelivered`.
* `Coordination`: `NothingSkipped`, `NamesakesRevived`, `PostedKept`,
  `OutsidersKeptOut`, `ExpiredEnded`.
* `Reminders`: `OneFiring`, `NoOverlap`, `LaunchesBounded`, `NonePassedOver`. They exempt
  the reminders that were parked over a run or a delivery (`parked`): each exemption is
  needed, and nothing else is exempt.
* `Sessions`: `OneActiveTag`, `LinksListed` (what was linked stays listed in the tag or
  in one of its segments). `Captures`: `CapturedOnce` (no two live
  candidates of one payload, no two nodes of one title from acceptances),
  `DecidedAsShown` (a promotion or quarantine meets the standing and the contradictions
  that the reviewer was shown). `Schema`: `OpenIsCurrent`, `Recoverable`,
  `MigratedOnce`. `Ledger`: `SpendKept` (no recorded call is lost, and a day's
  calls exceed the limit by less than there are processes), `StoppedForTheDay`.
  `Archive`: `NothingLost`.
  `KinMerge`: `LatestKept`.
* `Reviews`: `PaidOnce`, `NoneLost`, `ShownOnce`, `OutcomesReported`, `AdmittedEnds`.
  `Grading`: `StopsAnswered`, `GradedAgainIfForgotten` (a conversation is paid for again
  only when its stamp was written over, or its grading was paid for and ended before it: the
  call was not booked, its answer not read, an error was raised, the grader died).
  `OutcomesReported` lets a result that health refuses stay due until the receipt of
  the conversation's next review takes its place, and no longer.
  `Embeddings`: `StaleIsQueued` (nothing loses a refresh but the races and failures
  that `unrefreshed` names). `Alerts`: `ShownOncePerCooldown`.

### Fairness

The cron pass is started again and again by launchd or systemd, and SQLite lets a
waiting writer commit, so the sweeps are weakly fair (`Upkeep` for locks and
conversations, `Tasks_claims` for claims); callers, posters and the clock owe
nothing. In `TaskService` a started attempt proceeds (weak fairness of `Proceed`, a
process that runs is scheduled) and hosts go on asking (strong fairness of `Retry`:
the receipt is there but the process may be busy): outcomes are delivered by the
requests that follow and by nothing else, so without further requests none is. In
`Reviews` a worker that is started gets its turn and goes on until it ends or dies,
cooldowns and backoffs run out; the two scenes separate what hooks alone ensure
when nothing fails (`wake`) from what the drain of the cron pass ensures when workers
die (`drain`). `Reminders` states no liveness.

## What the documentation promises and the code does not do

Three of these are runs that must fail:

* `NodeLocks_merge_extra`: the archive step of a merge writes back the `extra` it
  read several commits earlier, so a lock taken since is gone; `dream.py:360` says
  that it preserves the locks.
* `Coordination_ended_live`: the sweep ends what its list found expired without
  looking again in the transaction, so a conversation that a post has slid is ended
  while it is live; the guide says that only the creator or a member does that. The
  sweeps of locks and claims do look again.
* `Archive_rotation`: a rotated archive is named by the second of its rotation. Two
  cycles that both find `current.db` old rename it one after the other: the second
  rename takes the new, live file and replaces the one that the first has put aside,
  with every node in it; `archive.py:5` says that everything is preserved.

The others stand at the end of their modules. To see a counterexample, add the
property to the cfg named, with the change named:

| Property | The promise | What happens | cfg |
|---|---|---|---|
| `LockBlocksMerge` | `mcp_server.py:2805`: a foreign lock on either node blocks the merge | the locks are checked on rows read before the snapshot and the writes (`:2856`) | `NodeLocks_history`, `Ttls = {1}` |
| `LockBlocksInvalidate` | `mcp_server.py:1954`: a foreign lock on the node refuses the change | the transaction of `store.invalidate_node` does not look at it (`:1979`) | `NodeLocks_supersede` |
| `SupersededRefusesEdits` | `store.py:2372`: a superseded node is always refused, force does not bypass | `watch_resolve` writes `archived` over `superseded` (`mcp_server.py:4414`), and an archived node is edited with force | `NodeLocks_history` |
| `OnlyExpiredWatchesArchived` | `daemon.py:816`: expired watches get archived | the status is written without reading the row again, so an extended watch is archived too (`:839`) | `NodeLocks_supersede` |
| `BareClaimOnlyAfterDoctor` | `task_service.py:432`: a bare identity is accepted only after doctor has replaced claude | every bare claim of the session's agent is accepted (`:440`) | `Tasks_claims` |
| `OneLivePerName` | `coordination.py:154`: one live conversation per name | a post that looked up a live row slides one that has expired since, while another of its name was created (`:337`) | `Coordination_shared` |
| `EndedArchived` | `coordination.py:5`: ending archives | a process that dies between the two commits leaves an ended, active node that no sweep lists (`:726`) | `Coordination_shared`, `SPECIFICATION FairSpec` |
| `CursorPastReturned` | `coordination.py:383`: the cursor advances only past messages actually returned | it is committed before the page is returned (`:426`) | `Coordination_shared`, one crash in `Paging` |
| `NeverOverlaps` | `reminders.py:660`: a running marker is left alone, since resetting it would let the next occurrence overlap an execution in flight | `_pause_action`, in a commit of its own after the advance, writes `paused` over whatever is there (`:972`, from a row read at `:966`): a person's run under way is forgotten, and another one starts beside it | `Reminders_fire` |
| `CompletedRemains` | `docs/human-guide.md:159`: completed tags remain completed | a resume looks at the status before it writes (`sessions.py:353`), and a pause not at all (`:300`) | `Stores` |
| `TokenDetectsEdits` | `README.md:607`: the review token detects changes between show and accept | the token has the second of a node's last edit and not its text (`store.py:3376`) | `Stores` |
| `AbsentIsMigrated` | `store.py:1633`: an absent table is not drift, a migration will create it | an early migration that fails is passed over (`:877`) and the next stamps the store | `Stores` |
| `StampedAtOnce` | `store.py:1246`: v11 is atomic | its script is committed before the stamp (`:1254`) | `Stores` |
| `ProfileBound` | `store.py:479`: a mismatched profile stamp hard-refuses | two profiles that open an unstamped graph both find none, and the later one's replaces the earlier's | `Stores`, a second profile for `w2`, no `SYMMETRY` |
| `DiscardsSettled` | `docs/supervisor-health.md:176`: discard receipts settle the matching review | a parked review that is pushed out or replaced, and advice that is, are reported once, outside any receipt (`sim_queue.py:139`) | `Queues` |

Met while reading, and stated by no property, because they lie outside what the
modules tell apart or because nothing promises otherwise:

* `vectors.py:1012`: an enqueue reads queue and quarantine and then writes them back
  whole, so of two writers' entries one may be lost, or what a drain has recorded
  since; a deletion writes the quarantine back in the same way (`:993-998`); with two
  drains an older answer may be stored over a newer one (`:1238`); a merge writes the
  text of its target and queues nothing (`dream.py:353`, `mcp_server.py:2893`); and a
  writer that dies or finds the graph busy after the node's commit leaves the node out
  (`store.py:2570`). All of these are steps of `Embeddings`, for any number of writers
  and drains, and `unrefreshed` is the set of the nodes they leave stale: it is what
  `StaleIsQueued` exempts. A vector may also return for a node superseded since
  (`:1520`).
* `reinforce.py:424`: "a session is graded at most once", but a tick writes back a
  state without the stamp, and a grading that was paid for may end before its stamp: the
  ledger cannot book it or its answer is no JSON (`:492`, an `llm_error`), a deposit
  fails, or the grader dies. The next stop of the conversation pays again.
  `GradedAgainIfForgotten` counts each of these.
* `kin_merge.py:20`: of a record of the code map that only theirs changed, ours is
  kept, when both sides changed the file.
* `tasks.py:34`: claims are written and compared in naive local time, so a lease is an
  hour longer or shorter across a change of the clock.
* `coordination.py:510`: ids of standing messages start again when the list is empty.
* `attention.py:1293`: the judge's queue caches what the next tick computes again.

## What is proved

For all values of the constants that meet the named assumptions, of the modules'
own `Spec`:

* `NodeLocks_proofs`: `TypeCorrect`, `SuccessorUnique`, `LineageHolds`,
  `LocksIsolate`, `SweepsLookAgain` (`SweepsReadAgain`). `OneSuccessor` is not inductive: a stale `extra` written back
  by a merge could in principle drop `superseded_by` and let a node be superseded
  again. The invariant `IInv` adds that the snapshot of a merge in flight names the
  predecessor its row still has, and a successor that names the row back
  (`Snapshots`), that operations and the sweep name nodes that exist (`OpNodes`,
  `SweepNodes`), and that a node that has a successor is archived or superseded and
  stays so (`Predecessors`), which a supersede does not accept. Reads, one-step
  operations, retirements and the supersede each have a lemma. That a sweep acts on
  what it reads in its transaction follows from the types alone: nobody else takes a
  row off its list (`AgentsLeaveSweep`).
* `Tasks_proofs`: `TypeCorrect`, `ClaimsInProgress`, `DependenciesAcyclic` (`Acyclic`),
  `UpdatesSeeWhatTheyChange`, `LiveClaimsKept`. A cycle is a set of tasks each of
  which depends on one of the set, and the check of `_dependencies` is stated as the
  closure it walks; a new edge closes a cycle only if the old graph reaches back to
  its start, which the closure would hold (`AcyclicStep`). An update that names a
  version is safe because versions only grow (`VersionCounts`) and what a reader saw
  is a row of the past (`SeenIsPast`): the same version is the same row.
* `TaskService_proofs`, which builds on the lemmas of `Tasks_proofs`:
  `ServiceTypeCorrect`, `AuditAgrees`, `ImplementsExactlyOnce`. The invariant `SInv`
  says three things. An operation took effect as often as it has receipts, which is
  once or never (`ReceiptsCount`). What an attempt is about to answer is what the
  receipt of its request says, what it delivers has an outcome, and what it
  acknowledges is on the audit (`AttemptsSound`): a retry that has read a receipt
  stays right while other processes commit, deliver and die, because receipts,
  outcomes and the audit only gain (`AttemptsKept`). An outcome belongs to a
  receipt, and the audit has only what has an outcome (`OutcomesFollow`). The
  refinement then maps the commit of an effect to `Apply`, the return of a success
  to `Answer` and every other step to a stutter (`PromiseStep`). The
  effects are all those of `_apply`. `NoneAssumption` says that the value for "no
  result yet" is no result. What `Tasks_proofs` proves of the tasks holds under the
  service too, where hosts create tasks in any status and replace whole collections:
  `ServiceClaimsKept` (`LiveClaimKept`), `ServiceClaimsInProgress`,
  `ServiceDependenciesAcyclic` and `ServiceUpdatesSee`. An effect writes one row as an
  operation of `Tasks` does (`RowSteps`), or it collects rows, each of which stays, is
  new or gets another status (`CollectedRow`); a new row never has a version that a
  reader could have seen, because a row has none before it is minted (`Unminted`).
* `Coordination_proofs`: `TypeCorrect`, `BacklogKept` (`NothingSkipped`), `NamesReused`
  (`NamesakesRevived`), `PostsStay` (`PostedKept`), `OutsidersStayOut`
  (`OutsidersKeptOut`). What an operation looked up is a row of the past. Of that row
  the invariant keeps only what holds of every row the conversation ever had (`OpOK`):
  that it was stored, and for a read that what its cursor was past had been found.
  `RowOK` says what a row is at any time: an archived one has ended, an ended one is
  empty, one not created yet has no standing messages. A page begins right after the
  cursor that was looked up, so the cursor that its read writes is past nothing that
  this read, an earlier one or one in between did not find (`CursorMoves`). Creation
  looks for the name in its own transaction, so only a post brings back a namesake.
  The two action properties follow from what each operation makes of one row
  (`RowStep`, `ChangeSteps`).
* `Sessions_proofs`: `TypeCorrect`, `ActiveTagUnique` (`OneActiveTag`), `LinksKept`
  (`LinksListed`). Every call changes the row as it is, whatever it saw when it looked
  the tag up, so it is enough to say what a change keeps (`TagsKept`). The invariant
  adds that a row not created yet lists nothing (`Blank`), that an edge leads to a tag
  that lists its node (`Edges`), that a call is about a row that is there and no call
  begins before the migration (`CallsFound`), and how segments share what was linked
  (`Filing`).
* `Reminders_proofs`: `TypeCorrect`, `OneSweepFires` (`OneFiring`), `RunsOnce`
  (`NoOverlap`), `LaunchedWithinBounds` (`LaunchesBounded`), `OccurrencesTold`
  (`NonePassedOver`). Two claims of the clock carry the argument. A process that fires
  for a sweep holds the lease and is within it (`Leased`), because the lease is renewed
  for each reminder and a reminder has a budget shorter than the lease. A process that
  runs an action is within its budget (`Budgeted`), so the claim in the row is its own
  (`Claimed`) and not old enough to be taken over. The launches of an occurrence are
  counted in its row (`Counted`), and an occurrence at hand fell due (`FellDue`), so it
  is not the one after an advance.
* `Stores_proofs`, `KinMerge`: `KinMergeTypeCorrect`, `LatestChangesKept`
  (`LatestKept`). The invariant says of the common commit what it says of neither
  branch (`HasLatest`): while it has the last change of a record, both branches have it
  too, unless a deletion has seen that change. A merge that looks at all three
  therefore finds the last change on a side, and on both if the base has it
  (`MergedStamp`).
* `Stores_proofs`, `Ledger`: `LedgerTypeCorrect`, `SpendingKept` (`SpendKept`),
  `SpendingStopped` (`StoppedForTheDay`). A process's snapshot is the file of the stamp
  it was read at, until somebody moves the stamp. Once the calls of a day reach the
  limit nobody passes who did not pass before, so what bounds the calls beyond the
  limit is the number of the processes that had passed: the invariant counts those
  together with the calls. After a damaged file the entry that stops the day takes the
  place of the calls that can no longer be read. `ProcsAssumption` says that the
  processes are finitely many.
* `Stores_proofs`, `Captures`: `CapturesTypeCorrect`, `OneOfEach` (`CapturedOnce`),
  `ShownIsDecided` (`DecidedAsShown`). The token that a reviewer holds stands for all
  that was shown, as long as it matches, and a title enters the graph only where no
  live node has it, in the transaction that looks.
* `Stores_proofs`, `Schema`: `SchemaTypeCorrect`, `OpensCurrent` (`OpenIsCurrent`),
  `RecoveryKept` (`Recoverable`), `MigratesOnce` (`MigratedOnce`). A file that has a
  stamp only gains tables and changes, and the stamp says which it has. A file without
  one keeps the shape it was found in until a snapshot of it is complete. Only who
  holds the migration lock changes either, and a process looks again under the lock,
  so a plan made before it is of use only if nobody migrated in between. An identity
  once on disk stays, so whoever has read one has that one; an open that found the graph
  busy has none, which is all that is promised of it (`WorksOK`).
  `StoresAssumption` says which files may be found.
* `Stores_proofs`, `Archive`: `ArchiveTypeCorrect`, `EverythingPreserved`
  (`NothingLost`), with the hypothesis `~SameSecond` that no two rotations fall in one
  second: without it `Archive_rotation` refutes `NothingLost`. The files have no common lock,
  so a process clears what it read earlier, and from a file that may have another name
  by then; the invariant therefore counts. Every node and edge that nobody deleted is
  in at least as many files as there are restores that will take it out of one
  (`Covers`), and in more when it is not in the graph, or is copied and about to leave
  it (`Exceeds`). A copy adds a file before the graph lets go, a restore owes one
  only once the graph has it, and a clearing takes one away with the debt.
* `Queues_proofs`, `Grading`: `GradingTypeCorrect`, `NoStopForgotten`
  (`StopsAnswered`), `PaidAgainIfForgotten` (`GradedAgainIfForgotten`). Only the holder
  of a conversation's marker pays for it, so the grades that were paid are at most those
  that were forgotten (a stamp written over, a grading that ended between its call and
  its stamp), and one more if the stamp is there or its writer is about to write it
  (`Money`). The queue has one entry for a conversation, and it is for its last
  stop; a drain at work has each entry that it leased still before it, among those it
  will retry, or answered (`Provided`), so what it takes out at its end was answered,
  and what a stop has put in meanwhile stays (`Queued`).
* `Queues_proofs`, `Embeddings`: `EmbeddingsTypeCorrect`, `RefreshesKept`
  (`StaleIsQueued`), for any number of writers and drains. No call or outcome of a drain
  stands for a version above that of the text (`Below`); a node that a deletion has in
  hand has no text (`Writing`); what a drain did for the version the text still has is
  in the vector, or terminal, or the node is one that an older answer has cost its
  refresh (`DrainOK`). So what a drain takes off the queue at its end, whatever others
  have written meanwhile, needs no refresh or is known to have lost it, and a write
  that takes anything else off is the one that says so.
* `Queues_proofs`, `Alerts`: `AlertsTypeCorrect`, `ShowsOncePerCooldown`
  (`ShownOncePerCooldown`). The showings of an alert are counted against the periods of
  the cooldown that had begun when it was last recorded, one more under a claim that
  holds, and one for each claim that lapsed with its process (`ShownAt`). Who submits
  has the claim, for a period that nothing was recorded for.
* `Queues_proofs`, `Reviews`: `ReviewsTypeCorrect`, `PaidOnlyOnce` (`PaidOnce`),
  `NoReviewLost` (`NoneLost`), `AdviceShownOnce` (`ShownOnce`), `ResultsReported`
  (`OutcomesReported`), all from one invariant (`ReviewsInv`). One worker works at a
  time (`OneWorks`); but it may have died after any step, so what was paid has to be
  read off the claim that it leaves: a claim whose phase is before a call says that the
  call was not paid (`ClaimSays`), and the place of a worker says which phase it finds
  and whether it has taken the claim over (`PlaceSays`). Of the tripped circuit the
  invariant counts cooldowns against calls: one is in hand while somebody is on the way
  to a call, and one more when the next may begin (`CreditKept`). A review waits, is
  claimed or has ended, once (`WaitsOrEnded`); parking keeps that only because no two
  of a conversation wait and none older than the claimed one (`OneWaits`), so that the
  parked one is what a newer one replaces and never the reverse. Advice that was taken
  or shown is marked so and waits no more (`AdviceKept`). A receipt has room for the
  last review of a conversation only: the next acknowledgement may overwrite it because
  nobody claims before health was told, or refused, all that is due (`ReportsDue`).

The queues' entries are selected by `Filters.Where`, a recursive function: its lemmas
(what it keeps, in which order, and that nothing is twice) rest on the unfolding of the
function and on well-founded induction over a set of numbers, which needs no operator
as a parameter.

Assumptions on constants that the proofs needed, and why the code justifies them: the
processes, texts and problems are finitely many (there is a machine); `"free"`,
`"nobody"` and `None` are not the names of processes or results, as they stand for the
absence of one.

Only model-checked: all liveness, which is beyond the prover used.

## What is not modelled

Text, titles, tags and ranking; a merge that rewrites the target's text from what it
read (`mcp_server.py:2892`: an edit in between is lost, and nothing promises
otherwise); a clock that jumps; deletion of reminders; the agents' own processes;
parsing and rendering. Of the embeddings, new and restored nodes (queued as an edited
one is), `enqueue_reindex` and `reindex_now`, which find stale nodes and queue or
embed them again, chunks and the configuration's fingerprint. Inside the modules
listed above: of `Schema` the rotation of snapshots, the repair of drifted
columns (`store.py:1589-1629`) and the narrowing of triggers (`:661-686`); of `Ledger` weekly and monthly limits, reservations and files
that cannot be looked at; of `Archive` the credential check, rows of an older layout
and the choice by weight; of `Reviews` cadence and retention.

Most of the implementation's lines are not about state at all: the command line, the
MCP surface, retrieval, answering and rendering parse, score and print. Their steps
change nothing that another step depends on, or change it through a component that is
modelled, and a model of a score would restate it. The components listed as not
modelled in `PROJECT.json` carry their reason there.

## Plan

Done: all modules above and the proofs of `NodeLocks`, `Tasks`, `TaskService`,
`Coordination`, `Reminders`, `Sessions`, `KinMerge`, `Ledger`, `Captures`, `Schema`,
`Archive`, `Grading`, `Embeddings`, `Alerts` and `Reviews`. Next, in this order:

1. Liveness of `Reminders`: a run that died does not keep its reminder, and one
   reminder that fails does not keep the others.
2. The cron pass (`daemon.py:276-648`) as a composition of the sweeps and drains,
   with a step that fails; the judge's queue of `attention.py`.
