------------------------------- MODULE Schema -------------------------------
(***************************************************************************)
(* Opening a graph: creation, schema migration with its recovery snapshot, *)
(* the stamp of the profile and the identity of the graph (store.py from   *)
(* Store.conn to Store._migrate_v16, snapshots.py).                        *)
(*                                                                         *)
(* Every process that opens the file looks at it first without a lock,     *)
(* takes the migration lock when something is to be done, looks again and  *)
(* then changes the file in several transactions.  It may die between any  *)
(* two of them; SQLite then frees the lock.                                *)
(***************************************************************************)
EXTENDS Naturals, FiniteSets

CONSTANTS
    Openers,       \* processes
    Versions,      \* 1 to the largest SCHEMA_VERSION of a build
    FirstStamped,  \* from here on each migration stamps its version (8)
    ScriptVersion, \* the one that runs a script of its own (11)
    CurrentShape,  \* the version whose column tells a current store (13)
    BuildOf,       \* SCHEMA_VERSION of the build that each process runs
    MayMigrate,    \* the processes that may: hooks may not
    Profiles,
    ProfileOf,     \* the active profile of each process
    Stores,        \* what may be found on disk at first
    OpenFaults     \* bounds deaths, busy databases and lost waits

ASSUME VersionsAssumption ==
    /\ Versions \subseteq Nat \ {0} /\ 1 \in Versions
    /\ \A v \in Versions : 1..v \subseteq Versions
    /\ BuildOf \in [Openers -> Versions]
    /\ ProfileOf \in [Openers -> SUBSET Profiles]

\* nodes and meta say that the tables are there, stamp is schema_version with 0
\* for no row, shape the migrations whose change is in the tables, recovery the
\* snapshot that meta names.
Files ==
    [nodes : BOOLEAN, meta : BOOLEAN, stamp : {0} \cup Versions,
     shape : SUBSET Versions, recovery : SUBSET SUBSET Versions,
     profile : SUBSET Profiles, identity : SUBSET Openers]

\* A stamp is a row of meta, a store that is stamped has the changes of all versions
\* up to its stamp and no later one that would be stamped too, and one without a
\* stamp and without the current shape is from before the stamps (store.py:530).
ASSUME StoresAssumption ==
    /\ Stores \subseteq Files
    /\ \A s \in Stores :
         /\ IF s.nodes THEN 1 \in s.shape ELSE s.shape = {}
         /\ s.stamp # 0 => s.meta /\ 1..s.stamp \subseteq s.shape
         /\ \A v \in s.shape : v >= FirstStamped /\ v # ScriptVersion =>
              IF s.stamp = 0 THEN CurrentShape \in s.shape ELSE v <= s.stamp
ASSUME FaultsAssumption == FirstStamped \in Nat /\ OpenFaults \in Nat

VARIABLES
    db,          \* the database file
    lock,        \* who holds the migration lock
    open,        \* where each process is in Store.conn
    snapshots,   \* the complete recovery snapshots: the shape of each
    mishaps,     \* deaths and faults so far
    found,       \* history: what was on disk at first
    skipped      \* history: migrations whose failure was passed over

schemaVars == <<db, lock, open, snapshots, mishaps, found, skipped>>

-----------------------------------------------------------------------------
(* Processes *)

\* hasMeta and hasNodes are what was read before the lock, plan is what the
\* process took the lock for, next is the migration that comes next, copy the
\* shape of the snapshot it took, identity the one it read.
NotOpen == [at |-> "closed", hasMeta |-> FALSE, hasNodes |-> FALSE, plan |-> "none",
           next |-> 0, copy |-> {}, identity |-> {}]

Steps == {"closed", "nodes", "version", "wait", "check", "snapshot", "meta", "stamp",
          "record", "migrate", "script", "log", "profile", "bind", "identity", "agree", "open"}
Plans == {"none", "unstamped", "ancient", "versioned", "fresh"}

Opens ==
    [at : Steps, hasMeta : BOOLEAN, hasNodes : BOOLEAN, plan : Plans, next : Nat,
     copy : SUBSET SUBSET Versions, identity : SUBSET Openers]

At(p, step) == open[p].at = step
Moves(p, step) == open' = [open EXCEPT ![p].at = step]
Frees(p) == lock' = lock \ {p}

SchemaInit ==
    /\ db \in Stores
    /\ lock = {}
    /\ open = [p \in Openers |-> NotOpen]
    /\ snapshots = {}
    /\ mishaps = 0
    /\ found = db
    /\ skipped = {}

\* A process that fails closes its connection; one that dies does so anyway.
Fails(p) == open' = [open EXCEPT ![p] = NotOpen] /\ Frees(p)

Die(p) ==
    /\ ~At(p, "closed") /\ mishaps < OpenFaults
    /\ mishaps' = mishaps + 1
    /\ Fails(p)
    /\ UNCHANGED <<db, snapshots, found, skipped>>

Leaves(p) ==
    /\ At(p, "open")
    /\ Fails(p)
    /\ UNCHANGED <<db, snapshots, mishaps, found, skipped>>

-----------------------------------------------------------------------------
(* The look without a lock: three reads                                     *)

LookMeta(p) ==
    /\ At(p, "closed")
    /\ open' = [open EXCEPT ![p].at = "nodes", ![p].hasMeta = db.meta]
    /\ UNCHANGED <<db, lock, snapshots, mishaps, found, skipped>>

LookNodes(p) ==
    /\ At(p, "nodes")
    /\ open' = [open EXCEPT ![p].at = "version", ![p].hasNodes = db.nodes]
    /\ UNCHANGED <<db, lock, snapshots, mishaps, found, skipped>>

Plan(p) ==
    LET seen == open[p] IN
    CASE seen.hasMeta /\ db.stamp = 0 /\ seen.hasNodes -> "unstamped"
      [] seen.hasMeta /\ db.stamp # 0 -> "versioned"
      [] ~seen.hasMeta /\ db.nodes -> "ancient"
      [] OTHER -> "fresh"

\* A store that is current needs no lock, one that is newer than the build is
\* refused, and a process that must not migrate leaves the others alone.  A
\* process that looks again under its own lock would wait for itself, until the
\* wait times out.
LookVersion(p) ==
    /\ At(p, "version")
    /\ LET plan == Plan(p) IN
       CASE plan = "versioned" /\ db.stamp = BuildOf[p] -> Moves(p, "profile") /\ Frees(p)
         [] \/ plan = "versioned" /\ db.stamp > BuildOf[p]
            \/ plan # "fresh" /\ p \notin MayMigrate
            \/ p \in lock -> Fails(p)
         [] OTHER -> open' = [open EXCEPT ![p].at = "wait", ![p].plan = plan] /\ UNCHANGED lock
    /\ UNCHANGED <<db, snapshots, mishaps, found, skipped>>

\* Store._schema_migration_lock: an exclusive transaction on a database of its
\* own; who waits too long gives up.
LockFreeAlways == TRUE
LockFree == lock = {}

Lock(p) ==
    /\ At(p, "wait") /\ LockFree
    /\ lock' = lock \cup {p}
    /\ Moves(p, "check")
    /\ UNCHANGED <<db, snapshots, mishaps, found, skipped>>

GiveUp(p) ==
    /\ At(p, "wait") /\ ~LockFree /\ mishaps < OpenFaults
    /\ mishaps' = mishaps + 1
    /\ Fails(p)
    /\ UNCHANGED <<db, snapshots, found, skipped>>

-----------------------------------------------------------------------------
(* Under the lock *)

HasCurrentShape == CurrentShape \in db.shape

\* Store._create_fresh_schema: one transaction, which also finishes what an
\* earlier build created in part.
Created(p) == [db EXCEPT !.nodes = TRUE, !.meta = TRUE, !.stamp = BuildOf[p], !.shape = 1..BuildOf[p]]

CreateFresh(p) ==
    /\ At(p, "check")
    /\ \/ open[p].plan = "fresh" /\ (~db.meta \/ db.stamp = 0)
       \/ open[p].plan = "unstamped" /\ db.stamp = 0 /\ HasCurrentShape
       \/ open[p].plan = "ancient" /\ ~db.meta /\ HasCurrentShape
    /\ db' = Created(p)
    /\ Moves(p, "profile") /\ Frees(p)
    /\ UNCHANGED <<snapshots, mishaps, found, skipped>>

\* Somebody else created it meanwhile: look again.
CreatedMeanwhile(p) ==
    /\ At(p, "check") /\ open[p].plan = "fresh" /\ db.meta /\ db.stamp # 0
    /\ open' = [open EXCEPT ![p] = [NotOpen EXCEPT !.at = "version", !.hasMeta = TRUE, !.hasNodes = db.nodes]]
    /\ UNCHANGED <<db, lock, snapshots, mishaps, found, skipped>>

StampFirst(p) ==
    /\ At(p, "check") /\ open[p].plan = "unstamped" /\ db.stamp = 0 /\ ~HasCurrentShape
    /\ db' = [db EXCEPT !.stamp = 1]
    /\ open' = [open EXCEPT ![p].plan = "versioned"]
    /\ UNCHANGED <<lock, snapshots, mishaps, found, skipped>>

\* The version is read again: the first look may be out of date.
Recheck(p) ==
    /\ At(p, "check")
    /\ \/ open[p].plan = "versioned"
       \/ open[p].plan = "unstamped" /\ db.stamp # 0
       \/ open[p].plan = "ancient" /\ db.meta
    /\ CASE db.stamp = 0 \/ db.stamp > BuildOf[p] -> Fails(p)
         [] db.stamp = BuildOf[p] -> Moves(p, "profile") /\ Frees(p)
         [] OTHER -> open' = [open EXCEPT ![p].at = "snapshot", ![p].plan = "versioned",
                                          ![p].next = db.stamp + 1] /\ UNCHANGED lock
    /\ UNCHANGED <<db, snapshots, mishaps, found, skipped>>

RecheckAncient(p) ==
    /\ At(p, "check") /\ open[p].plan = "ancient" /\ ~db.meta /\ ~HasCurrentShape
    /\ open' = [open EXCEPT ![p].at = "snapshot", ![p].next = 2]
    /\ UNCHANGED <<db, lock, snapshots, mishaps, found, skipped>>

\* snapshots._snapshot_connection_to_dir: written under another name, validated
\* and renamed; these snapshots are never rotated away.
Snapshot(p) ==
    /\ At(p, "snapshot")
    /\ snapshots' = snapshots \cup {db.shape}
    /\ open' = [open EXCEPT ![p].at = IF open[p].plan = "ancient" THEN "meta" ELSE "record",
                            ![p].copy = {db.shape}]
    /\ UNCHANGED <<db, lock, mishaps, found, skipped>>

CreateMeta(p) ==
    /\ At(p, "meta")
    /\ db' = [db EXCEPT !.meta = TRUE]
    /\ Moves(p, "stamp")
    /\ UNCHANGED <<lock, snapshots, mishaps, found, skipped>>

StampAncient(p) ==
    /\ At(p, "stamp")
    /\ db' = [db EXCEPT !.stamp = 1]
    /\ Moves(p, "record")
    /\ UNCHANGED <<lock, snapshots, mishaps, found, skipped>>

RecordNothing(p) == db
Recorded(p) == [db EXCEPT !.recovery = open[p].copy]

RecordRecovery(p) ==
    /\ At(p, "record")
    /\ db' = Recorded(p)
    /\ Moves(p, "migrate")
    /\ UNCHANGED <<lock, snapshots, mishaps, found, skipped>>

-----------------------------------------------------------------------------
(* Store._migrate_schema, one migration after the other                     *)

Comes(p, v) == At(p, "migrate") /\ open[p].next = v /\ v <= BuildOf[p]
Passes(p) == open' = [open EXCEPT ![p].next = @ + 1, ![p].at = "migrate"]

\* The migrations before v8 stamp nothing and pass over a failure as if the
\* change were there already.
MigrateUnstamped(p, v) ==
    /\ Comes(p, v) /\ v < FirstStamped
    /\ db' = [db EXCEPT !.shape = @ \cup {v}]
    /\ Passes(p)
    /\ UNCHANGED <<lock, snapshots, mishaps, found, skipped>>

PassOver(p, v) ==
    /\ Comes(p, v) /\ v < FirstStamped /\ mishaps < OpenFaults
    /\ mishaps' = mishaps + 1
    /\ skipped' = skipped \cup ({v} \ db.shape)
    /\ Passes(p)
    /\ UNCHANGED <<db, lock, snapshots, found>>

\* The later ones change the tables, verify the change and stamp their own
\* version in one transaction.
StampTarget(p, v) == BuildOf[p]
StampOwn(p, v) == v

MigrateStamped(p, v) ==
    /\ Comes(p, v) /\ v >= FirstStamped /\ v # ScriptVersion
    /\ db' = [db EXCEPT !.shape = @ \cup {v}, !.stamp = StampOwn(p, v)]
    /\ Passes(p)
    /\ UNCHANGED <<lock, snapshots, mishaps, found, skipped>>

\* Python commits before it runs a script, so that v11 is two transactions.
MigrateScript(p, v) ==
    /\ Comes(p, v) /\ v >= FirstStamped /\ v = ScriptVersion
    /\ db' = [db EXCEPT !.shape = @ \cup {v}]
    /\ Moves(p, "script")
    /\ UNCHANGED <<lock, snapshots, mishaps, found, skipped>>

StampScript(p) ==
    /\ At(p, "script")
    /\ db' = [db EXCEPT !.stamp = StampOwn(p, open[p].next)]
    /\ Passes(p)
    /\ UNCHANGED <<lock, snapshots, mishaps, found, skipped>>

\* The activity log gets a line, or a warning is written when that fails.
MigrationEnds(p) ==
    /\ At(p, "migrate") /\ open[p].next > BuildOf[p]
    /\ Moves(p, "profile") /\ Frees(p)
    /\ UNCHANGED <<db, snapshots, mishaps, found, skipped>>

-----------------------------------------------------------------------------
(* The profile and the identity *)

\* Store._check_profile_stamp reads, and binds an unbound graph.
CheckProfile(p) ==
    /\ At(p, "profile")
    /\ CASE ProfileOf[p] = {} \/ db.profile = ProfileOf[p] -> Moves(p, "identity") /\ UNCHANGED lock
         [] db.profile = {} /\ ProfileOf[p] # {} -> Moves(p, "bind") /\ UNCHANGED lock
         [] OTHER -> Fails(p)
    /\ UNCHANGED <<db, snapshots, mishaps, found, skipped>>

BindProfile(p) ==
    /\ At(p, "bind")
    /\ db' = [db EXCEPT !.profile = ProfileOf[p]]
    /\ Moves(p, "identity")
    /\ UNCHANGED <<lock, snapshots, mishaps, found, skipped>>

\* Store._ensure_graph_identity: insert unless there is one, then read.
CheckIdentity(p) ==
    /\ At(p, "identity")
    /\ open' = [open EXCEPT ![p].at = IF db.identity = {} THEN "agree" ELSE "open",
                            ![p].identity = db.identity]
    /\ UNCHANGED <<db, lock, snapshots, mishaps, found, skipped>>

ReplacedIdentity(p) == {p}
KeptIdentity(p) == IF db.identity = {} THEN {p} ELSE db.identity

AgreeIdentity(p) ==
    /\ At(p, "agree")
    /\ db' = [db EXCEPT !.identity = KeptIdentity(p)]
    /\ open' = [open EXCEPT ![p].at = "open", ![p].identity = KeptIdentity(p)]
    /\ UNCHANGED <<lock, snapshots, mishaps, found, skipped>>

\* Another process is writing: an open does not wait for it and goes on without an
\* identity, and a caller that needs one gets an error and has its connection still.
AgreeBusy(p) ==
    /\ At(p, "agree") /\ mishaps < OpenFaults
    /\ mishaps' = mishaps + 1
    /\ Moves(p, "open")
    /\ UNCHANGED <<db, lock, snapshots, found, skipped>>

\* Store.ensure_graph_identity: who went on without one asks again when it needs it.
AsksIdentity(p) ==
    /\ At(p, "open") /\ open[p].identity = {}
    /\ Moves(p, "identity")
    /\ UNCHANGED <<db, lock, snapshots, mishaps, found, skipped>>

GoesOn(p) ==
    \/ LookNodes(p) \/ LookVersion(p) \/ Lock(p)
    \/ CreateFresh(p) \/ CreatedMeanwhile(p) \/ StampFirst(p) \/ Recheck(p) \/ RecheckAncient(p)
    \/ Snapshot(p) \/ CreateMeta(p) \/ StampAncient(p) \/ RecordRecovery(p)
    \/ \E v \in Versions : MigrateUnstamped(p, v) \/ MigrateStamped(p, v) \/ MigrateScript(p, v)
    \/ StampScript(p) \/ MigrationEnds(p)
    \/ CheckProfile(p) \/ BindProfile(p) \/ CheckIdentity(p) \/ AgreeIdentity(p)

SchemaNext ==
    \E p \in Openers :
        \/ LookMeta(p) \/ GoesOn(p) \/ AsksIdentity(p) \/ Leaves(p)
        \/ Die(p) \/ GiveUp(p) \/ AgreeBusy(p) \/ \E v \in Versions : PassOver(p, v)

SchemaSpec == SchemaInit /\ [][SchemaNext]_schemaVars

-----------------------------------------------------------------------------
(* Properties *)

\* The file and the processes are in states of the code; a process works under
\* the lock only when it holds it.
SchemaTypeOK ==
    /\ db \in Files /\ found \in Stores
    /\ lock \subseteq Openers
    /\ open \in [Openers -> Opens]
    /\ snapshots \subseteq SUBSET Versions
    /\ mishaps \in 0..OpenFaults
    /\ skipped \subseteq Versions

Covered == db.shape \cup skipped
Usable(p) == open[p].at \in {"profile", "bind", "identity", "agree", "open"}

\* A process that has got its connection finds every change that its build relies
\* on, whoever is migrating or has died while migrating, except what a failure
\* before v8 was passed over for (store.py: Store._init_schema); and all processes
\* that have read an identity of the graph have the one that is in the file (store.py:
\* Store._ensure_graph_identity, concurrent first opens agree).  One that found the
\* graph busy has none (store.py:442).
OpenIsCurrent ==
    \A p \in Openers :
        /\ Usable(p) => 1..BuildOf[p] \subseteq Covered
        /\ At(p, "open") => open[p].identity \in {{}, db.identity}

\* Before a migration changes a table, a complete snapshot of the shape that was
\* found is on disk, whatever attempts died, and meta names a complete one
\* (docs/human-guide.md:174).  A creation that is finished needs none.
Unfinished == found.stamp = 0 /\ CurrentShape \in found.shape
Recoverable ==
    \/ db.shape = found.shape \/ found.shape = {} \/ Unfinished
    \/ found.shape \in snapshots /\ db.recovery # {} /\ db.recovery \subseteq snapshots

\* Of two processes that find the same old store one migrates it: no change that
\* cannot be repeated is made to a store that has it (docs/human-guide.md:179).
MigratedOnce ==
    [][\A p \in Openers, v \in Versions : MigrateStamped(p, v) => v \notin db.shape]_schemaVars

\* store.py:1633 (schema_drift): a table that is absent is not drift, a migration
\* will create it.  Refuted: a migration before v8 that fails, because another
\* process has the database, is passed over, and v8 stamps the store all the same.
AbsentIsMigrated == db.stamp # 0 => 1..db.stamp \subseteq db.shape

\* store.py:1246: v11 is atomic.  Refuted: its script is committed before the stamp.
StampedAtOnce ==
    [][\A v \in Versions : v >= FirstStamped /\ v \in db'.shape \ db.shape => db'.stamp >= v]_schemaVars

\* store.py:479: an existing mismatched profile stamp hard-refuses.  Refuted: two
\* profiles that open an unstamped graph both find no stamp, and the later one
\* replaces the stamp of the earlier, which goes on with the graph.
ProfileBound ==
    \A p \in Openers : At(p, "open") => ProfileOf[p] = {} \/ db.profile = ProfileOf[p]
=============================================================================
