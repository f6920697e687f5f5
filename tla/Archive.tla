------------------------------- MODULE Archive -------------------------------
(* The slow archive (archive.py): nodes that have decayed leave the graph   *)
(* for SQLite files beside it, and come back when a person restores them.   *)
(* The graph has one write lock; the archive files have no common one.  An  *)
(* archive cycle (cron, `kin archive run`) copies a node under the graph's  *)
(* lock, commits the copy and then the deletion; a restore does it the      *)
(* other way round.  Either may die between two commits.                    *)
(*                                                                          *)
(* A file is an inode: a connection keeps the inode it opened when another  *)
(* process renames the file.  Left out: the credential check, rows of an    *)
(* older layout, the summary columns, weights and ages (a node is dormant   *)
(* when the cycle may move it).                                             *)
EXTENDS Integers, FiniteSets, Sequences, FiniteSetsExt

CONSTANTS
    Kept,           \* ids of nodes
    Completed,      \* those of them that are session tags
    Joins,          \* edge id |-> the two ends
    Hands,          \* processes that archive and restore
    MaxStamp,       \* seconds in which a file may be rotated
    SameSecond,     \* whether two rotations may fall in one second
    MaxDeaths       \* processes that may die

ASSUME ArchiveAssumption ==
    /\ Completed \subseteq Kept
    /\ \A e \in DOMAIN Joins : Joins[e] \subseteq Kept
    /\ MaxStamp \in Nat \ {0} /\ MaxDeaths \in Nat
    /\ SameSecond \in BOOLEAN

VARIABLES
    graph,          \* node id |-> "live", "dormant" or "absent" in the graph
    joined,         \* ids of the edges in the graph
    minted,         \* ids of the edges ever made (AUTOINCREMENT)
    inode,          \* what each archive file holds, in the order of their creation
    name,           \* name |-> inode; the name of a rotated file is its second
    moment,         \* the clock
    hand,           \* process |-> what it is doing
    erased,         \* what people have deleted
    deaths

archiveVars == <<graph, joined, minted, inode, name, moment, hand, erased, deaths>>

-----------------------------------------------------------------------------
HandIdle == [at |-> "idle"]

\* current.db sorts after the stamped names.
Current == MaxStamp + 1
Names == 1..Current
NoFile == 0
Empty == [nodes |-> {}, edges |-> {}, since |-> moment]

EdgesOf(n) == {e \in DOMAIN Joins : n \in Joins[e]}
OnDisk == {name[f] : f \in Names} \ {NoFile}
ArchivedNodes == UNION {inode[i].nodes : i \in OnDisk}
ArchivedEdges == UNION {inode[i].edges : i \in OnDisk}

\* A move holds the graph's write lock from its first read to its last commit.
LockHeld == \E p \in Hands : hand[p].at = "copied"

\* A completed tag moves only while nothing is linked to it.
Movable(n) == graph[n] = "dormant" /\ (n \in Completed => joined \cap EdgesOf(n) = {})
Archivable == {n \in Kept : Movable(n)}

\* The files a collision check reads: its own connection stands for current.db.
Checked(p) ==
    ({name[f] : f \in Names \ {Current}} \ {NoFile})
        \cup (IF name[Current] = NoFile THEN {} ELSE {hand[p].file})
Collides(p, n) ==
    \E i \in Checked(p) :
        n \in inode[i].nodes \/ inode[i].edges \cap EdgesOf(n) \cap joined # {}

-----------------------------------------------------------------------------
ArchiveInit ==
    /\ graph = [n \in Kept |-> "dormant"]
    /\ joined = {} /\ minted = {} /\ erased = {}
    /\ inode = <<>> /\ name = [f \in Names |-> NoFile]
    /\ moment = 1
    /\ hand = [p \in Hands |-> HandIdle] /\ deaths = 0

\* People, and the passes that let nodes decay.
Join(e) ==
    /\ ~LockHeld /\ e \notin minted
    /\ \A n \in Joins[e] : graph[n] # "absent"
    /\ joined' = joined \cup {e} /\ minted' = minted \cup {e}
    /\ UNCHANGED <<graph, inode, name, moment, hand, erased, deaths>>

EraseKept(n) ==
    /\ ~LockHeld /\ graph[n] # "absent"
    /\ graph' = [graph EXCEPT ![n] = "absent"]
    /\ joined' = joined \ EdgesOf(n)
    /\ erased' = erased \cup {n} \cup (joined \cap EdgesOf(n))
    /\ UNCHANGED <<minted, inode, name, moment, hand, deaths>>

Decay(n) ==
    /\ ~LockHeld /\ graph[n] = "live"
    /\ graph' = [graph EXCEPT ![n] = "dormant"]
    /\ UNCHANGED <<joined, minted, inode, name, moment, hand, erased, deaths>>

Elapse ==
    /\ moment < MaxStamp /\ moment' = moment + 1
    /\ UNCHANGED <<graph, joined, minted, inode, name, hand, erased, deaths>>

-----------------------------------------------------------------------------
\* The cycle lists what may move and finds the current file large or old,
\* which a file of this second is not.
ListArchivable(p) ==
    /\ hand[p] = HandIdle /\ Archivable # {}
    /\ \E old \in {TRUE, FALSE} :
          /\ old => name[Current] # NoFile /\ inode[name[Current]].since < moment
          /\ hand' = [hand EXCEPT ![p] =
                [at |-> IF old THEN "rotate" ELSE "open", list |-> Archivable]]
    /\ UNCHANGED <<graph, joined, minted, inode, name, moment, erased, deaths>>

\* A rename takes the place of a file that has the name.
RotatedName == moment
Rotate(p) ==
    /\ hand[p].at = "rotate"
    /\ SameSecond \/ name[RotatedName] = NoFile
    /\ name' = IF name[Current] = NoFile THEN name
               ELSE [name EXCEPT ![RotatedName] = name[Current], ![Current] = NoFile]
    /\ hand' = [hand EXCEPT ![p].at = "open"]
    /\ UNCHANGED <<graph, joined, minted, inode, moment, erased, deaths>>

OpenCurrent(p) ==
    /\ hand[p].at = "open"
    /\ LET created == name[Current] = NoFile
           file == IF created THEN Len(inode) + 1 ELSE name[Current]
       IN  /\ inode' = IF created THEN Append(inode, Empty) ELSE inode
           /\ name' = [name EXCEPT ![Current] = file]
           /\ hand' = [hand EXCEPT ![p] = [at |-> "move", list |-> @.list, file |-> file]]
    /\ UNCHANGED <<graph, joined, minted, moment, erased, deaths>>

Dropped(p, n) ==
    IF hand[p].list = {n} THEN HandIdle ELSE [hand[p] EXCEPT !.list = @ \ {n}]

\* A node that is gone, a tag that is in use again and a collision are passed
\* over; that another node is still dormant is not read again.
Skipped(p, n) ==
    \/ graph[n] = "absent"
    \/ n \in Completed /\ ~Movable(n)
    \/ Collides(p, n)

Skip(p, n) ==
    /\ hand[p].at = "move" /\ n \in hand[p].list /\ ~LockHeld
    /\ Skipped(p, n)
    /\ hand' = [hand EXCEPT ![p] = Dropped(p, n)]
    /\ UNCHANGED <<graph, joined, minted, inode, name, moment, erased, deaths>>

\* Mutant: a move copies the node alone.
CopiedAlone(file, n) == [file EXCEPT !.nodes = @ \cup {n}]

\* The copy is committed first.
Copied(file, n) ==
    [file EXCEPT !.nodes = @ \cup {n}, !.edges = @ \cup (EdgesOf(n) \cap joined)]

Copy(p, n) ==
    /\ hand[p].at = "move" /\ n \in hand[p].list /\ ~LockHeld
    /\ ~Skipped(p, n)
    /\ inode' = [inode EXCEPT ![hand[p].file] = Copied(@, n)]
    /\ hand' = [hand EXCEPT ![p] =
          [at |-> "copied", list |-> @.list, file |-> @.file, node |-> n]]
    /\ UNCHANGED <<graph, joined, minted, name, moment, erased, deaths>>

Moved(p) ==
    /\ hand[p].at = "copied"
    /\ LET n == hand[p].node IN
          /\ graph' = [graph EXCEPT ![n] = "absent"]
          /\ joined' = joined \ EdgesOf(n)
          /\ hand' = [hand EXCEPT ![p] =
                IF @.list = {n} THEN HandIdle
                ELSE [at |-> "move", list |-> @.list \ {n}, file |-> @.file]]
    /\ UNCHANGED <<minted, inode, name, moment, erased, deaths>>

-----------------------------------------------------------------------------
\* A restore reads the names and takes the first file, from the last name
\* down, that holds the node.
FindArchived(p, n) ==
    /\ hand[p] = HandIdle
    /\ LET named == {f \in Names : name[f] # NoFile}
           holding == {f \in named : n \in inode[name[f]].nodes}
       IN  /\ holding # {}
           /\ hand' = [hand EXCEPT ![p] =
                 [at |-> "found", node |-> n, names |-> named,
                  own |-> Max(holding), file |-> name[Max(holding)]]]
    /\ UNCHANGED <<graph, joined, minted, inode, name, moment, erased, deaths>>

\* The archived edges of the node in the file of this name now, whose other
\* end is in the graph.
Returning(f, n) ==
    IF name[f] = NoFile THEN {}
    ELSE {e \in inode[name[f]].edges \cap EdgesOf(n) :
             \A other \in Joins[e] \ {n} : graph[other] # "absent"}

\* A live node, or an edge that is live or comes twice, refuses the restore.
RestoreRefused(p) ==
    LET n == hand[p].node
        names == hand[p].names
    IN  \/ graph[n] # "absent"
        \/ \E f \in names : Returning(f, n) \cap joined # {}
        \/ \E f, g \in names : f # g /\ Returning(f, n) \cap Returning(g, n) # {}

RefuseRestore(p) ==
    /\ hand[p].at = "found" /\ ~LockHeld /\ RestoreRefused(p)
    /\ hand' = [hand EXCEPT ![p] = HandIdle]
    /\ UNCHANGED <<graph, joined, minted, inode, name, moment, erased, deaths>>

\* The graph has the node and those edges in one transaction.
Restore(p) ==
    /\ hand[p].at = "found" /\ ~LockHeld /\ ~RestoreRefused(p)
    /\ LET n == hand[p].node
           back == [f \in hand[p].names |-> Returning(f, n)]
       IN  /\ graph' = [graph EXCEPT ![n] = "live"]
           /\ joined' = joined \cup UNION {back[f] : f \in DOMAIN back}
           /\ hand' = [hand EXCEPT ![p] =
                 [at |-> "clear", node |-> n, own |-> @.own, file |-> @.file, back |-> back]]
    /\ UNCHANGED <<minted, inode, name, moment, erased, deaths>>

\* Only then do they leave the archive: the node, and the edges of the name it had
\* then, from the file it was read from, whose connection is still open; the other
\* edges from the file that has the name by now.
ClearNode(p) ==
    /\ hand[p].at = "clear"
    /\ inode' = [inode EXCEPT ![hand[p].file].nodes = @ \ {hand[p].node}]
    /\ hand' = [hand EXCEPT ![p] = [at |-> "edges", own |-> @.own, file |-> @.file, back |-> @.back]]
    /\ UNCHANGED <<graph, joined, minted, name, moment, erased, deaths>>

Cleared(p, f) == IF f = hand[p].own THEN hand[p].file ELSE name[f]

ClearEdges(p, f) ==
    /\ hand[p].at = "edges" /\ f \in DOMAIN hand[p].back
    /\ inode' = IF Cleared(p, f) = NoFile THEN inode
                ELSE [inode EXCEPT ![Cleared(p, f)].edges = @ \ hand[p].back[f]]
    /\ LET rest == DOMAIN hand[p].back \ {f}
       IN  hand' = [hand EXCEPT ![p] =
              IF rest = {} THEN HandIdle
              ELSE [at |-> "edges", own |-> @.own, file |-> @.file, back |-> [g \in rest |-> @.back[g]]]]
    /\ UNCHANGED <<graph, joined, minted, name, moment, erased, deaths>>

\* A process dies; its transaction on the graph is rolled back.
HandDies(p) ==
    /\ hand[p] # HandIdle
    /\ deaths < MaxDeaths /\ deaths' = deaths + 1
    /\ hand' = [hand EXCEPT ![p] = HandIdle]
    /\ UNCHANGED <<graph, joined, minted, inode, name, moment, erased>>

-----------------------------------------------------------------------------
ArchiveNext ==
    \/ \E e \in DOMAIN Joins : Join(e)
    \/ \E n \in Kept : EraseKept(n) \/ Decay(n)
    \/ Elapse
    \/ \E p \in Hands :
          \/ ListArchivable(p) \/ Rotate(p) \/ OpenCurrent(p) \/ Moved(p)
          \/ RefuseRestore(p) \/ Restore(p) \/ ClearNode(p) \/ HandDies(p)
          \/ \E n \in Kept : Skip(p, n) \/ Copy(p, n) \/ FindArchived(p, n)
          \/ \E f \in Names : ClearEdges(p, f)

ArchiveSpec == ArchiveInit /\ [][ArchiveNext]_archiveVars

-----------------------------------------------------------------------------
ArchiveTypeOK ==
    /\ graph \in [Kept -> {"live", "dormant", "absent"}]
    /\ joined \subseteq minted /\ minted \subseteq DOMAIN Joins
    /\ \A i \in DOMAIN inode : inode[i].nodes \subseteq Kept /\ inode[i].edges \subseteq minted
    /\ name \in [Names -> 0..Len(inode)]
    /\ moment \in 1..MaxStamp
    /\ DOMAIN hand = Hands
    /\ erased \subseteq Kept \cup minted

\* The archive preserves everything: whatever people have made and not deleted
\* is in the graph or in an archive file, wherever a process dies.
NothingLost ==
    /\ \A n \in Kept \ erased : graph[n] # "absent" \/ n \in ArchivedNodes
    /\ minted \ erased \subseteq joined \cup ArchivedEdges

=============================================================================
