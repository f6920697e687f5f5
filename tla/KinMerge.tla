------------------------------ MODULE KinMerge ------------------------------
(* The merge driver of the files that git tracks (kin_merge.py).  Two       *)
(* branches edit the files, and each merges the other from time to time,    *)
(* from the commit they have in common: the tip of the other at the last    *)
(* merge.  Git takes a file that one branch alone has changed as it is, and *)
(* calls the driver for the others (external).  A file is what it holds     *)
(* under each id.  Records of .kin/index.json carry the time of their last  *)
(* change, of which the later is picked; of two records of                  *)
(* .kin/code-map.json ours is; other top-level fields have their own rule.  *)
(*                                                                          *)
(* Left out: layers and tours, which the code map recomputes, the order of  *)
(* the output, and the refusal of a newer schema.                           *)
EXTENDS Integers

CONSTANTS
    RecordIds,      \* ids of records
    FieldNames,     \* names of other top-level fields
    Bodies,         \* what either may say
    MaxEdits        \* bounds the edits, and with them the time

ASSUME KinMergeAssumption ==
    MaxEdits \in Nat /\ RecordIds \cap FieldNames = {}

VARIABLES
    base,           \* the files of the commit the branches have in common
    branch,         \* side |-> its files
    time,
    latest,         \* record of the index |-> the time of its last change
    gone            \* record of the index |-> the changes that a deletion has seen

kinVars == <<base, branch, time, latest, gone>>

-----------------------------------------------------------------------------
Sides == {"ours", "theirs"}
Other(side) == IF side = "ours" THEN "theirs" ELSE "ours"

\* Nothing under an id; what no edit has touched has stamp 0.
NoRecord == [stamp |-> -1, body |-> "absent"]
Snapshots(ids) == [ids -> [stamp : Nat, body : Bodies] \cup {NoRecord}]
Ids == RecordIds \cup FieldNames
KinFiles == [index : Snapshots(Ids), codeMap : Snapshots(Ids)]

\* Mutant: of two records ours is picked, as in the code map.
NewerOurs(x, y) == x

\* Of a tie, ours.
Newer(x, y) == IF y.stamp > x.stamp THEN y ELSE x

\* What one side alone has is new or changed there, and stays; unchanged, it
\* was deleted on the other side.
Alone(o, x) == IF x = o THEN NoRecord ELSE x

MergeRecord(o, x, y, picked) ==
    IF x # NoRecord /\ y # NoRecord THEN picked
    ELSE IF x # NoRecord THEN Alone(o, x)
    ELSE Alone(o, y)

\* A field that only their side changed is theirs.
Changed(o, x, y) == IF x = o THEN y ELSE x

MergeIndex(o, a, b) ==
    [k \in Ids |-> MergeRecord(o[k], a[k], b[k],
        IF k \in FieldNames THEN Changed(o[k], a[k], b[k]) ELSE Newer(a[k], b[k]))]

MergeCodeMap(o, a, b) ==
    [k \in Ids |-> MergeRecord(o[k], a[k], b[k],
        IF k \in FieldNames THEN Changed(o[k], a[k], b[k]) ELSE a[k])]

\* Git calls the driver when both sides have changed a file.
Driven(o, a, b, driver) == IF a = o THEN b ELSE IF b = o THEN a ELSE driver

-----------------------------------------------------------------------------
KinMergeInit ==
    /\ base \in [index : [Ids -> [stamp : {0}, body : Bodies] \cup {NoRecord}],
                 codeMap : [Ids -> [stamp : {0}, body : Bodies] \cup {NoRecord}]]
    /\ branch = [side \in Sides |-> base]
    /\ time = 0
    /\ latest = [k \in RecordIds |-> base.index[k].stamp]
    /\ gone = [k \in RecordIds |-> {}]

\* Every edit has a time of its own; only records of the index say it.
EditIndex(side, k, body) ==
    /\ time < MaxEdits
    /\ time' = time + 1
    /\ branch' = [branch EXCEPT ![side].index[k] =
          [stamp |-> IF k \in RecordIds THEN time + 1 ELSE 0, body |-> body]]
    /\ latest' = IF k \in RecordIds THEN [latest EXCEPT ![k] = time + 1] ELSE latest
    /\ UNCHANGED <<base, gone>>

EditCodeMap(side, k, body) ==
    /\ time < MaxEdits
    /\ time' = time + 1
    /\ branch' = [branch EXCEPT ![side].codeMap[k] = [stamp |-> 0, body |-> body]]
    /\ UNCHANGED <<base, latest, gone>>

DeleteIndex(side, k) ==
    /\ time < MaxEdits /\ branch[side].index[k] # NoRecord
    /\ time' = time + 1
    /\ branch' = [branch EXCEPT ![side].index[k] = NoRecord]
    /\ gone' = IF k \in RecordIds
               THEN [gone EXCEPT ![k] = @ \cup {branch[side].index[k].stamp}] ELSE gone
    /\ UNCHANGED <<base, latest>>

DeleteCodeMap(side, k) ==
    /\ time < MaxEdits /\ branch[side].codeMap[k] # NoRecord
    /\ time' = time + 1
    /\ branch' = [branch EXCEPT ![side].codeMap[k] = NoRecord]
    /\ UNCHANGED <<base, latest, gone>>

\* A branch merges the tip of the other, which is then what they share.
Merge(side) ==
    /\ LET mine == branch[side]
           other == branch[Other(side)]
       IN  /\ branch' = [branch EXCEPT ![side] =
                 [index |-> Driven(base.index, mine.index, other.index,
                                   MergeIndex(base.index, mine.index, other.index)),
                  codeMap |-> Driven(base.codeMap, mine.codeMap, other.codeMap,
                                     MergeCodeMap(base.codeMap, mine.codeMap, other.codeMap))]]
           /\ base' = other
    /\ UNCHANGED <<time, latest, gone>>

KinMergeNext ==
    \E side \in Sides :
        \/ Merge(side)
        \/ \E k \in Ids :
              \/ DeleteIndex(side, k) \/ DeleteCodeMap(side, k)
              \/ \E body \in Bodies : EditIndex(side, k, body) \/ EditCodeMap(side, k, body)

KinMergeSpec == KinMergeInit /\ [][KinMergeNext]_kinVars

-----------------------------------------------------------------------------
KinMergeTypeOK ==
    /\ base \in KinFiles
    /\ branch \in [Sides -> KinFiles]
    /\ time \in 0..MaxEdits
    /\ latest \in [RecordIds -> {-1} \cup Nat]
    /\ gone \in [RecordIds -> SUBSET Nat]

\* Through any sequence of edits, deletions and merges in both directions, the
\* last change of a record of the index stays on a branch, unless a branch that
\* had seen that change deleted the record.
LatestKept ==
    \A k \in RecordIds :
        latest[k] \notin gone[k] => \E side \in Sides : branch[side].index[k].stamp = latest[k]

=============================================================================
