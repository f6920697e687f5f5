--------------------------- MODULE Stores_proofs ---------------------------
(* What holds of the stores for any processes, rows and days: the merge of *)
(* .kin files (kin_merge.py), the cost ledger (budget.py), the review of   *)
(* captured candidates and the migration of the schema (store.py), and the *)
(* slow archive (archive.py).  Each part strengthens the properties of its *)
(* component until they are inductive and proves what follows from that.   *)
EXTENDS KinMerge, Ledger, Captures, Schema, Archive, FiniteSetTheorems,
        WellFoundedInduction, TLAPS

-----------------------------------------------------------------------------
(* The merge of .kin files.  A merge looks at both branches and at what    *)
(* they have in common, so the invariant says of the common commit what it *)
(* says of neither branch: if it has the last change of a record, both     *)
(* branches have, until one of them deletes it.                            *)

Records == [stamp : Nat, body : Bodies] \cup {NoRecord}
Stamps == {-1} \cup Nat

\* What a merge keeps of every record: no stamp is later than the last change,
\* some branch has that change, and the common commit has it only while both do.
HasLatest(k) ==
    /\ base.index[k].stamp <= latest[k]
    /\ \A side \in Sides : branch[side].index[k].stamp <= latest[k]
    /\ latest[k] \notin gone[k] =>
          /\ \E side \in Sides : branch[side].index[k].stamp = latest[k]
          /\ base.index[k].stamp = latest[k] =>
                \A side \in Sides : branch[side].index[k].stamp = latest[k]

KinInv ==
    /\ KinMergeTypeOK
    /\ \A k \in RecordIds : latest[k] <= time /\ HasLatest(k)

-----------------------------------------------------------------------------
\* A record has a stamp, and what is absent has one earlier than any other.
LEMMA RecordStamps ==
    ASSUME NEW x \in Records
    PROVE  x.stamp \in Stamps /\ (x = NoRecord <=> x.stamp = -1)
BY DEF Records, NoRecord, Stamps

\* MergeRecord picks one of the records it is given, or none.
LEMMA MergedRecord ==
    ASSUME NEW o \in Records, NEW x \in Records, NEW y \in Records, NEW p \in {x, y}
    PROVE  MergeRecord(o, x, y, p) \in {x, y, NoRecord}
BY DEF MergeRecord, Alone

\* The last change, on a side and on both if the base has it, is in the merge.
LEMMA MergedStamp ==
    ASSUME NEW o \in Records, NEW x \in Records, NEW y \in Records, NEW l \in Stamps,
           x.stamp <= l, y.stamp <= l, x.stamp = l \/ y.stamp = l,
           o.stamp = l => x.stamp = l /\ y.stamp = l
    PROVE  MergeRecord(o, x, y, Newer(x, y)).stamp = l
<1>1. x.stamp \in Stamps /\ y.stamp \in Stamps
  BY RecordStamps
<1>2. CASE x # NoRecord /\ y # NoRecord
  BY <1>1, <1>2 DEF MergeRecord, Newer, Stamps
<1>3. CASE x = NoRecord /\ y = NoRecord
  BY <1>3, RecordStamps DEF MergeRecord, Alone
<1>4. CASE x # NoRecord /\ y = NoRecord
  <2>1. x.stamp = l /\ o # x
    BY <1>1, <1>4, RecordStamps DEF Stamps
  <2> QED
    BY <1>4, <2>1 DEF MergeRecord, Alone
<1>5. CASE x = NoRecord /\ y # NoRecord
  <2>1. y.stamp = l /\ o # y
    BY <1>1, <1>5, RecordStamps DEF Stamps
  <2> QED
    BY <1>5, <2>1 DEF MergeRecord, Alone
<1> QED
  BY <1>2, <1>3, <1>4, <1>5

\* A tracked file is a snapshot, and stays one under either merge.
LEMMA MergesType ==
    ASSUME NEW o \in Snapshots(Ids), NEW a \in Snapshots(Ids), NEW b \in Snapshots(Ids)
    PROVE  /\ MergeIndex(o, a, b) \in Snapshots(Ids)
           /\ MergeCodeMap(o, a, b) \in Snapshots(Ids)
<1>1. \A k \in Ids : o[k] \in Records /\ a[k] \in Records /\ b[k] \in Records
  BY DEF Snapshots, Records
<1>2. \A k \in Ids : /\ Changed(o[k], a[k], b[k]) \in {a[k], b[k]}
                     /\ Newer(a[k], b[k]) \in {a[k], b[k]}
  BY DEF Changed, Newer
<1>3. NoRecord \in Records
  BY DEF Records
<1>4. \A k \in Ids : \A p \in {a[k], b[k]} : MergeRecord(o[k], a[k], b[k], p) \in Records
  BY <1>1, <1>3, MergedRecord
<1>5. MergeIndex(o, a, b) \in [Ids -> Records]
  BY <1>2, <1>4 DEF MergeIndex
<1>6. MergeCodeMap(o, a, b) \in [Ids -> Records]
  BY <1>2, <1>4 DEF MergeCodeMap
<1> QED
  BY <1>5, <1>6 DEF Snapshots, Records

\* So is what git leaves of a file when it calls the driver or does not.
LEMMA DrivenIndex ==
    ASSUME NEW o \in Snapshots(Ids), NEW a \in Snapshots(Ids), NEW b \in Snapshots(Ids),
           NEW k \in RecordIds, NEW l \in Stamps,
           a[k].stamp <= l, b[k].stamp <= l, a[k].stamp = l \/ b[k].stamp = l,
           o[k].stamp = l => a[k].stamp = l /\ b[k].stamp = l
    PROVE  Driven(o, a, b, MergeIndex(o, a, b))[k].stamp = l
<1>1. k \in Ids /\ k \notin FieldNames
  BY KinMergeAssumption DEF Ids
<1>2. o[k] \in Records /\ a[k] \in Records /\ b[k] \in Records
  BY <1>1 DEF Snapshots, Records
<1>3. CASE a = o
  BY <1>3 DEF Driven
<1>4. CASE a # o /\ b = o
  BY <1>4 DEF Driven
<1>5. CASE a # o /\ b # o
  <2>1. MergeIndex(o, a, b)[k] = MergeRecord(o[k], a[k], b[k], Newer(a[k], b[k]))
    BY <1>1 DEF MergeIndex
  <2>2. MergeRecord(o[k], a[k], b[k], Newer(a[k], b[k])).stamp = l
    BY <1>2, MergedStamp
  <2> QED
    BY <1>5, <2>1, <2>2 DEF Driven
<1> QED
  BY <1>3, <1>4, <1>5

\* The time of no record in a merge is later than the last change.
LEMMA DrivenBound ==
    ASSUME NEW o \in Snapshots(Ids), NEW a \in Snapshots(Ids), NEW b \in Snapshots(Ids),
           NEW k \in RecordIds, NEW l \in Stamps, a[k].stamp <= l, b[k].stamp <= l
    PROVE  Driven(o, a, b, MergeIndex(o, a, b))[k].stamp <= l
<1>1. k \in Ids /\ k \notin FieldNames
  BY KinMergeAssumption DEF Ids
<1>2. o[k] \in Records /\ a[k] \in Records /\ b[k] \in Records
  BY <1>1 DEF Snapshots, Records
<1>3. MergeIndex(o, a, b)[k] = MergeRecord(o[k], a[k], b[k], Newer(a[k], b[k]))
  BY <1>1 DEF MergeIndex
<1>4. MergeIndex(o, a, b)[k] \in {a[k], b[k], NoRecord}
  BY <1>2, <1>3, MergedRecord DEF Newer
<1>5. MergeIndex(o, a, b)[k].stamp <= l
  BY <1>4 DEF NoRecord, Stamps
<1> QED
  BY <1>5 DEF Driven

-----------------------------------------------------------------------------
LEMMA KinStarts == KinMergeInit => KinInv
<1> SUFFICES ASSUME KinMergeInit PROVE KinInv
  OBVIOUS
<1>1. base \in KinFiles /\ \A k \in Ids : base.index[k].stamp \in {-1, 0}
  BY DEF KinMergeInit, KinFiles, Snapshots, NoRecord
<1>2. RecordIds \subseteq Ids
  BY DEF Ids
<1>3. KinMergeTypeOK
  BY <1>1, <1>2, KinMergeAssumption DEF KinMergeInit, KinMergeTypeOK
<1>4. ASSUME NEW k \in RecordIds PROVE latest[k] <= time /\ HasLatest(k)
  BY <1>1, <1>2 DEF KinMergeInit, HasLatest, Sides
<1> QED
  BY <1>3, <1>4 DEF KinInv

\* An edit of a record of the index is later than what any branch has.
LEMMA EditIndexKeeps ==
    ASSUME KinInv, NEW side \in Sides, NEW k \in Ids, NEW body \in Bodies,
           EditIndex(side, k, body)
    PROVE  KinInv'
<1> USE DEF EditIndex
<1>1. /\ branch[side] \in KinFiles /\ time + 1 \in Nat
      /\ time \in 0..MaxEdits /\ time + 1 \in 0..MaxEdits
  BY KinMergeAssumption DEF KinInv, KinMergeTypeOK
<1>2. [stamp |-> IF k \in RecordIds THEN time + 1 ELSE 0, body |-> body] \in Records
  BY <1>1 DEF Records
<1>3. branch' \in [Sides -> KinFiles]
  BY <1>1, <1>2 DEF KinInv, KinMergeTypeOK, KinFiles, Snapshots, Records
<1>4. KinMergeTypeOK'
  BY <1>1, <1>3 DEF KinInv, KinMergeTypeOK
<1>5. ASSUME NEW j \in RecordIds PROVE (latest[j] <= time /\ HasLatest(j))'
  <2> USE <1>5 DEF KinInv, KinMergeTypeOK
  <2>1. j \in Ids /\ latest[j] \in Stamps /\ latest[j] <= time /\ HasLatest(j)
    BY DEF Ids, Stamps
  <2>2. ASSUME NEW s \in Sides PROVE branch[s].index[j].stamp \in Stamps
    BY <2>1, RecordStamps DEF KinFiles, Snapshots, Records
  <2>3. base.index[j].stamp \in Stamps
    BY <2>1, RecordStamps DEF KinFiles, Snapshots, Records
  <2>4. CASE j # k
    <3>1. \A s \in Sides : branch'[s].index[j] = branch[s].index[j]
      BY <2>4, <2>1 DEF KinFiles, Snapshots
    <3>2. latest'[j] = latest[j] /\ base' = base /\ gone' = gone /\ time' = time + 1
      BY <2>4
    <3> QED
      BY <1>1, <2>1, <3>1, <3>2 DEF HasLatest, Stamps
  <2>5. CASE j = k
    <3>1. latest'[j] = time + 1 /\ base' = base /\ gone' = gone /\ time' = time + 1
      BY <2>5
    <3>2. branch'[side].index[j].stamp = time + 1
      BY <2>5, <2>1 DEF KinFiles, Snapshots
    <3>3. \A s \in Sides : s # side => branch'[s].index[j].stamp = branch[s].index[j].stamp
      OBVIOUS
    <3>4. \A s \in Sides : branch'[s].index[j].stamp <= time + 1
      BY <1>1, <2>1, <2>2, <3>2, <3>3 DEF HasLatest, Stamps
    <3>5. base.index[j].stamp < time + 1
      BY <1>1, <2>1, <2>3 DEF HasLatest, Stamps
    <3> QED
      BY <1>1, <2>3, <3>1, <3>2, <3>4, <3>5 DEF HasLatest, Stamps
  <2> QED
    BY <2>4, <2>5
<1> QED
  BY <1>4, <1>5 DEF KinInv

\* A deletion removes what the branch has seen, which it notes.
LEMMA DeleteIndexKeeps ==
    ASSUME KinInv, NEW side \in Sides, NEW k \in Ids, DeleteIndex(side, k)
    PROVE  KinInv'
<1> USE DEF DeleteIndex
<1>1. branch[side] \in KinFiles /\ time \in 0..MaxEdits /\ time + 1 \in 0..MaxEdits
  BY KinMergeAssumption DEF KinInv, KinMergeTypeOK
<1>2. branch' \in [Sides -> KinFiles]
  BY <1>1 DEF KinInv, KinMergeTypeOK, KinFiles, Snapshots
<1>3. branch[side].index[k].stamp \in Nat
  BY <1>1 DEF KinFiles, Snapshots
<1>4. KinMergeTypeOK'
  BY <1>1, <1>2, <1>3 DEF KinInv, KinMergeTypeOK
<1>5. ASSUME NEW j \in RecordIds PROVE (latest[j] <= time /\ HasLatest(j))'
  <2> USE <1>5 DEF KinInv, KinMergeTypeOK
  <2>1. /\ j \in Ids /\ latest[j] \in Stamps /\ latest[j] <= time /\ HasLatest(j)
        /\ latest' = latest /\ base' = base /\ time' = time + 1
    BY DEF Ids, Stamps
  <2>2. latest'[j] <= time'
    BY <1>1, <2>1 DEF Stamps
  <2>3. CASE j # k
    <3>1. /\ \A s \in Sides : branch'[s].index[j] = branch[s].index[j]
          /\ gone'[j] = gone[j]
      BY <2>3, <2>1 DEF KinFiles, Snapshots
    <3> QED
      BY <2>1, <2>2, <3>1 DEF HasLatest
  <2>4. CASE j = k
    <3>1. /\ branch'[side].index[j] = NoRecord
          /\ \A s \in Sides : s # side => branch'[s].index[j] = branch[s].index[j]
          /\ gone'[j] = gone[j] \cup {branch[side].index[j].stamp}
      BY <2>4, <2>1 DEF KinFiles, Snapshots
    <3>2. \A s \in Sides : branch'[s].index[j].stamp <= latest[j]
      BY <2>1, <3>1 DEF HasLatest, NoRecord, Stamps
    <3>3. latest[j] \notin gone'[j] => branch[side].index[j].stamp # latest[j]
      BY <3>1
    <3> QED
      BY <2>1, <2>2, <3>1, <3>2, <3>3 DEF HasLatest
  <2> QED
    BY <2>3, <2>4
<1> QED
  BY <1>4, <1>5 DEF KinInv

\* The code map has no part in it.
LEMMA CodeMapKeeps ==
    ASSUME KinInv, NEW side \in Sides, NEW k \in Ids,
           DeleteCodeMap(side, k) \/ \E body \in Bodies : EditCodeMap(side, k, body)
    PROVE  KinInv'
<1>1. PICK r \in Records : branch' = [branch EXCEPT ![side].codeMap[k] = r]
  BY DEF DeleteCodeMap, EditCodeMap, Records
<1>2. /\ base' = base /\ latest' = latest /\ gone' = gone
      /\ time' = time + 1 /\ time \in 0..MaxEdits /\ time' \in 0..MaxEdits
  BY KinMergeAssumption DEF DeleteCodeMap, EditCodeMap, KinInv, KinMergeTypeOK
<1>3. branch' \in [Sides -> KinFiles]
  BY <1>1 DEF KinInv, KinMergeTypeOK, KinFiles, Snapshots, Records
<1>4. \A s \in Sides : branch'[s].index = branch[s].index
  BY <1>1 DEF KinInv, KinMergeTypeOK, KinFiles
<1>5. \A j \in RecordIds : latest[j] \in {-1} \cup Nat
  BY DEF KinInv, KinMergeTypeOK
<1> QED
  BY <1>2, <1>3, <1>4, <1>5 DEF KinInv, KinMergeTypeOK, HasLatest

\* After a merge the branch has the last change, and so has the commit they share.
LEMMA MergeKeeps ==
    ASSUME KinInv, NEW side \in Sides, Merge(side)
    PROVE  KinInv'
<1> DEFINE a == branch[side].index
           b == branch[Other(side)].index
           o == base.index
<1>1. /\ Other(side) \in Sides /\ Other(side) # side
      /\ \A s \in Sides : s = side \/ s = Other(side)
  BY DEF Sides, Other
<1>2. /\ branch[side] \in KinFiles /\ branch[Other(side)] \in KinFiles /\ base \in KinFiles
      /\ a \in Snapshots(Ids) /\ b \in Snapshots(Ids) /\ o \in Snapshots(Ids)
  BY <1>1 DEF KinInv, KinMergeTypeOK, KinFiles
<1>3. /\ base' = branch[Other(side)] /\ latest' = latest /\ gone' = gone /\ time' = time
      /\ branch'[side].index = Driven(o, a, b, MergeIndex(o, a, b))
      /\ branch'[Other(side)] = branch[Other(side)]
  BY <1>1 DEF Merge, KinInv, KinMergeTypeOK
<1>4. branch' \in [Sides -> KinFiles]
  BY <1>2, MergesType DEF Merge, KinInv, KinMergeTypeOK, KinFiles, Driven
<1>5. KinMergeTypeOK'
  BY <1>2, <1>3, <1>4 DEF KinInv, KinMergeTypeOK
<1>6. ASSUME NEW k \in RecordIds PROVE (latest[k] <= time /\ HasLatest(k))'
  <2>1. latest[k] \in Stamps /\ latest[k] <= time /\ HasLatest(k)
    BY DEF KinInv, KinMergeTypeOK, Stamps
  <2>2. a[k].stamp <= latest[k] /\ b[k].stamp <= latest[k]
    BY <1>1, <2>1 DEF HasLatest
  <2>3. branch'[side].index[k].stamp <= latest[k]
    BY <1>2, <1>3, <2>1, <2>2, DrivenBound
  <2>4. ASSUME latest[k] \notin gone[k] PROVE branch'[side].index[k].stamp = latest[k]
    <3>1. /\ a[k].stamp = latest[k] \/ b[k].stamp = latest[k]
          /\ o[k].stamp = latest[k] => a[k].stamp = latest[k] /\ b[k].stamp = latest[k]
      BY <1>1, <2>1, <2>4 DEF HasLatest
    <3> QED
      BY <1>2, <1>3, <2>1, <2>2, <3>1, DrivenIndex
  <2>5. /\ base'.index[k].stamp = b[k].stamp
        /\ branch'[Other(side)].index[k].stamp = b[k].stamp
    BY <1>3
  <2> QED
    BY <1>1, <1>3, <2>1, <2>2, <2>3, <2>4, <2>5 DEF HasLatest
<1> QED
  BY <1>5, <1>6 DEF KinInv

\* Every edit, deletion and merge keeps the invariant.
LEMMA KinKeep == KinInv /\ [KinMergeNext]_kinVars => KinInv'
<1> SUFFICES ASSUME KinInv, [KinMergeNext]_kinVars PROVE KinInv'
  OBVIOUS
<1>1. CASE KinMergeNext
  BY <1>1, EditIndexKeeps, DeleteIndexKeeps, CodeMapKeeps, MergeKeeps DEF KinMergeNext
<1>2. CASE UNCHANGED kinVars
  BY <1>2 DEF kinVars, KinInv, KinMergeTypeOK, HasLatest
<1> QED
  BY <1>1, <1>2

\* Records of both files keep their shape through edits, deletions and merges.
THEOREM KinMergeTypeCorrect == KinMergeSpec => []KinMergeTypeOK
<1>1. KinInv => KinMergeTypeOK
  BY DEF KinInv
<1> QED
  BY <1>1, KinStarts, KinKeep, PTL DEF KinMergeSpec

\* The last change of a record of .kin/index.json stays on a branch through any
\* edits, deletions and merges, unless a branch that had seen it deleted the record.
THEOREM LatestChangesKept == KinMergeSpec => []LatestKept
<1>1. KinInv => LatestKept
  BY DEF KinInv, HasLatest, LatestKept
<1> QED
  BY <1>1, KinStarts, KinKeep, PTL DEF KinMergeSpec

-----------------------------------------------------------------------------
(* The cost ledger.  Once the calls of a day reach the limit nobody passes *)
(* who did not pass before, so a call that is recorded was counted against *)
(* the limit by whoever recorded it; what bounds the calls of a day beyond *)
(* the limit is the number of the processes that had passed.               *)

\* An entry that stops the spending of a day, and the calls recorded on a day.
StopOf(d) == [call |-> Stop, day |-> d]
On(d) == {e \in written : e.day = d}

\* Who may still record a call without asking again.
MayRecord(p) ==
    \/ ledger[p].at = "paid"
    \/ ledger[p].at \in {"recover", "keep"} /\ ledger[p].resumes = "paid"
    \/ ledger[p].at = "asked" /\ CanSpend(p)
Passing == {p \in Procs : MayRecord(p)}

\* A snapshot that has the stamp of the file is the file, unless its process had
\* to give up; what a recovery is about to replace is kept, under the lock.
Follows(p) ==
    /\ ledger[p].seen <= file.stamp
    /\ ledger[p].seen = file.stamp /\ ledger[p].preserved => ledger[p].entries = file.entries
    /\ \A c, d \in ledger[p].call : c = d
    /\ ledger[p].at \in {"recover", "keep"} => \E d \in 1..today : ledger[p].stop = {StopOf(d)}
    /\ ledger[p].at = "keep" => flock = {p} /\ file.entries \in kept

Finite == file.stamp >= Absent /\ IsFiniteSet(file.entries) /\ IsFiniteSet(written)

\* Of the day's calls all are in the file, or the entry is that stops the day.
Counts ==
    /\ \A e \in written : e.day <= today
    /\ \A d \in stopped : StopOf(d) \in file.entries
    /\ today \in late \/ StopOf(today) \in file.entries \/ On(today) \subseteq file.entries

\* Once the limit is reached nobody passes who did not pass before.
Bounded ==
    /\ \/ today \in late
       \/ Cardinality(On(today)) < Limit
       \/ Cardinality(On(today)) + Cardinality(Passing) < Limit + Cardinality(Procs)
    /\ \A d \in 1..(today - 1) : d \in late \/ Cardinality(On(d)) < Limit + Cardinality(Procs)

LedgerInv ==
    /\ LedgerTypeOK /\ Finite
    /\ \A p \in Procs : Follows(p)
    /\ written \subseteq file.entries \cup UNION kept
    /\ Counts /\ Bounded

-----------------------------------------------------------------------------
(* What the steps of a process do to its ledger                             *)

\* p's ledger has these fields after the step; no other ledger changes.
Row(p, at, entries, seen, preserved, call, resumes, stop) ==
    /\ ledger' \in [Procs -> Ledgers]
    /\ \A q \in Procs \ {p} : ledger'[q] = ledger[q]
    /\ ledger'[p].at = at /\ ledger'[p].entries = entries /\ ledger'[p].seen = seen
    /\ ledger'[p].preserved = preserved /\ ledger'[p].call = call
    /\ ledger'[p].resumes = resumes /\ ledger'[p].stop = stop

\* A ledger has its fields.
LEMMA RowTyped ==
    ASSUME LedgerTypeOK, NEW p \in Procs
    PROVE  /\ ledger[p].at \in Places /\ ledger[p].entries \subseteq Entries
           /\ ledger[p].seen \in Nat /\ ledger[p].preserved \in BOOLEAN
           /\ ledger[p].call \subseteq PaidCalls /\ ledger[p].resumes \in {"idle", "asked", "paid"}
           /\ ledger[p].stop \subseteq Entries
           /\ file.entries \subseteq Entries /\ file.readable \in BOOLEAN /\ file.stamp \in Nat
BY DEF LedgerTypeOK, Ledgers

\* The updates of the steps: each gives a ledger with these fields.
Fields(l, at, entries, seen, preserved, call, resumes, stop) ==
    /\ l \in Ledgers
    /\ l.at = at /\ l.entries = entries /\ l.seen = seen /\ l.preserved = preserved
    /\ l.call = call /\ l.resumes = resumes /\ l.stop = stop

\* What one field of a ledger becomes is all that changes.
LEMMA OneUpdate ==
    ASSUME NEW l \in Ledgers
    PROVE  /\ \A at \in Places :
                Fields([l EXCEPT !.at = at], at, l.entries, l.seen, l.preserved, l.call, l.resumes, l.stop)
           /\ \A seen \in Nat :
                Fields([l EXCEPT !.seen = seen], l.at, l.entries, seen, l.preserved, l.call, l.resumes, l.stop)
<1> USE DEF Ledgers, Fields
<1>1. \A at \in Places :
        Fields([l EXCEPT !.at = at], at, l.entries, l.seen, l.preserved, l.call, l.resumes, l.stop)
  OBVIOUS
<1>2. \A seen \in Nat :
        Fields([l EXCEPT !.seen = seen], l.at, l.entries, seen, l.preserved, l.call, l.resumes, l.stop)
  OBVIOUS
<1> QED
  BY <1>1, <1>2

\* Two fields change.
LEMMA TwoUpdates ==
    ASSUME NEW l \in Ledgers, NEW at \in Places, NEW call \in SUBSET PaidCalls
    PROVE  Fields([l EXCEPT !.at = at, !.call = call],
                  at, l.entries, l.seen, l.preserved, call, l.resumes, l.stop)
<1>1. [l EXCEPT !.at = at] \in Ledgers
  BY DEF Ledgers
<1>2. [[l EXCEPT !.at = at] EXCEPT !.call = call] \in Ledgers
  BY <1>1 DEF Ledgers
<1> QED
  BY <1>2 DEF Ledgers, Fields

\* Three fields change.
LEMMA ThreeUpdates ==
    ASSUME NEW l \in Ledgers, NEW at \in Places, NEW entries \in SUBSET Entries, NEW seen \in Nat,
           NEW preserved \in BOOLEAN, NEW call \in SUBSET PaidCalls,
           NEW resumes \in {"idle", "asked", "paid"}, NEW stop \in SUBSET Entries
    PROVE  /\ Fields([l EXCEPT !.at = at, !.resumes = resumes, !.stop = stop],
                     at, l.entries, l.seen, l.preserved, l.call, resumes, stop)
           /\ Fields([l EXCEPT !.entries = entries, !.seen = seen, !.preserved = preserved],
                     l.at, entries, seen, preserved, l.call, l.resumes, l.stop)
           /\ Fields([l EXCEPT !.at = at, !.entries = entries, !.call = call],
                     at, entries, l.seen, l.preserved, call, l.resumes, l.stop)
<1>1. Fields([l EXCEPT !.at = at, !.resumes = resumes, !.stop = stop],
             at, l.entries, l.seen, l.preserved, l.call, resumes, stop)
  <2>1. [[[l EXCEPT !.at = at] EXCEPT !.resumes = resumes] EXCEPT !.stop = stop] \in Ledgers
    <3>1. [l EXCEPT !.at = at] \in Ledgers
      BY DEF Ledgers
    <3>2. [[l EXCEPT !.at = at] EXCEPT !.resumes = resumes] \in Ledgers
      BY <3>1 DEF Ledgers
    <3> QED
      BY <3>2 DEF Ledgers
  <2> QED
    BY <2>1 DEF Ledgers, Fields
<1>2. Fields([l EXCEPT !.entries = entries, !.seen = seen, !.preserved = preserved],
             l.at, entries, seen, preserved, l.call, l.resumes, l.stop)
  <2>1. [[[l EXCEPT !.entries = entries] EXCEPT !.seen = seen] EXCEPT !.preserved = preserved] \in Ledgers
    <3>1. [l EXCEPT !.entries = entries] \in Ledgers
      BY DEF Ledgers
    <3>2. [[l EXCEPT !.entries = entries] EXCEPT !.seen = seen] \in Ledgers
      BY <3>1 DEF Ledgers
    <3> QED
      BY <3>2 DEF Ledgers
  <2> QED
    BY <2>1 DEF Ledgers, Fields
<1>3. Fields([l EXCEPT !.at = at, !.entries = entries, !.call = call],
             at, entries, l.seen, l.preserved, call, l.resumes, l.stop)
  <2>1. [[[l EXCEPT !.at = at] EXCEPT !.entries = entries] EXCEPT !.call = call] \in Ledgers
    <3>1. [l EXCEPT !.at = at] \in Ledgers
      BY DEF Ledgers
    <3>2. [[l EXCEPT !.at = at] EXCEPT !.entries = entries] \in Ledgers
      BY <3>1 DEF Ledgers
    <3> QED
      BY <3>2 DEF Ledgers
  <2> QED
    BY <2>1 DEF Ledgers, Fields
<1> QED
  BY <1>1, <1>2, <1>3

\* The updates that follow another one.
Returned(l) == [l EXCEPT !.at = l.resumes, !.resumes = "idle", !.stop = {}]
Loaded(l, entries, seen, preserved) == [l EXCEPT !.entries = entries, !.seen = seen, !.preserved = preserved]
Entered(l, entries) == [l EXCEPT !.at = "idle", !.entries = entries, !.call = {}]
Stamped(l, seen) == [l EXCEPT !.seen = seen]

\* What the changes that follow one another in a step leave of a ledger.
LEMMA Chained ==
    ASSUME NEW l, NEW at, NEW entries, NEW seen, NEW preserved, NEW call, NEW resumes, NEW stop,
           Fields(l, at, entries, seen, preserved, call, resumes, stop)
    PROVE  /\ Fields(Returned(l), resumes, entries, seen, preserved, call, "idle", {})
           /\ \A e \in SUBSET Entries, n \in Nat, b \in BOOLEAN :
                Fields(Loaded(l, e, n, b), at, e, n, b, call, resumes, stop)
           /\ \A e \in SUBSET Entries :
                Fields(Entered(l, e), "idle", e, seen, preserved, {}, resumes, stop)
           /\ \A n \in Nat :
                Fields(Stamped(l, n), at, entries, n, preserved, call, resumes, stop)
<1>1. /\ l \in Ledgers
      /\ l.at = at /\ l.entries = entries /\ l.seen = seen /\ l.preserved = preserved
      /\ l.call = call /\ l.resumes = resumes /\ l.stop = stop
  BY DEF Fields
<1>2. Fields(Returned(l), l.resumes, l.entries, l.seen, l.preserved, l.call, "idle", {})
  <2>1. l.resumes \in Places /\ {} \in SUBSET Entries
    BY <1>1 DEF Ledgers, Places
  <2> QED
    BY <1>1, <2>1, ThreeUpdates DEF Returned
<1>3. ASSUME NEW e \in SUBSET Entries, NEW n \in Nat, NEW b \in BOOLEAN
      PROVE  Fields(Loaded(l, e, n, b), l.at, e, n, b, l.call, l.resumes, l.stop)
  <2>1. /\ l.at \in Places /\ l.call \in SUBSET PaidCalls
        /\ l.resumes \in {"idle", "asked", "paid"} /\ l.stop \in SUBSET Entries
    BY <1>1 DEF Ledgers
  <2> QED
    BY <1>1, <2>1, ThreeUpdates DEF Loaded
<1>4. ASSUME NEW e \in SUBSET Entries
      PROVE  Fields(Entered(l, e), "idle", e, l.seen, l.preserved, {}, l.resumes, l.stop)
  <2>1. "idle" \in Places /\ {} \in SUBSET PaidCalls
    BY DEF Places
  <2> QED
    BY <1>1, <2>1, ThreeUpdates DEF Entered
<1>5. ASSUME NEW n \in Nat
      PROVE  Fields(Stamped(l, n), l.at, l.entries, n, l.preserved, l.call, l.resumes, l.stop)
  BY <1>1, OneUpdate DEF Stamped
<1> QED
  BY <1>1, <1>2, <1>3, <1>4, <1>5

\* The process whose ledger it is has it after the step, the others have theirs.
LEMMA Lands ==
    ASSUME LedgerTypeOK, NEW p \in Procs, NEW l, ledger' = [ledger EXCEPT ![p] = l],
           NEW at, NEW entries, NEW seen, NEW preserved, NEW call, NEW resumes, NEW stop,
           Fields(l, at, entries, seen, preserved, call, resumes, stop)
    PROVE  Row(p, at, entries, seen, preserved, call, resumes, stop)
<1>1. ledger'[p] = l /\ ledger' \in [Procs -> Ledgers]
  BY DEF LedgerTypeOK, Fields
<1>2. \A q \in Procs \ {p} : ledger'[q] = ledger[q]
  BY DEF LedgerTypeOK
<1> QED
  BY <1>1, <1>2 DEF Row, Fields

\* Who asks reads the file again, keeps its own copy, or recovers (_reload).
LEMMA AskRow ==
    ASSUME LedgerTypeOK, NEW p \in Procs, Ask(p)
    PROVE  LET l == ledger[p] IN
           \/ Row(p, "recover", l.entries, l.seen, l.preserved, l.call, "asked", {StopOf(today)})
           \/ Row(p, "asked", file.entries, file.stamp, TRUE, l.call, l.resumes, l.stop)
           \/ /\ ~Stale(p)
              /\ Row(p, "asked", l.entries, l.seen, l.preserved, l.call, l.resumes, l.stop)
<1> DEFINE l == ledger[p]
<1>1. l \in Ledgers /\ {StopOf(today)} \in SUBSET Entries
  BY DEF StopOf, Entries, LedgerTypeOK
<1> USE DEF Places
<1>2. CASE Stale(p) /\ ~file.readable
  <2> DEFINE m == [l EXCEPT !.at = "recover", !.resumes = "asked", !.stop = {StopOf(today)}]
  <2>1. ledger' = [ledger EXCEPT ![p] = m]
    BY <1>2 DEF Ask, Recovers, StopOf
  <2>2. Fields(m, "recover", l.entries, l.seen, l.preserved, l.call, "asked", {StopOf(today)})
    BY <1>1, ThreeUpdates
  <2> HIDE DEF l, m
  <2> QED
    BY <2>1, <2>2, Lands DEF l
<1>3. CASE Stale(p) /\ file.readable
  <2> DEFINE m == [Read(l) EXCEPT !.at = "asked"]
  <2>1. ledger' = [ledger EXCEPT ![p] = m]
    BY <1>3 DEF Ask
  <2>2. Fields(Read(l), l.at, file.entries, file.stamp, TRUE, l.call, l.resumes, l.stop)
    BY <1>1, RowTyped, ThreeUpdates DEF Read
  <2>3. Fields(m, "asked", file.entries, file.stamp, TRUE, l.call, l.resumes, l.stop)
    BY <2>2, OneUpdate DEF Fields
  <2> HIDE DEF l, m
  <2> QED
    BY <2>1, <2>3, Lands DEF l
<1>4. CASE ~Stale(p)
  <2> DEFINE m == [l EXCEPT !.at = "asked"]
  <2>1. ledger' = [ledger EXCEPT ![p] = m]
    BY <1>4 DEF Ask
  <2>2. Fields(m, "asked", l.entries, l.seen, l.preserved, l.call, l.resumes, l.stop)
    BY <1>1, OneUpdate
  <2> HIDE DEF l, m
  <2> QED
    BY <1>4, <2>1, <2>2, Lands DEF l
<1> QED
  BY <1>2, <1>3, <1>4

\* Who may not spend is done.
LEMMA RefuseRow ==
    ASSUME LedgerTypeOK, NEW p \in Procs, Refuse(p)
    PROVE  LET l == ledger[p] IN Row(p, "idle", l.entries, l.seen, l.preserved, l.call, l.resumes, l.stop)
<1> DEFINE l == ledger[p]
           m == [l EXCEPT !.at = "idle"]
<1>1. ledger' = [ledger EXCEPT ![p] = m]
  BY DEF Refuse
<1>2. Fields(m, "idle", l.entries, l.seen, l.preserved, l.call, l.resumes, l.stop)
  BY OneUpdate DEF LedgerTypeOK, Places
<1> HIDE DEF l, m
<1> QED
  BY <1>1, <1>2, Lands DEF l

\* Who may spends, and has a call to record.
LEMMA PayRow ==
    ASSUME LedgerTypeOK, NEW p \in Procs, Pay(p)
    PROVE  LET l == ledger[p] IN
           \E c \in PaidCalls : Row(p, "paid", l.entries, l.seen, l.preserved, {c}, l.resumes, l.stop)
<1> DEFINE l == ledger[p]
<1>1. PICK c \in PaidCalls : ledger' = [ledger EXCEPT ![p].at = "paid", ![p].call = {c}]
  BY DEF Pay
<1> DEFINE m == [l EXCEPT !.at = "paid", !.call = {c}]
<1>2. ledger' = [ledger EXCEPT ![p] = m]
  BY <1>1
<1>3. Fields(m, "paid", l.entries, l.seen, l.preserved, {c}, l.resumes, l.stop)
  BY TwoUpdates DEF LedgerTypeOK, Places
<1> HIDE DEF l, m
<1> QED
  BY <1>2, <1>3, Lands DEF l

\* The entry of the call of p is one of this day.
LEMMA EntryTyped ==
    ASSUME LedgerTypeOK, NEW p \in Procs
    PROVE  Entry(p) \subseteq Entries
BY RowTyped DEF Entry, Entries, LedgerTypeOK

\* A call is recorded in the file that was read again, or in a ledger of one's own
\* that could not be kept, or its record has to recover first.
LEMMA RecordRow ==
    ASSUME LedgerTypeOK, NEW p \in Procs, Record(p)
    PROVE  LET l == ledger[p] IN
           \/ /\ Row(p, "recover", l.entries, l.seen, l.preserved, l.call, "paid", {StopOf(today)})
              /\ flock' = {p} /\ file' = file /\ written' = written
           \/ /\ Row(p, "idle", file.entries \cup Entry(p), file.stamp + 1, TRUE, {}, l.resumes, l.stop)
              /\ file' = [entries |-> file.entries \cup Entry(p), readable |-> TRUE, stamp |-> file.stamp + 1]
              /\ flock' = {} /\ written' = written \cup Entry(p)
           \/ /\ Row(p, "idle", l.entries \cup Entry(p), l.seen, FALSE, {}, l.resumes, l.stop)
              /\ flock' = {} /\ file' = file /\ written' = written
<1> DEFINE l == ledger[p]
<1>1. /\ Fields(l, l.at, l.entries, l.seen, l.preserved, l.call, l.resumes, l.stop)
      /\ l \in Ledgers /\ {StopOf(today)} \in SUBSET Entries
  BY DEF StopOf, Entries, LedgerTypeOK, Fields
<1>2. /\ file.entries \cup Entry(p) \in SUBSET Entries
      /\ l.entries \cup Entry(p) \in SUBSET Entries
      /\ file.entries \in SUBSET Entries /\ file.stamp \in Nat /\ file.stamp + 1 \in Nat
      /\ l.preserved \in BOOLEAN
  BY EntryTyped, RowTyped
<1>3. CASE Rereads(p) /\ ~file.readable
  <2> DEFINE m == [l EXCEPT !.at = "recover", !.resumes = "paid", !.stop = {StopOf(today)}]
  <2>1. ledger' = [ledger EXCEPT ![p] = m]
    BY <1>3 DEF Record, Recovers, StopOf
  <2>2. Fields(m, "recover", l.entries, l.seen, l.preserved, l.call, "paid", {StopOf(today)})
    BY <1>1, ThreeUpdates DEF Places
  <2>3. flock' = {p} /\ file' = file /\ written' = written
    BY <1>3 DEF Record
  <2> HIDE DEF l, m
  <2> QED
    BY <2>1, <2>2, <2>3, Lands DEF l
<1>4. CASE Rereads(p) /\ file.readable
  <2> DEFINE k == Loaded(l, file.entries, file.stamp, TRUE)
             done == Entered(k, file.entries \cup Entry(p))
             m == Stamped(done, file.stamp + 1)
  <2>1. Reread(p) = k
    BY <1>4 DEF Reread, Read, Loaded
  <2> HIDE DEF l
  <2>2. Fields(k, l.at, file.entries, file.stamp, TRUE, l.call, l.resumes, l.stop)
    BY <1>1, <1>2, Chained
  <2> HIDE DEF k
  <2>3. Fields(done, "idle", file.entries \cup Entry(p), file.stamp, TRUE, {}, l.resumes, l.stop)
    BY <1>2, <2>2, Chained
  <2>4. k.entries = file.entries /\ k.preserved = TRUE
    BY <2>2 DEF Fields
  <2> HIDE DEF done
  <2>5. Fields(m, "idle", file.entries \cup Entry(p), file.stamp + 1, TRUE, {}, l.resumes, l.stop)
    BY <1>2, <2>3, Chained
  <2>6. done = [k EXCEPT !.at = "idle", !.entries = k.entries \cup Entry(p), !.call = {}]
    BY <2>4 DEF done, Entered
  <2>7. done.entries = file.entries \cup Entry(p) /\ done.preserved = TRUE
    BY <2>3 DEF Fields
  <2>8. /\ flock' = {} /\ written' = written \cup Entry(p)
        /\ file' = [entries |-> file.entries \cup Entry(p), readable |-> TRUE, stamp |-> file.stamp + 1]
        /\ ledger' = [ledger EXCEPT ![p] = [[k EXCEPT !.at = "idle", !.entries = k.entries \cup Entry(p), !.call = {}]
                                              EXCEPT !.seen = file.stamp + 1]]
    BY <1>4, <2>1, <2>4 DEF Record
  <2>9. ledger' = [ledger EXCEPT ![p] = m]
    BY <2>6, <2>8 DEF Stamped
  <2> HIDE DEF m
  <2> QED
    BY <2>5, <2>8, <2>9, Lands DEF l
<1>5. CASE ~Rereads(p)
  <2> DEFINE m == Entered(l, l.entries \cup Entry(p))
  <2>1. Reread(p) = l /\ l.preserved = FALSE
    BY <1>2, <1>5 DEF Reread, Rereads
  <2>2. ledger' = [ledger EXCEPT ![p] = m] /\ flock' = {} /\ file' = file /\ written' = written
    BY <1>5, <2>1 DEF Record, Entered
  <2>3. Fields(l, l.at, l.entries, l.seen, FALSE, l.call, l.resumes, l.stop)
    BY <1>1, <2>1 DEF Fields
  <2> HIDE DEF l
  <2>4. Fields(m, "idle", l.entries \cup Entry(p), l.seen, FALSE, {}, l.resumes, l.stop)
    BY <1>2, <2>3, Chained
  <2> HIDE DEF m
  <2> QED
    BY <2>2, <2>4, Lands DEF l
<1> QED
  BY <1>3, <1>4, <1>5

\* The ends of a recovery.
LEMMA RepairedRow ==
    ASSUME LedgerTypeOK, NEW p \in Procs, Repaired(p)
    PROVE  LET l == ledger[p] IN
           Row(p, l.resumes, file.entries, file.stamp, TRUE, l.call, "idle", {})
<1> DEFINE l == ledger[p]
           k == Loaded(l, file.entries, file.stamp, TRUE)
           m == Returned(k)
<1>1. ledger' = [ledger EXCEPT ![p] = m]
  BY DEF Repaired, Resumes, Read, Returned, Loaded
<1>2. /\ Fields(l, l.at, l.entries, l.seen, l.preserved, l.call, l.resumes, l.stop)
      /\ file.entries \in SUBSET Entries /\ file.stamp \in Nat
  BY RowTyped DEF LedgerTypeOK, Fields
<1> HIDE DEF l
<1>3. Fields(k, l.at, file.entries, file.stamp, TRUE, l.call, l.resumes, l.stop)
  BY <1>2, Chained
<1> HIDE DEF k
<1>4. Fields(m, l.resumes, file.entries, file.stamp, TRUE, l.call, "idle", {})
  BY <1>3, Chained
<1> HIDE DEF m
<1> QED
  BY <1>1, <1>4, Lands DEF l

\* What is about to be replaced was kept: what stops the day is next.
LEMMA KeepRow ==
    ASSUME LedgerTypeOK, NEW p \in Procs, Keep(p)
    PROVE  LET l == ledger[p] IN Row(p, "keep", l.entries, l.seen, l.preserved, l.call, l.resumes, l.stop)
<1> DEFINE l == ledger[p]
           m == [l EXCEPT !.at = "keep"]
<1>1. ledger' = [ledger EXCEPT ![p] = m]
  BY DEF Keep
<1>2. Fields(m, "keep", l.entries, l.seen, l.preserved, l.call, l.resumes, l.stop)
  BY OneUpdate DEF LedgerTypeOK, Places
<1> HIDE DEF l, m
<1> QED
  BY <1>1, <1>2, Lands DEF l

\* The entry that stops the spending is written; the process goes on.
LEMMA StopSpendingRow ==
    ASSUME LedgerTypeOK, NEW p \in Procs, StopSpending(p)
    PROVE  LET l == ledger[p] IN
           Row(p, l.resumes, l.stop, file.stamp + 1, TRUE, l.call, "idle", {})
<1> DEFINE l == ledger[p]
           k == Loaded(l, l.stop, file.stamp + 1, TRUE)
           m == Returned(k)
<1>1. ledger' = [ledger EXCEPT ![p] = m]
  BY DEF StopSpending, Resumes, Returned, Loaded
<1>2. /\ Fields(l, l.at, l.entries, l.seen, l.preserved, l.call, l.resumes, l.stop)
      /\ l.stop \in SUBSET Entries /\ file.stamp + 1 \in Nat
  BY RowTyped DEF LedgerTypeOK, Fields
<1> HIDE DEF l
<1>3. Fields(k, l.at, l.stop, file.stamp + 1, TRUE, l.call, l.resumes, l.stop)
  BY <1>2, Chained
<1> HIDE DEF k
<1>4. Fields(m, l.resumes, l.stop, file.stamp + 1, TRUE, l.call, "idle", {})
  BY <1>3, Chained
<1> HIDE DEF m
<1> QED
  BY <1>1, <1>4, Lands DEF l

\* What could not be kept is not replaced: the process keeps a ledger of its own.
LEMMA KeepFailsRow ==
    ASSUME LedgerTypeOK, NEW p \in Procs, KeepFails(p)
    PROVE  LET l == ledger[p] IN
           Row(p, l.resumes, l.stop, file.stamp, FALSE, l.call, "idle", {})
<1> DEFINE l == ledger[p]
           k == Loaded(l, l.stop, file.stamp, FALSE)
           m == Returned(k)
<1>1. ledger' = [ledger EXCEPT ![p] = m]
  BY DEF KeepFails, Resumes, GivesUp, Returned, Loaded
<1>2. /\ Fields(l, l.at, l.entries, l.seen, l.preserved, l.call, l.resumes, l.stop)
      /\ l.stop \in SUBSET Entries /\ file.stamp \in Nat
  BY RowTyped DEF LedgerTypeOK, Fields
<1> HIDE DEF l
<1>3. Fields(k, l.at, l.stop, file.stamp, FALSE, l.call, l.resumes, l.stop)
  BY <1>2, Chained
<1> HIDE DEF k
<1>4. Fields(m, l.resumes, l.stop, file.stamp, FALSE, l.call, "idle", {})
  BY <1>3, Chained
<1> HIDE DEF m
<1> QED
  BY <1>1, <1>4, Lands DEF l

\* A process that ends has nothing.
LEMMA ExitRow ==
    ASSUME LedgerTypeOK, NEW p \in Procs, Exit(p)
    PROVE  Row(p, "idle", {}, 0, TRUE, {}, "idle", {})
<1>1. Fields(NoLedger, "idle", {}, 0, TRUE, {}, "idle", {})
  BY DEF NoLedger, NotSeen, Fields, Ledgers, Places
<1> QED
  BY <1>1, Lands DEF Exit

-----------------------------------------------------------------------------
(* The invariant, part by part                                              *)

\* The entry of a recorded call is in the file, or its process keeps it.
LEMMA RecordWrites ==
    ASSUME LedgerTypeOK, NEW p \in Procs, Record(p)
    PROVE  /\ \/ file' = file /\ written' = written
              \/ /\ file'.entries = file.entries \cup Entry(p) /\ file'.stamp = file.stamp + 1
                 /\ written' = written \cup Entry(p)
           /\ file' \in [entries : SUBSET Entries, readable : BOOLEAN, stamp : Nat]
           /\ flock' \in {{}, {p}}
<1> DEFINE now == file.entries \cup Entry(p)
           f == [entries |-> now, readable |-> TRUE, stamp |-> file.stamp + 1]
<1>1. f \in [entries : SUBSET Entries, readable : BOOLEAN, stamp : Nat]
  BY RowTyped, EntryTyped
<1>2. \/ file' = file /\ written' = written
      \/ file' = f /\ written' = written \cup Entry(p)
  BY RecordRow
<1>3. flock' \in {{}, {p}}
  BY RecordRow
<1>4. f.entries = now /\ f.stamp = file.stamp + 1
  OBVIOUS
<1> HIDE DEF f
<1> QED
  BY <1>1, <1>2, <1>3, <1>4 DEF LedgerTypeOK

\* The file changes by a record or the end of a recovery, and by damage or repair.
LEMMA FileChanges ==
    ASSUME LedgerTypeOK, Damage \/ Mend
    PROVE  /\ file' \in [entries : SUBSET Entries, readable : BOOLEAN, stamp : Nat]
           /\ file'.entries = file.entries /\ file'.stamp = file.stamp + 1
<1>1. \A b \in BOOLEAN : [file EXCEPT !.readable = b] \in [entries : SUBSET Entries, readable : BOOLEAN, stamp : Nat]
  BY DEF LedgerTypeOK
<1>2. ASSUME NEW b \in BOOLEAN
      PROVE  [[file EXCEPT !.readable = b] EXCEPT !.stamp = file.stamp + 1]
                \in [entries : SUBSET Entries, readable : BOOLEAN, stamp : Nat]
  <2>1. file.stamp + 1 \in Nat
    BY DEF LedgerTypeOK
  <2> QED
    BY <1>1, <2>1
<1>3. CASE Damage
  BY <1>2, <1>3 DEF Damage, LedgerTypeOK
<1>4. CASE Mend
  BY <1>2, <1>4 DEF Mend, LedgerTypeOK
<1> QED
  BY <1>3, <1>4

\* The ledgers, the file and the history keep their shape.
LEMMA LedgerTypeNext ==
    ASSUME LedgerTypeOK, [LedgerNext]_ledgerVars
    PROVE  LedgerTypeOK'
<1> USE LedgerAssumption
<1>1. ASSUME NEW p \in Procs, Ask(p) \/ Refuse(p) \/ Pay(p) PROVE LedgerTypeOK'
  <2>1. ledger' \in [Procs -> Ledgers]
    BY <1>1, AskRow, RefuseRow, PayRow DEF Row
  <2> QED
    BY <1>1, <2>1 DEF Ask, Refuse, Pay, LedgerTypeOK, Days
<1>2. ASSUME NEW p \in Procs, Record(p) PROVE LedgerTypeOK'
  <2>1. ledger' \in [Procs -> Ledgers]
    BY <1>2, RecordRow DEF Row
  <2>2. file' \in [entries : SUBSET Entries, readable : BOOLEAN, stamp : Nat] /\ flock' \subseteq Procs
    BY <1>2, RecordWrites DEF LedgerTypeOK
  <2>3. written' \subseteq Entries
    BY <1>2, RecordWrites, EntryTyped DEF LedgerTypeOK
  <2> QED
    BY <1>2, <2>1, <2>2, <2>3 DEF Record, LedgerTypeOK
<1>3. ASSUME NEW p \in Procs, Repaired(p) \/ Keep(p) PROVE LedgerTypeOK'
  <2>1. ledger' \in [Procs -> Ledgers]
    BY <1>3, RepairedRow, KeepRow DEF Row
  <2> QED
    BY <1>3, <2>1 DEF Repaired, Keep, Keeping, LedgerTypeOK
<1>4. ASSUME NEW p \in Procs, StopSpending(p) PROVE LedgerTypeOK'
  <2>1. ledger' \in [Procs -> Ledgers]
    BY <1>4, StopSpendingRow DEF Row
  <2>2. file' \in [entries : SUBSET Entries, readable : BOOLEAN, stamp : Nat]
    BY <1>4, RowTyped DEF StopSpending, LedgerTypeOK
  <2>3. stopped' \subseteq Days /\ late' \subseteq Days
    BY <1>4, RowTyped DEF StopSpending, LedgerTypeOK, Entries
  <2>4. flock' \subseteq Procs
    BY <1>4 DEF StopSpending, Unlocked, LedgerTypeOK
  <2> QED
    BY <1>4, <2>1, <2>2, <2>3, <2>4 DEF StopSpending, LedgerTypeOK
<1>5. ASSUME NEW p \in Procs, KeepFails(p) \/ Exit(p) PROVE LedgerTypeOK'
  <2>1. ledger' \in [Procs -> Ledgers]
    BY <1>5, KeepFailsRow, ExitRow DEF Row
  <2>2. flock' \subseteq Procs /\ troubles' \in 0..Troubles
    BY <1>5 DEF KeepFails, Exit, Unlocked, Trouble, LedgerTypeOK
  <2> QED
    BY <1>5, <2>1, <2>2 DEF KeepFails, Exit, LedgerTypeOK
<1>6. CASE Damage \/ Mend \/ Midnight \/ UNCHANGED ledgerVars
  <2>1. file' \in [entries : SUBSET Entries, readable : BOOLEAN, stamp : Nat]
    <3>1. CASE Damage \/ Mend
      BY <3>1, FileChanges
    <3>2. CASE Midnight \/ UNCHANGED ledgerVars
      BY <3>2 DEF Midnight, ledgerVars, LedgerTypeOK
    <3> QED
      BY <1>6, <3>1, <3>2
  <2>2. troubles' \in 0..Troubles /\ today' \in Days
    BY <1>6 DEF Damage, Mend, Midnight, Trouble, ledgerVars, LedgerTypeOK, Days
  <2> QED
    BY <1>6, <2>1, <2>2 DEF Damage, Mend, Midnight, ledgerVars, LedgerTypeOK
<1> QED
  BY <1>1, <1>2, <1>3, <1>4, <1>5, <1>6 DEF LedgerNext

\* A call is at most one entry, of today.
LEMMA EntrySmall ==
    ASSUME LedgerTypeOK, NEW p \in Procs, Follows(p)
    PROVE  /\ Entry(p) = {} \/ \E e : Entry(p) = {e}
           /\ \A e \in Entry(p) : e.day = today
           /\ IsFiniteSet(Entry(p))
<1>1. \A e \in Entry(p) : e.day = today
  BY DEF Entry
<1>2. \A c, d \in ledger[p].call : c = d
  BY DEF Follows
<1>3. Entry(p) = {} \/ \E e : Entry(p) = {e}
  <2>1. CASE ledger[p].call = {}
    BY <2>1 DEF Entry
  <2>2. CASE ledger[p].call # {}
    <3>1. PICK c : c \in ledger[p].call
      BY <2>2
    <3>2. ledger[p].call = {c}
      BY <1>2, <3>1
    <3> QED
      BY <3>2 DEF Entry
  <2> QED
    BY <2>1, <2>2
<1> QED
  BY <1>1, <1>3, FS_EmptySet, FS_Singleton

\* A step writes one entry at most.
LEMMA FiniteNext ==
    ASSUME LedgerTypeOK, Finite, \A p \in Procs : Follows(p), [LedgerNext]_ledgerVars
    PROVE  Finite'
<1> USE DEF Finite
<1>1. file.stamp \in Nat /\ Absent \in Nat
  BY DEF LedgerTypeOK, Absent
<1>2. ASSUME NEW p \in Procs, Record(p) PROVE Finite'
  <2>1. IsFiniteSet(file.entries \cup Entry(p)) /\ IsFiniteSet(written \cup Entry(p))
    BY EntrySmall, FS_Union
  <2>2. /\ file'.entries \in {file.entries, file.entries \cup Entry(p)}
        /\ file'.stamp \in {file.stamp, file.stamp + 1}
        /\ written' \in {written, written \cup Entry(p)}
    BY <1>2, RecordWrites
  <2>3. IsFiniteSet(file.entries) /\ IsFiniteSet(written)
    OBVIOUS
  <2>4. IsFiniteSet(file'.entries) /\ IsFiniteSet(written')
    BY <2>1, <2>2, <2>3, Zenon
  <2> QED
    BY <1>1, <2>2, <2>4 DEF Absent
<1>3. ASSUME NEW p \in Procs, StopSpending(p) PROVE Finite'
  <2>1. PICK d : ledger[p].stop = {StopOf(d)}
    BY <1>3 DEF StopSpending, Follows
  <2>2. IsFiniteSet(ledger[p].stop)
    BY <2>1, FS_Singleton
  <2> QED
    BY <1>1, <1>3, <2>2 DEF StopSpending
<1>4. CASE Damage \/ Mend
  BY <1>1, <1>4, FileChanges DEF Damage, Mend, Absent
<1>5. CASE UNCHANGED <<file, written>>
  BY <1>5
<1> QED
  BY <1>2, <1>3, <1>4, <1>5 DEF LedgerNext, ledgerVars, Ask, Refuse, Pay, Repaired, Keep, KeepFails,
     Exit, Midnight

\* A ledger that is left alone goes on following the file, which only changes
\* with its stamp, and under the lock while somebody keeps a copy.
LEMMA LeftAlone ==
    ASSUME LedgerTypeOK, LedgerTypeOK', NEW p \in Procs, Follows(p), ledger'[p] = ledger[p],
           today' \in {today, today + 1}, kept \subseteq kept',
           file' = file \/ file'.stamp = file.stamp + 1,
           ledger[p].at = "keep" => flock' = {p} /\ file'.entries = file.entries
    PROVE  Follows(p)'
<1>1. ledger[p].seen \in Nat /\ file.stamp \in Nat /\ today \in Nat
  BY RowTyped DEF LedgerTypeOK, Days
<1>2. /\ ledger'[p].seen <= file'.stamp
      /\ ledger'[p].seen = file'.stamp /\ ledger'[p].preserved => ledger'[p].entries = file'.entries
  BY <1>1 DEF Follows
<1>3. ledger'[p].at \in {"recover", "keep"} => \E d \in 1..today' : ledger'[p].stop = {StopOf(d)}
  <2>1. 1..today \subseteq 1..today'
    BY <1>1
  <2> QED
    BY <2>1 DEF Follows
<1>4. \A c, d \in ledger'[p].call : c = d
  BY DEF Follows
<1>5. ledger'[p].at = "keep" => flock' = {p} /\ file'.entries \in kept'
  BY DEF Follows
<1> QED
  BY <1>2, <1>3, <1>4, <1>5 DEF Follows

\* The process of a step still follows the file.
LEMMA OwnFollows ==
    ASSUME NEW p \in Procs, NEW at, NEW entries, NEW seen, NEW preserved, NEW call, NEW resumes, NEW stop,
           Row(p, at, entries, seen, preserved, call, resumes, stop),
           seen <= file'.stamp, seen = file'.stamp /\ preserved => entries = file'.entries,
           \A c, d \in call : c = d,
           at \in {"recover", "keep"} => \E d \in 1..today' : stop = {StopOf(d)},
           at = "keep" => flock' = {p} /\ file'.entries \in kept'
    PROVE  Follows(p)'
<1>1. /\ ledger'[p].at = at /\ ledger'[p].entries = entries /\ ledger'[p].seen = seen
      /\ ledger'[p].preserved = preserved /\ ledger'[p].call = call /\ ledger'[p].stop = stop
  BY DEF Row
<1> QED
  BY <1>1 DEF Follows

\* What a step of q means for another ledger, and for the file.
LEMMA OthersFollow ==
    ASSUME LedgerTypeOK, LedgerTypeOK', NEW p \in Procs, NEW q \in Procs \ {p}, Follows(p), Follows(q),
           \/ Ask(q) \/ Refuse(q) \/ Pay(q) \/ Record(q)
           \/ Repaired(q) \/ Keep(q) \/ StopSpending(q) \/ KeepFails(q) \/ Exit(q)
    PROVE  Follows(p)'
<1>1. ledger'[p] = ledger[p]
  <2>1. CASE Ask(q)
    BY <2>1, AskRow DEF Row
  <2>2. CASE Refuse(q) \/ Pay(q)
    BY <2>2, RefuseRow, PayRow DEF Row
  <2>3. CASE Record(q)
    BY <2>3, RecordRow DEF Row
  <2>4. CASE Repaired(q) \/ Keep(q)
    BY <2>4, RepairedRow, KeepRow DEF Row
  <2>5. CASE StopSpending(q) \/ KeepFails(q) \/ Exit(q)
    BY <2>5, StopSpendingRow, KeepFailsRow, ExitRow DEF Row
  <2> QED
    BY <2>1, <2>2, <2>3, <2>4, <2>5
<1>2. today' = today /\ kept \subseteq kept'
  BY DEF Ask, Refuse, Pay, Record, Repaired, Keep, Keeping, StopSpending, KeepFails, Exit
<1>3. file' = file \/ file'.stamp = file.stamp + 1
  <2>1. CASE Record(q)
    BY <2>1, RecordWrites
  <2>2. CASE StopSpending(q)
    BY <2>2 DEF StopSpending
  <2> QED
    BY <2>1, <2>2 DEF Ask, Refuse, Pay, Repaired, Keep, KeepFails, Exit
<1>4. ASSUME ledger[p].at = "keep" PROVE flock' = {p} /\ file'.entries = file.entries
  <2>1. flock = {p} /\ ~(flock \subseteq {q})
    BY <1>4 DEF Follows
  <2>2. ledger[q].at # "keep"
    BY <2>1 DEF Follows
  <2> QED
    BY <2>1, <2>2 DEF Ask, Refuse, Pay, Record, Repaired, Keep, StopSpending, KeepFails, Exit
<1> QED
  BY <1>1, <1>2, <1>3, <1>4, LeftAlone

\* Every process still does: whoever writes moves the stamp.
LEMMA FollowsNext ==
    ASSUME LedgerTypeOK, LedgerTypeOK', Finite, \A p \in Procs : Follows(p), [LedgerNext]_ledgerVars,
           NEW p \in Procs
    PROVE  Follows(p)'
<1> DEFINE l == ledger[p]
<1>1. Follows(p) /\ file.stamp \in Nat /\ today \in Nat \ {0} /\ l.seen \in Nat
  BY RowTyped DEF LedgerTypeOK, Days
<1>2. ASSUME NEW q \in Procs \ {p},
           \/ Ask(q) \/ Refuse(q) \/ Pay(q) \/ Record(q)
           \/ Repaired(q) \/ Keep(q) \/ StopSpending(q) \/ KeepFails(q) \/ Exit(q)
      PROVE Follows(p)'
  BY <1>2, OthersFollow
<1>3. CASE Ask(p) \/ Refuse(p) \/ Pay(p)
  <2>1. file' = file /\ kept' = kept /\ flock' = flock /\ today' = today
    BY <1>3 DEF Ask, Refuse, Pay
  <2>2. l.at \notin {"recover", "keep"}
    BY <1>3 DEF Ask, Refuse, Pay
  <2>3. CASE Ask(p)
    <3>1. \A c, d \in l.call : c = d
      BY <1>1 DEF Follows
    <3>2. CASE Row(p, "recover", l.entries, l.seen, l.preserved, l.call, "asked", {StopOf(today)})
      BY <1>1, <2>1, <3>1, <3>2, OwnFollows DEF Follows
    <3>3. CASE Row(p, "asked", file.entries, file.stamp, TRUE, l.call, l.resumes, l.stop)
      <4>1. /\ ledger'[p].at = "asked" /\ ledger'[p].entries = file.entries
            /\ ledger'[p].seen = file.stamp /\ ledger'[p].call = l.call
        BY <3>3 DEF Row
      <4> QED
        BY <1>1, <2>1, <3>1, <4>1 DEF Follows
    <3>4. CASE Row(p, "asked", l.entries, l.seen, l.preserved, l.call, l.resumes, l.stop)
      BY <1>1, <2>1, <3>1, <3>4, OwnFollows DEF Follows
    <3> QED
      BY <2>3, <3>2, <3>3, <3>4, AskRow
  <2>4. CASE Refuse(p) \/ Pay(p)
    BY <1>1, <2>1, <2>4, RefuseRow, PayRow DEF Row, Follows
  <2> QED
    BY <1>3, <2>3, <2>4
<1>4. CASE Record(p)
  <2>1. kept' = kept /\ today' = today /\ l.at = "paid"
    BY <1>4 DEF Record
  <2>2. CASE /\ Row(p, "recover", l.entries, l.seen, l.preserved, l.call, "paid", {StopOf(today)})
             /\ file' = file
    BY <1>1, <2>1, <2>2 DEF Row, Follows
  <2>3. CASE /\ Row(p, "idle", file.entries \cup Entry(p), file.stamp + 1, TRUE, {}, l.resumes, l.stop)
             /\ file' = [entries |-> file.entries \cup Entry(p), readable |-> TRUE, stamp |-> file.stamp + 1]
    <3>1. file'.entries = file.entries \cup Entry(p) /\ file'.stamp = file.stamp + 1
      BY <2>3
    <3> QED
      BY <1>1, <2>1, <2>3, <3>1 DEF Row, Follows
  <2>4. CASE /\ Row(p, "idle", l.entries \cup Entry(p), l.seen, FALSE, {}, l.resumes, l.stop)
             /\ file' = file
    BY <1>1, <2>1, <2>4 DEF Row, Follows
  <2> QED
    BY <1>4, <2>2, <2>3, <2>4, RecordRow
<1>5. CASE Repaired(p)
  <2>1. file' = file /\ kept' = kept /\ flock' = flock /\ today' = today
    BY <1>5 DEF Repaired
  <2>2. l.resumes \notin {"recover", "keep"}
    BY RowTyped
  <2>3. \A c, d \in l.call : c = d
    BY <1>1 DEF Follows
  <2>4. /\ ledger'[p].at = l.resumes /\ ledger'[p].entries = file.entries
        /\ ledger'[p].seen = file.stamp /\ ledger'[p].call = l.call
    BY <1>5, RepairedRow DEF Row
  <2> QED
    BY <1>1, <2>1, <2>2, <2>3, <2>4 DEF Follows
<1>6. CASE Keep(p)
  <2>1. file' = file /\ kept' = kept \cup {file.entries} /\ flock' = {p} /\ today' = today /\ l.at = "recover"
    BY <1>6 DEF Keep, Keeping
  <2> QED
    BY <1>1, <1>6, <2>1, KeepRow DEF Row, Follows
<1>7. CASE StopSpending(p)
  <2>1. file'.entries = l.stop /\ file'.stamp = file.stamp + 1 /\ kept' = kept /\ today' = today
    BY <1>7 DEF StopSpending
  <2>2. l.resumes \notin {"recover", "keep"}
    BY RowTyped
  <2>3. \A c, d \in l.call : c = d
    BY <1>1 DEF Follows
  <2>4. /\ ledger'[p].at = l.resumes /\ ledger'[p].entries = l.stop
        /\ ledger'[p].seen = file.stamp + 1 /\ ledger'[p].call = l.call
    BY <1>7, StopSpendingRow DEF Row
  <2> QED
    BY <1>1, <2>1, <2>2, <2>3, <2>4 DEF Follows
<1>8. CASE KeepFails(p)
  <2>1. file' = file /\ kept' = kept /\ today' = today
    BY <1>8 DEF KeepFails
  <2>2. l.resumes \notin {"recover", "keep"}
    BY RowTyped
  <2>3. \A c, d \in l.call : c = d
    BY <1>1 DEF Follows
  <2>4. /\ ledger'[p].at = l.resumes /\ ledger'[p].entries = l.stop
        /\ ledger'[p].seen = file.stamp /\ ledger'[p].call = l.call /\ ledger'[p].preserved = FALSE
    BY <1>8, KeepFailsRow DEF Row
  <2> QED
    BY <1>1, <2>1, <2>2, <2>3, <2>4 DEF Follows
<1>9. CASE Exit(p)
  <2>1. file' = file
    BY <1>9 DEF Exit
  <2>2. file.stamp >= 1
    BY <1>1 DEF Finite, Absent
  <2>3. /\ ledger'[p].at = "idle" /\ ledger'[p].seen = 0 /\ ledger'[p].call = {}
    BY <1>9, ExitRow DEF Row
  <2> QED
    BY <1>1, <2>1, <2>2, <2>3 DEF Follows
<1>10. CASE Damage \/ Mend
  <2>1. ledger[p].at # "keep"
    BY <1>1, <1>10 DEF Damage, Mend, Follows
  <2>2. ledger' = ledger /\ kept' = kept /\ today' = today
    BY <1>10 DEF Damage, Mend
  <2> QED
    BY <1>1, <1>10, <2>1, <2>2, FileChanges, LeftAlone
<1>11. CASE Midnight \/ UNCHANGED ledgerVars
  BY <1>1, <1>11, LeftAlone DEF Midnight, ledgerVars, Follows
<1> QED
  BY <1>2, <1>3, <1>4, <1>5, <1>6, <1>7, <1>8, <1>9, <1>10, <1>11 DEF LedgerNext

\* A file is only replaced by less once what it held is kept.
LEMMA WrittenNext ==
    ASSUME LedgerTypeOK, \A p \in Procs : Follows(p), [LedgerNext]_ledgerVars,
           written \subseteq file.entries \cup UNION kept
    PROVE  written' \subseteq file'.entries \cup UNION kept'
<1>1. ASSUME NEW p \in Procs, Record(p) PROVE written' \subseteq file'.entries \cup UNION kept'
  <2>1. kept' = kept
    BY <1>1 DEF Record
  <2> QED
    BY <1>1, <2>1, RecordWrites
<1>2. ASSUME NEW p \in Procs, StopSpending(p) PROVE written' \subseteq file'.entries \cup UNION kept'
  BY <1>2 DEF StopSpending, Follows
<1>3. ASSUME NEW p \in Procs, Keep(p) PROVE written' \subseteq file'.entries \cup UNION kept'
  BY <1>3 DEF Keep, Keeping
<1>4. CASE Damage \/ Mend
  BY <1>4, FileChanges DEF Damage, Mend
<1>5. CASE UNCHANGED <<file, kept, written>>
  BY <1>5
<1> QED
  BY <1>1, <1>2, <1>3, <1>4, <1>5 DEF LedgerNext, ledgerVars, Ask, Refuse, Pay, Repaired, KeepFails,
     Exit, Midnight

\* What a replacement of the file stops, and what it leaves.
LEMMA StopSpendingWrites ==
    ASSUME NEW p \in Procs, Follows(p), StopSpending(p)
    PROVE  \E d \in 1..today :
              /\ file'.entries = {StopOf(d)} /\ stopped' = {d}
              /\ late' = IF d = today THEN late ELSE late \cup {today}
              /\ written' = written /\ today' = today
<1>1. PICK d \in 1..today : ledger[p].stop = {StopOf(d)}
  BY DEF StopSpending, Follows
<1>2. {e.day : e \in ledger[p].stop} = {d}
  BY <1>1 DEF StopOf
<1>3. ({d} = {today}) <=> d = today
  OBVIOUS
<1> QED
  BY <1>1, <1>2, <1>3 DEF StopSpending

\* The calls of the day stay in the file, or what stops the day is.
LEMMA CountsNext ==
    ASSUME LedgerTypeOK, \A p \in Procs : Follows(p), Counts, [LedgerNext]_ledgerVars
    PROVE  Counts'
<1>1. today \in Nat \ {0} /\ \A e \in Entries : e.day \in Nat
  BY DEF LedgerTypeOK, Days, Entries
<1>2. ASSUME NEW p \in Procs, Record(p) PROVE Counts'
  <2>1. today' = today /\ stopped' = stopped /\ late' = late
    BY <1>2 DEF Record
  <2>2. \A e \in Entry(p) : e.day = today
    BY EntrySmall
  <2>3. CASE file' = file /\ written' = written
    BY <2>1, <2>3 DEF Counts, On
  <2>4. CASE file'.entries = file.entries \cup Entry(p) /\ written' = written \cup Entry(p)
    BY <1>1, <2>1, <2>2, <2>4 DEF Counts, On
  <2> QED
    BY <1>2, <2>3, <2>4, RecordWrites
<1>3. ASSUME NEW p \in Procs, StopSpending(p) PROVE Counts'
  BY <1>3, StopSpendingWrites DEF Counts, On
<1>4. CASE Damage \/ Mend
  <2>1. UNCHANGED <<today, written, stopped, late>>
    BY <1>4 DEF Damage, Mend
  <2> QED
    BY <1>4, <2>1, FileChanges DEF Counts, On
<1>5. CASE Midnight
  <2>1. today' = today + 1 /\ UNCHANGED <<file, written, stopped, late>>
    BY <1>5 DEF Midnight
  <2>2. \A e \in written : e.day \in Nat /\ e.day <= today
    BY <1>1 DEF Counts, LedgerTypeOK
  <2>3. On(today)' = {}
    BY <1>1, <2>1, <2>2 DEF On
  <2> QED
    BY <1>1, <2>1, <2>2, <2>3 DEF Counts
<1>6. CASE UNCHANGED <<file, today, written, stopped, late>>
  BY <1>6 DEF Counts, On
<1> QED
  BY <1>2, <1>3, <1>4, <1>5, <1>6 DEF LedgerNext, ledgerVars, Ask, Refuse, Pay, Repaired, Keep,
     KeepFails, Exit

\* Entries that have the limit's worth of calls of a day, or its stop, let
\* nobody spend.
LEMMA Full ==
    ASSUME NEW entries, NEW calls, NEW d,
           IsFiniteSet(entries), StopOf(d) \in entries \/ calls \subseteq entries,
           \A e \in calls : e.day = d,
           StopOf(d) \in entries \/ Cardinality(calls) >= Limit
    PROVE  ~(Spent(entries, d) < Limit)
<1> USE LedgerAssumption
<1>1. CASE StopOf(d) \in entries
  BY <1>1 DEF Spent, StopOf
<1>2. CASE StopOf(d) \notin entries
  <2> DEFINE E == {e \in entries : e.day = d}
  <2>1. calls \subseteq E
    BY <1>2
  <2>2. IsFiniteSet(E)
    <3>1. E \subseteq entries
      OBVIOUS
    <3> QED
      BY <3>1, FS_Subset
  <2>3. Cardinality(calls) <= Cardinality(E)
    BY <2>1, <2>2, FS_Subset
  <2>4. Spent(entries, d) = Cardinality(E)
    BY <1>2 DEF Spent, StopOf
  <2>5. Cardinality(E) \in Nat /\ Cardinality(calls) \in Nat
    BY <2>1, <2>2, FS_Subset, FS_CardinalityType
  <2> QED
    BY <1>2, <2>3, <2>4, <2>5
<1> QED
  BY <1>1, <1>2

\* Who acts, and what becomes of the others.
LEMMA OneActs ==
    ASSUME LedgerTypeOK, [LedgerNext]_ledgerVars, NEW p \in Procs
    PROVE  \/ ledger'[p] = ledger[p]
           \/ /\ today' = today
              /\ \/ Ask(p) \/ Refuse(p) \/ Pay(p) \/ Record(p)
                 \/ Repaired(p) \/ Keep(p) \/ StopSpending(p) \/ KeepFails(p) \/ Exit(p)
<1>1. ASSUME NEW q \in Procs,
             \/ Ask(q) \/ Refuse(q) \/ Pay(q) \/ Record(q)
             \/ Repaired(q) \/ Keep(q) \/ StopSpending(q) \/ KeepFails(q) \/ Exit(q)
      PROVE  today' = today /\ \A r \in Procs \ {q} : ledger'[r] = ledger[r]
  <2>1. CASE Ask(q)
    BY <2>1, AskRow DEF Row, Ask
  <2>2. CASE Refuse(q) \/ Pay(q)
    BY <2>2, RefuseRow, PayRow DEF Row, Refuse, Pay
  <2>3. CASE Record(q)
    BY <2>3, RecordRow DEF Row, Record
  <2>4. CASE Repaired(q) \/ Keep(q)
    BY <2>4, RepairedRow, KeepRow DEF Row, Repaired, Keep
  <2>5. CASE StopSpending(q) \/ KeepFails(q) \/ Exit(q)
    BY <2>5, StopSpendingRow, KeepFailsRow, ExitRow DEF Row, StopSpending, KeepFails, Exit
  <2> QED
    BY <1>1, <2>1, <2>2, <2>3, <2>4, <2>5
<1>2. CASE Damage \/ Mend \/ Midnight \/ UNCHANGED ledgerVars
  BY <1>2 DEF Damage, Mend, Midnight, ledgerVars
<1> QED
  BY <1>1, <1>2 DEF LedgerNext

\* Who has just asked has the file before him, or may not spend at all.
LEMMA AsksTheFile ==
    ASSUME LedgerTypeOK, \A p \in Procs : Follows(p), [LedgerNext]_ledgerVars, NEW p \in Procs,
           ledger[p].at # "asked", ledger'[p].at = "asked"
    PROVE  /\ today' = today
           /\ ledger'[p].preserved => ledger'[p].entries = file'.entries
<1> DEFINE l == ledger[p]
<1>1. ledger'[p] # ledger[p]
  OBVIOUS
<1>2. today' = today
  BY <1>1, OneActs
<1>3. CASE Ask(p)
  <2>1. file' = file
    BY <1>3 DEF Ask
  <2>2. CASE Row(p, "recover", l.entries, l.seen, l.preserved, l.call, "asked", {StopOf(today)})
    BY <2>2 DEF Row
  <2>3. CASE Row(p, "asked", file.entries, file.stamp, TRUE, l.call, l.resumes, l.stop)
    BY <1>2, <2>1, <2>3 DEF Row
  <2>4. CASE ~Stale(p) /\ Row(p, "asked", l.entries, l.seen, l.preserved, l.call, l.resumes, l.stop)
    <3>1. l.seen = file.stamp /\ ledger'[p].entries = l.entries /\ ledger'[p].preserved = l.preserved
      BY <2>4 DEF Row, Stale
    <3> QED
      BY <1>2, <2>1, <3>1 DEF Follows
  <2> QED
    BY <1>2, <1>3, <2>2, <2>3, <2>4, AskRow
<1>4. CASE Repaired(p)
  BY <1>2, <1>4, RepairedRow DEF Row, Repaired
<1>5. CASE StopSpending(p)
  <2>1. file'.entries = l.stop
    BY <1>5 DEF StopSpending
  <2> QED
    BY <1>2, <1>5, <2>1, StopSpendingRow DEF Row
<1>6. CASE KeepFails(p)
  BY <1>2, <1>6, KeepFailsRow DEF Row
<1>7. CASE Refuse(p) \/ Pay(p) \/ Keep(p) \/ Exit(p)
  BY <1>7, RefuseRow, PayRow, KeepRow, ExitRow DEF Row
<1>8. CASE Record(p)
  BY <1>8, RecordRow DEF Row
<1> QED
  BY <1>1, <1>3, <1>4, <1>5, <1>6, <1>7, <1>8, OneActs

\* Who passes after a step passed before it, or has just asked; and who has
\* recorded a call does not pass any more.
LEMMA PassedBefore ==
    ASSUME LedgerTypeOK, [LedgerNext]_ledgerVars, NEW p \in Procs, today' = today,
           MayRecord(p)', ~MayRecord(p)
    PROVE  ledger[p].at # "asked" /\ ledger'[p].at = "asked" /\ CanSpend(p)'
<1> DEFINE l == ledger[p]
<1>1. ledger'[p] # ledger[p]
  BY DEF MayRecord, CanSpend
<1>2. CASE Ask(p)
  BY <1>2, AskRow DEF Row, MayRecord, Ask
<1>3. CASE Refuse(p) \/ Exit(p)
  BY <1>3, RefuseRow, ExitRow DEF Row, MayRecord
<1>4. CASE Pay(p)
  BY <1>4 DEF Pay, MayRecord
<1>5. CASE Record(p)
  BY <1>5 DEF Record, MayRecord
<1>6. CASE Repaired(p)
  <2>1. ledger'[p].at = l.resumes /\ l.at = "recover" /\ l.resumes \in {"idle", "asked", "paid"}
    BY <1>6, RepairedRow, RowTyped DEF Row, Repaired
  <2> QED
    BY <2>1 DEF MayRecord
<1>7. CASE Keep(p)
  <2>1. ledger'[p].at = "keep" /\ l.at = "recover" /\ ledger'[p].resumes = l.resumes
    BY <1>7, KeepRow DEF Row, Keep
  <2> QED
    BY <2>1 DEF MayRecord
<1>8. CASE StopSpending(p)
  <2>1. ledger'[p].at = l.resumes /\ l.at = "keep" /\ l.resumes \in {"idle", "asked", "paid"}
    BY <1>8, StopSpendingRow, RowTyped DEF Row, StopSpending
  <2> QED
    BY <2>1 DEF MayRecord
<1>9. CASE KeepFails(p)
  <2>1. ledger'[p].at = l.resumes /\ l.at \in {"recover", "keep"} /\ l.resumes \in {"idle", "asked", "paid"}
    BY <1>9, KeepFailsRow, RowTyped DEF Row, KeepFails
  <2> QED
    BY <2>1 DEF MayRecord
<1> QED
  BY <1>1, <1>2, <1>3, <1>4, <1>5, <1>6, <1>7, <1>8, <1>9, OneActs

\* On a day that stays, nobody starts to pass once the limit is reached.
LEMMA NobodyJoins ==
    ASSUME LedgerTypeOK, \A p \in Procs : Follows(p), Finite', Counts', [LedgerNext]_ledgerVars,
           today' = today, On(today)' = On(today), today \notin late', Cardinality(On(today)) >= Limit
    PROVE  Passing' \subseteq Passing
<1> SUFFICES ASSUME NEW p \in Procs, MayRecord(p)', ~MayRecord(p)
             PROVE  FALSE
  BY DEF Passing
<1>1. ledger[p].at # "asked" /\ ledger'[p].at = "asked" /\ CanSpend(p)'
  BY PassedBefore
<1>2. ledger'[p].entries = file'.entries /\ Spent(ledger'[p].entries, today) < Limit
  BY <1>1, AsksTheFile DEF CanSpend
<1>3. IsFiniteSet(file'.entries) /\ (StopOf(today) \in file'.entries \/ On(today) \subseteq file'.entries)
  BY DEF Finite, Counts
<1>4. \A e \in On(today) : e.day = today
  BY DEF On
<1> HIDE DEF Finite, Counts
<1> QED
  BY <1>2, <1>3, <1>4, Full

\* The calls of a day, and those who pass, are finitely many.
LEMMA Numbers ==
    ASSUME IsFiniteSet(written)
    PROVE  /\ \A d : IsFiniteSet(On(d)) /\ Cardinality(On(d)) \in Nat
           /\ \A P \in SUBSET Procs : IsFiniteSet(P) /\ Cardinality(P) \in Nat
           /\ Cardinality(Procs) \in Nat
           /\ Limit \in Nat \ {0}
<1>1. \A d : On(d) \subseteq written
  BY DEF On
<1> QED
  BY <1>1, FS_Subset, FS_CardinalityType, ProcsAssumption, LedgerAssumption

\* Who records a call adds one, and passes no more.
LEMMA RecordBounds ==
    ASSUME LedgerTypeOK, Finite, \A q \in Procs : Follows(q), NEW p \in Procs, Record(p),
           written' = written \cup Entry(p), ledger'[p].at = "idle",
           \/ Cardinality(On(today)) < Limit
           \/ Cardinality(On(today)) + Cardinality(Passing) < Limit + Cardinality(Procs)
    PROVE  Cardinality(On(today)') + Cardinality(Passing') < Limit + Cardinality(Procs)
<1>1. today' = today /\ \A q \in Procs \ {p} : ledger'[q] = ledger[q]
  BY RecordRow DEF Record, Row
<1>2. p \in Passing /\ Passing' \subseteq Passing \ {p}
  BY <1>1 DEF Passing, MayRecord, CanSpend, Record
<1>3. IsFiniteSet(written)
  BY DEF Finite
<1>4. Cardinality(On(today)') <= Cardinality(On(today)) + 1
  <2>1. \A e, f \in Entry(p) : e = f
    BY EntrySmall DEF Follows
  <2>2. On(today)' \subseteq On(today) \cup Entry(p)
    BY <1>1 DEF On
  <2>3. IsFiniteSet(On(today)) /\ Cardinality(On(today)) \in Nat
    BY <1>3, Numbers
  <2>4. CASE Entry(p) = {}
    <3>1. On(today)' \subseteq On(today)
      BY <2>2, <2>4
    <3>2. IsFiniteSet(On(today)') /\ Cardinality(On(today)') <= Cardinality(On(today))
      BY <2>3, <3>1, FS_Subset
    <3> QED
      BY <2>3, <3>2, FS_CardinalityType
  <2>5. CASE Entry(p) # {}
    <3>1. PICK e \in Entry(p) : Entry(p) = {e}
      BY <2>1, <2>5
    <3>2. /\ IsFiniteSet(On(today) \cup {e})
          /\ Cardinality(On(today) \cup {e}) = Cardinality(On(today))
             \/ Cardinality(On(today) \cup {e}) = Cardinality(On(today)) + 1
      BY <2>3, FS_AddElement
    <3>3. On(today)' \subseteq On(today) \cup {e}
      BY <2>2, <3>1
    <3>4. IsFiniteSet(On(today)') /\ Cardinality(On(today)') <= Cardinality(On(today) \cup {e})
      BY <3>2, <3>3, FS_Subset
    <3> QED
      BY <2>3, <3>2, <3>4, FS_CardinalityType
  <2> QED
    BY <2>4, <2>5
<1>5. Cardinality(On(today)') \in Nat
  <2>1. IsFiniteSet(written')
    BY <1>3, FiniteNext, EntrySmall, FS_Union
  <2> QED
    BY <2>1, FS_Subset, FS_CardinalityType DEF On
<1>6. Passing \subseteq Procs /\ Passing \ {p} \subseteq Procs /\ Passing' \subseteq Procs
  BY DEF Passing
<1>7. /\ Cardinality(Passing \ {p}) = Cardinality(Passing) - 1
      /\ Cardinality(Passing') <= Cardinality(Passing \ {p})
  BY <1>2, <1>3, <1>6, Numbers, FS_RemoveElement, FS_Subset
<1>8. Cardinality(Passing) <= Cardinality(Procs)
  BY <1>3, <1>6, Numbers, FS_Subset, ProcsAssumption
<1>9. /\ Cardinality(On(today)) \in Nat /\ Cardinality(Passing) \in Nat
      /\ Cardinality(Passing') \in Nat /\ Cardinality(Procs) \in Nat /\ Limit \in Nat
  BY <1>3, <1>6, Numbers
<1> HIDE DEF On, Passing
<1> QED
  BY <1>4, <1>5, <1>7, <1>8, <1>9

\* Who records stops passing, and nobody else passes at the limit.
LEMMA BoundedNext ==
    ASSUME LedgerTypeOK, LedgerTypeOK', Finite, Finite', \A p \in Procs : Follows(p), Counts, Counts',
           Bounded, [LedgerNext]_ledgerVars
    PROVE  Bounded'
<1> DEFINE N == Cardinality(Procs)
           W == Cardinality(On(today))
           P == Cardinality(Passing)
<1>1. /\ today \in Nat \ {0} /\ N \in Nat /\ Limit \in Nat \ {0}
      /\ \A d : IsFiniteSet(On(d)) /\ Cardinality(On(d)) \in Nat
      /\ IsFiniteSet(Passing) /\ P \in Nat
  <2>1. Passing \subseteq Procs /\ IsFiniteSet(written)
    BY DEF Passing, Finite
  <2> QED
    BY <2>1, Numbers DEF LedgerTypeOK, Days
<1>2. /\ today \in late \/ W < Limit \/ W + P < Limit + N
      /\ \A d \in 1..(today - 1) : d \in late \/ Cardinality(On(d)) < Limit + N
  BY DEF Bounded
<1>3. CASE Midnight
  <2>1. today' = today + 1 /\ UNCHANGED <<written, late>>
    BY <1>3 DEF Midnight
  <2>2. \A e \in written : e.day \in Nat /\ e.day <= today
    BY DEF Counts, LedgerTypeOK, Entries, Days
  <2>3. On(today)' = {}
    BY <1>1, <2>1, <2>2 DEF On
  <2>4. Cardinality(On(today)') = 0
    BY <2>3, FS_EmptySet
  <2>5. \A d : On(d)' = On(d)
    BY <2>1 DEF On
  <2>6. today \in late \/ W < Limit + N
    BY <1>1, <1>2
  <2>7. ASSUME NEW d \in 1..today PROVE d \in late \/ Cardinality(On(d)) < Limit + N
    BY <1>1, <1>2, <2>6
  <2>8. Cardinality(On(today)') < Limit
    BY <1>1, <2>4
  <2>9. today' - 1 = today
    BY <1>1, <2>1
  <2>10. \A d \in 1..(today' - 1) : d \in late' \/ Cardinality(On(d)') < Limit + N
    BY <2>1, <2>5, <2>7, <2>9
  <2> QED
    BY <2>8, <2>10 DEF Bounded
<1>4. CASE /\ UNCHANGED <<today, written>> /\ late \subseteq late'
  <2>1. \A d : On(d)' = On(d)
    BY <1>4 DEF On
  <2>2. \A d \in 1..(today' - 1) : d \in late' \/ Cardinality(On(d)') < Limit + N
    BY <1>2, <1>4, <2>1
  <2>3. On(today)' = On(today)
    BY <1>4 DEF On
  <2>4. CASE W < Limit \/ today \in late'
    BY <1>4, <2>2, <2>3, <2>4 DEF Bounded
  <2>5. CASE W >= Limit /\ today \notin late'
    <3>1. Passing' \subseteq Passing
      BY <1>4, <2>3, <2>5, NobodyJoins
    <3>2. Cardinality(Passing') <= P /\ Cardinality(Passing') \in Nat
      BY <1>1, <3>1, FS_Subset, FS_CardinalityType
    <3>3. W + P < Limit + N
      BY <1>1, <1>2, <1>4, <2>5
    <3>4. W + Cardinality(Passing') < Limit + N
      BY <1>1, <3>2, <3>3
    <3> QED
      BY <2>2, <2>3, <3>4 DEF Bounded
  <2> QED
    BY <1>1, <2>4, <2>5
<1>5. ASSUME NEW p \in Procs, Record(p), written' # written PROVE Bounded'
  <2>1. today' = today /\ late' = late
    BY <1>5 DEF Record
  <2>2. written' = written \cup Entry(p) /\ ledger'[p].at = "idle"
    <3>1. file' # file
      BY <1>5, RecordWrites, RowTyped
    <3> QED
      BY <1>5, <3>1, RecordRow, RecordWrites DEF Row
  <2>3. ASSUME NEW d \in 1..(today - 1) PROVE On(d)' = On(d)
    <3>1. \A e \in Entry(p) : e.day # d
      BY <1>1, EntrySmall
    <3> QED
      BY <2>2, <3>1 DEF On
  <2>4. \A d \in 1..(today' - 1) : d \in late' \/ Cardinality(On(d)') < Limit + N
    BY <1>2, <2>1, <2>3
  <2>5. CASE today \in late
    BY <2>1, <2>4, <2>5 DEF Bounded
  <2>6. CASE today \notin late
    BY <1>2, <1>5, <2>2, <2>4, <2>6, RecordBounds DEF Bounded
  <2> QED
    BY <2>5, <2>6
<1>6. late \subseteq late' /\ (Midnight \/ today' = today)
  BY DEF LedgerNext, ledgerVars, Ask, Refuse, Pay, Record, Repaired, Keep, StopSpending, KeepFails,
     Exit, Damage, Mend, Midnight
<1>7. written' = written \/ \E p \in Procs : Record(p)
  BY DEF LedgerNext, ledgerVars, Ask, Refuse, Pay, Repaired, Keep, StopSpending, KeepFails,
     Exit, Damage, Mend, Midnight
<1> QED
  BY <1>3, <1>4, <1>5, <1>6, <1>7

\* The ledger of a first day.
LEMMA LedgerStarts == LedgerInit => LedgerInv
<1> SUFFICES ASSUME LedgerInit PROVE LedgerInv
  OBVIOUS
<1> USE LedgerAssumption DEF LedgerInit
<1>1. NoLedger \in Ledgers
  BY DEF NoLedger, Ledgers, Places, NotSeen
<1>2. LedgerTypeOK
  BY <1>1 DEF LedgerTypeOK, Absent, Days
<1>3. Finite
  BY FS_EmptySet DEF Finite, Absent
<1>4. \A p \in Procs : Follows(p)
  BY DEF Follows, NoLedger, NotSeen, Absent
<1>5. \A d : On(d) = {} /\ Cardinality(On(d)) = 0
  BY FS_EmptySet DEF On
<1>6. Counts
  BY DEF Counts, On
<1>7. Bounded
  BY <1>5 DEF Bounded
<1> QED
  BY <1>2, <1>3, <1>4, <1>6, <1>7 DEF LedgerInv

\* Every step keeps the invariant.
LEMMA LedgerKept == LedgerInv /\ [LedgerNext]_ledgerVars => LedgerInv'
<1> SUFFICES ASSUME LedgerInv, [LedgerNext]_ledgerVars PROVE LedgerInv'
  OBVIOUS
<1>1. /\ LedgerTypeOK /\ Finite /\ \A p \in Procs : Follows(p)
      /\ written \subseteq file.entries \cup UNION kept
      /\ Counts /\ Bounded
  BY DEF LedgerInv
<1>2. LedgerTypeOK'
  BY <1>1, LedgerTypeNext
<1>3. Finite'
  BY <1>1, FiniteNext
<1>4. \A p \in Procs : Follows(p)'
  BY <1>1, <1>2, FollowsNext
<1>5. written' \subseteq file'.entries \cup UNION kept'
  BY <1>1, WrittenNext
<1>6. Counts'
  BY <1>1, CountsNext
<1>7. Bounded'
  BY <1>1, <1>2, <1>3, <1>6, BoundedNext
<1> QED
  BY <1>2, <1>3, <1>4, <1>5, <1>6, <1>7 DEF LedgerInv

\* The invariant of the ledger holds of every behaviour (budget.py: BudgetLedger).
THEOREM LedgerInvariant == LedgerSpec => []LedgerInv
<1> QED
  BY LedgerStarts, LedgerKept, PTL DEF LedgerSpec

\* The ledgers, the file with its stamp and the kept copies keep their shape
\* (budget.py: BudgetLedger).
THEOREM LedgerTypeCorrect == LedgerSpec => []LedgerTypeOK
<1>1. LedgerInv => LedgerTypeOK
  BY DEF LedgerInv
<1> QED
  BY <1>1, LedgerInvariant, PTL

\* The invariant bounds the calls of every day.
LEMMA DaysBounded == LedgerInv => SpendKept
<1> SUFFICES ASSUME LedgerInv PROVE SpendKept
  OBVIOUS
<1>1. ASSUME NEW d \in Days \ late PROVE Cardinality(On(d)) < Limit + Cardinality(Procs)
  <2>1. /\ today \in Nat \ {0} /\ d \in Nat \ {0} /\ IsFiniteSet(written)
        /\ \A e \in written : e.day \in Nat /\ e.day <= today
    BY DEF LedgerInv, LedgerTypeOK, Finite, Counts, Days, Entries
  <2>2. Cardinality(On(d)) \in Nat /\ Cardinality(Procs) \in Nat /\ Limit \in Nat \ {0}
    BY <2>1, Numbers
  <2>3. Passing \subseteq Procs
    BY DEF Passing
  <2>4. Cardinality(Passing) \in Nat
    BY <2>1, <2>3, Numbers
  <2>5. CASE d < today
    BY <1>1, <2>1, <2>5 DEF LedgerInv, Bounded
  <2>6. CASE d = today
    BY <1>1, <2>2, <2>4, <2>6 DEF LedgerInv, Bounded
  <2>7. CASE d > today
    <3>1. On(d) = {}
      BY <2>1, <2>7 DEF On
    <3> QED
      BY <2>2, <3>1, FS_EmptySet
  <2> QED
    BY <2>1, <2>5, <2>6, <2>7
<1> QED
  BY <1>1 DEF SpendKept, LedgerInv, On

\* A recorded call stays in the ledger or in a copy of it, and a day's calls exceed
\* the limit by less than there are processes (budget.py: BudgetLedger.record).
THEOREM SpendingKept == LedgerSpec => []SpendKept
<1> QED
  BY DaysBounded, LedgerInvariant, PTL

\* Nobody who asks on a day that a recovery stopped may spend (budget.py:133).
THEOREM SpendingStopped == LedgerSpec => StoppedForTheDay
<1>1. ASSUME LedgerInv, LedgerInv', [LedgerNext]_ledgerVars, NEW p \in Procs,
             today \in stopped', ledger[p].at # "asked", ledger'[p].at = "asked"
      PROVE  ~CanSpend(p)'
  <2>1. today' = today /\ (ledger'[p].preserved => ledger'[p].entries = file'.entries)
    BY <1>1, AsksTheFile DEF LedgerInv
  <2>2. IsFiniteSet(file'.entries) /\ StopOf(today) \in file'.entries
    BY <1>1 DEF LedgerInv, Finite, Counts
  <2>3. ~(Spent(file'.entries, today) < Limit)
    <3> DEFINE calls == {}
    <3>1. \A e \in calls : e.day = today
      OBVIOUS
    <3> HIDE DEF calls
    <3>2. StopOf(today) \in file'.entries \/ calls \subseteq file'.entries
      BY <2>2
    <3> QED
      BY <2>2, <3>1, <3>2, Full
  <2> QED
    BY <2>1, <2>3 DEF CanSpend
<1>2. LedgerInv /\ LedgerInv' /\ [LedgerNext]_ledgerVars
        => [\A p \in Procs :
              today \in stopped' /\ ledger[p].at # "asked" /\ ledger'[p].at = "asked" => ~CanSpend(p)']_ledgerVars
  BY <1>1
<1> QED
  BY <1>2, LedgerInvariant, PTL DEF LedgerSpec, StoppedForTheDay

-----------------------------------------------------------------------------
(* Captured candidates.  What a reviewer holds between the question and    *)
(* the answer is a token that stands for all that was shown, and a title   *)
(* enters the graph only where no live node has it.                        *)

Edges == Concepts \X Concepts \X {"relates_to", "contradicts"}
Tokens ==
    [row : ({"none"} \cup Live \cup Terminal) \X Nat \X Nat,
     nodes : SUBSET (Concepts \X BOOLEAN \X Nat), contradictions : SUBSET Edges]
ReviewRows ==
    [c : SUBSET Candidates, token : SUBSET Tokens, standing : SUBSET (Concepts \X BOOLEAN),
     text : SUBSET (Concepts \X {0, 1}), contradictions : SUBSET Edges, at : SUBSET (0..MaxSecond)]

\* A token stands for what its reviewer was shown.
ShownBy(p) ==
    \A t \in review[p].token :
        /\ review[p].standing = {<<x[1], x[2]>> : x \in t.nodes}
        /\ review[p].contradictions = t.contradictions

ReviewsOK ==
    /\ review \in [Reviewers -> ReviewRows]
    /\ \A p \in Reviewers :
         /\ review[p].at # {} => review[p].c # {}
         /\ ShownBy(p)

OnePayload == \A c \in Candidates : \A x, y \in candidate[c].payload : x = y

CapturesInv == CapturesTypeOK /\ ReviewsOK /\ OnePayload /\ CapturedOnce

-----------------------------------------------------------------------------
LEMMA CandidateTyped ==
    ASSUME CapturesTypeOK, NEW c \in Candidates
    PROVE  /\ candidate[c] \in CandidateRows
           /\ candidate[c].status \in {"none"} \cup Live \cup Terminal
           /\ candidate[c].payload \subseteq Payloads
           /\ candidate[c].stamp \in Nat /\ candidate[c].until \in Nat
           /\ candidate[c].made \subseteq Concepts
           /\ candidate[c].status \in Live <=> candidate[c].payload # {}
           /\ candidate[c].status = "accepted" <=> candidate[c].made # {}
BY DEF CapturesTypeOK, CandidateRows

\* A node has its fields.
LEMMA ConceptTyped ==
    ASSUME CapturesTypeOK, NEW n \in Concepts
    PROVE  /\ concept[n] \in ConceptRows
           /\ concept[n].title \subseteq Titles /\ concept[n].trusted \in BOOLEAN
           /\ concept[n].text \in {0, 1} /\ concept[n].captured \in BOOLEAN
           /\ concept[n].stamp \in Nat
BY DEF CapturesTypeOK, ConceptRows

\* What a row is reduced to.
LEMMA ReducedRow ==
    ASSUME NEW r \in CandidateRows, NEW status \in Terminal, NEW at \in Nat
    PROVE  /\ Reduced(r, status, at) \in CandidateRows
           /\ Reduced(r, status, at).status = status /\ Reduced(r, status, at).payload = {}
           /\ Reduced(r, status, at).made = r.made
<1>1. [r EXCEPT !.status = status] \in CandidateRows
  BY DEF CandidateRows
<1>2. [[r EXCEPT !.status = status] EXCEPT !.payload = {}] \in CandidateRows
  BY <1>1 DEF CandidateRows
<1>3. [[[r EXCEPT !.status = status] EXCEPT !.payload = {}] EXCEPT !.stamp = at] \in CandidateRows
  BY <1>2 DEF CandidateRows
<1> QED
  BY <1>3 DEF CandidateRows, Reduced

\* What a promotion makes of a candidate and of the graph.
LEMMA MadeRow ==
    ASSUME NEW r \in CandidateRows, NEW made \in SUBSET Concepts
    PROVE  /\ [r EXCEPT !.made = made] \in CandidateRows
           /\ [r EXCEPT !.made = made].status = r.status /\ [r EXCEPT !.made = made].payload = r.payload
           /\ [r EXCEPT !.made = made].made = made
BY DEF CandidateRows

\* A live row has one payload, and only that is looked at.
LEMMA PayloadTyped ==
    ASSUME CapturesTypeOK, NEW c \in Candidates, candidate[c].status \in Live
    PROVE  PayloadOf(c) \in Payloads /\ PayloadOf(c) \in candidate[c].payload
<1>1. \E payload \in Payloads : payload \in candidate[c].payload
  BY CandidateTyped
<1> QED
  BY <1>1 DEF PayloadOf

\* Who answers was shown a candidate, and noted a time.
LEMMA Answering ==
    ASSUME ReviewsOK, NEW p \in Reviewers, Answers(p)
    PROVE  /\ Subject(p) \in Candidates /\ Subject(p) \in review[p].c
           /\ AnsweredAt(p) \in 0..MaxSecond /\ AnsweredAt(p) \in Nat
<1>1. review[p].c # {} /\ review[p].c \subseteq Candidates
  BY DEF ReviewsOK, ReviewRows, Answers
<1>2. review[p].at # {} /\ review[p].at \subseteq 0..MaxSecond
  BY DEF ReviewsOK, ReviewRows, Answers
<1>3. \E c \in Candidates : c \in review[p].c
  BY <1>1
<1>4. \E s \in 0..MaxSecond : s \in review[p].at
  BY <1>2
<1> QED
  BY <1>3, <1>4 DEF Subject, AnsweredAt

-----------------------------------------------------------------------------
\* What a step makes of the candidates: a pending row is staged, or rows lose
\* their payload.
Narrowed ==
    \A c \in Candidates : candidate'[c].payload \subseteq candidate[c].payload
StagedNew ==
    \E payload \in Payloads, c \in Candidates :
        /\ ~Staged(payload) /\ candidate'[c].payload = {payload}
        /\ \A d \in Candidates \ {c} : candidate'[d] = candidate[d]
RowsOK ==
    /\ candidate \in [Candidates -> CandidateRows]
    /\ \A c \in Candidates :
         /\ candidate[c].status \in Live <=> candidate[c].payload # {}
         /\ candidate[c].status = "accepted" <=> candidate[c].made # {}

\* One row is changed into one that the table may hold.
LEMMA OneRow ==
    ASSUME CapturesTypeOK, NEW c \in Candidates, NEW r \in CandidateRows,
           candidate' = [candidate EXCEPT ![c] = r],
           r.status \in Live <=> r.payload # {}, r.status = "accepted" <=> r.made # {}
    PROVE  /\ RowsOK' /\ candidate'[c] = r
           /\ \A d \in Candidates \ {c} : candidate'[d] = candidate[d]
<1>1. candidate' \in [Candidates -> CandidateRows] /\ candidate'[c] = r
  BY DEF CapturesTypeOK
<1>2. \A d \in Candidates \ {c} : candidate'[d] = candidate[d]
  BY DEF CapturesTypeOK
<1>3. \A d \in Candidates : /\ candidate'[d].status \in Live <=> candidate'[d].payload # {}
                            /\ candidate'[d].status = "accepted" <=> candidate'[d].made # {}
  BY <1>1, <1>2, CandidateTyped
<1> QED
  BY <1>1, <1>2, <1>3 DEF RowsOK

\* What each step does to the candidates.
LEMMA CandidatesChange ==
    ASSUME CapturesTypeOK, ReviewsOK, [CapturesNext]_captureVars
    PROVE  RowsOK' /\ (Narrowed \/ StagedNew)
<1> USE DEF Live, Terminal
<1>1. CASE AddCandidate
  <2>1. PICK payload \in Payloads, c \in Candidates :
            /\ ~Staged(payload) /\ candidate[c].status = "none"
            /\ candidate' = [candidate EXCEPT ![c] =
                  [NoCandidate EXCEPT !.status = "pending", !.payload = {payload},
                                      !.stamp = second, !.until = second + CandidateTtl]]
    BY <1>1 DEF AddCandidate
  <2> DEFINE a == [NoCandidate EXCEPT !.status = "pending"]
             b == [a EXCEPT !.payload = {payload}]
             e == [b EXCEPT !.stamp = second]
             r == [e EXCEPT !.until = second + CandidateTtl]
  <2>2. second \in Nat /\ second + CandidateTtl \in Nat
    BY SecondsAssumption DEF CapturesTypeOK
  <2>3. NoCandidate \in CandidateRows /\ NoCandidate.made = {}
    BY DEF NoCandidate, CandidateRows
  <2>4. a \in CandidateRows /\ a.status = "pending" /\ a.made = {}
    BY <2>3 DEF CandidateRows
  <2>5. b \in CandidateRows /\ b.status = "pending" /\ b.payload = {payload} /\ b.made = {}
    BY <2>4 DEF CandidateRows
  <2>6. e \in CandidateRows /\ e.status = "pending" /\ e.payload = {payload} /\ e.made = {}
    BY <2>2, <2>5 DEF CandidateRows
  <2>7. r \in CandidateRows /\ r.status = "pending" /\ r.payload = {payload} /\ r.made = {}
    BY <2>2, <2>6 DEF CandidateRows
  <2>8. candidate' = [candidate EXCEPT ![c] = r]
    BY <2>1
  <2> HIDE DEF r
  <2>9. RowsOK' /\ candidate'[c] = r /\ \A d \in Candidates \ {c} : candidate'[d] = candidate[d]
    BY <2>7, <2>8, OneRow
  <2> QED
    BY <2>1, <2>7, <2>9 DEF StagedNew
<1>2. ASSUME NEW at \in 0..MaxSecond, Prune(at) PROVE RowsOK' /\ Narrowed
  <2>1. at \in Nat
    BY SecondsAssumption
  <2>2. ASSUME NEW c \in Candidates
        PROVE  /\ candidate'[c] \in CandidateRows /\ candidate'[c].payload \subseteq candidate[c].payload
               /\ candidate'[c].status \in Live <=> candidate'[c].payload # {}
               /\ candidate'[c].status = "accepted" <=> candidate'[c].made # {}
    <3>1. candidate'[c] = IF candidate[c].status \in Live /\ candidate[c].until <= at
                          THEN Reduced(candidate[c], "expired", at) ELSE candidate[c]
      BY <1>2 DEF Prune
    <3>2. CASE candidate[c].status \in Live /\ candidate[c].until <= at
      <4> DEFINE r == Reduced(candidate[c], "expired", at)
      <4>1. r \in CandidateRows /\ r.status = "expired" /\ r.payload = {} /\ r.made = candidate[c].made
        BY <2>1, CandidateTyped, ReducedRow
      <4>2. candidate'[c] = r
        BY <3>1, <3>2
      <4> HIDE DEF r
      <4> QED
        BY <3>2, <4>1, <4>2, CandidateTyped
    <3>3. CASE ~(candidate[c].status \in Live /\ candidate[c].until <= at)
      BY <3>1, <3>3, CandidateTyped
    <3> QED
      BY <3>2, <3>3
  <2>3. candidate' \in [Candidates -> CandidateRows]
    BY <1>2, <2>2 DEF Prune
  <2> QED
    BY <2>2, <2>3 DEF RowsOK, Narrowed
<1>3. ASSUME NEW c \in Candidates, Erase(c) PROVE RowsOK' /\ Narrowed
  <2>1. NoCandidate \in CandidateRows
    BY DEF NoCandidate, CandidateRows
  <2>2. NoCandidate.status = "none" /\ NoCandidate.payload = {} /\ NoCandidate.made = {}
    BY DEF NoCandidate
  <2>3. candidate' = [candidate EXCEPT ![c] = NoCandidate]
    BY <1>3 DEF Erase
  <2>4. RowsOK' /\ candidate'[c] = NoCandidate /\ \A d \in Candidates \ {c} : candidate'[d] = candidate[d]
    BY <2>1, <2>2, <2>3, OneRow
  <2> QED
    BY <2>2, <2>4 DEF Narrowed
<1>4. ASSUME NEW p \in Reviewers, Quarantine(p) PROVE RowsOK' /\ Narrowed
  <2> DEFINE c == Subject(p)
             r == [[candidate[c] EXCEPT !.status = "conflicted"] EXCEPT !.stamp = AnsweredAt(p)]
  <2>1. c \in Candidates /\ AnsweredAt(p) \in Nat /\ candidate[c].status \in Live
    BY <1>4, Answering DEF Quarantine, Reviewable
  <2>2. [candidate[c] EXCEPT !.status = "conflicted"] \in CandidateRows
    BY <2>1, CandidateTyped DEF CandidateRows
  <2>3. /\ r \in CandidateRows /\ r.status = "conflicted" /\ r.payload = candidate[c].payload
        /\ r.made = candidate[c].made
    BY <2>1, <2>2, CandidateTyped DEF CandidateRows
  <2>4. candidate' = [candidate EXCEPT ![c] = r]
    BY <1>4, <2>1 DEF Quarantine, CapturesTypeOK
  <2> HIDE DEF c, r
  <2>5. /\ r.status \in Live <=> r.payload # {}
        /\ r.status = "accepted" <=> r.made # {}
    BY <2>1, <2>3, CandidateTyped
  <2> QED
    BY <2>1, <2>3, <2>4, <2>5, OneRow DEF Narrowed
<1>5. ASSUME NEW p \in Reviewers, Promote(p) PROVE RowsOK' /\ Narrowed
  <2> DEFINE c == Subject(p)
             r == Reduced(candidate[c], "accepted", AnsweredAt(p))
  <2>1. c \in Candidates /\ AnsweredAt(p) \in Nat /\ candidate[c].status \in Live
    BY <1>5, Answering DEF Promote, Reviewable
  <2>2. r \in CandidateRows /\ r.status = "accepted" /\ r.payload = {}
    BY <2>1, CandidateTyped, ReducedRow
  <2>3. PICK made \in Concepts : candidate' = [candidate EXCEPT ![c] = [r EXCEPT !.made = {made}]]
    <3> HIDE DEF c
    <3> USE DEF r
    <3> QED
      BY <1>5, <2>1 DEF Promote, CapturesTypeOK, c
  <2> HIDE DEF c, r
  <2> DEFINE m == [r EXCEPT !.made = {made}]
  <2>4. /\ m \in CandidateRows /\ m.status = "accepted" /\ m.payload = {} /\ m.made = {made}
    BY <2>2, MadeRow
  <2> HIDE DEF m
  <2>5. candidate' = [candidate EXCEPT ![c] = m]
    BY <2>3 DEF m
  <2> QED
    BY <2>1, <2>4, <2>5, OneRow DEF Narrowed
<1>6. ASSUME NEW p \in Reviewers, Reject(p) PROVE RowsOK' /\ Narrowed
  <2> DEFINE c == Subject(p)
             r == Reduced(candidate[c], "rejected", AnsweredAt(p))
  <2>1. c \in Candidates /\ AnsweredAt(p) \in Nat
    BY <1>6, Answering DEF Reject
  <2>2. CASE Reviewable(p)
    <3>1. candidate[c].status \in Live
      BY <2>2 DEF Reviewable
    <3>2. r \in CandidateRows /\ r.status = "rejected" /\ r.payload = {} /\ r.made = candidate[c].made
      BY <2>1, CandidateTyped, ReducedRow
    <3>3. candidate' = [candidate EXCEPT ![c] = r]
      BY <1>6, <2>1, <2>2 DEF Reject, CapturesTypeOK
    <3> HIDE DEF c, r
    <3> QED
      BY <2>1, <3>1, <3>2, <3>3, OneRow, CandidateTyped DEF Narrowed
  <2>3. CASE ~Reviewable(p)
    BY <1>6, <2>3 DEF Reject, CapturesTypeOK, RowsOK, Narrowed
  <2> QED
    BY <2>2, <2>3
<1>7. CASE UNCHANGED candidate
  BY <1>7 DEF CapturesTypeOK, RowsOK, Narrowed
<1> QED
  BY <1>1, <1>2, <1>3, <1>4, <1>5, <1>6, <1>7 DEF CapturesNext, captureVars, Show, Answer, AcceptRefused,
     AddConcept, EditText, Verify, Contradict, CaptureTick

-----------------------------------------------------------------------------
\* What a step makes of the nodes: titles stay, and a node that is made of a
\* candidate gets one that no other has.
TitlesStay ==
    \A n \in Concepts :
        concept'[n].captured => concept'[n].title = concept[n].title /\ concept[n].captured
TitleTaken ==
    \E made \in Concepts, t \in Titles :
        /\ Titled(t) = {} /\ concept'[made].title = {t}
        /\ \A n \in Concepts \ {made} : concept'[n] = concept[n]

\* One node is changed, the others stay.
LEMMA OneConcept ==
    ASSUME CapturesTypeOK, NEW n \in Concepts, NEW r \in ConceptRows,
           concept' = [concept EXCEPT ![n] = r]
    PROVE  /\ concept' \in [Concepts -> ConceptRows] /\ concept'[n] = r
           /\ \A m \in Concepts \ {n} : concept'[m] = concept[m]
BY DEF CapturesTypeOK

\* What each step does to the nodes: nothing but a promotion or a restored title
\* makes a live one, and only under a title that no live node has.
LEMMA ConceptsChange ==
    ASSUME CapturesTypeOK, ReviewsOK, [CapturesNext]_captureVars
    PROVE  concept' \in [Concepts -> ConceptRows] /\ (TitlesStay \/ TitleTaken)
<1>0. second \in Nat
  BY SecondsAssumption DEF CapturesTypeOK
<1>1. ASSUME NEW p \in Reviewers, Promote(p)
      PROVE  concept' \in [Concepts -> ConceptRows] /\ TitleTaken
  <2> DEFINE t == PayloadOf(Subject(p)).title
  <2>1. Subject(p) \in Candidates /\ AnsweredAt(p) \in Nat /\ candidate[Subject(p)].status \in Live
    BY <1>1, Answering DEF Promote, Reviewable
  <2>2. t \in Titles /\ Titled(t) = {}
    BY <1>1, <2>1, PayloadTyped, PayloadsAssumption DEF Promote, TitleFree
  <2>3. PICK made \in Concepts, trusted \in BOOLEAN :
            concept' = [concept EXCEPT ![made] =
               [title |-> {t}, trusted |-> trusted, text |-> 0,
                captured |-> TRUE, stamp |-> AnsweredAt(p)]]
    BY <1>1 DEF Promote
  <2> HIDE DEF t
  <2> DEFINE r == [title |-> {t}, trusted |-> trusted, text |-> 0, captured |-> TRUE, stamp |-> AnsweredAt(p)]
  <2>4. r \in ConceptRows /\ r.title = {t}
    BY <2>1, <2>2 DEF ConceptRows
  <2> HIDE DEF r
  <2>5. concept' = [concept EXCEPT ![made] = r]
    BY <2>3 DEF r
  <2>6. /\ concept' \in [Concepts -> ConceptRows] /\ concept'[made] = r
        /\ \A m \in Concepts \ {made} : concept'[m] = concept[m]
    BY <2>4, <2>5, OneConcept
  <2> QED
    BY <2>2, <2>4, <2>6 DEF TitleTaken
<1>2. ASSUME NEW n \in Concepts, NEW t \in Titles, AddConcept(n, t)
      PROVE  concept' \in [Concepts -> ConceptRows] /\ TitlesStay
  <2> DEFINE a == [NoConcept EXCEPT !.title = {t}]
             r == [a EXCEPT !.stamp = second]
  <2>1. NoConcept \in ConceptRows /\ ~NoConcept.captured
    BY DEF NoConcept, ConceptRows
  <2>2. a \in ConceptRows /\ ~a.captured
    BY <2>1 DEF ConceptRows
  <2>5. r \in ConceptRows /\ ~r.captured
    BY <1>0, <2>2 DEF ConceptRows
  <2>3. concept' = [concept EXCEPT ![n] = r]
    BY <1>2 DEF AddConcept
  <2> HIDE DEF r
  <2>4. /\ concept' \in [Concepts -> ConceptRows] /\ concept'[n] = r
        /\ \A m \in Concepts \ {n} : concept'[m] = concept[m]
    BY <2>5, <2>3, OneConcept
  <2> QED
    BY <2>5, <2>4 DEF TitlesStay
<1>3. ASSUME NEW n \in Concepts, EditText(n)
      PROVE  concept' \in [Concepts -> ConceptRows] /\ TitlesStay
  <2> DEFINE l == concept[n]
             r == [[l EXCEPT !.text = 1 - l.text] EXCEPT !.stamp = second]
  <2>1. l \in ConceptRows /\ 1 - l.text \in {0, 1}
    BY ConceptTyped
  <2>2. [l EXCEPT !.text = 1 - l.text] \in ConceptRows
    BY <2>1 DEF ConceptRows
  <2>3. r \in ConceptRows /\ r.title = l.title /\ r.captured = l.captured
    BY <1>0, <2>1, <2>2 DEF ConceptRows
  <2>4. concept' = [concept EXCEPT ![n] = r]
    BY <1>3 DEF EditText, CapturesTypeOK
  <2> HIDE DEF r
  <2>5. /\ concept' \in [Concepts -> ConceptRows] /\ concept'[n] = r
        /\ \A m \in Concepts \ {n} : concept'[m] = concept[m]
    BY <2>3, <2>4, OneConcept
  <2> QED
    BY <2>3, <2>5 DEF TitlesStay
<1>4. ASSUME NEW n \in Concepts, Verify(n)
      PROVE  concept' \in [Concepts -> ConceptRows] /\ TitlesStay
  <2> DEFINE l == concept[n]
             r == [[l EXCEPT !.trusted = ~l.trusted] EXCEPT !.stamp = second]
  <2>1. l \in ConceptRows /\ (~l.trusted) \in BOOLEAN
    BY ConceptTyped
  <2>2. [l EXCEPT !.trusted = ~l.trusted] \in ConceptRows
    BY <2>1 DEF ConceptRows
  <2>3. r \in ConceptRows /\ r.title = l.title /\ r.captured = l.captured
    BY <1>0, <2>1, <2>2 DEF ConceptRows
  <2>4. concept' = [concept EXCEPT ![n] = r]
    BY <1>4 DEF Verify, CapturesTypeOK
  <2> HIDE DEF r
  <2>5. /\ concept' \in [Concepts -> ConceptRows] /\ concept'[n] = r
        /\ \A m \in Concepts \ {n} : concept'[m] = concept[m]
    BY <2>3, <2>4, OneConcept
  <2> QED
    BY <2>3, <2>5 DEF TitlesStay
<1>5. CASE UNCHANGED concept
  BY <1>5 DEF CapturesTypeOK, TitlesStay
<1> QED
  BY <1>1, <1>2, <1>3, <1>4, <1>5 DEF CapturesNext, captureVars, AddCandidate, Prune, Erase, Show, Answer,
     AcceptRefused, Quarantine, Reject, Contradict, CaptureTick

\* Proposed connections resolve to nodes.
LEMMA RelationNext ==
    ASSUME CapturesTypeOK, ReviewsOK, [CapturesNext]_captureVars
    PROVE  relation' \subseteq Edges
<1>1. relation \subseteq Edges
  BY DEF CapturesTypeOK, Edges
<1>2. ASSUME NEW p \in Reviewers, Promote(p) PROVE relation' \subseteq Edges
  <2> DEFINE c == Subject(p)
  <2>1. c \in Candidates /\ candidate[c].status \in Live
    BY <1>2, Answering DEF Promote, Reviewable
  <2>2. PICK made \in Concepts : relation' = relation \cup Connected(c, made)
    BY <1>2 DEF Promote
  <2>3. PayloadOf(c) \in Payloads
    BY <2>1, PayloadTyped
  <2>4. \A t : Endpoint(c, t, made) \subseteq Concepts
    BY DEF Endpoint, Titled
  <2>5. \A l \in PayloadOf(c).links : l.kind \in {"relates_to", "contradicts"}
    BY <2>3, PayloadsAssumption
  <2>6. Connected(c, made) \subseteq Edges
    BY <2>4, <2>5 DEF Connected, Edges
  <2> QED
    BY <1>1, <2>2, <2>6
<1>3. ASSUME NEW n \in Concepts, NEW m \in Concepts, Contradict(n, m) PROVE relation' \subseteq Edges
  BY <1>1, <1>3 DEF Contradict, Edges
<1>4. CASE UNCHANGED relation
  BY <1>1, <1>4
<1> QED
  BY <1>2, <1>3, <1>4 DEF CapturesNext, captureVars, AddCandidate, Prune, Erase, Show, Answer,
     AcceptRefused, Quarantine, Reject, AddConcept, EditText, Verify, CaptureTick

-----------------------------------------------------------------------------
(* What reviewers were shown                                                *)

\* A token stands for the nodes and the contradictions that a reviewer is shown.
LEMMA TokenTyped ==
    ASSUME CapturesTypeOK, NEW c \in Candidates
    PROVE  /\ Token(c) \in Tokens /\ Standing(c) \subseteq Concepts \X BOOLEAN
           /\ TextOf(c) \subseteq Concepts \X {0, 1} /\ Contradictions(c) \subseteq Edges
           /\ Standing(c) = {<<x[1], x[2]>> : x \in Token(c).nodes}
           /\ Contradictions(c) = Token(c).contradictions
<1>1. Relevant(c) \subseteq Concepts
  BY DEF Relevant, Titled
<1>2. Contradictions(c) \subseteq Edges
  BY DEF Contradictions, CapturesTypeOK, Edges
<1>3. Standing(c) \subseteq Concepts \X BOOLEAN /\ TextOf(c) \subseteq Concepts \X {0, 1}
  BY <1>1, ConceptTyped DEF Standing, TextOf
<1>4. {<<n, concept[n].trusted, concept[n].stamp>> : n \in Relevant(c)} \subseteq Concepts \X BOOLEAN \X Nat
  BY <1>1, ConceptTyped
<1>5. <<candidate[c].status, candidate[c].stamp, candidate[c].until>>
        \in ({"none"} \cup Live \cup Terminal) \X Nat \X Nat
  BY CandidateTyped
<1>6. Token(c) \in Tokens
  BY <1>2, <1>4, <1>5 DEF Token, Tokens
<1>7. Standing(c) = {<<x[1], x[2]>> : x \in Token(c).nodes}
  <2> DEFINE N == {<<n, concept[n].trusted, concept[n].stamp>> : n \in Relevant(c)}
  <2>1. Token(c).nodes = N
    BY DEF Token
  <2>2. \A x \in N : \E n \in Relevant(c) : x[1] = n /\ x[2] = concept[n].trusted
    OBVIOUS
  <2>3. \A n \in Relevant(c) : \E x \in N : x[1] = n /\ x[2] = concept[n].trusted
    <3> SUFFICES ASSUME NEW n \in Relevant(c)
                 PROVE  \E x \in N : x[1] = n /\ x[2] = concept[n].trusted
      OBVIOUS
    <3> WITNESS <<n, concept[n].trusted, concept[n].stamp>> \in N
    <3> QED
      OBVIOUS
  <2> HIDE DEF N
  <2> QED
    BY <2>1, <2>2, <2>3 DEF Standing
<1> QED
  BY <1>2, <1>3, <1>6, <1>7 DEF Token

\* A review keeps what was shown with its token.
LEMMA ReviewsNext ==
    ASSUME CapturesTypeOK, ReviewsOK, [CapturesNext]_captureVars
    PROVE  ReviewsOK'
<1>1. NoReview \in ReviewRows
  BY DEF NoReview, ReviewRows
<1>2. ASSUME NEW p \in Reviewers, NEW r \in ReviewRows, review' = [review EXCEPT ![p] = r],
             r.at # {} => r.c # {},
             \A t \in r.token : /\ r.standing = {<<x[1], x[2]>> : x \in t.nodes}
                                /\ r.contradictions = t.contradictions
      PROVE  ReviewsOK'
  <2>1. review' \in [Reviewers -> ReviewRows] /\ review'[p] = r
    BY <1>2 DEF ReviewsOK
  <2>2. \A q \in Reviewers \ {p} : review'[q] = review[q]
    BY <1>2 DEF ReviewsOK
  <2>3. \A q \in Reviewers : (review'[q].at # {} => review'[q].c # {}) /\ ShownBy(q)'
    BY <1>2, <2>1, <2>2 DEF ReviewsOK, ShownBy
  <2> QED
    BY <2>1, <2>3 DEF ReviewsOK
<1>3. ASSUME NEW p \in Reviewers, Forgets(p) PROVE ReviewsOK'
  <2>1. NoReview.at = {} /\ NoReview.token = {}
    BY DEF NoReview
  <2> QED
    BY <1>1, <1>2, <1>3, <2>1 DEF Forgets
<1>4. ASSUME NEW p \in Reviewers, NEW c \in Candidates, Show(p, c) PROVE ReviewsOK'
  <2> DEFINE r == [c |-> {c}, token |-> {Token(c)}, standing |-> Standing(c), text |-> TextOf(c),
                   contradictions |-> Contradictions(c), at |-> {}]
  <2>1. r \in ReviewRows
    BY TokenTyped DEF ReviewRows
  <2>2. r.at = {} /\ r.token = {Token(c)} /\ r.standing = Standing(c) /\ r.contradictions = Contradictions(c)
    OBVIOUS
  <2>3. review' = [review EXCEPT ![p] = r]
    BY <1>4 DEF Show
  <2> HIDE DEF r
  <2>4. \A t \in r.token : /\ r.standing = {<<x[1], x[2]>> : x \in t.nodes}
                           /\ r.contradictions = t.contradictions
    BY <2>2, TokenTyped
  <2> QED
    BY <1>2, <2>1, <2>2, <2>3, <2>4
<1>5. ASSUME NEW p \in Reviewers, Answer(p) PROVE ReviewsOK'
  <2> DEFINE r == [review[p] EXCEPT !.at = {second}]
  <2>1. review[p] \in ReviewRows /\ second \in 0..MaxSecond
    BY DEF ReviewsOK, CapturesTypeOK
  <2>2. /\ r \in ReviewRows /\ r.c = review[p].c /\ r.token = review[p].token
        /\ r.standing = review[p].standing /\ r.contradictions = review[p].contradictions
    BY <2>1 DEF ReviewRows
  <2>3. review' = [review EXCEPT ![p] = r]
    BY <1>5 DEF Answer, ReviewsOK
  <2> HIDE DEF r
  <2>4. r.c # {}
    BY <1>5, <2>2 DEF Answer
  <2>5. \A t \in r.token : /\ r.standing = {<<x[1], x[2]>> : x \in t.nodes}
                           /\ r.contradictions = t.contradictions
    BY <2>2 DEF ReviewsOK, ShownBy
  <2> QED
    BY <1>2, <2>2, <2>3, <2>4, <2>5
<1>6. CASE UNCHANGED review
  BY <1>6 DEF ReviewsOK, ShownBy
<1> QED
  BY <1>3, <1>4, <1>5, <1>6 DEF CapturesNext, captureVars, AddCandidate, Prune, Erase,
     AcceptRefused, Quarantine, Promote, Reject, AddConcept, EditText, Verify, Contradict, CaptureTick

-----------------------------------------------------------------------------
LEMMA CapturedOnceNext ==
    ASSUME CapturesInv, CapturesTypeOK', [CapturesNext]_captureVars
    PROVE  OnePayload' /\ CapturedOnce'
<1> USE DEF CapturesInv
<1>1. ASSUME NEW c \in Candidates, NEW d \in Candidates,
             candidate'[c].payload \cap candidate'[d].payload # {}
      PROVE  c = d
  <2>1. CASE Narrowed
    BY <1>1, <2>1 DEF Narrowed, CapturedOnce
  <2>2. CASE StagedNew
    <3>1. PICK payload \in Payloads, e \in Candidates :
            /\ ~Staged(payload) /\ candidate'[e].payload = {payload}
            /\ \A f \in Candidates \ {e} : candidate'[f] = candidate[f]
      BY <2>2 DEF StagedNew
    <3>2. \A f \in Candidates : payload \notin candidate[f].payload
      BY <3>1, CandidateTyped DEF Staged, StagedLive
    <3> QED
      BY <1>1, <3>1, <3>2 DEF CapturedOnce
  <2> QED
    BY <2>1, <2>2, CandidatesChange
<1>2. OnePayload'
  <2>1. CASE Narrowed
    BY <2>1 DEF Narrowed, OnePayload
  <2>2. CASE StagedNew
    BY <2>2 DEF StagedNew, OnePayload
  <2> QED
    BY <2>1, <2>2, CandidatesChange
<1>3. ASSUME NEW n \in Concepts, NEW m \in Concepts,
             concept'[n].captured, concept'[m].captured, concept'[n].title = concept'[m].title
      PROVE  n = m
  <2>1. CASE TitlesStay
    BY <1>3, <2>1 DEF TitlesStay, CapturedOnce
  <2>2. CASE TitleTaken
    <3>1. PICK made \in Concepts, t \in Titles :
            /\ Titled(t) = {} /\ concept'[made].title = {t}
            /\ \A o \in Concepts \ {made} : concept'[o] = concept[o]
      BY <2>2 DEF TitleTaken
    <3>2. \A o \in Concepts : concept[o].title # {t}
      BY <3>1 DEF Titled
    <3> QED
      BY <1>3, <3>1, <3>2 DEF CapturedOnce
  <2> QED
    BY <2>1, <2>2, ConceptsChange
<1> QED
  BY <1>1, <1>2, <1>3 DEF CapturedOnce

\* Nothing is staged at first.
LEMMA CapturesStart == CapturesInit => CapturesInv
<1> SUFFICES ASSUME CapturesInit PROVE CapturesInv
  OBVIOUS
<1> USE SecondsAssumption DEF CapturesInit
<1>1. NoCandidate \in CandidateRows /\ NoConcept \in ConceptRows /\ NoReview \in ReviewRows
  BY DEF NoCandidate, CandidateRows, NoConcept, ConceptRows, NoReview, ReviewRows
<1>2. /\ NoCandidate.status = "none" /\ NoCandidate.payload = {} /\ NoCandidate.made = {}
      /\ NoConcept.captured = FALSE /\ NoReview.at = {} /\ NoReview.token = {}
  BY DEF NoCandidate, NoConcept, NoReview
<1>3. CapturesTypeOK
  BY <1>1, <1>2 DEF CapturesTypeOK, Live
<1>4. ReviewsOK
  BY <1>1, <1>2 DEF ReviewsOK, ShownBy
<1> QED
  BY <1>2, <1>3, <1>4 DEF CapturesInv, OnePayload, CapturedOnce

\* Every step keeps the invariant.
LEMMA CapturesKeep == CapturesInv /\ [CapturesNext]_captureVars => CapturesInv'
<1> SUFFICES ASSUME CapturesInv, [CapturesNext]_captureVars PROVE CapturesInv'
  OBVIOUS
<1>1. CapturesTypeOK /\ ReviewsOK
  BY DEF CapturesInv
<1>2. second' \in 0..MaxSecond
  <2>1. CASE CaptureTick
    BY <1>1, <2>1, SecondsAssumption DEF CapturesTypeOK, CaptureTick
  <2>2. CASE UNCHANGED second
    BY <1>1, <2>2 DEF CapturesTypeOK
  <2> QED
    BY <2>1, <2>2 DEF CapturesNext, captureVars, AddCandidate, Prune, Erase, Show,
       Answer, AcceptRefused, Quarantine, Promote, Reject, AddConcept, EditText, Verify, Contradict
<1>3. CapturesTypeOK'
  BY <1>1, <1>2, CandidatesChange, ConceptsChange, RelationNext DEF CapturesTypeOK, RowsOK, Edges
<1> QED
  BY <1>1, <1>3, ReviewsNext, CapturedOnceNext DEF CapturesInv

\* The invariant of the candidates holds of every behaviour (store.py:
\* add_capture_candidate to prune_capture_candidates).
THEOREM CapturesInvariant == CapturesSpec => []CapturesInv
<1> QED
  BY CapturesStart, CapturesKeep, PTL DEF CapturesSpec

\* Candidates, the graph beside them and the reviews keep their shape (store.py:
\* add_capture_candidate to prune_capture_candidates).
THEOREM CapturesTypeCorrect == CapturesSpec => []CapturesTypeOK
<1>1. CapturesInv => CapturesTypeOK
  BY DEF CapturesInv
<1> QED
  BY <1>1, CapturesInvariant, PTL

\* No two live candidates have one payload and no two nodes made of candidates one
\* title, whoever promotes them at the same time (store.py: promote_capture_candidate).
THEOREM OneOfEach == CapturesSpec => []CapturedOnce
<1>1. CapturesInv => CapturedOnce
  BY DEF CapturesInv
<1> QED
  BY <1>1, CapturesInvariant, PTL

\* A decision that goes through finds what its reviewer was shown.
LEMMA DecidesOnToken ==
    ASSUME CapturesInv, NEW p \in Reviewers, Decides(p)
    PROVE  /\ Standing(Subject(p)) = review[p].standing
           /\ Contradictions(Subject(p)) = review[p].contradictions
<1>1. Subject(p) \in Candidates /\ review[p].token = {Token(Subject(p))}
  BY Answering DEF CapturesInv, Decides, Promote, Quarantine, Fresh
<1>2. ShownBy(p)
  BY DEF CapturesInv, ReviewsOK
<1> QED
  BY <1>1, <1>2, TokenTyped DEF CapturesInv, ShownBy

\* What is promoted, rejected or quarantined stands as it was shown to whoever decides
\* (store.py: _begin_capture_review).
THEOREM ShownIsDecided == CapturesSpec => DecidedAsShown
<1>1. CapturesInv /\ [CapturesNext]_captureVars
        => [\A p \in Reviewers : Decides(p) =>
              /\ Standing(Subject(p)) = review[p].standing
              /\ Contradictions(Subject(p)) = review[p].contradictions]_captureVars
  BY DecidesOnToken
<1> QED
  BY <1>1, CapturesInvariant, PTL DEF CapturesSpec, DecidedAsShown

-----------------------------------------------------------------------------
(* Migration of the schema.  A file that has a stamp only gains tables and *)
(* its stamp says which it has; a file without one keeps what was found    *)
(* until a snapshot of it is complete; only who holds the lock changes     *)
(* either.                                                                 *)

Migrating == {"snapshot", "meta", "stamp", "record", "migrate", "script"}

\* What the file holds: see StoresAssumption.  As long as it has no stamp its
\* tables are those that were found.
FileOK ==
    /\ 1 \in db.shape \/ ~db.nodes
    /\ found.nodes => db.nodes
    /\ db.stamp = 0 => found.stamp = 0 /\ db.shape = found.shape
    /\ db.stamp # 0 => db.meta /\ 1..db.stamp \subseteq Covered
    /\ \A v \in db.shape : v >= FirstStamped /\ v # ScriptVersion =>
         IF db.stamp = 0 THEN CurrentShape \in db.shape ELSE v <= db.stamp

\* One process holds the lock, and who needs it does.
LockOK ==
    /\ \A p, q \in lock : p = q
    /\ \A p \in Openers : open[p].at \in Migrating \cup {"check"} => p \in lock

\* The shape that was found is on disk, or there is no need to go back to it.
Safe == found.shape = {} \/ Unfinished \/ found.shape \in snapshots

Old == db.stamp = 0 /\ CurrentShape \notin db.shape /\ 1 \in db.shape

\* What a process read before it had the lock only ever becomes true.
LookedOK(p) ==
    /\ open[p].hasMeta => db.meta
    /\ open[p].hasNodes => db.nodes
    /\ open[p].at = "version" => open[p].hasNodes \/ ~found.nodes
    /\ open[p].at \in {"wait", "check"} =>
         /\ open[p].plan = "fresh" => ~found.nodes
         /\ open[p].plan = "unstamped" => db.nodes /\ db.meta
         /\ open[p].plan = "ancient" => db.nodes
         /\ open[p].plan = "versioned" => db.stamp # 0

\* Under the lock: what a migration has done, and which one comes next.
MigratesOK(p) ==
    /\ open[p].at = "snapshot" =>
         IF open[p].plan = "ancient" THEN Old /\ open[p].next = 2
         ELSE db.stamp # 0 /\ open[p].next = db.stamp + 1
    /\ open[p].at \in {"meta", "stamp"} => Old /\ open[p].next = 2
    /\ open[p].at = "stamp" => db.meta
    /\ open[p].at = "record" => db.stamp # 0 /\ open[p].next = db.stamp + 1
    /\ open[p].at \in {"meta", "stamp", "record"} =>
         open[p].copy # {} /\ open[p].copy \subseteq snapshots /\ Safe
    /\ open[p].at \in {"migrate", "script"} =>
         /\ db.stamp # 0 /\ db.stamp < open[p].next
         /\ 1..(open[p].next - 1) \subseteq Covered
         /\ Safe /\ db.recovery # {} /\ db.recovery \subseteq snapshots
    /\ open[p].at = "script" => open[p].next \in Versions /\ open[p].next \in db.shape

\* Who works with the store has what its build relies on.
WorksOK(p) ==
    /\ Usable(p) => db.stamp # 0 /\ 1..BuildOf[p] \subseteq Covered
    /\ At(p, "open") => open[p].identity \in {{}, db.identity}
    /\ At(p, "agree") => open[p].identity = {}

SchemaInv ==
    /\ SchemaTypeOK /\ FileOK /\ LockOK /\ Recoverable
    /\ \A p \in Openers : LookedOK(p) /\ MigratesOK(p) /\ WorksOK(p)

-----------------------------------------------------------------------------
(* What the steps do to a process and to the file                           *)

\* A process in this place, with these fields.
Seat(l, at, hasMeta, hasNodes, plan, next, copy, identity) ==
    /\ l \in Opens
    /\ l.at = at /\ l.hasMeta = hasMeta /\ l.hasNodes = hasNodes /\ l.plan = plan
    /\ l.next = next /\ l.copy = copy /\ l.identity = identity

\* What the changes of the fields of a process leave of them.
LEMMA Seats ==
    ASSUME NEW l \in Opens
    PROVE  /\ \A at \in Steps :
                Seat([l EXCEPT !.at = at], at, l.hasMeta, l.hasNodes, l.plan, l.next, l.copy, l.identity)
           /\ \A plan \in Plans :
                Seat([l EXCEPT !.plan = plan], l.at, l.hasMeta, l.hasNodes, plan, l.next, l.copy, l.identity)
           /\ \A at \in Steps, hasMeta \in BOOLEAN :
                Seat([l EXCEPT !.at = at, !.hasMeta = hasMeta], at, hasMeta, l.hasNodes, l.plan, l.next, l.copy, l.identity)
           /\ \A at \in Steps, hasNodes \in BOOLEAN :
                Seat([l EXCEPT !.at = at, !.hasNodes = hasNodes], at, l.hasMeta, hasNodes, l.plan, l.next, l.copy, l.identity)
           /\ \A at \in Steps, plan \in Plans :
                Seat([l EXCEPT !.at = at, !.plan = plan], at, l.hasMeta, l.hasNodes, plan, l.next, l.copy, l.identity)
           /\ \A at \in Steps, next \in Nat :
                Seat([l EXCEPT !.at = at, !.next = next], at, l.hasMeta, l.hasNodes, l.plan, next, l.copy, l.identity)
           /\ \A next \in Nat, at \in Steps :
                Seat([l EXCEPT !.next = next, !.at = at], at, l.hasMeta, l.hasNodes, l.plan, next, l.copy, l.identity)
           /\ \A at \in Steps, plan \in Plans, next \in Nat :
                Seat([l EXCEPT !.at = at, !.plan = plan, !.next = next], at, l.hasMeta, l.hasNodes, plan, next, l.copy, l.identity)
           /\ \A at \in Steps, copy \in SUBSET SUBSET Versions :
                Seat([l EXCEPT !.at = at, !.copy = copy], at, l.hasMeta, l.hasNodes, l.plan, l.next, copy, l.identity)
           /\ \A at \in Steps, identity \in SUBSET Openers :
                Seat([l EXCEPT !.at = at, !.identity = identity], at, l.hasMeta, l.hasNodes, l.plan, l.next, l.copy, identity)
<1> USE DEF Opens, Seat
<1>1. \A at \in Steps :
         Seat([l EXCEPT !.at = at], at, l.hasMeta, l.hasNodes, l.plan, l.next, l.copy, l.identity)
  OBVIOUS
<1>2. \A plan \in Plans :
         Seat([l EXCEPT !.plan = plan], l.at, l.hasMeta, l.hasNodes, plan, l.next, l.copy, l.identity)
  OBVIOUS
<1>3. \A at \in Steps, hasMeta \in BOOLEAN :
         Seat([l EXCEPT !.at = at, !.hasMeta = hasMeta], at, hasMeta, l.hasNodes, l.plan, l.next, l.copy, l.identity)
  <2> SUFFICES ASSUME NEW at \in Steps, NEW hasMeta \in BOOLEAN
               PROVE  Seat([l EXCEPT !.at = at, !.hasMeta = hasMeta], at, hasMeta, l.hasNodes, l.plan, l.next, l.copy, l.identity)
    OBVIOUS
  <2>1. [l EXCEPT !.at = at] \in Opens
    OBVIOUS
  <2>2. [[l EXCEPT !.at = at] EXCEPT !.hasMeta = hasMeta] \in Opens
    BY <2>1
  <2> QED
    BY <2>2
<1>4. \A at \in Steps, hasNodes \in BOOLEAN :
         Seat([l EXCEPT !.at = at, !.hasNodes = hasNodes], at, l.hasMeta, hasNodes, l.plan, l.next, l.copy, l.identity)
  <2> SUFFICES ASSUME NEW at \in Steps, NEW hasNodes \in BOOLEAN
               PROVE  Seat([l EXCEPT !.at = at, !.hasNodes = hasNodes], at, l.hasMeta, hasNodes, l.plan, l.next, l.copy, l.identity)
    OBVIOUS
  <2>1. [l EXCEPT !.at = at] \in Opens
    OBVIOUS
  <2>2. [[l EXCEPT !.at = at] EXCEPT !.hasNodes = hasNodes] \in Opens
    BY <2>1
  <2> QED
    BY <2>2
<1>5. \A at \in Steps, plan \in Plans :
         Seat([l EXCEPT !.at = at, !.plan = plan], at, l.hasMeta, l.hasNodes, plan, l.next, l.copy, l.identity)
  <2> SUFFICES ASSUME NEW at \in Steps, NEW plan \in Plans
               PROVE  Seat([l EXCEPT !.at = at, !.plan = plan], at, l.hasMeta, l.hasNodes, plan, l.next, l.copy, l.identity)
    OBVIOUS
  <2>1. [l EXCEPT !.at = at] \in Opens
    OBVIOUS
  <2>2. [[l EXCEPT !.at = at] EXCEPT !.plan = plan] \in Opens
    BY <2>1
  <2> QED
    BY <2>2
<1>6. \A at \in Steps, next \in Nat :
         Seat([l EXCEPT !.at = at, !.next = next], at, l.hasMeta, l.hasNodes, l.plan, next, l.copy, l.identity)
  <2> SUFFICES ASSUME NEW at \in Steps, NEW next \in Nat
               PROVE  Seat([l EXCEPT !.at = at, !.next = next], at, l.hasMeta, l.hasNodes, l.plan, next, l.copy, l.identity)
    OBVIOUS
  <2>1. [l EXCEPT !.at = at] \in Opens
    OBVIOUS
  <2>2. [[l EXCEPT !.at = at] EXCEPT !.next = next] \in Opens
    BY <2>1
  <2> QED
    BY <2>2
<1>7. \A next \in Nat, at \in Steps :
         Seat([l EXCEPT !.next = next, !.at = at], at, l.hasMeta, l.hasNodes, l.plan, next, l.copy, l.identity)
  <2> SUFFICES ASSUME NEW next \in Nat, NEW at \in Steps
               PROVE  Seat([l EXCEPT !.next = next, !.at = at], at, l.hasMeta, l.hasNodes, l.plan, next, l.copy, l.identity)
    OBVIOUS
  <2>1. [l EXCEPT !.next = next] \in Opens
    OBVIOUS
  <2>2. [[l EXCEPT !.next = next] EXCEPT !.at = at] \in Opens
    BY <2>1
  <2> QED
    BY <2>2
<1>8. \A at \in Steps, plan \in Plans, next \in Nat :
         Seat([l EXCEPT !.at = at, !.plan = plan, !.next = next], at, l.hasMeta, l.hasNodes, plan, next, l.copy, l.identity)
  <2> SUFFICES ASSUME NEW at \in Steps, NEW plan \in Plans, NEW next \in Nat
               PROVE  Seat([l EXCEPT !.at = at, !.plan = plan, !.next = next], at, l.hasMeta, l.hasNodes, plan, next, l.copy, l.identity)
    OBVIOUS
  <2>1. [l EXCEPT !.at = at] \in Opens
    OBVIOUS
  <2>2. [[l EXCEPT !.at = at] EXCEPT !.plan = plan] \in Opens
    BY <2>1
  <2>3. [[[l EXCEPT !.at = at] EXCEPT !.plan = plan] EXCEPT !.next = next] \in Opens
    BY <2>2
  <2> QED
    BY <2>3
<1>9. \A at \in Steps, copy \in SUBSET SUBSET Versions :
         Seat([l EXCEPT !.at = at, !.copy = copy], at, l.hasMeta, l.hasNodes, l.plan, l.next, copy, l.identity)
  <2> SUFFICES ASSUME NEW at \in Steps, NEW copy \in SUBSET SUBSET Versions
               PROVE  Seat([l EXCEPT !.at = at, !.copy = copy], at, l.hasMeta, l.hasNodes, l.plan, l.next, copy, l.identity)
    OBVIOUS
  <2>1. [l EXCEPT !.at = at] \in Opens
    OBVIOUS
  <2>2. [[l EXCEPT !.at = at] EXCEPT !.copy = copy] \in Opens
    BY <2>1
  <2> QED
    BY <2>2
<1>10. \A at \in Steps, identity \in SUBSET Openers :
         Seat([l EXCEPT !.at = at, !.identity = identity], at, l.hasMeta, l.hasNodes, l.plan, l.next, l.copy, identity)
  <2> SUFFICES ASSUME NEW at \in Steps, NEW identity \in SUBSET Openers
               PROVE  Seat([l EXCEPT !.at = at, !.identity = identity], at, l.hasMeta, l.hasNodes, l.plan, l.next, l.copy, identity)
    OBVIOUS
  <2>1. [l EXCEPT !.at = at] \in Opens
    OBVIOUS
  <2>2. [[l EXCEPT !.at = at] EXCEPT !.identity = identity] \in Opens
    BY <2>1
  <2> QED
    BY <2>2
<1> QED
  BY <1>1, <1>2, <1>3, <1>4, <1>5, <1>6, <1>7, <1>8, <1>9, <1>10

\* p is in this place after the step; no other process moves.
Turns(p, at, hasMeta, hasNodes, plan, next, copy, identity) ==
    /\ open' \in [Openers -> Opens]
    /\ \A q \in Openers \ {p} : open'[q] = open[q]
    /\ Seat(open'[p], at, hasMeta, hasNodes, plan, next, copy, identity)

\* The process of a step has its new place, the others stay in theirs.
LEMMA Sits ==
    ASSUME SchemaTypeOK, NEW p \in Openers, NEW l, open' = [open EXCEPT ![p] = l],
           NEW at, NEW hasMeta, NEW hasNodes, NEW plan, NEW next, NEW copy, NEW identity,
           Seat(l, at, hasMeta, hasNodes, plan, next, copy, identity)
    PROVE  Turns(p, at, hasMeta, hasNodes, plan, next, copy, identity)
<1>1. open'[p] = l /\ open' \in [Openers -> Opens]
  BY DEF SchemaTypeOK, Seat
<1>2. \A q \in Openers \ {p} : open'[q] = open[q]
  BY DEF SchemaTypeOK
<1> QED
  BY <1>1, <1>2 DEF Turns

\* A process has its fields.
LEMMA OpenTyped ==
    ASSUME SchemaTypeOK, NEW p \in Openers
    PROVE  /\ open[p] \in Opens /\ open[p].at \in Steps
           /\ open[p].hasMeta \in BOOLEAN /\ open[p].hasNodes \in BOOLEAN
           /\ open[p].plan \in Plans /\ open[p].next \in Nat
           /\ open[p].copy \subseteq SUBSET Versions /\ open[p].identity \subseteq Openers
BY DEF SchemaTypeOK, Opens

\* The file has its fields.
LEMMA FileTyped ==
    ASSUME SchemaTypeOK
    PROVE  /\ db \in Files
           /\ db.nodes \in BOOLEAN /\ db.meta \in BOOLEAN /\ db.stamp \in {0} \cup Versions
           /\ db.stamp \in Nat
           /\ db.shape \subseteq Versions /\ db.recovery \subseteq SUBSET Versions
           /\ db.profile \subseteq Profiles /\ db.identity \subseteq Openers
           /\ Versions \subseteq Nat \ {0} /\ 1 \in Versions
           /\ \A p \in Openers : BuildOf[p] \in Versions /\ 1..BuildOf[p] \subseteq Versions
<1>1. db \in Files
  BY DEF SchemaTypeOK
<1>2. Versions \subseteq Nat \ {0} /\ 1 \in Versions
  BY VersionsAssumption
<1>3. /\ db.nodes \in BOOLEAN /\ db.meta \in BOOLEAN /\ db.stamp \in {0} \cup Versions
      /\ db.shape \subseteq Versions /\ db.recovery \subseteq SUBSET Versions
      /\ db.profile \subseteq Profiles /\ db.identity \subseteq Openers
  BY <1>1 DEF Files
<1>4. db.stamp \in Nat
  <2>1. db.stamp = 0 \/ db.stamp \in Versions
    BY <1>3
  <2>2. \A v \in Versions : v \in Nat
    BY <1>2
  <2> QED
    BY <2>1, <2>2
<1>5. \A p \in Openers : BuildOf[p] \in Versions /\ 1..BuildOf[p] \subseteq Versions
  BY VersionsAssumption
<1> QED
  BY <1>1, <1>2, <1>3, <1>4, <1>5

\* The place of a process that has just failed, or moves on.
Closed(p) == Turns(p, "closed", FALSE, FALSE, "none", 0, {}, {})
Goes(p, at) ==
    Turns(p, at, open[p].hasMeta, open[p].hasNodes, open[p].plan, open[p].next, open[p].copy, open[p].identity)

\* A process that fails is closed and gives the lock back.
LEMMA FailsCloses ==
    ASSUME SchemaTypeOK, NEW p \in Openers, Fails(p)
    PROVE  Closed(p)
<1>1. Seat(NotOpen, "closed", FALSE, FALSE, "none", 0, {}, {})
  BY DEF Seat, NotOpen, Opens, Steps, Plans
<1> QED
  BY <1>1, Sits DEF Fails, Closed

\* A process that moves on has another place and what it had.
LEMMA MovesGoes ==
    ASSUME SchemaTypeOK, NEW p \in Openers, NEW at \in Steps, Moves(p, at)
    PROVE  Goes(p, at)
<1> DEFINE l == [open[p] EXCEPT !.at = at]
<1>1. open' = [open EXCEPT ![p] = l]
  BY DEF Moves, SchemaTypeOK
<1>2. Seat(l, at, open[p].hasMeta, open[p].hasNodes, open[p].plan, open[p].next, open[p].copy,
           open[p].identity)
  BY OpenTyped, Seats
<1> HIDE DEF l
<1> QED
  BY <1>1, <1>2, Sits DEF Goes

\* The file after a step.
Disk(f, nodes, meta, stamp, shape, recovery, profile, identity) ==
    /\ f \in Files
    /\ f.nodes = nodes /\ f.meta = meta /\ f.stamp = stamp /\ f.shape = shape
    /\ f.recovery = recovery /\ f.profile = profile /\ f.identity = identity

\* What the changes of the fields of the file leave of them.
LEMMA Disks ==
    ASSUME NEW f \in Files
    PROVE  /\ \A stamp \in {0} \cup Versions, shape \in SUBSET Versions :
                Disk([f EXCEPT !.nodes = TRUE, !.meta = TRUE, !.stamp = stamp, !.shape = shape], TRUE, TRUE, stamp, shape, f.recovery, f.profile, f.identity)
           /\ \A shape \in SUBSET Versions, stamp \in {0} \cup Versions :
                Disk([f EXCEPT !.shape = shape, !.stamp = stamp], f.nodes, f.meta, stamp, shape, f.recovery, f.profile, f.identity)
           /\ \A stamp \in {0} \cup Versions :
                Disk([f EXCEPT !.stamp = stamp], f.nodes, f.meta, stamp, f.shape, f.recovery, f.profile, f.identity)
           /\ \A shape \in SUBSET Versions :
                Disk([f EXCEPT !.shape = shape], f.nodes, f.meta, f.stamp, shape, f.recovery, f.profile, f.identity)
           /\ Disk([f EXCEPT !.meta = TRUE], f.nodes, TRUE, f.stamp, f.shape, f.recovery, f.profile, f.identity)
           /\ \A recovery \in SUBSET SUBSET Versions :
                Disk([f EXCEPT !.recovery = recovery], f.nodes, f.meta, f.stamp, f.shape, recovery, f.profile, f.identity)
           /\ \A profile \in SUBSET Profiles :
                Disk([f EXCEPT !.profile = profile], f.nodes, f.meta, f.stamp, f.shape, f.recovery, profile, f.identity)
           /\ \A identity \in SUBSET Openers :
                Disk([f EXCEPT !.identity = identity], f.nodes, f.meta, f.stamp, f.shape, f.recovery, f.profile, identity)
<1> USE DEF Files, Disk
<1>1. \A stamp \in {0} \cup Versions, shape \in SUBSET Versions :
         Disk([f EXCEPT !.nodes = TRUE, !.meta = TRUE, !.stamp = stamp, !.shape = shape], TRUE, TRUE, stamp, shape, f.recovery, f.profile, f.identity)
  <2> SUFFICES ASSUME NEW stamp \in {0} \cup Versions, NEW shape \in SUBSET Versions
               PROVE  Disk([f EXCEPT !.nodes = TRUE, !.meta = TRUE, !.stamp = stamp, !.shape = shape], TRUE, TRUE, stamp, shape, f.recovery, f.profile, f.identity)
    OBVIOUS
  <2>1. [f EXCEPT !.nodes = TRUE] \in Files
    OBVIOUS
  <2>2. [[f EXCEPT !.nodes = TRUE] EXCEPT !.meta = TRUE] \in Files
    BY <2>1
  <2>3. [[[f EXCEPT !.nodes = TRUE] EXCEPT !.meta = TRUE] EXCEPT !.stamp = stamp] \in Files
    BY <2>2
  <2>4. [[[[f EXCEPT !.nodes = TRUE] EXCEPT !.meta = TRUE] EXCEPT !.stamp = stamp] EXCEPT !.shape = shape] \in Files
    BY <2>3
  <2> QED
    BY <2>4
<1>2. \A shape \in SUBSET Versions, stamp \in {0} \cup Versions :
         Disk([f EXCEPT !.shape = shape, !.stamp = stamp], f.nodes, f.meta, stamp, shape, f.recovery, f.profile, f.identity)
  <2> SUFFICES ASSUME NEW shape \in SUBSET Versions, NEW stamp \in {0} \cup Versions
               PROVE  Disk([f EXCEPT !.shape = shape, !.stamp = stamp], f.nodes, f.meta, stamp, shape, f.recovery, f.profile, f.identity)
    OBVIOUS
  <2>1. [f EXCEPT !.shape = shape] \in Files
    OBVIOUS
  <2>2. [[f EXCEPT !.shape = shape] EXCEPT !.stamp = stamp] \in Files
    BY <2>1
  <2> QED
    BY <2>2
<1>3. \A stamp \in {0} \cup Versions :
         Disk([f EXCEPT !.stamp = stamp], f.nodes, f.meta, stamp, f.shape, f.recovery, f.profile, f.identity)
  OBVIOUS
<1>4. \A shape \in SUBSET Versions :
         Disk([f EXCEPT !.shape = shape], f.nodes, f.meta, f.stamp, shape, f.recovery, f.profile, f.identity)
  OBVIOUS
<1>5. Disk([f EXCEPT !.meta = TRUE], f.nodes, TRUE, f.stamp, f.shape, f.recovery, f.profile, f.identity)
  OBVIOUS
<1>6. \A recovery \in SUBSET SUBSET Versions :
         Disk([f EXCEPT !.recovery = recovery], f.nodes, f.meta, f.stamp, f.shape, recovery, f.profile, f.identity)
  OBVIOUS
<1>7. \A profile \in SUBSET Profiles :
         Disk([f EXCEPT !.profile = profile], f.nodes, f.meta, f.stamp, f.shape, f.recovery, profile, f.identity)
  OBVIOUS
<1>8. \A identity \in SUBSET Openers :
         Disk([f EXCEPT !.identity = identity], f.nodes, f.meta, f.stamp, f.shape, f.recovery, f.profile, identity)
  OBVIOUS
<1> QED
  BY <1>1, <1>2, <1>3, <1>4, <1>5, <1>6, <1>7, <1>8

-----------------------------------------------------------------------------
(* What holds after a step of one process                                   *)

\* The file only gains, once it is stamped.
Grows ==
    /\ found' = found /\ snapshots \subseteq snapshots'
    /\ db.meta => db'.meta
    /\ db.nodes => db'.nodes
    /\ db.stamp # 0 => db'.stamp # 0 /\ Covered \subseteq Covered'
    /\ db.identity # {} => db'.identity = db.identity

\* Without the lock, tables, stamp and snapshot on record stay.
Untouched ==
    /\ db'.stamp = db.stamp /\ db'.shape = db.shape /\ db'.meta = db.meta
    /\ db'.recovery = db.recovery /\ skipped' = skipped

Carries(p) ==
    /\ SchemaTypeOK' /\ FileOK' /\ LockOK' /\ Recoverable'
    /\ LookedOK(p)' /\ MigratesOK(p)' /\ WorksOK(p)'
    /\ Grows /\ (p \in lock \/ Untouched)
    /\ \A q \in Openers \ {p} : open'[q] = open[q]

\* The others neither lose the lock nor what they rely on.
LEMMA OthersCarry ==
    ASSUME SchemaInv, NEW p \in Openers, Carries(p)
    PROVE  SchemaInv'
<1> SUFFICES ASSUME NEW q \in Openers \ {p}
             PROVE  LookedOK(q)' /\ MigratesOK(q)' /\ WorksOK(q)'
  BY DEF SchemaInv, Carries
<1>1. open'[q] = open[q] /\ Grows /\ (p \in lock \/ Untouched)
  BY DEF Carries
<1>2. LookedOK(q) /\ MigratesOK(q) /\ WorksOK(q) /\ LockOK
  BY DEF SchemaInv
<1>3. LookedOK(q)'
  BY <1>1, <1>2 DEF LookedOK, Grows
<1>4. WorksOK(q)'
  BY <1>1, <1>2 DEF WorksOK, Usable, At, Grows
<1>5. open[q].at \in Migrating => Untouched
  BY <1>1, <1>2 DEF LockOK
<1>6. Safe => Safe'
  BY <1>1 DEF Safe, Unfinished, Grows
<1>7. Untouched => Covered' = Covered /\ (Old => Old')
  BY DEF Untouched, Covered, Old
<1>8. MigratesOK(q)'
  <2>1. CASE open[q].at \notin Migrating
    BY <1>1, <2>1 DEF MigratesOK, Migrating
  <2>2. CASE Untouched
    BY <1>1, <1>2, <1>6, <1>7, <2>2 DEF MigratesOK, Untouched, Grows
  <2> QED
    BY <1>5, <2>1, <2>2
<1> QED
  BY <1>3, <1>4, <1>8

\* A step that leaves the file alone.
LEMMA QuietStep ==
    ASSUME SchemaInv, NEW p \in Openers, db' = db, found' = found, skipped' = skipped,
           snapshots \subseteq snapshots', snapshots' \subseteq SUBSET Versions,
           mishaps' \in 0..OpenFaults, lock' \subseteq Openers,
           open' \in [Openers -> Opens], \A q \in Openers \ {p} : open'[q] = open[q],
           LockOK', LookedOK(p)', MigratesOK(p)', WorksOK(p)'
    PROVE  Carries(p)
<1>1. SchemaTypeOK /\ FileOK /\ Recoverable
  BY DEF SchemaInv
<1>2. SchemaTypeOK'
  BY <1>1 DEF SchemaTypeOK
<1>3. FileOK'
  BY <1>1 DEF FileOK, Covered
<1>4. Recoverable'
  BY <1>1 DEF Recoverable, Unfinished
<1>5. Grows /\ Untouched
  BY DEF Grows, Untouched, Covered
<1> QED
  BY <1>2, <1>3, <1>4, <1>5 DEF Carries

\* The lock is kept, given back by who needs it no more, or taken when it is free.
LEMMA LockStep ==
    ASSUME LockOK, NEW p \in Openers, \A q \in Openers \ {p} : open'[q] = open[q],
           \/ lock' = lock /\ (open'[p].at \in Migrating \cup {"check"} => p \in lock)
           \/ lock' = lock \ {p} /\ open'[p].at \notin Migrating \cup {"check"}
           \/ lock = {} /\ lock' = lock \cup {p}
    PROVE  LockOK'
<1>1. \A q, r \in lock' : q = r
  BY DEF LockOK
<1>2. ASSUME NEW q \in Openers, open'[q].at \in Migrating \cup {"check"} PROVE q \in lock'
  BY <1>2 DEF LockOK
<1> QED
  BY <1>1, <1>2 DEF LockOK

\* A process that closes keeps the invariant.
LEMMA ClosedStep ==
    ASSUME SchemaInv, NEW p \in Openers, Closed(p), lock' = lock \ {p},
           UNCHANGED <<db, snapshots, found, skipped>>, mishaps' \in 0..OpenFaults
    PROVE  Carries(p)
<1>1. /\ open' \in [Openers -> Opens] /\ \A q \in Openers \ {p} : open'[q] = open[q]
      /\ open'[p].at = "closed" /\ open'[p].hasMeta = FALSE /\ open'[p].hasNodes = FALSE
  BY DEF Closed, Turns, Seat
<1>2. LockOK'
  BY <1>1, LockStep DEF SchemaInv, Migrating
<1>3. LookedOK(p)' /\ MigratesOK(p)' /\ WorksOK(p)'
  BY <1>1 DEF LookedOK, MigratesOK, WorksOK, Usable, At
<1>4. lock' \subseteq Openers /\ snapshots' \subseteq SUBSET Versions
  BY DEF SchemaInv, SchemaTypeOK
<1> QED
  BY <1>1, <1>2, <1>3, <1>4, QuietStep

\* So does one that dies, leaves or gives up.
LEMMA EndingStep ==
    ASSUME SchemaInv, NEW p \in Openers, Die(p) \/ Leaves(p) \/ GiveUp(p)
    PROVE  Carries(p)
<1>1. SchemaTypeOK
  BY DEF SchemaInv
<1>2. Fails(p) /\ UNCHANGED <<db, snapshots, found, skipped>>
  BY DEF Die, Leaves, GiveUp
<1>3. mishaps' \in 0..OpenFaults
  BY <1>1, FaultsAssumption DEF Die, Leaves, GiveUp, SchemaTypeOK
<1>4. Closed(p) /\ lock' = lock \ {p}
  BY <1>1, <1>2, FailsCloses DEF Fails, Frees
<1> QED
  BY <1>2, <1>3, <1>4, ClosedStep

\* The looks without the lock.
LEMMA LookStep ==
    ASSUME SchemaInv, NEW p \in Openers, LookMeta(p) \/ LookNodes(p)
    PROVE  Carries(p)
<1>0. SchemaTypeOK /\ FileOK /\ LockOK /\ LookedOK(p)
  BY DEF SchemaInv
<1>1. CASE LookMeta(p)
  <2> DEFINE l == [open[p] EXCEPT !.at = "nodes", !.hasMeta = db.meta]
  <2>1. Seat(l, "nodes", db.meta, open[p].hasNodes, open[p].plan, open[p].next, open[p].copy, open[p].identity)
    BY <1>0, OpenTyped, FileTyped, Seats DEF Steps
  <2>2. open' = [open EXCEPT ![p] = l]
    BY <1>0, <1>1 DEF LookMeta, SchemaTypeOK
  <2> HIDE DEF l
  <2>3. Turns(p, "nodes", db.meta, open[p].hasNodes, open[p].plan, open[p].next, open[p].copy, open[p].identity)
    BY <1>0, <2>1, <2>2, Sits
  <2>4. /\ open' \in [Openers -> Opens] /\ \A q \in Openers \ {p} : open'[q] = open[q]
        /\ open'[p].at = "nodes" /\ open'[p].hasMeta = db.meta /\ open'[p].hasNodes = open[p].hasNodes
    BY <2>3 DEF Turns, Seat
  <2>5. UNCHANGED <<db, lock, snapshots, mishaps, found, skipped>>
    BY <1>1 DEF LookMeta
  <2>6. LockOK'
    BY <1>0, <2>4, <2>5, LockStep DEF Migrating
  <2>7. LookedOK(p)' /\ MigratesOK(p)' /\ WorksOK(p)'
    BY <1>0, <2>4, <2>5 DEF LookedOK, MigratesOK, WorksOK, Usable, At
  <2> QED
    BY <1>0, <2>4, <2>5, <2>6, <2>7, QuietStep DEF SchemaTypeOK
<1>2. CASE LookNodes(p)
  <2> DEFINE l == [open[p] EXCEPT !.at = "version", !.hasNodes = db.nodes]
  <2>1. Seat(l, "version", open[p].hasMeta, db.nodes, open[p].plan, open[p].next, open[p].copy, open[p].identity)
    BY <1>0, OpenTyped, FileTyped, Seats DEF Steps
  <2>2. open' = [open EXCEPT ![p] = l]
    BY <1>0, <1>2 DEF LookNodes, SchemaTypeOK
  <2> HIDE DEF l
  <2>3. Turns(p, "version", open[p].hasMeta, db.nodes, open[p].plan, open[p].next, open[p].copy, open[p].identity)
    BY <1>0, <2>1, <2>2, Sits
  <2>4. /\ open' \in [Openers -> Opens] /\ \A q \in Openers \ {p} : open'[q] = open[q]
        /\ open'[p].at = "version" /\ open'[p].hasMeta = open[p].hasMeta /\ open'[p].hasNodes = db.nodes
    BY <2>3 DEF Turns, Seat
  <2>5. UNCHANGED <<db, lock, snapshots, mishaps, found, skipped>>
    BY <1>2 DEF LookNodes
  <2>6. LockOK'
    BY <1>0, <2>4, <2>5, LockStep DEF Migrating
  <2>7. LookedOK(p)' /\ MigratesOK(p)' /\ WorksOK(p)'
    BY <1>0, <2>4, <2>5 DEF LookedOK, FileOK, MigratesOK, WorksOK, Usable, At
  <2> QED
    BY <1>0, <2>4, <2>5, <2>6, <2>7, QuietStep DEF SchemaTypeOK
<1> QED
  BY <1>1, <1>2

\* A process that goes on without changing the file, other than to fail.
LEMMA GoesStep ==
    ASSUME SchemaInv, NEW p \in Openers, NEW at \in Steps, Goes(p, at),
           UNCHANGED <<db, snapshots, mishaps, found, skipped>>, lock' \subseteq Openers,
           LockOK', LookedOK(p)', MigratesOK(p)', WorksOK(p)'
    PROVE  Carries(p)
<1>1. snapshots' \subseteq SUBSET Versions /\ mishaps' \in 0..OpenFaults
  BY DEF SchemaInv, SchemaTypeOK
<1>2. open' \in [Openers -> Opens] /\ \A q \in Openers \ {p} : open'[q] = open[q]
  BY DEF Goes, Turns
<1> QED
  BY <1>1, <1>2, QuietStep

\* The fields of a process that moves on.
LEMMA GoesFields ==
    ASSUME NEW p \in Openers, NEW at, Goes(p, at)
    PROVE  /\ open' \in [Openers -> Opens] /\ \A q \in Openers \ {p} : open'[q] = open[q]
           /\ open'[p].at = at /\ open'[p].hasMeta = open[p].hasMeta
           /\ open'[p].hasNodes = open[p].hasNodes /\ open'[p].plan = open[p].plan
           /\ open'[p].next = open[p].next /\ open'[p].copy = open[p].copy
           /\ open'[p].identity = open[p].identity
BY DEF Goes, Turns, Seat

\* The version is read, and a plan made of it (_ensure_schema).
LEMMA LookVersionStep ==
    ASSUME SchemaInv, NEW p \in Openers, LookVersion(p)
    PROVE  Carries(p)
<1>0. SchemaTypeOK /\ FileOK /\ LockOK /\ LookedOK(p)
  BY DEF SchemaInv
<1>1. UNCHANGED <<db, snapshots, mishaps, found, skipped>> /\ open[p].at = "version"
  BY DEF LookVersion, At
<1>2. mishaps' \in 0..OpenFaults
  BY <1>0, <1>1 DEF SchemaTypeOK
<1>3. CASE Fails(p)
  BY <1>0, <1>1, <1>2, <1>3, FailsCloses, ClosedStep DEF Fails, Frees
<1>4. CASE Plan(p) = "versioned" /\ db.stamp = BuildOf[p] /\ Moves(p, "profile") /\ Frees(p)
  <2>1. Goes(p, "profile") /\ "profile" \in Steps
    BY <1>0, <1>4, MovesGoes DEF Steps
  <2>2. /\ open'[p].at = "profile" /\ \A q \in Openers \ {p} : open'[q] = open[q]
        /\ open'[p].hasMeta = open[p].hasMeta /\ open'[p].hasNodes = open[p].hasNodes
    BY <2>1, GoesFields
  <2>3. lock' = lock \ {p} /\ lock' \subseteq Openers
    BY <1>0, <1>4 DEF Frees, SchemaTypeOK
  <2>4. LockOK'
    BY <1>0, <2>2, <2>3, LockStep DEF Migrating
  <2>5. db.stamp # 0
    BY <1>0, <1>4, FileTyped
  <2>6. LookedOK(p)' /\ MigratesOK(p)'
    BY <1>0, <1>1, <2>2 DEF LookedOK, MigratesOK
  <2>7. WorksOK(p)'
    BY <1>0, <1>1, <1>4, <2>2, <2>5 DEF WorksOK, Usable, At, FileOK, Covered
  <2> QED
    BY <1>1, <2>1, <2>3, <2>4, <2>6, <2>7, GoesStep
<1>5. CASE /\ open' = [open EXCEPT ![p].at = "wait", ![p].plan = Plan(p)] /\ UNCHANGED lock
  <2> DEFINE plan == Plan(p)
             l == [open[p] EXCEPT !.at = "wait", !.plan = plan]
  <2>1. plan \in Plans
    BY DEF Plan, Plans
  <2>2. open' = [open EXCEPT ![p] = l]
    BY <1>0, <1>5 DEF SchemaTypeOK
  <2> HIDE DEF plan
  <2>3. Seat(l, "wait", open[p].hasMeta, open[p].hasNodes, plan, open[p].next, open[p].copy, open[p].identity)
    BY <1>0, <2>1, OpenTyped, Seats DEF Steps
  <2> HIDE DEF l
  <2>4. Turns(p, "wait", open[p].hasMeta, open[p].hasNodes, plan, open[p].next, open[p].copy, open[p].identity)
    BY <1>0, <2>2, <2>3, Sits
  <2>5. /\ open' \in [Openers -> Opens] /\ \A q \in Openers \ {p} : open'[q] = open[q]
        /\ open'[p].at = "wait" /\ open'[p].hasMeta = open[p].hasMeta
        /\ open'[p].hasNodes = open[p].hasNodes /\ open'[p].plan = plan
    BY <2>4 DEF Turns, Seat
  <2>6. LockOK'
    BY <1>0, <1>5, <2>5, LockStep DEF Migrating
  <2>7. /\ plan = "fresh" => ~found.nodes
        /\ plan = "unstamped" => db.nodes /\ db.meta
        /\ plan = "ancient" => db.nodes
        /\ plan = "versioned" => db.stamp # 0
    BY <1>0, <1>1 DEF Plan, plan, LookedOK, FileOK
  <2>8. LookedOK(p)'
    BY <1>0, <1>1, <2>5, <2>7 DEF LookedOK
  <2>9. MigratesOK(p)' /\ WorksOK(p)'
    BY <2>5 DEF MigratesOK, WorksOK, Usable, At
  <2> QED
    BY <1>0, <1>1, <1>2, <1>5, <2>5, <2>6, <2>8, <2>9, QuietStep DEF SchemaTypeOK
<1> QED
  BY <1>3, <1>4, <1>5 DEF LookVersion

\* The lock is free, or its holder has it.
LEMMA LockTaken ==
    ASSUME SchemaInv, NEW p \in Openers, Lock(p)
    PROVE  Carries(p)
<1>0. SchemaTypeOK /\ LockOK /\ LookedOK(p)
  BY DEF SchemaInv
<1>1. /\ UNCHANGED <<db, snapshots, mishaps, found, skipped>> /\ open[p].at = "wait"
      /\ lock = {} /\ lock' = lock \cup {p}
  BY DEF Lock, At, LockFree
<1>2. Goes(p, "check") /\ "check" \in Steps
  BY <1>0, MovesGoes DEF Lock, Steps
<1>3. /\ open'[p].at = "check" /\ \A q \in Openers \ {p} : open'[q] = open[q]
      /\ open'[p].hasMeta = open[p].hasMeta /\ open'[p].hasNodes = open[p].hasNodes
      /\ open'[p].plan = open[p].plan
  BY <1>2, GoesFields
<1>4. LockOK'
  BY <1>0, <1>1, <1>3, LockStep
<1>5. LookedOK(p)'
  BY <1>0, <1>1, <1>3 DEF LookedOK
<1>6. MigratesOK(p)' /\ WorksOK(p)'
  BY <1>3 DEF MigratesOK, WorksOK, Usable, At
<1> QED
  BY <1>1, <1>2, <1>4, <1>5, <1>6, GoesStep

\* A new store is created at the version of its build.
LEMMA CreateFreshStep ==
    ASSUME SchemaInv, NEW p \in Openers, CreateFresh(p)
    PROVE  Carries(p)
<1> DEFINE B == BuildOf[p]
<1>0. SchemaTypeOK /\ FileOK /\ LockOK /\ LookedOK(p) /\ Recoverable
  BY DEF SchemaInv
<1>1. /\ UNCHANGED <<snapshots, mishaps, found, skipped>> /\ open[p].at = "check"
      /\ db' = [db EXCEPT !.nodes = TRUE, !.meta = TRUE, !.stamp = B, !.shape = 1..B]
      /\ lock' = lock \ {p}
  BY DEF CreateFresh, At, Created, Frees
<1>2. B \in Versions /\ 1..B \subseteq Versions /\ B \in Nat \ {0}
  BY <1>0, FileTyped
<1>3. Disk(db', TRUE, TRUE, B, 1..B, db.recovery, db.profile, db.identity)
  BY <1>0, <1>1, <1>2, FileTyped, Disks
<1>4. /\ db' \in Files /\ db'.nodes /\ db'.meta /\ db'.stamp = B /\ db'.shape = 1..B
      /\ db'.identity = db.identity
  BY <1>3 DEF Disk
<1>5. Goes(p, "profile")
  BY <1>0, MovesGoes DEF CreateFresh, Steps
<1>6. /\ open' \in [Openers -> Opens] /\ \A q \in Openers \ {p} : open'[q] = open[q]
      /\ open'[p].at = "profile"
  BY <1>5, GoesFields
<1>7. SchemaTypeOK'
  BY <1>0, <1>1, <1>4, <1>6 DEF SchemaTypeOK
<1>8. LockOK'
  BY <1>0, <1>1, <1>6, LockStep DEF Migrating
<1>9. db.stamp = 0
  BY <1>0 DEF CreateFresh, FileOK
<1>10. FileOK'
  BY <1>0, <1>1, <1>2, <1>4 DEF FileOK, Covered
<1>11. Recoverable'
  <2>1. found \in Stores
    BY <1>0 DEF SchemaTypeOK
  <2>2. CASE open[p].plan = "fresh"
    <3>1. found.shape = {}
      BY <1>0, <1>1, <2>1, <2>2, StoresAssumption DEF LookedOK
    <3> QED
      BY <1>1, <3>1 DEF Recoverable
  <2>3. CASE open[p].plan # "fresh"
    <3>1. CurrentShape \in db.shape /\ db.shape = found.shape /\ found.stamp = 0
      BY <1>0, <1>9, <2>3 DEF CreateFresh, FileOK, HasCurrentShape
    <3> QED
      BY <1>1, <3>1 DEF Recoverable, Unfinished
  <2> QED
    BY <2>2, <2>3
<1>12. LookedOK(p)' /\ MigratesOK(p)'
  BY <1>4, <1>6 DEF LookedOK, MigratesOK
<1>13. WorksOK(p)'
  BY <1>2, <1>4, <1>6 DEF WorksOK, Usable, At, Covered
<1>14. Grows /\ p \in lock
  BY <1>0, <1>1, <1>4, <1>9 DEF Grows, LockOK
<1> QED
  BY <1>6, <1>7, <1>8, <1>10, <1>11, <1>12, <1>13, <1>14 DEF Carries

\* Who was to create a store finds one.
LEMMA CreatedMeanwhileStep ==
    ASSUME SchemaInv, NEW p \in Openers, CreatedMeanwhile(p)
    PROVE  Carries(p)
<1>0. SchemaTypeOK /\ FileOK /\ LockOK
  BY DEF SchemaInv
<1>1. UNCHANGED <<db, lock, snapshots, mishaps, found, skipped>> /\ db.meta
  BY DEF CreatedMeanwhile
<1> DEFINE a == [NotOpen EXCEPT !.at = "version", !.hasMeta = TRUE]
           l == [NotOpen EXCEPT !.at = "version", !.hasMeta = TRUE, !.hasNodes = db.nodes]
<1>2. NotOpen \in Opens
  BY DEF NotOpen, Opens, Steps, Plans
<1>3. a \in Opens /\ a.at = "version" /\ a.hasMeta = TRUE
  <2>1. [NotOpen EXCEPT !.at = "version"] \in Opens
    BY <1>2 DEF Opens, Steps
  <2>2. [[NotOpen EXCEPT !.at = "version"] EXCEPT !.hasMeta = TRUE] \in Opens
    BY <2>1 DEF Opens
  <2> QED
    BY <2>2 DEF Opens
<1>4. l \in Opens /\ l.at = "version" /\ l.hasMeta = TRUE /\ l.hasNodes = db.nodes
  <2>1. [a EXCEPT !.hasNodes = db.nodes] \in Opens
    BY <1>0, <1>3, FileTyped DEF Opens
  <2> QED
    BY <1>3, <2>1 DEF Opens
<1>5. open' = [open EXCEPT ![p] = l]
  BY DEF CreatedMeanwhile
<1> HIDE DEF a, l
<1>6. open' \in [Openers -> Opens] /\ open'[p] = l /\ \A q \in Openers \ {p} : open'[q] = open[q]
  BY <1>0, <1>4, <1>5 DEF SchemaTypeOK
<1>7. LockOK'
  BY <1>0, <1>1, <1>4, <1>6, LockStep DEF Migrating
<1>8. LookedOK(p)' /\ MigratesOK(p)' /\ WorksOK(p)'
  BY <1>0, <1>1, <1>4, <1>6 DEF LookedOK, FileOK, MigratesOK, WorksOK, Usable, At
<1> QED
  BY <1>0, <1>1, <1>6, <1>7, <1>8, QuietStep DEF SchemaTypeOK

\* A step under the lock that writes the file.
LEMMA WritesStep ==
    ASSUME SchemaInv, NEW p \in lock, lock' = lock, db' \in Files, found' = found,
           snapshots' = snapshots, skipped' \subseteq Versions, mishaps' \in 0..OpenFaults,
           open' \in [Openers -> Opens], \A q \in Openers \ {p} : open'[q] = open[q],
           FileOK', Recoverable', LookedOK(p)', MigratesOK(p)', WorksOK(p)', Grows
    PROVE  Carries(p)
<1>1. SchemaTypeOK /\ LockOK /\ p \in Openers
  BY DEF SchemaInv, SchemaTypeOK
<1>2. SchemaTypeOK'
  BY <1>1 DEF SchemaTypeOK
<1>3. LockOK'
  BY <1>1, LockStep
<1> QED
  BY <1>2, <1>3 DEF Carries

\* Who migrates holds the lock.
LEMMA HoldsLock ==
    ASSUME SchemaInv, NEW p \in Openers, open[p].at \in Migrating \cup {"check"}
    PROVE  p \in lock
BY DEF SchemaInv, LockOK

\* The first stamp of a store that had none.
LEMMA StampFirstStep ==
    ASSUME SchemaInv, NEW p \in Openers, StampFirst(p)
    PROVE  Carries(p)
<1>0. SchemaTypeOK /\ FileOK /\ LookedOK(p) /\ Recoverable
  BY DEF SchemaInv
<1>1. /\ UNCHANGED <<lock, snapshots, mishaps, found, skipped>> /\ open[p].at = "check"
      /\ open[p].plan = "unstamped" /\ db.stamp = 0 /\ CurrentShape \notin db.shape
      /\ db' = [db EXCEPT !.stamp = 1]
  BY DEF StampFirst, At, HasCurrentShape
<1>2. db.nodes /\ db.meta /\ 1 \in db.shape
  BY <1>0, <1>1 DEF LookedOK, FileOK
<1>3. Disk(db', db.nodes, db.meta, 1, db.shape, db.recovery, db.profile, db.identity)
  BY <1>0, <1>1, FileTyped, Disks
<1>4. /\ db' \in Files /\ db'.nodes /\ db'.meta /\ db'.stamp = 1 /\ db'.shape = db.shape
      /\ db'.recovery = db.recovery /\ db'.identity = db.identity
  BY <1>2, <1>3 DEF Disk
<1> DEFINE l == [open[p] EXCEPT !.plan = "versioned"]
<1>5. Seat(l, open[p].at, open[p].hasMeta, open[p].hasNodes, "versioned", open[p].next, open[p].copy,
           open[p].identity)
  BY <1>0, OpenTyped, Seats DEF Plans
<1>6. open' = [open EXCEPT ![p] = l]
  BY <1>0 DEF StampFirst, SchemaTypeOK
<1> HIDE DEF l
<1>7. Turns(p, open[p].at, open[p].hasMeta, open[p].hasNodes, "versioned", open[p].next, open[p].copy,
            open[p].identity)
  BY <1>0, <1>5, <1>6, Sits
<1>8. /\ open' \in [Openers -> Opens] /\ \A q \in Openers \ {p} : open'[q] = open[q]
      /\ open'[p].at = "check" /\ open'[p].plan = "versioned"
  BY <1>1, <1>7 DEF Turns, Seat
<1>9. FileOK'
  BY <1>0, <1>1, <1>2, <1>4 DEF FileOK, Covered
<1>10. Recoverable'
  BY <1>0, <1>1, <1>4 DEF Recoverable, Unfinished
<1>11. LookedOK(p)' /\ MigratesOK(p)' /\ WorksOK(p)'
  BY <1>4, <1>8 DEF LookedOK, MigratesOK, WorksOK, Usable, At
<1>12. Grows
  BY <1>1, <1>4 DEF Grows
<1>13. p \in lock
  BY <1>1, HoldsLock
<1> QED
  BY <1>0, <1>1, <1>4, <1>8, <1>9, <1>10, <1>11, <1>12, <1>13, WritesStep DEF SchemaTypeOK

\* Under the lock the version is read again.
LEMMA RecheckStep ==
    ASSUME SchemaInv, NEW p \in Openers, Recheck(p)
    PROVE  Carries(p)
<1>0. SchemaTypeOK /\ FileOK /\ LockOK /\ LookedOK(p)
  BY DEF SchemaInv
<1>1. UNCHANGED <<db, snapshots, mishaps, found, skipped>> /\ open[p].at = "check"
  BY DEF Recheck, At
<1>2. mishaps' \in 0..OpenFaults
  BY <1>0, <1>1 DEF SchemaTypeOK
<1>3. CASE Fails(p)
  BY <1>0, <1>1, <1>2, <1>3, FailsCloses, ClosedStep DEF Fails, Frees
<1>4. CASE db.stamp = BuildOf[p] /\ Moves(p, "profile") /\ Frees(p)
  <2>1. Goes(p, "profile") /\ "profile" \in Steps
    BY <1>0, <1>4, MovesGoes DEF Steps
  <2>2. /\ open'[p].at = "profile" /\ \A q \in Openers \ {p} : open'[q] = open[q]
        /\ open'[p].hasMeta = open[p].hasMeta /\ open'[p].hasNodes = open[p].hasNodes
    BY <2>1, GoesFields
  <2>3. lock' = lock \ {p} /\ lock' \subseteq Openers
    BY <1>0, <1>4 DEF Frees, SchemaTypeOK
  <2>4. LockOK'
    BY <1>0, <2>2, <2>3, LockStep DEF Migrating
  <2>5. db.stamp # 0
    BY <1>0, <1>4, FileTyped
  <2>6. LookedOK(p)' /\ MigratesOK(p)'
    BY <1>0, <1>1, <2>2 DEF LookedOK, MigratesOK
  <2>7. WorksOK(p)'
    BY <1>0, <1>1, <1>4, <2>2, <2>5 DEF WorksOK, Usable, At, FileOK, Covered
  <2> QED
    BY <1>1, <2>1, <2>3, <2>4, <2>6, <2>7, GoesStep
<1>5. CASE /\ db.stamp # 0 /\ UNCHANGED lock
           /\ open' = [open EXCEPT ![p].at = "snapshot", ![p].plan = "versioned", ![p].next = db.stamp + 1]
  <2> DEFINE l == [open[p] EXCEPT !.at = "snapshot", !.plan = "versioned", !.next = db.stamp + 1]
  <2>1. Seat(l, "snapshot", open[p].hasMeta, open[p].hasNodes, "versioned", db.stamp + 1, open[p].copy,
             open[p].identity)
    <3>1. "snapshot" \in Steps /\ "versioned" \in Plans /\ db.stamp + 1 \in Nat
      BY <1>0, FileTyped DEF Steps, Plans
    <3> QED
      BY <1>0, <3>1, OpenTyped, Seats
  <2>2. open' = [open EXCEPT ![p] = l]
    BY <1>0, <1>5 DEF SchemaTypeOK
  <2> HIDE DEF l
  <2>3. Turns(p, "snapshot", open[p].hasMeta, open[p].hasNodes, "versioned", db.stamp + 1, open[p].copy,
              open[p].identity)
    BY <1>0, <2>1, <2>2, Sits
  <2>4. /\ open' \in [Openers -> Opens] /\ \A q \in Openers \ {p} : open'[q] = open[q]
        /\ open'[p].at = "snapshot" /\ open'[p].hasMeta = open[p].hasMeta
        /\ open'[p].hasNodes = open[p].hasNodes /\ open'[p].plan = "versioned"
        /\ open'[p].next = db.stamp + 1
    BY <2>3 DEF Turns, Seat
  <2>5. LockOK'
    BY <1>0, <1>1, <1>5, <2>4, LockStep DEF LockOK
  <2>6. LookedOK(p)' /\ MigratesOK(p)' /\ WorksOK(p)'
    BY <1>0, <1>1, <1>5, <2>4 DEF LookedOK, MigratesOK, WorksOK, Usable, At
  <2> QED
    BY <1>0, <1>1, <1>2, <1>5, <2>4, <2>5, <2>6, QuietStep DEF SchemaTypeOK
<1> QED
  BY <1>3, <1>4, <1>5 DEF Recheck

\* Under the lock a store without a stamp is looked at again.
LEMMA RecheckAncientStep ==
    ASSUME SchemaInv, NEW p \in Openers, RecheckAncient(p)
    PROVE  Carries(p)
<1>0. SchemaTypeOK /\ FileOK /\ LockOK /\ LookedOK(p)
  BY DEF SchemaInv
<1>1. /\ UNCHANGED <<db, lock, snapshots, mishaps, found, skipped>> /\ open[p].at = "check"
      /\ open[p].plan = "ancient" /\ ~db.meta /\ CurrentShape \notin db.shape
  BY DEF RecheckAncient, At, HasCurrentShape
<1> DEFINE l == [open[p] EXCEPT !.at = "snapshot", !.next = 2]
<1>2. Seat(l, "snapshot", open[p].hasMeta, open[p].hasNodes, open[p].plan, 2, open[p].copy,
           open[p].identity)
  BY <1>0, OpenTyped, Seats DEF Steps
<1>3. open' = [open EXCEPT ![p] = l]
  BY <1>0 DEF RecheckAncient, SchemaTypeOK
<1> HIDE DEF l
<1>4. Turns(p, "snapshot", open[p].hasMeta, open[p].hasNodes, open[p].plan, 2, open[p].copy,
            open[p].identity)
  BY <1>0, <1>2, <1>3, Sits
<1>5. /\ open' \in [Openers -> Opens] /\ \A q \in Openers \ {p} : open'[q] = open[q]
      /\ open'[p].at = "snapshot" /\ open'[p].hasMeta = open[p].hasMeta
      /\ open'[p].hasNodes = open[p].hasNodes /\ open'[p].plan = "ancient" /\ open'[p].next = 2
  BY <1>1, <1>4 DEF Turns, Seat
<1>6. LockOK'
  BY <1>0, <1>1, <1>5, LockStep DEF LockOK
<1>7. Old
  BY <1>0, <1>1 DEF Old, LookedOK, FileOK
<1>8. Old'
  BY <1>1, <1>7 DEF Old
<1>9. LookedOK(p)' /\ MigratesOK(p)' /\ WorksOK(p)'
  BY <1>0, <1>1, <1>5, <1>8 DEF LookedOK, MigratesOK, WorksOK, Usable, At
<1> QED
  BY <1>0, <1>1, <1>5, <1>6, <1>9, QuietStep DEF SchemaTypeOK

\* What is copied before the first change is what was found, unless that is on
\* disk already.
LEMMA SnapshotStep ==
    ASSUME SchemaInv, NEW p \in Openers, Snapshot(p)
    PROVE  Carries(p)
<1>0. SchemaTypeOK /\ FileOK /\ LockOK /\ LookedOK(p) /\ MigratesOK(p) /\ Recoverable
  BY DEF SchemaInv
<1> DEFINE at == IF open[p].plan = "ancient" THEN "meta" ELSE "record"
           l == [open[p] EXCEPT !.at = at, !.copy = {db.shape}]
<1>1. /\ UNCHANGED <<db, lock, mishaps, found, skipped>> /\ open[p].at = "snapshot"
      /\ snapshots' = snapshots \cup {db.shape}
  BY DEF Snapshot, At
<1>2. at \in Steps /\ at \in {"meta", "record"} /\ (at = "meta" <=> open[p].plan = "ancient")
  BY DEF Steps
<1>3. open' = [open EXCEPT ![p] = l]
  BY <1>0 DEF Snapshot, SchemaTypeOK
<1> HIDE DEF at
<1>4. Seat(l, at, open[p].hasMeta, open[p].hasNodes, open[p].plan, open[p].next, {db.shape},
           open[p].identity)
  <2>1. {db.shape} \in SUBSET SUBSET Versions
    BY <1>0, FileTyped
  <2> QED
    BY <1>0, <1>2, <2>1, OpenTyped, Seats
<1> HIDE DEF l
<1>5. Turns(p, at, open[p].hasMeta, open[p].hasNodes, open[p].plan, open[p].next, {db.shape},
            open[p].identity)
  BY <1>0, <1>3, <1>4, Sits
<1>6. /\ open' \in [Openers -> Opens] /\ \A q \in Openers \ {p} : open'[q] = open[q]
      /\ open'[p].at = at /\ open'[p].hasMeta = open[p].hasMeta
      /\ open'[p].hasNodes = open[p].hasNodes /\ open'[p].plan = open[p].plan
      /\ open'[p].next = open[p].next /\ open'[p].copy = {db.shape}
  BY <1>5 DEF Turns, Seat
<1>7. LockOK'
  BY <1>0, <1>1, <1>6, LockStep DEF LockOK, Migrating
<1>8. LookedOK(p)' /\ WorksOK(p)'
  BY <1>0, <1>1, <1>2, <1>6 DEF LookedOK, WorksOK, Usable, At
<1>9. Safe'
  BY <1>0, <1>1 DEF Safe, Recoverable, Unfinished
<1>10. Old => Old'
  BY <1>1 DEF Old
<1>11. MigratesOK(p)'
  BY <1>0, <1>1, <1>2, <1>6, <1>9, <1>10 DEF MigratesOK
<1>12. snapshots' \subseteq SUBSET Versions
  BY <1>0, <1>1, FileTyped DEF SchemaTypeOK
<1> QED
  BY <1>0, <1>1, <1>6, <1>7, <1>8, <1>11, <1>12, QuietStep DEF SchemaTypeOK

\* A store of the first builds gets its snapshot, its table of stamps and its stamp.
LEMMA AncientStep ==
    ASSUME SchemaInv, NEW p \in Openers, CreateMeta(p) \/ StampAncient(p)
    PROVE  Carries(p)
<1>0. SchemaTypeOK /\ FileOK /\ LookedOK(p) /\ MigratesOK(p) /\ Recoverable
  BY DEF SchemaInv
<1>1. CASE CreateMeta(p)
  <2>1. /\ UNCHANGED <<lock, snapshots, mishaps, found, skipped>> /\ open[p].at = "meta"
        /\ db' = [db EXCEPT !.meta = TRUE]
    BY <1>1 DEF CreateMeta, At
  <2>2. Disk(db', db.nodes, TRUE, db.stamp, db.shape, db.recovery, db.profile, db.identity)
    BY <1>0, <2>1, FileTyped, Disks
  <2>3. /\ db' \in Files /\ db'.nodes = db.nodes /\ db'.meta /\ db'.stamp = db.stamp
        /\ db'.shape = db.shape /\ db'.recovery = db.recovery /\ db'.identity = db.identity
    BY <2>2 DEF Disk
  <2>4. Goes(p, "stamp")
    BY <1>0, <1>1, MovesGoes DEF CreateMeta, Steps
  <2>5. /\ open' \in [Openers -> Opens] /\ \A q \in Openers \ {p} : open'[q] = open[q]
        /\ open'[p].at = "stamp" /\ open'[p].hasMeta = open[p].hasMeta
        /\ open'[p].hasNodes = open[p].hasNodes /\ open'[p].next = open[p].next
        /\ open'[p].copy = open[p].copy
    BY <2>4, GoesFields
  <2>6. FileOK' /\ Recoverable' /\ Grows
    BY <1>0, <2>1, <2>3 DEF FileOK, Covered, Recoverable, Unfinished, Grows
  <2>7. LookedOK(p)' /\ WorksOK(p)'
    BY <1>0, <2>3, <2>5 DEF LookedOK, WorksOK, Usable, At
  <2>8. Old' /\ Safe'
    BY <1>0, <2>1, <2>3 DEF MigratesOK, Old, Safe, Unfinished
  <2>9. MigratesOK(p)'
    BY <1>0, <2>1, <2>3, <2>5, <2>8 DEF MigratesOK
  <2>10. p \in lock
    BY <2>1, HoldsLock DEF Migrating
  <2> QED
    BY <1>0, <2>1, <2>3, <2>5, <2>6, <2>7, <2>9, <2>10, WritesStep DEF SchemaTypeOK
<1>2. CASE StampAncient(p)
  <2>1. /\ UNCHANGED <<lock, snapshots, mishaps, found, skipped>> /\ open[p].at = "stamp"
        /\ db' = [db EXCEPT !.stamp = 1]
    BY <1>2 DEF StampAncient, At
  <2>2. Disk(db', db.nodes, db.meta, 1, db.shape, db.recovery, db.profile, db.identity)
    BY <1>0, <2>1, FileTyped, Disks
  <2>3. /\ db' \in Files /\ db'.nodes = db.nodes /\ db'.meta = db.meta /\ db'.stamp = 1
        /\ db'.shape = db.shape /\ db'.recovery = db.recovery /\ db'.identity = db.identity
    BY <2>2 DEF Disk
  <2>4. Goes(p, "record")
    BY <1>0, <1>2, MovesGoes DEF StampAncient, Steps
  <2>5. /\ open' \in [Openers -> Opens] /\ \A q \in Openers \ {p} : open'[q] = open[q]
        /\ open'[p].at = "record" /\ open'[p].hasMeta = open[p].hasMeta
        /\ open'[p].hasNodes = open[p].hasNodes /\ open'[p].next = open[p].next
        /\ open'[p].copy = open[p].copy
    BY <2>4, GoesFields
  <2>6. Old /\ db.meta /\ open[p].next = 2
    BY <1>0, <2>1 DEF MigratesOK
  <2>7. FileOK' /\ Recoverable' /\ Grows
    BY <1>0, <2>1, <2>3, <2>6 DEF FileOK, Covered, Recoverable, Unfinished, Grows, Old
  <2>8. LookedOK(p)' /\ WorksOK(p)'
    BY <1>0, <2>3, <2>5 DEF LookedOK, WorksOK, Usable, At
  <2>9. Safe'
    BY <1>0, <2>1 DEF MigratesOK, Safe, Unfinished
  <2>10. MigratesOK(p)'
    BY <1>0, <2>1, <2>3, <2>5, <2>6, <2>9 DEF MigratesOK
  <2>11. p \in lock
    BY <2>1, HoldsLock DEF Migrating
  <2> QED
    BY <1>0, <2>1, <2>3, <2>5, <2>7, <2>8, <2>10, <2>11, WritesStep DEF SchemaTypeOK
<1> QED
  BY <1>1, <1>2

\* The snapshot is named in the store before the first migration.
LEMMA RecordRecoveryStep ==
    ASSUME SchemaInv, NEW p \in Openers, RecordRecovery(p)
    PROVE  Carries(p)
<1>0. SchemaTypeOK /\ FileOK /\ LookedOK(p) /\ MigratesOK(p) /\ Recoverable
  BY DEF SchemaInv
<1>1. /\ UNCHANGED <<lock, snapshots, mishaps, found, skipped>> /\ open[p].at = "record"
      /\ db' = [db EXCEPT !.recovery = open[p].copy]
  BY DEF RecordRecovery, At, Recorded
<1>2. Disk(db', db.nodes, db.meta, db.stamp, db.shape, open[p].copy, db.profile, db.identity)
  BY <1>0, <1>1, FileTyped, OpenTyped, Disks
<1>3. /\ db' \in Files /\ db'.nodes = db.nodes /\ db'.meta = db.meta /\ db'.stamp = db.stamp
      /\ db'.shape = db.shape /\ db'.recovery = open[p].copy /\ db'.identity = db.identity
  BY <1>2 DEF Disk
<1>4. Goes(p, "migrate")
  BY <1>0, MovesGoes DEF RecordRecovery, Steps
<1>5. /\ open' \in [Openers -> Opens] /\ \A q \in Openers \ {p} : open'[q] = open[q]
      /\ open'[p].at = "migrate" /\ open'[p].hasMeta = open[p].hasMeta
      /\ open'[p].hasNodes = open[p].hasNodes /\ open'[p].next = open[p].next
  BY <1>4, GoesFields
<1>6. /\ db.stamp # 0 /\ open[p].next = db.stamp + 1 /\ db.stamp \in Nat
      /\ open[p].copy # {} /\ open[p].copy \subseteq snapshots /\ Safe
  BY <1>0, <1>1, FileTyped DEF MigratesOK
<1>7. FileOK' /\ Grows
  BY <1>0, <1>1, <1>3 DEF FileOK, Covered, Grows
<1>8. Recoverable'
  BY <1>0, <1>1, <1>3, <1>6 DEF Recoverable, Unfinished, Safe
<1>9. LookedOK(p)' /\ WorksOK(p)'
  BY <1>0, <1>3, <1>5 DEF LookedOK, WorksOK, Usable, At
<1>10. Safe' /\ Covered' = Covered /\ 1..db.stamp \subseteq Covered
  BY <1>0, <1>1, <1>3, <1>6 DEF Safe, Unfinished, Covered, FileOK
<1>11. MigratesOK(p)'
  BY <1>1, <1>3, <1>5, <1>6, <1>10 DEF MigratesOK
<1>12. p \in lock
  BY <1>1, HoldsLock DEF Migrating
<1> QED
  BY <1>0, <1>1, <1>3, <1>5, <1>7, <1>8, <1>9, <1>11, <1>12, WritesStep DEF SchemaTypeOK

\* What a migration relies on while it changes the tables.
LEMMA MigrationFacts ==
    ASSUME SchemaInv, NEW p \in Openers, open[p].at \in {"migrate", "script"}
    PROVE  /\ p \in lock /\ db.stamp \in Nat \ {0} /\ db.stamp < open[p].next /\ open[p].next \in Nat
           /\ 1..(open[p].next - 1) \subseteq Covered /\ Safe
           /\ db.recovery # {} /\ db.recovery \subseteq snapshots
           /\ db.meta /\ 1..db.stamp \subseteq Covered
           /\ \A v \in db.shape : v \in Nat /\ (v >= FirstStamped /\ v # ScriptVersion => v <= db.stamp)
<1>1. SchemaTypeOK /\ FileOK /\ MigratesOK(p)
  BY DEF SchemaInv
<1>2. p \in lock
  BY HoldsLock DEF Migrating
<1>3. db.stamp \in Nat /\ open[p].next \in Nat /\ \A v \in db.shape : v \in Nat
  BY <1>1, FileTyped, OpenTyped
<1> QED
  BY <1>1, <1>2, <1>3 DEF MigratesOK, FileOK

\* The next migration is in the tables, or passed over.
LEMMA NextCovered ==
    ASSUME NEW n \in Nat \ {0}, NEW S, 1..(n - 1) \subseteq S, NEW T, S \subseteq T, n \in T
    PROVE  1..n \subseteq T
<1> SUFFICES ASSUME NEW i \in 1..n PROVE i \in T
  OBVIOUS
<1>1. CASE i = n
  BY <1>1
<1>2. CASE i # n
  BY <1>2
<1> QED
  BY <1>1, <1>2

\* A migration changes the tables and goes on to the next one.
LEMMA PassesSeat ==
    ASSUME SchemaTypeOK, NEW p \in Openers, Passes(p)
    PROVE  /\ open' \in [Openers -> Opens] /\ \A q \in Openers \ {p} : open'[q] = open[q]
           /\ open'[p].at = "migrate" /\ open'[p].next = open[p].next + 1
           /\ open'[p].hasMeta = open[p].hasMeta /\ open'[p].hasNodes = open[p].hasNodes
<1> DEFINE l == [open[p] EXCEPT !.next = open[p].next + 1, !.at = "migrate"]
<1>1. open' = [open EXCEPT ![p] = l]
  BY DEF Passes, SchemaTypeOK
<1>2. open[p].next + 1 \in Nat /\ "migrate" \in Steps
  BY OpenTyped DEF Steps
<1>3. Seat(l, "migrate", open[p].hasMeta, open[p].hasNodes, open[p].plan, open[p].next + 1, open[p].copy,
           open[p].identity)
  BY <1>2, OpenTyped, Seats
<1> HIDE DEF l
<1>4. Turns(p, "migrate", open[p].hasMeta, open[p].hasNodes, open[p].plan, open[p].next + 1, open[p].copy,
            open[p].identity)
  BY <1>1, <1>3, Sits
<1> QED
  BY <1>4 DEF Turns, Seat

\* What follows of a migration from the file that it leaves.
LEMMA MigrationStep ==
    ASSUME SchemaInv, NEW p \in Openers, open[p].at \in {"migrate", "script"},
           UNCHANGED <<lock, snapshots, found>>, mishaps' \in 0..OpenFaults, skipped' \subseteq Versions,
           db' \in Files, db'.nodes = db.nodes, db'.meta = db.meta, db'.recovery = db.recovery,
           db'.identity = db.identity,
           db.shape \subseteq db'.shape, skipped \subseteq skipped', db'.stamp # 0,
           1..db'.stamp \subseteq Covered',
           \A v \in db'.shape : v >= FirstStamped /\ v # ScriptVersion => v <= db'.stamp,
           open' \in [Openers -> Opens], \A q \in Openers \ {p} : open'[q] = open[q],
           open'[p].hasMeta = open[p].hasMeta, open'[p].hasNodes = open[p].hasNodes,
           \/ open'[p].at = "migrate"
           \/ open'[p].at = "script" /\ open'[p].next \in Versions /\ open'[p].next \in db'.shape,
           db'.stamp < open'[p].next, 1..(open'[p].next - 1) \subseteq Covered'
    PROVE  Carries(p)
<1>0. SchemaTypeOK /\ FileOK /\ LookedOK(p) /\ MigratesOK(p)
  BY DEF SchemaInv
<1>1. /\ p \in lock /\ db.meta /\ Safe
      /\ db.recovery # {} /\ db.recovery \subseteq snapshots
  BY MigrationFacts
<1>2. Covered \subseteq Covered'
  BY DEF Covered
<1>3. FileOK'
  BY <1>0, <1>1 DEF FileOK
<1>4. Safe'
  BY <1>1 DEF Safe, Unfinished
<1>5. Recoverable'
  BY <1>1 DEF Recoverable, Safe, Unfinished
<1>6. LookedOK(p)' /\ WorksOK(p)'
  BY <1>0 DEF LookedOK, WorksOK, Usable, At
<1>7. MigratesOK(p)'
  BY <1>1, <1>4 DEF MigratesOK
<1>8. Grows
  BY <1>2 DEF Grows
<1> QED
  BY <1>1, <1>3, <1>5, <1>6, <1>7, <1>8, WritesStep

\* A migration without a stamp of its own.
LEMMA UnstampedStep ==
    ASSUME SchemaInv, NEW p \in Openers, NEW v \in Versions, MigrateUnstamped(p, v) \/ PassOver(p, v)
    PROVE  Carries(p)
<1>0. SchemaTypeOK
  BY DEF SchemaInv
<1>1. /\ UNCHANGED <<lock, snapshots, found>> /\ open[p].at = "migrate" /\ open[p].next = v
      /\ v < FirstStamped /\ Passes(p)
  BY DEF MigrateUnstamped, PassOver, Comes, At
<1>2. v \in Nat \ {0} /\ FirstStamped \in Nat
  BY FaultsAssumption, VersionsAssumption
<1>3. /\ db.stamp \in Nat \ {0} /\ db.stamp < v /\ 1..(v - 1) \subseteq Covered /\ 1..db.stamp \subseteq Covered
      /\ \A w \in db.shape : w \in Nat /\ (w >= FirstStamped /\ w # ScriptVersion => w <= db.stamp)
  BY <1>1, MigrationFacts
<1>4. /\ open' \in [Openers -> Opens] /\ \A q \in Openers \ {p} : open'[q] = open[q]
      /\ open'[p].at = "migrate" /\ open'[p].next = v + 1
      /\ open'[p].hasMeta = open[p].hasMeta /\ open'[p].hasNodes = open[p].hasNodes
  BY <1>0, <1>1, PassesSeat
<1>5. CASE MigrateUnstamped(p, v)
  <2>1. db' = [db EXCEPT !.shape = db.shape \cup {v}] /\ UNCHANGED <<mishaps, skipped>>
    BY <1>0, <1>5, FileTyped DEF MigrateUnstamped, Files
  <2>2. Disk(db', db.nodes, db.meta, db.stamp, db.shape \cup {v}, db.recovery, db.profile, db.identity)
    <3>1. db.shape \cup {v} \in SUBSET Versions
      BY <1>0, FileTyped
    <3> QED
      BY <1>0, <2>1, <3>1, FileTyped, Disks
  <2>3. /\ db' \in Files /\ db'.nodes = db.nodes /\ db'.meta = db.meta /\ db'.stamp = db.stamp
        /\ db'.shape = db.shape \cup {v} /\ db'.recovery = db.recovery /\ db'.identity = db.identity
    BY <2>2 DEF Disk
  <2>4. Covered \subseteq Covered' /\ v \in Covered'
    BY <2>1, <2>3 DEF Covered
  <2>5. 1..v \subseteq Covered' /\ 1..db'.stamp \subseteq Covered'
    BY <1>2, <1>3, <2>3, <2>4, NextCovered
  <2>6. \A w \in db'.shape : w >= FirstStamped /\ w # ScriptVersion => w <= db'.stamp
    BY <1>1, <1>2, <1>3, <2>3
  <2>7. db'.stamp < open'[p].next /\ 1..(open'[p].next - 1) \subseteq Covered'
    <3>1. open'[p].next - 1 = v
      BY <1>2, <1>4
    <3> QED
      BY <1>2, <1>3, <1>4, <2>3, <2>5, <3>1
  <2>8. mishaps' \in 0..OpenFaults /\ skipped' \subseteq Versions
    BY <1>0, <2>1 DEF SchemaTypeOK
  <2> HIDE DEF Covered
  <2> QED
    BY <1>1, <1>3, <1>4, <2>1, <2>3, <2>5, <2>6, <2>7, <2>8, MigrationStep
<1>6. CASE PassOver(p, v)
  <2>1. db' = db /\ mishaps' = mishaps + 1 /\ mishaps < OpenFaults /\ skipped' = skipped \cup ({v} \ db.shape)
    BY <1>6 DEF PassOver
  <2>2. Covered \subseteq Covered' /\ v \in Covered'
    BY <2>1 DEF Covered
  <2>3. 1..v \subseteq Covered' /\ 1..db'.stamp \subseteq Covered'
    BY <1>2, <1>3, <2>1, <2>2, NextCovered
  <2>4. db'.stamp < open'[p].next /\ 1..(open'[p].next - 1) \subseteq Covered'
    <3>1. open'[p].next - 1 = v
      BY <1>2, <1>4
    <3> QED
      BY <1>2, <1>3, <1>4, <2>1, <2>3, <3>1
  <2>5. mishaps' \in 0..OpenFaults /\ skipped' \subseteq Versions /\ db' \in Files
    BY <1>0, <2>1, FileTyped, FaultsAssumption DEF SchemaTypeOK
  <2> QED
    BY <1>1, <1>3, <1>4, <2>1, <2>3, <2>4, <2>5, MigrationStep
<1> QED
  BY <1>5, <1>6

\* A migration that stamps its version in one transaction.
LEMMA StampedStep ==
    ASSUME SchemaInv, NEW p \in Openers, NEW v \in Versions, MigrateStamped(p, v)
    PROVE  Carries(p)
<1>0. SchemaTypeOK
  BY DEF SchemaInv
<1>1. /\ UNCHANGED <<lock, snapshots, mishaps, found, skipped>> /\ open[p].at = "migrate"
      /\ open[p].next = v /\ v >= FirstStamped /\ Passes(p)
  BY DEF MigrateStamped, Comes, At
<1>2. v \in Nat \ {0} /\ FirstStamped \in Nat
  BY FaultsAssumption, VersionsAssumption
<1>3. /\ db.stamp \in Nat \ {0} /\ db.stamp < v /\ 1..(v - 1) \subseteq Covered
      /\ \A w \in db.shape : w \in Nat /\ (w >= FirstStamped /\ w # ScriptVersion => w <= db.stamp)
  BY <1>1, MigrationFacts
<1>4. /\ open' \in [Openers -> Opens] /\ \A q \in Openers \ {p} : open'[q] = open[q]
      /\ open'[p].at = "migrate" /\ open'[p].next = v + 1
      /\ open'[p].hasMeta = open[p].hasMeta /\ open'[p].hasNodes = open[p].hasNodes
  BY <1>0, <1>1, PassesSeat
<1>5. db' = [db EXCEPT !.shape = db.shape \cup {v}, !.stamp = v]
  BY <1>0, FileTyped DEF MigrateStamped, Files, StampOwn
<1>6. Disk(db', db.nodes, db.meta, v, db.shape \cup {v}, db.recovery, db.profile, db.identity)
  <2>1. db.shape \cup {v} \in SUBSET Versions
    BY <1>0, FileTyped
  <2> QED
    BY <1>0, <1>5, <2>1, FileTyped, Disks
<1>7. /\ db' \in Files /\ db'.nodes = db.nodes /\ db'.meta = db.meta /\ db'.stamp = v
      /\ db'.shape = db.shape \cup {v} /\ db'.recovery = db.recovery /\ db'.identity = db.identity
  BY <1>6 DEF Disk
<1>8. Covered \subseteq Covered' /\ v \in Covered'
  BY <1>1, <1>7 DEF Covered
<1>9. 1..v \subseteq Covered'
  BY <1>2, <1>3, <1>8, NextCovered
<1>10. \A w \in db'.shape : w >= FirstStamped /\ w # ScriptVersion => w <= db'.stamp
  BY <1>2, <1>3, <1>7
<1>11. db'.stamp < open'[p].next /\ 1..(open'[p].next - 1) \subseteq Covered'
  <2>1. open'[p].next - 1 = v
    BY <1>2, <1>4
  <2> QED
    BY <1>2, <1>4, <1>7, <1>9, <2>1
<1>12. mishaps' \in 0..OpenFaults /\ skipped' \subseteq Versions
  BY <1>0, <1>1 DEF SchemaTypeOK
<1> QED
  BY <1>1, <1>2, <1>4, <1>7, <1>9, <1>10, <1>11, <1>12, MigrationStep

\* The migration that runs a script.
LEMMA ScriptStep ==
    ASSUME SchemaInv, NEW p \in Openers, NEW v \in Versions, MigrateScript(p, v)
    PROVE  Carries(p)
<1>0. SchemaTypeOK
  BY DEF SchemaInv
<1>1. /\ UNCHANGED <<lock, snapshots, mishaps, found, skipped>> /\ open[p].at = "migrate"
      /\ open[p].next = v /\ v = ScriptVersion
  BY DEF MigrateScript, Comes, At
<1>2. /\ db.stamp \in Nat \ {0} /\ db.stamp < v /\ 1..(v - 1) \subseteq Covered /\ 1..db.stamp \subseteq Covered
      /\ \A w \in db.shape : w \in Nat /\ (w >= FirstStamped /\ w # ScriptVersion => w <= db.stamp)
  BY <1>1, MigrationFacts
<1>3. Goes(p, "script")
  BY <1>0, MovesGoes DEF MigrateScript, Steps
<1>4. /\ open' \in [Openers -> Opens] /\ \A q \in Openers \ {p} : open'[q] = open[q]
      /\ open'[p].at = "script" /\ open'[p].next = v
      /\ open'[p].hasMeta = open[p].hasMeta /\ open'[p].hasNodes = open[p].hasNodes
  BY <1>1, <1>3, GoesFields
<1>5. db' = [db EXCEPT !.shape = db.shape \cup {v}]
  BY <1>0, FileTyped DEF MigrateScript, Files
<1>6. Disk(db', db.nodes, db.meta, db.stamp, db.shape \cup {v}, db.recovery, db.profile, db.identity)
  <2>1. db.shape \cup {v} \in SUBSET Versions
    BY <1>0, FileTyped
  <2> QED
    BY <1>0, <1>5, <2>1, FileTyped, Disks
<1>7. /\ db' \in Files /\ db'.nodes = db.nodes /\ db'.meta = db.meta /\ db'.stamp = db.stamp
      /\ db'.shape = db.shape \cup {v} /\ db'.recovery = db.recovery /\ db'.identity = db.identity
  BY <1>6 DEF Disk
<1>8. Covered \subseteq Covered'
  BY <1>1, <1>7 DEF Covered
<1>9. \A w \in db'.shape : w >= FirstStamped /\ w # ScriptVersion => w <= db'.stamp
  BY <1>1, <1>2, <1>7
<1>10. 1..db'.stamp \subseteq Covered' /\ 1..(open'[p].next - 1) \subseteq Covered'
  BY <1>2, <1>4, <1>7, <1>8
<1>11. mishaps' \in 0..OpenFaults /\ skipped' \subseteq Versions
  BY <1>0, <1>1 DEF SchemaTypeOK
<1>12. db'.stamp < open'[p].next /\ db'.stamp # 0
  BY <1>2, <1>4, <1>7
<1> QED
  BY <1>1, <1>4, <1>7, <1>9, <1>10, <1>11, <1>12, MigrationStep

\* The stamp that follows the script.
LEMMA StampScriptStep ==
    ASSUME SchemaInv, NEW p \in Openers, StampScript(p)
    PROVE  Carries(p)
<1> DEFINE v == open[p].next
<1>0. SchemaTypeOK
  BY DEF SchemaInv
<1>1. /\ UNCHANGED <<lock, snapshots, mishaps, found, skipped>> /\ open[p].at = "script" /\ Passes(p)
      /\ db' = [db EXCEPT !.stamp = v]
  BY DEF StampScript, At, StampOwn
<1>2. v \in Versions /\ v \in db.shape /\ v \in Nat \ {0}
  BY <1>1, VersionsAssumption DEF SchemaInv, MigratesOK
<1>3. /\ db.stamp \in Nat \ {0} /\ db.stamp < v /\ 1..(v - 1) \subseteq Covered
      /\ \A w \in db.shape : w \in Nat /\ (w >= FirstStamped /\ w # ScriptVersion => w <= db.stamp)
  BY <1>1, MigrationFacts
<1>4. /\ open' \in [Openers -> Opens] /\ \A q \in Openers \ {p} : open'[q] = open[q]
      /\ open'[p].at = "migrate" /\ open'[p].next = v + 1
      /\ open'[p].hasMeta = open[p].hasMeta /\ open'[p].hasNodes = open[p].hasNodes
  BY <1>0, <1>1, PassesSeat
<1>5. Disk(db', db.nodes, db.meta, v, db.shape, db.recovery, db.profile, db.identity)
  BY <1>0, <1>1, <1>2, FileTyped, Disks
<1>6. /\ db' \in Files /\ db'.nodes = db.nodes /\ db'.meta = db.meta /\ db'.stamp = v
      /\ db'.shape = db.shape /\ db'.recovery = db.recovery /\ db'.identity = db.identity
  BY <1>5 DEF Disk
<1>7. Covered' = Covered /\ v \in Covered
  BY <1>1, <1>2, <1>6 DEF Covered
<1> HIDE DEF v
<1>8. 1..v \subseteq Covered'
  BY <1>2, <1>3, <1>7, NextCovered
<1>9. FirstStamped \in Nat
  BY FaultsAssumption
<1>10. \A w \in db'.shape : w >= FirstStamped /\ w # ScriptVersion => w <= db'.stamp
  BY <1>2, <1>3, <1>6, <1>9
<1>11. db'.stamp < open'[p].next /\ 1..(open'[p].next - 1) \subseteq Covered' /\ db'.stamp # 0
  <2>1. open'[p].next - 1 = v
    BY <1>2, <1>4
  <2> QED
    BY <1>2, <1>4, <1>6, <1>8, <2>1
<1>12. mishaps' \in 0..OpenFaults /\ skipped' \subseteq Versions
  BY <1>0, <1>1 DEF SchemaTypeOK
<1> QED
  BY <1>1, <1>4, <1>6, <1>8, <1>10, <1>11, <1>12, MigrationStep

\* The last stamp; the lock is given back.
LEMMA MigrationEndsStep ==
    ASSUME SchemaInv, NEW p \in Openers, MigrationEnds(p)
    PROVE  Carries(p)
<1>0. SchemaTypeOK /\ LockOK /\ LookedOK(p)
  BY DEF SchemaInv
<1>1. /\ UNCHANGED <<db, snapshots, mishaps, found, skipped>> /\ open[p].at = "migrate"
      /\ open[p].next > BuildOf[p] /\ lock' = lock \ {p}
  BY DEF MigrationEnds, At, Frees
<1>2. Goes(p, "profile") /\ "profile" \in Steps
  BY <1>0, MovesGoes DEF MigrationEnds, Steps
<1>3. /\ open'[p].at = "profile" /\ \A q \in Openers \ {p} : open'[q] = open[q]
      /\ open'[p].hasMeta = open[p].hasMeta /\ open'[p].hasNodes = open[p].hasNodes
  BY <1>2, GoesFields
<1>4. LockOK'
  BY <1>0, <1>1, <1>3, LockStep DEF Migrating
<1>5. LookedOK(p)' /\ MigratesOK(p)'
  BY <1>0, <1>1, <1>3 DEF LookedOK, MigratesOK
<1>6. db.stamp \in Nat \ {0} /\ 1..(open[p].next - 1) \subseteq Covered /\ open[p].next \in Nat
  BY <1>1, MigrationFacts
<1>7. BuildOf[p] \in Nat
  BY <1>0, FileTyped
<1>8. 1..BuildOf[p] \subseteq Covered
  BY <1>1, <1>6, <1>7
<1>9. Covered' = Covered
  BY <1>1 DEF Covered
<1>10. WorksOK(p)'
  BY <1>1, <1>3, <1>6, <1>8, <1>9 DEF WorksOK, Usable, At
<1>11. lock' \subseteq Openers
  BY <1>0, <1>1 DEF SchemaTypeOK
<1> QED
  BY <1>1, <1>2, <1>4, <1>5, <1>10, <1>11, GoesStep

\* A step of who works with the store already: the tables stay.
LEMMA WorkStep ==
    ASSUME SchemaInv, NEW p \in Openers, Usable(p), Usable(p)',
           UNCHANGED <<lock, snapshots, found, skipped>>, mishaps' \in 0..OpenFaults, db' \in Files,
           db'.nodes = db.nodes, db'.meta = db.meta, db'.stamp = db.stamp, db'.shape = db.shape,
           db'.recovery = db.recovery, db.identity # {} => db'.identity = db.identity,
           open' \in [Openers -> Opens], \A q \in Openers \ {p} : open'[q] = open[q],
           open'[p].hasMeta = open[p].hasMeta, open'[p].hasNodes = open[p].hasNodes,
           open'[p].at = "open" => open'[p].identity \in {{}, db'.identity},
           open'[p].at = "agree" => open'[p].identity = {}
    PROVE  Carries(p)
<1>1. SchemaTypeOK /\ FileOK /\ LockOK /\ LookedOK(p) /\ WorksOK(p) /\ Recoverable
  BY DEF SchemaInv
<1>2. open'[p].at \notin Migrating \cup {"check", "version", "wait"}
  BY DEF Usable, Migrating
<1>3. SchemaTypeOK'
  BY <1>1 DEF SchemaTypeOK
<1>4. LockOK'
  BY <1>1, <1>2, LockStep
<1>5. FileOK' /\ Grows /\ Untouched
  BY <1>1 DEF FileOK, Covered, Grows, Untouched
<1>6. Recoverable'
  BY <1>1 DEF Recoverable, Unfinished
<1>7. LookedOK(p)' /\ MigratesOK(p)'
  BY <1>1, <1>2 DEF LookedOK, MigratesOK, Migrating
<1>8. WorksOK(p)'
  BY <1>1 DEF WorksOK, At, Covered
<1> QED
  BY <1>3, <1>4, <1>5, <1>6, <1>7, <1>8 DEF Carries

\* The profile of the store is read, and that of the process written if it has none.
LEMMA ProfileStep ==
    ASSUME SchemaInv, NEW p \in Openers, CheckProfile(p) \/ BindProfile(p)
    PROVE  Carries(p)
<1>0. SchemaTypeOK
  BY DEF SchemaInv
<1>1. /\ UNCHANGED <<snapshots, mishaps, found, skipped>>
      /\ open[p].at \in {"profile", "bind"} /\ Usable(p)
  BY DEF CheckProfile, BindProfile, At, Usable
<1>2. mishaps' \in 0..OpenFaults
  BY <1>0, <1>1 DEF SchemaTypeOK
<1>3. CASE CheckProfile(p)
  <2>1. db' = db
    BY <1>3 DEF CheckProfile
  <2>2. CASE Fails(p)
    BY <1>0, <1>1, <1>2, <2>1, <2>2, FailsCloses, ClosedStep DEF Fails, Frees
  <2>3. CASE (Moves(p, "identity") \/ Moves(p, "bind")) /\ UNCHANGED lock
    <3>1. PICK at \in {"identity", "bind"} : Moves(p, at)
      BY <2>3
    <3>2. at \in Steps
      BY DEF Steps
    <3>3. Goes(p, at)
      BY <1>0, <3>1, <3>2, MovesGoes
    <3>4. /\ open' \in [Openers -> Opens] /\ \A q \in Openers \ {p} : open'[q] = open[q]
          /\ open'[p].at = at /\ open'[p].hasMeta = open[p].hasMeta
          /\ open'[p].hasNodes = open[p].hasNodes
      BY <3>3, GoesFields
    <3>5. Usable(p)'
      BY <3>4 DEF Usable
    <3> QED
      BY <1>0, <1>1, <1>2, <2>1, <2>3, <3>4, <3>5, FileTyped, WorkStep
  <2> QED
    BY <1>3, <2>2, <2>3 DEF CheckProfile
<1>4. CASE BindProfile(p)
  <2>1. db' = [db EXCEPT !.profile = ProfileOf[p]] /\ lock' = lock
    BY <1>4 DEF BindProfile
  <2>2. ProfileOf[p] \in SUBSET Profiles
    BY VersionsAssumption
  <2>3. Disk(db', db.nodes, db.meta, db.stamp, db.shape, db.recovery, ProfileOf[p], db.identity)
    BY <1>0, <2>1, <2>2, FileTyped, Disks
  <2>4. Goes(p, "identity")
    BY <1>0, <1>4, MovesGoes DEF BindProfile, Steps
  <2>5. /\ open' \in [Openers -> Opens] /\ \A q \in Openers \ {p} : open'[q] = open[q]
        /\ open'[p].at = "identity" /\ open'[p].hasMeta = open[p].hasMeta
        /\ open'[p].hasNodes = open[p].hasNodes
    BY <2>4, GoesFields
  <2>6. Usable(p)'
    BY <2>5 DEF Usable
  <2>7. /\ db' \in Files /\ db'.nodes = db.nodes /\ db'.meta = db.meta /\ db'.stamp = db.stamp
        /\ db'.shape = db.shape /\ db'.recovery = db.recovery /\ db'.identity = db.identity
    BY <2>3 DEF Disk
  <2> QED
    BY <1>1, <1>2, <2>1, <2>5, <2>6, <2>7, WorkStep
<1> QED
  BY <1>3, <1>4

\* Once there is an identity, nobody replaces it.
LEMMA IdentityStep ==
    ASSUME SchemaInv, NEW p \in Openers,
           CheckIdentity(p) \/ AgreeIdentity(p) \/ AgreeBusy(p) \/ AsksIdentity(p)
    PROVE  Carries(p)
<1>0. SchemaTypeOK
  BY DEF SchemaInv
<1>1. UNCHANGED <<lock, snapshots, found, skipped>> /\ Usable(p) /\ mishaps' \in 0..OpenFaults
  BY <1>0, FaultsAssumption DEF CheckIdentity, AgreeIdentity, AgreeBusy, AsksIdentity, At, Usable, SchemaTypeOK
<1>2. CASE CheckIdentity(p)
  <2> DEFINE at == IF db.identity = {} THEN "agree" ELSE "open"
             l == [open[p] EXCEPT !.at = at, !.identity = db.identity]
  <2>1. open' = [open EXCEPT ![p] = l] /\ db' = db
    BY <1>0, <1>2 DEF CheckIdentity, SchemaTypeOK
  <2>2. at \in Steps /\ at \in {"agree", "open"} /\ (at = "agree" => db.identity = {})
    BY DEF Steps
  <2> HIDE DEF at
  <2>3. Seat(l, at, open[p].hasMeta, open[p].hasNodes, open[p].plan, open[p].next, open[p].copy, db.identity)
    BY <1>0, <2>2, OpenTyped, FileTyped, Seats
  <2> HIDE DEF l
  <2>4. Turns(p, at, open[p].hasMeta, open[p].hasNodes, open[p].plan, open[p].next, open[p].copy, db.identity)
    BY <1>0, <2>1, <2>3, Sits
  <2>5. /\ open' \in [Openers -> Opens] /\ \A q \in Openers \ {p} : open'[q] = open[q]
        /\ open'[p].at = at /\ open'[p].hasMeta = open[p].hasMeta
        /\ open'[p].hasNodes = open[p].hasNodes /\ open'[p].identity = db.identity
    BY <2>4 DEF Turns, Seat
  <2>6. Usable(p)'
    BY <2>2, <2>5 DEF Usable
  <2> QED
    BY <1>0, <1>1, <2>1, <2>2, <2>5, <2>6, FileTyped, WorkStep
<1>3. CASE AgreeIdentity(p)
  <2> DEFINE i == KeptIdentity(p)
             l == [open[p] EXCEPT !.at = "open", !.identity = i]
  <2>1. open' = [open EXCEPT ![p] = l] /\ db' = [db EXCEPT !.identity = i]
    BY <1>0, <1>3 DEF AgreeIdentity, SchemaTypeOK
  <2>2. i \in SUBSET Openers /\ i # {} /\ (db.identity # {} => i = db.identity)
    BY <1>0, FileTyped DEF KeptIdentity
  <2> HIDE DEF i
  <2>3. Disk(db', db.nodes, db.meta, db.stamp, db.shape, db.recovery, db.profile, i)
    BY <1>0, <2>1, <2>2, FileTyped, Disks
  <2>4. Seat(l, "open", open[p].hasMeta, open[p].hasNodes, open[p].plan, open[p].next, open[p].copy, i)
    BY <1>0, <2>2, OpenTyped, Seats DEF Steps
  <2> HIDE DEF l
  <2>5. Turns(p, "open", open[p].hasMeta, open[p].hasNodes, open[p].plan, open[p].next, open[p].copy, i)
    BY <1>0, <2>1, <2>4, Sits
  <2>6. /\ open' \in [Openers -> Opens] /\ \A q \in Openers \ {p} : open'[q] = open[q]
        /\ open'[p].at = "open" /\ open'[p].hasMeta = open[p].hasMeta
        /\ open'[p].hasNodes = open[p].hasNodes /\ open'[p].identity = i
    BY <2>5 DEF Turns, Seat
  <2>7. /\ db' \in Files /\ db'.nodes = db.nodes /\ db'.meta = db.meta /\ db'.stamp = db.stamp
        /\ db'.shape = db.shape /\ db'.recovery = db.recovery /\ db'.identity = i
    BY <2>3 DEF Disk
  <2>8. Usable(p)'
    BY <2>6 DEF Usable
  <2> QED
    BY <1>1, <2>2, <2>6, <2>7, <2>8, WorkStep
<1>4. CASE AgreeBusy(p) \/ AsksIdentity(p)
  <2>1. PICK at \in {"open", "identity"} : Moves(p, at)
    BY <1>4 DEF AgreeBusy, AsksIdentity
  <2>2. at \in Steps
    BY DEF Steps
  <2>3. Goes(p, at)
    BY <1>0, <2>1, <2>2, MovesGoes
  <2>4. /\ open' \in [Openers -> Opens] /\ \A q \in Openers \ {p} : open'[q] = open[q]
        /\ open'[p].at = at /\ open'[p].hasMeta = open[p].hasMeta
        /\ open'[p].hasNodes = open[p].hasNodes /\ open'[p].identity = open[p].identity
    BY <2>3 DEF Goes, Turns, Seat
  <2>5. open[p].identity = {} /\ db' = db
    BY <1>4 DEF AgreeBusy, AsksIdentity, SchemaInv, WorksOK, At
  <2>6. Usable(p)'
    BY <2>4 DEF Usable
  <2> QED
    BY <1>0, <1>1, <2>4, <2>5, <2>6, FileTyped, WorkStep
<1> QED
  BY <1>2, <1>3, <1>4

-----------------------------------------------------------------------------
LEMMA SchemaStarts == SchemaInit => SchemaInv
<1> SUFFICES ASSUME SchemaInit PROVE SchemaInv
  OBVIOUS
<1> USE DEF SchemaInit
<1>1. /\ NotOpen \in Opens /\ NotOpen.at = "closed" /\ ~NotOpen.hasMeta /\ ~NotOpen.hasNodes
  BY DEF NotOpen, Opens, Steps, Plans
<1>2. SchemaTypeOK
  BY <1>1, StoresAssumption, FaultsAssumption DEF SchemaTypeOK
<1>3. FileOK
  BY <1>2, FileTyped, StoresAssumption DEF FileOK, Covered
<1>4. LockOK /\ Recoverable
  BY <1>1 DEF LockOK, Migrating, Recoverable
<1>5. \A p \in Openers : LookedOK(p) /\ MigratesOK(p) /\ WorksOK(p)
  BY <1>1 DEF LookedOK, MigratesOK, WorksOK, Usable, At
<1> QED
  BY <1>2, <1>3, <1>4, <1>5 DEF SchemaInv

\* Every step keeps the invariant.
LEMMA SchemaKept == SchemaInv /\ [SchemaNext]_schemaVars => SchemaInv'
<1> SUFFICES ASSUME SchemaInv, [SchemaNext]_schemaVars PROVE SchemaInv'
  OBVIOUS
<1>1. ASSUME NEW p \in Openers, GoesOn(p) PROVE Carries(p)
  <2>1. CASE LookNodes(p) \/ LookVersion(p) \/ Lock(p)
    BY <2>1, LookStep, LookVersionStep, LockTaken
  <2>2. CASE CreateFresh(p) \/ CreatedMeanwhile(p) \/ StampFirst(p) \/ Recheck(p) \/ RecheckAncient(p)
    BY <2>2, CreateFreshStep, CreatedMeanwhileStep, StampFirstStep, RecheckStep, RecheckAncientStep
  <2>3. CASE Snapshot(p) \/ CreateMeta(p) \/ StampAncient(p) \/ RecordRecovery(p)
    BY <2>3, SnapshotStep, AncientStep, RecordRecoveryStep
  <2>4. ASSUME NEW v \in Versions, MigrateUnstamped(p, v) \/ MigrateStamped(p, v) \/ MigrateScript(p, v)
        PROVE  Carries(p)
    BY <2>4, UnstampedStep, StampedStep, ScriptStep
  <2>5. CASE StampScript(p) \/ MigrationEnds(p)
    BY <2>5, StampScriptStep, MigrationEndsStep
  <2>6. CASE CheckProfile(p) \/ BindProfile(p) \/ CheckIdentity(p) \/ AgreeIdentity(p)
    BY <2>6, ProfileStep, IdentityStep
  <2> QED
    BY <1>1, <2>1, <2>2, <2>3, <2>4, <2>5, <2>6 DEF GoesOn
<1>2. CASE SchemaNext
  <2>1. PICK p \in Openers :
          \/ LookMeta(p) \/ GoesOn(p) \/ AsksIdentity(p) \/ Leaves(p)
          \/ Die(p) \/ GiveUp(p) \/ AgreeBusy(p) \/ \E v \in Versions : PassOver(p, v)
    BY <1>2 DEF SchemaNext
  <2>2. Carries(p)
    BY <1>1, <2>1, LookStep, EndingStep, UnstampedStep, IdentityStep
  <2> QED
    BY <2>2, OthersCarry
<1>3. CASE UNCHANGED schemaVars
  BY <1>3 DEF schemaVars, SchemaInv, SchemaTypeOK, FileOK, Covered, LockOK, Recoverable, Unfinished,
     LookedOK, MigratesOK, Old, Safe, WorksOK, Usable, At
<1> QED
  BY <1>2, <1>3

\* The invariant of migration holds of every behaviour (store.py: _ensure_schema).
THEOREM SchemaInvariant == SchemaSpec => []SchemaInv
<1> QED
  BY SchemaStarts, SchemaKept, PTL DEF SchemaSpec

\* The file, the lock, the snapshots and the processes keep their shape (store.py:
\* _ensure_schema).
THEOREM SchemaTypeCorrect == SchemaSpec => []SchemaTypeOK
<1>1. SchemaInv => SchemaTypeOK
  BY DEF SchemaInv
<1> QED
  BY <1>1, SchemaInvariant, PTL

\* A store in use has every table and column that the build of its process relies on,
\* and no two processes have read different identities of it (store.py: _init_schema,
\* _ensure_graph_identity).
THEOREM OpensCurrent == SchemaSpec => []OpenIsCurrent
<1>1. SchemaInv => OpenIsCurrent
  BY DEF SchemaInv, WorksOK, OpenIsCurrent
<1> QED
  BY <1>1, SchemaInvariant, PTL

\* The shape that was found stays on disk or in a complete snapshot, wherever a
\* migration stops (store.py: _create_migration_snapshot).
THEOREM RecoveryKept == SchemaSpec => []Recoverable
<1>1. SchemaInv => Recoverable
  BY DEF SchemaInv
<1> QED
  BY <1>1, SchemaInvariant, PTL

\* No stamped migration runs twice on one store, however many processes open it
\* (store.py: _run_migrations).
THEOREM MigratesOnce == SchemaSpec => MigratedOnce
<1>1. ASSUME SchemaInv, NEW p \in Openers, NEW v \in Versions, MigrateStamped(p, v)
      PROVE  v \notin db.shape
  <2>1. open[p].at = "migrate" /\ open[p].next = v /\ v >= FirstStamped /\ v # ScriptVersion
    BY <1>1 DEF MigrateStamped, Comes, At
  <2>2. /\ db.stamp \in Nat /\ db.stamp < v /\ v \in Nat
        /\ \A w \in db.shape : w \in Nat /\ (w >= FirstStamped /\ w # ScriptVersion => w <= db.stamp)
    BY <1>1, <2>1, MigrationFacts
  <2> QED
    BY <2>1, <2>2
<1>2. SchemaInv /\ [SchemaNext]_schemaVars
        => [\A p \in Openers, v \in Versions : MigrateStamped(p, v) => v \notin db.shape]_schemaVars
  BY <1>1
<1> QED
  BY <1>2, SchemaInvariant, PTL DEF SchemaSpec, MigratedOnce

-----------------------------------------------------------------------------
(* The slow archive (archive.py).  Its files have no common lock, so what  *)
(* a process has read of them may have changed when it clears them, and a  *)
(* file may have another name by then.  The invariant counts: what is not  *)
(* in the graph has more files than there are restores that will take it   *)
(* out of one.                                                             *)

\* What an archive file holds.
ArchiveFiles == [nodes : SUBSET Kept, edges : SUBSET DOMAIN Joins, since : Int]

\* What a restore has brought back and will clear, by the name of the file: m are
\* the edges there are.
IsBack(b, m) ==
    /\ b = [f \in DOMAIN b |-> b[f]] /\ DOMAIN b \subseteq Names
    /\ \A f \in DOMAIN b : b[f] \subseteq m

\* What a process may be doing, with the files s and the edges m.
Fits(h, s, m) ==
    \/ h = HandIdle
    \/ \E a \in {"rotate", "open"}, l \in SUBSET Kept : h = [at |-> a, list |-> l]
    \/ \E l \in SUBSET Kept, i \in s : h = [at |-> "move", list |-> l, file |-> i]
    \/ \E l \in SUBSET Kept, i \in s, n \in Kept : h = [at |-> "copied", list |-> l, file |-> i, node |-> n]
    \/ \E n \in Kept, k \in SUBSET Names, o \in Names, i \in s :
         h = [at |-> "found", node |-> n, names |-> k, own |-> o, file |-> i]
    \/ \E n \in Kept, o \in Names, i \in s : \E b :
         IsBack(b, m) /\ h = [at |-> "clear", node |-> n, own |-> o, file |-> i, back |-> b]
    \/ \E o \in Names, i \in s : \E b : IsBack(b, m) /\ h = [at |-> "edges", own |-> o, file |-> i, back |-> b]

\* The files that hold a node or an edge, and the restores that have yet to take
\* it out of one.
NodeFiles(n) == {i \in DOMAIN inode : n \in inode[i].nodes}
EdgeFiles(e) == {i \in DOMAIN inode : e \in inode[i].edges}
NodeDue(n) == {p \in Hands : hand[p].at = "clear" /\ hand[p].node = n}
Owes(h, f, e) == h.at \in {"clear", "edges"} /\ f \in DOMAIN h.back /\ e \in h.back[f]
EdgeDue(e) == {t \in Hands \X Names : Owes(hand[t[1]], t[2], e)}

\* What is not in the graph, or is copied and about to leave it.
NodeLeaves(n) == graph[n] = "absent" \/ \E p \in Hands : hand[p].at = "copied" /\ hand[p].node = n
EdgeLeaves(e) == e \notin joined \/ \E p \in Hands : hand[p].at = "copied" /\ e \in EdgesOf(hand[p].node)

\* As many files hold it as will lose it, and one more if only they have it.
Covers(d, s) == IsFiniteSet(d) /\ IsFiniteSet(s) /\ Cardinality(d) <= Cardinality(s)
Exceeds(d, s) == IsFiniteSet(d) /\ IsFiniteSet(s) /\ Cardinality(d) < Cardinality(s)
NodeCounted(n) ==
    Covers(NodeDue(n), NodeFiles(n)) /\ (NodeLeaves(n) => Exceeds(NodeDue(n), NodeFiles(n)))
EdgeCounted(e) ==
    Covers(EdgeDue(e), EdgeFiles(e)) /\ (EdgeLeaves(e) => Exceeds(EdgeDue(e), EdgeFiles(e)))

ArchiveFits ==
    /\ ArchiveTypeOK /\ inode \in Seq(ArchiveFiles)
    /\ \A p \in Hands : Fits(hand[p], DOMAIN inode, minted)
    /\ \A i \in DOMAIN inode : \E f \in Names : name[f] = i
ArchiveInv ==
    /\ ArchiveFits
    /\ \A n \in Kept \ erased : NodeCounted(n)
    /\ \A e \in minted \ erased : EdgeCounted(e)

-----------------------------------------------------------------------------
\* Fewer due, or more files, is no worse.
LEMMA CountsKeep ==
    ASSUME NEW d, NEW s, NEW c \in SUBSET d, NEW t, s \subseteq t, IsFiniteSet(t)
    PROVE  (Covers(d, s) => Covers(c, t)) /\ (Exceeds(d, s) => Exceeds(c, t))
<1>1. ASSUME IsFiniteSet(d), IsFiniteSet(s)
      PROVE  /\ IsFiniteSet(c) /\ Cardinality(c) <= Cardinality(d) /\ Cardinality(s) <= Cardinality(t)
             /\ Cardinality(c) \in Nat /\ Cardinality(d) \in Nat /\ Cardinality(s) \in Nat /\ Cardinality(t) \in Nat
  BY <1>1, FS_Subset, FS_CardinalityType
<1> QED
  BY <1>1 DEF Covers, Exceeds

\* Who copies makes one more; who restores owes one more; who clears owes one less.
LEMMA CountsMove ==
    ASSUME NEW d, NEW s, NEW x
    PROVE  /\ Covers(d, s) /\ x \notin s => Exceeds(d, s \cup {x})
           /\ Exceeds(d, s) => Covers(d \cup {x}, s) /\ s # {}
           /\ \A y : x \in d => /\ Covers(d, s) => Covers(d \ {x}, s \ {y})
                                /\ Exceeds(d, s) => Exceeds(d \ {x}, s \ {y})
<1>1. ASSUME IsFiniteSet(d), IsFiniteSet(s)
      PROVE  /\ Cardinality(d) \in Nat /\ Cardinality(s) \in Nat
             /\ IsFiniteSet(s \cup {x}) /\ (x \notin s => Cardinality(s \cup {x}) = Cardinality(s) + 1)
             /\ IsFiniteSet(d \cup {x}) /\ Cardinality(d \cup {x}) <= Cardinality(d) + 1
             /\ Cardinality(d \cup {x}) \in Nat
             /\ IsFiniteSet(d \ {x}) /\ (x \in d => Cardinality(d \ {x}) = Cardinality(d) - 1)
  <2>1. Cardinality(d) \in Nat /\ Cardinality(s) \in Nat
    BY <1>1, FS_CardinalityType
  <2>2. IsFiniteSet(s \cup {x}) /\ (x \notin s => Cardinality(s \cup {x}) = Cardinality(s) + 1)
    BY <1>1, FS_AddElement
  <2>3. IsFiniteSet(d \cup {x}) /\ (Cardinality(d \cup {x}) = Cardinality(d) \/ Cardinality(d \cup {x}) = Cardinality(d) + 1)
    BY <1>1, FS_AddElement
  <2>4. IsFiniteSet(d \ {x}) /\ (x \in d => Cardinality(d \ {x}) = Cardinality(d) - 1)
    BY <1>1, FS_RemoveElement
  <2> QED
    BY <2>1, <2>2, <2>3, <2>4
<1>2. ASSUME IsFiniteSet(s), NEW y
      PROVE  IsFiniteSet(s \ {y}) /\ Cardinality(s \ {y}) >= Cardinality(s) - 1 /\ Cardinality(s \ {y}) \in Nat
  <2>1. Cardinality(s) \in Nat /\ IsFiniteSet(s \ {y})
        /\ Cardinality(s \ {y}) = IF y \in s THEN Cardinality(s) - 1 ELSE Cardinality(s)
    BY <1>2, FS_RemoveElement, FS_CardinalityType
  <2>2. Cardinality(s \ {y}) \in Nat
    BY <2>1, FS_CardinalityType
  <2> QED
    BY <2>1, <2>2
<1>3. s = {} => Cardinality(s) = 0
  BY FS_EmptySet
<1>4. Covers(d, s) /\ x \notin s => Exceeds(d, s \cup {x})
  BY <1>1 DEF Covers, Exceeds
<1>5. Exceeds(d, s) => Covers(d \cup {x}, s) /\ s # {}
  BY <1>1, <1>3 DEF Covers, Exceeds
<1>6. ASSUME NEW y, x \in d
      PROVE  (Covers(d, s) => Covers(d \ {x}, s \ {y})) /\ (Exceeds(d, s) => Exceeds(d \ {x}, s \ {y}))
  <2>1. ASSUME IsFiniteSet(d), IsFiniteSet(s)
        PROVE  /\ IsFiniteSet(d \ {x}) /\ IsFiniteSet(s \ {y}) /\ Cardinality(d) \in Nat /\ Cardinality(s) \in Nat
               /\ Cardinality(d \ {x}) = Cardinality(d) - 1 /\ Cardinality(s \ {y}) >= Cardinality(s) - 1
               /\ Cardinality(s \ {y}) \in Nat
    BY <1>1, <1>2, <1>6, <2>1
  <2> QED
    BY <2>1 DEF Covers, Exceeds
<1> QED
  BY <1>4, <1>5, <1>6

\* More than enough is enough.
LEMMA ExceedsCovers == \A d, s : Exceeds(d, s) => Covers(d, s)
<1> SUFFICES ASSUME NEW d, NEW s, Exceeds(d, s) PROVE Covers(d, s)
  OBVIOUS
<1>1. Cardinality(d) \in Nat /\ Cardinality(s) \in Nat
  BY FS_CardinalityType DEF Exceeds
<1> QED
  BY <1>1 DEF Exceeds, Covers

\* A process has what its place needs.
LEMMA HandParts ==
    ASSUME NEW s, NEW m, NEW h, Fits(h, s, m)
    PROVE  /\ h.at \in {"idle", "rotate", "open", "move", "copied", "found", "clear", "edges"}
           /\ h.at = "idle" => h = HandIdle
           /\ h.at \in {"rotate", "open"} => h = [at |-> h.at, list |-> h.list] /\ h.list \subseteq Kept
           /\ h.at = "move" => h = [at |-> "move", list |-> h.list, file |-> h.file]
           /\ h.at = "copied" => h = [at |-> "copied", list |-> h.list, file |-> h.file, node |-> h.node]
           /\ h.at \in {"move", "copied"} => h.list \subseteq Kept
           /\ h.at \in {"move", "copied", "found", "clear", "edges"} => h.file \in s
           /\ h.at \in {"found", "clear", "edges"} => h.own \in Names
           /\ h.at \in {"copied", "found", "clear"} => h.node \in Kept
           /\ h.at = "found" => h.names \subseteq Names
           /\ h.at \in {"clear", "edges"} => IsBack(h.back, m)
<1>1. CASE h = HandIdle
  BY <1>1 DEF HandIdle
<1>2. CASE \E a \in {"rotate", "open"}, l \in SUBSET Kept : h = [at |-> a, list |-> l]
  BY <1>2
<1>3. CASE \E l \in SUBSET Kept, i \in s : h = [at |-> "move", list |-> l, file |-> i]
  BY <1>3
<1>4. CASE \E l \in SUBSET Kept, i \in s, n \in Kept :
              h = [at |-> "copied", list |-> l, file |-> i, node |-> n]
  BY <1>4
<1>5. CASE \E n \in Kept, k \in SUBSET Names, o \in Names, i \in s :
              h = [at |-> "found", node |-> n, names |-> k, own |-> o, file |-> i]
  BY <1>5
<1>6. CASE \E n \in Kept, o \in Names, i \in s : \E b :
              IsBack(b, m) /\ h = [at |-> "clear", node |-> n, own |-> o, file |-> i, back |-> b]
  BY <1>6
<1>7. CASE \E o \in Names, i \in s : \E b :
              IsBack(b, m) /\ h = [at |-> "edges", own |-> o, file |-> i, back |-> b]
  BY <1>7
<1> QED
  BY <1>1, <1>2, <1>3, <1>4, <1>5, <1>6, <1>7 DEF Fits

-----------------------------------------------------------------------------
\* What fits goes on to fit: files and edges are only ever added.
LEMMA FitsOn ==
    ASSUME NEW s, NEW m, NEW h, Fits(h, s, m), NEW t, s \subseteq t, NEW k, m \subseteq k
    PROVE  Fits(h, t, k)
<1>1. \A b : IsBack(b, m) => IsBack(b, k)
  BY DEF IsBack
<1> QED
  BY <1>1 DEF Fits

\* A process moves, and the others stay.
LEMMA HandMoves ==
    ASSUME DOMAIN hand = Hands, NEW p \in Hands, NEW h, hand' = [hand EXCEPT ![p] = h]
    PROVE  DOMAIN hand' = Hands /\ hand'[p] = h /\ \A q \in Hands \ {p} : hand'[q] = hand[q]
OBVIOUS

\* Its types hold on, if what a step writes has its type.
LEMMA ArchiveFitsOn ==
    ASSUME ArchiveFits, NEW p \in Hands, NEW h, hand' = [hand EXCEPT ![p] = h], Fits(h, DOMAIN inode', minted'),
           graph' \in [Kept -> {"live", "dormant", "absent"}], joined' \subseteq minted', minted' \subseteq DOMAIN Joins,
           minted \subseteq minted', inode' \in Seq(ArchiveFiles), Len(inode) <= Len(inode'),
           \A i \in DOMAIN inode' : inode'[i].edges \subseteq minted',
           name' \in [Names -> 0..Len(inode')], \A i \in DOMAIN inode' : \E f \in Names : name'[f] = i,
           moment' \in 1..MaxStamp, erased' \subseteq Kept \cup minted'
    PROVE  ArchiveFits'
<1>1. DOMAIN inode \subseteq DOMAIN inode'
  BY DEF ArchiveFits, ArchiveTypeOK
<1>2. DOMAIN hand = Hands /\ \A q \in Hands : Fits(hand[q], DOMAIN inode, minted)
  BY DEF ArchiveFits, ArchiveTypeOK
<1>3. DOMAIN hand' = Hands /\ hand'[p] = h /\ \A q \in Hands \ {p} : hand'[q] = hand[q]
  BY <1>2, HandMoves
<1>4. \A q \in Hands : Fits(hand'[q], DOMAIN inode', minted')
  BY <1>1, <1>2, <1>3, FitsOn
<1>5. \A i \in DOMAIN inode' : inode'[i].nodes \subseteq Kept
  <2>1. \A i \in DOMAIN inode' : inode'[i] \in ArchiveFiles
    OBVIOUS
  <2> QED
    BY <2>1 DEF ArchiveFiles
<1>6. ArchiveTypeOK'
  BY <1>3, <1>5 DEF ArchiveTypeOK, Names, Current
<1> QED
  BY <1>4, <1>6 DEF ArchiveFits, Names, Current

-----------------------------------------------------------------------------
\* What a step has to say of the counts: it leaves no node and no edge that people
\* have not deleted with fewer files, more to lose or newly out of the graph.
SameNodes ==
    \A n \in Kept \ erased' :
        /\ NodeDue(n)' \subseteq NodeDue(n) /\ NodeFiles(n) \subseteq NodeFiles(n)'
        /\ IsFiniteSet(NodeFiles(n)') /\ (NodeLeaves(n)' => NodeLeaves(n))
SameEdges ==
    \A e \in minted' \ erased' :
        /\ EdgeDue(e)' \subseteq EdgeDue(e) /\ EdgeFiles(e) \subseteq EdgeFiles(e)'
        /\ IsFiniteSet(EdgeFiles(e)') /\ (EdgeLeaves(e)' => EdgeLeaves(e))

\* Then every node stays counted.
LEMMA NodesKept ==
    ASSUME ArchiveInv, erased \subseteq erased', SameNodes
    PROVE  \A n \in Kept \ erased' : NodeCounted(n)'
<1> SUFFICES ASSUME NEW n \in Kept \ erased' PROVE NodeCounted(n)'
  OBVIOUS
<1>1. NodeCounted(n)
  BY DEF ArchiveInv
<1>2. /\ NodeDue(n)' \subseteq NodeDue(n) /\ NodeFiles(n) \subseteq NodeFiles(n)'
      /\ IsFiniteSet(NodeFiles(n)') /\ (NodeLeaves(n)' => NodeLeaves(n))
  BY DEF SameNodes
<1>3. /\ Covers(NodeDue(n), NodeFiles(n)) => Covers(NodeDue(n)', NodeFiles(n)')
      /\ Exceeds(NodeDue(n), NodeFiles(n)) => Exceeds(NodeDue(n)', NodeFiles(n)')
  BY <1>2, CountsKeep
<1> QED
  BY <1>1, <1>2, <1>3 DEF NodeCounted

\* And every edge.
LEMMA EdgesKept ==
    ASSUME ArchiveInv, erased \subseteq erased', minted' = minted, SameEdges
    PROVE  \A e \in minted' \ erased' : EdgeCounted(e)'
<1> SUFFICES ASSUME NEW e \in minted' \ erased' PROVE EdgeCounted(e)'
  OBVIOUS
<1>1. EdgeCounted(e)
  BY DEF ArchiveInv
<1>2. /\ EdgeDue(e)' \subseteq EdgeDue(e) /\ EdgeFiles(e) \subseteq EdgeFiles(e)'
      /\ IsFiniteSet(EdgeFiles(e)') /\ (EdgeLeaves(e)' => EdgeLeaves(e))
  BY DEF SameEdges
<1>3. /\ Covers(EdgeDue(e), EdgeFiles(e)) => Covers(EdgeDue(e)', EdgeFiles(e)')
      /\ Exceeds(EdgeDue(e), EdgeFiles(e)) => Exceeds(EdgeDue(e)', EdgeFiles(e)')
  BY <1>2, CountsKeep
<1> QED
  BY <1>1, <1>2, <1>3 DEF EdgeCounted

\* There are finitely many files.
LEMMA FilesFinite ==
    ASSUME NEW s \in Seq(ArchiveFiles)
    PROVE  \A x \in SUBSET DOMAIN s : IsFiniteSet(x)
<1>1. DOMAIN s = 1..Len(s) /\ Len(s) \in Nat /\ IsFiniteSet(1..Len(s))
  BY FS_Interval
<1> QED
  BY <1>1, FS_Subset

\* A step of a process that neither copies nor restores: files may be created.
LEMMA HandKeeps ==
    ASSUME ArchiveInv, NEW p \in Hands, NEW h, hand' = [hand EXCEPT ![p] = h], Fits(h, DOMAIN inode', minted'),
           h.at \notin {"copied", "clear", "edges"},
           UNCHANGED <<graph, joined, minted, erased>>,
           inode' \in Seq(ArchiveFiles), Len(inode) <= Len(inode'),
           \A i \in DOMAIN inode : inode'[i] = inode[i],
           \A i \in DOMAIN inode' \ DOMAIN inode : inode'[i].edges = {},
           name' \in [Names -> 0..Len(inode')], \A i \in DOMAIN inode' : \E f \in Names : name'[f] = i,
           moment' \in 1..MaxStamp
    PROVE  ArchiveInv'
<1>1. ArchiveFits /\ ArchiveTypeOK /\ inode \in Seq(ArchiveFiles) /\ DOMAIN inode \subseteq DOMAIN inode'
  BY DEF ArchiveInv, ArchiveFits
<1>2. \A i \in DOMAIN inode' : inode'[i].edges \subseteq minted'
  BY <1>1 DEF ArchiveTypeOK
<1>3. ArchiveFits'
  BY <1>1, <1>2, ArchiveFitsOn DEF ArchiveTypeOK
<1>4. hand'[p] = h /\ \A q \in Hands \ {p} : hand'[q] = hand[q]
  BY <1>1, HandMoves DEF ArchiveTypeOK
<1>5. SameNodes
  <2> SUFFICES ASSUME NEW n \in Kept \ erased'
               PROVE  /\ NodeDue(n)' \subseteq NodeDue(n) /\ NodeFiles(n) \subseteq NodeFiles(n)'
                      /\ IsFiniteSet(NodeFiles(n)') /\ (NodeLeaves(n)' => NodeLeaves(n))
    BY DEF SameNodes
  <2>1. NodeDue(n)' \subseteq NodeDue(n) /\ (NodeLeaves(n)' => NodeLeaves(n))
    BY <1>4 DEF NodeDue, NodeLeaves
  <2>2. NodeFiles(n) \subseteq NodeFiles(n)' /\ NodeFiles(n)' \subseteq DOMAIN inode'
    BY <1>1 DEF NodeFiles
  <2> QED
    BY <2>1, <2>2, FilesFinite
<1>6. SameEdges
  <2> SUFFICES ASSUME NEW e \in minted' \ erased'
               PROVE  /\ EdgeDue(e)' \subseteq EdgeDue(e) /\ EdgeFiles(e) \subseteq EdgeFiles(e)'
                      /\ IsFiniteSet(EdgeFiles(e)') /\ (EdgeLeaves(e)' => EdgeLeaves(e))
    BY DEF SameEdges
  <2>1. \A q \in Hands : \A f : Owes(hand'[q], f, e) => Owes(hand[q], f, e)
    BY <1>4 DEF Owes
  <2>2. EdgeDue(e)' \subseteq EdgeDue(e)
    BY <2>1 DEF EdgeDue
  <2>3. EdgeLeaves(e)' => EdgeLeaves(e)
    BY <1>4 DEF EdgeLeaves
  <2>4. EdgeFiles(e) \subseteq EdgeFiles(e)' /\ EdgeFiles(e)' \subseteq DOMAIN inode'
    BY <1>1 DEF EdgeFiles
  <2> QED
    BY <2>2, <2>3, <2>4, FilesFinite
<1>7. (\A n \in Kept \ erased' : NodeCounted(n)') /\ (\A e \in minted' \ erased' : EdgeCounted(e)')
  BY <1>5, <1>6, NodesKept, EdgesKept
<1> QED
  BY <1>3, <1>7 DEF ArchiveInv

-----------------------------------------------------------------------------
\* People, the clock and the passes that let nodes decay move no process.
LEMMA PeopleFit ==
    ASSUME ArchiveFits, UNCHANGED <<inode, name, hand>>, minted \subseteq minted', minted' \subseteq DOMAIN Joins,
           graph' \in [Kept -> {"live", "dormant", "absent"}], joined' \subseteq minted',
           moment' \in 1..MaxStamp, erased' \subseteq Kept \cup minted'
    PROVE  ArchiveFits'
<1>1. ArchiveTypeOK /\ \A p \in Hands : Fits(hand[p], DOMAIN inode, minted)
  BY DEF ArchiveFits
<1>2. \A p \in Hands : Fits(hand'[p], DOMAIN inode', minted')
  BY <1>1, FitsOn
<1>3. ArchiveTypeOK'
  BY <1>1 DEF ArchiveTypeOK, Names, Current
<1> QED
  BY <1>2, <1>3 DEF ArchiveFits, Names, Current

\* They change no file, and owe nothing.
LEMMA PeopleCount ==
    ASSUME ArchiveInv, UNCHANGED <<inode, hand>>
    PROVE  /\ \A n : NodeDue(n)' = NodeDue(n) /\ NodeFiles(n)' = NodeFiles(n) /\ IsFiniteSet(NodeFiles(n)')
           /\ \A e : EdgeDue(e)' = EdgeDue(e) /\ EdgeFiles(e)' = EdgeFiles(e) /\ IsFiniteSet(EdgeFiles(e)')
<1>1. inode \in Seq(ArchiveFiles)
  BY DEF ArchiveInv, ArchiveFits
<1>2. ASSUME NEW n PROVE NodeDue(n)' = NodeDue(n) /\ NodeFiles(n)' = NodeFiles(n) /\ NodeFiles(n) \subseteq DOMAIN inode
  BY DEF NodeDue, NodeFiles
<1>3. ASSUME NEW e PROVE EdgeDue(e)' = EdgeDue(e) /\ EdgeFiles(e)' = EdgeFiles(e) /\ EdgeFiles(e) \subseteq DOMAIN inode
  BY DEF EdgeDue, Owes, EdgeFiles
<1> QED
  BY <1>1, <1>2, <1>3, FilesFinite

\* Joining two nodes makes an edge that no file has and no restore owes.
LEMMA JoinKeeps == ASSUME ArchiveInv, NEW e \in DOMAIN Joins, Join(e) PROVE ArchiveInv'
<1>1. /\ ~LockHeld /\ e \notin minted /\ joined' = joined \cup {e} /\ minted' = minted \cup {e}
      /\ UNCHANGED <<graph, inode, name, moment, hand, erased, deaths>>
  BY DEF Join
<1>2. ArchiveFits /\ ArchiveTypeOK /\ inode \in Seq(ArchiveFiles) /\ \A p \in Hands : Fits(hand[p], DOMAIN inode, minted)
  BY DEF ArchiveInv, ArchiveFits
<1>3. ArchiveFits'
  BY <1>1, <1>2, PeopleFit DEF ArchiveTypeOK
<1>4. SameNodes
  BY <1>1, PeopleCount DEF SameNodes, NodeLeaves
<1>5. \A n \in Kept \ erased' : NodeCounted(n)'
  BY <1>1, <1>4, NodesKept
<1>6. EdgeFiles(e) = {}
  BY <1>1, <1>2 DEF EdgeFiles, ArchiveTypeOK
<1>7. EdgeDue(e) = {}
  <2>1. \A p \in Hands : hand[p].at \in {"clear", "edges"} => IsBack(hand[p].back, minted)
    BY <1>2, HandParts
  <2> QED
    BY <1>1, <2>1 DEF EdgeDue, Owes, IsBack
<1>8. ~EdgeLeaves(e)'
  BY <1>1 DEF EdgeLeaves, LockHeld
<1>9. EdgeCounted(e)'
  BY <1>6, <1>7, <1>8, <1>1, PeopleCount, FS_EmptySet DEF EdgeCounted, Covers
<1>10. ASSUME NEW x \in minted \ erased PROVE EdgeCounted(x)'
  <2>1. EdgeCounted(x) /\ (EdgeLeaves(x)' => EdgeLeaves(x))
    BY <1>1 DEF ArchiveInv, EdgeLeaves
  <2>2. EdgeDue(x)' = EdgeDue(x) /\ EdgeFiles(x)' = EdgeFiles(x)
    BY <1>1, PeopleCount
  <2> QED
    BY <2>1, <2>2 DEF EdgeCounted
<1> QED
  BY <1>1, <1>3, <1>5, <1>9, <1>10 DEF ArchiveInv

\* What people delete is theirs to lose.
LEMMA EraseKeeps == ASSUME ArchiveInv, NEW n \in Kept, EraseKept(n) PROVE ArchiveInv'
<1>1. /\ ~LockHeld /\ graph' = [graph EXCEPT ![n] = "absent"] /\ joined' = joined \ EdgesOf(n)
      /\ erased' = erased \cup {n} \cup (joined \cap EdgesOf(n))
      /\ UNCHANGED <<minted, inode, name, moment, hand, deaths>>
  BY DEF EraseKept
<1>2. ArchiveFits /\ ArchiveTypeOK
  BY DEF ArchiveInv, ArchiveFits
<1>3. ArchiveFits'
  BY <1>1, <1>2, PeopleFit DEF ArchiveTypeOK
<1>4. \A x \in Kept \ erased' : NodeLeaves(x)' => NodeLeaves(x)
  BY <1>1, <1>2 DEF NodeLeaves, ArchiveTypeOK
<1>5. \A e \in minted' \ erased' : EdgeLeaves(e)' => EdgeLeaves(e)
  BY <1>1 DEF EdgeLeaves
<1>6. SameNodes /\ SameEdges
  BY <1>1, <1>4, <1>5, PeopleCount DEF SameNodes, SameEdges
<1>7. (\A x \in Kept \ erased' : NodeCounted(x)') /\ (\A e \in minted' \ erased' : EdgeCounted(e)')
  BY <1>1, <1>6, NodesKept, EdgesKept
<1> QED
  BY <1>3, <1>7 DEF ArchiveInv

\* A node decays, or time passes.
LEMMA DecayKeeps ==
    ASSUME ArchiveInv, (\E n \in Kept : Decay(n)) \/ Elapse
    PROVE  ArchiveInv'
<1>1. /\ graph' = graph \/ \E n \in Kept : graph[n] = "live" /\ graph' = [graph EXCEPT ![n] = "dormant"]
      /\ moment' = moment \/ (moment < MaxStamp /\ moment' = moment + 1)
      /\ UNCHANGED <<joined, minted, inode, name, hand, erased, deaths>>
  BY DEF Decay, Elapse
<1>2. ArchiveFits /\ ArchiveTypeOK
  BY DEF ArchiveInv, ArchiveFits
<1>3. graph' \in [Kept -> {"live", "dormant", "absent"}] /\ \A x \in Kept : graph'[x] = "absent" <=> graph[x] = "absent"
  BY <1>1, <1>2 DEF ArchiveTypeOK
<1>4. moment' \in 1..MaxStamp
  BY <1>1, <1>2, ArchiveAssumption DEF ArchiveTypeOK
<1>5. ArchiveFits'
  BY <1>1, <1>2, <1>3, <1>4, PeopleFit DEF ArchiveTypeOK
<1>6. \A x \in Kept : NodeLeaves(x)' => NodeLeaves(x)
  BY <1>1, <1>3 DEF NodeLeaves
<1>7. \A e : EdgeLeaves(e)' => EdgeLeaves(e)
  BY <1>1 DEF EdgeLeaves
<1>8. SameNodes /\ SameEdges
  BY <1>1, <1>6, <1>7, PeopleCount DEF SameNodes, SameEdges
<1>9. (\A x \in Kept \ erased' : NodeCounted(x)') /\ (\A e \in minted' \ erased' : EdgeCounted(e)')
  BY <1>1, <1>8, NodesKept, EdgesKept
<1> QED
  BY <1>5, <1>9 DEF ArchiveInv

-----------------------------------------------------------------------------
\* A process that only looks, and goes on or ends.
LEMMA LookKeeps ==
    ASSUME ArchiveInv, NEW p \in Hands, NEW h, hand' = [hand EXCEPT ![p] = h], Fits(h, DOMAIN inode, minted),
           h.at \notin {"copied", "clear", "edges"},
           UNCHANGED <<graph, joined, minted, inode, name, moment, erased>>
    PROVE  ArchiveInv'
<1>1. ArchiveTypeOK /\ inode \in Seq(ArchiveFiles) /\ \A i \in DOMAIN inode : \E f \in Names : name[f] = i
  BY DEF ArchiveInv, ArchiveFits
<1>2. Fits(h, DOMAIN inode', minted') /\ Len(inode) <= Len(inode')
  BY <1>1
<1>3. name' \in [Names -> 0..Len(inode')] /\ moment' \in 1..MaxStamp
  BY <1>1 DEF ArchiveTypeOK
<1> QED
  BY <1>1, <1>2, <1>3, HandKeeps

\* The cycle lists what may move.
LEMMA ListKeeps == ASSUME ArchiveInv, NEW p \in Hands, ListArchivable(p) PROVE ArchiveInv'
<1>1. PICK a \in {"rotate", "open"} : hand' = [hand EXCEPT ![p] = [at |-> a, list |-> Archivable]]
  BY DEF ListArchivable
<1> DEFINE h == [at |-> a, list |-> Archivable]
<1>2. Fits(h, DOMAIN inode, minted) /\ h.at \notin {"copied", "clear", "edges"}
  BY DEF Fits, Archivable
<1>3. UNCHANGED <<graph, joined, minted, inode, name, moment, erased>>
  BY DEF ListArchivable
<1>4. hand' = [hand EXCEPT ![p] = h]
  BY <1>1
<1> HIDE DEF h
<1> QED
  BY <1>2, <1>3, <1>4, LookKeeps

\* The list of a process that passes over a node, or has moved it.
LEMMA SkipKeeps == ASSUME ArchiveInv, NEW p \in Hands, NEW n \in Kept, Skip(p, n) PROVE ArchiveInv'
<1>1. hand[p].at = "move" /\ hand' = [hand EXCEPT ![p] = Dropped(p, n)]
      /\ UNCHANGED <<graph, joined, minted, inode, name, moment, erased>>
  BY DEF Skip
<1>2. hand[p] = [at |-> "move", list |-> hand[p].list, file |-> hand[p].file] /\ hand[p].list \subseteq Kept
      /\ hand[p].file \in DOMAIN inode
  BY <1>1, HandParts DEF ArchiveInv, ArchiveFits
<1> DEFINE h == Dropped(p, n)
           l == hand[p].list
           i == hand[p].file
<1>3. h = HandIdle \/ h = [at |-> "move", list |-> l \ {n}, file |-> i]
  BY <1>2 DEF Dropped
<1>4. l \ {n} \in SUBSET Kept /\ i \in DOMAIN inode
  BY <1>2
<1>5. hand' = [hand EXCEPT ![p] = h]
  BY <1>1
<1> HIDE DEF h, l, i
<1>6. Fits(h, DOMAIN inode, minted) /\ h.at \notin {"copied", "clear", "edges"}
  BY <1>3, <1>4 DEF Fits, HandIdle
<1> QED
  BY <1>1, <1>5, <1>6, LookKeeps

\* Some number of a set that has a bound is the greatest.
LEMMA GreatestOf ==
    ASSUME NEW m \in Nat, NEW s \in SUBSET (1..m), s # {}
    PROVE  \E x \in s : \A y \in s : x >= y
<1> DEFINE below == {m - x : x \in s}
<1>1. below \subseteq Nat /\ below # {}
  <2>1. \A x \in s : m - x \in Nat
    OBVIOUS
  <2>2. PICK x \in s : TRUE
    OBVIOUS
  <2>3. m - x \in below
    OBVIOUS
  <2> QED
    BY <2>1, <2>3
<1> DEFINE less == OpToRel(<, Nat)
<1>2. IsWellFoundedOn(less, Nat)
  BY NatLessThanWellFounded
<1> HIDE DEF below, less
<1>3. \E n \in below : \A k \in below : ~ (<<k, n>> \in less)
  BY <1>1, <1>2, WFMin
<1> USE DEF below, less
<1>4. PICK x \in s : \A y \in s : ~ (<<m - y, m - x>> \in less)
  BY <1>3
<1>5. ASSUME NEW y \in s PROVE x >= y
  <2>1. m - y \in Nat /\ m - x \in Nat /\ x \in Nat /\ y \in Nat
    OBVIOUS
  <2>2. ~ (m - y < m - x)
    BY <1>4, <2>1 DEF OpToRel
  <2> QED
    BY <2>1, <2>2
<1> QED
  BY <1>5

\* A restore finds the file that holds the node.
LEMMA FindKeeps == ASSUME ArchiveInv, NEW p \in Hands, NEW n \in Kept, FindArchived(p, n) PROVE ArchiveInv'
<1> DEFINE named == {f \in Names : name[f] # NoFile}
           holding == {f \in named : n \in inode[name[f]].nodes}
           o == Max(holding)
           i == name[o]
           h == [at |-> "found", node |-> n, names |-> named, own |-> o, file |-> i]
<1>1. holding # {} /\ hand' = [hand EXCEPT ![p] = h]
      /\ UNCHANGED <<graph, joined, minted, inode, name, moment, erased>>
  BY DEF FindArchived
<1>2. ArchiveTypeOK /\ inode \in Seq(ArchiveFiles)
  BY DEF ArchiveInv, ArchiveFits
<1>3. Max(holding) \in holding
  <2>1. holding \subseteq 1..Current /\ Current \in Nat
    BY <1>2, ArchiveAssumption DEF Names, Current
  <2> HIDE DEF holding
  <2>3. \E x \in holding : \A y \in holding : x >= y
    BY <1>1, <2>1, GreatestOf
  <2> QED
    BY <2>3 DEF Max
<1>4. i \in DOMAIN inode
  BY <1>2, <1>3 DEF ArchiveTypeOK, NoFile
<1>5. named \in SUBSET Names /\ o \in Names
  BY <1>3
<1>6. h.at \notin {"copied", "clear", "edges"}
  OBVIOUS
<1> HIDE DEF named, i, o
<1>7. Fits(h, DOMAIN inode, minted)
  BY <1>4, <1>5 DEF Fits
<1> HIDE DEF h
<1> QED
  BY <1>1, <1>6, <1>7, LookKeeps

\* A restore is refused, or a process dies.
LEMMA EndsKeeps == ASSUME ArchiveInv, NEW p \in Hands, RefuseRestore(p) \/ HandDies(p) PROVE ArchiveInv'
<1>1. hand' = [hand EXCEPT ![p] = HandIdle] /\ UNCHANGED <<graph, joined, minted, inode, name, moment, erased>>
  BY DEF RefuseRestore, HandDies
<1>2. Fits(HandIdle, DOMAIN inode, minted) /\ HandIdle.at \notin {"copied", "clear", "edges"}
  BY DEF Fits, HandIdle
<1> QED
  BY <1>1, <1>2, LookKeeps

-----------------------------------------------------------------------------
\* A rotation gives the current file a name of its own: no two fall in one second.
LEMMA RotateKeeps == ASSUME ~SameSecond, ArchiveInv, NEW p \in Hands, Rotate(p) PROVE ArchiveInv'
<1>1. /\ hand[p].at = "rotate" /\ name[moment] = NoFile /\ hand' = [hand EXCEPT ![p].at = "open"]
      /\ name' = IF name[Current] = NoFile THEN name ELSE [name EXCEPT ![moment] = name[Current], ![Current] = NoFile]
      /\ UNCHANGED <<graph, joined, minted, inode, moment, erased, deaths>>
  BY DEF Rotate, RotatedName
<1>2. ArchiveTypeOK /\ inode \in Seq(ArchiveFiles) /\ \A i \in DOMAIN inode : \E f \in Names : name[f] = i
  BY DEF ArchiveInv, ArchiveFits
<1>3. hand[p] = [at |-> "rotate", list |-> hand[p].list] /\ hand[p].list \subseteq Kept
  BY <1>1, HandParts DEF ArchiveInv, ArchiveFits
<1> DEFINE l == hand[p].list
           h == [at |-> "open", list |-> l]
<1>4. hand' = [hand EXCEPT ![p] = h]
  <2>1. [hand[p] EXCEPT !.at = "open"] = h
    BY <1>3
  <2>2. hand' = [hand EXCEPT ![p] = [hand[p] EXCEPT !.at = "open"]]
    BY <1>1
  <2> HIDE DEF h
  <2> QED
    BY <2>1, <2>2
<1>5. Fits(h, DOMAIN inode', minted') /\ h.at \notin {"copied", "clear", "edges"}
  BY <1>1, <1>3 DEF Fits
<1>6. moment \in Names /\ Current \in Names /\ moment # Current /\ name \in [Names -> 0..Len(inode)] /\ Len(inode) \in Nat
  BY <1>2, ArchiveAssumption DEF ArchiveTypeOK, Names, Current
<1>7. name' \in [Names -> 0..Len(inode)]
  BY <1>1, <1>6 DEF NoFile
<1>8. ASSUME NEW i \in DOMAIN inode PROVE \E f \in Names : name'[f] = i
  <2>1. PICK f \in Names : name[f] = i
    BY <1>2
  <2>2. f # moment
    BY <1>1, <1>2, <2>1 DEF NoFile
  <2>3. CASE name[Current] = NoFile
    BY <1>1, <2>1, <2>3
  <2>4. CASE name[Current] # NoFile /\ f = Current
    BY <1>1, <1>6, <2>1, <2>4
  <2>5. CASE name[Current] # NoFile /\ f # Current
    BY <1>1, <1>6, <2>1, <2>2, <2>5
  <2> QED
    BY <2>3, <2>4, <2>5
<1>9. moment' \in 1..MaxStamp /\ inode' \in Seq(ArchiveFiles) /\ Len(inode) <= Len(inode')
  BY <1>1, <1>2 DEF ArchiveTypeOK
<1> HIDE DEF h
<1> QED
  BY <1>1, <1>4, <1>5, <1>7, <1>8, <1>9, HandKeeps

\* A cycle opens the current file, or makes it.
LEMMA OpenKeeps == ASSUME ArchiveInv, NEW p \in Hands, OpenCurrent(p) PROVE ArchiveInv'
<1> DEFINE created == name[Current] = NoFile
           i == IF created THEN Len(inode) + 1 ELSE name[Current]
           l == hand[p].list
           h == [at |-> "move", list |-> l, file |-> i]
<1>1. /\ hand[p].at = "open" /\ hand' = [hand EXCEPT ![p] = h]
      /\ inode' = (IF created THEN Append(inode, Empty) ELSE inode) /\ name' = [name EXCEPT ![Current] = i]
      /\ UNCHANGED <<graph, joined, minted, moment, erased, deaths>>
  BY DEF OpenCurrent
<1>2. ArchiveTypeOK /\ inode \in Seq(ArchiveFiles) /\ \A x \in DOMAIN inode : \E f \in Names : name[f] = x
  BY DEF ArchiveInv, ArchiveFits
<1>3. l \subseteq Kept
  BY <1>1, HandParts DEF ArchiveInv, ArchiveFits
<1>4. Empty \in ArchiveFiles /\ Empty.edges = {}
  BY <1>2 DEF Empty, ArchiveFiles, ArchiveTypeOK
<1>5. /\ inode' \in Seq(ArchiveFiles) /\ Len(inode) <= Len(inode') /\ \A x \in DOMAIN inode : inode'[x] = inode[x]
      /\ \A x \in DOMAIN inode' \ DOMAIN inode : inode'[x].edges = {} /\ x = Len(inode) + 1 /\ created
      /\ DOMAIN inode' = 1..Len(inode') /\ (created => Len(inode') = Len(inode) + 1)
  <2> HIDE DEF created
  <2>1. CASE created
    BY <1>1, <1>2, <1>4, <2>1
  <2>2. CASE ~created
    BY <1>1, <1>2, <2>2
  <2> QED
    BY <2>1, <2>2
<1>6. Current \in Names /\ name \in [Names -> 0..Len(inode)] /\ Len(inode) \in Nat /\ Len(inode') \in Nat
  <2>1. Len(inode) \in Nat /\ Len(inode') \in Nat
    <3>1. inode \in Seq(ArchiveFiles) /\ inode' \in Seq(ArchiveFiles)
      BY <1>2, <1>5
    <3>2. \A s \in Seq(ArchiveFiles) : Len(s) \in Nat
      OBVIOUS
    <3> QED
      BY <3>1, <3>2
  <2>2. Current \in Names
    BY ArchiveAssumption DEF Names, Current
  <2> QED
    BY <1>2, <2>1, <2>2 DEF ArchiveTypeOK
<1>7. i \in DOMAIN inode' /\ i \in 0..Len(inode')
  <2>1. name[Current] \in 0..Len(inode)
    BY <1>6
  <2>2. CASE created
    BY <1>5, <1>6, <2>2
  <2>3. CASE ~created
    <3>1. i = name[Current] /\ i # 0
      BY <2>3 DEF NoFile
    <3> HIDE DEF i, created
    <3>2. Len(inode) <= Len(inode') /\ DOMAIN inode' = 1..Len(inode')
      BY <1>5
    <3> QED
      BY <1>6, <2>1, <3>1, <3>2
  <2> QED
    BY <2>2, <2>3
<1>8. name' \in [Names -> 0..Len(inode')] /\ name'[Current] = i /\ \A f \in Names \ {Current} : name'[f] = name[f]
  BY <1>1, <1>5, <1>6, <1>7
<1>9. ASSUME NEW x \in DOMAIN inode' PROVE \E f \in Names : name'[f] = x
  <2>1. CASE x \notin DOMAIN inode
    BY <1>5, <1>6, <1>8, <2>1
  <2>2. CASE x \in DOMAIN inode
    <3>1. PICK f \in Names : name[f] = x
      BY <1>2, <2>2
    <3>2. x # NoFile
      BY <1>2, <2>2 DEF NoFile
    <3>3. CASE f = Current
      BY <1>6, <1>8, <3>1, <3>2, <3>3
    <3>4. CASE f # Current
      BY <1>8, <3>1, <3>4
    <3> QED
      BY <3>3, <3>4
  <2> QED
    BY <2>1, <2>2
<1>10. moment' \in 1..MaxStamp
  BY <1>1, <1>2 DEF ArchiveTypeOK
<1>11. h.at \notin {"copied", "clear", "edges"}
  OBVIOUS
<1> HIDE DEF i, l
<1>12. Fits(h, DOMAIN inode', minted')
  BY <1>3, <1>7 DEF Fits
<1> HIDE DEF h
<1> QED
  BY <1>1, <1>5, <1>8, <1>9, <1>10, <1>11, <1>12, HandKeeps

-----------------------------------------------------------------------------
\* The file that a move writes is one that the collision check has read.
LEMMA OwnIsChecked ==
    ASSUME ArchiveFits, NEW p \in Hands, hand[p].at = "move", NEW n, ~Collides(p, n)
    PROVE  n \notin inode[hand[p].file].nodes /\ inode[hand[p].file].edges \cap EdgesOf(n) \cap joined = {}
<1>1. hand[p].file \in DOMAIN inode /\ inode \in Seq(ArchiveFiles)
  BY HandParts DEF ArchiveFits
<1>2. PICK f \in Names : name[f] = hand[p].file
  BY <1>1 DEF ArchiveFits
<1>3. hand[p].file # NoFile
  BY <1>1 DEF NoFile
<1>4. hand[p].file \in Checked(p)
  BY <1>2, <1>3 DEF Checked
<1> QED
  BY <1>4 DEF Collides

\* A copy makes one file more of what is about to leave.
LEMMA CopyKeeps == ASSUME ArchiveInv, NEW p \in Hands, NEW n \in Kept, Copy(p, n) PROVE ArchiveInv'
<1> DEFINE i == hand[p].file
           l == hand[p].list
           h == [at |-> "copied", list |-> l, file |-> i, node |-> n]
           new == Copied(inode[i], n)
<1>1. /\ hand[p].at = "move" /\ ~LockHeld /\ ~Skipped(p, n)
      /\ inode' = [inode EXCEPT ![i] = new] /\ hand' = [hand EXCEPT ![p] = h]
      /\ UNCHANGED <<graph, joined, minted, name, moment, erased, deaths>>
  BY DEF Copy
<1>2. ArchiveFits /\ ArchiveTypeOK /\ inode \in Seq(ArchiveFiles)
  BY DEF ArchiveInv, ArchiveFits
<1>3. i \in DOMAIN inode /\ l \in SUBSET Kept
  BY <1>1, HandParts DEF ArchiveInv, ArchiveFits
<1>4. n \notin inode[i].nodes /\ inode[i].edges \cap EdgesOf(n) \cap joined = {} /\ graph[n] # "absent"
  BY <1>1, <1>2, OwnIsChecked DEF Skipped
<1>5. /\ new \in ArchiveFiles /\ new.nodes = inode[i].nodes \cup {n}
      /\ new.edges = inode[i].edges \cup (EdgesOf(n) \cap joined)
  <2>1. inode[i] \in ArchiveFiles /\ joined \subseteq DOMAIN Joins
    BY <1>2, <1>3 DEF ArchiveTypeOK
  <2> QED
    BY <2>1 DEF Copied, ArchiveFiles
<1> HIDE DEF new
<1>6. /\ inode' \in Seq(ArchiveFiles) /\ Len(inode') = Len(inode) /\ DOMAIN inode' = DOMAIN inode
      /\ inode'[i] = new /\ \A x \in DOMAIN inode \ {i} : inode'[x] = inode[x]
  BY <1>1, <1>2, <1>3, <1>5
<1>7. Fits(h, DOMAIN inode', minted')
  BY <1>3, <1>6 DEF Fits
<1>8. \A x \in DOMAIN inode' : inode'[x].edges \subseteq minted'
  BY <1>1, <1>2, <1>5, <1>6 DEF ArchiveTypeOK
<1>9. h.at = "copied" /\ h.node = n
  OBVIOUS
<1> HIDE DEF h, i, l
<1>10. hand'[p] = h /\ \A q \in Hands \ {p} : hand'[q] = hand[q]
  BY <1>1, <1>2, HandMoves DEF ArchiveTypeOK
<1>11. ArchiveFits'
  <2>1. name' \in [Names -> 0..Len(inode')] /\ \A x \in DOMAIN inode' : \E f \in Names : name'[f] = x
    BY <1>1, <1>2, <1>6 DEF ArchiveFits, ArchiveTypeOK
  <2>2. /\ graph' \in [Kept -> {"live", "dormant", "absent"}] /\ joined' \subseteq minted' /\ minted' \subseteq DOMAIN Joins
        /\ minted \subseteq minted' /\ moment' \in 1..MaxStamp /\ erased' \subseteq Kept \cup minted'
    BY <1>1, <1>2 DEF ArchiveTypeOK
  <2>3. Len(inode) <= Len(inode')
    BY <1>2, <1>6
  <2>4. hand' = [hand EXCEPT ![p] = h]
    BY <1>1
  <2> QED
    BY <1>2, <1>6, <1>7, <1>8, <2>1, <2>2, <2>3, <2>4, ArchiveFitsOn
<1>12. \A x : NodeDue(x)' = NodeDue(x)
  BY <1>1, <1>9, <1>10 DEF NodeDue
<1>13. ASSUME NEW x PROVE EdgeDue(x)' = EdgeDue(x)
  <2>1. \A q \in Hands : \A f : Owes(hand'[q], f, x) <=> Owes(hand[q], f, x)
    BY <1>1, <1>9, <1>10 DEF Owes
  <2> QED
    BY <2>1 DEF EdgeDue
<1>14. ASSUME NEW x \in Kept \ erased' PROVE NodeCounted(x)'
  <2>1. NodeCounted(x)
    BY <1>1 DEF ArchiveInv
  <2>2. CASE x = n
    <3>1. NodeFiles(x)' = NodeFiles(x) \cup {i} /\ i \notin NodeFiles(x)
      BY <1>3, <1>4, <1>5, <1>6, <2>2 DEF NodeFiles
    <3>2. Exceeds(NodeDue(x), NodeFiles(x) \cup {i})
      BY <2>1, <3>1, CountsMove DEF NodeCounted
    <3> QED
      BY <1>12, <3>1, <3>2, ExceedsCovers DEF NodeCounted
  <2>3. CASE x # n
    <3>1. NodeFiles(x)' = NodeFiles(x)
      BY <1>3, <1>5, <1>6, <2>3 DEF NodeFiles
    <3>2. NodeLeaves(x)' => NodeLeaves(x)
      BY <1>1, <1>9, <1>10, <2>3 DEF NodeLeaves
    <3> QED
      BY <1>12, <2>1, <3>1, <3>2 DEF NodeCounted
  <2> QED
    BY <2>2, <2>3
<1>15. ASSUME NEW e \in minted' \ erased' PROVE EdgeCounted(e)'
  <2>1. EdgeCounted(e)
    BY <1>1 DEF ArchiveInv
  <2>2. CASE e \in EdgesOf(n) \cap joined
    <3>1. EdgeFiles(e)' = EdgeFiles(e) \cup {i} /\ i \notin EdgeFiles(e)
      BY <1>3, <1>4, <1>5, <1>6, <2>2 DEF EdgeFiles
    <3>2. Exceeds(EdgeDue(e), EdgeFiles(e) \cup {i})
      BY <2>1, <3>1, CountsMove DEF EdgeCounted
    <3> QED
      BY <1>13, <3>1, <3>2, ExceedsCovers DEF EdgeCounted
  <2>3. CASE e \notin EdgesOf(n) \cap joined
    <3>1. EdgeFiles(e)' = EdgeFiles(e)
      BY <1>3, <1>5, <1>6, <2>3 DEF EdgeFiles
    <3>2. EdgeLeaves(e)' => EdgeLeaves(e)
      BY <1>1, <1>9, <1>10, <2>3 DEF EdgeLeaves
    <3> QED
      BY <1>13, <2>1, <3>1, <3>2 DEF EdgeCounted
  <2> QED
    BY <2>2, <2>3
<1> QED
  BY <1>11, <1>14, <1>15 DEF ArchiveInv

\* The types, when nothing is created, named or deleted.
LEMMA WriteFits ==
    ASSUME ArchiveFits, NEW p \in Hands, NEW h, hand' = [hand EXCEPT ![p] = h], Fits(h, DOMAIN inode, minted),
           graph' \in [Kept -> {"live", "dormant", "absent"}], joined' \subseteq minted,
           inode' \in Seq(ArchiveFiles), Len(inode') = Len(inode), \A i \in DOMAIN inode : inode'[i].edges \subseteq minted,
           UNCHANGED <<minted, name, moment, erased>>
    PROVE  ArchiveFits'
<1>1. ArchiveTypeOK /\ inode \in Seq(ArchiveFiles) /\ \A i \in DOMAIN inode : \E f \in Names : name[f] = i
  BY DEF ArchiveFits
<1>2. DOMAIN inode' = DOMAIN inode /\ Len(inode) <= Len(inode')
  BY <1>1
<1>3. name' \in [Names -> 0..Len(inode')] /\ \A x \in DOMAIN inode' : \E f \in Names : name'[f] = x
  BY <1>1, <1>2 DEF ArchiveTypeOK
<1>4. /\ minted' \subseteq DOMAIN Joins /\ minted \subseteq minted' /\ joined' \subseteq minted'
      /\ moment' \in 1..MaxStamp /\ erased' \subseteq Kept \cup minted'
  BY <1>1 DEF ArchiveTypeOK
<1>5. Fits(h, DOMAIN inode', minted') /\ \A x \in DOMAIN inode' : inode'[x].edges \subseteq minted'
  BY <1>2
<1> QED
  BY <1>2, <1>3, <1>4, <1>5, ArchiveFitsOn

\* What was copied leaves the graph.
LEMMA MovedKeeps == ASSUME ArchiveInv, NEW p \in Hands, Moved(p) PROVE ArchiveInv'
<1> DEFINE n == hand[p].node
           i == hand[p].file
           l == hand[p].list
           h == IF l = {n} THEN HandIdle ELSE [at |-> "move", list |-> l \ {n}, file |-> i]
<1>1. /\ hand[p].at = "copied" /\ graph' = [graph EXCEPT ![n] = "absent"] /\ joined' = joined \ EdgesOf(n)
      /\ hand' = [hand EXCEPT ![p] = h]
      /\ UNCHANGED <<minted, inode, name, moment, erased, deaths>>
  BY DEF Moved
<1>2. ArchiveFits /\ ArchiveTypeOK /\ inode \in Seq(ArchiveFiles)
  BY DEF ArchiveInv, ArchiveFits
<1>3. i \in DOMAIN inode /\ l \in SUBSET Kept /\ n \in Kept
  BY <1>1, HandParts DEF ArchiveInv, ArchiveFits
<1>4. h.at \in {"idle", "move"}
  BY DEF HandIdle
<1>5. Fits(h, DOMAIN inode, minted)
  <2>1. h = HandIdle \/ h = [at |-> "move", list |-> l \ {n}, file |-> i]
    OBVIOUS
  <2>2. l \ {n} \in SUBSET Kept
    BY <1>3
  <2> HIDE DEF h, l, i
  <2> QED
    BY <1>3, <2>1, <2>2 DEF Fits
<1> HIDE DEF h
<1>6. hand'[p] = h /\ \A q \in Hands \ {p} : hand'[q] = hand[q]
  BY <1>1, <1>2, HandMoves DEF ArchiveTypeOK
<1>7. ArchiveFits'
  BY <1>1, <1>2, <1>3, <1>5, WriteFits DEF ArchiveTypeOK
<1>8. SameNodes
  <2> SUFFICES ASSUME NEW x \in Kept \ erased'
               PROVE  /\ NodeDue(x)' \subseteq NodeDue(x) /\ NodeFiles(x) \subseteq NodeFiles(x)'
                      /\ IsFiniteSet(NodeFiles(x)') /\ (NodeLeaves(x)' => NodeLeaves(x))
    BY DEF SameNodes
  <2>1. NodeDue(x)' \subseteq NodeDue(x)
    BY <1>4, <1>6 DEF NodeDue
  <2>2. NodeFiles(x)' = NodeFiles(x) /\ NodeFiles(x) \subseteq DOMAIN inode
    BY <1>1 DEF NodeFiles
  <2>3. NodeLeaves(x)' => NodeLeaves(x)
    BY <1>1, <1>2, <1>3, <1>4, <1>6 DEF NodeLeaves, ArchiveTypeOK
  <2> QED
    BY <1>2, <2>1, <2>2, <2>3, FilesFinite
<1>9. SameEdges
  <2> SUFFICES ASSUME NEW e \in minted' \ erased'
               PROVE  /\ EdgeDue(e)' \subseteq EdgeDue(e) /\ EdgeFiles(e) \subseteq EdgeFiles(e)'
                      /\ IsFiniteSet(EdgeFiles(e)') /\ (EdgeLeaves(e)' => EdgeLeaves(e))
    BY DEF SameEdges
  <2>1. \A q \in Hands : \A f : Owes(hand'[q], f, e) => Owes(hand[q], f, e)
    BY <1>4, <1>6 DEF Owes
  <2>2. EdgeDue(e)' \subseteq EdgeDue(e)
    BY <2>1 DEF EdgeDue
  <2>3. EdgeFiles(e)' = EdgeFiles(e) /\ EdgeFiles(e) \subseteq DOMAIN inode
    BY <1>1 DEF EdgeFiles
  <2>4. EdgeLeaves(e)' => EdgeLeaves(e)
    BY <1>1, <1>4, <1>6 DEF EdgeLeaves
  <2> QED
    BY <1>2, <2>2, <2>3, <2>4, FilesFinite
<1>10. (\A x \in Kept \ erased' : NodeCounted(x)') /\ (\A e \in minted' \ erased' : EdgeCounted(e)')
  BY <1>1, <1>8, <1>9, NodesKept, EdgesKept
<1> QED
  BY <1>7, <1>10 DEF ArchiveInv

\* A restore owes what it has brought back, once: it is refused if two files
\* have an edge, or the graph has it.
LEMMA RestoreKeeps == ASSUME ArchiveInv, NEW p \in Hands, Restore(p) PROVE ArchiveInv'
<1> DEFINE n == hand[p].node
           o == hand[p].own
           i == hand[p].file
           names == hand[p].names
           back == [f \in names |-> Returning(f, n)]
           h == [at |-> "clear", node |-> n, own |-> o, file |-> i, back |-> back]
<1>1. /\ hand[p].at = "found" /\ ~LockHeld /\ ~RestoreRefused(p) /\ graph' = [graph EXCEPT ![n] = "live"]
      /\ joined' = joined \cup UNION {back[f] : f \in DOMAIN back}
      /\ hand' = [hand EXCEPT ![p] = h]
      /\ UNCHANGED <<minted, inode, name, moment, erased, deaths>>
  BY DEF Restore
<1>2. ArchiveFits /\ ArchiveTypeOK /\ inode \in Seq(ArchiveFiles)
  BY DEF ArchiveInv, ArchiveFits
<1>3. i \in DOMAIN inode /\ names \subseteq Names /\ n \in Kept /\ o \in Names
  BY <1>1, HandParts DEF ArchiveInv, ArchiveFits
<1>4. \A f \in names : Returning(f, n) \subseteq minted
  <2>1. \A f \in Names : name[f] # NoFile => name[f] \in DOMAIN inode
    BY <1>2 DEF ArchiveTypeOK, NoFile
  <2> QED
    BY <1>2, <1>3, <2>1 DEF Returning, ArchiveTypeOK
<1>5. /\ graph[n] = "absent" /\ \A f \in names : Returning(f, n) \cap joined = {}
      /\ \A f, g \in names : f # g => Returning(f, n) \cap Returning(g, n) = {}
  BY <1>1 DEF RestoreRefused
<1>6. DOMAIN back = names /\ \A f \in names : back[f] = Returning(f, n)
  OBVIOUS
<1>7. IsBack(back, minted)
  BY <1>3, <1>4 DEF IsBack
<1>8. h.at = "clear" /\ h.node = n /\ h.back = back
  OBVIOUS
<1> HIDE DEF back, names, n, i, o
<1>9. Fits(h, DOMAIN inode, minted)
  BY <1>3, <1>7 DEF Fits
<1> HIDE DEF h
<1>10. hand'[p] = h /\ \A q \in Hands \ {p} : hand'[q] = hand[q]
  BY <1>1, <1>2, HandMoves DEF ArchiveTypeOK
<1>11. joined' \subseteq minted /\ graph' \in [Kept -> {"live", "dormant", "absent"}]
       /\ \A x \in DOMAIN inode : inode'[x].edges \subseteq minted
  BY <1>1, <1>2, <1>3, <1>4, <1>6 DEF ArchiveTypeOK
<1>12. ArchiveFits'
  BY <1>1, <1>2, <1>9, <1>11, WriteFits
<1>13. (\A x : NodeFiles(x)' = NodeFiles(x)) /\ (\A e : EdgeFiles(e)' = EdgeFiles(e))
  BY <1>1 DEF NodeFiles, EdgeFiles
<1>14. \A q \in Hands : hand[q].at # "copied" /\ hand'[q].at # "copied"
  BY <1>1, <1>8, <1>10 DEF LockHeld
<1>15. ASSUME NEW x \in Kept \ erased' PROVE NodeCounted(x)'
  <2>1. NodeCounted(x)
    BY <1>1 DEF ArchiveInv
  <2>2. CASE x = n
    <3>1. NodeDue(x)' = NodeDue(x) \cup {p}
      BY <1>8, <1>10, <2>2 DEF NodeDue
    <3>2. Exceeds(NodeDue(x), NodeFiles(x))
      BY <1>5, <2>1, <2>2 DEF NodeCounted, NodeLeaves
    <3>3. Covers(NodeDue(x) \cup {p}, NodeFiles(x))
      BY <3>2, CountsMove
    <3>4. ~NodeLeaves(x)'
      BY <1>1, <1>2, <1>3, <1>14, <2>2 DEF NodeLeaves, ArchiveTypeOK
    <3> QED
      BY <1>13, <3>1, <3>3, <3>4 DEF NodeCounted
  <2>3. CASE x # n
    <3>1. NodeDue(x)' = NodeDue(x)
      BY <1>1, <1>8, <1>10, <2>3 DEF NodeDue
    <3>2. NodeLeaves(x)' => NodeLeaves(x)
      BY <1>1, <1>2, <1>14, <2>3 DEF NodeLeaves, ArchiveTypeOK
    <3> QED
      BY <1>13, <2>1, <3>1, <3>2 DEF NodeCounted
  <2> QED
    BY <2>2, <2>3
<1>16. ASSUME NEW e \in minted' \ erased' PROVE EdgeCounted(e)'
  <2>1. EdgeCounted(e)
    BY <1>1 DEF ArchiveInv
  <2>2. \A q \in Hands \ {p} : \A f : Owes(hand'[q], f, e) <=> Owes(hand[q], f, e)
    BY <1>10 DEF Owes
  <2>3. \A f : ~Owes(hand[p], f, e) /\ (Owes(hand'[p], f, e) <=> f \in names /\ e \in Returning(f, n))
    BY <1>1, <1>6, <1>8, <1>10 DEF Owes
  <2>4. CASE \E f \in names : e \in Returning(f, n)
    <3>1. PICK f \in names : e \in Returning(f, n)
      BY <2>4
    <3>2. \A g : g \in names /\ e \in Returning(g, n) <=> g = f
      BY <1>5, <3>1
    <3>3. EdgeDue(e)' = EdgeDue(e) \cup {<<p, f>>}
      <4>1. EdgeDue(e)' \subseteq EdgeDue(e) \cup {<<p, f>>}
        BY <2>2, <2>3, <3>2 DEF EdgeDue
      <4>2. EdgeDue(e) \subseteq EdgeDue(e)'
        BY <2>2, <2>3 DEF EdgeDue
      <4>3. <<p, f>> \in EdgeDue(e)'
        BY <1>3, <2>3, <3>1 DEF EdgeDue
      <4> QED
        BY <4>1, <4>2, <4>3
    <3>4. Exceeds(EdgeDue(e), EdgeFiles(e))
      BY <1>5, <2>1, <3>1 DEF EdgeCounted, EdgeLeaves
    <3>5. Covers(EdgeDue(e) \cup {<<p, f>>}, EdgeFiles(e))
      BY <3>4, CountsMove
    <3>6. ~EdgeLeaves(e)'
      BY <1>1, <1>6, <1>14, <3>1 DEF EdgeLeaves
    <3> QED
      BY <1>13, <3>3, <3>5, <3>6 DEF EdgeCounted
  <2>5. CASE ~ \E f \in names : e \in Returning(f, n)
    <3>1. \A q \in Hands : \A f : Owes(hand'[q], f, e) <=> Owes(hand[q], f, e)
      BY <2>2, <2>3, <2>5
    <3>2. EdgeDue(e)' = EdgeDue(e)
      BY <3>1 DEF EdgeDue
    <3>3. EdgeLeaves(e)' => EdgeLeaves(e)
      BY <1>1, <1>14 DEF EdgeLeaves
    <3> QED
      BY <1>13, <2>1, <3>2, <3>3 DEF EdgeCounted
  <2> QED
    BY <2>4, <2>5
<1> QED
  BY <1>12, <1>15, <1>16 DEF ArchiveInv

\* The node leaves the file that it was read from.
LEMMA ClearNodeKeeps == ASSUME ArchiveInv, NEW p \in Hands, ClearNode(p) PROVE ArchiveInv'
<1> DEFINE n == hand[p].node
           o == hand[p].own
           i == hand[p].file
           back == hand[p].back
           h == [at |-> "edges", own |-> o, file |-> i, back |-> back]
           new == [inode[i] EXCEPT !.nodes = @ \ {n}]
<1>1. /\ hand[p].at = "clear" /\ inode' = [inode EXCEPT ![i] = new] /\ hand' = [hand EXCEPT ![p] = h]
      /\ UNCHANGED <<graph, joined, minted, name, moment, erased, deaths>>
  BY DEF ClearNode
<1>2. ArchiveFits /\ ArchiveTypeOK /\ inode \in Seq(ArchiveFiles)
  BY DEF ArchiveInv, ArchiveFits
<1>3. i \in DOMAIN inode /\ n \in Kept /\ o \in Names /\ IsBack(back, minted)
  BY <1>1, HandParts DEF ArchiveInv, ArchiveFits
<1>4. new \in ArchiveFiles /\ new.nodes = inode[i].nodes \ {n} /\ new.edges = inode[i].edges
  <2>1. inode[i] \in ArchiveFiles
    BY <1>2, <1>3
  <2> QED
    BY <2>1 DEF ArchiveFiles
<1> HIDE DEF new
<1>5. /\ inode' \in Seq(ArchiveFiles) /\ Len(inode') = Len(inode) /\ DOMAIN inode' = DOMAIN inode
      /\ inode'[i] = new /\ \A x \in DOMAIN inode \ {i} : inode'[x] = inode[x]
  BY <1>1, <1>2, <1>3, <1>4
<1>6. h.at = "edges" /\ h.back = back
  OBVIOUS
<1> HIDE DEF back, i, o
<1>7. Fits(h, DOMAIN inode, minted)
  BY <1>3 DEF Fits
<1> HIDE DEF h
<1>8. hand'[p] = h /\ \A q \in Hands \ {p} : hand'[q] = hand[q]
  BY <1>1, <1>2, HandMoves DEF ArchiveTypeOK
<1>9. \A x \in DOMAIN inode : inode'[x].edges = inode[x].edges
  BY <1>4, <1>5
<1>10. joined' \subseteq minted /\ graph' \in [Kept -> {"live", "dormant", "absent"}]
       /\ \A x \in DOMAIN inode : inode'[x].edges \subseteq minted
  BY <1>1, <1>2, <1>9 DEF ArchiveTypeOK
<1>11. ArchiveFits'
  BY <1>1, <1>2, <1>5, <1>7, <1>10, WriteFits
<1>12. (\A x : NodeLeaves(x)' => NodeLeaves(x)) /\ (\A e : EdgeLeaves(e)' => EdgeLeaves(e))
  BY <1>1, <1>6, <1>8 DEF NodeLeaves, EdgeLeaves
<1>13. ASSUME NEW x \in Kept \ erased' PROVE NodeCounted(x)'
  <2>1. NodeCounted(x)
    BY <1>1 DEF ArchiveInv
  <2>2. CASE x = n
    <3>1. NodeDue(x)' = NodeDue(x) \ {p} /\ p \in NodeDue(x)
      BY <1>1, <1>6, <1>8, <2>2 DEF NodeDue
    <3>2. NodeFiles(x)' = NodeFiles(x) \ {i}
      BY <1>3, <1>4, <1>5, <2>2 DEF NodeFiles
    <3>3. /\ Covers(NodeDue(x), NodeFiles(x)) => Covers(NodeDue(x) \ {p}, NodeFiles(x) \ {i})
          /\ Exceeds(NodeDue(x), NodeFiles(x)) => Exceeds(NodeDue(x) \ {p}, NodeFiles(x) \ {i})
      BY <3>1, CountsMove
    <3> QED
      BY <1>12, <2>1, <3>1, <3>2, <3>3 DEF NodeCounted
  <2>3. CASE x # n
    <3>1. NodeDue(x)' = NodeDue(x)
      BY <1>1, <1>6, <1>8, <2>3 DEF NodeDue
    <3>2. NodeFiles(x)' = NodeFiles(x)
      BY <1>3, <1>4, <1>5, <2>3 DEF NodeFiles
    <3> QED
      BY <1>12, <2>1, <3>1, <3>2 DEF NodeCounted
  <2> QED
    BY <2>2, <2>3
<1>14. SameEdges
  <2> SUFFICES ASSUME NEW e \in minted' \ erased'
               PROVE  /\ EdgeDue(e)' \subseteq EdgeDue(e) /\ EdgeFiles(e) \subseteq EdgeFiles(e)'
                      /\ IsFiniteSet(EdgeFiles(e)') /\ (EdgeLeaves(e)' => EdgeLeaves(e))
    BY DEF SameEdges
  <2>1. \A q \in Hands : \A f : Owes(hand'[q], f, e) => Owes(hand[q], f, e)
    BY <1>1, <1>6, <1>8 DEF Owes, back
  <2>2. EdgeDue(e)' \subseteq EdgeDue(e)
    BY <2>1 DEF EdgeDue
  <2>3. EdgeFiles(e)' = EdgeFiles(e) /\ EdgeFiles(e) \subseteq DOMAIN inode
    BY <1>5, <1>9 DEF EdgeFiles
  <2> QED
    BY <1>2, <1>12, <2>2, <2>3, FilesFinite
<1>15. \A e \in minted' \ erased' : EdgeCounted(e)'
  BY <1>1, <1>14, EdgesKept
<1> QED
  BY <1>11, <1>13, <1>15 DEF ArchiveInv

\* The edges leave the file the node was read from, or the one that has their file's
\* name by then: it does not matter which.
LEMMA ClearEdgesKeeps == ASSUME ArchiveInv, NEW p \in Hands, NEW f \in Names, ClearEdges(p, f) PROVE ArchiveInv'
<1> DEFINE back == hand[p].back
           i == Cleared(p, f)
           o == hand[p].own
           own == hand[p].file
           rest == DOMAIN back \ {f}
           less == [g \in rest |-> back[g]]
           h == IF rest = {} THEN HandIdle ELSE [at |-> "edges", own |-> o, file |-> own, back |-> less]
           new == [inode[i] EXCEPT !.edges = @ \ back[f]]
<1>1. /\ hand[p].at = "edges" /\ f \in DOMAIN back
      /\ inode' = (IF i = NoFile THEN inode ELSE [inode EXCEPT ![i] = new])
      /\ hand' = [hand EXCEPT ![p] = h]
      /\ UNCHANGED <<graph, joined, minted, name, moment, erased, deaths>>
  BY DEF ClearEdges
<1>2. ArchiveFits /\ ArchiveTypeOK /\ inode \in Seq(ArchiveFiles)
  BY DEF ArchiveInv, ArchiveFits
<1>3. IsBack(back, minted) /\ o \in Names /\ own \in DOMAIN inode
  BY <1>1, HandParts DEF ArchiveInv, ArchiveFits
<1>4. i # NoFile => i \in DOMAIN inode
  BY <1>2, <1>3 DEF ArchiveTypeOK, NoFile, Cleared
<1>5. i # NoFile => new \in ArchiveFiles /\ new.nodes = inode[i].nodes /\ new.edges = inode[i].edges \ back[f]
  <2>1. i # NoFile => inode[i] \in ArchiveFiles
    BY <1>2, <1>4
  <2> QED
    BY <2>1 DEF ArchiveFiles
<1> HIDE DEF new
<1>6. /\ inode' \in Seq(ArchiveFiles) /\ Len(inode') = Len(inode) /\ DOMAIN inode' = DOMAIN inode
      /\ i # NoFile => inode'[i] = new
      /\ \A x \in DOMAIN inode \ {i} : inode'[x] = inode[x]
      /\ i = NoFile => inode' = inode
  <2> HIDE DEF i
  <2>1. CASE i = NoFile
    BY <1>1, <1>2, <2>1
  <2>2. CASE i # NoFile
    BY <1>1, <1>2, <1>4, <1>5, <2>2
  <2> QED
    BY <2>1, <2>2
<1>7. IsBack(less, minted)
  BY <1>3 DEF IsBack
<1>8. h.at \in {"idle", "edges"} /\ (h.at = "idle" <=> rest = {}) /\ (h.at = "edges" => h.back = less)
  BY DEF HandIdle
<1>9. DOMAIN less = rest /\ \A g \in rest : less[g] = back[g]
  OBVIOUS
<1>10. \A g, e : Owes(h, g, e) <=> g \in rest /\ e \in back[g]
  BY <1>8, <1>9 DEF Owes
<1>11. h = HandIdle \/ h = [at |-> "edges", own |-> o, file |-> own, back |-> less]
  OBVIOUS
<1> HIDE DEF less, rest, h, o, own
<1>12. Fits(h, DOMAIN inode, minted)
  BY <1>3, <1>7, <1>11 DEF Fits
<1>13. hand'[p] = h /\ \A q \in Hands \ {p} : hand'[q] = hand[q]
  BY <1>1, <1>2, HandMoves DEF ArchiveTypeOK
<1> HIDE DEF back, i
<1>14. \A x \in DOMAIN inode : /\ inode'[x].nodes = inode[x].nodes
                               /\ inode'[x].edges = IF x = i THEN inode[x].edges \ back[f] ELSE inode[x].edges
  <2>1. \A x \in DOMAIN inode : x # NoFile
    BY <1>2 DEF NoFile
  <2> QED
    BY <1>5, <1>6, <2>1
<1>15. joined' \subseteq minted /\ graph' \in [Kept -> {"live", "dormant", "absent"}]
       /\ \A x \in DOMAIN inode : inode'[x].edges \subseteq minted
  BY <1>1, <1>2, <1>14 DEF ArchiveTypeOK
<1>16. ArchiveFits'
  BY <1>1, <1>2, <1>6, <1>12, <1>15, WriteFits
<1>17. (\A x : NodeLeaves(x)' => NodeLeaves(x)) /\ (\A e : EdgeLeaves(e)' => EdgeLeaves(e))
  BY <1>1, <1>8, <1>13 DEF NodeLeaves, EdgeLeaves
<1>18. SameNodes
  <2> SUFFICES ASSUME NEW x \in Kept \ erased'
               PROVE  /\ NodeDue(x)' \subseteq NodeDue(x) /\ NodeFiles(x) \subseteq NodeFiles(x)'
                      /\ IsFiniteSet(NodeFiles(x)') /\ (NodeLeaves(x)' => NodeLeaves(x))
    BY DEF SameNodes
  <2>1. NodeDue(x)' \subseteq NodeDue(x)
    BY <1>8, <1>13 DEF NodeDue
  <2>2. NodeFiles(x)' = NodeFiles(x) /\ NodeFiles(x) \subseteq DOMAIN inode
    BY <1>6, <1>14 DEF NodeFiles
  <2> QED
    BY <1>2, <1>17, <2>1, <2>2, FilesFinite
<1>19. \A x \in Kept \ erased' : NodeCounted(x)'
  BY <1>1, <1>18, NodesKept
<1>20. ASSUME NEW e \in minted' \ erased' PROVE EdgeCounted(e)'
  <2>1. EdgeCounted(e)
    BY <1>1 DEF ArchiveInv
  <2>2. \A q \in Hands \ {p} : \A g : Owes(hand'[q], g, e) <=> Owes(hand[q], g, e)
    BY <1>13 DEF Owes
  <2>3. \A g : /\ Owes(hand'[p], g, e) <=> g \in DOMAIN back /\ g # f /\ e \in back[g]
               /\ Owes(hand[p], g, e) <=> g \in DOMAIN back /\ e \in back[g]
    BY <1>1, <1>10, <1>13 DEF Owes, rest, back
  <2>4. CASE e \in back[f]
    <3>1. EdgeDue(e)' = EdgeDue(e) \ {<<p, f>>}
      <4>1. EdgeDue(e)' \subseteq EdgeDue(e) \ {<<p, f>>}
        BY <2>2, <2>3 DEF EdgeDue
      <4>2. EdgeDue(e) \ {<<p, f>>} \subseteq EdgeDue(e)'
        BY <2>2, <2>3 DEF EdgeDue
      <4> QED
        BY <4>1, <4>2
    <3>2. <<p, f>> \in EdgeDue(e)
      BY <1>1, <2>3, <2>4 DEF EdgeDue, back
    <3>3. EdgeFiles(e)' = EdgeFiles(e) \ {i}
      BY <1>6, <1>14, <2>4 DEF EdgeFiles
    <3>4. /\ Covers(EdgeDue(e), EdgeFiles(e)) => Covers(EdgeDue(e) \ {<<p, f>>}, EdgeFiles(e) \ {i})
          /\ Exceeds(EdgeDue(e), EdgeFiles(e)) => Exceeds(EdgeDue(e) \ {<<p, f>>}, EdgeFiles(e) \ {i})
      BY <3>2, CountsMove
    <3> QED
      BY <1>17, <2>1, <3>1, <3>3, <3>4 DEF EdgeCounted
  <2>5. CASE e \notin back[f]
    <3>1. \A q \in Hands : \A g : Owes(hand'[q], g, e) <=> Owes(hand[q], g, e)
      BY <2>2, <2>3, <2>5
    <3>2. EdgeDue(e)' = EdgeDue(e)
      BY <3>1 DEF EdgeDue
    <3>3. EdgeFiles(e)' = EdgeFiles(e)
      BY <1>6, <1>14, <2>5 DEF EdgeFiles
    <3> QED
      BY <1>17, <2>1, <3>2, <3>3 DEF EdgeCounted
  <2> QED
    BY <2>4, <2>5
<1> QED
  BY <1>16, <1>19, <1>20 DEF ArchiveInv

-----------------------------------------------------------------------------
\* Nothing is archived at first.
LEMMA ArchiveStart == ArchiveInit => ArchiveInv
<1> SUFFICES ASSUME ArchiveInit PROVE ArchiveInv
  OBVIOUS
<1>1. /\ graph = [n \in Kept |-> "dormant"] /\ joined = {} /\ minted = {} /\ erased = {}
      /\ inode = <<>> /\ name = [f \in Names |-> NoFile] /\ moment = 1
      /\ hand = [p \in Hands |-> HandIdle]
  BY DEF ArchiveInit
<1>2. DOMAIN inode = {} /\ inode \in Seq(ArchiveFiles) /\ Len(inode) = 0
  BY <1>1
<1>3. ArchiveTypeOK
  <2>1. MaxStamp \in Nat \ {0} /\ moment \in 1..MaxStamp
    BY <1>1, ArchiveAssumption
  <2>2. name \in [Names -> 0..Len(inode)]
    BY <1>1, <1>2 DEF NoFile
  <2> QED
    BY <1>1, <1>2, <2>1, <2>2 DEF ArchiveTypeOK
<1>4. \A p \in Hands : hand[p] = HandIdle /\ hand[p].at = "idle" /\ Fits(hand[p], DOMAIN inode, minted)
  BY <1>1 DEF Fits, HandIdle
<1>5. ASSUME NEW n \in Kept PROVE NodeCounted(n)
  <2>1. NodeDue(n) = {} /\ NodeFiles(n) = {}
    BY <1>2, <1>4 DEF NodeDue, NodeFiles
  <2>2. ~NodeLeaves(n)
    BY <1>1, <1>4 DEF NodeLeaves
  <2> QED
    BY <2>1, <2>2, FS_EmptySet DEF NodeCounted, Covers
<1> QED
  BY <1>1, <1>2, <1>3, <1>4, <1>5 DEF ArchiveInv, ArchiveFits

\* Every step keeps it.
LEMMA ArchiveStep == ASSUME ~SameSecond PROVE ArchiveInv /\ [ArchiveNext]_archiveVars => ArchiveInv'
<1> SUFFICES ASSUME ArchiveInv, [ArchiveNext]_archiveVars PROVE ArchiveInv'
  OBVIOUS
<1>1. CASE \E e \in DOMAIN Joins : Join(e)
  BY <1>1, JoinKeeps
<1>2. CASE Elapse \/ \E n \in Kept : EraseKept(n) \/ Decay(n)
  BY <1>2, EraseKeeps, DecayKeeps
<1>3. ASSUME NEW p \in Hands,
             \/ ListArchivable(p) \/ Rotate(p) \/ OpenCurrent(p) \/ Moved(p)
             \/ RefuseRestore(p) \/ Restore(p) \/ ClearNode(p) \/ HandDies(p)
             \/ \E n \in Kept : Skip(p, n) \/ Copy(p, n) \/ FindArchived(p, n)
             \/ \E f \in Names : ClearEdges(p, f)
      PROVE  ArchiveInv'
  <2>1. CASE ListArchivable(p) \/ Rotate(p) \/ OpenCurrent(p) \/ Moved(p)
    BY <2>1, ListKeeps, RotateKeeps, OpenKeeps, MovedKeeps
  <2>2. CASE RefuseRestore(p) \/ Restore(p) \/ ClearNode(p) \/ HandDies(p)
    BY <2>2, EndsKeeps, RestoreKeeps, ClearNodeKeeps
  <2>3. CASE \E n \in Kept : Skip(p, n) \/ Copy(p, n) \/ FindArchived(p, n)
    BY <2>3, SkipKeeps, CopyKeeps, FindKeeps
  <2>4. CASE \E f \in Names : ClearEdges(p, f)
    BY <2>4, ClearEdgesKeeps
  <2> QED
    BY <1>3, <2>1, <2>2, <2>3, <2>4
<1>4. CASE UNCHANGED archiveVars
  <2>1. UNCHANGED <<graph, joined, minted, inode, name, moment, hand, erased>>
    BY <1>4 DEF archiveVars
  <2>2. ArchiveFits'
    BY <2>1, PeopleFit DEF ArchiveInv, ArchiveFits, ArchiveTypeOK
  <2>3. SameNodes /\ SameEdges
    BY <2>1, PeopleCount DEF SameNodes, SameEdges, NodeLeaves, EdgeLeaves
  <2>4. (\A n \in Kept \ erased' : NodeCounted(n)') /\ (\A e \in minted' \ erased' : EdgeCounted(e)')
    BY <2>1, <2>3, NodesKept, EdgesKept
  <2> QED
    BY <2>2, <2>4 DEF ArchiveInv
<1> QED
  BY <1>1, <1>2, <1>3, <1>4 DEF ArchiveNext

\* The invariant that both results rest on, when no two rotations fall in one second.
THEOREM ArchiveInvariant == ASSUME ~SameSecond PROVE ArchiveSpec => []ArchiveInv
<1>1. ArchiveInv /\ [ArchiveNext]_archiveVars => ArchiveInv'
  BY ArchiveStep
<1> QED
  BY <1>1, ArchiveStart, PTL DEF ArchiveSpec

\* The graph, the archive files and the processes at work on them keep their shape
\* (archive.py).
THEOREM ArchiveTypeCorrect == ASSUME ~SameSecond PROVE ArchiveSpec => []ArchiveTypeOK
<1>1. ArchiveInv => ArchiveTypeOK
  BY DEF ArchiveInv, ArchiveFits
<1> QED
  BY <1>1, ArchiveInvariant, PTL

\* What people have made and not deleted is in the graph or in an archive file,
\* wherever an archive cycle or a restore dies and however they interleave, when no
\* two rotations fall in one second (archive.py:5).
THEOREM EverythingPreserved == ASSUME ~SameSecond PROVE ArchiveSpec => []NothingLost
<1>1. ASSUME ArchiveInv PROVE NothingLost
  <2>1. \A i \in DOMAIN inode : i \in OnDisk
    <3>1. \A i \in DOMAIN inode : i # NoFile /\ \E f \in Names : name[f] = i
      BY <1>1 DEF ArchiveInv, ArchiveFits, NoFile
    <3> QED
      BY <3>1 DEF OnDisk
  <2>2. ASSUME NEW n \in Kept \ erased, graph[n] = "absent" PROVE n \in ArchivedNodes
    <3>1. NodeFiles(n) # {}
      BY <1>1, <2>2, CountsMove DEF ArchiveInv, NodeCounted, NodeLeaves
    <3> QED
      BY <2>1, <3>1 DEF NodeFiles, ArchivedNodes
  <2>3. ASSUME NEW e \in minted \ erased, e \notin joined PROVE e \in ArchivedEdges
    <3>1. EdgeFiles(e) # {}
      BY <1>1, <2>3, CountsMove DEF ArchiveInv, EdgeCounted, EdgeLeaves
    <3> QED
      BY <2>1, <3>1 DEF EdgeFiles, ArchivedEdges
  <2> QED
    BY <2>2, <2>3 DEF NothingLost
<1> QED
  BY <1>1, ArchiveInvariant, PTL
=============================================================================
