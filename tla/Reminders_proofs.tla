--------------------------- MODULE Reminders_proofs ---------------------------
(* That one sweep at a time fires reminders, that no action runs twice at a   *)
(* time or more often than its attempts allow, and that no occurrence is      *)
(* passed over (reminders.py, actions.py), for any reminders, processes and   *)
(* bounds of the behaviours.                                                  *)
(*                                                                            *)
(* Two claims of the clock carry the argument.  A process that fires for a    *)
(* sweep is within the lease it renewed for this reminder, so no lease is     *)
(* free and nobody else holds it.  A process that runs an action is within    *)
(* its budget, so the claim it wrote is not old enough to be taken over.      *)
EXTENDS Reminders, TLAPS

Fires(p) == op[p].phase \in Firing
Sweeps(p) == Fires(p) /\ op[p].how = "sweep"
Runs(p) == op[p].phase \in {"run", "record"}

\* A process that fires has one reminder at hand, and only a sweep does more
\* with it than to run its action.
HasInHand(p) ==
    /\ Fires(p) => \E r \in Reminders : op[p].r = {r}
    /\ Fires(p) /\ op[p].how # "sweep" =>
         /\ op[p].phase \in {"claim", "run", "record", "settle"}
         /\ op[p].phase = "settle" => ~Row(p).recurring
         /\ ~op[p].stale
    /\ op[p].phase \in {"list", "sweep"} => op[p].how = "sweep"
    /\ At(p, "record") => op[p].result # "none"

AtHand == \A p \in Procs : HasInHand(p)

\* A sweep that fires holds the lease, and is within it.
Leased ==
    \A p \in Procs : Sweeps(p) =>
      /\ lock = [by |-> p, until |-> op[p].since + 1]
      /\ op[p].since <= now /\ now <= op[p].since + 1

\* Whoever runs an action is within its budget.
Budgeted ==
    \A p \in Procs : Runs(p) => op[p].since <= now /\ now <= op[p].since + 1

\* What runs has its claim in the row, unless the action was parked meanwhile.
Claimed ==
    \A p \in Procs : Runs(p) =>
      /\ Subject(p) \notin parked => Row(p).act.status = "running" /\ Row(p).act.claim = p
      /\ Row(p).act.claim = p =>
           /\ Row(p).act.status \notin Undecided
           /\ Row(p).act.status = "running" => op[p].since <= Row(p).act.at

\* The occurrence at hand fell due, so it is not the one after an advance.
FellDue ==
    /\ \A r \in Reminders :
         /\ row[r].due <= now + 1
         /\ row[r].status = "snoozed" => row[r].due <= row[r].snooze
    /\ \A p \in Procs :
         /\ \A next \in op[p].todo : next[2] <= now
         /\ Sweeps(p) => op[p].due <= now

\* The launches of the occurrence are counted in the row.
Counted ==
    \A r \in Reminders \ parked : row[r].act.status # "paused" =>
      tries[r] <= IF row[r].act.occurrence = row[r].due THEN row[r].act.attempts ELSE 0

\* The row of an occurrence that may have been delivered says so, or says that
\* a wake may be under way.
Kept ==
    \A r \in sent \ parked :
      row[r].act.status \in Delivered \/ Orphaned(row[r])

\* A run delivers what it runs, and nobody delivers it before it has.
OwnDelivery ==
    \A p \in Procs : Runs(p) /\ Subject(p) \in sent \ parked =>
      /\ ~At(p, "run")
      /\ At(p, "record") => Current(p) /\ op[p].result \in Delivered

\* A sweep has notified the occurrence it fires, or found it delivered.
Told ==
    \A p \in Procs : Sweeps(p) /\ Current(p) =>
      /\ op[p].phase \in {"claim", "run", "record", "latest", "after"} => Subject(p) \in notified
      /\ At(p, "settle") => Subject(p) \in notified \/ Row(p).act.status \in Undecided

IInv ==
    /\ TypeOK
    /\ AtHand
    /\ Leased
    /\ Budgeted
    /\ Claimed
    /\ FellDue
    /\ Counted
    /\ Kept
    /\ OwnDelivery
    /\ Told

-----------------------------------------------------------------------------
(* Processes *)

Ops ==
    [phase : {"idle", "list", "sweep"} \cup Firing, how : Hows,
     todo : SUBSET (Reminders \X Nat), r : SUBSET Reminders, due : Nat, since : Nat,
     stale : BOOLEAN, attempts : Nat, seen : SUBSET Acts,
     result : {"none", "failed", "exhausted"} \cup Delivered]

LEMMA OpIs ==
    ASSUME TypeOK, NEW p \in Procs
    PROVE  /\ \A o : Becomes(p, o) => op'[p] = o
           /\ \A phase : Goes(p, phase) => op'[p] = [op[p] EXCEPT !.phase = phase]
BY DEF TypeOK, Becomes, Goes

\* A process whose phase changes is otherwise as it was, and so are the others.
LEMMA OpBecomes ==
    ASSUME TypeOK, NEW p \in Procs, NEW o \in Ops, Becomes(p, o)
    PROVE  /\ op' \in [Procs -> Ops] /\ op'[p] = o
           /\ \A q \in Procs : q # p => op'[q] = op[q]
<1>1. op \in [Procs -> Ops]
  BY DEF TypeOK, Ops
<1> QED
  BY <1>1 DEF Becomes

LEMMA OpGoes ==
    ASSUME TypeOK, NEW p \in Procs, NEW phase \in Firing, Goes(p, phase)
    PROVE  /\ op' \in [Procs -> Ops] /\ op'[p] = [op[p] EXCEPT !.phase = phase]
           /\ \A q \in Procs : q # p => op'[q] = op[q]
<1>1. op \in [Procs -> Ops] /\ [op[p] EXCEPT !.phase = phase] \in Ops
  BY DEF TypeOK, Ops
<1> QED
  BY <1>1 DEF Goes

LEMMA OpDone ==
    ASSUME TypeOK, NEW p \in Procs, Done(p)
    PROVE  /\ op' \in [Procs -> Ops]
           /\ op'[p].phase \notin Firing
           /\ op'[p].phase \in {"list", "sweep"} => op'[p].how = "sweep"
           /\ op'[p].todo \subseteq op[p].todo
           /\ \A q \in Procs : q # p => op'[q] = op[q]
<1> DEFINE o == IF op[p].how = "sweep"
                THEN [Idle EXCEPT !.phase = "sweep", !.todo = op[p].todo] ELSE Idle
<1>1. op[p].todo \in SUBSET (Reminders \X Nat) /\ Idle \in Ops
  BY DEF TypeOK, Idle, Ops, Hows
<1>2. /\ o \in Ops /\ o.phase \notin Firing /\ o.todo \subseteq op[p].todo
      /\ o.phase \in {"list", "sweep"} => o.how = "sweep"
  BY <1>1 DEF Idle, Ops, Firing
<1>3. Becomes(p, o)
  BY DEF Done
<1> QED
  BY <1>2, <1>3, OpBecomes

LEMMA OneSubject ==
    ASSUME NEW p \in Procs, NEW r, op[p].r = {r}
    PROVE  Subject(p) = r
BY DEF Subject

LEMMA SubjectNext ==
    ASSUME NEW p \in Procs, NEW r, op'[p].r = {r}
    PROVE  Subject(p)' = r
BY DEF Subject

LEMMA SubjectAtHand ==
    ASSUME AtHand, NEW p \in Procs, Fires(p)
    PROVE  Subject(p) \in Reminders /\ op[p].r = {Subject(p)}
BY OneSubject DEF AtHand, HasInHand

-----------------------------------------------------------------------------
(* Rows *)

\* A write of one row leaves the others.
LEMMA RowSet ==
    ASSUME TypeOK, NEW r \in Reminders, NEW x \in Rows, Set(r, x)
    PROVE  /\ row' \in [Reminders -> Rows] /\ row'[r] = x
           /\ \A s \in Reminders : s # r => row'[s] = row[s]
BY DEF TypeOK, Set

LEMMA RowTyped ==
    ASSUME TypeOK, NEW r \in Reminders
    PROVE  row[r] \in Rows /\ row[r].act \in Acts
BY DEF TypeOK, Rows

LEMMA ActSet ==
    ASSUME TypeOK, NEW r \in Reminders, NEW a \in Acts
    PROVE  [row[r] EXCEPT !.act = a] \in Rows
BY DEF TypeOK, Rows

LEMMA ActRenewedByAdvance ==
    ASSUME NEW a \in Acts
    PROVE  /\ ActAdvanced(a) \in Acts
           /\ ActAdvanced(a).status \in {"running", "paused", "pending"}
           /\ "running" \in {a.status, ActAdvanced(a).status} => ActAdvanced(a) = a
           /\ ActAdvanced(a).claim = a.claim
BY DEF ActAdvanced, Acts

Moved(y, due, a) == [y EXCEPT !.due = due, !.status = "active", !.snooze = 0, !.act = a]

LEMMA RowMoved ==
    ASSUME NEW y \in Rows, NEW due \in Nat, NEW a \in Acts
    PROVE  /\ Moved(y, due, a) \in Rows /\ Moved(y, due, a).due = due
           /\ Moved(y, due, a).status = "active" /\ Moved(y, due, a).act = a
           /\ Moved(y, due, a).recurring = y.recurring /\ Moved(y, due, a).wake = y.wake
<1> DEFINE b == [y EXCEPT !.due = due, !.status = "active"]
           x == [b EXCEPT !.snooze = 0, !.act = a]
<1>1. /\ b \in Rows /\ b.due = due /\ b.status = "active"
      /\ b.recurring = y.recurring /\ b.wake = y.wake
  BY DEF Rows
<1> HIDE DEF b
<1>2. /\ x \in Rows /\ x.due = b.due /\ x.status = b.status /\ x.act = a
      /\ x.recurring = b.recurring /\ x.wake = b.wake
  BY <1>1 DEF Rows
<1>3. Moved(y, due, a) = x
  BY DEF b, Moved
<1> HIDE DEF x
<1> QED
  BY <1>1, <1>2, <1>3

\* An advance is to an occurrence of the future, with nothing of the past in it.
LEMMA Advanced ==
    ASSUME TypeOK, NEW r \in Reminders, Advance(r)
    PROVE  /\ row' \in [Reminders -> Rows]
           /\ row'[r].due = now + 1 /\ row'[r].status = "active"
           /\ row'[r].recurring = row[r].recurring /\ row'[r].wake = row[r].wake
           /\ row'[r].act = ActAdvanced(row[r].act)
           /\ \A s \in Reminders : s # r => row'[s] = row[s]
           /\ tries' \in [Reminders -> Nat] /\ tries'[r] = 0
           /\ \A s \in Reminders : s # r => tries'[s] = tries[s]
           /\ notified' = notified \ {r} /\ sent' = sent \ {r}
<1> DEFINE a == ActAdvanced(row[r].act)
           x == Moved(row[r], now + 1, a)
<1>1. row[r] \in Rows /\ a \in Acts /\ now \in Nat
  BY RowTyped, ActRenewedByAdvance DEF TypeOK
<1>2. Set(r, x)
  BY DEF Advance, Moved
<1> HIDE DEF a
<1>3. /\ x \in Rows /\ x.due = now + 1 /\ x.status = "active" /\ x.act = a
      /\ x.recurring = row[r].recurring /\ x.wake = row[r].wake
  <2>1. now + 1 \in Nat
    BY <1>1
  <2> QED
    BY <1>1, <2>1, RowMoved
<1>4. tries \in [Reminders -> Nat]
  BY DEF TypeOK
<1> HIDE DEF x
<1>5. /\ row' \in [Reminders -> Rows] /\ row'[r] = x
      /\ \A s \in Reminders : s # r => row'[s] = row[s]
  BY <1>2, <1>3, RowSet
<1>6. /\ tries' \in [Reminders -> Nat] /\ tries'[r] = 0
      /\ \A s \in Reminders : s # r => tries'[s] = tries[s]
      /\ notified' = notified \ {r} /\ sent' = sent \ {r}
  BY <1>4 DEF Advance
<1> QED
  BY <1>3, <1>5, <1>6 DEF a

-----------------------------------------------------------------------------
(* Types *)

LEMMA OpTyped ==
    ASSUME TypeOK, NEW p \in Procs
    PROVE  op[p] \in Ops /\ Idle \in Ops
BY DEF TypeOK, Ops, Idle, Hows

LEMMA SubjectTyped ==
    ASSUME TypeOK, AtHand, NEW p \in Procs, Fires(p)
    PROVE  /\ Subject(p) \in Reminders /\ Row(p) \in Rows /\ Row(p).act \in Acts
           /\ Row(p) = row[Subject(p)]
BY SubjectAtHand, RowTyped DEF Row

\* What a step does to the process that takes it.
Steps(p) ==
    /\ op' \in [Procs -> Ops]
    /\ \A q \in Procs : q # p => op'[q] = op[q]

\* Every step of a process but those that write a row.
LEMMA SweepStepped ==
    ASSUME TypeOK, NEW p \in Procs,
           Acquire(p) \/ ListDue(p) \/ Renew(p) \/ Release(p)
    PROVE  Steps(p) /\ lock' \in [by : Procs \cup {NoProc}, until : Nat]
<1>1. CASE Acquire(p)
  <2>1. [Idle EXCEPT !.phase = "list"] \in Ops
    BY OpTyped DEF Ops
  <2> QED
    BY <1>1, <2>1, OpBecomes DEF Acquire, Steps, TypeOK
<1>2. CASE ListDue(p)
  <2> DEFINE todo == {<<r, row[r].due>> : r \in {q \in Reminders : Due(row[q])}}
  <2>1. todo \in SUBSET (Reminders \X Nat)
    BY RowTyped DEF Rows
  <2> HIDE DEF todo
  <2>2. [Idle EXCEPT !.phase = "sweep", !.todo = todo] \in Ops
    BY <2>1, OpTyped DEF Ops
  <2> QED
    BY <1>2, <2>2, OpBecomes DEF ListDue, Steps, TypeOK, todo
<1>3. CASE Renew(p)
  <2>1. CASE Holds(p)
    <3>1. PICK next \in op[p].todo :
            Becomes(p, [Idle EXCEPT !.phase = "read", !.todo = op[p].todo \ {next},
                                    !.r = {next[1]}, !.due = next[2], !.since = now])
      BY <1>3, <2>1 DEF Renew
    <3>2. /\ next[1] \in Reminders /\ next[2] \in Nat /\ now \in Nat
          /\ op[p].todo \ {next} \in SUBSET (Reminders \X Nat)
      BY OpTyped DEF Ops, TypeOK
    <3> DEFINE todo == op[p].todo \ {next}
               r == next[1]
               due == next[2]
    <3> HIDE DEF todo, r, due
    <3>3. [Idle EXCEPT !.phase = "read", !.todo = todo, !.r = {r}, !.due = due, !.since = now]
            \in Ops
      BY <3>2 DEF Ops, Idle, Firing, Hows, todo, r, due
    <3>4. Steps(p)
      BY <3>1, <3>3, OpBecomes DEF Steps, todo, r, due
    <3>5. lock' = [by |-> p, until |-> now + 1]
      BY <1>3, <2>1 DEF Renew
    <3> QED
      BY <3>2, <3>4, <3>5
  <2>2. CASE ~Holds(p)
    <3>1. [Idle EXCEPT !.phase = "sweep"] \in Ops
      BY OpTyped DEF Ops
    <3> QED
      BY <1>3, <2>2, <3>1, OpBecomes DEF Renew, Steps, TypeOK
  <2> QED
    BY <2>1, <2>2
<1>4. CASE Release(p)
  BY <1>4, OpTyped, OpBecomes DEF Release, Steps, TypeOK
<1> QED
  BY <1>1, <1>2, <1>3, <1>4

LEMMA FireStepped ==
    ASSUME TypeOK, NEW p \in Procs,
           \/ FireRead(p) \/ Notify(p) \/ ClaimRefused(p) \/ ClaimSettled(p)
           \/ Latest(p) \/ Settle(p) \/ Pause(p) \/ SetAside(p)
    PROVE  Steps(p)
<1>1. \/ Done(p)
      \/ \E phase \in Firing : Goes(p, phase)
      \/ \E stale \in BOOLEAN : Becomes(p, [op[p] EXCEPT !.phase = "notify", !.stale = stale])
  BY DEF FireRead, Notify, ClaimRefused, ClaimSettled, Skipped, Latest, Settle, Pause,
         SetAside, Parks, Firing
<1>2. ASSUME NEW stale \in BOOLEAN PROVE [op[p] EXCEPT !.phase = "notify", !.stale = stale] \in Ops
  BY OpTyped DEF Ops, Firing
<1> QED
  BY <1>1, <1>2, OpDone, OpGoes, OpBecomes DEF Steps

LEMMA RunStepped ==
    ASSUME TypeOK, AtHand, NEW p \in Procs,
           \/ Launch(p) \/ Finish(p) \/ Record(p) \/ RecordFails(p)
           \/ After(p) \/ PauseRead(p) \/ Die(p)
    PROVE  Steps(p)
<1>1. CASE Launch(p)
  <2> DEFINE attempts == Attempts(p) + 1
             since == IF op[p].how = "sweep" THEN op[p].since ELSE now
  <2>1. Attempts(p) \in Nat
    BY <1>1, SubjectTyped DEF Launch, At, Fires, Firing, Attempts, Acts
  <2>2. attempts \in Nat /\ since \in Nat
    BY <2>1, OpTyped DEF Ops, TypeOK
  <2> HIDE DEF attempts, since
  <2>3. [op[p] EXCEPT !.phase = "run", !.attempts = attempts, !.since = since] \in Ops
    BY <2>2, OpTyped DEF Ops, Firing
  <2>4. Becomes(p, [op[p] EXCEPT !.phase = "run", !.attempts = attempts, !.since = since])
    BY <1>1 DEF Launch, attempts, since
  <2> QED
    BY <2>3, <2>4, OpBecomes DEF Steps
<1>2. CASE Finish(p)
  <2>1. PICK result \in {"completed", "failed", "exhausted"} \cup Undecided :
          Becomes(p, [op[p] EXCEPT !.phase = "record", !.result = result])
    BY <1>2 DEF Finish
  <2>2. [op[p] EXCEPT !.phase = "record", !.result = result] \in Ops
    BY OpTyped DEF Ops, Firing, Delivered
  <2> QED
    BY <2>1, <2>2, OpBecomes DEF Steps
<1>3. ASSUME NEW result \in {"failed"} \cup {op[p].result}, AfterRun(p, result)
      PROVE  Steps(p)
  <2>1. CASE op[p].how = "sweep"
    <3>1. result \in {"none", "failed", "exhausted"} \cup Delivered
      BY OpTyped DEF Ops
    <3> DEFINE phase == IF result = "exhausted" THEN "after" ELSE "settle"
    <3>2. phase \in Firing
      BY DEF Firing
    <3> HIDE DEF phase
    <3>3. [op[p] EXCEPT !.phase = phase, !.result = result] \in Ops
      BY <3>1, <3>2, OpTyped DEF Ops
    <3> QED
      BY <1>3, <2>1, <3>3, OpBecomes DEF AfterRun, Steps, phase
  <2>2. CASE op[p].how # "sweep"
    BY <1>3, <2>2, OpDone, OpGoes DEF AfterRun, Steps, Firing
  <2> QED
    BY <2>1, <2>2
<1>4. CASE Record(p)
  <2>1. AfterRun(p, op[p].result) \/ Done(p)
    BY <1>4 DEF Record
  <2> QED
    BY <2>1, <1>3, OpDone DEF Steps
<1>5. CASE RecordFails(p)
  BY <1>3, <1>5 DEF RecordFails
<1>6. CASE After(p)
  <2> DEFINE stale == op[p].stale /\ Row(p).act.status \notin Undecided
  <2>1. stale \in BOOLEAN
    OBVIOUS
  <2> HIDE DEF stale
  <2>2. [op[p] EXCEPT !.phase = "settle", !.stale = stale] \in Ops
    BY <2>1, OpTyped DEF Ops, Firing
  <2>3. Becomes(p, [op[p] EXCEPT !.phase = "settle", !.stale = stale])
    BY <1>6 DEF After, stale
  <2> QED
    BY <2>2, <2>3, OpBecomes DEF Steps
<1>7. CASE PauseRead(p)
  <2>1. Row(p).act \in Acts
    BY <1>7, SubjectTyped DEF PauseRead, At, Fires, Firing
  <2>2. [op[p] EXCEPT !.phase = "park", !.seen = {Row(p).act}] \in Ops
    BY <2>1, OpTyped DEF Ops, Firing
  <2> QED
    BY <1>7, <2>2, OpBecomes DEF PauseRead, Steps
<1>8. CASE Die(p)
  BY <1>8, OpTyped, OpBecomes DEF Die, Steps
<1> QED
  BY <1>1, <1>2, <1>4, <1>5, <1>6, <1>7, <1>8

LEMMA ExecStepped ==
    ASSUME TypeOK, NEW p \in Procs, NEW r \in Reminders, NEW how \in plot.hows[p] \ {"sweep"},
           Exec(p, r, how)
    PROVE  Steps(p) /\ how \in Hows
<1>1. how \in Hows /\ row[r].due \in Nat /\ now \in Nat
  BY RowTyped, PlotsAssumption DEF TypeOK, Rows
<1> DEFINE due == row[r].due
<1> HIDE DEF due
<1>2. [Idle EXCEPT !.phase = "claim", !.how = how, !.r = {r}, !.due = due, !.since = now] \in Ops
  BY <1>1 DEF Ops, Idle, Firing, due
<1> QED
  BY <1>1, <1>2, OpBecomes DEF Exec, Steps, due

\* What a step does to the rows and the history of the runs.
RowsTyped == row' \in [Reminders -> Rows] /\ tries' \in [Reminders -> Nat]
HistoryTyped ==
    notified' \subseteq Reminders /\ sent' \subseteq Reminders /\ parked' \subseteq Reminders

LEMMA RunTyped ==
    ASSUME TypeOK, AtHand, NEW p \in Procs, ClaimSettled(p) \/ Launch(p) \/ Record(p)
    PROVE  RowsTyped /\ HistoryTyped
<1> DEFINE r == Subject(p)
<1>1. /\ r \in Reminders /\ Row(p) = row[r] /\ row[r] \in Rows /\ row[r].act \in Acts
      /\ now \in Nat /\ op[p] \in Ops /\ row \in [Reminders -> Rows]
  BY SubjectTyped, OpTyped
     DEF ClaimSettled, Launch, Record, At, Fires, Firing, TypeOK, Ops
<1> HIDE DEF r
<1>2. Attempts(p) \in Nat
  BY <1>1 DEF Attempts, Acts
<1>3. CASE ClaimSettled(p)
  <2>1. \E s \in {"unknown"} : [row[r].act EXCEPT !.status = s] \in Acts
    BY <1>1 DEF Acts, Delivered, Undecided
  <2>2. [row[r].act EXCEPT !.status = "exhausted", !.attempts = Attempts(p),
                           !.occurrence = row[r].due] \in Acts
    BY <1>1, <1>2 DEF Acts, Rows
  <2>3. \E a \in Acts : row' = [row EXCEPT ![r] = [row[r] EXCEPT !.act = a]]
    <3>1. CASE Orphaned(Row(p))
      BY <1>1, <1>3, <2>1, <3>1 DEF ClaimSettled, Set, r, Rows
    <3>2. CASE ~Orphaned(Row(p))
      BY <1>1, <1>3, <2>2, <3>2 DEF ClaimSettled, Set, r, Rows
    <3> QED
      BY <3>1, <3>2
  <2> QED
    BY <1>1, <1>3, <2>3, ActSet DEF ClaimSettled, RowsTyped, HistoryTyped, TypeOK, history
<1>4. CASE Launch(p)
  <2>1. [status |-> "running", attempts |-> Attempts(p) + 1, occurrence |-> row[r].due,
         claim |-> p, at |-> now] \in Acts
    BY <1>1, <1>2 DEF Acts, Rows
  <2>2. \E a \in Acts : row' = [row EXCEPT ![r] = [row[r] EXCEPT !.act = a]]
    BY <1>1, <1>4, <2>1 DEF Launch, Set, r
  <2>3. tries' \in [Reminders -> Nat]
    BY <1>1, <1>4 DEF Launch, TypeOK, r
  <2> QED
    BY <1>1, <1>4, <2>2, <2>3, ActSet DEF Launch, RowsTyped, HistoryTyped, TypeOK
<1>5. CASE Record(p)
  <2>1. op[p].result \in {"failed", "exhausted"} \cup Delivered
    BY <1>1, <1>5 DEF Ops, Record, AtHand, HasInHand
  <2>2. [row[r].act EXCEPT !.status = op[p].result, !.claim = NoProc, !.at = 0] \in Acts
    <3> DEFINE result == op[p].result
    <3> HIDE DEF result
    <3> QED
      BY <1>1, <2>1 DEF Acts, result
  <2>3. Pending \in Acts
    BY DEF Pending, Acts
  <2>4. \/ \E a \in Acts : row' = [row EXCEPT ![r] = [row[r] EXCEPT !.act = a]]
        \/ row' = row
    <3>1. CASE Belongs(p)
      BY <1>1, <1>5, <2>2, <3>1 DEF Record, Set, r
    <3>2. CASE ~Belongs(p)
      BY <1>1, <1>5, <2>3, <3>2 DEF Record, Set, r
    <3> QED
      BY <3>1, <3>2
  <2>5. HistoryTyped /\ tries' = tries
    BY <1>1, <1>5 DEF Record, HistoryTyped, TypeOK, r
  <2>6. row' \in [Reminders -> Rows]
    BY <1>1, <2>4, ActSet
  <2> QED
    BY <2>5, <2>6 DEF RowsTyped, TypeOK
<1> QED
  BY <1>3, <1>4, <1>5

LEMMA StatusSet ==
    ASSUME TypeOK, NEW r \in Reminders,
           NEW s \in {"active", "snoozed", "fired"} \cup Closed, NEW snooze \in Nat
    PROVE  /\ [row[r] EXCEPT !.status = s] \in Rows
           /\ [row[r] EXCEPT !.status = s, !.snooze = snooze] \in Rows
BY RowTyped DEF Rows

LEMMA SettleTyped ==
    ASSUME TypeOK, AtHand, NEW p \in Procs, Settle(p)
    PROVE  RowsTyped /\ HistoryTyped
<1> DEFINE r == Subject(p)
<1>1. r \in Reminders /\ Row(p) = row[r] /\ row[r] \in Rows
  BY SubjectTyped DEF Settle, At, Fires, Firing
<1>2. CASE UNCHANGED <<row, history>>
  BY <1>2 DEF RowsTyped, HistoryTyped, TypeOK, history
<1>3. CASE Advance(r) /\ UNCHANGED parked
  BY <1>1, <1>3, Advanced DEF RowsTyped, HistoryTyped, TypeOK
<1>4. CASE Set(r, [row[r] EXCEPT !.status = SettledStatus(p)]) /\ UNCHANGED history
  <2>1. SettledStatus(p) \in {"active", "snoozed", "fired"} \cup Closed
    BY DEF SettledStatus, Closed
  <2> QED
    BY <1>1, <1>4, <2>1, StatusSet, RowSet DEF RowsTyped, HistoryTyped, TypeOK, history
<1> QED
  BY <1>1, <1>2, <1>3, <1>4 DEF Settle

LEMMA ParksTyped ==
    ASSUME TypeOK, AtHand, NEW p \in Procs, Pause(p) \/ SetAside(p)
    PROVE  /\ RowsTyped /\ HistoryTyped /\ Fires(p)
           /\ UNCHANGED <<plot, now, lock, tries, notified, sent>> /\ Done(p)
           /\ \E a \in Acts :
                /\ a.status = "paused"
                /\ Set(Subject(p), [Row(p) EXCEPT !.act = a])
           /\ parked' = IF Row(p).act.status \in Delivered \cup {"running"}
                        THEN parked \cup {Subject(p)} ELSE parked
<1> DEFINE r == Subject(p)
<1>1. Fires(p)
  BY DEF Pause, SetAside, At, Fires, Firing
<1>2. r \in Reminders /\ Row(p) = row[r] /\ row[r] \in Rows /\ row[r].act \in Acts
  BY <1>1, SubjectTyped
<1>3. PICK a \in Acts : Parks(p, a)
  BY <1>2, OpTyped DEF Pause, SetAside, Ops
<1>4. [a EXCEPT !.status = "paused"] \in Acts /\ [a EXCEPT !.status = "paused"].status = "paused"
  BY DEF Acts
<1>5. row' \in [Reminders -> Rows]
  BY <1>2, <1>3, <1>4, ActSet, RowSet DEF Parks
<1>6. HistoryTyped /\ tries' = tries
  BY <1>2, <1>3 DEF Parks, HistoryTyped, TypeOK
<1> QED
  BY <1>1, <1>3, <1>4, <1>5, <1>6 DEF Parks, RowsTyped, TypeOK

\* What people do, and the sweep of what they ignore.
ByPeople(r) == Complete(r) \/ Cancel(r) \/ Snooze(r) \/ AutoSnooze(r)

LEMMA PeopleTyped ==
    ASSUME TypeOK, NEW r \in Reminders, ByPeople(r)
    PROVE  /\ RowsTyped /\ HistoryTyped /\ UNCHANGED <<plot, now, lock, op, faults, parked>>
           /\ \/ Advance(r)
              \/ /\ UNCHANGED history
                 /\ \/ \E s \in Closed : Set(r, [row[r] EXCEPT !.status = s])
                    \/ SnoozedFor(r)
<1>1. ASSUME Advance(r), UNCHANGED parked PROVE RowsTyped /\ HistoryTyped
  BY <1>1, Advanced DEF RowsTyped, HistoryTyped, TypeOK
<1>2. ASSUME UNCHANGED history, NEW s \in Closed, Set(r, [row[r] EXCEPT !.status = s])
      PROVE  RowsTyped /\ HistoryTyped
  BY <1>2, StatusSet, RowSet DEF RowsTyped, HistoryTyped, TypeOK, history
<1>3. ASSUME UNCHANGED history, SnoozedFor(r) PROVE RowsTyped /\ HistoryTyped
  <2>1. now + 1 \in Nat
    BY DEF TypeOK
  <2> QED
    BY <1>3, <2>1, StatusSet, RowSet DEF RowsTyped, HistoryTyped, TypeOK, history, SnoozedFor
<1>4. CASE Complete(r)
  BY <1>1, <1>2, <1>4 DEF Complete, Closed, history
<1>5. CASE Cancel(r)
  BY <1>2, <1>5 DEF Cancel, Closed, history
<1>6. CASE Snooze(r) \/ AutoSnooze(r)
  BY <1>3, <1>6 DEF Snooze, AutoSnooze, history
<1> QED
  BY <1>4, <1>5, <1>6 DEF ByPeople

\* Steps that leave the rows alone.
Looks(p) ==
    \/ Acquire(p) \/ ListDue(p) \/ Renew(p) \/ Release(p) \/ FireRead(p) \/ Notify(p)
    \/ ClaimRefused(p) \/ Finish(p) \/ RecordFails(p) \/ Latest(p) \/ After(p)
    \/ PauseRead(p) \/ Die(p)

LEMMA LooksTyped ==
    ASSUME TypeOK, AtHand, NEW p \in Procs, Looks(p)
    PROVE  /\ UNCHANGED <<plot, now, row, tries, parked>> /\ HistoryTyped
           /\ faults' \in Nat /\ lock' \in [by : Procs \cup {NoProc}, until : Nat]
           /\ (\/ FireRead(p) \/ Notify(p) \/ ClaimRefused(p) \/ Finish(p) \/ RecordFails(p)
               \/ Latest(p) \/ After(p) \/ PauseRead(p) \/ Die(p)) => lock' = lock
<1>1. CASE Acquire(p) \/ ListDue(p) \/ Renew(p) \/ Release(p)
  BY <1>1, SweepStepped
     DEF Acquire, ListDue, Renew, Release, HistoryTyped, TypeOK, history, At, FireRead, Notify,
         ClaimRefused, Finish, RecordFails, Latest, After, PauseRead, Die
<1>2. CASE FireRead(p) \/ ClaimRefused(p) \/ RecordFails(p) \/ Latest(p) \/ After(p) \/ PauseRead(p)
  <2>1. UNCHANGED <<plot, now, row, lock, history>> /\ faults' \in {faults, faults + 1}
    BY <1>2 DEF FireRead, ClaimRefused, RecordFails, Latest, After, PauseRead
  <2> QED
    BY <2>1 DEF HistoryTyped, TypeOK, history
<1>3. CASE Notify(p) \/ Finish(p)
  <2>1. Subject(p) \in Reminders
    BY <1>3, SubjectTyped DEF Notify, Finish, At, Fires, Firing
  <2> QED
    BY <1>3, <2>1 DEF Notify, Finish, Submitted, HistoryTyped, TypeOK
<1>4. CASE Die(p)
  <2>1. At(p, "run") => Subject(p) \in Reminders
    BY SubjectTyped DEF At, Fires, Firing
  <2> QED
    BY <1>4, <2>1 DEF Die, Submitted, HistoryTyped, TypeOK
<1> QED
  BY <1>1, <1>2, <1>3, <1>4 DEF Looks

LEMMA FireTyped ==
    ASSUME TypeOK, AtHand, NEW p \in Procs, Fire(p)
    PROVE  /\ Steps(p) /\ RowsTyped /\ HistoryTyped /\ UNCHANGED <<plot, now>>
           /\ faults' \in Nat /\ lock' \in [by : Procs \cup {NoProc}, until : Nat]
<1>1. Steps(p)
  BY SweepStepped, FireStepped, RunStepped DEF Fire
<1>2. CASE Looks(p)
  BY <1>1, <1>2, LooksTyped DEF RowsTyped, TypeOK
<1>3. CASE ClaimSettled(p) \/ Launch(p) \/ Record(p)
  BY <1>1, <1>3, RunTyped DEF ClaimSettled, Launch, Record, TypeOK
<1>4. CASE Settle(p)
  BY <1>1, <1>4, SettleTyped DEF Settle, TypeOK
<1>5. CASE Pause(p) \/ SetAside(p)
  BY <1>1, <1>5, ParksTyped DEF Pause, SetAside, TypeOK
<1> QED
  BY <1>2, <1>3, <1>4, <1>5 DEF Fire, Looks

LEMMA TypeNext ==
    ASSUME TypeOK, AtHand, [Next]_vars
    PROVE  TypeOK'
<1>1. ASSUME NEW p \in Procs, Fire(p) PROVE TypeOK'
  BY <1>1, FireTyped DEF Steps, RowsTyped, HistoryTyped, TypeOK, Ops
<1>2. ASSUME NEW p \in Procs, NEW r \in Reminders, NEW how \in plot.hows[p] \ {"sweep"},
             Exec(p, r, how)
      PROVE  TypeOK'
  BY <1>2, ExecStepped DEF Exec, Steps, TypeOK, Ops, history
<1>3. ASSUME NEW r \in Reminders, ByPeople(r) PROVE TypeOK'
  BY <1>3, PeopleTyped DEF RowsTyped, HistoryTyped, TypeOK
<1>4. CASE Tick
  BY <1>4 DEF Tick, TypeOK, history
<1>5. CASE UNCHANGED vars
  BY <1>5 DEF vars, TypeOK, history
<1> QED
  BY <1>1, <1>2, <1>3, <1>4, <1>5 DEF Next, ByPeople

-----------------------------------------------------------------------------
(* What a step may do to a row                                              *)

\* Nothing makes a one-shot reminder recur, or a wake of another action.
LEMMA KindKept ==
    ASSUME TypeOK, AtHand, [Next]_vars
    PROVE  \A r \in Reminders : row'[r].recurring = row[r].recurring /\ row'[r].wake = row[r].wake
<1> DEFINE KindsKept == \A r \in Reminders :
             row'[r].recurring = row[r].recurring /\ row'[r].wake = row[r].wake
<1>1. ASSUME NEW r \in Reminders, NEW s, NEW snooze, NEW a,
             \/ row' = [row EXCEPT ![r] = [row[r] EXCEPT !.act = a]]
             \/ row' = [row EXCEPT ![r] = [row[r] EXCEPT !.status = s]]
             \/ row' = [row EXCEPT ![r] = [row[r] EXCEPT !.status = s, !.snooze = snooze]]
      PROVE  KindsKept
  <2>1. row \in [Reminders -> Rows] /\ row[r] \in Rows
    BY RowTyped DEF TypeOK
  <2>2. PICK x : /\ row' = [row EXCEPT ![r] = x]
                 /\ x.recurring = row[r].recurring /\ x.wake = row[r].wake
    <3> DEFINE y == row[r]
    <3>1. y \in Rows
      BY <2>1
    <3> HIDE DEF y
    <3>2. /\ [y EXCEPT !.act = a].recurring = y.recurring /\ [y EXCEPT !.act = a].wake = y.wake
          /\ [y EXCEPT !.status = s].recurring = y.recurring
          /\ [y EXCEPT !.status = s].wake = y.wake
          /\ [y EXCEPT !.status = s, !.snooze = snooze].recurring = y.recurring
          /\ [y EXCEPT !.status = s, !.snooze = snooze].wake = y.wake
      BY <3>1 DEF Rows
    <3> QED
      BY <1>1, <3>2 DEF y
  <2> QED
    BY <2>1, <2>2
<1>2. ASSUME NEW p \in Procs, Fire(p) PROVE KindsKept
  <2>1. CASE Looks(p)
    BY <2>1, LooksTyped
  <2>2. CASE ClaimSettled(p) \/ Launch(p) \/ Record(p)
    <3>1. Subject(p) \in Reminders
      BY <2>2, SubjectTyped DEF ClaimSettled, Launch, Record, At, Fires, Firing
    <3>2. row' = row \/ \E a : row' = [row EXCEPT ![Subject(p)] = [Row(p) EXCEPT !.act = a]]
      <4>1. CASE ClaimSettled(p)
        BY <4>1 DEF ClaimSettled, Set
      <4>2. CASE Launch(p)
        BY <4>2 DEF Launch, Set
      <4>3. CASE Record(p)
        BY <4>3 DEF Record, Set
      <4> QED
        BY <2>2, <4>1, <4>2, <4>3
    <3> QED
      BY <1>1, <3>1, <3>2 DEF Row
  <2>3. CASE Settle(p)
    <3>1. Subject(p) \in Reminders
      BY <2>3, SubjectTyped DEF Settle, At, Fires, Firing
    <3> QED
      BY <1>1, <2>3, <3>1, Advanced DEF Settle, Set, Row
  <2>4. CASE Pause(p) \/ SetAside(p)
    <3>1. Subject(p) \in Reminders
      BY <2>4, SubjectTyped, ParksTyped
    <3> QED
      BY <1>1, <2>4, <3>1, ParksTyped DEF Set, Row
  <2> QED
    BY <1>2, <2>1, <2>2, <2>3, <2>4 DEF Fire, Looks
<1>3. ASSUME NEW r \in Reminders, ByPeople(r) PROVE KindsKept
  <2>1. \/ Advance(r)
        \/ \E s \in Closed : Set(r, [row[r] EXCEPT !.status = s])
        \/ SnoozedFor(r)
    BY <1>3, PeopleTyped
  <2> QED
    BY <1>1, <2>1, Advanced DEF Set, SnoozedFor
<1>4. ASSUME UNCHANGED row PROVE KindsKept
  BY <1>4
<1> QED
  BY <1>2, <1>3, <1>4 DEF Next, ByPeople, Exec, Tick, vars

\* A process that does not step keeps what it has at hand.
LEMMA OthersAtHand ==
    ASSUME AtHand, NEW q \in Procs, op'[q] = op[q]
    PROVE  /\ Fires(q)' = Fires(q) /\ Runs(q)' = Runs(q) /\ Sweeps(q)' = Sweeps(q)
           /\ \A phase : At(q, phase)' = At(q, phase)
           /\ Fires(q) => Subject(q)' = Subject(q) /\ Row(q)' = row'[Subject(q)]
<1>1. \A phase : At(q, phase)' = At(q, phase)
  BY DEF At
<1>2. Fires(q) => Subject(q)' = Subject(q)
  BY SubjectAtHand, SubjectNext
<1> QED
  BY <1>1, <1>2 DEF Fires, Runs, Sweeps, Row

-----------------------------------------------------------------------------
(* The invariant, part by part                                              *)

\* A phase of the reminder at hand follows another.
LEMMA HandGoes ==
    ASSUME TypeOK, AtHand, NEW p \in Procs, Fires(p), op[p].how = "sweep",
           op'[p].phase \in Firing \ {"record"}, op'[p].r = op[p].r, op'[p].how = op[p].how
    PROVE  HasInHand(p)'
<1>1. \E r \in Reminders : op'[p].r = {r}
  BY SubjectAtHand
<1> QED
  BY <1>1 DEF HasInHand, Fires, At, Firing

LEMMA HandDone ==
    ASSUME TypeOK, NEW p \in Procs, Done(p)
    PROVE  HasInHand(p)'
BY OpDone DEF HasInHand, Fires, At, Firing

LEMMA HandNext ==
    ASSUME TypeOK, AtHand, [Next]_vars
    PROVE  AtHand'
<1>1. ASSUME NEW q \in Procs, op'[q] = op[q] PROVE HasInHand(q)'
  <2>1. HasInHand(q)
    BY DEF AtHand
  <2>2. Fires(q) => Row(q)'.recurring = Row(q).recurring
    BY <1>1, OthersAtHand, SubjectAtHand, KindKept DEF Row
  <2> QED
    BY <1>1, <2>1, <2>2, OthersAtHand DEF HasInHand
<1>2. ASSUME NEW p \in Procs, Fire(p) PROVE HasInHand(p)'
  <2>1. CASE Acquire(p) \/ ListDue(p) \/ Release(p)
    <3>1. op'[p].phase \in {"idle", "list", "sweep"} /\ op'[p].how = "sweep"
      <4>1. CASE Acquire(p)
        BY <4>1, OpIs DEF Acquire, Idle
      <4>2. CASE ListDue(p)
        <5> DEFINE todo == {<<r, row[r].due>> : r \in {q \in Reminders : Due(row[q])}}
        <5> HIDE DEF todo
        <5>1. op'[p] = [Idle EXCEPT !.phase = "sweep", !.todo = todo]
          BY <4>2, OpIs DEF ListDue, todo
        <5> QED
          BY <5>1 DEF Idle
      <4>3. CASE Release(p)
        BY <4>3, OpIs DEF Release, Idle
      <4> QED
        BY <2>1, <4>1, <4>2, <4>3
    <3> QED
      BY <3>1 DEF HasInHand, Fires, At, Firing
  <2>2. CASE Renew(p)
    <3>1. CASE Holds(p)
      <4>1. PICK next \in op[p].todo :
              Becomes(p, [Idle EXCEPT !.phase = "read", !.todo = op[p].todo \ {next},
                                      !.r = {next[1]}, !.due = next[2], !.since = now])
        BY <2>2, <3>1 DEF Renew
      <4>2. op'[p].phase = "read" /\ op'[p].how = "sweep" /\ op'[p].r = {next[1]}
        BY <4>1 DEF Becomes, Idle, TypeOK
      <4>3. next[1] \in Reminders
        BY OpTyped DEF Ops
      <4> QED
        BY <4>2, <4>3 DEF HasInHand, Fires, At, Firing
    <3>2. CASE ~Holds(p)
      <4>1. op'[p].phase = "sweep" /\ op'[p].how = "sweep"
        BY <2>2, <3>2 DEF Renew, Becomes, Idle, TypeOK
      <4> QED
        BY <4>1 DEF HasInHand, Fires, At, Firing
    <3> QED
      BY <3>1, <3>2
  <2>3. CASE Done(p)
    BY <2>3, HandDone
  <2>4. CASE FireRead(p) \/ Notify(p) \/ Latest(p) \/ After(p) \/ PauseRead(p)
    <3>1. Fires(p) /\ op[p].how = "sweep"
      BY <2>4 DEF FireRead, Notify, Latest, After, PauseRead, At, Fires, Firing, AtHand, HasInHand
    <3>2. \/ Done(p)
          \/ op'[p].phase \in Firing \ {"record"} /\ op'[p].r = op[p].r /\ op'[p].how = op[p].how
      <4> DEFINE stays == op'[p].r = op[p].r /\ op'[p].how = op[p].how
      <4>1. ASSUME NEW phase, Goes(p, phase)
            PROVE  op'[p].phase = phase /\ stays
        <5>1. op'[p] = [op[p] EXCEPT !.phase = phase]
          BY <4>1, OpIs
        <5> QED
          BY <5>1, OpTyped DEF Ops
      <4>2. \A phase, stale :
              Becomes(p, [op[p] EXCEPT !.phase = phase, !.stale = stale])
                => op'[p].phase = phase /\ stays
        BY OpTyped, OpIs DEF Ops
      <4>3. \A phase, seen :
              Becomes(p, [op[p] EXCEPT !.phase = phase, !.seen = seen])
                => op'[p].phase = phase /\ stays
        BY OpTyped, OpIs DEF Ops
      <4> HIDE DEF stays
      <4>4. \/ Done(p)
            \/ op'[p].phase \in {"notify", "settle", "claim", "after", "park"} /\ stays
        <5>1. CASE FireRead(p)
          BY <5>1, <4>1, <4>2 DEF FireRead
        <5>2. CASE Notify(p)
          BY <5>2, <4>1 DEF Notify
        <5>3. CASE Latest(p)
          BY <5>3, <4>1 DEF Latest
        <5>4. CASE After(p)
          BY <5>4, <4>2 DEF After
        <5>5. CASE PauseRead(p)
          BY <5>5, <4>3 DEF PauseRead
        <5> QED
          BY <2>4, <5>1, <5>2, <5>3, <5>4, <5>5
      <4> QED
        BY <4>4 DEF stays, Firing
    <3> QED
      BY <3>1, <3>2, HandGoes, HandDone
  <2>5. CASE ClaimRefused(p) \/ ClaimSettled(p)
    <3>1. Fires(p)
      BY <2>5 DEF ClaimRefused, ClaimSettled, At, Fires, Firing
    <3>2. \/ Done(p)
          \/ op[p].how = "sweep" /\ Goes(p, "latest")
      BY <2>5 DEF ClaimRefused, ClaimSettled, Skipped
    <3>3. \/ Done(p)
          \/ /\ op'[p].phase \in Firing \ {"record"} /\ op'[p].r = op[p].r
             /\ op'[p].how = op[p].how /\ op[p].how = "sweep"
      BY <3>2, OpTyped DEF Goes, TypeOK, Ops, Firing
    <3> QED
      BY <3>1, <3>3, HandGoes, HandDone
  <2>6. CASE Launch(p) \/ Finish(p)
    <3>1. Fires(p) /\ op[p].phase \in {"claim", "run"}
      BY <2>6 DEF Launch, Finish, At, Fires, Firing
    <3>2. /\ op'[p].phase \in {"run", "record"} /\ op'[p].r = op[p].r /\ op'[p].how = op[p].how
          /\ op'[p].stale = op[p].stale
          /\ op'[p].phase = "record" => op'[p].result # "none"
      <4>1. CASE Launch(p)
        <5> DEFINE since == IF op[p].how = "sweep" THEN op[p].since ELSE now
                   attempts == Attempts(p) + 1
        <5> HIDE DEF since, attempts
        <5>1. op'[p] = [op[p] EXCEPT !.phase = "run", !.attempts = attempts, !.since = since]
          BY <4>1, OpIs DEF Launch, since, attempts
        <5> QED
          BY <5>1, OpTyped DEF Ops
      <4>2. CASE Finish(p)
        <5>1. \E result \in {"completed", "failed", "exhausted"} \cup Undecided :
                op'[p] = [op[p] EXCEPT !.phase = "record", !.result = result]
          BY <4>2, OpIs DEF Finish
        <5> QED
          BY <5>1, OpTyped DEF Ops, Undecided
      <4> QED
        BY <2>6, <4>1, <4>2
    <3>3. \E r \in Reminders : op'[p].r = {r}
      BY <3>1, <3>2, SubjectAtHand
    <3>4. op[p].how # "sweep" => ~op'[p].stale
      BY <3>1, <3>2 DEF AtHand, HasInHand
    <3> QED
      BY <3>2, <3>3, <3>4 DEF HasInHand, At
  <2>7. CASE Record(p) \/ RecordFails(p)
    <3>1. Fires(p) /\ op[p].phase = "record"
      BY <2>7 DEF Record, RecordFails, At, Fires, Firing
    <3>2. Done(p) \/ \E result : AfterRun(p, result)
      BY <2>7 DEF Record, RecordFails
    <3>3. PICK result : Done(p) \/ AfterRun(p, result)
      BY <3>2
    <3>4. CASE AfterRun(p, result) /\ op[p].how = "sweep"
      <4>1. op'[p].phase \in {"after", "settle"} /\ op'[p].r = op[p].r /\ op'[p].how = op[p].how
        <5>1. \E phase \in {"after", "settle"} :
                op'[p] = [op[p] EXCEPT !.phase = phase, !.result = result]
          BY <3>4, OpIs DEF AfterRun
        <5> QED
          BY <5>1, OpTyped DEF Ops
      <4> QED
        BY <3>1, <3>4, <4>1, HandGoes DEF Firing
    <3>5. CASE Goes(p, "settle") /\ op[p].how # "sweep" /\ ~Row(p).recurring
      <4>1. op'[p] = [op[p] EXCEPT !.phase = "settle"]
        BY <3>5, OpGoes DEF Firing
      <4>2. op'[p].phase = "settle" /\ op'[p].r = op[p].r /\ op'[p].stale = op[p].stale
        BY <4>1, OpTyped DEF Ops
      <4>3. Subject(p)' = Subject(p) /\ Subject(p) \in Reminders /\ op'[p].r = {Subject(p)}
        BY <3>1, <4>2, SubjectAtHand, SubjectNext
      <4>4. ~Row(p)'.recurring
        BY <3>5, <4>3, KindKept DEF Row
      <4>5. ~op'[p].stale
        BY <3>1, <3>5, <4>2 DEF AtHand, HasInHand
      <4> QED
        BY <4>2, <4>3, <4>4, <4>5 DEF HasInHand, Fires, At, Firing
    <3> QED
      BY <3>3, <3>4, <3>5, HandDone DEF AfterRun
  <2>8. CASE Settle(p)
    <3>1. Fires(p)
      BY <2>8 DEF Settle, At, Fires, Firing
    <3>2. \/ Done(p)
          \/ op[p].stale /\ Goes(p, "pause")
      BY <2>8 DEF Settle
    <3>3. CASE op[p].stale /\ Goes(p, "pause")
      <4>1. op[p].how = "sweep"
        BY <3>1, <3>3 DEF AtHand, HasInHand
      <4>2. op'[p].phase = "pause" /\ op'[p].r = op[p].r /\ op'[p].how = op[p].how
        BY <3>3, OpTyped DEF Goes, TypeOK, Ops
      <4> QED
        BY <3>1, <4>1, <4>2, HandGoes DEF Firing
    <3> QED
      BY <3>2, <3>3, HandDone
  <2>9. CASE Pause(p) \/ SetAside(p)
    BY <2>9, ParksTyped, HandDone
  <2>10. CASE Die(p)
    <3>1. op'[p].phase = "idle"
      BY <2>10 DEF Die, Becomes, Idle, TypeOK
    <3> QED
      BY <3>1 DEF HasInHand, Fires, At, Firing
  <2> QED
    BY <1>2, <2>1, <2>2, <2>4, <2>5, <2>6, <2>7, <2>8, <2>9, <2>10 DEF Fire
<1>3. ASSUME NEW p \in Procs, NEW r \in Reminders, NEW how \in plot.hows[p] \ {"sweep"},
             Exec(p, r, how)
      PROVE  HasInHand(p)'
  <2>1. op'[p].phase = "claim" /\ op'[p].r = {r} /\ ~op'[p].stale
    BY <1>3 DEF Exec, Becomes, Idle, TypeOK
  <2> QED
    BY <2>1 DEF HasInHand, Fires, At, Firing
<1>4. CASE \E p \in Procs : Fire(p)
  BY <1>1, <1>2, <1>4, FireTyped DEF Steps, AtHand
<1>5. CASE \E p \in Procs, r \in Reminders : \E how \in plot.hows[p] \ {"sweep"} : Exec(p, r, how)
  BY <1>1, <1>3, <1>5, ExecStepped DEF Steps, AtHand
<1>6. CASE UNCHANGED op
  BY <1>1, <1>6 DEF AtHand
<1>7. (\E r \in Reminders : ByPeople(r)) \/ Tick \/ UNCHANGED vars => UNCHANGED op
  BY PeopleTyped DEF Tick, vars
<1> QED
  BY <1>4, <1>5, <1>6, <1>7 DEF Next, ByPeople

\* What a process that goes on with a reminder keeps.
SameFiring(p) ==
    /\ Fires(p) /\ op'[p].r = op[p].r /\ op'[p].how = op[p].how /\ op'[p].due = op[p].due
    /\ op'[p].todo = op[p].todo

LEMMA SameOp ==
    ASSUME TypeOK, NEW p \in Procs, Fires(p), NEW phase, NEW x,
           \/ Goes(p, phase)
           \/ Becomes(p, [op[p] EXCEPT !.phase = phase, !.stale = x])
           \/ Becomes(p, [op[p] EXCEPT !.phase = phase, !.seen = x])
           \/ Becomes(p, [op[p] EXCEPT !.phase = phase, !.result = x])
    PROVE  SameFiring(p) /\ op'[p].phase = phase /\ op'[p].since = op[p].since
<1>1. CASE Goes(p, phase)
  <2>1. op'[p] = [op[p] EXCEPT !.phase = phase]
    BY <1>1, OpIs
  <2> QED
    BY <2>1, OpTyped DEF Ops, SameFiring
<1>2. CASE Becomes(p, [op[p] EXCEPT !.phase = phase, !.stale = x])
  <2>1. op'[p] = [op[p] EXCEPT !.phase = phase, !.stale = x]
    BY <1>2, OpIs
  <2> QED
    BY <2>1, OpTyped DEF Ops, SameFiring
<1>3. CASE Becomes(p, [op[p] EXCEPT !.phase = phase, !.seen = x])
  <2>1. op'[p] = [op[p] EXCEPT !.phase = phase, !.seen = x]
    BY <1>3, OpIs
  <2> QED
    BY <2>1, OpTyped DEF Ops, SameFiring
<1>4. CASE Becomes(p, [op[p] EXCEPT !.phase = phase, !.result = x])
  <2>1. op'[p] = [op[p] EXCEPT !.phase = phase, !.result = x]
    BY <1>4, OpIs
  <2> QED
    BY <2>1, OpTyped DEF Ops, SameFiring
<1> QED
  BY <1>1, <1>2, <1>3, <1>4

\* Which step leads to which phase.
GoesOn(p) ==
    /\ SameFiring(p)
    /\ op'[p].since # op[p].since =>
         Launch(p) /\ op[p].how # "sweep" /\ op'[p].since = now
    /\ op'[p].phase \in {"notify", "claim", "run", "record", "latest", "after", "settle",
                         "pause", "park"}
    /\ op'[p].phase = "notify" => FireRead(p)
    /\ op'[p].phase = "claim" => Notify(p) /\ Current(p)
    /\ op'[p].phase = "run" => Launch(p)
    /\ op'[p].phase = "record" => Finish(p)
    /\ op'[p].phase = "latest" => ClaimRefused(p) \/ ClaimSettled(p)
    /\ op'[p].phase = "after" =>
         \/ Notify(p) /\ Current(p)
         \/ Latest(p) \/ Record(p) \/ RecordFails(p)
    /\ op'[p].phase = "settle" =>
         \/ FireRead(p) /\ Row(p).act.status \in Undecided
         \/ After(p) \/ Record(p) \/ RecordFails(p)

\* The sweep takes up a reminder of its list.
TakesUp(p) ==
    /\ Renew(p) /\ lock' = [by |-> p, until |-> now + 1]
    /\ op'[p].phase = "read" /\ op'[p].how = "sweep" /\ op'[p].since = now
    /\ \E next \in op[p].todo : op'[p].r = {next[1]} /\ op'[p].due = next[2]
    /\ op'[p].todo \subseteq op[p].todo

LEMMA RenewOn ==
    ASSUME TypeOK, NEW p \in Procs, Renew(p)
    PROVE  /\ TakesUp(p) \/ (op'[p].phase = "sweep" /\ op'[p].todo = {})
           /\ Fires(p)' => TakesUp(p)
<1>1. CASE Holds(p)
  <2>1. PICK next \in op[p].todo :
          Becomes(p, [Idle EXCEPT !.phase = "read", !.todo = op[p].todo \ {next},
                                  !.r = {next[1]}, !.due = next[2], !.since = now])
    BY <1>1 DEF Renew
  <2>2. lock' = [by |-> p, until |-> now + 1]
    BY <1>1 DEF Renew
  <2> DEFINE todo == op[p].todo \ {next}
             r == {next[1]}
             due == next[2]
  <2> HIDE DEF todo, r, due
  <2>3. op'[p] = [Idle EXCEPT !.phase = "read", !.todo = todo, !.r = r, !.due = due, !.since = now]
    BY <2>1, OpIs DEF todo, r, due
  <2>4. /\ op'[p].phase = "read" /\ op'[p].how = "sweep" /\ op'[p].since = now
        /\ op'[p].r = r /\ op'[p].due = due /\ op'[p].todo = todo
    BY <2>3 DEF Idle
  <2>5. TakesUp(p)
    BY <2>2, <2>4 DEF TakesUp, todo, r, due
  <2> QED
    BY <2>5
<1>2. CASE ~Holds(p)
  <2>1. op'[p] = [Idle EXCEPT !.phase = "sweep"]
    BY <1>2, OpIs DEF Renew
  <2>2. op'[p].phase = "sweep" /\ op'[p].todo = {}
    BY <2>1 DEF Idle
  <2> QED
    BY <2>2 DEF Fires, Firing
<1> QED
  BY <1>1, <1>2

LEMMA LaunchOn ==
    ASSUME TypeOK, NEW p \in Procs, Launch(p)
    PROVE  /\ SameFiring(p) /\ op'[p].phase = "run"
           /\ op'[p].since = IF op[p].how = "sweep" THEN op[p].since ELSE now
<1> DEFINE since == IF op[p].how = "sweep" THEN op[p].since ELSE now
           attempts == Attempts(p) + 1
<1> HIDE DEF since, attempts
<1>1. op'[p] = [op[p] EXCEPT !.phase = "run", !.attempts = attempts, !.since = since]
  BY OpIs DEF Launch, since, attempts
<1>2. Fires(p)
  BY DEF Launch, At, Fires, Firing
<1>3. SameFiring(p) /\ op'[p].phase = "run" /\ op'[p].since = since
  BY <1>1, <1>2, OpTyped DEF Ops, SameFiring
<1> QED
  BY <1>3 DEF since

LEMMA FinishOn ==
    ASSUME TypeOK, NEW p \in Procs, Finish(p)
    PROVE  \E result \in {"completed", "failed", "exhausted"} \cup Undecided :
             /\ SameFiring(p) /\ op'[p].phase = "record" /\ op'[p].since = op[p].since
             /\ op'[p].result = result
             /\ sent' = IF result \in Delivered THEN Submitted(p) ELSE sent
<1>1. PICK result \in {"completed", "failed", "exhausted"} \cup Undecided :
        /\ Becomes(p, [op[p] EXCEPT !.phase = "record", !.result = result])
        /\ sent' = IF result \in Delivered THEN Submitted(p) ELSE sent
  BY DEF Finish
<1>2. Fires(p)
  BY DEF Finish, At, Fires, Firing
<1>3. op'[p] = [op[p] EXCEPT !.phase = "record", !.result = result]
  BY <1>1, OpIs
<1>4. op'[p].result = result
  BY <1>3, OpTyped DEF Ops
<1> QED
  BY <1>1, <1>2, <1>4, SameOp

LEMMA RecordOn ==
    ASSUME TypeOK, NEW p \in Procs, Fires(p), NEW result, AfterRun(p, result), Fires(p)'
    PROVE  /\ SameFiring(p) /\ op'[p].since = op[p].since
           /\ op'[p].phase \in {"after", "settle"}
<1>1. ~Done(p)
  BY OpDone DEF Fires
<1> QED
  BY <1>1, SameOp DEF AfterRun

LEMMA FireOn ==
    ASSUME TypeOK, AtHand, NEW p \in Procs, Fire(p), Fires(p)'
    PROVE  GoesOn(p) \/ TakesUp(p)
<1>1. ~Done(p) /\ ~Becomes(p, Idle)
  BY OpDone, OpIs DEF Fires, Idle, Firing
<1>2. ~Acquire(p) /\ ~ListDue(p) /\ ~Release(p) /\ ~Pause(p) /\ ~SetAside(p) /\ ~Die(p)
  <2>1. ~Acquire(p)
    BY OpIs DEF Acquire, Idle, Fires, Firing
  <2>2. ~ListDue(p)
    <3>1. ASSUME NEW todo, op'[p] = [Idle EXCEPT !.phase = "sweep", !.todo = todo] PROVE FALSE
      BY <3>1 DEF Idle, Fires, Firing
    <3> QED
      BY <3>1, OpIs DEF ListDue
  <2> QED
    BY <1>1, <2>1, <2>2, ParksTyped DEF Release, Die
<1>3. CASE Renew(p)
  BY <1>3, RenewOn
<1>4. CASE FireRead(p)
  <2>1. Fires(p)
    BY <1>4 DEF FireRead, At, Fires, Firing
  <2>2. /\ SameFiring(p) /\ op'[p].since = op[p].since
        /\ \/ op'[p].phase = "notify"
           \/ op'[p].phase = "settle" /\ Row(p).act.status \in Undecided
    BY <1>1, <1>4, <2>1, SameOp DEF FireRead
  <2> QED
    BY <1>4, <2>2 DEF GoesOn
<1>5. CASE Notify(p)
  <2>1. Fires(p)
    BY <1>5 DEF Notify, At, Fires, Firing
  <2>2. /\ SameFiring(p) /\ op'[p].since = op[p].since /\ Current(p)
        /\ op'[p].phase \in {"after", "claim"}
    BY <1>1, <1>5, <2>1, SameOp DEF Notify
  <2> QED
    BY <1>5, <2>2 DEF GoesOn
<1>6. CASE ClaimRefused(p) \/ ClaimSettled(p)
  <2>1. Fires(p)
    BY <1>6 DEF ClaimRefused, ClaimSettled, At, Fires, Firing
  <2>2. SameFiring(p) /\ op'[p].since = op[p].since /\ op'[p].phase = "latest"
    BY <1>1, <1>6, <2>1, SameOp DEF ClaimRefused, ClaimSettled, Skipped
  <2> QED
    BY <1>6, <2>2 DEF GoesOn
<1>7. CASE Launch(p)
  BY <1>7, LaunchOn DEF GoesOn
<1>8. CASE Finish(p)
  BY <1>8, FinishOn DEF GoesOn
<1>9. CASE Record(p) \/ RecordFails(p)
  <2>1. Fires(p)
    BY <1>9 DEF Record, RecordFails, At, Fires, Firing
  <2>2. \E result : AfterRun(p, result)
    BY <1>1, <1>9 DEF Record, RecordFails
  <2>3. /\ SameFiring(p) /\ op'[p].since = op[p].since
        /\ op'[p].phase \in {"after", "settle"}
    BY <2>1, <2>2, RecordOn
  <2> QED
    BY <1>9, <2>3 DEF GoesOn
<1>10. CASE Latest(p)
  <2>1. Fires(p)
    BY <1>10 DEF Latest, At, Fires, Firing
  <2>2. SameFiring(p) /\ op'[p].since = op[p].since /\ op'[p].phase = "after"
    BY <1>1, <1>10, <2>1, SameOp DEF Latest
  <2> QED
    BY <1>10, <2>2 DEF GoesOn
<1>11. CASE After(p)
  <2>1. Fires(p)
    BY <1>11 DEF After, At, Fires, Firing
  <2>2. SameFiring(p) /\ op'[p].since = op[p].since /\ op'[p].phase = "settle"
    BY <1>11, <2>1, SameOp DEF After
  <2> QED
    BY <1>11, <2>2 DEF GoesOn
<1>12. CASE Settle(p)
  <2>1. Fires(p)
    BY <1>12 DEF Settle, At, Fires, Firing
  <2>2. SameFiring(p) /\ op'[p].since = op[p].since /\ op'[p].phase = "pause"
    BY <1>1, <1>12, <2>1, SameOp DEF Settle
  <2> QED
    BY <1>12, <2>2 DEF GoesOn
<1>13. CASE PauseRead(p)
  <2>1. Fires(p)
    BY <1>13 DEF PauseRead, At, Fires, Firing
  <2>2. SameFiring(p) /\ op'[p].since = op[p].since /\ op'[p].phase = "park"
    BY <1>13, <2>1, SameOp DEF PauseRead
  <2> QED
    BY <1>13, <2>2 DEF GoesOn
<1> QED
  BY <1>2, <1>3, <1>4, <1>5, <1>6, <1>7, <1>8, <1>9, <1>10, <1>11, <1>12, <1>13 DEF Fire

LEMMA ExecOn ==
    ASSUME TypeOK, NEW p \in Procs, NEW r \in Reminders, NEW how \in plot.hows[p] \ {"sweep"},
           Exec(p, r, how)
    PROVE  /\ op'[p].phase = "claim" /\ op'[p].how = how /\ op'[p].r = {r}
           /\ op'[p].due = row[r].due /\ op'[p].since = now /\ op'[p].todo = {}
           /\ UNCHANGED <<plot, now, row, lock, faults, history>>
<1> DEFINE due == row[r].due
<1> HIDE DEF due
<1>1. op'[p] = [Idle EXCEPT !.phase = "claim", !.how = how, !.r = {r}, !.due = due, !.since = now]
  BY OpIs DEF Exec, due
<1>2. /\ op'[p].phase = "claim" /\ op'[p].how = how /\ op'[p].r = {r}
      /\ op'[p].due = due /\ op'[p].since = now /\ op'[p].todo = {}
  BY <1>1 DEF Idle
<1> QED
  BY <1>2 DEF Exec, due

\* What a step of one process may do to the lease.
LEMMA LockKept ==
    ASSUME TypeOK, AtHand, NEW p \in Procs, Fire(p)
    PROVE  \/ lock' = lock
           \/ LeaseFree /\ ~Fires(p)
           \/ lock.by = p /\ ~Fires(p)
<1>1. CASE Acquire(p) \/ Renew(p) \/ Release(p)
  BY <1>1 DEF Acquire, Renew, Release, Holds, At, Fires, Firing
<1>2. CASE ListDue(p)
  BY <1>2 DEF ListDue
<1>3. CASE ClaimSettled(p) \/ Launch(p) \/ Record(p) \/ Settle(p)
  BY <1>3 DEF ClaimSettled, Launch, Record, Settle
<1>4. CASE Pause(p) \/ SetAside(p)
  BY <1>4, ParksTyped
<1> QED
  BY <1>1, <1>2, <1>3, <1>4, LooksTyped DEF Fire, Looks

LEMMA LeaseNext ==
    ASSUME TypeOK, AtHand, Leased, [Next]_vars
    PROVE  Leased'
<1> DEFINE Good(q) == lock = [by |-> q, until |-> op[q].since + 1]
                      /\ op[q].since <= now /\ now <= op[q].since + 1
<1>1. ASSUME NEW p \in Procs, Fire(p), NEW q \in Procs, Sweeps(q)' PROVE Good(q)'
  <2>1. now' = now /\ Steps(p)
    BY <1>1, FireTyped
  <2>2. CASE q # p
    <3>1. op'[q] = op[q] /\ Sweeps(q)
      BY <1>1, <2>1, <2>2, OthersAtHand DEF Steps
    <3>2. Good(q)
      BY <3>1 DEF Leased
    <3>3. lock.by # p /\ ~LeaseFree
      BY <2>2, <3>2, ProcsAssumption, OpTyped DEF LeaseFree, Ops, TypeOK
    <3> QED
      BY <1>1, <2>1, <3>1, <3>2, <3>3, LockKept
  <2>3. CASE q = p /\ GoesOn(p)
    <3>1. Sweeps(p) /\ op'[p].since = op[p].since
      BY <1>1, <2>3 DEF GoesOn, SameFiring, Sweeps
    <3>2. lock' = lock
      BY <1>1, <3>1, LockKept DEF Sweeps, Leased, LeaseFree
    <3> QED
      BY <2>1, <2>3, <3>1, <3>2 DEF Leased
  <2>4. CASE q = p /\ TakesUp(p)
    BY <2>1, <2>4 DEF TakesUp, TypeOK
  <2> QED
    BY <1>1, <2>2, <2>3, <2>4, FireOn DEF Sweeps
<1>2. ASSUME NEW p \in Procs, NEW r \in Reminders, NEW how \in plot.hows[p] \ {"sweep"},
             Exec(p, r, how), NEW q \in Procs, Sweeps(q)'
      PROVE  Good(q)'
  <2>1. q # p
    BY <1>2, ExecOn DEF Sweeps
  <2>2. op'[q] = op[q] /\ Sweeps(q) /\ UNCHANGED <<now, lock>>
    BY <1>2, <2>1, ExecOn, ExecStepped, OthersAtHand DEF Steps
  <2> QED
    BY <2>2 DEF Leased
<1>3. ASSUME NEW r \in Reminders, ByPeople(r), NEW q \in Procs, Sweeps(q)' PROVE Good(q)'
  <2>1. UNCHANGED <<now, lock, op>>
    BY <1>3, PeopleTyped
  <2> QED
    BY <1>3, <2>1 DEF Leased, Sweeps, Fires
<1>4. ASSUME Tick, NEW q \in Procs, Sweeps(q)' PROVE Good(q)'
  <2>1. UNCHANGED <<lock, op>> /\ now' = now + 1 /\ InBudget(q)
    BY <1>4 DEF Tick
  <2>2. Sweeps(q) /\ op[q].since = now
    BY <1>4, <2>1 DEF Sweeps, Fires, InBudget
  <2> QED
    BY <2>1, <2>2 DEF Leased, TypeOK
<1>5. ASSUME UNCHANGED vars, NEW q \in Procs, Sweeps(q)' PROVE Good(q)'
  BY <1>5 DEF Leased, Sweeps, Fires, vars
<1> QED
  BY <1>1, <1>2, <1>3, <1>4, <1>5 DEF Next, ByPeople, Leased

LEMMA BudgetNext ==
    ASSUME TypeOK, AtHand, Leased, Budgeted, [Next]_vars
    PROVE  Budgeted'
<1> DEFINE Good(q) == op[q].since <= now /\ now <= op[q].since + 1
<1>1. ASSUME NEW p \in Procs, Fire(p), NEW q \in Procs, Runs(q)' PROVE Good(q)'
  <2>1. now' = now /\ Steps(p)
    BY <1>1, FireTyped
  <2>2. CASE q # p
    <3>1. op'[q] = op[q] /\ Runs(q)
      BY <1>1, <2>1, <2>2, OthersAtHand DEF Steps
    <3> QED
      BY <2>1, <3>1 DEF Budgeted
  <2>3. CASE q = p
    <3>1. GoesOn(p)
      BY <1>1, <2>3, FireOn DEF Runs, Fires, Firing, TakesUp
    <3>2. CASE Launch(p)
      <4>1. op[p].how # "sweep" => op'[p].since = now
        BY <3>2, LaunchOn
      <4>2. op[p].how = "sweep" => Sweeps(p) /\ op'[p].since = op[p].since
        BY <3>1, <3>2, LaunchOn DEF GoesOn, SameFiring, Sweeps
      <4> QED
        BY <2>1, <2>3, <4>1, <4>2 DEF Leased, TypeOK
    <3>3. CASE ~Launch(p)
      <4>1. Finish(p) /\ op'[p].since = op[p].since
        BY <1>1, <2>3, <3>1, <3>3 DEF GoesOn, Runs
      <4>2. Runs(p)
        BY <4>1 DEF Finish, At, Runs
      <4> QED
        BY <2>1, <2>3, <4>1, <4>2 DEF Budgeted
    <3> QED
      BY <3>2, <3>3
  <2> QED
    BY <2>2, <2>3
<1>2. ASSUME NEW p \in Procs, NEW r \in Reminders, NEW how \in plot.hows[p] \ {"sweep"},
             Exec(p, r, how), NEW q \in Procs, Runs(q)'
      PROVE  Good(q)'
  <2>1. q # p
    BY <1>2, ExecOn DEF Runs
  <2>2. op'[q] = op[q] /\ Runs(q) /\ UNCHANGED <<now, lock>>
    BY <1>2, <2>1, ExecOn, ExecStepped, OthersAtHand DEF Steps
  <2> QED
    BY <2>2 DEF Budgeted
<1>3. ASSUME NEW r \in Reminders, ByPeople(r), NEW q \in Procs, Runs(q)' PROVE Good(q)'
  <2>1. UNCHANGED <<now, lock, op>>
    BY <1>3, PeopleTyped
  <2> QED
    BY <1>3, <2>1 DEF Budgeted, Runs
<1>4. ASSUME Tick, NEW q \in Procs, Runs(q)' PROVE Good(q)'
  <2>1. UNCHANGED <<lock, op>> /\ now' = now + 1 /\ InBudget(q)
    BY <1>4 DEF Tick
  <2>2. Runs(q) /\ op[q].since = now
    BY <1>4, <2>1 DEF Runs, Firing, InBudget
  <2> QED
    BY <2>1, <2>2 DEF Budgeted, TypeOK
<1>5. ASSUME UNCHANGED vars, NEW q \in Procs, Runs(q)' PROVE Good(q)'
  BY <1>5 DEF Budgeted, Runs, vars
<1> QED
  BY <1>1, <1>2, <1>3, <1>4, <1>5 DEF Next, ByPeople, Budgeted

\* The steps that write the action of the reminder at hand.
Writes(p) ==
    \/ ClaimSettled(p) \/ Launch(p) \/ Record(p) \/ Pause(p) \/ SetAside(p)

LEMMA WritesOne ==
    ASSUME TypeOK, AtHand, NEW p \in Procs, Writes(p)
    PROVE  /\ Fires(p) /\ Subject(p) \in Reminders
           /\ \A r \in Reminders : r # Subject(p) =>
                /\ row'[r] = row[r] /\ tries'[r] = tries[r] /\ (r \in parked' <=> r \in parked)
                /\ (r \in sent' <=> r \in sent)
           /\ notified' = notified
<1>1. Fires(p)
  BY DEF Writes, ClaimSettled, Launch, Record, Pause, SetAside, At, Fires, Firing
<1>2. Subject(p) \in Reminders /\ row \in [Reminders -> Rows] /\ tries \in [Reminders -> Nat]
  BY <1>1, SubjectTyped DEF TypeOK
<1>3. CASE ClaimSettled(p)
  BY <1>1, <1>2, <1>3 DEF ClaimSettled, Set, history
<1>4. CASE Launch(p)
  BY <1>1, <1>2, <1>4 DEF Launch, Set
<1>5. CASE Record(p)
  BY <1>1, <1>2, <1>5 DEF Record, Set
<1>6. CASE Pause(p) \/ SetAside(p)
  BY <1>1, <1>2, <1>6, ParksTyped DEF Set
<1> QED
  BY <1>3, <1>4, <1>5, <1>6 DEF Writes

\* What a step may do to one row.
LEMMA RowMoves ==
    ASSUME TypeOK, AtHand, [Next]_vars, NEW r \in Reminders
    PROVE  \/ /\ row'[r].act = row[r].act /\ row'[r].due = row[r].due /\ tries'[r] = tries[r]
              /\ r \in parked' <=> r \in parked
           \/ Advance(r) /\ parked' = parked
           \/ \E p \in Procs : Writes(p) /\ Fires(p) /\ Subject(p) = r
<1> DEFINE Kept0 == /\ row'[r].act = row[r].act /\ row'[r].due = row[r].due
                    /\ tries'[r] = tries[r]
                    /\ r \in parked' <=> r \in parked
           Goal == Kept0 \/ (Advance(r) /\ parked' = parked)
                   \/ \E p \in Procs : Writes(p) /\ Fires(p) /\ Subject(p) = r
<1>0. row \in [Reminders -> Rows] /\ row[r] \in Rows
  BY RowTyped DEF TypeOK
<1>1. ASSUME NEW q \in Reminders, UNCHANGED history,
             \/ \E s : Set(q, [row[q] EXCEPT !.status = s])
             \/ SnoozedFor(q)
      PROVE  Kept0
  <2>1. CASE r = q
    <3>1. ASSUME NEW s, row'[r] = [row[r] EXCEPT !.status = s] PROVE Kept0
      BY <1>0, <1>1, <3>1 DEF Rows, history
    <3>2. ASSUME row'[r] = [row[r] EXCEPT !.status = "snoozed", !.snooze = now + 1] PROVE Kept0
      BY <1>0, <1>1, <3>2 DEF Rows, history
    <3> QED
      BY <1>0, <1>1, <2>1, <3>1, <3>2 DEF Set, SnoozedFor
  <2>2. CASE r # q
    <3>1. row'[r] = row[r]
      BY <1>0, <1>1, <2>2 DEF Set, SnoozedFor
    <3> QED
      BY <1>1, <3>1 DEF history
  <2> QED
    BY <2>1, <2>2
<1>2. ASSUME NEW q \in Reminders, Advance(q), UNCHANGED parked PROVE Goal
  BY <1>2, Advanced
<1>3. ASSUME NEW p \in Procs, Fire(p) PROVE Goal
  <2>1. CASE Looks(p)
    BY <2>1, LooksTyped
  <2>2. CASE Writes(p)
    BY <2>2, WritesOne
  <2>3. CASE Settle(p)
    <3>1. Subject(p) \in Reminders
      BY <2>3, SubjectTyped DEF Settle, At, Fires, Firing
    <3> QED
      BY <1>1, <1>2, <2>3, <3>1 DEF Settle, Row, history
  <2> QED
    BY <1>3, <2>1, <2>2, <2>3 DEF Fire, Looks, Writes
<1>4. ASSUME NEW q \in Reminders, ByPeople(q) PROVE Goal
  BY <1>1, <1>2, <1>4, PeopleTyped
<1>5. CASE \/ \E p \in Procs, q \in Reminders : \E how \in plot.hows[p] \ {"sweep"} : Exec(p, q, how)
           \/ Tick \/ UNCHANGED vars
  BY <1>5 DEF Exec, Tick, vars, history
<1> QED
  BY <1>3, <1>4, <1>5 DEF Next, ByPeople

\* What each of the writes makes of the action.
LEMMA ActWritten ==
    ASSUME TypeOK, NEW r \in Reminders, NEW a, Set(r, [row[r] EXCEPT !.act = a])
    PROVE  /\ row'[r].act = a /\ row'[r].due = row[r].due /\ row'[r].wake = row[r].wake
           /\ row'[r].status = row[r].status /\ row'[r].snooze = row[r].snooze
<1> DEFINE y == row[r]
<1>1. y \in Rows /\ row \in [Reminders -> Rows]
  BY RowTyped DEF TypeOK
<1> HIDE DEF y
<1>2. /\ [y EXCEPT !.act = a].act = a /\ [y EXCEPT !.act = a].due = y.due
      /\ [y EXCEPT !.act = a].wake = y.wake /\ [y EXCEPT !.act = a].status = y.status
      /\ [y EXCEPT !.act = a].snooze = y.snooze
  BY <1>1 DEF Rows
<1>3. row'[r] = [y EXCEPT !.act = a]
  BY <1>1 DEF Set, y
<1> QED
  BY <1>2, <1>3 DEF y

LEMMA SettledAct ==
    ASSUME TypeOK, AtHand, NEW p \in Procs, ClaimSettled(p),
           NEW r \in Reminders, r = Subject(p)
    PROVE  /\ row'[r].due = row[r].due /\ row'[r].wake = row[r].wake
           /\ row'[r].act.claim = row[r].act.claim
           /\ \/ /\ Orphaned(row[r]) /\ row'[r].act.status = "unknown"
                 /\ row'[r].act.attempts = row[r].act.attempts
                 /\ row'[r].act.occurrence = row[r].act.occurrence
              \/ /\ ~Orphaned(row[r]) /\ UsedUp(p) /\ row'[r].act.status = "exhausted"
                 /\ row'[r].act.attempts = Attempts(p)
                 /\ row'[r].act.occurrence = row[r].due
<1> DEFINE y == row[r].act
<1>1. Row(p) = row[r] /\ y \in Acts /\ row[r] \in Rows
  BY RowTyped DEF Row
<1>2. CASE Orphaned(row[r])
  <2> DEFINE a == [y EXCEPT !.status = "unknown"]
  <2>1. Set(r, [row[r] EXCEPT !.act = a])
    BY <1>1, <1>2 DEF ClaimSettled, Rows
  <2>2. /\ a.status = "unknown" /\ a.attempts = y.attempts /\ a.occurrence = y.occurrence
        /\ a.claim = y.claim
    BY <1>1 DEF Acts
  <2> HIDE DEF a
  <2> QED
    BY <1>2, <2>1, <2>2, ActWritten
<1>3. CASE ~Orphaned(row[r])
  <2> DEFINE n == Attempts(p)
             due == row[r].due
             a == [y EXCEPT !.status = "exhausted", !.attempts = n, !.occurrence = due]
  <2>1. Set(r, [row[r] EXCEPT !.act = a]) /\ UsedUp(p)
    BY <1>1, <1>3 DEF ClaimSettled, Rows
  <2> HIDE DEF n, due
  <2>2. a.status = "exhausted" /\ a.attempts = n /\ a.occurrence = due /\ a.claim = y.claim
    BY <1>1 DEF Acts
  <2> HIDE DEF a
  <2> QED
    BY <1>3, <2>1, <2>2, ActWritten DEF n, due
<1> QED
  BY <1>2, <1>3

LEMMA LaunchedAct ==
    ASSUME TypeOK, AtHand, NEW p \in Procs, Launch(p), NEW r \in Reminders, r = Subject(p)
    PROVE  /\ row'[r].due = row[r].due /\ row'[r].wake = row[r].wake
           /\ row'[r].act.status = "running" /\ row'[r].act.attempts = Attempts(p) + 1
           /\ row'[r].act.occurrence = row[r].due /\ row'[r].act.claim = p
           /\ row'[r].act.at = now
           /\ tries'[r] = IF Manual(p) THEN 1 ELSE tries[r] + 1
           /\ UNCHANGED <<notified, sent, parked>>
<1> DEFINE a == [status |-> "running", attempts |-> Attempts(p) + 1, occurrence |-> row[r].due,
                 claim |-> p, at |-> now]
<1>1. Row(p) = row[r] /\ tries \in [Reminders -> Nat]
  BY DEF Row, TypeOK
<1>2. /\ Set(r, [row[r] EXCEPT !.act = a])
      /\ tries' = [tries EXCEPT ![r] = IF Manual(p) THEN 1 ELSE @ + 1]
      /\ UNCHANGED <<notified, sent, parked>>
  BY <1>1 DEF Launch
<1> HIDE DEF a
<1>3. row'[r].act = a /\ row'[r].due = row[r].due /\ row'[r].wake = row[r].wake
  BY <1>2, ActWritten
<1> QED
  BY <1>1, <1>2, <1>3 DEF a

LEMMA RecordedAct ==
    ASSUME TypeOK, AtHand, NEW p \in Procs, Record(p), NEW r \in Reminders, r = Subject(p)
    PROVE  /\ row'[r].due = row[r].due /\ row'[r].wake = row[r].wake
           /\ UNCHANGED <<tries, notified, parked>>
           /\ \/ /\ Belongs(p) /\ row'[r].act.status = op[p].result /\ row'[r].act.claim = NoProc
                 /\ row'[r].act.attempts = row[r].act.attempts
                 /\ row'[r].act.occurrence = row[r].act.occurrence
                 /\ sent' = IF op[p].result = "completed" THEN sent \cup {r} ELSE sent
                 /\ AfterRun(p, op[p].result)
              \/ /\ ~Belongs(p) /\ row'[r].act = row[r].act /\ sent' = sent /\ Done(p)
              \/ /\ ~Belongs(p) /\ row'[r].act = Pending /\ sent' = sent /\ Done(p)
                 /\ row[r].act.claim = p /\ row[r].act.status = "running"
                 /\ row[r].act.occurrence = op[p].due
<1> DEFINE y == row[r].act
<1>1. Row(p) = row[r] /\ y \in Acts
  BY RowTyped DEF Row
<1>2. CASE Belongs(p)
  <2> DEFINE result == op[p].result
             a == [y EXCEPT !.status = result, !.claim = NoProc, !.at = 0]
  <2>1. Set(r, [row[r] EXCEPT !.act = a])
    BY <1>1, <1>2 DEF Record
  <2> HIDE DEF result
  <2>2. /\ a.status = result /\ a.attempts = y.attempts /\ a.occurrence = y.occurrence
        /\ a.claim = NoProc
    BY <1>1 DEF Acts
  <2> HIDE DEF a
  <2>3. /\ row'[r].due = row[r].due /\ row'[r].wake = row[r].wake /\ row'[r].act = a
    BY <2>1, ActWritten
  <2>4. /\ UNCHANGED <<tries, notified, parked>>
        /\ sent' = IF op[p].result = "completed" THEN sent \cup {r} ELSE sent
        /\ AfterRun(p, op[p].result)
    BY <1>2 DEF Record
  <2> QED
    BY <1>2, <2>2, <2>3, <2>4 DEF result
<1>3. CASE ~Belongs(p)
  <2>1. /\ UNCHANGED <<tries, notified, parked>> /\ sent' = sent /\ Done(p)
        /\ \/ /\ Set(r, [row[r] EXCEPT !.act = Pending])
              /\ y.claim = p /\ y.status = "running" /\ y.occurrence = op[p].due
           \/ row' = row
    BY <1>1, <1>3 DEF Record
  <2> QED
    BY <1>3, <2>1, ActWritten
<1> QED
  BY <1>2, <1>3

LEMMA ParkedAct ==
    ASSUME TypeOK, AtHand, NEW p \in Procs, Pause(p) \/ SetAside(p),
           NEW r \in Reminders, r = Subject(p)
    PROVE  /\ row'[r].due = row[r].due /\ row'[r].wake = row[r].wake
           /\ row'[r].act.status = "paused"
           /\ UNCHANGED <<tries, notified, sent>>
           /\ r \notin parked' =>
                r \notin parked /\ row[r].act.status \notin Delivered \cup {"running"}
BY ParksTyped, ActWritten DEF Row

\* A run is not stale while it is within its budget.
LEMMA NotTakenOver ==
    ASSUME TypeOK, AtHand, Budgeted, Claimed, NEW p \in Procs, NEW q \in Procs, Runs(q), Fires(p),
           Subject(p) = Subject(q), Claimable(p)
    PROVE  ~(Row(q).act.status = "running" /\ Row(q).act.claim = q)
<1>1. Fires(q)
  BY DEF Runs, Fires, Firing
<1>2. Row(q) = Row(p) /\ Row(q).act \in Acts /\ Row(q).act.at \in Nat
  BY <1>1, SubjectTyped DEF Row, Acts
<1>3. op[q].since \in Nat /\ now \in Nat
  BY OpTyped DEF Ops, TypeOK
<1> QED
  BY <1>2, <1>3 DEF Claimed, Budgeted, Claimable, Stale

LEMMA ClaimNext ==
    ASSUME TypeOK, AtHand, Leased, Budgeted, Claimed, [Next]_vars
    PROVE  Claimed'
<1> DEFINE Good(q) ==
             /\ Subject(q) \notin parked => Row(q).act.status = "running" /\ Row(q).act.claim = q
             /\ Row(q).act.claim = q =>
                  /\ Row(q).act.status \notin Undecided
                  /\ Row(q).act.status = "running" => op[q].since <= Row(q).act.at
<1>1. ASSUME NEW q \in Procs, op'[q] = op[q], Runs(q)' PROVE Good(q)'
  <2> DEFINE r == Subject(q)
  <2>1. /\ Runs(q) /\ Fires(q) /\ r \in Reminders /\ Subject(q)' = r /\ Row(q)' = row'[r]
        /\ Row(q) = row[r] /\ row[r].act \in Acts
    BY <1>1, OthersAtHand, SubjectTyped DEF Runs, Fires, Firing
  <2>2. Good(q)
    BY <2>1 DEF Claimed
  <2> HIDE DEF r
  <2>3. CASE /\ row'[r].act = row[r].act
             /\ r \in parked' <=> r \in parked
    BY <1>1, <2>1, <2>2, <2>3 DEF r
  <2>4. CASE Advance(r) /\ parked' = parked
    <3>1. row'[r].act = ActAdvanced(row[r].act)
      BY <2>1, <2>4, Advanced
    <3> QED
      BY <1>1, <2>1, <2>2, <2>4, <3>1, ActRenewedByAdvance DEF r, Undecided
  <2>5. ASSUME NEW p \in Procs, Writes(p), Fires(p), Subject(p) = r PROVE Good(q)'
    <3>1. Row(p) = row[r] /\ row \in [Reminders -> Rows] /\ row[r] \in Rows
      BY <2>1, <2>5, RowTyped DEF Row, TypeOK
    <3>2. CASE ClaimSettled(p)
      <4>1. ~(row[r].act.status = "running" /\ row[r].act.claim = q)
        BY <2>1, <2>5, <3>2, NotTakenOver DEF ClaimSettled, r
      <4>2. r \in parked /\ parked' = parked
        BY <2>1, <2>2, <3>2, <4>1 DEF ClaimSettled, history, r
      <4>3. \/ Orphaned(row[r]) /\ row'[r].act.claim = row[r].act.claim
            \/ row'[r].act.status = "exhausted"
        BY <2>1, <2>5, <3>2, SettledAct
      <4> QED
        BY <2>1, <4>1, <4>2, <4>3 DEF Orphaned, Undecided
    <3>3. CASE Launch(p)
      <4>1. p # q
        BY <1>1, <2>1, <3>3, LaunchOn DEF Launch, At, Runs
      <4>2. ~(row[r].act.status = "running" /\ row[r].act.claim = q)
        BY <2>1, <2>5, <3>3, NotTakenOver DEF Launch, r
      <4>3. r \in parked /\ parked' = parked
        BY <2>1, <2>2, <3>3, <4>2 DEF Launch, r
      <4>4. row'[r].act.claim = p
        BY <2>1, <2>5, <3>3, LaunchedAct
      <4> QED
        BY <2>1, <4>1, <4>3, <4>4
    <3>4. CASE Record(p)
      <4>1. p # q
        <5>1. op'[p] # op[p]
          BY <2>5, <3>4, OpDone, SameOp DEF Record, AfterRun, At, Fires, Firing
        <5> QED
          BY <1>1, <5>1
      <4>2. parked' = parked
        BY <3>4 DEF Record
      <4>3. row'[r].act = row[r].act \/ (row[r].act.claim = p /\ row'[r].act.claim = NoProc)
        BY <2>1, <2>5, <3>1, <3>4, RecordedAct DEF Belongs, Pending
      <4> QED
        BY <2>1, <2>2, <4>1, <4>2, <4>3, <1>1, ProcsAssumption DEF r
    <3>5. CASE Pause(p) \/ SetAside(p)
      <4>1. r \in parked' /\ row'[r].act.status = "paused"
        BY <2>1, <2>2, <2>5, <3>5, ParkedAct DEF r
      <4> QED
        BY <2>1, <4>1 DEF Undecided
    <3> QED
      BY <2>5, <3>2, <3>3, <3>4, <3>5 DEF Writes
  <2> QED
    BY <2>1, <2>3, <2>4, <2>5, RowMoves
<1>2. ASSUME NEW p \in Procs, Fire(p), Runs(p)' PROVE Good(p)'
  <2>1. GoesOn(p)
    BY <1>2, FireOn DEF Runs, Fires, Firing, TakesUp
  <2>2. /\ Fires(p) /\ Subject(p)' = Subject(p) /\ Subject(p) \in Reminders
        /\ Row(p)' = row'[Subject(p)] /\ Row(p) = row[Subject(p)] /\ Row(p) \in Rows
    BY <2>1, SubjectAtHand, SubjectNext, SubjectTyped DEF GoesOn, SameFiring, Row
  <2>3. CASE Launch(p)
    <3>1. /\ row'[Subject(p)].act.status = "running" /\ row'[Subject(p)].act.claim = p
          /\ row'[Subject(p)].act.at = now
      BY <2>2, <2>3, LaunchedAct
    <3>2. op'[p].since <= now
      <4>1. op[p].how = "sweep" => op[p].since <= now
        BY <2>2 DEF Leased, Sweeps
      <4> QED
        BY <2>3, <4>1, LaunchOn DEF TypeOK
    <3> QED
      BY <2>2, <3>1, <3>2 DEF Undecided
  <2>4. CASE Finish(p)
    <3>1. Runs(p) /\ row' = row /\ parked' = parked /\ op'[p].since = op[p].since
      BY <2>4, FinishOn DEF Finish, Runs, At
    <3> QED
      BY <2>2, <3>1 DEF Claimed
  <2> QED
    BY <1>2, <2>1, <2>3, <2>4 DEF GoesOn, Runs
<1>3. CASE \E p \in Procs : Fire(p)
  BY <1>1, <1>2, <1>3, FireTyped DEF Steps, Claimed
<1>4. ASSUME NEW p \in Procs, NEW r \in Reminders, NEW how \in plot.hows[p] \ {"sweep"},
             Exec(p, r, how), NEW q \in Procs, Runs(q)'
      PROVE  Good(q)'
  <2>1. q # p
    BY <1>4, ExecOn DEF Runs
  <2> QED
    BY <1>1, <1>4, <2>1, ExecStepped DEF Steps
<1>5. CASE UNCHANGED op
  BY <1>1, <1>5 DEF Claimed
<1> QED
  BY <1>3, <1>4, <1>5, PeopleTyped DEF Next, ByPeople, Tick, vars, Claimed

\* What a step may do to the status of a reminder.
LEMMA StatusMoves ==
    ASSUME TypeOK, AtHand, [Next]_vars, NEW r \in Reminders
    PROVE  \/ /\ row'[r].due = row[r].due
              /\ \/ row'[r].status = row[r].status /\ row'[r].snooze = row[r].snooze
                 \/ row'[r].status \in Closed \cup {"fired"}
                 \/ row'[r].snooze = now + 1
           \/ Advance(r)
<1> DEFINE Same == /\ row'[r].due = row[r].due
                   /\ \/ row'[r].status = row[r].status /\ row'[r].snooze = row[r].snooze
                      \/ row'[r].status \in Closed \cup {"fired"}
                      \/ row'[r].snooze = now + 1
<1>0. row \in [Reminders -> Rows] /\ row[r] \in Rows
  BY RowTyped DEF TypeOK
<1>1. ASSUME NEW q \in Reminders, NEW s \in Closed \cup {"fired"},
             Set(q, [row[q] EXCEPT !.status = s])
      PROVE  Same
  <2>1. row'[r] = row[r] \/ row'[r] = [row[r] EXCEPT !.status = s]
    BY <1>0, <1>1 DEF Set
  <2> QED
    BY <1>0, <2>1 DEF Rows
<1>2. ASSUME NEW q \in Reminders, SnoozedFor(q) PROVE Same
  <2>1. row'[r] = row[r] \/ row'[r] = [row[r] EXCEPT !.status = "snoozed", !.snooze = now + 1]
    BY <1>0, <1>2 DEF SnoozedFor, Set
  <2> DEFINE due == now + 1
  <2> HIDE DEF due
  <2>2. ASSUME row'[r] = [row[r] EXCEPT !.status = "snoozed", !.snooze = due]
        PROVE  row'[r].due = row[r].due /\ row'[r].snooze = due
    BY <1>0, <2>2 DEF Rows
  <2> QED
    BY <2>1, <2>2 DEF due
<1>3. ASSUME NEW q \in Reminders, Advance(q) PROVE Same \/ Advance(r)
  BY <1>3, Advanced
<1>4. ASSUME NEW p \in Procs, Writes(p) PROVE Same
  <2>1. row' = row \/ \E a : Set(Subject(p), [Row(p) EXCEPT !.act = a])
    <3>1. CASE ClaimSettled(p)
      BY <3>1 DEF ClaimSettled
    <3>2. CASE Launch(p)
      BY <3>2 DEF Launch
    <3>3. CASE Record(p)
      BY <3>3 DEF Record
    <3>4. CASE Pause(p) \/ SetAside(p)
      BY <3>4, ParksTyped
    <3> QED
      BY <1>4, <3>1, <3>2, <3>3, <3>4 DEF Writes
  <2>2. CASE r = Subject(p)
    BY <2>1, <2>2, ActWritten DEF Row
  <2>3. CASE r # Subject(p)
    BY <1>4, <2>3, WritesOne
  <2> QED
    BY <2>2, <2>3
<1>5. ASSUME NEW p \in Procs, Fire(p) PROVE Same \/ Advance(r)
  <2>1. CASE Looks(p)
    BY <2>1, LooksTyped
  <2>2. CASE Settle(p)
    <3>1. Subject(p) \in Reminders /\ Row(p) = row[Subject(p)]
      BY <2>2, SubjectTyped DEF Settle, At, Fires, Firing
    <3>2. SettledStatus(p) \in Closed \cup {"fired"}
      BY DEF SettledStatus, Closed
    <3> QED
      BY <1>1, <1>3, <2>2, <3>1, <3>2 DEF Settle
  <2> QED
    BY <1>4, <1>5, <2>1, <2>2 DEF Fire, Looks, Writes
<1>6. ASSUME NEW q \in Reminders, ByPeople(q) PROVE Same \/ Advance(r)
  BY <1>1, <1>2, <1>3, <1>6, PeopleTyped
<1> QED
  BY <1>5, <1>6 DEF Next, ByPeople, Exec, Tick, vars

LEMMA TodoOn ==
    ASSUME TypeOK, AtHand, NEW p \in Procs, Fire(p)
    PROVE  \/ op'[p].todo \subseteq op[p].todo
           \/ ListDue(p) /\ op'[p].todo = {<<r, row[r].due>> : r \in {q \in Reminders : Due(row[q])}}
<1>1. CASE Fires(p)'
  BY <1>1, FireOn DEF GoesOn, SameFiring, TakesUp
<1>2. CASE Done(p)
  BY <1>2, OpDone
<1>3. CASE Acquire(p)
  BY <1>3, OpIs DEF Acquire, Idle
<1>4. CASE Release(p) \/ Die(p)
  BY <1>4, OpIs DEF Release, Die, Idle
<1>5. CASE Renew(p)
  BY <1>5, RenewOn DEF TakesUp
<1>6. CASE ListDue(p)
  <2> DEFINE todo == {<<r, row[r].due>> : r \in {q \in Reminders : Due(row[q])}}
  <2> HIDE DEF todo
  <2>1. op'[p] = [Idle EXCEPT !.phase = "sweep", !.todo = todo]
    BY <1>6, OpIs DEF ListDue, todo
  <2>2. op'[p].todo = todo
    BY <2>1 DEF Idle
  <2> QED
    BY <1>6, <2>2 DEF todo
<1>7. Done(p) \/ Fires(p)' \/ Acquire(p) \/ ListDue(p) \/ Renew(p) \/ Release(p) \/ Die(p)
  <2>1. ASSUME Fires(p), NEW phase \in Firing, NEW x,
               \/ Goes(p, phase)
               \/ Becomes(p, [op[p] EXCEPT !.phase = phase, !.stale = x])
               \/ Becomes(p, [op[p] EXCEPT !.phase = phase, !.seen = x])
               \/ Becomes(p, [op[p] EXCEPT !.phase = phase, !.result = x])
        PROVE  Fires(p)'
    BY <2>1, SameOp DEF Fires
  <2>2. CASE FireRead(p) \/ Notify(p) \/ ClaimRefused(p) \/ ClaimSettled(p)
    BY <2>1, <2>2 DEF FireRead, Notify, ClaimRefused, ClaimSettled, Skipped, At, Fires, Firing
  <2>3. CASE Launch(p) \/ Finish(p)
    BY <2>3, LaunchOn, FinishOn DEF Fires, Firing
  <2>4. CASE Record(p) \/ RecordFails(p)
    BY <2>1, <2>4 DEF Record, RecordFails, AfterRun, At, Fires, Firing
  <2>5. CASE Latest(p) \/ After(p) \/ Settle(p) \/ PauseRead(p)
    BY <2>1, <2>5 DEF Latest, After, Settle, PauseRead, At, Fires, Firing
  <2>6. CASE Pause(p) \/ SetAside(p)
    BY <2>6, ParksTyped
  <2> QED
    BY <2>2, <2>3, <2>4, <2>5, <2>6 DEF Fire
<1> QED
  BY <1>1, <1>2, <1>3, <1>4, <1>5, <1>6, <1>7

LEMMA NowNext ==
    ASSUME TypeOK, AtHand, [Next]_vars
    PROVE  now' = now \/ now' = now + 1
BY FireTyped, ExecOn, PeopleTyped DEF Next, ByPeople, Tick, vars

LEMMA DueNext ==
    ASSUME TypeOK, AtHand, FellDue, [Next]_vars
    PROVE  FellDue'
<1>0. now \in Nat /\ now <= now' /\ now' \in Nat
  BY NowNext DEF TypeOK
<1>1. ASSUME NEW r \in Reminders
      PROVE  /\ row'[r].due <= now' + 1
             /\ row'[r].status = "snoozed" => row'[r].due <= row'[r].snooze
  <2>1. /\ row[r].due <= now + 1 /\ row[r].due \in Nat
        /\ row[r].status = "snoozed" => row[r].due <= row[r].snooze
    BY RowTyped DEF FellDue, Rows
  <2>2. CASE Advance(r)
    BY <1>0, <2>2, Advanced
  <2>3. CASE ~Advance(r)
    <3>1. row'[r].due = row[r].due
      BY <2>3, StatusMoves
    <3>2. CASE row'[r].status = row[r].status /\ row'[r].snooze = row[r].snooze
      BY <1>0, <2>1, <3>1, <3>2
    <3>3. CASE row'[r].status \in Closed \cup {"fired"}
      BY <1>0, <2>1, <3>1, <3>3 DEF Closed
    <3>4. CASE row'[r].snooze = now + 1
      BY <1>0, <2>1, <3>1, <3>4
    <3> QED
      BY <2>3, <3>2, <3>3, <3>4, StatusMoves
  <2> QED
    BY <2>2, <2>3
<1> DEFINE Good(q) == /\ \A next \in op[q].todo : next[2] <= now
                      /\ Sweeps(q) => op[q].due <= now
<1>2. ASSUME NEW q \in Procs, op'[q] = op[q] PROVE Good(q)'
  <2>1. Good(q) /\ op[q].due \in Nat /\ op[q].todo \in SUBSET (Reminders \X Nat)
    BY OpTyped DEF FellDue, Ops
  <2>2. Sweeps(q)' = Sweeps(q)
    BY <1>2, OthersAtHand
  <2> QED
    BY <1>0, <1>2, <2>1, <2>2
<1>3. ASSUME NEW p \in Procs, Fire(p) PROVE Good(p)'
  <2>1. Good(p) /\ now' = now
    BY <1>3, FireTyped DEF FellDue
  <2>2. \A next \in op'[p].todo : next[2] <= now
    <3>1. CASE op'[p].todo \subseteq op[p].todo
      BY <2>1, <3>1
    <3>2. CASE op'[p].todo = {<<r, row[r].due>> : r \in {q \in Reminders : Due(row[q])}}
      <4>1. ASSUME NEW r \in Reminders, Due(row[r]) PROVE row[r].due <= now
        BY <1>0, <4>1, RowTyped DEF Due, FellDue, Rows
      <4> QED
        BY <3>2, <4>1
    <3> QED
      BY <1>3, <3>1, <3>2, TodoOn
  <2>3. Sweeps(p)' => op'[p].due <= now
    <3>1. CASE GoesOn(p)
      BY <2>1, <3>1 DEF GoesOn, SameFiring, Sweeps
    <3>2. CASE TakesUp(p)
      BY <2>1, <3>2 DEF TakesUp
    <3> QED
      BY <1>3, <3>1, <3>2, FireOn DEF Sweeps
  <2> QED
    BY <2>1, <2>2, <2>3
<1>4. ASSUME NEW p \in Procs, NEW r \in Reminders, NEW how \in plot.hows[p] \ {"sweep"},
             Exec(p, r, how)
      PROVE  Good(p)'
  BY <1>4, ExecOn DEF Sweeps
<1>5. \A q \in Procs : Good(q)'
  <2>1. CASE \E p \in Procs : Fire(p)
    BY <1>2, <1>3, <2>1, FireTyped DEF Steps
  <2>2. CASE \E p \in Procs, r \in Reminders : \E how \in plot.hows[p] \ {"sweep"} : Exec(p, r, how)
    BY <1>2, <1>4, <2>2, ExecStepped DEF Steps
  <2>3. CASE UNCHANGED op
    BY <1>2, <2>3
  <2> QED
    BY <2>1, <2>2, <2>3, PeopleTyped DEF Next, ByPeople, Tick, vars
<1> QED
  BY <1>1, <1>5 DEF FellDue

\* The launches counted.
LEMMA CountNext ==
    ASSUME TypeOK, AtHand, Claimed, Counted, [Next]_vars
    PROVE  Counted'
<1> SUFFICES ASSUME NEW r \in Reminders, r \notin parked', row'[r].act.status # "paused"
             PROVE  tries'[r] <= IF row'[r].act.occurrence = row'[r].due
                                 THEN row'[r].act.attempts ELSE 0
  BY DEF Counted
<1>0. /\ row[r] \in Rows /\ row[r].act \in Acts /\ row[r].act.attempts \in Nat
      /\ tries[r] \in Nat /\ tries' \in [Reminders -> Nat] /\ row' \in [Reminders -> Rows]
      /\ row'[r].act.attempts \in Nat
  BY RowTyped, TypeNext DEF Acts, TypeOK, Rows
<1>1. CASE /\ row'[r].act = row[r].act /\ row'[r].due = row[r].due /\ tries'[r] = tries[r]
           /\ r \in parked' <=> r \in parked
  BY <1>1 DEF Counted
<1>2. CASE Advance(r)
  BY <1>0, <1>2, Advanced
<1>3. ASSUME NEW p \in Procs, Writes(p), Fires(p), Subject(p) = r
      PROVE  tries'[r] <= IF row'[r].act.occurrence = row'[r].due
                          THEN row'[r].act.attempts ELSE 0
  <2>1. Row(p) = row[r]
    BY <1>3 DEF Row
  <2>2. ASSUME r \notin parked, row[r].act.status # "paused"
        PROVE  ~Manual(p) => tries[r] <= Attempts(p)
    BY <1>0, <2>1, <2>2 DEF Counted, Attempts
  <2>3. ASSUME Claimable(p), ~Manual(p) PROVE row[r].act.status # "paused"
    BY <2>1, <2>3 DEF Claimable
  <2>4. Attempts(p) \in Nat
    BY <1>0, <2>1 DEF Attempts
  <2>5. CASE ClaimSettled(p)
    <3>1. Claimable(p) /\ tries' = tries /\ parked' = parked
      BY <2>5 DEF ClaimSettled, history
    <3>2. CASE Orphaned(row[r]) /\ row'[r].act.attempts = row[r].act.attempts
               /\ row'[r].act.occurrence = row[r].act.occurrence
      BY <1>3, <2>5, <3>1, <3>2, SettledAct DEF Counted, Orphaned
    <3>3. CASE UsedUp(p) /\ row'[r].act.attempts = Attempts(p)
               /\ row'[r].act.occurrence = row[r].due
      <4>1. ~Manual(p)
        BY <2>4, <3>3, AttemptsAssumption DEF UsedUp, Attempts
      <4> QED
        BY <1>3, <2>2, <2>3, <2>5, <3>1, <3>3, <4>1, SettledAct
    <3> QED
      BY <1>3, <2>5, <3>2, <3>3, SettledAct
  <2>6. CASE Launch(p)
    <3>1. Claimable(p)
      BY <2>6 DEF Launch
    <3>2. /\ row'[r].act.occurrence = row'[r].due /\ row'[r].act.attempts = Attempts(p) + 1
          /\ tries'[r] = IF Manual(p) THEN 1 ELSE tries[r] + 1
          /\ parked' = parked
      BY <1>3, <2>6, LaunchedAct
    <3> QED
      BY <1>0, <2>2, <2>3, <2>4, <3>1, <3>2
  <2>7. CASE Record(p)
    <3>1. Runs(p) /\ r \notin parked
      BY <1>3, <2>7, RecordedAct DEF Record, At, Runs
    <3>2. row[r].act.status = "running" /\ row[r].act.claim = p
      BY <1>3, <2>1, <3>1 DEF Claimed
    <3>3. tries[r] <= IF row[r].act.occurrence = row[r].due THEN row[r].act.attempts ELSE 0
      BY <3>1, <3>2 DEF Counted
    <3>4. ~Belongs(p) => row[r].due # op[p].due
      BY <2>1, <3>2 DEF Belongs, Current
    <3>5. /\ row'[r].due = row[r].due /\ tries' = tries
          /\ \/ /\ row'[r].act.attempts = row[r].act.attempts
                /\ row'[r].act.occurrence = row[r].act.occurrence
             \/ ~Belongs(p) /\ row[r].act.occurrence = op[p].due
      BY <1>3, <2>7, RecordedAct
    <3> QED
      BY <1>0, <3>3, <3>4, <3>5
  <2>8. CASE Pause(p) \/ SetAside(p)
    BY <1>3, <2>8, ParkedAct
  <2> QED
    BY <1>3, <2>5, <2>6, <2>7, <2>8 DEF Writes
<1> QED
  BY <1>1, <1>2, <1>3, RowMoves

\* Nothing that was parked is forgotten, and what is delivered is told by who
\* delivers it.
LEMMA ParkedStays ==
    ASSUME TypeOK, AtHand, [Next]_vars, NEW r \in Reminders, r \notin parked'
    PROVE  r \notin parked
<1>1. ASSUME NEW p \in Procs, Writes(p), Subject(p) = r PROVE r \notin parked
  BY <1>1, RecordedAct, LaunchedAct, ParkedAct DEF Writes, ClaimSettled, history
<1> QED
  BY <1>1, RowMoves

Sends(p) ==
    /\ Runs(p)
    /\ \/ /\ Finish(p) \/ Die(p)
          /\ At(p, "run") /\ Row(p).wake /\ Current(p) /\ row' = row /\ parked' = parked
          /\ Finish(p) => op'[p].phase = "record" /\ op'[p].result \in Delivered
       \/ Record(p) /\ Belongs(p) /\ op[p].result = "completed"

LEMMA SentMoves ==
    ASSUME TypeOK, AtHand, [Next]_vars, NEW r \in sent', r \notin sent
    PROVE  \E p \in Procs : Sends(p) /\ Subject(p) = r
<1>1. ASSUME NEW p \in Procs, Fire(p) PROVE Sends(p) /\ Subject(p) = r
  <2>1. CASE Finish(p)
    <3>1. PICK result \in {"completed", "failed", "exhausted"} \cup Undecided :
            /\ op'[p].phase = "record" /\ op'[p].result = result
            /\ sent' = IF result \in Delivered THEN Submitted(p) ELSE sent
      BY <2>1, FinishOn
    <3>2. /\ result \in Delivered /\ Row(p).wake /\ Current(p) /\ Subject(p) = r
      BY <3>1 DEF Submitted
    <3> QED
      BY <2>1, <3>1, <3>2 DEF Sends, Finish, At, Runs
  <2>2. CASE Die(p)
    <3>1. At(p, "run") /\ Row(p).wake /\ Current(p) /\ Subject(p) = r
      BY <2>2 DEF Die, Submitted
    <3>2. ~Finish(p)
      BY <2>2, FinishOn, OpIs DEF Die, Idle
    <3> QED
      BY <2>2, <3>1, <3>2 DEF Sends, Die, Runs, At
  <2>3. CASE Record(p)
    <3>1. Fires(p) /\ Subject(p) \in Reminders
      BY <2>3, SubjectTyped DEF Record, At, Fires, Firing
    <3>2. Belongs(p) /\ op[p].result = "completed" /\ Subject(p) = r
      BY <2>3, <3>1 DEF Record
    <3> QED
      BY <2>3, <3>2 DEF Sends, Record, At, Runs
  <2>4. CASE Settle(p)
    <3>1. Subject(p) \in Reminders
      BY <2>4, SubjectTyped DEF Settle, At, Fires, Firing
    <3> QED
      BY <2>4, <3>1, Advanced DEF Settle, history
  <2>5. CASE Pause(p) \/ SetAside(p)
    BY <2>5, ParksTyped
  <2>6. CASE ClaimSettled(p) \/ Launch(p)
    BY <2>6 DEF ClaimSettled, Launch, history
  <2>7. CASE \/ Acquire(p) \/ ListDue(p) \/ Renew(p) \/ Release(p) \/ FireRead(p) \/ Notify(p)
             \/ ClaimRefused(p) \/ RecordFails(p) \/ Latest(p) \/ After(p) \/ PauseRead(p)
    BY <2>7 DEF Acquire, ListDue, Renew, Release, FireRead, Notify, ClaimRefused, RecordFails,
                Latest, After, PauseRead, history
  <2> QED
    BY <1>1, <2>1, <2>2, <2>3, <2>4, <2>5, <2>6, <2>7 DEF Fire
<1>2. ASSUME NEW q \in Reminders, ByPeople(q) PROVE FALSE
  BY <1>2, PeopleTyped, Advanced DEF history
<1> QED
  BY <1>1, <1>2 DEF Next, ByPeople, Exec, Tick, vars, history

\* Two that run the same action are one, unless it was parked.
LEMMA OneRuns ==
    ASSUME Claimed, NEW p \in Procs, NEW q \in Procs, Runs(p), Runs(q), Subject(p) = Subject(q),
           Subject(p) \notin parked
    PROVE  p = q
BY DEF Claimed, Row

LEMMA KeepNext ==
    ASSUME TypeOK, AtHand, Claimed, Kept, OwnDelivery, [Next]_vars
    PROVE  Kept'
<1> SUFFICES ASSUME NEW r \in sent', r \notin parked'
             PROVE  row'[r].act.status \in Delivered
                    \/ (row'[r].act.status = "running" /\ row'[r].wake)
  BY DEF Kept, Orphaned
<1>0. r \in Reminders /\ r \notin parked /\ row'[r].wake = row[r].wake
  BY TypeNext, ParkedStays, KindKept DEF TypeOK
<1>1. CASE r \in sent
  <2>1. row[r].act.status \in Delivered \/ Orphaned(row[r])
    BY <1>0, <1>1 DEF Kept
  <2>2. CASE row'[r].act = row[r].act
    BY <1>0, <2>1, <2>2 DEF Orphaned
  <2>3. CASE Advance(r)
    BY <1>0, <2>3, Advanced
  <2>4. ASSUME NEW p \in Procs, Writes(p), Fires(p), Subject(p) = r
        PROVE  row'[r].act.status \in Delivered
    <3>1. Row(p) = row[r]
      BY <2>4 DEF Row
    <3>2. CASE ClaimSettled(p)
      <4>1. Orphaned(row[r])
        BY <2>1, <3>1, <3>2 DEF ClaimSettled, Claimable
      <4>2. row'[r].act.status = "unknown"
        BY <1>0, <2>4, <3>2, <4>1, SettledAct
      <4> QED
        BY <4>2 DEF Delivered, Undecided
    <3>3. CASE Launch(p)
      BY <2>1, <3>1, <3>3 DEF Launch, Claimable
    <3>4. CASE Record(p)
      <4>1. Runs(p) /\ At(p, "record")
        BY <3>4 DEF Record, At, Runs
      <4>2. Belongs(p) /\ op[p].result \in Delivered
        BY <1>0, <1>1, <2>4, <4>1 DEF Claimed, OwnDelivery, Belongs
      <4> QED
        BY <1>0, <2>4, <3>4, <4>2, RecordedAct
    <3>5. CASE Pause(p) \/ SetAside(p)
      BY <1>0, <2>1, <2>4, <3>5, ParkedAct DEF Orphaned
    <3> QED
      BY <2>4, <3>2, <3>3, <3>4, <3>5 DEF Writes
  <2> QED
    BY <1>0, <2>2, <2>3, <2>4, RowMoves
<1>2. CASE r \notin sent
  <2>1. PICK p \in Procs : Sends(p) /\ Subject(p) = r
    BY <1>2, SentMoves
  <2>2. Row(p) = row[r] /\ row[r].act.status = "running"
    BY <1>0, <2>1 DEF Claimed, Sends, Row
  <2>3. CASE row' = row /\ Row(p).wake
    BY <2>2, <2>3
  <2>4. CASE Record(p) /\ Belongs(p) /\ op[p].result = "completed"
    BY <1>0, <2>1, <2>4, RecordedAct DEF Delivered
  <2> QED
    BY <2>1, <2>3, <2>4 DEF Sends
<1> QED
  BY <1>1, <1>2

LEMMA OwnNext ==
    ASSUME TypeOK, AtHand, Leased, Budgeted, Claimed, FellDue, Kept, OwnDelivery, [Next]_vars
    PROVE  OwnDelivery'
<1> DEFINE Good(q) ==
             Runs(q) /\ Subject(q) \in sent \ parked =>
               /\ ~At(q, "run")
               /\ At(q, "record") => Current(q) /\ op[q].result \in Delivered
<1>1. ASSUME NEW q \in Procs, op'[q] = op[q] PROVE Good(q)'
  <2> SUFFICES ASSUME Runs(q)', Subject(q)' \in sent' \ parked'
               PROVE  /\ ~At(q, "run")'
                      /\ At(q, "record")' => Current(q)' /\ op'[q].result \in Delivered
    OBVIOUS
  <2> DEFINE r == Subject(q)
  <2>1. /\ Runs(q) /\ Fires(q) /\ r \in Reminders /\ Subject(q)' = r /\ Row(q)' = row'[r]
        /\ Row(q) = row[r]
    BY <1>1, OthersAtHand, SubjectTyped DEF Runs, Fires, Firing
  <2>2. r \in sent' /\ r \notin parked' /\ r \notin parked
    BY <2>1, ParkedStays
  <2>3. r \in sent
    <3> SUFFICES ASSUME r \notin sent PROVE FALSE
      OBVIOUS
    <3>1. PICK p \in Procs : Sends(p) /\ Subject(p) = r
      BY <2>2, SentMoves
    <3>2. p = q
      BY <2>1, <2>2, <3>1, OneRuns DEF Sends
    <3>3. CASE Finish(p) \/ Die(p)
      <4>1. Finish(p) => op[p].phase = "run" /\ op'[p].phase = "record"
        BY FinishOn DEF Finish, At
      <4>2. Die(p) => op[p].phase # "idle" /\ op'[p].phase = "idle"
        BY OpIs DEF Die, At, Idle
      <4> QED
        BY <1>1, <3>2, <3>3, <4>1, <4>2
    <3>4. CASE Record(p) /\ Belongs(p)
      <4>1. AfterRun(p, op[p].result) /\ op[p].phase = "record" /\ Fires(p)
        BY <3>4 DEF Record, At, Fires, Firing
      <4>2. op'[p].phase # "record"
        BY <4>1, OpDone, SameOp DEF AfterRun, Firing
      <4> QED
        BY <1>1, <3>2, <4>1, <4>2
    <3> QED
      BY <3>1, <3>3, <3>4 DEF Sends
  <2>4. ~At(q, "run") /\ (At(q, "record") => Current(q) /\ op[q].result \in Delivered)
    BY <2>1, <2>2, <2>3 DEF OwnDelivery
  <2>5. row'[r].due = row[r].due
    <3>1. ~Advance(r)
      BY <2>1, <2>2, Advanced
    <3> QED
      BY <2>1, <3>1, StatusMoves
  <2> QED
    BY <1>1, <2>1, <2>4, <2>5 DEF At, Current
<1>2. ASSUME NEW p \in Procs, Fire(p) PROVE Good(p)'
  <2> SUFFICES ASSUME Runs(p)', Subject(p)' \in sent' \ parked'
               PROVE  /\ ~At(p, "run")'
                      /\ At(p, "record")' => Current(p)' /\ op'[p].result \in Delivered
    OBVIOUS
  <2> DEFINE r == Subject(p)
  <2>1. GoesOn(p)
    BY <1>2, FireOn DEF Runs, Fires, Firing, TakesUp
  <2>2. /\ Fires(p) /\ Subject(p)' = r /\ r \in Reminders
        /\ Row(p)' = row'[r] /\ Row(p) = row[r] /\ op'[p].due = op[p].due
    BY <2>1, SubjectAtHand, SubjectNext, SubjectTyped DEF GoesOn, SameFiring, Row
  <2>3. r \in sent' /\ r \notin parked' /\ r \notin parked
    BY <2>2, ParkedStays
  <2>4. CASE Launch(p)
    <3>1. r \in sent
      BY <2>3, <2>4 DEF Launch
    <3> QED
      BY <2>2, <2>3, <2>4, <3>1 DEF Kept, Launch, Claimable
  <2>5. CASE Finish(p)
    <3>1. r \notin sent
      BY <2>3, <2>5 DEF OwnDelivery, Finish, At, Runs
    <3>2. PICK result \in {"completed", "failed", "exhausted"} \cup Undecided :
            /\ op'[p].phase = "record" /\ op'[p].result = result
            /\ sent' = IF result \in Delivered THEN Submitted(p) ELSE sent
      BY <2>5, FinishOn
    <3>3. result \in Delivered /\ Current(p) /\ row' = row
      BY <2>3, <2>5, <3>1, <3>2 DEF Submitted, Finish
    <3> QED
      BY <2>2, <3>2, <3>3 DEF At, Current
  <2> QED
    BY <1>2, <2>1, <2>4, <2>5 DEF GoesOn, Runs
<1>3. ASSUME NEW p \in Procs, NEW r \in Reminders, NEW how \in plot.hows[p] \ {"sweep"},
             Exec(p, r, how)
      PROVE  Good(p)'
  BY <1>3, ExecOn DEF Runs
<1>4. CASE \E p \in Procs : Fire(p)
  BY <1>1, <1>2, <1>4, FireTyped DEF Steps, OwnDelivery
<1>5. CASE \E p \in Procs, r \in Reminders : \E how \in plot.hows[p] \ {"sweep"} : Exec(p, r, how)
  BY <1>1, <1>3, <1>5, ExecStepped DEF Steps, OwnDelivery
<1>6. CASE UNCHANGED op
  BY <1>1, <1>6 DEF OwnDelivery
<1> QED
  BY <1>4, <1>5, <1>6, PeopleTyped DEF Next, ByPeople, Tick, vars

\* A sweep that parks is within its lease as any that fires.
LEMMA ParksSweeps ==
    ASSUME TypeOK, AtHand, NEW p \in Procs, Pause(p) \/ SetAside(p)
    PROVE  Sweeps(p) /\ op'[p].phase \notin Firing
<1>1. Fires(p) /\ Done(p)
  BY ParksTyped
<1>2. op[p].how = "sweep"
  BY <1>1 DEF Pause, SetAside, At, AtHand, HasInHand
<1> QED
  BY <1>1, <1>2, OpDone DEF Sweeps

LEMMA OneSweeps ==
    ASSUME Leased, NEW p \in Procs, NEW q \in Procs, Sweeps(p), Sweeps(q)
    PROVE  p = q
BY DEF Leased

\* Only an advance takes a notification back.
LEMMA NotifiedStays ==
    ASSUME TypeOK, AtHand, [Next]_vars, NEW r \in notified, r \in Reminders, ~Advance(r)
    PROVE  r \in notified'
<1>1. ASSUME NEW p \in Procs, Fire(p) PROVE r \in notified'
  <2>1. CASE Looks(p)
    BY <2>1 DEF Looks, Acquire, ListDue, Renew, Release, FireRead, Notify, ClaimRefused, Finish,
                RecordFails, Latest, After, PauseRead, Die, history
  <2>2. CASE Writes(p)
    BY <2>2, WritesOne
  <2>3. CASE Settle(p)
    <3>1. Subject(p) \in Reminders
      BY <2>3, SubjectTyped DEF Settle, At, Fires, Firing
    <3> QED
      BY <2>3, <3>1, Advanced DEF Settle, history
  <2> QED
    BY <1>1, <2>1, <2>2, <2>3 DEF Fire, Looks, Writes
<1>2. ASSUME NEW q \in Reminders, ByPeople(q) PROVE r \in notified'
  BY <1>2, PeopleTyped, Advanced DEF history
<1> QED
  BY <1>1, <1>2 DEF Next, ByPeople, Exec, Tick, vars, history

LEMMA TellNext ==
    ASSUME TypeOK, AtHand, Leased, Claimed, FellDue, Told, [Next]_vars
    PROVE  Told'
<1> DEFINE Good(q) ==
             Sweeps(q) /\ Current(q) =>
               /\ op[q].phase \in {"claim", "run", "record", "latest", "after"}
                    => Subject(q) \in notified
               /\ At(q, "settle") => Subject(q) \in notified \/ Row(q).act.status \in Undecided
<1>1. ASSUME NEW q \in Procs, op'[q] = op[q] PROVE Good(q)'
  <2> SUFFICES ASSUME Sweeps(q)', Current(q)'
               PROVE  /\ op'[q].phase \in {"claim", "run", "record", "latest", "after"}
                           => Subject(q)' \in notified'
                      /\ At(q, "settle")' =>
                           \/ Subject(q)' \in notified'
                           \/ Row(q)'.act.status \in Undecided
    OBVIOUS
  <2> DEFINE r == Subject(q)
  <2>1. /\ Sweeps(q) /\ Fires(q) /\ r \in Reminders /\ Subject(q)' = r /\ Row(q)' = row'[r]
        /\ Row(q) = row[r] /\ row[r] \in Rows /\ row[r].due \in Nat
    BY <1>1, OthersAtHand, SubjectTyped DEF Sweeps, Rows
  <2>2. ~Advance(r) /\ row'[r].due = row[r].due /\ Current(q)
    <3>1. row'[r].due = op[q].due /\ op[q].due <= now
      BY <1>1, <2>1 DEF Current, FellDue
    <3>2. ~Advance(r)
      BY <2>1, <3>1, Advanced DEF TypeOK
    <3> QED
      BY <2>1, <3>1, <3>2, StatusMoves DEF Current
  <2>3. r \in notified => r \in notified'
    BY <2>1, <2>2, NotifiedStays
  <2>4. Good(q)
    BY DEF Told
  <2>5. row[r].act.status \in Undecided => row'[r].act.status \in Undecided
    <3>1. CASE row'[r].act = row[r].act
      BY <3>1
    <3>2. ASSUME NEW p \in Procs, Writes(p), Fires(p), Subject(p) = r,
                 row[r].act.status \in Undecided
          PROVE  row'[r].act.status \in Undecided
      <4>1. Row(p) = row[r]
        BY <3>2 DEF Row
      <4>2. ~ClaimSettled(p) /\ ~Launch(p)
        BY <3>2, <4>1 DEF ClaimSettled, Launch, Claimable, Delivered
      <4>3. CASE Record(p)
        <5>1. ~Belongs(p) /\ row[r].act.status # "running"
          BY <3>2, <4>1, <4>3 DEF Claimed, Belongs, Record, At, Runs, Undecided
        <5> QED
          BY <2>1, <3>2, <4>3, <5>1, RecordedAct
      <4>4. CASE Pause(p) \/ SetAside(p)
        <5>1. p = q
          BY <2>1, <4>4, OneSweeps, ParksSweeps
        <5> QED
          BY <1>1, <2>1, <4>4, <5>1, ParksSweeps DEF Fires
      <4> QED
        BY <3>2, <4>2, <4>3, <4>4 DEF Writes
    <3> QED
      BY <2>1, <2>2, <3>1, <3>2, RowMoves
  <2> QED
    BY <1>1, <2>1, <2>2, <2>3, <2>4, <2>5 DEF At
<1>2. ASSUME NEW p \in Procs, Fire(p) PROVE Good(p)'
  <2> SUFFICES ASSUME Sweeps(p)', Current(p)'
               PROVE  /\ op'[p].phase \in {"claim", "run", "record", "latest", "after"}
                           => Subject(p)' \in notified'
                      /\ At(p, "settle")' =>
                           \/ Subject(p)' \in notified'
                           \/ Row(p)'.act.status \in Undecided
    OBVIOUS
  <2>1. CASE TakesUp(p)
    BY <2>1 DEF TakesUp, At
  <2>2. CASE GoesOn(p)
    <3> DEFINE r == Subject(p)
    <3>1. /\ Sweeps(p) /\ Subject(p)' = r /\ r \in Reminders
          /\ Row(p)' = row'[r] /\ Row(p) = row[r] /\ row[r] \in Rows /\ op'[p].due = op[p].due
      BY <2>2, SubjectAtHand, SubjectNext, SubjectTyped DEF GoesOn, SameFiring, Row, Sweeps
    <3>2. /\ op[p].phase \in {"claim", "run", "record", "latest", "after"} /\ Current(p)
            => r \in notified
          /\ At(p, "settle") /\ Current(p) => r \in notified \/ row[r].act.status \in Undecided
      BY <3>1 DEF Told
    <3>3. ASSUME Looks(p) PROVE row' = row /\ Current(p)
      BY <3>1, <3>3, LooksTyped DEF Current
    <3>4. ASSUME Writes(p) PROVE Current(p) /\ notified' = notified
      <4>1. row'[r].due = row[r].due
        BY <3>1, <3>4, SettledAct, LaunchedAct, RecordedAct, ParkedAct DEF Writes
      <4> QED
        BY <3>1, <3>4, <4>1, WritesOne DEF Current
    <3>5. CASE FireRead(p) \/ After(p) \/ Latest(p) \/ RecordFails(p) \/ ClaimRefused(p) \/ Finish(p)
      <4>1. row' = row /\ Current(p) /\ notified' = notified
        BY <3>3, <3>5 DEF Looks, FireRead, After, Latest, RecordFails, ClaimRefused, Finish, history
      <4>2. /\ FireRead(p) => op[p].phase = "read"
            /\ After(p) => op[p].phase = "after"
            /\ Latest(p) => op[p].phase = "latest"
            /\ RecordFails(p) => op[p].phase = "record"
            /\ ClaimRefused(p) => op[p].phase = "claim"
            /\ Finish(p) => op[p].phase = "run"
        BY DEF FireRead, After, Latest, RecordFails, ClaimRefused, Finish, At
      <4>3. CASE FireRead(p)
        <5>1. op'[p].phase \in {"notify", "settle"}
          BY <4>3, <3>1, <4>2, <2>2, OpDone, SameOp DEF FireRead, GoesOn, SameFiring, Sweeps, Fires
        <5> QED
          BY <2>2, <3>1, <4>1, <4>2, <4>3, <5>1 DEF GoesOn, At, Notify, After, Record, RecordFails
      <4>4. CASE ~FireRead(p)
        BY <3>1, <3>2, <3>5, <4>1, <4>2, <4>4
      <4> QED
        BY <4>3, <4>4
    <3>6. CASE Notify(p)
      <4>1. Current(p) /\ notified' = notified \cup {r}
        BY <3>3, <3>6 DEF Looks, Notify
      <4> QED
        BY <3>1, <4>1
    <3>7. CASE ClaimSettled(p) \/ Launch(p) \/ Record(p)
      <4>1. Current(p) /\ notified' = notified
        BY <3>4, <3>7 DEF Writes
      <4>2. op[p].phase \in {"claim", "record"}
        BY <3>7 DEF ClaimSettled, Launch, Record, At
      <4> QED
        BY <3>1, <3>2, <4>1, <4>2
    <3> QED
      BY <2>2, <3>5, <3>6, <3>7 DEF GoesOn, At
  <2> QED
    BY <1>2, <2>1, <2>2, FireOn DEF Sweeps
<1>3. ASSUME NEW p \in Procs, NEW r \in Reminders, NEW how \in plot.hows[p] \ {"sweep"},
             Exec(p, r, how)
      PROVE  Good(p)'
  BY <1>3, ExecOn DEF Sweeps
<1>4. CASE \E p \in Procs : Fire(p)
  BY <1>1, <1>2, <1>4, FireTyped DEF Steps, Told
<1>5. CASE \E p \in Procs, r \in Reminders : \E how \in plot.hows[p] \ {"sweep"} : Exec(p, r, how)
  BY <1>1, <1>3, <1>5, ExecStepped DEF Steps, Told
<1>6. CASE UNCHANGED op
  BY <1>1, <1>6 DEF Told
<1> QED
  BY <1>4, <1>5, <1>6, PeopleTyped DEF Next, ByPeople, Tick, vars

-----------------------------------------------------------------------------
(* Theorems *)

LEMMA InitInv == Init => IInv
<1> SUFFICES ASSUME Init PROVE IInv
  OBVIOUS
<1>1. /\ \A p \in Procs : op[p] = Idle
      /\ \A r \in Reminders : \E recurring, wake \in BOOLEAN : row[r] = Fresh(recurring, wake)
      /\ sent = {} /\ now = 0 /\ tries = [r \in Reminders |-> 0]
  BY DEF Init
<1>2. /\ \A p \in Procs : op[p].phase = "idle" /\ op[p].todo = {}
      /\ Idle \in Ops
  BY <1>1 DEF Idle, Ops, Hows
<1>3. ASSUME NEW recurring \in BOOLEAN, NEW wake \in BOOLEAN
      PROVE  /\ Fresh(recurring, wake) \in Rows /\ Fresh(recurring, wake).due = 1
             /\ Fresh(recurring, wake).status = "active"
  <2>1. Pending \in Acts
    BY DEF Pending, Acts
  <2> QED
    BY <2>1 DEF Fresh, Rows
<1>4. TypeOK
  <2>1. row \in [Reminders -> Rows]
    BY <1>3 DEF Init
  <2>2. op \in [Procs -> Ops]
    BY <1>2 DEF Init
  <2> QED
    BY <2>1, <2>2 DEF Init, TypeOK, Ops
<1>5. AtHand /\ Leased /\ Budgeted /\ Claimed /\ OwnDelivery /\ Told
  BY <1>1, <1>2 DEF AtHand, HasInHand, Leased, Budgeted, Claimed, OwnDelivery, Told, Fires,
                    Sweeps, Runs, At, Firing
<1>6. FellDue
  BY <1>1, <1>2, <1>3 DEF FellDue, Sweeps, Fires, Firing
<1>7. Counted
  BY <1>1, <1>4, RowTyped DEF Counted, Acts
<1>8. Kept
  BY <1>1 DEF Kept
<1> QED
  BY <1>4, <1>5, <1>6, <1>7, <1>8 DEF IInv

LEMMA NextInv == IInv /\ [Next]_vars => IInv'
BY TypeNext, HandNext, LeaseNext, BudgetNext, ClaimNext, DueNext, CountNext, KeepNext, OwnNext,
   TellNext
   DEF IInv

\* What the proofs below rest on: it holds in every state that is reached.
THEOREM Invariant == Spec => []IInv
BY InitInv, NextInv, PTL DEF Spec

\* Rows, the lease and the processes keep their shape.
THEOREM TypeCorrect == Spec => []TypeOK
<1>1. IInv => TypeOK
  BY DEF IInv
<1> QED
  BY <1>1, Invariant, PTL

\* However many schedulers run sweeps, one at a time fires reminders: every
\* other finds the lease held (reminders._acquire_check_lock).
THEOREM OneSweepFires == Spec => []OneFiring
<1>1. IInv => OneFiring
  BY OneSweeps DEF IInv, OneFiring, Sweeps, Fires
<1> QED
  BY <1>1, Invariant, PTL

\* No action that was not parked meanwhile runs twice at a time
\* (actions._claim_action).
THEOREM RunsOnce == Spec => []NoOverlap
<1>1. ASSUME IInv, NEW p \in Procs, NEW q \in Procs, p # q, At(p, "run"), At(q, "run"),
             op[p].r = op[q].r
      PROVE  op[p].r \subseteq parked
  <2>1. Runs(p) /\ Runs(q) /\ Fires(p) /\ Fires(q)
    BY <1>1 DEF At, Runs, Fires, Firing
  <2>2. op[p].r = {Subject(p)} /\ Subject(p) = Subject(q)
    BY <1>1, <2>1, SubjectAtHand, OneSubject DEF IInv
  <2> QED
    BY <1>1, <2>1, <2>2, OneRuns DEF IInv
<1>2. IInv => NoOverlap
  BY <1>1 DEF NoOverlap
<1> QED
  BY <1>2, Invariant, PTL

Bounded ==
    \A p \in Procs :
         At(p, "claim") /\ op'[p].phase = "run"
            => \A r \in op[p].r \ parked : r \notin sent /\ tries'[r] <= MaxAttempts

\* An occurrence is launched no more often than its attempts allow, and not
\* again once it may have been delivered (actions._claim_action).
THEOREM LaunchedWithinBounds == Spec => LaunchesBounded
<1>1. ASSUME IInv, [Next]_vars, NEW p \in Procs, At(p, "claim"), op'[p].phase = "run",
             NEW r \in op[p].r \ parked
      PROVE  r \notin sent /\ tries'[r] <= MaxAttempts
  <2>1. TypeOK /\ AtHand
    BY <1>1 DEF IInv
  <2>2. Fires(p) /\ op'[p] # op[p]
    BY <1>1 DEF At, Fires, Firing
  <2>3. Fire(p)
    <3>1. ASSUME NEW q \in Procs, NEW s \in Reminders, NEW how \in plot.hows[q] \ {"sweep"},
                 Exec(q, s, how)
          PROVE  FALSE
      BY <1>1, <2>1, <2>2, <3>1, ExecOn, ExecStepped DEF Steps
    <3> QED
      BY <1>1, <2>1, <2>2, <3>1, FireTyped, PeopleTyped DEF Next, Steps, ByPeople, Tick, vars
  <2>4. Launch(p)
    <3>1. Fires(p)'
      BY <1>1 DEF Fires, Firing
    <3> QED
      BY <1>1, <2>1, <2>3, <3>1, FireOn DEF GoesOn, TakesUp
  <2>5. r = Subject(p) /\ r \in Reminders /\ Row(p) = row[r]
    BY <2>1, <2>2, SubjectAtHand DEF Row
  <2>6. row[r].act \in Acts /\ tries \in [Reminders -> Nat] /\ tries[r] \in Nat
    BY <2>1, <2>5, RowTyped DEF TypeOK
  <2>7. r \notin sent
    BY <1>1, <2>4, <2>5 DEF IInv, Kept, Launch, Claimable
  <2>8. tries'[r] <= MaxAttempts
    <3>1. tries'[r] = IF Manual(p) THEN 1 ELSE tries[r] + 1
      BY <2>1, <2>4, <2>5, LaunchedAct
    <3>2. CASE Manual(p)
      BY <3>1, <3>2, AttemptsAssumption
    <3>3. CASE ~Manual(p)
      <4>1. row[r].act.status # "paused"
        BY <2>4, <2>5, <3>3 DEF Launch, Claimable
      <4>2. Attempts(p) \in Nat /\ tries[r] <= Attempts(p)
        BY <1>1, <2>5, <2>6, <3>3, <4>1 DEF IInv, Counted, Attempts, Acts
      <4>3. ~(Attempts(p) >= MaxAttempts)
        BY <2>4 DEF Launch, UsedUp
      <4> QED
        BY <2>6, <3>1, <3>3, <4>2, <4>3, AttemptsAssumption
    <3> QED
      BY <3>2, <3>3
  <2> QED
    BY <2>7, <2>8
<1>2. IInv /\ [Next]_vars => [Bounded]_vars
  BY <1>1 DEF Bounded
<1>3. [][Bounded]_vars => LaunchesBounded
  BY DEF Bounded, LaunchesBounded
<1> QED
  BY <1>2, <1>3, Invariant, PTL DEF Spec

ToldOrDelivered ==
    \A p \in Procs :
         At(p, "settle") /\ op'[p].phase # "settle" /\ Row(p).due # row'[Subject(p)].due
            => Subject(p) \in notified \/ Row(p).act.status \in Undecided

\* A sweep advances no reminder past an occurrence that nobody was told of and
\* that was not delivered either (reminders._fire_one).
THEOREM OccurrencesTold == Spec => NonePassedOver
<1>1. ASSUME IInv, [Next]_vars, NEW p \in Procs, At(p, "settle"), op'[p].phase # "settle",
             Row(p).due # row'[Subject(p)].due
      PROVE  Subject(p) \in notified \/ Row(p).act.status \in Undecided
  <2>1. TypeOK /\ AtHand
    BY <1>1 DEF IInv
  <2>2. Fires(p) /\ op'[p] # op[p] /\ Subject(p) \in Reminders /\ Row(p) = row[Subject(p)]
    BY <1>1, <2>1, SubjectAtHand DEF At, Fires, Firing, Row
  <2>3. Fire(p)
    <3>1. ASSUME NEW q \in Procs, NEW s \in Reminders, NEW how \in plot.hows[q] \ {"sweep"},
                 Exec(q, s, how)
          PROVE  FALSE
      BY <1>1, <2>1, <2>2, <3>1, ExecOn DEF TypeOK
    <3> QED
      BY <1>1, <2>1, <2>2, <3>1, FireTyped, PeopleTyped DEF Next, Steps, ByPeople, Tick, vars
  <2>4. Settle(p)
    <3>1. ~Looks(p)
      BY <1>1, <2>1, <2>2, LooksTyped
    <3>2. ~Writes(p)
      BY <1>1, <2>1, <2>2, SettledAct, LaunchedAct, RecordedAct, ParkedAct DEF Writes
    <3> QED
      BY <2>3, <3>1, <3>2 DEF Fire, Looks, Writes
  <2>5. Expected(p) /\ Row(p).recurring
    <3>1. ~(row' = row)
      BY <1>1, <2>2
    <3>2. ASSUME NEW s, Set(Subject(p), [Row(p) EXCEPT !.status = s]) PROVE FALSE
      <4>1. row[Subject(p)] \in Rows /\ row \in [Reminders -> Rows]
        BY <2>1, <2>2, RowTyped DEF TypeOK
      <4>2. row'[Subject(p)] = [row[Subject(p)] EXCEPT !.status = s]
        BY <2>2, <3>2, <4>1 DEF Set
      <4> QED
        BY <1>1, <2>2, <4>1, <4>2 DEF Rows
    <3> QED
      BY <2>4, <3>1, <3>2 DEF Settle
  <2>6. op[p].how = "sweep"
    BY <1>1, <2>1, <2>2, <2>5 DEF AtHand, HasInHand, At
  <2> QED
    BY <1>1, <2>2, <2>5, <2>6 DEF IInv, Told, Expected, Sweeps
<1>2. IInv /\ [Next]_vars => [ToldOrDelivered]_vars
  BY <1>1 DEF ToldOrDelivered
<1>3. [][ToldOrDelivered]_vars => NonePassedOver
  BY DEF ToldOrDelivered, NonePassedOver
<1> QED
  BY <1>2, <1>3, Invariant, PTL DEF Spec
===============================================================================
