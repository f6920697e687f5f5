----------------------------- MODULE Tasks_proofs -----------------------------
(***************************************************************************)
(* What Tasks guarantees for every set of callers, every pool of tasks and *)
(* every bound: types, claims only on tasks in progress, no cycle of       *)
(* dependencies, no live claim lost, no update lost.                       *)
(***************************************************************************)
EXTENDS Tasks, TLAPS

-----------------------------------------------------------------------------
(* Rows *)

LEMMA NoRowType == NoRow \in Rows /\ NoClaim \in Claims
  BY DEF NoRow, Rows, NoClaim, Claims

LEMMA WrittenType ==
    ASSUME TypeOK, NEW t \in Tasks, NEW r \in Rows
    PROVE  /\ Written(t, r) \in [Tasks -> Rows]
           /\ WrittenIfChanged(t, r) \in [Tasks -> Rows]
  <1>1. task[t].version + 1 \in Nat
    BY DEF TypeOK, Rows
  <1>2. [r EXCEPT !.version = task[t].version + 1] \in Rows
    BY <1>1 DEF Rows
  <1> QED
    BY <1>2 DEF Written, WrittenIfChanged, TypeOK

LEMMA ReleasedType ==
    ASSUME NEW r \in Rows
    PROVE  Released(r) \in Rows
  BY NoRowType DEF Released, Rows, Statuses

LEMMA WithFieldsType ==
    ASSUME NEW r \in Rows, NEW status \in Statuses, NEW owner \in Agents \cup {NoAgent},
           NEW deps \in SUBSET Tasks
    PROVE  WithFields(r, status, owner, deps) \in Rows
  BY NoRowType DEF WithFields, Rows

LEMMA WithClaimType ==
    ASSUME NEW r \in Rows, NEW by \in Callers, NEW until \in Nat
    PROVE  WithClaim(r, by, until) \in Rows
  BY DEF WithClaim, Rows, Claims, Statuses

\* The renamed owner leaves the rest of the row.
LEMMA ReownedFields ==
    ASSUME NEW r \in Rows, NEW agent \in Agents
    PROVE  /\ Reowned(r, agent) \in Rows
           /\ Reowned(r, agent).deps = r.deps
           /\ Reowned(r, agent).status = r.status
           /\ Reowned(r, agent).claim = r.claim
  BY DEF Reowned, Rows

LEMMA HandedOverType ==
    ASSUME NEW r \in Rows, NEW agent \in Agents
    PROVE  HandedOver(r, agent) \in Rows
  <1> DEFINE owned == Reowned(r, agent)
  <1>1. owned \in Rows
    BY ReownedFields
  <1>2. Released(owned) \in Rows
    BY <1>1, ReleasedType
  <1>3. [owned EXCEPT !.claim.holder = agent] \in Rows
    BY <1>1 DEF Rows, Claims, Callers
  <1> QED
    BY <1>1, <1>2, <1>3 DEF HandedOver

\* The doctor keeps dependencies; it keeps the status too unless it releases.
LEMMA HandedOverFields ==
    ASSUME NEW r \in Rows, NEW agent \in Agents
    PROVE  /\ HandedOver(r, agent).deps = r.deps
           /\ r.claim.holder # Claude =>
                /\ HandedOver(r, agent).claim = r.claim
                /\ HandedOver(r, agent).status = r.status
           /\ (r.claim.holder = Claude /\ Expired(r)) =>
                HandedOver(r, agent).claim = NoClaim
           /\ (r.claim.holder = Claude /\ ~Expired(r)) =>
                /\ HandedOver(r, agent).claim = [r.claim EXCEPT !.holder = agent]
                /\ HandedOver(r, agent).status = r.status
  <1> DEFINE owned == Reowned(r, agent)
  <1>1. /\ owned.deps = r.deps /\ owned.status = r.status /\ owned.claim = r.claim
        /\ owned \in Rows
    BY ReownedFields
  <1>2. CASE r.claim.holder # Claude
    <2>1. HandedOver(r, agent) = owned
      BY <1>2 DEF HandedOver
    <2> HIDE DEF owned
    <2>2. /\ HandedOver(r, agent).deps = r.deps
          /\ HandedOver(r, agent).status = r.status
          /\ HandedOver(r, agent).claim = r.claim
      BY <1>1, <2>1
    <2> QED
      BY <1>2, <2>2
  <1>3. CASE r.claim.holder = Claude /\ Expired(r)
    <2>1. HandedOver(r, agent) = Released(owned)
      BY <1>3 DEF HandedOver
    <2> HIDE DEF owned
    <2>2. Released(owned).deps = r.deps /\ Released(owned).claim = NoClaim
      BY <1>1 DEF Released, Rows
    <2> QED
      BY <1>3, <2>1, <2>2
  <1>4. CASE r.claim.holder = Claude /\ ~Expired(r)
    <2>1. HandedOver(r, agent) = [owned EXCEPT !.claim.holder = agent]
      BY <1>4 DEF HandedOver
    <2> HIDE DEF owned
    <2>2. /\ [owned EXCEPT !.claim.holder = agent].deps = r.deps
          /\ [owned EXCEPT !.claim.holder = agent].status = r.status
          /\ [owned EXCEPT !.claim.holder = agent].claim = [r.claim EXCEPT !.holder = agent]
      BY <1>1 DEF Rows
    <2> QED
      BY <1>4, <2>1, <2>2
  <1> QED
    BY <1>2, <1>3, <1>4

\* The operations that hosts also reach through the task service, for whatever
\* fields they give.
LEMMA UpdateType ==
    ASSUME TypeOK, NEW by \in Callers, NEW t \in Tasks, NEW status \in Statuses,
           NEW owner \in Agents \cup {NoAgent}, NEW deps \in SUBSET Tasks,
           NEW force \in BOOLEAN, NEW cas \in BOOLEAN,
           UpdateTask(by, t, status, owner, deps, force, cas)
    PROVE  TypeOK'
  <1>1. WithFields(task[t], status, owner, deps) \in Rows
    BY WithFieldsType DEF TypeOK
  <1> QED
    BY <1>1, WrittenType DEF UpdateTask, Note, TypeOK

LEMMA ClaimType ==
    ASSUME TypeOK, NEW by \in Callers, NEW t \in Tasks, NEW ttl \in Nat,
           NEW force \in BOOLEAN, ClaimTask(by, t, ttl, force)
    PROVE  TypeOK'
  <1>1. WithClaim(task[t], by, now + ttl) \in Rows
    BY WithClaimType DEF TypeOK
  <1> QED
    BY <1>1, WrittenType DEF ClaimTask, Note, TypeOK

LEMMA ReleaseType ==
    ASSUME TypeOK, NEW by \in Callers, NEW t \in Tasks, NEW force \in BOOLEAN,
           ReleaseTask(by, t, force)
    PROVE  TypeOK'
  BY ReleasedType, WrittenType DEF ReleaseTask, Note, TypeOK

\* Whatever callers, sweep and doctor interleave.
LEMMA TypeStep == TypeOK /\ [Next]_vars => TypeOK'
  <1> SUFFICES ASSUME TypeOK, [Next]_vars PROVE TypeOK'
    OBVIOUS
  <1>1. ASSUME NEW by \in Callers, NEW t \in Tasks, NEW owner \in Owners,
               NEW deps \in DepLists, CreateTask(by, t, owner, deps)
        PROVE  TypeOK'
    <2>1. [NoRow EXCEPT !.status = "open", !.owner = owner, !.deps = deps] \in Rows
      BY NoRowType, InputsAssumption DEF Rows, Statuses
    <2> QED
      BY <1>1, <2>1, WrittenType DEF CreateTask, Note, TypeOK
  <1>2. ASSUME NEW by \in Callers, NEW t \in Tasks, NEW status \in Statuses,
               NEW owner \in Owners \cup {task[t].owner},
               NEW deps \in DepLists \cup {task[t].deps},
               NEW force \in BOOLEAN, NEW cas \in BOOLEAN,
               UpdateTask(by, t, status, owner, deps, force, cas)
        PROVE  TypeOK'
    <2>1. owner \in Agents \cup {NoAgent} /\ deps \in SUBSET Tasks
      BY InputsAssumption DEF TypeOK, Rows
    <2> QED
      BY <1>2, <2>1, UpdateType
  <1>3. ASSUME NEW by \in Callers, NEW t \in Tasks, NEW ttl \in Ttls,
               NEW force \in BOOLEAN, ClaimTask(by, t, ttl, force)
        PROVE  TypeOK'
    <2>1. ttl \in Nat
      BY BoundsAssumption
    <2> QED
      BY <1>3, <2>1, ClaimType
  <1>4. ASSUME NEW by \in Callers, NEW t \in Tasks, NEW force \in BOOLEAN,
               ReleaseTask(by, t, force)
        PROVE  TypeOK'
    BY <1>4, ReleaseType
  <1>5. ASSUME NEW by \in Callers, NEW t \in Tasks, ReadTask(by, t)
        PROVE  TypeOK'
    BY <1>5 DEF ReadTask, Note, TypeOK
  <1>6. ASSUME NEW agent \in Agents, RepairTaskOwners(agent)
        PROVE  TypeOK'
    <2>1. \A t \in Tasks : Written(t, HandedOver(task[t], agent))[t] \in Rows
      BY HandedOverType, WrittenType DEF TypeOK
    <2>2. task' \in [Tasks -> Rows]
      BY <1>6, <2>1 DEF RepairTaskOwners, TypeOK
    <2> QED
      BY <1>6, <2>2 DEF RepairTaskOwners, Note, Callers, TypeOK
  <1>7. CASE Tick
    BY <1>7 DEF Tick, Note, TypeOK
  <1>8. CASE SweepRead
    BY <1>8 DEF SweepRead, Listed, Note, TypeOK
  <1>9. ASSUME NEW t \in Tasks, SweepRelease(t)
        PROVE  TypeOK'
    BY <1>9, ReleasedType, WrittenType DEF SweepRelease, Note, TypeOK
  <1>10. CASE UNCHANGED vars
    BY <1>10 DEF vars, TypeOK
  <1> QED
    BY <1>1, <1>2, <1>3, <1>4, <1>5, <1>6, <1>7, <1>8, <1>9, <1>10
       DEF Next, CallerStep, Sweep

\* Init is of the shape.
LEMMA TypeInit == Init => TypeOK
  BY NoRowType DEF Init, TypeOK

\* Rows, reads and sweep keep their shape in every reachable state.
THEOREM TypeCorrect == Spec => []TypeOK
  BY TypeInit, TypeStep, PTL DEF Spec

-----------------------------------------------------------------------------
(* What a step may do to a row *)

\* A step writes one row, which then has the content it was given, or the doctor
\* writes some, or the rows stay as they are.
Content(r) == [status |-> r.status, claim |-> r.claim, owner |-> r.owner, deps |-> r.deps]

\* What a written row holds, field by field.
LEMMA WrittenFields ==
    ASSUME TypeOK, NEW t \in Tasks, NEW r \in Rows
    PROVE  /\ Content(Written(t, r)[t]) = Content(r)
           /\ Written(t, r)[t].version = task[t].version + 1
           /\ \A x \in Tasks : x # t => Written(t, r)[x] = task[x]
  BY DEF Written, Content, TypeOK, Rows

LEMMA WrittenIfChangedFields ==
    ASSUME TypeOK, NEW t \in Tasks, NEW r \in Rows
    PROVE  /\ Content(WrittenIfChanged(t, r)[t]) = Content(r)
           /\ \/ WrittenIfChanged(t, r)[t] = task[t]
              \/ WrittenIfChanged(t, r)[t].version = task[t].version + 1
           /\ \A x \in Tasks : x # t => WrittenIfChanged(t, r)[x] = task[x]
  <1>1. CASE r = task[t]
    BY <1>1 DEF WrittenIfChanged
  <1>2. CASE r # task[t]
    BY <1>2, WrittenFields DEF WrittenIfChanged
  <1> QED
    BY <1>1, <1>2

\* An update, a creation, a claim and a release, as they act on content.
UpdateRow(t) ==
    \E status \in Statuses, owner \in Agents \cup {NoAgent}, deps \in SUBSET Tasks :
      /\ Content(task'[t]) = Content(WithFields(task[t], status, owner, deps))
      /\ Dependable(t, deps)
CreateRow(t) ==
    \E owner \in Agents \cup {NoAgent}, deps \in SUBSET Tasks :
      /\ Content(task'[t]) = [status |-> "open", claim |-> NoClaim, owner |-> owner,
                             deps |-> deps]
      /\ Dependable(t, deps)
ClaimRow(t) ==
    \E by \in Callers, until \in Nat :
      Content(task'[t]) = Content(WithClaim(task[t], by, until))
ReleaseRow(t) == Content(task'[t]) = Content(Released(task[t]))
DoctorRow(t) ==
    /\ Exists(t)
    /\ \E agent \in Agents : Content(task'[t]) = Content(HandedOver(task[t], agent))
Alone(t) == \A x \in Tasks : x # t => task'[x] = task[x]

Stays(t) == task'[t] = task[t]
OneRow(t) ==
    /\ Alone(t)
    /\ \/ Stays(t)
       \/ UpdateRow(t)
       \/ ~Exists(t) /\ CreateRow(t)
       \/ ClaimRow(t)
       \/ Claimed(task[t]) /\ ReleaseRow(t)
DoctorRows == \A t \in Tasks : Stays(t) \/ DoctorRow(t)

\* An update, a claim and a release write their row.
LEMMA UpdateOneRow ==
    ASSUME TypeOK, NEW by, NEW t \in Tasks, NEW status \in Statuses,
           NEW owner \in Agents \cup {NoAgent}, NEW deps \in SUBSET Tasks,
           NEW force, NEW cas, UpdateTask(by, t, status, owner, deps, force, cas)
    PROVE  OneRow(t)
  <1> DEFINE r == WithFields(task[t], status, owner, deps)
  <1>1. r \in Rows
    BY WithFieldsType DEF TypeOK
  <1>2. task' = WrittenIfChanged(t, r) /\ Dependable(t, deps)
    BY DEF UpdateTask
  <1>3. Content(task'[t]) = Content(r) /\ Alone(t)
    BY <1>1, <1>2, WrittenIfChangedFields DEF Alone
  <1> QED
    BY <1>2, <1>3 DEF OneRow, UpdateRow

LEMMA ClaimOneRow ==
    ASSUME TypeOK, NEW by \in Callers, NEW t \in Tasks, NEW ttl \in Nat, NEW force,
           ClaimTask(by, t, ttl, force)
    PROVE  OneRow(t)
  <1>1. now + ttl \in Nat
    BY DEF TypeOK
  <1>2. WithClaim(task[t], by, now + ttl) \in Rows
    BY <1>1, WithClaimType DEF TypeOK
  <1>3. Content(task'[t]) = Content(WithClaim(task[t], by, now + ttl)) /\ Alone(t)
    BY <1>2, WrittenFields DEF ClaimTask, Alone
  <1> QED
    BY <1>1, <1>3 DEF OneRow, ClaimRow

LEMMA ReleaseOneRow ==
    ASSUME TypeOK, NEW t \in Tasks, Claimed(task[t]), task' = Written(t, Released(task[t]))
    PROVE  OneRow(t)
  <1>1. Released(task[t]) \in Rows
    BY ReleasedType DEF TypeOK
  <1> QED
    BY <1>1, WrittenFields DEF OneRow, ReleaseRow, Alone

\* Every step writes one row, or is the doctor's, or leaves the rows.
RowSteps ==
    \/ \A t \in Tasks : Stays(t)
    \/ \E t \in Tasks : OneRow(t)
    \/ DoctorRows
LEMMA StepRows ==
    ASSUME TypeOK, [Next]_vars
    PROVE  RowSteps
  <1>1. ASSUME NEW by \in Callers, NEW t \in Tasks, NEW owner \in Owners,
               NEW deps \in DepLists, CreateTask(by, t, owner, deps)
        PROVE  OneRow(t)
    <2> DEFINE r == [NoRow EXCEPT !.status = "open", !.owner = owner, !.deps = deps]
    <2>1. owner \in Agents \cup {NoAgent} /\ deps \in SUBSET Tasks
      BY InputsAssumption
    <2>2. r \in Rows
      BY <2>1, NoRowType DEF Rows, Statuses
    <2>3. Content(r) = [status |-> "open", claim |-> NoClaim, owner |-> owner,
                        deps |-> deps]
      BY DEF Content, NoRow
    <2>4. task' = Written(t, r)
      BY <1>1 DEF CreateTask
    <2> HIDE DEF r
    <2>5. Content(task'[t]) = Content(r) /\ Alone(t)
      BY <2>2, <2>4, WrittenFields DEF Alone
    <2> QED
      BY <1>1, <2>1, <2>3, <2>5 DEF CreateTask, OneRow, CreateRow
  <1>2. ASSUME NEW by \in Callers, NEW t \in Tasks, NEW status \in Statuses,
               NEW owner \in Owners \cup {task[t].owner},
               NEW deps \in DepLists \cup {task[t].deps},
               NEW force \in BOOLEAN, NEW cas \in BOOLEAN,
               UpdateTask(by, t, status, owner, deps, force, cas)
        PROVE  OneRow(t)
    <2>1. owner \in Agents \cup {NoAgent} /\ deps \in SUBSET Tasks
      BY InputsAssumption DEF TypeOK, Rows
    <2> QED
      BY <1>2, <2>1, UpdateOneRow
  <1>3. ASSUME NEW by \in Callers, NEW t \in Tasks, NEW ttl \in Ttls,
               NEW force \in BOOLEAN, ClaimTask(by, t, ttl, force)
        PROVE  OneRow(t)
    <2>1. ttl \in Nat
      BY BoundsAssumption
    <2> QED
      BY <1>3, <2>1, ClaimOneRow
  <1>4. ASSUME NEW t \in Tasks, Claimed(task[t]), task' = Written(t, Released(task[t]))
        PROVE  OneRow(t)
    BY <1>4, ReleaseOneRow
  <1>5. ASSUME NEW agent \in Agents, RepairTaskOwners(agent)
        PROVE  DoctorRows
    <2> SUFFICES ASSUME NEW t \in Tasks PROVE Stays(t) \/ DoctorRow(t)
      BY DEF DoctorRows
    <2>1. HandedOver(task[t], agent) \in Rows
      BY HandedOverType DEF TypeOK
    <2> QED
      BY <1>5, <2>1, WrittenFields DEF RepairTaskOwners, Repairable, Stays, DoctorRow
  <1>6. CASE task' = task
    BY <1>6 DEF Stays, RowSteps
  <1>7. ASSUME NEW t \in Tasks, SweepRelease(t)
        PROVE  task' = task \/ OneRow(t)
    BY <1>4, <1>7 DEF SweepRelease, StillExpired, Expired
  <1>8. ASSUME NEW by \in Callers, CallerStep(by)
        PROVE  task' = task \/ \E t \in Tasks : OneRow(t)
    <2>1. PICK t \in Tasks :
            \/ \E owner \in Owners, deps \in DepLists : CreateTask(by, t, owner, deps)
            \/ \E status \in Statuses, owner \in Owners \cup {task[t].owner},
                  deps \in DepLists \cup {task[t].deps}, force, cas \in BOOLEAN :
                 UpdateTask(by, t, status, owner, deps, force, cas)
            \/ \E ttl \in Ttls, force \in BOOLEAN : ClaimTask(by, t, ttl, force)
            \/ \E force \in BOOLEAN : ReleaseTask(by, t, force)
            \/ ReadTask(by, t)
      BY <1>8 DEF CallerStep
    <2>2. CASE \E force \in BOOLEAN : ReleaseTask(by, t, force)
      BY <1>4, <2>2 DEF ReleaseTask
    <2>3. CASE ReadTask(by, t)
      BY <2>3 DEF ReadTask
    <2> QED
      BY <1>1, <1>2, <1>3, <2>1, <2>2, <2>3
  <1> QED
    BY <1>5, <1>6, <1>7, <1>8 DEF Next, Sweep, Tick, SweepRead, vars, RowSteps

-----------------------------------------------------------------------------
(* Claims *)

LEMMA ClaimInit == Init => ClaimedInProgress
  BY DEF Init, ClaimedInProgress, Claimed, NoRow

\* The claim and the status change together, also in the doctor's hands.
LEMMA ClaimStep ==
    ASSUME TypeOK, ClaimedInProgress, RowSteps
    PROVE  ClaimedInProgress'
  <1> SUFFICES ASSUME NEW t \in Tasks, task'[t].claim # NoClaim
               PROVE  task'[t].status = "in_progress"
    BY DEF ClaimedInProgress, Claimed
  <1>1. task[t].claim # NoClaim => task[t].status = "in_progress"
    BY DEF ClaimedInProgress, Claimed
  <1>2. CASE Stays(t)
    BY <1>1, <1>2 DEF Stays
  <1>3. CASE UpdateRow(t)
    BY <1>3, <1>1 DEF UpdateRow, Content, WithFields, TypeOK, Rows
  <1>4. CASE CreateRow(t)
    BY <1>4 DEF CreateRow, Content
  <1>5. CASE ClaimRow(t)
    BY <1>5 DEF ClaimRow, Content, WithClaim, TypeOK, Rows
  <1>6. CASE ReleaseRow(t)
    BY <1>6 DEF ReleaseRow, Content, Released, TypeOK, Rows
  <1>7. CASE DoctorRow(t)
    <2>1. task[t] \in Rows
      BY DEF TypeOK
    <2>2. PICK agent \in Agents : Content(task'[t]) = Content(HandedOver(task[t], agent))
      BY <1>7 DEF DoctorRow
    <2>3. task[t].claim.holder = Claude => task[t].claim # NoClaim
      BY CallersAssumption DEF NoClaim, Callers
    <2>4. HandedOver(task[t], agent).claim # NoClaim =>
            /\ task[t].claim # NoClaim
            /\ HandedOver(task[t], agent).status = task[t].status
      BY <2>1, <2>3, HandedOverFields
    <2> QED
      BY <1>1, <2>2, <2>4 DEF Content
  <1> QED
    BY <1>2, <1>3, <1>4, <1>5, <1>6, <1>7 DEF RowSteps, OneRow, Alone, DoctorRows, Stays

-----------------------------------------------------------------------------
(* Dependencies *)

\* Giving a task references from which it is not reached closes no cycle: a set
\* that each member depends on would, cut down to what the references reach, be
\* one that was there before.
LEMMA NoCycleClosed ==
    ASSUME Acyclic, NEW t \in Tasks, NEW refs \in SUBSET Tasks,
           ~Cyclic(t, refs), Alone(t), task'[t].deps = refs
    PROVE  Acyclic'
  <1> SUFFICES ASSUME NEW S \in SUBSET Tasks, S # {},
                      \A x \in S : task'[x].deps \cap S # {}
               PROVE  FALSE
    BY DEF Acyclic
  <1>1. PICK C \in SUBSET Tasks :
          refs \subseteq C /\ (\A d \in C : task[d].deps \subseteq C) /\ t \notin C
    BY DEF Cyclic
  <1>2. \A x \in S : x # t => task[x].deps = task'[x].deps
    BY DEF Alone
  <1>3. CASE t \notin S
    BY <1>2, <1>3 DEF Acyclic
  <1>4. CASE t \in S
    <2>1. S \cap C \in SUBSET Tasks /\ S \cap C # {}
      BY <1>1, <1>4
    <2>2. PICK x \in S \cap C : task[x].deps \cap (S \cap C) = {}
      BY <2>1 DEF Acyclic
    <2>3. task[x].deps \cap S # {} /\ task[x].deps \subseteq C
      BY <1>1, <1>2, <2>2
    <2> QED
      BY <2>2, <2>3
  <1> QED
    BY <1>3, <1>4

LEMMA AcyclicKept ==
    ASSUME Acyclic, \A x \in Tasks : task'[x].deps = task[x].deps
    PROVE  Acyclic'
  BY DEF Acyclic

LEMMA AcyclicInit == Init => Acyclic
  <1> SUFFICES ASSUME Init, NEW S \in SUBSET Tasks, S # {}
               PROVE  \E t \in S : task[t].deps \cap S = {}
    BY DEF Acyclic
  <1>1. PICK t \in S : TRUE
    OBVIOUS
  <1> QED
    BY <1>1 DEF Init, NoRow

LEMMA AcyclicStep ==
    ASSUME TypeOK, Acyclic, RowSteps
    PROVE  Acyclic'
  <1>1. ASSUME NEW t \in Tasks, OneRow(t)
        PROVE  Acyclic'
    <2>1. CASE UpdateRow(t)
      <3>1. PICK deps \in SUBSET Tasks : task'[t].deps = deps /\ Dependable(t, deps)
        BY <2>1 DEF UpdateRow, Content, WithFields, TypeOK, Rows
      <3> QED
        BY <1>1, <3>1, NoCycleClosed DEF Dependable, OneRow
    <2>2. CASE CreateRow(t)
      <3>1. PICK deps \in SUBSET Tasks : task'[t].deps = deps /\ Dependable(t, deps)
        BY <2>2 DEF CreateRow, Content
      <3> QED
        BY <1>1, <3>1, NoCycleClosed DEF Dependable, OneRow
    <2>3. CASE Stays(t) \/ ClaimRow(t) \/ ReleaseRow(t)
      <3>1. task'[t].deps = task[t].deps
        <4>1. task[t] \in Rows
          BY DEF TypeOK
        <4>2. CASE Stays(t)
          BY <4>2 DEF Stays
        <4>3. CASE ClaimRow(t)
          BY <4>1, <4>3 DEF ClaimRow, Content, WithClaim, Rows
        <4>4. CASE ReleaseRow(t)
          BY <4>1, <4>4 DEF ReleaseRow, Content, Released, Rows
        <4> QED
          BY <2>3, <4>2, <4>3, <4>4
      <3> QED
        BY <1>1, <3>1, AcyclicKept DEF OneRow, Alone
    <2> QED
      BY <1>1, <2>1, <2>2, <2>3 DEF OneRow
  <1>2. CASE DoctorRows
    <2>1. \A t \in Tasks, agent \in Agents : HandedOver(task[t], agent).deps = task[t].deps
      BY HandedOverFields DEF TypeOK
    <2>2. \A t \in Tasks : task'[t].deps = task[t].deps
      BY <1>2, <2>1 DEF DoctorRows, DoctorRow, Stays, Content
    <2> QED
      BY <2>2, AcyclicKept
  <1>3. CASE \A t \in Tasks : Stays(t)
    BY <1>3, AcyclicKept DEF Stays
  <1> QED
    BY <1>1, <1>2, <1>3 DEF RowSteps

-----------------------------------------------------------------------------
(* What readers saw *)

\* A row a reader got is no newer than the row, and when it has its version it
\* is the row.
SeenIsPast ==
    \A c \in Readers, t \in Tasks :
        seen[c].t = {t} =>
            /\ seen[c].row.version <= task[t].version
            /\ seen[c].row.version = task[t].version => seen[c].row = task[t]

\* A step of a caller, its inputs out in front.
LEMMA CallerCases ==
    ASSUME NEW by \in Callers, CallerStep(by)
    PROVE  \E x \in Tasks :
             \/ \E owner \in Owners, deps \in DepLists : CreateTask(by, x, owner, deps)
             \/ \E status \in Statuses, owner \in Owners \cup {task[x].owner},
                   deps \in DepLists \cup {task[x].deps}, force, cas \in BOOLEAN :
                  UpdateTask(by, x, status, owner, deps, force, cas)
             \/ \E ttl \in Ttls, force \in BOOLEAN : ClaimTask(by, x, ttl, force)
             \/ \E force \in BOOLEAN : ReleaseTask(by, x, force)
             \/ ReadTask(by, x)
  BY DEF CallerStep

\* The version of a row counts every change of it.
LEMMA VersionCounts ==
    ASSUME TypeOK, [Next]_vars, NEW t \in Tasks
    PROVE  task'[t] = task[t] \/ task'[t].version = task[t].version + 1
  <1>1. ASSUME NEW x \in Tasks, NEW r \in Rows,
               task' = Written(x, r) \/ task' = WrittenIfChanged(x, r)
        PROVE  task'[t] = task[t] \/ task'[t].version = task[t].version + 1
    BY <1>1, WrittenFields, WrittenIfChangedFields
  <1>2. CASE task' = task
    BY <1>2
  <1>3. ASSUME NEW x \in Tasks, task' = Written(x, Released(task[x]))
        PROVE  task'[t] = task[t] \/ task'[t].version = task[t].version + 1
    BY <1>1, <1>3, ReleasedType DEF TypeOK
  <1>4. CASE \E agent \in Agents : RepairTaskOwners(agent)
    <2>1. PICK agent \in Agents : RepairTaskOwners(agent)
      BY <1>4
    <2>2. HandedOver(task[t], agent) \in Rows
      BY HandedOverType DEF TypeOK
    <2> QED
      BY <2>1, <2>2, WrittenFields DEF RepairTaskOwners
  <1>5. ASSUME NEW by \in Callers, NEW x \in Tasks, NEW owner \in Owners,
               NEW deps \in DepLists, CreateTask(by, x, owner, deps)
        PROVE  task'[t] = task[t] \/ task'[t].version = task[t].version + 1
    <2>1. [NoRow EXCEPT !.status = "open", !.owner = owner, !.deps = deps] \in Rows
      BY NoRowType, InputsAssumption DEF Rows, Statuses
    <2> QED
      BY <1>1, <1>5, <2>1 DEF CreateTask
  <1>6. ASSUME NEW by \in Callers, NEW x \in Tasks, NEW status \in Statuses,
               NEW owner \in Owners \cup {task[x].owner},
               NEW deps \in DepLists \cup {task[x].deps},
               NEW force \in BOOLEAN, NEW cas \in BOOLEAN,
               UpdateTask(by, x, status, owner, deps, force, cas)
        PROVE  task'[t] = task[t] \/ task'[t].version = task[t].version + 1
    <2>1. owner \in Agents \cup {NoAgent} /\ deps \in SUBSET Tasks
      BY InputsAssumption DEF TypeOK, Rows
    <2>2. WithFields(task[x], status, owner, deps) \in Rows
      BY <2>1, WithFieldsType DEF TypeOK
    <2> QED
      BY <1>1, <1>6, <2>2 DEF UpdateTask
  <1>7. ASSUME NEW by \in Callers, NEW x \in Tasks, NEW ttl \in Ttls,
               NEW force \in BOOLEAN, ClaimTask(by, x, ttl, force)
        PROVE  task'[t] = task[t] \/ task'[t].version = task[t].version + 1
    <2>1. now + ttl \in Nat
      BY BoundsAssumption DEF TypeOK
    <2>2. WithClaim(task[x], by, now + ttl) \in Rows
      BY <2>1, WithClaimType DEF TypeOK
    <2> QED
      BY <1>1, <1>7, <2>2 DEF ClaimTask
  <1>8. ASSUME NEW by \in Callers, CallerStep(by)
        PROVE  task'[t] = task[t] \/ task'[t].version = task[t].version + 1
    <2>1. ASSUME NEW x \in Tasks, NEW force \in BOOLEAN, ReleaseTask(by, x, force)
          PROVE  task'[t] = task[t] \/ task'[t].version = task[t].version + 1
      BY <1>3, <2>1 DEF ReleaseTask
    <2>2. ASSUME NEW x \in Tasks, ReadTask(by, x)
          PROVE  task'[t] = task[t] \/ task'[t].version = task[t].version + 1
      BY <1>2, <2>2 DEF ReadTask
    <2> QED
      BY <1>5, <1>6, <1>7, <1>8, <2>1, <2>2, CallerCases
  <1> QED
    BY <1>2, <1>3, <1>4, <1>8 DEF Next, Sweep, Tick, SweepRead, SweepRelease, vars

LEMMA SeenStep ==
    ASSUME TypeOK, SeenIsPast, [Next]_vars
    PROVE  SeenIsPast'
  <1> SUFFICES ASSUME NEW c \in Readers, NEW t \in Tasks, seen'[c].t = {t}
               PROVE  /\ seen'[c].row.version <= task'[t].version
                      /\ seen'[c].row.version = task'[t].version => seen'[c].row = task'[t]
    BY DEF SeenIsPast
  <1>1. task[t].version \in Nat /\ seen[c].row.version \in Nat
    BY DEF TypeOK, Rows
  <1>2. CASE seen'[c] = seen[c]
    BY <1>1, <1>2, VersionCounts DEF SeenIsPast
  <1>3. CASE \E by \in Callers, x \in Tasks : ReadTask(by, x)
    <2>1. PICK by \in Callers, x \in Tasks : ReadTask(by, x)
      BY <1>3
    <2>2. CASE by # c
      BY <1>2, <2>1, <2>2 DEF ReadTask, TypeOK
    <2>3. CASE by = c
      <3>1. seen'[c] = [t |-> {x}, row |-> task[x]] /\ task' = task
        BY <2>1, <2>3 DEF ReadTask, TypeOK
      <3> QED
        BY <1>1, <3>1
    <2> QED
      BY <2>2, <2>3
  <1>4. ASSUME NEW by \in Callers, CallerStep(by)
        PROVE  \/ seen' = seen
               \/ \E x \in Tasks : ReadTask(by, x)
    <2>1. PICK x \in Tasks :
             \/ \E owner \in Owners, deps \in DepLists : CreateTask(by, x, owner, deps)
             \/ \E status \in Statuses, owner \in Owners \cup {task[x].owner},
                   deps \in DepLists \cup {task[x].deps}, force, cas \in BOOLEAN :
                  UpdateTask(by, x, status, owner, deps, force, cas)
             \/ \E ttl \in Ttls, force \in BOOLEAN : ClaimTask(by, x, ttl, force)
             \/ \E force \in BOOLEAN : ReleaseTask(by, x, force)
             \/ ReadTask(by, x)
      BY <1>4, CallerCases
    <2>2. CASE \E owner \in Owners, deps \in DepLists : CreateTask(by, x, owner, deps)
      BY <2>2 DEF CreateTask
    <2>3. CASE \E status \in Statuses, owner \in Owners \cup {task[x].owner},
                  deps \in DepLists \cup {task[x].deps}, force, cas \in BOOLEAN :
                 UpdateTask(by, x, status, owner, deps, force, cas)
      BY <2>3 DEF UpdateTask
    <2>4. CASE \E ttl \in Ttls, force \in BOOLEAN : ClaimTask(by, x, ttl, force)
      BY <2>4 DEF ClaimTask
    <2>5. CASE \E force \in BOOLEAN : ReleaseTask(by, x, force)
      BY <2>5 DEF ReleaseTask
    <2> QED
      BY <2>1, <2>2, <2>3, <2>4, <2>5
  <1>5. CASE seen' = seen
    BY <1>2, <1>5
  <1>6. seen' = seen \/ \E by \in Callers : CallerStep(by)
    BY DEF Next, Sweep, SweepRead, SweepRelease, Tick, RepairTaskOwners, vars
  <1> QED
    BY <1>3, <1>4, <1>5, <1>6

-----------------------------------------------------------------------------
(* Theorems *)

IInv == TypeOK /\ ClaimedInProgress /\ Acyclic /\ SeenIsPast

THEOREM Invariance == Spec => []IInv
  <1>1. Init => ClaimedInProgress /\ Acyclic /\ SeenIsPast
    BY ClaimInit, AcyclicInit DEF Init, SeenIsPast
  <1>2. TypeOK /\ TypeOK' /\ (ClaimedInProgress /\ Acyclic /\ SeenIsPast) /\ [Next]_vars
          => (ClaimedInProgress /\ Acyclic /\ SeenIsPast)'
    BY StepRows, ClaimStep, AcyclicStep, SeenStep
  <1> QED
    BY TypeCorrect, <1>1, <1>2, PTL DEF Spec, IInv

\* Only a task in progress carries a claim (tasks.cleanup_expired_claims looks at
\* no other).
THEOREM ClaimsInProgress == Spec => []ClaimedInProgress
  <1>1. IInv => ClaimedInProgress
    BY DEF IInv
  <1> QED
    BY Invariance, <1>1, PTL

\* Dependencies never form a cycle (tasks._dependencies).
THEOREM DependenciesAcyclic == Spec => []Acyclic
  <1>1. IInv => Acyclic
    BY DEF IInv
  <1> QED
    BY Invariance, <1>1, PTL

\* Who sent a version that the row still has saw the row.
LEMMA StepSees ==
    ASSUME TypeOK, SeenIsPast, Next, NEW c \in Readers, NEW t \in Tasks,
           last'.cas, last'.by = c, task'[t] # task[t]
    PROVE  task[t] = seen[c].row
  <1>0. PICK x \in Tasks :
           \E status \in Statuses, owner \in Owners \cup {task[x].owner},
              deps \in DepLists \cup {task[x].deps}, force \in BOOLEAN :
             UpdateTask(c, x, status, owner, deps, force, TRUE)
    <2>1. \E by \in Callers : CallerStep(by)
      BY DEF Next, Sweep, SweepRead, SweepRelease, Tick, RepairTaskOwners, Note
    <2>2. PICK by \in Callers, x \in Tasks :
           \/ \E owner \in Owners, deps \in DepLists : CreateTask(by, x, owner, deps)
           \/ \E status \in Statuses, owner \in Owners \cup {task[x].owner},
                 deps \in DepLists \cup {task[x].deps}, force, cas \in BOOLEAN :
                UpdateTask(by, x, status, owner, deps, force, cas)
           \/ \E ttl \in Ttls, force \in BOOLEAN : ClaimTask(by, x, ttl, force)
           \/ \E force \in BOOLEAN : ReleaseTask(by, x, force)
           \/ ReadTask(by, x)
      BY <2>1, CallerCases
    <2>3. CASE \E owner \in Owners, deps \in DepLists : CreateTask(by, x, owner, deps)
      BY <2>3 DEF CreateTask, Note
    <2>4. CASE \E ttl \in Ttls, force \in BOOLEAN : ClaimTask(by, x, ttl, force)
      BY <2>4 DEF ClaimTask, Note
    <2>5. CASE \E force \in BOOLEAN : ReleaseTask(by, x, force)
      BY <2>5 DEF ReleaseTask, Note
    <2>6. CASE ReadTask(by, x)
      BY <2>6 DEF ReadTask, Note
    <2>7. CASE \E status \in Statuses, owner \in Owners \cup {task[x].owner},
                 deps \in DepLists \cup {task[x].deps}, force, cas \in BOOLEAN :
                UpdateTask(by, x, status, owner, deps, force, cas)
      <3>1. PICK status \in Statuses, owner \in Owners \cup {task[x].owner},
                 deps \in DepLists \cup {task[x].deps}, force \in BOOLEAN,
                 cas \in BOOLEAN :
              UpdateTask(by, x, status, owner, deps, force, cas)
        BY <2>7
      <3>2. cas /\ by = c
        BY <3>1 DEF UpdateTask, Note
      <3>3. UpdateTask(c, x, status, owner, deps, force, TRUE)
        BY <3>1, <3>2
      <3> QED
        BY <3>3
    <2> QED
      BY <2>2, <2>3, <2>4, <2>5, <2>6, <2>7
  <1>1. PICK status \in Statuses, owner \in Owners \cup {task[x].owner},
             deps \in DepLists \cup {task[x].deps}, force \in BOOLEAN :
           UpdateTask(c, x, status, owner, deps, force, TRUE)
    BY <1>0
  <1>2. owner \in Agents \cup {NoAgent} /\ deps \in SUBSET Tasks
    BY InputsAssumption DEF TypeOK, Rows
  <1>3. WithFields(task[x], status, owner, deps) \in Rows
    BY <1>2, WithFieldsType DEF TypeOK
  <1>4. x = t
    BY <1>1, <1>3, WrittenIfChangedFields DEF UpdateTask
  <1> QED
    BY <1>1, <1>4 DEF UpdateTask, VersionSeen, SeenIsPast

\* An update that names the version it read writes over the row it read
\* (tasks.update_task).
THEOREM UpdatesSeeWhatTheyChange == Spec => NoLostUpdate
  <1> DEFINE Kept == \A c \in Readers, t \in Tasks :
               (last'.cas /\ last'.by = c /\ task'[t] # task[t]) => task[t] = seen[c].row
  <1>1. IInv /\ [Next]_vars => [Kept]_vars
    BY StepSees DEF IInv
  <1> QED
    BY Invariance, <1>1, PTL DEF Spec, NoLostUpdate

\* The operations one by one: whoever ends or changes a live claim is its holder,
\* has force or is of a session of the bare holder.
LEMMA UpdateRespects ==
    ASSUME TypeOK, NEW by \in Callers, NEW x \in Tasks, NEW status \in Statuses,
           NEW owner \in Agents \cup {NoAgent}, NEW deps \in SUBSET Tasks,
           NEW force \in BOOLEAN, NEW cas \in BOOLEAN,
           UpdateTask(by, x, status, owner, deps, force, cas),
           NEW t \in Tasks, Live(task[t]), task'[t].claim # task[t].claim
    PROVE  ClaimRespected(t)
  <1>1. task[t] \in Rows
    BY DEF TypeOK
  <1>2. WithFields(task[x], status, owner, deps) \in Rows
    BY WithFieldsType DEF TypeOK
  <1>3. x = t
    BY <1>2, WrittenIfChangedFields DEF UpdateTask
  <1>4. task'[t].claim = WithFields(task[t], status, owner, deps).claim
    BY <1>2, <1>3, WrittenIfChangedFields DEF UpdateTask, Content
  <1>5. status # "in_progress"
    BY <1>1, <1>4 DEF WithFields, Rows
  <1> QED
    BY <1>3, <1>5 DEF UpdateTask, MayEndClaim, ClaimRespected, Note

LEMMA ClaimRespects ==
    ASSUME TypeOK, NEW by \in Callers, NEW x \in Tasks, NEW ttl \in Nat,
           NEW force \in BOOLEAN, ClaimTask(by, x, ttl, force),
           NEW t \in Tasks, Live(task[t]), task'[t].claim # task[t].claim
    PROVE  ClaimRespected(t)
  BY DEF ClaimTask, Written, TypeOK, ClaimRespected, Note

LEMMA ReleaseRespects ==
    ASSUME TypeOK, NEW by \in Callers, NEW x \in Tasks, NEW force \in BOOLEAN,
           ReleaseTask(by, x, force),
           NEW t \in Tasks, Live(task[t]), task'[t].claim # task[t].claim
    PROVE  ClaimRespected(t)
  BY DEF ReleaseTask, Written, TypeOK, ClaimRespected, Note

LEMMA StepRespects ==
    ASSUME TypeOK, ClaimedInProgress, Next,
           NEW t \in Tasks, Live(task[t]), task'[t].claim # task[t].claim
    PROVE  ClaimRespected(t)
  <1>1. task[t] \in Rows /\ Exists(t)
    BY DEF TypeOK, ClaimedInProgress, Live, Exists
  <1>2. ASSUME NEW by \in Callers, NEW x \in Tasks, NEW owner \in Owners,
               NEW deps \in DepLists, CreateTask(by, x, owner, deps)
        PROVE  ClaimRespected(t)
    BY <1>1, <1>2 DEF CreateTask, Written, TypeOK
  <1>3. ASSUME NEW by \in Callers, NEW x \in Tasks, NEW status \in Statuses,
               NEW owner \in Owners \cup {task[x].owner},
               NEW deps \in DepLists \cup {task[x].deps},
               NEW force \in BOOLEAN, NEW cas \in BOOLEAN,
               UpdateTask(by, x, status, owner, deps, force, cas)
        PROVE  ClaimRespected(t)
    <2>1. owner \in Agents \cup {NoAgent} /\ deps \in SUBSET Tasks
      BY InputsAssumption DEF TypeOK, Rows
    <2> QED
      BY <1>3, <2>1, UpdateRespects
  <1>4. ASSUME NEW agent \in Agents, RepairTaskOwners(agent)
        PROVE  ClaimRespected(t)
    <2>1. HandedOver(task[t], agent) \in Rows
      BY <1>1, HandedOverType
    <2>2. task'[t].claim = HandedOver(task[t], agent).claim
      BY <1>4, <2>1, WrittenFields DEF RepairTaskOwners, Content
    <2>3. ~Expired(task[t])
      BY <1>1 DEF Live, Expired, TypeOK, Rows, Claims
    <2>4. /\ task[t].claim.holder = Claude
          /\ task'[t].claim = [task[t].claim EXCEPT !.holder = agent]
      BY <1>1, <2>2, <2>3, HandedOverFields
    <2> QED
      BY <1>1, <2>4 DEF ClaimRespected, Rows, Claims
  <1>5. ASSUME NEW x \in Tasks, SweepRelease(x)
        PROVE  ClaimRespected(t)
    <2>1. Expired(task[t])
      BY <1>1, <1>5 DEF SweepRelease, StillExpired, Written, TypeOK
    <2> QED
      BY <1>1, <2>1 DEF Live, Expired, TypeOK, Rows, Claims
  <1>6. ASSUME NEW by \in Callers, CallerStep(by)
        PROVE  ClaimRespected(t)
    <2>1. PICK x \in Tasks :
             \/ \E owner \in Owners, deps \in DepLists : CreateTask(by, x, owner, deps)
             \/ \E status \in Statuses, owner \in Owners \cup {task[x].owner},
                   deps \in DepLists \cup {task[x].deps}, force, cas \in BOOLEAN :
                  UpdateTask(by, x, status, owner, deps, force, cas)
             \/ \E ttl \in Ttls, force \in BOOLEAN : ClaimTask(by, x, ttl, force)
             \/ \E force \in BOOLEAN : ReleaseTask(by, x, force)
             \/ ReadTask(by, x)
      BY <1>6, CallerCases
    <2>2. CASE \E owner \in Owners, deps \in DepLists : CreateTask(by, x, owner, deps)
      BY <1>2, <2>2
    <2>3. CASE \E status \in Statuses, owner \in Owners \cup {task[x].owner},
                  deps \in DepLists \cup {task[x].deps}, force, cas \in BOOLEAN :
                 UpdateTask(by, x, status, owner, deps, force, cas)
      BY <1>3, <2>3
    <2>4. CASE \E ttl \in Ttls, force \in BOOLEAN : ClaimTask(by, x, ttl, force)
      BY <2>4, ClaimRespects, BoundsAssumption
    <2>5. CASE \E force \in BOOLEAN : ReleaseTask(by, x, force)
      BY <2>5, ReleaseRespects
    <2>6. CASE ReadTask(by, x)
      BY <2>6 DEF ReadTask
    <2> QED
      BY <2>1, <2>2, <2>3, <2>4, <2>5, <2>6
  <1> QED
    BY <1>4, <1>5, <1>6 DEF Next, Sweep, SweepRead, Tick

\* A live claim ends by its holder, by force, by the holder's session or in
\* the doctor's hands, and in no other way (tasks._refuse_foreign_claim,
\* tasks.cleanup_expired_claims).
THEOREM LiveClaimsKept == Spec => LiveClaimKept
  <1> DEFINE Kept == \A t \in Tasks :
               (Live(task[t]) /\ task'[t].claim # task[t].claim) => ClaimRespected(t)
  <1>1. IInv /\ [Next]_vars => [Kept]_vars
    BY StepRespects DEF IInv
  <1> QED
    BY Invariance, <1>1, PTL DEF Spec, LiveClaimKept
=============================================================================
