-------------------------- MODULE TaskService_proofs --------------------------
(***************************************************************************)
(* What TaskService guarantees for any number of processes, operations and *)
(* retries, any requests and any number of deaths: it implements           *)
(* ExactlyOnce, the audit agrees with what took effect, and the tasks that *)
(* it shares with the older surfaces keep what they promise.               *)
(***************************************************************************)
EXTENDS TaskService, Tasks_proofs, WellFoundedInduction

-----------------------------------------------------------------------------
(* The outcome that is tried next *)

LEMMA NatLeast ==
    ASSUME NEW N \in SUBSET Nat, N # {}
    PROVE  \E n \in N : \A m \in N : n <= m
  <1> DEFINE less == {ss \in Nat \X Nat : ss[1] < ss[2]}
  <1>1. IsWellFoundedOn(less, Nat)
    BY NatLessThanWellFounded DEF OpToRel
  <1> HIDE DEF less
  <1>2. PICK n \in N : \A m \in N : <<m, n>> \notin less
    BY <1>1, WFMin
  <1>3. \A m \in N : ~(m < n)
    BY <1>2 DEF less
  <1> QED
    BY <1>3

LEMMA LeastType ==
    ASSUME NEW S \in SUBSET Ops, S # {}
    PROVE  Least(S) \in S
  <1>1. Rank \in [Ops -> Nat]
    BY AuditAssumption
  <1> DEFINE ranks == {Rank[o] : o \in S}
  <1>2. ranks \in SUBSET Nat /\ ranks # {}
    BY <1>1
  <1>3. PICK n \in ranks : \A m \in ranks : n <= m
    BY <1>2, NatLeast
  <1>4. PICK o \in S : n = Rank[o]
    BY <1>3
  <1>5. \A x \in S : Rank[o] <= Rank[x]
    BY <1>3, <1>4
  <1> QED
    BY <1>5 DEF Least

LEMMA RotatedType ==
    ASSUME NEW S \in SUBSET Ops, S # {}, NEW last_
    PROVE  Rotated(S, last_) \in S
  <1> DEFINE later == {o \in S : last_ \in S /\ Rank[o] > Rank[last_]}
  <1>1. later # {} => Least(later) \in later
    BY LeastType
  <1>2. Least(S) \in S
    BY LeastType
  <1> QED
    BY <1>1, <1>2 DEF Rotated

-----------------------------------------------------------------------------
(* Types *)

LEMMA RequestsType == Requests \subseteq RequestType
  BY PlotsAssumption DEF Requests

\* What a plot asks for.
LEMMA PlotType ==
    ASSUME plot \in Plots
    PROVE  /\ plot.asked \subseteq Requests
           /\ plot.auths \subseteq Revisions \cup {None}
           /\ plot.older \subseteq Agents
  BY PlotsAssumption DEF Requests

LEMMA CreatedType ==
    ASSUME NEW status \in Statuses
    PROVE  Created(status) \in Rows
  BY NoRowType DEF Created, Rows

\* The transaction of an operation keeps the shape of the tasks.
LEMMA EffectType ==
    ASSUME TypeOK, NEW r \in Requests, Effect(r)
    PROVE  TypeOK'
  <1>1. r \in RequestType
    BY RequestsType
  <1>2. /\ r.by \in Sessions /\ r.by \in Callers /\ r.what \in Whats /\ r.t \in Tasks
        /\ r.status \in Statuses /\ r.ttl \in Nat /\ r.force \in BOOLEAN
        /\ r.items \subseteq Tasks
    BY <1>1 DEF RequestType, Callers
  <1>3. \A t \in Tasks : task[t] \in Rows
    BY DEF TypeOK
  <1>4. CASE CreateWithStatus(r)
    BY <1>2, <1>4, CreatedType DEF CreateWithStatus, Note, TypeOK
  <1>5. CASE UpdateTask(r.by, r.t, r.status, task[r.t].owner, task[r.t].deps, r.force, FALSE)
    <2>1. task[r.t].owner \in Agents \cup {NoAgent} /\ task[r.t].deps \in SUBSET Tasks
      BY <1>2, <1>3 DEF Rows
    <2> QED
      BY <1>2, <1>5, <2>1, UpdateType
  <1>6. CASE ClaimTask(r.by, r.t, r.ttl, r.force)
    BY <1>2, <1>6, ClaimType
  <1>7. CASE ReleaseTask(r.by, r.t, r.force)
    BY <1>2, <1>7, ReleaseType
  <1>8. CASE Note(r.by, FALSE, FALSE) /\ UNCHANGED <<now, task, seen, todo, repaired>>
    BY <1>2, <1>8 DEF Note, TypeOK
  <1>9. CASE Reconcile(r)
    <2>1. \A t \in Tasks : ListedRow(r, t) \in Rows
      <3>1. ASSUME NEW t \in Tasks PROVE ListedRow(r, t) \in Rows
        <4>1. task[t].owner \in Agents \cup {NoAgent} /\ task[t].deps \in SUBSET Tasks
          BY <1>3 DEF Rows
        <4>2. WithFields(task[t], r.status, task[t].owner, task[t].deps) \in Rows
          BY <1>2, <1>3, <4>1, WithFieldsType
        <4>3. WrittenIfChanged(t, WithFields(task[t], r.status, task[t].owner,
                                            task[t].deps)) \in [Tasks -> Rows]
          BY <4>2, WrittenType
        <4> QED
          BY <1>2, <4>3, CreatedType DEF ListedRow
      <3> QED
        BY <3>1
    <2>2. \A t \in Tasks : CancelledRow(t) \in Rows
      <3>1. ASSUME NEW t \in Tasks PROVE CancelledRow(t) \in Rows
        <4>1. task[t].owner \in Agents \cup {NoAgent} /\ task[t].deps \in SUBSET Tasks
          BY <1>3 DEF Rows
        <4>2. WithFields(task[t], "cancelled", task[t].owner, task[t].deps) \in Rows
          BY <1>3, <4>1, WithFieldsType DEF Statuses
        <4>3. Written(t, WithFields(task[t], "cancelled", task[t].owner, task[t].deps))
                \in [Tasks -> Rows]
          BY <4>2, WrittenType
        <4> QED
          BY <4>3 DEF CancelledRow
      <3> QED
        BY <3>1
    <2>3. task' \in [Tasks -> Rows]
      BY <1>3, <1>9, <2>1, <2>2 DEF Reconcile
    <2> QED
      BY <1>2, <1>9, <2>3 DEF Reconcile, Note, TypeOK
  <1> QED
    BY <1>2, <1>4, <1>5, <1>6, <1>7, <1>8, <1>9 DEF Effect, Whats

LEMMA OthersType ==
    ASSUME TypeOK, plot \in Plots, Others
    PROVE  TypeOK'
  <1>1. plot.older \subseteq Agents
    BY PlotType
  <1>2. [Next]_vars
    BY <1>1 DEF Others, Next, Callers
  <1> QED
    BY <1>2, TypeStep

LEMMA ServiceTypeInit == ServiceInit => ServiceTypeOK
  <1> SUFFICES ASSUME ServiceInit PROVE ServiceTypeOK
    OBVIOUS
  <1>1. TypeOK
    BY TypeInit DEF ServiceInit
  <1>2. Idle \in [pc : PCs, req : SUBSET Requests, auth : Revisions \cup {None},
                  reply : SUBSET Results, pick : Ops \cup {None}]
    BY DEF Idle, PCs
  <1> QED
    BY <1>1, <1>2 DEF ServiceInit, ServiceTypeOK

\* What a caller is told are rows.
LEMMA AnsweredType ==
    ASSUME NEW r \in Requests, NEW tasks \in [Tasks -> Rows]
    PROVE  Answered(r, Rows1(r, tasks)) \in Results
  <1>1. r.t \in Tasks /\ r.items \subseteq Tasks
    BY RequestsType DEF RequestType
  <1> QED
    BY <1>1 DEF Answered, Rows1, Results
-----------------------------------------------------------------------------
(* The inductive invariant *)

Attempts == [pc : PCs, req : SUBSET Requests, auth : Revisions \cup {None},
             reply : SUBSET Results, pick : Ops \cup {None}]

\* An attempt under way is about one request; what it will answer is on the
\* receipt of that request; what it delivers has an outcome, and what it
\* acknowledges has been recorded.
Sound(a, receipts, outcomes, audit) ==
    /\ a \in Attempts
    /\ a.pc = "idle" => a.reply = {}
    /\ a.pc # "idle" =>
         \E r \in Requests :
           /\ a.req = {r}
           /\ \A x \in a.reply : \E rc \in receipts[r.op] : x = rc.result
    /\ a.pc \in {"cursor", "deliver", "ack"} =>
         a.pick \in Ops /\ outcomes[a.pick] # "none"
    /\ a.pc = "ack" => a.pick \in audit

AttemptsSound == \A p \in Procs : Sound(proc[p], receipt, outcome, recorded)

\* One receipt for the one effect.
ReceiptsCount ==
    \A o \in Ops :
        /\ \A rc, rd \in receipt[o] : rc = rd
        /\ effects[o] = IF receipt[o] = {} THEN 0 ELSE 1

\* Outcomes belong to receipts, and what the audit has to outcomes.
OutcomesFollow ==
    \A o \in Ops :
        /\ outcome[o] = "acknowledged" => o \in recorded
        /\ o \in recorded => outcome[o] # "none"
        /\ outcome[o] # "none" => receipt[o] # {}
        /\ \A rc \in receipt[o] : rc.auth # None => outcome[o] # "none"

SInv == ServiceTypeOK /\ AttemptsSound /\ ReceiptsCount /\ OutcomesFollow

\* Receipts stay, outcomes stay and the audit keeps what it has, so an attempt
\* of another process stays sound.
LEMMA SoundKept ==
    ASSUME NEW a, NEW rcs1, NEW rcs2, NEW outs1, NEW outs2, NEW audit1, NEW audit2,
           \A o \in Ops : rcs1[o] \subseteq rcs2[o],
           \A o \in Ops : outs1[o] # "none" => outs2[o] # "none",
           audit1 \subseteq audit2,
           Sound(a, rcs1, outs1, audit1)
    PROVE  Sound(a, rcs2, outs2, audit2)
  <1>1. \A r \in Requests : r.op \in Ops
    BY RequestsType DEF RequestType
  <1> QED
    BY <1>1 DEF Sound

LEMMA AttemptsKept ==
    ASSUME SInv, NEW p \in Procs,
           \A q \in Procs : q # p => proc'[q] = proc[q],
           \A o \in Ops : receipt[o] \subseteq receipt'[o],
           \A o \in Ops : outcome[o] # "none" => outcome'[o] # "none",
           recorded \subseteq recorded',
           Sound(proc'[p], receipt', outcome', recorded')
    PROVE  AttemptsSound'
  <1> SUFFICES ASSUME NEW q \in Procs
               PROVE  Sound(proc'[q], receipt', outcome', recorded')
    BY DEF AttemptsSound
  <1>1. CASE q # p
    <2>1. Sound(proc[q], receipt, outcome, recorded)
      BY DEF SInv, AttemptsSound
    <2>2. Sound(proc[q], receipt', outcome', recorded')
      BY <2>1, SoundKept
    <2>3. proc'[q] = proc[q]
      BY <1>1
    <2> QED
      BY <2>2, <2>3
  <1> QED
    BY <1>1

\* The request of an attempt under way.
LEMMA ReqType ==
    ASSUME SInv, NEW p \in Procs, ~At(p, "idle")
    PROVE  /\ Req(p) \in Requests /\ proc[p].req = {Req(p)}
           /\ Req(p).op \in Ops /\ Req(p).by \in Sessions
           /\ \A x \in proc[p].reply : \E rc \in receipt[Req(p).op] : x = rc.result
  <1>1. PICK r \in Requests :
          /\ proc[p].req = {r}
          /\ \A x \in proc[p].reply : \E rc \in receipt[r.op] : x = rc.result
    BY DEF SInv, AttemptsSound, Sound, At
  <1>2. Req(p) = r
    BY <1>1 DEF Req
  <1> QED
    BY <1>1, <1>2, RequestsType DEF RequestType

\* A step that moves one process to a sound attempt and writes nothing else
\* that the invariant is about.
LEMMA ProcessStep ==
    ASSUME SInv, NEW p \in Procs, NEW a,
           proc' = [proc EXCEPT ![p] = a],
           Sound(a, receipt, outcome, recorded),
           UNCHANGED <<vars, plot, receipt, outcome, recorded, effects>>,
           cursor' \in [Sessions -> Ops \cup {None}],
           answers' \in [Ops -> SUBSET Results]
    PROVE  SInv'
  <1>1. a \in Attempts
    BY DEF Sound
  <1>2. TypeOK'
    BY DEF SInv, ServiceTypeOK, TypeOK, vars
  <1>3. ServiceTypeOK'
    BY <1>1, <1>2 DEF SInv, ServiceTypeOK, Attempts
  <1>4. AttemptsSound'
    BY DEF SInv, AttemptsSound, ServiceTypeOK
  <1> QED
    BY <1>3, <1>4 DEF SInv, ReceiptsCount, OutcomesFollow

LEMMA SInvInit == ServiceInit => SInv
  <1> SUFFICES ASSUME ServiceInit PROVE SInv
    OBVIOUS
  <1>1. ServiceTypeOK
    BY ServiceTypeInit
  <1>2. Sound(Idle, receipt, outcome, recorded)
    BY DEF Sound, Idle, Attempts, PCs
  <1> QED
    BY <1>1, <1>2 DEF ServiceInit, SInv, AttemptsSound, ReceiptsCount, OutcomesFollow
-----------------------------------------------------------------------------
(* Each step of a process *)

LEMMA IdleSound == \A rcs, outs, audit : Sound(Idle, rcs, outs, audit)
  BY DEF Sound, Idle, Attempts, PCs

LEMMA StartStep ==
    ASSUME SInv, NEW p \in Procs, NEW r \in plot.asked, Start(p, r)
    PROVE  SInv'
  <1>1. r \in Requests /\ r.op \in Ops
    BY PlotType, RequestsType DEF SInv, ServiceTypeOK, RequestType
  <1>2. /\ cursor' \in [Sessions -> Ops \cup {None}]
        /\ answers' \in [Ops -> SUBSET Results]
        /\ UNCHANGED <<vars, plot, receipt, outcome, recorded, effects>>
    BY DEF SInv, ServiceTypeOK, Start
  <1>3. CASE proc' = [proc EXCEPT ![p] = [Idle EXCEPT !.pc = "admit", !.req = {r}]]
    <2>1. Sound([Idle EXCEPT !.pc = "admit", !.req = {r}], receipt, outcome, recorded)
      BY <1>1 DEF Sound, Idle, Attempts, PCs
    <2> QED
      BY <1>2, <1>3, <2>1, ProcessStep
  <1>4. ASSUME NEW rc \in receipt[r.op], Replays(p, r, rc)
        PROVE  SInv'
    <2> DEFINE a == [proc[p] EXCEPT !.pc = "flush", !.req = {r}, !.reply = {rc.result}]
    <2>1. rc.result \in Results /\ proc[p] \in Attempts
      BY <1>1 DEF SInv, ServiceTypeOK, Attempts
    <2>2. Sound(a, receipt, outcome, recorded)
      BY <1>1, <2>1 DEF Sound, Attempts, PCs
    <2>3. proc' = [proc EXCEPT ![p] = a]
      BY <1>4 DEF Replays
    <2> HIDE DEF a
    <2> QED
      BY <1>2, <2>2, <2>3, ProcessStep
  <1> QED
    BY <1>3, <1>4 DEF Start

LEMMA AdmitStep ==
    ASSUME SInv, NEW p \in Procs, Admit(p)
    PROVE  SInv'
  <1>1. PICK auth \in plot.auths :
          proc' = [proc EXCEPT ![p].pc = "execute", ![p].auth = auth]
    BY DEF Admit
  <1> DEFINE a == [proc[p] EXCEPT !.pc = "execute", !.auth = auth]
  <1>2. auth \in Revisions \cup {None}
    BY PlotType DEF SInv, ServiceTypeOK
  <1>3. proc[p] \in Attempts /\ proc[p].pc = "admit"
    BY DEF SInv, AttemptsSound, Sound, Admit, At
  <1>4. Sound(proc[p], receipt, outcome, recorded)
    BY DEF SInv, AttemptsSound
  <1>5. Sound(a, receipt, outcome, recorded)
    BY <1>2, <1>3, <1>4 DEF Sound, Attempts, PCs
  <1>6. proc' = [proc EXCEPT ![p] = a]
    BY <1>1, <1>3 DEF SInv, ServiceTypeOK, Attempts
  <1>7. /\ cursor' \in [Sessions -> Ops \cup {None}]
        /\ answers' \in [Ops -> SUBSET Results]
        /\ UNCHANGED <<vars, plot, receipt, outcome, recorded, effects>>
    BY DEF SInv, ServiceTypeOK, Admit
  <1> HIDE DEF a
  <1> QED
    BY <1>5, <1>6, <1>7, ProcessStep

\* The effect, its receipt and its outcome together.
LEMMA ExecuteNewStep ==
    ASSUME SInv, NEW p \in Procs, ExecuteNew(p)
    PROVE  SInv'
  <1> DEFINE r == Req(p)
             result == Answered(r, Rows1(r, task'))
             rc == [result |-> result, auth |-> proc[p].auth]
             a == [proc[p] EXCEPT !.pc = IF proc[p].auth = None THEN "return" ELSE "flush",
                                  !.reply = {result}]
  <1>1. ~At(p, "idle") /\ proc[p].pc = "execute"
    BY DEF ExecuteNew, At
  <1>2. r \in Requests /\ proc[p].req = {r} /\ r.op \in Ops
    BY <1>1, ReqType
  <1>3. TypeOK'
    BY <1>2, EffectType DEF ExecuteNew, SInv, ServiceTypeOK
  <1>4. result \in Results
    BY <1>2, <1>3, AnsweredType DEF TypeOK
  <1>5. proc[p] \in Attempts
    BY DEF SInv, ServiceTypeOK, Attempts
  <1>6. /\ receipt[r.op] = {}
        /\ receipt' = [receipt EXCEPT ![r.op] = {rc}]
        /\ proc' = [proc EXCEPT ![p] = a]
        /\ outcome' = [outcome EXCEPT ![r.op] = OutcomeStored(proc[p].auth)]
        /\ effects' = [effects EXCEPT ![r.op] = @ + 1]
        /\ UNCHANGED <<plot, cursor, recorded, faults, answers>>
    BY DEF ExecuteNew, Committed
  <1>7. rc \in [result : Results, auth : Revisions \cup {None}]
    BY <1>4, <1>5 DEF Attempts
  <1>8. OutcomeStored(proc[p].auth) \in {"none", "pending"}
    BY DEF OutcomeStored
  <1>9. Sound(a, receipt', outcome', recorded')
    <2>1. a \in Attempts
      BY <1>4, <1>5 DEF Attempts, PCs
    <2>2. a.pc \in {"return", "flush"} /\ a.req = {r} /\ a.reply = {result}
      BY <1>2, <1>5 DEF Attempts
    <2>3. rc \in receipt'[r.op] /\ rc.result = result
      BY <1>2, <1>6 DEF SInv, ServiceTypeOK
    <2> HIDE DEF a, rc, result
    <2> QED
      BY <1>2, <2>1, <2>2, <2>3 DEF Sound
  <1>10. outcome[r.op] = "none" /\ r.op \notin recorded
    BY <1>2, <1>6 DEF SInv, OutcomesFollow
  <1> HIDE DEF a, rc, result, r
  <1>11. ServiceTypeOK'
    <2>1. receipt' \in [Ops -> SUBSET [result : Results, auth : Revisions \cup {None}]]
      BY <1>2, <1>6, <1>7 DEF SInv, ServiceTypeOK
    <2>2. outcome' \in [Ops -> {"none", "pending", "acknowledged"}]
      BY <1>2, <1>6, <1>8 DEF SInv, ServiceTypeOK
    <2>3. proc' \in [Procs -> Attempts]
      BY <1>6, <1>9 DEF SInv, ServiceTypeOK, Sound, Attempts
    <2>4. effects' \in [Ops -> Nat]
      BY <1>2, <1>6 DEF SInv, ServiceTypeOK
    <2> QED
      BY <1>3, <1>6, <2>1, <2>2, <2>3, <2>4 DEF SInv, ServiceTypeOK, Attempts
  <1>12. AttemptsSound'
    <2>1. \A q \in Procs : q # p => proc'[q] = proc[q]
      BY <1>6 DEF SInv, ServiceTypeOK
    <2>2. proc'[p] = a
      BY <1>6 DEF SInv, ServiceTypeOK
    <2>3. \A o \in Ops : receipt[o] \subseteq receipt'[o]
      BY <1>6 DEF SInv, ServiceTypeOK
    <2>4. \A o \in Ops : outcome[o] # "none" => outcome'[o] # "none"
      BY <1>6, <1>10 DEF SInv, ServiceTypeOK
    <2>5. recorded \subseteq recorded'
      BY <1>6
    <2> QED
      BY <1>9, <2>1, <2>2, <2>3, <2>4, <2>5, AttemptsKept
  <1>13. ReceiptsCount'
    <2>1. \A o \in Ops : o # r.op => receipt'[o] = receipt[o] /\ effects'[o] = effects[o]
      BY <1>6 DEF SInv, ServiceTypeOK
    <2>2. receipt'[r.op] = {rc} /\ effects'[r.op] = 1
      BY <1>2, <1>6 DEF SInv, ServiceTypeOK, ReceiptsCount
    <2> QED
      BY <2>1, <2>2 DEF SInv, ReceiptsCount
  <1>14. OutcomesFollow'
    <2>1. \A o \in Ops : o # r.op => receipt'[o] = receipt[o] /\ outcome'[o] = outcome[o]
      BY <1>6 DEF SInv, ServiceTypeOK
    <2>2. receipt'[r.op] = {rc} /\ outcome'[r.op] = OutcomeStored(proc[p].auth)
      BY <1>2, <1>6 DEF SInv, ServiceTypeOK
    <2>3. rc.auth # None => OutcomeStored(proc[p].auth) # "none"
      BY DEF OutcomeStored, rc
    <2>4. recorded' = recorded
      BY <1>6
    <2> QED
      BY <1>8, <1>10, <2>1, <2>2, <2>3, <2>4 DEF SInv, OutcomesFollow
  <1> QED
    BY <1>11, <1>12, <1>13, <1>14 DEF SInv
LEMMA ExecuteReplayStep ==
    ASSUME SInv, NEW p \in Procs, ExecuteReplay(p)
    PROVE  SInv'
  <1>1. proc[p].pc = "execute" /\ ~At(p, "idle")
    BY DEF ExecuteReplay, At
  <1>2. /\ Req(p) \in Requests /\ proc[p].req = {Req(p)} /\ Req(p).op \in Ops
    BY <1>1, ReqType
  <1>3. PICK rc \in receipt[Req(p).op] :
          proc' = [proc EXCEPT
                     ![p] = [@ EXCEPT
                       !.pc = IF proc[p].auth = None THEN "return" ELSE "flush",
                       !.reply = {rc.result}]]
    BY DEF ExecuteReplay, Saved
  <1> DEFINE a == [proc[p] EXCEPT !.pc = IF proc[p].auth = None THEN "return" ELSE "flush",
                                  !.reply = {rc.result}]
  <1>4. proc[p] \in Attempts /\ rc.result \in Results
    BY <1>2 DEF SInv, ServiceTypeOK, Attempts
  <1>5. Sound(a, receipt, outcome, recorded)
    <2>1. a \in Attempts /\ a.pc \in {"return", "flush"}
      BY <1>4 DEF Attempts, PCs
    <2>2. a.req = {Req(p)} /\ a.reply = {rc.result}
      BY <1>2, <1>4 DEF Attempts
    <2> HIDE DEF a
    <2> QED
      BY <1>2, <2>1, <2>2 DEF Sound
  <1>6. proc' = [proc EXCEPT ![p] = a]
    BY <1>3
  <1>7. /\ cursor' \in [Sessions -> Ops \cup {None}]
        /\ answers' \in [Ops -> SUBSET Results]
        /\ UNCHANGED <<vars, plot, receipt, outcome, recorded, effects>>
    BY DEF SInv, ServiceTypeOK, ExecuteReplay
  <1> HIDE DEF a
  <1> QED
    BY <1>5, <1>6, <1>7, ProcessStep

\* An attempt that goes on to where nothing is delivered.
LEMMA GoesSound ==
    ASSUME SInv, NEW p \in Procs, ~At(p, "idle"), NEW pc \in {"flush", "return"}
    PROVE  /\ [proc EXCEPT ![p].pc = pc] = [proc EXCEPT ![p] = [proc[p] EXCEPT !.pc = pc]]
           /\ Sound([proc[p] EXCEPT !.pc = pc], receipt, outcome, recorded)
  <1>1. Sound(proc[p], receipt, outcome, recorded) /\ proc[p] \in Attempts
    BY DEF SInv, AttemptsSound, Sound
  <1>2. Sound([proc[p] EXCEPT !.pc = pc], receipt, outcome, recorded)
    BY <1>1 DEF Sound, Attempts, PCs, At
  <1> QED
    BY <1>2 DEF SInv, ServiceTypeOK

LEMMA GiveUpStep ==
    ASSUME SInv, NEW p \in Procs, GiveUp(p)
    PROVE  SInv'
  <1>1. ~At(p, "idle")
    BY DEF GiveUp, At
  <1>2. /\ cursor' \in [Sessions -> Ops \cup {None}]
        /\ answers' \in [Ops -> SUBSET Results]
        /\ UNCHANGED <<vars, plot, receipt, outcome, recorded, effects>>
    BY DEF SInv, ServiceTypeOK, GiveUp
  <1>3. CASE Goes(p, "flush")
    <2>1. proc' = [proc EXCEPT ![p] = [proc[p] EXCEPT !.pc = "flush"]]
      BY <1>1, <1>3, GoesSound DEF Goes
    <2>2. Sound([proc[p] EXCEPT !.pc = "flush"], receipt, outcome, recorded)
      BY <1>1, GoesSound
    <2> QED
      BY <1>2, <2>1, <2>2, ProcessStep
  <1>4. CASE Ends(p)
    BY <1>2, <1>4, IdleSound, ProcessStep DEF Ends
  <1> QED
    BY <1>3, <1>4 DEF GiveUp

LEMMA FlushReadStep ==
    ASSUME SInv, NEW p \in Procs, FlushRead(p)
    PROVE  SInv'
  <1> DEFINE pending == Pending(Req(p).by)
             o == Rotated(pending, cursor[Req(p).by])
             a == [proc[p] EXCEPT !.pc = "cursor", !.pick = o]
  <1>1. ~At(p, "idle") /\ proc[p].pc = "flush"
    BY DEF FlushRead, At
  <1>2. /\ cursor' \in [Sessions -> Ops \cup {None}]
        /\ answers' \in [Ops -> SUBSET Results]
        /\ UNCHANGED <<vars, plot, receipt, outcome, recorded, effects>>
    BY DEF SInv, ServiceTypeOK, FlushRead
  <1>3. CASE proc' = [proc EXCEPT ![p] = [proc[p] EXCEPT !.pc = "return"]]
    <2>1. Sound([proc[p] EXCEPT !.pc = "return"], receipt, outcome, recorded)
      BY <1>1, GoesSound
    <2> QED
      BY <1>2, <1>3, <2>1, ProcessStep
  <1>4. CASE pending # {} /\ proc' = [proc EXCEPT ![p] = a]
    <2>1. o \in pending
      BY <1>4, RotatedType DEF Pending
    <2>2. o \in Ops /\ outcome[o] = "pending"
      BY <2>1 DEF Pending
    <2>3. Sound(proc[p], receipt, outcome, recorded) /\ proc[p] \in Attempts
      BY DEF SInv, AttemptsSound, Sound
    <2> HIDE DEF o
    <2>4. Sound(a, receipt, outcome, recorded)
      BY <1>1, <2>2, <2>3 DEF Sound, Attempts, PCs
    <2> HIDE DEF a
    <2> QED
      BY <1>2, <1>4, <2>4, ProcessStep
  <1> QED
    BY <1>3, <1>4 DEF FlushRead

LEMMA FlushCursorStep ==
    ASSUME SInv, NEW p \in Procs, FlushCursor(p)
    PROVE  SInv'
  <1> DEFINE a == [proc[p] EXCEPT !.pc = "deliver"]
  <1>1. ~At(p, "idle") /\ proc[p].pc = "cursor"
    BY DEF FlushCursor, At
  <1>2. Sound(proc[p], receipt, outcome, recorded) /\ proc[p] \in Attempts
    BY DEF SInv, AttemptsSound, Sound
  <1>3. proc[p].pick \in Ops
    BY <1>1, <1>2 DEF Sound
  <1>4. Sound(a, receipt, outcome, recorded)
    BY <1>1, <1>2 DEF Sound, Attempts, PCs
  <1>5. proc' = [proc EXCEPT ![p] = a]
    BY DEF FlushCursor, Goes, SInv, ServiceTypeOK
  <1>6. /\ cursor' \in [Sessions -> Ops \cup {None}]
        /\ answers' \in [Ops -> SUBSET Results]
        /\ UNCHANGED <<vars, plot, receipt, outcome, recorded, effects>>
    BY <1>3 DEF SInv, ServiceTypeOK, FlushCursor
  <1> HIDE DEF a
  <1> QED
    BY <1>4, <1>5, <1>6, ProcessStep

LEMMA ReturnStep ==
    ASSUME SInv, NEW p \in Procs, Return(p)
    PROVE  SInv'
  <1>1. answers' \in [Ops -> SUBSET Results]
    BY DEF SInv, ServiceTypeOK, Return
  <1>2. /\ cursor' \in [Sessions -> Ops \cup {None}]
        /\ UNCHANGED <<vars, plot, receipt, outcome, recorded, effects>>
    BY DEF SInv, ServiceTypeOK, Return
  <1> QED
    BY <1>1, <1>2, IdleSound, ProcessStep DEF Return, Ends

LEMMA DieStep ==
    ASSUME SInv, NEW p \in Procs, Die(p)
    PROVE  SInv'
  <1>1. /\ cursor' \in [Sessions -> Ops \cup {None}]
        /\ answers' \in [Ops -> SUBSET Results]
        /\ UNCHANGED <<vars, plot, receipt, outcome, recorded, effects>>
    BY DEF SInv, ServiceTypeOK, Die
  <1> QED
    BY <1>1, IdleSound, ProcessStep DEF Die, Ends

\* Delivery gives the audit only what has an outcome, whether the call is heard
\* to succeed or not.
LEMMA DeliveryStep ==
    ASSUME SInv, NEW p \in Procs, At(p, "deliver"), NEW pc \in {"return", "ack"},
           Goes(p, pc),
           recorded' \in {recorded, recorded \cup {proc[p].pick}},
           pc = "ack" => proc[p].pick \in recorded',
           UNCHANGED <<vars, plot, receipt, outcome, cursor, effects, answers>>
    PROVE  SInv'
  <1> DEFINE a == [proc[p] EXCEPT !.pc = pc]
  <1>1. Sound(proc[p], receipt, outcome, recorded) /\ proc[p] \in Attempts
    BY DEF SInv, AttemptsSound, Sound
  <1>2. proc[p].pick \in Ops /\ outcome[proc[p].pick] # "none"
    BY <1>1 DEF Sound, At
  <1>3. Sound(a, receipt, outcome, recorded')
    BY <1>1 DEF Sound, At, Attempts, PCs
  <1>4. a \in Attempts /\ proc' = [proc EXCEPT ![p] = a]
    BY <1>3 DEF Goes, SInv, ServiceTypeOK, Sound
  <1> HIDE DEF a
  <1>5. ServiceTypeOK'
    <2>1. TypeOK'
      BY DEF SInv, ServiceTypeOK, TypeOK, vars
    <2>2. recorded' \subseteq Ops
      BY <1>2 DEF SInv, ServiceTypeOK
    <2> QED
      BY <1>4, <2>1, <2>2 DEF SInv, ServiceTypeOK, Attempts
  <1>6. AttemptsSound'
    <2>1. \A q \in Procs : q # p => proc'[q] = proc[q]
      BY <1>4 DEF SInv, ServiceTypeOK
    <2>2. proc'[p] = a /\ recorded \subseteq recorded'
      BY <1>4 DEF SInv, ServiceTypeOK
    <2>3. Sound(proc'[p], receipt', outcome', recorded')
      BY <1>3, <2>2
    <2> QED
      BY <2>1, <2>2, <2>3, AttemptsKept
  <1> QED
    BY <1>2, <1>5, <1>6 DEF SInv, ReceiptsCount, OutcomesFollow

LEMMA DeliverStep ==
    ASSUME SInv, NEW p \in Procs, Deliver(p) \/ DeliverFails(p)
    PROVE  SInv'
  <1>1. CASE Deliver(p)
    BY <1>1, DeliveryStep DEF Deliver
  <1>2. CASE DeliverFails(p)
    BY <1>2, DeliveryStep DEF DeliverFails, AfterLostDelivery
  <1> QED
    BY <1>1, <1>2

\* What is acknowledged is on the audit, and had an outcome.
LEMMA AcknowledgeStep ==
    ASSUME SInv, NEW p \in Procs, Acknowledge(p)
    PROVE  SInv'
  <1> DEFINE a == [proc[p] EXCEPT !.pc = "return"]
  <1>1. proc[p].pc = "ack" /\ ~At(p, "idle")
    BY DEF Acknowledge, At
  <1>2. Sound(proc[p], receipt, outcome, recorded) /\ proc[p] \in Attempts
    BY DEF SInv, AttemptsSound, Sound
  <1>3. /\ proc[p].pick \in Ops /\ outcome[proc[p].pick] # "none"
        /\ proc[p].pick \in recorded
    BY <1>1, <1>2 DEF Sound
  <1>4. outcome' = [outcome EXCEPT ![proc[p].pick] = "acknowledged"]
    BY DEF Acknowledge
  <1>5. \A o \in Ops : outcome[o] # "none" => outcome'[o] # "none"
    BY <1>3, <1>4 DEF SInv, ServiceTypeOK
  <1>6. Sound(a, receipt, outcome, recorded)
    BY <1>1, GoesSound
  <1>7. a \in Attempts /\ proc' = [proc EXCEPT ![p] = a]
    BY <1>1, <1>6, GoesSound DEF Acknowledge, Goes, Sound
  <1>8. Sound(a, receipt', outcome', recorded')
    BY <1>5, <1>6, SoundKept DEF Acknowledge
  <1> HIDE DEF a
  <1>9. ServiceTypeOK'
    <2>1. TypeOK'
      BY DEF Acknowledge, SInv, ServiceTypeOK, TypeOK, vars
    <2>2. outcome' \in [Ops -> {"none", "pending", "acknowledged"}]
      BY <1>3, <1>4 DEF SInv, ServiceTypeOK
    <2> QED
      BY <1>7, <2>1, <2>2 DEF Acknowledge, SInv, ServiceTypeOK, Attempts
  <1>10. AttemptsSound'
    <2>1. \A q \in Procs : q # p => proc'[q] = proc[q]
      BY <1>7 DEF SInv, ServiceTypeOK
    <2>2. proc'[p] = a
      BY <1>7 DEF SInv, ServiceTypeOK
    <2>3. receipt' = receipt /\ recorded' = recorded
      BY DEF Acknowledge
    <2> QED
      BY <1>5, <1>8, <2>1, <2>2, <2>3, AttemptsKept
  <1>11. OutcomesFollow'
    <2>1. \A o \in Ops : o # proc[p].pick => outcome'[o] = outcome[o]
      BY <1>4 DEF SInv, ServiceTypeOK
    <2>2. outcome'[proc[p].pick] = "acknowledged"
      BY <1>3, <1>4 DEF SInv, ServiceTypeOK
    <2> QED
      BY <1>3, <2>1, <2>2 DEF Acknowledge, SInv, OutcomesFollow
  <1> QED
    BY <1>9, <1>10, <1>11 DEF Acknowledge, SInv, ReceiptsCount

LEMMA OthersStep ==
    ASSUME SInv, Others
    PROVE  SInv'
  <1>1. TypeOK'
    BY OthersType DEF SInv, ServiceTypeOK
  <1>2. UNCHANGED service
    BY DEF Others
  <1> QED
    BY <1>1, <1>2
       DEF service, SInv, ServiceTypeOK, AttemptsSound, ReceiptsCount, OutcomesFollow

\* The invariant holds whatever processes and everybody else interleave.
LEMMA SInvStep ==
    ASSUME SInv, [ServiceNext]_allvars
    PROVE  SInv'
  <1>1. ASSUME NEW p \in Procs, Proceed(p)
        PROVE  SInv'
    BY <1>1, AdmitStep, ExecuteNewStep, ExecuteReplayStep, GiveUpStep, FlushReadStep,
       FlushCursorStep, DeliverStep, AcknowledgeStep, ReturnStep DEF Proceed
  <1>2. CASE UNCHANGED allvars
    <2>1. TypeOK'
      BY <1>2 DEF allvars, vars, SInv, ServiceTypeOK, TypeOK
    <2> QED
      BY <1>2, <2>1 DEF allvars, service, SInv, ServiceTypeOK, AttemptsSound,
                        ReceiptsCount, OutcomesFollow
  <1> QED
    BY <1>1, <1>2, OthersStep, DeliverStep, DieStep, StartStep DEF ServiceNext
-----------------------------------------------------------------------------
(* The theorems *)

\* The inductive invariant holds in every reachable state.
THEOREM ServiceInvariance == ServiceSpec => []SInv
  <1>1. SInv /\ [ServiceNext]_allvars => SInv'
    BY SInvStep
  <1> QED
    BY <1>1, SInvInit, PTL DEF ServiceSpec

\* Receipts, outcomes and attempts keep their shape, for any number of
\* processes and requests.
THEOREM ServiceTypeCorrect == ServiceSpec => []ServiceTypeOK
  <1>1. SInv => ServiceTypeOK
    BY DEF SInv
  <1> QED
    BY <1>1, ServiceInvariance, PTL

\* The audit knows of no effect that did not happen, no admitted effect goes
\* without an outcome, and none is acknowledged that the audit does not have,
\* wherever processes die (task_service.execute, integrations._flush).
THEOREM AuditAgrees == ServiceSpec => []AuditTrail
  <1>1. SInv => AuditTrail
    BY DEF SInv, ReceiptsCount, OutcomesFollow, AuditTrail
  <1> QED
    BY <1>1, ServiceInvariance, PTL

\* What an operation answered, read off its receipt.
LEMMA ResultOfReceipt ==
    ASSUME SInv, NEW o \in Ops, NEW rc \in receipt[o]
    PROVE  ResultOf(o) = rc.result /\ ResultOf(o) \in Results /\ ResultOf(o) # None
  <1>1. (CHOOSE x \in receipt[o] : TRUE) = rc
    BY DEF SInv, ReceiptsCount
  <1>2. ResultOf(o) = rc.result
    BY <1>1 DEF ResultOf
  <1>3. rc.result \in Results
    BY DEF SInv, ServiceTypeOK
  <1> QED
    BY <1>2, <1>3, NoneAssumption

\* A step that commits an operation applies it.
LEMMA ExecuteApplies ==
    ASSUME SInv, SInv', NEW p \in Procs, ExecuteNew(p)
    PROVE  \E o \in Ops : Promise!Apply(o)
  <1>1. PICK o \in Ops : o = Req(p).op
    BY ReqType DEF ExecuteNew, At
  <1>2. PICK rc :
          /\ receipt[o] = {}
          /\ receipt' = [receipt EXCEPT ![o] = {rc}]
          /\ effects' = [effects EXCEPT ![o] = @ + 1]
          /\ answers' = answers
    BY <1>1 DEF ExecuteNew, Committed
  <1>3. receipt'[o] = {rc}
    BY <1>2 DEF SInv, ServiceTypeOK
  <1>4. ResultOf(o) = None
    BY <1>2 DEF ResultOf
  <1>5. \A x \in Ops : x # o => ResultOf(x)' = ResultOf(x)
    BY <1>2 DEF ResultOf, SInv, ServiceTypeOK
  <1>6. ResultOf(o)' \in Results \ {None}
    <2>1. ResultOf(o)' = rc.result
      BY <1>3 DEF ResultOf
    <2>2. rc.result \in Results
      BY <1>3 DEF SInv, ServiceTypeOK
    <2> QED
      BY <2>1, <2>2, NoneAssumption
  <1>7. [x \in Ops |-> ResultOf(x)]' = [x \in Ops |-> ResultOf(x)']
    OBVIOUS
  <1>8. Promise!Apply(o)
    BY <1>2, <1>4, <1>5, <1>6, <1>7 DEF Promise!Apply
  <1> QED
    BY <1>8

\* A step that answers a host answers what the receipt says, or nothing.
LEMMA ReturnAnswers ==
    ASSUME SInv, NEW p \in Procs, Return(p)
    PROVE  (\E o \in Ops : Promise!Answer(o)) \/ UNCHANGED answers
  <1>1. PICK o \in Ops :
          /\ o = Req(p).op
          /\ \A x \in proc[p].reply : \E rc \in receipt[o] : x = rc.result
    BY ReqType DEF Return, At
  <1>2. /\ answers' = [answers EXCEPT ![o] = @ \cup proc[p].reply]
        /\ UNCHANGED <<receipt, effects>>
    BY <1>1 DEF Return
  <1>3. CASE proc[p].reply = {}
    <2>1. answers' = answers
      BY <1>2, <1>3 DEF SInv, ServiceTypeOK
    <2> QED
      BY <2>1
  <1>4. CASE proc[p].reply # {}
    <2>1. proc[p].reply = {ResultOf(o)} /\ ResultOf(o) # None
      BY <1>1, <1>4, ResultOfReceipt
    <2>2. \A x \in Ops : ResultOf(x)' = ResultOf(x)
      BY <1>2 DEF ResultOf
    <2>3. [x \in Ops |-> ResultOf(x)]' = [x \in Ops |-> ResultOf(x)]
      BY <2>2
    <2>4. Promise!Answer(o)
      BY <1>2, <2>1, <2>3 DEF Promise!Answer
    <2> QED
      BY <2>4
  <1> QED
    BY <1>3, <1>4

LEMMA PromiseInit == ServiceInit => Promise!Init
  BY DEF ServiceInit, Promise!Init, ResultOf

\* Every other step is a stutter of the promise.
LEMMA PromiseStutters ==
    ASSUME UNCHANGED <<receipt, effects, answers>>
    PROVE  UNCHANGED Promise!vars
  <1>1. \A x \in Ops : ResultOf(x)' = ResultOf(x)
    BY DEF ResultOf
  <1>2. [x \in Ops |-> ResultOf(x)]' = [x \in Ops |-> ResultOf(x)]
    BY <1>1
  <1> QED
    BY <1>2 DEF Promise!vars

LEMMA PromiseStep ==
    ASSUME SInv, SInv', [ServiceNext]_allvars
    PROVE  [Promise!Next]_(Promise!vars)
  <1>1. ASSUME NEW p \in Procs, Proceed(p)
        PROVE  [Promise!Next]_(Promise!vars)
    <2>1. CASE ExecuteNew(p)
      BY <2>1, ExecuteApplies DEF Promise!Next
    <2>2. CASE Return(p)
      <3>1. UNCHANGED <<receipt, effects>>
        BY <2>2 DEF Return
      <3> QED
        BY <2>2, <3>1, ReturnAnswers, PromiseStutters DEF Promise!Next
    <2>3. CASE ~ExecuteNew(p) /\ ~Return(p)
      <3>1. UNCHANGED <<receipt, effects, answers>>
        BY <1>1, <2>3 DEF Proceed, Admit, ExecuteReplay, GiveUp, FlushRead, FlushCursor,
                          Deliver, Acknowledge
      <3> QED
        BY <3>1, PromiseStutters
    <2> QED
      BY <2>1, <2>2, <2>3
  <1>2. ASSUME NEW p \in Procs, DeliverFails(p) \/ Die(p) \/ \E r \in plot.asked : Start(p, r)
        PROVE  UNCHANGED <<receipt, effects, answers>>
    BY <1>2 DEF DeliverFails, Die, Start
  <1>3. CASE Others \/ UNCHANGED allvars
    <2>1. UNCHANGED <<receipt, effects, answers>>
      BY <1>3 DEF Others, allvars, service
    <2> QED
      BY <2>1, PromiseStutters
  <1> QED
    BY <1>1, <1>2, <1>3, PromiseStutters DEF ServiceNext

\* However often an operation is retried, by however many processes, with
\* whatever lost answers and reused ids: one effect, and one answer of success
\* (task_service.execute).  The detailed service implements ExactlyOnce.
THEOREM ImplementsExactlyOnce == ServiceSpec => TakesEffectOnce
  <1>1. SInv /\ SInv' /\ [ServiceNext]_allvars => [Promise!Next]_(Promise!vars)
    BY PromiseStep
  <1> QED
    BY <1>1, PromiseInit, ServiceInvariance, PTL
       DEF ServiceSpec, TakesEffectOnce, Promise!Spec

-----------------------------------------------------------------------------
(* The tasks under the service *)

\* No row is written before it is minted.
Unminted == \A t \in Tasks : ~Exists(t) => task[t].version = 0

TasksInv == ClaimedInProgress /\ Acyclic /\ SeenIsPast /\ Unminted

\* What a creation or a reconcile makes of a row: nothing, a new row, or the row
\* with another status.
CollectedRow(t) ==
    \/ Stays(t)
    \/ ~Exists(t) /\ \E status \in Statuses : task'[t] = Created(status)
    \/ /\ Exists(t) /\ task'[t].version > task[t].version
       /\ \E status \in Statuses :
            Content(task'[t]) = Content(WithFields(task[t], status, task[t].owner, task[t].deps))
CollectedRows == \A t \in Tasks : CollectedRow(t)

LEMMA CreatedFields ==
    ASSUME NEW status
    PROVE  /\ Created(status).status = status /\ Created(status).claim = NoClaim
           /\ Created(status).deps = {} /\ Created(status).version >= 1
  BY DEF Created, NoRow

\* A reconcile writes the rows that its list or their absence from it changes.
LEMMA ReconcileRows ==
    ASSUME TypeOK, NEW r \in Requests, Reconcile(r)
    PROVE  CollectedRows
  <1> SUFFICES ASSUME NEW t \in Tasks PROVE CollectedRow(t)
    BY DEF CollectedRows
  <1>1. r.status \in Statuses /\ "cancelled" \in Statuses
    BY RequestsType DEF RequestType, Statuses
  <1>2. task[t] \in Rows /\ task[t].owner \in Agents \cup {NoAgent} /\ task[t].deps \in SUBSET Tasks
        /\ task[t].version \in Nat
    BY DEF TypeOK, Rows
  <1>3. task'[t] = IF t \in r.items THEN ListedRow(r, t)
                   ELSE IF t \in Missing(r) THEN CancelledRow(t) ELSE task[t]
    BY DEF Reconcile
  <1>4. CASE t \in r.items /\ ~Exists(t)
    BY <1>1, <1>3, <1>4 DEF ListedRow, CollectedRow
  <1>5. CASE t \in r.items /\ Exists(t)
    <2> DEFINE row == WithFields(task[t], r.status, task[t].owner, task[t].deps)
    <2>1. row \in Rows
      BY <1>1, <1>2, WithFieldsType
    <2>2. task'[t] = WrittenIfChanged(t, row)[t]
      BY <1>3, <1>5 DEF ListedRow
    <2>3. Content(task'[t]) = Content(row)
          /\ (task'[t] = task[t] \/ task'[t].version = task[t].version + 1)
      BY <2>1, <2>2, WrittenIfChangedFields
    <2> HIDE DEF row
    <2> QED
      BY <1>1, <1>2, <1>5, <2>3 DEF CollectedRow, Stays, row
  <1>6. CASE t \notin r.items /\ t \in Missing(r)
    <2> DEFINE row == WithFields(task[t], "cancelled", task[t].owner, task[t].deps)
    <2>1. row \in Rows
      BY <1>1, <1>2, WithFieldsType
    <2>2. task'[t] = Written(t, row)[t] /\ Exists(t)
      BY <1>3, <1>6 DEF CancelledRow, Missing, Collection
    <2>3. Content(task'[t]) = Content(row) /\ task'[t].version = task[t].version + 1
      BY <2>1, <2>2, WrittenFields
    <2> HIDE DEF row
    <2> QED
      BY <1>1, <1>2, <2>2, <2>3 DEF CollectedRow, row
  <1>7. CASE t \notin r.items /\ t \notin Missing(r)
    BY <1>3, <1>7 DEF CollectedRow, Stays
  <1> QED
    BY <1>4, <1>5, <1>6, <1>7

\* What readers saw stays past while versions count.
LEMMA SeenKept ==
    ASSUME TypeOK, TypeOK', SeenIsPast, seen' = seen,
           \A t \in Tasks : task'[t] = task[t] \/ task'[t].version > task[t].version
    PROVE  SeenIsPast'
  <1> SUFFICES ASSUME NEW c \in Readers, NEW t \in Tasks, seen[c].t = {t}
               PROVE  /\ seen[c].row.version <= task'[t].version
                      /\ seen[c].row.version = task'[t].version => seen[c].row = task'[t]
    BY DEF SeenIsPast
  <1>1. task[t].version \in Nat /\ task'[t].version \in Nat /\ seen[c].row.version \in Nat
    BY DEF TypeOK, Rows
  <1>2. CASE task'[t] = task[t]
    BY <1>2 DEF SeenIsPast
  <1>3. CASE task'[t].version > task[t].version
    BY <1>1, <1>3 DEF SeenIsPast
  <1> QED
    BY <1>1, <1>2, <1>3

\* The transaction of an operation is a step of the tasks, or collects rows.
LEMMA EffectRows ==
    ASSUME TypeOK, NEW r \in Requests, Effect(r)
    PROVE  RowSteps \/ CollectedRows
  <1>1. r \in RequestType
    BY RequestsType
  <1>2. /\ r.by \in Sessions /\ r.by \in Callers /\ r.what \in Whats /\ r.t \in Tasks
        /\ r.status \in Statuses /\ r.ttl \in Nat /\ r.force \in BOOLEAN
    BY <1>1 DEF RequestType, Callers
  <1>3. \A t \in Tasks : task[t] \in Rows
    BY DEF TypeOK
  <1>4. CASE CreateWithStatus(r)
    <2>1. \A t \in Tasks : task'[t] = IF t = r.t THEN Created(r.status) ELSE task[t]
      BY <1>4 DEF CreateWithStatus, TypeOK
    <2> QED
      BY <1>2, <1>4, <2>1 DEF CreateWithStatus, CollectedRows, CollectedRow, Stays
  <1>5. CASE UpdateTask(r.by, r.t, r.status, task[r.t].owner, task[r.t].deps, r.force, FALSE)
    <2>1. task[r.t].owner \in Agents \cup {NoAgent} /\ task[r.t].deps \in SUBSET Tasks
      BY <1>2, <1>3 DEF Rows
    <2> QED
      BY <1>2, <1>5, <2>1, UpdateOneRow DEF RowSteps
  <1>6. CASE ClaimTask(r.by, r.t, r.ttl, r.force)
    BY <1>2, <1>6, ClaimOneRow DEF RowSteps
  <1>7. CASE ReleaseTask(r.by, r.t, r.force)
    BY <1>2, <1>7, ReleaseOneRow DEF ReleaseTask, RowSteps
  <1>8. CASE task' = task
    BY <1>8 DEF RowSteps, Stays
  <1>9. CASE Reconcile(r)
    BY <1>9, ReconcileRows
  <1> QED
    BY <1>2, <1>4, <1>5, <1>6, <1>7, <1>8, <1>9 DEF Effect, Whats

\* Every write counts the version.
LEMMA EffectCounts ==
    ASSUME TypeOK, TypeOK', Unminted, NEW r \in Requests, Effect(r), NEW t \in Tasks
    PROVE  task'[t] = task[t] \/ task'[t].version > task[t].version
  <1>1. r \in RequestType
    BY RequestsType
  <1>2. /\ r.by \in Sessions /\ r.by \in Callers /\ r.what \in Whats /\ r.t \in Tasks
        /\ r.status \in Statuses /\ r.ttl \in Nat /\ r.force \in BOOLEAN
    BY <1>1 DEF RequestType, Callers
  <1>3. \A x \in Tasks : task[x] \in Rows /\ task[x].version \in Nat
    BY DEF TypeOK, Rows
  <1>4. ASSUME NEW x \in Tasks, NEW row \in Rows,
               task' = Written(x, row) \/ task' = WrittenIfChanged(x, row)
        PROVE  task'[t] = task[t] \/ task'[t].version > task[t].version
    <2>1. task'[t] = task[t] \/ task'[t].version = task[t].version + 1
      BY <1>4, WrittenFields, WrittenIfChangedFields
    <2> QED
      BY <1>3, <2>1
  <1>5. CASE CollectedRows
    <2>1. CASE ~Exists(t) /\ \E status \in Statuses : task'[t] = Created(status)
      <3>1. task[t].version = 0 /\ task'[t].version >= 1 /\ task'[t].version \in Nat
        BY <2>1, CreatedFields DEF Unminted, TypeOK, Rows
      <3> QED
        BY <3>1
    <2> QED
      BY <1>5, <2>1 DEF CollectedRows, CollectedRow, Stays
  <1>6. CASE CreateWithStatus(r)
    <2>1. \A x \in Tasks : task'[x] = IF x = r.t THEN Created(r.status) ELSE task[x]
      BY <1>6 DEF CreateWithStatus, TypeOK
    <2> QED
      BY <1>2, <1>5, <1>6, <2>1 DEF CreateWithStatus, CollectedRows, CollectedRow, Stays
  <1>7. CASE UpdateTask(r.by, r.t, r.status, task[r.t].owner, task[r.t].deps, r.force, FALSE)
    <2>1. task[r.t].owner \in Agents \cup {NoAgent} /\ task[r.t].deps \in SUBSET Tasks
      BY <1>2, <1>3 DEF Rows
    <2>2. WithFields(task[r.t], r.status, task[r.t].owner, task[r.t].deps) \in Rows
      BY <1>2, <1>3, <2>1, WithFieldsType
    <2> QED
      BY <1>2, <1>4, <1>7, <2>2 DEF UpdateTask
  <1>8. CASE ClaimTask(r.by, r.t, r.ttl, r.force)
    <2>1. now + r.ttl \in Nat
      BY <1>2 DEF TypeOK
    <2>2. WithClaim(task[r.t], r.by, now + r.ttl) \in Rows
      BY <1>2, <1>3, <2>1, WithClaimType
    <2> QED
      BY <1>2, <1>4, <1>8, <2>2 DEF ClaimTask
  <1>9. CASE ReleaseTask(r.by, r.t, r.force)
    <2>1. Released(task[r.t]) \in Rows
      BY <1>2, <1>3, ReleasedType
    <2> QED
      BY <1>2, <1>4, <1>9, <2>1 DEF ReleaseTask
  <1>10. CASE task' = task
    BY <1>10
  <1>11. CASE Reconcile(r)
    BY <1>5, <1>11, ReconcileRows
  <1> QED
    BY <1>2, <1>6, <1>7, <1>8, <1>9, <1>10, <1>11 DEF Effect, Whats

\* Nothing else reads or counts.
LEMMA EffectNotes ==
    ASSUME NEW r \in Requests, Effect(r)
    PROVE  seen' = seen /\ now' = now /\ last'.by = r.by /\ last'.cas = FALSE
  <1>1. r.what \in Whats
    BY RequestsType DEF RequestType
  <1>2. CASE CreateWithStatus(r)
    BY <1>2 DEF CreateWithStatus, Note
  <1>3. CASE UpdateTask(r.by, r.t, r.status, task[r.t].owner, task[r.t].deps, r.force, FALSE)
    BY <1>3 DEF UpdateTask, Note
  <1>4. CASE ClaimTask(r.by, r.t, r.ttl, r.force)
    BY <1>4 DEF ClaimTask, Note
  <1>5. CASE ReleaseTask(r.by, r.t, r.force)
    BY <1>5 DEF ReleaseTask, Note
  <1>6. CASE Note(r.by, FALSE, FALSE) /\ UNCHANGED <<now, task, seen, todo, repaired>>
    BY <1>6 DEF Note
  <1>7. CASE Reconcile(r)
    BY <1>7 DEF Reconcile, Note
  <1> QED
    BY <1>1, <1>2, <1>3, <1>4, <1>5, <1>6, <1>7 DEF Effect, Whats

-----------------------------------------------------------------------------
\* A row that no step mints is not written.
LEMMA AbsentStays ==
    ASSUME TypeOK, ClaimedInProgress, RowSteps, NEW t \in Tasks, task'[t].status = "absent"
    PROVE  task'[t] = task[t]
  <1>1. task[t] \in Rows
    BY DEF TypeOK
  <1>2. ~UpdateRow(t)
    BY <1>1 DEF UpdateRow, Content, WithFields, Rows, Statuses
  <1>3. ~CreateRow(t)
    BY DEF CreateRow, Content
  <1>4. ~ClaimRow(t)
    BY <1>1 DEF ClaimRow, Content, WithClaim, Rows
  <1>5. ~(Claimed(task[t]) /\ ReleaseRow(t))
    BY <1>1 DEF ClaimedInProgress, ReleaseRow, Content, Released, Rows
  <1>6. ~DoctorRow(t)
    <2> SUFFICES ASSUME Exists(t), NEW agent \in Agents,
                        Content(task'[t]) = Content(HandedOver(task[t], agent))
                 PROVE  FALSE
      BY DEF DoctorRow
    <2>1. Reowned(task[t], agent) \in Rows /\ Reowned(task[t], agent).status = task[t].status
      BY <1>1, CallersAssumption DEF Reowned, Rows
    <2>2. HandedOver(task[t], agent).status \in {task[t].status, "open"}
      BY <2>1 DEF HandedOver, Released, Rows
    <2> QED
      BY <2>2 DEF Content, Exists
  <1> QED
    BY <1>2, <1>3, <1>4, <1>5, <1>6 DEF RowSteps, OneRow, Alone, DoctorRows, Stays

LEMMA RowsKeepUnminted ==
    ASSUME TypeOK, ClaimedInProgress, Unminted, RowSteps
    PROVE  Unminted'
  <1> SUFFICES ASSUME NEW t \in Tasks, task'[t].status = "absent"
               PROVE  task'[t].version = 0
    BY DEF Unminted, Exists
  <1>1. task'[t] = task[t]
    BY AbsentStays
  <1> QED
    BY <1>1 DEF Unminted, Exists

\* Collected rows give up their claims or keep them in progress, and gain no
\* dependency.
LEMMA CollectedKeep ==
    ASSUME TypeOK, ClaimedInProgress, Acyclic, Unminted, CollectedRows
    PROVE  (ClaimedInProgress /\ Acyclic /\ Unminted)'
  <1>1. ASSUME NEW t \in Tasks
        PROVE  /\ task'[t].claim # NoClaim => task'[t].status = "in_progress"
               /\ task'[t].deps \in {task[t].deps, {}}
               /\ task'[t].status = "absent" => task'[t] = task[t]
    <2>1. task[t] \in Rows /\ (task[t].claim # NoClaim => task[t].status = "in_progress")
      BY DEF TypeOK, ClaimedInProgress, Claimed
    <2>2. CASE Stays(t)
      BY <2>1, <2>2 DEF Stays
    <2>3. CASE \E status \in Statuses : task'[t] = Created(status)
      BY <2>3, CreatedFields DEF Statuses
    <2>4. ASSUME NEW status \in Statuses,
                 Content(task'[t]) = Content(WithFields(task[t], status, task[t].owner, task[t].deps))
          PROVE  /\ task'[t].claim = IF status = "in_progress" THEN task[t].claim ELSE NoClaim
                 /\ task'[t].deps = task[t].deps /\ task'[t].status = status
      BY <2>1, <2>4 DEF Content, WithFields, Rows
    <2> QED
      BY <2>1, <2>2, <2>3, <2>4 DEF CollectedRows, CollectedRow, Statuses
  <1>2. Acyclic'
    <2> SUFFICES ASSUME NEW S \in SUBSET Tasks, S # {}
                 PROVE  \E t \in S : task'[t].deps \cap S = {}
      BY DEF Acyclic
    <2>1. PICK t \in S : task[t].deps \cap S = {}
      BY DEF Acyclic
    <2>2. task'[t].deps \cap S = {}
      BY <1>1, <2>1
    <2> QED
      BY <2>2
  <1>3. Unminted'
    BY <1>1 DEF Unminted, Exists
  <1> QED
    BY <1>1, <1>2, <1>3 DEF ClaimedInProgress, Claimed

\* An operation ends no live claim but as a session may.
LEMMA EffectRespects ==
    ASSUME TypeOK, ClaimedInProgress, NEW r \in Requests, Effect(r),
           NEW t \in Tasks, Live(task[t]), task'[t].claim # task[t].claim
    PROVE  ClaimRespected(t)
  <1>1. r \in RequestType
    BY RequestsType
  <1>2. /\ r.by \in Sessions /\ r.by \in Callers /\ r.what \in Whats /\ r.t \in Tasks
        /\ r.status \in Statuses /\ r.ttl \in Nat /\ r.force \in BOOLEAN
    BY <1>1 DEF RequestType, Callers
  <1>3. \A x \in Tasks : task[x] \in Rows
    BY DEF TypeOK
  <1>4. Exists(t)
    BY DEF ClaimedInProgress, Live, Exists
  <1>5. CASE CreateWithStatus(r)
    BY <1>4, <1>5 DEF CreateWithStatus, TypeOK
  <1>6. CASE UpdateTask(r.by, r.t, r.status, task[r.t].owner, task[r.t].deps, r.force, FALSE)
    <2>1. task[r.t].owner \in Agents \cup {NoAgent} /\ task[r.t].deps \in SUBSET Tasks
      BY <1>2, <1>3 DEF Rows
    <2> QED
      BY <1>2, <1>6, <2>1, UpdateRespects
  <1>7. CASE ClaimTask(r.by, r.t, r.ttl, r.force)
    BY <1>2, <1>7, ClaimRespects
  <1>8. CASE ReleaseTask(r.by, r.t, r.force)
    BY <1>2, <1>8, ReleaseRespects
  <1>9. CASE Reconcile(r)
    <2>1. last'.by = r.by
      BY <1>9 DEF Reconcile, Note
    <2>2. t \in r.items \/ t \in Missing(r)
      BY <1>9 DEF Reconcile
    <2>3. CASE t \in Missing(r)
      BY <1>9, <2>1, <2>3 DEF Reconcile, ReconcileAllowed, Cancellable, ClaimRespected
    <2>4. CASE t \in r.items
      <3> DEFINE row == WithFields(task[t], r.status, task[t].owner, task[t].deps)
      <3>1. row \in Rows
        BY <1>2, <1>3, WithFieldsType DEF Rows
      <3>2. task'[t] = WrittenIfChanged(t, row)[t]
        BY <1>4, <1>9, <2>4 DEF Reconcile, ListedRow
      <3>3. task'[t].claim = row.claim
        BY <3>1, <3>2, WrittenIfChangedFields DEF Content
      <3>4. r.status # "in_progress"
        BY <1>3, <3>3 DEF WithFields, Rows
      <3>5. MayEndClaim(r.by, task[t], FALSE)
        BY <1>4, <1>9, <2>4, <3>4 DEF Reconcile, ReconcileAllowed
      <3> QED
        BY <2>1, <3>5 DEF MayEndClaim, ClaimRespected
    <2> QED
      BY <2>2, <2>3, <2>4
  <1> QED
    BY <1>2, <1>5, <1>6, <1>7, <1>8, <1>9 DEF Effect, Whats

-----------------------------------------------------------------------------
\* A step of the service is one of the tasks' own, or an operation takes effect.
LEMMA ServiceTaskStep ==
    ASSUME SInv, [ServiceNext]_allvars
    PROVE  [Next]_vars \/ \E r \in Requests : Effect(r)
  <1>1. CASE Others
    <2>1. plot.older \subseteq Agents
      BY PlotType DEF SInv, ServiceTypeOK
    <2> QED
      BY <1>1, <2>1 DEF Others, Next, Callers
  <1>2. ASSUME NEW p \in Procs, ExecuteNew(p)
        PROVE  \E r \in Requests : Effect(r)
    BY <1>2, ReqType DEF ExecuteNew, At
  <1>3. ASSUME NEW p \in Procs, Proceed(p), ~ExecuteNew(p)
        PROVE  UNCHANGED vars
    BY <1>3 DEF Proceed, Admit, ExecuteReplay, GiveUp, FlushRead, FlushCursor, Deliver,
                Acknowledge, Return
  <1>4. ASSUME NEW p \in Procs, DeliverFails(p) \/ Die(p) \/ \E r \in plot.asked : Start(p, r)
        PROVE  UNCHANGED vars
    BY <1>4 DEF DeliverFails, Die, Start
  <1>5. CASE UNCHANGED allvars
    BY <1>5 DEF allvars
  <1> QED
    BY <1>1, <1>2, <1>3, <1>4, <1>5 DEF ServiceNext

LEMMA TasksInvInit == ServiceInit => TasksInv
  <1>1. ServiceInit => Init
    BY DEF ServiceInit
  <1>2. ASSUME Init PROVE SeenIsPast /\ Unminted
    <2>1. \A c \in Readers : seen[c].t = {}
      BY <1>2 DEF Init
    <2>2. \A t \in Tasks : task[t].version = 0
      BY <1>2 DEF Init, NoRow
    <2> QED
      BY <2>1, <2>2 DEF SeenIsPast, Unminted
  <1> QED
    BY <1>1, <1>2, ClaimInit, AcyclicInit DEF TasksInv

LEMMA TasksInvStep ==
    ASSUME SInv, SInv', TasksInv, [ServiceNext]_allvars
    PROVE  TasksInv'
  <1>1. TypeOK /\ TypeOK'
    BY DEF SInv, ServiceTypeOK
  <1>2. CASE [Next]_vars
    BY <1>1, <1>2, StepRows, ClaimStep, AcyclicStep, SeenStep, RowsKeepUnminted DEF TasksInv
  <1>3. ASSUME NEW r \in Requests, Effect(r)
        PROVE  TasksInv'
    <2>1. (ClaimedInProgress /\ Acyclic /\ Unminted)'
      <3>1. CASE RowSteps
        BY <1>1, <3>1, ClaimStep, AcyclicStep, RowsKeepUnminted DEF TasksInv
      <3>2. CASE CollectedRows
        BY <1>1, <3>2, CollectedKeep DEF TasksInv
      <3> QED
        BY <1>1, <1>3, <3>1, <3>2, EffectRows
    <2>2. seen' = seen
      BY <1>3, EffectNotes
    <2>3. \A t \in Tasks : task'[t] = task[t] \/ task'[t].version > task[t].version
      BY <1>1, <1>3, EffectCounts DEF TasksInv
    <2>4. SeenIsPast'
      BY <1>1, <2>2, <2>3, SeenKept DEF TasksInv
    <2> QED
      BY <2>1, <2>4 DEF TasksInv
  <1> QED
    BY <1>2, <1>3, ServiceTaskStep

\* What the invariants of the tasks rest on holds under the service too.
THEOREM ServiceTasksInvariance == ServiceSpec => [](SInv /\ TasksInv)
  <1>1. SInv /\ SInv' /\ TasksInv /\ [ServiceNext]_allvars => TasksInv'
    BY TasksInvStep
  <1> QED
    BY <1>1, TasksInvInit, ServiceInvariance, PTL DEF ServiceSpec

\* Only a task in progress carries a claim, also when hosts create tasks in any
\* status and reconcile collections (task_service._apply,
\* tasks.cleanup_expired_claims).
THEOREM ServiceClaimsInProgress == ServiceSpec => []ClaimedInProgress
  <1>1. SInv /\ TasksInv => ClaimedInProgress
    BY DEF TasksInv
  <1> QED
    BY <1>1, ServiceTasksInvariance, PTL

\* Dependencies never form a cycle, whatever hosts ask beside the older surfaces
\* (tasks._dependencies).
THEOREM ServiceDependenciesAcyclic == ServiceSpec => []Acyclic
  <1>1. SInv /\ TasksInv => Acyclic
    BY DEF TasksInv
  <1> QED
    BY <1>1, ServiceTasksInvariance, PTL

\* A live claim ends by its holder, by force, by a session of its bare holder or in
\* the doctor's hands, also when a host replaces a whole collection
\* (task_service._reconcile, tasks._refuse_foreign_claim).
THEOREM ServiceClaimsKept == ServiceSpec => LiveClaimKept
  <1> DEFINE Kept == \A t \in Tasks :
               (Live(task[t]) /\ task'[t].claim # task[t].claim) => ClaimRespected(t)
  <1>1. SInv /\ TasksInv /\ [ServiceNext]_allvars => [Kept]_vars
    <2> SUFFICES ASSUME SInv, TasksInv, [ServiceNext]_allvars, vars' # vars,
                        NEW t \in Tasks, Live(task[t]), task'[t].claim # task[t].claim
                 PROVE  ClaimRespected(t)
      OBVIOUS
    <2>1. TypeOK /\ ClaimedInProgress
      BY DEF SInv, ServiceTypeOK, TasksInv
    <2>2. CASE Next
      BY <2>1, <2>2, StepRespects
    <2>3. ASSUME NEW r \in Requests, Effect(r)
          PROVE  ClaimRespected(t)
      BY <2>1, <2>3, EffectRespects
    <2> QED
      BY <2>2, <2>3, ServiceTaskStep
  <1> QED
    BY <1>1, ServiceTasksInvariance, PTL DEF ServiceSpec, LiveClaimKept

\* A caller of the older surfaces that sends the version it read writes over the
\* row it read, also while hosts write (tasks.update_task).
THEOREM ServiceUpdatesSee == ServiceSpec => NoLostUpdate
  <1> DEFINE Kept == \A c \in Readers, t \in Tasks :
               (last'.cas /\ last'.by = c /\ task'[t] # task[t]) => task[t] = seen[c].row
  <1>1. SInv /\ TasksInv /\ [ServiceNext]_allvars => [Kept]_vars
    <2> SUFFICES ASSUME SInv, TasksInv, [ServiceNext]_allvars, vars' # vars,
                        NEW c \in Readers, NEW t \in Tasks,
                        last'.cas, last'.by = c, task'[t] # task[t]
                 PROVE  task[t] = seen[c].row
      OBVIOUS
    <2>1. CASE Next
      BY <2>1, StepSees DEF SInv, ServiceTypeOK, TasksInv
    <2>2. ASSUME NEW r \in Requests, Effect(r)
          PROVE  FALSE
      BY <2>2, EffectNotes
    <2> QED
      BY <2>1, <2>2, ServiceTaskStep
  <1> QED
    BY <1>1, ServiceTasksInvariance, PTL DEF ServiceSpec, NoLostUpdate
=============================================================================
