------------------------------ MODULE Reminders ------------------------------
(***************************************************************************)
(* Reminders whose action is run by a sweep, an agent's tool or a person:  *)
(* reminders.py, actions.py and the reminder rows of store.py.             *)
(*                                                                         *)
(* A sweep holds a lease while it fires one reminder after another; an     *)
(* action is claimed in the row before it is launched, and the run of a    *)
(* dead process is taken over when its claim is old.  One unit of the      *)
(* clock is the lease of one reminder (_FIRE_LEASE), which exceeds every   *)
(* subprocess budget, and is also the period of a recurring reminder.      *)
(***************************************************************************)
EXTENDS Naturals

CONSTANTS
    Reminders,
    Procs,       \* the processes: cron passes, tools, shells
    NoProc,
    MaxAttempts, \* MAX_ACTION_ATTEMPTS
    Plots        \* the bounds of the behaviours: each follows one of them

ASSUME ProcsAssumption == NoProc \notin Procs
ASSUME AttemptsAssumption == MaxAttempts \in Nat \ {0}

\* How each process runs actions, what people do with reminders, and the
\* bounds of the deaths and failed writes, and of the clock.
Hows == {"sweep", "manual", "tool"}

ASSUME PlotsAssumption ==
    Plots \subseteq [hows : [Procs -> SUBSET Hows],
                     people : SUBSET {"complete", "cancel", "snooze"},
                     faults : Nat, time : Nat]

VARIABLES
    plot,       \* the bounds of this behaviour, chosen at the start
    now,        \* the wall clock
    row,        \* the reminders table
    lock,       \* the lease of the sweep, in the meta table
    op,         \* what each process is doing
    faults,     \* deaths and failed writes so far
    tries,      \* history: launches of the occurrence, since a person's last
    notified,   \* history: the reminders whose occurrence was notified
    sent,       \* history: those whose occurrence may have been delivered
    parked      \* history: those parked over a run or a delivery

history == <<tries, notified, sent, parked>>
vars == <<plot, now, row, lock, op, faults, history>>

-----------------------------------------------------------------------------
(* Rows *)

Closed == {"completed", "cancelled"}
Undecided == {"queued", "unknown"}
Delivered == {"completed"} \cup Undecided

\* The action's state, kept in the column extra.  occurrence is the due that
\* the attempts are counted for, 0 when there are none; claim and at say who
\* runs it, and since when; "unknown" is submission_unknown.
Acts ==
    [status : {"pending", "running", "failed", "exhausted", "paused"} \cup Delivered,
     attempts : Nat, occurrence : Nat, claim : Procs \cup {NoProc}, at : Nat]

\* due is next_due, which names the occurrence.
Rows ==
    [recurring : BOOLEAN, wake : BOOLEAN,
     status : {"active", "snoozed", "fired"} \cup Closed,
     due : Nat, snooze : Nat, act : Acts]

Pending ==
    [status |-> "pending", attempts |-> 0, occurrence |-> 0, claim |-> NoProc, at |-> 0]

Fresh(recurring, wake) ==
    [recurring |-> recurring, wake |-> wake, status |-> "active",
     due |-> 1, snooze |-> 0, act |-> Pending]

Due(x) ==
    \/ x.status = "active" /\ x.due <= now
    \/ x.status = "snoozed" /\ x.snooze <= now

Deferred(x) == x.status = "snoozed" /\ x.snooze > now

\* actions._running_is_stale
StaleAtOnce(x) == TRUE
Stale(x) == now > x.act.at + 1

\* The action of the next occurrence: a run under way and a parked action
\* stay as they are.
ActRenewed(a) == Pending
ActAdvanced(a) ==
    CASE a.status = "running" -> a
      [] a.status = "paused" -> [a EXCEPT !.attempts = 0, !.occurrence = 0]
      [] OTHER -> [a EXCEPT !.status = "pending", !.attempts = 0, !.occurrence = 0]

Set(r, x) == row' = [row EXCEPT ![r] = x]

\* reminders._advance_recurring_locked, of an open reminder
Advance(r) ==
    /\ Set(r, [row[r] EXCEPT !.due = now + 1, !.status = "active", !.snooze = 0,
                             !.act = ActAdvanced(@)])
    /\ tries' = [tries EXCEPT ![r] = 0]
    /\ notified' = notified \ {r}
    /\ sent' = sent \ {r}

-----------------------------------------------------------------------------
(* Processes *)

\* how says who runs it; todo is the rest of the sweep's list; r and due are
\* the reminder at hand and the occurrence it was read with; since is when it
\* was begun; stale says that it is too overdue to run; attempts and result
\* are those of the run; seen is the action as a pause read it.
Idle == [phase |-> "idle", how |-> "sweep", todo |-> {}, r |-> {}, due |-> 0, since |-> 0,
         stale |-> FALSE, attempts |-> 0, result |-> "none", seen |-> {}]

Firing == {"read", "notify", "claim", "run", "record", "latest", "after", "settle",
           "pause", "park"}

At(p, phase) == op[p].phase = phase
Subject(p) == CHOOSE r \in op[p].r : TRUE
Row(p) == row[Subject(p)]
Current(p) == Row(p).due = op[p].due
Open(p) == Row(p).status \notin Closed

Becomes(p, o) == op' = [op EXCEPT ![p] = o]
Goes(p, phase) == op' = [op EXCEPT ![p].phase = phase]

\* The sweep goes on with the next reminder; everybody else is finished.
Done(p) ==
    Becomes(p, IF op[p].how = "sweep"
               THEN [Idle EXCEPT !.phase = "sweep", !.todo = op[p].todo]
               ELSE Idle)

Init ==
    /\ plot \in Plots
    /\ now = 0
    /\ row \in [Reminders -> {Fresh(recurring, wake) : recurring, wake \in BOOLEAN}]
    /\ lock = [by |-> NoProc, until |-> 0]
    /\ op = [p \in Procs |-> Idle]
    /\ faults = 0
    /\ tries = [r \in Reminders |-> 0]
    /\ notified = {} /\ sent = {} /\ parked = {}

-----------------------------------------------------------------------------
(* The sweep *)

\* reminders._acquire_check_lock, with the short TTL
LeaseFreeAlways == TRUE
LeaseFree == lock.by = NoProc \/ lock.until < now

Acquire(p) ==
    /\ At(p, "idle") /\ "sweep" \in plot.hows[p] /\ LeaseFree
    /\ lock' = [by |-> p, until |-> now]
    /\ Becomes(p, [Idle EXCEPT !.phase = "list"])
    /\ UNCHANGED <<plot, now, row, faults, history>>

\* store.due_reminders, each with its occurrence
ListDue(p) ==
    /\ At(p, "list")
    /\ Becomes(p, [Idle EXCEPT !.phase = "sweep",
                               !.todo = {<<r, row[r].due>> : r \in {q \in Reminders : Due(row[q])}}])
    /\ UNCHANGED <<plot, now, row, lock, faults, history>>

\* reminders._renew_check_lock: the lease of the next reminder, unless the
\* sweep has lost it; then it stops.
HoldsBlind(p) == TRUE
Holds(p) == lock.by = p

Renew(p) ==
    /\ At(p, "sweep") /\ op[p].todo # {}
    /\ IF Holds(p)
       THEN /\ lock' = [by |-> p, until |-> now + 1]
            /\ \E next \in op[p].todo :
                 Becomes(p, [Idle EXCEPT !.phase = "read", !.todo = op[p].todo \ {next},
                                         !.r = {next[1]}, !.due = next[2], !.since = now])
       ELSE Becomes(p, [Idle EXCEPT !.phase = "sweep"]) /\ UNCHANGED lock
    /\ UNCHANGED <<plot, now, row, faults, history>>

\* reminders._release_check_lock
Release(p) ==
    /\ At(p, "sweep") /\ op[p].todo = {}
    /\ lock' = IF Holds(p) THEN [by |-> NoProc, until |-> 0] ELSE lock
    /\ Becomes(p, Idle)
    /\ UNCHANGED <<plot, now, row, faults, history>>

\* reminders._fire_one begins with the row as it is now.  Whether its action
\* is too overdue to run is a matter of the configured limit.
FireRead(p) ==
    /\ At(p, "read")
    /\ IF ~Open(p) \/ ~Current(p) \/ Deferred(Row(p)) THEN Done(p)
       ELSE IF Row(p).act.status \notin Undecided
       THEN \E stale \in BOOLEAN :
              Becomes(p, [op[p] EXCEPT !.phase = "notify", !.stale = stale])
       ELSE IF Row(p).recurring THEN Goes(p, "settle") ELSE Done(p)
    /\ UNCHANGED <<plot, now, row, lock, faults, history>>

\* The notification went out; the sweep goes on unless the reminder was closed
\* or advanced meanwhile (store.update_reminder_notification).
Notify(p) ==
    /\ At(p, "notify")
    /\ notified' = IF Current(p) THEN notified \cup {Subject(p)} ELSE notified
    /\ IF Open(p) /\ Current(p)
       THEN Goes(p, IF op[p].stale THEN "after" ELSE "claim")
       ELSE Done(p)
    /\ UNCHANGED <<plot, now, row, lock, faults, tries, sent, parked>>

-----------------------------------------------------------------------------
(* Running an action: actions.execute_action                                *)

\* kin remind exec, and the tool remind_exec
Exec(p, r, how) ==
    /\ At(p, "idle")
    /\ Becomes(p, [Idle EXCEPT !.phase = "claim", !.how = how, !.r = {r},
                               !.due = row[r].due, !.since = now])
    /\ UNCHANGED <<plot, now, row, lock, faults, history>>

Manual(p) == op[p].how = "manual"

\* A claim is refused without a write.
Claimable(p) ==
    LET x == Row(p) IN
    /\ Open(p) /\ Current(p)
    /\ Manual(p) \/ ~Deferred(x)
    /\ x.act.status \notin Delivered
    /\ Manual(p) \/ x.act.status \notin {"paused", "exhausted"}
    /\ x.act.status = "running" => Stale(x)

\* The run of a dead worker may have delivered a wake.
NeverOrphaned(x) == FALSE
Orphaned(x) == x.act.status = "running" /\ x.wake

\* The attempts of this occurrence; a person's launch starts them over.
Attempts(p) ==
    IF Manual(p) \/ Row(p).act.occurrence # Row(p).due THEN 0 ELSE Row(p).act.attempts

UsedUpUnlessTakenOver(p) == Row(p).act.status # "running" /\ Attempts(p) >= MaxAttempts
UsedUp(p) == Attempts(p) >= MaxAttempts

Skipped(p) == IF op[p].how = "sweep" THEN Goes(p, "latest") ELSE Done(p)

ClaimRefused(p) ==
    /\ At(p, "claim") /\ ~Claimable(p)
    /\ IF Open(p) /\ Current(p) /\ Deferred(Row(p)) THEN Done(p) ELSE Skipped(p)
    /\ UNCHANGED <<plot, now, row, lock, faults, history>>

\* The claim of a run that will not be started is settled in the row.
ClaimSettled(p) ==
    /\ At(p, "claim") /\ Claimable(p)
    /\ \/ /\ Orphaned(Row(p))
          /\ Set(Subject(p), [Row(p) EXCEPT !.act.status = "unknown"])
       \/ /\ ~Orphaned(Row(p)) /\ UsedUp(p)
          /\ Set(Subject(p), [Row(p) EXCEPT !.act.status = "exhausted",
                                            !.act.attempts = Attempts(p),
                                            !.act.occurrence = Row(p).due])
    /\ Skipped(p)
    /\ UNCHANGED <<plot, now, lock, faults, history>>

Launch(p) ==
    /\ At(p, "claim") /\ Claimable(p) /\ ~Orphaned(Row(p)) /\ ~UsedUp(p)
    /\ Set(Subject(p), [Row(p) EXCEPT !.act = [status |-> "running",
                                               attempts |-> Attempts(p) + 1,
                                               occurrence |-> Row(p).due,
                                               claim |-> p, at |-> now]])
    /\ tries' = [tries EXCEPT ![Subject(p)] = IF Manual(p) THEN 1 ELSE @ + 1]
    /\ Becomes(p, [op[p] EXCEPT !.phase = "run", !.attempts = Attempts(p) + 1,
                                !.since = IF op[p].how = "sweep" THEN @ ELSE now])
    /\ UNCHANGED <<plot, now, lock, faults, notified, sent, parked>>

\* A wake that was, or may have been, submitted.
Submitted(p) == IF Row(p).wake /\ Current(p) THEN sent \cup {Subject(p)} ELSE sent

\* The run ends.  Only a wake's delivery is queued or unknown; a terminal
\* failure, and that of the last attempt, exhausts the occurrence.
Finish(p) ==
    /\ At(p, "run")
    /\ \E result \in {"completed", "failed", "exhausted"}
                       \cup (IF Row(p).wake THEN Undecided ELSE {}) :
         /\ result = "failed" => op[p].attempts < MaxAttempts
         /\ Becomes(p, [op[p] EXCEPT !.phase = "record", !.result = result])
         /\ sent' = IF result \in Delivered THEN Submitted(p) ELSE sent
    /\ UNCHANGED <<plot, now, row, lock, faults, tries, notified, parked>>

\* What follows a run: the sweep decides by the result, a one-shot reminder
\* that was run to completion by hand is done.
AfterRun(p, result) ==
    IF op[p].how = "sweep"
    THEN Becomes(p, [op[p] EXCEPT !.phase = IF result = "exhausted" THEN "after" ELSE "settle",
                                  !.result = result])
    ELSE IF result = "completed" /\ ~Row(p).recurring THEN Goes(p, "settle") ELSE Done(p)

\* store.update_reminder_action: the result is the row's if occurrence and
\* claim are still those of the run.
Belongs(p) == Current(p) /\ Row(p).act.claim = p

Record(p) ==
    /\ At(p, "record")
    /\ LET a == Row(p).act IN
         IF Belongs(p)
         THEN /\ Set(Subject(p), [Row(p) EXCEPT !.act = [a EXCEPT !.status = op[p].result,
                                                                  !.claim = NoProc, !.at = 0]])
              /\ sent' = IF op[p].result = "completed" THEN sent \cup {Subject(p)} ELSE sent
              /\ AfterRun(p, op[p].result)
         ELSE /\ IF a.claim = p /\ a.status = "running" /\ a.occurrence = op[p].due
                 THEN Set(Subject(p), [Row(p) EXCEPT !.act = Pending])
                 ELSE UNCHANGED row
              /\ Done(p)
              /\ UNCHANGED sent
    /\ UNCHANGED <<plot, now, lock, faults, tries, notified, parked>>

\* The write fails: the run counts as failed, the row still says running.
RecordFails(p) ==
    /\ At(p, "record") /\ faults < plot.faults
    /\ faults' = faults + 1
    /\ AfterRun(p, "failed")
    /\ UNCHANGED <<plot, now, row, lock, history>>

-----------------------------------------------------------------------------
(* Settlement: the rest of reminders._fire_one                              *)

\* After a skipped claim.
Latest(p) ==
    /\ At(p, "latest")
    /\ IF Current(p) /\ Row(p).act.status # "running" THEN Goes(p, "after") ELSE Done(p)
    /\ UNCHANGED <<plot, now, row, lock, faults, history>>

\* Without a run: an occurrence that is delivered is not parked.
After(p) ==
    /\ At(p, "after")
    /\ Becomes(p, [op[p] EXCEPT !.phase = "settle",
                                !.stale = @ /\ Row(p).act.status \notin Undecided])
    /\ UNCHANGED <<plot, now, row, lock, faults, history>>

\* Only the sweep names the occurrence it settles.
ExpectedAny(p) == TRUE
Expected(p) == op[p].how = "sweep" => Current(p)

MaySettle(p) == Open(p)

SettledStatus(p) == IF op[p].result = "completed" THEN "completed" ELSE "fired"

\* store.settle_reminder and reminders.advance_recurring.  A failed run is
\* retried on its occurrence; a stale action is parked once it is advanced.
Settle(p) ==
    /\ At(p, "settle")
    /\ IF ~Expected(p) \/ ~MaySettle(p)
       THEN Done(p) /\ UNCHANGED <<row, history>>
       ELSE IF Row(p).recurring /\ op[p].result # "failed"
       THEN /\ Advance(Subject(p))
            /\ IF op[p].stale THEN Goes(p, "pause") ELSE Done(p)
            /\ UNCHANGED parked
       ELSE /\ Set(Subject(p), [Row(p) EXCEPT !.status = SettledStatus(p)])
            /\ Done(p)
            /\ UNCHANGED history
    /\ UNCHANGED <<plot, now, lock, faults>>

\* reminders._pause_action reads the action and writes it back parked, with
\* whatever it read.
PauseRead(p) ==
    /\ At(p, "pause")
    /\ Becomes(p, [op[p] EXCEPT !.phase = "park", !.seen = {Row(p).act}])
    /\ UNCHANGED <<plot, now, row, lock, faults, history>>

\* A run, or a delivery, that the parking overwrites is noted.
Parks(p, a) ==
    /\ Set(Subject(p), [Row(p) EXCEPT !.act = [a EXCEPT !.status = "paused"]])
    /\ parked' = IF Row(p).act.status \in Delivered \cup {"running"}
                 THEN parked \cup {Subject(p)} ELSE parked
    /\ Done(p)
    /\ UNCHANGED <<plot, now, lock, tries, notified, sent>>

Pause(p) ==
    /\ At(p, "park")
    /\ \E a \in op[p].seen : Parks(p, a)
    /\ UNCHANGED faults

\* reminders._set_aside: a sweep that fails on a reminder parks its action.
SetAside(p) ==
    /\ op[p].how = "sweep" /\ op[p].phase \in Firing \ {"run", "record"}
    /\ faults < plot.faults
    /\ faults' = faults + 1
    /\ Parks(p, Row(p).act)

-----------------------------------------------------------------------------
(* People, and the sweep of what they ignore *)

\* reminders.complete_reminder
Complete(r) ==
    /\ IF ~row[r].recurring
       THEN Set(r, [row[r] EXCEPT !.status = "completed"]) /\ UNCHANGED history
       ELSE row[r].status \notin Closed /\ Advance(r) /\ UNCHANGED parked
    /\ UNCHANGED <<plot, now, lock, op, faults>>

\* reminders.cancel_reminder
Cancel(r) ==
    /\ Set(r, [row[r] EXCEPT !.status = "cancelled"])
    /\ UNCHANGED <<plot, now, lock, op, faults, history>>

\* A person snoozes any reminder; the sweep those that stay fired, whatever
\* the configured timeout (reminders.auto_snooze_stale).
SnoozedFor(r) == Set(r, [row[r] EXCEPT !.status = "snoozed", !.snooze = now + 1])

Snooze(r) ==
    /\ SnoozedFor(r)
    /\ UNCHANGED <<plot, now, lock, op, faults, history>>

AutoSnooze(r) ==
    /\ row[r].status = "fired"
    /\ SnoozedFor(r)
    /\ UNCHANGED <<plot, now, lock, op, faults, history>>

\* A process dies; the wake it was submitting may have arrived.
Die(p) ==
    /\ ~At(p, "idle") /\ faults < plot.faults
    /\ faults' = faults + 1
    /\ Becomes(p, Idle)
    /\ sent' = IF At(p, "run") THEN Submitted(p) ELSE sent
    /\ UNCHANGED <<plot, now, row, lock, tries, notified, parked>>

\* A run ends within its subprocess budget, and a sweep is done with one
\* reminder within its lease; elsewhere a process may be slow.
InBudget(p) ==
    \/ op[p].since = now
    \/ op[p].phase \notin Firing
    \/ op[p].how # "sweep" /\ op[p].phase \notin {"run", "record"}

Tick ==
    /\ now < plot.time
    /\ \A p \in Procs : InBudget(p)
    /\ now' = now + 1
    /\ UNCHANGED <<plot, row, lock, op, faults, history>>

-----------------------------------------------------------------------------
Fire(p) ==
    \/ Acquire(p) \/ ListDue(p) \/ Renew(p) \/ Release(p) \/ FireRead(p) \/ Notify(p)
    \/ ClaimRefused(p) \/ ClaimSettled(p) \/ Launch(p) \/ Finish(p)
    \/ Record(p) \/ RecordFails(p) \/ Latest(p) \/ After(p) \/ Settle(p)
    \/ PauseRead(p) \/ Pause(p) \/ SetAside(p) \/ Die(p)

Next ==
    \/ \E p \in Procs : Fire(p)
    \/ \E p \in Procs, r \in Reminders :
         \E how \in plot.hows[p] \ {"sweep"} : Exec(p, r, how)
    \/ \E r \in Reminders :
         \/ "complete" \in plot.people /\ Complete(r)
         \/ "cancel" \in plot.people /\ Cancel(r)
         \/ "snooze" \in plot.people /\ Snooze(r)
         \/ AutoSnooze(r)
    \/ Tick

Spec == Init /\ [][Next]_vars

-----------------------------------------------------------------------------
(* Properties *)

\* Rows, the lease and the processes keep their shape.
TypeOK ==
    /\ plot \in Plots /\ now \in Nat /\ faults \in Nat
    /\ row \in [Reminders -> Rows]
    /\ lock \in [by : Procs \cup {NoProc}, until : Nat]
    /\ op \in [Procs -> [phase : {"idle", "list", "sweep"} \cup Firing,
                         how : Hows, todo : SUBSET (Reminders \X Nat),
                         r : SUBSET Reminders, due : Nat, since : Nat, stale : BOOLEAN,
                         attempts : Nat, seen : SUBSET Acts,
                         result : {"none", "failed", "exhausted"} \cup Delivered]]
    /\ tries \in [Reminders -> Nat]
    /\ notified \subseteq Reminders /\ sent \subseteq Reminders /\ parked \subseteq Reminders

\* However many schedulers run sweeps, one at a time fires reminders, although
\* a sweep may die, or sleep past its lease (reminders._acquire_check_lock).
OneFiring ==
    \A p, q \in Procs :
        p # q /\ op[p].phase \in Firing /\ op[q].phase \in Firing
            => op[p].how # "sweep" \/ op[q].how # "sweep"

\* No action runs twice at a time, whether a sweep, a tool or a person starts
\* it, over an advance and a take-over (actions._claim_action); but for one
\* that was parked while it ran.
NoOverlap ==
    \A p, q \in Procs :
        p # q /\ At(p, "run") /\ At(q, "run") /\ op[p].r = op[q].r => op[p].r \subseteq parked

\* An occurrence is launched no more often than its attempts allow, dead
\* workers included, and not again once it was completed or may have been
\* submitted to an agent's session; but for one that was parked over its
\* delivery (actions._claim_action).
LaunchesBounded ==
    [][\A p \in Procs :
         At(p, "claim") /\ op'[p].phase = "run"
            => \A r \in op[p].r \ parked : r \notin sent /\ tries'[r] <= MaxAttempts]_vars

\* A sweep passes over no occurrence that it, or a sweep before it, has not
\* notified or found delivered (reminders._fire_one).
NonePassedOver ==
    [][\A p \in Procs :
         At(p, "settle") /\ op'[p].phase # "settle" /\ Row(p).due # row'[Subject(p)].due
            => Subject(p) \in notified \/ Row(p).act.status \in Undecided]_vars
-----------------------------------------------------------------------------
(* What the documentation promises and the code does not do: TLC refutes   *)
(* each of these.                                                          *)

\* An execution in flight is never overlapped by another one, parked or not
\* (reminders._advance_recurring_locked).
NeverOverlaps ==
    \A p, q \in Procs :
        p # q /\ At(p, "run") /\ At(q, "run") => op[p].r # op[q].r
=============================================================================
