------------------------------ MODULE Reviews ------------------------------
(***************************************************************************)
(* The queue of supervisory reviews (sim.py from enqueue_sim_review on,    *)
(* sim_queue.py, adaptive_sim.py).  Hooks of the agents' hosts admit       *)
(* windows of conversations and pick finished advice up; workers take one  *)
(* review at a time into a durable claim and call a provider that has to   *)
(* be paid.  One worker lock lets one worker or manual check work; every   *)
(* change of the durable rows is one transaction under the queue lock, and *)
(* so is each action here.  A worker may die, or lose a write, between any *)
(* two of them.                                                            *)
(*                                                                         *)
(* Adaptive control is on.  Cadence, window texts, and the limits on how   *)
(* many receipts are kept are left out.                                    *)
(***************************************************************************)
EXTENDS Integers, Sequences, FiniteSets, SequencesExt, Filters

CONSTANTS
    Convs,        \* conversations
    Windows,      \* what a hook may observe of one
    Workers,      \* processes that drain the queue
    MaxReviews,   \* bounds how many reviews are admitted
    MaxQueue,     \* sim.max_queue
    MaxJobs,      \* max_jobs of a drain
    Threshold,    \* failure_threshold of the circuit
    Faults        \* bounds deaths, lost messages and imposed backoffs

ASSUME ReviewsAssumption ==
    /\ MaxReviews \in Nat /\ MaxQueue \in Nat \ {0} /\ MaxJobs \in Nat \ {0}
    /\ Threshold \in Nat \ {0} /\ Faults \in Nat

VARIABLES
    issued,    \* the reviews admitted so far, <<conversation, window>> of each
    meta,      \* the rows of the store: see Rows
    control,   \* adaptive_sim.ControlState: see Controls
    worker,    \* where each worker is: see Workings
    knock,     \* a background worker has been started and has not looked yet
    hook,      \* advice that a hook has taken and not yet handed to its host
    health,    \* the events that health has of each review
    past,      \* history: see Pasts
    mishaps    \* faults so far

reviewVars == <<issued, meta, control, worker, knock, hook, health, past, mishaps>>

-----------------------------------------------------------------------------
(* State *)

Reviews == 1..MaxReviews
NoReview == 0

Phases == {"claimed", "sim_started", "sim_saved", "advocate_started", "ready"}
Answers == {"quiet", "advice", "deep", "failure", "neutral"}
Outcomes == {"none", "quiet", "advisory", "failure", "neutral"}

\* sim_queue.ReviewClaim; the advice is there when the phase is ready.
Claims == [review : {NoReview} \cup Reviews, phase : Phases,
           result : {"none", "quiet", "advice", "deep"}, terminal : Outcomes]
NoClaim == [review |-> NoReview, phase |-> "claimed", result |-> "none", terminal |-> "none"]
ClaimOf(r) == [NoClaim EXCEPT !.review = r]

\* sim.queue, sim.admission.*, sim.claim, sim.pending, sim.receipt.*
Rows == [queue : Seq(Reviews), admission : [Convs -> SUBSET Windows], claim : Claims,
         pending : Seq(Reviews),
         receipt : [Convs -> [review : {NoReview} \cup Reviews, due : BOOLEAN, discards : SUBSET Reviews]]]

AdviceStates == {"none", "generated", "emitted", "acknowledged", "expired", "discarded"}
Controls == [failures : 0..Threshold, cooling : BOOLEAN, backoff : SUBSET Convs,
             advice : [Reviews -> AdviceStates], old : SUBSET Reviews]

Places == {"off", "gate", "flush", "next", "act", "park", "start", "call", "called",
           "judge", "advocate", "advised", "ack", "check", "checked"}
Workings == [at : Places, background : BOOLEAN, recovered : BOOLEAN, deferred : SUBSET Reviews,
             jobs : 0..MaxJobs, answer : {"none"} \cup Answers]
Off == [at |-> "off", background |-> FALSE, recovered |-> FALSE, deferred |-> {}, jobs |-> 0,
        answer |-> "none"]

\* paid and advised count the calls for a review, shown how often a host got its
\* advice, ends how often it ended; credit counts the cooldowns that ended since
\* the circuit tripped less the calls made since (2 stands for more, -1 for a call
\* too many), acked are the
\* reviews whose claim was acknowledged and unheard those whose result health has
\* refused.
Pasts == [paid : [Reviews -> 0..2], advised : [Reviews -> 0..2], shown : [Reviews -> 0..2],
          ends : [Reviews -> 0..2], credit : -1..2, acked : SUBSET Reviews, unheard : SUBSET Reviews]

ReviewsInit ==
    /\ issued = <<>>
    /\ meta = [queue |-> <<>>, admission |-> [c \in Convs |-> {}], claim |-> NoClaim, pending |-> <<>>,
               receipt |-> [c \in Convs |-> [review |-> NoReview, due |-> FALSE, discards |-> {}]]]
    /\ control = [failures |-> 0, cooling |-> FALSE, backoff |-> {},
                  advice |-> [r \in Reviews |-> "none"], old |-> {}]
    /\ worker = [w \in Workers |-> Off]
    /\ knock = FALSE
    /\ hook = {}
    /\ health = [r \in Reviews |-> {}]
    /\ past = [paid |-> [r \in Reviews |-> 0], advised |-> [r \in Reviews |-> 0],
               shown |-> [r \in Reviews |-> 0], ends |-> [r \in Reviews |-> 0],
               credit |-> 0, acked |-> {}, unheard |-> {}]
    /\ mishaps = 0

Conv(r) == issued[r][1]
Others(rows, c) == Where(rows, {r \in DOMAIN issued : Conv(r) # c})
Lacks(rows, c) == \A r \in ToSet(rows) : Conv(r) # c
Newest(rows) == SubSeq(rows, IF Len(rows) > MaxQueue THEN Len(rows) - MaxQueue + 1 ELSE 1, Len(rows))

More(counts, rs) == [r \in Reviews |-> IF r \in rs /\ counts[r] < 2 THEN counts[r] + 1 ELSE counts[r]]
Marked(advice, rs, state) == [r \in Reviews |-> IF r \in rs THEN state ELSE advice[r]]
Told(rs, event) == [r \in Reviews |-> IF r \in rs THEN health[r] \cup {event} ELSE health[r]]

Fault == mishaps < Faults /\ mishaps' = mishaps + 1

\* adaptive_sim.admission_reason without the cadence
Blocked(c) == c \in control.backoff \/ control.cooling

-----------------------------------------------------------------------------
(* Hooks *)

\* sim.enqueue_sim_review: the new window replaces a waiting one of its
\* conversation and may push others out.  Then a worker is started.
ReadmitsOne(admission, c, w, out) == [admission EXCEPT ![c] = {w}]
Readmits(admission, c, w, out) ==
    [d \in Convs |-> IF d = c THEN {w} ELSE IF \E r \in out : Conv(r) = d THEN {} ELSE admission[d]]

Enqueue(c, w) ==
    /\ Len(issued) < MaxReviews
    /\ w \notin meta.admission[c] /\ ~Blocked(c)
    /\ LET r == Len(issued) + 1
           kept == Newest(Append(Others(meta.queue, c), r))
           out == ToSet(meta.queue) \ ToSet(kept)
       IN /\ issued' = Append(issued, <<c, w>>)
          /\ meta' = [meta EXCEPT !.queue = kept, !.admission = Readmits(@, c, w, out)]
          /\ control' = [control EXCEPT !.advice = Marked(@, out, "discarded")]
          /\ past' = [past EXCEPT !.ends = More(@, out)]
          /\ health' = [Told(out, "discarded") EXCEPT ![r] = @ \cup {"queued"}]
    /\ \/ knock' = TRUE /\ UNCHANGED mishaps
       \/ knock' = knock /\ Fault
    /\ UNCHANGED <<worker, hook>>

\* sim.pop_pending_sim_injection: out of date, or taken to be shown
TakesNothing(r) == meta
Takes(r) == [meta EXCEPT !.pending = Others(@, Conv(r))]

Drop(r) ==
    /\ r \in ToSet(meta.pending)
    /\ meta' = Takes(r)
    /\ control' = [control EXCEPT !.advice[r] = IF r \in control.old THEN "expired" ELSE "discarded"]
    /\ health' = Told({r}, "discarded")
    /\ UNCHANGED <<issued, worker, knock, hook, past, mishaps>>

Pop(r) ==
    /\ r \in ToSet(meta.pending) /\ r \notin control.old
    /\ meta' = Takes(r)
    /\ control' = [control EXCEPT !.advice[r] = "emitted"]
    /\ hook' = hook \cup {r}
    /\ health' = Told({r}, "delivered")
    /\ UNCHANGED <<issued, worker, knock, past, mishaps>>

Show(r) ==
    /\ r \in hook
    /\ hook' = hook \ {r}
    /\ past' = [past EXCEPT !.shown = More(@, {r})]
    /\ UNCHANGED <<issued, meta, control, worker, knock, health, mishaps>>

HookDies(r) ==
    /\ r \in hook /\ Fault
    /\ hook' = hook \ {r}
    /\ UNCHANGED <<issued, meta, control, worker, knock, health, past>>

-----------------------------------------------------------------------------
(* Controls *)

Ages(r) ==
    /\ r \notin control.old
    /\ \/ control.advice[r] \in {"generated", "emitted"}
       \/ meta.claim.review = r /\ meta.claim.phase = "ready"
    /\ control' = [control EXCEPT !.old = @ \cup {r}]
    /\ UNCHANGED <<issued, meta, worker, knock, hook, health, past, mishaps>>

\* adaptive_sim._expire, which control_status and acknowledge_advice save
Expired == [r \in Reviews |-> IF r \in control.old /\ control.advice[r] \in {"generated", "emitted"}
                              THEN "expired" ELSE control.advice[r]]

ControlStatus ==
    /\ control.advice # Expired
    /\ control' = [control EXCEPT !.advice = Expired]
    /\ UNCHANGED <<issued, meta, worker, knock, hook, health, past, mishaps>>

AcknowledgeAdvice(r) ==
    /\ control.advice[r] \notin {"none", "acknowledged"}
    /\ control' = [control EXCEPT !.advice = IF Expired[r] = "emitted" THEN [Expired EXCEPT ![r] = "acknowledged"]
                                             ELSE Expired]
    /\ UNCHANGED <<issued, meta, worker, knock, hook, health, past, mishaps>>

SetBackoff(c) ==
    /\ c \notin control.backoff /\ Fault
    /\ control' = [control EXCEPT !.backoff = @ \cup {c}]
    /\ UNCHANGED <<issued, meta, worker, knock, hook, health, past>>

\* clear_override, or its time is over
BackoffEnds(c) ==
    /\ c \in control.backoff
    /\ control' = [control EXCEPT !.backoff = @ \ {c}]
    /\ UNCHANGED <<issued, meta, worker, knock, hook, health, past, mishaps>>

CooldownEnds ==
    /\ control.cooling
    /\ control' = [control EXCEPT !.cooling = FALSE]
    /\ past' = [past EXCEPT !.credit = IF @ < 2 THEN @ + 1 ELSE 2]
    /\ UNCHANGED <<issued, meta, worker, knock, hook, health, mishaps>>

\* adaptive_sim.apply_outcome
Applied(ctl, outcome) ==
    LET failures == IF ctl.failures < Threshold THEN ctl.failures + 1 ELSE Threshold IN
    CASE outcome \in {"quiet", "advisory"} -> [ctl EXCEPT !.failures = 0, !.cooling = FALSE]
      [] outcome = "failure" -> [ctl EXCEPT !.failures = failures, !.cooling = @ \/ failures = Threshold]
      [] OTHER -> ctl

Credited(ctl) == IF ctl.failures < Threshold THEN 0 ELSE past.credit

-----------------------------------------------------------------------------
(* Who works: sim.drain_sim_queue *)

At(w, place) == worker[w].at = place
Goes(w, place) == worker' = [worker EXCEPT ![w].at = place]
WorkerFree == \A w \in Workers : worker[w].at \in {"off", "gate"}

\* A background worker waits for its turn unless another one waits already.
Wake ==
    /\ knock /\ knock' = FALSE
    /\ \/ \E w \in Workers : At(w, "gate")
          /\ UNCHANGED worker
       \/ /\ \A w \in Workers : ~At(w, "gate")
          /\ \E w \in Workers : At(w, "off") /\ worker' = [worker EXCEPT ![w] = [Off EXCEPT !.at = "gate"]]
    /\ UNCHANGED <<issued, meta, control, hook, health, past, mishaps>>

BeginsAtOnce(background) == [Off EXCEPT !.at = "next", !.background = background]
Begins(background) == [Off EXCEPT !.at = "flush", !.background = background]

Enter(w) ==
    /\ At(w, "gate") /\ WorkerFree
    /\ worker' = [worker EXCEPT ![w] = Begins(TRUE)]
    /\ UNCHANGED <<issued, meta, control, knock, hook, health, past, mishaps>>

\* the pass of cron, and kin sim drain
Drain(w) ==
    /\ At(w, "off") /\ WorkerFree
    /\ worker' = [worker EXCEPT ![w] = Begins(FALSE)]
    /\ UNCHANGED <<issued, meta, control, knock, hook, health, past, mishaps>>

Die(w) ==
    /\ ~At(w, "off") /\ Fault
    /\ worker' = [worker EXCEPT ![w] = Off]
    /\ UNCHANGED <<issued, meta, control, knock, hook, health, past>>

\* sim_queue.flush_receipts; a receipt that health did not take stays due.
NeverDue(c, heard) == FALSE
StaysDue(c, heard) == meta.receipt[c].due /\ c \notin heard

Flush(w) ==
    /\ At(w, "flush")
    /\ worker' = [worker EXCEPT ![w].at = "next", ![w].recovered = FALSE]
    /\ \E heard \in SUBSET {c \in Convs : meta.receipt[c].due} :
         LET deaf == {c \in Convs : meta.receipt[c].due} \ heard
             done(cs) == {meta.receipt[c].review : c \in cs}
             gone(cs) == UNION {meta.receipt[c].discards : c \in cs}
         IN /\ health' = [r \in Reviews |-> health[r] \cup (IF r \in done(heard) THEN {"result"} ELSE {})
                                                      \cup (IF r \in gone(heard) THEN {"discarded"} ELSE {})]
            /\ meta' = [meta EXCEPT !.receipt = [c \in Convs |-> [meta.receipt[c] EXCEPT !.due = StaysDue(c, heard)]]]
            /\ past' = [past EXCEPT !.unheard = @ \cup done(deaf)]
            /\ IF deaf = {} THEN UNCHANGED mishaps ELSE Fault
    /\ UNCHANGED <<issued, control, knock, hook>>

-----------------------------------------------------------------------------
(* One review after the other: sim._drain_claimed *)

Candidates(w) == Where(meta.queue, Reviews \ worker[w].deferred)
Iterates(w) == worker[w].jobs < MaxJobs

\* sim_queue.claim_next: a claim that an earlier worker left, or the next job
ClaimLeft(w) ==
    /\ At(w, "next") /\ Iterates(w) /\ meta.claim # NoClaim
    /\ worker' = [worker EXCEPT ![w].at = "act", ![w].recovered = TRUE, ![w].jobs = @ + 1]
    /\ UNCHANGED <<issued, meta, control, knock, hook, health, past, mishaps>>

ClaimedAlone(r) == [meta EXCEPT !.claim = ClaimOf(r)]
Claimed(r) == [meta EXCEPT !.claim = ClaimOf(r), !.queue = Where(@, Reviews \ {r})]

ClaimNext(w) ==
    /\ At(w, "next") /\ Iterates(w) /\ meta.claim = NoClaim /\ Candidates(w) # <<>>
    /\ meta' = Claimed(Head(Candidates(w)))
    /\ worker' = [worker EXCEPT ![w].at = "act", ![w].recovered = FALSE, ![w].jobs = @ + 1]
    /\ UNCHANGED <<issued, control, knock, hook, health, past, mishaps>>

\* A background worker that leaves work behind starts another one.
NothingRunnable == FALSE
Runnable == \E r \in ToSet(meta.queue) : ~Blocked(Conv(r))

Ends(w) ==
    /\ At(w, "next") /\ (Iterates(w) => meta.claim = NoClaim /\ Candidates(w) = <<>>)
    /\ worker' = [worker EXCEPT ![w] = Off]
    /\ knock' = (knock \/ (worker[w].background /\ Runnable))
    /\ UNCHANGED <<issued, meta, control, hook, health, past, mishaps>>

\* finish(): the outcome is saved with the claim before it is acknowledged.
Finishes(w, outcome) ==
    /\ meta' = [meta EXCEPT !.claim.terminal = outcome]
    /\ Goes(w, "ack")

Saved == meta.claim.terminal # "none"
UncertainSim(w) == worker[w].recovered /\ meta.claim.phase = "sim_started"
Uncertain(w) == worker[w].recovered /\ meta.claim.phase \in {"sim_started", "advocate_started"}

Resume(w) ==
    /\ At(w, "act")
    /\ \/ Saved /\ Finishes(w, meta.claim.terminal)
       \/ ~Saved /\ meta.claim.phase = "ready" /\ Finishes(w, "advisory")
       \/ ~Saved /\ Uncertain(w) /\ Finishes(w, "neutral")
    /\ UNCHANGED <<issued, control, knock, hook, health, past, mishaps>>

Fresh(w) == At(w, "act") /\ ~Saved /\ meta.claim.phase # "ready" /\ ~Uncertain(w)

\* a job that makes no sense, or a review that is switched off by now
Refuse(w) ==
    /\ Fresh(w)
    /\ Finishes(w, "neutral")
    /\ UNCHANGED <<issued, control, knock, hook, health, past, mishaps>>

\* adaptive_sim.prepare_dispatch: the first call after a cooldown starts another.
PreparedAlready == control
Prepared == [control EXCEPT !.cooling = control.cooling \/ control.failures = Threshold]

Prepare(w) ==
    /\ Fresh(w) /\ meta.claim.result = "none"
    /\ IF Blocked(Conv(meta.claim.review)) THEN Goes(w, "park") /\ UNCHANGED control
       ELSE Goes(w, "start") /\ control' = Prepared
    /\ UNCHANGED <<issued, meta, knock, hook, health, past, mishaps>>

Reuse(w) ==
    /\ Fresh(w) /\ meta.claim.result # "none"
    /\ Goes(w, "judge")
    /\ UNCHANGED <<issued, meta, control, knock, hook, health, past, mishaps>>

\* sim_queue.park_claim: back to the tail, unless a newer window waits
Park(w) ==
    /\ At(w, "park")
    /\ LET r == meta.claim.review
           c == Conv(r)
           waiting == IF Lacks(meta.queue, c) THEN Append(meta.queue, r) ELSE meta.queue
           kept == Newest(waiting)
           out == (ToSet(meta.queue) \cup {r}) \ ToSet(kept)
           left == {Conv(q) : q \in out} \ {Conv(q) : q \in ToSet(kept)}
       IN /\ meta' = [meta EXCEPT !.queue = kept, !.claim = NoClaim,
                        !.admission = [d \in Convs |-> IF d \in left THEN {} ELSE @[d]]]
          /\ control' = [control EXCEPT !.advice = Marked(@, out, "discarded")]
          /\ past' = [past EXCEPT !.ends = More(@, out)]
          /\ worker' = [worker EXCEPT ![w].at = "next", ![w].deferred = @ \cup {r}]
    /\ UNCHANGED <<issued, knock, hook, health, mishaps>>

Start(w) ==
    /\ At(w, "start")
    /\ meta' = [meta EXCEPT !.claim.phase = "sim_started"]
    /\ Goes(w, "call")
    /\ UNCHANGED <<issued, control, knock, hook, health, past, mishaps>>

\* sim.call_sim
Spends == past.credit - (IF control.failures = Threshold /\ past.credit >= 0 THEN 1 ELSE 0)

Call(w, answer) ==
    /\ At(w, "call")
    /\ worker' = [worker EXCEPT ![w].at = "called", ![w].answer = answer]
    /\ past' = [past EXCEPT !.paid = More(@, {meta.claim.review}), !.credit = Spends]
    /\ UNCHANGED <<issued, meta, control, knock, hook, health, mishaps>>

SaveAnswer(w) ==
    /\ At(w, "called")
    /\ LET answer == worker[w].answer IN
       /\ meta' = [meta EXCEPT !.claim = IF answer \in {"failure", "neutral"} THEN [@ EXCEPT !.terminal = answer]
                                        ELSE [@ EXCEPT !.result = answer, !.phase = "sim_saved"]]
       /\ worker' = [worker EXCEPT ![w].answer = "none",
                        ![w].at = IF answer \in {"failure", "neutral"} THEN "ack" ELSE "judge"]
    /\ UNCHANGED <<issued, control, knock, hook, health, past, mishaps>>

Advises(w) ==
    /\ meta' = [meta EXCEPT !.claim.phase = "ready"]
    /\ Goes(w, "act")

\* A deep review is escalated when its gate is open: enabled, wired, affordable
\* and not on cooldown.
Judge(w) ==
    /\ At(w, "judge")
    /\ \/ meta.claim.result = "quiet" /\ Finishes(w, "quiet")
       \/ meta.claim.result \in {"advice", "deep"} /\ Advises(w)
       \/ /\ meta.claim.result = "deep"
          /\ meta' = [meta EXCEPT !.claim.phase = "advocate_started"]
          /\ Goes(w, "advocate")
    /\ UNCHANGED <<issued, control, knock, hook, health, past, mishaps>>

Advocate(w) ==
    /\ At(w, "advocate")
    /\ past' = [past EXCEPT !.advised = More(@, {meta.claim.review})]
    /\ Goes(w, "advised")
    /\ UNCHANGED <<issued, meta, control, knock, hook, health, mishaps>>

SaveAdvice(w) ==
    /\ At(w, "advised")
    /\ Advises(w)
    /\ UNCHANGED <<issued, control, knock, hook, health, past, mishaps>>

\* sim_queue.acknowledge: outcome, advice, receipt and the end of the claim
Acknowledge(w) ==
    /\ At(w, "ack")
    /\ LET r == meta.claim.review
           c == Conv(r)
           ready == meta.claim.phase = "ready"
           over == IF ready THEN ToSet(meta.pending) \ ToSet(Others(meta.pending, c)) ELSE {}
           kept == IF ready THEN Newest(Append(Others(meta.pending, c), r)) ELSE meta.pending
           out == (over \cup ToSet(meta.pending)) \ ToSet(kept)
           applied == Applied(control, meta.claim.terminal)
       IN /\ meta' = [meta EXCEPT !.claim = NoClaim, !.pending = kept,
                        !.receipt[c] = [review |-> r, due |-> TRUE, discards |-> over]]
          /\ control' = [applied EXCEPT !.advice = Marked(Marked(@, out, "discarded"), IF ready THEN {r} ELSE {},
                                                          IF r \in control.old THEN "expired" ELSE "generated")]
          /\ past' = [past EXCEPT !.ends = More(@, {r}), !.acked = @ \cup {r}, !.credit = Credited(applied)]
    /\ Goes(w, "flush")
    /\ UNCHANGED <<issued, knock, hook, health, mishaps>>

\* sim.controlled_sim_check: a person's check has the same lock and gates.
Check(w, c) ==
    /\ At(w, "off") /\ WorkerFree /\ ~Blocked(c)
    /\ worker' = [worker EXCEPT ![w].at = "check"]
    /\ control' = Prepared
    /\ UNCHANGED <<issued, meta, knock, hook, health, past, mishaps>>

CheckCall(w, answer) ==
    /\ At(w, "check")
    /\ worker' = [worker EXCEPT ![w].at = "checked", ![w].answer = answer]
    /\ past' = [past EXCEPT !.credit = Spends]
    /\ UNCHANGED <<issued, meta, control, knock, hook, health, mishaps>>

CheckEnds(w) ==
    /\ At(w, "checked")
    /\ LET answer == worker[w].answer
           applied == Applied(control, IF answer \in {"advice", "deep"} THEN "advisory" ELSE answer)
       IN control' = applied /\ past' = [past EXCEPT !.credit = Credited(applied)]
    /\ worker' = [worker EXCEPT ![w] = Off]
    /\ UNCHANGED <<issued, meta, knock, hook, health, mishaps>>

-----------------------------------------------------------------------------
Hooks ==
    \/ \E c \in Convs : \E v \in Windows : Enqueue(c, v)
    \/ \E r \in Reviews : Drop(r) \/ Pop(r) \/ Show(r) \/ HookDies(r)

Switches ==
    \/ ControlStatus \/ CooldownEnds
    \/ \E r \in Reviews : Ages(r) \/ AcknowledgeAdvice(r)
    \/ \E c \in Convs : SetBackoff(c) \/ BackoffEnds(c)

Works(w) ==
    \/ Flush(w) \/ ClaimLeft(w) \/ ClaimNext(w) \/ Ends(w)
    \/ Resume(w) \/ Refuse(w) \/ Prepare(w) \/ Reuse(w) \/ Park(w) \/ Start(w)
    \/ \E a \in Answers : Call(w, a) \/ CheckCall(w, a)
    \/ SaveAnswer(w) \/ Judge(w) \/ Advocate(w) \/ SaveAdvice(w) \/ Acknowledge(w) \/ CheckEnds(w)

ReviewsNext ==
    \/ Hooks \/ Switches \/ Wake
    \/ \E w \in Workers : Enter(w) \/ Drain(w) \/ Die(w) \/ Works(w) \/ \E c \in Convs : Check(w, c)

ReviewsSpec == ReviewsInit /\ [][ReviewsNext]_reviewVars

-----------------------------------------------------------------------------
(* Properties *)

ReviewsTypeOK ==
    /\ issued \in Seq(Convs \X Windows) /\ Len(issued) <= MaxReviews
    /\ meta \in Rows /\ control \in Controls
    /\ worker \in [Workers -> Workings]
    /\ knock \in BOOLEAN /\ hook \subseteq Reviews
    /\ health \in [Reviews -> SUBSET {"queued", "result", "delivered", "discarded"}]
    /\ past \in Pasts /\ mishaps \in 0..Faults

\* No provider is paid twice for a review, neither the model nor Advocate, whoever
\* dies where and takes the claim over (sim.py: _drain_claimed, a dead worker may
\* already have paid).  And while the circuit is tripped each call, by a worker or
\* by a person's check, has had a cooldown of its own (adaptive_sim.py:
\* prepare_dispatch).
PaidOnce ==
    /\ \A r \in Reviews : past.paid[r] <= 1 /\ past.advised[r] <= 1
    /\ past.credit >= 0

\* An admitted review waits, is claimed, or has ended, and is only one of these:
\* claiming, parking, replacing and pushing out neither lose nor double it.  A
\* window that a hook may not admit again because it is remembered as admitted
\* still waits, is claimed, or was reviewed (sim_queue.py: park_claim,
\* tests/test_sim.py:660: the same window may queue again).
NoneLost ==
    \A r \in 1..Len(issued) :
        /\ Cardinality({i \in DOMAIN meta.queue : meta.queue[i] = r})
              + (IF meta.claim.review = r THEN 1 ELSE 0) + past.ends[r] = 1
        /\ meta.admission[Conv(r)] # {} /\ (\A q \in (r + 1)..Len(issued) : Conv(q) # Conv(r))
              => r \in ToSet(meta.queue) \/ meta.claim.review = r \/ r \in past.acked

\* A host gets an advice once at most, and none that was replaced or dropped.
ShownOnce ==
    \A r \in Reviews :
        /\ past.shown[r] <= 1
        /\ past.shown[r] = 1 => control.advice[r] \in {"emitted", "acknowledged", "expired"}

\* The result of an acknowledged review reaches health, or its receipt is still due,
\* whichever worker dies in between.  Only a result that health has refused is ever
\* given up, and that not before the next review of its conversation is
\* acknowledged, whose receipt takes its place (sim_queue.py: flush_receipts;
\* sim_queue.py:208, one latest receipt per conversation).
OutcomesReported ==
    \A r \in past.acked :
        LET receipt == meta.receipt[Conv(r)] IN
        \/ "result" \in health[r]
        \/ receipt.review = r /\ receipt.due
        \/ receipt.review # r /\ r \in past.unheard

\* docs/supervisor-health.md:177: stale or superseded reviews get terminal discard
\* receipts that settle the matching review.  Refuted: a parked review that is
\* replaced or pushed out, and an advice pushed out by another conversation's, are
\* discarded without one, and health goes on to report them as undelivered.
DiscardsSettled ==
    \A r \in Reviews : control.advice[r] = "discarded" =>
        "discarded" \in health[r] \/ \E c \in Convs : meta.receipt[c].due /\ r \in meta.receipt[c].discards

\* Every review that is admitted ends.
AdmittedEnds == \A r \in Reviews : Len(issued) >= r ~> past.ends[r] > 0
=============================================================================
