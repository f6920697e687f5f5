------------------------------- MODULE Grading -------------------------------
(* Grading of finished conversations (reinforce.py).  Hooks put a           *)
(* conversation on a queue at every stop; a drain (cron) leases the head of *)
(* the queue, pays a model to grade each conversation and settles what it   *)
(* leased; a person may grade one directly.  That a conversation is graded  *)
(* is a stamp in its attention state, which attention ticks (attention.py)  *)
(* read, keep for a while and write back whole.                             *)
(*                                                                          *)
(* Left out: what is graded and deposited, the ramps of learned weights,    *)
(* and the rest of the attention state.                                     *)
EXTENDS Integers, Sequences, FiniteSets, SequencesExt, Filters

CONSTANTS
    Talks,          \* conversations
    Drains,         \* drains, each runs once: its name is its lease
    Persons,        \* gradings that a person asks for, each runs once
    Ticks,          \* attention ticks that may be under way at a time
    MaxLeased,        \* jobs a drain leases
    MaxQueued,      \* max_queue
    MaxTries,       \* REINFORCE_MAX_ATTEMPTS
    MaxStops,       \* bounds how often each conversation is enqueued
    MaxGradingDeaths

ASSUME GradingAssumption ==
    /\ MaxLeased \in Nat \ {0} /\ MaxQueued \in Nat \ {0} /\ MaxTries \in Nat \ {0}
    /\ MaxStops \in Nat /\ MaxGradingDeaths \in Nat
    /\ Drains \cap Persons = {} /\ "nobody" \notin Drains \cup Persons

VARIABLES
    jobs,           \* the queue: see Jobs
    marker,         \* talk |-> who marked it as being graded
    stamped,        \* talk |-> its state says that it is graded
    grader,         \* what each drain and person is doing
    tick,           \* tick |-> the talk and the stamp it has read
    lapsed,         \* the dead whose leases and markers have run out
    tally           \* history: see Tallies

gradingVars == <<jobs, marker, stamped, grader, tick, lapsed, tally>>

-----------------------------------------------------------------------------
Graders == Drains \cup Persons
Nobody == "nobody"

\* stop is the number of the enqueue that the job stands for.
Jobs == [talk : Talks, stop : 1..MaxStops, trace : BOOLEAN, lease : Drains \cup {Nobody},
         tries : 0..MaxTries]
Retries == {"later", "oversized"}
NoTick == [talk |-> {}, stamp |-> FALSE]

\* stops: enqueues so far; answered: the last one that need not be graded any
\* more; paid: gradings paid for; forgotten: those of them that left no stamp, and
\* stamps that did not last.
Tallies == [stops : [Talks -> 0..MaxStops], answered : [Talks -> 0..MaxStops],
            paid : [Talks -> Nat], forgotten : [Talks -> Nat]]

Zeros == [c \in Talks |-> 0]

\* A drain that holds a lease, a grader that holds a marker: until it lapses.
Leased(job) == job.lease # Nobody /\ job.lease \notin lapsed
Held(c) == marker[c] # Nobody /\ marker[c] \notin lapsed

GraderAt(g, place) == grader[g].at = place
Proceeds(g, place) == grader' = [grader EXCEPT ![g].at = place]

\* The job in hand.
Talk(g) == grader[g].list[1].talk

-----------------------------------------------------------------------------
GradingInit ==
    /\ jobs = <<>>
    /\ marker = [c \in Talks |-> Nobody]
    /\ stamped = [c \in Talks |-> FALSE]
    /\ grader = [g \in Graders |-> [at |-> "new", list |-> <<>>, retry |-> {}]]
    /\ tick = [k \in Ticks |-> NoTick]
    /\ lapsed = {}
    /\ tally = [stops |-> Zeros, answered |-> Zeros, paid |-> Zeros, forgotten |-> Zeros]

\* Mutant: the entry keeps the lease.
EntryLeased(c, trace, prior) ==
    [talk |-> c, stop |-> tally.stops[c] + 1, tries |-> 0,
     lease |-> IF prior = {} THEN Nobody ELSE (CHOOSE job \in prior : TRUE).lease,
     trace |-> trace \/ \E job \in prior : job.trace]

\* The entry of a conversation is replaced, and with it the lease of a drain.
Entry(c, trace, prior) ==
    [talk |-> c, stop |-> tally.stops[c] + 1, lease |-> Nobody, tries |-> 0,
     trace |-> trace \/ \E job \in prior : job.trace]

\* The oldest fall off a full queue.
Enqueued(c, trace) ==
    LET prior == {job \in ToSet(jobs) : job.talk = c}
        queue == Append(Where(jobs, ToSet(jobs) \ prior), Entry(c, trace, prior))
    IN  SubSeq(queue, IF Len(queue) > MaxQueued THEN Len(queue) - MaxQueued + 1 ELSE 1, Len(queue))

\* The jobs of these rows need not be graded any more.
Answered(rows, answered) ==
    [c \in Talks |->
        Max({answered[c]} \cup {job.stop : job \in {row \in rows : row.talk = c}})]

Stop(c, trace) ==
    /\ tally.stops[c] < MaxStops
    /\ jobs' = Enqueued(c, trace)
    /\ LET fallen == {job \in ToSet(jobs) : job.talk # c /\ job \notin ToSet(jobs')}
       IN  tally' = [tally EXCEPT !.stops[c] = @ + 1, !.answered = Answered(fallen, @)]
    /\ UNCHANGED <<marker, stamped, grader, tick, lapsed>>

\* An attention tick reads the state, looks for candidates or asks a judge, and
\* writes its copy back.
TickReads(k, c) ==
    /\ tick[k] = NoTick
    /\ tick' = [tick EXCEPT ![k] = [talk |-> {c}, stamp |-> stamped[c]]]
    /\ UNCHANGED <<jobs, marker, stamped, grader, lapsed, tally>>

TickWrites(k) ==
    /\ tick[k] # NoTick
    /\ \E c \in tick[k].talk :
          /\ stamped' = [stamped EXCEPT ![c] = tick[k].stamp]
          /\ tally' = IF stamped[c] /\ ~tick[k].stamp
                      THEN [tally EXCEPT !.forgotten[c] = @ + 1] ELSE tally
    /\ tick' = [tick EXCEPT ![k] = NoTick]
    /\ UNCHANGED <<jobs, marker, grader, lapsed>>

-----------------------------------------------------------------------------
\* A drain leases, from the head, what nobody else has leased.
Lease(d) ==
    /\ GraderAt(d, "new")
    /\ LET free == {i \in DOMAIN jobs : ~Leased(jobs[i])}
           mine == {i \in free : Cardinality({j \in free : j < i}) < MaxLeased}
       IN  /\ mine # {}
           /\ jobs' = [i \in DOMAIN jobs |->
                 IF i \in mine THEN [jobs[i] EXCEPT !.lease = d] ELSE jobs[i]]
           /\ grader' = [grader EXCEPT ![d] =
                 [at |-> "next", retry |-> {},
                  list |-> Where(jobs', {job \in ToSet(jobs') : job.lease = d})]]
    /\ UNCHANGED <<marker, stamped, tick, lapsed, tally>>

Ask(g, c) ==
    /\ GraderAt(g, "new")
    /\ grader' = [grader EXCEPT ![g] =
          [at |-> "next", retry |-> {},
           list |-> <<[talk |-> c, stop |-> 0, trace |-> TRUE, lease |-> Nobody, tries |-> 0]>>]]
    /\ UNCHANGED <<jobs, marker, stamped, tick, lapsed, tally>>

\* The job in hand is over, to be tried again or not.
Over(g, retry) ==
    grader' = [grader EXCEPT ![g] =
        [at |-> "next", list |-> Tail(@.list),
         retry |-> IF retry = "no" THEN @.retry ELSE @.retry \cup {<<Talk(g), retry>>}]]
Settles(g, retry) ==
    /\ Over(g, retry)
    /\ tally' = IF retry = "no"
                THEN [tally EXCEPT !.answered[Talk(g)] = Max({@, grader[g].list[1].stop})]
                ELSE tally

\* Nothing to grade, graded before, no budget or no model.
Pass(g, retry) ==
    /\ GraderAt(g, "next") /\ grader[g].list # <<>>
    /\ retry = "no" => ~grader[g].list[1].trace \/ stamped[Talk(g)]
    /\ retry = "later" => grader[g].list[1].trace /\ ~stamped[Talk(g)]
    /\ Settles(g, retry)
    /\ UNCHANGED <<jobs, marker, stamped, tick, lapsed>>

Look(g) ==
    /\ GraderAt(g, "next") /\ grader[g].list # <<>>
    /\ grader[g].list[1].trace /\ ~stamped[Talk(g)]
    /\ Proceeds(g, "claim")
    /\ UNCHANGED <<jobs, marker, stamped, tick, lapsed, tally>>

\* One grader at a time has a conversation; the others leave it.
InFlight(g) ==
    /\ GraderAt(g, "claim") /\ Held(Talk(g))
    /\ Settles(g, "no")
    /\ UNCHANGED <<jobs, marker, stamped, tick, lapsed>>

ClaimTalk(g) ==
    /\ GraderAt(g, "claim") /\ ~Held(Talk(g))
    /\ marker' = [marker EXCEPT ![Talk(g)] = g]
    /\ Proceeds(g, "claimed")
    /\ UNCHANGED <<jobs, stamped, tick, lapsed, tally>>

\* Mutant: the stamp is not read again with the claim.
SeenNothing(g) == FALSE

\* With the claim the stamp is read again.
SeenGraded(g) == stamped[Talk(g)]

\* Graded meanwhile, too large for the estimate, or an error of the call.
LeaveTalk(g, retry) ==
    /\ GraderAt(g, "claimed")
    /\ SeenGraded(g) => retry = "no"
    /\ marker' = [marker EXCEPT ![Talk(g)] = Nobody]
    /\ Settles(g, retry)
    /\ UNCHANGED <<jobs, stamped, tick, lapsed>>

Pay(g) ==
    /\ GraderAt(g, "claimed") /\ ~SeenGraded(g)
    /\ tally' = [tally EXCEPT !.paid[Talk(g)] = @ + 1]
    /\ Proceeds(g, "paid")
    /\ UNCHANGED <<jobs, marker, stamped, tick, lapsed>>

\* A grading that was paid for ends without a stamp.
Forgets(g) ==
    tally' = IF GraderAt(g, "paid") THEN [tally EXCEPT !.forgotten[Talk(g)] = @ + 1] ELSE tally

\* The call cannot be booked or its answer not be read, which counts as an error of the model.
SpoilsAnswer(g) ==
    /\ GraderAt(g, "paid")
    /\ Forgets(g)
    /\ Proceeds(g, "leaving")
    /\ UNCHANGED <<jobs, marker, stamped, tick, lapsed>>

Stamp(g) ==
    /\ GraderAt(g, "paid")
    /\ stamped' = [stamped EXCEPT ![Talk(g)] = TRUE]
    /\ Proceeds(g, "leaving")
    /\ UNCHANGED <<jobs, marker, tick, lapsed, tally>>

Release(g) ==
    /\ GraderAt(g, "leaving")
    /\ marker' = [marker EXCEPT ![Talk(g)] = Nobody]
    /\ Settles(g, "no")
    /\ UNCHANGED <<jobs, stamped, tick, lapsed>>

-----------------------------------------------------------------------------
\* A drain settles the entries it leased: those to be tried again go to the
\* end, but one that was too large too often is set aside.
Mine(d, job) == job.lease = d
Again(d, job) == \E retry \in Retries : <<job.talk, retry>> \in grader[d].retry
Retried(d, job) ==
    [job EXCEPT !.lease = Nobody,
        !.tries = IF <<job.talk, "oversized">> \in grader[d].retry THEN @ + 1 ELSE @]

Settle(d) ==
    /\ d \in Drains /\ GraderAt(d, "next") /\ grader[d].list = <<>>
    /\ LET others == Where(jobs, {job \in ToSet(jobs) : ~Mine(d, job)})
           mine == Where(jobs, {job \in ToSet(jobs) : Mine(d, job) /\ Again(d, job)})
           tried == [i \in DOMAIN mine |-> Retried(d, mine[i])]
       IN  /\ jobs' = others \o Where(tried, {job \in ToSet(tried) : job.tries < MaxTries})
           /\ tally' = [tally EXCEPT !.answered =
                 Answered({job \in ToSet(tried) : job.tries >= MaxTries}, @)]
    /\ Proceeds(d, "done")
    /\ UNCHANGED <<marker, stamped, tick, lapsed>>

Finish(g) ==
    /\ g \in Persons /\ GraderAt(g, "next") /\ grader[g].list = <<>>
    /\ Proceeds(g, "done")
    /\ UNCHANGED <<jobs, marker, stamped, tick, lapsed, tally>>

\* A grader dies; later what it held runs out.
GraderEnds(g) ==
    /\ Cardinality({h \in Graders : GraderAt(h, "dead")}) < MaxGradingDeaths
    /\ Proceeds(g, "dead")
    /\ Forgets(g)
    /\ UNCHANGED <<jobs, stamped, tick, lapsed>>

GraderDies(g) ==
    /\ grader[g].at \notin {"new", "done", "dead"}
    /\ GraderEnds(g)
    /\ UNCHANGED marker

\* An error that nothing catches (a deposit, the write of the stamp) ends it like death,
\* but on its way gives the marker back.
GraderRaises(g) ==
    /\ grader[g].at \in {"claimed", "paid", "leaving"}
    /\ marker' = [marker EXCEPT ![Talk(g)] = Nobody]
    /\ GraderEnds(g)

GraderLapses(g) ==
    /\ GraderAt(g, "dead") /\ g \notin lapsed
    /\ lapsed' = lapsed \cup {g}
    /\ UNCHANGED <<jobs, marker, stamped, grader, tick, tally>>

-----------------------------------------------------------------------------
GradingNext ==
    \/ \E c \in Talks, trace \in BOOLEAN : Stop(c, trace)
    \/ \E k \in Ticks : TickWrites(k) \/ \E c \in Talks : TickReads(k, c)
    \/ \E d \in Drains : Lease(d) \/ Settle(d)
    \/ \E g \in Persons : Finish(g) \/ \E c \in Talks : Ask(g, c)
    \/ \E g \in Graders :
          \/ Look(g) \/ InFlight(g) \/ ClaimTalk(g) \/ Pay(g) \/ Stamp(g) \/ Release(g)
          \/ SpoilsAnswer(g) \/ GraderDies(g) \/ GraderRaises(g) \/ GraderLapses(g)
          \/ \E retry \in {"no", "later"} : Pass(g, retry)
          \/ \E retry \in {"no", "oversized"} : LeaveTalk(g, retry)

GradingSpec == GradingInit /\ [][GradingNext]_gradingVars

-----------------------------------------------------------------------------
GradingTypeOK ==
    /\ jobs \in Seq(Jobs) /\ Len(jobs) <= MaxQueued
    /\ marker \in [Talks -> Graders \cup {Nobody}]
    /\ stamped \in [Talks -> BOOLEAN]
    /\ lapsed \subseteq Graders
    /\ tally \in Tallies

\* A conversation that a hook has put on the queue is on the queue until that
\* entry was answered: graded, found without a trace, refused, ended by an error of the
\* model, left to another grader, set aside, or pushed off a full queue.  A drain that
\* settles does not take an entry that replaced the one it leased, and a drain that
\* dies loses none.
StopsAnswered ==
    \A c \in Talks : tally.answered[c] < tally.stops[c]
        => \E i \in DOMAIN jobs : jobs[i].talk = c

\* A conversation is graded at most once, but for the times that a tick wrote
\* an older state back, or that a grading was paid for and ended before its stamp: its
\* call was not booked, its answer not read, an error was raised or the grader died.
GradedAgainIfForgotten ==
    \A c \in Talks : tally.paid[c] <= 1 + tally.forgotten[c]

=============================================================================
