------------------------------ MODULE MCQueues ------------------------------
(* Small instances of Reviews, Grading, Embeddings and Alerts: a scene lets *)
(* one of them work, and keeps to what one question needs.                  *)
EXTENDS Reviews, Grading, Embeddings, Alerts, TLC

CONSTANTS v1, v2, k1, k2, c1, c2, c3, g1, g2, m1, n1, n2, w1, w2, d1, d2, i1, Scenes

VARIABLE scene

Interchangeable == Permutations(Workers) \cup Permutations(Windows)

Admitted(n) == Len(issued') <= n
Given(answers) == \A w \in Workers : worker'[w].answer \in answers \cup {"none"}
Nowhere(places) == \A w \in Workers : worker'[w].at \notin places
Fluent == control'.failures = 0 /\ control'.backoff = {}
Young == control'.old = {}
Heard == past'.unheard = {}

\* Deaths at every step of a review, while two reviews share the queue; a full
\* queue while a review is parked; health that does not listen; the circuit; and
\* advice on its way to a host.
Keeps ==
    CASE scene = "queue" -> Admitted(2) /\ Fluent /\ Young /\ Heard /\ Nowhere({"check", "park"})
                              /\ Given({"quiet", "advice", "deep"})
      [] scene = "park" -> Admitted(3) /\ control'.failures = 0 /\ Young /\ Heard /\ hook' = {}
                              /\ Nowhere({"check"}) /\ Given({"quiet"})
      [] scene = "health" -> Admitted(2) /\ Fluent /\ Young /\ Nowhere({"check"}) /\ Given({"quiet"})
      [] scene = "circuit" -> Admitted(1) /\ Young /\ Given({"failure", "quiet", "neutral"})
      [] scene = "advice" -> Admitted(2) /\ mishaps' = 0 /\ Nowhere({"check"}) /\ Given({"advice"})

\* Two drains while a conversation stops again; a full queue; and ticks and a
\* person beside a drain.
NoTicks == \A k \in Ticks : tick'[k] = NoTick
Unused(graders) == \A g \in graders : GraderAt(g, "new")'
Stops(first, second, third) ==
    tally'.stops[c1] <= first /\ tally'.stops[c2] <= second /\ tally'.stops[c3] <= third

Grades ==
    CASE scene = "drains" -> Stops(2, 1, 0) /\ NoTicks /\ Unused(Persons)
      [] scene = "full" -> Stops(1, 1, 1) /\ NoTicks /\ Unused({g2, m1})
      [] scene = "person" -> Stops(2, 0, 0) /\ Unused({g2})

\* Two writers beside a drain, and two drains beside a writer of one node.
Embeds ==
    CASE scene = "writers" -> drainer'[d2] = Resting /\ outages' = 0 /\ \A n \in Texts : text'[n] <= 2
      [] scene = "drainers" -> writer'[w2] = Resting /\ text'[n2] = 1

-----------------------------------------------------------------------------
allVars == <<reviewVars, gradingVars, embeddingVars, alertVars, scene>>

MCInit ==
    /\ ReviewsInit /\ GradingInit /\ EmbeddingsInit /\ AlertsInit
    /\ scene \in Scenes

Reviews1 ==
    /\ scene \in {"queue", "park", "health", "circuit", "advice"}
    /\ ReviewsNext /\ Keeps
    /\ UNCHANGED <<gradingVars, embeddingVars, alertVars>>

Grading1 ==
    /\ scene \in {"drains", "full", "person"}
    /\ GradingNext /\ Grades
    /\ UNCHANGED <<reviewVars, embeddingVars, alertVars>>

Embeddings1 ==
    /\ scene \in {"writers", "drainers"}
    /\ EmbeddingsNext /\ Embeds
    /\ UNCHANGED <<reviewVars, gradingVars, alertVars>>

Alerts1 ==
    /\ scene = "alerts"
    /\ AlertsNext
    /\ UNCHANGED <<reviewVars, gradingVars, embeddingVars>>

MCNext ==
    /\ UNCHANGED scene
    /\ Reviews1 \/ Grading1 \/ Embeddings1 \/ Alerts1

MCSpec == MCInit /\ [][MCNext]_allVars
=============================================================================
