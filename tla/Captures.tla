------------------------------ MODULE Captures ------------------------------
(***************************************************************************)
(* Capture candidates: what an automatic extraction stages, and what a     *)
(* reviewer makes of it (store.py, the candidate operations).              *)
(*                                                                         *)
(* A reviewer is shown a candidate with a token over it and over the part  *)
(* of the graph that matters to it, and accepts with that token later,     *)
(* while everybody else edits the graph.  The token holds the time of the  *)
(* last edit of a node, in whole seconds, and not what was edited.         *)
(***************************************************************************)
EXTENDS Naturals, FiniteSets

CONSTANTS
    Candidates,  \* the ids that candidates may get
    Payloads,    \* what may be extracted: a title and the proposed connections
    Titles,
    Concepts,    \* the ids that nodes may get
    Reviewers,
    CandidateTtl,
    MaxSecond    \* bounds the clock

\* A connection leads from one title to another.
ASSUME PayloadsAssumption ==
    \A payload \in Payloads :
        /\ payload.title \in Titles
        /\ \A l \in payload.links :
             l.from \in Titles /\ l.to \in Titles /\ l.kind \in {"relates_to", "contradicts"}
ASSUME SecondsAssumption == CandidateTtl \in Nat /\ MaxSecond \in Nat

VARIABLES
    second,      \* the clock
    candidate,   \* the table capture_candidates
    concept,     \* the nodes
    relation,    \* the edges between nodes
    review       \* what each reviewer was shown, and since when an answer is under way

captureVars == <<second, candidate, concept, relation, review>>

-----------------------------------------------------------------------------
(* Rows *)

Live == {"pending", "conflicted"}
Terminal == {"accepted", "rejected", "expired"}

\* payload is a set of one until the row is reduced to a receipt; made is the
\* node that an acceptance created.
CandidateRows ==
    [status : {"none"} \cup Live \cup Terminal, payload : SUBSET Payloads,
     stamp : Nat, until : Nat, made : SUBSET Concepts]

NoCandidate == [status |-> "none", payload |-> {}, stamp |-> 0, until |-> 0, made |-> {}]

\* A node without a title is not there.  trusted stands for its status, its
\* verification and its interval, text for what else it says; captured says that
\* it was made from a candidate.
ConceptRows ==
    [title : SUBSET Titles, trusted : BOOLEAN, text : {0, 1}, captured : BOOLEAN, stamp : Nat]
NoConcept == [title |-> {}, trusted |-> FALSE, text |-> 0, captured |-> FALSE, stamp |-> 0]

PayloadOf(c) == CHOOSE payload \in Payloads : payload \in candidate[c].payload
Titled(t) == {n \in Concepts : concept[n].title = {t}}

\* The nodes that a decision on c depends on.
Relevant(c) ==
    UNION {Titled(t) : t \in {PayloadOf(c).title}
                          \cup UNION {{l.from, l.to} : l \in PayloadOf(c).links}}

Contradictions(c) ==
    {e \in relation : e[3] = "contradicts" /\ {e[1], e[2]} \subseteq Relevant(c)}

\* Store._candidate_review_token_locked
TokenOfRow(c) == [row |-> <<candidate[c].status, candidate[c].stamp, candidate[c].until>>]
Token(c) ==
    [row |-> <<candidate[c].status, candidate[c].stamp, candidate[c].until>>,
     nodes |-> {<<n, concept[n].trusted, concept[n].stamp>> : n \in Relevant(c)},
     contradictions |-> Contradictions(c)]

\* What it stands for: the same nodes with the same standing, and their text.
Standing(c) == {<<n, concept[n].trusted>> : n \in Relevant(c)}
TextOf(c) == {<<n, concept[n].text>> : n \in Relevant(c)}

-----------------------------------------------------------------------------
(* Staging, listing and pruning *)

NoReview == [c |-> {}, token |-> {}, standing |-> {}, text |-> {}, contradictions |-> {},
             at |-> {}]

CapturesInit ==
    /\ second = 0
    /\ candidate = [c \in Candidates |-> NoCandidate]
    /\ concept = [n \in Concepts |-> NoConcept]
    /\ relation = {}
    /\ review = [p \in Reviewers |-> NoReview]

\* Replayed extraction stages nothing twice.
StagedPending == {"pending"}
StagedLive == Live
Staged(payload) == \E c \in Candidates : candidate[c].status \in StagedLive /\ payload \in candidate[c].payload

AddCandidate ==
    \E payload \in Payloads, c \in Candidates :
        /\ ~Staged(payload) /\ candidate[c].status = "none"
        /\ candidate' = [candidate EXCEPT ![c] =
              [NoCandidate EXCEPT !.status = "pending", !.payload = {payload},
                                  !.stamp = second, !.until = second + CandidateTtl]]
        /\ UNCHANGED <<second, concept, relation, review>>

\* Rows expire by the time the caller noted before it waited for the database.
Reduced(r, status, at) == [r EXCEPT !.status = status, !.payload = {}, !.stamp = at]

Prune(at) ==
    /\ at <= second
    /\ candidate' = [c \in Candidates |->
          IF candidate[c].status \in Live /\ candidate[c].until <= at
          THEN Reduced(candidate[c], "expired", at) ELSE candidate[c]]
    /\ candidate' # candidate
    /\ UNCHANGED <<second, concept, relation, review>>

Erase(c) ==
    /\ candidate[c].status # "none"
    /\ candidate' = [candidate EXCEPT ![c] = NoCandidate]
    /\ UNCHANGED <<second, concept, relation, review>>

-----------------------------------------------------------------------------
(* Review *)

\* The payload of a candidate never changes, so that showing it and computing
\* the token is one step.
Show(p, c) ==
    /\ review[p] = NoReview
    /\ candidate[c].status \in Live
    /\ review' = [review EXCEPT ![p] =
          [c |-> {c}, token |-> {Token(c)}, standing |-> Standing(c), text |-> TextOf(c),
           contradictions |-> Contradictions(c), at |-> {}]]
    /\ UNCHANGED <<second, candidate, concept, relation>>

\* The reviewer answers; the time of the answer is noted before the database
\* may be waited for.
Answer(p) ==
    /\ review[p].c # {} /\ review[p].at = {}
    /\ review' = [review EXCEPT ![p].at = {second}]
    /\ UNCHANGED <<second, candidate, concept, relation>>

Answers(p) == review[p].at # {}
Subject(p) == CHOOSE c \in Candidates : c \in review[p].c
AnsweredAt(p) == CHOOSE s \in 0..MaxSecond : s \in review[p].at
Forgets(p) == review' = [review EXCEPT ![p] = NoReview]

Reviewable(p) ==
    /\ candidate[Subject(p)].status \in Live
    /\ candidate[Subject(p)].until > AnsweredAt(p)

Fresh(p) == review[p].token = {Token(Subject(p))}

\* A title that is taken blocks the candidate for good.
TitleFreeAlways(c) == TRUE
TitleFree(c) == Titled(PayloadOf(c).title) = {}

\* The trusted nodes that the candidate says it contradicts, or that say so.
Conflicts(c) ==
    LET own == PayloadOf(c).title
        counterparts == {l.to : l \in {m \in PayloadOf(c).links : m.kind = "contradicts" /\ m.from = own}}
                   \cup {l.from : l \in {m \in PayloadOf(c).links :
                                           m.kind = "contradicts" /\ m.from # own /\ m.to = own}}
    IN  {n \in UNION {Titled(t) : t \in counterparts} : concept[n].trusted}

AcceptRefused(p) ==
    /\ Answers(p)
    /\ ~(Reviewable(p) /\ Fresh(p) /\ TitleFree(Subject(p)))
    /\ Forgets(p)
    /\ UNCHANGED <<second, candidate, concept, relation>>

Quarantine(p) ==
    /\ Answers(p) /\ Reviewable(p) /\ Fresh(p) /\ TitleFree(Subject(p))
    /\ Conflicts(Subject(p)) # {}
    /\ candidate' = [candidate EXCEPT ![Subject(p)].status = "conflicted",
                                      ![Subject(p)].stamp = AnsweredAt(p)]
    /\ Forgets(p)
    /\ UNCHANGED <<second, concept, relation>>

\* A title that names several nodes is not resolved.
Endpoint(c, title, made) ==
    IF title = PayloadOf(c).title THEN {made}
    ELSE IF Cardinality(Titled(title)) = 1 THEN Titled(title) ELSE {}

Connected(c, made) ==
    UNION {Endpoint(c, l.from, made) \X Endpoint(c, l.to, made) \X {l.kind} : l \in PayloadOf(c).links}

Promote(p) ==
    /\ Answers(p) /\ Reviewable(p) /\ Fresh(p) /\ TitleFree(Subject(p))
    /\ Conflicts(Subject(p)) = {}
    /\ \E made \in Concepts, trusted \in BOOLEAN :
         LET c == Subject(p) IN
         /\ concept[made] = NoConcept
         /\ concept' = [concept EXCEPT ![made] =
               [title |-> {PayloadOf(c).title}, trusted |-> trusted, text |-> 0,
                captured |-> TRUE, stamp |-> AnsweredAt(p)]]
         /\ relation' = relation \cup Connected(c, made)
         /\ candidate' = [candidate EXCEPT ![c] =
               [Reduced(@, "accepted", AnsweredAt(p)) EXCEPT !.made = {made}]]
    /\ Forgets(p)
    /\ UNCHANGED second

Reject(p) ==
    /\ Answers(p)
    /\ candidate' = IF Reviewable(p)
                    THEN [candidate EXCEPT ![Subject(p)] = Reduced(@, "rejected", AnsweredAt(p))]
                    ELSE candidate
    /\ Forgets(p)
    /\ UNCHANGED <<second, concept, relation>>

-----------------------------------------------------------------------------
(* Everybody else: nodes are added, edited and verified, and contradict     *)

AddConcept(n, t) ==
    /\ concept[n] = NoConcept
    /\ concept' = [concept EXCEPT ![n] = [NoConcept EXCEPT !.title = {t}, !.stamp = second]]
    /\ UNCHANGED <<second, candidate, relation, review>>

EditText(n) ==
    /\ concept[n] # NoConcept
    /\ concept' = [concept EXCEPT ![n].text = 1 - @, ![n].stamp = second]
    /\ UNCHANGED <<second, candidate, relation, review>>

Verify(n) ==
    /\ concept[n] # NoConcept
    /\ concept' = [concept EXCEPT ![n].trusted = ~@, ![n].stamp = second]
    /\ UNCHANGED <<second, candidate, relation, review>>

Contradict(n, m) ==
    /\ n # m /\ NoConcept \notin {concept[n], concept[m]}
    /\ relation' = relation \cup {<<n, m, "contradicts">>}
    /\ UNCHANGED <<second, candidate, concept, review>>

CaptureTick ==
    /\ second < MaxSecond
    /\ second' = second + 1
    /\ UNCHANGED <<candidate, concept, relation, review>>

CapturesNext ==
    \/ AddCandidate
    \/ \E at \in 0..MaxSecond : Prune(at)
    \/ \E c \in Candidates : Erase(c) \/ \E p \in Reviewers : Show(p, c)
    \/ \E p \in Reviewers :
         Answer(p) \/ AcceptRefused(p) \/ Quarantine(p) \/ Promote(p) \/ Reject(p)
    \/ \E n \in Concepts, t \in Titles : AddConcept(n, t)
    \/ \E n \in Concepts : EditText(n) \/ Verify(n)
    \/ \E n, m \in Concepts : Contradict(n, m)
    \/ CaptureTick

CapturesSpec == CapturesInit /\ [][CapturesNext]_captureVars

-----------------------------------------------------------------------------
(* Properties *)

\* The rows are what the code can store, and exactly the live ones have a payload:
\* whatever ends a review reduces the row to a receipt (README.md:609).
CapturesTypeOK ==
    /\ second \in 0..MaxSecond
    /\ candidate \in [Candidates -> CandidateRows]
    /\ concept \in [Concepts -> ConceptRows]
    /\ relation \subseteq Concepts \X Concepts \X {"relates_to", "contradicts"}
    /\ \A c \in Candidates :
         /\ candidate[c].status \in Live <=> candidate[c].payload # {}
         /\ candidate[c].status = "accepted" <=> candidate[c].made # {}

\* Stagings that race, are replayed, or follow a quarantine never leave two live
\* candidates with one payload (schema.py: idx_capture_candidates_live_payload),
\* and of the nodes that acceptances made no two have the same title, whatever was
\* staged again after an acceptance and whoever reviewed it at the same time.
CapturedOnce ==
    /\ \A c, d \in Candidates : candidate[c].payload \cap candidate[d].payload # {} => c = d
    /\ \A n, m \in Concepts :
         concept[n].captured /\ concept[m].captured /\ concept[n].title = concept[m].title
            => n = m

Decides(p) == Promote(p) \/ Quarantine(p)

\* A decision is made on the nodes, their standing and the contradictions that
\* the reviewer was shown the candidate with (store.py: StaleReviewError).
DecidedAsShown ==
    [][\A p \in Reviewers : Decides(p) =>
         /\ Standing(Subject(p)) = review[p].standing
         /\ Contradictions(Subject(p)) = review[p].contradictions]_captureVars

\* README.md:607: the review token detects changes between show and accept.
\* Refuted: the token has no text of a node, only the second of its last edit, so
\* that an edit in the second in which the node was last written goes unseen.
TokenDetectsEdits ==
    [][\A p \in Reviewers : Decides(p) => TextOf(Subject(p)) = review[p].text]_captureVars
=============================================================================
