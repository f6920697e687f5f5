------------------------------ MODULE MCStores ------------------------------
(* Small instances of Sessions, Captures, Schema, Ledger, Archive and       *)
(* KinMerge: a scene lets one of them work, while the variables of the      *)
(* others stay as they began.                                               *)
EXTENDS Sessions, Captures, Schema, Ledger, Archive, KinMerge, TLC

CONSTANTS
    a1, a2,          \* the actors: callers, reviewers and processes
    r1, r2,          \* the rows: tags and concepts
    i1, k1, d1, d2, ta, tb,
    w1, w2, w3, pa,
    n1, s1, e1, x1, f1, b1, b2,
    Scenes

VARIABLE scene

Actors == {a1, a2}
Rows == {r1, r2}

\* Two processes of a build, one of which has a profile, and one of the build before.
Builds == (w1 :> 5) @@ (w2 :> 5) @@ (w3 :> 4)
OneProfile == (w1 :> {pa}) @@ (w2 :> {}) @@ (w3 :> {})

\* An empty file, unstamped stores of several ages, some of them created in
\* part, and one store of each version.
StoreFile(n, t, s, sh) ==
    [nodes |-> n, meta |-> t, stamp |-> s, shape |-> sh, recovery |-> {},
     profile |-> {}, identity |-> {}]
AnyStore ==
    {StoreFile(FALSE, FALSE, 0, {}), StoreFile(FALSE, TRUE, 0, {}),
     StoreFile(TRUE, FALSE, 0, {1}), StoreFile(TRUE, FALSE, 0, {1, 4}),
     StoreFile(TRUE, TRUE, 0, {1}), StoreFile(TRUE, TRUE, 0, {1, 4})}
        \cup {StoreFile(TRUE, TRUE, v, 1..v) : v \in Versions}

\* A candidate that contradicts what the graph may hold, and another.
TwoPayloads ==
    {[title |-> ta, links |-> {[from |-> ta, to |-> tb, kind |-> "contradicts"]}],
     [title |-> tb, links |-> {}]}

NoFiles == [f \in {"index", "codeMap"} |-> [k \in Ids |-> NoRecord]]

\* A session tag with one edge, whose other end decays too.
OneJoin == (e1 :> {n1, s1})

AnyActor == Permutations(Actors) \cup Permutations(Rows)

-----------------------------------------------------------------------------
allVars == <<sessionVars, captureVars, schemaVars, ledgerVars, archiveVars, kinVars,
             scene>>

MCInit ==
    /\ SessionsInit /\ CapturesInit /\ LedgerInit /\ ArchiveInit
    /\ scene \in Scenes
    /\ KinMergeInit /\ (scene = "kin" \/ base = NoFiles)
    /\ SchemaInit /\ (scene = "schema" \/ db = StoreFile(FALSE, FALSE, 0, {}))
    /\ scene \in {"work", "life"} \/ \A t \in Tags : tag[t] = NoTag

\* What callers do in the two scenes of session tags: work with one tag and
\* another, and carry tags through their life.
Calling ==
    [work |-> {"none", "start", "update", "segment", "link", "edge"},
     life |-> {"none", "start", "segment", "link", "edge", "pause", "complete", "resume"}]

Sessions1 ==
    /\ scene \in DOMAIN Calling
    /\ SessionsNext
    /\ \A p \in Clients : call'[p].what \in Calling[scene]
    /\ scene = "life" => \A t \in Tags : tag'[t].remaining = {}
    /\ UNCHANGED <<captureVars, schemaVars, ledgerVars, archiveVars, kinVars>>

\* One candidate and one reviewer beside people who edit the graph,
\* before anything expires.
Graph1 ==
    /\ scene = "graph"
    /\ CapturesNext
    /\ second' = 0 /\ candidate'[d2] = NoCandidate /\ review'[a2] = NoReview
    /\ candidate' # candidate => review' # review \/ candidate[d1] = NoCandidate
    /\ \A payload \in candidate'[d1].payload : payload.title = ta
    /\ UNCHANGED <<sessionVars, schemaVars, ledgerVars, archiveVars, kinVars>>

\* Two candidates and two reviewers; nobody else edits the graph.
Queue1 ==
    /\ scene = "queue"
    /\ CapturesNext
    /\ UNCHANGED relation /\ (concept' # concept => review' # review)
    /\ UNCHANGED <<sessionVars, schemaVars, ledgerVars, archiveVars, kinVars>>

Schema1 ==
    /\ scene = "schema"
    /\ SchemaNext
    /\ UNCHANGED <<sessionVars, captureVars, ledgerVars, archiveVars, kinVars>>

Ledger1 ==
    /\ scene = "ledger"
    /\ LedgerNext
    /\ UNCHANGED <<sessionVars, captureVars, schemaVars, archiveVars, kinVars>>

\* A process that dies, or a person who deletes, not both.
Archive1 ==
    /\ scene = "archive"
    /\ ArchiveNext
    /\ deaths' = 0 \/ erased' = {}
    /\ UNCHANGED <<sessionVars, captureVars, schemaVars, ledgerVars, kinVars>>

Kin1 ==
    /\ scene = "kin"
    /\ KinMergeNext
    /\ UNCHANGED <<sessionVars, captureVars, schemaVars, ledgerVars, archiveVars>>

MCNext ==
    /\ UNCHANGED scene
    /\ Sessions1 \/ Graph1 \/ Queue1 \/ Schema1 \/ Ledger1 \/ Archive1 \/ Kin1

MCSpec == MCInit /\ [][MCNext]_allVars
=============================================================================
