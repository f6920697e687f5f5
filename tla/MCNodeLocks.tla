---------------------------- MODULE MCNodeLocks ----------------------------
(* Small instances of NodeLocks.                                            *)
EXTENDS NodeLocks, TLC

CONSTANTS n1, n2, n3, n4, a1, a2

OneConcept == [n \in Nodes |-> IF n = n1 THEN "concept" ELSE "none"]
TwoConcepts == [n \in Nodes |-> IF n \in {n1, n2} THEN "concept" ELSE "none"]
WatchAndConcept == [n \in Nodes |-> IF n = n1 THEN "watch" ELSE IF n = n2 THEN "concept" ELSE "none"]

\* What each of the two agents calls besides the one-step operations.
EachOne == [a \in Agents |-> {"supersede", "invalidate"}]
OneDreams == [a \in Agents |-> IF a = a1 THEN {"dream"} ELSE {"supersede"}]
OneAll == [a \in Agents |-> IF a = a1 THEN {"merge", "dream", "resolve"} ELSE {"supersede"}]

\* The ids that are unused at first are interchangeable; the agents are too when they call the
\* same operations.
SpareIds == Permutations({n3, n4})
TwoSpareIds == Permutations({n2, n3})
SpareIdsAndAgents == Permutations(Agents) \cup TwoSpareIds

\* Two scenes: both agents supersede a concept, or invalidate a watch, which
\* runs out.
WatchInit ==
    /\ now = 0
    /\ node = [n \in Nodes |-> IF n = n1 THEN Fresh("watch", 0, NoNode) ELSE NoRow]
    /\ op = [a \in Agents |-> Idle]
    /\ sweep = [phase |-> "locks", todo |-> {}]
    /\ breach = {}

MCInit == Init \/ WatchInit
MCSpec == MCInit /\ [][Next]_vars

OnePurpose ==
    \A a \in Agents :
        op'[a].kind \in {"idle", IF node[n1].type = "watch" THEN "invalidate" ELSE "supersede"}
=============================================================================
