------------------------------- MODULE MCTasks -------------------------------
(* A small instance of Tasks: in one scene everybody works with one task, in *)
(* the other one agent makes tasks depend on one another.                    *)
EXTENDS Tasks, TLC

CONSTANTS t1, t2, t3, claude, codex, s1, s2

VARIABLE scene

\* Sessions of the live agent and of the retired one.
OneEach == (s1 :> codex) @@ (s2 :> claude)

\* One agent, every list of dependencies, and as many writes as a cycle of three
\* tasks needs.
D == INSTANCE Tasks WITH
    Agents <- {claude}, Sessions <- {}, AgentOf <- <<>>, Readers <- {},
    Owners <- {NoAgent}, DepLists <- SUBSET Tasks, MaxTime <- 0, Ttls <- {},
    MaxVersion <- 2

MCInit == Init /\ scene \in {"claims", "dependencies"}

Claims1 ==
    /\ scene = "claims"
    /\ Next
    /\ \A t \in {t2, t3} : task'[t] = NoRow

\* Ids are interchangeable: they are minted in order.
Dependencies1 ==
    /\ scene = "dependencies"
    /\ D!Next
    /\ \A t \in Tasks : task'[t].status \in {"absent", "open"}
    /\ {t \in Tasks : task'[t] # NoRow} \in {{}, {t1}, {t1, t2}, {t1, t2, t3}}

MCNext == UNCHANGED scene /\ (Claims1 \/ Dependencies1)

MCSpec == MCInit /\ [][MCNext]_<<vars, scene>> /\ WF_vars(Sweep)
=============================================================================
