----------------------------- MODULE ExactlyOnce -----------------------------
(***************************************************************************)
(* What a durable operation promises to the host that retries it until it  *)
(* gets an answer: one effect, and one answer however often it asks        *)
(* (task_service.execute).                                                 *)
(***************************************************************************)
EXTENDS Naturals

CONSTANTS
    Ops,        \* the operation ids
    Results,    \* what an operation may answer when it took effect
    None        \* no result yet

VARIABLES
    effects,    \* how often each operation took effect
    result,     \* what its effect returned
    answers     \* the answers of success that hosts got for it

vars == <<effects, result, answers>>

Init ==
    /\ effects = [o \in Ops |-> 0]
    /\ result = [o \in Ops |-> None]
    /\ answers = [o \in Ops |-> {}]

\* The effect and the record of its result are one step.
Apply(o) ==
    /\ result[o] = None
    /\ effects' = [effects EXCEPT ![o] = @ + 1]
    /\ result'[o] \in Results \ {None}
    /\ result' = [result EXCEPT ![o] = result'[o]]
    /\ UNCHANGED answers

\* A host hears the recorded result, as often as it asks.
Answer(o) ==
    /\ result[o] # None
    /\ answers' = [answers EXCEPT ![o] = @ \cup {result[o]}]
    /\ UNCHANGED <<effects, result>>

Next == \E o \in Ops : Answer(o) \/ Apply(o)

Spec == Init /\ [][Next]_vars
=============================================================================
