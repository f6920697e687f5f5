----------------------------- MODULE MCReminders -----------------------------
(* A small instance of Reminders.                                           *)
EXTENDS Reminders, TLC

CONSTANTS p1, p2, e1

\* Two sweeps, while people close and snooze what is fired; a sweep beside the
\* tool and a person at a shell; two shells, and an early completion.
Sweeping ==
    [hows |-> [p \in Procs |-> {"sweep"}], people |-> {"cancel", "complete", "snooze"},
     faults |-> 1, time |-> 2]
Executing ==
    [hows |-> (p1 :> {"sweep", "manual"}) @@ (p2 :> {"manual", "tool"}), people |-> {},
     faults |-> 2, time |-> 2]
Resuming ==
    [hows |-> [p \in Procs |-> {"manual", "tool"}], people |-> {"complete"},
     faults |-> 1, time |-> 2]

Firings == {Sweeping, Executing, Resuming}
=============================================================================
