------------------------------- MODULE Alerts -------------------------------
(* The inbox of health alerts (supervisor_notifications.py, check_health in *)
(* supervisor_health.py).  Checkers (a timer's and a person's) observe      *)
(* problems, then in one transaction count them and bring the inbox up to   *)
(* date; alerts nobody has acknowledged are then claimed one at a time and  *)
(* submitted to a transport outside of any transaction.                     *)
(*                                                                          *)
(* Left out: the evidence, the text of an alert, the second transport       *)
(* (mail, off by default, which is claimed in the same way), and the        *)
(* deletion of what was resolved 30 days ago.                               *)
EXTENDS Integers, Sequences, FiniteSets, SequencesExt

CONSTANTS
    Problems,       \* issue ids
    Checkers,       \* processes that check
    Sustained,      \* consecutive_checks
    Cooldown,       \* cooldown_seconds
    MaxClock,       \* bounds the clock
    MaxAlerts,      \* bounds the alerts
    MaxCheckerDeaths

ASSUME AlertsAssumption ==
    /\ Sustained \in Nat \ {0} /\ Cooldown \in Nat \ {0}
    /\ MaxClock \in Nat /\ MaxAlerts \in Nat /\ MaxCheckerDeaths \in Nat
    /\ IsFiniteSet(Problems) /\ "free" \notin Checkers

VARIABLES
    clock,
    lasting,        \* problem |-> consecutive checks that saw it, at most Sustained
    alerts,         \* the alerts in the order of their creation: see AlertRows
    checker,        \* what each checker is doing
    banner,         \* alert |-> submissions that its transport has accepted
    mourned         \* the dead: those whose claims hold, and those whose have run out

alertVars == <<clock, lasting, alerts, checker, banner, mourned>>

-----------------------------------------------------------------------------
Never == -1
Free == "free"
AtRest == [at |-> "rest"]
AlertIds == 1..MaxAlerts
AlertRows == [problem : Problems, acked : BOOLEAN, resolved : BOOLEAN,
              accepted : {Never} \cup (0..MaxClock), claim : Checkers \cup {Free}]

OpenAlert(a) == ~alerts[a].resolved
Unread(a) == OpenAlert(a) /\ ~alerts[a].acked
OpenFor(problem) == {a \in DOMAIN alerts : alerts[a].problem = problem /\ OpenAlert(a)}

AlertsInit ==
    /\ clock = 0
    /\ lasting = [i \in Problems |-> 0]
    /\ alerts = <<>>
    /\ checker = [p \in Checkers |-> AtRest]
    /\ banner = [a \in AlertIds |-> 0]
    /\ mourned = [dead |-> {}, lapsed |-> {}]

Tick ==
    /\ clock < MaxClock /\ clock' = clock + 1
    /\ UNCHANGED <<lasting, alerts, checker, banner, mourned>>

\* A check takes its time and its evidence before it opens the store.
Observe(p, found) ==
    /\ checker[p] = AtRest
    /\ checker' = [checker EXCEPT ![p] = [at |-> "observed", now |-> clock, found |-> found]]
    /\ UNCHANGED <<clock, lasting, alerts, banner, mourned>>

\* Each issue is counted; what is not found any more is resolved; what has
\* lasted gets an alert unless one is open; then the inbox is committed.
Counted(found) ==
    [i \in Problems |-> IF i \notin found THEN 0
                        ELSE IF lasting[i] < Sustained THEN lasting[i] + 1 ELSE lasting[i]]
Resolved(found) ==
    [a \in DOMAIN alerts |-> IF alerts[a].problem \in found THEN alerts[a]
                             ELSE [alerts[a] EXCEPT !.resolved = TRUE]]
NewAlert(i) == [problem |-> i, acked |-> FALSE, resolved |-> FALSE, accepted |-> Never,
                claim |-> Free]

Reconcile(p, notify) ==
    /\ checker[p].at = "observed"
    /\ LET found == checker[p].found
           raised == {i \in found : Counted(found)[i] = Sustained /\ OpenFor(i) = {}}
           fresh == SetToSeq(raised)
       IN  /\ Len(alerts) + Len(fresh) <= MaxAlerts
           /\ lasting' = Counted(found)
           /\ alerts' = Resolved(found) \o [k \in DOMAIN fresh |-> NewAlert(fresh[k])]
           /\ checker' = [checker EXCEPT ![p] =
                IF notify THEN [at |-> "notify", now |-> @.now,
                                todo |-> {a \in DOMAIN alerts' : Unread(a)'}]
                ELSE AtRest]
    /\ UNCHANGED <<clock, banner, mourned>>

\* A claim holds until its holder completes or has been dead for a while (the
\* lease is twice the time that a submission may take).
AlertClaimed(a) == alerts[a].claim # Free /\ alerts[a].claim \notin mourned.lapsed
Due(a, now) == alerts[a].accepted = Never \/ alerts[a].accepted <= now - Cooldown
\* Mutant: a claim does not ask whether another checker is submitting the alert.
ClaimableOverClaims(p, a) == Unread(a) /\ Due(a, checker[p].now)

Claimable(p, a) == Unread(a) /\ ~AlertClaimed(a) /\ Due(a, checker[p].now)

ClaimAlert(p, a) ==
    /\ checker[p].at = "notify" /\ a \in checker[p].todo
    /\ Claimable(p, a)
    /\ alerts' = [alerts EXCEPT ![a].claim = p]
    /\ checker' = [checker EXCEPT ![p] =
          [at |-> "submit", now |-> @.now, todo |-> @.todo \ {a}, alert |-> a]]
    /\ UNCHANGED <<clock, lasting, banner, mourned>>

LeaveAlert(p, a) ==
    /\ checker[p].at = "notify" /\ a \in checker[p].todo
    /\ ~Claimable(p, a)
    /\ checker' = [checker EXCEPT ![p].todo = @ \ {a}]
    /\ UNCHANGED <<clock, lasting, alerts, banner, mourned>>

\* The transport takes the alert, or the submission fails.
Submit(p) ==
    /\ checker[p].at = "submit"
    /\ banner' = [banner EXCEPT ![checker[p].alert] = @ + 1]
    /\ checker' = [checker EXCEPT ![p].at = "accepted"]
    /\ UNCHANGED <<clock, lasting, alerts, mourned>>

Fails(p) ==
    /\ checker[p].at = "submit"
    /\ checker' = [checker EXCEPT ![p].at = "failed"]
    /\ UNCHANGED <<clock, lasting, alerts, banner, mourned>>

\* The outcome is recorded only with the claim still held.
Complete(p) ==
    /\ checker[p].at \in {"accepted", "failed"}
    /\ LET a == checker[p].alert IN
          alerts' = IF alerts[a].claim # p THEN alerts
                    ELSE [alerts EXCEPT ![a].claim = Free,
                             ![a].accepted = IF checker[p].at = "accepted" THEN checker[p].now ELSE @]
    /\ checker' = [checker EXCEPT ![p] =
          [at |-> "notify", now |-> @.now, todo |-> @.todo]]
    /\ UNCHANGED <<clock, lasting, banner, mourned>>

Rest(p) ==
    /\ checker[p].at = "notify" /\ checker[p].todo = {}
    /\ checker' = [checker EXCEPT ![p] = AtRest]
    /\ UNCHANGED <<clock, lasting, alerts, banner, mourned>>

AcknowledgeAlert(a) ==
    /\ a \in DOMAIN alerts /\ ~alerts[a].acked
    /\ alerts' = [alerts EXCEPT ![a].acked = TRUE]
    /\ UNCHANGED <<clock, lasting, checker, banner, mourned>>

CheckerDies(p) ==
    /\ checker[p].at \in {"submit", "accepted", "failed"}
    /\ Cardinality(mourned.dead) < MaxCheckerDeaths
    /\ checker' = [checker EXCEPT ![p] = [at |-> "dead"]]
    /\ mourned' = [mourned EXCEPT !.dead = @ \cup {p}]
    /\ UNCHANGED <<clock, lasting, alerts, banner>>

CheckerLapses(p) ==
    /\ p \in mourned.dead \ mourned.lapsed
    /\ mourned' = [mourned EXCEPT !.lapsed = @ \cup {p}]
    /\ UNCHANGED <<clock, lasting, alerts, checker, banner>>

-----------------------------------------------------------------------------
AlertsNext ==
    \/ Tick
    \/ \E a \in AlertIds : AcknowledgeAlert(a)
    \/ \E p \in Checkers :
          \/ \E found \in SUBSET Problems : Observe(p, found)
          \/ \E notify \in BOOLEAN : Reconcile(p, notify)
          \/ \E a \in AlertIds : ClaimAlert(p, a) \/ LeaveAlert(p, a)
          \/ Submit(p) \/ Fails(p) \/ Complete(p) \/ Rest(p) \/ CheckerDies(p) \/ CheckerLapses(p)

AlertsSpec == AlertsInit /\ [][AlertsNext]_alertVars

-----------------------------------------------------------------------------
AlertsTypeOK ==
    /\ clock \in 0..MaxClock
    /\ lasting \in [Problems -> 0..Sustained]
    /\ alerts \in Seq(AlertRows)
    /\ \A i \in Problems : Cardinality(OpenFor(i)) <= 1
    /\ banner \in [AlertIds -> Nat]
    /\ mourned.lapsed \subseteq mourned.dead /\ mourned.dead \subseteq Checkers

\* However many checkers run, an alert is shown once in each period of the
\* cooldown, and once more for each checker that died after it had submitted it.
ShownOncePerCooldown ==
    \A a \in AlertIds :
        banner[a] <= 1 + clock \div Cooldown + Cardinality(mourned.lapsed)

=============================================================================
