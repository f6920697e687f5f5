------------------------------- MODULE Ledger -------------------------------
(***************************************************************************)
(* The ledger of what model calls cost (budget.py, BudgetLedger), a file   *)
(* that many processes share: each keeps a snapshot, follows the file by   *)
(* its stamp, asks whether it may spend, calls, and then records the call  *)
(* under a file lock.  The file may become unreadable; it is then kept     *)
(* beside a new one that stops the spending of that day.                   *)
(*                                                                         *)
(* Every call costs one unit, and only the daily limit is modelled.  A     *)
(* file is replaced in one step (os.replace).                              *)
(***************************************************************************)
EXTENDS Naturals, FiniteSets

CONSTANTS
    Procs,     \* processes with a ledger of their own
    PaidCalls, \* paid calls, numbered: bounds how many are made
    Stop,      \* the entry of a recovered ledger, as large as the limit
    Limit,     \* budget.daily
    MaxDay,    \* bounds the days
    Troubles   \* bounds deaths, damages, repairs and failures to keep a copy

ASSUME LedgerAssumption == Limit \in Nat \ {0} /\ MaxDay \in Nat \ {0} /\ Troubles \in Nat
ASSUME CallsAssumption == PaidCalls \subseteq Nat /\ Stop \notin PaidCalls
ASSUME ProcsAssumption == IsFiniteSet(Procs)

VARIABLES
    file,      \* the ledger: its entries, whether it can be read, its stamp
    kept,      \* what is kept in unreadable-* files
    flock,     \* who holds the lock while it recovers
    ledger,    \* the BudgetLedger of each process: see Ledgers
    today,
    written,   \* history: every entry of a call that was ever written
    stopped,   \* history: the day that the last replacement of an unreadable ledger stopped
    late,      \* history: the days on which it stopped the day before
    troubles

ledgerVars == <<file, kept, flock, ledger, today, written, stopped, late, troubles>>

-----------------------------------------------------------------------------
Days == 1..MaxDay
Entries == [call : PaidCalls \cup {Stop}, day : Days]

\* Stamps: none before the file was looked at, absent without a file.
NotSeen == 0
Absent == 1

Places == {"idle", "asked", "recover", "keep", "paid"}

\* seen is _seen, preserved _preserved; call is the one under way; resumes says
\* where a recovery goes back to and stop the entry it is about to write.
Ledgers == [at : Places, entries : SUBSET Entries, seen : Nat, preserved : BOOLEAN,
            call : SUBSET PaidCalls, resumes : {"idle", "asked", "paid"}, stop : SUBSET Entries]
NoLedger == [at |-> "idle", entries |-> {}, seen |-> NotSeen, preserved |-> TRUE,
             call |-> {}, resumes |-> "idle", stop |-> {}]

LedgerInit ==
    /\ file = [entries |-> {}, readable |-> TRUE, stamp |-> Absent]
    /\ kept = {}
    /\ flock = {}
    /\ ledger = [p \in Procs |-> NoLedger]
    /\ today = 1
    /\ written = {}
    /\ stopped = {}
    /\ late = {}
    /\ troubles = 0

Trouble == troubles < Troubles /\ troubles' = troubles + 1

Spent(entries, day) ==
    IF [call |-> Stop, day |-> day] \in entries THEN Limit
    ELSE Cardinality({e \in entries : e.day = day})

\* BudgetLedger._read into the snapshot
Read(l) == [l EXCEPT !.entries = file.entries, !.seen = file.stamp, !.preserved = TRUE]

\* BudgetLedger._load meets an unreadable file.
Recovers(p, from) ==
    ledger' = [ledger EXCEPT ![p].at = "recover", ![p].resumes = from,
                             ![p].stop = {[call |-> Stop, day |-> today]}]

-----------------------------------------------------------------------------
(* Spending *)

\* BudgetLedger._refresh: the snapshot is read again when the stamp has changed.
LoadedOnce(p) == ledger[p].seen = NotSeen
Stale(p) == ledger[p].seen # file.stamp

Ask(p) ==
    /\ ledger[p].at = "idle"
    /\ IF Stale(p) /\ ~file.readable THEN Recovers(p, "asked")
       ELSE ledger' = [ledger EXCEPT ![p] = [(IF Stale(p) THEN Read(@) ELSE @) EXCEPT !.at = "asked"]]
    /\ UNCHANGED <<file, kept, flock, today, written, stopped, late, troubles>>

\* BudgetLedger.can_spend
MaySpendAtLimit(p) == Spent(ledger[p].entries, today) =< Limit /\ ledger[p].preserved
CanSpend(p) == Spent(ledger[p].entries, today) < Limit /\ ledger[p].preserved

Refuse(p) ==
    /\ ledger[p].at = "asked" /\ ~CanSpend(p)
    /\ ledger' = [ledger EXCEPT ![p].at = "idle"]
    /\ UNCHANGED <<file, kept, flock, today, written, stopped, late, troubles>>

Used == {e.call : e \in written} \cup UNION {ledger[p].call : p \in Procs}
            \cup UNION {{e.call : e \in ledger[p].entries} : p \in Procs}

Pay(p) ==
    /\ ledger[p].at = "asked" /\ CanSpend(p)
    /\ \E c \in PaidCalls \ Used :
         /\ \A other \in PaidCalls \ Used : c <= other
         /\ ledger' = [ledger EXCEPT ![p].at = "paid", ![p].call = {c}]
    /\ UNCHANGED <<file, kept, flock, today, written, stopped, late, troubles>>

\* BudgetLedger.record under the lock: a ledger that was kept is read again, one
\* that could not be kept when it has changed; the call is appended, and written
\* unless that would overwrite what could not be kept.  A recovery met on the way
\* keeps the lock.
Entry(p) == {[call |-> c, day |-> today] : c \in ledger[p].call}
Rereads(p) == ledger[p].preserved \/ Stale(p)
SnapshotOf(p) == ledger[p]
Reread(p) == IF Rereads(p) THEN Read(ledger[p]) ELSE ledger[p]

Record(p) ==
    /\ ledger[p].at = "paid" /\ flock \subseteq {p}
    /\ IF Rereads(p) /\ ~file.readable
       THEN Recovers(p, "paid") /\ flock' = {p} /\ UNCHANGED <<file, written>>
       ELSE LET l == Reread(p)
                now == l.entries \cup Entry(p)
                done == [l EXCEPT !.at = "idle", !.entries = now, !.call = {}]
            IN /\ flock' = {}
               /\ IF l.preserved
                  THEN /\ file' = [entries |-> now, readable |-> TRUE, stamp |-> file.stamp + 1]
                       /\ written' = written \cup Entry(p)
                       /\ ledger' = [ledger EXCEPT ![p] = [done EXCEPT !.seen = file.stamp + 1]]
                  ELSE ledger' = [ledger EXCEPT ![p] = done] /\ UNCHANGED <<file, written>>
    /\ UNCHANGED <<kept, today, stopped, late, troubles>>

-----------------------------------------------------------------------------
(* Recovery: BudgetLedger._recover *)

Resumes(p, l) == ledger' = [ledger EXCEPT ![p] = [l EXCEPT !.at = l.resumes, !.resumes = "idle", !.stop = {}]]

\* The lock is given back, unless a record took it.
Unlocked(p) == IF ledger[p].resumes = "paid" THEN flock ELSE flock \ {p}

\* Another process has repaired it.
Repaired(p) ==
    /\ ledger[p].at = "recover" /\ flock \subseteq {p} /\ file.readable
    /\ Resumes(p, Read(ledger[p]))
    /\ UNCHANGED <<file, kept, flock, today, written, stopped, late, troubles>>

\* The unreadable file is linked, or copied, to a name of its own.
KeepNothing == kept
Keeping == kept \cup {file.entries}

Keep(p) ==
    /\ ledger[p].at = "recover" /\ flock \subseteq {p} /\ ~file.readable
    /\ kept' = Keeping
    /\ flock' = {p}
    /\ ledger' = [ledger EXCEPT ![p].at = "keep"]
    /\ UNCHANGED <<file, today, written, stopped, late, troubles>>

StopSpending(p) ==
    /\ ledger[p].at = "keep"
    /\ file' = [entries |-> ledger[p].stop, readable |-> TRUE, stamp |-> file.stamp + 1]
    /\ flock' = Unlocked(p)
    /\ stopped' = {e.day : e \in ledger[p].stop}
    /\ late' = IF stopped' = {today} THEN late ELSE late \cup {today}
    /\ Resumes(p, [ledger[p] EXCEPT !.entries = ledger[p].stop, !.seen = file.stamp + 1, !.preserved = TRUE])
    /\ UNCHANGED <<kept, today, written, troubles>>

\* It can be neither kept nor replaced: this ledger alone stops.
GivesUp(l) == [l EXCEPT !.entries = l.stop, !.seen = file.stamp, !.preserved = FALSE]

KeepFails(p) ==
    /\ \/ ledger[p].at = "recover" /\ flock \subseteq {p} /\ ~file.readable
       \/ ledger[p].at = "keep"
    /\ Trouble
    /\ flock' = Unlocked(p)
    /\ Resumes(p, GivesUp(ledger[p]))
    /\ UNCHANGED <<file, kept, today, written, stopped, late>>

-----------------------------------------------------------------------------
(* What happens to the processes and to the file *)

\* A process ends, between calls or by dying with a call that it has paid for.
Exit(p) ==
    /\ ledger[p] # NoLedger
    /\ IF ledger[p].at = "idle" THEN UNCHANGED troubles ELSE Trouble
    /\ ledger' = [ledger EXCEPT ![p] = NoLedger]
    /\ flock' = flock \ {p}
    /\ UNCHANGED <<file, kept, today, written, stopped, late>>

\* A torn write of an old version, or an edit by hand: not between two steps of
\* one record.
Damage ==
    /\ file.stamp # Absent /\ file.readable /\ flock = {} /\ Trouble
    /\ file' = [file EXCEPT !.readable = FALSE, !.stamp = @ + 1]
    /\ UNCHANGED <<kept, flock, ledger, today, written, stopped, late>>

Mend ==
    /\ ~file.readable /\ flock = {} /\ Trouble
    /\ file' = [file EXCEPT !.readable = TRUE, !.stamp = @ + 1]
    /\ UNCHANGED <<kept, flock, ledger, today, written, stopped, late>>

Midnight ==
    /\ today < MaxDay
    /\ today' = today + 1
    /\ UNCHANGED <<file, kept, flock, ledger, written, stopped, late, troubles>>

LedgerNext ==
    \/ \E p \in Procs :
        \/ Ask(p) \/ Refuse(p) \/ Pay(p) \/ Record(p)
        \/ Repaired(p) \/ Keep(p) \/ StopSpending(p) \/ KeepFails(p) \/ Exit(p)
    \/ Damage \/ Mend \/ Midnight

LedgerSpec == LedgerInit /\ [][LedgerNext]_ledgerVars

-----------------------------------------------------------------------------
(* Properties *)

LedgerTypeOK ==
    /\ file \in [entries : SUBSET Entries, readable : BOOLEAN, stamp : Nat]
    /\ kept \subseteq SUBSET Entries /\ flock \subseteq Procs
    /\ ledger \in [Procs -> Ledgers]
    /\ today \in Days /\ written \subseteq Entries /\ stopped \subseteq Days /\ late \subseteq Days
    /\ troubles \in 0..Troubles

\* A call that was recorded stays in the ledger or in a kept copy of it, whoever
\* writes, recovers or dies (budget.py:81: a later writer erased an earlier spend;
\* budget.py:133: an unreadable ledger is kept, never overwritten).  Processes
\* that ask at the same time all pass: a day's calls exceed the limit by one less
\* than there are processes, and never by more, unless a recovery that lasts over
\* midnight puts the stop of the day before in the place of the calls of that day
\* (budget.py:306).
SpendKept ==
    /\ written \subseteq file.entries \cup UNION kept
    /\ \A d \in Days \ late :
         Cardinality({e \in written : e.day = d}) < Limit + Cardinality(Procs)

\* Once an unreadable ledger was replaced nobody who asks on the day it stops may
\* spend, whatever snapshot he has (budget.py:133).
StoppedForTheDay ==
    [][\A p \in Procs :
          today \in stopped' /\ ledger[p].at # "asked" /\ ledger'[p].at = "asked" => ~CanSpend(p)']_ledgerVars

=============================================================================
