------------------------ MODULE Coordination_proofs ------------------------
(* What Coordination guarantees for any agents, processes, conversations,  *)
(* page lengths and bounds: no backlog skipped, no posted message lost, a  *)
(* name used twice only where a post revived one, standing messages and    *)
(* live conversations out of the hands of outsiders.  The lookup of an     *)
(* operation is a row of the past: of that row the invariant keeps only    *)
(* what can be said of every row the conversation had, that it was stored  *)
(* and, for a read, that what its cursor was past had been found.          *)
EXTENDS Coordination, WellFoundedInduction, TLAPS

Operations ==
    [kind : AllKinds \cup {"idle", "return", "archive", "sweep"}, snap : Rows,
     at : SUBSET Convs, todo : SUBSET Convs, by : Agents \cup {Operator, Expiry},
     name : Names \cup {NoName}, ids : SUBSET Nat]

\* The operations that are about one conversation, and those of an agent.
About == {"join", "post", "read", "return", "set", "clear", "end", "archive"}
OfAgents == {"join", "post", "read", "return"}

RowOK(r) ==
    /\ r.archived => r.status = "ended"
    /\ r.status = "ended" => r.msgs = <<>>
    /\ r.status = "absent" => r.injects = {}
    /\ \A m \in r.injects : m.id \in 0..MaxInject

OpOK(p, o) ==
    /\ \A c \in o.todo : conv[c].status # "absent"
    /\ o.kind \in About => \E c \in Convs : o.at = {c} /\ conv[c].status # "absent"
    /\ o.kind = "archive" => \A c \in o.at : conv[c].status = "ended"
    /\ o.kind \in OfAgents => o.by \in Agents
    /\ o.kind \in {"set", "clear"} => o.by # Expiry /\ p \notin Cron
    /\ o.kind = "create" => o.name # NoName
    /\ o.name # NoName => p \notin Cron
    /\ o.kind = "read" => \A c \in o.at : 1 .. o.snap.cursor[o.by] \subseteq picked[o.by][c]

IInv ==
    /\ TypeOK
    /\ op \in [Procs -> Operations]
    /\ \A c \in Convs : RowOK(conv[c])
    /\ \A p \in Procs : OpOK(p, op[p])
    /\ NothingSkipped
    /\ NamesakesRevived

\* What every step leaves of the past.
Grown ==
    /\ \A c \in Convs : /\ conv[c].status # "absent" => conv'[c].status # "absent"
                        /\ conv[c].status = "ended" => conv'[c].status = "ended"
    /\ \A a \in Agents, c \in Convs : picked[a][c] \subseteq picked'[a][c]

RowsKept ==
    /\ conv' \in [Convs -> Rows]
    /\ \A c \in Convs : RowOK(conv'[c])
    /\ Grown
    /\ NamesakesRevived'

-----------------------------------------------------------------------------
(* Data *)

LEMMA NoneStored == NoRow \in Rows /\ RowOK(NoRow) /\ Idle \in Operations
<1>1. NoRow \in Rows
  BY DEF NoRow, Rows
<1>2. RowOK(NoRow)
  BY DEF NoRow, RowOK
<1> QED
  BY <1>1, <1>2 DEF Idle, Operations

\* The larger of two numbers, and the greatest of a page and a cursor.
LEMMA MaxIs ==
    ASSUME NEW S, NEW x \in S, x \in Nat, S \subseteq Nat, \A y \in S : y <= x
    PROVE  Max(S) = x
<1>1. \A y \in S : x >= y
  OBVIOUS
<1> DEFINE m == Max(S)
<1>2. m \in S /\ \A y \in S : m >= y
  BY <1>1 DEF Max
<1> HIDE DEF m
<1>3. m = x
  BY <1>2
<1> QED
  BY <1>3 DEF m

LEMMA MaxBounded ==
    ASSUME NEW n \in Nat, NEW S \in SUBSET (0..n), S # {}
    PROVE  Max(S) \in S
<1> DEFINE T == {n - y : y \in S}
           R == OpToRel(<, Nat)
<1>1. IsWellFoundedOn(R, Nat)
  BY NatLessThanWellFounded
<1> HIDE DEF R
<1>2. T \subseteq Nat /\ T # {}
  <2>1. \A y \in S : n - y \in Nat
    OBVIOUS
  <2>2. PICK y \in S : TRUE
    OBVIOUS
  <2>3. n - y \in T
    BY <2>2
  <2> QED
    BY <2>1, <2>3
<1>3. PICK x \in T : \A y \in T : ~ (<<y, x>> \in R)
  <2> HIDE DEF T
  <2> QED
    BY <1>1, <1>2, WFMin
<1>4. \A y \in T : ~ (y < x)
  BY <1>2, <1>3 DEF R, OpToRel
<1>5. PICK z \in S : x = n - z
  OBVIOUS
<1>6. ASSUME NEW y \in S PROVE y <= z
  <2>1. n - y \in T
    OBVIOUS
  <2>2. ~ (n - y < n - z)
    BY <1>4, <1>5, <2>1
  <2> QED
    BY <2>2
<1>7. z \in Nat /\ S \subseteq Nat
  OBVIOUS
<1>8. Max(S) = z
  BY <1>6, <1>7, MaxIs
<1> QED
  BY <1>8

\* A row that was changed, of which the lookups and names of the others hold.
LEMMA RowSet ==
    ASSUME IInv, UNCHANGED now, picked' = picked, NEW c \in Convs, NEW r \in Rows,
           conv' = [conv EXCEPT ![c] = r], RowOK(r),
           conv[c].status # "absent", r.status # "absent", r.name = conv[c].name,
           conv[c].status = "ended" => r.status = "ended",
           revived \subseteq revived', Live(r) => Live(conv[c]) \/ c \in revived'
    PROVE  RowsKept
<1>1. conv' \in [Convs -> Rows] /\ conv'[c] = r /\ \A d \in Convs : d # c => conv'[d] = conv[d]
  BY DEF IInv, TypeOK
<1>2. NamesakesRevived'
  <2> SUFFICES ASSUME NEW d \in Convs, NEW e \in Convs, d # e, Live(conv[d])', Live(conv[e])',
                      conv'[d].name = conv'[e].name
               PROVE  d \in revived' \/ e \in revived'
    BY DEF NamesakesRevived, Stored
  <2>1. \A b \in {d, e} : /\ Live(conv[b]) \/ b \in revived'
                          /\ conv[b].name = conv'[b].name
    BY <1>1 DEF Live, Expired
  <2>2. \A b \in {d, e} : Live(conv[b]) => b \in Stored
    BY DEF Live, Stored
  <2> QED
    BY <2>1, <2>2 DEF IInv, NamesakesRevived
<1> QED
  BY <1>1, <1>2 DEF RowsKept, Grown, IInv

LEMMA NoRowSet ==
    ASSUME IInv, UNCHANGED <<now, conv, picked, revived>>
    PROVE  RowsKept
BY DEF IInv, TypeOK, RowsKept, Grown, NamesakesRevived, Stored, Live, Expired

\* A process that goes on to o leaves what the others do.
LEMMA Goes ==
    ASSUME IInv, RowsKept, NothingSkipped', NEW p \in Procs, NEW o \in Operations,
           op' = [op EXCEPT ![p] = o], OpOK(p, o)',
           UNCHANGED plot, now' \in Nat, crashes' \in 0 .. plot.crashes,
           picked' \in [Agents -> [Convs -> SUBSET Nat]],
           heard' \in [Agents -> [Convs -> SUBSET Nat]],
           revived' \subseteq Convs, last' \in Agents \cup {Operator, Expiry}
    PROVE  IInv'
<1>1. op' \in [Procs -> Operations] /\ \A q \in Procs : op'[q] = IF q = p THEN o ELSE op[q]
  BY DEF IInv
<1>2. TypeOK'
  BY <1>1 DEF IInv, TypeOK, RowsKept, Operations
<1>3. ASSUME NEW q \in Procs PROVE OpOK(q, op[q])'
  <2>1. CASE q = p
    BY <1>1, <2>1 DEF OpOK
  <2>2. CASE q # p
    <3>1. op'[q] = op[q] /\ OpOK(q, op[q])
      BY <1>1, <2>2 DEF IInv
    <3>2. op[q].at \subseteq Convs /\ op[q].todo \subseteq Convs
      BY DEF IInv, TypeOK
    <3>3. op[q].kind \in About => \E c \in Convs : op[q].at = {c} /\ conv'[c].status # "absent"
      BY <3>1 DEF OpOK, RowsKept, Grown
    <3>4. \A c \in op[q].todo : conv'[c].status # "absent"
      BY <3>1, <3>2 DEF OpOK, RowsKept, Grown
    <3>5. op[q].kind = "archive" => \A c \in op[q].at : conv'[c].status = "ended"
      BY <3>1, <3>2 DEF OpOK, RowsKept, Grown
    <3>6. op[q].kind = "read" =>
             \A c \in op[q].at : 1 .. op[q].snap.cursor[op[q].by] \subseteq picked'[op[q].by][c]
      BY <3>1, <3>2 DEF OpOK, RowsKept, Grown, OfAgents
    <3> QED
      BY <3>1, <3>3, <3>4, <3>5, <3>6 DEF OpOK
  <2> QED
    BY <2>1, <2>2
<1> QED
  BY <1>1, <1>2, <1>3 DEF IInv, RowsKept

\* Where the rows and cursors stay, so does what was found.
LEMMA CursorsStay ==
    ASSUME IInv, picked' = picked, \A c \in Convs : conv'[c].cursor = conv[c].cursor
    PROVE  NothingSkipped'
BY DEF IInv, NothingSkipped

\* The step of a process that leaves the history to others.
LEMMA Proceeds ==
    ASSUME IInv, RowsKept, \A c \in Convs : conv'[c].cursor = conv[c].cursor,
           NEW p \in Procs, NEW o \in Operations, op' = [op EXCEPT ![p] = o], OpOK(p, o)',
           UNCHANGED <<plot, now, crashes, picked, heard>>, revived' \subseteq Convs,
           last' \in Agents \cup {Operator, Expiry}
    PROVE  IInv'
<1>1. NothingSkipped'
  BY CursorsStay
<1> QED
  BY <1>1, Goes DEF IInv, TypeOK

\* An idle process is about nothing.
LEMMA IdleOK == \A p \in Procs : OpOK(p, Idle)'
BY DEF Idle, OpOK, About, OfAgents

\* What an operation is about.
LEMMA TheConv ==
    ASSUME IInv, NEW p \in Procs, op[p].kind \in About
    PROVE  /\ Conv(p) \in Convs /\ op[p].at = {Conv(p)}
           /\ conv[Conv(p)] \in Rows /\ RowOK(conv[Conv(p)])
           /\ conv[Conv(p)].status # "absent"
<1>1. PICK c \in Convs : op[p].at = {c} /\ conv[c].status # "absent"
  BY DEF IInv, OpOK
<1>2. Conv(p) = c
  BY <1>1 DEF Conv
<1> QED
  BY <1>1, <1>2 DEF IInv, TypeOK

-----------------------------------------------------------------------------
(* Steps *)

LEMMA InitHolds == Init => IInv
<1> SUFFICES ASSUME Init PROVE IInv
  OBVIOUS
<1>1. TypeOK
  BY NoneStored, PlotsAssumption DEF Init, TypeOK, Idle, AllKinds
<1>2. op \in [Procs -> Operations]
  BY NoneStored DEF Init
<1>3. \A p \in Procs : OpOK(p, op[p])
  BY DEF Init, Idle, OpOK, About, OfAgents
<1>4. \A c \in Convs : RowOK(conv[c])
  BY NoneStored DEF Init
<1>5. NothingSkipped
  BY DEF Init, NoRow, NothingSkipped
<1>6. NamesakesRevived
  BY DEF Init, NoRow, NamesakesRevived, Stored
<1> QED
  BY <1>1, <1>2, <1>3, <1>4, <1>5, <1>6 DEF IInv

\* A lookup finds a row that is stored, and what reads of the agent found of it.
LEMMA BeginKeeps ==
    ASSUME IInv, NEW p \in Procs, Begin(p)
    PROVE  IInv'
<1>1. UNCHANGED <<conv, plot, now, crashes, picked, heard, revived>> /\ last' = Expiry
  BY DEF Begin, PostFindsExpired, Resolve, SweepList, Note, Keep
<1>2. RowsKept /\ \A c \in Convs : conv'[c].cursor = conv[c].cursor
  BY <1>1, NoRowSet
<1>3. revived' \subseteq Convs
  BY <1>1 DEF IInv, TypeOK
<1>4. ASSUME NEW o \in Operations, op' = [op EXCEPT ![p] = o], OpOK(p, o) PROVE IInv'
  <2>1. OpOK(p, o)'
    BY <1>1, <1>4 DEF OpOK
  <2> QED
    BY <1>1, <1>2, <1>3, <1>4, <2>1, Proceeds
<1>5. ASSUME NEW c \in Convs, PostFindsExpired(p, c) PROVE IInv'
  <2> DEFINE o == [Idle EXCEPT !.kind = "end", !.at = {c}]
  <2>1. o \in Operations
    BY NoneStored DEF Operations, AllKinds
  <2>2. OpOK(p, o)
    BY <1>5 DEF PostFindsExpired, Stored, OpOK, Idle, About, OfAgents
  <2> QED
    BY <1>4, <1>5, <2>1, <2>2 DEF PostFindsExpired, Becomes
<1>6. ASSUME NEW c \in Convs, NEW kind \in AllKinds \ {"create"}, NEW by \in Agents \cup {Operator},
             Resolve(p, kind, c, by)
      PROVE  IInv'
  <2> DEFINE o == [Idle EXCEPT !.kind = kind, !.snap = LookedUp(kind, c), !.at = {c}, !.by = by]
  <2>1. LookedUp(kind, c) \in Rows
    BY NoneStored DEF LookedUp, IInv, TypeOK
  <2>2. o \in Operations
    BY <2>1, NoneStored DEF Operations
  <2>3. /\ o.kind = kind /\ o.at = {c} /\ o.by = by /\ o.name = NoName /\ o.todo = {}
        /\ kind = "read" => o.snap = conv[c]
    BY DEF Idle, LookedUp
  <2>4. kind \in OfAgents => by \in Agents
    BY <1>6, ActorsAssumption DEF Resolve, OfAgents
  <2>5. p \notin Cron /\ conv[c].status # "absent" /\ kind # "archive" /\ kind # "create" /\ by # Expiry
    BY <1>6, ActorsAssumption DEF Resolve, Stored, AllKinds
  <2>6. kind = "read" => 1 .. conv[c].cursor[by] \subseteq picked[by][c]
    BY <2>4 DEF IInv, NothingSkipped, OfAgents
  <2> HIDE DEF o
  <2>7. kind = "read" => \A d \in o.at : 1 .. o.snap.cursor[o.by] \subseteq picked[o.by][d]
    BY <2>3, <2>6
  <2>8. OpOK(p, o)
    BY <2>3, <2>4, <2>5, <2>7 DEF OpOK
  <2> QED
    BY <1>4, <1>6, <2>2, <2>8 DEF Resolve, Becomes, o
<1>7. ASSUME NEW name \in Names \cup {NoName}, SweepList(p, name) PROVE IInv'
  <2> DEFINE o == [Idle EXCEPT !.kind = "sweep", !.todo = Listed, !.name = name]
  <2>1. Listed \in SUBSET Convs
    BY DEF Listed, ExpiredActive, Stored
  <2>2. o \in Operations
    BY <2>1, NoneStored DEF Operations
  <2>3. o.kind = "sweep" /\ o.name = name /\ o.todo = Listed /\ (name # NoName => p \notin Cron)
    BY <1>7 DEF SweepList, Idle
  <2> HIDE DEF o
  <2>4. OpOK(p, o)
    BY <2>3 DEF OpOK, About, OfAgents, Listed, ExpiredActive, Stored
  <2> QED
    BY <1>4, <1>7, <2>2, <2>4 DEF SweepList, Becomes, o
<1> QED
  BY <1>5, <1>6, <1>7 DEF Begin

\* A process that gives up or dies.
LEMMA EndsKeeps ==
    ASSUME IInv, NEW p \in Procs, Refuse(p) \/ Crash(p)
    PROVE  IInv'
<1>1. /\ UNCHANGED <<plot, now, conv, picked, heard, revived>> /\ last' = Expiry
      /\ op' = [op EXCEPT ![p] = Idle] /\ crashes' \in 0 .. plot.crashes
  BY PlotsAssumption DEF Refuse, Crash, Ends, Becomes, Note, Keep, IInv, TypeOK
<1>2. RowsKept /\ NothingSkipped'
  BY <1>1, NoRowSet, CursorsStay
<1> QED
  BY <1>1, <1>2, Goes, IdleOK, NoneStored DEF IInv, TypeOK

LEMMA TickKeeps == IInv /\ Tick => IInv'
<1> SUFFICES ASSUME IInv, Tick PROVE IInv'
  OBVIOUS
<1>1. /\ UNCHANGED <<plot, conv, op, crashes, picked, heard, revived>>
      /\ last' = Expiry /\ now' = now + 1 /\ now \in Nat
  BY DEF Tick, Note, IInv, TypeOK
<1>2. \A c \in Convs : conv[c].until \in Nat
  BY DEF IInv, TypeOK, Rows
<1>3. \A c \in Convs : Live(conv[c])' => Live(conv[c])
  BY <1>1, <1>2 DEF Live, Expired
<1>4. NamesakesRevived'
  BY <1>1, <1>3 DEF IInv, NamesakesRevived, Stored
<1>5. TypeOK' /\ op' \in [Procs -> Operations] /\ NothingSkipped'
  BY <1>1 DEF IInv, TypeOK, NothingSkipped
<1>6. \A p \in Procs : OpOK(p, op[p])'
  BY <1>1 DEF IInv, OpOK
<1> QED
  BY <1>1, <1>4, <1>5, <1>6 DEF IInv

\* A change of a row that its operation ends with.
LEMMA SetKeeps ==
    ASSUME IInv, NEW p \in Procs, op[p].kind \in About, NEW r \in Rows,
           conv' = [conv EXCEPT ![Conv(p)] = r], RowOK(r), r.status # "absent",
           r.name = conv[Conv(p)].name, r.cursor = conv[Conv(p)].cursor,
           conv[Conv(p)].status = "ended" => r.status = "ended",
           revived' \subseteq Convs, revived \subseteq revived',
           Live(r) => Live(conv[Conv(p)]) \/ Conv(p) \in revived',
           UNCHANGED <<plot, now, crashes, picked, heard>>, last' = op[p].by,
           NEW o \in Operations, op' = [op EXCEPT ![p] = o],
           RowsKept => OpOK(p, o)'
    PROVE  IInv'
<1>1. Conv(p) \in Convs /\ conv[Conv(p)].status # "absent"
  BY TheConv
<1>2. RowsKept
  BY <1>1, RowSet
<1>3. \A c \in Convs : conv'[c].cursor = conv[c].cursor
  BY <1>1 DEF IInv, TypeOK
<1>4. op[p].by \in Agents \cup {Operator, Expiry}
  BY DEF IInv, TypeOK
<1> QED
  BY <1>2, <1>3, <1>4, Proceeds

LEMMA JoinKeeps ==
    ASSUME IInv, NEW p \in Procs, Join(p)
    PROVE  IInv'
<1> DEFINE c == Conv(p)
           r == [conv[c] EXCEPT !.members = @ \cup {op[p].by}]
<1>1. /\ op[p].kind = "join" /\ conv' = [conv EXCEPT ![c] = r] /\ op' = [op EXCEPT ![p] = Idle]
      /\ UNCHANGED <<plot, now, crashes, picked, heard, revived>> /\ last' = op[p].by
      /\ conv[c].status = "active"
  BY DEF Join, At, Set, Ends, Becomes, Note, Keep, Active
<1>2. op[p].kind \in About /\ op[p].by \in Agents
  BY <1>1 DEF IInv, OpOK, About, OfAgents
<1>3. c \in Convs /\ conv[c] \in Rows /\ RowOK(conv[c])
  BY <1>2, TheConv
<1>4. /\ r \in Rows /\ r.status = conv[c].status /\ r.archived = conv[c].archived
      /\ r.msgs = conv[c].msgs /\ r.injects = conv[c].injects /\ r.name = conv[c].name
      /\ r.cursor = conv[c].cursor /\ r.until = conv[c].until
  BY <1>2, <1>3 DEF Rows
<1> HIDE DEF c, r
<1>5. RowOK(r) /\ (Live(r) => Live(conv[c]))
  BY <1>3, <1>4 DEF RowOK, Live, Expired
<1>6. revived' \subseteq Convs
  BY <1>1 DEF IInv, TypeOK
<1> QED
  BY <1>1, <1>2, <1>4, <1>5, <1>6, SetKeeps, IdleOK, NoneStored DEF c

\* A post brings an expired row back only where it is noted.
LEMMA PostKeeps ==
    ASSUME IInv, NEW p \in Procs, Post(p)
    PROVE  IInv'
<1> DEFINE c == Conv(p)
           msgs == Appended(conv[c], op[p].snap, op[p].by)
           r == [conv[c] EXCEPT !.msgs = msgs, !.until = now + Ttl]
<1>1. /\ op[p].kind = "post" /\ conv' = [conv EXCEPT ![c] = r] /\ op' = [op EXCEPT ![p] = Idle]
      /\ revived' = IF Expired(conv[c]) THEN revived \cup {c} ELSE revived
      /\ UNCHANGED <<plot, now, crashes, picked, heard>> /\ last' = op[p].by
      /\ conv[c].status = "active"
  BY DEF Post, At, Set, Ends, Becomes, Note, Active
<1>2. op[p].kind \in About /\ op[p].by \in Agents
  BY <1>1 DEF IInv, OpOK, About, OfAgents
<1>3. c \in Convs /\ conv[c] \in Rows /\ RowOK(conv[c])
  BY <1>2, TheConv
<1>4. msgs \in Seq(Agents) /\ now + Ttl \in Nat
  BY <1>2, <1>3, BoundsAssumption DEF Rows, Appended, IInv, TypeOK
<1> HIDE DEF msgs
<1>5. /\ r \in Rows /\ r.status = conv[c].status /\ r.archived = conv[c].archived
      /\ r.injects = conv[c].injects /\ r.name = conv[c].name /\ r.cursor = conv[c].cursor
  BY <1>3, <1>4 DEF Rows
<1> HIDE DEF c, r
<1>6. RowOK(r) /\ (Live(r) => Live(conv[c]) \/ c \in revived')
  BY <1>1, <1>3, <1>5 DEF RowOK, Live
<1>7. revived' \subseteq Convs /\ revived \subseteq revived'
  BY <1>1, <1>3 DEF IInv, TypeOK
<1> QED
  BY <1>1, <1>2, <1>5, <1>6, <1>7, SetKeeps, IdleOK, NoneStored DEF c

\* The ids of standing messages are bounded, so that there is a next one.
LEMMA SetInjectKeeps ==
    ASSUME IInv, NEW p \in Procs, SetInject(p)
    PROVE  IInv'
<1> DEFINE c == Conv(p)
           idOf == {0} \cup {m.id : m \in conv[c].injects}
           entry == [id |-> 1 + Max(idOf), by |-> AgentOf[p], until |-> now + Ttl]
           injects == {m \in conv[c].injects : m.until > now} \cup {entry}
           r == [conv[c] EXCEPT !.injects = injects]
<1>1. /\ op[p].kind = "set" /\ conv' = [conv EXCEPT ![c] = r] /\ op' = [op EXCEPT ![p] = Idle]
      /\ UNCHANGED <<plot, now, crashes, picked, heard, revived>> /\ last' = op[p].by
      /\ conv[c].status = "active" /\ 1 + Max(idOf) <= MaxInject
  BY DEF SetInject, At, Set, Ends, Becomes, Note, Keep, Active
<1>2. op[p].kind \in About /\ p \notin Cron
  BY <1>1 DEF IInv, OpOK, About
<1>3. c \in Convs /\ conv[c] \in Rows /\ RowOK(conv[c])
  BY <1>2, TheConv
<1>4. 1 + Max(idOf) \in 0..MaxInject
  <2>1. idOf \in SUBSET (0..MaxInject) /\ idOf # {}
    BY <1>3, BoundsAssumption DEF RowOK
  <2> HIDE DEF idOf
  <2>2. Max(idOf) \in 0..MaxInject
    BY <2>1, MaxBounded, BoundsAssumption
  <2> QED
    BY <1>1, <2>2, BoundsAssumption
<1> HIDE DEF idOf
<1>5. entry \in Injects /\ entry.id \in 0..MaxInject
  BY <1>2, <1>4, ActorsAssumption, BoundsAssumption DEF Injects, IInv, TypeOK
<1> HIDE DEF entry
<1>6. injects \in SUBSET Injects /\ \A m \in injects : m.id \in 0..MaxInject
  BY <1>3, <1>5 DEF Rows, RowOK
<1> HIDE DEF injects
<1>7. /\ r \in Rows /\ r.status = conv[c].status /\ r.archived = conv[c].archived
      /\ r.msgs = conv[c].msgs /\ r.injects = injects /\ r.name = conv[c].name
      /\ r.cursor = conv[c].cursor /\ r.until = conv[c].until
  BY <1>3, <1>6 DEF Rows
<1> HIDE DEF c, r
<1>8. RowOK(r) /\ (Live(r) => Live(conv[c]))
  BY <1>1, <1>3, <1>6, <1>7 DEF RowOK, Live, Expired
<1>9. revived' \subseteq Convs
  BY <1>1 DEF IInv, TypeOK
<1> QED
  BY <1>1, <1>2, <1>7, <1>8, <1>9, SetKeeps, IdleOK, NoneStored DEF c

LEMMA ClearInjectKeeps ==
    ASSUME IInv, NEW p \in Procs, ClearInject(p)
    PROVE  IInv'
<1> DEFINE c == Conv(p)
<1>1. /\ op[p].kind = "clear" /\ op' = [op EXCEPT ![p] = Idle]
      /\ UNCHANGED <<plot, now, crashes, picked, heard, revived>> /\ last' = op[p].by
      /\ \E gone : conv' = [conv EXCEPT ![c] = [conv[c] EXCEPT !.injects = @ \ gone]]
  BY DEF ClearInject, At, Set, Ends, Becomes, Note, Keep
<1>2. PICK gone : conv' = [conv EXCEPT ![c] = [conv[c] EXCEPT !.injects = @ \ gone]]
  BY <1>1
<1> DEFINE r == [conv[c] EXCEPT !.injects = @ \ gone]
<1>3. op[p].kind \in About
  BY <1>1 DEF About
<1>4. c \in Convs /\ conv[c] \in Rows /\ RowOK(conv[c]) /\ conv[c].status # "absent"
  BY <1>3, TheConv
<1>5. /\ r \in Rows /\ r.status = conv[c].status /\ r.archived = conv[c].archived
      /\ r.msgs = conv[c].msgs /\ r.injects \subseteq conv[c].injects /\ r.name = conv[c].name
      /\ r.cursor = conv[c].cursor /\ r.until = conv[c].until
  BY <1>4 DEF Rows
<1> HIDE DEF c, r
<1>6. RowOK(r) /\ (Live(r) => Live(conv[c]))
  BY <1>4, <1>5 DEF RowOK, Live, Expired
<1>7. revived' \subseteq Convs
  BY <1>1 DEF IInv, TypeOK
<1> QED
  BY <1>1, <1>2, <1>3, <1>4, <1>5, <1>6, <1>7, SetKeeps, IdleOK, NoneStored DEF c, r

\* What was ended is marked, and goes on to be archived.
LEMMA EndMarkKeeps ==
    ASSUME IInv, NEW p \in Procs, EndMark(p)
    PROVE  IInv'
<1> DEFINE c == Conv(p)
           r == EndedRow(conv[c])
<1>1. /\ op[p].kind = "end" /\ UNCHANGED <<plot, now, crashes, picked, heard, revived>>
      /\ last' = op[p].by
  BY DEF EndMark, At, Note, Keep
<1>2. op[p] \in Operations /\ OpOK(p, op[p]) /\ op[p].kind \in About /\ revived' \subseteq Convs
  BY <1>1 DEF IInv, TypeOK, About
<1>3. c \in Convs /\ op[p].at = {c} /\ conv[c] \in Rows /\ RowOK(conv[c]) /\ conv[c].status # "absent"
  BY <1>2, TheConv
<1>4. CASE Active(p)
  <2>0. PICK archive : archive = [op[p] EXCEPT !.kind = "archive", !.snap = NoRow]
    OBVIOUS
  <2>1. /\ conv' = [conv EXCEPT ![c] = r] /\ op' = [op EXCEPT ![p] = archive]
        /\ conv[c].status = "active"
    BY <1>4, <2>0 DEF EndMark, Set, Becomes, Active
  <2>2. /\ archive \in Operations /\ archive.kind = "archive" /\ archive.at = {c}
        /\ archive.name = op[p].name /\ archive.todo = op[p].todo
    BY <1>2, <1>3, <2>0, NoneStored DEF Operations
  <2>3. /\ r \in Rows /\ r.status = "ended" /\ r.archived = conv[c].archived
        /\ r.msgs = <<>> /\ r.injects = conv[c].injects /\ r.name = conv[c].name
        /\ r.cursor = conv[c].cursor
    <3>1. <<>> \in Seq(Agents)
      OBVIOUS
    <3> QED
      BY <1>3, <3>1 DEF EndedRow, Rows
  <2> HIDE DEF r, c
  <2>4. RowOK(r) /\ ~ Live(r)
    BY <1>3, <2>3 DEF RowOK, Live
  <2>5. ASSUME RowsKept PROVE OpOK(p, archive)'
    <3>1. conv'[c].status = "ended"
      BY <1>3, <2>1, <2>3 DEF IInv, TypeOK
    <3>2. archive.name # NoName => p \notin Cron
      BY <1>2, <2>2 DEF OpOK
    <3>3. \A d \in op[p].todo : conv'[d].status # "absent"
      BY <1>2, <2>5 DEF OpOK, Operations, RowsKept, Grown
    <3> QED
      BY <1>3, <2>2, <3>1, <3>2, <3>3 DEF OpOK, About, OfAgents
  <2> QED
    BY <1>1, <1>2, <1>3, <2>1, <2>2, <2>3, <2>4, <2>5, SetKeeps DEF c
<1>5. CASE ~ Active(p)
  <2>0. PICK sweep : sweep = [op[p] EXCEPT !.kind = "sweep", !.at = {}, !.snap = NoRow]
    OBVIOUS
  <2>1. UNCHANGED conv /\ op' = [op EXCEPT ![p] = sweep]
    BY <1>5, <2>0 DEF EndMark, Becomes
  <2>2. /\ sweep \in Operations /\ sweep.kind = "sweep" /\ sweep.name = op[p].name
        /\ sweep.todo = op[p].todo
    BY <1>2, <2>0, NoneStored DEF Operations
  <2>3. OpOK(p, sweep)'
    BY <1>2, <2>1, <2>2 DEF OpOK, About, OfAgents
  <2>4. RowsKept
    BY <1>1, <2>1, NoRowSet
  <2> QED
    BY <1>1, <1>2, <2>1, <2>2, <2>3, <2>4, Proceeds DEF IInv, TypeOK
<1> QED
  BY <1>4, <1>5

\* What is archived was ended.
LEMMA ArchiveKeeps ==
    ASSUME IInv, NEW p \in Procs, Archive(p)
    PROVE  IInv'
<1> DEFINE c == Conv(p)
           r == [conv[c] EXCEPT !.archived = TRUE]
<1>0. PICK sweep : sweep = [op[p] EXCEPT !.kind = "sweep", !.at = {}, !.snap = NoRow]
  OBVIOUS
<1>1. /\ op[p].kind = "archive" /\ UNCHANGED <<plot, now, crashes, picked, heard, revived>>
      /\ last' = op[p].by /\ conv' = [conv EXCEPT ![c] = r] /\ op' = [op EXCEPT ![p] = sweep]
  BY <1>0 DEF Archive, At, Set, Becomes, Note, Keep
<1>2. op[p] \in Operations /\ OpOK(p, op[p]) /\ op[p].kind \in About /\ revived' \subseteq Convs
  BY <1>1 DEF IInv, TypeOK, About
<1>3. c \in Convs /\ op[p].at = {c} /\ conv[c] \in Rows /\ RowOK(conv[c])
  BY <1>2, TheConv
<1>4. conv[c].status = "ended"
  BY <1>1, <1>2, <1>3 DEF OpOK
<1>5. /\ r \in Rows /\ r.status = "ended" /\ r.msgs = conv[c].msgs /\ r.injects = conv[c].injects
      /\ r.name = conv[c].name /\ r.cursor = conv[c].cursor
  BY <1>3, <1>4 DEF Rows
<1>6. /\ sweep \in Operations /\ sweep.kind = "sweep" /\ sweep.name = op[p].name
      /\ sweep.todo = op[p].todo
  BY <1>0, <1>2, NoneStored DEF Operations
<1> HIDE DEF c, r
<1>7. RowOK(r) /\ ~ Live(r)
  BY <1>3, <1>4, <1>5 DEF RowOK, Live
<1>8. ASSUME RowsKept PROVE OpOK(p, sweep)'
  <2>1. \A d \in op[p].todo : conv'[d].status # "absent"
    BY <1>2, <1>8 DEF OpOK, Operations, RowsKept, Grown
  <2> QED
    BY <1>2, <1>6, <2>1 DEF OpOK, About, OfAgents
<1> QED
  BY <1>1, <1>2, <1>5, <1>6, <1>7, <1>8, SetKeeps DEF c

LEMMA SweepNextKeeps ==
    ASSUME IInv, NEW p \in Procs, SweepNext(p)
    PROVE  IInv'
<1>1. /\ op[p].kind = "sweep" /\ UNCHANGED <<plot, now, conv, crashes, picked, heard, revived>>
      /\ last' = Expiry
  BY DEF SweepNext, At, Note, Keep
<1>2. op[p] \in Operations /\ OpOK(p, op[p]) /\ op[p].todo \subseteq Convs /\ revived' \subseteq Convs
  BY <1>1 DEF IInv, TypeOK
<1>3. RowsKept
  BY <1>1, NoRowSet
<1>4. ASSUME NEW o \in Operations, op' = [op EXCEPT ![p] = o], OpOK(p, o)' PROVE IInv'
  BY <1>1, <1>2, <1>3, <1>4, Proceeds
<1>5. ASSUME NEW c \in op[p].todo,
             op' = [op EXCEPT ![p] = [op[p] EXCEPT !.kind = "end", !.at = {c}, !.todo = @ \ {c}]]
      PROVE  IInv'
  <2>0. PICK o : o = [op[p] EXCEPT !.kind = "end", !.at = {c}, !.todo = @ \ {c}]
    OBVIOUS
  <2>1. /\ o \in Operations /\ o.kind = "end" /\ o.at = {c} /\ o.name = op[p].name
        /\ o.todo \subseteq op[p].todo
    BY <1>2, <1>5, <2>0 DEF Operations, AllKinds
  <2>2. OpOK(p, o)'
    BY <1>1, <1>2, <2>1 DEF OpOK, About, OfAgents
  <2> QED
    BY <1>4, <1>5, <2>0, <2>1, <2>2
<1>6. CASE op[p].todo = {} /\ op[p].name = NoName
  BY <1>4, <1>6, IdleOK, NoneStored DEF SweepNext, Becomes
<1>7. CASE op[p].todo = {} /\ op[p].name # NoName
  <2>0. PICK o : o = [op[p] EXCEPT !.kind = "create"]
    OBVIOUS
  <2>1. o \in Operations /\ o.kind = "create" /\ o.name = op[p].name /\ o.todo = op[p].todo
    BY <1>2, <2>0 DEF Operations, AllKinds
  <2>2. op' = [op EXCEPT ![p] = o]
    BY <1>7, <2>0 DEF SweepNext, Becomes
  <2>3. OpOK(p, o)'
    BY <1>1, <1>2, <1>7, <2>1 DEF OpOK, About, OfAgents
  <2> QED
    BY <1>4, <2>1, <2>2, <2>3
<1> QED
  BY <1>5, <1>6, <1>7 DEF SweepNext, Becomes

\* The name is free in the transaction that stores the row.
LEMMA CreateKeeps ==
    ASSUME IInv, NEW p \in Procs, NEW c \in plot.convs, Create(p, c)
    PROVE  IInv'
<1> DEFINE r == [NoRow EXCEPT !.status = "active", !.name = op[p].name, !.creator = AgentOf[p],
                              !.until = now + Ttl, !.members = {AgentOf[p]}]
<1>1. /\ op[p].kind = "create" /\ UNCHANGED <<plot, now, crashes, picked, heard, revived>>
      /\ last' = AgentOf[p] /\ conv' = [conv EXCEPT ![c] = r] /\ op' = [op EXCEPT ![p] = Idle]
      /\ NameFree(op[p].name) /\ conv[c].status = "absent" /\ c \in Convs
  BY PlotsAssumption DEF Create, At, Ends, Becomes, Note, Keep, IInv, TypeOK, Stored
<1>2. AgentOf[p] \in Agents /\ op[p].name \in Names \cup {NoName}
  BY <1>1, ActorsAssumption DEF IInv, TypeOK, OpOK
<1>3. /\ r \in Rows /\ r.status = "active" /\ r.archived = FALSE /\ r.name = op[p].name
      /\ r.cursor = [a \in Agents |-> 0] /\ r.injects = {}
  <2>1. now + Ttl \in Nat
    BY BoundsAssumption DEF IInv, TypeOK
  <2> QED
    BY <1>2, <2>1, NoneStored DEF NoRow, Rows
<1> HIDE DEF r
<1>4. conv' \in [Convs -> Rows] /\ conv'[c] = r /\ \A d \in Convs : d # c => conv'[d] = conv[d]
  BY <1>1, <1>3 DEF IInv, TypeOK
<1>5. \A d \in Convs : RowOK(conv'[d])
  BY <1>3, <1>4 DEF IInv, RowOK
<1>6. Grown
  BY <1>1, <1>3, <1>4 DEF Grown
<1>7. \A d \in Convs : Live(conv[d]) => conv[d].name # op[p].name
  BY <1>1 DEF NameFree, LiveNamed, Stored, IInv, RowOK, Live
<1>8. \A d \in Convs : d # c => (Live(conv[d])' <=> Live(conv[d]))
  BY <1>1, <1>4 DEF Live, Expired
<1>9. NamesakesRevived'
  <2> SUFFICES ASSUME NEW d \in Convs, NEW e \in Convs, d # e, Live(conv[d])', Live(conv[e])',
                      conv'[d].name = conv'[e].name
               PROVE  d \in revived' \/ e \in revived'
    BY DEF NamesakesRevived, Stored
  <2>1. d # c /\ e # c
    BY <1>3, <1>4, <1>7, <1>8
  <2>2. d \in Stored /\ e \in Stored /\ Live(conv[d]) /\ Live(conv[e]) /\ conv[d].name = conv[e].name
    BY <1>4, <1>8, <2>1 DEF Stored, Live
  <2> QED
    BY <1>1, <2>2 DEF IInv, NamesakesRevived
<1>10. NothingSkipped'
  <2> SUFFICES ASSUME NEW d \in Convs, NEW a \in Agents
               PROVE  1 .. conv'[d].cursor[a] \subseteq picked'[a][d]
    BY DEF NothingSkipped
  <2>1. CASE d = c
    BY <1>3, <1>4, <2>1
  <2>2. CASE d # c
    BY <1>1, <1>4, <2>2 DEF IInv, NothingSkipped
  <2> QED
    BY <2>1, <2>2
<1>11. RowsKept
  BY <1>4, <1>5, <1>6, <1>9 DEF RowsKept
<1> QED
  BY <1>1, <1>2, <1>10, <1>11, Goes, IdleOK, NoneStored DEF IInv, TypeOK

\* A page goes on from the cursor without a gap, so that whatever the cursor is
\* moved past has been found: by this read, by those before the lookup, or by
\* the one that has moved it further since.
LEMMA CursorMoves ==
    ASSUME NEW snap \in Rows, NEW r \in Rows, NEW a \in snap.members, a \in Agents,
           NEW found \in SUBSET Nat, Page(snap, a) # {},
           1 .. snap.cursor[a] \subseteq found, 1 .. r.cursor[a] \subseteq found
    PROVE  /\ CursorPast(r, a, Page(snap, a)) \in Nat
           /\ 1 .. CursorPast(r, a, Page(snap, a)) \subseteq found \cup Page(snap, a)
<1> DEFINE ids == Page(snap, a)
           from == snap.cursor[a]
           len == Len(snap.msgs)
           top == IF from + Limit <= len THEN from + Limit ELSE len
           k == r.cursor[a]
           m == IF top >= k THEN top ELSE k
<1>1. from \in Nat /\ k \in Nat /\ len \in Nat /\ Limit \in Nat \ {0}
  BY BoundsAssumption DEF Rows
<1>2. ids = {i \in 1 .. len : from < i /\ i <= from + Limit}
  BY DEF Page
<1> HIDE DEF from, len, k
<1>3. top \in ids /\ \A i \in ids : i \in Nat /\ i <= top
  BY <1>1, <1>2
<1>4. \A i \in 1 .. top : i \in 1 .. from \/ i \in ids
  BY <1>1, <1>2, <1>3
<1> HIDE DEF ids, top
<1>5. m \in ids \cup {k} /\ m \in Nat /\ \A i \in ids \cup {k} : i \in Nat /\ i <= m
  BY <1>1, <1>3
<1>6. Max(ids \cup {k}) = m
  <2> HIDE DEF m
  <2> DEFINE S == ids \cup {k}
  <2>1. m \in S /\ m \in Nat /\ S \subseteq Nat /\ \A i \in S : i <= m
    BY <1>5
  <2> HIDE DEF S
  <2>2. Max(S) = m
    BY <2>1, MaxIs
  <2> QED
    BY <2>2 DEF S
<1>7. CursorPast(r, a, ids) = m
  BY <1>6 DEF CursorPast, k
<1>8. 1 .. m \subseteq found \cup ids
  BY <1>1, <1>4 DEF from, k
<1> QED
  BY <1>5, <1>7, <1>8 DEF ids

LEMMA PageIds == ASSUME NEW snap \in Rows, NEW a PROVE Page(snap, a) \in SUBSET Nat
BY DEF Page, PageNewest, Rows

LEMMA ReadKeeps ==
    ASSUME IInv, NEW p \in Procs, Read(p)
    PROVE  IInv'
<1> DEFINE c == Conv(p)
           a == op[p].by
           snap == op[p].snap
           ids == Page(snap, a)
           moves == a \in snap.members /\ ids # {}
           r == IF moves THEN [conv[c] EXCEPT !.cursor[a] = CursorPast(conv[c], a, ids)] ELSE conv[c]
<1>0. PICK o : o = [op[p] EXCEPT !.kind = "return", !.snap = NoRow, !.ids = ids]
  OBVIOUS
<1>1. /\ op[p].kind = "read" /\ UNCHANGED <<plot, now, crashes, heard, revived>>
      /\ last' = a /\ conv' = [conv EXCEPT ![c] = r] /\ op' = [op EXCEPT ![p] = o]
      /\ picked' = [picked EXCEPT ![a][c] = @ \cup ids]
  BY <1>0 DEF Read, At, Set, Becomes, Note
<1>2. /\ op[p].kind \in About /\ a \in Agents /\ snap \in Rows /\ op[p] \in Operations
      /\ OpOK(p, op[p])
  BY <1>1 DEF IInv, TypeOK, OpOK, About, OfAgents
<1>3. /\ c \in Convs /\ op[p].at = {c} /\ conv[c] \in Rows /\ RowOK(conv[c])
      /\ conv[c].status # "absent"
  BY <1>2, TheConv
<1>4. ids \in SUBSET Nat /\ picked[a][c] \in SUBSET Nat
  BY <1>2, <1>3, PageIds DEF IInv, TypeOK
<1>5. /\ picked' \in [Agents -> [Convs -> SUBSET Nat]]
      /\ picked'[a][c] = picked[a][c] \cup ids
      /\ \A b \in Agents, d \in Convs : picked[b][d] \subseteq picked'[b][d]
  BY <1>1, <1>2, <1>3, <1>4 DEF IInv, TypeOK
<1>6. 1 .. snap.cursor[a] \subseteq picked[a][c] /\ 1 .. conv[c].cursor[a] \subseteq picked[a][c]
  BY <1>1, <1>2, <1>3 DEF OpOK, IInv, NothingSkipped
<1>7. moves => /\ CursorPast(conv[c], a, ids) \in Nat
               /\ 1 .. CursorPast(conv[c], a, ids) \subseteq picked[a][c] \cup ids
  BY <1>2, <1>3, <1>4, <1>6, CursorMoves
<1> HIDE DEF ids
<1>8. /\ r \in Rows /\ r.status = conv[c].status /\ r.archived = conv[c].archived
      /\ r.msgs = conv[c].msgs /\ r.injects = conv[c].injects /\ r.name = conv[c].name
      /\ r.until = conv[c].until
      /\ \A b \in Agents : r.cursor[b] = IF moves /\ b = a THEN CursorPast(conv[c], a, ids)
                                          ELSE conv[c].cursor[b]
  BY <1>2, <1>3, <1>7 DEF Rows
<1> HIDE DEF moves, r, c, a, snap
<1>9. RowOK(r) /\ (Live(r) => Live(conv[c]))
  BY <1>3, <1>8 DEF RowOK, Live, Expired
<1>10. conv' \in [Convs -> Rows] /\ conv'[c] = r /\ \A d \in Convs : d # c => conv'[d] = conv[d]
  BY <1>1, <1>3, <1>8 DEF IInv, TypeOK
<1>11. Grown
  BY <1>5, <1>8, <1>10 DEF Grown
<1>12. \A d \in Convs : /\ Live(conv[d])' => Live(conv[d])
                        /\ conv'[d].name = conv[d].name /\ conv'[d].status = conv[d].status
  BY <1>1, <1>8, <1>10 DEF Live, Expired
<1>13. NamesakesRevived'
  BY <1>1, <1>12 DEF IInv, NamesakesRevived, Stored
<1>14. RowsKept
  BY <1>9, <1>10, <1>11, <1>13 DEF RowsKept, IInv
<1>15. NothingSkipped'
  <2> SUFFICES ASSUME NEW d \in Convs, NEW b \in Agents
               PROVE  1 .. conv'[d].cursor[b] \subseteq picked'[b][d]
    BY DEF NothingSkipped
  <2>1. 1 .. conv[d].cursor[b] \subseteq picked'[b][d]
    BY <1>5 DEF IInv, NothingSkipped
  <2>2. CASE d = c /\ b = a /\ moves
    BY <1>5, <1>7, <1>8, <1>10, <2>2
  <2>3. CASE ~ (d = c /\ b = a /\ moves)
    BY <1>8, <1>10, <2>1, <2>3
  <2> QED
    BY <2>2, <2>3
<1>16. /\ o \in Operations /\ o.kind = "return" /\ o.at = {c} /\ o.by = a
       /\ o.name = op[p].name /\ o.todo = op[p].todo
  BY <1>0, <1>2, <1>3, <1>4, NoneStored DEF Operations, a
<1>17. \A d \in op[p].todo : conv'[d].status # "absent"
  BY <1>2, <1>12 DEF OpOK, Operations
<1>18. OpOK(p, o)'
  BY <1>2, <1>3, <1>12, <1>16, <1>17 DEF OpOK, About, OfAgents
<1> QED
  BY <1>1, <1>2, <1>5, <1>14, <1>15, <1>16, <1>18, Goes DEF IInv, TypeOK

LEMMA ReturnKeeps ==
    ASSUME IInv, NEW p \in Procs, Return(p)
    PROVE  IInv'
<1>1. /\ op[p].kind = "return" /\ UNCHANGED <<plot, now, conv, crashes, picked, revived>>
      /\ last' = Expiry /\ op' = [op EXCEPT ![p] = Idle]
      /\ heard' = [heard EXCEPT ![op[p].by][Conv(p)] = @ \cup op[p].ids]
  BY DEF Return, At, Ends, Becomes, Note
<1>2. /\ op[p].kind \in About /\ op[p].by \in Agents /\ op[p].ids \subseteq Nat
  BY <1>1 DEF IInv, TypeOK, OpOK, About, OfAgents
<1>3. heard' \in [Agents -> [Convs -> SUBSET Nat]]
  BY <1>1, <1>2, TheConv DEF IInv, TypeOK
<1>4. RowsKept /\ NothingSkipped'
  BY <1>1, NoRowSet, CursorsStay
<1> QED
  BY <1>1, <1>3, <1>4, Goes, IdleOK, NoneStored DEF IInv, TypeOK

LEMMA NextHolds == IInv /\ [Next]_vars => IInv'
<1> SUFFICES ASSUME IInv, [Next]_vars PROVE IInv'
  OBVIOUS
<1>1. CASE Next
  BY <1>1, TickKeeps, BeginKeeps, EndsKeeps, JoinKeeps, PostKeeps, ReadKeeps, ReturnKeeps,
     SetInjectKeeps, ClearInjectKeeps, EndMarkKeeps, ArchiveKeeps, SweepNextKeeps, CreateKeeps
     DEF Next, Change
<1>2. CASE UNCHANGED vars
  BY <1>2 DEF vars, IInv, TypeOK, OpOK, RowOK, NothingSkipped, NamesakesRevived, Stored, Live, Expired
<1> QED
  BY <1>1, <1>2

LEMMA Invariant == Spec => []IInv
BY InitHolds, NextHolds, PTL DEF Spec

-----------------------------------------------------------------------------
(* What one step makes of a row *)

\* The step of who turns r into n: PostedKept and OutsidersKeptOut of one row.
RowStep(r, n, who) ==
    /\ r.status = "active" /\ n.status = "active" => IsPrefix(r.msgs, n.msgs)
    /\ r.status = "ended" =>
          /\ n.status = "ended" /\ n.msgs = <<>> /\ n.members = r.members
          /\ n.injects \subseteq r.injects
    /\ Live(r) /\ n.status = "ended" /\ who \in Agents => Participates(who, r)
    /\ \A m \in r.injects \ n.injects : m.until > now => who \in {m.by, r.creator, Operator}

LEMMA PrefixKept ==
    ASSUME NEW S, NEW s \in Seq(S), NEW x \in S
    PROVE  IsPrefix(s, s) /\ IsPrefix(s, Append(s, x))
<1>1. Append(s, x) \in Seq(S) /\ Len(Append(s, x)) = Len(s) + 1 /\ Len(s) \in Nat
  OBVIOUS
<1>2. \A i \in 1 .. Len(s) : Append(s, x)[i] = s[i]
  OBVIOUS
<1>3. SubSeq(s, 1, Len(s)) = SubSeq(Append(s, x), 1, Len(s))
  BY <1>1, <1>2
<1> QED
  BY <1>1, <1>3 DEF IsPrefix

\* A row that has the messages, the members and the entries it had.
LEMMA RowStays ==
    ASSUME NEW r \in Rows, RowOK(r), NEW n, NEW who, n.status = r.status, n.msgs = r.msgs,
           n.members = r.members, n.injects = r.injects
    PROVE  RowStep(r, n, who)
<1>1. IsPrefix(r.msgs, n.msgs)
  <2>1. r.msgs \in Seq(Agents)
    BY DEF Rows
  <2>2. CASE Agents = {}
    <3>1. r.msgs = <<>>
      BY <2>1, <2>2
    <3> QED
      BY <2>1, <3>1 DEF IsPrefix
  <2>3. CASE Agents # {}
    BY <2>1, <2>3, PrefixKept
  <2> QED
    BY <2>2, <2>3
<1> QED
  BY <1>1 DEF RowStep, RowOK, Live

\* A change of the row that an operation is about.
LEMMA OneRowStep ==
    ASSUME IInv, NEW p \in Procs, op[p].kind \in About, NEW n,
           conv' = [conv EXCEPT ![Conv(p)] = n], RowStep(conv[Conv(p)], n, last')
    PROVE  \A c \in Convs : RowStep(conv[c], conv'[c], last')
<1>1. conv'[Conv(p)] = n /\ \A c \in Convs : c # Conv(p) => conv'[c] = conv[c]
  BY TheConv DEF IInv, TypeOK
<1>2. \A c \in Convs : RowStep(conv[c], conv[c], last')
  BY RowStays DEF IInv, TypeOK
<1> QED
  BY <1>1, <1>2

\* Each operation that changes a row.
LEMMA ChangeSteps ==
    ASSUME IInv, NEW p \in Procs, Change(p)
    PROVE  \A c \in Convs : RowStep(conv[c], conv'[c], last')
<1> DEFINE c == Conv(p)
<1>1. CASE UNCHANGED conv
  BY <1>1, RowStays DEF IInv, TypeOK
<1>2. ASSUME op[p].kind \in About PROVE c \in Convs /\ conv[c] \in Rows /\ RowOK(conv[c])
  BY <1>2, TheConv
<1>3. CASE Join(p)
  <2> DEFINE n == [conv[c] EXCEPT !.members = @ \cup {op[p].by}]
  <2>1. op[p].kind \in About /\ conv' = [conv EXCEPT ![c] = n] /\ conv[c].status = "active"
    BY <1>3 DEF Join, At, Set, Active, About
  <2>2. n.status = "active" /\ n.msgs = conv[c].msgs /\ n.injects = conv[c].injects
    BY <1>2, <2>1 DEF Rows
  <2>3. RowStep(conv[c], conv[c], last')
    BY <1>2, <2>1, RowStays
  <2>4. RowStep(conv[c], n, last')
    BY <2>1, <2>2, <2>3 DEF RowStep
  <2> QED
    BY <2>1, <2>4, OneRowStep
<1>4. CASE Post(p)
  <2> DEFINE n == [conv[c] EXCEPT !.msgs = Appended(conv[c], op[p].snap, op[p].by), !.until = now + Ttl]
  <2>1. op[p].kind \in About /\ conv' = [conv EXCEPT ![c] = n] /\ conv[c].status = "active"
    BY <1>4 DEF Post, At, Set, Active, About
  <2>2. op[p].by \in Agents
    BY <1>4, <2>1 DEF Post, At, IInv, OpOK, OfAgents
  <2>3. n.status = "active" /\ n.msgs = Append(conv[c].msgs, op[p].by) /\ n.injects = conv[c].injects
    BY <1>2, <2>1 DEF Rows, Appended
  <2>4. IsPrefix(conv[c].msgs, n.msgs)
    <3>1. conv[c].msgs \in Seq(Agents)
      BY <1>2, <2>1 DEF Rows
    <3>2. IsPrefix(conv[c].msgs, Append(conv[c].msgs, op[p].by))
      BY <2>2, <3>1, PrefixKept
    <3> QED
      BY <2>3, <3>2
  <2> HIDE DEF n
  <2>5. RowStep(conv[c], n, last')
    BY <2>1, <2>3, <2>4 DEF RowStep
  <2> QED
    BY <2>1, <2>5, OneRowStep
<1>5. CASE Read(p)
  <2>1. /\ op[p].kind \in About
        /\ \E n : /\ conv' = [conv EXCEPT ![c] = n]
                  /\ n = conv[c] \/ \E cursor : n = [conv[c] EXCEPT !.cursor = cursor]
    BY <1>5 DEF Read, At, Set, About
  <2>2. PICK n : /\ conv' = [conv EXCEPT ![c] = n]
                 /\ n = conv[c] \/ \E cursor : n = [conv[c] EXCEPT !.cursor = cursor]
    BY <2>1
  <2>3. /\ n.status = conv[c].status /\ n.msgs = conv[c].msgs /\ n.members = conv[c].members
        /\ n.injects = conv[c].injects
    BY <1>2, <2>1, <2>2 DEF Rows
  <2>4. RowStep(conv[c], n, last')
    BY <1>2, <2>1, <2>3, RowStays
  <2> QED
    BY <2>1, <2>2, <2>4, OneRowStep
<1>6. CASE SetInject(p)
  <2>1. /\ op[p].kind \in About /\ conv[c].status = "active"
        /\ \E entry : conv' = [conv EXCEPT ![c] =
             [conv[c] EXCEPT !.injects = {m \in @ : m.until > now} \cup {entry}]]
    BY <1>6 DEF SetInject, At, Set, Active, About
  <2>2. PICK entry : conv' = [conv EXCEPT ![c] =
             [conv[c] EXCEPT !.injects = {m \in @ : m.until > now} \cup {entry}]]
    BY <2>1
  <2> DEFINE n == [conv[c] EXCEPT !.injects = {m \in @ : m.until > now} \cup {entry}]
  <2>3. /\ n.status = "active" /\ n.msgs = conv[c].msgs
        /\ n.injects = {m \in conv[c].injects : m.until > now} \cup {entry}
    BY <1>2, <2>1 DEF Rows
  <2>4. RowStep(conv[c], conv[c], last')
    BY <1>2, <2>1, RowStays
  <2> HIDE DEF n
  <2>5. RowStep(conv[c], n, last')
    BY <2>1, <2>3, <2>4 DEF RowStep
  <2> QED
    BY <2>1, <2>2, <2>5, OneRowStep DEF n
<1>7. CASE ClearInject(p)
  <2>1. op[p].kind \in About /\ last' = op[p].by
    BY <1>7 DEF ClearInject, At, Note, About
  <2>2. PICK gone : /\ conv' = [conv EXCEPT ![c] = [conv[c] EXCEPT !.injects = @ \ gone]]
                    /\ gone \subseteq Clearable(op[p].by, conv[c])
    <3> DEFINE all == Clearable(op[p].by, conv[c])
               without(gone) == [conv[c] EXCEPT !.injects = @ \ gone]
    <3>1. \/ conv' = [conv EXCEPT ![c] = without(all)]
          \/ \E m \in all : conv' = [conv EXCEPT ![c] = without({m})]
      BY <1>7 DEF ClearInject, Set
    <3>2. \A m \in all : {m} \subseteq all
      OBVIOUS
    <3> HIDE DEF all
    <3> QED
      BY <3>1, <3>2 DEF all
  <2> DEFINE n == [conv[c] EXCEPT !.injects = @ \ gone]
  <2>3. /\ n.status = conv[c].status /\ n.msgs = conv[c].msgs /\ n.members = conv[c].members
        /\ n.injects = conv[c].injects \ gone
    BY <1>2, <2>1 DEF Rows
  <2>4. \A m \in gone : last' \in {m.by, conv[c].creator, Operator}
    BY <2>1, <2>2 DEF Clearable
  <2>5. RowStep(conv[c], conv[c], last')
    BY <1>2, <2>1, RowStays
  <2> HIDE DEF n
  <2>6. RowStep(conv[c], n, last')
    BY <2>3, <2>4, <2>5 DEF RowStep
  <2> QED
    BY <2>1, <2>2, <2>6, OneRowStep DEF n
<1>8. CASE EndMark(p) /\ Active(p)
  <2> DEFINE n == EndedRow(conv[c])
  <2>1. /\ op[p].kind \in About /\ conv' = [conv EXCEPT ![c] = n] /\ last' = op[p].by
        /\ MayEnd(op[p].by, conv[c], op[p].snap) /\ conv[c].status = "active"
    BY <1>8 DEF EndMark, At, Set, Note, About, Active
  <2>2. n.status = "ended" /\ n.injects = conv[c].injects
    BY <1>2, <2>1 DEF Rows, EndedRow
  <2> HIDE DEF n
  <2>3. RowStep(conv[c], n, last')
    BY <2>1, <2>2 DEF RowStep, MayEnd
  <2> QED
    BY <2>1, <2>3, OneRowStep
<1>9. CASE Archive(p)
  <2> DEFINE n == [conv[c] EXCEPT !.archived = TRUE]
  <2>1. op[p].kind \in About /\ conv' = [conv EXCEPT ![c] = n]
    BY <1>9 DEF Archive, At, Set, About
  <2>2. /\ n.status = conv[c].status /\ n.msgs = conv[c].msgs /\ n.members = conv[c].members
        /\ n.injects = conv[c].injects
    BY <1>2, <2>1 DEF Rows
  <2>3. RowStep(conv[c], n, last')
    BY <1>2, <2>1, <2>2, RowStays
  <2> QED
    BY <2>1, <2>3, OneRowStep
<1>10. ASSUME NEW d \in plot.convs, Create(p, d)
       PROVE  \A e \in Convs : RowStep(conv[e], conv'[e], last')
  <2>1. /\ d \in Convs => conv[d].status = "absent"
        /\ \A e \in Convs : e # d => conv'[e] = conv[e]
    BY <1>10 DEF Create, Stored, IInv, TypeOK
  <2>2. d \in Convs => conv[d].injects = {}
    BY <2>1 DEF IInv, RowOK
  <2>3. d \in Convs => RowStep(conv[d], conv'[d], last')
    BY <2>1, <2>2 DEF RowStep, Live
  <2>4. \A e \in Convs : RowStep(conv[e], conv[e], last')
    BY RowStays DEF IInv, TypeOK
  <2> QED
    BY <2>1, <2>3, <2>4
<1>11. Return(p) \/ SweepNext(p) \/ (EndMark(p) /\ ~Active(p)) => UNCHANGED conv
  BY DEF Return, SweepNext, EndMark
<1> QED
  BY <1>1, <1>3, <1>4, <1>5, <1>6, <1>7, <1>8, <1>9, <1>10, <1>11 DEF Change

LEMMA StepHolds ==
    ASSUME IInv, [Next]_vars
    PROVE  \A c \in Convs : RowStep(conv[c], conv'[c], last')
<1>1. CASE UNCHANGED conv
  BY <1>1, RowStays DEF IInv, TypeOK
<1>2. ASSUME NEW p \in Procs, Begin(p) \/ Refuse(p) \/ Crash(p) PROVE UNCHANGED conv
  BY <1>2 DEF Begin, Resolve, PostFindsExpired, SweepList, Refuse, Crash
<1> QED
  BY <1>1, <1>2, ChangeSteps DEF Next, Tick, vars

-----------------------------------------------------------------------------
(* Theorems *)

\* Rows, operations and histories keep their shape.
THEOREM TypeCorrect == Spec => []TypeOK
<1>1. IInv => TypeOK
  BY DEF IInv
<1> QED
  BY <1>1, Invariant, PTL

\* However many processes read for an agent, its cursor is past nothing that no
\* read of it found (coordination.read_messages).
THEOREM BacklogKept == Spec => []NothingSkipped
<1>1. IInv => NothingSkipped
  BY DEF IInv
<1> QED
  BY <1>1, Invariant, PTL

\* A name is used twice only where a post revived a conversation
\* (coordination.create_conversation).
THEOREM NamesReused == Spec => []NamesakesRevived
<1>1. IInv => NamesakesRevived
  BY DEF IInv
<1> QED
  BY <1>1, Invariant, PTL

\* A posted message stays until the conversation ends, and an end is final
\* (coordination.post_message, coordination.end_conversation).
THEOREM PostsStay == Spec => PostedKept
<1>1. IInv /\ [Next]_vars =>
        [\A c \in Convs :
          /\ conv[c].status = "active" /\ conv'[c].status = "active"
                => IsPrefix(conv[c].msgs, conv'[c].msgs)
          /\ conv[c].status = "ended" =>
                /\ conv'[c].status = "ended" /\ conv'[c].msgs = <<>>
                /\ conv'[c].members = conv[c].members
                /\ conv'[c].injects \subseteq conv[c].injects]_vars
  BY StepHolds DEF RowStep
<1> QED
  BY <1>1, Invariant, PTL DEF Spec, PostedKept

\* An agent who does not take part ends no live conversation, and takes no
\* standing message of another away (coordination.end_conversation,
\* coordination.clear_inject_messages).
THEOREM OutsidersStayOut == Spec => OutsidersKeptOut
<1>1. IInv /\ [Next]_vars =>
        [\A c \in Convs :
          /\ Live(conv[c]) /\ conv'[c].status = "ended" /\ last' \in Agents
                => Participates(last', conv[c])
          /\ \A m \in conv[c].injects \ conv'[c].injects :
                m.until > now => last' \in {m.by, conv[c].creator, Operator}]_vars
  BY StepHolds DEF RowStep
<1> QED
  BY <1>1, Invariant, PTL DEF Spec, OutsidersKeptOut

=============================================================================
