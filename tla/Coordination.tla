---------------------------- MODULE Coordination ----------------------------
(***************************************************************************)
(* Short-lived conversations of agents: members with read cursors,         *)
(* messages, standing messages for the hooks, an expiry that every post    *)
(* slides, and the sweep that ends what expired.                           *)
(*                                                                         *)
(* Every operation looks its conversation up first and then changes the    *)
(* row in a BEGIN IMMEDIATE transaction, which sees it fresh; ending and   *)
(* archiving are two transactions.  A conversation is addressed by id or   *)
(* by name; either way the lookup returns one that is stored.  A message   *)
(* is its author: ids count from 1 and the n-th message has id n.          *)
(***************************************************************************)
EXTENDS Naturals, Sequences, SequencesExt

CONSTANTS
    Agents,
    Operator,   \* whoever forces an operation: not checked
    Expiry,     \* ends what expired: not checked
    Procs,      \* the processes
    Cron,       \* those of the cron pass
    AgentOf,    \* the agent that each of the others runs for
    Convs,      \* the pool of conversation ids
    Names,
    NoName,
    Limit,      \* the messages one read returns
    Ttl,        \* the lifetime of conversations and standing messages
    Plots,      \* the bounds of the behaviours: each follows one of them
    MaxInject   \* bound of the ids of standing messages

AllKinds == {"create", "join", "post", "read", "set", "clear", "end"}

ASSUME ActorsAssumption ==
    /\ Operator \notin Agents /\ Expiry \notin Agents \cup {Operator}
    /\ Cron \subseteq Procs
    /\ AgentOf \in [Procs \ Cron -> Agents]
\* The operations that each process runs, the conversations there will be, and
\* bounds of the messages of one, of the clock and of the processes that die.
ASSUME PlotsAssumption ==
    Plots \subseteq [kinds : [Procs -> SUBSET AllKinds], convs : SUBSET Convs,
                     posts : Nat, time : Nat, crashes : Nat]
ASSUME NamesAssumption == NoName \notin Names
ASSUME BoundsAssumption ==
    /\ Limit \in Nat \ {0} /\ Ttl \in Nat
    /\ MaxInject \in Nat

VARIABLES
    plot,       \* the bounds of this behaviour, chosen at the start
    now,        \* the wall clock
    conv,       \* the conversation rows
    op,         \* what each process is doing
    crashes,    \* the processes that died so far
    picked,     \* history: the message ids that reads of an agent found
    heard,      \* history: those that its reads returned
    revived,    \* history: the conversations that a post found expired
    last        \* history: who made the last change

vars == <<plot, now, conv, op, crashes, picked, heard, revived, last>>

-----------------------------------------------------------------------------
(* Rows *)

Injects == [id : Nat, by : Agents, until : Nat]

Rows == [status : {"absent", "active", "ended"}, archived : BOOLEAN,
         name : Names \cup {NoName}, creator : Agents \cup {Operator},
         members : SUBSET Agents, cursor : [Agents -> Nat], msgs : Seq(Agents),
         until : Nat, injects : SUBSET Injects]

NoRow == [status |-> "absent", archived |-> FALSE, name |-> NoName,
          creator |-> Operator, members |-> {}, cursor |-> [a \in Agents |-> 0],
          msgs |-> <<>>, until |-> 0, injects |-> {}]

Stored == {c \in Convs : conv[c].status # "absent"}

Expired(r) == r.until <= now

\* coordination._is_live, of a row that is not archived
Live(r) == r.status = "active" /\ ~Expired(r)

\* coordination._participants, _require_participant.  Every surface names a
\* creator, so there is somebody to check against.
Participates(a, r) == a \in r.members \cup {r.creator}

ExpiredActive == {c \in Stored : ~conv[c].archived /\ conv[c].status = "active"
                                 /\ Expired(conv[c])}

-----------------------------------------------------------------------------
(* Processes *)

Idle == [kind |-> "idle", snap |-> NoRow, at |-> {}, todo |-> {}, by |-> Expiry,
         name |-> NoName, ids |-> {}]

At(p, kind) == op[p].kind = kind
Conv(p) == CHOOSE c \in op[p].at : TRUE

Becomes(p, o) == op' = [op EXCEPT ![p] = o]
Ends(p) == Becomes(p, Idle)
Note(who) == last' = who
Keep == UNCHANGED <<plot, now, crashes, picked, heard, revived>>

Init ==
    /\ plot \in Plots
    /\ now = 0
    /\ conv = [c \in Convs |-> NoRow]
    /\ op = [p \in Procs |-> Idle]
    /\ crashes = 0
    /\ picked = [a \in Agents |-> [c \in Convs |-> {}]]
    /\ heard = [a \in Agents |-> [c \in Convs |-> {}]]
    /\ revived = {}
    /\ last = Expiry

-----------------------------------------------------------------------------
(* Lookups *)

\* What the operation uses later of the row it looked up.
LookedUp(kind, c) == IF kind \in {"post", "read", "end"} THEN conv[c] ELSE NoRow

\* coordination.get_conversation, before a change of the row.
Resolve(p, kind, c, by) ==
    /\ At(p, "idle") /\ p \notin Cron /\ kind \in plot.kinds[p] /\ c \in Stored
    /\ by = AgentOf[p] \/ (by = Operator /\ kind \in {"set", "clear", "end"})
    /\ kind = "end" => conv[c].status = "active"
    /\ kind = "post" => conv[c].status = "active" /\ ~Expired(conv[c])
    /\ Becomes(p, [Idle EXCEPT !.kind = kind, !.snap = LookedUp(kind, c), !.at = {c}, !.by = by])
    /\ Note(Expiry)
    /\ UNCHANGED conv
    /\ Keep

\* post_message: a conversation found expired is ended, and not posted to.
PostFindsExpired(p, c) ==
    /\ At(p, "idle") /\ p \notin Cron /\ "post" \in plot.kinds[p] /\ c \in Stored
    /\ conv[c].status = "active" /\ Expired(conv[c])
    /\ Becomes(p, [Idle EXCEPT !.kind = "end", !.at = {c}])
    /\ Note(Expiry)
    /\ UNCHANGED conv
    /\ Keep

-----------------------------------------------------------------------------
(* Changes.  Each is the transaction of its operation, and sees the row     *)
(* fresh.                                                                   *)

\* The status is checked in the transaction again.
ActiveAsRead(p) == op[p].snap.status = "active"
Active(p) == conv[Conv(p)].status = "active"

Set(p, r) == conv' = [conv EXCEPT ![Conv(p)] = r]

\* join_conversation: a member who joins again keeps its cursor.
Join(p) ==
    /\ At(p, "join") /\ Active(p)
    /\ Set(p, [conv[Conv(p)] EXCEPT !.members = @ \cup {op[p].by}])
    /\ Ends(p) /\ Note(op[p].by) /\ Keep

\* The messages after a post.
AppendedAsRead(r, snap, who) == Append(snap.msgs, who)
Appended(r, snap, who) == Append(r.msgs, who)

\* post_message: the expiry slides, whether or not it has passed meanwhile.
Post(p) ==
    /\ At(p, "post") /\ Active(p)
    /\ Len(conv[Conv(p)].msgs) < plot.posts
    /\ LET r == conv[Conv(p)] IN
         /\ Set(p, [r EXCEPT !.msgs = Appended(r, op[p].snap, op[p].by),
                             !.until = now + Ttl])
         /\ revived' = IF Expired(r) THEN revived \cup {Conv(p)} ELSE revived
    /\ Ends(p) /\ Note(op[p].by)
    /\ UNCHANGED <<plot, now, crashes, picked, heard>>

\* What a read finds: the oldest beyond the cursor of a member, else the newest.
PageNewest(snap, a) == {i \in 1 .. Len(snap.msgs) : Len(snap.msgs) - Limit < i}
Page(snap, a) ==
    IF a \in snap.members
    THEN {i \in 1 .. Len(snap.msgs) : snap.cursor[a] < i /\ i <= snap.cursor[a] + Limit}
    ELSE PageNewest(snap, a)

\* read_messages, of a member: the cursor moves past what was found, unless
\* another read of its agent moved it further.
CursorPast(r, a, ids) == Max(ids \cup {r.cursor[a]})

Read(p) ==
    /\ At(p, "read")
    /\ LET a == op[p].by
           ids == Page(op[p].snap, a)
           r == conv[Conv(p)]
       IN  /\ Set(p, IF a \in op[p].snap.members /\ ids # {}
                     THEN [r EXCEPT !.cursor[a] = CursorPast(r, a, ids)] ELSE r)
           /\ picked' = [picked EXCEPT ![a][Conv(p)] = @ \cup ids]
           /\ Becomes(p, [op[p] EXCEPT !.kind = "return", !.snap = NoRow, !.ids = ids])
    /\ Note(op[p].by)
    /\ UNCHANGED <<plot, now, crashes, heard, revived>>

\* The caller gets the messages.
Return(p) ==
    /\ At(p, "return")
    /\ heard' = [heard EXCEPT ![op[p].by][Conv(p)] = @ \cup op[p].ids]
    /\ Ends(p) /\ Note(Expiry)
    /\ UNCHANGED <<plot, now, conv, crashes, picked, revived>>

\* set_inject_message; expired entries go when the list is written.
SetInject(p) ==
    /\ At(p, "set") /\ Active(p)
    /\ LET r == conv[Conv(p)]
           id == 1 + Max({0} \cup {m.id : m \in r.injects})
       IN  /\ id <= MaxInject
           /\ op[p].by # Operator => Participates(op[p].by, r)
           /\ Set(p, [r EXCEPT !.injects =
                        {m \in @ : m.until > now}
                          \cup {[id |-> id, by |-> AgentOf[p], until |-> now + Ttl]}])
    /\ Ends(p) /\ Note(op[p].by) /\ Keep

\* clear_inject_messages: who may clear which.
ClearableByMember(by, r) == {m \in r.injects : by = Operator \/ Participates(by, r)}
Clearable(by, r) == {m \in r.injects : by = Operator \/ by = r.creator \/ m.by = by}

\* One by its id, or all that it may clear.
ClearInject(p) ==
    /\ At(p, "clear")
    /\ LET r == conv[Conv(p)] IN
         /\ op[p].by # Operator => Participates(op[p].by, r)
         /\ \/ Set(p, [r EXCEPT !.injects = @ \ Clearable(op[p].by, r)])
            \/ \E m \in Clearable(op[p].by, r) : Set(p, [r EXCEPT !.injects = @ \ {m}])
    /\ Ends(p) /\ Note(op[p].by) /\ Keep

-----------------------------------------------------------------------------
(* Ending *)

\* end_conversation: only a participant ends a live conversation; expiry and
\* the operator are not checked.
MayEndAsRead(by, r, snap) == by \notin Agents \/ ~Live(snap) \/ Participates(by, r)
MayEnd(by, r, snap) == by \notin Agents \/ ~Live(r) \/ Participates(by, r)

EndedRow(r) == [r EXCEPT !.status = "ended", !.msgs = <<>>]

\* One that was ended meanwhile stays as it is.
EndMark(p) ==
    /\ At(p, "end")
    /\ IF Active(p)
       THEN /\ MayEnd(op[p].by, conv[Conv(p)], op[p].snap)
            /\ Set(p, EndedRow(conv[Conv(p)]))
            /\ Becomes(p, [op[p] EXCEPT !.kind = "archive", !.snap = NoRow])
       ELSE /\ UNCHANGED conv
            /\ Becomes(p, [op[p] EXCEPT !.kind = "sweep", !.at = {}, !.snap = NoRow])
    /\ Note(op[p].by) /\ Keep

\* The second transaction.
Archive(p) ==
    /\ At(p, "archive")
    /\ Set(p, [conv[Conv(p)] EXCEPT !.archived = TRUE])
    /\ Becomes(p, [op[p] EXCEPT !.kind = "sweep", !.at = {}, !.snap = NoRow])
    /\ Note(op[p].by) /\ Keep

\* cleanup_expired_conversations lists the expired and ends each.
ListedLive == {c \in Stored : ~conv[c].archived /\ Live(conv[c]) /\ Expired(conv[c])}
Listed == ExpiredActive

SweepList(p, name) ==
    /\ At(p, "idle")
    /\ IF p \in Cron THEN name = NoName ELSE name # NoName /\ "create" \in plot.kinds[p]
    /\ Becomes(p, [Idle EXCEPT !.kind = "sweep", !.todo = Listed, !.name = name])
    /\ Note(Expiry)
    /\ UNCHANGED conv
    /\ Keep

SweepNext(p) ==
    /\ At(p, "sweep")
    /\ IF op[p].todo # {}
       THEN \E c \in op[p].todo :
              Becomes(p, [op[p] EXCEPT !.kind = "end", !.at = {c},
                                       !.todo = @ \ {c}])
       ELSE Becomes(p, IF op[p].name = NoName THEN Idle
                       ELSE [op[p] EXCEPT !.kind = "create"])
    /\ Note(Expiry)
    /\ UNCHANGED conv
    /\ Keep

LiveNamed(name) == {c \in Stored : ~conv[c].archived /\ Live(conv[c])
                                   /\ conv[c].name = name}

\* create_conversation sweeps first; the name is looked up in the transaction
\* that inserts.
NameFreeLater(name) == TRUE
NameFree(name) == LiveNamed(name) = {}

Create(p, c) ==
    /\ At(p, "create") /\ c \notin Stored
    /\ NameFree(op[p].name)
    /\ conv' = [conv EXCEPT ![c] =
                  [NoRow EXCEPT !.status = "active", !.name = op[p].name,
                                !.creator = AgentOf[p], !.until = now + Ttl,
                                !.members = {AgentOf[p]}]]
    /\ Ends(p) /\ Note(AgentOf[p]) /\ Keep

-----------------------------------------------------------------------------
\* The operation raises, or its process does not go on.
Refuse(p) ==
    /\ op[p].kind \in {"join", "post", "set", "clear", "end", "create"}
    /\ op[p].by # Expiry \/ At(p, "create")
    /\ Ends(p) /\ Note(Expiry)
    /\ UNCHANGED conv
    /\ Keep

Crash(p) ==
    /\ ~At(p, "idle") /\ crashes < plot.crashes
    /\ crashes' = crashes + 1
    /\ Ends(p) /\ Note(Expiry)
    /\ UNCHANGED <<plot, now, conv, picked, heard, revived>>

Tick ==
    /\ now < plot.time
    /\ now' = now + 1
    /\ Note(Expiry)
    /\ UNCHANGED <<plot, conv, op, crashes, picked, heard, revived>>

Change(p) ==
    \/ Join(p) \/ Post(p) \/ Read(p) \/ Return(p) \/ SetInject(p) \/ ClearInject(p)
    \/ EndMark(p) \/ Archive(p) \/ SweepNext(p) \/ \E c \in plot.convs : Create(p, c)

Begin(p) ==
    \/ \E c \in Convs :
         \/ PostFindsExpired(p, c)
         \/ \E kind \in AllKinds \ {"create"}, by \in Agents \cup {Operator} :
              Resolve(p, kind, c, by)
    \/ \E name \in Names \cup {NoName} : SweepList(p, name)

Next ==
    \/ Tick
    \/ \E p \in Procs : Begin(p) \/ Change(p) \/ Refuse(p) \/ Crash(p)

Spec == Init /\ [][Next]_vars

\* The scheduler runs the cron pass again and again; agents owe nothing.
FairSpec == Spec /\ \A p \in Cron : WF_vars(Begin(p) \/ Change(p))

-----------------------------------------------------------------------------
(* Properties *)

\* Rows and operations keep their shape.
TypeOK ==
    /\ plot \in Plots /\ now \in Nat
    /\ conv \in [Convs -> Rows]
    /\ \A p \in Procs :
         /\ op[p].kind \in AllKinds \cup {"idle", "return", "archive", "sweep"}
         /\ op[p].snap \in Rows
         /\ op[p].at \subseteq Convs /\ op[p].todo \subseteq Convs
         /\ op[p].by \in Agents \cup {Operator, Expiry}
         /\ op[p].name \in Names \cup {NoName}
         /\ op[p].ids \subseteq Nat
    /\ crashes \in 0 .. plot.crashes
    /\ picked \in [Agents -> [Convs -> SUBSET Nat]]
    /\ heard \in [Agents -> [Convs -> SUBSET Nat]]
    /\ revived \subseteq Convs
    /\ last \in Agents \cup {Operator, Expiry}

\* A cursor is never beyond a message that no read of its agent found, however
\* many processes read for one agent (coordination.read_messages: a backlog
\* larger than the limit is never skipped).
NothingSkipped ==
    \A c \in Convs, a \in Agents : 1 .. conv[c].cursor[a] \subseteq picked[a][c]

\* A message that was posted stays, with its id, until the conversation ends,
\* whoever posts at the same time (coordination.post_message).  What has ended
\* stays ended and empty, and nobody joins it, although they looked it up while
\* it was active (coordination.end_conversation).
PostedKept ==
    [][\A c \in Convs :
         /\ conv[c].status = "active" /\ conv'[c].status = "active"
               => IsPrefix(conv[c].msgs, conv'[c].msgs)
         /\ conv[c].status = "ended" =>
               /\ conv'[c].status = "ended" /\ conv'[c].msgs = <<>>
               /\ conv'[c].members = conv[c].members
               /\ conv'[c].injects \subseteq conv[c].injects]_vars

\* Another agent ends a conversation only when it has expired by then
\* (coordination.end_conversation), and nobody but its setter, the creator and
\* the operator takes a standing message away before its time
\* (coordination.clear_inject_messages).
OutsidersKeptOut ==
    [][\A c \in Convs :
         /\ Live(conv[c]) /\ conv'[c].status = "ended" /\ last' \in Agents
               => Participates(last', conv[c])
         /\ \A m \in conv[c].injects \ conv'[c].injects :
               m.until > now => last' \in {m.by, conv[c].creator, Operator}]_vars

\* Two live conversations have one name only when a post has brought one of
\* them back from expiry (coordination.create_conversation).
NamesakesRevived ==
    \A c, d \in Stored :
        (c # d /\ Live(conv[c]) /\ Live(conv[d]) /\ conv[c].name = conv[d].name)
            => {c, d} \cap revived # {}

\* An expired conversation does not stay: it is ended, or a post slides its
\* expiry (coordination.cleanup_expired_conversations).
ExpiredEnded == \A c \in Convs : c \in ExpiredActive ~> c \notin ExpiredActive
-----------------------------------------------------------------------------
(* What the documentation promises and the code does not do: TLC refutes   *)
(* each of these.                                                          *)

\* One live conversation has a name (coordination.create_conversation).
OneLivePerName ==
    \A c, d \in Stored :
        (Live(conv[c]) /\ Live(conv[d]) /\ conv[c].name = conv[d].name) => c = d

\* A live conversation is ended by a participant, or by the operator
\* (docs/mcp-agent-guide.md on coord_end).
LiveEndedByParticipant ==
    [][\A c \in Convs :
         (Live(conv[c]) /\ conv'[c].status = "ended")
            => last' = Operator \/ Participates(last', conv[c])]_vars

\* Ending archives: a conversation does not stay among the active nodes for
\* ever once its messages are gone (coordination.end_conversation).
EndedArchived == \A c \in Convs : conv[c].status = "ended" ~> conv[c].archived

\* The cursor is past no message that the agent was not given, or is about to
\* be (coordination.read_messages).
CursorPastReturned ==
    \A c \in Convs, a \in Agents :
        1 .. conv[c].cursor[a] \subseteq
            heard[a][c] \cup UNION {op[p].ids : p \in {q \in Procs \ Cron :
                                                     AgentOf[q] = a /\ op[q].at = {c}}}
=============================================================================
