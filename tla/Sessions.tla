------------------------------ MODULE Sessions ------------------------------
(***************************************************************************)
(* Session tags: sessions.py, the lookups of store.py that it uses, and    *)
(* the migration that made active tags unique (Store._migrate_v12).        *)
(*                                                                         *)
(* The rows are those of one tag name in one project: neither a lookup by  *)
(* name nor the unique index relates two names.  Every handler first looks *)
(* the tag up, outside any transaction, and then changes the row it found  *)
(* in a transaction of its own that reads the row again.                   *)
(***************************************************************************)
EXTENDS Naturals, Sequences

CONSTANTS
    Tags,        \* the rows that may be created
    Clients,     \* the processes: tools, shells and hooks
    Captured,    \* the knowledge nodes that hooks link to a tag
    Items,       \* the entries of a tag's list of remaining work
    MaxSegments  \* bounds how often a segment is opened

ASSUME SegmentsAssumption == MaxSegments \in Nat

VARIABLES
    indexed,     \* the unique index of active tags exists
    tag,         \* the rows of type session
    edge,        \* the edges context_of, from a node to a tag
    call         \* the call each process is in, with the row it looked up

sessionVars == <<indexed, tag, edge, call>>

-----------------------------------------------------------------------------
(* Rows *)

Segments == [open : BOOLEAN, artifacts : SUBSET Captured]

TagRows ==
    [status : {"none", "active", "paused", "completed"},
     segments : Seq(Segments), linked : SUBSET Captured, remaining : SUBSET Items]

NoTag == [status |-> "none", segments |-> <<>>, linked |-> {}, remaining |-> {}]

OpenSegment == [open |-> TRUE, artifacts |-> {}]

\* start_tag opens a segment when it is given a focus.
NewTag(focused, remaining) ==
    [status |-> "active", segments |-> IF focused THEN <<OpenSegment>> ELSE <<>>,
     linked |-> {}, remaining |-> remaining]

EachSegment(r, Change(_)) == [i \in DOMAIN r.segments |-> Change(r.segments[i])]
Closed(segment) == [segment EXCEPT !.open = FALSE]

WithSegment(r) == [r EXCEPT !.segments = Append(EachSegment(r, Closed), OpenSegment)]

WithLink(r, n) ==
    LET Filed(segment) == IF segment.open THEN [segment EXCEPT !.artifacts = @ \cup {n}]
                                          ELSE segment
    IN  IF n \in r.linked THEN r
        ELSE [r EXCEPT !.linked = @ \cup {n}, !.segments = EachSegment(r, Filed)]

CompletedTag(r) == [r EXCEPT !.status = "completed", !.segments = EachSegment(r, Closed)]

\* The index is over the active rows.
ActiveTags == {t \in Tags : tag[t].status = "active"}
IndexNever(t) == TRUE
IndexAllows(t) == ActiveTags \subseteq {t}

\* Store.get_session_tag_by_name: an active row before a paused one before a
\* completed one.  Among those of a kind it takes the latest, by times of
\* whole seconds; here it takes any.
Rank(t) == CASE tag[t].status = "active" -> 0
             [] tag[t].status = "paused" -> 1
             [] tag[t].status = "completed" -> 2
             [] OTHER -> 3

Found(t) == tag[t].status # "none" /\ \A u \in Tags : Rank(t) <= Rank(u)

-----------------------------------------------------------------------------
(* Calls *)

NoCall == [what |-> "none", t |-> {}, seen |-> NoTag, n |-> {}]

Whats == {"start", "update", "segment", "link", "edge", "pause", "complete", "resume"}

Calls == [what : Whats \cup {"none"}, t : SUBSET Tags, seen : TagRows, n : SUBSET Captured]

InCall(p, what) == call[p].what = what
CalledTag(p) == CHOOSE t \in Tags : call[p].t = {t}

SessionsInit ==
    /\ indexed = FALSE
    /\ tag \in [Tags -> {[NoTag EXCEPT !.status = s] : s \in {"none", "active", "paused", "completed"}}]
    /\ edge = {}
    /\ call = [p \in Clients |-> NoCall]

\* Every open of the store migrates it before anything else.  Of the active
\* rows of a name the latest stays active.
Deduplicated(keep) ==
    [t \in Tags |-> IF t \in ActiveTags \ {keep} THEN [tag[t] EXCEPT !.status = "paused"]
                    ELSE tag[t]]

MigrateV12 ==
    /\ ~indexed
    /\ indexed' = TRUE
    /\ tag' = IF ActiveTags = {} THEN tag ELSE Deduplicated(CHOOSE t \in ActiveTags : TRUE)
    /\ UNCHANGED <<edge, call>>

\* get_tag; a hook's link looks for an active tag of the project first
\* (sessions.get_active_tag).  Resume and start look at the status they found.
Proceeds(what, status) ==
    CASE what = "link" -> status = "active"
      [] what = "resume" -> status = "paused"
      [] OTHER -> TRUE

Lookup(p) ==
    /\ indexed
    /\ call[p] = NoCall
    /\ \E what \in Whats \ {"start", "edge"}, t \in Tags :
         /\ Found(t) /\ Proceeds(what, tag[t].status)
         /\ \E n \in IF what = "link" THEN {{c} : c \in Captured} ELSE {{}} :
              call' = [call EXCEPT ![p] = [what |-> what, t |-> {t}, seen |-> tag[t], n |-> n]]
    /\ UNCHANGED <<indexed, tag, edge>>

StartLookup(p) ==
    /\ indexed
    /\ call[p] = NoCall
    /\ ActiveTags = {}
    /\ call' = [call EXCEPT ![p] = [NoCall EXCEPT !.what = "start"]]
    /\ UNCHANGED <<indexed, tag, edge>>

Returns(p) == call' = [call EXCEPT ![p] = NoCall]

\* The insertion; the index turns a second active tag into an error.
Start(p) ==
    /\ InCall(p, "start")
    /\ \/ \E t \in Tags, focused \in BOOLEAN, remaining \in SUBSET Items :
            /\ tag[t].status = "none" /\ IndexAllows(t)
            /\ focused => MaxSegments > 0
            /\ tag' = [tag EXCEPT ![t] = NewTag(focused, remaining)]
       \/ ActiveTags # {} /\ UNCHANGED tag
    /\ Returns(p)
    /\ UNCHANGED <<indexed, edge>>

\* Store.atomic_extra_update changes the row as it is now.
AsLookedUp(p) == call[p].seen
AsItIs(p) == tag[CalledTag(p)]

Becomes(p, r) == tag' = [tag EXCEPT ![CalledTag(p)] = r]

\* The list is replaced, extended and reduced.  The focus is text, and so is
\* the description, which is a commit of its own.
Update(p) ==
    /\ InCall(p, "update")
    /\ \E replaced \in {{}} \cup {{i} : i \in Items}, added, removed \in SUBSET Items :
         Becomes(p, [AsItIs(p) EXCEPT !.remaining =
                       ((IF replaced = {} THEN @ ELSE replaced) \cup added) \ removed])
    /\ Returns(p)
    /\ UNCHANGED <<indexed, edge>>

AddSegment(p) ==
    /\ InCall(p, "segment")
    /\ Len(AsItIs(p).segments) < MaxSegments
    /\ Becomes(p, WithSegment(AsItIs(p)))
    /\ Returns(p)
    /\ UNCHANGED <<indexed, edge>>

Link(p) ==
    /\ InCall(p, "link")
    /\ \E n \in call[p].n : Becomes(p, WithLink(AsItIs(p), n))
    /\ call' = [call EXCEPT ![p].what = "edge", ![p].seen = NoTag]
    /\ UNCHANGED <<indexed, edge>>

LinkEdge(p) ==
    /\ InCall(p, "edge")
    /\ edge' = edge \cup {<<n, CalledTag(p)>> : n \in call[p].n}
    /\ Returns(p)
    /\ UNCHANGED <<indexed, tag>>

Pause(p) ==
    /\ InCall(p, "pause")
    /\ Becomes(p, [AsItIs(p) EXCEPT !.status = "paused"])
    /\ Returns(p)
    /\ UNCHANGED <<indexed, edge>>

Complete(p) ==
    /\ InCall(p, "complete")
    /\ Becomes(p, CompletedTag(AsItIs(p)))
    /\ Returns(p)
    /\ UNCHANGED <<indexed, edge>>

\* The status is not looked at again, but the index may refuse the change.
Resume(p) ==
    /\ InCall(p, "resume")
    /\ IF IndexAllows(CalledTag(p)) THEN Becomes(p, [AsItIs(p) EXCEPT !.status = "active"])
                                    ELSE UNCHANGED tag
    /\ Returns(p)
    /\ UNCHANGED <<indexed, edge>>

SessionsNext ==
    \/ MigrateV12
    \/ \E p \in Clients :
         \/ Lookup(p) \/ StartLookup(p)
         \/ Start(p) \/ Update(p) \/ AddSegment(p) \/ Link(p) \/ LinkEdge(p)
         \/ Pause(p) \/ Complete(p) \/ Resume(p)

SessionsSpec == SessionsInit /\ [][SessionsNext]_sessionVars

-----------------------------------------------------------------------------
(* Properties *)

\* The rows and calls are what the code can store.
SessionsTypeOK ==
    /\ indexed \in BOOLEAN
    /\ tag \in [Tags -> TagRows]
    /\ edge \subseteq Captured \X Tags
    /\ call \in [Clients -> Calls]
    /\ \A p \in Clients : call[p].what \notin {"none", "start"} => \E t \in Tags : call[p].t = {t}

\* Starts and resumes that looked a name up before each other never leave two
\* active tags of it (schema.py: idx_session_active_tag_project).
OneActiveTag == indexed => \A t, u \in ActiveTags : t = u

\* However links, segments, updates and ends of several processes interleave, a
\* node that was linked is listed by its tag as long as the tag is there, and an
\* edge leads only to a tag that lists its node (sessions.link_node_to_tag: no
\* lost links).  What was filed in a segment is linked and filed in no other,
\* and at most the last segment of a tag is open (sessions.add_segment).
LinksListed ==
    /\ \A e \in edge : e[1] \in tag[e[2]].linked
    /\ \A p \in Clients : InCall(p, "edge") => call[p].n \subseteq tag[CalledTag(p)].linked
    /\ \A t \in Tags : \A i \in DOMAIN tag[t].segments :
         /\ tag[t].segments[i].open => i = Len(tag[t].segments)
         /\ tag[t].segments[i].artifacts \subseteq tag[t].linked
         /\ \A j \in DOMAIN tag[t].segments :
              i # j => tag[t].segments[i].artifacts \cap tag[t].segments[j].artifacts = {}

\* docs/human-guide.md:159: completed tags remain completed.  Refuted: a tag that
\* is completed between the lookup and the write of a resume becomes active
\* again, and a pause does not look at the status at all.
CompletedRemains ==
    [][\A t \in Tags : tag[t].status = "completed" => tag'[t].status = "completed"]_sessionVars
=============================================================================
