--------------------------- MODULE Sessions_proofs ---------------------------
(* That a name has at most one active tag, and that nothing linked to a tag  *)
(* or filed in a segment of it is lost (sessions.py), for any rows, callers  *)
(* and captured nodes.  Every call changes the row as it is, whatever it saw *)
(* when it looked the tag up, so it is enough to say what a change of a row  *)
(* keeps; that the change is made by the call that made it matters nowhere.  *)
EXTENDS Sessions, SequenceTheorems, TLAPS

\* What the segments of a row are among themselves: the last one alone may be
\* open, and each files, of what is linked, what no other does.
Filing(r) ==
    \A i \in DOMAIN r.segments :
      /\ r.segments[i].open => i = Len(r.segments)
      /\ r.segments[i].artifacts \subseteq r.linked
      /\ \A j \in DOMAIN r.segments :
           i # j => r.segments[i].artifacts \cap r.segments[j].artifacts = {}

\* A row that is not there yet lists nothing.
Blank == \A t \in Tags : tag[t].status = "none" => tag[t].linked = {}

Edges == \A e \in edge : e[1] \in tag[e[2]].linked

\* A call is about a tag that is there, which lists what the call has linked.
\* None begins before the store is migrated.
CallsFound ==
    \A p \in Clients :
      /\ call[p].what # "none" => indexed
      /\ InCall(p, "link") => \E n \in Captured : call[p].n = {n}
      /\ \A t \in Tags : call[p].t = {t} =>
           /\ tag[t].status # "none"
           /\ InCall(p, "edge") => call[p].n \subseteq tag[t].linked

IInv ==
    /\ SessionsTypeOK
    /\ OneActiveTag
    /\ Blank
    /\ Edges
    /\ CallsFound
    /\ \A t \in Tags : Filing(tag[t])

\* What a step may do to the rows.
TagsKept ==
    /\ tag' \in [Tags -> TagRows]
    /\ OneActiveTag' /\ Blank'
    /\ \A t \in Tags :
         /\ Filing(tag'[t]) /\ tag[t].linked \subseteq tag'[t].linked
         /\ tag[t].status # "none" => tag'[t].status # "none"

-----------------------------------------------------------------------------
(* Rows *)

LEMMA SegmentsOf ==
    ASSUME NEW r \in TagRows
    PROVE  /\ r.segments \in Seq(Segments) /\ Len(r.segments) \in Nat
           /\ DOMAIN r.segments = 1..Len(r.segments)
           /\ \A i \in DOMAIN r.segments : r.segments[i] \in Segments
<1>1. r.segments \in Seq(Segments)
  BY DEF TagRows
<1> QED
  BY <1>1

LEMMA ClosedSegments ==
    ASSUME NEW r \in TagRows
    PROVE  /\ EachSegment(r, Closed) \in Seq(Segments)
           /\ Len(EachSegment(r, Closed)) = Len(r.segments)
           /\ DOMAIN EachSegment(r, Closed) = DOMAIN r.segments
           /\ \A i \in DOMAIN r.segments :
                /\ ~ EachSegment(r, Closed)[i].open
                /\ EachSegment(r, Closed)[i].artifacts = r.segments[i].artifacts
<1> DEFINE s == EachSegment(r, Closed)
<1>1. \A i \in DOMAIN r.segments : Closed(r.segments[i]) \in Segments
  BY SegmentsOf DEF Closed, Segments
<1>2. s \in [1..Len(r.segments) -> Segments]
  BY <1>1, SegmentsOf DEF EachSegment
<1>3. s \in Seq(Segments) /\ Len(s) = Len(r.segments)
  BY <1>2, SegmentsOf
<1>4. \A i \in DOMAIN r.segments : s[i] = [r.segments[i] EXCEPT !.open = FALSE]
  BY DEF EachSegment, Closed
<1> QED
  BY <1>2, <1>3, <1>4, SegmentsOf DEF Segments

\* A new segment is the only open one, and files nothing yet.
LEMMA SegmentAdded ==
    ASSUME NEW r \in TagRows, Filing(r)
    PROVE  /\ WithSegment(r) \in TagRows /\ Filing(WithSegment(r))
           /\ WithSegment(r).linked = r.linked /\ WithSegment(r).status = r.status
<1> DEFINE s == EachSegment(r, Closed)
           n == Append(s, OpenSegment)
<1>1. s \in Seq(Segments) /\ OpenSegment \in Segments
  BY ClosedSegments DEF OpenSegment, Segments
<1>2. /\ n \in Seq(Segments) /\ Len(n) = Len(s) + 1
      /\ \A i \in 1..Len(s) : n[i] = s[i]
      /\ n[Len(s) + 1] = OpenSegment
  BY <1>1, AppendProperties
<1>3. /\ WithSegment(r) = [r EXCEPT !.segments = n]
      /\ WithSegment(r) \in TagRows /\ WithSegment(r).segments = n
      /\ WithSegment(r).linked = r.linked /\ WithSegment(r).status = r.status
  BY <1>2 DEF WithSegment, TagRows
<1>4. Len(s) = Len(r.segments) /\ Len(s) \in Nat /\ DOMAIN n = 1..Len(s) + 1
  BY <1>1, <1>2, ClosedSegments
<1>5. DOMAIN r.segments = 1..Len(s)
  BY <1>4, SegmentsOf
<1>6. \A i \in 1..Len(s) : ~ n[i].open /\ n[i].artifacts = r.segments[i].artifacts
  BY <1>2, <1>5, ClosedSegments
<1>7. n[Len(s) + 1].artifacts = {}
  BY <1>2 DEF OpenSegment
<1>8. \A i \in 1..Len(s) + 1 : i \in 1..Len(s) \/ i = Len(s) + 1
  BY <1>4
<1>9. ASSUME NEW i \in DOMAIN n PROVE n[i].open => i = Len(n)
  BY <1>2, <1>4, <1>6, <1>8
<1>10. ASSUME NEW i \in DOMAIN n PROVE n[i].artifacts \subseteq r.linked
  BY <1>4, <1>5, <1>6, <1>7, <1>8 DEF Filing
<1>11. ASSUME NEW i \in DOMAIN n, NEW j \in DOMAIN n, i # j
       PROVE  n[i].artifacts \cap n[j].artifacts = {}
  BY <1>4, <1>5, <1>6, <1>7, <1>8, <1>11 DEF Filing
<1> QED
  BY <1>3, <1>9, <1>10, <1>11 DEF Filing

\* A node that is linked for the first time is filed in the open segment alone.
LEMMA LinkAdded ==
    ASSUME NEW r \in TagRows, NEW n \in Captured, Filing(r)
    PROVE  /\ WithLink(r, n) \in TagRows /\ Filing(WithLink(r, n))
           /\ r.linked \cup {n} = WithLink(r, n).linked /\ WithLink(r, n).status = r.status
<1>1. CASE n \in r.linked
  BY <1>1 DEF WithLink
<1>2. CASE n \notin r.linked
  <2> DEFINE Filed(segment) == IF segment.open THEN [segment EXCEPT !.artifacts = @ \cup {n}]
                                               ELSE segment
             s == [i \in DOMAIN r.segments |-> Filed(r.segments[i])]
  <2>1. WithLink(r, n) = [r EXCEPT !.linked = @ \cup {n}, !.segments = s]
    BY <1>2 DEF WithLink, EachSegment
  <2>2. \A i \in DOMAIN r.segments : Filed(r.segments[i]) \in Segments
    BY SegmentsOf DEF Segments
  <2>3. s \in [1..Len(r.segments) -> Segments]
    BY <2>2, SegmentsOf
  <2>4. \A i \in DOMAIN r.segments :
          /\ s[i].open = r.segments[i].open
          /\ s[i].artifacts = IF r.segments[i].open THEN r.segments[i].artifacts \cup {n}
                              ELSE r.segments[i].artifacts
    BY SegmentsOf DEF Segments
  <2> HIDE DEF s
  <2>5. s \in Seq(Segments) /\ Len(s) = Len(r.segments) /\ DOMAIN s = DOMAIN r.segments
    BY <2>3, SegmentsOf
  <2>6. /\ WithLink(r, n) \in TagRows /\ WithLink(r, n).segments = s
        /\ WithLink(r, n).linked = r.linked \cup {n} /\ WithLink(r, n).status = r.status
    <3> DEFINE u == r.linked \cup {n}
    <3>1. u \in SUBSET Captured
      BY DEF TagRows
    <3>2. WithLink(r, n) = [r EXCEPT !.linked = u, !.segments = s]
      BY <2>1
    <3> HIDE DEF u
    <3>3. /\ WithLink(r, n) \in TagRows /\ WithLink(r, n).segments = s
          /\ WithLink(r, n).linked = u /\ WithLink(r, n).status = r.status
      BY <2>5, <3>1, <3>2 DEF TagRows
    <3> QED
      BY <3>3 DEF u
  <2>7. \A i \in DOMAIN r.segments : n \notin r.segments[i].artifacts
    BY <1>2 DEF Filing
  <2>8. ASSUME NEW i \in DOMAIN s
        PROVE  /\ s[i].open => i = Len(s)
               /\ s[i].artifacts \subseteq r.linked \cup {n}
    BY <2>5, <2>4 DEF Filing
  <2>9. ASSUME NEW i \in DOMAIN s, NEW j \in DOMAIN s, i # j
        PROVE  s[i].artifacts \cap s[j].artifacts = {}
    <3>1. ~ (r.segments[i].open /\ r.segments[j].open)
      BY <2>5, <2>9 DEF Filing
    <3>2. r.segments[i].artifacts \cap r.segments[j].artifacts = {}
      BY <2>5, <2>9 DEF Filing
    <3> QED
      BY <2>5, <2>4, <2>7, <3>1, <3>2
  <2> QED
    BY <2>6, <2>8, <2>9 DEF Filing
<1> QED
  BY <1>1, <1>2

LEMMA TagCompleted ==
    ASSUME NEW r \in TagRows, Filing(r)
    PROVE  /\ CompletedTag(r) \in TagRows /\ Filing(CompletedTag(r))
           /\ CompletedTag(r).linked = r.linked /\ CompletedTag(r).status = "completed"
<1> DEFINE s == EachSegment(r, Closed)
<1>1. s \in Seq(Segments)
  BY ClosedSegments
<1>2. CompletedTag(r) = [r EXCEPT !.status = "completed", !.segments = s]
  BY DEF CompletedTag
<1>3. /\ CompletedTag(r) \in TagRows /\ CompletedTag(r).segments = s
      /\ CompletedTag(r).linked = r.linked /\ CompletedTag(r).status = "completed"
  BY <1>1, <1>2 DEF TagRows
<1> QED
  BY <1>3, ClosedSegments DEF Filing

LEMMA TagStarted ==
    ASSUME NEW focused \in BOOLEAN, NEW remaining \in SUBSET Items
    PROVE  /\ NewTag(focused, remaining) \in TagRows /\ Filing(NewTag(focused, remaining))
           /\ NewTag(focused, remaining).linked = {}
<1>1. OpenSegment \in Segments
  BY DEF OpenSegment, Segments
<1>2. /\ <<OpenSegment>> \in Seq(Segments) /\ <<>> \in Seq(Segments)
      /\ Len(<<OpenSegment>>) = 1 /\ DOMAIN <<OpenSegment>> = {1} /\ <<OpenSegment>>[1] = OpenSegment
      /\ Len(<<>>) = 0 /\ DOMAIN <<>> = {}
  BY <1>1
<1>3. CASE focused = TRUE
  BY <1>2, <1>3 DEF NewTag, TagRows, Filing, OpenSegment
<1>4. CASE focused = FALSE
  BY <1>2, <1>4 DEF NewTag, TagRows, Filing
<1> QED
  BY <1>3, <1>4

-----------------------------------------------------------------------------
(* Steps *)

\* A row may become active if it is, or if the index has no other.
LEMMA RowChanged ==
    ASSUME IInv, indexed' = indexed, NEW t \in Tags, NEW r \in TagRows,
           tag' = [tag EXCEPT ![t] = r], Filing(r), tag[t].linked \subseteq r.linked,
           r.status # "none", r.status = "active" => tag[t].status = "active" \/ IndexAllows(t)
    PROVE  TagsKept
<1>1. tag' \in [Tags -> TagRows]
  BY DEF IInv, SessionsTypeOK
<1>2. tag'[t] = r /\ \A u \in Tags : u # t => tag'[u] = tag[u]
  BY DEF IInv, SessionsTypeOK
<1>3. OneActiveTag'
  <2> SUFFICES ASSUME indexed, NEW u \in Tags, NEW v \in Tags,
                      tag'[u].status = "active", tag'[v].status = "active"
               PROVE  u = v
    BY DEF OneActiveTag, ActiveTags
  <2> QED
    BY <1>2 DEF IInv, OneActiveTag, ActiveTags, IndexAllows
<1> QED
  BY <1>1, <1>2, <1>3 DEF TagsKept, IInv, Blank

\* A call that returns leaves what the others have.
LEMMA Returned ==
    ASSUME IInv, TagsKept, indexed' = indexed, edge' = edge, NEW p \in Clients,
           call' = [call EXCEPT ![p] = NoCall]
    PROVE  IInv'
<1>1. NoCall \in Calls /\ NoCall.what = "none" /\ \A t \in Tags : NoCall.t # {t}
  BY DEF NoCall, Calls, NoTag, TagRows
<1>2. \A q \in Clients : call'[q] = call[q] \/ call'[q] = NoCall
  BY DEF IInv, SessionsTypeOK
<1>3. call' \in [Clients -> Calls]
  BY <1>1 DEF IInv, SessionsTypeOK
<1>4. SessionsTypeOK'
  BY <1>1, <1>2, <1>3 DEF IInv, SessionsTypeOK, TagsKept
<1>5. Edges'
  BY DEF IInv, Edges, TagsKept, SessionsTypeOK
<1>6. CallsFound'
  BY <1>1, <1>2 DEF IInv, CallsFound, InCall, TagsKept
<1> QED
  BY <1>4, <1>5, <1>6 DEF IInv, TagsKept

LEMMA NoRowChanged ==
    ASSUME IInv, UNCHANGED <<indexed, tag>>
    PROVE  TagsKept
BY DEF IInv, SessionsTypeOK, TagsKept, OneActiveTag, ActiveTags, Blank

\* The row that a call is about.
LEMMA TheCalledTag ==
    ASSUME IInv, NEW p \in Clients, call[p].what \notin {"none", "start"}
    PROVE  /\ CalledTag(p) \in Tags /\ call[p].t = {CalledTag(p)}
           /\ AsItIs(p) \in TagRows /\ Filing(AsItIs(p)) /\ AsItIs(p).status # "none"
<1>1. \E t \in Tags : call[p].t = {t}
  BY DEF IInv, SessionsTypeOK
<1>2. CalledTag(p) \in Tags /\ call[p].t = {CalledTag(p)}
  BY <1>1 DEF CalledTag
<1> QED
  BY <1>2 DEF IInv, SessionsTypeOK, CallsFound, AsItIs

LEMMA NoneYet == NoTag \in TagRows /\ NoCall \in Calls
<1>1. NoTag \in TagRows
  BY DEF NoTag, TagRows
<1> QED
  BY <1>1 DEF NoCall, Calls

LEMMA InitHolds == SessionsInit => IInv
<1> SUFFICES ASSUME SessionsInit PROVE IInv
  OBVIOUS
<1>1. ASSUME NEW t \in Tags
      PROVE  tag[t] \in TagRows /\ tag[t].linked = {} /\ tag[t].segments = <<>>
  <2>1. PICK status \in {"none", "active", "paused", "completed"} :
               tag[t] = [NoTag EXCEPT !.status = status]
    BY DEF SessionsInit
  <2> QED
    BY <2>1, NoneYet DEF NoTag, TagRows
<1>2. tag \in [Tags -> TagRows]
  BY <1>1 DEF SessionsInit
<1>3. NoCall \in Calls /\ NoCall.what = "none" /\ \A t \in Tags : NoCall.t # {t}
  BY DEF NoCall, Calls, NoTag, TagRows
<1>4. SessionsTypeOK
  BY <1>2, <1>3 DEF SessionsInit, SessionsTypeOK
<1>5. \A t \in Tags : Filing(tag[t])
  BY <1>1 DEF Filing
<1> QED
  BY <1>1, <1>3, <1>4, <1>5 DEF IInv, SessionsInit, OneActiveTag, Blank, Edges, CallsFound, InCall

\* The migration leaves one active row, and looks at nothing else of a row.
LEMMA MigrateKeeps == IInv /\ MigrateV12 => IInv'
<1> SUFFICES ASSUME IInv, MigrateV12 PROVE IInv'
  OBVIOUS
<1>1. \A p \in Clients : call[p].what = "none"
  BY DEF IInv, CallsFound, MigrateV12
<1>2. /\ tag' \in [Tags -> TagRows]
      /\ \A t \in Tags : /\ tag'[t].linked = tag[t].linked
                         /\ tag'[t].segments = tag[t].segments
                         /\ tag[t].status = "none" <=> tag'[t].status = "none"
      /\ \A t, u \in Tags : tag'[t].status = "active" /\ tag'[u].status = "active" => t = u
  <2>1. CASE ActiveTags = {}
    BY <2>1 DEF MigrateV12, IInv, SessionsTypeOK, ActiveTags
  <2>2. CASE ActiveTags # {}
    <3>1. PICK keep \in ActiveTags : tag' = Deduplicated(keep)
      BY <2>2 DEF MigrateV12
    <3>2. \A t \in Tags : /\ tag[t] \in TagRows
                         /\ [tag[t] EXCEPT !.status = "paused"] \in TagRows
      BY DEF IInv, SessionsTypeOK, TagRows
    <3>3. tag' \in [Tags -> TagRows]
      BY <3>1, <3>2 DEF Deduplicated
    <3>4. \A t \in Tags : tag'[t] = IF t \in ActiveTags \ {keep}
                                   THEN [tag[t] EXCEPT !.status = "paused"] ELSE tag[t]
      BY <3>1 DEF Deduplicated
    <3>5. ASSUME NEW t \in Tags
          PROVE  /\ tag'[t].linked = tag[t].linked
                 /\ tag'[t].segments = tag[t].segments
                 /\ tag[t].status = "none" <=> tag'[t].status = "none"
                 /\ tag'[t].status = "active" => t = keep
      BY <3>2, <3>4 DEF ActiveTags, TagRows
    <3> QED
      BY <3>3, <3>5
  <2> QED
    BY <2>1, <2>2
<1>3. SessionsTypeOK'
  BY <1>1, <1>2 DEF MigrateV12, IInv, SessionsTypeOK
<1>4. OneActiveTag' /\ Blank' /\ \A t \in Tags : Filing(tag'[t])
  BY <1>2 DEF IInv, OneActiveTag, ActiveTags, Blank, Filing
<1>5. Edges' /\ CallsFound'
  BY <1>1, <1>2 DEF MigrateV12, IInv, SessionsTypeOK, Edges, CallsFound, InCall
<1> QED
  BY <1>3, <1>4, <1>5 DEF IInv

\* A call begins with the row it looked up.
LEMMA LookupKeeps ==
    ASSUME IInv, NEW p \in Clients, Lookup(p) \/ StartLookup(p)
    PROVE  IInv'
<1>1. PICK c \in Calls :
        /\ call' = [call EXCEPT ![p] = c] /\ c.what \notin {"none", "edge"}
        /\ c.what = "link" => \E k \in Captured : c.n = {k}
        /\ \/ c.what = "start" /\ c.t = {}
           \/ \E t \in Tags : c.t = {t} /\ tag[t].status # "none"
  <2>1. CASE Lookup(p)
    <3>1. PICK what \in Whats \ {"start", "edge"}, t \in Tags :
            /\ tag[t].status # "none"
            /\ \E n \in IF what = "link" THEN {{k} : k \in Captured} ELSE {{}} :
                 call' = [call EXCEPT ![p] = [what |-> what, t |-> {t}, seen |-> tag[t], n |-> n]]
      BY <2>1 DEF Lookup, Found
    <3>2. PICK n \in IF what = "link" THEN {{k} : k \in Captured} ELSE {{}} :
            call' = [call EXCEPT ![p] = [what |-> what, t |-> {t}, seen |-> tag[t], n |-> n]]
      BY <3>1
    <3> DEFINE c == [what |-> what, t |-> {t}, seen |-> tag[t], n |-> n]
    <3>3. n \in SUBSET Captured
      OBVIOUS
    <3>4. c \in Calls /\ c.what \notin {"none", "edge"} /\ c.t = {t}
      BY <3>3 DEF Calls, IInv, SessionsTypeOK, Whats
    <3>5. c.what = "link" => \E k \in Captured : c.n = {k}
      OBVIOUS
    <3> HIDE DEF c
    <3> QED
      BY <3>1, <3>2, <3>4, <3>5 DEF c
  <2>2. CASE StartLookup(p)
    <3>1. [NoCall EXCEPT !.what = "start"] \in Calls
      BY NoneYet DEF NoCall, Calls, Whats
    <3> QED
      BY <2>2, <3>1 DEF StartLookup, NoCall
  <2> QED
    BY <2>1, <2>2
<1>2. UNCHANGED <<indexed, tag, edge>> /\ indexed
  BY DEF Lookup, StartLookup
<1>3. call' \in [Clients -> Calls] /\ \A q \in Clients : call'[q] = IF q = p THEN c ELSE call[q]
  BY <1>1 DEF IInv, SessionsTypeOK
<1>4. SessionsTypeOK'
  BY <1>1, <1>2, <1>3 DEF IInv, SessionsTypeOK
<1>5. CallsFound'
  BY <1>1, <1>2, <1>3 DEF IInv, CallsFound, InCall
<1> QED
  BY <1>2, <1>4, <1>5 DEF IInv, OneActiveTag, ActiveTags, Blank, Edges

LEMMA StartKeeps ==
    ASSUME IInv, NEW p \in Clients, Start(p)
    PROVE  IInv'
<1>1. CASE UNCHANGED tag
  BY <1>1, NoRowChanged, Returned DEF Start, Returns
<1>2. CASE \E t \in Tags, focused \in BOOLEAN, remaining \in SUBSET Items :
             /\ tag[t].status = "none" /\ IndexAllows(t)
             /\ tag' = [tag EXCEPT ![t] = NewTag(focused, remaining)]
  <2>1. PICK t \in Tags, focused \in BOOLEAN, remaining \in SUBSET Items :
             /\ tag[t].status = "none" /\ IndexAllows(t)
             /\ tag' = [tag EXCEPT ![t] = NewTag(focused, remaining)]
    BY <1>2
  <2>2. tag[t].linked = {}
    BY <2>1 DEF IInv, Blank
  <2>3. NewTag(focused, remaining).status = "active"
    BY DEF NewTag
  <2>4. TagsKept
    BY <2>1, <2>2, <2>3, TagStarted, RowChanged DEF Start
  <2> QED
    BY <2>4, Returned DEF Start, Returns
<1> QED
  BY <1>1, <1>2 DEF Start

\* A call that changes the row it is about and returns.
LEMMA CallKeeps ==
    ASSUME IInv, NEW p \in Clients,
           Update(p) \/ AddSegment(p) \/ Pause(p) \/ Complete(p) \/ Resume(p)
    PROVE  IInv'
<1>1. /\ call[p].what \notin {"none", "start"}
      /\ UNCHANGED <<indexed, edge>> /\ call' = [call EXCEPT ![p] = NoCall]
  BY DEF Update, AddSegment, Pause, Complete, Resume, InCall, Returns
<1> DEFINE t == CalledTag(p)
           r == AsItIs(p)
<1>2. t \in Tags /\ r \in TagRows /\ r = tag[t] /\ Filing(r) /\ r.status # "none"
  BY <1>1, TheCalledTag DEF AsItIs
<1> HIDE DEF t, r
<1>3. ASSUME NEW s \in TagRows, Filing(s), r.linked \subseteq s.linked, Becomes(p, s),
             s.status # "none", s.status = "active" => r.status = "active" \/ IndexAllows(t)
      PROVE  IInv'
  BY <1>1, <1>2, <1>3, RowChanged, Returned DEF Becomes, t
<1>4. CASE Update(p)
  <2>1. PICK replaced \in {{}} \cup {{i} : i \in Items}, added \in SUBSET Items,
             removed \in SUBSET Items :
          Becomes(p, [r EXCEPT !.remaining =
                        ((IF replaced = {} THEN @ ELSE replaced) \cup added) \ removed])
    BY <1>4 DEF Update, r
  <2> DEFINE u == ((IF replaced = {} THEN r.remaining ELSE replaced) \cup added) \ removed
             s == [r EXCEPT !.remaining = u]
  <2>2. u \in SUBSET Items
    BY <1>2 DEF TagRows
  <2>3. Becomes(p, s)
    BY <2>1
  <2> HIDE DEF u
  <2>4. /\ s \in TagRows /\ s.linked = r.linked /\ s.status = r.status
        /\ s.segments = r.segments
    BY <1>2, <2>2 DEF TagRows
  <2> HIDE DEF s
  <2>5. Filing(s)
    BY <1>2, <2>4 DEF Filing
  <2> QED
    BY <1>2, <1>3, <2>3, <2>4, <2>5
<1>5. CASE AddSegment(p)
  BY <1>2, <1>3, <1>5, SegmentAdded DEF AddSegment, r
<1>6. ASSUME NEW status \in {"paused", "active"}, Becomes(p, [r EXCEPT !.status = status]),
             status = "active" => IndexAllows(t)
      PROVE  IInv'
  <2> DEFINE s == [r EXCEPT !.status = status]
  <2>1. /\ s \in TagRows /\ s.linked = r.linked /\ s.status = status
        /\ s.segments = r.segments
    BY <1>2 DEF TagRows
  <2>2. Becomes(p, s)
    BY <1>6
  <2> HIDE DEF s
  <2>3. Filing(s)
    BY <1>2, <2>1 DEF Filing
  <2> QED
    BY <1>3, <1>6, <2>1, <2>2, <2>3
<1>7. CASE Pause(p)
  BY <1>6, <1>7 DEF Pause, r
<1>8. CASE Complete(p)
  BY <1>2, <1>3, <1>8, TagCompleted DEF Complete, r
<1>9. CASE Resume(p)
  <2>1. CASE IndexAllows(t)
    BY <1>6, <1>9, <2>1 DEF Resume, r, t
  <2>2. CASE ~ IndexAllows(t)
    BY <1>1, <1>9, <2>2, NoRowChanged, Returned DEF Resume, t
  <2> QED
    BY <2>1, <2>2
<1> QED
  BY <1>4, <1>5, <1>7, <1>8, <1>9

\* The link goes on to its edge, which leads to a row that lists it by then.
LEMMA LinkKeeps ==
    ASSUME IInv, NEW p \in Clients, Link(p)
    PROVE  IInv'
<1> DEFINE t == CalledTag(p)
           r == AsItIs(p)
           c == [call[p] EXCEPT !.what = "edge", !.seen = NoTag]
<1>1. /\ t \in Tags /\ call[p].t = {t} /\ r \in TagRows /\ r = tag[t]
      /\ Filing(r) /\ r.status # "none"
  BY TheCalledTag DEF AsItIs, Link, InCall
<1>2. PICK n \in Captured : call[p].n = {n}
  BY DEF Link, IInv, CallsFound
<1>3. tag' = [tag EXCEPT ![t] = WithLink(r, n)]
  BY <1>2 DEF Link, Becomes
<1>4. UNCHANGED <<indexed, edge>> /\ call' = [call EXCEPT ![p] = c] /\ indexed
  BY DEF Link, IInv, CallsFound, InCall
<1>5. c \in Calls /\ c.what = "edge" /\ c.t = {t} /\ c.n = {n}
  <2>1. call[p] \in Calls
    BY DEF IInv, SessionsTypeOK
  <2> QED
    BY <1>1, <1>2, <2>1, NoneYet DEF Calls, Whats
<1> HIDE DEF t, r, c
<1>6. TagsKept
  BY <1>1, <1>3, <1>4, LinkAdded, RowChanged
<1>7. n \in tag'[t].linked
  BY <1>1, <1>3, LinkAdded DEF IInv, SessionsTypeOK
<1>8. call' \in [Clients -> Calls] /\ \A q \in Clients : call'[q] = IF q = p THEN c ELSE call[q]
  BY <1>4, <1>5 DEF IInv, SessionsTypeOK
<1>9. SessionsTypeOK'
  BY <1>1, <1>4, <1>5, <1>6, <1>8 DEF IInv, SessionsTypeOK, TagsKept
<1>10. Edges'
  BY <1>4, <1>6 DEF IInv, Edges, TagsKept, SessionsTypeOK
<1>11. CallsFound'
  <2> SUFFICES ASSUME NEW q \in Clients
               PROVE  /\ call'[q].what # "none" => indexed'
                      /\ call'[q].what = "link" => \E k \in Captured : call'[q].n = {k}
                      /\ \A u \in Tags : call'[q].t = {u} =>
                           /\ tag'[u].status # "none"
                           /\ call'[q].what = "edge" => call'[q].n \subseteq tag'[u].linked
    BY DEF CallsFound, InCall
  <2>1. CASE q = p
    BY <1>1, <1>4, <1>5, <1>6, <1>7, <1>8, <2>1 DEF TagsKept
  <2>2. CASE q # p
    BY <1>4, <1>6, <1>8, <2>2 DEF IInv, CallsFound, InCall, TagsKept
  <2> QED
    BY <2>1, <2>2
<1> QED
  BY <1>6, <1>9, <1>10, <1>11 DEF IInv, TagsKept

LEMMA LinkEdgeKeeps ==
    ASSUME IInv, NEW p \in Clients, LinkEdge(p)
    PROVE  IInv'
<1>1. /\ call[p].what = "edge" /\ UNCHANGED <<indexed, tag>>
      /\ call' = [call EXCEPT ![p] = NoCall]
      /\ edge' = edge \cup {<<n, CalledTag(p)>> : n \in call[p].n}
  BY DEF LinkEdge, InCall, Returns
<1>2. CalledTag(p) \in Tags /\ call[p].n \subseteq tag[CalledTag(p)].linked
  BY <1>1, TheCalledTag DEF IInv, CallsFound, InCall
<1>3. call[p].n \subseteq Captured
  BY DEF IInv, SessionsTypeOK, Calls
<1>4. edge' \subseteq Captured \X Tags
  BY <1>1, <1>2, <1>3 DEF IInv, SessionsTypeOK
<1>5. Edges'
  BY <1>1, <1>2 DEF IInv, Edges
<1>6. NoCall \in Calls /\ NoCall.what = "none" /\ \A t \in Tags : NoCall.t # {t}
  BY DEF NoCall, Calls, NoTag, TagRows
<1>7. call' \in [Clients -> Calls] /\ \A q \in Clients : call'[q] = call[q] \/ call'[q] = NoCall
  BY <1>1, <1>6 DEF IInv, SessionsTypeOK
<1>8. SessionsTypeOK' /\ CallsFound'
  BY <1>1, <1>4, <1>6, <1>7 DEF IInv, SessionsTypeOK, CallsFound, InCall
<1> QED
  BY <1>1, <1>5, <1>8 DEF IInv, OneActiveTag, ActiveTags, Blank

LEMMA NextHolds == IInv /\ [SessionsNext]_sessionVars => IInv'
<1> SUFFICES ASSUME IInv, [SessionsNext]_sessionVars PROVE IInv'
  OBVIOUS
<1>1. CASE SessionsNext
  BY <1>1, MigrateKeeps, LookupKeeps, StartKeeps, CallKeeps, LinkKeeps, LinkEdgeKeeps DEF SessionsNext
<1>2. CASE UNCHANGED sessionVars
  BY <1>2 DEF sessionVars, IInv, SessionsTypeOK, OneActiveTag, ActiveTags, Blank, Edges,
              CallsFound, InCall
<1> QED
  BY <1>1, <1>2

-----------------------------------------------------------------------------
(* Theorems *)

\* Rows and calls keep their shape.
THEOREM TypeCorrect == SessionsSpec => []SessionsTypeOK
<1>1. IInv => SessionsTypeOK
  BY DEF IInv
<1> QED
  BY <1>1, InitHolds, NextHolds, PTL DEF SessionsSpec

\* Once the index is there, a name has at most one active tag, whatever starts
\* and resumes looked it up before each other (sessions.start_tag, resume_tag).
THEOREM ActiveTagUnique == SessionsSpec => []OneActiveTag
<1>1. IInv => OneActiveTag
  BY DEF IInv
<1> QED
  BY <1>1, InitHolds, NextHolds, PTL DEF SessionsSpec

\* No link is lost, an edge leads to a tag that lists its node, and segments file
\* apart what was linked (sessions.link_node_to_tag, add_segment).
THEOREM LinksKept == SessionsSpec => []LinksListed
<1>1. ASSUME IInv PROVE LinksListed
  <2>1. ASSUME NEW p \in Clients, InCall(p, "edge") PROVE call[p].n \subseteq tag[CalledTag(p)].linked
    <3>1. CalledTag(p) \in Tags /\ call[p].t = {CalledTag(p)}
      BY <1>1, <2>1, TheCalledTag DEF InCall
    <3> QED
      BY <1>1, <2>1, <3>1 DEF IInv, CallsFound, AsItIs
  <2> QED
    BY <1>1, <2>1 DEF IInv, Edges, Filing, LinksListed
<1> QED
  BY <1>1, InitHolds, NextHolds, PTL DEF SessionsSpec

=============================================================================
