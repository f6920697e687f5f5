--------------------------- MODULE MCCoordination ---------------------------
(* Small instances of Coordination.                                         *)
EXTENDS Coordination, TLC

CONSTANTS a1, a2, p1, p2, p3, cron, c1, c2, n1

TwoAgents == (p1 :> a1) @@ (p2 :> a2)
TwoAndOne == (p1 :> a1) @@ (p2 :> a1) @@ (p3 :> a2)

\* p runs only the operations that kinds, if it is there, gives it.
Only(kinds) == [p \in Procs |-> IF p \in DOMAIN kinds THEN kinds[p] ELSE {}]
Each(procs, kinds) == Only([p \in procs |-> kinds])

\* Two processes of one agent read page by page what both agents post.
Paging ==
    [kinds |-> Only((p1 :> {"join", "post", "read"}) @@ (p2 :> {"read"})
                      @@ (p3 :> {"create", "post", "read"})),
     convs |-> {c1}, posts |-> 2, time |-> 0, crashes |-> 0]

\* What may be expired is joined, posted to and ended.
Ending == [kinds |-> Each({p1, p3}, {"create", "join", "post", "end"}),
           convs |-> {c1}, posts |-> 2, time |-> 2, crashes |-> 1]

\* Standing messages are set and cleared.
Standing == [kinds |-> Each({p1, p3}, {"create", "join", "set", "clear"}),
             convs |-> {c1}, posts |-> 0, time |-> 1, crashes |-> 0]

\* A name is used again.
Naming == [kinds |-> Each({p1, p3}, {"create", "post"}),
           convs |-> {c1, c2}, posts |-> 1, time |-> 2, crashes |-> 0]

Shared == {Paging, Ending, Standing, Naming}

\* Two agents create and post.
Posting == {[kinds |-> Each({p1, p2}, {"create", "post"}),
             convs |-> {c1}, posts |-> 1, time |-> 2, crashes |-> 0]}
=============================================================================
