----------------------------- MODULE Embeddings -----------------------------
(* The deferred embedding of nodes (vectors.py, with the writers of         *)
(* store.py and tasks.py that queue it, and those that do not).  An edit    *)
(* commits the node and then rewrites queue and quarantine, which it has    *)
(* read without a lock; a deletion rewrites the quarantine in the same way; *)
(* a drain reads the queue, asks the provider for each node in turn without *)
(* a lock, stores each answer, and at its end merges what it did into the   *)
(* queue under the write lock, against the text that the nodes have then.   *)
(*                                                                          *)
(* A text is its version, and no two versions are the same.  Left out:      *)
(* chunks, the configuration's fingerprint, the time budget, the bound of   *)
(* the queue (100000), new and restored nodes (they are queued as an edited *)
(* one is), and the commands that select stale nodes and queue or embed     *)
(* them again (enqueue_reindex, reindex_now).                               *)
EXTENDS Integers, Sequences, FiniteSets, SequencesExt, Filters

CONSTANTS
    Texts,          \* nodes with a text
    Writers,        \* processes that edit or retire nodes
    Drainers,       \* processes that drain the queue
    MaxText,        \* versions of a text
    TooLarge,       \* versions that the provider rejects for good
    MaxBatch,       \* max_jobs
    MaxOutages      \* provider calls that fail for a while

ASSUME EmbeddingsAssumption ==
    /\ MaxText \in Nat \ {0} /\ MaxBatch \in Nat \ {0} /\ MaxOutages \in Nat
    /\ TooLarge \subseteq 1..MaxText /\ IsFiniteSet(Texts)

VARIABLES
    text,           \* node |-> version of its text, NoText once superseded or deleted
    vector,         \* node |-> version that its stored vector stands for
    embedQueue,     \* the nodes to embed, in order
    rejected,       \* node |-> version in quarantine
    writer,         \* what each editing process is doing
    drainer,        \* what each drain is doing
    outages,
    unrefreshed     \* history: the nodes whose text has lost its refresh to a race or a failure

embeddingVars == <<text, vector, embedQueue, rejected, writer, drainer, outages, unrefreshed>>

-----------------------------------------------------------------------------
NoText == 0
TextVersions == 0..MaxText
Resting == [at |-> "rest"]

Without(queue, ns) == Where(queue, Texts \ ns)
DrainerAt(d, place) == drainer[d].at = place
OnQueue(n) == n \in ToSet(embedQueue)
InQuarantine(n) == rejected[n] = text[n]
Editing == {"edited", "read"}
Editors(n) == {w \in Writers : writer[w].at \in Editing /\ writer[w].node = n}

EmbeddingsInit ==
    /\ text = [n \in Texts |-> 1]
    /\ vector = [n \in Texts |-> NoText]
    /\ embedQueue = SetToSeq(Texts)
    /\ rejected = [n \in Texts |-> NoText]
    /\ writer = [w \in Writers |-> Resting]
    /\ drainer = [d \in Drainers |-> Resting]
    /\ outages = 0
    /\ unrefreshed = {}

-----------------------------------------------------------------------------
\* An edit of the title or the content commits first (store.edit_node).
Edit(w, n) ==
    /\ writer[w] = Resting
    /\ text[n] \in 1..(MaxText - 1)
    /\ text' = [text EXCEPT ![n] = @ + 1]
    /\ writer' = [writer EXCEPT ![w] = [at |-> "edited", node |-> n]]
    /\ unrefreshed' = unrefreshed \ {n}
    /\ UNCHANGED <<vector, embedQueue, rejected, drainer, outages>>

\* Then it reads the queue and the quarantine; a record of another text lapses.
EnqueueReads(w) ==
    /\ writer[w].at = "edited"
    /\ LET n == writer[w].node IN
          writer' = [writer EXCEPT ![w] =
              [at |-> "read", node |-> n, queue |-> embedQueue,
               rejected |-> [rejected EXCEPT ![n] = IF @ = text[n] THEN @ ELSE NoText]]]
    /\ UNCHANGED <<text, vector, embedQueue, rejected, drainer, outages, unrefreshed>>

\* The other nodes that a write takes off the queue or out of quarantine.
TakenOff(queue, records, n) ==
    {m \in Texts \ {n} :
        \/ OnQueue(m) /\ m \notin ToSet(queue)
        \/ InQuarantine(m) /\ records[m] # text[m]}

\* And writes both back whole, the node last in the queue: what others wrote meanwhile is gone.
Requeued(queue, n) == Append(Without(queue, {n}), n)
EnqueueWrites(w) ==
    /\ writer[w].at = "read"
    /\ embedQueue' = Requeued(writer[w].queue, writer[w].node)
    /\ rejected' = writer[w].rejected
    /\ unrefreshed' = unrefreshed \cup TakenOff(writer[w].queue, writer[w].rejected, writer[w].node)
    /\ writer' = [writer EXCEPT ![w] = Resting]
    /\ UNCHANGED <<text, vector, drainer, outages>>

\* The graph is busy, which loses the entry and not the edit, or the process dies.
EnqueueFails(w) ==
    /\ writer[w].at \in Editing
    /\ unrefreshed' = IF OnQueue(writer[w].node) THEN unrefreshed ELSE unrefreshed \cup {writer[w].node}
    /\ writer' = [writer EXCEPT ![w] = Resting]
    /\ UNCHANGED <<text, vector, embedQueue, rejected, drainer, outages>>

\* A task's edit and its place in the queue are one transaction (tasks._write_task).
EditTask(n) ==
    /\ text[n] \in 1..(MaxText - 1)
    /\ text' = [text EXCEPT ![n] = @ + 1]
    /\ embedQueue' = Requeued(embedQueue, n)
    /\ rejected' = [rejected EXCEPT ![n] = NoText]
    /\ unrefreshed' = unrefreshed \ {n}
    /\ UNCHANGED <<vector, writer, drainer, outages>>

\* store.update_node, by which merges (dream.py:353, mcp_server.py:2893), ingest and
\* sessions write a text, queues nothing.
UpdateNode(n) ==
    /\ text[n] \in 1..(MaxText - 1)
    /\ text' = [text EXCEPT ![n] = @ + 1]
    /\ unrefreshed' = IF OnQueue(n) \/ Editors(n) # {} THEN unrefreshed \ {n} ELSE unrefreshed \cup {n}
    /\ UNCHANGED <<vector, embedQueue, rejected, writer, drainer, outages>>

-----------------------------------------------------------------------------
\* A node is superseded or deleted; then its vector goes, in a transaction of its own.
Retire(w, n) ==
    /\ writer[w] = Resting /\ text[n] # NoText
    /\ text' = [text EXCEPT ![n] = NoText]
    /\ writer' = [writer EXCEPT ![w] = [at |-> "retired", node |-> n]]
    /\ UNCHANGED <<vector, embedQueue, rejected, drainer, outages, unrefreshed>>

DeleteEmbedding(w) ==
    /\ writer[w].at = "retired"
    /\ vector' = [vector EXCEPT ![writer[w].node] = NoText]
    /\ writer' = [writer EXCEPT ![w] = [at |-> "dropped", node |-> @.node]]
    /\ UNCHANGED <<text, embedQueue, rejected, drainer, outages, unrefreshed>>

\* Then the quarantine is read, and if the node is in it ...
ClearReads(w) ==
    /\ writer[w].at = "dropped"
    /\ LET n == writer[w].node IN
          writer' = [writer EXCEPT ![w] =
              IF rejected[n] = NoText THEN Resting
              ELSE [at |-> "clearing", node |-> n, rejected |-> [rejected EXCEPT ![n] = NoText]]]
    /\ UNCHANGED <<text, vector, embedQueue, rejected, drainer, outages, unrefreshed>>

\* ... written back whole, without the record and without what others recorded meanwhile.
ClearWrites(w) ==
    /\ writer[w].at = "clearing"
    /\ rejected' = writer[w].rejected
    /\ unrefreshed' = unrefreshed \cup TakenOff(embedQueue, writer[w].rejected, writer[w].node)
    /\ writer' = [writer EXCEPT ![w] = Resting]
    /\ UNCHANGED <<text, vector, embedQueue, drainer, outages>>

\* Each of these is best effort.
ClearFails(w) ==
    /\ writer[w].at \in {"retired", "dropped", "clearing"}
    /\ writer' = [writer EXCEPT ![w] = Resting]
    /\ UNCHANGED <<text, vector, embedQueue, rejected, drainer, outages, unrefreshed>>

-----------------------------------------------------------------------------
\* done: node |-> version that was embedded, rejected or found gone; terminal:
\* those of them that were rejected; retry: node |-> version that failed.
NoDelta == [done |-> <<>>, terminal |-> {}, retry |-> <<>>]
With(f, n, v) == [m \in DOMAIN f \cup {n} |-> IF m = n THEN v ELSE f[m]]

DrainStarts(d) ==
    /\ drainer[d] = Resting /\ embedQueue # <<>>
    /\ drainer' = [drainer EXCEPT ![d] =
          [at |-> "next", todo |-> embedQueue, known |-> rejected, calls |-> 0,
           order |-> <<>>, delta |-> NoDelta]]
    /\ UNCHANGED <<text, vector, embedQueue, rejected, writer, outages, unrefreshed>>

Turn(d) == drainer[d].todo[1]
HasTurn(d) == DrainerAt(d, "next") /\ drainer[d].todo # <<>> /\ drainer[d].calls < MaxBatch

\* Nothing to embed, or diagnosed already.
Dismiss(d) ==
    /\ HasTurn(d)
    /\ LET n == Turn(d)
           known == text[n] # NoText /\ drainer[d].known[n] = text[n]
       IN  /\ text[n] = NoText \/ known
           /\ drainer' = [drainer EXCEPT ![d].todo = Tail(@),
                 ![d].delta.done = With(@, n, text[n]),
                 ![d].delta.terminal = IF known THEN @ \cup {n} ELSE @]
    /\ UNCHANGED <<text, vector, embedQueue, rejected, writer, outages, unrefreshed>>

CallProvider(d) ==
    /\ HasTurn(d)
    /\ LET n == Turn(d) IN
          /\ text[n] # NoText /\ drainer[d].known[n] # text[n]
          /\ drainer' = [drainer EXCEPT ![d] =
                [at |-> "calling", todo |-> @.todo, known |-> @.known, calls |-> @.calls + 1,
                 order |-> @.order, delta |-> @.delta, version |-> text[n]]]
    /\ UNCHANGED <<text, vector, embedQueue, rejected, writer, outages, unrefreshed>>

\* Back to the queue with what the call came to.
After(d, done, terminal, retry) ==
    LET n == Turn(d)
        delta == drainer[d].delta
        v == drainer[d].version
    IN  drainer' = [drainer EXCEPT ![d] =
            [at |-> "next", todo |-> Tail(@.todo), known |-> @.known, calls |-> @.calls,
             order |-> IF retry THEN Append(@.order, n) ELSE @.order,
             delta |-> [done |-> IF done THEN With(delta.done, n, v) ELSE delta.done,
                        terminal |-> IF terminal THEN delta.terminal \cup {n} ELSE delta.terminal,
                        retry |-> IF retry THEN With(delta.retry, n, v) ELSE delta.retry]]]

\* The answer replaces whatever vector the node has, and its record: an older answer
\* also those of the present text.
Outdone(n) == vector[n] = text[n] \/ InQuarantine(n)
Store(d) ==
    /\ DrainerAt(d, "calling") /\ drainer[d].version \notin TooLarge
    /\ vector' = [vector EXCEPT ![Turn(d)] = drainer[d].version]
    /\ rejected' = [rejected EXCEPT ![Turn(d)] = NoText]
    /\ unrefreshed' = IF drainer[d].version = text[Turn(d)] THEN unrefreshed \ {Turn(d)}
                 ELSE IF Outdone(Turn(d)) THEN unrefreshed \cup {Turn(d)}
                 ELSE unrefreshed
    /\ After(d, TRUE, FALSE, FALSE)
    /\ UNCHANGED <<text, embedQueue, writer, outages>>

Reject(d) ==
    /\ DrainerAt(d, "calling") /\ drainer[d].version \in TooLarge
    /\ After(d, TRUE, TRUE, FALSE)
    /\ UNCHANGED <<text, vector, embedQueue, rejected, writer, outages, unrefreshed>>

Fail(d) ==
    /\ DrainerAt(d, "calling") /\ outages < MaxOutages
    /\ outages' = outages + 1
    /\ After(d, FALSE, FALSE, TRUE)
    /\ UNCHANGED <<text, vector, embedQueue, rejected, writer, unrefreshed>>

\* Mutant: what the drain did counts by node, not by text.
UnchangedIds(outcome) == DOMAIN outcome

\* What the drain did counts where the text is still the one it saw.
Unchanged(outcome) == {n \in DOMAIN outcome : text[n] = outcome[n]}
Drained(d) ==
    LET done == Unchanged(drainer[d].delta.done)
        again == Unchanged(drainer[d].delta.retry) \cap ToSet(embedQueue)
    IN  Without(embedQueue, done \cup again)
            \o Where(drainer[d].order, again)

Persist(d) ==
    /\ DrainerAt(d, "next")
    /\ drainer[d].todo = <<>> \/ drainer[d].calls = MaxBatch
    /\ embedQueue' = Drained(d)
    /\ rejected' = [n \in Texts |->
          IF n \notin Unchanged(drainer[d].delta.done) THEN rejected[n]
          ELSE IF n \in drainer[d].delta.terminal THEN text[n] ELSE NoText]
    /\ drainer' = [drainer EXCEPT ![d] = Resting]
    /\ UNCHANGED <<text, vector, writer, outages, unrefreshed>>

DrainDies(d) ==
    /\ drainer[d] # Resting
    /\ drainer' = [drainer EXCEPT ![d] = Resting]
    /\ UNCHANGED <<text, vector, embedQueue, rejected, writer, outages, unrefreshed>>

-----------------------------------------------------------------------------
EmbeddingsNext ==
    \/ \E w \in Writers :
          \/ EnqueueReads(w) \/ EnqueueWrites(w) \/ EnqueueFails(w)
          \/ DeleteEmbedding(w) \/ ClearReads(w) \/ ClearWrites(w) \/ ClearFails(w)
          \/ \E n \in Texts : Edit(w, n) \/ Retire(w, n)
    \/ \E n \in Texts : EditTask(n) \/ UpdateNode(n)
    \/ \E d \in Drainers :
          \/ DrainStarts(d) \/ Dismiss(d) \/ CallProvider(d) \/ Store(d) \/ Reject(d) \/ Fail(d)
          \/ Persist(d) \/ DrainDies(d)

EmbeddingsSpec == EmbeddingsInit /\ [][EmbeddingsNext]_embeddingVars

-----------------------------------------------------------------------------
EmbeddingsTypeOK ==
    /\ text \in [Texts -> TextVersions] /\ vector \in [Texts -> TextVersions]
    /\ rejected \in [Texts -> TextVersions]
    /\ embedQueue \in Seq(Texts) /\ IsInjective(embedQueue)
    /\ unrefreshed \subseteq Texts

\* A node whose vector is not of its text is on the queue, in quarantine with that text,
\* about to be queued by the edit that changed it, or one of those (unrefreshed) that a write
\* without its entry, a failed entry, a copy of queue or quarantine written back over
\* what others had written, or an older answer stored over the present one has cost its
\* refresh.  Nothing else does: an edit during a provider call, a rejected text, an outage,
\* a drain that dies and drains that persist one after the other lose none, however many
\* edit and drain (vectors.py:948-981).
StaleIsQueued ==
    \A n \in Texts \ unrefreshed :
        \/ text[n] = NoText \/ vector[n] = text[n] \/ InQuarantine(n)
        \/ OnQueue(n) \/ Editors(n) # {}

=============================================================================
