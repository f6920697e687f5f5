------------------------------ MODULE Filters ------------------------------
(* Rows of a queue that are selected by a set: SelectSeq for a test that is *)
(* membership, as a recursive function, which can be reasoned about.        *)
EXTENDS Integers, Sequences

\* The rows of s that are in P, in their order.
Where(s, P) ==
    LET found[i \in 0..Len(s)] ==
          IF i = 0 THEN <<>>
          ELSE IF s[i] \in P THEN Append(found[i - 1], s[i]) ELSE found[i - 1]
    IN  found[Len(s)]
=============================================================================
