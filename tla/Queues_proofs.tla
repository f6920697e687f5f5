--------------------------- MODULE Queues_proofs ---------------------------
(* What holds of the queues for any processes, rows and bounds: grading    *)
(* (reinforce.py), the deferred embedding of nodes (vectors.py), the       *)
(* alerts of the supervisor (supervisor_notifications.py) and the queue of *)
(* reviews (sim.py, sim_queue.py, adaptive_sim.py).  Each part strengthens *)
(* the properties of its component until they are inductive and proves     *)
(* what follows from that.                                                 *)
EXTENDS Reviews, Grading, Embeddings, Alerts, FiniteSetTheorems, SequenceTheorems,
        WellFoundedInduction, TLAPS

-----------------------------------------------------------------------------
(* The rows of a queue that are selected by a set, and what a queue holds  *)
(* when a row is put last, taken first, or moved behind the others.        *)

\* What s holds (ToSet), and that it holds nothing twice.
Holds(s, x) == \E i \in DOMAIN s : s[i] = x
Distinct(s) == \A i, j \in DOMAIN s : s[i] = s[j] => i = j

\* Induction, for a set of numbers.
LEMMA Numbers ==
    ASSUME NEW S, 0 \in S, \A n \in Nat : n \in S => n + 1 \in S
    PROVE  \A n \in Nat : n \in S
<1> DEFINE rest == Nat \ S
<1>1. ASSUME rest # {} PROVE FALSE
  <2>1. IsWellFoundedOn(OpToRel(<, Nat), Nat)
    BY NatLessThanWellFounded
  <2>2. PICK n \in rest : \A m \in rest : ~ (<<m, n>> \in OpToRel(<, Nat))
    <3> DEFINE less == OpToRel(<, Nat)
    <3>1. IsWellFoundedOn(less, Nat) /\ rest \subseteq Nat /\ rest # {}
      BY <1>1, <2>1
    <3> HIDE DEF less, rest
    <3>2. \E x \in rest : \A y \in rest : ~ (<<y, x>> \in less)
      BY <3>1, WFMin
    <3> QED
      BY <3>2 DEF less
  <2>3. n \in Nat /\ n # 0
    OBVIOUS
  <2>4. n - 1 \in Nat /\ n - 1 < n /\ n = (n - 1) + 1
    BY <2>3
  <2>5. n - 1 \notin S
    BY <2>4
  <2>6. <<n - 1, n>> \in OpToRel(<, Nat)
    BY <2>3, <2>4 DEF OpToRel
  <2> QED
    BY <2>2, <2>4, <2>5, <2>6
<1> QED
  BY <1>1

\* One row more.
Taken(f, x, P) == IF x \in P THEN Append(f, x) ELSE f

\* The rows found among the first ones, as Where finds them.
IsFound(f, s, n, P) ==
    /\ f[0] = <<>>
    /\ \A i \in 1..n : f[i] = Taken(f[i - 1], s[i], P)

\* There are such rows, found one by one.
LEMMA FoundExists ==
    ASSUME NEW T, NEW s \in Seq(T), NEW P
    PROVE  \E f \in [0..Len(s) -> Seq(T)] : IsFound(f, s, Len(s), P)
<1> DEFINE S == {n \in Nat : n <= Len(s) => \E f \in [0..n -> Seq(T)] : IsFound(f, s, n, P)}
<1>1. 0 \in S
  <2>1. [i \in 0..0 |-> <<>>] \in [0..0 -> Seq(T)] /\ IsFound([i \in 0..0 |-> <<>>], s, 0, P)
    BY EmptySeq DEF IsFound
  <2> QED
    BY <2>1
<1>2. ASSUME NEW n \in Nat, n \in S PROVE n + 1 \in S
  <2> SUFFICES ASSUME n + 1 <= Len(s)
               PROVE  \E f \in [0..(n + 1) -> Seq(T)] : IsFound(f, s, n + 1, P)
    OBVIOUS
  <2>1. Len(s) \in Nat /\ n <= Len(s)
    BY LenProperties
  <2>2. PICK f \in [0..n -> Seq(T)] : IsFound(f, s, n, P)
    BY <1>2, <2>1
  <2>3. s[n + 1] \in T
    BY <2>1, ElementOfSeq
  <2> DEFINE g == [i \in 0..(n + 1) |-> IF i <= n THEN f[i] ELSE Taken(f[n], s[n + 1], P)]
  <2>4. Taken(f[n], s[n + 1], P) \in Seq(T)
    BY <2>3 DEF Taken
  <2>5. g \in [0..(n + 1) -> Seq(T)]
    BY <2>4
  <2>6. \A i \in 0..n : g[i] = f[i]
    OBVIOUS
  <2>7. g[n + 1] = Taken(f[n], s[n + 1], P)
    OBVIOUS
  <2>8. IsFound(g, s, n + 1, P)
    <3> HIDE DEF g
    <3>1. g[0] = <<>>
      BY <2>2, <2>6 DEF IsFound
    <3>2. ASSUME NEW i \in 1..(n + 1) PROVE g[i] = Taken(g[i - 1], s[i], P)
      <4>1. CASE i = n + 1
        <5>1. i - 1 = n /\ n \in 0..n
          BY <4>1
        <5>2. g[i - 1] = f[n]
          BY <5>1, <2>6
        <5> QED
          BY <2>7, <4>1, <5>2
      <4>2. CASE i # n + 1
        <5>1. i \in 1..n /\ i \in 0..n /\ i - 1 \in 0..n
          BY <4>2
        <5> QED
          BY <2>2, <2>6, <5>1 DEF IsFound
      <4> QED
        BY <4>1, <4>2
    <3> QED
      BY <3>1, <3>2 DEF IsFound
  <2> QED
    BY <2>5, <2>8
<1>3. \A n \in Nat : n \in S
  <2> HIDE DEF S
  <2> QED
    BY <1>1, <1>2, Numbers
<1>4. Len(s) \in Nat
  BY LenProperties
<1> QED
  BY <1>3, <1>4

\* So there is what Where chooses.
LEMMA WhereFound ==
    ASSUME NEW T, NEW s \in Seq(T), NEW P
    PROVE  \E f : IsFound(f, s, Len(s), P) /\ Where(s, P) = f[Len(s)]
<1> DEFINE N == Len(s)
           Is(f) == f = [i \in 0..N |-> IF i = 0 THEN <<>>
                                        ELSE IF s[i] \in P THEN Append(f[i - 1], s[i]) ELSE f[i - 1]]
           found == CHOOSE f : Is(f)
<1>1. N \in Nat
  BY LenProperties
<1>2. PICK f \in [0..N -> Seq(T)] : IsFound(f, s, N, P)
  BY FoundExists
<1>3. Is(f)
  <2>1. \A i \in 0..N : f[i] = IF i = 0 THEN <<>>
                            ELSE IF s[i] \in P THEN Append(f[i - 1], s[i]) ELSE f[i - 1]
    <3> SUFFICES ASSUME NEW i \in 0..N
                 PROVE  f[i] = IF i = 0 THEN <<>>
                               ELSE IF s[i] \in P THEN Append(f[i - 1], s[i]) ELSE f[i - 1]
      OBVIOUS
    <3>1. i = 0 \/ i \in 1..N
      BY <1>1
    <3> QED
      BY <1>2, <3>1 DEF IsFound, Taken
  <2> HIDE DEF N
  <2> QED
    BY <1>2, <2>1
<1>4. Is(found)
  BY <1>3
<1>5. Where(s, P) = found[N]
  BY DEF Where
<1>6. IsFound(found, s, N, P)
  <2> HIDE DEF found
  <2>1. \A i \in 0..N : found[i] = IF i = 0 THEN <<>>
                            ELSE IF s[i] \in P THEN Append(found[i - 1], s[i]) ELSE found[i - 1]
    BY <1>4
  <2>2. 0 \in 0..N /\ \A i \in 1..N : i \in 0..N /\ i # 0
    BY <1>1
  <2> HIDE DEF Is
  <2> QED
    BY <2>1, <2>2 DEF IsFound, Taken
<1> QED
  BY <1>5, <1>6

\* What is appended to a queue is in it, once if it was not in it before.
LEMMA Appended ==
    ASSUME NEW T, NEW f \in Seq(T), NEW x \in T
    PROVE  /\ Append(f, x) \in Seq(T) /\ Len(Append(f, x)) = Len(f) + 1
           /\ \A y : Holds(Append(f, x), y) <=> Holds(f, y) \/ y = x
           /\ Distinct(f) /\ ~Holds(f, x) => Distinct(Append(f, x))
<1> DEFINE g == Append(f, x)
<1>1. /\ g \in Seq(T) /\ Len(g) = Len(f) + 1 /\ Len(f) \in Nat
      /\ \A i \in 1..Len(f) : g[i] = f[i]
      /\ g[Len(f) + 1] = x
  BY LenProperties
<1> HIDE DEF g
<1>2. DOMAIN f = 1..Len(f) /\ DOMAIN g = 1..(Len(f) + 1)
  BY <1>1, LenProperties
<1>3. \A y : Holds(g, y) <=> Holds(f, y) \/ y = x
  <2>1. ASSUME NEW y, Holds(g, y) PROVE Holds(f, y) \/ y = x
    <3>1. PICK i \in 1..(Len(f) + 1) : g[i] = y
      BY <1>2, <2>1 DEF Holds
    <3>2. i = Len(f) + 1 \/ i \in 1..Len(f)
      BY <1>1
    <3> QED
      BY <1>1, <1>2, <3>1, <3>2 DEF Holds
  <2>2. ASSUME NEW y, Holds(f, y) PROVE Holds(g, y)
    <3>1. PICK i \in 1..Len(f) : f[i] = y
      BY <1>2, <2>2 DEF Holds
    <3>2. i \in 1..(Len(f) + 1) /\ g[i] = y
      BY <1>1, <3>1
    <3> QED
      BY <1>2, <3>2 DEF Holds
  <2>3. Holds(g, x)
    <3>1. Len(f) + 1 \in 1..(Len(f) + 1)
      BY <1>1
    <3> QED
      BY <1>1, <1>2, <3>1 DEF Holds
  <2> QED
    BY <2>1, <2>2, <2>3
<1>4. ASSUME Distinct(f), ~Holds(f, x) PROVE Distinct(g)
  <2> SUFFICES ASSUME NEW i \in 1..(Len(f) + 1), NEW j \in 1..(Len(f) + 1), g[i] = g[j]
               PROVE  i = j
    BY <1>2 DEF Distinct
  <2>1. (i = Len(f) + 1 \/ i \in 1..Len(f)) /\ (j = Len(f) + 1 \/ j \in 1..Len(f))
    BY <1>1
  <2>2. \A k \in 1..Len(f) : g[k] # x
    BY <1>1, <1>2, <1>4 DEF Holds
  <2> QED
    BY <1>1, <1>2, <1>4, <2>1, <2>2 DEF Distinct
<1> QED
  BY <1>1, <1>3, <1>4 DEF g

\* Where keeps what is in the set, nothing else, and nothing twice.
LEMMA Filtered ==
    ASSUME NEW T, NEW s \in Seq(T), NEW P
    PROVE  /\ Where(s, P) \in Seq(T) /\ Len(Where(s, P)) <= Len(s)
           /\ \A x : Holds(Where(s, P), x) <=> Holds(s, x) /\ x \in P
           /\ Distinct(s) => Distinct(Where(s, P))
<1>1. PICK f : IsFound(f, s, Len(s), P) /\ Where(s, P) = f[Len(s)]
  BY WhereFound
<1>2. Len(s) \in Nat /\ DOMAIN s = 1..Len(s)
  BY LenProperties
<1> DEFINE Good(n) ==
              /\ f[n] \in Seq(T) /\ Len(f[n]) <= n
              /\ \A x : Holds(f[n], x) <=> x \in P /\ \E i \in 1..n : s[i] = x
              /\ Distinct(s) => Distinct(f[n])
           S == {n \in Nat : n <= Len(s) => Good(n)}
<1>3. 0 \in S
  <2>1. f[0] = <<>> /\ <<>> \in Seq(T) /\ Len(<<>>) = 0 /\ DOMAIN <<>> = 1..0
    BY <1>1, EmptySeq DEF IsFound
  <2>2. \A i : i \notin 1..0
    OBVIOUS
  <2>3. (\A x : ~Holds(f[0], x)) /\ Distinct(f[0])
    BY <2>1, <2>2 DEF Holds, Distinct
  <2>4. \A x : ~ \E i \in 1..0 : s[i] = x
    BY <2>2
  <2>5. f[0] \in Seq(T) /\ Len(f[0]) <= 0
    BY <2>1
  <2>6. Good(0)
    BY <2>3, <2>4, <2>5
  <2> QED
    BY <2>6
<1>4. ASSUME NEW n \in Nat, n \in S PROVE n + 1 \in S
  <2> SUFFICES ASSUME n + 1 <= Len(s) PROVE Good(n + 1)
    OBVIOUS
  <2>1. Good(n) /\ n + 1 \in 1..Len(s)
    BY <1>2, <1>4
  <2>2. s[n + 1] \in T /\ f[n + 1] = Taken(f[n], s[n + 1], P)
    <3>1. (n + 1) - 1 = n
      OBVIOUS
    <3> QED
      BY <1>1, <2>1, <3>1, ElementOfSeq DEF IsFound
  <2>3. \A x : (\E i \in 1..(n + 1) : s[i] = x) <=> (\E i \in 1..n : s[i] = x) \/ x = s[n + 1]
    <3>1. \A i : i \in 1..(n + 1) <=> i \in 1..n \/ i = n + 1
      OBVIOUS
    <3> QED
      BY <3>1
  <2> DEFINE g == f[n]
             y == s[n + 1]
  <2>4. /\ g \in Seq(T) /\ Len(g) <= n /\ Len(g) \in Nat
        /\ \A x : Holds(g, x) <=> x \in P /\ \E i \in 1..n : s[i] = x
        /\ Distinct(s) => Distinct(g)
    BY <2>1, LenProperties
  <2>5. y \in T /\ f[n + 1] = Taken(g, y, P)
    BY <2>2
  <2>6. Distinct(s) => ~ \E i \in 1..n : s[i] = y
    <3>1. \A i \in 1..n : i \in DOMAIN s /\ i # n + 1
      BY <1>2, <2>1
    <3>2. n + 1 \in DOMAIN s
      BY <1>2, <2>1
    <3> QED
      BY <3>1, <3>2 DEF Distinct
  <2>7. CASE y \in P
    <3>1. f[n + 1] = Append(g, y)
      BY <2>5, <2>7 DEF Taken
    <3>2. /\ Append(g, y) \in Seq(T) /\ Len(Append(g, y)) = Len(g) + 1
          /\ \A x : Holds(Append(g, y), x) <=> Holds(g, x) \/ x = y
          /\ Distinct(g) /\ ~Holds(g, y) => Distinct(Append(g, y))
      BY <2>4, <2>5, Appended
    <3>3. Distinct(s) => Distinct(g) /\ ~Holds(g, y)
      BY <2>4, <2>6
    <3>4. Len(g) + 1 <= n + 1
      BY <2>4
    <3>5. \A x : Holds(Append(g, y), x) <=> x \in P /\ \E i \in 1..(n + 1) : s[i] = x
      BY <2>3, <2>4, <2>7, <3>2
    <3> QED
      BY <3>1, <3>2, <3>3, <3>4, <3>5
  <2>8. CASE y \notin P
    <3>1. f[n + 1] = g
      BY <2>5, <2>8 DEF Taken
    <3>2. Len(g) <= n + 1
      BY <2>4
    <3>3. \A x : Holds(g, x) <=> x \in P /\ \E i \in 1..(n + 1) : s[i] = x
      BY <2>3, <2>4, <2>8
    <3> QED
      BY <2>4, <3>1, <3>2, <3>3
  <2> QED
    BY <2>7, <2>8
<1>5. Len(s) \in S
  <2> HIDE DEF S
  <2>1. \A n \in Nat : n \in S
    BY <1>3, <1>4, Numbers
  <2> QED
    BY <1>2, <2>1
<1>6. Good(Len(s))
  BY <1>2, <1>5
<1>7. \A x : (\E i \in 1..Len(s) : s[i] = x) <=> Holds(s, x)
  BY <1>2 DEF Holds
<1> QED
  BY <1>1, <1>6, <1>7

\* What a sequence holds is its set.
LEMMA HeldIn ==
    ASSUME NEW s
    PROVE  \A x : x \in ToSet(s) <=> Holds(s, x)
BY DEF ToSet, Holds

\* The same of the sets that sequences are made of.
LEMMA WhereSet ==
    ASSUME NEW T, NEW s \in Seq(T), NEW P
    PROVE  /\ Where(s, P) \in Seq(T) /\ Len(Where(s, P)) <= Len(s) /\ Len(Where(s, P)) \in Nat
           /\ ToSet(Where(s, P)) = ToSet(s) \cap P /\ ToSet(s) \subseteq T
           /\ Distinct(s) => Distinct(Where(s, P))
<1>1. ToSet(s) \subseteq T
  BY LenProperties DEF ToSet
<1>2. \A x : x \in ToSet(Where(s, P)) <=> x \in ToSet(s) \cap P
  BY Filtered, HeldIn
<1> QED
  BY <1>1, <1>2, Filtered, LenProperties

\* A row put last.
LEMMA AppendSet ==
    ASSUME NEW T, NEW s \in Seq(T), NEW x \in T
    PROVE  /\ Append(s, x) \in Seq(T) /\ Len(Append(s, x)) = Len(s) + 1
           /\ ToSet(Append(s, x)) = ToSet(s) \cup {x}
           /\ Distinct(s) /\ x \notin ToSet(s) => Distinct(Append(s, x))
<1>1. \A y : y \in ToSet(Append(s, x)) <=> y \in ToSet(s) \cup {x}
  BY Appended, HeldIn
<1> QED
  BY <1>1, Appended, HeldIn

\* Two sequences one after the other.
LEMMA ConcatSet ==
    ASSUME NEW T, NEW s \in Seq(T), NEW t \in Seq(T)
    PROVE  /\ s \o t \in Seq(T) /\ Len(s \o t) = Len(s) + Len(t)
           /\ ToSet(s \o t) = ToSet(s) \cup ToSet(t)
           /\ Distinct(s) /\ Distinct(t) /\ ToSet(s) \cap ToSet(t) = {} => Distinct(s \o t)
<1> DEFINE u == s \o t
<1>1. /\ u \in Seq(T) /\ Len(u) = Len(s) + Len(t)
      /\ \A i \in 1..(Len(s) + Len(t)) : u[i] = IF i <= Len(s) THEN s[i] ELSE t[i - Len(s)]
  BY ConcatProperties
<1> HIDE DEF u
<1>2. /\ Len(s) \in Nat /\ Len(t) \in Nat /\ DOMAIN s = 1..Len(s) /\ DOMAIN t = 1..Len(t)
      /\ DOMAIN u = 1..(Len(s) + Len(t))
  BY <1>1, LenProperties
<1>3. ASSUME NEW i \in DOMAIN u
      PROVE  \/ i \in DOMAIN s /\ u[i] = s[i]
             \/ i - Len(s) \in DOMAIN t /\ u[i] = t[i - Len(s)] /\ i \notin DOMAIN s
  BY <1>1, <1>2
<1>4. \A i \in DOMAIN s : i \in DOMAIN u /\ u[i] = s[i]
  BY <1>1, <1>2
<1>5. \A i \in DOMAIN t : i + Len(s) \in DOMAIN u /\ u[i + Len(s)] = t[i]
  BY <1>1, <1>2
<1>6. ToSet(u) = ToSet(s) \cup ToSet(t)
  <2>1. \A x : Holds(u, x) <=> Holds(s, x) \/ Holds(t, x)
    BY <1>3, <1>4, <1>5 DEF Holds
  <2> QED
    BY <2>1, HeldIn
<1>7. ASSUME Distinct(s), Distinct(t), ToSet(s) \cap ToSet(t) = {} PROVE Distinct(u)
  <2> SUFFICES ASSUME NEW i \in DOMAIN u, NEW j \in DOMAIN u, u[i] = u[j] PROVE i = j
    BY DEF Distinct
  <2>1. \A k \in DOMAIN s, l \in DOMAIN t : s[k] # t[l]
    BY <1>7 DEF ToSet
  <2>2. i \in Int /\ j \in Int
    BY <1>2
  <2>3. CASE i \in DOMAIN s
    BY <1>3, <1>7, <2>1, <2>3 DEF Distinct
  <2>4. CASE i \notin DOMAIN s
    <3>1. i - Len(s) \in DOMAIN t /\ u[i] = t[i - Len(s)]
      BY <1>3, <2>4
    <3>2. j - Len(s) \in DOMAIN t /\ u[j] = t[j - Len(s)]
      BY <1>3, <2>1, <3>1
    <3>3. i - Len(s) = j - Len(s)
      BY <1>7, <3>1, <3>2 DEF Distinct
    <3> QED
      BY <1>2, <2>2, <3>3
  <2> QED
    BY <2>3, <2>4
<1> QED
  BY <1>1, <1>6, <1>7 DEF u

\* The end of a sequence.
LEMMA EndSet ==
    ASSUME NEW T, NEW s \in Seq(T), NEW m \in Nat \ {0}
    PROVE  /\ SubSeq(s, m, Len(s)) \in Seq(T)
           /\ Len(SubSeq(s, m, Len(s))) = IF m <= Len(s) THEN Len(s) - m + 1 ELSE 0
           /\ ToSet(SubSeq(s, m, Len(s))) \subseteq ToSet(s)
           /\ m <= Len(s) => s[Len(s)] \in ToSet(SubSeq(s, m, Len(s)))
           /\ Distinct(s) => Distinct(SubSeq(s, m, Len(s)))
<1> DEFINE e == SubSeq(s, m, Len(s))
<1>1. Len(s) \in Nat /\ DOMAIN s = 1..Len(s) /\ \A i \in m..Len(s) : i \in DOMAIN s /\ s[i] \in T
  BY LenProperties
<1>2. /\ e \in Seq(T) /\ Len(e) = IF m <= Len(s) THEN Len(s) - m + 1 ELSE 0
      /\ \A i \in 1..(Len(s) - m + 1) : e[i] = s[m + i - 1]
  BY <1>1, SubSeqProperties
<1> HIDE DEF e
<1>3. DOMAIN e = 1..Len(e)
  BY <1>2, LenProperties
<1>4. \A i \in DOMAIN e : i \in Int /\ m + i - 1 \in DOMAIN s /\ e[i] = s[m + i - 1]
  BY <1>1, <1>2, <1>3
<1>5. ToSet(e) \subseteq ToSet(s)
  BY <1>4 DEF ToSet
<1>6. m <= Len(s) => s[Len(s)] \in ToSet(e)
  <2> SUFFICES ASSUME m <= Len(s) PROVE s[Len(s)] \in ToSet(e)
    OBVIOUS
  <2>1. Len(s) - m + 1 \in 1..(Len(s) - m + 1) /\ m + (Len(s) - m + 1) - 1 = Len(s)
    BY <1>1
  <2>2. Len(s) - m + 1 \in DOMAIN e /\ e[Len(s) - m + 1] = s[Len(s)]
    BY <1>2, <1>3, <2>1
  <2> QED
    BY <2>2 DEF ToSet
<1>7. Distinct(s) => Distinct(e)
  <2> SUFFICES ASSUME Distinct(s), NEW i \in DOMAIN e, NEW j \in DOMAIN e, e[i] = e[j] PROVE i = j
    BY DEF Distinct
  <2>1. m + i - 1 = m + j - 1
    BY <1>4 DEF Distinct
  <2> QED
    BY <1>4, <2>1
<1> QED
  BY <1>2, <1>5, <1>6, <1>7 DEF e

\* A sequence without its first element.
LEMMA TailSet ==
    ASSUME NEW T, NEW s \in Seq(T), s # <<>>
    PROVE  /\ Tail(s) \in Seq(T) /\ s[1] \in T /\ s[1] \in ToSet(s) /\ 1 \in DOMAIN s
           /\ ToSet(s) = ToSet(Tail(s)) \cup {s[1]}
           /\ Distinct(s) => Distinct(Tail(s)) /\ s[1] \notin ToSet(Tail(s))
<1>1. Len(s) \in Nat \ {0} /\ DOMAIN s = 1..Len(s) /\ s \in [1..Len(s) -> T]
  BY EmptySeq, LenProperties
<1>2. /\ Tail(s) \in Seq(T) /\ Len(Tail(s)) = Len(s) - 1
      /\ \A i \in 1..Len(Tail(s)) : Tail(s)[i] = s[i + 1]
  BY HeadTailProperties
<1> DEFINE t == Tail(s)
<1> HIDE DEF t
<1>3. t \in Seq(T) /\ DOMAIN t = 1..(Len(s) - 1) /\ \A i \in DOMAIN t : t[i] = s[i + 1] /\ i + 1 \in DOMAIN s /\ i + 1 # 1
  BY <1>1, <1>2, LenProperties DEF t
<1>4. 1 \in DOMAIN s
  BY <1>1
<1>5. \A i \in DOMAIN s : i = 1 \/ (i - 1 \in DOMAIN t /\ s[i] = t[i - 1])
  BY <1>1, <1>3
<1>6. ToSet(s) = ToSet(t) \cup {s[1]}
  BY <1>3, <1>4, <1>5 DEF ToSet
<1>7. ASSUME Distinct(s) PROVE Distinct(t) /\ s[1] \notin ToSet(t)
  <2>1. \A i \in DOMAIN t : i \in Int
    BY <1>3
  <2> QED
    BY <1>3, <1>4, <1>7, <2>1 DEF Distinct, ToSet
<1> QED
  BY <1>1, <1>3, <1>4, <1>6, <1>7 DEF t

\* What two sets without common rows select is no more than there is.
LEMMA WhereTwo ==
    ASSUME NEW T, NEW s \in Seq(T), NEW P, NEW Q, P \cap Q = {}
    PROVE  Len(Where(s, P)) + Len(Where(s, Q)) <= Len(s)
<1>1. PICK f : IsFound(f, s, Len(s), P) /\ Where(s, P) = f[Len(s)]
  BY WhereFound
<1>2. PICK g : IsFound(g, s, Len(s), Q) /\ Where(s, Q) = g[Len(s)]
  BY WhereFound
<1>3. Len(s) \in Nat
  BY LenProperties
<1> DEFINE Good(n) == f[n] \in Seq(T) /\ g[n] \in Seq(T) /\ Len(f[n]) + Len(g[n]) <= n
           S == {n \in Nat : n <= Len(s) => Good(n)}
<1>4. 0 \in S
  <2>1. f[0] = <<>> /\ g[0] = <<>> /\ <<>> \in Seq(T) /\ Len(<<>>) = 0
    BY <1>1, <1>2, EmptySeq DEF IsFound
  <2>2. Good(0)
    BY <2>1
  <2> QED
    BY <2>2
<1>5. ASSUME NEW n \in Nat, n \in S PROVE n + 1 \in S
  <2> HIDE DEF Good
  <2> SUFFICES ASSUME n + 1 <= Len(s) PROVE Good(n + 1)
    OBVIOUS
  <2>1. Good(n) /\ n + 1 \in 1..Len(s) /\ (n + 1) - 1 = n
    BY <1>3, <1>5
  <2> DEFINE x == s[n + 1]
             a == f[n]
             b == g[n]
  <2>2. x \in T /\ f[n + 1] = Taken(a, x, P) /\ g[n + 1] = Taken(b, x, Q)
    BY <1>1, <1>2, <2>1, ElementOfSeq DEF IsFound
  <2>3. a \in Seq(T) /\ b \in Seq(T) /\ Len(a) \in Nat /\ Len(b) \in Nat /\ Len(a) + Len(b) <= n
    BY <2>1, LenProperties DEF Good
  <2> HIDE DEF a, b, x
  <2>4. /\ Append(a, x) \in Seq(T) /\ Len(Append(a, x)) = Len(a) + 1
        /\ Append(b, x) \in Seq(T) /\ Len(Append(b, x)) = Len(b) + 1
    BY <2>2, <2>3, Appended
  <2>5. x \notin P \/ x \notin Q
    OBVIOUS
  <2>6. /\ Taken(a, x, P) \in Seq(T) /\ Taken(b, x, Q) \in Seq(T)
        /\ Len(Taken(a, x, P)) + Len(Taken(b, x, Q)) <= n + 1
    <3>1. CASE x \in P
      <4>1. Taken(a, x, P) = Append(a, x) /\ Taken(b, x, Q) = b
        BY <2>5, <3>1 DEF Taken
      <4> QED
        BY <2>3, <2>4, <4>1
    <3>2. CASE x \in Q
      <4>1. Taken(b, x, Q) = Append(b, x) /\ Taken(a, x, P) = a
        BY <2>5, <3>2 DEF Taken
      <4> QED
        BY <2>3, <2>4, <4>1
    <3>3. CASE x \notin P /\ x \notin Q
      <4>1. Taken(b, x, Q) = b /\ Taken(a, x, P) = a
        BY <3>3 DEF Taken
      <4> QED
        BY <2>3, <4>1
    <3> QED
      BY <3>1, <3>2, <3>3
  <2> QED
    BY <2>2, <2>6 DEF Good
<1>6. Good(Len(s))
  <2> HIDE DEF Good
  <2>1. \A n \in Nat : n \in S
    <3> HIDE DEF S
    <3> QED
      BY <1>4, <1>5, Numbers
  <2> QED
    BY <1>3, <2>1
<1> QED
  BY <1>1, <1>2, <1>6

-----------------------------------------------------------------------------
(* Grading.  Only who has the marker of a conversation pays, so the grades *)
(* paid for it are no more than the stops that were forgotten and those    *)
(* that are stamped or about to be; the queue has one entry for a          *)
(* conversation, of its last stop, and a drain at work has each entry that *)
(* it leased still to do, among its retries, or answered.                  *)

GraderPlaces == {"new", "next", "claim", "claimed", "paid", "leaving", "done", "dead"}
Busy == {"next", "claim", "claimed", "paid", "leaving"}
InHand == {"claim", "claimed", "paid", "leaving"}

\* A job as a grader has it: one that a person asks for stands for no stop.
JobRows == [talk : Talks, stop : 0..MaxStops, trace : BOOLEAN, lease : Drains \cup {Nobody}, tries : Nat]
GraderRows == [at : GraderPlaces, list : Seq(JobRows), retry : SUBSET (Talks \X Retries)]

GradingFit ==
    /\ jobs \in Seq(Jobs) /\ Len(jobs) <= MaxQueued
    /\ marker \in [Talks -> Graders \cup {Nobody}]
    /\ stamped \in [Talks -> BOOLEAN]
    /\ grader \in [Graders -> GraderRows]
    /\ tick \in [Ticks -> [talk : SUBSET Talks, stamp : BOOLEAN]]
    /\ lapsed \subseteq Graders
    /\ tally \in Tallies
    /\ \A g \in Graders : grader[g].at \in InHand => grader[g].list # <<>>

\* Who grades has the marker, and what was paid for is stamped or about to be.
AtPaid(c) == \E g \in Graders : grader[g].at = "paid" /\ Talk(g) = c
Money ==
    /\ \A g \in lapsed : grader[g].at = "dead"
    /\ \A g \in Graders : grader[g].at \in {"claimed", "paid", "leaving"} => marker[Talk(g)] = g
    /\ \A c \in Talks : tally.paid[c] <= tally.forgotten[c] + (IF stamped[c] \/ AtPaid(c) THEN 1 ELSE 0)

\* A conversation has one entry, for its last stop.  A drain that is at work has
\* each entry that it leased before it, among those to be tried again, or behind it.
OneEntry(s) == Distinct(s) /\ \A x, y \in ToSet(s) : x.talk = y.talk => x = y
Provided(d, job) ==
    \/ \E x \in ToSet(grader[d].list) : x.talk = job.talk /\ x.stop = job.stop
    \/ \E retry \in Retries : <<job.talk, retry>> \in grader[d].retry
    \/ job.stop <= tally.answered[job.talk]
Queued ==
    /\ OneEntry(jobs)
    /\ \A job \in ToSet(jobs) : job.stop = tally.stops[job.talk]
    /\ \A c \in Talks :
         /\ tally.answered[c] <= tally.stops[c]
         /\ tally.answered[c] < tally.stops[c] => \E job \in ToSet(jobs) : job.talk = c
    /\ \A g \in Graders : \A job \in ToSet(grader[g].list) : job.stop <= tally.stops[job.talk]
    /\ \A d \in Drains : grader[d].at \in Busy =>
         \A job \in ToSet(jobs) : job.lease = d => Provided(d, job)

GradingInv == GradingFit /\ Money /\ Queued

-----------------------------------------------------------------------------
\* The tally has its fields.
LEMMA TallyTyped ==
    ASSUME NEW t \in Tallies, NEW c \in Talks
    PROVE  /\ t.stops \in [Talks -> 0..MaxStops] /\ t.answered \in [Talks -> 0..MaxStops]
           /\ t.paid \in [Talks -> Nat] /\ t.forgotten \in [Talks -> Nat]
           /\ t.stops[c] \in 0..MaxStops /\ t.answered[c] \in 0..MaxStops
           /\ t.paid[c] \in Nat /\ t.forgotten[c] \in Nat
           /\ t.stops[c] \in Nat /\ t.answered[c] \in Nat
<1>1. MaxStops \in Nat
  BY GradingAssumption
<1> QED
  BY <1>1 DEF Tallies

\* What changes in the tally.
LEMMA TallyChanges ==
    ASSUME NEW t \in Tallies
    PROVE  /\ \A c \in Talks :
                LET u == [t EXCEPT !.paid[c] = @ + 1] IN
                /\ u \in Tallies /\ u.stops = t.stops /\ u.answered = t.answered /\ u.forgotten = t.forgotten
                /\ u.paid = [t.paid EXCEPT ![c] = t.paid[c] + 1]
           /\ \A c \in Talks :
                LET u == [t EXCEPT !.forgotten[c] = @ + 1] IN
                /\ u \in Tallies /\ u.stops = t.stops /\ u.answered = t.answered /\ u.paid = t.paid
                /\ u.forgotten = [t.forgotten EXCEPT ![c] = t.forgotten[c] + 1]
           /\ \A a \in [Talks -> 0..MaxStops] :
                LET u == [t EXCEPT !.answered = a] IN
                /\ u \in Tallies /\ u.stops = t.stops /\ u.answered = a
                /\ u.forgotten = t.forgotten /\ u.paid = t.paid
<1>1. /\ t.stops \in [Talks -> 0..MaxStops] /\ t.answered \in [Talks -> 0..MaxStops]
      /\ t.paid \in [Talks -> Nat] /\ t.forgotten \in [Talks -> Nat]
  BY DEF Tallies
<1>2. ASSUME NEW f \in [Talks -> Nat]
      PROVE  \A c \in Talks : [f EXCEPT ![c] = f[c] + 1] \in [Talks -> Nat]
  BY <1>2
<1>3. ASSUME NEW p \in [Talks -> Nat]
      PROVE  LET u == [t EXCEPT !.paid = p] IN
             /\ u \in Tallies /\ u.stops = t.stops /\ u.answered = t.answered /\ u.forgotten = t.forgotten
             /\ u.paid = p
  BY <1>3 DEF Tallies
<1>4. ASSUME NEW p \in [Talks -> Nat]
      PROVE  LET u == [t EXCEPT !.forgotten = p] IN
             /\ u \in Tallies /\ u.stops = t.stops /\ u.answered = t.answered /\ u.paid = t.paid
             /\ u.forgotten = p
  BY <1>4 DEF Tallies
<1>5. ASSUME NEW a \in [Talks -> 0..MaxStops]
      PROVE  LET u == [t EXCEPT !.answered = a] IN
             /\ u \in Tallies /\ u.stops = t.stops /\ u.answered = a
             /\ u.forgotten = t.forgotten /\ u.paid = t.paid
  BY <1>5 DEF Tallies
<1>6. ASSUME NEW c \in Talks
      PROVE  /\ [t EXCEPT !.paid[c] = @ + 1] = [t EXCEPT !.paid = [t.paid EXCEPT ![c] = t.paid[c] + 1]]
             /\ [t EXCEPT !.forgotten[c] = @ + 1] = [t EXCEPT !.forgotten = [t.forgotten EXCEPT ![c] = t.forgotten[c] + 1]]
  BY <1>6
<1> QED
  BY <1>1, <1>2, <1>3, <1>4, <1>5, <1>6

\* A grader has its fields; what they become is all that changes.
LEMMA GraderTyped ==
    ASSUME GradingFit, NEW g \in Graders
    PROVE  /\ grader[g] \in GraderRows /\ grader[g].at \in GraderPlaces
           /\ grader[g].list \in Seq(JobRows) /\ grader[g].retry \in SUBSET (Talks \X Retries)
           /\ grader[g].list # <<>> => /\ grader[g].list[1] \in JobRows /\ Talk(g) \in Talks
                                       /\ grader[g].list[1] \in ToSet(grader[g].list)
<1>1. grader[g] \in GraderRows
  BY DEF GradingFit
<1>2. grader[g].list \in Seq(JobRows)
  BY <1>1 DEF GraderRows
<1>3. grader[g].list # <<>> => grader[g].list[1] \in JobRows /\ grader[g].list[1] \in ToSet(grader[g].list)
  BY <1>2, TailSet
<1>4. grader[g].list # <<>> => Talk(g) \in Talks
  BY <1>3 DEF Talk, JobRows
<1> QED
  BY <1>1, <1>2, <1>3, <1>4 DEF GraderRows

\* One grader moves, the others stay.
LEMMA OneGrader ==
    ASSUME GradingFit, NEW g \in Graders, NEW row \in GraderRows,
           grader' = [grader EXCEPT ![g] = row]
    PROVE  /\ grader' \in [Graders -> GraderRows] /\ grader'[g] = row
           /\ \A h \in Graders \ {g} : grader'[h] = grader[h]
BY DEF GradingFit

\* A grader that goes on keeps its list and its retries.
LEMMA GoesOn ==
    ASSUME GradingFit, NEW g \in Graders, NEW place \in GraderPlaces, Proceeds(g, place)
    PROVE  /\ grader' \in [Graders -> GraderRows]
           /\ grader'[g].at = place /\ grader'[g].list = grader[g].list /\ grader'[g].retry = grader[g].retry
           /\ \A h \in Graders \ {g} : grader'[h] = grader[h]
<1> DEFINE row == [grader[g] EXCEPT !.at = place]
<1>1. grader[g] \in GraderRows
  BY GraderTyped
<1>2. row \in GraderRows /\ row.at = place /\ row.list = grader[g].list /\ row.retry = grader[g].retry
  BY <1>1 DEF GraderRows
<1>3. grader' = [grader EXCEPT ![g] = row]
  BY DEF Proceeds
<1> HIDE DEF row
<1> QED
  BY <1>2, <1>3, OneGrader

\* The job in hand is over: the rest of the list, and maybe one more to try again.
LEMMA JobOver ==
    ASSUME GradingFit, NEW g \in Graders, grader[g].list # <<>>, NEW retry \in Retries \cup {"no"}, Over(g, retry)
    PROVE  /\ grader' \in [Graders -> GraderRows]
           /\ grader'[g].at = "next" /\ grader'[g].list = Tail(grader[g].list)
           /\ grader'[g].retry = IF retry = "no" THEN grader[g].retry ELSE grader[g].retry \cup {<<Talk(g), retry>>}
           /\ \A h \in Graders \ {g} : grader'[h] = grader[h]
<1> DEFINE again == IF retry = "no" THEN grader[g].retry ELSE grader[g].retry \cup {<<Talk(g), retry>>}
           row == [at |-> "next", list |-> Tail(grader[g].list), retry |-> again]
<1>1. Tail(grader[g].list) \in Seq(JobRows) /\ again \in SUBSET (Talks \X Retries)
  BY GraderTyped, TailSet
<1> HIDE DEF again
<1>2. row \in GraderRows /\ row.at = "next" /\ row.list = Tail(grader[g].list) /\ row.retry = again
  BY <1>1 DEF GraderRows, GraderPlaces
<1>3. grader' = [grader EXCEPT ![g] = row]
  BY DEF Over, again
<1> HIDE DEF row
<1> QED
  BY <1>2, <1>3, OneGrader DEF again

-----------------------------------------------------------------------------
(* Paid for and stamped                                                     *)

\* Steps of who has not paid leave what was paid for stamped.
LEMMA MoneyKept ==
    ASSUME GradingFit, Money, UNCHANGED <<marker, stamped, lapsed>>,
           tally'.paid = tally.paid, tally'.forgotten = tally.forgotten,
           \A g \in Graders :
               \/ grader'[g].at = grader[g].at /\ grader'[g].list = grader[g].list
               \/ /\ grader[g].at \notin {"paid", "dead"}
                  /\ grader'[g].at \notin {"claimed", "paid", "leaving"}
    PROVE  Money'
<1>1. \A g \in lapsed' : grader'[g].at = "dead"
  BY DEF Money, GradingFit
<1>2. \A g \in Graders : grader'[g].at \in {"claimed", "paid", "leaving"} => marker'[Talk(g)'] = g
  BY DEF Money, Talk
<1>3. ASSUME NEW c \in Talks
      PROVE  tally'.paid[c] <= tally'.forgotten[c] + (IF stamped'[c] \/ AtPaid(c)' THEN 1 ELSE 0)
  <2>1. AtPaid(c) => AtPaid(c)'
    BY DEF AtPaid, Talk
  <2>2. tally.paid[c] \in Nat /\ tally.forgotten[c] \in Nat
    BY TallyTyped DEF GradingFit
  <2>3. tally.paid[c] <= tally.forgotten[c] + (IF stamped[c] \/ AtPaid(c) THEN 1 ELSE 0)
    BY DEF Money
  <2> QED
    BY <2>1, <2>2, <2>3
<1> QED
  BY <1>1, <1>2, <1>3 DEF Money

\* A tick that writes an old stamp back forgets one grade, and counts it.
LEMMA TickWritesMoney ==
    ASSUME GradingFit, Money, NEW k \in Ticks, TickWrites(k)
    PROVE  /\ Money' /\ stamped' \in [Talks -> BOOLEAN] /\ tally' \in Tallies
           /\ tally'.stops = tally.stops /\ tally'.answered = tally.answered
<1>1. PICK c \in tick[k].talk :
        /\ stamped' = [stamped EXCEPT ![c] = tick[k].stamp]
        /\ tally' = IF stamped[c] /\ ~tick[k].stamp THEN [tally EXCEPT !.forgotten[c] = @ + 1] ELSE tally
  BY DEF TickWrites
<1>2. c \in Talks /\ tick[k].stamp \in BOOLEAN /\ tally \in Tallies
  BY DEF GradingFit
<1>3. stamped' \in [Talks -> BOOLEAN] /\ stamped'[c] = tick[k].stamp /\ \A e \in Talks \ {c} : stamped'[e] = stamped[e]
  BY <1>1, <1>2 DEF GradingFit
<1>4. /\ tally' \in Tallies /\ tally'.stops = tally.stops /\ tally'.answered = tally.answered
      /\ tally'.paid = tally.paid
      /\ tally'.forgotten = IF stamped[c] /\ ~tick[k].stamp
                            THEN [tally.forgotten EXCEPT ![c] = tally.forgotten[c] + 1] ELSE tally.forgotten
  BY <1>1, <1>2, TallyChanges
<1>5. UNCHANGED <<marker, grader, lapsed>>
  BY DEF TickWrites
<1>6. ASSUME NEW e \in Talks
      PROVE  tally'.paid[e] <= tally'.forgotten[e] + (IF stamped'[e] \/ AtPaid(e)' THEN 1 ELSE 0)
  <2>1. /\ tally.paid[e] \in Nat /\ tally.forgotten[e] \in Nat
        /\ tally.paid[e] <= tally.forgotten[e] + (IF stamped[e] \/ AtPaid(e) THEN 1 ELSE 0)
        /\ AtPaid(e)' <=> AtPaid(e)
    BY <1>2, <1>5, TallyTyped DEF Money, AtPaid, Talk
  <2>2. tally.forgotten \in [Talks -> Nat] /\ stamped[e] \in BOOLEAN
    BY <1>2, TallyTyped DEF GradingFit
  <2>3. CASE e # c
    <3>1. tally'.forgotten[e] = tally.forgotten[e] /\ stamped'[e] = stamped[e]
      BY <1>2, <1>3, <1>4, <2>2, <2>3
    <3> QED
      BY <1>4, <2>1, <3>1
  <2>4. CASE e = c /\ stamped[c] /\ ~tick[k].stamp
    <3>1. tally'.forgotten[e] = tally.forgotten[e] + 1
      BY <1>2, <1>4, <2>2, <2>4
    <3> QED
      BY <1>4, <2>1, <3>1
  <2>5. CASE e = c /\ ~(stamped[c] /\ ~tick[k].stamp)
    <3>1. tally'.forgotten[e] = tally.forgotten[e] /\ (stamped[e] => stamped'[e])
      BY <1>2, <1>3, <1>4, <2>5
    <3> QED
      BY <1>4, <2>1, <3>1
  <2> QED
    BY <2>3, <2>4, <2>5
<1>7. \A g \in lapsed' : grader'[g].at = "dead"
  BY <1>5 DEF Money
<1>8. \A g \in Graders : grader'[g].at \in {"claimed", "paid", "leaving"} => marker'[Talk(g)'] = g
  BY <1>5 DEF Money, Talk
<1> QED
  BY <1>3, <1>4, <1>6, <1>7, <1>8 DEF Money

\* A claim takes the place of a marker that nobody has any more.
LEMMA ClaimTalkMoney ==
    ASSUME GradingFit, Money, NEW g \in Graders, ClaimTalk(g)
    PROVE  Money' /\ marker' \in [Talks -> Graders \cup {Nobody}]
<1>1. /\ grader[g].at = "claim" /\ ~Held(Talk(g)) /\ UNCHANGED <<stamped, lapsed, tally>>
      /\ marker' = [marker EXCEPT ![Talk(g)] = g]
  BY DEF ClaimTalk, GraderAt
<1>2. /\ grader'[g].at = "claimed" /\ grader'[g].list = grader[g].list
      /\ \A h \in Graders \ {g} : grader'[h] = grader[h]
  BY GoesOn DEF ClaimTalk, GraderPlaces
<1>3. Talk(g) \in Talks
  BY <1>1, GraderTyped DEF GradingFit, InHand
<1>4. /\ marker' \in [Talks -> Graders \cup {Nobody}] /\ marker'[Talk(g)] = g
      /\ \A c \in Talks \ {Talk(g)} : marker'[c] = marker[c]
  BY <1>1, <1>3 DEF GradingFit
<1>5. ASSUME NEW h \in Graders, grader'[h].at \in {"claimed", "paid", "leaving"} PROVE marker'[Talk(h)'] = h
  <2>1. CASE h = g
    BY <1>2, <1>4, <2>1 DEF Talk
  <2>2. CASE h # g
    <3>1. Talk(h)' = Talk(h) /\ marker[Talk(h)] = h /\ grader[h].at \in {"claimed", "paid", "leaving"}
      BY <1>2, <1>5, <2>2 DEF Talk, Money
    <3>2. Talk(h) \in Talks
      BY <3>1, GraderTyped DEF GradingFit, InHand
    <3>3. h \notin lapsed /\ h # Nobody
      BY <3>1, GradingAssumption DEF Money, Nobody, Graders
    <3>4. Talk(h) # Talk(g)
      BY <1>1, <3>1, <3>3 DEF Held
    <3> QED
      BY <1>4, <3>1, <3>2, <3>4
  <2> QED
    BY <2>1, <2>2
<1>6. \A h \in lapsed' : grader'[h].at = "dead"
  BY <1>1, <1>2 DEF Money, GradingFit
<1>7. \A c \in Talks : AtPaid(c)' <=> AtPaid(c)
  BY <1>1, <1>2 DEF AtPaid, Talk
<1>8. \A c \in Talks : tally'.paid[c] <= tally'.forgotten[c] + (IF stamped'[c] \/ AtPaid(c)' THEN 1 ELSE 0)
  BY <1>1, <1>7 DEF Money
<1> QED
  BY <1>4, <1>5, <1>6, <1>8 DEF Money

\* Who has the marker is the only one to pay.
LEMMA PayMoney ==
    ASSUME GradingFit, Money, NEW g \in Graders, Pay(g)
    PROVE  /\ Money' /\ tally' \in Tallies
           /\ tally'.stops = tally.stops /\ tally'.answered = tally.answered
<1> DEFINE c == Talk(g)
<1>1. /\ grader[g].at = "claimed" /\ ~stamped[c] /\ UNCHANGED <<marker, stamped, lapsed>>
      /\ tally' = [tally EXCEPT !.paid[c] = @ + 1]
  BY DEF Pay, GraderAt, SeenGraded
<1>2. /\ grader'[g].at = "paid" /\ grader'[g].list = grader[g].list
      /\ \A h \in Graders \ {g} : grader'[h] = grader[h]
  BY GoesOn DEF Pay, GraderPlaces
<1>3. c \in Talks /\ tally \in Tallies
  BY <1>1, GraderTyped DEF GradingFit, InHand
<1>4. /\ tally' \in Tallies /\ tally'.stops = tally.stops /\ tally'.answered = tally.answered
      /\ tally'.forgotten = tally.forgotten /\ tally'.paid = [tally.paid EXCEPT ![c] = tally.paid[c] + 1]
  BY <1>1, <1>3, TallyChanges
<1>5. \A h \in Graders : Talk(h)' = Talk(h)
  BY <1>2 DEF Talk
<1>6. ~AtPaid(c)
  BY <1>1 DEF AtPaid, Money
<1>7. \A e : AtPaid(e) => AtPaid(e)'
  BY <1>1, <1>2, <1>5 DEF AtPaid
<1>11. \A e : e = c => AtPaid(e)'
  BY <1>2, <1>5 DEF AtPaid
<1> HIDE DEF c
<1>8. ASSUME NEW e \in Talks
      PROVE  tally'.paid[e] <= tally'.forgotten[e] + (IF stamped'[e] \/ AtPaid(e)' THEN 1 ELSE 0)
  <2>1. /\ tally.paid \in [Talks -> Nat] /\ tally.paid[e] \in Nat /\ tally.forgotten[e] \in Nat
        /\ tally.paid[e] <= tally.forgotten[e] + (IF stamped[e] \/ AtPaid(e) THEN 1 ELSE 0)
    BY <1>3, TallyTyped DEF Money
  <2>2. CASE e = c
    <3>1. tally.paid[e] <= tally.forgotten[e]
      BY <1>1, <1>6, <2>1, <2>2
    <3>2. tally'.paid[e] = tally.paid[e] + 1
      BY <1>4, <2>1, <2>2
    <3>3. AtPaid(e)'
      BY <1>11, <2>2
    <3> QED
      BY <1>4, <2>1, <3>1, <3>2, <3>3
  <2>3. CASE e # c
    <3>1. tally'.paid[e] = tally.paid[e]
      BY <1>3, <1>4, <2>1, <2>3
    <3> QED
      BY <1>1, <1>4, <1>7, <2>1, <3>1
  <2> QED
    BY <2>2, <2>3
<1>9. \A h \in lapsed' : grader'[h].at = "dead"
  BY <1>1, <1>2 DEF Money, GradingFit
<1>10. \A h \in Graders : grader'[h].at \in {"claimed", "paid", "leaving"} => marker'[Talk(h)'] = h
  BY <1>1, <1>2, <1>5 DEF Money
<1> QED
  BY <1>4, <1>8, <1>9, <1>10 DEF Money

\* What was paid for is stamped.
LEMMA StampMoney ==
    ASSUME GradingFit, Money, NEW g \in Graders, Stamp(g)
    PROVE  Money' /\ stamped' \in [Talks -> BOOLEAN]
<1>1. /\ grader[g].at = "paid" /\ UNCHANGED <<marker, lapsed, tally>>
      /\ stamped' = [stamped EXCEPT ![Talk(g)] = TRUE]
  BY DEF Stamp, GraderAt
<1>2. /\ grader'[g].at = "leaving" /\ grader'[g].list = grader[g].list
      /\ \A h \in Graders \ {g} : grader'[h] = grader[h]
  BY GoesOn DEF Stamp, GraderPlaces
<1>3. Talk(g) \in Talks
  BY <1>1, GraderTyped DEF GradingFit, InHand
<1>4. stamped' \in [Talks -> BOOLEAN] /\ stamped'[Talk(g)] = TRUE /\ \A e \in Talks \ {Talk(g)} : stamped'[e] = stamped[e]
  BY <1>1, <1>3 DEF GradingFit
<1>5. \A h \in Graders : Talk(h)' = Talk(h)
  BY <1>2 DEF Talk
<1>6. ASSUME NEW e \in Talks
      PROVE  tally'.paid[e] <= tally'.forgotten[e] + (IF stamped'[e] \/ AtPaid(e)' THEN 1 ELSE 0)
  <2>1. /\ tally.paid[e] \in Nat /\ tally.forgotten[e] \in Nat
        /\ tally.paid[e] <= tally.forgotten[e] + (IF stamped[e] \/ AtPaid(e) THEN 1 ELSE 0)
    BY TallyTyped DEF GradingFit, Money
  <2>2. stamped[e] \/ AtPaid(e) => stamped'[e] \/ AtPaid(e)'
    BY <1>1, <1>2, <1>4, <1>5 DEF AtPaid
  <2> QED
    BY <1>1, <2>1, <2>2
<1>7. \A h \in lapsed' : grader'[h].at = "dead"
  BY <1>1, <1>2 DEF Money, GradingFit
<1>8. \A h \in Graders : grader'[h].at \in {"claimed", "paid", "leaving"} => marker'[Talk(h)'] = h
  BY <1>1, <1>2, <1>5 DEF Money
<1> QED
  BY <1>4, <1>6, <1>7, <1>8 DEF Money

\* Who leaves a conversation leaves the marker, and nobody else's.
LEMMA LeaveMoney ==
    ASSUME GradingFit, Money, NEW g \in Graders, grader[g].at \in {"claimed", "leaving"},
           NEW retry \in Retries \cup {"no"}, Over(g, retry),
           marker' = [marker EXCEPT ![Talk(g)] = Nobody], UNCHANGED <<stamped, lapsed>>,
           tally'.paid = tally.paid, tally'.forgotten = tally.forgotten
    PROVE  Money' /\ marker' \in [Talks -> Graders \cup {Nobody}]
<1>1. grader[g].list # <<>> /\ Talk(g) \in Talks
  BY GraderTyped DEF GradingFit, InHand
<1>2. /\ grader'[g].at = "next"
      /\ \A h \in Graders \ {g} : grader'[h] = grader[h]
  BY <1>1, JobOver
<1>3. /\ marker' \in [Talks -> Graders \cup {Nobody}]
      /\ \A c \in Talks \ {Talk(g)} : marker'[c] = marker[c]
  BY <1>1 DEF GradingFit
<1>4. ASSUME NEW h \in Graders, grader'[h].at \in {"claimed", "paid", "leaving"} PROVE marker'[Talk(h)'] = h
  <2>1. h # g
    BY <1>2, <1>4
  <2>2. Talk(h)' = Talk(h) /\ marker[Talk(h)] = h /\ marker[Talk(g)] = g /\ grader[h].at \in {"claimed", "paid", "leaving"}
    BY <1>2, <1>4, <2>1 DEF Talk, Money
  <2>3. Talk(h) \in Talks /\ Talk(h) # Talk(g)
    BY <2>1, <2>2, GraderTyped DEF GradingFit, InHand
  <2> QED
    BY <1>3, <2>2, <2>3
<1>5. \A h \in lapsed' : grader'[h].at = "dead"
  BY <1>2 DEF Money, GradingFit
<1>6. \A c : AtPaid(c) => AtPaid(c)'
  BY <1>2 DEF AtPaid, Talk
<1>7. ASSUME NEW c \in Talks
      PROVE  tally'.paid[c] <= tally'.forgotten[c] + (IF stamped'[c] \/ AtPaid(c)' THEN 1 ELSE 0)
  <2>1. /\ tally.paid[c] \in Nat /\ tally.forgotten[c] \in Nat
        /\ tally.paid[c] <= tally.forgotten[c] + (IF stamped[c] \/ AtPaid(c) THEN 1 ELSE 0)
    BY TallyTyped DEF GradingFit, Money
  <2> QED
    BY <1>6, <2>1
<1> QED
  BY <1>3, <1>4, <1>5, <1>7 DEF Money

\* A grading that was paid for and ends without a stamp is counted, whether the grader goes
\* on, dies, or gives its marker back with an error.
LEMMA ForgetsMoney ==
    ASSUME GradingFit, Money, NEW g \in Graders, NEW place \in {"leaving", "dead"}, Proceeds(g, place), Forgets(g),
           place = "leaving" => grader[g].at = "paid", grader[g].at # "dead", UNCHANGED <<stamped, lapsed>>,
           \/ UNCHANGED marker
           \/ /\ place = "dead" /\ grader[g].at \in {"claimed", "paid", "leaving"}
              /\ marker' = [marker EXCEPT ![Talk(g)] = Nobody]
    PROVE  /\ Money' /\ tally' \in Tallies /\ marker' \in [Talks -> Graders \cup {Nobody}]
           /\ tally'.stops = tally.stops /\ tally'.answered = tally.answered
<1>1. /\ grader'[g].at = place /\ grader'[g].list = grader[g].list
      /\ \A h \in Graders \ {g} : grader'[h] = grader[h]
  BY GoesOn DEF GraderPlaces
<1>2. \A h \in Graders : Talk(h)' = Talk(h)
  BY <1>1 DEF Talk
<1>3. tally \in Tallies /\ \A h \in Graders : grader[h].at \in InHand => Talk(h) \in Talks
  BY GraderTyped DEF GradingFit
<1>4. /\ tally' \in Tallies /\ tally'.stops = tally.stops /\ tally'.answered = tally.answered
      /\ tally'.paid = tally.paid
      /\ grader[g].at = "paid" => tally'.forgotten = [tally.forgotten EXCEPT ![Talk(g)] = tally.forgotten[Talk(g)] + 1]
      /\ grader[g].at # "paid" => tally'.forgotten = tally.forgotten
  <2>1. CASE grader[g].at = "paid"
    BY <1>3, <2>1, TallyChanges DEF Forgets, GraderAt, InHand
  <2>2. CASE grader[g].at # "paid"
    BY <1>3, <2>2 DEF Forgets, GraderAt
  <2> QED
    BY <2>1, <2>2
<1>5. ASSUME NEW c \in Talks
      PROVE  tally'.paid[c] <= tally'.forgotten[c] + (IF stamped'[c] \/ AtPaid(c)' THEN 1 ELSE 0)
  <2>1. /\ tally.paid[c] \in Nat /\ tally.forgotten[c] \in Nat /\ tally.forgotten \in [Talks -> Nat]
        /\ tally.paid[c] <= tally.forgotten[c] + (IF stamped[c] \/ AtPaid(c) THEN 1 ELSE 0)
    BY TallyTyped DEF GradingFit, Money
  <2>2. CASE grader[g].at = "paid" /\ Talk(g) = c
    <3>1. tally'.forgotten[c] = tally.forgotten[c] + 1
      BY <1>4, <2>1, <2>2
    <3> QED
      BY <1>4, <2>1, <3>1
  <2>3. CASE ~(grader[g].at = "paid" /\ Talk(g) = c)
    <3>1. AtPaid(c) => AtPaid(c)'
      BY <1>1, <1>2, <2>3 DEF AtPaid
    <3>2. tally'.forgotten[c] = tally.forgotten[c]
      BY <1>3, <1>4, <2>1, <2>3 DEF InHand
    <3> QED
      BY <1>4, <2>1, <3>1, <3>2
  <2> QED
    BY <2>2, <2>3
<1>6. \A h \in lapsed' : grader'[h].at = "dead"
  BY <1>1 DEF Money, GradingFit
<1>7. /\ marker' \in [Talks -> Graders \cup {Nobody}]
      /\ \A c \in Talks : marker'[c] = marker[c] \/ (place = "dead" /\ marker[c] = g)
  <2>1. CASE UNCHANGED marker
    BY <2>1 DEF GradingFit
  <2>2. CASE /\ place = "dead" /\ grader[g].at \in {"claimed", "paid", "leaving"}
             /\ marker' = [marker EXCEPT ![Talk(g)] = Nobody]
    <3>1. Talk(g) \in Talks /\ marker[Talk(g)] = g
      BY <1>3, <2>2 DEF Money, InHand
    <3> QED
      BY <2>2, <3>1 DEF GradingFit
  <2> QED
    BY <2>1, <2>2
<1>8. ASSUME NEW h \in Graders, grader'[h].at \in {"claimed", "paid", "leaving"} PROVE marker'[Talk(h)'] = h
  <2>1. grader[h].at \in {"claimed", "paid", "leaving"} /\ (place = "dead" => h # g)
    BY <1>1, <1>8
  <2>2. Talk(h) \in Talks /\ marker[Talk(h)] = h
    BY <1>3, <2>1 DEF Money, InHand
  <2> QED
    BY <1>2, <1>7, <2>1, <2>2
<1> QED
  BY <1>4, <1>5, <1>6, <1>7, <1>8 DEF Money

\* The marker of the dead runs out.
LEMMA LapseMoney ==
    ASSUME GradingFit, Money, NEW g \in Graders, GraderLapses(g)
    PROVE  Money' /\ lapsed' \subseteq Graders
<1>1. /\ grader[g].at = "dead" /\ lapsed' = lapsed \cup {g} /\ UNCHANGED <<marker, stamped, grader, tally>>
  BY DEF GraderLapses, GraderAt
<1>2. \A c \in Talks : AtPaid(c)' <=> AtPaid(c)
  BY <1>1 DEF AtPaid, Talk
<1>3. \A c \in Talks : tally'.paid[c] <= tally'.forgotten[c] + (IF stamped'[c] \/ AtPaid(c)' THEN 1 ELSE 0)
  BY <1>1, <1>2 DEF Money
<1>4. \A h \in Graders : grader'[h].at \in {"claimed", "paid", "leaving"} => marker'[Talk(h)'] = h
  BY <1>1 DEF Money, Talk
<1> QED
  BY <1>1, <1>3, <1>4 DEF Money, GradingFit

-----------------------------------------------------------------------------
(* The queue                                                                *)

\* The greatest of two numbers, and of what is at most one of them.
LEMMA Greatest ==
    ASSUME NEW S, NEW a \in Int, NEW b \in Int, a <= b, S \subseteq {a, b}, S # {}
    PROVE  Max(S) = IF b \in S THEN b ELSE a
<1> DEFINE IsMax(x) == x \in S /\ \A y \in S : x >= y
           m == IF b \in S THEN b ELSE a
<1>1. IsMax(m)
  <2>1. \A y \in S : y = a \/ y = b
    OBVIOUS
  <2>2. CASE b \in S
    BY <2>1, <2>2
  <2>3. CASE b \notin S
    <3>1. \E x : x \in S
      OBVIOUS
    <3>2. a \in S /\ \A y \in S : y = a
      BY <2>1, <2>3, <3>1
    <3> QED
      BY <2>3, <3>2
  <2> QED
    BY <2>2, <2>3
<1>2. \A x : IsMax(x) => x = m
  OBVIOUS
<1>3. Max(S) = CHOOSE x : IsMax(x)
  BY DEF Max
<1> HIDE DEF IsMax, m
<1>4. Max(S) = m
  BY <1>1, <1>2, <1>3
<1> QED
  BY <1>4 DEF m

\* Rows that stay and a grader who has fewer entries leave the queue accounted for.
LEMMA QueueKept ==
    ASSUME GradingFit, Queued, UNCHANGED jobs, tally'.stops = tally.stops, tally'.answered = tally.answered,
           \A g \in Graders : /\ grader'[g].list = grader[g].list /\ grader'[g].retry = grader[g].retry
                              /\ grader'[g].at \in Busy => grader[g].at \in Busy
    PROVE  Queued'
<1>1. \A g \in Graders : \A job \in ToSet(grader'[g].list) : job.stop <= tally'.stops[job.talk]
  BY DEF Queued
<1>2. ASSUME NEW d \in Drains, grader'[d].at \in Busy, NEW job \in ToSet(jobs'), job.lease = d
      PROVE  Provided(d, job)'
  <2>1. d \in Graders
    BY DEF Graders
  <2>2. Provided(d, job)
    BY <1>2, <2>1 DEF Queued
  <2> QED
    BY <2>1, <2>2 DEF Provided
<1> QED
  BY <1>1, <1>2 DEF Queued

\* The greater of two numbers is one of them, and neither is more.
LEMMA Greater ==
    ASSUME NEW a \in Int, NEW b \in Int
    PROVE  /\ Max({a, b}) \in {a, b} /\ a <= Max({a, b}) /\ b <= Max({a, b})
<1> DEFINE S == {a, b}
<1>1. S # {} /\ S \subseteq {a, b} /\ S \subseteq {b, a} /\ a \in S /\ b \in S
  OBVIOUS
<1> HIDE DEF S
<1>2. CASE a <= b
  <2>1. Max(S) = b
    BY <1>1, <1>2, Greatest
  <2> QED
    BY <1>2, <2>1 DEF S
<1>3. CASE b <= a
  <2>1. Max(S) = a
    BY <1>1, <1>3, Greatest
  <2> QED
    BY <1>3, <2>1 DEF S
<1> QED
  BY <1>2, <1>3

\* The rows of the queue, and what they are about.
LEMMA JobTyped ==
    ASSUME GradingFit
    PROVE  \A job \in ToSet(jobs) : job \in Jobs /\ job.talk \in Talks /\ job.stop \in Nat /\ job.stop \in 1..MaxStops
<1>1. ToSet(jobs) \subseteq Jobs
  BY WhereSet DEF GradingFit
<1>2. MaxStops \in Nat
  BY GradingAssumption
<1> QED
  BY <1>1, <1>2 DEF Jobs

\* The job in hand is over: answered, or to be tried again.
LEMMA QueueOver ==
    ASSUME GradingFit, Queued, NEW g \in Graders, grader[g].at \in Busy, grader[g].list # <<>>,
           NEW retry \in Retries \cup {"no"}, Settles(g, retry), UNCHANGED jobs
    PROVE  /\ Queued' /\ tally' \in Tallies
           /\ tally'.stops = tally.stops /\ tally'.paid = tally.paid /\ tally'.forgotten = tally.forgotten
<1> DEFINE c == Talk(g)
           s == grader[g].list[1].stop
<1>1. /\ c \in Talks /\ s \in Int /\ s >= 0 /\ s <= tally.stops[c]
      /\ grader[g].list[1] \in ToSet(grader[g].list) /\ grader[g].list \in Seq(JobRows)
  <2>1. grader[g].list[1] \in JobRows /\ c \in Talks
    BY GraderTyped
  <2>2. s \in Int /\ s >= 0
    BY <2>1, GradingAssumption DEF JobRows
  <2> QED
    BY <2>1, <2>2, GraderTyped DEF Queued, Talk
<1>2. /\ grader'[g].list = Tail(grader[g].list)
      /\ grader'[g].retry = IF retry = "no" THEN grader[g].retry ELSE grader[g].retry \cup {<<c, retry>>}
      /\ \A h \in Graders \ {g} : grader'[h] = grader[h]
      /\ grader'[g].at = "next"
  BY JobOver DEF Settles
<1>3. ToSet(grader[g].list) = ToSet(Tail(grader[g].list)) \cup {grader[g].list[1]}
  BY <1>1, TailSet
<1>4. tally \in Tallies /\ tally.answered \in [Talks -> 0..MaxStops] /\ tally.stops \in [Talks -> 0..MaxStops] /\ MaxStops \in Nat
  BY <1>1, TallyTyped, GradingAssumption DEF GradingFit
<1>5. tally.answered[c] \in Nat /\ tally.stops[c] \in Nat /\ tally.answered[c] <= tally.stops[c] /\ tally.stops[c] <= MaxStops
  BY <1>1, <1>4 DEF Queued
<1> DEFINE m == Max({tally.answered[c], s})
           now == [tally.answered EXCEPT ![c] = m]
<1>6. m \in 0..MaxStops /\ m <= tally.stops[c] /\ tally.answered[c] <= m /\ s <= m
  <2> DEFINE a == tally.answered[c]
  <2>1. a \in Int /\ s \in Int
    BY <1>1, <1>5
  <2> HIDE DEF s, c, a
  <2>2. Max({a, s}) \in {a, s} /\ a <= Max({a, s}) /\ s <= Max({a, s})
    BY <2>1, Greater
  <2>3. m = Max({a, s})
    BY DEF a
  <2> HIDE DEF m
  <2>4. m \in {a, s} /\ a <= m /\ s <= m
    BY <2>2, <2>3
  <2>5. a \in Nat /\ a <= tally.stops[c] /\ tally.stops[c] <= MaxStops /\ tally.stops[c] \in Nat
    BY <1>5 DEF a
  <2>6. m \in 0..MaxStops /\ m <= tally.stops[c] /\ a <= m /\ s <= m
    BY <1>1, <1>4, <2>4, <2>5
  <2> QED
    BY <2>6 DEF a
<1> HIDE DEF m
<1>7. now \in [Talks -> 0..MaxStops] /\ now[c] = m /\ \A e \in Talks \ {c} : now[e] = tally.answered[e]
  BY <1>1, <1>4, <1>6
<1>8. /\ tally' \in Tallies /\ tally'.stops = tally.stops /\ tally'.paid = tally.paid /\ tally'.forgotten = tally.forgotten
      /\ tally'.answered = IF retry = "no" THEN now ELSE tally.answered
  <2>1. CASE retry = "no"
    <3>1. tally' = [tally EXCEPT !.answered = now]
      BY <2>1 DEF Settles, m
    <3> HIDE DEF now
    <3> QED
      BY <1>4, <1>7, <2>1, <3>1, TallyChanges
  <2>2. CASE retry # "no"
    BY <1>4, <2>2 DEF Settles
  <2> QED
    BY <2>1, <2>2
<1>9. ASSUME NEW e \in Talks
      PROVE  /\ tally'.answered[e] \in Int /\ tally.answered[e] \in Int /\ tally.stops[e] \in Int
             /\ tally.answered[e] <= tally'.answered[e] /\ tally'.answered[e] <= tally'.stops[e]
             /\ e = c /\ retry = "no" => s <= tally'.answered[e]
  <2>1. tally.answered[e] \in Int /\ tally.stops[e] \in Int /\ tally.answered[e] <= tally.stops[e]
    BY <1>4 DEF Queued
  <2> HIDE DEF now, c, s
  <2>2. CASE retry = "no" /\ e = c
    BY <1>1, <1>4, <1>6, <1>7, <1>8, <2>1, <2>2
  <2>3. CASE retry = "no" /\ e # c
    BY <1>7, <1>8, <2>1, <2>3
  <2>4. CASE retry # "no"
    BY <1>8, <2>1, <2>4
  <2> QED
    BY <2>2, <2>3, <2>4
<1>10. ASSUME NEW e \in Talks
       PROVE  /\ tally'.answered[e] <= tally'.stops[e]
              /\ tally'.answered[e] < tally'.stops[e] => \E job \in ToSet(jobs') : job.talk = e
  <2>1. tally'.answered[e] < tally'.stops[e] => tally.answered[e] < tally.stops[e]
    BY <1>8, <1>9
  <2> QED
    BY <1>9, <2>1 DEF Queued
<1>11. ASSUME NEW h \in Graders, NEW job \in ToSet(grader'[h].list) PROVE job.stop <= tally'.stops[job.talk]
  <2>1. job \in ToSet(grader[h].list)
    BY <1>2, <1>3, <1>11
  <2> QED
    BY <1>8, <2>1 DEF Queued
<1>12. ASSUME NEW d \in Drains, grader'[d].at \in Busy, NEW job \in ToSet(jobs'), job.lease = d
       PROVE  Provided(d, job)'
  <2>1. d \in Graders /\ job.talk \in Talks /\ job.stop \in Nat
    BY JobTyped DEF Graders
  <2>2. grader[d].at \in Busy
    BY <1>2, <1>12, <2>1
  <2>3. Provided(d, job)
    BY <1>12, <2>2 DEF Queued
  <2>4. job.stop <= tally.answered[job.talk] => job.stop <= tally'.answered[job.talk]
    BY <1>9, <2>1
  <2>5. CASE d # g
    <3>1. grader'[d] = grader[d]
      BY <1>2, <2>1, <2>5
    <3> QED
      BY <2>3, <2>4, <3>1 DEF Provided
  <2>6. CASE d = g
    <3>1. \A again \in Retries : <<job.talk, again>> \in grader[g].retry => <<job.talk, again>> \in grader'[g].retry
      BY <1>2
    <3>2. ASSUME NEW x \in ToSet(grader[g].list), x.talk = job.talk, x.stop = job.stop
          PROVE  Provided(g, job)'
      <4>1. CASE x \in ToSet(Tail(grader[g].list))
        BY <1>2, <3>2, <4>1 DEF Provided
      <4>2. CASE x \notin ToSet(Tail(grader[g].list))
        <5>1. x = grader[g].list[1] /\ c = job.talk /\ s = job.stop
          BY <1>3, <3>2, <4>2 DEF Talk
        <5>2. CASE retry = "no"
          BY <1>9, <2>1, <5>1, <5>2 DEF Provided
        <5>3. CASE retry \in Retries
          <6>1. retry # "no"
            BY <5>3 DEF Retries
          <6>2. <<job.talk, retry>> \in grader'[g].retry
            BY <1>2, <5>1, <6>1
          <6> QED
            BY <5>3, <6>2 DEF Provided
        <5> QED
          BY <5>2, <5>3
      <4> QED
        BY <4>1, <4>2
    <3> QED
      BY <2>3, <2>4, <2>6, <3>1, <3>2 DEF Provided
  <2> QED
    BY <2>5, <2>6
<1>13. OneEntry(jobs)' /\ \A job \in ToSet(jobs') : job.stop = tally'.stops[job.talk]
  BY <1>8 DEF Queued, OneEntry, Distinct
<1> QED
  BY <1>8, <1>10, <1>11, <1>12, <1>13 DEF Queued

\* Rows that stand for the last stops answer those, and no others.
LEMMA AnsweredTo ==
    ASSUME NEW t \in Tallies, \A c \in Talks : t.answered[c] <= t.stops[c],
           NEW rows, \A row \in rows : row.talk \in Talks /\ row.stop = t.stops[row.talk]
    PROVE  /\ Answered(rows, t.answered) \in [Talks -> 0..MaxStops]
           /\ \A c \in Talks :
                 /\ t.answered[c] <= Answered(rows, t.answered)[c] /\ Answered(rows, t.answered)[c] <= t.stops[c]
                 /\ (\E row \in rows : row.talk = c) => Answered(rows, t.answered)[c] = t.stops[c]
<1> DEFINE Given(c) == {t.answered[c]} \cup {job.stop : job \in {row \in rows : row.talk = c}}
           now == Answered(rows, t.answered)
<1>1. now = [c \in Talks |-> Max(Given(c))]
  BY DEF Answered
<1>2. ASSUME NEW c \in Talks
      PROVE  /\ Max(Given(c)) \in 0..MaxStops
             /\ t.answered[c] <= Max(Given(c)) /\ Max(Given(c)) <= t.stops[c]
             /\ (\E row \in rows : row.talk = c) => Max(Given(c)) = t.stops[c]
  <2> DEFINE a == t.answered[c]
             b == t.stops[c]
             S == Given(c)
  <2>1. a \in 0..MaxStops /\ b \in 0..MaxStops /\ a <= b /\ MaxStops \in Nat
    BY TallyTyped, GradingAssumption
  <2>2. S \subseteq {a, b} /\ S # {}
    OBVIOUS
  <2>3. (\E row \in rows : row.talk = c) => b \in S
    OBVIOUS
  <2> HIDE DEF a, b, S
  <2>6. a \in Int /\ b \in Int /\ a <= b
    BY <2>1
  <2>4. Max(S) = IF b \in S THEN b ELSE a
    BY <2>2, <2>6, Greatest
  <2>5. Max(S) \in 0..MaxStops /\ a <= Max(S) /\ Max(S) <= b
    BY <2>1, <2>4
  <2> QED
    BY <2>3, <2>4, <2>5 DEF a, b, S
<1> HIDE DEF Given, now
<1> QED
  BY <1>1, <1>2 DEF now

\* A conversation that stops has one entry, which is the last in the queue.
LEMMA EnqueuedRows ==
    ASSUME GradingFit, OneEntry(jobs), NEW c \in Talks, tally.stops[c] < MaxStops, NEW trace \in BOOLEAN
    PROVE  /\ Enqueued(c, trace) \in Seq(Jobs) /\ Len(Enqueued(c, trace)) <= MaxQueued
           /\ OneEntry(Enqueued(c, trace))
           /\ \E e \in ToSet(Enqueued(c, trace)) :
                 /\ e.talk = c /\ e.stop = tally.stops[c] + 1 /\ e.lease = Nobody
                 /\ \A job \in ToSet(Enqueued(c, trace)) : job = e \/ (job \in ToSet(jobs) /\ job.talk # c)
<1> DEFINE prior == {job \in ToSet(jobs) : job.talk = c}
           rest == Where(jobs, ToSet(jobs) \ prior)
           e == Entry(c, trace, prior)
           queue == Append(rest, e)
           from == IF Len(queue) > MaxQueued THEN Len(queue) - MaxQueued + 1 ELSE 1
           kept == SubSeq(queue, from, Len(queue))
<1>1. jobs \in Seq(Jobs) /\ Distinct(jobs) /\ MaxQueued \in Nat \ {0}
  BY GradingAssumption DEF GradingFit, OneEntry
<1>2. /\ rest \in Seq(Jobs) /\ Distinct(rest)
      /\ ToSet(rest) = {job \in ToSet(jobs) : job.talk # c}
  <2>1. ToSet(jobs) \cap (ToSet(jobs) \ prior) = {job \in ToSet(jobs) : job.talk # c}
    OBVIOUS
  <2> HIDE DEF prior
  <2> QED
    BY <1>1, <2>1, WhereSet
<1>3. e \in Jobs /\ e.talk = c /\ e.stop = tally.stops[c] + 1 /\ e.lease = Nobody
  <2>1. tally.stops[c] \in Nat /\ MaxStops \in Nat /\ MaxTries \in Nat
    BY TallyTyped, GradingAssumption DEF GradingFit
  <2>2. tally.stops[c] + 1 \in 1..MaxStops /\ 0 \in 0..MaxTries
    BY <2>1
  <2>3. (trace \/ \E job \in prior : job.trace) \in BOOLEAN
    OBVIOUS
  <2> HIDE DEF prior
  <2> QED
    BY <2>2, <2>3 DEF Entry, Jobs
<1> HIDE DEF prior, rest, e
<1>4. e \notin ToSet(rest)
  BY <1>2, <1>3
<1>5. /\ queue \in Seq(Jobs) /\ Len(queue) = Len(rest) + 1 /\ Len(rest) \in Nat
      /\ ToSet(queue) = ToSet(rest) \cup {e} /\ Distinct(queue) /\ queue[Len(queue)] = e
  BY <1>2, <1>3, <1>4, AppendSet, LenProperties
<1> HIDE DEF queue
<1>6. from \in Nat \ {0} /\ from <= Len(queue) /\ Len(queue) - from + 1 <= MaxQueued
  BY <1>1, <1>5
<1> HIDE DEF from
<1>7. /\ kept \in Seq(Jobs) /\ Len(kept) <= MaxQueued /\ ToSet(kept) \subseteq ToSet(queue)
      /\ e \in ToSet(kept) /\ Distinct(kept)
  BY <1>5, <1>6, EndSet
<1> HIDE DEF kept
<1>8. \A job \in ToSet(kept) : job = e \/ (job \in ToSet(jobs) /\ job.talk # c)
  BY <1>2, <1>5, <1>7
<1>9. OneEntry(kept)
  BY <1>3, <1>7, <1>8 DEF OneEntry
<1>10. Enqueued(c, trace) = kept
  BY DEF Enqueued, kept, queue, rest, prior, from, e
<1> QED
  BY <1>3, <1>7, <1>8, <1>9, <1>10

\* A stop puts its entry in place of the conversation's older one; what falls out of a
\* full queue counts as answered (reinforce.py: enqueue_reinforce).
LEMMA StopQueue ==
    ASSUME GradingFit, Queued, NEW c \in Talks, NEW trace \in BOOLEAN, Stop(c, trace)
    PROVE  /\ Queued' /\ jobs' \in Seq(Jobs) /\ Len(jobs') <= MaxQueued /\ tally' \in Tallies
           /\ tally'.paid = tally.paid /\ tally'.forgotten = tally.forgotten
<1> DEFINE fallen == {job \in ToSet(jobs) : job.talk # c /\ job \notin ToSet(jobs')}
           S == [tally.stops EXCEPT ![c] = tally.stops[c] + 1]
           A == Answered(fallen, tally.answered)
<1>1. /\ tally.stops[c] < MaxStops /\ jobs' = Enqueued(c, trace) /\ UNCHANGED grader
      /\ tally' = [tally EXCEPT !.stops = S, !.answered = A]
  BY DEF Stop
<1>2. /\ jobs' \in Seq(Jobs) /\ Len(jobs') <= MaxQueued /\ OneEntry(jobs')
      /\ \E e \in ToSet(jobs') :
            /\ e.talk = c /\ e.stop = tally.stops[c] + 1 /\ e.lease = Nobody
            /\ \A job \in ToSet(jobs') : job = e \/ (job \in ToSet(jobs) /\ job.talk # c)
  BY <1>1, EnqueuedRows DEF Queued
<1>3. PICK e \in ToSet(jobs') :
            /\ e.talk = c /\ e.stop = tally.stops[c] + 1 /\ e.lease = Nobody
            /\ \A job \in ToSet(jobs') : job = e \/ (job \in ToSet(jobs) /\ job.talk # c)
  BY <1>2
<1>4. /\ tally \in Tallies /\ tally.stops \in [Talks -> 0..MaxStops] /\ MaxStops \in Nat
      /\ tally.answered \in [Talks -> 0..MaxStops]
  BY TallyTyped, GradingAssumption DEF GradingFit
<1>5. /\ A \in [Talks -> 0..MaxStops]
      /\ \A x \in Talks : /\ tally.answered[x] <= A[x] /\ A[x] <= tally.stops[x]
                          /\ (\E row \in fallen : row.talk = x) => A[x] = tally.stops[x]
  <2>1. \A x \in Talks : tally.answered[x] <= tally.stops[x]
    BY DEF Queued
  <2>2. \A row \in fallen : row.talk \in Talks /\ row.stop = tally.stops[row.talk]
    BY JobTyped DEF Queued
  <2> HIDE DEF fallen
  <2> QED
    BY <1>4, <2>1, <2>2, AnsweredTo
<1> HIDE DEF A
<1>6. /\ S \in [Talks -> 0..MaxStops] /\ S[c] = tally.stops[c] + 1
      /\ \A x \in Talks \ {c} : S[x] = tally.stops[x]
  <2>1. tally.stops[c] + 1 \in 0..MaxStops
    BY <1>1, <1>4
  <2> QED
    BY <1>4, <2>1
<1> HIDE DEF S
<1>7. /\ tally' \in Tallies /\ tally'.stops = S /\ tally'.answered = A
      /\ tally'.paid = tally.paid /\ tally'.forgotten = tally.forgotten
  BY <1>1, <1>4, <1>5, <1>6 DEF Tallies
<1>8. ASSUME NEW x \in Talks
      PROVE  /\ A[x] \in Int /\ S[x] \in Int /\ tally.answered[x] \in Int /\ tally.stops[x] \in Int
             /\ tally.stops[x] <= S[x] /\ A[x] <= S[x] /\ tally.answered[x] <= A[x]
  <2>1. A[x] \in Int /\ S[x] \in Int /\ tally.answered[x] \in Int /\ tally.stops[x] \in Int
    BY <1>4, <1>5, <1>6
  <2>2. tally.stops[x] <= S[x]
    BY <1>6, <2>1
  <2> QED
    BY <1>5, <2>1, <2>2
<1>9. ASSUME NEW x \in Talks, A[x] < S[x] PROVE \E job \in ToSet(jobs') : job.talk = x
  <2>1. CASE x = c
    BY <1>3, <2>1
  <2>2. CASE x # c
    <3>1. A[x] < tally.stops[x] /\ tally.answered[x] < tally.stops[x]
      BY <1>6, <1>8, <1>9, <2>2
    <3>2. PICK job \in ToSet(jobs) : job.talk = x
      BY <3>1 DEF Queued
    <3>3. job \notin fallen
      BY <1>5, <1>8, <3>1, <3>2
    <3> QED
      BY <2>2, <3>2, <3>3
  <2> QED
    BY <2>1, <2>2
<1>10. \A job \in ToSet(jobs') : job.stop = tally'.stops[job.talk]
  <2> SUFFICES ASSUME NEW job \in ToSet(jobs') PROVE job.stop = S[job.talk]
    BY <1>7
  <2>1. CASE job = e
    BY <1>3, <1>6, <2>1
  <2>2. CASE job # e
    <3>1. job \in ToSet(jobs) /\ job.talk # c
      BY <1>3, <2>2
    <3> QED
      BY <1>6, <3>1, JobTyped DEF Queued
  <2> QED
    BY <2>1, <2>2
<1>11. ASSUME NEW h \in Graders, NEW job \in ToSet(grader'[h].list) PROVE job.stop <= tally'.stops[job.talk]
  <2>1. job \in ToSet(grader[h].list) /\ grader[h].list \in Seq(JobRows)
    BY <1>1, <1>11, GraderTyped
  <2>2. job \in JobRows
    BY <2>1, WhereSet
  <2>3. job.talk \in Talks /\ job.stop \in Int /\ job.stop <= tally.stops[job.talk]
    BY <2>1, <2>2, <1>4 DEF Queued, JobRows
  <2> QED
    BY <1>7, <1>8, <2>3
<1>12. ASSUME NEW d \in Drains, grader'[d].at \in Busy, NEW job \in ToSet(jobs'), job.lease = d
       PROVE  Provided(d, job)'
  <2>1. job # e
    BY <1>3, <1>12, GradingAssumption DEF Nobody
  <2>2. job \in ToSet(jobs) /\ job.talk \in Talks /\ job.stop \in Nat
    BY <1>3, <2>1, JobTyped
  <2>3. Provided(d, job)
    BY <1>1, <1>12, <2>2 DEF Queued
  <2>4. job.stop <= tally.answered[job.talk] => job.stop <= tally'.answered[job.talk]
    BY <1>7, <1>8, <2>2
  <2> QED
    BY <1>1, <2>3, <2>4 DEF Provided
<1>13. \A x \in Talks : /\ tally'.answered[x] <= tally'.stops[x]
                        /\ tally'.answered[x] < tally'.stops[x] => \E job \in ToSet(jobs') : job.talk = x
  BY <1>7, <1>8, <1>9
<1> QED
  BY <1>2, <1>7, <1>10, <1>11, <1>12, <1>13 DEF Queued

\* A sequence is one over any set that has what it holds.
LEMMA SeqOver ==
    ASSUME NEW T, NEW s \in Seq(T), NEW U, ToSet(s) \subseteq U
    PROVE  s \in Seq(U)
<1>1. Len(s) \in Nat /\ s \in [1..Len(s) -> T] /\ DOMAIN s = 1..Len(s)
  BY LenProperties
<1>2. \A i \in 1..Len(s) : s[i] \in U
  BY <1>1 DEF ToSet
<1>3. s \in [1..Len(s) -> U]
  BY <1>1, <1>2
<1> QED
  BY <1>1, <1>3, SeqDef

\* One entry of each conversation, by place.
LEMMA OneEntryAt ==
    ASSUME NEW s
    PROVE  OneEntry(s) <=> \A i, j \in DOMAIN s : s[i].talk = s[j].talk => i = j
BY DEF OneEntry, Distinct, ToSet

\* A drain has before it what it leased; the rows are about what they were.
LEMMA LeaseQueue ==
    ASSUME GradingFit, Queued, NEW d \in Drains, Lease(d)
    PROVE  /\ Queued' /\ jobs' \in Seq(Jobs) /\ Len(jobs') <= MaxQueued
           /\ grader' \in [Graders -> GraderRows] /\ grader'[d].at = "next"
           /\ \A h \in Graders \ {d} : grader'[h] = grader[h]
<1> DEFINE free == {i \in DOMAIN jobs : ~Leased(jobs[i])}
           mine == {i \in free : Cardinality({j \in free : j < i}) < MaxLeased}
           found == Where(jobs', {job \in ToSet(jobs') : job.lease = d})
           row == [at |-> "next", retry |-> {}, list |-> found]
<1>1. /\ jobs' = [i \in DOMAIN jobs |-> IF i \in mine THEN [jobs[i] EXCEPT !.lease = d] ELSE jobs[i]]
      /\ grader' = [grader EXCEPT ![d] = row]
      /\ UNCHANGED tally
  BY DEF Lease
<1> HIDE DEF mine, row
<1>2. /\ Len(jobs) \in Nat /\ DOMAIN jobs = 1..Len(jobs) /\ \A i \in 1..Len(jobs) : jobs[i] \in Jobs
      /\ Len(jobs) <= MaxQueued
  BY LenProperties DEF GradingFit
<1>3. ASSUME NEW i \in DOMAIN jobs
      PROVE  /\ jobs'[i] \in Jobs /\ jobs'[i].talk = jobs[i].talk /\ jobs'[i].stop = jobs[i].stop
             /\ jobs'[i].lease # d => jobs'[i] = jobs[i]
  <2>1. jobs[i] \in Jobs
    BY <1>2
  <2>2. CASE i \in mine
    <3>1. jobs'[i] = [jobs[i] EXCEPT !.lease = d]
      BY <1>1, <2>2
    <3> QED
      BY <2>1, <3>1 DEF Jobs
  <2>3. CASE i \notin mine
    <3>1. jobs'[i] = jobs[i]
      BY <1>1, <2>3
    <3> QED
      BY <2>1, <3>1
  <2> QED
    BY <2>2, <2>3
<1>4. DOMAIN jobs' = DOMAIN jobs
  BY <1>1
<1>5. jobs' \in [1..Len(jobs) -> Jobs]
  <2>1. jobs' = [i \in 1..Len(jobs) |-> jobs'[i]]
    BY <1>1, <1>2
  <2> QED
    BY <1>2, <1>3, <2>1
<1>6. jobs' \in Seq(Jobs) /\ Len(jobs') = Len(jobs)
  <2>1. jobs' \in Seq(Jobs)
    BY <1>2, <1>5, SeqDef
  <2> QED
    BY <1>2, <1>4, <2>1, LenProperties
<1>7. OneEntry(jobs')
  BY <1>3, <1>4, OneEntryAt DEF Queued
<1>8. ASSUME NEW job \in ToSet(jobs')
      PROVE  /\ job \in Jobs
             /\ \E old \in ToSet(jobs) : old.talk = job.talk /\ old.stop = job.stop /\ (job.lease # d => job = old)
  BY <1>3, <1>4 DEF ToSet
<1>9. \A old \in ToSet(jobs) : \E job \in ToSet(jobs') : job.talk = old.talk
  BY <1>3, <1>4 DEF ToSet
<1>10. /\ found \in Seq(Jobs) /\ ToSet(found) = {job \in ToSet(jobs') : job.lease = d}
  <2>1. ToSet(jobs') \cap {job \in ToSet(jobs') : job.lease = d} = {job \in ToSet(jobs') : job.lease = d}
    OBVIOUS
  <2> QED
    BY <1>6, <2>1, WhereSet
<1>11. Jobs \subseteq JobRows
  BY GradingAssumption DEF Jobs, JobRows
<1> HIDE DEF found
<1>12. found \in Seq(JobRows)
  BY <1>10, <1>11, SeqOver, WhereSet
<1>13. row \in GraderRows /\ row.at = "next" /\ row.list = found /\ row.retry = {}
  BY <1>12 DEF row, GraderRows, GraderPlaces
<1>14. /\ grader' \in [Graders -> GraderRows] /\ grader'[d] = row
       /\ \A h \in Graders \ {d} : grader'[h] = grader[h]
  BY <1>1, <1>13, OneGrader DEF Graders
<1>15. \A job \in ToSet(jobs') : job.stop = tally'.stops[job.talk]
  BY <1>1, <1>8 DEF Queued
<1>16. ASSUME NEW c \in Talks
       PROVE  /\ tally'.answered[c] <= tally'.stops[c]
              /\ tally'.answered[c] < tally'.stops[c] => \E job \in ToSet(jobs') : job.talk = c
  <2>1. /\ tally.answered[c] <= tally.stops[c]
        /\ tally.answered[c] < tally.stops[c] => \E job \in ToSet(jobs) : job.talk = c
    BY DEF Queued
  <2> QED
    BY <1>1, <1>9, <2>1
<1>17. ASSUME NEW h \in Graders, NEW job \in ToSet(grader'[h].list) PROVE job.stop <= tally'.stops[job.talk]
  <2>1. CASE h = d
    <3>1. job \in ToSet(jobs') /\ job \in Jobs
      BY <1>8, <1>10, <1>13, <1>14, <1>17, <2>1
    <3>2. job.stop = tally'.stops[job.talk] /\ job.stop \in Int
      BY <1>15, <3>1 DEF Jobs
    <3> QED
      BY <3>2
  <2>2. CASE h # d
    BY <1>1, <1>14, <1>17, <2>2 DEF Queued
  <2> QED
    BY <2>1, <2>2
<1>18. ASSUME NEW x \in Drains, grader'[x].at \in Busy, NEW job \in ToSet(jobs'), job.lease = x
       PROVE  Provided(x, job)'
  <2>1. CASE x = d
    <3>1. job \in ToSet(grader'[x].list)
      BY <1>10, <1>13, <1>14, <1>18, <2>1
    <3> QED
      BY <3>1 DEF Provided
  <2>2. CASE x # d
    <3>1. job \in ToSet(jobs) /\ grader'[x] = grader[x]
      BY <1>8, <1>14, <1>18, <2>2 DEF Graders
    <3>2. Provided(x, job)
      BY <1>18, <3>1 DEF Queued
    <3> QED
      BY <1>1, <3>1, <3>2 DEF Provided
  <2> QED
    BY <2>1, <2>2
<1> QED
  BY <1>2, <1>6, <1>7, <1>13, <1>14, <1>15, <1>16, <1>17, <1>18 DEF Queued

\* What goes back to the end of the queue.
LEMMA TriedAgain ==
    ASSUME GradingFit, NEW d \in Drains, NEW job \in Jobs
    PROVE  /\ Retried(d, job) \in JobRows /\ Retried(d, job).tries \in Nat
           /\ Retried(d, job).talk = job.talk /\ Retried(d, job).stop = job.stop
           /\ Retried(d, job).lease = Nobody
           /\ Retried(d, job).tries < MaxTries => Retried(d, job) \in Jobs
<1> DEFINE n == IF <<job.talk, "oversized">> \in grader[d].retry THEN job.tries + 1 ELSE job.tries
           free == [job EXCEPT !.lease = Nobody]
           row == [free EXCEPT !.tries = n]
<1>1. MaxTries \in Nat /\ MaxStops \in Nat
  BY GradingAssumption
<1>2. job.tries \in Nat /\ n \in Nat
  BY <1>1 DEF Jobs
<1> HIDE DEF n
<1>3. free \in Jobs /\ free.talk = job.talk /\ free.stop = job.stop /\ free.lease = Nobody /\ free.tries = job.tries
  BY DEF Jobs
<1> HIDE DEF free
<1>4. row \in JobRows /\ row.tries = n /\ row.talk = job.talk /\ row.stop = job.stop /\ row.lease = Nobody
  BY <1>1, <1>2, <1>3 DEF Jobs, JobRows
<1>5. n < MaxTries => row \in Jobs
  <2>1. n < MaxTries => n \in 0..MaxTries
    BY <1>1, <1>2
  <2> QED
    BY <1>3, <2>1 DEF Jobs
<1> HIDE DEF row
<1>6. Retried(d, job) = row
  BY <1>3 DEF Retried, row, free, n
<1> QED
  BY <1>2, <1>4, <1>5, <1>6

\* Of the entries that a drain leased, those to be tried again stay, but those
\* that were tried too often; every one comes from the queue.
OtherRows(d) == Where(jobs, {job \in ToSet(jobs) : ~Mine(d, job)})
LeasedAgain(d) == Where(jobs, {job \in ToSet(jobs) : Mine(d, job) /\ Again(d, job)})
Tried(d) == [i \in DOMAIN LeasedAgain(d) |-> Retried(d, LeasedAgain(d)[i])]
LastRow(d) == Where(Tried(d), {job \in ToSet(Tried(d)) : job.tries < MaxTries})

\* What a drain leaves of the queue: the entries that others leased or nobody did, and
\* behind them those of its own that it has to try again.
LEMMA SettledRows ==
    ASSUME GradingFit, OneEntry(jobs), NEW d \in Drains
    PROVE  /\ ToSet(OtherRows(d)) = {job \in ToSet(jobs) : job.lease # d}
           /\ ToSet(Tried(d)) = {Retried(d, job) : job \in {old \in ToSet(jobs) : old.lease = d /\ Again(d, old)}}
           /\ ToSet(LastRow(d)) = {job \in ToSet(Tried(d)) : job.tries < MaxTries}
           /\ OtherRows(d) \o LastRow(d) \in Seq(Jobs) /\ Len(OtherRows(d) \o LastRow(d)) <= MaxQueued
           /\ ToSet(OtherRows(d) \o LastRow(d)) = ToSet(OtherRows(d)) \cup ToSet(LastRow(d))
           /\ OneEntry(OtherRows(d) \o LastRow(d))
<1> DEFINE others == OtherRows(d)
           mine == LeasedAgain(d)
           tried == Tried(d)
           last == LastRow(d)
<1> HIDE DEF others, mine, tried, last
<1>1. jobs \in Seq(Jobs) /\ Len(jobs) <= MaxQueued /\ MaxQueued \in Nat /\ Distinct(jobs)
  BY GradingAssumption DEF GradingFit, OneEntry
<1> DEFINE N == {job \in ToSet(jobs) : ~Mine(d, job)}
           M == {job \in ToSet(jobs) : Mine(d, job) /\ Again(d, job)}
<1>2. /\ N = {job \in ToSet(jobs) : job.lease # d}
      /\ M = {job \in ToSet(jobs) : job.lease = d /\ Again(d, job)}
      /\ N \cap M = {} /\ ToSet(jobs) \cap N = N /\ ToSet(jobs) \cap M = M
  BY DEF Mine
<1>3. others = Where(jobs, N) /\ mine = Where(jobs, M)
  BY DEF others, mine, OtherRows, LeasedAgain
<1> HIDE DEF N, M
<1>4. /\ others \in Seq(Jobs) /\ ToSet(others) = N /\ Distinct(others) /\ Len(others) \in Nat
      /\ mine \in Seq(Jobs) /\ ToSet(mine) = M /\ Distinct(mine) /\ Len(mine) \in Nat
      /\ ToSet(jobs) \subseteq Jobs
  <2>1. ASSUME NEW P, ToSet(jobs) \cap P = P
        PROVE  /\ Where(jobs, P) \in Seq(Jobs) /\ Len(Where(jobs, P)) \in Nat
               /\ ToSet(Where(jobs, P)) = P /\ ToSet(jobs) \subseteq Jobs /\ Distinct(Where(jobs, P))
    BY <1>1, <2>1, WhereSet
  <2>2. /\ Where(jobs, N) \in Seq(Jobs) /\ Len(Where(jobs, N)) \in Nat
        /\ ToSet(Where(jobs, N)) = N /\ ToSet(jobs) \subseteq Jobs /\ Distinct(Where(jobs, N))
    BY <1>2, <2>1
  <2>3. /\ Where(jobs, M) \in Seq(Jobs) /\ Len(Where(jobs, M)) \in Nat
        /\ ToSet(Where(jobs, M)) = M /\ Distinct(Where(jobs, M))
    BY <1>2, <2>1
  <2> QED
    BY <1>3, <2>2, <2>3
<1>5. Len(others) + Len(mine) <= MaxQueued
  <2>1. Len(others) + Len(mine) <= Len(jobs) /\ Len(jobs) \in Nat
    BY <1>1, <1>2, <1>3, WhereTwo, LenProperties
  <2> QED
    BY <1>1, <1>4, <2>1
<1>6. /\ DOMAIN mine = 1..Len(mine) /\ \A i \in DOMAIN mine : mine[i] \in Jobs /\ mine[i] \in M
  <2>1. DOMAIN mine = 1..Len(mine) /\ \A i \in DOMAIN mine : mine[i] \in ToSet(mine)
    BY <1>4, LenProperties DEF ToSet
  <2> QED
    BY <1>2, <1>4, <2>1
<1>7. /\ tried \in Seq(JobRows) /\ DOMAIN tried = DOMAIN mine /\ Len(tried) = Len(mine)
      /\ \A i \in DOMAIN mine : tried[i] = Retried(d, mine[i]) /\ tried[i].talk = mine[i].talk
  <2>1. \A i \in DOMAIN mine : Retried(d, mine[i]) \in JobRows /\ Retried(d, mine[i]).talk = mine[i].talk
    BY <1>6, TriedAgain
  <2>5. tried = [i \in DOMAIN mine |-> Retried(d, mine[i])]
    BY DEF tried, Tried, mine
  <2>2. tried \in [1..Len(mine) -> JobRows] /\ DOMAIN tried = DOMAIN mine
    BY <1>6, <2>1, <2>5
  <2>3. tried \in Seq(JobRows)
    BY <1>4, <2>2, SeqDef
  <2>4. Len(tried) = Len(mine)
    BY <1>4, <1>6, <2>2, <2>3, LenProperties
  <2> QED
    BY <2>1, <2>2, <2>3, <2>4, <2>5
<1>8. ToSet(tried) = {Retried(d, job) : job \in M}
  <2>1. \A x : x \in M <=> \E i \in DOMAIN mine : mine[i] = x
    BY <1>4 DEF ToSet
  <2>2. \A x : x \in ToSet(tried) <=> \E i \in DOMAIN mine : tried[i] = x
    BY <1>7 DEF ToSet
  <2>3. \A x : x \in ToSet(tried) <=> \E job \in M : x = Retried(d, job)
    BY <1>7, <2>1, <2>2
  <2> QED
    BY <2>3
<1>9. OneEntry(tried)
  <2>1. ASSUME NEW i \in DOMAIN tried, NEW j \in DOMAIN tried, tried[i].talk = tried[j].talk PROVE i = j
    <3>1. mine[i].talk = mine[j].talk /\ mine[i] \in ToSet(jobs) /\ mine[j] \in ToSet(jobs) /\ i \in DOMAIN mine /\ j \in DOMAIN mine
      BY <1>2, <1>6, <1>7, <2>1
    <3>2. mine[i] = mine[j]
      BY <3>1 DEF OneEntry
    <3> QED
      BY <1>4, <3>1, <3>2 DEF Distinct
  <2> QED
    BY <2>1, OneEntryAt
<1> DEFINE L == {job \in ToSet(tried) : job.tries < MaxTries}
<1>10. last = Where(tried, L) /\ ToSet(tried) \cap L = L
  BY DEF last, LastRow, tried
<1>11. /\ last \in Seq(JobRows) /\ ToSet(last) = L /\ Distinct(last) /\ Len(last) \in Nat /\ Len(last) <= Len(mine)
  <2> HIDE DEF L
  <2>1. Distinct(tried)
    BY <1>9 DEF OneEntry
  <2>2. /\ Where(tried, L) \in Seq(JobRows) /\ ToSet(Where(tried, L)) = ToSet(tried) \cap L
        /\ Distinct(Where(tried, L)) /\ Len(Where(tried, L)) \in Nat /\ Len(Where(tried, L)) <= Len(tried)
    BY <1>7, <2>1, WhereSet
  <2> QED
    BY <1>7, <1>10, <2>2
<1>12. \A x \in L : x \in Jobs /\ x.lease = Nobody /\ \E job \in M : x.talk = job.talk /\ x.stop = job.stop
  <2>1. M \subseteq Jobs
    BY <1>2, <1>4
  <2> QED
    BY <1>8, <2>1, TriedAgain
<1> HIDE DEF L
<1>13. last \in Seq(Jobs)
  BY <1>11, <1>12, SeqOver
<1>14. N \cap L = {} /\ \A x \in N, y \in L : x.talk # y.talk
  <2>1. ASSUME NEW x \in N, NEW y \in L PROVE x.talk # y.talk
    <3>1. PICK job \in M : y.talk = job.talk
      BY <1>12
    <3>2. x # job /\ x \in ToSet(jobs) /\ job \in ToSet(jobs)
      BY <1>2
    <3> QED
      BY <3>1, <3>2 DEF OneEntry
  <2> QED
    BY <2>1
<1>15. /\ others \o last \in Seq(Jobs) /\ Len(others \o last) = Len(others) + Len(last)
       /\ ToSet(others \o last) = N \cup L
       /\ Distinct(others \o last)
  <2>1. ToSet(others) \cap ToSet(last) = {}
    BY <1>4, <1>11, <1>14
  <2>2. /\ others \o last \in Seq(Jobs) /\ Len(others \o last) = Len(others) + Len(last)
        /\ ToSet(others \o last) = ToSet(others) \cup ToSet(last)
        /\ Distinct(others) /\ Distinct(last) => Distinct(others \o last)
    BY <1>4, <1>13, <2>1, ConcatSet
  <2> QED
    BY <1>4, <1>11, <2>2
<1>16. \A x, y \in N \cup L : x.talk = y.talk => x = y
  <2>1. \A x, y \in N : x.talk = y.talk => x = y
    BY <1>2 DEF OneEntry
  <2>2. \A x, y \in L : x.talk = y.talk => x = y
    BY <1>9 DEF OneEntry, L
  <2> QED
    BY <1>14, <2>1, <2>2
<1>17. Len(others \o last) <= MaxQueued
  <2>1. Len(others) + Len(last) <= MaxQueued
    BY <1>1, <1>4, <1>5, <1>11
  <2> QED
    BY <1>15, <2>1
<1>18. OneEntry(others \o last)
  BY <1>15, <1>16 DEF OneEntry
<1> QED
  BY <1>2, <1>4, <1>8, <1>11, <1>15, <1>17, <1>18 DEF L, others, last, tried

\* A drain that settles loses no entry that was not answered.
LEMMA SettleQueue ==
    ASSUME GradingFit, Queued, NEW d \in Drains, Settle(d)
    PROVE  /\ Queued' /\ jobs' \in Seq(Jobs) /\ Len(jobs') <= MaxQueued /\ tally' \in Tallies
           /\ tally'.paid = tally.paid /\ tally'.forgotten = tally.forgotten
<1> DEFINE others == OtherRows(d)
           tried == Tried(d)
           last == LastRow(d)
           spent == {job \in ToSet(tried) : job.tries >= MaxTries}
           A == Answered(spent, tally.answered)
<1>1. /\ grader[d].at = "next" /\ grader[d].list = <<>>
      /\ jobs' = others \o last
      /\ tally' = [tally EXCEPT !.answered = A]
      /\ Proceeds(d, "done")
  BY DEF Settle, GraderAt, OtherRows, LeasedAgain, Tried, LastRow
<1>2. d \in Graders /\ OneEntry(jobs)
  BY DEF Queued, Graders
<1>3. /\ grader'[d].at = "done" /\ grader'[d].list = grader[d].list
      /\ \A h \in Graders \ {d} : grader'[h] = grader[h]
  BY <1>1, <1>2, GoesOn DEF GraderPlaces
<1>4. /\ ToSet(others) = {job \in ToSet(jobs) : job.lease # d}
      /\ ToSet(tried) = {Retried(d, job) : job \in {old \in ToSet(jobs) : old.lease = d /\ Again(d, old)}}
      /\ ToSet(last) = {job \in ToSet(tried) : job.tries < MaxTries}
      /\ others \o last \in Seq(Jobs) /\ Len(others \o last) <= MaxQueued
      /\ ToSet(others \o last) = ToSet(others) \cup ToSet(last)
      /\ OneEntry(others \o last)
  BY <1>2, SettledRows
<1> HIDE DEF others, last, tried
<1>5. \A job \in ToSet(jobs) : /\ job \in Jobs /\ job.talk \in Talks /\ job.stop = tally.stops[job.talk]
  BY JobTyped DEF Queued
<1>6. \A x \in ToSet(tried) : /\ x.talk \in Talks /\ x.stop = tally.stops[x.talk] /\ x.lease = Nobody
                              /\ x.tries \in Nat
  BY <1>4, <1>5, TriedAgain
<1>7. /\ tally \in Tallies /\ tally.answered \in [Talks -> 0..MaxStops] /\ tally.stops \in [Talks -> 0..MaxStops]
      /\ MaxStops \in Nat /\ MaxTries \in Nat
  BY GradingAssumption DEF GradingFit, Tallies
<1>8. /\ A \in [Talks -> 0..MaxStops]
      /\ \A c \in Talks : /\ tally.answered[c] <= A[c] /\ A[c] <= tally.stops[c]
                          /\ (\E row \in spent : row.talk = c) => A[c] = tally.stops[c]
  <2>1. \A c \in Talks : tally.answered[c] <= tally.stops[c]
    BY DEF Queued
  <2>2. \A row \in spent : row.talk \in Talks /\ row.stop = tally.stops[row.talk]
    BY <1>6
  <2> HIDE DEF spent
  <2> QED
    BY <1>7, <2>1, <2>2, AnsweredTo
<1> HIDE DEF A
<1>9. /\ tally' \in Tallies /\ tally'.stops = tally.stops /\ tally'.answered = A
      /\ tally'.paid = tally.paid /\ tally'.forgotten = tally.forgotten
  BY <1>1, <1>7, <1>8, TallyChanges
<1>10. ASSUME NEW c \in Talks
       PROVE  A[c] \in Int /\ tally.stops[c] \in Int /\ tally.answered[c] \in Int /\ tally.answered[c] <= A[c] /\ A[c] <= tally.stops[c]
  BY <1>7, <1>8
<1>11. ASSUME NEW c \in Talks, A[c] < tally.stops[c] PROVE \E job \in ToSet(jobs') : job.talk = c
  <2>1. tally.answered[c] < tally.stops[c]
    BY <1>10, <1>11
  <2>2. PICK job \in ToSet(jobs) : job.talk = c
    BY <2>1 DEF Queued
  <2>3. CASE job.lease # d
    BY <1>1, <1>4, <2>2, <2>3
  <2>4. CASE job.lease = d
    <3>1. Provided(d, job)
      BY <1>1, <2>4 DEF Queued, Busy
    <3>2. ToSet(grader[d].list) = {}
      BY <1>1 DEF ToSet
    <3>3. ~ (job.stop <= tally.answered[job.talk])
      BY <1>5, <1>10, <2>1, <2>2
    <3>4. Again(d, job)
      BY <3>1, <3>2, <3>3 DEF Provided, Again
    <3>5. /\ Retried(d, job) \in ToSet(tried) /\ Retried(d, job).talk = c /\ Retried(d, job).tries \in Nat
      BY <1>4, <1>5, <2>2, <2>4, <3>4, TriedAgain
    <3>6. ~ (Retried(d, job).tries >= MaxTries)
      BY <1>8, <1>10, <1>11, <3>5
    <3>7. Retried(d, job).tries < MaxTries
      BY <1>7, <3>5, <3>6
    <3> QED
      BY <1>1, <1>4, <3>5, <3>7
  <2> QED
    BY <2>3, <2>4
<1>12. \A job \in ToSet(jobs') : job.stop = tally'.stops[job.talk] /\ (job.lease # Nobody => job \in ToSet(jobs))
  BY <1>1, <1>4, <1>5, <1>6, <1>9
<1>13. ASSUME NEW h \in Graders, NEW job \in ToSet(grader'[h].list) PROVE job.stop <= tally'.stops[job.talk]
  <2>1. job \in ToSet(grader[h].list)
    BY <1>2, <1>3, <1>13
  <2> QED
    BY <1>9, <2>1 DEF Queued
<1>14. ASSUME NEW x \in Drains, grader'[x].at \in Busy, NEW job \in ToSet(jobs'), job.lease = x
       PROVE  Provided(x, job)'
  <2>1. x # d /\ x \in Graders /\ x # Nobody
    BY <1>3, <1>14, GradingAssumption DEF Busy, Graders, Nobody
  <2>2. job \in ToSet(jobs) /\ grader'[x] = grader[x] /\ job.talk \in Talks /\ job.stop \in Nat
    BY <1>3, <1>12, <1>14, <2>1, JobTyped
  <2>3. Provided(x, job)
    BY <1>14, <2>2 DEF Queued
  <2>4. job.stop <= tally.answered[job.talk] => job.stop <= tally'.answered[job.talk]
    BY <1>9, <1>10, <2>2
  <2> QED
    BY <2>2, <2>3, <2>4 DEF Provided
<1>15. \A c \in Talks : /\ tally'.answered[c] <= tally'.stops[c]
                        /\ tally'.answered[c] < tally'.stops[c] => \E job \in ToSet(jobs') : job.talk = c
  BY <1>9, <1>10, <1>11
<1>16. OneEntry(jobs') /\ jobs' \in Seq(Jobs) /\ Len(jobs') <= MaxQueued
  BY <1>1, <1>4
<1> QED
  BY <1>9, <1>12, <1>13, <1>14, <1>15, <1>16 DEF Queued

\* What a person asks for stands for no stop.
LEMMA AskKeeps ==
    ASSUME GradingInv, NEW g \in Persons, NEW c \in Talks, Ask(g, c)
    PROVE  GradingInv'
<1> DEFINE job == [talk |-> c, stop |-> 0, trace |-> TRUE, lease |-> Nobody, tries |-> 0]
           list == <<job>>
           row == [at |-> "next", retry |-> {}, list |-> list]
<1>1. /\ grader[g].at = "new" /\ grader' = [grader EXCEPT ![g] = row]
      /\ UNCHANGED <<jobs, marker, stamped, tick, lapsed, tally>>
  BY DEF Ask, GraderAt
<1>2. g \in Graders /\ g \notin Drains /\ MaxStops \in Nat
  BY GradingAssumption DEF Graders
<1>3. job \in JobRows /\ job.stop = 0 /\ job.talk = c
  <2>1. 0 \in 0..MaxStops
    BY <1>2
  <2> QED
    BY <2>1 DEF JobRows
<1> HIDE DEF job
<1>4. list \in Seq(JobRows) /\ ToSet(list) = {job}
  BY <1>3 DEF ToSet
<1> HIDE DEF list
<1>5. row \in GraderRows /\ row.at = "next" /\ row.list = list
  BY <1>4 DEF GraderRows, GraderPlaces
<1> HIDE DEF row
<1>6. /\ grader' \in [Graders -> GraderRows] /\ grader'[g] = row
      /\ \A h \in Graders \ {g} : grader'[h] = grader[h]
  BY <1>1, <1>2, <1>5, OneGrader DEF GradingInv
<1>7. GradingFit'
  <2>1. \A h \in Graders : grader'[h].at \in InHand => grader'[h].list # <<>>
    BY <1>5, <1>6 DEF GradingInv, GradingFit, InHand
  <2> QED
    BY <1>1, <1>6, <2>1 DEF GradingInv, GradingFit
<1>8. Money'
  <2>1. \A h \in Graders :
               \/ grader'[h].at = grader[h].at /\ grader'[h].list = grader[h].list
               \/ /\ grader[h].at \notin {"paid", "dead"}
                  /\ grader'[h].at \notin {"claimed", "paid", "leaving"}
    BY <1>1, <1>5, <1>6
  <2> QED
    BY <1>1, <2>1, MoneyKept DEF GradingInv
<1>9. Queued'
  <2>1. ASSUME NEW h \in Graders, NEW x \in ToSet(grader'[h].list) PROVE x.stop <= tally'.stops[x.talk]
    <3>1. CASE h = g
      <4>1. x = job
        BY <1>4, <1>5, <1>6, <2>1, <3>1
      <4>2. tally'.stops[c] \in Nat
        BY <1>1, TallyTyped DEF GradingInv, GradingFit
      <4> QED
        BY <1>3, <4>1, <4>2
    <3>2. CASE h # g
      BY <1>1, <1>6, <2>1, <3>2 DEF GradingInv, Queued
    <3> QED
      BY <3>1, <3>2
  <2>2. ASSUME NEW d \in Drains, grader'[d].at \in Busy, NEW x \in ToSet(jobs'), x.lease = d
        PROVE  Provided(d, x)'
    <3>1. grader'[d] = grader[d]
      BY <1>2, <1>6 DEF Graders
    <3>2. Provided(d, x)
      BY <1>1, <2>2, <3>1 DEF GradingInv, Queued
    <3> QED
      BY <1>1, <3>1, <3>2 DEF Provided
  <2> QED
    BY <1>1, <2>1, <2>2 DEF GradingInv, Queued
<1> QED
  BY <1>7, <1>8, <1>9 DEF GradingInv

\* The steps that only go on from one place to another, or change nothing of it.
LEMMA GoesOnFit ==
    ASSUME GradingFit, NEW g \in Graders, NEW place \in GraderPlaces, Proceeds(g, place),
           place \in InHand => grader[g].list # <<>>
    PROVE  \A h \in Graders : grader'[h].at \in InHand => grader'[h].list # <<>>
<1>1. /\ grader'[g].at = place /\ grader'[g].list = grader[g].list
      /\ \A h \in Graders \ {g} : grader'[h] = grader[h]
  BY GoesOn
<1> QED
  BY <1>1 DEF GradingFit

\* No grader has a job in hand whose list is empty.
LEMMA JobOverFit ==
    ASSUME GradingFit, NEW g \in Graders, grader[g].list # <<>>, NEW retry \in Retries \cup {"no"}, Over(g, retry)
    PROVE  \A h \in Graders : grader'[h].at \in InHand => grader'[h].list # <<>>
<1>1. /\ grader'[g].at = "next"
      /\ \A h \in Graders \ {g} : grader'[h] = grader[h]
  BY JobOver
<1> QED
  BY <1>1 DEF GradingFit, InHand

\* A stop keeps the invariant.
LEMMA StopKeeps ==
    ASSUME GradingInv, NEW c \in Talks, NEW trace \in BOOLEAN, Stop(c, trace)
    PROVE  GradingInv'
<1>1. UNCHANGED <<marker, stamped, grader, tick, lapsed>>
  BY DEF Stop
<1>2. /\ Queued' /\ jobs' \in Seq(Jobs) /\ Len(jobs') <= MaxQueued /\ tally' \in Tallies
      /\ tally'.paid = tally.paid /\ tally'.forgotten = tally.forgotten
  BY StopQueue DEF GradingInv
<1>3. GradingFit'
  BY <1>1, <1>2 DEF GradingInv, GradingFit
<1>4. Money'
  BY <1>1, <1>2, MoneyKept DEF GradingInv
<1> QED
  BY <1>2, <1>3, <1>4 DEF GradingInv

\* So does a tick that reads the stamp of a conversation.
LEMMA TickReadsKeeps ==
    ASSUME GradingInv, NEW k \in Ticks, NEW c \in Talks, TickReads(k, c)
    PROVE  GradingInv'
<1>1. UNCHANGED <<jobs, marker, stamped, grader, lapsed, tally>>
  BY DEF TickReads
<1>2. tick' \in [Ticks -> [talk : SUBSET Talks, stamp : BOOLEAN]]
  <2>1. [talk |-> {c}, stamp |-> stamped[c]] \in [talk : SUBSET Talks, stamp : BOOLEAN]
    BY DEF GradingInv, GradingFit
  <2> QED
    BY <2>1 DEF GradingInv, GradingFit, TickReads
<1>3. GradingFit'
  BY <1>1, <1>2 DEF GradingInv, GradingFit
<1>4. Money'
  BY <1>1, MoneyKept DEF GradingInv
<1>5. Queued'
  BY <1>1, QueueKept DEF GradingInv
<1> QED
  BY <1>3, <1>4, <1>5 DEF GradingInv

\* And one that writes it back.
LEMMA TickWritesKeeps ==
    ASSUME GradingInv, NEW k \in Ticks, TickWrites(k)
    PROVE  GradingInv'
<1>1. UNCHANGED <<jobs, marker, grader, lapsed>>
  BY DEF TickWrites
<1>2. tick' \in [Ticks -> [talk : SUBSET Talks, stamp : BOOLEAN]]
  <2>1. NoTick \in [talk : SUBSET Talks, stamp : BOOLEAN]
    BY DEF NoTick
  <2> QED
    BY <2>1 DEF GradingInv, GradingFit, TickWrites
<1>3. /\ Money' /\ stamped' \in [Talks -> BOOLEAN] /\ tally' \in Tallies
      /\ tally'.stops = tally.stops /\ tally'.answered = tally.answered
  BY TickWritesMoney DEF GradingInv
<1>4. GradingFit'
  BY <1>1, <1>2, <1>3 DEF GradingInv, GradingFit
<1>5. Queued'
  BY <1>1, <1>3, QueueKept DEF GradingInv
<1> QED
  BY <1>3, <1>4, <1>5 DEF GradingInv

\* A drain takes its lease (drain_reinforce_queue).
LEMMA LeaseKeeps ==
    ASSUME GradingInv, NEW d \in Drains, Lease(d)
    PROVE  GradingInv'
<1>1. grader[d].at = "new" /\ d \in Graders /\ UNCHANGED <<marker, stamped, tick, lapsed, tally>>
  BY DEF Lease, GraderAt, Graders
<1>2. /\ Queued' /\ jobs' \in Seq(Jobs) /\ Len(jobs') <= MaxQueued
      /\ grader' \in [Graders -> GraderRows] /\ grader'[d].at = "next"
      /\ \A h \in Graders \ {d} : grader'[h] = grader[h]
  BY LeaseQueue DEF GradingInv
<1>3. GradingFit'
  <2>1. \A h \in Graders : grader'[h].at \in InHand => grader'[h].list # <<>>
    BY <1>2 DEF GradingInv, GradingFit, InHand
  <2> QED
    BY <1>1, <1>2, <2>1 DEF GradingInv, GradingFit
<1>4. Money'
  <2>1. \A h \in Graders :
               \/ grader'[h].at = grader[h].at /\ grader'[h].list = grader[h].list
               \/ /\ grader[h].at \notin {"paid", "dead"}
                  /\ grader'[h].at \notin {"claimed", "paid", "leaving"}
    BY <1>1, <1>2
  <2> QED
    BY <1>1, <2>1, MoneyKept DEF GradingInv
<1> QED
  BY <1>2, <1>3, <1>4 DEF GradingInv

\* A drain gives back what it leased (drain_reinforce_queue).
LEMMA SettleKeeps ==
    ASSUME GradingInv, NEW d \in Drains, Settle(d)
    PROVE  GradingInv'
<1>1. /\ grader[d].at = "next" /\ d \in Graders /\ Proceeds(d, "done")
      /\ UNCHANGED <<marker, stamped, tick, lapsed>>
  BY DEF Settle, GraderAt, Graders
<1>2. /\ grader' \in [Graders -> GraderRows] /\ grader'[d].at = "done"
      /\ \A h \in Graders \ {d} : grader'[h] = grader[h]
  BY <1>1, GoesOn DEF GradingInv, GraderPlaces
<1>3. /\ Queued' /\ jobs' \in Seq(Jobs) /\ Len(jobs') <= MaxQueued /\ tally' \in Tallies
      /\ tally'.paid = tally.paid /\ tally'.forgotten = tally.forgotten
  BY SettleQueue DEF GradingInv
<1>4. GradingFit'
  <2>1. \A h \in Graders : grader'[h].at \in InHand => grader'[h].list # <<>>
    BY <1>2 DEF GradingInv, GradingFit, InHand
  <2> QED
    BY <1>1, <1>2, <1>3, <2>1 DEF GradingInv, GradingFit
<1>5. Money'
  <2>1. \A h \in Graders :
               \/ grader'[h].at = grader[h].at /\ grader'[h].list = grader[h].list
               \/ /\ grader[h].at \notin {"paid", "dead"}
                  /\ grader'[h].at \notin {"claimed", "paid", "leaving"}
    BY <1>1, <1>2
  <2> QED
    BY <1>1, <1>3, <2>1, MoneyKept DEF GradingInv
<1> QED
  BY <1>3, <1>4, <1>5 DEF GradingInv

\* A grader that goes on without leaving or paying: Look, Finish.
LEMMA ProceedsKeeps ==
    ASSUME GradingInv, NEW g \in Graders, grader[g].at = "next", NEW place \in {"claim", "done"},
           place = "claim" => grader[g].list # <<>>,
           Proceeds(g, place), UNCHANGED <<jobs, marker, stamped, tick, lapsed, tally>>
    PROVE  GradingInv'
<1>1. /\ grader' \in [Graders -> GraderRows]
      /\ grader'[g].at = place /\ grader'[g].list = grader[g].list /\ grader'[g].retry = grader[g].retry
      /\ \A h \in Graders \ {g} : grader'[h] = grader[h]
  BY GoesOn DEF GradingInv, GraderPlaces
<1>2. GradingFit'
  <2>1. \A h \in Graders : grader'[h].at \in InHand => grader'[h].list # <<>>
    BY <1>1 DEF GradingInv, GradingFit, InHand
  <2> QED
    BY <1>1, <2>1 DEF GradingInv, GradingFit
<1>3. Money'
  <2>1. \A h \in Graders :
               \/ grader'[h].at = grader[h].at /\ grader'[h].list = grader[h].list
               \/ /\ grader[h].at \notin {"paid", "dead"}
                  /\ grader'[h].at \notin {"claimed", "paid", "leaving"}
    BY <1>1
  <2> QED
    BY <2>1, MoneyKept DEF GradingInv
<1>4. Queued'
  <2>1. \A h \in Graders : /\ grader'[h].list = grader[h].list /\ grader'[h].retry = grader[h].retry
                           /\ grader'[h].at \in Busy => grader[h].at \in Busy
    BY <1>1 DEF Busy
  <2> QED
    BY <2>1, QueueKept DEF GradingInv
<1> QED
  BY <1>2, <1>3, <1>4 DEF GradingInv

\* The job in hand is over before the conversation was claimed: Pass, InFlight.
LEMMA SettlesKeeps ==
    ASSUME GradingInv, NEW g \in Graders, grader[g].at \in {"next", "claim"}, grader[g].list # <<>>,
           NEW retry \in Retries \cup {"no"}, Settles(g, retry),
           UNCHANGED <<jobs, marker, stamped, tick, lapsed>>
    PROVE  GradingInv'
<1>1. GradingFit /\ Money /\ Queued /\ Over(g, retry) /\ grader[g].at \in Busy
  BY DEF GradingInv, Settles, Busy
<1>2. /\ grader' \in [Graders -> GraderRows] /\ grader'[g].at = "next"
      /\ \A h \in Graders \ {g} : grader'[h] = grader[h]
  BY <1>1, JobOver
<1>3. \A h \in Graders : grader'[h].at \in InHand => grader'[h].list # <<>>
  BY <1>1, JobOverFit
<1>4. /\ Queued' /\ tally' \in Tallies
      /\ tally'.stops = tally.stops /\ tally'.paid = tally.paid /\ tally'.forgotten = tally.forgotten
  BY <1>1, QueueOver
<1>5. GradingFit'
  BY <1>1, <1>2, <1>3, <1>4 DEF GradingFit
<1>6. Money'
  <2>1. \A h \in Graders :
               \/ grader'[h].at = grader[h].at /\ grader'[h].list = grader[h].list
               \/ /\ grader[h].at \notin {"paid", "dead"}
                  /\ grader'[h].at \notin {"claimed", "paid", "leaving"}
    BY <1>2
  <2> QED
    BY <1>1, <1>4, <2>1, MoneyKept
<1> QED
  BY <1>4, <1>5, <1>6 DEF GradingInv

\* The conversation is left: LeaveTalk, Release.
LEMMA LeavesKeeps ==
    ASSUME GradingInv, NEW g \in Graders, grader[g].at \in {"claimed", "leaving"},
           NEW retry \in Retries \cup {"no"}, Settles(g, retry),
           marker' = [marker EXCEPT ![Talk(g)] = Nobody], UNCHANGED <<jobs, stamped, tick, lapsed>>
    PROVE  GradingInv'
<1>1. GradingFit /\ Money /\ Queued /\ Over(g, retry) /\ grader[g].at \in Busy /\ grader[g].list # <<>>
  BY DEF GradingInv, GradingFit, Settles, Busy, InHand
<1>2. grader' \in [Graders -> GraderRows]
  BY <1>1, JobOver
<1>3. \A h \in Graders : grader'[h].at \in InHand => grader'[h].list # <<>>
  BY <1>1, JobOverFit
<1>4. /\ Queued' /\ tally' \in Tallies
      /\ tally'.stops = tally.stops /\ tally'.paid = tally.paid /\ tally'.forgotten = tally.forgotten
  BY <1>1, QueueOver
<1>5. Money' /\ marker' \in [Talks -> Graders \cup {Nobody}]
  BY <1>1, <1>4, LeaveMoney
<1>6. GradingFit'
  BY <1>1, <1>2, <1>3, <1>4, <1>5 DEF GradingFit
<1> QED
  BY <1>4, <1>5, <1>6 DEF GradingInv

\* A step from a place to another with the same entries in hand.
LEMMA PlaceKeeps ==
    ASSUME GradingInv, NEW g \in Graders, NEW place \in GraderPlaces, Proceeds(g, place),
           place \in Busy => grader[g].at \in Busy, place \in InHand => grader[g].at \in InHand,
           UNCHANGED jobs, tally'.stops = tally.stops, tally'.answered = tally.answered
    PROVE  /\ grader' \in [Graders -> GraderRows] /\ Queued'
           /\ \A h \in Graders : grader'[h].at \in InHand => grader'[h].list # <<>>
<1>1. /\ grader' \in [Graders -> GraderRows]
      /\ grader'[g].at = place /\ grader'[g].list = grader[g].list /\ grader'[g].retry = grader[g].retry
      /\ \A h \in Graders \ {g} : grader'[h] = grader[h]
  BY GoesOn DEF GradingInv
<1>2. \A h \in Graders : grader'[h].at \in InHand => grader'[h].list # <<>>
  BY <1>1 DEF GradingInv, GradingFit
<1>3. Queued'
  BY <1>1, QueueKept DEF GradingInv
<1> QED
  BY <1>1, <1>2, <1>3

\* A grader takes the marker of a conversation (_claim_inflight).
LEMMA ClaimTalkKeeps ==
    ASSUME GradingInv, NEW g \in Graders, ClaimTalk(g)
    PROVE  GradingInv'
<1>1. grader[g].at = "claim" /\ Proceeds(g, "claimed") /\ UNCHANGED <<jobs, stamped, tick, lapsed, tally>>
  BY DEF ClaimTalk, GraderAt
<1>2. Money' /\ marker' \in [Talks -> Graders \cup {Nobody}]
  BY ClaimTalkMoney DEF GradingInv
<1>3. /\ grader' \in [Graders -> GraderRows] /\ Queued'
      /\ \A h \in Graders : grader'[h].at \in InHand => grader'[h].list # <<>>
  BY <1>1, PlaceKeeps DEF Busy, InHand, GraderPlaces
<1>4. GradingFit'
  BY <1>1, <1>2, <1>3 DEF GradingInv, GradingFit
<1> QED
  BY <1>2, <1>3, <1>4 DEF GradingInv

\* It pays.
LEMMA PayKeeps ==
    ASSUME GradingInv, NEW g \in Graders, Pay(g)
    PROVE  GradingInv'
<1>1. grader[g].at = "claimed" /\ Proceeds(g, "paid") /\ UNCHANGED <<jobs, marker, stamped, tick, lapsed>>
  BY DEF Pay, GraderAt
<1>2. Money' /\ tally' \in Tallies /\ tally'.stops = tally.stops /\ tally'.answered = tally.answered
  BY PayMoney DEF GradingInv
<1>3. /\ grader' \in [Graders -> GraderRows] /\ Queued'
      /\ \A h \in Graders : grader'[h].at \in InHand => grader'[h].list # <<>>
  BY <1>1, <1>2, PlaceKeeps DEF Busy, InHand, GraderPlaces
<1>4. GradingFit'
  BY <1>1, <1>2, <1>3 DEF GradingInv, GradingFit
<1> QED
  BY <1>2, <1>3, <1>4 DEF GradingInv

\* It stamps what it paid for.
LEMMA StampKeeps ==
    ASSUME GradingInv, NEW g \in Graders, Stamp(g)
    PROVE  GradingInv'
<1>1. grader[g].at = "paid" /\ Proceeds(g, "leaving") /\ UNCHANGED <<jobs, marker, tick, lapsed, tally>>
  BY DEF Stamp, GraderAt
<1>2. Money' /\ stamped' \in [Talks -> BOOLEAN]
  BY StampMoney DEF GradingInv
<1>3. /\ grader' \in [Graders -> GraderRows] /\ Queued'
      /\ \A h \in Graders : grader'[h].at \in InHand => grader'[h].list # <<>>
  BY <1>1, PlaceKeeps DEF Busy, InHand, GraderPlaces
<1>4. GradingFit'
  BY <1>1, <1>2, <1>3 DEF GradingInv, GradingFit
<1> QED
  BY <1>2, <1>3, <1>4 DEF GradingInv

\* It ends without a stamp: its answer is of no use, it dies or it raises an error.
LEMMA ForgetsKeeps ==
    ASSUME GradingInv, NEW g \in Graders, SpoilsAnswer(g) \/ GraderDies(g) \/ GraderRaises(g)
    PROVE  GradingInv'
<1>1. PICK place \in {"leaving", "dead"} :
         /\ Proceeds(g, place) /\ Forgets(g) /\ UNCHANGED <<jobs, stamped, tick, lapsed>>
         /\ (place = "leaving" => grader[g].at = "paid") /\ grader[g].at \notin {"new", "done", "dead"}
         /\ \/ UNCHANGED marker
            \/ /\ place = "dead" /\ grader[g].at \in {"claimed", "paid", "leaving"}
               /\ marker' = [marker EXCEPT ![Talk(g)] = Nobody]
  BY DEF SpoilsAnswer, GraderDies, GraderRaises, GraderEnds, GraderAt
<1>2. /\ Money' /\ tally' \in Tallies /\ marker' \in [Talks -> Graders \cup {Nobody}]
      /\ tally'.stops = tally.stops /\ tally'.answered = tally.answered
  BY <1>1, ForgetsMoney DEF GradingInv
<1>3. /\ place \in GraderPlaces /\ (place \in Busy => grader[g].at \in Busy)
      /\ (place \in InHand => grader[g].at \in InHand)
  BY <1>1 DEF Busy, InHand, GraderPlaces
<1>4. /\ grader' \in [Graders -> GraderRows] /\ Queued'
      /\ \A h \in Graders : grader'[h].at \in InHand => grader'[h].list # <<>>
  BY <1>1, <1>2, <1>3, PlaceKeeps
<1>5. GradingFit'
  BY <1>1, <1>2, <1>4 DEF GradingInv, GradingFit
<1> QED
  BY <1>2, <1>4, <1>5 DEF GradingInv

\* Its leases and its marker lapse.
LEMMA LapseKeeps ==
    ASSUME GradingInv, NEW g \in Graders, GraderLapses(g)
    PROVE  GradingInv'
<1>1. UNCHANGED <<jobs, marker, stamped, grader, tick, tally>>
  BY DEF GraderLapses
<1>2. Money' /\ lapsed' \subseteq Graders
  BY LapseMoney DEF GradingInv
<1>3. GradingFit'
  BY <1>1, <1>2 DEF GradingInv, GradingFit
<1>4. Queued'
  BY <1>1, QueueKept DEF GradingInv
<1> QED
  BY <1>2, <1>3, <1>4 DEF GradingInv

\* Nothing is queued at first.
LEMMA GradingStarts == GradingInit => GradingInv
<1> SUFFICES ASSUME GradingInit PROVE GradingInv
  OBVIOUS
<1>1. /\ jobs = <<>> /\ jobs \in Seq(Jobs) /\ Len(jobs) = 0 /\ ToSet(jobs) = {} /\ OneEntry(jobs)
  BY EmptySeq DEF GradingInit, ToSet, OneEntry, Distinct
<1>2. /\ MaxQueued \in Nat /\ MaxStops \in Nat /\ tally \in Tallies
      /\ \A c \in Talks : tally.stops[c] = 0 /\ tally.answered[c] = 0 /\ tally.paid[c] = 0 /\ tally.forgotten[c] = 0
  BY GradingAssumption DEF GradingInit, Tallies, Zeros
<1>3. \A g \in Graders : grader[g] = [at |-> "new", list |-> <<>>, retry |-> {}]
  BY DEF GradingInit
<1>4. grader \in [Graders -> GraderRows]
  <2>1. [at |-> "new", list |-> <<>>, retry |-> {}] \in GraderRows
    BY EmptySeq DEF GraderRows, GraderPlaces
  <2> QED
    BY <2>1 DEF GradingInit
<1>5. GradingFit
  BY <1>1, <1>2, <1>3, <1>4 DEF GradingInit, GradingFit, NoTick, InHand
<1>6. Money
  BY <1>2, <1>3 DEF GradingInit, Money
<1>7. Queued
  <2>1. \A g \in Graders : ToSet(grader[g].list) = {}
    BY <1>3 DEF ToSet
  <2> QED
    BY <1>1, <1>2, <2>1 DEF Queued
<1> QED
  BY <1>5, <1>6, <1>7 DEF GradingInv

\* Every step keeps the invariant.
LEMMA GradingKeep == GradingInv /\ [GradingNext]_gradingVars => GradingInv'
<1> SUFFICES ASSUME GradingInv, [GradingNext]_gradingVars PROVE GradingInv'
  OBVIOUS
<1>1. CASE UNCHANGED gradingVars
  BY <1>1 DEF gradingVars, GradingInv, GradingFit, Money, AtPaid, Talk, Queued, OneEntry, Distinct, Provided
<1>2. ASSUME NEW c \in Talks, NEW trace \in BOOLEAN, Stop(c, trace) PROVE GradingInv'
  BY <1>2, StopKeeps
<1>3. ASSUME NEW k \in Ticks, TickWrites(k) PROVE GradingInv'
  BY <1>3, TickWritesKeeps
<1>4. ASSUME NEW k \in Ticks, NEW c \in Talks, TickReads(k, c) PROVE GradingInv'
  BY <1>4, TickReadsKeeps
<1>5. ASSUME NEW d \in Drains, Lease(d) PROVE GradingInv'
  BY <1>5, LeaseKeeps
<1>6. ASSUME NEW d \in Drains, Settle(d) PROVE GradingInv'
  BY <1>6, SettleKeeps
<1>7. ASSUME NEW g \in Persons, Finish(g) PROVE GradingInv'
  BY <1>7, ProceedsKeeps DEF Finish, GraderAt, Graders
<1>8. ASSUME NEW g \in Persons, NEW c \in Talks, Ask(g, c) PROVE GradingInv'
  BY <1>8, AskKeeps
<1>9. ASSUME NEW g \in Graders, Look(g) PROVE GradingInv'
  BY <1>9, ProceedsKeeps DEF Look, GraderAt
<1>10. ASSUME NEW g \in Graders, InFlight(g) PROVE GradingInv'
  <2>1. grader[g].list # <<>>
    BY <1>10 DEF InFlight, GraderAt, GradingInv, GradingFit, InHand
  <2> QED
    BY <1>10, <2>1, SettlesKeeps DEF InFlight, GraderAt
<1>11. ASSUME NEW g \in Graders, ClaimTalk(g) PROVE GradingInv'
  BY <1>11, ClaimTalkKeeps
<1>12. ASSUME NEW g \in Graders, Pay(g) PROVE GradingInv'
  BY <1>12, PayKeeps
<1>13. ASSUME NEW g \in Graders, Stamp(g) PROVE GradingInv'
  BY <1>13, StampKeeps
<1>14. ASSUME NEW g \in Graders, Release(g) PROVE GradingInv'
  BY <1>14, LeavesKeeps DEF Release, GraderAt
<1>15. ASSUME NEW g \in Graders, SpoilsAnswer(g) \/ GraderDies(g) \/ GraderRaises(g) PROVE GradingInv'
  BY <1>15, ForgetsKeeps
<1>16. ASSUME NEW g \in Graders, GraderLapses(g) PROVE GradingInv'
  BY <1>16, LapseKeeps
<1>17. ASSUME NEW g \in Graders, NEW retry \in {"no", "later"}, Pass(g, retry) PROVE GradingInv'
  BY <1>17, SettlesKeeps DEF Pass, GraderAt, Retries
<1>18. ASSUME NEW g \in Graders, NEW retry \in {"no", "oversized"}, LeaveTalk(g, retry) PROVE GradingInv'
  BY <1>18, LeavesKeeps DEF LeaveTalk, GraderAt, Retries
<1> QED
  BY <1>1, <1>2, <1>3, <1>4, <1>5, <1>6, <1>7, <1>8, <1>9, <1>10, <1>11, <1>12, <1>13, <1>14, <1>15,
     <1>16, <1>17, <1>18 DEF GradingNext

\* The invariant of grading holds of every behaviour (reinforce.py).
THEOREM GradingInvariant == GradingSpec => []GradingInv
BY GradingStarts, GradingKeep, PTL DEF GradingSpec

\* Jobs, markers, stamps, graders and the tally keep their shape (reinforce.py).
THEOREM GradingTypeCorrect == GradingSpec => []GradingTypeOK
<1>1. GradingInv => GradingTypeOK
  BY DEF GradingInv, GradingFit, GradingTypeOK
<1> QED
  BY <1>1, GradingInvariant, PTL

\* A stop of a conversation is answered or still has its entry, whatever drains, ticks
\* and persons do at the same time (reinforce.py: enqueue_reinforce,
\* drain_reinforce_queue).
THEOREM NoStopForgotten == GradingSpec => []StopsAnswered
<1>1. GradingInv => StopsAnswered
  <2> SUFFICES ASSUME GradingInv, NEW c \in Talks, tally.answered[c] < tally.stops[c]
               PROVE  \E i \in DOMAIN jobs : jobs[i].talk = c
    BY DEF StopsAnswered
  <2> QED
    BY DEF GradingInv, Queued, ToSet
<1> QED
  BY <1>1, GradingInvariant, PTL

\* A conversation is paid for again only as often as a tick wrote an older state back or
\* a grading that was paid for ended before its stamp, by an error or by death
\* (reinforce.py: reinforce_session, _reinforce_claimed, attention.py:
\* _prepare_attention_job).
THEOREM PaidAgainIfForgotten == GradingSpec => []GradedAgainIfForgotten
<1>1. GradingInv => GradedAgainIfForgotten
  <2> SUFFICES ASSUME GradingInv, NEW c \in Talks
               PROVE  tally.paid[c] <= 1 + tally.forgotten[c]
    BY DEF GradedAgainIfForgotten
  <2>1. tally.paid[c] \in Nat /\ tally.forgotten[c] \in Nat
    BY TallyTyped DEF GradingInv, GradingFit
  <2>2. tally.paid[c] <= tally.forgotten[c] + (IF stamped[c] \/ AtPaid(c) THEN 1 ELSE 0)
    BY DEF GradingInv, Money
  <2> QED
    BY <2>1, <2>2
<1> QED
  BY <1>1, GradingInvariant, PTL

-----------------------------------------------------------------------------
(* Deferred embedding, by any number of writers and drains.  What a drain  *)
(* has done never stands for a version above that of the text, so that it  *)
(* no longer counts when the text has a new one; while it counts, the node *)
(* has the vector of its text, unless an older answer has replaced it.     *)

VersionRows == [Texts -> TextVersions]
DeltaRows == {<<>>} \cup UNION {[ns -> TextVersions] : ns \in SUBSET Texts}
Deltas == [done : DeltaRows, terminal : SUBSET Texts, retry : DeltaRows]
NextRows == [at : {"next"}, todo : Seq(Texts), known : VersionRows, calls : Nat, order : Seq(Texts), delta : Deltas]
CallRows == [at : {"calling"}, todo : Seq(Texts), known : VersionRows, calls : Nat, order : Seq(Texts), delta : Deltas,
             version : TextVersions]
DrainerRows == {Resting} \cup NextRows \cup CallRows

NodeRows == [at : {"edited", "retired", "dropped"}, node : Texts]
CopyRows == [at : {"read"}, node : Texts, queue : Seq(Texts), rejected : VersionRows]
ClearRows == [at : {"clearing"}, node : Texts, rejected : VersionRows]
WriterRows == {Resting} \cup NodeRows \cup CopyRows \cup ClearRows

EmbeddingsFit ==
    /\ text \in VersionRows /\ vector \in VersionRows /\ rejected \in VersionRows
    /\ embedQueue \in Seq(Texts) /\ Distinct(embedQueue)
    /\ writer \in [Writers -> WriterRows]
    /\ drainer \in [Drainers -> DrainerRows]
    /\ unrefreshed \subseteq Texts

\* A version of a text is never above it, until the text goes.
Below(n, v) == text[n] # NoText => v <= text[n]
Current(n, v) == text[n] # NoText /\ v = text[n]

Gone == {"retired", "dropped", "clearing"}
Writing(w) ==
    /\ writer[w].at \in Gone => text[writer[w].node] = NoText
    /\ writer[w].at = "read" => Distinct(writer[w].queue)
DrainOK(row) ==
    /\ Distinct(row.todo) /\ Distinct(row.order)
    /\ \A n \in ToSet(row.todo) : n \notin DOMAIN row.delta.done /\ n \notin ToSet(row.order)
    /\ DOMAIN row.delta.retry \subseteq ToSet(row.order)
    /\ \A n \in DOMAIN row.delta.done :
          /\ Below(n, row.delta.done[n])
          /\ Current(n, row.delta.done[n]) /\ n \notin row.delta.terminal => vector[n] = text[n] \/ n \in unrefreshed
Draining(d) == drainer[d].at \in {"next", "calling"} => DrainOK(drainer[d])
Calling(d) == drainer[d].at = "calling" => drainer[d].todo # <<>> /\ Below(Turn(d), drainer[d].version)

EmbeddingsInv ==
    /\ EmbeddingsFit /\ StaleIsQueued
    /\ \A w \in Writers : Writing(w)
    /\ \A d \in Drainers : Draining(d) /\ Calling(d)

-----------------------------------------------------------------------------
\* Where a writer or a drain is says what it has in hand.
LEMMA RowsAt ==
    ASSUME EmbeddingsFit
    PROVE  /\ \A w \in Writers :
                /\ writer[w].at \in {"edited", "retired", "dropped"} => writer[w] \in NodeRows
                /\ writer[w].at = "read" => writer[w] \in CopyRows
                /\ writer[w].at = "clearing" => writer[w] \in ClearRows
                /\ writer[w].at \in Editing \cup Gone => writer[w].node \in Texts
           /\ \A d \in Drainers :
                /\ drainer[d].at = "next" => drainer[d] \in NextRows
                /\ drainer[d].at = "calling" => drainer[d] \in CallRows
                /\ drainer[d].at \in {"next", "calling"} =>
                      /\ drainer[d].todo \in Seq(Texts) /\ drainer[d].known \in VersionRows
                      /\ drainer[d].calls \in Nat /\ drainer[d].order \in Seq(Texts)
                      /\ drainer[d].delta \in Deltas
                      /\ drainer[d].todo # <<>> => Turn(d) \in Texts /\ Turn(d) \in ToSet(drainer[d].todo)
<1>1. Resting.at = "rest"
  BY DEF Resting
<1>2. ASSUME NEW w \in Writers
      PROVE  /\ writer[w].at \in {"edited", "retired", "dropped"} => writer[w] \in NodeRows
             /\ writer[w].at = "read" => writer[w] \in CopyRows
             /\ writer[w].at = "clearing" => writer[w] \in ClearRows
             /\ writer[w].at \in Editing \cup Gone => writer[w].node \in Texts
  <2>1. writer[w] \in {Resting} \cup NodeRows \cup CopyRows \cup ClearRows
    BY DEF EmbeddingsFit, WriterRows
  <2>2. /\ writer[w] \in NodeRows => writer[w].at \in {"edited", "retired", "dropped"} /\ writer[w].node \in Texts
        /\ writer[w] \in CopyRows => writer[w].at = "read" /\ writer[w].node \in Texts
        /\ writer[w] \in ClearRows => writer[w].at = "clearing" /\ writer[w].node \in Texts
    BY DEF NodeRows, CopyRows, ClearRows
  <2> QED
    BY <1>1, <2>1, <2>2 DEF Editing, Gone
<1>3. ASSUME NEW d \in Drainers
      PROVE  /\ drainer[d].at = "next" => drainer[d] \in NextRows
             /\ drainer[d].at = "calling" => drainer[d] \in CallRows
  <2>1. drainer[d] \in {Resting} \cup NextRows \cup CallRows
    BY DEF EmbeddingsFit, DrainerRows
  <2>2. (drainer[d] \in NextRows => drainer[d].at = "next")
        /\ (drainer[d] \in CallRows => drainer[d].at = "calling")
    BY DEF NextRows, CallRows
  <2> QED
    BY <1>1, <2>1, <2>2
<1>4. ASSUME NEW d \in Drainers, drainer[d].at \in {"next", "calling"}
      PROVE  /\ drainer[d].todo \in Seq(Texts) /\ drainer[d].known \in VersionRows
             /\ drainer[d].calls \in Nat /\ drainer[d].order \in Seq(Texts)
             /\ drainer[d].delta \in Deltas
             /\ drainer[d].todo # <<>> => Turn(d) \in Texts /\ Turn(d) \in ToSet(drainer[d].todo)
  <2>1. /\ drainer[d].todo \in Seq(Texts) /\ drainer[d].known \in VersionRows
        /\ drainer[d].calls \in Nat /\ drainer[d].order \in Seq(Texts)
        /\ drainer[d].delta \in Deltas
    BY <1>3, <1>4 DEF NextRows, CallRows
  <2>2. drainer[d].todo # <<>> => Turn(d) \in Texts /\ Turn(d) \in ToSet(drainer[d].todo)
    BY <2>1, TailSet DEF Turn
  <2> QED
    BY <2>1, <2>2
<1> QED
  BY <1>2, <1>3, <1>4

\* What a drain has recorded, and one version more.
LEMMA Recorded ==
    ASSUME NEW f \in DeltaRows
    PROVE  /\ DOMAIN f \subseteq Texts /\ \A n \in DOMAIN f : f[n] \in TextVersions
           /\ \A n \in Texts, v \in TextVersions :
                 /\ With(f, n, v) \in DeltaRows /\ DOMAIN With(f, n, v) = DOMAIN f \cup {n}
                 /\ With(f, n, v)[n] = v /\ \A m \in DOMAIN f \ {n} : With(f, n, v)[m] = f[m]
<1>1. DOMAIN f \subseteq Texts /\ \A n \in DOMAIN f : f[n] \in TextVersions
  <2>1. CASE f = <<>>
    <3>1. DOMAIN f = {}
      BY <2>1
    <3> QED
      BY <3>1
  <2>2. CASE f \in UNION {[ns -> TextVersions] : ns \in SUBSET Texts}
    BY <2>2
  <2> QED
    BY <2>1, <2>2 DEF DeltaRows
<1>2. ASSUME NEW n \in Texts, NEW v \in TextVersions
      PROVE  /\ With(f, n, v) \in DeltaRows /\ DOMAIN With(f, n, v) = DOMAIN f \cup {n}
             /\ With(f, n, v)[n] = v /\ \A m \in DOMAIN f \ {n} : With(f, n, v)[m] = f[m]
  <2> DEFINE ns == DOMAIN f \cup {n}
             g == [m \in ns |-> IF m = n THEN v ELSE f[m]]
  <2>1. g \in [ns -> TextVersions] /\ g[n] = v /\ (\A m \in DOMAIN f \ {n} : g[m] = f[m]) /\ DOMAIN g = ns
    BY <1>1
  <2>2. ns \in SUBSET Texts
    BY <1>1
  <2>3. With(f, n, v) = g
    BY DEF With
  <2> HIDE DEF g, ns
  <2>4. g \in DeltaRows
    BY <2>1, <2>2 DEF DeltaRows
  <2> QED
    BY <2>1, <2>3, <2>4 DEF ns
<1> QED
  BY <1>1, <1>2

\* One writer moves, the others stay.
LEMMA OneWriter ==
    ASSUME EmbeddingsFit, NEW w \in Writers, NEW row \in WriterRows, writer' = [writer EXCEPT ![w] = row]
    PROVE  /\ writer' \in [Writers -> WriterRows] /\ writer'[w] = row
           /\ \A v \in Writers \ {w} : writer'[v] = writer[v]
           /\ \A n \in Texts : Editors(n) \ {w} \subseteq Editors(n)'
           /\ \A n \in Texts : w \in Editors(n) => writer[w].at \in Editing /\ writer[w].node = n
           /\ row.at \in Editing /\ row.node \in Texts => w \in Editors(row.node)'
<1>1. /\ writer' \in [Writers -> WriterRows] /\ writer'[w] = row
      /\ \A v \in Writers \ {w} : writer'[v] = writer[v]
  BY DEF EmbeddingsFit
<1> QED
  BY <1>1 DEF Editors

\* One drain moves, the others stay.
LEMMA OneDrainer ==
    ASSUME EmbeddingsFit, NEW d \in Drainers, NEW row \in DrainerRows, drainer' = [drainer EXCEPT ![d] = row]
    PROVE  /\ drainer' \in [Drainers -> DrainerRows] /\ drainer'[d] = row
           /\ \A e \in Drainers \ {d} : drainer'[e] = drainer[e]
BY DEF EmbeddingsFit

-----------------------------------------------------------------------------
\* Texts, vectors and quarantine are versions.
LEMMA VersionsTyped ==
    ASSUME EmbeddingsFit, NEW n \in Texts
    PROVE  /\ text[n] \in TextVersions /\ vector[n] \in TextVersions /\ rejected[n] \in TextVersions
           /\ text[n] \in Nat /\ vector[n] \in Nat /\ rejected[n] \in Nat /\ MaxText \in Nat
           /\ NoText \in TextVersions
<1>1. MaxText \in Nat
  BY EmbeddingsAssumption
<1>2. text[n] \in TextVersions /\ vector[n] \in TextVersions /\ rejected[n] \in TextVersions
  BY DEF EmbeddingsFit, VersionRows
<1> QED
  BY <1>1, <1>2 DEF TextVersions, NoText

\* A new version of a text is one that no vector and no record stands for.
LEMMA NewVersion ==
    ASSUME EmbeddingsFit, NEW n \in Texts, text[n] \in 1..(MaxText - 1),
           text' = [text EXCEPT ![n] = @ + 1]
    PROVE  /\ text' \in VersionRows
           /\ \A m \in Texts, v \in Nat :
                 /\ Below(m, v) => Below(m, v)'
                 /\ Below(m, v) /\ Current(m, v)' => m # n /\ Current(m, v) /\ text'[m] = text[m]
           /\ \A m \in Texts \ {n} : text'[m] = text[m]
<1>1. text \in VersionRows /\ MaxText \in Nat /\ text[n] \in Nat
  BY VersionsTyped DEF EmbeddingsFit
<1>2. text[n] + 1 \in TextVersions /\ text[n] # NoText /\ text[n] + 1 # NoText
  BY <1>1 DEF TextVersions, NoText
<1>3. text' \in VersionRows /\ text'[n] = text[n] + 1 /\ \A m \in Texts \ {n} : text'[m] = text[m]
  BY <1>1, <1>2 DEF VersionRows
<1>4. ASSUME NEW m \in Texts, NEW v \in Nat, Below(m, v)
      PROVE  Below(m, v)' /\ (Current(m, v)' => m # n /\ Current(m, v) /\ text'[m] = text[m])
  <2>1. CASE m = n
    <3>1. v <= text[n]
      BY <1>2, <1>4, <2>1 DEF Below
    <3>2. v <= text'[n] /\ v # text'[n]
      BY <1>1, <1>3, <3>1
    <3> QED
      BY <2>1, <3>2 DEF Below, Current
  <2>2. CASE m # n
    BY <1>3, <1>4, <2>2 DEF Below, Current
  <2> QED
    BY <2>1, <2>2
<1> QED
  BY <1>3, <1>4

\* A text may change so that no version below it is the new one; as it is, it has its
\* vector, or has lost its refresh.
Grows(n) ==
    \A v \in Nat : Below(n, v) => Below(n, v)' /\ (Current(n, v)' => Current(n, v) /\ text'[n] = text[n])
Stays(n) ==
    text[n] # NoText /\ text'[n] = text[n] /\ (vector[n] = text[n] \/ n \in unrefreshed)
        => vector'[n] = text[n] \/ n \in unrefreshed'

\* Then what a drain has done and calls for stays as it should be.
LEMMA DrainsSee ==
    ASSUME EmbeddingsInv, NEW d \in Drainers, drainer'[d] = drainer[d], \A n \in Texts : Grows(n) /\ Stays(n)
    PROVE  Draining(d)' /\ Calling(d)'
<1>1. EmbeddingsFit /\ Draining(d) /\ Calling(d)
  BY DEF EmbeddingsInv
<1>2. Draining(d)'
  <2> SUFFICES ASSUME drainer[d].at \in {"next", "calling"}
               PROVE  Draining(d)'
    BY DEF Draining
  <2> DEFINE done == drainer[d].delta.done
  <2>1. done \in DeltaRows
    BY <1>1, RowsAt DEF Deltas
  <2>2. \A n \in DOMAIN done : n \in Texts /\ done[n] \in Nat
    <3>1. DOMAIN done \subseteq Texts /\ \A n \in DOMAIN done : done[n] \in TextVersions
      BY <2>1, Recorded
    <3> QED
      BY <3>1, EmbeddingsAssumption DEF TextVersions
  <2>3. ASSUME NEW n \in DOMAIN done
        PROVE  /\ Below(n, done[n])'
               /\ Current(n, done[n])' /\ n \notin drainer[d].delta.terminal => vector'[n] = text'[n] \/ n \in unrefreshed'
    <3>1. PICK v \in Nat : v = done[n]
      BY <2>2
    <3>2. /\ Below(n, v)
          /\ Current(n, v) /\ n \notin drainer[d].delta.terminal => vector[n] = text[n] \/ n \in unrefreshed
      BY <1>1, <3>1 DEF Draining, DrainOK
    <3>3. Below(n, v)' /\ (Current(n, v)' => Current(n, v) /\ text'[n] = text[n])
      BY <2>2, <3>2 DEF Grows
    <3>4. Current(n, v) => text[n] # NoText
      BY DEF Current
    <3>5. Current(n, v)' /\ n \notin drainer[d].delta.terminal => vector'[n] = text'[n] \/ n \in unrefreshed'
      BY <2>2, <3>2, <3>3, <3>4 DEF Stays
    <3>6. Below(n, v)' <=> Below(n, done[n])'
      BY <3>1 DEF Below
    <3>7. Current(n, v)' <=> Current(n, done[n])'
      BY <3>1 DEF Current
    <3> QED
      BY <3>3, <3>5, <3>6, <3>7
  <2>4. /\ Distinct(drainer[d].todo) /\ Distinct(drainer[d].order)
        /\ \A n \in ToSet(drainer[d].todo) : n \notin DOMAIN drainer[d].delta.done /\ n \notin ToSet(drainer[d].order)
        /\ DOMAIN drainer[d].delta.retry \subseteq ToSet(drainer[d].order)
    BY <1>1 DEF Draining, DrainOK
  <2> QED
    BY <2>3, <2>4 DEF Draining, DrainOK, Below, Current
<1>3. Calling(d)'
  <2> SUFFICES ASSUME drainer[d].at = "calling" PROVE Calling(d)'
    BY DEF Calling
  <2>1. drainer[d].todo # <<>> /\ Turn(d) \in Texts /\ drainer[d].version \in Nat
    <3>1. drainer[d].todo # <<>> /\ Turn(d) \in Texts /\ drainer[d].version \in TextVersions
      BY <1>1, RowsAt DEF Calling, CallRows
    <3> QED
      BY <3>1, EmbeddingsAssumption DEF TextVersions
  <2>2. Below(Turn(d), drainer[d].version) /\ Turn(d)' = Turn(d)
    BY <1>1 DEF Calling, Turn
  <2>3. PICK n \in Texts, v \in Nat : n = Turn(d) /\ v = drainer[d].version
    BY <2>1
  <2>4. Below(n, v)'
    BY <2>2, <2>3 DEF Grows
  <2> QED
    BY <2>1, <2>2, <2>3, <2>4 DEF Calling, Below
<1> QED
  BY <1>2, <1>3

\* What a writer does stays as it should be while others write.
LEMMA OthersWriting ==
    ASSUME EmbeddingsInv, NEW v \in Writers, writer'[v] = writer[v],
           \A n \in Texts : text[n] = NoText => text'[n] = NoText
    PROVE  Writing(v)'
<1>1. Writing(v) /\ EmbeddingsFit
  BY DEF EmbeddingsInv
<1>2. writer[v].at \in Gone => writer[v].node \in Texts
  BY <1>1, RowsAt
<1> QED
  BY <1>1, <1>2 DEF Writing

\* Nothing grows where the text stays.
LEMMA TextStays ==
    ASSUME UNCHANGED text
    PROVE  /\ \A n \in Texts : Grows(n)
           /\ \A n \in Texts : text[n] = NoText => text'[n] = NoText
BY DEF Grows, Below, Current

\* The others keep their text, and n has a new one.
LEMMA TextEdited ==
    ASSUME EmbeddingsFit, NEW n \in Texts, text[n] \in 1..(MaxText - 1), text' = [text EXCEPT ![n] = @ + 1],
           UNCHANGED vector, unrefreshed \ {n} \subseteq unrefreshed'
    PROVE  /\ text' \in VersionRows /\ \A m \in Texts : Grows(m) /\ Stays(m)
           /\ \A m \in Texts : text[m] = NoText => text'[m] = NoText
           /\ \A m \in Texts \ {n} : text'[m] = text[m]
<1>1. /\ text' \in VersionRows
      /\ \A m \in Texts, v \in Nat :
                 /\ Below(m, v) => Below(m, v)'
                 /\ Below(m, v) /\ Current(m, v)' => m # n /\ Current(m, v) /\ text'[m] = text[m]
      /\ \A m \in Texts \ {n} : text'[m] = text[m]
  BY NewVersion
<1>2. text[n] # NoText /\ text[n] \in Nat /\ text'[n] = text[n] + 1
  <2>1. text \in VersionRows /\ text[n] \in Nat
    BY VersionsTyped DEF EmbeddingsFit
  <2> QED
    BY <2>1, EmbeddingsAssumption DEF VersionRows, NoText
<1>3. \A m \in Texts : Grows(m)
  BY <1>1 DEF Grows
<1>4. ASSUME NEW m \in Texts PROVE Stays(m)
  <2>1. CASE m = n
    BY <1>2, <2>1 DEF Stays
  <2>2. CASE m # n
    BY <1>1, <2>2 DEF Stays
  <2> QED
    BY <2>1, <2>2
<1> QED
  BY <1>1, <1>2, <1>3, <1>4

\* The queue with a node put last.
LEMMA RequeuedSet ==
    ASSUME NEW queue \in Seq(Texts), Distinct(queue), NEW n \in Texts
    PROVE  /\ Requeued(queue, n) \in Seq(Texts) /\ Distinct(Requeued(queue, n))
           /\ ToSet(Requeued(queue, n)) = ToSet(queue) \cup {n}
<1> DEFINE rest == Where(queue, Texts \ {n})
<1>1. /\ rest \in Seq(Texts) /\ Distinct(rest) /\ ToSet(rest) = ToSet(queue) \cap (Texts \ {n})
      /\ ToSet(queue) \subseteq Texts
  BY WhereSet
<1> HIDE DEF rest
<1>2. n \notin ToSet(rest) /\ ToSet(rest) \cup {n} = ToSet(queue) \cup {n}
  BY <1>1
<1>3. /\ Append(rest, n) \in Seq(Texts) /\ ToSet(Append(rest, n)) = ToSet(rest) \cup {n}
      /\ Distinct(Append(rest, n))
  BY <1>1, <1>2, AppendSet
<1>4. Requeued(queue, n) = Append(rest, n)
  BY DEF Requeued, Without, rest
<1> QED
  BY <1>2, <1>3, <1>4

\* An edit commits (store.edit_node).
LEMMA EditKeeps ==
    ASSUME EmbeddingsInv, NEW w \in Writers, NEW n \in Texts, Edit(w, n)
    PROVE  EmbeddingsInv'
<1> DEFINE row == [at |-> "edited", node |-> n]
<1>1. /\ writer[w] = Resting /\ text[n] \in 1..(MaxText - 1) /\ text' = [text EXCEPT ![n] = @ + 1]
      /\ writer' = [writer EXCEPT ![w] = row] /\ unrefreshed' = unrefreshed \ {n}
      /\ UNCHANGED <<vector, embedQueue, rejected, drainer>>
  BY DEF Edit
<1>2. EmbeddingsFit /\ StaleIsQueued
  BY DEF EmbeddingsInv
<1>3. row \in WriterRows /\ row.at = "edited" /\ row.node = n
  BY DEF WriterRows, NodeRows
<1> HIDE DEF row
<1>4. /\ writer' \in [Writers -> WriterRows] /\ writer'[w] = row
      /\ \A v \in Writers \ {w} : writer'[v] = writer[v]
      /\ \A m \in Texts : Editors(m) \ {w} \subseteq Editors(m)'
      /\ \A m \in Texts : w \in Editors(m) => writer[w].at \in Editing /\ writer[w].node = m
      /\ w \in Editors(n)'
  BY <1>1, <1>2, <1>3, OneWriter DEF Editing
<1>5. /\ text' \in VersionRows /\ \A m \in Texts : Grows(m) /\ Stays(m)
      /\ \A m \in Texts : text[m] = NoText => text'[m] = NoText
      /\ \A m \in Texts \ {n} : text'[m] = text[m]
  BY <1>1, <1>2, TextEdited
<1>6. EmbeddingsFit'
  BY <1>1, <1>2, <1>4, <1>5 DEF EmbeddingsFit
<1>7. ASSUME NEW v \in Writers PROVE Writing(v)'
  <2>1. CASE v = w
    BY <1>3, <1>4, <2>1 DEF Writing, Gone
  <2>2. CASE v # w
    BY <1>4, <1>5, <2>2, OthersWriting
  <2> QED
    BY <2>1, <2>2
<1>8. \A d \in Drainers : Draining(d)' /\ Calling(d)'
  BY <1>1, <1>5, DrainsSee
<1>9. StaleIsQueued'
  <2> SUFFICES ASSUME NEW m \in Texts, m \notin unrefreshed'
               PROVE  \/ text'[m] = NoText \/ vector'[m] = text'[m] \/ rejected'[m] = text'[m]
                      \/ m \in ToSet(embedQueue') \/ Editors(m)' # {}
    BY DEF StaleIsQueued, OnQueue, InQuarantine
  <2>1. CASE m = n
    BY <1>4, <2>1
  <2>2. CASE m # n
    <3>1. w \notin Editors(m)
      BY <1>1, <1>4 DEF Resting, Editing
    <3> QED
      BY <1>1, <1>2, <1>4, <1>5, <2>2, <3>1 DEF StaleIsQueued, OnQueue, InQuarantine
  <2> QED
    BY <2>1, <2>2
<1> QED
  BY <1>6, <1>7, <1>8, <1>9 DEF EmbeddingsInv

\* A task is edited and queued in one transaction (tasks._write_task).
LEMMA EditTaskKeeps ==
    ASSUME EmbeddingsInv, NEW n \in Texts, EditTask(n)
    PROVE  EmbeddingsInv'
<1>1. /\ text[n] \in 1..(MaxText - 1) /\ text' = [text EXCEPT ![n] = @ + 1]
      /\ embedQueue' = Requeued(embedQueue, n) /\ rejected' = [rejected EXCEPT ![n] = NoText]
      /\ unrefreshed' = unrefreshed \ {n} /\ UNCHANGED <<vector, writer, drainer>>
  BY DEF EditTask
<1>2. EmbeddingsFit /\ StaleIsQueued
  BY DEF EmbeddingsInv
<1>3. /\ embedQueue' \in Seq(Texts) /\ Distinct(embedQueue') /\ ToSet(embedQueue') = ToSet(embedQueue) \cup {n}
  BY <1>1, <1>2, RequeuedSet DEF EmbeddingsFit
<1>4. /\ text' \in VersionRows /\ \A m \in Texts : Grows(m) /\ Stays(m)
      /\ \A m \in Texts : text[m] = NoText => text'[m] = NoText
      /\ \A m \in Texts \ {n} : text'[m] = text[m]
  BY <1>1, <1>2, TextEdited
<1>5. rejected' \in VersionRows /\ \A m \in Texts \ {n} : rejected'[m] = rejected[m]
  <2>1. rejected \in VersionRows /\ NoText \in TextVersions
    BY <1>2, VersionsTyped DEF EmbeddingsFit
  <2> QED
    BY <1>1, <2>1 DEF VersionRows
<1>6. EmbeddingsFit'
  BY <1>1, <1>2, <1>3, <1>4, <1>5 DEF EmbeddingsFit
<1>7. \A v \in Writers : Writing(v)'
  BY <1>1, <1>4, OthersWriting
<1>8. \A d \in Drainers : Draining(d)' /\ Calling(d)'
  BY <1>1, <1>4, DrainsSee
<1>9. StaleIsQueued'
  <2> SUFFICES ASSUME NEW m \in Texts, m \notin unrefreshed', m \notin ToSet(embedQueue')
               PROVE  \/ text'[m] = NoText \/ vector'[m] = text'[m] \/ rejected'[m] = text'[m] \/ Editors(m)' # {}
    BY DEF StaleIsQueued, OnQueue, InQuarantine
  <2>1. m # n /\ m \notin ToSet(embedQueue) /\ m \notin unrefreshed
    BY <1>1, <1>3
  <2>2. Editors(m)' = Editors(m)
    BY <1>1 DEF Editors
  <2> QED
    BY <1>1, <1>2, <1>4, <1>5, <2>1, <2>2 DEF StaleIsQueued, OnQueue, InQuarantine
<1> QED
  BY <1>6, <1>7, <1>8, <1>9 DEF EmbeddingsInv

\* A merge writes a text and queues nothing (store.update_node).
LEMMA UpdateNodeKeeps ==
    ASSUME EmbeddingsInv, NEW n \in Texts, UpdateNode(n)
    PROVE  EmbeddingsInv'
<1>1. /\ text[n] \in 1..(MaxText - 1) /\ text' = [text EXCEPT ![n] = @ + 1]
      /\ unrefreshed' = IF OnQueue(n) \/ Editors(n) # {} THEN unrefreshed \ {n} ELSE unrefreshed \cup {n}
      /\ UNCHANGED <<vector, embedQueue, rejected, writer, drainer>>
  BY DEF UpdateNode
<1>2. EmbeddingsFit /\ StaleIsQueued
  BY DEF EmbeddingsInv
<1>3. unrefreshed \ {n} \subseteq unrefreshed'
  BY <1>1
<1>4. /\ text' \in VersionRows /\ \A m \in Texts : Grows(m) /\ Stays(m)
      /\ \A m \in Texts : text[m] = NoText => text'[m] = NoText
      /\ \A m \in Texts \ {n} : text'[m] = text[m]
  BY <1>1, <1>2, <1>3, TextEdited
<1>5. EmbeddingsFit'
  BY <1>1, <1>2, <1>4 DEF EmbeddingsFit
<1>6. \A v \in Writers : Writing(v)'
  BY <1>1, <1>4, OthersWriting
<1>7. \A d \in Drainers : Draining(d)' /\ Calling(d)'
  BY <1>1, <1>4, DrainsSee
<1>8. StaleIsQueued'
  <2> SUFFICES ASSUME NEW m \in Texts, m \notin unrefreshed', m \notin ToSet(embedQueue), Editors(m) = {}
               PROVE  text'[m] = NoText \/ vector'[m] = text'[m] \/ rejected'[m] = text'[m]
    BY <1>1 DEF StaleIsQueued, OnQueue, InQuarantine, Editors
  <2>1. m # n /\ m \notin unrefreshed
    BY <1>1 DEF OnQueue
  <2> QED
    BY <1>1, <1>2, <1>4, <2>1 DEF StaleIsQueued, OnQueue, InQuarantine
<1> QED
  BY <1>5, <1>6, <1>7, <1>8 DEF EmbeddingsInv

\* A node is superseded or deleted.
LEMMA RetireKeeps ==
    ASSUME EmbeddingsInv, NEW w \in Writers, NEW n \in Texts, Retire(w, n)
    PROVE  EmbeddingsInv'
<1> DEFINE row == [at |-> "retired", node |-> n]
<1>1. /\ writer[w] = Resting /\ text' = [text EXCEPT ![n] = NoText]
      /\ writer' = [writer EXCEPT ![w] = row]
      /\ UNCHANGED <<vector, embedQueue, rejected, drainer, unrefreshed>>
  BY DEF Retire
<1>2. EmbeddingsFit /\ StaleIsQueued
  BY DEF EmbeddingsInv
<1>3. row \in WriterRows /\ row.at = "retired" /\ row.node = n
  BY DEF WriterRows, NodeRows
<1> HIDE DEF row
<1>4. /\ writer' \in [Writers -> WriterRows] /\ writer'[w] = row
      /\ \A v \in Writers \ {w} : writer'[v] = writer[v]
      /\ \A m \in Texts : Editors(m) \ {w} \subseteq Editors(m)'
      /\ \A m \in Texts : w \in Editors(m) => writer[w].at \in Editing /\ writer[w].node = m
  BY <1>1, <1>2, <1>3, OneWriter
<1>5. text' \in VersionRows /\ text'[n] = NoText /\ \A m \in Texts \ {n} : text'[m] = text[m]
  <2>1. text \in VersionRows /\ NoText \in TextVersions
    BY <1>2, VersionsTyped DEF EmbeddingsFit
  <2> QED
    BY <1>1, <2>1 DEF VersionRows
<1>6. \A m \in Texts : Grows(m) /\ Stays(m) /\ (text[m] = NoText => text'[m] = NoText)
  BY <1>1, <1>5 DEF Grows, Stays, Below, Current
<1>7. EmbeddingsFit'
  BY <1>1, <1>2, <1>4, <1>5 DEF EmbeddingsFit
<1>8. ASSUME NEW v \in Writers PROVE Writing(v)'
  <2>1. CASE v = w
    BY <1>3, <1>4, <1>5, <2>1 DEF Writing
  <2>2. CASE v # w
    BY <1>4, <1>6, <2>2, OthersWriting
  <2> QED
    BY <2>1, <2>2
<1>9. \A d \in Drainers : Draining(d)' /\ Calling(d)'
  BY <1>1, <1>6, DrainsSee
<1>10. StaleIsQueued'
  <2> SUFFICES ASSUME NEW m \in Texts, m \notin unrefreshed', text'[m] # NoText
               PROVE  \/ vector'[m] = text'[m] \/ rejected'[m] = text'[m]
                      \/ m \in ToSet(embedQueue') \/ Editors(m)' # {}
    BY DEF StaleIsQueued, OnQueue, InQuarantine
  <2>1. w \notin Editors(m) /\ m # n
    BY <1>1, <1>4, <1>5 DEF Resting, Editing
  <2> QED
    BY <1>1, <1>2, <1>4, <1>5, <2>1 DEF StaleIsQueued, OnQueue, InQuarantine
<1> QED
  BY <1>7, <1>8, <1>9, <1>10 DEF EmbeddingsInv

-----------------------------------------------------------------------------
\* A writer goes on; no text changes, and a vector only of a node that is gone.  What it takes
\* off the queue or out of quarantine has lost its refresh.
LEMMA WriterKeeps ==
    ASSUME EmbeddingsInv, NEW w \in Writers, NEW row \in WriterRows, writer' = [writer EXCEPT ![w] = row],
           row.at \in Gone => writer[w].at \in Gone /\ row.node = writer[w].node,
           row.at = "read" => Distinct(row.queue),
           UNCHANGED <<text, drainer>>, vector' \in VersionRows, rejected' \in VersionRows,
           \A m \in Texts : text[m] # NoText => vector'[m] = vector[m],
           embedQueue' \in Seq(Texts), Distinct(embedQueue'), unrefreshed' \subseteq Texts,
           unrefreshed \subseteq unrefreshed',
           \A m \in Texts : text[m] # NoText /\ m \notin unrefreshed' =>
              /\ OnQueue(m) => OnQueue(m)'
              /\ InQuarantine(m) => InQuarantine(m)' \/ OnQueue(m)'
              /\ w \in Editors(m) => OnQueue(m)' \/ (row.at \in Editing /\ row.node = m)
    PROVE  EmbeddingsInv'
<1>1. EmbeddingsFit /\ StaleIsQueued /\ Writing(w)
  BY DEF EmbeddingsInv
<1>2. /\ writer' \in [Writers -> WriterRows] /\ writer'[w] = row
      /\ \A v \in Writers \ {w} : writer'[v] = writer[v]
      /\ \A m \in Texts : Editors(m) \ {w} \subseteq Editors(m)'
      /\ row.at \in Editing /\ row.node \in Texts => w \in Editors(row.node)'
  BY <1>1, OneWriter
<1>3. EmbeddingsFit'
  BY <1>1, <1>2 DEF EmbeddingsFit
<1>4. \A m \in Texts : Grows(m) /\ (text[m] = NoText => text'[m] = NoText)
  BY TextStays
<1>5. \A m \in Texts : Stays(m)
  BY DEF Stays
<1>6. ASSUME NEW v \in Writers PROVE Writing(v)'
  <2>1. CASE v = w
    BY <1>1, <1>2, <2>1 DEF Writing
  <2>2. CASE v # w
    BY <1>2, <1>4, <2>2, OthersWriting
  <2> QED
    BY <2>1, <2>2
<1>7. \A d \in Drainers : Draining(d)' /\ Calling(d)'
  BY <1>4, <1>5, DrainsSee
<1>8. StaleIsQueued'
  <2> SUFFICES ASSUME NEW m \in Texts, m \notin unrefreshed', text[m] # NoText
               PROVE  vector'[m] = text[m] \/ InQuarantine(m)' \/ OnQueue(m)' \/ Editors(m)' # {}
    BY DEF StaleIsQueued
  <2>1. m \notin unrefreshed /\ vector'[m] = vector[m]
    OBVIOUS
  <2>2. vector[m] = text[m] \/ InQuarantine(m) \/ OnQueue(m) \/ Editors(m) # {}
    BY <1>1, <2>1 DEF StaleIsQueued
  <2>3. Editors(m) # {} => Editors(m)' # {} \/ OnQueue(m)'
    BY <1>2
  <2> QED
    BY <2>1, <2>2, <2>3
<1> QED
  BY <1>3, <1>6, <1>7, <1>8 DEF EmbeddingsInv

\* The writer reads the queue and the quarantine.
LEMMA EnqueueReadsKeeps ==
    ASSUME EmbeddingsInv, NEW w \in Writers, EnqueueReads(w)
    PROVE  EmbeddingsInv'
<1>1. EmbeddingsFit /\ writer[w].at = "edited"
      /\ UNCHANGED <<text, vector, embedQueue, rejected, drainer, unrefreshed>>
  BY DEF EmbeddingsInv, EnqueueReads
<1>2. PICK n \in Texts : n = writer[w].node
  BY <1>1, RowsAt DEF Editing
<1> DEFINE copy == [rejected EXCEPT ![n] = IF @ = text[n] THEN @ ELSE NoText]
           row == [at |-> "read", node |-> n, queue |-> embedQueue, rejected |-> copy]
<1>3. writer' = [writer EXCEPT ![w] = row]
  BY <1>2 DEF EnqueueReads
<1>4. copy \in VersionRows
  <2>1. rejected \in VersionRows /\ NoText \in TextVersions
    BY <1>1, <1>2, VersionsTyped DEF EmbeddingsFit
  <2> QED
    BY <2>1 DEF VersionRows
<1> HIDE DEF copy
<1>5. row \in WriterRows /\ row.at = "read" /\ row.node = n /\ row.queue = embedQueue
  BY <1>1, <1>4 DEF WriterRows, CopyRows, EmbeddingsFit
<1> HIDE DEF row
<1>6. /\ vector \in VersionRows /\ rejected \in VersionRows /\ embedQueue \in Seq(Texts)
      /\ Distinct(embedQueue) /\ unrefreshed \subseteq Texts
  BY <1>1 DEF EmbeddingsFit
<1>7. row.at \notin Gone /\ row.at \in Editing /\ \A m \in Texts : w \in Editors(m) => row.node = m
  BY <1>2, <1>5 DEF Gone, Editing, Editors
<1>8. \A m \in Texts : (OnQueue(m) => OnQueue(m)') /\ (InQuarantine(m) => InQuarantine(m)')
  BY <1>1 DEF OnQueue, InQuarantine
<1> QED
  BY <1>1, <1>3, <1>5, <1>6, <1>7, <1>8, WriterKeeps

\* It writes both back, its own node last.
LEMMA EnqueueWritesKeeps ==
    ASSUME EmbeddingsInv, NEW w \in Writers, EnqueueWrites(w)
    PROVE  EmbeddingsInv'
<1>1. /\ EmbeddingsFit /\ Writing(w) /\ writer[w].at = "read"
      /\ embedQueue' = Requeued(writer[w].queue, writer[w].node)
      /\ rejected' = writer[w].rejected
      /\ unrefreshed' = unrefreshed \cup TakenOff(writer[w].queue, writer[w].rejected, writer[w].node)
      /\ writer' = [writer EXCEPT ![w] = Resting]
      /\ UNCHANGED <<text, vector, drainer>>
  BY DEF EmbeddingsInv, EnqueueWrites
<1>2. PICK n \in Texts, queue \in Seq(Texts), records \in VersionRows :
         n = writer[w].node /\ queue = writer[w].queue /\ records = writer[w].rejected
  BY <1>1, RowsAt DEF CopyRows
<1>3. Distinct(queue)
  BY <1>1, <1>2 DEF Writing
<1>4. /\ embedQueue' \in Seq(Texts) /\ Distinct(embedQueue') /\ ToSet(embedQueue') = ToSet(queue) \cup {n}
  BY <1>1, <1>2, <1>3, RequeuedSet
<1>5. unrefreshed' = unrefreshed \cup TakenOff(queue, records, n) /\ rejected' = records
  BY <1>1, <1>2
<1>6. ASSUME NEW m \in Texts, m \notin unrefreshed'
      PROVE  /\ OnQueue(m) => OnQueue(m)'
             /\ InQuarantine(m) => InQuarantine(m)' \/ OnQueue(m)'
             /\ w \in Editors(m) => OnQueue(m)'
  <2>1. CASE m = n
    BY <1>4, <2>1 DEF OnQueue
  <2>2. CASE m # n
    <3>1. w \notin Editors(m)
      BY <1>2, <2>2 DEF Editors
    <3>2. (OnQueue(m) => m \in ToSet(queue)) /\ (InQuarantine(m) => records[m] = text[m])
      BY <1>5, <1>6, <2>2 DEF TakenOff
    <3> QED
      BY <1>1, <1>4, <1>5, <3>1, <3>2 DEF OnQueue, InQuarantine
  <2> QED
    BY <2>1, <2>2
<1>7. vector' \in VersionRows /\ rejected' \in VersionRows /\ unrefreshed' \subseteq Texts
  BY <1>1, <1>5 DEF EmbeddingsFit, TakenOff
<1>8. PICK row \in WriterRows : row = Resting
  BY DEF WriterRows
<1>9. row.at \notin Gone /\ row.at # "read"
  BY <1>8 DEF Resting, Gone
<1> QED
  BY <1>1, <1>4, <1>5, <1>6, <1>7, <1>8, <1>9, WriterKeeps

\* Or it fails.
LEMMA EnqueueFailsKeeps ==
    ASSUME EmbeddingsInv, NEW w \in Writers, EnqueueFails(w)
    PROVE  EmbeddingsInv'
<1>1. /\ EmbeddingsFit /\ writer[w].at \in Editing /\ writer' = [writer EXCEPT ![w] = Resting]
      /\ unrefreshed' = IF OnQueue(writer[w].node) THEN unrefreshed ELSE unrefreshed \cup {writer[w].node}
      /\ UNCHANGED <<text, vector, embedQueue, rejected, drainer>>
  BY DEF EmbeddingsInv, EnqueueFails
<1>2. PICK n \in Texts : n = writer[w].node
  BY <1>1, RowsAt
<1>3. unrefreshed \subseteq unrefreshed' /\ unrefreshed' \subseteq Texts /\ (OnQueue(n) \/ n \in unrefreshed')
  BY <1>1, <1>2 DEF EmbeddingsFit
<1>4. /\ vector' \in VersionRows /\ rejected' \in VersionRows /\ embedQueue' \in Seq(Texts) /\ Distinct(embedQueue')
  BY <1>1 DEF EmbeddingsFit
<1>5. ASSUME NEW m \in Texts, m \notin unrefreshed'
      PROVE  /\ OnQueue(m) => OnQueue(m)'
             /\ InQuarantine(m) => InQuarantine(m)'
             /\ w \in Editors(m) => OnQueue(m)'
  <2>1. w \in Editors(m) => m = n
    BY <1>2 DEF Editors
  <2> QED
    BY <1>1, <1>3, <1>5, <2>1 DEF OnQueue, InQuarantine
<1>6. PICK row \in WriterRows : row = Resting
  BY DEF WriterRows
<1>7. row.at \notin Gone /\ row.at # "read"
  BY <1>6 DEF Resting, Gone
<1> QED
  BY <1>1, <1>3, <1>4, <1>5, <1>6, <1>7, WriterKeeps

\* The vector of a node that is gone is dropped.
LEMMA DeleteEmbeddingKeeps ==
    ASSUME EmbeddingsInv, NEW w \in Writers, DeleteEmbedding(w)
    PROVE  EmbeddingsInv'
<1>1. /\ EmbeddingsFit /\ Writing(w) /\ writer[w].at = "retired"
      /\ vector' = [vector EXCEPT ![writer[w].node] = NoText]
      /\ writer' = [writer EXCEPT ![w] = [at |-> "dropped", node |-> @.node]]
      /\ UNCHANGED <<text, embedQueue, rejected, drainer, unrefreshed>>
  BY DEF EmbeddingsInv, DeleteEmbedding
<1>2. PICK n \in Texts : n = writer[w].node
  BY <1>1, RowsAt DEF Gone
<1>3. text[n] = NoText /\ w \in DOMAIN writer
  BY <1>1, <1>2 DEF Writing, Gone, EmbeddingsFit
<1>4. vector' \in VersionRows /\ \A m \in Texts \ {n} : vector'[m] = vector[m]
  <2>1. vector \in VersionRows /\ NoText \in TextVersions
    BY <1>1, <1>2, VersionsTyped DEF EmbeddingsFit
  <2> QED
    BY <1>1, <1>2, <2>1 DEF VersionRows
<1> DEFINE row == [at |-> "dropped", node |-> n]
<1>5. writer' = [writer EXCEPT ![w] = row]
  BY <1>1, <1>2, <1>3
<1>6. row \in WriterRows /\ row.at = "dropped" /\ row.node = n
  BY DEF WriterRows, NodeRows
<1> HIDE DEF row
<1>7. writer[w].at \in Gone /\ row.node = writer[w].node /\ row.at # "read" /\ \A m \in Texts : w \notin Editors(m)
  BY <1>1, <1>2, <1>6 DEF Gone, Editors, Editing
<1>8. /\ rejected' \in VersionRows /\ embedQueue' \in Seq(Texts) /\ Distinct(embedQueue') /\ unrefreshed' \subseteq Texts
      /\ \A m \in Texts : (OnQueue(m) => OnQueue(m)') /\ (InQuarantine(m) => InQuarantine(m)')
  BY <1>1 DEF EmbeddingsFit, OnQueue, InQuarantine
<1> QED
  BY <1>1, <1>3, <1>4, <1>5, <1>6, <1>7, <1>8, WriterKeeps

\* The quarantine is read.
LEMMA ClearReadsKeeps ==
    ASSUME EmbeddingsInv, NEW w \in Writers, ClearReads(w)
    PROVE  EmbeddingsInv'
<1>1. EmbeddingsFit /\ writer[w].at = "dropped"
      /\ UNCHANGED <<text, vector, embedQueue, rejected, drainer, unrefreshed>>
  BY DEF EmbeddingsInv, ClearReads
<1>2. PICK n \in Texts : n = writer[w].node
  BY <1>1, RowsAt DEF Gone
<1> DEFINE copy == [rejected EXCEPT ![n] = NoText]
           row == IF rejected[n] = NoText THEN Resting ELSE [at |-> "clearing", node |-> n, rejected |-> copy]
<1>3. writer' = [writer EXCEPT ![w] = row]
  BY <1>2 DEF ClearReads
<1>4. copy \in VersionRows
  <2>1. rejected \in VersionRows /\ NoText \in TextVersions
    BY <1>1, <1>2, VersionsTyped DEF EmbeddingsFit
  <2> QED
    BY <2>1 DEF VersionRows
<1> HIDE DEF copy
<1>5. [at |-> "clearing", node |-> n, rejected |-> copy] \in ClearRows
  BY <1>4 DEF ClearRows
<1>6. row \in WriterRows /\ row.at # "read" /\ (row.at \in Gone => row.node = n)
  BY <1>5 DEF WriterRows, Resting, Gone
<1> HIDE DEF row
<1>7. writer[w].at \in Gone /\ \A m \in Texts : w \notin Editors(m)
  BY <1>1 DEF Gone, Editors, Editing
<1>8. /\ vector' \in VersionRows /\ rejected' \in VersionRows
      /\ embedQueue' \in Seq(Texts) /\ Distinct(embedQueue') /\ unrefreshed' \subseteq Texts
      /\ \A m \in Texts : (OnQueue(m) => OnQueue(m)') /\ (InQuarantine(m) => InQuarantine(m)')
  BY <1>1 DEF EmbeddingsFit, OnQueue, InQuarantine
<1> QED
  BY <1>1, <1>2, <1>3, <1>6, <1>7, <1>8, WriterKeeps

\* And written back.
LEMMA ClearWritesKeeps ==
    ASSUME EmbeddingsInv, NEW w \in Writers, ClearWrites(w)
    PROVE  EmbeddingsInv'
<1>1. /\ EmbeddingsFit /\ Writing(w) /\ writer[w].at = "clearing"
      /\ rejected' = writer[w].rejected
      /\ unrefreshed' = unrefreshed \cup TakenOff(embedQueue, writer[w].rejected, writer[w].node)
      /\ writer' = [writer EXCEPT ![w] = Resting]
      /\ UNCHANGED <<text, vector, embedQueue, drainer>>
  BY DEF EmbeddingsInv, ClearWrites
<1>2. PICK n \in Texts, records \in VersionRows : n = writer[w].node /\ records = writer[w].rejected
  BY <1>1, RowsAt DEF ClearRows
<1>3. text[n] = NoText /\ \A m \in Texts : w \notin Editors(m)
  BY <1>1, <1>2 DEF Writing, Gone, Editors, Editing
<1>4. unrefreshed' = unrefreshed \cup TakenOff(embedQueue, records, n) /\ rejected' = records
  BY <1>1, <1>2
<1>5. ASSUME NEW m \in Texts, m \notin unrefreshed', text[m] # NoText
      PROVE  (OnQueue(m) => OnQueue(m)') /\ (InQuarantine(m) => InQuarantine(m)')
  <2>1. m # n /\ m \notin TakenOff(embedQueue, records, n)
    BY <1>3, <1>4, <1>5
  <2> QED
    BY <1>1, <1>4, <2>1 DEF TakenOff, OnQueue, InQuarantine
<1>6. /\ vector' \in VersionRows /\ rejected' \in VersionRows
      /\ embedQueue' \in Seq(Texts) /\ Distinct(embedQueue') /\ unrefreshed' \subseteq Texts
  BY <1>1, <1>4 DEF EmbeddingsFit, TakenOff
<1>7. PICK row \in WriterRows : row = Resting
  BY DEF WriterRows
<1>8. row.at \notin Gone /\ row.at # "read"
  BY <1>7 DEF Resting, Gone
<1> QED
  BY <1>1, <1>3, <1>4, <1>5, <1>6, <1>7, <1>8, WriterKeeps

\* Or one of these fails.
LEMMA ClearFailsKeeps ==
    ASSUME EmbeddingsInv, NEW w \in Writers, ClearFails(w)
    PROVE  EmbeddingsInv'
<1>1. /\ EmbeddingsFit /\ writer[w].at \in Gone /\ writer' = [writer EXCEPT ![w] = Resting]
      /\ UNCHANGED <<text, vector, embedQueue, rejected, drainer, unrefreshed>>
  BY DEF EmbeddingsInv, ClearFails, Gone
<1>2. \A m \in Texts : w \notin Editors(m)
  BY <1>1 DEF Gone, Editors, Editing
<1>3. /\ vector' \in VersionRows /\ rejected' \in VersionRows
      /\ embedQueue' \in Seq(Texts) /\ Distinct(embedQueue') /\ unrefreshed' \subseteq Texts
      /\ \A m \in Texts : (OnQueue(m) => OnQueue(m)') /\ (InQuarantine(m) => InQuarantine(m)')
  BY <1>1 DEF EmbeddingsFit, OnQueue, InQuarantine
<1>4. PICK row \in WriterRows : row = Resting
  BY DEF WriterRows
<1>5. row.at \notin Gone /\ row.at # "read"
  BY <1>4 DEF Resting, Gone
<1> QED
  BY <1>1, <1>2, <1>3, <1>4, <1>5, WriterKeeps

-----------------------------------------------------------------------------
\* What a drain has in hand is all that changes.
LEMMA DrainerKeeps ==
    ASSUME EmbeddingsInv, NEW d \in Drainers, UNCHANGED <<text, vector, embedQueue, rejected, writer, unrefreshed>>,
           NEW row \in DrainerRows, drainer' = [drainer EXCEPT ![d] = row],
           row.at \in {"next", "calling"} => DrainOK(row),
           row.at = "calling" => row.todo # <<>> /\ Below(row.todo[1], row.version)
    PROVE  EmbeddingsInv'
<1>1. EmbeddingsFit /\ StaleIsQueued
  BY DEF EmbeddingsInv
<1>2. /\ drainer' \in [Drainers -> DrainerRows] /\ drainer'[d] = row
      /\ \A e \in Drainers \ {d} : drainer'[e] = drainer[e]
  BY <1>1, OneDrainer
<1>3. EmbeddingsFit' /\ StaleIsQueued'
  BY <1>1, <1>2 DEF EmbeddingsFit, StaleIsQueued, OnQueue, InQuarantine, Editors
<1>4. \A n \in Texts : Grows(n) /\ Stays(n) /\ (text[n] = NoText => text'[n] = NoText)
  BY TextStays DEF Stays
<1>5. \A w \in Writers : Writing(w)'
  BY <1>4, OthersWriting
<1>6. ASSUME NEW e \in Drainers PROVE Draining(e)' /\ Calling(e)'
  <2>1. CASE e = d
    BY <1>2, <2>1 DEF Draining, DrainOK, Calling, Turn, Below, Current
  <2>2. CASE e # d
    BY <1>2, <1>4, <2>2, DrainsSee
  <2> QED
    BY <2>1, <2>2
<1> QED
  BY <1>3, <1>5, <1>6 DEF EmbeddingsInv

\* A drain dies.
LEMMA DrainDiesKeeps ==
    ASSUME EmbeddingsInv, NEW d \in Drainers, DrainDies(d)
    PROVE  EmbeddingsInv'
<1>1. drainer' = [drainer EXCEPT ![d] = Resting] /\ UNCHANGED <<text, vector, embedQueue, rejected, writer, unrefreshed>>
  BY DEF DrainDies
<1>2. PICK row \in DrainerRows : row = Resting
  BY DEF DrainerRows
<1>3. row.at \notin {"next", "calling"}
  BY <1>2 DEF Resting
<1> QED
  BY <1>1, <1>2, <1>3, DrainerKeeps

\* A drain reads the queue.
LEMMA DrainStartsKeeps ==
    ASSUME EmbeddingsInv, NEW d \in Drainers, DrainStarts(d)
    PROVE  EmbeddingsInv'
<1> DEFINE row == [at |-> "next", todo |-> embedQueue, known |-> rejected, calls |-> 0, order |-> <<>>, delta |-> NoDelta]
<1>1. EmbeddingsFit /\ drainer' = [drainer EXCEPT ![d] = row]
      /\ UNCHANGED <<text, vector, embedQueue, rejected, writer, unrefreshed>>
  BY DEF EmbeddingsInv, DrainStarts
<1>2. NoDelta \in Deltas /\ NoDelta.done = <<>> /\ NoDelta.retry = <<>> /\ DOMAIN <<>> = {} /\ ToSet(<<>>) = {}
  BY DEF NoDelta, Deltas, DeltaRows, ToSet
<1>3. /\ row \in NextRows /\ row.at = "next" /\ row.todo = embedQueue /\ row.order = <<>> /\ row.delta = NoDelta
  BY <1>1, <1>2, EmptySeq DEF NextRows, EmbeddingsFit
<1> HIDE DEF row
<1>4. Distinct(embedQueue) /\ Distinct(<<>>)
  BY <1>1 DEF EmbeddingsFit, Distinct
<1>5. DrainOK(row) /\ row \in DrainerRows
  BY <1>2, <1>3, <1>4 DEF DrainOK, DrainerRows
<1> QED
  BY <1>1, <1>3, <1>5, DrainerKeeps

\* What a drain has before it when a turn ends.
LEMMA TurnOver ==
    ASSUME EmbeddingsInv, NEW d \in Drainers, drainer[d].at \in {"next", "calling"}, drainer[d].todo # <<>>
    PROVE  /\ Turn(d) \in Texts /\ Tail(drainer[d].todo) \in Seq(Texts)
           /\ Distinct(Tail(drainer[d].todo)) /\ Turn(d) \notin ToSet(Tail(drainer[d].todo))
           /\ Turn(d) \notin DOMAIN drainer[d].delta.done /\ Turn(d) \notin ToSet(drainer[d].order)
           /\ \A n \in ToSet(Tail(drainer[d].todo)) :
                 n \notin DOMAIN drainer[d].delta.done /\ n \notin ToSet(drainer[d].order)
           /\ drainer[d].delta.done \in DeltaRows /\ drainer[d].delta.retry \in DeltaRows
           /\ drainer[d].delta.terminal \in SUBSET Texts
<1>1. EmbeddingsFit /\ Draining(d)
  BY DEF EmbeddingsInv
<1>2. drainer[d].todo \in Seq(Texts) /\ Turn(d) \in Texts /\ drainer[d].delta \in Deltas
  BY <1>1, RowsAt
<1>3. /\ Distinct(drainer[d].todo)
      /\ \A n \in ToSet(drainer[d].todo) : n \notin DOMAIN drainer[d].delta.done /\ n \notin ToSet(drainer[d].order)
  BY <1>1 DEF Draining, DrainOK
<1>4. /\ Tail(drainer[d].todo) \in Seq(Texts) /\ Turn(d) \in ToSet(drainer[d].todo)
      /\ ToSet(drainer[d].todo) = ToSet(Tail(drainer[d].todo)) \cup {Turn(d)}
      /\ Distinct(Tail(drainer[d].todo)) /\ Turn(d) \notin ToSet(Tail(drainer[d].todo))
  BY <1>2, <1>3, TailSet DEF Turn
<1> QED
  BY <1>2, <1>3, <1>4 DEF Deltas


\* What a drain has in hand between two calls is all that changes.
LEMMA DrainerRowKeeps ==
    ASSUME EmbeddingsInv, NEW d \in Drainers, UNCHANGED <<text, vector, embedQueue, rejected, writer, unrefreshed>>,
           NEW row \in NextRows, drainer' = [drainer EXCEPT ![d] = row], DrainOK(row)
    PROVE  EmbeddingsInv'
<1>1. row.at = "next" /\ row \in DrainerRows
  BY DEF NextRows, DrainerRows
<1> QED
  BY <1>1, DrainerKeeps

Dismissed(r, t, f, z) == [r EXCEPT !.todo = t, !.delta.done = f, !.delta.terminal = z]

\* What a drain has in hand after a node that it need not embed.
LEMMA DismissedRow ==
    ASSUME NEW r \in NextRows, NEW t, NEW f, NEW z
    PROVE  Dismissed(r, t, f, z) =
              [at |-> "next", todo |-> t, known |-> r.known, calls |-> r.calls, order |-> r.order,
               delta |-> [done |-> f, terminal |-> z, retry |-> r.delta.retry]]
<1> DEFINE q == [r EXCEPT !.todo = t]
           x == [r.delta EXCEPT !.done = f]
           y == [x EXCEPT !.terminal = z]
<1>1. q = [at |-> "next", todo |-> t, known |-> r.known, calls |-> r.calls, order |-> r.order, delta |-> r.delta]
  BY DEF NextRows
<1>2. x = [done |-> f, terminal |-> r.delta.terminal, retry |-> r.delta.retry]
  BY DEF NextRows, Deltas
<1>3. y = [done |-> f, terminal |-> z, retry |-> r.delta.retry]
  <2> HIDE DEF x
  <2> QED
    BY <1>2
<1>4. [r EXCEPT !.todo = t, !.delta.done = f, !.delta.terminal = z] = [[q EXCEPT !.delta = x] EXCEPT !.delta = y]
  <2>1. q.delta = r.delta
    BY <1>1
  <2>2. [q EXCEPT !.delta = x].delta = x
    BY <1>1
  <2> HIDE DEF x
  <2> QED
    BY <2>1, <2>2 DEF x
<1>5. [[q EXCEPT !.delta = x] EXCEPT !.delta = y] = [q EXCEPT !.delta = y]
  BY <1>1
<1> HIDE DEF q, y
<1> QED
  BY <1>1, <1>3, <1>4, <1>5 DEF Dismissed

\* A node that is gone, or diagnosed already, is done with.
LEMMA DismissKeeps ==
    ASSUME EmbeddingsInv, NEW d \in Drainers, Dismiss(d)
    PROVE  EmbeddingsInv'
<1>1. /\ EmbeddingsFit /\ Draining(d) /\ drainer[d].at = "next" /\ drainer[d].todo # <<>>
      /\ UNCHANGED <<text, vector, embedQueue, rejected, writer, unrefreshed>>
  BY DEF EmbeddingsInv, Dismiss, HasTurn, DrainerAt
<1>2. PICK n \in Texts : n = Turn(d)
  BY <1>1, TurnOver
<1>3. PICK known \in BOOLEAN :
        /\ known = (text[n] # NoText /\ drainer[d].known[n] = text[n])
        /\ text[n] = NoText \/ known
        /\ drainer' = [drainer EXCEPT ![d].todo = Tail(@),
                 ![d].delta.done = With(@, n, text[n]),
                 ![d].delta.terminal = IF known THEN @ \cup {n} ELSE @]
  BY <1>2 DEF Dismiss
<1> DEFINE old == drainer[d]
           done == With(old.delta.done, n, text[n])
           terminal == IF known THEN old.delta.terminal \cup {n} ELSE old.delta.terminal
           todo == Tail(old.todo)
           delta == [done |-> done, terminal |-> terminal, retry |-> old.delta.retry]
           row == [at |-> "next", todo |-> todo, known |-> old.known, calls |-> old.calls, order |-> old.order,
                   delta |-> delta]
<1>4. /\ todo \in Seq(Texts) /\ Distinct(todo) /\ n \notin ToSet(todo)
      /\ n \notin DOMAIN old.delta.done /\ n \notin ToSet(old.order)
      /\ \A m \in ToSet(todo) : m \notin DOMAIN old.delta.done /\ m \notin ToSet(old.order)
      /\ old.delta.done \in DeltaRows /\ old.delta.terminal \in SUBSET Texts
  BY <1>1, <1>2, TurnOver
<1>5. /\ done \in DeltaRows /\ DOMAIN done = DOMAIN old.delta.done \cup {n} /\ done[n] = text[n]
      /\ \A m \in DOMAIN old.delta.done \ {n} : done[m] = old.delta.done[m]
  <2>1. PICK v \in TextVersions : v = text[n]
    BY <1>1, VersionsTyped
  <2>2. PICK f \in DeltaRows : f = old.delta.done
    BY <1>4
  <2>3. /\ With(f, n, v) \in DeltaRows /\ DOMAIN With(f, n, v) = DOMAIN f \cup {n}
        /\ With(f, n, v)[n] = v /\ \A m \in DOMAIN f \ {n} : With(f, n, v)[m] = f[m]
    BY Recorded
  <2>4. done = With(f, n, v)
    BY <2>1, <2>2
  <2> HIDE DEF done, old
  <2> QED
    BY <2>1, <2>2, <2>3, <2>4
<1>6. old \in NextRows /\ old.delta \in Deltas
  BY <1>1, RowsAt
<1>7. terminal \in SUBSET Texts /\ (known => n \in terminal) /\ old.delta.terminal \subseteq terminal
  BY <1>4
<1>8. drainer' = [drainer EXCEPT ![d] = row]
  <2>1. DOMAIN drainer = Drainers
    BY <1>1 DEF EmbeddingsFit
  <2>2. drainer' = [drainer EXCEPT ![d] = Dismissed(old, todo, done, terminal)]
    BY <1>3, <2>1 DEF Dismissed
  <2> HIDE DEF todo, done, terminal
  <2>3. Dismissed(old, todo, done, terminal) = row
    <3>1. PICK r \in NextRows : r = old
      BY <1>6
    <3>2. Dismissed(r, todo, done, terminal) =
              [at |-> "next", todo |-> todo, known |-> r.known, calls |-> r.calls, order |-> r.order,
               delta |-> [done |-> done, terminal |-> terminal, retry |-> r.delta.retry]]
      BY DismissedRow
    <3> HIDE DEF old
    <3> QED
      BY <3>1, <3>2
  <2> QED
    BY <2>2, <2>3
<1> HIDE DEF todo, done, terminal
<1>9. delta \in Deltas /\ delta.done = done /\ delta.terminal = terminal /\ delta.retry = old.delta.retry
  BY <1>5, <1>6, <1>7 DEF Deltas
<1> HIDE DEF delta
<1>10. row \in NextRows /\ row.at = "next" /\ row.todo = todo /\ row.order = old.order /\ row.delta = delta
  BY <1>4, <1>6, <1>9 DEF NextRows
<1> HIDE DEF row
<1>11. \A m \in DOMAIN done : /\ Below(m, done[m])
                              /\ Current(m, done[m]) /\ m \notin terminal => vector[m] = text[m] \/ m \in unrefreshed
  <2> SUFFICES ASSUME NEW m \in DOMAIN done
               PROVE  /\ Below(m, done[m])
                      /\ Current(m, done[m]) /\ m \notin terminal => vector[m] = text[m] \/ m \in unrefreshed
    OBVIOUS
  <2>1. CASE m = n
    <3>1. text[n] \in Nat
      BY <1>1, VersionsTyped
    <3> QED
      BY <1>3, <1>5, <1>7, <2>1, <3>1 DEF Below, Current
  <2>2. CASE m # n
    <3>1. m \in DOMAIN old.delta.done /\ done[m] = old.delta.done[m]
      BY <1>5, <2>2
    <3> QED
      BY <1>1, <1>7, <3>1 DEF Draining, DrainOK
  <2> QED
    BY <2>1, <2>2
<1>12. Distinct(old.order) /\ DOMAIN old.delta.retry \subseteq ToSet(old.order)
  BY <1>1 DEF Draining, DrainOK
<1>13. DrainOK(row)
  BY <1>4, <1>5, <1>9, <1>10, <1>11, <1>12 DEF DrainOK
<1> QED
  BY <1>1, <1>8, <1>10, <1>13, DrainerRowKeeps

\* A drain calls for the text as it is.
LEMMA CallProviderKeeps ==
    ASSUME EmbeddingsInv, NEW d \in Drainers, CallProvider(d)
    PROVE  EmbeddingsInv'
<1>1. /\ EmbeddingsFit /\ Draining(d) /\ drainer[d].at = "next" /\ drainer[d].todo # <<>>
      /\ UNCHANGED <<text, vector, embedQueue, rejected, writer, unrefreshed>>
  BY DEF EmbeddingsInv, CallProvider, HasTurn, DrainerAt
<1> DEFINE old == drainer[d]
           row == [at |-> "calling", todo |-> old.todo, known |-> old.known, calls |-> old.calls + 1,
                   order |-> old.order, delta |-> old.delta, version |-> text[Turn(d)]]
<1>2. drainer' = [drainer EXCEPT ![d] = row]
  BY DEF CallProvider
<1>3. old \in NextRows /\ Turn(d) \in Texts
  BY <1>1, RowsAt, TurnOver
<1>4. text[Turn(d)] \in TextVersions /\ text[Turn(d)] \in Nat
  BY <1>1, <1>3, VersionsTyped
<1>5. /\ row \in CallRows /\ row.at = "calling" /\ row.todo = old.todo /\ row.order = old.order
      /\ row.delta = old.delta /\ row.version = text[Turn(d)]
  BY <1>3, <1>4 DEF NextRows, CallRows
<1> HIDE DEF row
<1>6. DrainOK(row) /\ row \in DrainerRows
  BY <1>1, <1>5 DEF Draining, DrainOK, DrainerRows
<1>7. row.todo # <<>> /\ Below(row.todo[1], row.version)
  BY <1>1, <1>4, <1>5 DEF Below, Turn
<1> QED
  BY <1>1, <1>2, <1>6, <1>7, DrainerKeeps

\* What a drain has in hand after a call.
AfterOK(d, row, done, terminal) ==
    /\ Distinct(row.todo) /\ Distinct(row.order)
    /\ \A m \in ToSet(row.todo) : m \notin DOMAIN row.delta.done /\ m \notin ToSet(row.order)
    /\ DOMAIN row.delta.retry \subseteq ToSet(row.order)
    /\ row.delta.terminal = IF terminal THEN drainer[d].delta.terminal \cup {Turn(d)} ELSE drainer[d].delta.terminal
    /\ DOMAIN row.delta.done = IF done THEN DOMAIN drainer[d].delta.done \cup {Turn(d)} ELSE DOMAIN drainer[d].delta.done
    /\ done => row.delta.done[Turn(d)] = drainer[d].version
    /\ \A m \in DOMAIN drainer[d].delta.done : m # Turn(d) /\ row.delta.done[m] = drainer[d].delta.done[m]

\* A call leaves such a row, whatever it came to.
LEMMA AfterRow ==
    ASSUME EmbeddingsInv, NEW d \in Drainers, drainer[d].at = "calling",
           NEW done \in BOOLEAN, NEW terminal \in BOOLEAN, NEW retry \in BOOLEAN, After(d, done, terminal, retry)
    PROVE  \E row \in NextRows :
              drainer' = [drainer EXCEPT ![d] = row] /\ AfterOK(d, row, done, terminal)
<1>1. EmbeddingsFit /\ Draining(d) /\ Calling(d) /\ drainer[d].todo # <<>>
  BY DEF EmbeddingsInv, Calling
<1>2. PICK old \in CallRows : old = drainer[d]
  BY <1>1, RowsAt
<1>3. PICK n \in Texts : n = Turn(d)
  BY <1>1, TurnOver
<1>4. PICK v \in TextVersions : v = old.version
  BY DEF CallRows
<1>5. PICK f \in DeltaRows, r \in DeltaRows : f = old.delta.done /\ r = old.delta.retry
  BY DEF CallRows, Deltas
<1> DEFINE todo == Tail(old.todo)
           order == IF retry THEN Append(old.order, n) ELSE old.order
           f1 == IF done THEN With(f, n, v) ELSE f
           r1 == IF retry THEN With(r, n, v) ELSE r
           t1 == IF terminal THEN old.delta.terminal \cup {n} ELSE old.delta.terminal
           delta == [done |-> f1, terminal |-> t1, retry |-> r1]
           row == [at |-> "next", todo |-> todo, known |-> old.known, calls |-> old.calls, order |-> order, delta |-> delta]
<1>6. /\ todo \in Seq(Texts) /\ Distinct(todo) /\ n \notin ToSet(todo)
      /\ n \notin DOMAIN f /\ n \notin ToSet(old.order)
      /\ \A m \in ToSet(todo) : m \notin DOMAIN f /\ m \notin ToSet(old.order)
      /\ old.delta.terminal \in SUBSET Texts
  <2>1. /\ Turn(d) \in Texts /\ Tail(drainer[d].todo) \in Seq(Texts)
        /\ Distinct(Tail(drainer[d].todo)) /\ Turn(d) \notin ToSet(Tail(drainer[d].todo))
        /\ Turn(d) \notin DOMAIN drainer[d].delta.done /\ Turn(d) \notin ToSet(drainer[d].order)
        /\ \A m \in ToSet(Tail(drainer[d].todo)) :
                 m \notin DOMAIN drainer[d].delta.done /\ m \notin ToSet(drainer[d].order)
        /\ drainer[d].delta.terminal \in SUBSET Texts
    BY <1>1, TurnOver
  <2> QED
    BY <1>2, <1>3, <1>5, <2>1
<1>7. /\ f1 \in DeltaRows /\ DOMAIN f1 = IF done THEN DOMAIN f \cup {n} ELSE DOMAIN f
      /\ done => f1[n] = v
      /\ \A m \in DOMAIN f : m # n /\ f1[m] = f[m]
  <2>1. /\ With(f, n, v) \in DeltaRows /\ DOMAIN With(f, n, v) = DOMAIN f \cup {n}
        /\ With(f, n, v)[n] = v /\ \A m \in DOMAIN f \ {n} : With(f, n, v)[m] = f[m]
    BY Recorded
  <2>2. CASE done
    <3>1. f1 = With(f, n, v)
      BY <2>2
    <3> HIDE DEF f1
    <3> QED
      BY <1>6, <2>1, <2>2, <3>1
  <2>3. CASE ~done
    <3>1. f1 = f
      BY <2>3
    <3> HIDE DEF f1
    <3> QED
      BY <1>6, <2>3, <3>1
  <2> QED
    BY <2>2, <2>3
<1>8. r1 \in DeltaRows /\ DOMAIN r1 = IF retry THEN DOMAIN r \cup {n} ELSE DOMAIN r
  BY Recorded
<1>9. /\ old.order \in Seq(Texts) /\ Distinct(old.order) /\ DOMAIN r \subseteq ToSet(old.order)
  BY <1>1, <1>2, <1>5 DEF Draining, DrainOK, CallRows
<1>10. /\ order \in Seq(Texts) /\ Distinct(order)
       /\ ToSet(order) = IF retry THEN ToSet(old.order) \cup {n} ELSE ToSet(old.order)
  <2> DEFINE more == Append(old.order, n)
  <2>1. more \in Seq(Texts) /\ Distinct(more) /\ ToSet(more) = ToSet(old.order) \cup {n}
    BY <1>6, <1>9, AppendSet
  <2>2. order = IF retry THEN more ELSE old.order
    OBVIOUS
  <2> HIDE DEF order, more
  <2> QED
    BY <1>9, <2>1, <2>2
<1>11. t1 \in SUBSET Texts
  BY <1>6
<1>12. drainer' = [drainer EXCEPT ![d] = row]
  <2>1. DOMAIN drainer = Drainers
    BY <1>1 DEF EmbeddingsFit
  <2> QED
    BY <1>2, <1>3, <1>4, <1>5, <2>1 DEF After
<1> HIDE DEF todo, order, f1, r1, t1
<1>13. delta \in Deltas /\ delta.done = f1 /\ delta.terminal = t1 /\ delta.retry = r1
  BY <1>7, <1>8, <1>11 DEF Deltas
<1> HIDE DEF delta
<1>14. row \in NextRows /\ row.todo = todo /\ row.order = order /\ row.delta = delta
  BY <1>6, <1>10, <1>13 DEF NextRows, CallRows
<1> HIDE DEF row
<1>15. /\ \A m \in ToSet(todo) : m \notin DOMAIN f1 /\ m \notin ToSet(order)
       /\ DOMAIN r1 \subseteq ToSet(order)
  BY <1>6, <1>7, <1>8, <1>9, <1>10
<1>16. t1 = IF terminal THEN drainer[d].delta.terminal \cup {Turn(d)} ELSE drainer[d].delta.terminal
  BY <1>2, <1>3 DEF t1
<1>17. /\ Turn(d) = n /\ drainer[d].delta.done = f /\ drainer[d].version = v
  BY <1>2, <1>3, <1>4, <1>5
<1>18. AfterOK(d, row, done, terminal)
  BY <1>6, <1>7, <1>10, <1>13, <1>14, <1>15, <1>16, <1>17 DEF AfterOK
<1> QED
  BY <1>12, <1>14, <1>18

\* The provider rejects the text for good.
LEMMA RejectKeeps ==
    ASSUME EmbeddingsInv, NEW d \in Drainers, Reject(d)
    PROVE  EmbeddingsInv'
<1> DEFINE yes == TRUE
           no == FALSE
<1>1. /\ EmbeddingsFit /\ Draining(d) /\ Calling(d) /\ drainer[d].at = "calling" /\ After(d, yes, yes, no)
      /\ UNCHANGED <<text, vector, embedQueue, rejected, writer, unrefreshed>>
  BY DEF EmbeddingsInv, Reject, DrainerAt
<1>2. yes \in BOOLEAN /\ no \in BOOLEAN /\ yes
  OBVIOUS
<1> HIDE DEF yes, no
<1>31. PICK row \in NextRows : drainer' = [drainer EXCEPT ![d] = row] /\ AfterOK(d, row, yes, yes)
  BY <1>1, <1>2, AfterRow
<1>3. /\ drainer' = [drainer EXCEPT ![d] = row]
      /\ Distinct(row.todo) /\ Distinct(row.order)
      /\ \A m \in ToSet(row.todo) : m \notin DOMAIN row.delta.done /\ m \notin ToSet(row.order)
      /\ DOMAIN row.delta.retry \subseteq ToSet(row.order)
      /\ row.delta.terminal = IF yes THEN drainer[d].delta.terminal \cup {Turn(d)} ELSE drainer[d].delta.terminal
      /\ DOMAIN row.delta.done = IF yes THEN DOMAIN drainer[d].delta.done \cup {Turn(d)} ELSE DOMAIN drainer[d].delta.done
      /\ yes => row.delta.done[Turn(d)] = drainer[d].version
      /\ \A m \in DOMAIN drainer[d].delta.done : m # Turn(d) /\ row.delta.done[m] = drainer[d].delta.done[m]
  BY <1>31 DEF AfterOK
<1>4. \A m \in DOMAIN row.delta.done : /\ Below(m, row.delta.done[m])
                                       /\ Current(m, row.delta.done[m]) /\ m \notin row.delta.terminal => vector[m] = text[m] \/ m \in unrefreshed
  BY <1>1, <1>2, <1>3 DEF Draining, DrainOK, Calling
<1>5. DrainOK(row)
  BY <1>3, <1>4 DEF DrainOK
<1> QED
  BY <1>1, <1>3, <1>5, DrainerRowKeeps

\* The provider fails for a while.
LEMMA FailKeeps ==
    ASSUME EmbeddingsInv, NEW d \in Drainers, Fail(d)
    PROVE  EmbeddingsInv'
<1> DEFINE yes == TRUE
           no == FALSE
<1>1. /\ EmbeddingsFit /\ Draining(d) /\ drainer[d].at = "calling" /\ After(d, no, no, yes)
      /\ UNCHANGED <<text, vector, embedQueue, rejected, writer, unrefreshed>>
  BY DEF EmbeddingsInv, Fail, DrainerAt
<1>2. yes \in BOOLEAN /\ no \in BOOLEAN /\ ~no
  OBVIOUS
<1> HIDE DEF yes, no
<1>31. PICK row \in NextRows : drainer' = [drainer EXCEPT ![d] = row] /\ AfterOK(d, row, no, no)
  BY <1>1, <1>2, AfterRow
<1>3. /\ drainer' = [drainer EXCEPT ![d] = row]
      /\ Distinct(row.todo) /\ Distinct(row.order)
      /\ \A m \in ToSet(row.todo) : m \notin DOMAIN row.delta.done /\ m \notin ToSet(row.order)
      /\ DOMAIN row.delta.retry \subseteq ToSet(row.order)
      /\ row.delta.terminal = IF no THEN drainer[d].delta.terminal \cup {Turn(d)} ELSE drainer[d].delta.terminal
      /\ DOMAIN row.delta.done = IF no THEN DOMAIN drainer[d].delta.done \cup {Turn(d)} ELSE DOMAIN drainer[d].delta.done
      /\ no => row.delta.done[Turn(d)] = drainer[d].version
      /\ \A m \in DOMAIN drainer[d].delta.done : m # Turn(d) /\ row.delta.done[m] = drainer[d].delta.done[m]
  BY <1>31 DEF AfterOK
<1>4. \A m \in DOMAIN row.delta.done : /\ Below(m, row.delta.done[m])
                                       /\ Current(m, row.delta.done[m]) /\ m \notin row.delta.terminal => vector[m] = text[m] \/ m \in unrefreshed
  BY <1>1, <1>2, <1>3 DEF Draining, DrainOK
<1>5. DrainOK(row)
  BY <1>3, <1>4 DEF DrainOK
<1> QED
  BY <1>1, <1>3, <1>5, DrainerRowKeeps

\* The answer is stored.
LEMMA StoreKeeps ==
    ASSUME EmbeddingsInv, NEW d \in Drainers, Store(d)
    PROVE  EmbeddingsInv'
<1> DEFINE yes == TRUE
           no == FALSE
<1>1. /\ EmbeddingsFit /\ Draining(d) /\ Calling(d) /\ StaleIsQueued
      /\ drainer[d].at = "calling" /\ After(d, yes, no, no)
      /\ vector' = [vector EXCEPT ![Turn(d)] = drainer[d].version]
      /\ rejected' = [rejected EXCEPT ![Turn(d)] = NoText]
      /\ UNCHANGED <<text, embedQueue, writer>>
  BY DEF EmbeddingsInv, Store, DrainerAt
<1>2. yes \in BOOLEAN /\ no \in BOOLEAN /\ ~no /\ yes
  OBVIOUS
<1> HIDE DEF yes, no
<1>3. PICK row \in NextRows : drainer' = [drainer EXCEPT ![d] = row] /\ AfterOK(d, row, yes, no)
  <2>1. drainer[d].at = "calling" /\ After(d, yes, no, no) /\ yes \in BOOLEAN /\ no \in BOOLEAN
    BY <1>1, <1>2
  <2> QED
    BY <2>1, AfterRow
<1>4. drainer[d].todo # <<>> /\ row.at = "next" /\ row \in DrainerRows
  BY <1>1 DEF Calling, NextRows, DrainerRows
<1>5. PICK n \in Texts, v \in TextVersions : n = Turn(d) /\ v = drainer[d].version
  BY <1>1, <1>4, RowsAt DEF CallRows
<1>6. Below(n, v)
  BY <1>1, <1>5 DEF Calling
<1>7. /\ vector' \in VersionRows /\ vector'[n] = v /\ \A m \in Texts \ {n} : vector'[m] = vector[m]
      /\ rejected' \in VersionRows /\ rejected'[n] = NoText /\ \A m \in Texts \ {n} : rejected'[m] = rejected[m]
  <2>1. vector \in VersionRows /\ rejected \in VersionRows /\ NoText \in TextVersions
    BY <1>1, <1>5, VersionsTyped DEF EmbeddingsFit
  <2> QED
    BY <1>1, <1>5, <2>1 DEF VersionRows
<1>8. unrefreshed' = IF v = text[n] THEN unrefreshed \ {n}
                     ELSE IF Outdone(n) THEN unrefreshed \cup {n} ELSE unrefreshed
  BY <1>5 DEF Store
<1>9. /\ drainer' \in [Drainers -> DrainerRows] /\ drainer'[d] = row
      /\ \A e \in Drainers \ {d} : drainer'[e] = drainer[e]
  BY <1>1, <1>3, <1>4, OneDrainer
<1>10. EmbeddingsFit'
  BY <1>1, <1>7, <1>8, <1>9 DEF EmbeddingsFit
<1>11. \A m \in Texts : Grows(m) /\ (text[m] = NoText => text'[m] = NoText)
  BY <1>1, TextStays
<1>12. ASSUME NEW m \in Texts PROVE Stays(m)
  <2>1. CASE m # n
    BY <1>7, <1>8, <2>1 DEF Stays
  <2>2. CASE m = n /\ v = text[n]
    BY <1>7, <2>2 DEF Stays
  <2>3. CASE m = n /\ v # text[n]
    BY <1>8, <2>3 DEF Stays, Outdone
  <2> QED
    BY <2>1, <2>2, <2>3
<1>13. \A w \in Writers : Writing(w)'
  BY <1>1, <1>11, OthersWriting
<1>14. ASSUME NEW m \in DOMAIN row.delta.done
       PROVE  /\ Below(m, row.delta.done[m])'
              /\ Current(m, row.delta.done[m])' /\ m \notin row.delta.terminal => vector'[m] = text'[m] \/ m \in unrefreshed'
  <2>1. CASE m = n
    <3>1. row.delta.done[n] = v
      BY <1>2, <1>3, <1>5 DEF AfterOK
    <3>2. Current(m, row.delta.done[m])' => vector'[m] = text'[m]
      BY <1>1, <1>7, <2>1, <3>1 DEF Current
    <3> QED
      BY <1>1, <1>6, <2>1, <3>1, <3>2 DEF Below
  <2>2. CASE m # n
    <3>1. /\ m \in DOMAIN drainer[d].delta.done /\ row.delta.done[m] = drainer[d].delta.done[m]
          /\ row.delta.terminal = drainer[d].delta.terminal
      BY <1>2, <1>3, <1>5, <2>2 DEF AfterOK
    <3>2. drainer[d].delta.done \in DeltaRows
      BY <1>1, <1>4, TurnOver
    <3>3. m \in Texts
      BY <3>1, <3>2, Recorded
    <3>4. /\ Below(m, row.delta.done[m])
          /\ Current(m, row.delta.done[m]) /\ m \notin row.delta.terminal => vector[m] = text[m] \/ m \in unrefreshed
      BY <1>1, <3>1 DEF Draining, DrainOK
    <3> QED
      BY <1>1, <1>7, <1>8, <2>2, <3>3, <3>4 DEF Below, Current
  <2> QED
    BY <2>1, <2>2
<1>15. ASSUME NEW e \in Drainers PROVE Draining(e)' /\ Calling(e)'
  <2>1. CASE e = d
    <3>1. DrainOK(row)'
      BY <1>3, <1>14 DEF DrainOK, AfterOK
    <3> QED
      BY <1>4, <1>9, <2>1, <3>1 DEF Draining, Calling
  <2>2. CASE e # d
    BY <1>9, <1>11, <1>12, <2>2, DrainsSee
  <2> QED
    BY <2>1, <2>2
<1>16. StaleIsQueued'
  <2> SUFFICES ASSUME NEW m \in Texts, m \notin unrefreshed', text[m] # NoText, vector'[m] # text[m]
               PROVE  rejected'[m] = text[m] \/ m \in ToSet(embedQueue) \/ Editors(m) # {}
    BY <1>1 DEF StaleIsQueued, OnQueue, InQuarantine, Editors
  <2>1. CASE m = n
    <3>1. v # text[n] /\ ~Outdone(n) /\ m \notin unrefreshed
      BY <1>7, <1>8, <2>1
    <3> QED
      BY <1>1, <2>1, <3>1 DEF StaleIsQueued, Outdone, OnQueue
  <2>2. CASE m # n
    <3>1. m \notin unrefreshed
      BY <1>8, <2>2
    <3> QED
      BY <1>1, <1>7, <2>2, <3>1 DEF StaleIsQueued, InQuarantine, OnQueue
  <2> QED
    BY <2>1, <2>2
<1> QED
  BY <1>10, <1>13, <1>15, <1>16 DEF EmbeddingsInv

\* The end of a drain: what it did counts where the text is still the one it saw.
LEMMA PersistKeeps ==
    ASSUME EmbeddingsInv, NEW d \in Drainers, Persist(d)
    PROVE  EmbeddingsInv'
<1>1. /\ EmbeddingsFit /\ Draining(d) /\ StaleIsQueued /\ drainer[d].at = "next"
      /\ embedQueue' = Drained(d) /\ drainer' = [drainer EXCEPT ![d] = Resting]
      /\ UNCHANGED <<text, vector, writer, unrefreshed>>
  BY DEF EmbeddingsInv, Persist, DrainerAt
<1>2. DrainOK(drainer[d]) /\ drainer[d] \in NextRows
  BY <1>1, RowsAt DEF Draining
<1>3. PICK f \in DeltaRows, r \in DeltaRows, terminal \in SUBSET Texts, order \in Seq(Texts) :
         /\ f = drainer[d].delta.done /\ r = drainer[d].delta.retry
         /\ terminal = drainer[d].delta.terminal /\ order = drainer[d].order
  BY <1>2 DEF NextRows, Deltas
<1>4. PICK done \in SUBSET Texts : done = Unchanged(f)
  BY <1>3, Recorded DEF Unchanged
<1>5. PICK again \in SUBSET Texts : again = Unchanged(r) \cap ToSet(embedQueue)
  BY <1>3, Recorded DEF Unchanged
<1>6. /\ \A m \in done : m \in DOMAIN f /\ text[m] = f[m]
      /\ again \subseteq ToSet(order)
  BY <1>2, <1>3, <1>4, <1>5 DEF Unchanged, DrainOK
<1>7. \A m \in done : text[m] # NoText /\ m \notin terminal => vector[m] = text[m] \/ m \in unrefreshed
  BY <1>2, <1>3, <1>6 DEF DrainOK, Current
<1>8. rejected' = [m \in Texts |-> IF m \notin done THEN rejected[m] ELSE IF m \in terminal THEN text[m] ELSE NoText]
  BY <1>3, <1>4 DEF Persist
<1>9. /\ rejected' \in VersionRows
      /\ \A m \in Texts : /\ m \notin done => rejected'[m] = rejected[m]
                          /\ m \in done /\ m \in terminal => rejected'[m] = text[m]
                          /\ m \in done /\ m \notin terminal => rejected'[m] = NoText
  <2>1. \A m \in Texts : text[m] \in TextVersions /\ rejected[m] \in TextVersions /\ NoText \in TextVersions
    BY <1>1, VersionsTyped
  <2> QED
    BY <1>8, <2>1 DEF VersionRows
<1>10. /\ embedQueue' \in Seq(Texts) /\ Distinct(embedQueue')
       /\ ToSet(embedQueue') = (ToSet(embedQueue) \cap (Texts \ (done \cup again))) \cup again
  <2> DEFINE rest == Where(embedQueue, Texts \ (done \cup again))
             back == Where(order, again)
  <2>1. embedQueue \in Seq(Texts) /\ Distinct(embedQueue) /\ Distinct(order)
    BY <1>1, <1>2, <1>3 DEF EmbeddingsFit, DrainOK
  <2>2. rest \in Seq(Texts) /\ Distinct(rest) /\ ToSet(rest) = ToSet(embedQueue) \cap (Texts \ (done \cup again))
    BY <2>1, WhereSet
  <2>3. back \in Seq(Texts) /\ Distinct(back) /\ ToSet(back) = ToSet(order) \cap again
    BY <2>1, WhereSet
  <2>4. embedQueue' = rest \o back
    BY <1>1, <1>3, <1>4, <1>5 DEF Drained, Without
  <2> HIDE DEF rest, back
  <2>5. ToSet(rest) \cap ToSet(back) = {} /\ ToSet(back) = again
    BY <1>6, <2>2, <2>3
  <2>6. rest \o back \in Seq(Texts) /\ Distinct(rest \o back) /\ ToSet(rest \o back) = ToSet(rest) \cup ToSet(back)
    BY <2>2, <2>3, <2>5, ConcatSet
  <2> QED
    BY <2>2, <2>4, <2>5, <2>6
<1>11. PICK row \in DrainerRows : row = Resting
  BY DEF DrainerRows
<1>12. /\ drainer' \in [Drainers -> DrainerRows] /\ drainer'[d] = Resting
       /\ \A e \in Drainers \ {d} : drainer'[e] = drainer[e]
  BY <1>1, <1>11, OneDrainer
<1>13. EmbeddingsFit'
  BY <1>1, <1>9, <1>10, <1>12 DEF EmbeddingsFit
<1>14. \A m \in Texts : Grows(m) /\ Stays(m) /\ (text[m] = NoText => text'[m] = NoText)
  BY <1>1, TextStays DEF Stays
<1>15. \A w \in Writers : Writing(w)'
  BY <1>1, <1>14, OthersWriting
<1>16. ASSUME NEW e \in Drainers PROVE Draining(e)' /\ Calling(e)'
  <2>1. CASE e = d
    BY <1>12, <2>1 DEF Draining, Calling, Resting
  <2>2. CASE e # d
    BY <1>12, <1>14, <2>2, DrainsSee
  <2> QED
    BY <2>1, <2>2
<1>17. StaleIsQueued'
  <2> SUFFICES ASSUME NEW m \in Texts, m \notin unrefreshed, text[m] # NoText, vector[m] # text[m]
               PROVE  rejected'[m] = text[m] \/ m \in ToSet(embedQueue') \/ Editors(m) # {}
    BY <1>1 DEF StaleIsQueued, OnQueue, InQuarantine, Editors
  <2>1. rejected[m] = text[m] \/ m \in ToSet(embedQueue) \/ Editors(m) # {}
    BY <1>1 DEF StaleIsQueued, OnQueue, InQuarantine
  <2>2. CASE m \in done
    BY <1>7, <1>9, <2>2
  <2>3. CASE m \notin done
    BY <1>9, <1>10, <2>1, <2>3
  <2> QED
    BY <2>2, <2>3
<1> QED
  BY <1>13, <1>15, <1>16, <1>17 DEF EmbeddingsInv

\* Every step.
LEMMA EmbeddingsKeep ==
    ASSUME EmbeddingsInv, [EmbeddingsNext]_embeddingVars
    PROVE  EmbeddingsInv'
<1>1. CASE UNCHANGED embeddingVars
  BY <1>1 DEF embeddingVars, EmbeddingsInv, EmbeddingsFit, StaleIsQueued, OnQueue, InQuarantine, Editors,
              Writing, Draining, DrainOK, Calling, Turn, Below, Current
<1>2. ASSUME NEW w \in Writers, EnqueueReads(w) \/ EnqueueWrites(w) \/ EnqueueFails(w) PROVE EmbeddingsInv'
  BY <1>2, EnqueueReadsKeeps, EnqueueWritesKeeps, EnqueueFailsKeeps
<1>3. ASSUME NEW w \in Writers, DeleteEmbedding(w) \/ ClearReads(w) \/ ClearWrites(w) \/ ClearFails(w)
      PROVE  EmbeddingsInv'
  BY <1>3, DeleteEmbeddingKeeps, ClearReadsKeeps, ClearWritesKeeps, ClearFailsKeeps
<1>4. ASSUME NEW w \in Writers, NEW n \in Texts, Edit(w, n) \/ Retire(w, n) PROVE EmbeddingsInv'
  BY <1>4, EditKeeps, RetireKeeps
<1>5. ASSUME NEW n \in Texts, EditTask(n) \/ UpdateNode(n) PROVE EmbeddingsInv'
  BY <1>5, EditTaskKeeps, UpdateNodeKeeps
<1>6. ASSUME NEW d \in Drainers, DrainStarts(d) \/ Dismiss(d) \/ CallProvider(d) PROVE EmbeddingsInv'
  BY <1>6, DrainStartsKeeps, DismissKeeps, CallProviderKeeps
<1>7. ASSUME NEW d \in Drainers, Store(d) \/ Reject(d) \/ Fail(d) PROVE EmbeddingsInv'
  BY <1>7, StoreKeeps, RejectKeeps, FailKeeps
<1>8. ASSUME NEW d \in Drainers, Persist(d) \/ DrainDies(d) PROVE EmbeddingsInv'
  BY <1>8, PersistKeeps, DrainDiesKeeps
<1> QED
  BY <1>1, <1>2, <1>3, <1>4, <1>5, <1>6, <1>7, <1>8 DEF EmbeddingsNext

\* At the start every node is on the queue, once.
LEMMA AllQueued ==
    /\ SetToSeq(Texts) \in Seq(Texts) /\ Distinct(SetToSeq(Texts)) /\ ToSet(SetToSeq(Texts)) = Texts
<1> DEFINE n == Cardinality(Texts)
           Lists(f) == f \in [1..n -> Texts] /\ IsInjective(f)
<1>1. IsFiniteSet(Texts)
  BY EmbeddingsAssumption
<1>2. n \in Nat
  BY <1>1, FS_CardinalityType
<1>3. PICK b : b \in Bijection(1..n, Texts)
  BY <1>1, FS_CardinalityType DEF ExistsBijection
<1>4. b \in [1..n -> Texts] /\ \A i, j \in 1..n : b[i] = b[j] => i = j
  BY <1>3 DEF Bijection, Injection, IsInjective
<1>5. Lists(b)
  BY <1>4 DEF IsInjective
<1>6. SetToSeq(Texts) = CHOOSE f : Lists(f)
  BY DEF SetToSeq
<1>7. PICK s : s = SetToSeq(Texts)
  OBVIOUS
<1>8. s \in [1..n -> Texts] /\ IsInjective(s)
  BY <1>5, <1>6, <1>7
<1>9. /\ s \in Seq(Texts) /\ DOMAIN s = 1..n /\ \A i, j \in 1..n : s[i] = s[j] => i = j
  BY <1>2, <1>8 DEF IsInjective
<1>10. \A x \in Texts : \E i \in 1..n : s[i] = x
  <2>1. IsFiniteSet(1..n) /\ Cardinality(1..n) = n
    BY <1>2, FS_Interval
  <2>2. s \in Injection(1..n, Texts)
    BY <1>8 DEF Injection
  <2>3. s \in Surjection(1..n, Texts)
    BY <1>1, <2>1, <2>2, FS_Injection
  <2> QED
    BY <2>3 DEF Surjection
<1>11. ToSet(s) = Texts
  BY <1>8, <1>9, <1>10 DEF ToSet
<1> QED
  BY <1>7, <1>9, <1>11 DEF Distinct

\* Every node is queued at first.
LEMMA EmbeddingsStarts == EmbeddingsInit => EmbeddingsInv
<1> SUFFICES ASSUME EmbeddingsInit PROVE EmbeddingsInv
  OBVIOUS
<1>1. /\ text = [n \in Texts |-> 1] /\ vector = [n \in Texts |-> NoText] /\ rejected = [n \in Texts |-> NoText]
      /\ writer = [w \in Writers |-> Resting] /\ drainer = [d \in Drainers |-> Resting] /\ unrefreshed = {}
  BY DEF EmbeddingsInit
<1>2. MaxText \in Nat \ {0} /\ 1 \in TextVersions /\ NoText \in TextVersions
  BY EmbeddingsAssumption DEF TextVersions, NoText
<1>3. embedQueue \in Seq(Texts) /\ Distinct(embedQueue) /\ ToSet(embedQueue) = Texts
  BY AllQueued DEF EmbeddingsInit
<1>4. EmbeddingsFit
  BY <1>1, <1>2, <1>3 DEF EmbeddingsFit, VersionRows, WriterRows, DrainerRows
<1>5. StaleIsQueued
  BY <1>3 DEF StaleIsQueued, OnQueue
<1>6. \A w \in Writers : Writing(w)
  BY <1>1 DEF Writing, Resting, Gone
<1>7. \A d \in Drainers : Draining(d) /\ Calling(d)
  BY <1>1 DEF Draining, Calling, Resting
<1> QED
  BY <1>4, <1>5, <1>6, <1>7 DEF EmbeddingsInv

\* The invariant of deferred embedding holds of every behaviour, however many processes
\* edit, retire and drain (vectors.py).
THEOREM EmbeddingsInvariant == EmbeddingsSpec => []EmbeddingsInv
<1>1. EmbeddingsInit => EmbeddingsInv
  BY EmbeddingsStarts
<1>2. EmbeddingsInv /\ [EmbeddingsNext]_embeddingVars => EmbeddingsInv'
  BY EmbeddingsKeep
<1> QED
  BY <1>1, <1>2, PTL DEF EmbeddingsSpec

\* A node whose vector is not of its text is queued, in quarantine with that text, or
\* about to be queued, unless one of the named writes has cost its refresh, however many
\* processes edit, retire and drain (vectors.py: drain_embedding_queue, enqueue_embedding,
\* delete_embedding).
THEOREM RefreshesKept == EmbeddingsSpec => []StaleIsQueued
<1>1. EmbeddingsInv => StaleIsQueued
  BY DEF EmbeddingsInv
<1> QED
  BY <1>1, EmbeddingsInvariant, PTL

\* Texts, vectors and quarantine keep their shape, and the queue has no node twice,
\* whatever copies of it are written back (vectors.py).
THEOREM EmbeddingsTypeCorrect == EmbeddingsSpec => []EmbeddingsTypeOK
<1>1. EmbeddingsInv => EmbeddingsTypeOK
  BY DEF EmbeddingsInv, EmbeddingsFit, EmbeddingsTypeOK, VersionRows, Distinct, IsInjective
<1> QED
  BY <1>1, EmbeddingsInvariant, PTL

-----------------------------------------------------------------------------
(* Alerts.  The notices shown of an alert are counted against the periods  *)
(* of the cooldown that have passed since its first, the claim under way,  *)
(* and the claims that have lapsed with their process.                     *)

Submitting == {"submit", "accepted", "failed"}

CheckerRows(t) ==
    {AtRest, [at |-> "dead"]}
    \cup [at : {"observed"}, now : 0..t, found : SUBSET Problems]
    \cup [at : {"notify"}, now : 0..t, todo : SUBSET AlertIds]
    \cup [at : Submitting, now : 0..t, todo : SUBSET AlertIds, alert : AlertIds]

\* Everything has its shape; two alerts for one problem are not open at a time.
AlertsFit ==
    /\ clock \in 0..MaxClock
    /\ lasting \in [Problems -> 0..Sustained]
    /\ alerts \in Seq(AlertRows) /\ Len(alerts) <= MaxAlerts
    /\ checker \in [Checkers -> CheckerRows(clock)]
    /\ banner \in [AlertIds -> Nat]
    /\ mourned \in [dead : SUBSET Checkers, lapsed : SUBSET Checkers]
    /\ mourned.lapsed \subseteq mourned.dead /\ IsFiniteSet(mourned.lapsed)
    /\ \A p \in mourned.dead : checker[p].at = "dead"

OneOpen ==
    \A a, b \in DOMAIN alerts :
        OpenAlert(a) /\ OpenAlert(b) /\ alerts[a].problem = alerts[b].problem => a = b

\* The periods of the cooldown that had begun when the alert was last recorded.
Periods(row) == IF row.accepted = Never THEN 0 ELSE 1 + row.accepted \div Cooldown

\* An alert was shown once in each of them, once more under a claim, and once
\* for each claim that was lost; a claim that holds is for a new period.
ShownAt(a) ==
    /\ alerts[a].accepted <= clock
    /\ AlertClaimed(a) => Periods(alerts[a]) <= clock \div Cooldown
    /\ banner[a] <= Periods(alerts[a]) + (IF AlertClaimed(a) THEN 1 ELSE 0) + Cardinality(mourned.lapsed)

\* Who submits has the claim, for a period that nothing was recorded for, and has
\* not shown the alert until its transport accepts it.
HasClaim(p) ==
    checker[p].at \in Submitting =>
        LET a == checker[p].alert IN
        /\ a \in DOMAIN alerts /\ alerts[a].claim = p
        /\ Periods(alerts[a]) <= checker[p].now \div Cooldown
        /\ checker[p].at # "accepted" => banner[a] <= Periods(alerts[a]) + Cardinality(mourned.lapsed)

\* Alerts that are to be shown are in the inbox.
InInbox(p) == checker[p].at \in {"notify"} \cup Submitting => checker[p].todo \subseteq DOMAIN alerts

AlertsInv ==
    /\ AlertsFit /\ OneOpen
    /\ \A a \in DOMAIN alerts : ShownAt(a)
    /\ \A a \in AlertIds \ DOMAIN alerts : banner[a] = 0
    /\ \A p \in Checkers : InInbox(p) /\ HasClaim(p)

-----------------------------------------------------------------------------
\* Periods of the cooldown.
LEMMA Quotients ==
    ASSUME NEW c \in Nat \ {0}, NEW a \in Nat
    PROVE  /\ a \div c \in Nat
           /\ \A b \in Nat : a <= b => a \div c <= b \div c
           /\ \A b \in Nat : a <= b - c => 1 + a \div c <= b \div c
<1>1. ASSUME NEW b \in Nat, a <= b PROVE a \div c <= b \div c
  BY <1>1
<1>2. ASSUME NEW b \in Nat, a <= b - c PROVE 1 + a \div c <= b \div c
  BY <1>2
<1> QED
  BY <1>1, <1>2

\* A finite set in some order.
LEMMA InOrder ==
    ASSUME NEW S, IsFiniteSet(S)
    PROVE  /\ SetToSeq(S) \in [1..Cardinality(S) -> S] /\ Cardinality(S) \in Nat
           /\ \A i, j \in 1..Cardinality(S) : SetToSeq(S)[i] = SetToSeq(S)[j] => i = j
<1>1. Cardinality(S) \in Nat /\ ExistsBijection(1..Cardinality(S), S)
  BY FS_CardinalityType
<1>2. \E f \in [1..Cardinality(S) -> S] : IsInjective(f)
  BY <1>1 DEF ExistsBijection, Bijection, Injection, IsInjective
<1>3. SetToSeq(S) \in [1..Cardinality(S) -> S] /\ IsInjective(SetToSeq(S))
  BY <1>2 DEF SetToSeq
<1> QED
  BY <1>1, <1>3 DEF IsInjective

\* An alert has its fields.
LEMMA AlertTyped ==
    ASSUME AlertsFit
    PROVE  /\ DOMAIN alerts = 1..Len(alerts) /\ DOMAIN alerts \subseteq AlertIds
           /\ Len(alerts) \in Nat /\ clock \in Nat /\ Cooldown \in Nat \ {0}
           /\ Cardinality(mourned.lapsed) \in Nat
           /\ \A a \in DOMAIN alerts :
                /\ alerts[a] \in AlertRows /\ banner[a] \in Nat
                /\ alerts[a].accepted = Never \/ alerts[a].accepted \in Nat
<1>1. DOMAIN alerts = 1..Len(alerts) /\ Len(alerts) \in Nat /\ alerts \in [1..Len(alerts) -> AlertRows]
  BY LenProperties DEF AlertsFit
<1>2. DOMAIN alerts \subseteq AlertIds
  BY <1>1, AlertsAssumption DEF AlertsFit, AlertIds
<1>3. Cardinality(mourned.lapsed) \in Nat
  BY FS_CardinalityType DEF AlertsFit
<1>4. ASSUME NEW a \in DOMAIN alerts
      PROVE  alerts[a] \in AlertRows /\ banner[a] \in Nat /\ (alerts[a].accepted = Never \/ alerts[a].accepted \in Nat)
  <2>1. alerts[a] \in AlertRows /\ banner[a] \in Nat
    BY <1>1, <1>2 DEF AlertsFit
  <2> QED
    BY <2>1 DEF AlertRows
<1> QED
  BY <1>1, <1>2, <1>3, <1>4, AlertsAssumption DEF AlertsFit

\* The periods of an alert are counted by numbers.
LEMMA PeriodsTyped ==
    ASSUME NEW row \in AlertRows
    PROVE  Periods(row) \in Nat
<1>1. row.accepted = Never \/ row.accepted \in Nat
  BY DEF AlertRows
<1> QED
  BY <1>1, Quotients, AlertsAssumption DEF Periods

\* The row of an alert is changed, the others stay.
LEMMA OneAlert ==
    ASSUME AlertsFit, NEW a \in DOMAIN alerts, NEW row \in AlertRows,
           alerts' = [alerts EXCEPT ![a] = row]
    PROVE  /\ alerts' \in Seq(AlertRows) /\ Len(alerts') = Len(alerts) /\ DOMAIN alerts' = DOMAIN alerts
           /\ alerts'[a] = row /\ \A b \in DOMAIN alerts \ {a} : alerts'[b] = alerts[b]
<1>1. DOMAIN alerts = 1..Len(alerts) /\ alerts \in Seq(AlertRows)
  BY AlertTyped DEF AlertsFit
<1>2. /\ alerts' \in Seq(AlertRows) /\ Len(alerts') = Len(alerts)
      /\ \A b \in 1..Len(alerts) : alerts'[b] = IF b = a THEN row ELSE alerts[b]
  BY <1>1, ExceptSeq
<1> QED
  BY <1>1, <1>2, LenProperties

\* One checker goes on, the others stay where they are.
LEMMA OneChecker ==
    ASSUME AlertsFit, NEW p \in Checkers, NEW row \in CheckerRows(clock),
           checker' = [checker EXCEPT ![p] = row]
    PROVE  /\ checker' \in [Checkers -> CheckerRows(clock)] /\ checker'[p] = row
           /\ \A q \in Checkers \ {p} : checker'[q] = checker[q]
BY DEF AlertsFit
\* What a checker has in each place.
LEMMA RowFacts ==
    ASSUME NEW t \in Nat, NEW row \in CheckerRows(t)
    PROVE  /\ row.at \in {"rest", "observed", "notify", "dead"} \cup Submitting
           /\ row.at = "observed" => row.now \in 0..t /\ row.found \in SUBSET Problems
           /\ row.at = "notify" => row.now \in 0..t /\ row.todo \in SUBSET AlertIds
           /\ row.at \in Submitting =>
                row.now \in 0..t /\ row.todo \in SUBSET AlertIds /\ row.alert \in AlertIds
BY DEF CheckerRows, AtRest, Submitting

\* Time and other checkers do not matter to who keeps the place.
LEMMA RowsLast ==
    ASSUME NEW t \in Nat
    PROVE  CheckerRows(t) \subseteq CheckerRows(t + 1)
<1>1. 0..t \subseteq 0..(t + 1)
  OBVIOUS
<1> QED
  BY <1>1 DEF CheckerRows

\* A step of a checker that neither claims nor submits.
LEMMA MovesOn ==
    ASSUME AlertsInv, NEW p \in Checkers, NEW row \in CheckerRows(clock),
           p \notin mourned.dead, checker' = [checker EXCEPT ![p] = row],
           UNCHANGED <<clock, lasting, alerts, banner, mourned>>,
           row.at \in {"notify"} \cup Submitting => row.todo \subseteq DOMAIN alerts,
           row.at \in Submitting => row.at = "failed" /\ checker[p].at = "submit"
                                    /\ row.alert = checker[p].alert /\ row.now = checker[p].now
    PROVE  AlertsInv'
<1>1. AlertsFit
  BY DEF AlertsInv
<1>2. /\ checker' \in [Checkers -> CheckerRows(clock)] /\ checker'[p] = row
      /\ \A q \in Checkers \ {p} : checker'[q] = checker[q]
  BY <1>1, OneChecker
<1>3. AlertsFit'
  BY <1>1, <1>2 DEF AlertsFit
<1>4. OneOpen'
  BY DEF AlertsInv, OneOpen, OpenAlert
<1>5. \A a \in DOMAIN alerts' : ShownAt(a)'
  BY DEF AlertsInv, ShownAt, AlertClaimed
<1>6. \A a \in AlertIds \ DOMAIN alerts' : banner'[a] = 0
  BY DEF AlertsInv
<1>7. ASSUME NEW q \in Checkers PROVE InInbox(q)' /\ HasClaim(q)'
  <2>1. InInbox(q) /\ HasClaim(q)
    BY DEF AlertsInv
  <2>2. CASE q # p
    BY <1>2, <2>1, <2>2 DEF InInbox, HasClaim
  <2>3. CASE q = p
    BY <1>2, <2>1, <2>3 DEF InInbox, HasClaim, Submitting
  <2> QED
    BY <2>2, <2>3
<1> QED
  BY <1>3, <1>4, <1>5, <1>6, <1>7 DEF AlertsInv

\* The clock moves on.
LEMMA AlertsTick ==
    ASSUME AlertsInv, Tick
    PROVE  AlertsInv'
<1>1. AlertsFit /\ clock' = clock + 1 /\ clock' \in 0..MaxClock /\ UNCHANGED <<lasting, alerts, checker, banner, mourned>>
  BY AlertsAssumption DEF AlertsInv, AlertsFit, Tick
<1>2. clock \in Nat /\ Cooldown \in Nat \ {0}
  BY <1>1, AlertTyped
<1>3. AlertsFit'
  BY <1>1, <1>2, RowsLast DEF AlertsFit
<1>4. OneOpen'
  BY <1>1 DEF AlertsInv, OneOpen, OpenAlert
<1>5. ASSUME NEW a \in DOMAIN alerts' PROVE ShownAt(a)'
  <2>1. ShownAt(a) /\ a \in DOMAIN alerts
    BY <1>1, <1>5 DEF AlertsInv
  <2>2. clock \div Cooldown <= clock' \div Cooldown /\ clock \div Cooldown \in Nat /\ clock' \div Cooldown \in Nat
    BY <1>1, <1>2, Quotients
  <2>3. Periods(alerts[a]) \in Nat /\ (alerts[a].accepted = Never \/ alerts[a].accepted \in Nat)
    BY <1>1, <2>1, AlertTyped, PeriodsTyped
  <2>4. AlertClaimed(a)' <=> AlertClaimed(a)
    BY <1>1 DEF AlertClaimed
  <2>5. alerts'[a].accepted <= clock'
    BY <1>1, <1>2, <2>1, <2>3 DEF ShownAt, Never
  <2>6. AlertClaimed(a)' => Periods(alerts'[a]) <= clock' \div Cooldown
    BY <1>1, <2>1, <2>2, <2>3, <2>4 DEF ShownAt
  <2>7. banner'[a] <= Periods(alerts'[a]) + (IF AlertClaimed(a)' THEN 1 ELSE 0) + Cardinality(mourned'.lapsed)
    BY <1>1, <2>1, <2>4 DEF ShownAt
  <2> QED
    BY <2>5, <2>6, <2>7 DEF ShownAt
<1>6. \A a \in AlertIds \ DOMAIN alerts' : banner'[a] = 0
  BY <1>1 DEF AlertsInv
<1>7. \A q \in Checkers : InInbox(q)' /\ HasClaim(q)'
  BY <1>1 DEF AlertsInv, InInbox, HasClaim
<1> QED
  BY <1>3, <1>4, <1>5, <1>6, <1>7 DEF AlertsInv

\* The steps of a checker between its submissions, and a submission that fails.
LEMMA AlertsMoves ==
    ASSUME AlertsInv, NEW p \in Checkers,
           \/ \E found \in SUBSET Problems : Observe(p, found)
           \/ \E a \in AlertIds : LeaveAlert(p, a)
           \/ Fails(p) \/ Rest(p)
    PROVE  AlertsInv'
<1>1. AlertsFit /\ clock \in Nat /\ clock \in 0..clock
  BY AlertTyped DEF AlertsInv
<1>2. checker[p] \in CheckerRows(clock) /\ (p \in mourned.dead => checker[p].at = "dead")
  BY <1>1 DEF AlertsFit
<1>3. CASE \E found \in SUBSET Problems : Observe(p, found)
  <2>1. PICK found \in SUBSET Problems : Observe(p, found)
    BY <1>3
  <2> DEFINE row == [at |-> "observed", now |-> clock, found |-> found]
  <2>2. row \in CheckerRows(clock) /\ row.at = "observed"
    BY <1>1 DEF CheckerRows
  <2>3. checker[p].at # "dead" /\ checker' = [checker EXCEPT ![p] = row] /\ UNCHANGED <<clock, lasting, alerts, banner, mourned>>
    BY <2>1 DEF Observe, AtRest
  <2> HIDE DEF row
  <2> QED
    BY <1>2, <2>2, <2>3, MovesOn DEF Submitting
<1>4. CASE \E a \in AlertIds : LeaveAlert(p, a)
  <2>1. PICK a \in AlertIds : LeaveAlert(p, a)
    BY <1>4
  <2> DEFINE row == [checker[p] EXCEPT !.todo = @ \ {a}]
  <2>2. checker[p] \in [at : {"notify"}, now : 0..clock, todo : SUBSET AlertIds]
    BY <1>2, <2>1 DEF CheckerRows, LeaveAlert, AtRest, Submitting
  <2>3. row \in [at : {"notify"}, now : 0..clock, todo : SUBSET AlertIds]
    BY <2>2
  <2>4. row \in CheckerRows(clock) /\ row.at = "notify" /\ row.todo \subseteq DOMAIN alerts
    BY <2>2, <2>3 DEF CheckerRows, AlertsInv, InInbox
  <2>5. checker[p].at # "dead" /\ checker' = [checker EXCEPT ![p] = row] /\ UNCHANGED <<clock, lasting, alerts, banner, mourned>>
    BY <2>1 DEF LeaveAlert
  <2> HIDE DEF row
  <2> QED
    BY <1>2, <2>4, <2>5, MovesOn DEF Submitting
<1>5. CASE Fails(p)
  <2> DEFINE row == [checker[p] EXCEPT !.at = "failed"]
  <2>1. checker[p] \in [at : Submitting, now : 0..clock, todo : SUBSET AlertIds, alert : AlertIds]
    BY <1>2, <1>5 DEF CheckerRows, Fails, AtRest
  <2>2. row \in [at : Submitting, now : 0..clock, todo : SUBSET AlertIds, alert : AlertIds]
    BY <2>1 DEF Submitting
  <2>3. row \in CheckerRows(clock) /\ row.alert = checker[p].alert /\ row.now = checker[p].now /\ row.at = "failed"
        /\ row.todo \subseteq DOMAIN alerts
    BY <2>1, <2>2 DEF CheckerRows, AlertsInv, InInbox
  <2>4. checker[p].at = "submit" /\ checker' = [checker EXCEPT ![p] = row] /\ UNCHANGED <<clock, lasting, alerts, banner, mourned>>
    BY <1>5 DEF Fails
  <2> HIDE DEF row
  <2> QED
    BY <1>2, <2>3, <2>4, MovesOn
<1>6. CASE Rest(p)
  <2>1. AtRest \in CheckerRows(clock) /\ AtRest.at = "rest"
    BY DEF CheckerRows, AtRest
  <2>2. checker[p].at # "dead" /\ checker' = [checker EXCEPT ![p] = AtRest] /\ UNCHANGED <<clock, lasting, alerts, banner, mourned>>
    BY <1>6 DEF Rest
  <2> QED
    BY <1>2, <2>1, <2>2, MovesOn DEF Submitting
<1> QED
  BY <1>3, <1>4, <1>5, <1>6
\* A submission: what is shown is counted under the claim.
LEMMA AlertsSubmit ==
    ASSUME AlertsInv, NEW p \in Checkers, Submit(p)
    PROVE  AlertsInv'
<1> DEFINE a == checker[p].alert
           row == [checker[p] EXCEPT !.at = "accepted"]
<1>1. AlertsFit /\ HasClaim(p) /\ checker[p].at = "submit"
  BY DEF AlertsInv, Submit
<1>2. /\ checker[p] \in [at : Submitting, now : 0..clock, todo : SUBSET AlertIds, alert : AlertIds]
      /\ p \notin mourned.dead /\ p \notin mourned.lapsed
  <2>1. checker[p] \in CheckerRows(clock) /\ p \notin mourned.dead
    BY <1>1 DEF AlertsFit
  <2> QED
    BY <1>1, <2>1 DEF CheckerRows, AtRest, AlertsFit
<1>3. row \in [at : Submitting, now : 0..clock, todo : SUBSET AlertIds, alert : AlertIds]
  BY <1>2 DEF Submitting
<1>4. row \in CheckerRows(clock) /\ row.at = "accepted" /\ row.alert = a /\ row.now = checker[p].now
      /\ row.todo = checker[p].todo
  BY <1>2, <1>3 DEF CheckerRows
<1>5. /\ a \in DOMAIN alerts /\ alerts[a].claim = p /\ a \in AlertIds
      /\ Periods(alerts[a]) <= checker[p].now \div Cooldown
      /\ banner[a] <= Periods(alerts[a]) + Cardinality(mourned.lapsed)
  BY <1>1, <1>2 DEF InInbox, HasClaim, Submitting
<1>6. AlertClaimed(a)
  BY <1>2, <1>5, AlertsAssumption DEF AlertClaimed, Free
<1>7. UNCHANGED <<clock, lasting, alerts, mourned>> /\ checker' = [checker EXCEPT ![p] = row]
  BY DEF Submit
<1>8. banner' = [banner EXCEPT ![a] = banner[a] + 1]
  BY DEF Submit
<1> HIDE DEF row
<1>9. /\ checker' \in [Checkers -> CheckerRows(clock)] /\ checker'[p] = row
      /\ \A q \in Checkers \ {p} : checker'[q] = checker[q]
  BY <1>1, <1>4, <1>7, OneChecker
<1> HIDE DEF a
<1>10. /\ banner' \in [AlertIds -> Nat] /\ banner'[a] = banner[a] + 1 /\ banner[a] \in Nat
       /\ \A b \in AlertIds \ {a} : banner'[b] = banner[b]
  BY <1>1, <1>5, <1>8 DEF AlertsFit
<1>11. AlertsFit'
  <2>1. \A q \in mourned'.dead : checker'[q].at = "dead"
    BY <1>1, <1>2, <1>7, <1>9 DEF AlertsFit
  <2> QED
    BY <1>1, <1>7, <1>9, <1>10, <2>1 DEF AlertsFit
<1>12. OneOpen'
  BY <1>7 DEF AlertsInv, OneOpen, OpenAlert
<1>13. ASSUME NEW b \in DOMAIN alerts' PROVE ShownAt(b)'
  <2>1. ShownAt(b) /\ b \in DOMAIN alerts /\ b \in AlertIds /\ (AlertClaimed(b)' <=> AlertClaimed(b))
    BY <1>1, <1>7, <1>13, AlertTyped DEF AlertsInv, AlertClaimed
  <2>2. CASE b # a
    BY <1>7, <1>10, <2>1, <2>2 DEF ShownAt
  <2>3. CASE b = a
    <3>1. Periods(alerts[a]) \in Nat /\ Cardinality(mourned.lapsed) \in Nat
      BY <1>1, <1>5, AlertTyped, PeriodsTyped
    <3>2. banner'[b] <= Periods(alerts[b]) + 1 + Cardinality(mourned.lapsed)
      BY <1>5, <1>10, <2>3, <3>1
    <3> QED
      BY <1>6, <1>7, <2>1, <2>3, <3>2 DEF ShownAt
  <2> QED
    BY <2>2, <2>3
<1>14. \A b \in AlertIds \ DOMAIN alerts' : banner'[b] = 0
  BY <1>5, <1>7, <1>10 DEF AlertsInv
<1>15. ASSUME NEW q \in Checkers PROVE InInbox(q)' /\ HasClaim(q)'
  <2>1. InInbox(q) /\ HasClaim(q)
    BY DEF AlertsInv
  <2>2. CASE q # p
    <3>1. checker[q].at \in Submitting => checker[q].alert # a
      BY <1>5, <2>1, <2>2 DEF InInbox, HasClaim
    <3>2. checker[q].at \in Submitting => checker[q].alert \in AlertIds
      BY <1>1, AlertTyped, <2>1 DEF InInbox, HasClaim
    <3> QED
      BY <1>7, <1>9, <1>10, <2>1, <2>2, <3>1, <3>2 DEF InInbox, HasClaim
  <2>3. CASE q = p
    BY <1>1, <1>4, <1>5, <1>7, <1>9, <2>1, <2>3 DEF InInbox, HasClaim, Submitting
  <2> QED
    BY <2>2, <2>3
<1> QED
  BY <1>11, <1>12, <1>13, <1>14, <1>15 DEF AlertsInv

\* A claim: what was recorded lies a cooldown back.
LEMMA AlertsClaim ==
    ASSUME AlertsInv, NEW p \in Checkers, NEW a \in AlertIds, ClaimAlert(p, a)
    PROVE  AlertsInv'
<1> DEFINE row == [at |-> "submit", now |-> checker[p].now, todo |-> checker[p].todo \ {a}, alert |-> a]
           mark == [alerts[a] EXCEPT !.claim = p]
<1>1. AlertsFit /\ checker[p].at = "notify" /\ Claimable(p, a)
  BY DEF AlertsInv, ClaimAlert
<1>2. checker[p] \in CheckerRows(clock) /\ p \notin mourned.dead /\ p \notin mourned.lapsed
  BY <1>1 DEF AlertsFit
<1>3. checker[p].now \in 0..clock /\ checker[p].todo \in SUBSET AlertIds
  BY <1>1, <1>2, AlertTyped, RowFacts
<1>4. row \in [at : Submitting, now : 0..clock, todo : SUBSET AlertIds, alert : AlertIds]
  BY <1>3 DEF Submitting
<1>5. row \in CheckerRows(clock) /\ row.at = "submit" /\ row.alert = a /\ row.now = checker[p].now
      /\ row.todo \subseteq checker[p].todo
  BY <1>4 DEF CheckerRows
<1>6. a \in DOMAIN alerts /\ checker[p].todo \subseteq DOMAIN alerts
  BY DEF AlertsInv, InInbox, ClaimAlert
<1>7. alerts[a] \in AlertRows /\ ShownAt(a)
  BY <1>1, <1>6, AlertTyped DEF AlertsInv
<1>8. mark \in AlertRows /\ mark.accepted = alerts[a].accepted /\ mark.claim = p
      /\ mark.problem = alerts[a].problem /\ mark.resolved = alerts[a].resolved
  BY <1>7 DEF AlertRows
<1>9. UNCHANGED <<clock, lasting, banner, mourned>> /\ checker' = [checker EXCEPT ![p] = row]
      /\ alerts' = [alerts EXCEPT ![a] = mark]
  BY DEF ClaimAlert
<1> HIDE DEF row, mark
<1>10. /\ checker' \in [Checkers -> CheckerRows(clock)] /\ checker'[p] = row
       /\ \A q \in Checkers \ {p} : checker'[q] = checker[q]
  BY <1>1, <1>5, <1>9, OneChecker
<1>11. /\ alerts' \in Seq(AlertRows) /\ Len(alerts') = Len(alerts) /\ DOMAIN alerts' = DOMAIN alerts
       /\ alerts'[a] = mark /\ \A b \in DOMAIN alerts \ {a} : alerts'[b] = alerts[b]
  BY <1>1, <1>6, <1>8, <1>9, OneAlert
<1>12. Periods(alerts'[a]) = Periods(alerts[a]) /\ Periods(alerts[a]) \in Nat
  BY <1>7, <1>8, <1>11, PeriodsTyped DEF Periods
<1>13. Periods(alerts[a]) <= checker[p].now \div Cooldown /\ checker[p].now \div Cooldown <= clock \div Cooldown
       /\ checker[p].now \div Cooldown \in Nat /\ clock \div Cooldown \in Nat
  <2>1. clock \in Nat /\ checker[p].now \in Nat /\ checker[p].now <= clock /\ Cooldown \in Nat \ {0}
    BY <1>1, <1>3, AlertTyped
  <2>2. alerts[a].accepted = Never \/ (alerts[a].accepted \in Nat /\ alerts[a].accepted <= checker[p].now - Cooldown)
    BY <1>1, <1>6, AlertTyped DEF Claimable, Due
  <2> QED
    BY <2>1, <2>2, Quotients DEF Periods
<1>14. ~AlertClaimed(a) /\ AlertClaimed(a)'
  BY <1>1, <1>2, <1>8, <1>9, <1>11, AlertsAssumption DEF Claimable, AlertClaimed, Free
<1>15. Cardinality(mourned.lapsed) \in Nat /\ banner[a] \in Nat
  BY <1>1, <1>6, AlertTyped
<1>16. banner[a] <= Periods(alerts[a]) + Cardinality(mourned.lapsed)
  BY <1>7, <1>12, <1>14, <1>15 DEF ShownAt
<1>17. AlertsFit'
  <2>1. \A q \in mourned'.dead : checker'[q].at = "dead"
    BY <1>1, <1>2, <1>9, <1>10 DEF AlertsFit
  <2> QED
    BY <1>1, <1>9, <1>10, <1>11, <2>1 DEF AlertsFit
<1>18. OneOpen'
  BY <1>8, <1>11 DEF AlertsInv, OneOpen, OpenAlert
<1>19. ASSUME NEW b \in DOMAIN alerts' PROVE ShownAt(b)'
  <2>1. CASE b # a
    BY <1>9, <1>11, <2>1 DEF AlertsInv, ShownAt, AlertClaimed
  <2>2. CASE b = a
    <3>1. alerts'[a].accepted <= clock'
      BY <1>7, <1>8, <1>9, <1>11 DEF ShownAt
    <3>2. Periods(alerts'[a]) <= clock' \div Cooldown
      BY <1>9, <1>12, <1>13
    <3>3. banner'[a] <= Periods(alerts'[a]) + 1 + Cardinality(mourned'.lapsed)
      BY <1>9, <1>12, <1>15, <1>16
    <3> QED
      BY <1>14, <2>2, <3>1, <3>2, <3>3 DEF ShownAt
  <2> QED
    BY <2>1, <2>2
<1>20. \A b \in AlertIds \ DOMAIN alerts' : banner'[b] = 0
  BY <1>9, <1>11 DEF AlertsInv
<1>21. ASSUME NEW q \in Checkers PROVE InInbox(q)' /\ HasClaim(q)'
  <2>1. InInbox(q) /\ HasClaim(q)
    BY DEF AlertsInv
  <2>2. CASE q # p
    <3>1. checker[q].at \in Submitting => checker[q].alert # a
      <4> SUFFICES ASSUME checker[q].at \in Submitting, checker[q].alert = a PROVE FALSE
        OBVIOUS
      <4>1. alerts[a].claim = q /\ q \notin mourned.dead
        BY <1>1, <2>1 DEF HasClaim, AlertsFit, Submitting
      <4>2. q \notin mourned.lapsed
        BY <1>1, <4>1 DEF AlertsFit
      <4> QED
        BY <1>14, <4>1, <4>2, AlertsAssumption DEF AlertClaimed, Free
    <3> QED
      BY <1>9, <1>10, <1>11, <2>1, <2>2, <3>1 DEF InInbox, HasClaim
  <2>3. CASE q = p
    BY <1>5, <1>6, <1>8, <1>9, <1>10, <1>11, <1>12, <1>13, <1>16, <2>3 DEF InInbox, HasClaim
  <2> QED
    BY <2>2, <2>3
<1> QED
  BY <1>17, <1>18, <1>19, <1>20, <1>21 DEF AlertsInv
\* The end of a submission: what was accepted counts for the period it began in.
LEMMA AlertsComplete ==
    ASSUME AlertsInv, NEW p \in Checkers, Complete(p)
    PROVE  AlertsInv'
<1> DEFINE a == checker[p].alert
           row == [at |-> "notify", now |-> checker[p].now, todo |-> checker[p].todo]
           done == IF checker[p].at = "accepted" THEN checker[p].now ELSE alerts[a].accepted
           half == [alerts[a] EXCEPT !.claim = Free]
           mark == [half EXCEPT !.accepted = done]
<1>1. AlertsFit /\ checker[p].at \in {"accepted", "failed"} /\ HasClaim(p) /\ InInbox(p)
  BY DEF AlertsInv, Complete
<1>2. /\ checker[p] \in [at : Submitting, now : 0..clock, todo : SUBSET AlertIds, alert : AlertIds]
      /\ p \notin mourned.dead /\ p \notin mourned.lapsed
  <2>1. checker[p] \in CheckerRows(clock) /\ p \notin mourned.dead
    BY <1>1 DEF AlertsFit
  <2> QED
    BY <1>1, <2>1 DEF CheckerRows, AtRest, AlertsFit
<1>3. row \in CheckerRows(clock) /\ row.at = "notify" /\ row.todo = checker[p].todo
  BY <1>2 DEF CheckerRows
<1>4. /\ a \in DOMAIN alerts /\ alerts[a].claim = p
      /\ Periods(alerts[a]) <= checker[p].now \div Cooldown
      /\ checker[p].at # "accepted" => banner[a] <= Periods(alerts[a]) + Cardinality(mourned.lapsed)
      /\ checker[p].todo \subseteq DOMAIN alerts
  BY <1>1 DEF HasClaim, InInbox, Submitting
<1>5. alerts[a] \in AlertRows /\ ShownAt(a) /\ banner[a] \in Nat /\ Cardinality(mourned.lapsed) \in Nat
  BY <1>1, <1>4, AlertTyped DEF AlertsInv
<1>6. clock \in 0..MaxClock /\ clock \in Nat /\ checker[p].now \in 0..clock /\ checker[p].now \in Nat
      /\ Cooldown \in Nat \ {0} /\ checker[p].now <= clock
  BY <1>1, <1>2, AlertTyped DEF AlertsFit
<1>7. done \in {Never} \cup (0..MaxClock) /\ done <= clock
  <2>1. MaxClock \in Nat /\ alerts[a].accepted \in {Never} \cup (0..MaxClock) /\ alerts[a].accepted <= clock
    BY <1>5, AlertsAssumption DEF AlertRows, ShownAt
  <2> QED
    BY <1>6, <2>1 DEF Never
<1>8. /\ mark \in AlertRows /\ mark.accepted = done /\ mark.claim = Free
      /\ mark.problem = alerts[a].problem /\ mark.resolved = alerts[a].resolved
  <2>1. half \in AlertRows /\ half.problem = alerts[a].problem /\ half.resolved = alerts[a].resolved /\ half.claim = Free
    BY <1>5 DEF AlertRows
  <2> HIDE DEF half, done
  <2> QED
    BY <1>7, <2>1 DEF AlertRows
<1>9. UNCHANGED <<clock, lasting, banner, mourned>> /\ checker' = [checker EXCEPT ![p] = row]
  BY DEF Complete
<1>10. alerts' = [alerts EXCEPT ![a] = mark]
  <2>1. alerts' = [alerts EXCEPT ![a].claim = Free,
                       ![a].accepted = IF checker[p].at = "accepted" THEN checker[p].now ELSE @]
    BY <1>4 DEF Complete
  <2>2. half.accepted = alerts[a].accepted
    BY <1>5 DEF AlertRows
  <2>3. half \in AlertRows
    BY <1>5 DEF AlertRows
  <2> QED
    BY <1>4, <2>1, <2>2, <2>3
<1>11. Periods(mark) \in Nat
  BY <1>8, PeriodsTyped
<1>12. banner[a] <= Periods(mark) + Cardinality(mourned.lapsed)
  <2>1. CASE checker[p].at = "accepted"
    <3>1. Periods(mark) = 1 + checker[p].now \div Cooldown
      BY <1>6, <1>8, <2>1 DEF Periods, Never
    <3>2. checker[p].now \div Cooldown \in Nat /\ Periods(alerts[a]) \in Nat
      BY <1>5, <1>6, Quotients, PeriodsTyped
    <3>3. banner[a] <= Periods(alerts[a]) + 1 + Cardinality(mourned.lapsed)
      BY <1>5, <3>2 DEF ShownAt
    <3> QED
      BY <1>4, <1>5, <3>1, <3>2, <3>3
  <2>2. CASE checker[p].at # "accepted"
    <3>1. Periods(mark) = Periods(alerts[a])
      BY <1>8, <2>2 DEF Periods
    <3> QED
      BY <1>4, <2>2, <3>1
  <2> QED
    BY <2>1, <2>2
<1> HIDE DEF row, mark, done, half
<1>13. /\ checker' \in [Checkers -> CheckerRows(clock)] /\ checker'[p] = row
       /\ \A q \in Checkers \ {p} : checker'[q] = checker[q]
  BY <1>1, <1>3, <1>9, OneChecker
<1> HIDE DEF a
<1>14. /\ alerts' \in Seq(AlertRows) /\ Len(alerts') = Len(alerts) /\ DOMAIN alerts' = DOMAIN alerts
       /\ alerts'[a] = mark /\ \A b \in DOMAIN alerts \ {a} : alerts'[b] = alerts[b]
  BY <1>1, <1>4, <1>8, <1>10, OneAlert
<1>15. AlertsFit'
  <2>1. \A q \in mourned'.dead : checker'[q].at = "dead"
    BY <1>1, <1>2, <1>9, <1>13 DEF AlertsFit
  <2> QED
    BY <1>1, <1>9, <1>13, <1>14, <2>1 DEF AlertsFit
<1>16. OneOpen'
  BY <1>8, <1>14 DEF AlertsInv, OneOpen, OpenAlert
<1>17. ASSUME NEW b \in DOMAIN alerts' PROVE ShownAt(b)'
  <2>1. CASE b # a
    BY <1>9, <1>14, <2>1 DEF AlertsInv, ShownAt, AlertClaimed
  <2>2. CASE b = a
    <3>1. ~AlertClaimed(b)'
      BY <1>8, <1>14, <2>2 DEF AlertClaimed
    <3>2. alerts'[a].accepted <= clock'
      BY <1>7, <1>8, <1>9, <1>14
    <3>3. banner'[a] <= Periods(alerts'[a]) + 0 + Cardinality(mourned'.lapsed)
      BY <1>5, <1>9, <1>11, <1>12, <1>14
    <3> QED
      BY <2>2, <3>1, <3>2, <3>3 DEF ShownAt
  <2> QED
    BY <2>1, <2>2
<1>18. \A b \in AlertIds \ DOMAIN alerts' : banner'[b] = 0
  BY <1>9, <1>14 DEF AlertsInv
<1>19. ASSUME NEW q \in Checkers PROVE InInbox(q)' /\ HasClaim(q)'
  <2>1. InInbox(q) /\ HasClaim(q)
    BY DEF AlertsInv
  <2>2. CASE q # p
    <3>1. checker[q].at \in Submitting => checker[q].alert # a
      BY <1>4, <2>1, <2>2 DEF HasClaim
    <3> QED
      BY <1>9, <1>13, <1>14, <2>1, <2>2, <3>1 DEF InInbox, HasClaim
  <2>3. CASE q = p
    BY <1>3, <1>4, <1>13, <1>14, <2>3 DEF InInbox, HasClaim, Submitting
  <2> QED
    BY <2>2, <2>3
<1> QED
  BY <1>15, <1>16, <1>17, <1>18, <1>19 DEF AlertsInv

\* A person acknowledges an alert.
LEMMA AlertsAcknowledge ==
    ASSUME AlertsInv, NEW a \in AlertIds, AcknowledgeAlert(a)
    PROVE  AlertsInv'
<1> DEFINE mark == [alerts[a] EXCEPT !.acked = TRUE]
<1>1. AlertsFit /\ a \in DOMAIN alerts
  BY DEF AlertsInv, AcknowledgeAlert
<1>2. alerts[a] \in AlertRows
  BY <1>1, AlertTyped
<1>3. /\ mark \in AlertRows /\ mark.accepted = alerts[a].accepted /\ mark.claim = alerts[a].claim
      /\ mark.problem = alerts[a].problem /\ mark.resolved = alerts[a].resolved
  BY <1>2 DEF AlertRows
<1>4. UNCHANGED <<clock, lasting, checker, banner, mourned>> /\ alerts' = [alerts EXCEPT ![a] = mark]
  BY DEF AcknowledgeAlert
<1> HIDE DEF mark
<1>5. /\ alerts' \in Seq(AlertRows) /\ Len(alerts') = Len(alerts) /\ DOMAIN alerts' = DOMAIN alerts
      /\ alerts'[a] = mark /\ \A b \in DOMAIN alerts \ {a} : alerts'[b] = alerts[b]
  BY <1>1, <1>3, <1>4, OneAlert
<1>6. \A b \in DOMAIN alerts :
         /\ alerts'[b].accepted = alerts[b].accepted /\ alerts'[b].claim = alerts[b].claim
         /\ alerts'[b].problem = alerts[b].problem /\ alerts'[b].resolved = alerts[b].resolved
         /\ Periods(alerts'[b]) = Periods(alerts[b])
  BY <1>3, <1>5 DEF Periods
<1>7. AlertsFit'
  BY <1>1, <1>4, <1>5 DEF AlertsFit
<1>8. OneOpen'
  BY <1>5, <1>6 DEF AlertsInv, OneOpen, OpenAlert
<1>9. \A b \in DOMAIN alerts' : ShownAt(b)'
  BY <1>4, <1>5, <1>6 DEF AlertsInv, ShownAt, AlertClaimed
<1>10. \A b \in AlertIds \ DOMAIN alerts' : banner'[b] = 0
  BY <1>4, <1>5 DEF AlertsInv
<1>11. \A q \in Checkers : InInbox(q)' /\ HasClaim(q)'
  BY <1>4, <1>5, <1>6 DEF AlertsInv, InInbox, HasClaim
<1> QED
  BY <1>7, <1>8, <1>9, <1>10, <1>11 DEF AlertsInv
\* A checker dies while it submits; its claim holds until it has run out.
LEMMA AlertsDeath ==
    ASSUME AlertsInv, NEW p \in Checkers, CheckerDies(p)
    PROVE  AlertsInv'
<1> DEFINE row == [at |-> "dead"]
<1>1. AlertsFit /\ UNCHANGED <<clock, lasting, alerts, banner>>
  BY DEF AlertsInv, CheckerDies
<1>2. row \in CheckerRows(clock) /\ row.at = "dead" /\ checker' = [checker EXCEPT ![p] = row]
  BY DEF CheckerRows, CheckerDies
<1> HIDE DEF row
<1>3. /\ checker' \in [Checkers -> CheckerRows(clock)] /\ checker'[p] = row
      /\ \A q \in Checkers \ {p} : checker'[q] = checker[q]
  BY <1>1, <1>2, OneChecker
<1>4. /\ mourned' \in [dead : SUBSET Checkers, lapsed : SUBSET Checkers]
      /\ mourned'.dead = mourned.dead \cup {p} /\ mourned'.lapsed = mourned.lapsed
  BY <1>1 DEF CheckerDies, AlertsFit
<1>5. IsFiniteSet(mourned'.lapsed)
  BY <1>1, <1>4, Zenon DEF AlertsFit
<1>6. AlertsFit'
  <2>1. \A q \in mourned'.dead : checker'[q].at = "dead"
    BY <1>1, <1>2, <1>3, <1>4 DEF AlertsFit
  <2> QED
    BY <1>1, <1>3, <1>4, <1>5, <2>1 DEF AlertsFit
<1>7. OneOpen'
  BY <1>1 DEF AlertsInv, OneOpen, OpenAlert
<1>8. \A b \in DOMAIN alerts' : ShownAt(b)'
  BY <1>1, <1>4 DEF AlertsInv, ShownAt, AlertClaimed
<1>9. \A b \in AlertIds \ DOMAIN alerts' : banner'[b] = 0
  BY <1>1 DEF AlertsInv
<1>10. \A q \in Checkers : InInbox(q)' /\ HasClaim(q)'
  BY <1>1, <1>2, <1>3, <1>4 DEF AlertsInv, InInbox, HasClaim, Submitting
<1> QED
  BY <1>6, <1>7, <1>8, <1>9, <1>10 DEF AlertsInv

\* The claim runs out: the alert may be shown once more, by somebody else.
LEMMA AlertsLapse ==
    ASSUME AlertsInv, NEW p \in Checkers, CheckerLapses(p)
    PROVE  AlertsInv'
<1>1. AlertsFit /\ UNCHANGED <<clock, lasting, alerts, checker, banner>> /\ p \in mourned.dead /\ p \notin mourned.lapsed
  BY DEF AlertsInv, CheckerLapses
<1>2. /\ mourned' \in [dead : SUBSET Checkers, lapsed : SUBSET Checkers]
      /\ mourned'.dead = mourned.dead /\ mourned'.lapsed = mourned.lapsed \cup {p}
  BY <1>1 DEF CheckerLapses, AlertsFit
<1>3. IsFiniteSet(mourned.lapsed \cup {p}) /\ Cardinality(mourned.lapsed \cup {p}) = Cardinality(mourned.lapsed) + 1
      /\ Cardinality(mourned.lapsed) \in Nat
  BY <1>1, FS_AddElement, AlertTyped DEF AlertsFit
<1>4. IsFiniteSet(mourned'.lapsed) /\ Cardinality(mourned'.lapsed) = Cardinality(mourned.lapsed) + 1
  BY <1>2, <1>3, Zenon
<1>5. AlertsFit'
  BY <1>1, <1>2, <1>4 DEF AlertsFit
<1>6. OneOpen'
  BY <1>1 DEF AlertsInv, OneOpen, OpenAlert
<1>7. ASSUME NEW b \in DOMAIN alerts' PROVE ShownAt(b)'
  <2>1. ShownAt(b) /\ b \in DOMAIN alerts
    BY <1>1, <1>7 DEF AlertsInv
  <2>2. Periods(alerts[b]) \in Nat /\ banner[b] \in Nat
    BY <1>1, <2>1, AlertTyped, PeriodsTyped
  <2>3. AlertClaimed(b)' => AlertClaimed(b)
    BY <1>1, <1>2 DEF AlertClaimed
  <2>4. CASE AlertClaimed(b)'
    <3>1. banner[b] <= Periods(alerts[b]) + 1 + Cardinality(mourned.lapsed)
      BY <2>1, <2>3, <2>4 DEF ShownAt
    <3>2. banner'[b] <= Periods(alerts'[b]) + 1 + Cardinality(mourned'.lapsed)
      BY <1>1, <1>3, <1>4, <2>2, <3>1
    <3> QED
      BY <1>1, <2>1, <2>3, <2>4, <3>2 DEF ShownAt
  <2>5. CASE ~AlertClaimed(b)'
    <3>1. banner[b] <= Periods(alerts[b]) + 1 + Cardinality(mourned.lapsed)
      BY <1>3, <2>1, <2>2 DEF ShownAt
    <3>2. banner'[b] <= Periods(alerts'[b]) + 0 + Cardinality(mourned'.lapsed)
      BY <1>1, <1>3, <1>4, <2>2, <3>1
    <3> QED
      BY <1>1, <2>1, <2>5, <3>2 DEF ShownAt
  <2> QED
    BY <2>4, <2>5
<1>8. \A b \in AlertIds \ DOMAIN alerts' : banner'[b] = 0
  BY <1>1 DEF AlertsInv
<1>9. ASSUME NEW q \in Checkers PROVE InInbox(q)' /\ HasClaim(q)'
  <2>1. InInbox(q) /\ HasClaim(q)
    BY DEF AlertsInv
  <2>2. ASSUME checker[q].at \in Submitting
        PROVE  /\ Periods(alerts[checker[q].alert]) \in Nat /\ banner[checker[q].alert] \in Nat
    BY <1>1, <2>1, <2>2, AlertTyped, PeriodsTyped DEF HasClaim
  <2> QED
    BY <1>1, <1>3, <1>4, <2>1, <2>2 DEF InInbox, HasClaim
<1> QED
  BY <1>5, <1>6, <1>7, <1>8, <1>9 DEF AlertsInv

\* What a check leaves of the inbox: the old alerts, some of them resolved now,
\* and one new alert for each problem that has lasted and has none open.
LEMMA Reconciled ==
    ASSUME AlertsInv, NEW p \in Checkers, NEW notify \in BOOLEAN, Reconcile(p, notify)
    PROVE  /\ lasting' \in [Problems -> 0..Sustained]
           /\ alerts' \in Seq(AlertRows) /\ Len(alerts') <= MaxAlerts
           /\ DOMAIN alerts \subseteq DOMAIN alerts'
           /\ \A a \in DOMAIN alerts :
                /\ alerts'[a].accepted = alerts[a].accepted /\ alerts'[a].claim = alerts[a].claim
                /\ alerts'[a].problem = alerts[a].problem
                /\ OpenAlert(a)' => OpenAlert(a)
           /\ \A a \in DOMAIN alerts' \ DOMAIN alerts :
                /\ alerts'[a].accepted = Never /\ alerts'[a].claim = Free
                /\ OpenFor(alerts'[a].problem) = {}
                /\ \A b \in DOMAIN alerts' \ DOMAIN alerts : alerts'[a].problem = alerts'[b].problem => a = b
<1>1. AlertsFit /\ checker[p].at = "observed"
  BY DEF AlertsInv, Reconcile
<1> DEFINE found == checker[p].found
           raised == {i \in found : Counted(found)[i] = Sustained /\ OpenFor(i) = {}}
           fresh == SetToSeq(raised)
           old == Resolved(found)
           new == [k \in DOMAIN fresh |-> NewAlert(fresh[k])]
<1>2. found \in SUBSET Problems
  <2>1. checker[p] \in CheckerRows(clock) /\ clock \in Nat
    BY <1>1, AlertTyped DEF AlertsFit
  <2> QED
    BY <1>1, <2>1, RowFacts
<1>3. /\ Len(alerts) + Len(fresh) <= MaxAlerts /\ lasting' = Counted(found) /\ alerts' = old \o new
  BY DEF Reconcile
<1>4. lasting' \in [Problems -> 0..Sustained]
  BY <1>1, <1>3, AlertsAssumption DEF Counted, AlertsFit
<1>5. IsFiniteSet(raised) /\ \A i \in raised : i \in Problems /\ OpenFor(i) = {}
  BY <1>2, AlertsAssumption, FS_Subset
<1> HIDE DEF raised
<1> DEFINE n == Cardinality(raised)
<1>6. fresh \in [1..n -> raised] /\ n \in Nat /\ \A i, j \in 1..n : fresh[i] = fresh[j] => i = j
  BY <1>5, InOrder
<1> HIDE DEF fresh, n
<1>7. DOMAIN fresh = 1..n /\ new = [k \in 1..n |-> NewAlert(fresh[k])]
  BY <1>6
<1>8. \A k \in 1..n : NewAlert(fresh[k]) \in AlertRows
  BY <1>5, <1>6 DEF NewAlert, AlertRows
<1>9. new \in Seq(AlertRows) /\ Len(new) = n /\ Len(fresh) = n
  <2>1. new \in [1..n -> AlertRows] /\ fresh \in [1..n -> raised]
    BY <1>6, <1>7, <1>8
  <2> HIDE DEF new
  <2>2. new \in Seq(AlertRows) /\ fresh \in Seq(raised)
    BY <1>6, <2>1, SeqDef
  <2> QED
    BY <1>6, <2>1, <2>2, LenProperties
<1>10. /\ old \in Seq(AlertRows) /\ Len(old) = Len(alerts) /\ Len(alerts) \in Nat /\ DOMAIN alerts = 1..Len(alerts)
       /\ \A a \in DOMAIN alerts :
            /\ old[a].accepted = alerts[a].accepted /\ old[a].claim = alerts[a].claim
            /\ old[a].problem = alerts[a].problem
            /\ ~old[a].resolved => ~alerts[a].resolved
  <2>1. DOMAIN alerts = 1..Len(alerts) /\ Len(alerts) \in Nat
    BY <1>1, AlertTyped
  <2>2. ASSUME NEW a \in DOMAIN alerts
        PROVE  /\ old[a] \in AlertRows /\ old[a].accepted = alerts[a].accepted /\ old[a].claim = alerts[a].claim
               /\ old[a].problem = alerts[a].problem /\ (~old[a].resolved => ~alerts[a].resolved)
    <3>1. alerts[a] \in AlertRows
      BY <1>1, AlertTyped
    <3>2. old[a] = IF alerts[a].problem \in found THEN alerts[a] ELSE [alerts[a] EXCEPT !.resolved = TRUE]
      BY DEF Resolved
    <3> HIDE DEF old, found
    <3> QED
      BY <3>1, <3>2 DEF AlertRows
  <2>3. old \in [1..Len(alerts) -> AlertRows]
    BY <2>1, <2>2 DEF Resolved
  <2> HIDE DEF old
  <2>4. old \in Seq(AlertRows)
    BY <2>1, <2>3, SeqDef
  <2>5. Len(old) = Len(alerts)
    BY <2>1, <2>3, <2>4, LenProperties
  <2> QED
    BY <2>1, <2>2, <2>4, <2>5
<1>11. \A k \in 1..n : /\ new[k].accepted = Never /\ new[k].claim = Free /\ new[k].problem = fresh[k]
                       /\ OpenFor(new[k].problem) = {}
  BY <1>5, <1>6, <1>7 DEF NewAlert
<1> HIDE DEF old, new
<1>12. /\ old \o new \in Seq(AlertRows) /\ Len(old \o new) = Len(alerts) + n
       /\ \A i \in 1..(Len(alerts) + n) : (old \o new)[i] = IF i <= Len(alerts) THEN old[i] ELSE new[i - Len(alerts)]
  BY <1>9, <1>10, ConcatProperties
<1>13. /\ alerts' \in Seq(AlertRows) /\ Len(alerts') = Len(alerts) + n /\ DOMAIN alerts' = 1..(Len(alerts) + n)
       /\ \A i \in DOMAIN alerts : i \in DOMAIN alerts' /\ alerts'[i] = old[i]
       /\ \A i \in DOMAIN alerts' \ DOMAIN alerts : i - Len(alerts) \in 1..n /\ alerts'[i] = new[i - Len(alerts)]
  <2>1. alerts' \in Seq(AlertRows) /\ Len(alerts') = Len(alerts) + n
    BY <1>3, <1>12
  <2>2. DOMAIN alerts' = 1..(Len(alerts) + n)
    BY <2>1, LenProperties
  <2> QED
    BY <1>3, <1>6, <1>10, <1>12, <2>1, <2>2
<1>14. \A a \in DOMAIN alerts : OpenAlert(a)' => OpenAlert(a)
  BY <1>10, <1>13 DEF OpenAlert
<1>15. \A a, b \in DOMAIN alerts' \ DOMAIN alerts : alerts'[a].problem = alerts'[b].problem => a = b
  BY <1>6, <1>10, <1>11, <1>13
<1>16. Len(alerts') <= MaxAlerts /\ DOMAIN alerts \subseteq DOMAIN alerts'
  BY <1>3, <1>9, <1>13
<1>17. \A a \in DOMAIN alerts :
         /\ alerts'[a].accepted = alerts[a].accepted /\ alerts'[a].claim = alerts[a].claim
         /\ alerts'[a].problem = alerts[a].problem
  BY <1>10, <1>13
<1>18. \A a \in DOMAIN alerts' \ DOMAIN alerts :
         alerts'[a].accepted = Never /\ alerts'[a].claim = Free /\ OpenFor(alerts'[a].problem) = {}
  BY <1>11, <1>13
<1> QED
  BY <1>4, <1>13, <1>14, <1>15, <1>16, <1>17, <1>18
\* A checker reconciles the inbox with what it found (reconcile).
LEMMA AlertsReconcile ==
    ASSUME AlertsInv, NEW p \in Checkers, NEW notify \in BOOLEAN, Reconcile(p, notify)
    PROVE  AlertsInv'
<1> DEFINE row == IF notify THEN [at |-> "notify", now |-> checker[p].now,
                                  todo |-> {a \in DOMAIN alerts' : Unread(a)'}]
                  ELSE AtRest
<1>1. AlertsFit /\ checker[p].at = "observed" /\ UNCHANGED <<clock, banner, mourned>>
      /\ checker' = [checker EXCEPT ![p] = row]
  BY DEF AlertsInv, Reconcile
<1>2. /\ lasting' \in [Problems -> 0..Sustained]
      /\ alerts' \in Seq(AlertRows) /\ Len(alerts') <= MaxAlerts
      /\ DOMAIN alerts \subseteq DOMAIN alerts'
  BY Reconciled
<1>3. \A a \in DOMAIN alerts :
         /\ alerts'[a].accepted = alerts[a].accepted /\ alerts'[a].claim = alerts[a].claim
         /\ alerts'[a].problem = alerts[a].problem
         /\ OpenAlert(a)' => OpenAlert(a)
  BY Reconciled
<1>4. \A a \in DOMAIN alerts' \ DOMAIN alerts :
         /\ alerts'[a].accepted = Never /\ alerts'[a].claim = Free
         /\ OpenFor(alerts'[a].problem) = {}
         /\ \A b \in DOMAIN alerts' \ DOMAIN alerts : alerts'[a].problem = alerts'[b].problem => a = b
  BY Reconciled
<1>5. DOMAIN alerts' \subseteq AlertIds
  BY <1>2, LenProperties, AlertsAssumption DEF AlertIds
<1>6. checker[p] \in CheckerRows(clock) /\ p \notin mourned.dead /\ clock \in Nat
  BY <1>1, AlertTyped DEF AlertsFit
<1>7. row \in CheckerRows(clock) /\ row.at \in {"rest", "notify"}
      /\ (row.at = "notify" => row.todo \subseteq DOMAIN alerts')
  <2>1. checker[p].now \in 0..clock
    BY <1>1, <1>6, RowFacts
  <2>2. CASE notify
    BY <1>5, <2>1, <2>2 DEF CheckerRows
  <2>3. CASE ~notify
    BY <2>3 DEF CheckerRows, AtRest
  <2> QED
    BY <2>2, <2>3
<1> HIDE DEF row
<1>8. /\ checker' \in [Checkers -> CheckerRows(clock)] /\ checker'[p] = row
      /\ \A q \in Checkers \ {p} : checker'[q] = checker[q]
  BY <1>1, <1>7, OneChecker
<1>9. AlertsFit'
  <2>1. \A q \in mourned'.dead : checker'[q].at = "dead"
    BY <1>1, <1>6, <1>8 DEF AlertsFit
  <2> QED
    BY <1>1, <1>2, <1>8, <2>1 DEF AlertsFit
<1>10. OneOpen'
  <2> SUFFICES ASSUME NEW a \in DOMAIN alerts', NEW b \in DOMAIN alerts',
                      OpenAlert(a)', OpenAlert(b)', alerts'[a].problem = alerts'[b].problem
               PROVE  a = b
    BY DEF OneOpen
  <2>1. ASSUME NEW c \in DOMAIN alerts, NEW d \in DOMAIN alerts' \ DOMAIN alerts, OpenAlert(c)',
               alerts'[c].problem = alerts'[d].problem
        PROVE  FALSE
    BY <1>3, <1>4, <2>1 DEF OpenFor
  <2>2. CASE a \in DOMAIN alerts /\ b \in DOMAIN alerts
    BY <1>3, <2>2 DEF AlertsInv, OneOpen
  <2> QED
    BY <1>4, <2>1, <2>2
<1>11. ASSUME NEW a \in DOMAIN alerts' PROVE ShownAt(a)'
  <2>1. CASE a \in DOMAIN alerts
    <3>1. Periods(alerts'[a]) = Periods(alerts[a]) /\ (AlertClaimed(a)' <=> AlertClaimed(a)) /\ ShownAt(a)
      BY <1>1, <1>3, <2>1 DEF Periods, AlertClaimed, AlertsInv
    <3> QED
      BY <1>1, <1>3, <2>1, <3>1 DEF ShownAt
  <2>2. CASE a \notin DOMAIN alerts
    <3>1. alerts'[a].accepted = Never /\ ~AlertClaimed(a)' /\ Periods(alerts'[a]) = 0
      BY <1>4, <2>2 DEF AlertClaimed, Periods
    <3>2. banner'[a] = 0
      BY <1>1, <1>5, <2>2 DEF AlertsInv
    <3>3. Cardinality(mourned'.lapsed) \in Nat
      BY <1>1, AlertTyped
    <3> QED
      BY <1>1, <1>6, <3>1, <3>2, <3>3 DEF ShownAt, Never
  <2> QED
    BY <2>1, <2>2
<1>12. \A a \in AlertIds \ DOMAIN alerts' : banner'[a] = 0
  BY <1>1, <1>2 DEF AlertsInv
<1>13. ASSUME NEW q \in Checkers PROVE InInbox(q)' /\ HasClaim(q)'
  <2>1. InInbox(q) /\ HasClaim(q)
    BY DEF AlertsInv
  <2>2. CASE q # p
    <3>1. \A a \in DOMAIN alerts : Periods(alerts'[a]) = Periods(alerts[a])
      BY <1>3 DEF Periods
    <3> QED
      BY <1>1, <1>2, <1>3, <1>8, <2>1, <2>2, <3>1 DEF InInbox, HasClaim
  <2>3. CASE q = p
    BY <1>7, <1>8, <2>3 DEF InInbox, HasClaim, Submitting
  <2> QED
    BY <2>2, <2>3
<1> QED
  BY <1>9, <1>10, <1>11, <1>12, <1>13 DEF AlertsInv

\* No alert at first.
LEMMA AlertsStart == AlertsInit => AlertsInv
<1> SUFFICES ASSUME AlertsInit PROVE AlertsInv
  OBVIOUS
<1>1. alerts \in Seq(AlertRows) /\ Len(alerts) = 0 /\ DOMAIN alerts = {} /\ 0 <= MaxAlerts
  BY EmptySeq, AlertsAssumption DEF AlertsInit
<1>2. IsFiniteSet(mourned.lapsed) /\ mourned \in [dead : SUBSET Checkers, lapsed : SUBSET Checkers]
      /\ mourned.lapsed = {} /\ mourned.dead = {}
  BY FS_EmptySet DEF AlertsInit
<1>3. checker \in [Checkers -> CheckerRows(clock)] /\ \A p \in Checkers : checker[p].at = "rest"
  BY DEF AlertsInit, CheckerRows, AtRest
<1>4. AlertsFit
  BY <1>1, <1>2, <1>3, AlertsAssumption DEF AlertsInit, AlertsFit
<1>5. \A p \in Checkers : InInbox(p) /\ HasClaim(p)
  BY <1>3 DEF InInbox, HasClaim, Submitting
<1> QED
  BY <1>1, <1>4, <1>5 DEF AlertsInit, AlertsInv, OneOpen

\* Every step keeps the invariant.
LEMMA AlertsKeep == AlertsInv /\ [AlertsNext]_alertVars => AlertsInv'
<1> SUFFICES ASSUME AlertsInv, [AlertsNext]_alertVars PROVE AlertsInv'
  OBVIOUS
<1>1. CASE Tick
  BY <1>1, AlertsTick
<1>2. CASE \E a \in AlertIds : AcknowledgeAlert(a)
  BY <1>2, AlertsAcknowledge
<1>3. ASSUME NEW p \in Checkers,
             \/ \E found \in SUBSET Problems : Observe(p, found)
             \/ \E notify \in BOOLEAN : Reconcile(p, notify)
             \/ \E a \in AlertIds : ClaimAlert(p, a) \/ LeaveAlert(p, a)
             \/ Submit(p) \/ Fails(p) \/ Complete(p) \/ Rest(p) \/ CheckerDies(p) \/ CheckerLapses(p)
      PROVE  AlertsInv'
  <2>1. CASE \E notify \in BOOLEAN : Reconcile(p, notify)
    BY <2>1, AlertsReconcile
  <2>2. CASE \E a \in AlertIds : ClaimAlert(p, a)
    BY <2>2, AlertsClaim
  <2>3. CASE Submit(p)
    BY <2>3, AlertsSubmit
  <2>4. CASE Complete(p)
    BY <2>4, AlertsComplete
  <2>5. CASE CheckerDies(p)
    BY <2>5, AlertsDeath
  <2>6. CASE CheckerLapses(p)
    BY <2>6, AlertsLapse
  <2> QED
    BY <1>3, <2>1, <2>2, <2>3, <2>4, <2>5, <2>6, AlertsMoves
<1>4. CASE UNCHANGED alertVars
  <2>1. UNCHANGED <<clock, lasting, alerts, checker, banner, mourned>>
    BY <1>4 DEF alertVars
  <2>2. AlertsFit'
    <3>1. IsFiniteSet(mourned'.lapsed)
      BY <2>1, Zenon DEF AlertsInv, AlertsFit
    <3> QED
      BY <2>1, <3>1 DEF AlertsInv, AlertsFit
  <2>3. OneOpen'
    BY <2>1 DEF AlertsInv, OneOpen, OpenAlert
  <2>4. \A a \in DOMAIN alerts' : ShownAt(a)'
    BY <2>1 DEF AlertsInv, ShownAt, AlertClaimed
  <2>5. \A a \in AlertIds \ DOMAIN alerts' : banner'[a] = 0
    BY <2>1 DEF AlertsInv
  <2>6. \A q \in Checkers : InInbox(q)' /\ HasClaim(q)'
    BY <2>1 DEF AlertsInv, InInbox, HasClaim
  <2> QED
    BY <2>2, <2>3, <2>4, <2>5, <2>6 DEF AlertsInv
<1> QED
  BY <1>1, <1>2, <1>3, <1>4 DEF AlertsNext

\* The invariant of the alerts holds of every behaviour (supervisor_notifications.py).
THEOREM AlertsInvariant == AlertsSpec => []AlertsInv
<1> QED
  BY AlertsStart, AlertsKeep, PTL DEF AlertsSpec

\* Issues, alerts, claims and checkers keep their shape, and no problem has two
\* open alerts, however many checkers reconcile the inbox (supervisor_notifications.py).
THEOREM AlertsTypeCorrect == AlertsSpec => []AlertsTypeOK
<1>1. AlertsInv => AlertsTypeOK
  <2> SUFFICES ASSUME AlertsInv PROVE AlertsTypeOK
    OBVIOUS
  <2>1. ASSUME NEW i \in Problems PROVE Cardinality(OpenFor(i)) <= 1
    <3>1. \A a, b \in OpenFor(i) : a = b
      BY DEF AlertsInv, OneOpen, OpenFor
    <3>2. CASE OpenFor(i) = {}
      <4>1. Cardinality(OpenFor(i)) = 0
        BY <3>2, FS_EmptySet
      <4> QED
        BY <4>1
    <3>3. CASE OpenFor(i) # {}
      <4>1. PICK a : a \in OpenFor(i)
        BY <3>3
      <4>2. OpenFor(i) = {a}
        BY <3>1, <4>1
      <4>3. Cardinality(OpenFor(i)) = 1
        BY <4>2, FS_Singleton
      <4> QED
        BY <4>3
    <3> QED
      BY <3>2, <3>3
  <2> QED
    BY <2>1 DEF AlertsInv, AlertsFit, AlertsTypeOK
<1> QED
  BY <1>1, AlertsInvariant, PTL

\* An alert is shown once in each period of the cooldown and once more for each
\* checker that died with a claim on it, however many checkers run
\* (supervisor_notifications.py: claim_channel, complete_channel).
THEOREM ShowsOncePerCooldown == AlertsSpec => []ShownOncePerCooldown
<1>1. AlertsInv => ShownOncePerCooldown
  <2> SUFFICES ASSUME AlertsInv, NEW a \in AlertIds
               PROVE  banner[a] <= 1 + clock \div Cooldown + Cardinality(mourned.lapsed)
    BY DEF ShownOncePerCooldown
  <2>1. AlertsFit /\ clock \in Nat /\ Cooldown \in Nat \ {0} /\ Cardinality(mourned.lapsed) \in Nat
    BY AlertTyped DEF AlertsInv
  <2>2. clock \div Cooldown \in Nat
    BY <2>1, Quotients
  <2>3. CASE a \notin DOMAIN alerts
    BY <2>1, <2>2, <2>3 DEF AlertsInv
  <2>4. CASE a \in DOMAIN alerts
    <3>1. ShownAt(a) /\ banner[a] \in Nat /\ alerts[a] \in AlertRows
          /\ (alerts[a].accepted = Never \/ alerts[a].accepted \in Nat)
      BY <2>1, <2>4, AlertTyped DEF AlertsInv
    <3>2. Periods(alerts[a]) \in Nat
      BY <3>1, PeriodsTyped
    <3>3. Periods(alerts[a]) <= 1 + clock \div Cooldown
      BY <2>1, <2>2, <3>1, Quotients DEF Periods, ShownAt
    <3>4. CASE AlertClaimed(a)
      BY <2>1, <2>2, <3>1, <3>2, <3>4 DEF ShownAt
    <3>5. CASE ~AlertClaimed(a)
      BY <2>1, <2>2, <3>1, <3>2, <3>3, <3>5 DEF ShownAt
    <3> QED
      BY <3>4, <3>5
  <2> QED
    BY <2>3, <2>4
<1> QED
  BY <1>1, AlertsInvariant, PTL

-----------------------------------------------------------------------------
(* The queue of reviews (sim.py, sim_queue.py, adaptive_sim.py).           *)
(* No review is paid for twice because the claim says, at every place a    *)
(* worker may die, which calls were started; none is lost because a review *)
(* waits, is claimed or has ended, and is one of these only.               *)

\* Where a worker is before and after it works; where it has the claim in hand;
\* and where it has reported what was due.
Idle == {"off", "gate"}
Hands == {"act", "park", "start", "call", "called", "judge", "advocate", "advised", "ack"}
OfFlush == {"next"} \cup Hands

\* One worker or check at a time.
OneWorks == \A v, w \in Workers : worker[v].at \notin Idle /\ worker[w].at \notin Idle => v = w

\* What the claim says of the calls that were paid.
ClaimSays ==
    LET k == meta.claim IN
    /\ k.review = NoReview => k = NoClaim
    /\ k.review # NoReview =>
         /\ k.phase = "claimed" => past.paid[k.review] = 0
         /\ k.phase \in {"claimed", "sim_started", "sim_saved"} => past.advised[k.review] = 0
         /\ k.phase \in {"claimed", "sim_started"} => k.result = "none"
         /\ k.phase \notin {"claimed", "sim_started"} => k.result # "none"

\* And what the place of a worker says of the claim.
PlaceSays(w) ==
    LET at == worker[w].at
        k == meta.claim
    IN  /\ at \in Hands => k.review # NoReview
        /\ at = "act" /\ k.phase \in {"sim_started", "advocate_started"} => worker[w].recovered
        /\ at \in {"park", "start"} => k.phase = "claimed"
        /\ at \in {"call", "called"} => k.phase = "sim_started"
        /\ at = "call" => past.paid[k.review] = 0
        /\ at \in {"called", "checked"} => worker[w].answer \in Answers
        /\ at = "judge" => k.phase = "sim_saved"
        /\ at \in {"advocate", "advised"} => k.phase = "advocate_started"
        /\ at = "advocate" => past.advised[k.review] = 0

\* What waits has not been paid for, and nothing twice.
PaysOnce ==
    /\ \A r \in Reviews : past.paid[r] <= 1 /\ past.advised[r] <= 1
    /\ \A r \in Reviews : r \in ToSet(meta.queue) \/ r > Len(issued) => past.paid[r] = 0 /\ past.advised[r] = 0

\* A call that the tripped circuit lets through has a cooldown behind it.
Spending == \E w \in Workers : worker[w].at \in {"start", "call", "check"}
CreditKept ==
    /\ past.credit >= 0
    /\ control.failures = Threshold =>
         /\ Spending => past.credit >= 1
         /\ ~control.cooling => past.credit >= IF Spending THEN 2 ELSE 1

\* A review waits, is claimed or has ended.
WaitsOrEnded ==
    LET k == meta.claim.review
        queued == ToSet(meta.queue)
    IN  /\ Distinct(meta.queue) /\ queued \subseteq 1..Len(issued)
        /\ k # NoReview => k \in 1..Len(issued) /\ k \notin queued
        /\ \A r \in Reviews : past.ends[r] = IF r <= Len(issued) /\ r \notin queued /\ r # k THEN 1 ELSE 0
        /\ \A r \in past.acked : r <= Len(issued) /\ r \notin queued /\ r # k

\* One of a conversation waits, and none older than the one that is claimed.
OneWaits ==
    LET k == meta.claim.review
        queued == ToSet(meta.queue)
    IN  /\ \A q, r \in queued : Conv(q) = Conv(r) => q = r
        /\ k # NoReview => \A q \in queued : Conv(q) = Conv(k) => q > k

\* The last review of a conversation is there, or was reviewed, as long as its
\* windows are remembered.
LastOf(r) == \A q \in (r + 1)..Len(issued) : Conv(q) # Conv(r)
Remembered ==
    \A r \in 1..Len(issued) :
        meta.admission[Conv(r)] # {} /\ LastOf(r) => r \in ToSet(meta.queue) \/ meta.claim.review = r \/ r \in past.acked

\* Advice that was taken or shown is not waiting any more.
Standing == {"emitted", "acknowledged", "expired"}
AdviceKept ==
    /\ ToSet(meta.pending) \subseteq past.acked /\ hook \subseteq past.acked
    /\ \A r \in Reviews :
        /\ past.shown[r] <= 1
        /\ past.shown[r] = 1 => r \in past.acked /\ r \notin hook
        /\ r \in hook \/ past.shown[r] = 1 => control.advice[r] \in Standing /\ r \notin ToSet(meta.pending)

\* The result of an acknowledged review is reported, refused or due; who claims
\* has found nothing due.
Heard(r) == "result" \in health[r]
Reported(r) == Heard(r) \/ r \in past.unheard
ReportsDue ==
    /\ \A c \in Convs : meta.receipt[c].due => meta.receipt[c].review # NoReview
    /\ \A r \in past.acked : \/ Heard(r)
                             \/ meta.receipt[Conv(r)].review = r /\ meta.receipt[Conv(r)].due
                             \/ meta.receipt[Conv(r)].review # r /\ r \in past.unheard
    /\ (\E w \in Workers : worker[w].at \in OfFlush) => \A r \in past.acked : Reported(r)

\* All of it.
ReviewsInv ==
    /\ ReviewsTypeOK /\ OneWorks /\ ClaimSays /\ (\A w \in Workers : PlaceSays(w)) /\ PaysOnce
    /\ CreditKept /\ WaitsOrEnded /\ OneWaits /\ Remembered /\ AdviceKept /\ ReportsDue

-----------------------------------------------------------------------------
(* The records of the queue of reviews, field by field. *)

Receipts == [review : {NoReview} \cup Reviews, due : BOOLEAN, discards : SUBSET Reviews]
Counts == [Reviews -> 0..2]
Results == {"none", "quiet", "advice", "deep"}
IsMeta(m, q, a, k, p, t) ==
    /\ m \in Rows
    /\ m.queue = q /\ m.admission = a /\ m.claim = k /\ m.pending = p /\ m.receipt = t
IsControl(m, f, c, b, a, o) ==
    /\ m \in Controls
    /\ m.failures = f /\ m.cooling = c /\ m.backoff = b /\ m.advice = a /\ m.old = o
IsPast(m, p, a, s, e, c, k, u) ==
    /\ m \in Pasts
    /\ m.paid = p /\ m.advised = a /\ m.shown = s /\ m.ends = e /\ m.credit = c /\ m.acked = k /\ m.unheard = u
IsClaim(m, r, p, s, t) ==
    m \in Claims /\ m.review = r /\ m.phase = p /\ m.result = s /\ m.terminal = t
IsWork(m, a, d, s) ==
    m \in Workings /\ m.at = a /\ m.deferred = d /\ m.answer = s
\* Only the row of w is another one.
IsTurn(g, f, w, a, d, s) ==
    /\ g \in [Workers -> Workings] /\ IsWork(g[w], a, d, s)
    /\ \A v \in Workers \ {w} : g[v] = f[v]

\* The rows have their fields.
LEMMA MetaTyped ==
    ASSUME NEW m \in Rows
    PROVE  /\ m.queue \in Seq(Reviews) /\ m.admission \in [Convs -> SUBSET Windows] /\ m.claim \in Claims
           /\ m.pending \in Seq(Reviews) /\ m.receipt \in [Convs -> Receipts]
BY DEF Rows, Receipts

\* The rows that a step writes are written, the others stay.
LEMMA MetaChanges ==
    ASSUME NEW m \in Rows
    PROVE  /\ \A q \in Seq(Reviews), a \in [Convs -> SUBSET Windows] :
                 IsMeta([m EXCEPT !.queue = q, !.admission = a], q, a, m.claim, m.pending, m.receipt)
           /\ \A p \in Seq(Reviews) :
                 IsMeta([m EXCEPT !.pending = p], m.queue, m.admission, m.claim, p, m.receipt)
           /\ \A t \in [Convs -> Receipts] :
                 IsMeta([m EXCEPT !.receipt = t], m.queue, m.admission, m.claim, m.pending, t)
           /\ \A k \in Claims : IsMeta([m EXCEPT !.claim = k], m.queue, m.admission, k, m.pending, m.receipt)
           /\ \A k \in Claims, q \in Seq(Reviews) :
                 IsMeta([m EXCEPT !.claim = k, !.queue = q], q, m.admission, k, m.pending, m.receipt)
           /\ \A q \in Seq(Reviews), k \in Claims, a \in [Convs -> SUBSET Windows] :
                 IsMeta([m EXCEPT !.queue = q, !.claim = k, !.admission = a], q, a, k, m.pending, m.receipt)
           /\ \A k \in Claims, p \in Seq(Reviews), t \in [Convs -> Receipts] :
                 IsMeta([m EXCEPT !.claim = k, !.pending = p, !.receipt = t], m.queue, m.admission, k, p, t)
<1> SUFFICES ASSUME NEW q \in Seq(Reviews), NEW a \in [Convs -> SUBSET Windows], NEW k \in Claims,
                    NEW p \in Seq(Reviews), NEW t \in [Convs -> Receipts]
             PROVE  /\ IsMeta([m EXCEPT !.queue = q, !.admission = a], q, a, m.claim, m.pending, m.receipt)
                    /\ IsMeta([m EXCEPT !.pending = p], m.queue, m.admission, m.claim, p, m.receipt)
                    /\ IsMeta([m EXCEPT !.receipt = t], m.queue, m.admission, m.claim, m.pending, t)
                    /\ IsMeta([m EXCEPT !.claim = k], m.queue, m.admission, k, m.pending, m.receipt)
                    /\ IsMeta([m EXCEPT !.claim = k, !.queue = q], q, m.admission, k, m.pending, m.receipt)
                    /\ IsMeta([m EXCEPT !.queue = q, !.claim = k, !.admission = a], q, a, k, m.pending, m.receipt)
                    /\ IsMeta([m EXCEPT !.claim = k, !.pending = p, !.receipt = t], m.queue, m.admission, k, p, t)
  BY MetaTyped
<1>1. IsMeta([m EXCEPT !.queue = q, !.admission = a], q, a, m.claim, m.pending, m.receipt)
  BY DEF Rows, IsMeta
<1>2. IsMeta([m EXCEPT !.pending = p], m.queue, m.admission, m.claim, p, m.receipt)
  BY DEF Rows, IsMeta
<1>3. IsMeta([m EXCEPT !.receipt = t], m.queue, m.admission, m.claim, m.pending, t)
  BY DEF Rows, IsMeta, Receipts
<1>4. IsMeta([m EXCEPT !.claim = k], m.queue, m.admission, k, m.pending, m.receipt)
  BY DEF Rows, IsMeta
<1>5. IsMeta([m EXCEPT !.claim = k, !.queue = q], q, m.admission, k, m.pending, m.receipt)
  BY DEF Rows, IsMeta
<1>6. IsMeta([m EXCEPT !.queue = q, !.claim = k, !.admission = a], q, a, k, m.pending, m.receipt)
  BY DEF Rows, IsMeta
<1>7. IsMeta([m EXCEPT !.claim = k, !.pending = p, !.receipt = t], m.queue, m.admission, k, p, t)
  BY DEF Rows, IsMeta, Receipts
<1> QED
  BY <1>1, <1>2, <1>3, <1>4, <1>5, <1>6, <1>7

\* The state of the circuit has its fields.
LEMMA ControlTyped ==
    ASSUME NEW m \in Controls
    PROVE  /\ m.failures \in 0..Threshold /\ m.cooling \in BOOLEAN /\ m.backoff \in SUBSET Convs
           /\ m.advice \in [Reviews -> AdviceStates] /\ m.old \in SUBSET Reviews
BY DEF Controls

\* What a step writes of the circuit.
LEMMA ControlChanges ==
    ASSUME NEW m \in Controls
    PROVE  /\ \A a \in [Reviews -> AdviceStates] :
                 IsControl([m EXCEPT !.advice = a], m.failures, m.cooling, m.backoff, a, m.old)
           /\ \A o \in SUBSET Reviews :
                 IsControl([m EXCEPT !.old = o], m.failures, m.cooling, m.backoff, m.advice, o)
           /\ \A b \in SUBSET Convs :
                 IsControl([m EXCEPT !.backoff = b], m.failures, m.cooling, b, m.advice, m.old)
           /\ \A c \in BOOLEAN :
                 IsControl([m EXCEPT !.cooling = c], m.failures, c, m.backoff, m.advice, m.old)
           /\ \A f \in 0..Threshold, c \in BOOLEAN :
                 IsControl([m EXCEPT !.failures = f, !.cooling = c], f, c, m.backoff, m.advice, m.old)
BY DEF Controls, IsControl

\* The history has its fields.
LEMMA PastTyped ==
    ASSUME NEW m \in Pasts
    PROVE  /\ m.paid \in Counts /\ m.advised \in Counts /\ m.shown \in Counts /\ m.ends \in Counts
           /\ m.credit \in -1..2 /\ m.acked \in SUBSET Reviews /\ m.unheard \in SUBSET Reviews
BY DEF Pasts, Counts

\* What a step adds to the history.
LEMMA PastChanges ==
    ASSUME NEW m \in Pasts
    PROVE  /\ \A n \in Counts :
                 /\ IsPast([m EXCEPT !.ends = n], m.paid, m.advised, m.shown, n, m.credit, m.acked, m.unheard)
                 /\ IsPast([m EXCEPT !.shown = n], m.paid, m.advised, n, m.ends, m.credit, m.acked, m.unheard)
                 /\ IsPast([m EXCEPT !.advised = n], m.paid, n, m.shown, m.ends, m.credit, m.acked, m.unheard)
           /\ \A c \in -1..2 :
                 IsPast([m EXCEPT !.credit = c], m.paid, m.advised, m.shown, m.ends, c, m.acked, m.unheard)
           /\ \A k \in SUBSET Reviews :
                 IsPast([m EXCEPT !.unheard = k], m.paid, m.advised, m.shown, m.ends, m.credit, m.acked, k)
           /\ \A n \in Counts, c \in -1..2 :
                 IsPast([m EXCEPT !.paid = n, !.credit = c], n, m.advised, m.shown, m.ends, c, m.acked, m.unheard)
           /\ \A n \in Counts, k \in SUBSET Reviews, c \in -1..2 :
                 IsPast([m EXCEPT !.ends = n, !.acked = k, !.credit = c],
                        m.paid, m.advised, m.shown, n, c, k, m.unheard)
<1> SUFFICES ASSUME NEW n \in Counts, NEW c \in -1..2, NEW k \in SUBSET Reviews
    PROVE  /\ IsPast([m EXCEPT !.ends = n], m.paid, m.advised, m.shown, n, m.credit, m.acked, m.unheard)
           /\ IsPast([m EXCEPT !.shown = n], m.paid, m.advised, n, m.ends, m.credit, m.acked, m.unheard)
           /\ IsPast([m EXCEPT !.advised = n], m.paid, n, m.shown, m.ends, m.credit, m.acked, m.unheard)
           /\ IsPast([m EXCEPT !.credit = c], m.paid, m.advised, m.shown, m.ends, c, m.acked, m.unheard)
           /\ IsPast([m EXCEPT !.unheard = k], m.paid, m.advised, m.shown, m.ends, m.credit, m.acked, k)
           /\ IsPast([m EXCEPT !.paid = n, !.credit = c], n, m.advised, m.shown, m.ends, c, m.acked, m.unheard)
           /\ IsPast([m EXCEPT !.ends = n, !.acked = k, !.credit = c],
                     m.paid, m.advised, m.shown, n, c, k, m.unheard)
  BY PastTyped
<1>1. IsPast([m EXCEPT !.ends = n], m.paid, m.advised, m.shown, n, m.credit, m.acked, m.unheard)
  BY DEF Pasts, IsPast, Counts
<1>2. IsPast([m EXCEPT !.shown = n], m.paid, m.advised, n, m.ends, m.credit, m.acked, m.unheard)
  BY DEF Pasts, IsPast, Counts
<1>3. IsPast([m EXCEPT !.advised = n], m.paid, n, m.shown, m.ends, m.credit, m.acked, m.unheard)
  BY DEF Pasts, IsPast, Counts
<1>4. IsPast([m EXCEPT !.credit = c], m.paid, m.advised, m.shown, m.ends, c, m.acked, m.unheard)
  BY DEF Pasts, IsPast, Counts
<1>5. IsPast([m EXCEPT !.unheard = k], m.paid, m.advised, m.shown, m.ends, m.credit, m.acked, k)
  BY DEF Pasts, IsPast, Counts
<1>6. IsPast([m EXCEPT !.paid = n, !.credit = c], n, m.advised, m.shown, m.ends, c, m.acked, m.unheard)
  BY DEF Pasts, IsPast, Counts
<1>7. IsPast([m EXCEPT !.ends = n, !.acked = k, !.credit = c], m.paid, m.advised, m.shown, n, c, k, m.unheard)
  BY DEF Pasts, IsPast, Counts
<1> QED
  BY <1>1, <1>2, <1>3, <1>4, <1>5, <1>6, <1>7

\* A claim has its fields.
LEMMA ClaimTyped ==
    ASSUME NEW m \in Claims
    PROVE  /\ m.review \in {NoReview} \cup Reviews /\ m.phase \in Phases /\ m.result \in Results
           /\ m.terminal \in Outcomes
BY DEF Claims, Results

\* What a step writes of the claim.
LEMMA ClaimChanges ==
    /\ \A m \in Claims, p \in Phases : IsClaim([m EXCEPT !.phase = p], m.review, p, m.result, m.terminal)
    /\ \A m \in Claims, t \in Outcomes : IsClaim([m EXCEPT !.terminal = t], m.review, m.phase, m.result, t)
    /\ \A m \in Claims, p \in Phases, s \in Results :
          IsClaim([m EXCEPT !.result = s, !.phase = p], m.review, p, s, m.terminal)
    /\ IsClaim(NoClaim, NoReview, "claimed", "none", "none")
    /\ \A r \in Reviews : IsClaim(ClaimOf(r), r, "claimed", "none", "none")
<1>1. \A m \in Claims, p \in Phases : IsClaim([m EXCEPT !.phase = p], m.review, p, m.result, m.terminal)
  BY DEF Claims, IsClaim, Results
<1>2. \A m \in Claims, t \in Outcomes : IsClaim([m EXCEPT !.terminal = t], m.review, m.phase, m.result, t)
  BY DEF Claims, IsClaim, Results
<1>3. \A m \in Claims, p \in Phases, s \in Results :
         IsClaim([m EXCEPT !.result = s, !.phase = p], m.review, p, s, m.terminal)
  BY DEF Claims, IsClaim, Results
<1>4. NoClaim \in Claims /\ IsClaim(NoClaim, NoReview, "claimed", "none", "none")
  BY DEF Claims, IsClaim, NoClaim, Phases, Outcomes
<1>5. \A r \in Reviews : IsClaim(ClaimOf(r), r, "claimed", "none", "none")
  BY <1>4 DEF Claims, IsClaim, ClaimOf
<1> QED
  BY <1>1, <1>2, <1>3, <1>4, <1>5

\* A worker has its fields.
LEMMA WorkTyped ==
    ASSUME NEW m \in Workings
    PROVE  /\ m.at \in Places /\ m.background \in BOOLEAN /\ m.recovered \in BOOLEAN /\ m.deferred \in SUBSET Reviews
           /\ m.jobs \in 0..MaxJobs /\ m.answer \in {"none"} \cup Answers
BY DEF Workings

\* Where a step brings a worker.
LEMMA WorkChanges ==
    ASSUME NEW f \in [Workers -> Workings], NEW w \in Workers
    PROVE  LET m == f[w]
               Is(g, x, z, q) == IsTurn(g, f, w, x, z, q)
           IN  /\ \A row \in Workings : Is([f EXCEPT ![w] = row], row.at, row.deferred, row.answer)
               /\ \A a \in Places :
                     /\ Is([f EXCEPT ![w].at = a], a, m.deferred, m.answer)
                     /\ \A r \in BOOLEAN :
                           /\ Is([f EXCEPT ![w].at = a, ![w].recovered = r], a, m.deferred, m.answer)
                           /\ \A j \in 0..MaxJobs :
                                 Is([f EXCEPT ![w].at = a, ![w].recovered = r, ![w].jobs = j],
                                    a, m.deferred, m.answer)
                     /\ \A d \in SUBSET Reviews :
                           Is([f EXCEPT ![w].at = a, ![w].deferred = d], a, d, m.answer)
                     /\ \A s \in {"none"} \cup Answers :
                           /\ Is([f EXCEPT ![w].at = a, ![w].answer = s], a, m.deferred, s)
                           /\ Is([f EXCEPT ![w].answer = s, ![w].at = a], a, m.deferred, s)
<1> DEFINE m == f[w]
           Is(g, x, z, q) == IsTurn(g, f, w, x, z, q)
<1> SUFFICES ASSUME NEW a \in Places, NEW r \in BOOLEAN, NEW d \in SUBSET Reviews, NEW j \in 0..MaxJobs,
                    NEW s \in {"none"} \cup Answers, NEW row \in Workings
    PROVE  /\ Is([f EXCEPT ![w] = row], row.at, row.deferred, row.answer)
           /\ Is([f EXCEPT ![w].at = a], a, m.deferred, m.answer)
           /\ Is([f EXCEPT ![w].at = a, ![w].recovered = r], a, m.deferred, m.answer)
           /\ Is([f EXCEPT ![w].at = a, ![w].recovered = r, ![w].jobs = j], a, m.deferred, m.answer)
           /\ Is([f EXCEPT ![w].at = a, ![w].deferred = d], a, d, m.answer)
           /\ Is([f EXCEPT ![w].at = a, ![w].answer = s], a, m.deferred, s)
           /\ Is([f EXCEPT ![w].answer = s, ![w].at = a], a, m.deferred, s)
  <2>1. m \in Workings /\ "off" \in Places /\ TRUE \in BOOLEAN /\ {} \in SUBSET Reviews /\ m.jobs \in 0..MaxJobs
        /\ "none" \in {"none"} \cup Answers
    BY WorkTyped DEF Places
  <2> HIDE DEF m, Is
  <2> QED
    BY <2>1 DEF m, Is
<1>1. Is([f EXCEPT ![w] = row], row.at, row.deferred, row.answer)
  BY DEF IsTurn, IsWork
<1>2. Is([f EXCEPT ![w].at = a], a, m.deferred, m.answer)
  BY DEF IsTurn, IsWork, Workings
<1>3. Is([f EXCEPT ![w].at = a, ![w].recovered = r], a, m.deferred, m.answer)
  BY DEF IsTurn, IsWork, Workings
<1>4. Is([f EXCEPT ![w].at = a, ![w].recovered = r, ![w].jobs = j], a, m.deferred, m.answer)
  BY DEF IsTurn, IsWork, Workings
<1>5. Is([f EXCEPT ![w].at = a, ![w].deferred = d], a, d, m.answer)
  BY DEF IsTurn, IsWork, Workings
<1>6. Is([f EXCEPT ![w].at = a, ![w].answer = s], a, m.deferred, s)
  BY DEF IsTurn, IsWork, Workings
<1>7. Is([f EXCEPT ![w].answer = s, ![w].at = a], a, m.deferred, s)
  BY DEF IsTurn, IsWork, Workings
<1> QED
  BY <1>1, <1>2, <1>3, <1>4, <1>5, <1>6, <1>7

-----------------------------------------------------------------------------
(* What a step leaves alone, it keeps. *)

\* The type and the constants together.
ReviewsFit ==
    /\ ReviewsTypeOK
    /\ MaxReviews \in Nat /\ MaxQueue \in Nat \ {0} /\ MaxJobs \in Nat \ {0} /\ Threshold \in Nat \ {0} /\ Faults \in Nat

\* What a step leaves alone, part by part.
SameCalls == past'.paid = past.paid /\ past'.advised = past.advised
SameQueue == issued' = issued /\ meta'.queue = meta.queue
SameWaits ==
    /\ SameQueue /\ meta'.claim.review = meta.claim.review
    /\ past'.ends = past.ends /\ past'.acked = past.acked
SameCredit ==
    /\ control'.failures = control.failures /\ control'.cooling = control.cooling /\ past'.credit = past.credit
SameAdvice ==
    /\ meta'.pending = meta.pending /\ hook' = hook /\ past'.shown = past.shown /\ past'.acked = past.acked
    /\ control'.advice = control.advice
SameReports ==
    /\ issued' = issued /\ meta'.receipt = meta.receipt /\ past'.acked = past.acked
    /\ (\A r \in Reviews : (Heard(r) => Heard(r)') /\ (r \in past.unheard => r \in past'.unheard))

LEMMA SameKept ==
    ASSUME ReviewsInv
    PROVE  /\ SameCalls /\ meta'.claim = meta.claim => ClaimSays'
           /\ SameCalls /\ meta'.claim = meta.claim /\ worker' = worker => \A w \in Workers : PlaceSays(w)'
           /\ worker' = worker => OneWorks'
           /\ SameCalls /\ SameQueue => PaysOnce'
           /\ SameCredit /\ worker' = worker => CreditKept'
           /\ SameWaits => WaitsOrEnded' /\ OneWaits'
           /\ SameWaits /\ meta'.admission = meta.admission => Remembered'
           /\ SameAdvice => AdviceKept'
           /\ SameReports /\ worker' = worker => ReportsDue'
<1>1. SameCalls /\ meta'.claim = meta.claim => ClaimSays'
  BY DEF ReviewsInv, ClaimSays, SameCalls
<1>2. SameCalls /\ meta'.claim = meta.claim /\ worker' = worker => \A w \in Workers : PlaceSays(w)'
  BY DEF ReviewsInv, PlaceSays, SameCalls
<1>3. worker' = worker => OneWorks'
  BY DEF ReviewsInv, OneWorks
<1>4. SameCalls /\ SameQueue => PaysOnce'
  BY DEF ReviewsInv, PaysOnce, SameCalls, SameQueue
<1>5. SameCredit /\ worker' = worker => CreditKept'
  BY DEF ReviewsInv, CreditKept, SameCredit, Spending
<1>6. SameWaits => WaitsOrEnded' /\ OneWaits'
  BY DEF ReviewsInv, WaitsOrEnded, OneWaits, SameWaits, SameQueue, Conv
<1>7. SameWaits /\ meta'.admission = meta.admission => Remembered'
  BY DEF ReviewsInv, Remembered, LastOf, SameWaits, SameQueue, Conv
<1>8. SameAdvice => AdviceKept'
  BY DEF ReviewsInv, AdviceKept, SameAdvice
<1>9. SameReports /\ worker' = worker => ReportsDue'
  <2> SUFFICES ASSUME SameReports, worker' = worker PROVE ReportsDue'
    OBVIOUS
  <2>1. \A r \in past.acked : r \in Reviews
    BY DEF ReviewsInv, ReviewsTypeOK, Pasts
  <2>2. \A r \in past.acked : Reported(r) => Reported(r)'
    BY <2>1 DEF SameReports, Reported
  <2>3. \A r : Conv(r)' = Conv(r)
    BY DEF SameReports, Conv
  <2> QED
    BY <2>1, <2>2, <2>3 DEF ReviewsInv, ReportsDue, SameReports
<1> QED
  BY <1>1, <1>2, <1>3, <1>4, <1>5, <1>6, <1>7, <1>8, <1>9

\* The other workers and checks are idle.
Alone(w) == \A v \in Workers \ {w} : worker[v].at \in Idle
ToCall == {"start", "call", "check"}

\* Who is at work, or finds everybody idle, works alone.
LEMMA AtWork ==
    ASSUME ReviewsInv, NEW w \in Workers, worker[w].at \notin Idle \/ WorkerFree
    PROVE  Alone(w)
BY DEF ReviewsInv, OneWorks, Alone, WorkerFree, Idle

\* A step of the one that works changes what its own place says.
LEMMA TurnKept ==
    ASSUME ReviewsInv, NEW w \in Workers, Alone(w), NEW a, NEW d, NEW s, IsTurn(worker', worker, w, a, d, s)
    PROVE  /\ OneWorks' /\ worker' \in [Workers -> Workings]
           /\ PlaceSays(w)' => \A v \in Workers : PlaceSays(v)'
           /\ a \in Idle => PlaceSays(w)'
           /\ Spending' <=> a \in ToCall
           /\ worker[w].at \in ToCall <=> Spending
           /\ worker[w].at \in OfFlush <=> \E v \in Workers : worker[v].at \in OfFlush
           /\ a \in OfFlush <=> (\E v \in Workers : worker[v].at \in OfFlush)'
           /\ worker'[w].at = a /\ worker'[w].answer = s
<1>1. worker'[w].at = a /\ worker'[w].answer = s /\ worker' \in [Workers -> Workings]
  BY DEF IsTurn, IsWork
<1>2. \A v \in Workers \ {w} : worker'[v] = worker[v] /\ worker[v].at \in Idle
  BY DEF IsTurn, Alone
<1>3. \A v \in Workers : worker'[v].at \in Idle => PlaceSays(v)'
  BY DEF PlaceSays, Idle, Hands
<1>4. OneWorks'
  BY <1>2 DEF OneWorks
<1>5. Idle \cap ToCall = {} /\ Idle \cap OfFlush = {}
  BY DEF Idle, ToCall, OfFlush, Hands
<1> QED
  BY <1>1, <1>2, <1>3, <1>4, <1>5 DEF Spending, ToCall

\* What the type of the state gives every step.
LEMMA ReviewFacts ==
    ASSUME ReviewsInv
    PROVE  /\ ReviewsFit
           /\ meta \in Rows /\ control \in Controls /\ past \in Pasts /\ worker \in [Workers -> Workings]
           /\ past.acked \subseteq 1..Len(issued) /\ 1..Len(issued) \subseteq Reviews /\ Len(issued) \in Nat
<1>1. ReviewsFit
  BY ReviewsAssumption DEF ReviewsInv, ReviewsFit
<1>2. Len(issued) \in Nat /\ Len(issued) <= MaxReviews
  BY LenProperties DEF ReviewsInv, ReviewsTypeOK
<1>3. past.acked \subseteq 1..Len(issued)
  BY <1>1, <1>2 DEF ReviewsInv, WaitsOrEnded, ReviewsTypeOK, Pasts, Reviews
<1> QED
  BY <1>1, <1>2, <1>3 DEF ReviewsFit, ReviewsTypeOK, Reviews

\* The circuit owes nothing more for a step that leaves it alone.
LEMMA CreditTurn ==
    ASSUME ReviewsInv, SameCredit, Spending' => Spending
    PROVE  CreditKept'
BY ReviewFacts, PastTyped DEF ReviewsInv, CreditKept, SameCredit

\* A step that only moves the one that works.
LEMMA TurnOnly ==
    ASSUME ReviewsInv, NEW w \in Workers, Alone(w), NEW a, NEW d, NEW s, IsTurn(worker', worker, w, a, d, s),
           issued' = issued, meta' = meta, past' = past, health' = health, hook' = hook,
           control' \in Controls, control'.advice = control.advice,
           knock' \in BOOLEAN, mishaps' \in 0..Faults,
           PlaceSays(w)', CreditKept', a \in OfFlush => worker[w].at \in OfFlush
    PROVE  ReviewsInv'
<1>1. ReviewsTypeOK'
  BY ReviewFacts, TurnKept DEF ReviewsFit, ReviewsTypeOK
<1>2. SameCalls /\ SameWaits /\ SameAdvice /\ SameQueue /\ SameReports
  BY DEF SameCalls, SameWaits, SameAdvice, SameQueue, SameReports, Reported, Heard
<1>3. ClaimSays' /\ PaysOnce' /\ WaitsOrEnded' /\ OneWaits' /\ Remembered' /\ AdviceKept'
  BY <1>2, SameKept
<1>4. OneWorks' /\ \A v \in Workers : PlaceSays(v)'
  BY TurnKept
<1>5. ReportsDue'
  <2>1. (\E v \in Workers : worker[v].at \in OfFlush)' => \E v \in Workers : worker[v].at \in OfFlush
    BY TurnKept
  <2> QED
    BY <2>1, <1>2 DEF ReviewsInv, ReportsDue, Reported, Heard, SameReports, Conv
<1> QED
  BY <1>1, <1>3, <1>4, <1>5 DEF ReviewsInv

\* Where a worker goes without calling, the circuit stays as it is.
LEMMA TurnIdles ==
    ASSUME ReviewsInv, NEW w \in Workers, Alone(w), NEW a, NEW d, NEW s, IsTurn(worker', worker, w, a, d, s),
           issued' = issued, meta' = meta, past' = past, health' = health, hook' = hook, control' = control,
           knock' \in BOOLEAN, mishaps' \in 0..Faults, a \notin ToCall,
           PlaceSays(w)', a \in OfFlush => worker[w].at \in OfFlush
    PROVE  ReviewsInv'
<1>1. ~Spending' /\ SameCredit /\ control' \in Controls
  BY TurnKept, ReviewFacts DEF SameCredit
<1>2. CreditKept'
  BY <1>1, CreditTurn
<1> QED
  BY <1>1, <1>2, TurnOnly

\* A worker that is not there, and one that has just come.
LEMMA OffRow ==
    /\ Off \in Workings /\ Off.at = "off" /\ Off.recovered = FALSE /\ Off.deferred = {} /\ Off.answer = "none"
    /\ LET n == [Off EXCEPT !.at = "gate"] IN
       n \in Workings /\ n.at = "gate" /\ n.recovered = FALSE /\ n.deferred = {} /\ n.answer = "none"
    /\ \A b \in BOOLEAN : LET n == [Off EXCEPT !.at = "flush", !.background = b] IN
       n \in Workings /\ n.at = "flush" /\ n.recovered = FALSE /\ n.deferred = {} /\ n.answer = "none"
<1>1. 0 \in 0..MaxJobs
  BY ReviewsAssumption
<1>2. Off \in Workings /\ Off.at = "off" /\ Off.recovered = FALSE /\ Off.deferred = {} /\ Off.answer = "none"
  BY <1>1 DEF Off, Workings, Places, Answers
<1>3. "gate" \in Places /\ "flush" \in Places
  BY DEF Places
<1> HIDE DEF Off
<1> QED
  BY <1>2, <1>3 DEF Workings

\* Whoever goes idle says nothing and owes nothing, whoever else is at work.
LEMMA GoesIdle ==
    ASSUME ReviewsInv, NEW w \in Workers, NEW a \in Idle, NEW d, NEW s, IsTurn(worker', worker, w, a, d, s),
           issued' = issued, meta' = meta, past' = past, health' = health, hook' = hook, control' = control,
           knock' \in BOOLEAN, mishaps' \in 0..Faults
    PROVE  ReviewsInv'
<1>1. worker' \in [Workers -> Workings] /\ worker'[w].at \in Idle /\ \A v \in Workers \ {w} : worker'[v] = worker[v]
  BY DEF IsTurn, IsWork
<1>2. ReviewsTypeOK'
  BY <1>1, ReviewFacts DEF ReviewsFit, ReviewsTypeOK
<1>3. SameCalls /\ SameWaits /\ SameAdvice /\ SameQueue /\ SameCredit
  BY DEF SameCalls, SameWaits, SameAdvice, SameQueue, SameCredit
<1>4. ClaimSays' /\ PaysOnce' /\ WaitsOrEnded' /\ OneWaits' /\ Remembered' /\ AdviceKept'
  BY <1>3, SameKept
<1>5. \A v \in Workers : PlaceSays(v)'
  BY <1>1 DEF ReviewsInv, PlaceSays, Idle, Hands
<1>6. OneWorks'
  BY <1>1 DEF ReviewsInv, OneWorks
<1>7. CreditKept'
  <2>1. Spending' => Spending
    BY <1>1 DEF Spending, Idle
  <2> QED
    BY <2>1, <1>3, CreditTurn
<1>8. ReportsDue'
  <2>1. (\E v \in Workers : worker[v].at \in OfFlush)' => \E v \in Workers : worker[v].at \in OfFlush
    BY <1>1 DEF OfFlush, Hands, Idle
  <2> QED
    BY <2>1 DEF ReviewsInv, ReportsDue, Reported, Heard, Conv
<1> QED
  BY <1>2, <1>4, <1>5, <1>6, <1>7, <1>8 DEF ReviewsInv

\* A worker or a check comes.
LEMMA EnterKeeps == ASSUME ReviewsInv, NEW w \in Workers, Enter(w) \/ Drain(w) PROVE ReviewsInv'
<1>1. PICK b \in BOOLEAN : worker' = [worker EXCEPT ![w] = Begins(b)]
  BY DEF Enter, Drain
<1>7. PICK n \in Workings : n = Begins(b) /\ n.at = "flush"
  BY OffRow DEF Begins
<1>2. Alone(w)
  BY AtWork DEF Enter, Drain
<1>4. IsTurn(worker', worker, w, n.at, n.deferred, n.answer)
  BY <1>1, <1>7, ReviewFacts, WorkChanges
<1>5. PlaceSays(w)'
  BY <1>2, <1>4, <1>7, TurnKept DEF PlaceSays, Hands
<1>6. knock' \in BOOLEAN /\ mishaps' \in 0..Faults
  BY ReviewFacts DEF Enter, Drain, ReviewsFit, ReviewsTypeOK
<1> QED
  BY <1>2, <1>4, <1>5, <1>6, <1>7, TurnIdles DEF Enter, Drain, ToCall, OfFlush, Hands

\* The background worker that was started looks.
LEMMA WakeKeeps == ASSUME ReviewsInv, Wake PROVE ReviewsInv'
<1>1. /\ issued' = issued /\ meta' = meta /\ control' = control /\ hook' = hook /\ health' = health /\ past' = past
      /\ mishaps' \in 0..Faults /\ knock' \in BOOLEAN
  BY DEF Wake, ReviewsInv, ReviewsTypeOK
<1>2. CASE worker' = worker
  <2>1. ReviewsTypeOK'
    BY <1>1, <1>2 DEF ReviewsInv, ReviewsTypeOK
  <2>2. SameCalls /\ SameWaits /\ SameAdvice /\ SameQueue /\ SameReports /\ SameCredit
    BY <1>1 DEF SameCalls, SameWaits, SameAdvice, SameQueue, SameReports, SameCredit, Reported, Heard
  <2> QED
    BY <1>1, <1>2, <2>1, <2>2, SameKept DEF ReviewsInv
<1>3. CASE worker' # worker
  <2>1. PICK w \in Workers : At(w, "off") /\ worker' = [worker EXCEPT ![w] = [Off EXCEPT !.at = "gate"]]
    BY <1>3 DEF Wake
  <2>2. PICK n \in Workings : n = [Off EXCEPT !.at = "gate"] /\ n.at = "gate"
    BY OffRow
  <2>3. IsTurn(worker', worker, w, n.at, n.deferred, n.answer)
    BY <2>1, <2>2, ReviewFacts, WorkChanges
  <2> QED
    BY <1>1, <2>2, <2>3, GoesIdle DEF Idle
<1> QED
  BY <1>2, <1>3

\* A worker dies, or ends.
LEMMA DieKeeps == ASSUME ReviewsInv, NEW w \in Workers, Die(w) \/ Ends(w) PROVE ReviewsInv'
<1>4. PICK n \in Workings : n = Off /\ n.at = "off"
  BY OffRow
<1>1. IsTurn(worker', worker, w, n.at, n.deferred, n.answer)
  <2>1. worker' = [worker EXCEPT ![w] = n]
    BY <1>4 DEF Die, Ends
  <2> QED
    BY <2>1, ReviewFacts, WorkChanges
<1>2. mishaps' \in 0..Faults
  BY ReviewFacts DEF Die, Ends, Fault, ReviewsFit, ReviewsTypeOK
<1>3. knock' \in BOOLEAN
  BY DEF Die, Ends, ReviewsInv, ReviewsTypeOK
<1> QED
  BY <1>1, <1>2, <1>3, <1>4, GoesIdle DEF Die, Ends, Idle

\* A worker finds a claim that was left.
LEMMA ClaimLeftKeeps == ASSUME ReviewsInv, NEW w \in Workers, ClaimLeft(w) PROVE ReviewsInv'
<1>1. worker[w].jobs + 1 \in 0..MaxJobs /\ "act" \in Places
  BY ReviewFacts, WorkTyped DEF ClaimLeft, Iterates, ReviewsFit, Places
<1>2. Alone(w)
  BY AtWork DEF ClaimLeft, At, Idle
<1>3. IsTurn(worker', worker, w, "act", worker[w].deferred, worker[w].answer)
  BY <1>1, ReviewFacts, WorkChanges DEF ClaimLeft
<1>4. PlaceSays(w)'
  <2>1. worker'[w].at = "act" /\ worker'[w].recovered = TRUE
    BY <1>2, <1>3, TurnKept, ReviewFacts DEF ClaimLeft, Workings
  <2>2. meta.claim.review # NoReview /\ meta' = meta
    BY DEF ClaimLeft, ReviewsInv, ClaimSays
  <2> QED
    BY <2>1, <2>2 DEF PlaceSays, Hands
<1>5. knock' \in BOOLEAN /\ mishaps' \in 0..Faults
  BY ReviewFacts DEF ClaimLeft, ReviewsFit, ReviewsTypeOK
<1> QED
  <2>1. "act" \notin ToCall /\ worker[w].at \in OfFlush
    BY DEF ClaimLeft, At, ToCall, OfFlush
  <2>2. issued' = issued /\ meta' = meta /\ past' = past /\ health' = health /\ hook' = hook /\ control' = control
    BY DEF ClaimLeft
  <2> QED
    BY <1>2, <1>3, <1>4, <1>5, <2>1, <2>2, TurnIdles

\* A worker takes that claim over.
LEMMA ReuseKeeps == ASSUME ReviewsInv, NEW w \in Workers, Reuse(w) PROVE ReviewsInv'
<1>1. "judge" \in Places
  BY DEF Places
<1>2. Alone(w)
  BY AtWork DEF Reuse, Fresh, At, Idle
<1>3. IsTurn(worker', worker, w, "judge", worker[w].deferred, worker[w].answer)
  BY <1>1, ReviewFacts, WorkChanges DEF Reuse, Goes
<1>4. PlaceSays(w)'
  <2>1. meta.claim.review # NoReview /\ meta.claim.phase = "sim_saved"
    <3>1. meta.claim.phase \in Phases
      BY ReviewFacts, MetaTyped, ClaimTyped
    <3> QED
      BY <3>1 DEF Reuse, Fresh, At, Uncertain, ReviewsInv, PlaceSays, ClaimSays, Hands, Phases
  <2> QED
    BY <1>2, <1>3, <2>1, TurnKept DEF Reuse, PlaceSays, Hands
<1>5. knock' \in BOOLEAN /\ mishaps' \in 0..Faults
  BY ReviewFacts DEF Reuse, ReviewsFit, ReviewsTypeOK
<1> QED
  BY <1>2, <1>3, <1>4, <1>5, TurnIdles DEF Reuse, Fresh, At, ToCall, OfFlush, Hands

\* Whoever starts a call has found the circuit closed, or a cooldown that is over.
LEMMA PreparesCredit ==
    ASSUME ReviewsInv, ~Spending, ~control.cooling, control' = Prepared, past' = past
    PROVE  CreditKept' /\ control' \in Controls /\ control'.advice = control.advice
<1>1. IsControl(control', control.failures, control.cooling \/ control.failures = Threshold, control.backoff,
                control.advice, control.old)
  BY ReviewFacts, ControlTyped, ControlChanges DEF Prepared
<1> QED
  BY <1>1, ReviewFacts, PastTyped DEF IsControl, CreditKept, ReviewsInv

\* A worker asks the circuit.
LEMMA PrepareKeeps == ASSUME ReviewsInv, NEW w \in Workers, Prepare(w) PROVE ReviewsInv'
<1>1. PICK a \in {"park", "start"} : Goes(w, a) /\ (a = "start" => ~Blocked(Conv(meta.claim.review)) /\ control' = Prepared)
                                    /\ (a = "park" => control' = control)
  BY DEF Prepare
<1>2. Alone(w)
  BY AtWork DEF Prepare, Fresh, At, Idle
<1>3. IsTurn(worker', worker, w, a, worker[w].deferred, worker[w].answer)
  <2>1. a \in Places /\ worker' = [worker EXCEPT ![w].at = a]
    BY <1>1 DEF Goes, Places
  <2> QED
    BY <2>1, ReviewFacts, WorkChanges
<1>4. meta.claim.review # NoReview /\ meta.claim.phase = "claimed" /\ worker[w].at = "act"
  <2>1. meta.claim.phase \in Phases
    BY ReviewFacts, MetaTyped, ClaimTyped
  <2> QED
    BY <2>1 DEF Prepare, Fresh, At, Uncertain, ReviewsInv, PlaceSays, ClaimSays, Hands, Phases
<1>5. issued' = issued /\ meta' = meta /\ past' = past /\ health' = health /\ hook' = hook /\ knock' \in BOOLEAN
      /\ mishaps' \in 0..Faults
  BY ReviewFacts DEF Prepare, ReviewsFit, ReviewsTypeOK
<1>6. worker'[w].at = a /\ ~Spending
  BY <1>2, <1>3, <1>4, TurnKept DEF ToCall
<1>7. PlaceSays(w)'
  BY <1>4, <1>5, <1>6 DEF PlaceSays, Hands
<1>8. CreditKept' /\ control' \in Controls /\ control'.advice = control.advice
  <2>1. CASE a = "start"
    BY <1>1, <1>5, <1>6, <2>1, PreparesCredit DEF Blocked
  <2>2. CASE a = "park"
    <3>1. ~Spending' /\ SameCredit
      BY <1>1, <1>2, <1>3, <1>5, <2>2, TurnKept DEF ToCall, SameCredit
    <3> QED
      BY <1>1, <2>2, <3>1, CreditTurn, ReviewFacts
  <2> QED
    BY <2>1, <2>2
<1>9. worker[w].at \in OfFlush
  BY <1>4 DEF OfFlush, Hands
<1> QED
  BY <1>2, <1>3, <1>5, <1>7, <1>8, <1>9, TurnOnly

\* A person's check asks the circuit.
LEMMA CheckKeeps == ASSUME ReviewsInv, NEW w \in Workers, NEW c \in Convs, Check(w, c) PROVE ReviewsInv'
<1>1. Alone(w) /\ worker[w].at = "off"
  BY AtWork DEF Check, At
<1>2. IsTurn(worker', worker, w, "check", worker[w].deferred, worker[w].answer)
  BY ReviewFacts, WorkChanges DEF Check, Places
<1>3. worker'[w].at = "check" /\ ~Spending
  BY <1>1, <1>2, TurnKept DEF ToCall
<1>4. PlaceSays(w)'
  BY <1>3 DEF PlaceSays, Hands
<1>5. issued' = issued /\ meta' = meta /\ past' = past /\ health' = health /\ hook' = hook /\ knock' \in BOOLEAN
      /\ mishaps' \in 0..Faults
  BY ReviewFacts DEF Check, ReviewsFit, ReviewsTypeOK
<1>6. CreditKept' /\ control' \in Controls /\ control'.advice = control.advice
  BY <1>3, <1>5, PreparesCredit DEF Check, Blocked
<1>7. "check" \notin OfFlush
  BY DEF OfFlush, Hands
<1> QED
  BY <1>1, <1>2, <1>4, <1>5, <1>6, <1>7, TurnOnly

-----------------------------------------------------------------------------
(* Hooks and switches. *)

\* Nor do most of them touch the queue.
LEMMA NoRow ==
    ASSUME ReviewsInv, ReviewsTypeOK', worker' = worker, SameCalls, SameWaits, meta'.claim = meta.claim,
           meta'.admission = meta.admission, SameReports, AdviceKept', CreditKept'
    PROVE  ReviewsInv'
<1>1. OneWorks' /\ ClaimSays' /\ \A w \in Workers : PlaceSays(w)'
  BY SameKept
<1>2. PaysOnce' /\ WaitsOrEnded' /\ OneWaits' /\ Remembered' /\ ReportsDue'
  BY SameKept DEF SameWaits
<1> QED
  BY <1>1, <1>2 DEF ReviewsInv

\* A step of the hooks or of the clock: no worker, no row, no result.
LEMMA SwitchKeeps ==
    ASSUME ReviewsInv, control' \in Controls, CreditKept', AdviceKept', past' \in Pasts, mishaps' \in 0..Faults,
           SameCalls, past'.ends = past.ends, past'.acked = past.acked, past'.unheard = past.unheard,
           hook' \subseteq Reviews,
           UNCHANGED <<issued, meta, worker, knock, health>>
    PROVE  ReviewsInv'
<1>1. ReviewsTypeOK'
  BY ReviewFacts DEF ReviewsFit, ReviewsTypeOK
<1>2. SameWaits /\ SameReports
  BY DEF SameWaits, SameQueue, SameReports, Reported, Heard
<1> QED
  BY <1>1, <1>2, NoRow

\* Counting one more of some reviews.
LEMMA MoreCounts ==
    ASSUME NEW n \in Counts, NEW rs
    PROVE  /\ More(n, rs) \in Counts
           /\ \A r \in Reviews : More(n, rs)[r] = IF r \in rs /\ n[r] < 2 THEN n[r] + 1 ELSE n[r]
           /\ \A r \in Reviews : n[r] \in 0..2
BY DEF Counts, More

\* The first of its kind for one review.
LEMMA MoreOne ==
    ASSUME NEW n \in Counts, NEW r \in Reviews, n[r] = 0
    PROVE  /\ More(n, {r}) \in Counts
           /\ \A q \in Reviews : More(n, {r})[q] = IF q = r THEN 1 ELSE n[q]
<1>1. \A q \in Reviews : More(n, {r})[q] = IF q = r /\ n[q] < 2 THEN n[q] + 1 ELSE n[q]
  BY DEF More
<1>2. \A q \in Reviews : More(n, {r})[q] = IF q = r THEN 1 ELSE n[q]
  BY <1>1
<1> QED
  BY <1>2, MoreCounts

\* A hook hands advice to its host.
LEMMA ShowKeeps == ASSUME ReviewsInv, NEW r \in Reviews, Show(r) PROVE ReviewsInv'
<1>1. past.shown \in Counts /\ More(past.shown, {r}) \in Counts
  BY ReviewFacts, PastTyped, MoreCounts
<1>2. IsPast(past', past.paid, past.advised, More(past.shown, {r}), past.ends, past.credit, past.acked, past.unheard)
  BY <1>1, ReviewFacts, PastChanges DEF Show
<1>3. /\ issued' = issued /\ meta' = meta /\ control' = control /\ worker' = worker /\ knock' = knock /\ health' = health
      /\ mishaps' = mishaps /\ hook' = hook \ {r} /\ r \in hook
  BY DEF Show
<1>4. AdviceKept'
  <2>1. \A x \in Reviews : past'.shown[x] = IF x = r /\ past.shown[x] < 2 THEN past.shown[x] + 1 ELSE past.shown[x]
    BY <1>1, <1>2, MoreCounts DEF IsPast
  <2>2. \A x \in Reviews : past.shown[x] \in 0..2
    BY <1>1, MoreCounts
  <2>3. past.shown[r] = 0
    BY <1>3, <2>2 DEF ReviewsInv, AdviceKept
  <2> QED
    BY <1>2, <1>3, <2>1, <2>2, <2>3 DEF IsPast, AdviceKept, ReviewsInv
<1>5. CreditKept' /\ SameCalls
  BY <1>2, <1>3, SameKept DEF IsPast, SameCredit, SameCalls
<1> QED
  BY <1>2, <1>3, <1>4, <1>5, ReviewFacts, SwitchKeeps DEF IsPast, ReviewsFit, ReviewsTypeOK

\* A hook dies with the advice it took.
LEMMA HookDiesKeeps == ASSUME ReviewsInv, NEW r \in Reviews, HookDies(r) PROVE ReviewsInv'
<1>1. /\ issued' = issued /\ meta' = meta /\ control' = control /\ worker' = worker /\ knock' = knock /\ health' = health
      /\ past' = past /\ mishaps' \in 0..Faults /\ hook' = hook \ {r} /\ r \in hook
  BY ReviewFacts DEF HookDies, Fault, ReviewsFit, ReviewsTypeOK
<1>2. AdviceKept'
  BY <1>1 DEF AdviceKept, ReviewsInv
<1>3. CreditKept' /\ SameCalls
  BY <1>1, SameKept DEF SameCredit, SameCalls
<1> QED
  BY <1>1, <1>2, <1>3, ReviewFacts, SwitchKeeps DEF ReviewsFit, ReviewsTypeOK

\* What the advice out of date was.
LEMMA ExpiredTyped ==
    ASSUME ReviewsInv
    PROVE  /\ Expired \in [Reviews -> AdviceStates]
           /\ \A r \in Reviews : Expired[r] # control.advice[r] =>
                 Expired[r] = "expired" /\ control.advice[r] \in {"generated", "emitted"}
<1>1. control.advice \in [Reviews -> AdviceStates]
  BY ReviewFacts, ControlTyped
<1> QED
  BY <1>1 DEF Expired, AdviceStates

\* Only advice that a host has, or might get, is marked as stale.
LEMMA AdviceMoves ==
    ASSUME ReviewsInv, NEW a \in [Reviews -> AdviceStates], control' = [control EXCEPT !.advice = a],
           \A r \in Reviews : control.advice[r] \in Standing => a[r] \in Standing,
           UNCHANGED <<issued, meta, worker, knock, hook, health, past, mishaps>>
    PROVE  ReviewsInv'
<1>1. IsControl(control', control.failures, control.cooling, control.backoff, a, control.old)
  BY ReviewFacts, ControlChanges
<1>2. AdviceKept'
  BY <1>1 DEF IsControl, AdviceKept, ReviewsInv
<1>3. CreditKept' /\ SameCalls
  BY <1>1, SameKept DEF SameCredit, SameCalls, IsControl
<1> QED
  BY <1>1, <1>2, <1>3, ReviewFacts, SwitchKeeps DEF IsControl, ReviewsFit, ReviewsTypeOK

\* A host acknowledges its advice.
LEMMA AcknowledgeAdviceKeeps ==
    ASSUME ReviewsInv, ControlStatus \/ \E r \in Reviews : AcknowledgeAdvice(r)
    PROVE  ReviewsInv'
<1>1. CASE ControlStatus
  <2>1. \A r \in Reviews : control.advice[r] \in Standing => Expired[r] \in Standing
    BY ExpiredTyped DEF Standing
  <2> QED
    BY <1>1, <2>1, ExpiredTyped, AdviceMoves DEF ControlStatus
<1>2. ASSUME NEW r \in Reviews, AcknowledgeAdvice(r) PROVE ReviewsInv'
  <2> DEFINE a == IF Expired[r] = "emitted" THEN [Expired EXCEPT ![r] = "acknowledged"] ELSE Expired
  <2>1. a \in [Reviews -> AdviceStates]
    BY ExpiredTyped DEF AdviceStates
  <2>2. \A x \in Reviews : control.advice[x] \in Standing => a[x] \in Standing
    BY ExpiredTyped DEF Standing
  <2>3. control' = [control EXCEPT !.advice = a] /\ UNCHANGED <<issued, meta, worker, knock, hook, health, past, mishaps>>
    BY <1>2 DEF AcknowledgeAdvice
  <2> HIDE DEF a
  <2> QED
    BY <2>1, <2>2, <2>3, AdviceMoves
<1> QED
  BY <1>1, <1>2

\* Advice gets old.
LEMMA AgesKeeps ==
    ASSUME ReviewsInv, \/ \E r \in Reviews : Ages(r)
                       \/ \E c \in Convs : SetBackoff(c) \/ BackoffEnds(c)
    PROVE  ReviewsInv'
<1>1. control.old \in SUBSET Reviews /\ control.backoff \in SUBSET Convs
  BY ReviewFacts, ControlTyped
<1>2. PICK o \in SUBSET Reviews, b \in SUBSET Convs :
         IsControl(control', control.failures, control.cooling, b, control.advice, o)
  <2>1. \/ \E o \in SUBSET Reviews : control' = [control EXCEPT !.old = o]
        \/ \E b \in SUBSET Convs : control' = [control EXCEPT !.backoff = b]
    BY <1>1 DEF Ages, SetBackoff, BackoffEnds
  <2> QED
    BY <1>1, <2>1, ReviewFacts, ControlChanges
<1>3. UNCHANGED <<issued, meta, worker, knock, hook, health, past>> /\ mishaps' \in 0..Faults
  BY ReviewFacts DEF Ages, SetBackoff, BackoffEnds, Fault, ReviewsFit, ReviewsTypeOK
<1>4. AdviceKept' /\ CreditKept' /\ SameCalls
  BY <1>2, <1>3, SameKept DEF IsControl, SameCredit, SameCalls, SameAdvice
<1> QED
  BY <1>2, <1>3, <1>4, ReviewFacts, SwitchKeeps DEF IsControl, ReviewsFit, ReviewsTypeOK

\* A cooldown is over.
LEMMA CooldownEndsKeeps == ASSUME ReviewsInv, CooldownEnds PROVE ReviewsInv'
<1>1. past.credit \in -1..2 /\ past.credit >= 0
  BY ReviewFacts, PastTyped DEF ReviewsInv, CreditKept
<1>2. PICK n \in -1..2 : n = (IF past.credit < 2 THEN past.credit + 1 ELSE 2)
  BY <1>1
<1>3. IsPast(past', past.paid, past.advised, past.shown, past.ends, n, past.acked, past.unheard)
  BY <1>2, ReviewFacts, PastChanges DEF CooldownEnds
<1>4. /\ control' \in Controls /\ control'.failures = control.failures /\ control'.advice = control.advice
      /\ control.cooling /\ ~control'.cooling
  BY ReviewFacts DEF CooldownEnds, Controls
<1>5. UNCHANGED <<issued, meta, worker, knock, hook, health, mishaps>>
  BY DEF CooldownEnds
<1>6. CreditKept'
  BY <1>1, <1>2, <1>3, <1>4, <1>5 DEF IsPast, CreditKept, ReviewsInv, Spending
<1>7. AdviceKept' /\ SameCalls
  BY <1>3, <1>4, <1>5, SameKept DEF IsPast, SameCalls, SameAdvice
<1> QED
  BY <1>3, <1>4, <1>5, <1>6, <1>7, ReviewFacts, SwitchKeeps DEF IsPast, ReviewsFit, ReviewsTypeOK

\* What Others and Newest leave.
LEMMA OthersSet ==
    ASSUME NEW s \in Seq(Reviews), NEW c
    PROVE  /\ Others(s, c) \in Seq(Reviews) /\ Len(Others(s, c)) <= Len(s)
           /\ ToSet(Others(s, c)) = {r \in ToSet(s) : r \in DOMAIN issued /\ Conv(r) # c}
           /\ ToSet(s) \subseteq Reviews
           /\ Distinct(s) => Distinct(Others(s, c))
BY WhereSet DEF Others

\* Newest keeps what was put last, and nothing that was not there.
LEMMA NewestSet ==
    ASSUME NEW s \in Seq(Reviews), MaxQueue \in Nat \ {0}
    PROVE  /\ Newest(s) \in Seq(Reviews) /\ ToSet(Newest(s)) \subseteq ToSet(s)
           /\ Len(s) > 0 => s[Len(s)] \in ToSet(Newest(s))
           /\ Distinct(s) => Distinct(Newest(s))
<1>1. Len(s) \in Nat
  BY LenProperties
<1> DEFINE m == IF Len(s) > MaxQueue THEN Len(s) - MaxQueue + 1 ELSE 1
<1>2. m \in Nat \ {0} /\ (Len(s) > 0 => m <= Len(s)) /\ Newest(s) = SubSeq(s, m, Len(s))
  BY <1>1 DEF Newest
<1> HIDE DEF m
<1> QED
  BY <1>1, <1>2, EndSet

\* Marked marks those reviews, and leaves the others.
LEMMA MarkedTyped ==
    ASSUME NEW a \in [Reviews -> AdviceStates], NEW rs, NEW x \in AdviceStates
    PROVE  /\ Marked(a, rs, x) \in [Reviews -> AdviceStates]
           /\ \A r \in Reviews : Marked(a, rs, x)[r] = IF r \in rs THEN x ELSE a[r]
BY DEF Marked

\* What health hears of a review.
Events == {"queued", "result", "delivered", "discarded"}
\* Told forgets nothing.
LEMMA ToldTyped ==
    ASSUME health \in [Reviews -> SUBSET Events], NEW rs, NEW e \in Events
    PROVE  /\ Told(rs, e) \in [Reviews -> SUBSET Events]
           /\ \A r \in Reviews : health[r] \subseteq Told(rs, e)[r]
BY DEF Told

\* A hook takes advice, or drops it.
LEMMA PopKeeps == ASSUME ReviewsInv, NEW r \in Reviews, Pop(r) \/ Drop(r) PROVE ReviewsInv'
<1>1. meta.pending \in Seq(Reviews) /\ r \in ToSet(meta.pending)
  BY ReviewFacts, MetaTyped DEF Pop, Drop
<1>2. PICK p \in Seq(Reviews) : p = Others(meta.pending, Conv(r)) /\ ToSet(p) \subseteq ToSet(meta.pending) /\ r \notin ToSet(p)
  BY <1>1, OthersSet
<1>3. IsMeta(meta', meta.queue, meta.admission, meta.claim, p, meta.receipt)
  BY <1>2, ReviewFacts, MetaChanges DEF Pop, Drop, Takes
<1>4. PICK x \in AdviceStates : control' = [control EXCEPT !.advice[r] = x] /\ (Pop(r) => x = "emitted")
  BY DEF Pop, Drop, AdviceStates
<1>5. /\ control' \in Controls /\ control'.failures = control.failures /\ control'.cooling = control.cooling
      /\ control'.advice = [control.advice EXCEPT ![r] = x] /\ control.advice \in [Reviews -> AdviceStates]
  BY <1>4, ReviewFacts DEF Controls
<1>6. PICK e \in Events : health' = Told({r}, e)
  BY DEF Pop, Drop, Events
<1>7. health \in [Reviews -> SUBSET Events]
  BY ReviewFacts DEF ReviewsFit, ReviewsTypeOK, Events
<1>8. health' \in [Reviews -> SUBSET Events] /\ \A y \in Reviews : health[y] \subseteq health'[y]
  BY <1>6, <1>7, ToldTyped
<1>9. UNCHANGED <<issued, worker, knock, past, mishaps>> /\ (hook' = hook \/ (Pop(r) /\ hook' = hook \cup {r}))
  BY DEF Pop, Drop
<1>10. ReviewsTypeOK'
  BY <1>3, <1>5, <1>8, <1>9, ReviewFacts DEF IsMeta, ReviewsFit, ReviewsTypeOK, Events
<1>11. AdviceKept'
  <2>1. r \in past.acked /\ r \notin hook /\ past.shown[r] # 1
    BY <1>1 DEF ReviewsInv, AdviceKept
  <2>2. \A y \in Reviews : control'.advice[y] = IF y = r THEN x ELSE control.advice[y]
    BY <1>5
  <2> QED
    BY <1>2, <1>3, <1>4, <1>9, <2>1, <2>2 DEF IsMeta, AdviceKept, ReviewsInv, Standing
<1>12. SameCalls /\ SameWaits /\ SameReports /\ SameCredit
  BY <1>3, <1>5, <1>8, <1>9 DEF IsMeta, SameCalls, SameWaits, SameQueue, SameReports, SameCredit, Reported, Heard
<1>13. CreditKept'
  BY <1>9, <1>12, SameKept
<1> QED
  BY <1>3, <1>9, <1>10, <1>11, <1>12, <1>13, NoRow DEF IsMeta

\* The review that is admitted is a new one, of its conversation.
LEMMA IssuedOne ==
    ASSUME ReviewsInv, NEW c \in Convs, NEW w \in Windows, Len(issued) < MaxReviews, issued' = Append(issued, <<c, w>>)
    PROVE  /\ issued' \in Seq(Convs \X Windows) /\ Len(issued') = Len(issued) + 1 /\ Len(issued') <= MaxReviews
           /\ \A r \in 1..Len(issued) : Conv(r)' = Conv(r) /\ Conv(r) \in Convs
           /\ (\A n : n = Len(issued) + 1 => Conv(n)' = c) /\ Len(issued) + 1 \in Reviews
           /\ DOMAIN issued = 1..Len(issued)
<1>1. issued \in Seq(Convs \X Windows) /\ Len(issued) \in Nat /\ MaxReviews \in Nat
  BY ReviewFacts DEF ReviewsFit, ReviewsTypeOK
<1>2. issued' \in Seq(Convs \X Windows) /\ Len(issued') = Len(issued) + 1
  BY <1>1
<1>3. \A r \in 1..Len(issued) : issued'[r] = issued[r] /\ issued[r] \in Convs \X Windows
  BY <1>1, LenProperties
<1>4. issued'[Len(issued) + 1] = <<c, w>>
  BY <1>1
<1>5. DOMAIN issued = 1..Len(issued)
  BY <1>1, LenProperties
<1>6. \A r \in 1..Len(issued) : Conv(r)' = Conv(r) /\ Conv(r) \in Convs
  BY <1>3 DEF Conv
<1>7. \A n : n = Len(issued) + 1 => Conv(n)' = c
  BY <1>4 DEF Conv
<1>8. Len(issued) + 1 \in Reviews
  BY <1>1 DEF Reviews
<1> QED
  BY <1>1, <1>2, <1>5, <1>6, <1>7, <1>8

\* A queue that lost some rows and may have got the review last admitted.
LEMMA EnqueueKeeps == ASSUME ReviewsInv, NEW c \in Convs, NEW w \in Windows, Enqueue(c, w) PROVE ReviewsInv'
<1> DEFINE len == Len(issued)
<1>1. PICK n \in Reviews : n = len + 1
  BY IssuedOne DEF Enqueue
<1>2. meta.queue \in Seq(Reviews) /\ Distinct(meta.queue) /\ ToSet(meta.queue) \subseteq 1..len /\ len \in Nat
      /\ DOMAIN issued = 1..len /\ 1..len \subseteq Reviews
  BY ReviewFacts, MetaTyped, IssuedOne DEF ReviewsInv, WaitsOrEnded, Enqueue
<1>3. PICK kept \in Seq(Reviews) :
        /\ kept = Newest(Append(Others(meta.queue, c), n)) /\ Distinct(kept) /\ n \in ToSet(kept)
        /\ \A q \in ToSet(kept) : q = n \/ (q \in ToSet(meta.queue) /\ Conv(q) # c)
  <2> DEFINE others == Others(meta.queue, c)
             s == Append(others, n)
  <2>1. /\ others \in Seq(Reviews) /\ Distinct(others) /\ n \notin ToSet(others)
        /\ \A q \in ToSet(others) : q \in ToSet(meta.queue) /\ Conv(q) # c
    BY <1>1, <1>2, OthersSet
  <2> HIDE DEF others
  <2>2. s \in Seq(Reviews) /\ Distinct(s) /\ Len(s) > 0 /\ s[Len(s)] = n /\ ToSet(s) = ToSet(others) \cup {n}
    <3>1. s \in Seq(Reviews) /\ Distinct(s) /\ ToSet(s) = ToSet(others) \cup {n}
      BY <2>1, AppendSet
    <3>2. Len(s) > 0 /\ s[Len(s)] = n
      BY <2>1, LenProperties
    <3> QED
      BY <3>1, <3>2
  <2> HIDE DEF s
  <2>3. Newest(s) \in Seq(Reviews) /\ ToSet(Newest(s)) \subseteq ToSet(s) /\ n \in ToSet(Newest(s)) /\ Distinct(Newest(s))
    BY <2>2, NewestSet, ReviewFacts DEF ReviewsFit
  <2> QED
    BY <2>1, <2>2, <2>3 DEF s, others
<1>4. PICK out : out = ToSet(meta.queue) \ ToSet(kept)
  OBVIOUS
<1>5. /\ issued' = Append(issued, <<c, w>>)
      /\ meta' = [meta EXCEPT !.queue = kept, !.admission = Readmits(meta.admission, c, w, out)]
      /\ control' = [control EXCEPT !.advice = Marked(control.advice, out, "discarded")]
      /\ past' = [past EXCEPT !.ends = More(past.ends, out)]
      /\ health' = [Told(out, "discarded") EXCEPT ![n] = @ \cup {"queued"}]
  BY <1>1, <1>3, <1>4 DEF Enqueue
<1>6. /\ worker' = worker /\ hook' = hook /\ knock' \in BOOLEAN /\ mishaps' \in 0..Faults /\ len < MaxReviews
  <2>1. knock \in BOOLEAN /\ mishaps \in 0..Faults /\ Faults \in Nat
    BY ReviewFacts DEF ReviewsFit, ReviewsTypeOK
  <2>2. knock' \in BOOLEAN
    BY <2>1 DEF Enqueue
  <2>3. mishaps' \in 0..Faults
    BY <2>1 DEF Enqueue, Fault
  <2> QED
    BY <2>2, <2>3 DEF Enqueue
<1>7. PICK a \in [Convs -> SUBSET Windows] : a = Readmits(meta.admission, c, w, out)
  BY ReviewFacts, MetaTyped DEF Readmits
<1>8. IsMeta(meta', kept, a, meta.claim, meta.pending, meta.receipt)
  BY <1>5, <1>7, ReviewFacts, MetaChanges
<1>9. /\ past.ends \in Counts /\ More(past.ends, out) \in Counts
      /\ \A r \in Reviews : More(past.ends, out)[r] = IF r \in out /\ past.ends[r] < 2 THEN past.ends[r] + 1 ELSE past.ends[r]
  BY ReviewFacts, PastTyped, MoreCounts
<1>10. IsPast(past', past.paid, past.advised, past.shown, More(past.ends, out), past.credit, past.acked, past.unheard)
  BY <1>5, <1>9, ReviewFacts, PastChanges
<1>11. PICK d \in [Reviews -> AdviceStates] : d = Marked(control.advice, out, "discarded")
                     /\ \A r \in Reviews : d[r] = IF r \in out THEN "discarded" ELSE control.advice[r]
  <2>1. "discarded" \in AdviceStates /\ control.advice \in [Reviews -> AdviceStates]
    BY ReviewFacts, ControlTyped DEF AdviceStates
  <2> QED
    BY <2>1, MarkedTyped
<1>12. IsControl(control', control.failures, control.cooling, control.backoff, d, control.old)
  BY <1>5, <1>11, ReviewFacts, ControlChanges
<1>13. health' \in [Reviews -> SUBSET Events] /\ \A r \in Reviews : health[r] \subseteq health'[r]
  <2>1. health \in [Reviews -> SUBSET Events] /\ "discarded" \in Events /\ "queued" \in Events
    BY ReviewFacts DEF ReviewsFit, ReviewsTypeOK, Events
  <2>2. /\ Told(out, "discarded") \in [Reviews -> SUBSET Events]
        /\ \A r \in Reviews : health[r] \subseteq Told(out, "discarded")[r]
    BY <2>1, ToldTyped
  <2> QED
    BY <1>5, <2>1, <2>2
<1>14. /\ issued' \in Seq(Convs \X Windows) /\ Len(issued') = n /\ Len(issued') <= MaxReviews
       /\ \A r \in 1..len : Conv(r)' = Conv(r) /\ Conv(r) \in Convs
       /\ Conv(n)' = c
  BY <1>1, <1>5, <1>6, IssuedOne
<1>15. \A r \in 1..n : r = n \/ r \in 1..len
  BY <1>1, <1>2
<1> HIDE DEF len
<1>16. past.acked \subseteq 1..len /\ past.acked \cap out = {}
  BY <1>4, ReviewFacts DEF ReviewsInv, WaitsOrEnded, len
<1>17. meta'.claim = meta.claim /\ meta'.queue = kept /\ n = len + 1 /\ n \notin ToSet(meta.queue) /\ n \in Int /\ len \in Int
  BY <1>1, <1>2, <1>8 DEF IsMeta, len
<1>18. ReviewsTypeOK'
  BY <1>6, <1>8, <1>10, <1>12, <1>13, <1>14, ReviewFacts DEF ReviewsFit, ReviewsTypeOK, IsMeta, IsPast, IsControl, Events
<1>19. SameCalls /\ SameCredit
  BY <1>10, <1>12 DEF SameCalls, SameCredit, IsPast, IsControl
<1>20. ClaimSays' /\ (\A v \in Workers : PlaceSays(v)') /\ OneWorks' /\ CreditKept'
  BY <1>6, <1>17, <1>19, SameKept
<1>21. PaysOnce'
  <2>1. \A r \in Reviews : r \in ToSet(kept) \/ r > n => r \in ToSet(meta.queue) \/ r > len
    BY <1>3, <1>17 DEF Reviews
  <2> QED
    BY <1>14, <1>17, <1>19, <2>1 DEF PaysOnce, ReviewsInv, SameCalls, len
<1>22. WaitsOrEnded'
  <2>1. meta.claim.review # NoReview => meta.claim.review \in 1..n /\ meta.claim.review \notin ToSet(kept)
    BY <1>3, <1>17 DEF ReviewsInv, WaitsOrEnded, len
  <2>2. ToSet(kept) \subseteq 1..n
    <3>1. \A q \in 1..len : q \in 1..n
      BY <1>2, <1>17
    <3>2. n \in 1..n
      BY <1>2, <1>17
    <3> QED
      BY <1>2, <1>3, <3>1, <3>2
  <2>3. \A r \in past'.acked : r <= n /\ r \notin ToSet(kept) /\ r # meta.claim.review
    BY <1>3, <1>10, <1>16, <1>17 DEF ReviewsInv, WaitsOrEnded, IsPast
  <2>4. ASSUME NEW r \in Reviews
        PROVE  past'.ends[r] = IF r <= n /\ r \notin ToSet(kept) /\ r # meta.claim.review THEN 1 ELSE 0
    <3>1. past.ends[r] = IF r <= len /\ r \notin ToSet(meta.queue) /\ r # meta.claim.review THEN 1 ELSE 0
      BY DEF ReviewsInv, WaitsOrEnded, len
    <3>2. past'.ends[r] = IF r \in out /\ past.ends[r] < 2 THEN past.ends[r] + 1 ELSE past.ends[r]
      BY <1>9, <1>10 DEF IsPast
    <3>3. r \in Int
      BY DEF Reviews
    <3>4. CASE r \in out
      <4>1. r \in ToSet(meta.queue) /\ r \notin ToSet(kept) /\ r \in 1..len /\ r # meta.claim.review
        BY <1>2, <1>4, <3>4 DEF ReviewsInv, WaitsOrEnded, len, NoReview
      <4> QED
        BY <3>1, <3>2, <3>3, <3>4, <4>1, <1>17
    <3>5. CASE r \notin out
      <4>1. r \in ToSet(kept) <=> r \in ToSet(meta.queue) \/ r = n
        BY <1>3, <1>4, <3>5
      <4>2. r = n => r # meta.claim.review
        BY <1>17, <3>3 DEF ReviewsInv, WaitsOrEnded, len, NoReview
      <4> QED
        BY <3>1, <3>2, <3>3, <3>5, <4>1, <4>2, <1>17
    <3> QED
      BY <3>4, <3>5
  <2> QED
    BY <1>3, <1>14, <1>17, <2>1, <2>2, <2>3, <2>4 DEF WaitsOrEnded
<1>23. OneWaits'
  <2>1. \A q \in ToSet(kept) : (q = n /\ Conv(q)' = c) \/ (q \in ToSet(meta.queue) /\ Conv(q)' = Conv(q) /\ Conv(q) # c)
    BY <1>2, <1>3, <1>14 DEF len
  <2>2. \A q, r \in ToSet(kept) : Conv(q)' = Conv(r)' => q = r
    BY <2>1 DEF ReviewsInv, OneWaits
  <2>3. ASSUME meta.claim.review # NoReview, NEW q \in ToSet(kept), Conv(q)' = Conv(meta.claim.review)'
        PROVE  q > meta.claim.review
    <3> DEFINE k == meta.claim.review
    <3>1. k \in 1..len
      BY <2>3 DEF ReviewsInv, WaitsOrEnded, len
    <3>2. CASE q = n
      BY <3>1, <3>2, <1>17
    <3>3. CASE q # n
      <4>1. q \in ToSet(meta.queue) /\ Conv(q)' = Conv(q) /\ issued'[k][1] = Conv(k)
        BY <2>1, <3>1, <3>3, <1>14 DEF Conv
      <4>2. Conv(q) = Conv(k)
        BY <2>3, <4>1, <1>17 DEF Conv
      <4> QED
        BY <2>3, <4>1, <4>2 DEF ReviewsInv, OneWaits
    <3> QED
      BY <3>2, <3>3
  <2> QED
    BY <1>17, <2>2, <2>3 DEF OneWaits
<1>24. Remembered'
  <2> SUFFICES ASSUME NEW r \in 1..n, a[Conv(r)'] # {}, \A q \in (r + 1)..n : Conv(q)' # Conv(r)'
               PROVE  r \in ToSet(kept) \/ meta.claim.review = r \/ r \in past.acked
    BY <1>8, <1>10, <1>14, <1>17 DEF Remembered, LastOf, IsMeta, IsPast
  <2>1. CASE r = n
    BY <1>3, <2>1
  <2>2. CASE r # n
    <3>1. r \in 1..len /\ Conv(r)' = Conv(r) /\ Conv(r) \in Convs
      BY <1>14, <1>15, <2>2
    <3>2. n \in (r + 1)..n
      BY <3>1, <1>17
    <3>3. Conv(r) # c
      BY <3>1, <3>2, <1>14
    <3>4. ~(\E o \in out : Conv(o) = Conv(r)) /\ meta.admission[Conv(r)] # {}
      BY <1>7, <3>1, <3>3 DEF Readmits
    <3>5. LastOf(r)
      <4> SUFFICES ASSUME NEW q \in (r + 1)..len PROVE Conv(q) # Conv(r)
        BY DEF LastOf, len
      <4>1. q \in (r + 1)..n /\ q \in 1..len
        BY <1>17, <3>1
      <4> QED
        BY <4>1, <3>1, <1>14
    <3>6. r \in ToSet(meta.queue) \/ meta.claim.review = r \/ r \in past.acked
      BY <3>1, <3>4, <3>5 DEF ReviewsInv, Remembered, len
    <3>7. r \notin out
      BY <3>4
    <3> QED
      BY <1>4, <3>6, <3>7
  <2> QED
    BY <2>1, <2>2
<1>25. AdviceKept'
  BY <1>6, <1>8, <1>10, <1>11, <1>12, <1>16 DEF IsMeta, IsPast, IsControl, AdviceKept, ReviewsInv
<1>26. ReportsDue'
  <2>1. \A r \in past.acked : /\ Conv(r)' = Conv(r) /\ (Heard(r) => Heard(r)')
                              /\ (r \in past.unheard => r \in past'.unheard) /\ (Reported(r) => Reported(r)')
    BY <1>10, <1>13, <1>14, <1>16, <1>2 DEF Reported, Heard, IsPast, len
  <2> QED
    BY <1>6, <1>8, <1>10, <2>1 DEF IsMeta, IsPast, ReportsDue, ReviewsInv
<1> QED
  BY <1>18, <1>20, <1>21, <1>22, <1>23, <1>24, <1>25, <1>26 DEF ReviewsInv

-----------------------------------------------------------------------------
(* The one that works. *)

\* A step within a review.
LEMMA StepKeeps ==
    ASSUME ReviewsInv, NEW w \in Workers, Alone(w), NEW a, NEW d, NEW s, IsTurn(worker', worker, w, a, d, s),
           NEW k, k.review = meta.claim.review,
           IsMeta(meta', meta.queue, meta.admission, k, meta.pending, meta.receipt),
           NEW p, NEW v, NEW c, IsPast(past', p, v, past.shown, past.ends, c, past.acked, past.unheard),
           UNCHANGED <<issued, knock, hook, health, mishaps>>,
           control' \in Controls, control'.advice = control.advice,
           ClaimSays', PlaceSays(w)', PaysOnce', CreditKept', a \in OfFlush => worker[w].at \in OfFlush
    PROVE  ReviewsInv'
<1>1. ReviewsTypeOK'
  BY ReviewFacts, TurnKept DEF ReviewsFit, ReviewsTypeOK, IsMeta, IsPast
<1>2. SameWaits /\ SameAdvice /\ SameReports /\ meta'.admission = meta.admission
  BY DEF SameWaits, SameAdvice, SameQueue, SameReports, Reported, Heard, IsMeta, IsPast
<1>3. WaitsOrEnded' /\ OneWaits' /\ Remembered' /\ AdviceKept'
  BY <1>2, SameKept
<1>4. OneWorks' /\ \A x \in Workers : PlaceSays(x)'
  BY TurnKept
<1>5. ReportsDue'
  <2>1. (\E x \in Workers : worker[x].at \in OfFlush)' => \E x \in Workers : worker[x].at \in OfFlush
    BY TurnKept
  <2> QED
    BY <2>1, <1>2 DEF ReviewsInv, ReportsDue, Reported, Heard, SameReports, Conv, IsPast
<1> QED
  BY <1>1, <1>3, <1>4, <1>5 DEF ReviewsInv

\* A step that only writes the claim.
LEMMA WriteKeeps ==
    ASSUME ReviewsInv, NEW w \in Workers, worker[w].at \in Hands, NEW a \in Places \ ToCall, NEW s,
           IsTurn(worker', worker, w, a, worker[w].deferred, s),
           NEW k \in Claims, k.review = meta.claim.review, meta' = [meta EXCEPT !.claim = k],
           UNCHANGED <<issued, knock, hook, health, mishaps, control, past>>,
           ClaimSays', PlaceSays(w)'
    PROVE  ReviewsInv'
<1>1. Alone(w) /\ worker[w].at \in OfFlush
  BY AtWork DEF OfFlush, Hands, Idle
<1>2. IsMeta(meta', meta.queue, meta.admission, k, meta.pending, meta.receipt)
  BY ReviewFacts, MetaChanges
<1>3. IsPast(past', past.paid, past.advised, past.shown, past.ends, past.credit, past.acked, past.unheard)
  BY ReviewFacts DEF IsPast
<1>4. SameCalls /\ SameQueue /\ SameCredit /\ ~Spending'
  BY <1>1, <1>2, TurnKept DEF SameCalls, SameQueue, SameCredit, IsMeta
<1>5. PaysOnce' /\ CreditKept'
  BY <1>4, SameKept, CreditTurn
<1>6. control' \in Controls /\ control'.advice = control.advice
  BY ReviewFacts
<1> QED
  BY <1>1, <1>2, <1>3, <1>5, <1>6, StepKeeps

\* Who has the claim in hand has one.
LEMMA AtHand ==
    ASSUME ReviewsInv, NEW w \in Workers, worker[w].at \in Hands
    PROVE  /\ meta.claim \in Claims /\ meta.claim.review \in Reviews /\ meta.claim.review \in 1..Len(issued)
           /\ meta.claim.phase \in Phases /\ meta.claim.result \in Results /\ meta.claim.terminal \in Outcomes
           /\ worker[w].answer \in {"none"} \cup Answers
<1>1. meta.claim.review # NoReview
  BY DEF ReviewsInv, PlaceSays
<1>2. meta.claim \in Claims /\ worker[w] \in Workings
  BY ReviewFacts, MetaTyped
<1>3. meta.claim.review \in 1..Len(issued)
  BY <1>1 DEF ReviewsInv, WaitsOrEnded
<1> QED
  BY <1>1, <1>2, <1>3, ClaimTyped, WorkTyped

\* An outcome that is saved says nothing of the calls.
LEMMA FinishKeeps ==
    ASSUME ReviewsInv, NEW w \in Workers, worker[w].at \in Hands, NEW o \in Outcomes, Finishes(w, o),
           UNCHANGED <<issued, knock, hook, health, mishaps, control, past>>
    PROVE  ReviewsInv'
<1>1. PICK k \in Claims : k = [meta.claim EXCEPT !.terminal = o] /\ k.review = meta.claim.review
                          /\ k.phase = meta.claim.phase /\ k.result = meta.claim.result
  <2>1. IsClaim([meta.claim EXCEPT !.terminal = o], meta.claim.review, meta.claim.phase, meta.claim.result, o)
    BY AtHand, ClaimChanges
  <2> QED
    BY <2>1 DEF IsClaim
<1>2. meta' = [meta EXCEPT !.claim = k]
  BY <1>1 DEF Finishes
<1>3. IsTurn(worker', worker, w, "ack", worker[w].deferred, worker[w].answer)
  BY ReviewFacts, WorkChanges DEF Finishes, Goes, Places
<1>4. meta'.claim = k
  BY <1>2, ReviewFacts DEF Rows
<1>5. meta.claim.review # NoReview
  BY AtHand DEF NoReview, Reviews
<1>6. ClaimSays'
  BY <1>1, <1>4, <1>5 DEF ReviewsInv, ClaimSays
<1>7. PlaceSays(w)'
  <2>1. worker'[w].at = "ack"
    BY <1>3 DEF IsTurn, IsWork
  <2> QED
    BY <2>1, <1>1, <1>4, <1>5 DEF PlaceSays, Hands
<1>8. "ack" \in Places \ ToCall
  BY DEF Places, ToCall
<1> QED
  BY <1>1, <1>2, <1>3, <1>6, <1>7, <1>8, WriteKeeps

\* A worker goes on with an answer that was saved, or the circuit refuses it.
LEMMA ResumeKeeps == ASSUME ReviewsInv, NEW w \in Workers, Resume(w) \/ Refuse(w) PROVE ReviewsInv'
<1>1. worker[w].at \in Hands
  BY DEF Resume, Refuse, Fresh, At, Hands
<1>2. \E o \in Outcomes : Finishes(w, o)
  BY <1>1, AtHand DEF Resume, Refuse, Outcomes
<1> QED
  BY <1>1, <1>2, FinishKeeps DEF Resume, Refuse

\* A phase that the claim gets.
LEMMA PhaseKeeps ==
    ASSUME ReviewsInv, NEW w \in Workers, worker[w].at \in Hands, NEW a \in Places \ ToCall, NEW p \in Phases,
           meta' = [meta EXCEPT !.claim.phase = p], Goes(w, a),
           UNCHANGED <<issued, knock, hook, health, mishaps, control, past>>,
           \/ a = "act" /\ p = "ready"
           \/ a = "advocate" /\ p = "advocate_started" /\ past.advised[meta.claim.review] = 0,
           meta.claim.result # "none"
    PROVE  ReviewsInv'
<1>1. PICK k \in Claims : k = [meta.claim EXCEPT !.phase = p] /\ k.review = meta.claim.review
                          /\ k.phase = p /\ k.result = meta.claim.result
  <2>1. IsClaim([meta.claim EXCEPT !.phase = p], meta.claim.review, p, meta.claim.result, meta.claim.terminal)
    BY AtHand, ClaimChanges
  <2> QED
    BY <2>1 DEF IsClaim
<1>2. meta' = [meta EXCEPT !.claim = k]
  BY <1>1
<1>3. IsTurn(worker', worker, w, a, worker[w].deferred, worker[w].answer)
  BY ReviewFacts, WorkChanges DEF Goes
<1>4. meta'.claim = k
  BY <1>2, ReviewFacts DEF Rows
<1>5. meta.claim.review # NoReview
  BY AtHand DEF NoReview, Reviews
<1>6. ClaimSays'
  BY <1>1, <1>4, <1>5 DEF ClaimSays
<1>7. PlaceSays(w)'
  <2>1. worker'[w].at = a
    BY <1>3 DEF IsTurn, IsWork
  <2> QED
    BY <2>1, <1>1, <1>4, <1>5 DEF PlaceSays, Hands
<1> QED
  BY <1>1, <1>2, <1>3, <1>6, <1>7, WriteKeeps

\* An answer is judged, or the advice saved.
LEMMA JudgeKeeps == ASSUME ReviewsInv, NEW w \in Workers, Judge(w) \/ SaveAdvice(w) PROVE ReviewsInv'
<1>1. worker[w].at \in Hands
  BY DEF Judge, SaveAdvice, At, Hands
<1>2. /\ "act" \in Places \ ToCall /\ "advocate" \in Places \ ToCall
      /\ "ready" \in Phases /\ "advocate_started" \in Phases /\ "quiet" \in Outcomes
  BY DEF Places, ToCall, Phases, Outcomes
<1>3. meta.claim.review # NoReview /\ meta.claim.phase \in {"sim_saved", "advocate_started"}
  BY <1>1 DEF ReviewsInv, PlaceSays, Judge, SaveAdvice, At
<1>4. meta.claim.result # "none"
  BY <1>3 DEF ReviewsInv, ClaimSays
<1>5. CASE meta.claim.result = "quiet" /\ Finishes(w, "quiet") /\ Judge(w)
  BY <1>1, <1>2, <1>5, FinishKeeps DEF Judge
<1>6. CASE Advises(w)
  BY <1>1, <1>2, <1>4, <1>6, PhaseKeeps DEF Judge, SaveAdvice, Advises
<1>7. CASE Judge(w) /\ meta' = [meta EXCEPT !.claim.phase = "advocate_started"] /\ Goes(w, "advocate")
  <2>1. past.advised[meta.claim.review] = 0
    BY <1>3, <1>7, <1>1 DEF ReviewsInv, ClaimSays, PlaceSays, Judge, At
  <2> QED
    BY <1>1, <1>2, <1>4, <1>7, <2>1, PhaseKeeps DEF Judge
<1> QED
  BY <1>5, <1>6, <1>7 DEF Judge, SaveAdvice

\* The answer is saved.
LEMMA SaveAnswerKeeps == ASSUME ReviewsInv, NEW w \in Workers, SaveAnswer(w) PROVE ReviewsInv'
<1>1. worker[w].at \in Hands /\ meta.claim.phase = "sim_started" /\ worker[w].answer \in Answers
  BY DEF ReviewsInv, PlaceSays, SaveAnswer, At, Hands
<1>2. meta.claim.review # NoReview /\ past.advised[meta.claim.review] = 0 /\ meta.claim.result = "none"
  BY <1>1 DEF ReviewsInv, ClaimSays, PlaceSays
<1> DEFINE over == worker[w].answer \in {"failure", "neutral"}
<1>3. PICK k \in Claims :
        /\ meta' = [meta EXCEPT !.claim = k] /\ k.review = meta.claim.review
        /\ over => k.phase = "sim_started" /\ k.result = "none"
        /\ ~over => k.phase = "sim_saved" /\ k.result # "none"
  <2>1. CASE over
    <3>1. worker[w].answer \in Outcomes
      BY <2>1 DEF Outcomes
    <3>2. PICK k \in Claims : k = [meta.claim EXCEPT !.terminal = worker[w].answer] /\ k.review = meta.claim.review
                              /\ k.phase = meta.claim.phase /\ k.result = meta.claim.result
      <4>1. IsClaim([meta.claim EXCEPT !.terminal = worker[w].answer],
                    meta.claim.review, meta.claim.phase, meta.claim.result, worker[w].answer)
        BY <1>1, <3>1, AtHand, ClaimChanges
      <4> QED
        BY <4>1 DEF IsClaim
    <3> QED
      BY <1>1, <1>2, <2>1, <3>2 DEF SaveAnswer
  <2>2. CASE ~over
    <3>1. worker[w].answer \in Results /\ worker[w].answer # "none" /\ "sim_saved" \in Phases
      BY <2>2, <1>1 DEF Answers, Results, Phases
    <3>2. PICK k \in Claims : k = [meta.claim EXCEPT !.result = worker[w].answer, !.phase = "sim_saved"]
                              /\ k.review = meta.claim.review
                              /\ k.phase = "sim_saved" /\ k.result = worker[w].answer
      <4>1. IsClaim([meta.claim EXCEPT !.result = worker[w].answer, !.phase = "sim_saved"],
                    meta.claim.review, "sim_saved", worker[w].answer, meta.claim.terminal)
        BY <1>1, <3>1, AtHand, ClaimChanges
      <4> QED
        BY <4>1 DEF IsClaim
    <3> QED
      BY <1>1, <1>2, <2>2, <3>1, <3>2 DEF SaveAnswer
  <2> QED
    BY <2>1, <2>2
<1>4. PICK a \in Places \ ToCall : a = (IF over THEN "ack" ELSE "judge")
  BY DEF Places, ToCall
<1>5. IsTurn(worker', worker, w, a, worker[w].deferred, "none")
  <2>1. worker' = [worker EXCEPT ![w].answer = "none", ![w].at = a]
    BY <1>4 DEF SaveAnswer
  <2> QED
    BY <2>1, ReviewFacts, WorkChanges
<1>6. meta'.claim = k
  BY <1>3, ReviewFacts DEF Rows
<1>7. UNCHANGED <<issued, knock, hook, health, mishaps, control, past>>
  BY DEF SaveAnswer
<1>8. ClaimSays'
  BY <1>2, <1>3, <1>6, <1>7 DEF ClaimSays
<1>9. PlaceSays(w)'
  <2>1. worker'[w].at = a
    BY <1>5 DEF IsTurn, IsWork
  <2> QED
    BY <2>1, <1>2, <1>3, <1>4, <1>6 DEF PlaceSays, Hands
<1> QED
  BY <1>1, <1>3, <1>5, <1>7, <1>8, <1>9, WriteKeeps

\* The call is marked as started.
LEMMA StartKeeps == ASSUME ReviewsInv, NEW w \in Workers, Start(w) PROVE ReviewsInv'
<1>1. worker[w].at \in Hands /\ worker[w].at = "start" /\ worker[w].at \in OfFlush
  BY DEF Start, At, Hands, OfFlush
<1>2. Alone(w)
  BY <1>1, AtWork DEF Hands, Idle
<1>3. meta.claim.phase = "claimed" /\ meta.claim.review # NoReview
  BY <1>1 DEF ReviewsInv, PlaceSays
<1>4. past.paid[meta.claim.review] = 0 /\ past.advised[meta.claim.review] = 0 /\ meta.claim.result = "none"
  BY <1>3 DEF ReviewsInv, ClaimSays
<1>5. PICK k \in Claims : k = [meta.claim EXCEPT !.phase = "sim_started"] /\ k.review = meta.claim.review
                          /\ k.phase = "sim_started" /\ k.result = meta.claim.result
  <2>1. "sim_started" \in Phases
    BY DEF Phases
  <2>2. IsClaim([meta.claim EXCEPT !.phase = "sim_started"],
                meta.claim.review, "sim_started", meta.claim.result, meta.claim.terminal)
    BY <1>1, <2>1, AtHand, ClaimChanges
  <2> QED
    BY <2>2 DEF IsClaim
<1>6. IsMeta(meta', meta.queue, meta.admission, k, meta.pending, meta.receipt)
  <2>1. meta' = [meta EXCEPT !.claim = k]
    BY <1>5 DEF Start
  <2> QED
    BY <2>1, ReviewFacts, MetaChanges
<1>7. IsTurn(worker', worker, w, "call", worker[w].deferred, worker[w].answer)
  BY ReviewFacts, WorkChanges DEF Start, Goes, Places
<1>8. UNCHANGED <<issued, knock, hook, health, mishaps, control, past>>
  BY DEF Start
<1>9. IsPast(past', past.paid, past.advised, past.shown, past.ends, past.credit, past.acked, past.unheard)
  BY <1>8, ReviewFacts DEF IsPast
<1>10. meta'.claim = k
  BY <1>6 DEF IsMeta
<1>11. ClaimSays'
  BY <1>3, <1>4, <1>5, <1>8, <1>10 DEF ClaimSays
<1>12. PlaceSays(w)'
  <2>1. worker'[w].at = "call"
    BY <1>7 DEF IsTurn, IsWork
  <2> QED
    BY <2>1, <1>3, <1>4, <1>5, <1>8, <1>10 DEF PlaceSays, Hands
<1>13. PaysOnce'
  BY <1>6, <1>8, SameKept DEF SameCalls, SameQueue, IsMeta
<1>14. CreditKept'
  <2>1. Spending
    BY <1>1 DEF Spending
  <2> QED
    BY <2>1, <1>8, CreditTurn DEF SameCredit
<1>15. control' \in Controls /\ control'.advice = control.advice
  BY <1>8, ReviewFacts
<1> QED
  BY <1>1, <1>2, <1>5, <1>6, <1>7, <1>8, <1>9, <1>11, <1>12, <1>13, <1>14, <1>15, StepKeeps

\* A call is owed by the cooldown that the caller found over.
LEMMA CallCredit ==
    ASSUME ReviewsInv, NEW w \in Workers, worker[w].at \in ToCall, ~Spending', control' = control,
           past'.credit = Spends
    PROVE  CreditKept' /\ Spends \in -1..2
<1>1. Spending /\ past.credit \in -1..2
  BY ReviewFacts, PastTyped DEF Spending, ToCall
<1> QED
  BY <1>1 DEF Spends, CreditKept, ReviewsInv

\* The model is called.
LEMMA CallKeeps == ASSUME ReviewsInv, NEW w \in Workers, NEW a \in Answers, Call(w, a) PROVE ReviewsInv'
<1> DEFINE r == meta.claim.review
<1>1. worker[w].at = "call" /\ worker[w].at \in Hands /\ worker[w].at \in OfFlush /\ worker[w].at \in ToCall
  BY DEF Call, At, Hands, OfFlush, ToCall
<1>2. Alone(w)
  BY <1>1, AtWork DEF Hands, Idle
<1>3. IsTurn(worker', worker, w, "called", worker[w].deferred, a)
  BY ReviewFacts, WorkChanges DEF Call, Places
<1>4. UNCHANGED <<issued, meta, knock, hook, health, mishaps, control>>
  BY DEF Call
<1>5. past.credit \in -1..2 /\ past.paid \in Counts
  BY ReviewFacts, PastTyped
<1>6. Spends \in -1..2
  BY <1>5 DEF Spends
<1>7. /\ More(past.paid, {r}) \in Counts
      /\ \A q \in Reviews : More(past.paid, {r})[q] = IF q \in {r} /\ past.paid[q] < 2 THEN past.paid[q] + 1 ELSE past.paid[q]
  BY <1>5, MoreCounts
<1>8. IsPast(past', More(past.paid, {r}), past.advised, past.shown, past.ends, Spends, past.acked, past.unheard)
  BY <1>6, <1>7, ReviewFacts, PastChanges DEF Call
<1>9. worker'[w].at = "called" /\ worker'[w].answer = a /\ ~Spending'
  BY <1>2, <1>3, TurnKept DEF ToCall
<1>10. CreditKept'
  BY <1>1, <1>4, <1>8, <1>9, CallCredit DEF IsPast
<1>11. meta.claim.phase = "sim_started" /\ past.paid[r] = 0 /\ r \in Reviews /\ r \in 1..Len(issued) /\ r # NoReview
  BY <1>1, AtHand DEF ReviewsInv, PlaceSays, Hands
<1>12. ClaimSays'
  BY <1>4, <1>8, <1>11 DEF ReviewsInv, ClaimSays, IsPast
<1>13. PlaceSays(w)'
  BY <1>4, <1>9, <1>11 DEF PlaceSays, Hands
<1>14. PaysOnce'
  <2>1. r \notin ToSet(meta.queue) /\ ~(r > Len(issued))
    BY <1>11 DEF ReviewsInv, WaitsOrEnded
  <2>2. \A q \in Reviews : past'.paid[q] = IF q = r THEN 1 ELSE past.paid[q]
    <3>1. past'.paid = More(past.paid, {r})
      BY <1>8 DEF IsPast
    <3> HIDE DEF r
    <3>2. \A q \in Reviews : More(past.paid, {r})[q] = IF q = r THEN 1 ELSE past.paid[q]
      BY <1>5, <1>11, MoreOne
    <3> QED
      BY <3>1, <3>2
  <2>3. past'.advised = past.advised /\ issued' = issued /\ meta' = meta
    BY <1>4, <1>8 DEF IsPast
  <2> QED
    BY <2>1, <2>2, <2>3 DEF ReviewsInv, PaysOnce
<1>15. IsMeta(meta', meta.queue, meta.admission, meta.claim, meta.pending, meta.receipt)
  BY <1>4, ReviewFacts DEF IsMeta
<1>16. control' \in Controls /\ control'.advice = control.advice
  BY <1>4, ReviewFacts
<1> HIDE DEF r
<1> QED
  BY <1>1, <1>2, <1>3, <1>4, <1>8, <1>10, <1>12, <1>13, <1>14, <1>15, <1>16, StepKeeps

\* Advocate is called.
LEMMA AdvocateKeeps == ASSUME ReviewsInv, NEW w \in Workers, Advocate(w) PROVE ReviewsInv'
<1> DEFINE r == meta.claim.review
<1>1. worker[w].at = "advocate" /\ worker[w].at \in Hands /\ worker[w].at \in OfFlush
  BY DEF Advocate, At, Hands, OfFlush
<1>2. Alone(w)
  BY <1>1, AtWork DEF Hands, Idle
<1>3. IsTurn(worker', worker, w, "advised", worker[w].deferred, worker[w].answer)
  BY ReviewFacts, WorkChanges DEF Advocate, Goes, Places
<1>4. UNCHANGED <<issued, meta, knock, hook, health, mishaps, control>>
  BY DEF Advocate
<1>5. past.advised \in Counts
  BY ReviewFacts, PastTyped
<1>7. /\ More(past.advised, {r}) \in Counts
      /\ \A q \in Reviews : More(past.advised, {r})[q] =
                              IF q \in {r} /\ past.advised[q] < 2 THEN past.advised[q] + 1 ELSE past.advised[q]
  BY <1>5, MoreCounts
<1>8. IsPast(past', past.paid, More(past.advised, {r}), past.shown, past.ends, past.credit, past.acked, past.unheard)
  BY <1>7, ReviewFacts, PastChanges DEF Advocate
<1>9. worker'[w].at = "advised" /\ ~Spending'
  BY <1>2, <1>3, TurnKept DEF ToCall
<1>10. CreditKept'
  BY <1>4, <1>8, <1>9, CreditTurn DEF IsPast, SameCredit
<1>11. meta.claim.phase = "advocate_started" /\ past.advised[r] = 0 /\ r \in Reviews /\ r \in 1..Len(issued) /\ r # NoReview
  BY <1>1, AtHand DEF ReviewsInv, PlaceSays, Hands
<1>12. ClaimSays'
  BY <1>4, <1>8, <1>11 DEF ReviewsInv, ClaimSays, IsPast
<1>13. PlaceSays(w)'
  BY <1>4, <1>9, <1>11 DEF PlaceSays, Hands
<1>14. PaysOnce'
  <2>1. r \notin ToSet(meta.queue) /\ ~(r > Len(issued))
    BY <1>11 DEF ReviewsInv, WaitsOrEnded
  <2>2. \A q \in Reviews : past'.advised[q] = IF q = r THEN 1 ELSE past.advised[q]
    <3>1. past'.advised = More(past.advised, {r})
      BY <1>8 DEF IsPast
    <3> HIDE DEF r
    <3>2. \A q \in Reviews : More(past.advised, {r})[q] = IF q = r THEN 1 ELSE past.advised[q]
      BY <1>5, <1>11, MoreOne
    <3> QED
      BY <3>1, <3>2
  <2>3. past'.paid = past.paid /\ issued' = issued /\ meta' = meta
    BY <1>4, <1>8 DEF IsPast
  <2> QED
    BY <2>1, <2>2, <2>3 DEF ReviewsInv, PaysOnce
<1>15. IsMeta(meta', meta.queue, meta.admission, meta.claim, meta.pending, meta.receipt)
  BY <1>4, ReviewFacts DEF IsMeta
<1>16. control' \in Controls /\ control'.advice = control.advice
  BY <1>4, ReviewFacts
<1> HIDE DEF r
<1> QED
  BY <1>1, <1>2, <1>3, <1>4, <1>8, <1>10, <1>12, <1>13, <1>14, <1>15, <1>16, StepKeeps

\* A check calls the model.
LEMMA CheckCallKeeps == ASSUME ReviewsInv, NEW w \in Workers, NEW a \in Answers, CheckCall(w, a) PROVE ReviewsInv'
<1>1. worker[w].at = "check" /\ worker[w].at \in ToCall
  BY DEF CheckCall, At, ToCall
<1>2. Alone(w)
  BY <1>1, AtWork DEF Idle
<1>3. IsTurn(worker', worker, w, "checked", worker[w].deferred, a)
  BY ReviewFacts, WorkChanges DEF CheckCall, Places
<1>4. UNCHANGED <<issued, meta, knock, hook, health, mishaps, control>>
  BY DEF CheckCall
<1>5. past.credit \in -1..2
  BY ReviewFacts, PastTyped
<1>6. Spends \in -1..2
  BY <1>5 DEF Spends
<1>8. IsPast(past', past.paid, past.advised, past.shown, past.ends, Spends, past.acked, past.unheard)
  BY <1>6, ReviewFacts, PastChanges DEF CheckCall
<1>9. worker'[w].at = "checked" /\ worker'[w].answer = a /\ ~Spending'
  BY <1>2, <1>3, TurnKept DEF ToCall
<1>10. CreditKept'
  BY <1>1, <1>4, <1>8, <1>9, CallCredit DEF IsPast
<1>12. ClaimSays' /\ PaysOnce'
  BY <1>4, <1>8, SameKept DEF IsPast, SameCalls, SameQueue
<1>13. PlaceSays(w)'
  BY <1>9 DEF PlaceSays, Hands
<1>15. IsMeta(meta', meta.queue, meta.admission, meta.claim, meta.pending, meta.receipt)
  BY <1>4, ReviewFacts DEF IsMeta
<1>16. control' \in Controls /\ control'.advice = control.advice /\ "checked" \notin OfFlush
  BY <1>4, ReviewFacts DEF OfFlush, Hands
<1> QED
  BY <1>1, <1>2, <1>3, <1>4, <1>8, <1>10, <1>12, <1>13, <1>15, <1>16, StepKeeps

\* What an outcome does to the circuit.
LEMMA AppliedCredit ==
    ASSUME ReviewsInv, NEW o
    PROVE  LET ctl == Applied(control, o) IN
           /\ ctl \in Controls /\ ctl.advice = control.advice /\ ctl.old = control.old /\ ctl.backoff = control.backoff
           /\ Credited(ctl) \in -1..2
           /\ ~Spending' /\ control'.failures = ctl.failures /\ control'.cooling = ctl.cooling
                 /\ past'.credit = Credited(ctl) => CreditKept'
<1>1. /\ control.failures \in 0..Threshold /\ control.cooling \in BOOLEAN /\ past.credit \in -1..2 /\ past.credit >= 0
      /\ Threshold \in Nat \ {0} /\ control \in Controls
      /\ (control.failures = Threshold /\ ~control.cooling => past.credit >= 1)
  BY ReviewFacts, ControlTyped, PastTyped DEF ReviewsFit, ReviewsInv, CreditKept
<1> DEFINE ctl == Applied(control, o)
<1>2. /\ ctl \in Controls /\ ctl.advice = control.advice /\ ctl.old = control.old /\ ctl.backoff = control.backoff
      /\ \/ ctl.failures = control.failures /\ (ctl.cooling <=> control.cooling)
         \/ ctl.failures = 0
         \/ ctl.failures \in 0..Threshold /\ (ctl.failures = Threshold => ctl.cooling)
  <2>1. CASE o \in {"quiet", "advisory"}
    <3>1. ctl = [control EXCEPT !.failures = 0, !.cooling = FALSE]
      BY <2>1 DEF Applied
    <3>2. 0 \in 0..Threshold
      BY <1>1
    <3> QED
      BY <3>1, <3>2, <1>1 DEF Controls
  <2>2. CASE o = "failure"
    <3>1. PICK f \in 0..Threshold : f = (IF control.failures < Threshold THEN control.failures + 1 ELSE Threshold)
      BY <1>1
    <3>2. PICK c \in BOOLEAN : c <=> (control.cooling \/ f = Threshold)
      OBVIOUS
    <3>3. ctl = [control EXCEPT !.failures = f, !.cooling = control.cooling \/ f = Threshold]
      BY <2>2, <3>1 DEF Applied
    <3> HIDE DEF ctl
    <3> QED
      BY <3>1, <3>3, <1>1 DEF Controls
  <2>3. CASE o \notin {"quiet", "advisory", "failure"}
    <3>1. ctl = control
      BY <2>3 DEF Applied
    <3> QED
      BY <3>1, <1>1
  <2> QED
    BY <2>1, <2>2, <2>3
<1> HIDE DEF ctl
<1>3. Credited(ctl) \in -1..2 /\ Credited(ctl) = IF ctl.failures < Threshold THEN 0 ELSE past.credit
  BY <1>1 DEF Credited
<1>4. ASSUME ~Spending', control'.failures = ctl.failures, control'.cooling = ctl.cooling, past'.credit = Credited(ctl)
      PROVE  CreditKept'
  BY <1>1, <1>2, <1>3, <1>4 DEF CreditKept
<1> QED
  BY <1>2, <1>3, <1>4 DEF ctl

\* A check ends.
LEMMA CheckEndsKeeps == ASSUME ReviewsInv, NEW w \in Workers, CheckEnds(w) PROVE ReviewsInv'
<1>1. worker[w].at = "checked"
  BY DEF CheckEnds, At
<1>2. Alone(w)
  BY <1>1, AtWork DEF Idle
<1>3. PICK n \in Workings : n = Off /\ n.at = "off"
  BY OffRow
<1>4. IsTurn(worker', worker, w, n.at, n.deferred, n.answer)
  <2>1. worker' = [worker EXCEPT ![w] = n]
    BY <1>3 DEF CheckEnds
  <2> QED
    BY <2>1, ReviewFacts, WorkChanges
<1>5. UNCHANGED <<issued, meta, knock, hook, health, mishaps>>
  BY DEF CheckEnds
<1>6. PICK o : control' = Applied(control, o) /\ past' = [past EXCEPT !.credit = Credited(Applied(control, o))]
  BY DEF CheckEnds
<1>7. PICK ctl \in Controls : /\ ctl = Applied(control, o) /\ ctl.advice = control.advice /\ Credited(ctl) \in -1..2
                              /\ ~Spending' /\ control'.failures = ctl.failures /\ control'.cooling = ctl.cooling
                                    /\ past'.credit = Credited(ctl) => CreditKept'
  BY AppliedCredit
<1>8. IsPast(past', past.paid, past.advised, past.shown, past.ends, Credited(ctl), past.acked, past.unheard)
  BY <1>6, <1>7, ReviewFacts, PastChanges
<1>9. ~Spending' /\ PlaceSays(w)'
  BY <1>2, <1>3, <1>4, TurnKept DEF ToCall, Idle
<1>10. CreditKept'
  BY <1>6, <1>7, <1>8, <1>9 DEF IsPast
<1>12. ClaimSays' /\ PaysOnce'
  BY <1>5, <1>8, SameKept DEF IsPast, SameCalls, SameQueue
<1>15. IsMeta(meta', meta.queue, meta.admission, meta.claim, meta.pending, meta.receipt)
  BY <1>5, ReviewFacts DEF IsMeta
<1>16. control' \in Controls /\ control'.advice = control.advice /\ n.at \notin OfFlush
  BY <1>3, <1>6, <1>7 DEF OfFlush, Hands
<1> QED
  BY <1>2, <1>4, <1>5, <1>8, <1>9, <1>10, <1>12, <1>15, <1>16, StepKeeps

\* The next review is claimed.
LEMMA ClaimNextKeeps == ASSUME ReviewsInv, NEW w \in Workers, ClaimNext(w) PROVE ReviewsInv'
<1> DEFINE queued == ToSet(meta.queue)
<1>1. worker[w].at = "next" /\ worker[w].at \in OfFlush /\ meta.claim = NoClaim /\ Candidates(w) # <<>>
  BY DEF ClaimNext, At, OfFlush
<1>2. Alone(w)
  BY <1>1, AtWork DEF Idle
<1>3. meta.queue \in Seq(Reviews) /\ Distinct(meta.queue) /\ queued \subseteq 1..Len(issued) /\ Len(issued) \in Nat
  BY ReviewFacts, MetaTyped DEF ReviewsInv, WaitsOrEnded
<1>4. PICK r \in queued : r = Head(Candidates(w)) /\ r \in Reviews
  <2>1. Candidates(w) \in Seq(Reviews) /\ ToSet(Candidates(w)) \subseteq queued
    BY <1>3, WhereSet DEF Candidates
  <2>2. Candidates(w)[1] \in ToSet(Candidates(w)) /\ Candidates(w)[1] \in Reviews
    BY <1>1, <2>1, TailSet
  <2>3. Head(Candidates(w)) = Candidates(w)[1]
    BY <1>1, <2>1
  <2> QED
    BY <2>1, <2>2, <2>3
<1>5. PICK q \in Seq(Reviews) : q = Where(meta.queue, Reviews \ {r}) /\ ToSet(q) = queued \ {r} /\ Distinct(q)
  <2>1. queued \subseteq Reviews
    BY <1>3, ReviewFacts
  <2> QED
    BY <1>3, <2>1, WhereSet
<1>6. PICK k \in Claims : k = ClaimOf(r) /\ IsClaim(k, r, "claimed", "none", "none")
  BY <1>4, ClaimChanges DEF IsClaim
<1>7. IsMeta(meta', q, meta.admission, k, meta.pending, meta.receipt)
  <2>1. meta' = [meta EXCEPT !.claim = k, !.queue = q]
    BY <1>4, <1>5, <1>6 DEF ClaimNext, Claimed
  <2> QED
    BY <2>1, ReviewFacts, MetaChanges
<1>8. IsTurn(worker', worker, w, "act", worker[w].deferred, worker[w].answer)
  <2>1. worker[w].jobs + 1 \in 0..MaxJobs /\ "act" \in Places
    BY ReviewFacts, WorkTyped DEF ClaimNext, Iterates, ReviewsFit, Places
  <2> QED
    BY <2>1, ReviewFacts, WorkChanges DEF ClaimNext
<1>9. UNCHANGED <<issued, control, knock, hook, health, past, mishaps>>
  BY DEF ClaimNext
<1>10. meta'.queue = q /\ meta'.claim = k /\ meta'.admission = meta.admission /\ k.review = r /\ k.phase = "claimed"
       /\ k.result = "none" /\ r # NoReview /\ r \in 1..Len(issued) /\ meta.claim.review = NoReview
  <2>1. meta.claim.review = NoReview
    BY <1>1, ClaimChanges DEF IsClaim
  <2>2. r # NoReview /\ r \in 1..Len(issued)
    BY <1>3, <1>4 DEF Reviews, NoReview
  <2> QED
    BY <2>1, <2>2, <1>6, <1>7 DEF IsMeta, IsClaim
<1> HIDE DEF queued
<1>11. ReviewsTypeOK'
  BY <1>2, <1>7, <1>8, <1>9, ReviewFacts, TurnKept DEF ReviewsFit, ReviewsTypeOK, IsMeta
<1>12. OneWorks' /\ ~Spending' /\ worker'[w].at = "act"
  BY <1>2, <1>8, TurnKept DEF ToCall
<1>13. \A v \in Workers : PlaceSays(v)'
  <2>1. PlaceSays(w)'
    BY <1>10, <1>12 DEF PlaceSays, Hands
  <2> QED
    BY <2>1, <1>2, <1>8, TurnKept
<1>14. ClaimSays'
  BY <1>4, <1>9, <1>10 DEF ClaimSays, ReviewsInv, PaysOnce, queued
<1>15. PaysOnce'
  BY <1>5, <1>9, <1>10 DEF ReviewsInv, PaysOnce, queued
<1>16. CreditKept'
  BY <1>9, <1>12, CreditTurn DEF SameCredit
<1>17. WaitsOrEnded'
  <2>1. \A x \in Reviews : past.ends[x] = IF x <= Len(issued) /\ x \notin ToSet(q) /\ x # r THEN 1 ELSE 0
    <3> SUFFICES ASSUME NEW x \in Reviews
                 PROVE  past.ends[x] = IF x <= Len(issued) /\ x \notin ToSet(q) /\ x # r THEN 1 ELSE 0
      OBVIOUS
    <3>1. past.ends[x] = IF x <= Len(issued) /\ x \notin queued /\ x # NoReview THEN 1 ELSE 0
      BY <1>10 DEF ReviewsInv, WaitsOrEnded, queued
    <3>2. x # NoReview
      BY DEF Reviews, NoReview
    <3> QED
      BY <1>4, <1>5, <3>1, <3>2
  <2>2. \A x \in past.acked : x <= Len(issued) /\ x \notin ToSet(q) /\ x # r
    BY <1>4, <1>5 DEF ReviewsInv, WaitsOrEnded, queued
  <2> QED
    BY <1>3, <1>5, <1>9, <1>10, <2>1, <2>2 DEF WaitsOrEnded
<1>18. OneWaits'
  <2>1. \A x, y \in ToSet(q) : Conv(x) = Conv(y) => x = y
    BY <1>5 DEF ReviewsInv, OneWaits, queued
  <2>2. \A x \in ToSet(q) : Conv(x) # Conv(r)
    BY <1>4, <1>5 DEF ReviewsInv, OneWaits, queued
  <2> QED
    BY <1>9, <1>10, <2>1, <2>2 DEF OneWaits, Conv
<1>19. Remembered'
  <2>1. \A x \in 1..Len(issued) : x # NoReview
    BY <1>3 DEF NoReview
  <2>2. \A x : x \in queued \/ meta.claim.review = x \/ x \in past.acked =>
               x \in ToSet(q) \/ r = x \/ x \in past.acked \/ x = NoReview
    BY <1>5, <1>10
  <2> QED
    BY <1>9, <1>10, <2>1, <2>2 DEF ReviewsInv, Remembered, LastOf, Conv, queued
<1>20. AdviceKept'
  BY <1>7, <1>9, SameKept DEF SameAdvice, IsMeta
<1>21. ReportsDue'
  BY <1>1, <1>7, <1>9 DEF ReviewsInv, ReportsDue, Reported, Heard, Conv, IsMeta
<1> QED
  BY <1>11, <1>12, <1>13, <1>14, <1>15, <1>16, <1>17, <1>18, <1>19, <1>20, <1>21 DEF ReviewsInv

\* The results that are due are reported.
LEMMA FlushKeeps == ASSUME ReviewsInv, NEW w \in Workers, Flush(w) PROVE ReviewsInv'
<1> DEFINE owed == {c \in Convs : meta.receipt[c].due}
           done(cs) == {meta.receipt[c].review : c \in cs}
           gone(cs) == UNION {meta.receipt[c].discards : c \in cs}
<1>1. worker[w].at = "flush" /\ Alone(w)
  BY AtWork DEF Flush, At, Idle
<1>2. PICK heard \in SUBSET owed :
        /\ health' = [r \in Reviews |-> health[r] \cup (IF r \in done(heard) THEN {"result"} ELSE {})
                                                  \cup (IF r \in gone(heard) THEN {"discarded"} ELSE {})]
        /\ meta' = [meta EXCEPT !.receipt = [c \in Convs |-> [meta.receipt[c] EXCEPT !.due = StaysDue(c, heard)]]]
        /\ past' = [past EXCEPT !.unheard = @ \cup done(owed \ heard)]
        /\ mishaps' \in 0..Faults
  <2>1. mishaps \in 0..Faults /\ Faults \in Nat
    BY ReviewFacts DEF ReviewsFit, ReviewsTypeOK
  <2>2. \E heard \in SUBSET owed :
        /\ health' = [r \in Reviews |-> health[r] \cup (IF r \in done(heard) THEN {"result"} ELSE {})
                                                  \cup (IF r \in gone(heard) THEN {"discarded"} ELSE {})]
        /\ meta' = [meta EXCEPT !.receipt = [c \in Convs |-> [meta.receipt[c] EXCEPT !.due = StaysDue(c, heard)]]]
        /\ past' = [past EXCEPT !.unheard = @ \cup done(owed \ heard)]
        /\ (UNCHANGED mishaps \/ Fault)
    BY DEF Flush
  <2>3. UNCHANGED mishaps \/ Fault => mishaps' \in 0..Faults
    BY <2>1 DEF Fault
  <2> QED
    BY <2>2, <2>3
<1>3. UNCHANGED <<issued, control, knock, hook>>
  BY DEF Flush
<1>4. meta.receipt \in [Convs -> Receipts] /\ past.unheard \in SUBSET Reviews /\ health \in [Reviews -> SUBSET Events]
  BY ReviewFacts, MetaTyped, PastTyped DEF ReviewsFit, ReviewsTypeOK, Events
<1>5. \A c \in owed : meta.receipt[c].review \in Reviews /\ meta.receipt[c].discards \subseteq Reviews
  BY <1>4 DEF Receipts, ReviewsInv, ReportsDue
<1>6. PICK u \in SUBSET Reviews : u = past.unheard \cup done(owed \ heard)
  BY <1>4, <1>5
<1>7. IsPast(past', past.paid, past.advised, past.shown, past.ends, past.credit, past.acked, u)
  BY <1>2, <1>6, ReviewFacts, PastChanges
<1>8. PICK t \in [Convs -> Receipts] :
        /\ t = [c \in Convs |-> [meta.receipt[c] EXCEPT !.due = StaysDue(c, heard)]]
        /\ \A c \in Convs : t[c].review = meta.receipt[c].review /\ t[c].due = StaysDue(c, heard)
  <2>1. \A m \in Receipts, h \in BOOLEAN :
           LET n == [m EXCEPT !.due = m.due /\ h] IN n \in Receipts /\ n.review = m.review /\ n.due = (m.due /\ h)
    BY DEF Receipts
  <2> DEFINE n(c) == [meta.receipt[c] EXCEPT !.due = meta.receipt[c].due /\ c \notin heard]
  <2>2. \A c \in Convs : n(c) \in Receipts /\ n(c).review = meta.receipt[c].review /\ n(c).due = StaysDue(c, heard)
    <3> SUFFICES ASSUME NEW c \in Convs
                 PROVE  n(c) \in Receipts /\ n(c).review = meta.receipt[c].review /\ n(c).due = StaysDue(c, heard)
      OBVIOUS
    <3>1. meta.receipt[c] \in Receipts /\ (c \notin heard) \in BOOLEAN
      BY <1>4
    <3> QED
      BY <2>1, <3>1 DEF StaysDue
  <2> DEFINE t0 == [c \in Convs |-> n(c)]
  <2> HIDE DEF n
  <2>3. t0 \in [Convs -> Receipts]
    BY <2>2
  <2>4. \A c \in Convs : t0[c].review = meta.receipt[c].review /\ t0[c].due = StaysDue(c, heard)
    BY <2>2
  <2>5. t0 = [c \in Convs |-> [meta.receipt[c] EXCEPT !.due = StaysDue(c, heard)]]
    BY DEF n, StaysDue
  <2> HIDE DEF t0
  <2> QED
    BY <2>3, <2>4, <2>5
<1>9. IsMeta(meta', meta.queue, meta.admission, meta.claim, meta.pending, t)
  BY <1>2, <1>8, ReviewFacts, MetaChanges
<1>10. health' \in [Reviews -> SUBSET Events]
  BY <1>2, <1>4 DEF Events
<1>11. \A r \in Reviews : /\ Reported(r) => Reported(r)'
                          /\ r \in done(heard) \cup done(owed \ heard) => Reported(r)'
                          /\ (Heard(r) \/ r \in done(heard) => Heard(r)')
                          /\ (r \in past.unheard => r \in past'.unheard)
  <2>1. \A r \in Reviews : health[r] \subseteq health'[r] /\ (r \in done(heard) => "result" \in health'[r])
    BY <1>2
  <2>2. past'.unheard = u /\ past.unheard \subseteq u /\ done(owed \ heard) \subseteq u
    BY <1>6, <1>7 DEF IsPast
  <2> HIDE DEF done, gone, owed
  <2> QED
    BY <2>1, <2>2 DEF Reported, Heard
<1>12. IsTurn(worker', worker, w, "next", worker[w].deferred, worker[w].answer)
  BY ReviewFacts, WorkChanges DEF Flush, Places
<1>13. ReviewsTypeOK'
  BY <1>1, <1>2, <1>3, <1>7, <1>9, <1>10, <1>12, ReviewFacts, TurnKept
     DEF ReviewsFit, ReviewsTypeOK, IsMeta, IsPast, Events
<1>14. OneWorks' /\ ~Spending' /\ worker'[w].at = "next" /\ \A v \in Workers : PlaceSays(v)'
  <2>1. worker'[w].at = "next"
    BY <1>1, <1>12, TurnKept
  <2>2. PlaceSays(w)'
    BY <2>1 DEF PlaceSays, Hands
  <2> QED
    BY <1>1, <1>12, <2>1, <2>2, TurnKept DEF ToCall
<1>15. SameCalls /\ SameQueue /\ SameWaits /\ SameAdvice /\ SameCredit /\ meta'.claim = meta.claim
       /\ meta'.admission = meta.admission
  BY <1>3, <1>7, <1>9 DEF SameCalls, SameQueue, SameWaits, SameAdvice, SameCredit, IsMeta, IsPast
<1>16. ClaimSays' /\ PaysOnce' /\ WaitsOrEnded' /\ OneWaits' /\ Remembered' /\ AdviceKept' /\ CreditKept'
  BY <1>14, <1>15, SameKept, CreditTurn
<1>17. ReportsDue'
  <2>1. \A r \in past.acked : Reported(r)'
    <3> SUFFICES ASSUME NEW r \in past.acked PROVE Reported(r)'
      OBVIOUS
    <3>1. r \in Reviews /\ r \in 1..Len(issued)
      BY ReviewFacts
    <3>2. CASE Reported(r)
      BY <1>11, <3>1, <3>2
    <3>3. CASE ~Reported(r)
      <4>1. meta.receipt[Conv(r)].review = r /\ meta.receipt[Conv(r)].due
        BY <3>3 DEF ReviewsInv, ReportsDue, Reported
      <4>2. Conv(r) \in Convs
        BY <3>1, ReviewFacts, ElementOfSeq DEF ReviewsFit, ReviewsTypeOK, Conv
      <4>3. Conv(r) \in owed
        BY <4>1, <4>2
      <4>4. r \in done(heard) \cup done(owed \ heard)
        BY <4>1, <4>3
      <4> HIDE DEF done, owed
      <4> QED
        BY <1>11, <3>1, <4>4
    <3> QED
      BY <3>2, <3>3
  <2>2. past'.acked = past.acked /\ meta'.receipt = t
    BY <1>7, <1>9 DEF IsPast, IsMeta
  <2>3. ASSUME NEW r \in past.acked
        PROVE  \/ Heard(r)'
               \/ t[Conv(r)].review = r /\ t[Conv(r)].due
               \/ t[Conv(r)].review # r /\ r \in past'.unheard
    <3>1. r \in Reviews /\ r \in 1..Len(issued)
      BY <2>3, ReviewFacts
    <3>2. Conv(r) \in Convs
      BY <3>1, ReviewFacts, ElementOfSeq DEF ReviewsFit, ReviewsTypeOK, Conv
    <3>3. t[Conv(r)].review = meta.receipt[Conv(r)].review /\ t[Conv(r)].due = StaysDue(Conv(r), heard)
      BY <1>8, <3>2
    <3>4. CASE Heard(r)
      BY <1>11, <3>1, <3>4
    <3>5. CASE meta.receipt[Conv(r)].review = r /\ meta.receipt[Conv(r)].due
      <4>1. Conv(r) \in heard => r \in done(heard)
        BY <3>5
      <4> HIDE DEF done
      <4> QED
        BY <1>11, <3>1, <3>3, <3>5, <4>1 DEF StaysDue
    <3>6. CASE meta.receipt[Conv(r)].review # r /\ r \in past.unheard
      BY <1>11, <3>1, <3>3, <3>6
    <3> QED
      BY <2>3, <3>4, <3>5, <3>6 DEF ReviewsInv, ReportsDue
  <2>4. \A c \in Convs : t[c].due => t[c].review # NoReview
    BY <1>8 DEF ReviewsInv, ReportsDue, StaysDue
  <2>5. \A r : Conv(r)' = Conv(r)
    BY <1>3 DEF Conv
  <2> HIDE DEF done, gone, owed
  <2> QED
    BY <2>1, <2>2, <2>3, <2>4, <2>5 DEF ReportsDue
<1> QED
  BY <1>13, <1>14, <1>16, <1>17 DEF ReviewsInv

\* A claim goes back to the queue, behind what has come for others, or ends
\* because a newer one waits.
LEMMA ParkKeeps == ASSUME ReviewsInv, NEW w \in Workers, Park(w) PROVE ReviewsInv'
<1> DEFINE queued == ToSet(meta.queue)
           len == Len(issued)
<1>1. worker[w].at = "park" /\ worker[w].at \in OfFlush /\ worker[w].at \in Hands /\ meta.claim.phase = "claimed"
  BY DEF ReviewsInv, PlaceSays, Park, At, OfFlush, Hands
<1>2. Alone(w)
  BY <1>1, AtWork DEF Idle
<1>3. PICK r \in Reviews : r = meta.claim.review /\ r \in 1..len /\ r # NoReview /\ r \notin queued
  BY <1>1, AtHand DEF ReviewsInv, WaitsOrEnded, Reviews, NoReview
<1>4. meta.queue \in Seq(Reviews) /\ Distinct(meta.queue) /\ queued \subseteq 1..len /\ len \in Nat /\ 1..len \subseteq Reviews
  BY ReviewFacts, MetaTyped DEF ReviewsInv, WaitsOrEnded
<1> DEFINE waiting == IF Lacks(meta.queue, Conv(r)) THEN Append(meta.queue, r) ELSE meta.queue
<1>5. /\ waiting \in Seq(Reviews) /\ Distinct(waiting)
      /\ \A q \in ToSet(waiting) : q \in queued \/ (q = r /\ \A y \in queued : Conv(y) # Conv(r))
  <2>1. CASE Lacks(meta.queue, Conv(r))
    <3>1. /\ Append(meta.queue, r) \in Seq(Reviews) /\ Distinct(Append(meta.queue, r))
          /\ ToSet(Append(meta.queue, r)) = queued \cup {r}
      BY <1>3, <1>4, AppendSet
    <3> QED
      BY <2>1, <3>1 DEF Lacks
  <2>2. CASE ~Lacks(meta.queue, Conv(r))
    BY <2>2, <1>4
  <2> QED
    BY <2>1, <2>2
<1> HIDE DEF waiting
<1>6. PICK kept \in Seq(Reviews) : kept = Newest(waiting) /\ Distinct(kept) /\ ToSet(kept) \subseteq ToSet(waiting)
  BY <1>5, NewestSet, ReviewFacts DEF ReviewsFit
<1>7. PICK out : out = (queued \cup {r}) \ ToSet(kept)
  OBVIOUS
<1> DEFINE left == {Conv(q) : q \in out} \ {Conv(q) : q \in ToSet(kept)}
<1>8. /\ meta' = [meta EXCEPT !.queue = kept, !.claim = NoClaim,
                    !.admission = [d \in Convs |-> IF d \in left THEN {} ELSE @[d]]]
      /\ control' = [control EXCEPT !.advice = Marked(control.advice, out, "discarded")]
      /\ past' = [past EXCEPT !.ends = More(past.ends, out)]
      /\ worker' = [worker EXCEPT ![w].at = "next", ![w].deferred = worker[w].deferred \cup {r}]
      /\ UNCHANGED <<issued, knock, hook, health, mishaps>>
  BY <1>3, <1>6, <1>7 DEF Park, waiting
<1>9. PICK a \in [Convs -> SUBSET Windows] : /\ a = [d \in Convs |-> IF d \in left THEN {} ELSE meta.admission[d]]
                                             /\ \A d \in Convs : a[d] = IF d \in left THEN {} ELSE meta.admission[d]
  <2>1. meta.admission \in [Convs -> SUBSET Windows]
    BY ReviewFacts, MetaTyped
  <2> DEFINE a0 == [d \in Convs |-> IF d \in left THEN {} ELSE meta.admission[d]]
  <2> HIDE DEF left
  <2>2. a0 \in [Convs -> SUBSET Windows]
    BY <2>1
  <2>3. \A d \in Convs : a0[d] = IF d \in left THEN {} ELSE meta.admission[d]
    OBVIOUS
  <2>4. a0 = [d \in Convs |-> IF d \in left THEN {} ELSE meta.admission[d]]
    OBVIOUS
  <2> HIDE DEF a0
  <2> QED
    BY <2>2, <2>3, <2>4
<1>10. NoClaim \in Claims /\ NoClaim.review = NoReview
  BY ClaimChanges DEF IsClaim
<1>11. IsMeta(meta', kept, a, NoClaim, meta.pending, meta.receipt)
  BY <1>8, <1>9, <1>10, ReviewFacts, MetaChanges
<1>12. /\ past.ends \in Counts /\ More(past.ends, out) \in Counts
       /\ \A x \in Reviews : More(past.ends, out)[x] = IF x \in out /\ past.ends[x] < 2 THEN past.ends[x] + 1 ELSE past.ends[x]
  BY ReviewFacts, PastTyped, MoreCounts
<1>13. IsPast(past', past.paid, past.advised, past.shown, More(past.ends, out), past.credit, past.acked, past.unheard)
  BY <1>8, <1>12, ReviewFacts, PastChanges
<1>14. PICK d \in [Reviews -> AdviceStates] : d = Marked(control.advice, out, "discarded")
                     /\ \A x \in Reviews : d[x] = IF x \in out THEN "discarded" ELSE control.advice[x]
  <2>1. "discarded" \in AdviceStates /\ control.advice \in [Reviews -> AdviceStates]
    BY ReviewFacts, ControlTyped DEF AdviceStates
  <2> QED
    BY <2>1, MarkedTyped
<1>15. IsControl(control', control.failures, control.cooling, control.backoff, d, control.old)
  BY <1>8, <1>14, ReviewFacts, ControlChanges
<1>16. PICK e \in SUBSET Reviews : e = worker[w].deferred \cup {r}
  BY ReviewFacts, WorkTyped
<1>17. IsTurn(worker', worker, w, "next", e, worker[w].answer)
  BY <1>8, <1>16, ReviewFacts, WorkChanges DEF Places
<1>18. past.acked \subseteq 1..len /\ past.acked \cap out = {}
  BY <1>3, <1>7, ReviewFacts DEF ReviewsInv, WaitsOrEnded
<1>19. meta'.claim = NoClaim /\ meta'.queue = kept /\ meta'.claim.review = NoReview /\ issued' = issued
       /\ past'.paid = past.paid /\ past'.advised = past.advised /\ past'.acked = past.acked
  BY <1>8, <1>10, <1>11, <1>13 DEF IsMeta, IsPast
<1> HIDE DEF queued, left
<1>20. ReviewsTypeOK'
  BY <1>2, <1>8, <1>11, <1>13, <1>15, <1>17, ReviewFacts, TurnKept
     DEF ReviewsFit, ReviewsTypeOK, IsMeta, IsPast, IsControl
<1>21. OneWorks' /\ ~Spending' /\ worker'[w].at = "next"
  BY <1>2, <1>17, TurnKept DEF ToCall
<1>22. \A v \in Workers : PlaceSays(v)'
  <2>1. PlaceSays(w)'
    BY <1>21 DEF PlaceSays, Hands
  <2> QED
    BY <2>1, <1>2, <1>17, TurnKept
<1>23. ClaimSays'
  BY <1>19 DEF ClaimSays
<1>24. PaysOnce'
  <2>1. past.paid[r] = 0 /\ past.advised[r] = 0
    BY <1>1, <1>3 DEF ReviewsInv, ClaimSays
  <2>2. \A q \in ToSet(kept) : q \in queued \/ q = r
    BY <1>5, <1>6
  <2> QED
    BY <1>19, <2>1, <2>2 DEF ReviewsInv, PaysOnce, queued
<1>25. CreditKept'
  BY <1>13, <1>15, <1>21, CreditTurn DEF SameCredit, IsPast, IsControl
<1>26. \A x \in Reviews : x \notin out => (x \in ToSet(kept) <=> x \in queued \/ x = r)
  BY <1>5, <1>6, <1>7
<1>27. WaitsOrEnded'
  <2>1. ASSUME NEW x \in Reviews PROVE past'.ends[x] = IF x <= len /\ x \notin ToSet(kept) /\ x # NoReview THEN 1 ELSE 0
    <3>1. past.ends[x] = IF x <= len /\ x \notin queued /\ x # r THEN 1 ELSE 0
      BY <1>3 DEF ReviewsInv, WaitsOrEnded, queued
    <3>2. past'.ends[x] = IF x \in out /\ past.ends[x] < 2 THEN past.ends[x] + 1 ELSE past.ends[x]
      BY <1>12, <1>13 DEF IsPast
    <3>3. x # NoReview
      BY DEF Reviews, NoReview
    <3>4. CASE x \in out
      <4>1. (x \in queued \/ x = r) /\ x \notin ToSet(kept) /\ x <= len
        BY <1>3, <1>4, <1>7, <3>4 DEF queued
      <4>2. past.ends[x] = 0
        BY <3>1, <4>1
      <4> QED
        BY <3>2, <3>3, <3>4, <4>1, <4>2
    <3>5. CASE x \notin out
      BY <1>26, <3>1, <3>2, <3>3, <3>5
    <3> QED
      BY <3>4, <3>5
  <2>2. \A x \in past.acked : x <= len /\ x \notin ToSet(kept) /\ x # NoReview
    <3>1. \A x \in past.acked : x \notin queued /\ x # r
      BY <1>3 DEF ReviewsInv, WaitsOrEnded, queued
    <3> QED
      BY <1>4, <1>18, <1>26, <3>1 DEF Reviews, NoReview
  <2>3. ToSet(kept) \subseteq 1..len
    BY <1>3, <1>4, <1>5, <1>6 DEF queued
  <2> QED
    BY <1>6, <1>19, <2>1, <2>2, <2>3 DEF WaitsOrEnded
<1>28. \A x, y \in ToSet(waiting) : Conv(x) = Conv(y) => x = y
  BY <1>5 DEF ReviewsInv, OneWaits, queued
<1>29. OneWaits'
  <2>1. \A x, y \in ToSet(kept) : Conv(x) = Conv(y) => x = y
    BY <1>6, <1>28
  <2> QED
    BY <1>19, <2>1 DEF OneWaits, Conv
<1>30. Remembered'
  <2> SUFFICES ASSUME NEW x \in 1..len, a[Conv(x)] # {}, LastOf(x), x \notin past.acked
               PROVE  x \in ToSet(kept)
    BY <1>11, <1>19 DEF Remembered, LastOf, Conv, IsMeta
  <2>1. Conv(x) \in Convs /\ x \in Reviews
    BY <1>4, ReviewFacts, ElementOfSeq DEF ReviewsFit, ReviewsTypeOK, Conv
  <2>2. meta.admission[Conv(x)] # {} /\ Conv(x) \notin left
    BY <1>9, <2>1
  <2>3. x \in queued \/ x = r
    BY <1>3, <2>2 DEF ReviewsInv, Remembered, queued
  <2>4. ASSUME x \notin ToSet(kept) PROVE FALSE
    <3>1. x \in out
      BY <1>7, <2>3, <2>4
    <3>2. PICK y \in ToSet(kept) : Conv(y) = Conv(x)
      BY <2>2, <3>1 DEF left
    <3>3. y \in ToSet(waiting) /\ y # x /\ y \in 1..len /\ (y \in queued \/ (y = r /\ \A z \in queued : Conv(z) # Conv(r)))
      BY <1>3, <1>4, <1>5, <1>6, <2>4 DEF queued
    <3>4. y < x
      <4>1. y > x => y \in (x + 1)..len
        BY <3>3, <1>4
      <4> QED
        BY <4>1, <3>2, <3>3 DEF LastOf
    <3>5. CASE x \in queued
      BY <3>2, <3>3, <3>5 DEF ReviewsInv, OneWaits, queued
    <3>6. CASE x = r
      <4>1. y \in queued
        BY <3>3, <3>6
      <4>2. y > r
        BY <1>3, <3>2, <3>6, <4>1 DEF ReviewsInv, OneWaits, queued
      <4> QED
        BY <3>3, <3>4, <3>6, <4>2
    <3> QED
      BY <2>3, <3>5, <3>6
  <2> QED
    BY <2>4
<1>31. AdviceKept'
  BY <1>8, <1>11, <1>13, <1>14, <1>15, <1>18 DEF IsMeta, IsPast, IsControl, AdviceKept, ReviewsInv
<1>32. ReportsDue'
  BY <1>1, <1>8, <1>11, <1>13 DEF ReviewsInv, ReportsDue, Reported, Heard, Conv, IsMeta, IsPast
<1> QED
  BY <1>20, <1>21, <1>22, <1>23, <1>24, <1>25, <1>27, <1>29, <1>30, <1>31, <1>32 DEF ReviewsInv

\* A review ends with its outcome.
LEMMA AcknowledgeKeeps == ASSUME ReviewsInv, NEW w \in Workers, Acknowledge(w) PROVE ReviewsInv'
<1> DEFINE r == meta.claim.review
           c == Conv(r)
           len == Len(issued)
           held == ToSet(meta.pending)
           ready == meta.claim.phase = "ready"
           others == Others(meta.pending, c)
           over == IF ready THEN held \ ToSet(others) ELSE {}
           kept == IF ready THEN Newest(Append(others, r)) ELSE meta.pending
           out == (over \cup held) \ ToSet(kept)
           new == IF ready THEN {r} ELSE {}
           x == IF r \in control.old THEN "expired" ELSE "generated"
           ctl == Applied(control, meta.claim.terminal)
           row == [review |-> r, due |-> TRUE, discards |-> over]
           t == [meta.receipt EXCEPT ![c] = row]
           n == More(past.ends, {r})
           acked == past.acked \cup {r}
           d == Marked(Marked(ctl.advice, out, "discarded"), new, x)
<1>1. worker[w].at = "ack" /\ worker[w].at \in OfFlush /\ worker[w].at \in Hands
  BY DEF Acknowledge, At, OfFlush, Hands
<1>2. Alone(w)
  BY <1>1, AtWork DEF Idle
<1>14. /\ meta' = [meta EXCEPT !.claim = NoClaim, !.pending = kept, !.receipt = t]
       /\ control' = [ctl EXCEPT !.advice = d]
       /\ past' = [past EXCEPT !.ends = n, !.acked = acked, !.credit = Credited(ctl)]
       /\ worker' = [worker EXCEPT ![w].at = "flush"]
       /\ UNCHANGED <<issued, knock, hook, health, mishaps>>
  BY DEF Acknowledge, Goes
<1>3. r \in Reviews /\ r \in 1..len /\ r # NoReview /\ r \notin ToSet(meta.queue) /\ r \notin past.acked
  BY <1>1, AtHand DEF ReviewsInv, WaitsOrEnded, Reviews, NoReview
<1>4. meta.pending \in Seq(Reviews) /\ held \subseteq past.acked /\ held \subseteq Reviews
  BY ReviewFacts, MetaTyped, OthersSet DEF ReviewsInv, AdviceKept
<1>5. c \in Convs
  BY <1>3, ReviewFacts, ElementOfSeq DEF ReviewsFit, ReviewsTypeOK, Conv
<1>6. over \in SUBSET Reviews /\ over \subseteq held
  BY <1>4
<1>7. kept \in Seq(Reviews) /\ ToSet(kept) \subseteq held \cup {r}
  <2>1. others \in Seq(Reviews) /\ ToSet(others) \subseteq held
    BY <1>4, OthersSet
  <2> HIDE DEF others, r
  <2>2. Append(others, r) \in Seq(Reviews) /\ ToSet(Append(others, r)) = ToSet(others) \cup {r}
    BY <1>3, <2>1, AppendSet
  <2>3. Newest(Append(others, r)) \in Seq(Reviews) /\ ToSet(Newest(Append(others, r))) \subseteq ToSet(Append(others, r))
    BY <2>2, NewestSet, ReviewFacts DEF ReviewsFit
  <2>4. CASE ready
    BY <2>1, <2>2, <2>3, <2>4
  <2>5. CASE ~ready
    BY <1>4, <2>5
  <2> QED
    BY <2>4, <2>5
<1>8. out \subseteq held
  BY <1>6
<1>9. x \in AdviceStates
  BY DEF AdviceStates
<1>10. \A y \in new : y = r
  OBVIOUS
<1> HIDE DEF over
<1>11. row \in Receipts /\ row.review = r /\ row.due
  BY <1>3, <1>6 DEF Receipts
<1> HIDE DEF row, r, c, held, others, kept, out, new, x
<1>13. /\ ctl \in Controls /\ ctl.advice = control.advice /\ Credited(ctl) \in -1..2
       /\ ~Spending' /\ control'.failures = ctl.failures /\ control'.cooling = ctl.cooling
             /\ past'.credit = Credited(ctl) => CreditKept'
  BY AppliedCredit
<1> HIDE DEF ctl
<1>15. meta.receipt \in [Convs -> Receipts] /\ NoClaim \in Claims /\ NoClaim.review = NoReview
  BY ReviewFacts, MetaTyped, ClaimChanges DEF IsClaim
<1>16. t \in [Convs -> Receipts] /\ t[c] = row /\ \A b \in Convs \ {c} : t[b] = meta.receipt[b]
  BY <1>5, <1>11, <1>15
<1>18. past.ends \in Counts /\ past.ends[r] = 0
  BY <1>3, ReviewFacts, PastTyped DEF ReviewsInv, WaitsOrEnded, r
<1>19. n \in Counts /\ \A q \in Reviews : n[q] = IF q = r THEN 1 ELSE past.ends[q]
  BY <1>3, <1>18, MoreOne
<1>20. acked \in SUBSET Reviews
  BY <1>3, ReviewFacts, PastTyped
<1>22. /\ d \in [Reviews -> AdviceStates]
       /\ \A y \in Reviews : y # r /\ y \notin out => d[y] = control.advice[y]
  <2>1. "discarded" \in AdviceStates /\ ctl.advice \in [Reviews -> AdviceStates]
    BY <1>13, ControlTyped DEF AdviceStates
  <2> DEFINE m == Marked(ctl.advice, out, "discarded")
  <2>2. m \in [Reviews -> AdviceStates] /\ \A y \in Reviews : m[y] = IF y \in out THEN "discarded" ELSE ctl.advice[y]
    BY <2>1, MarkedTyped
  <2> HIDE DEF m
  <2>3. Marked(m, new, x) \in [Reviews -> AdviceStates] /\ \A y \in Reviews : Marked(m, new, x)[y] = IF y \in new THEN x ELSE m[y]
    BY <1>9, <2>2, MarkedTyped
  <2>4. d = Marked(m, new, x)
    BY DEF m
  <2> QED
    BY <1>10, <1>13, <2>2, <2>3, <2>4
<1> HIDE DEF t, n, acked, d
<1>17. IsMeta(meta', meta.queue, meta.admission, NoClaim, kept, t)
  BY <1>7, <1>14, <1>15, <1>16, ReviewFacts, MetaChanges
<1>21. IsPast(past', past.paid, past.advised, past.shown, n, Credited(ctl), acked, past.unheard)
  BY <1>13, <1>14, <1>19, <1>20, ReviewFacts, PastChanges
<1>23. IsControl(control', ctl.failures, ctl.cooling, ctl.backoff, d, ctl.old)
  BY <1>13, <1>14, <1>22, ControlChanges
<1>24. IsTurn(worker', worker, w, "flush", worker[w].deferred, worker[w].answer)
  BY <1>14, ReviewFacts, WorkChanges DEF Places
<1>25. /\ meta'.claim = NoClaim /\ meta'.queue = meta.queue /\ meta'.claim.review = NoReview /\ issued' = issued
       /\ meta'.admission = meta.admission /\ meta'.pending = kept /\ meta'.receipt = t
       /\ past'.paid = past.paid /\ past'.advised = past.advised /\ past'.acked = acked /\ past'.shown = past.shown
       /\ past'.ends = n /\ past'.unheard = past.unheard /\ health' = health /\ hook' = hook /\ control'.advice = d
  BY <1>14, <1>15, <1>17, <1>21, <1>23 DEF IsMeta, IsPast, IsControl
<1>26. ReviewsTypeOK'
  BY <1>2, <1>14, <1>17, <1>21, <1>23, <1>24, ReviewFacts, TurnKept
     DEF ReviewsFit, ReviewsTypeOK, IsMeta, IsPast, IsControl
<1>27. OneWorks' /\ ~Spending' /\ worker'[w].at = "flush" /\ ~(\E v \in Workers : worker[v].at \in OfFlush)'
  BY <1>2, <1>24, TurnKept DEF ToCall, OfFlush, Hands
<1>28. \A v \in Workers : PlaceSays(v)'
  <2>1. PlaceSays(w)'
    BY <1>27 DEF PlaceSays, Hands
  <2> QED
    BY <2>1, <1>2, <1>24, TurnKept
<1>29. ClaimSays'
  BY <1>25 DEF ClaimSays
<1>30. PaysOnce'
  BY <1>25, SameKept DEF SameCalls, SameQueue
<1>31. CreditKept'
  BY <1>13, <1>21, <1>23, <1>27 DEF IsPast, IsControl
<1>32. WaitsOrEnded'
  <2>1. ASSUME NEW q \in Reviews PROVE n[q] = IF q <= len /\ q \notin ToSet(meta.queue) /\ q # NoReview THEN 1 ELSE 0
    <3>1. past.ends[q] = IF q <= len /\ q \notin ToSet(meta.queue) /\ q # r THEN 1 ELSE 0
      BY DEF ReviewsInv, WaitsOrEnded, r
    <3>2. q # NoReview /\ r <= len
      BY <1>3 DEF Reviews, NoReview
    <3> QED
      BY <1>3, <1>19, <3>1, <3>2
  <2>2. \A q \in acked : q <= len /\ q \notin ToSet(meta.queue) /\ q # NoReview
    <3>1. \A q \in past.acked : q <= len /\ q \notin ToSet(meta.queue)
      BY DEF ReviewsInv, WaitsOrEnded
    <3>2. r <= len
      BY <1>3
    <3> QED
      BY <1>3, <1>20, <3>1, <3>2 DEF Reviews, NoReview, acked
  <2> QED
    BY <1>25, <2>1, <2>2 DEF WaitsOrEnded, ReviewsInv
<1>33. OneWaits'
  BY <1>25 DEF OneWaits, ReviewsInv, Conv
<1>34. Remembered'
  BY <1>3, <1>25 DEF Remembered, ReviewsInv, Conv, LastOf, acked, r
<1>35. AdviceKept'
  <2>1. ToSet(kept) \subseteq acked /\ past.acked \subseteq acked
    BY <1>4, <1>7 DEF acked
  <2>2. ASSUME NEW y \in Reviews, y \in hook \/ past.shown[y] = 1 PROVE d[y] \in Standing /\ y \notin ToSet(kept)
    <3>1. y \in past.acked /\ control.advice[y] \in Standing /\ y \notin held
      BY <2>2 DEF ReviewsInv, AdviceKept, held
    <3>2. y # r /\ y \notin out
      BY <1>3, <1>8, <3>1
    <3> QED
      BY <1>7, <1>22, <3>1, <3>2
  <2> QED
    BY <1>25, <2>1, <2>2 DEF AdviceKept, ReviewsInv
<1>36. ReportsDue'
  <2>1. \A q \in past.acked : Heard(q) \/ q \in past.unheard
    BY <1>1 DEF ReviewsInv, ReportsDue, Reported, Heard
  <2>2. \A q \in Reviews : (Heard(q) => Heard(q)') /\ (q \in past.unheard => q \in past'.unheard)
    BY <1>25 DEF Heard
  <2>3. \A b \in Convs : t[b].due => t[b].review # NoReview
    BY <1>3, <1>11, <1>16 DEF ReviewsInv, ReportsDue
  <2>4. t[Conv(r)].review = r /\ t[Conv(r)].due
    BY <1>5, <1>11, <1>16 DEF c
  <2>5. ASSUME NEW q \in acked
        PROVE  \/ Heard(q)'
               \/ t[Conv(q)].review = q /\ t[Conv(q)].due
               \/ t[Conv(q)].review # q /\ q \in past'.unheard
    <3>1. CASE q = r
      BY <2>4, <3>1
    <3>2. CASE q # r
      <4>1. q \in past.acked
        BY <2>5, <3>2 DEF acked
      <4>2. CASE Conv(q) = c
        BY <1>20, <2>1, <2>2, <2>4, <3>2, <4>1, <4>2 DEF c
      <4>3. CASE Conv(q) # c
        <5>1. Conv(q) \in Convs
          BY <4>1, ReviewFacts, ElementOfSeq DEF ReviewsFit, ReviewsTypeOK, Conv
        <5>2. t[Conv(q)] = meta.receipt[Conv(q)]
          BY <1>16, <4>3, <5>1
        <5> QED
          BY <1>20, <2>2, <4>1, <5>2 DEF ReviewsInv, ReportsDue
      <4> QED
        BY <4>2, <4>3
    <3> QED
      BY <3>1, <3>2
  <2> QED
    BY <1>25, <1>27, <2>3, <2>5 DEF ReportsDue, Conv
<1> QED
  BY <1>26, <1>27, <1>28, <1>29, <1>30, <1>31, <1>32, <1>33, <1>34, <1>35, <1>36 DEF ReviewsInv

-----------------------------------------------------------------------------
\* The queue starts so.
LEMMA ReviewsStart == ReviewsInit => ReviewsInv
<1> SUFFICES ASSUME ReviewsInit PROVE ReviewsInv
  OBVIOUS
<1>1. /\ issued = <<>> /\ Len(issued) = 0 /\ issued \in Seq(Convs \X Windows)
      /\ <<>> \in Seq(Reviews) /\ ToSet(<<>>) = {} /\ Distinct(<<>>) /\ 1..0 = {}
  BY EmptySeq DEF ReviewsInit, ToSet, Distinct
<1>2. MaxReviews \in Nat /\ Threshold \in Nat \ {0} /\ Faults \in Nat
  BY ReviewsAssumption
<1> DEFINE adm == [c \in Convs |-> {}]
           rec == [c \in Convs |-> [review |-> NoReview, due |-> FALSE, discards |-> {}]]
           zero == [r \in Reviews |-> 0]
           none == [r \in Reviews |-> "none"]
<1>3. meta \in Rows /\ meta.queue = <<>> /\ meta.claim = NoClaim /\ meta.pending = <<>> /\ meta.admission = adm
      /\ meta.receipt = rec
  <2>1. NoClaim \in Claims
    BY ClaimChanges DEF IsClaim
  <2>2. adm \in [Convs -> SUBSET Windows] /\ rec \in [Convs -> Receipts]
    BY DEF Receipts
  <2> HIDE DEF adm, rec
  <2>3. meta = [queue |-> <<>>, admission |-> adm, claim |-> NoClaim, pending |-> <<>>, receipt |-> rec]
    BY DEF ReviewsInit, adm, rec
  <2> QED
    BY <1>1, <2>1, <2>2, <2>3 DEF Rows, Receipts
<1>4. control \in Controls /\ control.failures = 0
  <2>1. none \in [Reviews -> AdviceStates] /\ 0 \in 0..Threshold
    BY <1>2 DEF AdviceStates
  <2> HIDE DEF none
  <2>2. control = [failures |-> 0, cooling |-> FALSE, backoff |-> {}, advice |-> none, old |-> {}]
    BY DEF ReviewsInit, none
  <2> QED
    BY <2>1, <2>2 DEF Controls
<1>5. past \in Pasts /\ past.paid = zero /\ past.advised = zero /\ past.shown = zero /\ past.ends = zero
      /\ past.credit = 0 /\ past.acked = {} /\ past.unheard = {}
  <2>1. zero \in [Reviews -> 0..2]
    OBVIOUS
  <2> HIDE DEF zero
  <2>2. past = [paid |-> zero, advised |-> zero, shown |-> zero, ends |-> zero, credit |-> 0, acked |-> {}, unheard |-> {}]
    BY DEF ReviewsInit, zero
  <2> QED
    BY <2>1, <2>2 DEF Pasts
<1>6. worker \in [Workers -> Workings] /\ \A w \in Workers : worker[w].at = "off"
  BY OffRow DEF ReviewsInit
<1>7. ReviewsTypeOK
  <2>1. hook = {} /\ knock = FALSE /\ mishaps = 0 /\ issued = <<>>
    BY DEF ReviewsInit
  <2>2. mishaps \in 0..Faults
    BY <2>1, ReviewsAssumption
  <2>3. hook \subseteq Reviews /\ knock \in BOOLEAN
    BY <2>1
  <2>4. issued \in Seq(Convs \X Windows) /\ Len(issued) <= MaxReviews
    BY <1>1, ReviewsAssumption
  <2>5. health \in [Reviews -> SUBSET {"queued", "result", "delivered", "discarded"}]
    BY <1>2 DEF ReviewsInit
  <2> QED
    BY <1>3, <1>4, <1>5, <1>6, <2>2, <2>3, <2>4, <2>5 DEF ReviewsTypeOK
<1>8. OneWorks /\ \A w \in Workers : PlaceSays(w)
  BY <1>6 DEF OneWorks, PlaceSays, Idle, Hands
<1>9. ClaimSays
  BY <1>3, ClaimChanges DEF ClaimSays, IsClaim
<1>10. PaysOnce
  BY <1>5 DEF PaysOnce
<1>11. CreditKept
  BY <1>2, <1>4, <1>5 DEF CreditKept
<1>12. meta.claim.review = NoReview /\ ToSet(meta.queue) = {} /\ ToSet(meta.pending) = {} /\ Distinct(meta.queue)
  BY <1>1, <1>3, ClaimChanges DEF IsClaim
<1>13. WaitsOrEnded
  BY <1>1, <1>5, <1>12 DEF WaitsOrEnded, Reviews
<1>14. OneWaits /\ Remembered
  BY <1>1, <1>12 DEF OneWaits, Remembered
<1>15. AdviceKept
  BY <1>5, <1>12 DEF AdviceKept, ReviewsInit
<1>16. ReportsDue
  BY <1>3, <1>5 DEF ReportsDue
<1> QED
  BY <1>7, <1>8, <1>9, <1>10, <1>11, <1>13, <1>14, <1>15, <1>16 DEF ReviewsInv

\* Every step keeps it.
LEMMA ReviewsKeep == ReviewsInv /\ [ReviewsNext]_reviewVars => ReviewsInv'
<1> SUFFICES ASSUME ReviewsInv, [ReviewsNext]_reviewVars PROVE ReviewsInv'
  OBVIOUS
<1>1. CASE Hooks
  BY <1>1, EnqueueKeeps, PopKeeps, ShowKeeps, HookDiesKeeps DEF Hooks
<1>2. CASE Switches
  BY <1>2, AcknowledgeAdviceKeeps, AgesKeeps, CooldownEndsKeeps DEF Switches
<1>3. CASE Wake
  BY <1>3, WakeKeeps
<1>4. ASSUME NEW w \in Workers, Enter(w) \/ Drain(w) \/ Die(w) \/ \E c \in Convs : Check(w, c) PROVE ReviewsInv'
  BY <1>4, EnterKeeps, DieKeeps, CheckKeeps
<1>5. ASSUME NEW w \in Workers, Works(w) PROVE ReviewsInv'
  <2>1. CASE Flush(w) \/ ClaimLeft(w) \/ ClaimNext(w) \/ Ends(w)
    BY <2>1, FlushKeeps, ClaimLeftKeeps, ClaimNextKeeps, DieKeeps
  <2>2. CASE Resume(w) \/ Refuse(w) \/ Prepare(w) \/ Reuse(w) \/ Park(w) \/ Start(w)
    BY <2>2, ResumeKeeps, PrepareKeeps, ReuseKeeps, ParkKeeps, StartKeeps
  <2>3. CASE \E a \in Answers : Call(w, a) \/ CheckCall(w, a)
    BY <2>3, CallKeeps, CheckCallKeeps
  <2>4. CASE SaveAnswer(w) \/ Judge(w) \/ Advocate(w) \/ SaveAdvice(w) \/ Acknowledge(w) \/ CheckEnds(w)
    BY <2>4, SaveAnswerKeeps, JudgeKeeps, AdvocateKeeps, AcknowledgeKeeps, CheckEndsKeeps
  <2> QED
    BY <1>5, <2>1, <2>2, <2>3, <2>4 DEF Works
<1>6. CASE UNCHANGED reviewVars
  <2>1. UNCHANGED <<issued, meta, control, worker, knock, hook, health, past, mishaps>>
    BY <1>6 DEF reviewVars
  <2>2. ReviewsTypeOK'
    BY <2>1 DEF ReviewsInv, ReviewsTypeOK
  <2>3. SameCalls /\ SameQueue /\ SameWaits /\ SameAdvice /\ SameReports /\ SameCredit
    BY <2>1 DEF SameCalls, SameQueue, SameWaits, SameAdvice, SameReports, SameCredit, Reported, Heard
  <2> QED
    BY <2>1, <2>2, <2>3, SameKept DEF ReviewsInv
<1> QED
  BY <1>1, <1>2, <1>3, <1>4, <1>5, <1>6 DEF ReviewsNext

\* The invariant the four results rest on.
THEOREM ReviewsInvariant == ReviewsSpec => []ReviewsInv
BY ReviewsStart, ReviewsKeep, PTL DEF ReviewsSpec

\* Whatever the hooks, the hosts, the workers that die and the lost writes do, the
\* rows of the queue keep their shape (sim_queue.py, adaptive_sim.py: ControlState).
THEOREM ReviewsTypeCorrect == ReviewsSpec => []ReviewsTypeOK
<1>1. ReviewsInv => ReviewsTypeOK
  BY DEF ReviewsInv
<1> QED
  BY <1>1, ReviewsInvariant, PTL

\* No provider is paid twice for a review, and every call of a tripped circuit has
\* had its cooldown: what a dead worker may have paid for is never paid again by
\* the one that takes its claim over (sim.py: _drain_claimed).
THEOREM PaidOnlyOnce == ReviewsSpec => []PaidOnce
<1>1. ReviewsInv => PaidOnce
  BY DEF ReviewsInv, PaysOnce, CreditKept, PaidOnce
<1> QED
  BY <1>1, ReviewsInvariant, PTL

\* What is held without repetition is held in one place, or in none.
LEMMA PlacesOf ==
    ASSUME NEW s, Distinct(s), NEW x
    PROVE  Cardinality({i \in DOMAIN s : s[i] = x}) = IF x \in ToSet(s) THEN 1 ELSE 0
<1> DEFINE P == {i \in DOMAIN s : s[i] = x}
<1>1. CASE x \in ToSet(s)
  <2>1. PICK i \in DOMAIN s : s[i] = x
    BY <1>1 DEF ToSet
  <2>2. P = {i}
    BY <2>1 DEF Distinct
  <2> HIDE DEF P
  <2> QED
    BY <1>1, <2>2, FS_Singleton DEF P
<1>2. CASE x \notin ToSet(s)
  <2>1. P = {}
    BY <1>2 DEF ToSet
  <2> HIDE DEF P
  <2> QED
    BY <1>2, <2>1, FS_EmptySet DEF P
<1> QED
  BY <1>1, <1>2

\* An admitted review waits, is claimed or has ended, and is one of these only,
\* and a window that may not be admitted again is there or was reviewed
\* (sim_queue.py: claim_next, park_claim; sim.py: enqueue_sim_review).
THEOREM NoReviewLost == ReviewsSpec => []NoneLost
<1>1. ASSUME ReviewsInv PROVE NoneLost
  <2> SUFFICES ASSUME NEW r \in 1..Len(issued)
               PROVE  /\ Cardinality({i \in DOMAIN meta.queue : meta.queue[i] = r})
                            + (IF meta.claim.review = r THEN 1 ELSE 0) + past.ends[r] = 1
                      /\ meta.admission[Conv(r)] # {} /\ (\A q \in (r + 1)..Len(issued) : Conv(q) # Conv(r))
                            => r \in ToSet(meta.queue) \/ meta.claim.review = r \/ r \in past.acked
    BY DEF NoneLost
  <2>1. Distinct(meta.queue)
    BY <1>1 DEF ReviewsInv, WaitsOrEnded
  <2>2. Cardinality({i \in DOMAIN meta.queue : meta.queue[i] = r}) = IF r \in ToSet(meta.queue) THEN 1 ELSE 0
    BY <2>1, PlacesOf
  <2>3. r \in Reviews /\ r <= Len(issued) /\ r # NoReview
    BY <1>1, ReviewFacts DEF Reviews, NoReview
  <2>4. /\ past.ends[r] = IF r <= Len(issued) /\ r \notin ToSet(meta.queue) /\ r # meta.claim.review THEN 1 ELSE 0
        /\ meta.claim.review # NoReview => meta.claim.review \notin ToSet(meta.queue)
    BY <1>1, <2>3 DEF ReviewsInv, WaitsOrEnded
  <2>5. meta.claim.review = r => r \notin ToSet(meta.queue)
    BY <2>3, <2>4
  <2> QED
    BY <1>1, <2>2, <2>3, <2>4, <2>5 DEF ReviewsInv, Remembered, LastOf
<1> QED
  BY <1>1, ReviewsInvariant, PTL

\* A host gets an advice once at most, and none that was replaced, pushed out or
\* dropped before it was shown (sim.py: pop_pending_sim_injection).
THEOREM AdviceShownOnce == ReviewsSpec => []ShownOnce
<1>1. ReviewsInv => ShownOnce
  BY DEF ReviewsInv, AdviceKept, ShownOnce, Standing
<1> QED
  BY <1>1, ReviewsInvariant, PTL

\* The result of every acknowledged review reaches health or is still due; one that
\* health has refused is due until the next review of its conversation is acknowledged
\* (sim_queue.py: acknowledge, flush_receipts).
THEOREM ResultsReported == ReviewsSpec => []OutcomesReported
<1>1. ReviewsInv => OutcomesReported
  BY DEF ReviewsInv, ReportsDue, Heard, OutcomesReported
<1> QED
  BY <1>1, ReviewsInvariant, PTL
=============================================================================
