-------------------------- MODULE PersistentDequeProof --------------------------
(***************************************************************************)
(* What the operators of PersistentDeque promise, for every sequence, and  *)
(* what they do to sequences of message ids, which rise.                   *)
(***************************************************************************)
EXTENDS PersistentDeque, SequenceTheorems, WellFoundedInduction, TLAPS

\* An append to a bounded deque stays within the bound, ends in the new message,
\* and keeps what it does not push off the front, in order.
THEOREM AppendBoundedPromise ==
    ASSUME NEW S, NEW q \in Seq(S), NEW m \in S, NEW maxlen \in Nat \ {0},
           Len(q) <= maxlen,
           NEW r, r = AppendBounded(q, m, maxlen)
    PROVE  /\ r \in Seq(S)
           /\ Len(r) \in 1..maxlen
           /\ r[Len(r)] = m
           /\ Len(r) \in {Len(q), Len(q) + 1}
           /\ \A i \in 1..(Len(r) - 1) : r[i] = q[i + (Len(q) + 1 - Len(r))]
           /\ Len(r) = Len(q) => Len(q) = maxlen
<1> DEFINE long == Append(q, m)
<1>1. /\ long \in Seq(S) /\ Len(long) = Len(q) + 1
      /\ long[Len(q) + 1] = m /\ \A i \in 1..Len(q) : long[i] = q[i]
  OBVIOUS
<1>2. CASE Len(long) > maxlen
  <2>1. r = Tail(long)
    BY <1>2 DEF AppendBounded
  <2>2. Len(q) = maxlen
    BY <1>1, <1>2
  <2> HIDE DEF long
  <2>3. /\ r \in Seq(S) /\ Len(r) = Len(q)
        /\ \A i \in 1..Len(r) : r[i] = long[i + 1]
    BY <1>1, <2>1, <2>2
  <2>4. QED
    BY <1>1, <2>2, <2>3
<1>3. CASE ~(Len(long) > maxlen)
  <2>1. r = long
    BY <1>3 DEF AppendBounded
  <2> HIDE DEF long
  <2>2. QED
    BY <1>1, <1>3, <2>1
<1>4. QED
  BY <1>2, <1>3

\* What an append pushes out of a bounded deque is its oldest message, and only
\* once it is full.
LEMMA AppendBoundedLoses ==
    ASSUME NEW S, NEW q \in Seq(S), NEW m \in S, NEW maxlen \in Nat \ {0},
           Len(q) <= maxlen,
           NEW i \in Ids(q) \ Ids(AppendBounded(q, m, maxlen))
    PROVE  i = q[1] /\ Len(AppendBounded(q, m, maxlen)) = maxlen
<1> DEFINE r == AppendBounded(q, m, maxlen)
<1> HIDE DEF r
<1>1. /\ r \in Seq(S) /\ Len(r) \in 1..maxlen /\ Len(q) \in Nat
      /\ Len(r) \in {Len(q), Len(q) + 1}
      /\ \A k \in 1..(Len(r) - 1) : r[k] = q[k + (Len(q) + 1 - Len(r))]
      /\ Len(r) = Len(q) => Len(q) = maxlen
  BY AppendBoundedPromise DEF r
<1>2. PICK j \in 1..Len(q) : q[j] = i
  BY DEF Ids
<1>3. \A k \in 1..Len(r) : r[k] # i
  BY <1>1 DEF Ids, r
<1>4. CASE Len(r) = Len(q) + 1
  BY <1>1, <1>2, <1>3, <1>4
<1>5. CASE Len(r) = Len(q)
  <2>1. j > 1 => r[j - 1] = q[j]
    BY <1>1, <1>2, <1>5
  <2>2. j = 1
    BY <1>1, <1>2, <1>3, <1>5, <2>1
  <2>3. QED
    BY <1>1, <1>2, <1>5, <2>2 DEF r
<1>6. QED
  BY <1>1, <1>4, <1>5

\* Nothing enters a bounded deque but the message appended.
LEMMA AppendBoundedIds ==
    ASSUME NEW S, NEW q \in Seq(S), NEW m \in S, NEW maxlen \in Nat \ {0},
           Len(q) <= maxlen
    PROVE  /\ Ids(AppendBounded(q, m, maxlen)) \subseteq Ids(q) \cup {m}
           /\ m \in Ids(AppendBounded(q, m, maxlen))
<1> DEFINE r == AppendBounded(q, m, maxlen)
<1> HIDE DEF r
<1>1. /\ r \in Seq(S) /\ Len(r) \in 1..maxlen /\ r[Len(r)] = m
      /\ Len(r) \in {Len(q), Len(q) + 1}
      /\ \A i \in 1..(Len(r) - 1) : r[i] = q[i + (Len(q) + 1 - Len(r))]
  BY AppendBoundedPromise DEF r
<1>2. \A i \in 1..Len(r) : r[i] = m \/ \E j \in 1..Len(q) : r[i] = q[j]
  <2> SUFFICES ASSUME NEW i \in 1..Len(r)
               PROVE  r[i] = m \/ \E j \in 1..Len(q) : r[i] = q[j]
    OBVIOUS
  <2>1. CASE i = Len(r)
    BY <1>1, <2>1
  <2>2. CASE i # Len(r)
    <3>1. i \in 1..(Len(r) - 1) /\ i + (Len(q) + 1 - Len(r)) \in 1..Len(q)
      BY <1>1, <2>2
    <3>2. QED
      BY <1>1, <3>1
  <2>3. QED
    BY <2>1, <2>2
<1>3. /\ DOMAIN r = 1..Len(r) /\ DOMAIN q = 1..Len(q)
      /\ Len(r) \in DOMAIN r /\ r[Len(r)] = m
  BY <1>1
<1>4. Ids(r) \subseteq Ids(q) \cup {m}
  BY <1>2, <1>3 DEF Ids
<1>5. m \in Ids(r)
  BY <1>3 DEF Ids
<1>6. QED
  BY <1>4, <1>5 DEF r

\* Appending a number above all others to an increasing deque keeps it
\* increasing, within its bound, and adds nothing else.
THEOREM AppendBoundedIncreasing ==
    ASSUME NEW q \in Seq(Nat), NEW n \in Nat, NEW maxlen \in Nat \ {0},
           Len(q) <= maxlen,
           \A i \in 1..Len(q) : q[i] < n,
           \A i, j \in 1..Len(q) : i < j => q[i] < q[j]
    PROVE  LET r == AppendBounded(q, n, maxlen)
           IN  /\ r \in Seq(Nat) /\ Len(r) <= maxlen
               /\ \A i \in 1..Len(r) : r[i] = n \/ \E k \in 1..Len(q) : r[i] = q[k]
               /\ \A i, j \in 1..Len(r) : i < j => r[i] < r[j]
<1> DEFINE r == AppendBounded(q, n, maxlen)
<1> HIDE DEF r
<1>1. /\ r \in Seq(Nat) /\ Len(r) \in 1..maxlen /\ r[Len(r)] = n
      /\ Len(r) \in {Len(q), Len(q) + 1}
      /\ \A i \in 1..(Len(r) - 1) : r[i] = q[i + (Len(q) + 1 - Len(r))]
  <2> DEFINE S == Nat
  <2>1. q \in Seq(S) /\ n \in S
    OBVIOUS
  <2> HIDE DEF S
  <2>2. /\ r \in Seq(S) /\ Len(r) \in 1..maxlen /\ r[Len(r)] = n
        /\ Len(r) \in {Len(q), Len(q) + 1}
        /\ \A i \in 1..(Len(r) - 1) : r[i] = q[i + (Len(q) + 1 - Len(r))]
    BY <2>1, AppendBoundedPromise DEF r
  <2>3. QED
    BY <2>2 DEF S
<1> DEFINE d == Len(q) + 1 - Len(r)
<1>2. \A i \in 1..(Len(r) - 1) : i + d \in 1..Len(q) /\ r[i] = q[i + d]
  BY <1>1
<1>3. d \in {0, 1} /\ Len(r) \in Nat
  BY <1>1
<1> HIDE DEF d
<1>4. ASSUME NEW i \in 1..Len(r) PROVE r[i] = n \/ \E k \in 1..Len(q) : r[i] = q[k]
  <2>1. CASE i = Len(r)
    BY <1>1, <2>1
  <2>2. CASE i # Len(r)
    <3>1. i \in 1..(Len(r) - 1)
      BY <1>3, <2>2
    <3>2. QED
      BY <1>2, <3>1
  <2>3. QED
    BY <2>1, <2>2
<1>5. ASSUME NEW i \in 1..Len(r), NEW j \in 1..Len(r), i < j PROVE r[i] < r[j]
  <2>1. i \in 1..(Len(r) - 1)
    BY <1>3, <1>5
  <2>2. CASE j = Len(r)
    BY <1>1, <1>2, <2>1, <2>2
  <2>3. CASE j # Len(r)
    <3>1. j \in 1..(Len(r) - 1) /\ i + d < j + d
      BY <1>3, <1>5, <2>3
    <3>2. QED
      BY <1>2, <2>1, <3>1
  <2>4. QED
    BY <2>2, <2>3
<1>6. QED
  BY <1>1, <1>3, <1>4, <1>5 DEF r

-------------------------------------------------------------------------------
(***************************************************************************)
(* Select.  The library states induction for an operator, which no prover  *)
(* here can instantiate; for a set it follows from the least element of    *)
(* its complement.                                                         *)
(***************************************************************************)

\* Induction over the natural numbers.
LEMMA NatSetInduction ==
    ASSUME NEW T, 0 \in T, \A n \in Nat : n \in T => n + 1 \in T
    PROVE  Nat \subseteq T
<1>1. SUFFICES ASSUME Nat \ T # {} PROVE FALSE
  OBVIOUS
<1> DEFINE R == OpToRel(<, Nat)
<1>2. IsWellFoundedOn(R, Nat)
  BY NatLessThanWellFounded
<1>3. \A m, n \in Nat : m < n => <<m, n>> \in R
  BY SMT DEF OpToRel
<1> HIDE DEF R
<1>4. PICK n \in Nat \ T : \A m \in Nat \ T : ~(<<m, n>> \in R)
  BY <1>1, <1>2, WFMin
<1>5. n # 0 /\ n - 1 \in Nat /\ n - 1 < n
  BY <1>4
<1>6. n - 1 \in T
  BY <1>3, <1>4, <1>5
<1>7. QED
  BY <1>4, <1>5, <1>6

\* Induction over sequences, by their last element.
LEMMA SeqSetInduction ==
    ASSUME NEW S, NEW T, <<>> \in T,
           \A q \in Seq(S), x \in S : q \in T => Append(q, x) \in T
    PROVE  Seq(S) \subseteq T
<1> DEFINE U == {n \in Nat : \A q \in Seq(S) : Len(q) = n => q \in T}
<1>1. 0 \in U
  BY EmptySeq
<1>2. ASSUME NEW n \in Nat, n \in U PROVE n + 1 \in U
  <2> SUFFICES ASSUME NEW q \in Seq(S), Len(q) = n + 1 PROVE q \in T
    OBVIOUS
  <2>1. q # <<>>
    BY <1>2
  <2>2. PICK r \in Seq(S), x \in S : q = Append(r, x)
    BY <2>1, SequenceEmptyOrAppend
  <2>3. Len(r) = n
    BY <1>2, <2>2
  <2>4. QED
    BY <1>2, <2>2, <2>3
<1> HIDE DEF U
<1>3. Nat \subseteq U
  BY <1>1, <1>2, NatSetInduction
<1>4. QED
  BY <1>3 DEF U

\* The body of the function that computes Select.
KeptAt(q, A, f, n) ==
    IF n = 0 THEN <<>>
    ELSE IF q[n] \in A THEN Append(f[n - 1], q[n]) ELSE f[n - 1]

\* There is such a function.
LEMMA SelectExists ==
    ASSUME NEW q, NEW A, NEW k \in Nat
    PROVE  \E f : f = [n \in 0..k |-> KeptAt(q, A, f, n)]
<1> DEFINE T == {m \in Nat : \E f : f = [n \in 0..m |-> KeptAt(q, A, f, n)]}
<1>1. 0 \in T
  <2>1. [n \in 0..0 |-> <<>>] = [n \in 0..0 |-> KeptAt(q, A, [i \in 0..0 |-> <<>>], n)]
    BY DEF KeptAt
  <2>2. QED
    BY <2>1
<1>2. ASSUME NEW m \in Nat, m \in T PROVE m + 1 \in T
  <2>1. PICK f : f = [n \in 0..m |-> KeptAt(q, A, f, n)]
    BY <1>2
  <2>2. PICK g : g = [n \in 0..(m + 1) |-> KeptAt(q, A, f, n)]
    OBVIOUS
  <2>3. \A n \in 0..m : g[n] = f[n]
    BY <2>1, <2>2
  <2>4. \A n \in 0..(m + 1) : KeptAt(q, A, f, n) = KeptAt(q, A, g, n)
    BY <2>3 DEF KeptAt
  <2>5. g = [n \in 0..(m + 1) |-> KeptAt(q, A, g, n)]
    BY <2>2, <2>4
  <2>6. QED
    BY <2>5
<1> HIDE DEF T
<1>3. Nat \subseteq T
  BY <1>1, <1>2, NatSetInduction
<1>4. QED
  BY <1>3 DEF T

\* So Select is the last of its values.
LEMMA SelectMeans ==
    ASSUME NEW S, NEW q \in Seq(S), NEW A
    PROVE  \E f : /\ f = [n \in 0..Len(q) |-> KeptAt(q, A, f, n)]
                  /\ Select(q, A) = f[Len(q)]
<1> DEFINE f == CHOOSE f : f = [n \in 0..Len(q) |-> KeptAt(q, A, f, n)]
<1>1. f = [n \in 0..Len(q) |-> KeptAt(q, A, f, n)]
  BY SelectExists
<1>2. Select(q, A) = f[Len(q)]
  BY DEF Select, KeptAt
<1> HIDE DEF f
<1>3. QED
  BY <1>1, <1>2

\* Select, by the last message: what it computes, for every sequence.
LEMMA SelectAppend ==
    /\ \A A : Select(<<>>, A) = <<>>
    /\ \A S, A : \A q \in Seq(S), x \in S :
          Select(Append(q, x), A) = IF x \in A THEN Append(Select(q, A), x)
                                    ELSE Select(q, A)
<1>1. ASSUME NEW A PROVE Select(<<>>, A) = <<>>
  <2>1. <<>> \in Seq({})
    OBVIOUS
  <2>2. PICK f : /\ f = [n \in 0..Len(<<>>) |-> KeptAt(<<>>, A, f, n)]
                 /\ Select(<<>>, A) = f[Len(<<>>)]
    BY <2>1, SelectMeans
  <2>3. f[0] = KeptAt(<<>>, A, f, 0)
    BY <2>2
  <2>4. QED
    BY <2>2, <2>3 DEF KeptAt
<1>2. ASSUME NEW S, NEW A, NEW q \in Seq(S), NEW x \in S
      PROVE  Select(Append(q, x), A) = IF x \in A THEN Append(Select(q, A), x)
                                       ELSE Select(q, A)
  <2> DEFINE r == Append(q, x)
  <2>1. /\ r \in Seq(S) /\ Len(r) = Len(q) + 1 /\ Len(q) \in Nat
        /\ r[Len(q) + 1] = x /\ \A n \in 1..Len(q) : r[n] = q[n]
    OBVIOUS
  <2> HIDE DEF r
  <2>2. PICK f : /\ f = [n \in 0..Len(q) |-> KeptAt(q, A, f, n)]
                 /\ Select(q, A) = f[Len(q)]
    BY SelectMeans
  <2>3. PICK g : /\ g = [n \in 0..Len(r) |-> KeptAt(r, A, g, n)]
                 /\ Select(r, A) = g[Len(r)]
    BY <2>1, SelectMeans
  <2> DEFINE T == {n \in Nat : n <= Len(q) => f[n] = g[n]}
  <2>4. 0 \in T
    <3>1. f[0] = KeptAt(q, A, f, 0)
      BY <2>1, <2>2
    <3>2. g[0] = KeptAt(r, A, g, 0)
      BY <2>1, <2>3
    <3>3. QED
      BY <3>1, <3>2 DEF KeptAt
  <2>5. ASSUME NEW n \in Nat, n \in T PROVE n + 1 \in T
    <3> SUFFICES ASSUME n + 1 <= Len(q) PROVE f[n + 1] = g[n + 1]
      OBVIOUS
    <3>0. n + 1 \in 0..Len(q) /\ n + 1 \in 0..Len(r)
      BY <2>1
    <3> HIDE DEF T
    <3>1. f[n + 1] = KeptAt(q, A, f, n + 1)
      BY <2>2, <3>0
    <3>2. g[n + 1] = KeptAt(r, A, g, n + 1)
      BY <2>3, <3>0
    <3> USE DEF T
    <3>3. f[n] = g[n] /\ r[n + 1] = q[n + 1]
      BY <2>1, <2>5
    <3>4. QED
      BY <3>1, <3>2, <3>3 DEF KeptAt
  <2> HIDE DEF T
  <2>6. Len(q) \in T
    BY <2>1, <2>4, <2>5, NatSetInduction
  <2>7. f[Len(q)] = g[Len(q)]
    BY <2>1, <2>6 DEF T
  <2>8. g[Len(q) + 1] = KeptAt(r, A, g, Len(q) + 1)
    BY <2>1, <2>3
  <2>9. QED
    BY <2>1, <2>2, <2>3, <2>7, <2>8 DEF KeptAt, r
<1>3. QED
  BY <1>1, <1>2

\* The members of a longer sequence.
LEMMA IdsAppend ==
    ASSUME NEW S, NEW q \in Seq(S), NEW x \in S
    PROVE  Ids(Append(q, x)) = Ids(q) \cup {x}
<1>1. /\ Append(q, x) \in Seq(S) /\ Len(Append(q, x)) = Len(q) + 1
      /\ Append(q, x)[Len(q) + 1] = x
      /\ \A n \in 1..Len(q) : Append(q, x)[n] = q[n]
  OBVIOUS
<1>2. PICK r : r = Append(q, x)
  OBVIOUS
<1>3. \A n \in 1..Len(r) : r[n] = x \/ \E k \in 1..Len(q) : r[n] = q[k]
  BY <1>1, <1>2
<1>4. x = r[Len(q) + 1] /\ \A n \in 1..Len(q) : n \in 1..Len(r) /\ q[n] = r[n]
  BY <1>1, <1>2
<1>5. DOMAIN r = 1..Len(r) /\ DOMAIN q = 1..Len(q) /\ Len(q) + 1 \in 1..Len(r)
  BY <1>1, <1>2
<1>6. QED
  BY <1>2, <1>3, <1>4, <1>5 DEF Ids

\* Select keeps the members in the set, and nothing else.
LEMMA SelectIds ==
    ASSUME NEW S, NEW A
    PROVE  \A q \in Seq(S) : Select(q, A) \in Seq(S) /\ Ids(Select(q, A)) = Ids(q) \cap A
<1> DEFINE T == {q \in Seq(S) : /\ Select(q, A) \in Seq(S)
                                /\ Ids(Select(q, A)) = Ids(q) \cap A}
<1>1. <<>> \in T
  <2>1. <<>> \in Seq(S) /\ Ids(<<>>) = {} /\ Select(<<>>, A) = <<>>
    BY SelectAppend DEF Ids
  <2>2. QED
    BY <2>1
<1>2. ASSUME NEW q \in Seq(S), NEW x \in S, q \in T PROVE Append(q, x) \in T
  <2>1. Select(Append(q, x), A) = IF x \in A THEN Append(Select(q, A), x)
                                  ELSE Select(q, A)
    BY SelectAppend
  <2>2. Ids(Append(q, x)) = Ids(q) \cup {x}
    BY IdsAppend
  <2>3. Append(q, x) \in Seq(S) /\ Append(Select(q, A), x) \in Seq(S)
    BY <1>2
  <2>4. Ids(Append(Select(q, A), x)) = Ids(Select(q, A)) \cup {x}
    BY <1>2, IdsAppend
  <2>5. QED
    BY <1>2, <2>1, <2>2, <2>3, <2>4
<1> HIDE DEF T
<1>3. Seq(S) \subseteq T
  BY <1>1, <1>2, SeqSetInduction
<1>4. QED
  BY <1>3 DEF T

\* Select works piece by piece.
LEMMA SelectConcat ==
    ASSUME NEW S, NEW A, NEW p \in Seq(S)
    PROVE  \A q \in Seq(S) : Select(p \o q, A) = Select(p, A) \o Select(q, A)
<1> DEFINE T == {q \in Seq(S) : Select(p \o q, A) = Select(p, A) \o Select(q, A)}
<1>0. Select(p, A) \in Seq(S)
  BY SelectIds
<1>1. <<>> \in T
  <2>1. p \o <<>> = p /\ Select(p, A) \o <<>> = Select(p, A) /\ <<>> \in Seq(S)
    BY <1>0
  <2>2. Select(<<>>, A) = <<>>
    BY SelectAppend
  <2>3. QED
    BY <2>1, <2>2
<1>2. ASSUME NEW q \in Seq(S), NEW x \in S, q \in T PROVE Append(q, x) \in T
  <2>1. Append(q, x) \in Seq(S) /\ p \o q \in Seq(S) /\ Select(q, A) \in Seq(S)
    BY SelectIds
  <2>2. p \o Append(q, x) = Append(p \o q, x)
    OBVIOUS
  <2>3. Select(p, A) \o Append(Select(q, A), x) = Append(Select(p, A) \o Select(q, A), x)
    BY <1>0, <2>1
  <2>4. /\ Select(Append(q, x), A) = IF x \in A THEN Append(Select(q, A), x)
                                     ELSE Select(q, A)
        /\ Select(Append(p \o q, x), A) = IF x \in A THEN Append(Select(p \o q, A), x)
                                          ELSE Select(p \o q, A)
    <3>1. \A r \in Seq(S) : Select(Append(r, x), A) = IF x \in A
                              THEN Append(Select(r, A), x) ELSE Select(r, A)
      BY SelectAppend
    <3>2. QED
      BY <2>1, <3>1
  <2>5. QED
    BY <1>2, <2>1, <2>2, <2>3, <2>4
<1> HIDE DEF T
<1>3. Seq(S) \subseteq T
  BY <1>1, <1>2, SeqSetInduction
<1>4. QED
  BY <1>3 DEF T

\* Only membership of the elements there are matters.
LEMMA SelectSame ==
    ASSUME NEW S, NEW A, NEW B, \A x \in S : x \in A <=> x \in B
    PROVE  \A q \in Seq(S) : Select(q, A) = Select(q, B)
<1> DEFINE T == {q \in Seq(S) : Select(q, A) = Select(q, B)}
<1>1. <<>> \in T
  BY SelectAppend
<1>2. ASSUME NEW q \in Seq(S), NEW x \in S, q \in T PROVE Append(q, x) \in T
  <2>1. Append(q, x) \in Seq(S)
    OBVIOUS
  <2>2. /\ Select(Append(q, x), A) = IF x \in A THEN Append(Select(q, A), x)
                                     ELSE Select(q, A)
        /\ Select(Append(q, x), B) = IF x \in B THEN Append(Select(q, B), x)
                                     ELSE Select(q, B)
    BY SelectAppend
  <2>3. x \in A <=> x \in B
    OBVIOUS
  <2>4. Select(q, A) = Select(q, B)
    BY <1>2
  <2>5. Select(Append(q, x), A) = Select(Append(q, x), B)
    BY <2>2, <2>3, <2>4
  <2>6. QED
    BY <2>1, <2>5
<1> HIDE DEF T
<1>3. Seq(S) \subseteq T
  BY <1>1, <1>2, SeqSetInduction
<1>4. QED
  BY <1>3 DEF T

\* Everything is selected, or nothing.
LEMMA SelectAllNone ==
    ASSUME NEW S, NEW A
    PROVE  /\ S \subseteq A => \A q \in Seq(S) : Select(q, A) = q
           /\ S \cap A = {} => \A q \in Seq(S) : Select(q, A) = <<>>
<1> DEFINE T == {q \in Seq(S) : /\ S \subseteq A => Select(q, A) = q
                                /\ S \cap A = {} => Select(q, A) = <<>>}
<1>1. <<>> \in T
  BY SelectAppend
<1>2. ASSUME NEW q \in Seq(S), NEW x \in S, q \in T PROVE Append(q, x) \in T
  <2>1. Append(q, x) \in Seq(S)
    OBVIOUS
  <2>2. Select(Append(q, x), A) = IF x \in A THEN Append(Select(q, A), x)
                                  ELSE Select(q, A)
    BY SelectAppend
  <2>3. QED
    BY <1>2, <2>1, <2>2
<1> HIDE DEF T
<1>3. Seq(S) \subseteq T
  BY <1>1, <1>2, SeqSetInduction
<1>4. QED
  BY <1>3 DEF T

\* The image of a sequence under a function.
Image(M, q) == [k \in DOMAIN q |-> M[q[k]]]

\* The image of a sequence is one, of the same length.
LEMMA ImageTyped ==
    ASSUME NEW S, NEW M, NEW q \in Seq(S)
    PROVE  /\ Len(Image(M, q)) = Len(q)
           /\ \A V : (\A x \in S : M[x] \in V) => Image(M, q) \in Seq(V)
<1>1. DOMAIN q = 1..Len(q) /\ Len(q) \in Nat /\ \A k \in 1..Len(q) : q[k] \in S
  OBVIOUS
<1>2. PICK n \in Nat : n = Len(q)
  BY <1>1
<1>3. Image(M, q) = [k \in 1..n |-> M[q[k]]]
  BY <1>1, <1>2 DEF Image
<1>4. Len(Image(M, q)) = n
  BY <1>3
<1>5. ASSUME NEW V, \A x \in S : M[x] \in V PROVE Image(M, q) \in Seq(V)
  BY <1>1, <1>2, <1>3, <1>5
<1>6. QED
  BY <1>2, <1>4, <1>5

\* Images of longer sequences.
LEMMA ImageAppend ==
    ASSUME NEW S, NEW M, NEW q \in Seq(S), NEW x \in S
    PROVE  /\ Image(M, <<>>) = <<>>
           /\ Image(M, Append(q, x)) = Append(Image(M, q), M[x])
<1>1. Image(M, <<>>) = <<>>
  BY DEF Image
<1>2. Image(M, Append(q, x)) = Append(Image(M, q), M[x])
  BY DEF Image
<1>3. QED
  BY <1>1, <1>2

\* The image of one sequence behind another.
LEMMA ImageConcat ==
    ASSUME NEW S, NEW M, NEW p \in Seq(S), NEW q \in Seq(S)
    PROVE  Image(M, p \o q) = Image(M, p) \o Image(M, q)
<1> DEFINE T == {r \in Seq(S) : Image(M, p \o r) = Image(M, p) \o Image(M, r)}
<1>0. PICK V : V = {M[x] : x \in S}
  OBVIOUS
<1>1. \A r \in Seq(S) : Image(M, r) \in Seq(V)
  BY <1>0, ImageTyped
<1>2. <<>> \in T
  <2>1. Image(M, <<>>) = <<>>
    BY DEF Image
  <2>2. Image(M, p) \o <<>> = Image(M, p) /\ p \o <<>> = p /\ <<>> \in Seq(S)
    BY <1>1
  <2>3. QED
    BY <2>1, <2>2
<1>3. ASSUME NEW r \in Seq(S), NEW x \in S, r \in T PROVE Append(r, x) \in T
  <2>1. Append(r, x) \in Seq(S) /\ p \o r \in Seq(S)
        /\ p \o Append(r, x) = Append(p \o r, x)
    OBVIOUS
  <2>2. Image(M, Append(p \o r, x)) = Append(Image(M, p \o r), M[x])
    BY <2>1, ImageAppend
  <2>3. Image(M, Append(r, x)) = Append(Image(M, r), M[x])
    BY ImageAppend
  <2>4. ASSUME NEW u \in Seq(V), NEW v \in Seq(V), NEW y \in V
        PROVE  u \o Append(v, y) = Append(u \o v, y)
    OBVIOUS
  <2>5. Image(M, p) \o Append(Image(M, r), M[x]) = Append(Image(M, p) \o Image(M, r), M[x])
    BY <1>0, <1>1, <2>4
  <2>6. QED
    BY <1>3, <2>1, <2>2, <2>3, <2>5
<1> HIDE DEF T
<1>4. Seq(S) \subseteq T
  BY <1>2, <1>3, SeqSetInduction
<1>5. QED
  BY <1>4 DEF T

\* Selecting among the images is taking the images of what is selected.
LEMMA SelectImage ==
    ASSUME NEW S, NEW M, NEW A, NEW B, \A x \in S : x \in A <=> M[x] \in B
    PROVE  \A q \in Seq(S) : Select(Image(M, q), B) = Image(M, Select(q, A))
<1> DEFINE T == {q \in Seq(S) : Select(Image(M, q), B) = Image(M, Select(q, A))}
<1>0. PICK V : V = {M[x] : x \in S}
  OBVIOUS
<1>1. <<>> \in T
  <2>1. Image(M, <<>>) = <<>>
    BY DEF Image
  <2>2. QED
    BY <2>1, SelectAppend
<1>2. ASSUME NEW q \in Seq(S), NEW x \in S, q \in T PROVE Append(q, x) \in T
  <2>1. Append(q, x) \in Seq(S) /\ M[x] \in V
    BY <1>0
  <2>2. Image(M, q) \in Seq(V) /\ Select(q, A) \in Seq(S)
    BY <1>0, ImageTyped, SelectIds
  <2>3. /\ Image(M, Append(q, x)) = Append(Image(M, q), M[x])
        /\ Image(M, Append(Select(q, A), x)) = Append(Image(M, Select(q, A)), M[x])
    BY <2>2, ImageAppend
  <2>4. Select(Append(q, x), A) = IF x \in A THEN Append(Select(q, A), x)
                                  ELSE Select(q, A)
    BY SelectAppend
  <2>5. Select(Append(Image(M, q), M[x]), B) =
           IF M[x] \in B THEN Append(Select(Image(M, q), B), M[x])
           ELSE Select(Image(M, q), B)
    <3>1. PICK r, y : r = Image(M, q) /\ y = M[x]
      OBVIOUS
    <3>2. r \in Seq(V) /\ y \in V
      BY <2>1, <2>2, <3>1
    <3>3. Select(Append(r, y), B) = IF y \in B THEN Append(Select(r, B), y)
                                    ELSE Select(r, B)
      BY <3>2, SelectAppend
    <3>4. QED
      BY <3>1, <3>3
  <2>6. QED
    BY <1>2, <2>1, <2>3, <2>4, <2>5
<1> HIDE DEF T
<1>3. Seq(S) \subseteq T
  BY <1>1, <1>2, SeqSetInduction
<1>4. QED
  BY <1>3 DEF T

\* The last n of a sequence, all of them when there are fewer.
LEMMA LastNMeans ==
    ASSUME NEW S, NEW q \in Seq(S), NEW n \in Nat
    PROVE  /\ LastN(q, n) \in Seq(S)
           /\ Len(LastN(q, n)) = IF Len(q) > n THEN n ELSE Len(q)
           /\ \A k \in 1..Len(LastN(q, n)) :
                 LastN(q, n)[k] = q[Len(q) - Len(LastN(q, n)) + k]
<1>1. PICK m, l : m = (IF Len(q) > n THEN Len(q) - n + 1 ELSE 1) /\ l = Len(q)
  OBVIOUS
<1>2. LastN(q, n) = SubSeq(q, m, l)
  BY <1>1, Zenon DEF LastN
<1>3. /\ m \in Nat \ {0} /\ l \in Nat /\ \A i \in m..l : q[i] \in S
  BY <1>1
<1>4. PICK r : r = SubSeq(q, m, l)
  OBVIOUS
<1>5. r \in Seq(S)
  BY <1>3, <1>4
<1>6. Len(r) = IF m <= l THEN l - m + 1 ELSE 0
  BY <1>3, <1>4
<1>7. \A i \in 1..(l - m + 1) : r[i] = q[m + i - 1]
  BY <1>3, <1>4
<1>8. Len(r) = IF Len(q) > n THEN n ELSE Len(q)
  <2>1. Len(q) \in Nat
    OBVIOUS
  <2>2. CASE Len(q) > n
    BY <1>1, <1>6, <2>1, <2>2
  <2>3. CASE ~(Len(q) > n)
    BY <1>1, <1>6, <2>1, <2>3
  <2>4. QED
    BY <2>2, <2>3
<1>9. ASSUME NEW k \in 1..Len(r) PROVE r[k] = q[Len(q) - Len(r) + k]
  <2>1. Len(r) \in Nat /\ Len(r) = l - m + 1
    BY <1>3, <1>5, <1>6, <1>9
  <2>2. r[k] = q[m + k - 1]
    BY <1>7, <2>1
  <2>3. m + k - 1 = Len(q) - Len(r) + k
    BY <1>1, <1>3, <2>1
  <2>4. QED
    BY <2>2, <2>3
<1>10. QED
  BY <1>2, <1>4, <1>5, <1>8, <1>9, Zenon

\* A ring is the tail of what was appended: the tail of one more is the ring with
\* one more appended.
LEMMA LastNAppend ==
    ASSUME NEW S, NEW q \in Seq(S), NEW x \in S, NEW n \in Nat \ {0}
    PROVE  LastN(Append(q, x), n) = AppendBounded(LastN(q, n), x, n)
<1>1. PICK p, t, u, l :
         p = Append(q, x) /\ t = LastN(q, n) /\ u = LastN(p, n) /\ l = Len(q)
  OBVIOUS
<1>2. /\ p \in Seq(S) /\ Len(p) = l + 1 /\ \A k \in 1..l : p[k] = q[k]
      /\ p[l + 1] = x /\ l \in Nat
  BY <1>1, AppendProperties
<1>3. /\ t \in Seq(S) /\ Len(t) = IF l > n THEN n ELSE l
      /\ \A k \in 1..Len(t) : t[k] = q[l - Len(t) + k]
  BY <1>1, LastNMeans
<1>4. /\ u \in Seq(S) /\ Len(u) = IF l + 1 > n THEN n ELSE l + 1
      /\ \A k \in 1..Len(u) : u[k] = p[l + 1 - Len(u) + k]
  <2>1. p \in Seq(S) /\ n \in Nat /\ u = LastN(p, n) /\ Len(p) = l + 1 /\ l \in Nat
    BY <1>1, <1>2
  <2>2. u \in Seq(S)
    BY ONLY <2>1, LastNMeans
  <2>3. Len(u) = IF Len(p) > n THEN n ELSE Len(p)
    BY ONLY <2>1, LastNMeans
  <2>4. ASSUME NEW k \in 1..Len(u) PROVE u[k] = p[l + 1 - Len(u) + k]
    <3>1. u[k] = p[Len(p) - Len(u) + k]
      BY ONLY <2>1, <2>4, LastNMeans
    <3>2. QED
      BY <2>1, <3>1
  <2>5. QED
    BY <2>1, <2>2, <2>3, <2>4
<1>5. PICK v : v = AppendBounded(t, x, n)
  OBVIOUS
<1>6. /\ v \in Seq(S) /\ Len(v) \in 1..n /\ v[Len(v)] = x
      /\ Len(v) \in {Len(t), Len(t) + 1}
      /\ \A i \in 1..(Len(v) - 1) : v[i] = t[i + (Len(t) + 1 - Len(v))]
      /\ Len(v) = Len(t) => Len(t) = n
  <2>1. Len(t) <= n
    BY <1>2, <1>3
  <2>2. t \in Seq(S)
    BY <1>3
  <2>3. QED
    BY <1>5, <2>1, <2>2, AppendBoundedPromise
<1>7. Len(v) = Len(u)
  BY <1>2, <1>3, <1>4, <1>6
<1>8. ASSUME NEW k \in 1..Len(u) PROVE u[k] = v[k]
  <2>1. u[k] = p[l + 1 - Len(u) + k]
    BY <1>4
  <2>2. CASE k = Len(u)
    BY <1>2, <1>6, <1>7, <2>1, <2>2
  <2>3. CASE k # Len(u)
    <3>1. v[k] = t[k + (Len(t) + 1 - Len(u))] /\ Len(u) \in Nat /\ Len(t) \in Nat
      BY <1>3, <1>4, <1>6, <1>7, <2>3
    <3>2. k + (Len(t) + 1 - Len(u)) \in 1..Len(t)
      BY <1>2, <1>3, <1>4, <2>3
    <3>3. v[k] = q[l - Len(t) + (k + (Len(t) + 1 - Len(u)))]
      BY <1>3, <3>1, <3>2
    <3>4. l - Len(t) + (k + (Len(t) + 1 - Len(u))) = l + 1 - Len(u) + k
      BY <1>2, <3>1
    <3>5. l + 1 - Len(u) + k \in 1..l
      BY <1>2, <1>4, <2>3
    <3>6. QED
      BY <1>2, <2>1, <3>3, <3>4, <3>5
  <2>4. QED
    BY <2>2, <2>3
<1>9. u = v
  BY <1>4, <1>6, <1>7, <1>8, SeqEqual
<1>10. QED
  BY <1>1, <1>5, <1>9

\* The numbers from 1 to n, and those of them in A when there is one more.
UpTo(n) == [i \in 1..n |-> i]

\* A number more, a selection of the numbers more, if it is selected.
LEMMA UpToSelect ==
    ASSUME NEW n \in Nat, NEW A, NEW B, \A i \in 1..n : i \in A <=> i \in B
    PROVE  /\ UpTo(n) \in Seq(1..n)
           /\ Select(UpTo(n), A) \in Seq(1..n)
           /\ Select(UpTo(n + 1), B) = IF n + 1 \in B
                                       THEN Append(Select(UpTo(n), A), n + 1)
                                       ELSE Select(UpTo(n), A)
<1>1. /\ UpTo(n) \in Seq(1..n) /\ UpTo(n) \in Seq(1..(n + 1))
      /\ n + 1 \in 1..(n + 1) /\ Len(UpTo(n)) = n /\ \A i \in 1..n : UpTo(n)[i] = i
  BY DEF UpTo
<1>2. UpTo(n + 1) = Append(UpTo(n), n + 1)
  <2>1. /\ UpTo(n + 1) \in Seq(1..(n + 1)) /\ Len(UpTo(n + 1)) = n + 1
        /\ \A i \in 1..(n + 1) : UpTo(n + 1)[i] = i
    BY DEF UpTo
  <2>2. /\ Append(UpTo(n), n + 1) \in Seq(1..(n + 1))
        /\ Len(Append(UpTo(n), n + 1)) = n + 1
        /\ \A i \in 1..n : Append(UpTo(n), n + 1)[i] = UpTo(n)[i]
        /\ Append(UpTo(n), n + 1)[n + 1] = n + 1
    BY <1>1, AppendProperties
  <2>3. \A i \in 1..(n + 1) : UpTo(n + 1)[i] = Append(UpTo(n), n + 1)[i]
    BY <1>1, <2>1, <2>2
  <2>4. QED
    BY <2>1, <2>2, <2>3, SeqEqual
<1>3. Select(UpTo(n), A) = Select(UpTo(n), B)
  <2> DEFINE S == 1..n
  <2>1. \A x \in S : x \in A <=> x \in B
    OBVIOUS
  <2>2. UpTo(n) \in Seq(S)
    BY <1>1
  <2> HIDE DEF S
  <2>3. QED
    BY <2>1, <2>2, SelectSame
<1>4. Select(Append(UpTo(n), n + 1), B) = IF n + 1 \in B
                                          THEN Append(Select(UpTo(n), B), n + 1)
                                          ELSE Select(UpTo(n), B)
  <2> DEFINE S == 1..(n + 1)
  <2>1. UpTo(n) \in Seq(S) /\ n + 1 \in S
    BY <1>1
  <2>2. PICK q, x : q = UpTo(n) /\ x = n + 1
    OBVIOUS
  <2> HIDE DEF S
  <2>3. q \in Seq(S) /\ x \in S
    BY <2>1, <2>2
  <2>4. Select(Append(q, x), B) = IF x \in B THEN Append(Select(q, B), x)
                                  ELSE Select(q, B)
    BY <2>3, SelectAppend
  <2>5. QED
    BY <2>2, <2>4, Zenon
<1>5. Select(UpTo(n), A) \in Seq(1..n)
  BY <1>1, SelectIds
<1>6. QED
  BY <1>1, <1>2, <1>3, <1>4, <1>5

\* Where x occurs in a sequence.
Occurs(q, x) == {k \in DOMAIN q : q[k] = x}

\* What is appended without x brings no occurrence of it; what is appended with one
\* x to a sequence without any brings just that one.
LEMMA OccursConcat ==
    ASSUME NEW S, NEW p \in Seq(S), NEW e \in Seq(S), NEW x
    PROVE  /\ x \notin Ids(e) => Occurs(p \o e, x) = Occurs(p, x)
           /\ x \notin Ids(p) => Occurs(p, x) = {}
           /\ \A j \in DOMAIN e : x \notin Ids(p) /\ Occurs(e, x) = {j}
                 => Occurs(p \o e, x) = {Len(p) + j}
<1>1. PICK r : r = p \o e
  OBVIOUS
<1>2. /\ r \in Seq(S) /\ Len(r) = Len(p) + Len(e)
      /\ \A k \in 1..Len(p) : r[k] = p[k]
      /\ \A k \in 1..Len(e) : r[Len(p) + k] = e[k]
      /\ Len(p) \in Nat /\ Len(e) \in Nat
      /\ DOMAIN r = 1..Len(r) /\ DOMAIN p = 1..Len(p) /\ DOMAIN e = 1..Len(e)
  BY <1>1
<1>3. \A k \in DOMAIN r : \/ k \in DOMAIN p /\ r[k] = p[k]
                          \/ \E j \in DOMAIN e : k = Len(p) + j /\ r[k] = e[j]
  <2> TAKE k \in DOMAIN r
  <2>1. CASE k <= Len(p)
    BY <1>2, <2>1
  <2>2. CASE k > Len(p)
    <3>1. k - Len(p) \in 1..Len(e) /\ k = Len(p) + (k - Len(p))
      BY <1>2, <2>2
    <3>2. r[k] = e[k - Len(p)]
      BY <1>2, <3>1
    <3>3. QED
      BY <1>2, <3>1, <3>2
  <2>3. QED
    BY <1>2, <2>1, <2>2
<1>4. DOMAIN p \subseteq DOMAIN r /\ \A j \in DOMAIN e : Len(p) + j \in DOMAIN r
  BY <1>2
<1>5. ASSUME x \notin Ids(e) PROVE Occurs(r, x) = Occurs(p, x)
  BY <1>2, <1>3, <1>4, <1>5 DEF Occurs, Ids
<1>6. x \notin Ids(p) => Occurs(p, x) = {}
  BY DEF Occurs, Ids
<1>7. ASSUME NEW j \in DOMAIN e, x \notin Ids(p), Occurs(e, x) = {j}
      PROVE  Occurs(r, x) = {Len(p) + j}
  <2>1. e[j] = x /\ \A k \in DOMAIN e : e[k] = x => k = j
    BY <1>7 DEF Occurs
  <2>2. Len(p) + j \in DOMAIN r /\ r[Len(p) + j] = x
    BY <1>2, <1>4, <2>1
  <2>3. ASSUME NEW k \in DOMAIN r, r[k] = x PROVE k = Len(p) + j
    BY <1>3, <1>7, <2>1, <2>3 DEF Ids
  <2>4. QED
    BY <2>2, <2>3 DEF Occurs
<1>8. QED
  BY <1>1, <1>5, <1>6, <1>7

\* Selecting twice is selecting what both sets hold.
LEMMA SelectSelect ==
    ASSUME NEW S, NEW A, NEW B, NEW C, \A x \in S : x \in C <=> x \in A /\ x \in B
    PROVE  \A q \in Seq(S) : Select(Select(q, A), B) = Select(q, C)
<1> DEFINE T == {q \in Seq(S) : Select(Select(q, A), B) = Select(q, C)}
<1>1. <<>> \in T
  BY SelectAppend
<1>2. ASSUME NEW q \in Seq(S), NEW x \in S, q \in T PROVE Append(q, x) \in T
  <2>1. Append(q, x) \in Seq(S) /\ Select(q, A) \in Seq(S)
    BY SelectIds
  <2>2. PICK p : p = Select(q, A)
    OBVIOUS
  <2>3. Select(Append(q, x), A) = IF x \in A THEN Append(p, x) ELSE p
    BY <2>2, SelectAppend
  <2>4. Select(Append(p, x), B) = IF x \in B THEN Append(Select(p, B), x)
                                  ELSE Select(p, B)
    BY <2>1, <2>2, SelectAppend
  <2>5. Select(Append(q, x), C) = IF x \in C THEN Append(Select(q, C), x)
                                  ELSE Select(q, C)
    BY SelectAppend
  <2>6. Select(p, B) = Select(q, C) /\ (x \in C <=> x \in A /\ x \in B)
    BY <1>2, <2>2
  <2>7. CASE x \in A
    BY <2>1, <2>3, <2>4, <2>5, <2>6, <2>7
  <2>8. CASE x \notin A
    BY <2>1, <2>3, <2>5, <2>6, <2>8
  <2>9. QED
    BY <2>7, <2>8
<1> HIDE DEF T
<1>3. Seq(S) \subseteq T
  BY <1>1, <1>2, SeqSetInduction
<1>4. QED
  BY <1>3 DEF T

\* Ids in the order they were minted.
Rising(q) == \A i, j \in 1..Len(q) : i < j => q[i] < q[j]

\* One more id comes after all there are.
LEMMA RisingAppend ==
    ASSUME NEW q \in Seq(Nat), NEW x \in Nat
    PROVE  Rising(Append(q, x)) <=> Rising(q) /\ \A i \in Ids(q) : i < x
<1>1. PICK r, n : r = Append(q, x) /\ n = Len(q)
  OBVIOUS
<1>2. /\ Len(r) = n + 1 /\ r[n + 1] = x /\ n \in Nat
      /\ \A i \in 1..n : r[i] = q[i] /\ q[i] \in Nat
      /\ Ids(q) = {q[i] : i \in 1..n}
  BY <1>1 DEF Ids
<1>3. ASSUME Rising(r) PROVE Rising(q) /\ \A i \in Ids(q) : i < x
  <2>1. \A i, j \in 1..(n + 1) : i < j => r[i] < r[j]
    BY <1>2, <1>3 DEF Rising
  <2>2. \A i \in 1..n : r[i] < r[n + 1]
    BY <1>2, <2>1
  <2>3. \A i, j \in 1..n : i < j => q[i] < q[j]
    BY <1>2, <2>1
  <2>4. QED
    BY <1>1, <1>2, <2>2, <2>3 DEF Rising
<1>4. ASSUME Rising(q), \A i \in Ids(q) : i < x PROVE Rising(r)
  <2>1. \A i, j \in 1..n : i < j => r[i] < r[j]
    BY <1>1, <1>2, <1>4 DEF Rising
  <2>2. \A i \in 1..n : r[i] < r[n + 1]
    BY <1>2, <1>4
  <2>3. \A i, j \in 1..(n + 1) : i < j => i \in 1..n /\ (j \in 1..n \/ j = n + 1)
    BY <1>2
  <2>4. QED
    BY <1>2, <2>1, <2>2, <2>3 DEF Rising
<1>5. QED
  BY <1>1, <1>3, <1>4

\* Select keeps the order.
LEMMA SelectRising ==
    ASSUME NEW A
    PROVE  \A q \in Seq(Nat) : Rising(q) => Rising(Select(q, A))
<1> DEFINE T == {q \in Seq(Nat) : Rising(q) => Rising(Select(q, A))}
<1>1. <<>> \in T
  BY SelectAppend DEF Rising
<1>2. ASSUME NEW q \in Seq(Nat), NEW x \in Nat, q \in T PROVE Append(q, x) \in T
  <2> SUFFICES ASSUME Rising(Append(q, x)) PROVE Rising(Select(Append(q, x), A))
    OBVIOUS
  <2>1. Rising(q) /\ \A i \in Ids(q) : i < x
    BY RisingAppend
  <2>2. /\ Select(q, A) \in Seq(Nat) /\ Ids(Select(q, A)) \subseteq Ids(q)
        /\ Rising(Select(q, A))
    BY <1>2, <2>1, SelectIds
  <2>3. Rising(Append(Select(q, A), x))
    BY <2>1, <2>2, RisingAppend
  <2>4. Select(Append(q, x), A) = IF x \in A THEN Append(Select(q, A), x)
                                  ELSE Select(q, A)
    BY SelectAppend
  <2>5. QED
    BY <2>2, <2>3, <2>4
<1> HIDE DEF T
<1>3. Seq(Nat) \subseteq T
  BY <1>1, <1>2, SeqSetInduction
<1>4. QED
  BY <1>3 DEF T

\* The numbers from 1 on are rising, and so are those of a set.
LEMMA UpToRising ==
    ASSUME NEW n \in Nat, NEW A
    PROVE  /\ UpTo(n) \in Seq(Nat) /\ Rising(UpTo(n))
           /\ Select(UpTo(n), A) \in Seq(Nat) /\ Rising(Select(UpTo(n), A))
<1>1. UpTo(n) \in Seq(Nat) /\ Rising(UpTo(n))
  BY DEF UpTo, Rising
<1>2. QED
  BY <1>1, SelectRising, SelectIds

\* A sequence is what comes before position k and the rest.
LEMMA SplitAt ==
    ASSUME NEW S, NEW q \in Seq(S), NEW k \in 1..(Len(q) + 1)
    PROVE  /\ SubSeq(q, 1, k - 1) \in Seq(S) /\ SubSeq(q, k, Len(q)) \in Seq(S)
           /\ q = SubSeq(q, 1, k - 1) \o SubSeq(q, k, Len(q))
           /\ \A x \in Ids(SubSeq(q, 1, k - 1)) : \E i \in 1..(k - 1) : x = q[i]
           /\ \A x \in Ids(SubSeq(q, k, Len(q))) : \E i \in k..Len(q) : x = q[i]
<1>1. PICK p, s, n : p = SubSeq(q, 1, k - 1) /\ s = SubSeq(q, k, n) /\ n = Len(q)
  OBVIOUS
<1>2. /\ n \in Nat /\ k \in Nat \ {0} /\ k <= n + 1 /\ \A i \in 1..n : q[i] \in S
      /\ k - 1 \in Nat
  BY <1>1
<1>3. p \in Seq(S) /\ Len(p) = k - 1 /\ \A i \in 1..(k - 1) : p[i] = q[i]
  BY <1>1, <1>2
<1>4. s \in Seq(S) /\ Len(s) = n + 1 - k /\ \A i \in 1..(n + 1 - k) : s[i] = q[k + i - 1]
  BY <1>1, <1>2
<1>5. PICK r : r = p \o s
  OBVIOUS
<1>6. /\ r \in Seq(S) /\ Len(r) = n
      /\ \A i \in 1..(k - 1) : r[i] = p[i]
      /\ \A i \in k..n : r[i] = s[i - (k - 1)]
  <2>1. PICK a, b : a = Len(p) /\ b = Len(s)
    OBVIOUS
  <2>2. /\ r \in Seq(S) /\ Len(r) = a + b /\ a \in Nat /\ b \in Nat
        /\ \A i \in 1..a : r[i] = p[i]
        /\ \A i \in (a + 1)..(a + b) : r[i] = s[i - a]
    BY ONLY <1>3, <1>4, <1>5, <2>1
  <2>3. a = k - 1 /\ b = n + 1 - k /\ a + 1 = k /\ a + b = n
    BY <1>2, <1>3, <1>4, <2>1
  <2>4. QED
    BY ONLY <2>2, <2>3
<1>7. \A i \in 1..n : r[i] = q[i]
  <2> TAKE i \in 1..n
  <2>1. CASE i \in 1..(k - 1)
    BY <1>3, <1>6, <2>1
  <2>2. CASE i \in k..n
    <3>1. i - (k - 1) \in 1..(n + 1 - k) /\ k + (i - (k - 1)) - 1 = i
      BY <1>2, <2>2
    <3>2. QED
      BY <1>4, <1>6, <2>2, <3>1
  <2>3. QED
    BY <1>2, <2>1, <2>2
<1>8. r = q
  BY <1>1, <1>6, <1>7, SeqEqual
<1>9. \A x \in Ids(p) : \E i \in 1..(k - 1) : x = q[i]
  BY <1>3 DEF Ids
<1>10. \A x \in Ids(s) : \E i \in k..n : x = q[i]
  <2>1. \A i \in 1..(n + 1 - k) : k + i - 1 \in k..n
    BY <1>2
  <2>2. \A i \in 1..(n + 1 - k) : \E j \in k..n : s[i] = q[j]
    BY <1>4, <2>1
  <2>3. DOMAIN s = 1..(n + 1 - k)
    BY <1>2, <1>4
  <2>4. QED
    BY <2>2, <2>3 DEF Ids
<1>11. QED
  BY <1>1, <1>3, <1>4, <1>5, <1>8, <1>9, <1>10

\* From one position on, a rising sequence holds what is not below it.
LEMMA RisingFrom ==
    ASSUME NEW q \in Seq(Nat), Rising(q), NEW k \in 1..Len(q),
           NEW B, \A i \in Nat : i \in B <=> i > q[k] - 1
    PROVE  Select(q, B) = SubSeq(q, k, Len(q))
<1>1. PICK p, s, n : p = SubSeq(q, 1, k - 1) /\ s = SubSeq(q, k, n) /\ n = Len(q)
  OBVIOUS
<1>2. n \in Nat /\ k \in 1..n /\ k \in 1..(n + 1) /\ \A i \in 1..n : q[i] \in Nat
  BY <1>1
<1>3. /\ p \in Seq(Nat) /\ s \in Seq(Nat) /\ q = p \o s
      /\ \A x \in Ids(p) : \E i \in 1..(k - 1) : x = q[i]
      /\ \A x \in Ids(s) : \E i \in k..n : x = q[i]
  <2>1. q \in Seq(Nat) /\ k \in 1..(Len(q) + 1)
    BY <1>1, <1>2
  <2>2. QED
    BY ONLY <1>1, <2>1, SplitAt
<1> DEFINE Low  == {i \in Nat : i < q[k]}
           High == {i \in Nat : i >= q[k]}
<1>4. \A i \in 1..(k - 1) : q[i] \in Low
  BY <1>1, <1>2 DEF Rising
<1>5. \A i \in k..n : q[i] \in High
  <2>1. \A i, j \in 1..n : i < j => q[i] < q[j]
    BY <1>1 DEF Rising
  <2>2. ASSUME NEW i \in k..n PROVE q[i] \in Nat /\ q[i] >= q[k]
    <3>1. i \in 1..n /\ (i = k \/ k < i) /\ q[k] \in Nat
      BY <1>2
    <3>2. QED
      BY <1>2, <2>1, <3>1
  <2>3. QED
    BY <2>2
<1>6. Low \cap B = {} /\ High \subseteq B
  BY <1>2
<1> HIDE DEF Low, High
<1>7. p \in Seq(Low) /\ s \in Seq(High)
  <2>1. \A i \in DOMAIN p : p[i] \in Ids(p)
    BY DEF Ids
  <2>2. \A i \in DOMAIN s : s[i] \in Ids(s)
    BY DEF Ids
  <2>3. \A i \in DOMAIN p : p[i] \in Low
    BY <1>3, <1>4, <2>1
  <2>4. \A i \in DOMAIN s : s[i] \in High
    BY <1>3, <1>5, <2>2
  <2>5. QED
    BY <1>3, <2>3, <2>4
<1>8. Select(p, B) = <<>> /\ Select(s, B) = s
  BY <1>6, <1>7, SelectAllNone
<1>9. Select(q, B) = Select(p, B) \o Select(s, B)
  BY <1>3, SelectConcat
<1>10. <<>> \o s = s
  BY <1>3
<1>11. QED
  BY <1>1, <1>8, <1>9, <1>10

\* The tail of a tail is a tail.
LEMMA LastNTwice ==
    ASSUME NEW S, NEW q \in Seq(S), NEW m \in Nat, NEW r \in Nat,
           LastN(LastN(q, m), r) # <<>>
    PROVE  \E k \in 1..Len(q) : /\ LastN(LastN(q, m), r) = SubSeq(q, k, Len(q))
                                /\ LastN(LastN(q, m), r)[1] = q[k]
<1>1. PICK t, u, n : t = LastN(q, m) /\ u = LastN(t, r) /\ n = Len(q)
  OBVIOUS
<1>2. /\ t \in Seq(S) /\ Len(t) = IF n > m THEN m ELSE n
      /\ \A j \in 1..Len(t) : t[j] = q[n - Len(t) + j]
      /\ n \in Nat /\ Len(t) \in Nat
  <2>1. q \in Seq(S) /\ m \in Nat /\ t = LastN(q, m) /\ n = Len(q)
    BY <1>1
  <2>2. /\ t \in Seq(S) /\ Len(t) = IF Len(q) > m THEN m ELSE Len(q)
        /\ \A j \in 1..Len(t) : t[j] = q[Len(q) - Len(t) + j]
    BY ONLY <2>1, LastNMeans
  <2>3. n \in Nat /\ Len(t) \in Nat
    BY <2>1, <2>2
  <2>4. QED
    BY <2>1, <2>2, <2>3
<1>3. /\ u \in Seq(S) /\ Len(u) = IF Len(t) > r THEN r ELSE Len(t)
      /\ \A j \in 1..Len(u) : u[j] = t[Len(t) - Len(u) + j]
      /\ Len(u) \in Nat
  <2>1. t \in Seq(S) /\ r \in Nat /\ u = LastN(t, r)
    BY <1>1, <1>2
  <2>2. /\ u \in Seq(S) /\ Len(u) = IF Len(t) > r THEN r ELSE Len(t)
        /\ \A j \in 1..Len(u) : u[j] = t[Len(t) - Len(u) + j]
    BY ONLY <2>1, LastNMeans
  <2>3. Len(u) \in Nat
    BY <2>2
  <2>4. QED
    BY <2>2, <2>3
<1>4. PICK k : k = n - Len(u) + 1
  OBVIOUS
<1>5. Len(u) # 0 /\ Len(u) <= Len(t) /\ Len(t) <= n
  BY <1>1, <1>2, <1>3
<1>6. k \in 1..n
  BY <1>2, <1>3, <1>4, <1>5
<1>7. ASSUME NEW j \in 1..Len(u) PROVE u[j] = q[k + j - 1]
  <2>1. Len(t) - Len(u) + j \in 1..Len(t)
    BY <1>2, <1>3, <1>5
  <2>2. t[Len(t) - Len(u) + j] = q[n - Len(t) + (Len(t) - Len(u) + j)]
    BY <1>2, <2>1
  <2>3. n - Len(t) + (Len(t) - Len(u) + j) = k + j - 1
    BY <1>2, <1>3, <1>4
  <2>4. QED
    BY <1>3, <2>2, <2>3
<1>8. PICK s : s = SubSeq(q, k, n)
  OBVIOUS
<1>9. s \in Seq(S) /\ Len(s) = n - k + 1 /\ \A j \in 1..(n - k + 1) : s[j] = q[k + j - 1]
  BY <1>1, <1>6, <1>8
<1>10. Len(s) = Len(u) /\ \A j \in 1..Len(s) : s[j] = u[j]
  BY <1>2, <1>3, <1>4, <1>7, <1>9
<1>11. s = u
  BY <1>3, <1>9, <1>10, SeqEqual
<1>12. u[1] = q[k]
  BY <1>3, <1>4, <1>5, <1>6, <1>7
<1>13. QED
  BY <1>1, <1>6, <1>8, <1>11, <1>12

\* A sequence and what is appended to it.
LEMMA ConcatMeans ==
    ASSUME NEW S, NEW p \in Seq(S), NEW q \in Seq(S), NEW r, r = p \o q,
           NEW m, NEW n, m = Len(p), n = Len(q)
    PROVE  /\ m \in Nat /\ n \in Nat /\ r \in Seq(S) /\ Len(r) = m + n
           /\ \A i \in 1..m : r[i] = p[i]
           /\ \A i \in (m + 1)..(m + n) : r[i] = q[i - m] /\ i - m \in 1..n
OBVIOUS

\* What comes after position n when more is appended.
LEMMA RestConcat ==
    ASSUME NEW S, NEW p \in Seq(S), NEW e \in Seq(S), NEW n \in Nat, n <= Len(p)
    PROVE  /\ SubSeq(p, n + 1, Len(p)) \in Seq(S)
           /\ SubSeq(p \o e, n + 1, Len(p \o e)) = SubSeq(p, n + 1, Len(p)) \o e
           /\ n = Len(p) => SubSeq(p, n + 1, Len(p)) = <<>>
<1>1. PICK r, s, l, k : /\ r = p \o e /\ s = SubSeq(p, n + 1, Len(p))
                        /\ l = Len(p) /\ k = Len(e)
  OBVIOUS
<1>2. /\ r \in Seq(S) /\ Len(r) = l + k /\ l \in Nat /\ k \in Nat
      /\ \A i \in 1..l : r[i] = p[i]
      /\ \A i \in (l + 1)..(l + k) : r[i] = e[i - l]
  BY <1>1
<1>3. s \in Seq(S) /\ Len(s) = l - n /\ \A i \in 1..(l - n) : s[i] = p[n + i]
  BY <1>1, <1>2
<1>4. PICK u, v : u = SubSeq(r, n + 1, l + k) /\ v = s \o e
  OBVIOUS
<1>5. u \in Seq(S) /\ Len(u) = l + k - n /\ \A i \in 1..(l + k - n) : u[i] = r[n + i]
  <2>1. /\ r \in Seq(S) /\ Len(r) = l + k /\ l \in Nat /\ k \in Nat /\ n \in Nat
        /\ n <= l /\ u = SubSeq(r, n + 1, l + k)
    BY <1>1, <1>2, <1>4
  <2>2. u \in Seq(S)
    BY ONLY <2>1
  <2>3. Len(u) = l + k - n
    BY ONLY <2>1
  <2>4. ASSUME NEW i \in 1..(l + k - n) PROVE u[i] = r[n + i]
    BY ONLY <2>1, <2>4
  <2>5. QED
    BY <2>2, <2>3, <2>4
<1>6. PICK z : z = Len(s)
  OBVIOUS
<1>7. /\ v \in Seq(S) /\ Len(v) = z + k
      /\ \A i \in 1..z : v[i] = s[i]
      /\ \A i \in (z + 1)..(z + k) : v[i] = e[i - z]
  <2>1. s \in Seq(S) /\ e \in Seq(S) /\ v = s \o e /\ z = Len(s) /\ k = Len(e)
    BY <1>1, <1>3, <1>4, <1>6
  <2>2. QED
    BY ONLY <2>1
<1>8. z = l - n
  BY <1>3, <1>6
<1>9. ASSUME NEW i \in 1..(l + k - n) PROVE u[i] = v[i]
  <2>1. CASE i <= l - n
    BY <1>1, <1>2, <1>3, <1>5, <1>7, <1>8, <2>1
  <2>2. CASE i > l - n
    <3>1. n + i \in (l + 1)..(l + k) /\ i \in (z + 1)..(z + k) /\ n + i - l = i - z
      BY <1>1, <1>2, <1>8, <2>2
    <3>2. u[i] = r[n + i]
      BY <1>5
    <3>3. r[n + i] = e[n + i - l]
      BY <1>2, <3>1
    <3>4. v[i] = e[i - z]
      BY <1>7, <3>1
    <3>5. QED
      BY <3>1, <3>2, <3>3, <3>4
  <2>3. QED
    BY <1>1, <1>2, <2>1, <2>2
<1>10. Len(u) = Len(v) /\ \A i \in 1..Len(u) : u[i] = v[i]
  BY <1>1, <1>2, <1>5, <1>7, <1>8, <1>9
<1>11. u = v
  BY <1>5, <1>7, <1>10, SeqEqual
<1>12. n = l => s = <<>>
  BY <1>2, <1>3
<1>13. QED
  BY <1>1, <1>2, <1>3, <1>4, <1>11, <1>12

\* A page is a run of the deque: right after the cursor when the deque has it, and
\* up to the end when not.
THEOREM PageIsRun ==
    ASSUME NEW S, NEW q \in Seq(S), NEW since, NEW limit \in Nat \ {0},
           NEW r, r = Page(q, since, limit)
    PROVE  /\ r \in Seq(S)
           /\ \E off \in 0..Len(q) :
                 /\ off + Len(r) <= Len(q)
                 /\ \A k \in 1..Len(r) : r[k] = q[off + k]
                 /\ since \in Ids(q) => off # 0 /\ q[off] = since
                 /\ since \notin Ids(q) => off + Len(r) = Len(q)
<1>1. Len(q) \in Nat /\ DOMAIN q = 1..Len(q)
  OBVIOUS
<1>2. CASE since \in Ids(q)
  <2>1. PICK i : i = CHOOSE j \in DOMAIN q : q[j] = since
    OBVIOUS
  <2>2. i \in 1..Len(q) /\ q[i] = since
    BY <1>1, <1>2, <2>1 DEF Ids
  <2>3. PICK last : last = IF i + limit < Len(q) THEN i + limit ELSE Len(q)
    OBVIOUS
  <2>4. last \in i..Len(q)
    <3>1. CASE i + limit < Len(q)
      BY <1>1, <2>2, <2>3, <3>1
    <3>2. CASE ~(i + limit < Len(q))
      BY <1>1, <2>2, <2>3, <3>2
    <3>3. QED
      BY <3>1, <3>2
  <2>5. r = SubSeq(q, i + 1, last)
    <3>1. Page(q, since, limit) =
            SubSeq(q, (CHOOSE j \in DOMAIN q : q[j] = since) + 1,
                   IF (CHOOSE j \in DOMAIN q : q[j] = since) + limit < Len(q)
                   THEN (CHOOSE j \in DOMAIN q : q[j] = since) + limit ELSE Len(q))
      BY <1>2, Zenon DEF Page
    <3>2. QED
      BY ONLY <2>1, <2>3, <3>1, r = Page(q, since, limit)
  <2>6. /\ \A k \in (i + 1)..last : q[k] \in S
        /\ i + 1 \in Nat /\ last \in Nat
    BY <1>1, <2>2, <2>4
  <2>7. /\ r \in Seq(S) /\ Len(r) = last - i
        /\ \A k \in 1..(last - i) : r[k] = q[i + k]
    BY <2>2, <2>4, <2>5, <2>6
  <2>8. /\ i \in 0..Len(q) /\ i + Len(r) <= Len(q) /\ i # 0
        /\ \A k \in 1..Len(r) : r[k] = q[i + k]
    BY <1>1, <2>2, <2>4, <2>7
  <2>9. QED
    BY ONLY <1>2, <2>2, <2>7, <2>8
<1>3. CASE since \notin Ids(q)
  <2>1. r = LastN(q, limit)
    BY <1>3 DEF Page
  <2>2. /\ r \in Seq(S)
        /\ Len(r) = IF Len(q) > limit THEN limit ELSE Len(q)
        /\ \A k \in 1..Len(r) : r[k] = q[Len(q) - Len(r) + k]
    BY <2>1, LastNMeans
  <2>3. PICK off : off = Len(q) - Len(r)
    OBVIOUS
  <2>4. Len(r) \in Nat /\ off \in 0..Len(q) /\ off + Len(r) = Len(q)
    <3>1. CASE Len(q) > limit
      BY <1>1, <2>2, <2>3, <3>1
    <3>2. CASE ~(Len(q) > limit)
      BY <1>1, <2>2, <2>3, <3>2
    <3>3. QED
      BY <3>1, <3>2
  <2>5. \A k \in 1..Len(r) : r[k] = q[off + k]
    BY <2>2, <2>3
  <2>6. off + Len(r) <= Len(q)
    BY <1>1, <2>4
  <2>7. QED
    BY ONLY <1>3, <2>2, <2>4, <2>5, <2>6
<1>4. QED
  BY <1>2, <1>3

\* What is in one sequence after another.
LEMMA IdsConcat ==
    ASSUME NEW S, NEW p \in Seq(S), NEW q \in Seq(S)
    PROVE  Ids(p \o q) = Ids(p) \cup Ids(q)
<1>1. PICK m, n, r : m = Len(p) /\ n = Len(q) /\ r = p \o q
  OBVIOUS
<1>2. /\ m \in Nat /\ n \in Nat /\ r \in Seq(S) /\ Len(r) = m + n
      /\ \A i \in 1..m : r[i] = p[i]
      /\ \A i \in (m + 1)..(m + n) : r[i] = q[i - m] /\ i - m \in 1..n
  BY <1>1, ConcatMeans
<1>3. DOMAIN r = 1..(m + n) /\ DOMAIN p = 1..m /\ DOMAIN q = 1..n
  BY <1>1, <1>2
<1>4. \A k \in 1..n : k + m \in (m + 1)..(m + n) /\ r[k + m] = q[k]
  <2> SUFFICES ASSUME NEW k \in 1..n
               PROVE  k + m \in (m + 1)..(m + n) /\ r[k + m] = q[k]
    OBVIOUS
  <2>1. k + m \in (m + 1)..(m + n) /\ (k + m) - m = k
    BY <1>2
  <2>2. QED
    BY <1>2, <2>1
<1>5. ASSUME NEW i \in 1..(m + n) PROVE r[i] \in Ids(p) \cup Ids(q)
  <2>1. CASE i \in 1..m
    BY <1>2, <1>3, <2>1 DEF Ids
  <2>2. CASE i \in (m + 1)..(m + n)
    BY <1>2, <1>3, <2>2 DEF Ids
  <2>3. QED
    BY <1>2, <2>1, <2>2
<1>6. \A i \in 1..m : i \in DOMAIN r /\ p[i] = r[i]
  BY <1>2, <1>3
<1>7. \A i \in 1..n : i + m \in DOMAIN r /\ q[i] = r[i + m]
  BY <1>2, <1>3, <1>4
<1>8. Ids(p) \cup Ids(q) \subseteq Ids(r)
  BY ONLY <1>3, <1>6, <1>7 DEF Ids
<1>9. Ids(r) \subseteq Ids(p) \cup Ids(q)
  BY <1>3, <1>5 DEF Ids
<1>10. QED
  BY <1>1, <1>8, <1>9

\* What is in a sequence is its first element, or in what follows.
LEMMA IdsTail ==
    ASSUME NEW S, NEW q \in Seq(S), q # <<>>, NEW r, r = Tail(q)
    PROVE  r \in Seq(S) /\ Ids(q) = {q[1]} \cup Ids(r)
<1>1. /\ r \in Seq(S) /\ Len(r) = Len(q) - 1 /\ Len(q) \in Nat \ {0}
      /\ \A k \in 1..Len(r) : r[k] = q[k + 1] /\ k + 1 \in 1..Len(q)
      /\ DOMAIN r = 1..Len(r) /\ DOMAIN q = 1..Len(q)
  OBVIOUS
<1>2. 1 \in DOMAIN q
  BY <1>1
<1>3. {q[1]} \cup Ids(r) \subseteq Ids(q)
  BY <1>1, <1>2 DEF Ids
<1>4. ASSUME NEW k \in 1..Len(q), k # 1 PROVE \E j \in 1..Len(r) : r[j] = q[k]
  <2>1. k - 1 \in 1..Len(r) /\ (k - 1) + 1 = k
    BY <1>1, <1>4
  <2>2. r[k - 1] = q[k]
    BY <1>1, <2>1
  <2>3. QED
    BY <2>1, <2>2
<1>5. ASSUME NEW d \in Ids(q), d # q[1] PROVE d \in Ids(r)
  <2>1. PICK k \in 1..Len(q) : q[k] = d
    BY <1>1 DEF Ids
  <2>2. PICK j \in 1..Len(r) : r[j] = d
    BY <1>4, <1>5, <2>1
  <2>3. QED
    BY <1>1, <2>2 DEF Ids
<1>6. QED
  BY <1>1, <1>3, <1>5

\* The last element of q that is in A, if any, is in G.
LastIn(q, A, G) ==
    \A i \in DOMAIN q :
        q[i] \in A /\ (\A j \in DOMAIN q : i < j => q[j] \notin A) => q[i] \in G

\* The last of A in q is judged by the members of q alone.
LEMMA LastSame ==
    ASSUME NEW q, NEW A, NEW G, NEW B, NEW H, LastIn(q, A, G),
           \A x \in Ids(q) : (x \in B <=> x \in A) /\ (x \in A \cap G => x \in H)
    PROVE  LastIn(q, B, H)
<1>1. \A i \in DOMAIN q : (q[i] \in B <=> q[i] \in A)
                       /\ (q[i] \in A \cap G => q[i] \in H)
  BY DEF Ids
<1>2. QED
  BY <1>1 DEF LastIn

\* One more that is not in A, or is in G.
LEMMA LastAppend ==
    ASSUME NEW S, NEW q \in Seq(S), NEW x \in S, NEW A, NEW G,
           (x \notin A /\ LastIn(q, A, G)) \/ x \in A \cap G,
           NEW r, r = Append(q, x)
    PROVE  LastIn(r, A, G)
<1>1. /\ Len(q) \in Nat /\ DOMAIN q = 1..Len(q) /\ DOMAIN r = 1..(Len(q) + 1)
      /\ r[Len(q) + 1] = x /\ \A k \in 1..Len(q) : r[k] = q[k]
  OBVIOUS
<1>2. SUFFICES ASSUME NEW i \in 1..(Len(q) + 1), r[i] \in A,
                      \A j \in 1..(Len(q) + 1) : i < j => r[j] \notin A
               PROVE  r[i] \in G
  BY <1>1 DEF LastIn
<1>3. CASE i = Len(q) + 1
  BY <1>1, <1>2, <1>3
<1>4. CASE i \in 1..Len(q)
  <2>1. Len(q) + 1 \in 1..(Len(q) + 1) /\ i < Len(q) + 1
    BY <1>1, <1>4
  <2>2. x \notin A /\ LastIn(q, A, G)
    BY <1>1, <1>2, <2>1
  <2>3. q[i] \in A /\ \A j \in 1..Len(q) : i < j => q[j] \notin A
    <3>1. \A j \in 1..Len(q) : j \in 1..(Len(q) + 1)
      BY <1>1
    <3>2. QED
      BY <1>1, <1>2, <1>4, <3>1
  <2>4. q[i] \in G
    BY <1>1, <1>4, <2>2, <2>3 DEF LastIn
  <2>5. QED
    BY <1>1, <1>4, <2>4
<1>5. QED
  BY <1>1, <1>3, <1>4

\* More that are not in A.
LEMMA LastConcat ==
    ASSUME NEW S, NEW p \in Seq(S), NEW q \in Seq(S), NEW A, NEW G,
           LastIn(p, A, G), Ids(q) \cap A = {}, NEW r, r = p \o q
    PROVE  LastIn(r, A, G)
<1>1. PICK m, n : m = Len(p) /\ n = Len(q)
  OBVIOUS
<1>2. /\ m \in Nat /\ n \in Nat /\ r \in Seq(S) /\ Len(r) = m + n
      /\ \A i \in 1..m : r[i] = p[i]
      /\ \A i \in (m + 1)..(m + n) : r[i] = q[i - m] /\ i - m \in 1..n
  BY <1>1, ConcatMeans
<1>3. DOMAIN r = 1..(m + n) /\ DOMAIN p = 1..m /\ DOMAIN q = 1..n
  BY <1>1, <1>2
<1>4. SUFFICES ASSUME NEW i \in 1..(m + n), r[i] \in A,
                      \A j \in 1..(m + n) : i < j => r[j] \notin A
               PROVE  r[i] \in G
  BY <1>3 DEF LastIn
<1>5. CASE i \in 1..m
  <2>1. p[i] \in A /\ \A j \in 1..m : i < j => p[j] \notin A
    <3>1. \A j \in 1..m : j \in 1..(m + n)
      BY <1>2
    <3>2. QED
      BY <1>2, <1>4, <1>5, <3>1
  <2>2. p[i] \in G
    BY <1>3, <1>5, <2>1 DEF LastIn
  <2>3. QED
    BY <1>2, <1>5, <2>2
<1>6. CASE i \in (m + 1)..(m + n)
  <2>1. r[i] \in Ids(q)
    BY <1>2, <1>3, <1>6 DEF Ids
  <2>2. QED
    BY <1>4, <2>1
<1>7. QED
  BY <1>2, <1>5, <1>6

\* All but the first; and the first, if it is the last of A.
LEMMA LastTail ==
    ASSUME NEW S, NEW q \in Seq(S), q # <<>>, NEW A, NEW G, LastIn(q, A, G),
           NEW r, r = Tail(q)
    PROVE  /\ LastIn(r, A, G)
           /\ q[1] \in A /\ Ids(r) \cap A = {} => q[1] \in G
<1>1. /\ Len(r) = Len(q) - 1 /\ Len(q) \in Nat \ {0}
      /\ \A k \in 1..Len(r) : r[k] = q[k + 1] /\ k + 1 \in 1..Len(q)
      /\ DOMAIN r = 1..Len(r) /\ DOMAIN q = 1..Len(q)
  OBVIOUS
<1>2. ASSUME NEW i \in 1..Len(r), r[i] \in A,
             \A j \in 1..Len(r) : i < j => r[j] \notin A
      PROVE  r[i] \in G
  <2>1. i + 1 \in DOMAIN q /\ q[i + 1] \in A
    BY <1>1, <1>2
  <2>2. ASSUME NEW j \in DOMAIN q, i + 1 < j PROVE q[j] \notin A
    <3>1. j - 1 \in 1..Len(r) /\ i < j - 1 /\ (j - 1) + 1 = j
      BY <1>1, <2>2
    <3>2. r[j - 1] = q[j]
      BY <1>1, <3>1
    <3>3. QED
      BY <1>2, <3>1, <3>2
  <2>3. q[i + 1] \in G
    BY <2>1, <2>2 DEF LastIn
  <2>4. QED
    BY <1>1, <2>3
<1>3. ASSUME q[1] \in A, Ids(r) \cap A = {} PROVE q[1] \in G
  <2>1. 1 \in DOMAIN q
    BY <1>1
  <2>2. ASSUME NEW j \in DOMAIN q, 1 < j PROVE q[j] \notin A
    <3>1. j - 1 \in 1..Len(r) /\ (j - 1) + 1 = j
      BY <1>1, <2>2
    <3>2. r[j - 1] = q[j] /\ j - 1 \in DOMAIN r
      BY <1>1, <3>1
    <3>3. q[j] \in Ids(r)
      BY <3>2 DEF Ids
    <3>4. QED
      BY <1>3, <3>3
  <2>3. QED
    BY <1>3, <2>1, <2>2 DEF LastIn
<1>4. LastIn(r, A, G)
  BY <1>1, <1>2 DEF LastIn
<1>5. QED
  BY <1>3, <1>4
=============================================================================
