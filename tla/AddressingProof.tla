---------------------------- MODULE AddressingProof ----------------------------
(***************************************************************************)
(* Theorems about Addressing, for texts of every length and every user's   *)
(* home.  What recursive functions compute of every text is proved by      *)
(* induction over its letters (SeqSetInduction): splitting and joining are *)
(* inverse, and a path of names is its own real path.                      *)
(***************************************************************************)
EXTENDS Addressing, PersistentDequeProof, SequenceTheorems, TLAPS

\* The body of the function that computes a fold.
FoldAt(step, first, q, f, n) == IF n = 0 THEN first ELSE step[<<f[n - 1], q[n]>>]

\* There is such a function.
LEMMA FoldExists ==
    ASSUME NEW step, NEW first, NEW q, NEW k \in Nat
    PROVE  \E f : f = [n \in 0..k |-> FoldAt(step, first, q, f, n)]
<1> DEFINE T == {m \in Nat : \E f : f = [n \in 0..m |-> FoldAt(step, first, q, f, n)]}
<1>1. 0 \in T
  <2>1. [n \in 0..0 |-> first] =
          [n \in 0..0 |-> FoldAt(step, first, q, [i \in 0..0 |-> first], n)]
    BY DEF FoldAt
  <2>2. QED
    BY <2>1
<1>2. ASSUME NEW m \in Nat, m \in T PROVE m + 1 \in T
  <2>1. PICK f : f = [n \in 0..m |-> FoldAt(step, first, q, f, n)]
    BY <1>2
  <2>2. PICK g : g = [n \in 0..(m + 1) |-> FoldAt(step, first, q, f, n)]
    OBVIOUS
  <2>3. \A n \in 0..m : g[n] = f[n]
    BY <2>1, <2>2
  <2>4. ASSUME NEW n \in 0..(m + 1)
        PROVE  FoldAt(step, first, q, f, n) = FoldAt(step, first, q, g, n)
    <3>1. n = 0 \/ f[n - 1] = g[n - 1]
      BY <2>3
    <3>2. QED
      BY ONLY <3>1, Zenon DEF FoldAt
  <2>5. g = [n \in 0..(m + 1) |-> FoldAt(step, first, q, g, n)]
    BY <2>2, <2>4
  <2>6. QED
    BY <2>5
<1> HIDE DEF T
<1>3. Nat \subseteq T
  BY <1>1, <1>2, NatSetInduction
<1>4. QED
  BY <1>3 DEF T

\* The values of a fold.
Upto(step, first, q, k) == CHOOSE f : f = [n \in 0..k |-> FoldAt(step, first, q, f, n)]

\* They start at the first and go on step by step.
LEMMA UptoMeans ==
    ASSUME NEW step, NEW first, NEW q, NEW k \in Nat, NEW f, f = Upto(step, first, q, k)
    PROVE  f[0] = first /\ \A n \in 1..k : f[n] = step[<<f[n - 1], q[n]>>]
<1>1. f = [n \in 0..k |-> FoldAt(step, first, q, f, n)]
  BY FoldExists DEF Upto
<1>2. f[0] = FoldAt(step, first, q, f, 0)
  BY <1>1
<1>3. ASSUME NEW n \in 1..k PROVE f[n] = step[<<f[n - 1], q[n]>>]
  <2>1. n # 0 /\ n \in 0..k
    OBVIOUS
  <2>2. f[n] = FoldAt(step, first, q, f, n)
    BY <1>1, <2>1
  <2>3. QED
    BY ONLY <2>1, <2>2, Zenon DEF FoldAt
<1>4. QED
  BY <1>2, <1>3 DEF FoldAt

\* A fold is the last of its values.
LEMMA FoldMeans ==
    ASSUME NEW step, NEW first, NEW q
    PROVE  Fold(step, first, q) = Upto(step, first, q, Len(q))[Len(q)]
BY DEF Fold, Upto, FoldAt

\* Of nothing it is where it starts.
LEMMA FoldEmpty ==
    ASSUME NEW step, NEW first
    PROVE  Fold(step, first, <<>>) = first
<1>1. PICK q, f : q = <<>> /\ f = Upto(step, first, q, 0)
  OBVIOUS
<1>2. Len(q) = 0
  BY <1>1
<1>3. Fold(step, first, q) = f[0]
  BY <1>1, <1>2, FoldMeans
<1>4. f[0] = first
  BY ONLY <1>1, 0 \in Nat, UptoMeans
<1>5. QED
  BY <1>1, <1>3, <1>4

\* And one more element is one more step.
LEMMA FoldAppend ==
    ASSUME NEW step, NEW first, NEW S, NEW q \in Seq(S), NEW x \in S
    PROVE  Fold(step, first, Append(q, x)) = step[<<Fold(step, first, q), x>>]
<1>1. PICK r, k, l : r = Append(q, x) /\ k = Len(q) /\ l = Len(r)
  OBVIOUS
<1>2. /\ k \in Nat /\ l = k + 1 /\ l \in Nat /\ k = Len(q) /\ l = Len(r)
      /\ r[l] = x /\ \A n \in 1..k : r[n] = q[n]
  BY <1>1
<1>3. PICK f, g : f = Upto(step, first, q, k) /\ g = Upto(step, first, r, l)
  OBVIOUS
<1>4. f[0] = first /\ \A n \in 1..k : f[n] = step[<<f[n - 1], q[n]>>]
  BY ONLY <1>2, <1>3, UptoMeans
<1>5. g[0] = first /\ \A n \in 1..l : g[n] = step[<<g[n - 1], r[n]>>]
  <2>1. l \in Nat /\ g = Upto(step, first, r, l)
    BY <1>2, <1>3
  <2>2. QED
    BY ONLY <2>1, UptoMeans
<1> DEFINE T == {n \in Nat : n <= k => f[n] = g[n]}
<1>6. 0 \in T
  BY <1>4, <1>5
<1>7. ASSUME NEW n \in Nat, n \in T PROVE n + 1 \in T
  <2> SUFFICES ASSUME n + 1 <= k PROVE f[n + 1] = g[n + 1]
    OBVIOUS
  <2>1. f[n] = g[n] /\ r[n + 1] = q[n + 1] /\ n + 1 \in 1..k /\ n + 1 \in 1..l
        /\ (n + 1) - 1 = n
    BY <1>2, <1>7
  <2>2. f[n + 1] = step[<<f[n], q[n + 1]>>] /\ g[n + 1] = step[<<g[n], r[n + 1]>>]
    BY ONLY <1>4, <1>5, <2>1
  <2>3. QED
    BY ONLY <2>1, <2>2, Zenon
<1> HIDE DEF T
<1>8. k \in T
  BY <1>2, <1>6, <1>7, NatSetInduction
<1>9. f[k] = g[k] /\ l \in 1..l /\ l - 1 = k
  BY <1>2, <1>8 DEF T
<1>10. g[l] = step[<<g[k], r[l]>>]
  BY ONLY <1>5, <1>9
<1>11. Fold(step, first, q) = f[k] /\ Fold(step, first, r) = g[l]
  BY ONLY <1>2, <1>3, FoldMeans, Zenon
<1>12. QED
  BY ONLY <1>1, <1>2, <1>9, <1>10, <1>11, Zenon

\* Parts without a slash, and those that can be components.
Slashless == {w \in Text : ~Has(w, "/")}
Name == Slashless \ Dots

\* A sequence that is not empty ends in something.
LEMMA EndOf ==
    ASSUME NEW S, NEW q \in Seq(S), NEW x \in S, NEW r, r = Append(q, x)
    PROVE  r \in Seq(S) /\ r # <<>> /\ Front(r) = q /\ Last(r) = x
BY DEF Front, Last

\* One more letter adds a part or makes the last one longer.
LEMMA SplitAppend ==
    ASSUME NEW t \in Text, NEW l \in Letter, Split(t) \in Seq(Text)
    PROVE  Split(Append(t, l)) = Parts(Split(t), l)
<1> DEFINE step == [p \in Seq(Text) \X Letter |-> Parts(p[1], p[2])]
<1>1. t \in Seq(Letter)
  BY DEF Text
<1>2. step[<<Split(t), l>>] = Parts(Split(t), l)
  OBVIOUS
<1> HIDE DEF step
<1>3. Fold(step, <<<<>>>>, Append(t, l)) = step[<<Fold(step, <<<<>>>>, t), l>>]
  BY <1>1, FoldAppend
<1>4. Split(t) = Fold(step, <<<<>>>>, t) /\ Split(Append(t, l)) = Fold(step, <<<<>>>>, Append(t, l))
  BY DEF Split, step
<1>5. QED
  BY <1>2, <1>3, <1>4

\* Of nothing there is one part, which is empty.
LEMMA SplitEmpty == Split(<<>>) = <<<<>>>> /\ Split(<<>>) \in Seq(Slashless)
<1>1. PICK e, one : e = <<>> /\ one = <<e>>
  OBVIOUS
<1>2. Split(e) = one
  BY <1>1, FoldEmpty DEF Split
<1>3. e \in Slashless
  BY <1>1 DEF Slashless, Text, Has
<1>4. one \in Seq(Slashless)
  BY <1>1, <1>3
<1>5. Split(<<>>) = one
  BY ONLY <1>1, <1>2, Zenon
<1>6. QED
  BY ONLY <1>1, <1>4, <1>5, Zenon

\* What a letter does to the parts.
LEMMA PartsMeans ==
    ASSUME NEW p \in Seq(Slashless), NEW w \in Slashless, NEW l \in Letter
    PROVE  /\ Append(p, w) \in Seq(Text)
           /\ Parts(Append(p, w), "/") = Append(Append(p, w), <<>>)
           /\ l # "/" => Parts(Append(p, w), l) = Append(p, Append(w, l))
           /\ <<>> \in Slashless
           /\ l # "/" => Append(w, l) \in Slashless
<1>1. PICK q : q = Append(p, w)
  OBVIOUS
<1>2. Front(q) = p /\ Last(q) = w /\ q \in Seq(Slashless)
  BY <1>1, EndOf
<1>3. Slashless \subseteq Text
  BY DEF Slashless
<1>4. q \in Seq(Text)
  BY ONLY <1>2, <1>3, SeqMonotonic
<1>5. <<>> \in Slashless
  BY DEF Slashless, Text, Has
<1>6. ASSUME l # "/" PROVE Append(w, l) \in Slashless
  <2>1. PICK v : v = Append(w, l)
    OBVIOUS
  <2>2. w \in Seq(Letter) /\ ~Has(w, "/")
    BY DEF Slashless, Text
  <2>3. v \in Seq(Letter) /\ \A i \in DOMAIN v : v[i] = l \/ (i \in DOMAIN w /\ v[i] = w[i])
    BY <2>1, <2>2
  <2>4. ~Has(v, "/")
    BY <1>6, <2>2, <2>3 DEF Has
  <2>5. QED
    BY <2>1, <2>3, <2>4 DEF Slashless, Text
<1>7. QED
  BY <1>1, <1>2, <1>4, <1>5, <1>6 DEF Parts

\* The parts of a text hold no slash, and there is at least one.
LEMMA SplitTyped ==
    \A t \in Text : \E p \in Seq(Slashless), w \in Slashless : Split(t) = Append(p, w)
<1> DEFINE T == {t \in Text : \E p \in Seq(Slashless), w \in Slashless :
                                Split(t) = Append(p, w)}
<1>1. <<>> \in T
  <2>1. <<>> \in Seq(Slashless) /\ <<>> \in Slashless /\ <<>> \in Text
    BY DEF Slashless, Text, Has
  <2>2. Split(<<>>) = Append(<<>>, <<>>)
    BY SplitEmpty
  <2>3. QED
    BY <2>1, <2>2
<1>2. ASSUME NEW t \in Seq(Letter), NEW l \in Letter, t \in T PROVE Append(t, l) \in T
  <2>1. PICK p \in Seq(Slashless), w \in Slashless : Split(t) = Append(p, w)
    BY <1>2
  <2>2. Append(t, l) \in Text /\ t \in Text
    BY DEF Text
  <2>3. Split(Append(t, l)) = Parts(Append(p, w), l)
    BY <2>1, <2>2, PartsMeans, SplitAppend
  <2>4. CASE l = "/"
    <3>1. PICK q, v : q = Append(p, w) /\ v = <<>>
      OBVIOUS
    <3>2. q \in Seq(Slashless) /\ v \in Slashless
      BY <3>1, PartsMeans
    <3>3. Split(Append(t, l)) = Append(q, v)
      BY <2>3, <2>4, <3>1, PartsMeans
    <3>4. QED
      BY <2>2, <3>2, <3>3
  <2>5. CASE l # "/"
    <3>1. PICK v : v = Append(w, l)
      OBVIOUS
    <3>2. v \in Slashless /\ Split(Append(t, l)) = Append(p, v)
      BY <2>3, <2>5, <3>1, PartsMeans
    <3>3. QED
      BY <2>2, <3>2
  <2>6. QED
    BY <2>4, <2>5
<1> HIDE DEF T
<1>3. Seq(Letter) \subseteq T
  BY <1>1, <1>2, SeqSetInduction
<1>4. QED
  BY <1>3 DEF T, Text

\* Appending comes after concatenating, and one more element is one more part.
LEMMA AppendConcat ==
    ASSUME NEW S, NEW a \in Seq(S), NEW b \in Seq(S), NEW x \in S
    PROVE  a \o Append(b, x) = Append(a \o b, x)
<1>1. <<x>> \in Seq(S) /\ a \o b \in Seq(S)
  OBVIOUS
<1>2. Append(b, x) = b \o <<x>> /\ Append(a \o b, x) = (a \o b) \o <<x>>
  BY <1>1, AppendIsConcat
<1>3. (a \o b) \o <<x>> = a \o (b \o <<x>>)
  BY ONLY a \in Seq(S), b \in Seq(S), <1>1, ConcatAssociative
<1>4. QED
  BY ONLY <1>2, <1>3, Zenon

\* A text behind another and a slash has its parts behind the other's.
LEMMA SplitConcat ==
    ASSUME NEW s \in Text
    PROVE  \A t \in Text : Split(Append(s, "/") \o t) = Split(s) \o Split(t)
<1>1. PICK p \in Seq(Slashless), w \in Slashless : Split(s) = Append(p, w)
  BY SplitTyped
<1>2. PICK a, q : a = Append(s, "/") /\ q = Append(p, w)
  OBVIOUS
<1>3. s \in Seq(Letter) /\ "/" \in Letter /\ a \in Seq(Letter) /\ a \in Text
  BY <1>2 DEF Text, Letter
<1>4. q \in Seq(Slashless) /\ q \in Seq(Text) /\ Split(s) = q
  <2>1. q \in Seq(Slashless)
    BY <1>2
  <2>2. Append(p, w) \in Seq(Text)
    BY <1>3, PartsMeans
  <2>3. QED
    BY <1>1, <1>2, <2>1, <2>2
<1> DEFINE T == {t \in Text : Split(a \o t) = q \o Split(t)}
<1>5. <<>> \in T
  <2>1. PICK e : e = <<>>
    OBVIOUS
  <2>2. Split(a) = Append(q, e)
    <3>1. Split(a) = Parts(q, "/")
      BY ONLY s \in Text, <1>2, <1>3, <1>4, SplitAppend
    <3>2. Parts(q, "/") = Append(q, <<>>)
      BY <1>2, <1>3, PartsMeans
    <3>3. QED
      BY <2>1, <3>1, <3>2
  <2>3. e \in Slashless /\ e \in Text /\ a \o e = a
    BY <1>3, <2>1 DEF Slashless, Text, Has
  <2>4. Append(q, e) = q \o <<e>>
    BY ONLY <1>4, <2>3, AppendIsConcat
  <2>5. Split(e) = <<e>>
    BY <2>1, SplitEmpty
  <2>6. e \in T
    BY <2>2, <2>3, <2>4, <2>5
  <2>7. QED
    BY ONLY <2>1, <2>6
<1>6. ASSUME NEW t \in Seq(Letter), NEW l \in Letter, t \in T PROVE Append(t, l) \in T
  <2>1. t \in Text /\ Append(t, l) \in Text /\ a \o t \in Text
    BY <1>3 DEF Text
  <2>2. PICK r \in Seq(Slashless), v \in Slashless : Split(t) = Append(r, v)
    BY <2>1, SplitTyped
  <2>3. PICK o : o = q \o r
    OBVIOUS
  <2>4. o \in Seq(Slashless)
    BY <1>4, <2>3
  <2>5. q \o Append(r, v) = Append(o, v) /\ Append(r, v) \in Seq(Slashless)
    BY <1>4, <2>3, AppendConcat
  <2>6. Split(a \o t) = Append(o, v)
    BY <1>6, <2>2, <2>5
  <2>7. /\ Append(o, v) \in Seq(Text) /\ Append(r, v) \in Seq(Text)
        /\ Parts(Append(o, v), "/") = Append(Append(o, v), <<>>)
        /\ Parts(Append(r, v), "/") = Append(Append(r, v), <<>>)
        /\ l # "/" => /\ Parts(Append(o, v), l) = Append(o, Append(v, l))
                      /\ Parts(Append(r, v), l) = Append(r, Append(v, l))
                      /\ Append(v, l) \in Slashless
        /\ <<>> \in Slashless
    BY <2>4, PartsMeans
  <2>8. Split(Append(a \o t, l)) = Parts(Append(o, v), l)
    BY ONLY <2>1, <2>6, <2>7, l \in Letter, SplitAppend
  <2>9. Split(Append(t, l)) = Parts(Append(r, v), l)
    BY ONLY <2>1, <2>2, <2>7, l \in Letter, SplitAppend
  <2>10. a \o Append(t, l) = Append(a \o t, l)
    BY <1>3, AppendConcat
  <2>11. Parts(Append(o, v), l) = q \o Parts(Append(r, v), l)
    <3>1. CASE l = "/"
      <4>1. PICK e, z : e = <<>> /\ z = Append(r, v)
        OBVIOUS
      <4>2. e \in Slashless /\ z \in Seq(Slashless) /\ q \o z = Append(o, v)
        BY <2>5, <2>7, <4>1
      <4>3. q \o Append(z, e) = Append(q \o z, e)
        <5>1. q \in Seq(Slashless) /\ z \in Seq(Slashless) /\ e \in Slashless
          BY <1>4, <4>2
        <5>2. QED
          BY ONLY <5>1, AppendConcat, SMTT(30)
      <4>4. QED
        BY ONLY <2>7, <3>1, <4>1, <4>2, <4>3
    <3>2. CASE l # "/"
      <4>1. PICK z : z = Append(v, l)
        OBVIOUS
      <4>2. z \in Slashless
        BY <2>7, <3>2, <4>1
      <4>3. q \o Append(r, z) = Append(o, z)
        <5>1. q \in Seq(Slashless) /\ r \in Seq(Slashless) /\ z \in Slashless
          BY <1>4, <4>2
        <5>2. q \o Append(r, z) = Append(q \o r, z)
          BY ONLY <5>1, AppendConcat, SMTT(30)
        <5>3. QED
          BY <2>3, <5>2
      <4>4. QED
        BY ONLY <2>7, <3>2, <4>1, <4>3
    <3>3. QED
      BY <3>1, <3>2
  <2>12. QED
    BY <2>1, <2>8, <2>9, <2>10, <2>11
<1> HIDE DEF T
<1>7. Seq(Letter) \subseteq T
  BY <1>5, <1>6, SeqSetInduction
<1>8. QED
  BY <1>2, <1>4, <1>7 DEF T, Text

\* What holds no slash is its own one part.
LEMMA SplitWord == \A w \in Slashless : Split(w) = <<w>>
<1> DEFINE T == {t \in Text : t \in Slashless => Split(t) = <<t>>}
<1>1. <<>> \in T
  <2>1. PICK e : e = <<>>
    OBVIOUS
  <2>2. e \in Text /\ Split(e) = <<e>>
    BY <2>1, SplitEmpty DEF Text
  <2>3. QED
    BY <2>1, <2>2
<1>2. ASSUME NEW t \in Seq(Letter), NEW l \in Letter, t \in T PROVE Append(t, l) \in T
  <2>1. PICK v : v = Append(t, l)
    OBVIOUS
  <2>2. v \in Seq(Letter) /\ Len(v) = Len(t) + 1 /\ v[Len(t) + 1] = l
        /\ \A i \in 1..Len(t) : v[i] = t[i]
    BY <2>1
  <2>3. v \in Text /\ t \in Text
    BY <2>2 DEF Text
  <2>4. ASSUME v \in Slashless PROVE Split(v) = <<v>>
    <3>1. ~Has(v, "/")
      BY <2>4 DEF Slashless
    <3>2. l # "/" /\ ~Has(t, "/")
      BY <2>2, <3>1 DEF Has
    <3>3. t \in Slashless /\ Split(t) = <<t>>
      BY <1>2, <2>3, <3>2 DEF Slashless
    <3>4. PICK e : e = <<>>
      OBVIOUS
    <3>5. e \in Seq(Slashless) /\ <<t>> = Append(e, t) /\ <<v>> = Append(e, v)
      BY <3>4
    <3>6. Append(e, t) \in Seq(Text) /\ Parts(Append(e, t), l) = Append(e, Append(t, l))
      BY <3>2, <3>3, <3>5, PartsMeans
    <3>7. Split(Append(t, l)) = Parts(Split(t), l)
      BY ONLY <2>3, <3>3, <3>5, <3>6, l \in Letter, SplitAppend
    <3>8. QED
      BY ONLY <2>1, <3>3, <3>5, <3>6, <3>7
  <2>5. QED
    BY <2>1, <2>3, <2>4
<1> HIDE DEF T
<1>3. Seq(Letter) \subseteq T
  BY <1>1, <1>2, SeqSetInduction
<1>4. QED
  BY <1>3 DEF T, Text, Slashless

\* Every part adds a slash and itself.
LEMMA JoinAppend ==
    ASSUME NEW p \in Seq(Text), NEW w \in Text, Join(p) \in Text
    PROVE  Join(Append(p, w)) = Append(Join(p), "/") \o w
<1> DEFINE step == [x \in Text \X Text |-> Joined(x[1], x[2])]
<1>1. step[<<Join(p), w>>] = Append(Join(p), "/") \o w
  BY DEF Joined
<1> HIDE DEF step
<1>2. Fold(step, <<>>, Append(p, w)) = step[<<Fold(step, <<>>, p), w>>]
  BY FoldAppend
<1>3. Join(p) = Fold(step, <<>>, p) /\ Join(Append(p, w)) = Fold(step, <<>>, Append(p, w))
  BY DEF Join, step
<1>4. QED
  BY <1>1, <1>2, <1>3

\* The joined parts are a text.
LEMMA JoinTyped == Join(<<>>) = <<>> /\ \A p \in Seq(Text) : Join(p) \in Text
<1> DEFINE T == {p \in Seq(Text) : Join(p) \in Text}
<1>1. Join(<<>>) = <<>>
  BY FoldEmpty DEF Join
<1>2. <<>> \in T
  <2>1. <<>> \in Text
    BY DEF Text
  <2>2. <<>> \in Seq(Text)
    OBVIOUS
  <2>3. QED
    BY <1>1, <2>1, <2>2
<1>3. ASSUME NEW p \in Seq(Text), NEW w \in Text, p \in T PROVE Append(p, w) \in T
  <2>1. Join(Append(p, w)) = Append(Join(p), "/") \o w /\ Join(p) \in Text
    BY <1>3, JoinAppend
  <2>2. PICK j : j = Join(p)
    OBVIOUS
  <2>3. j \in Seq(Letter) /\ w \in Seq(Letter) /\ "/" \in Letter
    BY <2>1, <2>2 DEF Text, Letter
  <2>4. Append(j, "/") \o w \in Seq(Letter)
    BY <2>3
  <2>5. Append(j, "/") \o w \in Text /\ Append(p, w) \in Seq(Text)
    BY <2>4 DEF Text
  <2>6. QED
    BY <2>1, <2>2, <2>5
<1> HIDE DEF T
<1>4. Seq(Text) \subseteq T
  BY <1>2, <1>3, SeqSetInduction
<1>5. QED
  BY <1>1, <1>4 DEF T

\* Joined parts split into an empty one, in front of the first slash, and themselves.
LEMMA SplitJoin ==
    \A p \in Seq(Slashless) : Join(p) \in Text /\ Split(Join(p)) = <<<<>>>> \o p
<1>0. PICK e, one : e = <<>> /\ one = <<e>>
  OBVIOUS
<1>1. e \in Slashless /\ one \in Seq(Slashless) /\ Slashless \subseteq Text
      /\ e \in Text /\ Split(e) = one
  BY <1>0, SplitEmpty DEF Slashless, Text, Has
<1> DEFINE T == {p \in Seq(Slashless) : Join(p) \in Text /\ Split(Join(p)) = one \o p}
<1>2. <<>> \in T
  <2>1. Join(e) = e
    BY <1>0, JoinTyped
  <2>2. one \o <<>> = one
    BY <1>1
  <2>3. one \o e = one /\ e \in Seq(Slashless)
    BY <1>0, <2>2
  <2>4. e \in T
    BY <1>1, <2>1, <2>3
  <2>5. QED
    BY ONLY <1>0, <2>4
<1>3. ASSUME NEW p \in Seq(Slashless), NEW w \in Slashless, p \in T PROVE Append(p, w) \in T
  <2>1. p \in Seq(Text) /\ w \in Text /\ Append(p, w) \in Seq(Slashless)
    BY <1>1, SeqMonotonic
  <2>2. Append(p, w) \in Seq(Text)
    BY <2>1
  <2>3. Join(p) \in Text /\ Split(Join(p)) = one \o p
    BY <1>3
  <2>4. Join(Append(p, w)) = Append(Join(p), "/") \o w
    BY <2>1, <2>3, JoinAppend
  <2>5. Split(Append(Join(p), "/") \o w) = Split(Join(p)) \o Split(w)
    BY <2>1, <2>3, SplitConcat
  <2>6. Split(w) = <<w>>
    BY SplitWord
  <2>7. (one \o p) \o <<w>> = one \o Append(p, w)
    <3>1. (one \o p) \o <<w>> = Append(one \o p, w)
      <4>1. one \o p \in Seq(Slashless)
        BY <1>1
      <4>2. QED
        BY <4>1, AppendIsConcat
    <3>2. one \o Append(p, w) = Append(one \o p, w)
      BY <1>1, AppendConcat
    <3>3. QED
      BY <3>1, <3>2
  <2>8. Join(Append(p, w)) \in Text
    BY <2>2, JoinTyped
  <2>9. QED
    BY <2>1, <2>3, <2>4, <2>5, <2>6, <2>7, <2>8
<1> HIDE DEF T
<1>4. Seq(Slashless) \subseteq T
  BY <1>2, <1>3, SeqSetInduction
<1>5. ASSUME NEW p \in Seq(Slashless)
      PROVE  Join(p) \in Text /\ Split(Join(p)) = <<<<>>>> \o p
  <2>1. Join(p) \in Text /\ Split(Join(p)) = one \o p
    BY <1>4 DEF T
  <2>2. <<<<>>>> = one
    BY <1>0
  <2>3. QED
    BY <2>1, <2>2
<1>6. QED
  BY <1>5

\* A path behind another is its text behind the other's.
LEMMA JoinConcat ==
    ASSUME NEW p \in Seq(Text)
    PROVE  \A q \in Seq(Text) : Join(p \o q) = Join(p) \o Join(q)
<1> DEFINE T == {q \in Seq(Text) : Join(p \o q) = Join(p) \o Join(q)}
<1>1. <<>> \in T
  <2>1. PICK j : j = Join(p)
    OBVIOUS
  <2>2. j \in Seq(Letter) /\ p \o <<>> = p
    BY <2>1, JoinTyped DEF Text
  <2>3. j \o <<>> = j
    BY <2>2
  <2>4. QED
    BY <2>1, <2>2, <2>3, JoinTyped
<1>2. ASSUME NEW q \in Seq(Text), NEW w \in Text, q \in T PROVE Append(q, w) \in T
  <2>1. PICK r, a, b, m : r = p \o q /\ a = Join(p) /\ b = Join(q) /\ m = Append(b, "/")
    OBVIOUS
  <2>2. r \in Seq(Text) /\ p \o Append(q, w) = Append(r, w)
    BY <2>1, AppendConcat
  <2>3. Join(r) \in Text /\ a \in Text /\ b \in Text
    BY <2>1, <2>2, JoinTyped
  <2>4. Join(Append(r, w)) = Append(Join(r), "/") \o w
    BY <2>2, <2>3, JoinAppend
  <2>5. Join(Append(q, w)) = m \o w
    BY <2>1, <2>3, JoinAppend
  <2>6. Join(r) = a \o b
    BY <1>2, <2>1
  <2>7. a \in Seq(Letter) /\ b \in Seq(Letter) /\ w \in Seq(Letter) /\ "/" \in Letter
    BY <2>3 DEF Text, Letter
  <2>8. a \o m = Append(a \o b, "/") /\ m \in Seq(Letter)
    BY <2>1, <2>7, AppendConcat
  <2>9. (a \o m) \o w = a \o (m \o w)
    <3>1. a \in Seq(Letter) /\ m \in Seq(Letter) /\ w \in Seq(Letter)
      BY <2>7, <2>8
    <3>2. QED
      BY ONLY <3>1, ConcatAssociative
  <2>10. Join(Append(r, w)) = a \o (m \o w)
    BY ONLY <2>4, <2>6, <2>8, <2>9
  <2>11. Append(q, w) \in Seq(Text)
    OBVIOUS
  <2>12. Join(p \o Append(q, w)) = a \o (m \o w)
    BY ONLY <2>2, <2>10
  <2>13. Join(p \o Append(q, w)) = Join(p) \o Join(Append(q, w))
    BY ONLY <2>1, <2>5, <2>12
  <2>14. QED
    BY <2>11, <2>13
<1> HIDE DEF T
<1>3. Seq(Text) \subseteq T
  BY <1>1, <1>2, SeqSetInduction
<1>4. QED
  BY <1>3 DEF T

\* The parts of a text join to it, behind a slash.
LEMMA JoinSplit == \A t \in Text : Join(Split(t)) = <<"/">> \o t
<1>0. "/" \in Letter /\ Slashless \subseteq Text
  BY DEF Letter, Slashless
<1>1. PICK s : s = <<"/">>
  OBVIOUS
<1>2. s \in Seq(Letter)
  BY <1>0, <1>1
<1> DEFINE T == {t \in Text : Join(Split(t)) = s \o t}
<1>3. <<>> \in T
  <2>1. PICK e, one : e = <<>> /\ one = <<e>>
    OBVIOUS
  <2>2. e \in Seq(Text) /\ e \in Text /\ one = Append(e, e) /\ Join(e) = e /\ Split(e) = one
    BY <2>1, SplitEmpty, JoinTyped DEF Text
  <2>3. Join(Append(e, e)) = Append(Join(e), "/") \o e
    BY ONLY <2>2, JoinAppend
  <2>4. Append(e, "/") = s
    BY <1>1, <2>1
  <2>5. e \in T
    BY ONLY <2>2, <2>3, <2>4
  <2>6. QED
    BY ONLY <2>1, <2>5
<1>4. ASSUME NEW t \in Seq(Letter), NEW l \in Letter, t \in T PROVE Append(t, l) \in T
  <2>1. t \in Text /\ Append(t, l) \in Text
    BY DEF Text
  <2>2. PICK p \in Seq(Slashless), w \in Slashless : Split(t) = Append(p, w)
    BY <2>1, SplitTyped
  <2>3. /\ Append(p, w) \in Seq(Text)
        /\ Parts(Append(p, w), "/") = Append(Append(p, w), <<>>)
        /\ l # "/" => Parts(Append(p, w), l) = Append(p, Append(w, l))
        /\ l # "/" => Append(w, l) \in Slashless
    BY PartsMeans
  <2>4. p \in Seq(Text) /\ w \in Text
    BY <1>0, SeqMonotonic
  <2>5. Split(Append(t, l)) = Parts(Append(p, w), l)
    BY ONLY <2>1, <2>2, <2>3, l \in Letter, SplitAppend
  <2>6. Join(Append(p, w)) = s \o t
    BY <1>4, <2>2
  <2>7. s \o Append(t, l) = Append(s \o t, l)
    BY <1>2, AppendConcat
  <2>8. CASE l = "/"
    <3>1. PICK e, q, j : e = <<>> /\ q = Append(p, w) /\ j = Join(q)
      OBVIOUS
    <3>2. e \in Text /\ q \in Seq(Text) /\ j \in Text
      <4>1. e \in Text
        BY <3>1 DEF Text
      <4>2. QED
        BY <2>3, <3>1, <4>1, JoinTyped
    <3>3. Join(Append(q, e)) = Append(j, "/") \o e
      BY <3>1, <3>2, JoinAppend
    <3>4. Append(j, "/") \o e = Append(j, "/")
      BY <1>0, <3>1, <3>2 DEF Text
    <3>5. Split(Append(t, l)) = Append(q, e) /\ j = s \o t
      BY ONLY <2>3, <2>5, <2>6, <2>8, <3>1
    <3>6. QED
      BY ONLY <2>1, <2>7, <2>8, <3>3, <3>4, <3>5
  <2>9. CASE l # "/"
    <3>1. PICK v, j : v = Append(w, l) /\ j = Append(Join(p), "/")
      OBVIOUS
    <3>2. Join(p) \in Text
      BY <2>4, JoinTyped
    <3>3. v \in Text /\ Join(Append(p, v)) = j \o v
      BY <1>0, <2>3, <2>4, <2>9, <3>1, <3>2, JoinAppend
    <3>4. Join(Append(p, w)) = j \o w
      BY <2>4, <3>1, <3>2, JoinAppend
    <3>5. j \in Seq(Letter) /\ w \in Seq(Letter)
      BY <1>0, <2>4, <3>1, <3>2 DEF Text
    <3>6. j \o v = Append(j \o w, l)
      BY ONLY <3>1, <3>5, l \in Letter, AppendConcat
    <3>7. QED
      BY ONLY <2>1, <2>3, <2>5, <2>6, <2>7, <2>9, <3>1, <3>3, <3>4, <3>6
  <2>10. QED
    BY <2>8, <2>9
<1> HIDE DEF T
<1>5. Seq(Letter) \subseteq T
  BY <1>3, <1>4, SeqSetInduction
<1>6. QED
  BY <1>1, <1>5 DEF T, Text

\* Every part is entered in turn.
LEMMA ResolveAppend ==
    ASSUME NEW p \in Seq(Text), NEW w \in Text, Resolve(p) \in Seq(Text)
    PROVE  Resolve(Append(p, w)) = Entered(Resolve(p), w)
<1> DEFINE step == [x \in Seq(Text) \X Text |-> Entered(x[1], x[2])]
<1>1. step[<<Resolve(p), w>>] = Entered(Resolve(p), w)
  OBVIOUS
<1> HIDE DEF step
<1>2. Fold(step, <<>>, Append(p, w)) = step[<<Fold(step, <<>>, p), w>>]
  BY FoldAppend
<1>3. Resolve(p) = Fold(step, <<>>, p) /\ Resolve(Append(p, w)) = Fold(step, <<>>, Append(p, w))
  BY DEF Resolve, step
<1>4. QED
  BY <1>1, <1>2, <1>3

\* Names are texts without a slash.
LEMMA Names ==
    /\ Name \subseteq Slashless /\ Slashless \subseteq Text
    /\ Seq(Name) \subseteq Seq(Slashless) /\ Seq(Slashless) \subseteq Seq(Text)
<1>1. Name \subseteq Slashless /\ Slashless \subseteq Text
  BY DEF Name, Slashless
<1>2. QED
  BY ONLY <1>1, SeqMonotonic, Zenon

\* Entering a part leads from names to names.
LEMMA EnteredTyped ==
    ASSUME NEW p \in Seq(Name), NEW w \in Slashless
    PROVE  Entered(p, w) \in Seq(Name)
<1>1. w \notin Dots => Append(p, w) \in Seq(Name)
  BY DEF Name
<1>2. p # <<>> => Front(p) \in Seq(Name)
  BY DEF Front
<1>3. QED
  BY ONLY <1>1, <1>2, p \in Seq(Name), Zenon DEF Entered

\* A real path consists of names.
LEMMA ResolveTyped ==
    Resolve(<<>>) = <<>> /\ \A p \in Seq(Slashless) : Resolve(p) \in Seq(Name)
<1> DEFINE T == {p \in Seq(Slashless) : Resolve(p) \in Seq(Name)}
<1>1. Resolve(<<>>) = <<>>
  BY FoldEmpty DEF Resolve
<1>2. <<>> \in T
  <2>1. PICK e : e = <<>>
    OBVIOUS
  <2>2. e \in Seq(Name) /\ e \in Seq(Slashless) /\ Resolve(e) = e
    BY <1>1, <2>1
  <2>3. e \in T
    BY ONLY <2>2
  <2>4. QED
    BY ONLY <2>1, <2>3
<1>3. ASSUME NEW p \in Seq(Slashless), NEW w \in Slashless, p \in T PROVE Append(p, w) \in T
  <2>1. p \in Seq(Text) /\ w \in Text /\ Resolve(p) \in Seq(Name) /\ Resolve(p) \in Seq(Text)
    BY <1>3, Names
  <2>2. Resolve(Append(p, w)) = Entered(Resolve(p), w)
    BY <2>1, ResolveAppend
  <2>3. Entered(Resolve(p), w) \in Seq(Name)
    BY <2>1, EnteredTyped
  <2>4. Append(p, w) \in Seq(Slashless)
    OBVIOUS
  <2>5. QED
    BY <2>2, <2>3, <2>4
<1> HIDE DEF T
<1>4. Seq(Slashless) \subseteq T
  BY <1>2, <1>3, SeqSetInduction
<1>5. QED
  BY <1>1, <1>4 DEF T

\* Names behind the empty part in front of the first slash are the path of these names.
LEMMA ResolveClean ==
    ASSUME NEW e, e = <<>>, NEW one, one = <<e>>
    PROVE  /\ one \in Seq(Slashless) /\ Resolve(one) = e /\ Resolve(Append(one, e)) = e
           /\ \A p \in Seq(Name) : Resolve(one \o p) = p
<1>1. e \in Slashless /\ e \in Text /\ one \in Seq(Slashless) /\ one \in Seq(Text)
      /\ e \in Seq(Text) /\ one = Append(e, e) /\ Resolve(e) = e
  BY ResolveTyped DEF Slashless, Text, Has
<1>2. Entered(e, e) = e
  BY DEF Entered, Dots
<1>3. Resolve(one) = e
  BY <1>1, <1>2, ResolveAppend
<1>4. Resolve(Append(one, e)) = e
  BY ONLY <1>1, <1>2, <1>3, ResolveAppend
<1> DEFINE T == {p \in Seq(Name) : Resolve(one \o p) = p}
<1>5. <<>> \in T
  <2>1. one \o e = one /\ e \in Seq(Name)
    BY <1>1
  <2>2. e \in T
    BY <1>3, <2>1
  <2>3. QED
    BY <2>2
<1>6. ASSUME NEW p \in Seq(Name), NEW w \in Name, p \in T PROVE Append(p, w) \in T
  <2>1. PICK q : q = one \o p
    OBVIOUS
  <2>2. p \in Seq(Slashless) /\ p \in Seq(Text) /\ w \in Slashless /\ w \in Text
    BY Names
  <2>3. q \in Seq(Text) /\ one \o Append(p, w) = Append(q, w)
    BY <1>1, <2>1, <2>2, AppendConcat
  <2>4. Resolve(q) = p
    BY <1>6, <2>1
  <2>5. Resolve(Append(q, w)) = Entered(Resolve(q), w)
    BY ONLY <2>2, <2>3, <2>4, ResolveAppend
  <2>6. Entered(p, w) = Append(p, w)
    BY DEF Entered, Name
  <2>7. Append(p, w) \in Seq(Name)
    OBVIOUS
  <2>8. QED
    BY <2>3, <2>4, <2>5, <2>6, <2>7
<1> HIDE DEF T
<1>7. Seq(Name) \subseteq T
  BY <1>5, <1>6, SeqSetInduction
<1>8. QED
  BY <1>1, <1>3, <1>4, <1>7 DEF T

\* The real path of a text.
LEMMA RealTyped == \A t \in Text : Split(t) \in Seq(Slashless) /\ RealPath(t) \in Seq(Name)
<1>1. ASSUME NEW t \in Text PROVE Split(t) \in Seq(Slashless)
  <2>1. PICK p \in Seq(Slashless), w \in Slashless : Split(t) = Append(p, w)
    BY SplitTyped
  <2>2. QED
    BY <2>1
<1>2. QED
  BY <1>1, ResolveTyped DEF RealPath

\* An absolute path leads to itself, and ends as it is told: the parts of its text are
\* an empty one and the names; the root's are two empty ones.
LEMMA RealAbsolute ==
    ASSUME NEW p \in Seq(Name)
    PROVE  /\ Absolute(p) \in Text /\ RealPath(Absolute(p)) = p
           /\ p = <<>> => /\ Len(Split(Absolute(p))) = 2 /\ Split(Absolute(p))[2] = <<>>
                          /\ Absolute(p) = <<"/">>
           /\ p # <<>> => Split(Absolute(p)) = <<<<>>>> \o p /\ Absolute(p) = Join(p)
<1>1. PICK e, one, s : e = <<>> /\ one = <<e>> /\ s = <<"/">>
  OBVIOUS
<1>2. /\ Resolve(Append(one, e)) = e
      /\ \A q \in Seq(Name) : Resolve(one \o q) = q
      /\ one \in Seq(Slashless)
  BY <1>1, ResolveClean
<1>3. CASE p = <<>>
  <2>1. Absolute(p) = s
    BY <1>1, <1>3 DEF Absolute
  <2>2. s \in Text /\ e \in Text /\ s = Append(e, "/") /\ s \o e = s /\ e \in Slashless
    BY <1>1 DEF Text, Letter, Slashless, Has
  <2>3. Split(s \o e) = Split(e) \o Split(e)
    BY <2>2, SplitConcat
  <2>4. Split(e) = one
    BY <1>1, SplitEmpty
  <2>5. one \o one = Append(one, e)
    BY <1>1, <1>2, <2>2, AppendIsConcat
  <2>6. RealPath(s) = e
    BY <1>2, <2>2, <2>3, <2>4, <2>5 DEF RealPath
  <2>7. Len(Append(one, e)) = 2 /\ Append(one, e)[2] = e
    BY <1>1, <1>2, <2>2
  <2>8. QED
    BY <1>1, <1>3, <2>1, <2>2, <2>3, <2>4, <2>5, <2>6, <2>7
<1>4. CASE p # <<>>
  <2>1. Absolute(p) = Join(p)
    BY <1>4 DEF Absolute
  <2>2. Join(p) \in Text /\ Split(Join(p)) = <<<<>>>> \o p
    BY Names, SplitJoin
  <2>3. <<<<>>>> = one
    BY <1>1
  <2>4. RealPath(Join(p)) = p
    BY <1>2, <2>2, <2>3 DEF RealPath
  <2>5. QED
    BY <1>4, <2>1, <2>2, <2>4
<1>5. QED
  BY <1>3, <1>4

\* What stands behind a prefix, and what a prefix is.
LEMMA PrefixMeans ==
    ASSUME NEW S, NEW a \in Seq(S), NEW t \in Seq(S), IsPrefix(a, t)
    PROVE  From(t, Len(a) + 1) \in Seq(S) /\ t = a \o From(t, Len(a) + 1)
<1>1. PICK b : b = From(t, Len(a) + 1)
  OBVIOUS
<1>2. Len(a) \in Nat /\ Len(t) \in Nat /\ Len(a) <= Len(t)
  BY DEF IsPrefix
<1>3. b \in Seq(S) /\ Len(b) = Len(t) - Len(a) /\ \A i \in 1..Len(b) : b[i] = t[Len(a) + i]
  BY <1>1, <1>2 DEF From
<1>4. \A i \in 1..Len(a) : a[i] = t[i]
  <2>1. SubSeq(a, 1, Len(a)) = SubSeq(t, 1, Len(a))
    BY DEF IsPrefix
  <2>2. \A i \in 1..Len(a) : SubSeq(a, 1, Len(a))[i] = a[i] /\ SubSeq(t, 1, Len(a))[i] = t[i]
    BY <1>2
  <2>3. QED
    BY <2>1, <2>2
<1>5. PICK c : c = a \o b
  OBVIOUS
<1>6. c \in Seq(S) /\ Len(c) = Len(t)
      /\ \A i \in 1..Len(t) : c[i] = IF i <= Len(a) THEN a[i] ELSE b[i - Len(a)]
  BY <1>2, <1>3, <1>5
<1>7. \A i \in 1..Len(t) : c[i] = t[i]
  <2> TAKE i \in 1..Len(t)
  <2>1. CASE i <= Len(a)
    BY <1>2, <1>4, <1>6, <2>1
  <2>2. CASE ~(i <= Len(a))
    <3>1. i - Len(a) \in 1..Len(b) /\ Len(a) + (i - Len(a)) = i
      BY <1>2, <1>3, <2>2
    <3>2. QED
      BY ONLY <1>3, <1>6, <2>2, <3>1, i \in 1..Len(t)
  <2>3. QED
    BY <2>1, <2>2
<1>8. c = t
  BY ONLY <1>6, <1>7, t \in Seq(S), SeqEqual
<1>9. QED
  BY <1>1, <1>3, <1>5, <1>8

LEMMA PrefixIf ==
    ASSUME NEW S, NEW a \in Seq(S), NEW t \in Seq(S), Len(a) <= Len(t),
           \A i \in 1..Len(a) : a[i] = t[i]
    PROVE  IsPrefix(a, t)
<1>1. PICK c : c = SubSeq(t, 1, Len(a))
  OBVIOUS
<1>2. c \in Seq(S) /\ Len(c) = Len(a) /\ \A i \in 1..Len(a) : c[i] = a[i]
  BY <1>1
<1>3. c = a
  BY ONLY <1>2, a \in Seq(S), SeqEqual
<1>4. SubSeq(a, 1, Len(a)) = a
  BY SubSeqFull
<1>5. QED
  BY <1>1, <1>3, <1>4 DEF IsPrefix

LEMMA PrefixOfConcat ==
    ASSUME NEW S, NEW a \in Seq(S), NEW b \in Seq(S), NEW t, t = a \o b
    PROVE  IsPrefix(a, t) /\ From(t, Len(a) + 1) = b
<1>1. t \in Seq(S) /\ Len(t) = Len(a) + Len(b) /\ Len(a) \in Nat /\ Len(b) \in Nat
  OBVIOUS
<1>2. \A i \in 1..Len(a) : t[i] = a[i]
  OBVIOUS
<1>3. \A i \in 1..Len(b) : t[Len(a) + i] = b[i]
  OBVIOUS
<1>4. IsPrefix(a, t)
  <2>1. Len(a) <= Len(t) /\ \A i \in 1..Len(a) : a[i] = t[i]
    BY <1>1, <1>2
  <2>2. QED
    BY ONLY a \in Seq(S), <1>1, <2>1, PrefixIf
<1>5. From(t, Len(a) + 1) = b
  <2>1. PICK c : c = From(t, Len(a) + 1)
    OBVIOUS
  <2>2. c \in Seq(S) /\ Len(c) = Len(b) /\ \A i \in 1..Len(b) : c[i] = t[Len(a) + i]
    BY <1>1, <2>1 DEF From
  <2>3. c = b
    BY ONLY <1>3, <2>2, b \in Seq(S), SeqEqual
  <2>4. QED
    BY <2>1, <2>3
<1>6. QED
  BY <1>4, <1>5

\* What begins with a slash.
LEMMA BehindSlash ==
    ASSUME NEW t \in Text, StartsWith(t, "/")
    PROVE  /\ From(t, 2) \in Text /\ t = <<"/">> \o From(t, 2)
           /\ Split(t) = <<<<>>>> \o Split(From(t, 2))
           /\ Tail(Split(t)) = Split(From(t, 2))
<1>1. PICK e, one, s, r : e = <<>> /\ one = <<e>> /\ s = <<"/">> /\ r = From(t, 2)
  OBVIOUS
<1>2. s \in Seq(Letter) /\ e \in Text /\ Len(s) = 1 /\ s = Append(e, "/") /\ t \in Seq(Letter)
  BY <1>1 DEF Text, Letter
<1>3. IsPrefix(s, t)
  <2>1. Len(t) >= 1 /\ t[1] = "/" /\ Len(t) \in Nat
    BY <1>2 DEF StartsWith
  <2>2. Len(s) <= Len(t) /\ \A i \in 1..Len(s) : s[i] = t[i]
    BY <1>1, <1>2, <2>1
  <2>3. QED
    BY ONLY <1>2, <2>2, PrefixIf
<1>4. r \in Seq(Letter) /\ t = s \o r
  <2>1. From(t, Len(s) + 1) \in Seq(Letter) /\ t = s \o From(t, Len(s) + 1)
    BY ONLY <1>2, <1>3, PrefixMeans
  <2>2. QED
    BY <1>1, <1>2, <2>1
<1>5. r \in Text
  BY <1>4 DEF Text
<1>6. Split(s \o r) = Split(e) \o Split(r)
  BY <1>2, <1>5, SplitConcat
<1>7. Split(e) = one
  BY <1>1, SplitEmpty
<1>8. Split(r) \in Seq(Slashless) /\ e \in Slashless
  <2>1. e \in Slashless
    BY <1>1 DEF Slashless, Text, Has
  <2>2. QED
    BY <1>5, <2>1, RealTyped
<1>9. Tail(one \o Split(r)) = Split(r)
  BY ONLY <1>1, <1>8
<1>10. <<<<>>>> = one
  BY <1>1
<1>11. QED
  BY <1>1, <1>4, <1>5, <1>6, <1>7, <1>9, <1>10

\* What begins with a tilde and a slash.
LEMMA BehindTilde ==
    /\ \A t \in Text : IsPrefix(<<"~", "/">>, t) =>
          From(t, 3) \in Text /\ t = <<"~", "/">> \o From(t, 3)
    /\ \A r \in Text : \E t \in Text :
          /\ t = <<"~", "/">> \o r /\ StartsWith(t, "~") /\ Tail(Split(t)) = Split(r)
          /\ IsPrefix(<<"~", "/">>, t) /\ From(t, 3) = r
<1>1. PICK w, s : w = <<"~">> /\ s = <<"~", "/">>
  OBVIOUS
<1>2. w \in Seq(Letter) /\ s \in Seq(Letter) /\ Len(s) = 2 /\ s = Append(w, "/")
  BY <1>1 DEF Letter
<1>3. w \in Slashless /\ w \in Text
  <2>1. w \in Text
    BY <1>2 DEF Text
  <2>2. ~Has(w, "/")
    BY <1>1 DEF Has
  <2>3. QED
    BY <2>1, <2>2 DEF Slashless
<1>4. ASSUME NEW t \in Text, IsPrefix(s, t) PROVE From(t, 3) \in Text /\ t = s \o From(t, 3)
  <2>1. t \in Seq(Letter)
    BY DEF Text
  <2>2. From(t, Len(s) + 1) \in Seq(Letter) /\ t = s \o From(t, Len(s) + 1)
    BY ONLY <1>2, <1>4, <2>1, PrefixMeans
  <2>3. QED
    BY <1>2, <2>2 DEF Text
<1>5. ASSUME NEW r \in Text, NEW t, t = s \o r
      PROVE  /\ t \in Text /\ StartsWith(t, "~") /\ Tail(Split(t)) = Split(r)
             /\ IsPrefix(s, t) /\ From(t, 3) = r
  <2>1. r \in Seq(Letter)
    BY DEF Text
  <2>2. IsPrefix(s, t) /\ From(t, Len(s) + 1) = r
    BY ONLY <1>2, <1>5, <2>1, PrefixOfConcat
  <2>3. t \in Seq(Letter) /\ Len(t) > 0 /\ t[1] = s[1]
    BY <1>2, <1>5, <2>1
  <2>4. t # <<>> /\ t[1] = "~"
    BY <1>1, <2>3
  <2>5. Split(t) = Split(w) \o Split(r)
    BY <1>2, <1>3, <1>5, SplitConcat
  <2>6. Split(w) = <<w>> /\ Split(r) \in Seq(Slashless)
    BY <1>3, SplitWord, RealTyped
  <2>7. Tail(<<w>> \o Split(r)) = Split(r)
    BY ONLY <1>3, <2>6
  <2>8. t \in Text
    BY <2>3 DEF Text
  <2>9. QED
    BY <1>2, <2>2, <2>4, <2>5, <2>6, <2>7, <2>8 DEF StartsWith
<1>6. QED
  BY <1>1, <1>4, <1>5

\* Clean parts are names.
LEMMA CleanNames == \A p \in Seq(Slashless) : Clean(p) <=> p \in Seq(Name)
<1>1. ASSUME NEW p \in Seq(Slashless), Clean(p) PROVE p \in Seq(Name)
  <2>1. \A i \in 1..Len(p) : p[i] \in Name
    BY <1>1 DEF Clean, Name
  <2>2. QED
    BY <2>1
<1>2. ASSUME NEW p \in Seq(Slashless), p \in Seq(Name) PROVE Clean(p)
  <2>1. \A i \in DOMAIN p : p[i] \in Name
    BY <1>2
  <2>2. QED
    BY <2>1 DEF Clean, Name
<1>3. QED
  BY <1>1, <1>2

\* The user's home is a path of names.
LEMMA HomeTyped == \A home \in UserHomes : home \in Seq(Name)
<1> TAKE home \in UserHomes
<1>1. /\ home \in Seq(Text) /\ Clean(home)
      /\ \A i \in DOMAIN home : ~Has(home[i], "/")
  BY HomesAssumption DEF Text
<1>2. \A i \in 1..Len(home) : home[i] \in Slashless
  BY <1>1 DEF Slashless
<1>3. home \in Seq(Slashless)
  BY <1>1, <1>2
<1>4. QED
  BY <1>1, <1>3, CleanNames

\* A path whose text goes on behind a home's and a slash lies in that home, and not
\* because its name begins like the home's.
LEMMA Under ==
    ASSUME NEW h \in Seq(Name), NEW p \in Seq(Name),
           IsPrefix(Append(Absolute(h), "/"), Absolute(p)),
           NEW r, r = From(Absolute(p), Len(Absolute(h)) + 2)
    PROVE  /\ h # <<>> /\ r \in Text /\ Split(r) # <<>>
           /\ p = h \o Split(r)
<1>1. PICK a, b, t : a = Absolute(h) /\ b = Append(a, "/") /\ t = Absolute(p)
  OBVIOUS
<1>2. PICK e, one, s : e = <<>> /\ one = <<e>> /\ s = Split(r)
  OBVIOUS
<1>3. a \in Seq(Letter) /\ t \in Seq(Letter) /\ b \in Seq(Letter) /\ Len(b) = Len(a) + 1
      /\ a \in Text
  <2>1. a \in Text /\ t \in Text
    BY <1>1, RealAbsolute
  <2>2. a \in Seq(Letter) /\ t \in Seq(Letter) /\ "/" \in Letter
    BY <2>1 DEF Text, Letter
  <2>3. QED
    BY <1>1, <2>1, <2>2
<1>4. r \in Seq(Letter) /\ t = b \o r
  <2>1. IsPrefix(b, t)
    BY <1>1
  <2>2. From(t, Len(b) + 1) \in Seq(Letter) /\ t = b \o From(t, Len(b) + 1)
    BY ONLY <1>3, <2>1, PrefixMeans
  <2>3. Len(b) + 1 = Len(a) + 2
    BY <1>3
  <2>4. QED
    BY <1>1, <2>2, <2>3
<1>5. r \in Text
  BY <1>4 DEF Text
<1>6. Split(t) = Split(a) \o s
  BY <1>1, <1>2, <1>3, <1>4, <1>5, SplitConcat
<1>7. s \in Seq(Slashless) /\ s # <<>> /\ Split(a) \in Seq(Slashless)
      /\ h \in Seq(Slashless) /\ p \in Seq(Slashless) /\ one \in Seq(Slashless)
  <2>1. PICK q \in Seq(Slashless), w \in Slashless : s = Append(q, w)
    BY <1>2, <1>5, SplitTyped
  <2>2. s \in Seq(Slashless) /\ s # <<>>
    BY <2>1
  <2>3. one \in Seq(Slashless)
    BY <1>2, ResolveClean
  <2>4. QED
    BY <1>3, <2>2, <2>3, RealTyped, Names
<1>8. Len(Split(t)) = Len(Split(a)) + Len(s) /\ Len(s) >= 1
      /\ \A i \in 1..Len(Split(a)) : Split(t)[i] = Split(a)[i]
  BY <1>6, <1>7
<1>9. one = <<<<>>>>
  BY <1>2
<1>10. p # <<>>
  <2>1. p = <<>> => Len(Split(t)) = 2
    BY <1>1, RealAbsolute
  <2>2. Len(Split(a)) >= 2
    <3>1. CASE h = <<>>
      <4>1. Len(Split(a)) = 2
        BY <1>1, <3>1, RealAbsolute
      <4>2. QED
        BY ONLY <4>1
    <3>2. CASE h # <<>>
      <4>1. Split(a) = one \o h
        BY <1>1, <1>9, <3>2, RealAbsolute
      <4>2. Len(one) = 1 /\ Len(h) >= 1
        BY <1>2, <1>7, <3>2
      <4>3. Len(one \o h) = Len(one) + Len(h)
        BY <1>7
      <4>4. QED
        BY ONLY h \in Seq(Name), <4>1, <4>2, <4>3
    <3>3. QED
      BY <3>1, <3>2
  <2>3. QED
    BY <1>7, <1>8, <2>1, <2>2
<1>11. Split(t) = one \o p
  BY <1>1, <1>9, <1>10, RealAbsolute
<1>12. h # <<>>
  <2> SUFFICES ASSUME h = <<>> PROVE FALSE
    OBVIOUS
  <2>1. Len(Split(a)) = 2 /\ Split(a)[2] = <<>>
    BY <1>1, RealAbsolute
  <2>2. Split(t)[2] = <<>>
    BY <1>8, <2>1
  <2>3. Split(t)[2] = p[1]
    BY <1>2, <1>7, <1>10, <1>11
  <2>4. p[1] \in Name
    BY <1>10
  <2>5. QED
    BY <2>2, <2>3, <2>4 DEF Name, Dots
<1>13. Split(a) = one \o h
  BY <1>1, <1>9, <1>12, RealAbsolute
<1>14. (one \o h) \o s = one \o (h \o s)
  <2>1. one \in Seq(Slashless) /\ h \in Seq(Slashless) /\ s \in Seq(Slashless)
    BY <1>7
  <2>2. QED
    BY ONLY <2>1, ConcatAssociative
<1>15. h \o s \in Seq(Slashless)
  BY <1>7
<1>16. one \o p = one \o (h \o s)
  BY ONLY <1>6, <1>11, <1>13, <1>14
<1>17. p = h \o s
  BY ONLY <1>7, <1>15, <1>16, ConcatSimplifications
<1>18. QED
  BY <1>2, <1>5, <1>7, <1>12, <1>17

\* And the path in a home has the text of the home, a slash and the rest.
LEMMA Within ==
    ASSUME NEW h \in Seq(Name), h # <<>>, NEW r \in Text, Split(r) \in Seq(Name),
           NEW p, p = h \o Split(r)
    PROVE  /\ p \in Seq(Name) /\ Absolute(p) # Absolute(h)
           /\ IsPrefix(Append(Absolute(h), "/"), Absolute(p))
           /\ From(Absolute(p), Len(Absolute(h)) + 2) = r
<1>1. PICK a, b, s, d : a = Absolute(h) /\ b = Append(a, "/") /\ s = Split(r) /\ d = <<"/">>
  OBVIOUS
<1>2. p \in Seq(Name) /\ h \in Seq(Text) /\ s \in Seq(Text) /\ s # <<>> /\ p # <<>> /\ p # h
  <2>1. s # <<>>
    <3>1. PICK q \in Seq(Slashless), w \in Slashless : s = Append(q, w)
      BY <1>1, SplitTyped
    <3>2. QED
      BY <3>1
  <2>2. h \in Seq(Text) /\ s \in Seq(Text) /\ s \in Seq(Name)
    BY <1>1, Names
  <2>3. p \in Seq(Name) /\ Len(p) = Len(h) + Len(s) /\ Len(s) > 0
    BY <1>1, <2>1, <2>2
  <2>4. p # <<>> /\ p # h
    BY <2>3
  <2>5. QED
    BY <2>1, <2>2, <2>3, <2>4
<1>3. Absolute(p) = Join(h) \o Join(s) /\ a = Join(h)
  BY <1>1, <1>2, JoinConcat DEF Absolute
<1>4. Join(s) = d \o r
  BY <1>1, JoinSplit
<1>5. a \in Seq(Letter) /\ r \in Seq(Letter) /\ d \in Seq(Letter) /\ "/" \in Letter
  <2>1. a \in Text
    BY <1>1, RealAbsolute
  <2>2. "/" \in Letter
    BY DEF Letter
  <2>3. QED
    BY <1>1, <2>1, <2>2 DEF Text
<1>6. b = a \o d /\ b \in Seq(Letter) /\ Len(b) = Len(a) + 1 /\ Len(a) \in Nat
  BY <1>1, <1>5, AppendIsConcat
<1>7. (a \o d) \o r = a \o (d \o r)
  BY ONLY <1>5, ConcatAssociative
<1>8. Absolute(p) = b \o r
  BY ONLY <1>3, <1>4, <1>6, <1>7
<1>9. IsPrefix(b, Absolute(p)) /\ From(Absolute(p), Len(b) + 1) = r
  BY ONLY <1>5, <1>6, <1>8, PrefixOfConcat
<1>10. Len(b) + 1 = Len(a) + 2
  BY <1>6
<1>11. Absolute(p) # Absolute(h)
  BY <1>2, RealAbsolute
<1>12. QED
  BY <1>1, <1>2, <1>9, <1>10, <1>11

\* An absolute path begins with a slash.
LEMMA StartsSlash == \A p \in Seq(Text) : p # <<>> => StartsWith(Join(p), "/")
<1> DEFINE T == {p \in Seq(Text) : p # <<>> => StartsWith(Join(p), "/")}
<1>1. <<>> \in T
  OBVIOUS
<1>2. ASSUME NEW p \in Seq(Text), NEW w \in Text, p \in T PROVE Append(p, w) \in T
  <2>1. PICK j, m, c : j = Join(p) /\ m = Append(j, "/") /\ c = m \o w
    OBVIOUS
  <2>2. j \in Text
    BY <2>1, JoinTyped
  <2>3. j \in Seq(Letter) /\ w \in Seq(Letter) /\ "/" \in Letter
    BY <2>2 DEF Text, Letter
  <2>4. Join(Append(p, w)) = c
    BY <2>1, <2>2, JoinAppend
  <2>5. m \in Seq(Letter) /\ Len(m) = Len(j) + 1 /\ m[Len(j) + 1] = "/"
        /\ \A i \in 1..Len(j) : m[i] = j[i]
    BY <2>1, <2>3
  <2>6. c # <<>> /\ c[1] = m[1]
    BY <2>1, <2>3, <2>5
  <2>7. m[1] = "/"
    <3>1. CASE p = <<>>
      <4>1. j = <<>>
        BY <2>1, <3>1, JoinTyped
      <4>2. Len(j) = 0
        BY <4>1
      <4>3. QED
        BY <2>5, <4>2
    <3>2. CASE p # <<>>
      <4>1. j # <<>> /\ j[1] = "/"
        BY <1>2, <2>1, <3>2 DEF StartsWith
      <4>2. QED
        BY <2>3, <2>5, <4>1
    <3>3. QED
      BY <3>1, <3>2
  <2>8. Append(p, w) \in Seq(Text)
    OBVIOUS
  <2>9. QED
    BY <2>4, <2>6, <2>7, <2>8 DEF StartsWith
<1> HIDE DEF T
<1>3. Seq(Text) \subseteq T
  BY <1>1, <1>2, SeqSetInduction
<1>4. QED
  BY <1>3 DEF T

\* The invariant: what is spelled is a text, and ~ is some user's home.
IInv == text \in Text /\ user_home \in UserHomes

LEMMA Spelled == Spec => []IInv
<1>1. Init => IInv
  BY DEF Init, IInv, Text
<1>2. IInv /\ [Spell]_<<text, user_home>> => IInv'
  BY DEF IInv, Spell, Text
<1>3. QED
  BY <1>1, <1>2, PTL DEF Spec

\* The homes that normalize_path makes are accepted, and lead back.
LEMMA Normalized ==
    ASSUME IInv, StartsWith(text, "/")
    PROVE  /\ is_normalized_path(normalize_path(text))
           /\ Leads(normalize_path(text)) = RealPath(text)
<1>1. PICK p, a : p = RealPath(text) /\ a = Absolute(p)
  OBVIOUS
<1>2. p \in Seq(Name) /\ a \in Text /\ user_home \in Seq(Name) /\ RealPath(a) = p
  BY <1>1, RealTyped, RealAbsolute, HomeTyped DEF IInv
<1>3. CASE a = Absolute(user_home)
  <2>1. p = user_home
    BY <1>1, <1>2, <1>3, RealAbsolute
  <2>2. PICK w : w = <<"~">>
    OBVIOUS
  <2>3. w \in Slashless /\ StartsWith(w, "~")
    <3>1. w \in Seq(Letter) /\ ~Has(w, "/") /\ StartsWith(w, "~")
      BY <2>2 DEF Letter, Has, StartsWith
    <3>2. QED
      BY <3>1 DEF Slashless, Text
  <2>4. Tail(Split(w)) = <<>>
    <3>1. Split(w) = <<w>>
      BY <2>3, SplitWord
    <3>2. QED
      BY <3>1
  <2>5. user_home \o <<>> = user_home
    BY <1>2
  <2>6. Leads(w) = p
    BY <2>1, <2>3, <2>4, <2>5 DEF Leads
  <2>7. normalize_path(text) = w
    BY <1>1, <1>3, <2>2 DEF normalize_path
  <2>8. is_normalized_path(w)
    BY <2>2 DEF is_normalized_path
  <2>9. QED
    BY <1>1, <2>6, <2>7, <2>8
<1>4. CASE a # Absolute(user_home) /\ IsPrefix(Append(Absolute(user_home), "/"), a)
  <2>1. PICK r : r = From(a, Len(Absolute(user_home)) + 2)
    OBVIOUS
  <2>2. r \in Text /\ p = user_home \o Split(r)
    BY <1>1, <1>2, <1>4, <2>1, Under
  <2>3. PICK t \in Text : /\ t = <<"~", "/">> \o r /\ StartsWith(t, "~")
                          /\ Tail(Split(t)) = Split(r)
                          /\ IsPrefix(<<"~", "/">>, t) /\ From(t, 3) = r
    BY <2>2, BehindTilde
  <2>4. normalize_path(text) = t
    BY <1>1, <1>4, <2>1, <2>3 DEF normalize_path
  <2>5. Leads(t) = p
    BY <2>2, <2>3 DEF Leads
  <2>6. Clean(Split(r))
    <3>1. Split(r) \in Seq(Slashless)
      BY <2>2, RealTyped
    <3>2. p \in Seq(Slashless) /\ Clean(p) /\ user_home \in Seq(Slashless)
      BY <1>2, Names, CleanNames
    <3>3. ASSUME NEW i \in DOMAIN Split(r) PROVE Split(r)[i] \notin Dots
      <4>1. /\ Len(user_home) + i \in DOMAIN p
            /\ p[Len(user_home) + i] = Split(r)[i]
        BY <2>2, <3>1, <3>2, <3>3
      <4>2. QED
        BY <3>2, <4>1 DEF Clean
    <3>4. QED
      BY <3>3 DEF Clean
  <2>7. is_normalized_path(t)
    BY <2>3, <2>6 DEF is_normalized_path
  <2>8. QED
    BY <1>1, <2>4, <2>5, <2>7
<1>5. CASE a # Absolute(user_home) /\ ~IsPrefix(Append(Absolute(user_home), "/"), a)
  <2>1. normalize_path(text) = a
    BY <1>1, <1>5 DEF normalize_path
  <2>2. StartsWith(a, "/") /\ is_normalized_path(a)
    <3>1. CASE p = <<>>
      <4>1. a = <<"/">>
        BY <1>1, <1>2, <3>1, RealAbsolute
      <4>2. QED
        BY <4>1 DEF StartsWith, is_normalized_path
    <3>2. CASE p # <<>>
      <4>1. PICK e, one : e = <<>> /\ one = <<e>>
        OBVIOUS
      <4>2. Split(a) = one \o p /\ a = Join(p)
        <5>1. <<<<>>>> = one
          BY <4>1
        <5>2. QED
          BY <1>1, <1>2, <3>2, <5>1, RealAbsolute
      <4>3. Tail(Split(a)) = p /\ p \in Seq(Slashless)
        BY <1>2, <4>1, <4>2, Names, ResolveClean
      <4>4. Clean(Tail(Split(a)))
        BY <1>2, <4>3, CleanNames
      <4>5. StartsWith(a, "/")
        BY <1>2, <3>2, <4>2, Names, StartsSlash
      <4>6. QED
        BY <4>4, <4>5 DEF is_normalized_path
    <3>3. QED
      BY <3>1, <3>2
  <2>3. a[1] = "/"
    BY <2>2 DEF StartsWith
  <2>4. ~StartsWith(a, "~")
    BY <2>3 DEF StartsWith
  <2>5. Leads(a) = p
    BY <1>2, <2>4 DEF Leads
  <2>6. QED
    BY <1>1, <2>1, <2>2, <2>5
<1>6. QED
  BY <1>3, <1>4, <1>5

\* An accepted absolute path is the text of the path it leads to.
LEMMA AcceptedAbsolute ==
    ASSUME NEW t \in Text, StartsWith(t, "/"), t # <<"/">> => Clean(Tail(Split(t)))
    PROVE  RealPath(t) \in Seq(Name) /\ Absolute(RealPath(t)) = t
<1>1. PICK e, one, r, q : e = <<>> /\ one = <<e>> /\ r = From(t, 2) /\ q = Split(r)
  OBVIOUS
<1>2. CASE t = <<"/">>
  <2>1. e \in Seq(Name)
    BY <1>1
  <2>2. Absolute(e) = t /\ RealPath(Absolute(e)) = e
    BY <1>1, <1>2, <2>1, RealAbsolute
  <2>3. QED
    BY <2>1, <2>2
<1>3. CASE t # <<"/">>
  <2>1. r \in Text /\ t = <<"/">> \o r /\ Split(t) = <<<<>>>> \o q /\ Tail(Split(t)) = q
    BY <1>1, BehindSlash
  <2>2. q \in Seq(Slashless)
    BY <1>1, <2>1, RealTyped
  <2>3. q \in Seq(Name)
    BY <1>3, <2>1, <2>2, CleanNames
  <2>4. <<<<>>>> = one
    BY <1>1
  <2>5. RealPath(t) = q
    <3>1. Resolve(one \o q) = q
      BY ONLY <1>1, <2>3, ResolveClean
    <3>2. Split(t) = one \o q
      BY ONLY <2>1, <2>4
    <3>3. QED
      BY ONLY <3>1, <3>2 DEF RealPath
  <2>6. q # <<>>
    <3>1. PICK p \in Seq(Slashless), w \in Slashless : q = Append(p, w)
      BY <1>1, <2>1, SplitTyped
    <3>2. QED
      BY <3>1
  <2>7. Join(q) = t
    BY <1>1, <2>1, JoinSplit
  <2>8. QED
    BY <2>3, <2>5, <2>6, <2>7 DEF Absolute
<1>4. QED
  BY <1>2, <1>3

\* What is accepted is made by normalize_path or is one of two kinds of aliases.
LEMMA Accepted ==
    ASSUME IInv, is_normalized_path(text)
    PROVE  \/ normalize_path(Absolute(Leads(text))) = text
           \/ StartsWith(text, "/") /\ IsPrefix(user_home, Leads(text))
           \/ IsPrefix(<<"~", "/">>, text) /\ user_home = <<>>
<1>1. text \in Text /\ user_home \in Seq(Name)
  BY HomeTyped DEF IInv
<1>2. CASE text = <<"~">>
  <2>1. PICK w : w = <<"~">>
    OBVIOUS
  <2>2. w \in Slashless /\ StartsWith(w, "~")
    <3>1. w \in Seq(Letter) /\ ~Has(w, "/") /\ StartsWith(w, "~")
      BY <2>1 DEF Letter, Has, StartsWith
    <3>2. QED
      BY <3>1 DEF Slashless, Text
  <2>3. Tail(Split(w)) = <<>>
    <3>1. Split(w) = <<w>>
      BY <2>2, SplitWord
    <3>2. QED
      BY <3>1
  <2>4. user_home \o <<>> = user_home
    BY <1>1
  <2>5. Leads(text) = user_home
    BY <1>2, <2>1, <2>2, <2>3, <2>4 DEF Leads
  <2>6. RealPath(Absolute(user_home)) = user_home
    BY <1>1, RealAbsolute
  <2>7. normalize_path(Absolute(user_home)) = <<"~">>
    BY <2>6 DEF normalize_path
  <2>8. QED
    BY <1>2, <2>5, <2>7
<1>3. CASE StartsWith(text, "/") /\ (text # <<"/">> => Clean(Tail(Split(text))))
  <2>1. PICK p : p = RealPath(text)
    OBVIOUS
  <2>2. p \in Seq(Name) /\ Absolute(p) = text /\ RealPath(text) = p
    BY <1>1, <1>3, <2>1, AcceptedAbsolute
  <2>3. Leads(text) = p
    <3>1. ~StartsWith(text, "~")
      BY <1>3 DEF StartsWith
    <3>2. QED
      BY <2>1, <3>1 DEF Leads
  <2>4. CASE text = Absolute(user_home)
    <3>1. p = user_home
      BY <1>1, <2>2, <2>4, RealAbsolute
    <3>2. p = user_home \o <<>> /\ <<>> \in Seq(Name)
      BY <1>1, <3>1
    <3>3. IsPrefix(user_home, p)
      BY ONLY <1>1, <3>2, PrefixOfConcat
    <3>4. QED
      BY <1>3, <2>3, <3>3
  <2>5. CASE IsPrefix(Append(Absolute(user_home), "/"), text)
    <3>1. PICK r : r = From(text, Len(Absolute(user_home)) + 2)
      OBVIOUS
    <3>2. r \in Text /\ p = user_home \o Split(r)
      BY <1>1, <2>2, <2>5, <3>1, Under
    <3>3. user_home \in Seq(Slashless) /\ Split(r) \in Seq(Slashless)
      BY <1>1, <3>2, Names, RealTyped
    <3>4. IsPrefix(user_home, p)
      BY ONLY <3>2, <3>3, PrefixOfConcat
    <3>5. QED
      BY <1>3, <2>3, <3>4
  <2>6. CASE text # Absolute(user_home) /\ ~IsPrefix(Append(Absolute(user_home), "/"), text)
    <3>1. normalize_path(text) = text
      BY <2>2, <2>6 DEF normalize_path
    <3>2. QED
      BY <2>2, <2>3, <3>1
  <2>7. QED
    BY <2>4, <2>5, <2>6
<1>4. CASE IsPrefix(<<"~", "/">>, text) /\ Clean(Split(From(text, 3))) /\ user_home # <<>>
  <2>1. PICK r, p : r = From(text, 3) /\ p = user_home \o Split(r)
    OBVIOUS
  <2>2. r \in Text /\ text = <<"~", "/">> \o r
    BY <1>1, <1>4, <2>1, BehindTilde
  <2>3. StartsWith(text, "~") /\ Tail(Split(text)) = Split(r)
    BY <2>2, BehindTilde
  <2>4. Split(r) \in Seq(Name)
    BY <1>4, <2>1, <2>2, RealTyped, CleanNames
  <2>5. /\ p \in Seq(Name) /\ Absolute(p) # Absolute(user_home)
        /\ IsPrefix(Append(Absolute(user_home), "/"), Absolute(p))
        /\ From(Absolute(p), Len(Absolute(user_home)) + 2) = r
    BY <1>1, <1>4, <2>1, <2>2, <2>4, Within
  <2>6. RealPath(Absolute(p)) = p
    BY <2>5, RealAbsolute
  <2>7. normalize_path(Absolute(p)) = <<"~", "/">> \o r
    BY <2>5, <2>6 DEF normalize_path
  <2>8. Leads(text) = p
    BY <2>1, <2>3 DEF Leads
  <2>9. QED
    BY <2>2, <2>7, <2>8
<1>5. text = <<"/">> => StartsWith(text, "/")
  BY DEF StartsWith
<1>6. QED
  BY <1>2, <1>3, <1>4, <1>5 DEF is_normalized_path

\* No two directories share a home, and every home leads to its directory: what
\* normalize_path makes is accepted and leads back, and what the daemon accepts from
\* others is what normalize_path makes, or an alias of one of two kinds, for every
\* text and every user's home.
THEOREM HomesAreCanonical == Spec => []CanonicalHomes
<1>1. IInv => CanonicalHomes
  BY Normalized, Accepted DEF CanonicalHomes
<1>2. QED
  BY <1>1, Spelled, PTL

\* What matches a pattern is a word, but for a newline at its end.
LEMMA Matching ==
    ASSUME NEW t \in Text, Word(Matched(t))
    PROVE  \A i \in DOMAIN t : \/ t[i] \in {"a", "0", "sess_"}
                               \/ i = Len(t) /\ t[i] = "newline"
<1>1. t \in Seq(Letter)
  BY DEF Text
<1>2. CASE EndsWith(t, "newline")
  <2>1. PICK f : f = Front(t)
    OBVIOUS
  <2>2. t # <<>> /\ t[Len(t)] = "newline"
    BY <1>2 DEF EndsWith, Last
  <2>3. Len(f) = Len(t) - 1 /\ \A i \in 1..Len(f) : f[i] = t[i]
    <3>1. f = SubSeq(t, 1, Len(t) - 1) /\ Len(t) >= 1 /\ Len(t) \in Nat
      BY <1>1, <2>1, <2>2 DEF Front
    <3>2. PICK n : n = Len(t) - 1
      OBVIOUS
    <3>3. n \in Nat /\ n <= Len(t) /\ f = SubSeq(t, 1, n)
      BY <3>1, <3>2
    <3>4. Len(f) = n /\ \A i \in 1..n : f[i] = t[i]
      BY ONLY <1>1, <3>3
    <3>5. QED
      BY ONLY <3>2, <3>3, <3>4
  <2>4. f \in Seq(Letter) /\ Word(f)
    BY <1>1, <1>2, <2>1, <2>2 DEF Front, Matched
  <2>5. \A i \in 1..Len(f) : t[i] \in {"a", "0", "sess_"}
    BY <2>3, <2>4 DEF Word
  <2>6. QED
    BY <1>1, <2>2, <2>3, <2>5
<1>3. CASE ~EndsWith(t, "newline")
  BY <1>3 DEF Matched, Word
<1>4. QED
  BY <1>2, <1>3

\* What begins a name begins its match, and a name is not empty.
LEMMA MatchedFirst ==
    ASSUME NEW t \in Text, Matched(t) # <<>>
    PROVE  t # <<>> /\ Matched(t)[1] = t[1]
<1>1. t \in Seq(Letter)
  BY DEF Text
<1>2. CASE EndsWith(t, "newline")
  <2>1. PICK f : f = Front(t)
    OBVIOUS
  <2>2. t # <<>>
    BY <1>2 DEF EndsWith
  <2>3. f # <<>>
    BY <1>2, <2>1 DEF Matched
  <2>4. f \in Seq(Letter) /\ \A i \in 1..Len(f) : f[i] = t[i]
    BY <1>1, <2>1, <2>2 DEF Front
  <2>5. f[1] = t[1]
    BY <2>3, <2>4
  <2>6. QED
    BY <1>2, <2>1, <2>2, <2>5 DEF Matched
<1>3. CASE ~EndsWith(t, "newline")
  BY <1>3 DEF Matched
<1>4. QED
  BY <1>2, <1>3

\* The letters of a discriminator: there is one, and only the last may be a newline.
LEMMA DiscriminatorLetters ==
    ASSUME NEW t \in Text, is_valid_discriminator(t)
    PROVE  /\ t # <<>>
           /\ \A i \in DOMAIN t : \/ t[i] \in {"a", "0", "sess_"}
                                  \/ i = Len(t) /\ t[i] = "newline"
<1>1. CASE is_valid_sid(t)
  BY <1>1, Matching DEF is_valid_sid, StartsWith
<1>2. CASE is_valid_alias(t)
  <2>1. Matched(t) # <<>> /\ Word(Matched(t))
    BY <1>2 DEF is_valid_alias
  <2>2. QED
    BY <2>1, Matching, MatchedFirst
<1>3. QED
  BY <1>1, <1>2 DEF is_valid_discriminator

\* What begins a home.
LEMMA HomeFirst ==
    ASSUME NEW t \in Text, is_normalized_path(t)
    PROVE  t # <<>> /\ t[1] \in {"~", "/"}
<1>1. CASE t \in {<<"~">>, <<"/">>}
  BY <1>1
<1>2. CASE IsPrefix(<<"~", "/">>, t)
  <2>1. PICK s, r : s = <<"~", "/">> /\ r = From(t, 3)
    OBVIOUS
  <2>2. r \in Text /\ t = s \o r
    BY <1>2, <2>1, BehindTilde
  <2>3. r \in Seq(Letter) /\ s \in Seq(Letter) /\ Len(s) = 2 /\ s[1] = "~"
    BY <2>1, <2>2 DEF Text, Letter
  <2>4. t \in Seq(Letter) /\ Len(t) >= 2 /\ t[1] = s[1]
    BY ONLY <2>2, <2>3, ConcatProperties
  <2>5. QED
    BY <2>3, <2>4
<1>3. CASE StartsWith(t, "/")
  BY <1>3 DEF StartsWith
<1>4. QED
  BY <1>1, <1>2, <1>3 DEF is_normalized_path

\* No sid is an alias and no discriminator can be taken for a path or holds a #; all
\* that the patterns let through besides is one newline at the end, for every text.
THEOREM NamesStayApart == Spec => []NamesApart
<1>1. ASSUME IInv PROVE NamesApart
  <2>1. text \in Text
    BY <1>1 DEF IInv
  <2>2. ~(is_valid_sid(text) /\ is_valid_alias(text))
    <3>1. is_valid_alias(text) => text # <<>> /\ text[1] # "sess_"
      BY <2>1, MatchedFirst DEF is_valid_alias
    <3>2. is_valid_sid(text) => text[1] = "sess_"
      BY DEF is_valid_sid, StartsWith
    <3>3. QED
      BY <3>1, <3>2
  <2>3. ASSUME is_valid_discriminator(text)
        PROVE  /\ ~is_normalized_path(text) /\ ~Has(text, "#")
               /\ \A i \in DOMAIN text : text[i] = "newline" => i = Len(text)
    <3>1. /\ text # <<>>
          /\ \A i \in DOMAIN text : \/ text[i] \in {"a", "0", "sess_"}
                                    \/ i = Len(text) /\ text[i] = "newline"
      BY <2>1, <2>3, DiscriminatorLetters
    <3>2. 1 \in DOMAIN text
      BY <2>1, <3>1 DEF Text
    <3>3. ~is_normalized_path(text)
      BY <2>1, <3>1, <3>2, HomeFirst
    <3>4. QED
      BY <3>1, <3>3 DEF Has
  <2>4. QED
    BY <2>2, <2>3 DEF NamesApart
<1>2. QED
  BY <1>1, Spelled, PTL

\* What stands in front of a letter, in its place and behind it.
LEMMA Around ==
    ASSUME NEW t \in Text, NEW i \in 1..Len(t) + 1
    PROVE  /\ SubSeq(t, 1, i - 1) \in Text /\ From(t, i + 1) \in Text
           /\ Len(SubSeq(t, 1, i - 1)) = i - 1
           /\ Has(SubSeq(t, 1, i - 1), "#") <=> \E k \in 1..(i - 1) : t[k] = "#"
           /\ i \in 1..Len(t) => t = SubSeq(t, 1, i - 1) \o <<t[i]>> \o From(t, i + 1)
           /\ i = Len(t) + 1 => SubSeq(t, 1, i - 1) = t /\ From(t, i + 1) = <<>>
<1>1. t \in Seq(Letter) /\ Len(t) \in Nat /\ i \in Nat
  BY DEF Text
<1>2. PICK a, b : a = SubSeq(t, 1, i - 1) /\ b = From(t, i + 1)
  OBVIOUS
<1>3. a \in Seq(Letter) /\ Len(a) = i - 1 /\ \A k \in 1..(i - 1) : a[k] = t[k]
  BY <1>1, <1>2
<1>4. /\ b \in Seq(Letter)
      /\ i \in 1..Len(t) => Len(b) = Len(t) - i /\ \A k \in 1..Len(b) : b[k] = t[i + k]
      /\ i = Len(t) + 1 => b = <<>>
  BY <1>1, <1>2 DEF From
<1>5. Has(a, "#") <=> \E k \in 1..(i - 1) : t[k] = "#"
  <2>1. DOMAIN a = 1..(i - 1)
    BY <1>1, <1>3
  <2>2. QED
    BY <1>3, <2>1 DEF Has
<1>6. ASSUME i \in 1..Len(t) PROVE t = a \o <<t[i]>> \o b
  <2>1. PICK m, n, c : m = <<t[i]>> /\ n = a \o m /\ c = n \o b
    OBVIOUS
  <2>2. m \in Seq(Letter) /\ Len(m) = 1 /\ m[1] = t[i]
    BY <1>1, <1>6, <2>1
  <2>3. /\ n \in Seq(Letter) /\ Len(n) = i
        /\ \A k \in 1..i : n[k] = t[k]
    <3>1. /\ n \in Seq(Letter) /\ Len(n) = Len(a) + Len(m)
          /\ \A k \in 1..Len(a) + Len(m) :
                n[k] = IF k <= Len(a) THEN a[k] ELSE m[k - Len(a)]
      BY ONLY <1>3, <2>1, <2>2, ConcatProperties
    <3>2. Len(n) = i
      BY ONLY <1>1, <1>3, <2>2, <3>1
    <3>3. ASSUME NEW k \in 1..i PROVE n[k] = t[k]
      <4>1. CASE k <= i - 1
        <5>1. k \in 1..(i - 1) /\ k <= Len(a) /\ k \in 1..Len(a) + Len(m)
          BY <1>1, <1>3, <2>2, <4>1
        <5>2. QED
          BY ONLY <1>3, <3>1, <5>1
      <4>2. CASE ~(k <= i - 1)
        <5>1. k = i /\ ~(k <= Len(a)) /\ k \in 1..Len(a) + Len(m) /\ k - Len(a) = 1
          BY <1>1, <1>3, <2>2, <4>2
        <5>2. QED
          BY ONLY <2>2, <3>1, <5>1
      <4>3. QED
        BY <4>1, <4>2
    <3>4. QED
      BY ONLY <3>1, <3>2, <3>3
  <2>4. c \in Seq(Letter) /\ Len(c) = Len(t)
        /\ \A k \in 1..Len(t) : c[k] = IF k <= i THEN n[k] ELSE b[k - i]
    <3>1. /\ c \in Seq(Letter) /\ Len(c) = Len(n) + Len(b)
          /\ \A k \in 1..Len(n) + Len(b) :
                c[k] = IF k <= Len(n) THEN n[k] ELSE b[k - Len(n)]
      BY ONLY <1>4, <2>1, <2>3, ConcatProperties
    <3>2. Len(n) + Len(b) = Len(t)
      BY ONLY <1>1, <1>4, <1>6, <2>3
    <3>3. QED
      BY ONLY <2>3, <3>1, <3>2
  <2>5. \A k \in 1..Len(t) : c[k] = t[k]
    <3> TAKE k \in 1..Len(t)
    <3>1. CASE k <= i
      <4>1. k \in 1..i
        BY <3>1
      <4>2. QED
        BY ONLY <2>3, <2>4, <3>1, <4>1, k \in 1..Len(t)
    <3>2. CASE ~(k <= i)
      <4>1. k - i \in 1..Len(b) /\ i + (k - i) = k
        BY <1>1, <1>4, <1>6, <3>2
      <4>2. QED
        BY ONLY <1>4, <1>6, <2>4, <3>2, <4>1, k \in 1..Len(t)
    <3>3. QED
      BY <3>1, <3>2
  <2>6. c = t
    BY ONLY <1>1, <2>4, <2>5, SeqEqual
  <2>7. QED
    BY <2>1, <2>6
<1>7. i = Len(t) + 1 => a = t
  <2> SUFFICES ASSUME i = Len(t) + 1 PROVE a = t
    OBVIOUS
  <2>1. Len(a) = Len(t) /\ \A k \in 1..Len(t) : a[k] = t[k]
    BY <1>1, <1>3
  <2>2. QED
    BY ONLY <1>1, <1>3, <2>1, SeqEqual
<1>8. a \in Text /\ b \in Text
  BY <1>3, <1>4 DEF Text
<1>9. QED
  BY <1>2, <1>3, <1>4, <1>5, <1>6, <1>7, <1>8

\* The place of the first #.
FirstHash(t, i) == t[i] = "#" /\ ~Has(SubSeq(t, 1, i - 1), "#")

\* There is one in a text with a #, and only one.
LEMMA FirstHashExists ==
    ASSUME NEW t \in Text
    PROVE  /\ Has(t, "#") => \E i \in DOMAIN t : FirstHash(t, i)
           /\ \A i, j \in DOMAIN t : FirstHash(t, i) /\ FirstHash(t, j) => i = j
           /\ \A i \in DOMAIN t : FirstHash(t, i) <=>
                 t[i] = "#" /\ \A k \in 1..(i - 1) : t[k] # "#"
<1>1. DOMAIN t = 1..Len(t) /\ Len(t) \in Nat
  BY DEF Text
<1>2. ASSUME NEW i \in DOMAIN t
      PROVE  FirstHash(t, i) <=> t[i] = "#" /\ \A k \in 1..(i - 1) : t[k] # "#"
  <2>1. i \in 1..Len(t) + 1
    BY <1>1
  <2>2. Has(SubSeq(t, 1, i - 1), "#") <=> \E k \in 1..(i - 1) : t[k] = "#"
    BY <2>1, Around
  <2>3. QED
    BY <2>2 DEF FirstHash
<1>3. ASSUME NEW i \in DOMAIN t, NEW j \in DOMAIN t, FirstHash(t, i), FirstHash(t, j)
      PROVE  i = j
  <2>1. /\ t[i] = "#" /\ \A k \in 1..(i - 1) : t[k] # "#"
        /\ t[j] = "#" /\ \A k \in 1..(j - 1) : t[k] # "#"
    BY <1>2, <1>3
  <2>2. i \in 1..Len(t) /\ j \in 1..Len(t)
    BY <1>1
  <2>3. QED
    BY ONLY <1>1, <2>1, <2>2
<1> DEFINE T == {n \in Nat : (\E k \in DOMAIN t : k <= n /\ t[k] = "#")
                                => \E i \in DOMAIN t : FirstHash(t, i)}
<1>4. 0 \in T
  BY <1>1
<1>5. ASSUME NEW n \in Nat, n \in T PROVE n + 1 \in T
  <2>1. CASE \E k \in DOMAIN t : k <= n /\ t[k] = "#"
    BY <1>5, <2>1
  <2>2. CASE ~\E k \in DOMAIN t : k <= n /\ t[k] = "#"
    <3> SUFFICES ASSUME NEW k \in DOMAIN t, k <= n + 1, t[k] = "#"
                 PROVE  \E i \in DOMAIN t : FirstHash(t, i)
      OBVIOUS
    <3>1. k = n + 1
      BY <1>1, <2>2
    <3>2. \A j \in 1..(k - 1) : j \in DOMAIN t /\ j <= n
      BY <1>1, <3>1
    <3>3. FirstHash(t, k)
      BY <1>2, <2>2, <3>2
    <3>4. QED
      BY <3>3
  <2>3. QED
    BY <2>1, <2>2
<1> HIDE DEF T
<1>6. Nat \subseteq T
  BY <1>4, <1>5, NatSetInduction
<1>7. ASSUME Has(t, "#") PROVE \E i \in DOMAIN t : FirstHash(t, i)
  <2>1. PICK k \in DOMAIN t : t[k] = "#"
    BY <1>7 DEF Has
  <2>2. Len(t) \in T /\ k <= Len(t)
    BY <1>1, <1>6
  <2>3. QED
    BY <2>1, <2>2 DEF T
<1>8. QED
  BY <1>2, <1>3, <1>7

\* What is parsed of a text: its parts before and behind the first #, if it has one.
LEMMA ParseMeans ==
    ASSUME NEW t \in Text
    PROVE  /\ ~Has(t, "#") => parse_address(t) = Checked(t, NoDiscriminator, FALSE)
           /\ \A i \in DOMAIN t : FirstHash(t, i) =>
                 parse_address(t) =
                    Checked(SubSeq(t, 1, i - 1), From(t, i + 1), TRUE)
<1>1. ASSUME NEW i \in DOMAIN t, FirstHash(t, i)
      PROVE  parse_address(t) = Checked(SubSeq(t, 1, i - 1), From(t, i + 1), TRUE)
  <2>1. Has(t, "#")
    BY <1>1 DEF FirstHash, Has
  <2>2. PICK j : j = CHOOSE k \in DOMAIN t : t[k] = "#" /\ ~Has(SubSeq(t, 1, k - 1), "#")
    OBVIOUS
  <2>3. j \in DOMAIN t /\ FirstHash(t, j)
    BY <1>1, <2>2 DEF FirstHash
  <2>4. j = i
    BY <1>1, <2>3, FirstHashExists
  <2>5. QED
    BY <2>1, <2>2, <2>4 DEF parse_address
<1>2. ~Has(t, "#") => parse_address(t) = Checked(t, NoDiscriminator, FALSE)
  BY DEF parse_address
<1>3. QED
  BY <1>1, <1>2

\* An address is the text it is filed under.
LEMMA RenderedAgain ==
    ASSUME NEW t \in Text, NEW to, to = parse_address(t), to # Invalid
    PROVE  render(to.home, to.discriminator) = t
<1>1. CASE Has(t, "#")
  <2>1. PICK i \in DOMAIN t : FirstHash(t, i)
    BY <1>1, FirstHashExists
  <2>2. PICK a, b : a = SubSeq(t, 1, i - 1) /\ b = From(t, i + 1)
    OBVIOUS
  <2>3. to = Checked(a, b, TRUE)
    BY <2>1, <2>2, ParseMeans
  <2>4. is_valid_discriminator(b) /\ to = [home |-> a, discriminator |-> b]
    BY <2>3 DEF Checked
  <2>5. i \in 1..Len(t) /\ i \in 1..Len(t) + 1
    BY DEF Text
  <2>6. b \in Text /\ t = a \o <<t[i]>> \o b
    BY <2>2, <2>5, Around
  <2>7. b # <<>>
    BY <2>4, <2>6, DiscriminatorLetters
  <2>8. t[i] = "#"
    BY <2>1 DEF FirstHash
  <2>9. to.home = a /\ to.discriminator = b
    BY <2>4
  <2>10. QED
    BY ONLY <2>6, <2>7, <2>8, <2>9 DEF render, NoDiscriminator
<1>2. CASE ~Has(t, "#")
  <2>1. to = Checked(t, NoDiscriminator, FALSE)
    BY <1>2, ParseMeans
  <2>2. to = [home |-> t, discriminator |-> NoDiscriminator]
    BY <2>1 DEF Checked
  <2>3. QED
    BY <2>2 DEF render
<1>3. QED
  BY <1>1, <1>2

\* Who files under a text is who it names, unless the home contains a #.
LEMMA NamedByDrainers ==
    ASSUME NEW t \in Text, NEW i \in 1..Len(t) + 1,
           NEW home, home = SubSeq(t, 1, i - 1), NEW disc, disc = From(t, i + 1),
           is_normalized_path(home),
           i = Len(t) + 1 \/ (t[i] = "#" /\ is_valid_discriminator(disc))
    PROVE  parse_address(t) = [home |-> home, discriminator |-> disc] <=> ~Has(home, "#")
<1>1. /\ home \in Text /\ Len(home) = i - 1
      /\ Has(home, "#") <=> \E k \in 1..(i - 1) : t[k] = "#"
      /\ i = Len(t) + 1 => home = t /\ disc = <<>>
      /\ DOMAIN t = 1..Len(t) /\ Len(t) \in Nat /\ i \in Nat
  <2>1. DOMAIN t = 1..Len(t) /\ Len(t) \in Nat
    BY DEF Text
  <2>2. i \in Nat
    BY <2>1
  <2>3. QED
    BY <2>1, <2>2, Around
<1>2. home # <<>>
  BY <1>1, HomeFirst
<1>3. ASSUME ~Has(home, "#")
      PROVE  parse_address(t) = [home |-> home, discriminator |-> disc]
  <2>1. CASE i = Len(t) + 1
    <3>1. parse_address(t) = Checked(t, NoDiscriminator, FALSE)
      BY <1>1, <1>3, <2>1, ParseMeans
    <3>2. home = t /\ disc = NoDiscriminator
      BY <1>1, <2>1 DEF NoDiscriminator
    <3>3. QED
      BY <3>1, <3>2 DEF Checked
  <2>2. CASE i # Len(t) + 1
    <3>1. i \in DOMAIN t /\ FirstHash(t, i) /\ is_valid_discriminator(disc)
      BY <1>1, <1>3, <2>2 DEF FirstHash
    <3>2. parse_address(t) = Checked(home, disc, TRUE)
      BY <3>1, ParseMeans
    <3>3. QED
      BY <3>1, <3>2 DEF Checked
  <2>3. QED
    BY <2>1, <2>2
<1>4. ASSUME Has(home, "#")
      PROVE  parse_address(t) # [home |-> home, discriminator |-> disc]
  <2>1. PICK k \in 1..(i - 1) : t[k] = "#"
    BY <1>1, <1>4
  <2>2. k \in DOMAIN t
    BY <1>1
  <2>3. PICK j \in DOMAIN t : FirstHash(t, j)
    BY <2>1, <2>2, FirstHashExists DEF Has
  <2>4. \A m \in 1..(j - 1) : t[m] # "#"
    BY <2>3, FirstHashExists
  <2>5. j \in 1..Len(t) /\ j \in 1..Len(t) + 1 /\ j < i
    BY <1>1, <2>1, <2>4
  <2>6. PICK a, b : a = SubSeq(t, 1, j - 1) /\ b = From(t, j + 1)
    OBVIOUS
  <2>7. Len(a) = j - 1
    BY <2>5, <2>6, Around
  <2>8. a # home
    BY <1>1, <2>5, <2>7
  <2>9. parse_address(t) = Checked(a, b, TRUE)
    BY <2>3, <2>6, ParseMeans
  <2>10. \/ parse_address(t) = [home |-> a, discriminator |-> b]
         \/ parse_address(t) = Invalid
    BY <2>9 DEF Checked
  <2>11. [home |-> a, discriminator |-> b].home = a /\ Invalid.home = <<>>
         /\ [home |-> home, discriminator |-> disc].home = home
    BY DEF Invalid
  <2>12. QED
    BY <1>2, <2>8, <2>10, <2>11
<1>5. QED
  BY <1>3, <1>4

\* A DM is filed under the very text of its address, and the session that drains this
\* text is the one the address names, for every text, but for homes with a # in them.
THEOREM AddressesNameDrainers == Spec => []DrainedByWhomItNames
<1>1. ASSUME IInv PROVE DrainedByWhomItNames
  <2>1. text \in Text
    BY <1>1 DEF IInv
  <2>2. PICK to : to = parse_address(text)
    OBVIOUS
  <2>3. to # Invalid => render(to.home, to.discriminator) = text
    BY <2>1, <2>2, RenderedAgain
  <2>4. ASSUME NEW i \in 1..Len(text) + 1,
               NEW home, home = SubSeq(text, 1, i - 1),
               NEW disc, disc = From(text, i + 1),
               is_normalized_path(home),
               i = Len(text) + 1 \/ (text[i] = "#" /\ is_valid_discriminator(disc))
        PROVE  to = [home |-> home, discriminator |-> disc] <=> ~Has(home, "#")
    BY <2>1, <2>2, <2>4, NamedByDrainers
  <2>5. QED
    BY <2>2, <2>3, <2>4 DEF DrainedByWhomItNames
<1>2. QED
  BY <1>1, Spelled, PTL
===============================================================================
