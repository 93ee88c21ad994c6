---------------------------- MODULE FilterLemmas ----------------------------
(***************************************************************************)
(* What filtering a sequence leaves, for every sequence and every set: the *)
(* elements, their order, and how it commutes with appending, joining and  *)
(* taking the head off.  Induction over numbers and over sequences, which  *)
(* these rest on, is derived from the well-foundedness of <.               *)
(***************************************************************************)
EXTENDS Filter, WellFoundedInduction, TLAPS

-----------------------------------------------------------------------------
(* Induction over data.  A property of numbers or of sequences is a set, so that the      *)
(* principle is first-order: it rests on the well-foundedness of < on the naturals.        *)

\* Induction over the natural numbers, stepwise.
LEMMA NaturalInduction ==
    ASSUME NEW S, 0 \in S, \A n \in Nat : n \in S => n + 1 \in S
    PROVE  Nat \subseteq S
<1> DEFINE R == OpToRel(<, Nat)
           T == Nat \ S
<1> SUFFICES ASSUME T # {}  PROVE FALSE
    OBVIOUS
<1>1. IsWellFoundedOn(R, Nat) /\ T \subseteq Nat
    BY NatLessThanWellFounded
<1>2. \A x, y \in Nat : <<y, x>> \in R <=> y < x
    BY DEF OpToRel
<1> HIDE DEF R, T
<1>3. PICK n \in T : \A m \in T : ~(<<m, n>> \in R)
    BY <1>1, WFMin
<1>4. n \in Nat /\ n \notin S /\ \A m \in T : ~(m < n)
    BY <1>1, <1>2, <1>3, Zenon DEF T
<1>5. n # 0 /\ n - 1 \in Nat /\ n - 1 < n /\ (n - 1) + 1 = n
    BY <1>4
<1>6. n - 1 \in S
    BY <1>4, <1>5 DEF T
<1> QED
    BY <1>4, <1>5, <1>6

\* Induction over the sequences of a set, by appending.
LEMMA AppendInduction ==
    ASSUME NEW S, NEW T, <<>> \in T,
           \A s \in Seq(S), x \in S : s \in T => Append(s, x) \in T
    PROVE  Seq(S) \subseteq T
<1> DEFINE E == {n \in Nat : \A s \in Seq(S) : Len(s) = n => s \in T}
<1>1. 0 \in E
  <2>1. \A s \in Seq(S) : Len(s) = 0 => s = <<>>
    OBVIOUS
  <2> QED
    BY <2>1
<1>2. ASSUME NEW n \in Nat, n \in E  PROVE n + 1 \in E
  <2> SUFFICES ASSUME NEW s \in Seq(S), Len(s) = n + 1  PROVE s \in T
    OBVIOUS
  <2> DEFINE front == SubSeq(s, 1, n)
  <2>1. front \in Seq(S) /\ Len(front) = n /\ s[n + 1] \in S
    OBVIOUS
  <2>2. s = Append(front, s[n + 1])
    <3>1. Append(front, s[n + 1]) \in Seq(S) /\ Len(Append(front, s[n + 1])) = n + 1
      OBVIOUS
    <3>2. \A i \in 1..(n + 1) : Append(front, s[n + 1])[i] = s[i]
      OBVIOUS
    <3> QED
      BY <3>1, <3>2
  <2>3. front \in T
    BY <1>2, <2>1
  <2> QED
    BY <2>1, <2>2, <2>3
<1> HIDE DEF E
<1>3. Nat \subseteq E
    BY <1>1, <1>2, NaturalInduction
<1> QED
    BY <1>3 DEF E

-----------------------------------------------------------------------------
(* What Only keeps of a sequence. *)

KeptRun(f, s, keep) ==
    f = [n \in 0..Len(s) |->
            IF n = 0 THEN <<>>
            ELSE IF s[n] \in keep THEN Append(f[n - 1], s[n])
            ELSE f[n - 1]]

\* The recursion has one solution, so the function it defines is the one meant.
LEMMA RunUnique ==
    ASSUME NEW S, NEW s \in Seq(S), NEW f, NEW K, KeptRun(f, s, K)
    PROVE  Only(s, K) = f[Len(s)]
<1>0. Len(s) \in Nat
    OBVIOUS
<1>1. \A n \in Nat : n + 1 <= Len(s) => n \in 0..Len(s) /\ n + 1 \in 0..Len(s) /\ n + 1 # 0 /\ (n + 1) - 1 = n
    BY <1>0
<1>2. ASSUME NEW g, KeptRun(g, s, K)  PROVE f = g
  <2> DEFINE E == {n \in Nat : n <= Len(s) => f[n] = g[n]}
  <2>1. 0 \in E
    BY <1>0, <1>2 DEF KeptRun
  <2>2. ASSUME NEW n \in Nat, n \in E  PROVE n + 1 \in E
    <3> SUFFICES ASSUME n + 1 <= Len(s)  PROVE f[n + 1] = g[n + 1]
      OBVIOUS
    <3>1. f[n] = g[n]
      BY <1>0, <2>2
    <3>2. /\ f[n + 1] = IF s[n + 1] \in K THEN Append(f[n], s[n + 1]) ELSE f[n]
          /\ g[n + 1] = IF s[n + 1] \in K THEN Append(g[n], s[n + 1]) ELSE g[n]
      BY <1>1, <1>2 DEF KeptRun
    <3> QED
      BY <3>1, <3>2
  <2> HIDE DEF E
  <2>3. Nat \subseteq E
    BY <2>1, <2>2, NaturalInduction
  <2>4. \A n \in 0..Len(s) : f[n] = g[n]
    BY <1>0, <2>3 DEF E
  <2> QED
    BY <1>2, <2>4 DEF KeptRun
<1> QED
    BY <1>2, Zenon DEF Only, KeptRun

\* A solution for a sequence extends to one for the sequence with one more element.
LEMMA RunExtended ==
    ASSUME NEW S, NEW s \in Seq(S), NEW x \in S, NEW f, NEW K, NEW last, NEW g
    PROVE  g = [n \in 0..(Len(s) + 1) |-> IF n = Len(s) + 1 THEN last ELSE f[n]]
           => /\ KeptRun(f, s, K) /\ last = (IF x \in K THEN Append(f[Len(s)], x) ELSE f[Len(s)])
                 => KeptRun(g, Append(s, x), K)
              /\ g[Len(Append(s, x))] = last
<1> DEFINE m == Len(s)
           t == Append(s, x)
<1>0. m \in Nat /\ Len(t) = m + 1 /\ t[m + 1] = x /\ \A i \in 1..m : t[i] = s[i]
    OBVIOUS
<1> HIDE DEF m, t
<1>2. \A n \in 0..Len(t) : n = 0 \/ n = m + 1 \/ n \in 1..m
    BY <1>0
<1>3. \A n \in 1..m : n \in 0..m /\ n - 1 \in 0..m /\ n # 0
    BY <1>0
<1>4. m + 1 # 0 /\ (m + 1) - 1 = m /\ m \in 0..m /\ 0 \in 0..m
    BY <1>0
<1>5. ASSUME g = [n \in 0..(m + 1) |-> IF n = m + 1 THEN last ELSE f[n]]
      PROVE  g = [n \in 0..Len(t) |-> g[n]] /\ g[m + 1] = last /\ \A n \in 0..m : g[n] = f[n]
    BY <1>0, <1>5
<1>6. ASSUME g = [n \in 0..Len(t) |-> g[n]], g[m + 1] = last, \A n \in 0..m : g[n] = f[n],
             KeptRun(f, s, K), last = IF x \in K THEN Append(f[m], x) ELSE f[m]
      PROVE  KeptRun(g, t, K)
  <2>1. g[0] = <<>>
    BY <1>4, <1>6 DEF KeptRun, m
  <2>2. \A n \in 1..m : g[n] = IF t[n] \in K THEN Append(g[n - 1], t[n]) ELSE g[n - 1]
    BY <1>0, <1>3, <1>6 DEF KeptRun, m
  <2>3. g[m + 1] = IF t[m + 1] \in K THEN Append(g[m], t[m + 1]) ELSE g[m]
    BY <1>0, <1>4, <1>6
  <2>4. ASSUME NEW n \in 0..Len(t)
        PROVE  g[n] = IF n = 0 THEN <<>> ELSE IF t[n] \in K THEN Append(g[n - 1], t[n]) ELSE g[n - 1]
    BY <1>2, <1>3, <1>4, <2>1, <2>2, <2>3
  <2> QED
    BY <1>6, <2>4 DEF KeptRun
<1> QED
    BY <1>0, <1>5, <1>6 DEF m, t

\* Nothing is kept of nothing.
LEMMA OnlyNone ==
    ASSUME NEW K
    PROVE  Only(<<>>, K) = <<>>
<1> DEFINE f == [n \in 0..0 |-> <<>>]
<1>1. KeptRun(f, <<>>, K)
    BY DEF KeptRun
<1>2. <<>> \in Seq({}) /\ Len(<<>>) = 0 /\ f[0] = <<>>
    OBVIOUS
<1> HIDE DEF f
<1> QED
    BY <1>1, <1>2, RunUnique

\* Only decides element by element.
LEMMA OnlyAppend ==
    ASSUME NEW S, NEW K, NEW s \in Seq(S), NEW x \in S
    PROVE  Only(Append(s, x), K) = IF x \in K THEN Append(Only(s, K), x) ELSE Only(s, K)
<1> DEFINE T == {q \in Seq(S) : \E f : KeptRun(f, q, K)}
<1>1. <<>> \in T
  <2>1. KeptRun([n \in 0..0 |-> <<>>], <<>>, K)
    BY DEF KeptRun
  <2> QED
    BY <2>1
<1>2. ASSUME NEW q \in Seq(S), NEW y \in S, q \in T
      PROVE  /\ Append(q, y) \in T
             /\ Only(Append(q, y), K) = IF y \in K THEN Append(Only(q, K), y) ELSE Only(q, K)
  <2>1. PICK f : KeptRun(f, q, K)
    BY <1>2
  <2> DEFINE last == IF y \in K THEN Append(f[Len(q)], y) ELSE f[Len(q)]
             g == [n \in 0..(Len(q) + 1) |-> IF n = Len(q) + 1 THEN last ELSE f[n]]
  <2> HIDE DEF g, last
  <2>2. KeptRun(g, Append(q, y), K) /\ g[Len(Append(q, y))] = last
    <3>1. g = [n \in 0..(Len(q) + 1) |-> IF n = Len(q) + 1 THEN last ELSE f[n]]
      BY DEF g
    <3>2. last = IF y \in K THEN Append(f[Len(q)], y) ELSE f[Len(q)]
      BY DEF last
    <3>3. KeptRun(f, q, K) /\ last = (IF y \in K THEN Append(f[Len(q)], y) ELSE f[Len(q)])
          => KeptRun(g, Append(q, y), K)
      BY <3>1, RunExtended, Zenon
    <3>4. g[Len(Append(q, y))] = last
      BY <3>1
    <3> QED
      BY <2>1, <3>2, <3>3, <3>4, Zenon
  <2>3. Append(q, y) \in Seq(S)
    OBVIOUS
  <2>4. Only(Append(q, y), K) = last /\ Only(q, K) = f[Len(q)]
    BY <2>1, <2>2, <2>3, RunUnique
  <2> QED
    BY <2>2, <2>3, <2>4 DEF last
<1>3. Seq(S) \subseteq T
  <2>1. \A q \in Seq(S), y \in S : q \in T => Append(q, y) \in T
    BY <1>2
  <2> HIDE DEF T
  <2> QED
    BY <1>1, <2>1, AppendInduction
<1> QED
    BY <1>2, <1>3

\* Of two sequences, what is kept of the first comes before what is kept of the second.
LEMMA OnlyConcat ==
    ASSUME NEW S, NEW K, NEW s \in Seq(S), NEW t \in Seq(S), Only(s, K) \in Seq(S)
    PROVE  Only(s \o t, K) = Only(s, K) \o Only(t, K) /\ Only(t, K) \in Seq(S)
<1> DEFINE T == {q \in Seq(S) : Only(s \o q, K) = Only(s, K) \o Only(q, K) /\ Only(q, K) \in Seq(S)}
<1>1. <<>> \in T
  <2>1. s \o <<>> = s /\ Only(s, K) \o <<>> = Only(s, K) /\ <<>> \in Seq(S)
    OBVIOUS
  <2> QED
    BY <2>1, OnlyNone
<1>2. ASSUME NEW q \in Seq(S), NEW x \in S, q \in T  PROVE Append(q, x) \in T
  <2>1. /\ Only(s \o q, K) = Only(s, K) \o Only(q, K) /\ Only(q, K) \in Seq(S)
        /\ Append(q, x) \in Seq(S) /\ s \o q \in Seq(S)
    BY <1>2
  <2>2. s \o Append(q, x) = Append(s \o q, x)
    OBVIOUS
  <2>3. Only(s, K) \o Append(Only(q, K), x) = Append(Only(s, K) \o Only(q, K), x)
    BY <2>1
  <2>4. Only(Append(q, x), K) = IF x \in K THEN Append(Only(q, K), x) ELSE Only(q, K)
    BY OnlyAppend
  <2>5. Only(Append(s \o q, x), K) = IF x \in K THEN Append(Only(s \o q, K), x) ELSE Only(s \o q, K)
    <3>1. \A v \in Seq(S) : Only(Append(v, x), K) = IF x \in K THEN Append(Only(v, K), x) ELSE Only(v, K)
      BY OnlyAppend
    <3> QED
      BY <2>1, <3>1
  <2>6. Only(Append(q, x), K) \in Seq(S)
    BY <2>1, <2>4
  <2> QED
    BY <2>1, <2>2, <2>3, <2>4, <2>5, <2>6
<1>3. Seq(S) \subseteq T
  <2>1. \A q \in Seq(S), y \in S : q \in T => Append(q, y) \in T
    BY <1>2
  <2> HIDE DEF T
  <2> QED
    BY <1>1, <2>1, AppendInduction
<1> QED
    BY <1>3

\* What is kept is of the sequence and of the set, and no more than there was.
LEMMA OnlyOf ==
    ASSUME NEW S, NEW K, NEW s \in Seq(S)
    PROVE  /\ Only(s, K) \in Seq(S) /\ Len(Only(s, K)) <= Len(s)
           /\ \A j \in 1..Len(Only(s, K)) :
                 Only(s, K)[j] \in K /\ \E i \in 1..Len(s) : s[i] = Only(s, K)[j]
<1> DEFINE T == {q \in Seq(S) : /\ Only(q, K) \in Seq(S) /\ Len(Only(q, K)) <= Len(q)
                                /\ \A j \in 1..Len(Only(q, K)) :
                                     Only(q, K)[j] \in K /\ \E i \in 1..Len(q) : q[i] = Only(q, K)[j]}
<1>1. <<>> \in T
  <2>1. \A o : o = <<>> => o \in Seq(S) /\ Len(o) = 0 /\ 1..Len(o) = {}
    OBVIOUS
  <2>2. Only(<<>>, K) = <<>>
    BY OnlyNone
  <2> HIDE DEF T
  <2> SUFFICES /\ <<>> \in Seq(S) /\ Only(<<>>, K) \in Seq(S) /\ Len(Only(<<>>, K)) <= Len(<<>>)
               /\ 1..Len(Only(<<>>, K)) = {}
    BY DEF T
  <2> QED
    BY <2>1, <2>2
<1>2. ASSUME NEW q \in Seq(S), NEW x \in S, q \in T  PROVE Append(q, x) \in T
  <2> DEFINE o == Only(q, K)
             v == Append(q, x)
             w == Only(v, K)
  <2>1. /\ o \in Seq(S) /\ Len(o) <= Len(q)
        /\ \A j \in 1..Len(o) : o[j] \in K /\ \E i \in 1..Len(q) : q[i] = o[j]
    BY <1>2
  <2>2. w = IF x \in K THEN Append(o, x) ELSE o
    BY OnlyAppend
  <2>3. v \in Seq(S) /\ Len(v) = Len(q) + 1 /\ v[Len(q) + 1] = x /\ \A i \in 1..Len(q) : v[i] = q[i]
    OBVIOUS
  <2> HIDE DEF o, v, w
  <2>4. Len(q) \in Nat /\ Len(o) \in Nat
    BY <2>1
  <2>5. w \in Seq(S) /\ Len(w) <= Len(v)
    BY <2>1, <2>2, <2>3, <2>4
  <2>6. ASSUME NEW j \in 1..Len(w)  PROVE w[j] \in K /\ \E i \in 1..Len(v) : v[i] = w[j]
    <3>1. CASE x \in K /\ j = Len(o) + 1
      BY <2>1, <2>2, <2>3, <2>4, <3>1
    <3>2. CASE j \in 1..Len(o)
      <4>1. w[j] = o[j]
        BY <2>1, <2>2, <3>2
      <4>2. PICK i \in 1..Len(q) : q[i] = o[j]
        BY <2>1, <3>2
      <4>3. i \in 1..Len(v) /\ v[i] = w[j]
        BY <2>3, <2>4, <4>1, <4>2
      <4> QED
        BY <2>1, <3>2, <4>1, <4>3
    <3> QED
      BY <2>1, <2>2, <2>4, <3>1, <3>2
  <2> QED
    BY <2>3, <2>5, <2>6 DEF o, v, w
<1>3. Seq(S) \subseteq T
  <2>1. \A q \in Seq(S), y \in S : q \in T => Append(q, y) \in T
    BY <1>2
  <2> HIDE DEF T
  <2> QED
    BY <1>1, <2>1, AppendInduction
<1> QED
    BY <1>3

\* What is kept keeps its order.
LEMMA OnlyOrder ==
    ASSUME NEW S, NEW K, NEW s \in Seq(S)
    PROVE  \A j \in 1..Len(Only(s, K)) : \E i \in 1..Len(s) :
              /\ s[i] = Only(s, K)[j]
              /\ \A h \in (i + 1)..Len(s) : s[h] \in K =>
                    \E k \in (j + 1)..Len(Only(s, K)) : Only(s, K)[k] = s[h]
<1> DEFINE Ordered(q, o) == \A j \in 1..Len(o) : \E i \in 1..Len(q) :
                               /\ q[i] = o[j]
                               /\ \A h \in (i + 1)..Len(q) : q[h] \in K =>
                                     \E k \in (j + 1)..Len(o) : o[k] = q[h]
           T == {q \in Seq(S) : Ordered(q, Only(q, K))}
<1>1. <<>> \in T
    BY OnlyNone
<1>2. ASSUME NEW q \in Seq(S), NEW x \in S, q \in T  PROVE Append(q, x) \in T
  <2> DEFINE o == Only(q, K)
             v == Append(q, x)
             w == Only(v, K)
  <2>1. o \in Seq(S) /\ Ordered(q, o)
    BY <1>2, OnlyOf
  <2>2. w = IF x \in K THEN Append(o, x) ELSE o
    BY OnlyAppend
  <2>3. v \in Seq(S) /\ Len(v) = Len(q) + 1 /\ v[Len(q) + 1] = x /\ \A i \in 1..Len(q) : v[i] = q[i]
    OBVIOUS
  <2> HIDE DEF o, v, w
  <2>4. Len(q) \in Nat /\ Len(o) \in Nat
    BY <2>1
  <2>5. /\ \A k \in 1..Len(o) : k \in 1..Len(w) /\ w[k] = o[k]
        /\ x \in K => Len(w) = Len(o) + 1 /\ w[Len(w)] = x
        /\ x \notin K => Len(w) = Len(o)
    BY <2>1, <2>2, <2>4
  <2>6. ASSUME NEW j \in 1..Len(w)
        PROVE  \E i \in 1..Len(v) :
                  /\ v[i] = w[j]
                  /\ \A h \in (i + 1)..Len(v) : v[h] \in K => \E k \in (j + 1)..Len(w) : w[k] = v[h]
    <3>1. CASE j \in 1..Len(o)
      <4>1. PICK i \in 1..Len(q) :
               /\ q[i] = o[j]
               /\ \A h \in (i + 1)..Len(q) : q[h] \in K => \E k \in (j + 1)..Len(o) : o[k] = q[h]
        BY <2>1, <3>1
      <4>2. ASSUME NEW h \in (i + 1)..Len(v), v[h] \in K  PROVE \E k \in (j + 1)..Len(w) : w[k] = v[h]
        <5>1. CASE h = Len(q) + 1
          <6>1. v[h] = x /\ x \in K
            BY <2>3, <4>2, <5>1
          <6>2. Len(w) \in (j + 1)..Len(w) /\ w[Len(w)] = x
            BY <2>4, <2>5, <3>1, <6>1
          <6> QED
            BY <6>1, <6>2
        <5>2. CASE h \in (i + 1)..Len(q)
          <6>1. v[h] = q[h]
            BY <2>3, <2>4, <5>2
          <6>2. PICK k \in (j + 1)..Len(o) : o[k] = q[h]
            BY <4>1, <4>2, <5>2, <6>1
          <6>3. k \in (j + 1)..Len(w) /\ w[k] = o[k]
            BY <2>4, <2>5, <3>1, <6>2
          <6> QED
            BY <6>1, <6>2, <6>3
        <5> QED
          BY <2>3, <2>4, <5>1, <5>2
      <4>3. i \in 1..Len(v) /\ v[i] = w[j]
        BY <2>3, <2>4, <2>5, <3>1, <4>1
      <4> QED
        BY <4>2, <4>3
    <3>2. CASE x \in K /\ j = Len(o) + 1
      <4>1. v[Len(v)] = w[j] /\ Len(v) \in 1..Len(v) /\ (Len(v) + 1)..Len(v) = {}
        BY <2>3, <2>4, <2>5, <3>2
      <4> QED
        BY <4>1
    <3> QED
      BY <2>4, <2>5, <3>1, <3>2
  <2> QED
    BY <2>3, <2>6 DEF o, v, w
<1>3. Seq(S) \subseteq T
  <2>1. \A q \in Seq(S), y \in S : q \in T => Append(q, y) \in T
    BY <1>2
  <2> HIDE DEF T
  <2> QED
    BY <1>1, <2>1, AppendInduction
<1> QED
    BY <1>3

\* Nothing that is to be kept is lost.
LEMMA OnlyHas ==
    ASSUME NEW S, NEW K, NEW s \in Seq(S)
    PROVE  \A i \in 1..Len(s) : s[i] \in K => \E j \in 1..Len(Only(s, K)) : Only(s, K)[j] = s[i]
<1> DEFINE T == {q \in Seq(S) : \A i \in 1..Len(q) : q[i] \in K =>
                                  \E j \in 1..Len(Only(q, K)) : Only(q, K)[j] = q[i]}
<1>1. <<>> \in T
    OBVIOUS
<1>2. ASSUME NEW q \in Seq(S), NEW x \in S, q \in T  PROVE Append(q, x) \in T
  <2> DEFINE o == Only(q, K)
             v == Append(q, x)
             w == Only(v, K)
  <2>1. o \in Seq(S) /\ \A i \in 1..Len(q) : q[i] \in K => \E j \in 1..Len(o) : o[j] = q[i]
    BY <1>2, OnlyOf
  <2>2. w = IF x \in K THEN Append(o, x) ELSE o
    BY OnlyAppend
  <2>3. v \in Seq(S) /\ Len(v) = Len(q) + 1 /\ v[Len(q) + 1] = x /\ \A i \in 1..Len(q) : v[i] = q[i]
    OBVIOUS
  <2> HIDE DEF o, v, w
  <2>4. Len(q) \in Nat /\ Len(o) \in Nat
    BY <2>1
  <2>5. /\ \A k \in 1..Len(o) : k \in 1..Len(w) /\ w[k] = o[k]
        /\ x \in K => Len(w) \in 1..Len(w) /\ w[Len(w)] = x
    BY <2>1, <2>2, <2>4
  <2>6. ASSUME NEW i \in 1..Len(v), v[i] \in K  PROVE \E j \in 1..Len(w) : w[j] = v[i]
    <3>1. CASE i \in 1..Len(q)
      <4>1. PICK j \in 1..Len(o) : o[j] = q[i]
        BY <2>1, <2>3, <2>6, <3>1
      <4>2. j \in 1..Len(w) /\ w[j] = v[i]
        BY <2>3, <2>5, <3>1, <4>1
      <4> QED
        BY <4>2
    <3>2. CASE i = Len(q) + 1
      BY <2>3, <2>5, <2>6, <3>2
    <3> QED
      BY <2>3, <2>4, <3>1, <3>2
  <2> QED
    BY <2>3, <2>6 DEF o, v, w
<1>3. Seq(S) \subseteq T
  <2>1. \A q \in Seq(S), y \in S : q \in T => Append(q, y) \in T
    BY <1>2
  <2> HIDE DEF T
  <2> QED
    BY <1>1, <2>1, AppendInduction
<1> QED
    BY <1>3

\* What is kept of rising numbers rises.
LEMMA OnlyRises ==
    ASSUME NEW K, NEW s \in Seq(Nat), \A i, j \in 1..Len(s) : i < j => s[i] < s[j]
    PROVE  \A i, j \in 1..Len(Only(s, K)) : i < j => Only(s, K)[i] < Only(s, K)[j]
<1> DEFINE Rises(q) == \A i, j \in 1..Len(q) : i < j => q[i] < q[j]
           T == {q \in Seq(Nat) : Rises(q) => Rises(Only(q, K))}
<1>1. <<>> \in T
  <2>1. 1..Len(Only(<<>>, K)) = {}
    BY OnlyNone
  <2> QED
    BY <2>1
<1>2. ASSUME NEW q \in Seq(Nat), NEW x \in Nat, q \in T  PROVE Append(q, x) \in T
  <2> DEFINE o == Only(q, K)
             v == Append(q, x)
             w == Only(v, K)
  <2>1. /\ o \in Seq(Nat) /\ (Rises(q) => Rises(o))
        /\ \A j \in 1..Len(o) : \E i \in 1..Len(q) : q[i] = o[j]
    BY <1>2, OnlyOf
  <2>2. w = IF x \in K THEN Append(o, x) ELSE o
    BY OnlyAppend
  <2>3. v \in Seq(Nat) /\ Len(v) = Len(q) + 1 /\ v[Len(q) + 1] = x /\ \A i \in 1..Len(q) : v[i] = q[i]
    OBVIOUS
  <2> HIDE DEF o, v, w
  <2>4. Len(q) \in Nat /\ Len(o) \in Nat
    BY <2>1
  <2>5. ASSUME Rises(v)  PROVE Rises(w)
    <3>1. Rises(q)
      BY <2>3, <2>4, <2>5
    <3>2. \A i \in 1..Len(q) : q[i] < x
      BY <2>3, <2>4, <2>5
    <3>3. \A j \in 1..Len(o) : o[j] < x
      BY <2>1, <3>2
    <3>4. Rises(o)
      BY <2>1, <3>1
    <3>5. CASE x \in K
      <4>1. Len(w) = Len(o) + 1 /\ w[Len(o) + 1] = x /\ \A k \in 1..Len(o) : w[k] = o[k]
        <5>1. \A k \in 1..Len(o) : Append(o, x)[k] = o[k]
          BY <2>1
        <5>2. Len(Append(o, x)) = Len(o) + 1 /\ Append(o, x)[Len(o) + 1] = x
          BY <2>1
        <5> QED
          BY <2>2, <3>5, <5>1, <5>2, Zenon
      <4>2. ASSUME NEW i \in 1..Len(w), NEW j \in 1..Len(w), i < j  PROVE w[i] < w[j]
        <5>1. i \in 1..Len(o) /\ (j \in 1..Len(o) \/ j = Len(o) + 1)
          <6> DEFINE m == Len(o)
          <6>1. m \in Nat /\ Len(w) = m + 1
            BY <2>4, <4>1
          <6> HIDE DEF m
          <6>2. i \in 1..m /\ (j \in 1..m \/ j = m + 1)
            BY <4>2, <6>1
          <6> QED
            BY <6>2 DEF m
        <5>2. CASE j = Len(o) + 1
          BY <3>3, <4>1, <5>1, <5>2
        <5>3. CASE j \in 1..Len(o)
          <6>1. o[i] < o[j]
            BY <3>4, <4>2, <5>1, <5>3
          <6>2. w[i] = o[i] /\ w[j] = o[j]
            BY <4>1, <5>1, <5>3, Zenon
          <6> QED
            BY <6>1, <6>2
        <5> QED
          BY <5>1, <5>2, <5>3
      <4> QED
        BY <4>2
    <3>6. CASE x \notin K
      BY <2>2, <3>4, <3>6
    <3> QED
      BY <3>5, <3>6
  <2> QED
    BY <2>3, <2>5 DEF o, v, w
<1>3. Seq(Nat) \subseteq T
  <2>1. \A q \in Seq(Nat), y \in Nat : q \in T => Append(q, y) \in T
    BY <1>2
  <2> HIDE DEF T
  <2> QED
    BY <1>1, <2>1, AppendInduction
<1> QED
    BY <1>3

\* Only looks at nothing but the elements of the sequence.
LEMMA OnlySame ==
    ASSUME NEW S, NEW K, NEW L, NEW s \in Seq(S), \A x \in S : x \in K <=> x \in L
    PROVE  Only(s, K) = Only(s, L)
<1> DEFINE T == {q \in Seq(S) : Only(q, K) = Only(q, L)}
<1>1. <<>> \in T
    BY OnlyNone
<1>2. ASSUME NEW q \in Seq(S), NEW x \in S, q \in T  PROVE Append(q, x) \in T
  <2>1. \A J : Only(Append(q, x), J) = IF x \in J THEN Append(Only(q, J), x) ELSE Only(q, J)
    BY OnlyAppend
  <2>2. Append(q, x) \in Seq(S) /\ Only(q, K) = Only(q, L)
    BY <1>2
  <2>3. Only(Append(q, x), K) = Only(Append(q, x), L)
    BY <2>1, <2>2, Zenon
  <2> QED
    BY <2>2, <2>3
<1>3. Seq(S) \subseteq T
  <2>1. \A q \in Seq(S), y \in S : q \in T => Append(q, y) \in T
    BY <1>2
  <2> HIDE DEF T
  <2> QED
    BY <1>1, <2>1, AppendInduction
<1> QED
    BY <1>3

\* All of a sequence is kept, or nothing.
LEMMA OnlyAll ==
    ASSUME NEW S, NEW K, NEW s \in Seq(S)
    PROVE  /\ (\A x \in S : x \in K) => Only(s, K) = s
           /\ (\A x \in S : x \notin K) => Only(s, K) = <<>>
<1> DEFINE T == {q \in Seq(S) : /\ (\A x \in S : x \in K) => Only(q, K) = q
                                /\ (\A x \in S : x \notin K) => Only(q, K) = <<>>}
<1>1. <<>> \in T
    BY OnlyNone
<1>2. ASSUME NEW q \in Seq(S), NEW x \in S, q \in T  PROVE Append(q, x) \in T
  <2>1. Only(Append(q, x), K) = IF x \in K THEN Append(Only(q, K), x) ELSE Only(q, K)
    BY OnlyAppend
  <2> QED
    BY <1>2, <2>1
<1>3. Seq(S) \subseteq T
  <2>1. \A q \in Seq(S), y \in S : q \in T => Append(q, y) \in T
    BY <1>2
  <2> HIDE DEF T
  <2> QED
    BY <1>1, <2>1, AppendInduction
<1> QED
    BY <1>3

\* Of a sequence of which exactly the end is kept, the end is kept.
LEMMA OnlyFrom ==
    ASSUME NEW S, NEW K, NEW s \in Seq(S), NEW first \in 1..(Len(s) + 1),
           \A j \in 1..Len(s) : s[j] \in K <=> first <= j
    PROVE  Only(s, K) = SubSeq(s, first, Len(s))
<1> DEFINE A == {s[j] : j \in 1..(first - 1)}
           B == {s[j] : j \in first..Len(s)}
           front == SubSeq(s, 1, first - 1)
           back == SubSeq(s, first, Len(s))
<1>0. /\ Len(s) \in Nat /\ first \in Nat /\ first <= Len(s) + 1 /\ 1 <= first
      /\ \A j \in 1..Len(s) : s[j] \in S
    OBVIOUS
<1>1. /\ front \in Seq(S) /\ back \in Seq(S) /\ s = front \o back
      /\ Len(front) = first - 1 /\ Len(back) = Len(s) - first + 1
      /\ \A j \in 1..(first - 1) : front[j] = s[j]
      /\ \A j \in 1..(Len(s) - first + 1) : back[j] = s[first + j - 1]
  <2>1. front \in Seq(S) /\ Len(front) = first - 1 /\ \A j \in 1..(first - 1) : front[j] = s[j]
    BY <1>0
  <2>2. /\ back \in Seq(S) /\ Len(back) = Len(s) - first + 1
        /\ \A j \in 1..(Len(s) - first + 1) : back[j] = s[first + j - 1]
    BY <1>0
  <2> HIDE DEF front, back
  <2>3. Len(front \o back) = Len(s)
    BY <1>0, <2>1, <2>2
  <2>4. \A j \in 1..Len(s) : (front \o back)[j] = s[j]
    <3> TAKE j \in 1..Len(s)
    <3>1. CASE j < first
      BY <1>0, <2>1, <2>2, <3>1
    <3>2. CASE ~(j < first)
      <4>1. j - (first - 1) \in 1..(Len(s) - first + 1) /\ first + (j - (first - 1)) - 1 = j
        BY <1>0, <3>2
      <4>2. (front \o back)[j] = back[j - (first - 1)]
        BY <1>0, <2>1, <2>2, <3>2
      <4> QED
        BY <2>2, <4>1, <4>2
    <3> QED
      BY <3>1, <3>2
  <2>5. front \o back \in Seq(S) /\ s \in Seq(S)
    BY <2>1, <2>2
  <2>6. \A p, q \in Seq(S) : Len(p) = Len(q) /\ (\A j \in 1..Len(p) : p[j] = q[j]) => p = q
    OBVIOUS
  <2>7. front \o back = s
    BY <2>3, <2>4, <2>5, <2>6
  <2> QED
    BY <2>1, <2>2, <2>7
<1>2. (\A x \in A : x \notin K) /\ (\A x \in B : x \in K)
    BY <1>0
<1>3. front \in Seq(A)
  <2>1. \A j \in 1..Len(front) : front[j] \in A
    BY <1>1
  <2>2. front \in Seq(S)
    BY <1>1
  <2> HIDE DEF A, front
  <2> QED
    BY <2>1, <2>2
<1>4. back \in Seq(B)
  <2>1. \A j \in 1..Len(back) : first + j - 1 \in first..Len(s)
    BY <1>0, <1>1
  <2>2. \A j \in 1..Len(back) : back[j] \in B
    BY <1>1, <2>1
  <2>3. back \in Seq(S)
    BY <1>1
  <2> HIDE DEF B, back
  <2> QED
    BY <2>2, <2>3
<1> HIDE DEF A, B, front, back
<1>5. Only(front, K) = <<>>
    BY <1>2, <1>3, OnlyAll
<1>6. Only(back, K) = back
    BY <1>2, <1>4, OnlyAll
<1>7. Only(front \o back, K) = Only(front, K) \o Only(back, K)
  <2>1. Only(front, K) \in Seq(S)
    BY <1>5
  <2> QED
    BY <1>1, <2>1, OnlyConcat
<1>8. <<>> \o back = back
    BY <1>1
<1> QED
    BY <1>1, <1>5, <1>6, <1>7, <1>8 DEF back

\* What is kept of what was kept is what both keep.
LEMMA OnlyTwice ==
    ASSUME NEW S, NEW K, NEW L, NEW s \in Seq(S)
    PROVE  Only(Only(s, K), L) = Only(s, K \cap L)
<1> DEFINE T == {q \in Seq(S) : Only(q, K) \in Seq(S) /\ Only(Only(q, K), L) = Only(q, K \cap L)}
<1>1. <<>> \in T
  <2>1. \A J : Only(<<>>, J) = <<>>
    BY OnlyNone
  <2>2. <<>> \in Seq(S)
    OBVIOUS
  <2>3. Only(Only(<<>>, K), L) = Only(<<>>, K \cap L)
    BY <2>1, Zenon
  <2> QED
    BY <2>1, <2>2, <2>3, Zenon
<1>2. ASSUME NEW q \in Seq(S), NEW x \in S, q \in T  PROVE Append(q, x) \in T
  <2>1. /\ Append(q, x) \in Seq(S) /\ Only(q, K) \in Seq(S)
        /\ Only(Only(q, K), L) = Only(q, K \cap L)
    BY <1>2
  <2>2. \A J : \A v \in Seq(S) : Only(Append(v, x), J) = IF x \in J THEN Append(Only(v, J), x) ELSE Only(v, J)
    BY OnlyAppend
  <2>3. CASE x \in K
    <3>1. Only(Append(q, x), K) = Append(Only(q, K), x)
      BY <2>2, <2>3
    <3>2. Only(Append(Only(q, K), x), L) =
             IF x \in L THEN Append(Only(Only(q, K), L), x) ELSE Only(Only(q, K), L)
      BY <2>1, <2>2
    <3>3. Only(Append(q, x), K \cap L) =
             IF x \in L THEN Append(Only(q, K \cap L), x) ELSE Only(q, K \cap L)
      <4>1. x \in K \cap L <=> x \in L
        BY <2>3
      <4> QED
        BY <2>2, <4>1
    <3>4. Append(Only(q, K), x) \in Seq(S)
      BY <2>1
    <3>5. Only(Only(Append(q, x), K), L) = Only(Append(q, x), K \cap L)
      BY <2>1, <3>1, <3>2, <3>3, Zenon
    <3>6. Only(Append(q, x), K) \in Seq(S)
      BY <3>1, <3>4, Zenon
    <3> QED
      BY <2>1, <3>5, <3>6, Zenon
  <2>4. CASE x \notin K
    <3>1. Only(Append(q, x), K) = Only(q, K) /\ Only(Append(q, x), K \cap L) = Only(q, K \cap L)
      <4>1. x \notin K \cap L
        BY <2>4
      <4> QED
        BY <2>2, <2>4, <4>1
    <3> QED
      BY <2>1, <3>1
  <2> QED
    BY <2>3, <2>4
<1>3. Seq(S) \subseteq T
  <2>1. \A q \in Seq(S), y \in S : q \in T => Append(q, y) \in T
    BY <1>2
  <2> HIDE DEF T
  <2> QED
    BY <1>1, <2>1, AppendInduction
<1> QED
    BY <1>3

\* The first element of a sequence is the first that is kept, or is passed over.
LEMMA OnlyHead ==
    ASSUME NEW S, NEW K, NEW s \in Seq(S), s # <<>>
    PROVE  /\ Head(s) \notin K => Only(Tail(s), K) = Only(s, K)
           /\ Head(s) \in K => /\ Only(s, K) # <<>> /\ Head(Only(s, K)) = Head(s)
                               /\ Only(Tail(s), K) = Tail(Only(s, K))
<1> DEFINE h == <<Head(s)>>
<1>1. h \in Seq(S) /\ Tail(s) \in Seq(S) /\ s = h \o Tail(s) /\ h = Append(<<>>, Head(s)) /\ Head(s) \in S
    OBVIOUS
<1>2. Only(h, K) = IF Head(s) \in K THEN h ELSE <<>>
  <2>1. <<>> \in Seq(S) /\ Only(<<>>, K) = <<>>
    BY OnlyNone
  <2>2. \A q \in Seq(S), x \in S : Only(Append(q, x), K) = IF x \in K THEN Append(Only(q, K), x) ELSE Only(q, K)
    BY OnlyAppend
  <2>3. Append(<<>>, Head(s)) = h
    BY <1>1
  <2> HIDE DEF h
  <2> QED
    BY <1>1, <2>1, <2>2, <2>3, Zenon
<1>3. Only(s, K) = Only(h, K) \o Only(Tail(s), K) /\ Only(Tail(s), K) \in Seq(S)
  <2>1. \A q \in Seq(S), t \in Seq(S) :
           Only(q \o t, K) = Only(q, K) \o Only(t, K) /\ Only(t, K) \in Seq(S)
    <3>1. \A q \in Seq(S) : Only(q, K) \in Seq(S)
      BY OnlyOf
    <3> QED
      BY <3>1, OnlyConcat
  <2> HIDE DEF h
  <2> QED
    BY <1>1, <2>1
<1>4. CASE Head(s) \notin K
  <2>1. \A q \in Seq(S) : <<>> \o q = q
    OBVIOUS
  <2>2. Only(s, K) = <<>> \o Only(Tail(s), K)
    BY <1>2, <1>3, <1>4, Zenon
  <2> QED
    BY <1>3, <1>4, <2>1, <2>2
<1>5. CASE Head(s) \in K
  <2>1. Only(s, K) = h \o Only(Tail(s), K)
    BY <1>2, <1>3, <1>5, Zenon
  <2>2. \A x \in S, q \in Seq(S) : /\ <<x>> \o q # <<>> /\ Head(<<x>> \o q) = x
                                    /\ Tail(<<x>> \o q) = q
    OBVIOUS
  <2> QED
    BY <1>1, <1>3, <1>5, <2>1, <2>2
<1> QED
    BY <1>4, <1>5
=============================================================================
