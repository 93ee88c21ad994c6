------------------------ MODULE SessionManagerProofs ------------------------
(***************************************************************************)
(* What one managed session promises for every set of operations and every *)
(* number of crashes and failed appends.                                   *)
(*                                                                         *)
(* First comes the inductive invariant and its control part: which operation *)
(* is where (StageInv), who owns the branch (OwnerInv), what the drain is at *)
(* (DrainInv), what a daemon that is down leaves (DownInv), and which producer *)
(* each append in flight belongs to (FlightInv).  A lemma named ...Step takes *)
(* the parts of the invariant it needs and one step of Next, with one case for *)
(* each action.  The actions that give the branch back, and those of a     *)
(* delivery, are taken together (Gives, Delivers): a lemma says once what they *)
(* leave.                                                                  *)
(*                                                                         *)
(* Then what the parts say together.  The log says of every item in memory *)
(* that it waits (QueueInv), and the queue in memory is what its events leave *)
(* (MatchInv): each event that lands changes the derived queue as the code *)
(* changes its own.  An interrupt is remembered until its target owns the  *)
(* branch (InterruptInv), and a reservation keeps every other turn out     *)
(* (DeliveryIsolated).  On top of these: an operation has recorded no more *)
(* than its stage allows (MarkInv), so that nothing is recorded twice.     *)
(***************************************************************************)
EXTENDS SessionManager, WellFoundedInduction, TLAPS

-----------------------------------------------------------------------------
(* Induction over data.  A property of numbers or of sequences is a set, so that the      *)
(* principle is first-order: it rests on the well-foundedness of < on the naturals.        *)

\* A set of natural numbers that is not empty has a least element.
LEMMA LeastNatural ==
    ASSUME NEW T, T \subseteq Nat, T # {}
    PROVE  \E n \in T : \A m \in T : n <= m
<1> DEFINE R == OpToRel(<, Nat)
<1>1. IsWellFoundedOn(R, Nat)
    BY NatLessThanWellFounded
<1>2. \A x, y \in Nat : <<y, x>> \in R <=> y < x
    BY DEF OpToRel
<1> HIDE DEF R
<1>3. PICK n \in T : \A m \in T : ~(<<m, n>> \in R)
    BY <1>1, WFMin
<1>4. \A m \in T : ~(m < n)
    BY <1>2, <1>3, Zenon
<1>5. \A m \in Nat : ~(m < n) => n <= m
    OBVIOUS
<1> QED
    BY <1>4, <1>5

\* Induction over the natural numbers.
LEMMA NaturalInduction ==
    ASSUME NEW S, 0 \in S, \A n \in Nat : n \in S => n + 1 \in S
    PROVE  Nat \subseteq S
<1> SUFFICES ASSUME Nat \ S # {}  PROVE FALSE
    OBVIOUS
<1>1. PICK n \in Nat \ S : \A m \in Nat \ S : n <= m
    BY LeastNatural
<1>2. n # 0 /\ n - 1 \in Nat /\ n - 1 \notin Nat \ S
    BY <1>1
<1> QED
    BY <1>1, <1>2

\* Induction over the sequences of a set, by appending.
LEMMA AppendInduction ==
    ASSUME NEW S, NEW T, <<>> \in T,
           \A s \in Seq(S), x \in S : s \in T => Append(s, x) \in T
    PROVE  Seq(S) \subseteq T
<1> DEFINE E == {n \in Nat : \A s \in Seq(S) : Len(s) = n => s \in T}
<1>1. 0 \in E
  <2>1. \A s \in Seq(S) : Len(s) = 0 => s = <<>>
    OBVIOUS
  <2> QED
    BY <2>1
<1>2. ASSUME NEW n \in Nat, n \in E  PROVE n + 1 \in E
  <2> SUFFICES ASSUME NEW s \in Seq(S), Len(s) = n + 1  PROVE s \in T
    OBVIOUS
  <2> DEFINE front == SubSeq(s, 1, n)
  <2>1. front \in Seq(S) /\ Len(front) = n /\ s[n + 1] \in S
    OBVIOUS
  <2>2. s = Append(front, s[n + 1])
    <3>1. Append(front, s[n + 1]) \in Seq(S) /\ Len(Append(front, s[n + 1])) = n + 1
      OBVIOUS
    <3>2. \A i \in 1..(n + 1) : Append(front, s[n + 1])[i] = s[i]
      OBVIOUS
    <3> QED
      BY <3>1, <3>2
  <2>3. front \in T
    BY <1>2, <2>1
  <2> QED
    BY <2>1, <2>2, <2>3
<1> HIDE DEF E
<1>3. Nat \subseteq E
    BY <1>1, <1>2, NaturalInduction
<1> QED
    BY <1>3 DEF E

-----------------------------------------------------------------------------
(* The two recursive definitions: a queue without some items, and the queue *)
(* that the events leave.                                                   *)

KeptRun(f, s, dropped) ==
    f = [n \in 0..Len(s) |->
            IF n = 0 THEN <<>>
            ELSE IF s[n] \in dropped THEN f[n - 1]
            ELSE Append(f[n - 1], s[n])]

AfterRun(f, s) ==
    f = [n \in 0..Len(s) |-> IF n = 0 THEN <<>> ELSE RecoverStep(f[n - 1], s[n])]

\* Each recursion has one solution, so the functions it defines are the ones meant.
LEMMA RunsUnique ==
    ASSUME NEW S, NEW s \in Seq(S), NEW f, NEW g
    PROVE  /\ \A D : KeptRun(f, s, D) /\ KeptRun(g, s, D) => f = g
           /\ AfterRun(f, s) /\ AfterRun(g, s) => f = g
<1>0. Len(s) \in Nat
    OBVIOUS
<1> DEFINE E == {n \in Nat : n <= Len(s) => f[n] = g[n]}
<1>1. \A n \in Nat : n + 1 <= Len(s) => n \in 0..Len(s) /\ n + 1 \in 0..Len(s) /\ n + 1 # 0 /\ (n + 1) - 1 = n
    BY <1>0
<1>2. ASSUME NEW D, KeptRun(f, s, D), KeptRun(g, s, D)  PROVE f = g
  <2>1. 0 \in E
    BY <1>0, <1>2 DEF KeptRun
  <2>2. ASSUME NEW n \in Nat, n \in E  PROVE n + 1 \in E
    <3> SUFFICES ASSUME n + 1 <= Len(s)  PROVE f[n + 1] = g[n + 1]
      OBVIOUS
    <3>1. f[n] = g[n]
      BY <1>0, <2>2
    <3>2. /\ f[n + 1] = IF s[n + 1] \in D THEN f[n] ELSE Append(f[n], s[n + 1])
          /\ g[n + 1] = IF s[n + 1] \in D THEN g[n] ELSE Append(g[n], s[n + 1])
      BY <1>1, <1>2 DEF KeptRun
    <3> QED
      BY <3>1, <3>2
  <2> HIDE DEF E
  <2>3. Nat \subseteq E
    BY <2>1, <2>2, NaturalInduction
  <2>4. \A n \in 0..Len(s) : f[n] = g[n]
    BY <1>0, <2>3 DEF E
  <2> QED
    BY <1>2, <2>4 DEF KeptRun
<1>3. ASSUME AfterRun(f, s), AfterRun(g, s)  PROVE f = g
  <2>1. 0 \in E
    BY <1>0, <1>3 DEF AfterRun
  <2>2. ASSUME NEW n \in Nat, n \in E  PROVE n + 1 \in E
    <3> SUFFICES ASSUME n + 1 <= Len(s)  PROVE f[n + 1] = g[n + 1]
      OBVIOUS
    <3>1. f[n] = g[n]
      BY <1>0, <2>2
    <3>2. f[n + 1] = RecoverStep(f[n], s[n + 1]) /\ g[n + 1] = RecoverStep(g[n], s[n + 1])
      BY <1>1, <1>3 DEF AfterRun
    <3> QED
      BY <3>1, <3>2
  <2> HIDE DEF E
  <2>3. Nat \subseteq E
    BY <2>1, <2>2, NaturalInduction
  <2>4. \A n \in 0..Len(s) : f[n] = g[n]
    BY <1>0, <2>3 DEF E
  <2> QED
    BY <1>3, <2>4 DEF AfterRun
<1> QED
    BY <1>2, <1>3

\* A solution for a sequence extends to one for the sequence with one more element.
LEMMA RunExtended ==
    ASSUME NEW S, NEW s \in Seq(S), NEW x \in S, NEW f, NEW last, NEW g
    PROVE  g = [n \in 0..(Len(s) + 1) |-> IF n = Len(s) + 1 THEN last ELSE f[n]]
           => /\ \A D : KeptRun(f, s, D) /\ last = (IF x \in D THEN f[Len(s)] ELSE Append(f[Len(s)], x))
                        => KeptRun(g, Append(s, x), D)
              /\ AfterRun(f, s) /\ last = RecoverStep(f[Len(s)], x) => AfterRun(g, Append(s, x))
              /\ g[Len(Append(s, x))] = last
<1> DEFINE m == Len(s)
           t == Append(s, x)
<1>0. m \in Nat /\ Len(t) = m + 1 /\ t[m + 1] = x /\ \A i \in 1..m : t[i] = s[i]
    OBVIOUS
<1> HIDE DEF m, t
<1>2. \A n \in 0..Len(t) : n = 0 \/ n = m + 1 \/ n \in 1..m
    BY <1>0
<1>3. \A n \in 1..m : n \in 0..m /\ n - 1 \in 0..m /\ n # 0
    BY <1>0
<1>4. m + 1 # 0 /\ (m + 1) - 1 = m /\ m \in 0..m /\ 0 \in 0..m
    BY <1>0
<1>5. ASSUME g = [n \in 0..(m + 1) |-> IF n = m + 1 THEN last ELSE f[n]]
      PROVE  g = [n \in 0..Len(t) |-> g[n]] /\ g[m + 1] = last /\ \A n \in 0..m : g[n] = f[n]
    BY <1>0, <1>5
<1>6. ASSUME g = [n \in 0..Len(t) |-> g[n]], g[m + 1] = last, \A n \in 0..m : g[n] = f[n],
             NEW D, KeptRun(f, s, D), last = IF x \in D THEN f[m] ELSE Append(f[m], x)
      PROVE  KeptRun(g, t, D)
  <2>1. g[0] = <<>>
    BY <1>4, <1>6 DEF KeptRun, m
  <2>2. \A n \in 1..m : g[n] = IF t[n] \in D THEN g[n - 1] ELSE Append(g[n - 1], t[n])
    BY <1>0, <1>3, <1>6 DEF KeptRun, m
  <2>3. g[m + 1] = IF t[m + 1] \in D THEN g[m] ELSE Append(g[m], t[m + 1])
    BY <1>0, <1>4, <1>6
  <2>4. ASSUME NEW n \in 0..Len(t)
        PROVE  g[n] = IF n = 0 THEN <<>> ELSE IF t[n] \in D THEN g[n - 1] ELSE Append(g[n - 1], t[n])
    BY <1>2, <1>3, <1>4, <2>1, <2>2, <2>3
  <2> QED
    BY <1>6, <2>4 DEF KeptRun
<1>7. ASSUME g = [n \in 0..Len(t) |-> g[n]], g[m + 1] = last, \A n \in 0..m : g[n] = f[n],
             AfterRun(f, s), last = RecoverStep(f[m], x)
      PROVE  AfterRun(g, t)
  <2>1. g[0] = <<>>
    BY <1>4, <1>7 DEF AfterRun, m
  <2>2. \A n \in 1..m : g[n] = RecoverStep(g[n - 1], t[n])
    BY <1>0, <1>3, <1>7 DEF AfterRun, m
  <2>3. g[m + 1] = RecoverStep(g[m], t[m + 1])
    BY <1>0, <1>4, <1>7
  <2>4. ASSUME NEW n \in 0..Len(t)
        PROVE  g[n] = IF n = 0 THEN <<>> ELSE RecoverStep(g[n - 1], t[n])
    BY <1>2, <1>3, <1>4, <2>1, <2>2, <2>3
  <2> QED
    BY <1>7, <2>4 DEF AfterRun
<1> QED
    BY <1>0, <1>5, <1>6, <1>7 DEF m, t

\* The functions that Without and PendingIn define, and their last values.
LEMMA RunsEnd ==
    ASSUME NEW S, NEW s \in Seq(S), NEW f
    PROVE  /\ \A D : KeptRun(f, s, D) => Without(s, D) = f[Len(s)]
           /\ AfterRun(f, s) => PendingIn(s) = f[Len(s)]
<1>1. ASSUME NEW D, KeptRun(f, s, D)  PROVE Without(s, D) = f[Len(s)]
  <2>1. \A g : KeptRun(g, s, D) => g = f
    BY <1>1, RunsUnique
  <2> QED
    BY <1>1, <2>1, Zenon DEF Without, KeptRun
<1>2. ASSUME AfterRun(f, s)  PROVE PendingIn(s) = f[Len(s)]
  <2>1. \A g : AfterRun(g, s) => g = f
    BY <1>2, RunsUnique
  <2> QED
    BY <1>2, <2>1, Zenon DEF PendingIn, AfterRun
<1> QED
    BY <1>1, <1>2

\* Nothing is left of nothing.
LEMMA WithoutNone ==
    ASSUME NEW D
    PROVE  Without(<<>>, D) = <<>>
<1> DEFINE f == [n \in 0..0 |-> <<>>]
<1>1. KeptRun(f, <<>>, D)
    BY DEF KeptRun
<1>2. <<>> \in Seq({}) /\ Len(<<>>) = 0 /\ f[0] = <<>>
    OBVIOUS
<1> HIDE DEF f
<1> QED
    BY <1>1, <1>2, RunsEnd

\* Without drops what it is told to, element by element.
LEMMA WithoutAppend ==
    ASSUME NEW S, NEW D, NEW s \in Seq(S), NEW x \in S
    PROVE  Without(Append(s, x), D) = IF x \in D THEN Without(s, D) ELSE Append(Without(s, D), x)
<1> DEFINE T == {q \in Seq(S) : \E f : KeptRun(f, q, D)}
<1>1. <<>> \in T
  <2>1. KeptRun([n \in 0..0 |-> <<>>], <<>>, D)
    BY DEF KeptRun
  <2> QED
    BY <2>1
<1>2. ASSUME NEW q \in Seq(S), NEW y \in S, q \in T
      PROVE  /\ Append(q, y) \in T
             /\ Without(Append(q, y), D) = IF y \in D THEN Without(q, D) ELSE Append(Without(q, D), y)
  <2>1. PICK f : KeptRun(f, q, D)
    BY <1>2
  <2> DEFINE last == IF y \in D THEN f[Len(q)] ELSE Append(f[Len(q)], y)
             g == [n \in 0..(Len(q) + 1) |-> IF n = Len(q) + 1 THEN last ELSE f[n]]
  <2> HIDE DEF g, last
  <2>2. KeptRun(g, Append(q, y), D) /\ g[Len(Append(q, y))] = last
    <3>1. g = [n \in 0..(Len(q) + 1) |-> IF n = Len(q) + 1 THEN last ELSE f[n]]
      BY DEF g
    <3>2. last = IF y \in D THEN f[Len(q)] ELSE Append(f[Len(q)], y)
      BY DEF last
    <3>3. \A E : KeptRun(f, q, E) /\ last = (IF y \in E THEN f[Len(q)] ELSE Append(f[Len(q)], y))
                 => KeptRun(g, Append(q, y), E)
      BY <3>1, RunExtended, Zenon
    <3>4. g[Len(Append(q, y))] = last
      BY <3>1
    <3> QED
      BY <2>1, <3>2, <3>3, <3>4, Zenon
  <2>3. Append(q, y) \in Seq(S)
    OBVIOUS
  <2>4. Without(Append(q, y), D) = last /\ Without(q, D) = f[Len(q)]
    BY <2>1, <2>2, <2>3, RunsEnd
  <2> QED
    BY <2>2, <2>3, <2>4 DEF last
<1>3. Seq(S) \subseteq T
  <2>1. \A q \in Seq(S), y \in S : q \in T => Append(q, y) \in T
    BY <1>2
  <2> HIDE DEF T
  <2> QED
    BY <1>1, <2>1, AppendInduction
<1> QED
    BY <1>2, <1>3

\* No event leaves no queue.
LEMMA PendingNone == PendingIn(<<>>) = <<>>
<1> DEFINE f == [n \in 0..0 |-> <<>>]
<1>1. AfterRun(f, <<>>)
    BY DEF AfterRun
<1>2. <<>> \in Seq({}) /\ Len(<<>>) = 0 /\ f[0] = <<>>
    OBVIOUS
<1> HIDE DEF f
<1> QED
    BY <1>1, <1>2, RunsEnd

\* Every event changes the queue it leaves by one step of the recovery (pauseRecoveredQueue).
LEMMA PendingAppend ==
    ASSUME NEW S, NEW s \in Seq(S), NEW e \in S
    PROVE  PendingIn(Append(s, e)) = RecoverStep(PendingIn(s), e)
<1> DEFINE T == {q \in Seq(S) : \E f : AfterRun(f, q)}
<1>1. <<>> \in T
  <2>1. AfterRun([n \in 0..0 |-> <<>>], <<>>)
    BY DEF AfterRun
  <2> QED
    BY <2>1
<1>2. ASSUME NEW q \in Seq(S), NEW d \in S, q \in T
      PROVE  /\ Append(q, d) \in T
             /\ PendingIn(Append(q, d)) = RecoverStep(PendingIn(q), d)
  <2>1. PICK f : AfterRun(f, q)
    BY <1>2
  <2> DEFINE last == RecoverStep(f[Len(q)], d)
             g == [n \in 0..(Len(q) + 1) |-> IF n = Len(q) + 1 THEN last ELSE f[n]]
  <2>2. AfterRun(g, Append(q, d)) /\ g[Len(Append(q, d))] = last
    BY <2>1, RunExtended
  <2>3. Append(q, d) \in Seq(S)
    OBVIOUS
  <2> HIDE DEF g
  <2>4. PendingIn(Append(q, d)) = last /\ PendingIn(q) = f[Len(q)]
    BY <2>1, <2>2, <2>3, RunsEnd
  <2> QED
    BY <2>2, <2>3, <2>4
<1>3. Seq(S) \subseteq T
  <2>1. \A q \in Seq(S), d \in S : q \in T => Append(q, d) \in T
    BY <1>2
  <2> HIDE DEF T
  <2> QED
    BY <1>1, <2>1, AppendInduction
<1> QED
    BY <1>2, <1>3

-----------------------------------------------------------------------------
(* What is in a sequence, and what Without leaves of it. *)

\* An element more at the back.
LEMMA ElemsAppend ==
    ASSUME NEW S, NEW s \in Seq(S), NEW x \in S
    PROVE  /\ Append(s, x) \in Seq(S) /\ ToSet(Append(s, x)) = ToSet(s) \cup {x}
           /\ IsInjective(Append(s, x)) <=> IsInjective(s) /\ x \notin ToSet(s)
<1> DEFINE a == Append(s, x)
<1>1. /\ Len(s) \in Nat /\ a \in Seq(S) /\ Len(a) = Len(s) + 1 /\ a[Len(s) + 1] = x
      /\ \A n \in 1..Len(s) : a[n] = s[n]
    OBVIOUS
<1> HIDE DEF a
<1>2. ToSet(a) = ToSet(s) \cup {x}
  <2>1. \A n \in 1..Len(a) : n = Len(s) + 1 \/ n \in 1..Len(s)
    BY <1>1
  <2>2. Len(s) + 1 \in 1..Len(a) /\ \A n \in 1..Len(s) : n \in 1..Len(a)
    BY <1>1
  <2>3. \A y : y \in ToSet(a) <=> y \in ToSet(s) \/ y = x
    BY <1>1, <2>1, <2>2 DEF ToSet
  <2> QED
    BY <2>3
<1>3. IsInjective(a) <=> IsInjective(s) /\ x \notin ToSet(s)
    BY <1>1 DEF IsInjective, ToSet
<1> QED
    BY <1>1, <1>2, <1>3 DEF a

\* An element more at the front.
LEMMA ElemsFront ==
    ASSUME NEW S, NEW s \in Seq(S), NEW x \in S
    PROVE  /\ <<x>> \o s \in Seq(S) /\ ToSet(<<x>> \o s) = ToSet(s) \cup {x}
           /\ IsInjective(<<x>> \o s) <=> IsInjective(s) /\ x \notin ToSet(s)
<1> DEFINE f == <<x>> \o s
<1>1. /\ Len(s) \in Nat /\ f \in Seq(S) /\ Len(f) = Len(s) + 1 /\ f[1] = x
      /\ \A n \in 1..Len(s) : f[n + 1] = s[n]
      /\ DOMAIN f = 1..Len(f) /\ DOMAIN s = 1..Len(s)
    OBVIOUS
<1> HIDE DEF f
<1>2. \A n \in 1..Len(f) : n = 1 \/ (n - 1 \in 1..Len(s) /\ f[n] = s[n - 1])
    BY <1>1
<1>3. ToSet(f) = ToSet(s) \cup {x}
  <2>1. 1 \in 1..Len(f) /\ \A n \in 1..Len(s) : n + 1 \in 1..Len(f)
    BY <1>1
  <2>2. \A y \in ToSet(f) : y \in ToSet(s) \/ y = x
    BY <1>1, <1>2 DEF ToSet
  <2>3. x \in ToSet(f)
    BY <1>1, <2>1 DEF ToSet
  <2>4. ASSUME NEW n \in 1..Len(s)  PROVE s[n] \in ToSet(f)
    BY <1>1, <2>1 DEF ToSet
  <2>5. \A y \in ToSet(s) : y \in ToSet(f)
    BY <2>4 DEF ToSet
  <2> QED
    BY <2>2, <2>3, <2>5
<1>4. IsInjective(f) <=> IsInjective(s) /\ x \notin ToSet(s)
  <2>1. ASSUME IsInjective(f)  PROVE IsInjective(s) /\ x \notin ToSet(s)
    <3>0. \A n \in 1..Len(s) : n + 1 \in DOMAIN f
      BY <1>1
    <3>1. \A m, n \in 1..Len(s) : s[m] = s[n] => m + 1 = n + 1
      BY <1>1, <2>1, <3>0 DEF IsInjective
    <3>2. \A n \in 1..Len(s) : s[n] = x => n + 1 = 1
      BY <1>1, <2>1 DEF IsInjective
    <3> QED
      BY <1>1, <3>1, <3>2 DEF IsInjective, ToSet
  <2>2. ASSUME IsInjective(s), x \notin ToSet(s)  PROVE IsInjective(f)
    <3> SUFFICES ASSUME NEW m \in 1..Len(f), NEW n \in 1..Len(f), f[m] = f[n]  PROVE m = n
      BY DEF IsInjective
    <3>1. CASE m = 1 /\ n # 1
      BY <1>1, <1>2, <2>2, <3>1 DEF ToSet
    <3>2. CASE m # 1 /\ n = 1
      BY <1>1, <1>2, <2>2, <3>2 DEF ToSet
    <3>3. CASE m # 1 /\ n # 1
      BY <1>2, <2>2, <3>3 DEF IsInjective
    <3> QED
      BY <3>1, <3>2, <3>3
  <2> QED
    BY <2>1, <2>2
<1> QED
    BY <1>1, <1>3, <1>4 DEF f

\* A sequence is its head before its tail.
LEMMA ElemsTail ==
    ASSUME NEW S, NEW s \in Seq(S), s # <<>>
    PROVE  /\ Head(s) \in S /\ Tail(s) \in Seq(S) /\ s = <<Head(s)>> \o Tail(s)
           /\ ToSet(s) = ToSet(Tail(s)) \cup {Head(s)}
           /\ IsInjective(s) <=> IsInjective(Tail(s)) /\ Head(s) \notin ToSet(Tail(s))
<1> DEFINE h == Head(s)
           t == Tail(s)
<1>1. h \in S /\ t \in Seq(S) /\ s = <<h>> \o t
    OBVIOUS
<1> HIDE DEF h, t
<1>2. /\ ToSet(<<h>> \o t) = ToSet(t) \cup {h}
      /\ IsInjective(<<h>> \o t) <=> IsInjective(t) /\ h \notin ToSet(t)
    BY <1>1, ElemsFront
<1> QED
    BY <1>1, <1>2, Zenon DEF h, t

\* The empty sequence has no element, and only it.
LEMMA ElemsEmpty ==
    ASSUME NEW S, NEW s \in Seq(S)
    PROVE  /\ ToSet(<<>>) = {} /\ IsInjective(<<>>) /\ ToSet(s) \subseteq S
           /\ ToSet(s) = {} <=> s = <<>>
    BY DEF ToSet, IsInjective

\* What Without returns.
LEMMA WithoutElems ==
    ASSUME NEW S, NEW s \in Seq(S), NEW D
    PROVE  /\ Without(s, D) \in Seq(S)
           /\ ToSet(Without(s, D)) = ToSet(s) \ D
           /\ IsInjective(s) => IsInjective(Without(s, D))
           /\ ToSet(s) \cap D = {} => Without(s, D) = s
<1> DEFINE P(q) == /\ Without(q, D) \in Seq(S)
                   /\ ToSet(Without(q, D)) = ToSet(q) \ D
                   /\ IsInjective(q) => IsInjective(Without(q, D))
                   /\ ToSet(q) \cap D = {} => Without(q, D) = q
           T == {q \in Seq(S) : P(q)}
<1>1. <<>> \in T
  <2>1. Without(<<>>, D) = <<>> /\ <<>> \in Seq(S)
    BY WithoutNone
  <2>2. ToSet(<<>>) = {} /\ IsInjective(<<>>)
    BY DEF ToSet, IsInjective
  <2> QED
    BY <2>1, <2>2
<1>2. ASSUME NEW q \in Seq(S), NEW x \in S, q \in T  PROVE Append(q, x) \in T
  <2>1. P(q)
    BY <1>2
  <2>2. Without(Append(q, x), D) = IF x \in D THEN Without(q, D) ELSE Append(Without(q, D), x)
    BY WithoutAppend
  <2>3. /\ Append(q, x) \in Seq(S) /\ ToSet(Append(q, x)) = ToSet(q) \cup {x}
        /\ IsInjective(Append(q, x)) <=> IsInjective(q) /\ x \notin ToSet(q)
    BY ElemsAppend
  <2>4. CASE x \in D
    BY <2>1, <2>2, <2>3, <2>4
  <2>5. CASE x \notin D
    <3> DEFINE w == Without(q, D)
    <3>1. w \in Seq(S)
      BY <2>1
    <3> HIDE DEF w
    <3>2. /\ Append(w, x) \in Seq(S) /\ ToSet(Append(w, x)) = ToSet(w) \cup {x}
          /\ IsInjective(Append(w, x)) <=> IsInjective(w) /\ x \notin ToSet(w)
      BY <3>1, ElemsAppend
    <3> QED
      BY <2>1, <2>2, <2>3, <2>5, <3>2 DEF w
  <2> QED
    BY <2>4, <2>5
<1> HIDE DEF P
<1>3. Seq(S) \subseteq T
  <2>1. \A q \in Seq(S), x \in S : q \in T => Append(q, x) \in T
    BY <1>2
  <2> HIDE DEF T
  <2> QED
    BY <1>1, <2>1, AppendInduction
<1>4. P(s)
    BY <1>3
<1> QED
    BY <1>4 DEF P

\* Nothing is left when everything is dropped.
LEMMA WithoutAll ==
    ASSUME NEW S, NEW s \in Seq(S), NEW D, ToSet(s) \subseteq D
    PROVE  Without(s, D) = <<>>
<1> DEFINE w == Without(s, D)
<1>1. w \in Seq(S) /\ ToSet(w) = {}
    BY WithoutElems
<1> HIDE DEF w
<1>2. w = <<>>
    BY <1>1, ElemsEmpty
<1> QED
    BY <1>2 DEF w

\* An element at the front is dropped or stays at the front.
LEMMA WithoutFront ==
    ASSUME NEW S, NEW s \in Seq(S), NEW x \in S, NEW D
    PROVE  Without(<<x>> \o s, D) = IF x \in D THEN Without(s, D) ELSE <<x>> \o Without(s, D)
<1> DEFINE P(q) == Without(<<x>> \o q, D) = IF x \in D THEN Without(q, D) ELSE <<x>> \o Without(q, D)
           T == {q \in Seq(S) : P(q)}
<1>1. <<>> \in T
  <2>1. <<x>> \o <<>> = Append(<<>>, x) /\ <<>> \in Seq(S)
    OBVIOUS
  <2>2. \A e \in Seq(S) : Without(Append(e, x), D) = IF x \in D THEN Without(e, D) ELSE Append(Without(e, D), x)
    BY WithoutAppend
  <2>3. Without(Append(<<>>, x), D) = IF x \in D THEN Without(<<>>, D) ELSE Append(Without(<<>>, D), x)
    BY <2>1, <2>2, Zenon
  <2> QED
    BY <2>1, <2>3, WithoutNone
<1>2. ASSUME NEW q \in Seq(S), NEW y \in S, q \in T  PROVE Append(q, y) \in T
  <2>1. <<x>> \o Append(q, y) = Append(<<x>> \o q, y) /\ <<x>> \o q \in Seq(S) /\ Append(q, y) \in Seq(S)
    OBVIOUS
  <2> DEFINE w == Without(q, D)
             f == <<x>> \o q
  <2>2. Without(f, D) = IF x \in D THEN w ELSE <<x>> \o w
    BY <1>2
  <2>3. w \in Seq(S)
    BY WithoutElems
  <2>4. Without(Append(q, y), D) = IF y \in D THEN w ELSE Append(w, y)
    BY WithoutAppend
  <2> HIDE DEF w, f
  <2>5. Without(Append(f, y), D) = IF y \in D THEN Without(f, D) ELSE Append(Without(f, D), y)
    <3>1. f \in Seq(S)
      BY <2>1 DEF f
    <3> QED
      BY <3>1, WithoutAppend
  <2>6. Append(<<x>> \o w, y) = <<x>> \o Append(w, y)
    BY <2>3
  <2>7. Without(<<x>> \o Append(q, y), D) = Without(Append(f, y), D)
    BY <2>1 DEF f
  <2>8. P(Append(q, y))
    BY <2>2, <2>4, <2>5, <2>6, <2>7
  <2> HIDE DEF P
  <2> QED
    BY <2>1, <2>8
<1> HIDE DEF P
<1>3. Seq(S) \subseteq T
  <2>1. \A q \in Seq(S), y \in S : q \in T => Append(q, y) \in T
    BY <1>2
  <2> HIDE DEF T
  <2> QED
    BY <1>1, <2>1, AppendInduction
<1>4. P(s)
    BY <1>3
<1> QED
    BY <1>4 DEF P

\* Dropping twice is dropping both.
LEMMA WithoutTwice ==
    ASSUME NEW S, NEW s \in Seq(S), NEW D, NEW E
    PROVE  Without(Without(s, D), E) = Without(s, D \cup E)
<1> DEFINE P(q) == Without(Without(q, D), E) = Without(q, D \cup E)
           T == {q \in Seq(S) : P(q)}
<1>1. <<>> \in T
    BY WithoutNone
<1>2. ASSUME NEW q \in Seq(S), NEW x \in S, q \in T  PROVE Append(q, x) \in T
  <2>1. P(q) /\ Append(q, x) \in Seq(S)
    BY <1>2
  <2> DEFINE w == Without(q, D)
  <2>2. w \in Seq(S)
    BY WithoutElems
  <2>3. Without(Append(q, x), D) = IF x \in D THEN w ELSE Append(w, x)
    BY WithoutAppend
  <2>4. Without(Append(q, x), D \cup E) = IF x \in D \cup E THEN Without(q, D \cup E)
                                          ELSE Append(Without(q, D \cup E), x)
    BY WithoutAppend
  <2>5. Without(w, E) = Without(q, D \cup E)
    BY <2>1
  <2> HIDE DEF w
  <2>6. Without(Append(w, x), E) = IF x \in E THEN Without(w, E) ELSE Append(Without(w, E), x)
    BY <2>2, WithoutAppend
  <2>7. P(Append(q, x))
    BY <2>3, <2>4, <2>5, <2>6
  <2> HIDE DEF P
  <2> QED
    BY <2>1, <2>7
<1> HIDE DEF P
<1>3. Seq(S) \subseteq T
  <2>1. \A q \in Seq(S), x \in S : q \in T => Append(q, x) \in T
    BY <1>2
  <2> HIDE DEF T
  <2> QED
    BY <1>1, <2>1, AppendInduction
<1>4. P(s)
    BY <1>3
<1> QED
    BY <1>4 DEF P

-----------------------------------------------------------------------------
(* What the log says of a queue item.  Lifecycle events name the item. *)

Lifecycle == {"enqueued", "requeued", "started", "paused"}
QueueEvents == {e \in Events(QueueTypes) : e.type \in Lifecycle => e.item \in Items}
Names(e, types, i) == e.type \in types /\ e.item = i

Recorded(s, i) == \E n \in 1..Len(s) : Names(s[n], {"enqueued"}, i)
Started(s, i) == \E n \in 1..Len(s) : Names(s[n], {"started"}, i)

\* Its last change but for a restore is being queued, or being paused.
Waits(s, i) ==
    \E m \in 1..Len(s) :
        /\ Names(s[m], {"enqueued", "requeued"}, i)
        /\ \A k \in (m + 1)..Len(s) : ~Names(s[k], {"paused", "started"}, i)
IsPaused(s, i) ==
    \E n \in 1..Len(s) :
        /\ Names(s[n], {"paused"}, i)
        /\ \A m \in (n + 1)..Len(s) : ~Names(s[m], {"requeued", "started"}, i)

\* An item waits, and no restore has handed it back since.
Queued(s, i) ==
    \E m \in 1..Len(s) :
        /\ Names(s[m], {"enqueued", "requeued"}, i)
        /\ \A k \in (m + 1)..Len(s) :
              /\ ~Names(s[k], {"paused", "started"}, i)
              /\ ~(s[k].type = "restored" /\ i \in s[k].items)

\* A log that the daemon can have written: an item is enqueued first and once, it starts
\* while it waits, and a start is the last thing that happens to it.
WellFormed(s) ==
    /\ s \in Seq(QueueEvents)
    /\ \A m \in 1..Len(s) : s[m].type = "started" =>
          \A n \in (m + 1)..Len(s) : ~Names(s[n], Lifecycle, s[m].item)
    /\ \A n \in 1..Len(s) : s[n].type = "enqueued" =>
          \A m \in 1..(n - 1) : ~Names(s[m], Lifecycle, s[n].item)
    /\ \A n \in 1..Len(s) : s[n].type \in Lifecycle => Recorded(s, s[n].item)
    /\ \A n \in 1..Len(s) : s[n].type = "started" =>
          \E m \in 1..(n - 1) :
              /\ Names(s[m], {"enqueued", "requeued"}, s[n].item)
              /\ \A k \in (m + 1)..(n - 1) : ~Names(s[k], {"paused", "started"}, s[n].item)

\* The event that a well-formed log can go on with.
Continues(s, e) ==
    /\ e \in QueueEvents
    /\ e.type = "enqueued" => ~Recorded(s, e.item)
    /\ e.type \in {"requeued", "started", "paused"} => Recorded(s, e.item) /\ ~Started(s, e.item)
    /\ e.type = "started" => Waits(s, e.item)

\* What one more event says of an item.
LEMMA LogGrows ==
    ASSUME NEW s \in Seq(QueueEvents), NEW e \in QueueEvents, NEW i
    PROVE  /\ Recorded(Append(s, e), i) <=> Recorded(s, i) \/ Names(e, {"enqueued"}, i)
           /\ Started(Append(s, e), i) <=> Started(s, i) \/ Names(e, {"started"}, i)
           /\ Waits(Append(s, e), i) <=> \/ Names(e, {"enqueued", "requeued"}, i)
                                         \/ Waits(s, i) /\ ~Names(e, {"paused", "started"}, i)
           /\ IsPaused(Append(s, e), i) <=> \/ Names(e, {"paused"}, i)
                                            \/ IsPaused(s, i) /\ ~Names(e, {"requeued", "started"}, i)
           /\ \/ Names(e, {"enqueued", "requeued"}, i)
              \/ /\ Queued(s, i)
                 /\ ~Names(e, {"paused", "started"}, i)
                 /\ ~(e.type = "restored" /\ i \in e.items)
              => Queued(Append(s, e), i)
<1> DEFINE t == Append(s, e)
           N == Len(s)
<1>1. N \in Nat /\ Len(t) = N + 1 /\ t[N + 1] = e /\ \A n \in 1..N : t[n] = s[n]
    OBVIOUS
<1> HIDE DEF t, N
<1>2. /\ \A n \in 1..(N + 1) : n \in 1..N \/ n = N + 1
      /\ \A n \in 1..N : n \in 1..(N + 1)
      /\ N + 1 \in 1..(N + 1)
      /\ \A m \in 1..N : /\ \A k \in (m + 1)..(N + 1) : k \in (m + 1)..N \/ k = N + 1
                         /\ \A k \in (m + 1)..N : k \in 1..N /\ k \in (m + 1)..(N + 1)
                         /\ N + 1 \in (m + 1)..(N + 1)
      /\ \A k : k \notin (N + 2)..(N + 1)
    BY <1>1
<1>3. Recorded(t, i) <=> Recorded(s, i) \/ Names(e, {"enqueued"}, i)
    BY <1>1, <1>2 DEF Recorded, N
<1>4. Started(t, i) <=> Started(s, i) \/ Names(e, {"started"}, i)
    BY <1>1, <1>2 DEF Started, N
<1>5. ~(Names(e, {"enqueued", "requeued"}, i) /\ Names(e, {"paused", "started"}, i))
    BY DEF Names
<1>6. ~(Names(e, {"paused"}, i) /\ Names(e, {"requeued", "started"}, i))
    BY DEF Names
<1>7. Waits(t, i) <=> \/ Names(e, {"enqueued", "requeued"}, i)
                      \/ Waits(s, i) /\ ~Names(e, {"paused", "started"}, i)
  <2>1. ASSUME NEW m \in 1..N
        PROVE  (\A k \in (m + 1)..(N + 1) : ~Names(t[k], {"paused", "started"}, i))
               <=> /\ \A k \in (m + 1)..N : ~Names(s[k], {"paused", "started"}, i)
                   /\ ~Names(e, {"paused", "started"}, i)
    BY <1>1, <1>2
  <2> QED
    BY <1>1, <1>2, <2>1 DEF Waits, N
<1>8. IsPaused(t, i) <=> \/ Names(e, {"paused"}, i)
                         \/ IsPaused(s, i) /\ ~Names(e, {"requeued", "started"}, i)
  <2>1. ASSUME NEW m \in 1..N
        PROVE  (\A k \in (m + 1)..(N + 1) : ~Names(t[k], {"requeued", "started"}, i))
               <=> /\ \A k \in (m + 1)..N : ~Names(s[k], {"requeued", "started"}, i)
                   /\ ~Names(e, {"requeued", "started"}, i)
    BY <1>1, <1>2
  <2> QED
    BY <1>1, <1>2, <2>1 DEF IsPaused, N
<1>9. ASSUME \/ Names(e, {"enqueued", "requeued"}, i)
             \/ /\ Queued(s, i)
                /\ ~Names(e, {"paused", "started"}, i)
                /\ ~(e.type = "restored" /\ i \in e.items)
      PROVE  Queued(t, i)
  <2>1. CASE Names(e, {"enqueued", "requeued"}, i)
    BY <1>1, <1>2, <2>1 DEF Queued
  <2>2. CASE /\ Queued(s, i)
             /\ ~Names(e, {"paused", "started"}, i)
             /\ ~(e.type = "restored" /\ i \in e.items)
    <3>1. PICK m \in 1..N :
             /\ Names(s[m], {"enqueued", "requeued"}, i)
             /\ \A k \in (m + 1)..N :
                   /\ ~Names(s[k], {"paused", "started"}, i)
                   /\ ~(s[k].type = "restored" /\ i \in s[k].items)
      BY <2>2 DEF Queued, N
    <3>2. m \in 1..Len(t) /\ Names(t[m], {"enqueued", "requeued"}, i)
      BY <1>1, <1>2, <3>1
    <3>3. \A k \in (m + 1)..Len(t) :
             /\ ~Names(t[k], {"paused", "started"}, i)
             /\ ~(t[k].type = "restored" /\ i \in t[k].items)
      BY <1>1, <1>2, <2>2, <3>1
    <3> QED
      BY <3>2, <3>3 DEF Queued
  <2> QED
    BY <1>9, <2>1, <2>2
<1> QED
    BY <1>3, <1>4, <1>7, <1>8, <1>9 DEF t

\* In a well-formed log an item that waits has not started, and one that is paused neither
\* waits nor has started.
LEMMA LogSays ==
    ASSUME NEW s, WellFormed(s), NEW i
    PROVE  /\ Waits(s, i) => Recorded(s, i) /\ ~Started(s, i)
           /\ IsPaused(s, i) => Recorded(s, i) /\ ~Started(s, i) /\ ~Waits(s, i)
           /\ Started(s, i) => Recorded(s, i)
           /\ Queued(s, i) => Waits(s, i)
<1>0. Len(s) \in Nat
    BY DEF WellFormed
<1>1. \A m, n \in 1..Len(s) : m = n \/ n \in (m + 1)..Len(s) \/ m \in (n + 1)..Len(s)
    BY <1>0
<1>2. \A m, n \in 1..Len(s) : n \in (m + 1)..Len(s) => m \in 1..(n - 1)
    BY <1>0
<1>3. \A m, n \in 1..Len(s) : s[m].type = "started" /\ n \in (m + 1)..Len(s)
                              => ~Names(s[n], Lifecycle, s[m].item)
    BY DEF WellFormed
<1>4. \A m, n \in 1..Len(s) : s[n].type = "enqueued" /\ n \in (m + 1)..Len(s)
                              => ~Names(s[m], Lifecycle, s[n].item)
    BY <1>2 DEF WellFormed
<1>5. \A n \in 1..Len(s) : s[n].type \in Lifecycle => Recorded(s, s[n].item)
    BY DEF WellFormed
<1>6. Started(s, i) => Recorded(s, i)
    BY <1>5 DEF Started, Names, Lifecycle
<1>7. ASSUME NEW m \in 1..Len(s), Names(s[m], {"enqueued", "requeued"}, i),
             \A k \in (m + 1)..Len(s) : ~Names(s[k], {"paused", "started"}, i)
      PROVE  Recorded(s, i) /\ ~Started(s, i) /\ ~IsPaused(s, i)
  <2>1. Recorded(s, i)
    BY <1>5, <1>7 DEF Names, Lifecycle
  <2>2. ASSUME NEW n \in 1..Len(s), Names(s[n], {"started"}, i)  PROVE FALSE
    <3>1. m # n
      BY <1>7, <2>2 DEF Names
    <3>2. CASE n \in (m + 1)..Len(s)
      BY <1>7, <2>2, <3>2 DEF Names
    <3>3. CASE m \in (n + 1)..Len(s)
      BY <1>3, <1>7, <2>2, <3>3 DEF Names, Lifecycle
    <3> QED
      BY <1>1, <3>1, <3>2, <3>3
  <2>3. ASSUME NEW n \in 1..Len(s), Names(s[n], {"paused"}, i),
               \A k \in (n + 1)..Len(s) : ~Names(s[k], {"requeued", "started"}, i)
        PROVE  FALSE
    <3>1. m # n
      BY <1>7, <2>3 DEF Names
    <3>2. CASE n \in (m + 1)..Len(s)
      BY <1>7, <2>3, <3>2 DEF Names
    <3>3. CASE m \in (n + 1)..Len(s)
      BY <1>4, <1>7, <2>3, <3>3 DEF Names, Lifecycle
    <3> QED
      BY <1>1, <3>1, <3>2, <3>3
  <2> QED
    BY <2>1, <2>2, <2>3 DEF Started, IsPaused
<1>8. ASSUME NEW n \in 1..Len(s), Names(s[n], {"paused"}, i),
             \A k \in (n + 1)..Len(s) : ~Names(s[k], {"requeued", "started"}, i)
      PROVE  Recorded(s, i) /\ ~Started(s, i)
  <2>1. Recorded(s, i)
    BY <1>5, <1>8 DEF Names, Lifecycle
  <2>2. ASSUME NEW m \in 1..Len(s), Names(s[m], {"started"}, i)  PROVE FALSE
    <3>1. m # n
      BY <1>8, <2>2 DEF Names
    <3>2. CASE m \in (n + 1)..Len(s)
      BY <1>8, <2>2, <3>2 DEF Names
    <3>3. CASE n \in (m + 1)..Len(s)
      BY <1>3, <1>8, <2>2, <3>3 DEF Names, Lifecycle
    <3> QED
      BY <1>1, <3>1, <3>2, <3>3
  <2> QED
    BY <2>1, <2>2 DEF Started
<1>9. Waits(s, i) => Recorded(s, i) /\ ~Started(s, i) /\ ~IsPaused(s, i)
    BY <1>7 DEF Waits
<1>10. IsPaused(s, i) => Recorded(s, i) /\ ~Started(s, i)
    BY <1>8 DEF IsPaused
<1>11. Queued(s, i) => Waits(s, i)
    BY DEF Queued, Waits
<1> QED
    BY <1>6, <1>9, <1>10, <1>11

\* A well-formed log stays so.
LEMMA LogContinues ==
    ASSUME NEW s, WellFormed(s), NEW e, Continues(s, e)
    PROVE  WellFormed(Append(s, e))
<1> DEFINE t == Append(s, e)
           N == Len(s)
<1>0. s \in Seq(QueueEvents) /\ e \in QueueEvents
    BY DEF WellFormed, Continues
<1>1. /\ N \in Nat /\ t \in Seq(QueueEvents) /\ Len(t) = N + 1 /\ t[N + 1] = e
      /\ \A n \in 1..N : t[n] = s[n]
    BY <1>0
<1>2. \A i : Recorded(s, i) => Recorded(t, i)
    BY <1>0, LogGrows
<1>3. Recorded(t, e.item) \/ e.type # "enqueued"
    BY <1>0, LogGrows DEF Names
<1> HIDE DEF t, N
<1>4. \A n \in 1..(N + 1) : n \in 1..N \/ n = N + 1
    BY <1>1
<1>5. \A n \in 1..N : s[n].type \in Lifecycle => Recorded(s, s[n].item)
    BY DEF WellFormed, N
<1>6. ASSUME NEW m \in 1..Len(t), t[m].type = "started", NEW n \in (m + 1)..Len(t)
      PROVE  ~Names(t[n], Lifecycle, t[m].item)
  <2>1. m \in 1..N /\ t[m] = s[m]
    BY <1>1, <1>4
  <2>2. CASE n \in 1..N
    <3>1. n \in (m + 1)..N
      BY <1>1, <2>2
    <3> QED
      BY <1>1, <1>6, <2>1, <2>2, <3>1 DEF WellFormed, N
  <2>3. CASE n = N + 1
    <3>1. Started(s, s[m].item) /\ Recorded(s, s[m].item)
      BY <1>5, <1>6, <2>1 DEF Started, Names, N, Lifecycle
    <3> QED
      BY <1>1, <2>1, <2>3, <3>1 DEF Continues, Names, Lifecycle
  <2> QED
    BY <1>1, <1>4, <2>2, <2>3
<1>7. ASSUME NEW n \in 1..Len(t), t[n].type = "enqueued", NEW m \in 1..(n - 1)
      PROVE  ~Names(t[m], Lifecycle, t[n].item)
  <2>1. m \in 1..N /\ t[m] = s[m]
    BY <1>1, <1>4
  <2>2. CASE n \in 1..N
    BY <1>1, <1>7, <2>1, <2>2 DEF WellFormed, N
  <2>3. CASE n = N + 1
    BY <1>1, <1>5, <1>7, <2>1, <2>3 DEF Continues, Names
  <2> QED
    BY <1>1, <1>4, <2>2, <2>3
<1>8. ASSUME NEW n \in 1..Len(t), t[n].type \in Lifecycle
      PROVE  Recorded(t, t[n].item)
  <2>1. CASE n \in 1..N
    BY <1>1, <1>2, <1>5, <1>8, <2>1
  <2>2. CASE n = N + 1
    BY <1>1, <1>2, <1>3, <1>8, <2>2 DEF Continues, Lifecycle
  <2> QED
    BY <1>1, <1>4, <2>1, <2>2
<1>9. ASSUME NEW n \in 1..Len(t), t[n].type = "started"
      PROVE  \E m \in 1..(n - 1) :
                /\ Names(t[m], {"enqueued", "requeued"}, t[n].item)
                /\ \A k \in (m + 1)..(n - 1) : ~Names(t[k], {"paused", "started"}, t[n].item)
  <2>1. CASE n \in 1..N
    <3>1. PICK m \in 1..(n - 1) :
             /\ Names(s[m], {"enqueued", "requeued"}, s[n].item)
             /\ \A k \in (m + 1)..(n - 1) : ~Names(s[k], {"paused", "started"}, s[n].item)
      BY <1>1, <1>9, <2>1 DEF WellFormed, N
    <3>2. m \in 1..N /\ \A k \in (m + 1)..(n - 1) : k \in 1..N
      BY <1>1, <2>1
    <3>3. /\ Names(t[m], {"enqueued", "requeued"}, t[n].item)
          /\ \A k \in (m + 1)..(n - 1) : ~Names(t[k], {"paused", "started"}, t[n].item)
      BY <1>1, <2>1, <3>1, <3>2
    <3> QED
      BY <3>3
  <2>2. CASE n = N + 1
    <3>1. Waits(s, e.item) /\ t[n] = e /\ n - 1 = N
      BY <1>1, <1>9, <2>2 DEF Continues
    <3>2. PICK m \in 1..N :
             /\ Names(s[m], {"enqueued", "requeued"}, e.item)
             /\ \A k \in (m + 1)..N : ~Names(s[k], {"paused", "started"}, e.item)
      BY <3>1 DEF Waits, N
    <3>3. \A k \in (m + 1)..N : k \in 1..N
      BY <1>1
    <3>4. /\ Names(t[m], {"enqueued", "requeued"}, t[n].item)
          /\ \A k \in (m + 1)..(n - 1) : ~Names(t[k], {"paused", "started"}, t[n].item)
      BY <1>1, <3>1, <3>2, <3>3
    <3> QED
      BY <3>1, <3>4
  <2> QED
    BY <1>1, <1>4, <2>1, <2>2
<1>10. WellFormed(t)
    BY <1>1, <1>6, <1>7, <1>8, <1>9 DEF WellFormed
<1> QED
    BY <1>10 DEF t

\* The queue that the events leave (pauseRecoveredQueue): its items are queued, each once.
LEMMA PendingQueued ==
    ASSUME NEW s \in Seq(QueueEvents)
    PROVE  /\ PendingIn(s) \in Seq(Items)
           /\ IsInjective(PendingIn(s))
           /\ \A i \in ToSet(PendingIn(s)) : Queued(s, i)
<1> DEFINE P(q) == /\ PendingIn(q) \in Seq(Items)
                   /\ IsInjective(PendingIn(q))
                   /\ \A i \in ToSet(PendingIn(q)) : Queued(q, i)
           T == {q \in Seq(QueueEvents) : P(q)}
<1>1. <<>> \in T
  <2>1. PendingIn(<<>>) = <<>> /\ <<>> \in Seq(QueueEvents) /\ <<>> \in Seq(Items)
    BY PendingNone
  <2>2. ToSet(<<>>) = {} /\ IsInjective(<<>>)
    BY DEF ToSet, IsInjective
  <2> QED
    BY <2>1, <2>2
<1>2. ASSUME NEW q \in Seq(QueueEvents), NEW e \in QueueEvents, q \in T  PROVE Append(q, e) \in T
  <2> DEFINE p == PendingIn(q)
             r == PendingIn(Append(q, e))
  <2>1. p \in Seq(Items) /\ IsInjective(p) /\ \A i \in ToSet(p) : Queued(q, i)
    BY <1>2
  <2>2. r = RecoverStep(p, e)
    BY PendingAppend
  <2>3. Append(q, e) \in Seq(QueueEvents)
    OBVIOUS
  <2> HIDE DEF p
  <2>4. \A D : /\ Without(p, D) \in Seq(Items) /\ IsInjective(Without(p, D))
               /\ ToSet(Without(p, D)) = ToSet(p) \ D
    BY <2>1, WithoutElems
  <2>5. \A i : Queued(q, i) /\ ~Names(e, {"paused", "started"}, i) /\ ~(e.type = "restored" /\ i \in e.items)
               => Queued(Append(q, e), i)
    BY LogGrows
  <2>6. \A i : Names(e, {"enqueued", "requeued"}, i) => Queued(Append(q, e), i)
    BY LogGrows
  <2>7. CASE e.type \in {"enqueued", "requeued"}
    <3> DEFINE w == Without(p, {e.item})
    <3>1. e.item \in Items
      BY <2>7 DEF QueueEvents, Lifecycle
    <3>2. r = Insert(p, e.item, e.front)
      BY <2>2, <2>7 DEF RecoverStep
    <3>3. r = <<e.item>> \o w \/ r = Append(w, e.item)
      BY <3>2 DEF Insert
    <3>4. w \in Seq(Items) /\ IsInjective(w) /\ ToSet(w) = ToSet(p) \ {e.item}
      BY <2>4
    <3> HIDE DEF w, r
    <3>5. r \in Seq(Items) /\ ToSet(r) = ToSet(w) \cup {e.item} /\ IsInjective(r)
      <4>1. CASE r = <<e.item>> \o w
        BY <3>1, <3>4, <4>1, ElemsFront
      <4>2. CASE r = Append(w, e.item)
        BY <3>1, <3>4, <4>2, ElemsAppend
      <4> QED
        BY <3>3, <4>1, <4>2
    <3>6. \A i \in ToSet(r) : Queued(Append(q, e), i)
      BY <2>1, <2>5, <2>6, <2>7, <3>4, <3>5 DEF Names
    <3> QED
      BY <2>3, <3>5, <3>6 DEF r
  <2>8. CASE e.type \in {"started", "paused"}
    <3>1. r = Without(p, {e.item})
      BY <2>2, <2>8 DEF RecoverStep
    <3> HIDE DEF r
    <3>2. \A i \in ToSet(r) : Queued(Append(q, e), i)
      BY <2>1, <2>4, <2>5, <2>8, <3>1 DEF Names
    <3> QED
      BY <2>3, <2>4, <3>1, <3>2 DEF r
  <2>9. CASE e.type = "restored"
    <3>1. r = Without(p, e.items)
      BY <2>2, <2>9 DEF RecoverStep
    <3> HIDE DEF r
    <3>2. \A i \in ToSet(r) : Queued(Append(q, e), i)
      BY <2>1, <2>4, <2>5, <2>9, <3>1 DEF Names
    <3> QED
      BY <2>3, <2>4, <3>1, <3>2 DEF r
  <2> QED
    BY <2>7, <2>8, <2>9 DEF QueueEvents, Events, QueueTypes
<1> HIDE DEF P
<1>3. Seq(QueueEvents) \subseteq T
  <2>1. \A q \in Seq(QueueEvents), e \in QueueEvents : q \in T => Append(q, e) \in T
    BY <1>2
  <2> HIDE DEF T
  <2> QED
    BY <1>1, <2>1, AppendInduction
<1>4. P(s)
    BY <1>3
<1> QED
    BY <1>4 DEF P

-----------------------------------------------------------------------------
(* The inductive invariant, one part for each mechanism. *)

Working == {"intercepting", "messaging", "working", "ending"}
Claimed == {"claiming"} \cup Working
BeforeClaim == {"reserved", "requesting", "interrupting", "closing", "waiting", "claiming"}
Delivering == BeforeClaim \cup Working \cup {"delivering", "failing"}
Over == {"done", "failed", "lost"}

\* Where an operation of each kind can be, and the flags that name the one inside.
MayBeAt(o, stage) ==
    /\ o \in Prompts     => stage \in {"idle"} \cup Over \cup Claimed
    /\ o \in Items       => stage \in {"idle", "recording", "queued"} \cup Over \cup Claimed
    /\ o \in Deliveries  => stage \in {"idle"} \cup Over \cup Delivering
    /\ o \in Compactions => stage \in {"idle", "recording", "queued", "working", "ending"} \cup Over
    /\ o \in Shells      => stage \in {"idle", "claiming", "working", "ending"} \cup Over
    /\ o \in Reloads     => stage \in {"idle", "deciding", "rebuilding", "queued"} \cup Over
    /\ o \in Restores \cup Requeues => stage \in {"idle", "recording"} \cup Over
    /\ o \in Interrupts  => stage \in {"idle", "targeted"} \cup Over

StageInv ==
    /\ \A o \in Ops : MayBeAt(o, pc[o])
    /\ \A o \in Items \cup Restores \cup Requeues : pc[o] = "recording" <=> mutation = o
    /\ \A d \in Deliveries : pc[d] \in Delivering <=> interruptDelivery = d
    /\ rebuilding # None => pc[rebuilding] = "rebuilding"

\* Only the owner of the branch is inside an operation.
OwnerInv ==
    /\ OneOwner
    /\ activeTurn # None => pc[activeTurn.op] \in Working

\* What the drain is at.
Placed ==
    /\ \A i \in Items : pc[i] \in Claimed => drain = At("sending", i)
    /\ drain.at = "starting"   => drain.op \in Items /\ pc[drain.op] = "queued"
    /\ drain.at = "sending"    => drain.op \in Items /\ pc[drain.op] \in Claimed
    /\ drain.at = "compacting" => drain.op \in Compactions /\ pc[drain.op] \in {"working", "ending"}
    /\ drain.at = "reloading"  => drain.op \in Reloads /\ pc[drain.op] = "rebuilding"
    /\ drain.at = "failing"    => pc[drain.op] = "failed"

\* What else waits for the drain.
Listed ==
    /\ \A c \in ToSet(compactions) : pc[c] = "queued"
    /\ IsInjective(compactions)
    /\ \A r \in ToSet(reloads) : pc[r] = "queued"
    /\ IsInjective(reloads)

DrainInv == Placed /\ Listed

\* Nothing runs while there is no daemon.
DownInv ==
    phase = "down" =>
        /\ appends = <<>> /\ queue = <<>> /\ compactions = <<>> /\ reloads = <<>>
        /\ activeTurn = None /\ rebuilding = None /\ interruptDelivery = None
        /\ mutation = None /\ drain = Idle /\ pausing = <<>> /\ ~disposing /\ ~stopping
        /\ \A o \in Ops : pc[o] \in {"idle"} \cup Over

\* What the producer of an append in flight waits for.
Awaits(by, e) ==
    \/ /\ by \in Items
       /\ pc[by] = "recording"
       /\ \E front \in BOOLEAN : e = QueueEvent("enqueued", by, by, front)
    \/ /\ by \in Requeues
       /\ pc[by] = "recording"
       /\ \E i \in Items, front \in BOOLEAN : e = QueueEvent("requeued", by, i, front)
    \/ /\ by \in Restores
       /\ pc[by] = "recording"
       /\ \E items \in SUBSET Items : e = RestoredEvent(by, items)
    \/ by \in Turns /\ pc[by] = "messaging" /\ e = Event("message", by)
    \/ /\ by \in Turns \cup Shells \cup Compactions
       /\ pc[by] = "ending"
       /\ \E type \in TerminalOf(by) : e = Event(type, by)
    \/ by \in Compactions /\ pc[by] = "recording" /\ e = Event("compaction.queued", by)
    \/ /\ by \in Deliveries
       /\ \/ pc[by] = "requesting" /\ e = Event("requested", by)
          \/ pc[by] = "interrupting" /\ e = Event("interrupting", by)
          \/ pc[by] = "closing" /\ e = Event("assistant", target[by])
          \/ pc[by] = "delivering" /\ e = Event("delivered", by)
          \/ pc[by] = "failing" /\ e = Event("undelivered", by)
    \/ /\ by = "drain"
       /\ \/ drain.at = "starting" /\ e = QueueEvent("started", drain.op, drain.op, FALSE)
          \/ /\ drain.at = "failing"
             /\ e = Event(IF drain.op \in Compactions THEN "compaction.failed" ELSE "error", drain.op)
    \/ /\ by = "resume"
       /\ pausing # <<>>
       /\ e = QueueEvent("paused", Head(pausing), Head(pausing), FALSE)

\* Every append in flight has its producer waiting for it, for that one alone.
FlightInv ==
    /\ \A a \in ToSet(appends) : Awaits(a.by, a.event)
    /\ \A m, n \in 1..Len(appends) : appends[m].by = appends[n].by => m = n

Starting == IF drain.at = "starting" THEN {drain.op} ELSE {}
Held == ToSet(queue) \cup ToSet(pausing) \cup Starting

\* The items in memory are items that the log says wait, each in one place.
QueueInv ==
    /\ WellFormed(log)
    /\ \A i \in Items : pc[i] \in {"idle", "recording"} => ~Recorded(log, i)
    /\ \A i \in Held : Waits(log, i)
    /\ IsInjective(queue)
    /\ IsInjective(pausing)
    /\ ToSet(queue) \cap ToSet(pausing) = {}
    /\ Starting \cap (ToSet(queue) \cup ToSet(pausing)) = {}
    /\ \A i \in ToSet(queue) : pc[i] = "queued"
    /\ \A i \in ToSet(pausing) : pc[i] \in Over
    /\ \A a \in ToSet(appends) : a.event.type = "requeued" => IsPaused(log, a.event.item)
    /\ \A i \in Items : IsPaused(log, i) => pc[i] \in Over
    /\ \A i \in Items : pc[i] \in Claimed => Started(log, i)
    /\ drain.at = "failing" /\ drain.op \in Items => Started(log, drain.op)

\* An operation that somebody can name has begun.
Begun(t) == pc[t] \notin {"idle", "recording", "queued"} /\ (t \in Items => Started(log, t)) /\ t \notin Reloads

\* An interrupted operation that has not run yet is remembered.
InterruptInv ==
    /\ InterruptHonoured
    /\ \A t \in interrupted : Begun(t) /\ (pc[t] \in BeforeClaim => t \in pendingInterrupts)
    /\ \A x, t \in Ops : target[x] = t => Begun(t)

\* No item was handed back by a restore and re-queued, in whichever order.
NoReturn ==
    \A m, n \in 1..Len(log) :
        ~(log[m].type = "restored" /\ log[n].type = "requeued" /\ log[n].item \in log[m].items)

\* What is in memory is what the events leave, and a restore in flight takes it all.
MatchInv ==
    phase # "down" /\ ~disposing /\ NoReturn =>
        /\ queue = Without(Pending, ToSet(pausing) \cup Starting)
        /\ \A a \in ToSet(appends) : a.event.type = "restored" => ToSet(Pending) \subseteq a.event.items

IInv == /\ TypeOK /\ StageInv /\ OwnerInv /\ DrainInv /\ DownInv /\ FlightInv /\ QueueInv
        /\ InterruptInv /\ MatchInv /\ DeliveryIsolated

-----------------------------------------------------------------------------
(* The kinds of operation do not overlap. *)

USE DEF events, work, branch, draining, life, history

\* An operation ID names one request.
LEMMA OneKind ==
    /\ \A o \in Items : o \in Ops /\ o \in Turns /\ o \notin Prompts /\ o \notin Deliveries /\ o \notin Compactions
          /\ o \notin Shells /\ o \notin Reloads /\ o \notin Restores /\ o \notin Requeues /\ o \notin Interrupts
    /\ \A o \in Prompts : o \in Ops /\ o \in Turns /\ o \notin Deliveries /\ o \notin Compactions
          /\ o \notin Shells /\ o \notin Reloads /\ o \notin Restores /\ o \notin Requeues /\ o \notin Interrupts
    /\ \A o \in Deliveries : o \in Ops /\ o \in Turns /\ o \notin Compactions
          /\ o \notin Shells /\ o \notin Reloads /\ o \notin Restores /\ o \notin Requeues /\ o \notin Interrupts
    /\ \A o \in Turns : o \in Ops /\ (o \in Prompts \/ o \in Items \/ o \in Deliveries)
    /\ \A o \in Compactions : o \in Ops /\ o \notin Turns /\ o \notin Shells /\ o \notin Reloads
          /\ o \notin Restores /\ o \notin Requeues /\ o \notin Interrupts
    /\ \A o \in Shells : o \in Ops /\ o \notin Turns /\ o \notin Reloads /\ o \notin Restores
          /\ o \notin Requeues /\ o \notin Interrupts
    /\ \A o \in Reloads : o \in Ops /\ o \notin Turns /\ o \notin Restores /\ o \notin Requeues
          /\ o \notin Interrupts
    /\ \A o \in Restores : o \in Ops /\ o \notin Turns /\ o \notin Requeues /\ o \notin Interrupts
    /\ \A o \in Requeues : o \in Ops /\ o \notin Turns /\ o \notin Interrupts
    /\ \A o \in Interrupts : o \in Ops /\ o \notin Turns
    /\ \A o \in Ops : o # None /\ o # "drain" /\ o # "resume"
<1>1. /\ Items \cap (Prompts \cup Deliveries \cup Compactions \cup Shells \cup Reloads
                     \cup Restores \cup Requeues \cup Interrupts) = {}
      /\ Prompts \cap (Deliveries \cup Compactions \cup Shells \cup Reloads
                       \cup Restores \cup Requeues \cup Interrupts) = {}
    BY SessionAssumption
<1>2. /\ Deliveries \cap (Compactions \cup Shells \cup Reloads \cup Restores \cup Requeues \cup Interrupts) = {}
      /\ Compactions \cap (Shells \cup Reloads \cup Restores \cup Requeues \cup Interrupts) = {}
      /\ Shells \cap (Reloads \cup Restores \cup Requeues \cup Interrupts) = {}
      /\ Reloads \cap (Restores \cup Requeues \cup Interrupts) = {}
      /\ Restores \cap (Requeues \cup Interrupts) = {}
      /\ Requeues \cap Interrupts = {}
    BY SessionAssumption
<1>3. None \notin Ops /\ {"drain", "resume"} \cap Ops = {}
    BY SessionAssumption
<1>4. \A o \in Items : o \in Ops /\ o \in Turns /\ o \notin Prompts /\ o \notin Deliveries /\ o \notin Compactions
          /\ o \notin Shells /\ o \notin Reloads /\ o \notin Restores /\ o \notin Requeues /\ o \notin Interrupts
    BY <1>1 DEF Ops, Turns
<1>5. \A o \in Prompts : o \in Ops /\ o \in Turns /\ o \notin Deliveries /\ o \notin Compactions
          /\ o \notin Shells /\ o \notin Reloads /\ o \notin Restores /\ o \notin Requeues /\ o \notin Interrupts
    BY <1>1 DEF Ops, Turns
<1>6. \A o \in Deliveries : o \in Ops /\ o \in Turns /\ o \notin Compactions
          /\ o \notin Shells /\ o \notin Reloads /\ o \notin Restores /\ o \notin Requeues /\ o \notin Interrupts
    BY <1>2 DEF Ops, Turns
<1>7. \A o \in Turns : o \in Ops /\ (o \in Prompts \/ o \in Items \/ o \in Deliveries)
    BY DEF Ops, Turns
<1>8. /\ \A o \in Compactions : o \in Ops /\ o \notin Turns /\ o \notin Shells /\ o \notin Reloads
            /\ o \notin Restores /\ o \notin Requeues /\ o \notin Interrupts
      /\ \A o \in Shells : o \in Ops /\ o \notin Turns /\ o \notin Reloads /\ o \notin Restores
            /\ o \notin Requeues /\ o \notin Interrupts
    BY <1>1, <1>2 DEF Ops, Turns
<1>9. /\ \A o \in Reloads : o \in Ops /\ o \notin Turns /\ o \notin Restores /\ o \notin Requeues
            /\ o \notin Interrupts
      /\ \A o \in Restores : o \in Ops /\ o \notin Turns /\ o \notin Requeues /\ o \notin Interrupts
    BY <1>1, <1>2 DEF Ops, Turns
<1>10. /\ \A o \in Requeues : o \in Ops /\ o \notin Turns /\ o \notin Interrupts
       /\ \A o \in Interrupts : o \in Ops /\ o \notin Turns
    BY <1>1, <1>2 DEF Ops, Turns
<1>11. \A o \in Ops : o # None /\ o # "drain" /\ o # "resume"
    BY <1>3
<1> QED
    BY <1>4, <1>5, <1>6, <1>7, <1>8, <1>9, <1>10, <1>11

\* The continuations that run first are prompts about to claim the branch.
LEMMA UrgentTurns == Urgent \subseteq Turns
    BY DEF Urgent, Turns

-----------------------------------------------------------------------------
(* Facts that every part of the invariant needs. *)

\* The append at the head of the chain is one that its producer waits for.
LEMMA HeadAwaits ==
    ASSUME TypeOK, FlightInv, NEW by, Heads(by)
    PROVE  /\ Awaits(by, Head(appends).event)
           /\ Head(appends) = appends[1] /\ Head(appends).by = by /\ Len(appends) \in Nat /\ 1 \in 1..Len(appends)
           /\ Head(appends).event \in Events(QueueTypes \cup MarkTypes) /\ Head(appends) \in ToSet(appends)
<1>1. appends \in Seq([by : Ops \cup {"drain", "resume"}, event : Events(QueueTypes \cup MarkTypes)])
    BY DEF TypeOK
<1>2. appends # <<>> /\ Head(appends).by = by
    BY DEF Heads
<1> DEFINE E == [by : Ops \cup {"drain", "resume"}, event : Events(QueueTypes \cup MarkTypes)]
<1> HIDE DEF E
<1>3. /\ Head(appends) = appends[1] /\ Len(appends) \in Nat /\ 1 \in 1..Len(appends)
      /\ Head(appends) \in E
  <2>1. appends \in Seq(E)
    BY <1>1 DEF E
  <2> QED
    BY <1>2, <2>1
<1>4. appends[1] \in ToSet(appends) /\ Awaits(appends[1].by, appends[1].event)
  <2>1. appends[1] \in ToSet(appends)
    BY <1>1, <1>3 DEF ToSet
  <2> QED
    BY <2>1 DEF FlightInv
<1> QED
    BY <1>2, <1>3, <1>4 DEF E

\* Whose turn it is when the head has landed or failed.
LEMMA HeadKinds ==
    ASSUME TypeOK, FlightInv
    PROVE  /\ \A i \in Items : Heads(i) /\ pc[i] = "recording" =>
                 \E front \in BOOLEAN : Head(appends).event = QueueEvent("enqueued", i, i, front)
           /\ \A q \in Requeues : Heads(q) =>
                 \E i \in Items, front \in BOOLEAN : Head(appends).event = QueueEvent("requeued", q, i, front)
           /\ \A x \in Restores : Heads(x) => \E items \in SUBSET Items : Head(appends).event = RestoredEvent(x, items)
           /\ Heads("drain") =>
                 \/ /\ drain.at = "starting"
                    /\ Head(appends).event = QueueEvent("started", drain.op, drain.op, FALSE)
                 \/ /\ drain.at = "failing"
                    /\ Head(appends).event =
                          Event(IF drain.op \in Compactions THEN "compaction.failed" ELSE "error", drain.op)
           /\ Heads("resume") =>
                 pausing # <<>> /\ Head(appends).event = QueueEvent("paused", Head(pausing), Head(pausing), FALSE)
<1>1. ASSUME NEW i \in Items, Heads(i), pc[i] = "recording"
      PROVE  \E front \in BOOLEAN : Head(appends).event = QueueEvent("enqueued", i, i, front)
    BY <1>1, HeadAwaits, OneKind DEF Awaits
<1>2. ASSUME NEW q \in Requeues, Heads(q)
      PROVE  \E i \in Items, front \in BOOLEAN : Head(appends).event = QueueEvent("requeued", q, i, front)
    BY <1>2, HeadAwaits, OneKind DEF Awaits
<1>3. ASSUME NEW x \in Restores, Heads(x)
      PROVE  \E items \in SUBSET Items : Head(appends).event = RestoredEvent(x, items)
    BY <1>3, HeadAwaits, OneKind DEF Awaits
<1>4. ASSUME Heads("drain")
      PROVE  \/ /\ drain.at = "starting"
                /\ Head(appends).event = QueueEvent("started", drain.op, drain.op, FALSE)
             \/ /\ drain.at = "failing"
                /\ Head(appends).event =
                      Event(IF drain.op \in Compactions THEN "compaction.failed" ELSE "error", drain.op)
  <2>1. Awaits("drain", Head(appends).event)
    BY <1>4, HeadAwaits
  <2>2. \A o \in Ops : "drain" # o
    BY OneKind
  <2>3. "drain" \notin Turns \cup Shells \cup Compactions /\ "drain" \notin Restores \cup Requeues
    BY <2>2, OneKind
  <2>4. "drain" \notin Items /\ "drain" \notin Deliveries
    BY <2>2, OneKind
  <2> QED
    BY <2>1, <2>3, <2>4 DEF Awaits
<1>5. ASSUME Heads("resume")
      PROVE  pausing # <<>> /\ Head(appends).event = QueueEvent("paused", Head(pausing), Head(pausing), FALSE)
  <2>1. Awaits("resume", Head(appends).event)
    BY <1>5, HeadAwaits
  <2>2. \A o \in Ops : "resume" # o
    BY OneKind
  <2>3. "resume" \notin Turns \cup Shells \cup Compactions /\ "resume" \notin Restores \cup Requeues
    BY <2>2, OneKind
  <2>4. "resume" \notin Items /\ "resume" \notin Deliveries
    BY <2>2, OneKind
  <2> QED
    BY <2>1, <2>3, <2>4 DEF Awaits
<1> QED
    BY <1>1, <1>2, <1>3, <1>4, <1>5

\* The fields of the events.
LEMMA Fields ==
    ASSUME NEW type, NEW op, NEW i, NEW front, NEW items
    PROVE  /\ Event(type, op).type = type /\ Event(type, op).op = op /\ Event(type, op).item = None
           /\ QueueEvent(type, op, i, front).type = type /\ QueueEvent(type, op, i, front).op = op
           /\ QueueEvent(type, op, i, front).item = i /\ QueueEvent(type, op, i, front).front = front
           /\ RestoredEvent(op, items).type = "restored" /\ RestoredEvent(op, items).op = op
           /\ RestoredEvent(op, items).item = None /\ RestoredEvent(op, items).items = items
    BY DEF Event, QueueEvent, RestoredEvent

\* Who goes on after an operation: the one that ended, and the deliveries that waited for it.
LEMMA FollowMoves ==
    ASSUME NEW op \in Ops, NEW ok \in BOOLEAN, NEW rest, Follow(op, ok, rest)
    PROVE  /\ pc'[op] = IF op \in Deliveries THEN (IF ok THEN "delivering" ELSE "failing")
                        ELSE (IF ok THEN "done" ELSE "failed")
           /\ \A o \in Ops : o # op => \/ pc'[o] = pc[o] /\ (pc[o] = "waiting" => target[o] # op)
                                       \/ pc[o] = "waiting" /\ pc'[o] = "claiming" /\ target[o] = op
    BY DEF Follow

-----------------------------------------------------------------------------
(* What the steps with several outcomes do. *)

\* startQueueDrain wakes an idle drain or leaves it alone.
LEMMA DrainWakes ==
    ASSUME StartDrain
    PROVE  /\ drain' = drain \/ (drain.at = "idle" /\ drain' = Loop)
           /\ broken' = broken
           /\ drain' # drain => /\ ~stopping' /\ ~disposing' /\ mutation' = None
                                /\ activeTurn' = None /\ rebuilding' = None /\ interruptDelivery' = None
    BY DEF StartDrain

Gives(o) == ClaimRefused(o) \/ InterceptedAway(o) \/ End(o) \/ OperationFails(o)

\* The caller of an operation that gives the branch back, or does not get it, goes on, and
\* so does a delivery that waited for it (send, shell, compact).
LEMMA GivesStages ==
    ASSUME TypeOK, StageInv, NEW o \in Turns \cup Compactions \cup Shells, Gives(o)
    PROVE  /\ o \in Ops
           /\ pc[o] \in {"claiming", "intercepting", "messaging", "ending"}
           /\ pc'[o] \in IF o \in Deliveries THEN {"delivering", "failing"} ELSE {"done", "failed"}
           /\ \A p \in Ops : p # o => \/ pc'[p] = pc[p] /\ (pc[p] = "waiting" => target[p] # o)
                                      \/ /\ p \in Deliveries /\ pc[p] = "waiting" /\ pc'[p] = "claiming"
                                         /\ target[p] = o
           /\ pc' \in [Ops -> Stages]
           /\ drain' \in IF drain.op = o THEN IF pc'[o] \in {"failed", "failing"} THEN {At("failing", o)} ELSE {Loop}
                         ELSE IF drain.at = "idle" THEN {drain, Loop} ELSE {drain}
<1>0. o \in Ops /\ pc \in [Ops -> Stages] /\ (o \in Deliveries => o \in Ops)
    BY OneKind DEF TypeOK
<1>1. /\ pc[o] \in {"claiming", "intercepting", "messaging", "ending"}
      /\ \E ok \in BOOLEAN, r \in {appends, Tail(appends)} :
            /\ Follow(o, ok, r)
            /\ IF drain.op = o THEN drain' = (IF ok THEN Loop ELSE At("failing", o)) ELSE drain' = drain \/ StartDrain
  <2>1. CASE ClaimRefused(o)
    BY <2>1, Zenon DEF ClaimRefused
  <2>2. CASE InterceptedAway(o)
    BY <2>2 DEF InterceptedAway, Release
  <2>3. CASE End(o)
    BY <2>3 DEF End, Release
  <2>4. CASE OperationFails(o)
    BY <2>4 DEF OperationFails, Release
  <2> QED
    BY <2>1, <2>2, <2>3, <2>4 DEF Gives
<1>2. PICK ok \in BOOLEAN, r \in {appends, Tail(appends)} :
            /\ Follow(o, ok, r)
            /\ IF drain.op = o THEN drain' = (IF ok THEN Loop ELSE At("failing", o)) ELSE drain' = drain \/ StartDrain
    BY <1>1
<1>3. /\ pc'[o] = IF o \in Deliveries THEN (IF ok THEN "delivering" ELSE "failing")
                  ELSE (IF ok THEN "done" ELSE "failed")
      /\ \A p \in Ops : p # o => \/ pc'[p] = pc[p] /\ (pc[p] = "waiting" => target[p] # o)
                                 \/ pc[p] = "waiting" /\ pc'[p] = "claiming" /\ target[p] = o
    BY <1>0, <1>2, FollowMoves
<1>4. \A p \in Ops : pc[p] = "waiting" => p \in Deliveries
  <2>1. \A p \in Ops : MayBeAt(p, pc[p])
    BY DEF StageInv
  <2> QED
    BY <2>1 DEF MayBeAt, Ops, Turns, Over, Claimed, Working
<1>5. pc' \in [Ops -> Stages]
    BY <1>0, <1>2 DEF Follow, Stages
<1>6. drain' \in IF drain.op = o THEN IF pc'[o] \in {"failed", "failing"} THEN {At("failing", o)} ELSE {Loop}
                 ELSE IF drain.at = "idle" THEN {drain, Loop} ELSE {drain}
    BY <1>2, <1>3, DrainWakes
<1> QED
    BY <1>0, <1>1, <1>3, <1>4, <1>5, <1>6

\* It gives back the branch, if it has it, and nothing else.
LEMMA GivesBranch ==
    ASSUME NEW o \in Turns \cup Compactions \cup Shells, Gives(o)
    PROVE  /\ queue' = queue /\ compactions' = compactions /\ reloads' = reloads
           /\ rebuilding' = rebuilding /\ interruptDelivery' = interruptDelivery
           /\ pendingInterrupts' = pendingInterrupts /\ mutation' = mutation
           /\ broken' = broken /\ disposing' = disposing /\ stopping' = stopping
           /\ phase' = phase /\ awaited' = awaited /\ pausing' = pausing
           /\ target' = target /\ interrupted' = interrupted /\ crashes' = crashes
           /\ IF pc[o] = "claiming" THEN UNCHANGED <<activeTurn, aborted>>
              ELSE activeTurn' = None /\ aborted' = FALSE
<1>1. UNCHANGED <<queue, compactions, reloads, rebuilding, interruptDelivery, pendingInterrupts, mutation,
                  broken, disposing, stopping, phase, awaited, pausing, target, interrupted, crashes>>
  <2>1. CASE ClaimRefused(o)
    BY <2>1 DEF ClaimRefused
  <2>2. CASE InterceptedAway(o)
    BY <2>2, DrainWakes DEF InterceptedAway, Release
  <2>3. CASE End(o)
    BY <2>3, DrainWakes DEF End, Release
  <2>4. CASE OperationFails(o)
    BY <2>4, DrainWakes DEF OperationFails, Release, Fault
  <2> QED
    BY <2>1, <2>2, <2>3, <2>4 DEF Gives
<1>2. IF pc[o] = "claiming" THEN UNCHANGED <<activeTurn, aborted>>
      ELSE activeTurn' = None /\ aborted' = FALSE
  <2>1. CASE ClaimRefused(o)
    BY <2>1 DEF ClaimRefused
  <2>2. CASE InterceptedAway(o)
    BY <2>2 DEF InterceptedAway, Release
  <2>3. CASE End(o)
    BY <2>3 DEF End, Release
  <2>4. CASE OperationFails(o)
    BY <2>4 DEF OperationFails, Release
  <2> QED
    BY <2>1, <2>2, <2>3, <2>4 DEF Gives
<1> QED
    BY <1>1, <1>2

\* The next operation of a queue (queuedCompactions, queuedReloads, queue).
LEMMA HeadIn ==
    ASSUME NEW S, NEW s \in Seq(S), s # <<>>
    PROVE  /\ Head(s) \in S /\ Head(s) \in ToSet(s) /\ Tail(s) \in Seq(S)
           /\ ToSet(s) = ToSet(Tail(s)) \cup {Head(s)}
           /\ IsInjective(s) => IsInjective(Tail(s)) /\ Head(s) \notin ToSet(Tail(s))
<1>1. Head(s) \in S /\ Head(s) \in ToSet(s) /\ Tail(s) \in Seq(S)
    BY DEF ToSet
<1>2. /\ ToSet(s) = ToSet(Tail(s)) \cup {Head(s)}
      /\ IsInjective(s) <=> IsInjective(Tail(s)) /\ Head(s) \notin ToSet(Tail(s))
    BY ElemsTail, Zenon
<1> QED
    BY <1>1, <1>2

\* requeue puts the item of its event back.
LEMMA RequeueLands ==
    ASSUME TypeOK, FlightInv, NEW q \in Requeues, Requeued(q)
    PROVE  \E i \in Items, front \in BOOLEAN :
              /\ Head(appends).event = QueueEvent("requeued", q, i, front)
              /\ pc' = [pc EXCEPT ![q] = "done", ![i] = "queued"]
              /\ pc'[q] = "done" /\ pc'[i] = "queued" /\ \A o \in Ops : o # q /\ o # i => pc'[o] = pc[o]
              /\ queue' = IF front THEN <<i>> \o queue ELSE Append(queue, i)
              /\ mutation = q /\ Heads(q)
<1>0. pc \in [Ops -> Stages]
    BY DEF TypeOK
<1>1. PICK i \in Items, front \in BOOLEAN : Head(appends).event = QueueEvent("requeued", q, i, front)
    BY HeadKinds DEF Requeued, MutationLanded
<1>2. Head(appends).event.item = i /\ Head(appends).event.front = front
    BY <1>1, Fields
<1>3. pc' = [pc EXCEPT ![q] = "done", ![i] = "queued"]
    BY <1>2, Zenon DEF Requeued
<1>4. queue' = IF front THEN <<i>> \o queue ELSE Append(queue, i)
    BY <1>2 DEF Requeued
<1>5. pc'[q] = "done" /\ pc'[i] = "queued" /\ \A o \in Ops : o # q /\ o # i => pc'[o] = pc[o]
    BY <1>0, <1>3, OneKind
<1>6. mutation = q /\ Heads(q)
    BY DEF Requeued, MutationLanded
<1> QED
    BY <1>1, <1>3, <1>4, <1>5, <1>6

Delivers(d) == \/ DeliverRefused(d) \/ DeliverRequest(d) \/ DeliverRequested(d) \/ DeliverInterrupts(d)
               \/ DeliverClosed(d) \/ Delivered(d) \/ DeliveryFails(d)

\* A delivery goes on to its next stage, or ends (interruptAndDeliver).
LEMMA DeliveryGoesOn ==
    ASSUME TypeOK, NEW d \in Deliveries, Delivers(d)
    PROVE  /\ pc[d] \in {"reserved", "requesting", "interrupting", "closing", "delivering", "failing"}
           /\ \E stage \in {"requesting", "interrupting", "waiting", "closing", "claiming", "failing", "done", "failed"} :
                 /\ pc' = [pc EXCEPT ![d] = stage]
                 /\ pc'[d] = stage
                 /\ interruptDelivery' = IF stage \in {"done", "failed"} THEN None ELSE interruptDelivery
                 /\ stage = "waiting" => /\ pc[d] = "interrupting" /\ activeTurn # None /\ activeTurn.op = target[d]
                                         /\ aborted'
                 /\ stage = "closing" => /\ pc[d] = "interrupting" /\ activeTurn = None
                                         /\ Has(target[d], {"message"}) /\ ~Has(target[d], {"assistant", "error"})
                 /\ stage = "interrupting" => pc[d] = "requesting" /\ target[d] # None
                 /\ stage = "requesting" => pc[d] = "reserved"
                 /\ pc[d] \in {"delivering", "failing"} => stage \in {"done", "failed", "failing"}
           /\ \A o \in Ops : o # d => pc'[o] = pc[o]
           /\ drain' = drain \/ (drain.at = "idle" /\ drain' = Loop)
           /\ aborted' = aborted \/ (aborted' /\ activeTurn # None)
           /\ pendingInterrupts' \in {pendingInterrupts, pendingInterrupts \ {d}}
           /\ pc[d] \notin {"reserved", "requesting", "delivering", "failing"} => pendingInterrupts' = pendingInterrupts
           /\ pendingInterrupts' # pendingInterrupts => pc'[d] \in {"done", "failed"}
           /\ UNCHANGED <<queue, compactions, reloads, activeTurn, rebuilding, mutation, broken, disposing, stopping,
                          phase, awaited, pausing, target, interrupted, crashes>>
<1>0. pc \in [Ops -> Stages] /\ d \in Ops
    BY OneKind DEF TypeOK
<1> DEFINE Next0(stage) ==
              /\ pc' = [pc EXCEPT ![d] = stage]
              /\ interruptDelivery' = IF stage \in {"done", "failed"} THEN None ELSE interruptDelivery
              /\ stage = "waiting" => /\ pc[d] = "interrupting" /\ activeTurn # None /\ activeTurn.op = target[d]
                                      /\ aborted'
              /\ stage = "closing" => /\ pc[d] = "interrupting" /\ activeTurn = None
                                      /\ Has(target[d], {"message"}) /\ ~Has(target[d], {"assistant", "error"})
              /\ stage = "interrupting" => pc[d] = "requesting" /\ target[d] # None
              /\ stage = "requesting" => pc[d] = "reserved"
              /\ pc[d] \in {"delivering", "failing"} => stage \in {"done", "failed", "failing"}
              /\ pendingInterrupts' # pendingInterrupts => stage \in {"done", "failed"}
           Rest == /\ pc[d] \in {"reserved", "requesting", "interrupting", "closing", "delivering", "failing"}
                   /\ drain' = drain \/ (drain.at = "idle" /\ drain' = Loop)
                   /\ aborted' = aborted \/ (aborted' /\ activeTurn # None)
                   /\ pendingInterrupts' \in {pendingInterrupts, pendingInterrupts \ {d}}
                   /\ pc[d] \notin {"reserved", "requesting", "delivering", "failing"}
                      => pendingInterrupts' = pendingInterrupts
                   /\ UNCHANGED <<queue, compactions, reloads, activeTurn, rebuilding, mutation, broken, disposing,
                                  stopping, phase, awaited, pausing, target, interrupted, crashes>>
<1>1. CASE DeliverRefused(d)
  <2>1. Next0("failed")
    BY <1>1 DEF DeliverRefused, Unreserve
  <2>2. Rest
    BY <1>1, DrainWakes DEF DeliverRefused, Unreserve
  <2> QED
    BY <1>0, <2>1, <2>2
<1>2. CASE DeliverRequest(d)
  <2>1. Next0("requesting") /\ Rest
    BY <1>2 DEF DeliverRequest
  <2> QED
    BY <1>0, <2>1
<1>3. CASE DeliverRequested(d)
  <2>1. Next0("claiming") \/ Next0("interrupting")
    BY <1>3 DEF DeliverRequested
  <2>2. Rest
    BY <1>3 DEF DeliverRequested
  <2> QED
    BY <1>0, <2>1, <2>2
<1>4. CASE DeliverInterrupts(d)
  <2>1. Next0("waiting") \/ Next0("closing") \/ Next0("failing") \/ Next0("claiming")
    BY <1>4 DEF DeliverInterrupts
  <2>2. Rest
    BY <1>4 DEF DeliverInterrupts
  <2> QED
    BY <1>0, <2>1, <2>2
<1>5. CASE DeliverClosed(d)
  <2>1. Next0("claiming") /\ Rest
    BY <1>5 DEF DeliverClosed
  <2> QED
    BY <1>0, <2>1
<1>6. CASE Delivered(d)
  <2>1. Next0("done") \/ Next0("failed")
    BY <1>6 DEF Delivered, EndDelivery, Unreserve
  <2>2. Rest
    BY <1>6, DrainWakes DEF Delivered, EndDelivery, Unreserve
  <2> QED
    BY <1>0, <2>1, <2>2
<1>7. CASE DeliveryFails(d)
  <2>1. Next0("failed") \/ Next0("failing")
    BY <1>7 DEF DeliveryFails, EndDelivery, Unreserve
  <2>2. Rest
    BY <1>7, DrainWakes DEF DeliveryFails, EndDelivery, Unreserve, Fault
  <2> QED
    BY <1>0, <2>1, <2>2
<1> QED
    BY <1>1, <1>2, <1>3, <1>4, <1>5, <1>6, <1>7 DEF Delivers

-----------------------------------------------------------------------------
(* Where an operation is *)

\* Every step moves operations along the stages of their kind, and sets the flags that
\* name them (queueMutationActive, interruptDelivery, rebuilding).
LEMMA StageStep ==
    ASSUME TypeOK, StageInv, DrainInv, DownInv, FlightInv, Next
    PROVE  StageInv'
<1> USE DEF Over, Working, Claimed, BeforeClaim, Delivering
<1>0. pc \in [Ops -> Stages] /\ mutation \in Items \cup Restores \cup Requeues \cup {None} /\ rebuilding \in Reloads \cup {None}
    BY DEF TypeOK
<1>1. ASSUME \/ Dispose \/ DisposeAborts \/ DisposeWaited \/ Disposed \/ BeginShutdown \/ DrainStops
             \/ DrainStarts \/ DrainRecorded \/ Resume \/ Paused
      PROVE  StageInv'
    BY <1>1
    DEF Dispose, DisposeAborts, DisposeWaited, Disposed, BeginShutdown, DrainStops, DrainStarts,
        DrainRecorded, Resume, Paused, StageInv
<1>2. ASSUME NEW i \in Items, NEW front \in Fronts, Enqueue(i, front)  PROVE StageInv'
    BY <1>2, <1>0, OneKind DEF Enqueue, StageInv, MayBeAt, Mutate, Called
<1>3. ASSUME NEW q \in Requeues, NEW i \in Items, NEW front \in Fronts, Requeue(q, i, front)  PROVE StageInv'
    BY <1>3, <1>0, OneKind DEF Requeue, StageInv, MayBeAt, Mutate, Called
<1>4. ASSUME NEW x \in Restores, Restore(x)  PROVE StageInv'
    BY <1>4, <1>0, OneKind DEF Restore, StageInv, MayBeAt, Mutate, Called
<1>5. ASSUME NEW x \in Interrupts, InterruptAccepted(x)  PROVE StageInv'
    BY <1>5, <1>0, OneKind DEF InterruptAccepted, StageInv, MayBeAt, Called
<1>6. ASSUME NEW p \in Prompts, Send(p)  PROVE StageInv'
    BY <1>6, <1>0, OneKind DEF Send, StageInv, MayBeAt, Called
<1>7. ASSUME NEW d \in Deliveries, Reserve(d)  PROVE StageInv'
    BY <1>7, <1>0, OneKind DEF Reserve, StageInv, MayBeAt, Called
<1>8. ASSUME NEW c \in Compactions, Compact(c)  PROVE StageInv'
    BY <1>8, <1>0, OneKind DEF Compact, StageInv, MayBeAt, Called, OwnCompaction
<1>9. ASSUME NEW c \in Compactions, CompactLater(c)  PROVE StageInv'
    BY <1>9, <1>0, OneKind DEF CompactLater, StageInv, MayBeAt, Called
<1>10. ASSUME NEW s \in Shells, Shell(s)  PROVE StageInv'
    BY <1>10, <1>0, OneKind DEF Shell, StageInv, MayBeAt, Called
<1>11. ASSUME NEW r \in Reloads, Reload(r)  PROVE StageInv'
    BY <1>11, <1>0, OneKind DEF Reload, StageInv, MayBeAt, Called
<1>12. ASSUME NEW r \in Reloads, ReloadLater(r)  PROVE StageInv'
    BY <1>12, <1>0, OneKind DEF ReloadLater, StageInv, MayBeAt
<1>13. ASSUME NEW i \in Items, Enqueued(i)  PROVE StageInv'
    BY <1>13, <1>0, OneKind DEF Enqueued, StageInv, MayBeAt, MutationLanded
<1>14. ASSUME NEW q \in Requeues, Requeued(q)  PROVE StageInv'
  <2>1. PICK i \in Items, front \in BOOLEAN :
           /\ pc'[q] = "done" /\ pc'[i] = "queued" /\ \A o \in Ops : o # q /\ o # i => pc'[o] = pc[o]
           /\ mutation = q
    BY <1>14, RequeueLands
  <2>2. mutation' = None /\ interruptDelivery' = interruptDelivery /\ rebuilding' = rebuilding
    BY <1>14 DEF Requeued, MutationLanded
  <2> QED
    BY <1>0, <2>1, <2>2, OneKind DEF StageInv, MayBeAt
<1>15. ASSUME NEW x \in Restores, Restored(x)  PROVE StageInv'
    BY <1>15, <1>0, OneKind DEF Restored, StageInv, MayBeAt, MutationLanded
<1>16. ASSUME NEW x \in Interrupts, Interrupt(x)  PROVE StageInv'
    BY <1>16, <1>0, OneKind DEF Interrupt, StageInv, MayBeAt
<1>17. ASSUME NEW o \in Turns, Claim(o)  PROVE StageInv'
    BY <1>17, <1>0, OneKind DEF Claim, StageInv, MayBeAt, Own
<1>18. ASSUME NEW o \in Turns \cup Compactions \cup Shells, Gives(o)  PROVE StageInv'
  <2>1. /\ o \in Ops /\ mutation' = mutation /\ interruptDelivery' = interruptDelivery /\ rebuilding' = rebuilding
        /\ pc[o] \in {"claiming", "intercepting", "messaging", "ending"}
        /\ pc'[o] \in IF o \in Deliveries THEN {"delivering", "failing"} ELSE {"done", "failed"}
        /\ \A p \in Ops : p # o => pc'[p] = pc[p] \/ (p \in Deliveries /\ pc[p] = "waiting" /\ pc'[p] = "claiming")
    BY <1>18, GivesStages, GivesBranch
  <2>2. MayBeAt(o, pc'[o])
    BY <1>18, <2>1, OneKind DEF MayBeAt
  <2>3. \A p \in Deliveries : MayBeAt(p, "claiming")
    BY OneKind DEF MayBeAt
  <2>4. \A p \in Ops : MayBeAt(p, pc'[p])
    BY <2>1, <2>2, <2>3 DEF StageInv
  <2>5. \A p \in Items \cup Restores \cup Requeues : pc'[p] = "recording" <=> pc[p] = "recording"
    BY <1>18, <2>1, OneKind
  <2>6. \A d \in Deliveries : pc'[d] \in Delivering <=> pc[d] \in Delivering
    BY <1>18, <2>1, OneKind
  <2>7. rebuilding # None => pc'[rebuilding] = "rebuilding"
    BY <1>0, <2>1, OneKind DEF StageInv
  <2> QED
    BY <2>1, <2>4, <2>5, <2>6, <2>7 DEF StageInv
<1>19. ASSUME NEW o \in Turns, Intercepted(o)  PROVE StageInv'
    BY <1>19, <1>0, OneKind DEF Intercepted, StageInv, MayBeAt
<1>20. ASSUME NEW o \in Turns, Messaged(o)  PROVE StageInv'
    BY <1>20, <1>0, OneKind DEF Messaged, StageInv, MayBeAt
<1>21. ASSUME NEW o \in Turns \cup Compactions \cup Shells, Stop(o)  PROVE StageInv'
    BY <1>21, <1>0, OneKind DEF Stop, StageInv, MayBeAt
<1>22. ASSUME NEW s \in Shells, ShellRuns(s)  PROVE StageInv'
    BY <1>22, <1>0, OneKind DEF ShellRuns, StageInv, MayBeAt, Own
<1>23. ASSUME NEW s \in Shells, ShellRefused(s)  PROVE StageInv'
    BY <1>23, <1>0, OneKind DEF ShellRefused, StageInv, MayBeAt
<1>24. ASSUME NEW c \in Compactions, CompactionQueued(c)  PROVE StageInv'
    BY <1>24, <1>0, OneKind DEF CompactionQueued, StageInv, MayBeAt
<1>25. ASSUME NEW c \in Compactions, CompactionUnqueued(c)  PROVE StageInv'
    BY <1>25, <1>0, OneKind DEF CompactionUnqueued, StageInv, MayBeAt, Fault
<1>26. ASSUME NEW r \in Reloads, Rebuild(r)  PROVE StageInv'
  <2>1. /\ pc[r] = "deciding" /\ mutation' = mutation /\ interruptDelivery' = interruptDelivery
        /\ \/ rebuilding' = r /\ pc' = [pc EXCEPT ![r] = "rebuilding"]
           \/ pc' = [pc EXCEPT ![r] = "failed"] /\ rebuilding' = rebuilding
    BY <1>26 DEF Rebuild
  <2>2. CASE rebuilding' = r /\ pc' = [pc EXCEPT ![r] = "rebuilding"]
    BY <1>0, <2>1, <2>2, OneKind DEF StageInv, MayBeAt
  <2>3. CASE pc' = [pc EXCEPT ![r] = "failed"] /\ rebuilding' = rebuilding
    BY <1>0, <2>1, <2>3, OneKind DEF StageInv, MayBeAt
  <2> QED
    BY <2>1, <2>2, <2>3
<1>27. ASSUME NEW r \in Reloads, Rebuilt(r)  PROVE StageInv'
    BY <1>27, <1>0, OneKind DEF Rebuilt, StageInv, MayBeAt
<1>28. ASSUME DrainCompacts  PROVE StageInv'
  <2>1. Head(compactions) \in Compactions /\ pc[Head(compactions)] = "queued"
    BY <1>28, HeadIn DEF TypeOK, DrainInv, Listed, DrainCompacts
  <2>2. /\ pc' = [pc EXCEPT ![Head(compactions)] = "working"] /\ mutation' = mutation
        /\ interruptDelivery' = interruptDelivery /\ rebuilding' = rebuilding
    BY <1>28 DEF DrainCompacts, OwnCompaction
  <2> QED
    BY <1>0, <2>1, <2>2, OneKind DEF StageInv, MayBeAt
<1>29. ASSUME DrainReloads  PROVE StageInv'
  <2>1. Head(reloads) \in Reloads /\ pc[Head(reloads)] = "queued"
    BY <1>29, HeadIn DEF TypeOK, DrainInv, Listed, DrainReloads
  <2>2. /\ pc' = [pc EXCEPT ![Head(reloads)] = "rebuilding"] /\ mutation' = mutation
        /\ interruptDelivery' = interruptDelivery /\ rebuilding' = Head(reloads)
    BY <1>29 DEF DrainReloads
  <2> QED
    BY <1>0, <2>1, <2>2, OneKind DEF StageInv, MayBeAt
<1>30. ASSUME DrainSends  PROVE StageInv'
  <2>1. drain.op \in Items /\ pc[drain.op] = "queued"
    BY <1>30 DEF DrainSends, DrainInv, Placed
  <2>2. /\ pc' = [pc EXCEPT ![drain.op] = "claiming"] /\ mutation' = mutation
        /\ interruptDelivery' = interruptDelivery /\ rebuilding' = rebuilding
    BY <1>30 DEF DrainSends
  <2> QED
    BY <1>0, <2>1, <2>2, OneKind DEF StageInv, MayBeAt
<1>31. ASSUME DrainBreaks  PROVE StageInv'
  <2>1. pc[drain.op] \in {"queued", "failed"} /\ drain.op \in Items \cup Compactions \cup Reloads
    BY <1>31, HeadKinds DEF DrainBreaks, DrainInv, Placed, TypeOK
  <2>2. /\ pc' = [pc EXCEPT ![drain.op] = "failed"] /\ mutation' = mutation
        /\ interruptDelivery' = interruptDelivery /\ rebuilding' = rebuilding
    BY <1>31 DEF DrainBreaks
  <2> QED
    BY <1>0, <2>1, <2>2, OneKind DEF StageInv, MayBeAt
<1>32. ASSUME NEW d \in Deliveries, Delivers(d)  PROVE StageInv'
  <2>1. PICK stage \in {"requesting", "interrupting", "waiting", "closing", "claiming", "failing", "done", "failed"} :
            pc' = [pc EXCEPT ![d] = stage] /\ interruptDelivery' = IF stage \in {"done", "failed"} THEN None ELSE interruptDelivery
    BY <1>32, DeliveryGoesOn
  <2>2. pc[d] \in Delivering /\ mutation' = mutation /\ rebuilding' = rebuilding
    BY <1>32, DeliveryGoesOn
  <2>3. interruptDelivery = d
    BY <2>2 DEF StageInv
  <2> QED
    BY <1>0, <2>1, <2>2, <2>3, OneKind DEF StageInv, MayBeAt
<1>33. ASSUME NEW o \in Items \cup Requeues \cup Restores, MutationFails(o)  PROVE StageInv'
    BY <1>33, <1>0, OneKind DEF MutationFails, StageInv, MayBeAt, Fault
<1>34. ASSUME Crash  PROVE StageInv'
    BY <1>34, <1>0, OneKind DEF Crash, StageInv, MayBeAt
<1>35. Request => StageInv'
    BY <1>2, <1>3, <1>4, <1>5, <1>6, <1>7, <1>8, <1>9, <1>10, <1>11, <1>12, Zenon DEF Request
<1>36. Continue => StageInv'
    BY <1>1, <1>13, <1>14, <1>15, <1>16, <1>17, <1>18, <1>19, <1>20, <1>22, <1>23, <1>24, <1>26,
       <1>27, <1>30, <1>32, Zenon DEF Continue, Gives, Delivers
<1>37. Environment => StageInv'
    BY <1>1, <1>18, <1>25, <1>31, <1>32, <1>33, <1>34, Zenon DEF Environment, Gives, Delivers
<1>38. DrainLoop => StageInv'
    BY <1>1, <1>28, <1>29, Zenon DEF DrainLoop
<1> QED
    BY UrgentTurns, <1>17, <1>18, <1>21, <1>35, <1>36, <1>37, <1>38, Zenon DEF Next, Works, Gives

-----------------------------------------------------------------------------
(* Type correctness *)

\* The parts of the type invariant: what is recorded, and the rest.
RecordTypes ==
    /\ log \in Seq(Events(QueueTypes))
    /\ marks \subseteq Events(MarkTypes)
    /\ repeated \in BOOLEAN
    /\ appends \in Seq([by : Ops \cup {"drain", "resume"}, event : Events(QueueTypes \cup MarkTypes)])

\* Events are well-typed, and an event that lands goes where its type says.
LEMMA EventTypes ==
    /\ \A type \in QueueTypes \cup MarkTypes, op \in Ops : Event(type, op) \in Events(QueueTypes \cup MarkTypes)
    /\ \A type \in QueueTypes \cup MarkTypes, op \in Ops, i \in Items, front \in BOOLEAN :
          QueueEvent(type, op, i, front) \in Events(QueueTypes \cup MarkTypes)
    /\ \A op \in Ops, items \in SUBSET Items : RestoredEvent(op, items) \in Events(QueueTypes \cup MarkTypes)
    /\ \A e \in Events(QueueTypes \cup MarkTypes) :
          /\ e.type \in QueueTypes => e \in Events(QueueTypes)
          /\ e.type \notin QueueTypes => e \in Events(MarkTypes)
          /\ e.op \in Ops
    /\ \A type \in MarkTypes, op \in Ops : Event(type, op) \in Events(MarkTypes)
<1>1. \A type \in QueueTypes \cup MarkTypes, op \in Ops : Event(type, op) \in Events(QueueTypes \cup MarkTypes)
    BY DEF Event, Events
<1>2. \A type \in QueueTypes \cup MarkTypes, op \in Ops, i \in Items, front \in BOOLEAN :
          QueueEvent(type, op, i, front) \in Events(QueueTypes \cup MarkTypes)
    BY DEF QueueEvent, Event, Events
<1>3. \A op \in Ops, items \in SUBSET Items : RestoredEvent(op, items) \in Events(QueueTypes \cup MarkTypes)
    BY DEF RestoredEvent, Event, Events, QueueTypes
<1>4. \A e \in Events(QueueTypes \cup MarkTypes) :
          /\ e.type \in QueueTypes => e \in Events(QueueTypes)
          /\ e.type \notin QueueTypes => e \in Events(MarkTypes)
          /\ e.op \in Ops
    BY DEF Events
<1>5. \A type \in MarkTypes, op \in Ops : Event(type, op) \in Events(MarkTypes)
    BY DEF Event, Events
<1> QED
    BY <1>1, <1>2, <1>3, <1>4, <1>5

\* The append at the head of the chain is well-typed, so what lands is.
LEMMA LandTypes ==
    ASSUME RecordTypes, appends # <<>>, Land
    PROVE  /\ log' \in Seq(Events(QueueTypes)) /\ marks' \subseteq Events(MarkTypes) /\ repeated' \in BOOLEAN
           /\ Tail(appends) \in Seq([by : Ops \cup {"drain", "resume"}, event : Events(QueueTypes \cup MarkTypes)])
<1> DEFINE E == Events(QueueTypes \cup MarkTypes)
           C == [by : Ops \cup {"drain", "resume"}, event : E]
           e == Head(appends).event
<1>1. appends \in Seq(C)
    BY DEF RecordTypes
<1>2. Head(appends) \in C /\ Tail(appends) \in Seq(C)
  <2> HIDE DEF C
  <2> QED
    BY <1>1
<1>3. e \in E
    BY <1>2
<1>4. (e.type \in QueueTypes => e \in Events(QueueTypes)) /\ (e.type \notin QueueTypes => e \in Events(MarkTypes))
    BY <1>3, EventTypes
<1>5. IF e.type \in QueueTypes THEN log' = Append(log, e) /\ UNCHANGED <<marks, repeated>>
      ELSE marks' = marks \cup {e} /\ repeated' = (repeated \/ e \in marks) /\ UNCHANGED log
    BY DEF Land
<1> HIDE DEF e
<1>6. log' \in Seq(Events(QueueTypes))
  <2>1. log' = log \/ (e \in Events(QueueTypes) /\ log' = Append(log, e))
    BY <1>4, <1>5
  <2> QED
    BY <2>1 DEF RecordTypes
<1>7. marks' \subseteq Events(MarkTypes)
    BY <1>4, <1>5 DEF RecordTypes
<1>8. repeated' \in BOOLEAN
    BY <1>5 DEF RecordTypes
<1> QED
    BY <1>2, <1>6, <1>7, <1>8

\* An append more is well-typed.
LEMMA EntryTypes ==
    ASSUME NEW s \in Seq([by : Ops \cup {"drain", "resume"}, event : Events(QueueTypes \cup MarkTypes)]),
           NEW by \in Ops \cup {"drain", "resume"}, NEW e \in Events(QueueTypes \cup MarkTypes)
    PROVE  Append(s, Entry(by, e)) \in Seq([by : Ops \cup {"drain", "resume"}, event : Events(QueueTypes \cup MarkTypes)])
<1> DEFINE C == [by : Ops \cup {"drain", "resume"}, event : Events(QueueTypes \cup MarkTypes)]
<1>1. Entry(by, e) \in C
    BY DEF Entry
<1> HIDE DEF C
<1>2. \A c \in C, t \in Seq(C) : Append(t, c) \in Seq(C)
    OBVIOUS
<1> QED
    BY <1>1, <1>2 DEF C

\* What is recorded and what is in flight are events of the session's requests.
LEMMA RecordTypeStep ==
    ASSUME TypeOK, StageInv, FlightInv, QueueInv, Next
    PROVE  RecordTypes'
<1> DEFINE E == Events(QueueTypes \cup MarkTypes)
           C == [by : Ops \cup {"drain", "resume"}, event : E]
<1>0. /\ RecordTypes /\ appends \in Seq(C) /\ target \in [Ops -> Ops \cup {None}]
      /\ drain.op \in Items \cup Compactions \cup Reloads \cup {None}
    BY DEF TypeOK, RecordTypes
<1>a. \A s \in Seq(C), by \in Ops \cup {"drain", "resume"}, e \in E : Append(s, Entry(by, e)) \in Seq(C)
    BY EntryTypes
<1>h. <<>> \in Seq(C)
    OBVIOUS
<1>b. /\ \A type \in QueueTypes \cup MarkTypes, op \in Ops : Event(type, op) \in E
      /\ \A type \in QueueTypes \cup MarkTypes, op \in Ops, i \in Items, front \in BOOLEAN :
            QueueEvent(type, op, i, front) \in E
      /\ \A op \in Ops, items \in SUBSET Items : RestoredEvent(op, items) \in E
    BY EventTypes
<1>c. appends # <<>> /\ Land => /\ log' \in Seq(Events(QueueTypes)) /\ marks' \subseteq Events(MarkTypes)
                                /\ repeated' \in BOOLEAN /\ Tail(appends) \in Seq(C)
    BY <1>0, LandTypes
<1>d. appends # <<>> => Tail(appends) \in Seq(C)
  <2> HIDE DEF C
  <2> QED
    BY <1>0
<1>e. RecordTypes' <=> log' \in Seq(Events(QueueTypes)) /\ marks' \subseteq Events(MarkTypes) /\ repeated' \in BOOLEAN
                       /\ appends' \in Seq(C)
    BY DEF RecordTypes
<1>f. log \in Seq(Events(QueueTypes)) /\ marks \subseteq Events(MarkTypes) /\ repeated \in BOOLEAN
    BY <1>0 DEF RecordTypes
<1>g. \A type : \/ type \in {"enqueued", "requeued", "started", "paused", "restored", "requested", "interrupting",
                             "delivered", "undelivered", "message"}
                \/ type \in {"assistant", "error", "shell", "compaction.queued", "compacted", "compaction.failed"}
                => type \in QueueTypes \cup MarkTypes
    BY DEF QueueTypes, MarkTypes
<1> HIDE DEF C, E
<1>1. ASSUME \/ \E x \in Interrupts : InterruptAccepted(x)
             \/ \E p \in Prompts : Send(p)
             \/ \E d \in Deliveries : Reserve(d)
             \/ \E c \in Compactions : Compact(c)
             \/ \E s \in Shells : Shell(s)
             \/ \E r \in Reloads : Reload(r)
             \/ \E r \in Reloads : ReloadLater(r)
             \/ \E x \in Interrupts : Interrupt(x)
             \/ \E o \in Turns : Claim(o)
             \/ \E s \in Shells : ShellRuns(s)
             \/ \E s \in Shells : ShellRefused(s)
             \/ \E r \in Reloads : Rebuild(r)
             \/ DrainStops \/ DrainCompacts \/ DrainReloads \/ Dispose \/ DisposeAborts \/ DisposeWaited
             \/ Disposed \/ BeginShutdown
      PROVE  RecordTypes'
    BY <1>1, <1>0
    DEF InterruptAccepted, Send, Reserve, Compact, Shell, Reload, ReloadLater, Interrupt, Claim,
        ShellRuns, ShellRefused, Rebuild, DrainStops, DrainCompacts, DrainReloads, Dispose,
        DisposeAborts, DisposeWaited, Disposed, BeginShutdown, RecordTypes
<1>2. ASSUME NEW i \in Items, NEW front \in Fronts, Enqueue(i, front)  PROVE RecordTypes'
    BY <1>2, <1>a, <1>b, <1>c, <1>d, <1>e, <1>f, <1>g, <1>0, OneKind, SessionAssumption
    DEF Enqueue, Mutate, Heads, Then
<1>3. ASSUME NEW q \in Requeues, NEW i \in Items, NEW front \in Fronts, Requeue(q, i, front)  PROVE RecordTypes'
    BY <1>3, <1>a, <1>b, <1>c, <1>d, <1>e, <1>f, <1>g, <1>0, OneKind, SessionAssumption
    DEF Requeue, Mutate, Heads, Then
<1>4. ASSUME NEW x \in Restores, Restore(x)  PROVE RecordTypes'
    BY <1>4, <1>a, <1>b, <1>c, <1>d, <1>e, <1>f, <1>g, <1>0, OneKind
    DEF Restore, Restorable, Mutate, Heads, Then
<1>5. ASSUME NEW c \in Compactions, CompactLater(c)  PROVE RecordTypes'
    BY <1>5, <1>a, <1>b, <1>c, <1>d, <1>e, <1>f, <1>g, <1>0, OneKind DEF CompactLater, Heads, Then
<1>6. ASSUME NEW i \in Items, Enqueued(i)  PROVE RecordTypes'
    BY <1>6, <1>a, <1>b, <1>c, <1>d, <1>e, <1>f, <1>g, <1>0, OneKind
    DEF Enqueued, MutationLanded, Heads, Then
<1>7. ASSUME NEW q \in Requeues, Requeued(q)  PROVE RecordTypes'
    BY <1>7, <1>a, <1>b, <1>c, <1>d, <1>e, <1>f, <1>g, <1>0, OneKind
    DEF Requeued, MutationLanded, Heads, Then
<1>8. ASSUME NEW x \in Restores, Restored(x)  PROVE RecordTypes'
    BY <1>8, <1>a, <1>b, <1>c, <1>d, <1>e, <1>f, <1>g, <1>0, OneKind
    DEF Restored, MutationLanded, Heads, Then
<1>9. ASSUME NEW o \in Turns \cup Compactions \cup Shells, Gives(o)  PROVE RecordTypes'
  <2>1. o \in Ops
    BY <1>9, OneKind
  <2>2. \A ok \in BOOLEAN, r \in Seq(C) : Follow(o, ok, r) => appends' \in Seq(C)
    <3>1. "delivered" \in QueueTypes \cup MarkTypes /\ "undelivered" \in QueueTypes \cup MarkTypes
          /\ "error" \in QueueTypes \cup MarkTypes /\ "compaction.failed" \in QueueTypes \cup MarkTypes
      BY <1>g
    <3>2. \A type \in {"delivered", "undelivered", "error", "compaction.failed"} : Event(type, o) \in E
      BY <1>b, <2>1, <3>1
    <3>3. \A by \in {o, "drain"}, r \in Seq(C), type \in {"delivered", "undelivered", "error", "compaction.failed"} :
             Append(r, Entry(by, Event(type, o))) \in Seq(C)
      BY <1>a, <2>1, <3>2
    <3> QED
      BY <3>3 DEF Follow
  <2>3. CASE ClaimRefused(o)
    BY <1>0, <1>e, <1>f, <2>2, <2>3 DEF ClaimRefused
  <2>4. CASE InterceptedAway(o)
    BY <1>0, <1>e, <1>f, <2>2, <2>4 DEF InterceptedAway, Release
  <2>5. CASE End(o)
    BY <1>0, <1>c, <1>e, <1>f, <2>2, <2>5 DEF End, Release, Heads
  <2>6. CASE OperationFails(o)
    BY <1>0, <1>d, <1>e, <1>f, <2>2, <2>6 DEF OperationFails, Release, Heads, Fault
  <2> QED
    BY <1>9, <2>3, <2>4, <2>5, <2>6 DEF Gives
<1>10. ASSUME NEW o \in Turns, Intercepted(o)  PROVE RecordTypes'
    BY <1>10, <1>a, <1>b, <1>c, <1>d, <1>e, <1>f, <1>g, <1>0, OneKind DEF Intercepted, Heads, Then
<1>11. ASSUME NEW o \in Turns, Messaged(o)  PROVE RecordTypes'
    BY <1>11, <1>a, <1>b, <1>c, <1>d, <1>e, <1>f, <1>g, <1>0, OneKind DEF Messaged, Heads, Then
<1>12. ASSUME NEW o \in Turns \cup Compactions \cup Shells, Stop(o)  PROVE RecordTypes'
  <2>1. o \in Ops /\ TerminalOf(o) \subseteq QueueTypes \cup MarkTypes
    BY <1>g, <1>12, OneKind DEF TerminalOf
  <2>2. \A type \in TerminalOf(o) : Append(appends, Entry(o, Event(type, o))) \in Seq(C)
    BY <1>0, <1>a, <1>b, <2>1
  <2> QED
    BY <1>e, <1>f, <1>12, <2>2 DEF Stop
<1>13. ASSUME NEW c \in Compactions, CompactionQueued(c)  PROVE RecordTypes'
    BY <1>13, <1>a, <1>b, <1>c, <1>d, <1>e, <1>f, <1>g, <1>0, OneKind
    DEF CompactionQueued, Heads, Then
<1>14. ASSUME NEW c \in Compactions, CompactionUnqueued(c)  PROVE RecordTypes'
    BY <1>14, <1>a, <1>b, <1>c, <1>d, <1>e, <1>f, <1>g, <1>0, OneKind
    DEF CompactionUnqueued, Heads, Then, Fault
<1>15. ASSUME NEW r \in Reloads, Rebuilt(r)  PROVE RecordTypes'
  <2>1. "error" \in QueueTypes \cup MarkTypes /\ r \in Ops
    BY <1>g, OneKind
  <2>2. Append(appends, Entry("drain", Event("error", r))) \in Seq(C)
    BY <1>0, <1>a, <1>b, <2>1
  <2> QED
    BY <1>0, <1>e, <1>f, <1>15, <2>2 DEF Rebuilt
<1>16. ASSUME DrainStarts  PROVE RecordTypes'
  <2>1. Head(queue) \in Items
    BY <1>16 DEF TypeOK, DrainStarts
  <2> QED
    BY <1>0, <1>a, <1>b, <1>e, <1>f, <1>g, <1>16, <2>1, OneKind DEF DrainStarts
<1>17. ASSUME DrainSends  PROVE RecordTypes'
    BY <1>17, <1>a, <1>b, <1>c, <1>d, <1>e, <1>f, <1>g, <1>0, OneKind DEF DrainSends, Heads, Then
<1>18. ASSUME DrainRecorded  PROVE RecordTypes'
    BY <1>18, <1>a, <1>b, <1>c, <1>d, <1>e, <1>f, <1>g, <1>0, OneKind DEF DrainRecorded, Heads, Then
<1>19. ASSUME DrainBreaks  PROVE RecordTypes'
    BY <1>19, <1>a, <1>b, <1>c, <1>d, <1>e, <1>f, <1>g, <1>0, OneKind
    DEF DrainBreaks, Heads, Then, Fault
<1>20. ASSUME NEW d \in Deliveries, Delivers(d)  PROVE RecordTypes'
  <2>1. d \in Ops /\ (target[d] # None => target[d] \in Ops)
    BY <1>0, OneKind
  <2>2. \A s \in Seq(C), type \in QueueTypes \cup MarkTypes :
           /\ Append(s, Entry(d, Event(type, d))) \in Seq(C)
           /\ target[d] # None => Append(s, Entry(d, Event(type, target[d]))) \in Seq(C)
    BY <1>a, <1>b, <2>1
  <2>a. \A s \in Seq(C) : Append(s, Entry(d, Event("interrupting", d))) \in Seq(C)
                         /\ Append(s, Entry(d, Event("undelivered", d))) \in Seq(C)
                         /\ (target[d] # None => Append(s, Entry(d, Event("assistant", target[d]))) \in Seq(C))
    BY <1>g, <2>2
  <2>b. Heads(d) => appends # <<>>
    BY DEF Heads
  <2>3. CASE DeliverRefused(d)
    BY <1>0, <1>e, <1>f, <2>3 DEF DeliverRefused
  <2>4. CASE DeliverRequest(d)
    BY <1>0, <1>e, <1>f, <1>g, <2>2, <2>4 DEF DeliverRequest
  <2>5. CASE DeliverRequested(d)
    BY <1>c, <1>e, <2>5, <2>a, <2>b DEF DeliverRequested, Then
  <2>6. CASE DeliverInterrupts(d)
    <3>1. ASSUME Has(target[d], {"message"})  PROVE target[d] # None
      BY <1>f, <3>1, EventTypes, OneKind DEF Has, Events
    <3> QED
      BY <1>c, <1>e, <2>6, <2>a, <2>b, <3>1 DEF DeliverInterrupts, Then
  <2>7. CASE DeliverClosed(d)
    BY <1>0, <1>c, <1>e, <2>7 DEF DeliverClosed, Heads
  <2>8. CASE Delivered(d)
    BY <1>0, <1>c, <1>e, <2>8 DEF Delivered, Heads
  <2>9. CASE DeliveryFails(d)
    BY <1>d, <1>e, <1>f, <2>9, <2>a, <2>b DEF DeliveryFails, Fault, Then
  <2> QED
    BY <1>20, <2>3, <2>4, <2>5, <2>6, <2>7, <2>8, <2>9 DEF Delivers
<1>21. ASSUME NEW o \in Items \cup Requeues \cup Restores, MutationFails(o)  PROVE RecordTypes'
    BY <1>21, <1>a, <1>b, <1>c, <1>d, <1>e, <1>f, <1>g, <1>0, OneKind
    DEF MutationFails, Heads, Then, Fault
<1>22. ASSUME Crash  PROVE RecordTypes'
    BY <1>22, <1>a, <1>h, <1>b, <1>c, <1>d, <1>e, <1>f, <1>g, <1>0, OneKind DEF Crash, Heads, Then
<1>23. ASSUME Resume  PROVE RecordTypes'
  <2>1. marks' \subseteq Events(MarkTypes)
    <3>1. \A t : Unended(t) => t \in Ops
      BY <1>f, EventTypes DEF Unended, Has, Events
    <3>2. \A x \in Ops : target[x] # None => target[x] \in Ops
      BY <1>0
    <3>3. \A e \in Owed : \E type \in MarkTypes, op \in Ops : e = Event(type, op)
      BY <1>g, <3>1, <3>2, OneKind DEF Owed, Lost, Undelivered, MarkTypes
    <3> QED
      BY <1>f, <1>23, <3>3, EventTypes DEF Resume
  <2>2. log' = log /\ repeated' = repeated
    BY <1>23 DEF Resume
  <2>3. appends' \in Seq(C)
    <3>1. CASE Pending = <<>>
      BY <1>h, <1>23, <3>1 DEF Resume
    <3>2. CASE Pending # <<>>
      <4>1. Head(Pending) \in Items
        <5>1. Pending \in Seq(Items)
          BY PendingQueued DEF QueueInv, WellFormed, Pending
        <5> QED
          BY <3>2, <5>1, HeadIn
      <4>2. appends' = <<Entry("resume", QueueEvent("paused", Head(Pending), Head(Pending), FALSE))>>
        BY <1>23, <3>2 DEF Resume
      <4>3. appends' = Append(<<>>, Entry("resume", QueueEvent("paused", Head(Pending), Head(Pending), FALSE)))
        BY <4>2
      <4> QED
        BY <1>a, <1>b, <1>g, <1>h, <4>1, <4>3, OneKind
    <3> QED
      BY <3>1, <3>2
  <2> QED
    BY <1>e, <1>f, <2>1, <2>2, <2>3
<1>24. ASSUME Paused  PROVE RecordTypes'
  <2>1. pausing \in Seq(Items) /\ Heads("resume")
    BY <1>24 DEF Paused, TypeOK
  <2>2. pausing # <<>> /\ (Tail(pausing) # <<>> => pausing[2] \in Items)
    BY <2>1, HeadKinds
  <2> QED
    BY <1>a, <1>b, <1>c, <1>e, <1>g, <1>24, <2>2, OneKind DEF Paused, Heads, Then
<1>25. Request => RecordTypes'
    BY <1>1, <1>2, <1>3, <1>4, <1>5, Zenon DEF Request
<1>26. Continue => RecordTypes'
    BY <1>1, <1>6, <1>7, <1>8, <1>9, <1>10, <1>11, <1>13, <1>15, <1>17, <1>18, <1>20, <1>23, <1>24,
       Zenon DEF Continue, Gives, Delivers
<1>27. Environment => RecordTypes'
    BY <1>1, <1>9, <1>14, <1>19, <1>20, <1>21, <1>22, Zenon DEF Environment, Gives, Delivers
<1>28. DrainLoop => RecordTypes'
    BY <1>1, <1>16, Zenon DEF DrainLoop
<1> QED
    BY UrgentTurns, <1>1, <1>9, <1>12, <1>25, <1>26, <1>27, <1>28, Zenon DEF Next, Works, Gives

\* The rest of the type invariant.
BranchTypes ==
    /\ activeTurn \in [op : Ops, kind : Kinds] \cup {None}
    /\ aborted \in BOOLEAN
    /\ aborted => activeTurn # None
    /\ rebuilding \in Reloads \cup {None}
    /\ interruptDelivery \in Deliveries \cup {None}
    /\ pendingInterrupts \subseteq Ops
WorkTypes ==
    /\ queue \in Seq(Items)
    /\ compactions \in Seq(Compactions)
    /\ reloads \in Seq(Reloads)
    /\ pausing \in Seq(Items)
DrainTypes ==
    /\ drain \in [at : {"idle", "loop", "starting", "sending", "failing", "compacting", "reloading"},
                  op : Items \cup Compactions \cup Reloads \cup {None}]
    /\ drain.op = None <=> drain.at \in {"idle", "loop"}
    /\ broken \in BOOLEAN
LifeTypes ==
    /\ mutation \in Items \cup Restores \cup Requeues \cup {None}
    /\ disposing \in BOOLEAN
    /\ stopping \in BOOLEAN
    /\ phase \in {"down", "open", "closing", "aborting", "draining", "gone"}
    /\ awaited \in Ops \cup {None}
    /\ interrupted \subseteq Ops
    /\ crashes \in 0..MaxCrashes
    /\ faults \in 0..MaxFaults
StageTypes ==
    /\ pc \in [Ops -> Stages]
    /\ target \in [Ops -> Ops \cup {None}]
ControlTypes == BranchTypes /\ WorkTypes /\ DrainTypes /\ LifeTypes /\ StageTypes

\* The owner of the branch is a record of an operation, not None.
LEMMA NoneIsNoTurn == \A o \in Ops, kind \in Kinds : [op |-> o, kind |-> kind] # None
<1>1. \A o \in Ops, kind \in Kinds : [op |-> o, kind |-> kind] \in [op : Ops, kind : {"turn", "compaction", "shell"}]
    BY DEF Kinds
<1> QED
    BY <1>1, SessionAssumption

\* interrupt() aborts the owner of the branch or remembers an operation.
LEMMA InterruptTypes ==
    ASSUME BranchTypes, interrupted \subseteq Ops, NEW t \in Ops \cup {None}, Interrupted(t)
    PROVE  /\ aborted' \in BOOLEAN /\ (aborted' => activeTurn # None)
           /\ pendingInterrupts' \subseteq Ops /\ interrupted' \subseteq Ops
<1> DEFINE effective == t # None /\ ~Has(t, {"assistant", "error", "shell", "compacted"})
           active == activeTurn # None /\ activeTurn.op = t
<1>1. /\ aborted' = (aborted \/ (effective /\ active))
      /\ pendingInterrupts' = IF effective /\ ~active THEN pendingInterrupts \cup {t} ELSE pendingInterrupts
      /\ interrupted' = IF effective THEN interrupted \cup {t} ELSE interrupted
    BY DEF Interrupted
<1>2. effective => t \in Ops
    OBVIOUS
<1>3. active => activeTurn # None
    OBVIOUS
<1> HIDE DEF effective, active
<1>4. aborted' \in BOOLEAN
    BY <1>1, Zenon
<1>5. aborted => activeTurn # None
    BY DEF BranchTypes
<1>6. aborted' => activeTurn # None
    BY <1>1, <1>3, <1>5, Zenon
<1>7. pendingInterrupts' \subseteq Ops /\ interrupted' \subseteq Ops
    BY <1>1, <1>2 DEF BranchTypes
<1> QED
    BY <1>4, <1>6, <1>7

\* interruptTargetOperationId names an operation, or nothing.
LEMMA TargetTypes ==
    ASSUME TypeOK
    PROVE  TargetNow \subseteq Ops \cup {None}
    BY OneKind DEF TargetNow, TypeOK

\* The memory of the session manager keeps its types: operations in the lists of their
\* kind, and an aborted controller only while an operation owns the branch.
LEMMA ControlTypeStep ==
    ASSUME TypeOK, StageInv, FlightInv, QueueInv, Next
    PROVE  ControlTypes'
<1>0. BranchTypes /\ WorkTypes /\ DrainTypes /\ LifeTypes /\ StageTypes
    BY DEF TypeOK, BranchTypes, WorkTypes, DrainTypes, LifeTypes, StageTypes
<1>a. ASSUME drain' = drain \/ drain' = Idle \/ drain' = Loop, broken' \in BOOLEAN  PROVE DrainTypes'
    BY <1>0, <1>a DEF DrainTypes, Idle, Loop
<1>b. StartDrain => DrainTypes'
    BY <1>0, <1>a, DrainWakes DEF DrainTypes
<1>c. ASSUME NEW o \in Items \cup Compactions \cup Reloads,
             NEW at \in {"starting", "sending", "failing", "compacting", "reloading"}, drain' = At(at, o), broken' = broken
      PROVE  DrainTypes'
    BY <1>0, <1>c, OneKind DEF At, DrainTypes
<1>d. \A s \in Stages, o \in Ops : [pc EXCEPT ![o] = s] \in [Ops -> Stages]
    BY <1>0 DEF StageTypes
<1>e. \A n \in 0..MaxFaults : n < MaxFaults => n + 1 \in 0..MaxFaults
    BY SessionAssumption
<1>f. \A n \in 0..MaxCrashes : n < MaxCrashes => n + 1 \in 0..MaxCrashes
    BY SessionAssumption
<1>g. Fault => faults' \in 0..MaxFaults /\ interrupted' = interrupted /\ crashes' = crashes
    BY <1>0, <1>e DEF Fault, LifeTypes
<1>h. UNCHANGED <<branch>> => BranchTypes'
    BY <1>0 DEF BranchTypes
<1>i. UNCHANGED <<work, pausing>> => WorkTypes'
    BY <1>0 DEF WorkTypes
<1>j. UNCHANGED <<mutation, disposing, stopping, phase, awaited, interrupted, crashes, faults>> => LifeTypes'
    BY <1>0 DEF LifeTypes
<1>1. ASSUME NEW i \in Items, NEW front \in Fronts, Enqueue(i, front)  PROVE ControlTypes'
  <2>1. BranchTypes'
    BY <1>0, <1>h, <1>1, OneKind DEF Enqueue, Mutate, BranchTypes
  <2>2. WorkTypes'
    BY <1>0, <1>i, <1>1, OneKind DEF Enqueue, Mutate, WorkTypes
  <2>3. DrainTypes'
    BY <1>0, <1>a, <1>b, <1>1 DEF Enqueue, Mutate, DrainTypes
  <2>4. LifeTypes'
    BY <1>0, <1>g, <1>j, <1>1, OneKind DEF Enqueue, Mutate, LifeTypes
  <2>5. StageTypes'
    BY <1>0, <1>1, OneKind DEF Enqueue, Mutate, StageTypes, Stages
  <2> QED
    BY <2>1, <2>2, <2>3, <2>4, <2>5 DEF ControlTypes
<1>2. ASSUME NEW q \in Requeues, NEW i \in Items, NEW front \in Fronts, Requeue(q, i, front)  PROVE ControlTypes'
  <2>1. BranchTypes'
    BY <1>0, <1>h, <1>2, OneKind DEF Requeue, Mutate, BranchTypes
  <2>2. WorkTypes'
    BY <1>0, <1>i, <1>2, OneKind DEF Requeue, Mutate, WorkTypes
  <2>3. DrainTypes'
    BY <1>0, <1>a, <1>b, <1>2 DEF Requeue, Mutate, DrainTypes
  <2>4. LifeTypes'
    BY <1>0, <1>g, <1>j, <1>2, OneKind DEF Requeue, Mutate, LifeTypes
  <2>5. StageTypes'
    BY <1>0, <1>2, OneKind DEF Requeue, Mutate, StageTypes, Stages
  <2> QED
    BY <2>1, <2>2, <2>3, <2>4, <2>5 DEF ControlTypes
<1>3. ASSUME NEW x \in Restores, Restore(x)  PROVE ControlTypes'
  <2>1. BranchTypes'
    BY <1>0, <1>h, <1>3, OneKind DEF Restore, Mutate, Called, BranchTypes
  <2>2. WorkTypes'
    BY <1>0, <1>i, <1>3, OneKind DEF Restore, Mutate, Called, WorkTypes
  <2>3. DrainTypes'
    BY <1>0, <1>a, <1>b, <1>3 DEF Restore, Mutate, Called, DrainTypes
  <2>4. LifeTypes'
    BY <1>0, <1>g, <1>j, <1>3, OneKind DEF Restore, Mutate, Called, LifeTypes
  <2>5. StageTypes'
    BY <1>0, <1>d, <1>3, TargetTypes, OneKind DEF Restore, Mutate, StageTypes, Stages
  <2> QED
    BY <2>1, <2>2, <2>3, <2>4, <2>5 DEF ControlTypes
<1>4. ASSUME NEW x \in Interrupts, InterruptAccepted(x)  PROVE ControlTypes'
  <2>1. BranchTypes'
    BY <1>0, <1>h, <1>4, OneKind DEF InterruptAccepted, BranchTypes
  <2>2. WorkTypes'
    BY <1>0, <1>i, <1>4, OneKind DEF InterruptAccepted, WorkTypes
  <2>3. DrainTypes'
    BY <1>0, <1>a, <1>b, <1>4 DEF InterruptAccepted, DrainTypes
  <2>4. LifeTypes'
    BY <1>0, <1>g, <1>j, <1>4, OneKind DEF InterruptAccepted, LifeTypes
  <2>5. StageTypes'
    BY <1>0, <1>d, <1>4, TargetTypes, OneKind DEF InterruptAccepted, StageTypes, Stages
  <2> QED
    BY <2>1, <2>2, <2>3, <2>4, <2>5 DEF ControlTypes
<1>5. ASSUME NEW p \in Prompts, Send(p)  PROVE ControlTypes'
  <2>1. BranchTypes'
    BY <1>0, <1>h, <1>5, OneKind DEF Send, BranchTypes
  <2>2. WorkTypes'
    BY <1>0, <1>i, <1>5, OneKind DEF Send, WorkTypes
  <2>3. DrainTypes'
    BY <1>0, <1>a, <1>b, <1>5 DEF Send, DrainTypes
  <2>4. LifeTypes'
    BY <1>0, <1>g, <1>j, <1>5, OneKind DEF Send, LifeTypes
  <2>5. StageTypes'
    BY <1>0, <1>5, OneKind DEF Send, StageTypes, Stages
  <2> QED
    BY <2>1, <2>2, <2>3, <2>4, <2>5 DEF ControlTypes
<1>6. ASSUME NEW d \in Deliveries, Reserve(d)  PROVE ControlTypes'
  <2>1. BranchTypes'
    BY <1>0, <1>h, <1>6, OneKind DEF Reserve, BranchTypes
  <2>2. WorkTypes'
    BY <1>0, <1>i, <1>6, OneKind DEF Reserve, WorkTypes
  <2>3. DrainTypes'
    BY <1>0, <1>a, <1>b, <1>6 DEF Reserve, DrainTypes
  <2>4. LifeTypes'
    BY <1>0, <1>g, <1>j, <1>6, OneKind DEF Reserve, LifeTypes
  <2>5. StageTypes'
    BY <1>0, <1>d, <1>6, TargetTypes, OneKind DEF Reserve, StageTypes, Stages
  <2> QED
    BY <2>1, <2>2, <2>3, <2>4, <2>5 DEF ControlTypes
<1>7. ASSUME NEW c \in Compactions, Compact(c)  PROVE ControlTypes'
  <2>1. BranchTypes'
    BY <1>0, <1>7, OneKind DEF Compact, OwnCompaction, BranchTypes, Kinds
  <2>2. WorkTypes'
    BY <1>0, <1>i, <1>7, OneKind DEF Compact, OwnCompaction, WorkTypes
  <2>3. DrainTypes'
    BY <1>0, <1>a, <1>b, <1>7 DEF Compact, OwnCompaction, DrainTypes
  <2>4. LifeTypes'
    BY <1>0, <1>g, <1>j, <1>7, OneKind DEF Compact, OwnCompaction, LifeTypes
  <2>5. StageTypes'
    BY <1>0, <1>7, OneKind DEF Compact, OwnCompaction, StageTypes, Stages
  <2> QED
    BY <2>1, <2>2, <2>3, <2>4, <2>5 DEF ControlTypes
<1>8. ASSUME NEW c \in Compactions, CompactLater(c)  PROVE ControlTypes'
  <2>1. BranchTypes'
    BY <1>0, <1>h, <1>8, OneKind DEF CompactLater, BranchTypes
  <2>2. WorkTypes'
    BY <1>0, <1>i, <1>8, OneKind DEF CompactLater, WorkTypes
  <2>3. DrainTypes'
    BY <1>0, <1>a, <1>b, <1>8 DEF CompactLater, DrainTypes
  <2>4. LifeTypes'
    BY <1>0, <1>g, <1>j, <1>8, OneKind DEF CompactLater, LifeTypes
  <2>5. StageTypes'
    BY <1>0, <1>8, OneKind DEF CompactLater, StageTypes, Stages
  <2> QED
    BY <2>1, <2>2, <2>3, <2>4, <2>5 DEF ControlTypes
<1>9. ASSUME NEW s \in Shells, Shell(s)  PROVE ControlTypes'
  <2>1. BranchTypes'
    BY <1>0, <1>h, <1>9, OneKind DEF Shell, BranchTypes
  <2>2. WorkTypes'
    BY <1>0, <1>i, <1>9, OneKind DEF Shell, WorkTypes
  <2>3. DrainTypes'
    BY <1>0, <1>a, <1>b, <1>9 DEF Shell, DrainTypes
  <2>4. LifeTypes'
    BY <1>0, <1>g, <1>j, <1>9, OneKind DEF Shell, LifeTypes
  <2>5. StageTypes'
    BY <1>0, <1>9, OneKind DEF Shell, StageTypes, Stages
  <2> QED
    BY <2>1, <2>2, <2>3, <2>4, <2>5 DEF ControlTypes
<1>10. ASSUME NEW r \in Reloads, Reload(r)  PROVE ControlTypes'
  <2>1. BranchTypes'
    BY <1>0, <1>h, <1>10, OneKind DEF Reload, BranchTypes
  <2>2. WorkTypes'
    BY <1>0, <1>i, <1>10, OneKind DEF Reload, WorkTypes
  <2>3. DrainTypes'
    BY <1>0, <1>a, <1>b, <1>10 DEF Reload, DrainTypes
  <2>4. LifeTypes'
    BY <1>0, <1>g, <1>j, <1>10, OneKind DEF Reload, LifeTypes
  <2>5. StageTypes'
    BY <1>0, <1>10, OneKind DEF Reload, StageTypes, Stages
  <2> QED
    BY <2>1, <2>2, <2>3, <2>4, <2>5 DEF ControlTypes
<1>11. ASSUME NEW r \in Reloads, ReloadLater(r)  PROVE ControlTypes'
  <2>1. BranchTypes'
    BY <1>0, <1>h, <1>11, OneKind DEF ReloadLater, BranchTypes
  <2>2. WorkTypes'
    BY <1>0, <1>i, <1>11, OneKind DEF ReloadLater, WorkTypes
  <2>3. DrainTypes'
    BY <1>0, <1>a, <1>b, <1>11 DEF ReloadLater, DrainTypes
  <2>4. LifeTypes'
    BY <1>0, <1>g, <1>j, <1>11, OneKind DEF ReloadLater, LifeTypes
  <2>5. StageTypes'
    BY <1>0, <1>11, OneKind DEF ReloadLater, StageTypes, Stages
  <2> QED
    BY <2>1, <2>2, <2>3, <2>4, <2>5 DEF ControlTypes
<1>12. ASSUME NEW i \in Items, Enqueued(i)  PROVE ControlTypes'
  <2>1. BranchTypes'
    BY <1>0, <1>h, <1>12, OneKind DEF Enqueued, MutationLanded, BranchTypes
  <2>2. WorkTypes'
    BY <1>0, <1>i, <1>12, OneKind DEF Enqueued, MutationLanded, WorkTypes
  <2>3. DrainTypes'
    BY <1>0, <1>a, <1>b, <1>12 DEF Enqueued, MutationLanded, DrainTypes
  <2>4. LifeTypes'
    BY <1>0, <1>g, <1>j, <1>12, OneKind DEF Enqueued, MutationLanded, LifeTypes
  <2>5. StageTypes'
    BY <1>0, <1>12, OneKind DEF Enqueued, MutationLanded, StageTypes, Stages
  <2> QED
    BY <2>1, <2>2, <2>3, <2>4, <2>5 DEF ControlTypes
<1>13. ASSUME NEW q \in Requeues, Requeued(q)  PROVE ControlTypes'
  <2>a. PICK i \in Items, front \in BOOLEAN :
           /\ pc' = [pc EXCEPT ![q] = "done", ![i] = "queued"]
           /\ queue' = IF front THEN <<i>> \o queue ELSE Append(queue, i)
    BY <1>13, RequeueLands
  <2>b. queue' \in Seq(Items)
    BY <1>0, <2>a DEF WorkTypes
  <2>1. BranchTypes'
    BY <1>0, <1>h, <1>13, OneKind DEF Requeued, MutationLanded, BranchTypes
  <2>2. WorkTypes'
    BY <1>0, <1>13, <2>b DEF Requeued, WorkTypes
  <2>3. DrainTypes'
    BY <1>0, <1>a, <1>b, <1>13 DEF Requeued, MutationLanded, DrainTypes
  <2>4. LifeTypes'
    BY <1>0, <1>g, <1>j, <1>13, OneKind DEF Requeued, MutationLanded, LifeTypes
  <2>5. StageTypes'
    BY <1>0, <1>13, <2>a, OneKind DEF Requeued, StageTypes, Stages
  <2> QED
    BY <2>1, <2>2, <2>3, <2>4, <2>5 DEF ControlTypes
<1>14. ASSUME NEW x \in Restores, Restored(x)  PROVE ControlTypes'
  <2>a. /\ aborted' \in BOOLEAN /\ (aborted' => activeTurn # None)
        /\ pendingInterrupts' \subseteq Ops /\ interrupted' \subseteq Ops
    <3>1. PICK t \in Ops \cup {None} : Interrupted(t)
      BY <1>0, <1>14, OneKind DEF Restored, StageTypes, BranchTypes
    <3> QED
      BY <1>0, <3>1, InterruptTypes DEF LifeTypes
  <2>b. activeTurn' = activeTurn /\ rebuilding' = rebuilding /\ interruptDelivery' = interruptDelivery
    BY <1>14 DEF Restored
  <2>1. BranchTypes'
    BY <1>0, <1>14, <2>a, <2>b DEF Restored, MutationLanded, BranchTypes
  <2>2. WorkTypes'
    BY <1>0, <1>i, <1>14, OneKind DEF Restored, MutationLanded, WorkTypes
  <2>3. DrainTypes'
    BY <1>0, <1>a, <1>b, <1>14 DEF Restored, MutationLanded, DrainTypes
  <2>4. LifeTypes'
    BY <1>0, <1>14, <2>a DEF Restored, MutationLanded, LifeTypes
  <2>5. StageTypes'
    BY <1>0, <1>14, OneKind DEF Restored, MutationLanded, StageTypes, Stages
  <2> QED
    BY <2>1, <2>2, <2>3, <2>4, <2>5 DEF ControlTypes
<1>15. ASSUME NEW x \in Interrupts, Interrupt(x)  PROVE ControlTypes'
  <2>a. /\ aborted' \in BOOLEAN /\ (aborted' => activeTurn # None)
        /\ pendingInterrupts' \subseteq Ops /\ interrupted' \subseteq Ops
    <3>1. PICK t \in Ops \cup {None} : Interrupted(t)
      BY <1>0, <1>15, OneKind DEF Interrupt, StageTypes, BranchTypes
    <3> QED
      BY <1>0, <3>1, InterruptTypes DEF LifeTypes
  <2>b. activeTurn' = activeTurn /\ rebuilding' = rebuilding /\ interruptDelivery' = interruptDelivery
    BY <1>15 DEF Interrupt
  <2>1. BranchTypes'
    BY <1>0, <1>15, <2>a, <2>b DEF Interrupt, BranchTypes
  <2>2. WorkTypes'
    BY <1>0, <1>i, <1>15, OneKind DEF Interrupt, WorkTypes
  <2>3. DrainTypes'
    BY <1>0, <1>a, <1>b, <1>15 DEF Interrupt, DrainTypes
  <2>4. LifeTypes'
    BY <1>0, <1>15, <2>a DEF Interrupt, LifeTypes
  <2>5. StageTypes'
    BY <1>0, <1>15, OneKind DEF Interrupt, StageTypes, Stages
  <2> QED
    BY <2>1, <2>2, <2>3, <2>4, <2>5 DEF ControlTypes
<1>16. ASSUME NEW o \in Turns, Claim(o)  PROVE ControlTypes'
  <2>a. /\ o \in Ops /\ activeTurn' = [op |-> o, kind |-> "turn"]
        /\ pendingInterrupts' = pendingInterrupts \ {o}
        /\ rebuilding' = rebuilding /\ interruptDelivery' = interruptDelivery
    BY <1>16, OneKind DEF Claim, Own
  <2>b. aborted' \in BOOLEAN
    <3>1. aborted' = (o \in pendingInterrupts)
      BY <1>16 DEF Claim, Own
    <3> QED
      BY <3>1
  <2>c. activeTurn' # None
    BY <2>a, NoneIsNoTurn DEF Kinds
  <2>1. BranchTypes'
    BY <1>0, <2>a, <2>b, <2>c DEF BranchTypes, Kinds
  <2>2. WorkTypes'
    BY <1>0, <1>i, <1>16, OneKind DEF Claim, WorkTypes
  <2>3. DrainTypes'
    BY <1>0, <1>a, <1>b, <1>16 DEF Claim, DrainTypes
  <2>4. LifeTypes'
    BY <1>0, <1>g, <1>j, <1>16, OneKind DEF Claim, LifeTypes
  <2>5. StageTypes'
    BY <1>0, <1>16, OneKind DEF Claim, StageTypes, Stages
  <2> QED
    BY <2>1, <2>2, <2>3, <2>4, <2>5 DEF ControlTypes
<1>17. ASSUME NEW o \in Turns \cup Compactions \cup Shells, Gives(o)  PROVE ControlTypes'
  <2>a. o \in Ops
    BY <1>17, OneKind
  <2>c. /\ rebuilding' = rebuilding /\ interruptDelivery' = interruptDelivery /\ pendingInterrupts' = pendingInterrupts
    BY <1>17, GivesStages, GivesBranch
  <2>d. (activeTurn' = activeTurn /\ aborted' = aborted) \/ (activeTurn' = None /\ aborted' = FALSE)
    BY <1>17, GivesStages, GivesBranch
  <2>f. aborted' \in BOOLEAN /\ (aborted' => activeTurn' # None)
    <3>1. aborted \in BOOLEAN /\ (aborted => activeTurn # None)
      BY <1>0 DEF BranchTypes
    <3>2. CASE activeTurn' = activeTurn /\ aborted' = aborted
      BY <3>1, <3>2, Zenon
    <3>3. CASE activeTurn' = None /\ aborted' = FALSE
      BY <3>3, Zenon
    <3> QED
      BY <2>d, <3>2, <3>3, Zenon
  <2>e. /\ broken' = broken
        /\ drain' = drain \/ drain' = Loop \/ (drain.op = o /\ drain' = At("failing", o))
    BY <1>17, GivesStages, GivesBranch
  <2>g. ASSUME drain.op = o, drain' = At("failing", o)  PROVE DrainTypes'
    <3>1. o \in Items \cup Compactions \cup Reloads
      BY <1>0, <2>a, <2>g, OneKind DEF DrainTypes
    <3> QED
      BY <1>c, <2>e, <2>g, <3>1
  <2>b. faults' \in 0..MaxFaults
    BY <1>0, <1>g, <1>17 DEF Gives, ClaimRefused, InterceptedAway, End, OperationFails, LifeTypes
  <2>1. BranchTypes'
    BY <1>0, <2>c, <2>d, <2>f DEF BranchTypes
  <2>2. WorkTypes'
    BY <1>0, <1>17, GivesBranch DEF WorkTypes
  <2>3. DrainTypes'
    BY <1>0, <1>a, <2>e, <2>g DEF DrainTypes
  <2>4. LifeTypes'
    BY <1>0, <1>17, <2>a, <2>b, GivesBranch DEF LifeTypes
  <2>5. StageTypes'
    BY <1>0, <1>17, GivesStages, GivesBranch DEF StageTypes
  <2> QED
    BY <2>1, <2>2, <2>3, <2>4, <2>5 DEF ControlTypes
<1>18. ASSUME NEW o \in Turns, Intercepted(o)  PROVE ControlTypes'
  <2>1. BranchTypes'
    BY <1>0, <1>h, <1>18, OneKind DEF Intercepted, BranchTypes
  <2>2. WorkTypes'
    BY <1>0, <1>i, <1>18, OneKind DEF Intercepted, WorkTypes
  <2>3. DrainTypes'
    BY <1>0, <1>a, <1>b, <1>18 DEF Intercepted, DrainTypes
  <2>4. LifeTypes'
    BY <1>0, <1>g, <1>j, <1>18, OneKind DEF Intercepted, LifeTypes
  <2>5. StageTypes'
    BY <1>0, <1>18, OneKind DEF Intercepted, StageTypes, Stages
  <2> QED
    BY <2>1, <2>2, <2>3, <2>4, <2>5 DEF ControlTypes
<1>19. ASSUME NEW o \in Turns, Messaged(o)  PROVE ControlTypes'
  <2>1. BranchTypes'
    BY <1>0, <1>h, <1>19, OneKind DEF Messaged, BranchTypes
  <2>2. WorkTypes'
    BY <1>0, <1>i, <1>19, OneKind DEF Messaged, WorkTypes
  <2>3. DrainTypes'
    BY <1>0, <1>a, <1>b, <1>19 DEF Messaged, DrainTypes
  <2>4. LifeTypes'
    BY <1>0, <1>g, <1>j, <1>19, OneKind DEF Messaged, LifeTypes
  <2>5. StageTypes'
    BY <1>0, <1>19, OneKind DEF Messaged, StageTypes, Stages
  <2> QED
    BY <2>1, <2>2, <2>3, <2>4, <2>5 DEF ControlTypes
<1>20. ASSUME NEW o \in Turns \cup Compactions \cup Shells, Stop(o)  PROVE ControlTypes'
  <2>1. BranchTypes'
    BY <1>0, <1>h, <1>20, OneKind DEF Stop, BranchTypes
  <2>2. WorkTypes'
    BY <1>0, <1>i, <1>20, OneKind DEF Stop, WorkTypes
  <2>3. DrainTypes'
    BY <1>0, <1>a, <1>b, <1>20 DEF Stop, DrainTypes
  <2>4. LifeTypes'
    BY <1>0, <1>g, <1>j, <1>20, OneKind DEF Stop, LifeTypes
  <2>5. StageTypes'
    BY <1>0, <1>20, OneKind DEF Stop, StageTypes, Stages
  <2> QED
    BY <2>1, <2>2, <2>3, <2>4, <2>5 DEF ControlTypes
<1>21. ASSUME NEW s \in Shells, ShellRuns(s)  PROVE ControlTypes'
  <2>a. /\ s \in Ops /\ activeTurn' = [op |-> s, kind |-> "shell"]
        /\ pendingInterrupts' = pendingInterrupts \ {s}
        /\ rebuilding' = rebuilding /\ interruptDelivery' = interruptDelivery
    BY <1>21, OneKind DEF ShellRuns, Own
  <2>b. aborted' \in BOOLEAN
    <3>1. aborted' = (s \in pendingInterrupts)
      BY <1>21 DEF ShellRuns, Own
    <3> QED
      BY <3>1
  <2>c. activeTurn' # None
    BY <2>a, NoneIsNoTurn DEF Kinds
  <2>1. BranchTypes'
    BY <1>0, <2>a, <2>b, <2>c DEF BranchTypes, Kinds
  <2>2. WorkTypes'
    BY <1>0, <1>i, <1>21, OneKind DEF ShellRuns, WorkTypes
  <2>3. DrainTypes'
    BY <1>0, <1>a, <1>b, <1>21 DEF ShellRuns, DrainTypes
  <2>4. LifeTypes'
    BY <1>0, <1>g, <1>j, <1>21, OneKind DEF ShellRuns, LifeTypes
  <2>5. StageTypes'
    BY <1>0, <1>21, OneKind DEF ShellRuns, StageTypes, Stages
  <2> QED
    BY <2>1, <2>2, <2>3, <2>4, <2>5 DEF ControlTypes
<1>22. ASSUME NEW s \in Shells, ShellRefused(s)  PROVE ControlTypes'
  <2>1. BranchTypes'
    BY <1>0, <1>h, <1>22, OneKind DEF ShellRefused, BranchTypes
  <2>2. WorkTypes'
    BY <1>0, <1>i, <1>22, OneKind DEF ShellRefused, WorkTypes
  <2>3. DrainTypes'
    BY <1>0, <1>a, <1>b, <1>22 DEF ShellRefused, DrainTypes
  <2>4. LifeTypes'
    BY <1>0, <1>g, <1>j, <1>22, OneKind DEF ShellRefused, LifeTypes
  <2>5. StageTypes'
    BY <1>0, <1>22, OneKind DEF ShellRefused, StageTypes, Stages
  <2> QED
    BY <2>1, <2>2, <2>3, <2>4, <2>5 DEF ControlTypes
<1>23. ASSUME NEW c \in Compactions, CompactionQueued(c)  PROVE ControlTypes'
  <2>1. BranchTypes'
    BY <1>0, <1>h, <1>23, OneKind DEF CompactionQueued, BranchTypes
  <2>2. WorkTypes'
    BY <1>0, <1>i, <1>23, OneKind DEF CompactionQueued, WorkTypes
  <2>3. DrainTypes'
    BY <1>0, <1>a, <1>b, <1>23 DEF CompactionQueued, DrainTypes
  <2>4. LifeTypes'
    BY <1>0, <1>g, <1>j, <1>23, OneKind DEF CompactionQueued, LifeTypes
  <2>5. StageTypes'
    BY <1>0, <1>23, OneKind DEF CompactionQueued, StageTypes, Stages
  <2> QED
    BY <2>1, <2>2, <2>3, <2>4, <2>5 DEF ControlTypes
<1>24. ASSUME NEW c \in Compactions, CompactionUnqueued(c)  PROVE ControlTypes'
  <2>1. BranchTypes'
    BY <1>0, <1>h, <1>24, OneKind DEF CompactionUnqueued, BranchTypes
  <2>2. WorkTypes'
    BY <1>0, <1>i, <1>24, OneKind DEF CompactionUnqueued, WorkTypes
  <2>3. DrainTypes'
    BY <1>0, <1>a, <1>b, <1>24 DEF CompactionUnqueued, DrainTypes
  <2>4. LifeTypes'
    BY <1>0, <1>g, <1>j, <1>24, OneKind DEF CompactionUnqueued, LifeTypes
  <2>5. StageTypes'
    BY <1>0, <1>24, OneKind DEF CompactionUnqueued, StageTypes, Stages
  <2> QED
    BY <2>1, <2>2, <2>3, <2>4, <2>5 DEF ControlTypes
<1>25. ASSUME NEW r \in Reloads, Rebuild(r)  PROVE ControlTypes'
  <2>1. BranchTypes'
    BY <1>0, <1>h, <1>25, OneKind DEF Rebuild, BranchTypes
  <2>2. WorkTypes'
    BY <1>0, <1>i, <1>25, OneKind DEF Rebuild, WorkTypes
  <2>3. DrainTypes'
    BY <1>0, <1>a, <1>b, <1>25 DEF Rebuild, DrainTypes
  <2>4. LifeTypes'
    BY <1>0, <1>g, <1>j, <1>25, OneKind DEF Rebuild, LifeTypes
  <2>5. StageTypes'
    BY <1>0, <1>25, OneKind DEF Rebuild, StageTypes, Stages
  <2> QED
    BY <2>1, <2>2, <2>3, <2>4, <2>5 DEF ControlTypes
<1>26. ASSUME NEW r \in Reloads, Rebuilt(r)  PROVE ControlTypes'
  <2>1. BranchTypes'
    BY <1>0, <1>h, <1>26, OneKind DEF Rebuilt, BranchTypes
  <2>2. WorkTypes'
    BY <1>0, <1>i, <1>26, OneKind DEF Rebuilt, WorkTypes
  <2>3. DrainTypes'
    BY <1>0, <1>a, <1>c, <1>26 DEF Rebuilt, DrainTypes
  <2>4. LifeTypes'
    BY <1>0, <1>g, <1>j, <1>26, OneKind DEF Rebuilt, LifeTypes
  <2>5. StageTypes'
    BY <1>0, <1>26, OneKind DEF Rebuilt, StageTypes, Stages
  <2> QED
    BY <2>1, <2>2, <2>3, <2>4, <2>5 DEF ControlTypes
<1>27. ASSUME DrainStops  PROVE ControlTypes'
  <2>1. BranchTypes'
    BY <1>0, <1>h, <1>27, OneKind DEF DrainStops, BranchTypes
  <2>2. WorkTypes'
    BY <1>0, <1>i, <1>27, OneKind DEF DrainStops, WorkTypes
  <2>3. DrainTypes'
    BY <1>0, <1>a, <1>b, <1>27 DEF DrainStops, DrainTypes
  <2>4. LifeTypes'
    BY <1>0, <1>g, <1>j, <1>27, OneKind DEF DrainStops, LifeTypes
  <2>5. StageTypes'
    BY <1>0, <1>27, OneKind DEF DrainStops, StageTypes, Stages
  <2> QED
    BY <2>1, <2>2, <2>3, <2>4, <2>5 DEF ControlTypes
<1>28. ASSUME DrainCompacts  PROVE ControlTypes'
  <2>a. Head(compactions) \in Compactions /\ Tail(compactions) \in Seq(Compactions)
    BY <1>0, <1>28, HeadIn DEF WorkTypes, DrainCompacts
  <2>1. BranchTypes'
    BY <1>0, <1>28, <2>a, OneKind DEF DrainCompacts, OwnCompaction, BranchTypes, Kinds
  <2>2. WorkTypes'
    BY <1>0, <1>28, <2>a DEF DrainCompacts, WorkTypes
  <2>3. DrainTypes'
    BY <1>c, <1>28, <2>a DEF DrainCompacts
  <2>4. LifeTypes'
    BY <1>0, <1>g, <1>j, <1>28, OneKind DEF DrainCompacts, OwnCompaction, LifeTypes
  <2>5. StageTypes'
    BY <1>0, <1>28, OneKind DEF DrainCompacts, OwnCompaction, StageTypes, Stages
  <2> QED
    BY <2>1, <2>2, <2>3, <2>4, <2>5 DEF ControlTypes
<1>29. ASSUME DrainReloads  PROVE ControlTypes'
  <2>a. Head(reloads) \in Reloads /\ Tail(reloads) \in Seq(Reloads)
    BY <1>0, <1>29, HeadIn DEF WorkTypes, DrainReloads
  <2>1. BranchTypes'
    BY <1>0, <1>29, <2>a, OneKind DEF DrainReloads, BranchTypes
  <2>2. WorkTypes'
    BY <1>0, <1>29, <2>a DEF DrainReloads, WorkTypes
  <2>3. DrainTypes'
    BY <1>c, <1>29, <2>a DEF DrainReloads
  <2>4. LifeTypes'
    BY <1>0, <1>g, <1>j, <1>29, OneKind DEF DrainReloads, LifeTypes
  <2>5. StageTypes'
    BY <1>0, <1>29, OneKind DEF DrainReloads, StageTypes, Stages
  <2> QED
    BY <2>1, <2>2, <2>3, <2>4, <2>5 DEF ControlTypes
<1>30. ASSUME DrainStarts  PROVE ControlTypes'
  <2>a. Head(queue) \in Items /\ Tail(queue) \in Seq(Items)
    BY <1>0, <1>30, HeadIn DEF WorkTypes, DrainStarts
  <2>1. BranchTypes'
    BY <1>0, <1>h, <1>30, OneKind DEF DrainStarts, BranchTypes
  <2>2. WorkTypes'
    BY <1>0, <1>30, <2>a DEF DrainStarts, WorkTypes
  <2>3. DrainTypes'
    BY <1>c, <1>30, <2>a DEF DrainStarts
  <2>4. LifeTypes'
    BY <1>0, <1>g, <1>j, <1>30, OneKind DEF DrainStarts, LifeTypes
  <2>5. StageTypes'
    BY <1>0, <1>30, OneKind DEF DrainStarts, StageTypes, Stages
  <2> QED
    BY <2>1, <2>2, <2>3, <2>4, <2>5 DEF ControlTypes
<1>31. ASSUME DrainSends  PROVE ControlTypes'
  <2>1. BranchTypes'
    BY <1>0, <1>h, <1>31, OneKind DEF DrainSends, BranchTypes
  <2>2. WorkTypes'
    BY <1>0, <1>i, <1>31, OneKind DEF DrainSends, WorkTypes
  <2>3. DrainTypes'
    BY <1>0, <1>c, <1>31, OneKind DEF DrainSends, DrainTypes
  <2>4. LifeTypes'
    BY <1>0, <1>g, <1>j, <1>31, OneKind DEF DrainSends, LifeTypes
  <2>5. StageTypes'
    BY <1>0, <1>31, OneKind DEF DrainSends, StageTypes, Stages
  <2> QED
    BY <2>1, <2>2, <2>3, <2>4, <2>5 DEF ControlTypes
<1>32. ASSUME DrainRecorded  PROVE ControlTypes'
  <2>1. BranchTypes'
    BY <1>0, <1>h, <1>32, OneKind DEF DrainRecorded, BranchTypes
  <2>2. WorkTypes'
    BY <1>0, <1>i, <1>32, OneKind DEF DrainRecorded, WorkTypes
  <2>3. DrainTypes'
    BY <1>0, <1>a, <1>b, <1>32 DEF DrainRecorded, DrainTypes
  <2>4. LifeTypes'
    BY <1>0, <1>g, <1>j, <1>32, OneKind DEF DrainRecorded, LifeTypes
  <2>5. StageTypes'
    BY <1>0, <1>32, OneKind DEF DrainRecorded, StageTypes, Stages
  <2> QED
    BY <2>1, <2>2, <2>3, <2>4, <2>5 DEF ControlTypes
<1>33. ASSUME DrainBreaks  PROVE ControlTypes'
  <2>1. BranchTypes'
    BY <1>0, <1>h, <1>33, OneKind DEF DrainBreaks, BranchTypes
  <2>2. WorkTypes'
    BY <1>0, <1>i, <1>33, OneKind DEF DrainBreaks, WorkTypes
  <2>3. DrainTypes'
    BY <1>0, <1>a, <1>b, <1>33 DEF DrainBreaks, DrainTypes
  <2>4. LifeTypes'
    BY <1>0, <1>g, <1>j, <1>33, OneKind DEF DrainBreaks, LifeTypes
  <2>5. StageTypes'
    BY <1>0, <1>33, OneKind DEF DrainBreaks, StageTypes, Stages
  <2> QED
    BY <2>1, <2>2, <2>3, <2>4, <2>5 DEF ControlTypes
<1>34. ASSUME NEW d \in Deliveries, Delivers(d)  PROVE ControlTypes'
  <2>a. /\ activeTurn' = activeTurn /\ rebuilding' = rebuilding /\ interruptDelivery' \in {None, interruptDelivery}
        /\ pendingInterrupts' \in {pendingInterrupts, pendingInterrupts \ {d}}
    BY <1>34, DeliveryGoesOn
  <2>c. aborted' \in BOOLEAN /\ (aborted' => activeTurn # None)
    <3>1. aborted' = aborted \/ (aborted' = TRUE /\ activeTurn # None)
      BY <1>34
      DEF Delivers, DeliverRefused, DeliverRequest, DeliverRequested, DeliverInterrupts,
          DeliverClosed,
         Delivered, DeliveryFails, EndDelivery, Unreserve
    <3>2. aborted \in BOOLEAN /\ (aborted => activeTurn # None)
      BY <1>0 DEF BranchTypes
    <3>3. CASE aborted' = aborted
      BY <3>2, <3>3, Zenon
    <3>4. CASE aborted' = TRUE /\ activeTurn # None
      BY <3>4, Zenon
    <3> QED
      BY <3>1, <3>3, <3>4, Zenon
  <2>b. faults' \in 0..MaxFaults
    BY <1>0, <1>g, <1>34
    DEF Delivers, DeliverRefused, DeliverRequest, DeliverRequested, DeliverInterrupts,
        DeliverClosed,
       Delivered, DeliveryFails, LifeTypes
  <2>1. BranchTypes'
    BY <1>0, <2>a, <2>c DEF BranchTypes
  <2>2. WorkTypes'
    BY <1>0, <1>34, DeliveryGoesOn DEF WorkTypes
  <2>3. DrainTypes'
    BY <1>0, <1>a, <1>34, DeliveryGoesOn DEF DrainTypes
  <2>4. LifeTypes'
    BY <1>0, <1>34, <2>b, DeliveryGoesOn DEF LifeTypes
  <2>5. StageTypes'
    BY <1>0, <1>34, DeliveryGoesOn, OneKind DEF StageTypes, Stages
  <2> QED
    BY <2>1, <2>2, <2>3, <2>4, <2>5 DEF ControlTypes
<1>35. ASSUME NEW o \in Items \cup Requeues \cup Restores, MutationFails(o)  PROVE ControlTypes'
  <2>1. BranchTypes'
    BY <1>0, <1>h, <1>35, OneKind DEF MutationFails, BranchTypes
  <2>2. WorkTypes'
    BY <1>0, <1>i, <1>35, OneKind DEF MutationFails, WorkTypes
  <2>3. DrainTypes'
    BY <1>0, <1>a, <1>b, <1>35 DEF MutationFails, DrainTypes
  <2>4. LifeTypes'
    BY <1>0, <1>g, <1>j, <1>35, OneKind DEF MutationFails, LifeTypes
  <2>5. StageTypes'
    BY <1>0, <1>35, OneKind DEF MutationFails, StageTypes, Stages
  <2> QED
    BY <2>1, <2>2, <2>3, <2>4, <2>5 DEF ControlTypes
<1>36. ASSUME Dispose  PROVE ControlTypes'
  <2>1. BranchTypes'
    BY <1>0, <1>h, <1>36, OneKind DEF Dispose, BranchTypes
  <2>2. WorkTypes'
    BY <1>0, <1>i, <1>36, OneKind DEF Dispose, WorkTypes
  <2>3. DrainTypes'
    BY <1>0, <1>a, <1>b, <1>36 DEF Dispose, DrainTypes
  <2>4. LifeTypes'
    BY <1>0, <1>g, <1>j, <1>36, OneKind DEF Dispose, LifeTypes
  <2>5. StageTypes'
    BY <1>0, <1>36, OneKind DEF Dispose, StageTypes, Stages
  <2> QED
    BY <2>1, <2>2, <2>3, <2>4, <2>5 DEF ControlTypes
<1>37. ASSUME DisposeAborts  PROVE ControlTypes'
  <2>1. BranchTypes'
    BY <1>0, <1>h, <1>37, OneKind DEF DisposeAborts, BranchTypes
  <2>2. WorkTypes'
    BY <1>0, <1>i, <1>37, OneKind DEF DisposeAborts, WorkTypes
  <2>3. DrainTypes'
    BY <1>0, <1>a, <1>b, <1>37 DEF DisposeAborts, DrainTypes
  <2>4. LifeTypes'
    BY <1>0, <1>37, OneKind DEF DisposeAborts, BranchTypes, LifeTypes
  <2>5. StageTypes'
    BY <1>0, <1>37, OneKind DEF DisposeAborts, StageTypes, Stages
  <2> QED
    BY <2>1, <2>2, <2>3, <2>4, <2>5 DEF ControlTypes
<1>38. ASSUME DisposeWaited  PROVE ControlTypes'
  <2>1. BranchTypes'
    BY <1>0, <1>h, <1>38, OneKind DEF DisposeWaited, BranchTypes
  <2>2. WorkTypes'
    BY <1>0, <1>i, <1>38, OneKind DEF DisposeWaited, WorkTypes
  <2>3. DrainTypes'
    BY <1>0, <1>a, <1>b, <1>38 DEF DisposeWaited, DrainTypes
  <2>4. LifeTypes'
    BY <1>0, <1>g, <1>j, <1>38, OneKind DEF DisposeWaited, LifeTypes
  <2>5. StageTypes'
    BY <1>0, <1>38, OneKind DEF DisposeWaited, StageTypes, Stages
  <2> QED
    BY <2>1, <2>2, <2>3, <2>4, <2>5 DEF ControlTypes
<1>39. ASSUME Disposed  PROVE ControlTypes'
  <2>1. BranchTypes'
    BY <1>0, <1>h, <1>39, OneKind DEF Disposed, BranchTypes
  <2>2. WorkTypes'
    BY <1>0, <1>i, <1>39, OneKind DEF Disposed, WorkTypes
  <2>3. DrainTypes'
    BY <1>0, <1>a, <1>b, <1>39 DEF Disposed, DrainTypes
  <2>4. LifeTypes'
    BY <1>0, <1>g, <1>j, <1>39, OneKind DEF Disposed, LifeTypes
  <2>5. StageTypes'
    BY <1>0, <1>39, OneKind DEF Disposed, StageTypes, Stages
  <2> QED
    BY <2>1, <2>2, <2>3, <2>4, <2>5 DEF ControlTypes
<1>40. ASSUME BeginShutdown  PROVE ControlTypes'
  <2>1. BranchTypes'
    BY <1>0, <1>h, <1>40, OneKind DEF BeginShutdown, BranchTypes
  <2>2. WorkTypes'
    BY <1>0, <1>i, <1>40, OneKind DEF BeginShutdown, WorkTypes
  <2>3. DrainTypes'
    BY <1>0, <1>a, <1>b, <1>40 DEF BeginShutdown, DrainTypes
  <2>4. LifeTypes'
    BY <1>0, <1>g, <1>j, <1>40, OneKind DEF BeginShutdown, LifeTypes
  <2>5. StageTypes'
    BY <1>0, <1>40, OneKind DEF BeginShutdown, StageTypes, Stages
  <2> QED
    BY <2>1, <2>2, <2>3, <2>4, <2>5 DEF ControlTypes
<1>41. ASSUME Crash  PROVE ControlTypes'
  <2>1. BranchTypes'
    BY <1>0, <1>h, <1>41, OneKind DEF Crash, BranchTypes
  <2>2. WorkTypes'
    BY <1>0, <1>i, <1>41, OneKind DEF Crash, WorkTypes
  <2>3. DrainTypes'
    BY <1>0, <1>a, <1>b, <1>41 DEF Crash, DrainTypes
  <2>4. LifeTypes'
    BY <1>0, <1>f, <1>41 DEF Crash, LifeTypes
  <2>5. StageTypes'
    BY <1>0, <1>41, OneKind DEF Crash, StageTypes, Stages
  <2> QED
    BY <2>1, <2>2, <2>3, <2>4, <2>5 DEF ControlTypes
<1>42. ASSUME Resume  PROVE ControlTypes'
  <2>a. Pending \in Seq(Items)
    BY PendingQueued DEF QueueInv, WellFormed, Pending
  <2>1. BranchTypes'
    BY <1>0, <1>h, <1>42, OneKind DEF Resume, BranchTypes
  <2>2. WorkTypes'
    BY <1>0, <1>42, <2>a DEF Resume, WorkTypes
  <2>3. DrainTypes'
    BY <1>0, <1>a, <1>b, <1>42 DEF Resume, DrainTypes
  <2>4. LifeTypes'
    BY <1>0, <1>g, <1>j, <1>42, OneKind DEF Resume, LifeTypes
  <2>5. StageTypes'
    BY <1>0, <1>42, OneKind DEF Resume, StageTypes, Stages
  <2> QED
    BY <2>1, <2>2, <2>3, <2>4, <2>5 DEF ControlTypes
<1>43. ASSUME Paused  PROVE ControlTypes'
  <2>a. pausing # <<>>
    BY <1>43, HeadKinds DEF Paused
  <2>1. BranchTypes'
    BY <1>0, <1>h, <1>43, OneKind DEF Paused, BranchTypes
  <2>2. WorkTypes'
    BY <1>0, <1>43, <2>a, HeadIn DEF Paused, WorkTypes
  <2>3. DrainTypes'
    BY <1>0, <1>a, <1>b, <1>43 DEF Paused, DrainTypes
  <2>4. LifeTypes'
    BY <1>0, <1>g, <1>j, <1>43, OneKind DEF Paused, LifeTypes
  <2>5. StageTypes'
    BY <1>0, <1>43, OneKind DEF Paused, StageTypes, Stages
  <2> QED
    BY <2>1, <2>2, <2>3, <2>4, <2>5 DEF ControlTypes
<1>44. Request => ControlTypes'
    BY <1>1, <1>2, <1>3, <1>4, <1>5, <1>6, <1>7, <1>8, <1>9, <1>10, <1>11, Zenon DEF Request
<1>45. Continue => ControlTypes'
    BY <1>12, <1>13, <1>14, <1>15, <1>16, <1>17, <1>18, <1>19, <1>21, <1>22, <1>23, <1>25, <1>26,
       <1>31, <1>32, <1>34, <1>37, <1>38, <1>39, <1>42, <1>43, Zenon DEF Continue, Gives, Delivers
<1>46. Environment => ControlTypes'
    BY <1>17, <1>24, <1>33, <1>34, <1>35, <1>36, <1>40, <1>41, Zenon
    DEF Environment, Gives, Delivers
<1>47. DrainLoop => ControlTypes'
    BY <1>27, <1>28, <1>29, <1>30, Zenon DEF DrainLoop
<1> QED
    BY UrgentTurns, <1>16, <1>17, <1>20, <1>44, <1>45, <1>46, <1>47, Zenon DEF Next, Works, Gives

\* Every step keeps the types.
LEMMA TypeStep ==
    ASSUME TypeOK, StageInv, FlightInv, QueueInv, Next
    PROVE  TypeOK'
<1>1. RecordTypes' /\ ControlTypes'
    BY RecordTypeStep, ControlTypeStep
<1> QED
    BY <1>1
    DEF RecordTypes, ControlTypes, BranchTypes, WorkTypes, DrainTypes, LifeTypes, StageTypes, TypeOK

-----------------------------------------------------------------------------
(* Who owns the branch *)

\* Every step leaves inside an operation at most the one that activeTurn names: an operation
\* starts when the branch is free, and the branch is given back with the operation.
LEMMA OwnerStep ==
    ASSUME TypeOK, StageInv, OwnerInv, DrainInv, FlightInv, QueueInv, Next
    PROVE  OwnerInv'
<1>0. /\ pc \in [Ops -> Stages] /\ activeTurn \in [op : Ops, kind : Kinds] \cup {None}
      /\ activeTurn # None => activeTurn.op \in Ops
    BY DEF TypeOK
<1>a. ASSUME activeTurn' = activeTurn, \A o \in Ops : pc'[o] \in Working <=> pc[o] \in Working
      PROVE  OwnerInv'
    BY <1>0, <1>a DEF OwnerInv, OneOwner, Working
<1>b. ASSUME NEW x \in Ops, NEW s \in Stages, pc' = [pc EXCEPT ![x] = s], activeTurn' = activeTurn,
             pc[x] \in Working <=> s \in Working
      PROVE  OwnerInv'
    BY <1>0, <1>a, <1>b
<1>c. ASSUME NEW x \in Ops, NEW s \in Working, NEW kind \in Kinds, pc' = [pc EXCEPT ![x] = s],
             activeTurn = None, activeTurn' = [op |-> x, kind |-> kind]
      PROVE  OwnerInv'
  <2>1. activeTurn' # None /\ activeTurn'.op = x
    BY <1>c, NoneIsNoTurn
  <2>2. \A o \in Ops : pc[o] \notin Working
    BY <1>c DEF OwnerInv, OneOwner, Working
  <2>3. \A o \in Ops : pc'[o] \in Working <=> o = x
    BY <1>0, <1>c, <2>2
  <2> QED
    BY <1>c, <2>1, <2>3 DEF OwnerInv, OneOwner, Working
<1>1. ASSUME \/ Dispose \/ DisposeAborts \/ DisposeWaited \/ Disposed \/ BeginShutdown \/ DrainStops
             \/ DrainStarts \/ DrainRecorded \/ Resume \/ Paused
      PROVE  OwnerInv'
    BY <1>1, <1>a
    DEF Dispose, DisposeAborts, DisposeWaited, Disposed, BeginShutdown, DrainStops, DrainStarts,
        DrainRecorded, Resume, Paused
<1>2. ASSUME NEW i \in Items, NEW front \in Fronts, Enqueue(i, front)  PROVE OwnerInv'
  <2>1. i \in Ops /\ pc[i] = "idle" /\ activeTurn' = activeTurn /\ pc' = [pc EXCEPT ![i] = "recording"]
    BY <1>2, OneKind DEF Enqueue, Mutate, Called
  <2> QED
    BY <1>b, <2>1 DEF Stages, Working
<1>3. ASSUME NEW q \in Requeues, NEW i \in Items, NEW front \in Fronts, Requeue(q, i, front)  PROVE OwnerInv'
  <2>1. q \in Ops /\ pc[q] = "idle" /\ activeTurn' = activeTurn /\ pc' = [pc EXCEPT ![q] = "recording"]
    BY <1>3, OneKind DEF Requeue, Mutate, Called
  <2> QED
    BY <1>b, <2>1 DEF Stages, Working
<1>4. ASSUME NEW x \in Restores, Restore(x)  PROVE OwnerInv'
  <2>1. x \in Ops /\ pc[x] = "idle" /\ activeTurn' = activeTurn /\ pc' = [pc EXCEPT ![x] = "recording"]
    BY <1>4, OneKind DEF Restore, Mutate, Called
  <2> QED
    BY <1>b, <2>1 DEF Stages, Working
<1>5. ASSUME NEW x \in Interrupts, InterruptAccepted(x)  PROVE OwnerInv'
  <2>1. x \in Ops /\ pc[x] = "idle" /\ activeTurn' = activeTurn /\ pc' = [pc EXCEPT ![x] = "targeted"]
    BY <1>5, OneKind DEF InterruptAccepted, Called
  <2> QED
    BY <1>b, <2>1 DEF Stages, Working
<1>6. ASSUME NEW p \in Prompts, Send(p)  PROVE OwnerInv'
  <2>1. p \in Ops /\ pc[p] = "idle" /\ activeTurn' = activeTurn /\ pc' = [pc EXCEPT ![p] = "claiming"]
    BY <1>6, OneKind DEF Send, Called
  <2> QED
    BY <1>b, <2>1 DEF Stages, Working
<1>7. ASSUME NEW d \in Deliveries, Reserve(d)  PROVE OwnerInv'
  <2>1. d \in Ops /\ pc[d] = "idle" /\ activeTurn' = activeTurn /\ pc' = [pc EXCEPT ![d] = "reserved"]
    BY <1>7, OneKind DEF Reserve, Called
  <2> QED
    BY <1>b, <2>1 DEF Stages, Working
<1>8. ASSUME NEW c \in Compactions, Compact(c)  PROVE OwnerInv'
  <2>1. /\ c \in Ops /\ activeTurn = None /\ activeTurn' = [op |-> c, kind |-> "compaction"]
        /\ pc' = [pc EXCEPT ![c] = "working"]
    BY <1>8, OneKind DEF Compact, Free, OwnCompaction
  <2> QED
    BY <1>c, <2>1 DEF Working, Kinds
<1>9. ASSUME NEW c \in Compactions, CompactLater(c)  PROVE OwnerInv'
  <2>1. c \in Ops /\ pc[c] = "idle" /\ activeTurn' = activeTurn /\ pc' = [pc EXCEPT ![c] = "recording"]
    BY <1>9, OneKind DEF CompactLater, Called
  <2> QED
    BY <1>b, <2>1 DEF Stages, Working
<1>10. ASSUME NEW s \in Shells, Shell(s)  PROVE OwnerInv'
  <2>1. s \in Ops /\ pc[s] = "idle" /\ activeTurn' = activeTurn /\ pc' = [pc EXCEPT ![s] = "claiming"]
    BY <1>10, OneKind DEF Shell, Called
  <2> QED
    BY <1>b, <2>1 DEF Stages, Working
<1>11. ASSUME NEW r \in Reloads, Reload(r)  PROVE OwnerInv'
  <2>1. r \in Ops /\ pc[r] = "idle" /\ activeTurn' = activeTurn /\ pc' = [pc EXCEPT ![r] = "deciding"]
    BY <1>11, OneKind DEF Reload, Called
  <2> QED
    BY <1>b, <2>1 DEF Stages, Working
<1>12. ASSUME NEW r \in Reloads, ReloadLater(r)  PROVE OwnerInv'
  <2>1. r \in Ops /\ pc[r] = "idle" /\ activeTurn' = activeTurn /\ pc' = [pc EXCEPT ![r] = "queued"]
    BY <1>12, OneKind DEF ReloadLater
  <2> QED
    BY <1>b, <2>1 DEF Stages, Working
<1>13. ASSUME NEW i \in Items, Enqueued(i)  PROVE OwnerInv'
  <2>1. /\ i \in Ops /\ pc[i] = "recording"
    BY <1>13, OneKind DEF Enqueued, MutationLanded, StageInv
  <2>2. activeTurn' = activeTurn /\ pc' = [pc EXCEPT ![i] = "queued"]
    BY <1>13 DEF Enqueued, MutationLanded
  <2> QED
    BY <1>b, <2>1, <2>2 DEF Stages, Working
<1>14. ASSUME NEW q \in Requeues, Requeued(q)  PROVE OwnerInv'
  <2>1. PICK i \in Items, front \in BOOLEAN :
           /\ Head(appends).event = QueueEvent("requeued", q, i, front)
           /\ pc'[q] = "done" /\ pc'[i] = "queued" /\ \A o \in Ops : o # q /\ o # i => pc'[o] = pc[o]
           /\ mutation = q /\ Heads(q)
    BY <1>14, RequeueLands
  <2>2. activeTurn' = activeTurn
    BY <1>14 DEF Requeued
  <2>3. pc[q] = "recording"
    BY <1>14, <2>1 DEF StageInv
  <2>4. IsPaused(log, i)
    BY <2>1, HeadAwaits, Fields DEF QueueInv
  <2>5. pc[i] \in Over
    BY <2>4 DEF QueueInv
  <2> QED
    BY <1>a, <2>1, <2>2, <2>3, <2>5 DEF Working, Over
<1>15. ASSUME NEW x \in Restores, Restored(x)  PROVE OwnerInv'
  <2>1. /\ x \in Ops /\ pc[x] = "recording"
    BY <1>15, OneKind DEF Restored, MutationLanded, StageInv
  <2>2. activeTurn' = activeTurn /\ pc' = [pc EXCEPT ![x] = "done"]
    BY <1>15 DEF Restored, MutationLanded
  <2> QED
    BY <1>b, <2>1, <2>2 DEF Stages, Working
<1>16. ASSUME NEW x \in Interrupts, Interrupt(x)  PROVE OwnerInv'
  <2>1. x \in Ops /\ pc[x] = "targeted" /\ activeTurn' = activeTurn /\ pc' = [pc EXCEPT ![x] = "done"]
    BY <1>16, OneKind DEF Interrupt
  <2> QED
    BY <1>b, <2>1 DEF Stages, Working
<1>17. ASSUME NEW o \in Turns, Claim(o)  PROVE OwnerInv'
  <2>1. /\ o \in Ops /\ activeTurn = None /\ activeTurn' = [op |-> o, kind |-> "turn"]
        /\ pc' = [pc EXCEPT ![o] = "intercepting"]
    BY <1>17, OneKind DEF Claim, MayClaim, Own
  <2> QED
    BY <1>c, <2>1 DEF Working, Kinds
<1>18. ASSUME NEW o \in Turns \cup Compactions \cup Shells, Gives(o)  PROVE OwnerInv'
  <2>1. /\ o \in Ops /\ pc[o] \in {"claiming", "intercepting", "messaging", "ending"}
        /\ pc'[o] \in {"delivering", "failing", "done", "failed"}
        /\ \A p \in Ops : p # o => pc'[p] = pc[p] \/ (pc[p] = "waiting" /\ pc'[p] = "claiming")
        /\ IF pc[o] = "claiming" THEN activeTurn' = activeTurn ELSE activeTurn' = None
    BY <1>18, GivesStages, GivesBranch
  <2>2. CASE pc[o] = "claiming"
    BY <1>a, <2>1, <2>2 DEF Working
  <2>3. CASE pc[o] # "claiming"
    <3>1. activeTurn.op = o
      BY <2>1, <2>3 DEF OwnerInv, OneOwner
    <3>2. \A p \in Ops : p # o => pc[p] \notin Working
      BY <3>1 DEF OwnerInv, OneOwner, Working
    <3>3. \A p \in Ops : pc'[p] \notin Working
      BY <2>1, <3>2 DEF Working
    <3> QED
      BY <2>1, <2>3, <3>3 DEF OwnerInv, OneOwner, Working
  <2> QED
    BY <2>2, <2>3
<1>19. ASSUME NEW o \in Turns, Intercepted(o)  PROVE OwnerInv'
  <2>1. o \in Ops /\ pc[o] = "intercepting" /\ activeTurn' = activeTurn /\ pc' = [pc EXCEPT ![o] = "messaging"]
    BY <1>19, OneKind DEF Intercepted
  <2> QED
    BY <1>b, <2>1 DEF Stages, Working
<1>20. ASSUME NEW o \in Turns, Messaged(o)  PROVE OwnerInv'
  <2>1. o \in Ops /\ pc[o] = "messaging" /\ activeTurn' = activeTurn /\ pc' = [pc EXCEPT ![o] = "working"]
    BY <1>20, OneKind DEF Messaged
  <2> QED
    BY <1>b, <2>1 DEF Stages, Working
<1>21. ASSUME NEW o \in Turns \cup Compactions \cup Shells, Stop(o)  PROVE OwnerInv'
  <2>1. o \in Ops /\ pc[o] = "working" /\ activeTurn' = activeTurn /\ pc' = [pc EXCEPT ![o] = "ending"]
    BY <1>21, OneKind DEF Stop
  <2> QED
    BY <1>b, <2>1 DEF Stages, Working
<1>22. ASSUME NEW s \in Shells, ShellRuns(s)  PROVE OwnerInv'
  <2>1. /\ s \in Ops /\ activeTurn = None /\ activeTurn' = [op |-> s, kind |-> "shell"]
        /\ pc' = [pc EXCEPT ![s] = "working"]
    BY <1>22, OneKind DEF ShellRuns, Free, Own
  <2> QED
    BY <1>c, <2>1 DEF Working, Kinds
<1>23. ASSUME NEW s \in Shells, ShellRefused(s)  PROVE OwnerInv'
  <2>1. s \in Ops /\ pc[s] = "claiming" /\ activeTurn' = activeTurn /\ pc' = [pc EXCEPT ![s] = "failed"]
    BY <1>23, OneKind DEF ShellRefused
  <2> QED
    BY <1>b, <2>1 DEF Stages, Working
<1>24. ASSUME NEW c \in Compactions, CompactionQueued(c)  PROVE OwnerInv'
  <2>1. c \in Ops /\ pc[c] = "recording" /\ activeTurn' = activeTurn /\ pc' = [pc EXCEPT ![c] = "queued"]
    BY <1>24, OneKind DEF CompactionQueued
  <2> QED
    BY <1>b, <2>1 DEF Stages, Working
<1>25. ASSUME NEW c \in Compactions, CompactionUnqueued(c)  PROVE OwnerInv'
  <2>1. c \in Ops /\ pc[c] = "recording" /\ activeTurn' = activeTurn /\ pc' = [pc EXCEPT ![c] = "failed"]
    BY <1>25, OneKind DEF CompactionUnqueued, Fault
  <2> QED
    BY <1>b, <2>1 DEF Stages, Working
<1>26. ASSUME NEW r \in Reloads, Rebuild(r)  PROVE OwnerInv'
  <2>1. /\ r \in Ops /\ pc[r] = "deciding" /\ activeTurn' = activeTurn
        /\ pc' = [pc EXCEPT ![r] = "rebuilding"] \/ pc' = [pc EXCEPT ![r] = "failed"]
    BY <1>26, OneKind DEF Rebuild
  <2> QED
    BY <1>b, <2>1 DEF Stages, Working
<1>27. ASSUME NEW r \in Reloads, Rebuilt(r)  PROVE OwnerInv'
  <2>1. /\ r \in Ops /\ pc[r] = "rebuilding" /\ activeTurn' = activeTurn
        /\ pc' = [pc EXCEPT ![r] = "done"] \/ pc' = [pc EXCEPT ![r] = "failed"]
    BY <1>27, OneKind DEF Rebuilt
  <2> QED
    BY <1>b, <2>1 DEF Stages, Working
<1>28. ASSUME DrainCompacts  PROVE OwnerInv'
  <2>1. /\ Head(compactions) \in Ops /\ activeTurn = None
        /\ activeTurn' = [op |-> Head(compactions), kind |-> "compaction"]
        /\ pc' = [pc EXCEPT ![Head(compactions)] = "working"]
    BY <1>28, HeadIn, OneKind DEF DrainCompacts, DrainMayGoOn, OwnCompaction, TypeOK
  <2> QED
    BY <1>c, <2>1 DEF Working, Kinds
<1>29. ASSUME DrainReloads  PROVE OwnerInv'
  <2>1. Head(reloads) \in Ops /\ pc[Head(reloads)] = "queued"
    BY <1>29, HeadIn, OneKind DEF DrainReloads, DrainInv, Listed, TypeOK
  <2>2. activeTurn' = activeTurn /\ pc' = [pc EXCEPT ![Head(reloads)] = "rebuilding"]
    BY <1>29 DEF DrainReloads
  <2> QED
    BY <1>b, <2>1, <2>2 DEF Stages, Working
<1>30. ASSUME DrainSends  PROVE OwnerInv'
  <2>1. drain.op \in Ops /\ pc[drain.op] = "queued"
    BY <1>30, OneKind DEF DrainSends, DrainInv, Placed
  <2>2. activeTurn' = activeTurn /\ pc' = [pc EXCEPT ![drain.op] = "claiming"]
    BY <1>30 DEF DrainSends
  <2> QED
    BY <1>b, <2>1, <2>2 DEF Stages, Working
<1>31. ASSUME DrainBreaks  PROVE OwnerInv'
  <2>1. drain.op \in Ops /\ pc[drain.op] \in {"queued", "failed"}
    BY <1>31, HeadKinds, OneKind DEF DrainBreaks, DrainInv, Placed, TypeOK
  <2>2. activeTurn' = activeTurn /\ pc' = [pc EXCEPT ![drain.op] = "failed"]
    BY <1>31 DEF DrainBreaks
  <2> QED
    BY <1>b, <2>1, <2>2 DEF Stages, Working
<1>32. ASSUME NEW d \in Deliveries, Delivers(d)  PROVE OwnerInv'
  <2>1. PICK stage \in {"requesting", "interrupting", "waiting", "closing", "claiming", "failing", "done", "failed"} :
            pc' = [pc EXCEPT ![d] = stage]
    BY <1>32, DeliveryGoesOn
  <2>2. /\ d \in Ops /\ pc[d] \in {"reserved", "requesting", "interrupting", "closing", "delivering", "failing"}
        /\ activeTurn' = activeTurn
    BY <1>32, DeliveryGoesOn, OneKind
  <2> QED
    BY <1>b, <2>1, <2>2 DEF Stages, Working
<1>33. ASSUME NEW o \in Items \cup Requeues \cup Restores, MutationFails(o)  PROVE OwnerInv'
  <2>1. /\ o \in Ops /\ pc[o] = "recording"
    BY <1>33, OneKind DEF MutationFails, StageInv
  <2>2. activeTurn' = activeTurn /\ pc' = [pc EXCEPT ![o] = "failed"]
    BY <1>33 DEF MutationFails, Fault
  <2> QED
    BY <1>b, <2>1, <2>2 DEF Stages, Working
<1>34. ASSUME Crash  PROVE OwnerInv'
  <2>1. activeTurn' = None /\ \A o \in Ops : pc'[o] \in {"idle", "done", "failed", "lost"}
    BY <1>34 DEF Crash
  <2> QED
    BY <2>1 DEF OwnerInv, OneOwner, Working
<1>35. Request => OwnerInv'
    BY <1>2, <1>3, <1>4, <1>5, <1>6, <1>7, <1>8, <1>9, <1>10, <1>11, <1>12, Zenon DEF Request
<1>36. Continue => OwnerInv'
    BY <1>1, <1>13, <1>14, <1>15, <1>16, <1>17, <1>18, <1>19, <1>20, <1>22, <1>23, <1>24, <1>26,
       <1>27, <1>30, <1>32, Zenon DEF Continue, Gives, Delivers
<1>37. Environment => OwnerInv'
    BY <1>1, <1>18, <1>25, <1>31, <1>32, <1>33, <1>34, Zenon DEF Environment, Gives, Delivers
<1>38. DrainLoop => OwnerInv'
    BY <1>1, <1>28, <1>29, Zenon DEF DrainLoop
<1> QED
    BY UrgentTurns, <1>17, <1>18, <1>21, <1>35, <1>36, <1>37, <1>38, Zenon DEF Next, Works, Gives

-----------------------------------------------------------------------------
(* Where the drain is *)

\* drainQueue waits for the operation it runs, and what waits for the drain stays queued.
LEMMA DrainStep ==
    ASSUME TypeOK, StageInv, DrainInv, FlightInv, QueueInv, Next
    PROVE  DrainInv'
<1>0. /\ pc \in [Ops -> Stages] /\ compactions \in Seq(Compactions) /\ reloads \in Seq(Reloads) /\ queue \in Seq(Items)
      /\ drain \in [at : {"idle", "loop", "starting", "sending", "failing", "compacting", "reloading"},
                    op : Items \cup Compactions \cup Reloads \cup {None}]
      /\ drain.op = None <=> drain.at \in {"idle", "loop"}
    BY DEF TypeOK
<1>p. Placed /\ Listed
    BY DEF DrainInv
<1>q. Placed' /\ Listed' => DrainInv'
    BY DEF DrainInv
<1>r. /\ \A c \in ToSet(compactions) : c \in Compactions
      /\ \A r \in ToSet(reloads) : r \in Reloads
    BY <1>0, ElemsEmpty
<1>s. /\ Idle.at = "idle" /\ Loop.at = "loop"
      /\ \A at, o : At(at, o).at = at /\ At(at, o).op = o
    BY DEF Idle, Loop, At
<1>t. \A i, j, at, o : At("sending", i) = At("sending", j) => i = j
    BY <1>s
<1>a. ASSUME pc' \in [Ops -> Stages], compactions' = compactions, reloads' = reloads,
             \A o \in Compactions \cup Reloads : pc[o] = "queued" => pc'[o] = "queued"
      PROVE  Listed'
    BY <1>p, <1>r, <1>a DEF Listed
<1>b. ASSUME NEW x \in Ops, NEW s, pc' = [pc EXCEPT ![x] = s], drain' = drain \/ (drain' = Loop /\ drain.at \in {"idle", "loop"}),
             x \in Items => (pc[x] \in Claimed <=> s \in Claimed),
             x \in Compactions /\ pc[x] \in {"working", "ending"} => s \in {"working", "ending"},
             drain.op # x \/ pc[x] \notin {"queued", "failed", "rebuilding"}
      PROVE  Placed'
  <2>1. pc'[x] = s /\ \A o \in Ops : o # x => pc'[o] = pc[o]
    BY <1>0, <1>b
  <2>2. \A i \in Items : pc'[i] \in Claimed <=> pc[i] \in Claimed
    BY <1>b, <2>1, OneKind
  <2>3. CASE drain' = drain
    BY <1>0, <1>p, <1>b, <2>1, <2>2, <2>3, OneKind DEF Placed, Claimed, Working
  <2>4. CASE drain' = Loop /\ drain.at \in {"idle", "loop"}
    <3>1. \A i \in Items : pc[i] \notin Claimed
      BY <1>p, <1>s, <2>4 DEF Placed
    <3> QED
      BY <1>s, <2>2, <2>4, <3>1 DEF Placed
  <2> QED
    BY <1>b, <2>3, <2>4
<1>c. ASSUME NEW x \in Ops, NEW s \in Stages, pc' = [pc EXCEPT ![x] = s], drain' = drain \/ (drain' = Loop /\ drain.at \in {"idle", "loop"}),
             compactions' = compactions, reloads' = reloads,
             x \in Items => (pc[x] \in Claimed <=> s \in Claimed),
             x \in Compactions /\ pc[x] \in {"working", "ending"} => s \in {"working", "ending"},
             x \in Compactions \cup Reloads => pc[x] # "queued",
             drain.op # x \/ pc[x] \notin {"queued", "failed", "rebuilding"}
      PROVE  DrainInv'
  <2>1. Placed'
    BY <1>b, <1>c
  <2>2. pc' \in [Ops -> Stages] /\ \A o \in Ops : o # x => pc'[o] = pc[o]
    BY <1>0, <1>c
  <2>3. Listed'
    BY <1>a, <1>c, <2>2, OneKind
  <2> QED
    BY <1>q, <2>1, <2>3
<1>d. ASSUME pc' = pc, drain' = drain, compactions' = compactions, reloads' = reloads  PROVE DrainInv'
  <2>1. Placed' /\ Listed'
    BY <1>p, <1>d DEF Placed, Listed
  <2> QED
    BY <1>q, <2>1
<1>e. ASSUME \A i \in Items : pc'[i] \notin Claimed, drain' = Idle \/ drain' = Loop  PROVE Placed'
    BY <1>s, <1>e DEF Placed
<1>1. ASSUME \/ Dispose \/ DisposeAborts \/ DisposeWaited \/ Disposed \/ BeginShutdown \/ Resume \/ Paused
      PROVE  DrainInv'
    BY <1>1, <1>d DEF Dispose, DisposeAborts, DisposeWaited, Disposed, BeginShutdown, Resume, Paused
<1>2. ASSUME NEW i \in Items, NEW front \in Fronts, Enqueue(i, front)  PROVE DrainInv'
  <2>1. /\ i \in Ops /\ pc[i] = "idle" /\ pc' = [pc EXCEPT ![i] = "recording"]
        /\ compactions' = compactions /\ reloads' = reloads
    BY <1>2, OneKind DEF Enqueue, Mutate, Called
  <2>2. drain' = drain \/ (drain' = Loop /\ drain.at \in {"idle", "loop"})
    BY <1>2 DEF Enqueue, Mutate, Called
  <2> QED
    BY <1>c, <1>2, <2>1, <2>2, OneKind DEF Stages, Claimed, Working
<1>3. ASSUME NEW q \in Requeues, NEW i \in Items, NEW front \in Fronts, Requeue(q, i, front)  PROVE DrainInv'
  <2>1. /\ q \in Ops /\ pc[q] = "idle" /\ pc' = [pc EXCEPT ![q] = "recording"]
        /\ compactions' = compactions /\ reloads' = reloads
    BY <1>3, OneKind DEF Requeue, Mutate, Called
  <2>2. drain' = drain \/ (drain' = Loop /\ drain.at \in {"idle", "loop"})
    BY <1>3 DEF Requeue, Mutate, Called
  <2> QED
    BY <1>c, <1>3, <2>1, <2>2, OneKind DEF Stages, Claimed, Working
<1>4. ASSUME NEW x \in Restores, Restore(x)  PROVE DrainInv'
  <2>1. /\ x \in Ops /\ pc[x] = "idle" /\ pc' = [pc EXCEPT ![x] = "recording"]
        /\ compactions' = compactions /\ reloads' = reloads
    BY <1>4, OneKind DEF Restore, Mutate, Called
  <2>2. drain' = drain \/ (drain' = Loop /\ drain.at \in {"idle", "loop"})
    BY <1>4 DEF Restore, Mutate, Called
  <2> QED
    BY <1>c, <1>4, <2>1, <2>2, OneKind DEF Stages, Claimed, Working
<1>5. ASSUME NEW x \in Interrupts, InterruptAccepted(x)  PROVE DrainInv'
  <2>1. /\ x \in Ops /\ pc[x] = "idle" /\ pc' = [pc EXCEPT ![x] = "targeted"]
        /\ compactions' = compactions /\ reloads' = reloads
    BY <1>5, OneKind DEF InterruptAccepted, Called
  <2>2. drain' = drain \/ (drain' = Loop /\ drain.at \in {"idle", "loop"})
    BY <1>5 DEF InterruptAccepted, Called
  <2> QED
    BY <1>c, <1>5, <2>1, <2>2, OneKind DEF Stages, Claimed, Working
<1>6. ASSUME NEW p \in Prompts, Send(p)  PROVE DrainInv'
  <2>1. /\ p \in Ops /\ pc[p] = "idle" /\ pc' = [pc EXCEPT ![p] = "claiming"]
        /\ compactions' = compactions /\ reloads' = reloads
    BY <1>6, OneKind DEF Send, Called
  <2>2. drain' = drain \/ (drain' = Loop /\ drain.at \in {"idle", "loop"})
    BY <1>6 DEF Send, Called
  <2> QED
    BY <1>c, <1>6, <2>1, <2>2, OneKind DEF Stages, Claimed, Working
<1>7. ASSUME NEW d \in Deliveries, Reserve(d)  PROVE DrainInv'
  <2>1. /\ d \in Ops /\ pc[d] = "idle" /\ pc' = [pc EXCEPT ![d] = "reserved"]
        /\ compactions' = compactions /\ reloads' = reloads
    BY <1>7, OneKind DEF Reserve, Called
  <2>2. drain' = drain \/ (drain' = Loop /\ drain.at \in {"idle", "loop"})
    BY <1>7 DEF Reserve, Called
  <2> QED
    BY <1>c, <1>7, <2>1, <2>2, OneKind DEF Stages, Claimed, Working
<1>8. ASSUME NEW c \in Compactions, Compact(c)  PROVE DrainInv'
  <2>1. /\ c \in Ops /\ pc[c] = "idle" /\ pc' = [pc EXCEPT ![c] = "working"]
        /\ compactions' = compactions /\ reloads' = reloads
    BY <1>8, OneKind DEF Compact, Called
  <2>2. drain' = drain \/ (drain' = Loop /\ drain.at \in {"idle", "loop"})
    BY <1>8 DEF Compact, Called
  <2> QED
    BY <1>c, <1>8, <2>1, <2>2, OneKind DEF Stages, Claimed, Working
<1>9. ASSUME NEW c \in Compactions, CompactLater(c)  PROVE DrainInv'
  <2>1. /\ c \in Ops /\ pc[c] = "idle" /\ pc' = [pc EXCEPT ![c] = "recording"]
        /\ compactions' = compactions /\ reloads' = reloads
    BY <1>9, OneKind DEF CompactLater, Called
  <2>2. drain' = drain \/ (drain' = Loop /\ drain.at \in {"idle", "loop"})
    BY <1>9 DEF CompactLater, Called
  <2> QED
    BY <1>c, <1>9, <2>1, <2>2, OneKind DEF Stages, Claimed, Working
<1>10. ASSUME NEW s \in Shells, Shell(s)  PROVE DrainInv'
  <2>1. /\ s \in Ops /\ pc[s] = "idle" /\ pc' = [pc EXCEPT ![s] = "claiming"]
        /\ compactions' = compactions /\ reloads' = reloads
    BY <1>10, OneKind DEF Shell, Called
  <2>2. drain' = drain \/ (drain' = Loop /\ drain.at \in {"idle", "loop"})
    BY <1>10 DEF Shell, Called
  <2> QED
    BY <1>c, <1>10, <2>1, <2>2, OneKind DEF Stages, Claimed, Working
<1>11. ASSUME NEW r \in Reloads, Reload(r)  PROVE DrainInv'
  <2>1. /\ r \in Ops /\ pc[r] = "idle" /\ pc' = [pc EXCEPT ![r] = "deciding"]
        /\ compactions' = compactions /\ reloads' = reloads
    BY <1>11, OneKind DEF Reload, Called
  <2>2. drain' = drain \/ (drain' = Loop /\ drain.at \in {"idle", "loop"})
    BY <1>11 DEF Reload, Called
  <2> QED
    BY <1>c, <1>11, <2>1, <2>2, OneKind DEF Stages, Claimed, Working
<1>12. ASSUME NEW r \in Reloads, ReloadLater(r)  PROVE DrainInv'
  <2>1. /\ r \in Ops /\ pc[r] = "idle" /\ pc' = [pc EXCEPT ![r] = "queued"] /\ drain' = drain
        /\ compactions' = compactions /\ reloads' = Append(reloads, r)
    BY <1>12, OneKind DEF ReloadLater
  <2>2. Placed'
    BY <1>b, <1>12, <2>1, OneKind
  <2>3. r \notin ToSet(reloads)
    BY <1>p, <2>1 DEF Listed
  <2>4. ToSet(reloads') = ToSet(reloads) \cup {r} /\ IsInjective(reloads')
    BY <1>0, <1>p, <1>12, <2>1, <2>3, ElemsAppend DEF Listed
  <2>5. pc'[r] = "queued" /\ \A o \in Ops : o # r => pc'[o] = pc[o]
    BY <1>0, <2>1
  <2>6. Listed'
    BY <1>p, <1>r, <2>1, <2>4, <2>5, OneKind DEF Listed
  <2> QED
    BY <1>q, <2>2, <2>6
<1>13. ASSUME NEW i \in Items, Enqueued(i)  PROVE DrainInv'
  <2>1. /\ i \in Ops /\ pc[i] = "recording" /\ pc' = [pc EXCEPT ![i] = "queued"]
        /\ compactions' = compactions /\ reloads' = reloads
    BY <1>13, OneKind DEF Enqueued, MutationLanded, StageInv
  <2>2. drain' = drain \/ (drain' = Loop /\ drain.at \in {"idle", "loop"})
    BY <1>13, DrainWakes DEF Enqueued, MutationLanded
  <2> QED
    BY <1>c, <1>13, <2>1, <2>2, OneKind DEF Stages, Claimed, Working
<1>14. ASSUME NEW q \in Requeues, Requeued(q)  PROVE DrainInv'
  <2>1. PICK i \in Items, front \in BOOLEAN :
           /\ Head(appends).event = QueueEvent("requeued", q, i, front)
           /\ pc' = [pc EXCEPT ![q] = "done", ![i] = "queued"]
           /\ pc'[q] = "done" /\ pc'[i] = "queued" /\ \A o \in Ops : o # q /\ o # i => pc'[o] = pc[o]
           /\ mutation = q /\ Heads(q)
    BY <1>14, RequeueLands
  <2>2. compactions' = compactions /\ reloads' = reloads
    BY <1>14 DEF Requeued
  <2>3. drain' = drain \/ (drain' = Loop /\ drain.at \in {"idle", "loop"})
    BY <1>14, DrainWakes DEF Requeued
  <2>4. IsPaused(log, i)
    BY <2>1, HeadAwaits, Fields DEF QueueInv
  <2>5. pc[i] \in Over /\ ~Started(log, i)
    BY <2>4, LogSays DEF QueueInv
  <2>6. drain.op # i
    BY <1>p, <1>0, <2>5, OneKind DEF QueueInv, Placed, Over, Claimed, Working
  <2>7. pc' \in [Ops -> Stages]
    BY <1>0, <2>1, OneKind DEF Stages
  <2>8. Listed'
    BY <1>14, <1>a, <2>1, <2>2, <2>7, OneKind
  <2>9. \A j \in Items : pc'[j] \in Claimed <=> pc[j] \in Claimed
    BY <1>14, <2>1, <2>5, OneKind DEF Over, Claimed, Working
  <2>10. Placed'
    <3>1. CASE drain' = drain
      BY <1>0, <1>p, <1>14, <2>1, <2>6, <2>9, <3>1, OneKind DEF Placed
    <3>2. CASE drain' = Loop /\ drain.at \in {"idle", "loop"}
      BY <1>p, <1>s, <1>e, <2>9, <3>2 DEF Placed
    <3> QED
      BY <2>3, <3>1, <3>2
  <2> QED
    BY <1>q, <2>8, <2>10
<1>15. ASSUME NEW x \in Restores, Restored(x)  PROVE DrainInv'
  <2>1. /\ x \in Ops /\ pc[x] = "recording" /\ pc' = [pc EXCEPT ![x] = "done"]
        /\ compactions' = compactions /\ reloads' = reloads
    BY <1>15, OneKind DEF Restored, MutationLanded, StageInv
  <2>2. drain' = drain \/ (drain' = Loop /\ drain.at \in {"idle", "loop"})
    BY <1>15, DrainWakes DEF Restored, MutationLanded
  <2> QED
    BY <1>c, <1>15, <2>1, <2>2, OneKind DEF Stages, Claimed, Working
<1>16. ASSUME NEW x \in Interrupts, Interrupt(x)  PROVE DrainInv'
  <2>1. /\ x \in Ops /\ pc[x] = "targeted" /\ pc' = [pc EXCEPT ![x] = "done"]
        /\ compactions' = compactions /\ reloads' = reloads
    BY <1>16, OneKind DEF Interrupt
  <2>2. drain' = drain \/ (drain' = Loop /\ drain.at \in {"idle", "loop"})
    BY <1>16 DEF Interrupt
  <2> QED
    BY <1>c, <1>16, <2>1, <2>2, OneKind DEF Stages, Claimed, Working
<1>17. ASSUME NEW o \in Turns, Claim(o)  PROVE DrainInv'
  <2>1. /\ o \in Ops /\ pc[o] = "claiming" /\ pc' = [pc EXCEPT ![o] = "intercepting"]
        /\ compactions' = compactions /\ reloads' = reloads
    BY <1>17, OneKind DEF Claim
  <2>2. drain' = drain \/ (drain' = Loop /\ drain.at \in {"idle", "loop"})
    BY <1>17 DEF Claim
  <2> QED
    BY <1>c, <1>17, <2>1, <2>2, OneKind DEF Stages, Claimed, Working
<1>18. ASSUME NEW o \in Turns \cup Compactions \cup Shells, Gives(o)  PROVE DrainInv'
  <2>1. /\ o \in Ops /\ pc[o] \in {"claiming", "intercepting", "messaging", "ending"} /\ o \notin Reloads
        /\ pc'[o] \in IF o \in Deliveries THEN {"delivering", "failing"} ELSE {"done", "failed"}
        /\ \A p \in Ops : p # o => pc'[p] = pc[p] \/ (p \in Deliveries /\ pc[p] = "waiting" /\ pc'[p] = "claiming")
        /\ pc' \in [Ops -> Stages]
        /\ compactions' = compactions /\ reloads' = reloads
    BY <1>18, GivesStages, GivesBranch, OneKind
  <2>2. drain' \in IF drain.op = o THEN IF pc'[o] \in {"failed", "failing"} THEN {At("failing", o)} ELSE {Loop}
                   ELSE IF drain.at = "idle" THEN {drain, Loop} ELSE {drain}
    BY <1>18, GivesStages, GivesBranch
  <2>3. Listed'
    BY <1>a, <2>1, OneKind
  <2>4. CASE drain.op = o
    <3>1. \A i \in Items : i # o => pc'[i] = pc[i] /\ pc[i] \notin Claimed
      BY <1>p, <1>s, <2>1, <2>4, OneKind DEF Placed
    <3>2. \A i \in Items : pc'[i] \notin Claimed
      BY <2>1, <3>1 DEF Claimed, Working
    <3>3. o \notin Deliveries
      BY <1>0, <2>1, <2>4, OneKind
    <3>4. drain' = Loop \/ (drain' = At("failing", o) /\ pc'[o] = "failed")
      BY <2>1, <2>2, <2>4, <3>3
    <3>5. ASSUME drain' = Loop  PROVE Placed'
      BY <1>e, <3>2, <3>5
    <3>6. ASSUME drain' = At("failing", o), pc'[o] = "failed"  PROVE Placed'
      BY <1>s, <3>2, <3>6 DEF Placed
    <3> QED
      BY <1>q, <2>3, <3>4, <3>5, <3>6
  <2>5. CASE drain.op # o
    <3>1. o \notin Items
      BY <1>p, <1>s, <2>1, <2>5 DEF Placed, Claimed, Working
    <3>2. \A i \in Items \cup Compactions \cup Reloads : i # o => pc'[i] = pc[i]
      BY <2>1, OneKind
    <3>3. ASSUME drain' = drain  PROVE Placed'
      BY <1>0, <1>p, <2>1, <2>5, <3>1, <3>2, <3>3 DEF Placed
    <3>4. ASSUME drain' = Loop, drain.at = "idle"  PROVE Placed'
      BY <1>p, <1>s, <1>e, <3>1, <3>2, <3>4 DEF Placed
    <3> QED
      BY <1>q, <2>2, <2>3, <2>5, <3>3, <3>4
  <2> QED
    BY <2>4, <2>5
<1>19. ASSUME NEW o \in Turns, Intercepted(o)  PROVE DrainInv'
  <2>1. /\ o \in Ops /\ pc[o] = "intercepting" /\ pc' = [pc EXCEPT ![o] = "messaging"]
        /\ compactions' = compactions /\ reloads' = reloads
    BY <1>19, OneKind DEF Intercepted
  <2>2. drain' = drain \/ (drain' = Loop /\ drain.at \in {"idle", "loop"})
    BY <1>19 DEF Intercepted
  <2> QED
    BY <1>c, <1>19, <2>1, <2>2, OneKind DEF Stages, Claimed, Working
<1>20. ASSUME NEW o \in Turns, Messaged(o)  PROVE DrainInv'
  <2>1. /\ o \in Ops /\ pc[o] = "messaging" /\ pc' = [pc EXCEPT ![o] = "working"]
        /\ compactions' = compactions /\ reloads' = reloads
    BY <1>20, OneKind DEF Messaged
  <2>2. drain' = drain \/ (drain' = Loop /\ drain.at \in {"idle", "loop"})
    BY <1>20 DEF Messaged
  <2> QED
    BY <1>c, <1>20, <2>1, <2>2, OneKind DEF Stages, Claimed, Working
<1>21. ASSUME NEW o \in Turns \cup Compactions \cup Shells, Stop(o)  PROVE DrainInv'
  <2>1. /\ o \in Ops /\ pc[o] = "working" /\ pc' = [pc EXCEPT ![o] = "ending"]
        /\ compactions' = compactions /\ reloads' = reloads
    BY <1>21, OneKind DEF Stop
  <2>2. drain' = drain \/ (drain' = Loop /\ drain.at \in {"idle", "loop"})
    BY <1>21 DEF Stop
  <2> QED
    BY <1>c, <1>21, <2>1, <2>2, OneKind DEF Stages, Claimed, Working
<1>22. ASSUME NEW s \in Shells, ShellRuns(s)  PROVE DrainInv'
  <2>1. /\ s \in Ops /\ pc[s] = "claiming" /\ pc' = [pc EXCEPT ![s] = "working"]
        /\ compactions' = compactions /\ reloads' = reloads
    BY <1>22, OneKind DEF ShellRuns
  <2>2. drain' = drain \/ (drain' = Loop /\ drain.at \in {"idle", "loop"})
    BY <1>22 DEF ShellRuns
  <2> QED
    BY <1>c, <1>22, <2>1, <2>2, OneKind DEF Stages, Claimed, Working
<1>23. ASSUME NEW s \in Shells, ShellRefused(s)  PROVE DrainInv'
  <2>1. /\ s \in Ops /\ pc[s] = "claiming" /\ pc' = [pc EXCEPT ![s] = "failed"]
        /\ compactions' = compactions /\ reloads' = reloads
    BY <1>23, OneKind DEF ShellRefused
  <2>2. drain' = drain \/ (drain' = Loop /\ drain.at \in {"idle", "loop"})
    BY <1>23 DEF ShellRefused
  <2> QED
    BY <1>c, <1>23, <2>1, <2>2, OneKind DEF Stages, Claimed, Working
<1>24. ASSUME NEW c \in Compactions, CompactionQueued(c)  PROVE DrainInv'
  <2>1. /\ c \in Ops /\ pc[c] = "recording" /\ pc' = [pc EXCEPT ![c] = "queued"] /\ drain' = drain
        /\ compactions' = Append(compactions, c) /\ reloads' = reloads
    BY <1>24, OneKind DEF CompactionQueued
  <2>2. Placed'
    BY <1>b, <1>24, <2>1, OneKind
  <2>3. c \notin ToSet(compactions)
    BY <1>p, <2>1 DEF Listed
  <2>4. ToSet(compactions') = ToSet(compactions) \cup {c} /\ IsInjective(compactions')
    BY <1>0, <1>p, <1>24, <2>1, <2>3, ElemsAppend DEF Listed
  <2>5. pc'[c] = "queued" /\ \A o \in Ops : o # c => pc'[o] = pc[o]
    BY <1>0, <2>1
  <2>6. Listed'
    BY <1>p, <1>r, <2>1, <2>4, <2>5, OneKind DEF Listed
  <2> QED
    BY <1>q, <2>2, <2>6
<1>25. ASSUME NEW c \in Compactions, CompactionUnqueued(c)  PROVE DrainInv'
  <2>1. /\ c \in Ops /\ pc[c] = "recording" /\ pc' = [pc EXCEPT ![c] = "failed"]
        /\ compactions' = compactions /\ reloads' = reloads
    BY <1>25, OneKind DEF CompactionUnqueued, Fault
  <2>2. drain' = drain \/ (drain' = Loop /\ drain.at \in {"idle", "loop"})
    BY <1>25 DEF CompactionUnqueued, Fault
  <2> QED
    BY <1>c, <1>25, <2>1, <2>2, OneKind DEF Stages, Claimed, Working
<1>26. ASSUME NEW r \in Reloads, Rebuild(r)  PROVE DrainInv'
  <2>1. /\ r \in Ops /\ pc[r] = "deciding" /\ drain' = drain /\ compactions' = compactions /\ reloads' = reloads
        /\ pc' = [pc EXCEPT ![r] = "rebuilding"] \/ pc' = [pc EXCEPT ![r] = "failed"]
    BY <1>26, OneKind DEF Rebuild
  <2> QED
    BY <1>c, <1>26, <2>1, OneKind DEF Stages
<1>27. ASSUME NEW r \in Reloads, Rebuilt(r)  PROVE DrainInv'
  <2>1. /\ r \in Ops /\ pc[r] = "rebuilding" /\ compactions' = compactions /\ reloads' = reloads
        /\ \/ pc' = [pc EXCEPT ![r] = "done"] /\ drain' = IF drain.op # r THEN drain ELSE Loop
           \/ pc' = [pc EXCEPT ![r] = "failed"] /\ drain' = IF drain.op # r THEN drain ELSE At("failing", r)
    BY <1>27, OneKind DEF Rebuilt
  <2>2. CASE drain.op # r
    BY <1>c, <1>27, <2>1, <2>2, OneKind DEF Stages
  <2>3. CASE drain.op = r
    <3>1. pc' \in [Ops -> Stages] /\ \A o \in Ops : o # r => pc'[o] = pc[o]
      BY <1>0, <2>1 DEF Stages
    <3>2. \A i \in Items : pc'[i] \notin Claimed
      BY <1>p, <1>s, <1>27, <2>3, <3>1, OneKind DEF Placed
    <3>3. Listed'
      BY <1>a, <2>1, <3>1, OneKind
    <3>4. Placed'
      BY <1>0, <1>s, <1>e, <1>27, <2>1, <2>3, <3>2 DEF Placed
    <3> QED
      BY <1>q, <3>3, <3>4
  <2> QED
    BY <2>2, <2>3
<1>28. ASSUME DrainStops  PROVE DrainInv'
  <2>1. /\ drain.at = "loop" /\ drain' \in {Idle, Loop}
        /\ pc' = pc /\ compactions' = compactions /\ reloads' = reloads
    BY <1>28 DEF DrainStops
  <2>2. \A i \in Items : pc'[i] \notin Claimed
    BY <1>p, <1>s, <2>1 DEF Placed
  <2> QED
    BY <1>0, <1>q, <1>a, <1>e, <2>1, <2>2
<1>29. ASSUME DrainCompacts  PROVE DrainInv'
  <2> DEFINE h == Head(compactions)
  <2>1. /\ h \in Compactions /\ h \in ToSet(compactions) /\ ToSet(compactions) = ToSet(Tail(compactions)) \cup {h}
        /\ IsInjective(Tail(compactions)) /\ h \notin ToSet(Tail(compactions))
    BY <1>0, <1>p, <1>29, HeadIn DEF DrainCompacts, Listed
  <2>2. /\ drain.at = "loop" /\ drain' = At("compacting", h) /\ pc' = [pc EXCEPT ![h] = "working"]
        /\ compactions' = Tail(compactions) /\ reloads' = reloads
    BY <1>29 DEF DrainCompacts
  <2> HIDE DEF h
  <2>3. pc'[h] = "working" /\ \A o \in Ops : o # h => pc'[o] = pc[o]
    BY <1>0, <2>1, <2>2, OneKind
  <2>4. \A i \in Items : pc'[i] \notin Claimed
    BY <1>p, <1>s, <2>1, <2>2, <2>3, OneKind DEF Placed
  <2>5. Placed'
    BY <1>s, <2>1, <2>2, <2>3, <2>4 DEF Placed
  <2>6. Listed'
    BY <1>p, <1>r, <2>1, <2>2, <2>3, OneKind DEF Listed
  <2> QED
    BY <1>q, <2>5, <2>6
<1>30. ASSUME DrainReloads  PROVE DrainInv'
  <2> DEFINE h == Head(reloads)
  <2>1. /\ h \in Reloads /\ h \in ToSet(reloads) /\ ToSet(reloads) = ToSet(Tail(reloads)) \cup {h}
        /\ IsInjective(Tail(reloads)) /\ h \notin ToSet(Tail(reloads))
    BY <1>0, <1>p, <1>30, HeadIn DEF DrainReloads, Listed
  <2>2. /\ drain.at = "loop" /\ drain' = At("reloading", h) /\ pc' = [pc EXCEPT ![h] = "rebuilding"]
        /\ reloads' = Tail(reloads) /\ compactions' = compactions
    BY <1>30 DEF DrainReloads
  <2> HIDE DEF h
  <2>3. pc'[h] = "rebuilding" /\ \A o \in Ops : o # h => pc'[o] = pc[o]
    BY <1>0, <2>1, <2>2, OneKind
  <2>4. \A i \in Items : pc'[i] \notin Claimed
    BY <1>p, <1>s, <2>1, <2>2, <2>3, OneKind DEF Placed
  <2>5. Placed'
    BY <1>s, <2>1, <2>2, <2>3, <2>4 DEF Placed
  <2>6. Listed'
    BY <1>p, <1>r, <2>1, <2>2, <2>3, OneKind DEF Listed
  <2> QED
    BY <1>q, <2>5, <2>6
<1>31. ASSUME DrainStarts  PROVE DrainInv'
  <2>1. Head(queue) \in Items /\ pc[Head(queue)] = "queued"
    BY <1>0, <1>31, HeadIn DEF DrainStarts, QueueInv
  <2>2. /\ drain.at = "loop" /\ drain' = At("starting", Head(queue)) /\ pc' = pc
        /\ compactions' = compactions /\ reloads' = reloads
    BY <1>31 DEF DrainStarts
  <2>3. \A i \in Items : pc[i] \notin Claimed
    BY <1>p, <1>s, <2>2 DEF Placed
  <2>4. Placed'
    BY <1>s, <2>1, <2>2, <2>3 DEF Placed
  <2>5. Listed'
    BY <1>0, <1>a, <2>2
  <2> QED
    BY <1>q, <2>4, <2>5
<1>32. ASSUME DrainSends  PROVE DrainInv'
  <2>1. /\ drain.at = "starting" /\ drain' = At("sending", drain.op)
        /\ pc' = [pc EXCEPT ![drain.op] = "claiming"] /\ compactions' = compactions /\ reloads' = reloads
    BY <1>32 DEF DrainSends
  <2>2. drain.op \in Items /\ pc[drain.op] = "queued"
    BY <1>p, <2>1 DEF Placed
  <2>3. pc' \in [Ops -> Stages] /\ pc'[drain.op] = "claiming" /\ \A o \in Ops : o # drain.op => pc'[o] = pc[o]
    BY <1>0, <2>1, <2>2, OneKind DEF Stages
  <2>4. \A i \in Items : pc[i] \notin Claimed
    BY <1>p, <1>s, <2>1 DEF Placed
  <2>5. Placed'
    BY <1>s, <2>1, <2>2, <2>3, <2>4, OneKind DEF Placed, Claimed
  <2>6. Listed'
    BY <1>a, <2>1, <2>2, <2>3, OneKind
  <2> QED
    BY <1>q, <2>5, <2>6
<1>33. ASSUME DrainRecorded  PROVE DrainInv'
  <2>1. /\ drain.at = "failing" /\ drain' \in {Idle, Loop}
        /\ pc' = pc /\ compactions' = compactions /\ reloads' = reloads
    BY <1>33 DEF DrainRecorded
  <2>2. \A i \in Items : pc'[i] \notin Claimed
    BY <1>p, <1>s, <2>1 DEF Placed
  <2> QED
    BY <1>0, <1>q, <1>a, <1>e, <2>1, <2>2
<1>34. ASSUME DrainBreaks  PROVE DrainInv'
  <2>1. /\ drain' = Idle
        /\ pc' = [pc EXCEPT ![drain.op] = "failed"] /\ compactions' = compactions /\ reloads' = reloads
    BY <1>34 DEF DrainBreaks
  <2>2. \/ drain.at = "starting" /\ drain.op \in Items
        \/ drain.at = "failing" /\ pc[drain.op] = "failed"
    BY <1>p, <1>34, HeadKinds DEF DrainBreaks, Placed
  <2>3. pc' \in [Ops -> Stages] /\ \A o \in Ops : pc'[o] = IF o = drain.op THEN "failed" ELSE pc[o]
    BY <1>0, <2>1 DEF Stages
  <2>4. \A i \in Items : pc'[i] \notin Claimed
    BY <1>p, <1>s, <2>2, <2>3, OneKind DEF Placed, Claimed, Working
  <2>5. Listed'
    BY <1>a, <2>1, <2>2, <2>3, OneKind
  <2> QED
    BY <1>q, <1>e, <2>1, <2>4, <2>5
<1>35. ASSUME NEW d \in Deliveries, Delivers(d)  PROVE DrainInv'
  <2>1. PICK stage \in {"requesting", "interrupting", "waiting", "closing", "claiming", "failing", "done", "failed"} :
            pc' = [pc EXCEPT ![d] = stage]
    BY <1>35, DeliveryGoesOn
  <2>2. d \in Ops /\ compactions' = compactions /\ reloads' = reloads /\ drain.op # d
    BY <1>0, <1>35, DeliveryGoesOn, OneKind
  <2>3. drain' = drain \/ (drain' = Loop /\ drain.at \in {"idle", "loop"})
    BY <1>35, DeliveryGoesOn
  <2> QED
    BY <1>c, <1>35, <2>1, <2>2, <2>3, OneKind DEF Stages
<1>36. ASSUME NEW o \in Items \cup Requeues \cup Restores, MutationFails(o)  PROVE DrainInv'
  <2>1. /\ o \in Ops /\ pc[o] = "recording" /\ pc' = [pc EXCEPT ![o] = "failed"]
        /\ compactions' = compactions /\ reloads' = reloads
    BY <1>36, OneKind DEF MutationFails, StageInv, Fault
  <2>2. drain' = drain \/ (drain' = Loop /\ drain.at \in {"idle", "loop"})
    BY <1>36, DrainWakes DEF MutationFails, Fault
  <2> QED
    BY <1>c, <1>36, <2>1, <2>2, OneKind DEF Stages, Claimed, Working
<1>37. ASSUME Crash  PROVE DrainInv'
  <2>1. /\ drain' = Idle /\ compactions' = <<>> /\ reloads' = <<>>
        /\ \A o \in Ops : pc'[o] \in {"idle", "done", "failed", "lost"}
    BY <1>37 DEF Crash
  <2>2. Placed'
    BY <1>e, <2>1, OneKind DEF Claimed, Working
  <2>3. Listed'
    BY <1>0, <2>1, ElemsEmpty DEF Listed
  <2> QED
    BY <1>q, <2>2, <2>3
<1>38. Request => DrainInv'
    BY <1>2, <1>3, <1>4, <1>5, <1>6, <1>7, <1>8, <1>9, <1>10, <1>11, <1>12, Zenon DEF Request
<1>39. Continue => DrainInv'
    BY <1>1, <1>13, <1>14, <1>15, <1>16, <1>17, <1>18, <1>19, <1>20, <1>22, <1>23, <1>24, <1>26,
       <1>27, <1>32, <1>33, <1>35, Zenon DEF Continue, Gives, Delivers
<1>40. Environment => DrainInv'
    BY <1>1, <1>18, <1>25, <1>34, <1>35, <1>36, <1>37, Zenon DEF Environment, Gives, Delivers
<1>41. DrainLoop => DrainInv'
    BY <1>28, <1>29, <1>30, <1>31, Zenon DEF DrainLoop
<1> QED
    BY UrgentTurns, <1>17, <1>18, <1>21, <1>38, <1>39, <1>40, <1>41, Zenon DEF Next, Works, Gives

-----------------------------------------------------------------------------
(* While there is no daemon *)

\* Nothing happens to a session without a daemon until it is resumed, and a crash forgets
\* whatever was in memory.
LEMMA DownStep ==
    ASSUME TypeOK, StageInv, DownInv, Next
    PROVE  DownInv'
<1>a. phase' # "down" => DownInv'
    BY DEF DownInv
<1>b. phase = "down" =>
        /\ appends = <<>> /\ queue = <<>> /\ activeTurn = None /\ mutation = None /\ drain.at = "idle"
        /\ \A o \in Ops : pc[o] \in {"idle", "done", "failed", "lost"}
    BY DEF DownInv, Idle, Over
<1>1. ASSUME \/ DrainSends \/ DrainRecorded \/ DrainBreaks \/ Paused
      PROVE  DownInv'
    BY <1>1, <1>a, <1>b DEF DrainSends, DrainRecorded, DrainBreaks, Paused, Heads
<1>2. ASSUME \/ DrainStops \/ DrainCompacts \/ DrainReloads \/ DrainStarts
      PROVE  DownInv'
    BY <1>2, <1>a, <1>b DEF DrainStops, DrainCompacts, DrainReloads, DrainStarts
<1>3. ASSUME \/ Dispose \/ DisposeAborts \/ DisposeWaited \/ Disposed \/ BeginShutdown \/ Resume
      PROVE  DownInv'
    BY <1>3, <1>a DEF Dispose, DisposeAborts, DisposeWaited, Disposed, BeginShutdown, Resume
<1>4. ASSUME NEW i \in Items, NEW front \in Fronts, Enqueue(i, front)  PROVE DownInv'
    BY <1>4, <1>a, <1>b, OneKind DEF Enqueue, Mutate, Called
<1>5. ASSUME NEW q \in Requeues, NEW i \in Items, NEW front \in Fronts, Requeue(q, i, front)  PROVE DownInv'
    BY <1>5, <1>a, <1>b, OneKind DEF Requeue, Mutate, Called
<1>6. ASSUME NEW x \in Restores, Restore(x)  PROVE DownInv'
    BY <1>6, <1>a, <1>b, OneKind DEF Restore, Mutate, Called
<1>7. ASSUME NEW x \in Interrupts, InterruptAccepted(x)  PROVE DownInv'
    BY <1>7, <1>a, <1>b, OneKind DEF InterruptAccepted, Called
<1>8. ASSUME NEW p \in Prompts, Send(p)  PROVE DownInv'
    BY <1>8, <1>a, <1>b, OneKind DEF Send, Called
<1>9. ASSUME NEW d \in Deliveries, Reserve(d)  PROVE DownInv'
    BY <1>9, <1>a, <1>b, OneKind DEF Reserve, Called
<1>10. ASSUME NEW c \in Compactions, Compact(c)  PROVE DownInv'
    BY <1>10, <1>a, <1>b, OneKind DEF Compact, Called
<1>11. ASSUME NEW c \in Compactions, CompactLater(c)  PROVE DownInv'
    BY <1>11, <1>a, <1>b, OneKind DEF CompactLater, Called, InTurn
<1>12. ASSUME NEW s \in Shells, Shell(s)  PROVE DownInv'
    BY <1>12, <1>a, <1>b, OneKind DEF Shell, Called
<1>13. ASSUME NEW r \in Reloads, Reload(r)  PROVE DownInv'
    BY <1>13, <1>a, <1>b, OneKind DEF Reload, Called
<1>14. ASSUME NEW r \in Reloads, ReloadLater(r)  PROVE DownInv'
    BY <1>14, <1>a, <1>b, OneKind DEF ReloadLater, InTurn
<1>15. ASSUME NEW i \in Items, Enqueued(i)  PROVE DownInv'
    BY <1>15, <1>a, <1>b, OneKind DEF Enqueued, MutationLanded
<1>16. ASSUME NEW q \in Requeues, Requeued(q)  PROVE DownInv'
  <2>1. mutation = q /\ phase' = phase
    BY <1>16 DEF Requeued, MutationLanded
  <2> QED
    BY <1>a, <1>b, <1>16, <2>1, OneKind
<1>17. ASSUME NEW x \in Restores, Restored(x)  PROVE DownInv'
    BY <1>17, <1>a, <1>b, OneKind DEF Restored, MutationLanded
<1>18. ASSUME NEW x \in Interrupts, Interrupt(x)  PROVE DownInv'
    BY <1>18, <1>a, <1>b, OneKind DEF Interrupt
<1>19. ASSUME NEW o \in Turns, Claim(o)  PROVE DownInv'
    BY <1>19, <1>a, <1>b, OneKind DEF Claim
<1>20. ASSUME NEW o \in Turns \cup Compactions \cup Shells, Gives(o)  PROVE DownInv'
  <2>1. phase' = phase /\ o \in Ops /\ pc[o] \in {"claiming", "intercepting", "messaging", "ending"}
    BY <1>20, GivesStages, GivesBranch
  <2> QED
    BY <1>a, <1>b, <2>1
<1>21. ASSUME NEW o \in Turns, Intercepted(o)  PROVE DownInv'
    BY <1>21, <1>a, <1>b, OneKind DEF Intercepted
<1>22. ASSUME NEW o \in Turns, Messaged(o)  PROVE DownInv'
    BY <1>22, <1>a, <1>b, OneKind DEF Messaged
<1>23. ASSUME NEW o \in Turns \cup Compactions \cup Shells, Stop(o)  PROVE DownInv'
    BY <1>23, <1>a, <1>b, OneKind DEF Stop
<1>24. ASSUME NEW s \in Shells, ShellRuns(s)  PROVE DownInv'
    BY <1>24, <1>a, <1>b, OneKind DEF ShellRuns
<1>25. ASSUME NEW s \in Shells, ShellRefused(s)  PROVE DownInv'
    BY <1>25, <1>a, <1>b, OneKind DEF ShellRefused
<1>26. ASSUME NEW c \in Compactions, CompactionQueued(c)  PROVE DownInv'
    BY <1>26, <1>a, <1>b, OneKind DEF CompactionQueued
<1>27. ASSUME NEW c \in Compactions, CompactionUnqueued(c)  PROVE DownInv'
    BY <1>27, <1>a, <1>b, OneKind DEF CompactionUnqueued
<1>28. ASSUME NEW r \in Reloads, Rebuild(r)  PROVE DownInv'
    BY <1>28, <1>a, <1>b, OneKind DEF Rebuild
<1>29. ASSUME NEW r \in Reloads, Rebuilt(r)  PROVE DownInv'
    BY <1>29, <1>a, <1>b, OneKind DEF Rebuilt
<1>30. ASSUME NEW d \in Deliveries, Delivers(d)  PROVE DownInv'
  <2>1. phase' = phase /\ pc[d] \in {"reserved", "requesting", "interrupting", "closing", "delivering", "failing"}
    BY <1>30, DeliveryGoesOn
  <2> QED
    BY <1>a, <1>b, <1>30, <2>1, OneKind
<1>31. ASSUME NEW o \in Items \cup Requeues \cup Restores, MutationFails(o)  PROVE DownInv'
    BY <1>31, <1>a, <1>b, OneKind DEF MutationFails
<1>32. ASSUME Crash  PROVE DownInv'
  <2>1. \A o \in Ops : pc'[o] \in {"idle", "done", "failed", "lost"}
    BY <1>32 DEF Crash
  <2> QED
    BY <1>32, <2>1 DEF Crash, DownInv, Over
<1>33. Request => DownInv'
    BY <1>4, <1>5, <1>6, <1>7, <1>8, <1>9, <1>10, <1>11, <1>12, <1>13, <1>14, Zenon DEF Request
<1>34. Continue => DownInv'
    BY <1>1, <1>3, <1>15, <1>16, <1>17, <1>18, <1>19, <1>20, <1>21, <1>22, <1>24, <1>25, <1>26,
       <1>28, <1>29, <1>30, Zenon DEF Continue, Gives, Delivers
<1>35. Environment => DownInv'
    BY <1>1, <1>3, <1>20, <1>27, <1>30, <1>31, <1>32, Zenon DEF Environment, Gives, Delivers
<1>36. DrainLoop => DownInv'
    BY <1>2, Zenon DEF DrainLoop
<1> QED
    BY UrgentTurns, <1>19, <1>20, <1>23, <1>33, <1>34, <1>35, <1>36, Zenon DEF Next, Works, Gives

-----------------------------------------------------------------------------
(* The appends in flight *)

\* The stages of an operation that waits for an append.
Appending == {"recording", "messaging", "ending", "requesting", "interrupting", "closing", "delivering", "failing"}

\* Nothing is in flight for a producer.
Quiet(x) == \A e : ~Awaits(x, e)

\* What a step has to leave alone for the producers other than x.
Keeps(x) ==
    /\ \A o \in Ops : o # x => /\ pc'[o] = pc[o] \/ pc[o] \notin Appending
                               /\ target'[o] = target[o] \/ pc[o] # "closing"
    /\ x = "drain" \/ drain' = drain \/ drain.at \notin {"starting", "failing"}
    /\ x = "resume" \/ pausing' = pausing

\* Who has nothing in flight.
LEMMA QuietProducers ==
    /\ \A o \in Ops : pc[o] \notin Appending => Quiet(o)
    /\ drain.at \notin {"starting", "failing"} => Quiet("drain")
    /\ pausing = <<>> => Quiet("resume")
<1>1. ASSUME NEW o \in Ops, pc[o] \notin Appending  PROVE Quiet(o)
    BY <1>1, OneKind DEF Quiet, Awaits, Appending
<1>2. "drain" \notin Ops /\ "resume" \notin Ops
    BY OneKind
<1>3. ASSUME drain.at \notin {"starting", "failing"}  PROVE Quiet("drain")
    BY <1>2, <1>3, OneKind DEF Quiet, Awaits
<1>4. ASSUME pausing = <<>>  PROVE Quiet("resume")
    BY <1>2, <1>4, OneKind DEF Quiet, Awaits
<1> QED
    BY <1>1, <1>3, <1>4

\* The other producers go on waiting.
LEMMA AwaitsKept ==
    ASSUME NEW x, Keeps(x), NEW by, NEW e, by # x, Awaits(by, e)
    PROVE  Awaits(by, e)'
<1>1. "drain" \notin Ops /\ "resume" \notin Ops
    BY OneKind
<1>2. CASE by \in Ops
  <2>1. pc[by] \in Appending
    BY <1>2, QuietProducers DEF Quiet
  <2>2. pc'[by] = pc[by] /\ (pc[by] = "closing" => target'[by] = target[by])
    BY <1>2, <2>1 DEF Keeps
  <2>3. by # "drain" /\ by # "resume"
    BY <1>1, <1>2
  <2>4. CASE pc[by] = "recording"
    BY <2>2, <2>3, <2>4 DEF Awaits
  <2>5. CASE pc[by] \in {"messaging", "ending"}
    BY <2>2, <2>3, <2>5 DEF Awaits
  <2>6. CASE pc[by] \in {"requesting", "interrupting", "closing", "delivering", "failing"}
    BY <2>2, <2>3, <2>6 DEF Awaits
  <2> QED
    BY <2>1, <2>4, <2>5, <2>6 DEF Appending
<1>3. CASE by \notin Ops
  <2>1. /\ by \notin Items /\ by \notin Requeues /\ by \notin Restores /\ by \notin Turns
        /\ by \notin Turns \cup Shells \cup Compactions /\ by \notin Compactions /\ by \notin Deliveries
    BY <1>3, OneKind
  <2>2. /\ by = "drain" => drain' = drain
        /\ by = "resume" => pausing' = pausing
    BY QuietProducers DEF Keeps, Quiet
  <2> QED
    BY <2>1, <2>2 DEF Awaits
<1> QED
    BY <1>2, <1>3

\* The appends without the one of producer x.
LEMMA FlightWithout ==
    ASSUME TypeOK, FlightInv, NEW x, NEW rest,
           (rest = appends /\ Quiet(x)) \/ (rest = Tail(appends) /\ Heads(x))
    PROVE  /\ rest \in Seq([by : Ops \cup {"drain", "resume"}, event : Events(QueueTypes \cup MarkTypes)])
           /\ \A a \in ToSet(rest) : a.by # x /\ Awaits(a.by, a.event)
           /\ \A m, n \in 1..Len(rest) : rest[m].by = rest[n].by => m = n
<1> DEFINE C == [by : Ops \cup {"drain", "resume"}, event : Events(QueueTypes \cup MarkTypes)]
<1>1. appends \in Seq(C)
    BY DEF TypeOK
<1> HIDE DEF C
<1>2. CASE rest = appends /\ Quiet(x)
    BY <1>1, <1>2 DEF FlightInv, Quiet, C
<1>3. CASE rest = Tail(appends) /\ Heads(x)
  <2>1. appends # <<>> /\ Head(appends).by = x
    BY <1>3 DEF Heads
  <2>2. /\ rest \in Seq(C) /\ Head(appends) = appends[1] /\ 1 \in 1..Len(appends)
        /\ \A n \in 1..Len(rest) : n + 1 \in 1..Len(appends) /\ rest[n] = appends[n + 1] /\ n + 1 # 1
    BY <1>1, <1>3, <2>1
  <2>3. \A n \in 1..Len(rest) : rest[n].by # x
    BY <2>1, <2>2 DEF FlightInv
  <2>4. \A a \in ToSet(rest) : a \in ToSet(appends) /\ \E n \in 1..Len(rest) : a = rest[n]
    BY <1>1, <2>2 DEF ToSet
  <2>5. ASSUME NEW m \in 1..Len(rest), NEW n \in 1..Len(rest), rest[m].by = rest[n].by  PROVE m + 1 = n + 1
    <3>1. m + 1 \in 1..Len(appends) /\ n + 1 \in 1..Len(appends) /\ appends[m + 1].by = appends[n + 1].by
      BY <2>2, <2>5
    <3> QED
      BY <3>1, Zenon DEF FlightInv
  <2>6. \A m, n \in 1..Len(rest) : m + 1 = n + 1 => m = n
    BY <2>2
  <2> QED
    BY <2>2, <2>3, <2>4, <2>5, <2>6 DEF FlightInv, C
<1> QED
    BY <1>2, <1>3

\* A step that hands nothing to the log keeps the appends in order.
LEMMA FlightDrops ==
    ASSUME TypeOK, FlightInv, NEW x, Keeps(x),
           (appends' = appends /\ Quiet(x)) \/ (appends' = Tail(appends) /\ Heads(x))
    PROVE  FlightInv'
<1>1. /\ \A a \in ToSet(appends') : a.by # x /\ Awaits(a.by, a.event)
      /\ \A m, n \in 1..Len(appends') : appends'[m].by = appends'[n].by => m = n
    BY FlightWithout
<1>2. \A a \in ToSet(appends') : Awaits(a.by, a.event)'
    BY <1>1, AwaitsKept
<1> QED
    BY <1>1, <1>2 DEF FlightInv

\* Nor does a step that hands an append of a quiet producer to the log, which may be x.
LEMMA FlightAdds ==
    ASSUME TypeOK, FlightInv, NEW x, Keeps(x), NEW rest,
           (rest = appends /\ Quiet(x)) \/ (rest = Tail(appends) /\ Heads(x)),
           NEW y \in Ops \cup {"drain", "resume"}, NEW e \in Events(QueueTypes \cup MarkTypes),
           y = x \/ Quiet(y), appends' = Append(rest, Entry(y, e)), Awaits(y, e)'
    PROVE  FlightInv'
<1> DEFINE C == [by : Ops \cup {"drain", "resume"}, event : Events(QueueTypes \cup MarkTypes)]
<1>1. /\ rest \in Seq(C)
      /\ \A a \in ToSet(rest) : a.by # x /\ Awaits(a.by, a.event)
      /\ \A m, n \in 1..Len(rest) : rest[m].by = rest[n].by => m = n
    BY FlightWithout
<1>2. \A a \in ToSet(rest) : a.by # y
    BY <1>1 DEF Quiet
<1>3. Entry(y, e) \in C /\ Entry(y, e).by = y /\ Entry(y, e).event = e
    BY DEF Entry
<1> HIDE DEF C
<1>4. /\ Len(rest) \in Nat /\ Len(appends') = Len(rest) + 1 /\ appends'[Len(rest) + 1] = Entry(y, e)
      /\ \A n \in 1..Len(rest) : appends'[n] = rest[n] /\ rest[n] \in ToSet(rest)
      /\ ToSet(appends') = ToSet(rest) \cup {Entry(y, e)}
  <2>1. \A n \in 1..Len(rest) : rest[n] \in ToSet(rest)
    BY <1>1 DEF ToSet
  <2> QED
    BY <1>1, <1>3, <2>1, ElemsAppend
<1>5. \A n \in 1..Len(appends') : n \in 1..Len(rest) \/ n = Len(rest) + 1
    BY <1>4
<1>6. \A a \in ToSet(appends') : Awaits(a.by, a.event)'
  <2>1. \A a \in ToSet(rest) : Awaits(a.by, a.event)'
    BY <1>1, AwaitsKept
  <2>2. ASSUME NEW a, a = Entry(y, e)  PROVE Awaits(a.by, a.event)'
    BY <1>3, <2>2
  <2> QED
    BY <1>4, <2>1, <2>2
<1>7. \A m, n \in 1..Len(appends') : appends'[m].by = appends'[n].by => m = n
    BY <1>1, <1>2, <1>3, <1>4, <1>5
<1> QED
    BY <1>6, <1>7 DEF FlightInv

\* Every append in flight keeps a producer that waits for it: who waits does nothing else,
\* and nobody hands a second one to the log.
LEMMA FlightStep ==
    ASSUME TypeOK, StageInv, DrainInv, DownInv, FlightInv, QueueInv, Next
    PROVE  FlightInv'
<1>0. /\ pc \in [Ops -> Stages] /\ target \in [Ops -> Ops \cup {None}]
      /\ drain.at \in {"idle", "loop", "starting", "sending", "failing", "compacting", "reloading"}
      /\ drain.op = None <=> drain.at \in {"idle", "loop"}
      /\ drain.op \in Items \cup Compactions \cup Reloads \cup {None}
    BY DEF TypeOK
<1>a. /\ \A type \in QueueTypes \cup MarkTypes, op \in Ops : Event(type, op) \in Events(QueueTypes \cup MarkTypes)
      /\ \A type \in QueueTypes \cup MarkTypes, op \in Ops, i \in Items, front \in BOOLEAN :
            QueueEvent(type, op, i, front) \in Events(QueueTypes \cup MarkTypes)
      /\ \A op \in Ops, items \in SUBSET Items : RestoredEvent(op, items) \in Events(QueueTypes \cup MarkTypes)
    BY EventTypes
<1>b. ASSUME appends' = appends, pc' = pc, target' = target, drain' = drain, pausing' = pausing  PROVE FlightInv'
  <2>1. ASSUME NEW by, NEW e, Awaits(by, e)  PROVE Awaits(by, e)'
    <3>1. Keeps("drain") /\ Keeps("resume") /\ "drain" # "resume"
      BY <1>b DEF Keeps
    <3> QED
      BY <2>1, <3>1, AwaitsKept
  <2> QED
    BY <1>b, <2>1 DEF FlightInv
<1>k. ASSUME NEW x \in Ops, NEW s, pc' = [pc EXCEPT ![x] = s], \A other \in Ops : other # x => target'[other] = target[other],
             drain' = drain \/ drain.at \notin {"starting", "failing"}, pausing' = pausing
      PROVE  Keeps(x) /\ pc'[x] = s
    BY <1>0, <1>k DEF Keeps
<1>d. StartDrain => drain' = drain \/ drain.at \notin {"starting", "failing"}
    BY DrainWakes
<1>t. /\ "drain" \notin Ops /\ "resume" \notin Ops
      /\ \A at, o : At(at, o).at = at /\ At(at, o).op = o
    BY OneKind DEF At
<1>1. ASSUME \/ Dispose \/ DisposeAborts \/ DisposeWaited \/ Disposed \/ BeginShutdown
      PROVE  FlightInv'
    BY <1>1, <1>b DEF Dispose, DisposeAborts, DisposeWaited, Disposed, BeginShutdown
<1>2. ASSUME NEW i \in Items, NEW front \in Fronts, Enqueue(i, front)  PROVE FlightInv'
  <2>1. /\ i \in Ops /\ pc[i] = "idle" /\ pc' = [pc EXCEPT ![i] = "recording"]
        /\ appends' = Append(appends, Entry(i, QueueEvent("enqueued", i, i, front)))
        /\ drain' = drain /\ pausing' = pausing
    BY <1>2, OneKind DEF Enqueue, Mutate, Called
  <2>2. \A other \in Ops : other # i => target'[other] = target[other]
    BY <1>0, <1>2 DEF Enqueue
  <2>3. Keeps(i) /\ Quiet(i) /\ pc'[i] = "recording"
    BY <1>k, <2>1, <2>2, QuietProducers DEF Appending
  <2>4. QueueEvent("enqueued", i, i, front) \in Events(QueueTypes \cup MarkTypes)
    BY <1>a, <1>2, <2>1, SessionAssumption DEF QueueTypes, MarkTypes
  <2>5. Awaits(i, QueueEvent("enqueued", i, i, front))'
    BY <1>2, <2>3, OneKind, SessionAssumption DEF Awaits
  <2> QED
    BY <2>1, <2>3, <2>4, <2>5, FlightAdds
<1>3. ASSUME NEW q \in Requeues, NEW i \in Items, NEW front \in Fronts, Requeue(q, i, front)  PROVE FlightInv'
  <2>1. /\ q \in Ops /\ pc[q] = "idle" /\ pc' = [pc EXCEPT ![q] = "recording"]
        /\ appends' = Append(appends, Entry(q, QueueEvent("requeued", q, i, front)))
        /\ drain' = drain /\ pausing' = pausing
    BY <1>3, OneKind DEF Requeue, Mutate, Called
  <2>2. \A other \in Ops : other # q => target'[other] = target[other]
    BY <1>0, <1>3 DEF Requeue
  <2>3. Keeps(q) /\ Quiet(q) /\ pc'[q] = "recording"
    BY <1>k, <2>1, <2>2, QuietProducers DEF Appending
  <2>4. QueueEvent("requeued", q, i, front) \in Events(QueueTypes \cup MarkTypes)
    BY <1>a, <1>3, <2>1, SessionAssumption DEF QueueTypes, MarkTypes
  <2>5. Awaits(q, QueueEvent("requeued", q, i, front))'
    BY <1>3, <2>3, OneKind, SessionAssumption DEF Awaits
  <2> QED
    BY <2>1, <2>3, <2>4, <2>5, FlightAdds
<1>4. ASSUME NEW x \in Restores, Restore(x)  PROVE FlightInv'
  <2> DEFINE items == Restorable
  <2>1. /\ x \in Ops /\ pc[x] = "idle" /\ pc' = [pc EXCEPT ![x] = "recording"]
        /\ appends' = Append(appends, Entry(x, RestoredEvent(x, items)))
        /\ drain' = drain /\ pausing' = pausing
    BY <1>4, OneKind DEF Restore, Mutate, Called
  <2>2. \A other \in Ops : other # x => target'[other] = target[other]
    BY <1>0, <1>4 DEF Restore
  <2>3. items \in SUBSET Items
    BY DEF Restorable
  <2> HIDE DEF items
  <2>4. Keeps(x) /\ Quiet(x) /\ pc'[x] = "recording"
    BY <1>k, <2>1, <2>2, QuietProducers DEF Appending
  <2>5. ASSUME NEW given \in SUBSET Items, given = items  PROVE FlightInv'
    <3>1. RestoredEvent(x, given) \in Events(QueueTypes \cup MarkTypes)
      BY <1>a, <2>1
    <3>2. Awaits(x, RestoredEvent(x, given))'
      BY <1>4, <2>4, OneKind DEF Awaits
    <3> QED
      BY <2>1, <2>4, <2>5, <3>1, <3>2, FlightAdds
  <2> QED
    BY <2>3, <2>5
<1>5. ASSUME NEW x \in Interrupts, InterruptAccepted(x)  PROVE FlightInv'
  <2>1. /\ x \in Ops /\ pc[x] = "idle" /\ pc' = [pc EXCEPT ![x] = "targeted"] /\ appends' = appends
        /\ drain' = drain /\ pausing' = pausing
    BY <1>5, OneKind DEF InterruptAccepted, Called
  <2>2. \A other \in Ops : other # x => target'[other] = target[other]
    BY <1>0, <1>5, OneKind DEF InterruptAccepted
  <2>3. Keeps(x) /\ Quiet(x)
    BY <1>k, <2>1, <2>2, QuietProducers DEF Appending
  <2> QED
    BY <2>1, <2>3, FlightDrops
<1>6. ASSUME NEW p \in Prompts, Send(p)  PROVE FlightInv'
  <2>1. /\ p \in Ops /\ pc[p] = "idle" /\ pc' = [pc EXCEPT ![p] = "claiming"] /\ appends' = appends
        /\ drain' = drain /\ pausing' = pausing
    BY <1>6, OneKind DEF Send, Called
  <2>2. \A other \in Ops : other # p => target'[other] = target[other]
    BY <1>0, <1>6 DEF Send
  <2>3. Keeps(p) /\ Quiet(p)
    BY <1>k, <2>1, <2>2, QuietProducers DEF Appending
  <2> QED
    BY <2>1, <2>3, FlightDrops
<1>7. ASSUME NEW d \in Deliveries, Reserve(d)  PROVE FlightInv'
  <2>1. /\ d \in Ops /\ pc[d] = "idle" /\ pc' = [pc EXCEPT ![d] = "reserved"] /\ appends' = appends
        /\ drain' = drain /\ pausing' = pausing
    BY <1>7, OneKind DEF Reserve, Called
  <2>2. \A other \in Ops : other # d => target'[other] = target[other]
    BY <1>0, <1>7, OneKind DEF Reserve
  <2>3. Keeps(d) /\ Quiet(d)
    BY <1>k, <2>1, <2>2, QuietProducers DEF Appending
  <2> QED
    BY <2>1, <2>3, FlightDrops
<1>8. ASSUME NEW c \in Compactions, Compact(c)  PROVE FlightInv'
  <2>1. /\ c \in Ops /\ pc[c] = "idle" /\ pc' = [pc EXCEPT ![c] = "working"] /\ appends' = appends
        /\ drain' = drain /\ pausing' = pausing
    BY <1>8, OneKind DEF Compact, Called
  <2>2. \A other \in Ops : other # c => target'[other] = target[other]
    BY <1>0, <1>8 DEF Compact
  <2>3. Keeps(c) /\ Quiet(c)
    BY <1>k, <2>1, <2>2, QuietProducers DEF Appending
  <2> QED
    BY <2>1, <2>3, FlightDrops
<1>9. ASSUME NEW c \in Compactions, CompactLater(c)  PROVE FlightInv'
  <2>1. /\ c \in Ops /\ pc[c] = "idle" /\ pc' = [pc EXCEPT ![c] = "recording"]
        /\ appends' = Append(appends, Entry(c, Event("compaction.queued", c)))
        /\ drain' = drain /\ pausing' = pausing
    BY <1>9, OneKind DEF CompactLater, Called
  <2>2. \A other \in Ops : other # c => target'[other] = target[other]
    BY <1>0, <1>9 DEF CompactLater
  <2>3. Keeps(c) /\ Quiet(c) /\ pc'[c] = "recording"
    BY <1>k, <2>1, <2>2, QuietProducers DEF Appending
  <2>4. Event("compaction.queued", c) \in Events(QueueTypes \cup MarkTypes)
    BY <1>a, <1>9, <2>1, SessionAssumption DEF QueueTypes, MarkTypes
  <2>5. Awaits(c, Event("compaction.queued", c))'
    BY <1>9, <2>3, OneKind, SessionAssumption DEF Awaits
  <2> QED
    BY <2>1, <2>3, <2>4, <2>5, FlightAdds
<1>10. ASSUME NEW s \in Shells, Shell(s)  PROVE FlightInv'
  <2>1. /\ s \in Ops /\ pc[s] = "idle" /\ pc' = [pc EXCEPT ![s] = "claiming"] /\ appends' = appends
        /\ drain' = drain /\ pausing' = pausing
    BY <1>10, OneKind DEF Shell, Called
  <2>2. \A other \in Ops : other # s => target'[other] = target[other]
    BY <1>0, <1>10 DEF Shell
  <2>3. Keeps(s) /\ Quiet(s)
    BY <1>k, <2>1, <2>2, QuietProducers DEF Appending
  <2> QED
    BY <2>1, <2>3, FlightDrops
<1>11. ASSUME NEW r \in Reloads, Reload(r)  PROVE FlightInv'
  <2>1. /\ r \in Ops /\ pc[r] = "idle" /\ pc' = [pc EXCEPT ![r] = "deciding"] /\ appends' = appends
        /\ drain' = drain /\ pausing' = pausing
    BY <1>11, OneKind DEF Reload, Called
  <2>2. \A other \in Ops : other # r => target'[other] = target[other]
    BY <1>0, <1>11 DEF Reload
  <2>3. Keeps(r) /\ Quiet(r)
    BY <1>k, <2>1, <2>2, QuietProducers DEF Appending
  <2> QED
    BY <2>1, <2>3, FlightDrops
<1>12. ASSUME NEW r \in Reloads, ReloadLater(r)  PROVE FlightInv'
  <2>1. /\ r \in Ops /\ pc[r] = "idle" /\ pc' = [pc EXCEPT ![r] = "queued"] /\ appends' = appends
        /\ drain' = drain /\ pausing' = pausing
    BY <1>12, OneKind DEF ReloadLater
  <2>2. \A other \in Ops : other # r => target'[other] = target[other]
    BY <1>0, <1>12 DEF ReloadLater
  <2>3. Keeps(r) /\ Quiet(r)
    BY <1>k, <2>1, <2>2, QuietProducers DEF Appending
  <2> QED
    BY <2>1, <2>3, FlightDrops
<1>13. ASSUME NEW i \in Items, Enqueued(i)  PROVE FlightInv'
  <2>1. /\ i \in Ops /\ Heads(i) /\ pc' = [pc EXCEPT ![i] = "queued"] /\ appends' = Tail(appends)
        /\ pausing' = pausing /\ target' = target
    BY <1>13, OneKind DEF Enqueued, MutationLanded
  <2>2. drain' = drain \/ drain.at \notin {"starting", "failing"}
    BY <1>13, <1>d DEF Enqueued, MutationLanded
  <2>3. Keeps(i)
    BY <1>k, <2>1, <2>2
  <2> QED
    BY <2>1, <2>3, FlightDrops
<1>14. ASSUME NEW q \in Requeues, Requeued(q)  PROVE FlightInv'
  <2>1. PICK i \in Items, front \in BOOLEAN :
           /\ Head(appends).event = QueueEvent("requeued", q, i, front)
           /\ pc'[q] = "done" /\ pc'[i] = "queued" /\ \A o \in Ops : o # q /\ o # i => pc'[o] = pc[o]
           /\ mutation = q /\ Heads(q)
    BY <1>14, RequeueLands
  <2>2. appends' = Tail(appends) /\ pausing' = pausing /\ target' = target
    BY <1>14 DEF Requeued, MutationLanded
  <2>3. drain' = drain \/ drain.at \notin {"starting", "failing"}
    BY <1>14, <1>d DEF Requeued
  <2>4. IsPaused(log, i)
    BY <2>1, HeadAwaits, Fields DEF QueueInv
  <2>5. pc[i] \in Over
    BY <2>4 DEF QueueInv
  <2>6. Keeps(q)
    BY <2>1, <2>2, <2>3, <2>5, OneKind DEF Keeps, Over, Appending
  <2> QED
    BY <2>1, <2>2, <2>6, FlightDrops
<1>15. ASSUME NEW x \in Restores, Restored(x)  PROVE FlightInv'
  <2>1. /\ x \in Ops /\ Heads(x) /\ pc' = [pc EXCEPT ![x] = "done"] /\ appends' = Tail(appends)
        /\ pausing' = pausing /\ target' = target
    BY <1>15, OneKind DEF Restored, MutationLanded
  <2>2. drain' = drain \/ drain.at \notin {"starting", "failing"}
    BY <1>15, <1>d DEF Restored, MutationLanded
  <2>3. Keeps(x)
    BY <1>k, <2>1, <2>2
  <2> QED
    BY <2>1, <2>3, FlightDrops
<1>16. ASSUME NEW x \in Interrupts, Interrupt(x)  PROVE FlightInv'
  <2>1. /\ x \in Ops /\ pc[x] = "targeted" /\ pc' = [pc EXCEPT ![x] = "done"] /\ appends' = appends
        /\ drain' = drain /\ pausing' = pausing
    BY <1>16, OneKind DEF Interrupt
  <2>2. \A other \in Ops : other # x => target'[other] = target[other]
    BY <1>0, <1>16 DEF Interrupt
  <2>3. Keeps(x) /\ Quiet(x)
    BY <1>k, <2>1, <2>2, QuietProducers DEF Appending
  <2> QED
    BY <2>1, <2>3, FlightDrops
<1>17. ASSUME NEW o \in Turns, Claim(o)  PROVE FlightInv'
  <2>1. /\ o \in Ops /\ pc[o] = "claiming" /\ pc' = [pc EXCEPT ![o] = "intercepting"] /\ appends' = appends
        /\ drain' = drain /\ pausing' = pausing
    BY <1>17, OneKind DEF Claim
  <2>2. \A other \in Ops : other # o => target'[other] = target[other]
    BY <1>0, <1>17 DEF Claim
  <2>3. Keeps(o) /\ Quiet(o)
    BY <1>k, <2>1, <2>2, QuietProducers DEF Appending
  <2> QED
    BY <2>1, <2>3, FlightDrops
<1>18. ASSUME NEW o \in Turns \cup Compactions \cup Shells, Gives(o)  PROVE FlightInv'
  <2>1. /\ o \in Ops /\ pc[o] \in {"claiming", "intercepting", "messaging", "ending"} /\ o \notin Reloads
        /\ pc'[o] \in IF o \in Deliveries THEN {"delivering", "failing"} ELSE {"done", "failed"}
        /\ \A p \in Ops : p # o => pc'[p] = pc[p] \/ (p \in Deliveries /\ pc[p] = "waiting" /\ pc'[p] = "claiming")
        /\ pausing' = pausing /\ target' = target
        /\ drain' \in IF drain.op = o THEN IF pc'[o] \in {"failed", "failing"} THEN {At("failing", o)} ELSE {Loop}
                      ELSE IF drain.at = "idle" THEN {drain, Loop} ELSE {drain}
    BY <1>18, GivesStages, GivesBranch, OneKind
  <2>2. PICK rest \in {appends, Tail(appends)}, ok \in BOOLEAN :
           /\ (rest = appends /\ pc[o] \in {"claiming", "intercepting"}) \/ (rest = Tail(appends) /\ Heads(o))
           /\ Follow(o, ok, rest)
    <3>1. CASE ClaimRefused(o)
      BY <3>1 DEF ClaimRefused
    <3>2. CASE InterceptedAway(o)
      BY <3>2 DEF InterceptedAway, Release
    <3>3. CASE End(o)
      BY <3>3 DEF End, Release
    <3>4. CASE OperationFails(o)
      BY <3>4 DEF OperationFails, Release
    <3> QED
      BY <1>18, <3>1, <3>2, <3>3, <3>4 DEF Gives
  <2>3. (rest = appends /\ Quiet(o)) \/ (rest = Tail(appends) /\ Heads(o))
    BY <2>1, <2>2, QuietProducers DEF Appending
  <2>4. drain.op = o => drain.at \notin {"starting", "failing"}
    BY <1>18, <2>1, OneKind DEF DrainInv, Placed
  <2>5. drain' = drain \/ drain.at \notin {"starting", "failing"}
    BY <2>1, <2>4
  <2>6. Keeps(o)
    BY <2>1, <2>5 DEF Keeps, Appending
  <2>7. CASE appends' = rest
    BY <2>3, <2>6, <2>7, FlightDrops
  <2>8. CASE o \in Deliveries
    <3>1. /\ appends' = Append(rest, Entry(o, Event(IF ok THEN "delivered" ELSE "undelivered", o)))
          /\ pc'[o] = IF ok THEN "delivering" ELSE "failing"
      BY <2>1, <2>2, <2>8, FollowMoves DEF Follow
    <3>2. CASE ok
      <4>1. Event("delivered", o) \in Events(QueueTypes \cup MarkTypes) /\ Awaits(o, Event("delivered", o))'
        BY <1>a, <2>1, <2>8, <3>1, <3>2 DEF Awaits, MarkTypes
      <4>2. appends' = Append(rest, Entry(o, Event("delivered", o)))
        BY <3>1, <3>2, Zenon
      <4> QED
        BY <2>1, <2>3, <2>6, <4>1, <4>2, FlightAdds
    <3>3. CASE ~ok
      <4>1. Event("undelivered", o) \in Events(QueueTypes \cup MarkTypes) /\ Awaits(o, Event("undelivered", o))'
        BY <1>a, <2>1, <2>8, <3>1, <3>3 DEF Awaits, MarkTypes
      <4>2. appends' = Append(rest, Entry(o, Event("undelivered", o)))
        BY <3>1, <3>3, Zenon
      <4> QED
        BY <2>1, <2>3, <2>6, <4>1, <4>2, FlightAdds
    <3> QED
      BY <3>2, <3>3
  <2>9. CASE o \notin Deliveries /\ drain.op = o /\ ~ok
    <3> DEFINE type == IF o \in Items THEN "error" ELSE "compaction.failed"
    <3>1. appends' = Append(rest, Entry("drain", Event(type, o)))
      BY <2>2, <2>9, Zenon DEF Follow
    <3>2. pc'[o] = "failed"
      BY <2>1, <2>2, <2>9, FollowMoves
    <3>3. drain'.at = "failing" /\ drain'.op = o
      BY <1>t, <2>1, <2>9, <3>2
    <3>4. type = IF o \in Compactions THEN "compaction.failed" ELSE "error"
      BY <1>0, <2>1, <2>9, OneKind
    <3>5. type \in MarkTypes
      BY DEF MarkTypes
    <3>6. Awaits("drain", Event(type, o))'
      <4> HIDE DEF type
      <4> QED
        BY <3>3, <3>4, Zenon DEF Awaits
    <3> HIDE DEF type
    <3>7. Quiet("drain") /\ Event(type, o) \in Events(QueueTypes \cup MarkTypes)
      BY <1>a, <2>1, <2>4, <2>9, <3>5, QuietProducers
    <3> QED
      BY <2>1, <2>3, <2>6, <3>1, <3>6, <3>7, FlightAdds
  <2> QED
    BY <2>2, <2>7, <2>8, <2>9 DEF Follow
<1>19. ASSUME NEW o \in Turns, Intercepted(o)  PROVE FlightInv'
  <2>1. /\ o \in Ops /\ pc[o] = "intercepting" /\ pc' = [pc EXCEPT ![o] = "messaging"]
        /\ appends' = Append(appends, Entry(o, Event("message", o)))
        /\ drain' = drain /\ pausing' = pausing
    BY <1>19, OneKind DEF Intercepted
  <2>2. \A other \in Ops : other # o => target'[other] = target[other]
    BY <1>0, <1>19 DEF Intercepted
  <2>3. Keeps(o) /\ Quiet(o) /\ pc'[o] = "messaging"
    BY <1>k, <2>1, <2>2, QuietProducers DEF Appending
  <2>4. Event("message", o) \in Events(QueueTypes \cup MarkTypes)
    BY <1>a, <1>19, <2>1, SessionAssumption DEF QueueTypes, MarkTypes
  <2>5. Awaits(o, Event("message", o))'
    BY <1>19, <2>3, OneKind, SessionAssumption DEF Awaits
  <2> QED
    BY <2>1, <2>3, <2>4, <2>5, FlightAdds
<1>20. ASSUME NEW o \in Turns, Messaged(o)  PROVE FlightInv'
  <2>1. /\ o \in Ops /\ Heads(o) /\ pc' = [pc EXCEPT ![o] = "working"] /\ appends' = Tail(appends)
        /\ pausing' = pausing /\ target' = target
    BY <1>20, OneKind DEF Messaged
  <2>2. drain' = drain \/ drain.at \notin {"starting", "failing"}
    BY <1>20 DEF Messaged
  <2>3. Keeps(o)
    BY <1>k, <2>1, <2>2
  <2> QED
    BY <2>1, <2>3, FlightDrops
<1>21. ASSUME NEW o \in Turns \cup Compactions \cup Shells, Stop(o)  PROVE FlightInv'
  <2>1. PICK type \in TerminalOf(o) : appends' = Append(appends, Entry(o, Event(type, o)))
    BY <1>21 DEF Stop
  <2>2. /\ o \in Ops /\ pc[o] = "working" /\ pc' = [pc EXCEPT ![o] = "ending"]
        /\ drain' = drain /\ pausing' = pausing /\ target' = target
    BY <1>21, OneKind DEF Stop
  <2>3. Keeps(o) /\ Quiet(o) /\ pc'[o] = "ending"
    BY <1>k, <2>2, QuietProducers DEF Appending
  <2>4. Event(type, o) \in Events(QueueTypes \cup MarkTypes)
    BY <1>a, <2>1, <2>2 DEF TerminalOf, MarkTypes
  <2>5. Awaits(o, Event(type, o))'
    BY <1>21, <2>3 DEF Awaits
  <2> QED
    BY <2>1, <2>2, <2>3, <2>4, <2>5, FlightAdds
<1>22. ASSUME NEW s \in Shells, ShellRuns(s)  PROVE FlightInv'
  <2>1. /\ s \in Ops /\ pc[s] = "claiming" /\ pc' = [pc EXCEPT ![s] = "working"] /\ appends' = appends
        /\ drain' = drain /\ pausing' = pausing
    BY <1>22, OneKind DEF ShellRuns
  <2>2. \A other \in Ops : other # s => target'[other] = target[other]
    BY <1>0, <1>22 DEF ShellRuns
  <2>3. Keeps(s) /\ Quiet(s)
    BY <1>k, <2>1, <2>2, QuietProducers DEF Appending
  <2> QED
    BY <2>1, <2>3, FlightDrops
<1>23. ASSUME NEW s \in Shells, ShellRefused(s)  PROVE FlightInv'
  <2>1. /\ s \in Ops /\ pc[s] = "claiming" /\ pc' = [pc EXCEPT ![s] = "failed"] /\ appends' = appends
        /\ drain' = drain /\ pausing' = pausing
    BY <1>23, OneKind DEF ShellRefused
  <2>2. \A other \in Ops : other # s => target'[other] = target[other]
    BY <1>0, <1>23 DEF ShellRefused
  <2>3. Keeps(s) /\ Quiet(s)
    BY <1>k, <2>1, <2>2, QuietProducers DEF Appending
  <2> QED
    BY <2>1, <2>3, FlightDrops
<1>24. ASSUME NEW c \in Compactions, CompactionQueued(c)  PROVE FlightInv'
  <2>1. /\ c \in Ops /\ Heads(c) /\ pc' = [pc EXCEPT ![c] = "queued"] /\ appends' = Tail(appends)
        /\ pausing' = pausing /\ target' = target
    BY <1>24, OneKind DEF CompactionQueued
  <2>2. drain' = drain \/ drain.at \notin {"starting", "failing"}
    BY <1>24 DEF CompactionQueued
  <2>3. Keeps(c)
    BY <1>k, <2>1, <2>2
  <2> QED
    BY <2>1, <2>3, FlightDrops
<1>25. ASSUME NEW c \in Compactions, CompactionUnqueued(c)  PROVE FlightInv'
  <2>1. /\ c \in Ops /\ Heads(c) /\ pc' = [pc EXCEPT ![c] = "failed"] /\ appends' = Tail(appends)
        /\ pausing' = pausing /\ target' = target
    BY <1>25, OneKind DEF CompactionUnqueued, Fault
  <2>2. drain' = drain \/ drain.at \notin {"starting", "failing"}
    BY <1>25 DEF CompactionUnqueued, Fault
  <2>3. Keeps(c)
    BY <1>k, <2>1, <2>2
  <2> QED
    BY <2>1, <2>3, FlightDrops
<1>26. ASSUME NEW r \in Reloads, Rebuild(r)  PROVE FlightInv'
  <2>1. /\ r \in Ops /\ pc[r] = "deciding" /\ appends' = appends
        /\ pc' = [pc EXCEPT ![r] = "rebuilding"] \/ pc' = [pc EXCEPT ![r] = "failed"]
        /\ drain' = drain /\ pausing' = pausing /\ target' = target
    BY <1>26, OneKind DEF Rebuild
  <2>2. Keeps(r) /\ Quiet(r)
    BY <1>k, <2>1, QuietProducers DEF Appending
  <2> QED
    BY <2>1, <2>2, FlightDrops
<1>27. ASSUME NEW r \in Reloads, Rebuilt(r)  PROVE FlightInv'
  <2>1. /\ r \in Ops /\ pc[r] = "rebuilding" /\ pausing' = pausing /\ target' = target
        /\ \/ /\ pc' = [pc EXCEPT ![r] = "done"] /\ drain' = IF drain.op # r THEN drain ELSE Loop
              /\ appends' = appends
           \/ /\ pc' = [pc EXCEPT ![r] = "failed"] /\ drain' = IF drain.op # r THEN drain ELSE At("failing", r)
              /\ appends' = IF drain.op = r THEN Append(appends, Entry("drain", Event("error", r))) ELSE appends
    BY <1>27, OneKind DEF Rebuilt
  <2>2. drain.op = r => drain.at \notin {"starting", "failing"}
    BY <1>27, <2>1, OneKind DEF DrainInv, Placed
  <2>3. Quiet(r) /\ Keeps(r)
    BY <1>k, <2>1, <2>2, QuietProducers DEF Appending
  <2>4. CASE appends' = appends
    BY <2>3, <2>4, FlightDrops
  <2>5. CASE /\ drain.op = r /\ drain' = At("failing", r)
             /\ appends' = Append(appends, Entry("drain", Event("error", r)))
    <3>1. Quiet("drain") /\ Event("error", r) \in Events(QueueTypes \cup MarkTypes)
      BY <1>a, <2>1, <2>2, <2>5, QuietProducers DEF MarkTypes
    <3>2. Awaits("drain", Event("error", r))'
      <4>1. drain'.at = "failing" /\ drain'.op = r /\ "error" = IF r \in Compactions THEN "compaction.failed" ELSE "error"
        BY <1>27, <1>t, <2>5, OneKind
      <4> QED
        BY <4>1, Zenon DEF Awaits
    <3> QED
      BY <2>3, <2>5, <3>1, <3>2, FlightAdds
  <2> QED
    BY <2>1, <2>4, <2>5
<1>28. ASSUME DrainStops  PROVE FlightInv'
  <2>1. /\ appends' = appends /\ pc' = pc /\ target' = target /\ pausing' = pausing /\ drain.at = "loop"
    BY <1>28 DEF DrainStops
  <2>2. Keeps("drain") /\ Quiet("drain")
    BY <2>1, QuietProducers DEF Keeps
  <2> QED
    BY <2>1, <2>2, FlightDrops
<1>29. ASSUME DrainCompacts  PROVE FlightInv'
  <2>1. /\ appends' = appends /\ target' = target /\ pausing' = pausing /\ drain.at = "loop"
        /\ pc' = [pc EXCEPT ![Head(compactions)] = "working"]
    BY <1>29 DEF DrainCompacts
  <2>2. Head(compactions) \in Ops /\ pc[Head(compactions)] = "queued"
    BY <1>29, HeadIn, OneKind DEF DrainCompacts, DrainInv, Listed, TypeOK
  <2>3. Keeps(Head(compactions)) /\ Quiet(Head(compactions))
    BY <1>k, <2>1, <2>2, QuietProducers DEF Appending
  <2> QED
    BY <2>1, <2>3, FlightDrops
<1>30. ASSUME DrainReloads  PROVE FlightInv'
  <2>1. /\ appends' = appends /\ target' = target /\ pausing' = pausing /\ drain.at = "loop"
        /\ pc' = [pc EXCEPT ![Head(reloads)] = "rebuilding"]
    BY <1>30 DEF DrainReloads
  <2>2. Head(reloads) \in Ops /\ pc[Head(reloads)] = "queued"
    BY <1>30, HeadIn, OneKind DEF DrainReloads, DrainInv, Listed, TypeOK
  <2>3. Keeps(Head(reloads)) /\ Quiet(Head(reloads))
    BY <1>k, <2>1, <2>2, QuietProducers DEF Appending
  <2> QED
    BY <2>1, <2>3, FlightDrops
<1>31. ASSUME DrainStarts  PROVE FlightInv'
  <2>1. PICK h \in Items : h = Head(queue)
    BY <1>31, HeadIn DEF DrainStarts, TypeOK
  <2>2. /\ appends' = Append(appends, Entry("drain", QueueEvent("started", h, h, FALSE)))
        /\ pc' = pc /\ target' = target /\ pausing' = pausing /\ drain.at = "loop" /\ drain' = At("starting", h)
    BY <1>31, <2>1 DEF DrainStarts
  <2>3. Keeps("drain") /\ Quiet("drain")
    BY <2>2, QuietProducers DEF Keeps
  <2>4. QueueEvent("started", h, h, FALSE) \in Events(QueueTypes \cup MarkTypes)
    BY <1>a, OneKind DEF QueueTypes
  <2>5. Awaits("drain", QueueEvent("started", h, h, FALSE))'
    BY <1>t, <2>2 DEF Awaits
  <2> QED
    BY <2>2, <2>3, <2>4, <2>5, FlightAdds
<1>32. ASSUME DrainSends  PROVE FlightInv'
  <2>1. /\ appends' = Tail(appends) /\ target' = target /\ pausing' = pausing /\ Heads("drain")
        /\ pc' = [pc EXCEPT ![drain.op] = "claiming"]
    BY <1>32 DEF DrainSends, Fault
  <2>2. pc[drain.op] \in {"queued", "failed"}
    BY <1>32, HeadKinds DEF DrainSends, DrainInv, Placed
  <2>3. Keeps("drain")
    BY <1>0, <2>1, <2>2 DEF Keeps, Appending
  <2> QED
    BY <2>1, <2>3, FlightDrops
<1>33. ASSUME DrainRecorded  PROVE FlightInv'
  <2>1. /\ appends' = Tail(appends) /\ target' = target /\ pausing' = pausing /\ Heads("drain") /\ pc' = pc
    BY <1>33 DEF DrainRecorded
  <2>2. Keeps("drain")
    BY <2>1 DEF Keeps
  <2> QED
    BY <2>1, <2>2, FlightDrops
<1>34. ASSUME DrainBreaks  PROVE FlightInv'
  <2>1. /\ appends' = Tail(appends) /\ target' = target /\ pausing' = pausing /\ Heads("drain")
        /\ pc' = [pc EXCEPT ![drain.op] = "failed"]
    BY <1>34 DEF DrainBreaks, Fault
  <2>2. pc[drain.op] \in {"queued", "failed"}
    BY <1>34, HeadKinds DEF DrainBreaks, DrainInv, Placed
  <2>3. Keeps("drain")
    BY <1>0, <2>1, <2>2 DEF Keeps, Appending
  <2> QED
    BY <2>1, <2>3, FlightDrops
<1>35. ASSUME NEW d \in Deliveries, Delivers(d)  PROVE FlightInv'
  <2>0. d \in Ops /\ pausing' = pausing /\ target' = target
    BY <1>35, DeliveryGoesOn, OneKind
  <2>1. Keeps(d)
    <3>1. /\ \A o \in Ops : o # d => pc'[o] = pc[o]
          /\ drain' = drain \/ drain.at \notin {"starting", "failing"}
      BY <1>35, DeliveryGoesOn
    <3> QED
      BY <2>0, <3>1 DEF Keeps
  <2>a. ASSUME Heads(d) \/ pc[d] = "reserved", appends' = IF Heads(d) THEN Tail(appends) ELSE appends  PROVE FlightInv'
    BY <2>0, <2>1, <2>a, FlightDrops, QuietProducers DEF Appending
  <2>b. ASSUME NEW type \in {"requested", "interrupting", "undelivered"},
               \/ appends' = Append(appends, Entry(d, Event(type, d))) /\ pc[d] = "reserved"
               \/ appends' = Append(Tail(appends), Entry(d, Event(type, d))) /\ Heads(d),
               \/ type = "requested" /\ pc'[d] = "requesting"
               \/ type = "interrupting" /\ pc'[d] = "interrupting"
               \/ type = "undelivered" /\ pc'[d] = "failing"
        PROVE  FlightInv'
    <3>1. Event(type, d) \in Events(QueueTypes \cup MarkTypes)
      BY <1>a, <2>0 DEF MarkTypes
    <3>2. Awaits(d, Event(type, d))'
      BY <1>35, <2>b DEF Awaits
    <3>3. Quiet(d) \/ Heads(d)
      BY <2>0, <2>b, QuietProducers DEF Appending
    <3> QED
      BY <2>0, <2>1, <2>b, <3>1, <3>2, <3>3, QuietProducers, FlightAdds DEF Appending
  <2>2. CASE DeliverRefused(d)
    <3>1. appends' = appends /\ Quiet(d)
      BY <2>0, <2>2, QuietProducers DEF DeliverRefused, Appending
    <3> QED
      BY <2>1, <3>1, FlightDrops
  <2>3. CASE DeliverRequest(d)
    BY <1>0, <2>0, <2>3, <2>b DEF DeliverRequest
  <2>4. CASE DeliverRequested(d)
    <3>1. Heads(d) /\ \/ appends' = Tail(appends)
                      \/ appends' = Append(Tail(appends), Entry(d, Event("interrupting", d))) /\ pc'[d] = "interrupting"
      BY <1>0, <2>0, <2>4 DEF DeliverRequested, Then
    <3> QED
      BY <2>a, <2>b, <3>1
  <2>5. CASE DeliverInterrupts(d)
    <3>1. /\ Heads(d)
          /\ \/ appends' = Tail(appends)
             \/ appends' = Append(Tail(appends), Entry(d, Event("undelivered", d))) /\ pc'[d] = "failing"
             \/ /\ appends' = Append(Tail(appends), Entry(d, Event("assistant", target[d]))) /\ pc'[d] = "closing"
                /\ Has(target[d], {"message"})
      BY <1>0, <2>0, <2>5 DEF DeliverInterrupts, Then
    <3>2. ASSUME appends' = Append(Tail(appends), Entry(d, Event("assistant", target[d]))), pc'[d] = "closing",
                 Has(target[d], {"message"})
          PROVE  FlightInv'
      <4>1. PICK t : t = target[d]
        OBVIOUS
      <4>2. t \in Ops
        BY <3>2, <4>1, EventTypes DEF Has, TypeOK, Events
      <4>3. Event("assistant", t) \in Events(QueueTypes \cup MarkTypes)
        BY <1>a, <4>2 DEF MarkTypes
      <4>4. target'[d] = t
        BY <2>0, <4>1
      <4>5. Awaits(d, Event("assistant", t))'
        BY <1>35, <3>2, <4>4 DEF Awaits
      <4> QED
        BY <2>0, <2>1, <3>1, <3>2, <4>1, <4>3, <4>5, FlightAdds
    <3> QED
      BY <2>a, <2>b, <3>1, <3>2
  <2>6. CASE DeliverClosed(d)
    BY <2>6, <2>a DEF DeliverClosed
  <2>7. CASE Delivered(d)
    BY <2>7, <2>a DEF Delivered
  <2>8. CASE DeliveryFails(d)
    <3>1. Heads(d) /\ \/ appends' = Tail(appends)
                      \/ appends' = Append(Tail(appends), Entry(d, Event("undelivered", d))) /\ pc'[d] = "failing"
      BY <1>0, <2>0, <2>8 DEF DeliveryFails, Then
    <3> QED
      BY <2>a, <2>b, <3>1
  <2> QED
    BY <1>35, <2>2, <2>3, <2>4, <2>5, <2>6, <2>7, <2>8 DEF Delivers
<1>36. ASSUME NEW o \in Items \cup Requeues \cup Restores, MutationFails(o)  PROVE FlightInv'
  <2>1. /\ o \in Ops /\ Heads(o) /\ pc' = [pc EXCEPT ![o] = "failed"] /\ appends' = Tail(appends)
        /\ pausing' = pausing /\ target' = target
    BY <1>36, OneKind DEF MutationFails, Fault
  <2>2. drain' = drain \/ drain.at \notin {"starting", "failing"}
    BY <1>36, <1>d DEF MutationFails, Fault
  <2>3. Keeps(o)
    BY <1>k, <2>1, <2>2
  <2> QED
    BY <2>1, <2>3, FlightDrops
<1>37. ASSUME Crash  PROVE FlightInv'
  <2>1. appends' = <<>>
    BY <1>37 DEF Crash
  <2>2. ToSet(<<>>) = {} /\ 1..Len(<<>>) = {}
    BY DEF ToSet
  <2> QED
    BY <2>1, <2>2 DEF FlightInv
<1>38. ASSUME Resume  PROVE FlightInv'
  <2>0. PICK s : s = Pending
    OBVIOUS
  <2>1. /\ appends = <<>> /\ pausing = <<>> /\ phase = "down"
        /\ pc' = pc /\ target' = target /\ drain' = drain /\ pausing' = s
        /\ appends' = IF s = <<>> THEN <<>> ELSE <<Entry("resume", QueueEvent("paused", Head(s), Head(s), FALSE))>>
    BY <1>38, <2>0 DEF Resume, DownInv
  <2>2. Quiet("resume") /\ Keeps("resume")
    BY <2>1, QuietProducers DEF Keeps
  <2>3. CASE s = <<>>
    BY <2>1, <2>2, <2>3, FlightDrops
  <2>4. CASE s # <<>>
    <3>1. s \in Seq(Items)
      BY <2>0, PendingQueued DEF QueueInv, WellFormed, Pending
    <3>2. PICK h \in Items : h = Head(s)
      BY <2>4, <3>1, HeadIn
    <3>3. QueueEvent("paused", h, h, FALSE) \in Events(QueueTypes \cup MarkTypes)
      BY <1>a, OneKind DEF QueueTypes
    <3>4. appends' = Append(appends, Entry("resume", QueueEvent("paused", h, h, FALSE)))
      <4>1. \A entry : Append(<<>>, entry) = <<entry>>
        OBVIOUS
      <4> QED
        BY <2>1, <2>4, <3>2, <4>1
    <3>5. Awaits("resume", QueueEvent("paused", h, h, FALSE))'
      BY <2>1, <2>4, <3>2 DEF Awaits
    <3> QED
      BY <2>2, <3>3, <3>4, <3>5, FlightAdds
  <2> QED
    BY <2>3, <2>4
<1>39. ASSUME Paused  PROVE FlightInv'
  <2>1. /\ Heads("resume") /\ pausing' = Tail(pausing) /\ pc' = pc /\ target' = target /\ drain' = drain
        /\ appends' = IF Tail(pausing) = <<>> THEN Tail(appends)
                      ELSE Append(Tail(appends), Entry("resume", QueueEvent("paused", pausing[2], pausing[2], FALSE)))
    BY <1>39 DEF Paused, Then
  <2>2. Keeps("resume")
    BY <2>1 DEF Keeps
  <2>3. pausing # <<>> /\ pausing \in Seq(Items)
    BY <2>1, HeadKinds DEF TypeOK
  <2>4. CASE Tail(pausing) = <<>>
    BY <2>1, <2>2, <2>4, FlightDrops
  <2>5. CASE Tail(pausing) # <<>>
    <3>1. PICK h \in Items : h = Head(Tail(pausing)) /\ h = pausing[2]
      BY <2>3, <2>5
    <3>2. QueueEvent("paused", h, h, FALSE) \in Events(QueueTypes \cup MarkTypes)
      BY <1>a, OneKind DEF QueueTypes
    <3>3. Awaits("resume", QueueEvent("paused", h, h, FALSE))'
      BY <2>1, <2>5, <3>1 DEF Awaits
    <3> QED
      BY <2>1, <2>2, <2>5, <3>1, <3>2, <3>3, FlightAdds
  <2> QED
    BY <2>4, <2>5
<1>40. Request => FlightInv'
    BY <1>2, <1>3, <1>4, <1>5, <1>6, <1>7, <1>8, <1>9, <1>10, <1>11, <1>12, Zenon DEF Request
<1>41. Continue => FlightInv'
    BY <1>1, <1>13, <1>14, <1>15, <1>16, <1>17, <1>18, <1>19, <1>20, <1>22, <1>23, <1>24, <1>26,
       <1>27, <1>32, <1>33, <1>35, <1>38, <1>39, Zenon DEF Continue, Gives, Delivers
<1>42. Environment => FlightInv'
    BY <1>1, <1>18, <1>25, <1>34, <1>35, <1>36, <1>37, Zenon DEF Environment, Gives, Delivers
<1>43. DrainLoop => FlightInv'
    BY <1>28, <1>29, <1>30, <1>31, Zenon DEF DrainLoop
<1> QED
    BY UrgentTurns, <1>17, <1>18, <1>21, <1>40, <1>41, <1>42, <1>43, Zenon DEF Next, Works, Gives

-----------------------------------------------------------------------------
(* What lands in the log, and what is handed to it *)

\* An append that is not a queue mutation's leaves the lifecycle events alone.
LEMMA MarkLands ==
    ASSUME TypeOK, FlightInv, NEW o \in Ops, Heads(o), Land,
           o \notin Items \cup Requeues \cup Restores \/ pc[o] # "recording"
    PROVE  log' = log
<1> DEFINE e == Head(appends).event
<1>1. Awaits(o, e) /\ o # "drain" /\ o # "resume"
    BY HeadAwaits, OneKind
<1>2. \E op : \E type \in MarkTypes : e = Event(type, op)
    BY <1>1, Zenon DEF Awaits, TerminalOf, MarkTypes
<1>3. e.type \in MarkTypes
    BY <1>2, Fields
<1>4. e.type \notin QueueTypes
    BY <1>3 DEF MarkTypes, QueueTypes
<1> QED
    BY <1>4 DEF Land

\* What lands when a queue mutation, a start or a pause heads the chain.
LEMMA LifecycleLands ==
    ASSUME TypeOK, Land, Head(appends).event.type \in QueueTypes
    PROVE  log' = Append(log, Head(appends).event)
    BY DEF Land

\* The head of the chain is an event that the log can go on with.
LEMMA HeadContinues ==
    ASSUME TypeOK, StageInv, DrainInv, FlightInv, QueueInv, appends # <<>>
    PROVE  LET e == Head(appends).event IN
           /\ e.type \in QueueTypes => Continues(log, e)
           /\ e.type = "enqueued" => e.item \in Items /\ pc[e.item] = "recording"
           /\ e.type = "started" => drain.at = "starting" /\ e.item = drain.op
<1> DEFINE e == Head(appends).event
           by == Head(appends).by
<1>1. Awaits(by, e) /\ e \in Events(QueueTypes \cup MarkTypes) /\ Head(appends) \in ToSet(appends)
    BY HeadAwaits DEF Heads
<1>2. e.type \in QueueTypes => e \in Events(QueueTypes)
    BY <1>1, EventTypes
<1>3. CASE \E front \in BOOLEAN : /\ by \in Items /\ pc[by] = "recording"
                                  /\ e = QueueEvent("enqueued", by, by, front)
  <2>1. by \in Items /\ pc[by] = "recording" /\ e.type = "enqueued" /\ e.item = by
    BY <1>3, Fields
  <2>2. ~Recorded(log, by)
    BY <2>1 DEF QueueInv
  <2> QED
    BY <1>2, <2>1, <2>2 DEF Continues, QueueEvents, QueueTypes
<1>4. CASE \E i \in Items, front \in BOOLEAN : e = QueueEvent("requeued", by, i, front)
  <2>1. e.type = "requeued" /\ e.item \in Items
    BY <1>4, Fields
  <2>2. IsPaused(log, e.item)
    BY <1>1, <2>1 DEF QueueInv
  <2>3. Recorded(log, e.item) /\ ~Started(log, e.item)
    BY <2>2, LogSays DEF QueueInv
  <2> QED
    BY <1>2, <2>1, <2>3 DEF Continues, QueueEvents, QueueTypes
<1>5. CASE \E items \in SUBSET Items : e = RestoredEvent(by, items)
  <2>1. e.type = "restored"
    BY <1>5, Fields
  <2> QED
    BY <1>2, <2>1 DEF Continues, QueueEvents, QueueTypes, Lifecycle
<1>6. CASE drain.at = "starting" /\ e = QueueEvent("started", drain.op, drain.op, FALSE)
  <2>0. drain.op \in Items
    BY <1>6 DEF DrainInv, Placed
  <2>1. e.type = "started" /\ e.item = drain.op /\ drain.op \in Items
    <3>1. \A o : QueueEvent("started", o, o, FALSE).type = "started" /\ QueueEvent("started", o, o, FALSE).item = o
      BY DEF QueueEvent, Event
    <3> HIDE DEF e
    <3> QED
      BY <1>6, <2>0, <3>1
  <2>2. Waits(log, drain.op)
    BY <1>6 DEF QueueInv, Held, Starting
  <2>3. Recorded(log, drain.op) /\ ~Started(log, drain.op)
    BY <2>2, LogSays DEF QueueInv
  <2> QED
    BY <1>2, <1>6, <2>1, <2>2, <2>3 DEF Continues, QueueEvents, QueueTypes
<1>7. CASE pausing # <<>> /\ e = QueueEvent("paused", Head(pausing), Head(pausing), FALSE)
  <2>1. e.type = "paused" /\ e.item = Head(pausing)
    <3>1. \A o : QueueEvent("paused", o, o, FALSE).type = "paused" /\ QueueEvent("paused", o, o, FALSE).item = o
      BY DEF QueueEvent, Event
    <3> HIDE DEF e
    <3> QED
      BY <1>7, <3>1
  <2>2. Head(pausing) \in Items /\ Head(pausing) \in ToSet(pausing)
    BY <1>7, HeadIn DEF TypeOK
  <2>3. Waits(log, Head(pausing))
    BY <2>2 DEF QueueInv, Held
  <2>4. Recorded(log, Head(pausing)) /\ ~Started(log, Head(pausing))
    BY <2>3, LogSays DEF QueueInv
  <2> QED
    BY <1>2, <2>1, <2>2, <2>4 DEF Continues, QueueEvents, QueueTypes
<1>8. CASE \E op : \E type \in MarkTypes : e = Event(type, op)
  <2>1. e.type \in MarkTypes
    BY <1>8, Fields
  <2> QED
    BY <2>1 DEF MarkTypes, QueueTypes
<1> QED
    BY <1>1, <1>3, <1>4, <1>5, <1>6, <1>7, <1>8, Zenon DEF Awaits, TerminalOf, MarkTypes

\* Only requeue and restoreQueue hand an append of their kind to the log.
LEMMA NewAppends ==
    ASSUME TypeOK, StageInv, DrainInv, FlightInv, QueueInv, Next, mutation' \in Items \cup {mutation, None}
    PROVE  \A a \in ToSet(appends') : a \in ToSet(appends) \/ a.event.type \notin {"requeued", "restored"}
<1> DEFINE C == [by : Ops \cup {"drain", "resume"}, event : Events(QueueTypes \cup MarkTypes)]
           Kept == \A a \in ToSet(appends') : a \in ToSet(appends) \/ a.event.type \notin {"requeued", "restored"}
<1>0. appends \in Seq(C) /\ (appends # <<>> => Tail(appends) \in Seq(C) /\ ToSet(Tail(appends)) \subseteq ToSet(appends))
  <2>1. appends \in Seq(C)
    BY DEF TypeOK
  <2> QED
    BY <2>1, HeadIn
<1>a. appends' = appends => Kept
    OBVIOUS
<1>b. appends # <<>> /\ appends' = Tail(appends) => Kept
    BY <1>0
<1>c. ASSUME NEW rest, rest = appends \/ (appends # <<>> /\ rest = Tail(appends)),
             NEW by \in Ops \cup {"drain", "resume"}, NEW e \in Events(QueueTypes \cup MarkTypes),
             e.type \notin {"requeued", "restored"}, appends' = Append(rest, Entry(by, e))
      PROVE  Kept
  <2>1. rest \in Seq(C) /\ ToSet(rest) \subseteq ToSet(appends)
    BY <1>0, <1>c
  <2>2. Entry(by, e) \in C /\ Entry(by, e).event = e
    BY DEF Entry
  <2> HIDE DEF C
  <2>3. ToSet(appends') = ToSet(rest) \cup {Entry(by, e)}
    BY <1>c, <2>1, <2>2, ElemsAppend
  <2> QED
    BY <1>c, <2>1, <2>2, <2>3
<1>d. ASSUME NEW rest, rest = appends \/ (appends # <<>> /\ rest = Tail(appends)),
             NEW by \in Ops \cup {"drain", "resume"}, NEW op \in Ops, NEW type \in MarkTypes,
             appends' = Append(rest, Entry(by, Event(type, op)))
      PROVE  Kept
  <2>1. Event(type, op) \in Events(QueueTypes \cup MarkTypes)
    BY EventTypes
  <2>2. Event(type, op).type = type
    BY Fields
  <2> QED
    BY <1>c, <1>d, <2>1, <2>2 DEF MarkTypes
<1>e. ASSUME NEW rest, rest = appends \/ (appends # <<>> /\ rest = Tail(appends)),
             NEW by \in Ops \cup {"drain", "resume"}, NEW i \in Items, NEW front \in BOOLEAN,
             NEW type \in {"enqueued", "started", "paused"},
             appends' = Append(rest, Entry(by, QueueEvent(type, i, i, front)))
      PROVE  Kept
  <2>1. QueueEvent(type, i, i, front) \in Events(QueueTypes \cup MarkTypes)
    BY EventTypes, OneKind DEF QueueTypes
  <2>2. QueueEvent(type, i, i, front).type = type
    BY Fields
  <2> QED
    BY <1>c, <1>e, <2>1, <2>2
<1>m. {"requested", "interrupting", "delivered", "undelivered", "message", "assistant", "error", "shell",
       "compaction.queued", "compacted", "compaction.failed"} \subseteq MarkTypes
    BY DEF MarkTypes
<1> HIDE DEF Kept, C
<1>1. ASSUME \/ \E x \in Interrupts : InterruptAccepted(x)
             \/ \E p \in Prompts : Send(p)
             \/ \E d \in Deliveries : Reserve(d)
             \/ \E c \in Compactions : Compact(c)
             \/ \E s \in Shells : Shell(s)
             \/ \E r \in Reloads : Reload(r)
             \/ \E r \in Reloads : ReloadLater(r)
             \/ \E x \in Interrupts : Interrupt(x)
             \/ \E o \in Turns : Claim(o)
             \/ \E s \in Shells : ShellRuns(s)
             \/ \E s \in Shells : ShellRefused(s)
             \/ \E r \in Reloads : Rebuild(r)
             \/ DrainStops \/ DrainCompacts \/ DrainReloads \/ Dispose \/ DisposeAborts \/ DisposeWaited
             \/ Disposed \/ BeginShutdown
      PROVE  Kept
    BY <1>1, <1>a
    DEF InterruptAccepted, Send, Reserve, Compact, Shell, Reload, ReloadLater, Interrupt, Claim,
        ShellRuns, ShellRefused, Rebuild, DrainStops, DrainCompacts, DrainReloads, Dispose,
        DisposeAborts, DisposeWaited, Disposed, BeginShutdown
<1>2. ASSUME \/ \E i \in Items : Enqueued(i)
             \/ \E q \in Requeues : Requeued(q)
             \/ \E x \in Restores : Restored(x)
             \/ \E o \in Turns : Messaged(o)
             \/ \E c \in Compactions : CompactionQueued(c)
             \/ \E c \in Compactions : CompactionUnqueued(c)
             \/ \E o \in Items \cup Requeues \cup Restores : MutationFails(o)
             \/ DrainSends \/ DrainRecorded \/ DrainBreaks
      PROVE  Kept
    BY <1>2, <1>b
    DEF Enqueued, Requeued, Restored, Messaged, CompactionQueued, CompactionUnqueued,
        MutationFails, DrainSends, DrainRecorded, DrainBreaks, Heads, MutationLanded
<1>3. ASSUME NEW i \in Items, NEW front \in Fronts, Enqueue(i, front)  PROVE Kept
  <2>1. appends' = Append(appends, Entry(i, QueueEvent("enqueued", i, i, front))) /\ front \in BOOLEAN /\ i \in Ops
    BY <1>3, SessionAssumption, OneKind DEF Enqueue, Mutate
  <2> QED
    BY <1>e, <2>1
<1>4. ASSUME NEW q \in Requeues, NEW i \in Items, NEW front \in Fronts, Requeue(q, i, front)  PROVE Kept
  <2>1. mutation' = q /\ mutation = None
    BY <1>4 DEF Requeue, Mutate
  <2> QED
    BY <1>4, <2>1, OneKind
<1>5. ASSUME NEW x \in Restores, Restore(x)  PROVE Kept
  <2>1. mutation' = x /\ mutation = None
    BY <1>5 DEF Restore, Mutate
  <2> QED
    BY <1>5, <2>1, OneKind
<1>6. ASSUME NEW c \in Compactions, CompactLater(c)  PROVE Kept
  <2>1. appends' = Append(appends, Entry(c, Event("compaction.queued", c))) /\ c \in Ops
    BY <1>6, OneKind DEF CompactLater
  <2> QED
    BY <1>d, <1>m, <2>1
<1>7. ASSUME NEW o \in Turns \cup Compactions \cup Shells, Gives(o)  PROVE Kept
  <2>1. o \in Ops
    BY <1>7, OneKind
  <2>2. PICK rest \in {appends, Tail(appends)}, ok \in BOOLEAN :
           /\ rest = appends \/ (appends # <<>> /\ rest = Tail(appends))
           /\ Follow(o, ok, rest)
    <3>1. CASE ClaimRefused(o)
      BY <3>1 DEF ClaimRefused
    <3>2. CASE InterceptedAway(o)
      BY <3>2 DEF InterceptedAway, Release
    <3>3. CASE End(o)
      BY <3>3 DEF End, Release, Heads
    <3>4. CASE OperationFails(o)
      BY <3>4 DEF OperationFails, Release, Heads
    <3> QED
      BY <1>7, <3>1, <3>2, <3>3, <3>4 DEF Gives
  <2>3. \/ appends' = rest
        \/ \E type \in {"delivered", "undelivered"} : appends' = Append(rest, Entry(o, Event(type, o)))
        \/ \E type \in {"error", "compaction.failed"} : appends' = Append(rest, Entry("drain", Event(type, o)))
    BY <2>2, Zenon DEF Follow
  <2> QED
    BY <1>a, <1>b, <1>d, <1>m, <2>1, <2>2, <2>3
<1>8. ASSUME NEW o \in Turns, Intercepted(o)  PROVE Kept
  <2>1. appends' = Append(appends, Entry(o, Event("message", o))) /\ o \in Ops
    BY <1>8, OneKind DEF Intercepted
  <2> QED
    BY <1>d, <1>m, <2>1
<1>9. ASSUME NEW o \in Turns \cup Compactions \cup Shells, Stop(o)  PROVE Kept
  <2>1. PICK type \in TerminalOf(o) : appends' = Append(appends, Entry(o, Event(type, o)))
    BY <1>9 DEF Stop
  <2>2. type \in MarkTypes /\ o \in Ops
    BY <1>9, <1>m, OneKind DEF TerminalOf
  <2> QED
    BY <1>d, <2>1, <2>2
<1>10. ASSUME NEW r \in Reloads, Rebuilt(r)  PROVE Kept
  <2>1. r \in Ops /\ (appends' = appends \/ appends' = Append(appends, Entry("drain", Event("error", r))))
    BY <1>10, OneKind DEF Rebuilt
  <2> QED
    BY <1>a, <1>d, <1>m, <2>1
<1>11. ASSUME DrainStarts  PROVE Kept
  <2>1. Head(queue) \in Items
    BY <1>11, HeadIn DEF DrainStarts, TypeOK
  <2>2. appends' = Append(appends, Entry("drain", QueueEvent("started", Head(queue), Head(queue), FALSE)))
    BY <1>11 DEF DrainStarts
  <2> QED
    BY <1>e, <2>1, <2>2
<1>12. ASSUME NEW d \in Deliveries, Delivers(d)  PROVE Kept
  <2>0. d \in Ops
    BY <1>12, OneKind
  <2>1. CASE DeliverRefused(d)
    BY <1>a, <2>1 DEF DeliverRefused
  <2>2. CASE DeliverRequest(d)
    BY <1>d, <1>m, <2>0, <2>2 DEF DeliverRequest
  <2>3. CASE DeliverRequested(d)
    <3>1. appends # <<>> /\ \/ appends' = Tail(appends)
                            \/ appends' = Append(Tail(appends), Entry(d, Event("interrupting", d)))
      BY <2>3 DEF DeliverRequested, Then, Heads
    <3> QED
      BY <1>b, <1>d, <1>m, <2>0, <3>1
  <2>4. CASE DeliverInterrupts(d)
    <3>1. /\ appends # <<>>
          /\ \/ appends' = Tail(appends)
             \/ appends' = Append(Tail(appends), Entry(d, Event("undelivered", d)))
             \/ appends' = Append(Tail(appends), Entry(d, Event("assistant", target[d]))) /\ Has(target[d], {"message"})
      BY <2>4 DEF DeliverInterrupts, Then, Heads
    <3>2. Has(target[d], {"message"}) => target[d] \in Ops
      BY EventTypes DEF Has, TypeOK, Events
    <3> QED
      BY <1>b, <1>d, <1>m, <2>0, <3>1, <3>2
  <2>5. CASE DeliverClosed(d)
    BY <1>b, <2>5 DEF DeliverClosed, Heads
  <2>6. CASE Delivered(d)
    BY <1>b, <2>6 DEF Delivered, Heads
  <2>7. CASE DeliveryFails(d)
    <3>1. appends # <<>> /\ \/ appends' = Tail(appends)
                            \/ appends' = Append(Tail(appends), Entry(d, Event("undelivered", d)))
      BY <2>7 DEF DeliveryFails, Then, Heads
    <3> QED
      BY <1>b, <1>d, <1>m, <2>0, <3>1
  <2> QED
    BY <1>12, <2>1, <2>2, <2>3, <2>4, <2>5, <2>6, <2>7 DEF Delivers
<1>13. ASSUME Crash  PROVE Kept
  <2>1. appends' = <<>> /\ ToSet(<<>>) = {}
    BY <1>13 DEF Crash, ToSet
  <2> QED
    BY <2>1 DEF Kept
<1>14. ASSUME Resume  PROVE Kept
  <2>0. PICK s : s = Pending
    OBVIOUS
  <2>1. appends' = IF s = <<>> THEN <<>> ELSE <<Entry("resume", QueueEvent("paused", Head(s), Head(s), FALSE))>>
    BY <1>14, <2>0 DEF Resume
  <2>2. ToSet(<<>>) = {} /\ \A entry : ToSet(<<entry>>) = {entry}
    BY DEF ToSet
  <2>3. \A by, e : Entry(by, e).event = e
    BY DEF Entry
  <2>4. QueueEvent("paused", Head(s), Head(s), FALSE).type = "paused"
    BY DEF QueueEvent, Event
  <2>5. ToSet(appends') = IF s = <<>> THEN {} ELSE {Entry("resume", QueueEvent("paused", Head(s), Head(s), FALSE))}
    BY <2>1, <2>2
  <2>6. Entry("resume", QueueEvent("paused", Head(s), Head(s), FALSE)).event.type \notin {"requeued", "restored"}
    BY <2>3, <2>4
  <2> QED
    BY <2>5, <2>6 DEF Kept
<1>15. ASSUME Paused  PROVE Kept
  <2>1. /\ Heads("resume")
        /\ appends' = IF Tail(pausing) = <<>> THEN Tail(appends)
                      ELSE Append(Tail(appends), Entry("resume", QueueEvent("paused", pausing[2], pausing[2], FALSE)))
    BY <1>15 DEF Paused, Then
  <2>2. Tail(pausing) # <<>> => pausing[2] \in Items
    BY <2>1, HeadKinds DEF TypeOK
  <2> QED
    BY <1>b, <1>e, <2>1, <2>2 DEF Heads
<1>16. Request => Kept
    BY <1>1, <1>3, <1>4, <1>5, <1>6, Zenon DEF Request
<1>17. Continue => Kept
    BY <1>1, <1>2, <1>7, <1>8, <1>10, <1>12, <1>14, <1>15, Zenon DEF Continue, Gives, Delivers
<1>18. Environment => Kept
    BY <1>1, <1>2, <1>7, <1>12, <1>13, Zenon DEF Environment, Gives, Delivers
<1>19. DrainLoop => Kept
    BY <1>1, <1>11, Zenon DEF DrainLoop
<1>20. Kept
    BY UrgentTurns, <1>1, <1>7, <1>9, <1>16, <1>17, <1>18, <1>19, Zenon DEF Next, Works, Gives
<1> QED
    BY <1>20 DEF Kept

\* Which producer an append of a kind belongs to.
LEMMA AwaitsKinds ==
    ASSUME NEW by, NEW e, Awaits(by, e)
    PROVE  /\ e.type = "requeued" => by \in Requeues /\ pc[by] = "recording"
           /\ e.type = "restored" => by \in Restores /\ pc[by] = "recording"
<1>1. CASE \E op : \E type \in MarkTypes : e = Event(type, op)
  <2>1. e.type \in MarkTypes
    BY <1>1, Fields
  <2> QED
    BY <2>1 DEF MarkTypes
<1>2. CASE \E i, op : \E front \in BOOLEAN : \E type \in {"enqueued", "started", "paused"} : e = QueueEvent(type, op, i, front)
  <2>1. e.type \in {"enqueued", "started", "paused"}
    BY <1>2, Fields
  <2> QED
    BY <2>1
<1>3. CASE by \in Requeues /\ pc[by] = "recording" /\ \E i \in Items, front \in BOOLEAN : e = QueueEvent("requeued", by, i, front)
  <2>1. e.type = "requeued"
    BY <1>3, Fields
  <2> QED
    BY <1>3, <2>1
<1>4. CASE by \in Restores /\ pc[by] = "recording" /\ \E items \in SUBSET Items : e = RestoredEvent(by, items)
  <2>1. e.type = "restored"
    BY <1>4, Fields
  <2> QED
    BY <1>4, <2>1
<1> QED
    BY <1>1, <1>2, <1>3, <1>4, Zenon DEF Awaits, TerminalOf, MarkTypes

-----------------------------------------------------------------------------
(* The queue in memory and the log *)

\* Every step keeps the log well formed, and the items in memory among those that wait
\* (enqueue, requeue, restoreQueue, drainQueue, pauseRecoveredQueue).
LEMMA QueueStep ==
    ASSUME TypeOK, StageInv, DrainInv, DownInv, FlightInv, QueueInv, Next
    PROVE  QueueInv'
<1> USE DEF Over, Working, Claimed
<1>0. pc \in [Ops -> Stages] /\ queue \in Seq(Items) /\ pausing \in Seq(Items) /\ log \in Seq(QueueEvents)
    BY DEF TypeOK, QueueInv, WellFormed
<1> DEFINE Known == \A a \in ToSet(appends') :
                       a \in ToSet(appends) \/ (a.event.type = "requeued" => IsPaused(log, a.event.item))
<1>k. mutation' \in Items \cup {mutation, None} => \A a \in ToSet(appends') : a \in ToSet(appends) \/ a.event.type # "requeued"
    BY NewAppends
<1>d. At("failing", drain.op).at = "failing" /\ Loop.at = "loop" /\ Idle.at = "idle"
    BY DEF At, Loop, Idle
<1>a. ASSUME log' = log, queue' = queue, pausing' = pausing, Known,
             drain'.at = "starting" => drain' = drain,
             drain'.at = "failing" /\ drain'.op \in Items => drain' = drain \/ Started(log, drain'.op),
             \A i \in Items : \/ pc'[i] = pc[i]
                              \/ pc[i] \in Claimed /\ pc'[i] \in Claimed \cup {"done", "failed"}
                              \/ pc[i] = "idle" /\ pc'[i] = "recording"
                              \/ pc'[i] = "failed" /\ i \notin ToSet(queue)
      PROVE  QueueInv'
  <2>1. Starting' \subseteq Starting
    BY <1>a DEF Starting
  <2>2. /\ WellFormed(log') /\ IsInjective(queue') /\ IsInjective(pausing') /\ ToSet(queue') \cap ToSet(pausing') = {}
        /\ Starting' \cap (ToSet(queue') \cup ToSet(pausing')) = {}
    BY <1>a, <2>1 DEF QueueInv
  <2>3. \A i \in Held' : Waits(log', i)
    BY <1>a, <2>1 DEF QueueInv, Held
  <2>4. /\ \A i \in ToSet(queue') : i \in Items /\ pc'[i] = "queued"
        /\ \A i \in ToSet(pausing') : i \in Items /\ pc'[i] \in Over
    BY <1>0, <1>a, ElemsEmpty DEF QueueInv
  <2>5. \A a \in ToSet(appends') : a.event.type = "requeued" => IsPaused(log', a.event.item)
    BY <1>a DEF QueueInv
  <2>6. /\ \A i \in Items : pc'[i] \in {"idle", "recording"} => ~Recorded(log', i)
        /\ \A i \in Items : IsPaused(log', i) => pc'[i] \in Over
        /\ \A i \in Items : pc'[i] \in Claimed => Started(log', i)
    BY <1>a DEF QueueInv
  <2>7. drain'.at = "failing" /\ drain'.op \in Items => Started(log', drain'.op)
    BY <1>a DEF QueueInv
  <2> QED
    BY <2>2, <2>3, <2>4, <2>5, <2>6, <2>7 DEF QueueInv
<1>b. appends # <<>> => LET e == Head(appends).event IN
         e.type \in QueueTypes =>
            /\ WellFormed(Append(log, e))
            /\ e \in QueueEvents
            /\ e.type = "enqueued" => ~Recorded(log, e.item)
  <2>1. appends # <<>> => LET e == Head(appends).event IN e.type \in QueueTypes => Continues(log, e)
    BY HeadContinues
  <2>2. \A e : Continues(log, e) => WellFormed(Append(log, e))
    BY LogContinues DEF QueueInv
  <2> QED
    BY <2>1, <2>2 DEF Continues
<1>c. ASSUME NEW e \in QueueEvents, NEW i
      PROVE  /\ Recorded(Append(log, e), i) <=> Recorded(log, i) \/ Names(e, {"enqueued"}, i)
             /\ Started(Append(log, e), i) <=> Started(log, i) \/ Names(e, {"started"}, i)
             /\ Waits(Append(log, e), i) <=> \/ Names(e, {"enqueued", "requeued"}, i)
                                             \/ Waits(log, i) /\ ~Names(e, {"paused", "started"}, i)
             /\ IsPaused(Append(log, e), i) <=> \/ Names(e, {"paused"}, i)
                                                \/ IsPaused(log, i) /\ ~Names(e, {"requeued", "started"}, i)
    BY <1>0, LogGrows
<1>s. \A i : /\ Waits(log, i) => Recorded(log, i) /\ ~Started(log, i)
             /\ IsPaused(log, i) => Recorded(log, i) /\ ~Started(log, i) /\ ~Waits(log, i)
    BY LogSays DEF QueueInv
<1>t. appends # <<>> => ToSet(Tail(appends)) \subseteq ToSet(appends)
  <2> DEFINE E == [by : Ops \cup {"drain", "resume"}, event : Events(QueueTypes \cup MarkTypes)]
  <2>1. appends \in Seq(E)
    BY DEF TypeOK
  <2> HIDE DEF E
  <2> QED
    BY <2>1, HeadIn
<1>w. \A i : i \in Held => Waits(log, i) /\ Recorded(log, i) /\ ~Started(log, i) /\ ~IsPaused(log, i)
    BY <1>s DEF QueueInv
<1>e. ToSet(<<>>) = {} /\ IsInjective(<<>>)
    BY DEF ToSet, IsInjective
<1> HIDE DEF Known
<1>1. ASSUME NEW i \in Items, NEW front \in Fronts, Enqueue(i, front)  PROVE QueueInv'
  <2>1. Known
    BY <1>1, <1>k DEF Enqueue, Mutate, Known
  <2> QED
    BY <1>1, <1>a, <1>0, <2>1, OneKind DEF Enqueue, Mutate, Called
<1>2. ASSUME NEW q \in Requeues, NEW i \in Items, NEW front \in Fronts, Requeue(q, i, front)  PROVE QueueInv'
  <2>1. IsPaused(log, i)
    BY <1>2 DEF Requeue, LatestIsPaused, IsPaused, Names
  <2>2. appends' = Append(appends, Entry(q, QueueEvent("requeued", q, i, front))) /\ front \in BOOLEAN
    BY <1>2, SessionAssumption DEF Requeue, Mutate
  <2> DEFINE E == [by : Ops \cup {"drain", "resume"}, event : Events(QueueTypes \cup MarkTypes)]
             a == Entry(q, QueueEvent("requeued", q, i, front))
  <2>3. appends \in Seq(E)
    BY DEF TypeOK
  <2>4. a \in E
    <3>1. QueueEvent("requeued", q, i, front) \in Events(QueueTypes \cup MarkTypes)
      BY <2>2, EventTypes, OneKind DEF QueueTypes
    <3> QED
      BY <3>1, OneKind DEF Entry
  <2>5. a.event.item = i
    BY DEF Entry, QueueEvent, Event
  <2> HIDE DEF E, a
  <2>6. ToSet(appends') = ToSet(appends) \cup {a}
    BY <2>2, <2>3, <2>4, ElemsAppend DEF a
  <2>7. Known
    BY <2>1, <2>5, <2>6 DEF Known
  <2> QED
    BY <1>2, <1>a, <1>0, <2>7, OneKind DEF Requeue, Mutate, Called
<1>3. ASSUME NEW x \in Restores, Restore(x)  PROVE QueueInv'
  <2>2. appends' = Append(appends, Entry(x, RestoredEvent(x, Restorable))) /\ Restorable \in SUBSET Items
    BY <1>3 DEF Restore, Mutate, Restorable
  <2>3. PICK given \in SUBSET Items : given = Restorable
    BY <2>2
  <2> DEFINE E == [by : Ops \cup {"drain", "resume"}, event : Events(QueueTypes \cup MarkTypes)]
             a == Entry(x, RestoredEvent(x, given))
  <2>4. appends \in Seq(E)
    BY DEF TypeOK
  <2>5. a \in E
    <3>1. RestoredEvent(x, given) \in Events(QueueTypes \cup MarkTypes)
      BY EventTypes, OneKind
    <3> QED
      BY <3>1, OneKind DEF Entry
  <2>6. a.event.type = "restored"
    BY DEF Entry, RestoredEvent, Event
  <2> HIDE DEF E, a
  <2>7. ToSet(appends') = ToSet(appends) \cup {a}
    BY <2>2, <2>3, <2>4, <2>5, ElemsAppend DEF a
  <2>8. Known
    BY <2>6, <2>7 DEF Known
  <2> QED
    BY <1>3, <1>a, <1>0, <2>8, OneKind DEF Restore, Mutate, Called
<1>4. ASSUME NEW x \in Interrupts, InterruptAccepted(x)  PROVE QueueInv'
  <2>1. Known /\ log' = log /\ queue' = queue /\ pausing' = pausing /\ drain' = drain
    BY <1>4, <1>k DEF InterruptAccepted, Known
  <2>2. \A i \in Items : pc'[i] = pc[i] \/ (pc[i] \in Claimed /\ pc'[i] \in Claimed)
    BY <1>4, <1>0, OneKind DEF InterruptAccepted
  <2> QED
    BY <1>a, <2>1, <2>2
<1>5. ASSUME NEW p \in Prompts, Send(p)  PROVE QueueInv'
  <2>1. Known /\ log' = log /\ queue' = queue /\ pausing' = pausing /\ drain' = drain
    BY <1>5, <1>k DEF Send, Known
  <2>2. \A i \in Items : pc'[i] = pc[i] \/ (pc[i] \in Claimed /\ pc'[i] \in Claimed)
    BY <1>5, <1>0, OneKind DEF Send
  <2> QED
    BY <1>a, <2>1, <2>2
<1>6. ASSUME NEW d \in Deliveries, Reserve(d)  PROVE QueueInv'
  <2>1. Known /\ log' = log /\ queue' = queue /\ pausing' = pausing /\ drain' = drain
    BY <1>6, <1>k DEF Reserve, Known
  <2>2. \A i \in Items : pc'[i] = pc[i] \/ (pc[i] \in Claimed /\ pc'[i] \in Claimed)
    BY <1>6, <1>0, OneKind DEF Reserve
  <2> QED
    BY <1>a, <2>1, <2>2
<1>7. ASSUME NEW c \in Compactions, Compact(c)  PROVE QueueInv'
  <2>1. Known /\ log' = log /\ queue' = queue /\ pausing' = pausing /\ drain' = drain
    BY <1>7, <1>k DEF Compact, OwnCompaction, Known
  <2>2. \A i \in Items : pc'[i] = pc[i] \/ (pc[i] \in Claimed /\ pc'[i] \in Claimed)
    BY <1>7, <1>0, OneKind DEF Compact
  <2> QED
    BY <1>a, <2>1, <2>2
<1>8. ASSUME NEW c \in Compactions, CompactLater(c)  PROVE QueueInv'
  <2>1. Known /\ log' = log /\ queue' = queue /\ pausing' = pausing /\ drain' = drain
    BY <1>8, <1>k DEF CompactLater, Known
  <2>2. \A i \in Items : pc'[i] = pc[i] \/ (pc[i] \in Claimed /\ pc'[i] \in Claimed)
    BY <1>8, <1>0, OneKind DEF CompactLater
  <2> QED
    BY <1>a, <2>1, <2>2
<1>9. ASSUME NEW s \in Shells, Shell(s)  PROVE QueueInv'
  <2>1. Known /\ log' = log /\ queue' = queue /\ pausing' = pausing /\ drain' = drain
    BY <1>9, <1>k DEF Shell, Known
  <2>2. \A i \in Items : pc'[i] = pc[i] \/ (pc[i] \in Claimed /\ pc'[i] \in Claimed)
    BY <1>9, <1>0, OneKind DEF Shell
  <2> QED
    BY <1>a, <2>1, <2>2
<1>10. ASSUME NEW r \in Reloads, Reload(r)  PROVE QueueInv'
  <2>1. Known /\ log' = log /\ queue' = queue /\ pausing' = pausing /\ drain' = drain
    BY <1>10, <1>k DEF Reload, Known
  <2>2. \A i \in Items : pc'[i] = pc[i] \/ (pc[i] \in Claimed /\ pc'[i] \in Claimed)
    BY <1>10, <1>0, OneKind DEF Reload
  <2> QED
    BY <1>a, <2>1, <2>2
<1>11. ASSUME NEW r \in Reloads, ReloadLater(r)  PROVE QueueInv'
  <2>1. Known /\ log' = log /\ queue' = queue /\ pausing' = pausing /\ drain' = drain
    BY <1>11, <1>k DEF ReloadLater, Known
  <2>2. \A i \in Items : pc'[i] = pc[i] \/ (pc[i] \in Claimed /\ pc'[i] \in Claimed)
    BY <1>11, <1>0, OneKind DEF ReloadLater
  <2> QED
    BY <1>a, <2>1, <2>2
<1>12. ASSUME NEW i \in Items, Enqueued(i)  PROVE QueueInv'
  <2>0. Heads(i) /\ Land /\ mutation = i /\ mutation' = None /\ appends # <<>> /\ appends' = Tail(appends) /\ pausing' = pausing
    BY <1>12 DEF Enqueued, MutationLanded, Heads
  <2>1. pc[i] = "recording"
    BY <2>0 DEF StageInv
  <2>2. PICK front \in BOOLEAN : Head(appends).event = QueueEvent("enqueued", i, i, front)
    BY <2>0, <2>1, HeadKinds
  <2>3. PICK e : e = Head(appends).event /\ e.type = "enqueued" /\ e.item = i /\ e.front = front
    BY <2>2, Fields
  <2>4. log' = Append(log, e) /\ WellFormed(log') /\ e \in QueueEvents /\ ~Recorded(log, i)
    BY <1>b, <2>0, <2>3, LifecycleLands DEF QueueTypes
  <2>5. i \notin Held
    BY <1>w, <2>4
  <2>6. queue' = (IF front THEN <<i>> \o queue ELSE Append(queue, i)) /\ pc' = [pc EXCEPT ![i] = "queued"]
    BY <1>12, <2>3 DEF Enqueued
  <2>7. ToSet(queue') = ToSet(queue) \cup {i} /\ IsInjective(queue')
    <3>1. i \notin ToSet(queue) /\ IsInjective(queue)
      BY <2>5 DEF Held, QueueInv
    <3> QED
      BY <1>0, <2>6, <3>1, ElemsFront, ElemsAppend
  <2>8. drain' = drain \/ (drain.at = "idle" /\ drain' = Loop)
    BY <1>12, DrainWakes DEF Enqueued
  <2>9. Starting' = Starting /\ Held' = Held \cup {i}
    BY <1>d, <2>0, <2>7, <2>8 DEF Starting, Held
  <2>10. /\ \A j : Recorded(log', j) <=> Recorded(log, j) \/ j = i
         /\ \A j : Started(log', j) <=> Started(log, j)
         /\ \A j : Waits(log', j) <=> Waits(log, j) \/ j = i
         /\ \A j : IsPaused(log', j) <=> IsPaused(log, j) 
    BY <1>c, <2>3, <2>4 DEF Names
  <2>11. \A j \in Held' : Waits(log', j)
    BY <2>9, <2>10 DEF QueueInv
  <2>12. ToSet(queue') \cap ToSet(pausing') = {} /\ Starting' \cap (ToSet(queue') \cup ToSet(pausing')) = {}
    BY <2>0, <2>5, <2>7, <2>9 DEF QueueInv, Held
  <2>13. \A j \in Items : pc'[j] = IF j = i THEN "queued" ELSE pc[j]
    BY <1>0, <2>6, OneKind
  <2>14. /\ \A j \in ToSet(queue') : pc'[j] = "queued"
         /\ \A j \in ToSet(pausing') : pc'[j] \in Over
    BY <1>0, <2>0, <2>5, <2>7, <2>13, ElemsEmpty DEF QueueInv, Held
  <2>15. \A a \in ToSet(appends') : a.event.type = "requeued" => IsPaused(log', a.event.item)
    BY <1>t, <2>0, <2>10 DEF QueueInv
  <2>16. /\ \A j \in Items : pc'[j] \in {"idle", "recording"} => ~Recorded(log', j)
         /\ \A j \in Items : IsPaused(log', j) => pc'[j] \in Over
         /\ \A j \in Items : pc'[j] \in Claimed => Started(log', j)
    BY <2>1, <2>10, <2>13 DEF QueueInv
  <2>17. drain'.at = "failing" /\ drain'.op \in Items => Started(log', drain'.op)
    BY <1>d, <2>8, <2>10 DEF QueueInv
  <2>18. IsInjective(pausing')
    BY <2>0 DEF QueueInv
  <2> QED
    BY <2>4, <2>7, <2>11, <2>12, <2>14, <2>15, <2>16, <2>17, <2>18 DEF QueueInv
<1>13. ASSUME NEW q \in Requeues, Requeued(q)  PROVE QueueInv'
  <2>0. Heads(q) /\ Land /\ mutation = q /\ mutation' = None /\ appends # <<>> /\ appends' = Tail(appends) /\ pausing' = pausing
    BY <1>13 DEF Requeued, MutationLanded, Heads
  <2>1. PICK i \in Items, front \in BOOLEAN :
           /\ Head(appends).event = QueueEvent("requeued", q, i, front)
           /\ pc'[i] = "queued" /\ \A o \in Ops : o # q /\ o # i => pc'[o] = pc[o]
           /\ queue' = IF front THEN <<i>> \o queue ELSE Append(queue, i)
    BY <1>13, RequeueLands
  <2>3. PICK e : e = Head(appends).event /\ e.type = "requeued" /\ e.item = i
    BY <2>1 DEF QueueEvent, Event
  <2>2. IsPaused(log, i)
    BY <2>0, <2>3, HeadAwaits DEF QueueInv
  <2>4. log' = Append(log, e) /\ WellFormed(log') /\ e \in QueueEvents
    BY <1>b, <2>0, <2>3, LifecycleLands DEF QueueTypes
  <2>5. i \notin Held
    BY <1>w, <2>2
  <2>6. queue' = IF front THEN <<i>> \o queue ELSE Append(queue, i)
    BY <2>1
  <2>7. ToSet(queue') = ToSet(queue) \cup {i} /\ IsInjective(queue')
    <3>1. i \notin ToSet(queue) /\ IsInjective(queue)
      BY <2>5 DEF Held, QueueInv
    <3> QED
      BY <1>0, <2>6, <3>1, ElemsFront, ElemsAppend
  <2>8. drain' = drain \/ (drain.at = "idle" /\ drain' = Loop)
    BY <1>13, DrainWakes DEF Requeued
  <2>9. Starting' = Starting /\ Held' = Held \cup {i}
    BY <1>d, <2>0, <2>7, <2>8 DEF Starting, Held
  <2>10. /\ \A j : Recorded(log', j) <=> Recorded(log, j) 
         /\ \A j : Started(log', j) <=> Started(log, j)
         /\ \A j : Waits(log', j) <=> Waits(log, j) \/ j = i
         /\ \A j : IsPaused(log', j) <=> IsPaused(log, j) /\ j # i
    BY <1>c, <2>3, <2>4 DEF Names
  <2>11. \A j \in Held' : Waits(log', j)
    BY <2>9, <2>10 DEF QueueInv
  <2>12. ToSet(queue') \cap ToSet(pausing') = {} /\ Starting' \cap (ToSet(queue') \cup ToSet(pausing')) = {}
    BY <2>0, <2>5, <2>7, <2>9 DEF QueueInv, Held
  <2>13. \A j \in Items : pc'[j] = IF j = i THEN "queued" ELSE pc[j]
    BY <1>0, <2>1, OneKind
  <2>14. /\ \A j \in ToSet(queue') : pc'[j] = "queued"
         /\ \A j \in ToSet(pausing') : pc'[j] \in Over
    BY <1>0, <2>0, <2>5, <2>7, <2>13, ElemsEmpty DEF QueueInv, Held
  <2>15. \A a \in ToSet(appends') : a.event.type # "requeued"
    <3>1. \A a \in ToSet(appends') : a.by # q /\ Awaits(a.by, a.event)
      BY <2>0, FlightWithout
    <3>2. ASSUME NEW a, Awaits(a.by, a.event), a.event.type = "requeued"  PROVE a.by = q
      <4>1. a.by \in Requeues /\ pc[a.by] = "recording"
        BY <3>2, AwaitsKinds
      <4> QED
        BY <2>0, <4>1 DEF StageInv
    <3> QED
      BY <3>1, <3>2
  <2>16. /\ \A j \in Items : pc'[j] \in {"idle", "recording"} => ~Recorded(log', j)
         /\ \A j \in Items : IsPaused(log', j) => pc'[j] \in Over
         /\ \A j \in Items : pc'[j] \in Claimed => Started(log', j)
    BY <2>10, <2>13 DEF QueueInv
  <2>17. drain'.at = "failing" /\ drain'.op \in Items => Started(log', drain'.op)
    BY <1>d, <2>8, <2>10 DEF QueueInv
  <2>18. IsInjective(pausing')
    BY <2>0 DEF QueueInv
  <2> QED
    BY <2>4, <2>7, <2>11, <2>12, <2>14, <2>15, <2>16, <2>17, <2>18 DEF QueueInv
<1>14. ASSUME NEW x \in Restores, Restored(x)  PROVE QueueInv'
  <2>0. /\ Heads(x) /\ Land /\ mutation = x /\ appends # <<>> /\ appends' = Tail(appends)
        /\ queue' = <<>> /\ pausing' = pausing /\ pc' = [pc EXCEPT ![x] = "done"]
    BY <1>14 DEF Restored, MutationLanded, Heads
  <2>1. PICK items \in SUBSET Items : Head(appends).event = RestoredEvent(x, items)
    BY <2>0, HeadKinds
  <2>3. PICK e : e = Head(appends).event /\ e.type = "restored"
    BY <2>1, Fields
  <2>4. log' = Append(log, e) /\ WellFormed(log') /\ e \in QueueEvents
    BY <1>b, <2>0, <2>3, LifecycleLands DEF QueueTypes
  <2>5. ToSet(queue') = {} /\ IsInjective(queue')
    BY <1>e, <2>0
  <2>8. drain' = drain \/ (drain.at = "idle" /\ drain' = Loop)
    BY <1>14, DrainWakes DEF Restored
  <2>9. Starting' = Starting /\ Held' \subseteq Held
    BY <1>d, <2>0, <2>5, <2>8 DEF Starting, Held
  <2>10. \A j : /\ Recorded(log', j) <=> Recorded(log, j)
                /\ Started(log', j) <=> Started(log, j)
                /\ Waits(log', j) <=> Waits(log, j)
                /\ IsPaused(log', j) <=> IsPaused(log, j)
    BY <1>c, <2>3, <2>4 DEF Names
  <2>11. \A j \in Held' : Waits(log', j)
    BY <2>9, <2>10 DEF QueueInv
  <2>12. ToSet(queue') \cap ToSet(pausing') = {} /\ Starting' \cap (ToSet(queue') \cup ToSet(pausing')) = {}
    BY <2>0, <2>5, <2>9 DEF QueueInv
  <2>13. \A j \in Items : pc'[j] = pc[j]
    BY <1>0, <2>0, OneKind
  <2>14. /\ \A j \in ToSet(queue') : pc'[j] = "queued"
         /\ \A j \in ToSet(pausing') : pc'[j] \in Over
    BY <1>0, <2>0, <2>5, <2>13, ElemsEmpty DEF QueueInv
  <2>15. \A a \in ToSet(appends') : a.event.type = "requeued" => IsPaused(log', a.event.item)
    BY <1>t, <2>0, <2>10 DEF QueueInv
  <2>16. /\ \A j \in Items : pc'[j] \in {"idle", "recording"} => ~Recorded(log', j)
         /\ \A j \in Items : IsPaused(log', j) => pc'[j] \in Over
         /\ \A j \in Items : pc'[j] \in Claimed => Started(log', j)
    BY <2>10, <2>13 DEF QueueInv
  <2>17. drain'.at = "failing" /\ drain'.op \in Items => Started(log', drain'.op)
    BY <1>d, <2>8, <2>10 DEF QueueInv
  <2>18. IsInjective(pausing')
    BY <2>0 DEF QueueInv
  <2> QED
    BY <2>4, <2>5, <2>11, <2>12, <2>14, <2>15, <2>16, <2>17, <2>18 DEF QueueInv
<1>15. ASSUME NEW x \in Interrupts, Interrupt(x)  PROVE QueueInv'
  <2>1. Known /\ log' = log /\ queue' = queue /\ pausing' = pausing /\ drain' = drain
    BY <1>15, <1>k DEF Interrupt, Known
  <2>2. \A i \in Items : pc'[i] = pc[i] \/ (pc[i] \in Claimed /\ pc'[i] \in Claimed)
    BY <1>15, <1>0, OneKind DEF Interrupt
  <2> QED
    BY <1>a, <2>1, <2>2
<1>16. ASSUME NEW o \in Turns, Claim(o)  PROVE QueueInv'
  <2>1. Known /\ log' = log /\ queue' = queue /\ pausing' = pausing /\ drain' = drain
    BY <1>16, <1>k DEF Claim, Own, Known
  <2>2. \A i \in Items : pc'[i] = pc[i] \/ (pc[i] \in Claimed /\ pc'[i] \in Claimed)
    BY <1>16, <1>0, OneKind DEF Claim
  <2> QED
    BY <1>a, <2>1, <2>2
<1>17. ASSUME NEW o \in Turns \cup Compactions \cup Shells, Gives(o)  PROVE QueueInv'
  <2>1. /\ o \in Ops /\ pc[o] \in {"claiming", "intercepting", "messaging", "ending"}
        /\ pc'[o] \in IF o \in Deliveries THEN {"delivering", "failing"} ELSE {"done", "failed"}
        /\ \A p \in Ops : p # o => pc'[p] = pc[p] \/ p \in Deliveries
        /\ drain' \in IF drain.op = o THEN IF pc'[o] \in {"failed", "failing"} THEN {At("failing", o)} ELSE {Loop}
                      ELSE IF drain.at = "idle" THEN {drain, Loop} ELSE {drain}
        /\ UNCHANGED <<queue, pausing, mutation>>
    BY <1>17, GivesStages, GivesBranch
  <2>2. log' = log
    <3>1. CASE End(o)
      BY <1>17, <3>1, MarkLands, OneKind DEF End
    <3> QED
      BY <1>17, <3>1 DEF Gives, ClaimRefused, InterceptedAway, OperationFails, Fault
  <2>3. Known
    BY <1>k, <2>1 DEF Known
  <2>4. o \in Items => Started(log, o)
    BY <2>1 DEF QueueInv
  <2>5. /\ drain'.at = "starting" => drain' = drain
        /\ drain'.at = "failing" /\ drain'.op \in Items => drain' = drain \/ Started(log, drain'.op)
    BY <2>1, <2>4 DEF At, Loop
  <2> QED
    BY <1>a, <2>1, <2>2, <2>3, <2>5, OneKind
<1>18. ASSUME NEW o \in Turns, Intercepted(o)  PROVE QueueInv'
  <2>1. Known /\ log' = log /\ queue' = queue /\ pausing' = pausing /\ drain' = drain
    BY <1>18, <1>k DEF Intercepted, Known
  <2>2. \A i \in Items : pc'[i] = pc[i] \/ (pc[i] \in Claimed /\ pc'[i] \in Claimed)
    BY <1>18, <1>0, OneKind DEF Intercepted
  <2> QED
    BY <1>a, <2>1, <2>2
<1>19. ASSUME NEW o \in Turns, Messaged(o)  PROVE QueueInv'
  <2>1. log' = log
    BY <1>19, MarkLands, OneKind DEF Messaged
  <2>2. Known
    BY <1>19, <1>k DEF Messaged, Known
  <2> QED
    BY <1>19, <1>0, <1>a, <2>1, <2>2, OneKind DEF Messaged
<1>20. ASSUME NEW o \in Turns \cup Compactions \cup Shells, Stop(o)  PROVE QueueInv'
  <2>1. Known /\ log' = log /\ queue' = queue /\ pausing' = pausing /\ drain' = drain
    BY <1>20, <1>k DEF Stop, Known
  <2>2. \A i \in Items : pc'[i] = pc[i] \/ (pc[i] \in Claimed /\ pc'[i] \in Claimed)
    BY <1>20, <1>0, OneKind DEF Stop
  <2> QED
    BY <1>a, <2>1, <2>2
<1>21. ASSUME NEW s \in Shells, ShellRuns(s)  PROVE QueueInv'
  <2>1. Known /\ log' = log /\ queue' = queue /\ pausing' = pausing /\ drain' = drain
    BY <1>21, <1>k DEF ShellRuns, Own, Known
  <2>2. \A i \in Items : pc'[i] = pc[i] \/ (pc[i] \in Claimed /\ pc'[i] \in Claimed)
    BY <1>21, <1>0, OneKind DEF ShellRuns
  <2> QED
    BY <1>a, <2>1, <2>2
<1>22. ASSUME NEW s \in Shells, ShellRefused(s)  PROVE QueueInv'
  <2>1. Known /\ log' = log /\ queue' = queue /\ pausing' = pausing /\ drain' = drain
    BY <1>22, <1>k DEF ShellRefused, Known
  <2>2. \A i \in Items : pc'[i] = pc[i] \/ (pc[i] \in Claimed /\ pc'[i] \in Claimed)
    BY <1>22, <1>0, OneKind DEF ShellRefused
  <2> QED
    BY <1>a, <2>1, <2>2
<1>23. ASSUME NEW c \in Compactions, CompactionQueued(c)  PROVE QueueInv'
  <2>1. log' = log
    BY <1>23, MarkLands, OneKind DEF CompactionQueued
  <2>2. Known
    BY <1>23, <1>k DEF CompactionQueued, Known
  <2> QED
    BY <1>23, <1>0, <1>a, <2>1, <2>2, OneKind DEF CompactionQueued
<1>24. ASSUME NEW c \in Compactions, CompactionUnqueued(c)  PROVE QueueInv'
  <2>1. Known /\ log' = log /\ queue' = queue /\ pausing' = pausing /\ drain' = drain
    BY <1>24, <1>k DEF CompactionUnqueued, Fault, Known
  <2>2. \A i \in Items : pc'[i] = pc[i] \/ (pc[i] \in Claimed /\ pc'[i] \in Claimed)
    BY <1>24, <1>0, OneKind DEF CompactionUnqueued
  <2> QED
    BY <1>a, <2>1, <2>2
<1>25. ASSUME NEW r \in Reloads, Rebuild(r)  PROVE QueueInv'
  <2>1. Known /\ log' = log /\ queue' = queue /\ pausing' = pausing /\ drain' = drain
    BY <1>25, <1>k DEF Rebuild, Known
  <2>2. \A i \in Items : pc'[i] = pc[i] \/ (pc[i] \in Claimed /\ pc'[i] \in Claimed)
    BY <1>25, <1>0, OneKind DEF Rebuild
  <2> QED
    BY <1>a, <2>1, <2>2
<1>26. ASSUME NEW r \in Reloads, Rebuilt(r)  PROVE QueueInv'
  <2>1. Known /\ log' = log /\ queue' = queue /\ pausing' = pausing
    BY <1>26, <1>k DEF Rebuilt, Known
  <2>2. \A i \in Items : pc'[i] = pc[i]
    BY <1>26, <1>0, OneKind DEF Rebuilt
  <2>3. drain' = drain \/ drain' = Loop \/ drain' = At("failing", r)
    BY <1>26 DEF Rebuilt
  <2> QED
    BY <1>a, <1>d, <2>1, <2>2, <2>3, OneKind DEF At
<1>27. ASSUME DrainStops  PROVE QueueInv'
  <2>1. Known /\ log' = log /\ queue' = queue /\ pausing' = pausing /\ drain' = Idle /\ pc' = pc
    BY <1>27, <1>k DEF DrainStops, Known
  <2> QED
    BY <1>a, <1>d, <2>1
<1>28. ASSUME DrainCompacts  PROVE QueueInv'
  <2>1. Known /\ log' = log /\ queue' = queue /\ pausing' = pausing /\ drain'.at \notin {"starting", "failing"}
    BY <1>28, <1>k DEF DrainCompacts, Known, At
  <2>2. Head(compactions) \in Compactions /\ pc' = [pc EXCEPT ![Head(compactions)] = "working"]
    BY <1>28, HeadIn DEF DrainCompacts, TypeOK
  <2>3. \A i \in Items : pc'[i] = pc[i]
    BY <1>0, <2>2, OneKind
  <2> QED
    BY <1>a, <2>1, <2>3
<1>29. ASSUME DrainReloads  PROVE QueueInv'
  <2>1. Known /\ log' = log /\ queue' = queue /\ pausing' = pausing /\ drain'.at \notin {"starting", "failing"}
    BY <1>29, <1>k DEF DrainReloads, Known, At
  <2>2. Head(reloads) \in Reloads /\ pc' = [pc EXCEPT ![Head(reloads)] = "rebuilding"]
    BY <1>29, HeadIn DEF DrainReloads, TypeOK
  <2>3. \A i \in Items : pc'[i] = pc[i]
    BY <1>0, <2>2, OneKind
  <2> QED
    BY <1>a, <2>1, <2>3
<1>30. ASSUME DrainStarts  PROVE QueueInv'
  <2>1. /\ queue # <<>> /\ queue' = Tail(queue) /\ drain' = At("starting", Head(queue)) /\ drain.at = "loop"
        /\ UNCHANGED <<log, pausing, pc, mutation>>
    BY <1>30 DEF DrainStarts
  <2>2. /\ Head(queue) \in Items /\ ToSet(queue) = ToSet(queue') \cup {Head(queue)}
        /\ IsInjective(queue') /\ Head(queue) \notin ToSet(queue')
    BY <1>0, <2>1, HeadIn DEF QueueInv
  <2>3. Starting = {} /\ Starting' = {Head(queue)} /\ drain'.at # "failing"
    BY <2>1 DEF Starting, At
  <2>4. Held' = Held
    BY <2>1, <2>2, <2>3 DEF Held
  <2>5. \A a \in ToSet(appends') : a.event.type = "requeued" => IsPaused(log', a.event.item)
    BY <1>k, <2>1 DEF QueueInv
  <2>6. /\ \A i \in Held' : Waits(log', i)
        /\ ToSet(queue') \cap ToSet(pausing') = {} /\ Starting' \cap (ToSet(queue') \cup ToSet(pausing')) = {}
        /\ \A i \in ToSet(queue') : pc'[i] = "queued"
        /\ \A i \in ToSet(pausing') : pc'[i] \in Over
    BY <2>1, <2>2, <2>3, <2>4 DEF QueueInv
  <2> QED
    BY <2>1, <2>2, <2>3, <2>5, <2>6 DEF QueueInv
<1>31. ASSUME DrainSends  PROVE QueueInv'
  <2>0. /\ Heads("drain") /\ Land /\ drain.at = "starting" /\ appends # <<>> /\ appends' = Tail(appends)
        /\ queue' = queue /\ pausing' = pausing /\ drain' = At("sending", drain.op)
        /\ pc' = [pc EXCEPT ![drain.op] = "claiming"]
    BY <1>31 DEF DrainSends, Heads
  <2>1. PICK i : i = drain.op /\ i \in Items /\ i \in Starting
    BY <2>0 DEF DrainInv, Placed, Starting
  <2>2. Head(appends).event = QueueEvent("started", i, i, FALSE)
    BY <2>0, <2>1, HeadKinds
  <2>3. PICK e : e = Head(appends).event /\ e.type = "started" /\ e.item = i
    BY <2>2 DEF QueueEvent, Event
  <2>4. log' = Append(log, e) /\ WellFormed(log') /\ e \in QueueEvents
    BY <1>b, <2>0, <2>3, LifecycleLands DEF QueueTypes
  <2>5. i \in Held /\ i \notin ToSet(queue) /\ i \notin ToSet(pausing) /\ ~IsPaused(log, i)
    BY <1>w, <2>1 DEF Held, QueueInv
  <2>9. Starting' = {} /\ drain'.at # "failing" /\ Held' = ToSet(queue) \cup ToSet(pausing)
    BY <2>0 DEF Starting, Held, At
  <2>10. \A j : /\ Recorded(log', j) <=> Recorded(log, j)
                /\ Started(log', j) <=> Started(log, j) \/ j = i
                /\ Waits(log', j) <=> Waits(log, j) /\ j # i
                /\ IsPaused(log', j) <=> IsPaused(log, j) /\ j # i
    BY <1>c, <2>3, <2>4 DEF Names
  <2>11. \A j \in Held' : Waits(log', j)
    BY <2>5, <2>9, <2>10 DEF QueueInv, Held
  <2>12. ToSet(queue') \cap ToSet(pausing') = {} /\ Starting' \cap (ToSet(queue') \cup ToSet(pausing')) = {}
    BY <2>0, <2>9 DEF QueueInv
  <2>13. \A j \in Items : pc'[j] = IF j = i THEN "claiming" ELSE pc[j]
    BY <1>0, <2>0, <2>1, OneKind
  <2>14. /\ \A j \in ToSet(queue') : pc'[j] = "queued"
         /\ \A j \in ToSet(pausing') : pc'[j] \in Over
    BY <1>0, <2>0, <2>5, <2>13, ElemsEmpty DEF QueueInv
  <2>15. \A a \in ToSet(appends') : a.event.type = "requeued" => IsPaused(log', a.event.item)
    BY <1>t, <2>0, <2>5, <2>10 DEF QueueInv
  <2>16. /\ \A j \in Items : pc'[j] \in {"idle", "recording"} => ~Recorded(log', j)
         /\ \A j \in Items : IsPaused(log', j) => pc'[j] \in Over
         /\ \A j \in Items : pc'[j] \in Claimed => Started(log', j)
    BY <2>10, <2>13 DEF QueueInv
  <2>18. IsInjective(queue') /\ IsInjective(pausing')
    BY <2>0 DEF QueueInv
  <2> QED
    BY <2>4, <2>9, <2>11, <2>12, <2>14, <2>15, <2>16, <2>18 DEF QueueInv
<1>32. ASSUME DrainRecorded  PROVE QueueInv'
  <2>1. Head(appends).event.type \in {"compaction.failed", "error"}
    BY <1>32, HeadKinds DEF DrainRecorded, Event
  <2>2. log' = log
    BY <1>32, <2>1 DEF DrainRecorded, Land, QueueTypes
  <2>3. Known
    BY <1>32, <1>k DEF DrainRecorded, Known
  <2> QED
    BY <1>32, <1>d, <1>a, <2>2, <2>3 DEF DrainRecorded
<1>33. ASSUME DrainBreaks  PROVE QueueInv'
  <2>1. drain.at \in {"starting", "failing"}
    BY <1>33, HeadKinds DEF DrainBreaks
  <2>2. drain.op \notin ToSet(queue)
    BY <2>1 DEF QueueInv, DrainInv, Placed, Starting
  <2>3. Known
    BY <1>33, <1>k DEF DrainBreaks, Known
  <2>4. \A i \in Items : pc'[i] = pc[i] \/ (pc'[i] = "failed" /\ i \notin ToSet(queue))
    BY <1>33, <1>0, <2>2 DEF DrainBreaks
  <2> QED
    BY <1>33, <1>d, <1>a, <2>3, <2>4 DEF DrainBreaks, Fault
<1>34. ASSUME NEW d \in Deliveries, Delivers(d)  PROVE QueueInv'
  <2>1. /\ \A o \in Ops : o # d => pc'[o] = pc[o]
        /\ drain' = drain \/ drain' = Loop
        /\ UNCHANGED <<queue, pausing, mutation>>
    BY <1>34, DeliveryGoesOn
  <2>2. log' = log
    <3>1. CASE DeliverRequested(d)
      BY <3>1, MarkLands, OneKind DEF DeliverRequested
    <3>2. CASE DeliverInterrupts(d)
      BY <3>2, MarkLands, OneKind DEF DeliverInterrupts
    <3>3. CASE DeliverClosed(d)
      BY <3>3, MarkLands, OneKind DEF DeliverClosed
    <3>4. CASE Delivered(d)
      BY <3>4, MarkLands, OneKind DEF Delivered
    <3> QED
      BY <1>34, <3>1, <3>2, <3>3, <3>4
      DEF Delivers, DeliverRefused, DeliverRequest, DeliveryFails, Fault
  <2>3. Known
    BY <1>k, <2>1 DEF Known
  <2> QED
    BY <1>a, <1>d, <2>1, <2>2, <2>3, OneKind
<1>35. ASSUME NEW o \in Items \cup Requeues \cup Restores, MutationFails(o)  PROVE QueueInv'
  <2>1. Known
    BY <1>35, <1>k DEF MutationFails, Known
  <2>2. o \in Items => o \notin ToSet(queue)
    BY <1>35 DEF MutationFails, QueueInv, StageInv
  <2>3. \A i \in Items : pc'[i] = pc[i] \/ (pc'[i] = "failed" /\ i \notin ToSet(queue))
    BY <1>35, <1>0, <2>2, OneKind DEF MutationFails
  <2>4. drain' = drain \/ drain' = Loop
    BY <1>35, DrainWakes DEF MutationFails
  <2> QED
    BY <1>35, <1>d, <1>a, <2>1, <2>3, <2>4 DEF MutationFails, Fault
<1>36. ASSUME Dispose  PROVE QueueInv'
  <2>1. Known /\ log' = log /\ queue' = queue /\ pausing' = pausing /\ drain' = drain /\ pc' = pc
    BY <1>36, <1>k DEF Dispose, Known
  <2> QED
    BY <1>a, <2>1
<1>37. ASSUME DisposeAborts  PROVE QueueInv'
  <2>1. Known /\ log' = log /\ queue' = queue /\ pausing' = pausing /\ drain' = drain /\ pc' = pc
    BY <1>37, <1>k DEF DisposeAborts, Known
  <2> QED
    BY <1>a, <2>1
<1>38. ASSUME DisposeWaited  PROVE QueueInv'
  <2>1. Known /\ log' = log /\ queue' = queue /\ pausing' = pausing /\ drain' = drain /\ pc' = pc
    BY <1>38, <1>k DEF DisposeWaited, Known
  <2> QED
    BY <1>a, <2>1
<1>39. ASSUME Disposed  PROVE QueueInv'
  <2>1. Known /\ log' = log /\ queue' = queue /\ pausing' = pausing /\ drain' = drain /\ pc' = pc
    BY <1>39, <1>k DEF Disposed, Known
  <2> QED
    BY <1>a, <2>1
<1>40. ASSUME BeginShutdown  PROVE QueueInv'
  <2>1. Known /\ log' = log /\ queue' = queue /\ pausing' = pausing /\ drain' = drain /\ pc' = pc
    BY <1>40, <1>k DEF BeginShutdown, Known
  <2> QED
    BY <1>a, <2>1
<1>41. ASSUME Crash  PROVE QueueInv'
  <2>0. /\ queue' = <<>> /\ pausing' = <<>> /\ drain' = Idle /\ appends' = <<>>
        /\ pc' = [o \in Ops |-> IF pc[o] \in {"idle", "done", "failed"} THEN pc[o] ELSE "lost"]
    BY <1>41 DEF Crash
  <2>1. /\ ToSet(queue') = {} /\ IsInjective(queue') /\ ToSet(pausing') = {} /\ IsInjective(pausing')
        /\ Starting' = {} /\ drain'.at # "failing" /\ ToSet(appends') = {} /\ Held' = {}
    BY <1>d, <1>e, <2>0 DEF Starting, Held
  <2>2. WellFormed(log') /\ \A i \in Items : pc[i] = "idle" => ~Recorded(log', i)
    <3>1. CASE log' = log
      BY <3>1 DEF QueueInv
    <3>2. CASE appends # <<>> /\ Land
      <4>1. PICK e : e = Head(appends).event
        OBVIOUS
      <4>2. CASE e.type \notin QueueTypes
        BY <3>1, <3>2, <4>1, <4>2 DEF Land
      <4>3. CASE e.type \in QueueTypes
        <5>1. log' = Append(log, e) /\ WellFormed(log') /\ e \in QueueEvents
          BY <1>b, <3>2, <4>1, <4>3, LifecycleLands
        <5>2. e.type = "enqueued" => e.item \in Items /\ pc[e.item] = "recording"
          BY <3>2, <4>1, HeadContinues
        <5>3. \A i : Recorded(log', i) <=> Recorded(log, i) \/ Names(e, {"enqueued"}, i)
          BY <1>c, <5>1
        <5> QED
          BY <5>1, <5>2, <5>3 DEF QueueInv, Names
      <4> QED
        BY <4>2, <4>3
    <3> QED
      BY <1>41, <3>1, <3>2 DEF Crash
  <2>3. \A i : IsPaused(log', i) => Recorded(log', i)
    BY <2>2, LogSays
  <2>4. \A i \in Items : pc'[i] \in {"idle"} \cup Over /\ (pc'[i] = "idle" => pc[i] = "idle")
    BY <2>0, OneKind
  <2> QED
    BY <2>1, <2>2, <2>3, <2>4 DEF QueueInv
<1>42. ASSUME Resume  PROVE QueueInv'
  <2>0. /\ phase = "down" /\ pausing' = PendingIn(log) /\ queue' = queue /\ drain' = drain /\ pc' = pc /\ log' = log
        /\ mutation' = mutation
    BY <1>42 DEF Resume, Pending
  <2>1. queue = <<>> /\ drain = Idle /\ \A o \in Ops : pc[o] \in {"idle"} \cup Over
    BY <2>0 DEF DownInv
  <2>2. IsInjective(pausing') /\ pausing' \in Seq(Items) /\ \A i \in ToSet(pausing') : Waits(log, i)
    BY <1>0, <2>0, PendingQueued, LogSays DEF QueueInv
  <2>3. ToSet(queue') = {} /\ IsInjective(queue') /\ Starting' = {} /\ drain'.at # "failing"
    BY <1>d, <1>e, <2>0, <2>1 DEF Starting
  <2>4. \A i \in Held' : Waits(log', i)
    BY <2>0, <2>2, <2>3 DEF Held
  <2>5. \A i \in ToSet(pausing') : i \in Items /\ pc'[i] \in Over
    BY <1>s, <2>0, <2>1, <2>2, ElemsEmpty, OneKind DEF QueueInv
  <2>6. \A a \in ToSet(appends') : a.event.type = "requeued" => IsPaused(log', a.event.item)
    BY <1>k, <2>0 DEF QueueInv
  <2> QED
    BY <2>0, <2>2, <2>3, <2>4, <2>5, <2>6 DEF QueueInv
<1>43. ASSUME Paused  PROVE QueueInv'
  <2>0. /\ Heads("resume") /\ Land /\ appends # <<>> /\ queue' = queue /\ pausing' = Tail(pausing) /\ drain' = drain
        /\ pc' = pc /\ mutation' = mutation
    BY <1>43 DEF Paused, Heads
  <2>1. PICK i : i = Head(pausing)
    OBVIOUS
  <2>2. pausing # <<>> /\ Head(appends).event = QueueEvent("paused", i, i, FALSE)
    BY <2>0, <2>1, HeadKinds
  <2>3. PICK e : e = Head(appends).event /\ e.type = "paused" /\ e.item = i
    BY <2>2 DEF QueueEvent, Event
  <2>4. log' = Append(log, e) /\ WellFormed(log') /\ e \in QueueEvents
    BY <1>b, <2>0, <2>3, LifecycleLands DEF QueueTypes
  <2>5. /\ i \in Items /\ i \in ToSet(pausing) /\ ToSet(pausing) = ToSet(pausing') \cup {i}
        /\ i \notin ToSet(pausing') /\ IsInjective(pausing')
    BY <1>0, <2>0, <2>1, <2>2, HeadIn DEF QueueInv
  <2>6. i \notin ToSet(queue) /\ i \notin Starting /\ pc[i] \in Over
    BY <2>5 DEF QueueInv
  <2>9. Starting' = Starting /\ Held' \subseteq Held /\ i \notin Held'
    BY <2>0, <2>5, <2>6 DEF Starting, Held
  <2>10. \A j : /\ Recorded(log', j) <=> Recorded(log, j)
                /\ Started(log', j) <=> Started(log, j)
                /\ Waits(log', j) <=> Waits(log, j) /\ j # i
                /\ IsPaused(log', j) <=> IsPaused(log, j) \/ j = i
    BY <1>c, <2>3, <2>4 DEF Names
  <2>11. \A j \in Held' : Waits(log', j)
    BY <2>9, <2>10 DEF QueueInv
  <2>12. ToSet(queue') \cap ToSet(pausing') = {} /\ Starting' \cap (ToSet(queue') \cup ToSet(pausing')) = {}
    BY <2>0, <2>5, <2>9 DEF QueueInv
  <2>14. /\ \A j \in ToSet(queue') : pc'[j] = "queued"
         /\ \A j \in ToSet(pausing') : pc'[j] \in Over
    BY <2>0, <2>5 DEF QueueInv
  <2>15. \A a \in ToSet(appends') : a.event.type = "requeued" => IsPaused(log', a.event.item)
    BY <1>k, <2>0, <2>10 DEF QueueInv
  <2>16. /\ \A j \in Items : pc'[j] \in {"idle", "recording"} => ~Recorded(log', j)
         /\ \A j \in Items : IsPaused(log', j) => pc'[j] \in Over
         /\ \A j \in Items : pc'[j] \in Claimed => Started(log', j)
    BY <2>0, <2>6, <2>10 DEF QueueInv
  <2>17. drain'.at = "failing" /\ drain'.op \in Items => Started(log', drain'.op)
    BY <2>0, <2>10 DEF QueueInv
  <2>18. IsInjective(queue')
    BY <2>0 DEF QueueInv
  <2> QED
    BY <2>4, <2>5, <2>11, <2>12, <2>14, <2>15, <2>16, <2>17, <2>18 DEF QueueInv
<1>44. Request => QueueInv'
    BY <1>1, <1>2, <1>3, <1>4, <1>5, <1>6, <1>7, <1>8, <1>9, <1>10, <1>11, Zenon DEF Request
<1>45. Continue => QueueInv'
    BY <1>12, <1>13, <1>14, <1>15, <1>16, <1>17, <1>18, <1>19, <1>21, <1>22, <1>23, <1>25, <1>26,
       <1>31, <1>32, <1>34, <1>37, <1>38, <1>39, <1>42, <1>43, Zenon DEF Continue, Gives, Delivers
<1>46. Environment => QueueInv'
    BY <1>17, <1>24, <1>33, <1>34, <1>35, <1>36, <1>40, <1>41, Zenon
    DEF Environment, Gives, Delivers
<1>47. DrainLoop => QueueInv'
    BY <1>27, <1>28, <1>29, <1>30, Zenon DEF DrainLoop
<1> QED
    BY UrgentTurns, <1>16, <1>17, <1>20, <1>44, <1>45, <1>46, <1>47, Zenon DEF Next, Works, Gives

-----------------------------------------------------------------------------
(* Interrupts *)

\* An operation that has not begun.
Early == {"idle", "recording", "queued"}

\* Only a paused item and a reload go back to waiting, and nothing goes back before its claim.
LEMMA StageMoves ==
    ASSUME TypeOK, StageInv, DrainInv, FlightInv, QueueInv, Next
    PROVE  \A o \in Ops :
              /\ pc'[o] \in Early => pc[o] \in Early \/ o \in Reloads \/ (o \in Items /\ ~Started(log, o))
              /\ pc'[o] \in BeforeClaim => pc[o] \in BeforeClaim \/ pc[o] \in Early
<1> DEFINE Moves == \A o \in Ops :
              /\ pc'[o] \in Early => pc[o] \in Early \/ o \in Reloads \/ (o \in Items /\ ~Started(log, o))
              /\ pc'[o] \in BeforeClaim => pc[o] \in BeforeClaim \/ pc[o] \in Early
<1> SUFFICES Moves
    OBVIOUS
<1> USE DEF Early, BeforeClaim
<1>0. pc \in [Ops -> Stages]
    BY DEF TypeOK
<1>1. ASSUME \/ Dispose \/ DisposeAborts \/ DisposeWaited \/ Disposed \/ BeginShutdown \/ DrainStops
             \/ DrainStarts \/ DrainRecorded \/ Resume \/ Paused
      PROVE  Moves
    BY <1>1
    DEF Dispose, DisposeAborts, DisposeWaited, Disposed, BeginShutdown, DrainStops, DrainStarts,
        DrainRecorded, Resume, Paused
<1>2. ASSUME NEW i \in Items, NEW front \in Fronts, Enqueue(i, front)  PROVE Moves
    BY <1>2, <1>0 DEF Enqueue, Mutate, Called
<1>3. ASSUME NEW q \in Requeues, NEW i \in Items, NEW front \in Fronts, Requeue(q, i, front)  PROVE Moves
    BY <1>3, <1>0 DEF Requeue, Mutate, Called
<1>4. ASSUME NEW x \in Restores, Restore(x)  PROVE Moves
    BY <1>4, <1>0 DEF Restore, Mutate, Called
<1>5. ASSUME NEW x \in Interrupts, InterruptAccepted(x)  PROVE Moves
    BY <1>5, <1>0 DEF InterruptAccepted, Mutate, Called
<1>6. ASSUME NEW p \in Prompts, Send(p)  PROVE Moves
    BY <1>6, <1>0 DEF Send, Mutate, Called
<1>7. ASSUME NEW d \in Deliveries, Reserve(d)  PROVE Moves
    BY <1>7, <1>0 DEF Reserve, Mutate, Called
<1>8. ASSUME NEW c \in Compactions, Compact(c)  PROVE Moves
    BY <1>8, <1>0 DEF Compact, Mutate, Called
<1>9. ASSUME NEW c \in Compactions, CompactLater(c)  PROVE Moves
    BY <1>9, <1>0 DEF CompactLater, Mutate, Called
<1>10. ASSUME NEW s \in Shells, Shell(s)  PROVE Moves
    BY <1>10, <1>0 DEF Shell, Mutate, Called
<1>11. ASSUME NEW r \in Reloads, Reload(r)  PROVE Moves
    BY <1>11, <1>0 DEF Reload, Mutate, Called
<1>12. ASSUME NEW r \in Reloads, ReloadLater(r)  PROVE Moves
    BY <1>12, <1>0 DEF ReloadLater, Mutate, Called
<1>13. ASSUME NEW i \in Items, Enqueued(i)  PROVE Moves
    BY <1>13, <1>0 DEF Enqueued, MutationLanded, StageInv
<1>14. ASSUME NEW q \in Requeues, Requeued(q)  PROVE Moves
  <2>1. PICK i \in Items, front \in BOOLEAN :
           /\ Head(appends).event = QueueEvent("requeued", q, i, front) /\ Heads(q)
           /\ pc'[q] = "done" /\ pc'[i] = "queued" /\ \A o \in Ops : o # q /\ o # i => pc'[o] = pc[o]
    BY <1>14, RequeueLands
  <2>2. Head(appends).event.type = "requeued" /\ Head(appends).event.item = i
    BY <2>1 DEF QueueEvent, Event
  <2>3. IsPaused(log, i)
    BY <2>1, <2>2, HeadAwaits DEF QueueInv
  <2>4. ~Started(log, i)
    BY <2>3, LogSays DEF QueueInv
  <2> QED
    BY <2>1, <2>4
<1>15. ASSUME NEW x \in Restores, Restored(x)  PROVE Moves
    BY <1>15, <1>0 DEF Restored, Mutate, Called
<1>16. ASSUME NEW x \in Interrupts, Interrupt(x)  PROVE Moves
    BY <1>16, <1>0 DEF Interrupt, Mutate, Called
<1>17. ASSUME NEW o \in Turns, Claim(o)  PROVE Moves
    BY <1>17, <1>0 DEF Claim, Mutate, Called
<1>18. ASSUME NEW o \in Turns \cup Compactions \cup Shells, Gives(o)  PROVE Moves
  <2>1. /\ pc'[o] \in {"delivering", "failing", "done", "failed"}
        /\ \A p \in Ops : p # o => pc'[p] = pc[p] \/ (pc[p] = "waiting" /\ pc'[p] = "claiming")
    BY <1>18, GivesStages
  <2> QED
    BY <2>1
<1>19. ASSUME NEW o \in Turns, Intercepted(o)  PROVE Moves
    BY <1>19, <1>0 DEF Intercepted, Mutate, Called
<1>20. ASSUME NEW o \in Turns, Messaged(o)  PROVE Moves
    BY <1>20, <1>0 DEF Messaged, Mutate, Called
<1>21. ASSUME NEW o \in Turns \cup Compactions \cup Shells, Stop(o)  PROVE Moves
    BY <1>21, <1>0 DEF Stop, Mutate, Called
<1>22. ASSUME NEW s \in Shells, ShellRuns(s)  PROVE Moves
    BY <1>22, <1>0 DEF ShellRuns, Mutate, Called
<1>23. ASSUME NEW s \in Shells, ShellRefused(s)  PROVE Moves
    BY <1>23, <1>0 DEF ShellRefused, Mutate, Called
<1>24. ASSUME NEW c \in Compactions, CompactionQueued(c)  PROVE Moves
    BY <1>24, <1>0 DEF CompactionQueued, Mutate, Called
<1>25. ASSUME NEW c \in Compactions, CompactionUnqueued(c)  PROVE Moves
    BY <1>25, <1>0 DEF CompactionUnqueued, Mutate, Called
<1>26. ASSUME NEW r \in Reloads, Rebuild(r)  PROVE Moves
    BY <1>26, <1>0 DEF Rebuild, Mutate, Called
<1>27. ASSUME NEW r \in Reloads, Rebuilt(r)  PROVE Moves
    BY <1>27, <1>0 DEF Rebuilt, Mutate, Called
<1>28. ASSUME DrainCompacts  PROVE Moves
  <2>1. Head(compactions) \in Compactions /\ pc' = [pc EXCEPT ![Head(compactions)] = "working"]
    BY <1>28, HeadIn DEF DrainCompacts, TypeOK
  <2> QED
    BY <1>0, <2>1
<1>29. ASSUME DrainReloads  PROVE Moves
  <2>1. Head(reloads) \in Reloads /\ pc' = [pc EXCEPT ![Head(reloads)] = "rebuilding"]
    BY <1>29, HeadIn DEF DrainReloads, TypeOK
  <2> QED
    BY <1>0, <2>1
<1>30. ASSUME DrainSends  PROVE Moves
  <2>1. drain.op \in Items /\ pc[drain.op] = "queued" /\ pc' = [pc EXCEPT ![drain.op] = "claiming"]
    BY <1>30 DEF DrainSends, DrainInv, Placed
  <2> QED
    BY <1>0, <2>1
<1>31. ASSUME DrainBreaks  PROVE Moves
    BY <1>31, <1>0 DEF DrainBreaks, Mutate, Called
<1>32. ASSUME NEW d \in Deliveries, Delivers(d)  PROVE Moves
  <2>1. PICK stage \in {"requesting", "interrupting", "waiting", "closing", "claiming", "failing", "done", "failed"} :
           /\ pc'[d] = stage
           /\ pc[d] \in {"delivering", "failing"} => stage \in {"done", "failed", "failing"}
    BY <1>32, DeliveryGoesOn
  <2>2. /\ pc[d] \in {"reserved", "requesting", "interrupting", "closing", "delivering", "failing"}
        /\ \A o \in Ops : o # d => pc'[o] = pc[o]
    BY <1>32, DeliveryGoesOn
  <2> QED
    BY <2>1, <2>2
<1>33. ASSUME NEW o \in Items \cup Requeues \cup Restores, MutationFails(o)  PROVE Moves
    BY <1>33, <1>0 DEF MutationFails, Mutate, Called
<1>34. ASSUME Crash  PROVE Moves
    BY <1>34, <1>0 DEF Crash, Mutate, Called
<1>35. Request => Moves
    BY <1>2, <1>3, <1>4, <1>5, <1>6, <1>7, <1>8, <1>9, <1>10, <1>11, <1>12, Zenon DEF Request
<1>36. Continue => Moves
    BY <1>1, <1>13, <1>14, <1>15, <1>16, <1>17, <1>18, <1>19, <1>20, <1>22, <1>23, <1>24, <1>26,
       <1>27, <1>30, <1>32, Zenon DEF Continue, Gives, Delivers
<1>37. Environment => Moves
    BY <1>1, <1>18, <1>25, <1>31, <1>32, <1>33, <1>34, Zenon DEF Environment, Gives, Delivers
<1>38. DrainLoop => Moves
    BY <1>1, <1>28, <1>29, Zenon DEF DrainLoop
<1> QED
    BY UrgentTurns, <1>17, <1>18, <1>21, <1>35, <1>36, <1>37, <1>38, Zenon DEF Next, Works, Gives

\* The log only grows, by events that it can go on with.
LEMMA LogStep ==
    ASSUME TypeOK, StageInv, DrainInv, FlightInv, QueueInv, Next
    PROVE  log' = log \/ \E e \in QueueEvents : log' = Append(log, e) /\ Head(appends).event = e /\ appends # <<>>
<1> DEFINE Lands == appends # <<>> /\ Land
<1>a. Lands => log' = log \/ \E e \in QueueEvents : log' = Append(log, e) /\ Head(appends).event = e /\ appends # <<>>
  <2>1. appends # <<>> => LET e == Head(appends).event IN e.type \in QueueTypes => Continues(log, e)
    BY HeadContinues
  <2> QED
    BY <2>1 DEF Land, Continues
<1>1. ASSUME \/ \E i \in Items : Enqueued(i)
             \/ \E q \in Requeues : Requeued(q)
             \/ \E x \in Restores : Restored(x)
             \/ \E o \in Turns : Messaged(o)
             \/ \E c \in Compactions : CompactionQueued(c)
             \/ DrainSends \/ DrainRecorded \/ Paused
      PROVE  log' = log \/ Lands
    BY <1>1
    DEF Enqueued, Requeued, Restored, Messaged, CompactionQueued, DrainSends, DrainRecorded,
        Paused, Heads, MutationLanded
<1>2. ASSUME \/ \E i \in Items, front \in Fronts : Enqueue(i, front)
             \/ \E q \in Requeues, i \in Items, front \in Fronts : Requeue(q, i, front)
             \/ \E x \in Restores : Restore(x)
             \/ \E x \in Interrupts : InterruptAccepted(x)
             \/ \E p \in Prompts : Send(p)
             \/ \E d \in Deliveries : Reserve(d)
             \/ \E c \in Compactions : Compact(c)
             \/ \E c \in Compactions : CompactLater(c)
             \/ \E s \in Shells : Shell(s)
             \/ \E r \in Reloads : Reload(r)
             \/ \E r \in Reloads : ReloadLater(r)
             \/ \E x \in Interrupts : Interrupt(x)
             \/ \E o \in Turns : Claim(o)
             \/ \E o \in Turns : Intercepted(o)
             \/ \E o \in Turns \cup Compactions \cup Shells : Stop(o)
             \/ \E s \in Shells : ShellRuns(s)
             \/ \E s \in Shells : ShellRefused(s)
             \/ \E c \in Compactions : CompactionUnqueued(c)
             \/ \E r \in Reloads : Rebuild(r)
             \/ \E r \in Reloads : Rebuilt(r)
             \/ DrainStops \/ DrainCompacts \/ DrainReloads \/ DrainStarts \/ DrainBreaks
             \/ \E o \in Items \cup Requeues \cup Restores : MutationFails(o)
             \/ Dispose \/ DisposeAborts \/ DisposeWaited \/ Disposed \/ BeginShutdown \/ Resume
      PROVE  log' = log \/ Lands
    BY <1>2
    DEF Enqueue, Requeue, Restore, InterruptAccepted, Send, Reserve, Compact, CompactLater, Shell,
        Reload, ReloadLater, Interrupt, Claim, Intercepted, Stop, ShellRuns, ShellRefused,
        CompactionUnqueued, Rebuild, Rebuilt, DrainStops, DrainCompacts, DrainReloads, DrainStarts,
        DrainBreaks, MutationFails, Dispose, DisposeAborts, DisposeWaited, Disposed, BeginShutdown,
        Resume, Mutate, Fault
<1>3. ASSUME NEW o \in Turns \cup Compactions \cup Shells, Gives(o)  PROVE log' = log \/ Lands
  <2> QED
    BY <1>3 DEF Gives, ClaimRefused, InterceptedAway, End, OperationFails, Fault, Heads
<1>4. ASSUME NEW d \in Deliveries, Delivers(d)  PROVE log' = log \/ Lands
  <2> QED
    BY <1>4
    DEF Delivers, DeliverRefused, DeliverRequest, DeliverRequested, DeliverInterrupts,
        DeliverClosed, Delivered, DeliveryFails, Fault, Heads
<1>5. ASSUME Crash  PROVE log' = log \/ Lands
    BY <1>5 DEF Crash
<1>6. Request => log' = log \/ Lands
    BY <1>2, Zenon DEF Request
<1>7. Continue => log' = log \/ Lands
    BY <1>1, <1>2, <1>3, <1>4, Zenon DEF Continue, Gives, Delivers
<1>8. Environment => log' = log \/ Lands
    BY <1>2, <1>3, <1>4, <1>5, Zenon DEF Environment, Gives, Delivers
<1>9. DrainLoop => log' = log \/ Lands
    BY <1>2, Zenon DEF DrainLoop
<1>10. log' = log \/ Lands
    BY UrgentTurns, <1>2, <1>3, <1>6, <1>7, <1>8, <1>9, Zenon DEF Next, Works, Gives
<1> QED
    BY <1>a, <1>10

\* An item that has started has started for good.
LEMMA StartedStays ==
    ASSUME TypeOK, StageInv, DrainInv, FlightInv, QueueInv, Next
    PROVE  \A t : Started(log, t) => Started(log', t)
<1>1. log \in Seq(QueueEvents)
    BY DEF QueueInv, WellFormed
<1>2. CASE log' = log
    BY <1>2
<1>3. CASE \E e \in QueueEvents : log' = Append(log, e)
    BY <1>1, <1>3, LogGrows
<1> QED
    BY <1>2, <1>3, LogStep

\* What has begun has begun for good.
LEMMA BegunStep ==
    ASSUME TypeOK, StageInv, DrainInv, FlightInv, QueueInv, Next
    PROVE  \A t \in Ops : Begun(t) => Begun(t)'
<1>1. \A t : Started(log, t) => Started(log', t)
    BY StartedStays
<1>2. \A t \in Ops : pc'[t] \in Early => pc[t] \in Early \/ t \in Reloads \/ (t \in Items /\ ~Started(log, t))
    BY StageMoves
<1> QED
    BY <1>1, <1>2 DEF Begun, Early

\* Whoever a request can interrupt has begun (interruptTargetOperationId).
LEMMA TargetBegun ==
    ASSUME TypeOK, StageInv, OwnerInv, QueueInv
    PROVE  /\ \A t \in TargetNow : t = None \/ (t \in Ops /\ Begun(t))
           /\ activeTurn # None => activeTurn.op \in Ops /\ Begun(activeTurn.op) /\ pc[activeTurn.op] \notin BeforeClaim
           /\ \A o \in Ops : pc[o] \in Early => ~Begun(o)
<1> USE DEF Working, Claimed, BeforeClaim, Delivering, Over, Early
<1>1. activeTurn # None => activeTurn.op \in Ops /\ pc[activeTurn.op] \in Working
    BY DEF OwnerInv, TypeOK
<1>2. \A o \in Ops : pc[o] \in Delivering => o \notin Reloads /\ (o \in Items => Started(log, o))
    BY OneKind DEF StageInv, MayBeAt, QueueInv
<1>3. interruptDelivery # None => interruptDelivery \in Ops /\ pc[interruptDelivery] \in Delivering
    BY OneKind DEF StageInv, TypeOK
<1>4. \A o \in Prompts \cup Shells : o \in Ops
    BY OneKind
<1>5. \A o \in Ops : pc[o] \in Delivering => Begun(o)
    BY <1>2 DEF Begun
<1>6. \A t \in TargetNow : t = None \/ (t \in Ops /\ Begun(t))
    BY <1>1, <1>3, <1>4, <1>5 DEF TargetNow
<1>7. \A o \in Ops : pc[o] \in Early => ~Begun(o)
    BY DEF Begun
<1> QED
    BY <1>1, <1>5, <1>6, <1>7

\* An accepted interrupt is not lost: its target is aborted, or remembered until it claims
\* the branch (interrupt, send, shell).
LEMMA InterruptStep ==
    ASSUME TypeOK, StageInv, OwnerInv, DrainInv, FlightInv, QueueInv, InterruptInv, Next
    PROVE  InterruptInv'
<1>0. /\ pc \in [Ops -> Stages] /\ interrupted \subseteq Ops /\ target \in [Ops -> Ops \cup {None}]
      /\ activeTurn \in [op : Ops, kind : Kinds] \cup {None} /\ pc' \in [Ops -> Stages]
  <2>1. TypeOK'
    BY TypeStep
  <2> QED
    BY <2>1 DEF TypeOK
<1>b. \A t \in Ops : Begun(t) => Begun(t)'
    BY BegunStep
<1>n. \A o \in Ops : pc[o] \in Early => ~Begun(o)
    BY TargetBegun
<1>m. \A o \in Ops : pc'[o] \in BeforeClaim => pc[o] \in BeforeClaim \/ pc[o] \in Early
    BY StageMoves
<1>i. /\ activeTurn # None /\ activeTurn.op \in interrupted => aborted
      /\ \A t \in interrupted : Begun(t) /\ (pc[t] \in BeforeClaim => t \in pendingInterrupts)
      /\ \A x, t \in Ops : target[x] = t => Begun(t)
    BY DEF InterruptInv, InterruptHonoured
<1>u. target' = target => \A x, t \in Ops : target'[x] = t => Begun(t)'
    BY <1>b, <1>i
<1>p. ASSUME interrupted' = interrupted, \A o \in Ops : pc'[o] \in BeforeClaim /\ o \in pendingInterrupts => o \in pendingInterrupts'
      PROVE  \A t \in interrupted' : Begun(t)' /\ (pc'[t] \in BeforeClaim => t \in pendingInterrupts')
    BY <1>0, <1>b, <1>i, <1>m, <1>n, <1>p
<1>a. ASSUME interrupted' = interrupted, target' = target,
             \A o \in Ops : pc'[o] \in BeforeClaim /\ o \in pendingInterrupts => o \in pendingInterrupts',
             activeTurn' # None => activeTurn' = activeTurn /\ (aborted => aborted')
      PROVE  InterruptInv'
  <2>1. InterruptHonoured'
    BY <1>a, <1>i DEF InterruptHonoured
  <2> QED
    BY <1>a, <1>p, <1>u, <2>1 DEF InterruptInv
<1>q. UNCHANGED <<interrupted, target, pendingInterrupts, activeTurn, aborted>> => InterruptInv'
    BY <1>a
<1>1. ASSUME \/ \E i \in Items, front \in Fronts : Enqueue(i, front)
             \/ \E q \in Requeues, i \in Items, front \in Fronts : Requeue(q, i, front)
             \/ \E p \in Prompts : Send(p)
             \/ \E c \in Compactions : CompactLater(c)
             \/ \E s \in Shells : Shell(s)
             \/ \E r \in Reloads : Reload(r)
             \/ \E r \in Reloads : ReloadLater(r)
             \/ \E i \in Items : Enqueued(i)
             \/ \E q \in Requeues : Requeued(q)
             \/ \E o \in Turns : Intercepted(o)
             \/ \E o \in Turns : Messaged(o)
             \/ \E o \in Turns \cup Compactions \cup Shells : Stop(o)
             \/ \E s \in Shells : ShellRefused(s)
             \/ \E c \in Compactions : CompactionQueued(c)
             \/ \E c \in Compactions : CompactionUnqueued(c)
             \/ \E r \in Reloads : Rebuild(r)
             \/ \E r \in Reloads : Rebuilt(r)
             \/ DrainStops \/ DrainReloads \/ DrainStarts \/ DrainSends \/ DrainRecorded \/ DrainBreaks
             \/ \E o \in Items \cup Requeues \cup Restores : MutationFails(o)
             \/ Dispose \/ DisposeWaited \/ Disposed \/ Resume \/ Paused
      PROVE  InterruptInv'
    BY <1>1, <1>q
    DEF Enqueue, Requeue, Send, CompactLater, Shell, Reload, ReloadLater, Enqueued, Requeued,
        Intercepted, Messaged, Stop, ShellRefused, CompactionQueued, CompactionUnqueued, Rebuild,
        Rebuilt, DrainStops, DrainReloads, DrainStarts, DrainSends, DrainRecorded, DrainBreaks,
        MutationFails, Dispose, DisposeWaited, Disposed, Resume, Paused, Mutate, MutationLanded,
        Fault
<1>2. ASSUME NEW x \in Restores, Restore(x)  PROVE InterruptInv'
  <2>1. PICK t \in TargetNow \cup {None} : target' = [target EXCEPT ![x] = t]
    BY <1>2 DEF Restore
  <2>2. t = None \/ (t \in Ops /\ Begun(t))
    BY TargetBegun
  <2>3. \A y \in Ops : target'[y] = target[y] \/ target'[y] = t
    BY <1>0, <2>1
  <2>4. \A y, o \in Ops : target'[y] = o => Begun(o)'
    BY <1>b, <1>i, <2>2, <2>3, OneKind
  <2>5. UNCHANGED <<interrupted, pendingInterrupts, activeTurn, aborted>>
    BY <1>2 DEF Restore, Mutate
  <2>6. InterruptHonoured'
    BY <1>i, <2>5 DEF InterruptHonoured
  <2> QED
    BY <1>p, <2>4, <2>5, <2>6 DEF InterruptInv
<1>3. ASSUME NEW x \in Interrupts, InterruptAccepted(x)  PROVE InterruptInv'
  <2>1. PICK t \in TargetNow \cup {None} : target' = [target EXCEPT ![x] = t]
    BY <1>3 DEF InterruptAccepted
  <2>2. t = None \/ (t \in Ops /\ Begun(t))
    BY TargetBegun
  <2>3. \A y \in Ops : target'[y] = target[y] \/ target'[y] = t
    BY <1>0, <2>1
  <2>4. \A y, o \in Ops : target'[y] = o => Begun(o)'
    BY <1>b, <1>i, <2>2, <2>3, OneKind
  <2>5. UNCHANGED <<interrupted, pendingInterrupts, activeTurn, aborted>>
    BY <1>3 DEF InterruptAccepted
  <2>6. InterruptHonoured'
    BY <1>i, <2>5 DEF InterruptHonoured
  <2> QED
    BY <1>p, <2>4, <2>5, <2>6 DEF InterruptInv
<1>4. ASSUME NEW d \in Deliveries, Reserve(d)  PROVE InterruptInv'
  <2>1. PICK t \in TargetNow \cup {None} : target' = [target EXCEPT ![d] = t]
    BY <1>4 DEF Reserve
  <2>2. t = None \/ (t \in Ops /\ Begun(t))
    BY TargetBegun
  <2>3. \A y \in Ops : target'[y] = target[y] \/ target'[y] = t
    BY <1>0, <2>1
  <2>4. \A y, o \in Ops : target'[y] = o => Begun(o)'
    BY <1>b, <1>i, <2>2, <2>3, OneKind
  <2>5. UNCHANGED <<interrupted, pendingInterrupts, activeTurn, aborted>>
    BY <1>4 DEF Reserve
  <2>6. InterruptHonoured'
    BY <1>i, <2>5 DEF InterruptHonoured
  <2> QED
    BY <1>p, <2>4, <2>5, <2>6 DEF InterruptInv
<1>5. ASSUME NEW c \in Compactions, Compact(c)  PROVE InterruptInv'
  <2>1. /\ c \in Ops /\ pc[c] \in Early /\ activeTurn'.op = c /\ pendingInterrupts' = pendingInterrupts
        /\ interrupted' = interrupted /\ target' = target
    BY <1>5, OneKind DEF Compact, OwnCompaction, Called, Early
  <2>2. c \notin interrupted'
    BY <1>i, <1>n, <2>1
  <2>3. InterruptHonoured'
    BY <2>1, <2>2 DEF InterruptHonoured
  <2>4. \A t \in interrupted' : Begun(t)' /\ (pc'[t] \in BeforeClaim => t \in pendingInterrupts')
    BY <1>p, <2>1
  <2> QED
    BY <1>u, <2>1, <2>3, <2>4 DEF InterruptInv
<1>6. ASSUME NEW x \in Restores, Restored(x)  PROVE InterruptInv'
  <2>1. PICK t : t = target[x] /\ Interrupted(t)
    BY <1>6 DEF Restored
  <2>2. UNCHANGED <<activeTurn, target>>
    BY <1>6 DEF Restored
  <2>3. t = None \/ (t \in Ops /\ Begun(t))
    BY <1>0, <1>i, <2>1, OneKind
  <2>4. activeTurn # None => activeTurn.op \in Ops /\ Begun(activeTurn.op) /\ pc[activeTurn.op] \notin BeforeClaim
    BY TargetBegun
  <2>5. PICK effective \in BOOLEAN :
           /\ effective => t # None
           /\ aborted' = (aborted \/ (effective /\ activeTurn # None /\ activeTurn.op = t))
           /\ pendingInterrupts' = IF effective /\ ~(activeTurn # None /\ activeTurn.op = t)
                                   THEN pendingInterrupts \cup {t} ELSE pendingInterrupts
           /\ interrupted' = IF effective THEN interrupted \cup {t} ELSE interrupted
    BY <2>1 DEF Interrupted
  <2>6. InterruptHonoured'
    BY <1>i, <2>2, <2>5 DEF InterruptHonoured
  <2>7. \A s \in interrupted' : s \in Ops /\ Begun(s) /\ (pc[s] \in BeforeClaim => s \in pendingInterrupts')
    BY <1>0, <1>i, <2>3, <2>4, <2>5
  <2>8. \A s \in interrupted' : Begun(s)' /\ (pc'[s] \in BeforeClaim => s \in pendingInterrupts')
    BY <1>b, <1>m, <1>n, <2>7
  <2> QED
    BY <1>u, <2>2, <2>6, <2>8 DEF InterruptInv
<1>7. ASSUME NEW x \in Interrupts, Interrupt(x)  PROVE InterruptInv'
  <2>1. PICK t : t = (IF target[x] = None /\ activeTurn # None THEN activeTurn.op ELSE target[x]) /\ Interrupted(t)
    BY <1>7 DEF Interrupt
  <2>2. UNCHANGED <<activeTurn, target>>
    BY <1>7 DEF Interrupt
  <2>3. t = None \/ (t \in Ops /\ Begun(t))
    BY <1>0, <1>i, <2>1, TargetBegun, OneKind
  <2>4. activeTurn # None => activeTurn.op \in Ops /\ Begun(activeTurn.op) /\ pc[activeTurn.op] \notin BeforeClaim
    BY TargetBegun
  <2>5. PICK effective \in BOOLEAN :
           /\ effective => t # None
           /\ aborted' = (aborted \/ (effective /\ activeTurn # None /\ activeTurn.op = t))
           /\ pendingInterrupts' = IF effective /\ ~(activeTurn # None /\ activeTurn.op = t)
                                   THEN pendingInterrupts \cup {t} ELSE pendingInterrupts
           /\ interrupted' = IF effective THEN interrupted \cup {t} ELSE interrupted
    BY <2>1 DEF Interrupted
  <2>6. InterruptHonoured'
    BY <1>i, <2>2, <2>5 DEF InterruptHonoured
  <2>7. \A s \in interrupted' : s \in Ops /\ Begun(s) /\ (pc[s] \in BeforeClaim => s \in pendingInterrupts')
    BY <1>0, <1>i, <2>3, <2>4, <2>5
  <2>8. \A s \in interrupted' : Begun(s)' /\ (pc'[s] \in BeforeClaim => s \in pendingInterrupts')
    BY <1>b, <1>m, <1>n, <2>7
  <2> QED
    BY <1>u, <2>2, <2>6, <2>8 DEF InterruptInv
<1>8. ASSUME NEW o \in Turns, Claim(o)  PROVE InterruptInv'
  <2>1. /\ o \in Ops /\ pc[o] = "claiming" /\ activeTurn'.op = o /\ aborted' = (o \in pendingInterrupts)
        /\ pendingInterrupts' = pendingInterrupts \ {o} /\ interrupted' = interrupted /\ target' = target
        /\ pc'[o] \in {"intercepting", "working"}
    BY <1>8, <1>0, OneKind DEF Claim, Own
  <2>2. InterruptHonoured'
    BY <1>i, <2>1 DEF InterruptHonoured, BeforeClaim
  <2>3. \A t \in interrupted' : Begun(t)' /\ (pc'[t] \in BeforeClaim => t \in pendingInterrupts')
    BY <1>p, <2>1 DEF BeforeClaim
  <2> QED
    BY <1>u, <2>1, <2>2, <2>3 DEF InterruptInv
<1>9. ASSUME NEW o \in Turns \cup Compactions \cup Shells, Gives(o)  PROVE InterruptInv'
  <2>1. /\ UNCHANGED <<pendingInterrupts, target, interrupted>>
        /\ IF pc[o] = "claiming" THEN UNCHANGED <<activeTurn, aborted>> ELSE activeTurn' = None /\ aborted' = FALSE
    BY <1>9, GivesStages, GivesBranch
  <2> QED
    BY <1>a, <2>1
<1>10. ASSUME NEW s \in Shells, ShellRuns(s)  PROVE InterruptInv'
  <2>1. /\ s \in Ops /\ pc[s] = "claiming" /\ activeTurn'.op = s /\ aborted' = (s \in pendingInterrupts)
        /\ pendingInterrupts' = pendingInterrupts \ {s} /\ interrupted' = interrupted /\ target' = target
        /\ pc'[s] \in {"intercepting", "working"}
    BY <1>10, <1>0, OneKind DEF ShellRuns, Own
  <2>2. InterruptHonoured'
    BY <1>i, <2>1 DEF InterruptHonoured, BeforeClaim
  <2>3. \A t \in interrupted' : Begun(t)' /\ (pc'[t] \in BeforeClaim => t \in pendingInterrupts')
    BY <1>p, <2>1 DEF BeforeClaim
  <2> QED
    BY <1>u, <2>1, <2>2, <2>3 DEF InterruptInv
<1>11. ASSUME DrainCompacts  PROVE InterruptInv'
  <2>0. PICK c : c = Head(compactions) /\ c \in Compactions /\ pc[c] = "queued"
    BY <1>11, HeadIn DEF DrainCompacts, TypeOK, DrainInv, Listed
  <2>1. /\ c \in Ops /\ pc[c] \in Early /\ activeTurn'.op = c /\ pendingInterrupts' = pendingInterrupts
        /\ interrupted' = interrupted /\ target' = target
    BY <1>11, <2>0, OneKind DEF DrainCompacts, OwnCompaction, Early
  <2>2. c \notin interrupted'
    BY <1>i, <1>n, <2>1
  <2>3. InterruptHonoured'
    BY <2>1, <2>2 DEF InterruptHonoured
  <2>4. \A t \in interrupted' : Begun(t)' /\ (pc'[t] \in BeforeClaim => t \in pendingInterrupts')
    BY <1>p, <2>1
  <2> QED
    BY <1>u, <2>1, <2>3, <2>4 DEF InterruptInv
<1>12. ASSUME NEW d \in Deliveries, Delivers(d)  PROVE InterruptInv'
  <2>1. /\ UNCHANGED <<activeTurn, target, interrupted>>
        /\ aborted' = aborted \/ aborted'
        /\ pendingInterrupts' \in {pendingInterrupts, pendingInterrupts \ {d}}
        /\ pendingInterrupts' # pendingInterrupts => pc'[d] \in {"done", "failed"}
    BY <1>12, DeliveryGoesOn
  <2> QED
    BY <1>a, <2>1 DEF BeforeClaim
<1>13. ASSUME DisposeAborts  PROVE InterruptInv'
  <2>1. UNCHANGED <<interrupted, target, pendingInterrupts, activeTurn>> /\ aborted' = (activeTurn # None)
    BY <1>13 DEF DisposeAborts
  <2> QED
    BY <1>a, <2>1
<1>14. ASSUME BeginShutdown  PROVE InterruptInv'
  <2>1. UNCHANGED <<interrupted, target, pendingInterrupts, activeTurn>> /\ aborted' = (activeTurn # None)
    BY <1>14 DEF BeginShutdown
  <2> QED
    BY <1>a, <2>1
<1>15. ASSUME Crash  PROVE InterruptInv'
  <2>1. interrupted' = {} /\ activeTurn' = None /\ target' = target
    BY <1>15 DEF Crash
  <2> QED
    BY <1>u, <2>1 DEF InterruptInv, InterruptHonoured
<1>16. Request => InterruptInv'
    BY <1>1, <1>2, <1>3, <1>4, <1>5, Zenon DEF Request
<1>17. Continue => InterruptInv'
    BY <1>1, <1>6, <1>7, <1>8, <1>9, <1>10, <1>12, <1>13, Zenon DEF Continue, Gives, Delivers
<1>18. Environment => InterruptInv'
    BY <1>1, <1>9, <1>12, <1>14, <1>15, Zenon DEF Environment, Gives, Delivers
<1>19. DrainLoop => InterruptInv'
    BY <1>1, <1>11, Zenon DEF DrainLoop
<1> QED
    BY UrgentTurns, <1>1, <1>8, <1>9, <1>16, <1>17, <1>18, <1>19, Zenon DEF Next, Works, Gives

-----------------------------------------------------------------------------
(* Reservations *)

\* Every step leaves the reserved branch to the delivery and its target
\* (reserveInterruptDelivery, send).
LEMMA IsolatedStep ==
    ASSUME TypeOK, StageInv, DeliveryIsolated, Next
    PROVE  DeliveryIsolated'
<1>0. /\ target \in [Ops -> Ops \cup {None}] /\ interruptDelivery \in Deliveries \cup {None}
    BY DEF TypeOK
<1>a. ASSUME activeTurn' = activeTurn \/ activeTurn' = None \/ activeTurn'.kind # "turn",
             interruptDelivery' = interruptDelivery \/ interruptDelivery' = None,
             interruptDelivery # None => target'[interruptDelivery] = target[interruptDelivery]
      PROVE  DeliveryIsolated'
    BY <1>a DEF DeliveryIsolated
<1>q. UNCHANGED <<activeTurn, interruptDelivery, target>> => DeliveryIsolated'
    BY <1>a
<1>1. ASSUME \/ \E i \in Items, front \in Fronts : Enqueue(i, front)
             \/ \E q \in Requeues, i \in Items, front \in Fronts : Requeue(q, i, front)
             \/ \E p \in Prompts : Send(p)
             \/ \E c \in Compactions : CompactLater(c)
             \/ \E s \in Shells : Shell(s)
             \/ \E r \in Reloads : Reload(r)
             \/ \E r \in Reloads : ReloadLater(r)
             \/ \E i \in Items : Enqueued(i)
             \/ \E q \in Requeues : Requeued(q)
             \/ \E x \in Restores : Restored(x)
             \/ \E x \in Interrupts : Interrupt(x)
             \/ \E o \in Turns : Intercepted(o)
             \/ \E o \in Turns : Messaged(o)
             \/ \E o \in Turns \cup Compactions \cup Shells : Stop(o)
             \/ \E s \in Shells : ShellRefused(s)
             \/ \E c \in Compactions : CompactionQueued(c)
             \/ \E c \in Compactions : CompactionUnqueued(c)
             \/ \E r \in Reloads : Rebuild(r)
             \/ \E r \in Reloads : Rebuilt(r)
             \/ DrainStops \/ DrainReloads \/ DrainStarts \/ DrainSends \/ DrainRecorded \/ DrainBreaks
             \/ \E o \in Items \cup Requeues \cup Restores : MutationFails(o)
             \/ Dispose \/ DisposeAborts \/ DisposeWaited \/ Disposed \/ BeginShutdown \/ Resume \/ Paused
      PROVE  DeliveryIsolated'
    BY <1>1, <1>q
    DEF Enqueue, Requeue, Send, CompactLater, Shell, Reload, ReloadLater, Enqueued, Requeued,
        Restored, Interrupt, Intercepted, Messaged, Stop, ShellRefused, CompactionQueued,
        CompactionUnqueued, Rebuild, Rebuilt, DrainStops, DrainReloads, DrainStarts, DrainSends,
        DrainRecorded, DrainBreaks, MutationFails, Dispose, DisposeAborts, DisposeWaited, Disposed,
        BeginShutdown, Resume, Paused, Mutate, MutationLanded, Fault
<1>2. ASSUME NEW x \in Restores, Restore(x)  PROVE DeliveryIsolated'
  <2>1. PICK t : target' = [target EXCEPT ![x] = t]
    BY <1>2 DEF Restore
  <2>2. interruptDelivery' = interruptDelivery /\ activeTurn' = activeTurn
    BY <1>2 DEF Restore, Mutate
  <2>3. interruptDelivery # None => target'[interruptDelivery] = target[interruptDelivery]
    BY <1>2, <1>0, <2>1, OneKind
  <2> QED
    BY <1>a, <2>2, <2>3
<1>3. ASSUME NEW x \in Interrupts, InterruptAccepted(x)  PROVE DeliveryIsolated'
  <2>1. PICK t : target' = [target EXCEPT ![x] = t]
    BY <1>3 DEF InterruptAccepted
  <2>2. interruptDelivery' = interruptDelivery /\ activeTurn' = activeTurn
    BY <1>3 DEF InterruptAccepted
  <2>3. interruptDelivery # None => target'[interruptDelivery] = target[interruptDelivery]
    BY <1>3, <1>0, <2>1, OneKind
  <2> QED
    BY <1>a, <2>2, <2>3
<1>4. ASSUME NEW d \in Deliveries, Reserve(d)  PROVE DeliveryIsolated'
  <2>1. PICK t \in TargetNow : target' = [target EXCEPT ![d] = t]
    BY <1>4 DEF Reserve
  <2>2. interruptDelivery' = d /\ activeTurn' = activeTurn /\ target'[d] = t
    BY <1>4, <1>0, <2>1, OneKind DEF Reserve
  <2>3. activeTurn # None => t = activeTurn.op
    BY <2>1 DEF TargetNow
  <2> QED
    BY <2>2, <2>3 DEF DeliveryIsolated
<1>5. ASSUME NEW c \in Compactions, Compact(c)  PROVE DeliveryIsolated'
  <2>1. activeTurn'.kind # "turn" /\ interruptDelivery' = interruptDelivery /\ target' = target
    BY <1>5 DEF Compact, OwnCompaction
  <2> QED
    BY <1>a, <2>1
<1>6. ASSUME NEW o \in Turns, Claim(o)  PROVE DeliveryIsolated'
  <2>1. activeTurn'.op = o /\ interruptDelivery' = interruptDelivery /\ target' = target /\ ReservedFor(o)
    BY <1>6 DEF Claim, Own, MayClaim
  <2> QED
    BY <2>1 DEF ReservedFor, DeliveryIsolated
<1>7. ASSUME NEW o \in Turns \cup Compactions \cup Shells, Gives(o)  PROVE DeliveryIsolated'
  <2>1. UNCHANGED <<interruptDelivery, target>> /\ (activeTurn' = activeTurn \/ activeTurn' = None)
    BY <1>7, GivesStages, GivesBranch
  <2> QED
    BY <1>a, <2>1
<1>8. ASSUME NEW s \in Shells, ShellRuns(s)  PROVE DeliveryIsolated'
  <2>1. activeTurn'.kind # "turn" /\ interruptDelivery' = interruptDelivery /\ target' = target
    BY <1>8 DEF ShellRuns, Own
  <2> QED
    BY <1>a, <2>1
<1>9. ASSUME DrainCompacts  PROVE DeliveryIsolated'
  <2>1. activeTurn'.kind # "turn" /\ interruptDelivery' = interruptDelivery /\ target' = target
    BY <1>9 DEF DrainCompacts, OwnCompaction
  <2> QED
    BY <1>a, <2>1
<1>10. ASSUME NEW d \in Deliveries, Delivers(d)  PROVE DeliveryIsolated'
  <2>1. UNCHANGED <<activeTurn, target>> /\ (interruptDelivery' = interruptDelivery \/ interruptDelivery' = None)
    BY <1>10, DeliveryGoesOn
  <2> QED
    BY <1>a, <2>1
<1>11. ASSUME Crash  PROVE DeliveryIsolated'
  <2>1. activeTurn' = None
    BY <1>11 DEF Crash
  <2> QED
    BY <2>1 DEF DeliveryIsolated
<1>12. Request => DeliveryIsolated'
    BY <1>1, <1>2, <1>3, <1>4, <1>5, Zenon DEF Request
<1>13. Continue => DeliveryIsolated'
    BY <1>1, <1>6, <1>7, <1>8, <1>10, Zenon DEF Continue, Gives, Delivers
<1>14. Environment => DeliveryIsolated'
    BY <1>1, <1>7, <1>10, <1>11, Zenon DEF Environment, Gives, Delivers
<1>15. DrainLoop => DeliveryIsolated'
    BY <1>1, <1>9, Zenon DEF DrainLoop
<1> QED
    BY UrgentTurns, <1>1, <1>6, <1>7, <1>12, <1>13, <1>14, <1>15, Zenon DEF Next, Works, Gives

\* The steps that record anything but a change of the queue.
LEMMA MarksOnly ==
    ASSUME TypeOK, StageInv, FlightInv
    PROVE  /\ \A o \in Turns \cup Compactions \cup Shells : Gives(o) => log' = log
           /\ \A d \in Deliveries : Delivers(d) => log' = log
           /\ \A o \in Turns : Messaged(o) => log' = log
           /\ \A c \in Compactions : CompactionQueued(c) => log' = log
           /\ DrainRecorded => log' = log
<1>1. ASSUME NEW o \in Turns \cup Compactions \cup Shells, Gives(o)  PROVE log' = log
  <2>1. CASE End(o)
    BY <1>1, <2>1, MarkLands, OneKind DEF End
  <2> QED
    BY <1>1, <2>1 DEF Gives, ClaimRefused, InterceptedAway, OperationFails, Fault
<1>2. ASSUME NEW d \in Deliveries, Delivers(d)  PROVE log' = log
  <2>1. CASE DeliverRequested(d)
    BY <2>1, MarkLands, OneKind DEF DeliverRequested
  <2>2. CASE DeliverInterrupts(d)
    BY <2>2, MarkLands, OneKind DEF DeliverInterrupts
  <2>3. CASE DeliverClosed(d)
    BY <2>3, MarkLands, OneKind DEF DeliverClosed
  <2>4. CASE Delivered(d)
    BY <2>4, MarkLands, OneKind DEF Delivered
  <2> QED
    BY <1>2, <2>1, <2>2, <2>3, <2>4
    DEF Delivers, DeliverRefused, DeliverRequest, DeliveryFails, Fault
<1>3. ASSUME NEW o \in Turns, Messaged(o)  PROVE log' = log
    BY <1>3, MarkLands, OneKind DEF Messaged
<1>4. ASSUME NEW c \in Compactions, CompactionQueued(c)  PROVE log' = log
    BY <1>4, MarkLands, OneKind DEF CompactionQueued
<1>5. ASSUME DrainRecorded  PROVE log' = log
  <2>1. Head(appends).event.type \in {"compaction.failed", "error"}
    BY <1>5, HeadKinds DEF DrainRecorded, Event
  <2> QED
    BY <1>5, <2>1 DEF DrainRecorded, Land, QueueTypes
<1> QED
    BY <1>1, <1>2, <1>3, <1>4, <1>5

\* The steps that record a change of the queue, and the event that each records.
LEMMA ChangesLand ==
    ASSUME TypeOK, StageInv, DrainInv, FlightInv, QueueInv
    PROVE  /\ \A i \in Items : Enqueued(i) => \E e \in QueueEvents :
                 log' = Append(log, e) /\ e = Head(appends).event /\ e.type = "enqueued" /\ e.item = i
           /\ \A q \in Requeues : Requeued(q) => \E e \in QueueEvents :
                 log' = Append(log, e) /\ e = Head(appends).event /\ e.type = "requeued" /\ e.item \in Items
           /\ \A x \in Restores : Restored(x) => \E e \in QueueEvents :
                 log' = Append(log, e) /\ e = Head(appends).event /\ e.type = "restored"
           /\ DrainSends => \E e \in QueueEvents :
                 log' = Append(log, e) /\ e = Head(appends).event /\ e.type = "started" /\ e.item = drain.op
           /\ Paused => \E e \in QueueEvents :
                 /\ log' = Append(log, e) /\ e = Head(appends).event /\ e.type = "paused"
                 /\ pausing # <<>> /\ e.item = Head(pausing)
<1>0. ASSUME appends # <<>>, Land, Head(appends).event.type \in QueueTypes
      PROVE  Head(appends).event \in QueueEvents /\ log' = Append(log, Head(appends).event)
  <2>1. LET e == Head(appends).event IN e.type \in QueueTypes => Continues(log, e)
    BY <1>0, HeadContinues
  <2> QED
    BY <1>0, <2>1, LifecycleLands DEF Continues
<1>1. ASSUME NEW i \in Items, Enqueued(i)
      PROVE  \E e \in QueueEvents :
                log' = Append(log, e) /\ e = Head(appends).event /\ e.type = "enqueued" /\ e.item = i
  <2>1. Heads(i) /\ Land /\ pc[i] = "recording" /\ appends # <<>>
    BY <1>1 DEF Enqueued, MutationLanded, StageInv, Heads
  <2>2. PICK front \in BOOLEAN : Head(appends).event = QueueEvent("enqueued", i, i, front)
    BY <2>1, HeadKinds
  <2>3. Head(appends).event.type = "enqueued" /\ Head(appends).event.item = i
    BY <2>2 DEF QueueEvent, Event
  <2> QED
    BY <1>0, <2>1, <2>3 DEF QueueTypes
<1>2. ASSUME NEW q \in Requeues, Requeued(q)
      PROVE  \E e \in QueueEvents :
                log' = Append(log, e) /\ e = Head(appends).event /\ e.type = "requeued" /\ e.item \in Items
  <2>1. Heads(q) /\ Land /\ appends # <<>>
    BY <1>2 DEF Requeued, MutationLanded, Heads
  <2>2. PICK i \in Items, front \in BOOLEAN : Head(appends).event = QueueEvent("requeued", q, i, front)
    BY <2>1, HeadKinds
  <2>3. Head(appends).event.type = "requeued" /\ Head(appends).event.item = i
    BY <2>2 DEF QueueEvent, Event
  <2> QED
    BY <1>0, <2>1, <2>3 DEF QueueTypes
<1>3. ASSUME NEW x \in Restores, Restored(x)
      PROVE  \E e \in QueueEvents : log' = Append(log, e) /\ e = Head(appends).event /\ e.type = "restored"
  <2>1. Heads(x) /\ Land /\ appends # <<>>
    BY <1>3 DEF Restored, MutationLanded, Heads
  <2>2. PICK items \in SUBSET Items : Head(appends).event = RestoredEvent(x, items)
    BY <2>1, HeadKinds
  <2>3. Head(appends).event.type = "restored"
    BY <2>2 DEF RestoredEvent, Event
  <2> QED
    BY <1>0, <2>1, <2>3 DEF QueueTypes
<1>4. ASSUME DrainSends
      PROVE  \E e \in QueueEvents :
                log' = Append(log, e) /\ e = Head(appends).event /\ e.type = "started" /\ e.item = drain.op
  <2>1. Heads("drain") /\ Land /\ appends # <<>> /\ drain.at = "starting"
    BY <1>4 DEF DrainSends, Heads
  <2>2. PICK i : i = drain.op
    OBVIOUS
  <2>3. Head(appends).event = QueueEvent("started", i, i, FALSE)
    BY <2>1, <2>2, HeadKinds
  <2>4. Head(appends).event.type = "started" /\ Head(appends).event.item = i
    BY <2>3 DEF QueueEvent, Event
  <2> QED
    BY <1>0, <2>1, <2>2, <2>4 DEF QueueTypes
<1>5. ASSUME Paused
      PROVE  \E e \in QueueEvents :
                /\ log' = Append(log, e) /\ e = Head(appends).event /\ e.type = "paused"
                /\ pausing # <<>> /\ e.item = Head(pausing)
  <2>1. Heads("resume") /\ Land /\ appends # <<>>
    BY <1>5 DEF Paused, Heads
  <2>2. PICK i : i = Head(pausing)
    OBVIOUS
  <2>3. pausing # <<>> /\ Head(appends).event = QueueEvent("paused", i, i, FALSE)
    BY <2>1, <2>2, HeadKinds
  <2>4. Head(appends).event.type = "paused" /\ Head(appends).event.item = i
    BY <2>3 DEF QueueEvent, Event
  <2> QED
    BY <1>0, <2>1, <2>2, <2>3, <2>4 DEF QueueTypes
<1> QED
    BY <1>1, <1>2, <1>3, <1>4, <1>5

-----------------------------------------------------------------------------
(* The queue in memory is the queue that the events leave *)

\* restoreQueue finds every item that is pending, unless one was handed back before.
LEMMA QueuedRestorable ==
    ASSUME WellFormed(log), NoReturn, NEW i \in Items, Queued(log, i)
    PROVE  i \in Restorable
<1>0. Len(log) \in Nat
    BY DEF WellFormed
<1>1. PICK m \in 1..Len(log) :
         /\ Names(log[m], {"enqueued", "requeued"}, i)
         /\ \A k \in (m + 1)..Len(log) :
               /\ ~Names(log[k], {"paused", "started"}, i)
               /\ ~(log[k].type = "restored" /\ i \in log[k].items)
    BY DEF Queued
<1>2. PICK n \in 1..Len(log) : Names(log[n], {"enqueued"}, i)
  <2>1. Recorded(log, i)
    BY LogSays
  <2> QED
    BY <2>1 DEF Recorded
<1>3. \A j, k \in 1..Len(log) : /\ j = k \/ k \in (j + 1)..Len(log) \/ j \in (k + 1)..Len(log)
                                /\ k \in (j + 1)..Len(log) => j \in 1..(k - 1)
    BY <1>0
<1>4. ASSUME NEW k \in (n + 1)..Len(log), Names(log[k], {"started"}, i)  PROVE FALSE
  <2>1. k \in 1..Len(log) /\ m # k
    BY <1>0, <1>1, <1>4 DEF Names
  <2>2. CASE k \in (m + 1)..Len(log)
    BY <1>1, <1>4, <2>2 DEF Names
  <2>3. CASE m \in (k + 1)..Len(log)
    BY <1>1, <1>4, <2>1, <2>3 DEF WellFormed, Names, Lifecycle
  <2> QED
    BY <1>3, <2>1, <2>2, <2>3
<1>5. ASSUME NEW k \in (n + 1)..Len(log), log[k].type = "restored", i \in log[k].items  PROVE FALSE
  <2>1. k \in 1..Len(log) /\ m # k
    BY <1>0, <1>1, <1>5 DEF Names
  <2>2. log[m].type # "requeued"
    BY <1>1, <1>5, <2>1 DEF NoReturn, Names
  <2>3. log[m].type = "enqueued" /\ log[m].item = i
    BY <1>1, <2>2 DEF Names
  <2>4. CASE n = m
    BY <1>1, <1>5, <2>4
  <2>5. CASE n \in (m + 1)..Len(log)
    <3>1. log[n].type = "enqueued" /\ m \in 1..(n - 1) /\ Names(log[m], Lifecycle, log[n].item)
      BY <1>2, <1>3, <2>3, <2>5 DEF Names, Lifecycle
    <3> QED
      BY <3>1 DEF WellFormed
  <2>6. CASE m \in (n + 1)..Len(log)
    <3>1. log[m].type = "enqueued" /\ n \in 1..(m - 1) /\ Names(log[n], Lifecycle, log[m].item)
      BY <1>2, <1>3, <2>3, <2>6 DEF Names, Lifecycle
    <3> QED
      BY <3>1 DEF WellFormed
  <2> QED
    BY <1>3, <2>4, <2>5, <2>6
<1> QED
    BY <1>2, <1>4, <1>5 DEF Restorable, Names

\* Every step changes the queue in memory as its event changes the one that is derived
\* (enqueue, requeue, restoreQueue, drainQueue, pauseRecoveredQueue).
LEMMA MatchStep ==
    ASSUME TypeOK, StageInv, DrainInv, DownInv, FlightInv, QueueInv, MatchInv, Next
    PROVE  MatchInv'
<1>0. pc \in [Ops -> Stages] /\ queue \in Seq(Items) /\ pausing \in Seq(Items) /\ log \in Seq(QueueEvents)
    BY DEF TypeOK, QueueInv, WellFormed
<1>p. PICK p \in Seq(Items) : p = PendingIn(log) /\ IsInjective(p) /\ \A i \in ToSet(p) : Queued(log, i)
    BY <1>0, PendingQueued
<1>g. PICK gone : gone = ToSet(pausing) \cup Starting
    OBVIOUS
<1>m. phase # "down" /\ ~disposing /\ NoReturn =>
         /\ queue = Without(p, gone)
         /\ \A a \in ToSet(appends) : a.event.type = "restored" => ToSet(p) \subseteq a.event.items
    BY <1>g, <1>p DEF MatchInv, Pending
<1>k. mutation' \in Items \cup {mutation, None} => \A a \in ToSet(appends') : a \in ToSet(appends) \/ a.event.type # "restored"
    BY NewAppends
<1>n. ASSUME NEW e \in QueueEvents, log' = Append(log, e)
      PROVE  PendingIn(log') = RecoverStep(p, e) /\ (NoReturn' => NoReturn)
  <2>1. PendingIn(log') = RecoverStep(p, e)
    BY <1>0, <1>n, <1>p, PendingAppend
  <2>2. \A n \in 1..Len(log) : n \in 1..Len(log') /\ log'[n] = log[n]
    BY <1>0, <1>n
  <2> QED
    BY <2>1, <2>2 DEF NoReturn
<1>o. mutation \notin Restores => \A a \in ToSet(appends) : a.event.type # "restored"
  <2>1. \A a \in ToSet(appends) : Awaits(a.by, a.event)
    BY DEF FlightInv
  <2>2. ASSUME NEW a, Awaits(a.by, a.event), a.event.type = "restored"  PROVE mutation = a.by /\ a.by \in Restores
    BY <2>2, AwaitsKinds DEF StageInv
  <2> QED
    BY <2>1, <2>2
<1>t. appends # <<>> => ToSet(Tail(appends)) \subseteq ToSet(appends)
  <2> DEFINE E == [by : Ops \cup {"drain", "resume"}, event : Events(QueueTypes \cup MarkTypes)]
  <2>1. appends \in Seq(E)
    BY DEF TypeOK
  <2> HIDE DEF E
  <2> QED
    BY <2>1, HeadIn
<1>d. At("failing", drain.op).at = "failing" /\ Loop.at = "loop" /\ Idle.at = "idle"
    BY DEF At, Loop, Idle
<1>e. ToSet(<<>>) = {}
    BY DEF ToSet
<1>a. ASSUME log' = log, queue' = queue, pausing' = pausing,
             drain' = drain \/ (drain.at # "starting" /\ drain'.at # "starting"),
             \A a \in ToSet(appends') : a \in ToSet(appends) \/ a.event.type # "restored",
             phase' # "down" /\ ~disposing' => phase # "down" /\ ~disposing
      PROVE  MatchInv'
  <2>1. Starting' = Starting /\ Pending' = p /\ (NoReturn' => NoReturn)
    BY <1>a, <1>p DEF Starting, Pending, NoReturn
  <2> QED
    BY <1>a, <1>g, <1>m, <2>1 DEF MatchInv
<1>q. UNCHANGED <<log, queue, pausing, mutation, drain, phase, disposing>> => MatchInv'
    BY <1>a, <1>k
<1>1. ASSUME \/ \E x \in Interrupts : InterruptAccepted(x)
             \/ \E x \in Prompts : Send(x)
             \/ \E d \in Deliveries : Reserve(d)
             \/ \E c \in Compactions : Compact(c)
             \/ \E c \in Compactions : CompactLater(c)
             \/ \E s \in Shells : Shell(s)
             \/ \E r \in Reloads : Reload(r)
             \/ \E r \in Reloads : ReloadLater(r)
             \/ \E x \in Interrupts : Interrupt(x)
             \/ \E o \in Turns : Claim(o)
             \/ \E o \in Turns : Intercepted(o)
             \/ \E o \in Turns \cup Compactions \cup Shells : Stop(o)
             \/ \E s \in Shells : ShellRuns(s)
             \/ \E s \in Shells : ShellRefused(s)
             \/ \E c \in Compactions : CompactionUnqueued(c)
             \/ \E r \in Reloads : Rebuild(r)
      PROVE  MatchInv'
    BY <1>1, <1>q
    DEF InterruptAccepted, Send, Reserve, Compact, CompactLater, Shell, Reload, ReloadLater,
        Interrupt, Claim, Intercepted, Stop, ShellRuns, ShellRefused, CompactionUnqueued, Rebuild,
        Mutate, MutationLanded, Fault
<1>2. ASSUME NEW i \in Items, NEW front \in Fronts, Enqueue(i, front)  PROVE MatchInv'
  <2>1. mutation' = i /\ UNCHANGED <<log, queue, pausing, phase, disposing, drain>>
    BY <1>2 DEF Enqueue, Mutate
  <2> QED
    BY <1>a, <1>k, <2>1
<1>3. ASSUME NEW q \in Requeues, NEW i \in Items, NEW front \in Fronts, Requeue(q, i, front)  PROVE MatchInv'
  <2>1. appends' = Append(appends, Entry(q, QueueEvent("requeued", q, i, front))) /\ front \in BOOLEAN
    BY <1>3, SessionAssumption DEF Requeue, Mutate
  <2> DEFINE E == [by : Ops \cup {"drain", "resume"}, event : Events(QueueTypes \cup MarkTypes)]
             a == Entry(q, QueueEvent("requeued", q, i, front))
  <2>2. appends \in Seq(E)
    BY DEF TypeOK
  <2>3. a \in E
    <3>1. QueueEvent("requeued", q, i, front) \in Events(QueueTypes \cup MarkTypes)
      BY <2>1, EventTypes, OneKind DEF QueueTypes
    <3> QED
      BY <3>1, OneKind DEF Entry
  <2>4. a.event.type = "requeued"
    BY DEF Entry, QueueEvent, Event
  <2> HIDE DEF E, a
  <2>5. ToSet(appends') = ToSet(appends) \cup {a}
    BY <2>1, <2>2, <2>3, ElemsAppend DEF a
  <2>6. UNCHANGED <<log, queue, pausing, phase, disposing, drain>>
    BY <1>3 DEF Requeue, Mutate
  <2> QED
    BY <1>a, <2>4, <2>5, <2>6
<1>4. ASSUME NEW x \in Restores, Restore(x)  PROVE MatchInv'
  <2>1. /\ appends' = Append(appends, Entry(x, RestoredEvent(x, Restorable))) /\ Restorable \in SUBSET Items
        /\ UNCHANGED <<log, queue, pausing, drain, phase, disposing>>
    BY <1>4 DEF Restore, Mutate, Restorable
  <2>2. PICK given \in SUBSET Items : given = Restorable
    BY <2>1
  <2> DEFINE E == [by : Ops \cup {"drain", "resume"}, event : Events(QueueTypes \cup MarkTypes)]
             a == Entry(x, RestoredEvent(x, given))
  <2>3. appends \in Seq(E)
    BY DEF TypeOK
  <2>4. a \in E
    <3>1. RestoredEvent(x, given) \in Events(QueueTypes \cup MarkTypes)
      BY EventTypes, OneKind
    <3> QED
      BY <3>1, OneKind DEF Entry
  <2>5. a.event.items = given
    BY DEF Entry, RestoredEvent, Event
  <2> HIDE DEF E, a
  <2>6. ToSet(appends') = ToSet(appends) \cup {a}
    BY <2>1, <2>2, <2>3, <2>4, ElemsAppend DEF a
  <2>7. NoReturn => ToSet(p) \subseteq given
    <3>1. WellFormed(log) /\ \A i \in ToSet(p) : i \in Items
      BY <1>p, ElemsEmpty DEF QueueInv
    <3> QED
      BY <1>p, <2>2, <3>1, QueuedRestorable
  <2>8. Starting' = Starting /\ Pending' = p /\ (NoReturn' => NoReturn)
    BY <1>p, <2>1 DEF Starting, Pending, NoReturn
  <2> QED
    BY <1>g, <1>m, <2>1, <2>5, <2>6, <2>7, <2>8 DEF MatchInv
<1>5. ASSUME NEW i \in Items, Enqueued(i)  PROVE MatchInv'
  <2>1. PICK e \in QueueEvents : log' = Append(log, e) /\ e = Head(appends).event /\ e.type = "enqueued" /\ e.item = i
    BY <1>5, ChangesLand
  <2>2. /\ mutation = i /\ appends # <<>> /\ appends' = Tail(appends)
        /\ queue' = IF e.front THEN <<i>> \o queue ELSE Append(queue, i)
    BY <1>5, <2>1 DEF Enqueued, MutationLanded, Heads
  <2>3. ~Recorded(log, i)
    BY <2>2 DEF StageInv, QueueInv
  <2>4. i \notin ToSet(p) /\ i \notin gone
    <3>1. \A j \in ToSet(p) \cup gone : Waits(log, j)
      BY <1>g, <1>p, LogSays DEF QueueInv, Held
    <3> QED
      BY <2>3, <3>1, LogSays DEF QueueInv
  <2>5. p = Without(p, {i})
    BY <1>p, <2>4, WithoutElems
  <2>6. PendingIn(log') = IF e.front THEN <<i>> \o p ELSE Append(p, i)
    BY <1>n, <2>1, <2>5 DEF RecoverStep, Insert
  <2>7. Without(PendingIn(log'), gone) = IF e.front THEN <<i>> \o Without(p, gone) ELSE Append(Without(p, gone), i)
    <3>1. Without(<<i>> \o p, gone) = <<i>> \o Without(p, gone)
      BY <1>p, <2>4, WithoutFront
    <3>2. Without(Append(p, i), gone) = Append(Without(p, gone), i)
      BY <1>p, <2>4, WithoutAppend
    <3> QED
      BY <2>6, <3>1, <3>2
  <2>8. drain' = drain \/ (drain.at = "idle" /\ drain' = Loop)
    BY <1>5, DrainWakes DEF Enqueued
  <2>9. Starting' = Starting /\ UNCHANGED <<pausing, phase, disposing>>
    BY <1>5, <1>d, <2>8 DEF Starting, Enqueued
  <2>10. \A a \in ToSet(appends') : a.event.type # "restored"
    BY <1>o, <1>t, <2>2, OneKind
  <2> QED
    BY <1>g, <1>m, <1>n, <2>1, <2>2, <2>7, <2>9, <2>10 DEF MatchInv, Pending
<1>6. ASSUME NEW q \in Requeues, Requeued(q)  PROVE MatchInv'
  <2>0. PICK e \in QueueEvents : log' = Append(log, e) /\ e = Head(appends).event /\ e.type = "requeued" /\ e.item \in Items
    BY <1>6, ChangesLand
  <2>1. PICK i \in Items : i = e.item /\ log' = Append(log, e) /\ e.type = "requeued"
    BY <2>0
  <2>2. /\ mutation = q /\ appends # <<>> /\ appends' = Tail(appends) /\ Heads(q)
        /\ queue' = IF e.front THEN <<i>> \o queue ELSE Append(queue, i)
    BY <1>6, <2>0, <2>1 DEF Requeued, MutationLanded, Heads
  <2>3. IsPaused(log, i)
    BY <2>0, <2>1, <2>2, HeadAwaits DEF QueueInv
  <2>4. i \notin ToSet(p) /\ i \notin gone
    <3>1. \A j \in ToSet(p) \cup gone : Waits(log, j)
      BY <1>g, <1>p, LogSays DEF QueueInv, Held
    <3> QED
      BY <2>3, <3>1, LogSays DEF QueueInv
  <2>5. p = Without(p, {i})
    BY <1>p, <2>4, WithoutElems
  <2>6. PendingIn(log') = IF e.front THEN <<i>> \o p ELSE Append(p, i)
    BY <1>n, <2>1, <2>5 DEF RecoverStep, Insert
  <2>7. Without(PendingIn(log'), gone) = IF e.front THEN <<i>> \o Without(p, gone) ELSE Append(Without(p, gone), i)
    <3>1. Without(<<i>> \o p, gone) = <<i>> \o Without(p, gone)
      BY <1>p, <2>4, WithoutFront
    <3>2. Without(Append(p, i), gone) = Append(Without(p, gone), i)
      BY <1>p, <2>4, WithoutAppend
    <3> QED
      BY <2>6, <3>1, <3>2
  <2>8. drain' = drain \/ (drain.at = "idle" /\ drain' = Loop)
    BY <1>6, DrainWakes DEF Requeued
  <2>9. Starting' = Starting /\ UNCHANGED <<pausing, phase, disposing>>
    BY <1>6, <1>d, <2>8 DEF Starting, Requeued
  <2>10. \A a \in ToSet(appends') : a.event.type # "restored"
    BY <1>o, <1>t, <2>2, OneKind
  <2> QED
    BY <1>g, <1>m, <1>n, <2>1, <2>2, <2>7, <2>9, <2>10 DEF MatchInv, Pending
<1>7. ASSUME NEW x \in Restores, Restored(x)  PROVE MatchInv'
  <2>1. PICK e \in QueueEvents : log' = Append(log, e) /\ e = Head(appends).event /\ e.type = "restored"
    BY <1>7, ChangesLand
  <2>2. Heads(x) /\ queue' = <<>> /\ UNCHANGED <<phase, disposing>>
    BY <1>7 DEF Restored, MutationLanded
  <2>3. Head(appends) \in ToSet(appends)
    BY <2>2, HeadAwaits
  <2>4. phase # "down" /\ ~disposing /\ NoReturn => PendingIn(log') = <<>>
    <3>1. PendingIn(log') = Without(p, e.items)
      BY <1>n, <2>1 DEF RecoverStep
    <3> QED
      BY <1>m, <1>p, <2>1, <2>3, <3>1, WithoutAll
  <2>5. \A s : Without(<<>>, s) = <<>>
    BY WithoutNone
  <2> QED
    BY <1>e, <1>n, <2>1, <2>2, <2>4, <2>5 DEF MatchInv, Pending
<1>8. ASSUME NEW o \in Turns \cup Compactions \cup Shells, Gives(o)  PROVE MatchInv'
  <2>1. /\ drain' \in IF drain.op = o THEN IF pc'[o] \in {"failed", "failing"} THEN {At("failing", o)} ELSE {Loop}
                      ELSE IF drain.at = "idle" THEN {drain, Loop} ELSE {drain}
        /\ UNCHANGED <<queue, pausing, mutation, phase, disposing>>
        /\ o \in Ops /\ pc[o] \in {"claiming", "intercepting", "messaging", "ending"}
    BY <1>8, GivesStages, GivesBranch
  <2>2. log' = log
    BY <1>8, MarksOnly
  <2>3. drain.op = o => drain.at # "starting"
    BY <2>1 DEF DrainInv, Placed
  <2>4. drain' = drain \/ (drain.at # "starting" /\ drain'.at # "starting")
    BY <2>1, <2>3 DEF At, Loop
  <2> QED
    BY <1>a, <1>k, <2>1, <2>2, <2>4
<1>9. ASSUME NEW o \in Turns, Messaged(o)  PROVE MatchInv'
  <2>1. log' = log
    BY <1>9, MarksOnly
  <2>2. UNCHANGED <<queue, pausing, mutation, phase, disposing, drain>>
    BY <1>9 DEF Messaged
  <2> QED
    BY <1>a, <1>k, <2>1, <2>2
<1>10. ASSUME NEW c \in Compactions, CompactionQueued(c)  PROVE MatchInv'
  <2>1. log' = log
    BY <1>10, MarksOnly
  <2>2. UNCHANGED <<queue, pausing, mutation, phase, disposing, drain>>
    BY <1>10 DEF CompactionQueued
  <2> QED
    BY <1>a, <1>k, <2>1, <2>2
<1>11. ASSUME NEW r \in Reloads, Rebuilt(r)  PROVE MatchInv'
  <2>1. /\ UNCHANGED <<log, queue, pausing, mutation, disposing>> /\ (phase' # "down" => phase # "down")
        /\ drain' = drain \/ (drain.op = r /\ drain' = Loop) \/ (drain.op = r /\ drain' = At("failing", r))
    BY <1>11 DEF Rebuilt
  <2>2. drain.op = r => drain.at # "starting"
    BY <1>11, OneKind DEF DrainInv, Placed
  <2>3. drain' = drain \/ (drain.at # "starting" /\ drain'.at # "starting")
    BY <2>1, <2>2 DEF At, Loop
  <2> QED
    BY <1>a, <1>k, <2>1, <2>3
<1>12. ASSUME DrainStops  PROVE MatchInv'
  <2>1. /\ UNCHANGED <<log, queue, pausing, mutation, phase, disposing>>
        /\ drain.at = "loop" /\ drain'.at \in {"idle", "compacting", "reloading"}
    BY <1>12, <1>d DEF DrainStops, At
  <2> QED
    BY <1>a, <1>k, <2>1
<1>13. ASSUME DrainCompacts  PROVE MatchInv'
  <2>1. /\ UNCHANGED <<log, queue, pausing, mutation, phase, disposing>>
        /\ drain.at = "loop" /\ drain'.at \in {"idle", "compacting", "reloading"}
    BY <1>13, <1>d DEF DrainCompacts, At
  <2> QED
    BY <1>a, <1>k, <2>1
<1>14. ASSUME DrainReloads  PROVE MatchInv'
  <2>1. /\ UNCHANGED <<log, queue, pausing, mutation, phase, disposing>>
        /\ drain.at = "loop" /\ drain'.at \in {"idle", "compacting", "reloading"}
    BY <1>14, <1>d DEF DrainReloads, At
  <2> QED
    BY <1>a, <1>k, <2>1
<1>15. ASSUME DrainStarts  PROVE MatchInv'
  <2>1. PICK h \in Items : h = Head(queue) /\ h \notin ToSet(Tail(queue)) /\ Tail(queue) \in Seq(Items) /\ queue = <<h>> \o Tail(queue)
    BY <1>15, <1>0, ElemsTail DEF DrainStarts, QueueInv
  <2>2. /\ queue' = Tail(queue) /\ drain' = At("starting", h) /\ drain.at = "loop"
        /\ UNCHANGED <<log, pausing, phase, disposing, mutation>>
    BY <1>15, <2>1 DEF DrainStarts
  <2>3. Starting = {} /\ Starting' = {h}
    BY <2>2 DEF Starting, At
  <2>4. Without(p, gone \cup {h}) = Without(Without(p, gone), {h})
    BY <1>p, WithoutTwice
  <2>5. Without(queue, {h}) = Tail(queue)
    <3> DEFINE r == Tail(queue)
    <3>1. r \in Seq(Items) /\ h \notin ToSet(r) /\ queue = <<h>> \o r
      BY <2>1
    <3> HIDE DEF r
    <3>2. Without(<<h>> \o r, {h}) = Without(r, {h})
      BY <3>1, WithoutFront
    <3>3. ToSet(r) \cap {h} = {}
      BY <3>1
    <3>4. Without(r, {h}) = r
      BY <3>1, <3>3, WithoutElems
    <3> QED
      BY <3>1, <3>2, <3>4 DEF r
  <2>6. Pending' = p /\ (NoReturn' => NoReturn) /\ ToSet(pausing') \cup Starting' = gone \cup {h}
    BY <1>g, <1>p, <2>2, <2>3 DEF Pending, NoReturn
  <2> QED
    BY <1>k, <1>m, <2>2, <2>4, <2>5, <2>6 DEF MatchInv
<1>16. ASSUME DrainSends  PROVE MatchInv'
  <2>1. PICK e \in QueueEvents : log' = Append(log, e) /\ e.type = "started" /\ e.item = drain.op
    BY <1>16, ChangesLand
  <2>2. /\ drain.at = "starting" /\ drain' = At("sending", drain.op) /\ appends # <<>> /\ appends' = Tail(appends)
        /\ UNCHANGED <<queue, pausing, phase, disposing>>
    BY <1>16 DEF DrainSends, Heads
  <2>3. Starting = {drain.op} /\ Starting' = {}
    BY <2>2 DEF Starting, At
  <2>4. PendingIn(log') = Without(p, {drain.op})
    BY <1>n, <2>1 DEF RecoverStep
  <2>5. Without(Without(p, {drain.op}), ToSet(pausing)) = Without(p, {drain.op} \cup ToSet(pausing))
    BY <1>p, WithoutTwice
  <2>6. {drain.op} \cup ToSet(pausing) = gone /\ ToSet(pausing') \cup Starting' = ToSet(pausing)
    BY <1>g, <2>2, <2>3
  <2>7. ToSet(Without(p, {drain.op})) \subseteq ToSet(p)
    BY <1>p, WithoutElems
  <2> QED
    BY <1>m, <1>n, <1>t, <2>1, <2>2, <2>4, <2>5, <2>6, <2>7 DEF MatchInv, Pending
<1>17. ASSUME DrainRecorded  PROVE MatchInv'
  <2>1. log' = log
    BY <1>17, MarksOnly
  <2>2. UNCHANGED <<queue, pausing, mutation, phase, disposing>> /\ drain.at = "failing" /\ drain' = Loop
    BY <1>17 DEF DrainRecorded
  <2> QED
    BY <1>a, <1>d, <1>k, <2>1, <2>2
<1>18. ASSUME DrainBreaks  PROVE MatchInv'
  <2>1. disposing'
    BY <1>18 DEF DrainBreaks
  <2> QED
    BY <2>1 DEF MatchInv
<1>19. ASSUME NEW d \in Deliveries, Delivers(d)  PROVE MatchInv'
  <2>1. /\ drain' = drain \/ (drain.at = "idle" /\ drain' = Loop)
        /\ UNCHANGED <<queue, pausing, mutation, phase, disposing>>
    BY <1>19, DeliveryGoesOn
  <2>2. log' = log
    BY <1>19, MarksOnly
  <2> QED
    BY <1>a, <1>d, <1>k, <2>1, <2>2
<1>20. ASSUME NEW o \in Items \cup Requeues \cup Restores, MutationFails(o)  PROVE MatchInv'
  <2>1. mutation' = None /\ UNCHANGED <<log, queue, pausing, phase, disposing>>
    BY <1>20 DEF MutationFails, Fault
  <2>2. drain' = drain \/ (drain.at = "idle" /\ drain' = Loop)
    BY <1>20, DrainWakes DEF MutationFails
  <2> QED
    BY <1>a, <1>d, <1>k, <2>1, <2>2
<1>21. ASSUME Dispose  PROVE MatchInv'
  <2>1. /\ UNCHANGED <<log, queue, pausing, mutation, drain>>
        /\ phase' # "down" /\ ~disposing' => phase # "down" /\ ~disposing
    BY <1>21 DEF Dispose
  <2> QED
    BY <1>a, <1>k, <2>1
<1>22. ASSUME DisposeAborts  PROVE MatchInv'
  <2>1. /\ UNCHANGED <<log, queue, pausing, mutation, drain>>
        /\ phase' # "down" /\ ~disposing' => phase # "down" /\ ~disposing
    BY <1>22 DEF DisposeAborts
  <2> QED
    BY <1>a, <1>k, <2>1
<1>23. ASSUME DisposeWaited  PROVE MatchInv'
  <2>1. /\ UNCHANGED <<log, queue, pausing, mutation, drain>>
        /\ phase' # "down" /\ ~disposing' => phase # "down" /\ ~disposing
    BY <1>23 DEF DisposeWaited
  <2> QED
    BY <1>a, <1>k, <2>1
<1>24. ASSUME Disposed  PROVE MatchInv'
  <2>1. /\ UNCHANGED <<log, queue, pausing, mutation, drain>>
        /\ phase' # "down" /\ ~disposing' => phase # "down" /\ ~disposing
    BY <1>24 DEF Disposed
  <2> QED
    BY <1>a, <1>k, <2>1
<1>25. ASSUME BeginShutdown  PROVE MatchInv'
  <2>1. /\ UNCHANGED <<log, queue, pausing, mutation, drain>>
        /\ phase' # "down" /\ ~disposing' => phase # "down" /\ ~disposing
    BY <1>25 DEF BeginShutdown
  <2> QED
    BY <1>a, <1>k, <2>1
<1>26. ASSUME Crash  PROVE MatchInv'
  <2>1. phase' = "down"
    BY <1>26 DEF Crash
  <2> QED
    BY <2>1 DEF MatchInv
<1>27. ASSUME Resume  PROVE MatchInv'
  <2>1. /\ phase = "down" /\ pausing' = p /\ UNCHANGED <<queue, drain, log, mutation>>
    BY <1>27, <1>p DEF Resume, Pending
  <2>2. queue = <<>> /\ appends = <<>>
    BY <2>1 DEF DownInv
  <2>3. PICK left : left = ToSet(pausing') \cup Starting' /\ ToSet(p) \subseteq left
    BY <2>1
  <2>4. Without(p, left) = <<>>
    BY <1>p, <2>3, WithoutAll
  <2>5. \A a \in ToSet(appends') : a.event.type # "restored"
    BY <1>e, <1>k, <2>1, <2>2
  <2>6. Pending' = p
    BY <1>p, <2>1 DEF Pending
  <2> QED
    BY <2>1, <2>2, <2>3, <2>4, <2>5, <2>6 DEF MatchInv
<1>28. ASSUME Paused  PROVE MatchInv'
  <2>1. PICK e \in QueueEvents : log' = Append(log, e) /\ e.type = "paused" /\ pausing # <<>> /\ e.item = Head(pausing)
    BY <1>28, ChangesLand
  <2>2. UNCHANGED <<drain, queue, phase, disposing, mutation>> /\ pausing' = Tail(pausing)
    BY <1>28 DEF Paused
  <2>3. PICK h : h = Head(pausing)
    OBVIOUS
  <2>4. ToSet(pausing) = ToSet(pausing') \cup {h} /\ Starting' = Starting
    BY <1>0, <2>1, <2>2, <2>3, HeadIn DEF Starting
  <2>5. PICK left : left = ToSet(pausing') \cup Starting'
    OBVIOUS
  <2>6. gone = {h} \cup left
    BY <1>g, <2>4, <2>5
  <2>7. PendingIn(log') = Without(p, {h})
    BY <1>n, <2>1, <2>3 DEF RecoverStep
  <2>8. Without(Without(p, {h}), left) = Without(p, {h} \cup left) /\ ToSet(Without(p, {h})) \subseteq ToSet(p)
    BY <1>p, WithoutTwice, WithoutElems
  <2> QED
    BY <1>k, <1>m, <1>n, <2>1, <2>2, <2>5, <2>6, <2>7, <2>8 DEF MatchInv, Pending
<1>29. Request => MatchInv'
    BY <1>1, <1>2, <1>3, <1>4, Zenon DEF Request
<1>30. Continue => MatchInv'
    BY <1>1, <1>5, <1>6, <1>7, <1>8, <1>9, <1>10, <1>11, <1>16, <1>17, <1>19, <1>22, <1>23, <1>24,
       <1>27, <1>28, Zenon DEF Continue, Gives, Delivers
<1>31. Environment => MatchInv'
    BY <1>1, <1>8, <1>18, <1>19, <1>20, <1>21, <1>25, <1>26, Zenon DEF Environment, Gives, Delivers
<1>32. DrainLoop => MatchInv'
    BY <1>12, <1>13, <1>14, <1>15, Zenon DEF DrainLoop
<1> QED
    BY UrgentTurns, <1>1, <1>8, <1>29, <1>30, <1>31, <1>32, Zenon DEF Next, Works, Gives

-----------------------------------------------------------------------------
(* What an operation has not recorded yet *)

Answers == {"message", "assistant", "error"}
AfterClaim == {"working", "ending"}

\* The events that an operation cannot have left when it is at a stage.
Missing(o, stage) ==
    {type \in MarkTypes :
        \/ stage = "idle"
        \/ type = "message" /\ o \notin Turns
        \/ o \in Turns /\ stage \in BeforeClaim \cup {"intercepting", "messaging"} /\ type \in Answers
        \/ o \in Turns /\ stage \in AfterClaim /\ type \in {"assistant", "error"}
        \/ o \in Deliveries /\ stage \in {"reserved", "requesting"} /\ type \in {"requested", "interrupting"}
        \/ o \in Deliveries /\ stage = "interrupting" /\ type = "interrupting"
        \/ o \in Deliveries /\ stage \in Delivering /\ type \in {"delivered", "undelivered"}
        \/ o \in Shells /\ stage \in {"claiming", "working", "ending"} /\ type \in Answers \cup {"shell"}
        \/ o \in Compactions /\ stage = "recording" /\ type = "compaction.queued"
        \/ /\ o \in Compactions
           /\ stage \in {"recording", "queued", "working", "ending"}
           /\ type \in {"compacted", "compaction.failed"}
        \/ o \in Reloads /\ stage \in {"deciding", "queued", "rebuilding"} /\ type = "error"}

\* The failure that the drain records.
Failure(o) == IF o \in Compactions THEN "compaction.failed" ELSE "error"

MarkInv ==
    /\ ~repeated
    /\ \A o \in Ops : ~Has(o, Missing(o, pc[o]))
    /\ \A i \in Items : ~Started(log, i) => ~Has(i, Answers)
    /\ \A d \in Deliveries : pc[d] = "closing" =>
          /\ Has(target[d], {"message"}) /\ ~Has(target[d], {"assistant"})
          /\ pc[target[d]] \notin Working
    /\ drain.at = "failing" => ~Has(drain.op, {Failure(drain.op)})

\* What an operation has left out shrinks as it goes on: nothing is missing of an idle
\* operation only, and an operation that is over lacks no more than any other.
LEMMA MissingLess ==
    /\ \A o, s : Missing(o, s) \subseteq Missing(o, "idle")
    /\ \A o, s : \A t \in Over : Missing(o, t) \subseteq Missing(o, s)
    /\ \A o \in Turns : /\ Missing(o, "intercepting") \subseteq Missing(o, "claiming")
                        /\ Missing(o, "messaging") \subseteq Missing(o, "intercepting")
                        /\ Missing(o, "working") \subseteq Missing(o, "messaging")
                        /\ Missing(o, "ending") \subseteq Missing(o, "working")
    /\ \A d \in Deliveries :
          /\ Missing(d, "requesting") \subseteq Missing(d, "reserved")
          /\ Missing(d, "interrupting") \subseteq Missing(d, "requesting")
          /\ Missing(d, "waiting") \subseteq Missing(d, "interrupting")
          /\ Missing(d, "closing") \subseteq Missing(d, "interrupting")
          /\ \A s \in BeforeClaim : Missing(d, "claiming") \subseteq Missing(d, s)
          /\ \A s \in Delivering, t \in {"delivering", "failing"} : Missing(d, t) \subseteq Missing(d, s)
    /\ \A i \in Items : Missing(i, "queued") = {} /\ Missing(i, "claiming") \subseteq Answers
    /\ \A o \in Shells \cup Compactions :
          Missing(o, "ending") \subseteq Missing(o, "working")
    /\ \A s \in Shells : Missing(s, "working") \subseteq Missing(s, "claiming")
    /\ \A c \in Compactions : /\ Missing(c, "queued") \subseteq Missing(c, "recording")
                              /\ Missing(c, "working") \subseteq Missing(c, "queued")
    /\ \A r \in Reloads : /\ Missing(r, "rebuilding") \subseteq Missing(r, "deciding")
                          /\ Missing(r, "rebuilding") \subseteq Missing(r, "queued")
<1> USE DEF Missing, Over, BeforeClaim, Working, Delivering, AfterClaim, Answers
<1>1. /\ \A o, s : Missing(o, s) \subseteq Missing(o, "idle")
      /\ \A o, s : \A t \in Over : Missing(o, t) \subseteq Missing(o, s)
    OBVIOUS
<1>2. \A o \in Turns : /\ Missing(o, "intercepting") \subseteq Missing(o, "claiming")
                       /\ Missing(o, "messaging") \subseteq Missing(o, "intercepting")
                       /\ Missing(o, "working") \subseteq Missing(o, "messaging")
                       /\ Missing(o, "ending") \subseteq Missing(o, "working")
    BY OneKind
<1>3. \A d \in Deliveries :
         /\ Missing(d, "requesting") \subseteq Missing(d, "reserved")
         /\ Missing(d, "interrupting") \subseteq Missing(d, "requesting")
         /\ Missing(d, "waiting") \subseteq Missing(d, "interrupting")
         /\ Missing(d, "closing") \subseteq Missing(d, "interrupting")
    BY OneKind
<1>4. \A d \in Deliveries :
         /\ \A s \in BeforeClaim : Missing(d, "claiming") \subseteq Missing(d, s)
         /\ \A s \in Delivering, t \in {"delivering", "failing"} : Missing(d, t) \subseteq Missing(d, s)
    BY OneKind
<1>5. \A i \in Items : Missing(i, "queued") = {} /\ Missing(i, "claiming") \subseteq Answers
    BY OneKind
<1>6. /\ \A o \in Shells \cup Compactions : Missing(o, "ending") \subseteq Missing(o, "working")
      /\ \A s \in Shells : Missing(s, "working") \subseteq Missing(s, "claiming")
    BY OneKind
<1>7. /\ \A c \in Compactions : /\ Missing(c, "queued") \subseteq Missing(c, "recording")
                                /\ Missing(c, "working") \subseteq Missing(c, "queued")
      /\ \A r \in Reloads : /\ Missing(r, "rebuilding") \subseteq Missing(r, "deciding")
                            /\ Missing(r, "rebuilding") \subseteq Missing(r, "queued")
    BY OneKind
<1> HIDE DEF Missing, Over, BeforeClaim, Working, Delivering, AfterClaim, Answers
<1> QED
    BY <1>1, <1>2, <1>3, <1>4, <1>5, <1>6, <1>7

\* No step makes an operation owe an event that it may have left, but for an item that
\* the drain sends; and a turn gets to work by its claim.
LEMMA MissingMoves ==
    ASSUME TypeOK, StageInv, DrainInv, FlightInv, QueueInv, Next
    PROVE  \A o \in Ops :
              /\ \/ Missing(o, pc'[o]) \subseteq Missing(o, pc[o])
                 \/ drain.at = "starting" /\ drain.op = o /\ o \in Items /\ pc'[o] = "claiming"
              /\ o \in Turns /\ pc'[o] \in Working => pc[o] \in Working \cup {"claiming"}
<1> DEFINE Moves == \A o \in Ops :
              /\ \/ Missing(o, pc'[o]) \subseteq Missing(o, pc[o])
                 \/ drain.at = "starting" /\ drain.op = o /\ o \in Items /\ pc'[o] = "claiming"
              /\ o \in Turns /\ pc'[o] \in Working => pc[o] \in Working \cup {"claiming"}
<1> SUFFICES Moves
    OBVIOUS
<1>0. pc \in [Ops -> Stages]
    BY DEF TypeOK
<1>a. ASSUME NEW x \in Ops, NEW s, pc' = [pc EXCEPT ![x] = s], Missing(x, s) \subseteq Missing(x, pc[x]),
             x \in Turns /\ s \in Working => pc[x] \in Working \cup {"claiming"}
      PROVE  Moves
    BY <1>0, <1>a
<1>b. ASSUME NEW x \in Ops, NEW s, pc' = [pc EXCEPT ![x] = s], pc[x] = "idle" \/ s \in Over,
             s \notin Working \/ x \notin Turns
      PROVE  Moves
  <2>1. Missing(x, s) \subseteq Missing(x, pc[x])
    BY <1>b, MissingLess
  <2>2. x \in Turns /\ s \in Working => pc[x] \in Working \cup {"claiming"}
    BY <1>b
  <2> QED
    BY <1>a, <1>b, <2>1, <2>2
<1>c. ASSUME pc' = pc  PROVE Moves
    BY <1>c
<1>1. ASSUME \/ Dispose \/ DisposeAborts \/ DisposeWaited \/ Disposed \/ BeginShutdown \/ DrainStops
             \/ DrainStarts \/ DrainRecorded \/ Resume \/ Paused
      PROVE  Moves
    BY <1>1, <1>c
    DEF Dispose, DisposeAborts, DisposeWaited, Disposed, BeginShutdown, DrainStops, DrainStarts,
        DrainRecorded, Resume, Paused
<1>2. ASSUME \/ \E i \in Items, front \in Fronts : Enqueue(i, front)
             \/ \E q \in Requeues, i \in Items, front \in Fronts : Requeue(q, i, front)
             \/ \E x \in Restores : Restore(x)
             \/ \E x \in Interrupts : InterruptAccepted(x)
             \/ \E p \in Prompts : Send(p)
             \/ \E d \in Deliveries : Reserve(d)
             \/ \E c \in Compactions : CompactLater(c)
             \/ \E s \in Shells : Shell(s)
             \/ \E r \in Reloads : Reload(r)
             \/ \E r \in Reloads : ReloadLater(r)
      PROVE  Moves
    BY <1>2, <1>b, OneKind
    DEF Enqueue, Requeue, Restore, InterruptAccepted, Send, Reserve, CompactLater, Shell, Reload,
        ReloadLater, Mutate, Called, Working
<1>3. ASSUME \/ \E x \in Restores : Restored(x)
             \/ \E x \in Interrupts : Interrupt(x)
             \/ \E s \in Shells : ShellRefused(s)
             \/ \E c \in Compactions : CompactionUnqueued(c)
             \/ \E o \in Items \cup Requeues \cup Restores : MutationFails(o)
      PROVE  Moves
    BY <1>3, <1>b, OneKind
    DEF Restored, Interrupt, ShellRefused, CompactionUnqueued, MutationFails, Working, Over
<1>4. ASSUME NEW c \in Compactions, Compact(c)  PROVE Moves
    BY <1>4, <1>b, OneKind DEF Compact, Called
<1>5. ASSUME NEW i \in Items, Enqueued(i)  PROVE Moves
  <2>1. i \in Ops /\ pc' = [pc EXCEPT ![i] = "queued"]
    BY <1>5, OneKind DEF Enqueued
  <2>2. Missing(i, "queued") = {}
    BY MissingLess
  <2> QED
    BY <1>a, <2>1, <2>2 DEF Working
<1>6. ASSUME NEW q \in Requeues, Requeued(q)  PROVE Moves
  <2>1. PICK i \in Items, front \in BOOLEAN :
           pc'[q] = "done" /\ pc'[i] = "queued" /\ \A o \in Ops : o # q /\ o # i => pc'[o] = pc[o]
    BY <1>6, RequeueLands
  <2>2. Missing(q, "done") \subseteq Missing(q, pc[q]) /\ Missing(i, "queued") = {}
    BY MissingLess DEF Over
  <2> QED
    BY <2>1, <2>2 DEF Working
<1>7. ASSUME NEW o \in Turns, Claim(o)  PROVE Moves
  <2>1. o \in Ops /\ pc[o] = "claiming" /\ pc' = [pc EXCEPT ![o] = "intercepting"]
    BY <1>7, OneKind DEF Claim
  <2>2. Missing(o, "intercepting") \subseteq Missing(o, "claiming")
    BY MissingLess
  <2> QED
    BY <1>a, <2>1, <2>2, OneKind DEF Working
<1>8. ASSUME NEW o \in Turns \cup Compactions \cup Shells, Gives(o)  PROVE Moves
  <2>1. /\ o \in Ops /\ pc[o] \in {"claiming", "intercepting", "messaging", "ending"}
        /\ pc'[o] \in IF o \in Deliveries THEN {"delivering", "failing"} ELSE {"done", "failed"}
        /\ \A p \in Ops : p # o => pc'[p] = pc[p] \/ (p \in Deliveries /\ pc[p] = "waiting" /\ pc'[p] = "claiming")
    BY <1>8, GivesStages
  <2>2. Missing(o, pc'[o]) \subseteq Missing(o, pc[o])
    BY <2>1, MissingLess DEF Over, Delivering, BeforeClaim, Working
  <2>3. \A p \in Deliveries : Missing(p, "claiming") \subseteq Missing(p, "waiting")
    BY MissingLess DEF BeforeClaim
  <2>4. ASSUME NEW p \in Ops, p # o  PROVE Missing(p, pc'[p]) \subseteq Missing(p, pc[p])
    BY <2>1, <2>3, <2>4
  <2> QED
    BY <2>1, <2>2, <2>4 DEF Working
<1>9. ASSUME NEW o \in Turns, Intercepted(o)  PROVE Moves
  <2>1. o \in Ops /\ pc[o] = "intercepting" /\ pc' = [pc EXCEPT ![o] = "messaging"]
    BY <1>9, OneKind DEF Intercepted
  <2>2. Missing(o, "messaging") \subseteq Missing(o, "intercepting")
    BY MissingLess
  <2> QED
    BY <1>a, <2>1, <2>2, OneKind DEF Working
<1>10. ASSUME NEW o \in Turns, Messaged(o)  PROVE Moves
  <2>1. o \in Ops /\ pc[o] = "messaging" /\ pc' = [pc EXCEPT ![o] = "working"]
    BY <1>10, OneKind DEF Messaged
  <2>2. Missing(o, "working") \subseteq Missing(o, "messaging")
    BY MissingLess
  <2> QED
    BY <1>a, <2>1, <2>2, OneKind DEF Working
<1>11. ASSUME NEW o \in Turns \cup Compactions \cup Shells, Stop(o)  PROVE Moves
  <2>1. o \in Ops /\ pc[o] = "working" /\ pc' = [pc EXCEPT ![o] = "ending"]
    BY <1>11, OneKind DEF Stop
  <2>2. Missing(o, "ending") \subseteq Missing(o, "working")
    BY MissingLess
  <2> QED
    BY <1>a, <2>1, <2>2, OneKind DEF Working
<1>12. ASSUME NEW s \in Shells, ShellRuns(s)  PROVE Moves
  <2>1. s \in Ops /\ pc[s] = "claiming" /\ pc' = [pc EXCEPT ![s] = "working"]
    BY <1>12, OneKind DEF ShellRuns
  <2>2. Missing(s, "working") \subseteq Missing(s, "claiming")
    BY MissingLess
  <2> QED
    BY <1>a, <2>1, <2>2, OneKind DEF Working
<1>13. ASSUME NEW c \in Compactions, CompactionQueued(c)  PROVE Moves
  <2>1. c \in Ops /\ pc[c] = "recording" /\ pc' = [pc EXCEPT ![c] = "queued"]
    BY <1>13, OneKind DEF CompactionQueued
  <2>2. Missing(c, "queued") \subseteq Missing(c, "recording")
    BY MissingLess
  <2> QED
    BY <1>a, <2>1, <2>2, OneKind DEF Working
<1>14. ASSUME NEW r \in Reloads, Rebuild(r)  PROVE Moves
  <2>1. r \in Ops /\ pc[r] = "deciding" /\ Missing(r, "rebuilding") \subseteq Missing(r, "deciding")
    BY <1>14, MissingLess, OneKind DEF Rebuild
  <2>2. CASE pc' = [pc EXCEPT ![r] = "rebuilding"]
    BY <1>a, <2>1, <2>2 DEF Working
  <2>3. CASE pc' = [pc EXCEPT ![r] = "failed"]
    BY <1>b, <2>1, <2>3 DEF Working, Over
  <2> QED
    BY <1>14, <2>2, <2>3 DEF Rebuild
<1>15. ASSUME NEW r \in Reloads, Rebuilt(r)  PROVE Moves
  <2>1. PICK ok \in BOOLEAN : pc' = [pc EXCEPT ![r] = IF ok THEN "done" ELSE "failed"]
    BY <1>15 DEF Rebuilt
  <2> QED
    BY <1>b, <2>1, OneKind DEF Working, Over
<1>16. ASSUME DrainCompacts  PROVE Moves
  <2>1. Head(compactions) \in Compactions /\ pc[Head(compactions)] = "queued"
    BY <1>16, HeadIn DEF DrainCompacts, TypeOK, DrainInv, Listed
  <2>2. PICK c \in Compactions : c = Head(compactions)
    BY <2>1
  <2>3. Missing(c, "working") \subseteq Missing(c, "queued") /\ c \in Ops /\ c \notin Turns
    BY MissingLess, OneKind
  <2> QED
    BY <1>16, <1>a, <2>1, <2>2, <2>3 DEF DrainCompacts
<1>17. ASSUME DrainReloads  PROVE Moves
  <2>1. Head(reloads) \in Reloads /\ pc[Head(reloads)] = "queued"
    BY <1>17, HeadIn DEF DrainReloads, TypeOK, DrainInv, Listed
  <2>2. PICK r \in Reloads : r = Head(reloads)
    BY <2>1
  <2>3. Missing(r, "rebuilding") \subseteq Missing(r, "queued") /\ r \in Ops /\ r \notin Turns
    BY MissingLess, OneKind
  <2> QED
    BY <1>17, <1>a, <2>1, <2>2, <2>3 DEF DrainReloads
<1>18. ASSUME DrainSends  PROVE Moves
  <2>1. drain.op \in Items /\ drain.at = "starting" /\ pc' = [pc EXCEPT ![drain.op] = "claiming"]
    BY <1>18 DEF DrainSends, DrainInv, Placed
  <2> QED
    BY <1>0, <2>1 DEF Working
<1>19. ASSUME DrainBreaks  PROVE Moves
  <2>1. drain.op \in Ops /\ pc' = [pc EXCEPT ![drain.op] = "failed"]
    BY <1>19, HeadKinds, OneKind DEF DrainBreaks, TypeOK
  <2> QED
    BY <1>b, <2>1 DEF Over, Working
<1>20. ASSUME NEW d \in Deliveries, Delivers(d)  PROVE Moves
  <2>1. PICK stage \in {"requesting", "interrupting", "waiting", "closing", "claiming", "failing", "done", "failed"} :
           /\ pc' = [pc EXCEPT ![d] = stage]
           /\ stage \in {"waiting", "closing"} => pc[d] = "interrupting"
           /\ stage = "interrupting" => pc[d] = "requesting"
           /\ stage = "requesting" => pc[d] = "reserved"
           /\ pc[d] \in {"delivering", "failing"} => stage \in {"done", "failed", "failing"}
    BY <1>20, DeliveryGoesOn
  <2>2. d \in Ops /\ pc[d] \in {"reserved", "requesting", "interrupting", "closing", "delivering", "failing"}
    BY <1>20, DeliveryGoesOn, OneKind
  <2>3. Missing(d, stage) \subseteq Missing(d, pc[d])
    BY <2>1, <2>2, MissingLess DEF Over, Delivering, BeforeClaim, Working
  <2> QED
    BY <1>a, <2>1, <2>2, <2>3 DEF Working
<1>21. ASSUME Crash  PROVE Moves
  <2>1. \A o \in Ops : pc'[o] = pc[o] \/ pc'[o] = "lost"
    BY <1>21 DEF Crash
  <2>2. \A o \in Ops : Missing(o, "lost") \subseteq Missing(o, pc[o])
    BY MissingLess DEF Over
  <2> QED
    BY <2>1, <2>2 DEF Working
<1>22. Request => Moves
    BY <1>2, <1>4, Zenon DEF Request
<1>23. Continue => Moves
    BY <1>1, <1>3, <1>5, <1>6, <1>7, <1>8, <1>9, <1>10, <1>12, <1>13, <1>14, <1>15, <1>18, <1>20,
       Zenon DEF Continue, Gives, Delivers
<1>24. Environment => Moves
    BY <1>1, <1>3, <1>8, <1>19, <1>20, <1>21, Zenon DEF Environment, Gives, Delivers
<1>25. DrainLoop => Moves
    BY <1>1, <1>16, <1>17, Zenon DEF DrainLoop
<1> QED
    BY UrgentTurns, <1>7, <1>8, <1>11, <1>22, <1>23, <1>24, <1>25, Zenon DEF Next, Works, Gives

\* Who waits for an event that is not the queue's, and for which one.
LEMMA MarkSources ==
    ASSUME TypeOK, FlightInv, appends # <<>>, Head(appends).event.type \in MarkTypes
    PROVE  LET by == Head(appends).by
               e == Head(appends).event
           IN \/ by \in Turns /\ pc[by] = "messaging" /\ e.type = "message" /\ e.op = by
              \/ /\ by \in Turns \cup Shells \cup Compactions /\ pc[by] = "ending"
                 /\ e.type \in TerminalOf(by) /\ e.op = by
              \/ by \in Compactions /\ pc[by] = "recording" /\ e.type = "compaction.queued" /\ e.op = by
              \/ /\ by \in Deliveries /\ e.op = by
                 /\ \/ pc[by] = "requesting" /\ e.type = "requested"
                    \/ pc[by] = "interrupting" /\ e.type = "interrupting"
                    \/ pc[by] = "delivering" /\ e.type = "delivered"
                    \/ pc[by] = "failing" /\ e.type = "undelivered"
              \/ by \in Deliveries /\ pc[by] = "closing" /\ e.type = "assistant" /\ e.op = target[by]
              \/ by = "drain" /\ drain.at = "failing" /\ e.type = Failure(drain.op) /\ e.op = drain.op
<1> DEFINE by == Head(appends).by
           e == Head(appends).event
<1>1. Heads(by)
    BY DEF Heads
<1>2. Awaits(by, e)
    BY <1>1, HeadAwaits
<1>3. e.type \in MarkTypes
    OBVIOUS
<1> HIDE DEF by, e
<1>4. /\ ~(\E i, front : e = QueueEvent("enqueued", i, i, front))
      /\ ~(\E i, front : e = QueueEvent("requeued", by, i, front))
      /\ ~(\E items : e = RestoredEvent(by, items))
      /\ ~(\E i, front : e = QueueEvent("started", i, i, front))
      /\ ~(\E i, front : e = QueueEvent("paused", i, i, front))
    BY <1>3 DEF QueueEvent, RestoredEvent, Event, MarkTypes
<1>5. CASE by \in Turns /\ pc[by] = "messaging" /\ e = Event("message", by)
    BY <1>5, Fields DEF by, e
<1>6. CASE /\ by \in Turns \cup Shells \cup Compactions
           /\ pc[by] = "ending"
           /\ \E type \in TerminalOf(by) : e = Event(type, by)
    BY <1>6, Fields DEF by, e
<1>7. CASE by \in Compactions /\ pc[by] = "recording" /\ e = Event("compaction.queued", by)
    BY <1>7, Fields DEF by, e
<1>8. CASE /\ by \in Deliveries
           /\ \/ pc[by] = "requesting" /\ e = Event("requested", by)
              \/ pc[by] = "interrupting" /\ e = Event("interrupting", by)
              \/ pc[by] = "delivering" /\ e = Event("delivered", by)
              \/ pc[by] = "failing" /\ e = Event("undelivered", by)
  <2>1. CASE pc[by] = "requesting" /\ e = Event("requested", by)
    BY <1>8, <2>1, Fields DEF by, e
  <2>2. CASE pc[by] = "interrupting" /\ e = Event("interrupting", by)
    BY <1>8, <2>2, Fields DEF by, e
  <2>3. CASE pc[by] = "delivering" /\ e = Event("delivered", by)
    BY <1>8, <2>3, Fields DEF by, e
  <2>4. CASE pc[by] = "failing" /\ e = Event("undelivered", by)
    BY <1>8, <2>4, Fields DEF by, e
  <2> QED
    BY <1>8, <2>1, <2>2, <2>3, <2>4, Zenon
<1>9. CASE by \in Deliveries /\ pc[by] = "closing" /\ e = Event("assistant", target[by])
    BY <1>9, Fields DEF by, e
<1>10. CASE /\ by = "drain" /\ drain.at = "failing"
            /\ e = Event(IF drain.op \in Compactions THEN "compaction.failed" ELSE "error", drain.op)
  <2>1. e = Event(Failure(drain.op), drain.op)
    BY <1>10 DEF Failure
  <2> QED
    BY <1>10, <2>1, Fields DEF by, e
<1> QED
    BY <1>2, <1>4, <1>5, <1>6, <1>7, <1>8, <1>9, <1>10, Zenon DEF Awaits

\* An event that lands is one of the queue's, or is added to the other ones.
LEMMA MarkLanded ==
    ASSUME TypeOK, appends # <<>>, Land
    PROVE  LET e == Head(appends).event IN
           \/ e.type \in QueueTypes /\ marks' = marks /\ repeated' = repeated
           \/ /\ e.type \in MarkTypes /\ e.op \in Ops /\ log' = log
              /\ marks' = marks \cup {e} /\ repeated' = (repeated \/ e \in marks)
<1> DEFINE e == Head(appends).event
<1>1. e \in Events(QueueTypes \cup MarkTypes)
  <2>1. Head(appends) \in [by : Ops \cup {"drain", "resume"}, event : Events(QueueTypes \cup MarkTypes)]
    BY HeadIn DEF TypeOK
  <2> QED
    BY <2>1
<1>2. e.op \in Ops /\ e.type \in QueueTypes \cup MarkTypes
    BY <1>1 DEF Events
<1>3. IF e.type \in QueueTypes THEN marks' = marks /\ repeated' = repeated
      ELSE marks' = marks \cup {e} /\ repeated' = (repeated \/ e \in marks) /\ log' = log
    BY DEF Land
<1> HIDE DEF e
<1>4. \/ e.type \in QueueTypes /\ marks' = marks /\ repeated' = repeated
      \/ /\ e.type \in MarkTypes /\ e.op \in Ops /\ log' = log
         /\ marks' = marks \cup {e} /\ repeated' = (repeated \/ e \in marks)
    BY <1>2, <1>3
<1> QED
    BY <1>4 DEF e

\* A delivery closes a target that has its message and no answer, and does not run.
LEMMA ClosingTarget ==
    ASSUME StageInv, MarkInv, NEW d \in Deliveries, pc[d] = "closing", target[d] \in Ops
    PROVE  /\ target[d] \in Turns /\ target[d] # d
           /\ pc[target[d]] \notin {"idle"} \cup BeforeClaim \cup Working
           /\ "assistant" \notin Missing(target[d], pc[target[d]])
<1> DEFINE t == target[d]
<1>1. Has(t, {"message"}) /\ pc[t] \notin Working
    BY DEF MarkInv
<1>2. ~Has(t, Missing(t, pc[t]))
    BY DEF MarkInv
<1>3. "message" \notin Missing(t, pc[t])
    BY <1>1, <1>2 DEF Has
<1> HIDE DEF t
<1>4. t \in Turns /\ pc[t] \notin {"idle"} \cup BeforeClaim
    BY <1>3 DEF Missing, MarkTypes, Answers
<1>5. "assistant" \notin Missing(t, pc[t])
    BY <1>1, <1>4, OneKind DEF Missing, Working, AfterClaim
<1> QED
    BY <1>1, <1>4, <1>5 DEF t, BeforeClaim

\* A recorded event is none that its operation still owes, a closing delivery moves on with
\* its record, and the drain with that of a failure.
Settles(by, e) ==
    e.type \in MarkTypes =>
        /\ e.type \notin Missing(e.op, pc'[e.op])
        /\ by \in Deliveries /\ pc[by] = "closing" => pc'[by] # "closing"
        /\ by = "drain" => drain'.at # "failing"

Silent == marks' = marks /\ repeated' = repeated
Lands == appends # <<>> /\ Land /\ Settles(Head(appends).by, Head(appends).event)

\* The events that an operation at its end, or at rest, does not lack.
LEMMA EndsWell ==
    /\ \A o \in Ops : \A t \in TerminalOf(o), s \in Over \cup {"delivering", "failing"} : t \notin Missing(o, s)
    /\ \A o \in Turns : "message" \notin Missing(o, "working")
    /\ \A o, type : \A s \in Over : type # "message" \/ o \in Turns => type \notin Missing(o, s)
    /\ \A c \in Compactions : "compaction.queued" \notin Missing(c, "queued")
    /\ \A d \in Deliveries :
          /\ \A s \in {"claiming", "interrupting"} : "requested" \notin Missing(d, s)
          /\ \A s \in {"claiming", "waiting", "closing", "failing"} : "interrupting" \notin Missing(d, s)
<1> USE DEF Missing, Over, BeforeClaim, Working, Delivering, AfterClaim, Answers
<1>1. \A o \in Ops : \A t \in TerminalOf(o), s \in Over \cup {"delivering", "failing"} : t \notin Missing(o, s)
    BY OneKind DEF TerminalOf
<1>2. \A o \in Turns : "message" \notin Missing(o, "working")
    BY OneKind
<1>3. \A o, type : \A s \in Over : type # "message" \/ o \in Turns => type \notin Missing(o, s)
    OBVIOUS
<1>4. \A c \in Compactions : "compaction.queued" \notin Missing(c, "queued")
    BY OneKind
<1>5. \A d \in Deliveries :
         /\ \A s \in {"claiming", "interrupting"} : "requested" \notin Missing(d, s)
         /\ \A s \in {"claiming", "waiting", "closing", "failing"} : "interrupting" \notin Missing(d, s)
    BY OneKind
<1> HIDE DEF Missing, Over, BeforeClaim, Working, Delivering, AfterClaim, Answers
<1> QED
    BY <1>1, <1>2, <1>3, <1>4, <1>5

\* The operation of an event in flight has begun.
LEMMA MarkBegun ==
    ASSUME TypeOK, StageInv, DrainInv, FlightInv, MarkInv, appends # <<>>, Head(appends).event.type \in MarkTypes
    PROVE  LET e == Head(appends).event IN
           e.op \in Ops /\ pc[e.op] # "idle" /\ (e.type = "message" => e.op \in Turns)
<1> DEFINE by == Head(appends).by
           e == Head(appends).event
<1>0. e.op \in Ops
  <2>1. Head(appends) \in [by : Ops \cup {"drain", "resume"}, event : Events(QueueTypes \cup MarkTypes)]
    BY HeadIn DEF TypeOK
  <2> QED
    BY <2>1 DEF Events
<1>1. \/ by \in Turns /\ pc[by] = "messaging" /\ e.type = "message" /\ e.op = by
      \/ /\ by \in Turns \cup Shells \cup Compactions /\ pc[by] = "ending"
         /\ e.type \in TerminalOf(by) /\ e.op = by
      \/ by \in Compactions /\ pc[by] = "recording" /\ e.type = "compaction.queued" /\ e.op = by
      \/ /\ by \in Deliveries /\ e.op = by
         /\ \/ pc[by] = "requesting" /\ e.type = "requested"
            \/ pc[by] = "interrupting" /\ e.type = "interrupting"
            \/ pc[by] = "delivering" /\ e.type = "delivered"
            \/ pc[by] = "failing" /\ e.type = "undelivered"
      \/ by \in Deliveries /\ pc[by] = "closing" /\ e.type = "assistant" /\ e.op = target[by]
      \/ by = "drain" /\ drain.at = "failing" /\ e.type = Failure(drain.op) /\ e.op = drain.op
    BY MarkSources
<1>2. ASSUME by \in Deliveries, pc[by] = "closing", e.op = target[by]  PROVE pc[e.op] # "idle"
    BY <1>0, <1>2, ClosingTarget
<1>3. drain.at = "failing" => pc[drain.op] = "failed"
    BY DEF DrainInv, Placed
<1>4. pc[e.op] # "idle"
    BY <1>1, <1>2, <1>3
<1>5. e.type = "message" => e.op \in Turns
    BY <1>1 DEF TerminalOf, Failure
<1> QED
    BY <1>0, <1>4, <1>5

\* What each step records.
LEMMA MarksStep ==
    ASSUME TypeOK, StageInv, DrainInv, FlightInv, QueueInv, MarkInv, Next
    PROVE  Silent \/ Lands \/ Resume
<1> DEFINE Goal == Silent \/ Lands \/ Resume
<1> SUFFICES Goal
    OBVIOUS
<1>0. pc \in [Ops -> Stages] /\ \A i \in Items : i \in Ops
    BY OneKind DEF TypeOK
<1>a. ASSUME appends # <<>>, Land, Head(appends).event.type \in QueueTypes  PROVE Goal
  <2>1. Silent
    BY <1>a DEF Land, Silent
  <2> QED
    BY <2>1
<1>1. ASSUME \/ \E i \in Items, front \in Fronts : Enqueue(i, front)
             \/ \E q \in Requeues, i \in Items, front \in Fronts : Requeue(q, i, front)
             \/ \E x \in Restores : Restore(x)
             \/ \E x \in Interrupts : InterruptAccepted(x)
             \/ \E p \in Prompts : Send(p)
             \/ \E d \in Deliveries : Reserve(d)
             \/ \E c \in Compactions : Compact(c)
             \/ \E c \in Compactions : CompactLater(c)
             \/ \E s \in Shells : Shell(s)
             \/ \E r \in Reloads : Reload(r)
             \/ \E r \in Reloads : ReloadLater(r)
             \/ \E x \in Interrupts : Interrupt(x)
             \/ \E o \in Turns : Claim(o)
             \/ \E o \in Turns : Intercepted(o)
             \/ \E o \in Turns \cup Compactions \cup Shells : Stop(o)
             \/ \E s \in Shells : ShellRuns(s)
             \/ \E s \in Shells : ShellRefused(s)
             \/ \E c \in Compactions : CompactionUnqueued(c)
             \/ \E r \in Reloads : Rebuild(r)
             \/ \E r \in Reloads : Rebuilt(r)
             \/ DrainStops \/ DrainCompacts \/ DrainReloads \/ DrainStarts \/ DrainBreaks
             \/ \E o \in Items \cup Requeues \cup Restores : MutationFails(o)
             \/ Dispose \/ DisposeAborts \/ DisposeWaited \/ Disposed \/ BeginShutdown
      PROVE  Goal
    BY <1>1
    DEF Enqueue, Requeue, Restore, InterruptAccepted, Send, Reserve, Compact, CompactLater, Shell,
        Reload, ReloadLater, Interrupt, Claim, Intercepted, Stop, ShellRuns, ShellRefused,
        CompactionUnqueued, Rebuild, Rebuilt, DrainStops, DrainCompacts, DrainReloads, DrainStarts,
        DrainBreaks, MutationFails, Dispose, DisposeAborts, DisposeWaited, Disposed, BeginShutdown,
        Mutate, Fault, Silent
<1>2. ASSUME NEW i \in Items, Enqueued(i)  PROVE Goal
  <2>1. PICK front \in BOOLEAN : Head(appends).event = QueueEvent("enqueued", i, i, front)
    BY <1>2, HeadKinds DEF Enqueued, MutationLanded, StageInv
  <2>2. Head(appends).event.type = "enqueued"
    BY <2>1, Fields
  <2> QED
    BY <1>2, <1>a, <2>2 DEF Enqueued, MutationLanded, Heads, QueueTypes
<1>3. ASSUME NEW q \in Requeues, Requeued(q)  PROVE Goal
  <2>1. PICK i \in Items, front \in BOOLEAN : Head(appends).event = QueueEvent("requeued", q, i, front)
    BY <1>3, HeadKinds DEF Requeued, MutationLanded
  <2>2. Head(appends).event.type = "requeued"
    BY <2>1, Fields
  <2> QED
    BY <1>3, <1>a, <2>2 DEF Requeued, MutationLanded, Heads, QueueTypes
<1>4. ASSUME NEW x \in Restores, Restored(x)  PROVE Goal
  <2>1. PICK items \in SUBSET Items : Head(appends).event = RestoredEvent(x, items)
    BY <1>4, HeadKinds DEF Restored, MutationLanded
  <2>2. Head(appends).event.type = "restored"
    BY <2>1, Fields
  <2> QED
    BY <1>4, <1>a, <2>2 DEF Restored, MutationLanded, Heads, QueueTypes
<1>5. ASSUME NEW o \in Turns \cup Compactions \cup Shells, Gives(o)  PROVE Goal
  <2>1. CASE End(o)
    <3>1. /\ Heads(o) /\ Land /\ pc[o] = "ending" /\ appends # <<>> /\ Head(appends).by = o
          /\ o \in Ops /\ o # "drain"
      BY <2>1, OneKind DEF End, Heads
    <3>2. pc'[o] \in Over \cup {"delivering", "failing"}
      BY <1>5, GivesStages DEF Over
    <3>3. ASSUME Head(appends).event.type \in MarkTypes
          PROVE  Head(appends).event.type \in TerminalOf(o) /\ Head(appends).event.op = o
      BY <1>5, <3>1, <3>3, MarkSources
    <3>4. Settles(o, Head(appends).event)
      BY <3>1, <3>2, <3>3, EndsWell DEF Settles
    <3> QED
      BY <3>1, <3>4 DEF Lands
  <2>2. CASE ClaimRefused(o) \/ InterceptedAway(o) \/ OperationFails(o)
    BY <2>2 DEF ClaimRefused, InterceptedAway, OperationFails, Fault, Silent
  <2> QED
    BY <1>5, <2>1, <2>2 DEF Gives
<1>6. ASSUME NEW o \in Turns, Messaged(o)  PROVE Goal
  <2>1. /\ Heads(o) /\ Land /\ pc[o] = "messaging" /\ pc'[o] = "working"
        /\ appends # <<>> /\ Head(appends).by = o /\ o \in Ops /\ o # "drain"
    BY <1>6, <1>0, OneKind DEF Messaged, Heads
  <2>2. ASSUME Head(appends).event.type \in MarkTypes
        PROVE  Head(appends).event.type = "message" /\ Head(appends).event.op = o
    BY <1>6, <2>1, <2>2, MarkSources
  <2>3. Settles(o, Head(appends).event)
    BY <1>6, <2>1, <2>2, EndsWell DEF Settles
  <2> QED
    BY <2>1, <2>3 DEF Lands
<1>7. ASSUME NEW c \in Compactions, CompactionQueued(c)  PROVE Goal
  <2>1. /\ Heads(c) /\ Land /\ pc[c] = "recording" /\ pc'[c] = "queued"
        /\ appends # <<>> /\ Head(appends).by = c /\ c \in Ops /\ c # "drain"
    BY <1>7, <1>0, OneKind DEF CompactionQueued, Heads
  <2>2. ASSUME Head(appends).event.type \in MarkTypes
        PROVE  Head(appends).event.type = "compaction.queued" /\ Head(appends).event.op = c
    BY <1>7, <2>1, <2>2, MarkSources, OneKind
  <2>3. Settles(c, Head(appends).event)
    BY <1>7, <2>1, <2>2, EndsWell DEF Settles
  <2> QED
    BY <2>1, <2>3 DEF Lands
<1>8. ASSUME DrainSends  PROVE Goal
  <2>1. Head(appends).event.type = "started"
    BY <1>8, HeadKinds DEF DrainSends, QueueEvent, Event
  <2> QED
    BY <1>8, <1>a, <2>1 DEF DrainSends, Heads, QueueTypes
<1>9. ASSUME DrainRecorded  PROVE Goal
  <2>1. /\ Heads("drain") /\ Land /\ drain.at = "failing" /\ pc' = pc /\ drain' = Loop
        /\ appends # <<>> /\ Head(appends).by = "drain"
    BY <1>9 DEF DrainRecorded, Heads
  <2>2. drain'.at # "failing" /\ \A o \in Ops : o # "drain"
    BY <2>1, OneKind DEF Loop
  <2>3. pc[drain.op] = "failed"
    BY <2>1 DEF DrainInv, Placed
  <2>4. ASSUME Head(appends).event.type \in MarkTypes
        PROVE  /\ Head(appends).event.type = Failure(drain.op) /\ Head(appends).event.op = drain.op
    BY <2>1, <2>2, <2>4, MarkSources, OneKind
  <2>5. Failure(drain.op) \notin Missing(drain.op, "failed")
    <3>1. Failure(drain.op) # "message"
      BY DEF Failure
    <3> QED
      BY <3>1, EndsWell DEF Over
  <2>6. Settles("drain", Head(appends).event)
    <3>1. "drain" \notin Deliveries
      BY <2>2, OneKind
    <3> QED
      BY <2>1, <2>2, <2>3, <2>4, <2>5, <3>1 DEF Settles
  <2> QED
    BY <2>1, <2>6 DEF Lands
<1>10. ASSUME NEW d \in Deliveries, Delivers(d)  PROVE Goal
  <2>0. d \in Ops /\ d # "drain" /\ d \in Turns /\ d \notin Compactions
    BY OneKind
  <2>a. ASSUME Heads(d), Land, NEW type, type \notin Missing(d, pc'[d]), pc[d] # "closing",
               pc[d] \in {"requesting", "interrupting", "delivering", "failing"},
               Head(appends).event.type \in MarkTypes => Head(appends).event.type = type
        PROVE  Goal
    <3>1. appends # <<>> /\ Head(appends).by = d
      BY <2>a DEF Heads
    <3>2. Head(appends).event.type \in MarkTypes => Head(appends).event.op = d
      BY <2>0, <2>a, <3>1, MarkSources
    <3>3. Settles(d, Head(appends).event)
      BY <2>0, <2>a, <3>2 DEF Settles
    <3> QED
      BY <2>a, <3>1, <3>3 DEF Lands
  <2>1. CASE DeliverRequested(d)
    <3>1. Heads(d) /\ Land /\ pc[d] = "requesting" /\ pc'[d] \in {"claiming", "interrupting"}
      BY <1>0, <2>0, <2>1 DEF DeliverRequested
    <3>2. Head(appends).event.type \in MarkTypes => Head(appends).event.type = "requested"
      BY <2>0, <3>1, MarkSources DEF Heads
    <3>3. "requested" \notin Missing(d, pc'[d])
      BY <3>1, EndsWell
    <3> QED
      BY <2>a, <3>1, <3>2, <3>3
  <2>2. CASE DeliverInterrupts(d)
    <3>1. Heads(d) /\ Land /\ pc[d] = "interrupting"
      BY <2>2 DEF DeliverInterrupts
    <3>2. pc'[d] \in {"claiming", "waiting", "closing", "failing"}
      BY <1>0, <2>0, <2>2 DEF DeliverInterrupts
    <3>3. Head(appends).event.type \in MarkTypes => Head(appends).event.type = "interrupting"
      BY <2>0, <3>1, MarkSources DEF Heads
    <3>4. "interrupting" \notin Missing(d, pc'[d])
      BY <3>2, EndsWell
    <3> QED
      BY <2>a, <3>1, <3>3, <3>4
  <2>3. CASE DeliverClosed(d)
    <3>1. /\ Heads(d) /\ Land /\ pc[d] = "closing" /\ pc' = [pc EXCEPT ![d] = "claiming"]
          /\ appends # <<>> /\ Head(appends).by = d
      BY <2>3 DEF DeliverClosed, Heads
    <3>2. ASSUME Head(appends).event.type \in MarkTypes
          PROVE  /\ Head(appends).event.type = "assistant" /\ Head(appends).event.op = target[d]
                 /\ target[d] \in Ops
      BY <2>0, <3>1, <3>2, MarkSources, MarkBegun
    <3>3. ASSUME target[d] \in Ops
          PROVE  "assistant" \notin Missing(target[d], pc'[target[d]])
      <4>1. target[d] # d /\ "assistant" \notin Missing(target[d], pc[target[d]])
        BY <3>1, <3>3, ClosingTarget
      <4>2. pc'[target[d]] = pc[target[d]]
        BY <1>0, <3>1, <3>3, <4>1
      <4> QED
        BY <4>1, <4>2
    <3>4. Settles(d, Head(appends).event)
      <4>1. pc'[d] # "closing"
        BY <1>0, <2>0, <3>1
      <4> QED
        BY <2>0, <3>1, <3>2, <3>3, <4>1 DEF Settles
    <3> QED
      BY <3>1, <3>4 DEF Lands
  <2>4. CASE Delivered(d)
    <3>1. Heads(d) /\ Land /\ pc[d] \in {"delivering", "failing"} /\ pc'[d] \in Over
      BY <1>0, <2>0, <2>4 DEF Delivered, EndDelivery, Unreserve, Over
    <3>2. /\ pc[d] = "delivering" /\ Head(appends).event.type \in MarkTypes => Head(appends).event.type = "delivered"
          /\ pc[d] = "failing" /\ Head(appends).event.type \in MarkTypes => Head(appends).event.type = "undelivered"
      BY <2>0, <3>1, MarkSources DEF Heads
    <3>3. "delivered" \notin Missing(d, pc'[d]) /\ "undelivered" \notin Missing(d, pc'[d])
      BY <3>1, EndsWell
    <3> QED
      BY <2>a, <3>1, <3>2, <3>3
  <2>5. CASE DeliverRefused(d) \/ DeliverRequest(d) \/ DeliveryFails(d)
    BY <2>5 DEF DeliverRefused, DeliverRequest, DeliveryFails, Fault, Silent
  <2> QED
    BY <1>10, <2>1, <2>2, <2>3, <2>4, <2>5 DEF Delivers
<1>11. ASSUME Crash  PROVE Goal
  <2>1. CASE UNCHANGED events
    BY <2>1 DEF events, Silent
  <2>2. CASE appends # <<>> /\ Land
    <3> DEFINE e == Head(appends).event
    <3>1. ASSUME e.type \in MarkTypes
          PROVE  e.type \notin Missing(e.op, pc'[e.op])
      <4>1. e.op \in Ops /\ pc[e.op] # "idle" /\ (e.type = "message" => e.op \in Turns)
        BY <2>2, <3>1, MarkBegun
      <4> HIDE DEF e
      <4>2. pc'[e.op] \in Over
        BY <1>11, <4>1 DEF Crash, Over
      <4> QED
        BY <4>1, <4>2, EndsWell
    <3>2. drain'.at # "failing"
      BY <1>11 DEF Crash, Idle
    <3>3. ASSUME Head(appends).by \in Deliveries  PROVE pc'[Head(appends).by] # "closing"
      <4>1. Head(appends).by \in Ops
        BY <3>3, OneKind
      <4> QED
        BY <1>11, <4>1 DEF Crash
    <3>4. Settles(Head(appends).by, Head(appends).event)
      BY <3>1, <3>2, <3>3 DEF Settles
    <3> QED
      BY <2>2, <3>4 DEF Lands
  <2> QED
    BY <1>11, <2>1, <2>2 DEF Crash
<1>12. ASSUME Resume  PROVE Goal
    BY <1>12
<1>13. ASSUME Paused  PROVE Goal
  <2>1. Head(appends).event.type = "paused"
    BY <1>13, HeadKinds DEF Paused, QueueEvent, Event
  <2> QED
    BY <1>13, <1>a, <2>1 DEF Paused, Heads, QueueTypes
<1>14. Request => Goal
    BY <1>1, Zenon DEF Request
<1>15. Continue => Goal
    BY <1>1, <1>2, <1>3, <1>4, <1>5, <1>6, <1>7, <1>8, <1>9, <1>10, <1>12, <1>13, Zenon
    DEF Continue, Gives, Delivers
<1>16. Environment => Goal
    BY <1>1, <1>5, <1>10, <1>11, Zenon DEF Environment, Gives, Delivers
<1>17. DrainLoop => Goal
    BY <1>1, Zenon DEF DrainLoop
<1> QED
    BY UrgentTurns, <1>1, <1>5, <1>14, <1>15, <1>16, <1>17, Zenon DEF Next, Works, Gives

\* The event in flight is new: nothing of its kind is on record for its operation.
LEMMA HeadFresh ==
    ASSUME TypeOK, StageInv, DrainInv, FlightInv, QueueInv, MarkInv,
           appends # <<>>, Head(appends).event.type \in MarkTypes
    PROVE  LET e == Head(appends).event IN
           /\ ~Has(e.op, {e.type})
           /\ e.op \in Items => Started(log, e.op)
<1> DEFINE by == Head(appends).by
           e == Head(appends).event
<1>0. e.op \in Ops
    BY MarkBegun
<1>1. \/ by \in Turns /\ pc[by] = "messaging" /\ e.type = "message" /\ e.op = by
      \/ /\ by \in Turns \cup Shells \cup Compactions /\ pc[by] = "ending"
         /\ e.type \in TerminalOf(by) /\ e.op = by
      \/ by \in Compactions /\ pc[by] = "recording" /\ e.type = "compaction.queued" /\ e.op = by
      \/ /\ by \in Deliveries /\ e.op = by
         /\ \/ pc[by] = "requesting" /\ e.type = "requested"
            \/ pc[by] = "interrupting" /\ e.type = "interrupting"
            \/ pc[by] = "delivering" /\ e.type = "delivered"
            \/ pc[by] = "failing" /\ e.type = "undelivered"
      \/ by \in Deliveries /\ pc[by] = "closing" /\ e.type = "assistant" /\ e.op = target[by]
      \/ by = "drain" /\ drain.at = "failing" /\ e.type = Failure(drain.op) /\ e.op = drain.op
    BY MarkSources
<1> SUFFICES ~Has(e.op, {e.type}) /\ (e.op \in Items => Started(log, e.op))
    OBVIOUS
<1> HIDE DEF by, e
<1>2. ASSUME by \in Ops, e.op = by, e.type \in Missing(by, pc[by]), by \in Items => pc[by] \in Claimed
      PROVE  ~Has(e.op, {e.type}) /\ (e.op \in Items => Started(log, e.op))
  <2>1. ~Has(by, Missing(by, pc[by]))
    BY <1>2 DEF MarkInv
  <2>2. by \in Items => Started(log, by)
    BY <1>2 DEF QueueInv
  <2> QED
    BY <1>2, <2>1, <2>2 DEF Has
<1>3. CASE by \in Turns /\ pc[by] = "messaging" /\ e.type = "message" /\ e.op = by
  <2>1. e.type \in Missing(by, pc[by])
    BY <1>3 DEF Missing, Answers, MarkTypes
  <2> QED
    BY <1>2, <1>3, <2>1, OneKind DEF Claimed, Working
<1>4. CASE /\ by \in Turns \cup Shells \cup Compactions /\ pc[by] = "ending"
           /\ e.type \in TerminalOf(by) /\ e.op = by
  <2>1. e.type \in Missing(by, pc[by])
    BY <1>4, OneKind DEF Missing, AfterClaim, MarkTypes, TerminalOf
  <2> QED
    BY <1>2, <1>4, <2>1, OneKind DEF Claimed, Working
<1>5. CASE by \in Compactions /\ pc[by] = "recording" /\ e.type = "compaction.queued" /\ e.op = by
  <2>1. e.type \in Missing(by, pc[by])
    BY <1>5 DEF Missing, MarkTypes
  <2> QED
    BY <1>2, <1>5, <2>1, OneKind
<1>6. CASE /\ by \in Deliveries /\ e.op = by
           /\ \/ pc[by] = "requesting" /\ e.type = "requested"
              \/ pc[by] = "interrupting" /\ e.type = "interrupting"
              \/ pc[by] = "delivering" /\ e.type = "delivered"
              \/ pc[by] = "failing" /\ e.type = "undelivered"
  <2>1. e.type \in Missing(by, pc[by])
    BY <1>6 DEF Missing, MarkTypes, Delivering
  <2> QED
    BY <1>2, <1>6, <2>1, OneKind
<1>7. CASE by \in Deliveries /\ pc[by] = "closing" /\ e.type = "assistant" /\ e.op = target[by]
  <2>1. Has(target[by], {"message"}) /\ ~Has(target[by], {"assistant"})
    BY <1>7 DEF MarkInv
  <2>2. Has(target[by], Answers)
    BY <2>1 DEF Has, Answers
  <2>3. e.op \in Items => Started(log, e.op)
    BY <1>7, <2>2 DEF MarkInv
  <2> QED
    BY <1>7, <2>1, <2>3
<1>8. CASE by = "drain" /\ drain.at = "failing" /\ e.type = Failure(drain.op) /\ e.op = drain.op
    BY <1>8 DEF MarkInv, QueueInv
<1> QED
    BY <1>1, <1>3, <1>4, <1>5, <1>6, <1>7, <1>8

\* A delivery closes the target that it found without an owner and without an answer.
LEMMA ClosingStep ==
    ASSUME TypeOK, StageInv, DrainInv, FlightInv, QueueInv, Next
    PROVE  \A d \in Deliveries : pc'[d] = "closing" =>
              /\ target'[d] = target[d]
              /\ \/ pc[d] = "closing"
                 \/ /\ pc[d] = "interrupting" /\ activeTurn = None
                    /\ Heads(d) /\ Land
                    /\ Has(target[d], {"message"}) /\ ~Has(target[d], {"assistant", "error"})
                    /\ \A o \in Ops : o # d => pc'[o] = pc[o]
<1> DEFINE Closes == \A d \in Deliveries : pc'[d] = "closing" =>
              /\ target'[d] = target[d]
              /\ \/ pc[d] = "closing"
                 \/ /\ pc[d] = "interrupting" /\ activeTurn = None
                    /\ Heads(d) /\ Land
                    /\ Has(target[d], {"message"}) /\ ~Has(target[d], {"assistant", "error"})
                    /\ \A o \in Ops : o # d => pc'[o] = pc[o]
<1> SUFFICES Closes
    OBVIOUS
<1>0. pc \in [Ops -> Stages] /\ target \in [Ops -> Ops \cup {None}] /\ \A d \in Deliveries : d \in Ops
    BY OneKind DEF TypeOK
<1>a. ASSUME pc' = pc \/ \E x \in Ops, s \in Stages \ {"closing"} : pc' = [pc EXCEPT ![x] = s],
             target' = target
      PROVE  Closes
    BY <1>0, <1>a
<1>b. ASSUME NEW x \in Ops, NEW s \in Stages \ {"closing"}, pc' = [pc EXCEPT ![x] = s],
             NEW t, target' = [target EXCEPT ![x] = t]
      PROVE  Closes
    BY <1>0, <1>b
<1>1. ASSUME \/ Dispose \/ DisposeAborts \/ DisposeWaited \/ Disposed \/ BeginShutdown \/ DrainStops
             \/ DrainStarts \/ DrainRecorded \/ Resume \/ Paused
      PROVE  Closes
    BY <1>1, <1>a
    DEF Dispose, DisposeAborts, DisposeWaited, Disposed, BeginShutdown, DrainStops, DrainStarts,
        DrainRecorded, Resume, Paused
<1>2. ASSUME \/ \E i \in Items, front \in Fronts : Enqueue(i, front)
             \/ \E q \in Requeues, i \in Items, front \in Fronts : Requeue(q, i, front)
      PROVE  Closes
    BY <1>2, <1>a, OneKind DEF Enqueue, Requeue, Mutate, Stages
<1>3. ASSUME \/ \E p \in Prompts : Send(p)
             \/ \E c \in Compactions : CompactLater(c)
             \/ \E c \in Compactions : Compact(c)
             \/ \E s \in Shells : Shell(s)
             \/ \E r \in Reloads : Reload(r)
             \/ \E r \in Reloads : ReloadLater(r)
      PROVE  Closes
    BY <1>3, <1>a, OneKind DEF Send, CompactLater, Compact, Shell, Reload, ReloadLater, Stages
<1>4. ASSUME \/ \E i \in Items : Enqueued(i)
             \/ \E x \in Restores : Restored(x)
      PROVE  Closes
    BY <1>4, <1>a, OneKind DEF Enqueued, Restored, Stages
<1>5. ASSUME \/ \E x \in Interrupts : Interrupt(x)
      PROVE  Closes
    BY <1>5, <1>a, OneKind DEF Interrupt, Stages
<1>6. ASSUME \/ \E o \in Items \cup Requeues \cup Restores : MutationFails(o)
      PROVE  Closes
    BY <1>6, <1>a, OneKind DEF MutationFails, Stages
<1>7. ASSUME \/ \E o \in Turns : Claim(o)
             \/ \E o \in Turns : Intercepted(o)
             \/ \E o \in Turns : Messaged(o)
             \/ \E o \in Turns \cup Compactions \cup Shells : Stop(o)
      PROVE  Closes
    BY <1>7, <1>a, OneKind DEF Claim, Intercepted, Messaged, Stop, Stages
<1>8. ASSUME \/ \E s \in Shells : ShellRuns(s)
             \/ \E s \in Shells : ShellRefused(s)
             \/ \E c \in Compactions : CompactionQueued(c)
             \/ \E c \in Compactions : CompactionUnqueued(c)
      PROVE  Closes
    BY <1>8, <1>a, OneKind DEF ShellRuns, ShellRefused, CompactionQueued, CompactionUnqueued, Stages
<1>9. ASSUME NEW x \in Restores, Restore(x)  PROVE Closes
    BY <1>9, <1>0 DEF Restore, Mutate, Mutate, Called
<1>10. ASSUME NEW x \in Interrupts, InterruptAccepted(x)  PROVE Closes
    BY <1>10, <1>0 DEF InterruptAccepted, Mutate, Called
<1>11. ASSUME NEW d \in Deliveries, Reserve(d)  PROVE Closes
    BY <1>11, <1>0 DEF Reserve, Mutate, Called
<1>12. ASSUME NEW q \in Requeues, Requeued(q)  PROVE Closes
  <2>1. PICK i \in Items, front \in BOOLEAN :
           pc'[q] = "done" /\ pc'[i] = "queued" /\ \A o \in Ops : o # q /\ o # i => pc'[o] = pc[o]
    BY <1>12, RequeueLands
  <2>2. target' = target
    BY <1>12 DEF Requeued
  <2> QED
    BY <1>0, <2>1, <2>2
<1>13. ASSUME NEW o \in Turns \cup Compactions \cup Shells, Gives(o)  PROVE Closes
  <2>1. /\ target' = target
        /\ pc'[o] \in IF o \in Deliveries THEN {"delivering", "failing"} ELSE {"done", "failed"}
        /\ \A p \in Ops : p # o => pc'[p] = pc[p] \/ pc'[p] = "claiming"
    BY <1>13, GivesStages, GivesBranch
  <2> QED
    BY <1>0, <2>1
<1>14. ASSUME NEW r \in Reloads, Rebuild(r)  PROVE Closes
  <2>1. r \in Ops /\ (pc' = [pc EXCEPT ![r] = "rebuilding"] \/ pc' = [pc EXCEPT ![r] = "failed"]) /\ target' = target
    BY <1>14, OneKind DEF Rebuild
  <2> QED
    BY <1>a, <2>1 DEF Stages
<1>15. ASSUME NEW r \in Reloads, Rebuilt(r)  PROVE Closes
  <2>1. PICK ok \in BOOLEAN : pc' = [pc EXCEPT ![r] = IF ok THEN "done" ELSE "failed"]
    BY <1>15 DEF Rebuilt
  <2>2. r \in Ops /\ target' = target
    BY <1>15, OneKind DEF Rebuilt
  <2>3. CASE pc' = [pc EXCEPT ![r] = "done"]
    BY <1>a, <2>2, <2>3 DEF Stages
  <2>4. CASE pc' = [pc EXCEPT ![r] = "failed"]
    BY <1>a, <2>2, <2>4 DEF Stages
  <2> QED
    BY <2>1, <2>3, <2>4
<1>16. ASSUME DrainCompacts  PROVE Closes
  <2>1. Head(compactions) \in Compactions /\ pc' = [pc EXCEPT ![Head(compactions)] = "working"] /\ target' = target
    BY <1>16, HeadIn DEF DrainCompacts, TypeOK
  <2>2. Head(compactions) \in Ops
    BY <2>1, OneKind
  <2> QED
    BY <1>a, <2>1, <2>2 DEF Stages
<1>17. ASSUME DrainReloads  PROVE Closes
  <2>1. Head(reloads) \in Reloads /\ pc' = [pc EXCEPT ![Head(reloads)] = "rebuilding"] /\ target' = target
    BY <1>17, HeadIn DEF DrainReloads, TypeOK
  <2>2. Head(reloads) \in Ops
    BY <2>1, OneKind
  <2> QED
    BY <1>a, <2>1, <2>2 DEF Stages
<1>18. ASSUME DrainSends  PROVE Closes
  <2>1. drain.op \in Ops /\ pc' = [pc EXCEPT ![drain.op] = "claiming"] /\ target' = target
    BY <1>18, OneKind DEF DrainSends, DrainInv, Placed
  <2> QED
    BY <1>a, <2>1 DEF Stages
<1>19. ASSUME DrainBreaks  PROVE Closes
  <2>1. drain.op \in Ops /\ pc' = [pc EXCEPT ![drain.op] = "failed"] /\ target' = target
    BY <1>19, HeadKinds, OneKind DEF DrainBreaks, TypeOK
  <2> QED
    BY <1>a, <2>1 DEF Stages
<1>20. ASSUME NEW d \in Deliveries, Delivers(d)  PROVE Closes
  <2>1. /\ target' = target
        /\ \A o \in Ops : o # d => pc'[o] = pc[o]
        /\ pc'[d] = "closing" => /\ pc[d] = "interrupting" /\ activeTurn = None
                                 /\ Has(target[d], {"message"}) /\ ~Has(target[d], {"assistant", "error"})
    BY <1>20, DeliveryGoesOn
  <2>2. ASSUME pc'[d] = "closing"  PROVE Heads(d) /\ Land
    <3>1. DeliverInterrupts(d)
      <4>1. d \in Ops
        BY <1>0
      <4>2. pc[d] = "interrupting"
        BY <2>1, <2>2
      <4>3. ~DeliveryFails(d)
        BY <1>0, <2>2, <4>1, <4>2 DEF DeliveryFails
      <4> QED
        BY <1>20, <4>2, <4>3
        DEF Delivers, DeliverRefused, DeliverRequest, DeliverRequested, DeliverClosed, Delivered
    <3> QED
      BY <3>1 DEF DeliverInterrupts
  <2> QED
    BY <1>0, <2>1, <2>2
<1>21. ASSUME Crash  PROVE Closes
  <2>1. target' = target /\ \A o \in Ops : pc'[o] = pc[o] \/ pc'[o] = "lost"
    BY <1>21 DEF Crash
  <2> QED
    BY <1>0, <2>1
<1>22. Request => Closes
    BY <1>2, <1>3, <1>9, <1>10, <1>11, Zenon DEF Request
<1>23. Continue => Closes
    BY <1>1, <1>4, <1>5, <1>7, <1>8, <1>12, <1>13, <1>14, <1>15, <1>18, <1>20, Zenon
    DEF Continue, Gives, Delivers
<1>24. Environment => Closes
    BY <1>1, <1>6, <1>8, <1>13, <1>19, <1>20, <1>21, Zenon DEF Environment, Gives, Delivers
<1>25. DrainLoop => Closes
    BY <1>1, <1>16, <1>17, Zenon DEF DrainLoop
<1> QED
    BY UrgentTurns, <1>7, <1>13, <1>22, <1>23, <1>24, <1>25, Zenon DEF Next, Works, Gives

\* The drain fails over an operation that has recorded no failure.
LEMMA FailingStep ==
    ASSUME TypeOK, StageInv, DrainInv, FlightInv, QueueInv, Next
    PROVE  drain'.at = "failing" =>
              \/ drain' = drain
              \/ /\ marks' = marks /\ repeated' = repeated
                 /\ drain'.op \in Ops /\ Failure(drain'.op) \in Missing(drain'.op, pc[drain'.op])
<1> DEFINE Fails == drain'.at = "failing" =>
              \/ drain' = drain
              \/ /\ marks' = marks /\ repeated' = repeated
                 /\ drain'.op \in Ops /\ Failure(drain'.op) \in Missing(drain'.op, pc[drain'.op])
<1> SUFFICES Fails
    OBVIOUS
<1>a. ASSUME drain' = drain \/ drain' = Loop \/ drain' = Idle  PROVE Fails
    BY <1>a DEF Loop, Idle
<1>b. ASSUME StartDrain  PROVE Fails
    BY <1>a, <1>b, DrainWakes
<1>1. ASSUME \/ \E i \in Items : Enqueued(i)
             \/ \E q \in Requeues : Requeued(q)
             \/ \E x \in Restores : Restored(x)
             \/ \E o \in Items \cup Requeues \cup Restores : MutationFails(o)
      PROVE  Fails
    BY <1>1, <1>b DEF Enqueued, Requeued, Restored, MutationFails
<1>2. ASSUME \/ \E i \in Items, front \in Fronts : Enqueue(i, front)
             \/ \E q \in Requeues, i \in Items, front \in Fronts : Requeue(q, i, front)
             \/ \E x \in Restores : Restore(x)
             \/ \E x \in Interrupts : InterruptAccepted(x)
             \/ \E p \in Prompts : Send(p)
             \/ \E d \in Deliveries : Reserve(d)
             \/ \E c \in Compactions : Compact(c)
             \/ \E c \in Compactions : CompactLater(c)
             \/ \E s \in Shells : Shell(s)
             \/ \E r \in Reloads : Reload(r)
             \/ \E r \in Reloads : ReloadLater(r)
             \/ \E x \in Interrupts : Interrupt(x)
             \/ \E o \in Turns : Claim(o)
             \/ \E o \in Turns : Intercepted(o)
             \/ \E o \in Turns : Messaged(o)
             \/ \E o \in Turns \cup Compactions \cup Shells : Stop(o)
             \/ \E s \in Shells : ShellRuns(s)
             \/ \E s \in Shells : ShellRefused(s)
             \/ \E c \in Compactions : CompactionQueued(c)
             \/ \E c \in Compactions : CompactionUnqueued(c)
             \/ \E r \in Reloads : Rebuild(r)
             \/ Dispose \/ DisposeAborts \/ DisposeWaited \/ Disposed \/ BeginShutdown \/ Resume \/ Paused
      PROVE  Fails
    BY <1>2, <1>a
    DEF Enqueue, Requeue, Restore, InterruptAccepted, Send, Reserve, Compact, CompactLater, Shell,
        Reload, ReloadLater, Interrupt, Claim, Intercepted, Messaged, Stop, ShellRuns,
        ShellRefused, CompactionQueued, CompactionUnqueued, Rebuild, Dispose, DisposeAborts,
        DisposeWaited, Disposed, BeginShutdown, Resume, Paused, Mutate
<1>3. ASSUME NEW o \in Turns \cup Compactions \cup Shells, Gives(o)  PROVE Fails
  <2>1. /\ o \in Ops /\ pc[o] \in {"claiming", "intercepting", "messaging", "ending"}
        /\ drain' \in IF drain.op = o THEN IF pc'[o] \in {"failed", "failing"} THEN {At("failing", o)} ELSE {Loop}
                      ELSE IF drain.at = "idle" THEN {drain, Loop} ELSE {drain}
    BY <1>3, GivesStages
  <2>2. CASE drain' = drain \/ drain' = Loop
    BY <1>a, <2>2
  <2>3. CASE drain.op = o /\ drain' = At("failing", o)
    <3>1. drain'.at = "failing" /\ drain'.op = o
      BY <2>3 DEF At
    <3>2. CASE drain.at = "failing"
      BY <2>1, <2>3, <3>2 DEF DrainInv, Placed
    <3>3. CASE drain.at \in {"sending", "compacting"}
      <4>1. ~End(o)
        <5>1. End(o) => drain' = Loop
          BY <2>3 DEF End, Release
        <5> QED
          BY <3>1, <5>1 DEF Loop
      <4>2. UNCHANGED events
        BY <1>3, <4>1 DEF Gives, ClaimRefused, InterceptedAway, OperationFails, Fault
      <4>3. CASE drain.at = "sending"
        <5>1. o \in Items /\ o \in Turns
          BY <2>3, <4>3 DEF DrainInv, Placed, Turns
        <5>2. Failure(o) = "error"
          BY <5>1, OneKind DEF Failure
        <5>3. "error" \in Missing(o, pc[o])
          BY <2>1, <5>1 DEF Missing, MarkTypes, Answers, AfterClaim, BeforeClaim
        <5> QED
          BY <2>1, <3>1, <4>2, <5>2, <5>3 DEF events
      <4>4. CASE drain.at = "compacting"
        <5>1. o \in Compactions /\ pc[o] \in {"working", "ending"}
          BY <2>3, <4>4 DEF DrainInv, Placed
        <5>2. Failure(o) \in Missing(o, pc[o])
          BY <5>1 DEF Missing, MarkTypes, Failure
        <5> QED
          BY <2>1, <3>1, <4>2, <5>2 DEF events
      <4> QED
        BY <3>3, <4>3, <4>4
    <3>4. drain.at \in {"failing", "sending", "compacting"}
      BY <2>1, <2>3, OneKind DEF DrainInv, Placed, TypeOK
    <3> QED
      BY <3>2, <3>3, <3>4
  <2> QED
    BY <2>1, <2>2, <2>3
<1>4. ASSUME NEW r \in Reloads, Rebuilt(r)  PROVE Fails
  <2>1. /\ r \in Ops /\ r \notin Compactions /\ pc[r] = "rebuilding"
        /\ marks' = marks /\ repeated' = repeated
        /\ drain' = drain \/ drain' = Loop \/ drain' = At("failing", r)
    BY <1>4, OneKind DEF Rebuilt, events
  <2>2. Failure(r) \in Missing(r, pc[r])
    BY <1>4, <2>1 DEF Failure, Missing, MarkTypes
  <2>3. CASE drain' = At("failing", r)
    BY <2>1, <2>2, <2>3 DEF At
  <2> QED
    BY <1>a, <2>1, <2>3
<1>5. ASSUME DrainStops  PROVE Fails
    BY <1>5, <1>a DEF DrainStops
<1>6. ASSUME DrainCompacts  PROVE Fails
    BY <1>6 DEF DrainCompacts, At
<1>7. ASSUME DrainReloads  PROVE Fails
    BY <1>7 DEF DrainReloads, At
<1>8. ASSUME DrainStarts  PROVE Fails
    BY <1>8 DEF DrainStarts, At
<1>9. ASSUME DrainSends  PROVE Fails
    BY <1>9 DEF DrainSends, At
<1>10. ASSUME DrainRecorded  PROVE Fails
    BY <1>10, <1>a DEF DrainRecorded
<1>11. ASSUME DrainBreaks  PROVE Fails
    BY <1>11, <1>a DEF DrainBreaks
<1>12. ASSUME NEW d \in Deliveries, Delivers(d)  PROVE Fails
  <2>1. drain' = drain \/ drain' = Loop
    BY <1>12, DeliveryGoesOn
  <2> QED
    BY <1>a, <2>1
<1>13. ASSUME Crash  PROVE Fails
    BY <1>13, <1>a DEF Crash
<1>14. Request => Fails
    BY <1>2, Zenon DEF Request
<1>15. Continue => Fails
    BY <1>1, <1>2, <1>3, <1>4, <1>9, <1>10, <1>12, Zenon DEF Continue, Gives, Delivers
<1>16. Environment => Fails
    BY <1>1, <1>2, <1>3, <1>11, <1>12, <1>13, Zenon DEF Environment, Gives, Delivers
<1>17. DrainLoop => Fails
    BY <1>5, <1>6, <1>7, <1>8, Zenon DEF DrainLoop
<1> QED
    BY UrgentTurns, <1>2, <1>3, <1>14, <1>15, <1>16, <1>17, Zenon DEF Next, Works, Gives

\* What the requests that lost their daemon are given is nothing that was there or is owed
\* by a running operation (reconcileAcceptedMutation).
LEMMA OwedFits ==
    ASSUME TypeOK, StageInv, DrainInv, InterruptInv, MarkInv, NEW e \in Owed, e.op \in Ops
    PROVE  /\ pc[e.op] # "idle" /\ (e.type = "message" => e.op \in Turns)
           /\ e.op \in Items /\ e.type \in Answers => Started(log, e.op)
<1>1. \A o, x \in Ops : pc[o] # "idle" \/ target[x] # o \/ pc[x] = "idle" \/ ~Begun(o)
    BY DEF Begun
<1>2. \A x, t \in Ops : target[x] = t => Begun(t)
    BY DEF InterruptInv
<1>3. ASSUME NEW t \in Ops, Has(t, {"message"})  PROVE pc[t] # "idle" /\ (t \in Items => Started(log, t))
  <2>1. ~Has(t, Missing(t, pc[t])) /\ (t \in Items /\ ~Started(log, t) => ~Has(t, Answers))
    BY DEF MarkInv
  <2>2. pc[t] # "idle"
    BY <1>3, <2>1 DEF Has, Missing, MarkTypes
  <2>3. Has(t, Answers)
    BY <1>3 DEF Has, Answers
  <2> QED
    BY <2>1, <2>2, <2>3
<1>4. CASE \E p \in Lost(Prompts) : e = Event("assistant", p) /\ Unended(p)
    BY <1>4, OneKind DEF Event, Lost
<1>5. CASE \E x \in Lost(Interrupts) : e = Event("assistant", target[x]) /\ Unended(target[x])
  <2>1. PICK x \in Lost(Interrupts) : e = Event("assistant", target[x]) /\ Unended(target[x])
    BY <1>5
  <2>2. e.op = target[x] /\ e.type = "assistant" /\ Has(e.op, {"message"})
    BY <2>1 DEF Event, Unended
  <2> QED
    BY <1>3, <2>2
<1>6. CASE \E x \in Lost(Restores) : e = Event("assistant", target[x]) /\ target[x] # None
  <2>1. PICK x \in Lost(Restores) : e = Event("assistant", target[x]) /\ target[x] # None
    BY <1>6
  <2>2. e.op = target[x] /\ e.type = "assistant" /\ x \in Ops
    BY <2>1, OneKind DEF Event, Lost
  <2>3. Begun(e.op)
    BY <1>2, <2>2
  <2> QED
    BY <2>2, <2>3 DEF Begun
<1>7. CASE \E d \in Undelivered, type \in {"message", "delivered", "assistant"} : e = Event(type, d)
    BY <1>7, OneKind DEF Event, Undelivered, Lost
<1>8. CASE \E c \in Lost(Compactions) : e = Event("compaction.failed", c)
    BY <1>8, OneKind DEF Event, Lost
<1> QED
    BY <1>4, <1>5, <1>6, <1>7, <1>8 DEF Owed

\* Nothing is recorded twice, and nobody is ahead of what he has recorded (send, drainQueue,
\* interruptAndDeliver, recovery).
LEMMA MarkStep ==
    ASSUME TypeOK, StageInv, OwnerInv, DrainInv, DownInv, FlightInv, QueueInv, InterruptInv, MarkInv, Next
    PROVE  MarkInv'
<1>0. /\ target \in [Ops -> Ops \cup {None}] /\ \A d \in Deliveries : d \in Ops
      /\ \A i \in Items : i \in Ops
    BY OneKind DEF TypeOK
<1>1. \A i \in Items : Started(log, i) => Started(log', i)
    BY StartedStays
<1>2. \A d \in Deliveries : pc'[d] = "closing" =>
         /\ target'[d] = target[d]
         /\ \/ pc[d] = "closing"
            \/ /\ pc[d] = "interrupting" /\ activeTurn = None
               /\ Heads(d) /\ Land
               /\ Has(target[d], {"message"}) /\ ~Has(target[d], {"assistant", "error"})
               /\ \A o \in Ops : o # d => pc'[o] = pc[o]
    BY ClosingStep
<1>3. drain'.at = "failing" =>
         \/ drain' = drain
         \/ /\ marks' = marks /\ repeated' = repeated
            /\ drain'.op \in Ops /\ Failure(drain'.op) \in Missing(drain'.op, pc[drain'.op])
    BY FailingStep
<1>4. \A o \in Ops :
         /\ \/ Missing(o, pc'[o]) \subseteq Missing(o, pc[o])
            \/ drain.at = "starting" /\ drain.op = o /\ o \in Items /\ pc'[o] = "claiming"
         /\ o \in Turns /\ pc'[o] \in Working => pc[o] \in Working \cup {"claiming"}
    BY MissingMoves
<1>5. /\ ~repeated
      /\ \A o \in Ops : ~Has(o, Missing(o, pc[o]))
      /\ \A i \in Items : ~Started(log, i) => ~Has(i, Answers)
      /\ \A d \in Deliveries : pc[d] = "closing" =>
            /\ Has(target[d], {"message"}) /\ ~Has(target[d], {"assistant"})
            /\ pc[target[d]] \notin Working
      /\ drain.at = "failing" => ~Has(drain.op, {Failure(drain.op)})
    BY DEF MarkInv
\* What an operation may not have left now, it has not left so far.
<1>6. \A o \in Ops : ~Has(o, Missing(o, pc'[o]))
  <2>1. ASSUME NEW o \in Ops, drain.at = "starting", drain.op = o, o \in Items, pc'[o] = "claiming"
        PROVE  ~Has(o, Missing(o, pc'[o]))
    <3>1. Missing(o, "claiming") \subseteq Answers
      BY <2>1, MissingLess
    <3>2. Waits(log, o)
      BY <2>1 DEF QueueInv, Held, Starting
    <3>3. ~Has(o, Answers)
      BY <1>5, <2>1, <3>2, LogSays DEF QueueInv
    <3> QED
      BY <2>1, <3>1, <3>3 DEF Has
  <2> QED
    BY <1>4, <1>5, <2>1 DEF Has
\* A target that is closed has its message, no answer, and does not run.
<1>7. \A d \in Deliveries : pc'[d] = "closing" =>
         /\ target'[d] = target[d] /\ target[d] \in Ops
         /\ Has(target[d], {"message"}) /\ ~Has(target[d], {"assistant"})
         /\ pc'[target[d]] \notin Working
  <2> SUFFICES ASSUME NEW d \in Deliveries, pc'[d] = "closing"
               PROVE  /\ target'[d] = target[d] /\ target[d] \in Ops
                      /\ Has(target[d], {"message"}) /\ ~Has(target[d], {"assistant"})
                      /\ pc'[target[d]] \notin Working
    OBVIOUS
  <2>1. target'[d] = target[d]
    BY <1>2
  <2>2. Has(target[d], {"message"}) /\ ~Has(target[d], {"assistant"})
    BY <1>2, <1>5 DEF Has
  <2>3. target[d] \in Ops
    <3>1. None \notin Ops /\ \A e \in marks : e.op \in Ops
      BY OneKind DEF TypeOK, Events
    <3> QED
      BY <2>2, <3>1 DEF Has
  <2>4. pc'[target[d]] \notin Working
    <3>1. CASE pc[d] = "closing"
      <4>1. pc[target[d]] \notin Working \cup {"claiming"} /\ target[d] \in Turns
        BY <1>5, <2>3, <3>1, ClosingTarget DEF BeforeClaim
      <4> QED
        BY <1>4, <2>3, <4>1
    <3>2. CASE activeTurn = None /\ \A o \in Ops : o # d => pc'[o] = pc[o]
      <4>1. \A o \in Ops : pc[o] \notin Working
        BY <3>2 DEF OwnerInv, OneOwner, Working
      <4> QED
        BY <2>3, <3>2, <4>1 DEF Working
    <3> QED
      BY <1>2, <3>1, <3>2
  <2> QED
    BY <2>1, <2>2, <2>3, <2>4
<1>8. ASSUME marks \subseteq marks',
             ~repeated',
             \A e \in marks' : e \in marks \/
                (e.op \in Ops => /\ e.type \notin Missing(e.op, pc'[e.op])
                                 /\ e.op \in Items /\ e.type \in Answers => Started(log, e.op)),
             \A d \in Deliveries : pc'[d] = "closing" =>
                \A e \in marks' : e \in marks \/ e.op # target[d] \/ e.type # "assistant",
             drain'.at = "failing" =>
                \A e \in marks' : e \in marks \/ e.op # drain'.op \/ e.type # Failure(drain'.op)
      PROVE  MarkInv'
  <2>1. /\ \A o, types : Has(o, types) => \E e \in marks' : e.op = o /\ e.type \in types
        /\ \A o, types : (\E e \in marks : e.op = o /\ e.type \in types) => Has(o, types)
    BY <1>8 DEF Has
  <2>2. \A o \in Ops : ~(\E e \in marks' : e.op = o /\ e.type \in Missing(o, pc'[o]))
    BY <1>6, <1>8, <2>1
  <2>3. \A i \in Items : ~Started(log', i) => ~(\E e \in marks' : e.op = i /\ e.type \in Answers)
    BY <1>0, <1>1, <1>5, <1>8, <2>1
  <2>4. \A d \in Deliveries : pc'[d] = "closing" =>
           /\ \E e \in marks' : e.op = target'[d] /\ e.type \in {"message"}
           /\ ~(\E e \in marks' : e.op = target'[d] /\ e.type \in {"assistant"})
           /\ pc'[target'[d]] \notin Working
    BY <1>7, <1>8, <2>1
  <2>5. drain'.at = "failing" => ~(\E e \in marks' : e.op = drain'.op /\ e.type \in {Failure(drain'.op)})
    <3>1. drain'.at = "failing" => ~Has(drain'.op, {Failure(drain'.op)})
      <4>1. CASE drain'.at = "failing" /\ drain' = drain
        BY <1>5, <4>1
      <4>2. CASE drain'.op \in Ops /\ Failure(drain'.op) \in Missing(drain'.op, pc[drain'.op])
        BY <1>5, <4>2 DEF Has
      <4> QED
        BY <1>3, <4>1, <4>2
    <3> QED
      BY <1>8, <2>1, <3>1
  <2> QED
    BY <1>8, <2>2, <2>3, <2>4, <2>5 DEF MarkInv, Has
<1>9. CASE Silent
    BY <1>5, <1>8, <1>9 DEF Silent
<1>10. CASE Lands
  <2> DEFINE e == Head(appends).event
             by == Head(appends).by
  <2>0. appends # <<>> /\ Land /\ Settles(by, e)
    BY <1>10 DEF Lands
  <2>1. \/ e.type \in QueueTypes /\ marks' = marks /\ repeated' = repeated
        \/ /\ e.type \in MarkTypes /\ e.op \in Ops /\ log' = log
           /\ marks' = marks \cup {e} /\ repeated' = (repeated \/ e \in marks)
    BY <2>0, MarkLanded
  <2>2. CASE marks' = marks /\ repeated' = repeated
    BY <1>9, <2>2 DEF Silent
  <2>3. CASE /\ e.type \in MarkTypes /\ e.op \in Ops
             /\ marks' = marks \cup {e} /\ repeated' = (repeated \/ e \in marks)
    <3>1. ~Has(e.op, {e.type}) /\ (e.op \in Items => Started(log, e.op))
      BY <2>0, <2>3, HeadFresh
    <3>2. e.type \notin Missing(e.op, pc'[e.op])
      BY <2>0, <2>3 DEF Settles
    <3>3. by \in Deliveries /\ pc[by] = "closing" => pc'[by] # "closing"
      BY <2>0, <2>3 DEF Settles
    <3>4. by = "drain" => drain'.at # "failing"
      BY <2>0, <2>3 DEF Settles
    <3>5. \/ by \in Turns /\ pc[by] = "messaging" /\ e.type = "message" /\ e.op = by
          \/ /\ by \in Turns \cup Shells \cup Compactions /\ pc[by] = "ending"
             /\ e.type \in TerminalOf(by) /\ e.op = by
          \/ by \in Compactions /\ pc[by] = "recording" /\ e.type = "compaction.queued" /\ e.op = by
          \/ /\ by \in Deliveries /\ e.op = by
             /\ \/ pc[by] = "requesting" /\ e.type = "requested"
                \/ pc[by] = "interrupting" /\ e.type = "interrupting"
                \/ pc[by] = "delivering" /\ e.type = "delivered"
                \/ pc[by] = "failing" /\ e.type = "undelivered"
          \/ by \in Deliveries /\ pc[by] = "closing" /\ e.type = "assistant" /\ e.op = target[by]
          \/ by = "drain" /\ drain.at = "failing" /\ e.type = Failure(drain.op) /\ e.op = drain.op
      BY <2>0, <2>3, MarkSources
    <3>6. ~repeated'
      BY <1>5, <2>3, <3>1 DEF Has
    <3>7. ASSUME NEW d \in Deliveries, pc'[d] = "closing", e.op = target[d], e.type = "assistant"
          PROVE  FALSE
      <4>1. pc[d] = "closing" \/ (pc[d] = "interrupting" /\ Heads(d))
        BY <1>2, <3>7
      <4>2. by \in Deliveries /\ pc[by] = "closing" => by = d
        <5>1. \A p \in Deliveries : pc[p] \in {"closing", "interrupting"} => interruptDelivery = p
          BY DEF StageInv, Delivering, BeforeClaim
        <5> QED
          BY <4>1, <5>1
      <4>3. CASE pc[d] = "interrupting" /\ Heads(d)
        <5>1. by = d
          BY <4>3 DEF Heads
        <5> QED
          BY <3>5, <3>7, <4>3, <5>1, OneKind
      <4>4. CASE pc[d] = "closing"
        <5>1. pc[target[d]] \notin Working
          BY <1>5, <4>4
        <5>2. ~(by \in Deliveries /\ pc[by] = "closing")
          BY <3>3, <3>7, <4>2
        <5>3. \/ by \in Turns \cup Shells \cup Compactions /\ pc[by] = "ending" /\ e.op = by
              \/ (by = "drain" /\ drain.at = "failing" /\ e.type = Failure(drain.op))
          BY <3>5, <3>7, <5>2
        <5> QED
          BY <3>7, <5>1, <5>3 DEF Working, Failure
      <4> QED
        BY <4>1, <4>3, <4>4
    <3>8. ASSUME drain'.at = "failing", e.op = drain'.op, e.type = Failure(drain'.op)
          PROVE  FALSE
      <4>1. marks' # marks
        BY <2>3, <3>1 DEF Has
      <4>2. drain' = drain /\ drain.at = "failing" /\ pc[drain.op] = "failed"
        BY <1>3, <3>8, <4>1 DEF DrainInv, Placed
      <4>3. e.type \in {"error", "compaction.failed"}
        BY <3>8 DEF Failure
      <4>4. by \in Turns \cup Shells \cup Compactions /\ pc[by] = "ending" /\ e.op = by
        BY <3>4, <3>5, <3>8, <4>3
      <4> QED
        BY <3>8, <4>2, <4>4
    <3> HIDE DEF e, by
    <3>9. \A x \in marks' : x \in marks \/ x = e
      BY <2>3
    <3> QED
      BY <1>8, <2>3, <3>1, <3>2, <3>6, <3>7, <3>8, <3>9
  <2> HIDE DEF e, by
  <2> QED
    BY <2>1, <2>2, <2>3
<1>11. CASE Resume
  <2>1. /\ marks' = marks \cup Owed /\ repeated' = repeated /\ pc' = pc /\ drain' = drain /\ phase = "down"
    BY <1>11 DEF Resume, draining
  <2>2. drain.at = "idle" /\ \A o \in Ops : pc[o] \in {"idle"} \cup Over
    BY <2>1 DEF DownInv, Idle
  <2>3. \A e \in Owed : e.op \in Ops => /\ e.type \notin Missing(e.op, pc'[e.op])
                                        /\ e.op \in Items /\ e.type \in Answers => Started(log, e.op)
    <3>1. ASSUME NEW e \in Owed, e.op \in Ops
          PROVE  /\ pc[e.op] # "idle" /\ (e.type = "message" => e.op \in Turns)
                 /\ e.op \in Items /\ e.type \in Answers => Started(log, e.op)
      BY <3>1, OwedFits
    <3>2. ASSUME NEW e \in Owed, e.op \in Ops  PROVE e.type \notin Missing(e.op, pc'[e.op])
      BY <2>1, <2>2, <3>1, <3>2, EndsWell
    <3> QED
      BY <3>1, <3>2
  <2>4. \A d \in Deliveries : pc'[d] # "closing"
    BY <1>0, <2>1, <2>2 DEF Over
  <2> QED
    BY <1>5, <1>8, <2>1, <2>2, <2>3, <2>4
<1> QED
    BY <1>9, <1>10, <1>11, MarksStep

\* A new session has no events at all.
LEMMA InitMarks == Init => MarkInv
<1> SUFFICES ASSUME Init  PROVE MarkInv
    OBVIOUS
<1>1. \A o, types : ~Has(o, types)
    BY DEF Init, Has
<1>2. ~repeated /\ drain.at = "idle" /\ \A d \in Deliveries : pc[d] = "idle"
    BY OneKind DEF Init, Idle
<1> QED
    BY <1>1, <1>2 DEF MarkInv

\* A step that changes nothing keeps what is on record.
LEMMA StutterMarks == MarkInv /\ UNCHANGED vars => MarkInv'
<1> SUFFICES ASSUME MarkInv, UNCHANGED vars  PROVE MarkInv'
    OBVIOUS
<1>1. /\ log' = log /\ marks' = marks /\ repeated' = repeated
      /\ drain' = drain /\ pc' = pc /\ target' = target
    BY DEF vars, events, draining
<1> QED
    BY <1>1 DEF MarkInv, Has

-----------------------------------------------------------------------------
(* The inductive invariant, and the properties of the runs *)

\* A new session has no events, nothing in flight and no operation under way.
LEMMA InitInv == Init => IInv
<1> SUFFICES ASSUME Init  PROVE IInv
    OBVIOUS
<1>0. \A S : <<>> \in Seq(S) /\ ToSet(<<>>) = {} /\ IsInjective(<<>>) /\ Len(<<>>) = 0
    BY DEF ToSet, IsInjective
<1>1. /\ pc = [o \in Ops |-> "idle"] /\ target = [o \in Ops |-> None] /\ drain = [at |-> "idle", op |-> None]
      /\ \A o \in Ops : pc[o] = "idle" /\ target[o] = None
    BY DEF Init, Idle
<1>2. TypeOK
  <2>1. RecordTypes
    BY <1>0 DEF Init, RecordTypes
  <2>2. BranchTypes /\ WorkTypes
    BY <1>0 DEF Init, BranchTypes, WorkTypes
  <2>3. DrainTypes
    <3>1. drain.at = "idle" /\ drain.op = None
      BY <1>1
    <3>2. drain \in [at : {"idle", "loop", "starting", "sending", "failing", "compacting", "reloading"},
                    op : Items \cup Compactions \cup Reloads \cup {None}]
      BY <1>1
    <3> QED
      BY <3>1, <3>2 DEF Init, DrainTypes
  <2>4. LifeTypes
    <3>1. 0 \in 0..MaxCrashes /\ 0 \in 0..MaxFaults
      BY SessionAssumption
    <3> QED
      BY <3>1 DEF Init, LifeTypes
  <2>5. StageTypes
    BY <1>1 DEF StageTypes, Stages
  <2> QED
    BY <2>1, <2>2, <2>3, <2>4, <2>5
    DEF RecordTypes, BranchTypes, WorkTypes, DrainTypes, LifeTypes, StageTypes, TypeOK
<1>3. StageInv
    BY <1>1, OneKind DEF Init, StageInv, MayBeAt, Delivering, BeforeClaim, Working, Over
<1>4. OwnerInv
    BY <1>1 DEF Init, OwnerInv, OneOwner
<1>5. DrainInv
    BY <1>0, <1>1, OneKind DEF Init, DrainInv, Placed, Listed, Claimed, Working
<1>6. DownInv
    BY DEF Init, DownInv
<1>7. FlightInv
    BY <1>0 DEF Init, FlightInv
<1>8. QueueInv
  <2>1. WellFormed(log)
    BY DEF Init, WellFormed
  <2>2. Held = {}
    BY <1>0, <1>1 DEF Init, Held, Starting
  <2>3. \A i \in Items : ~Recorded(log, i) /\ ~IsPaused(log, i)
    BY <1>0 DEF Init, Recorded, IsPaused
  <2> QED
    BY <1>0, <1>1, <2>1, <2>2, <2>3, OneKind DEF Init, QueueInv, Starting, Claimed, Working
<1>9. InterruptInv
    BY <1>1, OneKind DEF Init, InterruptInv, InterruptHonoured
<1>10. MatchInv
  <2>1. Pending = <<>> /\ Without(<<>>, ToSet(pausing) \cup Starting) = <<>>
    BY <1>0, PendingNone, WithoutNone DEF Init, Pending
  <2> QED
    BY <1>0, <2>1 DEF Init, MatchInv
<1>11. DeliveryIsolated
    BY DEF Init, DeliveryIsolated
<1> QED
    BY <1>2, <1>3, <1>4, <1>5, <1>6, <1>7, <1>8, <1>9, <1>10, <1>11 DEF IInv

\* A step that changes nothing keeps the invariant.
LEMMA StutterInv == IInv /\ UNCHANGED vars => IInv'
<1> SUFFICES ASSUME IInv, UNCHANGED vars  PROVE IInv'
    OBVIOUS
<1>1. /\ log' = log /\ marks' = marks /\ repeated' = repeated /\ appends' = appends
      /\ queue' = queue /\ compactions' = compactions /\ reloads' = reloads
      /\ activeTurn' = activeTurn /\ aborted' = aborted /\ rebuilding' = rebuilding
      /\ interruptDelivery' = interruptDelivery /\ pendingInterrupts' = pendingInterrupts
      /\ mutation' = mutation /\ drain' = drain /\ broken' = broken
      /\ disposing' = disposing /\ stopping' = stopping /\ phase' = phase /\ awaited' = awaited
      /\ pausing' = pausing /\ pc' = pc /\ target' = target
      /\ interrupted' = interrupted /\ crashes' = crashes /\ faults' = faults
    BY DEF vars
<1>2. TypeOK'
    BY <1>1 DEF IInv, TypeOK
<1>3. StageInv' /\ OwnerInv'
    BY <1>1, Zenon DEF IInv, StageInv, MayBeAt, OwnerInv, OneOwner
<1>4. DrainInv'
    BY <1>1 DEF IInv, DrainInv, Placed, Listed
<1>5. DownInv' /\ FlightInv'
  <2>1. DownInv'
    BY <1>1 DEF IInv, DownInv
  <2>2. ASSUME NEW by, NEW e, Awaits(by, e)  PROVE Awaits(by, e)'
    <3>1. Keeps("drain") /\ Keeps("resume") /\ "drain" # "resume"
      BY <1>1 DEF Keeps
    <3> QED
      BY <2>2, <3>1, AwaitsKept
  <2> QED
    BY <1>1, <2>1, <2>2 DEF IInv, FlightInv
<1>6. QueueInv' /\ InterruptInv' /\ DeliveryIsolated'
    BY <1>1, Zenon
    DEF IInv, QueueInv, Held, Starting, InterruptInv, InterruptHonoured, Begun, DeliveryIsolated
<1>7. MatchInv'
    BY <1>1, Zenon DEF IInv, MatchInv, NoReturn, Pending, Starting
<1> QED
    BY <1>2, <1>3, <1>4, <1>5, <1>6, <1>7 DEF IInv

\* The invariant holds in every state of the session.
THEOREM Invariant == Spec => []IInv
<1>1. IInv /\ Next => IInv'
    BY TypeStep, StageStep, OwnerStep, DrainStep, DownStep, FlightStep, QueueStep, InterruptStep,
       MatchStep,
       IsolatedStep DEF IInv
<1> QED
    BY <1>1, InitInv, StutterInv, PTL DEF Spec

\* Every variable stays in its domain.
THEOREM TypesHold == Spec => []TypeOK
<1>1. IInv => TypeOK
    BY DEF IInv
<1> QED
    BY <1>1, Invariant, PTL

\* One operation at a time owns the branch (send, shell, compact, drainQueue).
THEOREM OneOwnerHolds == Spec => []OneOwner
<1>1. IInv => OneOwner
    BY DEF IInv, OwnerInv
<1> QED
    BY <1>1, Invariant, PTL

\* An accepted interrupt is not missed: its target owns the branch aborted (interrupt, send, shell).
THEOREM InterruptsHonoured == Spec => []InterruptHonoured
<1>1. IInv => InterruptHonoured
    BY DEF IInv, InterruptInv
<1> QED
    BY <1>1, Invariant, PTL

\* No prompt slips in between an interrupt and its replacement (reserveInterruptDelivery, send).
THEOREM DeliveriesIsolated == Spec => []DeliveryIsolated
<1>1. IInv => DeliveryIsolated
    BY DEF IInv
<1> QED
    BY <1>1, Invariant, PTL

\* A restart never runs a waiting prompt by itself (pauseRecoveredQueue, requeue).
THEOREM PausedHolds == Spec => []PausedNeedsRequeue
<1>1. IInv => PausedNeedsRequeue
    BY DEF IInv, QueueInv, WellFormed, Names, PausedNeedsRequeue
<1> QED
    BY <1>1, Invariant, PTL

\* The prompts in memory are those the log says are waiting, in the same order
\* (enqueue, requeue, restoreQueue, drainQueue, pauseRecoveredQueue).
THEOREM QueueMatches == Spec => []QueueMatchesLog
<1>1. ASSUME IInv, phase = "open", ~disposing, pausing = <<>>, NoReturn
      PROVE  queue = Without(Pending, IF drain.at = "starting" THEN {drain.op} ELSE {})
  <2>1. ToSet(pausing) \cup Starting = IF drain.at = "starting" THEN {drain.op} ELSE {}
    BY <1>1 DEF ToSet, Starting
  <2> QED
    BY <1>1, <2>1 DEF IInv, MatchInv
<1>2. IInv => QueueMatchesLog
    BY <1>1 DEF QueueMatchesLog, NoReturn
<1> QED
    BY <1>2, Invariant, PTL

\* A prompt reaches the model once and ends once (drainQueue, requeue, interruptAndDeliver,
\* recovery).
THEOREM PromptsOnce == Spec => []PromptOnce
<1>1. IInv /\ MarkInv /\ [Next]_vars => MarkInv'
    BY MarkStep, StutterMarks DEF IInv
<1>2. IInv /\ MarkInv => PromptOnce
  <2> SUFFICES ASSUME IInv, MarkInv, NEW o \in Ops, pc[o] = "claiming"
               PROVE  ~repeated /\ ~Has(o, Answers)
    BY DEF PromptOnce, MarkInv, Answers
  <2>1. o \in Turns \cup Shells
    BY DEF IInv, StageInv, MayBeAt, Ops, Over
  <2>2. Answers \subseteq Missing(o, "claiming")
    BY <2>1 DEF Missing, Answers, BeforeClaim, MarkTypes
  <2> QED
    BY <2>2 DEF MarkInv, Has
<1> QED
    BY <1>1, <1>2, InitMarks, Invariant, PTL DEF Spec
=============================================================================
