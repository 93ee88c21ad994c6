--------------------------- MODULE EventLogProofs ---------------------------
(***************************************************************************)
(* What the log promises for every set of events and every number of       *)
(* crashes: the variables keep their types, a held event survives, and a   *)
(* rejected one leaves nothing behind.                                     *)
(*                                                                         *)
(* While nothing has disturbed the log (Undisturbed), the file is a        *)
(* sequence of whole lines that begins with the held events and goes on    *)
(* with no more than what the head of the chain has written; that is       *)
(* Store, and it is inductive together with the types.                     *)
(***************************************************************************)
EXTENDS EventLog, WellFoundedInduction, TLAPS

\* The least-number principle, from well-foundedness.

LEMMA Least ==
    ASSUME NEW T, T \subseteq Nat, T # {}
    PROVE  \E x \in T : \A y \in T : x <= y
<1> DEFINE R == {ss \in Nat \X Nat : ss[1] < ss[2]}
<1>1. IsWellFoundedOn(R, Nat)
    BY NatLessThanWellFounded DEF OpToRel
<1>2. PICK x \in T : \A y \in T : ~(<<y, x>> \in R)
  <2> HIDE DEF R
  <2> QED
    BY <1>1, WFMin, Zenon
<1>3. ASSUME NEW y \in T  PROVE x <= y
  <2>1. x \in Nat /\ y \in Nat /\ ~(<<y, x>> \in R)
    BY <1>2
  <2>2. y < x => <<y, x>> \in R
    BY <2>1
  <2> HIDE DEF R
  <2> QED
    BY <2>1, <2>2
<1> QED
    BY <1>2, <1>3

\* Sequences are functions on 1..n.
LEMMA SeqOf ==
    ASSUME NEW S, NEW n \in Nat, NEW f \in [1..n -> S]
    PROVE  f \in Seq(S) /\ Len(f) = n
OBVIOUS

LEMMA SeqIs ==
    ASSUME NEW S, NEW f \in Seq(S)
    PROVE  Len(f) \in Nat /\ f \in [1..Len(f) -> S] /\ \A i \in 1..Len(f) : f[i] \in S
OBVIOUS

\* The three kinds of cell, and what each tells.
LEMMA CellKinds ==
    /\ Hole \in Cells /\ Hole[1] = "hole"
    /\ \A e \in Events : /\ Body(e) \in Cells /\ Body(e)[1] = "body" /\ Body(e)[2] = e
                         /\ Newline(e) \in Cells /\ Newline(e)[1] = "newline" /\ Newline(e)[2] = e
    /\ \A c \in Cells : \/ c = Hole
                        \/ \E e \in Events : c = Body(e)
                        \/ \E e \in Events : c = Newline(e)
    /\ \A c \in Cells : c[1] = "newline" => c[2] \in Events /\ c = Newline(c[2])
BY DEF Cells, Hole, Body, Newline

\* What pwrite leaves: its cells at the place, the others as they were.
LEMMA WriteAtType ==
    ASSUME NEW f \in Seq(Cells), NEW p \in Nat, NEW c \in Seq(Cells)
    PROVE  /\ WriteAt(f, p, c) \in Seq(Cells)
           /\ Len(WriteAt(f, p, c)) = IF Len(f) > p + Len(c) THEN Len(f) ELSE p + Len(c)
           /\ \A i \in 1..Len(WriteAt(f, p, c)) : WriteAt(f, p, c)[i] =
                 (IF i \in (p + 1)..(p + Len(c)) THEN c[i - p]
                  ELSE IF i <= Len(f) THEN f[i] ELSE Hole)
<1> DEFINE n == IF Len(f) > p + Len(c) THEN Len(f) ELSE p + Len(c)
<1>1. n \in Nat
    BY SeqIs
<1>2. WriteAt(f, p, c) \in [1..n -> Cells]
    BY SeqIs, CellKinds DEF WriteAt
<1> QED
    BY <1>1, <1>2, SeqOf DEF WriteAt

\* What ftruncate leaves.
LEMMA TruncateType ==
    ASSUME NEW f \in Seq(Cells), NEW s \in Nat
    PROVE  /\ Truncate(f, s) \in Seq(Cells) /\ Len(Truncate(f, s)) = s
           /\ \A i \in 1..s : Truncate(f, s)[i] = IF i <= Len(f) THEN f[i] ELSE Hole
<1>1. Truncate(f, s) \in [1..s -> Cells]
    BY SeqIs, CellKinds DEF Truncate
<1> QED
    BY <1>1, SeqOf DEF Truncate

\* The clean length is the last newline's place.
LEMMA CleanLengthIsLast ==
    ASSUME NEW f \in Seq(Cells)
    PROVE  /\ CleanLength(f) \in 0..Len(f)
           /\ Newlines(f) = {} => CleanLength(f) = 0
           /\ Newlines(f) # {} => /\ CleanLength(f) \in Newlines(f)
                                  /\ \A j \in Newlines(f) : j <= CleanLength(f)
<1>1. Newlines(f) \subseteq 1..Len(f) /\ Len(f) \in Nat
    BY SeqIs DEF Newlines
<1>2. CASE Newlines(f) = {}
    BY <1>1, <1>2 DEF CleanLength
<1>3. CASE Newlines(f) # {}
  <2> DEFINE T == {Len(f) - i : i \in Newlines(f)}
  <2>1. T \subseteq Nat /\ T # {}
    BY <1>1, <1>3
  <2>2. PICK x \in T : \A y \in T : x <= y
    BY <2>1, Least
  <2>3. PICK i \in Newlines(f) : x = Len(f) - i
    BY <2>2
  <2>4. \A j \in Newlines(f) : j <= i
    <3> SUFFICES ASSUME NEW j \in Newlines(f)  PROVE j <= i
      OBVIOUS
    <3>1. Len(f) - j \in T
      OBVIOUS
    <3>2. x <= Len(f) - j
      BY <2>2, <3>1
    <3> QED
      BY <1>1, <2>3, <3>2
  <2>5. CleanLength(f) \in Newlines(f) /\ \A j \in Newlines(f) : j <= CleanLength(f)
    BY <1>3, <2>4 DEF CleanLength
  <2> QED
    BY <1>1, <1>3, <2>5
<1> QED
    BY <1>2, <1>3

\* A number is even or odd.
LEMMA Parity == \A i \in Nat : /\ i = 2 * (i \div 2) \/ i = 2 * (i \div 2) + 1
                               /\ i \div 2 \in Nat
OBVIOUS

\* In a decodable file the newlines are the even places up to the clean length.
LEMMA DecodableNewlines ==
    ASSUME NEW f \in Seq(Cells), Decodable(f)
    PROVE  /\ CleanLength(f) = 2 * (CleanLength(f) \div 2)
           /\ \A n \in 1..(CleanLength(f) \div 2) : 2 * n \in Newlines(f)
<1>1. Newlines(f) \subseteq 1..Len(f) /\ Len(f) \in Nat
    BY SeqIs DEF Newlines
<1>2. \A i \in Newlines(f) : i >= 2 /\ (i = 2 \/ i - 2 \in Newlines(f))
    BY DEF Decodable, LineParses
<1>3. \A i \in Newlines(f) : i = 2 * (i \div 2)
  <2> DEFINE T == {i \in Newlines(f) : i # 2 * (i \div 2)}
  <2>1. SUFFICES ASSUME T # {}  PROVE FALSE
    OBVIOUS
  <2>2. PICK x \in T : \A y \in T : x <= y
    <3>1. T \subseteq Nat
      BY <1>1
    <3> HIDE DEF T
    <3> QED
      BY <2>1, <3>1, Least
  <2>3. x \in Nat /\ x >= 2 /\ x # 2 * (x \div 2) /\ x - 2 \in Newlines(f)
    BY <1>1, <1>2, <2>2
  <2>4. x - 2 # 2 * ((x - 2) \div 2)
    BY <2>3
  <2>5. x - 2 \in T
    BY <2>3, <2>4
  <2> QED
    BY <2>2, <2>3, <2>5
<1>4. CleanLength(f) = 2 * (CleanLength(f) \div 2)
    BY <1>1, <1>3, CleanLengthIsLast
<1>5. \A n \in 1..(CleanLength(f) \div 2) : 2 * n \in Newlines(f)
  <2> DEFINE c == CleanLength(f) \div 2
             T == {k \in Nat : k < c /\ 2 * (c - k) \notin Newlines(f)}
  <2>1. c \in Nat /\ CleanLength(f) = 2 * c /\ (c > 0 => 2 * c \in Newlines(f))
    <3>1. CleanLength(f) \in Nat
      BY <1>1, CleanLengthIsLast
    <3>2. c \in Nat
      BY <3>1, Parity
    <3>3. CleanLength(f) # 0 => CleanLength(f) \in Newlines(f)
      BY CleanLengthIsLast
    <3>4. c > 0 => CleanLength(f) # 0
      BY <1>4, <3>2
    <3>5. CleanLength(f) = 2 * c
      BY <1>4
    <3> HIDE DEF c
    <3> QED
      BY <3>2, <3>3, <3>4, <3>5
  <2>2. T = {}
    <3>1. SUFFICES ASSUME T # {}  PROVE FALSE
      OBVIOUS
    <3>2. PICK x \in T : \A y \in T : x <= y
      <4>1. T \subseteq Nat
        OBVIOUS
      <4> HIDE DEF T
      <4> QED
        BY <3>1, <4>1, Least
    <3>3. x \in Nat /\ x < c /\ 2 * (c - x) \notin Newlines(f) /\ x # 0
      BY <2>1, <3>2
    <3>4. x - 1 \in Nat /\ x - 1 \notin T
      BY <3>2, <3>3
    <3>5. 2 * (c - (x - 1)) \in Newlines(f)
      BY <2>1, <3>3, <3>4
    <3>6. 2 * (c - (x - 1)) = 2 * (c - x) + 2 /\ 2 * (c - x) >= 2
      BY <2>1, <3>3
    <3>7. 2 * (c - x) + 2 \in Newlines(f)
      BY <3>5, <3>6
    <3>8. 2 * (c - x) + 2 = 2 \/ (2 * (c - x) + 2) - 2 \in Newlines(f)
      BY <1>2, <3>7
    <3>9. 2 * (c - x) + 2 # 2 /\ (2 * (c - x) + 2) - 2 = 2 * (c - x)
      BY <2>1, <3>3, <3>6
    <3> QED
      BY <3>3, <3>8, <3>9
  <2>3. ASSUME NEW n \in 1..c  PROVE 2 * n \in Newlines(f)
    <3>1. c - n \in Nat /\ c - n < c /\ c - (c - n) = n
      BY <2>1
    <3> QED
      BY <2>2, <3>1
  <2> QED
    BY <2>3
<1> QED
    BY <1>4, <1>5

\* Decoding takes the event of each newline in turn.
LEMMA DecodedType ==
    ASSUME NEW f \in Seq(Cells), Decodable(f)
    PROVE  /\ Decoded(f) \in Seq(Events) /\ Len(Decoded(f)) = CleanLength(f) \div 2
           /\ \A n \in 1..Len(Decoded(f)) : f[2 * n] = Newline(Decoded(f)[n])
<1>1. CleanLength(f) \div 2 \in Nat
    BY CleanLengthIsLast, Parity, SeqIs
<1>2. \A n \in 1..(CleanLength(f) \div 2) :
         f[2 * n] \in Cells /\ f[2 * n][2] \in Events /\ f[2 * n] = Newline(f[2 * n][2])
    BY DecodableNewlines, CellKinds, SeqIs DEF Newlines
<1>3. Decoded(f) \in [1..(CleanLength(f) \div 2) -> Events]
    BY <1>2 DEF Decoded
<1>4. Decoded(f) \in Seq(Events) /\ Len(Decoded(f)) = CleanLength(f) \div 2
    BY <1>1, <1>3, SeqOf
<1> QED
    BY <1>2, <1>4 DEF Decoded

LEMMA PartType ==
    ASSUME NEW S, NEW s \in Seq(S), NEW a \in 1..Len(s), NEW b \in 1..Len(s)
    PROVE  SubSeq(s, a, b) \in Seq(S)
OBVIOUS

\* The part of a line one write puts down.
LEMMA LineType ==
    ASSUME NEW h \in Events, NEW w \in 0..2, NEW n \in 1..2, n <= 2 - w
    PROVE  /\ SubSeq(Line(h), w + 1, w + n) \in Seq(Cells)
           /\ Len(SubSeq(Line(h), w + 1, w + n)) = n
           /\ \A i \in 1..n : SubSeq(Line(h), w + 1, w + n)[i] = Line(h)[w + i]
           /\ Line(h)[1] = Body(h) /\ Line(h)[2] = Newline(h)
<1>1. Body(h) \in Cells /\ Newline(h) \in Cells
    BY CellKinds
<1>2. Line(h) \in Seq(Cells) /\ Len(Line(h)) = 2 /\ Line(h)[1] = Body(h) /\ Line(h)[2] = Newline(h)
    BY <1>1 DEF Line
<1>3. w + 1 \in 1..2 /\ w + n \in 1..2 /\ (w + n) - (w + 1) + 1 = n
    OBVIOUS
<1>4. SubSeq(Line(h), w + 1, w + n) \in Seq(Cells)
    BY <1>2, <1>3, PartType
<1>5. Len(SubSeq(Line(h), w + 1, w + n)) = n
    BY <1>2, <1>3
<1>6. \A i \in 1..n : SubSeq(Line(h), w + 1, w + n)[i] = Line(h)[w + i]
    BY <1>2, <1>3
<1> QED
    BY <1>2, <1>4, <1>5, <1>6

-----------------------------------------------------------------------------
(* Types *)

\* An append under way is in the chain.
Typed == TypeOK /\ (started => queue # <<>>)

LEMMA EmptySeq == \A S : <<>> \in Seq(S)
OBVIOUS

\* The types, with the chain's head.
LEMMA TypedHolds == Spec => []Typed
<1>1. Init => Typed
  <2>1. Init => /\ ~started /\ started \in BOOLEAN /\ reading \in BOOLEAN
                /\ retracted \in BOOLEAN /\ intruded \in BOOLEAN
    BY Zenon DEF Init
  <2> QED
    BY <2>1, LogAssumption, EmptySeq DEF Init, Typed, TypeOK
<1>2. Typed /\ [Next]_vars => Typed'
  <2> SUFFICES ASSUME Typed, [Next]_vars  PROVE Typed'
    OBVIOUS
  <2> USE LogAssumption
  <2>q. queue # <<>> => Head(queue) \in Events /\ Tail(queue) \in Seq(Events)
    BY DEF Typed, TypeOK
  <2>t. \A s \in Nat : Truncate(file, s) \in Seq(Cells)
    BY TruncateType DEF Typed, TypeOK
  <2>c. CleanLength(file) \in Nat
    BY CleanLengthIsLast, SeqIs DEF Typed, TypeOK
  <2>1. CASE Open
    BY <2>1, <2>t, <2>c, DecodedType
       DEF Typed, TypeOK, Open, append, listing, bounds, history
  <2>2. ASSUME NEW e \in Events, Submit(e)  PROVE Typed'
    BY <2>2 DEF Typed, TypeOK, Submit, listing, bounds, history
  <2>3. CASE Refuse
    BY <2>3, <2>q DEF Typed, TypeOK, Refuse, Settle, listing, bounds, history
  <2>4. CASE Begin
    BY <2>4 DEF Typed, TypeOK, Begin, listing, bounds, history
  <2>5. ASSUME NEW n \in 1..2, Write(n)  PROVE Typed'
    <3>1. started /\ n <= 2 - written /\ before \in Nat /\ written \in 0..2
      BY <2>5 DEF Write, Typed, TypeOK
    <3>2. before + written \in Nat
      BY <3>1
    <3>3. queue # <<>>
      BY <3>1 DEF Typed
    <3>4. WriteAt(file, before + written, SubSeq(Line(Head(queue)), written + 1, written + n)) \in Seq(Cells)
      BY <3>1, <3>2, <3>3, <2>q, LineType, WriteAtType DEF Typed, TypeOK
    <3> QED
      BY <2>5, <3>1, <3>3, <3>4 DEF Typed, TypeOK, Write, listing, bounds, history
  <2>6. CASE Sync
    <3>1. ~started' /\ started' \in BOOLEAN
      BY <2>6, Zenon DEF Sync, Settle
    <3> QED
      BY <3>1, <2>6, <2>q DEF Typed, TypeOK, Sync, Settle, listing, bounds, history
  <2>7. CASE FailRolledBack
    <3>1. ~started' /\ started' \in BOOLEAN
      BY <2>7, Zenon DEF FailRolledBack, Settle
    <3>2. file' \in Seq(Cells) /\ Head(queue) \in Events /\ Tail(queue) \in Seq(Events)
      BY <2>7, <2>q, <2>t DEF FailRolledBack, Typed, TypeOK
    <3> QED
      BY <3>1, <3>2, <2>7, <2>q DEF Typed, TypeOK, FailRolledBack, Settle, listing, bounds, history
  <2>8. CASE FailStuck
    <3>1. ~started' /\ started' \in BOOLEAN
      BY <2>8, Zenon DEF FailStuck, Settle
    <3>2. file' \in Seq(Cells) /\ Head(queue) \in Events /\ Tail(queue) \in Seq(Events)
      BY <2>8, <2>q, <2>t DEF FailStuck, Typed, TypeOK
    <3> QED
      BY <3>1, <3>2, <2>8, <2>q DEF Typed, TypeOK, FailStuck, Settle, listing, history
  <2>9. CASE ListRead
    BY <2>9, <2>c DEF Typed, TypeOK, ListRead, append, history
  <2>10. CASE ListTruncate
    BY <2>10, <2>t DEF Typed, TypeOK, ListTruncate, append, bounds
  <2>11. CASE Kill
    <3>1. ~started' /\ started' \in BOOLEAN /\ reading' \in BOOLEAN
      BY <2>11, Zenon DEF Kill, Exit
    <3> QED
      BY <3>1, <2>11, EmptySeq DEF Typed, TypeOK, Kill, Exit, history
  <2>12. CASE PowerLoss
    <3>1. \A f \in AfterPowerLoss : f \in Seq(Cells)
      <4>1. file \in Seq(Cells) /\ disk \in Seq(Cells)
        BY DEF Typed, TypeOK
      <4>2. \A n \in Len(disk)..Len(file) : SubSeq(file, 1, n) \in Seq(Cells)
        BY <4>1
      <4> QED
        BY <4>1, <4>2 DEF AfterPowerLoss
    <3>2. /\ ~started' /\ started' \in BOOLEAN /\ reading' \in BOOLEAN
          /\ retracted' \in BOOLEAN
      BY <2>12, Zenon DEF PowerLoss, Exit
    <3> QED
      BY <2>12, <3>1, <3>2, EmptySeq DEF Typed, TypeOK, PowerLoss, Exit
  <2>13. CASE UNCHANGED vars
    BY <2>13 DEF Typed, TypeOK, vars, append, listing, bounds, history
  <2> QED
    BY <2>1, <2>2, <2>3, <2>4, <2>5, <2>6, <2>7, <2>8, <2>9, <2>10, <2>11, <2>12, <2>13
       DEF Next, LogStep
<1> QED
    BY <1>1, <1>2, PTL DEF Spec

\* The variables keep their types through every write, rollback, listing and crash.
THEOREM TypeCorrect == Spec => []TypeOK
<1>1. Typed => TypeOK
    BY DEF Typed
<1> QED
    BY <1>1, TypedHolds, PTL

-----------------------------------------------------------------------------
(* The file as a sequence of lines *)

\* Whole lines, the last one possibly without its newline.
Lines(f) ==
    \A n \in 1..Len(f) :
       /\ 2 * n - 1 <= Len(f) => \E e \in Events : f[2 * n - 1] = Body(e)
       /\ 2 * n <= Len(f) => \E e \in Events : f[2 * n - 1] = Body(e) /\ f[2 * n] = Newline(e)

\* The file begins with the lines of the events s.
Holds(f, s) == 2 * Len(s) <= Len(f) /\ \A i \in 1..Len(s) : f[2 * i] = Newline(s[i])

\* Whole lines decode to one event per newline.
LEMMA LinesFacts ==
    ASSUME NEW f \in Seq(Cells), Lines(f)
    PROVE  /\ \A n \in 1..Len(f) : 2 * n <= Len(f) => 2 * n \in Newlines(f)
           /\ \A i \in Newlines(f) : \E n \in 1..Len(f) : i = 2 * n
           /\ Decodable(f)
           /\ CleanLength(f) = 2 * (Len(f) \div 2)
           /\ Len(Decoded(f)) = Len(f) \div 2
<1>1. Newlines(f) \subseteq 1..Len(f) /\ Len(f) \in Nat
    BY SeqIs DEF Newlines
<1>2. \A n \in 1..Len(f) : 2 * n <= Len(f) => 2 * n \in Newlines(f)
    BY <1>1, CellKinds DEF Lines, Newlines
<1>3. ASSUME NEW i \in Newlines(f)  PROVE \E n \in 1..Len(f) : i = 2 * n
  <2>1. i \in 1..Len(f) /\ f[i][1] = "newline"
    BY DEF Newlines
  <2>2. CASE i = 2 * (i \div 2)
    BY <2>1, <2>2, <1>1
  <2>3. CASE i # 2 * (i \div 2)
    <3>1. PICK n \in 1..Len(f) : i = 2 * n - 1
      <4>1. i \in Nat /\ i >= 1 /\ i <= Len(f)
        BY <2>1, <1>1
      <4>2. i \div 2 \in Nat /\ i = 2 * (i \div 2) + 1
        BY <4>1, <2>3, Parity
      <4>3. i \div 2 + 1 \in 1..Len(f) /\ i = 2 * (i \div 2 + 1) - 1
        BY <4>1, <4>2, <1>1
      <4> QED
        BY <4>3
    <3>2. PICK e \in Events : f[i] = Body(e)
      BY <3>1, <2>1 DEF Lines
    <3> QED
      BY <3>2, <2>1, CellKinds
  <2> QED
    BY <2>2, <2>3
<1>4. Decodable(f)
  <2> SUFFICES ASSUME NEW i \in Newlines(f)  PROVE LineParses(f, i)
    BY DEF Decodable
  <2>1. PICK n \in 1..Len(f) : i = 2 * n
    BY <1>3
  <2>2. i <= Len(f) /\ i >= 2 /\ i - 1 = 2 * n - 1
    BY <2>1, <1>1
  <2>3. PICK e \in Events : f[i - 1] = Body(e) /\ f[i] = Newline(e)
    BY <2>1, <2>2 DEF Lines
  <2>4. i = 2 \/ (i - 2) \in Newlines(f)
    <3>1. CASE n = 1
      BY <3>1, <2>1
    <3>2. CASE n # 1
      <4>1. n - 1 \in 1..Len(f) /\ 2 * (n - 1) <= Len(f) /\ 2 * (n - 1) = i - 2
        BY <3>2, <2>1, <2>2, <1>1
      <4> QED
        BY <4>1, <1>2
    <3> QED
      BY <3>1, <3>2
  <2> QED
    BY <2>2, <2>3, <2>4, CellKinds DEF LineParses
<1>5. CleanLength(f) = 2 * (Len(f) \div 2)
  <2> DEFINE c == Len(f) \div 2
  <2>1. c \in Nat /\ (Len(f) = 2 * c \/ Len(f) = 2 * c + 1)
    BY <1>1, Parity
  <2> HIDE DEF c
  <2>2. CASE c = 0
    <3>1. Newlines(f) = {}
      <4>1. Len(f) = 0 \/ Len(f) = 1
        BY <2>1, <2>2
      <4>2. \A n \in 1..Len(f) : 2 * n > Len(f)
        BY <4>1
      <4> QED
        BY <4>2, <1>1, <1>3
    <3> QED
      BY <3>1, <2>2, CleanLengthIsLast DEF c
  <2>3. CASE c # 0
    <3>1. 2 * c \in Newlines(f)
      BY <2>1, <2>3, <1>1, <1>2
    <3>2. CleanLength(f) \in Newlines(f) /\ 2 * c <= CleanLength(f)
      BY <3>1, CleanLengthIsLast
    <3>3. PICK n \in 1..Len(f) : CleanLength(f) = 2 * n
      BY <3>2, <1>3
    <3>4. CleanLength(f) = 2 * c
      BY <3>2, <3>3, <2>1, <1>1
    <3> QED
      BY <3>4 DEF c
  <2> QED
    BY <2>2, <2>3
<1>6. Len(Decoded(f)) = Len(f) \div 2
  <2> DEFINE c == Len(f) \div 2
  <2>1. c \in Nat
    BY <1>1, Parity
  <2>2. CleanLength(f) \div 2 = c
    <3>1. CleanLength(f) = 2 * c
      BY <1>5
    <3> HIDE DEF c
    <3> QED
      BY <3>1, <2>1
  <2> QED
    BY <2>2, <1>4, DecodedType
<1> QED
    BY <1>2, <1>3, <1>4, <1>5, <1>6

\* A file that holds the lines of s decodes to s and more.
LEMMA HoldsDecoded ==
    ASSUME NEW f \in Seq(Cells), Lines(f), NEW s \in Seq(Events), Holds(f, s)
    PROVE  /\ Len(s) <= Len(Decoded(f))
           /\ \A i \in 1..Len(s) : Decoded(f)[i] = s[i]
<1>1. Len(s) \in Nat /\ Len(f) \in Nat /\ 2 * Len(s) <= Len(f)
    BY SeqIs DEF Holds
<1>2. Len(s) <= Len(f) \div 2
    BY <1>1
<1>3. Len(Decoded(f)) = Len(f) \div 2 /\ Len(f) \div 2 \in Nat
    BY LinesFacts, Parity, <1>1
<1>4. ASSUME NEW i \in 1..Len(s)  PROVE Decoded(f)[i] = s[i]
  <2>1. i \in 1..Len(Decoded(f)) /\ s[i] \in Events
    BY <1>1, <1>2, <1>3
  <2>2. Decoded(f)[i] \in Events /\ f[2 * i] = Newline(Decoded(f)[i])
    BY <2>1, LinesFacts, DecodedType
  <2>3. f[2 * i] = Newline(s[i])
    BY DEF Holds
  <2>4. Newline(Decoded(f)[i])[2] = Decoded(f)[i] /\ Newline(s[i])[2] = s[i]
    BY <2>1, <2>2, CellKinds
  <2> QED
    BY <2>2, <2>3, <2>4
<1> QED
    BY <1>2, <1>3, <1>4

\* A prefix of a file of lines is one, and records nothing else.
LEMMA Prefix ==
    ASSUME NEW f \in Seq(Cells), Lines(f), NEW g \in Seq(Cells), Extends(f, g)
    PROVE  /\ Lines(g)
           /\ Recorded(g) \subseteq Recorded(f)
           /\ \A s \in Seq(Events) : Holds(f, s) /\ 2 * Len(s) <= Len(g) => Holds(g, s)
<1>1. Len(g) \in Nat /\ Len(f) \in Nat /\ Len(g) <= Len(f) /\ \A i \in 1..Len(g) : f[i] = g[i]
    BY SeqIs DEF Extends
<1>2. Lines(g)
  <2> SUFFICES ASSUME NEW n \in 1..Len(g)
               PROVE /\ 2 * n - 1 <= Len(g) => \E e \in Events : g[2 * n - 1] = Body(e)
                     /\ 2 * n <= Len(g) => \E e \in Events : g[2 * n - 1] = Body(e) /\ g[2 * n] = Newline(e)
    BY DEF Lines
  <2>1. n \in 1..Len(f)
    BY <1>1
  <2>2. CASE 2 * n - 1 <= Len(g)
    <3>1. f[2 * n - 1] = g[2 * n - 1] /\ (2 * n <= Len(g) => f[2 * n] = g[2 * n])
      BY <1>1, <2>2
    <3>2. /\ \E e \in Events : f[2 * n - 1] = Body(e)
          /\ 2 * n <= Len(g) => \E e \in Events : f[2 * n - 1] = Body(e) /\ f[2 * n] = Newline(e)
      BY <1>1, <2>1, <2>2 DEF Lines
    <3> QED
      BY <3>1, <3>2
  <2>3. CASE ~(2 * n - 1 <= Len(g))
    BY <2>3, <1>1
  <2> QED
    BY <2>2, <2>3
<1>3. Recorded(g) \subseteq Recorded(f)
    BY <1>1 DEF Recorded, Newlines
<1>4. ASSUME NEW s \in Seq(Events), Holds(f, s), 2 * Len(s) <= Len(g)  PROVE Holds(g, s)
  <2>1. Len(s) \in Nat
    BY SeqIs
  <2>2. ASSUME NEW i \in 1..Len(s)  PROVE g[2 * i] = Newline(s[i])
    <3>1. 2 * i \in 1..Len(g)
      BY <1>1, <1>4, <2>1
    <3> QED
      BY <1>1, <1>4, <3>1 DEF Holds
  <2> QED
    BY <1>4, <2>2 DEF Holds
<1> QED
    BY <1>2, <1>3, <1>4

\* Cutting a file leaves a prefix of it.
LEMMA Cut ==
    ASSUME NEW f \in Seq(Cells), NEW s \in Nat, s <= Len(f)
    PROVE  Truncate(f, s) \in Seq(Cells) /\ Len(Truncate(f, s)) = s /\ Extends(f, Truncate(f, s))
BY TruncateType, SeqIs DEF Extends

\* The held events are recorded.
LEMMA SeenRecorded ==
    ASSUME NEW f \in Seq(Cells), NEW s \in Seq(Events), Holds(f, s)
    PROVE  \A i \in 1..Len(s) : s[i] \in Recorded(f)
<1> SUFFICES ASSUME NEW i \in 1..Len(s)  PROVE s[i] \in Recorded(f)
    OBVIOUS
<1>1. 2 * i \in 1..Len(f) /\ f[2 * i] = Newline(s[i]) /\ s[i] \in Events
    BY SeqIs DEF Holds
<1>2. f[2 * i][1] = "newline" /\ f[2 * i][2] = s[i]
    BY <1>1, CellKinds
<1> QED
    BY <1>1, <1>2 DEF Recorded, Newlines

\* Nothing but the lines of s: nothing else is recorded.
LEMMA OnlySeen ==
    ASSUME NEW f \in Seq(Cells), Lines(f), NEW s \in Seq(Events), Holds(f, s),
           Len(f) <= 2 * Len(s) + 1
    PROVE  \A e \in Recorded(f) : \E i \in 1..Len(s) : e = s[i]
<1> SUFFICES ASSUME NEW j \in Newlines(f)  PROVE \E i \in 1..Len(s) : f[j][2] = s[i]
    BY DEF Recorded
<1>1. PICK n \in 1..Len(f) : j = 2 * n
    BY LinesFacts
<1>2. j <= Len(f) /\ Len(s) \in Nat /\ Len(f) \in Nat
    BY SeqIs DEF Newlines
<1>3. n \in 1..Len(s)
    BY <1>1, <1>2
<1>4. f[j] = Newline(s[n]) /\ s[n] \in Events
    BY <1>1, <1>3 DEF Holds
<1>5. f[j][2] = s[n]
    BY <1>4, CellKinds
<1> QED
    BY <1>3, <1>5

-----------------------------------------------------------------------------
(* The invariant *)

\* A waiting append is on its way once, and its event is neither rejected nor held.
Fresh ==
    /\ \A i, j \in 1..Len(queue) : i # j => queue[i] # queue[j]
    /\ \A i \in 1..Len(queue) : /\ queue[i] \notin failed
                                /\ \A j \in 1..Len(seen) : queue[i] # seen[j]

\* The file ends behind the held events, or behind what the head append has written.
Place ==
    /\ phase = "down" => queue = <<>> /\ ~started
    /\ phase = "open" /\ ~started => Len(file) = 2 * Len(seen)
    /\ started => /\ queue # <<>>
                  /\ before = 2 * Len(seen)
                  /\ Len(file) = before + written
                  /\ written >= 1 => file[before + 1] = Body(Head(queue))
                  /\ written = 2 => file[before + 2] = Newline(Head(queue))

\* What an undisturbed log is like between any two steps.
Store ==
    /\ phase # "corrupt"
    /\ Lines(file)
    /\ Extends(file, disk)
    /\ Holds(file, seen)
    /\ Fresh
    /\ Place
    /\ failed \cap Recorded(file) = {}

\* The tail of the chain, without its head.
LEMMA FreshTail ==
    ASSUME Typed, Fresh, queue # <<>>
    PROVE  /\ Head(queue) \in Events /\ Head(queue) = queue[1] /\ 1 \in 1..Len(queue)
           /\ Len(Tail(queue)) = Len(queue) - 1
           /\ \A i \in 1..Len(Tail(queue)) : /\ i + 1 \in 1..Len(queue)
                                            /\ Tail(queue)[i] = queue[i + 1]
                                            /\ Tail(queue)[i] # Head(queue)
           /\ \A i, j \in 1..Len(Tail(queue)) : i # j => Tail(queue)[i] # Tail(queue)[j]
<1>1. queue \in Seq(Events) /\ Len(queue) \in Nat /\ Len(queue) >= 1
    BY DEF Typed, TypeOK
<1>2. Head(queue) \in Events /\ Head(queue) = queue[1] /\ Len(Tail(queue)) = Len(queue) - 1
    BY <1>1
<1>3. \A i \in 1..Len(Tail(queue)) : i + 1 \in 1..Len(queue) /\ Tail(queue)[i] = queue[i + 1]
    BY <1>1
<1>4. 1 \in 1..Len(queue) /\ \A i \in 1..Len(Tail(queue)) : i + 1 # 1
    BY <1>1
<1>5. \A i, j \in 1..Len(Tail(queue)) : i # j => i + 1 # j + 1
    BY <1>1
<1> QED
    BY <1>2, <1>3, <1>4, <1>5 DEF Fresh

\* Dropping the head of the chain, held or rejected, keeps the rest fresh.
LEMMA SettleFresh ==
    ASSUME Typed, Fresh, queue # <<>>, queue' = Tail(queue),
           failed' \subseteq failed \cup {Head(queue)},
           \A j \in 1..Len(seen') : seen'[j] = Head(queue) \/ \E k \in 1..Len(seen) : seen'[j] = seen[k]
    PROVE  Fresh'
<1>1. \A i, j \in 1..Len(queue') : i # j => queue'[i] # queue'[j]
    BY FreshTail
<1>2. ASSUME NEW i \in 1..Len(queue')  PROVE queue'[i] \notin failed' /\ \A j \in 1..Len(seen') : queue'[i] # seen'[j]
  <2>1. i + 1 \in 1..Len(queue) /\ queue'[i] = queue[i + 1] /\ queue'[i] # Head(queue)
    BY FreshTail
  <2>2. queue[i + 1] \notin failed /\ \A k \in 1..Len(seen) : queue[i + 1] # seen[k]
    BY <2>1 DEF Fresh
  <2> QED
    BY <2>1, <2>2
<1> QED
    BY <1>1, <1>2 DEF Fresh

\* Two more than the base is reached by two.
LEMMA Reach == \A b \in Nat : \A w \in 1..2 : b + w \in Nat /\ (b + 2 <= b + w => w = 2)
OBVIOUS

\* Every step that leaves the log undisturbed keeps the store: one step per action.
LEMMA StoreStep ==
    ASSUME Typed, Typed', Undisturbed => Store, [Next]_vars, Undisturbed'
    PROVE  Store'
<1>u. rollbackFaults' = rollbackFaults /\ (retracted' = retracted) /\ (intruded' = intruded) => Store
    BY DEF Undisturbed, Typed, TypeOK
<1>l. Len(file) \in Nat /\ Len(seen) \in Nat /\ file \in Seq(Cells) /\ seen \in Seq(Events)
    BY SeqIs DEF Typed, TypeOK
<1>t. before \in Nat /\ written \in 0..2 /\ (written = 0 \/ started) /\ queue \in Seq(Events)
    BY DEF Typed, TypeOK
<1>1. CASE Open
  <2>1. Store /\ phase = "down"
    BY <1>1, <1>u, Zenon DEF Open, bounds, history
  <2>2. Decodable(file) /\ CleanLength(file) = 2 * (Len(file) \div 2) /\ Len(Decoded(file)) = Len(file) \div 2
    BY <2>1, <1>l, LinesFacts DEF Store
  <2>3. /\ phase' = "open" /\ seen' = Decoded(file) /\ queue' = queue /\ started' = started /\ failed' = failed
        /\ IF CleanLength(file) < Len(file)
           THEN file' = Truncate(file, CleanLength(file)) /\ disk' = file'
           ELSE file' = file /\ disk' = disk
    BY <1>1, <2>2, Zenon DEF Open, append
  <2>4. CleanLength(file) \in 0..Len(file)
    BY <1>l, CleanLengthIsLast
  <2>5. Len(file') = 2 * Len(seen') /\ Extends(file, file') /\ Extends(file', disk') /\ file' \in Seq(Cells)
    <3>1. CASE CleanLength(file) < Len(file)
      <4>1. CleanLength(file) \in Nat /\ CleanLength(file) <= Len(file)
        BY <2>4, <1>l
      <4>2. file' = Truncate(file, CleanLength(file)) /\ disk' = file'
        BY <3>1, <2>3
      <4>3. file' \in Seq(Cells) /\ Len(file') = CleanLength(file) /\ Extends(file, file')
        BY <4>1, <4>2, <1>l, Cut
      <4>4. Extends(file', disk')
        BY <4>1, <4>2, <4>3 DEF Extends
      <4>5. Len(seen') = Len(file) \div 2
        BY <2>2, <2>3
      <4> QED
        BY <2>2, <4>3, <4>4, <4>5
    <3>2. CASE ~(CleanLength(file) < Len(file))
      <4>1. CleanLength(file) = Len(file)
        BY <3>2, <2>4, <1>l
      <4>2. file' = file /\ disk' = disk /\ Extends(file, disk)
        BY <3>2, <2>1, <2>3 DEF Store
      <4>3. Len(seen') = Len(file) \div 2
        BY <2>2, <2>3
      <4>4. Extends(file, file)
        BY <1>l DEF Extends
      <4> QED
        BY <4>1, <4>2, <4>3, <4>4, <2>2, <1>l
    <3> QED
      BY <3>1, <3>2
  <2>6. Lines(file') /\ Recorded(file') \subseteq Recorded(file)
    BY <2>1, <2>5, <1>l, Prefix DEF Store
  <2>7. Holds(file', seen')
    <3>1. \A n \in 1..Len(seen') : file[2 * n] = Newline(seen'[n])
      BY <2>2, <2>3, <1>l, DecodedType
    <3>2. seen' \in Seq(Events) /\ Len(seen') \in Nat
      BY SeqIs DEF Typed, TypeOK
    <3>3. \A n \in 1..Len(seen') : file'[2 * n] = file[2 * n]
      BY <2>5, <3>2 DEF Extends
    <3> QED
      BY <3>1, <3>2, <3>3, <2>5 DEF Holds
  <2>8. queue' = <<>> /\ ~started'
    BY <2>1, <2>3, Zenon DEF Store, Place
  <2>9. Fresh'
    BY <2>8 DEF Fresh
  <2>10. Place'
    BY <2>3, <2>5, <2>8 DEF Place
  <2> QED
    BY <2>1, <2>3, <2>5, <2>6, <2>7, <2>9, <2>10 DEF Store
<1>2. ASSUME NEW e \in Events, Submit(e)  PROVE Store'
  <2>1. Store
    BY <1>2, <1>u, Zenon DEF Submit, bounds, history
  <2>2. /\ phase = "open" /\ queue' = Append(queue, e)
        /\ e \notin failed \cup {queue[i] : i \in 1..Len(queue)} \cup Recorded(file)
        /\ file' = file /\ disk' = disk /\ phase' = phase /\ before' = before /\ written' = written
        /\ started' = started /\ seen' = seen /\ failed' = failed
    BY <1>2, Zenon DEF Submit
  <2>3. \A j \in 1..Len(seen) : seen[j] # e
    BY <2>1, <2>2, <1>l, SeenRecorded DEF Store
  <2>4. Fresh'
    <3>1. /\ Len(queue') = Len(queue) + 1 /\ Len(queue) \in Nat /\ queue'[Len(queue) + 1] = e
          /\ \A i \in 1..Len(queue) : queue'[i] = queue[i]
      BY <2>2, <1>t
    <3>2. \A i \in 1..Len(queue') : i \in 1..Len(queue) \/ i = Len(queue) + 1
      BY <3>1
    <3>3. \A i \in 1..Len(queue) : queue[i] # e
      BY <2>2
    <3>4. e \notin failed
      BY <2>2
    <3> QED
      BY <2>1, <2>2, <2>3, <3>1, <3>2, <3>3, <3>4 DEF Store, Fresh
  <2>5. Place'
    <3>1. queue' # <<>> /\ (queue # <<>> => Head(queue') = Head(queue))
      BY <2>2, <1>t
    <3> QED
      BY <2>1, <2>2, <3>1 DEF Store, Place
  <2> QED
    BY <2>1, <2>2, <2>4, <2>5 DEF Store, Holds
<1>3. CASE Refuse
  <2>1. Store
    BY <1>3, <1>u, Zenon DEF Refuse, bounds, history
  <2>2. /\ phase = "open" /\ queue # <<>> /\ ~started /\ queue' = Tail(queue) /\ ~started'
        /\ failed' = failed \cup {Head(queue)}
        /\ file' = file /\ disk' = disk /\ phase' = phase /\ seen' = seen
    BY <1>3, Zenon DEF Refuse, Settle
  <2>3. Fresh'
    BY <2>1, <2>2, SettleFresh DEF Store
  <2>4. Head(queue) \notin Recorded(file)
    <3>1. Len(file) = 2 * Len(seen)
      BY <2>1, <2>2 DEF Store, Place
    <3>2. \A x \in Recorded(file) : \E i \in 1..Len(seen) : x = seen[i]
      <4>1. Len(file) <= 2 * Len(seen) + 1 /\ Lines(file) /\ Holds(file, seen)
        BY <2>1, <3>1, <1>l DEF Store
      <4> QED
        BY <4>1, <1>l, OnlySeen
    <3>3. \A i \in 1..Len(seen) : seen[i] # Head(queue)
      BY <2>1, <2>2, FreshTail DEF Store, Fresh
    <3> QED
      BY <3>2, <3>3
  <2>5. Place'
    BY <2>1, <2>2 DEF Store, Place
  <2> QED
    BY <2>1, <2>2, <2>3, <2>4, <2>5 DEF Store, Holds
<1>4. CASE Begin
  <2>1. Store
    BY <1>4, <1>u, Zenon DEF Begin, bounds, history
  <2>2. /\ phase = "open" /\ queue # <<>> /\ ~started /\ started' /\ before' = Len(file) /\ written' = written
        /\ file' = file /\ disk' = disk /\ phase' = phase /\ queue' = queue /\ seen' = seen /\ failed' = failed
    BY <1>4, Zenon DEF Begin
  <2>3. written = 0
    BY <2>2, <1>t
  <2>4. Place'
    BY <2>1, <2>2, <2>3, <1>l DEF Store, Place
  <2> QED
    BY <2>1, <2>2, <2>4 DEF Store, Holds, Fresh
<1>5. ASSUME NEW n \in 1..2, Write(n)  PROVE Store'
  <2> DEFINE h == Head(queue)
             part == SubSeq(Line(h), written + 1, written + n)
  <2>1. Store
    BY <1>5, <1>u, Zenon DEF Write, bounds, history
  <2>2. /\ phase = "open" /\ started /\ n <= 2 - written /\ file' = WriteAt(file, before + written, part)
        /\ written' = written + n /\ disk' = disk /\ phase' = phase /\ queue' = queue /\ before' = before
        /\ started' = started /\ seen' = seen /\ failed' = failed
    BY <1>5, Zenon DEF Write
  <2>3. /\ queue # <<>> /\ before = 2 * Len(seen) /\ Len(file) = before + written
        /\ written >= 1 => file[before + 1] = Body(h)
        /\ written = 2 => file[before + 2] = Newline(h)
    BY <2>1, <2>2 DEF Store, Place
  <2>4. h \in Events /\ \A i \in 1..Len(seen) : seen[i] # h
    BY <2>1, <2>3, FreshTail DEF Store, Fresh
  <2>5. h \notin failed
    BY <2>1, <2>3, FreshTail DEF Store, Fresh
  <2>6. /\ part \in Seq(Cells) /\ Len(part) = n
        /\ \A i \in 1..n : part[i] = Line(h)[written + i]
        /\ Line(h)[1] = Body(h) /\ Line(h)[2] = Newline(h)
    BY <2>2, <2>4, <1>t, LineType
  <2> HIDE DEF part
  <2>7. /\ Len(file') = before + written'
        /\ file' \in Seq(Cells)
        /\ \A i \in 1..Len(file') : file'[i] = IF i > Len(file) THEN part[i - Len(file)] ELSE file[i]
    <3>1. before + written = Len(file) /\ before \in Nat /\ written \in 0..2
      BY <2>3, <1>t
    <3>n. n \in Nat
      OBVIOUS
    <3>2. /\ WriteAt(file, Len(file), part) \in Seq(Cells)
          /\ Len(WriteAt(file, Len(file), part)) = Len(file) + n
          /\ \A i \in 1..Len(WriteAt(file, Len(file), part)) : WriteAt(file, Len(file), part)[i] =
                 (IF i \in (Len(file) + 1)..(Len(file) + n) THEN part[i - Len(file)]
                  ELSE IF i <= Len(file) THEN file[i] ELSE Hole)
      <4>1. Len(file) \in Nat /\ ~(Len(file) > Len(file) + n)
        BY <3>n, <1>l
      <4> QED
        BY <4>1, <2>6, <1>l, WriteAtType
    <3>3. file' = WriteAt(file, Len(file), part)
      BY <2>2, <3>1
    <3> HIDE DEF WriteAt
    <3> QED
      BY <2>2, <3>1, <3>2, <3>3, <3>n, <1>l
  <2>8. Extends(file', file)
    <3>1. Len(file') >= Len(file)
      BY <2>2, <2>3, <2>7, <1>l, <1>t
    <3> QED
      BY <3>1, <2>7, <1>l DEF Extends
  <2>9. /\ written' \in 1..2 /\ file'[before + 1] = Body(h)
        /\ written' = 2 => file'[before + 2] = Newline(h)
    <3>1. CASE written = 0
      <4>1. Len(file) = before /\ written' = n /\ Len(file') = before + n
        BY <3>1, <2>2, <2>3, <2>7, <1>t
      <4>2. \A i \in 1..n : before + i \in 1..Len(file') /\ before + i > Len(file) /\ (before + i) - Len(file) = i
        BY <4>1, <1>t
      <4>3. \A i \in 1..n : file'[before + i] = part[i]
        <5> SUFFICES ASSUME NEW i \in 1..n  PROVE file'[before + i] = part[i]
          OBVIOUS
        <5>1. before + i \in 1..Len(file') /\ before + i > Len(file) /\ (before + i) - Len(file) = i
          BY <4>2
        <5>2. file'[before + i] = part[(before + i) - Len(file)]
          <6>1. \A j \in 1..Len(file') : j > Len(file) => file'[j] = part[j - Len(file)]
            BY <2>7
          <6> QED
            BY <5>1, <6>1, Zenon
        <5> QED
          BY <5>1, <5>2
      <4>4. part[1] = Body(h) /\ (n = 2 => part[2] = Newline(h))
        BY <3>1, <2>6
      <4>5. 1 \in 1..n /\ (n = 2 => 2 \in 1..n)
        OBVIOUS
      <4> QED
        BY <4>1, <4>3, <4>4, <4>5
    <3>2. CASE written = 1
      <4>1. n = 1 /\ Len(file) = before + 1 /\ written' = 2 /\ Len(file') = before + 2
        BY <3>2, <2>2, <2>3, <2>7, <1>t
      <4>2. before + 1 \in 1..Len(file') /\ before + 2 \in 1..Len(file') /\ (before + 2) - Len(file) = 1
            /\ ~(before + 1 > Len(file)) /\ before + 2 > Len(file)
        BY <4>1, <1>t
      <4>3. part[1] = Newline(h)
        BY <3>2, <4>1, <2>6
      <4>4. file[before + 1] = Body(h)
        BY <3>2, <2>3
      <4>5. file'[before + 1] = file[before + 1]
        BY <4>2, <2>7
      <4>6. file'[before + 2] = part[(before + 2) - Len(file)]
        <5>1. \A j \in 1..Len(file') : j > Len(file) => file'[j] = part[j - Len(file)]
          BY <2>7
        <5> QED
          BY <4>2, <5>1, Zenon
      <4>7. part[(before + 2) - Len(file)] = part[1]
        BY <4>2
      <4> QED
        BY <4>1, <4>3, <4>4, <4>5, <4>6, <4>7
    <3>3. written # 2
      BY <2>2
    <3> QED
      BY <3>1, <3>2, <3>3, <1>t
  <2>n. Len(file') \in Nat /\ Len(file') = before + written' /\ written' \in 1..2
    <3>1. Len(file') = before + written'
      BY <2>7
    <3>2. written' \in 1..2
      BY <2>9
    <3>3. before + written' \in Nat
      BY <3>2, <1>t, Reach, Zenon
    <3> QED
      BY <3>1, <3>2, <3>3, Zenon
  <2>10. Lines(file')
    <3> SUFFICES ASSUME NEW k \in 1..Len(file')
                 PROVE /\ 2 * k - 1 <= Len(file') => \E e \in Events : file'[2 * k - 1] = Body(e)
                       /\ 2 * k <= Len(file') => \E e \in Events : file'[2 * k - 1] = Body(e)
                                                                   /\ file'[2 * k] = Newline(e)
      BY DEF Lines
    <3>1. CASE k <= Len(seen)
      <4>1. k \in 1..Len(file) /\ 2 * k <= Len(file) /\ 2 * k - 1 \in 1..Len(file) /\ 2 * k \in 1..Len(file)
        BY <3>1, <2>3, <1>l, <1>t
      <4>2. PICK e \in Events : file[2 * k - 1] = Body(e) /\ file[2 * k] = Newline(e)
        BY <2>1, <4>1 DEF Store, Lines
      <4>3. file'[2 * k - 1] = file[2 * k - 1] /\ file'[2 * k] = file[2 * k]
        BY <2>8, <4>1 DEF Extends
      <4> QED
        BY <4>2, <4>3
    <3>2. CASE k = Len(seen) + 1
      <4>1. 2 * k - 1 = before + 1 /\ 2 * k = before + 2
        BY <3>2, <2>3, <1>l
      <4>2. 2 * k <= Len(file') => written' = 2
        <5>1. before + 2 <= before + written' => written' = 2
          BY <2>n, <1>t, Reach, Zenon
        <5> QED
          BY <4>1, <5>1, <2>n, Zenon
      <4> QED
        BY <4>1, <4>2, <2>4, <2>9
    <3>3. CASE k > Len(seen) + 1
      <4>1. 2 * k - 1 > Len(file')
        BY <3>3, <2>3, <2>7, <2>9, <1>l, <1>t
      <4>2. Len(file') \in Nat /\ k \in Nat
        <5>1. 1..Len(file') \subseteq Nat
          OBVIOUS
        <5> QED
          BY <5>1, <2>n, Zenon
      <4>3. ~(2 * k - 1 <= Len(file')) /\ ~(2 * k <= Len(file'))
        BY <4>1, <4>2
      <4> QED
        BY <4>3
    <3>4. k \in Nat
      BY <2>n, <1>t
    <3> QED
      BY <3>1, <3>2, <3>3, <3>4, <1>l
  <2>11. Extends(file', disk')
    BY <2>1, <2>2, <2>8, SeqIs DEF Store, Extends
  <2>12. Holds(file', seen')
    <3>1. 2 * Len(seen) <= Len(file) /\ \A i \in 1..Len(seen) : file[2 * i] = Newline(seen[i])
      BY <2>1 DEF Store, Holds
    <3>2. Len(file) <= Len(file') /\ \A i \in 1..Len(file) : file'[i] = file[i]
      BY <2>8 DEF Extends
    <3>3. Len(file') \in Nat
      BY <2>n, <1>t
    <3>4. 2 * Len(seen) <= Len(file')
      BY <3>1, <3>2, <3>3, <1>l
    <3>5. \A i \in 1..Len(seen) : 2 * i \in 1..Len(file)
      BY <3>1, <1>l
    <3> QED
      BY <2>2, <3>1, <3>2, <3>4, <3>5 DEF Holds
  <2>13. \A x \in Recorded(file') : x \in Recorded(file) \/ x = h
    <3> SUFFICES ASSUME NEW j \in Newlines(file')  PROVE file'[j][2] \in Recorded(file) \/ file'[j][2] = h
      BY DEF Recorded
    <3>1. j \in 1..Len(file') /\ file'[j][1] = "newline"
      BY DEF Newlines
    <3>2. CASE j <= Len(file)
      <4>1. Len(file') \in Nat
        BY <2>n, <1>t
      <4>2. j \in 1..Len(file) /\ file'[j] = file[j]
        BY <3>1, <3>2, <4>1, <2>7, <1>l
      <4> QED
        BY <3>1, <4>2 DEF Recorded, Newlines
    <3>3. CASE j > Len(file)
      <4>1. j = before + 1 \/ (j = before + 2 /\ written' = 2)
        BY <3>1, <3>3, <2>3, <2>n, <1>t
      <4>2. Body(h)[1] = "body" /\ Newline(h)[2] = h
        BY <2>4, CellKinds
      <4>3. CASE j = before + 1
        BY <4>2, <4>3, <3>1, <2>9
      <4>4. CASE j = before + 2 /\ written' = 2
        BY <4>2, <4>4, <2>9
      <4> QED
        BY <4>1, <4>3, <4>4
    <3> QED
      BY <3>1, <3>2, <3>3, <1>l, <2>n, <1>t
  <2>14. Place'
    BY <2>2, <2>3, <2>7, <2>9 DEF Place
  <2>15. failed' \cap Recorded(file') = {}
    BY <2>1, <2>2, <2>5, <2>13 DEF Store
  <2>16. Fresh'
    BY <2>1, <2>2 DEF Store, Fresh
  <2> QED
    BY <2>2, <2>10, <2>11, <2>12, <2>14, <2>15, <2>16 DEF Store
<1>6. CASE Sync
  <2>1. Store
    BY <1>6, <1>u, Zenon DEF Sync, bounds, history
  <2>2. /\ phase = "open" /\ started /\ written = 2 /\ disk' = file /\ seen' = Append(seen, Head(queue))
        /\ queue' = Tail(queue) /\ ~started' /\ file' = file /\ phase' = phase /\ failed' = failed
    BY <1>6, Zenon DEF Sync, Settle
  <2>3. /\ queue # <<>> /\ before = 2 * Len(seen) /\ Len(file) = before + written
        /\ file[before + 2] = Newline(Head(queue))
    BY <2>1, <2>2 DEF Store, Place
  <2>4. Head(queue) \in Events
    BY <2>1, <2>3, FreshTail DEF Store
  <2>5. /\ Len(seen') = Len(seen) + 1 /\ seen'[Len(seen) + 1] = Head(queue)
        /\ \A i \in 1..Len(seen) : seen'[i] = seen[i]
    BY <2>2, <2>4
  <2>6. \A i \in 1..Len(seen') : i \in 1..Len(seen) \/ i = Len(seen) + 1
    BY <2>5, <1>l
  <2>7. Fresh'
    <3>1. \A j \in 1..Len(seen') : seen'[j] = Head(queue) \/ \E k \in 1..Len(seen) : seen'[j] = seen[k]
      BY <2>5, <2>6
    <3> QED
      BY <2>1, <2>2, <2>3, <3>1, SettleFresh DEF Store
  <2>8. Len(file') = 2 * Len(seen')
    BY <2>2, <2>3, <2>5, <1>l
  <2>9. Holds(file', seen')
    <3>1. \A i \in 1..Len(seen) : file[2 * i] = Newline(seen[i])
      BY <2>1 DEF Store, Holds
    <3>2. 2 * (Len(seen) + 1) = before + 2
      BY <2>3, <1>l
    <3>3. \A i \in 1..Len(seen') : file'[2 * i] = Newline(seen'[i])
      BY <2>2, <2>3, <2>5, <2>6, <3>1, <3>2
    <3> QED
      BY <2>8, <3>3 DEF Holds
  <2>10. Extends(file', disk')
    BY <2>2, <1>l DEF Extends
  <2>11. Place'
    BY <2>2, <2>8 DEF Place
  <2> QED
    BY <2>1, <2>2, <2>7, <2>9, <2>10, <2>11 DEF Store
<1>7. CASE FailRolledBack
  <2>1. Store
    BY <1>7, <1>u, Zenon DEF FailRolledBack, bounds, history
  <2>2. /\ phase = "open" /\ started /\ file' = Truncate(file, before) /\ disk' = file'
        /\ failed' = failed \cup {Head(queue)} /\ queue' = Tail(queue) /\ ~started'
        /\ phase' = phase /\ seen' = seen
    BY <1>7, Zenon DEF FailRolledBack, Settle
  <2>3. queue # <<>> /\ before = 2 * Len(seen) /\ Len(file) = before + written
    BY <2>1, <2>2 DEF Store, Place
  <2>4. file' \in Seq(Cells) /\ Len(file') = 2 * Len(seen) /\ Extends(file, file')
    <3>1. before <= Len(file)
      BY <2>3, <1>t
    <3> QED
      BY <3>1, <2>2, <2>3, <1>l, <1>t, Cut
  <2>5. Lines(file') /\ Recorded(file') \subseteq Recorded(file) /\ Holds(file', seen)
    BY <2>1, <2>4, <1>l, Prefix DEF Store
  <2>6. Fresh'
    BY <2>1, <2>2, <2>3, SettleFresh DEF Store
  <2>7. Head(queue) \notin Recorded(file')
    <3>1. \A x \in Recorded(file') : \E i \in 1..Len(seen) : x = seen[i]
      <4>1. Len(file') <= 2 * Len(seen) + 1
        BY <2>4, <1>l
      <4> QED
        BY <4>1, <2>4, <2>5, <1>l, OnlySeen
    <3>2. \A i \in 1..Len(seen) : seen[i] # Head(queue)
      BY <2>1, <2>3, FreshTail DEF Store, Fresh
    <3> QED
      BY <3>1, <3>2
  <2>8. Extends(file', disk')
    BY <2>2, <2>4, SeqIs DEF Extends
  <2>9. Place'
    BY <2>2, <2>4 DEF Place
  <2>10. failed' \cap Recorded(file') = {}
    BY <2>1, <2>2, <2>5, <2>7 DEF Store
  <2> QED
    BY <2>1, <2>2, <2>5, <2>6, <2>8, <2>9, <2>10 DEF Store, Holds
<1>8. CASE FailStuck
  <2>1. rollbackFaults' = rollbackFaults + 1 /\ rollbackFaults \in Nat /\ rollbackFaults' = 0
    BY <1>8 DEF FailStuck, Undisturbed, Typed, TypeOK
  <2> QED
    BY <2>1
<1>9. CASE ListRead
  <2>1. Store
    BY <1>9, <1>u, Zenon DEF ListRead, history
  <2>2. /\ file' = file /\ disk' = disk /\ phase' = phase /\ queue' = queue /\ before' = before
        /\ written' = written /\ started' = started /\ seen' = seen /\ failed' = failed
    BY <1>9, Zenon DEF ListRead, append
  <2> QED
    BY <2>1, <2>2 DEF Store, Fresh, Place, Holds
<1>10. CASE ListTruncate
  <2>1. ~intruded /\ file' = file
    BY <1>10, Zenon DEF ListTruncate, Undisturbed
  <2>2. Store
    BY <1>10, <2>1, Zenon DEF ListTruncate, bounds, Undisturbed
  <2>3. /\ disk' = file' /\ phase' = phase /\ queue' = queue /\ before' = before
        /\ written' = written /\ started' = started /\ seen' = seen /\ failed' = failed
    BY <1>10, Zenon DEF ListTruncate, append
  <2>4. Extends(file', disk')
    BY <2>1, <2>3, <1>l DEF Extends
  <2> QED
    BY <2>1, <2>2, <2>3, <2>4 DEF Store, Fresh, Place, Holds
<1>11. CASE Kill
  <2>1. Store
    BY <1>11, <1>u, Zenon DEF Kill, history
  <2>2. /\ file' = file /\ disk' = disk /\ phase' = "down" /\ queue' = <<>> /\ ~started'
        /\ seen' = seen /\ failed' = failed
    BY <1>11, Zenon DEF Kill, Exit
  <2> QED
    BY <2>1, <2>2 DEF Store, Fresh, Place, Holds
<1>12. CASE PowerLoss
  <2>1. PICK f \in AfterPowerLoss : file' = f /\ disk' = f /\ retracted' = (retracted \/ Len(f) < 2 * Len(seen))
    BY <1>12 DEF PowerLoss
  <2>2. ~retracted /\ ~(Len(file') < 2 * Len(seen))
    BY <2>1, Zenon DEF Undisturbed
  <2>3. Store
    BY <1>12, <2>2, Zenon DEF PowerLoss, Undisturbed
  <2>4. PICK n \in Len(disk)..Len(file) : file' = SubSeq(file, 1, n)
    BY <2>1, <2>3 DEF AfterPowerLoss, Store
  <2>5. file' \in Seq(Cells) /\ Len(file') = n /\ Extends(file, file')
    BY <2>4, <1>l, SeqIs DEF Extends
  <2>6. Lines(file') /\ Recorded(file') \subseteq Recorded(file) /\ Holds(file', seen)
    BY <2>2, <2>3, <2>5, <1>l, Prefix DEF Store
  <2>7. phase' = "down" /\ queue' = <<>> /\ ~started' /\ seen' = seen /\ failed' = failed
    BY <1>12, Zenon DEF PowerLoss, Exit
  <2>8. Extends(file', disk')
    BY <2>1, <2>5, SeqIs DEF Extends
  <2>9. Fresh' /\ Place'
    BY <2>7 DEF Fresh, Place
  <2> QED
    BY <2>3, <2>6, <2>7, <2>8, <2>9 DEF Store, Holds
<1>13. CASE UNCHANGED vars
  <2>1. Store
    BY <1>13, <1>u, Zenon DEF vars, bounds, history
  <2>2. /\ file' = file /\ disk' = disk /\ phase' = phase /\ queue' = queue /\ before' = before
        /\ written' = written /\ started' = started /\ seen' = seen /\ failed' = failed
    BY <1>13, Zenon DEF vars, append
  <2> QED
    BY <2>1, <2>2 DEF Store, Fresh, Place, Holds
<1> QED
    BY <1>1, <1>2, <1>3, <1>4, <1>5, <1>6, <1>7, <1>8, <1>9, <1>10, <1>11, <1>12, <1>13 DEF Next, LogStep

\* The store holds as long as nothing has disturbed the log.
LEMMA StoreHolds == Spec => [](Undisturbed => Store)
<1>1. Init => (Undisturbed => Store)
  <2> SUFFICES ASSUME Init  PROVE Store
    OBVIOUS
  <2>1. file = <<>> /\ disk = <<>> /\ queue = <<>> /\ seen = <<>> /\ phase = "down" /\ ~started /\ failed = {}
    BY Zenon DEF Init
  <2> QED
    BY <2>1 DEF Store, Lines, Holds, Extends, Fresh, Place
<1>2. Typed /\ Typed' /\ (Undisturbed => Store) /\ [Next]_vars => (Undisturbed => Store)'
    BY StoreStep
<1> QED
    BY <1>1, <1>2, TypedHolds, PTL DEF Spec

-----------------------------------------------------------------------------

\* What recovery showed or an append acknowledged stays in the file, in order, for every
\* number of events, crashes and failures; recovery never meets a bad line
\* (appendDurably, readAndRecover).
THEOREM SeenSurvivesHolds == Spec => []SeenSurvives
<1>1. Typed /\ (Undisturbed => Store) => SeenSurvives
  <2> SUFFICES ASSUME Typed, Store  PROVE /\ phase # "corrupt"
                                          /\ Decodable(file)
                                          /\ Len(seen) <= Len(Decoded(file))
                                          /\ \A i \in 1..Len(seen) : Decoded(file)[i] = seen[i]
    BY DEF SeenSurvives
  <2> QED
    BY LinesFacts, HoldsDecoded DEF Store, Typed, TypeOK
<1> QED
    BY <1>1, TypedHolds, StoreHolds, PTL

\* An append that was rejected leaves no event behind, in the file or on the disk
\* (appendDurably's rollback).
THEOREM FailedLeavesNoEventHolds == Spec => []FailedLeavesNoEvent
<1>1. Typed /\ (Undisturbed => Store) => FailedLeavesNoEvent
  <2> SUFFICES ASSUME Typed, Store  PROVE failed \cap (Recorded(file) \cup Recorded(disk)) = {}
    BY DEF FailedLeavesNoEvent
  <2>1. Recorded(disk) \subseteq Recorded(file)
    BY Prefix DEF Store, Typed, TypeOK
  <2> QED
    BY <2>1 DEF Store
<1> QED
    BY <1>1, TypedHolds, StoreHolds, PTL
=============================================================================
