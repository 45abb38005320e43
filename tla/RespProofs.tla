----------------------------- MODULE RespProofs -----------------------------
(***************************************************************************)
(* Reading undoes writing: what a client has sent is read as it was sent,  *)
(* to its end and no further, for all commands (whatever symbols of the    *)
(* protocol their words hold), any number of them, and wherever the stream *)
(* ends; and the replies are read by the client as they were made.         *)
(*                                                                         *)
(* A recursive function is what its recursion says if such a function      *)
(* exists, which an induction over the domain shows; what it is for the    *)
(* streams that the client makes is another one, over the elements.        *)
(***************************************************************************)
EXTENDS Resp, SequenceTheorems, WellFoundedInduction, TLAPS

-----------------------------------------------------------------------------
(* Sequences                                                              *)

\* A text and what follows it can be told apart by their lengths.
LEMMA AfterConcat ==
  ASSUME NEW S, NEW s \in Seq(S), NEW t \in Seq(S)
  PROVE  /\ After(s \o t, Len(s)) = t
         /\ SubSeq(s \o t, 1, Len(s)) = s
<1>1. s \o t \in Seq(S) /\ Len(s \o t) = Len(s) + Len(t) /\ Len(s) \in Nat /\ Len(t) \in Nat
  BY ConcatProperties, LenProperties
<1>2. After(s \o t, Len(s)) = t
  <2>1. CASE t = <<>>
    <3>1. Len(s) + 1 > Len(s \o t)
      BY <1>1, <2>1
    <3> QED
      BY <1>1, <2>1, <3>1, SubSeqEmpty DEF After
  <2>2. CASE t # <<>>
    <3>1. Len(t) > 0
      BY <1>1, <2>2, EmptySeq
    <3>2. SubSeq(s \o t, Len(s) + 1, Len(s) + Len(t)) = SubSeq(t, 1, Len(t))
      <4>1. /\ Len(s) + 1 \in Len(s) + 1 .. Len(s) + Len(t)
            /\ Len(s) + Len(t) \in Len(s) + 1 .. Len(s) + Len(t)
            /\ Len(s) + 1 - Len(s) = 1 /\ Len(s) + Len(t) - Len(s) = Len(t)
        BY <1>1, <3>1
      <4>2. SubSeq(s \o t, Len(s) + 1, Len(s) + Len(t))
              = SubSeq(t, Len(s) + 1 - Len(s), Len(s) + Len(t) - Len(s))
        BY <4>1, SubSeqOfConcat2
      <4> QED
        BY <4>1, <4>2
    <3>3. SubSeq(t, 1, Len(t)) = t
      BY SubSeqFull
    <3> QED
      BY <1>1, <3>2, <3>3 DEF After
  <2> QED
    BY <2>1, <2>2
<1>3. SubSeq(s \o t, 1, Len(s)) = s
  <2>1. CASE s = <<>>
    <3>1. Len(s) = 0
      BY <2>1, EmptySeq
    <3> QED
      BY <2>1, <3>1, SubSeqEmpty
  <2>2. CASE s # <<>>
    <3>1. Len(s) > 0
      BY <1>1, <2>2, EmptySeq
    <3>2. SubSeq(s \o t, 1, Len(s)) = SubSeq(s, 1, Len(s))
      BY <1>1, <3>1, SubSeqOfConcat1
    <3> QED
      BY <3>2, SubSeqFull
  <2> QED
    BY <2>1, <2>2
<1> QED
  BY <1>2, <1>3

\* A text is what comes first and what comes after.
LEMMA AfterParts ==
  ASSUME NEW S, NEW s \in Seq(S), NEW n \in 0 .. Len(s)
  PROVE  /\ SubSeq(s, 1, n) \in Seq(S) /\ Len(SubSeq(s, 1, n)) = n
         /\ After(s, n) \in Seq(S) /\ Len(After(s, n)) = Len(s) - n
         /\ SubSeq(s, 1, n) \o After(s, n) = s
<1>1. Len(s) \in Nat /\ \A i \in 1 .. Len(s) : s[i] \in S
  BY LenProperties, ElementOfSeq
<1>2. SubSeq(s, 1, n) \in Seq(S) /\ Len(SubSeq(s, 1, n)) = n
  <2>1. /\ SubSeq(s, 1, n) \in Seq(S)
        /\ Len(SubSeq(s, 1, n)) = IF 1 <= n THEN n - 1 + 1 ELSE 0
    <3>1. \A i \in 1 .. n : s[i] \in S
      BY <1>1
    <3> QED
      BY <1>1, <3>1, SubSeqProperties
  <2> QED
    BY <2>1
<1>3. After(s, n) \in Seq(S) /\ Len(After(s, n)) = Len(s) - n
  <2>1. /\ SubSeq(s, n + 1, Len(s)) \in Seq(S)
        /\ Len(SubSeq(s, n + 1, Len(s))) = IF n + 1 <= Len(s) THEN Len(s) - (n + 1) + 1 ELSE 0
    <3>1. \A i \in n + 1 .. Len(s) : s[i] \in S
      BY <1>1
    <3> QED
      BY <1>1, <3>1, SubSeqProperties
  <2> QED
    BY <1>1, <2>1 DEF After
<1>4. SubSeq(s, 1, n) \o After(s, n) = SubSeq(s, 1, Len(s))
  <2>1. 1 \in 1 .. Len(s) + 1 /\ n \in 1 - 1 .. Len(s) /\ Len(s) \in n .. Len(s)
    BY <1>1
  <2> QED
    BY <2>1, ConcatAdjacentSubSeq DEF After
<1> QED
  BY <1>2, <1>3, <1>4, SubSeqFull

\* A text is a \o b and c \o d, where c begins with a.
Shares(a, b, c, d, S) == \E e \in Seq(S) : c = a \o e /\ b = e \o d

\* A text that two others begin with, in two ways: the longer one begins with the shorter.
LEMMA Overlap ==
  ASSUME NEW S, NEW a \in Seq(S), NEW b \in Seq(S), NEW c \in Seq(S), NEW d \in Seq(S),
         a \o b = c \o d, Len(a) <= Len(c)
  PROVE  Shares(a, b, c, d, S)
<1> DEFINE e == After(c, Len(a))
<1>1. Len(a) \in 0 .. Len(c) /\ Len(c) \in Nat /\ Len(a) \in Nat
  BY LenProperties
<1>2. e \in Seq(S) /\ SubSeq(c, 1, Len(a)) \in Seq(S) /\ Len(SubSeq(c, 1, Len(a))) = Len(a)
      /\ SubSeq(c, 1, Len(a)) \o e = c
  BY <1>1, AfterParts
<1> HIDE DEF e
<1> DEFINE f == SubSeq(c, 1, Len(a))
<1>3. f \in Seq(S) /\ Len(f) = Len(a) /\ f \o e = c
  BY <1>2
<1> HIDE DEF f
<1>4. a \o b = f \o (e \o d) /\ e \o d \in Seq(S)
  <2>1. e \o d \in Seq(S)
    BY <1>2, ConcatProperties
  <2>2. (f \o e) \o d = f \o (e \o d)
    <3>1. f \in Seq(S) /\ e \in Seq(S) /\ d \in Seq(S)
      BY <1>2, <1>3
    <3> QED
      BY <3>1, ConcatAssociative, SMTT(60)
  <2> QED
    BY <1>3, <2>1, <2>2
<1>5. a = f
  <2>1. SubSeq(a \o b, 1, Len(a)) = a
    BY AfterConcat
  <2>2. SubSeq(f \o (e \o d), 1, Len(f)) = f
    BY <1>3, <1>4, AfterConcat
  <2> QED
    BY <1>3, <1>4, <2>1, <2>2
<1>6. b = e \o d
  <2>1. After(a \o b, Len(a)) = b
    BY AfterConcat
  <2>2. After(f \o (e \o d), Len(f)) = e \o d
    BY <1>3, <1>4, AfterConcat
  <2> QED
    BY <1>3, <1>4, <2>1, <2>2
<1> QED
  BY <1>2, <1>3, <1>5, <1>6 DEF Shares

\* A set of numbers that is not empty has a smallest element.
LEMMA SmallestNumber ==
  ASSUME NEW T \in SUBSET Nat, T # {}
  PROVE  \E n \in T : \A m \in T : n <= m
<1> DEFINE R == OpToRel(<, Nat)
<1>1. IsWellFoundedOn(R, Nat)
  BY NatLessThanWellFounded
<1>2. \A m, n \in Nat : m < n => <<m, n>> \in R
  BY DEF OpToRel
<1> HIDE DEF R
<1>3. PICK n \in T : \A m \in T : ~(<<m, n>> \in R)
  BY <1>1, WFMin
<1>4. ASSUME NEW m \in T PROVE n <= m
  <2>1. m \in Nat /\ n \in Nat
    OBVIOUS
  <2>2. ~(m < n)
    BY <1>2, <1>3, <2>1, Zenon
  <2> QED
    BY <2>1, <2>2
<1> QED
  BY <1>4

\* Induction, said of a set of numbers.
LEMMA EveryNumber ==
  ASSUME NEW T \in SUBSET Nat, 0 \in T, \A n \in T : n + 1 \in T
  PROVE  T = Nat
<1>1. SUFFICES ASSUME Nat \ T # {} PROVE FALSE
  OBVIOUS
<1>2. PICK n \in Nat \ T : \A m \in Nat \ T : n <= m
  <2>1. Nat \ T \in SUBSET Nat
    OBVIOUS
  <2> QED
    BY <1>1, <2>1, SmallestNumber, Zenon
<1>3. n - 1 \in Nat /\ ~(n <= n - 1) /\ n - 1 + 1 = n
  BY <1>2
<1>4. n - 1 \in T
  BY <1>2, <1>3
<1> QED
  BY <1>2, <1>3, <1>4

\* f is what FlattenSeq makes of the first n of seqs.
Flattens(f, seqs, n) == f = [i \in 1 .. n |-> IF i = 1 THEN seqs[i] ELSE f[i - 1] \o seqs[i]]

\* Its values, one by one.
LEMMA FlattensAt ==
  ASSUME NEW f, NEW seqs, NEW n \in Nat, Flattens(f, seqs, n), NEW i \in 1 .. n
  PROVE  (i = 1 => f[i] = seqs[i]) /\ (i # 1 => f[i] = f[i - 1] \o seqs[i])
<1> DEFINE h == [j \in 1 .. n |-> IF j = 1 THEN seqs[j] ELSE f[j - 1] \o seqs[j]]
<1>1. f = h
  BY Zenon DEF Flattens
<1>2. h[i] = IF i = 1 THEN seqs[i] ELSE f[i - 1] \o seqs[i]
  OBVIOUS
<1> HIDE DEF h
<1> QED
  BY <1>1, <1>2

\* There is such a function, whatever the number,
LEMMA FlattensExists ==
  ASSUME NEW S, NEW seqs \in Seq(Seq(S)), NEW n \in 0 .. Len(seqs)
  PROVE  \E f \in [1 .. n -> Seq(S)] : Flattens(f, seqs, n)
<1> DEFINE T == {m \in Nat : m <= Len(seqs) => \E f \in [1 .. m -> Seq(S)] : Flattens(f, seqs, m)}
<1>1. Len(seqs) \in Nat /\ \A i \in 1 .. Len(seqs) : seqs[i] \in Seq(S)
  BY LenProperties, ElementOfSeq
<1>2. 0 \in T
  <2> DEFINE f == [i \in 1 .. 0 |-> <<>>]
  <2>1. f \in [1 .. 0 -> Seq(S)]
    OBVIOUS
  <2>2. Flattens(f, seqs, 0)
    BY DEF Flattens
  <2> HIDE DEF f
  <2> QED
    BY <2>1, <2>2
<1>3. ASSUME NEW m \in T PROVE m + 1 \in T
  <2>1. SUFFICES ASSUME m + 1 <= Len(seqs)
                 PROVE  \E f \in [1 .. m + 1 -> Seq(S)] : Flattens(f, seqs, m + 1)
    OBVIOUS
  <2>2. PICK f \in [1 .. m -> Seq(S)] : Flattens(f, seqs, m)
    BY <1>1, <2>1
  <2> DEFINE last == IF m + 1 = 1 THEN seqs[m + 1] ELSE f[m] \o seqs[m + 1]
             g == [i \in 1 .. m + 1 |-> IF i <= m THEN f[i] ELSE last]
  <2>3. last \in Seq(S)
    <3>1. seqs[m + 1] \in Seq(S)
      BY <1>1, <2>1
    <3>2. m + 1 # 1 => f[m] \in Seq(S)
      OBVIOUS
    <3> QED
      BY <3>1, <3>2, ConcatProperties, Zenon
  <2>4. ASSUME NEW i \in 1 .. m + 1
        PROVE  g[i] = IF i = 1 THEN seqs[i] ELSE g[i - 1] \o seqs[i]
    <3>1. CASE i <= m
      <4>1. (i = 1 => f[i] = seqs[i]) /\ (i # 1 => f[i] = f[i - 1] \o seqs[i])
        <5>1. i \in 1 .. m /\ m \in Nat
          BY <3>1
        <5> QED
          BY <2>2, <5>1, FlattensAt, Zenon
      <4> HIDE DEF last
      <4>2. g[i] = f[i] /\ (i # 1 => g[i - 1] = f[i - 1])
        BY <3>1
      <4> QED
        BY <4>1, <4>2
    <3>2. CASE i = m + 1
      <4>1. (m + 1 # 1 => g[m] = f[m]) /\ g[m + 1] = last
        <5> HIDE DEF last
        <5> QED
          OBVIOUS
      <4> HIDE DEF g
      <4> QED
        BY <3>2, <4>1
    <3> QED
      BY <3>1, <3>2
  <2> HIDE DEF last
  <2>5. g \in [1 .. m + 1 -> Seq(S)]
    BY <2>3
  <2>6. Flattens(g, seqs, m + 1)
    <3>1. g = [i \in 1 .. m + 1 |-> g[i]]
      BY <2>5
    <3> HIDE DEF g
    <3> QED
      BY <2>4, <3>1 DEF Flattens
  <2> HIDE DEF g
  <2> QED
    BY <2>5, <2>6
<1> HIDE DEF T
<1>4. T = Nat
  <2>1. T \in SUBSET Nat
    BY DEF T
  <2> QED
    BY <1>2, <1>3, <2>1, EveryNumber
<1>5. n \in T /\ n <= Len(seqs)
  BY <1>1, <1>4
<1> QED
  BY <1>5 DEF T

Agree(s, t, n) == \A i \in 1 .. n : s[i] = t[i]

\* and only one.
LEMMA FlattensSame ==
  ASSUME NEW S, NEW seqs \in Seq(Seq(S)), NEW more \in Seq(Seq(S)),
         NEW n \in 0 .. Len(seqs), NEW m \in 0 .. Len(more), n <= m,
         Agree(seqs, more, n),
         NEW f, Flattens(f, seqs, n), NEW g, Flattens(g, more, m)
  PROVE  Agree(f, g, n)
<1> DEFINE T == {i \in Nat : i \in 1 .. n => f[i] = g[i]}
<1>1. 0 \in T
  OBVIOUS
<1>2. ASSUME NEW i \in T PROVE i + 1 \in T
  <2>1. SUFFICES ASSUME i + 1 \in 1 .. n PROVE f[i + 1] = g[i + 1]
    OBVIOUS
  <2>2. PICK j \in 1 .. n : j = i + 1
    BY <2>1
  <2>3. j \in 1 .. m /\ n \in Nat /\ m \in Nat
    OBVIOUS
  <2>4. (j = 1 => f[j] = seqs[j]) /\ (j # 1 => f[j] = f[j - 1] \o seqs[j])
    <3> HIDE DEF T
    <3> QED
      BY <2>3, FlattensAt
  <2>5. (j = 1 => g[j] = more[j]) /\ (j # 1 => g[j] = g[j - 1] \o more[j])
    <3> HIDE DEF T
    <3> QED
      BY <2>3, FlattensAt
  <2>6. j - 1 = i /\ (j # 1 => f[i] = g[i]) /\ seqs[j] = more[j]
    BY <2>1, <2>2 DEF Agree
  <2> HIDE DEF T
  <2> QED
    BY <2>2, <2>4, <2>5, <2>6
<1> HIDE DEF T
<1>3. T = Nat
  <2>1. T \in SUBSET Nat
    BY DEF T
  <2> QED
    BY <1>1, <1>2, <2>1, EveryNumber
<1> QED
  <2>1. \A i \in Nat : i \in 1 .. n => f[i] = g[i]
    BY <1>3, Zenon DEF T
  <2> QED
    BY <2>1 DEF Agree

\* What FlattenSeq is.
LEMMA FlattenIs ==
  ASSUME NEW S, NEW seqs \in Seq(Seq(S)), seqs # <<>>
  PROVE  \E f \in [1 .. Len(seqs) -> Seq(S)] :
           Flattens(f, seqs, Len(seqs)) /\ FlattenSeq(seqs) = f[Len(seqs)]
<1> DEFINE n == Len(seqs)
           F == CHOOSE f : f = [i \in 1 .. n |-> IF i = 1 THEN seqs[i] ELSE f[i - 1] \o seqs[i]]
<1>1. n \in Nat /\ n # 0
  BY EmptySeq
<1>2. FlattenSeq(seqs) = F[n]
  BY <1>1 DEF FlattenSeq
<1>3. PICK f \in [1 .. n -> Seq(S)] : Flattens(f, seqs, n)
  <2>1. n \in 0 .. Len(seqs)
    BY <1>1
  <2> QED
    BY <2>1, FlattensExists
<1>4. Flattens(F, seqs, n)
  BY <1>3 DEF Flattens
<1> HIDE DEF F
<1>5. DOMAIN F = 1 .. n /\ F = [i \in 1 .. n |-> F[i]]
  BY <1>4 DEF Flattens
<1>6. \A i \in 1 .. n : F[i] = f[i]
  <2>1. n \in 0 .. Len(seqs) /\ n <= n /\ Agree(seqs, seqs, n)
    BY <1>1 DEF Agree
  <2> HIDE DEF n
  <2>2. Agree(F, f, n)
    BY <1>3, <1>4, <2>1, FlattensSame
  <2> QED
    BY <2>2 DEF Agree
<1>7. F \in [1 .. n -> Seq(S)]
  BY <1>5, <1>6
<1> QED
  BY <1>2, <1>4, <1>7

\* Texts in a row are a text.
LEMMA FlattenType ==
  ASSUME NEW S, NEW seqs \in Seq(Seq(S))
  PROVE  FlattenSeq(seqs) \in Seq(S) /\ FlattenSeq(<<>>) = <<>>
<1>1. FlattenSeq(<<>>) = <<>>
  BY DEF FlattenSeq
<1>2. CASE seqs = <<>>
  BY <1>1, <1>2, EmptySeq
<1>3. CASE seqs # <<>>
  <2>1. PICK f \in [1 .. Len(seqs) -> Seq(S)] : FlattenSeq(seqs) = f[Len(seqs)]
    BY <1>3, FlattenIs
  <2>2. Len(seqs) \in 1 .. Len(seqs)
    BY <1>3, EmptySeq
  <2> QED
    BY <1>1, <2>1, <2>2
<1> QED
  BY <1>1, <1>2, <1>3

\* One more comes last.
LEMMA FlattenAppend ==
  ASSUME NEW S, NEW seqs \in Seq(Seq(S)), NEW x \in Seq(S)
  PROVE  FlattenSeq(Append(seqs, x)) = FlattenSeq(seqs) \o x
<1> DEFINE more == Append(seqs, x)
           n == Len(seqs)
           q == Len(more)
<1>1. /\ more \in Seq(Seq(S)) /\ more # <<>> /\ q = n + 1 /\ n \in Nat /\ q \in Nat
      /\ \A i \in 1 .. n : more[i] = seqs[i]
      /\ more[n + 1] = x
  BY AppendProperties, LenProperties
<1> HIDE DEF q, more, n
<1>2. PICK g \in [1 .. q -> Seq(S)] : Flattens(g, more, q) /\ FlattenSeq(more) = g[q]
  BY <1>1, FlattenIs DEF q
<1>3. (q = 1 => g[q] = more[q]) /\ (q # 1 => g[q] = g[q - 1] \o more[q])
  <2>1. q \in 1 .. q /\ q \in Nat /\ Flattens(g, more, q)
    BY <1>1, <1>2
  <2> QED
    BY <2>1, FlattensAt
<1>4. CASE seqs = <<>>
  <2>1. n = 0
    BY <1>4, EmptySeq DEF n
  <2>2. FlattenSeq(more) = x
    BY <1>1, <1>2, <1>3, <2>1
  <2>3. FlattenSeq(seqs) = <<>>
    BY <1>4, FlattenType
  <2> QED
    BY <2>2, <2>3, ConcatEmptySeq DEF more
<1>5. CASE seqs # <<>>
  <2>1. PICK f \in [1 .. n -> Seq(S)] : Flattens(f, seqs, n) /\ FlattenSeq(seqs) = f[n]
    BY <1>5, FlattenIs DEF n
  <2>2. n # 0
    BY <1>5, EmptySeq DEF n
  <2>3. \A i \in 1 .. n : f[i] = g[i]
    <3>1. n \in 0 .. Len(seqs) /\ q \in 0 .. Len(more) /\ n <= q
      BY <1>1 DEF n, q
    <3>2. /\ more \in Seq(Seq(S)) /\ Agree(seqs, more, n)
          /\ Flattens(f, seqs, n) /\ Flattens(g, more, q)
      BY <1>1, <1>2, <2>1 DEF Agree
    <3>3. Agree(f, g, n)
      BY <3>1, <3>2, FlattensSame
    <3> QED
      BY <3>3 DEF Agree
  <2>4. f[n] = g[n] /\ q - 1 = n /\ q # 1
    BY <1>1, <2>2, <2>3
  <2>5. g[q] = g[n] \o x
    BY <1>1, <1>3, <2>4
  <2> QED
    BY <1>2, <2>1, <2>4, <2>5 DEF more
<1> QED
  BY <1>4, <1>5

\* What comes before and after the k-th end of texts in a row.
Upto(seqs, k) == FlattenSeq(SubSeq(seqs, 1, k))

Beyond(seqs, k) == After(FlattenSeq(seqs), Len(Upto(seqs, k)))

\* The first k of them, and one more.
LEMMA UptoNext ==
  ASSUME NEW S, NEW seqs \in Seq(Seq(S))
  PROVE  /\ Upto(seqs, 0) = <<>>
         /\ Upto(seqs, Len(seqs)) = FlattenSeq(seqs)
         /\ \A k \in 0 .. Len(seqs) : Upto(seqs, k) \in Seq(S)
         /\ \A k \in 0 .. Len(seqs) - 1 : Upto(seqs, k + 1) = Upto(seqs, k) \o seqs[k + 1]
<1>1. Len(seqs) \in Nat /\ \A i \in 1 .. Len(seqs) : seqs[i] \in Seq(S)
  BY LenProperties, ElementOfSeq
<1>2. Upto(seqs, 0) = <<>>
  <2>1. SubSeq(seqs, 1, 0) = <<>>
    BY SubSeqEmpty
  <2> QED
    BY <2>1, FlattenType DEF Upto
<1>3. Upto(seqs, Len(seqs)) = FlattenSeq(seqs)
  <2>1. SubSeq(seqs, 1, Len(seqs)) = seqs
    BY SubSeqFull
  <2> QED
    BY <2>1 DEF Upto
<1>4. ASSUME NEW k \in 0 .. Len(seqs) PROVE SubSeq(seqs, 1, k) \in Seq(Seq(S))
  BY AfterParts
<1>5. ASSUME NEW k \in 0 .. Len(seqs) PROVE Upto(seqs, k) \in Seq(S)
  BY <1>4, FlattenType DEF Upto
<1>6. ASSUME NEW k \in 0 .. Len(seqs) - 1
      PROVE  Upto(seqs, k + 1) = Upto(seqs, k) \o seqs[k + 1]
  <2>1. k + 1 \in 1 .. Len(seqs) /\ 1 \in 1 .. Len(seqs) /\ k + 1 - 1 = k /\ k \in 0 .. Len(seqs)
    BY <1>1
  <2>2. SubSeq(seqs, 1, k + 1) = SubSeq(seqs, 1, k) \o <<seqs[k + 1]>>
    BY <2>1, SubSeqRecursiveSecond
  <2>3. SubSeq(seqs, 1, k) \in Seq(Seq(S)) /\ seqs[k + 1] \in Seq(S)
    BY <1>1, <1>4, <2>1
  <2>4. SubSeq(seqs, 1, k + 1) = Append(SubSeq(seqs, 1, k), seqs[k + 1])
    BY <2>2, <2>3, AppendIsConcat
  <2> QED
    BY <2>3, <2>4, FlattenAppend DEF Upto
<1> QED
  BY <1>2, <1>3, <1>5, <1>6

\* Three texts in a row.
LEMMA Regroup ==
  ASSUME NEW S, NEW a \in Seq(S), NEW b \in Seq(S), NEW c \in Seq(S)
  PROVE  (a \o b) \o c = a \o (b \o c) /\ a \o b \in Seq(S) /\ b \o c \in Seq(S)
<1>1. a \o b \in Seq(S) /\ b \o c \in Seq(S)
  BY ConcatProperties
<1>2. (a \o b) \o c = a \o (b \o c)
  BY ConcatAssociative
<1> QED
  BY <1>1, <1>2

\* The same, as one formula.
Regroups(a, b, c, S) == (a \o b) \o c = a \o (b \o c) /\ a \o b \in Seq(S) /\ b \o c \in Seq(S)

\* Concatenation is associative, by name.
LEMMA Regrouped ==
  ASSUME NEW S, NEW a \in Seq(S), NEW b \in Seq(S), NEW c \in Seq(S)
  PROVE  Regroups(a, b, c, S)
BY Regroup DEF Regroups

\* Two texts in a row.
Joins(a, b, S) == a \o b \in Seq(S) /\ Len(a \o b) = Len(a) + Len(b) /\ Len(a) \in Nat /\ Len(b) \in Nat

\* The length of two texts one after the other.
LEMMA Joined ==
  ASSUME NEW S, NEW a \in Seq(S), NEW b \in Seq(S)
  PROVE  Joins(a, b, S)
BY ConcatProperties, LenProperties DEF Joins

\* t begins with s.
Extends(t, s, S) == \E R \in Seq(S) : t = s \o R

\* It still does if it gets longer.
LEMMA ExtendsMore ==
  ASSUME NEW S, NEW s \in Seq(S), NEW t, Extends(t, s, S), NEW x \in Seq(S)
  PROVE  Extends(t \o x, s, S)
<1>1. PICK R \in Seq(S) : t = s \o R
  BY DEF Extends
<1>2. (s \o R) \o x = s \o (R \o x) /\ R \o x \in Seq(S)
  BY Regroup
<1> QED
  BY <1>1, <1>2 DEF Extends

\* Texts in a row are those up to the k-th and those beyond.
LEMMA BeyondParts ==
  ASSUME NEW S, NEW seqs \in Seq(Seq(S)), NEW k \in 0 .. Len(seqs)
  PROVE  Beyond(seqs, k) \in Seq(S) /\ FlattenSeq(seqs) = Upto(seqs, k) \o Beyond(seqs, k)
<1> DEFINE n == Len(seqs)
           T == {m \in Nat : m \in k .. n => Extends(Upto(seqs, m), Upto(seqs, k), S)}
<1>1. n \in Nat /\ (\A i \in 1 .. n : seqs[i] \in Seq(S)) /\ k \in 0 .. n
  BY LenProperties, ElementOfSeq
<1>2. /\ Upto(seqs, n) = FlattenSeq(seqs)
      /\ \A m \in 0 .. n : Upto(seqs, m) \in Seq(S)
      /\ \A m \in 0 .. n - 1 : Upto(seqs, m + 1) = Upto(seqs, m) \o seqs[m + 1]
  BY UptoNext
<1> HIDE DEF n
<1>3. Extends(Upto(seqs, k), Upto(seqs, k), S)
  <2>1. Upto(seqs, k) \o <<>> = Upto(seqs, k) /\ <<>> \in Seq(S)
    BY <1>1, <1>2, ConcatEmptySeq
  <2> QED
    BY <2>1 DEF Extends
<1>4. 0 \in T
  <2>1. 0 \in k .. n => k = 0
    BY <1>1
  <2> QED
    BY <1>3, <2>1
<1>5. ASSUME NEW m \in T PROVE m + 1 \in T
  <2>1. SUFFICES ASSUME m + 1 \in k .. n PROVE Extends(Upto(seqs, m + 1), Upto(seqs, k), S)
    OBVIOUS
  <2>2. CASE m + 1 = k
    BY <1>3, <2>2
  <2>3. CASE m + 1 # k
    <3>1. m \in k .. n /\ m \in 0 .. n - 1 /\ m + 1 \in 1 .. n
      BY <1>1, <2>1, <2>3
    <3>2. Extends(Upto(seqs, m), Upto(seqs, k), S)
      BY <3>1
    <3> HIDE DEF T
    <3>3. Extends(Upto(seqs, m) \o seqs[m + 1], Upto(seqs, k), S)
      <4>1. Upto(seqs, k) \in Seq(S) /\ seqs[m + 1] \in Seq(S)
        BY <1>1, <1>2, <3>1
      <4> QED
        BY <3>2, <4>1, ExtendsMore
    <3> QED
      BY <1>2, <3>1, <3>3
  <2> QED
    BY <2>2, <2>3
<1>6. Extends(FlattenSeq(seqs), Upto(seqs, k), S)
  <2>1. T = Nat
    <3> HIDE DEF T
    <3>1. T \in SUBSET Nat
      BY DEF T
    <3> QED
      BY <1>4, <1>5, <3>1, EveryNumber
  <2>2. n \in T /\ n \in k .. n
    <3> HIDE DEF T
    <3> QED
      BY <1>1, <2>1
  <2> QED
    BY <1>2, <2>2
<1> HIDE DEF T
<1>7. PICK R \in Seq(S) : FlattenSeq(seqs) = Upto(seqs, k) \o R
  BY <1>6 DEF Extends
<1>8. Beyond(seqs, k) = R
  <2>1. Upto(seqs, k) \in Seq(S)
    BY <1>1, <1>2
  <2>2. After(Upto(seqs, k) \o R, Len(Upto(seqs, k))) = R
    BY <2>1, AfterConcat
  <2> QED
    BY <1>7, <2>2 DEF Beyond
<1> QED
  BY <1>7, <1>8

\* Beyond the k-th end comes the next text.
LEMMA BeyondNext ==
  ASSUME NEW S, NEW seqs \in Seq(Seq(S))
  PROVE  /\ Beyond(seqs, 0) = FlattenSeq(seqs)
         /\ Beyond(seqs, Len(seqs)) = <<>>
         /\ \A k \in 0 .. Len(seqs) - 1 : Beyond(seqs, k) = seqs[k + 1] \o Beyond(seqs, k + 1)
<1>1. Len(seqs) \in Nat /\ (\A i \in 1 .. Len(seqs) : seqs[i] \in Seq(S)) /\ FlattenSeq(seqs) \in Seq(S)
  BY LenProperties, ElementOfSeq, FlattenType
<1>2. Beyond(seqs, 0) = FlattenSeq(seqs)
  <2>1. Upto(seqs, 0) = <<>> /\ Len(<<>>) = 0
    BY UptoNext, EmptySeq
  <2>2. SubSeq(FlattenSeq(seqs), 1, Len(FlattenSeq(seqs))) = FlattenSeq(seqs)
    BY <1>1, SubSeqFull
  <2> QED
    <3>1. Beyond(seqs, 0) = SubSeq(FlattenSeq(seqs), 0 + 1, Len(FlattenSeq(seqs)))
      BY <2>1, Zenon DEF Beyond, After
    <3> QED
      BY <2>2, <3>1
<1>3. Beyond(seqs, Len(seqs)) = <<>>
  <2>1. Upto(seqs, Len(seqs)) = FlattenSeq(seqs)
    BY UptoNext
  <2>2. After(FlattenSeq(seqs), Len(FlattenSeq(seqs))) = <<>>
    <3>1. Len(FlattenSeq(seqs)) \in Nat
      BY <1>1, LenProperties
    <3>2. Len(FlattenSeq(seqs)) < Len(FlattenSeq(seqs)) + 1
      BY <3>1
    <3> QED
      BY <3>1, <3>2, SubSeqEmpty DEF After
  <2> QED
    BY <2>1, <2>2 DEF Beyond
<1>4. ASSUME NEW k \in 0 .. Len(seqs) - 1
      PROVE  Beyond(seqs, k) = seqs[k + 1] \o Beyond(seqs, k + 1)
  <2> DEFINE u == Upto(seqs, k)
             x == seqs[k + 1]
             b == Beyond(seqs, k + 1)
  <2>1. k \in 0 .. Len(seqs) /\ k + 1 \in 0 .. Len(seqs) /\ k + 1 \in 1 .. Len(seqs)
    BY <1>1
  <2>2. u \in Seq(S) /\ x \in Seq(S) /\ Upto(seqs, k + 1) = u \o x
    BY <1>1, <2>1, UptoNext
  <2>3. b \in Seq(S) /\ FlattenSeq(seqs) = (u \o x) \o b
    BY <2>1, <2>2, BeyondParts
  <2>4. Beyond(seqs, k) = After(FlattenSeq(seqs), Len(u))
    BY DEF Beyond
  <2> HIDE DEF u, x, b
  <2>5. (u \o x) \o b = u \o (x \o b) /\ x \o b \in Seq(S)
    <3>1. u \in Seq(S) /\ x \in Seq(S) /\ b \in Seq(S)
      BY <2>2, <2>3
    <3> QED
      BY SMTT(30), <3>1, Regroup
  <2>6. After(u \o (x \o b), Len(u)) = x \o b
    BY <2>2, <2>5, AfterConcat
  <2>7. Beyond(seqs, k) = x \o b
    BY <2>3, <2>4, <2>5, <2>6
  <2> QED
    BY <2>7 DEF x, b
<1> QED
  BY <1>2, <1>3, <1>4

-----------------------------------------------------------------------------
(* Reading values                                                         *)

\* A frame is shorter than the m symbols it is read from, and a list has a number of elements.
Framed(f, m) ==
  f[1] = "value" => Len(f[3]) \in 0 .. m - 1 /\ (f[2][1] = "opening" => f[2][2] \in Int)

Below(n) == 0 .. n - 1

\* What is read from fewer than n symbols leaves no more than these.
Bounded(g, n) ==
  \A m \in Below(n) : \A c \in Int : g[m][c][1] = "value" => Len(g[m][c][3]) \in 0 .. m

SameBelow(g, h, n) == \A m \in Below(n) : g[m] = h[m]

\* To read from m symbols takes what is read from fewer, and nothing else.
LEMMA ElementsLocal ==
  ASSUME NEW m \in Nat, NEW f, Framed(f, m), NEW g, NEW h, Bounded(g, m), SameBelow(g, h, m),
         NEW b, Len(b) = m, NEW c \in Int
  PROVE  /\ Elements(g, f, b, c) = Elements(h, f, b, c)
         /\ Elements(g, f, b, c)[1] = "value" => Len(Elements(g, f, b, c)[3]) \in 0 .. m
<1> DEFINE opening == f[1] = "value" /\ f[2][1] = "opening"
           first(r) == IF opening THEN r[Len(f[3])][f[2][2]] ELSE f
           more(r) == r[Len(first(r)[3])][c - 1]
<1>1. first(g) = first(h)
  <2>1. opening => Len(f[3]) \in 0 .. m - 1
    BY DEF Framed
  <2>2. opening => g[Len(f[3])] = h[Len(f[3])]
    BY <2>1, Zenon DEF SameBelow, Below
  <2> QED
    BY <2>2, Zenon
<1>2. first(g)[1] = "value" => Len(first(g)[3]) \in 0 .. m - 1
  <2>1. CASE opening
    <3>1. Len(f[3]) \in 0 .. m - 1 /\ f[2][2] \in Int
      BY <2>1 DEF Framed
    <3>2. first(g) = g[Len(f[3])][f[2][2]]
      BY <2>1
    <3>3. first(g)[1] = "value" => Len(first(g)[3]) \in 0 .. Len(f[3])
      BY <3>1, <3>2, Zenon DEF Bounded, Below
    <3> HIDE DEF first
    <3> QED
      BY <3>1, <3>3
  <2>2. CASE ~opening
    BY <2>2 DEF Framed
  <2> QED
    BY <2>1, <2>2
<1> HIDE DEF opening
<1>3. first(g)[1] = "value" =>
        /\ more(g) = more(h)
        /\ more(g)[1] = "value" => Len(more(g)[3]) \in 0 .. m
  <2> SUFFICES ASSUME first(g)[1] = "value"
               PROVE  more(g) = more(h) /\ (more(g)[1] = "value" => Len(more(g)[3]) \in 0 .. m)
    OBVIOUS
  <2> DEFINE k == Len(first(g)[3])
  <2>1. k \in 0 .. m - 1 /\ k = Len(first(h)[3]) /\ c - 1 \in Int
    BY <1>1, <1>2
  <2>2. more(g) = g[k][c - 1] /\ more(h) = h[k][c - 1]
    BY <2>1, Zenon
  <2> HIDE DEF k, first
  <2>3. g[k] = h[k]
    BY <2>1, Zenon DEF SameBelow, Below
  <2>4. g[k][c - 1][1] = "value" => Len(g[k][c - 1][3]) \in 0 .. k
    BY <2>1, Zenon DEF Bounded, Below
  <2> QED
    BY <2>1, <2>2, <2>3, <2>4
<1>4. \A r : Elements(r, f, b, c) =
        IF c <= 0 THEN Read(List(<<>>), b)
        ELSE IF first(r)[1] # "value" THEN first(r)
        ELSE IF more(r)[1] # "value" THEN more(r)
        ELSE Read(List(<<first(r)[2]>> \o more(r)[2][2]), more(r)[3])
  BY Zenon DEF Elements, opening
<1> HIDE DEF first, more
<1>5. Elements(g, f, b, c) = Elements(h, f, b, c)
  BY <1>1, <1>3, <1>4
<1>6. Elements(g, f, b, c)[1] = "value" => Len(Elements(g, f, b, c)[3]) \in 0 .. m
  <2>1. CASE c <= 0
    BY <1>4, <2>1 DEF Read
  <2>2. CASE ~(c <= 0) /\ first(g)[1] # "value"
    BY <1>4, <2>2
  <2>3. CASE ~(c <= 0) /\ first(g)[1] = "value" /\ more(g)[1] # "value"
    BY <1>4, <2>3
  <2>4. CASE ~(c <= 0) /\ first(g)[1] = "value" /\ more(g)[1] = "value"
    <3>1. Elements(g, f, b, c) = Read(List(<<first(g)[2]>> \o more(g)[2][2]), more(g)[3])
      BY <1>4, <2>4
    <3> QED
      BY <1>3, <2>4, <3>1 DEF Read
  <2> QED
    BY <2>1, <2>2, <2>3, <2>4
<1> QED
  BY <1>5, <1>6

AllFramed(frame, n) == \A m \in 0 .. n : Framed(frame[m], m)

\* What g makes of the last m symbols.
ReadFrom(g, frame, buf, m) ==
  [count \in Int |-> Elements(g, frame[m], After(buf, Len(buf) - m), count)]

\* g is what Values makes of fewer than n symbols.
Reads(g, frame, buf, n) == g = [m \in Below(n) |-> ReadFrom(g, frame, buf, m)]

\* Its values, one by one.
LEMMA ReadsAt ==
  ASSUME NEW g, NEW frame, NEW buf, NEW n \in Nat, Reads(g, frame, buf, n), NEW m \in Below(n)
  PROVE  g[m] = ReadFrom(g, frame, buf, m)
<1> DEFINE h == [k \in Below(n) |-> ReadFrom(g, frame, buf, k)]
<1>1. g = h
  BY Zenon DEF Reads
<1>2. h[m] = ReadFrom(g, frame, buf, m)
  OBVIOUS
<1> HIDE DEF h
<1> QED
  BY <1>1, <1>2

\* The elements of ReadFrom, and that it takes what is below m only.
LEMMA ReadFromLocal ==
  ASSUME NEW S, NEW buf \in Seq(S), NEW m \in 0 .. Len(buf), NEW frame, Framed(frame[m], m),
         NEW g, NEW h, Bounded(g, m), SameBelow(g, h, m)
  PROVE  /\ ReadFrom(g, frame, buf, m) = ReadFrom(h, frame, buf, m)
         /\ \A c \in Int : LET r == ReadFrom(g, frame, buf, m)[c]
                           IN  r[1] = "value" => Len(r[3]) \in 0 .. m
<1> DEFINE b == After(buf, Len(buf) - m)
<1>1. Len(b) = m /\ m \in Nat
  <2>1. Len(buf) \in Nat
    BY LenProperties
  <2>2. Len(buf) - m \in 0 .. Len(buf)
    BY <2>1
  <2>3. Len(b) = Len(buf) - (Len(buf) - m)
    BY <2>2, AfterParts
  <2> QED
    BY <2>1, <2>3
<1>2. ReadFrom(g, frame, buf, m) = [c \in Int |-> Elements(g, frame[m], b, c)]
  BY Zenon DEF ReadFrom
<1>3. ReadFrom(h, frame, buf, m) = [c \in Int |-> Elements(h, frame[m], b, c)]
  BY Zenon DEF ReadFrom
<1> HIDE DEF b
<1>4. ASSUME NEW c \in Int
      PROVE  /\ Elements(g, frame[m], b, c) = Elements(h, frame[m], b, c)
             /\ Elements(g, frame[m], b, c)[1] = "value"
                  => Len(Elements(g, frame[m], b, c)[3]) \in 0 .. m
  <2> DEFINE f == frame[m]
  <2>1. Framed(f, m)
    OBVIOUS
  <2> HIDE DEF f
  <2>2. /\ Elements(g, f, b, c) = Elements(h, f, b, c)
        /\ Elements(g, f, b, c)[1] = "value" => Len(Elements(g, f, b, c)[3]) \in 0 .. m
    BY <1>1, <2>1, ElementsLocal
  <2> QED
    BY <2>2 DEF f
<1> QED
  BY SMTT(30), <1>2, <1>3, <1>4

\* There is such a function.
LEMMA ReadsExists ==
  ASSUME NEW S, NEW buf \in Seq(S), NEW frame, AllFramed(frame, Len(buf))
  PROVE  \E g : Reads(g, frame, buf, Len(buf) + 1)
<1> DEFINE L == Len(buf)
           T == {n \in Nat : n <= L + 1 => \E g : Reads(g, frame, buf, n) /\ Bounded(g, n)}
<1>1. L \in Nat
  BY LenProperties
<1>2. 0 \in T
  <2> DEFINE g == [m \in Below(0) |-> ReadFrom(<<>>, frame, buf, m)]
  <2>1. Reads(g, frame, buf, 0)
    <3>1. Below(0) = {}
      BY DEF Below
    <3>2. g = [m \in Below(0) |-> ReadFrom(g, frame, buf, m)]
      BY <3>1
    <3> QED
      BY <3>2, Zenon DEF Reads
  <2>2. Bounded(g, 0)
    BY DEF Bounded, Below
  <2> HIDE DEF g
  <2> QED
    BY <2>1, <2>2
<1>3. ASSUME NEW n \in T PROVE n + 1 \in T
  <2>1. SUFFICES ASSUME n + 1 <= L + 1
                 PROVE  \E g : Reads(g, frame, buf, n + 1) /\ Bounded(g, n + 1)
    OBVIOUS
  <2>2. PICK g : Reads(g, frame, buf, n) /\ Bounded(g, n)
    BY <1>1, <2>1
  <2> DEFINE last == ReadFrom(g, frame, buf, n)
             h == [m \in 0 .. n |-> IF m < n THEN g[m] ELSE last]
  <2>3. n \in Nat /\ n \in 0 .. L
    BY <1>1, <2>1
  <2> HIDE DEF T, L
  <2>4. SameBelow(g, h, n) /\ h[n] = last
    <3> HIDE DEF last
    <3> QED
      BY <2>3 DEF SameBelow, Below
  <2>5. ASSUME NEW m \in 0 .. n
        PROVE  /\ ReadFrom(g, frame, buf, m) = ReadFrom(h, frame, buf, m)
               /\ \A c \in Int : LET r == ReadFrom(g, frame, buf, m)[c]
                                 IN  r[1] = "value" => Len(r[3]) \in 0 .. m
    <3>1. m \in 0 .. Len(buf) /\ Framed(frame[m], m)
      BY <1>1, <2>3 DEF AllFramed, L
    <3>2. Bounded(g, m) /\ SameBelow(g, h, m)
      <4>1. \A k \in Below(m) : k \in Below(n)
        BY <2>3 DEF Below
      <4> HIDE DEF h
      <4> QED
        BY <2>2, <2>4, <4>1, Zenon DEF Bounded, SameBelow
    <3> HIDE DEF h
    <3> QED
      BY <3>1, <3>2, ReadFromLocal, Zenon
  <2>6. ASSUME NEW m \in 0 .. n PROVE h[m] = ReadFrom(g, frame, buf, m)
    <3>1. CASE m < n
      <4>1. m \in Below(n)
        BY <2>3, <3>1 DEF Below
      <4>2. g[m] = ReadFrom(g, frame, buf, m)
        BY <2>2, <2>3, <4>1, ReadsAt
      <4> QED
        BY <2>4, <4>1, <4>2 DEF SameBelow
    <3>2. CASE m = n
      BY <2>4, <3>2
    <3> QED
      BY <2>3, <3>1, <3>2
  <2>7. h = [m \in 0 .. n |-> h[m]]
    OBVIOUS
  <2> HIDE DEF h, last
  <2>8. Reads(h, frame, buf, n + 1)
    <3>1. \A m \in 0 .. n : h[m] = ReadFrom(h, frame, buf, m)
      BY <2>5, <2>6
    <3>2. h = [m \in 0 .. n |-> ReadFrom(h, frame, buf, m)]
      BY <2>7, <3>1, Zenon
    <3>3. Below(n + 1) = 0 .. n
      BY <2>3 DEF Below
    <3> QED
      BY <3>2, <3>3, Zenon DEF Reads
  <2>9. Bounded(h, n + 1)
    <3>1. Below(n + 1) = 0 .. n
      BY <2>3 DEF Below
    <3>2. \A m \in 0 .. n : \A c \in Int : h[m][c][1] = "value" => Len(h[m][c][3]) \in 0 .. m
      BY <2>5, <2>6, Zenon
    <3> QED
      BY <3>1, <3>2, Zenon DEF Bounded
  <2> QED
    BY <2>8, <2>9
<1> HIDE DEF T
<1>4. T = Nat
  <2>1. T \in SUBSET Nat
    BY DEF T
  <2> QED
    BY <1>2, <1>3, <2>1, EveryNumber
<1>5. L + 1 \in T
  BY <1>1, <1>4
<1> QED
  BY <1>1, <1>5 DEF T

\* Values reads what Elements says of it.
LEMMA ValuesIs ==
  ASSUME NEW S, NEW buf \in Seq(S), NEW frame, AllFramed(frame, Len(buf)),
         NEW m \in 0 .. Len(buf), NEW c \in Int
  PROVE  Values(frame, buf)[m][c]
           = Elements(Values(frame, buf), frame[m], After(buf, Len(buf) - m), c)
<1> DEFINE F == CHOOSE g : g = [n \in 0 .. Len(buf) |->
                  [count \in Int |-> Elements(g, frame[n], After(buf, Len(buf) - n), count)]]
<1>1. Values(frame, buf) = F
  BY Zenon DEF Values
<1>2. Len(buf) \in Nat /\ Below(Len(buf) + 1) = 0 .. Len(buf)
  <2>1. Len(buf) \in Nat
    BY LenProperties
  <2> QED
    BY <2>1 DEF Below
<1>3. PICK g : Reads(g, frame, buf, Len(buf) + 1)
  BY ReadsExists
<1>4. g = [n \in 0 .. Len(buf) |->
             [count \in Int |-> Elements(g, frame[n], After(buf, Len(buf) - n), count)]]
  BY <1>2, <1>3, Zenon DEF Reads, ReadFrom
<1>5. F = [n \in 0 .. Len(buf) |->
             [count \in Int |-> Elements(F, frame[n], After(buf, Len(buf) - n), count)]]
  BY <1>4
<1> HIDE DEF F
<1>6. F[m] = [count \in Int |-> Elements(F, frame[m], After(buf, Len(buf) - m), count)]
  <2> DEFINE G == [n \in 0 .. Len(buf) |->
                    [count \in Int |-> Elements(F, frame[n], After(buf, Len(buf) - n), count)]]
  <2>1. G[m] = [count \in Int |-> Elements(F, frame[m], After(buf, Len(buf) - m), count)]
    OBVIOUS
  <2>2. F = G
    BY <1>5, Zenon
  <2> HIDE DEF G
  <2> QED
    BY <2>1, <2>2
<1> QED
  BY <1>1, <1>6, Zenon

-----------------------------------------------------------------------------
(* Lines                                                                  *)

\* The symbols of the protocol are symbols, and differ.
LEMMA Symbols ==
  /\ CR \in Symbol /\ LF \in Symbol /\ SP \in Symbol /\ <<"+">> \in Symbol /\ <<"?">> \in Symbol
  /\ CR # LF /\ SP # CR /\ SP # LF
  /\ EOL \in Seq(Symbol) /\ Len(EOL) = 2 /\ EOL[1] = CR /\ EOL[2] = LF
  /\ \A p \in {":", "$", "*"} : \A n \in Int : <<p, n>> \in Symbol
<1>1. \A x \in Atoms : <<x>> \in Symbol
  BY DEF Symbol
<1>2. CR \in Symbol /\ LF \in Symbol /\ SP \in Symbol /\ <<"+">> \in Symbol /\ <<"?">> \in Symbol
  BY <1>1, RespAssumption, Zenon DEF CR, LF, SP
<1>3. CR # LF /\ SP # CR /\ SP # LF
  BY DEF CR, LF, SP
<1>4. EOL \in Seq(Symbol) /\ Len(EOL) = 2 /\ EOL[1] = CR /\ EOL[2] = LF
  <2> HIDE DEF CR, LF, Symbol
  <2> QED
    BY <1>2 DEF EOL
<1>5. \A p \in {":", "$", "*"} : \A n \in Int : <<p, n>> \in Symbol
  BY DEF Symbol
<1> QED
  BY <1>2, <1>3, <1>4, <1>5

\* A number comes with its prefix.
LEMMA NumberSymbol ==
  ASSUME NEW x \in Symbol
  PROVE  \/ Len(x) = 1 /\ x[1] \in Atoms
         \/ Len(x) = 2 /\ x[1] \in {":", "$", "*"} /\ x[2] \in Int
<1>1. ASSUME NEW y \in Atoms, x = <<y>> PROVE Len(x) = 1 /\ x[1] \in Atoms
  BY <1>1
<1>2. CASE x \in {":", "$", "*"} \X Int
  <2>1. PICK p \in {":", "$", "*"}, n \in Int : x = <<p, n>>
    BY <1>2
  <2>2. Len(<<p, n>>) = 2 /\ <<p, n>>[1] = p /\ <<p, n>>[2] = n
    OBVIOUS
  <2> QED
    BY <2>1, <2>2
<1> QED
  BY <1>1, <1>2 DEF Symbol

\* The first line of b ends with its i-th symbol, or has no end.
FirstLine(b, i) ==
  \/ i = 0 /\ \A j \in 1 .. Len(b) : b[j] # LF
  \/ i \in 1 .. Len(b) /\ b[i] = LF /\ \A j \in 1 .. i - 1 : b[j] # LF

\* The line is what its end says.
LEMMA LineIs ==
  ASSUME NEW S, NEW b \in Seq(S), NEW i \in Nat, FirstLine(b, i)
  PROVE  Line(b) = IF i = 0 THEN b ELSE SubSeq(b, 1, i)
<1> DEFINE I == {j \in 1 .. Len(b) : b[j] = LF}
<1>1. Line(b) = LET lf == IF I # {} THEN Min(I) ELSE 0
                IN  IF lf = 0 THEN b ELSE SubSeq(b, 1, lf)
  BY Zenon DEF Line, SelectInSeq
<1>2. CASE i = 0 /\ \A j \in 1 .. Len(b) : b[j] # LF
  <2>1. I = {}
    BY <1>2
  <2> HIDE DEF I
  <2> QED
    BY <1>1, <1>2, <2>1
<1>3. CASE i \in 1 .. Len(b) /\ b[i] = LF /\ \A j \in 1 .. i - 1 : b[j] # LF
  <2>1. Len(b) \in Nat
    BY LenProperties
  <2>2. i \in I /\ \A j \in I : i <= j
    BY <1>3, <2>1
  <2>3. \A j \in I : j \in Nat
    BY <2>1
  <2> HIDE DEF I
  <2>4. Min(I) = i
    <3>1. Min(I) \in I /\ \A j \in I : Min(I) <= j
      BY <2>2, Zenon DEF Min
    <3>2. Min(I) <= i /\ i <= Min(I) /\ Min(I) \in Nat
      BY <2>2, <2>3, <3>1
    <3> QED
      BY <3>2
  <2> QED
    BY <1>1, <1>3, <2>2, <2>4
<1> QED
  BY <1>2, <1>3 DEF FirstLine

\* There is a first end of a line, or none.
LEMMA FirstLineExists ==
  ASSUME NEW S, NEW b \in Seq(S)
  PROVE  \E i \in Nat : FirstLine(b, i)
<1> DEFINE I == {j \in 1 .. Len(b) : b[j] = LF}
<1>1. Len(b) \in Nat
  BY LenProperties
<1>2. CASE I = {}
  BY <1>2 DEF FirstLine
<1>3. CASE I # {}
  <2>1. PICK i \in I : \A j \in I : i <= j
    <3>1. I \in SUBSET Nat
      BY <1>1
    <3> HIDE DEF I
    <3> QED
      BY <1>3, <3>1, SmallestNumber, Zenon
  <2>2. FirstLine(b, i)
    BY <1>1, <2>1 DEF FirstLine
  <2> QED
    BY <1>1, <2>1, <2>2
<1> QED
  BY <1>2, <1>3

\* A line is a part of what it is read from, and not an empty one.
LEMMA LinePart ==
  ASSUME NEW S, NEW b \in Seq(S)
  PROVE  /\ Line(b) \in Seq(S)
         /\ Len(Line(b)) \in 0 .. Len(b)
         /\ Line(b) # <<>> => Len(Line(b)) > 0 /\ Head(Line(b)) \in S
<1>1. PICK i \in Nat : FirstLine(b, i)
  BY FirstLineExists
<1>2. Line(b) = IF i = 0 THEN b ELSE SubSeq(b, 1, i)
  BY <1>1, LineIs
<1>3. Len(b) \in Nat
  BY LenProperties
<1>4. Line(b) \in Seq(S) /\ Len(Line(b)) \in 0 .. Len(b)
  <2>1. CASE i = 0
    BY <1>2, <1>3, <2>1
  <2>2. CASE i # 0
    <3>1. i \in 0 .. Len(b)
      BY <1>1, <1>3, <2>2 DEF FirstLine
    <3>2. SubSeq(b, 1, i) \in Seq(S) /\ Len(SubSeq(b, 1, i)) = i
      BY <3>1, AfterParts
    <3> QED
      BY <1>2, <2>2, <3>1, <3>2
  <2> QED
    BY <2>1, <2>2
<1>5. Line(b) # <<>> => Len(Line(b)) > 0 /\ Head(Line(b)) \in S
  BY <1>4, EmptySeq, HeadTailProperties
<1> QED
  BY <1>4, <1>5

\* No line ends in d.
OneLine(d) == \A i \in 1 .. Len(d) : d[i] \notin {CR, LF}

\* How a line may end, if it need not have arrived to its end.
Ends == {<<>>, <<CR>>, EOL}

\* The symbols of the ends.
LEMMA EndsAre ==
  ASSUME NEW t \in Ends
  PROVE  /\ t \in Seq(Symbol) /\ Len(t) \in 0 .. 2
         /\ \A i \in 1 .. Len(t) : t[i] \in {CR, LF}
         /\ t # EOL => \A i \in 1 .. Len(t) : t[i] # LF
         /\ t = EOL => Len(t) = 2 /\ t[1] = CR /\ t[2] = LF
<1>1. /\ CR \in Symbol /\ LF \in Symbol /\ CR # LF
      /\ EOL \in Seq(Symbol) /\ Len(EOL) = 2 /\ EOL[1] = CR /\ EOL[2] = LF
  BY Symbols
<1>2. CASE t = <<>>
  BY SMTT(30), <1>1, <1>2, EmptySeq
<1>3. CASE t = <<CR>>
  <2>1. <<CR>> \in Seq(Symbol) /\ Len(<<CR>>) = 1 /\ <<CR>>[1] = CR
    BY <1>1
  <2>2. t # EOL
    BY <1>1, <1>3, <2>1
  <2> QED
    BY <1>1, <1>3, <2>1, <2>2
<1>4. CASE t = EOL
  BY <1>1, <1>4
<1> QED
  BY <1>2, <1>3, <1>4 DEF Ends

\* rstrip takes off the end of the line and nothing else.
LEMMA StrippedIs ==
  ASSUME NEW d \in Seq(Symbol), OneLine(d), NEW t \in Ends
  PROVE  Stripped(d \o t) = d
<1> DEFINE s == d \o t
           I == {i \in 1 .. Len(s) : s[i] \notin {CR, LF}}
<1>1. Stripped(s) = SubSeq(s, 1, IF I # {} THEN Max(I) ELSE 0)
  BY Zenon DEF Stripped, SelectLastInSeq
<1>2. t \in Seq(Symbol) /\ Len(t) \in Nat /\ Len(d) \in Nat /\ \A i \in 1 .. Len(t) : t[i] \in {CR, LF}
  BY EndsAre, LenProperties
<1>3. /\ s \in Seq(Symbol) /\ Len(s) = Len(d) + Len(t)
      /\ \A i \in 1 .. Len(d) + Len(t) : s[i] = IF i <= Len(d) THEN d[i] ELSE t[i - Len(d)]
  BY <1>2, ConcatProperties
<1>4. SubSeq(s, 1, Len(d)) = d
  BY <1>2, AfterConcat
<1> HIDE DEF s
<1>5. ASSUME NEW i \in 1 .. Len(s) PROVE s[i] \notin {CR, LF} <=> i <= Len(d)
  <2>1. CASE i <= Len(d)
    BY <1>2, <1>3, <2>1 DEF OneLine
  <2>2. CASE i > Len(d)
    <3>1. s[i] = t[i - Len(d)] /\ i - Len(d) \in 1 .. Len(t)
      BY <1>2, <1>3, <2>2
    <3> QED
      BY <1>2, <2>2, <3>1
  <2> QED
    BY <1>2, <1>3, <2>1, <2>2
<1>6. I = 1 .. Len(d)
  BY <1>2, <1>3, <1>5
<1> HIDE DEF I
<1>7. CASE Len(d) = 0
  <2>1. I = {}
    BY <1>6, <1>7
  <2> QED
    BY <1>1, <1>4, <1>7, <2>1 DEF s
<1>8. CASE Len(d) # 0
  <2>1. Len(d) \in I /\ \A i \in I : i <= Len(d) /\ i \in Nat
    BY <1>2, <1>6, <1>8
  <2>2. Max(I) \in I /\ \A i \in I : Max(I) >= i
    <3>1. \A i \in I : Len(d) >= i
      BY <1>2, <2>1
    <3> QED
      BY <2>1, <3>1, Zenon DEF Max
  <2>3. Max(I) = Len(d)
    BY <1>2, <2>1, <2>2
  <2> QED
    BY <1>1, <1>4, <2>1, <2>3 DEF s
<1> QED
  BY <1>7, <1>8

\* A line that has arrived ends with its only LF, one that has not has none.
LEMMA LineWhole ==
  ASSUME NEW l \in Seq(Symbol), NEW r \in Seq(Symbol), Len(l) > 0, l[Len(l)] = LF,
         \A i \in 1 .. Len(l) - 1 : l[i] # LF
  PROVE  Line(l \o r) = l
<1> DEFINE b == l \o r
           n == Len(l)
<1>1. n \in Nat /\ Len(r) \in Nat /\ n > 0 /\ l[n] = LF /\ \A i \in 1 .. n - 1 : l[i] # LF
  BY LenProperties
<1>2. /\ b \in Seq(Symbol) /\ Len(b) = n + Len(r)
      /\ \A i \in 1 .. n + Len(r) : b[i] = IF i <= n THEN l[i] ELSE r[i - n]
  BY ConcatProperties
<1>3. SubSeq(b, 1, n) = l
  BY AfterConcat
<1> HIDE DEF b, n
<1>4. \A i \in 1 .. n : b[i] = l[i]
  BY <1>1, <1>2
<1>5. n \in 1 .. Len(b)
  BY <1>1, <1>2
<1>6. b[n] = LF /\ \A j \in 1 .. n - 1 : b[j] # LF
  BY <1>1, <1>4
<1>7. FirstLine(b, n)
  BY <1>5, <1>6 DEF FirstLine
<1>8. Line(b) = SubSeq(b, 1, n)
  BY <1>1, <1>2, <1>7, LineIs
<1> QED
  BY <1>3, <1>8 DEF b

\* A line without an end is all there is.
LEMMA LineCut ==
  ASSUME NEW l \in Seq(Symbol), \A i \in 1 .. Len(l) : l[i] # LF
  PROVE  Line(l) = l
<1>1. FirstLine(l, 0)
  BY DEF FirstLine
<1> QED
  BY <1>1, LineIs

\* Where the LF of a line is.
EndsWith(l, h, d, t) ==
  /\ l \in Seq(Symbol) /\ Len(l) = 1 + Len(d) + Len(t)
  /\ Head(l) = h /\ Tail(l) = d \o t /\ l # <<>>
  /\ \A i \in 1 .. Len(l) - 1 : l[i] # LF
  /\ t = EOL => l[Len(l)] = LF
  /\ t # EOL => l[Len(l)] # LF

\* A line that is written from its parts is read as them.
LEMMA LineEnds ==
  ASSUME NEW h \in Symbol, h # LF, NEW d \in Seq(Symbol), OneLine(d), NEW t \in Ends
  PROVE  EndsWith(<<h>> \o (d \o t), h, d, t)
<1> DEFINE u == d \o t
           l == <<h>> \o u
<1>1. /\ t \in Seq(Symbol) /\ Len(t) \in 0 .. 2 /\ Len(d) \in Nat
      /\ t # EOL => \A i \in 1 .. Len(t) : t[i] # LF
      /\ t = EOL => Len(t) = 2 /\ t[1] = CR /\ t[2] = LF
      /\ CR # LF
  BY EndsAre, LenProperties, Symbols
<1>2. /\ u \in Seq(Symbol) /\ Len(u) = Len(d) + Len(t)
      /\ \A i \in 1 .. Len(d) + Len(t) : u[i] = IF i <= Len(d) THEN d[i] ELSE t[i - Len(d)]
  BY <1>1, ConcatProperties
<1>3. \A i \in 1 .. Len(d) : d[i] # LF
  BY DEF OneLine
<1> HIDE DEF u
<1>4. <<h>> \in Seq(Symbol) /\ Len(<<h>>) = 1 /\ <<h>>[1] = h
  OBVIOUS
<1>5. /\ l \in Seq(Symbol) /\ Len(l) = 1 + Len(u)
      /\ \A i \in 1 .. 1 + Len(u) : l[i] = IF i <= 1 THEN <<h>>[i] ELSE u[i - 1]
  BY <1>2, <1>4, ConcatProperties
<1> HIDE DEF l
<1>6. /\ l[1] = h /\ Len(u) \in Nat
      /\ \A i \in 2 .. 1 + Len(u) : l[i] = u[i - 1]
  BY <1>1, <1>2, <1>4, <1>5
<1>7. l # <<>> /\ Len(l) > 0
  BY <1>5, <1>6, EmptySeq
<1>8. Head(l) = h
  BY <1>5, <1>6, <1>7
<1>9. Tail(l) = u
  <2>1. /\ Tail(l) \in Seq(Symbol) /\ Len(Tail(l)) = Len(l) - 1
        /\ \A i \in 1 .. Len(Tail(l)) : Tail(l)[i] = l[i + 1]
    BY <1>5, <1>7, HeadTailProperties
  <2>2. Len(Tail(l)) = Len(u)
    BY <1>5, <1>6, <2>1
  <2>3. \A i \in 1 .. Len(u) : i + 1 \in 2 .. 1 + Len(u) /\ i + 1 - 1 = i
    BY <1>6
  <2>4. \A i \in 1 .. Len(Tail(l)) : Tail(l)[i] = u[i]
    BY <1>6, <2>1, <2>2, <2>3
  <2> QED
    BY <1>2, <2>1, <2>2, <2>4, SeqEqual
<1>a. Len(u) = Len(d) + Len(t) /\ Len(d) \in Nat /\ Len(t) \in Nat /\ (t = EOL => Len(t) = 2)
  BY <1>1, <1>2
<1>10. ASSUME NEW j \in 1 .. Len(u) PROVE u[j] = LF <=> t = EOL /\ j = Len(u)
  <2>1. CASE j <= Len(d)
    <3>1. u[j] = d[j] /\ d[j] # LF
      BY <1>1, <1>2, <1>3, <2>1
    <3>2. CASE t = EOL
      <4>1. Len(t) = 2
        BY <1>1, <3>2
      <4>2. j # Len(u)
        BY <1>a, <2>1, <4>1
      <4> QED
        BY <3>1, <4>2
    <3>3. CASE t # EOL
      BY <3>1, <3>3
    <3> QED
      BY <3>2, <3>3
  <2>2. CASE j > Len(d)
    <3>1. u[j] = t[j - Len(d)] /\ j - Len(d) \in 1 .. Len(t)
      BY <1>1, <1>2, <2>2
    <3>2. CASE t = EOL
      <4>1. Len(t) = 2 /\ t[1] = CR /\ t[2] = LF
        BY <1>1, <3>2
      <4>2. CASE j - Len(d) = 1
        <5>1. j # Len(u)
          BY <1>a, <4>1, <4>2
        <5> QED
          BY <1>1, <3>1, <4>1, <4>2, <5>1
      <4>3. CASE j - Len(d) = 2
        <5>1. j = Len(u)
          BY <1>a, <4>1, <4>3
        <5> QED
          BY <3>1, <3>2, <4>1, <4>3, <5>1
      <4> QED
        BY <3>1, <4>1, <4>2, <4>3
    <3>3. CASE t # EOL
      BY <1>1, <3>1, <3>3
    <3> QED
      BY <3>2, <3>3
  <2> QED
    BY <1>a, <2>1, <2>2
<1>11. ASSUME NEW i \in 1 .. Len(l) - 1 PROVE l[i] # LF
  <2>1. CASE i = 1
    BY <1>6, <2>1
  <2>2. CASE i # 1
    <3>1. i \in 2 .. 1 + Len(u) /\ i - 1 \in 1 .. Len(u) /\ i - 1 # Len(u)
      BY <1>5, <1>6, <2>2
    <3> QED
      BY <1>6, <1>10, <3>1
  <2> QED
    BY <2>1, <2>2
<1>12. l[Len(l)] = LF <=> t = EOL
  <2>1. CASE Len(u) = 0
    <3>1. l[Len(l)] = h
      BY <1>5, <1>6, <2>1
    <3>2. t # EOL
      BY <1>1, <1>2, <2>1
    <3> QED
      BY <3>1, <3>2
  <2>2. CASE Len(u) # 0
    <3>1. Len(l) \in 2 .. 1 + Len(u) /\ Len(l) - 1 = Len(u) /\ Len(u) \in 1 .. Len(u)
      BY <1>5, <1>6, <2>2
    <3> QED
      BY <1>6, <1>10, <3>1
  <2> QED
    BY <2>1, <2>2
<1>13. Len(l) = 1 + Len(d) + Len(t)
  BY <1>1, <1>2, <1>5
<1> QED
  BY <1>5, <1>7, <1>8, <1>9, <1>11, <1>12, <1>13 DEF l, u, EndsWith

\* What is read of a line that has arrived as far as t.
LineReads(b, h, d, t, r) ==
  /\ b \in Seq(Symbol)
  /\ Head(Line(b)) = h /\ Tail(Line(b)) = d \o t
  /\ After(b, Len(Line(b))) = r
  /\ LF \in Range(Line(b)) <=> t = EOL
  /\ Line(b) # <<>>

\* So is a line that others follow, if it has come to its end.
LEMMA LineOf ==
  ASSUME NEW h \in Symbol, h # LF, NEW d \in Seq(Symbol), OneLine(d), NEW t \in Ends,
         NEW r \in Seq(Symbol), t = EOL \/ r = <<>>
  PROVE  LineReads((<<h>> \o (d \o t)) \o r, h, d, t, r)
<1> DEFINE l == <<h>> \o (d \o t)
           b == l \o r
<1>1. /\ l \in Seq(Symbol) /\ Len(l) = 1 + Len(d) + Len(t)
      /\ Head(l) = h /\ Tail(l) = d \o t /\ l # <<>>
      /\ \A i \in 1 .. Len(l) - 1 : l[i] # LF
      /\ t = EOL => l[Len(l)] = LF
      /\ t # EOL => l[Len(l)] # LF
  <2>1. EndsWith(l, h, d, t)
    BY LineEnds
  <2> HIDE DEF l
  <2> QED
    BY <2>1 DEF EndsWith
<1>2. Len(l) \in Nat /\ Len(l) > 0
  BY <1>1, EmptySeq, LenProperties
<1> HIDE DEF l
<1>3. b \in Seq(Symbol) /\ After(b, Len(l)) = r
  BY <1>1, AfterConcat, ConcatProperties
<1>4. \A i \in 1 .. Len(l) : i = Len(l) \/ i \in 1 .. Len(l) - 1
  BY <1>2
<1>5. Line(b) = l
  <2>1. CASE t = EOL
    BY <1>1, <1>2, <2>1, LineWhole
  <2>2. CASE t # EOL
    <3>1. Line(l) = l
      BY <1>1, <1>4, <2>2, LineCut
    <3>2. l \o <<>> = l
      BY <1>1, ConcatEmptySeq
    <3> QED
      BY <2>2, <3>1, <3>2
  <2> QED
    BY <2>1, <2>2
<1>6. LF \in Range(l) <=> t = EOL
  <2>1. Range(l) = {l[i] : i \in 1 .. Len(l)}
    BY <1>1, RangeEquality
  <2>2. Len(l) \in 1 .. Len(l)
    BY <1>2
  <2> QED
    BY <1>1, <1>4, <2>1, <2>2
<1> HIDE DEF b
<1> QED
  BY <1>1, <1>3, <1>5, <1>6 DEF l, b, LineReads

-----------------------------------------------------------------------------
(* Frames                                                                 *)

\* Frame, of the line, what follows it, and what the line is made of.
FrameOf(line, rest, data, head, ended) ==
  IF LF \notin Range(line) /\ ~ended THEN Wait
  ELSE IF line = <<>> THEN Gone
  ELSE IF head[1] = "+" THEN Read(Str(data), rest)
  ELSE IF head[1] \notin {":", "$", "*"} THEN Error
  ELSE IF Len(head) = 1 \/ data # <<>> THEN Error
  ELSE IF head[1] = ":" THEN Read(Number(head[2]), rest)
  ELSE IF head[1] = "$" THEN Bulk(head[2], rest, ended)
  ELSE IF head[2] = -1 THEN Read(Null, rest)
  ELSE Read(Opening(head[2]), rest)

\* Frame, by the line that it reads.
LEMMA FrameParts ==
  ASSUME NEW b, NEW ended
  PROVE  Frame(b, ended)
           = FrameOf(Line(b), After(b, Len(Line(b))), Stripped(Tail(Line(b))), Head(Line(b)), ended)
BY Zenon DEF Frame, FrameOf

\* What a line that has arrived as far as t is the first frame of.
FrameReads(f, h, d, t, r, ended) ==
  /\ t # EOL /\ ~ended => f = Wait
  /\ t = EOL \/ ended =>
       /\ h[1] = "+" => f = Read(Str(d), r)
       /\ h[1] \notin {"+", ":", "$", "*"} => f = Error
       /\ h[1] = ":" /\ Len(h) = 2 /\ d = <<>> => f = Read(Number(h[2]), r)
       /\ h[1] = "$" /\ Len(h) = 2 /\ d = <<>> => f = Bulk(h[2], r, ended)
       /\ h[1] = "*" /\ Len(h) = 2 /\ d = <<>> /\ h[2] = -1 => f = Read(Null, r)
       /\ h[1] = "*" /\ Len(h) = 2 /\ d = <<>> /\ h[2] # -1 => f = Read(Opening(h[2]), r)

\* What a frame reads of a line that is written from its parts.
LEMMA FrameIs ==
  ASSUME NEW h \in Symbol, h # LF, NEW d \in Seq(Symbol), OneLine(d), NEW t \in Ends,
         NEW r \in Seq(Symbol), t = EOL \/ r = <<>>, NEW ended \in BOOLEAN
  PROVE  FrameReads(Frame((<<h>> \o (d \o t)) \o r, ended), h, d, t, r, ended)
<1> DEFINE b == (<<h>> \o (d \o t)) \o r
           line == Line(b)
<1>1. /\ Head(line) = h /\ Tail(line) = d \o t /\ After(b, Len(line)) = r
      /\ LF \in Range(line) <=> t = EOL
      /\ line # <<>>
  <2>1. LineReads(b, h, d, t, r)
    BY LineOf
  <2> QED
    BY <2>1, Zenon DEF LineReads
<1>2. Stripped(d \o t) = d
  BY StrippedIs
<1>3. Frame(b, ended) = FrameOf(line, After(b, Len(line)), Stripped(Tail(line)), Head(line), ended)
  BY FrameParts, Zenon
<1> HIDE DEF line, b
<1>4. Frame(b, ended) = FrameOf(line, r, d, h, ended)
  BY <1>1, <1>2, <1>3
<1>5. (LF \notin Range(line) <=> t # EOL) /\ line # <<>>
  BY <1>1
<1> QED
  BY <1>4, <1>5 DEF FrameOf, FrameReads, b

\* Of nothing, there is no frame.
LEMMA FrameOfNothing ==
  ASSUME NEW ended \in BOOLEAN
  PROVE  Frame(<<>>, ended) = IF ended THEN Gone ELSE Wait
<1>1. Line(<<>>) = <<>>
  <2>1. <<>> \in Seq(Symbol) /\ \A i \in 1 .. Len(<<>>) : <<>>[i] # LF
    BY EmptySeq
  <2> QED
    BY <2>1, LineCut
<1>2. LF \notin Range(<<>>)
  BY DEF Range
<1> QED
  BY <1>1, <1>2, FrameParts DEF FrameOf

\* What is after n symbols is shorter.
LEMMA AfterShorter ==
  ASSUME NEW b \in Seq(Symbol), NEW n \in 0 .. Len(b)
  PROVE  /\ After(b, n) \in Seq(Symbol) /\ Len(After(b, n)) \in Nat
         /\ Len(After(b, n)) = Len(b) - n
<1>1. After(b, n) \in Seq(Symbol) /\ Len(After(b, n)) = Len(b) - n
  BY AfterParts
<1> QED
  BY <1>1, LenProperties

\* Bulk leaves what follows.
LEMMA BulkShorter ==
  ASSUME NEW n \in Int, NEW b \in Seq(Symbol), NEW ended \in BOOLEAN, Bulk(n, b, ended)[1] = "value"
  PROVE  /\ Bulk(n, b, ended)[3] \in Seq(Symbol)
         /\ Len(Bulk(n, b, ended)[3]) \in 0 .. Len(b)
         /\ Bulk(n, b, ended)[2][1] # "opening"
<1>1. Len(b) \in Nat
  BY LenProperties
<1>2. CASE n = -1
  <2>1. Bulk(n, b, ended) = Read(Null, b)
    BY <1>2 DEF Bulk
  <2> QED
    BY <1>1, <2>1 DEF Read, Null
<1>3. CASE n # -1 /\ ~(n + 2 < 0) /\ Len(b) >= n + 2
  <2>1. Bulk(n, b, ended) = Read(Str(SubSeq(b, 1, n)), After(b, n + 2))
    BY <1>3 DEF Bulk
  <2>2. PICK k \in 0 .. Len(b) : k = n + 2
    BY <1>1, <1>3
  <2>3. After(b, k) \in Seq(Symbol) /\ Len(After(b, k)) = Len(b) - k
    BY AfterShorter
  <2>4. After(b, k) \in Seq(Symbol) /\ Len(After(b, k)) \in 0 .. Len(b)
    BY <1>1, <2>3
  <2>5. Bulk(n, b, ended)[3] = After(b, k) /\ Bulk(n, b, ended)[2][1] = "str"
    BY <2>1, <2>2 DEF Read, Str
  <2> QED
    BY <2>4, <2>5
<1>4. CASE n # -1 /\ (n + 2 < 0 \/ ~(Len(b) >= n + 2))
  <2>1. Bulk(n, b, ended) \in {Error, Gone, Wait}
    BY <1>4 DEF Bulk
  <2>2. Bulk(n, b, ended)[1] # "value"
    BY <2>1 DEF Error, Gone, Wait
  <2> QED
    BY <2>2
<1> QED
  BY <1>2, <1>3, <1>4

\* A frame is shorter than what it is read from.
LEMMA FrameFramed ==
  ASSUME NEW b \in Seq(Symbol), NEW ended \in BOOLEAN
  PROVE  /\ Framed(Frame(b, ended), Len(b))
         /\ Frame(b, ended)[1] = "value" => Frame(b, ended)[3] \in Seq(Symbol)
<1> DEFINE line == Line(b)
           rest == After(b, Len(line))
           head == Head(line)
           data == Stripped(Tail(line))
           f == Frame(b, ended)
<1>1. line \in Seq(Symbol) /\ Len(line) \in 0 .. Len(b)
      /\ (line # <<>> => Len(line) > 0 /\ head \in Symbol)
  BY LinePart, Zenon
<1>2. rest \in Seq(Symbol) /\ Len(rest) = Len(b) - Len(line) /\ Len(rest) \in Nat
  <2> HIDE DEF line
  <2> QED
    BY <1>1, AfterShorter
<1>3. f = FrameOf(line, rest, data, head, ended)
  BY FrameParts, Zenon
<1>4. Len(b) \in Nat
  BY LenProperties
<1> HIDE DEF line, rest, head, data, f
<1>5. CASE line = <<>>
  <2>1. f \in {Wait, Gone}
    BY <1>3, <1>5 DEF FrameOf
  <2>2. f[1] # "value"
    BY <2>1 DEF Wait, Gone
  <2> QED
    BY <2>2 DEF Framed, f
<1>6. CASE line # <<>>
  <2>1. head \in Symbol /\ \A n \in 0 .. Len(rest) : n \in 0 .. Len(b) - 1
    BY <1>1, <1>2, <1>4, <1>6
  <2>2. head[1] \in {":", "$", "*"} /\ Len(head) # 1 => head[2] \in Int
    BY <2>1, NumberSymbol
  <2>3. \/ f \in {Wait, Error}
        \/ f = Read(Str(data), rest)
        \/ f = Read(Number(head[2]), rest)
        \/ f = Read(Null, rest)
        \/ f = Read(Opening(head[2]), rest) /\ head[2] \in Int
        \/ f = Bulk(head[2], rest, ended) /\ head[2] \in Int
    BY <1>3, <1>6, <2>2, Zenon DEF FrameOf
  <2>4. CASE f \in {Wait, Error}
    <3>1. f[1] # "value"
      BY <2>4 DEF Wait, Error
    <3> QED
      BY <3>1 DEF Framed, f
  <2>5. CASE \E v : f = Read(v, rest) /\ (v[1] = "opening" => v[2] \in Int)
    <3>1. Len(rest) \in 0 .. Len(b) - 1
      <4>1. Len(rest) \in 0 .. Len(rest)
        BY <1>2
      <4> QED
        BY <2>1, <4>1
    <3> QED
      BY <1>2, <2>5, <3>1 DEF Framed, Read, f
  <2>6. CASE f = Bulk(head[2], rest, ended) /\ head[2] \in Int
    <3> DEFINE g == Bulk(head[2], rest, ended)
               n == head[2]
    <3>1. g[1] = "value" => /\ g[3] \in Seq(Symbol) /\ Len(g[3]) \in 0 .. Len(rest)
                            /\ g[2][1] # "opening"
      BY <1>2, <2>6, BulkShorter
    <3> HIDE DEF g
    <3>2. g[1] = "value" => /\ g[3] \in Seq(Symbol) /\ Len(g[3]) \in 0 .. Len(b) - 1
                            /\ g[2][1] # "opening"
      BY <2>1, <3>1
    <3>3. f = g
      BY <2>6 DEF g
    <3> QED
      BY <3>2, <3>3 DEF Framed, f
  <2>7. /\ Str(data)[1] # "opening" /\ Number(head[2])[1] # "opening" /\ Null[1] # "opening"
        /\ Opening(head[2])[2] = head[2]
    BY DEF Str, Number, Null, Opening
  <2> QED
    BY <2>3, <2>4, <2>5, <2>6, <2>7
<1> QED
  BY <1>5, <1>6

\* A part of EOL is not EOL.
LEMMA EmptyIsNoEOL == <<>> # EOL /\ <<CR>> # EOL
BY DEF EOL

\* No line ends in no symbol.
LEMMA NoLine == <<>> \in Seq(Symbol) /\ OneLine(<<>>) /\ EOL \in Ends /\ Len(<<>>) = 0
BY EmptySeq DEF OneLine, Ends

\* c is the line of h and d, cut somewhere behind h.
CutLine(c, h, d) ==
  \E d1, d2 \in Seq(Symbol) : \E t \in Ends : t # EOL /\ c = <<h>> \o (d1 \o t) /\ d = d1 \o d2

\* Two numbers that make two.
LEMMA OneEach ==
  ASSUME NEW a \in Nat, NEW b \in Nat, a # 0, b # 0, 2 = a + b
  PROVE  a = 1 /\ b = 1
OBVIOUS

\* What is left of EOL after a part of it.
LEMMA CutEnd ==
  ASSUME NEW g \in Seq(Symbol), NEW x \in Seq(Symbol), EOL = g \o x, g # <<>>, x # <<>>
  PROVE  g = <<CR>>
<1>1. Len(EOL) = 2 /\ EOL[1] = CR /\ CR \in Symbol
  BY Symbols
<1>2. Len(g) \in Nat /\ Len(x) \in Nat /\ Len(g) # 0 /\ Len(x) # 0
  BY EmptySeq, LenProperties
<1>3. /\ Len(EOL) = Len(g) + Len(x)
      /\ \A i \in 1 .. Len(g) + Len(x) : EOL[i] = IF i <= Len(g) THEN g[i] ELSE x[i - Len(g)]
  BY ConcatProperties
<1>4. Len(g) = 1 /\ Len(x) = 1
  <2>1. 2 = Len(g) + Len(x)
    BY <1>1, <1>3
  <2> QED
    BY <1>2, <2>1, OneEach
<1>5. g[1] = CR
  BY <1>1, <1>3, <1>4
<1>6. <<CR>> \in Seq(Symbol) /\ Len(<<CR>>) = 1 /\ <<CR>>[1] = CR
  BY <1>1
<1> QED
  BY <1>4, <1>5, <1>6, SeqEqual

\* Where a line may be cut.
LEMMA LineParts ==
  ASSUME NEW h \in Symbol, NEW d \in Seq(Symbol), NEW c \in Seq(Symbol), NEW x \in Seq(Symbol),
         c # <<>>, x # <<>>, c \o x = <<h>> \o (d \o EOL)
  PROVE  CutLine(c, h, d)
<1> DEFINE o == <<h>>
           m == d \o EOL
<1>1. o \in Seq(Symbol) /\ Len(o) = 1 /\ EOL \in Seq(Symbol) /\ m \in Seq(Symbol)
  BY Symbols, ConcatProperties
<1>2. Len(c) \in Nat /\ Len(c) # 0 /\ Len(d) \in Nat
  BY EmptySeq, LenProperties
<1> HIDE DEF o, m
<1>3. PICK e \in Seq(Symbol) : c = o \o e /\ m = e \o x
  <2>1. o \o m = c \o x /\ Len(o) <= Len(c)
    BY <1>1, <1>2 DEF o, m
  <2>2. Shares(o, m, c, x, Symbol)
    BY <1>1, <2>1, Overlap
  <2> QED
    BY <2>2 DEF Shares
<1>4. Len(e) \in Nat
  BY LenProperties
<1>5. CASE Len(e) <= Len(d)
  <2>1. Shares(e, x, d, EOL, Symbol)
    <3>1. e \o x = d \o EOL /\ EOL \in Seq(Symbol)
      BY <1>1, <1>3 DEF m
    <3> QED
      BY <1>5, <3>1, Overlap
  <2>2. PICK f \in Seq(Symbol) : d = e \o f
    BY <2>1 DEF Shares
  <2>3. <<>> \in Ends /\ <<>> # EOL
    BY EmptyIsNoEOL DEF Ends
  <2>4. e \o <<>> = e
    BY ConcatEmptySeq
  <2>5. c = <<h>> \o (e \o <<>>)
    BY <1>3, <2>4 DEF o
  <2> QED
    BY <2>2, <2>3, <2>5 DEF CutLine
<1>6. CASE ~(Len(e) <= Len(d))
  <2>1. Shares(d, EOL, e, x, Symbol)
    <3>1. d \o EOL = e \o x /\ EOL \in Seq(Symbol) /\ Len(d) <= Len(e)
      BY <1>1, <1>2, <1>3, <1>4, <1>6 DEF m
    <3> QED
      BY <3>1, Overlap
  <2>2. PICK g \in Seq(Symbol) : e = d \o g /\ EOL = g \o x
    BY <2>1 DEF Shares
  <2>3. g # <<>>
    <3>1. d \o <<>> = d
      BY ConcatEmptySeq
    <3>2. e # d
      BY <1>2, <1>6
    <3> QED
      BY <2>2, <3>1, <3>2
  <2>4. g = <<CR>>
    BY <2>2, <2>3, CutEnd
  <2>5. <<CR>> \in Ends /\ <<CR>> # EOL
    BY EmptyIsNoEOL DEF Ends
  <2>6. d = d \o <<>> /\ <<>> \in Seq(Symbol)
    BY ConcatEmptySeq
  <2>7. c = <<h>> \o (d \o <<CR>>)
    BY <1>3, <2>2, <2>4 DEF o
  <2> QED
    BY <2>5, <2>6, <2>7 DEF CutLine
<1> QED
  BY <1>5, <1>6

\* A header, as a line.
IsHeader(l, h, p, n) ==
  /\ l = <<h>> \o (<<>> \o EOL) /\ l \in Seq(Symbol) /\ Len(l) = 3
  /\ h \in Symbol /\ h # LF /\ h[1] = p /\ h[2] = n /\ Len(h) = 2

\* A header, as a line.
LEMMA HeaderIs ==
  ASSUME NEW p \in {":", "$", "*"}, NEW n \in Int
  PROVE  IsHeader(Header(p, n), <<p, n>>, p, n)
<1> DEFINE h == <<p, n>>
           o == <<h>>
<1>1. EOL \in Seq(Symbol) /\ h \in Symbol /\ Len(EOL) = 2
  BY Symbols
<1>2. h # LF /\ h[1] = p /\ h[2] = n /\ Len(h) = 2
  BY DEF LF
<1> HIDE DEF h
<1>3. o \in Seq(Symbol) /\ Len(o) = 1 /\ <<>> \o EOL = EOL
  BY <1>1, ConcatEmptySeq
<1>4. Header(p, n) = o \o EOL
  BY DEF Header, h
<1> HIDE DEF o
<1>5. Joins(o, EOL, Symbol)
  BY <1>1, <1>3, Joined
<1>6. o \o EOL \in Seq(Symbol) /\ Len(o \o EOL) = 3
  BY <1>1, <1>3, <1>5 DEF Joins
<1>7. o \o EOL = <<h>> \o (<<>> \o EOL)
  BY <1>3 DEF o
<1> QED
  BY <1>1, <1>2, <1>4, <1>6, <1>7 DEF IsHeader, h

\* A bulk string is its header, and what follows.
LEMMA BulkType ==
  ASSUME NEW s \in Seq(Symbol)
  PROVE  /\ BulkString(s) \in Seq(Symbol) /\ BulkString(s) = Header("$", Len(s)) \o (s \o EOL)
         /\ s \o EOL \in Seq(Symbol) /\ Len(s \o EOL) = Len(s) + 2 /\ Len(s) \in Nat
<1> DEFINE l == Header("$", Len(s))
           m == s \o EOL
<1>1. l \in Seq(Symbol) /\ EOL \in Seq(Symbol) /\ Len(EOL) = 2
  <2>1. Len(s) \in Int
    BY LenProperties
  <2>2. IsHeader(Header("$", Len(s)), <<"$", Len(s)>>, "$", Len(s))
    BY <2>1, HeaderIs
  <2> QED
    BY <2>2, Symbols DEF IsHeader
<1> HIDE DEF l
<1>2. BulkString(s) = (l \o s) \o EOL
  BY DEF BulkString, l
<1>3. Regroups(l, s, EOL, Symbol)
  BY <1>1, Regrouped
<1>4. Joins(s, EOL, Symbol)
  BY <1>1, Joined
<1>5. BulkString(s) = l \o m /\ m \in Seq(Symbol) /\ Len(m) = Len(s) + 2 /\ Len(s) \in Nat
  BY <1>1, <1>2, <1>3, <1>4 DEF Regroups, Joins
<1> HIDE DEF m
<1>6. Joins(l, m, Symbol)
  BY <1>1, <1>5, Joined
<1>7. BulkString(s) \in Seq(Symbol)
  BY <1>5, <1>6 DEF Joins
<1> QED
  BY <1>5, <1>7 DEF l, m

\* A bulk string is read as what it was made of, whatever it holds and whatever follows.
LEMMA BulkWhole ==
  ASSUME NEW s \in Seq(Symbol), NEW r \in Seq(Symbol), NEW ended \in BOOLEAN
  PROVE  Frame(BulkString(s) \o r, ended) = Read(Str(s), r)
<1> DEFINE n == Len(s)
           h == <<"$", n>>
           l == Header("$", n)
           m == s \o EOL
           rest == m \o r
<1>1. /\ BulkString(s) = l \o m /\ m \in Seq(Symbol) /\ Len(m) = n + 2 /\ n \in Nat
      /\ EOL \in Seq(Symbol) /\ Len(r) \in Nat
  BY BulkType, LenProperties, Symbols
<1>2. IsHeader(l, h, "$", n)
  BY <1>1, HeaderIs
<1>3. SubSeq(rest, 1, n) = s
  <2>1. Regroups(s, EOL, r, Symbol)
    BY <1>1, Regrouped
  <2>2. rest = s \o (EOL \o r) /\ EOL \o r \in Seq(Symbol)
    BY <2>1 DEF Regroups
  <2>3. SubSeq(s \o (EOL \o r), 1, Len(s)) = s
    BY <2>2, AfterConcat
  <2> QED
    BY <2>2, <2>3
<1> HIDE DEF m, l, h
<1>4. Joins(m, r, Symbol)
  BY <1>1, Joined
<1>5. After(rest, n + 2) = r
  <2>1. After(m \o r, Len(m)) = r
    BY <1>1, AfterConcat
  <2> QED
    BY <1>1, <2>1
<1>6. rest \in Seq(Symbol) /\ Len(rest) >= n + 2
  BY <1>1, <1>4 DEF Joins
<1>7. BulkString(s) \o r = l \o rest
  <2>1. Regroups(l, m, r, Symbol)
    BY <1>1, <1>2, Regrouped DEF IsHeader
  <2> QED
    BY <1>1, <2>1 DEF Regroups
<1> HIDE DEF rest, n
<1>8. Frame(BulkString(s) \o r, ended) = Bulk(n, rest, ended)
  <2>1. h \in Symbol /\ h # LF /\ h[1] = "$" /\ h[2] = n /\ Len(h) = 2 /\ l = <<h>> \o (<<>> \o EOL)
    BY <1>2 DEF IsHeader
  <2>2. FrameReads(Frame((<<h>> \o (<<>> \o EOL)) \o rest, ended), h, <<>>, EOL, rest, ended)
    BY <1>6, <2>1, NoLine, FrameIs
  <2>3. FrameReads(Frame(BulkString(s) \o r, ended), h, <<>>, EOL, rest, ended)
    BY <1>7, <2>1, <2>2
  <2> QED
    BY <2>1, <2>3 DEF FrameReads
<1>9. Bulk(n, rest, ended) = Read(Str(s), r)
  <2>1. n # -1 /\ ~(n + 2 < 0)
    BY <1>1
  <2> QED
    BY <1>3, <1>5, <1>6, <2>1 DEF Bulk
<1> QED
  BY <1>8, <1>9

\* What there is no more of than a part.
NoMore(ended) == IF ended THEN Gone ELSE Wait

\* A header, of which c is a part.
LEMMA HeaderCut ==
  ASSUME NEW p \in {":", "$", "*"}, NEW n \in Int, NEW c \in Seq(Symbol), NEW x \in Seq(Symbol),
         c # <<>>, x # <<>>, c \o x = Header(p, n), NEW ended \in BOOLEAN
  PROVE  \E t \in Ends : t # EOL /\ FrameReads(Frame(c, ended), <<p, n>>, <<>>, t, <<>>, ended)
<1> DEFINE h == <<p, n>>
<1>1. IsHeader(Header(p, n), h, p, n)
  BY HeaderIs
<1> HIDE DEF h
<1>2. h \in Symbol /\ h # LF /\ c \o x = <<h>> \o (<<>> \o EOL)
  BY <1>1 DEF IsHeader
<1>3. CutLine(c, h, <<>>)
  BY <1>2, NoLine, LineParts
<1>4. PICK d1, d2 \in Seq(Symbol), t \in Ends : t # EOL /\ c = <<h>> \o (d1 \o t) /\ <<>> = d1 \o d2
  BY <1>3 DEF CutLine
<1>5. d1 = <<>>
  <2>1. Joins(d1, d2, Symbol)
    BY Joined
  <2>2. 0 = Len(d1) + Len(d2) /\ Len(d1) \in Nat /\ Len(d2) \in Nat
    <3>1. Len(d1 \o d2) = Len(d1) + Len(d2) /\ Len(d1) \in Nat /\ Len(d2) \in Nat
      BY <2>1 DEF Joins
    <3>2. Len(d1 \o d2) = 0
      BY <1>4, NoLine
    <3> QED
      BY <3>1, <3>2
  <2>3. Len(d1) = 0
    BY <2>2
  <2> QED
    BY <2>3, EmptySeq
<1>6. c = (<<h>> \o (<<>> \o t)) \o <<>>
  BY <1>4, <1>5, ConcatEmptySeq
<1>7. FrameReads(Frame((<<h>> \o (<<>> \o t)) \o <<>>, ended), h, <<>>, t, <<>>, ended)
  BY <1>2, NoLine, FrameIs
<1>8. FrameReads(Frame(c, ended), h, <<>>, t, <<>>, ended)
  BY <1>6, <1>7
<1> QED
  BY <1>4, <1>8 DEF h

\* Of a bulk string that has not arrived to its end, nothing is read.
LEMMA BulkCut ==
  ASSUME NEW s \in Seq(Symbol), NEW c \in Seq(Symbol), NEW x \in Seq(Symbol), x # <<>>,
         c \o x = BulkString(s), NEW ended \in BOOLEAN
  PROVE  Frame(c, ended) = NoMore(ended)
<1> DEFINE n == Len(s)
           h == <<"$", n>>
           l == Header("$", n)
           m == s \o EOL
<1>1. BulkString(s) = l \o m /\ m \in Seq(Symbol) /\ Len(m) = n + 2 /\ n \in Nat
  BY BulkType
<1>2. IsHeader(l, h, "$", n)
  BY <1>1, HeaderIs
<1>3. Len(c) \in Nat /\ Len(x) \in Nat /\ Len(x) # 0
  BY LenProperties, EmptySeq
<1>4. l \in Seq(Symbol) /\ h \in Symbol /\ h # LF /\ l = <<h>> \o (<<>> \o EOL) /\ Len(l) = 3
      /\ h[1] = "$" /\ h[2] = n /\ Len(h) = 2
  BY <1>2 DEF IsHeader
<1>5. ASSUME NEW e \in Seq(Symbol), Len(e) < n + 2 PROVE Bulk(n, e, ended) = NoMore(ended)
  <2>1. Len(e) \in Nat
    BY LenProperties
  <2> HIDE DEF n
  <2>2. n # -1 /\ ~(n + 2 < 0) /\ ~(Len(e) >= n + 2)
    BY <1>1, <1>5, <2>1
  <2> QED
    BY <2>2 DEF Bulk, NoMore
<1>6. CASE c = <<>>
  BY <1>6, FrameOfNothing DEF NoMore
<1>7. CASE c # <<>> /\ Len(c) < 3
  <2>1. PICK e \in Seq(Symbol) : l = c \o e /\ e # <<>>
    <3> HIDE DEF l, m
    <3>1. c \o x = l \o m /\ Len(c) <= Len(l)
      BY <1>1, <1>3, <1>4, <1>7
    <3>2. Shares(c, x, l, m, Symbol)
      BY <1>1, <1>4, <3>1, Overlap
    <3>3. PICK e \in Seq(Symbol) : l = c \o e
      BY <3>2 DEF Shares
    <3>4. c \o <<>> = c /\ c # l
      BY <1>4, <1>7, ConcatEmptySeq
    <3> QED
      BY <3>3, <3>4
  <2>2. PICK t \in Ends : t # EOL /\ FrameReads(Frame(c, ended), <<"$", n>>, <<>>, t, <<>>, ended)
    <3> HIDE DEF n
    <3>1. n \in Int /\ c \o e = Header("$", n)
      BY <1>1, <2>1
    <3> QED
      BY <1>7, <2>1, <3>1, HeaderCut
  <2>3. /\ ~ended => Frame(c, ended) = Wait
        /\ ended => Frame(c, ended) = Bulk(n, <<>>, ended)
    <3> HIDE DEF n
    <3> QED
      BY <1>4, <2>2 DEF FrameReads, h
  <2>4. Bulk(n, <<>>, ended) = NoMore(ended)
    <3>1. Len(<<>>) < n + 2 /\ <<>> \in Seq(Symbol)
      BY <1>1, NoLine
    <3> QED
      BY <1>5, <3>1
  <2> QED
    BY <2>3, <2>4 DEF NoMore
<1>8. CASE Len(c) >= 3
  <2> HIDE DEF l, m, h, n
  <2>1. PICK e \in Seq(Symbol) : c = l \o e /\ m = e \o x
    <3>1. l \o m = c \o x /\ Len(l) <= Len(c)
      BY <1>1, <1>4, <1>8
    <3>2. Shares(l, m, c, x, Symbol)
      BY <1>1, <1>4, <3>1, Overlap
    <3> QED
      BY <3>2 DEF Shares
  <2>2. Len(e) < n + 2
    <3>1. Joins(e, x, Symbol)
      BY Joined
    <3>2. Len(e) \in Nat /\ n + 2 = Len(e) + Len(x)
      BY <1>1, <2>1, <3>1 DEF Joins
    <3> QED
      BY <1>1, <1>3, <3>2
  <2>3. FrameReads(Frame((<<h>> \o (<<>> \o EOL)) \o e, ended), h, <<>>, EOL, e, ended)
    BY <1>4, NoLine, FrameIs
  <2>4. FrameReads(Frame(c, ended), h, <<>>, EOL, e, ended)
    BY <1>4, <2>1, <2>3
  <2>5. Frame(c, ended) = Bulk(n, e, ended)
    BY <1>4, <2>4 DEF FrameReads
  <2> QED
    BY <1>5, <2>2, <2>5
<1> QED
  BY <1>3, <1>6, <1>7, <1>8

-----------------------------------------------------------------------------
(* Lists of bulk strings                                                  *)

\* What the rest of a text is after what comes before it.
IsRest(s, buf, S) ==
  /\ buf \in Seq(S) /\ s \in Seq(S)
  /\ Len(s) \in 0 .. Len(buf) /\ After(buf, Len(buf) - Len(s)) = s

\* The second of two texts is a rest of both.
LEMMA RestIs ==
  ASSUME NEW S, NEW p \in Seq(S), NEW s \in Seq(S)
  PROVE  IsRest(s, p \o s, S)
<1>1. Joins(p, s, S)
  BY Joined
<1>2. Len(p \o s) - Len(s) = Len(p) /\ Len(s) \in 0 .. Len(p \o s)
  BY <1>1 DEF Joins
<1>3. After(p \o s, Len(p)) = s
  BY AfterConcat
<1>4. p \o s \in Seq(S)
  BY <1>1 DEF Joins
<1> QED
  BY <1>2, <1>3, <1>4 DEF IsRest

\* What is read of the rest of a text.
LEMMA ReadsHere ==
  ASSUME NEW S, NEW buf \in Seq(S), NEW s, Len(s) \in 0 .. Len(buf), After(buf, Len(buf) - Len(s)) = s,
         NEW frame, AllFramed(frame, Len(buf)), NEW c \in Int
  PROVE  Values(frame, buf)[Len(s)][c] = Elements(Values(frame, buf), frame[Len(s)], s, c)
<1> DEFINE m == Len(s)
<1>1. m \in 0 .. Len(buf) /\ After(buf, Len(buf) - m) = s
  OBVIOUS
<1> HIDE DEF m
<1>2. Values(frame, buf)[m][c]
        = Elements(Values(frame, buf), frame[m], After(buf, Len(buf) - m), c)
  BY <1>1, ValuesIs
<1>3. Values(frame, buf)[m][c] = Elements(Values(frame, buf), frame[m], s, c)
  BY <1>1, <1>2
<1> QED
  BY <1>3 DEF m

\* A value, and those that follow it.
Before(v, more) ==
  IF more[1] # "value" THEN more ELSE Read(List(<<v>> \o more[2][2]), more[3])

\* What Elements makes of each frame.
LEMMA ElementsNone ==
  ASSUME NEW g, NEW f, NEW b, NEW c \in Int, c <= 0
  PROVE  Elements(g, f, b, c) = Read(List(<<>>), b)
BY DEF Elements

\* Nothing is read after what is no value ...
LEMMA ElementsStop ==
  ASSUME NEW g, NEW f, NEW b, NEW c \in Int, c > 0, f[1] # "value"
  PROVE  Elements(g, f, b, c) = f
<1>1. ~(c <= 0)
  OBVIOUS
<1> QED
  BY <1>1, Zenon DEF Elements

\* ... what holds no other value is followed by the other elements ...
LEMMA ElementsOne ==
  ASSUME NEW g, NEW b, NEW c \in Int, c > 0, NEW v, v[1] # "opening", NEW rest
  PROVE  Elements(g, Read(v, rest), b, c) = Before(v, g[Len(rest)][c - 1])
<1> DEFINE f == Read(v, rest)
<1>1. ~(c <= 0) /\ f[1] = "value" /\ f[2] = v /\ f[3] = rest
  BY DEF Read
<1> HIDE DEF f
<1>2. Elements(g, f, b, c) = Before(v, g[Len(rest)][c - 1])
  BY <1>1, Zenon DEF Elements, Before
<1> QED
  BY <1>2 DEF f

\* ... and so is a list, once its own elements have been read.
LEMMA ElementsList ==
  ASSUME NEW g, NEW b, NEW c \in Int, c > 0, NEW n, NEW rest, NEW first, first = g[Len(rest)][n]
  PROVE  /\ first[1] # "value" => Elements(g, Read(Opening(n), rest), b, c) = first
         /\ first[1] = "value" => Elements(g, Read(Opening(n), rest), b, c)
                                    = Before(first[2], g[Len(first[3])][c - 1])
<1> DEFINE f == Read(Opening(n), rest)
<1>1. ~(c <= 0) /\ f[1] = "value" /\ f[2][1] = "opening" /\ f[2][2] = n /\ f[3] = rest
  BY DEF Read, Opening
<1> HIDE DEF f
<1>2. /\ first[1] # "value" => Elements(g, f, b, c) = first
      /\ first[1] = "value" => Elements(g, f, b, c) = Before(first[2], g[Len(first[3])][c - 1])
  BY <1>1, Zenon DEF Elements, Before
<1> QED
  BY <1>2, Zenon DEF f

\* The frames of a text.
Frames(buf, ended) == [m \in 0 .. Len(buf) |-> Frame(After(buf, Len(buf) - m), ended)]

\* Parse, by the frames that its rests begin with.
LEMMA FramesAre ==
  ASSUME NEW buf \in Seq(Symbol), NEW ended \in BOOLEAN
  PROVE  /\ AllFramed(Frames(buf, ended), Len(buf))
         /\ Parse(buf, ended) = One(Frames(buf, ended), buf)
<1>1. Parse(buf, ended) = One(Frames(buf, ended), buf)
  BY Zenon DEF Parse, Frames
<1>2. ASSUME NEW m \in 0 .. Len(buf) PROVE Framed(Frames(buf, ended)[m], m)
  <2> DEFINE b == After(buf, Len(buf) - m)
  <2>1. b \in Seq(Symbol) /\ Len(b) = m
    <3>1. Len(buf) \in Nat
      BY LenProperties
    <3> DEFINE k == Len(buf) - m
    <3>2. k \in 0 .. Len(buf) /\ Len(buf) - k = m
      BY <3>1
    <3> HIDE DEF k
    <3>3. After(buf, k) \in Seq(Symbol) /\ Len(After(buf, k)) = Len(buf) - k
      BY <3>2, AfterShorter
    <3> QED
      BY <3>2, <3>3 DEF k
  <2>2. Frames(buf, ended)[m] = Frame(b, ended)
    BY DEF Frames
  <2> HIDE DEF b
  <2>3. Framed(Frame(b, ended), Len(b))
    BY <2>1, FrameFramed
  <2> QED
    BY <2>1, <2>2, <2>3
<1> QED
  BY <1>1, <1>2 DEF AllFramed

Readings(buf, ended) == Values(Frames(buf, ended), buf)

\* What is read of the rest of a stream.
LEMMA StreamReads ==
  ASSUME NEW buf, NEW s, IsRest(s, buf, Symbol), NEW ended \in BOOLEAN, NEW c \in Int
  PROVE  Readings(buf, ended)[Len(s)][c] = Elements(Readings(buf, ended), Frame(s, ended), s, c)
<1> DEFINE frame == Frames(buf, ended)
<1>1. buf \in Seq(Symbol)
  BY DEF IsRest
<1>2. AllFramed(frame, Len(buf))
  BY <1>1, FramesAre
<1>3. After(buf, Len(buf) - Len(s)) = s /\ Len(s) \in 0 .. Len(buf)
  BY DEF IsRest
<1>4. frame[Len(s)] = Frame(s, ended)
  <2> DEFINE m == Len(s)
  <2>1. frame[m] = Frame(After(buf, Len(buf) - m), ended)
    <3>1. m \in 0 .. Len(buf)
      BY <1>3
    <3> HIDE DEF m
    <3> QED
      BY <3>1 DEF Frames
  <2> QED
    BY <1>3, <2>1
<1> HIDE DEF frame
<1>5. Values(frame, buf)[Len(s)][c] = Elements(Values(frame, buf), frame[Len(s)], s, c)
  BY <1>1, <1>2, <1>3, ReadsHere
<1> QED
  BY <1>4, <1>5 DEF frame, Readings

\* What follows k symbols is the next one, and what follows that.
LEMMA AfterNext ==
  ASSUME NEW S, NEW s \in Seq(S)
  PROVE  /\ After(s, 0) = s /\ After(s, Len(s)) = <<>>
         /\ \A k, q \in 0 .. Len(s) : k + 1 = q => After(s, k) = <<s[q]>> \o After(s, q)
<1>1. Len(s) \in Nat
  BY LenProperties
<1>2. After(s, 0) = s
  <2>1. SubSeq(s, 1, Len(s)) = s
    BY SubSeqFull
  <2>2. 0 + 1 = 1
    OBVIOUS
  <2> QED
    BY <2>1, <2>2 DEF After
<1>3. After(s, Len(s)) = <<>>
  <2>1. Len(s) < Len(s) + 1
    BY <1>1
  <2> QED
    BY <1>1, <2>1, SubSeqEmpty DEF After
<1>4. ASSUME NEW k \in 0 .. Len(s), NEW q \in 0 .. Len(s), k + 1 = q
      PROVE  After(s, k) = <<s[q]>> \o After(s, q)
  <2>1. q \in 1 .. Len(s) /\ Len(s) \in q .. Len(s)
    BY <1>1, <1>4
  <2>2. SubSeq(s, q, Len(s)) = <<s[q]>> \o SubSeq(s, q + 1, Len(s))
    BY <2>1, SubSeqRecursiveFirst
  <2> QED
    BY <1>4, <2>2 DEF After
<1> QED
  BY <1>2, <1>3, <1>4

\* The words of a command as bulk strings, and as texts.
Bulks(words) == [i \in DOMAIN words |-> BulkString(words[i])]

Strs(words) == [i \in DOMAIN words |-> Str(words[i])]

Strings == {"str"} \X Seq(Symbol)

\* Their types and lengths.
LEMMA BulksType ==
  ASSUME NEW words \in Seq(Seq(Symbol))
  PROVE  /\ Bulks(words) \in Seq(Seq(Symbol)) /\ Len(Bulks(words)) = Len(words)
         /\ Strs(words) \in Seq(Strings) /\ Len(Strs(words)) = Len(words) /\ Len(words) \in Nat
         /\ \A i \in 1 .. Len(words) : /\ Bulks(words)[i] = BulkString(words[i])
                                       /\ Strs(words)[i] = Str(words[i])
                                       /\ words[i] \in Seq(Symbol)
<1>1. DOMAIN words = 1 .. Len(words) /\ Len(words) \in Nat
  BY LenProperties
<1>2. \A i \in 1 .. Len(words) : words[i] \in Seq(Symbol)
  BY ElementOfSeq
<1>3. \A i \in 1 .. Len(words) : BulkString(words[i]) \in Seq(Symbol)
  BY <1>2, BulkType
<1>4. \A i \in 1 .. Len(words) : Str(words[i]) \in Strings
  BY <1>2 DEF Strings, Str
<1>5. Bulks(words) = [i \in 1 .. Len(words) |-> BulkString(words[i])]
  BY <1>1 DEF Bulks
<1>6. Strs(words) = [i \in 1 .. Len(words) |-> Str(words[i])]
  BY <1>1 DEF Strs
<1>7. Bulks(words) \in Seq(Seq(Symbol)) /\ Len(Bulks(words)) = Len(words)
  <2>1. Bulks(words) \in [1 .. Len(words) -> Seq(Symbol)]
    BY <1>3, <1>5
  <2> QED
    BY <1>1, <2>1
<1>8. Strs(words) \in Seq(Strings) /\ Len(Strs(words)) = Len(words)
  <2> DEFINE n == Len(words)
             st == Strs(words)
             T == Strings
  <2>1. st \in [1 .. n -> T] /\ n \in Nat
    BY <1>1, <1>4, <1>6
  <2> HIDE DEF n, st, T
  <2>2. st \in Seq(T) /\ Len(st) = n
    BY <2>1
  <2> QED
    BY <2>2 DEF n, st, T
<1> QED
  BY <1>1, <1>2, <1>5, <1>6, <1>7, <1>8

\* Texts in a row, with others before and after them: beyond the k-th end.
LEMMA BeyondRest ==
  ASSUME NEW S, NEW seqs \in Seq(Seq(S)), NEW k \in 0 .. Len(seqs), NEW p \in Seq(S), NEW r \in Seq(S)
  PROVE  IsRest(Beyond(seqs, k) \o r, p \o (FlattenSeq(seqs) \o r), S)
<1> DEFINE u == Upto(seqs, k)
           b == Beyond(seqs, k)
<1>1. b \in Seq(S) /\ FlattenSeq(seqs) = u \o b /\ u \in Seq(S)
  BY BeyondParts, UptoNext
<1> HIDE DEF u, b
<1>2. Regroups(u, b, r, S)
  BY <1>1, Regrouped
<1> DEFINE m == b \o r
<1>3. (u \o b) \o r = u \o m /\ m \in Seq(S)
  BY <1>2 DEF Regroups
<1> HIDE DEF m
<1>4. Regroups(p, u, m, S)
  BY <1>1, <1>3, Regrouped
<1>5. p \o (u \o m) = (p \o u) \o m /\ p \o u \in Seq(S)
  BY <1>4 DEF Regroups
<1>6. IsRest(m, (p \o u) \o m, S)
  BY <1>3, <1>5, RestIs
<1>7. IsRest(m, p \o ((u \o b) \o r), S)
  BY <1>3, <1>5, <1>6
<1> QED
  BY <1>1, <1>7 DEF m, b

\* The bulk strings of an array that has arrived are read as its words.
LEMMA BulksWhole ==
  ASSUME NEW words \in Seq(Seq(Symbol)), NEW p \in Seq(Symbol), NEW r \in Seq(Symbol),
         NEW ended \in BOOLEAN, NEW buf, buf = p \o (FlattenSeq(Bulks(words)) \o r)
  PROVE  Readings(buf, ended)[Len(FlattenSeq(Bulks(words)) \o r)][Len(words)]
           = Read(List(Strs(words)), r)
<1> DEFINE n == Len(words)
           bs == Bulks(words)
           st == Strs(words)
           read == Readings(buf, ended)
           At(k, j) == read[Len(Beyond(bs, k) \o r)][j] = Read(List(After(st, k)), r)
           T == {j \in Nat : \A k \in 0 .. n : k + j = n => At(k, j)}
<1>1. /\ bs \in Seq(Seq(Symbol)) /\ Len(bs) = n /\ st \in Seq(Strings) /\ Len(st) = n /\ n \in Nat
      /\ \A i \in 1 .. n : bs[i] = BulkString(words[i]) /\ st[i] = Str(words[i])
                           /\ words[i] \in Seq(Symbol)
  BY BulksType
<1>2. buf = p \o (FlattenSeq(bs) \o r)
  OBVIOUS
<1> HIDE DEF bs, st, n
<1>3. ASSUME NEW k \in 0 .. n PROVE IsRest(Beyond(bs, k) \o r, buf, Symbol)
  <2>1. IsRest(Beyond(bs, k) \o r, p \o (FlattenSeq(bs) \o r), Symbol)
    BY <1>1, BeyondRest
  <2> QED
    BY <1>2, <2>1
<1>4. ASSUME NEW k \in 0 .. n, NEW j \in Int
      PROVE  read[Len(Beyond(bs, k) \o r)][j]
               = Elements(read, Frame(Beyond(bs, k) \o r, ended), Beyond(bs, k) \o r, j)
  <2> DEFINE s == Beyond(bs, k) \o r
  <2>1. IsRest(s, buf, Symbol)
    BY <1>3
  <2> HIDE DEF s
  <2>2. read[Len(s)][j] = Elements(read, Frame(s, ended), s, j)
    BY <2>1, StreamReads
  <2> QED
    BY <2>2 DEF s
<1> HIDE DEF read
<1>5. At(n, 0)
  <2>1. Beyond(bs, n) = <<>> /\ After(st, n) = <<>>
    BY <1>1, BeyondNext, AfterNext
  <2>2. <<>> \o r = r
    BY ConcatEmptySeq
  <2>3. n \in 0 .. n /\ 0 \in Int
    BY <1>1
  <2>4. read[Len(Beyond(bs, n) \o r)][0]
          = Elements(read, Frame(Beyond(bs, n) \o r, ended), Beyond(bs, n) \o r, 0)
    BY <1>4, <2>3
  <2>5. read[Len(r)][0] = Elements(read, Frame(r, ended), r, 0)
    BY <2>1, <2>2, <2>4
  <2>6. Elements(read, Frame(r, ended), r, 0) = Read(List(<<>>), r)
    BY <2>3, ElementsNone
  <2> QED
    BY <2>1, <2>2, <2>5, <2>6
<1>6. ASSUME NEW j \in Nat, NEW k \in 0 .. n, NEW i \in 0 .. n, NEW q \in Nat,
             q = j + 1, i = k + 1, i + j = n, At(i, j)
      PROVE  At(k, q)
  <2> DEFINE rest == Beyond(bs, i) \o r
             v == Str(words[i])
  <2>1. i \in 1 .. n /\ k \in 0 .. n - 1
    BY <1>1, <1>6
  <2>2. bs[i] = BulkString(words[i]) /\ st[i] = v /\ words[i] \in Seq(Symbol)
    BY <1>1, <2>1
  <2>3. Beyond(bs, k) = bs[i] \o Beyond(bs, i)
    BY <1>1, <1>6, <2>1, BeyondNext
  <2>4. Beyond(bs, k) \o r = bs[i] \o rest /\ rest \in Seq(Symbol)
    <3>1. Beyond(bs, i) \in Seq(Symbol) /\ bs[i] \in Seq(Symbol)
      BY <1>1, <2>2, BeyondParts, BulkType
    <3>2. Regroups(bs[i], Beyond(bs, i), r, Symbol)
      BY <3>1, Regrouped
    <3> QED
      BY <2>3, <3>2 DEF Regroups
  <2>5. After(st, k) = <<v>> \o After(st, i)
    <3>1. k \in 0 .. Len(st) /\ i \in 0 .. Len(st) /\ k + 1 = i
      BY <1>1, <1>6
    <3>2. After(st, k) = <<st[i]>> \o After(st, i)
      <4> HIDE DEF At, T
      <4> QED
        BY <1>1, <3>1, AfterNext
    <3> QED
      BY <2>2, <3>2
  <2>6. read[Len(rest)][j] = Read(List(After(st, i)), r)
    BY <1>6
  <2> DEFINE s == Beyond(bs, k) \o r
  <2>7. read[Len(s)][q] = Elements(read, Frame(s, ended), s, q)
    BY <1>4
  <2>8. s = BulkString(words[i]) \o rest
    BY <2>2, <2>4
  <2> HIDE DEF rest, s
  <2>9. Frame(s, ended) = Read(v, rest)
    BY <2>2, <2>4, <2>8, BulkWhole
  <2>10. v[1] # "opening"
    BY DEF Str
  <2>11. q \in Int /\ q > 0 /\ q - 1 = j
    BY <1>6
  <2> HIDE DEF v
  <2>12. Elements(read, Read(v, rest), s, q) = Before(v, read[Len(rest)][q - 1])
    BY <2>10, <2>11, ElementsOne
  <2>13. read[Len(s)][q] = Before(v, Read(List(After(st, i)), r))
    BY <2>6, <2>7, <2>9, <2>11, <2>12
  <2>14. Before(v, Read(List(After(st, i)), r)) = Read(List(<<v>> \o After(st, i)), r)
    BY DEF Before, Read, List
  <2>15. read[Len(s)][q] = Read(List(After(st, k)), r)
    BY <2>5, <2>13, <2>14
  <2> QED
    BY <2>15 DEF s
<1> HIDE DEF At
<1>7. 0 \in T
  <2>1. ASSUME NEW k \in 0 .. n, k + 0 = n PROVE k = n
    BY <1>1, <2>1
  <2> QED
    BY <1>5, <2>1
<1>8. ASSUME NEW j \in T PROVE j + 1 \in T
  <2>1. SUFFICES ASSUME NEW k \in 0 .. n, k + (j + 1) = n PROVE At(k, j + 1)
    OBVIOUS
  <2>2. PICK q \in Nat : q = j + 1
    OBVIOUS
  <2>3. PICK i \in 0 .. n : i = k + 1 /\ i + j = n
    <3>1. k + 1 \in 0 .. n /\ k + 1 + j = n
      BY <1>1, <2>1
    <3> QED
      BY <3>1
  <2>4. At(i, j) /\ j \in Nat
    BY <2>3
  <2>5. At(k, q)
    <3> HIDE DEF T
    <3> QED
      BY <1>6, <2>2, <2>3, <2>4
  <2> QED
    BY <2>2, <2>5
<1>9. n \in T
  <2> HIDE DEF T
  <2>1. T \in SUBSET Nat
    BY DEF T
  <2>2. T = Nat
    BY <1>7, <1>8, <2>1, EveryNumber
  <2> QED
    BY <1>1, <2>2
<1>10. At(0, n)
  BY <1>1, <1>9
<1>11. Beyond(bs, 0) = FlattenSeq(bs) /\ After(st, 0) = st
  BY <1>1, BeyondNext, AfterNext
<1>12. read[Len(FlattenSeq(bs) \o r)][n] = Read(List(st), r)
  BY <1>10, <1>11 DEF At
<1> QED
  BY <1>12 DEF read, bs, n, st

-----------------------------------------------------------------------------
(* One value from the stream                                              *)

\* The rest of a rest.
LEMMA RestOfRest ==
  ASSUME NEW S, NEW a \in Seq(S), NEW b \in Seq(S), NEW buf, IsRest(a \o b, buf, S)
  PROVE  IsRest(b, buf, S)
<1> DEFINE s == a \o b
           n == Len(buf) - Len(s)
           p == SubSeq(buf, 1, n)
<1>1. buf \in Seq(S) /\ s \in Seq(S) /\ Len(s) \in 0 .. Len(buf) /\ After(buf, n) = s /\ Len(buf) \in Nat
  BY LenProperties DEF IsRest
<1>2. n \in 0 .. Len(buf)
  <2> HIDE DEF s
  <2> QED
    BY <1>1
<1> HIDE DEF n
<1>3. p \in Seq(S) /\ p \o s = buf
  <2>1. SubSeq(buf, 1, n) \in Seq(S) /\ SubSeq(buf, 1, n) \o After(buf, n) = buf
    BY <1>1, <1>2, AfterParts
  <2> QED
    BY <1>1, <2>1
<1> HIDE DEF p
<1>4. Regroups(p, a, b, S)
  BY <1>3, Regrouped
<1>5. (p \o a) \o b = buf /\ p \o a \in Seq(S)
  BY <1>3, <1>4 DEF Regroups
<1>6. IsRest(b, (p \o a) \o b, S)
  BY <1>5, RestIs
<1> QED
  BY <1>5, <1>6

\* A text is its own rest.
LEMMA RestItself ==
  ASSUME NEW S, NEW buf \in Seq(S)
  PROVE  IsRest(buf, buf, S)
<1>1. <<>> \in Seq(S) /\ <<>> \o buf = buf
  BY ConcatEmptySeq
<1>2. IsRest(buf, <<>> \o buf, S)
  BY <1>1, RestIs
<1> QED
  BY <1>1, <1>2

\* Of bulk strings that have not arrived to their end, nothing is read.
LEMMA BulksCut ==
  ASSUME NEW words \in Seq(Seq(Symbol)), NEW c \in Seq(Symbol), NEW x \in Seq(Symbol), x # <<>>,
         c \o x = FlattenSeq(Bulks(words)), NEW buf, IsRest(c, buf, Symbol), NEW ended \in BOOLEAN
  PROVE  Readings(buf, ended)[Len(c)][Len(words)] = NoMore(ended)
<1> DEFINE n == Len(words)
           bs == Bulks(words)
           read == Readings(buf, ended)
           At(k, j) == \A s \in Seq(Symbol) : IsRest(s, buf, Symbol) /\ s \o x = Beyond(bs, k)
                                                => read[Len(s)][j] = NoMore(ended)
           T == {j \in Nat : \A k \in 0 .. n : k + j = n => At(k, j)}
<1>1. /\ bs \in Seq(Seq(Symbol)) /\ Len(bs) = n /\ n \in Nat
      /\ \A i \in 1 .. n : bs[i] = BulkString(words[i]) /\ words[i] \in Seq(Symbol)
  BY BulksType
<1>2. c \o x = FlattenSeq(bs)
  OBVIOUS
<1>3. NoMore(ended)[1] # "value"
  BY DEF NoMore, Gone, Wait
<1> HIDE DEF bs, n
<1>4. ASSUME NEW s \in Seq(Symbol), IsRest(s, buf, Symbol), NEW j \in Int
      PROVE  read[Len(s)][j] = Elements(read, Frame(s, ended), s, j)
  BY <1>4, StreamReads
<1> HIDE DEF read
<1>5. At(n, 0)
  <2>1. Beyond(bs, n) = <<>>
    BY <1>1, BeyondNext
  <2>2. ASSUME NEW s \in Seq(Symbol), s \o x = <<>> PROVE FALSE
    <3>1. Joins(s, x, Symbol)
      BY Joined
    <3>2. Len(<<>>) = Len(s) + Len(x) /\ Len(s) \in Nat /\ Len(x) \in Nat /\ Len(<<>>) = 0
      BY <2>2, <3>1, NoLine DEF Joins
    <3>3. Len(x) = 0
      BY <3>2
    <3> QED
      BY <3>3, EmptySeq
  <2> QED
    BY <2>1, <2>2
<1>6. ASSUME NEW j \in Nat, NEW k \in 0 .. n, NEW i \in 0 .. n, NEW q \in Nat,
             q = j + 1, i = k + 1, i + j = n, At(i, j),
             NEW s \in Seq(Symbol), IsRest(s, buf, Symbol), s \o x = Beyond(bs, k)
      PROVE  read[Len(s)][q] = NoMore(ended)
  <2> DEFINE b == Beyond(bs, i)
             l == bs[i]
  <2>1. i \in 1 .. n /\ k \in 0 .. n - 1
    BY <1>1, <1>6
  <2>2. l = BulkString(words[i]) /\ words[i] \in Seq(Symbol) /\ l \in Seq(Symbol)
    BY <1>1, <2>1, BulkType
  <2>3. Beyond(bs, k) = l \o b /\ b \in Seq(Symbol)
    BY <1>1, <1>6, <2>1, BeyondNext, BeyondParts
  <2>4. read[Len(s)][q] = Elements(read, Frame(s, ended), s, q) /\ q \in Int /\ q > 0 /\ q - 1 = j
    <3>1. q \in Int /\ q > 0 /\ q - 1 = j
      BY SMTT(30), <1>6
    <3>2. read[Len(s)][q] = Elements(read, Frame(s, ended), s, q)
      BY <1>4, <1>6, <3>1
    <3> QED
      BY <3>1, <3>2
  <2> HIDE DEF b, l
  <2>5. Len(s) \in Nat /\ Len(l) \in Nat
    BY <2>2, LenProperties
  <2>6. CASE Len(l) <= Len(s)
    <3>1. Shares(l, b, s, x, Symbol)
      <4>1. l \o b = s \o x
        BY <1>6, <2>3
      <4> QED
        BY <2>2, <2>3, <2>6, <4>1, Overlap
    <3>2. PICK e \in Seq(Symbol) : s = l \o e /\ b = e \o x
      BY <3>1 DEF Shares
    <3>3. IsRest(e, buf, Symbol)
      BY <1>6, <2>2, <3>2, RestOfRest
    <3>4. read[Len(e)][j] = NoMore(ended)
      BY <1>6, <3>2, <3>3 DEF b
    <3> DEFINE v == Str(words[i])
    <3>5. Frame(s, ended) = Read(v, e)
      <4>1. Frame(BulkString(words[i]) \o e, ended) = Read(v, e)
        BY <2>2, BulkWhole
      <4> QED
        BY <2>2, <3>2, <4>1
    <3>6. v[1] # "opening"
      BY DEF Str
    <3> HIDE DEF v
    <3>7. Elements(read, Read(v, e), s, q) = Before(v, read[Len(e)][q - 1])
      BY <2>4, <3>6, ElementsOne
    <3>8. Before(v, NoMore(ended)) = NoMore(ended)
      BY <1>3 DEF Before
    <3> QED
      BY <2>4, <3>4, <3>5, <3>7, <3>8
  <2>7. CASE ~(Len(l) <= Len(s))
    <3>1. Shares(s, x, l, b, Symbol)
      <4>1. s \o x = l \o b /\ Len(s) <= Len(l)
        BY <1>6, <2>3, <2>5, <2>7
      <4> QED
        BY <2>2, <2>3, <4>1, Overlap
    <3>2. PICK e \in Seq(Symbol) : l = s \o e
      BY <3>1 DEF Shares
    <3>3. e # <<>>
      <4>1. s \o <<>> = s /\ s # l
        BY <2>5, <2>7, ConcatEmptySeq
      <4> QED
        BY <3>2, <4>1
    <3>4. Frame(s, ended) = NoMore(ended)
      <4>1. s \o e = BulkString(words[i])
        BY <2>2, <3>2
      <4> QED
        BY <2>2, <3>3, <4>1, BulkCut
    <3>5. Elements(read, NoMore(ended), s, q) = NoMore(ended)
      BY <1>3, <2>4, ElementsStop
    <3> QED
      BY <2>4, <3>4, <3>5
  <2> QED
    BY <2>6, <2>7
<1> HIDE DEF At
<1>7. 0 \in T
  <2>1. ASSUME NEW k \in 0 .. n, k + 0 = n PROVE k = n
    BY <1>1, <2>1
  <2> QED
    BY <1>5, <2>1
<1>8. ASSUME NEW j \in T PROVE j + 1 \in T
  <2>1. SUFFICES ASSUME NEW k \in 0 .. n, k + (j + 1) = n PROVE At(k, j + 1)
    OBVIOUS
  <2>2. PICK q \in Nat : q = j + 1
    OBVIOUS
  <2>3. PICK i \in 0 .. n : i = k + 1 /\ i + j = n
    <3>1. k + 1 \in 0 .. n /\ k + 1 + j = n
      BY <1>1, <2>1
    <3> QED
      BY <3>1
  <2>4. At(i, j) /\ j \in Nat
    BY <2>3
  <2>5. At(k, q)
    <3> HIDE DEF T
    <3> QED
      BY ZenonT(40), <1>6, <2>2, <2>3, <2>4 DEF At
  <2> QED
    BY <2>2, <2>5
<1>9. n \in T
  <2> HIDE DEF T
  <2>1. T \in SUBSET Nat
    BY DEF T
  <2>2. T = Nat
    BY <1>7, <1>8, <2>1, EveryNumber
  <2> QED
    BY <1>1, <2>2
<1>10. At(0, n)
  BY <1>1, <1>9
<1>11. Beyond(bs, 0) = FlattenSeq(bs)
  BY <1>1, BeyondNext
<1>12. read[Len(c)][n] = NoMore(ended)
  BY <1>2, <1>10, <1>11 DEF At
<1> QED
  BY <1>12 DEF read, n

\* What One makes of the readings of a stream.
LEMMA ParseIs ==
  ASSUME NEW buf \in Seq(Symbol), NEW ended \in BOOLEAN
  PROVE  LET v == Readings(buf, ended)[Len(buf)][1]
         IN  /\ v[1] # "value" => Parse(buf, ended) = v
             /\ v[1] = "value" => Parse(buf, ended) = Read(v[2][2][1], v[3])
<1>1. Parse(buf, ended) = One(Frames(buf, ended), buf)
  BY FramesAre
<1> QED
  BY <1>1, Zenon DEF One, Readings

\* It reads the elements of what the stream begins with.
LEMMA ParseReads ==
  ASSUME NEW buf \in Seq(Symbol), NEW ended \in BOOLEAN
  PROVE  Readings(buf, ended)[Len(buf)][1]
           = Elements(Readings(buf, ended), Frame(buf, ended), buf, 1)
<1>1. IsRest(buf, buf, Symbol) /\ 1 \in Int
  BY RestItself
<1> QED
  BY <1>1, StreamReads

\* A frame that is no value ends the read.
LEMMA ParseStop ==
  ASSUME NEW buf \in Seq(Symbol), NEW ended \in BOOLEAN, Frame(buf, ended)[1] # "value"
  PROVE  Parse(buf, ended) = Frame(buf, ended)
<1> DEFINE f == Frame(buf, ended)
           read == Readings(buf, ended)
<1>1. f[1] # "value" /\ 1 \in Int /\ 1 > 0
  OBVIOUS
<1>2. read[Len(buf)][1] = Elements(read, f, buf, 1)
  BY ParseReads
<1>3. read[Len(buf)][1][1] # "value" => Parse(buf, ended) = read[Len(buf)][1]
  BY ParseIs, Zenon
<1> HIDE DEF f, read
<1>4. Elements(read, f, buf, 1) = f
  BY <1>1, ElementsStop
<1> QED
  BY <1>1, <1>2, <1>3, <1>4 DEF f

\* Nothing more is read after the only value.
LEMMA ReadsNone ==
  ASSUME NEW buf, NEW rest, IsRest(rest, buf, Symbol), NEW ended \in BOOLEAN, NEW v
  PROVE  Before(v, Readings(buf, ended)[Len(rest)][1 - 1]) = Read(List(<<v>> \o <<>>), rest)
<1> DEFINE read == Readings(buf, ended)
<1>1. 0 \in Int /\ 0 <= 0 /\ 1 - 1 = 0
  OBVIOUS
<1>2. read[Len(rest)][0] = Elements(read, Frame(rest, ended), rest, 0)
  BY <1>1, StreamReads
<1> HIDE DEF read
<1>3. Elements(read, Frame(rest, ended), rest, 0) = Read(List(<<>>), rest)
  BY <1>1, ElementsNone
<1>4. read[Len(rest)][1 - 1] = Read(List(<<>>), rest)
  BY <1>1, <1>2, <1>3
<1>5. Before(v, Read(List(<<>>), rest)) = Read(List(<<v>> \o <<>>), rest)
  BY DEF Before, Read, List
<1> QED
  BY <1>4, <1>5 DEF read

\* The value of a list of one.
LEMMA OnlyOne ==
  ASSUME NEW v, NEW rest
  PROVE  LET r == Read(List(<<v>> \o <<>>), rest)
         IN  r[1] = "value" /\ r[3] = rest /\ r[2][2][1] = v
<1>1. <<v>> \in Seq({v}) /\ <<v>> \o <<>> = <<v>> /\ <<v>>[1] = v
  BY ConcatEmptySeq
<1> QED
  BY <1>1 DEF Read, List

\* A frame that is a value is what is read.
LEMMA ParseOne ==
  ASSUME NEW buf \in Seq(Symbol), NEW ended \in BOOLEAN, NEW v, v[1] # "opening",
         NEW rest, IsRest(rest, buf, Symbol), Frame(buf, ended) = Read(v, rest)
  PROVE  Parse(buf, ended) = Read(v, rest)
<1> DEFINE read == Readings(buf, ended)
           r == Read(List(<<v>> \o <<>>), rest)
<1>1. read[Len(buf)][1] = Elements(read, Read(v, rest), buf, 1)
  BY ParseReads
<1>2. read[Len(buf)][1][1] = "value" =>
        Parse(buf, ended) = Read(read[Len(buf)][1][2][2][1], read[Len(buf)][1][3])
  BY ParseIs, Zenon
<1>3. Before(v, read[Len(rest)][1 - 1]) = r
  BY ReadsNone
<1>4. r[1] = "value" /\ r[3] = rest /\ r[2][2][1] = v
  BY OnlyOne
<1> HIDE DEF read, r
<1>5. Elements(read, Read(v, rest), buf, 1) = Before(v, read[Len(rest)][1 - 1])
  <2>1. 1 \in Int /\ 1 > 0
    OBVIOUS
  <2> QED
    BY <2>1, ElementsOne
<1>6. read[Len(buf)][1] = r
  BY <1>1, <1>3, <1>5
<1> QED
  BY <1>2, <1>4, <1>6

\* Of a list, the elements are.
LEMMA ParseList ==
  ASSUME NEW buf \in Seq(Symbol), NEW ended \in BOOLEAN, NEW n, NEW rest,
         Frame(buf, ended) = Read(Opening(n), rest),
         NEW g, g = Readings(buf, ended)[Len(rest)][n]
  PROVE  /\ g[1] # "value" => Parse(buf, ended) = g
         /\ g[1] = "value" /\ IsRest(g[3], buf, Symbol) => Parse(buf, ended) = Read(g[2], g[3])
<1> DEFINE read == Readings(buf, ended)
           whole == read[Len(buf)][1]
<1>1. whole = Elements(read, Read(Opening(n), rest), buf, 1)
  BY ParseReads
<1>2. /\ whole[1] # "value" => Parse(buf, ended) = whole
      /\ whole[1] = "value" => Parse(buf, ended) = Read(whole[2][2][1], whole[3])
  BY ParseIs, Zenon
<1>3. g = read[Len(rest)][n]
  OBVIOUS
<1>4. IsRest(g[3], buf, Symbol)
        => Before(g[2], read[Len(g[3])][1 - 1]) = Read(List(<<g[2]>> \o <<>>), g[3])
  BY ReadsNone
<1> HIDE DEF read
<1>5. /\ g[1] # "value" => Elements(read, Read(Opening(n), rest), buf, 1) = g
      /\ g[1] = "value" => Elements(read, Read(Opening(n), rest), buf, 1)
                             = Before(g[2], read[Len(g[3])][1 - 1])
  <2>1. 1 \in Int /\ 1 > 0
    OBVIOUS
  <2> QED
    BY <1>3, <2>1, ElementsList
<1> HIDE DEF whole
<1>6. ASSUME g[1] = "value", IsRest(g[3], buf, Symbol) PROVE Parse(buf, ended) = Read(g[2], g[3])
  <2> DEFINE r == Read(List(<<g[2]>> \o <<>>), g[3])
  <2>1. whole = r
    BY <1>1, <1>4, <1>5, <1>6
  <2>2. r[1] = "value" /\ r[3] = g[3] /\ r[2][2][1] = g[2]
    BY OnlyOne
  <2> HIDE DEF r
  <2> QED
    BY <1>2, <2>1, <2>2
<1> QED
  BY <1>1, <1>2, <1>5, <1>6

\* The same for elements that are known.
LEMMA ParseListOf ==
  ASSUME NEW buf \in Seq(Symbol), NEW ended \in BOOLEAN, NEW n, NEW rest,
         Frame(buf, ended) = Read(Opening(n), rest),
         NEW v, NEW r, IsRest(r, buf, Symbol), Readings(buf, ended)[Len(rest)][n] = Read(v, r)
  PROVE  Parse(buf, ended) = Read(v, r)
<1> DEFINE g == Readings(buf, ended)[Len(rest)][n]
<1>1. g = Readings(buf, ended)[Len(rest)][n] /\ g = Read(v, r)
  OBVIOUS
<1> HIDE DEF g
<1>2. g[1] = "value" /\ g[2] = v /\ g[3] = r
  BY <1>1 DEF Read
<1>3. g[1] = "value" /\ IsRest(g[3], buf, Symbol) => Parse(buf, ended) = Read(g[2], g[3])
  BY <1>1, ParseList
<1> QED
  BY <1>2, <1>3

\* Nothing is the rest of every text.
LEMMA RestNothing ==
  ASSUME NEW S, NEW buf \in Seq(S)
  PROVE  IsRest(<<>>, buf, S)
<1>1. <<>> \in Seq(S) /\ buf \o <<>> = buf
  BY ConcatEmptySeq
<1>2. IsRest(<<>>, buf \o <<>>, S)
  BY <1>1, RestIs
<1> QED
  BY <1>1, <1>2

\* The header of an array, to its end, opens a list of what follows.
LEMMA ArrayOpens ==
  ASSUME NEW n \in Nat, NEW rest \in Seq(Symbol), NEW ended \in BOOLEAN
  PROVE  /\ Frame(Header("*", n) \o rest, ended) = Read(Opening(n), rest)
         /\ Header("*", n) \in Seq(Symbol)
<1> DEFINE h == <<"*", n>>
           l == Header("*", n)
<1>1. n \in Int /\ n # -1
  OBVIOUS
<1>2. IsHeader(l, h, "*", n)
  BY <1>1, HeaderIs
<1> HIDE DEF l, h
<1>3. /\ h \in Symbol /\ h # LF /\ h[1] = "*" /\ h[2] = n /\ Len(h) = 2 /\ l = <<h>> \o (<<>> \o EOL)
      /\ l \in Seq(Symbol)
  BY <1>2 DEF IsHeader
<1>4. FrameReads(Frame((<<h>> \o (<<>> \o EOL)) \o rest, ended), h, <<>>, EOL, rest, ended)
  BY <1>3, NoLine, FrameIs
<1>5. FrameReads(Frame(l \o rest, ended), h, <<>>, EOL, rest, ended)
  BY <1>3, <1>4
<1>6. Frame(l \o rest, ended) = Read(Opening(n), rest)
  BY <1>1, <1>3, <1>5 DEF FrameReads
<1> QED
  BY <1>3, <1>6 DEF l

\* An array that has arrived to its end is read as its words, and to its end only.
LEMMA ArrayWhole ==
  ASSUME NEW words \in Seq(Seq(Symbol)), NEW r \in Seq(Symbol), NEW ended \in BOOLEAN
  PROVE  Parse((Header("*", Len(words)) \o FlattenSeq(Bulks(words))) \o r, ended)
           = Read(List(Strs(words)), r)
<1> DEFINE n == Len(words)
           l == Header("*", n)
           f == FlattenSeq(Bulks(words))
           rest == f \o r
           buf == l \o rest
           g == Readings(buf, ended)[Len(rest)][n]
<1>1. n \in Nat /\ Bulks(words) \in Seq(Seq(Symbol))
  BY BulksType
<1>2. f \in Seq(Symbol)
  BY <1>1, FlattenType
<1>3. rest \in Seq(Symbol)
  BY <1>2, ConcatProperties
<1>4. Frame(buf, ended) = Read(Opening(n), rest) /\ l \in Seq(Symbol)
  <2> HIDE DEF n, rest
  <2> QED
    BY <1>1, <1>3, ArrayOpens
<1>5. g = Read(List(Strs(words)), r)
  <2>1. buf = l \o (FlattenSeq(Bulks(words)) \o r)
    OBVIOUS
  <2> HIDE DEF l, buf
  <2> QED
    BY <1>4, <2>1, BulksWhole
<1> HIDE DEF l, f, n
<1>6. Regroups(l, f, r, Symbol)
  BY <1>2, <1>4, Regrouped
<1>7. (l \o f) \o r = buf /\ l \o f \in Seq(Symbol)
  BY <1>6 DEF Regroups
<1>8. IsRest(r, buf, Symbol)
  <2>1. IsRest(r, (l \o f) \o r, Symbol)
    BY <1>7, RestIs
  <2> QED
    BY <1>7, <2>1
<1>9. buf \in Seq(Symbol)
  BY <1>3, <1>4, ConcatProperties
<1>10. g[1] = "value" /\ g[2] = List(Strs(words)) /\ g[3] = r
  <2> HIDE DEF g
  <2> QED
    BY <1>5 DEF Read
<1>11. g[1] = "value" /\ IsRest(g[3], buf, Symbol) => Parse(buf, ended) = Read(g[2], g[3])
  <2>1. g = Readings(buf, ended)[Len(rest)][n]
    OBVIOUS
  <2> HIDE DEF buf, rest, g
  <2> QED
    BY SMTT(30), <1>4, <1>9, <2>1, ParseList
<1> HIDE DEF g, buf
<1>12. Parse(buf, ended) = Read(List(Strs(words)), r)
  BY <1>8, <1>10, <1>11
<1> QED
  BY <1>7, <1>12 DEF l, f, n

\* Of an array that has not arrived to its end nothing is read, if it has elements.
LEMMA ArrayCut ==
  ASSUME NEW words \in Seq(Seq(Symbol)), NEW c \in Seq(Symbol), NEW x \in Seq(Symbol), x # <<>>,
         c \o x = Header("*", Len(words)) \o FlattenSeq(Bulks(words)), NEW ended \in BOOLEAN
  PROVE  \/ Parse(c, ended) = NoMore(ended)
         \/ ended /\ words = <<>> /\ Parse(c, ended) = Read(List(<<>>), <<>>)
<1> DEFINE n == Len(words)
           l == Header("*", n)
           f == FlattenSeq(Bulks(words))
<1>1. n \in Nat /\ Bulks(words) \in Seq(Seq(Symbol)) /\ n \in Int /\ n # -1
  BY BulksType
<1>2. f \in Seq(Symbol)
  BY <1>1, FlattenType
<1>3. IsHeader(l, <<"*", n>>, "*", n)
  BY <1>1, HeaderIs
<1>4. l \in Seq(Symbol)
  BY <1>3 DEF IsHeader
<1>5. c \o x = l \o f
  OBVIOUS
<1>6. Len(c) \in Nat /\ Len(l) \in Nat
  BY <1>4, LenProperties
<1>7. NoMore(ended)[1] # "value"
  BY DEF NoMore, Gone, Wait
<1>8. ASSUME Frame(c, ended) = NoMore(ended) PROVE Parse(c, ended) = NoMore(ended)
  BY <1>7, <1>8, ParseStop
<1>9. ASSUME NEW rest, Frame(c, ended) = Read(Opening(n), rest),
             Readings(c, ended)[Len(rest)][n] = NoMore(ended)
      PROVE  Parse(c, ended) = NoMore(ended)
  <2> DEFINE g == Readings(c, ended)[Len(rest)][n]
  <2>1. g = Readings(c, ended)[Len(rest)][n] /\ g = NoMore(ended)
    BY <1>9
  <2> HIDE DEF g, n
  <2>2. g[1] # "value" => Parse(c, ended) = g
    BY <1>9, <2>1, ParseList
  <2> QED
    BY <1>7, <2>1, <2>2
<1>a. ASSUME NEW rest, Frame(c, ended) = Read(Opening(n), rest), NEW v, NEW r, IsRest(r, c, Symbol),
             Readings(c, ended)[Len(rest)][n] = Read(v, r)
      PROVE  Parse(c, ended) = Read(v, r)
  BY <1>a, ParseListOf
<1>10. CASE c = <<>>
  BY <1>8, <1>10, FrameOfNothing DEF NoMore
<1>11. CASE c # <<>> /\ Len(l) <= Len(c)
  <2> HIDE DEF l, f
  <2>1. Shares(l, f, c, x, Symbol)
    BY <1>2, <1>4, <1>5, <1>11, Overlap
  <2>2. PICK e \in Seq(Symbol) : c = l \o e /\ f = e \o x
    BY <2>1 DEF Shares
  <2>3. Frame(c, ended) = Read(Opening(n), e)
    <3>1. Frame(l \o e, ended) = Read(Opening(n), e)
      BY <1>1, ArrayOpens DEF l
    <3> QED
      BY <2>2, <3>1
  <2>4. IsRest(e, c, Symbol)
    <3>1. IsRest(e, l \o e, Symbol)
      BY <1>4, RestIs
    <3> QED
      BY <2>2, <3>1
  <2>5. Readings(c, ended)[Len(e)][n] = NoMore(ended)
    <3>1. e \o x = FlattenSeq(Bulks(words))
      BY <2>2 DEF f
    <3> QED
      BY <2>4, <3>1, BulksCut
  <2> QED
    BY <1>9, <2>3, <2>5
<1>12. CASE c # <<>> /\ ~(Len(l) <= Len(c))
  <2> HIDE DEF l, f
  <2>1. Shares(c, x, l, f, Symbol)
    <3>1. Len(c) <= Len(l)
      BY <1>6, <1>12
    <3> QED
      BY <1>2, <1>4, <1>5, <3>1, Overlap
  <2>2. PICK e \in Seq(Symbol) : l = c \o e
    BY <2>1 DEF Shares
  <2>3. e # <<>>
    <3>1. c \o <<>> = c /\ c # l
      BY <1>6, <1>12, ConcatEmptySeq
    <3> QED
      BY <2>2, <3>1
  <2>4. PICK t \in Ends : t # EOL /\ FrameReads(Frame(c, ended), <<"*", n>>, <<>>, t, <<>>, ended)
    <3>1. c \o e = Header("*", n)
      BY <2>2 DEF l
    <3> HIDE DEF n
    <3> QED
      BY <1>1, <1>12, <2>3, <3>1, HeaderCut
  <2>5. /\ ~ended => Frame(c, ended) = Wait
        /\ ended => Frame(c, ended) = Read(Opening(n), <<>>)
    <3> DEFINE h == <<"*", n>>
    <3>1. h[1] = "*" /\ h[2] = n /\ Len(h) = 2
      OBVIOUS
    <3> HIDE DEF h, n
    <3>2. FrameReads(Frame(c, ended), h, <<>>, t, <<>>, ended)
      BY <2>4 DEF h
    <3> QED
      BY <1>1, <2>4, <3>1, <3>2 DEF FrameReads
  <2>6. CASE ~ended
    BY <1>8, <2>5, <2>6 DEF NoMore
  <2>7. CASE ended
    <3>1. IsRest(<<>>, c, Symbol)
      BY RestNothing
    <3> DEFINE g == Readings(c, ended)[Len(<<>>)][n]
               read == Readings(c, ended)
    <3>2. g = Elements(read, Frame(<<>>, ended), <<>>, n)
      <4> HIDE DEF n
      <4> QED
        BY <1>1, <3>1, StreamReads
    <3>3. Frame(<<>>, ended) = NoMore(ended)
      BY FrameOfNothing DEF NoMore
    <3>4. CASE n > 0
      <4>1. g = NoMore(ended)
        <5> HIDE DEF n, read
        <5>1. Elements(read, NoMore(ended), <<>>, n) = NoMore(ended)
          BY <1>1, <1>7, <3>4, ElementsStop
        <5> QED
          BY <3>2, <3>3, <5>1
      <4> HIDE DEF n
      <4> QED
        BY <1>9, <2>5, <2>7, <4>1
    <3>5. CASE ~(n > 0)
      <4>1. n = 0 /\ n <= 0
        BY <1>1, <3>5
      <4>2. words = <<>>
        BY <4>1, EmptySeq
      <4> HIDE DEF n, read
      <4>3. Elements(read, Frame(<<>>, ended), <<>>, n) = Read(List(<<>>), <<>>)
        BY <1>1, <4>1, ElementsNone
      <4>4. g = Read(List(<<>>), <<>>)
        BY <3>2, <4>3
      <4>5. PICK none : none = <<>>
        OBVIOUS
      <4>6. /\ Frame(c, ended) = Read(Opening(n), none) /\ IsRest(none, c, Symbol)
            /\ Readings(c, ended)[Len(none)][n] = Read(List(<<>>), none)
        BY <2>5, <2>7, <3>1, <4>4, <4>5
      <4>7. Parse(c, ended) = Read(List(<<>>), none)
        BY <1>a, <4>6
      <4>8. Parse(c, ended) = Read(List(<<>>), <<>>)
        BY <4>5, <4>7
      <4> QED
        BY <2>7, <4>2, <4>8
    <3> QED
      BY <3>4, <3>5
  <2> QED
    BY <2>6, <2>7
<1> QED
  BY <1>10, <1>11, <1>12

-----------------------------------------------------------------------------
(* Splitting a line                                                       *)

\* What has been split before the first symbol.
Start == [words |-> <<>>, inside |-> FALSE]

\* f is what Splitting makes of the first m symbols of s.
SplitsTo(f, s, m) == f = [n \in 0 .. m |-> IF n = 0 THEN Start ELSE SplitStep(f[n - 1], s[n])]

\* There is such a function.
LEMMA SplitsExist ==
  ASSUME NEW s, NEW m \in Nat
  PROVE  \E f : SplitsTo(f, s, m)
<1> DEFINE T == {n \in Nat : \E f : SplitsTo(f, s, n)}
<1>1. 0 \in T
  <2> DEFINE f == [n \in 0 .. 0 |-> Start]
  <2>1. f = [n \in 0 .. 0 |-> IF n = 0 THEN Start ELSE SplitStep(f[n - 1], s[n])]
    OBVIOUS
  <2> HIDE DEF f
  <2>2. SplitsTo(f, s, 0)
    BY <2>1, Zenon DEF SplitsTo
  <2> QED
    BY <2>2
<1>2. ASSUME NEW n \in T PROVE n + 1 \in T
  <2>1. PICK f : SplitsTo(f, s, n)
    OBVIOUS
  <2>2. n \in Nat
    OBVIOUS
  <2> HIDE DEF T
  <2> DEFINE q == n + 1
             last == SplitStep(f[n], s[q])
             g == [i \in 0 .. q |-> IF i = q THEN last ELSE f[i]]
             h == [i \in 0 .. n |-> IF i = 0 THEN Start ELSE SplitStep(f[i - 1], s[i])]
  <2>3. f = h
    BY <2>1, Zenon DEF SplitsTo
  <2>4. ASSUME NEW i \in 0 .. n PROVE f[i] = IF i = 0 THEN Start ELSE SplitStep(f[i - 1], s[i])
    <3>1. h[i] = IF i = 0 THEN Start ELSE SplitStep(f[i - 1], s[i])
      OBVIOUS
    <3> HIDE DEF h
    <3> QED
      BY <2>3, <3>1
  <2> HIDE DEF h, last
  <2>5. ASSUME NEW i \in 0 .. q PROVE g[i] = IF i = 0 THEN Start ELSE SplitStep(g[i - 1], s[i])
    <3>1. CASE i = q
      <4>1. g[i] = last /\ g[i - 1] = f[n] /\ i # 0
        BY <2>2, <3>1
      <4> HIDE DEF g
      <4> QED
        BY <3>1, <4>1 DEF last
    <3>2. CASE i # q
      <4>1. i \in 0 .. n /\ g[i] = f[i] /\ (i # 0 => g[i - 1] = f[i - 1])
        BY <2>2, <3>2
      <4> HIDE DEF g
      <4> QED
        BY <2>4, <4>1
    <3> QED
      BY <3>1, <3>2
  <2>6. g = [i \in 0 .. q |-> g[i]]
    OBVIOUS
  <2> HIDE DEF g
  <2>7. g = [i \in 0 .. q |-> IF i = 0 THEN Start ELSE SplitStep(g[i - 1], s[i])]
    BY <2>5, <2>6, Zenon
  <2>8. SplitsTo(g, s, q)
    BY <2>7, Zenon DEF SplitsTo
  <2>9. q \in Nat
    BY <2>2
  <2> QED
    BY <2>8, <2>9 DEF T
<1> HIDE DEF T
<1>3. T = Nat
  <2>1. T \in SUBSET Nat
    BY DEF T
  <2> QED
    BY <1>1, <1>2, <2>1, EveryNumber
<1> QED
  BY <1>3 DEF T

\* Its values, one by one.
LEMMA SplittingAt ==
  ASSUME NEW S, NEW s \in Seq(S)
  PROVE  /\ Splitting(s)[0] = Start
         /\ \A n \in 1 .. Len(s) : Splitting(s)[n] = SplitStep(Splitting(s)[n - 1], s[n])
<1> DEFINE L == Len(s)
           F == CHOOSE f : f = [n \in 0 .. L |-> IF n = 0 THEN Start ELSE SplitStep(f[n - 1], s[n])]
<1>1. Splitting(s) = F
  BY Zenon DEF Splitting, Start
<1>2. L \in Nat
  BY LenProperties
<1>3. PICK f : f = [n \in 0 .. L |-> IF n = 0 THEN Start ELSE SplitStep(f[n - 1], s[n])]
  <2> HIDE DEF L
  <2>1. \E f : SplitsTo(f, s, L)
    BY <1>2, SplitsExist
  <2> QED
    BY <2>1, Zenon DEF SplitsTo
<1>4. F = [n \in 0 .. L |-> IF n = 0 THEN Start ELSE SplitStep(F[n - 1], s[n])]
  BY <1>3
<1> HIDE DEF F, L
<1> DEFINE G == [n \in 0 .. L |-> IF n = 0 THEN Start ELSE SplitStep(F[n - 1], s[n])]
<1>5. G[0] = Start
  BY <1>2
<1>6. \A n \in 1 .. L : G[n] = SplitStep(F[n - 1], s[n])
  BY <1>2
<1>7. F = G
  BY <1>4, Zenon
<1> HIDE DEF G
<1> QED
  BY <1>1, <1>5, <1>6, <1>7 DEF L

\* All but the last, and the last.
LEMMA FrontAndLast ==
  ASSUME NEW S, NEW w \in Seq(S), w # <<>>
  PROVE  Front(w) \in Seq(S) /\ Last(w) \in S /\ w = Append(Front(w), Last(w))
<1> DEFINE n == Len(w)
<1>1. n \in Nat /\ n # 0
  BY EmptySeq
<1>2. n - 1 \in 0 .. n /\ 1 \in 1 .. n /\ n \in 1 .. n
  BY <1>1
<1>3. Front(w) \in Seq(S)
  <2> DEFINE k == n - 1
  <2>1. k \in 0 .. Len(w)
    BY <1>2
  <2> HIDE DEF k
  <2>2. SubSeq(w, 1, k) \in Seq(S)
    BY <2>1, AfterParts
  <2> QED
    BY <2>2 DEF Front, k
<1>4. Last(w) \in S
  BY <1>2 DEF Last
<1>5. SubSeq(w, 1, n) = SubSeq(w, 1, n - 1) \o <<w[n]>>
  <2>1. 1 \in 1 .. Len(w) /\ Len(w) \in 1 .. Len(w)
    BY <1>2
  <2> QED
    BY <2>1, SubSeqRecursiveSecond
<1>6. SubSeq(w, 1, n) = w
  BY SubSeqFull
<1>7. w = Front(w) \o <<Last(w)>>
  BY <1>5, <1>6 DEF Front, Last
<1>8. Front(w) \o <<Last(w)>> = Append(Front(w), Last(w))
  BY <1>3, <1>4, AppendIsConcat
<1> QED
  BY <1>3, <1>4, <1>7, <1>8

\* What has been appended is last.
LEMMA FrontAppend ==
  ASSUME NEW S, NEW w \in Seq(S), NEW x \in S
  PROVE  Front(Append(w, x)) = w /\ Last(Append(w, x)) = x
<1> DEFINE more == Append(w, x)
<1>1. /\ more \in Seq(S) /\ Len(more) = Len(w) + 1 /\ Len(w) \in Nat
      /\ more[Len(w) + 1] = x
  BY AppendProperties, LenProperties
<1>2. more = w \o <<x>> /\ <<x>> \in Seq(S)
  BY AppendIsConcat
<1>3. SubSeq(w \o <<x>>, 1, Len(w)) = w
  BY <1>2, AfterConcat
<1> HIDE DEF more
<1>4. Len(more) - 1 = Len(w)
  BY <1>1
<1> QED
  BY <1>1, <1>2, <1>3, <1>4 DEF Front, Last, more

\* A text that is split, and its words so far.
SplitState(acc) ==
  /\ acc.words \in Seq(Seq(Symbol)) /\ acc.inside \in BOOLEAN
  /\ acc = [words |-> acc.words, inside |-> acc.inside]
  /\ acc.inside => acc.words # <<>>

\* A symbol is dropped, or added to the words.
LEMMA SplitStepAdds ==
  ASSUME NEW acc, SplitState(acc), NEW x \in Symbol
  PROVE  /\ SplitState(SplitStep(acc, x))
         /\ \/ FlattenSeq(SplitStep(acc, x).words) = FlattenSeq(acc.words)
            \/ FlattenSeq(SplitStep(acc, x).words) = FlattenSeq(acc.words) \o <<x>>
<1> DEFINE w == acc.words
<1>1. w \in Seq(Seq(Symbol)) /\ <<x>> \in Seq(Symbol)
  BY DEF SplitState
<1>2. CASE x \in {SP, CR, LF}
  <2>1. SplitStep(acc, x) = [words |-> w, inside |-> FALSE]
    BY <1>2 DEF SplitStep
  <2> HIDE DEF w
  <2>2. SplitState([words |-> w, inside |-> FALSE])
    BY <1>1 DEF SplitState
  <2> QED
    BY <2>1, <2>2 DEF w
<1>3. CASE x \notin {SP, CR, LF} /\ ~acc.inside
  <2>1. SplitStep(acc, x) = [words |-> Append(w, <<x>>), inside |-> TRUE]
    BY <1>3 DEF SplitStep
  <2> HIDE DEF w
  <2>2. Append(w, <<x>>) \in Seq(Seq(Symbol)) /\ Append(w, <<x>>) # <<>>
    BY ZenonT(40), <1>1, AppendProperties
  <2>3. FlattenSeq(Append(w, <<x>>)) = FlattenSeq(w) \o <<x>>
    BY <1>1, FlattenAppend
  <2> DEFINE v == Append(w, <<x>>)
  <2> HIDE DEF v
  <2>4. SplitState([words |-> v, inside |-> TRUE])
    BY <2>2 DEF SplitState, v
  <2> QED
    BY SMTT(30), <2>1, <2>3, <2>4 DEF v, w
<1>4. CASE x \notin {SP, CR, LF} /\ acc.inside
  <2> DEFINE last == Append(Last(w), x)
             v == Append(Front(w), last)
  <2>1. SplitStep(acc, x) = [words |-> v, inside |-> TRUE]
    <3>1. acc = [words |-> w, inside |-> TRUE]
      BY <1>4 DEF SplitState
    <3>2. SplitStep(acc, x) = [acc EXCEPT !.words = v]
      BY <1>4, Zenon DEF SplitStep
    <3> HIDE DEF v, w
    <3> QED
      BY <3>1, <3>2
  <2>2. w # <<>>
    BY <1>4 DEF SplitState
  <2> HIDE DEF w
  <2>3. Front(w) \in Seq(Seq(Symbol)) /\ Last(w) \in Seq(Symbol) /\ w = Append(Front(w), Last(w))
    BY <1>1, <2>2, FrontAndLast
  <2>4. last \in Seq(Symbol) /\ last = Last(w) \o <<x>>
    BY <1>1, <2>3, AppendProperties, AppendIsConcat
  <2> HIDE DEF last
  <2>5. v \in Seq(Seq(Symbol)) /\ v # <<>>
    BY ZenonT(40), <2>3, <2>4, AppendProperties
  <2>6. FlattenSeq(v) = FlattenSeq(Front(w)) \o last
    BY <2>3, <2>4, FlattenAppend
  <2>7. FlattenSeq(w) = FlattenSeq(Front(w)) \o Last(w)
    <3>1. FlattenSeq(Append(Front(w), Last(w))) = FlattenSeq(Front(w)) \o Last(w)
      BY <2>3, FlattenAppend
    <3> QED
      BY <2>3, <3>1
  <2> HIDE DEF v
  <2>8. FlattenSeq(v) = FlattenSeq(w) \o <<x>>
    <3> DEFINE f == FlattenSeq(Front(w))
               l == Last(w)
    <3>1. f \in Seq(Symbol) /\ l \in Seq(Symbol)
      BY <2>3, FlattenType
    <3> HIDE DEF f, l
    <3>2. Regroups(f, l, <<x>>, Symbol)
      BY <1>1, <3>1, Regrouped
    <3> QED
      BY <2>4, <2>6, <2>7, <3>2 DEF Regroups, f, l
  <2>9. SplitState([words |-> v, inside |-> TRUE])
    BY <2>5 DEF SplitState
  <2> QED
    BY <2>1, <2>8, <2>9 DEF w
<1>5. acc.inside \in BOOLEAN
  BY DEF SplitState
<1> QED
  BY <1>2, <1>3, <1>4, <1>5

\* After any number of symbols it has a state, and the words have only grown.
LEMMA SplittingType ==
  ASSUME NEW s \in Seq(Symbol)
  PROVE  \A n \in 0 .. Len(s) : SplitState(Splitting(s)[n])
<1> DEFINE T == {n \in Nat : n <= Len(s) => SplitState(Splitting(s)[n])}
<1>1. Len(s) \in Nat
  BY LenProperties
<1>2. 0 \in T
  <2>1. SplitState(Start)
    <3>1. <<>> \in Seq(Seq(Symbol))
      BY EmptySeq
    <3> QED
      BY <3>1 DEF SplitState, Start
  <2> QED
    BY <2>1, SplittingAt
<1>3. ASSUME NEW n \in T PROVE n + 1 \in T
  <2>1. n \in Nat
    OBVIOUS
  <2> DEFINE q == n + 1
  <2>2. q \in Nat /\ q - 1 = n
    BY <2>1
  <2>3. ASSUME q <= Len(s) PROVE SplitState(Splitting(s)[q])
    <3>1. q \in 1 .. Len(s) /\ n <= Len(s)
      BY <1>1, <2>1, <2>3
    <3>2. SplitState(Splitting(s)[n])
      BY <3>1
    <3> HIDE DEF T, q
    <3>3. Splitting(s)[q] = SplitStep(Splitting(s)[n], s[q])
      <4>1. Splitting(s)[q] = SplitStep(Splitting(s)[q - 1], s[q])
        BY <3>1, SplittingAt
      <4> QED
        BY <2>2, <4>1
    <3>4. s[q] \in Symbol
      BY <3>1, ElementOfSeq
    <3> QED
      BY <3>2, <3>3, <3>4, SplitStepAdds
  <2> QED
    BY <2>2, <2>3
<1> HIDE DEF T
<1>4. T = Nat
  <2>1. T \in SUBSET Nat
    BY DEF T
  <2> QED
    BY <1>2, <1>3, <2>1, EveryNumber
<1> QED
  BY <1>1, <1>4 DEF T

\* The symbols of the words after n of a text.
SplitText(s, n) == FlattenSeq(Splitting(s)[n].words)

\* The symbols of the words only grow.
LEMMA SplitTextGrows ==
  ASSUME NEW s \in Seq(Symbol), NEW k \in 0 .. Len(s)
  PROVE  Extends(SplitText(s, Len(s)), SplitText(s, k), Symbol)
<1> DEFINE T == {n \in Nat : k + n <= Len(s) => Extends(SplitText(s, k + n), SplitText(s, k), Symbol)}
<1>1. Len(s) \in Nat /\ k \in Nat
  BY LenProperties
<1>2. \A n \in 0 .. Len(s) : SplitText(s, n) \in Seq(Symbol)
  <2> SUFFICES ASSUME NEW n \in 0 .. Len(s) PROVE SplitText(s, n) \in Seq(Symbol)
    OBVIOUS
  <2>1. Splitting(s)[n].words \in Seq(Seq(Symbol))
    BY SplittingType DEF SplitState
  <2> QED
    BY <2>1, FlattenType DEF SplitText
<1>3. 0 \in T
  <2>1. SplitText(s, k) \o <<>> = SplitText(s, k) /\ <<>> \in Seq(Symbol)
    BY <1>2, ConcatEmptySeq
  <2>2. k + 0 = k
    BY <1>1
  <2>3. Extends(SplitText(s, k), SplitText(s, k), Symbol)
    BY <2>1 DEF Extends
  <2> QED
    BY <2>2, <2>3
<1>4. ASSUME NEW n \in T PROVE n + 1 \in T
  <2>1. n \in Nat
    OBVIOUS
  <2> DEFINE q == k + (n + 1)
             p == k + n
  <2>2. ASSUME q <= Len(s) PROVE Extends(SplitText(s, q), SplitText(s, k), Symbol)
    <3>1. q \in 1 .. Len(s) /\ p \in 0 .. Len(s) /\ p <= Len(s) /\ q - 1 = p
      BY <1>1, <2>1, <2>2
    <3>2. Extends(SplitText(s, p), SplitText(s, k), Symbol)
      BY <3>1
    <3> HIDE DEF T, p, q
    <3>3. Splitting(s)[q] = SplitStep(Splitting(s)[p], s[q])
      <4>1. Splitting(s)[q] = SplitStep(Splitting(s)[q - 1], s[q])
        BY <3>1, SplittingAt
      <4> QED
        BY <3>1, <4>1
    <3>4. s[q] \in Symbol
      BY <3>1, ElementOfSeq
    <3>5. SplitState(Splitting(s)[p])
      BY <3>1, SplittingType
    <3>6. SplitText(s, q) = SplitText(s, p) \/ SplitText(s, q) = SplitText(s, p) \o <<s[q]>>
      BY <3>3, <3>4, <3>5, SplitStepAdds DEF SplitText
    <3>7. Extends(SplitText(s, p) \o <<s[q]>>, SplitText(s, k), Symbol)
      <4> DEFINE x == <<s[q]>>
                 t == SplitText(s, p)
                 b == SplitText(s, k)
      <4>1. x \in Seq(Symbol) /\ b \in Seq(Symbol) /\ Extends(t, b, Symbol)
        BY <1>2, <3>2, <3>4
      <4> HIDE DEF x, t, b
      <4>2. Extends(t \o x, b, Symbol)
        BY <4>1, ExtendsMore
      <4> QED
        BY <4>2 DEF x, t, b
    <3> QED
      BY <3>2, <3>6, <3>7
  <2>3. n + 1 \in Nat
    BY <2>1
  <2> QED
    BY <2>2, <2>3
<1> HIDE DEF T
<1>5. T = Nat
  <2>1. T \in SUBSET Nat
    BY DEF T
  <2> QED
    BY <1>3, <1>4, <2>1, EveryNumber
<1>6. Len(s) - k \in T /\ k + (Len(s) - k) = Len(s)
  BY <1>1, <1>5
<1> QED
  BY <1>1, <1>6 DEF T

\* What is split of a text does not depend on what follows.
LEMMA SplittingSame ==
  ASSUME NEW d \in Seq(Symbol), NEW e \in Seq(Symbol)
  PROVE  Splitting(d \o e)[Len(d)] = Splitting(d)[Len(d)]
<1> DEFINE s == d \o e
           T == {n \in Nat : n <= Len(d) => Splitting(s)[n] = Splitting(d)[n]}
<1>1. /\ s \in Seq(Symbol) /\ Len(d) \in Nat /\ Len(s) \in Nat /\ Len(d) <= Len(s)
      /\ \A i \in 1 .. Len(d) : s[i] = d[i]
  BY ConcatProperties, LenProperties
<1> HIDE DEF s
<1>2. 0 \in T
  BY <1>1, SplittingAt
<1>3. ASSUME NEW n \in T PROVE n + 1 \in T
  <2>1. n \in Nat
    OBVIOUS
  <2> DEFINE q == n + 1
  <2>2. ASSUME q <= Len(d) PROVE Splitting(s)[q] = Splitting(d)[q]
    <3>1. q \in 1 .. Len(d) /\ q \in 1 .. Len(s) /\ q - 1 = n /\ n <= Len(d)
      BY <1>1, <2>1, <2>2
    <3>2. Splitting(s)[n] = Splitting(d)[n]
      BY <3>1
    <3> HIDE DEF T, q
    <3>3. Splitting(s)[q] = SplitStep(Splitting(s)[q - 1], s[q])
      BY <1>1, <3>1, SplittingAt
    <3>4. Splitting(d)[q] = SplitStep(Splitting(d)[q - 1], d[q])
      BY <3>1, SplittingAt
    <3> QED
      BY <1>1, <3>1, <3>2, <3>3, <3>4
  <2>3. q \in Nat
    BY <2>1
  <2> QED
    BY <2>2, <2>3
<1> HIDE DEF T
<1>4. T = Nat
  <2>1. T \in SUBSET Nat
    BY DEF T
  <2> QED
    BY <1>2, <1>3, <2>1, EveryNumber
<1> QED
  BY <1>1, <1>4 DEF T, s

\* The text of strings is that of their words.
LEMMA TextOf ==
  ASSUME NEW words \in Seq(Seq(Symbol))
  PROVE  Text(Strs(words)) = FlattenSeq(words)
<1> DEFINE w == [i \in DOMAIN Strs(words) |-> Strs(words)[i][2]]
<1>1. \A i \in 1 .. Len(words) : Strs(words)[i][2] = words[i]
  <2> SUFFICES ASSUME NEW i \in 1 .. Len(words) PROVE Strs(words)[i][2] = words[i]
    OBVIOUS
  <2>1. Strs(words)[i] = Str(words[i])
    BY BulksType
  <2> QED
    BY <2>1 DEF Str
<1>2. DOMAIN Strs(words) = 1 .. Len(words)
  BY BulksType, LenProperties
<1>3. words = [i \in 1 .. Len(words) |-> words[i]]
  OBVIOUS
<1>4. w = words
  <2>1. w = [i \in 1 .. Len(words) |-> Strs(words)[i][2]]
    BY <1>2
  <2> QED
    BY <1>1, <1>3, <2>1
<1> HIDE DEF w
<1> QED
  BY <1>4 DEF Text, w

\* What a text is split into is a prefix of what a longer one is.
LEMMA SplitPrefix ==
  ASSUME NEW d \in Seq(Symbol), NEW e \in Seq(Symbol)
  PROVE  IsPrefix(Text(Split(d)), Text(Split(d \o e)))
<1> DEFINE s == d \o e
<1>1. s \in Seq(Symbol) /\ Len(d) \in 0 .. Len(s)
  BY ConcatProperties, LenProperties
<1>2. \A t \in Seq(Symbol) :
        Text(Split(t)) = SplitText(t, Len(t)) /\ SplitText(t, Len(t)) \in Seq(Symbol)
  <2> SUFFICES ASSUME NEW t \in Seq(Symbol)
               PROVE  Text(Split(t)) = SplitText(t, Len(t)) /\ SplitText(t, Len(t)) \in Seq(Symbol)
    OBVIOUS
  <2> DEFINE w == Splitting(t)[Len(t)].words
  <2>1. Len(t) \in 0 .. Len(t)
    BY LenProperties
  <2>2. w \in Seq(Seq(Symbol))
    BY <2>1, SplittingType DEF SplitState
  <2>3. Split(t) = Strs(w)
    BY DEF Split, Strs
  <2> HIDE DEF w
  <2>4. Text(Split(t)) = FlattenSeq(w) /\ FlattenSeq(w) \in Seq(Symbol)
    BY <2>2, <2>3, TextOf, FlattenType
  <2> QED
    BY <2>4 DEF SplitText, w
<1>3. SplitText(s, Len(d)) = SplitText(d, Len(d))
  BY SplittingSame DEF SplitText
<1> DEFINE a == Text(Split(d))
           b == Text(Split(s))
<1>4. Extends(b, a, Symbol) /\ a \in Seq(Symbol) /\ b \in Seq(Symbol)
  <2> HIDE DEF s
  <2> QED
    BY <1>1, <1>2, <1>3, SplitTextGrows
<1> HIDE DEF a, b
<1>5. IsPrefix(a, b)
  <2>1. PICK r \in Seq(Symbol) : b = a \o r
    BY <1>4 DEF Extends
  <2>2. SubSeq(a \o r, 1, Len(a)) = a /\ SubSeq(a, 1, Len(a)) = a
    BY <1>4, AfterConcat, SubSeqFull
  <2>3. Len(a) <= Len(a \o r)
    <3>1. Joins(a, r, Symbol)
      BY <1>4, Joined
    <3> QED
      BY <3>1 DEF Joins
  <2> QED
    BY <2>1, <2>2, <2>3 DEF IsPrefix
<1> QED
  BY <1>5 DEF a, b, s

\* A word of a line, as the client builds one.
IsWord(w) == w \in Seq(Symbol) /\ w # <<>> /\ \A j \in 1 .. Len(w) : w[j] \notin {SP, CR, LF}

\* Where a word stands in a text, its space included.
StandsAt(s, p, w) ==
  /\ p \in Nat /\ p + Len(w) + 1 <= Len(s)
  /\ \A j \in 1 .. Len(w) : s[p + j] = w[j]
  /\ s[p + Len(w) + 1] = SP

\* What is split after a word has begun.
Within(W, v) == [words |-> Append(W, v), inside |-> TRUE]

\* A sequence of one element.
LEMMA SingleSymbol ==
  ASSUME NEW S, NEW v \in Seq(S), Len(v) = 1
  PROVE  v = <<v[1]>>
OBVIOUS

\* One field of the state is replaced.
LEMMA WordsSet ==
  ASSUME NEW acc, NEW m, NEW w, acc = [words |-> m, inside |-> TRUE]
  PROVE  [acc EXCEPT !.words = w] = [words |-> w, inside |-> TRUE]
<1> DEFINE r == [acc EXCEPT !.words = w]
<1>1. r = [words |-> w, inside |-> TRUE]
  <2>1. r = [acc EXCEPT !.words = w]
    OBVIOUS
  <2> HIDE DEF r
  <2> QED
    BY <2>1
<1> QED
  BY <1>1

\* A symbol more of a word.
LEMMA WithinNext ==
  ASSUME NEW W \in Seq(Seq(Symbol)), NEW v \in Seq(Symbol), NEW x \in Symbol, x \notin {SP, CR, LF}
  PROVE  SplitStep(Within(W, v), x) = Within(W, Append(v, x))
<1> DEFINE acc == Within(W, v)
           more == Append(W, v)
<1>1. acc.words = more /\ acc.inside = TRUE /\ acc = [words |-> more, inside |-> TRUE]
  BY DEF Within
<1>2. Front(more) = W /\ Last(more) = v
  BY FrontAppend
<1> DEFINE w == Append(Front(more), Append(Last(more), x))
<1>3. SplitStep(acc, x) = [acc EXCEPT !.words = w]
  <2> HIDE DEF acc, more
  <2>1. SplitStep(acc, x) = [acc EXCEPT !.words = Append(Front(acc.words), Append(Last(acc.words), x))]
    BY <1>1, Zenon DEF SplitStep
  <2> QED
    BY <1>1, <2>1
<1>4. w = Append(W, Append(v, x))
  BY <1>2
<1> HIDE DEF w, acc, more
<1>5. [acc EXCEPT !.words = w] = [words |-> w, inside |-> TRUE]
  BY <1>1, WordsSet
<1> QED
  BY <1>3, <1>4, <1>5 DEF Within, acc

\* A word of a line is split off, with its space.
LEMMA WordSplit ==
  ASSUME NEW s \in Seq(Symbol), NEW w, IsWord(w), NEW p, StandsAt(s, p, w),
         NEW W \in Seq(Seq(Symbol)), Splitting(s)[p] = [words |-> W, inside |-> FALSE]
  PROVE  Splitting(s)[p + Len(w) + 1] = [words |-> Append(W, w), inside |-> FALSE]
<1> DEFINE L == Len(w)
<1>1. w \in Seq(Symbol) /\ L \in Nat /\ L # 0 /\ p \in Nat /\ Len(s) \in Nat /\ p + L + 1 <= Len(s)
  BY LenProperties, EmptySeq DEF IsWord, StandsAt
<1>2. \A n \in 1 .. Len(s) : Splitting(s)[n] = SplitStep(Splitting(s)[n - 1], s[n])
  BY SplittingAt
<1>3. \A j \in 1 .. L : s[p + j] = w[j] /\ w[j] \in Symbol /\ w[j] \notin {SP, CR, LF}
  BY <1>1 DEF StandsAt, IsWord
<1> DEFINE T == {j \in Nat : j + 1 <= L =>
                   Splitting(s)[p + (j + 1)] = Within(W, SubSeq(w, 1, j + 1))}
<1>4. 0 \in T
  <2>1. p + 1 \in 1 .. Len(s) /\ (p + 1) - 1 = p /\ 1 \in 1 .. L
    BY <1>1
  <2>2. Splitting(s)[p + 1] = SplitStep(Splitting(s)[p], w[1])
    <3>1. Splitting(s)[p + 1] = SplitStep(Splitting(s)[(p + 1) - 1], s[p + 1])
      BY <1>2, <2>1
    <3>2. s[p + 1] = w[1]
      BY <1>3, <2>1
    <3> QED
      BY <2>1, <3>1, <3>2
  <2>3. SplitStep([words |-> W, inside |-> FALSE], w[1]) = Within(W, <<w[1]>>)
    <3>1. w[1] \notin {SP, CR, LF}
      BY <1>3, <2>1
    <3> QED
      BY <3>1 DEF SplitStep, Within
  <2>4. SubSeq(w, 1, 1) = <<w[1]>>
    <3>1. 1 \in 0 .. Len(w)
      BY <1>1
    <3>2. SubSeq(w, 1, 1) \in Seq(Symbol) /\ Len(SubSeq(w, 1, 1)) = 1
      BY <1>1, <3>1, AfterParts
    <3>3. SubSeq(w, 1, 1)[1] = w[1]
      BY <1>1
    <3> DEFINE v == SubSeq(w, 1, 1)
    <3> HIDE DEF v, L
    <3>4. v = <<v[1]>>
      BY <3>2, SingleSymbol DEF v
    <3> QED
      BY <3>3, <3>4 DEF v
  <2>5. Splitting(s)[p + 1] = Within(W, SubSeq(w, 1, 1))
    BY <2>2, <2>3, <2>4
  <2>6. 0 + 1 = 1
    OBVIOUS
  <2> QED
    BY <2>5, <2>6
<1>5. ASSUME NEW j \in T PROVE j + 1 \in T
  <2>1. j \in Nat
    OBVIOUS
  <2> DEFINE q == j + 1
             r == q + 1
  <2>2. q \in Nat /\ r \in Nat
    BY <2>1
  <2>3. ASSUME r <= L PROVE Splitting(s)[p + r] = Within(W, SubSeq(w, 1, r))
    <3>1. /\ q <= L /\ q \in 1 .. L /\ r \in 1 .. L /\ p + r \in 1 .. Len(s) /\ (p + r) - 1 = p + q
          /\ q \in 0 .. L /\ r - 1 = q
      BY <1>1, <2>1, <2>3
    <3>2. Splitting(s)[p + q] = Within(W, SubSeq(w, 1, q))
      BY <3>1
    <3> HIDE DEF T, q, r
    <3>3. Splitting(s)[p + r] = SplitStep(Splitting(s)[p + q], w[r])
      <4>1. Splitting(s)[p + r] = SplitStep(Splitting(s)[(p + r) - 1], s[p + r])
        BY <1>2, <3>1
      <4>2. s[p + r] = w[r]
        BY <1>3, <3>1
      <4> QED
        BY <3>1, <4>1, <4>2
    <3> DEFINE v == SubSeq(w, 1, q)
    <3>4. v \in Seq(Symbol)
      BY <1>1, <3>1, AfterParts
    <3>5. w[r] \in Symbol /\ w[r] \notin {SP, CR, LF}
      BY <1>3, <3>1
    <3>6. SubSeq(w, 1, r) = Append(v, w[r])
      <4>1. SubSeq(w, 1, r) = SubSeq(w, 1, r - 1) \o <<w[r]>>
        <5>1. 1 \in 1 .. Len(w) /\ r \in 1 .. Len(w)
          BY <1>1, <3>1
        <5> QED
          BY <1>1, <5>1, SubSeqRecursiveSecond
      <4>2. v \o <<w[r]>> = Append(v, w[r])
        BY <3>4, <3>5, AppendIsConcat
      <4> QED
        BY <3>1, <4>1, <4>2
    <3> HIDE DEF v
    <3>7. SplitStep(Within(W, v), w[r]) = Within(W, Append(v, w[r]))
      BY <3>4, <3>5, WithinNext
    <3> QED
      BY <3>2, <3>3, <3>6, <3>7 DEF v
  <2> QED
    BY <2>2, <2>3
<1> HIDE DEF T
<1>6. T = Nat
  <2>1. T \in SUBSET Nat
    BY DEF T
  <2> QED
    BY <1>4, <1>5, <2>1, EveryNumber
<1>7. Splitting(s)[p + L] = Within(W, w)
  <2> DEFINE j == L - 1
  <2>1. j \in T /\ j + 1 = L
    BY <1>1, <1>6
  <2> HIDE DEF j
  <2>2. Splitting(s)[p + (j + 1)] = Within(W, SubSeq(w, 1, j + 1))
    BY <1>1, <2>1 DEF T
  <2>3. SubSeq(w, 1, L) = w
    BY <1>1, SubSeqFull
  <2> HIDE DEF L
  <2> QED
    BY <2>1, <2>2, <2>3
<1>8. Splitting(s)[p + L + 1] = SplitStep(Within(W, w), SP)
  <2> DEFINE n == p + L + 1
  <2>1. n \in 1 .. Len(s) /\ n - 1 = p + L
    BY <1>1
  <2>2. s[n] = SP
    BY DEF StandsAt
  <2> HIDE DEF n, L
  <2>3. Splitting(s)[n] = SplitStep(Splitting(s)[n - 1], s[n])
    BY <1>2, <2>1
  <2>4. Splitting(s)[n] = SplitStep(Within(W, w), SP)
    BY <1>7, <2>1, <2>2, <2>3
  <2> QED
    BY <2>4 DEF n
<1>9. SplitStep(Within(W, w), SP) = [words |-> Append(W, w), inside |-> FALSE]
  BY DEF SplitStep, Within
<1> QED
  BY <1>8, <1>9

\* The words of a line, each with its space.
Spaced(words) == [i \in DOMAIN words |-> words[i] \o <<SP>>]

IsLine(words) == words \in Seq(Seq(Symbol)) /\ \A i \in 1 .. Len(words) : IsWord(words[i])

\* Their types and lengths.
LEMMA SpacedType ==
  ASSUME NEW words, IsLine(words)
  PROVE  /\ Spaced(words) \in Seq(Seq(Symbol)) /\ Len(Spaced(words)) = Len(words) /\ Len(words) \in Nat
         /\ \A i \in 1 .. Len(words) : /\ Spaced(words)[i] = words[i] \o <<SP>>
                                       /\ IsWord(words[i])
<1>1. words \in Seq(Seq(Symbol)) /\ SP \in Symbol
  BY Symbols DEF IsLine
<1>2. Len(words) \in Nat /\ DOMAIN words = 1 .. Len(words)
  BY <1>1, LenProperties
<1>3. \A i \in 1 .. Len(words) : words[i] \o <<SP>> \in Seq(Symbol)
  <2> SUFFICES ASSUME NEW i \in 1 .. Len(words) PROVE words[i] \o <<SP>> \in Seq(Symbol)
    OBVIOUS
  <2>1. words[i] \in Seq(Symbol) /\ <<SP>> \in Seq(Symbol)
    BY <1>1
  <2> QED
    BY <2>1, ConcatProperties
<1>4. Spaced(words) \in [1 .. Len(words) -> Seq(Symbol)]
  BY <1>2, <1>3 DEF Spaced
<1>5. Spaced(words) \in Seq(Seq(Symbol)) /\ Len(Spaced(words)) = Len(words)
  BY <1>2, <1>4, LenProperties
<1> QED
  BY <1>2, <1>5 DEF Spaced, IsLine

\* A line is split into its words.
LEMMA LineSplit ==
  ASSUME NEW words, IsLine(words)
  PROVE  Split(FlattenSeq(Spaced(words))) = Strs(words)
<1> DEFINE ws == Spaced(words)
           d == FlattenSeq(ws)
           N == Len(words)
           At(k) == Splitting(d)[Len(Upto(ws, k))]
           T == {k \in Nat : k <= N => At(k) = [words |-> SubSeq(words, 1, k), inside |-> FALSE]}
<1>1. words \in Seq(Seq(Symbol)) /\ N \in Nat
  BY LenProperties DEF IsLine
<1>2. /\ ws \in Seq(Seq(Symbol)) /\ Len(ws) = N
      /\ \A i \in 1 .. N : ws[i] = words[i] \o <<SP>> /\ IsWord(words[i])
  BY SpacedType
<1>3. d \in Seq(Symbol)
  BY <1>2, FlattenType
<1>4. 0 \in T
  <2>1. Len(Upto(ws, 0)) = 0
    BY <1>2, UptoNext, EmptySeq
  <2>2. SubSeq(words, 1, 0) = <<>>
    BY <1>1
  <2>3. At(0) = Start
    BY <1>3, <2>1, SplittingAt
  <2> QED
    BY <2>2, <2>3 DEF Start
<1>5. ASSUME NEW k \in T PROVE k + 1 \in T
  <2>1. k \in Nat
    OBVIOUS
  <2> DEFINE q == k + 1
  <2>2. ASSUME q <= N PROVE At(q) = [words |-> SubSeq(words, 1, q), inside |-> FALSE]
    <3>1. /\ k <= N /\ q \in 1 .. N /\ k \in 0 .. N /\ k \in 0 .. N - 1 /\ q \in 0 .. N /\ q - 1 = k
          /\ q = k + 1
      BY <1>1, <2>1, <2>2
    <3>2. At(k) = [words |-> SubSeq(words, 1, k), inside |-> FALSE]
      BY <3>1
    <3> HIDE DEF T, q
    <3> DEFINE w == words[q]
               W == SubSeq(words, 1, k)
               u == Upto(ws, k)
               y == Beyond(ws, q)
               p == Len(u)
               x == w \o <<SP>>
    <3>3. IsWord(w) /\ ws[q] = x
      BY <1>2, <3>1
    <3>4. w \in Seq(Symbol) /\ x \in Seq(Symbol) /\ Len(x) = Len(w) + 1 /\ Len(w) \in Nat
      <4>1. SP \in Symbol /\ <<SP>> \in Seq(Symbol) /\ Len(<<SP>>) = 1
        BY Symbols
      <4>2. w \in Seq(Symbol)
        BY <3>3 DEF IsWord
      <4> QED
        BY <4>1, <4>2, ConcatProperties, LenProperties
    <3>5. /\ u \in Seq(Symbol) /\ y \in Seq(Symbol) /\ Upto(ws, q) = u \o x
          /\ d = (u \o x) \o y
      <4> HIDE DEF ws
      <4>1. Upto(ws, k + 1) = Upto(ws, k) \o ws[k + 1] /\ Upto(ws, k) \in Seq(Symbol)
        BY <1>2, <3>1, UptoNext
      <4>2. Beyond(ws, q) \in Seq(Symbol) /\ FlattenSeq(ws) = Upto(ws, q) \o Beyond(ws, q)
        BY <1>2, <3>1, BeyondParts
      <4>3. Upto(ws, q) = u \o x
        BY <3>1, <3>3, <4>1
      <4> QED
        BY <4>1, <4>2, <4>3
    <3>6. W \in Seq(Seq(Symbol)) /\ Append(W, w) = SubSeq(words, 1, q)
      <4>1. W \in Seq(Seq(Symbol))
        BY <1>1, <3>1, AfterParts
      <4>2. SubSeq(words, 1, q) = SubSeq(words, 1, q - 1) \o <<words[q]>>
        <5>1. 1 \in 1 .. Len(words) /\ q \in 1 .. Len(words)
          BY <1>1, <3>1
        <5> QED
          BY <1>1, <5>1, SubSeqRecursiveSecond
      <4>3. W \o <<w>> = Append(W, w)
        BY <3>4, <4>1, AppendIsConcat
      <4> QED
        BY <3>1, <4>1, <4>2, <4>3
    <3> HIDE DEF w, W, u, y, ws, d
    <3>7. StandsAt(d, p, w) /\ Len(u \o x) = p + Len(w) + 1
      <4>1. Joins(u, x, Symbol) /\ u \o x \in Seq(Symbol)
        BY <3>4, <3>5, Joined, ConcatProperties
      <4>2. Joins(u \o x, y, Symbol)
        BY <3>5, <4>1, Joined
      <4>3. p \in Nat /\ Len(u \o x) = p + Len(x) /\ Len(d) = Len(u \o x) + Len(y) /\ Len(y) \in Nat
        BY <3>5, <4>1, <4>2 DEF Joins
      <4>4. \A j \in 1 .. Len(x) : d[p + j] = x[j]
        <5> SUFFICES ASSUME NEW j \in 1 .. Len(x) PROVE d[p + j] = x[j]
          OBVIOUS
        <5> HIDE DEF x
        <5>1. p + j \in 1 .. Len(u \o x) /\ p + j > Len(u) /\ (p + j) - Len(u) = j
          BY <3>4, <4>3
        <5>2. (u \o x)[p + j] = x[j]
          <6> DEFINE n == p + j
          <6>1. n \in 1 .. Len(u) + Len(x) /\ ~(n <= Len(u)) /\ n - Len(u) = j
            BY <3>4, <4>3, <5>1
          <6> HIDE DEF n, p
          <6>2. (u \o x)[n] = x[n - Len(u)]
            BY <3>4, <3>5, <6>1, ConcatProperties
          <6> QED
            BY <6>1, <6>2 DEF n
        <5>3. ((u \o x) \o y)[p + j] = (u \o x)[p + j]
          <6> DEFINE n == p + j
                     z == u \o x
          <6>1. n \in 1 .. Len(z) + Len(y) /\ n <= Len(z) /\ z \in Seq(Symbol)
            BY <4>1, <4>3, <5>1
          <6> HIDE DEF n, z
          <6>2. (z \o y)[n] = z[n]
            BY <3>5, <6>1, ConcatProperties
          <6> QED
            BY <6>2 DEF n, z
        <5> QED
          BY <3>5, <5>2, <5>3
      <4>5. (\A j \in 1 .. Len(w) : x[j] = w[j]) /\ x[Len(w) + 1] = SP
        BY <3>4, ConcatProperties
      <4>6. p + Len(w) + 1 <= Len(d) /\ Len(u \o x) = p + Len(w) + 1 /\ p + Len(w) + 1 = p + Len(x)
        BY <3>4, <4>3
      <4>7. \A j \in 1 .. Len(w) : j \in 1 .. Len(x)
        BY <3>4
      <4>8. Len(w) + 1 \in 1 .. Len(x) /\ p + (Len(w) + 1) = p + Len(w) + 1
        BY <3>4, <4>3
      <4>9. d[p + Len(w) + 1] = SP
        BY <4>4, <4>5, <4>8
      <4> HIDE DEF x, p
      <4> QED
        BY <4>3, <4>4, <4>5, <4>6, <4>7, <4>9 DEF StandsAt
    <3>8. Splitting(d)[p] = [words |-> W, inside |-> FALSE]
      BY <3>2 DEF u, W
    <3> HIDE DEF p, x
    <3>9. Splitting(d)[p + Len(w) + 1] = [words |-> Append(W, w), inside |-> FALSE]
      BY <1>3, <3>3, <3>6, <3>7, <3>8, WordSplit
    <3>10. At(q) = Splitting(d)[p + Len(w) + 1]
      BY <3>5, <3>7
    <3> QED
      BY <3>6, <3>9, <3>10
  <2>3. q \in Nat
    BY <2>1
  <2> QED
    BY <2>2, <2>3
<1> HIDE DEF T
<1>6. T = Nat
  <2>1. T \in SUBSET Nat
    BY DEF T
  <2> QED
    BY <1>4, <1>5, <2>1, EveryNumber
<1>7. At(N) = [words |-> SubSeq(words, 1, N), inside |-> FALSE]
  BY <1>1, <1>6 DEF T
<1>8. SubSeq(words, 1, N) = words /\ Upto(ws, N) = d
  <2> HIDE DEF ws
  <2> QED
    BY <1>1, <1>2, SubSeqFull, UptoNext
<1>9. Splitting(d)[Len(d)].words = words
  <2> DEFINE acc == Splitting(d)[Len(d)]
  <2>1. acc = [words |-> words, inside |-> FALSE]
    <3> HIDE DEF d, ws, N
    <3> QED
      BY <1>7, <1>8
  <2> HIDE DEF acc
  <2>2. acc.words = words
    BY <2>1
  <2> QED
    BY <2>2 DEF acc
<1> HIDE DEF d
<1> QED
  BY <1>9 DEF Split, Strs, d

\* And has no end within it.
LEMMA LineIsOne ==
  ASSUME NEW words, IsLine(words)
  PROVE  OneLine(FlattenSeq(Spaced(words))) /\ FlattenSeq(Spaced(words)) \in Seq(Symbol)
<1> DEFINE ws == Spaced(words)
           N == Len(words)
           T == {k \in Nat : k <= N => OneLine(Upto(ws, k))}
<1>1. words \in Seq(Seq(Symbol)) /\ N \in Nat
  BY LenProperties DEF IsLine
<1>2. /\ ws \in Seq(Seq(Symbol)) /\ Len(ws) = N
      /\ \A i \in 1 .. N : ws[i] = words[i] \o <<SP>> /\ IsWord(words[i])
  BY SpacedType
<1>3. 0 \in T
  <2>1. Upto(ws, 0) = <<>> /\ Len(<<>>) = 0
    BY <1>2, UptoNext, EmptySeq
  <2>2. OneLine(Upto(ws, 0))
    BY <2>1 DEF OneLine
  <2> QED
    BY <2>2
<1>4. ASSUME NEW k \in T PROVE k + 1 \in T
  <2>1. k \in Nat
    OBVIOUS
  <2> DEFINE q == k + 1
  <2>2. ASSUME q <= N PROVE OneLine(Upto(ws, q))
    <3>1. k <= N /\ q \in 1 .. N /\ k \in 0 .. N - 1 /\ q = k + 1 /\ k \in 0 .. N
      BY <1>1, <2>1, <2>2
    <3>2. OneLine(Upto(ws, k))
      BY <3>1
    <3> HIDE DEF T, q
    <3> DEFINE w == words[q]
               u == Upto(ws, k)
               x == w \o <<SP>>
    <3>3. IsWord(w) /\ ws[q] = x
      BY <1>2, <3>1
    <3>4. u \in Seq(Symbol) /\ Upto(ws, q) = u \o x
      <4> HIDE DEF ws
      <4>1. Upto(ws, k + 1) = Upto(ws, k) \o ws[k + 1] /\ Upto(ws, k) \in Seq(Symbol)
        BY <1>2, <3>1, UptoNext
      <4> QED
        BY <3>1, <3>3, <4>1
    <3>5. OneLine(x) /\ x \in Seq(Symbol)
      <4>1. w \in Seq(Symbol) /\ <<SP>> \in Seq(Symbol) /\ Len(<<SP>>) = 1 /\ Len(w) \in Nat
        BY <3>3, Symbols, LenProperties DEF IsWord
      <4>2. x \in Seq(Symbol) /\ Len(x) = Len(w) + 1
        BY <4>1, ConcatProperties
      <4>3. \A j \in 1 .. Len(w) : x[j] = w[j] /\ w[j] \notin {CR, LF}
        BY <3>3, <4>1, ConcatProperties DEF IsWord
      <4>4. x[Len(w) + 1] = SP /\ SP \notin {CR, LF}
        BY <4>1, ConcatProperties, Symbols
      <4>5. \A j \in 1 .. Len(x) : j \in 1 .. Len(w) \/ j = Len(w) + 1
        BY <4>1, <4>2
      <4> HIDE DEF x
      <4> QED
        BY <4>2, <4>3, <4>4, <4>5 DEF OneLine
    <3> HIDE DEF u, x, w
    <3>6. OneLine(u \o x)
      <4>1. Joins(u, x, Symbol)
        BY <3>4, <3>5, Joined
      <4>2. SUFFICES ASSUME NEW j \in 1 .. Len(u \o x) PROVE (u \o x)[j] \notin {CR, LF}
        BY DEF OneLine
      <4>3. j \in 1 .. Len(u) + Len(x) /\ Len(u) \in Nat /\ Len(x) \in Nat
        BY <4>1 DEF Joins
      <4>4. (j <= Len(u) => (u \o x)[j] = u[j]) /\ (~(j <= Len(u)) => (u \o x)[j] = x[j - Len(u)])
        BY <3>4, <3>5, <4>3, ConcatProperties
      <4>5. j <= Len(u) => j \in 1 .. Len(u)
        BY <4>3
      <4>6. ~(j <= Len(u)) => j - Len(u) \in 1 .. Len(x)
        BY <4>3
      <4>7. OneLine(u) /\ OneLine(x)
        BY <3>2, <3>5 DEF u
      <4> QED
        BY <4>4, <4>5, <4>6, <4>7 DEF OneLine
    <3> QED
      BY <3>4, <3>6
  <2>3. q \in Nat
    BY <2>1
  <2> QED
    BY <2>2, <2>3
<1> HIDE DEF T
<1>5. T = Nat
  <2>1. T \in SUBSET Nat
    BY DEF T
  <2> QED
    BY <1>3, <1>4, <2>1, EveryNumber
<1>6. OneLine(Upto(ws, N)) /\ N \in 0 .. N
  BY <1>1, <1>5 DEF T
<1>7. Upto(ws, N) = FlattenSeq(ws) /\ FlattenSeq(ws) \in Seq(Symbol)
  <2> HIDE DEF ws
  <2> QED
    BY <1>2, UptoNext, FlattenType
<1> QED
  BY <1>6, <1>7

-----------------------------------------------------------------------------
(* The three forms of a command                                           *)

\* A line that has arrived to its end is read as its text.
LEMMA InlineWhole ==
  ASSUME NEW h, h = <<"+">>, NEW d \in Seq(Symbol), OneLine(d), NEW r \in Seq(Symbol),
         NEW ended \in BOOLEAN
  PROVE  Parse((<<h>> \o (d \o EOL)) \o r, ended) = Read(Str(d), r)
<1> DEFINE l == <<h>> \o (d \o EOL)
           buf == l \o r
<1>1. h \in Symbol /\ h[1] = "+" /\ EOL \in Ends /\ EOL \in Seq(Symbol)
  BY Symbols DEF Ends
<1>2. h # LF
  BY DEF LF
<1>3. l \in Seq(Symbol)
  <2>1. <<h>> \in Seq(Symbol)
    BY <1>1
  <2>2. d \o EOL \in Seq(Symbol)
    BY <1>1, ConcatProperties
  <2> QED
    BY <2>1, <2>2, ConcatProperties
<1>4. FrameReads(Frame((<<h>> \o (d \o EOL)) \o r, ended), h, d, EOL, r, ended)
  BY <1>1, <1>2, FrameIs
<1>5. Frame(buf, ended) = Read(Str(d), r)
  <2> HIDE DEF buf
  <2>1. FrameReads(Frame(buf, ended), h, d, EOL, r, ended)
    BY <1>4 DEF buf
  <2> QED
    BY <1>1, <2>1 DEF FrameReads
<1> HIDE DEF l
<1>6. IsRest(r, buf, Symbol) /\ buf \in Seq(Symbol)
  BY <1>3, RestIs, ConcatProperties
<1> HIDE DEF buf
<1>7. Str(d)[1] # "opening"
  BY DEF Str
<1>8. Parse(buf, ended) = Read(Str(d), r)
  BY <1>5, <1>6, <1>7, ParseOne
<1> QED
  BY <1>8 DEF buf, l

\* Part of a line.
LinePartOf(d1, d) == d1 \in Seq(Symbol) /\ \E d2 \in Seq(Symbol) : d = d1 \o d2

\* It has no end within it either.
LEMMA PartIsOne ==
  ASSUME NEW d \in Seq(Symbol), OneLine(d), NEW d1, LinePartOf(d1, d)
  PROVE  OneLine(d1)
<1>1. PICK d2 \in Seq(Symbol) : d1 \in Seq(Symbol) /\ d = d1 \o d2
  BY DEF LinePartOf
<1>2. \A i \in 1 .. Len(d1) : i \in 1 .. Len(d1 \o d2) /\ (d1 \o d2)[i] = d1[i]
  BY <1>1, ConcatProperties, LenProperties
<1> QED
  BY <1>1, <1>2 DEF OneLine

\* Part of a line that is not empty, as the frame that it begins with.
LEMMA FrameCut ==
  ASSUME NEW h \in Symbol, h # LF, NEW d \in Seq(Symbol), OneLine(d), NEW c \in Seq(Symbol), c # <<>>,
         CutLine(c, h, d), NEW ended \in BOOLEAN
  PROVE  \E d1 : LinePartOf(d1, d)
                  /\ \E t \in Ends : t # EOL /\ FrameReads(Frame(c, ended), h, d1, t, <<>>, ended)
<1>1. PICK d1 \in Seq(Symbol), d2 \in Seq(Symbol) :
        \E t \in Ends : t # EOL /\ c = <<h>> \o (d1 \o t) /\ d = d1 \o d2
  BY DEF CutLine
<1>2. PICK t \in Ends : t # EOL /\ c = <<h>> \o (d1 \o t) /\ d = d1 \o d2
  BY <1>1
<1>3. LinePartOf(d1, d)
  BY <1>2 DEF LinePartOf
<1>4. OneLine(d1)
  BY <1>3, PartIsOne
<1>5. PICK none : none = <<>>
  OBVIOUS
<1>6. none \in Seq(Symbol)
  BY <1>5
<1>7. FrameReads(Frame((<<h>> \o (d1 \o t)) \o none, ended), h, d1, t, none, ended)
  BY <1>4, <1>5, <1>6, FrameIs
<1>8. c \o <<>> = c
  BY ConcatEmptySeq
<1>9. FrameReads(Frame(c, ended), h, d1, t, <<>>, ended)
  BY <1>2, <1>5, <1>7, <1>8
<1> QED
  BY <1>2, <1>3, <1>9

\* Of a line that has not arrived to its end what there is is read once nothing more comes.
LEMMA InlineCut ==
  ASSUME NEW h, h = <<"+">>, NEW d \in Seq(Symbol), OneLine(d), NEW c \in Seq(Symbol),
         NEW x \in Seq(Symbol), x # <<>>, c \o x = <<h>> \o (d \o EOL), NEW ended \in BOOLEAN
  PROVE  \/ Parse(c, ended) = NoMore(ended)
         \/ ended /\ \E d1 : LinePartOf(d1, d) /\ Parse(c, ended) = Read(Str(d1), <<>>)
<1>1. h \in Symbol /\ h[1] = "+"
  BY Symbols
<1>2. h # LF
  BY DEF LF
<1>3. NoMore(ended)[1] # "value"
  BY DEF NoMore, Gone, Wait
<1>4. ASSUME Frame(c, ended) = NoMore(ended) PROVE Parse(c, ended) = NoMore(ended)
  BY <1>3, <1>4, ParseStop
<1>5. CASE c = <<>>
  BY <1>4, <1>5, FrameOfNothing DEF NoMore
<1>6. CASE c # <<>>
  <2>1. CutLine(c, h, d)
    BY <1>1, <1>6, LineParts
  <2>2. PICK d1 : LinePartOf(d1, d)
                  /\ \E t \in Ends : t # EOL /\ FrameReads(Frame(c, ended), h, d1, t, <<>>, ended)
    BY <1>1, <1>2, <1>6, <2>1, FrameCut
  <2>3. PICK t \in Ends : t # EOL /\ FrameReads(Frame(c, ended), h, d1, t, <<>>, ended)
    BY <2>2
  <2>4. (~ended => Frame(c, ended) = Wait) /\ (ended => Frame(c, ended) = Read(Str(d1), <<>>))
    BY <1>1, <2>3 DEF FrameReads
  <2>5. CASE ~ended
    BY <1>4, <2>4, <2>5 DEF NoMore
  <2>6. CASE ended
    <3>1. Str(d1)[1] # "opening"
      BY DEF Str
    <3>2. PICK none : none = <<>>
      OBVIOUS
    <3>3. IsRest(none, c, Symbol)
      BY <3>2, RestNothing
    <3> DEFINE v == Str(d1)
    <3>4. Parse(c, ended) = Read(v, none)
      <4>1. Frame(c, ended) = Read(v, none) /\ v[1] # "opening"
        BY <2>4, <2>6, <3>1, <3>2
      <4> HIDE DEF v
      <4> QED
        BY <3>3, <4>1, ParseOne
    <3> QED
      BY <2>2, <2>6, <3>2, <3>4
  <2> QED
    BY <2>5, <2>6
<1> QED
  BY <1>5, <1>6

\* What is no command, and the frame that it is.
NoCommand(h) == h \in {<<":", 5>>, <<"*", -1>>, <<"?">>, <<"$", -3>>}

NoCommandReads(h, f, r) ==
  /\ h = <<":", 5>> => f = Read(Number(5), r)
  /\ h = <<"*", -1>> => f = Read(Null, r)
  /\ h = <<"?">> \/ h = <<"$", -3>> => f = Error

\* The four symbols are symbols, and what they hold.
LEMMA NoCommandSymbol ==
  ASSUME NEW h, NoCommand(h)
  PROVE  /\ h \in Symbol /\ h # LF
         /\ h = <<":", 5>> => h[1] = ":" /\ h[2] = 5 /\ Len(h) = 2
         /\ h = <<"*", -1>> => h[1] = "*" /\ h[2] = -1 /\ Len(h) = 2
         /\ h = <<"?">> => h[1] = "?"
         /\ h = <<"$", -3>> => h[1] = "$" /\ h[2] = -3 /\ Len(h) = 2
<1>1. h \in Symbol
  <2>1. 5 \in Int /\ -1 \in Int /\ -3 \in Int
    OBVIOUS
  <2>2. <<":", 5>> \in Symbol /\ <<"*", -1>> \in Symbol /\ <<"$", -3>> \in Symbol
    BY <2>1, Symbols
  <2> QED
    BY <2>2, Symbols DEF NoCommand
<1> QED
  BY <1>1 DEF NoCommand, LF

\* What a frame reads of them.
LEMMA NoCommandFrame ==
  ASSUME NEW h, NoCommand(h), NEW t \in Ends, NEW r \in Seq(Symbol), NEW ended \in BOOLEAN,
         t = EOL \/ ended, NEW f, FrameReads(f, h, <<>>, t, r, ended)
  PROVE  NoCommandReads(h, f, r)
<1>1. CASE h = <<":", 5>>
  <2>1. h[1] = ":" /\ h[2] = 5 /\ Len(h) = 2
    BY <1>1
  <2>2. f = Read(Number(5), r)
    BY <2>1 DEF FrameReads
  <2> QED
    BY <1>1, <2>2 DEF NoCommandReads
<1>2. CASE h = <<"*", -1>>
  <2>1. h[1] = "*" /\ h[2] = -1 /\ Len(h) = 2
    BY <1>2
  <2>2. f = Read(Null, r)
    BY <2>1 DEF FrameReads
  <2> QED
    BY <1>2, <2>2 DEF NoCommandReads
<1>3. CASE h = <<"?">>
  <2>1. h[1] = "?"
    BY <1>3
  <2>2. f = Error
    BY <2>1 DEF FrameReads
  <2> QED
    BY <1>3, <2>2 DEF NoCommandReads
<1>4. CASE h = <<"$", -3>>
  <2>1. h[1] = "$" /\ h[2] = -3 /\ Len(h) = 2
    BY <1>4
  <2>2. f = Bulk(-3, r, ended)
    BY <2>1 DEF FrameReads
  <2>3. f = Error
    BY <2>2 DEF Bulk
  <2> QED
    BY <1>4, <2>3 DEF NoCommandReads
<1> QED
  BY <1>1, <1>2, <1>3, <1>4 DEF NoCommand

\* What its frame reads is what is read.
LEMMA NoCommandParse ==
  ASSUME NEW h, NoCommand(h), NEW buf, NEW r, IsRest(r, buf, Symbol), NEW ended \in BOOLEAN,
         NoCommandReads(h, Frame(buf, ended), r)
  PROVE  NoCommandReads(h, Parse(buf, ended), r)
<1>1. buf \in Seq(Symbol)
  BY DEF IsRest
<1>2. ASSUME NEW v, v[1] # "opening", Frame(buf, ended) = Read(v, r)
      PROVE  Parse(buf, ended) = Read(v, r)
  BY <1>1, <1>2, ParseOne
<1>3. h = <<":", 5>> => Parse(buf, ended) = Read(Number(5), r)
  <2> SUFFICES ASSUME h = <<":", 5>> PROVE Parse(buf, ended) = Read(Number(5), r)
    OBVIOUS
  <2> DEFINE v == Number(5)
  <2>1. v[1] # "opening" /\ Frame(buf, ended) = Read(v, r)
    BY DEF Number, NoCommandReads
  <2> HIDE DEF v
  <2>2. Parse(buf, ended) = Read(v, r)
    BY <1>2, <2>1
  <2> QED
    BY <2>2 DEF v
<1>4. h = <<"*", -1>> => Parse(buf, ended) = Read(Null, r)
  <2> SUFFICES ASSUME h = <<"*", -1>> PROVE Parse(buf, ended) = Read(Null, r)
    OBVIOUS
  <2>1. Null[1] # "opening" /\ Frame(buf, ended) = Read(Null, r)
    BY DEF Null, NoCommandReads
  <2> QED
    BY <1>2, <2>1
<1>5. h = <<"?">> \/ h = <<"$", -3>> => Parse(buf, ended) = Error
  <2> SUFFICES ASSUME h = <<"?">> \/ h = <<"$", -3>> PROVE Parse(buf, ended) = Error
    OBVIOUS
  <2>1. Frame(buf, ended) = Error
    BY DEF NoCommandReads
  <2>2. Frame(buf, ended)[1] # "value"
    BY <2>1 DEF Error
  <2> QED
    BY <1>1, <2>1, <2>2, ParseStop
<1> QED
  BY <1>3, <1>4, <1>5 DEF NoCommandReads

\* What is no command, once it has arrived to its end.
LEMMA NoCommandWhole ==
  ASSUME NEW h, NoCommand(h), NEW r \in Seq(Symbol), NEW ended \in BOOLEAN
  PROVE  NoCommandReads(h, Parse((<<h>> \o (<<>> \o EOL)) \o r, ended), r)
<1> DEFINE l == <<h>> \o (<<>> \o EOL)
           buf == l \o r
<1>1. h \in Symbol /\ h # LF
  BY NoCommandSymbol
<1>2. <<>> \in Seq(Symbol) /\ OneLine(<<>>) /\ EOL \in Ends /\ EOL \in Seq(Symbol)
  BY NoLine, Symbols
<1>3. l \in Seq(Symbol)
  <2>1. <<h>> \in Seq(Symbol)
    BY <1>1
  <2>2. <<>> \o EOL \in Seq(Symbol)
    BY <1>2, ConcatProperties
  <2> QED
    BY <2>1, <2>2, ConcatProperties
<1>4. FrameReads(Frame((<<h>> \o (<<>> \o EOL)) \o r, ended), h, <<>>, EOL, r, ended)
  BY <1>1, <1>2, FrameIs
<1> DEFINE f == Frame(buf, ended)
<1>5. FrameReads(f, h, <<>>, EOL, r, ended)
  BY <1>4
<1> HIDE DEF f
<1>6. NoCommandReads(h, f, r)
  BY <1>2, <1>5, NoCommandFrame
<1> HIDE DEF l
<1>7. IsRest(r, buf, Symbol)
  BY <1>3, RestIs
<1> HIDE DEF buf
<1>8. NoCommandReads(h, Parse(buf, ended), r)
  BY <1>6, <1>7, NoCommandParse DEF f
<1> QED
  BY <1>8 DEF buf, l

\* And before that, or if the end never comes.
LEMMA NoCommandCut ==
  ASSUME NEW h, NoCommand(h), NEW c \in Seq(Symbol), NEW x \in Seq(Symbol), x # <<>>,
         c \o x = <<h>> \o (<<>> \o EOL), NEW ended \in BOOLEAN
  PROVE  \/ Parse(c, ended) = NoMore(ended)
         \/ ended /\ NoCommandReads(h, Parse(c, ended), <<>>)
<1>1. h \in Symbol /\ h # LF
  BY NoCommandSymbol
<1>2. NoMore(ended)[1] # "value"
  BY DEF NoMore, Gone, Wait
<1>3. ASSUME Frame(c, ended) = NoMore(ended) PROVE Parse(c, ended) = NoMore(ended)
  BY <1>2, <1>3, ParseStop
<1>4. CASE c = <<>>
  BY <1>3, <1>4, FrameOfNothing DEF NoMore
<1>5. CASE c # <<>>
  <2>1. PICK none : none = <<>>
    OBVIOUS
  <2>2. none \in Seq(Symbol) /\ OneLine(none) /\ c \o x = <<h>> \o (none \o EOL)
    BY <2>1, NoLine
  <2>3. CutLine(c, h, none)
    BY <1>1, <1>5, <2>2, LineParts
  <2>4. PICK d1 : LinePartOf(d1, none)
                  /\ \E t \in Ends : t # EOL /\ FrameReads(Frame(c, ended), h, d1, t, <<>>, ended)
    BY <1>1, <1>5, <2>2, <2>3, FrameCut
  <2>5. d1 = <<>>
    <3>1. PICK d2 \in Seq(Symbol) : d1 \in Seq(Symbol) /\ none = d1 \o d2
      BY <2>4 DEF LinePartOf
    <3>2. Joins(d1, d2, Symbol)
      BY <3>1, Joined
    <3>3. Len(d1) = 0
      <4>1. Len(none) = 0
        BY <2>1, NoLine
      <4>2. Len(d1 \o d2) = 0
        BY <3>1, <4>1
      <4> QED
        BY <3>2, <4>2 DEF Joins
    <3> QED
      BY <3>1, <3>3, EmptySeq
  <2>6. PICK t \in Ends : t # EOL /\ FrameReads(Frame(c, ended), h, <<>>, t, <<>>, ended)
    BY <2>4, <2>5
  <2>7. CASE ~ended
    <3>1. Frame(c, ended) = Wait
      BY <2>6, <2>7 DEF FrameReads
    <3> QED
      BY <1>3, <2>7, <3>1 DEF NoMore
  <2>8. CASE ended
    <3> DEFINE f == Frame(c, ended)
    <3>1. FrameReads(f, h, <<>>, t, none, ended)
      BY <2>1, <2>6
    <3> HIDE DEF f
    <3>2. NoCommandReads(h, f, none)
      BY <2>2, <2>8, <3>1, NoCommandFrame
    <3>3. IsRest(none, c, Symbol)
      BY <2>1, RestNothing
    <3>4. NoCommandReads(h, Parse(c, ended), none)
      BY <3>2, <3>3, NoCommandParse DEF f
    <3> QED
      BY <2>1, <2>8, <3>4
  <2> QED
    BY <2>7, <2>8
<1> QED
  BY <1>4, <1>5

-----------------------------------------------------------------------------
\* Commands: of strings, but for a number.
Cmds == Seq(Strings \cup {Number(5)})

\* What is read as a command.
ReadAsCommand(out) == out[1] = "value" /\ out[2] # Null /\ Normalised(out[2]) \in Cmds

\* What becomes of a command that has arrived, with r after it.
WholeRead(k, out, r) ==
  \/ ReadAsCommand(out) /\ out[3] = r /\ Normalised(out[2]) = k.cmd
  \/ k.kind = "raw" /\ (out = Error \/ out = Read(Null, r))

\* And of one that has not arrived to its end.
CutRead(k, out, ended) ==
  \/ out = NoMore(ended)
  \/ /\ ended /\ ReadAsCommand(out) /\ out[3] = <<>>
     /\ \/ Normalised(out[2]) = k.cmd
        \/ k.kind = "inline" /\ IsPrefix(Text(Normalised(out[2])), Text(k.cmd))
  \/ ended /\ k.kind = "raw" /\ (out = Error \/ out = Read(Null, <<>>))

\* The three forms of a command.
IsArray(k, words) ==
  /\ words \in Seq(Seq(Symbol))
  /\ k.kind = "array" /\ k.cmd = Strs(words)
  /\ k.wire = Header("*", Len(words)) \o FlattenSeq(Bulks(words))
  /\ k.wire \in Seq(Symbol)

IsInline(k, d) ==
  /\ d \in Seq(Symbol) /\ OneLine(d)
  /\ k.kind = "inline" /\ k.cmd = Split(d)
  /\ k.wire = <<<<"+">>>> \o (d \o EOL)
  /\ k.wire \in Seq(Symbol)

IsRaw(k, h) ==
  /\ NoCommand(h)
  /\ k.kind = "raw" /\ k.wire = <<h>> \o (<<>> \o EOL)
  /\ h = <<":", 5>> => k.cmd = <<Number(5)>>
  /\ k.wire \in Seq(Symbol)

\* A line is written from its parts.
LEMMA LineWire ==
  ASSUME NEW h \in Symbol, NEW d \in Seq(Symbol)
  PROVE  (<<h>> \o d) \o EOL = <<h>> \o (d \o EOL) /\ <<h>> \o (d \o EOL) \in Seq(Symbol)
<1>1. <<h>> \in Seq(Symbol) /\ EOL \in Seq(Symbol)
  BY Symbols
<1>2. Regroups(<<h>>, d, EOL, Symbol) /\ d \o EOL \in Seq(Symbol)
  BY <1>1, Regrouped, ConcatProperties
<1>3. <<h>> \o (d \o EOL) \in Seq(Symbol)
  BY <1>1, <1>2, ConcatProperties
<1> QED
  BY <1>2, <1>3 DEF Regroups

\* Every command has one of these forms, on the wire too.
LEMMA CommandForms ==
  ASSUME NEW k \in Commands
  PROVE  \/ \E words : IsArray(k, words)
         \/ \E d : IsInline(k, d)
         \/ \E h : IsRaw(k, h)
<1>1. ASSUME NEW words \in Arrays, k = Sent(words) PROVE IsArray(k, words)
  <2>1. words \in Seq(Seq(Symbol))
    BY RespAssumption
  <2>2. k.kind = "array" /\ k.cmd = Strs(words)
        /\ k.wire = Header("*", Len(words)) \o FlattenSeq(Bulks(words))
    BY <1>1 DEF Sent, Strs, Bulks
  <2>3. Header("*", Len(words)) \o FlattenSeq(Bulks(words)) \in Seq(Symbol)
    <3>1. Len(words) \in Nat /\ FlattenSeq(Bulks(words)) \in Seq(Symbol)
      BY <2>1, BulksType, FlattenType
    <3>2. Len(words) \in Int
      BY <3>1
    <3> DEFINE n == Len(words)
               l == Header("*", n)
    <3> HIDE DEF n
    <3>3. IsHeader(l, <<"*", n>>, "*", n)
      BY <3>2, HeaderIs DEF n
    <3> HIDE DEF l
    <3>4. l \in Seq(Symbol)
      BY <3>3 DEF IsHeader
    <3> QED
      BY <3>1, <3>4, ConcatProperties DEF l, n
  <2> QED
    BY <2>1, <2>2, <2>3 DEF IsArray
<1>2. ASSUME NEW words \in Lines, k = Inline(words) PROVE \E d : IsInline(k, d)
  <2> DEFINE d == FlattenSeq(Spaced(words))
             h == <<"+">>
  <2>1. IsLine(words)
    <3>1. /\ words \in Seq(Seq(Symbol))
          /\ \A i \in DOMAIN words : words[i] # <<>> /\ Range(words[i]) \cap {SP, CR, LF} = {}
      BY RespAssumption
    <3>2. ASSUME NEW i \in 1 .. Len(words) PROVE IsWord(words[i])
      <4>1. words[i] \in Seq(Symbol) /\ words[i] # <<>> /\ Range(words[i]) \cap {SP, CR, LF} = {}
        BY <3>1
      <4>2. \A j \in 1 .. Len(words[i]) : words[i][j] \in Range(words[i])
        BY <4>1 DEF Range
      <4> QED
        BY <4>1, <4>2 DEF IsWord
    <3> QED
      BY <3>1, <3>2 DEF IsLine
  <2>2. d \in Seq(Symbol) /\ OneLine(d) /\ Split(d) = Strs(words)
    BY <2>1, LineIsOne, LineSplit
  <2>3. k.kind = "inline" /\ k.cmd = Strs(words) /\ k.wire = (<<h>> \o d) \o EOL
    BY <1>2 DEF Inline, Strs, Spaced
  <2>4. h \in Symbol
    BY Symbols
  <2> HIDE DEF d, h
  <2>5. k.wire = <<h>> \o (d \o EOL) /\ k.wire \in Seq(Symbol)
    BY <2>2, <2>3, <2>4, LineWire
  <2>6. k.wire = <<<<"+">>>> \o (d \o EOL)
    BY <2>5 DEF h
  <2>7. IsInline(k, d)
    BY <2>2, <2>3, <2>5, <2>6 DEF IsInline
  <2> QED
    BY <2>7
<1>3. ASSUME NEW h, NEW cmd, NoCommand(h), h = <<":", 5>> => cmd = <<Number(5)>>, k = Raw(h, cmd)
      PROVE  IsRaw(k, h)
  <2>1. k.kind = "raw" /\ k.cmd = cmd /\ k.wire = <<h>> \o EOL
    BY <1>3 DEF Raw
  <2>2. h \in Symbol /\ <<>> \in Seq(Symbol)
    BY <1>3, NoCommandSymbol, NoLine
  <2>3. <<>> \o EOL = EOL
    BY Symbols, ConcatEmptySeq
  <2>4. <<h>> \o (<<>> \o EOL) \in Seq(Symbol)
    BY <2>2, LineWire
  <2> QED
    BY <1>3, <2>1, <2>3, <2>4 DEF IsRaw
<1>4. ASSUME k \in NoCommands PROVE \E h : IsRaw(k, h)
  <2>1. k = Raw(<<":", 5>>, <<Number(5)>>) => \E h : IsRaw(k, h)
    <3>1. NoCommand(<<":", 5>>)
      BY DEF NoCommand
    <3> QED
      BY <1>3, <3>1
  <2>2. ASSUME NEW h \in {<<"*", -1>>, <<"?">>, <<"$", -3>>}, k = Raw(h, <<>>) PROVE IsRaw(k, h)
    <3>1. NoCommand(h) /\ h # <<":", 5>>
      BY DEF NoCommand
    <3> QED
      BY <1>3, <2>2, <3>1
  <2> QED
    BY <1>4, <2>1, <2>2 DEF NoCommands
<1> QED
  BY <1>1, <1>2, <1>4 DEF Commands

\* What the three kinds of values are as commands.
LEMMA NormalisedIs ==
  /\ \A s : Normalised(List(s)) = s /\ List(s) # Null
  /\ \A d : Normalised(Str(d)) = Split(d) /\ Str(d) # Null
  /\ \A n : Normalised(Number(n)) = <<Number(n)>> /\ Number(n) # Null
<1>1. ASSUME NEW s PROVE Normalised(List(s)) = s /\ List(s) # Null
  BY DEF Normalised, List, Null
<1>2. ASSUME NEW d PROVE Normalised(Str(d)) = Split(d) /\ Str(d) # Null
  BY DEF Normalised, Str, Null
<1>3. ASSUME NEW n PROVE Normalised(Number(n)) = <<Number(n)>> /\ Number(n) # Null
  BY DEF Normalised, Number, Null
<1> QED
  BY <1>1, <1>2, <1>3

\* A text is split into strings.
LEMMA SplitType ==
  ASSUME NEW d \in Seq(Symbol)
  PROVE  Split(d) \in Seq(Strings)
<1> DEFINE w == Splitting(d)[Len(d)].words
<1>1. Len(d) \in 0 .. Len(d)
  BY LenProperties
<1>2. w \in Seq(Seq(Symbol))
  BY <1>1, SplittingType DEF SplitState
<1>3. Split(d) = Strs(w)
  BY DEF Split, Strs
<1> HIDE DEF w
<1> QED
  BY <1>2, <1>3, BulksType

\* Commands of strings, and the number.
LEMMA CmdsAre == Seq(Strings) \subseteq Cmds /\ <<Number(5)>> \in Cmds
<1>1. \A s \in Seq(Strings) : s \in Cmds
  BY DEF Cmds
<1>2. <<Number(5)>> \in Cmds
  BY DEF Cmds
<1> QED
  BY <1>1, <1>2

\* What a read holds.
LEMMA ReadHolds ==
  \A v, r : Read(v, r)[1] = "value" /\ Read(v, r)[2] = v /\ Read(v, r)[3] = r
BY DEF Read

\* What is read of what is no command.
LEMMA NoCommandValue ==
  ASSUME NEW k, NEW h, IsRaw(k, h), NEW out, NEW r, NoCommandReads(h, out, r)
  PROVE  \/ out = Read(Number(5), r) /\ Normalised(Number(5)) = k.cmd
         \/ out = Error
         \/ out = Read(Null, r)
BY NormalisedIs DEF IsRaw, NoCommand, NoCommandReads

\* A command that has arrived is read as it was sent, and no further.
LEMMA CommandWhole ==
  ASSUME NEW k \in Commands, NEW r \in Seq(Symbol), NEW ended \in BOOLEAN
  PROVE  WholeRead(k, Parse(k.wire \o r, ended), r)
<1> DEFINE out == Parse(k.wire \o r, ended)
<1>1. ASSUME NEW words, IsArray(k, words) PROVE WholeRead(k, out, r)
  <2>1. words \in Seq(Seq(Symbol)) /\ k.wire = Header("*", Len(words)) \o FlattenSeq(Bulks(words))
    BY <1>1 DEF IsArray
  <2>2. Parse((Header("*", Len(words)) \o FlattenSeq(Bulks(words))) \o r, ended)
          = Read(List(Strs(words)), r)
    BY <2>1, ArrayWhole
  <2>3. out = Read(List(Strs(words)), r)
    BY <2>1, <2>2
  <2>4. Strs(words) \in Cmds
    BY <2>1, BulksType, CmdsAre
  <2> HIDE DEF out
  <2> QED
    BY <1>1, <2>3, <2>4, NormalisedIs, ReadHolds DEF WholeRead, ReadAsCommand, IsArray
<1>2. ASSUME NEW d, IsInline(k, d) PROVE WholeRead(k, out, r)
  <2> DEFINE h == <<"+">>
  <2>1. d \in Seq(Symbol) /\ OneLine(d) /\ k.wire = <<h>> \o (d \o EOL)
    BY <1>2 DEF IsInline
  <2>2. h = <<"+">>
    OBVIOUS
  <2> HIDE DEF h
  <2>3. Parse((<<h>> \o (d \o EOL)) \o r, ended) = Read(Str(d), r)
    BY <2>1, <2>2, InlineWhole
  <2>4. out = Read(Str(d), r)
    BY <2>1, <2>3
  <2>5. Split(d) \in Cmds
    BY <2>1, SplitType, CmdsAre
  <2> HIDE DEF out
  <2> QED
    BY <1>2, <2>4, <2>5, NormalisedIs, ReadHolds DEF WholeRead, ReadAsCommand, IsInline
<1>3. ASSUME NEW h, IsRaw(k, h) PROVE WholeRead(k, out, r)
  <2>1. NoCommand(h) /\ k.wire = <<h>> \o (<<>> \o EOL) /\ k.kind = "raw"
    BY <1>3 DEF IsRaw
  <2>2. NoCommandReads(h, Parse((<<h>> \o (<<>> \o EOL)) \o r, ended), r)
    BY <2>1, NoCommandWhole
  <2>3. NoCommandReads(h, out, r)
    BY <2>1, <2>2
  <2> HIDE DEF out
  <2>4. \/ out = Read(Number(5), r) /\ Normalised(Number(5)) = k.cmd
        \/ out = Error
        \/ out = Read(Null, r)
    BY <1>3, <2>3, NoCommandValue
  <2> QED
    BY <2>1, <2>4, NormalisedIs, CmdsAre, ReadHolds DEF WholeRead, ReadAsCommand
<1> QED
  BY <1>1, <1>2, <1>3, CommandForms

\* Of a command that has not arrived to its end nothing is read, unless the rest
\* will never come.
LEMMA CommandCut ==
  ASSUME NEW k \in Commands, NEW c \in Seq(Symbol), NEW x \in Seq(Symbol), x # <<>>,
         c \o x = k.wire, NEW ended \in BOOLEAN
  PROVE  CutRead(k, Parse(c, ended), ended)
<1> DEFINE out == Parse(c, ended)
<1>1. ASSUME NEW words, IsArray(k, words) PROVE CutRead(k, out, ended)
  <2>1. words \in Seq(Seq(Symbol)) /\ c \o x = Header("*", Len(words)) \o FlattenSeq(Bulks(words))
    BY <1>1 DEF IsArray
  <2>2. \/ out = NoMore(ended)
        \/ ended /\ words = <<>> /\ out = Read(List(<<>>), <<>>)
    BY <2>1, ArrayCut
  <2>3. ASSUME words = <<>> PROVE k.cmd = <<>>
    <3>1. Strs(words) \in Seq(Strings) /\ Len(Strs(words)) = Len(words)
      BY <2>1, BulksType
    <3>2. Len(words) = 0
      BY <2>3, NoLine
    <3>3. Strs(words) = <<>>
      BY <3>1, <3>2, EmptySeq
    <3> QED
      BY <1>1, <3>3 DEF IsArray
  <2>4. <<>> \in Cmds
    BY CmdsAre, EmptySeq
  <2> HIDE DEF out
  <2> QED
    BY <2>2, <2>3, <2>4, NormalisedIs, ReadHolds DEF CutRead, ReadAsCommand
<1>2. ASSUME NEW d, IsInline(k, d) PROVE CutRead(k, out, ended)
  <2> DEFINE h == <<"+">>
  <2>1. d \in Seq(Symbol) /\ OneLine(d) /\ c \o x = <<h>> \o (d \o EOL)
    BY <1>2 DEF IsInline
  <2>2. h = <<"+">>
    OBVIOUS
  <2> HIDE DEF h
  <2>3. \/ out = NoMore(ended)
        \/ ended /\ \E d1 : LinePartOf(d1, d) /\ out = Read(Str(d1), <<>>)
    BY <2>1, <2>2, InlineCut
  <2>4. ASSUME NEW d1, LinePartOf(d1, d) PROVE IsPrefix(Text(Split(d1)), Text(k.cmd))
    <3>1. PICK d2 \in Seq(Symbol) : d1 \in Seq(Symbol) /\ d = d1 \o d2
      BY <2>4 DEF LinePartOf
    <3>2. IsPrefix(Text(Split(d1)), Text(Split(d1 \o d2)))
      BY <3>1, SplitPrefix
    <3>3. k.cmd = Split(d1 \o d2)
      BY <1>2, <3>1 DEF IsInline
    <3> QED
      BY <3>2, <3>3
  <2>5. k.kind = "inline"
    BY <1>2 DEF IsInline
  <2> HIDE DEF out
  <2>6. ASSUME NEW d1, LinePartOf(d1, d), ended, out = Read(Str(d1), <<>>) PROVE CutRead(k, out, ended)
    <3>1. IsPrefix(Text(Normalised(Str(d1))), Text(k.cmd)) /\ Str(d1) # Null
      BY <2>4, <2>6, NormalisedIs
    <3>2. out[1] = "value" /\ out[2] = Str(d1) /\ out[3] = <<>>
      BY <2>6, ReadHolds
    <3>3. Normalised(Str(d1)) \in Cmds
      BY <2>6, NormalisedIs, SplitType, CmdsAre DEF LinePartOf
    <3> QED
      BY <2>5, <2>6, <3>1, <3>2, <3>3 DEF CutRead, ReadAsCommand
  <2>7. out = NoMore(ended) => CutRead(k, out, ended)
    BY DEF CutRead
  <2> QED
    BY <2>3, <2>6, <2>7
<1>3. ASSUME NEW h, IsRaw(k, h) PROVE CutRead(k, out, ended)
  <2>1. NoCommand(h) /\ c \o x = <<h>> \o (<<>> \o EOL) /\ k.kind = "raw"
    BY <1>3 DEF IsRaw
  <2>2. \/ out = NoMore(ended)
        \/ ended /\ NoCommandReads(h, out, <<>>)
    BY <2>1, NoCommandCut
  <2> HIDE DEF out
  <2>3. PICK none : none = <<>>
    OBVIOUS
  <2>4. ASSUME NoCommandReads(h, out, none)
        PROVE  \/ out = Read(Number(5), none) /\ Normalised(Number(5)) = k.cmd
               \/ out = Error
               \/ out = Read(Null, none)
    BY <1>3, <2>4, NoCommandValue
  <2> QED
    BY <2>1, <2>2, <2>3, <2>4, NormalisedIs, CmdsAre, ReadHolds DEF CutRead, ReadAsCommand
<1> QED
  BY <1>1, <1>2, <1>3, CommandForms

\* What is sent is symbols.
LEMMA WireType ==
  ASSUME NEW k \in Commands
  PROVE  k.wire \in Seq(Symbol)
BY CommandForms DEF IsArray, IsInline, IsRaw

\* What is not raw is words.
LEMMA NotRaw ==
  ASSUME NEW k \in Commands, k.kind # "raw"
  PROVE  k.cmd \in Seq(Strings)
<1>1. ASSUME NEW words, IsArray(k, words) PROVE k.cmd \in Seq(Strings)
  BY <1>1, BulksType DEF IsArray
<1>2. ASSUME NEW d, IsInline(k, d) PROVE k.cmd \in Seq(Strings)
  BY <1>2, SplitType DEF IsInline
<1> QED
  BY <1>1, <1>2, CommandForms DEF IsRaw

\* And dispatch does not raise for it.
LEMMA NotBroken ==
  ASSUME NEW cmd \in Seq(Strings), cmd # <<>>
  PROVE  ~Broken(cmd)
<1>1. 1 \in 1 .. Len(cmd)
  BY EmptySeq, LenProperties
<1>2. cmd[1] \in Strings
  BY <1>1, ElementOfSeq
<1> QED
  BY <1>2 DEF Broken, Strings, Str

-----------------------------------------------------------------------------
(* The stream                                                             *)

\* What has arrived and what is on its way are what is left of what was sent: all
\* of it, until the client is gone.
Follows(a, b, ended) == a \in Seq(Symbol) /\ IsPrefix(a, b) /\ (~ended => a = b)

\* A prefix, and what it is a prefix of.
LEMMA PrefixExtends ==
  ASSUME NEW a \in Seq(Symbol), NEW b \in Seq(Symbol), IsPrefix(a, b)
  PROVE  Extends(b, a, Symbol)
<1>1. Len(a) \in 0 .. Len(b) /\ SubSeq(a, 1, Len(a)) = a
  BY LenProperties, SubSeqFull DEF IsPrefix
<1>2. SubSeq(b, 1, Len(a)) = a
  BY <1>1 DEF IsPrefix
<1> DEFINE n == Len(a)
<1>3. SubSeq(b, 1, n) \o After(b, n) = b /\ After(b, n) \in Seq(Symbol)
  <2>1. n \in 0 .. Len(b)
    BY <1>1
  <2> HIDE DEF n
  <2> QED
    BY <2>1, AfterParts
<1> QED
  BY <1>2, <1>3 DEF Extends

\* And the other way round.
LEMMA ExtendsPrefix ==
  ASSUME NEW a \in Seq(Symbol), NEW r \in Seq(Symbol)
  PROVE  IsPrefix(a, a \o r)
<1>1. SubSeq(a \o r, 1, Len(a)) = a /\ SubSeq(a, 1, Len(a)) = a
  BY AfterConcat, SubSeqFull
<1>2. Len(a) <= Len(a \o r)
  <2>1. Joins(a, r, Symbol)
    BY Joined
  <2> QED
    BY <2>1 DEF Joins
<1> QED
  BY <1>1, <1>2 DEF IsPrefix

\* Nothing follows anything once the client is gone.
LEMMA NothingFollows ==
  ASSUME NEW b \in Seq(Symbol)
  PROVE  Follows(<<>>, b, TRUE)
<1>1. <<>> \in Seq(Symbol) /\ <<>> \o b = b
  BY ConcatEmptySeq
<1>2. IsPrefix(<<>>, <<>> \o b)
  BY <1>1, ExtendsPrefix
<1> QED
  BY <1>1, <1>2 DEF Follows

\* What becomes of a read when the next command is k and b follows it.
Outcome(k, out, nt, b, ended) ==
  \/ out = NoMore(ended) /\ (ended \/ nt # <<>>)
  \/ /\ ReadAsCommand(out) /\ out[3] \in Seq(Symbol)
     /\ Normalised(out[2]) = k.cmd /\ Follows(out[3] \o nt, b, ended)
  \/ /\ ReadAsCommand(out) /\ ended /\ out[3] = <<>>
     /\ k.kind = "inline" /\ IsPrefix(Text(Normalised(out[2])), Text(k.cmd))
  \/ k.kind = "raw" /\ (out = Error \/ (out[1] = "value" /\ out[2] = Null))

\* How the next command stands in what has arrived: to its end, or not.
Arrived(w, inb, nt, b, ended) ==
  \/ \E e \in Seq(Symbol) : inb = w \o e /\ Follows(e \o nt, b, ended)
  \/ (ended \/ nt # <<>>) /\ \E x \in Seq(Symbol) : x # <<>> /\ inb \o x = w

\* What follows the same text is the same.
LEMMA SameFollows ==
  ASSUME NEW w \in Seq(Symbol), NEW c \in Seq(Symbol), NEW b \in Seq(Symbol), w \o c = w \o b
  PROVE  c = b
<1>1. After(w \o c, Len(w)) = c /\ After(w \o b, Len(w)) = b
  BY AfterConcat
<1> QED
  BY <1>1

\* What follows a command that has arrived.
LEMMA ArrivedWhole ==
  ASSUME NEW w \in Seq(Symbol), NEW e \in Seq(Symbol), NEW nt \in Seq(Symbol), NEW b \in Seq(Symbol),
         NEW ended \in BOOLEAN, Follows((w \o e) \o nt, w \o b, ended)
  PROVE  Follows(e \o nt, b, ended)
<1> DEFINE c == e \o nt
           d == w \o b
<1>1. Regroups(w, e, nt, Symbol) /\ c \in Seq(Symbol) /\ d \in Seq(Symbol)
  BY Regrouped, ConcatProperties
<1>2. (w \o e) \o nt = w \o c
  BY <1>1 DEF Regroups
<1> HIDE DEF c
<1>3. w \o c \in Seq(Symbol) /\ IsPrefix(w \o c, d) /\ (~ended => w \o c = w \o b)
  BY <1>2 DEF Follows
<1>4. ~ended => c = b
  BY <1>1, <1>3, SameFollows
<1>5. IsPrefix(c, b)
  <2> HIDE DEF d
  <2>1. Extends(d, w \o c, Symbol)
    BY <1>1, <1>3, PrefixExtends
  <2>2. PICK r \in Seq(Symbol) : d = (w \o c) \o r
    BY <2>1 DEF Extends
  <2>3. Regroups(w, c, r, Symbol)
    BY <1>1, Regrouped
  <2>4. w \o (c \o r) = w \o b /\ c \o r \in Seq(Symbol)
    BY <2>2, <2>3 DEF Regroups, d
  <2>5. c \o r = b
    BY <2>4, SameFollows
  <2>6. IsPrefix(c, c \o r)
    BY <1>1, ExtendsPrefix
  <2> QED
    BY <2>5, <2>6
<1> QED
  BY <1>1, <1>4, <1>5 DEF Follows, c

\* One of the two holds.
LEMMA ArrivedIs ==
  ASSUME NEW w \in Seq(Symbol), NEW inb \in Seq(Symbol), NEW nt \in Seq(Symbol), NEW b \in Seq(Symbol),
         NEW ended \in BOOLEAN, Follows(inb \o nt, w \o b, ended)
  PROVE  Arrived(w, inb, nt, b, ended)
<1> DEFINE d == w \o b
           a == inb \o nt
<1>1. a \in Seq(Symbol) /\ d \in Seq(Symbol) /\ IsPrefix(a, d) /\ (~ended => a = d)
  BY ConcatProperties DEF Follows
<1>2. PICK r \in Seq(Symbol) : d = a \o r
  <2> HIDE DEF a, d
  <2>1. Extends(d, a, Symbol)
    BY <1>1, PrefixExtends
  <2> QED
    BY <2>1 DEF Extends
<1>3. Regroups(inb, nt, r, Symbol)
  BY Regrouped
<1> DEFINE y == nt \o r
<1>4. w \o b = inb \o y /\ y \in Seq(Symbol)
  BY <1>2, <1>3 DEF Regroups
<1>5. Len(w) \in Nat /\ Len(inb) \in Nat
  BY LenProperties
<1> HIDE DEF y, a, d
<1>6. CASE Len(w) <= Len(inb)
  <2>1. Shares(w, b, inb, y, Symbol)
    BY <1>4, <1>6, Overlap
  <2>2. PICK e \in Seq(Symbol) : inb = w \o e
    BY <2>1 DEF Shares
  <2>3. Follows((w \o e) \o nt, w \o b, ended)
    BY <2>2
  <2>4. Follows(e \o nt, b, ended)
    BY <2>3, ArrivedWhole
  <2> QED
    BY <2>2, <2>4 DEF Arrived
<1>7. CASE ~(Len(w) <= Len(inb))
  <2>1. Len(inb) <= Len(w) /\ inb # w
    BY <1>5, <1>7
  <2>2. Shares(inb, y, w, b, Symbol)
    BY <1>4, <2>1, Overlap
  <2>3. PICK x \in Seq(Symbol) : w = inb \o x
    BY <2>2 DEF Shares
  <2>4. x # <<>>
    <3>1. inb \o <<>> = inb
      BY ConcatEmptySeq
    <3> QED
      BY <2>1, <2>3, <3>1
  <2>5. ended \/ nt # <<>>
    <3> SUFFICES ASSUME ~ended, nt = <<>> PROVE FALSE
      OBVIOUS
    <3>1. inb \o <<>> = inb
      BY ConcatEmptySeq
    <3>2. a = inb /\ a = d
      BY <1>1, <3>1 DEF a
    <3>3. Joins(w, b, Symbol)
      BY Joined
    <3>4. Len(d) = Len(w) + Len(b) /\ Len(b) \in Nat
      BY <3>3 DEF Joins, d
    <3>5. Len(d) = Len(inb)
      BY <3>2
    <3> QED
      BY <1>5, <1>7, <3>4, <3>5
  <2> QED
    BY <2>3, <2>4, <2>5 DEF Arrived
<1> QED
  BY <1>6, <1>7

\* The read, while commands are left.
LEMMA NextRead ==
  ASSUME NEW k \in Commands, NEW inb \in Seq(Symbol), NEW nt \in Seq(Symbol), NEW b \in Seq(Symbol),
         NEW ended \in BOOLEAN, Follows(inb \o nt, k.wire \o b, ended), ended => nt = <<>>
  PROVE  Outcome(k, Parse(inb, ended), nt, b, ended)
<1> DEFINE w == k.wire
           out == Parse(inb, ended)
<1>1. w \in Seq(Symbol)
  BY WireType
<1>2. Arrived(w, inb, nt, b, ended)
  <2> HIDE DEF w
  <2>1. Follows(inb \o nt, w \o b, ended)
    BY DEF w
  <2> QED
    BY <1>1, <2>1, ArrivedIs
<1>3. ASSUME NEW e \in Seq(Symbol), inb = w \o e, Follows(e \o nt, b, ended)
      PROVE  Outcome(k, out, nt, b, ended)
  <2>1. WholeRead(k, Parse(k.wire \o e, ended), e)
    BY CommandWhole
  <2>2. WholeRead(k, out, e)
    BY <1>3, <2>1
  <2> HIDE DEF out
  <2> QED
    BY <1>3, <2>2, ReadHolds DEF WholeRead, Outcome
<1>4. ASSUME ended \/ nt # <<>>, NEW x \in Seq(Symbol), x # <<>>, inb \o x = w
      PROVE  Outcome(k, out, nt, b, ended)
  <2>1. CutRead(k, out, ended)
    BY <1>4, CommandCut
  <2> HIDE DEF out
  <2>2. ASSUME ended PROVE <<>> \in Seq(Symbol) /\ Follows(<<>> \o nt, b, ended)
    <3>1. nt = <<>> /\ <<>> \o <<>> = <<>> /\ ended = TRUE
      BY <2>2, ConcatEmptySeq
    <3>2. Follows(<<>>, b, TRUE)
      BY NothingFollows
    <3> QED
      BY <3>1, <3>2
  <2>3. CASE out = NoMore(ended)
    BY <1>4, <2>3 DEF Outcome
  <2>4. ASSUME ended, ReadAsCommand(out), out[3] = <<>>, Normalised(out[2]) = k.cmd
        PROVE  Outcome(k, out, nt, b, ended)
    <3>1. out[3] \in Seq(Symbol) /\ Follows(out[3] \o nt, b, ended)
      BY <2>2, <2>4
    <3> QED
      BY <2>4, <3>1 DEF Outcome
  <2>5. ASSUME ended, ReadAsCommand(out), out[3] = <<>>,
               k.kind = "inline", IsPrefix(Text(Normalised(out[2])), Text(k.cmd))
        PROVE  Outcome(k, out, nt, b, ended)
    BY <2>5 DEF Outcome
  <2>6. ASSUME k.kind = "raw", out = Error \/ out = Read(Null, <<>>) PROVE Outcome(k, out, nt, b, ended)
    <3>1. out = Read(Null, <<>>) => out[1] = "value" /\ out[2] = Null
      BY ReadHolds
    <3> QED
      BY <2>6, <3>1 DEF Outcome
  <2> QED
    BY <2>1, <2>3, <2>4, <2>5, <2>6 DEF CutRead
<1> QED
  BY <1>2, <1>3, <1>4 DEF Arrived

\* And when none is left.
LEMMA LastRead ==
  ASSUME NEW inb \in Seq(Symbol), NEW nt \in Seq(Symbol), NEW ended \in BOOLEAN,
         Follows(inb \o nt, <<>>, ended)
  PROVE  inb = <<>> /\ Parse(inb, ended) = NoMore(ended)
<1>1. Joins(inb, nt, Symbol)
  BY Joined
<1>2. Len(inb \o nt) <= 0
  <2>1. Len(<<>>) = 0
    BY NoLine
  <2> DEFINE a == inb \o nt
  <2>2. IsPrefix(a, <<>>)
    BY DEF Follows
  <2> HIDE DEF a
  <2>3. Len(a) <= Len(<<>>)
    BY <2>2 DEF IsPrefix
  <2> QED
    BY <2>1, <2>3 DEF a
<1>3. Len(inb) = 0
  BY <1>1, <1>2 DEF Joins
<1>4. inb = <<>>
  BY <1>3, EmptySeq
<1>5. Frame(inb, ended) = NoMore(ended)
  BY <1>4, FrameOfNothing DEF NoMore
<1>6. NoMore(ended)[1] # "value"
  BY DEF NoMore, Gone, Wait
<1>7. Parse(inb, ended) = NoMore(ended)
  BY <1>5, <1>6, ParseStop
<1> QED
  BY <1>4, <1>7

\* What each command is on the wire, and what of it has not been read as a command.
Wires == [i \in DOMAIN script |-> script[i].wire]

Left == Beyond(Wires, Len(handled))

StreamType ==
  /\ script \in Seq(Commands)
  /\ inbox \in Seq(Symbol) /\ net \in Seq(Symbol)
  /\ eof \in BOOLEAN /\ open \in BOOLEAN
  /\ handled \in Seq(Cmds) /\ Len(handled) <= Len(script)
  /\ queue = Null \/ (queue = List(queue[2]) /\ queue[2] \in Seq(Cmds \ {<<>>}))
  /\ eof => net = <<>>

\* All that has been read are commands that were sent, and what follows has not been touched.
SoFar ==
  /\ \A i \in 1 .. Len(handled) : handled[i] = script[i].cmd
  /\ Follows(inbox \o net, Left, eof)

\* Or the last of them was an inline command that was cut off, and nothing follows.
CutShort ==
  /\ eof /\ inbox = <<>> /\ handled # <<>>
  /\ \A i \in 1 .. Len(handled) - 1 : handled[i] = script[i].cmd
  /\ script[Len(handled)].kind = "inline"
  /\ IsPrefix(Text(handled[Len(handled)]), Text(script[Len(handled)].cmd))

\* What is no command is among the first n.
RawBy(n) == \E i \in DOMAIN script : i <= n /\ script[i].kind = "raw"

\* Why a queued command may raise, and why the handler may have ended.
QueueKnown ==
  ~eof /\ queue # Null => \A j \in DOMAIN queue[2] : Broken(queue[2][j]) => RawBy(Len(handled))

EndKnown == ~open /\ ~eof => RawBy(Len(handled) + 1)

StreamInv == StreamType /\ (SoFar \/ CutShort) /\ QueueKnown /\ EndKnown

\* The symbols sent, and what is left of them.
LEMMA WiresAre ==
  ASSUME script \in Seq(Commands)
  PROVE  /\ Wires \in Seq(Seq(Symbol)) /\ Len(Wires) = Len(script) /\ Len(script) \in Nat
         /\ \A i \in 1 .. Len(script) : Wires[i] = script[i].wire /\ script[i] \in Commands
<1>1. Len(script) \in Nat /\ DOMAIN script = 1 .. Len(script)
  BY LenProperties
<1>2. \A i \in 1 .. Len(script) : script[i] \in Commands /\ script[i].wire \in Seq(Symbol)
  <2> SUFFICES ASSUME NEW i \in 1 .. Len(script)
               PROVE  script[i] \in Commands /\ script[i].wire \in Seq(Symbol)
    OBVIOUS
  <2>1. script[i] \in Commands
    BY ElementOfSeq
  <2> QED
    BY <2>1, WireType
<1>3. Wires \in [1 .. Len(script) -> Seq(Symbol)]
  BY <1>1, <1>2 DEF Wires
<1>4. Wires \in Seq(Seq(Symbol)) /\ Len(Wires) = Len(script)
  BY <1>1, <1>3, LenProperties
<1> QED
  BY <1>1, <1>2, <1>4 DEF Wires

\* Before the first step.
LEMMA StreamInit ==
  ASSUME Init
  PROVE  StreamInv
<1>1. script \in Seq(Commands)
  <2>1. PICK m \in 0 .. MaxCommands : script \in [1 .. m -> Commands]
    BY DEF Init, BoundedSeq, SeqOf
  <2>2. m \in Nat
    BY <2>1, RespAssumption
  <2> QED
    BY <2>1, <2>2
<1>2. /\ Wires \in Seq(Seq(Symbol)) /\ Len(script) \in Nat
  BY <1>1, WiresAre
<1>3. net = FlattenSeq(Wires) /\ inbox = <<>> /\ eof = FALSE /\ open = TRUE
      /\ queue = Null /\ handled = <<>>
  BY DEF Init, Wires
<1>4. Len(handled) = 0 /\ <<>> \in Seq(Symbol) /\ handled \in Seq(Cmds)
  BY <1>3, NoLine
<1>5. net \in Seq(Symbol) /\ Left = net
  <2> HIDE DEF Wires
  <2>1. FlattenSeq(Wires) \in Seq(Symbol) /\ Beyond(Wires, 0) = FlattenSeq(Wires)
    BY <1>2, FlattenType, BeyondNext
  <2> QED
    BY <1>3, <1>4, <2>1 DEF Left
<1>6. Follows(inbox \o net, Left, eof)
  <2>1. inbox \o net = net
    BY <1>3, <1>5, ConcatEmptySeq
  <2>2. IsPrefix(net, net)
    BY <1>5 DEF IsPrefix
  <2> QED
    BY <1>5, <2>1, <2>2 DEF Follows
<1>7. StreamType
  <2>1. Len(handled) <= Len(script)
    BY <1>2, <1>4
  <2>2. inbox \in Seq(Symbol) /\ eof \in BOOLEAN /\ open \in BOOLEAN /\ queue = Null /\ ~eof
    BY <1>3, <1>4
  <2> QED
    BY <1>1, <1>4, <1>5, <2>1, <2>2 DEF StreamType
<1>8. SoFar
  BY <1>4, <1>6 DEF SoFar
<1> QED
  BY <1>3, <1>7, <1>8 DEF StreamInv, QueueKnown, EndKnown

\* A symbol more.
LEMMA StreamArrive ==
  ASSUME StreamInv, Arrive
  PROVE  StreamInv'
<1> DEFINE h == Head(net)
           t == Tail(net)
<1>1. /\ net # <<>> /\ inbox' = Append(inbox, h) /\ net' = t
      /\ script' = script /\ eof' = eof /\ open' = open /\ queue' = queue /\ handled' = handled
  BY DEF Arrive
<1>2. inbox \in Seq(Symbol) /\ net \in Seq(Symbol) /\ eof \in BOOLEAN /\ ~eof
  BY <1>1 DEF StreamInv, StreamType
<1>3. h \in Symbol /\ t \in Seq(Symbol) /\ net = <<h>> \o t
  BY <1>1, <1>2, HeadTailProperties
<1> HIDE DEF h, t
<1>4. inbox' \o net' = inbox \o net /\ inbox' \in Seq(Symbol)
  <2>1. Append(inbox, h) = inbox \o <<h>> /\ <<h>> \in Seq(Symbol) /\ Append(inbox, h) \in Seq(Symbol)
    BY <1>2, <1>3, AppendIsConcat, AppendProperties
  <2>2. Regroups(inbox, <<h>>, t, Symbol)
    BY <1>2, <1>3, <2>1, Regrouped
  <2> QED
    BY <1>1, <1>3, <2>1, <2>2 DEF Regroups
<1>5. Wires' = Wires /\ Left' = Left /\ RawBy(Len(handled)) = RawBy(Len(handled))'
  BY <1>1 DEF Wires, Left, RawBy
<1>6. StreamType'
  BY <1>1, <1>2, <1>3, <1>4 DEF StreamInv, StreamType
<1>7. SoFar'
  BY <1>1, <1>2, <1>4, <1>5 DEF StreamInv, SoFar, CutShort
<1>8. QueueKnown' /\ EndKnown'
  BY <1>1 DEF StreamInv, QueueKnown, EndKnown, RawBy
<1> QED
  BY <1>6, <1>7, <1>8 DEF StreamInv

\* The client is gone.
LEMMA StreamLeave ==
  ASSUME StreamInv, Leave
  PROVE  StreamInv'
<1>1. /\ ~eof /\ eof' = TRUE /\ net' = <<>>
      /\ script' = script /\ inbox' = inbox /\ open' = open /\ queue' = queue /\ handled' = handled
  BY DEF Leave
<1>2. inbox \in Seq(Symbol) /\ net \in Seq(Symbol) /\ <<>> \in Seq(Symbol)
  BY NoLine DEF StreamInv, StreamType
<1>3. SoFar
  BY <1>1 DEF StreamInv, CutShort
<1>4. Left' = Left
  BY <1>1 DEF Wires, Left
<1>5. inbox' \o net' = inbox
  BY <1>1, <1>2, ConcatEmptySeq
<1>6. IsPrefix(inbox, Left)
  <2>1. Left = inbox \o net
    BY <1>1, <1>3 DEF SoFar, Follows
  <2>2. IsPrefix(inbox, inbox \o net)
    BY <1>2, ExtendsPrefix
  <2> QED
    BY <2>1, <2>2
<1>7. SoFar'
  BY <1>1, <1>2, <1>3, <1>4, <1>5, <1>6 DEF SoFar, Follows
<1>8. StreamType'
  BY <1>1, <1>2 DEF StreamInv, StreamType
<1> QED
  BY <1>1, <1>7, <1>8 DEF StreamInv, QueueKnown, EndKnown

\* Some command that has been queued, or cmd itself, makes dispatch raise.
Raises(cmd) ==
  \/ cmd # <<>> /\ Broken(cmd)
  \/ queue # Null /\ \E j \in DOMAIN queue[2] : Broken(queue[2][j])

\* What a command does to the handler and to the queue.
QueueStep(cmd) ==
  /\ open' = open \/ (open' = FALSE /\ Raises(cmd))
  /\ \/ queue' = queue \/ queue' = Null \/ queue' = List(<<>>)
     \/ queue # Null /\ cmd # <<>> /\ queue' = List(Append(queue[2], cmd))

\* The names that select an action are different.
LEMMA Names ==
  /\ Name(<<>>) = <<>>
  /\ Word("AUTH") # <<>> /\ Word("HELLO") # <<>> /\ Word("MULTI") # <<>>
  /\ Word("EXEC") # <<>> /\ Word("DISCARD") # <<>>
  /\ Word("AUTH") # Word("HELLO") /\ Word("AUTH") # Word("MULTI") /\ Word("AUTH") # Word("EXEC")
  /\ Word("AUTH") # Word("DISCARD") /\ Word("HELLO") # Word("MULTI")
  /\ Word("HELLO") # Word("EXEC") /\ Word("HELLO") # Word("DISCARD")
  /\ Word("MULTI") # Word("EXEC") /\ Word("MULTI") # Word("DISCARD")
  /\ Word("EXEC") # Word("DISCARD")
BY DEF Name, Word

\* What the handler answers itself, and leaves the queue.
Refusal(cmd) ==
  \/ cmd = <<>> /\ Answer(Err(Word("empty command"))) /\ queue' = queue
  \/ /\ cmd # <<>> /\ Name(cmd) = Word("AUTH")
     /\ Answer(Err(Word("no password is set"))) /\ queue' = queue

\* A command is one of six things.
LEMMA CommandCases ==
  ASSUME NEW cmd, Command(cmd)
  PROVE  \/ Refusal(cmd)
         \/ Name(cmd) = Word("HELLO") /\ HELLO(cmd)
         \/ Name(cmd) = Word("MULTI") /\ MULTI
         \/ Name(cmd) = Word("EXEC") /\ EXEC
         \/ Name(cmd) = Word("DISCARD") /\ DISCARD
         \/ cmd # <<>> /\ Name(cmd) # Word("HELLO") /\ Data(cmd)
<1>1. CASE cmd = <<>> \/ Name(cmd) = Word("AUTH")
  BY <1>1, Names DEF Command, Refusal
<1>2. CASE cmd # <<>> /\ Name(cmd) = Word("HELLO")
  BY <1>2, Names DEF Command
<1>3. CASE cmd # <<>> /\ Name(cmd) = Word("MULTI")
  BY <1>3, Names DEF Command
<1>4. CASE cmd # <<>> /\ Name(cmd) = Word("EXEC")
  BY <1>4, Names DEF Command
<1>5. CASE cmd # <<>> /\ Name(cmd) = Word("DISCARD")
  BY <1>5, Names DEF Command
<1>6. CASE cmd # <<>> /\ Name(cmd) \notin {Word("AUTH"), Word("HELLO"), Word("MULTI"), Word("EXEC"),
                                           Word("DISCARD")}
  BY <1>6, Names DEF Command
<1> QED
  BY <1>1, <1>2, <1>3, <1>4, <1>5, <1>6

\* That is what it does to them.
LEMMA CommandQueue ==
  ASSUME NEW cmd, Command(cmd)
  PROVE  QueueStep(cmd)
<1>1. CASE Refusal(cmd)
  BY <1>1 DEF Refusal, Answer, QueueStep
<1>2. CASE HELLO(cmd)
  BY <1>2 DEF HELLO, QueueStep
<1>3. CASE MULTI
  BY <1>3 DEF MULTI, Answer, QueueStep
<1>4. CASE EXEC
  BY <1>4 DEF EXEC, Answer, Fail, QueueStep, Raises
<1>5. CASE cmd # <<>> /\ Data(cmd)
  BY <1>5 DEF Data, Answer, Fail, QueueStep, Raises
<1>6. CASE DISCARD
  BY <1>6 DEF DISCARD, Answer, QueueStep
<1> QED
  BY <1>1, <1>2, <1>3, <1>4, <1>5, <1>6, CommandCases

\* What is left once the next command has been read.
LEMMA LeftNext ==
  ASSUME StreamType, Len(handled) < Len(script)
  PROVE  LET k == script[Len(handled) + 1]
             b == Beyond(Wires, Len(handled) + 1)
         IN  k \in Commands /\ b \in Seq(Symbol) /\ Left = k.wire \o b
<1> DEFINE n == Len(handled)
           q == n + 1
           ws == Wires
<1>1. n \in Nat /\ script \in Seq(Commands) /\ Len(script) \in Nat
  BY LenProperties DEF StreamType
<1>2. q \in 1 .. Len(script) /\ q \in 0 .. Len(script) /\ n \in 0 .. Len(script) - 1
  BY <1>1
<1>3. /\ ws \in Seq(Seq(Symbol)) /\ Len(ws) = Len(script)
      /\ ws[q] = script[q].wire /\ script[q] \in Commands
  BY <1>1, <1>2, WiresAre
<1> HIDE DEF ws
<1>4. \A k \in 0 .. Len(ws) - 1 : Beyond(ws, k) = ws[k + 1] \o Beyond(ws, k + 1)
  BY <1>3, BeyondNext
<1>5. Beyond(ws, n) = ws[q] \o Beyond(ws, q)
  BY <1>2, <1>3, <1>4
<1>6. Beyond(ws, q) \in Seq(Symbol)
  <2> HIDE DEF q
  <2> QED
    BY <1>2, <1>3, BeyondParts
<1> QED
  BY <1>3, <1>5, <1>6 DEF Left, ws

\* And when every command has been read.
LEMMA LeftLast ==
  ASSUME StreamType, Len(handled) = Len(script)
  PROVE  Left = <<>>
<1> DEFINE ws == Wires
<1>1. ws \in Seq(Seq(Symbol)) /\ Len(ws) = Len(script)
  BY WiresAre DEF StreamType
<1> HIDE DEF ws
<1>2. Beyond(ws, Len(ws)) = <<>>
  BY <1>1, BeyondNext
<1> QED
  BY <1>1, <1>2 DEF Left, ws

\* The read, whatever the handler has read before.
NextOutcome(out) ==
  \/ out = NoMore(eof) /\ (eof \/ net # <<>> \/ Len(handled) = Len(script))
  \/ /\ Len(handled) < Len(script) /\ SoFar
     /\ Outcome(script[Len(handled) + 1], out, net, Beyond(Wires, Len(handled) + 1), eof)

\* So it is in every state.
LEMMA StreamRead ==
  ASSUME StreamInv
  PROVE  NextOutcome(Parse(inbox, eof))
<1> DEFINE out == Parse(inbox, eof)
<1> SUFFICES NextOutcome(out)
  OBVIOUS
<1>1. /\ StreamType /\ inbox \in Seq(Symbol) /\ net \in Seq(Symbol)
      /\ eof \in BOOLEAN /\ (eof => net = <<>>)
      /\ Len(handled) \in Nat /\ Len(script) \in Nat /\ Len(handled) <= Len(script)
  BY LenProperties DEF StreamInv, StreamType
<1>2. CASE CutShort
  <2>1. eof = TRUE /\ inbox = <<>>
    BY <1>1, <1>2 DEF CutShort
  <2>2. Frame(inbox, eof) = NoMore(eof)
    BY <2>1, FrameOfNothing DEF NoMore
  <2>3. NoMore(eof)[1] # "value"
    BY DEF NoMore, Gone, Wait
  <2>4. out = NoMore(eof)
    BY <1>1, <2>2, <2>3, ParseStop
  <2> HIDE DEF out
  <2> QED
    BY <2>1, <2>4 DEF NextOutcome
<1>3. CASE SoFar /\ Len(handled) < Len(script)
  <2> DEFINE k == script[Len(handled) + 1]
             b == Beyond(Wires, Len(handled) + 1)
  <2>1. k \in Commands /\ b \in Seq(Symbol) /\ Left = k.wire \o b
    BY <1>1, <1>3, LeftNext
  <2>2. Follows(inbox \o net, Left, eof)
    BY <1>3 DEF SoFar
  <2> HIDE DEF k, b
  <2>3. Follows(inbox \o net, k.wire \o b, eof)
    BY <2>1, <2>2
  <2>4. Outcome(k, out, net, b, eof)
    BY <1>1, <2>1, <2>3, NextRead
  <2> HIDE DEF out
  <2> QED
    BY <1>3, <2>4 DEF NextOutcome, k, b
<1>4. CASE SoFar /\ ~(Len(handled) < Len(script))
  <2>1. Len(handled) = Len(script)
    BY <1>1, <1>4
  <2>2. Follows(inbox \o net, <<>>, eof)
    BY <1>1, <1>4, <2>1, LeftLast DEF SoFar
  <2>3. out = NoMore(eof)
    BY <1>1, <2>2, LastRead
  <2> HIDE DEF out
  <2> QED
    BY <2>1, <2>3 DEF NextOutcome
<1> QED
  BY <1>2, <1>3, <1>4 DEF StreamInv

\* What is no command stays among the first.
LEMMA RawMore ==
  ASSUME script \in Seq(Commands), NEW n \in Nat, NEW m \in Nat, n <= m, RawBy(n)
  PROVE  RawBy(m)
<1>1. DOMAIN script = 1 .. Len(script) /\ Len(script) \in Nat
  BY LenProperties
<1> QED
  BY <1>1 DEF RawBy

\* What the handler makes of a command that it has read.
Executes(c, rest) ==
  /\ Command(c) /\ handled' = Append(handled, c) /\ inbox' = rest
  /\ script' = script /\ net' = net /\ eof' = eof /\ open

\* And what it leaves as it was when it ends without one.
HandlerEnds ==
  /\ open' = FALSE /\ inbox' = inbox /\ queue' = queue /\ handled' = handled
  /\ script' = script /\ net' = net /\ eof' = eof

\* A turn of the loop executes a command or ends.
LEMMA HandleCases ==
  ASSUME Handle
  PROVE  LET out == Parse(inbox, eof)
         IN  \/ out[1] = "value" /\ out[2] # Null /\ Executes(Normalised(out[2]), out[3])
             \/ (out[1] = "gone" \/ (out[1] = "value" /\ out[2] = Null)) /\ HandlerEnds
             \/ out[1] = "error" /\ HandlerEnds
BY DEF Handle, Executes, HandlerEnds, Fail

\* A list of commands, and one more.
LEMMA QueueMore ==
  ASSUME NEW q \in Seq(Cmds), NEW c \in Cmds
  PROVE  /\ Append(q, c) \in Seq(Cmds) /\ Len(Append(q, c)) = Len(q) + 1 /\ Len(q) \in Nat
         /\ \A j \in 1 .. Len(q) : Append(q, c)[j] = q[j]
         /\ Append(q, c)[Len(q) + 1] = c
BY AppendProperties, LenProperties

\* The queue after a command: its type, and that only c can have been added.
LEMMA QueueAfter ==
  ASSUME StreamType, NEW c \in Cmds, QueueStep(c)
  PROVE  /\ queue' = Null \/ (queue' = List(queue'[2]) /\ queue'[2] \in Seq(Cmds \ {<<>>}))
         /\ queue' # Null => \A j \in DOMAIN queue'[2] :
              \/ queue # Null /\ \E i \in DOMAIN queue[2] : queue'[2][j] = queue[2][i]
              \/ c # <<>> /\ queue'[2][j] = c
<1> DEFINE typed == queue' = Null \/ (queue' = List(queue'[2]) /\ queue'[2] \in Seq(Cmds \ {<<>>}))
           added == queue' # Null => \A j \in DOMAIN queue'[2] :
                      \/ queue # Null /\ \E i \in DOMAIN queue[2] : queue'[2][j] = queue[2][i]
                      \/ c # <<>> /\ queue'[2][j] = c
<1>1. queue = Null \/ (queue = List(queue[2]) /\ queue[2] \in Seq(Cmds \ {<<>>}))
  BY DEF StreamType
<1>2. CASE queue' = queue
  BY <1>1, <1>2
<1>3. CASE queue' = Null
  BY <1>3
<1>4. CASE queue' = List(<<>>)
  <2>1. queue'[2] = <<>> /\ queue' = List(queue'[2])
    BY <1>4 DEF List
  <2>2. <<>> \in Seq(Cmds \ {<<>>}) /\ DOMAIN <<>> = {}
    OBVIOUS
  <2> QED
    BY <2>1, <2>2
<1>5. CASE queue # Null /\ c # <<>> /\ queue' = List(Append(queue[2], c))
  <2> DEFINE q == queue[2]
             S == Cmds \ {<<>>}
             more == Append(q, c)
  <2>1. q \in Seq(S) /\ c \in S
    BY <1>1, <1>5
  <2>2. queue'[2] = more /\ queue' = List(queue'[2])
    BY <1>5 DEF List
  <2> HIDE DEF q, S
  <2>3. /\ more \in Seq(S) /\ Len(more) = Len(q) + 1 /\ Len(q) \in Nat
        /\ \A j \in 1 .. Len(q) : more[j] = q[j]
        /\ more[Len(q) + 1] = c
    BY <2>1, AppendProperties, LenProperties
  <2> HIDE DEF more
  <2>4. DOMAIN more = 1 .. Len(q) + 1 /\ DOMAIN q = 1 .. Len(q)
    BY <2>1, <2>3, LenProperties
  <2>5. \A j \in DOMAIN more : j \in 1 .. Len(q) \/ j = Len(q) + 1
    BY <2>3, <2>4
  <2>6. \A j \in DOMAIN more : (\E i \in DOMAIN q : more[j] = q[i]) \/ more[j] = c
    BY <2>3, <2>4, <2>5
  <2>7. typed
    BY <2>2, <2>3 DEF S
  <2>8. added
    BY <1>5, <2>2, <2>6 DEF q
  <2> QED
    BY <2>7, <2>8
<1> QED
  BY <1>2, <1>3, <1>4, <1>5 DEF QueueStep

\* A command has been read.
LEMMA StreamExecutes ==
  ASSUME StreamInv, NEW c \in Cmds, NEW rest \in Seq(Symbol), Executes(c, rest),
         Len(handled) < Len(script),
         \/ /\ SoFar /\ c = script[Len(handled) + 1].cmd
            /\ Follows(rest \o net, Beyond(Wires, Len(handled) + 1), eof)
         \/ /\ SoFar /\ eof /\ rest = <<>>
            /\ script[Len(handled) + 1].kind = "inline"
            /\ IsPrefix(Text(c), Text(script[Len(handled) + 1].cmd))
  PROVE  StreamInv'
<1> DEFINE n == Len(handled)
           q == n + 1
<1>1. /\ StreamType /\ handled \in Seq(Cmds) /\ script \in Seq(Commands)
      /\ n \in Nat /\ Len(script) \in Nat /\ SoFar /\ QueueKnown
  BY LenProperties DEF StreamInv, StreamType
<1>2. /\ Command(c) /\ handled' = Append(handled, c) /\ inbox' = rest
      /\ script' = script /\ net' = net /\ eof' = eof /\ open
  BY DEF Executes
<1>3. /\ handled' \in Seq(Cmds) /\ Len(handled') = q /\ handled'[q] = c
      /\ \A i \in 1 .. n : handled'[i] = handled[i]
  BY <1>1, <1>2, QueueMore
<1>4. q \in 1 .. Len(script) /\ q \in Nat /\ n <= q /\ q - 1 = n
  BY <1>1
<1>5. QueueStep(c)
  BY <1>2, CommandQueue
<1> DEFINE k == script[q]
<1>6. k \in Commands
  BY <1>1, <1>4, WiresAre
<1>7. ASSUME ~eof, c # <<>>, Broken(c) PROVE RawBy(q)
  <2>1. c = k.cmd
    BY <1>7
  <2>2. k.kind = "raw"
    <3> HIDE DEF k
    <3> QED
      BY <1>6, <1>7, <2>1, NotRaw, NotBroken
  <2>3. q \in DOMAIN script
    BY <1>1, <1>4, LenProperties
  <2> QED
    BY <1>4, <2>2, <2>3 DEF RawBy
<1>8. RawBy(n) => RawBy(q)
  BY <1>1, <1>4, RawMore
<1>9. RawBy(q) => RawBy(q + 1)
  <2>1. q + 1 \in Nat /\ q <= q + 1
    BY <1>4
  <2> DEFINE m == q + 1
  <2> HIDE DEF m, q
  <2>2. m \in Nat /\ q \in Nat /\ q <= m
    BY <1>4, <2>1 DEF m
  <2> QED
    BY <1>1, <2>2, RawMore DEF m
<1> HIDE DEF k
<1>10. StreamType'
  <2>1. queue' = Null \/ (queue' = List(queue'[2]) /\ queue'[2] \in Seq(Cmds \ {<<>>}))
    BY <1>1, <1>5, QueueAfter
  <2>2. open' \in BOOLEAN
    BY <1>2, <1>5 DEF QueueStep
  <2>3. Len(handled') <= Len(script)
    BY <1>3, <1>4
  <2>4. net \in Seq(Symbol) /\ eof \in BOOLEAN /\ (eof => net = <<>>)
    BY <1>1 DEF StreamType
  <2> QED
    BY <1>1, <1>2, <1>3, <2>1, <2>2, <2>3, <2>4 DEF StreamType
<1>11. SoFar' \/ CutShort'
  <2>1. \A i \in 1 .. n : handled'[i] = script[i].cmd
    BY <1>1, <1>3 DEF SoFar
  <2>2. ASSUME c = script[q].cmd, Follows(rest \o net, Beyond(Wires, q), eof) PROVE SoFar'
    <3>1. \A i \in 1 .. q : handled'[i] = script[i].cmd
      <4>1. \A i \in 1 .. q : i \in 1 .. n \/ i = q
        BY <1>1
      <4> QED
        BY <1>3, <2>1, <2>2, <4>1
    <3>2. Left' = Beyond(Wires, q)
      BY <1>2, <1>3 DEF Left, Wires
    <3> QED
      BY <1>2, <1>3, <2>2, <3>1, <3>2 DEF SoFar
  <2>3. ASSUME eof, rest = <<>>, script[q].kind = "inline", IsPrefix(Text(c), Text(script[q].cmd))
        PROVE  CutShort'
    <3>1. handled' # <<>>
      <4>1. Len(handled') # 0
        BY <1>1, <1>3
      <4> QED
        BY <4>1, NoLine
    <3>2. \A i \in 1 .. Len(handled') - 1 : handled'[i] = script[i].cmd
      BY <1>3, <1>4, <2>1
    <3>3. /\ script'[Len(handled')].kind = "inline"
          /\ IsPrefix(Text(handled'[Len(handled')]), Text(script'[Len(handled')].cmd))
      <4> HIDE DEF q
      <4> QED
        BY <1>2, <1>3, <2>3
    <3> QED
      BY <1>2, <2>3, <3>1, <3>2, <3>3 DEF CutShort
  <2> QED
    BY <2>2, <2>3
<1>12. QueueKnown'
  <2> SUFFICES ASSUME ~eof, queue' # Null, NEW j \in DOMAIN queue'[2], Broken(queue'[2][j])
               PROVE  RawBy(q)
    BY <1>2, <1>3 DEF QueueKnown, RawBy, Broken
  <2>1. \/ queue # Null /\ \E i \in DOMAIN queue[2] : queue'[2][j] = queue[2][i]
        \/ c # <<>> /\ queue'[2][j] = c
    BY <1>1, <1>5, QueueAfter
  <2>2. CASE queue # Null /\ \E i \in DOMAIN queue[2] : queue'[2][j] = queue[2][i]
    <3>1. PICK i \in DOMAIN queue[2] : queue'[2][j] = queue[2][i]
      BY <2>2
    <3>2. Broken(queue[2][i])
      BY <3>1
    <3>3. RawBy(n)
      BY <1>1, <2>2, <3>2 DEF QueueKnown
    <3> QED
      BY <1>8, <3>3
  <2>3. CASE c # <<>> /\ queue'[2][j] = c
    BY <1>7, <2>3
  <2> QED
    BY <2>1, <2>2, <2>3
<1>13. EndKnown'
  <2> SUFFICES ASSUME ~eof, ~open' PROVE RawBy(q + 1)
    BY <1>2, <1>3 DEF EndKnown, RawBy
  <2>1. Raises(c)
    BY <1>2, <1>5 DEF QueueStep
  <2>2. RawBy(n) \/ RawBy(q)
    BY <1>1, <1>7, <2>1 DEF Raises, QueueKnown
  <2> QED
    BY <1>8, <1>9, <2>2
<1> QED
  BY <1>10, <1>11, <1>12, <1>13 DEF StreamInv

\* The handler ends.
LEMMA StreamEnds ==
  ASSUME StreamInv, HandlerEnds, eof \/ RawBy(Len(handled) + 1)
  PROVE  StreamInv'
<1>1. /\ open' = FALSE /\ inbox' = inbox /\ queue' = queue /\ handled' = handled
      /\ script' = script /\ net' = net /\ eof' = eof
  BY DEF HandlerEnds
<1>2. StreamType'
  BY <1>1 DEF StreamInv, StreamType
<1>3. Left' = Left
  BY <1>1 DEF Left, Wires
<1>4. SoFar' \/ CutShort'
  BY <1>1, <1>3 DEF StreamInv, SoFar, CutShort
<1>5. QueueKnown' /\ EndKnown'
  BY <1>1 DEF StreamInv, QueueKnown, EndKnown, RawBy
<1> QED
  BY <1>2, <1>4, <1>5 DEF StreamInv

\* A turn of the loop.
LEMMA StreamHandle ==
  ASSUME StreamInv, Handle
  PROVE  StreamInv'
<1> DEFINE out == Parse(inbox, eof)
           n == Len(handled)
           k == script[n + 1]
<1>1. NextOutcome(out)
  BY StreamRead
<1>2. \/ out[1] = "value" /\ out[2] # Null /\ Executes(Normalised(out[2]), out[3])
      \/ (out[1] = "gone" \/ (out[1] = "value" /\ out[2] = Null)) /\ HandlerEnds
      \/ out[1] = "error" /\ HandlerEnds
  BY HandleCases
<1>3. NoMore(eof)[1] \in {"gone", "wait"} /\ (NoMore(eof)[1] = "gone" => eof) /\ Error[1] = "error"
  BY DEF NoMore, Gone, Wait, Error
<1> HIDE DEF out
<1>4. ASSUME n < Len(script), k.kind = "raw" PROVE RawBy(n + 1)
  <2>1. n + 1 \in DOMAIN script /\ n \in Nat
    BY <1>4, LenProperties DEF StreamInv, StreamType
  <2> QED
    BY <1>4, <2>1 DEF RawBy
<1>5. CASE out = NoMore(eof)
  <2>1. HandlerEnds /\ eof
    BY <1>2, <1>3, <1>5
  <2> QED
    BY <2>1, StreamEnds
<1>6. ASSUME n < Len(script), k.kind = "raw", out = Error \/ (out[1] = "value" /\ out[2] = Null)
      PROVE  StreamInv'
  <2>1. HandlerEnds
    BY <1>2, <1>3, <1>6
  <2>2. RawBy(n + 1)
    BY <1>4, <1>6
  <2> QED
    BY <2>1, <2>2, StreamEnds
<1>7. ASSUME n < Len(script), SoFar, ReadAsCommand(out), out[3] \in Seq(Symbol),
             Normalised(out[2]) = k.cmd,
             Follows(out[3] \o net, Beyond(Wires, n + 1), eof)
      PROVE  StreamInv'
  <2> DEFINE c == Normalised(out[2])
             rest == out[3]
  <2>1. c \in Cmds /\ rest \in Seq(Symbol) /\ Executes(c, rest)
    BY <1>2, <1>7 DEF ReadAsCommand
  <2>2. c = script[Len(handled) + 1].cmd /\ Follows(rest \o net, Beyond(Wires, Len(handled) + 1), eof)
    BY <1>7
  <2> HIDE DEF c, rest
  <2> QED
    BY <1>7, <2>1, <2>2, StreamExecutes
<1>8. ASSUME n < Len(script), SoFar, ReadAsCommand(out), eof, out[3] = <<>>,
             k.kind = "inline", IsPrefix(Text(Normalised(out[2])), Text(k.cmd))
      PROVE  StreamInv'
  <2> DEFINE c == Normalised(out[2])
             rest == out[3]
  <2>1. c \in Cmds /\ rest \in Seq(Symbol) /\ Executes(c, rest) /\ rest = <<>>
    BY <1>2, <1>8, NoLine DEF ReadAsCommand
  <2>2. /\ script[Len(handled) + 1].kind = "inline"
        /\ IsPrefix(Text(c), Text(script[Len(handled) + 1].cmd))
    BY <1>8
  <2> HIDE DEF c, rest
  <2> QED
    BY <1>8, <2>1, <2>2, StreamExecutes
<1> QED
  BY <1>1, <1>5, <1>6, <1>7, <1>8 DEF NextOutcome, Outcome

\* StreamInv is an inductive invariant.
LEMMA StreamStep ==
  ASSUME StreamInv, [Next]_vars
  PROVE  StreamInv'
<1>1. CASE Arrive
  BY <1>1, StreamArrive
<1>2. CASE Leave
  BY <1>2, StreamLeave
<1>3. CASE Handle
  BY <1>3, StreamHandle
<1>4. CASE UNCHANGED vars
  <2>1. /\ script' = script /\ net' = net /\ inbox' = inbox /\ eof' = eof /\ open' = open
        /\ queue' = queue /\ handled' = handled
    BY <1>4 DEF vars
  <2>2. Left' = Left
    BY <2>1 DEF Left, Wires
  <2> QED
    BY <2>1, <2>2 DEF StreamInv, StreamType, SoFar, CutShort, QueueKnown, EndKnown, RawBy
<1> QED
  BY <1>1, <1>2, <1>3, <1>4 DEF Next

\* The handler executes what was sent, whatever the words hold and wherever the stream ends.
THEOREM CommandsAsSent == Spec => []CommandsIntact
<1>1. StreamInv => CommandsIntact
  <2> SUFFICES ASSUME StreamInv PROVE CommandsIntact
    OBVIOUS
  <2>1. /\ handled \in Seq(Cmds) /\ DOMAIN handled = 1 .. Len(handled) /\ Len(handled) \in Nat
        /\ Len(handled) <= Len(script)
    BY LenProperties DEF StreamInv, StreamType
  <2>2. CASE SoFar
    BY <2>1, <2>2 DEF SoFar, CommandsIntact
  <2>3. CASE CutShort
    <3>1. \A i \in DOMAIN handled : i \in 1 .. Len(handled) - 1 \/ i = Len(handled)
      BY <2>1
    <3> QED
      BY <2>1, <2>3, <3>1 DEF CutShort, CommandsIntact
  <2> QED
    BY <2>2, <2>3 DEF StreamInv
<1> QED
  BY <1>1, StreamInit, StreamStep, PTL DEF Spec

\* A frame is read to its end and no further.
THEOREM FramesWhole == Spec => []ReadsToTheEnd
<1>1. StreamInv => ReadsToTheEnd
  <2> SUFFICES ASSUME StreamInv PROVE ReadsToTheEnd
    OBVIOUS
  <2> DEFINE out == Parse(inbox, eof)
  <2>1. ASSUME ~eof, net = <<>>, out = Wait PROVE Len(handled) = Len(script)
    <3>1. NextOutcome(out)
      BY StreamRead
    <3>2. Wait[1] # "value" /\ Wait # Error
      BY DEF Wait, Error
    <3> HIDE DEF out
    <3> QED
      BY <2>1, <3>1, <3>2 DEF NextOutcome, Outcome, ReadAsCommand
  <2>2. ASSUME ~open, ~eof PROVE \E i \in DOMAIN script : i <= Len(handled) + 1 /\ script[i].kind = "raw"
    BY <2>2 DEF StreamInv, EndKnown, RawBy
  <2> QED
    BY <2>1, <2>2 DEF ReadsToTheEnd
<1> QED
  BY <1>1, StreamInit, StreamStep, PTL DEF Spec

-----------------------------------------------------------------------------
(* What the handler writes                                                *)

\* Its own words, and the symbols of what it writes: those of the client, its words, maps.
OwnWords ==
  {"CR", "LF", "+", "-", "_", "server", "redis-clone", "proto", "modules", "OK", "QUEUED",
   "PONG", "server error", "NOPROTO", "EXEC without MULTI", "DISCARD without MULTI",
   "no password is set", "empty command", "wrong number", "unknown"}

Out == (Symbol \cup {<<x>> : x \in OwnWords}) \cup ({"%"} \X Int)

\* A symbol is one word, or a prefix and a number.
LEMMA OutSymbol ==
  ASSUME NEW x \in Out
  PROVE  Len(x) = 1 \/ (Len(x) = 2 /\ x[2] \in Int)
<1>1. CASE x \in Symbol
  BY <1>1, NumberSymbol
<1>2. ASSUME NEW y \in OwnWords, x = <<y>> PROVE Len(x) = 1
  BY <1>2
<1>3. ASSUME x \in {"%"} \X Int PROVE Len(x) = 2 /\ x[2] \in Int
  <2>1. PICK n \in Int : x = <<"%", n>>
    BY <1>3
  <2> QED
    BY <2>1
<1> QED
  BY <1>1, <1>2, <1>3 DEF Out

\* The symbols that it writes of its own.
LEMMA OutSymbols ==
  /\ Symbol \subseteq Out /\ CR \in Out /\ LF \in Out /\ CR # LF
  /\ EOL \in Seq(Out) /\ Len(EOL) = 2 /\ EOL[1] = CR /\ EOL[2] = LF
  /\ \A y \in OwnWords : <<y>> \in Out /\ Word(y) \in Seq(Out) /\ Len(Word(y)) = 1
  /\ \A p \in {":", "$", "*", "%"} : \A n \in Int : <<p, n>> \in Out
<1>1. Symbol \subseteq Out
  BY DEF Out
<1>2. CR \in Symbol /\ LF \in Symbol /\ CR # LF /\ EOL[1] = CR /\ EOL[2] = LF /\ Len(EOL) = 2
  BY Symbols
<1>3. CR \in Out /\ LF \in Out
  BY <1>1, <1>2
<1>4. EOL \in Seq(Out)
  <2> HIDE DEF CR, LF, Out
  <2> QED
    BY <1>3 DEF EOL
<1>5. \A y \in OwnWords : <<y>> \in Out
  BY DEF Out
<1>6. \A y \in OwnWords : Word(y) \in Seq(Out) /\ Len(Word(y)) = 1
  <2> SUFFICES ASSUME NEW y \in OwnWords PROVE Word(y) \in Seq(Out) /\ Len(Word(y)) = 1
    OBVIOUS
  <2> DEFINE z == <<y>>
  <2>1. z \in Out
    BY <1>5
  <2> HIDE DEF z, Out
  <2>2. <<z>> \in Seq(Out) /\ Len(<<z>>) = 1
    BY <2>1
  <2> QED
    BY <2>2 DEF Word, z
<1>7. \A p \in {":", "$", "*", "%"} : \A n \in Int : <<p, n>> \in Out
  <2>1. \A p \in {":", "$", "*"} : \A n \in Int : <<p, n>> \in Symbol
    BY Symbols
  <2>2. \A n \in Int : <<"%", n>> \in Out
    BY DEF Out
  <2> QED
    BY <1>1, <2>1, <2>2
<1> QED
  BY <1>1, <1>2, <1>3, <1>4, <1>5, <1>6, <1>7

-----------------------------------------------------------------------------
(* How the client reads it                                                *)

\* The ends of lines in b.
LineEnd(b) == {i \in 1 .. Len(b) - 1 : b[i] = CR /\ b[i + 1] = LF}

\* DecodeFrame, of the parts of a line that ends at position end.
DecodeOf(b, end, data, rest, u) ==
  IF b[1][1] = "+" THEN Read(Str(data), rest)
  ELSE IF b[1][1] = "-" THEN Read(Err(data), rest)
  ELSE IF b[1][1] = "_" /\ u = 3 THEN Read(Null, rest)
  ELSE IF Len(b[1]) = 1 THEN Error
  ELSE IF b[1][1] = ":" THEN Read(Number(b[1][2]), rest)
  ELSE IF b[1][1] = "$" /\ b[1][2] >= 0 /\ Len(rest) >= b[1][2] + 2
       THEN Read(Str(SubSeq(rest, 1, b[1][2])), After(rest, b[1][2] + 2))
  ELSE IF b[1][1] = "$" /\ b[1][2] = -1 /\ u = 2 THEN Read(Null, rest)
  ELSE IF b[1][1] = "*" THEN Read(Opening(b[1][2]), rest)
  ELSE Error

\* What is read of a line depends on its first symbol, its data and what follows.
LEMMA DecodeParts ==
  ASSUME NEW b, NEW u
  PROVE  /\ LineEnd(b) = {} => DecodeFrame(b, u) = Wait
         /\ LineEnd(b) # {} =>
              DecodeFrame(b, u) = DecodeOf(b, Min(LineEnd(b)), SubSeq(b, 2, Min(LineEnd(b)) - 1),
                                           After(b, Min(LineEnd(b)) + 1), u)
BY Zenon DEF DecodeFrame, LineEnd, DecodeOf

\* The least of some numbers is one of them.
LEMMA MinOf ==
  ASSUME NEW T \in SUBSET Nat, T # {}
  PROVE  Min(T) \in T /\ \A m \in T : Min(T) <= m
<1>1. PICK n \in T : \A m \in T : n <= m
  BY SmallestNumber
<1> QED
  BY <1>1 DEF Min

\* A frame is shorter than what it is read from.
LEMMA DecodeFramed ==
  ASSUME NEW b \in Seq(Out), NEW u
  PROVE  Framed(DecodeFrame(b, u), Len(b))
<1> DEFINE end == Min(LineEnd(b))
           data == SubSeq(b, 2, end - 1)
           rest == After(b, end + 1)
           f == DecodeFrame(b, u)
           h == b[1]
<1>1. CASE LineEnd(b) = {}
  <2>1. f = Wait /\ Wait[1] # "value"
    BY <1>1, DecodeParts DEF Wait
  <2> QED
    BY <2>1 DEF Framed
<1>2. CASE LineEnd(b) # {}
  <2>1. Len(b) \in Nat
    BY LenProperties
  <2>2. LineEnd(b) \in SUBSET Nat
    BY DEF LineEnd
  <2>3. end \in LineEnd(b)
    BY <1>2, <2>2, MinOf
  <2>4. end \in 1 .. Len(b) - 1
    BY <2>3 DEF LineEnd
  <2>5. h \in Out
    <3>1. 1 \in 1 .. Len(b)
      BY <2>1, <2>4
    <3> QED
      BY <3>1, ElementOfSeq
  <2>6. Len(h) = 1 \/ h[2] \in Int
    BY <2>5, OutSymbol
  <2>7. rest \in Seq(Out) /\ Len(rest) \in 0 .. Len(b) - 1
    <3>1. PICK k \in 0 .. Len(b) : k = end + 1 /\ k >= 1
      BY <2>1, <2>4
    <3>2. After(b, k) \in Seq(Out) /\ Len(After(b, k)) = Len(b) - k
      BY AfterParts
    <3> QED
      BY <2>1, <3>1, <3>2
  <2>8. f = DecodeOf(b, end, data, rest, u)
    BY <1>2, DecodeParts
  <2> HIDE DEF f, rest, data, end
  <2>9. \/ f = Error
        \/ f = Read(Str(data), rest)
        \/ f = Read(Err(data), rest)
        \/ f = Read(Null, rest)
        \/ f = Read(Number(h[2]), rest)
        \/ /\ h[2] \in Int /\ h[2] >= 0 /\ Len(rest) >= h[2] + 2
           /\ f = Read(Str(SubSeq(rest, 1, h[2])), After(rest, h[2] + 2))
        \/ f = Read(Opening(h[2]), rest) /\ h[2] \in Int
    BY <2>6, <2>8 DEF DecodeOf
  <2>10. ASSUME f = Error PROVE Framed(f, Len(b))
    <3>1. Error[1] # "value"
      BY DEF Error
    <3> QED
      BY <2>10, <3>1 DEF Framed
  <2>11. ASSUME NEW v, NEW r, f = Read(v, r), Len(r) \in 0 .. Len(b) - 1,
                v[1] = "opening" => v[2] \in Int
         PROVE  Framed(f, Len(b))
    BY <2>11 DEF Framed, Read
  <2>12. ASSUME h[2] \in Int, h[2] >= 0, Len(rest) >= h[2] + 2,
                f = Read(Str(SubSeq(rest, 1, h[2])), After(rest, h[2] + 2))
         PROVE  Framed(f, Len(b))
    <3>1. PICK k \in 0 .. Len(rest) : k = h[2] + 2
      BY <2>7, <2>12
    <3>2. Len(After(rest, k)) = Len(rest) - k
      BY <2>7, AfterParts
    <3>3. Len(After(rest, k)) \in 0 .. Len(b) - 1
      BY <2>1, <2>7, <3>1, <3>2
    <3>4. Str(SubSeq(rest, 1, h[2]))[1] # "opening"
      BY DEF Str
    <3> QED
      BY <2>11, <2>12, <3>1, <3>3, <3>4
  <2>13. /\ Str(data)[1] # "opening" /\ Err(data)[1] # "opening" /\ Null[1] # "opening"
         /\ Number(h[2])[1] # "opening" /\ Opening(h[2])[2] = h[2]
    BY DEF Str, Err, Null, Number, Opening
  <2>14. ASSUME NEW v, f = Read(v, rest), v[1] = "opening" => v[2] \in Int
         PROVE  Framed(f, Len(b))
    BY <2>7, <2>11, <2>14
  <2>15. Framed(f, Len(b))
    BY <2>9, <2>10, <2>12, <2>13, <2>14
  <2> QED
    BY <2>15 DEF f
<1> QED
  BY <1>1, <1>2

\* A line, and what follows it: where it ends, and what it is made of.
LineParted(b, x, s, r) ==
  /\ b \in Seq(Out) /\ b # <<>> /\ b[1] = x
  /\ LineEnd(b) # {} /\ Min(LineEnd(b)) = Len(s) + 2
  /\ SubSeq(b, 2, Len(s) + 1) = s
  /\ After(b, Len(s) + 3) = r

\* The symbols of a line, one by one.
LineSymbols(l, x, s) ==
  /\ l \in Seq(Out) /\ Len(l) = Len(s) + 3 /\ Len(s) \in Nat
  /\ l[1] = x /\ l[Len(s) + 2] = CR /\ l[Len(s) + 3] = LF
  /\ \A i \in 1 .. Len(s) : l[i + 1] = s[i]

\* Those of a line that is written from its parts.
LEMMA LineSymbolsAre ==
  ASSUME NEW x \in Out, NEW s \in Seq(Out)
  PROVE  LineSymbols((<<x>> \o s) \o EOL, x, s)
<1> DEFINE o == <<x>>
           a == o \o s
           l == a \o EOL
           n == Len(s)
<1>1. EOL \in Seq(Out) /\ Len(EOL) = 2 /\ EOL[1] = CR /\ EOL[2] = LF
  BY OutSymbols
<1>2. n \in Nat /\ s \in Seq(Out) /\ o \in Seq(Out) /\ Len(o) = 1 /\ o[1] = x
  BY LenProperties
<1> HIDE DEF n, o
<1>3. /\ a \in Seq(Out) /\ Len(a) = 1 + n
      /\ \A i \in 1 .. 1 + n : a[i] = IF i <= 1 THEN o[i] ELSE s[i - 1]
  <2>1. /\ o \o s \in Seq(Out) /\ Len(o \o s) = Len(o) + Len(s)
        /\ \A i \in 1 .. Len(o) + Len(s) : (o \o s)[i] = IF i <= Len(o) THEN o[i] ELSE s[i - Len(o)]
    BY <1>2, ConcatProperties
  <2>2. Len(o) = 1 /\ Len(s) = n
    BY <1>2 DEF n
  <2> QED
    BY <2>1, <2>2
<1> HIDE DEF a
<1>4. /\ l \in Seq(Out) /\ Len(l) = 1 + n + 2
      /\ \A i \in 1 .. 1 + n + 2 : l[i] = IF i <= 1 + n THEN a[i] ELSE EOL[i - (1 + n)]
  <2>1. /\ a \o EOL \in Seq(Out) /\ Len(a \o EOL) = Len(a) + Len(EOL)
        /\ \A i \in 1 .. Len(a) + Len(EOL) : (a \o EOL)[i] = IF i <= Len(a) THEN a[i] ELSE EOL[i - Len(a)]
    BY <1>1, <1>3, ConcatProperties
  <2>2. Len(a) = 1 + n /\ Len(EOL) = 2
    BY <1>1, <1>3
  <2> QED
    BY <2>1, <2>2
<1> HIDE DEF l
<1>5. l[1] = x
  <2>1. 1 \in 1 .. 1 + n + 2 /\ 1 \in 1 .. 1 + n /\ 1 <= 1 + n
    BY <1>2
  <2> QED
    BY <1>2, <1>3, <1>4, <2>1
<1>6. l[n + 2] = CR /\ l[n + 3] = LF
  <2>1. /\ n + 2 \in 1 .. 1 + n + 2 /\ ~(n + 2 <= 1 + n) /\ n + 2 - (1 + n) = 1
        /\ n + 3 \in 1 .. 1 + n + 2 /\ ~(n + 3 <= 1 + n) /\ n + 3 - (1 + n) = 2
    BY <1>2
  <2> DEFINE q == n + 2
             p == n + 3
  <2>2. q \in 1 .. 1 + n + 2 /\ ~(q <= 1 + n) /\ q - (1 + n) = 1
        /\ p \in 1 .. 1 + n + 2 /\ ~(p <= 1 + n) /\ p - (1 + n) = 2
    BY <1>2, <2>1
  <2> HIDE DEF p, q
  <2>3. l[q] = EOL[1] /\ l[p] = EOL[2]
    BY <1>4, <2>2
  <2> QED
    BY <1>1, <2>3 DEF p, q
<1>7. ASSUME NEW i \in 1 .. n PROVE l[i + 1] = s[i]
  <2>1. i + 1 \in 1 .. 1 + n + 2 /\ i + 1 <= 1 + n /\ i + 1 \in 1 .. 1 + n /\ ~(i + 1 <= 1) /\ i + 1 - 1 = i
    BY <1>2
  <2> QED
    BY <1>3, <1>4, <2>1
<1>8. Len(l) = n + 3
  BY <1>2, <1>4
<1> QED
  BY <1>2, <1>4, <1>5, <1>6, <1>7, <1>8 DEF LineSymbols, l, a, o, n

\* Where a line ends if there is no line break in it, and what it is made of.
LEMMA LineParting ==
  ASSUME NEW x \in Out, x # CR, NEW s \in Seq(Out), ~LineBreak(s), NEW r \in Seq(Out)
  PROVE  LineParted(((<<x>> \o s) \o EOL) \o r, x, s, r)
<1> DEFINE l == (<<x>> \o s) \o EOL
           b == l \o r
           n == Len(s)
           q == n + 2
<1>1. /\ l \in Seq(Out) /\ Len(l) = n + 3 /\ n \in Nat
      /\ l[1] = x /\ l[n + 2] = CR /\ l[n + 3] = LF
      /\ \A i \in 1 .. n : l[i + 1] = s[i]
  BY LineSymbolsAre DEF LineSymbols
<1>2. Len(r) \in Nat /\ CR # LF
  BY LenProperties, OutSymbols
<1> HIDE DEF l
<1>3. /\ b \in Seq(Out) /\ Len(b) = n + 3 + Len(r)
      /\ \A i \in 1 .. n + 3 + Len(r) : b[i] = IF i <= n + 3 THEN l[i] ELSE r[i - (n + 3)]
  <2>1. /\ l \o r \in Seq(Out) /\ Len(l \o r) = Len(l) + Len(r)
        /\ \A i \in 1 .. Len(l) + Len(r) : (l \o r)[i] = IF i <= Len(l) THEN l[i] ELSE r[i - Len(l)]
    BY <1>1, ConcatProperties
  <2>2. Len(l) = n + 3
    BY <1>1
  <2> QED
    BY <2>1, <2>2
<1>4. After(b, n + 3) = r
  <2>1. After(l \o r, Len(l)) = r
    BY <1>1, AfterConcat
  <2> QED
    BY <1>1, <2>1
<1> HIDE DEF b, n
<1>5. \A i \in 1 .. n + 3 : b[i] = l[i]
  BY <1>1, <1>2, <1>3
<1>6. b[1] = x /\ b[n + 2] = CR /\ b[n + 3] = LF /\ \A i \in 1 .. n : b[i + 1] = s[i]
  <2>1. 1 \in 1 .. n + 3 /\ n + 2 \in 1 .. n + 3 /\ n + 3 \in 1 .. n + 3 /\ \A i \in 1 .. n : i + 1 \in 1 .. n + 3
    BY <1>1
  <2> QED
    BY <1>1, <1>5, <2>1
<1>7. q \in LineEnd(b)
  <2>1. q \in 1 .. Len(b) - 1 /\ q + 1 = n + 3
    BY <1>1, <1>2, <1>3
  <2> QED
    BY <1>6, <2>1 DEF LineEnd
<1>8. ASSUME NEW i \in LineEnd(b) PROVE q <= i
  <2>1. i \in 1 .. Len(b) - 1 /\ b[i] = CR /\ b[i + 1] = LF
    BY DEF LineEnd
  <2>2. SUFFICES ASSUME i < q PROVE FALSE
    BY <1>1, <2>1
  <2>3. i # 1
    BY <1>6, <2>1
  <2>4. CASE i = n + 1
    <3>1. b[i + 1] = CR
      BY <1>1, <1>6, <2>4
    <3> QED
      BY <1>2, <2>1, <3>1
  <2>5. CASE i < n + 1
    <3>1. i - 1 \in 1 .. n - 1 /\ i - 1 \in 1 .. n /\ i \in 1 .. n /\ i - 1 + 1 = i
      BY <1>1, <2>1, <2>3, <2>5
    <3>2. s[i - 1] = CR /\ s[i] = LF
      BY <1>6, <2>1, <3>1
    <3>3. LineBreak(s)
      BY <3>1, <3>2 DEF LineBreak, n
    <3> QED
      BY <3>3
  <2> QED
    BY <1>1, <2>1, <2>2, <2>4, <2>5
<1>9. LineEnd(b) # {} /\ Min(LineEnd(b)) = q
  <2>1. LineEnd(b) \in SUBSET Nat /\ LineEnd(b) # {}
    BY <1>7 DEF LineEnd
  <2>2. Min(LineEnd(b)) \in LineEnd(b) /\ \A m \in LineEnd(b) : Min(LineEnd(b)) <= m
    BY <2>1, MinOf
  <2>3. Min(LineEnd(b)) <= q /\ q <= Min(LineEnd(b)) /\ q \in Nat /\ Min(LineEnd(b)) \in Nat
    BY <1>1, <1>7, <1>8, <2>1, <2>2
  <2> QED
    BY <2>1, <2>3
<1>10. SubSeq(b, 2, n + 1) = s
  <2>1. PICK m \in Int : m = n + 1
    BY <1>1
  <2> DEFINE t == SubSeq(b, 2, m)
  <2>2. \A i \in 2 .. m : b[i] \in Out
    <3>1. \A i \in 2 .. m : i \in 1 .. Len(b)
      BY <1>1, <1>2, <1>3, <2>1
    <3> QED
      BY <1>3, <3>1, ElementOfSeq
  <2>3. /\ t \in Seq(Out)
        /\ Len(t) = IF 2 <= m THEN m - 2 + 1 ELSE 0
        /\ \A i \in 1 .. m - 2 + 1 : t[i] = b[2 + i - 1]
    <3>1. 2 \in Int
      OBVIOUS
    <3> QED
      BY <2>2, <3>1, SubSeqProperties
  <2> HIDE DEF t
  <2>4. Len(t) = n /\ m - 2 + 1 = n /\ \A i \in 1 .. n : 2 + i - 1 = i + 1
    BY <1>1, <2>1, <2>3
  <2>5. \A i \in 1 .. n : t[i] = s[i]
    BY <1>6, <2>3, <2>4
  <2>6. t = s
    BY <2>3, <2>4, <2>5, SeqEqual DEF n
  <2> QED
    BY <2>1, <2>6 DEF t
<1>11. b # <<>>
  <2>1. Len(b) # 0
    BY <1>1, <1>2, <1>3
  <2> QED
    BY <2>1
<1>12. LineParted(b, x, s, r)
  BY <1>3, <1>4, <1>6, <1>9, <1>10, <1>11 DEF LineParted, n
<1> QED
  BY <1>12 DEF b, l

\* So it is read.
LineReadAs(b, x, s, r, u) ==
  DecodeFrame(b, u) = DecodeOf(b, Len(s) + 2, s, r, u) /\ b[1] = x /\ b \in Seq(Out) /\ b # <<>>

\* What follows it does not matter.
LEMMA DecodeLine ==
  ASSUME NEW x \in Out, x # CR, NEW s \in Seq(Out), ~LineBreak(s), NEW r \in Seq(Out), NEW u
  PROVE  LineReadAs(((<<x>> \o s) \o EOL) \o r, x, s, r, u)
<1> DEFINE b == ((<<x>> \o s) \o EOL) \o r
<1>1. LineParted(b, x, s, r)
  BY LineParting
<1> HIDE DEF b
<1>2. LineEnd(b) # {} /\ Min(LineEnd(b)) = Len(s) + 2 /\ SubSeq(b, 2, Len(s) + 1) = s
      /\ After(b, Len(s) + 3) = r /\ b[1] = x /\ b \in Seq(Out) /\ b # <<>>
  BY <1>1 DEF LineParted
<1>3. Len(s) + 2 - 1 = Len(s) + 1 /\ Len(s) + 2 + 1 = Len(s) + 3
  BY LenProperties
<1>4. DecodeFrame(b, u) = DecodeOf(b, Len(s) + 2, s, r, u)
  <2> DEFINE end == Min(LineEnd(b))
  <2>1. DecodeFrame(b, u) = DecodeOf(b, end, SubSeq(b, 2, end - 1), After(b, end + 1), u)
    BY <1>2, DecodeParts
  <2>2. end = Len(s) + 2 /\ end - 1 = Len(s) + 1 /\ end + 1 = Len(s) + 3
    BY <1>2, <1>3
  <2> HIDE DEF end
  <2>3. SubSeq(b, 2, end - 1) = s /\ After(b, end + 1) = r
    BY <1>2, <2>2
  <2> QED
    BY <2>1, <2>2, <2>3
<1> QED
  BY <1>2, <1>4 DEF LineReadAs, b

-----------------------------------------------------------------------------
(* One value after another                                                *)

\* The frames of what is to be read, and what is read of its rests.
DecodeFrames(b, u) == [m \in 0 .. Len(b) |-> DecodeFrame(After(b, Len(b) - m), u)]

Decodings(b, u) == Values(DecodeFrames(b, u), b)

\* Every frame is shorter than what it is read from.
LEMMA DecodeFramesAre ==
  ASSUME NEW b \in Seq(Out), NEW u
  PROVE  /\ AllFramed(DecodeFrames(b, u), Len(b))
         /\ \A m \in 0 .. Len(b) : DecodeFrames(b, u)[m] = DecodeFrame(After(b, Len(b) - m), u)
<1>1. \A m \in 0 .. Len(b) : DecodeFrames(b, u)[m] = DecodeFrame(After(b, Len(b) - m), u)
  BY DEF DecodeFrames
<1>2. ASSUME NEW m \in 0 .. Len(b) PROVE Framed(DecodeFrames(b, u)[m], m)
  <2>1. Len(b) \in Nat
    BY LenProperties
  <2>2. PICK k \in 0 .. Len(b) : k = Len(b) - m
    <3>1. Len(b) - m \in 0 .. Len(b)
      BY <2>1
    <3> QED
      BY <3>1
  <2>3. After(b, k) \in Seq(Out) /\ Len(After(b, k)) = Len(b) - k
    BY AfterParts
  <2>4. Len(b) - k = m
    BY <2>1, <2>2
  <2> DEFINE c == After(b, k)
  <2>5. c \in Seq(Out) /\ Len(c) = m
    BY <2>3, <2>4
  <2> HIDE DEF c
  <2>6. Framed(DecodeFrame(c, u), Len(c))
    BY <2>5, DecodeFramed
  <2>7. DecodeFrames(b, u)[m] = DecodeFrame(c, u)
    BY <1>1, <2>2 DEF c
  <2> QED
    BY <2>5, <2>6, <2>7
<1> QED
  BY <1>1, <1>2 DEF AllFramed

\* What is read of the rest of a text.
LEMMA DecodingAt ==
  ASSUME NEW b, NEW s, IsRest(s, b, Out), NEW u, NEW c \in Int
  PROVE  Decodings(b, u)[Len(s)][c] = Elements(Decodings(b, u), DecodeFrame(s, u), s, c)
<1> DEFINE frame == DecodeFrames(b, u)
<1>1. b \in Seq(Out) /\ After(b, Len(b) - Len(s)) = s /\ Len(s) \in 0 .. Len(b)
  BY DEF IsRest
<1>2. AllFramed(frame, Len(b)) /\ frame[Len(s)] = DecodeFrame(After(b, Len(b) - Len(s)), u)
  BY <1>1, DecodeFramesAre
<1>3. frame[Len(s)] = DecodeFrame(s, u)
  BY <1>1, <1>2
<1> HIDE DEF frame
<1>4. Values(frame, b)[Len(s)][c] = Elements(Values(frame, b), frame[Len(s)], s, c)
  BY <1>1, <1>2, ReadsHere
<1> QED
  BY <1>3, <1>4 DEF frame, Decodings

\* To read values at s is to read v, and the others at r.
Begins(b, u, s, v, r) ==
  \A c \in Int : c > 0 => Decodings(b, u)[Len(s)][c] = Before(v, Decodings(b, u)[Len(r)][c - 1])

\* So it is with a value that is one frame ...
LEMMA BeginsOne ==
  ASSUME NEW b, NEW s, IsRest(s, b, Out), NEW u, NEW v, v[1] # "opening", NEW r,
         DecodeFrame(s, u) = Read(v, r)
  PROVE  Begins(b, u, s, v, r)
<1> DEFINE read == Decodings(b, u)
<1>1. SUFFICES ASSUME NEW c \in Int, c > 0 PROVE read[Len(s)][c] = Before(v, read[Len(r)][c - 1])
  BY Zenon DEF Begins
<1>2. read[Len(s)][c] = Elements(read, Read(v, r), s, c)
  BY DecodingAt
<1> HIDE DEF read
<1>3. Elements(read, Read(v, r), s, c) = Before(v, read[Len(r)][c - 1])
  BY <1>1, ElementsOne
<1> QED
  BY <1>2, <1>3

\* ... and with a list.
LEMMA BeginsList ==
  ASSUME NEW b, NEW s, IsRest(s, b, Out), NEW u, NEW n, NEW rest, NEW v, NEW r,
         DecodeFrame(s, u) = Read(Opening(n), rest), Decodings(b, u)[Len(rest)][n] = Read(v, r)
  PROVE  Begins(b, u, s, v, r)
<1> DEFINE read == Decodings(b, u)
           first == read[Len(rest)][n]
<1>1. SUFFICES ASSUME NEW c \in Int, c > 0 PROVE read[Len(s)][c] = Before(v, read[Len(r)][c - 1])
  BY Zenon DEF Begins
<1>2. read[Len(s)][c] = Elements(read, Read(Opening(n), rest), s, c)
  BY DecodingAt
<1>3. first = Read(v, r) /\ first = read[Len(rest)][n]
  OBVIOUS
<1> HIDE DEF read, first
<1>4. first[1] = "value" /\ first[2] = v /\ first[3] = r
  BY <1>3 DEF Read
<1>5. first[1] = "value" => Elements(read, Read(Opening(n), rest), s, c)
                              = Before(first[2], read[Len(first[3])][c - 1])
  BY <1>1, <1>3, ElementsList
<1> QED
  BY <1>2, <1>4, <1>5

\* The reader makes v of e, wherever e stands and whatever follows it; e is no map.
Encodes(e, v, u) ==
  /\ e \in Seq(Out) /\ e # <<>> /\ e[1][1] # "%"
  /\ \A b, r \in Seq(Out) : IsRest(e \o r, b, Out) => Begins(b, u, e \o r, v, r)

AllEncode(es, vs, u) == \A i \in 1 .. Len(es) : Encodes(es[i], vs[i], u)

\* The rests of texts in a row are rests of all of which they are.
LEMMA BeyondOf ==
  ASSUME NEW S, NEW es \in Seq(Seq(S)), NEW k \in 0 .. Len(es), NEW r \in Seq(S), NEW b,
         IsRest(FlattenSeq(es) \o r, b, S)
  PROVE  IsRest(Beyond(es, k) \o r, b, S)
<1> DEFINE up == Upto(es, k)
           bey == Beyond(es, k)
<1>1. bey \in Seq(S) /\ up \in Seq(S) /\ FlattenSeq(es) = up \o bey
  BY BeyondParts, UptoNext
<1> HIDE DEF up, bey
<1>2. Regroups(up, bey, r, S)
  BY <1>1, Regrouped
<1> DEFINE m == bey \o r
<1>3. (up \o bey) \o r = up \o m /\ m \in Seq(S)
  BY <1>2 DEF Regroups
<1> HIDE DEF m
<1>4. IsRest(up \o m, b, S)
  BY <1>1, <1>3
<1>5. IsRest(m, b, S)
  BY <1>1, <1>3, <1>4, RestOfRest
<1> QED
  BY <1>5 DEF m, bey

\* Values in a row are read one by one.
LEMMA SeriesReads ==
  ASSUME NEW es \in Seq(Seq(Out)), NEW V, NEW vs \in Seq(V), Len(vs) = Len(es), NEW u,
         AllEncode(es, vs, u), NEW r \in Seq(Out), NEW b, IsRest(FlattenSeq(es) \o r, b, Out)
  PROVE  Decodings(b, u)[Len(FlattenSeq(es) \o r)][Len(vs)] = Read(List(vs), r)
<1> DEFINE n == Len(es)
           read == Decodings(b, u)
           At(k, j) == read[Len(Beyond(es, k) \o r)][j] = Read(List(After(vs, k)), r)
           T == {j \in Nat : \A k \in 0 .. n : k + j = n => At(k, j)}
<1>1. n \in Nat /\ Len(vs) = n /\ b \in Seq(Out) /\ \A i \in 1 .. n : es[i] \in Seq(Out)
  BY LenProperties, ElementOfSeq DEF IsRest
<1>2. ASSUME NEW k \in 0 .. n PROVE IsRest(Beyond(es, k) \o r, b, Out)
  BY BeyondOf
<1>3. At(n, 0)
  <2>1. Beyond(es, n) = <<>> /\ After(vs, n) = <<>>
    BY <1>1, BeyondNext, AfterNext
  <2>2. <<>> \o r = r /\ 0 \in Int /\ 0 <= 0
    BY ConcatEmptySeq
  <2>3. n \in 0 .. n
    BY <1>1
  <2>4. IsRest(r, b, Out)
    BY <1>2, <2>1, <2>2, <2>3
  <2>5. read[Len(r)][0] = Elements(read, DecodeFrame(r, u), r, 0)
    BY <2>2, <2>4, DecodingAt
  <2> HIDE DEF read
  <2>6. Elements(read, DecodeFrame(r, u), r, 0) = Read(List(<<>>), r)
    BY <2>2, ElementsNone
  <2> QED
    BY <2>1, <2>2, <2>5, <2>6
<1>4. ASSUME NEW j \in Nat, NEW k \in 0 .. n, NEW i \in 0 .. n, NEW q \in Nat,
             q = j + 1, i = k + 1, i + j = n, At(i, j)
      PROVE  At(k, q)
  <2> DEFINE rest == Beyond(es, i) \o r
             s == Beyond(es, k) \o r
             v == vs[i]
             e == es[i]
  <2>1. i \in 1 .. n /\ k \in 0 .. n - 1 /\ q \in Int /\ q > 0 /\ q - 1 = j
    BY <1>1, <1>4
  <2>2. e \in Seq(Out) /\ Encodes(e, v, u)
    BY <1>1, <2>1 DEF AllEncode
  <2>3. s = e \o rest /\ rest \in Seq(Out)
    <3>1. Beyond(es, i) \in Seq(Out) /\ Beyond(es, k) = e \o Beyond(es, i)
      BY <1>1, <1>4, <2>1, BeyondParts, BeyondNext
    <3>2. Regroups(e, Beyond(es, i), r, Out)
      BY <2>2, <3>1, Regrouped
    <3> QED
      BY <3>1, <3>2 DEF Regroups
  <2>4. IsRest(s, b, Out)
    BY <1>2
  <2>5. After(vs, k) = <<v>> \o After(vs, i)
    <3>1. k \in 0 .. Len(vs) /\ i \in 0 .. Len(vs) /\ k + 1 = i
      BY <1>1, <1>4
    <3> HIDE DEF At, T
    <3> QED
      BY <1>1, <3>1, AfterNext
  <2>6. read[Len(rest)][j] = Read(List(After(vs, i)), r)
    BY <1>4
  <2> HIDE DEF rest, s, v, e, read
  <2>7. Begins(b, u, e \o rest, v, rest)
    BY <1>1, <2>2, <2>3, <2>4 DEF Encodes
  <2>8. read[Len(s)][q] = Before(v, read[Len(rest)][q - 1])
    BY <2>1, <2>3, <2>7 DEF Begins, read
  <2>9. Before(v, Read(List(After(vs, i)), r)) = Read(List(<<v>> \o After(vs, i)), r)
    BY DEF Before, Read, List
  <2>10. read[Len(s)][q] = Read(List(After(vs, k)), r)
    BY <2>1, <2>5, <2>6, <2>8, <2>9
  <2> QED
    BY <2>10 DEF s
<1> HIDE DEF At
<1>5. 0 \in T
  <2>1. ASSUME NEW k \in 0 .. n, k + 0 = n PROVE k = n
    BY <1>1, <2>1
  <2> QED
    BY <1>3, <2>1
<1>6. ASSUME NEW j \in T PROVE j + 1 \in T
  <2>1. SUFFICES ASSUME NEW k \in 0 .. n, k + (j + 1) = n PROVE At(k, j + 1)
    OBVIOUS
  <2>2. PICK q \in Nat : q = j + 1
    OBVIOUS
  <2>3. PICK i \in 0 .. n : i = k + 1 /\ i + j = n
    <3>1. k + 1 \in 0 .. n /\ k + 1 + j = n
      BY <1>1, <2>1
    <3> QED
      BY <3>1
  <2>4. At(i, j) /\ j \in Nat
    BY <2>3
  <2>5. At(k, q)
    <3> HIDE DEF T
    <3> QED
      BY <1>4, <2>2, <2>3, <2>4
  <2> QED
    BY <2>2, <2>5
<1>7. n \in T
  <2> HIDE DEF T
  <2>1. T \in SUBSET Nat
    BY DEF T
  <2>2. T = Nat
    BY <1>5, <1>6, <2>1, EveryNumber
  <2> QED
    BY <1>1, <2>2
<1>8. At(0, n)
  BY <1>1, <1>7
<1>9. Beyond(es, 0) = FlattenSeq(es) /\ After(vs, 0) = vs
  BY BeyondNext, AfterNext
<1> QED
  BY <1>1, <1>8, <1>9 DEF At

\* What a line that begins with x and holds s is read as.
ReadAs(x, s, v, u) == \A b, r : b[1] = x => DecodeOf(b, Len(s) + 2, s, r, u) = Read(v, r)

\* A line is read as that wherever it stands.
LEMMA LineEncodes ==
  ASSUME NEW x \in Out, x # CR, x[1] # "%", NEW s \in Seq(Out), ~LineBreak(s),
         NEW v, v[1] # "opening", NEW u, ReadAs(x, s, v, u)
  PROVE  Encodes((<<x>> \o s) \o EOL, v, u)
<1> DEFINE e == (<<x>> \o s) \o EOL
<1>1. e \in Seq(Out) /\ e # <<>> /\ e[1] = x
  <2>1. LineSymbols(e, x, s)
    BY LineSymbolsAre
  <2> HIDE DEF e
  <2>2. e \in Seq(Out) /\ Len(e) = Len(s) + 3 /\ Len(s) \in Nat /\ e[1] = x
    BY <2>1 DEF LineSymbols
  <2>3. e # <<>>
    BY <2>2, EmptySeq
  <2> QED
    BY <2>2, <2>3
<1>2. ASSUME NEW b \in Seq(Out), NEW r \in Seq(Out), IsRest(e \o r, b, Out)
      PROVE  Begins(b, u, e \o r, v, r)
  <2> DEFINE t == e \o r
  <2>0. t = ((<<x>> \o s) \o EOL) \o r
    OBVIOUS
  <2> HIDE DEF t, e
  <2>5. LineReadAs(((<<x>> \o s) \o EOL) \o r, x, s, r, u)
    BY DecodeLine
  <2>1. DecodeFrame(t, u) = DecodeOf(t, Len(s) + 2, s, r, u) /\ t[1] = x
    BY <2>0, <2>5 DEF LineReadAs
  <2>2. DecodeFrame(t, u) = Read(v, r)
    BY <2>1 DEF ReadAs
  <2>3. IsRest(t, b, Out)
    BY <1>2 DEF t
  <2>4. Begins(b, u, t, v, r)
    BY <2>2, <2>3, BeginsOne
  <2> QED
    BY <2>4 DEF t
<1> HIDE DEF e
<1>3. Encodes(e, v, u)
  BY <1>1, <1>2 DEF Encodes
<1> QED
  BY <1>3 DEF e

\* No text has no line break.
LEMMA NoText == <<>> \in Seq(Out) /\ ~LineBreak(<<>>) /\ Len(<<>>) = 0
BY EmptySeq DEF LineBreak

\* A header, symbol by symbol.
HeaderParts(l, h, p, n) ==
  /\ l = (<<h>> \o <<>>) \o EOL /\ l \in Seq(Out)
  /\ Len(l) = 3 /\ l[1] = h /\ l[2] = CR /\ l[3] = LF
  /\ h \in Out /\ h # CR /\ Len(h) = 2 /\ h[1] = p /\ h[2] = n

\* It is a line without a text.
LEMMA HeaderLine ==
  ASSUME NEW p \in {":", "$", "*", "%"}, NEW n \in Int
  PROVE  HeaderParts(Header(p, n), <<p, n>>, p, n)
<1> DEFINE h == <<p, n>>
           o == <<h>>
<1>1. h \in Out /\ h # CR /\ h[1] = p /\ h[2] = n /\ Len(h) = 2
  BY OutSymbols DEF CR
<1> HIDE DEF h
<1>2. o \in Seq(Out) /\ o \o <<>> = o
  BY <1>1, ConcatEmptySeq
<1>3. <<>> \in Seq(Out) /\ ~LineBreak(<<>>) /\ Len(<<>>) = 0
  BY EmptySeq DEF LineBreak
<1>4. Header(p, n) = o \o EOL
  BY DEF Header, h
<1>5. Header(p, n) = (o \o <<>>) \o EOL
  BY <1>2, <1>4
<1>6. LineSymbols((o \o <<>>) \o EOL, h, <<>>)
  BY <1>1, <1>3, LineSymbolsAre
<1>7. /\ Header(p, n) \in Seq(Out) /\ Len(Header(p, n)) = 3 /\ Header(p, n)[1] = h
      /\ Header(p, n)[2] = CR /\ Header(p, n)[3] = LF
  BY <1>3, <1>5, <1>6 DEF LineSymbols
<1> QED
  BY <1>1, <1>5, <1>7 DEF HeaderParts, h

\* A header, and what it announces.
HeaderReadAs(b, p, n, rest, u) ==
  /\ DecodeFrame(b, u) = DecodeOf(b, 2, <<>>, rest, u)
  /\ b[1][1] = p /\ b[1][2] = n /\ Len(b[1]) = 2 /\ b \in Seq(Out) /\ b # <<>>

\* What a header is read as.
LEMMA HeaderReads ==
  ASSUME NEW p \in {":", "$", "*", "%"}, NEW n \in Int, NEW rest \in Seq(Out), NEW u
  PROVE  HeaderReadAs(Header(p, n) \o rest, p, n, rest, u)
<1> DEFINE h == <<p, n>>
           b == Header(p, n) \o rest
<1>0. HeaderParts(Header(p, n), h, p, n)
  BY HeaderLine
<1> HIDE DEF h
<1>1. /\ Header(p, n) = (<<h>> \o <<>>) \o EOL
      /\ h \in Out /\ h # CR /\ h[1] = p /\ h[2] = n /\ Len(h) = 2
      /\ <<>> \in Seq(Out) /\ ~LineBreak(<<>>)
  BY <1>0, NoText DEF HeaderParts
<1>2. PICK none : none = <<>>
  OBVIOUS
<1>3. b = ((<<h>> \o none) \o EOL) \o rest
  BY <1>1, <1>2
<1> HIDE DEF b
<1>4. none \in Seq(Out) /\ ~LineBreak(none) /\ Len(none) + 2 = 2
  BY <1>1, <1>2
<1>7. LineReadAs(((<<h>> \o none) \o EOL) \o rest, h, none, rest, u)
  BY <1>1, <1>4, DecodeLine
<1>5. /\ DecodeFrame(b, u) = DecodeOf(b, Len(none) + 2, none, rest, u)
      /\ b[1] = h /\ b \in Seq(Out) /\ b # <<>>
  BY <1>3, <1>7 DEF LineReadAs
<1>6. b[1][1] = p /\ b[1][2] = n /\ Len(b[1]) = 2
  BY <1>1, <1>5
<1> QED
  BY <1>2, <1>4, <1>5, <1>6 DEF HeaderReadAs, b

\* What the texts of lines are read as.
LEMMA TextEncodes ==
  ASSUME NEW s \in Seq(Out), ~LineBreak(s), NEW u
  PROVE  /\ Encodes((<<<<"+">>>> \o s) \o EOL, Str(s), u)
         /\ Encodes((<<<<"-">>>> \o s) \o EOL, Err(s), u)
<1> DEFINE x == <<"+">>
           y == <<"-">>
<1>1. /\ x \in Out /\ x # CR /\ x[1] = "+"
      /\ y \in Out /\ y # CR /\ y[1] = "-"
  <2>1. "+" \in OwnWords /\ "-" \in OwnWords
    BY DEF OwnWords
  <2> QED
    BY <2>1, OutSymbols DEF CR
<1> HIDE DEF x, y
<1>2. ReadAs(x, s, Str(s), u) /\ ReadAs(y, s, Err(s), u)
  BY <1>1 DEF ReadAs, DecodeOf
<1>3. Str(s)[1] # "opening" /\ Err(s)[1] # "opening"
  BY DEF Str, Err
<1>4. Encodes((<<x>> \o s) \o EOL, Str(s), u)
  BY <1>1, <1>2, <1>3, LineEncodes
<1>5. Encodes((<<y>> \o s) \o EOL, Err(s), u)
  BY <1>1, <1>2, <1>3, LineEncodes
<1> QED
  BY <1>4, <1>5 DEF x, y

\* A number.
LEMMA NumberEncodes ==
  ASSUME NEW n \in Int, NEW u
  PROVE  Encodes(Header(":", n), Number(n), u)
<1> DEFINE h == <<":", n>>
<1>0. HeaderParts(Header(":", n), h, ":", n)
  BY HeaderLine
<1> HIDE DEF h
<1>1. /\ Header(":", n) = (<<h>> \o <<>>) \o EOL
      /\ h \in Out /\ h # CR /\ h[1] = ":" /\ h[2] = n /\ Len(h) = 2
      /\ <<>> \in Seq(Out) /\ ~LineBreak(<<>>)
  BY <1>0, NoText DEF HeaderParts
<1>2. ReadAs(h, <<>>, Number(n), u)
  <2> SUFFICES ASSUME NEW b, NEW r, b[1] = h
               PROVE  DecodeOf(b, Len(<<>>) + 2, <<>>, r, u) = Read(Number(n), r)
    BY Zenon DEF ReadAs
  <2>1. DecodeOf(b, Len(<<>>) + 2, <<>>, r, u) = Read(Number(h[2]), r)
    BY <1>1 DEF DecodeOf
  <2> QED
    BY <1>1, <2>1
<1>3. Number(n)[1] # "opening" /\ h[1] # "%"
  BY <1>1 DEF Number
<1>4. Encodes((<<h>> \o <<>>) \o EOL, Number(n), u)
  BY <1>1, <1>2, <1>3, LineEncodes
<1> QED
  BY <1>1, <1>4

\* A null, as the version has it.
LEMMA NullEncodes ==
  ASSUME NEW u \in {2, 3}
  PROVE  Encodes(EncodeNull(u), Null, u)
<1> DEFINE x == <<"_">>
           h == <<"$", -1>>
<1>1. Null[1] # "opening"
  BY DEF Null
<1> HIDE DEF h
<1>2. CASE u = 3
  <2>1. x \in Out /\ x # CR /\ x[1] = "_"
    <3>1. "_" \in OwnWords
      BY DEF OwnWords
    <3> QED
      BY <3>1, OutSymbols DEF CR
  <2>2. EncodeNull(u) = <<x>> \o EOL
    BY <1>2 DEF EncodeNull
  <2> HIDE DEF x
  <2> DEFINE o == <<x>>
  <2>3. o \in Seq(Out)
    <3>1. x \in Out
      BY <2>1
    <3> QED
      BY <3>1
  <2> HIDE DEF o
  <2>9. o \o <<>> = o
    BY <2>3, ConcatEmptySeq
  <2>4. EncodeNull(u) = (<<x>> \o <<>>) \o EOL
    BY <2>2, <2>9 DEF o
  <2>5. <<>> \in Seq(Out) /\ ~LineBreak(<<>>) /\ x[1] # "%"
    BY <2>1, NoText
  <2>6. ReadAs(x, <<>>, Null, u)
    BY <1>2, <2>1 DEF ReadAs, DecodeOf
  <2>7. Encodes((<<x>> \o <<>>) \o EOL, Null, u)
    BY <1>1, <2>1, <2>5, <2>6, LineEncodes
  <2> QED
    BY <2>4, <2>7
<1>3. CASE u = 2
  <2>0. HeaderParts(Header("$", -1), h, "$", -1)
    BY HeaderLine DEF h
  <2>1. /\ Header("$", -1) = (<<h>> \o <<>>) \o EOL
        /\ h \in Out /\ h # CR /\ h[1] = "$" /\ h[2] = -1 /\ Len(h) = 2
        /\ <<>> \in Seq(Out) /\ ~LineBreak(<<>>)
    BY <2>0, NoText DEF HeaderParts
  <2>2. EncodeNull(u) = Header("$", -1)
    BY <1>3 DEF EncodeNull, Header
  <2> HIDE DEF h
  <2>3. ReadAs(h, <<>>, Null, u)
    BY <1>3, <2>1 DEF ReadAs, DecodeOf
  <2>4. h[1] # "%"
    BY <2>1
  <2>5. Encodes((<<h>> \o <<>>) \o EOL, Null, u)
    BY <1>1, <2>1, <2>3, <2>4, LineEncodes
  <2> QED
    BY <2>1, <2>2, <2>5
<1> QED
  BY <1>2, <1>3

\* A bulk string is its header, and what follows.
LEMMA BulkOut ==
  ASSUME NEW s \in Seq(Out)
  PROVE  /\ BulkString(s) = Header("$", Len(s)) \o (s \o EOL)
         /\ s \o EOL \in Seq(Out) /\ Len(s \o EOL) = Len(s) + 2 /\ Len(s) \in Nat
         /\ Header("$", Len(s)) \in Seq(Out)
<1> DEFINE n == Len(s)
           l == Header("$", n)
           m == s \o EOL
<1>1. n \in Nat /\ EOL \in Seq(Out) /\ Len(EOL) = 2
  BY LenProperties, OutSymbols
<1>2. l \in Seq(Out)
  <2> HIDE DEF n
  <2>1. n \in Int
    BY <1>1
  <2>2. HeaderParts(Header("$", n), <<"$", n>>, "$", n)
    BY <2>1, HeaderLine
  <2> QED
    BY <2>2 DEF HeaderParts
<1>3. BulkString(s) = (l \o s) \o EOL
  BY DEF BulkString
<1> HIDE DEF l
<1>4. Regroups(l, s, EOL, Out) /\ Joins(s, EOL, Out)
  BY <1>1, <1>2, Regrouped, Joined
<1>5. BulkString(s) = l \o m /\ m \in Seq(Out) /\ Len(m) = n + 2
  BY <1>1, <1>3, <1>4 DEF Regroups, Joins
<1> QED
  BY <1>1, <1>2, <1>5 DEF l

\* It is read as what it was made of, whatever it holds and whatever follows.
LEMMA BulkDecodes ==
  ASSUME NEW s \in Seq(Out), NEW r \in Seq(Out), NEW u
  PROVE  DecodeFrame(BulkString(s) \o r, u) = Read(Str(s), r)
<1> DEFINE n == Len(s)
           l == Header("$", n)
           m == s \o EOL
           rest == m \o r
           b == BulkString(s) \o r
<1>1. /\ BulkString(s) = l \o m /\ m \in Seq(Out) /\ Len(m) = n + 2 /\ n \in Nat
      /\ EOL \in Seq(Out) /\ Len(r) \in Nat /\ l \in Seq(Out)
  BY BulkOut, LenProperties, OutSymbols
<1>2. SubSeq(rest, 1, n) = s
  <2>1. Regroups(s, EOL, r, Out)
    BY <1>1, Regrouped
  <2>2. rest = s \o (EOL \o r) /\ EOL \o r \in Seq(Out)
    BY <2>1 DEF Regroups
  <2>3. SubSeq(s \o (EOL \o r), 1, Len(s)) = s
    BY <2>2, AfterConcat
  <2> QED
    BY <2>2, <2>3
<1> HIDE DEF m, l
<1>3. Joins(m, r, Out)
  BY <1>1, Joined
<1>4. After(rest, n + 2) = r
  <2>1. After(m \o r, Len(m)) = r
    BY <1>1, AfterConcat
  <2> QED
    BY <1>1, <2>1
<1>5. rest \in Seq(Out) /\ Len(rest) >= n + 2
  BY <1>1, <1>3 DEF Joins
<1>6. b = l \o rest
  <2>1. Regroups(l, m, r, Out)
    BY <1>1, Regrouped
  <2> QED
    BY <1>1, <2>1 DEF Regroups
<1> HIDE DEF rest, n, b
<1>7. HeaderReadAs(b, "$", n, rest, u)
  <2>1. n \in Int
    BY <1>1
  <2>2. HeaderReadAs(Header("$", n) \o rest, "$", n, rest, u)
    BY <1>5, <2>1, HeaderReads
  <2> QED
    BY <1>6, <2>2 DEF l
<1>8. DecodeOf(b, 2, <<>>, rest, u) = Read(Str(SubSeq(rest, 1, n)), After(rest, n + 2))
  <2>1. b[1][1] = "$" /\ b[1][2] = n /\ Len(b[1]) = 2 /\ n >= 0
    BY <1>1, <1>7 DEF HeaderReadAs
  <2> QED
    BY <1>5, <2>1 DEF DecodeOf
<1> QED
  BY <1>2, <1>4, <1>7, <1>8 DEF HeaderReadAs, b

\* So it can stand anywhere.
LEMMA BulkEncodes ==
  ASSUME NEW s \in Seq(Out), NEW u
  PROVE  Encodes(BulkString(s), Str(s), u)
<1> DEFINE e == BulkString(s)
           n == Len(s)
           m == s \o EOL
<1>1. e = Header("$", n) \o m /\ m \in Seq(Out) /\ n \in Nat
  BY BulkOut
<1> HIDE DEF e, m, n
<1>2. e \in Seq(Out) /\ e # <<>> /\ e[1][1] # "%"
  <2>1. n \in Int
    BY <1>1
  <2>2. HeaderReadAs(Header("$", n) \o m, "$", n, m, u)
    BY <1>1, <2>1, HeaderReads
  <2> QED
    BY <1>1, <2>2 DEF HeaderReadAs
<1>3. ASSUME NEW b \in Seq(Out), NEW r \in Seq(Out), IsRest(e \o r, b, Out)
      PROVE  Begins(b, u, e \o r, Str(s), r)
  <2> DEFINE t == e \o r
             v == Str(s)
  <2>1. DecodeFrame(t, u) = Read(v, r)
    BY BulkDecodes DEF e
  <2>2. v[1] # "opening"
    BY DEF Str
  <2>3. IsRest(t, b, Out)
    BY <1>3
  <2> HIDE DEF t, v
  <2>4. Begins(b, u, t, v, r)
    BY <2>1, <2>2, <2>3, BeginsOne
  <2> QED
    BY <2>4 DEF t, v
<1>4. Encodes(e, Str(s), u)
  BY <1>2, <1>3 DEF Encodes
<1> QED
  BY <1>4 DEF e

\* A list is read as its elements are.
LEMMA ListEncodes ==
  ASSUME NEW es \in Seq(Seq(Out)), NEW V, NEW vs \in Seq(V), Len(vs) = Len(es), NEW u,
         AllEncode(es, vs, u)
  PROVE  Encodes(Header("*", Len(vs)) \o FlattenSeq(es), List(vs), u)
<1> DEFINE n == Len(vs)
           l == Header("*", n)
           m == FlattenSeq(es)
           e == l \o m
           v == List(vs)
<1>1. n \in Nat /\ n \in Int /\ m \in Seq(Out)
  BY LenProperties, FlattenType
<1>2. l \in Seq(Out)
  <2> HIDE DEF n
  <2>1. HeaderParts(Header("*", n), <<"*", n>>, "*", n)
    BY <1>1, HeaderLine
  <2> QED
    BY <2>1 DEF HeaderParts
<1> HIDE DEF n, m
<1>3. e \in Seq(Out) /\ e # <<>> /\ e[1][1] # "%"
  <2>1. HeaderReadAs(Header("*", n) \o m, "*", n, m, u)
    BY <1>1, HeaderReads
  <2> QED
    BY <2>1 DEF HeaderReadAs
<1>4. ASSUME NEW b \in Seq(Out), NEW r \in Seq(Out), IsRest(e \o r, b, Out)
      PROVE  Begins(b, u, e \o r, v, r)
  <2> DEFINE t == e \o r
             rest == m \o r
  <2> HIDE DEF l
  <2>1. Regroups(l, m, r, Out)
    BY <1>1, <1>2, Regrouped
  <2>2. t = l \o rest /\ rest \in Seq(Out)
    BY <2>1 DEF Regroups
  <2>3. IsRest(t, b, Out)
    BY <1>4
  <2> HIDE DEF t, rest
  <2>4. IsRest(rest, b, Out)
    BY <1>2, <2>2, <2>3, RestOfRest
  <2>5. Decodings(b, u)[Len(rest)][n] = Read(v, r)
    <3>1. IsRest(FlattenSeq(es) \o r, b, Out)
      BY <2>4 DEF rest, m
    <3>2. Decodings(b, u)[Len(FlattenSeq(es) \o r)][Len(vs)] = Read(List(vs), r)
      BY <3>1, SeriesReads
    <3> QED
      BY <3>2 DEF rest, m, n
  <2>6. HeaderReadAs(Header("*", n) \o rest, "*", n, rest, u)
    BY <1>1, <2>2, HeaderReads
  <2>7. DecodeFrame(t, u) = Read(Opening(n), rest)
    <3>1. HeaderReadAs(t, "*", n, rest, u)
      BY <2>2, <2>6 DEF l
    <3> QED
      BY <3>1 DEF HeaderReadAs, DecodeOf
  <2> HIDE DEF v
  <2>8. Begins(b, u, t, v, r)
    BY <2>3, <2>5, <2>7, BeginsList
  <2> QED
    BY <2>8 DEF t
<1> HIDE DEF e
<1>5. Encodes(e, v, u)
  BY <1>3, <1>4 DEF Encodes
<1> QED
  BY <1>5 DEF e, v, n, m, l

\* What Decode makes of what is read of a stream that is not, or is, a map.
LEMMA DecodeIs ==
  ASSUME NEW b, NEW u
  PROVE  LET isMap  == Len(b) >= 3 /\ b[1][1] = "%" /\ SubSeq(b, 2, 3) = EOL /\ u = 3
             one    == Decodings(b, u)[Len(b)][1]
             fields == Decodings(b, u)[Len(b) - 3][2 * b[1][2]]
         IN  /\ ~isMap /\ one[1] = "value" => Decode(b, u) = Read(one[2][2][1], one[3])
             /\ isMap /\ fields[1] = "value" => Decode(b, u) = Read(Map(fields[2][2]), fields[3])
BY Zenon DEF Decode, One, Decodings, DecodeFrames

\* The only value is read.
LEMMA DecodeOne ==
  ASSUME NEW e, NEW v, NEW u, Encodes(e, v, u), NEW r \in Seq(Out)
  PROVE  Decode(e \o r, u) = Read(v, r)
<1> DEFINE b == e \o r
           read == Decodings(b, u)
           one == read[Len(b)][1]
           w == Read(List(<<v>> \o <<>>), r)
<1>1. e \in Seq(Out) /\ e # <<>> /\ e[1][1] # "%"
  BY DEF Encodes
<1>2. b \in Seq(Out) /\ b[1] = e[1]
  <2>1. /\ b \in Seq(Out) /\ Len(e) \in Nat
        /\ \A i \in 1 .. Len(e) + Len(r) : b[i] = IF i <= Len(e) THEN e[i] ELSE r[i - Len(e)]
    BY <1>1, ConcatProperties, LenProperties
  <2>2. Len(e) # 0 /\ Len(r) \in Nat
    BY <1>1, EmptySeq, LenProperties
  <2>3. 1 \in 1 .. Len(e) + Len(r) /\ 1 <= Len(e)
    BY <2>1, <2>2
  <2> QED
    BY <2>1, <2>3
<1>3. IsRest(b, b, Out) /\ IsRest(r, b, Out)
  <2>1. IsRest(r, e \o r, Out)
    BY <1>1, RestIs
  <2> QED
    BY <1>2, <2>1, RestItself
<1> HIDE DEF b
<1>4. Begins(b, u, b, v, r)
  BY <1>1, <1>2, <1>3 DEF Encodes, b
<1>5. read[Len(r)][0] = Read(List(<<>>), r)
  <2>1. 0 \in Int /\ 0 <= 0
    OBVIOUS
  <2>2. read[Len(r)][0] = Elements(read, DecodeFrame(r, u), r, 0)
    BY <1>3, <2>1, DecodingAt
  <2> HIDE DEF read
  <2>3. Elements(read, DecodeFrame(r, u), r, 0) = Read(List(<<>>), r)
    BY <2>1, ElementsNone
  <2> QED
    BY <2>2, <2>3
<1>6. one = Before(v, read[Len(r)][1 - 1])
  <2>1. 1 \in Int /\ 1 > 0
    OBVIOUS
  <2> QED
    BY <1>4, <2>1 DEF Begins
<1>7. one = w
  <2>1. 1 - 1 = 0
    OBVIOUS
  <2>2. one = Before(v, Read(List(<<>>), r))
    BY <1>5, <1>6, <2>1
  <2>3. Before(v, Read(List(<<>>), r)) = w
    BY DEF Before, Read, List
  <2> QED
    BY <2>2, <2>3
<1>8. w[1] = "value" /\ w[3] = r /\ w[2][2][1] = v
  BY OnlyOne
<1>9. ~(Len(b) >= 3 /\ b[1][1] = "%" /\ SubSeq(b, 2, 3) = EOL /\ u = 3)
  BY <1>1, <1>2
<1>10. one[1] = "value" => Decode(b, u) = Read(one[2][2][1], one[3])
  BY <1>9, DecodeIs, Zenon
<1> HIDE DEF one, w
<1>11. Decode(b, u) = Read(v, r)
  BY <1>7, <1>8, <1>10
<1> QED
  BY <1>11 DEF b

\* A map is read as its fields are.
LEMMA DecodeMap ==
  ASSUME NEW es \in Seq(Seq(Out)), NEW V, NEW vs \in Seq(V), Len(vs) = Len(es),
         AllEncode(es, vs, 3), NEW r \in Seq(Out), NEW n \in Int, Len(vs) = 2 * n
  PROVE  Decode(Header("%", n) \o (FlattenSeq(es) \o r), 3) = Read(Map(vs), r)
<1> DEFINE m == FlattenSeq(es)
           rest == m \o r
           l == Header("%", n)
           b == l \o rest
           fields == Decodings(b, 3)[Len(b) - 3][2 * b[1][2]]
<1>0. HeaderParts(l, <<"%", n>>, "%", n)
  BY HeaderLine
<1>1. m \in Seq(Out) /\ l \in Seq(Out) /\ Len(l) = 3 /\ l[2] = CR /\ l[3] = LF
  <2> HIDE DEF l
  <2> QED
    BY <1>0, FlattenType DEF HeaderParts
<1>2. Joins(m, r, Out)
  BY <1>1, Joined
<1>3. rest \in Seq(Out)
  BY <1>2 DEF Joins
<1>4. HeaderReadAs(b, "%", n, rest, 3)
  BY <1>3, HeaderReads
<1> HIDE DEF m
<1>5. IsRest(rest, b, Out)
  <2> HIDE DEF l, rest
  <2> QED
    BY <1>1, <1>3, RestIs
<1>6. Decodings(b, 3)[Len(rest)][Len(vs)] = Read(List(vs), r)
  <2>1. IsRest(FlattenSeq(es) \o r, b, Out)
    BY <1>5 DEF m
  <2> HIDE DEF b
  <2>2. Decodings(b, 3)[Len(FlattenSeq(es) \o r)][Len(vs)] = Read(List(vs), r)
    BY <2>1, SeriesReads
  <2> QED
    BY <2>2 DEF m
<1>7. SubSeq(b, 2, 3) = EOL
  <2> HIDE DEF l, rest
  <2>1. l \in Seq(Out) /\ rest \in Seq(Out)
    BY <1>1, <1>3
  <2>2. EOL \in Seq(Out) /\ Len(EOL) = 2 /\ EOL[1] = CR /\ EOL[2] = LF /\ CR \in Out /\ LF \in Out
    BY OutSymbols
  <2>3. b[2] = CR /\ b[3] = LF
    <3>1. /\ b \in Seq(Out)
          /\ \A i \in 1 .. Len(l) + Len(rest) : b[i] = IF i <= Len(l) THEN l[i] ELSE rest[i - Len(l)]
      BY <2>1, ConcatProperties
    <3>2. Len(rest) \in Nat
      BY <1>3, LenProperties
    <3>3. 2 \in 1 .. Len(l) + Len(rest) /\ 3 \in 1 .. Len(l) + Len(rest) /\ 2 <= Len(l) /\ 3 <= Len(l)
      BY <1>1, <3>2
    <3>4. b[2] = l[2] /\ b[3] = l[3]
      BY <3>1, <3>3
    <3> QED
      BY <1>1, <3>4
  <2> HIDE DEF b
  <2>5. \A i \in 2 .. 3 : b[i] \in Out
    <3>1. \A i \in 2 .. 3 : i = 2 \/ i = 3
      OBVIOUS
    <3> QED
      BY <2>2, <2>3, <3>1
  <2>6. /\ SubSeq(b, 2, 3) \in Seq(Out)
        /\ Len(SubSeq(b, 2, 3)) = IF 2 <= 3 THEN 3 - 2 + 1 ELSE 0
        /\ \A i \in 1 .. 3 - 2 + 1 : SubSeq(b, 2, 3)[i] = b[2 + i - 1]
    <3>1. 2 \in Int /\ 3 \in Int
      OBVIOUS
    <3> QED
      BY <2>5, <3>1, SubSeqProperties
  <2> DEFINE t == SubSeq(b, 2, 3)
  <2> HIDE DEF t
  <2>7. Len(t) = 2 /\ t[1] = CR /\ t[2] = LF /\ t \in Seq(Out)
    BY <2>3, <2>6 DEF t
  <2>8. \A i \in 1 .. Len(t) : t[i] = EOL[i]
    BY <2>2, <2>7
  <2>9. t = EOL
    BY <2>2, <2>7, <2>8, SeqEqual
  <2> QED
    BY <2>9 DEF t
<1>8. Len(b) = 3 + Len(rest) /\ Len(rest) \in Nat
  <2>1. Joins(l, rest, Out)
    <3> HIDE DEF l, rest
    <3> QED
      BY <1>1, <1>3, Joined
  <2> QED
    BY <1>1, <2>1 DEF Joins
<1> HIDE DEF b, rest, l
<1>9. b[1][1] = "%" /\ b[1][2] = n
  BY <1>4 DEF HeaderReadAs
<1>10. fields = Read(List(vs), r)
  <2>1. Len(b) - 3 = Len(rest) /\ 2 * b[1][2] = Len(vs)
    BY <1>8, <1>9
  <2> QED
    BY <1>6, <2>1
<1>11. Len(b) >= 3
  BY <1>8
<1>12. fields[1] = "value" => Decode(b, 3) = Read(Map(fields[2][2]), fields[3])
  BY <1>7, <1>9, <1>11, DecodeIs, Zenon
<1> HIDE DEF fields
<1>13. fields[1] = "value" /\ fields[2][2] = vs /\ fields[3] = r
  BY <1>10 DEF Read, List
<1>14. Decode(b, 3) = Read(Map(vs), r)
  BY <1>12, <1>13
<1> QED
  BY <1>14 DEF b, l, rest, m

\* The values that the handler makes of its replies: what holds no other, and lists of these
\* and of the empty list.  (HELLO's map is one more.)
Plain == ({Null} \cup ({"str", "err"} \X Seq(Out))) \cup ({"int"} \X Int)

Inner == Plain \cup {List(<<>>)}

\* No text of v would be cut short.
NoBreaks(v) == \A s \in Texts(v) : ~LineBreak(s)

\* A plain value is one of four.
LEMMA PlainCases ==
  ASSUME NEW v \in Plain
  PROVE  \/ v = Null
         \/ \E s \in Seq(Out) : v = Str(s) \/ v = Err(s)
         \/ \E n \in Int : v = Number(n)
<1>1. ASSUME v \in {"str", "err"} \X Seq(Out)
      PROVE  \E s \in Seq(Out) : v = Str(s) \/ v = Err(s)
  <2>1. PICK t \in {"str", "err"}, s \in Seq(Out) : v = <<t, s>>
    BY <1>1
  <2> QED
    BY <2>1 DEF Str, Err
<1>2. ASSUME v \in {"int"} \X Int PROVE \E n \in Int : v = Number(n)
  BY <1>2 DEF Number
<1> QED
  BY <1>1, <1>2 DEF Plain

\* What each is on the wire, and which texts it holds.
LEMMA EncodeOneIs ==
  ASSUME NEW w
  PROVE  /\ EncodeOne(Null, w) = EncodeNull(w)
         /\ \A s : /\ EncodeOne(Str(s), w) = (<<<<"+">>>> \o s) \o EOL
                   /\ EncodeOne(Err(s), w) = (<<<<"-">>>> \o s) \o EOL
         /\ \A n : EncodeOne(Number(n), w) = Header(":", n)
<1>1. EncodeOne(Null, w) = EncodeNull(w)
  BY DEF EncodeOne, Null
<1>2. ASSUME NEW s PROVE EncodeOne(Str(s), w) = (<<<<"+">>>> \o s) \o EOL
  <2> DEFINE v == Str(s)
             e == (<<<<"+">>>> \o s) \o EOL
  <2>1. v # Null /\ v[1] = "str" /\ v[2] = s
    BY DEF Str, Null
  <2> HIDE DEF v
  <2> QED
    BY <2>1, Zenon DEF EncodeOne, v
<1>3. ASSUME NEW s PROVE EncodeOne(Err(s), w) = (<<<<"-">>>> \o s) \o EOL
  <2> DEFINE v == Err(s)
  <2>1. v # Null /\ v[1] = "err" /\ v[2] = s /\ "err" # "str"
    BY DEF Err, Null
  <2> HIDE DEF v
  <2> QED
    BY <2>1 DEF EncodeOne, v
<1>4. ASSUME NEW n PROVE EncodeOne(Number(n), w) = Header(":", n)
  <2> DEFINE v == Number(n)
  <2>1. v # Null /\ v[1] = "int" /\ v[2] = n /\ "int" # "str" /\ "int" # "err"
    BY DEF Number, Null
  <2> HIDE DEF v
  <2> QED
    BY <2>1 DEF EncodeOne, v
<1> QED
  BY <1>1, <1>2, <1>3, <1>4

\* The texts of what holds no other value.
LEMMA TextsOfOne ==
  /\ \A s : TextsOf(Str(s)) = {s} /\ TextsOf(Err(s)) = {s}
  /\ \A s : Texts(Str(s)) = {s} /\ Texts(Err(s)) = {s}
BY DEF TextsOf, Texts, Str, Err

\* A plain value is read as it was written, a null if it was written for the version.
LEMMA PlainEncodes ==
  ASSUME NEW v \in Plain, \A s \in TextsOf(v) : ~LineBreak(s),
         NEW u \in {2, 3}, NEW w, v = Null => w = u
  PROVE  Encodes(EncodeOne(v, w), v, u)
<1>1. CASE v = Null
  <2>1. EncodeOne(v, w) = EncodeNull(u)
    BY <1>1, EncodeOneIs
  <2> QED
    BY <1>1, <2>1, NullEncodes
<1>2. ASSUME NEW s \in Seq(Out), v = Str(s) PROVE Encodes(EncodeOne(v, w), v, u)
  <2>1. ~LineBreak(s)
    BY <1>2, TextsOfOne
  <2>2. Encodes((<<<<"+">>>> \o s) \o EOL, Str(s), u)
    BY <2>1, TextEncodes
  <2>3. EncodeOne(Str(s), w) = (<<<<"+">>>> \o s) \o EOL
    BY EncodeOneIs, Zenon
  <2> QED
    BY <1>2, <2>2, <2>3, Zenon
<1>3. ASSUME NEW s \in Seq(Out), v = Err(s) PROVE Encodes(EncodeOne(v, w), v, u)
  <2>1. ~LineBreak(s)
    BY <1>3, TextsOfOne
  <2>2. Encodes((<<<<"-">>>> \o s) \o EOL, Err(s), u)
    BY <2>1, TextEncodes
  <2>3. EncodeOne(Err(s), w) = (<<<<"-">>>> \o s) \o EOL
    BY EncodeOneIs, Zenon
  <2> QED
    BY <1>3, <2>2, <2>3, Zenon
<1>4. ASSUME NEW n \in Int, v = Number(n) PROVE Encodes(EncodeOne(v, w), v, u)
  <2>1. Encodes(Header(":", n), Number(n), u)
    BY NumberEncodes
  <2>2. EncodeOne(Number(n), w) = Header(":", n)
    BY EncodeOneIs, Zenon
  <2> QED
    BY <1>4, <2>1, <2>2, Zenon
<1> QED
  BY <1>1, <1>2, <1>3, <1>4, PlainCases, Zenon

\* The empty list.
LEMMA EmptyListEncodes ==
  ASSUME NEW w, NEW u
  PROVE  Encodes(EncodeInner(List(<<>>), w), List(<<>>), u)
<1>1. PICK none : none = <<>>
  OBVIOUS
<1>2. none \in Seq(Seq(Out)) /\ none \in Seq(Plain) /\ Len(none) = 0 /\ FlattenSeq(none) = <<>>
  BY <1>1, EmptySeq, FlattenType
<1>3. AllEncode(none, none, u)
  BY <1>2 DEF AllEncode
<1>4. Encodes(Header("*", Len(none)) \o FlattenSeq(none), List(none), u)
  BY <1>2, <1>3, ListEncodes
<1>5. EncodeInner(List(none), w) = Header("*", Len(none)) \o FlattenSeq(none)
  <2> DEFINE v == List(none)
             es == [i \in DOMAIN none |-> EncodeOne(none[i], w)]
  <2>1. v[1] = "list" /\ v[2] = none
    BY DEF List
  <2>2. es = none
    <3>1. DOMAIN none = {} /\ DOMAIN none = 1 .. 0
      BY <1>1, EmptySeq
    <3>2. es = [i \in 1 .. 0 |-> EncodeOne(none[i], w)]
      BY <3>1
    <3>3. es \in Seq(Seq(Out)) /\ Len(es) = 0
      <4>1. es \in [1 .. 0 -> Seq(Out)]
        BY <3>1
      <4> HIDE DEF es
      <4> QED
        BY <4>1
    <3> QED
      BY <1>1, <3>3, EmptySeq
  <2> HIDE DEF v
  <2>3. EncodeInner(v, w) = Header("*", Len(v[2])) \o FlattenSeq([i \in DOMAIN v[2] |-> EncodeOne(v[2][i], w)])
    BY <2>1, Zenon DEF EncodeInner
  <2>4. EncodeInner(v, w) = Header("*", Len(none)) \o FlattenSeq(es)
    BY <2>1, <2>3
  <2> HIDE DEF es
  <2>5. EncodeInner(v, w) = Header("*", Len(none)) \o FlattenSeq(none)
    BY <2>2, <2>4
  <2> QED
    BY <2>5 DEF v
<1> QED
  BY <1>1, <1>4, <1>5

\* An element of a list.
LEMMA InnerEncodes ==
  ASSUME NEW v \in Inner, \A s \in TextsOf(v) : ~LineBreak(s),
         NEW u \in {2, 3}, NEW w, v = Null => w = u
  PROVE  Encodes(EncodeInner(v, w), v, u)
<1>1. CASE v = List(<<>>)
  BY <1>1, EmptyListEncodes
<1>2. CASE v \in Plain
  <2>1. v[1] # "list"
    <3>1. Null[1] # "list" /\ (\A s : Str(s)[1] # "list" /\ Err(s)[1] # "list") /\ \A n : Number(n)[1] # "list"
      BY DEF Null, Str, Err, Number
    <3> QED
      BY <1>2, <3>1, PlainCases, Zenon
  <2>2. EncodeInner(v, w) = EncodeOne(v, w)
    BY <2>1 DEF EncodeInner
  <2> QED
    BY <1>2, <2>2, PlainEncodes
<1> QED
  BY <1>1, <1>2 DEF Inner

\* And all of the replies.
Lists == {"list"} \X Seq(Inner)

Reply == (Plain \cup Lists) \cup {Hello(3)}

\* The elements of a list as they are written.
Inners(vs, w) == [i \in DOMAIN vs |-> EncodeInner(vs[i], w)]

\* Whatever texts they hold, values are written in symbols.
LEMMA PlainWritten ==
  ASSUME NEW v \in Plain, NEW w
  PROVE  EncodeOne(v, w) \in Seq(Out)
<1>1. ASSUME NEW x \in Out, NEW s \in Seq(Out) PROVE (<<x>> \o s) \o EOL \in Seq(Out)
  <2>1. LineSymbols((<<x>> \o s) \o EOL, x, s)
    BY LineSymbolsAre
  <2> QED
    BY <2>1 DEF LineSymbols
<1>2. <<"+">> \in Out /\ <<"-">> \in Out /\ <<"_">> \in Out
  <2>1. "+" \in OwnWords /\ "-" \in OwnWords /\ "_" \in OwnWords
    BY DEF OwnWords
  <2> QED
    BY <2>1, OutSymbols
<1>3. CASE v = Null
  <2>1. EncodeNull(w) = EncodeNull(2) \/ EncodeNull(w) = EncodeNull(3)
    <3>1. 2 # 3
      OBVIOUS
    <3> QED
      BY <3>1, Zenon DEF EncodeNull
  <2>2. EncodeNull(2) \in Seq(Out) /\ EncodeNull(3) \in Seq(Out)
    BY NullEncodes DEF Encodes
  <2>3. EncodeOne(v, w) = EncodeNull(w)
    BY <1>3, EncodeOneIs
  <2> QED
    BY <2>1, <2>2, <2>3
<1>4. ASSUME NEW s \in Seq(Out), v = Str(s) PROVE EncodeOne(v, w) \in Seq(Out)
  <2>1. EncodeOne(Str(s), w) = (<<<<"+">>>> \o s) \o EOL
    BY EncodeOneIs, Zenon
  <2>2. (<<<<"+">>>> \o s) \o EOL \in Seq(Out)
    BY <1>1, <1>2, Zenon
  <2> QED
    BY <1>4, <2>1, <2>2, Zenon
<1>5. ASSUME NEW s \in Seq(Out), v = Err(s) PROVE EncodeOne(v, w) \in Seq(Out)
  <2>1. EncodeOne(Err(s), w) = (<<<<"-">>>> \o s) \o EOL
    BY EncodeOneIs, Zenon
  <2>2. (<<<<"-">>>> \o s) \o EOL \in Seq(Out)
    BY <1>1, <1>2, Zenon
  <2> QED
    BY <1>5, <2>1, <2>2, Zenon
<1>6. ASSUME NEW n \in Int, v = Number(n) PROVE EncodeOne(v, w) \in Seq(Out)
  <2>1. EncodeOne(Number(n), w) = Header(":", n)
    BY EncodeOneIs, Zenon
  <2>2. Header(":", n) \in Seq(Out)
    BY NumberEncodes DEF Encodes
  <2> QED
    BY <1>6, <2>1, <2>2, Zenon
<1> QED
  BY <1>3, <1>4, <1>5, <1>6, PlainCases, Zenon

\* What is plain is no list and no map.
LEMMA PlainIsOne ==
  ASSUME NEW v \in Plain
  PROVE  v[1] # "list" /\ v[1] # "map"
<1>1. /\ Null[1] = "null" /\ (\A s : Str(s)[1] = "str" /\ Err(s)[1] = "err")
      /\ \A n : Number(n)[1] = "int"
  BY DEF Null, Str, Err, Number
<1>2. v[1] \in {"null", "str", "err", "int"}
  BY <1>1, PlainCases, Zenon
<1> QED
  BY <1>2

\* So are the elements of a list.
LEMMA InnerWritten ==
  ASSUME NEW v \in Inner, NEW w
  PROVE  EncodeInner(v, w) \in Seq(Out)
<1>1. CASE v = List(<<>>)
  <2>1. Encodes(EncodeInner(List(<<>>), w), List(<<>>), 2)
    BY EmptyListEncodes
  <2> QED
    BY <1>1, <2>1 DEF Encodes
<1>2. CASE v \in Plain
  <2>1. EncodeInner(v, w) = EncodeOne(v, w)
    BY <1>2, PlainIsOne DEF EncodeInner
  <2> QED
    BY <1>2, <2>1, PlainWritten
<1> QED
  BY <1>1, <1>2 DEF Inner

\* The elements of a list, as texts in a row.
LEMMA InnersAre ==
  ASSUME NEW vs \in Seq(Inner), NEW w
  PROVE  /\ Inners(vs, w) \in Seq(Seq(Out)) /\ Len(Inners(vs, w)) = Len(vs) /\ Len(vs) \in Nat
         /\ \A i \in 1 .. Len(vs) : Inners(vs, w)[i] = EncodeInner(vs[i], w) /\ vs[i] \in Inner
<1> DEFINE n == Len(vs)
           es == Inners(vs, w)
<1>1. n \in Nat /\ DOMAIN vs = 1 .. n /\ \A i \in 1 .. n : vs[i] \in Inner
  BY LenProperties, ElementOfSeq
<1>2. es = [i \in 1 .. n |-> EncodeInner(vs[i], w)]
  BY <1>1 DEF Inners
<1>3. \A i \in 1 .. n : EncodeInner(vs[i], w) \in Seq(Out)
  BY <1>1, InnerWritten
<1> HIDE DEF n, es
<1>4. es \in [1 .. n -> Seq(Out)]
  BY <1>2, <1>3
<1>5. es \in Seq(Seq(Out)) /\ Len(es) = n
  BY <1>1, <1>4, LenProperties
<1> QED
  BY <1>1, <1>2, <1>5 DEF n, es

\* How a list is written.
LEMMA EncodeListIs ==
  ASSUME NEW vs \in Seq(Inner), NEW w
  PROVE  Encode(List(vs), w) = Header("*", Len(vs)) \o FlattenSeq(Inners(vs, w))
<1> DEFINE v == List(vs)
<1>1. v[1] = "list" /\ v[2] = vs
  BY DEF List
<1> HIDE DEF v
<1>2. Encode(v, w) = Header("*", Len(v[2])) \o FlattenSeq([i \in DOMAIN v[2] |-> EncodeInner(v[2][i], w)])
  BY <1>1, Zenon DEF Encode
<1>3. Encode(v, w) = Header("*", Len(vs)) \o FlattenSeq(Inners(vs, w))
  BY <1>1, <1>2, Zenon DEF Inners
<1> QED
  BY <1>3 DEF v

\* A list in Lists.
LEMMA ListIs ==
  ASSUME NEW v \in Lists
  PROVE  v = List(v[2]) /\ v[2] \in Seq(Inner)
BY DEF Lists, List

\* A list is read as it was written.
LEMMA ListReads ==
  ASSUME NEW vs \in Seq(Inner), NoBreaks(List(vs)), NEW u \in {2, 3}
  PROVE  Encodes(Encode(List(vs), u), List(vs), u)
<1> DEFINE es == Inners(vs, u)
<1>1. /\ es \in Seq(Seq(Out)) /\ Len(es) = Len(vs) /\ Len(vs) \in Nat /\ DOMAIN vs = 1 .. Len(vs)
      /\ \A i \in 1 .. Len(vs) : es[i] = EncodeInner(vs[i], u) /\ vs[i] \in Inner
  BY InnersAre
<1> HIDE DEF es
<1>2. ASSUME NEW i \in 1 .. Len(vs) PROVE Encodes(es[i], vs[i], u)
  <2> DEFINE x == vs[i]
  <2>1. \A s \in TextsOf(x) : s \in Texts(List(vs))
    <3>1. Texts(List(vs)) = UNION {TextsOf(vs[j]) : j \in DOMAIN vs}
      BY DEF Texts, List
    <3> QED
      BY <1>1, <3>1
  <2>2. \A s \in TextsOf(x) : ~LineBreak(s)
    BY <2>1 DEF NoBreaks
  <2>3. x \in Inner /\ es[i] = EncodeInner(x, u)
    BY <1>1
  <2> HIDE DEF x
  <2>4. Encodes(EncodeInner(x, u), x, u)
    BY <2>2, <2>3, InnerEncodes
  <2> QED
    BY <2>3, <2>4 DEF x
<1>3. AllEncode(es, vs, u)
  BY <1>1, <1>2 DEF AllEncode
<1>4. Encodes(Header("*", Len(vs)) \o FlattenSeq(es), List(vs), u)
  BY <1>1, <1>3, ListEncodes
<1>5. Encode(List(vs), u) = Header("*", Len(vs)) \o FlattenSeq(es)
  BY EncodeListIs DEF es
<1> QED
  BY <1>4, <1>5

\* A list is written in symbols.
LEMMA ListWritten ==
  ASSUME NEW vs \in Seq(Inner), NEW w
  PROVE  Encode(List(vs), w) \in Seq(Out)
<1> DEFINE m == FlattenSeq(Inners(vs, w))
           n == Len(vs)
<1>1. m \in Seq(Out) /\ n \in Nat
  BY InnersAre, FlattenType
<1>2. Encode(List(vs), w) = Header("*", n) \o m
  BY EncodeListIs
<1> HIDE DEF m, n
<1>3. n \in Int
  BY <1>1
<1>4. HeaderReadAs(Header("*", n) \o m, "*", n, m, 2)
  BY <1>1, <1>3, HeaderReads
<1> QED
  BY <1>2, <1>4 DEF HeaderReadAs

\* The fields of HELLO.
HelloFields(n) ==
  <<Str(Word("server")), Str(Word("redis-clone")), Str(Word("proto")), Number(n),
    Str(Word("modules")), List(<<>>)>>

\* Its keys are texts without a line break.
LEMMA OwnWordPlain ==
  ASSUME NEW y \in OwnWords
  PROVE  /\ Word(y) \in Seq(Out) /\ ~LineBreak(Word(y))
         /\ Str(Word(y)) \in Plain /\ Err(Word(y)) \in Plain
<1> DEFINE s == Word(y)
<1>1. s \in Seq(Out) /\ Len(s) = 1
  BY OutSymbols
<1> HIDE DEF s
<1>2. ~LineBreak(s)
  <2>1. 1 .. Len(s) - 1 = {}
    BY <1>1
  <2> QED
    BY <2>1, Zenon DEF LineBreak
<1>3. Str(s) \in Plain /\ Err(s) \in Plain
  BY <1>1 DEF Plain, Str, Err
<1> QED
  BY <1>1, <1>2, <1>3 DEF s

\* HELLO's reply is made of them: a list, or a map in version 3.
LEMMA HelloIs ==
  ASSUME NEW n \in Int
  PROVE  /\ HelloFields(n) \in Seq(Inner) /\ Len(HelloFields(n)) = 6
         /\ HelloFields(n)[1] = Str(Word("server")) /\ HelloFields(n)[2] = Str(Word("redis-clone"))
         /\ HelloFields(n)[3] = Str(Word("proto")) /\ HelloFields(n)[4] = Number(n)
         /\ HelloFields(n)[5] = Str(Word("modules")) /\ HelloFields(n)[6] = List(<<>>)
         /\ n = 3 => Hello(n) = Map(HelloFields(n))
         /\ n # 3 => Hello(n) = List(HelloFields(n))
<1> DEFINE a == Str(Word("server"))
           b == Str(Word("redis-clone"))
           c == Str(Word("proto"))
           d == Number(n)
           e == Str(Word("modules"))
           f == List(<<>>)
           h == HelloFields(n)
<1>1. a \in Inner /\ b \in Inner /\ c \in Inner /\ e \in Inner
  <2>1. /\ "server" \in OwnWords /\ "redis-clone" \in OwnWords
        /\ "proto" \in OwnWords /\ "modules" \in OwnWords
    BY DEF OwnWords
  <2> QED
    BY <2>1, OwnWordPlain DEF Inner
<1>2. d \in Inner /\ f \in Inner
  BY DEF Inner, Plain, Number
<1>3. h = <<a, b, c, d, e, f>>
  BY DEF HelloFields
<1>4. n = 3 => Hello(n) = Map(h)
  BY Zenon DEF Hello, HelloFields
<1>5. n # 3 => Hello(n) = List(h)
  BY Zenon DEF Hello, HelloFields
<1> HIDE DEF a, b, c, d, e, f, h
<1>6. h \in Seq(Inner) /\ Len(h) = 6
  BY <1>1, <1>2, <1>3
<1>7. h[1] = a /\ h[2] = b /\ h[3] = c /\ h[4] = d /\ h[5] = e /\ h[6] = f
  BY <1>3
<1> QED
  BY <1>4, <1>5, <1>6, <1>7 DEF a, b, c, d, e, f, h

\* The fields of the map as they are written.
Fields(vs) ==
  [i \in DOMAIN vs |-> IF i % 2 = 1 THEN BulkString(vs[i][2]) ELSE EncodeInner(vs[i], 2)]

\* Each is read as it was written.
LEMMA FieldsEncode ==
  LET vs == HelloFields(3)
  IN  Fields(vs) \in Seq(Seq(Out)) /\ Len(Fields(vs)) = 6 /\ AllEncode(Fields(vs), vs, 3)
<1> DEFINE vs == HelloFields(3)
           es == Fields(vs)
<1>1. vs \in Seq(Inner) /\ Len(vs) = 6 /\ DOMAIN vs = 1 .. 6
  <2>1. vs \in Seq(Inner) /\ Len(vs) = 6
    BY HelloIs
  <2> HIDE DEF vs
  <2> QED
    BY <2>1, LenProperties
<1>2. /\ vs[1] = Str(Word("server")) /\ vs[2] = Str(Word("redis-clone"))
      /\ vs[3] = Str(Word("proto")) /\ vs[4] = Number(3)
      /\ vs[5] = Str(Word("modules")) /\ vs[6] = List(<<>>)
  BY HelloIs
<1> HIDE DEF vs
<1>3. es = [i \in 1 .. 6 |-> IF i % 2 = 1 THEN BulkString(vs[i][2]) ELSE EncodeInner(vs[i], 2)]
  BY <1>1 DEF Fields
<1>4. ASSUME NEW y \in OwnWords PROVE Encodes(BulkString(Str(Word(y))[2]), Str(Word(y)), 3)
  <2>1. Str(Word(y))[2] = Word(y)
    BY DEF Str
  <2>2. Word(y) \in Seq(Out)
    BY OwnWordPlain
  <2>3. Encodes(BulkString(Word(y)), Str(Word(y)), 3)
    BY <2>2, BulkEncodes
  <2> QED
    BY <2>1, <2>3
<1>5. /\ "server" \in OwnWords /\ "redis-clone" \in OwnWords
      /\ "proto" \in OwnWords /\ "modules" \in OwnWords
  BY DEF OwnWords
<1>6. Encodes(EncodeInner(Str(Word("redis-clone")), 2), Str(Word("redis-clone")), 3)
  <2> DEFINE s == Word("redis-clone")
  <2>1. Str(s) \in Inner /\ ~LineBreak(s) /\ Str(s) # Null
    BY <1>5, OwnWordPlain DEF Inner, Str, Null
  <2> HIDE DEF s
  <2>2. \A t \in TextsOf(Str(s)) : ~LineBreak(t)
    BY <2>1, TextsOfOne
  <2>3. Encodes(EncodeInner(Str(s), 2), Str(s), 3)
    BY <2>1, <2>2, InnerEncodes
  <2> QED
    BY <2>3 DEF s
<1>7. Encodes(EncodeInner(Number(3), 2), Number(3), 3)
  <2> DEFINE v == Number(3)
  <2>1. v \in Inner /\ TextsOf(v) = {} /\ v # Null
    BY DEF Inner, Plain, Number, TextsOf, Null
  <2> HIDE DEF v
  <2>2. Encodes(EncodeInner(v, 2), v, 3)
    BY <2>1, InnerEncodes
  <2> QED
    BY <2>2 DEF v
<1>8. Encodes(EncodeInner(List(<<>>), 2), List(<<>>), 3)
  BY EmptyListEncodes
<1> HIDE DEF es
<1>9. ASSUME NEW i \in 1 .. 6 PROVE Encodes(es[i], vs[i], 3)
  <2>1. es[i] = IF i % 2 = 1 THEN BulkString(vs[i][2]) ELSE EncodeInner(vs[i], 2)
    BY <1>3
  <2>2. CASE i = 1
    <3>1. es[i] = BulkString(vs[1][2])
      BY <2>1, <2>2
    <3> QED
      BY <1>2, <1>4, <1>5, <2>2, <3>1
  <2>3. CASE i = 2
    <3>1. es[i] = EncodeInner(vs[2], 2)
      BY <2>1, <2>3
    <3> QED
      BY <1>2, <1>6, <2>3, <3>1
  <2>4. CASE i = 3
    <3>1. es[i] = BulkString(vs[3][2])
      BY <2>1, <2>4
    <3> QED
      BY <1>2, <1>4, <1>5, <2>4, <3>1
  <2>5. CASE i = 4
    <3>1. es[i] = EncodeInner(vs[4], 2)
      BY <2>1, <2>5
    <3> QED
      BY <1>2, <1>7, <2>5, <3>1
  <2>6. CASE i = 5
    <3>1. es[i] = BulkString(vs[5][2])
      BY <2>1, <2>6
    <3> QED
      BY <1>2, <1>4, <1>5, <2>6, <3>1
  <2>7. CASE i = 6
    <3>1. es[i] = EncodeInner(vs[6], 2)
      BY <2>1, <2>7
    <3> QED
      BY <1>2, <1>8, <2>7, <3>1
  <2>8. i = 1 \/ i = 2 \/ i = 3 \/ i = 4 \/ i = 5 \/ i = 6
    OBVIOUS
  <2> QED
    BY <2>2, <2>3, <2>4, <2>5, <2>6, <2>7, <2>8
<1>10. es \in Seq(Seq(Out)) /\ Len(es) = 6
  <2>1. \A i \in 1 .. 6 : es[i] \in Seq(Out)
    BY <1>9 DEF Encodes
  <2>2. PICK k \in Nat : k = 6
    OBVIOUS
  <2>3. es \in [1 .. k -> Seq(Out)]
    BY <1>3, <2>1, <2>2
  <2>4. es \in Seq(Seq(Out)) /\ Len(es) = k
    BY <2>3, LenProperties
  <2> QED
    BY <2>2, <2>4
<1>11. AllEncode(es, vs, 3)
  BY <1>9, <1>10 DEF AllEncode
<1> QED
  BY <1>10, <1>11 DEF vs, es

\* So the map is.
LEMMA HelloReads ==
  ASSUME NEW r \in Seq(Out)
  PROVE  Decode(Encode(Hello(3), 3) \o r, 3) = Read(Hello(3), r) /\ Encode(Hello(3), 3) \in Seq(Out)
<1> DEFINE vs == HelloFields(3)
           es == Fields(vs)
           m == FlattenSeq(es)
           l == Header("%", 3)
<1>1. es \in Seq(Seq(Out)) /\ Len(es) = 6 /\ AllEncode(es, vs, 3)
  BY FieldsEncode
<1>2. vs \in Seq(Inner) /\ Len(vs) = 6 /\ Hello(3) = Map(vs)
  BY HelloIs
<1> HIDE DEF vs
<1>3. Encode(Map(vs), 3) = Header("%", Len(vs) \div 2) \o FlattenSeq(es)
  <2> DEFINE v == Map(vs)
  <2>1. v[1] = "map" /\ v[2] = vs /\ v[1] # "list"
    BY DEF Map
  <2> HIDE DEF v
  <2>2. Encode(v, 3) = Header("%", Len(v[2]) \div 2)
                          \o FlattenSeq([i \in DOMAIN v[2] |->
                               IF i % 2 = 1 THEN BulkString(v[2][i][2]) ELSE EncodeInner(v[2][i], 2)])
    BY <2>1, Zenon DEF Encode
  <2>3. Encode(v, 3) = Header("%", Len(vs) \div 2) \o FlattenSeq(Fields(vs))
    BY <2>1, <2>2, Zenon DEF Fields
  <2> QED
    BY <2>3 DEF v
<1> HIDE DEF es
<1>4. Encode(Map(vs), 3) = l \o m
  <2>1. Len(vs) \div 2 = 3
    BY <1>2
  <2> QED
    BY <1>3, <2>1
<1>5. Decode(l \o (m \o r), 3) = Read(Map(vs), r)
  <2>1. 3 \in Int /\ Len(vs) = 2 * 3 /\ Len(vs) = Len(es)
    BY <1>1, <1>2
  <2> QED
    BY <1>1, <1>2, <2>1, DecodeMap
<1>6. l \in Seq(Out) /\ m \in Seq(Out)
  <2>1. HeaderParts(l, <<"%", 3>>, "%", 3)
    BY HeaderLine
  <2> QED
    BY <1>1, <2>1, FlattenType DEF HeaderParts
<1> HIDE DEF l, m
<1>7. Regroups(l, m, r, Out)
  BY <1>6, Regrouped
<1>8. (l \o m) \o r = l \o (m \o r) /\ l \o m \in Seq(Out)
  BY <1>7 DEF Regroups
<1> QED
  BY <1>2, <1>4, <1>5, <1>8

\* The client reads every reply as it was made, whatever follows it: Decode undoes Encode
\* (resp.py:43,80) in both versions, unless a text has a line break.  A map, which only
\* version 3 knows, is read in that one.
THEOREM ReplyReads ==
  ASSUME NEW v \in Reply, NoBreaks(v), NEW u \in {2, 3}, v = Hello(3) => u = 3, NEW r \in Seq(Out)
  PROVE  Decode(Encode(v, u) \o r, u) = Read(v, r)
<1>1. CASE v = Hello(3)
  BY <1>1, HelloReads
<1>2. CASE v \in Plain
  <2>1. Encode(v, u) = EncodeOne(v, u) /\ Texts(v) = TextsOf(v)
    BY <1>2, PlainIsOne DEF Encode, Texts
  <2>2. Encodes(EncodeOne(v, u), v, u)
    BY <1>2, <2>1, PlainEncodes DEF NoBreaks
  <2> QED
    BY <2>1, <2>2, DecodeOne
<1>3. CASE v \in Lists
  <2>1. v = List(v[2]) /\ v[2] \in Seq(Inner)
    BY <1>3, ListIs
  <2> DEFINE vs == v[2]
  <2> HIDE DEF vs
  <2>2. v = List(vs) /\ vs \in Seq(Inner) /\ NoBreaks(List(vs))
    BY <2>1 DEF vs
  <2>3. Encodes(Encode(List(vs), u), List(vs), u)
    BY <2>2, ListReads
  <2>4. Encodes(Encode(v, u), v, u)
    BY <2>2, <2>3
  <2> QED
    BY <2>4, DecodeOne
<1> QED
  BY <1>1, <1>2, <1>3 DEF Reply

\* And every reply is written in symbols.
LEMMA ReplyWritten ==
  ASSUME NEW v \in Reply, NEW u, v = Hello(3) => u = 3
  PROVE  Encode(v, u) \in Seq(Out)
<1>1. CASE v = Hello(3)
  <2>1. <<>> \in Seq(Out)
    BY NoText
  <2> QED
    BY <1>1, <2>1, HelloReads
<1>2. CASE v \in Plain
  <2>1. Encode(v, u) = EncodeOne(v, u)
    BY <1>2, PlainIsOne DEF Encode
  <2> QED
    BY <1>2, <2>1, PlainWritten
<1>3. CASE v \in Lists
  <2>1. v = List(v[2]) /\ v[2] \in Seq(Inner)
    BY <1>3, ListIs
  <2> DEFINE vs == v[2]
  <2> HIDE DEF vs
  <2>2. v = List(vs) /\ vs \in Seq(Inner)
    BY <2>1 DEF vs
  <2>3. Encode(List(vs), u) \in Seq(Out)
    BY <2>2, ListWritten
  <2> QED
    BY <2>2, <2>3
<1> QED
  BY <1>1, <1>2, <1>3 DEF Reply

-----------------------------------------------------------------------------
(* The version                                                            *)

\* The client asks for a version.
AsksFor(c) ==
  Name(c) = Word("HELLO") /\ Len(c) >= 2 /\ c[2] \in {Str(Word("2")), Str(Word("3"))}

AskedBy(c) == IF c[2] = Str(Word("3")) THEN 3 ELSE 2

\* Asked, of any commands.
Hellos(h, i) == {j \in DOMAIN h : j <= i /\ AsksFor(h[j])}

AskedOf(h, i) ==
  IF \E j \in Hellos(h, i) : j = Max(Hellos(h, i)) /\ h[j][2] = Str(Word("3")) THEN 3 ELSE 2

\* It is the same.
LEMMA AskedIs == \A i : Asked(i) = AskedOf(handled, i)
BY Zenon DEF Asked, AskedOf, Hellos, AsksFor

\* There are two versions.
LEMMA AskedVersions == \A h, i : AskedOf(h, i) \in {2, 3}
BY DEF AskedOf

\* Commands that agree up to the i-th ask for the same.
LEMMA AskedAlike ==
  ASSUME NEW h, NEW k, NEW i, NEW j, Hellos(h, i) = Hellos(k, j), \A m \in Hellos(h, i) : h[m] = k[m]
  PROVE  AskedOf(h, i) = AskedOf(k, j)
<1>1. \A m \in Hellos(h, i) : h[m][2] = k[m][2]
  OBVIOUS
<1> QED
  BY <1>1, Zenon DEF AskedOf

\* One command more.
OneMore(k, h, c) ==
  /\ DOMAIN h = 1 .. Len(h) /\ DOMAIN k = 1 .. Len(h) + 1 /\ Len(h) \in Nat /\ Len(k) = Len(h) + 1
  /\ k[Len(h) + 1] = c /\ \A i \in 1 .. Len(h) : k[i] = h[i]

\* Append adds one.
LEMMA AppendsOne ==
  ASSUME NEW S, NEW h \in Seq(S), NEW c \in S
  PROVE  OneMore(Append(h, c), h, c) /\ Append(h, c) \in Seq(S)
<1>1. /\ Append(h, c) \in Seq(S) /\ Len(Append(h, c)) = Len(h) + 1 /\ Len(h) \in Nat
      /\ \A i \in 1 .. Len(h) : Append(h, c)[i] = h[i]
      /\ Append(h, c)[Len(h) + 1] = c
  BY AppendProperties, LenProperties
<1>2. DOMAIN h = 1 .. Len(h) /\ DOMAIN Append(h, c) = 1 .. Len(Append(h, c))
  BY <1>1, LenProperties
<1> QED
  BY <1>1, <1>2 DEF OneMore

\* It does not change what was asked for before it ...
LEMMA AskedBefore ==
  ASSUME NEW k, NEW h, NEW c, OneMore(k, h, c), NEW i \in 0 .. Len(h)
  PROVE  AskedOf(k, i) = AskedOf(h, i)
<1>1. /\ DOMAIN h = 1 .. Len(h) /\ DOMAIN k = 1 .. Len(h) + 1 /\ Len(h) \in Nat
      /\ \A j \in 1 .. Len(h) : k[j] = h[j]
  BY DEF OneMore
<1>2. ASSUME NEW j PROVE j \in Hellos(k, i) <=> j \in Hellos(h, i)
  <2>1. j \in DOMAIN k /\ j <= i <=> j \in DOMAIN h /\ j <= i
    BY <1>1
  <2>2. j \in DOMAIN h => k[j] = h[j]
    BY <1>1
  <2> QED
    BY <2>1, <2>2 DEF Hellos
<1>3. Hellos(h, i) = Hellos(k, i)
  BY <1>2
<1>4. \A m \in Hellos(h, i) : h[m] = k[m]
  BY <1>1 DEF Hellos
<1>5. AskedOf(h, i) = AskedOf(k, i)
  BY <1>3, <1>4, AskedAlike
<1> QED
  BY <1>5

\* ... and no more if it does not ask for a version.
LEMMA AskedOther ==
  ASSUME NEW k, NEW h, NEW c, OneMore(k, h, c), ~AsksFor(c)
  PROVE  AskedOf(k, Len(h) + 1) = AskedOf(h, Len(h))
<1> DEFINE n == Len(h)
           q == n + 1
<1>1. /\ DOMAIN h = 1 .. n /\ DOMAIN k = 1 .. q /\ n \in Nat /\ q = n + 1
      /\ k[q] = c /\ \A j \in 1 .. n : k[j] = h[j]
  BY DEF OneMore
<1> HIDE DEF n, q
<1>2. ASSUME NEW j PROVE j \in Hellos(k, q) <=> j \in Hellos(h, n)
  <2>1. j \in DOMAIN k /\ j <= q /\ j # q <=> j \in DOMAIN h /\ j <= n
    BY <1>1
  <2>2. j \in DOMAIN h => k[j] = h[j]
    BY <1>1
  <2>3. j = q => ~AsksFor(k[j])
    BY <1>1
  <2> QED
    BY <2>1, <2>2, <2>3 DEF Hellos
<1>3. Hellos(h, n) = Hellos(k, q)
  BY <1>2
<1>4. \A m \in Hellos(h, n) : h[m] = k[m]
  BY <1>1 DEF Hellos
<1>5. AskedOf(h, n) = AskedOf(k, q)
  BY <1>3, <1>4, AskedAlike
<1> QED
  BY <1>5 DEF n, q

\* If it does, that is the version.
LEMMA AskedLast ==
  ASSUME NEW k, NEW h, NEW c, OneMore(k, h, c), AsksFor(c)
  PROVE  AskedOf(k, Len(h) + 1) = AskedBy(c)
<1> DEFINE n == Len(h)
           q == n + 1
           T == Hellos(k, q)
<1>1. DOMAIN k = 1 .. q /\ n \in Nat /\ q = n + 1 /\ q \in Nat /\ k[q] = c
  BY DEF OneMore
<1> HIDE DEF n, q
<1>2. q \in T /\ \A j \in T : q >= j /\ j \in Nat
  BY <1>1 DEF Hellos
<1> HIDE DEF T
<1>3. Max(T) = q
  <2>1. Max(T) \in T /\ \A j \in T : Max(T) >= j
    BY <1>2 DEF Max
  <2>2. Max(T) >= q /\ q >= Max(T) /\ Max(T) \in Nat
    BY <1>2, <2>1
  <2> QED
    BY <1>1, <2>2
<1>4. (\E j \in T : j = Max(T) /\ k[j][2] = Str(Word("3"))) <=> c[2] = Str(Word("3"))
  BY <1>1, <1>2, <1>3
<1>5. AskedOf(k, q) = AskedBy(c)
  BY <1>4, Zenon DEF AskedOf, AskedBy, T
<1> QED
  BY <1>5 DEF q, n

\* After the last command, the version stays.
LEMMA AskedAfter ==
  ASSUME NEW S, NEW h \in Seq(S)
  PROVE  AskedOf(h, Len(h) + 1) = AskedOf(h, Len(h))
<1> DEFINE n == Len(h)
           q == n + 1
<1>1. DOMAIN h = 1 .. n /\ n \in Nat /\ q = n + 1
  BY LenProperties
<1> HIDE DEF n, q
<1>2. \A j \in DOMAIN h : j <= q <=> j <= n
  BY <1>1
<1>3. Hellos(h, q) = Hellos(h, n)
  BY <1>2 DEF Hellos
<1>4. AskedOf(h, q) = AskedOf(h, n)
  BY <1>3, AskedAlike
<1> QED
  BY <1>4 DEF q, n

-----------------------------------------------------------------------------
(* Replies                                                                *)

\* Replies that have been written for the commands of h: a map only to who has asked for it.
Answered(m, h) ==
  m \in Seq(Reply) /\ \A i \in 1 .. Len(m) : m[i] = Hello(3) => AskedOf(h, i) = 3

\* What has been written.
Written(m, h) == [i \in DOMAIN m |-> Encode(m[i], AskedOf(h, i))]

\* It is texts in a row.
LEMMA WrittenType ==
  ASSUME NEW m, NEW h, Answered(m, h)
  PROVE  /\ Written(m, h) \in Seq(Seq(Out)) /\ Len(Written(m, h)) = Len(m) /\ Len(m) \in Nat
         /\ \A i \in 1 .. Len(m) : /\ Written(m, h)[i] = Encode(m[i], AskedOf(h, i))
                                   /\ m[i] \in Reply /\ (m[i] = Hello(3) => AskedOf(h, i) = 3)
<1> DEFINE n == Len(m)
           es == Written(m, h)
<1>1. m \in Seq(Reply) /\ \A i \in 1 .. n : m[i] = Hello(3) => AskedOf(h, i) = 3
  BY DEF Answered
<1>2. n \in Nat /\ DOMAIN m = 1 .. n /\ \A i \in 1 .. n : m[i] \in Reply
  BY <1>1, LenProperties, ElementOfSeq
<1>3. \A i \in 1 .. n : Encode(m[i], AskedOf(h, i)) \in Seq(Out)
  BY <1>1, <1>2, ReplyWritten
<1>4. es = [i \in 1 .. n |-> Encode(m[i], AskedOf(h, i))]
  BY <1>2 DEF Written
<1> HIDE DEF n, es
<1>5. es \in [1 .. n -> Seq(Out)]
  BY <1>3, <1>4
<1>6. es \in Seq(Seq(Out)) /\ Len(es) = n
  BY <1>2, <1>5, LenProperties
<1> QED
  BY <1>1, <1>2, <1>4, <1>6 DEF n, es

\* The version of the first n commands is the same for both.
AskAlike(h, k, n) == \A i \in 1 .. n : AskedOf(k, i) = AskedOf(h, i)

\* The next reply, v, is for the version w, which can have it.
ComesNext(v, w, m, k) == v \in Reply /\ w = AskedOf(k, Len(m) + 1) /\ (v = Hello(3) => w = 3)

\* It is written behind the others.
AddsTo(m, h, v, k, w) ==
  /\ Answered(Append(m, v), k)
  /\ FlattenSeq(Written(Append(m, v), k)) = FlattenSeq(Written(m, h)) \o Encode(v, w)

\* A reply more.
LEMMA WrittenMore ==
  ASSUME NEW m, NEW h, Answered(m, h), NEW k, AskAlike(h, k, Len(m)), NEW v, NEW w, ComesNext(v, w, m, k)
  PROVE  AddsTo(m, h, v, k, w)
<1> DEFINE a == Append(m, v)
           n == Len(m)
           q == n + 1
           es == Written(m, h)
           fs == Written(a, k)
           x == Encode(v, w)
<1>1. m \in Seq(Reply) /\ \A i \in 1 .. n : m[i] = Hello(3) => AskedOf(h, i) = 3
  BY DEF Answered
<1>2. v \in Reply /\ w = AskedOf(k, q) /\ (v = Hello(3) => w = 3)
  BY DEF ComesNext
<1>3. /\ a \in Seq(Reply) /\ Len(a) = q /\ n \in Nat /\ q = n + 1 /\ a[q] = v
      /\ \A i \in 1 .. n : a[i] = m[i]
  <2>1. OneMore(Append(m, v), m, v) /\ Append(m, v) \in Seq(Reply)
    BY <1>1, <1>2, AppendsOne
  <2> QED
    BY <2>1 DEF OneMore
<1>4. \A i \in 1 .. n : AskedOf(k, i) = AskedOf(h, i)
  BY DEF AskAlike
<1>5. /\ es \in Seq(Seq(Out)) /\ Len(es) = n
      /\ \A i \in 1 .. n : es[i] = Encode(m[i], AskedOf(h, i))
  BY WrittenType
<1> HIDE DEF a, n, q
<1>6. \A i \in 1 .. q : i = q \/ i \in 1 .. n
  BY <1>3
<1>7. Answered(a, k)
  <2>1. ASSUME NEW i \in 1 .. q, a[i] = Hello(3) PROVE AskedOf(k, i) = 3
    <3>1. CASE i = q
      BY <1>3, <1>2, <2>1, <3>1
    <3>2. CASE i \in 1 .. n
      BY <1>1, <1>3, <1>4, <2>1, <3>2
    <3> QED
      BY <1>6, <3>1, <3>2
  <2> QED
    BY <1>3, <2>1 DEF Answered
<1>8. /\ fs \in Seq(Seq(Out)) /\ Len(fs) = q
      /\ \A i \in 1 .. q : fs[i] = Encode(a[i], AskedOf(k, i))
  <2>1. /\ fs \in Seq(Seq(Out)) /\ Len(fs) = Len(a)
        /\ \A i \in 1 .. Len(a) : fs[i] = Encode(a[i], AskedOf(k, i))
    BY <1>7, WrittenType
  <2> QED
    BY <1>3, <2>1
<1> HIDE DEF es, fs
<1>9. x \in Seq(Out)
  BY <1>2, ReplyWritten
<1>10. fs = Append(es, x)
  <2>1. OneMore(Append(es, x), es, x) /\ Append(es, x) \in Seq(Seq(Out))
    BY <1>5, <1>9, AppendsOne
  <2> DEFINE gs == Append(es, x)
  <2>2. gs \in Seq(Seq(Out)) /\ Len(gs) = q /\ gs[q] = x /\ \A i \in 1 .. n : gs[i] = es[i]
    BY <1>3, <1>5, <2>1 DEF OneMore
  <2> HIDE DEF gs
  <2>3. ASSUME NEW i \in 1 .. q PROVE fs[i] = gs[i]
    <3>1. CASE i = q
      BY <1>3, <1>2, <1>8, <2>2, <3>1
    <3>2. CASE i \in 1 .. n
      BY <1>3, <1>4, <1>5, <1>8, <2>2, <3>2
    <3> QED
      BY <1>6, <3>1, <3>2
  <2>4. fs = gs
    <3>1. \A i \in 1 .. Len(fs) : fs[i] = gs[i]
      BY <1>8, <2>3
    <3> QED
      BY <1>8, <2>2, <3>1, SeqEqual
  <2> QED
    BY <2>4 DEF gs
<1>11. FlattenSeq(fs) = FlattenSeq(es) \o x
  <2> HIDE DEF x
  <2>1. FlattenSeq(Append(es, x)) = FlattenSeq(es) \o x
    BY <1>5, <1>9, FlattenAppend
  <2> QED
    BY <1>10, <2>1
<1> QED
  BY <1>7, <1>11 DEF a, fs, es, x, AddsTo

-----------------------------------------------------------------------------
(* What the handler makes of a command                                    *)

\* What the client sends can be sent back.
LEMMA SymbolsOut ==
  ASSUME NEW s \in Seq(Symbol)
  PROVE  s \in Seq(Out)
<1>1. Len(s) \in Nat /\ \A i \in 1 .. Len(s) : s[i] \in Symbol
  BY LenProperties, ElementOfSeq
<1>2. \A i \in 1 .. Len(s) : s[i] \in Out
  BY <1>1, OutSymbols
<1>3. s = [i \in 1 .. Len(s) |-> s[i]]
  BY <1>1
<1> QED
  BY <1>1, <1>2, <1>3

\* A word of a command is a plain value; its name is a text.
LEMMA WordsPlain ==
  ASSUME NEW c \in Cmds
  PROVE  /\ \A i \in 1 .. Len(c) : c[i] \in Plain
         /\ Name(c) \in Seq(Out) /\ Len(c) \in Nat /\ (c # <<>> => Len(c) >= 1)
<1>1. /\ Len(c) \in Nat /\ \A i \in 1 .. Len(c) : c[i] \in Strings \cup {Number(5)}
      /\ (c # <<>> => Len(c) >= 1)
  BY LenProperties, ElementOfSeq, EmptySeq DEF Cmds
<1>2. ASSUME NEW x \in Strings PROVE x \in Plain /\ x[2] \in Seq(Out)
  <2>1. PICK s \in Seq(Symbol) : x = <<"str", s>>
    BY DEF Strings
  <2>2. s \in Seq(Out)
    BY SymbolsOut
  <2> QED
    BY <2>1, <2>2 DEF Plain
<1>3. Number(5) \in Plain /\ Number(5)[1] # "str"
  BY DEF Plain, Number
<1>4. Name(c) \in Seq(Out)
  <2>1. CASE c # <<>> /\ c[1][1] = "str"
    <3>1. c[1] \in Strings
      BY <1>1, <1>3, <2>1
    <3>2. Name(c) = c[1][2]
      BY <2>1 DEF Name
    <3> QED
      BY <1>2, <3>1, <3>2
  <2>2. CASE ~(c # <<>> /\ c[1][1] = "str")
    <3>1. Name(c) = <<>>
      BY <2>2, Zenon DEF Name
    <3> QED
      BY <3>1, NoText
  <2> QED
    BY <2>1, <2>2
<1>5. \A i \in 1 .. Len(c) : c[i] \in Plain
  BY <1>1, <1>2, <1>3
<1> QED
  BY <1>1, <1>4, <1>5

\* What dispatch makes of a command can be an element of a list.
LEMMA DispatchInner ==
  ASSUME NEW c \in Cmds
  PROVE  Dispatch(c) \in Inner
<1>1. /\ \A i \in 1 .. Len(c) : c[i] \in Plain
      /\ Name(c) \in Seq(Out) /\ Len(c) \in Nat
  BY WordsPlain
<1>2. ASSUME Len(c) >= 2 PROVE c[2] \in Inner
  BY <1>1, <1>2 DEF Inner
<1>3. Null \in Inner
  BY DEF Inner, Plain
<1>4. ASSUME NEW name \in Seq(Out) PROVE Constant(name) \in Inner
  <2>1. Number(0) \in Inner /\ List(<<>>) \in Inner
    BY DEF Inner, Plain, Number
  <2>2. "PONG" \in OwnWords /\ "OK" \in OwnWords /\ "unknown" \in OwnWords
    BY DEF OwnWords
  <2>3. Str(Word("PONG")) \in Inner /\ Str(Word("OK")) \in Inner
    BY <2>2, OwnWordPlain DEF Inner
  <2>4. Err(Word("unknown") \o name) \in Inner
    <3>1. Word("unknown") \in Seq(Out)
      BY <2>2, OwnWordPlain
    <3> DEFINE s == Word("unknown") \o name
    <3>2. s \in Seq(Out)
      BY <3>1, ConcatProperties
    <3> HIDE DEF s
    <3>3. Err(s) \in Inner
      BY <3>2 DEF Inner, Plain, Err
    <3> QED
      BY <3>3 DEF s
  <2> DEFINE d == Number(0)
             e == Err(Word("unknown") \o name)
             f == Str(Word("PONG"))
             g == Str(Word("OK"))
             l == List(<<>>)
  <2>5. \/ Constant(name) = d \/ Constant(name) = e \/ Constant(name) = f
        \/ Constant(name) = g \/ Constant(name) = l
    BY DEF Constant
  <2> HIDE DEF d, e, f, g, l
  <2>6. d \in Inner /\ e \in Inner /\ f \in Inner /\ g \in Inner /\ l \in Inner
    BY <2>1, <2>3, <2>4 DEF d, e, f, g, l
  <2> QED
    BY <2>5, <2>6
<1>5. Constant(Name(c)) \in Inner
  BY <1>1, <1>4
<1>6. Missing(Name(c)) \in Inner
  <2>1. Number(0) \in Inner /\ Number(-2) \in Inner
    BY DEF Inner, Plain, Number
  <2> QED
    BY <1>3, <2>1 DEF Missing
<1>7. Err(Word("wrong number")) \in Inner
  <2>1. "wrong number" \in OwnWords
    BY DEF OwnWords
  <2> QED
    BY <2>1, OwnWordPlain DEF Inner
<1>8. \/ Len(c) >= 2 /\ Dispatch(c) = c[2]
      \/ Dispatch(c) = Missing(Name(c))
      \/ Dispatch(c) = Err(Word("wrong number"))
      \/ Dispatch(c) = Constant(Name(c))
  <2> DEFINE w == Err(Word("wrong number"))
             m == Missing(Name(c))
             k == Constant(Name(c))
             short == Name(c) \in Lookups \cup {Word("ECHO")} /\ Len(c) < 2
             given == Name(c) \in {Word("ECHO"), Word("PING")} /\ Len(c) >= 2
             asked == Name(c) \in Lookups /\ Len(c) >= 2
  <2>1. Dispatch(c) = CASE short -> w [] given -> c[2] [] asked -> m [] OTHER -> k
    BY DEF Dispatch
  <2>2. given => Len(c) >= 2
    OBVIOUS
  <2> HIDE DEF w, m, k, short, given, asked
  <2>3. \/ given /\ Dispatch(c) = c[2]
        \/ Dispatch(c) = m \/ Dispatch(c) = w \/ Dispatch(c) = k
    BY <2>1
  <2> QED
    BY <2>2, <2>3 DEF w, m, k
<1> QED
  BY <1>2, <1>5, <1>6, <1>7, <1>8

\* An element of a list can be a reply; so can a list of them; neither is a map.
Single == Plain \cup Lists

\* That is so.
LEMMA Singles ==
  /\ Inner \subseteq Single /\ Single \subseteq Reply
  /\ \A s \in Seq(Inner) : List(s) \in Single
  /\ \A v \in Single : v # Hello(3)
  /\ \A y \in OwnWords : Str(Word(y)) \in Single /\ Err(Word(y)) \in Single
<1>1. \A s \in Seq(Inner) : List(s) \in Lists
  BY DEF Lists, List
<1>2. <<>> \in Seq(Inner)
  BY EmptySeq
<1>3. List(<<>>) \in Lists
  BY <1>1, <1>2
<1>4. \A v \in Single : v # Hello(3)
  <2>1. Hello(3)[1] = "map"
    BY DEF Hello, Map
  <2>2. \A v \in Lists : v[1] = "list"
    BY DEF Lists
  <2>3. \A v \in Plain : v[1] # "map"
    BY PlainIsOne
  <2>4. "list" # "map"
    OBVIOUS
  <2> QED
    BY <2>1, <2>2, <2>3, <2>4, Zenon DEF Single
<1>5. \A y \in OwnWords : Str(Word(y)) \in Plain /\ Err(Word(y)) \in Plain
  BY OwnWordPlain
<1> QED
  BY <1>1, <1>3, <1>4, <1>5 DEF Single, Inner, Reply

\* The handler has made a reply of a command, and written it for the version it asked for.
Replying(v) ==
  /\ made' = Append(made, v) /\ outbox' = outbox \o Encode(v, proto')
  /\ v = Hello(3) => proto' = 3

CommandReplied(c) ==
  /\ \E v \in Reply : Replying(v)
  /\ proto' = IF AsksFor(c) THEN AskedBy(c) ELSE proto

\* Most commands leave the version as it was.
LEMMA RepliesSingle ==
  ASSUME NEW c, ~AsksFor(c), NEW v \in Single, Write(v, proto), proto' = proto
  PROVE  CommandReplied(c)
<1>1. made' = Append(made, v) /\ outbox' = outbox \o Encode(v, proto)
  BY DEF Write
<1>2. v # Hello(3) /\ v \in Reply
  BY Singles
<1>3. Replying(v)
  BY <1>1, <1>2 DEF Replying
<1> QED
  BY <1>2, <1>3 DEF CommandReplied

\* HELLO may change it.
LEMMA RepliesHello ==
  ASSUME NEW c \in Cmds, Name(c) = Word("HELLO"), HELLO(c), proto \in {2, 3}
  PROVE  CommandReplied(c)
<1>1. Len(c) \in Nat
  BY WordsPlain
<1>2. Word("2") # Word("3")
  BY DEF Word
<1>3. Str(Word("2")) # Str(Word("3"))
  BY <1>2 DEF Str
<1>4. /\ AsksFor(c) => Version(c) = AskedBy(c)
      /\ ~AsksFor(c) => Version(c) = 0 \/ Version(c) = proto
      /\ Version(c) # 0 => Version(c) \in {2, 3}
      /\ AskedBy(c) \in {2, 3}
  BY <1>1, <1>3 DEF AsksFor, AskedBy, Version
<1>5. CASE Version(c) = 0 /\ Write(Err(Word("NOPROTO")), proto) /\ proto' = proto
  <2>1. ~AsksFor(c)
    BY <1>4, <1>5
  <2>2. Err(Word("NOPROTO")) \in Single
    <3>1. "NOPROTO" \in OwnWords
      BY DEF OwnWords
    <3> QED
      BY <3>1, Singles
  <2> QED
    BY <1>5, <2>1, <2>2, RepliesSingle
<1>6. CASE Version(c) # 0 /\ proto' = Version(c) /\ Write(Hello(proto'), proto')
  <2>1. proto' \in {2, 3}
    BY <1>4, <1>6
  <2>2. proto' = IF AsksFor(c) THEN AskedBy(c) ELSE proto
    BY <1>4, <1>6
  <2>3. Hello(proto') \in Reply /\ (Hello(proto') = Hello(3) => proto' = 3)
    <3>1. CASE proto' = 3
      BY <3>1 DEF Reply
    <3>2. CASE proto' = 2
      <4>1. Hello(2) = List(HelloFields(2)) /\ HelloFields(2) \in Seq(Inner)
        <5>1. 2 \in Int /\ 2 # 3
          OBVIOUS
        <5> QED
          BY <5>1, HelloIs
      <4>2. Hello(2) \in Single
        BY <4>1, Singles
      <4> QED
        BY <3>2, <4>2, Singles
    <3> QED
      BY <2>1, <3>1, <3>2
  <2> DEFINE v == Hello(proto')
  <2>4. made' = Append(made, v) /\ outbox' = outbox \o Encode(v, proto')
    BY <1>6 DEF Write
  <2> HIDE DEF v
  <2>5. Replying(v)
    BY <2>3, <2>4 DEF Replying, v
  <2> QED
    BY <2>2, <2>3, <2>5 DEF CommandReplied, v
<1> QED
  BY <1>5, <1>6 DEF HELLO

\* The queue holds commands.
QueueTyped == queue = Null \/ (queue = List(queue[2]) /\ queue[2] \in Seq(Cmds \ {<<>>}))

\* EXEC makes a list of what dispatch makes of them.
LEMMA RepliesExec ==
  ASSUME NEW c, ~AsksFor(c), EXEC, QueueTyped
  PROVE  CommandReplied(c)
<1>1. "EXEC without MULTI" \in OwnWords /\ "server error" \in OwnWords
  BY DEF OwnWords
<1>2. CASE Answer(Err(Word("EXEC without MULTI")))
  <2>1. Err(Word("EXEC without MULTI")) \in Single
    BY <1>1, Singles
  <2> QED
    BY <1>2, <2>1, RepliesSingle DEF Answer
<1>3. CASE Fail
  <2>1. Err(Word("server error")) \in Single
    BY <1>1, Singles
  <2> QED
    BY <1>3, <2>1, RepliesSingle DEF Fail
<1>4. CASE queue # Null /\ Answer(List([i \in DOMAIN queue[2] |-> Dispatch(queue[2][i])]))
  <2> DEFINE q == queue[2]
             s == [i \in DOMAIN q |-> Dispatch(q[i])]
  <2>1. q \in Seq(Cmds \ {<<>>})
    BY <1>4 DEF QueueTyped
  <2>2. Answer(List(s))
    BY <1>4
  <2> HIDE DEF q
  <2>3. Len(q) \in Nat /\ DOMAIN q = 1 .. Len(q) /\ \A i \in 1 .. Len(q) : q[i] \in Cmds
    BY <2>1, LenProperties, ElementOfSeq
  <2>4. \A i \in 1 .. Len(q) : Dispatch(q[i]) \in Inner
    BY <2>3, DispatchInner
  <2>5. s \in [1 .. Len(q) -> Inner]
    BY <2>3, <2>4
  <2> HIDE DEF s
  <2>6. s \in Seq(Inner)
    BY <2>3, <2>5
  <2>7. List(s) \in Single
    BY <2>6, Singles
  <2>8. Write(List(s), proto) /\ proto' = proto
    BY <2>2 DEF Answer
  <2> QED
    BY <2>7, <2>8, RepliesSingle
<1> QED
  BY <1>2, <1>3, <1>4 DEF EXEC

\* Any other command is queued, or dispatched.
LEMMA RepliesData ==
  ASSUME NEW c \in Cmds, ~AsksFor(c), Data(c)
  PROVE  CommandReplied(c)
<1>1. "QUEUED" \in OwnWords /\ "server error" \in OwnWords
  BY DEF OwnWords
<1>2. CASE Answer(Str(Word("QUEUED")))
  <2>1. Str(Word("QUEUED")) \in Single
    BY <1>1, Singles
  <2> QED
    BY <1>2, <2>1, RepliesSingle DEF Answer
<1>3. CASE Fail
  <2>1. Err(Word("server error")) \in Single
    BY <1>1, Singles
  <2> QED
    BY <1>3, <2>1, RepliesSingle DEF Fail
<1>4. CASE Answer(Dispatch(c))
  <2>1. Dispatch(c) \in Single
    BY DispatchInner, Singles
  <2> QED
    BY <1>4, <2>1, RepliesSingle DEF Answer
<1> QED
  BY <1>2, <1>3, <1>4 DEF Data

\* So the handler makes one reply of each command.
LEMMA CommandReplies ==
  ASSUME NEW c \in Cmds, Command(c), QueueTyped, proto \in {2, 3}
  PROVE  CommandReplied(c)
<1>1. AsksFor(c) => Name(c) = Word("HELLO")
  BY DEF AsksFor
<1>2. Name(<<>>) # Word("HELLO")
  BY Names
<1>3. CASE Refusal(c)
  <2>1. "empty command" \in OwnWords /\ "no password is set" \in OwnWords
    BY DEF OwnWords
  <2>2. Err(Word("empty command")) \in Single /\ Err(Word("no password is set")) \in Single
    BY <2>1, Singles
  <2>3. ~AsksFor(c)
    BY <1>1, <1>2, <1>3, Names DEF Refusal
  <2>4. CASE Answer(Err(Word("empty command")))
    BY <2>2, <2>3, <2>4, RepliesSingle DEF Answer
  <2>5. CASE Answer(Err(Word("no password is set")))
    BY <2>2, <2>3, <2>5, RepliesSingle DEF Answer
  <2> QED
    BY <1>3, <2>4, <2>5 DEF Refusal
<1>4. CASE Name(c) = Word("HELLO") /\ HELLO(c)
  BY <1>4, RepliesHello
<1>5. CASE Name(c) = Word("MULTI") /\ MULTI
  <2>1. MULTI /\ ~AsksFor(c)
    BY <1>1, <1>5, Names
  <2>2. "OK" \in OwnWords
    BY DEF OwnWords
  <2>3. Str(Word("OK")) \in Single
    BY <2>2, Singles
  <2> QED
    BY <2>1, <2>3, RepliesSingle DEF MULTI, Answer
<1>6. CASE Name(c) = Word("EXEC") /\ EXEC
  <2>1. EXEC /\ ~AsksFor(c)
    BY <1>1, <1>6, Names
  <2> QED
    BY <2>1, RepliesExec
<1>7. CASE Name(c) = Word("DISCARD") /\ DISCARD
  <2>1. "DISCARD without MULTI" \in OwnWords /\ "OK" \in OwnWords /\ ~AsksFor(c)
    BY <1>1, <1>7, Names DEF OwnWords
  <2>2. Err(Word("DISCARD without MULTI")) \in Single /\ Str(Word("OK")) \in Single
    BY <2>1, Singles
  <2>3. PICK v \in Single : Answer(v)
    <3> DEFINE e == Err(Word("DISCARD without MULTI"))
               o == Str(Word("OK"))
    <3>1. Answer(IF queue = Null THEN e ELSE o)
      BY <1>7 DEF DISCARD
    <3>2. e \in Single /\ o \in Single
      BY <2>2
    <3> HIDE DEF e, o
    <3> QED
      BY <3>1, <3>2
  <2> QED
    BY <2>1, <2>3, RepliesSingle DEF Answer
<1>8. CASE c # <<>> /\ Name(c) # Word("HELLO") /\ Data(c)
  <2>1. ~AsksFor(c)
    BY <1>1, <1>8
  <2> QED
    BY <1>8, <2>1, RepliesData
<1> QED
  BY <1>3, <1>4, <1>5, <1>6, <1>7, <1>8, CommandCases

-----------------------------------------------------------------------------
(* All that has been written                                              *)

\* There is one reply to each command, and one more if the handler has failed; each has
\* been written for the version that was asked for up to its command.
MadeInv ==
  /\ Answered(made, handled)
  /\ IF open THEN Len(made) = Len(handled) ELSE Len(made) \in {Len(handled), Len(handled) + 1}
  /\ proto = AskedOf(handled, Len(handled))
  /\ outbox = FlattenSeq(Written(made, handled))

\* So it is at the start.
LEMMA MadeInit ==
  ASSUME Init
  PROVE  MadeInv
<1>1. open = TRUE /\ proto = 2 /\ handled = <<>> /\ made = <<>> /\ outbox = <<>>
  BY DEF Init
<1> PICK none : none = <<>>
  OBVIOUS
<1>2. none \in Seq(Reply) /\ Len(none) = 0 /\ DOMAIN none = {}
  OBVIOUS
<1>3. Answered(none, none)
  BY <1>2 DEF Answered
<1>4. Hellos(none, Len(none)) = {}
  BY <1>2 DEF Hellos
<1>5. AskedOf(none, Len(none)) = 2
  BY <1>4, Zenon DEF AskedOf
<1>6. Written(none, none) = <<>>
  <2>1. Written(none, none) \in Seq(Seq(Out)) /\ Len(Written(none, none)) = 0
    BY <1>2, <1>3, WrittenType
  <2> DEFINE es == Written(none, none)
  <2> HIDE DEF es
  <2>2. es \in Seq(Seq(Out)) /\ Len(es) = 0
    BY <2>1 DEF es
  <2>3. es = <<>>
    BY <2>2, NoLine
  <2> QED
    BY <2>3 DEF es
<1>7. FlattenSeq(<<>>) = <<>>
  BY DEF FlattenSeq
<1> QED
  BY <1>1, <1>2, <1>3, <1>5, <1>6, <1>7 DEF MadeInv

\* A reply more is as the others.
LEMMA MadeMore ==
  ASSUME MadeInv, NEW k, AskAlike(handled, k, Len(made)), handled' = k,
         NEW v \in Reply, Replying(v), proto' = AskedOf(k, Len(made) + 1)
  PROVE  Answered(made', handled') /\ outbox' = FlattenSeq(Written(made', handled'))
<1>1. Answered(made, handled) /\ outbox = FlattenSeq(Written(made, handled))
  BY DEF MadeInv
<1>2. /\ made' = Append(made, v) /\ outbox' = outbox \o Encode(v, proto')
      /\ (v = Hello(3) => proto' = 3)
  BY DEF Replying
<1> DEFINE w == proto'
<1>3. w = AskedOf(k, Len(made) + 1) /\ (v = Hello(3) => w = 3)
  BY <1>2
<1> HIDE DEF w
<1>4. ComesNext(v, w, made, k)
  BY <1>3 DEF ComesNext
<1>5. AddsTo(made, handled, v, k, w)
  BY <1>1, <1>4, WrittenMore
<1> QED
  BY <1>1, <1>2, <1>5 DEF AddsTo, w

\* A reply to a command.
LEMMA MadeExecutes ==
  ASSUME StreamInv, MadeInv, NEW c \in Cmds, NEW rest, Executes(c, rest)
  PROVE  MadeInv'
<1> DEFINE n == Len(handled)
           q == n + 1
           k == Append(handled, c)
<1>1. handled \in Seq(Cmds) /\ QueueTyped /\ n \in Nat /\ q = n + 1 /\ n \in 0 .. n
  BY LenProperties DEF StreamInv, StreamType, QueueTyped
<1>2. Command(c) /\ handled' = k /\ open
  BY DEF Executes
<1>3. Len(made) = n /\ proto = AskedOf(handled, n) /\ Answered(made, handled)
  BY <1>2 DEF MadeInv
<1>4. proto \in {2, 3}
  BY <1>3, AskedVersions
<1>5. CommandReplied(c)
  BY <1>1, <1>2, <1>4, CommandReplies
<1>6. OneMore(k, handled, c) /\ k \in Seq(Cmds)
  BY <1>1, AppendsOne
<1> HIDE DEF k
<1>7. Len(k) = q
  BY <1>6 DEF OneMore
<1>8. AskAlike(handled, k, n)
  <2>1. \A i \in 1 .. n : i \in 0 .. Len(handled)
    BY <1>1
  <2>2. \A i \in 1 .. n : AskedOf(k, i) = AskedOf(handled, i)
    BY <1>6, <2>1, AskedBefore
  <2> QED
    BY <2>2 DEF AskAlike
<1>9. proto' = AskedOf(k, q)
  <2>1. proto' = IF AsksFor(c) THEN AskedBy(c) ELSE proto
    BY <1>5 DEF CommandReplied
  <2>2. AsksFor(c) => AskedOf(k, q) = AskedBy(c)
    BY <1>6, AskedLast
  <2>3. ~AsksFor(c) => AskedOf(k, q) = AskedOf(handled, n)
    BY <1>6, AskedOther
  <2> QED
    BY <1>3, <2>1, <2>2, <2>3
<1>10. PICK v \in Reply : Replying(v)
  BY <1>5 DEF CommandReplied
<1>11. Answered(made', handled') /\ outbox' = FlattenSeq(Written(made', handled'))
  <2>1. AskAlike(handled, k, Len(made)) /\ proto' = AskedOf(k, Len(made) + 1)
    BY <1>3, <1>8, <1>9
  <2> QED
    BY <1>2, <1>10, <2>1, MadeMore
<1>12. Len(made') = Len(handled')
  <2>1. made \in Seq(Reply) /\ made' = Append(made, v)
    BY <1>3, <1>10 DEF Answered, Replying
  <2>2. Len(made') = Len(made) + 1
    BY <2>1, AppendProperties
  <2> QED
    BY <1>2, <1>3, <1>7, <2>2
<1> QED
  BY <1>2, <1>7, <1>9, <1>11, <1>12 DEF MadeInv

\* A reply without a command: the read has failed.
LEMMA MadeFails ==
  ASSUME StreamInv, MadeInv, open, Fail, handled' = handled
  PROVE  MadeInv'
<1> DEFINE n == Len(handled)
           v == Err(Word("server error"))
<1>1. handled \in Seq(Cmds) /\ n \in Nat
  BY LenProperties DEF StreamInv, StreamType
<1>2. Len(made) = n /\ proto = AskedOf(handled, n) /\ Answered(made, handled)
  BY DEF MadeInv
<1>3. /\ made' = Append(made, v) /\ outbox' = outbox \o Encode(v, proto)
      /\ open' = FALSE /\ proto' = proto
  BY DEF Fail, Write
<1>4. v \in Reply /\ v # Hello(3)
  <2>1. "server error" \in OwnWords
    BY DEF OwnWords
  <2> QED
    BY <2>1, Singles
<1> HIDE DEF v
<1>5. Replying(v)
  BY <1>3, <1>4 DEF Replying
<1>6. AskAlike(handled, handled, Len(made))
  BY DEF AskAlike
<1>7. proto' = AskedOf(handled, Len(made) + 1)
  BY <1>1, <1>2, <1>3, AskedAfter
<1>8. Answered(made', handled') /\ outbox' = FlattenSeq(Written(made', handled'))
  BY <1>4, <1>5, <1>6, <1>7, MadeMore
<1>9. Len(made') = n + 1
  <2>1. made \in Seq(Reply)
    BY <1>2 DEF Answered
  <2> QED
    BY <1>2, <1>3, <1>4, <2>1, AppendProperties
<1> QED
  BY <1>2, <1>3, <1>8, <1>9 DEF MadeInv

\* MadeInv is inductive, once StreamInv is known.
LEMMA MadeStep ==
  ASSUME StreamInv, MadeInv, [Next]_vars
  PROVE  MadeInv'
<1>1. ASSUME made' = made, handled' = handled, outbox' = outbox, proto' = proto,
             open' = open \/ open' = FALSE
      PROVE  MadeInv'
  <2>1. open \in BOOLEAN
    BY DEF StreamInv, StreamType
  <2>2. IF open' THEN Len(made) = Len(handled) ELSE Len(made) \in {Len(handled), Len(handled) + 1}
    BY <1>1, <2>1 DEF MadeInv
  <2> QED
    BY <1>1, <2>2 DEF MadeInv
<1>2. CASE Arrive
  BY <1>1, <1>2 DEF Arrive
<1>3. CASE Leave
  BY <1>1, <1>3 DEF Leave
<1>4. CASE UNCHANGED vars
  BY <1>1, <1>4 DEF vars
<1>5. CASE Handle
  <2> DEFINE out == Parse(inbox, eof)
  <2>1. NextOutcome(out)
    BY StreamRead
  <2>2. \/ out[1] = "value" /\ out[2] # Null /\ Executes(Normalised(out[2]), out[3])
        \/ /\ open' = FALSE
           /\ proto' = proto /\ handled' = handled /\ made' = made /\ outbox' = outbox
        \/ open /\ Fail /\ handled' = handled
    BY <1>5 DEF Handle, Executes
  <2>3. NoMore(eof)[1] # "value" /\ Error[1] # "value"
    BY DEF NoMore, Gone, Wait, Error
  <2> HIDE DEF out
  <2>4. CASE out[1] = "value" /\ out[2] # Null /\ Executes(Normalised(out[2]), out[3])
    <3> DEFINE c == Normalised(out[2])
               rest == out[3]
    <3>1. c \in Cmds
      BY <2>1, <2>3, <2>4 DEF NextOutcome, Outcome, ReadAsCommand
    <3>2. Executes(c, rest)
      BY <2>4
    <3> HIDE DEF c, rest
    <3> QED
      BY <3>1, <3>2, MadeExecutes
  <2>5. CASE /\ open' = FALSE
             /\ proto' = proto /\ handled' = handled /\ made' = made /\ outbox' = outbox
    BY <1>1, <2>5
  <2>6. CASE open /\ Fail /\ handled' = handled
    BY <2>6, MadeFails
  <2> QED
    BY <2>2, <2>4, <2>5, <2>6
<1> QED
  BY <1>2, <1>3, <1>4, <1>5 DEF Next

-----------------------------------------------------------------------------
(* All that is read                                                       *)

\* Nothing is left to read.
LEMMA DecodeNothing ==
  ASSUME NEW u
  PROVE  Decode(<<>>, u) = Wait
<1> PICK none : none = <<>>
  OBVIOUS
<1> DEFINE read == Decodings(none, u)
           one == read[Len(none)][1]
<1>1. none \in Seq(Out) /\ Len(none) = 0
  BY EmptySeq
<1>2. DecodeFrame(none, u) = Wait
  <2>1. {i \in 1 .. Len(none) - 1 : none[i] = CR /\ none[i + 1] = LF} = {}
    BY <1>1
  <2> QED
    BY <2>1, Zenon DEF DecodeFrame
<1>3. IsRest(none, none, Out)
  BY <1>1, RestItself
<1>4. one = Elements(read, Wait, none, 1)
  <2>1. 1 \in Int
    OBVIOUS
  <2>2. read[Len(none)][1] = Elements(read, DecodeFrame(none, u), none, 1)
    BY <1>3, <2>1, DecodingAt
  <2> QED
    BY <1>2, <2>2
<1>5. Wait[1] # "value"
  BY DEF Wait
<1> HIDE DEF read
<1>6. one = Wait
  <2>1. 1 \in Int /\ 1 > 0
    OBVIOUS
  <2>2. Elements(read, Wait, none, 1) = Wait
    BY <1>5, <2>1, ElementsStop
  <2> QED
    BY <1>4, <2>2
<1>7. ~(Len(none) >= 3)
  BY <1>1
<1>8. read[Len(none)][1][1] # "value" => Decode(none, u) = read[Len(none)][1]
  BY <1>7, Zenon DEF Decode, One, Decodings, DecodeFrames, read
<1> QED
  BY <1>5, <1>6, <1>8

\* The client reads the n-th reply.
Turn(read, n) ==
  LET before == read[n - 1]
      reply  == Decode(before[3], Asked(n))
  IN  IF n = 0 THEN Read(<<>>, outbox)
      ELSE IF before[1] # "value" THEN before
      ELSE IF reply[1] # "value" THEN reply
      ELSE Read(Append(before[2], reply[2]), reply[3])

\* Replies is what takes its turns.
LEMMA RepliesIs ==
  ASSUME NEW g, g = [n \in Nat |-> Turn(g, n)], NEW k \in Nat
  PROVE  Replies[k] = g[k]
<1> DEFINE F == CHOOSE f : f = [n \in Nat |-> Turn(f, n)]
           T == {n \in Nat : F[n] = g[n]}
<1>1. F = [n \in Nat |-> Turn(F, n)]
  OBVIOUS
<1>2. Replies = F
  BY Zenon DEF Replies, Turn
<1> HIDE DEF F
<1>3. \A n \in Nat : F[n] = Turn(F, n) /\ g[n] = Turn(g, n)
  BY <1>1
<1>4. Turn(F, 0) = Turn(g, 0)
  BY DEF Turn
<1>5. ASSUME NEW n \in Nat, NEW m, m = n + 1, F[n] = g[n] PROVE Turn(F, m) = Turn(g, m)
  <2>1. m - 1 = n /\ m # 0
    BY <1>5
  <2>2. F[m - 1] = g[m - 1]
    BY <1>5, <2>1
  <2> QED
    BY <2>2, Zenon DEF Turn
<1>6. 0 \in T
  BY <1>3, <1>4
<1>7. \A n \in T : n + 1 \in T
  <2> SUFFICES ASSUME NEW n \in T PROVE n + 1 \in T
    OBVIOUS
  <2>1. PICK m \in Nat : m = n + 1
    OBVIOUS
  <2>2. Turn(F, m) = Turn(g, m)
    BY <1>5, <2>1
  <2> QED
    BY <1>3, <2>1, <2>2
<1>8. T = Nat
  <2> HIDE DEF T
  <2>1. T \in SUBSET Nat
    BY DEF T
  <2> QED
    BY <1>6, <1>7, <2>1, EveryNumber
<1> QED
  BY <1>2, <1>8

\* A turn in which a reply is read.
LEMMA TurnReads ==
  ASSUME NEW read, NEW n \in Nat, NEW s, NEW b, read[n] = Read(s, b), NEW v, NEW r,
         Decode(b, Asked(n + 1)) = Read(v, r)
  PROVE  Turn(read, n + 1) = Read(Append(s, v), r)
<1> PICK q \in Nat : q = n + 1
  OBVIOUS
<1>1. q # 0 /\ q - 1 = n
  OBVIOUS
<1>2. Read(s, b)[1] = "value" /\ Read(s, b)[2] = s /\ Read(s, b)[3] = b
  BY DEF Read
<1>3. Read(v, r)[1] = "value" /\ Read(v, r)[2] = v /\ Read(v, r)[3] = r
  BY DEF Read
<1>4. /\ read[q - 1][1] = "value" /\ read[q - 1][2] = s /\ read[q - 1][3] = b
      /\ Decode(read[q - 1][3], Asked(q)) = Read(v, r)
  BY <1>1, <1>2
<1>5. Turn(read, q) = Read(Append(s, v), r)
  BY <1>1, <1>3, <1>4, Zenon DEF Turn
<1> QED
  BY <1>5

\* What is left after n replies begins with the next one.
LEMMA NextReply ==
  ASSUME StreamInv, MadeInv, \A i \in DOMAIN made : NoBreaks(made[i]), NEW n \in 0 .. Len(made) - 1
  PROVE  Decode(Beyond(Written(made, handled), n), Asked(n + 1))
           = Read(made[n + 1], Beyond(Written(made, handled), n + 1))
<1> DEFINE es == Written(made, handled)
           L == Len(made)
<1> PICK q \in Nat : q = n + 1
  OBVIOUS
<1>1. /\ es \in Seq(Seq(Out)) /\ Len(es) = L /\ L \in Nat
      /\ \A i \in 1 .. L : /\ es[i] = Encode(made[i], AskedOf(handled, i))
                           /\ made[i] \in Reply /\ (made[i] = Hello(3) => AskedOf(handled, i) = 3)
  BY WrittenType DEF MadeInv
<1>2. DOMAIN made = 1 .. L
  BY LenProperties DEF MadeInv, Answered
<1> HIDE DEF es, L
<1>3. q \in 1 .. L /\ q \in 0 .. L /\ n \in 0 .. L - 1
  BY <1>1 DEF L
<1> DEFINE v == made[q]
           u == AskedOf(handled, q)
           r == Beyond(es, q)
<1>4. v \in Reply /\ NoBreaks(v) /\ u \in {2, 3} /\ (v = Hello(3) => u = 3)
  BY <1>1, <1>2, <1>3, AskedVersions
<1>5. r \in Seq(Out)
  BY <1>1, <1>3, BeyondParts
<1>6. Beyond(es, n) = Encode(v, u) \o r
  <2>1. \A k \in 0 .. Len(es) - 1 : Beyond(es, k) = es[k + 1] \o Beyond(es, k + 1)
    BY <1>1, BeyondNext
  <2>2. Beyond(es, n) = es[n + 1] \o Beyond(es, n + 1)
    BY <1>1, <1>3, <2>1
  <2> QED
    BY <1>1, <1>3, <2>2
<1>7. Asked(q) = u
  BY AskedIs
<1> HIDE DEF v, u, r
<1>8. Decode(Encode(v, u) \o r, u) = Read(v, r)
  BY <1>4, <1>5, ReplyReads
<1> QED
  BY <1>6, <1>7, <1>8 DEF v, r, es

\* So the client reads them all.
LEMMA AllRead ==
  ASSUME StreamInv, MadeInv, \A i \in DOMAIN made : NoBreaks(made[i])
  PROVE  Replies[Len(made)] = Read(made, <<>>)
<1> DEFINE es == Written(made, handled)
           L == Len(made)
           So(n) == Read(SubSeq(made, 1, n), Beyond(es, n))
           g == [n \in Nat |-> IF n <= L THEN So(n) ELSE Wait]
<1>1. es \in Seq(Seq(Out)) /\ Len(es) = L /\ L \in Nat /\ made \in Seq(Reply)
  BY WrittenType DEF MadeInv, Answered
<1>2. \A n \in 0 .. L - 1 : Decode(Beyond(es, n), Asked(n + 1)) = Read(made[n + 1], Beyond(es, n + 1))
  BY NextReply
<1>3. outbox = FlattenSeq(es)
  BY DEF MadeInv
<1> HIDE DEF es
<1>4. Beyond(es, 0) = outbox /\ Beyond(es, L) = <<>>
  BY <1>1, <1>3, BeyondNext
<1>5. SubSeq(made, 1, 0) = <<>> /\ SubSeq(made, 1, L) = made
  BY <1>1, SubSeqEmpty, SubSeqFull
<1>6. ASSUME NEW n \in 0 .. L - 1
      PROVE  SubSeq(made, 1, n + 1) = Append(SubSeq(made, 1, n), made[n + 1])
  <2>1. /\ n + 1 \in 1 .. Len(made) /\ 1 \in 1 .. Len(made) /\ n + 1 - 1 = n
        /\ n \in 0 .. Len(made)
    BY <1>1
  <2>2. SubSeq(made, 1, n + 1) = SubSeq(made, 1, n) \o <<made[n + 1]>>
    BY <1>1, <2>1, SubSeqRecursiveSecond
  <2>3. SubSeq(made, 1, n) \in Seq(Reply) /\ made[n + 1] \in Reply
    BY <1>1, <2>1, AfterParts, ElementOfSeq
  <2> QED
    BY <2>2, <2>3, AppendIsConcat
<1> HIDE DEF L
<1>7. \A n \in Nat : g[n] = IF n <= L THEN So(n) ELSE Wait
  OBVIOUS
<1> HIDE DEF g
<1>8. Wait[1] # "value" /\ \A v, r : Read(v, r)[1] = "value" /\ Read(v, r)[3] = r
  BY DEF Wait, Read
<1>9. g[0] = Read(<<>>, outbox) /\ g[L] = Read(made, <<>>)
  <2>1. 0 \in Nat /\ 0 <= L /\ L <= L
    BY <1>1
  <2>2. g[0] = So(0) /\ g[L] = So(L)
    <3> HIDE DEF So
    <3> QED
      BY <1>1, <1>7, <2>1
  <2> QED
    BY <1>4, <1>5, <2>2
<1>10. ASSUME NEW m \in Nat PROVE Turn(g, m) = g[m]
  <2>1. CASE m = 0
    <3>1. Turn(g, 0) = Read(<<>>, outbox)
      BY DEF Turn
    <3> QED
      BY <1>9, <2>1, <3>1
  <2>2. CASE m # 0 /\ m <= L
    <3>1. PICK n \in 0 .. L - 1 : m = n + 1 /\ n \in Nat
      <4>1. m - 1 \in 0 .. L - 1 /\ m = (m - 1) + 1 /\ m - 1 \in Nat
        BY <1>1, <2>2
      <4> QED
        BY <4>1
    <3> DEFINE s == SubSeq(made, 1, n)
               b == Beyond(es, n)
               v == made[n + 1]
               r == Beyond(es, n + 1)
    <3>2. g[n] = Read(s, b)
      BY <1>1, <1>7, <3>1
    <3>3. Decode(b, Asked(n + 1)) = Read(v, r)
      BY <1>2, <3>1
    <3>4. g[m] = Read(Append(s, v), r)
      <4>1. g[m] = Read(SubSeq(made, 1, m), Beyond(es, m))
        BY <1>7, <2>2
      <4>2. SubSeq(made, 1, n + 1) = Append(s, v)
        BY <1>6, <3>1
      <4> QED
        BY <3>1, <4>1, <4>2
    <3> HIDE DEF s, b, v, r
    <3>5. Turn(g, n + 1) = Read(Append(s, v), r)
      BY <3>1, <3>2, <3>3, TurnReads
    <3> QED
      BY <3>1, <3>4, <3>5
  <2>3. CASE m = L + 1
    <3>1. g[L] = Read(made, <<>>) /\ g[m] = Wait
      BY <1>1, <1>7, <1>9, <2>3
    <3>2. m # 0 /\ m - 1 = L
      BY <1>1, <2>3
    <3>3. g[m - 1][1] = "value" /\ Decode(g[m - 1][3], Asked(m)) = Wait
      BY <1>8, <3>1, <3>2, DecodeNothing
    <3>4. Turn(g, m) = Wait
      BY <1>8, <3>2, <3>3, Zenon DEF Turn
    <3> QED
      BY <3>1, <3>4
  <2>4. CASE m > L + 1
    <3>1. m # 0 /\ m - 1 \in Nat /\ ~(m - 1 <= L) /\ ~(m <= L)
      BY <1>1, <2>4
    <3>2. g[m - 1] = Wait /\ g[m] = Wait
      BY <1>7, <3>1
    <3>3. Turn(g, m) = Wait
      BY <1>8, <3>1, <3>2, Zenon DEF Turn
    <3> QED
      BY <3>2, <3>3
  <2> QED
    BY <1>1, <2>1, <2>2, <2>3, <2>4
<1>11. g = [n \in Nat |-> Turn(g, n)]
  <2>1. g = [n \in Nat |-> g[n]]
    BY DEF g
  <2> QED
    BY <1>10, <2>1
<1>12. Replies[L] = g[L]
  BY <1>1, <1>11, RepliesIs
<1> QED
  BY <1>9, <1>12 DEF L

\* The client gets one reply to each command and reads it as it was made, nulls included,
\* whatever version it asked for and with however many replies still to come: what has been
\* written is what encode_resp and encode_hello (resp.py:43,80) make of one reply after
\* another, each in the version that was asked for up to its command.
THEOREM RepliesRead == Spec => []RepliesInStep
<1>1. StreamInv /\ MadeInv => RepliesInStep
  <2> SUFFICES ASSUME StreamInv, MadeInv, \A i \in DOMAIN made : \A s \in Texts(made[i]) : ~LineBreak(s)
               PROVE  /\ Replies[Len(made)] = Read(made, <<>>)
                      /\ Len(made) = Len(handled) \/ (~open /\ Len(made) = Len(handled) + 1)
    BY DEF RepliesInStep
  <2>1. \A i \in DOMAIN made : NoBreaks(made[i])
    BY DEF NoBreaks
  <2>2. Replies[Len(made)] = Read(made, <<>>)
    BY <2>1, AllRead
  <2>3. Len(made) = Len(handled) \/ (~open /\ Len(made) = Len(handled) + 1)
    BY DEF MadeInv
  <2> QED
    BY <2>2, <2>3
<1> QED
  BY <1>1, StreamInit, StreamStep, MadeInit, MadeStep, PTL DEF Spec
=============================================================================
