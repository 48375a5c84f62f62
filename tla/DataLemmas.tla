----------------------------- MODULE DataLemmas -----------------------------
(***************************************************************************)
(* Lemmas about numbers, sequences and sets that several proofs need.      *)
(* Induction is stated with sets: what the set of the numbers with a       *)
(* property contains follows from the least number outside of it.          *)
(***************************************************************************)
EXTENDS Naturals, Sequences, FiniteSets, SequencesExt, SequenceTheorems, FiniteSetTheorems,
        WellFoundedInduction, Selections, TLAPS

\* A set of natural numbers that is not empty has a least element.
LEMMA LeastElement ==
  ASSUME NEW T, T \subseteq Nat, T # {}
  PROVE  \E x \in T : \A y \in T : x <= y
<1> DEFINE R == {ss \in Nat \X Nat : ss[1] < ss[2]}
<1>1. IsWellFoundedOn(R, Nat)  BY NatLessThanWellFounded DEF OpToRel
<1>2. PICK x \in T : \A y \in T : ~ (<<y, x>> \in R)
  <2> HIDE DEF R
  <2> QED BY <1>1, WFMin
<1>3. ASSUME NEW y \in T PROVE x <= y
  <2>1. x \in Nat /\ y \in Nat  OBVIOUS
  <2>2. ~(y < x)  BY <1>2, <2>1
  <2>3. QED BY <2>1, <2>2
<1>4. QED BY <1>3

\* A bounded one has a greatest element.
LEMMA GreatestElement ==
  ASSUME NEW n \in Nat, NEW T, T \subseteq 0 .. n, T # {}
  PROVE  \E x \in T : \A y \in T : y <= x
<1> DEFINE D == {n - y : y \in T}
<1>1. D \subseteq Nat /\ D # {}
  <2>1. \A y \in T : y \in 0 .. n /\ n - y \in Nat  OBVIOUS
  <2>2. D \subseteq Nat  BY <2>1
  <2>3. QED BY <2>2
<1>2. PICK d \in D : \A e \in D : d <= e
  <2> HIDE DEF D
  <2> QED BY <1>1, LeastElement
<1>3. PICK x \in T : d = n - x  BY <1>2
<1>4. ASSUME NEW y \in T PROVE y <= x
  <2>1. x \in Nat /\ y \in Nat /\ n - y \in D  OBVIOUS
  <2>2. n - x <= n - y  BY <1>2, <1>3, <2>1
  <2>3. QED BY <2>1, <2>2
<1>5. QED BY <1>4

\* A set that contains zero and the successor of each of its numbers contains
\* every number.
LEMMA SetInduction ==
  ASSUME NEW P, P \subseteq Nat, 0 \in P, \A n \in P : n + 1 \in P
  PROVE  P = Nat
<1>1. SUFFICES ASSUME Nat \ P # {} PROVE FALSE  OBVIOUS
<1>2. PICK x \in Nat \ P : \A y \in Nat \ P : x <= y  BY <1>1, LeastElement
<1>3. x # 0 /\ x - 1 \in Nat  BY <1>2
<1>4. x - 1 \in P  BY <1>2, <1>3
<1>5. QED BY <1>4, <1>2, <1>3

\* f is init at zero, and F of what precedes it and of the number at every other.
Recursion(f, init, F, n) ==
  \A k \in 0 .. n : f[k] = IF k = 0 THEN init ELSE F[<<f[k - 1], k>>]

\* A function that is defined by recursion on its argument exists.
LEMMA RecursionExists ==
  ASSUME NEW S, NEW init \in S, NEW F \in [S \X Nat -> S], NEW n \in Nat
  PROVE  \E f \in [0 .. n -> S] : Recursion(f, init, F, n)
<1> USE DEF Recursion
<1> DEFINE Solves(f, m) == Recursion(f, init, F, m)
           P == {m \in Nat : \E f \in [0 .. m -> S] : Solves(f, m)}
<1>1. 0 \in P
  <2>1. [k \in 0 .. 0 |-> init] \in [0 .. 0 -> S] /\ Solves([k \in 0 .. 0 |-> init], 0)
    OBVIOUS
  <2>2. QED BY <2>1
<1>2. ASSUME NEW m \in P PROVE m + 1 \in P
  <2>1. PICK f \in [0 .. m -> S] : Solves(f, m)  OBVIOUS
  <2> DEFINE g == [k \in 0 .. m + 1 |-> IF k = m + 1 THEN F[<<f[m], m + 1>>] ELSE f[k]]
  <2>2. f[m] \in S /\ m + 1 \in Nat  BY <2>1
  <2>3. ASSUME NEW k \in 0 .. m + 1
        PROVE  g[k] \in S /\ g[k] = IF k = 0 THEN init ELSE F[<<g[k - 1], k>>]
    <3>1. CASE k = m + 1
      <4>1. k - 1 \in 0 .. m + 1 /\ k - 1 = m /\ k # 0 /\ k - 1 # m + 1  BY <3>1
      <4>2. g[k - 1] = f[m] /\ g[k] = F[<<f[m], k>>]  BY <3>1, <4>1
      <4>3. F[<<f[m], k>>] \in S  BY <2>2, <3>1
      <4>4. QED BY <4>1, <4>2, <4>3
    <3>2. CASE k # m + 1
      <4>1. k \in 0 .. m /\ g[k] = f[k]  BY <3>2
      <4>2. k # 0 => g[k - 1] = f[k - 1]  BY <4>1
      <4>3. f[k] \in S /\ f[k] = IF k = 0 THEN init ELSE F[<<f[k - 1], k>>]  BY <2>1, <4>1
      <4>4. QED BY <4>1, <4>2, <4>3
    <3>3. QED BY <3>1, <3>2
  <2>4. g \in [0 .. m + 1 -> S]
    <3>1. \A k \in 0 .. m + 1 : g[k] \in S  BY <2>3
    <3>2. g = [k \in 0 .. m + 1 |-> g[k]]  OBVIOUS
    <3> HIDE DEF g
    <3>3. QED BY <3>1, <3>2
  <2>5. Solves(g, m + 1)  BY <2>3
  <2> HIDE DEF g, Solves
  <2>6. QED BY <2>4, <2>5
<1>3. P = Nat
  <2> HIDE DEF P
  <2> QED BY <1>1, <1>2, SetInduction DEF P
<1>4. QED BY <1>3

\* What is in a sequence is its first element or in its tail.
LEMMA RangeOfTail ==
  ASSUME NEW S, NEW s \in Seq(S), s # <<>>
  PROVE  /\ Tail(s) \in Seq(S) /\ Head(s) \in S
         /\ Head(s) \in Range(s)
         /\ Range(s) = {Head(s)} \cup Range(Tail(s))
<1>1. /\ Tail(s) \in Seq(S) /\ Head(s) \in S /\ Len(s) \in Nat \ {0}
      /\ Len(Tail(s)) = Len(s) - 1 /\ Head(s) = s[1]
      /\ DOMAIN s = 1 .. Len(s) /\ DOMAIN Tail(s) = 1 .. Len(s) - 1
      /\ \A i \in 1 .. Len(s) - 1 : Tail(s)[i] = s[i + 1]
  OBVIOUS
<1>2. Head(s) \in Range(s)  BY <1>1 DEF Range
<1>3. ASSUME NEW x \in Range(Tail(s)) PROVE x \in Range(s)
  <2>1. PICK i \in 1 .. Len(s) - 1 : Tail(s)[i] = x  BY <1>1 DEF Range
  <2>2. s[i + 1] = x /\ i + 1 \in DOMAIN s  BY <1>1, <2>1
  <2>3. QED BY <2>2 DEF Range
<1>4. ASSUME NEW x \in Range(s), x # Head(s) PROVE x \in Range(Tail(s))
  <2>1. PICK i \in 1 .. Len(s) : s[i] = x  BY <1>1 DEF Range
  <2>2. i - 1 \in 1 .. Len(s) - 1 /\ Tail(s)[i - 1] = x  BY <1>1, <1>4, <2>1
  <2>3. QED BY <1>1, <2>2 DEF Range
<1>5. QED BY <1>1, <1>2, <1>3, <1>4

\* What is in a concatenation is in one of its parts.
LEMMA RangeOfConcat ==
  ASSUME NEW S, NEW s \in Seq(S), NEW t \in Seq(S)
  PROVE  s \o t \in Seq(S) /\ Range(s \o t) = Range(s) \cup Range(t)
BY RangeConcatenation, ConcatProperties

LEMMA RangeOfAppend ==
  ASSUME NEW S, NEW s \in Seq(S), NEW e \in S
  PROVE  /\ Append(s, e) \in Seq(S) /\ Range(Append(s, e)) = Range(s) \cup {e}
         /\ Append(s, e) # <<>> /\ Len(Append(s, e)) = Len(s) + 1 /\ Len(s) \in Nat
         /\ s # <<>> => Head(Append(s, e)) = Head(s)
<1>1. Append(s, e) = s \o <<e>> /\ <<e>> \in Seq(S)  BY AppendIsConcat
<1>2. Range(<<e>>) = {e}  BY DEF Range
<1>3. Range(s \o <<e>>) = Range(s) \cup Range(<<e>>)  BY <1>1, RangeOfConcat
<1>4. /\ Append(s, e) \in Seq(S) /\ Append(s, e) # <<>>
      /\ Len(Append(s, e)) = Len(s) + 1 /\ Len(s) \in Nat
  OBVIOUS
<1>5. s # <<>> => Head(Append(s, e)) = Head(s)  OBVIOUS
<1>6. QED BY <1>1, <1>2, <1>3, <1>4, <1>5

\* A finite set enumerated holds each of its elements.
LEMMA RangeOfSetToSeq ==
  ASSUME NEW S, IsFiniteSet(S)
  PROVE  SetToSeq(S) \in Seq(S) /\ Range(SetToSeq(S)) = S
<1> DEFINE n == Cardinality(S)
           D == 1 .. n
<1>1. n \in Nat /\ ExistsBijection(D, S)  BY FS_CardinalityType
<1>2. \E f \in [D -> S] : IsInjective(f)
  BY <1>1 DEF ExistsBijection, Bijection, Injection
<1>3. SetToSeq(S) \in [D -> S] /\ IsInjective(SetToSeq(S))
  BY <1>2 DEF SetToSeq
<1>4. SetToSeq(S) \in Injection(D, S)  BY <1>3 DEF Injection
<1>5. IsFiniteSet(D) /\ Cardinality(D) = n  BY <1>1, FS_Interval
<1>6. SetToSeq(S) \in Surjection(D, S)  BY <1>4, <1>5, FS_Injection
<1>7. SetToSeq(S) \in Seq(S)  BY <1>1, <1>3, SeqDef
<1>8. Range(SetToSeq(S)) = S  BY <1>3, <1>6 DEF Surjection, Range
<1>9. QED BY <1>7, <1>8

-----------------------------------------------------------------------------
(* What Within returns.                                                    *)

\* f is its recursive function, for the first n elements.
KeptUpTo(f, s, T, n) ==
  f = [i \in 0 .. n |->
         IF i = 0 THEN <<>>
         ELSE IF s[i] \in T THEN Append(f[i - 1], s[i]) ELSE f[i - 1]]

\* There is one for any number of elements.
LEMMA KeptExists ==
  ASSUME NEW s, NEW T, NEW n \in Nat
  PROVE  \E f : KeptUpTo(f, s, T, n)
<1> DEFINE P == {m \in Nat : \E f : KeptUpTo(f, s, T, m)}
<1>1. 0 \in P
  <2>1. KeptUpTo([i \in 0 .. 0 |-> <<>>], s, T, 0)  BY DEF KeptUpTo
  <2>2. QED BY <2>1
<1>2. ASSUME NEW m \in P PROVE m + 1 \in P
  <2>1. PICK f : KeptUpTo(f, s, T, m)  OBVIOUS
  <2> DEFINE last == IF s[m + 1] \in T THEN Append(f[m], s[m + 1]) ELSE f[m]
             g == [i \in 0 .. m + 1 |-> IF i = m + 1 THEN last ELSE f[i]]
             next(i) == IF i = 0 THEN <<>>
                        ELSE IF s[i] \in T THEN Append(g[i - 1], s[i]) ELSE g[i - 1]
  <2>2. ASSUME NEW i \in 0 .. m + 1 PROVE g[i] = next(i)
    <3>1. CASE i = m + 1
      <4>1. i - 1 \in 0 .. m + 1 /\ i - 1 = m /\ i # 0 /\ i - 1 # m + 1  BY <3>1
      <4>2. g[i - 1] = f[m]  BY <4>1
      <4>3. QED BY <3>1, <4>1, <4>2
    <3>2. CASE i # m + 1
      <4>1. i \in 0 .. m /\ g[i] = f[i]  BY <3>2
      <4>2. f[i] = IF i = 0 THEN <<>>
                   ELSE IF s[i] \in T THEN Append(f[i - 1], s[i]) ELSE f[i - 1]
        BY <2>1, <4>1 DEF KeptUpTo
      <4>3. i # 0 => g[i - 1] = f[i - 1]  BY <4>1
      <4>4. QED BY <4>1, <4>2, <4>3
    <3>3. QED BY <3>1, <3>2
  <2>3. g = [i \in 0 .. m + 1 |-> next(i)]
    <3> HIDE DEF last
    <3>1. g = [i \in 0 .. m + 1 |-> g[i]]  OBVIOUS
    <3> HIDE DEF next
    <3>2. QED BY <2>2, <3>1
  <2> HIDE DEF g
  <2>4. KeptUpTo(g, s, T, m + 1)  BY <2>3 DEF KeptUpTo
  <2>5. QED BY <2>4
<1>3. P = Nat
  <2> HIDE DEF P
  <2> QED BY <1>1, <1>2, SetInduction DEF P
<1>4. QED BY <1>3

\* Two agree as far as their sequences do.
LEMMA KeptUnique ==
  ASSUME NEW s, NEW t, NEW T, NEW f, NEW g, NEW n \in Nat, NEW m \in Nat, n <= m,
         KeptUpTo(f, s, T, n), KeptUpTo(g, t, T, m), \A i \in 1 .. n : s[i] = t[i]
  PROVE  \A i \in 0 .. n : f[i] = g[i]
<1> DEFINE P == {i \in Nat : i <= n => f[i] = g[i]}
<1>1. 0 \in P
  <2>1. f[0] = <<>> /\ g[0] = <<>>  BY DEF KeptUpTo
  <2>2. QED BY <2>1
<1>2. ASSUME NEW i \in P PROVE i + 1 \in P
  <2>1. SUFFICES ASSUME i + 1 <= n PROVE f[i + 1] = g[i + 1]  OBVIOUS
  <2>2. i + 1 \in 0 .. n /\ i + 1 \in 0 .. m /\ (i + 1) - 1 = i /\ i + 1 # 0 /\ i + 1 \in 1 .. n /\ i <= n
    BY <2>1
  <2>3. f[i] = g[i] /\ s[i + 1] = t[i + 1]  BY <2>2
  <2>4. f[i + 1] = IF s[i + 1] \in T THEN Append(f[i], s[i + 1]) ELSE f[i]
    BY <2>2 DEF KeptUpTo
  <2>5. g[i + 1] = IF t[i + 1] \in T THEN Append(g[i], t[i + 1]) ELSE g[i]
    BY <2>2 DEF KeptUpTo
  <2>6. QED BY <2>3, <2>4, <2>5
<1>3. P = Nat
  <2> HIDE DEF P
  <2> QED BY <1>1, <1>2, SetInduction DEF P
<1>4. QED BY <1>3

\* So Within takes its result from one.
LEMMA WithinIsKept ==
  ASSUME NEW s, NEW T, Len(s) \in Nat
  PROVE  \E f : KeptUpTo(f, s, T, Len(s)) /\ Within(s, T) = f[Len(s)]
<1> DEFINE k == CHOOSE f : KeptUpTo(f, s, T, Len(s))
<1>1. \E f : KeptUpTo(f, s, T, Len(s))  BY KeptExists
<1>2. KeptUpTo(k, s, T, Len(s))  BY <1>1
<1>3. Within(s, T) = k[Len(s)]  BY DEF Within, KeptUpTo
<1>4. QED BY <1>2, <1>3

\* The empty sequence keeps nothing; a sequence that grows keeps its new element
\* if it is in the set.
LEMMA WithinGrows ==
  ASSUME NEW S, NEW s \in Seq(S), NEW T
  PROVE  /\ Within(<<>>, T) = <<>>
         /\ \A e \in S : Within(Append(s, e), T) =
                           IF e \in T THEN Append(Within(s, T), e) ELSE Within(s, T)
<1>1. Within(<<>>, T) = <<>>
  <2>1. Len(<<>>) = 0  OBVIOUS
  <2>2. PICK f : KeptUpTo(f, <<>>, T, 0) /\ Within(<<>>, T) = f[0]  BY <2>1, WithinIsKept
  <2>3. QED BY <2>2 DEF KeptUpTo
<1>2. ASSUME NEW e \in S
      PROVE  Within(Append(s, e), T) =
               IF e \in T THEN Append(Within(s, T), e) ELSE Within(s, T)
  <2> DEFINE t == Append(s, e)
             n == Len(s)
  <2>1. n \in Nat /\ Len(t) = n + 1 /\ t[n + 1] = e /\ \A i \in 1 .. n : s[i] = t[i]
    OBVIOUS
  <2>2. n + 1 \in Nat /\ n <= n + 1 /\ n \in 0 .. n /\ (n + 1) - 1 = n /\ n + 1 # 0
        /\ n + 1 \in 0 .. n + 1
    BY <2>1
  <2> HIDE DEF t, n
  <2>3. PICK f : KeptUpTo(f, s, T, n) /\ Within(s, T) = f[n]  BY <2>1, WithinIsKept DEF n
  <2>4. PICK g : KeptUpTo(g, t, T, n + 1) /\ Within(t, T) = g[n + 1]  BY <2>1, <2>2, WithinIsKept
  <2>5. f[n] = g[n]  BY <2>1, <2>2, <2>3, <2>4, KeptUnique
  <2>6. g[n + 1] = IF e \in T THEN Append(g[n], e) ELSE g[n]
    BY <2>1, <2>2, <2>4 DEF KeptUpTo
  <2>7. QED BY <2>3, <2>4, <2>5, <2>6 DEF t
<1>3. QED BY <1>1, <1>2

\* A sequence that is not empty is its front and its last element.
LEMMA Split ==
  ASSUME NEW S, NEW s \in Seq(S), NEW n \in Nat, Len(s) = n + 1
  PROVE  \E u \in Seq(S) : \E e \in S : s = Append(u, e) /\ Len(u) = n
<1> DEFINE u == SubSeq(s, 1, n)
<1>1. /\ u \in Seq(S) /\ Len(u) = n /\ s[n + 1] \in S
      /\ \A i \in 1 .. n : u[i] = s[i]
  OBVIOUS
<1>2. s = Append(u, s[n + 1])
  <2> HIDE DEF u
  <2>1. /\ Append(u, s[n + 1]) \in Seq(S) /\ Len(Append(u, s[n + 1])) = n + 1
        /\ \A i \in 1 .. n + 1 : Append(u, s[n + 1])[i] = s[i]
    BY <1>1
  <2>2. QED BY <2>1
<1>3. QED BY <1>1, <1>2

\* What is kept is of both sets.
LEMMA WithinType ==
  ASSUME NEW S, NEW s \in Seq(S), NEW T
  PROVE  Within(s, T) \in Seq(S) /\ Within(s, T) \in Seq(T)
<1> DEFINE P == {n \in Nat : \A t \in Seq(S) :
                   Len(t) = n => Within(t, T) \in Seq(S) /\ Within(t, T) \in Seq(T)}
<1>1. 0 \in P
  <2>1. \A t \in Seq(S) : Len(t) = 0 => t = <<>>  OBVIOUS
  <2>2. Within(<<>>, T) = <<>>  BY WithinGrows
  <2>3. QED BY <2>1, <2>2
<1>2. ASSUME NEW n \in P PROVE n + 1 \in P
  <2>1. SUFFICES ASSUME NEW t \in Seq(S), Len(t) = n + 1
                 PROVE  Within(t, T) \in Seq(S) /\ Within(t, T) \in Seq(T)
    OBVIOUS
  <2>2. PICK u \in Seq(S), e \in S : t = Append(u, e) /\ Len(u) = n  BY <2>1, Split
  <2>3. Within(u, T) \in Seq(S) /\ Within(u, T) \in Seq(T)  BY <2>2
  <2>4. Within(t, T) = IF e \in T THEN Append(Within(u, T), e) ELSE Within(u, T)
    BY <2>2, WithinGrows
  <2>5. QED BY <2>3, <2>4
<1>3. P = Nat
  <2> HIDE DEF P
  <2> QED BY <1>1, <1>2, SetInduction DEF P
<1>4. Len(s) \in Nat  OBVIOUS
<1>5. QED BY <1>3, <1>4

\* What a concatenation keeps is what its parts keep.
LEMMA WithinConcat ==
  ASSUME NEW S, NEW s \in Seq(S), NEW t \in Seq(S), NEW T
  PROVE  Within(s \o t, T) = Within(s, T) \o Within(t, T)
<1> DEFINE P == {n \in Nat : \A v \in Seq(S) :
                   Len(v) = n => Within(s \o v, T) = Within(s, T) \o Within(v, T)}
<1>1. 0 \in P
  <2>1. \A v \in Seq(S) : Len(v) = 0 => v = <<>>  OBVIOUS
  <2>2. Within(<<>>, T) = <<>>  BY WithinGrows
  <2>3. Within(s, T) \in Seq(S)  BY WithinType
  <2>4. Within(s, T) \o <<>> = Within(s, T) /\ s \o <<>> = s  BY <2>3
  <2>5. QED BY <2>1, <2>2, <2>4
<1>2. ASSUME NEW n \in P PROVE n + 1 \in P
  <2>1. SUFFICES ASSUME NEW v \in Seq(S), Len(v) = n + 1
                 PROVE  Within(s \o v, T) = Within(s, T) \o Within(v, T)
    OBVIOUS
  <2>2. PICK u \in Seq(S), e \in S : v = Append(u, e) /\ Len(u) = n  BY <2>1, Split
  <2>3. Within(s \o u, T) = Within(s, T) \o Within(u, T)  BY <2>2
  <2>4. s \o u \in Seq(S) /\ s \o v = Append(s \o u, e)  BY <2>2
  <2>5. Within(v, T) = IF e \in T THEN Append(Within(u, T), e) ELSE Within(u, T)
    BY <2>2, WithinGrows
  <2>6. Within(s \o v, T) =
          IF e \in T THEN Append(Within(s \o u, T), e) ELSE Within(s \o u, T)
    <3> DEFINE w == s \o u
    <3> HIDE DEF w
    <3>1. w \in Seq(S) /\ s \o v = Append(w, e)  BY <2>4 DEF w
    <3>2. Within(Append(w, e), T) = IF e \in T THEN Append(Within(w, T), e) ELSE Within(w, T)
      BY <3>1, WithinGrows
    <3>3. QED BY <3>1, <3>2 DEF w
  <2>7. Within(s, T) \in Seq(S) /\ Within(u, T) \in Seq(S)  BY WithinType
  <2>8. Append(Within(s, T) \o Within(u, T), e) = Within(s, T) \o Append(Within(u, T), e)
    <3> DEFINE a == Within(s, T)
               b == Within(u, T)
    <3> HIDE DEF a, b
    <3>1. a \in Seq(S) /\ b \in Seq(S) /\ <<e>> \in Seq(S)  BY <2>7 DEF a, b
    <3>2. \A c \in Seq(S) : Append(c, e) = c \o <<e>>  BY AppendIsConcat
    <3>3. a \o b \in Seq(S)  BY ONLY <3>1, ConcatProperties
    <3>4. (a \o b) \o <<e>> = a \o (b \o <<e>>)  BY ONLY <3>1, ConcatAssociative
    <3>5. Append(a \o b, e) = (a \o b) \o <<e>>  BY ONLY <3>2, <3>3, Zenon
    <3>6. Append(b, e) = b \o <<e>>  BY ONLY <3>2, <3>1, Zenon
    <3>7. QED BY <3>4, <3>5, <3>6, Zenon DEF a, b
  <2>9. QED BY <2>3, <2>5, <2>6, <2>8
<1>3. P = Nat
  <2> HIDE DEF P
  <2> QED BY <1>1, <1>2, SetInduction DEF P
<1>4. Len(t) \in Nat  OBVIOUS
<1>5. QED BY <1>3, <1>4

\* The same where the provers need not see the concatenations.
IsConcat(c, s, t) == c = s \o t

LEMMA WithinIsConcat ==
  ASSUME NEW S, NEW s \in Seq(S), NEW t \in Seq(S), NEW T, NEW c, IsConcat(c, s, t)
  PROVE  IsConcat(Within(c, T), Within(s, T), Within(t, T))
<1>1. Within(s \o t, T) = Within(s, T) \o Within(t, T)  BY WithinConcat
<1>2. QED BY <1>1, Zenon DEF IsConcat

\* A sequence of the set's own elements is kept whole, and one of none of them not at all.
LEMMA WithinWhole ==
  ASSUME NEW S, NEW s \in Seq(S), NEW T
  PROVE  /\ (\A i \in 1 .. Len(s) : s[i] \in T) => Within(s, T) = s
         /\ (\A i \in 1 .. Len(s) : s[i] \notin T) => Within(s, T) = <<>>
<1> DEFINE All(v) == \A i \in 1 .. Len(v) : v[i] \in T
           None(v) == \A i \in 1 .. Len(v) : v[i] \notin T
           P == {n \in Nat : \A v \in Seq(S) :
                   Len(v) = n => /\ All(v) => Within(v, T) = v
                                 /\ None(v) => Within(v, T) = <<>>}
<1>1. 0 \in P
  <2>1. \A v \in Seq(S) : Len(v) = 0 => v = <<>>  OBVIOUS
  <2>2. Within(<<>>, T) = <<>>  BY WithinGrows
  <2>3. QED BY <2>1, <2>2
<1>2. ASSUME NEW n \in P PROVE n + 1 \in P
  <2>1. SUFFICES ASSUME NEW v \in Seq(S), Len(v) = n + 1
                 PROVE  (All(v) => Within(v, T) = v) /\ (None(v) => Within(v, T) = <<>>)
    OBVIOUS
  <2>2. PICK u \in Seq(S), e \in S : v = Append(u, e) /\ Len(u) = n  BY <2>1, Split
  <2>3. v[n + 1] = e /\ \A i \in 1 .. n : v[i] = u[i]  BY <2>2
  <2>4. n + 1 \in 1 .. n + 1 /\ \A i \in 1 .. n : i \in 1 .. n + 1  OBVIOUS
  <2>5. (All(v) => All(u) /\ e \in T) /\ (None(v) => None(u) /\ e \notin T)
    BY <2>1, <2>2, <2>3, <2>4
  <2>6. Within(v, T) = IF e \in T THEN Append(Within(u, T), e) ELSE Within(u, T)
    BY <2>2, WithinGrows
  <2>7. (All(u) => Within(u, T) = u) /\ (None(u) => Within(u, T) = <<>>)  BY <2>2
  <2> HIDE DEF All, None
  <2>8. QED BY <2>2, <2>5, <2>6, <2>7
<1>3. P = Nat
  <2> HIDE DEF P
  <2> QED BY <1>1, <1>2, SetInduction DEF P
<1>4. Len(s) \in Nat  OBVIOUS
<1>5. QED BY <1>3, <1>4

-----------------------------------------------------------------------------
(* What occurs once, and at how many places.                               *)

\* No element occurs twice.
OccursOnce(s) == \A i, j \in DOMAIN s : s[i] = s[j] => i = j

\* What is kept is what is in the set, and what occurs once is kept once.
LEMMA WithinRange ==
  ASSUME NEW S, NEW s \in Seq(S), NEW T
  PROVE  /\ Within(s, T) \in Seq(S)
         /\ Range(Within(s, T)) = Range(s) \cap T
         /\ OccursOnce(s) => OccursOnce(Within(s, T))
<1> DEFINE Kept(v) == /\ Range(Within(v, T)) = Range(v) \cap T
                      /\ OccursOnce(v) => OccursOnce(Within(v, T))
           P == {n \in Nat : \A v \in Seq(S) : Len(v) = n => Kept(v)}
<1>1. 0 \in P
  <2>1. \A t \in Seq(S) : Len(t) = 0 => t = <<>>  OBVIOUS
  <2>2. Within(<<>>, T) = <<>>  BY WithinGrows
  <2>3. Range(<<>>) = {}  BY DEF Range
  <2>4. QED BY <2>1, <2>2, <2>3
<1>2. ASSUME NEW n \in P PROVE n + 1 \in P
  <2>1. SUFFICES ASSUME NEW v \in Seq(S), Len(v) = n + 1 PROVE Kept(v)
    OBVIOUS
  <2>2. PICK u \in Seq(S), e \in S : v = Append(u, e) /\ Len(u) = n  BY <2>1, Split
  <2>3. Kept(u)  BY <2>2
  <2>4. Within(v, T) = IF e \in T THEN Append(Within(u, T), e) ELSE Within(u, T)
    BY <2>2, WithinGrows
  <2>5. Within(u, T) \in Seq(S)  BY WithinType
  <2> DEFINE w == Within(u, T)
  <2>6. w \in Seq(S)  BY <2>5
  <2>7. Range(v) = Range(u) \cup {e}  BY <2>2, RangeOfAppend
  <2>8. OccursOnce(v) => OccursOnce(u) /\ e \notin Range(u)
    <3>1. SUFFICES ASSUME OccursOnce(v) PROVE OccursOnce(u) /\ e \notin Range(u)  OBVIOUS
    <3>2. /\ DOMAIN u = 1 .. n /\ DOMAIN v = 1 .. n + 1 /\ v[n + 1] = e
          /\ \A i \in 1 .. n : v[i] = u[i] /\ i \in 1 .. n + 1 /\ i # n + 1
          /\ n + 1 \in 1 .. n + 1
      BY <2>2
    <3>3. OccursOnce(u)  BY <3>1, <3>2 DEF OccursOnce
    <3>4. e \notin Range(u)  BY <3>1, <3>2 DEF OccursOnce, Range
    <3>5. QED BY <3>3, <3>4
  <2>9. Range(Append(w, e)) = Range(w) \cup {e}  BY <2>6, RangeOfAppend
  <2>10. ASSUME OccursOnce(w), e \notin Range(w) PROVE OccursOnce(Append(w, e))
    <3> HIDE DEF w
    <3>1. /\ DOMAIN Append(w, e) = 1 .. Len(w) + 1 /\ DOMAIN w = 1 .. Len(w) /\ Len(w) \in Nat
          /\ Append(w, e)[Len(w) + 1] = e
          /\ \A i \in 1 .. Len(w) : Append(w, e)[i] = w[i]
      BY <2>6
    <3>2. ASSUME NEW i \in 1 .. Len(w) PROVE w[i] # e
      BY <2>10, <3>1, <3>2 DEF Range
    <3>3. \A i \in 1 .. Len(w) + 1 : i \in 1 .. Len(w) \/ i = Len(w) + 1  BY <3>1
    <3>4. QED BY <2>10, <3>1, <3>2, <3>3 DEF OccursOnce
  <2> HIDE DEF w
  <2>11. CASE e \in T
    BY <2>3, <2>4, <2>7, <2>8, <2>9, <2>10, <2>11 DEF w
  <2>12. CASE e \notin T
    BY <2>3, <2>4, <2>7, <2>8, <2>12 DEF w
  <2>13. QED BY <2>11, <2>12
<1>3. P = Nat
  <2> HIDE DEF P
  <2> QED BY <1>1, <1>2, SetInduction DEF P
<1>4. Len(s) \in Nat  OBVIOUS
<1>5. QED BY <1>3, <1>4, WithinType

\* An element that is not in a sequence may be appended once.
LEMMA AppendOnce ==
  ASSUME NEW S, NEW s \in Seq(S), NEW e \in S, OccursOnce(s), e \notin Range(s)
  PROVE  OccursOnce(Append(s, e))
<1>1. /\ DOMAIN Append(s, e) = 1 .. Len(s) + 1 /\ DOMAIN s = 1 .. Len(s) /\ Len(s) \in Nat
      /\ Append(s, e)[Len(s) + 1] = e
      /\ \A i \in 1 .. Len(s) : Append(s, e)[i] = s[i]
  OBVIOUS
<1>2. ASSUME NEW i \in 1 .. Len(s) PROVE s[i] # e
  BY <1>1, <1>2 DEF Range
<1>3. \A i \in 1 .. Len(s) + 1 : i \in 1 .. Len(s) \/ i = Len(s) + 1  BY <1>1
<1>4. QED BY <1>1, <1>2, <1>3 DEF OccursOnce

\* The positions of a sequence that hold an element of a set.
Positions(s, T) == {i \in DOMAIN s : s[i] \in T}

LEMMA PositionsFinite ==
  ASSUME NEW S, NEW s \in Seq(S), NEW T
  PROVE  /\ IsFiniteSet(Positions(s, T)) /\ Cardinality(Positions(s, T)) \in Nat
         /\ (\A i \in DOMAIN s : s[i] \notin T) => Cardinality(Positions(s, T)) = 0
<1>1. Positions(s, T) \subseteq 1 .. Len(s) /\ Len(s) \in Nat  BY DEF Positions
<1>2. IsFiniteSet(1 .. Len(s))  BY <1>1, FS_Interval
<1>3. IsFiniteSet(Positions(s, T))  BY <1>1, <1>2, FS_Subset
<1>4. (\A i \in DOMAIN s : s[i] \notin T) => Positions(s, T) = {}  BY DEF Positions
<1>5. QED BY <1>3, <1>4, FS_CardinalityType, FS_EmptySet

\* An element more is at one place more.
LEMMA PositionsOfAppend ==
  ASSUME NEW S, NEW s \in Seq(S), NEW e \in S, NEW T
  PROVE  Cardinality(Positions(Append(s, e), T)) =
           Cardinality(Positions(s, T)) + (IF e \in T THEN 1 ELSE 0)
<1> DEFINE n == Len(s)
<1>1. /\ DOMAIN Append(s, e) = 1 .. n + 1 /\ DOMAIN s = 1 .. n /\ n \in Nat
      /\ Append(s, e)[n + 1] = e /\ n + 1 \in 1 .. n + 1 /\ n + 1 \notin 1 .. n
      /\ \A i \in 1 .. n : Append(s, e)[i] = s[i] /\ i \in 1 .. n + 1
      /\ \A i \in 1 .. n + 1 : i \in 1 .. n \/ i = n + 1
  OBVIOUS
<1>2. CASE e \in T
  <2>1. Positions(Append(s, e), T) = Positions(s, T) \cup {n + 1} /\ n + 1 \notin Positions(s, T)
    <3> HIDE DEF n
    <3> QED BY <1>1, <1>2 DEF Positions
  <2>2. QED BY <1>2, <2>1, PositionsFinite, FS_AddElement
<1>3. CASE e \notin T
  <2>1. Positions(Append(s, e), T) = Positions(s, T)
    <3> HIDE DEF n
    <3> QED BY <1>1, <1>3 DEF Positions
  <2>2. QED BY <1>3, <2>1, PositionsFinite
<1>4. QED BY <1>2, <1>3

\* The head gone, one place less holds what it was.
LEMMA PositionsOfTail ==
  ASSUME NEW S, NEW s \in Seq(S), NEW T, s # <<>>
  PROVE  Cardinality(Positions(s, T)) =
           Cardinality(Positions(Tail(s), T)) + (IF Head(s) \in T THEN 1 ELSE 0)
<1> DEFINE n == Len(s)
           Q == {i \in Positions(s, T) : i # 1}
           R == Positions(Tail(s), T)
           f == [i \in R |-> i + 1]
<1>1. /\ n \in Nat \ {0} /\ DOMAIN s = 1 .. n /\ DOMAIN Tail(s) = 1 .. n - 1
      /\ Head(s) = s[1] /\ 1 \in 1 .. n
      /\ \A i \in 1 .. n - 1 : Tail(s)[i] = s[i + 1] /\ i + 1 \in 1 .. n /\ i + 1 # 1
      /\ \A i \in 1 .. n : i # 1 => i - 1 \in 1 .. n - 1 /\ (i - 1) + 1 = i
  OBVIOUS
<1>2. Tail(s) \in Seq(S)  BY RangeOfTail
<1>3. IsFiniteSet(R) /\ IsFiniteSet(Positions(s, T)) /\ Cardinality(R) \in Nat
  BY <1>2, PositionsFinite
<1>4. R \subseteq 1 .. n - 1 /\ Q \subseteq 1 .. n  BY <1>1 DEF Positions
<1>5. Cardinality(Q) = Cardinality(R)
  <2> HIDE DEF n
  <2>1. \A i \in R : f[i] \in Q  BY <1>1 DEF Positions
  <2>2. f \in [R -> Q]  BY <2>1
  <2>3. \A q \in Q : q - 1 \in R /\ f[q - 1] = q  BY <1>1, <1>4 DEF Positions
  <2>4. \A i, j \in R : f[i] = f[j] => i = j  BY <1>1, <1>4
  <2>5. f \in Bijection(R, Q)
    <3> HIDE DEF f, Q, R
    <3> QED BY <2>2, <2>3, <2>4 DEF Bijection, Injection, Surjection, IsInjective
  <2> HIDE DEF f, Q, R
  <2> HIDE DEF f, Q, R
  <2>6. ExistsBijection(R, Q)  BY <2>5 DEF ExistsBijection
  <2>7. QED BY <1>3, <2>6, FS_Bijection
<1>6. CASE Head(s) \in T
  <2>1. Positions(s, T) = Q \cup {1} /\ 1 \notin Q  BY <1>1, <1>6 DEF Positions
  <2>2. IsFiniteSet(Q)  BY <1>3, FS_Subset
  <2>3. QED BY <1>5, <1>6, <2>1, <2>2, FS_AddElement
<1>7. CASE Head(s) \notin T
  <2>1. Positions(s, T) = Q  BY <1>1, <1>7 DEF Positions
  <2>2. Cardinality(Positions(s, T)) = Cardinality(R) + 0
    <3> HIDE DEF Q, R
    <3> QED BY <1>3, <1>5, <2>1
  <2>3. QED BY <1>7, <2>2
<1>8. QED BY <1>6, <1>7

\* Only the membership of the elements matters.
LEMMA WithinAgrees ==
  ASSUME NEW S, NEW s \in Seq(S), NEW T, NEW U, \A i \in 1 .. Len(s) : s[i] \in T <=> s[i] \in U
  PROVE  Within(s, T) = Within(s, U)
<1> DEFINE P == {n \in Nat : \A v \in Seq(S) :
                   /\ Len(v) = n
                   /\ \A i \in 1 .. Len(v) : v[i] \in T <=> v[i] \in U
                   => Within(v, T) = Within(v, U)}
<1>1. 0 \in P
  <2>1. \A v \in Seq(S) : Len(v) = 0 => v = <<>>  OBVIOUS
  <2>2. Within(<<>>, T) = Within(<<>>, U)  BY WithinGrows
  <2>3. QED  BY <2>1, <2>2
<1>2. ASSUME NEW n \in P PROVE n + 1 \in P
  <2>1. SUFFICES ASSUME NEW v \in Seq(S), Len(v) = n + 1,
                        \A i \in 1 .. Len(v) : v[i] \in T <=> v[i] \in U
                 PROVE  Within(v, T) = Within(v, U)
    OBVIOUS
  <2>2. n \in Nat  OBVIOUS
  <2>3. PICK u \in Seq(S), e \in S : v = Append(u, e) /\ Len(u) = n
    BY <2>1, <2>2, Split
  <2>4. /\ \A i \in 1 .. n : u[i] = v[i] /\ i \in 1 .. n + 1
        /\ v[n + 1] = e /\ n + 1 \in 1 .. n + 1
    BY <2>2, <2>3
  <2>5. e \in T <=> e \in U  BY <2>1, <2>4
  <2>6. Within(u, T) = Within(u, U)  BY <2>1, <2>3, <2>4
  <2>7. /\ Within(v, T) = IF e \in T THEN Append(Within(u, T), e) ELSE Within(u, T)
        /\ Within(v, U) = IF e \in U THEN Append(Within(u, U), e) ELSE Within(u, U)
    BY <2>3, WithinGrows
  <2>8. QED  BY <2>5, <2>6, <2>7
<1>3. P = Nat
  <2> HIDE DEF P
  <2> QED  BY <1>1, <1>2, SetInduction DEF P
<1>4. QED  BY <1>3

\* A sequence with one more element than another, which it begins with.
LEMMA IsAppend ==
  ASSUME NEW S, NEW s \in Seq(S), NEW t \in Seq(S), NEW e \in S, Len(t) = Len(s) + 1,
         \A i \in 1 .. Len(s) : t[i] = s[i], t[Len(s) + 1] = e
  PROVE  t = Append(s, e)
<1>1. /\ Len(s) \in Nat /\ Append(s, e) \in Seq(S) /\ Len(Append(s, e)) = Len(s) + 1
      /\ Append(s, e)[Len(s) + 1] = e
      /\ \A i \in 1 .. Len(s) : Append(s, e)[i] = s[i]
  OBVIOUS
<1>2. ASSUME NEW i \in 1 .. Len(s) + 1 PROVE t[i] = Append(s, e)[i]
  <2>1. i \in 1 .. Len(s) \/ i = Len(s) + 1  BY <1>1
  <2>2. QED  BY <1>1, <2>1
<1>3. Len(t) = Len(Append(s, e)) /\ \A i \in 1 .. Len(t) : t[i] = Append(s, e)[i]
  BY <1>1, <1>2
<1>4. QED  BY <1>1, <1>3, SeqEqual

\* A sequence is a prefix of what it begins.
LEMMA PrefixOfConcat ==
  ASSUME NEW S, NEW s \in Seq(S), NEW t \in Seq(S)
  PROVE  IsPrefix(s, s \o t)
<1>1. /\ Len(s) \in Nat /\ Len(t) \in Nat /\ Len(s \o t) = Len(s) + Len(t)
      /\ s \o t \in Seq(S) /\ \A i \in 1 .. Len(s) : (s \o t)[i] = s[i]
  BY ConcatProperties
<1>2. SubSeq(s, 1, Len(s)) = SubSeq(s \o t, 1, Len(s))
  <2>1. SubSeq(s, 1, Len(s)) = s  BY <1>1
  <2>2. SubSeq(s \o t, 1, Len(s)) = [i \in 1 .. Len(s) |-> (s \o t)[i]]  BY <1>1
  <2>3. s = [i \in 1 .. Len(s) |-> s[i]]  OBVIOUS
  <2>4. QED  BY <1>1, <2>1, <2>2, <2>3
<1>3. QED  BY <1>1, <1>2 DEF IsPrefix

-----------------------------------------------------------------------------
(* What Total returns.                                                     *)

\* f is its recursive function, for the first n elements.
SumUpTo(f, q, base, n) == f = [i \in 0 .. n |-> IF i = 0 THEN base ELSE f[i - 1] + q[i]]

\* The sum of natural numbers on top of one is a natural number.
LEMMA TotalTyped ==
  ASSUME NEW q \in Seq(Nat), NEW base \in Nat
  PROVE  Total(q, base) \in Nat
<1> DEFINE n == Len(q)
           F == [x \in Nat \X Nat |-> IF x[2] \in 1 .. n THEN x[1] + q[x[2]] ELSE 0]
           s == CHOOSE f : SumUpTo(f, q, base, n)
<1>1. n \in Nat /\ \A i \in 1 .. n : q[i] \in Nat  OBVIOUS
<1>2. F \in [Nat \X Nat -> Nat]  BY <1>1
<1>3. Total(q, base) = s[n]  BY DEF Total, SumUpTo
<1> HIDE DEF n
<1>4. PICK f \in [0 .. n -> Nat] : Recursion(f, base, F, n)
  <2> HIDE DEF F
  <2> QED  BY <1>1, <1>2, RecursionExists
<1>5. ASSUME NEW i \in 0 .. n
      PROVE  f[i] = IF i = 0 THEN base ELSE f[i - 1] + q[i]
  <2>1. i # 0 => i \in 1 .. n /\ i - 1 \in 0 .. n  BY <1>1
  <2>2. f[i] = IF i = 0 THEN base ELSE F[<<f[i - 1], i>>]  BY <1>4 DEF Recursion
  <2>3. CASE i # 0
    <3>1. i \in 1 .. n /\ i \in Nat  BY <1>1, <2>1, <2>3
    <3>2. i - 1 \in 0 .. n  BY <2>1, <2>3
    <3>3. f[i - 1] \in Nat  BY <1>4, <3>2
    <3>4. QED  BY <2>2, <2>3, <3>1, <3>3
  <2>4. QED  BY <2>2, <2>3
<1>6. SumUpTo(f, q, base, n)
  <2>1. f = [i \in 0 .. n |-> f[i]]  BY <1>4
  <2>2. QED  BY <1>5, <2>1 DEF SumUpTo
<1>7. SumUpTo(s, q, base, n)  BY <1>6
<1> HIDE DEF s, F
<1> DEFINE P == {i \in Nat : i <= n => s[i] = f[i]}
<1>8. 0 \in P
  <2>1. s[0] = base  BY <1>1, <1>7 DEF SumUpTo
  <2>2. f[0] = base  BY <1>1, <1>5
  <2>3. QED  BY <2>1, <2>2
<1>9. ASSUME NEW i \in P PROVE i + 1 \in P
  <2>1. SUFFICES ASSUME i + 1 <= n PROVE s[i + 1] = f[i + 1]  OBVIOUS
  <2>2. i + 1 \in 0 .. n /\ i + 1 # 0 /\ (i + 1) - 1 = i /\ i <= n /\ i \in Nat  BY <1>1, <2>1
  <2>3. s[i + 1] = s[i] + q[i + 1]  BY <1>7, <2>2 DEF SumUpTo
  <2>4. f[i + 1] = f[i] + q[i + 1]  BY <1>5, <2>2
  <2>5. QED  BY <2>2, <2>3, <2>4
<1>10. n \in P
  <2> HIDE DEF P
  <2>1. P = Nat  BY <1>8, <1>9, SetInduction DEF P
  <2>2. QED  BY <1>1, <2>1
<1>11. QED  BY <1>1, <1>3, <1>4, <1>10

-----------------------------------------------------------------------------
(* What FlattenSeq returns.                                                *)

\* f is its recursive function, for the first n sequences.
FlatUpTo(f, q, n) == f = [i \in 1 .. n |-> IF i = 1 THEN q[i] ELSE f[i - 1] \o q[i]]

\* There is one for any number of sequences, and it returns sequences.
LEMMA FlatExists ==
  ASSUME NEW S, NEW q \in Seq(Seq(S)), NEW n \in Nat, n <= Len(q)
  PROVE  \E f \in [1 .. n -> Seq(S)] : FlatUpTo(f, q, n)
<1> DEFINE P == {m \in Nat : m <= Len(q) => \E f \in [1 .. m -> Seq(S)] : FlatUpTo(f, q, m)}
<1>1. 0 \in P
  <2>1. [i \in 1 .. 0 |-> <<>>] \in [1 .. 0 -> Seq(S)]  OBVIOUS
  <2>2. FlatUpTo([i \in 1 .. 0 |-> <<>>], q, 0)
    <3>1. 1 .. 0 = {}  OBVIOUS
    <3>2. QED  BY <3>1 DEF FlatUpTo
  <2>3. QED  BY <2>1, <2>2
<1>2. ASSUME NEW m \in P PROVE m + 1 \in P
  <2>1. SUFFICES ASSUME m + 1 <= Len(q)
                 PROVE  \E f \in [1 .. m + 1 -> Seq(S)] : FlatUpTo(f, q, m + 1)
    OBVIOUS
  <2>2. m \in Nat /\ m <= Len(q)  BY <2>1
  <2>3. PICK f \in [1 .. m -> Seq(S)] : FlatUpTo(f, q, m)  BY <2>2
  <2> DEFINE last == IF m + 1 = 1 THEN q[m + 1] ELSE f[m] \o q[m + 1]
             g == [i \in 1 .. m + 1 |-> IF i = m + 1 THEN last ELSE f[i]]
             next(i) == IF i = 1 THEN q[i] ELSE g[i - 1] \o q[i]
  <2>4. last \in Seq(S)
    <3>1. q[m + 1] \in Seq(S)  BY <2>1, <2>2
    <3>2. m # 0 => f[m] \in Seq(S)  BY <2>2, <2>3
    <3>3. QED  BY <2>2, <3>1, <3>2
  <2>5. ASSUME NEW i \in 1 .. m + 1 PROVE g[i] = next(i) /\ g[i] \in Seq(S)
    <3>1. CASE i = m + 1
      <4>1. i # 1 => i - 1 \in 1 .. m + 1 /\ i - 1 = m /\ i - 1 # m + 1  BY <2>2, <3>1
      <4>2. i # 1 => g[i - 1] = f[m]  BY <4>1
      <4>3. g[i] = last  BY <3>1
      <4> HIDE DEF g
      <4>4. QED  BY <2>4, <3>1, <4>2, <4>3
    <3>2. CASE i # m + 1
      <4>1. i \in 1 .. m /\ g[i] = f[i]  BY <2>2, <3>2
      <4>2. f[i] = IF i = 1 THEN q[i] ELSE f[i - 1] \o q[i]  BY <2>3, <4>1 DEF FlatUpTo
      <4>3. i # 1 => g[i - 1] = f[i - 1]  BY <2>2, <4>1
      <4> HIDE DEF g
      <4>4. QED  BY <2>3, <4>1, <4>2, <4>3
    <3>3. QED  BY <3>1, <3>2
  <2>6. g = [i \in 1 .. m + 1 |-> next(i)]
    <3> HIDE DEF last
    <3>1. g = [i \in 1 .. m + 1 |-> g[i]]  OBVIOUS
    <3> HIDE DEF next
    <3>2. QED  BY <2>5, <3>1
  <2> HIDE DEF g
  <2>7. g \in [1 .. m + 1 -> Seq(S)]
    <3> HIDE DEF next
    <3>1. g = [i \in 1 .. m + 1 |-> g[i]]  BY <2>6
    <3>2. QED  BY <2>5, <3>1
  <2>8. FlatUpTo(g, q, m + 1)  BY <2>6 DEF FlatUpTo
  <2>9. QED  BY <2>7, <2>8
<1>3. P = Nat
  <2> HIDE DEF P
  <2> QED BY <1>1, <1>2, SetInduction DEF P
<1>4. QED BY <1>3

\* Two agree as far as their sequences do.
LEMMA FlatUnique ==
  ASSUME NEW q, NEW f, NEW g, NEW n \in Nat, NEW m \in Nat, n <= m,
         FlatUpTo(f, q, n), FlatUpTo(g, q, m)
  PROVE  \A i \in 1 .. n : f[i] = g[i]
<1> DEFINE P == {i \in Nat : i \in 1 .. n => f[i] = g[i]}
<1>1. 0 \in P  OBVIOUS
<1>2. ASSUME NEW i \in P PROVE i + 1 \in P
  <2>1. SUFFICES ASSUME i + 1 <= n PROVE f[i + 1] = g[i + 1]  OBVIOUS
  <2>2. /\ i + 1 \in 1 .. n /\ i + 1 \in 1 .. m /\ (i + 1) - 1 = i
        /\ i + 1 # 1 => i \in 1 .. n
    BY <2>1
  <2>3. i + 1 # 1 => f[i] = g[i]  BY <2>2
  <2>4. f[i + 1] = IF i + 1 = 1 THEN q[i + 1] ELSE f[i] \o q[i + 1]  BY <2>2 DEF FlatUpTo
  <2>5. g[i + 1] = IF i + 1 = 1 THEN q[i + 1] ELSE g[i] \o q[i + 1]  BY <2>2 DEF FlatUpTo
  <2>6. QED BY <2>3, <2>4, <2>5
<1>3. P = Nat
  <2> HIDE DEF P
  <2> QED BY <1>1, <1>2, SetInduction DEF P
<1>4. QED BY <1>3

\* No sequences are flattened to none; one more is added at the end.
LEMMA FlattenGrows ==
  ASSUME NEW S, NEW q \in Seq(Seq(S)), NEW s \in Seq(S)
  PROVE  /\ FlattenSeq(<<>>) = <<>> /\ FlattenSeq(q) \in Seq(S)
         /\ FlattenSeq(Append(q, s)) = FlattenSeq(q) \o s
<1> DEFINE n == Len(q)
           r == Append(q, s)
           f == CHOOSE h : FlatUpTo(h, q, n)
           g == CHOOSE h : FlatUpTo(h, r, n + 1)
<1>1. /\ n \in Nat /\ r \in Seq(Seq(S)) /\ Len(r) = n + 1 /\ r[n + 1] = s
      /\ \A i \in 1 .. n : q[i] = r[i]
  OBVIOUS
<1>2. (n # 0 => FlattenSeq(q) = f[n]) /\ (n = 0 => FlattenSeq(q) = <<>>)
  BY DEF FlattenSeq, FlatUpTo
<1>3. FlattenSeq(r) = g[n + 1]
  <2>1. Len(r) = n + 1 /\ n + 1 # 0  BY <1>1
  <2> HIDE DEF r, n
  <2>2. QED  BY <2>1 DEF FlattenSeq, FlatUpTo
<1> HIDE DEF n, r
<1>4. n <= Len(q) /\ n + 1 <= Len(r) /\ n + 1 \in Nat  BY <1>1 DEF n
<1>5. PICK h \in [1 .. n -> Seq(S)] : FlatUpTo(h, q, n)  BY <1>1, <1>4, FlatExists
<1>6. PICK k \in [1 .. n + 1 -> Seq(S)] : FlatUpTo(k, r, n + 1)  BY <1>1, <1>4, FlatExists
<1>7. FlatUpTo(f, q, n) /\ FlatUpTo(g, r, n + 1)  BY <1>5, <1>6
<1> HIDE DEF f, g
<1>8. \A i \in 1 .. n : f[i] = g[i] /\ f[i] = h[i]
  <2>1. n <= n + 1 /\ n <= n  BY <1>1
  <2>2. \A i \in 1 .. n : f[i] = h[i]  BY ONLY <1>1, <1>5, <1>7, <2>1, FlatUnique
  <2>3. FlatUpTo(f, r, n)
    <3>1. \A i \in 1 .. n : q[i] = r[i]  BY <1>1
    <3>2. f = [i \in 1 .. n |-> IF i = 1 THEN q[i] ELSE f[i - 1] \o q[i]]
      BY <1>7 DEF FlatUpTo
    <3>3. QED  BY <3>1, <3>2 DEF FlatUpTo
  <2>4. \A i \in 1 .. n : f[i] = g[i]  BY ONLY <1>1, <1>4, <1>7, <2>1, <2>3, FlatUnique
  <2>5. QED  BY ONLY <2>2, <2>4
<1>9. g[n + 1] = IF n + 1 = 1 THEN r[n + 1] ELSE g[n] \o r[n + 1]
  <2>1. n + 1 \in 1 .. n + 1 /\ (n + 1) - 1 = n  BY <1>1
  <2>2. QED  BY <1>7, <2>1 DEF FlatUpTo
<1>10. FlattenSeq(<<>>) = <<>>
  <2>1. Len(<<>>) = 0  OBVIOUS
  <2>2. QED  BY <2>1 DEF FlattenSeq
<1>11. CASE n = 0
  BY <1>1, <1>2, <1>3, <1>9, <1>10, <1>11 DEF r
<1>12. CASE n # 0
  <2>1. n \in 1 .. n  BY <1>1, <1>12
  <2>2. f[n] = g[n] /\ f[n] \in Seq(S)  BY <1>5, <1>8, <2>1
  <2>3. n + 1 # 1 /\ r[n + 1] = s  BY <1>1, <1>12
  <2>4. FlattenSeq(r) = f[n] \o s  BY <1>3, <1>9, <2>2, <2>3
  <2>5. FlattenSeq(q) = f[n]  BY <1>2, <1>12
  <2>6. QED  BY <1>10, <2>2, <2>4, <2>5 DEF r
<1>13. QED  BY <1>11, <1>12

\* One element more of a sequence.
LEMMA NextPrefix ==
  ASSUME NEW S, NEW t \in Seq(S), NEW n \in Nat, n < Len(t)
  PROVE  /\ SubSeq(t, 1, n + 1) = Append(SubSeq(t, 1, n), t[n + 1])
         /\ SubSeq(t, 1, n) \in Seq(S) /\ t[n + 1] \in S
<1>1. n + 1 \in 1 .. Len(t) /\ t[n + 1] \in S  OBVIOUS
<1>2. /\ SubSeq(t, 1, n) \in Seq(S) /\ Len(SubSeq(t, 1, n)) = n
      /\ \A i \in 1 .. n : SubSeq(t, 1, n)[i] = t[i]
  OBVIOUS
<1>3. /\ SubSeq(t, 1, n + 1) \in Seq(S) /\ Len(SubSeq(t, 1, n + 1)) = n + 1
      /\ \A i \in 1 .. n + 1 : SubSeq(t, 1, n + 1)[i] = t[i]
  BY <1>1
<1>4. QED  BY <1>1, <1>2, <1>3, IsAppend
====
