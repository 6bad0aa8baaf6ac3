----------------------------- MODULE Seqs_proofs -----------------------------
(***************************************************************************)
(* Facts about sequences of sequences: what FlattenSeq computes, whatever  *)
(* the number of sequences.  Audio travels in frames and transcripts in    *)
(* segments; the properties are about the units and words inside.  The     *)
(* induction theorems of the library take an operator as a parameter;      *)
(* here induction is on a set of natural numbers, whose least missing      *)
(* element well-foundedness gives.                                         *)
(***************************************************************************)
EXTENDS Integers, Sequences, SequencesExt, FiniteSetTheorems,
        SequenceTheorems, WellFoundedInduction, TLAPS

\* A set of natural numbers has a least element: the initial segments below its
\* elements are finite sets, on which strict inclusion is well-founded.
LEMMA LeastElement ==
  ASSUME NEW T \in SUBSET Nat, T # {}
  PROVE  \E x \in T : \A y \in T : x <= y
<1> DEFINE U == {0..x : x \in T}
<1> DEFINE R == StrictSubsetOrdering(Nat)
<1>1. IsWellFoundedOn(R, FiniteSubsetsOf(Nat))
  BY FS_StrictSubsetOrderingWellFounded
<1>2. U \subseteq FiniteSubsetsOf(Nat)
  <2> SUFFICES ASSUME NEW x \in T PROVE 0..x \in FiniteSubsetsOf(Nat)
    OBVIOUS
  <2>1. IsFiniteSet(0..x) BY FS_Interval
  <2>2. 0..x \subseteq Nat OBVIOUS
  <2> QED BY <2>1, <2>2 DEF FiniteSubsetsOf
<1>3. U # {}
  OBVIOUS
<1>4. PICK u \in U : \A v \in U : ~(<<v, u>> \in R)
  <2> HIDE DEF U, R
  <2> QED BY <1>1, <1>2, <1>3, WFMin
<1>5. PICK x \in T : u = 0..x
  OBVIOUS
<1> SUFFICES ASSUME NEW y \in T, y < x PROVE FALSE
  BY <1>5
<1>6. <<0..y, 0..x>> \in R
  <2>1. 0..y \subseteq Nat /\ 0..x \subseteq Nat /\ 0..y \subseteq 0..x
    OBVIOUS
  <2>2. 0..y # 0..x
    OBVIOUS
  <2> QED BY <2>1, <2>2 DEF StrictSubsetOrdering
<1>7. 0..y \in U
  OBVIOUS
<1> QED BY <1>4, <1>5, <1>6, <1>7

\* Induction on the natural numbers, about a set in place of a formula.
LEMMA SetInduction ==
  ASSUME NEW S, 0 \in S, \A n \in Nat : n \in S => n + 1 \in S
  PROVE  Nat \subseteq S
<1> DEFINE T == Nat \ S
<1> SUFFICES ASSUME T # {} PROVE FALSE
  OBVIOUS
<1>1. PICK x \in T : \A y \in T : x <= y
  <2> T \in SUBSET Nat OBVIOUS
  <2> HIDE DEF T
  <2> QED BY LeastElement
<1>2. x # 0 /\ x \in Nat
  OBVIOUS
<1>3. x - 1 \in Nat /\ x - 1 \notin T
  BY <1>1, <1>2
<1>4. x \in S
  BY <1>3, <1>2
<1> QED BY <1>4

\* The same up to a bound.
LEMMA IntervalInduction ==
  ASSUME NEW N \in Nat, NEW S, N # 0 => 1 \in S,
         \A n \in 1..(N-1) : n \in S => n + 1 \in S
  PROVE  1..N \subseteq S
<1> DEFINE T == {n \in Nat : n \in 1..N => n \in S}
<1>1. 0 \in T
  OBVIOUS
<1>2. ASSUME NEW n \in Nat, n \in T PROVE n + 1 \in T
  <2>1. CASE n = 0 BY <2>1
  <2>2. CASE n \in 1..(N-1) BY <1>2, <2>2
  <2>3. CASE n >= N BY <2>3
  <2> QED BY <2>1, <2>2, <2>3
<1>3. Nat \subseteq T
  <2> HIDE DEF T
  <2> QED BY <1>1, <1>2, SetInduction
<1> QED BY <1>3

\* g[i] is the concatenation of the first i sequences of s: the function by
\* which FlattenSeq is defined.
Runs(s, g) ==
  \A i \in 1..Len(s) : g[i] = IF i = 1 THEN s[i] ELSE g[i-1] \o s[i]

\* There is such a function, built along the prefixes of s.
LEMMA RunsExist ==
  ASSUME NEW X, NEW s \in Seq(Seq(X))
  PROVE  \E g \in [1..Len(s) -> Seq(X)] : Runs(s, g)
<1> DEFINE Pre(n, g) ==
             \A i \in 1..n : g[i] = IF i = 1 THEN s[i] ELSE g[i-1] \o s[i]
<1> DEFINE S == {n \in Nat : n <= Len(s) =>
                   \E g \in [1..n -> Seq(X)] : Pre(n, g)}
<1>1. 0 \in S
  <2>1. [i \in 1..0 |-> <<>>] \in [1..0 -> Seq(X)]
        /\ Pre(0, [i \in 1..0 |-> <<>>])
    OBVIOUS
  <2> QED BY <2>1
<1>2. ASSUME NEW n \in Nat, n \in S PROVE n + 1 \in S
  <2>1. ASSUME n + 1 <= Len(s)
        PROVE  \E h \in [1..(n+1) -> Seq(X)] : Pre(n+1, h)
    <3>1. PICK g \in [1..n -> Seq(X)] : Pre(n, g)
      <4>1. n <= Len(s) BY <2>1
      <4> QED BY <4>1, <1>2
    <3> DEFINE v == IF n = 0 THEN s[1] ELSE g[n] \o s[n+1]
    <3>2. v \in Seq(X)
      <4>1. s[n+1] \in Seq(X) BY <2>1
      <4>2. CASE n = 0 BY <4>1, <4>2
      <4>3. CASE n # 0
        <5>1. g[n] \in Seq(X) BY <4>3
        <5> QED BY <4>1, <4>3, <5>1
      <4> QED BY <4>2, <4>3
    <3>3. \A i \in 1..n : g[i] = IF i = 1 THEN s[i] ELSE g[i-1] \o s[i]
      BY <3>1
    <3>4. v = IF n + 1 = 1 THEN s[n+1] ELSE g[n] \o s[n+1]
      OBVIOUS
    <3> HIDE DEF v, S
    <3> DEFINE h == [i \in 1..(n+1) |-> IF i = n + 1 THEN v ELSE g[i]]
    <3>5. h \in [1..(n+1) -> Seq(X)]
      BY <3>2
    <3>6. ASSUME NEW i \in 1..(n+1)
          PROVE  h[i] = IF i = 1 THEN s[i] ELSE h[i-1] \o s[i]
      <4>1. CASE i \in 1..n
        <5>1. h[i] = g[i] BY <4>1
        <5>2. i # 1 => h[i-1] = g[i-1] BY <4>1
        <5> HIDE DEF h
        <5> QED BY <5>1, <5>2, <3>3, <4>1
      <4>2. CASE i = n + 1
        <5>1. h[i] = v BY <4>2
        <5>2. i # 1 => h[i-1] = g[n] BY <4>2
        <5> HIDE DEF h
        <5> QED BY <5>1, <5>2, <3>4, <4>2
      <4> QED BY <4>1, <4>2
    <3>7. Pre(n+1, h)
      BY <3>6
    <3> HIDE DEF h, Pre
    <3> QED BY <3>5, <3>7
  <2> HIDE DEF Pre
  <2> QED BY <2>1
<1>3. Len(s) \in S
  <2> HIDE DEF S
  <2>1. Nat \subseteq S BY <1>1, <1>2, SetInduction
  <2> QED BY <2>1
<1> QED BY <1>3 DEF Runs

\* It is the only one.
LEMMA RunsUnique ==
  ASSUME NEW X, NEW s \in Seq(Seq(X)), NEW g, NEW h, Runs(s, g), Runs(s, h)
  PROVE  \A i \in 1..Len(s) : g[i] = h[i]
<1> DEFINE S == {n \in Nat : n \in 1..Len(s) => g[n] = h[n]}
<1>1. 0 \in S
  OBVIOUS
<1>2. ASSUME NEW n \in Nat, n \in S PROVE n + 1 \in S
  BY <1>2 DEF Runs
<1>3. Nat \subseteq S
  <2> HIDE DEF S
  <2> QED BY <1>1, <1>2, SetInduction
<1> QED BY <1>3

\* Its recursion, with the types of what it yields.
LEMMA RunsStep ==
  ASSUME NEW X, NEW s \in Seq(Seq(X)), s # <<>>,
         NEW g \in [1..Len(s) -> Seq(X)], Runs(s, g)
  PROVE  /\ Len(s) \in Nat /\ Len(s) \in 1..Len(s)
         /\ \A i \in 1..Len(s) : g[i] \in Seq(X) /\ s[i] \in Seq(X)
         /\ g[1] = s[1]
         /\ \A i \in 1..(Len(s) - 1) : g[i+1] = g[i] \o s[i+1]
<1>1. Len(s) \in Nat /\ Len(s) \in 1..Len(s)
  OBVIOUS
<1>2. \A i \in 1..Len(s) : g[i] \in Seq(X) /\ s[i] \in Seq(X)
  <2> SUFFICES ASSUME NEW i \in 1..Len(s)
               PROVE g[i] \in Seq(X) /\ s[i] \in Seq(X)
    OBVIOUS
  <2>1. g[i] \in Seq(X) OBVIOUS
  <2>2. s[i] \in Seq(X) BY ElementOfSeq
  <2> QED BY <2>1, <2>2
<1>3. g[1] = s[1]
  <2>1. 1 \in 1..Len(s) BY <1>1
  <2> QED BY <2>1 DEF Runs
<1>4. \A i \in 1..(Len(s) - 1) : g[i+1] = g[i] \o s[i+1]
  <2> SUFFICES ASSUME NEW i \in 1..(Len(s) - 1) PROVE g[i+1] = g[i] \o s[i+1]
    OBVIOUS
  <2>1. i + 1 \in 1..Len(s) /\ i + 1 # 1 /\ (i + 1) - 1 = i
    BY <1>1
  <2> QED BY <2>1 DEF Runs
<1> QED BY <1>1, <1>2, <1>3, <1>4

\* FlattenSeq is its last value.
LEMMA FlattenRuns ==
  ASSUME NEW X, NEW s \in Seq(Seq(X)), s # <<>>, NEW g, Runs(s, g)
  PROVE  FlattenSeq(s) = g[Len(s)]
<1> DEFINE F == CHOOSE f : f = [i \in 1..Len(s) |->
                                  IF i = 1 THEN s[i] ELSE f[i-1] \o s[i]]
<1>1. FlattenSeq(s) = F[Len(s)]
  BY DEF FlattenSeq
<1>2. \E f : f = [i \in 1..Len(s) |-> IF i = 1 THEN s[i] ELSE f[i-1] \o s[i]]
  <2>1. PICK f \in [1..Len(s) -> Seq(X)] : Runs(s, f)
    BY RunsExist
  <2>2. f = [i \in 1..Len(s) |-> IF i = 1 THEN s[i] ELSE f[i-1] \o s[i]]
    BY <2>1 DEF Runs
  <2> QED BY <2>2
<1>3. F = [i \in 1..Len(s) |-> IF i = 1 THEN s[i] ELSE F[i-1] \o s[i]]
  BY <1>2
<1>4. Runs(s, F)
  <2> HIDE DEF F
  <2> QED BY <1>3 DEF Runs
<1>5. Len(s) \in 1..Len(s)
  OBVIOUS
<1> HIDE DEF F
<1> QED BY <1>1, <1>4, <1>5, RunsUnique

\* What is appended to the second of two is appended to both.
LEMMA AppendOut ==
  ASSUME NEW S, NEW w \in Seq(S), NEW t \in Seq(S), NEW m \in S
  PROVE  w \o Append(t, m) = Append(w \o t, m)
<1>1. <<m>> \in Seq(S) /\ Append(t, m) = t \o <<m>>
  OBVIOUS
<1>2. w \o t \in Seq(S) /\ Append(w \o t, m) = (w \o t) \o <<m>>
  OBVIOUS
<1> QED
  BY <1>1, <1>2, ConcatAssociative

\* The elements of a concatenation.
LEMMA ConcatElements ==
  ASSUME NEW X, NEW s \in Seq(X), NEW t \in Seq(X)
  PROVE  ToSet(s \o t) = ToSet(s) \cup ToSet(t)
<1>1. \A i \in 1..Len(s) : (s \o t)[i] = s[i]
  OBVIOUS
<1>2. \A i \in 1..Len(t) : /\ Len(s) + i \in 1..Len(s \o t)
                          /\ (s \o t)[Len(s) + i] = t[i]
  OBVIOUS
<1>3. \A i \in 1..Len(s \o t) : i \in 1..Len(s) \/ i - Len(s) \in 1..Len(t)
  OBVIOUS
<1>4. DOMAIN (s \o t) = 1..Len(s \o t) /\ DOMAIN s = 1..Len(s)
      /\ DOMAIN t = 1..Len(t)
  OBVIOUS
<1>5. ToSet(s \o t) \subseteq ToSet(s) \cup ToSet(t)
  <2> SUFFICES ASSUME NEW i \in 1..Len(s \o t)
               PROVE  (s \o t)[i] \in ToSet(s) \cup ToSet(t)
    BY <1>4 DEF ToSet
  <2>1. CASE i \in 1..Len(s) BY <2>1, <1>1, <1>4 DEF ToSet
  <2>2. CASE i - Len(s) \in 1..Len(t)
    <3>1. (s \o t)[i] = t[i - Len(s)] BY <2>2
    <3> QED BY <3>1, <2>2, <1>4 DEF ToSet
  <2> QED BY <2>1, <2>2, <1>3
<1>6. ToSet(s) \subseteq ToSet(s \o t)
  BY <1>1, <1>4 DEF ToSet
<1>7. ToSet(t) \subseteq ToSet(s \o t)
  BY <1>2, <1>4 DEF ToSet
<1> QED BY <1>5, <1>6, <1>7

\* Nothing to flatten.
LEMMA FlattenEmpty == FlattenSeq(<<>>) = <<>>
BY DEF FlattenSeq

\* Flattening yields a sequence of the same elements' type.
LEMMA FlattenType ==
  ASSUME NEW X, NEW s \in Seq(Seq(X))
  PROVE  FlattenSeq(s) \in Seq(X)
<1>1. CASE s = <<>>
  <2>1. <<>> \in Seq(X) OBVIOUS
  <2>2. FlattenSeq(s) = <<>> BY <1>1, FlattenEmpty
  <2> QED BY <2>1, <2>2
<1>2. CASE s # <<>>
  <2>1. PICK g \in [1..Len(s) -> Seq(X)] : Runs(s, g)
    BY RunsExist
  <2>2. Len(s) \in 1..Len(s)
    BY <1>2
  <2>3. FlattenSeq(s) = g[Len(s)]
    BY <1>2, <2>1, FlattenRuns
  <2>4. g[Len(s)] \in Seq(X)
    BY <2>1, <2>2
  <2> QED BY <2>3, <2>4
<1> QED BY <1>1, <1>2

\* A sequence appended adds its elements at the end.
LEMMA FlattenAppend ==
  ASSUME NEW X, NEW s \in Seq(Seq(X)), NEW f \in Seq(X)
  PROVE  FlattenSeq(Append(s, f)) = FlattenSeq(s) \o f
<1> DEFINE t == Append(s, f)
<1>1. t \in Seq(Seq(X)) /\ t # <<>> /\ Len(t) = Len(s) + 1
  BY AppendProperties
<1>2. PICK g \in [1..Len(t) -> Seq(X)] : Runs(t, g)
  <2> HIDE DEF t
  <2> QED BY <1>1, RunsExist
<1>3. FlattenSeq(t) = g[Len(t)]
  <2> HIDE DEF t
  <2> QED BY <1>1, <1>2, FlattenRuns
<1>4. t[Len(t)] = f /\ \A i \in 1..Len(s) : t[i] = s[i]
  OBVIOUS
<1> HIDE DEF t
<1>5. CASE s = <<>>
  <2>1. g[1] = f BY <1>1, <1>2, <1>4, <1>5 DEF Runs
  <2>2. FlattenSeq(t) = f BY <1>1, <1>3, <1>5, <2>1
  <2>3. <<>> \o f = f OBVIOUS
  <2> QED BY <2>2, <2>3, <1>5, FlattenEmpty DEF t
<1>6. CASE s # <<>>
  <2>1. Len(s) \in 1..Len(s) /\ Len(s) # 0 BY <1>6
  <2>2. Runs(s, g)
    <3> SUFFICES ASSUME NEW i \in 1..Len(s)
                 PROVE  g[i] = IF i = 1 THEN s[i] ELSE g[i-1] \o s[i]
      BY DEF Runs
    <3>1. i \in 1..Len(t) /\ t[i] = s[i] BY <1>1, <1>4
    <3>2. g[i] = IF i = 1 THEN t[i] ELSE g[i-1] \o t[i] BY <1>2, <3>1 DEF Runs
    <3> QED BY <3>1, <3>2
  <2>3. FlattenSeq(s) = g[Len(s)]
    BY <1>6, <2>2, FlattenRuns
  <2>4. g[Len(t)] = g[Len(s)] \o f
    <3>1. Len(t) \in 1..Len(t) /\ Len(t) # 1 /\ Len(t) - 1 = Len(s)
      BY <1>1, <2>1
    <3> QED BY <1>2, <1>4, <3>1 DEF Runs
  <2> QED BY <1>3, <2>3, <2>4 DEF t
<1> QED BY <1>5, <1>6

\* A single sequence is its own flattening.
LEMMA FlattenOne ==
  ASSUME NEW X, NEW f \in Seq(X)
  PROVE  FlattenSeq(<<f>>) = f
<1>1. <<>> \in Seq(Seq(X)) /\ Append(<<>>, f) = <<f>>
  OBVIOUS
<1>2. FlattenSeq(Append(<<>>, f)) = FlattenSeq(<<>>) \o f
  BY <1>1, FlattenAppend
<1>3. <<>> \o f = f
  OBVIOUS
<1> QED BY <1>1, <1>2, <1>3, FlattenEmpty

\* The flattening of two lists is that of the one, then that of the other.
LEMMA FlattenConcat ==
  ASSUME NEW X, NEW s \in Seq(Seq(X)), NEW t \in Seq(Seq(X))
  PROVE  FlattenSeq(s \o t) = FlattenSeq(s) \o FlattenSeq(t)
<1> DEFINE Start(n) == SubSeq(t, 1, n)
           S == {n \in Nat : n <= Len(t) =>
                   FlattenSeq(s \o Start(n))
                     = FlattenSeq(s) \o FlattenSeq(Start(n))}
<1>1. FlattenSeq(s) \in Seq(X)
  BY FlattenType
<1>2. 0 \in S
  <2>1. Start(0) = <<>>
    OBVIOUS
  <2>2. s \o <<>> = s /\ FlattenSeq(s) \o <<>> = FlattenSeq(s)
    BY <1>1
  <2>3. FlattenSeq(s \o Start(0)) = FlattenSeq(s) \o FlattenSeq(Start(0))
    BY <2>1, <2>2, FlattenEmpty
  <2> QED BY <2>3
<1>3. ASSUME NEW n \in Nat, n \in S PROVE n + 1 \in S
  <2> SUFFICES ASSUME n + 1 <= Len(t)
               PROVE  FlattenSeq(s \o Start(n + 1))
                        = FlattenSeq(s) \o FlattenSeq(Start(n + 1))
    OBVIOUS
  <2>1. n + 1 \in 1 .. Len(t) /\ n <= Len(t)
    OBVIOUS
  <2>2. t[n + 1] \in Seq(X)
    BY <2>1, ElementOfSeq
  <2>3. Start(n) \in Seq(Seq(X)) /\ Start(n + 1) = Append(Start(n), t[n + 1])
    BY <2>1
  <2>4. FlattenSeq(s \o Start(n)) = FlattenSeq(s) \o FlattenSeq(Start(n))
    BY <1>3, <2>1
  <2> DEFINE a == Start(n)
             x == t[n + 1]
  <2> HIDE DEF Start, S
  <2>5. a \in Seq(Seq(X)) /\ x \in Seq(X)
    BY <2>2, <2>3
  <2> HIDE DEF a, x
  <2>6. s \o Append(a, x) = Append(s \o a, x)
    BY <2>5, AppendOut
  <2>7. s \o a \in Seq(Seq(X))
    BY <2>5, ConcatProperties
  <2>8. FlattenSeq(Append(s \o a, x)) = FlattenSeq(s \o a) \o x
    BY <2>5, <2>7, FlattenAppend
  <2>9. FlattenSeq(Append(a, x)) = FlattenSeq(a) \o x
    BY <2>5, FlattenAppend
  <2> DEFINE u == FlattenSeq(s)
             v == FlattenSeq(a)
  <2>10. u \in Seq(X) /\ v \in Seq(X)
    BY <1>1, <2>5, FlattenType
  <2>11. FlattenSeq(s \o a) = u \o v
    BY <2>4 DEF a
  <2> HIDE DEF u, v
  <2>12. (u \o v) \o x = u \o (v \o x)
    BY ONLY <2>5, <2>10, ConcatAssociative
  <2>13. FlattenSeq(s \o Append(a, x)) = u \o FlattenSeq(Append(a, x))
    <3>1. FlattenSeq(Append(s \o a, x)) = u \o (v \o x)
      BY <2>8, <2>11, <2>12
    <3>2. FlattenSeq(Append(a, x)) = v \o x
      BY <2>9 DEF v
    <3> QED BY ONLY <2>6, <3>1, <3>2
  <2>14. Start(n + 1) = Append(a, x)
    BY <2>3 DEF a, x
  <2> QED BY <2>13, <2>14 DEF u
<1>4. Nat \subseteq S
  <2> HIDE DEF S
  <2> QED BY <1>2, <1>3, SetInduction
<1>5. Len(t) \in S /\ Start(Len(t)) = t
  <2>1. Len(t) \in Nat
    OBVIOUS
  <2>2. Len(t) \in S
    BY <1>4, <2>1
  <2>3. Start(Len(t)) = t
    BY SubSeqFull
  <2> QED BY <2>2, <2>3
<1>6. Len(t) \in Nat /\ Len(t) <= Len(t)
  OBVIOUS
<1>7. FlattenSeq(s \o Start(Len(t)))
        = FlattenSeq(s) \o FlattenSeq(Start(Len(t)))
  BY <1>5, <1>6
<1> HIDE DEF Start, S
<1> QED BY <1>5, <1>7

\* Concatenation, kept folded in the arguments about associativity.
Cat(s, t) == s \o t
\* The type of a sequence, kept folded likewise.
IsSeq(s, X) == s \in Seq(X)

\* Concatenation is associative.
LEMMA CatShift ==
  \A X, p, a, b, u, v :
    IsSeq(p, X) /\ IsSeq(a, X) /\ IsSeq(b, X) /\ u = Cat(p, a) /\ v = Cat(a, b)
      => Cat(u, b) = Cat(p, v)
BY DEF Cat, IsSeq

\* The same for sequences of numbers, as it is used without arithmetic.
LEMMA IntsRegroup == \A a, b, c \in Seq(Int) : (a \o b) \o c = a \o (b \o c)
<1> SUFFICES ASSUME NEW a \in Seq(Int), NEW b \in Seq(Int),
                    NEW c \in Seq(Int)
             PROVE  (a \o b) \o c = a \o (b \o c)
  OBVIOUS
<1>1. IsSeq(a, Int) /\ IsSeq(b, Int) /\ IsSeq(c, Int)
  BY DEF IsSeq
<1>2. Cat(Cat(a, b), c) = Cat(a, Cat(b, c))
  BY ONLY <1>1, CatShift
<1> QED BY <1>2, Zenon DEF Cat

\* The same for texts, as it is used without arithmetic.
LEMMA StringsRegroup ==
  \A a, b, c \in Seq(STRING) : (a \o b) \o c = a \o (b \o c)
<1> SUFFICES ASSUME NEW a \in Seq(STRING), NEW b \in Seq(STRING),
                    NEW c \in Seq(STRING)
             PROVE  (a \o b) \o c = a \o (b \o c)
  OBVIOUS
<1>1. IsSeq(a, STRING) /\ IsSeq(b, STRING) /\ IsSeq(c, STRING)
  BY DEF IsSeq
<1>2. Cat(Cat(a, b), c) = Cat(a, Cat(b, c))
  BY ONLY <1>1, CatShift
<1> QED BY <1>2, Zenon DEF Cat

\* g is h started one sequence earlier, with p in front of everything.
Shifted(X, N, p, g, h, w) ==
  /\ N \in Nat
  /\ p \in Seq(X)
  /\ g \in [1..(N+1) -> Seq(X)]
  /\ h \in [1..N -> Seq(X)]
  /\ w \in [1..N -> Seq(X)]
  /\ N # 0 => g[2] = Cat(p, h[1])
  /\ \A i \in 1..(N-1) : h[i+1] = Cat(h[i], w[i+1])
  /\ \A i \in 1..(N-1) : g[i+2] = Cat(g[i+1], w[i+1])

\* So every value of g is p followed by the value of h.
LEMMA ShiftedRuns ==
  \A X, N, p, g, h, w :
    Shifted(X, N, p, g, h, w) => \A i \in 1..N : g[i+1] = Cat(p, h[i])
<1> SUFFICES ASSUME NEW X, NEW N, NEW p, NEW g, NEW h, NEW w,
                    Shifted(X, N, p, g, h, w)
             PROVE  \A i \in 1..N : g[i+1] = Cat(p, h[i])
  OBVIOUS
<1> USE DEF Shifted
<1> DEFINE S == {n \in Nat : g[n+1] = Cat(p, h[n])}
<1>1. N # 0 => 1 \in S
  OBVIOUS
<1>2. ASSUME NEW n \in 1..(N-1), n \in S PROVE n + 1 \in S
  <2>1. g[n+1] = Cat(p, h[n])
    BY <1>2
  <2>2. n \in 1..N /\ n + 1 \in 1..N /\ n + 1 \in Nat /\ (n + 1) + 1 = n + 2
    OBVIOUS
  <2>3. g[n+2] = Cat(g[n+1], w[n+1]) /\ h[n+1] = Cat(h[n], w[n+1])
    OBVIOUS
  <2>4. IsSeq(p, X) /\ IsSeq(h[n], X) /\ IsSeq(w[n+1], X)
    BY <2>2 DEF IsSeq
  <2> HIDE DEF S
  <2>5. Cat(g[n+1], w[n+1]) = Cat(p, h[n+1])
    BY <2>1, <2>3, <2>4, CatShift
  <2> QED BY <2>2, <2>3, <2>5 DEF S
<1>3. 1..N \subseteq S
  <2> HIDE DEF S
  <2> QED BY <1>1, <1>2, IntervalInduction
<1> QED BY <1>3

\* Flattening from the front: the first sequence, then the others flattened.
LEMMA FlattenHeadTail ==
  ASSUME NEW X, NEW s \in Seq(Seq(X)), s # <<>>
  PROVE  FlattenSeq(s) = Head(s) \o FlattenSeq(Tail(s))
<1> DEFINE t == Tail(s)
<1>1. /\ t \in Seq(Seq(X)) /\ Len(t) = Len(s) - 1
      /\ \A i \in 1..Len(t) : t[i] = s[i+1]
      /\ Head(s) \in Seq(X) /\ Head(s) = s[1]
      /\ Len(s) \in Nat /\ Len(s) >= 1
  OBVIOUS
<1> HIDE DEF t
<1>2. PICK g \in [1..Len(s) -> Seq(X)] : Runs(s, g)
  BY RunsExist
<1>3. FlattenSeq(s) = g[Len(s)]
  BY <1>2, FlattenRuns
<1>4. CASE t = <<>>
  <2>1. Len(s) = 1 BY <1>1, <1>4
  <2>2. g[1] = Head(s) BY <1>1, <1>2, <2>1 DEF Runs
  <2>3. Head(s) \o <<>> = Head(s) BY <1>1
  <2> QED BY <1>3, <1>4, <2>1, <2>2, <2>3, FlattenEmpty DEF t
<1>5. CASE t # <<>>
  <2>1. PICK h \in [1..Len(t) -> Seq(X)] : Runs(t, h)
    BY <1>1, RunsExist
  <2>2. FlattenSeq(t) = h[Len(t)]
    BY <1>1, <1>5, <2>1, FlattenRuns
  <2>3. /\ g[1] = s[1]
        /\ \A i \in 1..(Len(s) - 1) : g[i+1] = Cat(g[i], s[i+1])
    BY <1>2, RunsStep DEF Cat
  <2>4. /\ Len(t) \in Nat /\ Len(t) \in 1..Len(t)
        /\ \A i \in 1..Len(t) : h[i] \in Seq(X) /\ t[i] \in Seq(X)
        /\ h[1] = t[1]
        /\ \A i \in 1..(Len(t) - 1) : h[i+1] = Cat(h[i], t[i+1])
    <3>1. t \in Seq(Seq(X)) BY <1>1
    <3> HIDE <1>1
    <3> QED BY <3>1, <1>5, <2>1, RunsStep DEF Cat
  <2>5. g[2] = Cat(Head(s), h[1])
    <3>1. 1 \in 1..(Len(s) - 1) /\ 1 \in 1..Len(t) BY <1>1, <2>4
    <3>2. g[1+1] = Cat(g[1], s[1+1]) BY <2>3, <3>1
    <3>3. t[1] = s[1+1] BY <1>1, <3>1
    <3> QED BY <1>1, <2>3, <2>4, <3>2, <3>3
  <2>6. \A i \in 1..(Len(t) - 1) : g[i+2] = Cat(g[i+1], t[i+1])
    <3> SUFFICES ASSUME NEW i \in 1..(Len(t) - 1)
                 PROVE  g[i+2] = Cat(g[i+1], t[i+1])
      OBVIOUS
    <3>1. i + 1 \in 1..(Len(s) - 1) /\ (i + 1) + 1 = i + 2
          /\ i + 1 \in 1..Len(t)
      BY <1>1, <2>4
    <3>2. g[i+2] = Cat(g[i+1], s[i+2]) BY <2>3, <3>1
    <3>3. t[i+1] = s[i+2] BY <1>1, <3>1
    <3> QED BY <3>2, <3>3
  <2>7. /\ Head(s) \in Seq(X)
        /\ t \in [1..Len(t) -> Seq(X)]
        /\ g \in [1..(Len(t)+1) -> Seq(X)]
    <3>1. Len(s) = Len(t) + 1 BY <1>1
    <3> QED BY <1>1, <3>1
  <2>8. g[Len(t) + 1] = Cat(Head(s), h[Len(t)])
    <3>1. \A i \in 1..Len(t) : g[i+1] = Cat(Head(s), h[i])
      <4>1. Shifted(X, Len(t), Head(s), g, h, t)
        BY <2>4, <2>5, <2>6, <2>7 DEF Shifted
      <4> QED BY <4>1, ShiftedRuns
    <3> QED BY <2>4, <3>1
  <2>9. Len(s) = Len(t) + 1
    BY <1>1
  <2> QED BY <1>3, <2>2, <2>8, <2>9 DEF t, Cat
<1> QED BY <1>4, <1>5

\* The elements of the sequences of s.
Elements(s) == UNION {ToSet(s[i]) : i \in 1..Len(s)}

\* Flattening neither loses an element nor invents one.
LEMMA FlattenElements ==
  ASSUME NEW X, NEW s \in Seq(Seq(X))
  PROVE  ToSet(FlattenSeq(s)) = Elements(s)
<1> USE DEF Elements
<1>1. CASE s = <<>>
  BY <1>1, FlattenEmpty DEF ToSet
<1>2. CASE s # <<>>
  <2>1. PICK g \in [1..Len(s) -> Seq(X)] : Runs(s, g)
    BY RunsExist
  <2>2. FlattenSeq(s) = g[Len(s)]
    BY <1>2, <2>1, FlattenRuns
  <2>3. /\ Len(s) \in Nat /\ Len(s) \in 1..Len(s)
        /\ \A i \in 1..Len(s) : g[i] \in Seq(X) /\ s[i] \in Seq(X)
        /\ g[1] = s[1]
        /\ \A i \in 1..(Len(s) - 1) : g[i+1] = g[i] \o s[i+1]
    BY <1>2, <2>1, RunsStep
  <2> DEFINE S == {n \in Nat : ToSet(g[n]) = UNION {ToSet(s[i]) : i \in 1..n}}
  <2>4. 1 \in S
    <3>1. 1..1 = {1} OBVIOUS
    <3>2. UNION {ToSet(s[i]) : i \in {1}} = ToSet(s[1]) OBVIOUS
    <3> QED BY <2>3, <3>1, <3>2
  <2>5. ASSUME NEW n \in 1..(Len(s) - 1), n \in S PROVE n + 1 \in S
    <3>1. ToSet(g[n]) = UNION {ToSet(s[i]) : i \in 1..n}
      BY <2>5
    <3>2. /\ n \in 1..Len(s) /\ n + 1 \in 1..Len(s)
          /\ 1..(n+1) = 1..n \cup {n+1}
      BY <2>3
    <3> HIDE DEF S
    <3>3. g[n] \in Seq(X) /\ s[n+1] \in Seq(X)
      BY <2>3, <3>2
    <3>4. ToSet(g[n] \o s[n+1]) = ToSet(g[n]) \cup ToSet(s[n+1])
      BY <3>3, ConcatElements
    <3>5. UNION {ToSet(s[i]) : i \in 1..(n+1)}
            = (UNION {ToSet(s[i]) : i \in 1..n}) \cup ToSet(s[n+1])
      BY <3>2
    <3>6. ToSet(g[n+1]) = UNION {ToSet(s[i]) : i \in 1..(n+1)}
      BY <2>3, <3>1, <3>4, <3>5
    <3> QED BY <3>6 DEF S
  <2>6. Len(s) \in S
    <3> HIDE DEF S
    <3>1. 1..Len(s) \subseteq S BY <2>3, <2>4, <2>5, IntervalInduction
    <3> QED BY <2>3, <3>1
  <2> QED BY <2>2, <2>6
<1> QED BY <1>1, <1>2

\* The elements after a sequence is appended.
LEMMA ElementsAppend ==
  ASSUME NEW X, NEW s \in Seq(Seq(X)), NEW f \in Seq(X)
  PROVE  Elements(Append(s, f)) = Elements(s) \cup ToSet(f)
<1>1. FlattenSeq(s) \in Seq(X) /\ Append(s, f) \in Seq(Seq(X))
  BY FlattenType, AppendProperties
<1>2. Elements(Append(s, f)) = ToSet(FlattenSeq(Append(s, f)))
  BY <1>1, FlattenElements
<1>3. Elements(s) = ToSet(FlattenSeq(s))
  BY FlattenElements
<1>4. FlattenSeq(Append(s, f)) = FlattenSeq(s) \o f
  BY FlattenAppend
<1>5. ToSet(FlattenSeq(s) \o f) = ToSet(FlattenSeq(s)) \cup ToSet(f)
  BY <1>1, ConcatElements
<1> QED BY <1>2, <1>3, <1>4, <1>5

\* The elements after the first sequence is taken.
LEMMA ElementsHeadTail ==
  ASSUME NEW X, NEW s \in Seq(Seq(X)), s # <<>>
  PROVE  Elements(s) = ToSet(Head(s)) \cup Elements(Tail(s))
<1>1. Tail(s) \in Seq(Seq(X)) /\ Head(s) \in Seq(X)
  BY HeadTailProperties
<1>2. FlattenSeq(Tail(s)) \in Seq(X)
  BY <1>1, FlattenType
<1>3. Elements(s) = ToSet(FlattenSeq(s))
      /\ Elements(Tail(s)) = ToSet(FlattenSeq(Tail(s)))
  BY <1>1, FlattenElements
<1>4. FlattenSeq(s) = Head(s) \o FlattenSeq(Tail(s))
  BY FlattenHeadTail
<1>5. ToSet(Head(s) \o FlattenSeq(Tail(s)))
        = ToSet(Head(s)) \cup ToSet(FlattenSeq(Tail(s)))
  BY <1>1, <1>2, ConcatElements
<1> QED BY <1>3, <1>4, <1>5

\* A concatenation falls back into its two parts.
LEMMA ConcatCut ==
  ASSUME NEW X, NEW s \in Seq(X), NEW t \in Seq(X)
  PROVE  /\ SubSeq(s \o t, 1, Len(s)) = s
         /\ SubSeq(s \o t, Len(s) + 1, Len(s \o t)) = t
<1>1. SubSeq(s \o t, 1, Len(s)) = s
  OBVIOUS
<1>2. SubSeq(s \o t, Len(s) + 1, Len(s \o t)) = t
  OBVIOUS
<1> QED BY <1>1, <1>2

\* Moving the head of one list to the end of another moves nothing in the two
\* taken together.
LEMMA MoveHead ==
  ASSUME NEW X, NEW s \in Seq(X), NEW t \in Seq(X), t # <<>>
  PROVE  /\ Append(s, Head(t)) \in Seq(X) /\ Tail(t) \in Seq(X)
         /\ Append(s, Head(t)) \o Tail(t) = s \o t
<1> DEFINE h == Head(t)
           u == Tail(t)
           v == <<h>>
<1>1. h \in X /\ u \in Seq(X)
  OBVIOUS
<1>2. t = <<h>> \o u
  OBVIOUS
<1> HIDE DEF h, u
<1>3. Append(s, h) = s \o v /\ Append(s, h) \in Seq(X) /\ v \in Seq(X)
  BY <1>1, AppendIsConcat
<1>4. t = v \o u
  BY <1>2
<1> HIDE DEF v
<1>5. (s \o v) \o u = s \o (v \o u)
  BY ONLY s \in Seq(X), <1>1, <1>3, ConcatAssociative
<1> QED BY <1>1, <1>3, <1>4, <1>5 DEF h, u

\* The shortest sequences.
LEMMA ShortSeqs ==
  ASSUME NEW X
  PROVE  <<>> \in Seq(X) /\ \A c \in X : <<c>> \in Seq(X) /\ Len(<<c>>) = 1
OBVIOUS

\* A sequence cut in two is the concatenation of the parts.
LEMMA CutConcat ==
  ASSUME NEW X, NEW s \in Seq(X), NEW n \in 0..Len(s)
  PROVE  /\ SubSeq(s, 1, n) \in Seq(X) /\ SubSeq(s, n + 1, Len(s)) \in Seq(X)
         /\ Len(SubSeq(s, 1, n)) = n
         /\ Len(SubSeq(s, n + 1, Len(s))) = Len(s) - n
         /\ SubSeq(s, 1, n) \o SubSeq(s, n + 1, Len(s)) = s
<1>1. SubSeq(s, 1, n) \in Seq(X) /\ Len(SubSeq(s, 1, n)) = n
  OBVIOUS
<1>2. SubSeq(s, n + 1, Len(s)) \in Seq(X)
      /\ Len(SubSeq(s, n + 1, Len(s))) = Len(s) - n
  OBVIOUS
<1>3. SubSeq(s, 1, n) \o SubSeq(s, n + 1, Len(s)) = s
  <2>1. 1 \in 1..Len(s)+1 /\ n \in 1-1..Len(s) /\ Len(s) \in n..Len(s)
    OBVIOUS
  <2>2. SubSeq(s, 1, n) \o SubSeq(s, n + 1, Len(s)) = SubSeq(s, 1, Len(s))
    BY <2>1, ConcatAdjacentSubSeq
  <2>3. SubSeq(s, 1, Len(s)) = s
    BY SubSeqFull
  <2> QED BY <2>2, <2>3
<1> QED BY <1>1, <1>2, <1>3

\* No element is lost in the cut.
LEMMA CutElements ==
  ASSUME NEW X, NEW s \in Seq(X), NEW n \in 0..Len(s)
  PROVE  ToSet(s) = ToSet(SubSeq(s, 1, n)) \cup ToSet(SubSeq(s, n + 1, Len(s)))
<1>1. /\ SubSeq(s, 1, n) \in Seq(X) /\ SubSeq(s, n + 1, Len(s)) \in Seq(X)
      /\ SubSeq(s, 1, n) \o SubSeq(s, n + 1, Len(s)) = s
  BY CutConcat
<1>2. ToSet(SubSeq(s, 1, n) \o SubSeq(s, n + 1, Len(s)))
        = ToSet(SubSeq(s, 1, n)) \cup ToSet(SubSeq(s, n + 1, Len(s)))
  BY <1>1, ConcatElements
<1> QED BY <1>1, <1>2

\* Induction downwards from N + 1.
LEMMA DownwardInduction ==
  ASSUME NEW N \in Nat, NEW S, N + 1 \in S,
         \A i \in 1..N : (\A j \in i+1..N+1 : j \in S) => i \in S
  PROVE  1..N+1 \subseteq S
<1> DEFINE T == {d \in Nat : \A j \in 1..N+1 : j >= N + 1 - d => j \in S}
<1>1. 0 \in T
  OBVIOUS
<1>2. ASSUME NEW d \in Nat, d \in T PROVE d + 1 \in T
  <2> SUFFICES ASSUME NEW j \in 1..N+1, j >= N + 1 - (d + 1) PROVE j \in S
    OBVIOUS
  <2>1. \A x \in 1..N+1 : x >= N + 1 - d => x \in S
    BY <1>2
  <2>2. CASE j >= N + 1 - d
    BY <2>1, <2>2
  <2>3. CASE j < N + 1 - d
    <3>1. j \in 1..N
      BY <2>3
    <3>2. \A x \in j+1..N+1 : x \in S
      BY <2>1
    <3> QED BY <3>1, <3>2
  <2> QED BY <2>2, <2>3
<1>3. Nat \subseteq T
  <2> HIDE DEF T
  <2> QED BY <1>1, <1>2, SetInduction
<1>4. N \in T
  BY <1>3
<1> QED BY <1>4

\* How a scan of 1..N goes on from i: it yields it[i] and continues at nx[i].
Stepping(nx, it, N) ==
  /\ N \in Nat
  /\ nx \in [1..N -> 1..N+1]
  /\ it \in [1..N -> Seq(1..N)]
  /\ \A i \in 1..N : nx[i] > i
  /\ \A i \in 1..N : it[i] = <<>> \/ \E e \in i..nx[i]-1 : it[i] = <<e>>

\* What it does at i, when f holds what it yields from later positions on.
ScanStep(f, nx, it, N, i) ==
  IF i = N + 1 THEN <<>>
  ELSE IF it[i] = <<>> THEN f[nx[i]] ELSE it[i] \o f[nx[i]]

\* A function that is defined like this is one.
LEMMA ScanExists ==
  ASSUME NEW nx, NEW it, NEW N, Stepping(nx, it, N)
  PROVE  \E f : f = [i \in 1..N+1 |-> ScanStep(f, nx, it, N, i)]
<1> USE DEF Stepping
<1> DEFINE Good(f, d) == \A i \in 1..N+1 :
                           i >= N + 1 - d => f[i] = ScanStep(f, nx, it, N, i)
           T == {d \in Nat : \E f : f = [i \in 1..N+1 |-> f[i]] /\ Good(f, d)}
<1>1. 0 \in T
  <2> DEFINE f == [i \in 1..N+1 |-> <<>>]
  <2>1. f = [i \in 1..N+1 |-> f[i]]
    OBVIOUS
  <2>2. Good(f, 0)
    <3> SUFFICES ASSUME NEW i \in 1..N+1, i >= N + 1 - 0
                 PROVE  f[i] = ScanStep(f, nx, it, N, i)
      OBVIOUS
    <3>1. i = N + 1 /\ f[i] = <<>>
      OBVIOUS
    <3> HIDE DEF f
    <3> QED BY <3>1 DEF ScanStep
  <2> HIDE DEF f
  <2> QED BY <2>1, <2>2
<1>2. ASSUME NEW d \in Nat, d \in T PROVE d + 1 \in T
  <2>1. PICK f : f = [i \in 1..N+1 |-> f[i]] /\ Good(f, d)
    BY <1>2
  <2> DEFINE k == N + 1 - (d + 1)
             h == [i \in 1..N+1 |->
                     IF i = k THEN ScanStep(f, nx, it, N, i) ELSE f[i]]
  <2>2. ASSUME NEW i \in 1..N+1, i >= k
        PROVE  h[i] = ScanStep(h, nx, it, N, i)
    <3>1. i # N + 1 => i \in 1..N /\ nx[i] \in 1..N+1 /\ nx[i] > i
      OBVIOUS
    <3>2. i # N + 1 => h[nx[i]] = f[nx[i]]
      BY <2>2, <3>1
    <3>3. ScanStep(h, nx, it, N, i) = ScanStep(f, nx, it, N, i)
      BY <3>2 DEF ScanStep
    <3>4. h[i] = ScanStep(f, nx, it, N, i)
      <4>1. CASE i = k BY <4>1
      <4>2. CASE i # k
        <5>1. i >= N + 1 - d /\ h[i] = f[i]
          BY <2>2, <4>2
        <5> QED BY <2>1, <5>1
      <4> QED BY <4>1, <4>2
    <3> QED BY <3>3, <3>4
  <2>3. h = [i \in 1..N+1 |-> h[i]]
    OBVIOUS
  <2> HIDE DEF h
  <2>4. Good(h, d + 1)
    BY <2>2
  <2> QED BY <2>3, <2>4
<1>3. Nat \subseteq T
  <2> HIDE DEF T
  <2> QED BY <1>1, <1>2, SetInduction
<1>4. PICK f : f = [i \in 1..N+1 |-> f[i]] /\ Good(f, N)
  BY <1>3
<1>5. \A i \in 1..N+1 : f[i] = ScanStep(f, nx, it, N, i)
  BY <1>4
<1>6. f = [i \in 1..N+1 |-> ScanStep(f, nx, it, N, i)]
  BY <1>4, <1>5
<1> QED BY <1>6

\* Positions of 1..n, in ascending order.
Ascending(ends, n) ==
  /\ ends \in Seq(1..n)
  /\ \A i \in 1..Len(ends)-1 : ends[i] < ends[i+1]

\* A scan yields positions in ascending order, from where it starts.
LEMMA ScanYields ==
  ASSUME NEW nx, NEW it, NEW N, Stepping(nx, it, N), NEW f,
         f = [i \in 1..N+1 |-> ScanStep(f, nx, it, N, i)]
  PROVE  /\ f[N+1] = <<>>
         /\ \A i \in 1..N+1 : /\ Ascending(f[i], N)
                              /\ \A l \in 1..Len(f[i]) : f[i][l] >= i
         /\ \A i \in 1..N : nx[i] \in i+1..N+1 /\ f[i] = it[i] \o f[nx[i]]
<1> DEFINE S == {i \in 1..N+1 : /\ Ascending(f[i], N)
                                /\ \A l \in 1..Len(f[i]) : f[i][l] >= i}
<1>1. /\ N \in Nat
      /\ \A i \in 1..N : nx[i] \in i+1..N+1 /\ it[i] \in Seq(1..N)
  BY DEF Stepping
<1>0. \A i \in 1..N+1 : f[i] = ScanStep(f, nx, it, N, i)
  OBVIOUS
<1>2. f[N+1] = <<>>
  BY <1>0, <1>1 DEF ScanStep
<1>3. ASSUME NEW i \in 1..N
      PROVE  f[i] = IF it[i] = <<>> THEN f[nx[i]] ELSE it[i] \o f[nx[i]]
  <2>1. i \in 1..N+1 /\ i # N + 1
    BY <1>1
  <2>2. f[i] = ScanStep(f, nx, it, N, i)
    BY <1>0, <2>1
  <2> QED BY ONLY <2>1, <2>2 DEF ScanStep
<1>4. N + 1 \in S
  <2>1. Ascending(<<>>, N) /\ \A l \in 1..Len(<<>>) : <<>>[l] >= N + 1
    BY DEF Ascending
  <2>2. N + 1 \in 1..N+1
    BY <1>1
  <2> QED BY <1>2, <2>1, <2>2, Zenon
<1>5. ASSUME NEW i \in 1..N, \A j \in i+1..N+1 : j \in S PROVE i \in S
  <2> DEFINE n == nx[i]
             s == f[n]
  <2>1. n \in i+1..N+1 /\ n \in S
    BY <1>1, <1>5
  <2>2. /\ s \in Seq(1..N) /\ Len(s) \in Nat
        /\ \A l \in 1..Len(s)-1 : s[l] < s[l+1]
        /\ \A l \in 1..Len(s) : s[l] >= n /\ s[l] \in 1..N
    <3>1. Ascending(s, N) /\ \A l \in 1..Len(s) : s[l] >= n
      BY <2>1
    <3> HIDE DEF s, S, n
    <3>2. s \in Seq(1..N) /\ \A l \in 1..Len(s)-1 : s[l] < s[l+1]
      BY <3>1 DEF Ascending
    <3>3. \A l \in 1..Len(s) : s[l] \in 1..N
      BY <3>2, ElementOfSeq
    <3> QED BY <3>1, <3>2, <3>3
  <2>3. CASE it[i] = <<>>
    <3>1. f[i] = s
      BY <1>3, <2>3
    <3> HIDE DEF s
    <3>2. \A l \in 1..Len(s) : s[l] >= i
      <4>1. i < n /\ n \in Nat /\ i \in Nat
        BY <1>1, <2>1
      <4> HIDE DEF n, S
      <4> SUFFICES ASSUME NEW l \in 1..Len(s) PROVE s[l] >= i
        OBVIOUS
      <4>2. s[l] >= n /\ s[l] \in Nat
        BY <2>2
      <4> QED BY ONLY <4>1, <4>2
    <3>3. Ascending(s, N)
      BY <2>2 DEF Ascending
    <3>4. i \in 1..N+1
      BY <1>1
    <3> QED BY <3>1, <3>2, <3>3, <3>4, Zenon
  <2>4. CASE it[i] # <<>>
    <3>1. PICK e \in i..n-1 : it[i] = <<e>>
      BY <2>4 DEF Stepping
    <3> DEFINE x == <<e>> \o s
    <3>2. f[i] = x
      BY <1>3, <2>4, <3>1
    <3> HIDE DEF n, s
    <3>3. e \in 1..N
      BY <1>1, <2>1
    <3>4. <<e>> \in Seq(1..N) /\ Len(<<e>>) = 1 /\ <<e>>[1] = e
      BY <3>3
    <3>5. /\ x \in Seq(1..N) /\ Len(x) = 1 + Len(s)
          /\ \A l \in 1..1+Len(s) : x[l] = IF l <= 1 THEN <<e>>[l] ELSE s[l-1]
      BY <2>2, <3>4, ConcatProperties
    <3> HIDE DEF x
    <3> HIDE DEF S
    <3>6. x[1] = e /\ \A l \in 1..Len(s) : x[l+1] = s[l]
      <4>1. Len(s) \in Nat
        BY <2>2
      <4>2. x[1] = e
        BY ONLY <3>4, <3>5, <4>1
      <4>3. ASSUME NEW l \in 1..Len(s) PROVE x[l+1] = s[l]
        <5>1. l + 1 \in 1..1+Len(s) /\ ~(l + 1 <= 1) /\ (l + 1) - 1 = l
          BY <4>1
        <5> QED BY ONLY <3>5, <5>1
      <4> QED BY <4>2, <4>3
    <3>7. ASSUME NEW l \in 1..Len(x)-1 PROVE x[l] < x[l+1]
      <4>1. CASE l = 1
        <5>1. 1 \in 1..Len(s)
          BY <2>2, <3>5, <4>1
        <5>2. x[1+1] = s[1] /\ s[1] >= n /\ s[1] \in 1..N
          BY ONLY <2>2, <3>6, <5>1
        <5>3. e < s[1]
          BY <1>1, <2>1, <5>2
        <5> QED BY <3>6, <4>1, <5>2, <5>3
      <4>2. CASE l # 1
        <5>1. l - 1 \in 1..Len(s)-1 /\ (l - 1) + 1 = l /\ l \in 1..Len(s)
              /\ l - 1 \in 1..Len(s)
          BY <2>2, <3>5, <4>2
        <5>2. x[l] = s[l-1] /\ x[l+1] = s[l]
          BY <3>6, <5>1
        <5> QED BY <2>2, <5>1, <5>2
      <4> QED BY <4>1, <4>2
    <3>8. ASSUME NEW l \in 1..Len(x) PROVE x[l] >= i
      <4>1. CASE l = 1 BY <3>6, <4>1
      <4>2. CASE l # 1
        <5>1. l - 1 \in 1..Len(s) /\ (l - 1) + 1 = l
          BY <2>2, <3>5, <4>2
        <5>2. x[l] = s[l-1] /\ s[l-1] >= n /\ s[l-1] \in 1..N
          BY ONLY <2>2, <3>6, <5>1
        <5> QED BY <1>1, <2>1, <5>2
      <4> QED BY <4>1, <4>2
    <3>9. Ascending(x, N)
      BY <3>5, <3>7 DEF Ascending
    <3>10. i \in 1..N+1
      BY <1>1
    <3> QED BY <3>2, <3>8, <3>9, <3>10, Zenon DEF S
  <2> QED BY <2>3, <2>4
<1>6. 1..N+1 \subseteq S
  <2> HIDE DEF S
  <2> QED BY <1>1, <1>4, <1>5, DownwardInduction
<1>7. \A i \in 1..N+1 : /\ Ascending(f[i], N)
                        /\ \A l \in 1..Len(f[i]) : f[i][l] >= i
  BY <1>6
<1> HIDE DEF S
<1>8. ASSUME NEW i \in 1..N
      PROVE  nx[i] \in i+1..N+1 /\ f[i] = it[i] \o f[nx[i]]
  <2>1. nx[i] \in i+1..N+1 /\ nx[i] \in 1..N+1
    BY <1>1
  <2>2. f[nx[i]] \in Seq(1..N)
    BY <1>7, <2>1 DEF Ascending
  <2>3. <<>> \o f[nx[i]] = f[nx[i]]
    BY <2>2
  <2> QED BY <1>3, <2>1, <2>3
<1> QED BY <1>2, <1>7, <1>8

\* Not only neighbours ascend.
LEMMA AscendingLess ==
  ASSUME NEW n \in Nat, NEW u, Ascending(u, n),
         NEW i \in 1..Len(u), NEW k \in i+1..Len(u)
  PROVE  u[i] < u[k]
<1> DEFINE S == {d \in Nat : i + d + 1 <= Len(u) => u[i] < u[i+d+1]}
<1>1. /\ u \in Seq(1..n) /\ Len(u) \in Nat
      /\ \A l \in 1..Len(u) : u[l] \in 1..n
  <2>1. u \in Seq(1..n)
    BY DEF Ascending
  <2> QED BY <2>1, ElementOfSeq
<1>2. \A l \in 1..Len(u)-1 : u[l] < u[l+1]
  BY DEF Ascending
<1>3. 0 \in S
  <2>1. i + 0 + 1 <= Len(u) => i \in 1..Len(u)-1
    BY <1>1
  <2> QED BY <1>2, <2>1
<1>4. ASSUME NEW d \in Nat, d \in S PROVE d + 1 \in S
  <2> SUFFICES ASSUME i + (d + 1) + 1 <= Len(u) PROVE u[i] < u[i+(d+1)+1]
    OBVIOUS
  <2>1. i + d + 1 \in 1..Len(u)-1 /\ i + (d + 1) + 1 = (i + d + 1) + 1
    BY <1>1
  <2>2. u[i] < u[i+d+1] /\ u[i+d+1] < u[(i+d+1)+1]
    BY <1>2, <1>4, <2>1, <1>1
  <2>3. /\ u[i] \in 1..n /\ u[i+d+1] \in 1..n /\ u[(i+d+1)+1] \in 1..n
    <3>1. i + d + 1 \in 1..Len(u) /\ (i + d + 1) + 1 \in 1..Len(u)
      BY <1>1, <2>1
    <3> QED BY <1>1, <3>1
  <2> HIDE DEF S
  <2> QED BY <2>1, <2>2, <2>3
<1> HIDE DEF S
<1>5. Nat \subseteq S
  BY <1>3, <1>4, SetInduction
<1>6. k - i - 1 \in Nat /\ i + (k - i - 1) + 1 = k /\ k <= Len(u)
  BY <1>1
<1>7. k - i - 1 \in S
  BY <1>5, <1>6
<1> QED BY <1>6, <1>7 DEF S

\* How many of the positions are at most the i-th, and how many there are.
LEMMA AscendingCounts ==
  ASSUME NEW n \in Nat, NEW u, Ascending(u, n)
  PROVE  /\ \A i \in 1..Len(u) : Cardinality({x \in ToSet(u) : x <= u[i]}) = i
         /\ Cardinality(ToSet(u)) = Len(u)
<1> DEFINE V(i) == {u[k] : k \in 1..i}
           S == {i \in Nat : i <= Len(u) =>
                   IsFiniteSet(V(i)) /\ Cardinality(V(i)) = i}
<1>1. /\ Len(u) \in Nat /\ DOMAIN u = 1..Len(u)
      /\ \A l \in 1..Len(u) : u[l] \in 1..n
  <2>1. u \in Seq(1..n)
    BY DEF Ascending
  <2> QED BY <2>1, ElementOfSeq
<1>2. ASSUME NEW i \in 1..Len(u), NEW k \in i+1..Len(u) PROVE u[i] < u[k]
  BY AscendingLess
<1>3. 0 \in S
  <2>1. V(0) = {}
    OBVIOUS
  <2> HIDE DEF V
  <2> QED BY <2>1, FS_EmptySet
<1>4. ASSUME NEW i \in Nat, i \in S PROVE i + 1 \in S
  <2> SUFFICES ASSUME i + 1 <= Len(u)
               PROVE  IsFiniteSet(V(i+1)) /\ Cardinality(V(i+1)) = i + 1
    OBVIOUS
  <2>1. V(i+1) = V(i) \cup {u[i+1]}
    <3>1. 1..i+1 = 1..i \cup {i+1}
      OBVIOUS
    <3> QED BY <3>1
  <2>2. u[i+1] \notin V(i)
    <3> SUFFICES ASSUME NEW k \in 1..i, u[k] = u[i+1] PROVE FALSE
      OBVIOUS
    <3>1. k \in 1..Len(u) /\ i + 1 \in k+1..Len(u) /\ i + 1 \in 1..Len(u)
      BY <1>1
    <3>2. u[k] < u[i+1] /\ u[k] \in 1..n
      BY <1>1, <1>2, <3>1
    <3> QED BY <3>2
  <2>3. IsFiniteSet(V(i)) /\ Cardinality(V(i)) = i
    BY <1>1, <1>4
  <2> HIDE DEF V
  <2> QED BY <2>1, <2>2, <2>3, FS_AddElement
<1>5. \A i \in 0..Len(u) : Cardinality(V(i)) = i
  <2> HIDE DEF V
  <2>1. ASSUME NEW i \in 0..Len(u) PROVE Cardinality(V(i)) = i
    <3> HIDE DEF S
    <3>1. Nat \subseteq S
      BY <1>3, <1>4, SetInduction
    <3>2. i \in S
      BY <3>1
    <3> QED BY <1>1, <3>2 DEF S
  <2> QED BY <2>1
<1>6. ASSUME NEW i \in 1..Len(u) PROVE {x \in ToSet(u) : x <= u[i]} = V(i)
  <2>1. ASSUME NEW k \in 1..Len(u) PROVE u[k] <= u[i] <=> k \in 1..i
    <3>1. CASE k <= i
      <4>1. k = i \/ i \in k+1..Len(u)
        BY <1>1, <3>1
      <4> QED BY <1>1, <1>2, <3>1, <4>1
    <3>2. CASE ~(k <= i)
      <4>1. k \in i+1..Len(u)
        BY <1>1, <3>2
      <4> QED BY <1>1, <1>2, <3>2, <4>1
    <3> QED BY <3>1, <3>2
  <2>2. ToSet(u) = {u[k] : k \in 1..Len(u)}
    BY <1>1 DEF ToSet
  <2>3. \A k \in 1..i : k \in 1..Len(u)
    BY <1>1
  <2> QED BY <2>1, <2>2, <2>3
<1>7. ToSet(u) = V(Len(u))
  BY <1>1 DEF ToSet
<1> HIDE DEF V
<1>8. ASSUME NEW i \in 1..Len(u)
      PROVE  Cardinality({x \in ToSet(u) : x <= u[i]}) = i
  <2>1. i \in 0..Len(u)
    BY <1>1
  <2>2. {x \in ToSet(u) : x <= u[i]} = V(i)
    BY <1>6
  <2>3. Cardinality(V(i)) = i
    BY <1>5, <2>1
  <2> QED BY <2>2, <2>3
<1>9. Cardinality(ToSet(u)) = Len(u)
  BY <1>1, <1>5, <1>7
<1> QED BY <1>8, <1>9

\* Positions further on continue ascending ones.
LEMMA AscendingConcat ==
  ASSUME NEW n \in Nat, NEW u, Ascending(u, n), NEW v, Ascending(v, n),
         u = <<>> \/ v = <<>> \/ u[Len(u)] < v[1]
  PROVE  Ascending(u \o v, n)
<1>1. /\ u \in Seq(1..n) /\ v \in Seq(1..n)
      /\ Len(u) \in Nat /\ Len(v) \in Nat
      /\ \A l \in 1..Len(u)-1 : u[l] < u[l+1]
      /\ \A l \in 1..Len(v)-1 : v[l] < v[l+1]
  BY DEF Ascending
<1>2. /\ u \o v \in Seq(1..n) /\ Len(u \o v) = Len(u) + Len(v)
      /\ \A l \in 1..Len(u)+Len(v) :
           (u \o v)[l] = IF l <= Len(u) THEN u[l] ELSE v[l-Len(u)]
  BY <1>1, ConcatProperties
<1>3. ASSUME NEW l \in 1..Len(u)+Len(v)-1
      PROVE  (u \o v)[l] < (u \o v)[l+1]
  <2>1. l \in 1..Len(u)+Len(v) /\ l + 1 \in 1..Len(u)+Len(v)
    BY <1>1
  <2>2. CASE l < Len(u)
    <3>1. l \in 1..Len(u)-1 /\ l <= Len(u) /\ l + 1 <= Len(u)
      BY <1>1, <2>2
    <3> QED BY <1>1, <1>2, <2>1, <3>1
  <2>3. CASE l = Len(u)
    <3>1. u # <<>> /\ v # <<>> /\ l + 1 - Len(u) = 1 /\ ~(l + 1 <= Len(u))
      BY <1>1, <2>3
    <3> QED BY <1>2, <2>1, <2>3, <3>1
  <2>4. CASE l > Len(u)
    <3>1. /\ l - Len(u) \in 1..Len(v)-1 /\ ~(l <= Len(u))
          /\ ~(l + 1 <= Len(u)) /\ l + 1 - Len(u) = (l - Len(u)) + 1
      BY <1>1, <2>4
    <3>2. v[l-Len(u)] < v[(l-Len(u))+1]
      BY <1>1, <3>1
    <3> QED BY <1>2, <2>1, <3>1, <3>2
  <2> QED BY <1>1, <2>2, <2>3, <2>4
<1> DEFINE w == u \o v
<1>4. w \in Seq(1..n) /\ \A l \in 1..Len(w)-1 : w[l] < w[l+1]
  <2>1. w \in Seq(1..n) /\ Len(w) = Len(u) + Len(v)
    BY <1>2
  <2>2. \A l \in 1..Len(u)+Len(v)-1 : w[l] < w[l+1]
    BY <1>3
  <2> HIDE DEF w
  <2> QED BY <2>1, <2>2
<1> HIDE DEF w
<1>5. Ascending(w, n)
  BY <1>4 DEF Ascending
<1> QED BY <1>5 DEF w

\* Sequences that agree between two positions have the same cut there.
LEMMA SameCut ==
  ASSUME NEW X, NEW t \in Seq(X), NEW u \in Seq(X), NEW d \in Int,
         NEW m \in Int, NEW k \in Int, 1 <= m, k <= Len(t),
         1 <= m + d, k + d <= Len(u),
         \A i \in m..k : t[i] = u[i+d]
  PROVE  SubSeq(t, m, k) = SubSeq(u, m+d, k+d)
<1> DEFINE p == SubSeq(t, m, k)
           q == SubSeq(u, m+d, k+d)
<1>1. \A i \in m..k : t[i] \in X
  <2>1. \A i \in m..k : i \in 1..Len(t)
    OBVIOUS
  <2> QED BY <2>1, ElementOfSeq
<1>2. \A i \in m+d..k+d : u[i] \in X
  <2>1. \A i \in m+d..k+d : i \in 1..Len(u)
    OBVIOUS
  <2> QED BY <2>1, ElementOfSeq
<1>3. /\ p \in Seq(X)
      /\ Len(p) = IF m <= k THEN k - m + 1 ELSE 0
      /\ \A i \in 1..k-m+1 : p[i] = t[m+i-1]
  BY <1>1, SubSeqProperties
<1>4. /\ q \in Seq(X)
      /\ Len(q) = IF m + d <= k + d THEN (k + d) - (m + d) + 1 ELSE 0
      /\ \A i \in 1..(k+d)-(m+d)+1 : q[i] = u[(m+d)+i-1]
  <2>1. m + d \in Int /\ k + d \in Int
    OBVIOUS
  <2> QED BY <1>2, <2>1, SubSeqProperties
<1> HIDE DEF p, q
<1>5. Len(p) = Len(q)
  BY <1>3, <1>4
<1>6. ASSUME NEW i \in 1..Len(p) PROVE p[i] = q[i]
  <2>1. i \in 1..k-m+1 /\ i \in 1..(k+d)-(m+d)+1 /\ m + i - 1 \in m..k
    BY <1>3
  <2>2. (m + i - 1) + d = (m + d) + i - 1
    BY <2>1
  <2> QED BY <1>3, <1>4, <2>1, <2>2
<1>7. p = q
  BY <1>3, <1>4, <1>5, <1>6, SeqEqual
<1> QED BY <1>7 DEF p, q
=============================================================================
