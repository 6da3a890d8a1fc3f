--------------------------- MODULE FoldingProofs ----------------------------
(***************************************************************************)
(* What loops over sequences compute, for every sequence: the laws of the  *)
(* operators of module Folding.                                            *)
(*                                                                         *)
(* The induction theorems of the library take an operator as a parameter,  *)
(* which the provers cannot instantiate. Here a property is a set, of      *)
(* numbers or of sequences: a set of numbers that is not empty has a least *)
(* one, since < is well founded on them, so a set that holds 0 and the     *)
(* number after each of its numbers holds all numbers; and a set that      *)
(* holds the empty sequence and each of its sequences with one element     *)
(* more holds all sequences. A recursive function exists because the       *)
(* function of a sequence one element shorter can be extended.             *)
(***************************************************************************)
EXTENDS Integers, Sequences, SequencesExt, Folding, FiniteSetTheorems, SequenceTheorems,
        WellFoundedInduction, TLAPS

\* A set of numbers that is not empty has a least one.
LEMMA LeastNumber ==
    ASSUME NEW T \in SUBSET Nat, T # {}
    PROVE  \E n \in T : \A m \in T : n <= m
<1> DEFINE R == OpToRel(<, Nat)
<1>1. IsWellFoundedOn(R, Nat)
  BY NatLessThanWellFounded
<1>2. R = {ss \in Nat \X Nat : ss[1] < ss[2]}
  BY DEF OpToRel
<1> HIDE DEF R
<1>3. PICK n \in T : \A m \in T : <<m, n>> \notin R
  BY <1>1, WFMin
<1>4. ASSUME NEW m \in T PROVE n <= m
  <2>1. m \in Nat /\ n \in Nat
    OBVIOUS
  <2>2. m < n => <<m, n>> \in R
    BY <1>2, <2>1
  <2> QED
    BY <1>3, <2>1, <2>2
<1> QED
  BY <1>4

\* Induction over the natural numbers, for the set of those that have a property.
LEMMA Induction ==
    ASSUME NEW S, 0 \in S, \A n \in Nat : n \in S => n + 1 \in S
    PROVE  Nat \subseteq S
<1> SUFFICES ASSUME Nat \ S # {} PROVE FALSE
  OBVIOUS
<1>1. PICK n \in Nat \ S : \A m \in Nat \ S : n <= m
  BY LeastNumber
<1>2. n # 0 /\ n - 1 \in Nat /\ ~(n <= n - 1) /\ n - 1 + 1 = n
  BY <1>1
<1>3. n - 1 \in S
  BY <1>1, <1>2
<1> QED
  BY <1>1, <1>2, <1>3

\* Induction over finite sequences, from front to back.
LEMMA SeqInduction ==
    ASSUME NEW A, NEW S, <<>> \in S,
           \A s \in Seq(A), x \in A : s \in S => Append(s, x) \in S
    PROVE  Seq(A) \subseteq S
<1> DEFINE L == {n \in Nat : \A s \in Seq(A) : Len(s) = n => s \in S}
<1>1. 0 \in L
  <2>1. \A s \in Seq(A) : Len(s) = 0 => s = <<>>
    OBVIOUS
  <2> QED
    BY <2>1
<1>2. ASSUME NEW n \in Nat, n \in L PROVE n + 1 \in L
  <2> SUFFICES ASSUME NEW s \in Seq(A), Len(s) = n + 1 PROVE s \in S
    OBVIOUS
  <2> DEFINE f == SubSeq(s, 1, n)
  <2>1. f \in Seq(A) /\ Len(f) = n /\ s[n + 1] \in A /\ s = Append(f, s[n + 1])
    OBVIOUS
  <2> HIDE DEF f
  <2>2. f \in S
    BY <1>2, <2>1
  <2> QED
    BY <2>1, <2>2
<1> HIDE DEF L
<1>3. Nat \subseteq L
  BY <1>1, <1>2, Induction
<1> QED
  BY <1>3 DEF L

\* A function given by its first value and the step from each value to the next.
Unfolds(f, N, b, G) == f[0] = b /\ \A n \in 1 .. N : f[n] = G[n][f[n - 1]]

\* Such a function exists for any number of steps: the one for a step less is
\* extended by a value.
LEMMA RecursionExists ==
    ASSUME NEW D, NEW b \in D, NEW N \in Nat, NEW G \in [1 .. N -> [D -> D]]
    PROVE  \E f \in [0 .. N -> D] : Unfolds(f, N, b, G)
<1> DEFINE S == {n \in Nat : n <= N => \E f \in [0 .. n -> D] : Unfolds(f, n, b, G)}
<1>1. 0 \in S
  <2> DEFINE f == [i \in 0 .. 0 |-> b]
  <2>1. f \in [0 .. 0 -> D] /\ Unfolds(f, 0, b, G)
    BY DEF Unfolds
  <2> QED
    BY <2>1
<1>2. ASSUME NEW n \in Nat, n \in S PROVE n + 1 \in S
  <2> SUFFICES ASSUME n + 1 <= N PROVE \E f \in [0 .. n + 1 -> D] : Unfolds(f, n + 1, b, G)
    OBVIOUS
  <2>1. PICK f \in [0 .. n -> D] : Unfolds(f, n, b, G)
    BY <1>2
  <2> DEFINE h == [i \in 0 .. n + 1 |-> IF i <= n THEN f[i] ELSE G[n + 1][f[n]]]
  <2>2. G[n + 1] \in [D -> D] /\ f[n] \in D
    OBVIOUS
  <2>3. h \in [0 .. n + 1 -> D]
    BY <2>2
  <2>4. ASSUME NEW i \in 1 .. n + 1 PROVE h[i] = G[i][h[i - 1]]
    <3>1. CASE i <= n
      <4>1. h[i] = f[i] /\ h[i - 1] = f[i - 1] /\ i \in 1 .. n
        BY <3>1
      <4> QED
        BY <2>1, <4>1 DEF Unfolds
    <3>2. CASE i = n + 1
      BY <3>2
    <3> QED
      BY <3>1, <3>2
  <2>5. h[0] = b
    BY <2>1 DEF Unfolds
  <2> HIDE DEF h
  <2> QED
    BY <2>3, <2>4, <2>5 DEF Unfolds
<1> HIDE DEF S
<1>3. N \in S
  BY <1>1, <1>2, Induction
<1> QED
  BY <1>3 DEF S

----------------------------------------------------------------------------
(* What a loop computes.                                                  *)


\* A function defined by recursion over 0 .. N keeps to D when its steps do.
LEMMA RecursionTyped ==
    ASSUME NEW D, NEW N \in Nat, NEW f, f[0] \in D,
           \A n \in 1 .. N : f[n - 1] \in D => f[n] \in D
    PROVE  \A n \in 0 .. N : f[n] \in D
<1> DEFINE S == {n \in Nat : n <= N => f[n] \in D}
<1>1. 0 \in S
  OBVIOUS
<1>2. ASSUME NEW n \in Nat, n \in S PROVE n + 1 \in S
  <2> SUFFICES ASSUME n + 1 <= N PROVE f[n + 1] \in D
    OBVIOUS
  <2>1. f[n] \in D /\ n + 1 \in 1 .. N /\ n + 1 - 1 = n
    BY <1>2
  <2> QED
    BY <2>1
<1> HIDE DEF S
<1>3. Nat \subseteq S
  BY <1>1, <1>2, Induction
<1> QED
  BY <1>3 DEF S

\* The values that a loop goes through.
Computes(g, f, b, s) ==
    /\ g[0] = b /\ \A n \in 1 .. Len(s) : g[n] = f[s[n]][g[n - 1]]
    /\ Fold(f, b, s) = g[Len(s)]

\* Fold is the last value of a function that takes the steps of the loop.
LEMMA FoldSteps ==
    ASSUME NEW D, NEW A, NEW b \in D, NEW f \in [A -> [D -> D]], NEW s \in Seq(A)
    PROVE  \E g \in [0 .. Len(s) -> D] : Computes(g, f, b, s)
<1> DEFINE N == Len(s)
           Equation(g) == g = [n \in 0 .. N |-> IF n = 0 THEN b ELSE f[s[n]][g[n - 1]]]
           upTo == CHOOSE g : Equation(g)
           G == [n \in 1 .. N |-> f[s[n]]]
<1>1. N \in Nat /\ G \in [1 .. N -> [D -> D]]
  OBVIOUS
<1>2. \A n \in 1 .. N : s[n] \in A /\ n - 1 \in 0 .. N /\ n # 0 /\ n \in 0 .. N
  OBVIOUS
<1>3. \A n \in 1 .. N : \A d \in D : G[n][d] = f[s[n]][d]
  OBVIOUS
<1>4. Fold(f, b, s) = upTo[N]
  BY DEF Fold
<1> HIDE DEF G, N, upTo
<1>5. Equation(upTo)
  <2>1. PICK g \in [0 .. N -> D] : Unfolds(g, N, b, G)
    BY <1>1, RecursionExists
  <2>2. ASSUME NEW n \in 1 .. N PROVE g[n] = f[s[n]][g[n - 1]]
    BY <1>2, <1>3, <2>1 DEF Unfolds
  <2>3. Equation(g)
    BY <1>1, <2>1, <2>2 DEF Unfolds
  <2> HIDE DEF Equation
  <2> QED
    BY <2>3 DEF upTo
<1>6. DOMAIN upTo = 0 .. N /\ upTo[0] = b
  BY <1>1, <1>5
<1>7. ASSUME NEW n \in 1 .. N PROVE upTo[n] = f[s[n]][upTo[n - 1]]
  BY <1>2, <1>5
<1>8. \A n \in 0 .. N : upTo[n] \in D
  <2>1. \A n \in 1 .. N : upTo[n - 1] \in D => upTo[n] \in D
    BY <1>2, <1>7
  <2> HIDE DEF Equation
  <2> QED
    BY <1>1, <1>6, <2>1, RecursionTyped
<1>9. upTo \in [0 .. N -> D]
  BY <1>5, <1>8
<1> QED
  BY <1>4, <1>6, <1>7, <1>9 DEF N, Computes

\* What a loop computes: by the first elements, and then the last one.
LEMMA FoldAppend ==
    ASSUME NEW D, NEW A, NEW b \in D, NEW f \in [A -> [D -> D]]
    PROVE  /\ Fold(f, b, <<>>) = b
           /\ \A s \in Seq(A) : Fold(f, b, s) \in D
           /\ \A s \in Seq(A), a \in A : Fold(f, b, Append(s, a)) = f[a][Fold(f, b, s)]
<1>0. ASSUME NEW s \in Seq(A) PROVE \E g \in [0 .. Len(s) -> D] : Computes(g, f, b, s)
  BY FoldSteps
<1>1. Fold(f, b, <<>>) = b
  <2>1. <<>> \in Seq(A) /\ Len(<<>>) = 0
    OBVIOUS
  <2>2. PICK g \in [0 .. Len(<<>>) -> D] : Computes(g, f, b, <<>>)
    BY <1>0, <2>1
  <2> QED
    BY <2>1, <2>2 DEF Computes
<1>2. ASSUME NEW s \in Seq(A) PROVE Fold(f, b, s) \in D
  <2>1. Len(s) \in 0 .. Len(s)
    OBVIOUS
  <2> QED
    BY <1>0, <2>1 DEF Computes
<1>3. ASSUME NEW s \in Seq(A), NEW a \in A PROVE Fold(f, b, Append(s, a)) = f[a][Fold(f, b, s)]
  <2> DEFINE t == Append(s, a)
  <2>1. /\ t \in Seq(A) /\ Len(t) = Len(s) + 1 /\ t[Len(t)] = a /\ Len(s) \in Nat
        /\ \A n \in 1 .. Len(s) : t[n] = s[n]
    OBVIOUS
  <2> HIDE DEF t
  <2>2. PICK g \in [0 .. Len(s) -> D] : Computes(g, f, b, s)
    BY <1>0
  <2>3. PICK h \in [0 .. Len(t) -> D] : Computes(h, f, b, t)
    BY <1>0, <2>1
  <2> USE DEF Computes
  <2> DEFINE S == {n \in Nat : n <= Len(s) => g[n] = h[n]}
  <2>4. 0 \in S
    BY <2>2, <2>3
  <2>5. ASSUME NEW n \in Nat, n \in S PROVE n + 1 \in S
    <3> SUFFICES ASSUME n + 1 <= Len(s) PROVE g[n + 1] = h[n + 1]
      OBVIOUS
    <3>1. n + 1 \in 1 .. Len(s) /\ n + 1 \in 1 .. Len(t) /\ n + 1 - 1 = n /\ g[n] = h[n]
      BY <2>1, <2>5
    <3>2. g[n + 1] = f[s[n + 1]][g[n]]
      BY <2>2, <3>1
    <3>3. h[n + 1] = f[t[n + 1]][h[n]]
      BY <2>3, <3>1
    <3> QED
      BY <2>1, <3>1, <3>2, <3>3
  <2> HIDE DEF S
  <2>6. g[Len(s)] = h[Len(s)]
    <3>1. Len(s) \in S
      BY <2>1, <2>4, <2>5, Induction
    <3> QED
      BY <2>1, <3>1 DEF S
  <2>7. h[Len(t)] = f[a][h[Len(s)]]
    <3>1. Len(t) \in 1 .. Len(t) /\ Len(t) - 1 = Len(s)
      BY <2>1
    <3> QED
      BY <2>1, <2>3, <3>1
  <2> QED
    BY <2>2, <2>3, <2>6, <2>7 DEF t
<1> QED
  BY <1>1, <1>2, <1>3

----------------------------------------------------------------------------
(* Sequences and their elements.                                           *)

\* The elements of a sequence, and of one that grows.
LEMMA RangeFacts ==
    ASSUME NEW A
    PROVE  /\ Range(<<>>) = {} /\ <<>> \in Seq(A)
           /\ \A s \in Seq(A) : Range(s) \subseteq A
           /\ \A s \in Seq(A), a \in A : Range(Append(s, a)) = Range(s) \cup {a}
           /\ \A s, t \in Seq(A) : Range(s \o t) = Range(s) \cup Range(t)
           /\ \A a \in A : Range(<<a>>) = {a}
<1>1. Range(<<>>) = {} /\ <<>> \in Seq(A)
  BY DEF Range
<1>2. ASSUME NEW s \in Seq(A) PROVE Range(s) \subseteq A
  BY DEF Range
<1>3. ASSUME NEW s \in Seq(A), NEW a \in A PROVE Range(Append(s, a)) = Range(s) \cup {a}
  <2> DEFINE t == Append(s, a)
  <2>1. /\ DOMAIN t = 1 .. Len(s) + 1 /\ Len(s) \in Nat /\ DOMAIN s = 1 .. Len(s)
        /\ t[Len(s) + 1] = a /\ \A i \in 1 .. Len(s) : t[i] = s[i]
    OBVIOUS
  <2> HIDE DEF t
  <2>2. Range(t) = Range(s) \cup {a}
    BY <2>1 DEF Range
  <2> QED
    BY <2>2 DEF t
<1>4. ASSUME NEW s \in Seq(A), NEW t \in Seq(A) PROVE Range(s \o t) = Range(s) \cup Range(t)
  <2> DEFINE u == s \o t
  <2>1. /\ DOMAIN u = 1 .. Len(s) + Len(t) /\ Len(s) \in Nat /\ Len(t) \in Nat
        /\ DOMAIN s = 1 .. Len(s) /\ DOMAIN t = 1 .. Len(t)
        /\ \A i \in 1 .. Len(s) : u[i] = s[i]
        /\ \A i \in 1 .. Len(t) : u[Len(s) + i] = t[i]
    OBVIOUS
  <2> HIDE DEF u
  <2>2. Range(s) \subseteq Range(u) /\ Range(t) \subseteq Range(u)
    <3>1. ASSUME NEW i \in DOMAIN s PROVE s[i] \in Range(u)
      BY <2>1 DEF Range
    <3>2. ASSUME NEW i \in DOMAIN t PROVE t[i] \in Range(u)
      <4>1. Len(s) + i \in DOMAIN u /\ u[Len(s) + i] = t[i]
        BY <2>1
      <4> QED
        BY <4>1 DEF Range
    <3> QED
      BY <3>1, <3>2 DEF Range
  <2>3. ASSUME NEW i \in DOMAIN u PROVE u[i] \in Range(s) \cup Range(t)
    <3>1. CASE i <= Len(s)
      BY <2>1, <3>1 DEF Range
    <3>2. CASE ~(i <= Len(s))
      <4>1. i - Len(s) \in 1 .. Len(t) /\ Len(s) + (i - Len(s)) = i
        BY <2>1, <3>2
      <4> QED
        BY <2>1, <4>1 DEF Range
    <3> QED
      BY <3>1, <3>2
  <2>4. Range(u) = Range(s) \cup Range(t)
    BY <2>2, <2>3 DEF Range
  <2> QED
    BY <2>4 DEF u
<1>5. ASSUME NEW a \in A PROVE Range(<<a>>) = {a}
  <2>1. <<a>> = Append(<<>>, a)
    OBVIOUS
  <2> QED
    BY <1>1, <1>3, <2>1
<1> QED
  BY <1>1, <1>2, <1>3, <1>4, <1>5

----------------------------------------------------------------------------
(* The laws of the loops of module Folding.                                *)

\* A sum is that of the elements, in whatever parts it is taken.
Sums(w, X) ==
    /\ Total(w, <<>>) = 0
    /\ \A s \in Seq(X) : Total(w, s) \in Nat
    /\ \A s \in Seq(X), x \in X : Total(w, Append(s, x)) = Total(w, s) + w[x]
    /\ \A s, t \in Seq(X) : Total(w, s \o t) = Total(w, s) + Total(w, t)

\* The sum of what elements are worth, element by element and part by part.
LEMMA TotalFacts ==
    ASSUME NEW X, NEW w \in [X -> Nat]
    PROVE  Sums(w, X)
<1> DEFINE f == [x \in X |-> [n \in Nat |-> n + w[x]]]
           z == 0
           D == Nat
           H(s) == Total(w, s)
<1>1. f \in [X -> [D -> D]]
  OBVIOUS
<1>2. \A x \in X, n \in Nat : f[x][n] = n + w[x]
  OBVIOUS
<1>3. \A s : H(s) = Fold(f, z, s)
  BY DEF Total
<1>4. z \in D
  OBVIOUS
<1> HIDE DEF f, z, D, H
<1>5. /\ Fold(f, z, <<>>) = z
      /\ \A s \in Seq(X) : Fold(f, z, s) \in D
      /\ \A s \in Seq(X), a \in X : Fold(f, z, Append(s, a)) = f[a][Fold(f, z, s)]
  BY <1>1, <1>4, FoldAppend
<1>6. /\ H(<<>>) = 0
      /\ \A s \in Seq(X) : H(s) \in Nat
      /\ \A s \in Seq(X), x \in X : H(Append(s, x)) = H(s) + w[x]
  BY <1>2, <1>3, <1>5 DEF z, D
<1>7. ASSUME NEW s \in Seq(X) PROVE \A t \in Seq(X) : H(s \o t) = H(s) + H(t)
  <2> DEFINE S == {t \in Seq(X) : H(s \o t) = H(s) + H(t)}
  <2>1. <<>> \in S
    <3>1. s \o <<>> = s /\ <<>> \in Seq(X)
      OBVIOUS
    <3> QED
      BY <1>6, <3>1
  <2>2. ASSUME NEW t \in Seq(X), NEW x \in X, t \in S PROVE Append(t, x) \in S
    <3>1. s \o Append(t, x) = Append(s \o t, x) /\ s \o t \in Seq(X) /\ Append(t, x) \in Seq(X)
      OBVIOUS
    <3>2. H(s \o t) = H(s) + H(t)
      BY <2>2
    <3>3. w[x] \in Nat
      OBVIOUS
    <3>4. H(Append(s \o t, x)) = H(s \o t) + w[x] /\ H(Append(t, x)) = H(t) + w[x]
      BY <1>6, <3>1
    <3>5. H(s) \in Nat /\ H(t) \in Nat
      BY <1>6
    <3>6. H(s \o Append(t, x)) = H(s) + H(Append(t, x))
      BY <3>1, <3>2, <3>3, <3>4, <3>5
    <3> QED
      BY <3>1, <3>6
  <2> HIDE DEF S
  <2>3. Seq(X) \subseteq S
    BY <2>1, <2>2, SeqInduction
  <2> QED
    BY <2>3 DEF S
<1> QED
  BY <1>6, <1>7 DEF Sums, H

\* What is put together is that of the elements, in their order.
Gathers(f, X, A) ==
    /\ Gathered(f, <<>>, A) = <<>>
    /\ \A s \in Seq(X) : /\ Gathered(f, s, A) \in Seq(A)
                         /\ Range(Gathered(f, s, A)) = UNION {Range(f[x]) : x \in Range(s)}
    /\ \A s \in Seq(X), x \in X : Gathered(f, Append(s, x), A) = Gathered(f, s, A) \o f[x]
    /\ \A s, t \in Seq(X) : Gathered(f, s \o t, A) = Gathered(f, s, A) \o Gathered(f, t, A)

\* What f gives for the elements, one after the other, and its elements.
LEMMA GatheredFacts ==
    ASSUME NEW X, NEW A, NEW f \in [X -> Seq(A)]
    PROVE  Gathers(f, X, A)
<1> DEFINE g == [x \in X |-> [t \in Seq(A) |-> t \o f[x]]]
           D == Seq(A)
           z == <<>>
           H(s) == Gathered(f, s, A)
           U(T) == UNION {Range(f[x]) : x \in T}
<1>1. g \in [X -> [D -> D]]
  OBVIOUS
<1>2. \A x \in X, t \in Seq(A) : g[x][t] = t \o f[x]
  OBVIOUS
<1>3. \A s : H(s) = Fold(g, z, s)
  BY DEF Gathered
<1>4. z \in D
  OBVIOUS
<1> HIDE DEF g, z, D, H
<1>5. /\ Fold(g, z, <<>>) = z
      /\ \A s \in Seq(X) : Fold(g, z, s) \in D
      /\ \A s \in Seq(X), a \in X : Fold(g, z, Append(s, a)) = g[a][Fold(g, z, s)]
  BY <1>1, <1>4, FoldAppend
<1>6. /\ H(<<>>) = <<>>
      /\ \A s \in Seq(X) : H(s) \in Seq(A)
      /\ \A s \in Seq(X), x \in X : H(Append(s, x)) = H(s) \o f[x]
  BY <1>2, <1>3, <1>5 DEF z, D
<1>7. ASSUME NEW s \in Seq(X) PROVE \A t \in Seq(X) : H(s \o t) = H(s) \o H(t)
  <2> DEFINE S == {t \in Seq(X) : H(s \o t) = H(s) \o H(t)}
  <2>1. <<>> \in S
    <3>1. s \o <<>> = s /\ <<>> \in Seq(X)
      OBVIOUS
    <3>2. H(s) \o <<>> = H(s)
      BY <1>6
    <3> QED
      BY <1>6, <3>1, <3>2
  <2>2. ASSUME NEW t \in Seq(X), NEW x \in X, t \in S PROVE Append(t, x) \in S
    <3>1. s \o Append(t, x) = Append(s \o t, x) /\ s \o t \in Seq(X) /\ Append(t, x) \in Seq(X)
      OBVIOUS
    <3>2. H(s \o t) = H(s) \o H(t)
      BY <2>2
    <3>3. H(s) \in Seq(A) /\ H(t) \in Seq(A) /\ f[x] \in Seq(A)
      BY <1>6
    <3>4. (H(s) \o H(t)) \o f[x] = H(s) \o (H(t) \o f[x])
      BY <3>3
    <3> QED
      BY <1>6, <3>1, <3>2, <3>4
  <2> HIDE DEF S
  <2>3. Seq(X) \subseteq S
    BY <2>1, <2>2, SeqInduction
  <2> QED
    BY <2>3 DEF S
<1>8. \A s \in Seq(X) : Range(H(s)) = U(Range(s))
  <2> DEFINE S == {t \in Seq(X) : Range(H(t)) = U(Range(t))}
  <2>1. <<>> \in S
    <3>1. Range(<<>>) = {} /\ <<>> \in Seq(X)
      BY RangeFacts
    <3> QED
      BY <1>6, <3>1
  <2>2. ASSUME NEW t \in Seq(X), NEW x \in X, t \in S PROVE Append(t, x) \in S
    <3>1. H(t) \in Seq(A) /\ f[x] \in Seq(A) /\ H(Append(t, x)) = H(t) \o f[x]
      BY <1>6
    <3>2. Range(H(t) \o f[x]) = Range(H(t)) \cup Range(f[x])
      BY <3>1, RangeFacts
    <3>3. Range(Append(t, x)) = Range(t) \cup {x}
      BY RangeFacts
    <3>4. U(Range(t) \cup {x}) = U(Range(t)) \cup Range(f[x])
      OBVIOUS
    <3>5. Append(t, x) \in Seq(X) /\ Range(H(t)) = U(Range(t))
      BY <2>2
    <3> HIDE DEF U
    <3>6. Range(H(Append(t, x))) = U(Range(Append(t, x)))
      BY <3>1, <3>2, <3>3, <3>4, <3>5
    <3> QED
      BY <3>5, <3>6
  <2> HIDE DEF S
  <2>3. Seq(X) \subseteq S
    BY <2>1, <2>2, SeqInduction
  <2> QED
    BY <2>3 DEF S
<1> QED
  BY <1>6, <1>7, <1>8, Zenon DEF Gathers, H

Joins(A) ==
    /\ Joined(<<>>, A) = <<>>
    /\ \A ss \in Seq(Seq(A)) : /\ Joined(ss, A) \in Seq(A)
                               /\ Range(Joined(ss, A)) = UNION {Range(s) : s \in Range(ss)}
    /\ \A ss \in Seq(Seq(A)), s \in Seq(A) : Joined(Append(ss, s), A) = Joined(ss, A) \o s
    /\ \A ss, tt \in Seq(Seq(A)) : Joined(ss \o tt, A) = Joined(ss, A) \o Joined(tt, A)
    /\ \A s \in Seq(A) : Joined(<<s>>, A) = s

\* Sequences joined to one have the elements of all of them.
LEMMA JoinedFacts ==
    ASSUME NEW A
    PROVE  Joins(A)
<1> DEFINE X == Seq(A)
           f == [s \in X |-> s]
           H(ss) == Joined(ss, A)
<1>1. f \in [X -> X] /\ \A s \in X : f[s] = s
  OBVIOUS
<1>2. \A ss : H(ss) = Gathered(f, ss, A)
  BY DEF Joined
<1> HIDE DEF f
<1>3. f \in [X -> Seq(A)]
  BY <1>1
<1>4. Gathers(f, X, A)
  BY <1>3, GatheredFacts
<1> HIDE DEF X, H
<1>5. /\ H(<<>>) = <<>>
      /\ \A ss \in Seq(X) : H(ss) \in Seq(A)
      /\ \A ss \in Seq(X), s \in X : H(Append(ss, s)) = H(ss) \o f[s]
      /\ \A ss, tt \in Seq(X) : H(ss \o tt) = H(ss) \o H(tt)
      /\ \A ss \in Seq(X) : Range(H(ss)) = UNION {Range(f[s]) : s \in Range(ss)}
  BY <1>2, <1>4 DEF Gathers
<1>6. ASSUME NEW ss \in Seq(X) PROVE Range(H(ss)) = UNION {Range(s) : s \in Range(ss)}
  <2>1. \A s \in Range(ss) : f[s] = s
    BY <1>1, RangeFacts
  <2>2. {Range(f[s]) : s \in Range(ss)} = {Range(s) : s \in Range(ss)}
    BY <2>1
  <2> QED
    BY <1>5, <2>2
<1>7. ASSUME NEW s \in X PROVE H(<<s>>) = s
  <2>1. <<s>> = Append(<<>>, s) /\ <<>> \in Seq(X)
    OBVIOUS
  <2>2. H(Append(<<>>, s)) = <<>> \o s
    BY <1>1, <1>5, <2>1
  <2>3. <<>> \o s = s
    BY DEF X
  <2> QED
    BY <2>1, <2>2, <2>3
<1>8. \A ss \in Seq(X), s \in X : H(Append(ss, s)) = H(ss) \o s
  BY <1>1, <1>5
<1> QED
  BY <1>5, <1>6, <1>7, <1>8, Zenon DEF X, H, Joins

\* What is selected is what is in S, in its order.
Selects(A, S) ==
    /\ Kept(<<>>, A, S) = <<>>
    /\ \A s \in Seq(A) : /\ Kept(s, A, S) \in Seq(A)
                         /\ Range(Kept(s, A, S)) = Range(s) \cap S
    /\ \A s \in Seq(A), a \in A :
          Kept(Append(s, a), A, S) = IF a \in S THEN Append(Kept(s, A, S), a) ELSE Kept(s, A, S)
    /\ \A s, t \in Seq(A) : Kept(s \o t, A, S) = Kept(s, A, S) \o Kept(t, A, S)
    /\ \A s \in Seq(A) : /\ Range(s) \subseteq S => Kept(s, A, S) = s
                         /\ Range(s) \cap S = {} => Kept(s, A, S) = <<>>

\* A selection has the selected elements and no others.
LEMMA KeptFacts ==
    ASSUME NEW A, NEW S
    PROVE  Selects(A, S)
<1> DEFINE f == [a \in A |-> IF a \in S THEN <<a>> ELSE <<>>]
           H(s) == Kept(s, A, S)
<1>1. f \in [A -> Seq(A)] /\ \A a \in A : f[a] = IF a \in S THEN <<a>> ELSE <<>>
  OBVIOUS
<1>2. \A s : H(s) = Gathered(f, s, A)
  BY DEF Kept
<1> HIDE DEF f, H
<1>3. Gathers(f, A, A)
  BY <1>1, GatheredFacts
<1>4. /\ H(<<>>) = <<>>
      /\ \A s \in Seq(A) : H(s) \in Seq(A)
      /\ \A s \in Seq(A), a \in A : H(Append(s, a)) = H(s) \o f[a]
      /\ \A s, t \in Seq(A) : H(s \o t) = H(s) \o H(t)
      /\ \A s \in Seq(A) : Range(H(s)) = UNION {Range(f[a]) : a \in Range(s)}
  BY <1>2, <1>3 DEF Gathers
<1>5. ASSUME NEW s \in Seq(A), NEW a \in A
      PROVE  H(Append(s, a)) = IF a \in S THEN Append(H(s), a) ELSE H(s)
  <2>1. \A t \in Seq(A) : t \o <<>> = t /\ t \o <<a>> = Append(t, a)
    OBVIOUS
  <2> QED
    BY <1>1, <1>4, <2>1
<1>6. ASSUME NEW s \in Seq(A) PROVE Range(H(s)) = Range(s) \cap S
  <2>1. ASSUME NEW a \in Range(s) PROVE Range(f[a]) = {a} \cap S
    <3>1. a \in A /\ Range(<<a>>) = {a} /\ Range(<<>>) = {}
      BY RangeFacts
    <3> QED
      BY <1>1, <3>1
  <2>2. UNION {{a} \cap S : a \in Range(s)} = Range(s) \cap S
    OBVIOUS
  <2>3. {Range(f[a]) : a \in Range(s)} = {{a} \cap S : a \in Range(s)}
    BY <2>1
  <2> QED
    BY <1>4, <2>2, <2>3
<1> DEFINE P(s) == /\ Range(s) \subseteq S => H(s) = s
                   /\ Range(s) \cap S = {} => H(s) = <<>>
           T == {s \in Seq(A) : P(s)}
<1>7. <<>> \in T
  BY <1>4, RangeFacts
<1>8. ASSUME NEW t \in Seq(A), NEW a \in A, t \in T PROVE Append(t, a) \in T
  <2>1. Append(t, a) \in Seq(A) /\ Range(Append(t, a)) = Range(t) \cup {a}
    BY RangeFacts
  <2>2. P(t)
    BY <1>8
  <2>3. P(Append(t, a))
    <3>1. CASE a \in S
      BY <1>5, <2>1, <2>2, <3>1
    <3>2. CASE a \notin S
      BY <1>5, <2>1, <2>2, <3>2
    <3> QED
      BY <3>1, <3>2
  <2> HIDE DEF P
  <2> QED
    BY <2>1, <2>3
<1> HIDE DEF T, P
<1>9. Seq(A) \subseteq T
  BY <1>7, <1>8, SeqInduction
<1>10. \A s \in Seq(A) : P(s)
  BY <1>9 DEF T
<1> QED
  BY <1>4, <1>5, <1>6, <1>10, Zenon DEF Selects, H, P

\* Sets with the same elements of a sequence select the same of it.
LEMMA KeptSame ==
    ASSUME NEW A, NEW S, NEW T
    PROVE  \A s \in Seq(A) : Range(s) \cap S = Range(s) \cap T => Kept(s, A, S) = Kept(s, A, T)
<1> DEFINE P(s) == Range(s) \cap S = Range(s) \cap T => Kept(s, A, S) = Kept(s, A, T)
           U == {s \in Seq(A) : P(s)}
<1>0. Selects(A, S) /\ Selects(A, T)
  BY KeptFacts
<1>1. <<>> \in U
  BY <1>0 DEF Selects
<1>2. ASSUME NEW t \in Seq(A), NEW a \in A, t \in U PROVE Append(t, a) \in U
  <2>1. Append(t, a) \in Seq(A) /\ Range(Append(t, a)) = Range(t) \cup {a}
    BY RangeFacts
  <2>2. /\ Kept(Append(t, a), A, S) = IF a \in S THEN Append(Kept(t, A, S), a) ELSE Kept(t, A, S)
        /\ Kept(Append(t, a), A, T) = IF a \in T THEN Append(Kept(t, A, T), a) ELSE Kept(t, A, T)
    BY <1>0 DEF Selects
  <2>3. P(t)
    BY <1>2
  <2>4. P(Append(t, a))
    <3> SUFFICES ASSUME Range(Append(t, a)) \cap S = Range(Append(t, a)) \cap T
                 PROVE  Kept(Append(t, a), A, S) = Kept(Append(t, a), A, T)
      OBVIOUS
    <3>1. (a \in S <=> a \in T) /\ Range(t) \cap S = Range(t) \cap T
      BY <2>1
    <3> QED
      BY <2>2, <2>3, <3>1
  <2> HIDE DEF P
  <2> QED
    BY <2>1, <2>4
<1> HIDE DEF U, P
<1>3. Seq(A) \subseteq U
  BY <1>1, <1>2, SeqInduction
<1> QED
  BY <1>3 DEF U, P

\* A selection is no longer than what it is made from.
LEMMA KeptShorter ==
    ASSUME NEW A, NEW S
    PROVE  \A s \in Seq(A) : Len(Kept(s, A, S)) <= Len(s)
<1> DEFINE U == {s \in Seq(A) : Len(Kept(s, A, S)) <= Len(s)}
<1>0. Selects(A, S)
  BY KeptFacts
<1>1. <<>> \in U
  BY <1>0 DEF Selects
<1>2. ASSUME NEW t \in Seq(A), NEW a \in A, t \in U PROVE Append(t, a) \in U
  <2>1. /\ Kept(Append(t, a), A, S) = IF a \in S THEN Append(Kept(t, A, S), a) ELSE Kept(t, A, S)
        /\ Kept(t, A, S) \in Seq(A) /\ Append(t, a) \in Seq(A) /\ Len(Append(t, a)) = Len(t) + 1
    BY <1>0 DEF Selects
  <2>2. Len(Kept(t, A, S)) <= Len(t) /\ Len(t) \in Nat /\ Len(Kept(t, A, S)) \in Nat
    BY <1>2, <2>1
  <2>3. Len(Kept(Append(t, a), A, S)) <= Len(t) + 1
    BY <2>1, <2>2
  <2> QED
    BY <2>1, <2>3
<1> HIDE DEF U
<1>3. Seq(A) \subseteq U
  BY <1>1, <1>2, SeqInduction
<1> QED
  BY <1>3 DEF U

\* No element is in the sequence twice.
Distinct(s) == Len(s) = Cardinality(Range(s))

\* A sequence has as many places as elements, or more.
LEMMA RangeCounted ==
    ASSUME NEW A
    PROVE  \A s \in Seq(A) : /\ IsFiniteSet(Range(s)) /\ Cardinality(Range(s)) \in Nat
                             /\ Cardinality(Range(s)) <= Len(s)
<1> DEFINE P(s) == /\ IsFiniteSet(Range(s)) /\ Cardinality(Range(s)) \in Nat
                   /\ Cardinality(Range(s)) <= Len(s)
           U == {s \in Seq(A) : P(s)}
<1>1. <<>> \in U
  BY RangeFacts, FS_EmptySet
<1>2. ASSUME NEW t \in Seq(A), NEW a \in A, t \in U PROVE Append(t, a) \in U
  <2>1. /\ Append(t, a) \in Seq(A) /\ Range(Append(t, a)) = Range(t) \cup {a}
        /\ Len(Append(t, a)) = Len(t) + 1 /\ Len(t) \in Nat
    BY RangeFacts
  <2>2. P(t)
    BY <1>2
  <2>3. /\ IsFiniteSet(Range(t) \cup {a})
        /\ Cardinality(Range(t) \cup {a}) =
              IF a \in Range(t) THEN Cardinality(Range(t)) ELSE Cardinality(Range(t)) + 1
    BY <2>2, FS_AddElement
  <2>4. P(Append(t, a))
    BY <2>1, <2>2, <2>3
  <2> HIDE DEF P
  <2> QED
    BY <2>1, <2>4
<1> HIDE DEF U, P
<1>3. Seq(A) \subseteq U
  BY <1>1, <1>2, SeqInduction
<1> QED
  BY <1>3 DEF U, P

\* An element more leaves a sequence without repetition only if it is a new one.
LEMMA DistinctAppended ==
    ASSUME NEW A, NEW s \in Seq(A), NEW a \in A
    PROVE  Distinct(Append(s, a)) <=> Distinct(s) /\ a \notin Range(s)
<1>1. /\ Range(Append(s, a)) = Range(s) \cup {a}
      /\ Len(Append(s, a)) = Len(s) + 1 /\ Len(s) \in Nat
  BY RangeFacts
<1>2. /\ IsFiniteSet(Range(s)) /\ Cardinality(Range(s)) \in Nat
      /\ Cardinality(Range(s)) <= Len(s)
  BY RangeCounted
<1>3. Cardinality(Range(s) \cup {a}) =
         IF a \in Range(s) THEN Cardinality(Range(s)) ELSE Cardinality(Range(s)) + 1
  BY <1>2, FS_AddElement
<1> QED
  BY <1>1, <1>2, <1>3 DEF Distinct

\* Sequences without repetition that have nothing in common make one together.
LEMMA DistinctConcat ==
    ASSUME NEW A, NEW s \in Seq(A), NEW t \in Seq(A), Distinct(s), Distinct(t),
           Range(s) \cap Range(t) = {}
    PROVE  Distinct(s \o t)
<1>1. Range(s \o t) = Range(s) \cup Range(t) /\ Len(s \o t) = Len(s) + Len(t)
  BY RangeFacts
<1>2. IsFiniteSet(Range(s)) /\ IsFiniteSet(Range(t))
  BY RangeCounted
<1>3. Cardinality(Range(s) \cup Range(t)) = Cardinality(Range(s)) + Cardinality(Range(t)) - 0
  BY <1>2, FS_Union, FS_EmptySet
<1>4. Len(s) \in Nat /\ Len(t) \in Nat
  OBVIOUS
<1> QED
  BY <1>1, <1>3, <1>4 DEF Distinct

\* A selection repeats nothing that is not repeated.
LEMMA KeptDistinct ==
    ASSUME NEW A, NEW S
    PROVE  \A s \in Seq(A) : Distinct(s) => Distinct(Kept(s, A, S))
<1> DEFINE P(s) == Distinct(s) => Distinct(Kept(s, A, S))
           U == {s \in Seq(A) : P(s)}
<1>0. Selects(A, S)
  BY KeptFacts
<1>1. <<>> \in U
  <2>1. Kept(<<>>, A, S) = <<>> /\ <<>> \in Seq(A)
    BY <1>0 DEF Selects
  <2> QED
    BY <2>1
<1>2. ASSUME NEW t \in Seq(A), NEW a \in A, t \in U PROVE Append(t, a) \in U
  <2>1. /\ Kept(Append(t, a), A, S) = IF a \in S THEN Append(Kept(t, A, S), a) ELSE Kept(t, A, S)
        /\ Kept(t, A, S) \in Seq(A) /\ Append(t, a) \in Seq(A) /\ Range(Kept(t, A, S)) = Range(t) \cap S
    BY <1>0 DEF Selects
  <2>2. P(t)
    BY <1>2
  <2>3. P(Append(t, a))
    <3> SUFFICES ASSUME Distinct(Append(t, a)) PROVE Distinct(Kept(Append(t, a), A, S))
      OBVIOUS
    <3>1. Distinct(t) /\ a \notin Range(t)
      BY DistinctAppended
    <3>2. Distinct(Kept(t, A, S)) /\ a \notin Range(Kept(t, A, S))
      BY <2>1, <2>2, <3>1
    <3>3. Distinct(Append(Kept(t, A, S), a))
      BY <2>1, <3>2, DistinctAppended
    <3> QED
      BY <2>1, <3>2, <3>3
  <2> HIDE DEF P
  <2> QED
    BY <2>1, <2>3
<1> HIDE DEF U, P
<1>3. Seq(A) \subseteq U
  BY <1>1, <1>2, SeqInduction
<1> QED
  BY <1>3 DEF U, P

----------------------------------------------------------------------------
(* The ends of a sequence.                                                 *)


\* A sequence is its front and its last element, and replacing the last element
\* keeps the front.
LEMMA FrontLast ==
    ASSUME NEW A, NEW s \in Seq(A), s # <<>>
    PROVE  /\ Front(s) \in Seq(A) /\ Last(s) \in A /\ Last(s) \in Range(s) /\ s = Append(Front(s), Last(s))
           /\ \A a : [s EXCEPT ![Len(s)] = a] = Append(Front(s), a)
           /\ Len(Front(s)) = Len(s) - 1 /\ \A k \in 1 .. Len(s) - 1 : Front(s)[k] = s[k]
<1> DEFINE n == Len(s)
<1>1. n \in Nat /\ n >= 1 /\ DOMAIN s = 1 .. n /\ \A i \in 1 .. n : s[i] \in A
  OBVIOUS
<1>2. /\ Front(s) \in Seq(A) /\ Len(Front(s)) = n - 1
      /\ \A k \in 1 .. n - 1 : Front(s)[k] = s[k]
  BY <1>1 DEF Front
<1>3. Last(s) = s[n]
  BY DEF Last
<1>4. s = Append(Front(s), Last(s))
  BY <1>1 DEF Front, Last
<1>5. ASSUME NEW a PROVE [s EXCEPT ![n] = a] = Append(Front(s), a)
  BY <1>1 DEF Front
<1>6. Last(s) \in A /\ Last(s) \in Range(s)
  BY <1>1, <1>3 DEF Range
<1> QED
  BY <1>2, <1>4, <1>5, <1>6

\* The end of a sequence that has grown.
LEMMA LastAppended ==
    ASSUME NEW A, NEW s \in Seq(A)
    PROVE  /\ \A a \in A : /\ Last(Append(s, a)) = a /\ Front(Append(s, a)) = s
                           /\ Append(s, a) # <<>> /\ Append(s, a) \in Seq(A)
           /\ \A t \in Seq(A) : t # <<>> => Last(s \o t) = Last(t) /\ s \o t # <<>>
<1>1. ASSUME NEW a \in A
      PROVE  /\ Last(Append(s, a)) = a /\ Front(Append(s, a)) = s
             /\ Append(s, a) # <<>> /\ Append(s, a) \in Seq(A)
  BY DEF Last, Front
<1>2. ASSUME NEW t \in Seq(A), t # <<>> PROVE Last(s \o t) = Last(t) /\ s \o t # <<>>
  <2>1. Len(t) \in Nat /\ Len(t) >= 1 /\ Len(s \o t) = Len(s) + Len(t) /\ Len(s) \in Nat
    BY <1>2
  <2>2. (s \o t)[Len(s) + Len(t)] = t[Len(t)]
    BY <2>1
  <2> QED
    BY <2>1, <2>2 DEF Last
<1> QED
  BY <1>1, <1>2

\* The elements of two sequences in a row.
LEMMA ConcatFacts ==
    ASSUME NEW A, NEW s \in Seq(A), NEW t \in Seq(A)
    PROVE  /\ s \o t \in Seq(A) /\ Len(s \o t) = Len(s) + Len(t)
           /\ \A k \in 1 .. Len(s) + Len(t) : (s \o t)[k] = IF k <= Len(s) THEN s[k] ELSE t[k - Len(s)]
OBVIOUS

\* Appending is concatenation with a sequence of one.
LEMMA OneMore ==
    ASSUME NEW A, NEW s \in Seq(A), NEW a \in A
    PROVE  /\ s \o <<a>> = Append(s, a) /\ Range(s \o <<a>>) = Range(s) \cup {a}
           /\ \A t \in Seq(A) : t \o (s \o <<a>>) = (t \o s) \o <<a>>
<1>1. s \o <<a>> = Append(s, a)
  OBVIOUS
<1>2. Range(Append(s, a)) = Range(s) \cup {a}
  BY RangeFacts
<1>3. \A t \in Seq(A) : t \o (s \o <<a>>) = (t \o s) \o <<a>>
  OBVIOUS
<1> QED
  BY <1>1, <1>2, <1>3

\* A sequence is what is before a place and what is from there on.
LEMMA SplitAt ==
    ASSUME NEW A, NEW s \in Seq(A), NEW k \in 1 .. Len(s) + 1
    PROVE  /\ SubSeq(s, 1, k - 1) \in Seq(A) /\ SubSeq(s, k, Len(s)) \in Seq(A)
           /\ s = SubSeq(s, 1, k - 1) \o SubSeq(s, k, Len(s))
<1> DEFINE a == SubSeq(s, 1, k - 1)
           b == SubSeq(s, k, Len(s))
<1>1. /\ Len(s) \in Nat /\ a \in Seq(A) /\ Len(a) = k - 1 /\ \A i \in 1 .. k - 1 : a[i] = s[i]
      /\ b \in Seq(A) /\ Len(b) = Len(s) - k + 1 /\ \A i \in 1 .. Len(s) - k + 1 : b[i] = s[k - 1 + i]
  OBVIOUS
<1> HIDE DEF a, b
<1>2. a \o b \in Seq(A) /\ Len(a \o b) = Len(s)
  BY <1>1
<1>3. ASSUME NEW i \in 1 .. Len(s) PROVE (a \o b)[i] = s[i]
  <2>1. CASE i <= k - 1
    BY <1>1, <2>1
  <2>2. CASE ~(i <= k - 1)
    <3>1. i - (k - 1) \in 1 .. Len(b) /\ Len(a) + (i - (k - 1)) = i /\ k - 1 + (i - (k - 1)) = i
      BY <1>1, <2>2
    <3>2. (a \o b)[i] = b[i - (k - 1)]
      BY <1>1, <2>2, <3>1
    <3> QED
      BY <1>1, <3>1, <3>2
  <2> QED
    BY <2>1, <2>2
<1>4. a \o b = s
  <2> DEFINE u == a \o b
  <2>1. u \in Seq(A) /\ Len(u) = Len(s) /\ \A i \in 1 .. Len(s) : u[i] = s[i]
    BY <1>2, <1>3
  <2> HIDE DEF u
  <2>2. u = s
    BY <2>1
  <2> QED
    BY <2>2 DEF u
<1> QED
  BY <1>1, <1>4 DEF a, b

=============================================================================
