------------------------------- MODULE Folding -------------------------------
(***************************************************************************)
(* What a loop over a sequence computes, as recursive functions over its   *)
(* positions.  The folds of the community modules take operators and       *)
(* recurse over sets; these take functions and can be reasoned about       *)
(* (module FoldingProofs).                                                 *)
(***************************************************************************)
EXTENDS Integers, Sequences

\* f gives for every element what it does to the value so far.
Fold(f, base, s) ==
    LET upTo[n \in 0 .. Len(s)] == IF n = 0 THEN base ELSE f[s[n]][upTo[n - 1]]
    IN upTo[Len(s)]

\* The sum of what the elements are worth.
Total(worth, s) == Fold([x \in DOMAIN worth |-> [n \in Nat |-> n + worth[x]]], 0, s)

\* The sequences over A that f gives for the elements, one after the other.
Gathered(f, s, A) == Fold([x \in DOMAIN f |-> [t \in Seq(A) |-> t \o f[x]]], <<>>, s)

\* The elements, which are in A, that are in S.
Kept(s, A, S) == Gathered([x \in A |-> IF x \in S THEN <<x>> ELSE <<>>], s, A)

\* One sequence over A of a sequence of them.
Joined(ss, A) == Gathered([s \in Seq(A) |-> s], ss, A)
=============================================================================
