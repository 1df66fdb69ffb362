----------------------------- MODULE PointSums -----------------------------
(***************************************************************************)
(* Sums of points or cents over a finite set, as the count of a set: each  *)
(* element x stands for f[x] of them.  Counting instead of folding keeps   *)
(* the facts about sums within reach of a proof without induction.         *)
(***************************************************************************)
EXTENDS Integers, FiniteSets

\* The points of one element, each told apart by its number.
PointsOf(x, n) == {x} \X (1 .. n)

\* The sum of f over S.
Sum(S, f) == Cardinality(UNION {PointsOf(x, f[x]) : x \in S})

=============================================================================
