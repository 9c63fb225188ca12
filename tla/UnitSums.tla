------------------------------ MODULE UnitSums ------------------------------
(***************************************************************************)
(* Sums of natural numbers, in a form that can be reasoned about.  The     *)
(* folds of the community modules are recursive, so what MapThenSumSet is  *)
(* for every set cannot be proved; here a number n is the n units 1..n, a  *)
(* sum is how many units there are, and the facts about sums are facts     *)
(* about the sizes of sets (UnitSumsProofs).  MCCardCollateral compares    *)
(* the two forms.                                                          *)
(***************************************************************************)
EXTENDS Integers, FiniteSets

\* One pair <<x, k>> for each unit k of f[x], for every x of S.
Units(f, S) == UNION {{x} \X (1..f[x]) : x \in S}

\* The sum of f[x] over S.
Total(f, S) == Cardinality(Units(f, S))
=============================================================================
