-------------------------- MODULE MCCardCollateral --------------------------
(* Values of the constants of CardCollateral for TLC. *)
EXTENDS CardCollateral, FiniteSetsExt

\* Amounts below, at and above what the contract accepts.
MCReserves == -1..3
MCFinals == {-1, 0, 1, 2, 4}

\* Counting units is summing, on every function and set of a small instance.
ASSUME UnitsAreSums ==
  \A f \in [1..3 -> -1..3], S \in SUBSET (1..3) :
    Total(f, S) = MapThenSumSet(LAMBDA x : IF f[x] > 0 THEN f[x] ELSE 0, S)
=============================================================================
