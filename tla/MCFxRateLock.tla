---------------------------- MODULE MCFxRateLock ----------------------------
(* Values of the constants of FxRateLock for TLC. *)
EXTENDS FxRateLock

T(s, b, p, f) == [sell |-> s, buy |-> b, price |-> p, fee |-> f]

\* With PRICE_SCALE = 2: two consistent quotes, one that breaks the price
\* relation, one that overflows i128, one with no amount.
MCTerms == {T(3, 2, 2, 1), T(3, 3, 2, 0), T(3, 2, 1, 1), T(7, 2, 7, 0),
            T(0, 1, 1, 0)}

\* The consistent ones alone.
MCGoodTerms == {T(3, 2, 2, 1), T(3, 3, 2, 0)}
=============================================================================
