----------------------------- MODULE MCFxClient -----------------------------
(* Values of the constants of FxClient for TLC. *)
EXTENDS FxClient, TLC

T(s, b, p, f) == [sell |-> s, buy |-> b, price |-> p, fee |-> f]

\* With PRICE_SCALE = 2: two quotes that satisfy the price relation.
MCTerms == {T(3, 2, 2, 1), T(3, 3, 2, 0)}

\* One role three accounts may be granted, and another, for one account, that
\* competes with it for the limit; either may be made its own admin role.
MCGrantees == "r" :> Accounts @@ "m" :> {CHOOSE a \in Accounts : TRUE}

MCSymmetry == {f \in Permutations(Accounts) :
                 \A r \in RoleNames : {f[a] : a \in MCGrantees[r]} = MCGrantees[r]}
=============================================================================
