--------------------------- MODULE MCPartnerClient ---------------------------
(* Values of the constants of PartnerClient for TLC. *)
EXTENDS PartnerClient, TLC

\* This contract and a payout address hold tokens at the start; settling,
\* clawing back and minting reach the cases in which one or none does.
MCFunds == {[h \in Holders |-> IF h = Wrapper THEN 3 ELSE 2]}

MCSymmetry == Permutations(Partners) \cup Permutations(Accounts)
=============================================================================
