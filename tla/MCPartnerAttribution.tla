------------------------ MODULE MCPartnerAttribution ------------------------
(* Values of the constants of PartnerAttribution for TLC. *)
EXTENDS PartnerAttribution, TLC

\* Nobody, this contract, the other holders, or all hold tokens at the start.
MCFunded ==
  {[h \in Holders |-> IF h = Wrapper THEN n ELSE m] : n \in {0, 3}, m \in {0, 1}}

MCSymmetry == Permutations(Partners)
=============================================================================
