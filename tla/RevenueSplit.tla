---------------------------- MODULE RevenueSplit ----------------------------
(***************************************************************************)
(* What settle_split promises, with no loop, no frame and no rollback: a   *)
(* settlement pays every listed partner its share in one step and answers  *)
(* the sum, or is refused for a reason and moves nothing.  The fees of the *)
(* registry never sum to more than 100%.                                   *)
(***************************************************************************)
EXTENDS Integers, Sequences, UnitSums

CONSTANTS Partners, Holders, Wrapper, NoPartner, MAX_BPS, I128_MAX,
          Amounts, Lists

VARIABLES
  registry,   \* partner -> fee and payout, or NoPartner
  funds,      \* holder -> balance
  blocked,    \* holders that can neither send nor receive
  outcome     \* what the last transaction answered, if it was a settlement

splitVars == <<registry, funds, blocked, outcome>>

NotASettlement == <<"none", 0>>

SplitInit ==
  /\ registry = [p \in Partners |-> NoPartner]
  /\ \A h \in Holders : funds[h] >= 0
  /\ blocked = {}
  /\ outcome = NotASettlement

SumOfFees ==
  Total([p \in Partners |-> IF registry[p] = NoPartner THEN 0
                            ELSE registry[p].bps], Partners)

\* One row of the registry changes and the fees stay within 100%.
Register ==
  /\ \E p \in Partners : \A r \in Partners \ {p} : registry'[r] = registry[r]
  /\ SumOfFees' <= MAX_BPS
  /\ outcome' = NotASettlement
  /\ UNCHANGED <<funds, blocked>>

\* The token's admin mints to or claws back from one holder, or blocks one.
TokenChange ==
  /\ \E h \in Holders : \A g \in Holders \ {h} :
       funds'[g] = funds[g] /\ (g \in blocked' <=> g \in blocked)
  /\ outcome' = NotASettlement
  /\ UNCHANGED registry

Fee(list, i) == registry[list[i]].bps
Share(amount, bps) == (amount * bps) \div MAX_BPS

\* The shares at the positions S of the list, each rounded down.
Payout(amount, list, S) ==
  Total([i \in DOMAIN list |-> Share(amount, Fee(list, i))], S)

Payable(list) ==
  /\ \A i \in DOMAIN list : registry[list[i]] # NoPartner
  /\ Total([i \in DOMAIN list |-> Fee(list, i)], DOMAIN list) <= MAX_BPS

Split(from, amount, list) ==
  LET all == DOMAIN list
      To(h) == {i \in all : registry[list[i]].payout = h}
  IN  /\ Payable(list)
      /\ outcome' = <<"paid", Payout(amount, list, all)>>
      /\ funds' = [h \in Holders |->
                     funds[h] + Payout(amount, list, To(h))
                       - (IF h = from THEN Payout(amount, list, all) ELSE 0)]
      /\ funds'[from] >= 0
      /\ UNCHANGED <<registry, blocked>>

\* Reasons for which a settlement that could be paid is refused.
Obstacle(from, amount, list) ==
  \/ from # Wrapper          \* the payer need not have signed
  \/ from \in blocked
  \/ funds[from] < Payout(amount, list, DOMAIN list)
  \/ \E i \in DOMAIN list :
       LET to == registry[list[i]].payout
       IN  \/ to \in blocked
           \/ amount * Fee(list, i) > I128_MAX
           \/ funds[to] + Payout(amount, list, DOMAIN list) > I128_MAX

Refuse(from, amount, list) ==
  /\ Payable(list) => Obstacle(from, amount, list)
  /\ outcome' = <<"refused", 0>>
  /\ UNCHANGED <<registry, funds, blocked>>

\* The answer is forgotten when another transaction begins.
Forget == outcome' = NotASettlement /\ UNCHANGED <<registry, funds, blocked>>

SplitNext ==
  \/ Register
  \/ TokenChange
  \/ Forget
  \/ \E from \in Holders, amount \in Amounts, list \in Lists :
       amount > 0 /\ (Split(from, amount, list) \/ Refuse(from, amount, list))

SplitSpec == SplitInit /\ [][SplitNext]_splitVars
=============================================================================
