------------------------ MODULE PartnerClientProofs -------------------------
(***************************************************************************)
(* Theorems of PartnerClient: what a simulated settlement shows bounds     *)
(* what the settlement that is sent pays, and the reasons for which it is  *)
(* refused.  Every step of the client is a step of the contract, forgets   *)
(* the last settlement or drops a simulated one, so the invariants of      *)
(* PartnerAttributionProofs carry over; what is added is an account of the *)
(* transaction the user holds.                                             *)
(***************************************************************************)
EXTENDS PartnerClient, PartnerAttributionProofs

\* The fees of the rows of a list, the shares of an amount at these fees, and
\* the positions whose rows pay one holder.
FeesOf(rows) == [i \in DOMAIN rows |-> rows[i].bps]
SharesAt(amount, rows) == [i \in DOMAIN rows |-> Share(amount, rows[i].bps)]
PaysTo(rows, h) == {i \in DOMAIN rows : rows[i].payout = h}

\* What the simulation of a settlement has established of the rows it saw: it
\* stayed within the limits, and showed the sums of their shares.
Shown(amount, list, rows, result, events) ==
  /\ rows \in [DOMAIN list -> Partner]
  /\ IsFiniteSet(Units(FeesOf(rows), DOMAIN list))
  /\ Total(FeesOf(rows), DOMAIN list) <= MAX_BPS
  /\ \A i \in DOMAIN list : amount * rows[i].bps <= I128_MAX
  /\ IsFiniteSet(Units(SharesAt(amount, rows), DOMAIN list))
  /\ result = <<Total(SharesAt(amount, rows), DOMAIN list)>>
  /\ result[1] \in I128
  /\ \A h \in Holders :
       /\ IsFiniteSet(Units(SharesAt(amount, rows), PaysTo(rows, h)))
       /\ Credited(events, h) = Total(SharesAt(amount, rows), PaysTo(rows, h))

\* The arguments a method was called with.
CallOK(c) ==
  /\ c.fn \in {"mint", "clawback", "set_admin", "set_authorized",
               "set_partner", "remove_partner", "settle_split"}
  /\ c.by \in Accounts
  /\ c.fn \in {"mint", "clawback"} => c.holder \in Holders /\ c.amount \in Amounts
  /\ c.fn = "set_authorized" => c.holder \in Holders /\ c.authorize \in BOOLEAN
  /\ c.fn = "set_admin" => c.new \in {Wrapper, Issuer}
  /\ c.fn = "set_partner" =>
       c.partner \in Partners /\ c.bps \in BpsArgs /\ c.payout \in Holders
  /\ c.fn = "remove_partner" => c.partner \in Partners
  /\ c.fn = "settle_split" =>
       c.amount \in Amounts /\ c.amount > 0 /\ c.list \in Lists

\* The transaction the user holds: what was called, what it showed, and the
\* settlement it is or has become, when it is simulated and when it is sent.
TxInv ==
  tx # NoTx =>
    /\ tx = [call |-> tx.call, phase |-> tx.phase, result |-> tx.result,
             rows |-> tx.rows, events |-> tx.events]
    /\ CallOK(tx.call)
    /\ tx.phase \in {"simulating", "assembled", "sent"}
    /\ tx.call.fn = "settle_split" /\ tx.phase # "simulating" =>
         Shown(tx.call.amount, tx.call.list, tx.rows, tx.result, tx.events)
    /\ tx.call.fn # "settle_split" =>
         tx.result = << >> /\ tx.phase = "assembled"
    /\ tx.phase # "assembled" /\ call # NoCall =>
         call.list = tx.call.list /\ call.amount = tx.call.amount
    /\ tx.phase = "simulating" => Paying

\* No product at the positions done leaves the i128.
ProductsFit ==
  NotRefused =>
    \A i \in Done : call.amount * FeeOf(call.list[i]) <= I128_MAX

\* The invariants of the contract.
ContractInv ==
  /\ TypeOK /\ FrameInv /\ LoopInv /\ EventsInv
  /\ TotalMatchesRegistry /\ DistinctInv /\ ProductsFit

\* The last settlement is no longer looked at, and nothing else happens.
Forgotten ==
  /\ ~Paying /\ call' = NoCall
  /\ UNCHANGED <<acVars, partners, totalBps, token>>

\* A simulation is over, and its effects are dropped.
Dropped ==
  /\ Paying /\ call' = NoCall /\ bal' = call.before
  /\ UNCHANGED <<acVars, partners, totalBps, frozen, sacAdmin>>

-----------------------------------------------------------------------------
(* The loop, simulated or sent.                                            *)

\* A list is a function of its positions, 1 to its length.
LEMMA ListDomain ==
  ASSUME NEW list \in Lists
  PROVE  /\ Len(list) \in Nat /\ DOMAIN list = 1..Len(list)
         /\ \A i \in DOMAIN list : list[i] \in Partners
<1>1. list \in Seq(Partners)
  BY ListType
<1> QED BY <1>1

\* The arguments of an open frame.
LEMMA FrameArguments ==
  ASSUME TypeOK, FrameInv, call # NoCall
  PROVE  /\ call.amount \in Nat /\ call.amount <= I128_MAX
         /\ call.list \in Lists
         /\ Len(call.list) \in Nat /\ DOMAIN call.list = 1..Len(call.list)
         /\ \A i \in DOMAIN call.list : call.list[i] \in Partners
<1>1. call.amount \in Amounts /\ call.amount > 0 /\ call.list \in Lists
  BY DEF FrameInv
<1>2. \A n \in Amounts : n > 0 => n \in Nat /\ n <= I128_MAX
  BY Constants DEF I128
<1> QED BY <1>1, <1>2, ListDomain

\* An iteration is reached with a product that fits.
LEMMA NextProducts ==
  ASSUME TypeOK, FrameInv, ProductsFit, [Next]_vars
  PROVE  ProductsFit'
<1>1. CASE call' = NoCall
  BY <1>1 DEF ProductsFit, NotRefused
<1>2. CASE \E caller \in Accounts, from \in Holders, signed \in BOOLEAN,
              amount \in Amounts, list \in Lists :
             SettleBegin(caller, from, signed, amount, list)
  <2>1. call'.next = 1
    BY <1>2, BeginFrame
  <2>2. Done' = {}
    BY <2>1 DEF Done
  <2> QED BY <2>2 DEF ProductsFit
<1>3. CASE PayPartner
  <2>1. /\ NotRefused /\ call'.next = call.next + 1 /\ partners' = partners
        /\ call'.amount = call.amount /\ call'.list = call.list
    BY <1>3, PayFrame DEF NotRefused
  <2>2. call.next \in Nat /\ call.next >= 1
    BY <1>3, ListedType, FrameType, PayFrame DEF PayPartner
  <2>3. Done' = Done \cup {call.next}
    BY <2>1, <2>2 DEF Done
  <2>4. ~(call.amount * partners[Listed].bps > I128_MAX)
    BY <1>3 DEF PayPartner, StepAnswer
  <2>5. FeeOf(call.list[call.next]) = partners[Listed].bps
    <3>1. StepAnswer = "Ok"
      BY <1>3 DEF PayPartner
    <3>2. partners[Listed] # NoPartner
      BY <3>1 DEF StepAnswer
    <3> QED BY <3>2 DEF Listed, FeeOf
  <2>6. call.amount * partners[Listed].bps <= I128_MAX
    <3>1. partners[Listed].bps \in Nat /\ call.amount \in Nat
      <4>1. AtPartner /\ StepAnswer = "Ok" /\ call # NoCall
        BY <1>3, PayFrame DEF PayPartner
      <4>2. partners[Listed].bps \in Nat
        BY <4>1, PayFacts
      <4> QED BY <4>1, <4>2, FrameArguments
    <3>2. call.amount * partners[Listed].bps \in Nat
      BY <3>1
    <3> QED BY <2>4, <3>2, Constants
  <2>7. \A i \in Done' : call.amount * FeeOf(call.list[i]) <= I128_MAX
    BY <2>1, <2>3, <2>5, <2>6 DEF ProductsFit
  <2>8. \A p : FeeOf(p)' = FeeOf(p)
    BY <2>1 DEF FeeOf
  <2> QED BY <2>1, <2>7, <2>8 DEF ProductsFit
<1>4. CASE Revert
  BY <1>4, RevertFrame, StepAnswers DEF ProductsFit, NotRefused, Revert
<1>5. CASE SettleReturn
  BY <1>5, ReturnFrame
  DEF ProductsFit, NotRefused, Done, FeeOf, SettleReturn
<1>6. CASE UNCHANGED vars
  BY <1>6 DEF vars, ProductsFit, NotRefused, Done, FeeOf
<1> QED BY <1>1, <1>2, <1>3, <1>4, <1>5, <1>6, StepsOfFrame

\* The rows of a list as they are.
RowsNow == [i \in DOMAIN call.list |-> partners[call.list[i]]]

\* A loop that has paid the whole list, simulated or sent, has paid the sum of
\* the shares of its rows, within the limits, and its events credit each
\* holder with the shares of the rows that pay it.
LEMMA WholeLoop ==
  ASSUME ContractInv, NotRefused, call.next = Len(call.list) + 1
  PROVE  Shown(call.amount, call.list, RowsNow, <<call.paid>>, call.events)
<1> DEFINE all == DOMAIN call.list
           n == Len(call.list)
           rows == RowsNow
<1>1. /\ TypeOK /\ FrameInv /\ LoopInv /\ EventsInv /\ ProductsFit
      /\ call # NoCall
  BY DEF ContractInv, NotRefused
<1>2. /\ call.amount \in Nat /\ call.amount <= I128_MAX
      /\ n \in Nat /\ all = 1..n
      /\ \A i \in all : call.list[i] \in Partners
  BY <1>1, FrameArguments
<1>3. Done = all
  BY <1>2 DEF Done
<1>4. \A i \in all : partners[call.list[i]] # NoPartner
  BY <1>1, <1>3 DEF LoopInv
<1>5. \A i \in all : /\ rows[i] = partners[call.list[i]]
                     /\ rows[i] \in Partner
                     /\ FeeOf(call.list[i]) = rows[i].bps
  <2>1. \A i \in all : rows[i] = partners[call.list[i]]
    BY DEF RowsNow
  <2>2. \A i \in all : partners[call.list[i]] \in Partner
    BY <1>1, <1>2, <1>4 DEF TypeOK
  <2> QED BY <1>4, <2>1, <2>2 DEF FeeOf
<1>6. DOMAIN rows = all /\ rows \in [all -> Partner]
  BY <1>5 DEF RowsNow
<1>7. FeesOf(rows) = ListFees /\ SharesAt(call.amount, rows) = Shares
  BY <1>5, <1>6 DEF FeesOf, ListFees, SharesAt, Shares
<1>8. \A h \in Holders : PaysTo(rows, h) = To(h)
  BY <1>3, <1>5, <1>6 DEF PaysTo, To
<1>9. /\ IsFiniteSet(Units(ListFees, all)) /\ call.bps = Total(ListFees, all)
      /\ IsFiniteSet(Units(Shares, all)) /\ call.paid = Total(Shares, all)
      /\ \A h \in Holders :
           /\ IsFiniteSet(Units(Shares, To(h)))
           /\ bal[h] = call.before[h] + Total(Shares, To(h))
                         - (IF h = call.from THEN call.paid ELSE 0)
  BY <1>1, <1>3 DEF LoopInv
<1>10. /\ call.bps \in Nat /\ call.bps <= MAX_BPS /\ call.paid \in Nat
       /\ call.paid * MAX_BPS <= call.amount * call.bps
       /\ call.before \in [Holders -> 0..I128_MAX]
  BY <1>1, FrameType DEF FrameInv
<1>11. call.paid \in I128
  <2>1. call.paid <= call.amount
    BY <1>2, <1>10, WithinAmount
  <2>2. \A x, y \in Nat : x <= y /\ y <= I128_MAX => x \in I128
    BY Constants DEF I128
  <2>3. call.paid \in Nat
    BY <1>10
  <2> QED BY <1>2, <2>1, <2>2, <2>3
<1>12. \A i \in all : call.amount * rows[i].bps <= I128_MAX
  BY <1>1, <1>3, <1>5 DEF ProductsFit
<1>13. ASSUME NEW h \in Holders
       PROVE  Credited(call.events, h) = Total(Shares, To(h))
  <2> DEFINE from == IF h = call.from THEN call.paid ELSE 0
  <2>1. Credited(call.events, h) = Total(EventFees, Credits(h))
    BY DEF Credited, EventFees, Credits
  <2>2. /\ IsFiniteSet(Units(EventFees, Credits(h)))
        /\ bal[h] = call.before[h] + Total(EventFees, Credits(h)) - from
    BY <1>1 DEF EventsInv
  <2>3. bal[h] = call.before[h] + Total(Shares, To(h)) - from
    BY <1>9
  <2>4. Total(EventFees, Credits(h)) \in Nat /\ Total(Shares, To(h)) \in Nat
    BY <1>9, <2>2, SumIsNat
  <2>5. call.before[h] \in Int /\ from \in Int
    BY <1>10, Constants
  <2> HIDE DEF from
  <2> QED BY <2>1, <2>2, <2>3, <2>4, <2>5
<1>14. <<call.paid>>[1] = call.paid
  OBVIOUS
<1> QED BY <1>6, <1>7, <1>8, <1>9, <1>10, <1>11, <1>12, <1>13, <1>14 DEF Shown

-----------------------------------------------------------------------------
(* Every step is one of the contract's, or drops its last settlement.      *)

\* A call is assembled with arguments of its types, and there is an admin to
\* authorize it.
LEMMA AssembledCall ==
  ASSUME TypeOK, NEW c \in Calls, OnlyAdmin(c.by) = "Ok",
         c.fn = "settle_split" => c.amount > 0
  PROVE  CallOK(c)
<1>1. c.by = admin
  BY DEF Calls, mint, clawback, set_admin, set_authorized, set_partner,
     remove_partner, settle_split
<1>2. c.by \in Accounts
  BY <1>1 DEF OnlyAdmin, TypeOK, ACTypeOK
<1> QED BY <1>2 DEF CallOK, Calls, mint, clawback, set_admin,
     set_authorized, set_partner, remove_partner, settle_split

\* What a call that is sent does is a step of the contract.
LEMMA EffectSteps ==
  ASSUME NEW c, CallOK(c), Effect(c)
  PROVE  Next
<1>1. CASE Passthrough(c)
  <2>1. TokenAdminOp
    BY <1>1 DEF Passthrough, CallOK, TokenAdminOp
  <2>2. WrapperCall(c.by) /\ c.by \in Accounts
    BY <1>1, <2>1 DEF Passthrough, WrapperCall, CallOK
  <2> QED BY <2>2 DEF Next
<1>2. CASE c.fn = "set_partner" /\ SetPartner(c.by, c.partner, c.bps, c.payout)
  BY <1>2 DEF CallOK, Next
<1>3. CASE c.fn = "remove_partner" /\ RemovePartner(c.by, c.partner)
  BY <1>3 DEF CallOK, Next
<1>4. CASE /\ c.fn = "settle_split"
           /\ SettleBegin(c.by, Wrapper, FALSE, c.amount, c.list)
  <2>1. /\ c.by \in Accounts /\ Wrapper \in Holders /\ FALSE \in BOOLEAN
        /\ c.amount \in Amounts /\ c.list \in Lists
    BY <1>4, Constants DEF CallOK
  <2> QED BY <1>4, <2>1 DEF Next
<1> QED BY <1>1, <1>2, <1>3, <1>4 DEF Effect

\* What the others do is a step of the contract, and no iteration of a
\* settlement.
LEMMA DirectSteps ==
  ASSUME Direct
  PROVE  Next /\ call' = NoCall
<1>1. CASE CloseLedger \/ AdminCall \/ IssuerCall
           \/ \E caller \in Accounts : WrapperCall(caller)
  BY <1>1 DEF Next, CloseLedger, AdminCall, IssuerCall, WrapperCall, Transaction
<1>2. CASE /\ Transaction /\ \E caller \in Accounts : RenounceAdmin(caller)
           /\ UNCHANGED <<partners, totalBps, token>>
  BY <1>2 DEF Next, AdminCall, AdminStep, Transaction
<1>3. CASE \E caller \in Accounts, p \in Partners :
             \/ RemovePartner(caller, p)
             \/ \E bps \in IF focus = "registry" THEN BpsArgs ELSE SplitBps,
                   payout \in Holders : SetPartner(caller, p, bps, payout)
  BY <1>3, ClientAssumption
  DEF Next, RemovePartner, SetPartner, Transaction
<1> QED BY <1>1, <1>2, <1>3 DEF Direct

\* The steps of the client, seen by the contract.
LEMMA ContractSteps ==
  ASSUME TypeOK, TxInv, [ClientNext]_allVars
  PROVE  [Next]_vars \/ Forgotten \/ Dropped
<1>1. CASE Assemble
  <2>1. CASE /\ call' = NoCall
             /\ UNCHANGED <<acVars, partners, totalBps, token>>
    BY <1>1, <2>1 DEF Assemble, Forgotten
  <2>2. ASSUME NEW c \in Calls, c.fn = "settle_split",
               SettleBegin(c.by, Wrapper, FALSE, c.amount, c.list)
        PROVE  Next
    <3>1. CallOK(c)
      BY <2>2, AssembledCall DEF SettleBegin
    <3> QED BY <2>2, <3>1, EffectSteps DEF Effect
  <2> QED BY <1>1, <2>1, <2>2 DEF Assemble
<1>2. CASE SimulationEnds
  BY <1>2 DEF SimulationEnds, Dropped
<1>3. CASE Send
  <2>1. CallOK(tx.call) /\ Effect(tx.call)
    BY <1>3 DEF Send, TxInv
  <2> QED BY <2>1, EffectSteps
<1>4. CASE Direct
  BY <1>4, DirectSteps
<1>5. CASE Settling
  BY <1>5 DEF Settling, Next
<1>6. CASE Refused \/ UNCHANGED allVars
  BY <1>6 DEF Refused, allVars
<1> QED BY <1>1, <1>2, <1>3, <1>4, <1>5, <1>6 DEF ClientNext

\* The invariants of the contract hold under the client too.
LEMMA ContractKept ==
  ASSUME ContractInv, TxInv, [ClientNext]_allVars
  PROVE  ContractInv'
<1> USE DEF ContractInv
<1>1. CASE [Next]_vars
  BY <1>1, NextSafe, NextLoop, NextEvents, NextTotal, NextDistinct, NextProducts
<1>2. CASE Forgotten \/ Dropped
  <2>1. call' = NoCall /\ partners' = partners /\ totalBps' = totalBps
    BY <1>2 DEF Forgotten, Dropped
  <2>2. TypeOK'
    <3>1. CASE Forgotten
      BY <3>1 DEF Forgotten, TypeOK, ACTypeOK, acVars, token
    <3>2. CASE Dropped
      <4>1. call.before \in [Holders -> 0..I128_MAX]
        BY <3>2, FrameType DEF Dropped, Paying
      <4> QED BY <3>2, <4>1 DEF Dropped, TypeOK, ACTypeOK, acVars
    <3> QED BY <1>2, <3>1, <3>2
  <2>3. FrameInv' /\ LoopInv' /\ EventsInv' /\ DistinctInv' /\ ProductsFit'
    BY <2>1 DEF FrameInv, LoopInv, EventsInv, DistinctInv, ProductsFit,
       NotRefused, RefusedOnlyIfRepeated
  <2>4. TotalMatchesRegistry'
    BY <2>1, SameRegistry
  <2> QED BY <2>2, <2>3, <2>4
<1> QED BY <1>1, <1>2, ContractSteps

-----------------------------------------------------------------------------
(* The transaction the user holds.                                         *)

\* An assembled call has the arguments it was made with; a settlement is
\* being simulated with them.
LEMMA AssembleTx ==
  ASSUME TypeOK, Assemble
  PROVE  TxInv'
<1>1. PICK c \in Calls :
        \/ /\ c.fn # "settle_split" /\ Accepts(c)
           /\ tx' = Transacted(c, "assembled") /\ call' = NoCall
        \/ /\ c.fn = "settle_split"
           /\ SettleBegin(c.by, Wrapper, FALSE, c.amount, c.list)
           /\ tx' = Transacted(c, "simulating")
  BY DEF Assemble
<1>2. CASE /\ c.fn # "settle_split" /\ Accepts(c)
           /\ tx' = Transacted(c, "assembled") /\ call' = NoCall
  <2>1. CallOK(c)
    BY <1>2, AssembledCall DEF Accepts
  <2>2. /\ tx'.call = c /\ tx'.phase = "assembled" /\ tx'.result = << >>
        /\ tx' = [call |-> tx'.call, phase |-> tx'.phase, result |-> tx'.result,
                  rows |-> tx'.rows, events |-> tx'.events]
    BY <1>2 DEF Transacted
  <2> QED BY <1>2, <2>1, <2>2 DEF TxInv, CallOK
<1>3. CASE /\ c.fn = "settle_split"
           /\ SettleBegin(c.by, Wrapper, FALSE, c.amount, c.list)
           /\ tx' = Transacted(c, "simulating")
  <2>1. CallOK(c)
    BY <1>3, AssembledCall DEF SettleBegin
  <2>2. /\ tx'.call = c /\ tx'.phase = "simulating"
        /\ tx' = [call |-> tx'.call, phase |-> tx'.phase, result |-> tx'.result,
                  rows |-> tx'.rows, events |-> tx'.events]
    BY <1>3 DEF Transacted
  <2>3. /\ call' # NoCall /\ call'.status = "paying"
        /\ call'.list = c.list /\ call'.amount = c.amount
    <3>1. /\ c.by \in Accounts /\ Wrapper \in Holders /\ FALSE \in BOOLEAN
          /\ c.amount \in Amounts /\ c.list \in Lists
      BY <1>3, <2>1, Constants DEF CallOK
    <3>2. \A caller \in Accounts, from \in Holders, signed \in BOOLEAN,
             amount \in Amounts, list \in Lists :
            SettleBegin(caller, from, signed, amount, list) =>
              /\ call' # NoCall /\ call'.status = "paying"
              /\ call'.list = list /\ call'.amount = amount
      BY BeginFrame
    <3> QED BY <1>3, <3>1, <3>2
  <2> QED BY <1>3, <2>1, <2>2, <2>3 DEF TxInv, CallOK, Paying
<1> QED BY <1>1, <1>2, <1>3

\* The end of a simulation shows what the loop has established.
LEMMA SimulatedTx ==
  ASSUME ContractInv, TxInv, SimulationEnds
  PROVE  TxInv'
<1>1. tx # NoTx /\ tx.phase = "simulating" /\ call # NoCall /\ NotRefused
  BY DEF SimulationEnds, Simulating, Paying, NotRefused
<1>2. CASE tx' = NoTx
  BY <1>2 DEF TxInv
<1>3. CASE /\ call.next > Len(call.list)
           /\ tx' = [tx EXCEPT
                       !.phase = "assembled", !.result = <<call.paid>>,
                       !.rows = [i \in DOMAIN call.list |-> partners[call.list[i]]],
                       !.events = call.events]
  <2>1. call.next = Len(call.list) + 1
    BY <1>1, <1>3, FrameType DEF ContractInv, FrameInv
  <2>2. Shown(call.amount, call.list, RowsNow, <<call.paid>>, call.events)
    BY <1>1, <2>1, WholeLoop
  <2>3. /\ tx.call.fn = "settle_split" /\ CallOK(tx.call)
        /\ call.list = tx.call.list /\ call.amount = tx.call.amount
        /\ tx = [call |-> tx.call, phase |-> tx.phase, result |-> tx.result,
                 rows |-> tx.rows, events |-> tx.events]
    BY <1>1 DEF TxInv
  <2>4. tx' = [call |-> tx.call, phase |-> "assembled", result |-> <<call.paid>>,
               rows |-> RowsNow, events |-> call.events]
    BY <1>3, <2>3 DEF RowsNow
  <2>5. /\ tx'.call = tx.call /\ tx'.phase = "assembled" /\ tx'.rows = RowsNow
        /\ tx'.result = <<call.paid>> /\ tx'.events = call.events
    BY <2>4
  <2>6. Shown(tx.call.amount, tx.call.list, tx'.rows, tx'.result, tx'.events)
    BY <2>2, <2>3, <2>5
  <2> QED BY <2>3, <2>4, <2>5, <2>6 DEF TxInv, CallOK, Shown
<1> QED BY <1>2, <1>3 DEF SimulationEnds

\* A settlement that is sent is the one that was shown.
LEMMA SendTx ==
  ASSUME TypeOK, TxInv, Send
  PROVE  TxInv'
<1>1. CASE tx.call.fn # "settle_split"
  BY <1>1 DEF Send, TxInv
<1>2. CASE tx.call.fn = "settle_split"
  <2> DEFINE c == tx.call
  <2>1. tx # NoTx /\ tx.phase = "assembled" /\ CallOK(c)
    BY DEF Send, TxInv
  <2>2. tx' = [tx EXCEPT !.phase = "sent"]
    BY <1>2 DEF Send
  <2>3. /\ tx'.call = tx.call /\ tx'.result = tx.result /\ tx'.rows = tx.rows
        /\ tx'.events = tx.events /\ tx'.phase = "sent"
        /\ tx' = [call |-> tx'.call, phase |-> tx'.phase, result |-> tx'.result,
                  rows |-> tx'.rows, events |-> tx'.events]
    BY <2>1, <2>2 DEF TxInv
  <2>4. SettleBegin(c.by, Wrapper, FALSE, c.amount, c.list)
    BY <1>2 DEF Send, Effect, Passthrough
  <2>5. call'.list = c.list /\ call'.amount = c.amount
    BY <2>4 DEF SettleBegin
  <2>6. Shown(c.amount, c.list, tx.rows, tx.result, tx.events)
    BY <1>2, <2>1 DEF TxInv
  <2> QED BY <1>2, <2>1, <2>3, <2>5, <2>6 DEF TxInv, CallOK, Shown
<1> QED BY <1>1, <1>2

\* The loop leaves the list and the amount of its frame alone.
LEMMA LoopKeepsCall ==
  ASSUME TypeOK, FrameInv, PayPartner \/ Revert \/ SettleReturn
  PROVE  /\ call # NoCall /\ call.status = "paying"
         /\ call'.list = call.list /\ call'.amount = call.amount
         /\ partners' = partners
<1>1. CASE PayPartner
  BY <1>1, PayFrame
<1>2. CASE Revert
  BY <1>2, RevertFrame
<1>3. CASE SettleReturn
  BY <1>3, ReturnFrame
<1> QED BY <1>1, <1>2, <1>3

\* Every step keeps the account of the transaction.
LEMMA NextTx ==
  ASSUME ContractInv, TxInv, [ClientNext]_allVars
  PROVE  TxInv'
<1>0. TypeOK /\ FrameInv
  BY DEF ContractInv
<1>1. CASE Assemble
  BY <1>0, <1>1, AssembleTx
<1>2. CASE SimulationEnds
  BY <1>2, SimulatedTx
<1>3. CASE Send
  BY <1>0, <1>3, SendTx
<1>4. CASE Refused
  BY <1>4 DEF Refused, TxInv
<1>5. CASE Direct
  <2>1. ~Paying
    BY <1>5 DEF Direct, CloseLedger, AdminCall, RemovePartner, SetPartner,
       IssuerCall, WrapperCall, Transaction
  <2>2. \/ tx' = NoTx
        \/ tx' = tx /\ call' = NoCall /\ (tx # NoTx => tx.phase = "assembled")
    BY <1>5, <2>1, DirectSteps DEF Direct, TxInv
  <2> QED BY <2>2 DEF TxInv, CallOK, Shown
<1>6. CASE Settling
  <2>1. /\ tx' = tx /\ call # NoCall
        /\ call'.list = call.list /\ call'.amount = call.amount
    BY <1>0, <1>6, LoopKeepsCall DEF Settling, clientVars
  <2>2. Simulating => Paying'
    <3>1. CASE PayPartner
      BY <1>0, <3>1, PayFrame DEF Paying
    <3> QED BY <1>6, <3>1 DEF Settling
  <2> QED BY <2>1, <2>2 DEF TxInv, CallOK, Shown, Simulating
<1>7. CASE UNCHANGED allVars
  BY <1>7 DEF allVars, vars, clientVars, TxInv, CallOK, Shown, Paying
<1> QED BY <1>1, <1>2, <1>3, <1>4, <1>5, <1>6, <1>7 DEF ClientNext

-----------------------------------------------------------------------------
(* A settlement that was simulated, and is sent.                           *)

\* The simulation of the settlement that is being paid, or was, in terms of
\* its frame: as many rows as positions, each with a fee within 100%.
LEMMA SentIsShown ==
  ASSUME TypeOK, FrameInv, TxInv, Sent
  PROVE  /\ call # NoCall
         /\ call.amount \in Nat /\ call.amount <= I128_MAX
         /\ Shown(call.amount, call.list, tx.rows, tx.result, tx.events)
         /\ Len(call.list) \in Nat /\ DOMAIN call.list = 1..Len(call.list)
         /\ DOMAIN tx.rows = DOMAIN call.list
         /\ \A i \in DOMAIN call.list :
              /\ call.list[i] \in Partners
              /\ tx.rows[i] \in Partner /\ tx.rows[i].bps \in Nat
              /\ FeeOf(call.list[i]) \in Nat
              /\ ListFees[i] = FeeOf(call.list[i])
<1>1. /\ call # NoCall
      /\ Shown(call.amount, call.list, tx.rows, tx.result, tx.events)
  <2>1. /\ tx # NoTx /\ tx.phase = "sent" /\ call # NoCall
        /\ call.list = tx.call.list /\ call.amount = tx.call.amount
    BY DEF Sent, TxInv
  <2> QED BY <2>1 DEF TxInv
<1>2. /\ call.amount \in Nat /\ call.amount <= I128_MAX
      /\ Len(call.list) \in Nat /\ DOMAIN call.list = 1..Len(call.list)
      /\ \A i \in DOMAIN call.list : call.list[i] \in Partners
  BY <1>1, FrameArguments
<1>3. tx.rows \in [DOMAIN call.list -> Partner]
  BY <1>1 DEF Shown
<1>4. \A i \in DOMAIN call.list :
        tx.rows[i] \in Partner /\ FeeOf(call.list[i]) \in 0..MAX_BPS
  BY <1>2, <1>3, RowType
<1>5. /\ \A m \in 0..MAX_BPS : m \in Nat
      /\ \A r \in Partner : r.bps \in Nat
  BY Constants DEF Partner
<1>6. \A i \in DOMAIN call.list : ListFees[i] = FeeOf(call.list[i])
  BY DEF ListFees
<1> QED BY <1>1, <1>2, <1>3, <1>4, <1>5, <1>6

\* A larger fee has a share that is not smaller.
LEMMA ShareGrows ==
  ASSUME NEW amount \in Nat, NEW m \in Nat, NEW n \in Nat, m <= n
  PROVE  Share(amount, m) <= Share(amount, n)
<1>1. \A k, l \in Nat, d \in Nat : d > 0 /\ k <= l => k \div d <= l \div d
  OBVIOUS
<1>2. amount * m \in Nat /\ amount * n \in Nat /\ amount * m <= amount * n
  OBVIOUS
<1> QED BY <1>1, <1>2, Constants DEF Share

\* If no row of a list pays h more than the row it replaces, the shares that
\* go to h are not more.
LEMMA CreditsShrink ==
  ASSUME NEW amount \in Nat, NEW D, NEW q \in [D -> Partner],
         NEW r \in [D -> Partner], NEW h,
         IsFiniteSet(Units(SharesAt(amount, q), PaysTo(q, h))),
         \A i \in D : ~Raises(r[i], q[i], h)
  PROVE  Total(SharesAt(amount, r), PaysTo(r, h))
           <= Total(SharesAt(amount, q), PaysTo(q, h))
<1>1. \A i \in D : r[i].bps \in Nat /\ q[i].bps \in Nat
  BY Constants DEF Partner
<1>2. \A i \in PaysTo(r, h) :
        i \in D /\ i \in PaysTo(q, h) /\ r[i].bps <= q[i].bps
  BY <1>1 DEF PaysTo, Raises
<1>3. \A i \in PaysTo(r, h) :
        /\ SharesAt(amount, r)[i] = Share(amount, r[i].bps)
        /\ SharesAt(amount, q)[i] = Share(amount, q[i].bps)
        /\ Share(amount, r[i].bps) <= Share(amount, q[i].bps)
        /\ Share(amount, r[i].bps) \in Int /\ Share(amount, q[i].bps) \in Int
  <2>1. \A m, n \in Nat : m <= n => Share(amount, m) <= Share(amount, n)
    BY ShareGrows
  <2>2. \A m \in Nat : Share(amount, m) \in Int
    BY ShareBound
  <2> QED BY <1>1, <1>2, <2>1, <2>2 DEF SharesAt
<1> DEFINE f == SharesAt(amount, r)
           g == SharesAt(amount, q)
           S == PaysTo(q, h)
           T == PaysTo(r, h)
<1>4. /\ T \subseteq S
      /\ \A i \in T : f[i] \in Int /\ g[i] \in Int /\ f[i] <= g[i]
  BY <1>2, <1>3
<1> HIDE DEF f, g, S, T
<1>5. IsFiniteSet(Units(g, S)) => Total(f, T) <= Total(g, S)
  BY <1>4, SmallerSum
<1> QED BY <1>5 DEF f, g, S, T

\* The same of all the shares, if no fee is higher.
LEMMA PayoutShrinks ==
  ASSUME NEW amount \in Nat, NEW D, NEW q \in [D -> Partner],
         NEW r \in [D -> Partner],
         IsFiniteSet(Units(SharesAt(amount, q), D)),
         \A i \in D : ~(r[i].bps > q[i].bps)
  PROVE  Total(SharesAt(amount, r), D) <= Total(SharesAt(amount, q), D)
<1>1. \A i \in D : r[i].bps \in Nat /\ q[i].bps \in Nat
  BY Constants DEF Partner
<1>2. \A i \in D :
        /\ SharesAt(amount, r)[i] = Share(amount, r[i].bps)
        /\ SharesAt(amount, q)[i] = Share(amount, q[i].bps)
        /\ Share(amount, r[i].bps) <= Share(amount, q[i].bps)
        /\ Share(amount, r[i].bps) \in Int /\ Share(amount, q[i].bps) \in Int
  <2>1. \A m, n \in Nat : m <= n => Share(amount, m) <= Share(amount, n)
    BY ShareGrows
  <2>2. \A m \in Nat : Share(amount, m) \in Int
    BY ShareBound
  <2>3. \A i \in D : r[i].bps <= q[i].bps
    BY <1>1
  <2>4. DOMAIN r = D /\ DOMAIN q = D
    OBVIOUS
  <2> QED BY <1>1, <2>1, <2>2, <2>3, <2>4 DEF SharesAt
<1> DEFINE f == SharesAt(amount, r)
           g == SharesAt(amount, q)
<1>3. \A i \in D : f[i] \in Int /\ g[i] \in Int /\ f[i] <= g[i]
  BY <1>2
<1> HIDE DEF f, g
<1>4. IsFiniteSet(Units(g, D)) => Total(f, D) <= Total(g, D)
  BY <1>3, SmallerSum
<1> QED BY <1>4 DEF f, g

\* What a settlement paid and what its simulation showed are the same sums
\* over the rows as they are and as they were: a difference has its reason in
\* a row.
LEMMA ShownIsPaid ==
  ASSUME ContractInv, TxInv
  PROVE  ShownSplitHolds
<1> SUFFICES ASSUME Sent, call.status = "Ok"
             PROVE  ShownSplitHolds
  BY DEF ShownSplitHolds
<1> DEFINE D == DOMAIN call.list
           n == call.amount
           r == RowsNow
           q == tx.rows
<1>1. TypeOK /\ FrameInv /\ LoopInv
  BY DEF ContractInv
<1>2. /\ n \in Nat /\ Shown(n, call.list, q, tx.result, tx.events)
      /\ call # NoCall /\ NotRefused
  BY <1>1, SentIsShown DEF NotRefused
<1>3. Shown(n, call.list, r, <<call.paid>>, call.events)
  BY <1>1, <1>2, WholeLoop DEF LoopInv
<1>4. /\ q \in [D -> Partner] /\ r \in [D -> Partner]
      /\ IsFiniteSet(Units(SharesAt(n, q), D))
      /\ IsFiniteSet(Units(SharesAt(n, r), D))
      /\ tx.result[1] = Total(SharesAt(n, q), D)
      /\ call.paid = Total(SharesAt(n, r), D)
  BY <1>2, <1>3 DEF Shown
<1>5. \A i \in D : r[i] = partners[call.list[i]]
  BY DEF RowsNow
<1>6. Total(SharesAt(n, q), D) \in Nat /\ Total(SharesAt(n, r), D) \in Nat
  BY <1>4, SumIsNat
<1>7. ASSUME call.paid > tx.result[1]
      PROVE  \E i \in D : partners[call.list[i]].bps > q[i].bps
  <2> SUFFICES ASSUME \A i \in D : ~(r[i].bps > q[i].bps) PROVE FALSE
    BY <1>5
  <2> HIDE DEF D, n, r, q
  <2>1. Total(SharesAt(n, r), D) <= Total(SharesAt(n, q), D)
    BY <1>2, <1>4, PayoutShrinks
  <2> QED BY <1>4, <1>6, <1>7, <2>1
<1>8. ASSUME call.paid < tx.result[1]
      PROVE  \E i \in D : partners[call.list[i]].bps < q[i].bps
  <2>1. \A i \in D : r[i].bps \in Nat /\ q[i].bps \in Nat
    BY <1>4, Constants DEF Partner
  <2> SUFFICES ASSUME \A i \in D : ~(q[i].bps > r[i].bps) PROVE FALSE
    BY <1>5, <2>1
  <2> HIDE DEF D, n, r, q
  <2>2. Total(SharesAt(n, q), D) <= Total(SharesAt(n, r), D)
    BY <1>2, <1>4, PayoutShrinks
  <2> QED BY <1>4, <1>6, <1>8, <2>2
<1>9. ASSUME NEW h \in Holders
      PROVE  /\ Credited(call.events, h) > Credited(tx.events, h) =>
                  \E i \in D : Raises(partners[call.list[i]], q[i], h)
             /\ Credited(call.events, h) < Credited(tx.events, h) =>
                  \E i \in D : Raises(q[i], partners[call.list[i]], h)
  <2>1. /\ IsFiniteSet(Units(SharesAt(n, q), PaysTo(q, h)))
        /\ IsFiniteSet(Units(SharesAt(n, r), PaysTo(r, h)))
        /\ Credited(tx.events, h) = Total(SharesAt(n, q), PaysTo(q, h))
        /\ Credited(call.events, h) = Total(SharesAt(n, r), PaysTo(r, h))
    BY <1>2, <1>3 DEF Shown
  <2> HIDE DEF D, n, r, q
  <2>2. /\ Credited(tx.events, h) \in Nat /\ Credited(call.events, h) \in Nat
    BY <2>1, SumIsNat
  <2>3. (\A i \in D : ~Raises(r[i], q[i], h)) =>
          Credited(call.events, h) <= Credited(tx.events, h)
    BY <1>2, <1>4, <2>1, CreditsShrink
  <2>4. (\A i \in D : ~Raises(q[i], r[i], h)) =>
          Credited(tx.events, h) <= Credited(call.events, h)
    BY <1>2, <1>4, <2>1, CreditsShrink
  <2> QED BY <1>5, <2>2, <2>3, <2>4
<1> QED BY <1>7, <1>8, <1>9 DEF ShownSplitHolds

\* As long as no listed fee was raised, an iteration meets none of the limits
\* on fees and products, which the simulation stayed within.
LEMMA LimitsStillMet ==
  ASSUME TypeOK, FrameInv, LoopInv, TxInv, Sent, AtPartner,
         StepAnswer # "PartnerNotFound",
         \A i \in DOMAIN call.list : FeeOf(call.list[i]) <= tx.rows[i].bps
  PROVE  LET p == partners[Listed]  share == Share(call.amount, p.bps)
         IN  /\ call.bps + p.bps <= MAX_BPS
             /\ call.amount * p.bps <= I128_MAX
             /\ call.paid + share <= I128_MAX
<1> DEFINE p == partners[Listed]
           share == Share(call.amount, p.bps)
           k == call.next
           all == DOMAIN call.list
           fees == FeesOf(tx.rows)
<1>1. /\ call # NoCall /\ call.status = "paying" /\ Listed \in Partners
      /\ k \in 1..Len(call.list)
  BY ListedType
<1>2. /\ call.amount \in Nat /\ call.amount <= I128_MAX
      /\ Shown(call.amount, call.list, tx.rows, tx.result, tx.events)
      /\ Len(call.list) \in Nat /\ all = 1..Len(call.list)
      /\ \A i \in all :
           /\ fees[i] \in Nat /\ ListFees[i] \in Nat
           /\ ListFees[i] = FeeOf(call.list[i])
           /\ fees[i] = tx.rows[i].bps
  BY SentIsShown DEF FeesOf
<1>3. /\ k \in all /\ k \notin Done /\ Done \cup {k} \subseteq all
  BY <1>1, <1>2 DEF Done
<1>4. p # NoPartner
  BY DEF StepAnswer
<1>5. p.bps = FeeOf(Listed) /\ p.bps \in Nat /\ ListFees[k] = p.bps
  BY <1>1, <1>2, <1>3, <1>4, RowType DEF Listed
<1>6. /\ IsFiniteSet(Units(ListFees, Done)) /\ call.bps = Total(ListFees, Done)
  BY <1>1 DEF LoopInv, NotRefused
<1>7. Total(ListFees, Done \cup {k}) = call.bps + p.bps
  <2> HIDE DEF p, share, k, all, fees
  <2>1. ListFees[k] \in Nat /\ k \notin Done
    BY <1>3, <1>5
  <2>2. Total(ListFees, Done \cup {k}) = Total(ListFees, Done) + ListFees[k]
    BY <1>6, <2>1, SumWithOneMore
  <2> QED BY <1>5, <1>6, <2>2
<1>8. IsFiniteSet(Units(fees, all)) /\ Total(fees, all) <= MAX_BPS
  BY <1>2 DEF Shown
<1>9. /\ IsFiniteSet(Units(ListFees, Done \cup {k}))
      /\ Total(ListFees, Done \cup {k}) <= Total(fees, all)
  <2>1. \A i \in Done \cup {k} :
          ListFees[i] \in Int /\ fees[i] \in Int /\ ListFees[i] <= fees[i]
    BY <1>2, <1>3
  <2> HIDE DEF all, fees, k
  <2> QED BY <1>3, <1>8, <2>1, SmallerSum
<1>10. /\ Total(ListFees, Done \cup {k}) \in Nat /\ Total(fees, all) \in Nat
       /\ MAX_BPS \in Nat /\ I128_MAX \in Nat
  BY <1>8, <1>9, SumIsNat, Constants
<1> DEFINE b == p.bps
<1>11. b \in Nat /\ call.bps \in Nat /\ call.paid \in Nat /\ call.bps + b <= MAX_BPS
  BY <1>1, <1>5, <1>7, <1>8, <1>9, <1>10, FrameType
<1>12. call.amount * fees[k] <= I128_MAX /\ b <= fees[k] /\ fees[k] \in Nat
  BY <1>2, <1>3, <1>5 DEF Shown
<1> HIDE DEF b, fees
<1>13. call.amount * b <= I128_MAX
  <2>1. \A m, n, a \in Nat : m <= n => a * m <= a * n
    OBVIOUS
  <2>2. call.amount * b <= call.amount * fees[k]
    BY <1>2, <1>11, <1>12, <2>1
  <2>3. call.amount * b \in Nat /\ call.amount * fees[k] \in Nat
    BY <1>2, <1>11, <1>12
  <2> QED BY <1>10, <1>12, <2>2, <2>3
<1> DEFINE s == Share(call.amount, b)
<1>14. s \in Nat /\ s * MAX_BPS <= call.amount * b
  BY <1>2, <1>11, ShareBound
<1> HIDE DEF s
<1>15. call.paid * MAX_BPS <= call.amount * call.bps
  BY <1>1 DEF FrameInv
<1>16. (call.paid + s) * MAX_BPS <= call.amount * (call.bps + b)
  BY <1>2, <1>11, <1>14, <1>15, SharesAdd
<1>17. call.paid + s <= call.amount
  <2>1. call.paid + s \in Nat /\ call.bps + b \in Nat
    BY <1>11, <1>14
  <2> QED BY <1>2, <1>11, <1>16, <2>1, WithinAmount
<1>18. call.paid + s <= I128_MAX
  BY <1>2, <1>10, <1>11, <1>14, <1>17
<1> QED BY <1>11, <1>13, <1>18 DEF s, b

\* A settlement that is refused for its fees tells that one was raised.
LEMMA RevertTells ==
  ASSUME TypeOK, FrameInv, LoopInv, TxInv, Sent, Revert,
         StepAnswer \in {"SplitExceedsTotal", "Overflow"}
  PROVE  \E i \in DOMAIN call.list : FeeOf(call.list[i]) > tx.rows[i].bps
<1> SUFFICES ASSUME \A i \in DOMAIN call.list :
                      ~(FeeOf(call.list[i]) > tx.rows[i].bps)
             PROVE  FALSE
  OBVIOUS
<1>1. AtPartner /\ StepAnswer # "PartnerNotFound"
  BY DEF Revert
<1>2. \A i \in DOMAIN call.list : FeeOf(call.list[i]) <= tx.rows[i].bps
  BY SentIsShown
<1> DEFINE p == partners[Listed]
           share == Share(call.amount, p.bps)
<1>3. /\ call.bps + p.bps <= MAX_BPS /\ call.amount * p.bps <= I128_MAX
      /\ call.paid + share <= I128_MAX
  BY <1>1, <1>2, LimitsStillMet
<1>4. p # NoPartner /\ Listed \in Partners /\ call # NoCall
  BY <1>1, ListedType DEF StepAnswer
<1>5. p.bps \in Nat /\ call.bps \in Nat /\ call.amount \in Nat /\ call.paid \in Nat
  BY <1>4, RowType, FrameType, SentIsShown, Constants
<1>6. share \in Nat /\ call.amount * p.bps \in Nat
  <2>1. \A m, n \in Nat : m * n \in Nat
    OBVIOUS
  <2> QED BY <1>5, <2>1, ShareBound
<1> HIDE DEF share
<1>7. /\ ~(call.bps + p.bps > U32_MAX) /\ ~CapExceeded(call.bps + p.bps)
      /\ ~(call.amount * p.bps > I128_MAX) /\ ~(call.paid + share > I128_MAX)
  BY <1>3, <1>5, <1>6, Constants DEF CapExceeded
<1> USE DEF share
<1>8. StepAnswer \notin {"SplitExceedsTotal", "Overflow"}
  BY <1>4, <1>7 DEF StepAnswer
<1> QED BY <1>8

\* Each refusal has the reason that its error tells.
LEMMA RevertReasons ==
  ASSUME ContractInv, DistinctInv', TxInv, Sent, Revert, call' # NoCall
  PROVE  /\ StepAnswer = "PartnerNotFound" =>
              \E i \in DOMAIN call.list :
                tx.rows[i] # NoPartner /\ partners[call.list[i]] = NoPartner
         /\ StepAnswer \in {"SplitExceedsTotal", "Overflow"} =>
              \E i \in DOMAIN call.list : FeeOf(call.list[i]) > tx.rows[i].bps
         /\ StepAnswer = "SplitExceedsTotal" => Repeats(call.list)
<1>1. TypeOK /\ FrameInv /\ LoopInv /\ AtPartner
  BY DEF ContractInv, Revert
<1>2. ASSUME StepAnswer = "PartnerNotFound"
      PROVE  \E i \in DOMAIN call.list :
               tx.rows[i] # NoPartner /\ partners[call.list[i]] = NoPartner
  <2>1. call.next \in DOMAIN call.list /\ tx.rows[call.next] # NoPartner
    BY <1>1, ListedType, SentIsShown, Constants
  <2>2. partners[Listed] = NoPartner
    <3>1. CASE partners[Listed] # NoPartner
      <4>1. StepAnswer \in {"Ok", "Overflow", "SplitExceedsTotal", "TokenTrap"}
        BY <3>1 DEF StepAnswer
      <4> QED BY <1>2, <4>1
    <3> QED BY <3>1
  <2> QED BY <2>1, <2>2 DEF Listed
<1>3. StepAnswer = "SplitExceedsTotal" => Repeats(call.list)
  BY <1>1, RevertFrame DEF DistinctInv, RefusedOnlyIfRepeated, Repeats
<1> QED BY <1>1, <1>2, <1>3, RevertTells

\* Every step keeps RefusalTellsChange: a settlement that is refused is looked
\* at until the next transaction, and the registry does not move before it.
LEMMA NextRefusal ==
  ASSUME ContractInv, ContractInv', TxInv, RefusalTellsChange,
         [ClientNext]_allVars
  PROVE  RefusalTellsChange'
<1>0. TypeOK /\ FrameInv
  BY DEF ContractInv
<1>1. CASE Assemble
  <2>1. \A c, ph : Transacted(c, ph).phase = ph
    BY DEF Transacted
  <2>2. tx'.phase = "assembled" \/ tx'.phase = "simulating"
    BY <1>1, <2>1 DEF Assemble
  <2> QED BY <2>2 DEF RefusalTellsChange, Sent
<1>2. CASE SimulationEnds \/ Refused \/ Direct
  <2>1. tx' = NoTx \/ call' = NoCall
    BY <1>2, DirectSteps DEF SimulationEnds, Refused
  <2> QED BY <2>1 DEF RefusalTellsChange, Sent
<1>3. CASE Send
  <2>1. CASE tx.call.fn # "settle_split"
    BY <1>3, <2>1 DEF Send, RefusalTellsChange, Sent
  <2>2. CASE tx.call.fn = "settle_split"
    <3>1. SettleBegin(tx.call.by, Wrapper, FALSE, tx.call.amount, tx.call.list)
      BY <1>3, <2>2 DEF Send, Effect, Passthrough
    <3>2. call'.status = "paying"
      BY <3>1 DEF SettleBegin
    <3> QED BY <3>2 DEF RefusalTellsChange
  <2> QED BY <2>1, <2>2
<1>4. CASE Settling
  <2>1. /\ tx' = tx /\ partners' = partners /\ call # NoCall
        /\ call'.list = call.list
    BY <1>0, <1>4, LoopKeepsCall DEF Settling, clientVars
  <2>2. CASE PayPartner
    <3>1. call'.status = "paying"
      BY <1>0, <2>2, PayFrame
    <3> QED BY <3>1 DEF RefusalTellsChange
  <2>3. CASE SettleReturn
    <3>1. call'.status = "Ok"
      BY <1>0, <2>3, ReturnFrame
    <3> QED BY <3>1 DEF RefusalTellsChange
  <2>4. CASE Revert
    <3>1. call'.status = StepAnswer /\ call' # NoCall
      BY <1>0, <2>4, RevertFrame
    <3>2. Sent' => Sent
      BY <2>1 DEF Sent
    <3>3. ASSUME Sent
          PROVE  /\ StepAnswer = "PartnerNotFound" =>
                      \E i \in DOMAIN call.list :
                        /\ tx.rows[i] # NoPartner
                        /\ partners[call.list[i]] = NoPartner
                 /\ StepAnswer \in {"SplitExceedsTotal", "Overflow"} =>
                      \E i \in DOMAIN call.list :
                        FeeOf(call.list[i]) > tx.rows[i].bps
                 /\ StepAnswer = "SplitExceedsTotal" => Repeats(call.list)
      BY <2>4, <3>1, <3>3, RevertReasons DEF ContractInv
    <3>4. \A p : FeeOf(p)' = FeeOf(p)
      BY <2>1 DEF FeeOf
    <3> QED BY <2>1, <3>1, <3>2, <3>3, <3>4 DEF RefusalTellsChange
  <2> QED BY <1>4, <2>2, <2>3, <2>4 DEF Settling
<1>5. CASE UNCHANGED allVars
  BY <1>5 DEF allVars, vars, clientVars, RefusalTellsChange, Sent, FeeOf
<1> QED BY <1>1, <1>2, <1>3, <1>4, <1>5 DEF ClientNext

-----------------------------------------------------------------------------
(* The invariant of the client, and the theorems.                          *)

ClientInv == ContractInv /\ TxInv /\ RefusalTellsChange /\ sacAddress = Sac

\* Nothing is assembled when the contract is deployed.
LEMMA InitClient == ClientInit => ClientInv
<1> SUFFICES ASSUME ClientInit PROVE ClientInv
  OBVIOUS
<1>1. Init /\ sacAddress = Sac /\ tx = NoTx /\ call = NoCall
  BY DEF ClientInit, deploy, Init
<1>2. TypeOK /\ FrameInv /\ LoopInv /\ TotalMatchesRegistry
  BY <1>1, InitSafe, InitLoop, InitTotal
<1>3. EventsInv /\ DistinctInv /\ ProductsFit
  BY <1>1 DEF EventsInv, DistinctInv, ProductsFit, NotRefused,
     RefusedOnlyIfRepeated
<1> QED BY <1>1, <1>2, <1>3 DEF ClientInv, ContractInv, TxInv,
     RefusalTellsChange, Sent

\* Every step of the client keeps it.
LEMMA NextClient == ClientInv /\ [ClientNext]_allVars => ClientInv'
<1> SUFFICES ASSUME ClientInv, [ClientNext]_allVars PROVE ClientInv'
  OBVIOUS
<1>1. ContractInv'
  BY ContractKept DEF ClientInv
<1>2. TxInv' /\ RefusalTellsChange'
  BY <1>1, NextTx, NextRefusal DEF ClientInv
<1>3. sacAddress' = sacAddress
  BY DEF ClientNext, Assemble, SimulationEnds, Send, Refused, Direct, Settling,
     clientVars, allVars
<1> QED BY <1>1, <1>2, <1>3 DEF ClientInv

\* It holds in every state of the client.
LEMMA ClientAlways == ClientSpec => []ClientInv
BY InitClient, NextClient, PTL DEF ClientSpec

\* Each method's result is of the type its revived transaction decodes; above
\* all the payout that settle_split returns fits in an i128, however many
\* shares are added up; and a settlement ends in one of the contract's errors
\* or in a trap of the token, if it does not succeed.
THEOREM ClientTypeCorrect == ClientSpec => []ClientTypeOK
<1>1. ClientInv => ClientTypeOK
  <2> SUFFICES ASSUME ClientInv PROVE ClientTypeOK
    OBVIOUS
  <2>1. TypeOK /\ TxInv /\ sacAddress = Sac
    BY DEF ClientInv, ContractInv
  <2>2. /\ get_admin \in fromJSON.get_admin /\ total_bps \in fromJSON.total_bps
        /\ \A p \in Partners : get_partner(p) \in fromJSON.get_partner
        /\ sac_address \in fromJSON.sac_address
    BY <2>1 DEF fromJSON, get_admin, total_bps, get_partner, sac_address,
       TypeOK, ACTypeOK
  <2>3. ASSUME tx # NoTx, ~Simulating
        PROVE  tx.result \in fromJSON[tx.call.fn]
    <3>1. CASE tx.call.fn = "settle_split"
      <4>1. Shown(tx.call.amount, tx.call.list, tx.rows, tx.result, tx.events)
        BY <2>1, <2>3, <3>1 DEF TxInv, Simulating
      <4>2. tx.result \in {<<n>> : n \in I128}
        BY <4>1 DEF Shown
      <4>3. fromJSON["settle_split"] = {<<n>> : n \in I128}
        BY DEF fromJSON
      <4> QED BY <3>1, <4>2, <4>3
    <3>2. CASE tx.call.fn # "settle_split"
      <4>1. tx.result = << >>
        BY <2>1, <2>3, <3>2 DEF TxInv
      <4>2. tx.call.fn \in {"mint", "clawback", "set_admin", "set_authorized",
                            "set_partner", "remove_partner"}
        BY <2>1, <2>3, <3>2 DEF TxInv, CallOK
      <4>3. /\ fromJSON["mint"] = {<< >>} /\ fromJSON["clawback"] = {<< >>}
            /\ fromJSON["set_admin"] = {<< >>}
            /\ fromJSON["set_authorized"] = {<< >>}
            /\ fromJSON["set_partner"] = {<< >>}
            /\ fromJSON["remove_partner"] = {<< >>}
        BY DEF fromJSON
      <4> QED BY <4>1, <4>2, <4>3
    <3> QED BY <3>1, <3>2
  <2>4. ASSUME call # NoCall
        PROVE  call.status \in {"paying", "Ok", "TokenTrap"} \cup Range(Errors)
    <3>1. call.status \in Statuses
      BY <2>1, <2>4, FrameType
    <3>2. /\ Errors[2] = "PartnerNotFound" /\ Errors[5] = "Overflow"
          /\ Errors[6] = "SplitExceedsTotal" /\ DOMAIN Errors = 1..6
      BY DEF Errors
    <3>3. {"PartnerNotFound", "Overflow", "SplitExceedsTotal"}
            \subseteq Range(Errors)
      BY <3>2 DEF Range
    <3> QED BY <3>1, <3>3 DEF Statuses
  <2> QED BY <2>1, <2>2, <2>3, <2>4 DEF ClientTypeOK
<1> QED BY <1>1, ClientAlways, PTL

\* A settlement pays what its simulation showed, in all and to every holder,
\* unless a listed row was changed before it was sent, for lists of any length.
THEOREM ShownSplitBinds == ClientSpec => []ShownSplitHolds
<1>1. ClientInv => ShownSplitHolds
  BY ShownIsPaid DEF ClientInv
<1> QED BY <1>1, ClientAlways, PTL

\* A simulated settlement is refused for its fees only if one was raised, and
\* for their sum only if the list names a partner twice.
THEOREM RefusalsTell == ClientSpec => []RefusalTellsChange
<1>1. ClientInv => RefusalTellsChange
  BY DEF ClientInv
<1> QED BY <1>1, ClientAlways, PTL

\* The client leaves the contract's total of fees right.
THEOREM TotalUnderClient == ClientSpec => []TotalMatchesRegistry
<1>1. ClientInv => TotalMatchesRegistry
  BY DEF ClientInv, ContractInv
<1> QED BY <1>1, ClientAlways, PTL

\* A settlement sent by the client is the atomic split or refused as a whole:
\* what the client does besides, simulating, assembling and forgetting, no user
\* of the split can tell.
THEOREM ClientServedBySplit == ClientSpec => ImplementsAtomicSplit
<1>1. ClientInit => Atomic!SplitInit
  BY InitSplit DEF ClientInit, deploy
<1>2. ClientInv /\ ClientInv' /\ [ClientNext]_allVars
        => [Atomic!SplitNext]_Atomic!splitVars
  <2> SUFFICES ASSUME ClientInv, ClientInv', [ClientNext]_allVars
               PROVE  [Atomic!SplitNext]_Atomic!splitVars
    OBVIOUS
  <2>1. /\ TypeOK /\ FrameInv /\ LoopInv /\ TotalMatchesRegistry /\ TxInv
        /\ TotalMatchesRegistry'
    BY DEF ClientInv, ContractInv
  <2>2. CASE [Next]_vars
    BY <2>1, <2>2, NextSplit
  <2>3. CASE Forgotten
    <3>1. /\ ~Paying /\ call' = NoCall /\ bal' = bal /\ frozen' = frozen
          /\ partners' = partners
      BY <2>3 DEF Forgotten, token
    <3>2. Atomic!Forget
      BY <3>1, ForgetStep
    <3> QED BY <3>2 DEF Atomic!SplitNext
  <2>4. CASE Dropped
    <3>1. UNCHANGED Atomic!splitVars
      BY <2>4 DEF Dropped, Paying, SeenFunds, SeenOutcome, Atomic!splitVars
    <3> QED BY <3>1
  <2> QED BY <2>1, <2>2, <2>3, <2>4, ContractSteps
<1> QED
  BY <1>1, <1>2, ClientAlways, PTL
  DEF ClientSpec, ImplementsAtomicSplit, Atomic!SplitSpec
=============================================================================
