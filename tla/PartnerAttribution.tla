------------------------- MODULE PartnerAttribution -------------------------
(***************************************************************************)
(* The partner-attribution contract: a registry of partners, each with a   *)
(* fee in basis points and a payout address, a stored total of the fees,   *)
(* and settle_split, which pays every listed partner its share of a flow   *)
(* by transfers of the wrapped Stellar Asset Contract (SAC).               *)
(*                                                                         *)
(* settle_split is modelled one loop iteration at a time.  `call` is its   *)
(* frame: the locals of the loop, the events published so far and the      *)
(* balances when it began.  The host runs one transaction at a time, so no *)
(* other call starts while the frame is open, and it rolls the balances    *)
(* back when an iteration answers an error.  A closed frame stays readable *)
(* until the next transaction.  The SAC is outside the repository: it is   *)
(* modelled from the calls the contract makes to it.                       *)
(***************************************************************************)
EXTENDS AccessControl, Sequences, FiniteSets, UnitSums

CONSTANTS
  Partners,      \* addresses a partner may be registered under
  Holders,       \* addresses that hold the token: payers and payouts
  Wrapper,       \* this contract's own address, one of the holders
  Issuer,        \* the token admin that is not this contract
  NoPartner,     \* no row in storage for the address
  NoCall,        \* no settlement to look at
  MAX_BPS,       \* 100% in basis points
  I128_MAX,      \* largest i128
  BpsArgs,       \* bound: the fee_bps set_partner is called with
  Amounts,       \* bound: the amounts settled, minted and clawed back
  MaxList,       \* bound: length of the partner list of a settlement
  MaxSupply,     \* bound: tokens in circulation
  InitFunds      \* bound: the balances a behaviour starts from

I128 == -I128_MAX - 1 .. I128_MAX
U32  == 0 .. U32_MAX

ASSUME BpsAssumption ==
  /\ MAX_BPS \in Nat \ {0} /\ 2 * MAX_BPS <= U32_MAX
  /\ I128_MAX \in Nat /\ MAX_BPS <= I128_MAX
  /\ BpsArgs \subseteq U32 /\ Amounts \subseteq I128 /\ MaxList \in Nat
ASSUME HolderAssumption ==
  /\ Wrapper \in Holders /\ Issuer \notin Holders
  /\ InitFunds \subseteq [Holders -> 0 .. I128_MAX]

VARIABLES
  partners,   \* persistent storage: address -> Partner, or NoPartner
  totalBps,   \* instance storage: the running total of the fees
  bal,        \* SAC: balance of every holder
  frozen,     \* SAC: holders whose trustline is missing or deauthorized
  sacAdmin,   \* SAC: its admin, the wrapper or the issuer
  call        \* the frame of the last settle_split, or NoCall

token == <<bal, frozen, sacAdmin>>
vars == <<seq, admin, pending, partners, totalBps, bal, frozen, sacAdmin, call>>

Partner == [bps : 0 .. MAX_BPS, payout : Holders]
Event == [partner : Partners, to : Holders, fee : I128]
Statuses ==
  {"paying", "Ok", "PartnerNotFound", "SplitExceedsTotal", "Overflow",
   "TokenTrap"}
Frame ==
  [status : Statuses, from : Holders, signed : BOOLEAN, amount : I128,
   list : Seq(Partners), next : Nat, bps : Nat, paid : Nat,
   events : Seq(Event), before : [Holders -> 0 .. I128_MAX]]

ASSUME NoneAssumption == NoPartner \notin Partner /\ NoCall \notin Frame

TypeOK ==
  /\ ACTypeOK
  /\ partners \in [Partners -> Partner \cup {NoPartner}]
  /\ totalBps \in U32
  /\ bal \in [Holders -> 0 .. I128_MAX]
  /\ frozen \in SUBSET Holders
  /\ sacAdmin \in {Wrapper, Issuer}
  /\ call \in Frame \cup {NoCall}

Init ==
  /\ ACInit
  /\ partners = [p \in Partners |-> NoPartner]
  /\ totalBps = 0
  /\ bal \in InitFunds
  /\ frozen = {}
  /\ sacAdmin \in {Wrapper, Issuer}
  /\ call = NoCall

Paying == call # NoCall /\ call.status = "paying"

\* Any transaction but an iteration of the open settlement: it needs the host
\* to be free, and the last settlement is no longer looked at.
Transaction == ~Paying /\ call' = NoCall

-----------------------------------------------------------------------------
(* The registry.                                                           *)

FeeOf(p) == IF partners[p] = NoPartner THEN 0 ELSE partners[p].bps

\* Mutant: an update forgets the fee it replaces.
NewTotal_ForgetsOld(p, bps) == totalBps + bps

\* checked_sub, then checked_add, on u32.
NewTotal(p, bps) == totalBps - FeeOf(p) + bps

\* Mutant: each fee is capped and their sum is not.
SetPartnerAnswer_NoTotalCap(caller, p, bps) ==
  IF OnlyAdmin(caller) # "Ok" THEN OnlyAdmin(caller)
  ELSE IF bps > MAX_BPS THEN "BpsCapExceeded" ELSE "Ok"

SetPartnerAnswer(caller, p, bps) ==
  IF OnlyAdmin(caller) # "Ok" THEN OnlyAdmin(caller)
  ELSE IF bps > MAX_BPS THEN "BpsCapExceeded"
  ELSE IF totalBps < FeeOf(p) \/ NewTotal(p, bps) > U32_MAX THEN "Overflow"
  ELSE IF NewTotal(p, bps) > MAX_BPS THEN "BpsCapExceeded" ELSE "Ok"

SetPartner(caller, p, bps, payout) ==
  /\ Transaction
  /\ SetPartnerAnswer(caller, p, bps) = "Ok"
  /\ partners' = [partners EXCEPT ![p] = [bps |-> bps, payout |-> payout]]
  /\ totalBps' = NewTotal(p, bps)
  /\ UNCHANGED <<acVars, token>>

RemovePartnerAnswer(caller, p) ==
  IF OnlyAdmin(caller) # "Ok" THEN OnlyAdmin(caller)
  ELSE IF partners[p] = NoPartner THEN "PartnerNotFound" ELSE "Ok"

\* Mutant: the fee leaves the total and the row stays.
RemovePartner_KeepsRow(caller, p) ==
  /\ Transaction
  /\ RemovePartnerAnswer(caller, p) = "Ok"
  /\ totalBps' = IF totalBps >= FeeOf(p) THEN totalBps - FeeOf(p) ELSE 0
  /\ UNCHANGED <<acVars, partners, token>>

\* saturating_sub: the total never goes below zero.
RemovePartner(caller, p) ==
  /\ Transaction
  /\ RemovePartnerAnswer(caller, p) = "Ok"
  /\ partners' = [partners EXCEPT ![p] = NoPartner]
  /\ totalBps' = IF totalBps >= FeeOf(p) THEN totalBps - FeeOf(p) ELSE 0
  /\ UNCHANGED <<acVars, token>>

-----------------------------------------------------------------------------
(* The token.                                                              *)

\* Mutant: a transfer without funds.
CanTransfer_NoFunds(from, to, amount) == {from, to} \cap frozen = {}

CanTransfer(from, to, amount) ==
  /\ {from, to} \cap frozen = {}
  /\ amount <= bal[from]
  /\ from # to => bal[to] + amount <= I128_MAX

Transferred(from, to, amount) ==
  IF from = to THEN bal
  ELSE [bal EXCEPT ![from] = @ - amount, ![to] = @ + amount]

Supply == Total(bal, Holders)

Mint(to, amount) ==
  /\ amount >= 0 /\ to \notin frozen
  /\ bal[to] + amount <= I128_MAX
  /\ Supply + amount <= MaxSupply
  /\ bal' = [bal EXCEPT ![to] = @ + amount]
  /\ UNCHANGED <<frozen, sacAdmin>>

Clawback(from, amount) ==
  /\ amount >= 0 /\ bal[from] >= amount
  /\ bal' = [bal EXCEPT ![from] = @ - amount]
  /\ UNCHANGED <<frozen, sacAdmin>>

SetAuthorized(id, authorize) ==
  /\ frozen' = IF authorize THEN frozen \ {id} ELSE frozen \cup {id}
  /\ UNCHANGED <<bal, sacAdmin>>

SetSacAdmin(new) ==
  /\ sacAdmin' = new
  /\ UNCHANGED <<bal, frozen>>

TokenAdminOp ==
  \/ \E h \in Holders, n \in Amounts : Mint(h, n) \/ Clawback(h, n)
  \/ \E h \in Holders, b \in BOOLEAN : SetAuthorized(h, b)
  \/ \E new \in {Wrapper, Issuer} : SetSacAdmin(new)

\* Mutant: the passthroughs are not gated by the contract's admin.
WrapperCall_Ungated(caller) ==
  /\ Transaction
  /\ sacAdmin = Wrapper
  /\ TokenAdminOp
  /\ UNCHANGED <<acVars, partners, totalBps>>

\* The four passthroughs of the SAC admin wrapper: the contract's admin must
\* have signed, and the token refuses them unless the contract is its admin.
WrapperCall(caller) ==
  /\ Transaction
  /\ OnlyAdmin(caller) = "Ok"
  /\ sacAdmin = Wrapper
  /\ TokenAdminOp
  /\ UNCHANGED <<acVars, partners, totalBps>>

\* The issuer, as long as it is the token's admin, needs no contract.
IssuerCall ==
  /\ Transaction
  /\ sacAdmin = Issuer
  /\ TokenAdminOp
  /\ UNCHANGED <<acVars, partners, totalBps>>

-----------------------------------------------------------------------------
(* settle_split                                                            *)

SettleBegin(caller, from, signed, amount, list) ==
  /\ ~Paying
  /\ OnlyAdmin(caller) = "Ok"
  /\ amount > 0
  /\ call' = [status |-> "paying", from |-> from, signed |-> signed,
              amount |-> amount, list |-> list, next |-> 1, bps |-> 0,
              paid |-> 0, events |-> << >>, before |-> bal]
  /\ UNCHANGED <<acVars, partners, totalBps, token>>

Listed == call.list[call.next]

\* Mutant: shares are rounded up.
Share_RoundsUp(amount, bps) == (amount * bps + MAX_BPS - 1) \div MAX_BPS

\* Mutant: a fee is a share of the fees registered, not of 100%.
Share_OfRegistered(amount, bps) ==
  IF totalBps = 0 THEN 0 ELSE (amount * bps) \div totalBps

\* This contract as the payer authorizes its own transfers.
PayerAuthorized == call.signed \/ call.from = Wrapper
Share(amount, bps) == (amount * bps) \div MAX_BPS

\* Mutant: a list is held against the fees registered, not against 100%.
CapExceeded_OfRegistered(bps) == bps > totalBps

CapExceeded(bps) == bps > MAX_BPS

\* What the iteration for the next listed partner answers.  A zero share
\* moves nothing, so it needs neither funds nor the payer's signature.
StepAnswer ==
  LET p == partners[Listed]  share == Share(call.amount, p.bps)
  IN  IF p = NoPartner THEN "PartnerNotFound"
      ELSE IF call.bps + p.bps > U32_MAX THEN "Overflow"
      ELSE IF CapExceeded(call.bps + p.bps) THEN "SplitExceedsTotal"
      ELSE IF call.amount * p.bps > I128_MAX THEN "Overflow"
      ELSE IF share > 0 /\ ~(/\ PayerAuthorized
                             /\ CanTransfer(call.from, p.payout, share))
           THEN "TokenTrap"
      ELSE IF call.paid + share > I128_MAX THEN "Overflow" ELSE "Ok"

AtPartner == Paying /\ call.next <= Len(call.list)

\* Mutant: a zero share is announced as a transfer.
PayPartner_AnnouncesZero ==
  LET p == partners[Listed]  share == Share(call.amount, p.bps)
  IN  /\ AtPartner
      /\ StepAnswer = "Ok"
      /\ bal' = Transferred(call.from, p.payout, share)
      /\ call' = [call EXCEPT
                    !.next = @ + 1, !.bps = @ + p.bps, !.paid = @ + share,
                    !.events = Append(@, [partner |-> Listed,
                                          to |-> p.payout, fee |-> share])]
      /\ UNCHANGED <<acVars, partners, totalBps, frozen, sacAdmin>>

PayPartner ==
  LET p == partners[Listed]  share == Share(call.amount, p.bps)
  IN  /\ AtPartner
      /\ StepAnswer = "Ok"
      /\ bal' = IF share > 0 THEN Transferred(call.from, p.payout, share)
                ELSE bal
      /\ call' = [call EXCEPT
                    !.next = @ + 1,
                    !.bps = @ + p.bps,
                    !.paid = @ + share,
                    !.events =
                       IF share > 0
                       THEN Append(@, [partner |-> Listed, to |-> p.payout,
                                       fee |-> share])
                       ELSE @]
      /\ UNCHANGED <<acVars, partners, totalBps, frozen, sacAdmin>>

\* Mutant: what was paid before the error stays paid.
Revert_KeepsTransfers ==
  /\ AtPartner
  /\ StepAnswer # "Ok"
  /\ call' = [call EXCEPT !.status = StepAnswer, !.events = << >>]
  /\ UNCHANGED <<acVars, partners, totalBps, token>>

\* An error reverts the whole settlement: transfers and events are undone.
Revert ==
  /\ AtPartner
  /\ StepAnswer # "Ok"
  /\ bal' = call.before
  /\ call' = [call EXCEPT !.status = StepAnswer, !.events = << >>]
  /\ UNCHANGED <<acVars, partners, totalBps, frozen, sacAdmin>>

SettleReturn ==
  /\ Paying /\ call.next > Len(call.list)
  /\ call' = [call EXCEPT !.status = "Ok"]
  /\ UNCHANGED <<acVars, partners, totalBps, token>>

-----------------------------------------------------------------------------
CloseLedger ==
  Transaction /\ CloseLedgerAC /\ UNCHANGED <<partners, totalBps, token>>

AdminCall ==
  Transaction /\ AdminStep /\ UNCHANGED <<partners, totalBps, token>>

Lists == UNION {[1..n -> Partners] : n \in 0..MaxList}

Next ==
  \/ CloseLedger
  \/ AdminCall
  \/ \E caller \in Accounts :
       \/ \E p \in Partners, bps \in BpsArgs, payout \in Holders :
            SetPartner(caller, p, bps, payout)
       \/ \E p \in Partners : RemovePartner(caller, p)
       \/ WrapperCall(caller)
       \/ \E from \in Holders, signed \in BOOLEAN, amount \in Amounts,
             list \in Lists : SettleBegin(caller, from, signed, amount, list)
  \/ IssuerCall
  \/ PayPartner
  \/ Revert
  \/ SettleReturn

Spec == Init /\ [][Next]_vars

-----------------------------------------------------------------------------
(* Properties                                                              *)

Fees == [p \in Partners |-> FeeOf(p)]

\* The stored running total, kept by additions and subtractions over any
\* sequence of updates and removals, is the sum of the registered fees and at
\* most 100% (lib.rs:19, 125-135, 162-167).
TotalMatchesRegistry ==
  /\ IsFiniteSet(Units(Fees, Partners))
  /\ totalBps = Total(Fees, Partners)
  /\ totalBps <= MAX_BPS

\* The arithmetic of the running total never goes wrong: set_partner answers
\* no Overflow, and remove_partner's saturating_sub never saturates, which
\* would hide a drifted total (lib.rs:129-132, 163).
TotalNeverDrifts ==
  \A p \in Partners :
    /\ totalBps >= FeeOf(p)
    /\ \A caller \in Accounts, bps \in BpsArgs :
         SetPartnerAnswer(caller, p, bps) # "Overflow"

\* However shares are rounded, the payouts of a settlement stay within the
\* fees listed so far and so within its amount: the residual that stays with
\* the payer is never negative (lib.rs:185, 217-226).
PaidWithinAmount ==
  call # NoCall =>
    /\ call.paid * MAX_BPS <= call.amount * call.bps
    /\ call.bps <= MAX_BPS /\ call.paid <= call.amount

Repeats(list) == \E i, j \in 1..Len(list) : i < j /\ list[i] = list[j]

\* A list of distinct partners is never refused for its fees, since the
\* registry bounds their sum: SplitExceedsTotal means that a partner is
\* listed twice (lib.rs:185-189).
RefusedOnlyIfRepeated ==
  call # NoCall /\ call.status = "SplitExceedsTotal" => Repeats(call.list)

\* A payer who is not a payout address is debited by exactly the amount
\* settle_split returns; a reverted settlement debits nobody
\* (lib.rs:181-185, 225-226).
DebitIsReturned ==
  call # NoCall =>
    IF call.status \in {"paying", "Ok"}
    THEN (\A i \in 1 .. call.next - 1 :
            FeeOf(call.list[i]) = 0 \/ partners[call.list[i]].payout # call.from)
         => bal[call.from] = call.before[call.from] - call.paid
    ELSE bal = call.before

\* The partner_transfer events of a settlement explain it: their fees sum to
\* the amount returned, each is positive, and crediting them to the payouts
\* and debiting them from the payer gives the balances (lib.rs:228-239).
EventsExplainBalances ==
  call # NoCall /\ call.status \in {"paying", "Ok"} =>
    LET ev == call.events
        Told(S) == Total([i \in DOMAIN ev |-> ev[i].fee], S)
    IN  /\ \A i \in DOMAIN ev : ev[i].fee > 0
        /\ Told(DOMAIN ev) = call.paid
        /\ \A h \in Holders :
             bal[h] = call.before[h] + Told({i \in DOMAIN ev : ev[i].to = h})
                        - (IF h = call.from THEN call.paid ELSE 0)

\* Once the admin has renounced, nobody becomes admin, the registry and its
\* total stay as they are and no settlement begins, whatever handover was
\* pending; and if the contract is the token's admin by then, the token too is
\* frozen for good: nobody mints, claws back, authorizes a holder or takes the
\* token's admin over (lib.rs:113, 158, 190, 282-300).
OrphanedRegistryFrozen ==
  [][admin = NoAccount =>
       /\ admin' = NoAccount /\ UNCHANGED <<partners, totalBps>>
       /\ call' \in {call, NoCall}
       /\ sacAdmin = Wrapper => UNCHANGED token]_vars

\* What an observer sees outside an open call: the balances, and the answer of
\* the last settlement.
SeenFunds == IF Paying THEN call.before ELSE bal
SeenOutcome ==
  IF call = NoCall \/ Paying THEN <<"none", 0>>
  ELSE IF call.status = "Ok" THEN <<"paid", call.paid>> ELSE <<"refused", 0>>

Atomic == INSTANCE RevenueSplit WITH
  registry <- partners, funds <- SeenFunds, blocked <- frozen,
  outcome <- SeenOutcome

\* The loop with its running cap and its rollback implements an atomic split,
\* whose settlement pays every share at once or is refused (lib.rs:190-229).
ImplementsAtomicSplit == Atomic!SplitSpec

-----------------------------------------------------------------------------
(* What a comment of the contract claims and the code does not do.         *)

\* "the running cap here exists to reject a `partners` list that names the
\* same partner twice (which would otherwise double-pay ...)" (lib.rs:187-189).
NobodyPaidTwice ==
  call # NoCall /\ call.status = "Ok" =>
    \A i, j \in DOMAIN call.events :
      call.events[i].partner = call.events[j].partner => i = j
=============================================================================
