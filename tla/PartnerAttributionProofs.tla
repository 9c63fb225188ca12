---------------------- MODULE PartnerAttributionProofs ----------------------
(***************************************************************************)
(* Proofs about PartnerAttribution for every set of partners and holders,  *)
(* every fee, amount and list of partners, and every width of the          *)
(* integers.                                                               *)
(***************************************************************************)
EXTENDS PartnerAttribution, UnitSumsProofs

\* The constants' assumptions under one name, as every step needs some.
LEMMA Constants ==
  /\ U32_MAX \in Nat /\ MaxSeq \in 1..U32_MAX
  /\ MinTempTtl \in 1..U32_MAX /\ MaxTtl \in 1..U32_MAX
  /\ AdminWindows \subseteq Int /\ NoAccount \notin Accounts
  /\ MAX_BPS \in Nat /\ MAX_BPS > 0 /\ 2 * MAX_BPS <= U32_MAX
  /\ I128_MAX \in Nat /\ MAX_BPS <= I128_MAX
  /\ BpsArgs \subseteq Nat /\ Amounts \subseteq I128 /\ MaxList \in Nat
  /\ Wrapper \in Holders /\ InitFunds \subseteq [Holders -> 0 .. I128_MAX]
  /\ NoPartner \notin Partner /\ NoCall \notin Frame
BY AccountsAssumption, LedgerAssumption, WindowAssumption, BpsAssumption,
   HolderAssumption, NoneAssumption DEF U32

-----------------------------------------------------------------------------
(* Arithmetic of the shares.                                               *)

\* A share is the product rounded down.
LEMMA ShareBound ==
  ASSUME NEW amount \in Nat, NEW bps \in Nat
  PROVE  /\ Share(amount, bps) \in Nat
         /\ Share(amount, bps) * MAX_BPS <= amount * bps
         /\ Share(amount, bps) <= amount * bps
<1>1. \A m \in Nat, d \in Nat :
        d > 0 => /\ m \div d \in Nat /\ (m \div d) * d <= m
                 /\ m \div d <= (m \div d) * d
  OBVIOUS
<1>2. amount * bps \in Nat /\ MAX_BPS \in Nat /\ MAX_BPS > 0
  BY Constants
<1> QED BY <1>1, <1>2 DEF Share

\* Rounded-down shares of two parts stay within the share of both.
LEMMA SharesAdd ==
  ASSUME NEW amount \in Nat, NEW paid \in Nat, NEW share \in Nat,
         NEW bps \in Nat, NEW fee \in Nat,
         paid * MAX_BPS <= amount * bps, share * MAX_BPS <= amount * fee
  PROVE  (paid + share) * MAX_BPS <= amount * (bps + fee)
BY Constants

\* Fees within 100% never pay out more than the amount.
LEMMA WithinAmount ==
  ASSUME NEW amount \in Nat, NEW paid \in Nat, NEW bps \in Nat,
         paid * MAX_BPS <= amount * bps, bps <= MAX_BPS
  PROVE  paid <= amount
<1>1. amount * bps <= amount * MAX_BPS
  BY Constants
<1>2. paid * MAX_BPS <= amount * MAX_BPS
  BY <1>1, Constants
<1> QED BY <1>2, Constants

-----------------------------------------------------------------------------
(* Each action, on the type invariant.                                     *)

\* What a listed partner is owed, while the row is there.
LEMMA RowType ==
  ASSUME TypeOK, NEW p \in Partners
  PROVE  /\ partners[p] # NoPartner =>
              /\ partners[p] \in Partner
              /\ partners[p].bps \in 0..MAX_BPS
              /\ partners[p].payout \in Holders
              /\ FeeOf(p) = partners[p].bps
         /\ partners[p] = NoPartner => FeeOf(p) = 0
         /\ FeeOf(p) \in 0..MAX_BPS
<1>1. partners[p] \in Partner \cup {NoPartner}
  BY DEF TypeOK
<1> QED BY <1>1, Constants DEF Partner, FeeOf

\* The open frame, field by field.
LEMMA FrameType ==
  ASSUME TypeOK, call # NoCall
  PROVE  /\ call \in Frame
         /\ call.status \in Statuses /\ call.from \in Holders
         /\ call.signed \in BOOLEAN /\ call.amount \in I128
         /\ call.list \in Seq(Partners) /\ Len(call.list) \in Nat
         /\ call.next \in Nat /\ call.bps \in Nat /\ call.paid \in Nat
         /\ call.events \in Seq(Event)
         /\ call.before \in [Holders -> 0 .. I128_MAX]
<1>1. call \in Frame
  BY DEF TypeOK
<1>2. call.list \in Seq(Partners)
  BY <1>1 DEF Frame
<1>3. Len(call.list) \in Nat
  BY <1>2
<1> QED BY <1>1, <1>3 DEF Frame

\* A partners list is a sequence of partners.
LEMMA ListType == Lists \subseteq Seq(Partners)
<1> SUFFICES ASSUME NEW n \in 0..MaxList, NEW list \in [1..n -> Partners]
             PROVE  list \in Seq(Partners)
  BY DEF Lists
<1>1. n \in Nat
  BY Constants
<1> QED BY <1>1

\* The initial state is of the right type.
LEMMA InitType == Init => TypeOK
BY Constants DEF Init, ACInit, TypeOK, ACTypeOK, U32

\* A call of the admin interface keeps the types of the admin state.
LEMMA AdminType ==
  ASSUME TypeOK, AdminStep
  PROVE  ACTypeOK' /\ seq' = seq
BY Constants DEF TypeOK, ACTypeOK, AdminStep, TransferAdminRole,
   AcceptAdminTransfer, RenounceAdmin, AcceptAdminAnswer, Larger

\* A transfer the token accepts leaves every balance within i128.
LEMMA TransferType ==
  ASSUME TypeOK, NEW from \in Holders, NEW to \in Holders, NEW n \in Nat,
         CanTransfer(from, to, n)
  PROVE  Transferred(from, to, n) \in [Holders -> 0 .. I128_MAX]
<1>1. bal \in [Holders -> 0 .. I128_MAX] /\ I128_MAX \in Nat
  BY Constants DEF TypeOK
<1>2. CASE from = to
  BY <1>1, <1>2 DEF Transferred
<1>3. CASE from # to
  <2>1. bal[from] - n \in 0..I128_MAX /\ bal[to] + n \in 0..I128_MAX
    BY <1>1, <1>3 DEF CanTransfer
  <2> QED BY <1>1, <1>3, <2>1 DEF Transferred
<1> QED BY <1>2, <1>3

\* The operations of the token's admin.
LEMMA TokenAdminType ==
  ASSUME TypeOK, TokenAdminOp
  PROVE  /\ bal' \in [Holders -> 0 .. I128_MAX]
         /\ frozen' \in SUBSET Holders
         /\ sacAdmin' \in {Wrapper, Issuer}
<1>1. /\ bal \in [Holders -> 0 .. I128_MAX] /\ I128_MAX \in Nat
      /\ frozen \in SUBSET Holders /\ sacAdmin \in {Wrapper, Issuer}
  BY Constants DEF TypeOK
<1>2. ASSUME NEW h \in Holders, NEW n \in Amounts, Mint(h, n) \/ Clawback(h, n)
      PROVE  bal' \in [Holders -> 0 .. I128_MAX]
  <2>1. n \in Int
    BY Constants DEF I128
  <2>2. CASE Mint(h, n)
    BY <1>1, <2>1, <2>2 DEF Mint
  <2>3. CASE Clawback(h, n)
    BY <1>1, <2>1, <2>3 DEF Clawback
  <2> QED BY <1>2, <2>2, <2>3
<1> QED BY <1>1, <1>2 DEF TokenAdminOp, Mint, Clawback, SetAuthorized, SetSacAdmin

\* What an accepted set_partner knows of its arguments.
LEMMA SetPartnerFacts ==
  ASSUME TypeOK, NEW caller \in Accounts, NEW p \in Partners,
         NEW bps \in BpsArgs, SetPartnerAnswer(caller, p, bps) = "Ok"
  PROVE  /\ bps \in 0..MAX_BPS /\ FeeOf(p) <= totalBps
         /\ NewTotal(p, bps) \in 0..MAX_BPS
<1>1. OnlyAdmin(caller) = "Ok" /\ ~(bps > MAX_BPS)
      /\ ~(totalBps < FeeOf(p)) /\ ~(NewTotal(p, bps) > MAX_BPS)
  BY DEF SetPartnerAnswer
<1>2. bps \in Nat /\ FeeOf(p) \in 0..MAX_BPS /\ totalBps \in Nat
  BY RowType, Constants DEF TypeOK, U32
<1> QED BY <1>1, <1>2, Constants DEF NewTotal

\* The locals of the loop, in every frame: the position stays in the list, the
\* fees so far within 100% and what is paid within them.
FrameInv ==
  call # NoCall =>
    /\ call.amount \in Amounts /\ call.amount > 0 /\ call.list \in Lists
    /\ call.next \in 1 .. Len(call.list) + 1
    /\ call.bps <= MAX_BPS
    /\ call.paid * MAX_BPS <= call.amount * call.bps

\* The listed partner of an open iteration.
LEMMA ListedType ==
  ASSUME TypeOK, FrameInv, AtPartner
  PROVE  /\ call # NoCall /\ call.status = "paying"
         /\ call.next \in 1..Len(call.list) /\ Listed \in Partners
<1>1. call # NoCall /\ call.status = "paying"
  BY DEF AtPartner, Paying
<1>2. call.list \in Seq(Partners) /\ call.next \in 1..Len(call.list)
  BY <1>1, FrameType DEF FrameInv, AtPartner
<1> QED BY <1>1, <1>2 DEF Listed

\* What an iteration that succeeds knows.
LEMMA PayFacts ==
  ASSUME TypeOK, FrameInv, AtPartner, StepAnswer = "Ok"
  PROVE  LET p == partners[Listed]  share == Share(call.amount, p.bps)
         IN  /\ p # NoPartner /\ p \in Partner /\ p.payout \in Holders
             /\ p.bps \in Nat /\ FeeOf(Listed) = p.bps
             /\ call.bps + p.bps <= MAX_BPS
             /\ share \in Nat /\ share \in I128
             /\ share * MAX_BPS <= call.amount * p.bps
             /\ share > 0 => CanTransfer(call.from, p.payout, share)
<1> DEFINE p == partners[Listed]
           share == Share(call.amount, p.bps)
<1>1. Listed \in Partners /\ call # NoCall
  BY ListedType
<1>2. p # NoPartner
  BY DEF StepAnswer
<1>3. p \in Partner /\ p.payout \in Holders /\ p.bps \in Nat
      /\ FeeOf(Listed) = p.bps
  BY <1>1, <1>2, RowType, Constants
<1>4. ~(call.bps + p.bps > MAX_BPS)
  BY DEF StepAnswer, CapExceeded
<1>5. ~(call.amount * p.bps > I128_MAX)
  BY DEF StepAnswer
<1>6. ~(share > 0 /\ ~(PayerAuthorized /\ CanTransfer(call.from, p.payout, share)))
  BY DEF StepAnswer
<1>7. call.amount \in Nat /\ call.amount > 0 /\ call.bps \in Nat
  BY <1>1, FrameType, Constants DEF FrameInv, I128
<1>8. call.amount * p.bps \in Nat
  BY <1>3, <1>7
<1>9. /\ share \in Nat /\ share * MAX_BPS <= call.amount * p.bps
      /\ share <= call.amount * p.bps
  BY <1>3, <1>7, ShareBound
<1>10. share \in I128
  BY <1>5, <1>8, <1>9, Constants DEF I128
<1> QED BY <1>2, <1>3, <1>4, <1>6, <1>7, <1>9, <1>10, Constants

\* The frame a settlement begins with.
LEMMA BeginFrame ==
  ASSUME TypeOK, NEW caller \in Accounts, NEW from \in Holders,
         NEW signed \in BOOLEAN, NEW amount \in Amounts, NEW list \in Lists,
         SettleBegin(caller, from, signed, amount, list)
  PROVE  /\ call' # NoCall /\ call' \in Frame /\ call'.status = "paying"
         /\ call'.from = from /\ call'.amount = amount /\ call'.list = list
         /\ call'.next = 1 /\ call'.bps = 0 /\ call'.paid = 0
         /\ call'.events = << >> /\ call'.before = bal
         /\ bal' = bal /\ partners' = partners
         /\ list \in Seq(Partners) /\ amount \in Int /\ amount > 0
<1>1. list \in Seq(Partners) /\ amount \in I128 /\ amount > 0
  BY ListType, Constants DEF SettleBegin
<1>2. call' = [status |-> "paying", from |-> from, signed |-> signed,
               amount |-> amount, list |-> list, next |-> 1, bps |-> 0,
               paid |-> 0, events |-> << >>, before |-> bal]
      /\ bal' = bal /\ partners' = partners
  BY DEF SettleBegin, token
<1>3. call' \in Frame
  BY <1>1, <1>2 DEF Frame, Statuses, TypeOK
<1> QED BY <1>1, <1>2, <1>3, Constants DEF I128

\* The frame after an iteration that succeeds.
LEMMA PayFrame ==
  ASSUME TypeOK, FrameInv, PayPartner
  PROVE  LET p == partners[Listed]  share == Share(call.amount, p.bps)
             e == [partner |-> Listed, to |-> p.payout, fee |-> share]
         IN  /\ call # NoCall /\ call' # NoCall /\ call' \in Frame
             /\ call.status = "paying" /\ call'.status = "paying"
             /\ call'.from = call.from /\ call'.before = call.before
             /\ call'.amount = call.amount /\ call'.list = call.list
             /\ call'.next = call.next + 1
             /\ call'.bps = call.bps + p.bps
             /\ call'.paid = call.paid + share
             /\ call'.events = IF share > 0 THEN Append(call.events, e)
                               ELSE call.events
             /\ e \in Event
             /\ partners' = partners
<1> DEFINE p == partners[Listed]
           share == Share(call.amount, p.bps)
           e == [partner |-> Listed, to |-> p.payout, fee |-> share]
<1>1. AtPartner /\ StepAnswer = "Ok" /\ partners' = partners
  BY DEF PayPartner
<1>2. /\ call # NoCall /\ call.status = "paying" /\ Listed \in Partners
  BY <1>1, ListedType
<1>3. /\ p \in Partner /\ p.payout \in Holders /\ p.bps \in Nat
      /\ share \in Nat /\ share \in I128
  BY <1>1, PayFacts
<1>4. /\ call \in Frame /\ call.next \in Nat /\ call.bps \in Nat
      /\ call.paid \in Nat /\ call.events \in Seq(Event)
  BY <1>2, FrameType
<1>5. e \in Event
  BY <1>2, <1>3 DEF Event
<1>6. Append(call.events, e) \in Seq(Event)
  BY <1>4, <1>5
<1>7. call' = [call EXCEPT !.next = @ + 1, !.bps = @ + p.bps,
                 !.paid = @ + share,
                 !.events = IF share > 0 THEN Append(@, e) ELSE @]
  BY DEF PayPartner
<1>8. /\ (IF share > 0 THEN Append(call.events, e) ELSE call.events) \in Seq(Event)
      /\ call.next + 1 \in Nat /\ call.bps + p.bps \in Nat
      /\ call.paid + share \in Nat
  BY <1>3, <1>4, <1>6
<1> HIDE DEF p, share, e
<1>9. /\ call' \in Frame
      /\ call'.status = call.status
      /\ call'.from = call.from /\ call'.before = call.before
      /\ call'.amount = call.amount /\ call'.list = call.list
      /\ call'.next = call.next + 1 /\ call'.bps = call.bps + p.bps
      /\ call'.paid = call.paid + share
      /\ call'.events = IF share > 0 THEN Append(call.events, e)
                        ELSE call.events
  BY <1>4, <1>7, <1>8 DEF Frame
<1>10. call' # NoCall
  BY <1>9, Constants
<1> QED BY <1>1, <1>2, <1>5, <1>9, <1>10 DEF p, share, e

\* An iteration keeps the frame and the balances well typed.
LEMMA PayPartnerSafe ==
  ASSUME TypeOK, FrameInv, PayPartner
  PROVE  TypeOK' /\ FrameInv'
<1> DEFINE p == partners[Listed]
           share == Share(call.amount, p.bps)
<1>1. AtPartner /\ StepAnswer = "Ok"
  BY DEF PayPartner
<1>2. call # NoCall /\ call.next \in 1..Len(call.list)
  BY <1>1, ListedType
<1>3. /\ p \in Partner /\ p.payout \in Holders /\ p.bps \in Nat
      /\ call.bps + p.bps <= MAX_BPS
      /\ share \in Nat
      /\ share * MAX_BPS <= call.amount * p.bps
      /\ share > 0 => CanTransfer(call.from, p.payout, share)
  BY <1>1, PayFacts
<1>4. /\ call.from \in Holders /\ call.next \in Nat /\ call.amount \in Nat
      /\ call.bps \in Nat /\ call.paid \in Nat /\ Len(call.list) \in Nat
  <2>1. call.amount \in I128 /\ call.amount > 0
    BY <1>2, FrameType DEF FrameInv
  <2>2. call.amount \in Nat
    BY <2>1, Constants DEF I128
  <2> QED BY <1>2, <2>2, FrameType
<1>5. bal' \in [Holders -> 0 .. I128_MAX]
  <2>1. CASE share > 0
    <3>1. Transferred(call.from, p.payout, share) \in [Holders -> 0..I128_MAX]
      BY <1>3, <1>4, <2>1, TransferType
    <3> QED BY <2>1, <3>1 DEF PayPartner
  <2>2. CASE ~(share > 0)
    BY <2>2 DEF PayPartner, TypeOK
  <2> QED BY <2>1, <2>2
<1>6. TypeOK'
  BY <1>5, PayFrame DEF PayPartner, TypeOK, ACTypeOK, acVars
<1>7. (call.paid + share) * MAX_BPS <= call.amount * (call.bps + p.bps)
  BY <1>2, <1>3, <1>4, SharesAdd DEF FrameInv
<1>8. /\ call'.amount = call.amount /\ call'.list = call.list
      /\ call'.next = call.next + 1 /\ call'.bps = call.bps + p.bps
      /\ call'.paid = call.paid + share
  BY PayFrame
<1>9. call.next + 1 \in 1 .. Len(call.list) + 1
  BY <1>2, <1>4
<1> HIDE DEF p, share
<1> QED BY <1>2, <1>3, <1>6, <1>7, <1>8, <1>9 DEF FrameInv

\* Every answer of an iteration is a status, and an error closes the frame.
LEMMA StepAnswers == StepAnswer \in Statuses \ {"paying"}
BY DEF StepAnswer, Statuses

\* The frame after an iteration that is refused.
LEMMA RevertFrame ==
  ASSUME TypeOK, FrameInv, Revert
  PROVE  /\ call # NoCall /\ call' # NoCall /\ call' \in Frame
         /\ call.status = "paying"
         /\ call'.status = StepAnswer /\ StepAnswer \notin {"paying", "Ok"}
         /\ call'.from = call.from /\ call'.before = call.before
         /\ call'.amount = call.amount /\ call'.list = call.list
         /\ call'.next = call.next /\ call'.bps = call.bps
         /\ call'.paid = call.paid
         /\ partners' = partners
<1>1. call # NoCall /\ call \in Frame /\ call.status = "paying"
  BY ListedType, FrameType DEF Revert
<1>2. call' = [call EXCEPT !.status = StepAnswer, !.events = << >>]
      /\ partners' = partners /\ StepAnswer # "Ok"
  BY DEF Revert
<1>3. StepAnswer \in Statuses \ {"paying"} /\ << >> \in Seq(Event)
  BY StepAnswers
<1>4. /\ call' \in Frame
      /\ call'.status = StepAnswer
      /\ call'.from = call.from /\ call'.before = call.before
      /\ call'.amount = call.amount /\ call'.list = call.list
      /\ call'.next = call.next /\ call'.bps = call.bps
      /\ call'.paid = call.paid
  BY <1>1, <1>2, <1>3 DEF Frame
<1> QED BY <1>1, <1>2, <1>3, <1>4, Constants

\* A rollback restores typed balances and closes the frame's loop.
LEMMA RevertSafe ==
  ASSUME TypeOK, FrameInv, Revert
  PROVE  TypeOK' /\ FrameInv'
<1>1. call # NoCall /\ call.before \in [Holders -> 0 .. I128_MAX]
  BY RevertFrame, FrameType
<1>2. TypeOK'
  BY <1>1, RevertFrame DEF Revert, TypeOK, ACTypeOK, acVars
<1> QED BY <1>2, RevertFrame DEF FrameInv

\* The frame after the loop.
LEMMA ReturnFrame ==
  ASSUME TypeOK, FrameInv, SettleReturn
  PROVE  /\ call # NoCall /\ call' # NoCall /\ call' \in Frame
         /\ call.status = "paying" /\ call'.status = "Ok"
         /\ call'.from = call.from /\ call'.before = call.before
         /\ call'.amount = call.amount /\ call'.list = call.list
         /\ call'.next = call.next /\ call'.bps = call.bps
         /\ call'.paid = call.paid /\ call'.events = call.events
         /\ partners' = partners /\ bal' = bal
         /\ call.next = Len(call.list) + 1
<1>1. call # NoCall /\ call \in Frame /\ call.status = "paying"
  BY FrameType DEF SettleReturn, Paying
<1>2. call' = [call EXCEPT !.status = "Ok"]
      /\ partners' = partners /\ bal' = bal /\ call.next > Len(call.list)
  BY DEF SettleReturn, token
<1>3. /\ call' \in Frame
      /\ call'.status = "Ok"
      /\ call'.from = call.from /\ call'.before = call.before
      /\ call'.amount = call.amount /\ call'.list = call.list
      /\ call'.next = call.next /\ call'.bps = call.bps
      /\ call'.paid = call.paid /\ call'.events = call.events
  BY <1>1, <1>2 DEF Frame, Statuses
<1>4. call.next = Len(call.list) + 1
  BY <1>1, <1>2, FrameType DEF FrameInv
<1> QED BY <1>1, <1>2, <1>3, <1>4, Constants

\* The return of settle_split ends the loop and moves nothing.
LEMMA SettleReturnSafe ==
  ASSUME TypeOK, FrameInv, SettleReturn
  PROVE  TypeOK' /\ FrameInv'
<1>1. TypeOK'
  BY ReturnFrame DEF SettleReturn, TypeOK, ACTypeOK, acVars, token
<1> QED BY <1>1, ReturnFrame DEF FrameInv

\* The frame that settle_split opens is a well-formed one.
LEMMA SettleBeginSafe ==
  ASSUME TypeOK, NEW caller \in Accounts, NEW from \in Holders,
         NEW signed \in BOOLEAN, NEW amount \in Amounts, NEW list \in Lists,
         SettleBegin(caller, from, signed, amount, list)
  PROVE  TypeOK' /\ FrameInv'
<1>1. TypeOK'
  BY BeginFrame DEF SettleBegin, TypeOK, ACTypeOK, acVars, token
<1>2. list \in Seq(Partners) /\ amount \in Int /\ amount > 0
  BY BeginFrame
<1>3. 1 \in 1 .. Len(list) + 1 /\ 0 <= MAX_BPS /\ 0 * MAX_BPS <= amount * 0
  BY <1>2, Constants
<1> QED BY <1>1, <1>2, <1>3, BeginFrame DEF FrameInv

\* The two calls that change the registry.
LEMMA SetPartnerSafe ==
  ASSUME TypeOK, NEW caller \in Accounts, NEW p \in Partners,
         NEW bps \in BpsArgs, NEW payout \in Holders,
         SetPartner(caller, p, bps, payout)
  PROVE  TypeOK'
<1>1. bps \in 0..MAX_BPS /\ NewTotal(p, bps) \in 0..MAX_BPS
  BY SetPartnerFacts DEF SetPartner
<1>2. [bps |-> bps, payout |-> payout] \in Partner /\ NewTotal(p, bps) \in U32
  BY <1>1, Constants DEF Partner, U32
<1> QED
  BY <1>2 DEF SetPartner, Transaction, TypeOK, ACTypeOK, acVars, token

\* remove_partner keeps the types: its subtraction saturates at zero.
LEMMA RemovePartnerSafe ==
  ASSUME TypeOK, NEW caller \in Accounts, NEW p \in Partners,
         RemovePartner(caller, p)
  PROVE  TypeOK'
<1>1. FeeOf(p) \in Nat /\ totalBps \in U32
  BY RowType, Constants DEF TypeOK
<1>2. (IF totalBps >= FeeOf(p) THEN totalBps - FeeOf(p) ELSE 0) \in U32
  BY <1>1, Constants DEF U32
<1> QED
  BY <1>2 DEF RemovePartner, Transaction, TypeOK, ACTypeOK, acVars, token

\* The other transactions: of the clock, the admin and the token.
LEMMA OtherSafe ==
  ASSUME TypeOK, \/ CloseLedger \/ AdminCall \/ IssuerCall
                 \/ \E caller \in Accounts : WrapperCall(caller)
  PROVE  TypeOK' /\ call' = NoCall /\ partners' = partners
         /\ totalBps' = totalBps
<1>1. CASE CloseLedger
  BY <1>1, Constants DEF CloseLedger, CloseLedgerAC, Transaction, TypeOK,
     ACTypeOK, token
<1>2. CASE AdminCall
  BY <1>2, AdminType DEF AdminCall, Transaction, TypeOK, ACTypeOK, token
<1>3. CASE IssuerCall
  BY <1>3, TokenAdminType DEF IssuerCall, Transaction, TypeOK, ACTypeOK, acVars
<1>4. CASE \E caller \in Accounts : WrapperCall(caller)
  BY <1>4, TokenAdminType DEF WrapperCall, Transaction, TypeOK, ACTypeOK, acVars
<1> QED BY <1>1, <1>2, <1>3, <1>4

\* There is no frame at first.
LEMMA InitSafe == Init => TypeOK /\ FrameInv
BY InitType DEF Init, FrameInv

\* The inductive step of the type invariant and of the open frame's shape.
LEMMA NextSafe == TypeOK /\ FrameInv /\ [Next]_vars => TypeOK' /\ FrameInv'
<1> SUFFICES ASSUME TypeOK, FrameInv, [Next]_vars PROVE TypeOK' /\ FrameInv'
  OBVIOUS
<1>1. CASE \/ CloseLedger \/ AdminCall \/ IssuerCall
           \/ \E caller \in Accounts : WrapperCall(caller)
  BY <1>1, OtherSafe DEF FrameInv
<1>2. CASE \E caller \in Accounts, p \in Partners, bps \in BpsArgs,
              payout \in Holders : SetPartner(caller, p, bps, payout)
  BY <1>2, SetPartnerSafe DEF SetPartner, Transaction, FrameInv
<1>3. CASE \E caller \in Accounts, p \in Partners : RemovePartner(caller, p)
  BY <1>3, RemovePartnerSafe DEF RemovePartner, Transaction, FrameInv
<1>4. CASE \E caller \in Accounts, from \in Holders, signed \in BOOLEAN,
              amount \in Amounts, list \in Lists :
             SettleBegin(caller, from, signed, amount, list)
  BY <1>4, SettleBeginSafe
<1>5. CASE PayPartner
  BY <1>5, PayPartnerSafe
<1>6. CASE Revert
  BY <1>6, RevertSafe
<1>7. CASE SettleReturn
  BY <1>7, SettleReturnSafe
<1>8. CASE UNCHANGED vars
  BY <1>8 DEF vars, TypeOK, ACTypeOK, FrameInv
<1> QED BY <1>1, <1>2, <1>3, <1>4, <1>5, <1>6, <1>7, <1>8 DEF Next

\* Every reachable state of the contract and of the token is well typed: fees
\* stay within 100%, balances within i128, and a settlement's locals in range.
THEOREM TypeCorrect == Spec => []TypeOK
<1>1. Spec => [](TypeOK /\ FrameInv)
  BY InitSafe, NextSafe, PTL DEF Spec
<1> QED BY <1>1, PTL

\* However shares are rounded, whatever the fees, the amount and the list, the
\* payouts of a settlement stay within its amount.
THEOREM PaidStaysWithinAmount == Spec => []PaidWithinAmount
<1>1. TypeOK /\ FrameInv => PaidWithinAmount
  <2> SUFFICES ASSUME TypeOK, FrameInv, call # NoCall
               PROVE  /\ call.paid * MAX_BPS <= call.amount * call.bps
                      /\ call.bps <= MAX_BPS /\ call.paid <= call.amount
    BY DEF PaidWithinAmount
  <2>1. call.amount \in Nat /\ call.paid \in Nat /\ call.bps \in Nat
    BY FrameType, Constants DEF FrameInv, I128
  <2> QED BY <2>1, WithinAmount DEF FrameInv
<1>2. Spec => [](TypeOK /\ FrameInv)
  BY InitSafe, NextSafe, PTL DEF Spec
<1> QED BY <1>1, <1>2, PTL

-----------------------------------------------------------------------------
(* The running total.                                                      *)

\* Replacing one fee replaces it in the sum.
LEMMA RegistryChange ==
  ASSUME TypeOK, TypeOK', TotalMatchesRegistry, NEW p \in Partners,
         \A q \in Partners \ {p} : partners'[q] = partners[q]
  PROVE  /\ IsFiniteSet(Units(Fees', Partners))
         /\ Total(Fees', Partners) = totalBps - FeeOf(p) + FeeOf(p)'
         /\ FeeOf(p) <= totalBps
<1>1. FeeOf(p) \in Nat /\ FeeOf(p)' \in Nat
  BY RowType, Constants DEF TypeOK, Partner, FeeOf
<1>2. Fees[p] = FeeOf(p) /\ Fees'[p] = FeeOf(p)'
  BY DEF Fees
<1>3. \A q \in Partners \ {p} : Fees[q] = Fees'[q]
  BY DEF Fees, FeeOf
<1> QED BY <1>1, <1>2, <1>3, SumAfterChange DEF TotalMatchesRegistry

\* No partner, and a total of zero.
LEMMA InitTotal == Init => TotalMatchesRegistry
<1> SUFFICES ASSUME Init PROVE TotalMatchesRegistry
  OBVIOUS
<1>1. \A p \in Partners : Fees[p] = 0
  BY DEF Init, Fees, FeeOf
<1>2. Units(Fees, Partners) = {}
  BY <1>1 DEF Units
<1>3. totalBps = 0
  BY DEF Init
<1> QED BY <1>2, <1>3, FS_EmptySet, Constants DEF TotalMatchesRegistry, Total

\* A step that leaves the registry alone leaves its sum alone.
LEMMA SameRegistry ==
  ASSUME TotalMatchesRegistry, partners' = partners, totalBps' = totalBps
  PROVE  TotalMatchesRegistry'
BY DEF TotalMatchesRegistry, Fees, FeeOf

\* The inductive step of TotalMatchesRegistry: each operation moves the total by
\* what it changes of one partner's fee.
LEMMA NextTotal ==
  TypeOK /\ FrameInv /\ TotalMatchesRegistry /\ [Next]_vars
    => TotalMatchesRegistry'
<1> SUFFICES ASSUME TypeOK, FrameInv, TotalMatchesRegistry, [Next]_vars
             PROVE  TotalMatchesRegistry'
  OBVIOUS
<1> USE NextSafe
<1>1. CASE \/ CloseLedger \/ AdminCall \/ IssuerCall
           \/ \E caller \in Accounts : WrapperCall(caller)
  BY <1>1, OtherSafe, SameRegistry
<1>2. CASE \E caller \in Accounts, p \in Partners, bps \in BpsArgs,
              payout \in Holders : SetPartner(caller, p, bps, payout)
  <2> PICK caller \in Accounts, p \in Partners, bps \in BpsArgs,
           payout \in Holders : SetPartner(caller, p, bps, payout)
    BY <1>2
  <2>1. partners' = [partners EXCEPT ![p] = [bps |-> bps, payout |-> payout]]
        /\ totalBps' = totalBps - FeeOf(p) + bps
    BY DEF SetPartner, NewTotal
  <2>2. FeeOf(p)' = bps /\ \A q \in Partners \ {p} : partners'[q] = partners[q]
    <3>1. partners'[p] = [bps |-> bps, payout |-> payout]
          /\ \A q \in Partners \ {p} : partners'[q] = partners[q]
      BY <2>1 DEF TypeOK
    <3>2. partners'[p] \in Partner
      BY <3>1, SetPartnerFacts DEF SetPartner, Partner
    <3>3. partners'[p] # NoPartner
      BY <3>2, Constants
    <3> QED BY <3>1, <3>3 DEF FeeOf
  <2>3. totalBps' <= MAX_BPS
    BY <2>1, SetPartnerFacts, Constants DEF SetPartner, NewTotal
  <2>4. TypeOK'
    BY SetPartnerSafe
  <2> QED BY <2>1, <2>2, <2>3, <2>4, RegistryChange DEF TotalMatchesRegistry
<1>3. CASE \E caller \in Accounts, p \in Partners : RemovePartner(caller, p)
  <2> PICK caller \in Accounts, p \in Partners : RemovePartner(caller, p)
    BY <1>3
  <2>1. partners' = [partners EXCEPT ![p] = NoPartner]
    BY DEF RemovePartner
  <2>2. FeeOf(p)' = 0 /\ \A q \in Partners \ {p} : partners'[q] = partners[q]
    BY <2>1 DEF TypeOK, FeeOf
  <2>3. TypeOK'
    BY RemovePartnerSafe
  <2>4. /\ IsFiniteSet(Units(Fees', Partners))
        /\ Total(Fees', Partners) = totalBps - FeeOf(p) + 0
        /\ FeeOf(p) <= totalBps
    BY <2>2, <2>3, RegistryChange
  <2>5. FeeOf(p) \in Nat /\ totalBps \in Nat
    BY RowType, Constants DEF TypeOK, U32
  <2>6. totalBps' = totalBps - FeeOf(p)
    BY <2>4, <2>5 DEF RemovePartner
  <2> QED BY <2>4, <2>5, <2>6, Constants DEF TotalMatchesRegistry
<1>4. CASE \E caller \in Accounts, from \in Holders, signed \in BOOLEAN,
              amount \in Amounts, list \in Lists :
             SettleBegin(caller, from, signed, amount, list)
  BY <1>4, SameRegistry DEF SettleBegin
<1>5. CASE PayPartner \/ Revert \/ SettleReturn
  BY <1>5, SameRegistry DEF PayPartner, Revert, SettleReturn
<1>6. CASE UNCHANGED vars
  BY <1>6, SameRegistry DEF vars
<1> QED BY <1>1, <1>2, <1>3, <1>4, <1>5, <1>6 DEF Next

\* The stored running total is the sum of the registered fees and at most
\* 100%, after any sequence of updates and removals of any partners.
THEOREM TotalIsSumOfFees == Spec => []TotalMatchesRegistry
BY InitSafe, NextSafe, InitTotal, NextTotal, PTL DEF Spec

\* The checked additions and subtractions of the running total never
\* overflow, and the saturating one never saturates.
THEOREM TotalArithmeticSafe == Spec => []TotalNeverDrifts
<1>1. TypeOK /\ TotalMatchesRegistry => TotalNeverDrifts
  <2> SUFFICES ASSUME TypeOK, TotalMatchesRegistry, NEW p \in Partners
               PROVE  /\ totalBps >= FeeOf(p)
                      /\ \A caller \in Accounts, bps \in BpsArgs :
                           SetPartnerAnswer(caller, p, bps) # "Overflow"
    BY DEF TotalNeverDrifts
  <2>1. FeeOf(p) \in Nat /\ Fees[p] = FeeOf(p) /\ totalBps \in Nat
    BY RowType, Constants DEF Fees, TypeOK, U32
  <2>2. FeeOf(p) <= totalBps
    BY <2>1, SumAfterChange DEF TotalMatchesRegistry
  <2>3. ASSUME NEW caller \in Accounts, NEW bps \in BpsArgs
        PROVE  SetPartnerAnswer(caller, p, bps) # "Overflow"
    <3>1. CASE bps <= MAX_BPS
      <4>1. NewTotal(p, bps) <= U32_MAX
        BY <2>1, <2>2, <3>1, Constants DEF NewTotal, TotalMatchesRegistry
      <4>2. ~(totalBps < FeeOf(p)) /\ ~(NewTotal(p, bps) > U32_MAX)
        BY <2>1, <2>2, <4>1, Constants DEF NewTotal
      <4> QED BY <4>2 DEF SetPartnerAnswer, OnlyAdmin
    <3>2. CASE bps > MAX_BPS
      BY <3>2 DEF SetPartnerAnswer, OnlyAdmin
    <3>3. bps \in Nat
      BY Constants
    <3> QED BY <3>1, <3>2, <3>3, Constants
  <2> QED BY <2>1, <2>2, <2>3
<1>2. Spec => [](TypeOK /\ FrameInv) /\ []TotalMatchesRegistry
  BY InitSafe, NextSafe, TotalIsSumOfFees, PTL DEF Spec
<1> QED BY <1>1, <1>2, PTL

-----------------------------------------------------------------------------
(* The loop of a settlement: fees, shares and balances at every position.  *)

\* A step closes the last frame, opens one, works on the open one, or does
\* nothing.
LEMMA StepsOfFrame ==
  ASSUME TypeOK, FrameInv, [Next]_vars
  PROVE  \/ call' = NoCall
         \/ \E caller \in Accounts, from \in Holders, signed \in BOOLEAN,
               amount \in Amounts, list \in Lists :
              SettleBegin(caller, from, signed, amount, list)
         \/ PayPartner \/ Revert \/ SettleReturn
         \/ UNCHANGED vars
BY OtherSafe DEF Next, SetPartner, RemovePartner, Transaction

\* What an iteration does to the balances, whoever the payer and the payout.
LEMMA PayBalances ==
  ASSUME TypeOK, FrameInv, PayPartner, NEW h \in Holders
  PROVE  LET p == partners[Listed]  share == Share(call.amount, p.bps)
         IN  /\ bal'[h] = bal[h] + (IF p.payout = h THEN share ELSE 0)
                            - (IF h = call.from THEN share ELSE 0)
             /\ bal[h] \in Nat /\ bal'[h] \in Nat /\ share \in Nat
<1> DEFINE p == partners[Listed]
           share == Share(call.amount, p.bps)
<1>1. p.payout \in Holders /\ share \in Nat
  BY PayFacts DEF PayPartner
<1>2. call.from \in Holders
  BY ListedType, FrameType DEF PayPartner
<1>3. bal' = IF share > 0 THEN Transferred(call.from, p.payout, share) ELSE bal
  BY DEF PayPartner
<1>4. bal \in [Holders -> 0 .. I128_MAX] /\ bal' \in [Holders -> 0 .. I128_MAX]
  BY PayPartnerSafe DEF TypeOK
<1> HIDE DEF p, share
<1>5. bal[h] \in Nat /\ bal'[h] \in Nat
  BY <1>4, Constants
<1>6. bal'[h] = bal[h] + (IF p.payout = h THEN share ELSE 0)
                  - (IF h = call.from THEN share ELSE 0)
  <2>1. CASE share > 0 /\ call.from # p.payout
    BY <1>1, <1>2, <1>3, <1>4, <1>5, <2>1 DEF Transferred
  <2>2. CASE ~(share > 0 /\ call.from # p.payout)
    BY <1>1, <1>2, <1>3, <1>4, <1>5, <2>2 DEF Transferred
  <2> QED BY <2>1, <2>2
<1> QED BY <1>1, <1>5, <1>6 DEF p, share

\* The positions of the list that were paid, the fees and the shares at every
\* position, and the positions paid to one holder.
Done == 1 .. call.next - 1
ListFees == [i \in DOMAIN call.list |-> FeeOf(call.list[i])]
Shares ==
  [i \in DOMAIN call.list |-> Share(call.amount, FeeOf(call.list[i]))]
To(h) == {i \in Done : partners[call.list[i]].payout = h}

NotRefused == call # NoCall /\ call.status \in {"paying", "Ok"}

\* The locals are sums over the positions done and the balances are those
\* sums; a refused settlement has the balances it began with.
LoopInv ==
  /\ NotRefused =>
       /\ \A i \in Done : partners[call.list[i]] # NoPartner
       /\ call.status = "Ok" => call.next = Len(call.list) + 1
       /\ IsFiniteSet(Units(ListFees, Done))
       /\ call.bps = Total(ListFees, Done)
       /\ IsFiniteSet(Units(Shares, Done))
       /\ call.paid = Total(Shares, Done)
       /\ \A h \in Holders :
            /\ IsFiniteSet(Units(Shares, To(h)))
            /\ bal[h] = call.before[h] + Total(Shares, To(h))
                          - (IF h = call.from THEN call.paid ELSE 0)
  /\ call # NoCall /\ ~NotRefused => bal = call.before

\* At the start of the loop nothing is paid and nobody has been visited.
LEMMA BeginLoop ==
  ASSUME TypeOK, NEW caller \in Accounts, NEW from \in Holders,
         NEW signed \in BOOLEAN, NEW amount \in Amounts, NEW list \in Lists,
         SettleBegin(caller, from, signed, amount, list)
  PROVE  LoopInv'
<1>1. /\ call'.status = "paying" /\ call'.next = 1 /\ call'.bps = 0
      /\ call'.paid = 0 /\ call'.before = bal /\ bal' = bal
      /\ NotRefused'
  BY BeginFrame DEF NotRefused
<1>2. Done' = {} /\ \A h \in Holders : To(h)' = {}
  BY <1>1 DEF Done, To
<1>3. \A f : IsFiniteSet(Units(f, {})) /\ Total(f, {}) = 0
  BY EmptySum
<1>4. \A h \in Holders : bal[h] \in Int
  BY Constants DEF TypeOK
<1>5. \A h \in Holders :
        /\ IsFiniteSet(Units(Shares', To(h)'))
        /\ bal'[h] = call'.before[h] + Total(Shares', To(h)')
                       - (IF h = call'.from THEN call'.paid ELSE 0)
  BY <1>1, <1>2, <1>3, <1>4
<1> QED BY <1>1, <1>2, <1>3, <1>5 DEF LoopInv

\* One iteration pays the listed partner's share and adds it to both sums.
LEMMA PayLoop ==
  ASSUME TypeOK, FrameInv, LoopInv, PayPartner
  PROVE  LoopInv'
<1> DEFINE p == partners[Listed]
           share == Share(call.amount, p.bps)
           k == call.next
<1>1. /\ p # NoPartner /\ FeeOf(Listed) = p.bps /\ p.bps \in Nat
      /\ share \in Nat /\ p.payout \in Holders
  BY PayFacts DEF PayPartner
<1>2. k \in 1..Len(call.list) /\ call.list \in Seq(Partners) /\ k \in Nat
  BY ListedType, FrameType DEF PayPartner
<1>3. /\ call'.status = "paying" /\ call'.list = call.list
      /\ call'.amount = call.amount /\ call'.next = k + 1
      /\ call'.bps = call.bps + p.bps /\ call'.paid = call.paid + share
      /\ call'.before = call.before /\ call'.from = call.from
      /\ partners' = partners /\ NotRefused /\ NotRefused'
  BY PayFrame DEF NotRefused
<1>4. ListFees' = ListFees /\ Shares' = Shares
  BY <1>3 DEF ListFees, Shares, FeeOf
<1>5. ListFees[k] = p.bps /\ Shares[k] = share
  BY <1>1, <1>2 DEF ListFees, Shares, Listed
<1>6. Done' = Done \cup {k} /\ k \notin Done
  BY <1>2, <1>3 DEF Done
<1>7. Listed = call.list[k] /\ call'.list[k] = call.list[k]
  BY <1>3 DEF Listed
<1>8. \A i \in Done' : partners'[call'.list[i]] # NoPartner
  BY <1>1, <1>3, <1>6, <1>7 DEF LoopInv
<1>9. /\ IsFiniteSet(Units(ListFees', Done'))
      /\ call'.bps = Total(ListFees', Done')
  <2>1. /\ IsFiniteSet(Units(ListFees, Done)) /\ ListFees[k] \in Nat
        /\ call.bps = Total(ListFees, Done)
    BY <1>1, <1>3, <1>5 DEF LoopInv
  <2>2. /\ IsFiniteSet(Units(ListFees, Done \cup {k}))
        /\ Total(ListFees, Done \cup {k}) = Total(ListFees, Done) + ListFees[k]
    BY <1>6, <2>1, SumWithOneMore
  <2> QED BY <1>3, <1>4, <1>5, <1>6, <2>1, <2>2
<1>10. /\ IsFiniteSet(Units(Shares', Done'))
       /\ call'.paid = Total(Shares', Done')
  <2>1. /\ IsFiniteSet(Units(Shares, Done)) /\ Shares[k] \in Nat
        /\ call.paid = Total(Shares, Done)
    BY <1>1, <1>3, <1>5 DEF LoopInv
  <2>2. /\ IsFiniteSet(Units(Shares, Done \cup {k}))
        /\ Total(Shares, Done \cup {k}) = Total(Shares, Done) + Shares[k]
    BY <1>6, <2>1, SumWithOneMore
  <2> QED BY <1>3, <1>4, <1>5, <1>6, <2>1, <2>2
<1>11. ASSUME NEW h \in Holders
       PROVE  /\ IsFiniteSet(Units(Shares', To(h)'))
              /\ bal'[h] = call'.before[h] + Total(Shares', To(h)')
                             - (IF h = call'.from THEN call'.paid ELSE 0)
  <2>1. /\ IsFiniteSet(Units(Shares, To(h)))
        /\ bal[h] = call.before[h] + Total(Shares, To(h))
                      - (IF h = call.from THEN call.paid ELSE 0)
    BY <1>3 DEF LoopInv
  <2>2. Total(Shares, To(h)) \in Nat
    BY <2>1, SumIsNat
  <2>3. call.before[h] \in Int /\ call.paid \in Nat
    BY <1>3, FrameType, Constants DEF NotRefused
  <2>4. /\ bal'[h] = bal[h] + (IF p.payout = h THEN share ELSE 0)
                       - (IF h = call.from THEN share ELSE 0)
        /\ bal[h] \in Nat
    BY PayBalances
  <2>5. k \notin To(h)
    BY <1>6 DEF To
  <2>6. CASE p.payout = h
    <3>1. To(h)' = To(h) \cup {k}
      BY <1>3, <1>6, <1>7, <2>6 DEF To
    <3>2. Shares[k] \in Nat
      BY <1>1, <1>5
    <3>3. /\ IsFiniteSet(Units(Shares, To(h) \cup {k}))
          /\ Total(Shares, To(h) \cup {k}) = Total(Shares, To(h)) + Shares[k]
      BY <2>1, <2>5, <3>2, SumWithOneMore
    <3> HIDE DEF p, share, k
    <3> QED BY <1>1, <1>3, <1>4, <1>5, <2>1, <2>2, <2>3, <2>4, <2>6, <3>1, <3>3
  <2>7. CASE p.payout # h
    <3>1. To(h)' = To(h)
      BY <1>3, <1>6, <1>7, <2>7 DEF To
    <3> HIDE DEF p, share, k
    <3> QED BY <1>1, <1>3, <1>4, <2>1, <2>2, <2>3, <2>4, <2>7, <3>1
  <2> QED BY <2>6, <2>7
<1> QED BY <1>3, <1>8, <1>9, <1>10, <1>11 DEF LoopInv

\* After a rollback the balances are those from before the call.
LEMMA RevertLoop ==
  ASSUME TypeOK, FrameInv, Revert
  PROVE  LoopInv'
<1>1. bal' = call'.before /\ ~NotRefused'
  BY RevertFrame DEF Revert, NotRefused
<1> QED BY <1>1 DEF LoopInv

\* A step that leaves what LoopInv reads leaves it true.
LEMMA ReturnLoop ==
  ASSUME TypeOK, FrameInv, LoopInv, SettleReturn
  PROVE  LoopInv'
<1>1. NotRefused /\ NotRefused'
  BY ReturnFrame DEF NotRefused
<1>2. Done' = Done /\ ListFees' = ListFees /\ Shares' = Shares
      /\ \A h \in Holders : To(h)' = To(h)
  BY ReturnFrame DEF Done, ListFees, Shares, To, FeeOf
<1> QED BY <1>1, <1>2, ReturnFrame DEF LoopInv

\* There is no loop at first.
LEMMA InitLoop == Init => LoopInv
BY DEF Init, LoopInv, NotRefused

\* The inductive step of LoopInv.
LEMMA NextLoop == TypeOK /\ FrameInv /\ LoopInv /\ [Next]_vars => LoopInv'
<1> SUFFICES ASSUME TypeOK, FrameInv, LoopInv, [Next]_vars PROVE LoopInv'
  OBVIOUS
<1>1. CASE call' = NoCall
  BY <1>1 DEF LoopInv, NotRefused
<1>2. CASE \E caller \in Accounts, from \in Holders, signed \in BOOLEAN,
              amount \in Amounts, list \in Lists :
             SettleBegin(caller, from, signed, amount, list)
  BY <1>2, BeginLoop
<1>3. CASE PayPartner
  BY <1>3, PayLoop
<1>4. CASE Revert
  BY <1>4, RevertLoop
<1>5. CASE SettleReturn
  BY <1>5, ReturnLoop
<1>6. CASE UNCHANGED vars
  BY <1>6 DEF vars, LoopInv, NotRefused, Done, ListFees, Shares, To, FeeOf
<1> QED BY <1>1, <1>2, <1>3, <1>4, <1>5, <1>6, StepsOfFrame

\* A payer who is not a payout is debited by exactly what settle_split
\* returns, and a refused settlement moves nothing, for every list.
THEOREM PayerDebitedOnce == Spec => []DebitIsReturned
<1>1. TypeOK /\ FrameInv /\ LoopInv => DebitIsReturned
  <2> SUFFICES ASSUME TypeOK, FrameInv, LoopInv, call # NoCall
               PROVE  IF call.status \in {"paying", "Ok"}
                      THEN (\A i \in Done :
                              \/ FeeOf(call.list[i]) = 0
                              \/ partners[call.list[i]].payout # call.from)
                           => bal[call.from] = call.before[call.from] - call.paid
                      ELSE bal = call.before
    BY DEF DebitIsReturned, Done
  <2>1. CASE ~NotRefused
    BY <2>1 DEF LoopInv, NotRefused
  <2>2. CASE NotRefused /\ \A i \in Done :
               \/ FeeOf(call.list[i]) = 0
               \/ partners[call.list[i]].payout # call.from
    <3> DEFINE S == To(call.from)
    <3>1. call.from \in Holders /\ call.before[call.from] \in Int
          /\ call.paid \in Int /\ call.amount \in Int
      BY FrameType, Constants DEF I128
    <3>2. \A i \in S : i \in DOMAIN call.list /\ FeeOf(call.list[i]) = 0
      BY <2>2, FrameType DEF To, Done, FrameInv
    <3>3. Share(call.amount, 0) = 0
      <4>1. Share(call.amount, 0) \in Nat /\ Share(call.amount, 0) <= call.amount * 0
        BY <3>1, ShareBound DEF FrameInv
      <4> QED BY <3>1, <4>1
    <3>4. \A i \in S : Shares[i] = 0
      BY <3>2, <3>3 DEF Shares
    <3>5. Units(Shares, S) = {}
      BY <3>4 DEF Units
    <3>6. Total(Shares, S) = 0
      BY <3>5, FS_EmptySet DEF Total
    <3>7. bal[call.from] = call.before[call.from] + Total(Shares, S) - call.paid
      BY <2>2, <3>1 DEF LoopInv
    <3>8. bal[call.from] = call.before[call.from] - call.paid
      BY <3>1, <3>6, <3>7
    <3> QED BY <2>2, <3>8 DEF NotRefused
  <2>3. CASE NotRefused /\ ~\A i \in Done :
               \/ FeeOf(call.list[i]) = 0
               \/ partners[call.list[i]].payout # call.from
    BY <2>3 DEF NotRefused
  <2> QED BY <2>1, <2>2, <2>3
<1>2. Spec => [](TypeOK /\ FrameInv) /\ []LoopInv
  BY InitSafe, NextSafe, InitLoop, NextLoop, PTL DEF Spec
<1> QED BY <1>1, <1>2, PTL

-----------------------------------------------------------------------------
(* A list without repeats is not refused for its fees.                     *)

\* The partners at the positions done; while they are distinct the fees so
\* far are theirs in the registry.
DonePartners == {call.list[i] : i \in Done}
DistinctInv ==
  /\ call # NoCall /\ call.status = "paying" /\ ~Repeats(call.list) =>
       /\ IsFiniteSet(Units(Fees, DonePartners))
       /\ call.bps = Total(Fees, DonePartners)
  /\ RefusedOnlyIfRepeated

\* The next partner of such a list is not among those done, and its fee fits.
LEMMA NextIsNew ==
  ASSUME TypeOK, FrameInv, TotalMatchesRegistry, DistinctInv, AtPartner,
         ~Repeats(call.list)
  PROVE  /\ Listed \notin DonePartners
         /\ IsFiniteSet(Units(Fees, DonePartners \cup {Listed}))
         /\ Total(Fees, DonePartners \cup {Listed}) = call.bps + FeeOf(Listed)
         /\ call.bps + FeeOf(Listed) <= MAX_BPS
<1>1. /\ call # NoCall /\ call.status = "paying" /\ Listed \in Partners
      /\ call.next \in 1..Len(call.list) /\ call.list \in Seq(Partners)
      /\ Len(call.list) \in Nat
  BY ListedType, FrameType
<1>2. Done \subseteq 1..Len(call.list) /\ \A i \in Done : i < call.next
  BY <1>1 DEF Done
<1>3. Listed \notin DonePartners
  BY <1>1, <1>2 DEF DonePartners, Listed, Repeats
<1>4. DonePartners \cup {Listed} \subseteq Partners
  BY <1>1, <1>2 DEF DonePartners
<1>5. \A p \in Partners : Fees[p] = FeeOf(p) /\ FeeOf(p) \in Nat
  BY RowType, Constants DEF Fees
<1>6. /\ IsFiniteSet(Units(Fees, DonePartners))
      /\ call.bps = Total(Fees, DonePartners)
  BY <1>1 DEF DistinctInv
<1>7. Fees[Listed] \in Nat
  BY <1>1, <1>5
<1>8. /\ IsFiniteSet(Units(Fees, DonePartners \cup {Listed}))
      /\ Total(Fees, DonePartners \cup {Listed}) =
           Total(Fees, DonePartners) + Fees[Listed]
  BY <1>3, <1>6, <1>7, SumWithOneMore
<1>9. Total(Fees, DonePartners \cup {Listed}) <= Total(Fees, Partners)
  <2>1. Units(Fees, DonePartners \cup {Listed}) \subseteq Units(Fees, Partners)
    BY <1>4 DEF Units
  <2> QED BY <2>1, FS_Subset DEF Total, TotalMatchesRegistry
<1>10. call.bps + FeeOf(Listed) <= totalBps
  BY <1>1, <1>5, <1>6, <1>8, <1>9 DEF TotalMatchesRegistry
<1>11. totalBps \in Int /\ call.bps + FeeOf(Listed) \in Int
       /\ totalBps <= MAX_BPS
  BY <1>1, <1>5, FrameType DEF TypeOK, U32, TotalMatchesRegistry
<1> QED BY <1>1, <1>3, <1>5, <1>6, <1>8, <1>10, <1>11, Constants

\* The inductive step of DistinctInv.
LEMMA NextDistinct ==
  TypeOK /\ FrameInv /\ TotalMatchesRegistry /\ DistinctInv /\ [Next]_vars
    => DistinctInv'
<1> SUFFICES ASSUME TypeOK, FrameInv, TotalMatchesRegistry, DistinctInv,
                    [Next]_vars
             PROVE  DistinctInv'
  OBVIOUS
<1>1. CASE call' = NoCall
  BY <1>1 DEF DistinctInv, RefusedOnlyIfRepeated
<1>2. CASE \E caller \in Accounts, from \in Holders, signed \in BOOLEAN,
              amount \in Amounts, list \in Lists :
             SettleBegin(caller, from, signed, amount, list)
  <2>1. call'.next = 1 /\ call'.bps = 0 /\ call'.status = "paying"
    BY <1>2, BeginFrame
  <2>2. DonePartners' = {}
    BY <2>1 DEF DonePartners, Done
  <2> QED BY <2>1, <2>2, EmptySum DEF DistinctInv, RefusedOnlyIfRepeated
<1>3. CASE PayPartner
  <2>1. /\ call # NoCall /\ call.status = "paying" /\ call'.status = "paying"
        /\ call'.list = call.list /\ call'.next = call.next + 1
        /\ call'.bps = call.bps + FeeOf(Listed) /\ partners' = partners
    BY <1>3, PayFrame, PayFacts DEF PayPartner
  <2>2. Fees' = Fees
    BY <2>1 DEF Fees, FeeOf
  <2>3. DonePartners' = DonePartners \cup {Listed}
    <3>1. call.next \in 1..Len(call.list)
      BY <1>3, ListedType DEF PayPartner
    <3>2. Done' = Done \cup {call.next}
      BY <2>1, <3>1 DEF Done
    <3> QED BY <2>1, <3>2 DEF DonePartners, Listed
  <2>4. ASSUME ~Repeats(call.list)
        PROVE  /\ IsFiniteSet(Units(Fees, DonePartners'))
               /\ call'.bps = Total(Fees, DonePartners')
    BY <1>3, <2>1, <2>3, <2>4, NextIsNew DEF PayPartner
  <2> QED BY <2>1, <2>2, <2>4 DEF DistinctInv, RefusedOnlyIfRepeated
<1>4. CASE Revert
  <2>1. call # NoCall /\ call'.status = StepAnswer /\ call'.list = call.list
        /\ StepAnswer # "paying"
    BY <1>4, RevertFrame
  <2>2. ASSUME StepAnswer = "SplitExceedsTotal", ~Repeats(call.list)
        PROVE  FALSE
    <3>1. partners[Listed] # NoPartner
          /\ call.bps + partners[Listed].bps > MAX_BPS
      BY <2>2 DEF StepAnswer, CapExceeded
    <3>2. FeeOf(Listed) = partners[Listed].bps
      BY <3>1 DEF FeeOf
    <3>3. call.bps + FeeOf(Listed) <= MAX_BPS
      BY <1>4, <2>2, NextIsNew DEF Revert
    <3>4. call.bps \in Int /\ FeeOf(Listed) \in Int
      BY <1>4, <2>1, ListedType, RowType, FrameType DEF Revert
    <3> QED BY <3>1, <3>2, <3>3, <3>4, Constants
  <2> QED BY <2>1, <2>2 DEF DistinctInv, RefusedOnlyIfRepeated
<1>5. CASE SettleReturn
  BY <1>5, ReturnFrame DEF DistinctInv, RefusedOnlyIfRepeated
<1>6. CASE UNCHANGED vars
  BY <1>6 DEF vars, DistinctInv, RefusedOnlyIfRepeated, DonePartners, Done,
     Fees, FeeOf
<1> QED BY <1>1, <1>2, <1>3, <1>4, <1>5, <1>6, StepsOfFrame

\* A settlement is refused for the sum of its fees only if its list names a
\* partner twice: the registry bounds the fees of any distinct partners.
THEOREM DistinctListFits == Spec => []RefusedOnlyIfRepeated
<1>1. Init => DistinctInv
  BY DEF Init, DistinctInv, RefusedOnlyIfRepeated
<1>2. DistinctInv => RefusedOnlyIfRepeated
  BY DEF DistinctInv
<1> QED
  BY <1>1, <1>2, InitSafe, NextSafe, InitTotal, NextTotal, NextDistinct, PTL
  DEF Spec

-----------------------------------------------------------------------------
(* The events of a settlement.                                             *)

\* The fees in the events, by position, and the events that credit a holder.
EventFees == [i \in DOMAIN call.events |-> call.events[i].fee]
Credits(h) == {i \in DOMAIN call.events : call.events[i].to = h}

EventsInv ==
  NotRefused =>
    /\ \A i \in DOMAIN call.events : call.events[i].fee > 0
    /\ IsFiniteSet(Units(EventFees, DOMAIN call.events))
    /\ call.paid = Total(EventFees, DOMAIN call.events)
    /\ \A h \in Holders :
         /\ IsFiniteSet(Units(EventFees, Credits(h)))
         /\ bal[h] = call.before[h] + Total(EventFees, Credits(h))
                       - (IF h = call.from THEN call.paid ELSE 0)

\* An iteration that transfers: one more event, and one more share paid.
LEMMA PayEvent ==
  ASSUME TypeOK, FrameInv, EventsInv, PayPartner,
         Share(call.amount, partners[Listed].bps) > 0
  PROVE  EventsInv'
<1> DEFINE p == partners[Listed]
           share == Share(call.amount, p.bps)
           e == [partner |-> Listed, to |-> p.payout, fee |-> share]
           n == Len(call.events)
           k == n + 1
<1>1. /\ share \in Nat /\ p.payout \in Holders /\ share > 0
  BY PayFacts DEF PayPartner
<1>2. /\ call.events \in Seq(Event) /\ call.paid \in Nat
      /\ call.before \in [Holders -> 0..I128_MAX]
  BY FrameType, PayFrame
<1>3. /\ call'.events = Append(call.events, e) /\ e \in Event
      /\ call'.paid = call.paid + share
      /\ call'.before = call.before /\ call'.from = call.from
      /\ NotRefused /\ NotRefused'
  BY <1>1, PayFrame DEF NotRefused
<1>4. /\ n \in Nat /\ DOMAIN call.events = 1..n /\ DOMAIN call'.events = 1..k
      /\ \A i \in 1..n : call'.events[i] = call.events[i]
      /\ call'.events[k] = e
  BY <1>2, <1>3
<1>5. /\ 1..k = (1..n) \cup {k} /\ k \notin 1..n
  BY <1>4
<1>6. /\ \A i \in 1..n : EventFees'[i] = EventFees[i]
      /\ EventFees'[k] = share
      /\ \A i \in 1..k : call'.events[i].fee > 0
  <2>1. \A i \in 1..k : EventFees'[i] = call'.events[i].fee
    BY <1>4 DEF EventFees
  <2>2. \A i \in 1..n : EventFees[i] = call.events[i].fee
    BY <1>4 DEF EventFees
  <2>3. \A i \in 1..n : call.events[i].fee > 0
    BY <1>3, <1>4 DEF EventsInv
  <2>4. k \in 1..k /\ e.fee = share
    BY <1>4
  <2> HIDE DEF e, share, k, n
  <2> QED BY <1>1, <1>4, <1>5, <2>1, <2>2, <2>3, <2>4
<1>7. /\ IsFiniteSet(Units(EventFees', 1..k))
      /\ call'.paid = Total(EventFees', 1..k)
  <2>1. IsFiniteSet(Units(EventFees, 1..n)) /\ call.paid = Total(EventFees, 1..n)
    BY <1>3, <1>4 DEF EventsInv
  <2>2. /\ Units(EventFees', 1..n) = Units(EventFees, 1..n)
        /\ Total(EventFees', 1..n) = Total(EventFees, 1..n)
    BY <1>6, SameSum
  <2>3. EventFees'[k] \in Nat /\ IsFiniteSet(Units(EventFees', 1..n))
    BY <1>1, <1>6, <2>1, <2>2
  <2> HIDE DEF e, share, k
  <2>4. /\ IsFiniteSet(Units(EventFees', (1..n) \cup {k}))
        /\ Total(EventFees', (1..n) \cup {k}) =
             Total(EventFees', 1..n) + EventFees'[k]
    BY <1>5, <2>3, SumWithOneMore
  <2> QED BY <1>3, <1>5, <1>6, <2>1, <2>2, <2>4
<1>8. ASSUME NEW h \in Holders
      PROVE  /\ IsFiniteSet(Units(EventFees', Credits(h)'))
             /\ bal'[h] = call'.before[h] + Total(EventFees', Credits(h)')
                            - (IF h = call'.from THEN call'.paid ELSE 0)
  <2> DEFINE S == Credits(h)
  <2>1. /\ IsFiniteSet(Units(EventFees, S))
        /\ bal[h] = call.before[h] + Total(EventFees, S)
                      - (IF h = call.from THEN call.paid ELSE 0)
    BY <1>3 DEF EventsInv
  <2>2. S \subseteq 1..n /\ k \notin S
    BY <1>4, <1>5 DEF Credits
  <2>3. /\ Units(EventFees', S) = Units(EventFees, S)
        /\ Total(EventFees', S) = Total(EventFees, S)
    BY <1>6, <2>2, SameSum
  <2>4. Total(EventFees, S) \in Nat
    BY <2>1, SumIsNat
  <2>5. /\ bal'[h] = bal[h] + (IF p.payout = h THEN share ELSE 0)
                       - (IF h = call.from THEN share ELSE 0)
        /\ bal[h] \in Nat
    BY PayBalances
  <2>6. call.before[h] \in Int
    BY <1>2, Constants
  <2>7. Credits(h)' = IF p.payout = h THEN S \cup {k} ELSE S
    <3>1. Credits(h)' = {i \in 1..k : call'.events[i].to = h}
      BY <1>4 DEF Credits
    <3>2. S = {i \in 1..n : call.events[i].to = h}
      BY <1>4 DEF Credits
    <3>3. e.to = p.payout
      OBVIOUS
    <3> HIDE DEF e, p, k, n, S
    <3> QED BY <1>4, <1>5, <3>1, <3>2, <3>3
  <2> HIDE DEF S
  <2>8. EventFees'[k] \in Nat /\ IsFiniteSet(Units(EventFees', S))
    BY <1>1, <1>6, <2>1, <2>3
  <2> HIDE DEF e, share, k
  <2>9. /\ IsFiniteSet(Units(EventFees', S \cup {k}))
        /\ Total(EventFees', S \cup {k}) = Total(EventFees', S) + EventFees'[k]
    BY <2>2, <2>8, SumWithOneMore
  <2> HIDE DEF p
  <2>10. CASE p.payout = h
    BY <1>1, <1>2, <1>3, <1>6, <2>1, <2>3, <2>4, <2>5, <2>6, <2>7, <2>9, <2>10
  <2>11. CASE p.payout # h
    <3>1. Credits(h)' = S
      BY <2>7, <2>11
    <3>2. bal'[h] = bal[h] - (IF h = call.from THEN share ELSE 0)
      BY <1>1, <2>5, <2>11
    <3>3. Total(EventFees', S) = Total(EventFees, S)
      BY <2>3
    <3> QED BY <1>1, <1>2, <1>3, <2>1, <2>4, <2>6, <2>8, <3>1, <3>2, <3>3
  <2> QED BY <2>10, <2>11
<1> QED BY <1>3, <1>4, <1>6, <1>7, <1>8 DEF EventsInv

\* An iteration whose share is zero moves nothing and tells nothing.
LEMMA PayNothing ==
  ASSUME TypeOK, FrameInv, EventsInv, PayPartner,
         ~(Share(call.amount, partners[Listed].bps) > 0)
  PROVE  EventsInv'
<1>1. Share(call.amount, partners[Listed].bps) = 0
  BY PayFacts DEF PayPartner
<1>2. call.paid \in Nat
  BY PayFrame, FrameType
<1>3. /\ call'.events = call.events /\ call'.paid = call.paid /\ bal' = bal
      /\ call'.before = call.before /\ call'.from = call.from
      /\ NotRefused /\ NotRefused'
  BY <1>1, <1>2, PayFrame DEF PayPartner, NotRefused
<1>4. EventFees' = EventFees /\ \A h \in Holders : Credits(h)' = Credits(h)
  BY <1>3 DEF EventFees, Credits
<1> QED BY <1>3, <1>4 DEF EventsInv

\* At the start of the loop no event is published.
LEMMA BeginEvents ==
  ASSUME TypeOK, NEW caller \in Accounts, NEW from \in Holders,
         NEW signed \in BOOLEAN, NEW amount \in Amounts, NEW list \in Lists,
         SettleBegin(caller, from, signed, amount, list)
  PROVE  EventsInv'
<1>1. /\ call'.events = << >> /\ call'.paid = 0 /\ call'.before = bal
      /\ bal' = bal
  BY BeginFrame
<1>2. DOMAIN call'.events = {} /\ \A h \in Holders : Credits(h)' = {}
  BY <1>1 DEF Credits
<1>3. \A f : IsFiniteSet(Units(f, {})) /\ Total(f, {}) = 0
  BY EmptySum
<1>4. \A h \in Holders : bal[h] \in Int
  BY Constants DEF TypeOK
<1>5. ASSUME NEW h \in Holders
      PROVE  /\ IsFiniteSet(Units(EventFees', Credits(h)'))
             /\ bal'[h] = call'.before[h] + Total(EventFees', Credits(h)')
                            - (IF h = call'.from THEN call'.paid ELSE 0)
  <2>1. Credits(h)' = {}
    BY <1>2
  <2>2. bal'[h] = call'.before[h] /\ bal'[h] \in Int
    BY <1>1, <1>4
  <2> QED BY <1>1, <1>3, <2>1, <2>2
<1>6. call'.paid = Total(EventFees', DOMAIN call'.events)
  BY <1>1, <1>2, <1>3
<1> QED BY <1>1, <1>2, <1>3, <1>5, <1>6 DEF EventsInv

\* The inductive step of EventsInv.
LEMMA NextEvents ==
  TypeOK /\ FrameInv /\ EventsInv /\ [Next]_vars => EventsInv'
<1> SUFFICES ASSUME TypeOK, FrameInv, EventsInv, [Next]_vars PROVE EventsInv'
  OBVIOUS
<1>1. CASE call' = NoCall
  BY <1>1 DEF EventsInv, NotRefused
<1>2. CASE \E caller \in Accounts, from \in Holders, signed \in BOOLEAN,
              amount \in Amounts, list \in Lists :
             SettleBegin(caller, from, signed, amount, list)
  BY <1>2, BeginEvents
<1>3. CASE PayPartner
  BY <1>3, PayEvent, PayNothing
<1>4. CASE Revert
  BY <1>4, RevertFrame DEF EventsInv, NotRefused
<1>5. CASE SettleReturn
  <2>1. EventFees' = EventFees /\ \A h \in Holders : Credits(h)' = Credits(h)
    BY <1>5, ReturnFrame DEF EventFees, Credits
  <2> QED BY <1>5, <2>1, ReturnFrame DEF EventsInv, NotRefused
<1>6. CASE UNCHANGED vars
  BY <1>6 DEF vars, EventsInv, NotRefused, EventFees, Credits
<1> QED BY <1>1, <1>2, <1>3, <1>4, <1>5, <1>6, StepsOfFrame

\* The events of a settlement account for every balance it changed.
THEOREM EventsAreTheAccount == Spec => []EventsExplainBalances
<1>1. Init => EventsInv
  BY DEF Init, EventsInv, NotRefused
<1>2. EventsInv => EventsExplainBalances
  <2> SUFFICES ASSUME EventsInv, NotRefused PROVE EventsExplainBalances
    BY DEF EventsExplainBalances, NotRefused
  <2>1. /\ \A i \in DOMAIN call.events : call.events[i].fee > 0
        /\ Total(EventFees, DOMAIN call.events) = call.paid
        /\ \A h \in Holders :
             bal[h] = call.before[h] + Total(EventFees, Credits(h))
                        - (IF h = call.from THEN call.paid ELSE 0)
    BY DEF EventsInv
  <2> QED BY <2>1, Zenon DEF EventsExplainBalances, EventFees, Credits
<1> QED BY <1>1, <1>2, InitSafe, NextSafe, NextEvents, PTL DEF Spec

-----------------------------------------------------------------------------
(* The refinement: the loop implements an atomic split.                    *)

\* The abstract specification's sums are the sums of this module.
LEMMA SplitSums == \A f, S : Atomic!Total(f, S) = Total(f, S)
<1>1. \A f, S : Atomic!Units(f, S) = Units(f, S)
  BY DEF Atomic!Units, Units
<1> QED BY <1>1 DEF Atomic!Total, Total, Atomic!Cardinality, Cardinality

\* Initial states map to initial states of the atomic split.
LEMMA InitSplit == Init => Atomic!SplitInit
<1> SUFFICES ASSUME Init PROVE Atomic!SplitInit
  OBVIOUS
<1>1. SeenFunds = bal /\ SeenOutcome = <<"none", 0>>
  BY DEF Init, SeenFunds, SeenOutcome, Paying
<1>2. \A h \in Holders : bal[h] >= 0
  BY Constants DEF Init
<1> QED
  BY <1>1, <1>2 DEF Init, Atomic!SplitInit, Atomic!NotASettlement

\* A transaction that moves neither fees nor tokens is a forgotten answer.
LEMMA ForgetStep ==
  ASSUME ~Paying, call' = NoCall \/ (call'.status = "paying" /\ call'.before = bal),
         bal' = bal, frozen' = frozen, partners' = partners
  PROVE  Atomic!Forget
<1>1. SeenFunds = bal /\ SeenFunds' = bal /\ SeenOutcome' = <<"none", 0>>
  BY DEF SeenFunds, SeenOutcome, Paying
<1> QED BY <1>1 DEF Atomic!Forget, Atomic!NotASettlement

\* A change of one partner's row is the abstract Register.
LEMMA RegisterStep ==
  ASSUME ~Paying, call' = NoCall, bal' = bal, frozen' = frozen,
         NEW p \in Partners, \A r \in Partners \ {p} : partners'[r] = partners[r],
         TotalMatchesRegistry'
  PROVE  Atomic!Register
<1>1. SeenFunds = bal /\ SeenFunds' = bal /\ SeenOutcome' = <<"none", 0>>
  BY DEF SeenFunds, SeenOutcome, Paying
<1>2. Atomic!SumOfFees' = Total(Fees', Partners)
  BY SplitSums DEF Atomic!SumOfFees, Fees, FeeOf
<1>3. Atomic!SumOfFees' <= MAX_BPS
  BY <1>2 DEF TotalMatchesRegistry
<1> QED BY <1>1, <1>3 DEF Atomic!Register, Atomic!NotASettlement

\* A call of the token's admin is the abstract TokenChange.
LEMMA TokenStep ==
  ASSUME TypeOK, ~Paying, call' = NoCall, TokenAdminOp, partners' = partners
  PROVE  Atomic!TokenChange
<1>1. SeenFunds = bal /\ SeenFunds' = bal' /\ SeenOutcome' = <<"none", 0>>
  BY DEF SeenFunds, SeenOutcome, Paying
<1>2. \E h \in Holders : \A g \in Holders \ {h} :
        bal'[g] = bal[g] /\ (g \in frozen' <=> g \in frozen)
  <2>1. CASE \E h \in Holders, n \in Amounts : Mint(h, n) \/ Clawback(h, n)
    BY <2>1 DEF Mint, Clawback, TypeOK
  <2>2. CASE \E h \in Holders, b \in BOOLEAN : SetAuthorized(h, b)
    BY <2>2 DEF SetAuthorized
  <2>3. CASE \E new \in {Wrapper, Issuer} : SetSacAdmin(new)
    BY <2>3, Constants DEF SetSacAdmin
  <2> QED BY <2>1, <2>2, <2>3 DEF TokenAdminOp
<1> QED BY <1>1, <1>2 DEF Atomic!TokenChange, Atomic!NotASettlement

\* An iteration is invisible.
LEMMA PayStep ==
  ASSUME TypeOK, FrameInv, PayPartner
  PROVE  UNCHANGED Atomic!splitVars
<1>1. /\ call # NoCall /\ call' # NoCall /\ call.status = "paying"
      /\ call'.status = "paying" /\ call'.before = call.before
      /\ partners' = partners /\ frozen' = frozen
  BY PayFrame DEF PayPartner
<1> QED BY <1>1 DEF SeenFunds, SeenOutcome, Paying, Atomic!splitVars

\* The abstract payout at positions whose partners are registered is the sum of
\* the shares there.
LEMMA PayoutIsShares ==
  ASSUME NEW S, S \subseteq DOMAIN call.list,
         \A i \in S : partners[call.list[i]] # NoPartner
  PROVE  Atomic!Payout(call.amount, call.list, S) = Total(Shares, S)
<1> DEFINE f == [i \in DOMAIN call.list |->
                   Atomic!Share(call.amount, Atomic!Fee(call.list, i))]
<1>1. \A i \in S : f[i] = Shares[i]
  BY DEF Shares, FeeOf, Share, Atomic!Share, Atomic!Fee
<1>2. Total(f, S) = Total(Shares, S)
  BY <1>1, SameSum
<1> QED BY <1>2, SplitSums DEF Atomic!Payout

\* The same of the fees, over the whole list.
LEMMA PayableIsFees ==
  ASSUME \A i \in DOMAIN call.list : partners[call.list[i]] # NoPartner
  PROVE  Atomic!Payable(call.list) <=>
           Total(ListFees, DOMAIN call.list) <= MAX_BPS
<1> DEFINE f == [i \in DOMAIN call.list |-> Atomic!Fee(call.list, i)]
<1>1. f = ListFees
  BY DEF ListFees, FeeOf, Atomic!Fee
<1> QED BY <1>1, SplitSums DEF Atomic!Payable

\* The loop that reached its end is the split.
LEMMA ReturnStep ==
  ASSUME TypeOK, FrameInv, LoopInv, SettleReturn
  PROVE  Atomic!Split(call.from, call.amount, call.list)
<1> DEFINE all == DOMAIN call.list
<1>1. /\ call # NoCall /\ call' # NoCall /\ call.status = "paying"
      /\ call'.status = "Ok" /\ call'.paid = call.paid
      /\ call.next = Len(call.list) + 1
      /\ partners' = partners /\ bal' = bal /\ frozen' = frozen
      /\ NotRefused
  BY ReturnFrame DEF SettleReturn, token, NotRefused
<1>2. /\ call.list \in Seq(Partners) /\ call.from \in Holders
      /\ Len(call.list) \in Nat
  BY <1>1, FrameType
<1>3. Done = all
  BY <1>1, <1>2 DEF Done
<1>4. /\ SeenFunds = call.before /\ SeenFunds' = bal
      /\ SeenOutcome' = <<"paid", call.paid>>
  BY <1>1 DEF SeenFunds, SeenOutcome, Paying
<1>5. \A i \in all : partners[call.list[i]] # NoPartner
  BY <1>1, <1>3 DEF LoopInv
<1>6. Atomic!Payable(call.list)
  <2>1. Total(ListFees, all) <= MAX_BPS
    BY <1>1, <1>3 DEF LoopInv, FrameInv
  <2> QED BY <1>5, <2>1, PayableIsFees
<1>7. Atomic!Payout(call.amount, call.list, all) = call.paid
  BY <1>1, <1>3, <1>5, PayoutIsShares DEF LoopInv
<1>8. ASSUME NEW h \in Holders
      PROVE  bal[h] = call.before[h]
               + Atomic!Payout(call.amount, call.list,
                   {i \in all : partners[call.list[i]].payout = h})
               - (IF h = call.from THEN call.paid ELSE 0)
  <2>1. To(h) = {i \in all : partners[call.list[i]].payout = h}
    BY <1>3 DEF To
  <2>2. Atomic!Payout(call.amount, call.list, To(h)) = Total(Shares, To(h))
    BY <1>3, <1>5, PayoutIsShares DEF To
  <2> QED BY <1>1, <2>1, <2>2 DEF LoopInv
<1>9. bal = [h \in Holders |-> bal[h]] /\ bal[call.from] >= 0
  BY <1>2, Constants DEF TypeOK
<1>10. bal = [h \in Holders |-> call.before[h]
               + Atomic!Payout(call.amount, call.list,
                   {i \in all : partners[call.list[i]].payout = h})
               - (IF h = call.from THEN call.paid ELSE 0)]
  BY <1>8, <1>9
<1> QED BY <1>1, <1>4, <1>6, <1>7, <1>9, <1>10 DEF Atomic!Split

\* The shares and fees of a list whose partners are all registered.
LEMMA WholeList ==
  ASSUME TypeOK, FrameInv, call # NoCall,
         \A i \in DOMAIN call.list : partners[call.list[i]] # NoPartner
  PROVE  /\ IsFiniteSet(Units(ListFees, DOMAIN call.list))
         /\ IsFiniteSet(Units(Shares, DOMAIN call.list))
<1> DEFINE all == DOMAIN call.list
<1>1. call.list \in Seq(Partners) /\ Len(call.list) \in Nat /\ call.amount \in Nat
  BY FrameType, Constants DEF FrameInv, I128
<1>2. IsFiniteSet(all)
  <2>1. all = 1..Len(call.list)
    BY <1>1
  <2> QED BY <1>1, <2>1, FS_Interval
<1>3. \A i \in all : FeeOf(call.list[i]) \in 0..MAX_BPS
  BY <1>1, RowType
<1>4. \A i \in all : ListFees[i] \in Int /\ ListFees[i] <= MAX_BPS
  BY <1>3, Constants DEF ListFees
<1>5. \A i \in all : Shares[i] \in Int /\ Shares[i] <= call.amount
  <2> SUFFICES ASSUME NEW i \in all
               PROVE  Shares[i] \in Int /\ Shares[i] <= call.amount
    OBVIOUS
  <2> DEFINE bps == FeeOf(call.list[i])
             share == Share(call.amount, bps)
  <2>1. bps \in Nat /\ bps <= MAX_BPS
    BY <1>3, Constants
  <2> HIDE DEF bps
  <2>2. share \in Nat /\ share * MAX_BPS <= call.amount * bps
    BY <1>1, <2>1, ShareBound
  <2> HIDE DEF share
  <2>3. share <= call.amount
    BY <1>1, <2>1, <2>2, WithinAmount
  <2> QED BY <2>2, <2>3 DEF Shares, share, bps
<1>6. IsFiniteSet(Units(ListFees, all))
  BY <1>2, <1>4, SumOverFinite, Constants
<1>7. IsFiniteSet(Units(Shares, all))
  <2>1. call.amount \in Int
    BY <1>1
  <2> QED BY <1>2, <1>5, <2>1, SumOverFinite
<1> QED BY <1>6, <1>7

\* In such a list, what the positions done and the next one add to is part of
\* the whole.
LEMMA OneMorePosition ==
  ASSUME TypeOK, FrameInv, LoopInv, AtPartner,
         \A i \in DOMAIN call.list : partners[call.list[i]] # NoPartner
  PROVE  LET p == partners[Listed]  share == Share(call.amount, p.bps)
         IN  /\ call.bps + p.bps <= Total(ListFees, DOMAIN call.list)
             /\ call.paid + share <= Total(Shares, DOMAIN call.list)
             /\ p.bps \in Nat /\ share \in Nat /\ share * MAX_BPS <= call.amount * p.bps
             /\ p # NoPartner /\ p.payout \in Holders
<1> DEFINE p == partners[Listed]
           share == Share(call.amount, p.bps)
           k == call.next
           all == DOMAIN call.list
<1>1. /\ call # NoCall /\ call.status = "paying" /\ Listed \in Partners
      /\ k \in 1..Len(call.list) /\ call.list \in Seq(Partners) /\ k \in Nat
      /\ Len(call.list) \in Nat
  BY ListedType, FrameType
<1>2. call.amount \in Nat
  BY <1>1, FrameType, Constants DEF FrameInv, I128
<1>3. /\ k \in all /\ k \notin Done /\ Done \cup {k} \subseteq all
  BY <1>1 DEF Done
<1>4. p # NoPartner /\ p.bps \in Nat /\ FeeOf(Listed) = p.bps /\ p.payout \in Holders
  BY <1>1, <1>3, RowType, Constants DEF Listed
<1>5. share \in Nat /\ share * MAX_BPS <= call.amount * p.bps
  BY <1>2, <1>4, ShareBound
<1>6. ListFees[k] = p.bps /\ Shares[k] = share
  BY <1>3, <1>4 DEF ListFees, Shares, Listed
<1>7. NotRefused
  BY <1>1 DEF NotRefused
<1>8. /\ IsFiniteSet(Units(ListFees, Done)) /\ call.bps = Total(ListFees, Done)
      /\ IsFiniteSet(Units(Shares, Done)) /\ call.paid = Total(Shares, Done)
      /\ ListFees[k] \in Nat /\ Shares[k] \in Nat
  BY <1>4, <1>5, <1>6, <1>7 DEF LoopInv
<1>9. Total(ListFees, Done \cup {k}) = call.bps + ListFees[k]
  BY <1>3, <1>8, SumWithOneMore
<1>10. Total(Shares, Done \cup {k}) = call.paid + Shares[k]
  BY <1>3, <1>8, SumWithOneMore
<1>11. /\ Units(ListFees, Done \cup {k}) \subseteq Units(ListFees, all)
       /\ Units(Shares, Done \cup {k}) \subseteq Units(Shares, all)
  BY <1>3 DEF Units
<1>12. /\ Total(ListFees, Done \cup {k}) <= Total(ListFees, all)
       /\ Total(Shares, Done \cup {k}) <= Total(Shares, all)
  BY <1>1, <1>11, WholeList, FS_Subset DEF Total
<1> QED BY <1>4, <1>5, <1>6, <1>9, <1>10, <1>12

\* An iteration that is refused, of a list that could be paid, met one of the
\* obstacles the abstract specification names.
LEMMA RevertStep ==
  ASSUME TypeOK, FrameInv, LoopInv, Revert
  PROVE  Atomic!Refuse(call.from, call.amount, call.list)
<1> DEFINE p == partners[Listed]
           share == Share(call.amount, p.bps)
           all == DOMAIN call.list
<1>1. /\ call # NoCall /\ call' # NoCall /\ call.status = "paying"
      /\ call'.status \notin {"paying", "Ok"}
      /\ partners' = partners /\ bal' = call.before /\ frozen' = frozen
      /\ NotRefused /\ AtPartner /\ StepAnswer # "Ok"
  BY RevertFrame DEF Revert, NotRefused
<1>2. /\ SeenFunds = call.before /\ SeenFunds' = call.before
      /\ SeenOutcome' = <<"refused", 0>>
  BY <1>1 DEF SeenFunds, SeenOutcome, Paying
<1>3. ASSUME Atomic!Payable(call.list)
      PROVE  Atomic!Obstacle(call.from, call.amount, call.list)
  <2>1. /\ \A i \in all : partners[call.list[i]] # NoPartner
        /\ Total(ListFees, all) <= MAX_BPS
    BY <1>3, PayableIsFees DEF Atomic!Payable
  <2>2. /\ call.bps + p.bps <= Total(ListFees, all)
        /\ call.paid + share <= Total(Shares, all)
        /\ p.bps \in Nat /\ share \in Nat /\ share * MAX_BPS <= call.amount * p.bps
        /\ p # NoPartner /\ p.payout \in Holders
    BY <1>1, <2>1, OneMorePosition
  <2>3. /\ call.from \in Holders /\ call.amount \in Nat /\ call.paid \in Nat
        /\ call.bps \in Nat /\ call.list \in Seq(Partners)
        /\ call.before \in [Holders -> 0..I128_MAX]
        /\ call.next \in all /\ Listed = call.list[call.next]
    <3>1. call.amount \in Nat
      BY <1>1, FrameType, Constants DEF FrameInv, I128
    <3>2. call.next \in all
      BY <1>1, FrameType, ListedType
    <3>3. Listed = call.list[call.next]
      BY DEF Listed
    <3> QED BY <1>1, <3>1, <3>2, <3>3, FrameType
  <2>4. /\ Total(ListFees, all) \in Nat /\ Total(Shares, all) \in Nat
    BY <1>1, <2>1, WholeList, SumIsNat
  <2>5. Atomic!Payout(call.amount, call.list, all) = Total(Shares, all)
    BY <2>1, PayoutIsShares
  <2>6. /\ ~CapExceeded(call.bps + p.bps) /\ ~(call.bps + p.bps > U32_MAX)
        /\ call.bps + p.bps \in Nat /\ call.bps + p.bps <= MAX_BPS
    <3>0. /\ call.bps \in Nat /\ p.bps \in Nat
          /\ call.bps + p.bps <= Total(ListFees, all)
          /\ Total(ListFees, all) \in Nat /\ Total(ListFees, all) <= MAX_BPS
          /\ MAX_BPS \in Nat
      BY <2>1, <2>2, <2>3, <2>4, Constants
    <3> HIDE DEF p, share, all
    <3>1. call.bps + p.bps \in Nat /\ call.bps + p.bps <= MAX_BPS
      BY <3>0
    <3>2. MAX_BPS <= U32_MAX /\ MAX_BPS \in Int /\ U32_MAX \in Int
      BY Constants
    <3> QED BY <3>1, <3>2 DEF CapExceeded
  <2>7. Atomic!Fee(call.list, call.next) = p.bps
    BY <2>3 DEF Atomic!Fee
  <2>8. CASE call.amount * p.bps > I128_MAX
    BY <2>3, <2>7, <2>8 DEF Atomic!Obstacle
  <2>9. CASE share > 0 /\ ~PayerAuthorized
    BY <2>9 DEF Atomic!Obstacle, PayerAuthorized
  <2>10. CASE share > 0 /\ ~CanTransfer(call.from, p.payout, share)
    <3>1. CASE call.from \in frozen
      BY <3>1 DEF Atomic!Obstacle
    <3>2. CASE p.payout \in frozen
      BY <2>3, <3>2 DEF Atomic!Obstacle
    <3>3. CASE ~(share <= bal[call.from])
      <4>1. bal[call.from] = call.before[call.from]
              + Total(Shares, To(call.from)) - call.paid
        BY <1>1, <2>3 DEF LoopInv
      <4>2. Total(Shares, To(call.from)) \in Nat
        BY <1>1, <2>3, SumIsNat DEF LoopInv
      <4>3. call.before[call.from] \in Int
        BY <2>3, Constants
      <4>4. call.before[call.from] < Total(Shares, all)
        BY <2>2, <2>3, <2>4, <3>3, <4>1, <4>2, <4>3
      <4> QED BY <1>2, <2>5, <4>4 DEF Atomic!Obstacle
    <3>4. CASE call.from # p.payout /\ ~(bal[p.payout] + share <= I128_MAX)
      <4> DEFINE h == p.payout
      <4>1. bal[h] = call.before[h] + Total(Shares, To(h)) - 0
        BY <1>1, <2>2, <3>4 DEF LoopInv
      <4>2. IsFiniteSet(Units(Shares, To(h))) /\ IsFiniteSet(Units(Shares, Done))
            /\ call.paid = Total(Shares, Done)
        BY <1>1, <2>2 DEF LoopInv
      <4>3. Total(Shares, To(h)) \in Nat
        BY <4>2, SumIsNat
      <4>4. Total(Shares, To(h)) <= call.paid
        <5>1. Units(Shares, To(h)) \subseteq Units(Shares, Done)
          BY DEF Units, To
        <5> QED BY <4>2, <5>1, FS_Subset DEF Total
      <4>5. call.before[h] \in Int
        <5>1. h \in Holders /\ call.before \in [Holders -> 0..I128_MAX]
          BY <2>2, <2>3
        <5>2. \A m \in 0..I128_MAX : m \in Int
          OBVIOUS
        <5> HIDE DEF h
        <5> QED BY <5>1, <5>2
      <4>6. call.before[h] + Total(Shares, all) > I128_MAX
        <5>1. ~(bal[h] + share <= I128_MAX)
          BY <3>4
        <5>2. /\ call.paid + share <= Total(Shares, all)
              /\ call.paid \in Int /\ share \in Int /\ Total(Shares, all) \in Int
          BY <2>2, <2>3, <2>4
        <5> HIDE DEF h, share, p, all
        <5>3. bal[h] \in Int
          BY <4>1, <4>3, <4>5
        <5>4. bal[h] + share <= call.before[h] + Total(Shares, all)
          BY <4>1, <4>3, <4>4, <4>5, <5>2, <5>3
        <5>5. I128_MAX \in Int
          BY Constants
        <5> QED BY <4>5, <5>1, <5>2, <5>3, <5>4, <5>5
      <4> QED BY <1>2, <2>3, <2>5, <4>6 DEF Atomic!Obstacle
    <3> QED BY <2>10, <3>1, <3>2, <3>3, <3>4 DEF CanTransfer
  <2>11. CASE call.paid + share > I128_MAX
    <3>1. (call.paid + share) * MAX_BPS <= call.amount * (call.bps + p.bps)
      BY <1>1, <2>2, <2>3, SharesAdd DEF FrameInv
    <3> HIDE DEF p, share
    <3>2. call.paid + share \in Nat
      BY <2>2, <2>3
    <3>3. call.bps + p.bps \in Nat /\ call.bps + p.bps <= MAX_BPS
      BY <2>6
    <3>4. call.paid + share <= call.amount
      BY <2>3, <3>1, <3>2, <3>3, WithinAmount
    <3>5. call.amount <= I128_MAX
      BY <1>1, FrameType, Constants DEF I128
    <3> QED BY <2>3, <2>11, <3>2, <3>4, <3>5, Constants
  <2> QED
    BY <1>1, <2>2, <2>6, <2>8, <2>9, <2>10, <2>11 DEF StepAnswer
<1> QED BY <1>1, <1>2, <1>3 DEF Atomic!Refuse

\* Every step of the loop's specification is a step of the atomic one, or
\* leaves all of it alone.
LEMMA NextSplit ==
  TypeOK /\ FrameInv /\ LoopInv /\ TotalMatchesRegistry
    /\ TotalMatchesRegistry' /\ [Next]_vars
    => [Atomic!SplitNext]_Atomic!splitVars
<1> SUFFICES ASSUME TypeOK, FrameInv, LoopInv, TotalMatchesRegistry,
                    TotalMatchesRegistry', [Next]_vars
             PROVE  Atomic!SplitNext \/ UNCHANGED Atomic!splitVars
  OBVIOUS
<1>1. CASE CloseLedger \/ AdminCall
  <2>1. /\ ~Paying /\ call' = NoCall /\ bal' = bal /\ frozen' = frozen
        /\ partners' = partners
    BY <1>1 DEF CloseLedger, AdminCall, Transaction, token
  <2>2. SeenFunds = bal /\ SeenFunds' = bal /\ SeenOutcome' = <<"none", 0>>
    BY <2>1 DEF SeenFunds, SeenOutcome, Paying
  <2>3. Atomic!Forget
    BY <2>1, <2>2 DEF Atomic!Forget, Atomic!NotASettlement
  <2> QED BY <2>3 DEF Atomic!SplitNext
<1>2. CASE IssuerCall \/ \E caller \in Accounts : WrapperCall(caller)
  <2>1. Atomic!TokenChange
    BY <1>2, TokenStep DEF IssuerCall, WrapperCall, Transaction
  <2> QED BY <2>1 DEF Atomic!SplitNext
<1>3. CASE \E caller \in Accounts, p \in Partners :
             \/ \E bps \in BpsArgs, payout \in Holders :
                  SetPartner(caller, p, bps, payout)
             \/ RemovePartner(caller, p)
  <2>1. /\ ~Paying /\ call' = NoCall /\ bal' = bal /\ frozen' = frozen
        /\ \E p \in Partners :
             \A r \in Partners \ {p} : partners'[r] = partners[r]
    BY <1>3 DEF SetPartner, RemovePartner, Transaction, token, TypeOK
  <2>2. Atomic!Register
    BY <2>1, RegisterStep
  <2> QED BY <2>2 DEF Atomic!SplitNext
<1>4. CASE \E caller \in Accounts, from \in Holders, signed \in BOOLEAN,
              amount \in Amounts, list \in Lists :
             SettleBegin(caller, from, signed, amount, list)
  <2>1. /\ ~Paying /\ call'.status = "paying" /\ call'.before = bal
        /\ bal' = bal /\ partners' = partners
    BY <1>4, BeginFrame DEF SettleBegin
  <2>2. frozen' = frozen
    BY <1>4 DEF SettleBegin, token
  <2>3. Atomic!Forget
    BY <2>1, <2>2, ForgetStep
  <2> QED BY <2>3 DEF Atomic!SplitNext
<1>5. CASE PayPartner
  BY <1>5, PayStep
<1>6. CASE Revert \/ SettleReturn
  <2>1. /\ call.from \in Holders /\ call.amount \in Amounts /\ call.amount > 0
        /\ call.list \in Lists
    BY <1>6, RevertFrame, ReturnFrame, FrameType DEF FrameInv
  <2>2. \/ Atomic!Split(call.from, call.amount, call.list)
        \/ Atomic!Refuse(call.from, call.amount, call.list)
    BY <1>6, RevertStep, ReturnStep
  <2> QED BY <2>1, <2>2 DEF Atomic!SplitNext
<1>7. CASE UNCHANGED vars
  BY <1>7 DEF vars, Atomic!splitVars, SeenFunds, SeenOutcome, Paying
<1> QED BY <1>1, <1>2, <1>3, <1>4, <1>5, <1>6, <1>7 DEF Next

\* The loop with its running cap and its rollback implements the atomic split,
\* for every list, amount, payer and registry.
THEOREM ImplementsSplit == Spec => ImplementsAtomicSplit
<1>1. Init => TypeOK /\ FrameInv /\ LoopInv /\ TotalMatchesRegistry
  BY InitSafe, InitLoop, InitTotal
<1>2. TypeOK /\ FrameInv /\ LoopInv /\ TotalMatchesRegistry /\ [Next]_vars
        => TypeOK' /\ FrameInv' /\ LoopInv' /\ TotalMatchesRegistry'
  BY NextSafe, NextLoop, NextTotal
<1> QED
  BY <1>1, <1>2, InitSplit, NextSplit, PTL
  DEF Spec, ImplementsAtomicSplit, Atomic!SplitSpec

-----------------------------------------------------------------------------
(* A registry whose admin has renounced.                                   *)

\* A settlement runs only as long as there is an admin: it was begun by one,
\* and the admin cannot change before it ends.
RunsUnderAdmin == Paying => admin # NoAccount

\* Every step but those of an open settlement needs the host to be free; one
\* that does more than pass a ledger, move the admin or let the issuer act
\* needs an admin.
LEMMA StepNeeds ==
  ASSUME Next
  PROVE  \/ /\ ~Paying /\ call' = NoCall
            /\ \/ CloseLedger \/ AdminCall \/ IssuerCall
               \/ admin # NoAccount
         \/ ~Paying /\ admin # NoAccount /\ UNCHANGED acVars
         \/ Paying /\ UNCHANGED acVars
<1>1. CASE CloseLedger \/ AdminCall \/ IssuerCall
  BY <1>1 DEF CloseLedger, AdminCall, IssuerCall, Transaction
<1>2. CASE \E caller \in Accounts :
             \/ \E p \in Partners, bps \in BpsArgs, payout \in Holders :
                  SetPartner(caller, p, bps, payout)
             \/ \E p \in Partners : RemovePartner(caller, p)
             \/ WrapperCall(caller)
  BY <1>2 DEF SetPartner, SetPartnerAnswer, RemovePartner,
     RemovePartnerAnswer, WrapperCall, Transaction, OnlyAdmin
<1>3. CASE \E caller \in Accounts, from \in Holders, signed \in BOOLEAN,
              amount \in Amounts, list \in Lists :
             SettleBegin(caller, from, signed, amount, list)
  BY <1>3 DEF SettleBegin, OnlyAdmin
<1>4. CASE PayPartner \/ Revert \/ SettleReturn
  BY <1>4 DEF PayPartner, Revert, SettleReturn, AtPartner
<1> QED BY <1>1, <1>2, <1>3, <1>4 DEF Next

\* No settlement is ever open without an admin.
LEMMA AdminWhilePaying == Spec => []RunsUnderAdmin
<1>1. Init => RunsUnderAdmin
  BY DEF Init, RunsUnderAdmin, Paying
<1>2. RunsUnderAdmin /\ [Next]_vars => RunsUnderAdmin'
  <2>1. CASE UNCHANGED vars
    BY <2>1 DEF vars, RunsUnderAdmin, Paying
  <2>2. CASE Next
    BY <2>2, StepNeeds DEF RunsUnderAdmin, Paying, acVars
  <2> QED BY <2>1, <2>2
<1> QED BY <1>1, <1>2, PTL DEF Spec

\* The registry of an orphaned contract is frozen, and with it a token it
\* administers.
THEOREM OrphanKeepsRegistry == Spec => OrphanedRegistryFrozen
<1>1. RunsUnderAdmin /\ [Next]_vars
        => [admin = NoAccount =>
              /\ admin' = NoAccount /\ UNCHANGED <<partners, totalBps>>
              /\ call' \in {call, NoCall}
              /\ sacAdmin = Wrapper => UNCHANGED token]_vars
  <2> SUFFICES ASSUME RunsUnderAdmin, Next, admin = NoAccount
               PROVE  /\ admin' = NoAccount /\ UNCHANGED <<partners, totalBps>>
                      /\ call' \in {call, NoCall}
                      /\ sacAdmin = Wrapper => UNCHANGED token
    OBVIOUS
  <2>1. call' = NoCall /\ (CloseLedger \/ AdminCall \/ IssuerCall)
    BY StepNeeds DEF RunsUnderAdmin
  <2>2. CASE CloseLedger
    BY <2>1, <2>2 DEF CloseLedger, CloseLedgerAC
  <2>3. CASE AdminCall
    <3>1. PICK caller \in Accounts :
            \/ \E new \in Accounts, until \in AdminWindows :
                 TransferAdminRole(caller, new, until)
            \/ AcceptAdminTransfer(caller)
            \/ RenounceAdmin(caller)
      BY <2>3 DEF AdminCall, AdminStep
    <3>2. admin' = NoAccount
      BY <3>1 DEF TransferAdminRole, AcceptAdminTransfer, AcceptAdminAnswer,
         RenounceAdmin
    <3> QED BY <2>1, <2>3, <3>2 DEF AdminCall
  <2>4. CASE IssuerCall
    <3>1. sacAdmin = Issuer /\ UNCHANGED <<acVars, partners, totalBps>>
      BY <2>4 DEF IssuerCall
    <3>2. Issuer # Wrapper
      BY HolderAssumption
    <3> QED BY <2>1, <3>1, <3>2 DEF acVars
  <2> QED BY <2>1, <2>2, <2>3, <2>4
<1> QED BY <1>1, AdminWhilePaying, PTL DEF Spec, OrphanedRegistryFrozen
=============================================================================
