--------------------------- MODULE PartnerClient ---------------------------
(***************************************************************************)
(* The generated TypeScript client of partner-attribution, its own methods *)
(* (those of the access control are in FxClient).  A method simulates its  *)
(* call at once; what changes state is sent later and answered again, over *)
(* a registry and a token that others have changed meanwhile.  A           *)
(* settlement shows the user, before it is signed, what it would pay; the  *)
(* call sent carries no fee.  The user's settlements are paid by this      *)
(* contract, which signs for itself; other payers are in                   *)
(* PartnerAttribution.                                                     *)
(*                                                                         *)
(* A settlement runs as in PartnerAttribution, one listed partner at a     *)
(* time, when it is simulated as when it is sent: it is the same code.  A  *)
(* simulation works on a copy of one ledger, so nothing else happens while *)
(* `bal` stands for the copy, and its end restores the balances.           *)
(***************************************************************************)
EXTENDS PartnerAttribution, Functions

CONSTANTS
  Sac,        \* the address of the wrapped token
  NoTx,       \* nothing assembled
  SplitBps    \* bound: the fees set while settlements are looked at

ASSUME ClientAssumption == SplitBps \subseteq BpsArgs

VARIABLES
  tx,         \* the user's AssembledTransaction, until the next one, or NoTx
  sacAddress, \* instance storage: the token's address
  focus       \* bound: a behaviour is about the registry or about settlements

clientVars == <<tx, sacAddress, focus>>
allVars == <<vars, clientVars>>

-----------------------------------------------------------------------------
(* The methods that only read.                                             *)

get_admin == admin
total_bps == totalBps
get_partner(p) == partners[p]
sac_address == sacAddress

-----------------------------------------------------------------------------
(* The methods that change state; `by` is the account the simulation       *)
(* recorded, and the `operator` argument of the passthroughs is not read.  *)

mint(to, amount) ==
  [fn |-> "mint", by |-> admin, holder |-> to, amount |-> amount]
clawback(from, amount) ==
  [fn |-> "clawback", by |-> admin, holder |-> from, amount |-> amount]
set_admin(new) == [fn |-> "set_admin", by |-> admin, new |-> new]
set_authorized(id, authorize) ==
  [fn |-> "set_authorized", by |-> admin, holder |-> id, authorize |-> authorize]
set_partner(p, bps, payout) ==
  [fn |-> "set_partner", by |-> admin, partner |-> p, bps |-> bps,
   payout |-> payout]
remove_partner(p) == [fn |-> "remove_partner", by |-> admin, partner |-> p]
settle_split(amount, list) ==
  [fn |-> "settle_split", by |-> admin, amount |-> amount, list |-> list]

\* The contract accepts call c, which is no settlement, in the present ledger.
Accepts(c) ==
  /\ OnlyAdmin(c.by) = "Ok"
  /\ CASE c.fn = "set_partner" ->
            SetPartnerAnswer(c.by, c.partner, c.bps) = "Ok"
       [] c.fn = "remove_partner" -> RemovePartnerAnswer(c.by, c.partner) = "Ok"
       [] c.fn = "mint" ->
            /\ sacAdmin = Wrapper /\ c.holder \notin frozen
            /\ Supply + c.amount <= MaxSupply
       [] c.fn = "clawback" -> sacAdmin = Wrapper /\ bal[c.holder] >= c.amount
       [] OTHER -> sacAdmin = Wrapper

\* A passthrough at work: WrapperCall with this operation of the token.
Passthrough(c) ==
  /\ Transaction
  /\ OnlyAdmin(c.by) = "Ok" /\ sacAdmin = Wrapper
  /\ \/ c.fn = "mint" /\ Mint(c.holder, c.amount)
     \/ c.fn = "clawback" /\ Clawback(c.holder, c.amount)
     \/ c.fn = "set_authorized" /\ SetAuthorized(c.holder, c.authorize)
     \/ c.fn = "set_admin" /\ SetSacAdmin(c.new)
  /\ UNCHANGED <<acVars, partners, totalBps>>

\* What the call does; a settlement only begins.
Effect(c) ==
  \/ Passthrough(c)
  \/ /\ c.fn = "set_partner"
     /\ SetPartner(c.by, c.partner, c.bps, c.payout)
  \/ c.fn = "remove_partner" /\ RemovePartner(c.by, c.partner)
  \/ /\ c.fn = "settle_split"
     /\ SettleBegin(c.by, Wrapper, FALSE, c.amount, c.list)

\* The result each method's transaction is decoded to.
fromJSON ==
  LET void == {<< >>}
  IN  [mint |-> void, clawback |-> void, set_admin |-> void,
       set_authorized |-> void, set_partner |-> void, remove_partner |-> void,
       settle_split |-> {<<n>> : n \in I128},
       get_admin |-> Accounts \cup {NoAccount},
       total_bps |-> U32,
       get_partner |-> Partner \cup {NoPartner},
       sac_address |-> {Sac}]

\* The contract's own errors, by code; a trap of the token or of the host is
\* thrown.
Errors ==
  <<"NotInitialized", "PartnerNotFound", "BpsCapExceeded", "InvalidAmount",
    "Overflow", "SplitExceedsTotal">>

-----------------------------------------------------------------------------
(* What the user does.                                                     *)

Calls ==
  IF focus = "registry"
  THEN {set_partner(p, bps, h) : p \in Partners, bps \in BpsArgs, h \in Holders}
         \cup {remove_partner(p) : p \in Partners}
  ELSE {settle_split(n, list) : n \in Amounts, list \in Lists}
         \cup {mint(h, n) : h \in Holders, n \in Amounts}
         \cup {clawback(h, n) : h \in Holders, n \in Amounts}
         \cup {set_authorized(h, b) : h \in Holders, b \in BOOLEAN}
         \cup {set_admin(new) : new \in {Wrapper, Issuer}}

\* A transaction in the user's hands: `result` is what the method returned
\* when simulated, and a settlement also shows the events of its transfers;
\* `rows` are the listed partners as the simulation found them.
Transacted(c, phase) ==
  [call |-> c, phase |-> phase, result |-> << >>, rows |-> << >>,
   events |-> << >>]

\* A method calls the contract in a simulation.
Assemble ==
  /\ ~Paying
  /\ \E c \in Calls :
       \/ /\ c.fn # "settle_split" /\ Accepts(c)
          /\ tx' = Transacted(c, "assembled")
          /\ call' = NoCall
          /\ UNCHANGED <<acVars, partners, totalBps, token>>
       \/ /\ c.fn = "settle_split"
          /\ SettleBegin(c.by, Wrapper, FALSE, c.amount, c.list)
          /\ tx' = Transacted(c, "simulating")
  /\ UNCHANGED <<sacAddress, focus>>

Simulating == tx # NoTx /\ tx.phase = "simulating"

\* The simulation of a settlement has paid the whole list, or it meets an
\* error and there is nothing to send.  Either way its effects are dropped.
SimulationEnds ==
  /\ Simulating /\ Paying
  /\ \/ /\ AtPartner /\ StepAnswer # "Ok"
        /\ tx' = NoTx
     \/ /\ call.next > Len(call.list)
        /\ tx' = [tx EXCEPT
                    !.phase = "assembled",
                    !.result = <<call.paid>>,
                    !.rows = [i \in DOMAIN call.list |-> partners[call.list[i]]],
                    !.events = call.events]
  /\ bal' = call.before
  /\ call' = NoCall
  /\ UNCHANGED <<acVars, partners, totalBps, frozen, sacAdmin, sacAddress, focus>>

Send ==
  /\ tx # NoTx /\ tx.phase = "assembled"
  /\ Effect(tx.call)
  /\ tx' = IF tx.call.fn = "settle_split" THEN [tx EXCEPT !.phase = "sent"]
           ELSE NoTx
  /\ UNCHANGED <<sacAddress, focus>>

\* A transaction that is sent and refused: by the contract, or by the host,
\* whose simulation fixed the storage it may touch.
Refused ==
  /\ tx # NoTx /\ tx.phase = "assembled"
  /\ tx' = NoTx
  /\ UNCHANGED <<vars, sacAddress, focus>>

-----------------------------------------------------------------------------
\* What the others do between two of the user's steps.  Their settlements are
\* left out: they move balances, as minting and clawing back do.
Direct ==
  /\ \/ focus = "registry" /\ (CloseLedger \/ AdminCall)
     \/ /\ focus = "split" /\ Transaction
        /\ \E caller \in Accounts : RenounceAdmin(caller)
        /\ UNCHANGED <<partners, totalBps, token>>
     \/ \E caller \in Accounts, p \in Partners :
          \/ RemovePartner(caller, p)
          \/ \E bps \in IF focus = "registry" THEN BpsArgs ELSE SplitBps,
                payout \in Holders : SetPartner(caller, p, bps, payout)
     \/ /\ focus = "split"
        /\ IssuerCall \/ \E caller \in Accounts : WrapperCall(caller)
  /\ tx' = IF tx # NoTx /\ tx.phase = "sent" THEN NoTx ELSE tx
  /\ UNCHANGED <<sacAddress, focus>>

\* The loop of a settlement: only one that was sent answers on the ledger.
Settling ==
  /\ PayPartner \/ (~Simulating /\ (Revert \/ SettleReturn))
  /\ UNCHANGED clientVars

\* The constructor stores the admin and the token deploy was given.
deploy(a, sac) == Init /\ admin = a /\ sacAddress = sac

ClientInit ==
  /\ \E a \in Accounts : deploy(a, Sac)
  /\ tx = NoTx
  /\ focus \in {"registry", "split"}

ClientNext ==
  Assemble \/ SimulationEnds \/ Send \/ Refused \/ Direct \/ Settling

ClientSpec == ClientInit /\ [][ClientNext]_allVars

-----------------------------------------------------------------------------
(* Properties                                                              *)

\* Whatever the ledger holds, each method's result is of the type its revived
\* transaction decodes, and a settlement ends in one of the contract's errors
\* or in a trap of the token, if it does not succeed (bindings 41-48, 468-492).
ClientTypeOK ==
  /\ TypeOK
  /\ get_admin \in fromJSON.get_admin /\ total_bps \in fromJSON.total_bps
  /\ \A p \in Partners : get_partner(p) \in fromJSON.get_partner
  /\ sac_address \in fromJSON.sac_address
  /\ tx # NoTx /\ ~Simulating => tx.result \in fromJSON[tx.call.fn]
  /\ call # NoCall =>
       call.status \in {"paying", "Ok", "TokenTrap"} \cup Range(Errors)

Sent == tx # NoTx /\ tx.phase = "sent" /\ call # NoCall

\* The position's row pays h, and more than the row q would.
Raises(r, q, h) == r.payout = h /\ (q.payout = h => r.bps > q.bps)

\* What the events of a settlement credit to holder h.
Credited(events, h) ==
  Total([i \in DOMAIN events |-> events[i].fee],
        {i \in DOMAIN events : events[i].to = h})

\* A settlement that is sent does what its simulation showed unless the row of
\* a listed partner was changed in between, and then only what that change
\* explains: in all it pays more only if a listed fee was raised and less only
\* if one was lowered, and a holder is credited more only if a listed row now
\* pays it a higher fee or pays it instead of another, and less only if one
\* did so before.  Changes of other partners, of balances and of trustlines
\* have no effect (bindings 190-206, lib.rs:209-231).
ShownSplitHolds ==
  Sent /\ call.status = "Ok" =>
    LET listed == DOMAIN call.list
        now(i) == partners[call.list[i]]
        shown(i) == tx.rows[i]
    IN  /\ call.paid > tx.result[1] =>
             \E i \in listed : now(i).bps > shown(i).bps
        /\ call.paid < tx.result[1] =>
             \E i \in listed : now(i).bps < shown(i).bps
        /\ \A h \in Holders :
             /\ Credited(call.events, h) > Credited(tx.events, h) =>
                  \E i \in listed : Raises(now(i), shown(i), h)
             /\ Credited(call.events, h) < Credited(tx.events, h) =>
                  \E i \in listed : Raises(shown(i), now(i), h)

\* A settlement that was simulated and is then refused by the contract tells
\* what moved in between: PartnerNotFound that a listed partner was removed;
\* SplitExceedsTotal and Overflow that a listed fee was raised.  With distinct
\* partners SplitExceedsTotal never comes: its list names a partner twice,
\* which the simulation let pass because twice the fee was still within 100%
\* (bindings 41-48, 190-206; lib.rs:185-189).
RefusalTellsChange ==
  Sent =>
    /\ call.status = "PartnerNotFound" =>
         \E i \in DOMAIN call.list :
           tx.rows[i] # NoPartner /\ partners[call.list[i]] = NoPartner
    /\ call.status \in {"SplitExceedsTotal", "Overflow"} =>
         \E i \in DOMAIN call.list : FeeOf(call.list[i]) > tx.rows[i].bps
    /\ call.status = "SplitExceedsTotal" => Repeats(call.list)
=============================================================================
