------------------------------ MODULE QuoteBook ------------------------------
(***************************************************************************)
(* What the rate lock promises, with no storage, no flag and no grace: a   *)
(* book of offers.  An offer is open until its deadline; it is struck at   *)
(* most once, at its own price and fee; posting an offer replaces the one  *)
(* there.  An offer that is struck or reaches its deadline is closed.      *)
(***************************************************************************)
EXTENDS Integers, Sequences

CONSTANTS
  QuoteIds, TxIds,
  Terms,      \* what an offer may be posted at
  Closed,     \* the offer that is not open
  Horizon     \* no deadline lies beyond it

VARIABLES now, offer, deals

bookVars == <<now, offer, deals>>

BookInit ==
  /\ now = 1
  /\ offer = [q \in QuoteIds |-> Closed]
  /\ deals = [q \in QuoteIds |-> << >>]

Post(q, t, deadline) ==
  /\ offer' = [offer EXCEPT ![q] =
                 [price |-> t.price, fee |-> t.fee, deadline |-> deadline]]
  /\ UNCHANGED <<now, deals>>

Strike(q, tx) ==
  /\ offer[q] # Closed
  /\ now < offer[q].deadline
  /\ deals' = [deals EXCEPT ![q] =
                 Append(@, [tx |-> tx, price |-> offer[q].price,
                            fee |-> offer[q].fee, at |-> now])]
  /\ offer' = [offer EXCEPT ![q] = Closed]
  /\ UNCHANGED now

Advance ==
  /\ now' = now + 1
  /\ offer' = [q \in QuoteIds |->
                 IF offer[q] # Closed /\ offer[q].deadline <= now + 1
                 THEN Closed ELSE offer[q]]
  /\ UNCHANGED deals

BookNext ==
  \/ Advance
  \/ \E q \in QuoteIds :
       \/ \E t \in Terms, deadline \in now + 1 .. Horizon : Post(q, t, deadline)
       \/ \E tx \in TxIds : Strike(q, tx)

BookSpec == BookInit /\ [][BookNext]_bookVars
=============================================================================
