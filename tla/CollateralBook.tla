--------------------------- MODULE CollateralBook ---------------------------
(***************************************************************************)
(* What the collateral vault promises, with no rows and no events: one     *)
(* account per authorization, which is open or not and, while it is open,  *)
(* has a balance that clearings draw on, below zero too; and for each      *)
(* authorization what was ever posted, spent and returned.  A book whose   *)
(* keeper has retired stays as it is for good.                             *)
(***************************************************************************)
EXTENDS Integers

CONSTANTS AuthIds,
          Limit     \* no amount, and no overdraft, is larger

VARIABLES open, balance, posted, spent, returned, halted, retired

bookVars == <<open, balance, posted, spent, returned, halted, retired>>

Positive(n) == IF n > 0 THEN n ELSE 0

BookInit ==
  /\ open = {}
  /\ balance = [a \in AuthIds |-> 0]
  /\ posted = [a \in AuthIds |-> 0]
  /\ spent = [a \in AuthIds |-> 0]
  /\ returned = [a \in AuthIds |-> 0]
  /\ halted = FALSE /\ retired = FALSE

Post(a, n) ==
  /\ a \notin open
  /\ ~halted
  /\ open' = open \cup {a}
  /\ balance' = [balance EXCEPT ![a] = n]
  /\ posted' = [posted EXCEPT ![a] = @ + n]
  /\ UNCHANGED <<spent, returned, halted, retired>>

Clear(a, n) ==
  /\ a \in open
  /\ balance[a] - n >= -Limit
  /\ balance' = [balance EXCEPT ![a] = @ - n]
  /\ spent' = [spent EXCEPT ![a] = @ + n]
  /\ UNCHANGED <<open, posted, returned, halted, retired>>

\* What is left of the balance goes back; an overdraft does not.
Free(a) ==
  /\ a \in open
  /\ open' = open \ {a}
  /\ balance' = [balance EXCEPT ![a] = 0]
  /\ returned' = [returned EXCEPT ![a] = @ + Positive(balance[a])]
  /\ UNCHANGED <<posted, spent, halted, retired>>

SetHalted ==
  /\ halted' = ~halted
  /\ UNCHANGED <<open, balance, posted, spent, returned, retired>>

\* Whatever is open then stays open.
Retire ==
  /\ retired' = TRUE
  /\ UNCHANGED <<open, balance, posted, spent, returned, halted>>

BookNext ==
  /\ ~retired
  /\ \/ \E a \in AuthIds :
          \/ \E n \in 1..Limit : Post(a, n)
          \/ \E n \in 0..Limit : Clear(a, n)
          \/ Free(a)
     \/ SetHalted
     \/ Retire

BookSpec == BookInit /\ [][BookNext]_bookVars

-----------------------------------------------------------------------------
\* Nothing is made and nothing vanishes: what was returned and what is left
\* was posted, and what was posted was spent, returned or is left.
Conserved ==
  \A a \in AuthIds :
    /\ returned[a] + Positive(balance[a]) <= posted[a]
    /\ posted[a] <= spent[a] + returned[a] + balance[a]
=============================================================================
