--------------------------- MODULE CardCollateral ---------------------------
(***************************************************************************)
(* The card-collateral contract: the issuer adapter (the admin) reserves   *)
(* collateral when a card is authorized, settles it as clearings come in,  *)
(* in any number and of any amount, and releases what is left.  A circuit  *)
(* breaker stops new reservations only.                                    *)
(*                                                                         *)
(* `log` is what the ledger keeps: the events published for each auth id,  *)
(* in order.  An auth id may be reserved again once it is released, so its *)
(* events form episodes.                                                   *)
(***************************************************************************)
EXTENDS AccessControl, Sequences, UnitSums

CONSTANTS
  AuthIds,     \* card authorization ids
  NoLock,      \* storage has no lock for the id
  I128_MAX,    \* largest i128
  Reserves,    \* bound: the amounts reserve is called with
  Finals,      \* bound: the final_amounts settle is called with
  MaxEvents    \* bound: events per auth id

I128 == -I128_MAX - 1 .. I128_MAX

ASSUME CardAssumption ==
  /\ I128_MAX \in Nat /\ MaxEvents \in Nat
  /\ Reserves \subseteq I128 /\ Finals \subseteq I128

VARIABLES
  paused,   \* the circuit breaker
  rows,     \* persistent storage: auth id -> CardLock, or NoLock
  log       \* auth id -> the events published for it

vars == <<seq, admin, pending, paused, rows, log>>

CardLock == [authorized : 1..I128_MAX, locked : 1..I128_MAX, settled : 0..I128_MAX]
Event ==
  [type : {"collateral_locked", "shortfall", "collateral_released"},
   amount : 0..I128_MAX] \cup
  [type : {"card_settle"}, amount : 0..I128_MAX, settled : 0..I128_MAX]

ASSUME NoLockAssumption == NoLock \notin CardLock

TypeOK ==
  /\ ACTypeOK
  /\ paused \in BOOLEAN
  /\ rows \in [AuthIds -> CardLock \cup {NoLock}]
  /\ log \in [AuthIds -> Seq(Event)]

Init ==
  /\ ACInit
  /\ paused = FALSE
  /\ rows = [a \in AuthIds |-> NoLock]
  /\ log = [a \in AuthIds |-> << >>]

Publish(a, events) ==
  /\ Len(log[a] \o events) <= MaxEvents
  /\ log' = [log EXCEPT ![a] = @ \o events]

-----------------------------------------------------------------------------
\* Mutant: an open authorization is reserved over.
ReserveAnswer_Overwrites(caller, a, amount) ==
  IF paused THEN "EnforcedPause"
  ELSE IF OnlyAdmin(caller) # "Ok" THEN OnlyAdmin(caller)
  ELSE IF amount <= 0 THEN "InvalidAmount" ELSE "Ok"

\* Of two attributes the inner one puts its check in front last: the pause is
\* looked at before the admin.
ReserveAnswer(caller, a, amount) ==
  IF paused THEN "EnforcedPause"
  ELSE IF OnlyAdmin(caller) # "Ok" THEN OnlyAdmin(caller)
  ELSE IF amount <= 0 THEN "InvalidAmount"
  ELSE IF rows[a] # NoLock THEN "AuthAlreadyExists" ELSE "Ok"

Reserve(caller, a, amount) ==
  /\ ReserveAnswer(caller, a, amount) = "Ok"
  /\ rows' = [rows EXCEPT ![a] =
                [authorized |-> amount, locked |-> amount, settled |-> 0]]
  /\ Publish(a, <<[type |-> "collateral_locked", amount |-> amount]>>)
  /\ UNCHANGED <<acVars, paused>>

\* Mutant: the clearings are summed without a check.
SettleAnswer_Unchecked(caller, a, final) ==
  IF OnlyAdmin(caller) # "Ok" THEN OnlyAdmin(caller)
  ELSE IF final < 0 THEN "InvalidAmount"
  ELSE IF rows[a] = NoLock THEN "AuthNotFound" ELSE "Ok"

SettleAnswer(caller, a, final) ==
  IF OnlyAdmin(caller) # "Ok" THEN OnlyAdmin(caller)
  ELSE IF final < 0 THEN "InvalidAmount"
  ELSE IF rows[a] = NoLock THEN "AuthNotFound"
  ELSE IF rows[a].settled + final > I128_MAX THEN "Overflow" ELSE "Ok"

\* What the clearings so far exceed the locked collateral by.
ShortfallOf(lock) ==
  IF lock.settled > lock.locked THEN lock.settled - lock.locked ELSE 0

\* Mutant: a clearing replaces the ones before it.
AfterClearing_Replaces(lock, final) == [lock EXCEPT !.settled = final]

AfterClearing(lock, final) == [lock EXCEPT !.settled = @ + final]

Settle(caller, a, final) ==
  LET lock == AfterClearing(rows[a], final)
      short == ShortfallOf(lock)
  IN  /\ SettleAnswer(caller, a, final) = "Ok"
      /\ rows' = [rows EXCEPT ![a] = lock]
      /\ Publish(a,
           <<[type |-> "card_settle", amount |-> final,
              settled |-> lock.settled]>>
           \o (IF short > 0 THEN <<[type |-> "shortfall", amount |-> short]>>
               ELSE << >>))
      /\ UNCHANGED <<acVars, paused>>

\* Mutant: the breaker stops releases too.
ReleaseAnswer_WhenNotPaused(caller, a) ==
  IF OnlyAdmin(caller) # "Ok" THEN OnlyAdmin(caller)
  ELSE IF paused THEN "EnforcedPause"
  ELSE IF rows[a] = NoLock THEN "AuthNotFound" ELSE "Ok"

ReleaseAnswer(caller, a) ==
  IF OnlyAdmin(caller) # "Ok" THEN OnlyAdmin(caller)
  ELSE IF rows[a] = NoLock THEN "AuthNotFound" ELSE "Ok"

\* Mutant: the remainder is not clamped at zero.
Unspent_Signed(lock) == lock.locked - lock.settled

Unspent(lock) ==
  IF lock.locked > lock.settled THEN lock.locked - lock.settled ELSE 0

Release(caller, a) ==
  /\ ReleaseAnswer(caller, a) = "Ok"
  /\ rows' = [rows EXCEPT ![a] = NoLock]
  /\ Publish(a, <<[type |-> "collateral_released",
                   amount |-> Unspent(rows[a])]>>)
  /\ UNCHANGED <<acVars, paused>>

\* Pausing twice, or unpausing what is not paused, traps in the library.
SetPaused(caller, b) ==
  /\ OnlyAdmin(caller) = "Ok"
  /\ paused # b
  /\ paused' = b
  /\ UNCHANGED <<acVars, rows, log>>

CloseLedger == CloseLedgerAC /\ UNCHANGED <<paused, rows, log>>
AdminCall   == AdminStep /\ UNCHANGED <<paused, rows, log>>

Next ==
  \/ CloseLedger
  \/ AdminCall
  \/ \E caller \in Accounts :
       \/ \E b \in BOOLEAN : SetPaused(caller, b)
       \/ \E a \in AuthIds :
            \/ \E amount \in Reserves : Reserve(caller, a, amount)
            \/ \E final \in Finals : Settle(caller, a, final)
            \/ Release(caller, a)

Spec == Init /\ [][Next]_vars

-----------------------------------------------------------------------------
(* Properties                                                              *)

\* The position, in the events of an auth id, of the collateral_locked event
\* that opens the episode event i belongs to, or 0.
Opening(events, i) ==
  LET opens == {j \in 1..i : events[j].type = "collateral_locked"}
  IN  IF opens = {} THEN 0 ELSE CHOOSE j \in opens : \A k \in opens : k <= j

\* What the clearings of that episode sum to, up to event i.
Cleared(events, i) ==
  Total([j \in 1..i |-> events[j].amount],
        {j \in Opening(events, i)..i : events[j].type = "card_settle"})

Excess(m, n) == IF m > n THEN m - n ELSE 0

\* Read as a history, the events of an auth id are episodes, each opened once
\* and closed at most once; a lock is in storage exactly while the last
\* episode is open.  A reservation never lands on an open authorization and a
\* clearing never on a released one, whatever the order of the calls
\* (lib.rs:128-130, 155-159, 190-202).
EpisodesWellFormed ==
  \A a \in AuthIds :
    LET released(i) == log[a][i].type = "collateral_released"
    IN  /\ \A i \in 1..Len(log[a]) :
             log[a][i].type = "collateral_locked" <=> (i = 1 \/ released(i - 1))
        /\ rows[a] # NoLock <=>
             log[a] # << >> /\ ~released(Len(log[a]))

\* What a release returns and what the clearings of its episode spent add up
\* to the collateral locked, once: nothing is returned that was spent, and
\* nothing is returned twice (lib.rs:184-204).
ReleaseReturnsUnspent ==
  \A a \in AuthIds : \A i \in 1..Len(log[a]) :
    log[a][i].type = "collateral_released" =>
      log[a][i].amount =
        Excess(log[a][Opening(log[a], i)].amount, Cleared(log[a], i))

\* After every clearing the events tell the debt: a shortfall event follows
\* exactly when the clearings of the episode exceed its collateral, with the
\* whole excess so far and not the last clearing's part of it, so the last
\* one alone is what is owed (lib.rs:143-147, 161-180; test.rs:102-123).
ShortfallTellsDebt ==
  \A a \in AuthIds : \A i \in 1..Len(log[a]) :
    log[a][i].type = "card_settle" =>
      LET debt == Excess(Cleared(log[a], i), log[a][Opening(log[a], i)].amount)
          told == i < Len(log[a]) /\ log[a][i + 1].type = "shortfall"
      IN  /\ told <=> debt > 0
          /\ told => log[a][i + 1].amount = debt

\* While an authorization stays open its collateral is fixed and no clearing
\* is forgotten, pause, admin handover and refused calls included
\* (lib.rs:128-130, 161-170).
NoClearingForgotten ==
  [][\A a \in AuthIds :
       rows[a] # NoLock /\ rows'[a] # NoLock =>
         /\ rows'[a].locked = rows[a].locked
         /\ rows'[a].authorized = rows[a].authorized
         /\ rows'[a].settled >= rows[a].settled]_vars

\* The breaker lets the vault wind down and only that: a step of a paused
\* vault locks no collateral, and its admin can always close an open
\* authorization (lib.rs:18-20, 118-122, 147-148, 186-187).
Exposure ==
  Total([a \in AuthIds |-> IF rows[a] = NoLock THEN 0 ELSE rows[a].locked],
        AuthIds)
PausedOnlyWindsDown ==
  [][paused =>
       /\ Exposure' <= Exposure
       /\ \A a \in AuthIds : rows[a] # NoLock /\ admin # NoAccount =>
            ReleaseAnswer(admin, a) = "Ok"]_vars
\* What the events of an auth id sum to, over all its episodes.
Logged(events, type) ==
  Total([i \in 1..Len(events) |-> events[i].amount],
        {i \in 1..Len(events) : events[i].type = type})

\* The vault implements the book of accounts: the balance is read off the row,
\* the lifetime sums off the events, and the book retires with the admin.
Book == INSTANCE CollateralBook WITH
  Limit <- I128_MAX,
  open <- {a \in AuthIds : rows[a] # NoLock},
  balance <- [a \in AuthIds |-> IF rows[a] = NoLock THEN 0
                                ELSE rows[a].locked - rows[a].settled],
  posted <- [a \in AuthIds |-> Logged(log[a], "collateral_locked")],
  spent <- [a \in AuthIds |-> Logged(log[a], "card_settle")],
  returned <- [a \in AuthIds |-> Logged(log[a], "collateral_released")],
  halted <- paused,
  retired <- admin = NoAccount

\* Rows and events move together, one authorization at a time and each the way
\* the book says; and once the admin has renounced nothing moves any more, an
\* outstanding handover notwithstanding: an authorization that is open then
\* keeps its collateral for good (lib.rs:118-204, 231-234).
ImplementsCollateralBook == Book!BookSpec
=============================================================================
