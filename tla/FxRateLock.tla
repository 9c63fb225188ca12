----------------------------- MODULE FxRateLock -----------------------------
(***************************************************************************)
(* The fx-rate-lock contract: the anchor's business server (the admin)     *)
(* locks a SEP-38 firm quote for a window of ledgers and consumes it once  *)
(* at settlement.  A quote is a row of the host's temporary storage, which *)
(* outlives the quote's logical expiry by a grace period.                  *)
(*                                                                         *)
(* A call is a transaction: it answers "Ok" and takes effect, or answers   *)
(* an error and changes nothing.  `XAnswer` is the answer of call X, with  *)
(* the checks in the code's order.  `locks` and `uses` are the QuoteLocked *)
(* and QuoteUse events published so far for each quote id, each with the   *)
(* ledger it was published in and, for a use, the number of locks before   *)
(* it.                                                                     *)
(***************************************************************************)
EXTENDS AccessControl, Sequences

CONSTANTS
  QuoteIds,              \* SEP-38 quote-id hashes
  TxIds,                 \* SEP-31 transaction ids
  NoRow,                 \* storage has no entry for the quote id
  I128_MAX,              \* largest i128
  PRICE_SCALE,           \* fixed-point scale of `price`
  EXPIRY_GRACE_LEDGERS,  \* ledgers a row outlives its expiry
  Terms,                 \* bound: the amounts lock_quote is called with
  Ttls,                  \* bound: the ttl_ledgers it is called with
  MaxLocks               \* bound: accepted locks per quote id

I128 == -I128_MAX - 1 .. I128_MAX
U32  == 0 .. U32_MAX

ASSUME AmountAssumption ==
  /\ I128_MAX \in Nat /\ PRICE_SCALE \in Nat \ {0}
  /\ EXPIRY_GRACE_LEDGERS \in Nat
ASSUME InputAssumption ==
  /\ Terms \subseteq [sell : I128, buy : I128, price : I128, fee : I128]
  /\ Ttls \subseteq U32
  /\ MaxLocks \in Nat

VARIABLES
  rows,    \* temporary storage: quote id -> row, or NoRow
  locks,   \* quote id -> the locks accepted for it, in order
  uses     \* quote id -> the uses accepted for it, in order

vars == <<seq, admin, pending, rows, locks, uses>>

Row  == [sell : I128, buy : I128, price : I128, fee : I128,
         expires : U32, consumed : BOOLEAN, liveUntil : Nat]
Lock == [terms : Terms, at : Nat, expires : U32]
Use  == [tx : TxIds, price : I128, fee : I128, at : Nat, nth : Nat]

ASSUME NoRowAssumption ==
  NoRow \notin Row \cup [price : I128, fee : I128, deadline : U32]

TypeOK ==
  /\ ACTypeOK
  /\ rows \in [QuoteIds -> Row \cup {NoRow}]
  /\ locks \in [QuoteIds -> Seq(Lock)]
  /\ uses \in [QuoteIds -> Seq(Use)]

Init ==
  /\ ACInit
  /\ rows = [q \in QuoteIds |-> NoRow]
  /\ locks = [q \in QuoteIds |-> << >>]
  /\ uses = [q \in QuoteIds |-> << >>]

-----------------------------------------------------------------------------
(* lock_quote                                                              *)

\* Mutants: a quote that nets more than its price is let through; the relation
\* is compared after scaling down, which rounds.
PriceAnswer_OneSided(t) ==
  IF (t.sell - t.fee) * PRICE_SCALE < t.price * t.buy
  THEN "PriceInvariantViolated" ELSE "Ok"
PriceAnswer_Rounds(t) ==
  LET rhs == t.price * t.buy
  IN  IF ~({t.sell - t.fee, rhs} \subseteq I128) THEN "Overflow"
      ELSE IF t.sell - t.fee # rhs \div PRICE_SCALE
           THEN "PriceInvariantViolated" ELSE "Ok"

\* The SEP-38 price relation in fixed point, every step checked for i128.
PriceAnswer(t) ==
  LET net == t.sell - t.fee
      lhs == net * PRICE_SCALE
      rhs == t.price * t.buy
  IN  IF ~({net, lhs, rhs} \subseteq I128) THEN "Overflow"
      ELSE IF lhs # rhs THEN "PriceInvariantViolated" ELSE "Ok"

\* Mutant: storage lives as long as the quote, with no grace.
Live_NoGrace(ttl) == ttl

\* Ledgers the row is asked to live.
Live(ttl) == ttl + EXPIRY_GRACE_LEDGERS

\* extend_ttl traps when it is asked for a life beyond the host's limit (a
\* saturated request included) or past the last ledger number.
Extendable(ttl) == Live(ttl) < MaxTtl /\ seq + Live(ttl) <= U32_MAX

LockAnswer(caller, t, ttl) ==
  IF OnlyAdmin(caller) # "Ok" THEN OnlyAdmin(caller)
  ELSE IF t.sell <= 0 \/ t.buy <= 0 \/ t.price <= 0 \/ t.fee < 0
       THEN "InvalidAmount"
  ELSE IF ttl = 0 THEN "InvalidExpiry"
  ELSE IF PriceAnswer(t) # "Ok" THEN PriceAnswer(t)
  ELSE IF seq + ttl > U32_MAX THEN "Overflow"
  ELSE IF ~Extendable(ttl) THEN "HostTrap"
  ELSE "Ok"

\* Mutant: the life of a row is extended when it is first written only.
RowAfterLock_ExtendsOnce(q, t, ttl) ==
  [sell |-> t.sell, buy |-> t.buy, price |-> t.price, fee |-> t.fee,
   expires |-> seq + ttl, consumed |-> FALSE,
   liveUntil |-> IF rows[q] = NoRow
                 THEN Larger(seq + MinTempTtl - 1, seq + Live(ttl))
                 ELSE rows[q].liveUntil]

\* Mutant: a row that is still there keeps its expiry.
RowAfterLock_KeepsExpiry(q, t, ttl) ==
  [sell |-> t.sell, buy |-> t.buy, price |-> t.price, fee |-> t.fee,
   expires |-> IF rows[q] = NoRow THEN seq + ttl ELSE rows[q].expires,
   consumed |-> FALSE, liveUntil |-> seq + Live(ttl)]

\* `set` then `extend_ttl`: the row is written whether or not one is there,
\* and its life is only ever made longer.
RowAfterLock(q, t, ttl) ==
  LET life == IF rows[q] = NoRow THEN seq + MinTempTtl - 1
              ELSE rows[q].liveUntil
  IN  [sell |-> t.sell, buy |-> t.buy, price |-> t.price, fee |-> t.fee,
       expires |-> seq + ttl, consumed |-> FALSE,
       liveUntil |-> Larger(life, seq + Live(ttl))]

LockQuote(caller, q, t, ttl) ==
  /\ Len(locks[q]) < MaxLocks
  /\ LockAnswer(caller, t, ttl) = "Ok"
  /\ rows' = [rows EXCEPT ![q] = RowAfterLock(q, t, ttl)]
  /\ locks' = [locks EXCEPT ![q] =
                 Append(@, [terms |-> t, at |-> seq, expires |-> seq + ttl])]
  /\ UNCHANGED <<acVars, uses>>

-----------------------------------------------------------------------------
(* consume_quote, and the two read-only calls                              *)

\* Mutants: a used quote is used again; one is used in the ledger it expires.
ConsumeBody_NoFlag(q) ==
  IF rows[q] = NoRow THEN "QuoteNotFound"
  ELSE IF seq >= rows[q].expires THEN "QuoteExpired" ELSE "Ok"
ConsumeBody_LateByOne(q) ==
  IF rows[q] = NoRow THEN "QuoteNotFound"
  ELSE IF seq > rows[q].expires THEN "QuoteExpired"
  ELSE IF rows[q].consumed THEN "QuoteAlreadyConsumed" ELSE "Ok"

\* Whatever the admin check says: the answer of the body to a signed call.
ConsumeBody(q) ==
  IF rows[q] = NoRow THEN "QuoteNotFound"
  ELSE IF seq >= rows[q].expires THEN "QuoteExpired"
  ELSE IF rows[q].consumed THEN "QuoteAlreadyConsumed" ELSE "Ok"

ConsumeAnswer(caller, q) ==
  IF OnlyAdmin(caller) # "Ok" THEN OnlyAdmin(caller) ELSE ConsumeBody(q)

ConsumeQuote(caller, q, tx) ==
  /\ ConsumeAnswer(caller, q) = "Ok"
  /\ rows' = [rows EXCEPT ![q].consumed = TRUE]
  /\ uses' = [uses EXCEPT ![q] =
                Append(@, [tx |-> tx, price |-> rows[q].price,
                           fee |-> rows[q].fee, at |-> seq,
                           nth |-> Len(locks[q])])]
  /\ UNCHANGED <<acVars, locks>>

\* Mutant: a quote is active as long as the host keeps its row.
IsActive_WhileStored(q) == rows[q] # NoRow /\ ~rows[q].consumed

IsActive(q) ==
  /\ rows[q] # NoRow
  /\ ~rows[q].consumed
  /\ seq < rows[q].expires

-----------------------------------------------------------------------------
\* A ledger closes: rows past their live-until are deleted by the host.
CloseLedger ==
  /\ CloseLedgerAC
  /\ rows' = [q \in QuoteIds |->
                IF rows[q] # NoRow /\ rows[q].liveUntil < seq + 1
                THEN NoRow ELSE rows[q]]
  /\ UNCHANGED <<locks, uses>>

AdminCall == AdminStep /\ UNCHANGED <<rows, locks, uses>>

\* A call that answers an error is rolled back: it is a stuttering step.
Next ==
  \/ CloseLedger
  \/ AdminCall
  \/ \E caller \in Accounts, q \in QuoteIds :
       \/ \E t \in Terms, ttl \in Ttls : LockQuote(caller, q, t, ttl)
       \/ \E tx \in TxIds : ConsumeQuote(caller, q, tx)

Spec == Init /\ [][Next]_vars

\* The network keeps closing ledgers whatever the anchor does.
FairSpec == Spec /\ WF_vars(CloseLedger)

-----------------------------------------------------------------------------
(* Properties                                                              *)

LastLock(q) == locks[q][Len(locks[q])]

\* No two settlements of a quote belong to the same lock: between two
\* QuoteUse events of a quote id lies a QuoteLocked event of that id, however
\* calls, ledger closes and expiries interleave (lib.rs:11-12, one-shot flag).
OneUsePerLock ==
  \A q \in QuoteIds : \A i, j \in 1..Len(uses[q]) :
    i < j => uses[q][i].nth < uses[q][j].nth

\* Every settlement happens inside the window of the lock it settles and at
\* that lock's price and fee, although the row was written, kept, rewritten
\* and possibly deleted in between (lib.rs:187-193).
UseHonoursLock ==
  \A q \in QuoteIds : \A i \in 1..Len(uses[q]) :
    LET u == uses[q][i]  l == locks[q][u.nth]
    IN  /\ u.nth \in 1..Len(locks[q])
        /\ l.at <= u.at /\ u.at < l.expires
        /\ u.price = l.terms.price /\ u.fee = l.terms.fee

\* From the moment a quote is locked until EXPIRY_GRACE_LEDGERS after its
\* expiry the business server gets a precise answer, never QuoteNotFound: the
\* host does not delete a row too early, after a re-lock with a shorter
\* ttl_ledgers either (lib.rs:37-40, 157-160).
PreciseAnswerThroughGrace ==
  \A q \in QuoteIds :
    /\ locks[q] # << >>
    /\ seq <= LastLock(q).expires + EXPIRY_GRACE_LEDGERS
    => ConsumeBody(q) # "QuoteNotFound"

\* What `get_quote` returns is the last lock of that id, and the price
\* relation holds of it over the rationals: net amount = price * buy / SCALE,
\* so the fee is smaller than the amount sold (lib.rs:8-10, 231-244).
StoredQuoteSound ==
  \A q \in QuoteIds : rows[q] # NoRow =>
    /\ (rows[q].sell - rows[q].fee) * PRICE_SCALE = rows[q].price * rows[q].buy
    /\ 0 <= rows[q].fee /\ rows[q].fee < rows[q].sell
    /\ rows[q].expires = LastLock(q).expires
    /\ rows[q].price = LastLock(q).terms.price
    /\ rows[q].fee = LastLock(q).terms.fee

\* Asked by the admin for an admissible life, lock_quote accepts exactly the
\* terms that trade something, charge no negative fee and whose price is
\* (sell - fee) * PRICE_SCALE / buy as a rational number, with no rounding
\* either way, as long as both products stay within i128: no inconsistent
\* quote passes and no consistent one is refused (lib.rs:8-10, 131-137,
\* 231-244).
AcceptsExactly(t, ttl) ==
  LET net == (t.sell - t.fee) * PRICE_SCALE
  IN  LockAnswer(admin, t, ttl) = "Ok" <=>
        /\ t.sell > 0 /\ t.buy > 0 /\ t.price > 0 /\ t.fee >= 0
        /\ net <= I128_MAX /\ t.price * t.buy <= I128_MAX
        /\ net % t.buy = 0 /\ t.price = net \div t.buy

\* A life lock_quote takes: not empty, and neither the expiry nor the life of
\* the row overflows what u32 and the host hold.
Admissible(ttl) == ttl > 0 /\ Extendable(ttl)

\* Of every quadruple of i128 amounts, whatever admissible life goes with it,
\* the admin's lock_quote accepts exactly the consistent ones.  TLC asks it
\* where nothing has been locked yet, since the answer reads no row; the
\* theorem is proved of every state (lib.rs:8-10, 131-137, 231-244).
AcceptsExactlyPriceRelation ==
  (seq = 1 /\ admin # NoAccount /\ \A q \in QuoteIds : locks[q] = << >>) =>
    \A t \in [sell : I128, buy : I128, price : I128, fee : I128],
       ttl \in Ttls : Admissible(ttl) => AcceptsExactly(t, ttl)

\* Once the admin has renounced, nothing is ever locked or settled again, an
\* outstanding admin transfer notwithstanding (lib.rs:121, 174, 247-250).
OrphanedBookFrozen ==
  [][admin = NoAccount => admin' = NoAccount /\ UNCHANGED <<locks, uses>>]_vars

\* A firm quote binds the anchor for a bounded window only: an active quote
\* is eventually settled, expired or replaced by a later lock, because every
\* accepted expiry is a ledger number the clock reaches (lib.rs:139-143).
EveryQuoteCloses ==
  \A q \in QuoteIds : \A n \in 1..MaxLocks :
    IsActive(q) /\ Len(locks[q]) = n ~> ~(IsActive(q) /\ Len(locks[q]) = n)

\* What the proofs need to know of one quote id between two calls.  A row is
\* the last lock, with at least the grace period to live after its expiry;
\* a lock still in its window or grace has its row; and the row's flag tells
\* whether the last lock has been used.
RowInv(q) ==
  rows[q] # NoRow =>
    /\ Len(locks[q]) > 0
    /\ rows[q].expires = LastLock(q).expires
    /\ rows[q].price = LastLock(q).terms.price
    /\ rows[q].fee = LastLock(q).terms.fee
    /\ (rows[q].sell - rows[q].fee) * PRICE_SCALE = rows[q].price * rows[q].buy
    /\ 0 <= rows[q].fee /\ rows[q].fee < rows[q].sell
    /\ rows[q].liveUntil >= rows[q].expires + EXPIRY_GRACE_LEDGERS

KeptInv(q) ==
  Len(locks[q]) > 0 =>
    /\ LastLock(q).at <= seq
    /\ seq <= LastLock(q).expires + EXPIRY_GRACE_LEDGERS => rows[q] # NoRow

UseInv(q) ==
  \A i \in 1..Len(uses[q]) :
    /\ uses[q][i].nth \in 1..Len(locks[q])
    /\ locks[q][uses[q][i].nth].at <= uses[q][i].at
    /\ uses[q][i].at < locks[q][uses[q][i].nth].expires
    /\ uses[q][i].price = locks[q][uses[q][i].nth].terms.price
    /\ uses[q][i].fee = locks[q][uses[q][i].nth].terms.fee
    /\ uses[q][i].nth = Len(locks[q]) /\ rows[q] # NoRow => rows[q].consumed

OrderInv(q) ==
  \A i, j \in 1..Len(uses[q]) : i < j => uses[q][i].nth < uses[q][j].nth

\* The inductive invariant: every row of storage agrees with the history of
\* calls on its quote id, through any interleaving with the ledger clock.
QuoteInv(q) == RowInv(q) /\ KeptInv(q) /\ UseInv(q) /\ OrderInv(q)

StorageMatchesHistory == TypeOK /\ \A q \in QuoteIds : QuoteInv(q)

\* The contract implements the offer book: an offer is open exactly while
\* `is_active` answers true, and the storage rows, their lives, the grace
\* period and the consumed flag are invisible to the book's users.
OfferOf(q) ==
  IF IsActive(q)
  THEN [price |-> rows[q].price, fee |-> rows[q].fee,
        deadline |-> rows[q].expires]
  ELSE NoRow

DealOf(u) == [tx |-> u.tx, price |-> u.price, fee |-> u.fee, at |-> u.at]

Book == INSTANCE QuoteBook WITH
  now <- seq, Closed <- NoRow, Horizon <- U32_MAX,
  offer <- [q \in QuoteIds |-> OfferOf(q)],
  deals <- [q \in QuoteIds |-> [i \in 1..Len(uses[q]) |-> DealOf(uses[q][i])]]

ImplementsBook == Book!BookSpec

-----------------------------------------------------------------------------
(* What a comment of the contract claims and the code does not do.         *)

\* "cannot be ... double-settled" (lib.rs:4): a quote id settles once.
SettledAtMostOnce == \A q \in QuoteIds : Len(uses[q]) <= 1
=============================================================================
