-------------------------- MODULE FxRateLockProofs --------------------------
(***************************************************************************)
(* Proofs about FxRateLock for every set of quote ids, every amount, ttl   *)
(* and ledger, and every value of the host's limits.                       *)
(***************************************************************************)
EXTENDS FxRateLock, TLAPS

\* The constants' assumptions under one name, as every step needs some.
LEMMA Constants ==
  /\ U32_MAX \in Nat /\ MaxSeq \in 1..U32_MAX
  /\ MinTempTtl \in 1..U32_MAX /\ MaxTtl \in 1..U32_MAX
  /\ AdminWindows \subseteq Int /\ NoAccount \notin Accounts
  /\ I128_MAX \in Nat /\ PRICE_SCALE \in Nat \ {0}
  /\ EXPIRY_GRACE_LEDGERS \in Nat
  /\ Terms \subseteq [sell : I128, buy : I128, price : I128, fee : I128]
  /\ Ttls \subseteq U32
  /\ NoRow \notin Row
  /\ NoRow \notin [price : I128, fee : I128, deadline : U32]
BY AccountsAssumption, LedgerAssumption, WindowAssumption, AmountAssumption,
   InputAssumption, NoRowAssumption

-----------------------------------------------------------------------------
(* Each action, on the type invariant.                                     *)

\* The initial state is of the right type.
LEMMA InitType == Init => TypeOK
BY Constants DEF Init, ACInit, TypeOK, ACTypeOK

\* A call of the admin interface keeps the types of the admin state.
LEMMA AdminType ==
  ASSUME TypeOK, AdminStep
  PROVE  ACTypeOK' /\ seq' = seq
BY Constants DEF TypeOK, ACTypeOK, AdminStep, TransferAdminRole,
   AcceptAdminTransfer, RenounceAdmin, AcceptAdminAnswer, Larger

\* What an accepted lock_quote knows of its arguments.
LEMMA LockFacts ==
  ASSUME NEW caller \in Accounts, NEW t \in Terms, NEW ttl \in Ttls,
         LockAnswer(caller, t, ttl) = "Ok"
  PROVE  /\ t.sell > 0 /\ t.fee >= 0 /\ t.price > 0 /\ t.buy > 0
         /\ (t.sell - t.fee) * PRICE_SCALE = t.price * t.buy
         /\ ttl > 0 /\ ~(seq + ttl > U32_MAX)
         /\ admin = caller /\ admin # NoAccount
<1>1. /\ t.sell \in Int /\ t.buy \in Int /\ t.price \in Int /\ t.fee \in Int
      /\ ttl \in Nat
  BY Constants DEF I128, U32
<1>2. OnlyAdmin(caller) = "Ok" /\ PriceAnswer(t) = "Ok"
  BY DEF LockAnswer
<1>3. ~(t.sell <= 0 \/ t.buy <= 0 \/ t.price <= 0 \/ t.fee < 0)
  BY DEF LockAnswer
<1>4. ttl # 0 /\ ~(seq + ttl > U32_MAX)
  BY DEF LockAnswer
<1>5. (t.sell - t.fee) * PRICE_SCALE = t.price * t.buy
  BY <1>2 DEF PriceAnswer
<1>6. admin = caller /\ admin # NoAccount
  BY <1>2 DEF OnlyAdmin
<1> QED BY <1>1, <1>3, <1>4, <1>5, <1>6

\* The row lock_quote writes is well typed.
LEMMA LockRowType ==
  ASSUME TypeOK, NEW q \in QuoteIds, NEW caller \in Accounts,
         NEW t \in Terms, NEW ttl \in Ttls, LockAnswer(caller, t, ttl) = "Ok"
  PROVE  /\ RowAfterLock(q, t, ttl) \in Row
         /\ [terms |-> t, at |-> seq, expires |-> seq + ttl] \in Lock
         /\ RowAfterLock(q, t, ttl).liveUntil
              >= seq + ttl + EXPIRY_GRACE_LEDGERS
<1>1. t \in [sell : I128, buy : I128, price : I128, fee : I128] /\ ttl \in U32
  BY Constants
<1>2. seq + ttl \in U32
  BY <1>1, LockFacts, Constants DEF U32, TypeOK, ACTypeOK
<1>3. rows[q] # NoRow => rows[q].liveUntil \in Nat
  BY DEF TypeOK, Row
<1>4. seq \in Nat /\ MinTempTtl \in Nat /\ seq >= 1 /\ Live(ttl) \in Nat
      /\ Live(ttl) = ttl + EXPIRY_GRACE_LEDGERS
  BY <1>1, Constants DEF TypeOK, ACTypeOK, Live, U32
<1>5. /\ RowAfterLock(q, t, ttl).liveUntil \in Nat
      /\ RowAfterLock(q, t, ttl).liveUntil >= seq + ttl + EXPIRY_GRACE_LEDGERS
  BY <1>1, <1>3, <1>4, Constants DEF RowAfterLock, Larger, U32
<1>6. RowAfterLock(q, t, ttl) \in Row
  BY <1>1, <1>2, <1>5 DEF RowAfterLock, Row
<1>7. [terms |-> t, at |-> seq, expires |-> seq + ttl] \in Lock
  BY <1>2, <1>4 DEF Lock
<1> QED BY <1>5, <1>6, <1>7

\* Every step of the contract keeps the types.
LEMMA NextType == TypeOK /\ [Next]_vars => TypeOK'
<1> SUFFICES ASSUME TypeOK, [Next]_vars PROVE TypeOK'
  OBVIOUS
<1>1. CASE CloseLedger
  <2>1. ACTypeOK'
    BY <1>1, Constants DEF CloseLedger, CloseLedgerAC, TypeOK, ACTypeOK
  <2>2. rows' \in [QuoteIds -> Row \cup {NoRow}]
    BY <1>1 DEF CloseLedger, TypeOK
  <2> QED BY <1>1, <2>1, <2>2 DEF CloseLedger, TypeOK
<1>2. CASE AdminCall
  BY <1>2, AdminType DEF AdminCall, TypeOK
<1>3. CASE \E caller \in Accounts, q \in QuoteIds, t \in Terms, ttl \in Ttls :
             LockQuote(caller, q, t, ttl)
  <2> PICK caller \in Accounts, q \in QuoteIds, t \in Terms, ttl \in Ttls :
        LockQuote(caller, q, t, ttl)
    BY <1>3
  <2>1. RowAfterLock(q, t, ttl) \in Row
        /\ [terms |-> t, at |-> seq, expires |-> seq + ttl] \in Lock
    BY LockRowType DEF LockQuote
  <2>2. rows' \in [QuoteIds -> Row \cup {NoRow}]
    BY <2>1 DEF LockQuote, TypeOK
  <2>3. Append(locks[q], [terms |-> t, at |-> seq, expires |-> seq + ttl])
          \in Seq(Lock)
    BY <2>1 DEF TypeOK
  <2>4. locks' \in [QuoteIds -> Seq(Lock)]
    BY <2>3 DEF LockQuote, TypeOK
  <2> QED BY <2>2, <2>4 DEF LockQuote, TypeOK, ACTypeOK, acVars
<1>4. CASE \E caller \in Accounts, q \in QuoteIds, tx \in TxIds :
             ConsumeQuote(caller, q, tx)
  <2> PICK caller \in Accounts, q \in QuoteIds, tx \in TxIds :
        ConsumeQuote(caller, q, tx)
    BY <1>4
  <2>1. rows[q] \in Row
    BY DEF ConsumeQuote, ConsumeAnswer, ConsumeBody, OnlyAdmin, TypeOK
  <2>2. [rows[q] EXCEPT !.consumed = TRUE] \in Row
    BY <2>1 DEF Row
  <2>3. rows' \in [QuoteIds -> Row \cup {NoRow}]
    BY <2>2 DEF ConsumeQuote, TypeOK
  <2>4. [tx |-> tx, price |-> rows[q].price, fee |-> rows[q].fee,
         at |-> seq, nth |-> Len(locks[q])] \in Use
    BY <2>1 DEF Use, Row, TypeOK, ACTypeOK
  <2>5. Append(uses[q], [tx |-> tx, price |-> rows[q].price,
                         fee |-> rows[q].fee, at |-> seq,
                         nth |-> Len(locks[q])]) \in Seq(Use)
    BY <2>4 DEF TypeOK
  <2>6. uses' \in [QuoteIds -> Seq(Use)]
    BY <2>5 DEF ConsumeQuote, TypeOK
  <2> QED BY <2>3, <2>6 DEF ConsumeQuote, TypeOK, ACTypeOK, acVars
<1>5. CASE UNCHANGED vars
  BY <1>5 DEF vars, TypeOK, ACTypeOK
<1> QED BY <1>1, <1>2, <1>3, <1>4, <1>5 DEF Next

\* Every reachable state of the rate lock is well typed: rows are quotes of
\* i128 amounts with a u32 expiry, whatever lock_quote is called with.
THEOREM TypeCorrect == Spec => []TypeOK
BY InitType, NextType, PTL DEF Spec

-----------------------------------------------------------------------------
(* Each action, on the agreement of storage with the history of calls.     *)

\* A quote id no step touches keeps its invariant.
LEMMA Frame ==
  ASSUME NEW q \in QuoteIds, QuoteInv(q), seq' = seq,
         rows'[q] = rows[q], locks'[q] = locks[q], uses'[q] = uses[q]
  PROVE  QuoteInv(q)'
BY DEF QuoteInv, RowInv, KeptInv, UseInv, OrderInv, LastLock

\* An empty storage agrees with an empty history.
LEMMA InitHistory == Init => \A q \in QuoteIds : QuoteInv(q)
BY DEF Init, QuoteInv, RowInv, KeptInv, UseInv, OrderInv

\* The clock: a row that is deleted had outlived its lock's grace period.
LEMMA CloseLedgerHistory ==
  ASSUME TypeOK, TypeOK', CloseLedger, NEW q \in QuoteIds, QuoteInv(q)
  PROVE  QuoteInv(q)'
<1>1. /\ seq' = seq + 1 /\ locks' = locks /\ uses' = uses
      /\ seq \in Int /\ LastLock(q)' = LastLock(q)
  BY DEF CloseLedger, CloseLedgerAC, LastLock, TypeOK, ACTypeOK
<1>2. rows'[q] = IF rows[q] # NoRow /\ rows[q].liveUntil < seq + 1
                 THEN NoRow ELSE rows[q]
  BY DEF CloseLedger
<1>3. RowInv(q)'
  BY <1>1, <1>2 DEF QuoteInv, RowInv
<1>4. KeptInv(q)'
  <2> SUFFICES ASSUME Len(locks[q]) > 0
               PROVE  /\ LastLock(q).at <= seq + 1
                      /\ seq + 1 <= LastLock(q).expires + EXPIRY_GRACE_LEDGERS
                         => rows'[q] # NoRow
    BY <1>1 DEF KeptInv
  <2>1. LastLock(q) \in Lock
    BY DEF TypeOK, LastLock
  <2>2. LastLock(q).at \in Int /\ LastLock(q).expires \in Int
    BY <2>1, Constants DEF Lock, U32
  <2>3. LastLock(q).at <= seq + 1
    BY <1>1, <2>2 DEF QuoteInv, KeptInv
  <2>4. ASSUME seq + 1 <= LastLock(q).expires + EXPIRY_GRACE_LEDGERS
        PROVE  rows'[q] # NoRow
    <3>1. rows[q] # NoRow
      BY <1>1, <2>2, <2>4, Constants DEF QuoteInv, KeptInv
    <3>2. rows[q].liveUntil \in Int /\ rows[q].liveUntil >= seq + 1
      BY <1>1, <2>2, <2>4, <3>1, Constants DEF QuoteInv, RowInv, TypeOK, Row
    <3> QED BY <1>1, <1>2, <3>1, <3>2
  <2> QED BY <2>3, <2>4
<1>5. UseInv(q)' /\ OrderInv(q)'
  BY <1>1, <1>2 DEF QuoteInv, UseInv, OrderInv
<1> QED BY <1>3, <1>4, <1>5 DEF QuoteInv

\* A lock opens a new window: what was used before was used under an
\* earlier lock.
LEMMA LockHistory ==
  ASSUME TypeOK, NEW q \in QuoteIds, QuoteInv(q),
         NEW caller \in Accounts, NEW t \in Terms, NEW ttl \in Ttls,
         LockQuote(caller, q, t, ttl)
  PROVE  QuoteInv(q)'
<1> DEFINE L == [terms |-> t, at |-> seq, expires |-> seq + ttl]
<1>1. /\ seq' = seq /\ seq \in Int /\ uses' = uses
      /\ rows'[q] = RowAfterLock(q, t, ttl)
      /\ locks'[q] = Append(locks[q], L)
  BY DEF LockQuote, TypeOK, ACTypeOK, acVars
<1>2. /\ t.sell \in Int /\ t.buy \in Int /\ t.price \in Int /\ t.fee \in Int
      /\ ttl \in Nat
  BY Constants DEF I128, U32
<1>3. /\ Len(locks[q]) \in Nat /\ Len(locks'[q]) = Len(locks[q]) + 1
      /\ LastLock(q)' = L
      /\ \A i \in 1..Len(locks[q]) : locks'[q][i] = locks[q][i]
  BY <1>1 DEF TypeOK, LastLock
<1>4. /\ (t.sell - t.fee) * PRICE_SCALE = t.price * t.buy
      /\ t.price > 0 /\ t.buy > 0 /\ t.fee >= 0 /\ ttl > 0
  BY LockFacts DEF LockQuote
<1>5. t.fee < t.sell
  <2>1. t.price * t.buy > 0
    BY <1>2, <1>4
  <2>2. t.sell - t.fee \in Int /\ (t.sell - t.fee) * PRICE_SCALE > 0
    BY <1>2, <1>4, <2>1
  <2>3. t.sell - t.fee > 0
    BY <2>2, Constants
  <2> QED BY <1>2, <2>3
<1>6. RowAfterLock(q, t, ttl).liveUntil >= seq + ttl + EXPIRY_GRACE_LEDGERS
  BY LockRowType DEF LockQuote
<1>7. RowInv(q)'
  BY <1>1, <1>2, <1>3, <1>4, <1>5, <1>6 DEF RowInv, RowAfterLock
<1>8. rows'[q] # NoRow
  BY <1>1, LockRowType, Constants DEF LockQuote
<1>9. KeptInv(q)'
  BY <1>1, <1>3, <1>8 DEF KeptInv
<1>10. UseInv(q)'
  <2> SUFFICES ASSUME NEW i \in 1..Len(uses[q])
               PROVE  /\ uses[q][i].nth \in 1..Len(locks[q])
                      /\ locks'[q][uses[q][i].nth] = locks[q][uses[q][i].nth]
    BY <1>1, <1>3 DEF QuoteInv, UseInv
  <2> QED BY <1>3 DEF QuoteInv, UseInv
<1>11. OrderInv(q)'
  BY <1>1 DEF QuoteInv, OrderInv
<1> QED BY <1>7, <1>9, <1>10, <1>11 DEF QuoteInv

\* A consume settles the last lock, which its flag says was not used before.
LEMMA ConsumeHistory ==
  ASSUME TypeOK, NEW q \in QuoteIds, QuoteInv(q),
         NEW caller \in Accounts, NEW tx \in TxIds, ConsumeQuote(caller, q, tx)
  PROVE  QuoteInv(q)'
<1> DEFINE n == Len(locks[q])
           U == [tx |-> tx, price |-> rows[q].price, fee |-> rows[q].fee,
                 at |-> seq, nth |-> n]
<1>1. /\ seq' = seq /\ seq \in Int /\ locks' = locks
      /\ rows' = [rows EXCEPT ![q].consumed = TRUE]
      /\ uses'[q] = Append(uses[q], U)
  BY DEF ConsumeQuote, TypeOK, ACTypeOK, acVars
<1>2. rows[q] # NoRow /\ ~(seq >= rows[q].expires) /\ ~rows[q].consumed
  BY DEF ConsumeQuote, ConsumeAnswer, ConsumeBody
<1>3. rows[q] \in Row
  BY <1>2 DEF TypeOK
<1>4. rows[q].expires \in Int /\ seq < rows[q].expires
  BY <1>1, <1>2, <1>3, Constants DEF Row, U32
<1>5. /\ rows'[q].consumed = TRUE
      /\ \A f \in {"sell", "buy", "price", "fee", "expires", "liveUntil"} :
           rows'[q][f] = rows[q][f]
  BY <1>1, <1>3 DEF Row, TypeOK
<1>6. n \in Nat /\ n > 0 /\ n \in 1..n /\ LastLock(q) = locks[q][n]
      /\ LastLock(q)' = LastLock(q)
  BY <1>1, <1>2 DEF QuoteInv, RowInv, LastLock, TypeOK
<1>7. /\ Len(uses[q]) \in Nat /\ Len(uses'[q]) = Len(uses[q]) + 1
      /\ \A i \in 1..Len(uses[q]) : uses'[q][i] = uses[q][i]
      /\ uses'[q][Len(uses[q]) + 1] = U
  BY <1>1 DEF TypeOK
<1>8. RowInv(q)'
  BY <1>1, <1>2, <1>5, <1>6 DEF QuoteInv, RowInv
<1>9. rows'[q] # NoRow
  BY <1>1, <1>3, Constants, NextType DEF Row, TypeOK
<1>10. KeptInv(q)'
  BY <1>1, <1>9, <1>6 DEF QuoteInv, KeptInv
<1>11. /\ LastLock(q).at <= seq /\ seq < LastLock(q).expires
       /\ rows[q].price = LastLock(q).terms.price
       /\ rows[q].fee = LastLock(q).terms.fee
  BY <1>2, <1>4, <1>6 DEF QuoteInv, RowInv, KeptInv
<1>12. UseInv(q)'
  <2> SUFFICES ASSUME NEW i \in 1..Len(uses[q]) + 1
               PROVE  LET u == uses'[q][i]  l == locks[q][u.nth]
                      IN  /\ u.nth \in 1..n
                          /\ l.at <= u.at /\ u.at < l.expires
                          /\ u.price = l.terms.price /\ u.fee = l.terms.fee
    BY <1>1, <1>5, <1>7 DEF UseInv
  <2>1. CASE i = Len(uses[q]) + 1
    <3>1. uses'[q][i] = U
      BY <1>7, <2>1
    <3>2. /\ U.nth = n /\ U.at = seq
          /\ U.price = rows[q].price /\ U.fee = rows[q].fee
      OBVIOUS
    <3>3. n \in 1..n /\ locks[q][n] = LastLock(q)
      BY <1>6
    <3> HIDE DEF U, n
    <3> QED BY <3>1, <3>2, <3>3, <1>11
  <2>2. CASE i \in 1..Len(uses[q])
    BY <1>7, <2>2 DEF QuoteInv, UseInv
  <2> QED BY <1>7, <2>1, <2>2
<1>13. \A i \in 1..Len(uses[q]) : uses[q][i].nth < n
  BY <1>2, <1>6 DEF QuoteInv, UseInv
<1>14. OrderInv(q)'
  <2> SUFFICES ASSUME NEW i \in 1..Len(uses[q]) + 1,
                      NEW j \in 1..Len(uses[q]) + 1, i < j
               PROVE  uses'[q][i].nth < uses'[q][j].nth
    BY <1>7 DEF OrderInv
  <2>1. i \in 1..Len(uses[q])
    BY <1>7
  <2>2. CASE j = Len(uses[q]) + 1
    BY <1>7, <1>13, <2>1, <2>2
  <2>3. CASE j \in 1..Len(uses[q])
    BY <1>7, <2>1, <2>3 DEF QuoteInv, OrderInv
  <2> QED BY <1>7, <2>2, <2>3
<1> QED BY <1>8, <1>10, <1>12, <1>14 DEF QuoteInv

\* The inductive step of StorageMatchesHistory, one action at a time.
LEMMA NextHistory ==
  StorageMatchesHistory /\ [Next]_vars => StorageMatchesHistory'
<1> SUFFICES ASSUME StorageMatchesHistory, [Next]_vars,
                    NEW q \in QuoteIds
             PROVE  QuoteInv(q)'
  BY NextType DEF StorageMatchesHistory
<1>0. TypeOK /\ TypeOK' /\ QuoteInv(q)
  BY NextType DEF StorageMatchesHistory
<1>1. CASE CloseLedger
  BY <1>0, <1>1, CloseLedgerHistory
<1>2. CASE AdminCall
  BY <1>0, <1>2, AdminType, Frame DEF AdminCall
<1>3. ASSUME NEW caller \in Accounts, NEW r \in QuoteIds, NEW t \in Terms,
             NEW ttl \in Ttls, LockQuote(caller, r, t, ttl)
      PROVE  QuoteInv(q)'
  <2>1. CASE r = q
    BY <1>0, <1>3, <2>1, LockHistory
  <2>2. CASE r # q
    BY <1>0, <1>3, <2>2, Frame DEF LockQuote, TypeOK, acVars
  <2> QED BY <2>1, <2>2
<1>4. ASSUME NEW caller \in Accounts, NEW r \in QuoteIds, NEW tx \in TxIds,
             ConsumeQuote(caller, r, tx)
      PROVE  QuoteInv(q)'
  <2>1. CASE r = q
    BY <1>0, <1>4, <2>1, ConsumeHistory
  <2>2. CASE r # q
    BY <1>0, <1>4, <2>2, Frame DEF ConsumeQuote, TypeOK, acVars
  <2> QED BY <2>1, <2>2
<1>5. CASE UNCHANGED vars
  BY <1>0, <1>5, Frame DEF vars
<1> QED BY <1>1, <1>2, <1>3, <1>4, <1>5 DEF Next

\* In every reachable state storage agrees with the history of calls.
THEOREM HistoryKept == Spec => []StorageMatchesHistory
<1>1. Init => StorageMatchesHistory
  BY InitType, InitHistory DEF StorageMatchesHistory
<1> QED BY <1>1, NextHistory, PTL DEF Spec

-----------------------------------------------------------------------------
(* The safety properties of the module, for every value of the constants.  *)

\* Between two settlements of a quote id lies a lock of it: consume_quote's
\* flag cannot be defeated by any interleaving of calls and ledger closes.
THEOREM SettledOncePerLock == Spec => []OneUsePerLock
<1>1. StorageMatchesHistory => OneUsePerLock
  BY DEF StorageMatchesHistory, QuoteInv, OrderInv, OneUsePerLock
<1> QED BY <1>1, HistoryKept, PTL

\* Every settlement falls inside the window of the lock it settles, at that
\* lock's price and fee.
THEOREM SettledAsLocked == Spec => []UseHonoursLock
<1>1. StorageMatchesHistory => UseHonoursLock
  BY DEF StorageMatchesHistory, QuoteInv, UseInv, UseHonoursLock
<1> QED BY <1>1, HistoryKept, PTL

\* A locked quote is never answered QuoteNotFound before its grace is over.
THEOREM GraceHonoured == Spec => []PreciseAnswerThroughGrace
<1>1. StorageMatchesHistory => PreciseAnswerThroughGrace
  <2> SUFFICES ASSUME StorageMatchesHistory, NEW q \in QuoteIds,
                      locks[q] # << >>,
                      seq <= LastLock(q).expires + EXPIRY_GRACE_LEDGERS
               PROVE  ConsumeBody(q) # "QuoteNotFound"
    BY DEF PreciseAnswerThroughGrace
  <2>1. Len(locks[q]) > 0
    BY DEF StorageMatchesHistory, TypeOK
  <2>2. rows[q] # NoRow
    BY <2>1 DEF StorageMatchesHistory, QuoteInv, KeptInv
  <2> QED BY <2>2 DEF ConsumeBody
<1> QED BY <1>1, HistoryKept, PTL

\* Only quotes that satisfy the price relation are stored, each the last one
\* locked under its id.
THEOREM OnlySoundQuotesStored == Spec => []StoredQuoteSound
<1>1. StorageMatchesHistory => StoredQuoteSound
  BY DEF StorageMatchesHistory, QuoteInv, RowInv, StoredQuoteSound
<1> QED BY <1>1, HistoryKept, PTL

\* Once the admin has renounced, nothing is ever locked or settled again and
\* nobody becomes admin: a handover that was pending then cannot be accepted.
THEOREM OrphanStaysFrozen == Spec => OrphanedBookFrozen
<1>1. [Next]_vars => [admin = NoAccount =>
                        admin' = NoAccount /\ UNCHANGED <<locks, uses>>]_vars
  <2> SUFFICES ASSUME Next, admin = NoAccount
               PROVE  admin' = NoAccount /\ UNCHANGED <<locks, uses>>
    BY DEF vars
  <2>1. CASE CloseLedger
    BY <2>1 DEF CloseLedger, CloseLedgerAC
  <2>2. CASE AdminCall
    BY <2>2 DEF AdminCall, AdminStep, TransferAdminRole, AcceptAdminTransfer,
       AcceptAdminAnswer, RenounceAdmin
  <2>3. ASSUME NEW caller \in Accounts, OnlyAdmin(caller) = "Ok"
        PROVE  FALSE
    BY <2>3 DEF OnlyAdmin
  <2>4. \A caller \in Accounts, q \in QuoteIds :
          /\ \A t \in Terms, ttl \in Ttls : ~LockQuote(caller, q, t, ttl)
          /\ \A tx \in TxIds : ~ConsumeQuote(caller, q, tx)
    BY <2>3 DEF LockQuote, LockAnswer, ConsumeQuote, ConsumeAnswer
  <2> QED BY <2>1, <2>2, <2>4 DEF Next
<1> QED BY <1>1, PTL DEF Spec, OrphanedBookFrozen

-----------------------------------------------------------------------------
(* The contract implements the offer book.                                 *)

\* The abstract book shows an offer exactly for the quotes is_active affirms.
LEMMA OfferOpen ==
  ASSUME TypeOK, NEW q \in QuoteIds
  PROVE  OfferOf(q) # NoRow <=> IsActive(q)
<1>1. ASSUME IsActive(q)
      PROVE  OfferOf(q) \in [price : I128, fee : I128, deadline : U32]
  <2>1. rows[q] \in Row
    BY <1>1 DEF IsActive, TypeOK
  <2> QED BY <1>1, <2>1 DEF OfferOf, Row
<1> QED BY <1>1, Constants DEF OfferOf

\* A closing ledger closes exactly the offers whose deadline it reaches: no
\* active row is deleted before its expiry.
LEMMA CloseLedgerRefines ==
  ASSUME StorageMatchesHistory, StorageMatchesHistory', CloseLedger
  PROVE  Book!Advance
<1>0. TypeOK /\ TypeOK'
  BY DEF StorageMatchesHistory
<1>1. seq' = seq + 1 /\ seq \in Int /\ uses' = uses
  BY <1>0 DEF CloseLedger, CloseLedgerAC, TypeOK, ACTypeOK
<1>2. ASSUME NEW q \in QuoteIds
      PROVE  OfferOf(q)' = IF OfferOf(q) # NoRow
                              /\ OfferOf(q).deadline <= seq + 1
                           THEN NoRow ELSE OfferOf(q)
  <2>1. rows'[q] = IF rows[q] # NoRow /\ rows[q].liveUntil < seq + 1
                   THEN NoRow ELSE rows[q]
    BY DEF CloseLedger
  <2>2. CASE ~IsActive(q)
    <3>1. ~IsActive(q)'
      BY <1>0, <1>1, <2>1, <2>2, Constants DEF IsActive, TypeOK, Row, U32
    <3> QED BY <2>2, <3>1 DEF OfferOf
  <2>3. CASE IsActive(q)
    <3>1. /\ rows[q] # NoRow /\ rows[q].expires \in Int
          /\ rows[q].liveUntil \in Int
          /\ rows[q].liveUntil >= rows[q].expires + EXPIRY_GRACE_LEDGERS
      BY <1>0, <2>3, Constants
      DEF IsActive, TypeOK, Row, U32, StorageMatchesHistory, QuoteInv, RowInv
    <3>2. OfferOf(q) # NoRow /\ OfferOf(q).deadline = rows[q].expires
      BY <1>0, <2>3, OfferOpen DEF OfferOf
    <3>3. CASE rows[q].expires <= seq + 1
      <4>1. ~IsActive(q)'
        BY <1>1, <2>1, <3>1, <3>3 DEF IsActive
      <4> QED BY <3>2, <3>3, <4>1 DEF OfferOf
    <3>4. CASE ~(rows[q].expires <= seq + 1)
      <4>1. rows'[q] = rows[q]
        BY <1>1, <2>1, <3>1, <3>4, Constants
      <4>2. IsActive(q)'
        BY <1>1, <2>3, <3>1, <3>4, <4>1 DEF IsActive
      <4> QED BY <2>3, <3>2, <3>4, <4>1, <4>2 DEF OfferOf
    <3> QED BY <3>3, <3>4
  <2> QED BY <2>2, <2>3
<1> QED BY <1>1, <1>2 DEF Book!Advance

\* An accepted lock posts an offer.
LEMMA LockRefines ==
  ASSUME TypeOK, TypeOK', NEW caller \in Accounts, NEW q \in QuoteIds,
         NEW t \in Terms, NEW ttl \in Ttls, LockQuote(caller, q, t, ttl)
  PROVE  Book!Post(q, t, seq + ttl) /\ seq + ttl \in seq + 1 .. U32_MAX
<1>1. seq' = seq /\ uses' = uses /\ seq \in Int
      /\ rows' = [rows EXCEPT ![q] = RowAfterLock(q, t, ttl)]
  BY DEF LockQuote, acVars, TypeOK, ACTypeOK
<1>2. ttl \in Nat /\ ttl > 0 /\ ~(seq + ttl > U32_MAX)
  BY LockFacts, Constants DEF LockQuote, U32
<1>3. rows'[q] = RowAfterLock(q, t, ttl) /\ rows'[q] # NoRow
  BY <1>1, LockRowType, Constants DEF LockQuote, TypeOK
<1>4. OfferOf(q)' = [price |-> t.price, fee |-> t.fee, deadline |-> seq + ttl]
  BY <1>1, <1>2, <1>3 DEF OfferOf, IsActive, RowAfterLock
<1>5. \A r \in QuoteIds \ {q} : OfferOf(r)' = OfferOf(r)
  BY <1>1 DEF OfferOf, IsActive, TypeOK
<1>6. seq + ttl \in seq + 1 .. U32_MAX
  BY <1>1, <1>2, Constants
<1> QED BY <1>1, <1>4, <1>5, <1>6 DEF Book!Post

\* An accepted consume strikes the offer at the offer's own price and fee.
LEMMA ConsumeRefines ==
  ASSUME TypeOK, TypeOK', NEW caller \in Accounts, NEW q \in QuoteIds,
         NEW tx \in TxIds, ConsumeQuote(caller, q, tx)
  PROVE  Book!Strike(q, tx)
<1> DEFINE U == [tx |-> tx, price |-> rows[q].price, fee |-> rows[q].fee,
                 at |-> seq, nth |-> Len(locks[q])]
           D(s) == [i \in 1..Len(s) |-> DealOf(s[i])]
<1>1. /\ seq' = seq /\ seq \in Int /\ locks' = locks
      /\ rows' = [rows EXCEPT ![q].consumed = TRUE]
      /\ uses' = [uses EXCEPT ![q] = Append(@, U)]
  BY DEF ConsumeQuote, TypeOK, ACTypeOK, acVars
<1>2. rows[q] # NoRow /\ ~(seq >= rows[q].expires) /\ ~rows[q].consumed
  BY DEF ConsumeQuote, ConsumeAnswer, ConsumeBody
<1>3. rows[q] \in Row
  BY <1>2 DEF TypeOK
<1>4. rows[q].expires \in Int /\ seq < rows[q].expires
  BY <1>1, <1>2, <1>3, Constants DEF Row, U32
<1>5. /\ IsActive(q) /\ OfferOf(q) # NoRow
      /\ OfferOf(q) = [price |-> rows[q].price, fee |-> rows[q].fee,
                       deadline |-> rows[q].expires]
  BY <1>2, <1>4, OfferOpen DEF IsActive, OfferOf
<1>6. OfferOf(q)' = NoRow
  <2>1. rows'[q].consumed = TRUE
    BY <1>1, <1>3 DEF Row, TypeOK
  <2> QED BY <2>1 DEF OfferOf, IsActive
<1>7. \A r \in QuoteIds \ {q} : OfferOf(r)' = OfferOf(r)
  BY <1>1 DEF OfferOf, IsActive, TypeOK
<1>8. D(Append(uses[q], U)) = Append(D(uses[q]), DealOf(U))
  <2>1. uses[q] \in Seq(Use) /\ Len(uses[q]) \in Nat
    BY DEF TypeOK
  <2>2. D(uses[q]) \in Seq({DealOf(uses[q][i]) : i \in 1..Len(uses[q])})
        /\ Len(D(uses[q])) = Len(uses[q])
    BY <2>1
  <2>3. /\ Len(Append(uses[q], U)) = Len(uses[q]) + 1
        /\ \A i \in 1..Len(uses[q]) : Append(uses[q], U)[i] = uses[q][i]
        /\ Append(uses[q], U)[Len(uses[q]) + 1] = U
    BY <2>1
  <2> HIDE DEF U
  <2>4. Append(D(uses[q]), DealOf(U)) =
          [i \in 1..Len(uses[q]) + 1 |->
             IF i = Len(uses[q]) + 1 THEN DealOf(U) ELSE DealOf(uses[q][i])]
    BY <2>1, <2>2
  <2>5. D(Append(uses[q], U)) =
          [i \in 1..Len(uses[q]) + 1 |->
             IF i = Len(uses[q]) + 1 THEN DealOf(U) ELSE DealOf(uses[q][i])]
    BY <2>1, <2>3
  <2> QED BY <2>4, <2>5
<1>9. DealOf(U) = [tx |-> tx, price |-> rows[q].price,
                   fee |-> rows[q].fee, at |-> seq]
  BY DEF DealOf
<1>10. uses'[q] = Append(uses[q], U)
       /\ \A r \in QuoteIds \ {q} : uses'[r] = uses[r]
  BY <1>1 DEF TypeOK
<1> HIDE DEF U
<1>11. [r \in QuoteIds |-> D(uses'[r])] =
         [[r \in QuoteIds |-> D(uses[r])] EXCEPT
            ![q] = Append(@, DealOf(U))]
  BY <1>8, <1>10
<1>12. [r \in QuoteIds |-> OfferOf(r)'] =
         [[r \in QuoteIds |-> OfferOf(r)] EXCEPT ![q] = NoRow]
  BY <1>6, <1>7
<1>13. [r \in QuoteIds |-> OfferOf(r)][q] = OfferOf(q)
       /\ OfferOf(q).deadline = rows[q].expires
       /\ OfferOf(q).price = rows[q].price /\ OfferOf(q).fee = rows[q].fee
  BY <1>5
<1>14. [tx |-> tx, price |-> OfferOf(q).price, fee |-> OfferOf(q).fee,
        at |-> seq] = DealOf(U)
  BY <1>9, <1>13
<1> QED BY <1>1, <1>4, <1>5, <1>11, <1>12, <1>13, <1>14 DEF Book!Strike

\* Every behaviour of the rate lock is one of the offer book: the storage
\* life of rows, the grace period and the consumed flag never show.
THEOREM RateLockImplementsBook == Spec => ImplementsBook
<1>1. Init => Book!BookInit
  BY DEF Init, ACInit, Book!BookInit, OfferOf, IsActive
<1>2. StorageMatchesHistory /\ StorageMatchesHistory' /\ [Next]_vars
        => [Book!BookNext]_(Book!bookVars)
  <2> SUFFICES ASSUME StorageMatchesHistory, StorageMatchesHistory',
                      [Next]_vars
               PROVE  Book!BookNext \/ UNCHANGED Book!bookVars
    OBVIOUS
  <2>0. TypeOK /\ TypeOK'
    BY DEF StorageMatchesHistory
  <2>1. CASE CloseLedger
    BY <2>1, CloseLedgerRefines DEF Book!BookNext
  <2>2. CASE AdminCall
    <3>1. seq' = seq /\ rows' = rows /\ uses' = uses
      BY <2>0, <2>2, AdminType DEF AdminCall
    <3> QED BY <3>1 DEF Book!bookVars, OfferOf, IsActive
  <2>3. ASSUME NEW caller \in Accounts, NEW q \in QuoteIds, NEW t \in Terms,
               NEW ttl \in Ttls, LockQuote(caller, q, t, ttl)
        PROVE  Book!BookNext
    BY <2>0, <2>3, LockRefines DEF Book!BookNext
  <2>4. ASSUME NEW caller \in Accounts, NEW q \in QuoteIds, NEW tx \in TxIds,
               ConsumeQuote(caller, q, tx)
        PROVE  Book!BookNext
    BY <2>0, <2>4, ConsumeRefines DEF Book!BookNext
  <2>5. CASE UNCHANGED vars
    BY <2>5 DEF vars, Book!bookVars, OfferOf, IsActive
  <2> QED BY <2>1, <2>2, <2>3, <2>4, <2>5 DEF Next
<1> QED BY <1>1, <1>2, HistoryKept, PTL DEF Spec, ImplementsBook, Book!BookSpec

-----------------------------------------------------------------------------
(* The price relation.                                                     *)

\* A product is its factor's multiple: the quotient is the other factor and
\* nothing remains, and conversely.
LEMMA ProductDivides ==
  ASSUME NEW n \in Int, NEW price \in Int, NEW buy \in Nat, buy > 0
  PROVE  n = price * buy <=> (n % buy = 0 /\ price = n \div buy)
<1>1. /\ n \div buy \in Int /\ n % buy \in 0 .. buy - 1
      /\ n = buy * (n \div buy) + (n % buy)
  OBVIOUS
<1>2. ASSUME n % buy = 0, price = n \div buy
      PROVE  n = price * buy
  BY <1>1, <1>2
<1>3. ASSUME n = price * buy
      PROVE  n % buy = 0 /\ price = n \div buy
  <2> DEFINE k == n \div buy
             r == n % buy
  <2>1. k \in Int /\ r \in 0 .. buy - 1 /\ price * buy = buy * k + r
    BY <1>1, <1>3
  <2> HIDE DEF k, r
  <2>2. \A d \in Int : 0 <= buy * d /\ buy * d < buy => d = 0
    <3> SUFFICES ASSUME NEW d \in Int, 0 <= buy * d, buy * d < buy, d # 0
                 PROVE  FALSE
      OBVIOUS
    <3>1. CASE d >= 1
      <4>1. buy * d >= buy
        BY <3>1
      <4> QED BY <4>1
    <3>2. CASE d <= -1
      <4>1. buy * d <= -buy
        BY <3>2
      <4> QED BY <4>1
    <3> QED BY <3>1, <3>2
  <2>3. price - k \in Int /\ buy * (price - k) = r
    BY <2>1
  <2>4. price - k = 0
    BY <2>1, <2>2, <2>3
  <2>5. price = k /\ r = 0
    BY <2>1, <2>3, <2>4
  <2> QED BY <2>5 DEF k, r
<1> QED BY <1>2, <1>3

\* No inconsistent quote passes lock_quote and no consistent one is refused:
\* of all terms in i128, the checked multiplications accept exactly those whose
\* price is the rational one, for every life the host and the clock allow.
THEOREM PriceRelationExact ==
  ASSUME NEW t \in [sell : I128, buy : I128, price : I128, fee : I128],
         NEW ttl \in U32, Admissible(ttl), TypeOK, admin # NoAccount
  PROVE  AcceptsExactly(t, ttl)
<1> DEFINE net == t.sell - t.fee
           lhs == net * PRICE_SCALE
           rhs == t.price * t.buy
           Signs == t.sell > 0 /\ t.buy > 0 /\ t.price > 0 /\ t.fee >= 0
<1>1. /\ t.sell \in Int /\ t.buy \in Int /\ t.price \in Int /\ t.fee \in Int
      /\ t.sell <= I128_MAX /\ t.fee <= I128_MAX
      /\ I128_MAX \in Nat /\ PRICE_SCALE \in Nat /\ PRICE_SCALE > 0
      /\ ttl \in Int /\ seq \in Int /\ U32_MAX \in Int /\ MaxTtl \in Int
      /\ Live(ttl) \in Int
  BY Constants DEF I128, U32, TypeOK, ACTypeOK, Live
<1>2. LockAnswer(admin, t, ttl) = "Ok" <=> Signs /\ PriceAnswer(t) = "Ok"
  <2>1. PriceAnswer(t) \in {"Ok", "Overflow", "PriceInvariantViolated"}
    BY DEF PriceAnswer
  <2>2. ttl # 0 /\ ~(seq + ttl > U32_MAX) /\ Extendable(ttl)
    BY <1>1, Constants DEF Admissible, Extendable, Live
  <2>3. /\ ~(t.sell <= 0 \/ t.buy <= 0 \/ t.price <= 0 \/ t.fee < 0) <=> Signs
    BY <1>1
  <2> QED BY <2>1, <2>2, <2>3 DEF LockAnswer, OnlyAdmin
<1>3. net \in Int /\ lhs \in Int /\ rhs \in Int
  BY <1>1
<1>4. PriceAnswer(t) = "Ok" <=> {net, lhs, rhs} \subseteq I128 /\ lhs = rhs
  BY DEF PriceAnswer
<1>5. ASSUME Signs
      PROVE  /\ lhs = rhs => net > 0
             /\ net > 0 => net <= lhs /\ net <= I128_MAX
             /\ rhs > 0
             /\ lhs = rhs <=> (lhs % t.buy = 0 /\ t.price = lhs \div t.buy)
  <2>1. rhs > 0
    BY <1>1, <1>5
  <2>2. net <= 0 => lhs <= 0
    BY <1>1, <1>3
  <2>3. net > 0 => net <= lhs
    BY <1>1, <1>3
  <2>4. net <= I128_MAX
    BY <1>1, <1>5
  <2>5. lhs = rhs <=> (lhs % t.buy = 0 /\ t.price = lhs \div t.buy)
    <3>1. t.buy \in Nat /\ t.buy > 0
      BY <1>1, <1>5
    <3> HIDE DEF lhs
    <3> QED BY <1>1, <1>3, <3>1, ProductDivides
  <2> HIDE DEF net, lhs, rhs
  <2> QED BY <1>3, <2>1, <2>2, <2>3, <2>4, <2>5
<1>6. LockAnswer(admin, t, ttl) = "Ok" <=>
        /\ Signs /\ lhs <= I128_MAX /\ rhs <= I128_MAX
        /\ lhs % t.buy = 0 /\ t.price = lhs \div t.buy
  <2>1. CASE Signs
    <3> DEFINE Divides == lhs % t.buy = 0 /\ t.price = lhs \div t.buy
    <3>1. lhs = rhs <=> Divides
      BY <1>5, <2>1
    <3>2. LockAnswer(admin, t, ttl) = "Ok" <=>
            {net, lhs, rhs} \subseteq I128 /\ lhs = rhs
      BY <1>2, <1>4, <2>1
    <3>3. /\ lhs = rhs => net > 0
          /\ net > 0 => net <= lhs /\ net <= I128_MAX
          /\ rhs > 0
      BY <1>5, <2>1
    <3> HIDE DEF net, lhs, rhs, Divides
    <3>4. {net, lhs, rhs} \subseteq I128 /\ lhs = rhs <=>
            lhs <= I128_MAX /\ rhs <= I128_MAX /\ lhs = rhs
      BY <1>1, <1>3, <3>3 DEF I128
    <3>5. LockAnswer(admin, t, ttl) = "Ok" <=>
            lhs <= I128_MAX /\ rhs <= I128_MAX /\ Divides
      BY <3>1, <3>2, <3>4
    <3> QED BY <2>1, <3>5 DEF Divides
  <2>2. CASE ~Signs
    BY <1>2, <2>2
  <2> QED BY <2>1, <2>2
<1> QED BY <1>6 DEF AcceptsExactly

\* The same of every reachable state that has an admin, for every life a u32
\* can ask for.
THEOREM LocksExactlyConsistentQuotes ==
  Spec => [](admin # NoAccount =>
               \A t \in [sell : I128, buy : I128, price : I128, fee : I128],
                  ttl \in U32 : Admissible(ttl) => AcceptsExactly(t, ttl))
<1>1. TypeOK => (admin # NoAccount =>
               \A t \in [sell : I128, buy : I128, price : I128, fee : I128],
                  ttl \in U32 : Admissible(ttl) => AcceptsExactly(t, ttl))
  BY PriceRelationExact
<1> QED BY <1>1, TypeCorrect, PTL

\* In particular it holds where the runs ask it (lib.rs:231-244).
THEOREM PriceRelationDecides == Spec => []AcceptsExactlyPriceRelation
<1>1. (admin # NoAccount =>
         \A t \in [sell : I128, buy : I128, price : I128, fee : I128],
            ttl \in U32 : Admissible(ttl) => AcceptsExactly(t, ttl))
        => AcceptsExactlyPriceRelation
  BY InputAssumption DEF AcceptsExactlyPriceRelation
<1> QED BY <1>1, LocksExactlyConsistentQuotes, PTL
=============================================================================
