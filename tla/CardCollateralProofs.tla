------------------------ MODULE CardCollateralProofs ------------------------
(***************************************************************************)
(* Theorems about the card-collateral contract, for every number of        *)
(* authorizations, amount, clearing and event, and any i128 width.         *)
(*                                                                         *)
(* The properties speak of the whole history of an auth id.  Account(s, l) *)
(* relates the events s of one id to its stored lock l and is what every   *)
(* call preserves; the lemmas below take the events as a sequence of its   *)
(* own, so that they speak of the log before and after a call alike.       *)
(***************************************************************************)
EXTENDS CardCollateral, UnitSumsProofs

\* What the assumptions on the constants say, in the form the leaves cite.
LEMMA Constants ==
  /\ U32_MAX \in Nat /\ MaxSeq \in 1..U32_MAX
  /\ MinTempTtl \in 1..U32_MAX /\ MaxTtl \in 1..U32_MAX
  /\ AdminWindows \subseteq Int /\ NoAccount \notin Accounts
  /\ I128_MAX \in Nat /\ Reserves \subseteq Int /\ Finals \subseteq Int
  /\ \A n \in Reserves \cup Finals : n <= I128_MAX
  /\ NoLock \notin CardLock
BY AccountsAssumption, LedgerAssumption, WindowAssumption, CardAssumption,
   NoLockAssumption DEF I128

-----------------------------------------------------------------------------
(* Events.                                                                 *)

Opens(s, i)  == s[i].type = "collateral_locked"
Closes(s, i) == s[i].type = "collateral_released"
Clears(s, i) == s[i].type = "card_settle"

\* The amount of an event is a natural number that fits in an i128.
LEMMA EventType ==
  ASSUME NEW e \in Event
  PROVE  /\ e.amount \in Int /\ 0 <= e.amount /\ e.amount <= I128_MAX
         /\ e.amount \in Nat
BY Constants DEF Event

\* Event j is the last one up to i that opens an episode.
OpenedBy(s, i, j) ==
  j \in 1..i /\ Opens(s, j) /\ \A k \in 1..i : Opens(s, k) => k <= j

\* Opening finds that event.
LEMMA OpeningIs ==
  ASSUME NEW s, NEW i \in Nat, NEW j, OpenedBy(s, i, j)
  PROVE  Opening(s, i) = j
<1> DEFINE opens == {k \in 1..i : s[k].type = "collateral_locked"}
<1>1. j \in opens /\ \A k \in opens : k <= j
  BY DEF OpenedBy, Opens
<1>2. \A k \in opens : k \in Int
  OBVIOUS
<1>3. Opening(s, i) = CHOOSE k \in opens : \A m \in opens : m <= k
  BY <1>1 DEF Opening
<1> DEFINE o == CHOOSE k \in opens : \A m \in opens : m <= k
<1>4. o \in opens /\ \A m \in opens : m <= o
  BY <1>1
<1> HIDE DEF opens, o
<1>5. o <= j /\ j <= o /\ o \in Int /\ j \in Int
  BY <1>1, <1>2, <1>4
<1> QED BY <1>3, <1>5 DEF o

\* The next event opens an episode or belongs to the same one.
LEMMA NextOpening ==
  ASSUME NEW s, NEW i \in Nat
  PROVE  /\ Opens(s, i + 1) => OpenedBy(s, i + 1, i + 1)
         /\ \A j : OpenedBy(s, i, j) /\ ~Opens(s, i + 1)
                     => OpenedBy(s, i + 1, j)
BY DEF OpenedBy

\* The clearings an episode is charged with.
Clearings(s, i) == {j \in Opening(s, i)..i : s[j].type = "card_settle"}
Paid(s, i) == [j \in 1..i |-> s[j].amount]

\* What an episode has cleared up to event i is a finite sum of naturals.
LEMMA ClearedIsNat ==
  ASSUME NEW s \in Seq(Event), NEW i \in 1..Len(s), NEW j, OpenedBy(s, i, j)
  PROVE  /\ IsFiniteSet(Units(Paid(s, i), Clearings(s, i)))
         /\ Cleared(s, i) = Total(Paid(s, i), Clearings(s, i))
         /\ Cleared(s, i) \in Nat
<1>1. Opening(s, i) = j /\ j \in 1..i /\ i \in Nat /\ Len(s) \in Nat
  BY OpeningIs DEF OpenedBy
<1>2. Clearings(s, i) \subseteq 1..i
  BY <1>1 DEF Clearings
<1>3. IsFiniteSet(Clearings(s, i))
  <2>1. IsFiniteSet(1..i)
    BY <1>1, FS_Interval
  <2> QED BY <1>2, <2>1, FS_Subset
<1>4. \A k \in Clearings(s, i) :
        Paid(s, i)[k] \in Int /\ Paid(s, i)[k] <= I128_MAX
  <2> SUFFICES ASSUME NEW k \in Clearings(s, i)
               PROVE  Paid(s, i)[k] \in Int /\ Paid(s, i)[k] <= I128_MAX
    OBVIOUS
  <2>1. k \in 1..i /\ k \in 1..Len(s)
    BY <1>1, <1>2
  <2>2. s[k] \in Event
    BY <2>1
  <2> QED BY <2>1, <2>2, EventType DEF Paid
<1>5. IsFiniteSet(Units(Paid(s, i), Clearings(s, i)))
  BY <1>3, <1>4, SumOverFinite, Constants
<1> QED BY <1>5, SumIsNat DEF Cleared, Paid, Clearings

\* An episode that has just been opened has no clearing.
LEMMA NothingCleared ==
  ASSUME NEW s, NEW i \in Nat, i > 0, Opens(s, i)
  PROVE  Opening(s, i) = i /\ Cleared(s, i) = 0
<1>1. Opening(s, i) = i
  BY OpeningIs DEF OpenedBy
<1>2. Clearings(s, i) = {}
  BY <1>1 DEF Clearings, Opens
<1> QED BY <1>1, <1>2, EmptySum DEF Cleared, Clearings

\* What an event of the same episode adds to the clearings.
LEMMA OneMoreEvent ==
  ASSUME NEW s \in Seq(Event), NEW i \in Nat, i > 0, i + 1 <= Len(s), NEW j,
         OpenedBy(s, i, j), ~Opens(s, i + 1)
  PROVE  /\ Opening(s, i + 1) = Opening(s, i)
         /\ Cleared(s, i + 1) = Cleared(s, i) +
              (IF Clears(s, i + 1) THEN s[i + 1].amount ELSE 0)
<1> DEFINE k == i + 1
<1>1. /\ Len(s) \in Nat /\ i \in 1..Len(s) /\ k \in 1..Len(s) /\ k \notin 1..i
      /\ k \in Nat
  OBVIOUS
<1>2. /\ Opening(s, i) = j /\ Opening(s, k) = j /\ j \in 1..i
      /\ OpenedBy(s, k, j)
  BY <1>1, OpeningIs, NextOpening DEF OpenedBy
<1>3. s[k].amount \in Nat
  BY <1>1, EventType
<1>4. \A m \in Clearings(s, i) : Paid(s, i)[m] = Paid(s, k)[m]
  BY <1>1, <1>2 DEF Paid, Clearings
<1>5. Units(Paid(s, i), Clearings(s, i)) = Units(Paid(s, k), Clearings(s, i))
      /\ Total(Paid(s, i), Clearings(s, i)) = Total(Paid(s, k), Clearings(s, i))
  BY <1>4, SameSum
<1>6. /\ IsFiniteSet(Units(Paid(s, k), Clearings(s, i)))
      /\ Cleared(s, i) = Total(Paid(s, k), Clearings(s, i))
      /\ Cleared(s, i) \in Nat
  BY <1>1, <1>5, ClearedIsNat
<1>7. Cleared(s, k) = Total(Paid(s, k), Clearings(s, k))
  BY DEF Cleared, Paid, Clearings
<1>8. Clearings(s, k) = IF Clears(s, k) THEN Clearings(s, i) \cup {k}
                        ELSE Clearings(s, i)
  BY <1>1, <1>2 DEF Clearings, Clears
<1>9. CASE ~Clears(s, k)
  BY <1>2, <1>6, <1>7, <1>8, <1>9
<1>10. CASE Clears(s, k)
  <2>1. k \notin Clearings(s, i) /\ Paid(s, k)[k] = s[k].amount
    BY <1>1, <1>2 DEF Clearings, Paid
  <2>2. Paid(s, k)[k] \in Nat /\ IsFiniteSet(Units(Paid(s, k), Clearings(s, i)))
    BY <1>3, <1>6, <2>1
  <2> HIDE DEF k
  <2>3. Total(Paid(s, k), Clearings(s, i) \cup {k}) =
          Total(Paid(s, k), Clearings(s, i)) + Paid(s, k)[k]
    BY <2>1, <2>2, SumWithOneMore
  <2> QED BY <1>2, <1>6, <1>7, <1>8, <1>10, <2>1, <2>3 DEF k
<1> QED BY <1>9, <1>10

\* What later events do not change.
LEMMA SamePast ==
  ASSUME NEW s, NEW t, NEW i \in Nat, NEW j, OpenedBy(s, i, j),
         \A k \in 1..i : s[k] = t[k]
  PROVE  /\ OpenedBy(t, i, j) /\ Opening(t, i) = j /\ Opening(s, i) = j
         /\ Cleared(t, i) = Cleared(s, i)
<1>1. OpenedBy(t, i, j)
  BY DEF OpenedBy, Opens
<1>2. Opening(t, i) = j /\ Opening(s, i) = j /\ j \in 1..i
  BY <1>1, OpeningIs DEF OpenedBy
<1>3. Paid(s, i) = Paid(t, i)
  BY DEF Paid
<1>4. Clearings(s, i) = Clearings(t, i)
  BY <1>2 DEF Clearings
<1> QED BY <1>1, <1>2, <1>3, <1>4 DEF Cleared, Paid, Clearings

-----------------------------------------------------------------------------
(* The account of one authorization id.                                    *)

\* Every event belongs to an episode; one is opened first and after each
\* release, and only then.
Episodes(s) ==
  \A i \in 1..Len(s) :
    /\ \E j : OpenedBy(s, i, j)
    /\ Opens(s, i) <=> (i = 1 \/ Closes(s, i - 1))

Returned(s, i) ==
  Closes(s, i) => s[i].amount = Excess(s[Opening(s, i)].amount, Cleared(s, i))

Debt(s, i) == Excess(Cleared(s, i), s[Opening(s, i)].amount)
Told(s, i) == i < Len(s) /\ s[i + 1].type = "shortfall"
DebtTold(s, i) ==
  Clears(s, i) => /\ Told(s, i) <=> Debt(s, i) > 0
                  /\ Told(s, i) => s[i + 1].amount = Debt(s, i)

History(s) == \A i \in 1..Len(s) : Returned(s, i) /\ DebtTold(s, i)

\* The stored lock is what the last episode says, while it is open.
Stored(s, lock) ==
  /\ lock # NoLock <=> s # << >> /\ ~Closes(s, Len(s))
  /\ lock # NoLock => /\ lock.locked = s[Opening(s, Len(s))].amount
                      /\ lock.settled = Cleared(s, Len(s))

Account(s, lock) == Episodes(s) /\ History(s) /\ Stored(s, lock)

\* An event opens an episode exactly when none is open.
Fits(s, e) ==
  e.type = "collateral_locked" <=> (s = << >> \/ Closes(s, Len(s)))

\* The events t are the events s and then e.
Extends(t, s, e) ==
  /\ s \in Seq(Event) /\ t \in Seq(Event) /\ Len(s) \in Nat
  /\ Len(t) = Len(s) + 1 /\ t[Len(s) + 1] = e
  /\ \A i \in 1..Len(s) : t[i] = s[i]

\* The log grows at its end only: publishing an event keeps the ones before it.
LEMMA AppendExtends ==
  ASSUME NEW s \in Seq(Event), NEW e \in Event
  PROVE  Extends(Append(s, e), s, e)
BY DEF Extends

\* One more event, which opens an episode exactly when none is open.
LEMMA OneMore ==
  ASSUME NEW s, NEW e, NEW t, Extends(t, s, e), Episodes(s), Fits(s, e)
  PROVE  /\ Episodes(t)
         /\ \A i \in 1..Len(s) : /\ Opening(t, i) = Opening(s, i)
                                 /\ Opening(s, i) \in 1..i
                                 /\ Cleared(t, i) = Cleared(s, i)
<1> DEFINE n == Len(s)
           k == n + 1
<1>1. /\ t \in Seq(Event) /\ Len(t) = k /\ n \in Nat /\ k \in Nat
      /\ t[k] = e /\ \A i \in 1..n : t[i] = s[i]
  BY DEF Extends
<1>2. s = << >> <=> n = 0
  BY DEF Extends
<1>3. ASSUME NEW i \in 1..n
      PROVE  /\ Opening(t, i) = Opening(s, i) /\ Cleared(t, i) = Cleared(s, i)
             /\ \E j : OpenedBy(t, i, j) /\ Opening(s, i) = j
             /\ Opening(s, i) \in 1..i
             /\ Opens(t, i) <=> (i = 1 \/ Closes(t, i - 1))
  <2>1. PICK j : OpenedBy(s, i, j)
    BY DEF Episodes
  <2>2. i \in Nat /\ \A m \in 1..i : s[m] = t[m]
    BY <1>1
  <2>3. /\ OpenedBy(t, i, j) /\ Opening(t, i) = j /\ Opening(s, i) = j
        /\ Cleared(t, i) = Cleared(s, i)
    BY <2>1, <2>2, SamePast
  <2>4. Opens(t, i) <=> (i = 1 \/ Closes(t, i - 1))
    <3>1. Opens(s, i) <=> (i = 1 \/ Closes(s, i - 1))
      BY DEF Episodes
    <3>2. i = 1 \/ i - 1 \in 1..n
      BY <1>1
    <3>3. t[i] = s[i] /\ (i = 1 \/ t[i - 1] = s[i - 1])
      BY <1>1, <3>2
    <3> QED BY <3>1, <3>3 DEF Opens, Closes
  <2> QED BY <2>1, <2>3, <2>4 DEF OpenedBy
<1>4. Opens(t, k) <=> (k = 1 \/ Closes(t, k - 1))
  BY <1>1, <1>2 DEF Opens, Closes, Fits
<1>5. \E j : OpenedBy(t, k, j)
  <2>1. CASE Opens(t, k)
    BY <1>1, <2>1, NextOpening
  <2>2. CASE ~Opens(t, k)
    <3>1. n \in 1..n
      BY <1>1, <1>4, <2>2
    <3> QED BY <1>1, <1>3, <2>2, <3>1, NextOpening
  <2> QED BY <2>1, <2>2
<1>6. Episodes(t)
  <2>1. \A i \in 1..k : i \in 1..n \/ i = k
    BY <1>1
  <2> QED BY <1>1, <1>3, <1>4, <1>5, <2>1 DEF Episodes
<1> QED BY <1>1, <1>3, <1>6

\* What the events before the last one told stays told.
LEMMA SameHistory ==
  ASSUME NEW s, NEW e, NEW t, Extends(t, s, e), Episodes(s), Fits(s, e)
  PROVE  \A i \in 1..Len(s) :
           /\ Returned(s, i) => Returned(t, i)
           /\ DebtTold(s, i) /\ (i = Len(s) => e.type # "shortfall")
                => DebtTold(t, i)
<1> SUFFICES ASSUME NEW i \in 1..Len(s)
             PROVE  /\ Returned(s, i) => Returned(t, i)
                    /\ DebtTold(s, i) /\ (i = Len(s) => e.type # "shortfall")
                         => DebtTold(t, i)
  OBVIOUS
<1>1. /\ Len(t) = Len(s) + 1 /\ Len(s) \in Nat /\ t[Len(s) + 1] = e
      /\ \A k \in 1..Len(s) : t[k] = s[k]
      /\ Opening(t, i) = Opening(s, i) /\ Opening(s, i) \in 1..i
      /\ Cleared(t, i) = Cleared(s, i)
  BY OneMore DEF Extends
<1>2. t[i] = s[i] /\ t[Opening(s, i)] = s[Opening(s, i)]
  BY <1>1
<1>3. Returned(s, i) => Returned(t, i)
  BY <1>1, <1>2 DEF Returned, Closes
<1>4. Debt(t, i) = Debt(s, i) /\ (Clears(t, i) <=> Clears(s, i))
  BY <1>1, <1>2 DEF Debt, Clears
<1>5. ASSUME i = Len(s) => e.type # "shortfall"
      PROVE  /\ Told(t, i) <=> Told(s, i)
             /\ Told(s, i) => t[i + 1] = s[i + 1]
  BY <1>1, <1>5 DEF Told
<1> QED BY <1>3, <1>4, <1>5 DEF DebtTold

\* A reservation opens an episode.
LEMMA ReserveAccount ==
  ASSUME NEW s \in Seq(Event), NEW e \in Event, Account(s, NoLock), NEW lock,
         e.type = "collateral_locked", lock # NoLock,
         lock.locked = e.amount, lock.settled = 0
  PROVE  Account(Append(s, e), lock)
<1> DEFINE t == Append(s, e)
           k == Len(s) + 1
<1>1. Fits(s, e) /\ Episodes(s) /\ Extends(t, s, e)
  BY AppendExtends DEF Account, Stored, Fits
<1>2. /\ Len(t) = k /\ k \in Nat /\ k > 0 /\ t[k] = e /\ Episodes(t)
      /\ t # << >>
  <2> HIDE DEF t
  <2>1. /\ t \in Seq(Event) /\ Len(t) = Len(s) + 1 /\ Len(s) \in Nat
        /\ t[Len(s) + 1] = e /\ Episodes(t)
    BY <1>1, OneMore DEF Extends
  <2> QED BY <2>1
<1>3. Opening(t, k) = k /\ Cleared(t, k) = 0
  BY <1>2, NothingCleared DEF Opens
<1>4. Returned(t, k) /\ DebtTold(t, k) /\ ~Closes(t, k)
  BY <1>2 DEF Returned, DebtTold, Closes, Clears
<1>5. \A i \in 1..Len(s) : Returned(t, i) /\ DebtTold(t, i)
  <2> HIDE DEF t
  <2> QED BY <1>1, SameHistory DEF Account, History
<1>6. History(t)
  <2>1. \A i \in 1..k : i \in 1..Len(s) \/ i = k
    OBVIOUS
  <2> QED BY <1>2, <1>4, <1>5, <2>1 DEF History
<1>7. Stored(t, lock)
  BY <1>2, <1>3, <1>4 DEF Stored
<1> QED BY <1>2, <1>6, <1>7 DEF Account

\* A release closes it, with what its clearings left.
LEMMA ReleaseAccount ==
  ASSUME NEW s \in Seq(Event), NEW e \in Event, NEW lock, Account(s, lock),
         lock # NoLock, e.type = "collateral_released",
         e.amount = Excess(lock.locked, lock.settled)
  PROVE  Account(Append(s, e), NoLock)
<1> DEFINE t == Append(s, e)
           n == Len(s)
           k == n + 1
<1>1. s # << >> /\ Fits(s, e) /\ Episodes(s) /\ Extends(t, s, e)
  BY AppendExtends DEF Account, Stored, Fits
<1>2. /\ t \in Seq(Event) /\ Len(t) = k /\ k \in Nat /\ n \in Nat /\ n > 0
      /\ t[k] = e /\ Episodes(t) /\ t # << >>
      /\ Opening(t, n) = Opening(s, n) /\ Opening(s, n) \in 1..n
      /\ Cleared(t, n) = Cleared(s, n)
      /\ t[Opening(s, n)] = s[Opening(s, n)]
  <2>1. n \in Nat /\ n > 0 /\ n \in 1..n
    BY <1>1
  <2> HIDE DEF t
  <2>2. /\ t \in Seq(Event) /\ Len(t) = Len(s) + 1
        /\ t[Len(s) + 1] = e /\ \A i \in 1..Len(s) : t[i] = s[i]
        /\ Episodes(t)
        /\ \A i \in 1..Len(s) : /\ Opening(t, i) = Opening(s, i)
                                /\ Opening(s, i) \in 1..i
                                /\ Cleared(t, i) = Cleared(s, i)
    BY <1>1, OneMore DEF Extends
  <2> QED BY <2>1, <2>2
<1>3. Opening(t, k) = Opening(t, n) /\ Cleared(t, k) = Cleared(t, n) + 0
  <2>1. PICK j : OpenedBy(t, n, j)
    BY <1>2 DEF Episodes
  <2>2. ~Opens(t, n + 1) /\ ~Clears(t, n + 1) /\ n + 1 <= Len(t)
    BY <1>2 DEF Opens, Clears
  <2> HIDE DEF t, n, k
  <2> QED BY <1>2, <2>1, <2>2, OneMoreEvent DEF k
<1>4. Returned(t, k) /\ DebtTold(t, k) /\ Closes(t, k)
  <2>1. Cleared(t, n) \in Nat
    <3>1. n \in 1..Len(t) /\ \E j : OpenedBy(t, n, j)
      BY <1>2 DEF Episodes
    <3> QED BY <1>2, <3>1, ClearedIsNat
  <2>2. e.amount = Excess(t[Opening(t, k)].amount, Cleared(t, k))
    BY <1>2, <1>3, <2>1 DEF Account, Stored
  <2> QED BY <1>2, <2>2 DEF Returned, DebtTold, Closes, Clears
<1>5. \A i \in 1..n : Returned(t, i) /\ DebtTold(t, i)
  <2> HIDE DEF t
  <2> QED BY <1>1, SameHistory DEF Account, History
<1>6. History(t)
  <2>1. \A i \in 1..k : i \in 1..n \/ i = k
    OBVIOUS
  <2> QED BY <1>2, <1>4, <1>5, <2>1 DEF History
<1>7. Stored(t, NoLock)
  BY <1>2, <1>4 DEF Stored
<1> QED BY <1>2, <1>6, <1>7 DEF Account

\* A clearing is added to the lock; when it exceeds the collateral a shortfall
\* event follows with the whole excess.
LEMMA SettleAccount ==
  ASSUME NEW s \in Seq(Event), NEW e \in Event, NEW lock, NEW new,
         Account(s, lock), lock # NoLock, new # NoLock,
         e.type = "card_settle",
         new.locked = lock.locked, new.settled = lock.settled + e.amount
  PROVE  LET t == Append(s, e)
             debt == Excess(new.settled, new.locked)
         IN  /\ debt = 0 => Account(t, new)
             /\ \A f \in Event :
                  /\ debt > 0 /\ f.type = "shortfall" /\ f.amount = debt
                  => Account(Append(t, f), new)
<1> DEFINE t == Append(s, e)
           n == Len(s)
           k == n + 1
           debt == Excess(new.settled, new.locked)
<1>1. s # << >> /\ Fits(s, e) /\ Episodes(s) /\ Extends(t, s, e)
  BY AppendExtends DEF Account, Stored, Fits
<1>2. /\ t \in Seq(Event) /\ Len(t) = k /\ k \in Nat /\ n \in Nat /\ n > 0
      /\ t[k] = e /\ Episodes(t) /\ t # << >>
      /\ Opening(t, n) = Opening(s, n) /\ Opening(s, n) \in 1..n
      /\ Cleared(t, n) = Cleared(s, n)
      /\ t[Opening(s, n)] = s[Opening(s, n)]
  <2>1. n \in Nat /\ n > 0 /\ n \in 1..n
    BY <1>1
  <2> HIDE DEF t
  <2>2. /\ t \in Seq(Event) /\ Len(t) = Len(s) + 1
        /\ t[Len(s) + 1] = e /\ \A i \in 1..Len(s) : t[i] = s[i]
        /\ Episodes(t)
        /\ \A i \in 1..Len(s) : /\ Opening(t, i) = Opening(s, i)
                                /\ Opening(s, i) \in 1..i
                                /\ Cleared(t, i) = Cleared(s, i)
    BY <1>1, OneMore DEF Extends
  <2> QED BY <2>1, <2>2
<1>3. Opening(t, k) = Opening(t, n) /\ Cleared(t, k) = Cleared(t, n) + e.amount
  <2>1. PICK j : OpenedBy(t, n, j)
    BY <1>2 DEF Episodes
  <2>2. ~Opens(t, n + 1) /\ Clears(t, n + 1) /\ n + 1 <= Len(t)
    BY <1>2 DEF Opens, Clears
  <2> HIDE DEF t, n, k
  <2> QED BY <1>2, <2>1, <2>2, OneMoreEvent DEF k
<1>4. /\ new.settled = Cleared(t, k) /\ new.locked = t[Opening(t, k)].amount
      /\ debt = Debt(t, k)
  BY <1>2, <1>3 DEF Account, Stored, Debt
<1>5. Clears(t, k) /\ ~Closes(t, k)
  BY <1>2 DEF Clears, Closes
<1>6. \A i \in 1..n : Returned(t, i) /\ DebtTold(t, i)
  <2> HIDE DEF t
  <2> QED BY <1>1, SameHistory DEF Account, History
<1>7. Stored(t, new)
  BY <1>2, <1>4, <1>5 DEF Stored
<1>8. ASSUME debt = 0
      PROVE  Account(t, new)
  <2>1. Returned(t, k) /\ DebtTold(t, k)
    <3> HIDE DEF t, k, debt
    <3>1. ~Told(t, k) /\ Debt(t, k) = 0
      BY <1>2, <1>4, <1>8 DEF Told
    <3> QED BY <1>5, <3>1 DEF Returned, DebtTold
  <2>2. \A i \in 1..k : i \in 1..n \/ i = k
    OBVIOUS
  <2>3. History(t)
    BY <1>2, <1>6, <2>1, <2>2 DEF History
  <2> QED BY <1>2, <1>7, <2>3 DEF Account
<1>9. ASSUME NEW f \in Event, debt > 0, f.type = "shortfall", f.amount = debt
      PROVE  Account(Append(t, f), new)
  <2> DEFINE u == Append(t, f)
             m == k + 1
  <2>1. Fits(t, f) /\ Extends(u, t, f)
    BY <1>2, <1>5, <1>9, AppendExtends DEF Fits
  <2> HIDE DEF t, u
  <2>2. /\ u \in Seq(Event) /\ Len(u) = m /\ m \in Nat /\ u # << >>
        /\ u[m] = f /\ \A i \in 1..k : u[i] = t[i]
        /\ Episodes(u)
        /\ \A i \in 1..k : /\ Opening(u, i) = Opening(t, i)
                           /\ Opening(t, i) \in 1..i
                           /\ Cleared(u, i) = Cleared(t, i)
    <3>1. /\ u \in Seq(Event) /\ Len(u) = Len(t) + 1 /\ u[Len(t) + 1] = f
          /\ \A i \in 1..Len(t) : u[i] = t[i]
      BY <2>1 DEF Extends
    <3>2. /\ Episodes(u)
          /\ \A i \in 1..Len(t) : /\ Opening(u, i) = Opening(t, i)
                                  /\ Opening(t, i) \in 1..i
                                  /\ Cleared(u, i) = Cleared(t, i)
      BY <1>2, <2>1, OneMore
    <3>3. Len(t) = k /\ k \in Nat
      BY <1>2
    <3> HIDE DEF k
    <3>4. Len(u) = m /\ m \in Nat /\ u # << >>
      BY <3>1, <3>3
    <3> QED BY <3>1, <3>2, <3>3, <3>4
  <2>3. \A i \in 1..n : Returned(u, i) /\ DebtTold(u, i)
    BY <1>2, <1>6, <2>1, SameHistory
  <2>4. /\ k \in 1..k /\ Opening(t, k) \in 1..k
        /\ u[Opening(t, k)] = t[Opening(t, k)] /\ u[k] = e
    BY <1>2, <2>2
  <2>5. Debt(u, k) = debt /\ Told(u, k)
    BY <1>2, <1>4, <1>9, <2>2, <2>4 DEF Debt, Told
  <2>6. Returned(u, k) /\ DebtTold(u, k)
    BY <1>9, <2>2, <2>4, <2>5 DEF Returned, DebtTold, Closes
  <2>7. Returned(u, m) /\ DebtTold(u, m) /\ ~Closes(u, m)
    BY <1>9, <2>2 DEF Returned, DebtTold, Closes, Clears
  <2>8. \A i \in 1..m : i \in 1..n \/ i = k \/ i = m
    BY <1>2
  <2>9. History(u)
    BY <2>2, <2>3, <2>6, <2>7, <2>8 DEF History
  <2>10. /\ Opening(u, m) = Opening(u, k)
         /\ Cleared(u, m) = Cleared(u, k) + 0 /\ Cleared(u, k) \in Nat
    <3>1. PICK j : OpenedBy(u, k, j)
      BY <1>2, <2>2 DEF Episodes
    <3>2. ~Opens(u, k + 1) /\ ~Clears(u, k + 1) /\ k + 1 <= Len(u)
      BY <1>9, <2>2 DEF Opens, Clears
    <3>3. k \in 1..Len(u) /\ k > 0
      BY <1>2, <2>2
    <3> HIDE DEF k, m
    <3> QED BY <1>2, <2>2, <3>1, <3>2, <3>3, OneMoreEvent, ClearedIsNat DEF m
  <2>11. Stored(u, new)
    BY <1>4, <2>2, <2>4, <2>7, <2>10 DEF Stored
  <2> QED BY <2>2, <2>9, <2>11 DEF Account, u
<1> QED BY <1>8, <1>9

-----------------------------------------------------------------------------
(* Types.                                                                  *)

\* Calls of the admin interface keep the types of the admin state.
LEMMA AdminType ==
  ASSUME TypeOK, AdminStep
  PROVE  ACTypeOK'
BY Constants DEF TypeOK, ACTypeOK, AdminStep, TransferAdminRole,
   AcceptAdminTransfer, RenounceAdmin, AcceptAdminAnswer, Larger

\* What Publish appends is appended.
LEMMA Published ==
  ASSUME TypeOK, NEW a \in AuthIds, NEW events, Publish(a, events)
  PROVE  /\ log'[a] = log[a] \o events /\ log[a] \in Seq(Event)
         /\ \A c \in AuthIds \ {a} : log'[c] = log[c]
         /\ events \in Seq(Event) => log' \in [AuthIds -> Seq(Event)]
<1>1. log \in [AuthIds -> Seq(Event)]
  BY DEF TypeOK
<1>2. log' = [log EXCEPT ![a] = @ \o events]
  BY DEF Publish
<1>3. events \in Seq(Event) => log[a] \o events \in Seq(Event)
  BY <1>1
<1> QED BY <1>1, <1>2, <1>3

\* The row of an open authorization.
LEMMA LockType ==
  ASSUME TypeOK, NEW a \in AuthIds, rows[a] # NoLock
  PROVE  /\ rows[a] \in CardLock
         /\ rows[a].authorized \in 1..I128_MAX /\ rows[a].locked \in 1..I128_MAX
         /\ rows[a].settled \in 0..I128_MAX
BY DEF TypeOK, CardLock

\* One reservation: its event, its row, and what it asked for.
LEMMA ReserveFacts ==
  ASSUME TypeOK, NEW caller \in Accounts, NEW a \in AuthIds,
         NEW amount \in Reserves, Reserve(caller, a, amount)
  PROVE  LET e == [type |-> "collateral_locked", amount |-> amount]
             lock == [authorized |-> amount, locked |-> amount, settled |-> 0]
         IN  /\ rows[a] = NoLock /\ ~paused /\ amount \in 1..I128_MAX
             /\ e \in Event /\ lock \in CardLock /\ lock # NoLock
             /\ rows'[a] = lock /\ log'[a] = Append(log[a], e)
             /\ \A c \in AuthIds \ {a} : rows'[c] = rows[c] /\ log'[c] = log[c]
             /\ rows' \in [AuthIds -> CardLock \cup {NoLock}]
             /\ log' \in [AuthIds -> Seq(Event)]
             /\ UNCHANGED <<acVars, paused>>
<1> DEFINE e == [type |-> "collateral_locked", amount |-> amount]
           lock == [authorized |-> amount, locked |-> amount, settled |-> 0]
<1>1. rows[a] = NoLock /\ ~paused /\ ~(amount <= 0)
  BY DEF Reserve, ReserveAnswer
<1>2. amount \in 1..I128_MAX
  BY <1>1, Constants
<1>3. e \in Event
  BY <1>2, Constants DEF Event
<1>4. lock \in CardLock /\ lock # NoLock
  BY <1>2, Constants DEF CardLock
<1>5. rows' = [rows EXCEPT ![a] = lock] /\ Publish(a, <<e>>)
      /\ UNCHANGED <<acVars, paused>>
  BY DEF Reserve
<1>6. <<e>> \in Seq(Event) /\ log[a] \in Seq(Event)
      /\ log[a] \o <<e>> = Append(log[a], e)
  BY <1>3 DEF TypeOK
<1> HIDE DEF e, lock
<1>7. /\ rows'[a] = lock /\ \A c \in AuthIds \ {a} : rows'[c] = rows[c]
      /\ rows' \in [AuthIds -> CardLock \cup {NoLock}]
  BY <1>4, <1>5 DEF TypeOK
<1>8. /\ log'[a] = Append(log[a], e) /\ \A c \in AuthIds \ {a} : log'[c] = log[c]
      /\ log' \in [AuthIds -> Seq(Event)]
  BY <1>5, <1>6, Published
<1> QED BY <1>1, <1>2, <1>3, <1>4, <1>5, <1>7, <1>8 DEF e, lock

\* One clearing: its event, the shortfall event that follows it or not, and
\* the row.
LEMMA SettleFacts ==
  ASSUME TypeOK, NEW caller \in Accounts, NEW a \in AuthIds,
         NEW final \in Finals, Settle(caller, a, final)
  PROVE  LET lock == AfterClearing(rows[a], final)
             e == [type |-> "card_settle", amount |-> final,
                   settled |-> lock.settled]
             short == Excess(lock.settled, lock.locked)
             f == [type |-> "shortfall", amount |-> short]
         IN  /\ rows[a] # NoLock /\ final \in Nat
             /\ lock \in CardLock /\ lock # NoLock
             /\ lock.locked = rows[a].locked
             /\ lock.authorized = rows[a].authorized
             /\ lock.settled = rows[a].settled + final
             /\ e \in Event /\ f \in Event /\ (short = 0 \/ short > 0)
             /\ rows'[a] = lock
             /\ short = 0 => log'[a] = Append(log[a], e)
             /\ short > 0 => log'[a] = Append(Append(log[a], e), f)
             /\ \A c \in AuthIds \ {a} : rows'[c] = rows[c] /\ log'[c] = log[c]
             /\ rows' \in [AuthIds -> CardLock \cup {NoLock}]
             /\ log' \in [AuthIds -> Seq(Event)]
             /\ UNCHANGED <<acVars, paused>>
<1> DEFINE lock == AfterClearing(rows[a], final)
           e == [type |-> "card_settle", amount |-> final,
                 settled |-> lock.settled]
           short == Excess(lock.settled, lock.locked)
           f == [type |-> "shortfall", amount |-> short]
           tail == IF short > 0 THEN <<f>> ELSE << >>
<1>1. rows[a] # NoLock /\ ~(final < 0) /\ ~(rows[a].settled + final > I128_MAX)
  BY DEF Settle, SettleAnswer
<1>2. /\ rows[a] \in CardLock /\ rows[a].locked \in 1..I128_MAX
      /\ rows[a].settled \in 0..I128_MAX
      /\ final \in 0..I128_MAX /\ final \in Nat
      /\ rows[a].settled + final \in 0..I128_MAX
  BY <1>1, LockType, Constants
<1>3. /\ lock \in CardLock /\ lock.locked = rows[a].locked
      /\ lock.authorized = rows[a].authorized
      /\ lock.settled = rows[a].settled + final
  BY <1>2 DEF AfterClearing, CardLock
<1>4. lock # NoLock
  BY <1>3, Constants
<1>5. e \in Event
  BY <1>2, <1>3 DEF Event
<1>6. short \in 0..I128_MAX /\ (short = 0 \/ short > 0)
  <2>1. lock.settled \in 0..I128_MAX /\ lock.locked \in 1..I128_MAX
    BY <1>2, <1>3
  <2> HIDE DEF lock
  <2> QED BY <2>1, Constants DEF Excess
<1>7. f \in Event
  BY <1>6 DEF Event
<1>8. /\ rows' = [rows EXCEPT ![a] = lock]
      /\ Publish(a, <<e>> \o tail) /\ UNCHANGED <<acVars, paused>>
  BY DEF Settle, ShortfallOf, Excess
<1> HIDE DEF lock, e, f, short
<1>9. /\ rows'[a] = lock /\ \A c \in AuthIds \ {a} : rows'[c] = rows[c]
      /\ rows' \in [AuthIds -> CardLock \cup {NoLock}]
  BY <1>3, <1>8 DEF TypeOK
<1>10. /\ <<e>> \o tail \in Seq(Event)
       /\ short = 0 => log[a] \o (<<e>> \o tail) = Append(log[a], e)
       /\ short > 0 => log[a] \o (<<e>> \o tail) = Append(Append(log[a], e), f)
  <2>1. log[a] \in Seq(Event) /\ <<e>> \in Seq(Event) /\ <<f>> \in Seq(Event)
    BY <1>5, <1>7 DEF TypeOK
  <2>2. CASE short > 0
    <3>1. tail = <<f>> /\ short # 0
      BY <1>6, <2>2
    <3> HIDE DEF tail
    <3> QED BY <1>5, <1>7, <2>1, <2>2, <3>1
  <2>3. CASE short = 0
    <3>1. tail = << >> /\ ~(short > 0)
      BY <2>3
    <3> HIDE DEF tail
    <3> QED BY <1>5, <2>1, <2>3, <3>1
  <2> QED BY <1>6, <2>2, <2>3
<1>11. /\ short = 0 => log'[a] = Append(log[a], e)
       /\ short > 0 => log'[a] = Append(Append(log[a], e), f)
       /\ \A c \in AuthIds \ {a} : log'[c] = log[c]
       /\ log' \in [AuthIds -> Seq(Event)]
  <2> HIDE DEF tail
  <2> QED BY <1>8, <1>10, Published
<1> QED
  BY <1>1, <1>2, <1>3, <1>4, <1>5, <1>6, <1>7, <1>8, <1>9, <1>11
  DEF lock, e, f, short

\* One release: its event, and the row that goes.
LEMMA ReleaseFacts ==
  ASSUME TypeOK, NEW caller \in Accounts, NEW a \in AuthIds, Release(caller, a)
  PROVE  LET e == [type |-> "collateral_released",
                   amount |-> Excess(rows[a].locked, rows[a].settled)]
         IN  /\ rows[a] # NoLock /\ e \in Event
             /\ rows'[a] = NoLock /\ log'[a] = Append(log[a], e)
             /\ \A c \in AuthIds \ {a} : rows'[c] = rows[c] /\ log'[c] = log[c]
             /\ rows' \in [AuthIds -> CardLock \cup {NoLock}]
             /\ log' \in [AuthIds -> Seq(Event)]
             /\ UNCHANGED <<acVars, paused>>
<1> DEFINE e == [type |-> "collateral_released",
                 amount |-> Excess(rows[a].locked, rows[a].settled)]
<1>1. rows[a] # NoLock
  BY DEF Release, ReleaseAnswer
<1>2. Excess(rows[a].locked, rows[a].settled) \in 0..I128_MAX
  BY <1>1, LockType, Constants DEF Excess
<1>3. e \in Event
  BY <1>2 DEF Event
<1>4. rows' = [rows EXCEPT ![a] = NoLock] /\ Publish(a, <<e>>)
      /\ UNCHANGED <<acVars, paused>>
  BY DEF Release, Unspent, Excess
<1>5. <<e>> \in Seq(Event) /\ log[a] \in Seq(Event)
      /\ log[a] \o <<e>> = Append(log[a], e)
  BY <1>3 DEF TypeOK
<1> HIDE DEF e
<1>6. /\ rows'[a] = NoLock /\ \A c \in AuthIds \ {a} : rows'[c] = rows[c]
      /\ rows' \in [AuthIds -> CardLock \cup {NoLock}]
  BY <1>4 DEF TypeOK
<1>7. /\ log'[a] = Append(log[a], e) /\ \A c \in AuthIds \ {a} : log'[c] = log[c]
      /\ log' \in [AuthIds -> Seq(Event)]
  BY <1>4, <1>5, Published
<1> QED BY <1>1, <1>3, <1>4, <1>6, <1>7 DEF e

-----------------------------------------------------------------------------
(* The theorems.                                                           *)

\* Every id has an account.
Accounted == \A a \in AuthIds : Account(log[a], rows[a])

\* The steps, apart from those that leave rows and log alone.
LEMMA Steps ==
  ASSUME [Next]_vars
  PROVE  \/ /\ UNCHANGED <<rows, log>>
            /\ \/ CloseLedger \/ AdminCall \/ UNCHANGED vars
               \/ \E caller \in Accounts, b \in BOOLEAN : SetPaused(caller, b)
         \/ \E caller \in Accounts, a \in AuthIds, amount \in Reserves :
              Reserve(caller, a, amount)
         \/ \E caller \in Accounts, a \in AuthIds, final \in Finals :
              Settle(caller, a, final)
         \/ \E caller \in Accounts, a \in AuthIds : Release(caller, a)
<1>1. CASE CloseLedger \/ AdminCall
           \/ \E caller \in Accounts, b \in BOOLEAN : SetPaused(caller, b)
  BY <1>1 DEF CloseLedger, AdminCall, SetPaused
<1>2. CASE UNCHANGED vars
  BY <1>2 DEF vars
<1>3. CASE \E caller \in Accounts, a \in AuthIds :
             \/ \E amount \in Reserves : Reserve(caller, a, amount)
             \/ \E final \in Finals : Settle(caller, a, final)
             \/ Release(caller, a)
  BY <1>3
<1> QED BY <1>1, <1>2, <1>3 DEF Next

\* Nothing is logged and nothing is stored at first.
LEMMA InitSafe == Init => TypeOK /\ Accounted
<1> SUFFICES ASSUME Init PROVE TypeOK /\ Accounted
  OBVIOUS
<1>1. TypeOK
  <2>1. << >> \in Seq(Event)
    OBVIOUS
  <2>2. /\ log = [a \in AuthIds |-> << >>] /\ rows = [a \in AuthIds |-> NoLock]
        /\ paused = FALSE /\ ACInit
    BY DEF Init
  <2>3. log \in [AuthIds -> Seq(Event)]
    BY <2>1, <2>2
  <2>4. rows \in [AuthIds -> CardLock \cup {NoLock}] /\ paused \in BOOLEAN
    BY <2>2
  <2>5. ACTypeOK
    BY <2>2, Constants DEF ACInit, ACTypeOK
  <2> QED BY <2>3, <2>4, <2>5 DEF TypeOK
<1>2. \A a \in AuthIds : log[a] = << >> /\ rows[a] = NoLock
  BY DEF Init
<1>3. Account(<< >>, NoLock)
  BY DEF Account, Episodes, History, Stored
<1> QED BY <1>1, <1>2, <1>3 DEF Accounted

\* The inductive step of the type invariant and of the account per id.
LEMMA NextSafe ==
  TypeOK /\ Accounted /\ [Next]_vars => TypeOK' /\ Accounted'
<1> SUFFICES ASSUME TypeOK, Accounted, [Next]_vars
             PROVE  TypeOK' /\ Accounted'
  OBVIOUS
<1>1. CASE /\ UNCHANGED <<rows, log>>
           /\ \/ CloseLedger \/ AdminCall \/ UNCHANGED vars
              \/ \E caller \in Accounts, b \in BOOLEAN : SetPaused(caller, b)
  <2>1. Accounted'
    BY <1>1 DEF Accounted
  <2>2. CASE CloseLedger
    BY <2>1, <2>2, Constants
    DEF CloseLedger, CloseLedgerAC, TypeOK, ACTypeOK
  <2>3. CASE AdminCall
    BY <2>1, <2>3, AdminType DEF AdminCall, TypeOK
  <2>4. CASE \E caller \in Accounts, b \in BOOLEAN : SetPaused(caller, b)
    BY <2>1, <2>4 DEF SetPaused, acVars, TypeOK, ACTypeOK
  <2>5. CASE UNCHANGED vars
    BY <2>1, <2>5 DEF vars, TypeOK, ACTypeOK
  <2> QED BY <1>1, <2>2, <2>3, <2>4, <2>5
<1>2. ASSUME NEW caller \in Accounts, NEW a \in AuthIds,
             NEW amount \in Reserves, Reserve(caller, a, amount)
      PROVE  TypeOK' /\ Accounted'
  <2> DEFINE e == [type |-> "collateral_locked", amount |-> amount]
             lock == [authorized |-> amount, locked |-> amount, settled |-> 0]
  <2>1. /\ rows[a] = NoLock /\ e \in Event /\ lock # NoLock
        /\ rows'[a] = lock /\ log'[a] = Append(log[a], e)
        /\ \A c \in AuthIds \ {a} : rows'[c] = rows[c] /\ log'[c] = log[c]
    BY <1>2, ReserveFacts
  <2>2. TypeOK'
    BY <1>2, ReserveFacts DEF TypeOK, ACTypeOK, acVars
  <2>3. log[a] \in Seq(Event) /\ Account(log[a], NoLock)
    BY <2>1 DEF TypeOK, Accounted
  <2>4. /\ e.type = "collateral_locked" /\ lock.locked = e.amount
        /\ lock.settled = 0
    OBVIOUS
  <2> HIDE DEF e, lock
  <2>5. Account(Append(log[a], e), lock)
    BY <2>1, <2>3, <2>4, ReserveAccount
  <2> QED BY <2>1, <2>2, <2>5 DEF Accounted
<1>3. ASSUME NEW caller \in Accounts, NEW a \in AuthIds,
             NEW final \in Finals, Settle(caller, a, final)
      PROVE  TypeOK' /\ Accounted'
  <2> DEFINE lock == AfterClearing(rows[a], final)
             e == [type |-> "card_settle", amount |-> final,
                   settled |-> lock.settled]
             short == Excess(lock.settled, lock.locked)
             f == [type |-> "shortfall", amount |-> short]
  <2>1. /\ rows[a] # NoLock /\ lock # NoLock
        /\ lock.locked = rows[a].locked
        /\ lock.settled = rows[a].settled + final
        /\ e \in Event /\ f \in Event /\ (short = 0 \/ short > 0)
        /\ rows'[a] = lock
        /\ short = 0 => log'[a] = Append(log[a], e)
        /\ short > 0 => log'[a] = Append(Append(log[a], e), f)
        /\ \A c \in AuthIds \ {a} : rows'[c] = rows[c] /\ log'[c] = log[c]
    BY <1>3, SettleFacts
  <2>2. TypeOK'
    BY <1>3, SettleFacts DEF TypeOK, ACTypeOK, acVars
  <2>3. log[a] \in Seq(Event) /\ Account(log[a], rows[a])
    BY DEF TypeOK, Accounted
  <2>4. /\ e.type = "card_settle" /\ e.amount = final
        /\ f.type = "shortfall" /\ f.amount = short
    OBVIOUS
  <2> HIDE DEF e, f, lock
  <2>5. /\ short = 0 => Account(Append(log[a], e), lock)
        /\ short > 0 => Account(Append(Append(log[a], e), f), lock)
    BY <2>1, <2>3, <2>4, SettleAccount
  <2> HIDE DEF short
  <2> QED BY <2>1, <2>2, <2>5 DEF Accounted
<1>4. ASSUME NEW caller \in Accounts, NEW a \in AuthIds, Release(caller, a)
      PROVE  TypeOK' /\ Accounted'
  <2> DEFINE e == [type |-> "collateral_released",
                   amount |-> Excess(rows[a].locked, rows[a].settled)]
  <2>1. /\ rows[a] # NoLock /\ e \in Event
        /\ rows'[a] = NoLock /\ log'[a] = Append(log[a], e)
        /\ \A c \in AuthIds \ {a} : rows'[c] = rows[c] /\ log'[c] = log[c]
    BY <1>4, ReleaseFacts
  <2>2. TypeOK'
    BY <1>4, ReleaseFacts DEF TypeOK, ACTypeOK, acVars
  <2>3. log[a] \in Seq(Event) /\ Account(log[a], rows[a])
    BY DEF TypeOK, Accounted
  <2>4. /\ e.type = "collateral_released"
        /\ e.amount = Excess(rows[a].locked, rows[a].settled)
    OBVIOUS
  <2> HIDE DEF e
  <2>5. Account(Append(log[a], e), NoLock)
    BY <2>1, <2>3, <2>4, ReleaseAccount
  <2> QED BY <2>1, <2>2, <2>5 DEF Accounted
<1> QED BY <1>1, <1>2, <1>3, <1>4, Steps

\* Every reachable state is well typed: collateral and clearings stay within
\* i128, checked_add included.
THEOREM TypeCorrect == Spec => []TypeOK
BY InitSafe, NextSafe, PTL DEF Spec

\* The events of every auth id are episodes, opened once and closed at most
\* once, and a lock is stored exactly while the last one is open.
THEOREM EventsFormEpisodes == Spec => []EpisodesWellFormed
<1>1. Accounted => EpisodesWellFormed
  BY DEF Accounted, Account, Episodes, Stored, Opens, Closes,
     EpisodesWellFormed
<1> QED BY <1>1, InitSafe, NextSafe, PTL DEF Spec

\* Every release of every episode returned what its clearings left, once.
THEOREM ReleasesReturnUnspent == Spec => []ReleaseReturnsUnspent
<1>1. Accounted => ReleaseReturnsUnspent
  BY DEF Accounted, Account, History, Returned, Closes, ReleaseReturnsUnspent
<1> QED BY <1>1, InitSafe, NextSafe, PTL DEF Spec

\* After every clearing a shortfall event tells the whole debt, if there is one.
THEOREM ShortfallsTellDebt == Spec => []ShortfallTellsDebt
<1>1. Accounted => ShortfallTellsDebt
  BY DEF Accounted, Account, History, DebtTold, Told, Debt, Clears,
     ShortfallTellsDebt
<1> QED BY <1>1, InitSafe, NextSafe, PTL DEF Spec

\* While an authorization is open its collateral is fixed and no step makes its
\* clearings smaller.
THEOREM ClearingsAreKept == Spec => NoClearingForgotten
<1> DEFINE Kept ==
      \A a \in AuthIds :
        rows[a] # NoLock /\ rows'[a] # NoLock =>
          /\ rows'[a].locked = rows[a].locked
          /\ rows'[a].authorized = rows[a].authorized
          /\ rows'[a].settled >= rows[a].settled
<1>1. TypeOK /\ [Next]_vars => Kept
  <2> SUFFICES ASSUME TypeOK, [Next]_vars, NEW c \in AuthIds,
                      rows[c] # NoLock, rows'[c] # NoLock
               PROVE  /\ rows'[c].locked = rows[c].locked
                      /\ rows'[c].authorized = rows[c].authorized
                      /\ rows'[c].settled >= rows[c].settled
    OBVIOUS
  <2>1. rows[c].settled \in Nat
    BY LockType, Constants
  <2>2. CASE rows'[c] = rows[c]
    BY <2>1, <2>2
  <2>3. ASSUME NEW caller \in Accounts, NEW a \in AuthIds,
               NEW amount \in Reserves, Reserve(caller, a, amount)
        PROVE  rows'[c] = rows[c]
    BY <2>3, ReserveFacts
  <2>4. ASSUME NEW caller \in Accounts, NEW a \in AuthIds,
               NEW final \in Finals, Settle(caller, a, final), c = a
        PROVE  /\ rows'[c].locked = rows[c].locked
               /\ rows'[c].authorized = rows[c].authorized
               /\ rows'[c].settled = rows[c].settled + final /\ final \in Nat
    <3> DEFINE lock == AfterClearing(rows[a], final)
    <3>1. /\ rows'[a] = lock /\ lock.locked = rows[a].locked
          /\ lock.authorized = rows[a].authorized
          /\ lock.settled = rows[a].settled + final /\ final \in Nat
      BY <2>4, SettleFacts
    <3> HIDE DEF lock
    <3> QED BY <2>4, <3>1
  <2>5. ASSUME NEW caller \in Accounts, NEW a \in AuthIds,
               NEW final \in Finals, Settle(caller, a, final), c # a
        PROVE  rows'[c] = rows[c]
    BY <2>5, SettleFacts
  <2>6. ASSUME NEW caller \in Accounts, NEW a \in AuthIds, Release(caller, a)
        PROVE  rows'[c] = rows[c]
    BY <2>6, ReleaseFacts
  <2> QED BY <2>1, <2>2, <2>3, <2>4, <2>5, <2>6, Steps
<1> QED BY <1>1, InitSafe, NextSafe, PTL DEF Spec, NoClearingForgotten

-----------------------------------------------------------------------------
(* The circuit breaker.                                                    *)

Held == [a \in AuthIds |-> IF rows[a] = NoLock THEN 0 ELSE rows[a].locked]

\* Only finitely many authorizations are open, however many ids there are, so
\* the exposure is a number.
ExposureInv == IsFiniteSet(Units(Held, AuthIds))

\* The collateral held for an authorization is a natural number.
LEMMA HeldType ==
  ASSUME TypeOK, NEW a \in AuthIds
  PROVE  Held[a] \in Nat
BY LockType, Constants DEF Held

\* A call that touches one authorization changes the exposure by what it does
\* to that one.
LEMMA ExposureStep ==
  ASSUME TypeOK, TypeOK', ExposureInv, NEW a \in AuthIds,
         \A c \in AuthIds \ {a} : rows'[c] = rows[c]
  PROVE  /\ ExposureInv' /\ Exposure' = Exposure - Held[a] + Held'[a]
         /\ Exposure \in Nat /\ Held[a] \in Nat /\ Held'[a] \in Nat
<1>1. Held[a] \in Nat /\ Held'[a] \in Nat
  <2>1. Held'[a] \in Nat
    BY Constants DEF TypeOK, CardLock, Held
  <2> QED BY <2>1, HeldType
<1>2. \A c \in AuthIds \ {a} : Held[c] = Held'[c]
  BY DEF Held
<1>3. /\ IsFiniteSet(Units(Held', AuthIds))
      /\ Total(Held', AuthIds) = Total(Held, AuthIds) - Held[a] + Held'[a]
  <2>1. IsFiniteSet(Units(Held, AuthIds))
    BY DEF ExposureInv
  <2> QED BY <1>1, <1>2, <2>1, SumAfterChange
<1>4. Exposure = Total(Held, AuthIds) /\ Exposure' = Total(Held', AuthIds)
  BY DEF Exposure, Held
<1>5. Total(Held, AuthIds) \in Nat
  BY SumIsNat DEF ExposureInv
<1> QED BY <1>1, <1>3, <1>4, <1>5 DEF ExposureInv

\* At first no collateral is held at all.
LEMMA InitExposure == Init => ExposureInv
<1> SUFFICES ASSUME Init PROVE ExposureInv
  OBVIOUS
<1>1. \A a \in AuthIds : Held[a] = 0
  BY DEF Init, Held
<1>2. Units(Held, AuthIds) = {}
  BY <1>1 DEF Units
<1> QED BY <1>2, FS_EmptySet DEF ExposureInv

\* What a step does to the exposure, and what it never does in a paused vault.
LEMMA NextExposure ==
  TypeOK /\ TypeOK' /\ ExposureInv /\ [Next]_vars
    => ExposureInv' /\ (paused => Exposure' <= Exposure)
<1> SUFFICES ASSUME TypeOK, TypeOK', ExposureInv, [Next]_vars
             PROVE  ExposureInv' /\ (paused => Exposure' <= Exposure)
  OBVIOUS
<1>1. CASE rows' = rows
  <2>1. Held' = Held
    BY <1>1 DEF Held
  <2>2. Exposure' = Exposure /\ Exposure \in Nat
    BY <2>1, SumIsNat DEF Exposure, Held, ExposureInv
  <2> QED BY <2>1, <2>2 DEF ExposureInv
<1>2. ASSUME NEW caller \in Accounts, NEW a \in AuthIds,
             NEW amount \in Reserves, Reserve(caller, a, amount)
      PROVE  ExposureInv' /\ ~paused
  <2>1. ~paused /\ \A c \in AuthIds \ {a} : rows'[c] = rows[c]
    BY <1>2, ReserveFacts
  <2> QED BY <2>1, ExposureStep
<1>3. ASSUME NEW caller \in Accounts, NEW a \in AuthIds,
             NEW final \in Finals, Settle(caller, a, final)
      PROVE  ExposureInv' /\ Exposure' <= Exposure
  <2> DEFINE lock == AfterClearing(rows[a], final)
  <2>1. /\ rows[a] # NoLock /\ lock # NoLock /\ lock.locked = rows[a].locked
        /\ rows'[a] = lock /\ \A c \in AuthIds \ {a} : rows'[c] = rows[c]
    BY <1>3, SettleFacts
  <2> HIDE DEF lock
  <2>2. Held'[a] = Held[a]
    BY <2>1 DEF Held
  <2> QED BY <2>1, <2>2, ExposureStep
<1>4. ASSUME NEW caller \in Accounts, NEW a \in AuthIds, Release(caller, a)
      PROVE  ExposureInv' /\ Exposure' <= Exposure
  <2>1. rows'[a] = NoLock /\ \A c \in AuthIds \ {a} : rows'[c] = rows[c]
    BY <1>4, ReleaseFacts
  <2>2. Held'[a] = 0
    BY <2>1 DEF Held
  <2> QED BY <2>1, <2>2, ExposureStep
<1> QED BY <1>1, <1>2, <1>3, <1>4, Steps

\* No step of a paused vault locks more collateral, and an admin it still has
\* can always close an open authorization.
THEOREM PausedVaultWindsDown == Spec => PausedOnlyWindsDown
<1>1. paused => \A a \in AuthIds : rows[a] # NoLock /\ admin # NoAccount =>
                  ReleaseAnswer(admin, a) = "Ok"
  BY DEF ReleaseAnswer, OnlyAdmin
<1> QED
  BY <1>1, InitSafe, NextSafe, InitExposure, NextExposure, PTL
  DEF Spec, PausedOnlyWindsDown

-----------------------------------------------------------------------------
(* The vault implements the book of accounts.                              *)

Amounts(s) == [i \in 1..Len(s) |-> s[i].amount]
OfType(s, type) == {i \in 1..Len(s) : s[i].type = type}

Adds(t, s, e, type) ==
  /\ Logged(s, type) \in Nat
  /\ Logged(t, type) = Logged(s, type)
                         + (IF e.type = type THEN e.amount ELSE 0)

\* What the events of one type sum to is a number, and one more event adds its
\* amount to the sum of its type.
LEMMA LoggedOneMore ==
  ASSUME NEW s, NEW e \in Event, NEW t, Extends(t, s, e), NEW type
  PROVE  Adds(t, s, e, type)
<1> DEFINE k == Len(s) + 1
<1>1. /\ s \in Seq(Event) /\ Len(s) \in Nat /\ Len(t) = k /\ t[k] = e
      /\ k \in Nat /\ k \notin 1..Len(s) /\ \A i \in 1..Len(s) : t[i] = s[i]
  BY DEF Extends
<1>2. e.amount \in Nat
  BY EventType
<1>3. \A i \in OfType(s, type) : Amounts(s)[i] = Amounts(t)[i]
  BY <1>1 DEF OfType, Amounts
<1>4. IsFiniteSet(Units(Amounts(s), OfType(s, type)))
  <2>1. IsFiniteSet(OfType(s, type))
    <3>1. IsFiniteSet(1..Len(s))
      BY <1>1, FS_Interval
    <3> QED BY <3>1, FS_Subset DEF OfType
  <2>2. \A i \in OfType(s, type) :
          Amounts(s)[i] \in Int /\ Amounts(s)[i] <= I128_MAX
    <3> SUFFICES ASSUME NEW i \in OfType(s, type)
                 PROVE  Amounts(s)[i] \in Int /\ Amounts(s)[i] <= I128_MAX
      OBVIOUS
    <3>1. i \in 1..Len(s) /\ s[i] \in Event
      BY <1>1 DEF OfType
    <3> QED BY <3>1, EventType DEF Amounts
  <2> QED BY <2>1, <2>2, SumOverFinite, Constants
<1>5. /\ Units(Amounts(s), OfType(s, type)) = Units(Amounts(t), OfType(s, type))
      /\ Total(Amounts(s), OfType(s, type)) = Total(Amounts(t), OfType(s, type))
  BY <1>3, SameSum
<1>6. /\ Logged(s, type) = Total(Amounts(s), OfType(s, type))
      /\ Logged(t, type) = Total(Amounts(t), OfType(t, type))
  BY DEF Logged, Amounts, OfType
<1>7. Logged(s, type) \in Nat
  BY <1>4, <1>6, SumIsNat
<1>8. OfType(t, type) = IF e.type = type THEN OfType(s, type) \cup {k}
                        ELSE OfType(s, type)
  BY <1>1 DEF OfType
<1>9. CASE e.type = type
  <2>1. k \notin OfType(s, type) /\ Amounts(t)[k] = e.amount
    BY <1>1 DEF OfType, Amounts
  <2>2. Amounts(t)[k] \in Nat /\ IsFiniteSet(Units(Amounts(t), OfType(s, type)))
    BY <1>2, <1>4, <1>5, <2>1
  <2>3. Total(Amounts(t), OfType(s, type) \cup {k}) =
          Total(Amounts(t), OfType(s, type)) + Amounts(t)[k]
    <3> HIDE DEF k
    <3> QED BY <2>1, <2>2, SumWithOneMore
  <2> QED BY <1>5, <1>6, <1>7, <1>8, <1>9, <2>1, <2>3 DEF Adds
<1>10. CASE e.type # type
  BY <1>5, <1>6, <1>7, <1>8, <1>10 DEF Adds
<1> QED BY <1>9, <1>10

\* The same for the three types of events that move collateral.
LEMMA LoggedEach ==
  ASSUME NEW s, NEW e \in Event, NEW t, Extends(t, s, e)
  PROVE  /\ Adds(t, s, e, "collateral_locked") /\ Adds(t, s, e, "card_settle")
         /\ Adds(t, s, e, "collateral_released")
BY LoggedOneMore

\* The variables of the book, as functions of the vault's.
OpenIn(r) == {a \in AuthIds : r[a] # NoLock}
BalanceIn(r) == [a \in AuthIds |-> IF r[a] = NoLock THEN 0
                                   ELSE r[a].locked - r[a].settled]
Sums(l, type) == [a \in AuthIds |-> Logged(l[a], type)]

\* What a step makes of one type's sums, if it touches one authorization.
Moved(a, type) ==
  /\ Sums(log, type)[a] = Logged(log[a], type)
  /\ Sums(log', type) = [Sums(log, type) EXCEPT ![a] = Logged(log'[a], type)]
  /\ Logged(log'[a], type) = Logged(log[a], type)
       => Sums(log', type) = Sums(log, type)

\* A call that touches one authorization changes its account only.
LEMMA OneBalance ==
  ASSUME NEW r, NEW s, NEW a \in AuthIds, \A c \in AuthIds \ {a} : s[c] = r[c]
  PROVE  BalanceIn(s) = [BalanceIn(r) EXCEPT ![a] = BalanceIn(s)[a]]
BY DEF BalanceIn

\* And no more of the sums of its events.
LEMMA OneAccount ==
  ASSUME NEW a \in AuthIds,
         \A c \in AuthIds \ {a} : rows'[c] = rows[c] /\ log'[c] = log[c]
  PROVE  /\ BalanceIn(rows') = [BalanceIn(rows) EXCEPT ![a] = BalanceIn(rows')[a]]
         /\ Moved(a, "collateral_locked") /\ Moved(a, "card_settle")
         /\ Moved(a, "collateral_released")
<1>1. /\ \A c \in AuthIds \ {a} : rows'[c] = rows[c]
      /\ \A c \in AuthIds \ {a} : log'[c] = log[c]
  OBVIOUS
<1>2. BalanceIn(rows') = [BalanceIn(rows) EXCEPT ![a] = BalanceIn(rows')[a]]
  BY <1>1, OneBalance
<1>3. ASSUME NEW type PROVE Moved(a, type)
  <2>1. /\ Sums(log, type)[a] = Logged(log[a], type)
        /\ Sums(log', type) = [Sums(log, type) EXCEPT ![a] = Logged(log'[a], type)]
        /\ Logged(log'[a], type) = Logged(log[a], type)
             => Sums(log', type) = Sums(log, type)
    BY <1>1 DEF Sums
  <2> QED BY <2>1 DEF Moved
<1> QED BY <1>2, <1>3

\* Reserving collateral is posting it.
LEMMA ReserveIsPost ==
  ASSUME TypeOK, NEW caller \in Accounts, NEW a \in AuthIds,
         NEW amount \in Reserves, Reserve(caller, a, amount)
  PROVE  amount \in 1..I128_MAX /\ Book!Post(a, amount)
<1> DEFINE e == [type |-> "collateral_locked", amount |-> amount]
           lock == [authorized |-> amount, locked |-> amount, settled |-> 0]
<1>1. /\ rows[a] = NoLock /\ ~paused /\ amount \in 1..I128_MAX
      /\ e \in Event /\ lock # NoLock
      /\ rows'[a] = lock /\ log'[a] = Append(log[a], e)
      /\ \A c \in AuthIds \ {a} : rows'[c] = rows[c] /\ log'[c] = log[c]
      /\ admin' = admin /\ paused' = paused
  BY ReserveFacts DEF acVars
<1>2. /\ e.type = "collateral_locked" /\ e.amount = amount
      /\ lock.locked = amount /\ lock.settled = 0
  OBVIOUS
<1> HIDE DEF e, lock
<1>3. Extends(log'[a], log[a], e)
  BY <1>1, AppendExtends DEF TypeOK
<1>4. /\ Logged(log'[a], "collateral_locked") =
           Logged(log[a], "collateral_locked") + amount
      /\ Logged(log'[a], "card_settle") = Logged(log[a], "card_settle")
      /\ Logged(log'[a], "collateral_released") =
           Logged(log[a], "collateral_released")
  <2>1. /\ Adds(log'[a], log[a], e, "collateral_locked")
        /\ Adds(log'[a], log[a], e, "card_settle")
        /\ Adds(log'[a], log[a], e, "collateral_released")
    BY <1>1, <1>3, LoggedEach
  <2> QED BY <1>2, <2>1 DEF Adds
<1>5. BalanceIn(rows')[a] = amount
  BY <1>1, <1>2 DEF BalanceIn
<1>6. OpenIn(rows') = OpenIn(rows) \cup {a} /\ a \notin OpenIn(rows)
  BY <1>1 DEF OpenIn
<1>7. /\ BalanceIn(rows') = [BalanceIn(rows) EXCEPT ![a] = amount]
      /\ Sums(log', "collateral_locked") =
           [Sums(log, "collateral_locked") EXCEPT
              ![a] = Sums(log, "collateral_locked")[a] + amount]
      /\ Sums(log', "card_settle") = Sums(log, "card_settle")
      /\ Sums(log', "collateral_released") = Sums(log, "collateral_released")
  BY <1>1, <1>4, <1>5, OneAccount DEF Moved
<1> QED
  BY <1>1, <1>6, <1>7 DEF Book!Post, OpenIn, BalanceIn, Sums

\* A clearing draws on the balance, and its shortfall event moves nothing.
LEMMA SettleIsClear ==
  ASSUME TypeOK, NEW caller \in Accounts, NEW a \in AuthIds,
         NEW final \in Finals, Settle(caller, a, final)
  PROVE  final \in 0..I128_MAX /\ Book!Clear(a, final)
<1> DEFINE lock == AfterClearing(rows[a], final)
           e == [type |-> "card_settle", amount |-> final,
                 settled |-> lock.settled]
           short == Excess(lock.settled, lock.locked)
           f == [type |-> "shortfall", amount |-> short]
<1>1. /\ rows[a] # NoLock /\ final \in Nat
      /\ lock \in CardLock /\ lock # NoLock
      /\ lock.locked = rows[a].locked /\ lock.settled = rows[a].settled + final
      /\ e \in Event /\ f \in Event /\ (short = 0 \/ short > 0)
      /\ rows'[a] = lock
      /\ short = 0 => log'[a] = Append(log[a], e)
      /\ short > 0 => log'[a] = Append(Append(log[a], e), f)
      /\ \A c \in AuthIds \ {a} : rows'[c] = rows[c] /\ log'[c] = log[c]
      /\ admin' = admin /\ paused' = paused
  BY SettleFacts DEF acVars
<1>2. /\ e.type = "card_settle" /\ e.amount = final /\ f.type = "shortfall"
  OBVIOUS
<1>3. /\ rows[a].locked \in 1..I128_MAX /\ rows[a].settled \in 0..I128_MAX
      /\ lock.settled \in 0..I128_MAX
  BY <1>1, LockType DEF CardLock
<1> HIDE DEF e, f, lock, short
<1>4. Extends(Append(log[a], e), log[a], e)
  BY <1>1, AppendExtends DEF TypeOK
<1>5. Extends(Append(Append(log[a], e), f), Append(log[a], e), f)
  BY <1>1, <1>4, AppendExtends DEF Extends
<1>6. /\ Logged(log'[a], "card_settle") = Logged(log[a], "card_settle") + final
      /\ Logged(log'[a], "collateral_locked") =
           Logged(log[a], "collateral_locked")
      /\ Logged(log'[a], "collateral_released") =
           Logged(log[a], "collateral_released")
  <2> DEFINE s == Append(log[a], e)
             t == Append(s, f)
  <2>1. log'[a] = s \/ log'[a] = t
    BY <1>1
  <2>2. Extends(s, log[a], e) /\ Extends(t, s, f) /\ e \in Event /\ f \in Event
    BY <1>1, <1>4, <1>5
  <2> HIDE DEF s, t
  <2>3. /\ Logged(s, "card_settle") = Logged(log[a], "card_settle") + final
        /\ Logged(s, "collateral_locked") = Logged(log[a], "collateral_locked")
        /\ Logged(s, "collateral_released") =
             Logged(log[a], "collateral_released")
    <3>1. /\ Adds(s, log[a], e, "collateral_locked")
          /\ Adds(s, log[a], e, "card_settle")
          /\ Adds(s, log[a], e, "collateral_released")
      BY <2>2, LoggedEach
    <3> QED BY <1>2, <3>1 DEF Adds
  <2>4. /\ Logged(t, "card_settle") = Logged(s, "card_settle")
        /\ Logged(t, "collateral_locked") = Logged(s, "collateral_locked")
        /\ Logged(t, "collateral_released") = Logged(s, "collateral_released")
    <3>1. /\ Adds(t, s, f, "collateral_locked")
          /\ Adds(t, s, f, "card_settle")
          /\ Adds(t, s, f, "collateral_released")
      BY <2>2, LoggedEach
    <3> QED BY <1>2, <3>1 DEF Adds
  <2> QED BY <2>1, <2>3, <2>4
<1>7. /\ final \in 0..I128_MAX
      /\ BalanceIn(rows)[a] = rows[a].locked - rows[a].settled
      /\ BalanceIn(rows')[a] = BalanceIn(rows)[a] - final
      /\ BalanceIn(rows)[a] - final >= -I128_MAX
  <2>1. /\ BalanceIn(rows)[a] = rows[a].locked - rows[a].settled
        /\ BalanceIn(rows')[a] = lock.locked - lock.settled
    BY <1>1 DEF BalanceIn
  <2>3. /\ lock.locked = rows[a].locked
        /\ lock.settled = rows[a].settled + final
    BY <1>1
  <2>4. final \in 0..I128_MAX
    <3> DEFINE m == rows[a].settled
               q == lock.settled
    <3>1. m \in 0..I128_MAX /\ q \in 0..I128_MAX /\ q = m + final
          /\ final \in Nat
      BY <1>1, <1>3
    <3> HIDE DEF m, q
    <3> QED BY <3>1, Constants
  <2> DEFINE k == rows[a].locked
             m == rows[a].settled
  <2>5. k \in 1..I128_MAX /\ m \in Int /\ m + final \in 0..I128_MAX
    BY <1>3, <2>3
  <2> HIDE DEF k, m
  <2>6. k - (m + final) = (k - m) - final /\ (k - m) - final >= -I128_MAX
    BY <2>4, <2>5, Constants
  <2> QED BY <2>1, <2>3, <2>4, <2>6 DEF k, m
<1>8. OpenIn(rows') = OpenIn(rows) /\ a \in OpenIn(rows)
  BY <1>1 DEF OpenIn
<1>9. /\ BalanceIn(rows') =
           [BalanceIn(rows) EXCEPT ![a] = BalanceIn(rows)[a] - final]
      /\ Sums(log', "card_settle") =
           [Sums(log, "card_settle") EXCEPT
              ![a] = Sums(log, "card_settle")[a] + final]
      /\ Sums(log', "collateral_locked") = Sums(log, "collateral_locked")
      /\ Sums(log', "collateral_released") = Sums(log, "collateral_released")
  BY <1>1, <1>6, <1>7, OneAccount DEF Moved
<1> QED
  BY <1>1, <1>7, <1>8, <1>9 DEF Book!Clear, OpenIn, BalanceIn, Sums

\* A release gives back what is left of the balance.
LEMMA ReleaseIsFree ==
  ASSUME TypeOK, NEW caller \in Accounts, NEW a \in AuthIds, Release(caller, a)
  PROVE  Book!Free(a)
<1> DEFINE e == [type |-> "collateral_released",
                 amount |-> Excess(rows[a].locked, rows[a].settled)]
<1>1. /\ rows[a] # NoLock /\ e \in Event
      /\ rows'[a] = NoLock /\ log'[a] = Append(log[a], e)
      /\ \A c \in AuthIds \ {a} : rows'[c] = rows[c] /\ log'[c] = log[c]
      /\ admin' = admin /\ paused' = paused
  BY ReleaseFacts DEF acVars
<1>2. /\ e.type = "collateral_released"
      /\ e.amount = Excess(rows[a].locked, rows[a].settled)
  OBVIOUS
<1> HIDE DEF e
<1>3. Extends(log'[a], log[a], e)
  BY <1>1, AppendExtends DEF TypeOK
<1>4. /\ Logged(log'[a], "collateral_released") =
           Logged(log[a], "collateral_released") + e.amount
      /\ Logged(log'[a], "card_settle") = Logged(log[a], "card_settle")
      /\ Logged(log'[a], "collateral_locked") =
           Logged(log[a], "collateral_locked")
  <2>1. /\ Adds(log'[a], log[a], e, "collateral_locked")
        /\ Adds(log'[a], log[a], e, "card_settle")
        /\ Adds(log'[a], log[a], e, "collateral_released")
    BY <1>1, <1>3, LoggedEach
  <2> QED BY <1>2, <2>1 DEF Adds
<1>5. /\ BalanceIn(rows)[a] = rows[a].locked - rows[a].settled
      /\ BalanceIn(rows')[a] = 0
  BY <1>1 DEF BalanceIn
<1>6. e.amount = Book!Positive(BalanceIn(rows)[a])
  <2>1. /\ rows[a].locked \in Int /\ rows[a].settled \in Int
    BY <1>1, LockType, Constants
  <2> QED BY <1>2, <1>5, <2>1 DEF Book!Positive, Excess
<1>7. OpenIn(rows') = OpenIn(rows) \ {a} /\ a \in OpenIn(rows)
  BY <1>1 DEF OpenIn
<1>8. /\ BalanceIn(rows') = [BalanceIn(rows) EXCEPT ![a] = 0]
      /\ Sums(log', "collateral_released") =
           [Sums(log, "collateral_released") EXCEPT
              ![a] = Sums(log, "collateral_released")[a]
                       + Book!Positive(BalanceIn(rows)[a])]
      /\ Sums(log', "card_settle") = Sums(log, "card_settle")
      /\ Sums(log', "collateral_locked") = Sums(log, "collateral_locked")
  BY <1>1, <1>4, <1>5, <1>6, OneAccount DEF Moved
<1> QED
  BY <1>1, <1>7, <1>8 DEF Book!Free, OpenIn, BalanceIn, Sums

\* Nobody answers for a vault without an admin.
LEMMA AdminThere ==
  ASSUME NEW caller \in Accounts, OnlyAdmin(caller) = "Ok"
  PROVE  admin # NoAccount
BY Constants DEF OnlyAdmin

\* The admin interface retires the book, or does not touch it.
LEMMA AdminCallRetires ==
  ASSUME TypeOK, AdminCall
  PROVE  /\ UNCHANGED <<paused, rows, log>>
         /\ admin = NoAccount => admin' = NoAccount
<1> PICK caller \in Accounts :
      \/ \E new \in Accounts, until \in AdminWindows :
           TransferAdminRole(caller, new, until)
      \/ AcceptAdminTransfer(caller)
      \/ RenounceAdmin(caller)
  BY DEF AdminCall, AdminStep
<1>1. UNCHANGED <<paused, rows, log>>
  BY DEF AdminCall
<1> QED
  BY <1>1 DEF TransferAdminRole, AcceptAdminTransfer, AcceptAdminAnswer,
     RenounceAdmin

\* At first nothing was ever posted.
LEMMA InitBook == Init => Book!BookInit
<1> SUFFICES ASSUME Init PROVE Book!BookInit
  OBVIOUS
<1>1. \A a \in AuthIds : rows[a] = NoLock /\ log[a] = << >>
  BY DEF Init
<1>2. paused = FALSE /\ admin # NoAccount
  BY Constants DEF Init, ACInit
<1>3. \A type : Logged(<< >>, type) = 0
  <2> SUFFICES ASSUME NEW type PROVE Logged(<< >>, type) = 0
    OBVIOUS
  <2>1. OfType(<< >>, type) = {}
    BY DEF OfType
  <2>2. Logged(<< >>, type) = Total(Amounts(<< >>), OfType(<< >>, type))
    BY DEF Logged, Amounts, OfType
  <2> QED BY <2>1, <2>2, EmptySum
<1>4. \A type : Sums(log, type) = [a \in AuthIds |-> 0]
  BY <1>1, <1>3 DEF Sums
<1>5. OpenIn(rows) = {} /\ BalanceIn(rows) = [a \in AuthIds |-> 0]
  BY <1>1 DEF OpenIn, BalanceIn
<1> QED BY <1>2, <1>4, <1>5 DEF Book!BookInit, Sums, OpenIn, BalanceIn

\* Every step of the vault is a step of the book or leaves all of it alone.
LEMMA NextBook ==
  TypeOK /\ [Next]_vars => [Book!BookNext]_Book!bookVars
<1> SUFFICES ASSUME TypeOK, [Next]_vars
             PROVE  Book!BookNext \/ UNCHANGED Book!bookVars
  OBVIOUS
<1>1. CASE UNCHANGED <<rows, log>>
           /\ \/ CloseLedger \/ AdminCall \/ UNCHANGED vars
              \/ \E caller \in Accounts, b \in BOOLEAN : SetPaused(caller, b)
  <2>1. CASE CloseLedger \/ UNCHANGED vars
    BY <1>1, <2>1 DEF CloseLedger, CloseLedgerAC, vars, Book!bookVars
  <2>2. CASE AdminCall
    <3>1. /\ UNCHANGED <<paused, rows, log>>
          /\ admin = NoAccount => admin' = NoAccount
      BY <2>2, AdminCallRetires
    <3>2. CASE admin # NoAccount /\ admin' = NoAccount
      BY <3>1, <3>2 DEF Book!BookNext, Book!Retire
    <3>3. CASE ~(admin # NoAccount /\ admin' = NoAccount)
      <4>1. (admin' = NoAccount) = (admin = NoAccount)
        BY <3>1, <3>3
      <4> QED BY <3>1, <4>1 DEF Book!bookVars
    <3> QED BY <3>2, <3>3
  <2>3. ASSUME NEW caller \in Accounts, NEW b \in BOOLEAN, SetPaused(caller, b)
        PROVE  Book!BookNext
    <3>1. /\ admin # NoAccount /\ admin' = admin /\ paused' = ~paused
          /\ UNCHANGED <<rows, log>>
      BY <2>3, AdminThere DEF SetPaused, acVars, TypeOK
    <3> QED BY <3>1 DEF Book!BookNext, Book!SetHalted
  <2> QED BY <1>1, <2>1, <2>2, <2>3
<1>2. ASSUME NEW caller \in Accounts, NEW a \in AuthIds,
             NEW amount \in Reserves, Reserve(caller, a, amount)
      PROVE  Book!BookNext
  <2>1. amount \in 1..I128_MAX /\ Book!Post(a, amount)
    BY <1>2, ReserveIsPost
  <2>2. admin # NoAccount
    <3>1. OnlyAdmin(caller) = "Ok"
      BY <1>2 DEF Reserve, ReserveAnswer
    <3> QED BY <3>1, AdminThere
  <2> QED BY <2>1, <2>2 DEF Book!BookNext
<1>3. ASSUME NEW caller \in Accounts, NEW a \in AuthIds,
             NEW final \in Finals, Settle(caller, a, final)
      PROVE  Book!BookNext
  <2>1. final \in 0..I128_MAX /\ Book!Clear(a, final)
    BY <1>3, SettleIsClear
  <2>2. admin # NoAccount
    <3>1. OnlyAdmin(caller) = "Ok"
      BY <1>3 DEF Settle, SettleAnswer
    <3> QED BY <3>1, AdminThere
  <2> QED BY <2>1, <2>2 DEF Book!BookNext
<1>4. ASSUME NEW caller \in Accounts, NEW a \in AuthIds, Release(caller, a)
      PROVE  Book!BookNext
  <2>1. Book!Free(a)
    BY <1>4, ReleaseIsFree
  <2>2. admin # NoAccount
    <3>1. OnlyAdmin(caller) = "Ok"
      BY <1>4 DEF Release, ReleaseAnswer
    <3> QED BY <3>1, AdminThere
  <2> QED BY <2>1, <2>2 DEF Book!BookNext
<1> QED BY <1>1, <1>2, <1>3, <1>4, Steps

\* The vault implements the book of accounts, for every number of
\* authorizations and any amounts: rows and events move together, and once the
\* admin has renounced nothing moves, with whatever handover outstanding.
THEOREM VaultImplementsBook == Spec => ImplementsCollateralBook
BY InitSafe, NextSafe, InitBook, NextBook, PTL
DEF Spec, ImplementsCollateralBook, Book!BookSpec

\* The balance b and the lifetime sums of one authorization agree.
Agree(b, posted, spent, returned) ==
  /\ b \in Int /\ posted \in Nat /\ spent \in Nat /\ returned \in Nat
  /\ returned + Book!Positive(b) <= posted
  /\ posted <= spent + returned + b

Balanced(r, l) ==
  \A a \in AuthIds :
    Agree(BalanceIn(r)[a], Sums(l, "collateral_locked")[a],
          Sums(l, "card_settle")[a], Sums(l, "collateral_released")[a])

\* Each move of the book keeps them in agreement.
LEMMA MovesAgree ==
  ASSUME NEW b, NEW p, NEW s, NEW r, Agree(b, p, s, r), NEW n \in Nat
  PROVE  /\ b = 0 => Agree(n, p + n, s, r)
         /\ Agree(b - n, p, s + n, r)
         /\ Agree(0, p, s, r + Book!Positive(b))
BY DEF Agree, Book!Positive

\* The inductive step, one authorization at a time.
LEMMA NextBalanced ==
  TypeOK /\ Balanced(rows, log) /\ [Next]_vars => Balanced(rows', log')
<1> SUFFICES ASSUME TypeOK, Balanced(rows, log), [Next]_vars
             PROVE  Balanced(rows', log')
  OBVIOUS
<1> DEFINE B == BalanceIn(rows)
           P == Sums(log, "collateral_locked")
           S == Sums(log, "card_settle")
           R == Sums(log, "collateral_released")
           B1 == BalanceIn(rows')
           P1 == Sums(log', "collateral_locked")
           S1 == Sums(log', "card_settle")
           R1 == Sums(log', "collateral_released")
<1>1. /\ B = [a \in AuthIds |-> B[a]] /\ P = [a \in AuthIds |-> P[a]]
      /\ S = [a \in AuthIds |-> S[a]] /\ R = [a \in AuthIds |-> R[a]]
  BY DEF BalanceIn, Sums
<1>2. \A a \in AuthIds : Agree(B[a], P[a], S[a], R[a])
  BY DEF Balanced
<1> SUFFICES \A a \in AuthIds : Agree(B1[a], P1[a], S1[a], R1[a])
  BY DEF Balanced
<1>3. ASSUME NEW caller \in Accounts, NEW a \in AuthIds,
             NEW n \in Reserves, Reserve(caller, a, n)
      PROVE  \A c \in AuthIds : Agree(B1[c], P1[c], S1[c], R1[c])
  <2>1. n \in 1..I128_MAX /\ Book!Post(a, n)
    BY <1>3, ReserveIsPost
  <2>2. /\ B[a] = 0 /\ B1 = [B EXCEPT ![a] = n]
        /\ P1 = [P EXCEPT ![a] = @ + n] /\ S1 = S /\ R1 = R
    BY <2>1 DEF Book!Post, OpenIn, BalanceIn, Sums
  <2>3. n \in Nat
    BY <2>1
  <2> HIDE DEF B, P, S, R, B1, P1, S1, R1
  <2>4. Agree(n, P[a] + n, S[a], R[a])
    BY <1>2, <2>2, <2>3, MovesAgree
  <2> QED BY <1>1, <1>2, <2>2, <2>4
<1>4. ASSUME NEW caller \in Accounts, NEW a \in AuthIds,
             NEW n \in Finals, Settle(caller, a, n)
      PROVE  \A c \in AuthIds : Agree(B1[c], P1[c], S1[c], R1[c])
  <2>1. n \in 0..I128_MAX /\ Book!Clear(a, n)
    BY <1>4, SettleIsClear
  <2>2. /\ B1 = [B EXCEPT ![a] = @ - n]
        /\ S1 = [S EXCEPT ![a] = @ + n] /\ P1 = P /\ R1 = R
    BY <2>1 DEF Book!Clear, BalanceIn, Sums
  <2>3. n \in Nat
    BY <2>1
  <2> HIDE DEF B, P, S, R, B1, P1, S1, R1
  <2>4. Agree(B[a] - n, P[a], S[a] + n, R[a])
    BY <1>2, <2>3, MovesAgree
  <2> QED BY <1>1, <1>2, <2>2, <2>4
<1>5. ASSUME NEW caller \in Accounts, NEW a \in AuthIds, Release(caller, a)
      PROVE  \A c \in AuthIds : Agree(B1[c], P1[c], S1[c], R1[c])
  <2>1. Book!Free(a)
    BY <1>5, ReleaseIsFree
  <2>2. /\ B1 = [B EXCEPT ![a] = 0]
        /\ R1 = [R EXCEPT ![a] = @ + Book!Positive(B[a])] /\ P1 = P /\ S1 = S
    BY <2>1 DEF Book!Free, BalanceIn, Sums
  <2> HIDE DEF B, P, S, R, B1, P1, S1, R1
  <2>3. Agree(0, P[a], S[a], R[a] + Book!Positive(B[a]))
    BY <1>2, MovesAgree
  <2> QED BY <1>1, <1>2, <2>2, <2>3
<1>6. CASE UNCHANGED <<rows, log>>
  BY <1>2, <1>6
<1> QED BY <1>3, <1>4, <1>5, <1>6, Steps

\* Over all episodes of an authorization together the vault returns no more
\* than was posted, and everything posted was spent, was returned or is still
\* held: nothing is made and nothing vanishes.
THEOREM NothingVanishes == Spec => []Book!Conserved
<1>1. Init => Balanced(rows, log)
  <2> SUFFICES ASSUME Init PROVE Balanced(rows, log)
    OBVIOUS
  <2>1. Book!BookInit
    BY InitBook
  <2>2. \A a \in AuthIds :
          /\ BalanceIn(rows)[a] = 0 /\ Sums(log, "collateral_locked")[a] = 0
          /\ Sums(log, "card_settle")[a] = 0
          /\ Sums(log, "collateral_released")[a] = 0
    BY <2>1 DEF Book!BookInit, BalanceIn, Sums
  <2>3. Agree(0, 0, 0, 0)
    BY DEF Agree, Book!Positive
  <2> QED BY <2>2, <2>3 DEF Balanced
<1>2. Balanced(rows, log) => Book!Conserved
  BY DEF Balanced, Agree, Book!Conserved, BalanceIn, Sums
<1>3. TypeOK /\ Balanced(rows, log) /\ [Next]_vars => Balanced(rows, log)'
  BY NextBalanced
<1> QED BY <1>1, <1>2, <1>3, InitSafe, NextSafe, PTL DEF Spec
=============================================================================
