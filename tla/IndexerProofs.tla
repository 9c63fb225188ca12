---------------------------- MODULE IndexerProofs ----------------------------
(***************************************************************************)
(* Theorems of Indexer.  The invariant says, of every run, where in the    *)
(* chain its pages have got it and what of the chain below is in the       *)
(* outputs, as long as no kill has cut a line in two.  Operators take the  *)
(* chain `c` and the outputs `o` as arguments, so that a lemma can compare *)
(* the states before and after a step.                                     *)
(***************************************************************************)
EXTENDS Indexer, UnitSumsProofs

-----------------------------------------------------------------------------
(* Smallest elements, and the pages of the node.                           *)

\* A set of naturals that is not empty has a least element: Min is defined.
LEMMA MinIsLeast ==
  ASSUME NEW T \in SUBSET Nat, T # {}
  PROVE  Min(T) \in T /\ \A y \in T : Min(T) <= y
BY LeastNumber DEF Min

\* A sequence over a set is one over a larger set.
LEMMA SeqOfMore ==
  ASSUME NEW S, NEW T, S \subseteq T, NEW q \in Seq(S)
  PROVE  q \in Seq(T) /\ Len(q) \in Nat
OBVIOUS

\* Max and Min of two integers.
LEMMA OfTwo ==
  ASSUME NEW a \in Int, NEW b \in Int
  PROVE  /\ Max({a, b}) = IF a >= b THEN a ELSE b
         /\ Min({a, b}) = IF a <= b THEN a ELSE b
<1>1. ASSUME NEW x \in {a, b}, \A y \in {a, b} : x >= y
      PROVE  x = IF a >= b THEN a ELSE b
  BY <1>1
<1>2. ASSUME NEW x \in {a, b}, \A y \in {a, b} : x <= y
      PROVE  x = IF a <= b THEN a ELSE b
  BY <1>2
<1>3. \E x \in {a, b} : \A y \in {a, b} : x >= y
  OBVIOUS
<1>4. \E x \in {a, b} : \A y \in {a, b} : x <= y
  OBVIOUS
<1> QED BY <1>1, <1>2, <1>3, <1>4 DEF Max, Min

\* The ledgers of a chain are in order and none is beyond the tip.
ChainOK(c, t) ==
  /\ c \in Seq(2..MaxLedger)
  /\ \A i, j \in 1..Len(c) : i <= j => c[i] <= c[j]
  /\ \A i \in 1..Len(c) : c[i] <= t

\* What its type says of a chain.
LEMMA ChainType ==
  ASSUME NEW c, NEW t, ChainOK(c, t)
  PROVE  /\ Len(c) \in Nat
         /\ \A i \in 1..Len(c) : c[i] \in 2..MaxLedger /\ c[i] \in Int
<1>1. ASSUME NEW S, NEW q \in Seq(S)
      PROVE  Len(q) \in Nat /\ \A i \in 1..Len(q) : q[i] \in S
  OBVIOUS
<1>2. c \in Seq(2..MaxLedger)
  BY DEF ChainOK
<1>3. MaxLedger \in Int
  BY IndexerAssumption
<1> QED BY <1>1, <1>2, <1>3

\* FirstFrom splits the chain at a ledger.
LEMMA FirstFromSplits ==
  ASSUME ChainOK(chain, tip), NEW L \in Int
  PROVE  /\ FirstFrom(L) \in 1..Len(chain) + 1
         /\ \A e \in Ids : e < FirstFrom(L) <=> chain[e] < L
<1> DEFINE T == {e \in Ids : chain[e] >= L} \cup {Len(chain) + 1}
           f == Min(T)
<1>1. Len(chain) \in Nat /\ \A e \in Ids : chain[e] \in Int
  BY ChainType DEF Ids
<1>2. T \subseteq 1..Len(chain) + 1 /\ T # {}
  BY <1>1 DEF Ids
<1>3. f \in T /\ \A y \in T : f <= y
  <2>1. T \in SUBSET Nat
    BY <1>2
  <2> HIDE DEF T
  <2> QED BY <2>1, <1>2, MinIsLeast
<1>4. f = FirstFrom(L)
  BY DEF FirstFrom
<1>5. ASSUME NEW e \in Ids, chain[e] < L PROVE e < f
  <2>1. CASE f = Len(chain) + 1
    BY <2>1, <1>1 DEF Ids
  <2>2. CASE f \in Ids /\ chain[f] >= L
    <3>1. f \in Int /\ f \in 1..Len(chain) /\ e \in 1..Len(chain)
      BY <2>2, <1>1 DEF Ids
    <3>2. chain[e] < chain[f]
      BY <2>2, <1>5, <1>1
    <3> HIDE DEF f
    <3> QED BY <3>1, <3>2, <1>1 DEF ChainOK, Ids
  <2> QED BY <2>1, <2>2, <1>3
<1>6. ASSUME NEW e \in Ids, e < f PROVE chain[e] < L
  BY <1>6, <1>3, <1>1, <1>2 DEF Ids
<1> QED BY <1>2, <1>3, <1>4, <1>5, <1>6

\* A page goes on from where it is asked to, without a gap; one that is not
\* full ends where the node stops looking.
LEMMA ServedInOrder ==
  ASSUME ChainOK(chain, tip), NEW L \in Int, NEW from \in 1..Len(chain) + 1,
         from <= FirstFrom(L + ScanLimit)
  PROVE  /\ Served(from, L) \in Seq(Ids)
         /\ from + Len(Served(from, L)) <= FirstFrom(L + ScanLimit)
         /\ Len(Served(from, L)) <= PAGE_LIMIT
         /\ Len(Served(from, L)) < PAGE_LIMIT =>
              from + Len(Served(from, L)) = FirstFrom(L + ScanLimit)
         /\ \A i \in 1..Len(Served(from, L)) : Served(from, L)[i] = from + i - 1
         /\ Served(from, L) # << >> =>
              /\ Len(Served(from, L)) > 0
              /\ Last(Served(from, L)) + 1 = from + Len(Served(from, L))
<1> DEFINE f == FirstFrom(L + ScanLimit)
           n == IF PAGE_LIMIT + from <= f THEN PAGE_LIMIT ELSE f - from
           page == [i \in 1..n |-> from + i - 1]
<1>1. PAGE_LIMIT \in Nat \ {0} /\ ScanLimit \in Nat /\ Len(chain) \in Nat
  BY IndexerAssumption, ChainType
<1>2. f \in 1..Len(chain) + 1
  BY <1>1, FirstFromSplits
<1> HIDE DEF f
<1>3. n \in Nat /\ n <= PAGE_LIMIT /\ from + n <= f /\ (n < PAGE_LIMIT => from + n = f)
  BY <1>1, <1>2 DEF f
<1>4. Served(from, L) = page
  <2> DEFINE last == PAGE_LIMIT + from
  <2>1. last \in Int /\ f \in Int
    BY <1>1, <1>2
  <2>2. Min({last, f}) = IF last <= f THEN last ELSE f
    <3> HIDE DEF last
    <3> QED BY <2>1, OfTwo
  <2>3. Min({last, f}) - from = n
    BY <1>1, <1>2, <2>2
  <2>4. Max({0, n}) = n
    BY <1>3, OfTwo
  <2> QED BY <2>2, <2>3, <2>4 DEF Served, f
<1> HIDE DEF n
<1>5. page \in Seq(Ids) /\ Len(page) = n
  <2>1. \A i \in 1..n : from + i - 1 \in Ids
    BY <1>1, <1>2, <1>3 DEF Ids
  <2> QED BY <2>1, <1>3
<1>6. \A i \in 1..n : page[i] = from + i - 1
  OBVIOUS
<1>7. page # << >> => n > 0 /\ Last(page) + 1 = from + n
  <2>1. ASSUME n = 0 PROVE page = << >>
    BY <2>1
  <2>2. n > 0 => Last(page) = from + n - 1
    BY <1>5, <1>3 DEF Last
  <2> HIDE DEF page
  <2> QED BY <2>1, <2>2, <1>3, <1>1
<1> HIDE DEF page
<1> QED BY <1>3, <1>4, <1>5, <1>6, <1>7 DEF f

-----------------------------------------------------------------------------
(* The invariant.                                                          *)

\* What is in the outputs `o`, when they were written in whole lines.
StoredIn(o, s) == ToSet(o[s]) \ {Bad}
WholeIn(o) == \A s \in Sinks : Bad \notin ToSet(o[s])
FoundIn(o) == UNION {StoredIn(o, s) : s \in Sinks}

\* The locals of a run that is past its start.
Locals ==
  [pc : {"fetch", "page", "save"}, tip : Nat, start : Nat, sink : Sinks,
   maxLedger : Nat, next : Nat, batch : Seq(Nat), short : BOOLEAN,
   seen : SUBSET Nat]

Values == {Idle} \cup [pc : {"started"}, tip : Nat] \cup Locals

\* The first event a run has not looked at yet.
Pos(R) == R.next - Len(R.batch)

\* Where a run is: its range of ledgers, and its page.
PlaceOK(R, c, t) ==
  /\ 2 <= R.start /\ R.start <= R.tip /\ R.tip <= t
  /\ R.next <= Len(c) + 1
  /\ R.seen \subseteq 1..Len(c)
  /\ R.next = 0 => R.pc = "fetch"
  /\ R.pc # "page" => R.batch = << >>
  /\ R.pc = "fetch" => ~R.short
  /\ R.pc = "save" => R.short
  /\ R.batch # << >> => Pos(R) > 0
  /\ \A i \in 1..Len(R.batch) : R.batch[i] = Pos(R) + i - 1

\* The largest ledger is that of an event the run has been given.
LargestOK(R, c) ==
  /\ R.start - 1 <= R.maxLedger
  /\ \/ R.maxLedger = R.start - 1
     \/ \E d \in 1..Len(c) : d < R.next /\ R.maxLedger = c[d]

\* A run has more pages to ask for from an event it was given; after the last
\* one only events are left that are out of its range.
RangeOK(R, c) ==
  /\ ~R.short /\ R.next # 0 => R.next >= 2 /\ c[R.next - 1] >= R.start
  /\ R.short => \A e \in 1..Len(c) :
                  e >= R.next =>
                    /\ c[e] > R.tip \/ c[e] >= R.start + ScanLimit
                    /\ \A d \in 1..Len(c) : d < R.next => c[d] < c[e]

\* What a run has passed within its range is in the outputs, and so is what
\* it takes for known.
PassedOK(R, c, o) ==
  WholeIn(o) =>
    /\ R.seen \subseteq StoredIn(o, R.sink)
    /\ \A e \in 1..Len(c) : R.start <= c[e] /\ e < Pos(R) => e \in FoundIn(o)

RunOK(R, c, o, t) ==
  /\ R.pc = "started" => R.tip \in 2..t
  /\ R \in Locals => /\ PlaceOK(R, c, t)
                     /\ LargestOK(R, c)
                     /\ RangeOK(R, c)
                     /\ PassedOK(R, c, o)

NetworkInv ==
  /\ tip \in 2..MaxLedger
  /\ ChainOK(chain, tip)
  /\ cursorFile \in 0..tip
  /\ crashes \in 0..MaxCrashes

\* A file that does not end in a newline has a last line.
OutputInv ==
  /\ out \in [Sinks -> Seq(Ids \cup {Bad})]
  /\ halfLine \in BOOLEAN
  /\ halfLine => "file" \in Sinks /\ out["file"] # << >>

RunInv ==
  /\ run \in [Runs -> Values]
  /\ \A r \in Runs : RunOK(run[r], chain, out, tip)

Inv == NetworkInv /\ OutputInv /\ RunInv

-----------------------------------------------------------------------------
(* What a longer chain and fuller outputs leave true.                      *)

\* The chain `c2` of tip `t2` is `c` with events of later ledgers after it.
Extended(c, t, c2, t2) ==
  /\ t <= t2 /\ Len(c) <= Len(c2)
  /\ \A i \in 1..Len(c) : c2[i] = c[i]
  /\ \A i \in 1..Len(c2) : i > Len(c) => c2[i] > t

\* If the outputs `o2` are whole, then `o` was, and all it had is in them.
Grows(o, o2) ==
  WholeIn(o2) =>
    WholeIn(o) /\ \A s \in Sinks : StoredIn(o, s) \subseteq StoredIn(o2, s)

\* A run that does not move stays where the invariant has it.
LEMMA RunKept ==
  ASSUME NEW R, NEW c, NEW t \in Int, NEW o, NEW c2, NEW t2 \in Int, NEW o2,
         ChainOK(c, t), ChainOK(c2, t2), Extended(c, t, c2, t2), Grows(o, o2),
         RunOK(R, c, o, t)
  PROVE  RunOK(R, c2, o2, t2)
<1>1. /\ Len(c) \in Nat /\ Len(c2) \in Nat /\ Len(c) <= Len(c2) /\ t <= t2
      /\ \A i \in 1..Len(c) : c[i] \in Int /\ c2[i] = c[i] /\ c[i] <= t
      /\ \A i \in 1..Len(c2) : c2[i] \in Int /\ (i > Len(c) => c2[i] > t)
      /\ 1..Len(c) \subseteq 1..Len(c2)
  <2>1. /\ Len(c) \in Nat /\ \A i \in 1..Len(c) : c[i] \in Int
        /\ Len(c2) \in Nat /\ \A i \in 1..Len(c2) : c2[i] \in Int
    BY ChainType
  <2> QED BY <2>1 DEF Extended, ChainOK
<1>2. WholeIn(o2) => FoundIn(o) \subseteq FoundIn(o2)
  BY DEF FoundIn, Grows
<1>3. R.pc = "started" => R.tip \in 2..t2
  BY <1>1 DEF RunOK
<1> SUFFICES ASSUME R \in Locals
             PROVE  /\ PlaceOK(R, c2, t2) /\ LargestOK(R, c2)
                    /\ RangeOK(R, c2) /\ PassedOK(R, c2, o2)
  BY <1>3 DEF RunOK
<1>4. /\ R.next \in Nat /\ R.tip \in Nat /\ R.start \in Nat /\ R.maxLedger \in Nat
      /\ R.batch \in Seq(Nat) /\ R.sink \in Sinks /\ ScanLimit \in Nat
  BY IndexerAssumption DEF Locals
<1>5. /\ PlaceOK(R, c, t) /\ LargestOK(R, c) /\ RangeOK(R, c) /\ PassedOK(R, c, o)
  BY DEF RunOK
<1>6. PlaceOK(R, c2, t2)
  BY <1>1, <1>4, <1>5 DEF PlaceOK
<1>7. LargestOK(R, c2)
  BY <1>1, <1>4, <1>5 DEF LargestOK
<1>8. RangeOK(R, c2)
  <2>1. R.next <= Len(c) + 1 /\ R.tip <= t
    BY <1>5 DEF PlaceOK
  <2>2. ~R.short /\ R.next # 0 => R.next >= 2 /\ c2[R.next - 1] >= R.start
    <3>1. ASSUME R.next >= 2 PROVE R.next - 1 \in 1..Len(c)
      BY <3>1, <2>1, <1>1, <1>4
    <3>2. ~R.short /\ R.next # 0 => R.next >= 2 /\ c[R.next - 1] >= R.start
      BY <1>5 DEF RangeOK
    <3> QED BY <3>1, <3>2, <1>1
  <2>3. ASSUME R.short, NEW e \in 1..Len(c2), e >= R.next
        PROVE  /\ c2[e] > R.tip \/ c2[e] >= R.start + ScanLimit
               /\ \A d \in 1..Len(c2) : d < R.next => c2[d] < c2[e]
    <3>3. \A d \in 1..Len(c2) : d < R.next => d \in 1..Len(c)
      BY <1>1, <1>4, <2>1
    <3>1. CASE e \in 1..Len(c)
      <4>1. /\ c[e] > R.tip \/ c[e] >= R.start + ScanLimit
            /\ \A d \in 1..Len(c) : d < R.next => c[d] < c[e]
        BY <3>1, <1>5, <2>3 DEF RangeOK
      <4> QED BY <3>1, <3>3, <4>1, <1>1
    <3>2. CASE e > Len(c)
      <4>1. c2[e] > t /\ c2[e] \in Int
        BY <3>2, <1>1
      <4>2. \A d \in 1..Len(c2) : d < R.next => c2[d] \in Int /\ c2[d] <= t
        BY <3>3, <1>1
      <4> QED BY <4>1, <4>2, <1>4, <2>1
    <3> QED BY <3>1, <3>2, <1>1
  <2> QED BY <2>2, <2>3 DEF RangeOK
<1>9. PassedOK(R, c2, o2)
  <2> SUFFICES ASSUME WholeIn(o2)
               PROVE  /\ R.seen \subseteq StoredIn(o2, R.sink)
                      /\ \A e \in 1..Len(c2) :
                           R.start <= c2[e] /\ e < Pos(R) => e \in FoundIn(o2)
    BY DEF PassedOK
  <2>1. WholeIn(o) /\ R.seen \subseteq StoredIn(o2, R.sink)
    BY <1>4, <1>5 DEF Grows, PassedOK
  <2>2. Pos(R) \in Int /\ Pos(R) <= Len(c) + 1
    BY <1>1, <1>4, <1>5 DEF PlaceOK, Pos
  <2>3. \A e \in 1..Len(c) : R.start <= c[e] /\ e < Pos(R) => e \in FoundIn(o)
    BY <2>1, <1>5 DEF PassedOK
  <2> HIDE DEF Pos
  <2>4. \A e \in 1..Len(c2) : e < Pos(R) => e \in 1..Len(c)
    BY <2>2, <1>1
  <2> QED BY <2>1, <2>3, <2>4, <1>1, <1>2
<1> QED BY <1>6, <1>7, <1>8, <1>9

-----------------------------------------------------------------------------
(* The steps.                                                              *)

\* Nothing is lost where nothing changes.
LEMMA NothingLost ==
  /\ \A o : Grows(o, o)
  /\ \A c : \A t \in Int : ChainOK(c, t) => Extended(c, t, c, t)
<1>1. ASSUME NEW c, NEW t \in Int, ChainOK(c, t)
      PROVE  Extended(c, t, c, t)
  <2>1. Len(c) \in Nat
    BY <1>1, ChainType
  <2> QED BY <2>1 DEF Extended
<1> QED BY <1>1 DEF Grows

\* The steps of one run leave the invariant of the others alone.
LEMMA OtherRuns ==
  ASSUME Inv, NEW r \in Runs, run' \in [Runs -> Values],
         \A q \in Runs \ {r} : run'[q] = run[q],
         UNCHANGED <<tip, chain>>, Grows(out, out'),
         RunOK(run'[r], chain, out', tip)
  PROVE  RunInv'
<1>1. ChainOK(chain, tip) /\ Extended(chain, tip, chain, tip) /\ tip \in Int
  BY NothingLost DEF Inv, NetworkInv
<1> SUFFICES ASSUME NEW q \in Runs PROVE RunOK(run'[q], chain, out', tip)
  BY DEF RunInv
<1>2. CASE q = r
  BY <1>2
<1>3. CASE q # r
  <2>1. run'[q] = run[q] /\ RunOK(run[q], chain, out, tip)
    BY <1>3 DEF Inv, RunInv
  <2>2. RunOK(run[q], chain, out', tip)
    BY <2>1, <1>1, RunKept
  <2> QED BY <2>1, <2>2
<1> QED BY <1>2, <1>3

\* A ledger closes.
LEMMA CloseKeepsInv ==
  ASSUME Inv, CloseLedger
  PROVE  Inv'
<1>1. PICK n \in 0..MaxPerLedger : chain' = chain \o [i \in 1..n |-> tip + 1]
  BY DEF CloseLedger
<1>2. /\ tip \in 2..MaxLedger /\ MaxLedger \in Nat /\ tip < MaxLedger /\ tip' = tip + 1
      /\ UNCHANGED <<out, halfLine, cursorFile, run, crashes>> /\ n \in Nat
      /\ ChainOK(chain, tip)
  BY IndexerAssumption DEF Inv, NetworkInv, CloseLedger
<1>3. Len(chain) \in Nat /\ \A i \in 1..Len(chain) : chain[i] \in 2..MaxLedger /\ chain[i] \in Int
  BY <1>2, ChainType
<1>4. chain \in Seq(2..MaxLedger)
  BY <1>2 DEF ChainOK
<1>5. /\ chain' \in Seq(2..MaxLedger) /\ Len(chain') = Len(chain) + n
      /\ \A i \in 1..Len(chain') :
           chain'[i] = IF i <= Len(chain) THEN chain[i] ELSE tip + 1
  <2> DEFINE new == [i \in 1..n |-> tip + 1]
  <2>1. new \in Seq(2..MaxLedger) /\ Len(new) = n
    BY <1>2
  <2>2. \A i \in 1..n : new[i] = tip + 1
    OBVIOUS
  <2> HIDE DEF new
  <2>3. chain' = chain \o new
    BY <1>1 DEF new
  <2> QED BY <2>1, <2>2, <2>3, <1>2, <1>3, <1>4
<1>6. \A i \in 1..Len(chain) : chain[i] <= tip
  BY <1>2 DEF ChainOK
<1>7. ChainOK(chain', tip') /\ Extended(chain, tip, chain', tip')
  <2>1. \A i, j \in 1..Len(chain) : i <= j => chain[i] <= chain[j]
    BY <1>2 DEF ChainOK
  <2>2. \A i, j \in 1..Len(chain') : i <= j => chain'[i] <= chain'[j]
    <3>1. \A i \in 1..Len(chain') :
            \/ i \in 1..Len(chain) /\ chain'[i] = chain[i] /\ chain[i] <= tip
            \/ i > Len(chain) /\ chain'[i] = tip + 1
      BY <1>2, <1>3, <1>5, <1>6
    <3> QED BY <2>1, <3>1, <1>2, <1>3
  <2>3. \A i \in 1..Len(chain') : chain'[i] <= tip'
    <3>1. \A i \in 1..Len(chain') :
            \/ i \in 1..Len(chain) /\ chain'[i] = chain[i] /\ chain[i] <= tip
            \/ chain'[i] = tip + 1
      BY <1>2, <1>3, <1>5, <1>6
    <3> QED BY <3>1, <1>2, <1>3
  <2>4. Extended(chain, tip, chain', tip')
    BY <1>2, <1>3, <1>5 DEF Extended
  <2> QED BY <2>2, <2>3, <2>4, <1>5 DEF ChainOK
<1>8. NetworkInv'
  BY <1>2, <1>7 DEF Inv, NetworkInv
<1>9. OutputInv'
  <2>2. Ids \cup {Bad} \subseteq Ids' \cup {Bad}
    BY <1>3, <1>5, <1>2 DEF Ids
  <2>3. out \in [Sinks -> Seq(Ids \cup {Bad})]
    BY DEF Inv, OutputInv
  <2>4. \A s \in Sinks : out[s] \in Seq(Ids' \cup {Bad})
    BY <2>2, <2>3, SeqOfMore
  <2> QED BY <2>3, <2>4, <1>2 DEF Inv, OutputInv
<1>10. RunInv'
  <2> SUFFICES ASSUME NEW q \in Runs PROVE RunOK(run[q], chain', out, tip')
    BY <1>2 DEF Inv, RunInv
  <2>1. RunOK(run[q], chain, out, tip) /\ tip \in Int /\ tip' \in Int
    BY <1>2 DEF Inv, RunInv
  <2> QED BY <2>1, <1>2, <1>7, NothingLost, RunKept
<1> QED BY <1>8, <1>9, <1>10 DEF Inv

\* What the invariant says of a run past its start.
LEMMA Running ==
  ASSUME Inv, NEW r \in Runs, run[r].pc \in {"fetch", "page", "save"}
  PROVE  /\ run[r] \in Locals
         /\ PlaceOK(run[r], chain, tip) /\ LargestOK(run[r], chain)
         /\ RangeOK(run[r], chain) /\ PassedOK(run[r], chain, out)
<1>1. run[r] \in Values
  BY DEF Inv, RunInv
<1>2. run[r] \in Locals
  BY <1>1 DEF Values, Idle
<1> QED BY <1>2 DEF Inv, RunInv, RunOK

\* The parts of a set of records, and of a chain.
LEMMA Parts ==
  /\ \A R \in Locals :
       /\ R.pc \in {"fetch", "page", "save"} /\ R.tip \in Nat /\ R.start \in Nat
       /\ R.sink \in Sinks /\ R.maxLedger \in Nat /\ R.next \in Nat
       /\ R.batch \in Seq(Nat) /\ Len(R.batch) \in Nat
       /\ R.short \in BOOLEAN /\ R.seen \in SUBSET Nat
  /\ Locals \subseteq Values
BY DEF Locals, Values

\* An idle run has no locals to be right about.
LEMMA IdleIsOK ==
  /\ Idle \in Values
  /\ \A c, o, t : RunOK(Idle, c, o, t)
BY DEF Idle, Values, RunOK, Locals

\* What an output holds are events of the chain.
LEMMA StoredAreEvents ==
  ASSUME Inv, NEW s \in Sinks
  PROVE  /\ StoredIn(out, s) \subseteq Ids /\ Stored(s) = StoredIn(out, s)
         /\ Ids \subseteq Nat /\ Ids = 1..Len(chain) /\ Len(chain) \in Nat
<1>1. Len(chain) \in Nat
  BY ChainType DEF Inv, NetworkInv
<1>2. out[s] \in Seq(Ids \cup {Bad})
  BY DEF Inv, OutputInv
<1>3. ASSUME NEW S, NEW q \in Seq(S) PROVE \A i \in DOMAIN q : q[i] \in S
  OBVIOUS
<1>4. \A i \in DOMAIN out[s] : out[s][i] \in Ids \cup {Bad}
  BY <1>2, <1>3
<1> QED BY <1>1, <1>4 DEF Stored, StoredIn, ToSet, Ids

\* A run reads the tip.
LEMMA StartKeepsInv ==
  ASSUME Inv, NEW r \in Runs, Start(r)
  PROVE  Inv'
<1> DEFINE v == [pc |-> "started", tip |-> tip]
<1>1. /\ run' = [run EXCEPT ![r] = v]
      /\ UNCHANGED <<tip, chain, out, halfLine, cursorFile, crashes>>
  BY DEF Start
<1>2. tip \in Nat /\ tip \in 2..tip
  BY IndexerAssumption DEF Inv, NetworkInv
<1>3. v \in Values /\ RunOK(v, chain, out, tip)
  BY <1>2 DEF Values, RunOK, Locals
<1> HIDE DEF v
<1>4. run \in [Runs -> Values]
  BY DEF Inv, RunInv
<1>5. run' \in [Runs -> Values] /\ run'[r] = v /\ \A q \in Runs \ {r} : run'[q] = run[q]
  BY <1>1, <1>3, <1>4
<1>6. Grows(out, out')
  BY <1>1, NothingLost
<1>7. RunInv'
  BY <1>1, <1>3, <1>5, <1>6, OtherRuns
<1> QED BY <1>1, <1>7 DEF Inv, NetworkInv, OutputInv, Ids

\* The first ledger a run asks for.
LEMMA StartIsFloored ==
  ASSUME NEW t \in Nat, NEW last \in Nat
  PROVE  StartLedger(t, last) \in Nat /\ StartLedger(t, last) >= 2
<1>1. COLD_START_WINDOW \in Nat
  BY IndexerAssumption
<1> DEFINE back == t - COLD_START_WINDOW
<1>2. Max({2, back}) = IF 2 >= back THEN 2 ELSE back
  <2>1. back \in Int
    BY <1>1
  <2> HIDE DEF back
  <2> QED BY <2>1, OfTwo
<1> QED BY <1>1, <1>2 DEF StartLedger

\* A run reads the cursor and opens its sink.
LEMMA OpenKeepsInv ==
  ASSUME Inv, NEW r \in Runs, Open(r)
  PROVE  Inv'
<1> DEFINE start == StartLedger(run[r].tip, cursorFile)
           v(s) == [pc |-> "fetch", tip |-> run[r].tip, start |-> start,
                    sink |-> s, maxLedger |-> start - 1, next |-> 0,
                    batch |-> << >>, short |-> FALSE, seen |-> Known(s)]
<1>1. /\ run[r].pc = "started"
      /\ UNCHANGED <<tip, chain, out, halfLine, cursorFile, crashes>>
  BY DEF Open
<1>2. PICK s \in Sinks :
        run' = [run EXCEPT ![r] = IF start > run[r].tip THEN Idle ELSE v(s)]
  BY DEF Open
<1>3. run[r].tip \in 2..tip /\ run[r].tip \in Nat /\ tip \in Nat /\ cursorFile \in Nat
  BY <1>1, IndexerAssumption DEF Inv, RunInv, RunOK, NetworkInv
<1>4. start \in Nat /\ start >= 2
  BY <1>3, StartIsFloored
<1> HIDE DEF start
<1>5. /\ Known(s) \subseteq StoredIn(out, s) /\ Known(s) \subseteq Ids
      /\ Ids \subseteq Nat /\ Ids = 1..Len(chain) /\ Len(chain) \in Nat
  BY StoredAreEvents DEF Known
<1>6. ASSUME start <= run[r].tip PROVE v(s) \in Locals
  BY <1>3, <1>4, <1>5 DEF Locals
<1>7. ASSUME start <= run[r].tip PROVE RunOK(v(s), chain, out, tip)
  <2>1. PlaceOK(v(s), chain, tip)
    BY <1>3, <1>4, <1>5, <1>7 DEF PlaceOK
  <2>2. LargestOK(v(s), chain)
    BY <1>4 DEF LargestOK
  <2>3. RangeOK(v(s), chain)
    BY DEF RangeOK
  <2>4. PassedOK(v(s), chain, out)
    BY <1>5 DEF PassedOK, Pos
  <2> QED BY <2>1, <2>2, <2>3, <2>4 DEF RunOK
<1> HIDE DEF v
<1>8. run \in [Runs -> Values]
  BY DEF Inv, RunInv
<1>9. /\ run' \in [Runs -> Values] /\ RunOK(run'[r], chain, out, tip)
      /\ \A q \in Runs \ {r} : run'[q] = run[q]
  <2>1. CASE start > run[r].tip
    BY <2>1, <1>2, <1>8, IdleIsOK
  <2>2. CASE start <= run[r].tip
    BY <2>2, <1>2, <1>3, <1>4, <1>6, <1>7, <1>8, Parts
  <2> QED BY <2>1, <2>2, <1>3, <1>4
<1>10. Grows(out, out')
  BY <1>1, NothingLost
<1>11. RunInv'
  BY <1>1, <1>9, <1>10, OtherRuns
<1> QED BY <1>1, <1>11 DEF Inv, NetworkInv, OutputInv, Ids

\* Where a page starts, and how far the node looks for it.
LEMMA PageInRange ==
  ASSUME Inv, NEW r \in Runs, run[r].pc = "fetch",
         NEW from \in IF run[r].next = 0 THEN {FirstFrom(run[r].start)}
                      ELSE {run[r].next, run[r].next - 1},
         NEW ledger,
         ledger = IF run[r].next = 0 THEN run[r].start ELSE chain[run[r].next - 1]
  PROVE  /\ ledger \in Int /\ run[r].start <= ledger
         /\ from \in 1..Len(chain) + 1 /\ from <= FirstFrom(ledger + ScanLimit)
         /\ run[r].next <= FirstFrom(ledger + ScanLimit)
         /\ run[r].next = 0 \/ run[r].next <= from + 1
         /\ \A e \in Ids : from <= e => run[r].start <= chain[e]
         /\ run[r].next = 0 => \A e \in Ids : e < from => chain[e] < run[r].start
         /\ run[r].next # 0 => from <= run[r].next
<1> DEFINE R == run[r]
           f == FirstFrom(ledger + ScanLimit)
<1>1. /\ R \in Locals /\ PlaceOK(R, chain, tip) /\ RangeOK(R, chain)
      /\ R.next \in Nat /\ R.start \in Nat /\ R.next <= Len(chain) + 1 /\ ~R.short
  <2>1. R \in Locals /\ PlaceOK(R, chain, tip) /\ RangeOK(R, chain)
    BY Running
  <2> QED BY <2>1, Parts DEF PlaceOK
<1>2. ChainOK(chain, tip) /\ ScanLimit \in Nat \ {0}
  BY IndexerAssumption DEF Inv, NetworkInv
<1>3. Len(chain) \in Nat /\ Ids = 1..Len(chain) /\ \A e \in Ids : chain[e] \in Int
  BY <1>2, ChainType DEF Ids
<1>4. CASE R.next = 0
  <2>1. ledger = R.start /\ from = FirstFrom(ledger) /\ ledger \in Int
    BY <1>1, <1>4
  <2>2. /\ from \in 1..Len(chain) + 1
        /\ \A e \in Ids : e < from <=> chain[e] < ledger
    <3>1. /\ FirstFrom(ledger) \in 1..Len(chain) + 1
          /\ \A e \in Ids : e < FirstFrom(ledger) <=> chain[e] < ledger
      BY <1>2, <2>1, FirstFromSplits
    <3> QED BY <2>1, <3>1
  <2>3. /\ f \in 1..Len(chain) + 1
        /\ \A e \in Ids : e < f <=> chain[e] < ledger + ScanLimit
    <3>1. ledger + ScanLimit \in Int
      BY <1>1, <1>2, <2>1
    <3> QED BY <3>1, <1>2, FirstFromSplits
  <2> HIDE DEF f, R
  <2>4. from <= f
    <3> SUFFICES ASSUME f < from PROVE FALSE
      BY <2>2, <2>3
    <3>1. f \in Ids
      BY <2>2, <2>3, <1>3
    <3> QED BY <3>1, <1>1, <1>2, <1>3, <2>1, <2>2, <2>3
  <2>5. \A e \in Ids : from <= e => R.start <= chain[e]
    BY <2>1, <2>2, <1>1, <1>3
  <2>6. R.start <= ledger /\ R.next <= f /\ R.next = 0
    BY <2>1, <2>3, <1>1, <1>4
  <2>7. \A e \in Ids : e < from => chain[e] < R.start
    BY <2>1, <2>2
  <2> QED BY <2>1, <2>2, <2>4, <2>5, <2>6, <2>7 DEF R, f
<1>5. CASE R.next # 0
  <2>1. ledger = chain[R.next - 1] /\ from \in {R.next, R.next - 1}
    BY <1>5
  <2>2. R.next >= 2 /\ chain[R.next - 1] >= R.start
    BY <1>5, <1>1 DEF RangeOK
  <2>3. R.next - 1 \in Ids /\ ledger \in Int
    BY <2>1, <2>2, <1>1, <1>3
  <2>4. /\ f \in 1..Len(chain) + 1
        /\ \A e \in Ids : e < f <=> chain[e] < ledger + ScanLimit
    <3>1. ledger + ScanLimit \in Int
      BY <2>3, <1>2
    <3> QED BY <3>1, <1>2, FirstFromSplits
  <2> HIDE DEF f, R
  <2>5. R.next - 1 < f
    BY <2>1, <2>3, <2>4, <1>2
  <2>6. from \in 1..Len(chain) + 1 /\ from <= f /\ R.next <= f
    BY <2>1, <2>2, <2>4, <2>5, <1>1, <1>3
  <2>7. ASSUME NEW e \in Ids, from <= e PROVE R.start <= chain[e]
    <3>1. R.next - 1 <= e
      BY <2>1, <2>7, <1>1, <1>3
    <3>2. chain[R.next - 1] <= chain[e]
      BY <3>1, <2>3, <1>2, <1>3 DEF ChainOK
    <3> QED BY <3>2, <2>2, <2>3, <1>1, <1>3
  <2>8. R.start <= ledger /\ R.next <= from + 1 /\ from <= R.next /\ R.next # 0
    BY <2>1, <2>2, <1>1
  <2> QED BY <2>3, <2>6, <2>7, <2>8 DEF R, f
<1> QED BY <1>4, <1>5

\* A page comes.
LEMMA FetchKeepsInv ==
  ASSUME Inv, NEW r \in Runs, Fetch(r)
  PROVE  Inv'
<1> DEFINE R == run[r]
<1>1. R.pc = "fetch" /\ UNCHANGED <<tip, chain, out, halfLine, cursorFile, crashes>>
  BY DEF Fetch
<1>2. PICK from \in IF R.next = 0 THEN {FirstFrom(R.start)}
                    ELSE {R.next, R.next - 1} :
        LET ledger == IF R.next = 0 THEN R.start ELSE chain[R.next - 1]
            page == Served(from, ledger)
        IN  run' = [run EXCEPT
                      ![r].pc = "page", ![r].batch = page,
                      ![r].next = IF page = << >> THEN from ELSE Last(page) + 1,
                      ![r].short = LastPage(page)]
  BY DEF Fetch
<1> DEFINE ledger == IF R.next = 0 THEN R.start ELSE chain[R.next - 1]
           page == Served(from, ledger)
           f == FirstFrom(ledger + ScanLimit)
           v == [R EXCEPT !.pc = "page", !.batch = page,
                          !.next = from + Len(page), !.short = LastPage(page)]
<1>3. /\ R \in Locals /\ PlaceOK(R, chain, tip) /\ LargestOK(R, chain)
      /\ RangeOK(R, chain) /\ PassedOK(R, chain, out)
      /\ R.next \in Nat /\ R.start \in Nat /\ R.maxLedger \in Nat /\ R.tip \in Nat
      /\ R.batch = << >>
  <2>1. /\ R \in Locals /\ PlaceOK(R, chain, tip) /\ LargestOK(R, chain)
        /\ RangeOK(R, chain) /\ PassedOK(R, chain, out)
    BY <1>1, Running
  <2> QED BY <2>1, <1>1, Parts DEF PlaceOK
<1>4. ChainOK(chain, tip) /\ ScanLimit \in Nat /\ PAGE_LIMIT \in Nat \ {0}
  BY IndexerAssumption DEF Inv, NetworkInv
<1>5. Len(chain) \in Nat /\ Ids = 1..Len(chain) /\ \A e \in Ids : chain[e] \in Int
  BY <1>4, ChainType DEF Ids
<1>6. /\ ledger \in Int /\ R.start <= ledger
      /\ from \in 1..Len(chain) + 1 /\ from <= f /\ R.next <= f
      /\ R.next = 0 \/ R.next <= from + 1
      /\ \A e \in Ids : from <= e => R.start <= chain[e]
      /\ R.next = 0 => \A e \in Ids : e < from => chain[e] < R.start
      /\ R.next # 0 => from <= R.next
  BY <1>1, PageInRange
<1> HIDE DEF ledger
<1>7. /\ page \in Seq(Ids) /\ from + Len(page) <= f /\ Len(page) <= PAGE_LIMIT
      /\ Len(page) < PAGE_LIMIT => from + Len(page) = f
      /\ \A i \in 1..Len(page) : page[i] = from + i - 1
      /\ page # << >> => Last(page) + 1 = from + Len(page)
      /\ page \in Seq(Nat) /\ Len(page) \in Nat
  <2>1. /\ page \in Seq(Ids) /\ from + Len(page) <= f /\ Len(page) <= PAGE_LIMIT
        /\ Len(page) < PAGE_LIMIT => from + Len(page) = f
        /\ \A i \in 1..Len(page) : page[i] = from + i - 1
        /\ page # << >> => Last(page) + 1 = from + Len(page)
    BY <1>4, <1>6, ServedInOrder
  <2>2. Ids \subseteq Nat
    BY <1>5
  <2> HIDE DEF page
  <2>3. page \in Seq(Nat) /\ Len(page) \in Nat
    BY <2>1, <2>2, SeqOfMore
  <2> QED BY <2>1, <2>3
<1>8. /\ f \in 1..Len(chain) + 1
      /\ \A e \in Ids : e < f <=> chain[e] < ledger + ScanLimit
  <2>1. ledger + ScanLimit \in Int
    BY <1>4, <1>6
  <2> QED BY <2>1, <1>4, FirstFromSplits
<1> HIDE DEF page, f, R
<1>9. run' = [run EXCEPT ![r] = v]
  <2>1. (IF page = << >> THEN from ELSE Last(page) + 1) = from + Len(page)
    <3>1. page = << >> => Len(page) = 0
      OBVIOUS
    <3> QED BY <3>1, <1>6, <1>7
  <2> QED BY <2>1, <1>2, Zenon DEF page, ledger, R
<1>10. /\ v \in Locals /\ v.pc = "page" /\ v.tip = R.tip /\ v.start = R.start
       /\ v.sink = R.sink /\ v.maxLedger = R.maxLedger /\ v.seen = R.seen
       /\ v.batch = page /\ v.next = from + Len(page)
       /\ v.short <=> Len(page) < PAGE_LIMIT
  <2>1. from + Len(page) \in Nat /\ LastPage(page) \in BOOLEAN
    BY <1>6, <1>7 DEF LastPage
  <2>2. LastPage(page) <=> Len(page) < PAGE_LIMIT
    BY DEF LastPage
  <2> QED BY <2>1, <2>2, <1>3, <1>7 DEF Locals
<1> HIDE DEF v
<1>11. Pos(v) = from
  BY <1>10, <1>6, <1>7 DEF Pos
<1>12. PlaceOK(v, chain, tip)
  <2>1. v.next <= Len(chain) + 1 /\ v.next # 0 /\ Pos(v) > 0
    BY <1>5, <1>6, <1>7, <1>8, <1>10, <1>11
  <2>2. /\ 2 <= v.start /\ v.start <= v.tip /\ v.tip <= tip
        /\ v.seen \subseteq 1..Len(chain)
    BY <1>3, <1>10 DEF PlaceOK
  <2>3. \A i \in 1..Len(v.batch) : v.batch[i] = Pos(v) + i - 1
    BY <1>7, <1>10, <1>11
  <2> QED BY <2>1, <2>2, <2>3, <1>10 DEF PlaceOK
<1>13. R.next <= v.next
  BY <1>3, <1>4, <1>5, <1>6, <1>7, <1>8, <1>10
<1>14. LargestOK(v, chain)
  <2>1. v.next \in Nat
    BY <1>6, <1>7, <1>10
  <2> QED BY <2>1, <1>3, <1>5, <1>10, <1>13 DEF LargestOK
<1>15. RangeOK(v, chain)
  <2>1. ASSUME ~v.short PROVE v.next >= 2 /\ chain[v.next - 1] >= v.start
    <3>1. Len(page) >= 1
      BY <2>1, <1>4, <1>7, <1>10
    <3>2. v.next - 1 \in Ids /\ from <= v.next - 1
      BY <3>1, <1>5, <1>6, <1>7, <1>8, <1>10
    <3>3. chain[v.next - 1] \in Int /\ R.start <= chain[v.next - 1]
      BY <3>2, <1>5, <1>6
    <3> QED BY <3>1, <3>3, <1>3, <1>6, <1>7, <1>10
  <2>2. ASSUME v.short, NEW e \in Ids, e >= v.next
        PROVE  /\ chain[e] >= v.start + ScanLimit
               /\ \A d \in Ids : d < v.next => chain[d] < chain[e]
    <3>1. v.next = f
      BY <2>2, <1>4, <1>7, <1>10
    <3>2. chain[e] >= ledger + ScanLimit
      BY <3>1, <2>2, <1>4, <1>5, <1>6, <1>8
    <3>3. \A d \in Ids : d < v.next => chain[d] < ledger + ScanLimit
      BY <3>1, <1>8
    <3>4. chain[e] \in Int
      BY <1>5
    <3>5. chain[e] >= v.start + ScanLimit
      BY <3>2, <3>4, <1>3, <1>4, <1>6, <1>10
    <3>6. \A d \in Ids : d < v.next => chain[d] < chain[e]
      BY <3>2, <3>3, <3>4, <1>4, <1>5, <1>6
    <3> QED BY <3>5, <3>6
  <2> QED BY <2>1, <2>2, <1>5 DEF RangeOK
<1>16. PassedOK(v, chain, out)
  <2> SUFFICES ASSUME WholeIn(out)
               PROVE  /\ R.seen \subseteq StoredIn(out, R.sink)
                      /\ \A e \in Ids : R.start <= chain[e] /\ e < from => e \in FoundIn(out)
    BY <1>5, <1>10, <1>11 DEF PassedOK
  <2>1. /\ R.seen \subseteq StoredIn(out, R.sink)
        /\ \A e \in Ids : R.start <= chain[e] /\ e < Pos(R) => e \in FoundIn(out)
    BY <1>3, <1>5 DEF PassedOK
  <2>2. ASSUME NEW e \in Ids, R.start <= chain[e], e < from PROVE e < Pos(R)
    <3>1. R.next # 0 /\ from <= R.next
      BY <2>2, <1>3, <1>5, <1>6
    <3>2. Pos(R) = R.next
      BY <1>3 DEF Pos
    <3> QED BY <3>1, <3>2, <2>2, <1>3, <1>5, <1>6
  <2> QED BY <2>1, <2>2
<1>17. RunOK(v, chain, out, tip)
  BY <1>10, <1>12, <1>14, <1>15, <1>16 DEF RunOK
<1>18. run \in [Runs -> Values]
  BY DEF Inv, RunInv
<1>19. /\ run' \in [Runs -> Values] /\ run'[r] = v
       /\ \A q \in Runs \ {r} : run'[q] = run[q]
  BY <1>9, <1>10, <1>18, Parts
<1>20. Grows(out, out')
  BY <1>1, NothingLost
<1>21. RunInv'
  BY <1>1, <1>17, <1>19, <1>20, OtherRuns
<1> QED BY <1>1, <1>21 DEF Inv, NetworkInv, OutputInv, Ids

\* What appending and taking the head do to a sequence.
LEMMA EndsOfSeq ==
  ASSUME NEW S, NEW q \in Seq(S)
  PROVE  /\ Len(q) \in Nat
         /\ \A e : /\ ToSet(Append(q, e)) = ToSet(q) \cup {e}
                   /\ Append(q, e) # << >>
                   /\ Append(q, e)[Len(Append(q, e))] = e
         /\ \A e \in S : Append(q, e) \in Seq(S)
         /\ q # << >> =>
              /\ Len(q) > 0 /\ Head(q) = q[1] /\ q[Len(q)] \in ToSet(q)
              /\ Tail(q) \in Seq(S) /\ Len(Tail(q)) = Len(q) - 1
              /\ \A i \in 1..Len(Tail(q)) : Tail(q)[i] = q[i + 1]
<1>1. ASSUME NEW e
      PROVE  /\ ToSet(Append(q, e)) = ToSet(q) \cup {e}
             /\ Append(q, e) # << >>
             /\ Append(q, e)[Len(Append(q, e))] = e
  <2>1. /\ DOMAIN q = 1..Len(q) /\ Len(q) \in Nat
        /\ Len(Append(q, e)) = Len(q) + 1
        /\ DOMAIN Append(q, e) = 1..Len(q) + 1
        /\ \A i \in 1..Len(q) : Append(q, e)[i] = q[i]
        /\ Append(q, e)[Len(q) + 1] = e
    OBVIOUS
  <2> DEFINE a == Append(q, e)
  <2> HIDE DEF a
  <2>2. ToSet(a) \subseteq ToSet(q) \cup {e}
    BY <2>1 DEF ToSet, a
  <2>3. ToSet(q) \subseteq ToSet(a)
    BY <2>1 DEF ToSet, a
  <2>4. e \in ToSet(a)
    BY <2>1 DEF ToSet, a
  <2> QED BY <2>1, <2>2, <2>3, <2>4 DEF a
<1>2. ASSUME q # << >>
      PROVE  /\ Len(q) > 0 /\ Head(q) = q[1] /\ q[Len(q)] \in ToSet(q)
             /\ Tail(q) \in Seq(S) /\ Len(Tail(q)) = Len(q) - 1
             /\ \A i \in 1..Len(Tail(q)) : Tail(q)[i] = q[i + 1]
  <2>1. Len(q) > 0 /\ DOMAIN q = 1..Len(q) /\ Len(q) \in Nat
    BY <1>2
  <2>2. q[Len(q)] \in ToSet(q)
    BY <2>1 DEF ToSet
  <2> QED BY <1>2, <2>1, <2>2
<1> QED BY <1>1, <1>2

\* Where in an output an event is.
Places(q, e) == {i \in DOMAIN q : q[i] = e}

\* A file whose last line is glued to another: no event gains a line by it.
LEMMA GluedIsBroken ==
  ASSUME NEW S, NEW q \in Seq(S), Bad \in S, q # << >>
  PROVE  /\ Glued(q) \in Seq(S) /\ Glued(q) # << >> /\ Bad \in ToSet(Glued(q))
         /\ \A e : e # Bad => Places(Glued(q), e) \subseteq Places(q, e)
<1>1. /\ DOMAIN q = 1..Len(q) /\ Len(q) \in Nat \ {0}
      /\ Glued(q) \in Seq(S) /\ DOMAIN Glued(q) = 1..Len(q) /\ Len(Glued(q)) = Len(q)
      /\ Glued(q)[Len(q)] = Bad
      /\ \A i \in 1..Len(q) : Glued(q)[i] = IF i = Len(q) THEN Bad ELSE q[i]
  BY DEF Glued
<1>2. Glued(q) # << >>
  BY <1>1
<1>3. Bad \in ToSet(Glued(q))
  <2> DEFINE g == Glued(q)
  <2> HIDE DEF g
  <2>1. DOMAIN g = 1..Len(q) /\ g[Len(q)] = Bad
    BY <1>1 DEF g
  <2>2. Len(q) \in 1..Len(q)
    OBVIOUS
  <2>3. Bad \in ToSet(g)
    BY <2>1, <2>2 DEF ToSet
  <2> QED BY <2>3 DEF g
<1>4. \A e : e # Bad => Places(Glued(q), e) \subseteq Places(q, e)
  BY <1>1 DEF Places
<1> QED BY <1>1, <1>2, <1>3, <1>4

\* The outputs with a line, or what a line was glued to, in one of them.
LEMMA OutputWritten ==
  ASSUME Inv, NEW s \in Sinks, NEW q \in Seq(Ids \cup {Bad}),
         out' = [out EXCEPT ![s] = q],
         Bad \in ToSet(q) \/ ToSet(out[s]) \subseteq ToSet(q)
  PROVE  /\ Grows(out, out') /\ out' \in [Sinks -> Seq(Ids \cup {Bad})]
         /\ out'[s] = q /\ \A z \in Sinks \ {s} : out'[z] = out[z]
<1>1. out \in [Sinks -> Seq(Ids \cup {Bad})]
  BY DEF Inv, OutputInv
<1>2. /\ out' \in [Sinks -> Seq(Ids \cup {Bad})]
      /\ out'[s] = q /\ \A z \in Sinks \ {s} : out'[z] = out[z]
  BY <1>1
<1>3. Grows(out, out')
  <2> SUFFICES ASSUME WholeIn(out')
               PROVE  \A z \in Sinks : /\ Bad \notin ToSet(out[z])
                                      /\ StoredIn(out, z) \subseteq StoredIn(out', z)
    BY DEF Grows, WholeIn
  <2>1. ToSet(out[s]) \subseteq ToSet(out'[s]) /\ Bad \notin ToSet(out'[s])
    BY <1>2 DEF WholeIn
  <2>2. \A z \in Sinks : ToSet(out[z]) \subseteq ToSet(out'[z]) /\ Bad \notin ToSet(out'[z])
    BY <2>1, <1>2 DEF WholeIn
  <2> QED BY <2>2 DEF StoredIn
<1> QED BY <1>2, <1>3

\* A line or a row is written: as long as the file is whole nothing goes, and
\* what is written can be read back.
LEMMA WritingAdds ==
  ASSUME Inv, NEW s \in Sinks, NEW e \in Ids,
         out' = [out EXCEPT ![s] = Written(s, e)],
         halfLine' = (halfLine /\ ~(s = "file"))
  PROVE  /\ Grows(out, out')
         /\ out' \in [Sinks -> Seq(Ids \cup {Bad})]
         /\ halfLine' \in BOOLEAN
         /\ halfLine' => "file" \in Sinks /\ out'["file"] # << >>
         /\ WholeIn(out') => e \in StoredIn(out', s)
         /\ \/ out' = out
            \/ /\ out' = [out EXCEPT ![s] = Append(out[s], e)]
               /\ s = "table" => e \notin ToSet(out[s])
            \/ /\ out' = [out EXCEPT ![s] = Glued(out[s])]
               /\ out[s] # << >>
<1>1. /\ out \in [Sinks -> Seq(Ids \cup {Bad})] /\ halfLine \in BOOLEAN
      /\ halfLine => "file" \in Sinks /\ out["file"] # << >>
      /\ Sinks \subseteq {"file", "table"}
  BY IndexerAssumption DEF Inv, OutputInv
<1>2. /\ out[s] \in Seq(Ids \cup {Bad}) /\ Ids \subseteq Nat /\ e # Bad
  BY <1>1, StoredAreEvents, IndexerAssumption
<1>3. \/ /\ Written(s, e) = out[s] /\ e \in ToSet(out[s])
      \/ /\ Written(s, e) = Append(out[s], e)
         /\ s = "table" => e \notin ToSet(out[s])
      \/ /\ Written(s, e) = Glued(out[s]) /\ out[s] # << >>
  BY <1>1, <1>2 DEF Written, Stored
<1>4. /\ Written(s, e) \in Seq(Ids \cup {Bad})
      /\ \/ Bad \in ToSet(Written(s, e))
         \/ ToSet(out[s]) \cup {e} \subseteq ToSet(Written(s, e))
  <2>1. /\ ToSet(Append(out[s], e)) = ToSet(out[s]) \cup {e}
        /\ Append(out[s], e) \in Seq(Ids \cup {Bad})
    BY <1>2, EndsOfSeq
  <2>2. out[s] # << >> =>
          /\ Glued(out[s]) \in Seq(Ids \cup {Bad}) /\ Bad \in ToSet(Glued(out[s]))
    BY <1>2, GluedIsBroken
  <2> QED BY <2>1, <2>2, <1>2, <1>3
<1>5. /\ Grows(out, out') /\ out' \in [Sinks -> Seq(Ids \cup {Bad})]
      /\ out'[s] = Written(s, e) /\ \A z \in Sinks \ {s} : out'[z] = out[z]
  BY <1>4, OutputWritten
<1>6. WholeIn(out') => e \in StoredIn(out', s)
  BY <1>2, <1>4, <1>5 DEF WholeIn, StoredIn
<1>7. halfLine' => "file" \in Sinks /\ out'["file"] # << >>
  BY <1>1, <1>5
<1>8. [out EXCEPT ![s] = out[s]] = out
  BY <1>1
<1> QED BY <1>1, <1>3, <1>5, <1>6, <1>7, <1>8

\* The event a run is about to look at.
LEMMA HeadOfPage ==
  ASSUME Inv, NEW r \in Runs, run[r].pc = "page", run[r].batch # << >>
  PROVE  /\ Head(run[r].batch) = Pos(run[r])
         /\ Pos(run[r]) \in Ids /\ Pos(run[r]) < run[r].next
<1> DEFINE R == run[r]
<1>1. R \in Locals /\ PlaceOK(R, chain, tip)
  BY Running
<1>2. /\ R.next \in Nat /\ R.batch \in Seq(Nat) /\ R.next <= Len(chain) + 1
      /\ Pos(R) > 0 /\ \A i \in 1..Len(R.batch) : R.batch[i] = Pos(R) + i - 1
  BY <1>1, Parts DEF PlaceOK
<1> DEFINE b == R.batch
           n == R.next
<1>3. b \in Seq(Nat) /\ n \in Nat /\ b # << >>
  BY <1>2
<1>4. Pos(R) = n - Len(b)
  BY DEF Pos
<1>5. Len(chain) \in Nat
  BY ChainType DEF Inv, NetworkInv
<1> HIDE DEF R, b, n
<1>6. Len(b) \in Nat /\ Len(b) > 0 /\ Head(b) = b[1]
  BY <1>3, EndsOfSeq
<1>7. Pos(R) \in Ids /\ Pos(R) < n
  BY <1>2, <1>3, <1>4, <1>5, <1>6 DEF Ids, n
<1>8. b[1] = Pos(R)
  BY <1>2, <1>6, <1>7 DEF b, Ids
<1> QED BY <1>6, <1>7, <1>8 DEF R, b, n

\* What is written, or known, when an event of a page has been dealt with.
LEMMA IngestWrites ==
  ASSUME Inv, NEW r \in Runs, Ingest(r)
  PROVE  /\ Grows(out, out') /\ OutputInv'
         /\ WholeIn(out') => Pos(run[r]) \in StoredIn(out', run[r].sink)
         /\ \/ out' = out
            \/ /\ out' = [out EXCEPT ![run[r].sink] = Append(@, Pos(run[r]))]
               /\ Pos(run[r]) \notin run[r].seen
               /\ run[r].sink = "table" => Pos(run[r]) \notin ToSet(out["table"])
            \/ /\ out' = [out EXCEPT ![run[r].sink] = Glued(@)]
               /\ out[run[r].sink] # << >>
<1> DEFINE R == run[r]
           e == Head(R.batch)
           s == R.sink
           new == e \notin R.seen
<1>1. /\ R.pc = "page" /\ R.batch # << >>
      /\ out' = IF new THEN [out EXCEPT ![s] = Written(s, e)] ELSE out
      /\ halfLine' = (halfLine /\ ~(new /\ s = "file"))
      /\ UNCHANGED <<tip, chain, cursorFile, crashes>>
  BY DEF Ingest
<1>2. R \in Locals /\ PassedOK(R, chain, out) /\ s \in Sinks
  BY <1>1, Running, Parts
<1>3. e = Pos(R) /\ e \in Ids
  BY <1>1, HeadOfPage
<1> HIDE DEF R, e, s
<1>4. halfLine \in BOOLEAN
  BY DEF Inv, OutputInv
<1>5. CASE new
  <2>1. out' = [out EXCEPT ![s] = Written(s, e)] /\ halfLine' = (halfLine /\ ~(s = "file"))
    BY <1>1, <1>5
  <2>2. /\ Grows(out, out')
        /\ out' \in [Sinks -> Seq(Ids \cup {Bad})]
        /\ halfLine' \in BOOLEAN
        /\ halfLine' => "file" \in Sinks /\ out'["file"] # << >>
        /\ WholeIn(out') => e \in StoredIn(out', s)
        /\ \/ out' = out
           \/ /\ out' = [out EXCEPT ![s] = Append(out[s], e)]
              /\ s = "table" => e \notin ToSet(out[s])
           \/ /\ out' = [out EXCEPT ![s] = Glued(out[s])]
              /\ out[s] # << >>
    BY <2>1, <1>2, <1>3, WritingAdds
  <2>3. OutputInv'
    BY <2>2, <1>1 DEF OutputInv, Ids
  <2>4. \/ out' = out
        \/ /\ out' = [out EXCEPT ![s] = Append(@, e)] /\ e \notin R.seen
           /\ s = "table" => e \notin ToSet(out["table"])
        \/ out' = [out EXCEPT ![s] = Glued(@)] /\ out[s] # << >>
    BY <2>2, <1>5
  <2> QED BY <2>2, <2>3, <2>4, <1>3 DEF R, s
<1>6. CASE ~new
  <2>1. out' = out /\ halfLine' = halfLine
    BY <1>1, <1>4, <1>6
  <2>2. Grows(out, out') /\ OutputInv'
    BY <2>1, <1>1, NothingLost DEF Inv, OutputInv, Ids
  <2>3. ASSUME WholeIn(out') PROVE e \in StoredIn(out', s)
    BY <2>1, <2>3, <1>2, <1>6 DEF PassedOK, s
  <2> QED BY <2>1, <2>2, <2>3, <1>3 DEF R, s
<1> QED BY <1>5, <1>6

\* An event of a page is dealt with.
LEMMA IngestKeepsInv ==
  ASSUME Inv, NEW r \in Runs, Ingest(r)
  PROVE  Inv'
<1> DEFINE R == run[r]
           e == Pos(R)
           new == e \notin R.seen
           v == [R EXCEPT !.batch = Tail(@),
                          !.seen = IF R.sink = "table" THEN @ ELSE @ \cup {e},
                          !.maxLedger = IF new THEN Max({@, chain[e]}) ELSE @]
<1>1. /\ R.pc = "page" /\ R.batch # << >>
      /\ UNCHANGED <<tip, chain, cursorFile, crashes>>
  BY DEF Ingest
<1>2. Head(R.batch) = e /\ e \in Ids /\ e < R.next
  BY <1>1, HeadOfPage
<1>3. run' = [run EXCEPT ![r] = v]
  BY <1>2, Zenon DEF Ingest
<1>4. /\ R \in Locals /\ PlaceOK(R, chain, tip) /\ LargestOK(R, chain)
      /\ RangeOK(R, chain) /\ PassedOK(R, chain, out)
  BY <1>1, Running
<1>5. /\ R.next \in Nat /\ R.start \in Nat /\ R.maxLedger \in Nat /\ R.tip \in Nat
      /\ R.batch \in Seq(Nat) /\ R.seen \subseteq Nat /\ R.sink \in Sinks
  BY <1>4, Parts
<1>6. /\ Len(chain) \in Nat /\ Ids = 1..Len(chain)
      /\ \A d \in Ids : chain[d] \in Int /\ chain[d] \in 2..MaxLedger
  BY ChainType DEF Ids, Inv, NetworkInv
<1>7. Grows(out, out') /\ OutputInv' /\ (WholeIn(out') => e \in StoredIn(out', R.sink))
  BY IngestWrites
<1>8. /\ Len(R.batch) \in Nat /\ Len(R.batch) > 0 /\ Tail(R.batch) \in Seq(Nat)
      /\ Len(Tail(R.batch)) = Len(R.batch) - 1
      /\ \A i \in 1..Len(Tail(R.batch)) : Tail(R.batch)[i] = R.batch[i + 1]
  BY <1>1, <1>5, EndsOfSeq
<1>9. e = R.next - Len(R.batch)
  BY DEF Pos
<1> DEFINE m == IF new THEN Max({R.maxLedger, chain[e]}) ELSE R.maxLedger
<1>10. /\ m \in Nat /\ R.maxLedger <= m
       /\ m = R.maxLedger \/ m = chain[e]
  <2>1. chain[e] \in Int /\ R.maxLedger \in Int
    BY <1>2, <1>5, <1>6
  <2> DEFINE k == chain[e]
             l == R.maxLedger
  <2>2. k \in Int /\ l \in Int
    BY <2>1
  <2> HIDE DEF k, l
  <2>3. Max({l, k}) = IF l >= k THEN l ELSE k
    BY <2>2, OfTwo
  <2>4. m = IF new THEN Max({l, k}) ELSE l
    BY DEF k, l
  <2> HIDE DEF new, m
  <2>5. l \in Nat
    BY <1>5 DEF l
  <2>6. m \in Nat /\ l <= m /\ (m = l \/ m = k)
    BY <2>2, <2>3, <2>4, <2>5
  <2> QED BY <2>6 DEF k, l
<1> HIDE DEF R, e
<1>11. v = [R EXCEPT !.batch = Tail(R.batch),
                     !.seen = IF R.sink = "table" THEN R.seen ELSE R.seen \cup {e},
                     !.maxLedger = m]
  BY <1>4 DEF Locals
<1> HIDE DEF v, m, new
<1>12. /\ v \in Locals /\ v.pc = R.pc /\ v.tip = R.tip /\ v.start = R.start
       /\ v.sink = R.sink /\ v.maxLedger = m /\ v.next = R.next /\ v.short = R.short
       /\ v.batch = Tail(R.batch)
       /\ v.seen = IF R.sink = "table" THEN R.seen ELSE R.seen \cup {e}
  <2>1. e \in Nat
    BY <1>2, <1>6
  <2> QED BY <2>1, <1>4, <1>5, <1>8, <1>10, <1>11 DEF Locals
<1>13. Pos(v) = e + 1
  BY <1>5, <1>8, <1>9, <1>12 DEF Pos
<1>14. PlaceOK(v, chain, tip)
  <2>1. /\ 2 <= R.start /\ R.start <= R.tip /\ R.tip <= tip
        /\ R.next <= Len(chain) + 1 /\ R.seen \subseteq 1..Len(chain)
        /\ \A i \in 1..Len(R.batch) : R.batch[i] = e + i - 1
    BY <1>4 DEF PlaceOK, e
  <2>2. R.next # 0 /\ Pos(v) > 0 /\ v.seen \subseteq 1..Len(chain)
    BY <2>1, <1>2, <1>5, <1>6, <1>12, <1>13
  <2>3. \A i \in 1..Len(v.batch) : v.batch[i] = Pos(v) + i - 1
    BY <2>1, <1>2, <1>6, <1>8, <1>12, <1>13
  <2> QED BY <2>1, <2>2, <2>3, <1>1, <1>12 DEF PlaceOK
<1>15. LargestOK(v, chain)
  <2>1. /\ R.start - 1 <= R.maxLedger
        /\ \/ R.maxLedger = R.start - 1
           \/ \E d \in Ids : d < R.next /\ R.maxLedger = chain[d]
    BY <1>4, <1>6 DEF LargestOK
  <2> QED BY <2>1, <1>2, <1>5, <1>6, <1>10, <1>12 DEF LargestOK
<1>16. RangeOK(v, chain)
  BY <1>4, <1>12 DEF RangeOK
<1>17. PassedOK(v, chain, out')
  <2> SUFFICES ASSUME WholeIn(out')
               PROVE  /\ v.seen \subseteq StoredIn(out', R.sink)
                      /\ \A d \in Ids : R.start <= chain[d] /\ d < e + 1 => d \in FoundIn(out')
    BY <1>6, <1>12, <1>13 DEF PassedOK
  <2>1. WholeIn(out) /\ e \in StoredIn(out', R.sink)
    BY <1>7 DEF Grows
  <2>2. /\ R.seen \subseteq StoredIn(out, R.sink)
        /\ \A d \in Ids : R.start <= chain[d] /\ d < e => d \in FoundIn(out)
    BY <2>1, <1>4, <1>6 DEF PassedOK, e
  <2>3. R.seen \subseteq StoredIn(out', R.sink) /\ FoundIn(out) \subseteq FoundIn(out')
    BY <2>2, <1>5, <1>7 DEF Grows, FoundIn
  <2>4. e \in FoundIn(out')
    BY <2>1, <1>5 DEF FoundIn
  <2>5. \A d \in Ids : d < e + 1 => d < e \/ d = e
    BY <1>2, <1>6
  <2> QED BY <2>1, <2>2, <2>3, <2>4, <2>5, <1>12
<1>18. RunOK(v, chain, out', tip)
  BY <1>1, <1>12, <1>14, <1>15, <1>16, <1>17 DEF RunOK
<1>19. run \in [Runs -> Values]
  BY DEF Inv, RunInv
<1>20. /\ run' \in [Runs -> Values] /\ run'[r] = v
       /\ \A q \in Runs \ {r} : run'[q] = run[q]
  BY <1>3, <1>12, <1>19, Parts
<1>21. RunInv'
  BY <1>1, <1>7, <1>18, <1>20, OtherRuns
<1> QED BY <1>1, <1>7, <1>21 DEF Inv, NetworkInv

\* A page is done with.
LEMMA EndPageKeepsInv ==
  ASSUME Inv, NEW r \in Runs, EndPage(r)
  PROVE  Inv'
<1> DEFINE R == run[r]
           v == [R EXCEPT !.pc = IF R.short THEN "save" ELSE "fetch"]
<1>1. /\ R.pc = "page" /\ R.batch = << >>
      /\ UNCHANGED <<tip, chain, out, halfLine, cursorFile, crashes>>
      /\ run' = [run EXCEPT ![r] = v]
  BY DEF EndPage
<1>2. /\ R \in Locals /\ PlaceOK(R, chain, tip) /\ LargestOK(R, chain)
      /\ RangeOK(R, chain) /\ PassedOK(R, chain, out)
  BY <1>1, Running
<1> HIDE DEF R
<1>3. /\ v \in Locals /\ v.tip = R.tip /\ v.start = R.start /\ v.sink = R.sink
      /\ v.maxLedger = R.maxLedger /\ v.next = R.next /\ v.short = R.short
      /\ v.batch = R.batch /\ v.seen = R.seen
      /\ v.pc = IF R.short THEN "save" ELSE "fetch"
  BY <1>2 DEF Locals
<1> HIDE DEF v
<1>4. PlaceOK(v, chain, tip)
  BY <1>1, <1>2, <1>3 DEF PlaceOK, Pos
<1>5. LargestOK(v, chain) /\ RangeOK(v, chain) /\ PassedOK(v, chain, out)
  BY <1>2, <1>3 DEF LargestOK, RangeOK, PassedOK, Pos
<1>6. RunOK(v, chain, out, tip)
  BY <1>3, <1>4, <1>5 DEF RunOK
<1>7. run \in [Runs -> Values]
  BY DEF Inv, RunInv
<1>8. /\ run' \in [Runs -> Values] /\ run'[r] = v
      /\ \A q \in Runs \ {r} : run'[q] = run[q]
  BY <1>1, <1>3, <1>7, Parts
<1>9. Grows(out, out')
  BY <1>1, NothingLost
<1>10. RunInv'
  BY <1>1, <1>6, <1>8, <1>9, OtherRuns
<1> QED BY <1>1, <1>10 DEF Inv, NetworkInv, OutputInv, Ids

\* A run that is over, however it ended, leaves the others as they are.
LEMMA EndKeepsRuns ==
  ASSUME Inv, NEW r \in Runs, run' = [run EXCEPT ![r] = Idle],
         UNCHANGED <<tip, chain>>, Grows(out, out')
  PROVE  RunInv'
<1>1. run \in [Runs -> Values]
  BY DEF Inv, RunInv
<1>2. /\ run' \in [Runs -> Values] /\ run'[r] = Idle
      /\ \A q \in Runs \ {r} : run'[q] = run[q]
  BY <1>1, IdleIsOK
<1> QED BY <1>2, IdleIsOK, OtherRuns

\* A run saves the cursor and ends.
LEMMA SaveKeepsInv ==
  ASSUME Inv, NEW r \in Runs, Save(r)
  PROVE  Inv'
<1> DEFINE R == run[r]
<1>1. /\ R.pc = "save" /\ run' = [run EXCEPT ![r] = Idle]
      /\ UNCHANGED <<tip, chain, out, halfLine, crashes>>
      /\ cursorFile' = IF R.maxLedger >= R.start THEN R.maxLedger ELSE cursorFile
  BY DEF Save
<1>2. R \in Locals /\ PlaceOK(R, chain, tip) /\ LargestOK(R, chain)
  BY <1>1, Running
<1>3. /\ \A d \in 1..Len(chain) : chain[d] \in Nat /\ chain[d] <= tip
      /\ tip \in Nat /\ cursorFile \in 0..tip
  <2>1. \A d \in 1..Len(chain) : chain[d] \in 2..MaxLedger /\ chain[d] \in Int
    BY ChainType DEF Inv, NetworkInv
  <2> QED BY <2>1, IndexerAssumption DEF Inv, NetworkInv, ChainOK
<1>4. R.maxLedger \in Nat /\ R.start \in Nat
  BY <1>2, Parts
<1> HIDE DEF R
<1>5. cursorFile' \in 0..tip
  BY <1>1, <1>2, <1>3, <1>4 DEF LargestOK
<1>6. Grows(out, out')
  BY <1>1, NothingLost
<1>7. RunInv'
  BY <1>1, <1>6, EndKeepsRuns
<1> QED BY <1>1, <1>5, <1>7 DEF Inv, NetworkInv, OutputInv, Ids

\* What a kill leaves in the outputs: a line cut in two, the whole of it
\* without its newline, or either glued to what was there.
LEMMA WreckWrites ==
  ASSUME Inv, NEW r \in Runs, Wreck(r)
  PROVE  /\ Grows(out, out')
         /\ out' \in [Sinks -> Seq(Ids \cup {Bad})]
         /\ halfLine' \in BOOLEAN
         /\ halfLine' => "file" \in Sinks /\ out'["file"] # << >>
         /\ cursorFile' \in {cursorFile, 0}
         /\ \/ out' = out
            \/ out' = [out EXCEPT !["file"] = Append(@, Bad)] /\ "file" \in Sinks
            \/ /\ out' = [out EXCEPT !["file"] = Append(@, Pos(run[r]))]
               /\ run[r].pc = "page" /\ run[r].batch # << >> /\ run[r].sink = "file"
               /\ Pos(run[r]) \notin run[r].seen
            \/ /\ out' = [out EXCEPT !["file"] = Glued(@)]
               /\ "file" \in Sinks /\ out["file"] # << >>
<1>1. /\ out \in [Sinks -> Seq(Ids \cup {Bad})] /\ halfLine \in BOOLEAN
      /\ halfLine => "file" \in Sinks /\ out["file"] # << >>
  BY DEF Inv, OutputInv
<1>2. CASE UNCHANGED <<out, halfLine>> /\ cursorFile' \in {cursorFile, 0}
  BY <1>1, <1>2, NothingLost
<1>3. CASE CutLine(r)
  <2>1. /\ run[r].pc = "page" /\ run[r].batch # << >> /\ run[r].sink = "file"
        /\ Head(run[r].batch) \notin run[r].seen
        /\ halfLine' = TRUE /\ cursorFile' = cursorFile
    BY <1>3 DEF CutLine
  <2>2. /\ "file" \in Sinks
        /\ Head(run[r].batch) = Pos(run[r]) /\ Pos(run[r]) \in Ids
    BY <2>1, Running, Parts, HeadOfPage
  <2>3. out["file"] \in Seq(Ids \cup {Bad})
    BY <1>1, <2>2
  <2>4. CASE halfLine /\ out' = [out EXCEPT !["file"] = Glued(@)]
    <3>1. /\ Glued(out["file"]) \in Seq(Ids \cup {Bad}) /\ Glued(out["file"]) # << >>
          /\ Bad \in ToSet(Glued(out["file"]))
      BY <2>3, <2>4, <1>1, GluedIsBroken
    <3>2. /\ Grows(out, out') /\ out' \in [Sinks -> Seq(Ids \cup {Bad})]
          /\ out'["file"] = Glued(out["file"])
      BY <3>1, <2>2, <2>4, OutputWritten
    <3> QED BY <3>1, <3>2, <2>1, <2>2, <2>4, <1>1
  <2>5. ASSUME NEW line \in {Bad, Head(run[r].batch)},
               out' = [out EXCEPT !["file"] = Append(@, line)]
        PROVE  /\ Grows(out, out') /\ out' \in [Sinks -> Seq(Ids \cup {Bad})]
               /\ out'["file"] # << >>
    <3>1. /\ Append(out["file"], line) \in Seq(Ids \cup {Bad})
          /\ Append(out["file"], line) # << >>
          /\ ToSet(Append(out["file"], line)) = ToSet(out["file"]) \cup {line}
      BY <2>2, <2>3, EndsOfSeq
    <3>2. /\ Grows(out, out') /\ out' \in [Sinks -> Seq(Ids \cup {Bad})]
          /\ out'["file"] = Append(out["file"], line)
      BY <3>1, <2>2, <2>5, OutputWritten
    <3> QED BY <3>1, <3>2
  <2>6. CASE ~halfLine /\ \E line \in {Bad, Head(run[r].batch)} :
                            out' = [out EXCEPT !["file"] = Append(@, line)]
    BY <2>1, <2>2, <2>5, <2>6
  <2> QED BY <2>4, <2>6, <1>3 DEF CutLine
<1> QED BY <1>2, <1>3 DEF Wreck, EmptiedCursor

\* A run is killed.
LEMMA CrashKeepsInv ==
  ASSUME Inv, NEW r \in Runs, Crash(r)
  PROVE  Inv'
<1>1. /\ crashes < MaxCrashes /\ crashes' = crashes + 1 /\ Wreck(r)
      /\ run' = [run EXCEPT ![r] = Idle] /\ UNCHANGED <<tip, chain>>
  BY DEF Crash
<1>2. /\ Grows(out, out')
      /\ out' \in [Sinks -> Seq(Ids \cup {Bad})]
      /\ halfLine' \in BOOLEAN
      /\ halfLine' => "file" \in Sinks /\ out'["file"] # << >>
      /\ cursorFile' \in {cursorFile, 0}
  BY <1>1, WreckWrites
<1>3. OutputInv'
  BY <1>1, <1>2 DEF OutputInv, Ids
<1>4. crashes' \in 0..MaxCrashes /\ cursorFile' \in 0..tip
  BY <1>1, <1>2, IndexerAssumption DEF Inv, NetworkInv
<1>5. RunInv'
  BY <1>1, <1>2, EndKeepsRuns
<1> QED BY <1>1, <1>3, <1>4, <1>5 DEF Inv, NetworkInv

\* The node refuses a run.
LEMMA FailKeepsInv ==
  ASSUME Inv, NEW r \in Runs, Fail(r)
  PROVE  Inv'
<1>1. /\ run' = [run EXCEPT ![r] = Idle]
      /\ UNCHANGED <<tip, chain, out, halfLine, cursorFile, crashes>>
  BY DEF Fail
<1>2. Grows(out, out')
  BY <1>1, NothingLost
<1>3. RunInv'
  BY <1>1, <1>2, EndKeepsRuns
<1> QED BY <1>1, <1>3 DEF Inv, NetworkInv, OutputInv, Ids

-----------------------------------------------------------------------------
(* The invariant holds, and what follows from it.                          *)

\* The invariant holds when nothing has run.
LEMMA InitInv == Init => Inv
<1> SUFFICES ASSUME Init PROVE Inv
  OBVIOUS
<1>1. tip = 2 /\ chain = << >> /\ MaxLedger \in Nat /\ MaxLedger >= 2 /\ MaxCrashes \in Nat
  BY IndexerAssumption DEF Init
<1>2. NetworkInv
  BY <1>1 DEF Init, NetworkInv, ChainOK
<1>3. OutputInv
  <2>1. \A S : << >> \in Seq(S)
    OBVIOUS
  <2>2. out = [s \in Sinks |-> << >>] /\ halfLine = FALSE
    BY DEF Init
  <2>3. out \in [Sinks -> Seq(Ids \cup {Bad})]
    BY <2>1, <2>2
  <2> QED BY <2>2, <2>3 DEF OutputInv
<1>4. RunInv
  BY IdleIsOK DEF Init, RunInv
<1> QED BY <1>2, <1>3, <1>4 DEF Inv

\* Every step keeps the invariant.
LEMMA NextInv == Inv /\ [Next]_vars => Inv'
<1> SUFFICES ASSUME Inv, [Next]_vars PROVE Inv'
  OBVIOUS
<1>1. CASE CloseLedger
  BY <1>1, CloseKeepsInv
<1>2. ASSUME NEW r \in Runs, Start(r) PROVE Inv'
  BY <1>2, StartKeepsInv
<1>3. ASSUME NEW r \in Runs, RunStep(r) PROVE Inv'
  BY <1>3, OpenKeepsInv, FetchKeepsInv, IngestKeepsInv, EndPageKeepsInv,
     SaveKeepsInv, FailKeepsInv DEF RunStep
<1>4. ASSUME NEW r \in Runs, Crash(r) PROVE Inv'
  BY <1>4, CrashKeepsInv
<1>5. CASE UNCHANGED vars
  BY <1>5 DEF vars, Inv, NetworkInv, OutputInv, RunInv, Ids
<1> QED BY <1>1, <1>2, <1>3, <1>4, <1>5 DEF Next

\* The invariant always holds.
THEOREM InvHolds == Spec => []Inv
BY InitInv, NextInv, PTL DEF Spec

\* Every variable, the outputs and the locals of the runs among them, keeps
\* its type: lines name published events, and a run's ledgers are ledgers.
THEOREM TypeCorrect == Spec => []TypeOK
<1>1. Inv => TypeOK
  <2> SUFFICES ASSUME Inv PROVE TypeOK
    OBVIOUS
  <2>1. /\ tip \in 2..MaxLedger /\ chain \in Seq(2..MaxLedger)
        /\ halfLine \in BOOLEAN /\ cursorFile \in 0..MaxLedger
        /\ crashes \in 0..MaxCrashes
        /\ out \in [Sinks -> Seq(Ids \cup {Bad})]
    <3>1. /\ tip \in 2..MaxLedger /\ chain \in Seq(2..MaxLedger)
          /\ halfLine \in BOOLEAN /\ cursorFile \in 0..tip
          /\ crashes \in 0..MaxCrashes
          /\ out \in [Sinks -> Seq(Ids \cup {Bad})]
      BY DEF Inv, NetworkInv, ChainOK, OutputInv
    <3> QED BY <3>1, IndexerAssumption
  <2>2. MaxLedger \in Nat /\ Len(chain) \in Nat /\ \A d \in 1..Len(chain) : chain[d] \in 2..MaxLedger
    BY IndexerAssumption, ChainType DEF Inv, NetworkInv
  <2>3. out \in [Sinks -> Seq(Nat \cup {Bad})]
    <3>1. Ids \cup {Bad} \subseteq Nat \cup {Bad}
      BY <2>2 DEF Ids
    <3>2. \A s \in Sinks : out[s] \in Seq(Nat \cup {Bad})
      BY <2>1, <3>1, SeqOfMore
    <3> QED BY <2>1, <3>2
  <2>4. ASSUME NEW r \in Runs, run[r] # Idle
        PROVE \/ run[r].pc = "started" /\ run[r].tip \in 2..tip
              \/ /\ run[r].pc \in {"fetch", "page", "save"}
                 /\ run[r].sink \in Sinks /\ run[r].start \in 2..MaxLedger
                 /\ run[r].maxLedger \in run[r].start - 1 .. MaxLedger
                 /\ run[r].next \in 0 .. Len(chain) + 1
                 /\ run[r].batch \in Seq(1..Len(chain))
                 /\ run[r].seen \subseteq 1..Len(chain)
    <3> DEFINE R == run[r]
    <3>1. R \in Values /\ RunOK(R, chain, out, tip)
      BY DEF Inv, RunInv
    <3> HIDE DEF R
    <3>2. CASE R.pc = "started"
      BY <3>1, <3>2 DEF RunOK, R
    <3>3. CASE R \in Locals
      <4>1. /\ R.pc \in {"fetch", "page", "save"} /\ R.sink \in Sinks
            /\ R.start \in Nat /\ R.maxLedger \in Nat /\ R.next \in Nat /\ R.tip \in Nat
            /\ R.batch \in Seq(Nat)
        BY <3>3, Parts
      <4>2. PlaceOK(R, chain, tip) /\ LargestOK(R, chain)
        BY <3>1, <3>3 DEF RunOK
      <4>3. /\ R.start \in 2..MaxLedger /\ R.next \in 0 .. Len(chain) + 1
            /\ R.seen \subseteq 1..Len(chain)
        BY <2>1, <2>2, <4>1, <4>2 DEF PlaceOK
      <4>4. R.maxLedger \in R.start - 1 .. MaxLedger
        BY <2>2, <4>1, <4>2, <4>3 DEF LargestOK
      <4>5. R.batch \in Seq(1..Len(chain))
        <5> DEFINE b == R.batch
        <5>1. b \in Seq(Nat) /\ Len(b) \in Nat
          BY <4>1
        <5>2. \A i \in 1..Len(b) : b[i] = R.next - Len(b) + i - 1
          BY <4>2 DEF PlaceOK, Pos
        <5>3. b # << >> => R.next - Len(b) > 0
          BY <4>2 DEF PlaceOK, Pos
        <5> HIDE DEF b
        <5>4. ASSUME NEW i \in 1..Len(b) PROVE b[i] \in 1..Len(chain)
          <6>1. b # << >>
            BY <5>1
          <6> DEFINE n == R.next
          <6>2. n \in Nat /\ n <= Len(chain) + 1 /\ n - Len(b) > 0
            BY <4>1, <4>3, <5>3, <6>1
          <6>3. b[i] = n - Len(b) + i - 1
            BY <5>2
          <6> HIDE DEF n
          <6> QED BY <5>1, <6>2, <6>3, <2>2
        <5>5. b \in Seq(1..Len(chain))
          BY <5>1, <5>4
        <5> QED BY <5>5 DEF b
      <4> QED BY <4>1, <4>3, <4>4, <4>5 DEF R
    <3> QED BY <2>4, <3>1, <3>2, <3>3 DEF Values, R
  <2> QED BY <2>1, <2>3, <2>4 DEF TypeOK
<1> QED BY <1>1, InvHolds, PTL

\* A run that reaches its end has ingested every event of its range, whatever
\* the other runs did and wherever the node ended its pages.
THEOREM FinishedRunIsComplete == Spec => []FinishedRunCaughtUp
<1>1. Inv => FinishedRunCaughtUp
  <2> SUFFICES ASSUME Inv, NEW r \in Runs, Whole, run[r].pc = "save", NEW e \in Ids,
                      run[r].start <= chain[e],
                      chain[e] <= Min({run[r].tip, run[r].start + ScanLimit - 1})
               PROVE  e \in Ingested
    BY DEF FinishedRunCaughtUp
  <2> DEFINE R == run[r]
             high == R.start + ScanLimit - 1
             t == R.tip
  <2>1. /\ R \in Locals /\ PlaceOK(R, chain, tip) /\ RangeOK(R, chain)
        /\ PassedOK(R, chain, out)
    BY Running
  <2>2. R.start \in Nat /\ R.tip \in Nat /\ R.next \in Nat /\ ScanLimit \in Nat
    BY <2>1, Parts, IndexerAssumption
  <2>3. e \in 1..Len(chain) /\ chain[e] \in Int /\ Len(chain) \in Nat
    BY ChainType DEF Ids, Inv, NetworkInv
  <2>4. R.short /\ Pos(R) = R.next
    BY <2>1, <2>2 DEF PlaceOK, Pos
  <2>5. t \in Int /\ high \in Int
    BY <2>2
  <2>6. chain[e] <= t /\ chain[e] <= high
    <3> HIDE DEF t, high
    <3>1. Min({t, high}) = IF t <= high THEN t ELSE high
      BY <2>5, OfTwo
    <3>2. chain[e] <= Min({t, high})
      BY DEF t, high
    <3> QED BY <3>1, <3>2, <2>3, <2>5
  <2>7. e < R.next
    BY <2>1, <2>2, <2>3, <2>4, <2>6 DEF RangeOK
  <2>8. WholeIn(out)
    BY DEF Whole, WholeIn
  <2>9. e \in FoundIn(out)
    BY <2>1, <2>3, <2>4, <2>7, <2>8 DEF PassedOK
  <2> QED BY <2>9 DEF FoundIn, Ingested, Stored, StoredIn
<1> QED BY <1>1, InvHolds, PTL

-----------------------------------------------------------------------------
(* The cursor.  What it may be ahead of is what a cold-start window passed   *)
(* over; the statements below say so by `b`, the first ledger of which no    *)
(* event may be missing: none (0), or the first of the window that ends at   *)
(* the tip.                                                                  *)

\* No run that is about to open starts beyond an event the cursor has not
\* reached.
NothingPassedOver ==
  \A r \in Runs :
    run[r].pc = "started" =>
      \A e \in Ids : cursorFile < chain[e] =>
        StartLedger(run[r].tip, cursorFile) <= chain[e]

\* The events so passed over are of ledgers before b.
PassedOnlyBefore(b) ==
  \A r \in Runs :
    run[r].pc = "started" =>
      \A e \in Ids : cursorFile < chain[e] =>
        chain[e] < b \/ StartLedger(run[r].tip, cursorFile) <= chain[e]

\* What lies below the ledgers a run asks for is in the outputs, or before b.
BelowOK(R, c, o, b) ==
  R \in Locals /\ WholeIn(o) =>
    \A e \in 1..Len(c) : c[e] < R.start => e \in FoundIn(o) \/ c[e] < b

CursorOK(k, c, o, b) ==
  WholeIn(o) => \A e \in 1..Len(c) : c[e] <= k => e \in FoundIn(o) \/ c[e] < b

CursorIn(k, u, c, o, b) ==
  /\ CursorOK(k, c, o, b)
  /\ \A r \in Runs : BelowOK(u[r], c, o, b)

CursorInv == CursorIn(cursorFile, run, chain, out, 0)

\* A longer chain, fuller outputs and a later b leave both true.
LEMMA BelowKept ==
  ASSUME NEW R, NEW k, NEW c, NEW t \in Int, NEW o, NEW c2, NEW t2 \in Int, NEW o2,
         NEW b \in Int, NEW b2 \in Int, b <= b2,
         ChainOK(c, t), ChainOK(c2, t2), Extended(c, t, c2, t2), Grows(o, o2)
  PROVE  /\ BelowOK(R, c, o, b) /\ (R \in Locals => R.start <= t)
              => BelowOK(R, c2, o2, b2)
         /\ CursorOK(k, c, o, b) /\ k \in Int /\ k <= t
              => CursorOK(k, c2, o2, b2)
<1>1. /\ Len(c) \in Nat /\ Len(c2) \in Nat
      /\ \A i \in 1..Len(c2) :
           c2[i] \in Int /\ ((i \in 1..Len(c) /\ c2[i] = c[i]) \/ c2[i] > t)
  <2>1. /\ Len(c) \in Nat /\ Len(c2) \in Nat /\ \A i \in 1..Len(c2) : c2[i] \in Int
    BY ChainType
  <2> QED BY <2>1 DEF Extended
<1>2. WholeIn(o2) => WholeIn(o) /\ FoundIn(o) \subseteq FoundIn(o2)
  BY DEF FoundIn, Grows
<1>3. ASSUME BelowOK(R, c, o, b), R \in Locals => R.start <= t
      PROVE  BelowOK(R, c2, o2, b2)
  <2>1. R \in Locals => R.start \in Nat
    BY Parts
  <2> QED BY <1>1, <1>2, <1>3, <2>1 DEF BelowOK
<1>4. ASSUME CursorOK(k, c, o, b), k \in Int, k <= t
      PROVE  CursorOK(k, c2, o2, b2)
  BY <1>1, <1>2, <1>4 DEF CursorOK
<1> QED BY <1>3, <1>4

\* Every step grows the outputs, and the chain at its end.
LEMMA StepExtends ==
  ASSUME Inv, [Next]_vars
  PROVE  /\ Grows(out, out') /\ Extended(chain, tip, chain', tip')
         /\ ChainOK(chain, tip) /\ ChainOK(chain', tip')
         /\ tip \in Int /\ tip' \in Int
<1>1. Inv'
  BY NextInv
<1>2. /\ ChainOK(chain, tip) /\ ChainOK(chain', tip') /\ tip \in Int /\ tip' \in Int
  BY <1>1 DEF Inv, NetworkInv
<1>3. CASE CloseLedger
  <2>1. PICK n \in 0..MaxPerLedger : chain' = chain \o [i \in 1..n |-> tip + 1]
    BY <1>3 DEF CloseLedger
  <2>2. tip' = tip + 1 /\ UNCHANGED out
    BY <1>3 DEF CloseLedger
  <2> DEFINE new == [i \in 1..n |-> tip + 1]
  <2>3. n \in Nat
    BY IndexerAssumption
  <2>4. new \in Seq(Int) /\ Len(new) = n /\ \A i \in 1..n : new[i] = tip + 1
    BY <2>3, <1>2
  <2> HIDE DEF new
  <2>5. chain \in Seq(2..MaxLedger) /\ Len(chain) \in Nat
    BY <1>2, ChainType DEF ChainOK
  <2>6. ASSUME NEW S, NEW T, NEW p \in Seq(S), NEW q \in Seq(T)
        PROVE  /\ Len(p \o q) = Len(p) + Len(q)
               /\ \A i \in 1..Len(p) + Len(q) :
                    (p \o q)[i] = IF i <= Len(p) THEN p[i] ELSE q[i - Len(p)]
    OBVIOUS
  <2>7. /\ Len(chain') = Len(chain) + n
        /\ \A i \in 1..Len(chain') :
             chain'[i] = IF i <= Len(chain) THEN chain[i] ELSE new[i - Len(chain)]
    BY <2>1, <2>4, <2>5, <2>6 DEF new
  <2>8. Extended(chain, tip, chain', tip')
    BY <2>2, <2>3, <2>4, <2>5, <2>7, <1>2 DEF Extended
  <2> QED BY <2>2, <2>8, <1>2, NothingLost
<1>4. CASE UNCHANGED <<tip, chain, out>>
  <2>1. Extended(chain, tip, chain, tip)
    BY <1>2, NothingLost
  <2> QED BY <2>1, <1>2, <1>4, NothingLost
<1>5. ASSUME NEW r \in Runs, Start(r) \/ Open(r) \/ Fetch(r) \/ EndPage(r) \/ Save(r) \/ Fail(r)
      PROVE  UNCHANGED <<tip, chain, out>>
  BY <1>5 DEF Start, Open, Fetch, EndPage, Save, Fail
<1>6. ASSUME NEW r \in Runs, Ingest(r) \/ Crash(r)
      PROVE  UNCHANGED <<tip, chain>> /\ Grows(out, out')
  <2>1. CASE Ingest(r)
    BY <2>1, IngestWrites DEF Ingest
  <2>2. CASE Crash(r)
    BY <2>2, WreckWrites DEF Crash
  <2> QED BY <2>1, <2>2, <1>6
<1>7. CASE UNCHANGED vars
  BY <1>7, <1>4 DEF vars
<1>8. ASSUME UNCHANGED <<tip, chain>> PROVE Extended(chain, tip, chain', tip')
  BY <1>2, <1>8, NothingLost
<1> QED BY <1>2, <1>3, <1>4, <1>5, <1>6, <1>7, <1>8 DEF Next, RunStep

\* How the locals of a run come about: they are those of before with the same
\* first ledger, or the run has just been opened.
LEMMA LocalsComeFrom ==
  ASSUME Inv, [Next]_vars, NEW q \in Runs, run'[q] \in Locals
  PROVE  \/ /\ run[q] \in Locals /\ run'[q].start = run[q].start
            /\ run'[q].sink = run[q].sink /\ run[q].seen \subseteq run'[q].seen
         \/ /\ run[q].pc = "started" /\ UNCHANGED <<tip, chain, out, cursorFile>>
            /\ run'[q].start = StartLedger(run[q].tip, cursorFile)
            /\ run'[q].seen = Known(run'[q].sink)
<1>1. run \in [Runs -> Values] /\ Idle \notin Locals
  BY DEF Inv, RunInv, Idle, Locals
<1>2. CASE run'[q] = run[q]
  BY <1>2
<1> SUFFICES ASSUME run'[q] # run[q] PROVE
         \/ /\ run[q] \in Locals /\ run'[q].start = run[q].start
            /\ run'[q].sink = run[q].sink /\ run[q].seen \subseteq run'[q].seen
         \/ /\ run[q].pc = "started" /\ UNCHANGED <<tip, chain, out, cursorFile>>
            /\ run'[q].start = StartLedger(run[q].tip, cursorFile)
            /\ run'[q].seen = Known(run'[q].sink)
  BY <1>2
<1>3. CASE CloseLedger
  BY <1>3 DEF CloseLedger
<1>4. ASSUME NEW r \in Runs, Save(r) \/ Fail(r) \/ Crash(r) PROVE FALSE
  <2>1. run' = [run EXCEPT ![r] = Idle]
    BY <1>4 DEF Save, Fail, Crash
  <2> QED BY <2>1, <1>1
<1>5. ASSUME NEW r \in Runs, Start(r) PROVE FALSE
  <2>1. run' = [run EXCEPT ![r] = [pc |-> "started", tip |-> tip]]
    BY <1>5 DEF Start
  <2>2. run'[q] = [pc |-> "started", tip |-> tip]
    BY <2>1, <1>1
  <2> QED BY <2>2 DEF Locals
<1>6. ASSUME NEW r \in Runs, Open(r)
      PROVE  /\ run[q].pc = "started" /\ UNCHANGED <<tip, chain, out, cursorFile>>
             /\ run'[q].start = StartLedger(run[q].tip, cursorFile)
             /\ run'[q].seen = Known(run'[q].sink)
  <2> DEFINE start == StartLedger(run[r].tip, cursorFile)
             v(s) == [pc |-> "fetch", tip |-> run[r].tip, start |-> start,
                      sink |-> s, maxLedger |-> start - 1, next |-> 0,
                      batch |-> << >>, short |-> FALSE, seen |-> Known(s)]
  <2>1. PICK s \in Sinks :
          run' = [run EXCEPT ![r] = IF start > run[r].tip THEN Idle ELSE v(s)]
    BY <1>6 DEF Open
  <2>2. q = r /\ run'[q] \in {Idle, v(s)}
    BY <2>1, <1>1
  <2>3. run'[q].start = start /\ run'[q].seen = Known(run'[q].sink)
    BY <2>2, <1>1
  <2> QED BY <2>2, <2>3, <1>6 DEF Open
<1>7. ASSUME NEW r \in Runs, Fetch(r) \/ Ingest(r) \/ EndPage(r)
      PROVE  /\ run[q] \in Locals /\ run'[q].start = run[q].start
             /\ run'[q].sink = run[q].sink /\ run[q].seen \subseteq run'[q].seen
  <2>1. run[r].pc \in {"fetch", "page"}
    BY <1>7 DEF Fetch, Ingest, EndPage
  <2>2. run[r] \in Locals
    BY <2>1, Running
  <2>3. \A z \in Runs \ {r} : run'[z] = run[z]
    BY <1>1, <1>7 DEF Fetch, Ingest, EndPage
  <2>4. q = r
    BY <2>3
  <2>5. CASE Fetch(r)
    <3> DEFINE ledger == IF run[r].next = 0 THEN run[r].start ELSE chain[run[r].next - 1]
               p(from) == Served(from, ledger)
               n(from) == IF p(from) = << >> THEN from ELSE Last(p(from)) + 1
    <3>1. PICK from : run' = [run EXCEPT ![r].pc = "page", ![r].batch = p(from),
                                         ![r].next = n(from), ![r].short = LastPage(p(from))]
      BY <2>5 DEF Fetch
    <3> HIDE DEF p, n
    <3>2. run'[r] = [run[r] EXCEPT !.pc = "page", !.batch = p(from), !.next = n(from),
                                   !.short = LastPage(p(from))]
      BY <3>1, <1>1
    <3> QED BY <3>2, <2>2, <2>4 DEF Locals
  <2>6. CASE Ingest(r)
    <3> DEFINE n == IF run[r].sink = "table" THEN run[r].seen
                    ELSE run[r].seen \cup {Head(run[r].batch)}
    <3>1. PICK b, m : run' = [run EXCEPT ![r].batch = b, ![r].seen = n,
                                         ![r].maxLedger = m]
      BY <2>6 DEF Ingest
    <3>3. run[r].seen \subseteq n
      OBVIOUS
    <3> HIDE DEF n
    <3>2. run'[r] = [run[r] EXCEPT !.batch = b, !.seen = n, !.maxLedger = m]
      BY <3>1, <1>1
    <3> QED BY <3>2, <3>3, <2>2, <2>4 DEF Locals
  <2>7. CASE EndPage(r)
    <3>1. PICK p : run' = [run EXCEPT ![r].pc = p]
      BY <2>7 DEF EndPage
    <3>2. run'[r] = [run[r] EXCEPT !.pc = p]
      BY <3>1, <1>1
    <3> QED BY <3>2, <2>2, <2>4 DEF Locals
  <2> QED BY <2>5, <2>6, <2>7, <1>7
<1>8. CASE UNCHANGED vars
  BY <1>8 DEF vars
<1> QED BY <1>3, <1>4, <1>5, <1>6, <1>7, <1>8 DEF Next, RunStep

\* A run that saves its largest ledger has nothing missing below it: the
\* events of one ledger are never split between its last page and the rest.
LEMMA SavedCursorOK ==
  ASSUME Inv, NEW b \in Int, NEW r \in Runs, BelowOK(run[r], chain, out, b),
         run[r].pc = "save", run[r].maxLedger >= run[r].start
  PROVE  CursorOK(run[r].maxLedger, chain, out, b)
<1> DEFINE R == run[r]
<1>1. /\ R \in Locals /\ PlaceOK(R, chain, tip) /\ LargestOK(R, chain)
      /\ RangeOK(R, chain) /\ PassedOK(R, chain, out)
  BY Running
<1>2. R.start \in Nat /\ R.next \in Nat /\ R.maxLedger \in Nat
  BY <1>1, Parts
<1>3. R.short /\ Pos(R) = R.next
  BY <1>1, <1>2 DEF PlaceOK, Pos
<1>4. Len(chain) \in Nat /\ \A e \in 1..Len(chain) : chain[e] \in Int
  BY ChainType DEF Inv, NetworkInv
<1>5. BelowOK(R, chain, out, b)
  OBVIOUS
<1>6. R.maxLedger >= R.start
  OBVIOUS
<1> HIDE DEF R
<1>7. PICK d \in 1..Len(chain) : d < R.next /\ R.maxLedger = chain[d]
  BY <1>1, <1>2, <1>6 DEF LargestOK
<1>8. \A e \in 1..Len(chain) : chain[e] <= R.maxLedger => e < R.next
  BY <1>1, <1>2, <1>3, <1>4, <1>7 DEF RangeOK
<1>9. CursorOK(R.maxLedger, chain, out, b)
  BY <1>1, <1>2, <1>3, <1>4, <1>5, <1>8 DEF CursorOK, BelowOK, PassedOK
<1> QED BY <1>9 DEF R

\* A step keeps the cursor behind the outputs.
LEMMA CursorKept ==
  ASSUME Inv, NEW b \in Int, NEW b2 \in Int, b <= b2,
         CursorIn(cursorFile, run, chain, out, b), PassedOnlyBefore(b), [Next]_vars
  PROVE  CursorIn(cursorFile', run', chain', out', b2)
<1>1. /\ Grows(out, out') /\ Extended(chain, tip, chain', tip')
      /\ ChainOK(chain, tip) /\ ChainOK(chain', tip')
      /\ tip \in Int /\ tip' \in Int
  BY StepExtends
<1>2. Inv' /\ cursorFile \in Int
  BY NextInv DEF Inv, NetworkInv
<1>3. Len(chain) \in Nat /\ \A e \in 1..Len(chain) : chain[e] \in Int /\ chain[e] \in 2..MaxLedger
  BY <1>1, ChainType
<1>4. ASSUME NEW q \in Runs PROVE BelowOK(run'[q], chain', out', b2)
  <2>1. CASE run'[q] \notin Locals
    BY <2>1 DEF BelowOK
  <2>2. CASE run[q] \in Locals /\ run'[q].start = run[q].start
    <3>1. BelowOK(run[q], chain, out, b) /\ run[q].start <= tip
      <4>1. /\ BelowOK(run[q], chain, out, b)
            /\ PlaceOK(run[q], chain, tip)
            /\ run[q].start \in Nat /\ run[q].tip \in Nat
        BY <2>2, Parts DEF CursorIn, Inv, RunInv, RunOK
      <4> QED BY <4>1, <1>1 DEF PlaceOK
    <3>2. BelowOK(run[q], chain', out', b2)
      BY <3>1, <1>1, BelowKept
    <3> QED BY <3>2, <2>2 DEF BelowOK
  <2>3. CASE /\ run[q].pc = "started" /\ UNCHANGED <<tip, chain, out, cursorFile>>
             /\ run'[q] \in Locals
             /\ run'[q].start = StartLedger(run[q].tip, cursorFile)
    <3> DEFINE start == StartLedger(run[q].tip, cursorFile)
    <3>1. \A e \in Ids : cursorFile < chain[e] => chain[e] < b \/ start <= chain[e]
      BY <2>3 DEF PassedOnlyBefore
    <3>2. start \in Nat
      BY <2>3, Parts
    <3> HIDE DEF start
    <3>3. \A e \in Ids :
            chain[e] < start => chain[e] <= cursorFile \/ chain[e] < b2
      BY <3>1, <3>2, <1>2, <1>3 DEF Ids
    <3>4. run'[q].start = start
      BY <2>3 DEF start
    <3>5. CursorOK(cursorFile, chain, out, b2)
      BY <1>3 DEF CursorIn, CursorOK
    <3> QED BY <3>3, <3>4, <3>5, <2>3 DEF CursorOK, BelowOK, Ids
  <2> QED BY <2>1, <2>2, <2>3, LocalsComeFrom
<1>5. CursorOK(cursorFile, chain', out', b2)
  <2>1. cursorFile <= tip
    BY <1>1, <1>2 DEF Inv, NetworkInv
  <2> QED BY <2>1, <1>1, <1>2, BelowKept DEF CursorIn
<1>6. CursorOK(0, chain', out', b2)
  <2>1. \A e \in 1..Len(chain') : chain'[e] \in 2..MaxLedger /\ chain'[e] \in Int
    BY <1>1, ChainType
  <2>2. \A e \in 1..Len(chain') : ~(chain'[e] <= 0)
    BY <2>1, IndexerAssumption
  <2> QED BY <2>2 DEF CursorOK
<1>7. ASSUME NEW r \in Runs, Save(r) PROVE CursorOK(cursorFile', chain', out', b2)
  <2>1. /\ run[r].pc = "save" /\ UNCHANGED <<chain, out>>
        /\ cursorFile' = IF run[r].maxLedger >= run[r].start
                         THEN run[r].maxLedger ELSE cursorFile
    BY <1>7 DEF Save
  <2>2. CASE run[r].maxLedger >= run[r].start
    <3>1. CursorOK(run[r].maxLedger, chain, out, b)
      BY <2>1, <2>2, SavedCursorOK DEF CursorIn
    <3>2. CursorOK(run[r].maxLedger, chain, out, b2)
      BY <3>1, <1>3 DEF CursorOK
    <3> QED BY <2>1, <2>2, <3>2
  <2> QED BY <2>1, <2>2, <1>5
<1>8. ASSUME NEW r \in Runs, Crash(r) PROVE cursorFile' \in {cursorFile, 0}
  BY <1>8, WreckWrites DEF Crash
<1>9. ASSUME NEW r \in Runs,
             Start(r) \/ Open(r) \/ Fetch(r) \/ Ingest(r) \/ EndPage(r) \/ Fail(r)
      PROVE  cursorFile' = cursorFile
  BY <1>9 DEF Start, Open, Fetch, Ingest, EndPage, Fail
<1>10. CloseLedger \/ UNCHANGED vars => cursorFile' = cursorFile
  BY DEF CloseLedger, vars
<1>11. CursorOK(cursorFile', chain', out', b2)
  BY <1>5, <1>6, <1>7, <1>8, <1>9, <1>10 DEF Next, RunStep
<1> QED BY <1>4, <1>11 DEF CursorIn

\* With nothing passed over the invariant is that of b = 0, and no event is of
\* a ledger before that.
LEMMA StrictlyKept ==
  ASSUME Inv
  PROVE  /\ CursorInv /\ NothingPassedOver /\ [Next]_vars => CursorInv'
         /\ \A R : BelowOK(R, chain, out, 0) /\ R \in Locals /\ WholeIn(out) =>
              \A e \in 1..Len(chain) : chain[e] < R.start => e \in FoundIn(out)
         /\ CursorInv => NoGapBelowCursor
<1>1. \A e \in 1..Len(chain) : chain[e] \in Int /\ ~(chain[e] < 0)
  BY ChainType, IndexerAssumption DEF Inv, NetworkInv
<1>2. NothingPassedOver => PassedOnlyBefore(0)
  BY DEF NothingPassedOver, PassedOnlyBefore
<1>3. ASSUME CursorInv, NothingPassedOver, [Next]_vars PROVE CursorInv'
  <2>1. CursorIn(cursorFile, run, chain, out, 0) /\ PassedOnlyBefore(0)
    BY <1>2, <1>3 DEF CursorInv
  <2>2. CursorIn(cursorFile', run', chain', out', 0)
    BY <1>3, <2>1, CursorKept
  <2> QED BY <2>2 DEF CursorInv
<1>4. CursorInv => NoGapBelowCursor
  BY <1>1 DEF CursorInv, CursorIn, CursorOK, NoGapBelowCursor, Whole, WholeIn,
     Ids, FoundIn, Ingested, Stored, StoredIn
<1> QED BY <1>1, <1>3, <1>4 DEF BelowOK

\* Before anything is published there is nothing to miss.
LEMMA InitCursor ==
  ASSUME Init, NEW b
  PROVE  CursorIn(cursorFile, run, chain, out, b)
<1>1. chain = << >> /\ \A r \in Runs : run[r] = Idle
  BY DEF Init
<1>2. Idle \notin Locals /\ Len(<< >>) = 0
  BY DEF Idle, Locals
<1> QED BY <1>1, <1>2 DEF CursorIn, CursorOK, BelowOK

\* What a run passes over is of a ledger before the window that ends at the
\* tip it read, and so before the one that ends at the tip there is now.
LEMMA PassedBeforeWindow ==
  ASSUME Inv
  PROVE  PassedOnlyBefore(tip - COLD_START_WINDOW)
<1> SUFFICES ASSUME NEW r \in Runs, run[r].pc = "started", NEW e \in Ids,
                    cursorFile < chain[e],
                    ~(StartLedger(run[r].tip, cursorFile) <= chain[e])
             PROVE  chain[e] < tip - COLD_START_WINDOW
  BY DEF PassedOnlyBefore
<1> DEFINE back == run[r].tip - COLD_START_WINDOW
<1>1. /\ run[r].tip \in 2..tip /\ tip \in 2..MaxLedger /\ cursorFile \in 0..tip
      /\ MaxLedger \in Nat /\ COLD_START_WINDOW \in Nat
  BY IndexerAssumption DEF Inv, NetworkInv, RunInv, RunOK
<1>2. chain[e] \in Int /\ chain[e] >= 2
  BY <1>1, ChainType DEF Ids, Inv, NetworkInv
<1>3. back \in Int /\ cursorFile \in Int /\ back <= tip - COLD_START_WINDOW
  BY <1>1
<1> HIDE DEF back
<1>4. Max({2, back}) = IF 2 >= back THEN 2 ELSE back
  BY <1>3, OfTwo
<1>5. StartLedger(run[r].tip, cursorFile)
        = IF cursorFile + 1 > Max({2, back}) THEN cursorFile + 1 ELSE Max({2, back})
  BY DEF StartLedger, back
<1>6. chain[e] < back
  BY <1>2, <1>3, <1>4, <1>5
<1> QED BY <1>1, <1>2, <1>3, <1>6

\* Whatever runs overlap, are killed or come back after a long stop: as long as
\* the lines of the file are whole, an event below the cursor that is in neither
\* output is older than the cold-start window, and stays so.
THEOREM GapsAreOlderThanWindow == Spec => []GapsOnlyBeforeWindow
<1> DEFINE first == tip - COLD_START_WINDOW
           Kept == CursorIn(cursorFile, run, chain, out, first)
<1>1. Init => Kept
  BY InitCursor
<1>2. Inv /\ Inv' /\ Kept /\ [Next]_vars => Kept'
  <2> SUFFICES ASSUME Inv, Inv', Kept, [Next]_vars PROVE Kept'
    OBVIOUS
  <2>1. first \in Int /\ first' \in Int /\ first <= first'
    <3>1. /\ tip \in Int /\ tip' \in Int /\ COLD_START_WINDOW \in Int
          /\ Extended(chain, tip, chain', tip')
      BY StepExtends, IndexerAssumption
    <3>2. tip <= tip'
      BY <3>1 DEF Extended
    <3>3. \A m, n, w \in Int :
            m <= n => m - w \in Int /\ n - w \in Int /\ m - w <= n - w
      OBVIOUS
    <3>4. /\ tip - COLD_START_WINDOW \in Int /\ tip' - COLD_START_WINDOW \in Int
          /\ tip - COLD_START_WINDOW <= tip' - COLD_START_WINDOW
      BY ONLY <3>1, <3>2, <3>3
    <3> QED BY ONLY <3>4
  <2>2. PassedOnlyBefore(first)
    BY PassedBeforeWindow
  <2> DEFINE second == first'
  <2>3. second = first'
    OBVIOUS
  <2> HIDE DEF first, second
  <2>4. CursorIn(cursorFile', run', chain', out', second)
    BY <2>1, <2>2, <2>3, CursorKept
  <2> QED BY <2>3, <2>4
<1>3. Kept => GapsOnlyBeforeWindow
  BY DEF CursorIn, CursorOK, GapsOnlyBeforeWindow, Whole, WholeIn, Ids, FoundIn,
     Ingested, Stored, StoredIn
<1> HIDE DEF Kept
<1> QED BY <1>1, <1>2, <1>3, InvHolds, PTL DEF Spec

\* As long as the lines of the file are whole, the cursor never runs ahead of
\* what was written, with any number of runs, kills and sinks, unless the
\* cold-start window makes a run pass events over.
THEOREM NoGapUnlessPassedOver ==
  Spec /\ []NothingPassedOver => []NoGapBelowCursor
<1>1. Init => CursorInv
  BY InitCursor DEF CursorInv
<1> QED BY <1>1, InvHolds, StrictlyKept, PTL DEF Spec

-----------------------------------------------------------------------------
(* One run at a time, into the file.                                       *)

\* The lines of the file are the events in order, and the run knows them all.
OrderOK(R, o) ==
  WholeIn(o) =>
    /\ \A i \in 1..Len(o["file"]) : o["file"][i] = i
    /\ R \in Locals => R.seen = 1..Len(o["file"])

\* What is in such a file.
LEMMA OrderedFile ==
  ASSUME NEW o, Sinks = {"file"}, WholeIn(o), NEW S, o["file"] \in Seq(S),
         \A i \in 1..Len(o["file"]) : o["file"][i] = i
  PROVE  StoredIn(o, "file") = 1..Len(o["file"]) /\ FoundIn(o) = 1..Len(o["file"])
<1>1. ASSUME NEW q \in Seq(S), \A i \in 1..Len(q) : q[i] = i
      PROVE  ToSet(q) = 1..Len(q)
  BY <1>1 DEF ToSet
<1>2. ToSet(o["file"]) = 1..Len(o["file"]) /\ Bad \notin ToSet(o["file"])
  BY <1>1 DEF WholeIn
<1>3. StoredIn(o, "file") = 1..Len(o["file"])
  BY <1>2 DEF StoredIn
<1>4. FoundIn(o) = StoredIn(o, "file")
  BY DEF FoundIn
<1> QED BY <1>3, <1>4

\* The event a run is about to write comes next in the file.
LEMMA NextInOrder ==
  ASSUME NEW r \in Runs, Sinks = {"file"}, Inv, CursorInv, OrderOK(run[r], out),
         WholeIn(out), run[r].pc = "page", run[r].batch # << >>
  PROVE  /\ run[r] \in Locals /\ run[r].sink = "file"
         /\ out \in [Sinks -> Seq(Ids \cup {Bad})]
         /\ out["file"] \in Seq(Ids \cup {Bad}) /\ Len(out["file"]) \in Nat
         /\ \A i \in 1..Len(out["file"]) : out["file"][i] = i
         /\ run[r].seen = 1..Len(out["file"])
         /\ Pos(run[r]) = Len(out["file"]) + 1 \/ Pos(run[r]) \in run[r].seen
<1> DEFINE R == run[r]
           e == Pos(R)
           q == out["file"]
<1>1. e \in Ids
  BY HeadOfPage
<1>2. R \in Locals /\ R.sink = "file" /\ PassedOK(R, chain, out) /\ R.start \in Nat
  BY Running, Parts
<1>3. /\ q \in Seq(Ids \cup {Bad}) /\ Len(q) \in Nat /\ Ids = 1..Len(chain)
      /\ Len(chain) \in Nat /\ out \in [Sinks -> Seq(Ids \cup {Bad})]
  BY StoredAreEvents DEF Inv, OutputInv
<1>4. \A d \in 1..Len(chain) : chain[d] < R.start => d \in FoundIn(out)
  BY <1>2, StrictlyKept DEF CursorInv, CursorIn
<1>5. /\ R.seen = 1..Len(q) /\ \A i \in 1..Len(q) : q[i] = i
      /\ FoundIn(out) = 1..Len(q)
  <2>1. R.seen = 1..Len(q) /\ \A i \in 1..Len(q) : q[i] = i
    BY <1>2 DEF OrderOK
  <2> QED BY <2>1, <1>3, OrderedFile
<1>6. e <= Len(q) + 1
  <2> SUFFICES ASSUME e > Len(q) + 1 PROVE FALSE
    BY <1>1, <1>3
  <2>1. e - 1 \in Ids /\ e - 1 < e /\ e - 1 \notin 1..Len(q)
    BY <1>1, <1>3
  <2>2. chain[e - 1] \in Int
    BY <2>1, ChainType DEF Ids, Inv, NetworkInv
  <2> HIDE DEF q
  <2>3. e - 1 \in FoundIn(out)
    BY <2>1, <2>2, <1>2, <1>3, <1>4, <1>5 DEF PassedOK
  <2> QED BY <2>1, <2>3, <1>5
<1>7. e = Len(q) + 1 \/ e \in 1..Len(q)
  BY <1>1, <1>3, <1>6
<1> QED BY <1>2, <1>3, <1>5, <1>7

\* A file in order stays so when the next event is appended.
LEMMA OrderOfAppend ==
  ASSUME NEW S, NEW q \in Seq(S), \A i \in 1..Len(q) : q[i] = i
  PROVE  /\ Len(Append(q, Len(q) + 1)) = Len(q) + 1
         /\ \A i \in 1..Len(q) + 1 : Append(q, Len(q) + 1)[i] = i
         /\ 1..Len(q) \cup {Len(q) + 1} = 1..Len(q) + 1
<1>1. /\ Len(q) \in Nat
      /\ \A e : /\ Len(Append(q, e)) = Len(q) + 1
                /\ \A i \in 1..Len(q) + 1 :
                     Append(q, e)[i] = IF i <= Len(q) THEN q[i] ELSE e
  OBVIOUS
<1> QED BY <1>1

\* A file that is whole was not glued to.
LEMMA WholeNotGlued ==
  ASSUME Inv, "file" \in Sinks, WholeIn(out'),
         \/ out' = [out EXCEPT !["file"] = Append(@, Bad)]
         \/ out' = [out EXCEPT !["file"] = Glued(@)] /\ out["file"] # << >>
  PROVE  FALSE
<1>1. out["file"] \in Seq(Ids \cup {Bad}) /\ out \in [Sinks -> Seq(Ids \cup {Bad})]
  BY DEF Inv, OutputInv
<1>2. /\ Bad \in ToSet(Append(out["file"], Bad))
      /\ out["file"] # << >> => Bad \in ToSet(Glued(out["file"]))
  BY <1>1, EndsOfSeq, GluedIsBroken
<1>3. \/ out'["file"] = Append(out["file"], Bad)
      \/ out'["file"] = Glued(out["file"]) /\ out["file"] # << >>
  BY <1>1
<1> QED BY <1>2, <1>3 DEF WholeIn

\* The run writes the event that comes next in the file.
LEMMA IngestKeepsOrder ==
  ASSUME NEW r \in Runs, Runs = {r}, Sinks = {"file"},
         Inv, CursorInv, OrderOK(run[r], out), Ingest(r)
  PROVE  OrderOK(run'[r], out')
<1> DEFINE R == run[r]
           e == Pos(R)
           q == out["file"]
<1>1. /\ R.pc = "page" /\ R.batch # << >>
      /\ Head(R.batch) = e
  BY HeadOfPage DEF Ingest
<1>2. /\ Grows(out, out')
      /\ WholeIn(out') => e \in StoredIn(out', R.sink)
      /\ \/ out' = out
         \/ out' = [out EXCEPT ![R.sink] = Append(@, e)] /\ e \notin R.seen
         \/ out' = [out EXCEPT ![R.sink] = Glued(@)] /\ out[R.sink] # << >>
  BY IngestWrites
<1> SUFFICES ASSUME WholeIn(out')
             PROVE  /\ \A i \in 1..Len(out'["file"]) : out'["file"][i] = i
                    /\ run'[r] \in Locals => run'[r].seen = 1..Len(out'["file"])
  BY DEF OrderOK
<1>3. WholeIn(out)
  BY <1>2 DEF Grows
<1>4. /\ R \in Locals /\ R.sink = "file" /\ q \in Seq(Ids \cup {Bad}) /\ Len(q) \in Nat
      /\ out \in [Sinks -> Seq(Ids \cup {Bad})]
      /\ \A i \in 1..Len(q) : q[i] = i
      /\ R.seen = 1..Len(q)
      /\ e = Len(q) + 1 \/ e \in R.seen
  BY <1>1, <1>3, NextInOrder
<1>5. run'[r].seen = R.seen \cup {e}
  <2>1. PICK b, m : run' = [run EXCEPT ![r].batch = b, ![r].seen = R.seen \cup {e},
                                       ![r].maxLedger = m]
    BY <1>1, <1>4 DEF Ingest
  <2>2. run'[r] = [R EXCEPT !.batch = b, !.seen = R.seen \cup {e}, !.maxLedger = m]
    BY <2>1 DEF Inv, RunInv
  <2> QED BY <2>2, <1>4 DEF Locals
<1>6. CASE out' = out
  <2>1. StoredIn(out, "file") = 1..Len(q)
    BY <1>3, <1>4, OrderedFile
  <2>2. e \in R.seen
    BY <2>1, <1>2, <1>4, <1>6
  <2> QED BY <2>2, <1>4, <1>5, <1>6
<1>7. CASE out' = [out EXCEPT !["file"] = Append(q, e)] /\ e \notin R.seen
  <2>1. e = Len(q) + 1 /\ out'["file"] = Append(q, e)
    BY <1>4, <1>7
  <2> HIDE DEF q, e
  <2>2. /\ Len(out'["file"]) = Len(q) + 1
        /\ \A i \in 1..Len(q) + 1 : out'["file"][i] = i
        /\ R.seen \cup {e} = 1..Len(q) + 1
    BY <2>1, <1>4, OrderOfAppend
  <2> QED BY <2>2, <1>5
<1>8. CASE out' = [out EXCEPT !["file"] = Glued(@)] /\ out["file"] # << >>
  BY <1>8, WholeNotGlued
<1> QED BY <1>2, <1>4, <1>6, <1>7, <1>8

\* What a kill leaves of the event that comes next in the file is no line that
\* parses, or the whole of it.
LEMMA CrashKeepsOrder ==
  ASSUME NEW r \in Runs, Sinks = {"file"},
         Inv, CursorInv, OrderOK(run[r], out), Crash(r)
  PROVE  OrderOK(run'[r], out')
<1>1. run' = [run EXCEPT ![r] = Idle] /\ Wreck(r)
  BY DEF Crash
<1>2. run'[r] \notin Locals
  BY <1>1 DEF Inv, RunInv, Idle, Locals
<1>3. /\ Grows(out, out')
      /\ \/ out' = out
         \/ out' = [out EXCEPT !["file"] = Append(@, Bad)] /\ "file" \in Sinks
         \/ /\ out' = [out EXCEPT !["file"] = Append(@, Pos(run[r]))]
            /\ run[r].pc = "page" /\ run[r].batch # << >> /\ run[r].sink = "file"
            /\ Pos(run[r]) \notin run[r].seen
         \/ /\ out' = [out EXCEPT !["file"] = Glued(@)]
            /\ "file" \in Sinks /\ out["file"] # << >>
  BY <1>1, WreckWrites
<1> SUFFICES ASSUME WholeIn(out')
             PROVE  \A i \in 1..Len(out'["file"]) : out'["file"][i] = i
  BY <1>2 DEF OrderOK
<1>4. WholeIn(out)
  BY <1>3 DEF Grows
<1>5. CASE out' = out
  BY <1>4, <1>5 DEF OrderOK
<1>6. CASE /\ out' = [out EXCEPT !["file"] = Append(@, Pos(run[r]))]
           /\ run[r].pc = "page" /\ run[r].batch # << >>
           /\ Pos(run[r]) \notin run[r].seen
  <2> DEFINE q == out["file"]
  <2>1. /\ out \in [Sinks -> Seq(Ids \cup {Bad})]
        /\ q \in Seq(Ids \cup {Bad}) /\ \A i \in 1..Len(q) : q[i] = i
        /\ Pos(run[r]) = Len(q) + 1
    BY <1>4, <1>6, NextInOrder
  <2>2. out'["file"] = Append(q, Len(q) + 1)
    BY <2>1, <1>6
  <2> HIDE DEF q
  <2> QED BY <2>1, <2>2, OrderOfAppend
<1> QED BY <1>3, <1>5, <1>6, WholeNotGlued

\* A run that is opened knows the events of the file.
LEMMA OpenKeepsOrder ==
  ASSUME NEW r \in Runs, Sinks = {"file"}, Inv, OrderOK(run[r], out), Open(r)
  PROVE  OrderOK(run'[r], out')
<1>1. out' = out /\ run[r].pc = "started" /\ run[r] \notin Locals
  BY DEF Open, Locals
<1>2. run'[r] \in Locals => run'[r].seen = Known("file")
  <2> DEFINE start == StartLedger(run[r].tip, cursorFile)
             v(s) == [pc |-> "fetch", tip |-> run[r].tip, start |-> start,
                      sink |-> s, maxLedger |-> start - 1, next |-> 0,
                      batch |-> << >>, short |-> FALSE, seen |-> Known(s)]
  <2>1. run' = [run EXCEPT ![r] = IF start > run[r].tip THEN Idle ELSE v("file")]
    BY DEF Open
  <2>2. run'[r] \in {Idle, v("file")} /\ Idle \notin Locals
    BY <2>1 DEF Inv, RunInv, Idle, Locals
  <2> QED BY <2>2
<1>3. ASSUME WholeIn(out), \A i \in 1..Len(out["file"]) : out["file"][i] = i
      PROVE  Known("file") = 1..Len(out["file"])
  <2>1. out["file"] \in Seq(Ids \cup {Bad})
    BY DEF Inv, OutputInv
  <2>2. StoredIn(out, "file") = 1..Len(out["file"])
    BY <2>1, <1>3, OrderedFile
  <2> QED BY <2>2 DEF Known, Stored, StoredIn
<1> QED BY <1>1, <1>2, <1>3 DEF OrderOK

\* Every step keeps the file in order.
LEMMA OrderKept ==
  ASSUME NEW r \in Runs, Runs = {r}, Sinks = {"file"},
         Inv, CursorInv, OrderOK(run[r], out), [Next]_vars
  PROVE  OrderOK(run'[r], out')
<1>1. run \in [Runs -> Values] /\ Idle \notin Locals
  BY DEF Inv, RunInv, Idle, Locals
<1>2. CASE CloseLedger \/ UNCHANGED vars
  BY <1>2 DEF CloseLedger, vars
<1>3. CASE Start(r)
  <2>1. run' = [run EXCEPT ![r] = [pc |-> "started", tip |-> tip]] /\ out' = out
    BY <1>3 DEF Start
  <2>2. run'[r] \notin Locals
    BY <2>1, <1>1 DEF Locals
  <2> QED BY <2>1, <2>2 DEF OrderOK
<1>4. CASE Open(r)
  BY <1>4, OpenKeepsOrder
<1>5. CASE Ingest(r)
  BY <1>5, IngestKeepsOrder
<1>6. CASE Fetch(r)
  <2> DEFINE ledger == IF run[r].next = 0 THEN run[r].start ELSE chain[run[r].next - 1]
             p(from) == Served(from, ledger)
             n(from) == IF p(from) = << >> THEN from ELSE Last(p(from)) + 1
  <2>1. PICK from : run' = [run EXCEPT ![r].pc = "page", ![r].batch = p(from),
                                       ![r].next = n(from), ![r].short = LastPage(p(from))]
    BY <1>6 DEF Fetch
  <2> HIDE DEF p, n
  <2>2. run'[r] = [run[r] EXCEPT !.pc = "page", !.batch = p(from), !.next = n(from),
                                 !.short = LastPage(p(from))]
    BY <2>1, <1>1
  <2>3. run[r] \in Locals /\ out' = out
    BY <1>6, Running DEF Fetch
  <2>4. run'[r].seen = run[r].seen
    BY <2>2, <2>3 DEF Locals
  <2> QED BY <2>3, <2>4 DEF OrderOK
<1>7. CASE EndPage(r)
  <2>1. PICK p : run' = [run EXCEPT ![r].pc = p]
    BY <1>7 DEF EndPage
  <2>2. run'[r] = [run[r] EXCEPT !.pc = p]
    BY <2>1, <1>1
  <2>3. run[r] \in Locals /\ out' = out
    BY <1>7, Running DEF EndPage
  <2>4. run'[r].seen = run[r].seen
    BY <2>2, <2>3 DEF Locals
  <2> QED BY <2>3, <2>4 DEF OrderOK
<1>8. CASE Save(r) \/ Fail(r)
  <2>1. run' = [run EXCEPT ![r] = Idle] /\ out' = out
    BY <1>8 DEF Save, Fail
  <2> QED BY <2>1, <1>1 DEF OrderOK
<1>9. CASE Crash(r)
  BY <1>9, CrashKeepsOrder
<1> QED BY <1>2, <1>3, <1>4, <1>5, <1>6, <1>7, <1>8, <1>9 DEF Next, RunStep

\* With one run at a time the NDJSON file is the chain's events in order, each
\* once, whatever kills and repeated pages there are, as long as its lines are
\* whole and the cold-start window makes no run pass events over.
THEOREM FileFollowsChain ==
  ASSUME NEW r \in Runs, Runs = {r}, Sinks = {"file"}
  PROVE  Spec /\ []NothingPassedOver => []OutputFollowsChain
<1> DEFINE Order == OrderOK(run[r], out)
<1>1. Init => CursorInv /\ Order
  <2> SUFFICES ASSUME Init PROVE CursorInv /\ Order
    OBVIOUS
  <2>1. out["file"] = << >> /\ run[r] = Idle
    BY DEF Init
  <2>2. Idle \notin Locals /\ Len(<< >>) = 0
    BY DEF Idle, Locals
  <2>3. CursorInv
    BY InitCursor DEF CursorInv
  <2> QED BY <2>1, <2>2, <2>3 DEF OrderOK
<1>2. Inv /\ CursorInv /\ NothingPassedOver /\ Order /\ [Next]_vars => CursorInv' /\ Order'
  BY StrictlyKept, OrderKept
<1>3. Order => OutputFollowsChain
  BY DEF OrderOK, OutputFollowsChain, Whole, WholeIn
<1> QED BY <1>1, <1>2, <1>3, InvHolds, PTL DEF Spec

-----------------------------------------------------------------------------
(* How often an event can be in an output.                                 *)

\* The runs that would write the event to the file if they came to it.
Ignorant(u, e) ==
  {r \in Runs : u[r] \in Locals /\ u[r].sink = "file" /\ e \notin u[r].seen}

\* Each copy in the file was written by a run that did not know of it.
CopiesOK(u, q, s, e) ==
  /\ s = "table" => Cardinality(Places(q, e)) <= 1
  /\ s = "file" /\ Places(q, e) # {} =>
       Cardinality(Places(q, e)) + Cardinality(Ignorant(u, e)) <= Cardinality(Runs)

CopiesInv == \A s \in Sinks, e \in Ids : CopiesOK(run, out[s], s, e)

\* Finite sets all.
LEMMA AllFinite ==
  ASSUME NEW u, NEW e, NEW S, NEW q \in Seq(S)
  PROVE  /\ IsFiniteSet(Places(q, e)) /\ Cardinality(Places(q, e)) \in Nat
         /\ IsFiniteSet(Ignorant(u, e)) /\ Cardinality(Ignorant(u, e)) \in Nat
         /\ Cardinality(Ignorant(u, e)) <= Cardinality(Runs)
         /\ IsFiniteSet(Runs) /\ Cardinality(Runs) \in Nat
<1>1. IsFiniteSet(Runs)
  BY IndexerAssumption
<1>2. DOMAIN q = 1..Len(q) /\ Len(q) \in Nat
  OBVIOUS
<1>3. IsFiniteSet(1..Len(q))
  BY <1>2, FS_Interval
<1>4. Places(q, e) \in SUBSET (1..Len(q)) /\ Ignorant(u, e) \in SUBSET Runs
  BY <1>2 DEF Places, Ignorant
<1>5. /\ IsFiniteSet(Places(q, e)) /\ IsFiniteSet(Ignorant(u, e))
      /\ Cardinality(Ignorant(u, e)) <= Cardinality(Runs)
  BY <1>1, <1>3, <1>4, FS_Subset
<1> QED BY <1>1, <1>5, FS_CardinalityType

\* A line more is a place more for its event and for no other.
LEMMA PlacesOfAppend ==
  ASSUME NEW S, NEW q \in Seq(S), NEW x, NEW e
  PROVE  /\ x # e => Places(Append(q, x), e) = Places(q, e)
         /\ Cardinality(Places(Append(q, e), e)) = Cardinality(Places(q, e)) + 1
<1>1. /\ DOMAIN q = 1..Len(q) /\ Len(q) \in Nat
      /\ DOMAIN Append(q, x) = 1..Len(q) + 1 /\ DOMAIN Append(q, e) = 1..Len(q) + 1
      /\ \A i \in 1..Len(q) : Append(q, x)[i] = q[i] /\ Append(q, e)[i] = q[i]
      /\ Append(q, x)[Len(q) + 1] = x /\ Append(q, e)[Len(q) + 1] = e
  OBVIOUS
<1> DEFINE n == Len(q) + 1
<1>2. 1..n = 1..Len(q) \cup {n} /\ n \notin 1..Len(q)
  BY <1>1
<1>3. x # e => Places(Append(q, x), e) = Places(q, e)
  BY <1>1, <1>2 DEF Places
<1>4. Places(Append(q, e), e) = Places(q, e) \cup {n} /\ n \notin Places(q, e)
  BY <1>1, <1>2 DEF Places
<1>5. IsFiniteSet(Places(q, e))
  BY AllFinite
<1>6. Cardinality(Places(q, e) \cup {n}) = Cardinality(Places(q, e)) + 1
  BY <1>4, <1>5, FS_AddElement
<1> QED BY <1>3, <1>4, <1>6

\* An event that is not in the output has no place in it.
LEMMA NoPlace ==
  ASSUME NEW q, NEW e
  PROVE  Places(q, e) = {} <=> e \notin ToSet(q)
BY DEF Places, ToSet

\* Fewer ignorant runs, and no more places, are no more than before.
LEMMA CopiesKept ==
  ASSUME NEW u, NEW u2, NEW S, NEW q \in Seq(S), NEW q2 \in Seq(S), NEW s, NEW e,
         CopiesOK(u, q, s, e), Places(q2, e) \subseteq Places(q, e),
         s = "file" /\ e \in ToSet(q) => Ignorant(u2, e) \subseteq Ignorant(u, e)
  PROVE  CopiesOK(u2, q2, s, e)
<1>1. /\ IsFiniteSet(Places(q, e)) /\ Cardinality(Places(q, e)) \in Nat
      /\ Cardinality(Places(q2, e)) \in Nat /\ Cardinality(Runs) \in Nat
      /\ IsFiniteSet(Ignorant(u, e)) /\ Cardinality(Ignorant(u, e)) \in Nat
      /\ Cardinality(Ignorant(u2, e)) \in Nat
  BY AllFinite
<1>2. Cardinality(Places(q2, e)) <= Cardinality(Places(q, e))
  BY <1>1, FS_Subset
<1>3. CASE s = "file" /\ Places(q2, e) # {}
  <2>1. Places(q, e) # {}
    BY <1>3
  <2>2. Ignorant(u2, e) \in SUBSET Ignorant(u, e)
    BY <2>1, <1>3, NoPlace
  <2>3. Cardinality(Ignorant(u2, e)) <= Cardinality(Ignorant(u, e))
    BY <2>2, <1>1, FS_Subset
  <2>4. s # "table"
    BY <1>3
  <2> QED BY <2>1, <2>3, <2>4, <1>1, <1>2, <1>3 DEF CopiesOK
<1>4. CASE s = "table"
  BY <1>1, <1>2, <1>4 DEF CopiesOK
<1> QED BY <1>3, <1>4 DEF CopiesOK

\* What the file holds, no run becomes ignorant of.
LEMMA IgnoranceShrinks ==
  ASSUME Inv, [Next]_vars, NEW e, e # Bad, "file" \in Sinks, e \in ToSet(out["file"])
  PROVE  Ignorant(run', e) \subseteq Ignorant(run, e)
<1> SUFFICES ASSUME NEW q \in Runs, run'[q] \in Locals, run'[q].sink = "file",
                    e \notin run'[q].seen
             PROVE  q \in Ignorant(run, e)
  BY DEF Ignorant
<1>1. e \in Known("file")
  BY DEF Known, Stored
<1> QED BY <1>1, LocalsComeFrom DEF Ignorant

\* Steps that write no line of an event.
LEMMA OthersCopyNothing ==
  ASSUME Inv, CopiesInv, [Next]_vars, NEW s \in Sinks, NEW e \in Ids',
         \/ out'[s] = out[s]
         \/ out'[s] = Append(out[s], Bad)
         \/ \E x : x # e /\ out'[s] = Append(out[s], x)
         \/ out'[s] = Glued(out[s]) /\ out[s] # << >>
  PROVE  CopiesOK(run', out'[s], s, e)
<1>1. /\ out[s] \in Seq(Ids \cup {Bad}) /\ StoredIn(out, s) \subseteq Ids
      /\ Inv' /\ Sinks # {}
  BY NextInv, StoredAreEvents DEF Inv, OutputInv
<1>2. /\ e # Bad /\ out'[s] \in Seq(Ids' \cup {Bad})
      /\ out[s] \in Seq(Nat \cup {Bad}) /\ out'[s] \in Seq(Nat \cup {Bad})
  <2>1. Ids' \subseteq Nat /\ Ids \subseteq Nat
    BY <1>1, ChainType DEF Ids, Inv, NetworkInv
  <2>2. e # Bad /\ out'[s] \in Seq(Ids' \cup {Bad})
    BY <2>1, <1>1, IndexerAssumption DEF Inv, OutputInv
  <2>3. Ids' \cup {Bad} \subseteq Nat \cup {Bad} /\ Ids \cup {Bad} \subseteq Nat \cup {Bad}
    BY <2>1
  <2> QED BY <2>2, <2>3, <1>1, SeqOfMore
<1>3. Places(out'[s], e) \subseteq Places(out[s], e)
  <2>1. ASSUME NEW x, x # e PROVE Places(Append(out[s], x), e) = Places(out[s], e)
    BY <2>1, <1>1, PlacesOfAppend
  <2>2. CASE \E x : x # e /\ out'[s] = Append(out[s], x)
    BY <2>1, <2>2
  <2>3. Bad # e
    BY <1>2
  <2>4. CASE out'[s] = Glued(out[s]) /\ out[s] # << >>
    BY <2>3, <2>4, <1>1, GluedIsBroken
  <2> QED BY <2>2, <2>3, <2>4
<1>4. CASE e \in ToSet(out[s])
  <2>1. CopiesOK(run, out[s], s, e)
    BY <1>1, <1>2, <1>4 DEF CopiesInv, StoredIn
  <2>2. s = "file" => Ignorant(run', e) \subseteq Ignorant(run, e)
    BY <1>2, <1>4, IgnoranceShrinks
  <2> QED BY <2>1, <2>2, <1>2, <1>3, CopiesKept
<1>5. CASE e \notin ToSet(out[s])
  <2>1. Places(out'[s], e) = {}
    BY <1>3, <1>5, NoPlace
  <2> QED BY <2>1, FS_EmptySet DEF CopiesOK
<1> QED BY <1>4, <1>5

\* A run that did not know of the event writes it to the table, which has not
\* got it, or to the file, and from then on knows of it or is over.
LEMMA WriterCopies ==
  ASSUME Inv, CopiesInv, NEW r \in Runs, run[r] \in Locals, Pos(run[r]) \in Ids,
         out' = [out EXCEPT ![run[r].sink] = Append(@, Pos(run[r]))],
         Pos(run[r]) \notin run[r].seen,
         run[r].sink = "table" => Pos(run[r]) \notin ToSet(out["table"]),
         run[r].sink = "file" => r \notin Ignorant(run', Pos(run[r])),
         \A z \in Runs \ {r} : run'[z] = run[z]
  PROVE  CopiesOK(run', out'[run[r].sink], run[r].sink, Pos(run[r]))
<1> DEFINE s == run[r].sink
           e == Pos(run[r])
           q == out[s]
<1>2. s \in Sinks
  BY Parts
<1>3. q \in Seq(Ids \cup {Bad}) /\ out'[s] = Append(q, e)
  BY <1>2 DEF Inv, OutputInv
<1>5. CopiesOK(run, q, s, e)
  BY <1>2 DEF CopiesInv
<1>6. Cardinality(Places(Append(q, e), e)) = Cardinality(Places(q, e)) + 1
  BY <1>3, PlacesOfAppend
<1>7. CASE s = "table"
  <2>1. Places(q, e) = {}
    BY <1>7, NoPlace
  <2>2. Cardinality(Places(q, e)) = 0
    BY <2>1, FS_EmptySet
  <2> QED BY <2>2, <1>3, <1>6, <1>7 DEF CopiesOK
<1>8. CASE s = "file"
  <2> DEFINE I == Ignorant(run, e)
  <2>1. r \in I
    BY <1>8 DEF Ignorant
  <2>2. Ignorant(run', e) \subseteq I \ {r}
    BY <1>8 DEF Ignorant
  <2>3. /\ IsFiniteSet(I) /\ Cardinality(I) \in Nat /\ Cardinality(I) <= Cardinality(Runs)
        /\ Cardinality(Places(q, e)) \in Nat /\ Cardinality(Runs) \in Nat
        /\ Cardinality(Ignorant(run', e)) \in Nat
    BY <1>3, AllFinite
  <2> HIDE DEF I
  <2>4. IsFiniteSet(I \ {r}) /\ Cardinality(I \ {r}) = Cardinality(I) - 1
    BY <2>1, <2>3, FS_RemoveElement
  <2>5. Cardinality(Ignorant(run', e)) <= Cardinality(I \ {r})
    BY <2>2, <2>4, FS_Subset
  <2>6. Cardinality(Places(q, e)) = 0 \/ Cardinality(Places(q, e)) + Cardinality(I) <= Cardinality(Runs)
    BY <1>5, <1>8, FS_EmptySet DEF CopiesOK, I
  <2>7. Cardinality(Places(Append(q, e), e)) + Cardinality(Ignorant(run', e)) <= Cardinality(Runs)
    BY <2>3, <2>4, <2>5, <2>6, <1>6
  <2> QED BY <2>7, <1>3, <1>8 DEF CopiesOK
<1> QED BY <1>2, <1>7, <1>8, IndexerAssumption

\* The run that writes a line as an event of its page.
LEMMA IngestCopies ==
  ASSUME Inv, CopiesInv, NEW r \in Runs, Ingest(r),
         out' = [out EXCEPT ![run[r].sink] = Append(@, Pos(run[r]))],
         Pos(run[r]) \notin run[r].seen,
         run[r].sink = "table" => Pos(run[r]) \notin ToSet(out["table"])
  PROVE  CopiesOK(run', out'[run[r].sink], run[r].sink, Pos(run[r]))
<1> DEFINE e == Pos(run[r])
<1>1. run[r].pc = "page" /\ run[r].batch # << >>
  BY DEF Ingest
<1>2. run[r] \in Locals /\ e \in Ids /\ Head(run[r].batch) = e
  BY <1>1, Running, HeadOfPage
<1>3. \A z \in Runs \ {r} : run'[z] = run[z]
  BY DEF Ingest, Inv, RunInv
<1>4. ASSUME run[r].sink = "file" PROVE e \in run'[r].seen
  <2>1. PICK b, m : run' = [run EXCEPT ![r].batch = b,
                                       ![r].seen = run[r].seen \cup {e},
                                       ![r].maxLedger = m]
    BY <1>2, <1>4 DEF Ingest
  <2>2. run'[r] = [run[r] EXCEPT !.batch = b, !.seen = run[r].seen \cup {e},
                                 !.maxLedger = m]
    BY <2>1 DEF Inv, RunInv
  <2> QED BY <2>2, <1>2 DEF Locals
<1>5. run[r].sink = "file" => r \notin Ignorant(run', e)
  BY <1>4 DEF Ignorant
<1> QED BY <1>2, <1>3, <1>5, WriterCopies

\* The run that is killed with the whole line written.
LEMMA CrashCopies ==
  ASSUME Inv, CopiesInv, NEW r \in Runs, Crash(r),
         out' = [out EXCEPT !["file"] = Append(@, Pos(run[r]))],
         run[r].pc = "page", run[r].batch # << >>, run[r].sink = "file",
         Pos(run[r]) \notin run[r].seen
  PROVE  CopiesOK(run', out'["file"], "file", Pos(run[r]))
<1>1. run[r] \in Locals /\ Pos(run[r]) \in Ids
  BY Running, HeadOfPage
<1>2. run'[r] = Idle /\ \A z \in Runs \ {r} : run'[z] = run[z]
  BY DEF Crash, Inv, RunInv
<1>3. r \notin Ignorant(run', Pos(run[r]))
  BY <1>2 DEF Ignorant, Idle, Locals
<1>4. out' = [out EXCEPT ![run[r].sink] = Append(@, Pos(run[r]))]
  OBVIOUS
<1>5. CopiesOK(run', out'[run[r].sink], run[r].sink, Pos(run[r]))
  BY <1>1, <1>2, <1>3, <1>4, WriterCopies
<1> QED BY <1>5

\* Every step keeps the copies within bounds.
LEMMA CopiesStep ==
  ASSUME Inv, CopiesInv, [Next]_vars
  PROVE  CopiesInv'
<1> SUFFICES ASSUME NEW s \in Sinks, NEW e \in Ids' PROVE CopiesOK(run', out'[s], s, e)
  BY DEF CopiesInv
<1>1. out \in [Sinks -> Seq(Ids \cup {Bad})]
  BY DEF Inv, OutputInv
<1>2. CASE out' = out
  BY <1>2, OthersCopyNothing
<1>3. ASSUME NEW r \in Runs, Crash(r) PROVE CopiesOK(run', out'[s], s, e)
  <2> DEFINE x == Pos(run[r])
  <2>1. \/ out' = out
        \/ out' = [out EXCEPT !["file"] = Append(@, Bad)] /\ "file" \in Sinks
        \/ /\ out' = [out EXCEPT !["file"] = Append(@, x)]
           /\ run[r].pc = "page" /\ run[r].batch # << >> /\ run[r].sink = "file"
           /\ x \notin run[r].seen
        \/ /\ out' = [out EXCEPT !["file"] = Glued(@)]
           /\ "file" \in Sinks /\ out["file"] # << >>
    BY <1>3, WreckWrites DEF Crash
  <2>2. CASE /\ out' = [out EXCEPT !["file"] = Append(@, x)]
             /\ run[r].pc = "page" /\ run[r].batch # << >> /\ run[r].sink = "file"
             /\ x \notin run[r].seen
    <3>1. CASE s = "file" /\ e = x
      BY <2>2, <3>1, <1>3, CrashCopies
    <3>2. CASE ~(s = "file" /\ e = x)
      <4>1. out'[s] = out[s] \/ (out'[s] = Append(out[s], x) /\ x # e)
        BY <2>2, <3>2, <1>1
      <4> QED BY <4>1, OthersCopyNothing
    <3> QED BY <3>1, <3>2
  <2>3. CASE \/ out' = out
             \/ out' = [out EXCEPT !["file"] = Append(@, Bad)] /\ "file" \in Sinks
             \/ /\ out' = [out EXCEPT !["file"] = Glued(@)]
                /\ "file" \in Sinks /\ out["file"] # << >>
    <3>1. \/ out'[s] = out[s]
          \/ out'[s] = Append(out[s], Bad)
          \/ out'[s] = Glued(out[s]) /\ out[s] # << >>
      BY <2>3, <1>1
    <3> QED BY <3>1, OthersCopyNothing
  <2> QED BY <2>1, <2>2, <2>3
<1>4. ASSUME NEW r \in Runs, Ingest(r) PROVE CopiesOK(run', out'[s], s, e)
  <2> DEFINE k == run[r].sink
             x == Pos(run[r])
  <2>1. CASE /\ out' = [out EXCEPT ![k] = Append(@, x)]
             /\ x \notin run[r].seen
             /\ k = "table" => x \notin ToSet(out["table"])
    <3>1. CASE s = k /\ e = x
      BY <2>1, <3>1, <1>4, IngestCopies
    <3>2. CASE ~(s = k /\ e = x)
      <4>1. out'[s] = out[s] \/ (out'[s] = Append(out[s], x) /\ x # e)
        BY <2>1, <3>2, <1>1
      <4> QED BY <4>1, OthersCopyNothing
    <3> QED BY <3>1, <3>2
  <2>2. CASE out' = [out EXCEPT ![k] = Glued(@)] /\ out[k] # << >>
    <3>1. out'[s] = out[s] \/ (out'[s] = Glued(out[s]) /\ out[s] # << >>)
      BY <2>2, <1>1
    <3> QED BY <3>1, OthersCopyNothing
  <2> QED BY <2>1, <2>2, <1>2, <1>4, IngestWrites
<1>5. ASSUME NEW r \in Runs,
             Start(r) \/ Open(r) \/ Fetch(r) \/ EndPage(r) \/ Save(r) \/ Fail(r)
      PROVE  out' = out
  BY <1>5 DEF Start, Open, Fetch, EndPage, Save, Fail
<1>6. CloseLedger \/ UNCHANGED vars => out' = out
  BY DEF CloseLedger, vars
<1> QED BY <1>2, <1>3, <1>4, <1>5, <1>6 DEF Next, RunStep

\* The table has no event twice and the file none more often than runs can
\* overlap, also when runs are killed half way through a line or before its
\* newline: a line is written by a run that did not know of it, and then knows.
THEOREM CopiesStayBounded == Spec => []CopiesBounded
<1>1. Init => CopiesInv
  BY DEF Init, CopiesInv, Ids
<1>2. Inv /\ CopiesInv => CopiesBounded
  <2> SUFFICES ASSUME Inv, CopiesInv, NEW s \in Sinks, NEW e \in Ids
               PROVE  Cardinality({i \in DOMAIN out[s] : out[s][i] = e}) <=
                        IF s = "table" THEN 1 ELSE Cardinality(Runs)
    BY DEF CopiesBounded
  <2>1. out[s] \in Seq(Ids \cup {Bad}) /\ CopiesOK(run, out[s], s, e)
    BY DEF Inv, OutputInv, CopiesInv
  <2>2. /\ Cardinality(Places(out[s], e)) \in Nat /\ Cardinality(Runs) \in Nat
        /\ Cardinality(Ignorant(run, e)) \in Nat
    BY <2>1, AllFinite
  <2>3. s = "file" \/ s = "table"
    BY IndexerAssumption
  <2>4. Places(out[s], e) = {} => Cardinality(Places(out[s], e)) = 0
    BY FS_EmptySet
  <2>5. Cardinality(Places(out[s], e)) <= IF s = "table" THEN 1 ELSE Cardinality(Runs)
    BY <2>1, <2>2, <2>3, <2>4 DEF CopiesOK
  <2> QED BY <2>5 DEF Places
<1> QED BY <1>1, <1>2, InvHolds, CopiesStep, PTL DEF Spec
=============================================================================
