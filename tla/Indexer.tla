------------------------------ MODULE Indexer ------------------------------
(***************************************************************************)
(* The event indexer: a run started by hand or by cron reads the contract  *)
(* events from the RPC node page by page, appends the new ones to its      *)
(* output and saves the largest ledger it ingested as the cursor of the    *)
(* next run.  A run may fail or be killed at any point, and nothing stops  *)
(* two runs from overlapping.                                              *)
(*                                                                         *)
(* An event is the number of its position in the chain (the order of RPC   *)
(* event ids); `chain[e]` is its ledger.  Decoding is left out.  There are *)
(* two outputs, the NDJSON file and the table; each run writes to one, as  *)
(* its environment says, and all runs share one cursor file.               *)
(***************************************************************************)
EXTENDS Integers, FiniteSetsExt, SequencesExt

CONSTANTS
  Runs,               \* slots for concurrent runs
  Sinks,              \* the outputs runs are started with: "file", "table"
  PAGE_LIMIT,         \* events per getEvents page
  COLD_START_WINDOW,  \* ledgers a cold start goes back
  Retention,          \* ledgers the RPC node keeps events for
  ScanLimit,          \* ledgers the RPC node looks through for a page
  Bad,                \* a line that does not parse
  MaxLedger,          \* bound: the last ledger closed
  MaxEvents,          \* bound: events published
  MaxPerLedger,       \* bound: events in a ledger
  MaxCrashes          \* bound: runs killed or failed

ASSUME IndexerAssumption ==
  /\ PAGE_LIMIT \in Nat \ {0} /\ COLD_START_WINDOW \in Nat
  /\ {Retention, ScanLimit} \subseteq Nat \ {0}
  /\ Sinks \subseteq {"file", "table"}
  /\ Bad \notin Nat
  /\ IsFiniteSet(Runs)
  /\ {MaxLedger, MaxEvents, MaxPerLedger, MaxCrashes} \subseteq Nat
  /\ MaxLedger >= 2

VARIABLES
  tip,         \* the network's latest ledger
  chain,       \* ledger of every published event
  out,         \* each output, in order of writing
  halfLine,    \* the file ends without a newline
  cursorFile,  \* .last-ledger, 0 when it is missing or empty
  run,         \* the locals of each run
  crashes      \* runs killed or failed so far

vars == <<tip, chain, out, halfLine, cursorFile, run, crashes>>

Idle == [pc |-> "idle"]

TypeOK ==
  /\ tip \in 2..MaxLedger
  /\ chain \in Seq(2..MaxLedger)
  /\ out \in [Sinks -> Seq(Nat \cup {Bad})]
  /\ halfLine \in BOOLEAN
  /\ cursorFile \in 0..MaxLedger
  /\ crashes \in 0..MaxCrashes
  /\ \A r \in Runs :
       \/ run[r] = Idle
       \/ run[r].pc = "started" /\ run[r].tip \in 2..tip
       \/ /\ run[r].pc \in {"fetch", "page", "save"}
          /\ run[r].sink \in Sinks /\ run[r].start \in 2..MaxLedger
          /\ run[r].maxLedger \in run[r].start - 1 .. MaxLedger
          /\ run[r].next \in 0 .. Len(chain) + 1
          /\ run[r].batch \in Seq(1..Len(chain))
          /\ run[r].seen \subseteq 1..Len(chain)

Init ==
  /\ tip = 2
  /\ chain = << >>
  /\ out = [s \in Sinks |-> << >>]
  /\ halfLine = FALSE
  /\ cursorFile = 0
  /\ run = [r \in Runs |-> Idle]
  /\ crashes = 0

Ids == 1..Len(chain)

\* The ids a reader of an output finds: what NdjsonSink's constructor parses.
Stored(s) == ToSet(out[s]) \ {Bad}

-----------------------------------------------------------------------------
(* The network.                                                            *)

CloseLedger ==
  /\ tip < MaxLedger
  /\ tip' = tip + 1
  /\ \E n \in 0..MaxPerLedger :
       /\ Len(chain) + n <= MaxEvents
       /\ chain' = chain \o [i \in 1..n |-> tip + 1]
  /\ UNCHANGED <<out, halfLine, cursorFile, run, crashes>>

Oldest == Max({2, tip - Retention + 1})

-----------------------------------------------------------------------------
(* A run.                                                                  *)

\* getLatestLedger.
Start(r) ==
  /\ run[r] = Idle
  /\ run' = [run EXCEPT ![r] = [pc |-> "started", tip |-> tip]]
  /\ UNCHANGED <<tip, chain, out, halfLine, cursorFile, crashes>>

\* Mutant: a cold start asks for ledgers no node has.
StartLedger_NoFloor(atTip, last) == last + 1

StartLedger(atTip, last) ==
  LET floor == Max({2, atTip - COLD_START_WINDOW})
  IN  IF last + 1 > floor THEN last + 1 ELSE floor

\* Mutant: the sink does not read the file back.
Known_Nothing(s) == {}

\* The ids the sink knows when it is opened; the table knows them by itself.
Known(s) == IF s = "table" THEN {} ELSE Stored(s)

\* Reads the cursor file, then opens the sink of its environment; a run with
\* nothing to fetch is over.  One step: what another run writes between the two
\* reads is only known the better to this one.
Open(r) ==
  LET start == StartLedger(run[r].tip, cursorFile)
  IN  /\ run[r].pc = "started"
      /\ \E s \in Sinks :
           run' = [run EXCEPT ![r] =
                     IF start > run[r].tip THEN Idle
                     ELSE [pc |-> "fetch", tip |-> run[r].tip, start |-> start,
                           sink |-> s, maxLedger |-> start - 1, next |-> 0,
                           batch |-> << >>, short |-> FALSE,
                           seen |-> Known(s)]]
      /\ UNCHANGED <<tip, chain, out, halfLine, cursorFile, crashes>>

FirstFrom(start) == Min({e \in Ids : chain[e] >= start} \cup {Len(chain) + 1})

\* What the RPC node serves: the events from one on, in order, at most
\* PAGE_LIMIT of them and none beyond the ledgers it looks through.
Served(from, ledger) ==
  LET end == Min({PAGE_LIMIT + from, FirstFrom(ledger + ScanLimit)})
  IN  [i \in 1 .. Max({0, end - from}) |-> from + i - 1]

\* The node refuses a start or a cursor it no longer keeps: see Fail.
RpcAccepts(r) ==
  IF run[r].next = 0 THEN run[r].start >= Oldest
  ELSE chain[run[r].next - 1] >= Oldest

\* Mutant: a full page is taken for the last one.
LastPage_WhenFull(page) == Len(page) <= PAGE_LIMIT

LastPage(page) == Len(page) < PAGE_LIMIT

\* A page; the node may repeat the last event of the page before.
Fetch(r) ==
  /\ run[r].pc = "fetch"
  /\ RpcAccepts(r)
  /\ \E from \in IF run[r].next = 0 THEN {FirstFrom(run[r].start)}
                 ELSE {run[r].next, run[r].next - 1} :
       LET ledger == IF run[r].next = 0 THEN run[r].start
                     ELSE chain[run[r].next - 1]
           page == Served(from, ledger)
       IN  run' = [run EXCEPT
                     ![r].pc = "page",
                     ![r].batch = page,
                     ![r].next = IF page = << >> THEN from ELSE Last(page) + 1,
                     ![r].short = LastPage(page)]
  /\ UNCHANGED <<tip, chain, out, halfLine, cursorFile, crashes>>

\* Mutant: the insert has no conflict clause.
Written_NoConflict(s, e) == Append(out[s], e)

\* What is appended to a file that ends without a newline becomes one line
\* with what is there, whole or half, and no line that parses.
Glued(lines) == [lines EXCEPT ![Len(lines)] = Bad]

\* sink.write: a line appended to the file, or an insert that does nothing on a
\* conflict.
Written(s, e) ==
  IF s = "table"
  THEN IF e \in Stored(s) THEN out[s] ELSE Append(out[s], e)
  ELSE IF halfLine THEN Glued(out[s]) ELSE Append(out[s], e)

\* One event of the page: skipped if the sink has it, written otherwise.  The
\* largest ledger follows the events written, not those skipped.
Ingest(r) ==
  LET e == Head(run[r].batch)
      s == run[r].sink
      new == e \notin run[r].seen
  IN  /\ run[r].pc = "page" /\ run[r].batch # << >>
      /\ out' = IF new THEN [out EXCEPT ![s] = Written(s, e)] ELSE out
      /\ halfLine' = (halfLine /\ ~(new /\ s = "file"))
      /\ run' = [run EXCEPT
                   ![r].batch = Tail(@),
                   ![r].seen = IF s = "table" THEN @ ELSE @ \cup {e},
                   ![r].maxLedger = IF new THEN Max({@, chain[e]}) ELSE @]
      /\ UNCHANGED <<tip, chain, cursorFile, crashes>>

\* Mutant: the cursor is saved after every page.
EndPage_SavesCursor(r) ==
  /\ run[r].pc = "page" /\ run[r].batch = << >>
  /\ run' = [run EXCEPT ![r].pc = IF run[r].short THEN "save" ELSE "fetch"]
  /\ cursorFile' = IF run[r].maxLedger >= run[r].start
                   THEN run[r].maxLedger ELSE cursorFile
  /\ UNCHANGED <<tip, chain, out, halfLine, crashes>>

\* A short page is the last one.
EndPage(r) ==
  /\ run[r].pc = "page" /\ run[r].batch = << >>
  /\ run' = [run EXCEPT ![r].pc = IF run[r].short THEN "save" ELSE "fetch"]
  /\ UNCHANGED <<tip, chain, out, halfLine, cursorFile, crashes>>

Save(r) ==
  /\ run[r].pc = "save"
  /\ cursorFile' = IF run[r].maxLedger >= run[r].start
                   THEN run[r].maxLedger ELSE cursorFile
  /\ run' = [run EXCEPT ![r] = Idle]
  /\ UNCHANGED <<tip, chain, out, halfLine, crashes>>

-----------------------------------------------------------------------------
(* Failure: any await may throw, and the process may be killed.            *)

\* A kill while a line is appended leaves half of it in the file, or the whole
\* of it without its newline.
CutLine(r) ==
  /\ run[r].pc = "page" /\ run[r].batch # << >>
  /\ run[r].sink = "file" /\ Head(run[r].batch) \notin run[r].seen
  /\ \/ halfLine /\ out' = [out EXCEPT !.file = Glued(@)]
     \/ /\ ~halfLine
        /\ \E line \in {Bad, Head(run[r].batch)} :
             out' = [out EXCEPT !.file = Append(@, line)]
  /\ halfLine' = TRUE
  /\ UNCHANGED cursorFile

\* A kill while the cursor file is written over leaves it empty.
EmptiedCursor(r) ==
  /\ run[r].pc = "save" /\ run[r].maxLedger >= run[r].start
  /\ cursorFile' = 0
  /\ UNCHANGED <<out, halfLine>>

\* What a kill leaves behind it, beyond the locals that are lost.
Wreck(r) ==
  \/ UNCHANGED <<out, halfLine, cursorFile>>
  \/ CutLine(r)
  \/ EmptiedCursor(r)

Crash(r) ==
  /\ run[r] # Idle
  /\ crashes < MaxCrashes
  /\ crashes' = crashes + 1
  /\ Wreck(r)
  /\ run' = [run EXCEPT ![r] = Idle]
  /\ UNCHANGED <<tip, chain>>

\* The node's refusal ends the run with exit code 1.
Fail(r) ==
  /\ run[r].pc = "fetch" /\ ~RpcAccepts(r)
  /\ run' = [run EXCEPT ![r] = Idle]
  /\ UNCHANGED <<tip, chain, out, halfLine, cursorFile, crashes>>

RunStep(r) ==
  Open(r) \/ Fetch(r) \/ Ingest(r) \/ EndPage(r) \/ Save(r) \/ Fail(r)

Next ==
  \/ CloseLedger
  \/ \E r \in Runs : Start(r) \/ RunStep(r) \/ Crash(r)

Spec == Init /\ [][Next]_vars

\* cron keeps starting runs, and a run that is not killed gets on.
FairSpec == Spec /\ \A r \in Runs : WF_vars(Start(r)) /\ WF_vars(RunStep(r))

-----------------------------------------------------------------------------
(* Properties                                                              *)

\* No line of the file was cut in two by a kill, or glued to another.
Whole == \A s \in Sinks : Bad \notin ToSet(out[s])

Ingested == UNION {Stored(s) : s \in Sinks}

\* As long as the lines of the file are whole, the shared cursor runs ahead of
\* what was written only over what a cold-start window passed over: every event
\* of a ledger up to the saved one is in the file or in the table, or is older
\* than the window, whichever runs were killed, overlapped, reordered, came back
\* after a long stop or started with the other output, and wherever the node
\* ended a page.  It says so of the two outputs together: one output may miss
\* what the other has (index.ts:149-163, 179-203).
GapsOnlyBeforeWindow ==
  Whole => \A e \in Ids :
    chain[e] <= cursorFile => e \in Ingested \/ chain[e] < tip - COLD_START_WINDOW

\* With nothing passed over and every line whole, then, there is no gap at all.
NoGapBelowCursor ==
  Whole => \A e \in Ids : chain[e] <= cursorFile => e \in Ingested

\* With one run at a time the NDJSON file is the chain's events in order,
\* each once, up to some point, while its lines are whole: killed runs and
\* repeated pages leave no duplicate, hole or disorder (index.ts:80-102,
\* README.md:41-44).
OutputFollowsChain ==
  Whole => \A i \in 1..Len(out["file"]) : out["file"][i] = i

\* The table has no event twice, and the file none more often than runs can
\* overlap, also when runs are killed half way through a line or before its
\* newline: each run knows what was in the file when it started, and what it
\* wrote (index.ts:80-102, 129-137).
CopiesBounded ==
  \A s \in Sinks, e \in Ids :
    Cardinality({i \in DOMAIN out[s] : out[s][i] = e}) <=
      IF s = "table" THEN 1 ELSE Cardinality(Runs)

\* A run that reaches its end normally is a full catch-up: it has ingested
\* every event published up to the ledger it read as the tip and within the
\* node's scan limit, however the pages fell and the chain grew meanwhile
\* (index.ts:147-160, 172-201).
FinishedRunCaughtUp ==
  \A r \in Runs :
    Whole /\ run[r].pc = "save" =>
      \A e \in Ids :
        /\ run[r].start <= chain[e]
        /\ chain[e] <= Min({run[r].tip, run[r].start + ScanLimit - 1})
        => e \in Ingested

\* Every published event is eventually in the output although runs are
\* killed, as long as runs keep being started and the node looks through the
\* ledgers asked for (index.ts:4-12).
EveryEventIngested ==
  \A e \in 1..MaxEvents : Len(chain) >= e ~> (e \in Ingested \/ ~Whole)

-----------------------------------------------------------------------------
(* What comments and documents claim and the code does not do.             *)

\* "The run is idempotent: it resumes from the last ingested ledger"
\* (indexer/README.md:21-23): a killed run is made good by the next ones, so
\* what lies below the cursor is in the output.
KilledRunIsMadeGood ==
  \A e \in Ids : chain[e] <= cursorFile => e \in Ingested

\* "Resume from last ingested ledger + 1 ... Clamp to the retention floor"
\* (index.ts:149-150): what a resumed run passes over, the node has dropped.
SkipsOnlyDropped ==
  \A r \in Runs :
    run[r].pc = "fetch" /\ run[r].next = 0 /\ cursorFile # 0 =>
      \A e \in Ids :
        cursorFile < chain[e] /\ chain[e] < run[r].start => chain[e] < Oldest
=============================================================================
