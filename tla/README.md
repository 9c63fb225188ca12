# Formal models of the Stellar BRL corridor

TLA+ modules for the parts of this repository that have state and logic of
their own: the three Soroban contracts under `contracts/`, the event indexer
under `indexer/`, the TypeScript SDK with its generated bindings, and the script
that deploys the contracts. TLC checks them on small instances; TLAPS proves
their safety properties, and the three refinements, for every instance. `PROJECT.json` lists the
runs, the source lines behind every definition, the hazards of the code and the
theorems.

    tlc -workers 2 -config FxRateLock.cfg MCFxRateLock    # a run: cfg, module
    tlapm FxRateLockProofs.tla                            # the proofs

## 1. Inventory

| Part | State | Operations | Status |
|---|---|---|---|
| `contracts/fx-rate-lock` | one temporary-storage row per quote id; the admin | `lock_quote`, `consume_quote`, `get_quote`, `is_active`, admin lifecycle | `FxRateLock`, `QuoteBook` |
| `contracts/partner-attribution` | a persistent row per partner, the running `TotalBps`, the SAC address; the admin | `set_partner`, `remove_partner`, `settle_split`, four SAC passthroughs, admin lifecycle | `PartnerAttribution`, `RevenueSplit` |
| `contracts/card-collateral-poc` | a persistent row per authorization, the pause flag; the admin | `reserve`, `settle`, `release`, `pause`, `unpause`, admin lifecycle | `CardCollateral`, `CollateralBook` |
| host and OpenZeppelin access control (dependencies) | ledger sequence, stored admin, pending handover in temporary storage; the members, admin role and list of roles | ledger close, `transfer_admin_role`, `accept_admin_transfer`, `renounce_admin`; `grant_role`, `revoke_role`, `renounce_role`, `set_role_admin` | `AccessControl`, `Roles` (external) |
| `indexer/` | NDJSON file and table, `.last-ledger` cursor, the locals of a run | one run: read cursor, page through `getEvents`, write, save | `Indexer` |
| generated bindings, `sdk/typescript/src/generated/` | an assembled transaction: the call, who must sign it, its simulated result | one method per contract call; `fromJSON`; `deploy` | `FxClient`, `PartnerClient` |
| SDK, `sdk/typescript/src/contracts.ts` and its example | the addresses, the client, three open reads | `addressesFromDeployment`, `corridorClients`, the live read | `LiveRead` |
| `scripts/deploy_testnet.sh` | `deployments/<network>.json` | header, three deployments, footer | `LiveRead` |
| `scripts/demo_testnet.sh` | testnet records | a sequence of CLI calls | planned |
| Python SDK, `anchor-platform/`, `apps/`, `docs/`, CI | none of their own | placeholder, configuration, stubs | not modelled |

**How they interact.** The contracts do not call each other. Their common
client is the anchor's business server (the contract admin), which is not in
the repository: any sequence of calls by any account is possible, and a ledger
may close between any two of them. It reaches them through the generated
bindings, whose methods simulate a call now and have it signed and sent later.
`partner-attribution` calls the wrapped Stellar Asset Contract in the middle of
its loop. The contracts publish events; the indexer reads those from an RPC node
that forgets old ledgers. The deployment record `deployments/testnet.json`,
written by the deploy script, tells the indexer, the demo and the SDK which
contracts to talk to.

**What is hard.** Each contract call is one serial transaction, so the
difficulty is not parallelism inside a contract; it is

* *time*: a quote's logical expiry, its row's storage life and its one-shot flag
  are separate, and every ledger close and every re-lock moves them;
* *call sequences*: re-locking, re-registering, re-reserving, late and repeated
  clearings, handing over or renouncing the admin with work outstanding;
* *failure half way*: a transfer that traps in the loop of `settle_split`;
* *integers*: shares rounded one at a time, checked `i128` and `u32` arithmetic;
* *for the clients*: what a simulation showed is stale when the call is applied,
  and several reads are answered in ledgers of their own;
* *for the indexer*: kills at any point, torn writes, overlapping runs with one
  cursor for two outputs, repeated events, ledgers split over pages, retention
  and scan limits;
* *for the deploy script*: an abort between any two commands.

**What makes each part correct** is the list of properties in section 3.

## 2. Modules

| Module | Role |
|---|---|
| `AccessControl` | ledger clock and admin lifecycle, extended by the three contract modules; `Roles` adds the roles |
| `FxRateLock` | the rate lock; `QuoteBook` is the abstract offer book; `MCFxRateLock` has TLC's values; `FxRateLockProofs` the proofs |
| `PartnerAttribution` | the registry, the token and `settle_split`; `RevenueSplit` is the abstract atomic split; `MCPartnerAttribution`; `PartnerAttributionProofs` |
| `CardCollateral` | the collateral vault; `CollateralBook` is the abstract book of accounts; `MCCardCollateral`; `CardCollateralProofs` |
| `UnitSums` | the sum of a function over a set, in a form without recursion; `UnitSumsProofs` has its lemmas |
| `FxClient` | composes `FxRateLock` and `Roles` with one user of the generated client; `MCFxClient`; `FxClientProofs` |
| `PartnerClient` | composes `PartnerAttribution` with one user of its client; `MCPartnerClient`; `PartnerClientProofs` |
| `LiveRead` | the deploy script, the record, the SDK's factories and its live-read example; `MCLiveRead`; `LiveReadProofs` |
| `Indexer` | runs of the indexer against the network and the RPC node; `MCIndexer`; `IndexerProofs` |

Conventions. `XAnswer` is what call `X` answers, with the checks in the code's
order; action `X` is its effect when the answer is `"Ok"`. A refused call is
rolled back by the host and is a stuttering step. A definition called `Y_Something`
and marked *Mutant* is a plausible bug in `Y`: no specification uses it, and
putting it in the place of `Y` makes the property named in `PROJECT.json` fail.

**FxRateLock.** `rows` is the temporary storage: the code's `Quote` plus
`liveUntil`, the host's deletion ledger. `LockQuote` is `set` then `extend_ttl`
(lib.rs:154-160), so an old row's life counts, and a life beyond the host's limit
or past the last ledger number traps. `ConsumeQuote` sets the flag (198-199). `CloseLedger` advances the clock
and deletes what is past its life. `locks` and `uses` record the `QuoteLocked`
and `QuoteUse` events with the ledger of each; `uses[..].nth` is the number of
locks before the use. No action reads these two except to bound the number of
locks.

**PartnerAttribution.** `partners` and `totalBps` are the code's storage. The
token is a balance per holder, the set of holders whose trustline is missing or
deauthorized, and its admin. `settle_split` is small-step: `SettleBegin`, then
`PayPartner` once per listed partner, then `SettleReturn`; an iteration that
answers an error is `Revert`, which restores the balances of `call.before` and
drops the events. No other transaction starts while the frame is open. The order
of checks in `StepAnswer` is that of lines 208-226. A zero share makes no
transfer, so it needs neither a signature nor funds.

**CardCollateral.** `rows` is the storage and `log` the events, which form
episodes per authorization id since an id is free again after `release`.
`CollateralBook` is what the vault promises of an authorization, without storage
or events: what it holds, what it has spent, and running totals of what was ever
posted, spent and returned. `Book` reads the totals off the log, so the
refinement says that the events alone are the books; and that a renounced admin
closes them for good, also with a handover pending and authorizations open.

**Indexer.** An event is its position in the chain, `chain[e]` its ledger. A run
is `Start` (reads the tip), `Open` (reads the cursor file, then opens the file or
the table, as the run's environment says, and for the file reads its ids), then
`Fetch`, `Ingest` (one event), `EndPage`, and `Save`. The node answers at most
`PAGE_LIMIT` events from a start ledger or after a cursor, none beyond the
`ScanLimit` ledgers it looks through, may repeat the last event of the page
before, and refuses (`Fail`) what it has dropped. `Crash` kills a run anywhere;
`Wreck` is what it may leave: half a line or a whole one without its newline
(`CutLine`), to which the next append is glued (`Glued`), so that neither can be
read, or an emptied cursor file (`EmptiedCursor`). Up to `Cardinality(Runs)` runs
overlap, and all of them share `cursorFile`. `Open` is one step: if another
process appends and saves between the two reads of the code, the cursor read is
older than the ids, as it is for a run that opens between another's last append
and its `Save`.

**FxClient.** A call is a record of the method, its arguments and `by`, the
account the simulation found must authorize it. `Assemble` is a method call: the
simulation's `Answer` must be `"Ok"`, and `Returns` is its result. `Send` is
`signAndSend`, by whoever holds the transaction by then (`fromJSON`): the
contract answers once more. The methods that only read are operators of the
same names over the contract's state. `EnumStart` and `EnumRead` read a role's
members as the bindings tell to (count, then each index). `Direct` is every step
of everybody else: `Next` of `FxRateLock` or `RoleCall` of `Roles`, so the
client adds no behaviour to the contract and only looks at it. `shown`,
`scan.kept` and `scan.left` are kept for the properties. A member that leaves
gives its index to the last one; the bindings promise an index for each member
and no order.

**PartnerClient.** The same for `partner-attribution`. `Accepts` is the
simulation of a call other than `settle_split`. A settlement is simulated by the
code that executes it: `Assemble` is `SettleBegin` on a copy of the ledger, the
loop runs in `PartnerAttribution`'s small steps (`Settling`), and
`SimulationEnds` reads off the result and drops the effects, or there is nothing
to send if the loop meets an error. `Send` is `SettleBegin` again, and the same
loop follows. `tx.rows` are the listed rows and `tx.events` the transfers as
simulated; both are kept for the properties. `Refused` also covers the host,
which refuses a call that touches storage its simulation did not.

**LiveRead.** `file` is the record, a sequence of lines. `Script` lists the
commands of the deploy script: `WriteHeader` (three of its lines stand for the
header, the network's name and the date being left out), `DeployContract` and
`PrintLine` for each contract, `WriteFooter`; `Abort` is `set -e` after any failed
command. `Parses` is `JSON.parse`: the closing brace is the last line written.
`ReaderStart` is the example up to its three calls, `Resolve` the answer of one,
`ReaderEnd` its end or failure. `Used` changes the contract that is read.

## 3. Runs

| Run | Checks | Shows |
|---|---|---|
| `rate_lock` | `StorageMatchesHistory` (with the type), `OneUsePerLock`, `UseHonoursLock`, `PreciseAnswerThroughGrace`, `StoredQuoteSound`, `AcceptsExactlyPriceRelation`, `OrphanedBookFrozen`, `ImplementsBook`, `EveryQuoteCloses` | one settlement per lock, at its terms and in its window; a precise answer through the grace period; exact price arithmetic; nothing moves after the admin renounced; storage lives, grace and flags are invisible to users of the offer book; every quote closes |
| `settle_split` | `PaidWithinAmount`, `RefusedOnlyIfRepeated`, `DebitIsReturned`, `EventsExplainBalances`, `ImplementsAtomicSplit`, `OrphanedRegistryFrozen` | the loop with its rollback is an atomic split that rounds in the payer's favour and whose events and return value explain the balances; after the admin renounces, the registry is frozen and with it a token the contract administers |
| `card` | type, `EpisodesWellFormed`, `ReleaseReturnsUnspent`, `ShortfallTellsDebt`, `NoClearingForgotten`, `PausedOnlyWindsDown`, `ImplementsCollateralBook` | the events account for the collateral over any number of episodes, clearings and pauses, and the vault is a book of accounts that closes when its admin renounces |
| `indexer_crash` | type, `OutputFollowsChain`, `FinishedRunCaughtUp`, `EveryEventIngested` | one NDJSON run at a time: kills lose, repeat and reorder nothing as long as every line is whole |
| `indexer_overlap_db` | `GapsOnlyBeforeWindow`, `CopiesBounded` | two overlapping runs, each on the file or the table: as long as the file's lines are whole, the shared cursor runs ahead of the two outputs together only over events older than the cold-start window; the table has no duplicate, the file at most one copy per overlapping run |
| `fx_client` | type, `EnumerationMissesOnlyRevoked`, `SettlesAtTermsShown`, `ShownExpiryIsSafe` | what the client showed bounds what happens later: the price, the fee, the expiry, and how much of a role an enumeration can miss |
| `partner_client` | type, `TotalMatchesRegistry`, `TotalNeverDrifts`, `ShownSplitHolds`, `RefusalTellsChange` | the running total is the sum of the registered fees, at most 100%, and its arithmetic never saturates; a settlement pays what it showed, in all and to each holder, unless a listed row changed so as to explain the difference; a refusal tells a listed partner removed (`PartnerNotFound`) or a listed fee raised (`SplitExceedsTotal`, which only a list that repeats a partner meets, and `Overflow`) |
| `live_read` | `ParsedRecordComplete`, `ReportMatchesRecord`, `TornOnlyByTwoChanges` | a record that parses names one whole deployment; the example reads the contract and the token its record names; its values are torn only if two of them changed while it ran |

Four runs end in a violation. Each states what a comment or document says:

| Run | Claim | What the code does |
|---|---|---|
| `double_settle` | "cannot be ... double-settled" (fx lib.rs:4) | a settled id can be locked again, also at another price, and settled again |
| `paid_twice` | the running cap "exists to reject a `partners` list that names the same partner twice" (partner lib.rs:187-189) | it does so only when the fees exceed 100% |
| `torn_line` | "The run is idempotent: it resumes from the last ingested ledger" (indexer/README.md:21-23) | an append cut short swallows the next run's first event, and the cursor moves past both |
| `clamp` | "Clamp to the retention floor" (index.ts:149-150) | the clamp is the cold-start window, which may lie above the node's retention floor |

Smaller disagreements seen while modelling. An expired row stays readable
through the grace period although the header says it disappears at its expiry
(lib.rs:7-8; `PreciseAnswerThroughGrace` shows the opposite). A run resumes from
the saved cursor and not from "the largest stored ledger"
(indexer/README.md:42-43): after a kill the two differ, and with one cursor for
two outputs each output alone has gaps below it. Overlapping NDJSON runs write
duplicates although index.ts:80 calls the file deduped, since each reads the ids
only when it starts (`CopiesBounded` says how many). `contracts.ts:5-7` says that
contract ids live in one place, and the generated bindings carry another copy
of them in `networks`, which `corridorClients` does not use.

**Bounds, and why they are enough.** Amount types are small integers with the
code's checks at a small `I128_MAX` and `U32_MAX`, so every overflow branch is
taken. `rate_lock` has `PRICE_SCALE = 2`, a grace of 2, eight ledgers (all that
a `u32` of 8 holds) and two locks per id: enough for a lock, use, expiry, grace,
deletion or re-lock in every order, and a re-lock of each kind of row. The
`ttl_ledgers` arguments are zero, within bounds, overflowing and trapping, near
the last ledger and by the host's limit.
`AcceptsExactlyPriceRelation` goes through every quadruple of `i128` values, with
`I128_MAX = 7`, negative ones included, in the first ledger while nothing is
locked; nothing in `LockAnswer` depends on either.
`MAX_BPS` is 4 or 5, with fees below, at and above it; settlements list up to two
partners, the least at which repetition, partial failure and rollback happen;
with two holders, payer and payout may coincide. `settle_split` closes one
ledger, which is all it takes to end a handover. `card` has one id (no call
touches two) with six events, so two episodes with several clearings. The
indexer has pages of two events, up to two events per ledger so that a ledger is
split over pages, and at most two kills; in `indexer_overlap_db` there are two
events, on pages of one, and one kill, the node looks through three of five
ledgers and keeps three, and the cold-start window is of one ledger, so that
runs do pass over events. `fx_client` has three accounts in a role, so that one
leaves while another is moved past the reader, `MAX_ROLES = 1` so that the limit
is met, and three ledgers with quotes of two, so that a call is
applied in a later ledger than it was simulated in and after its quote has
expired. `partner_client` has two partners of which one or both are listed, with fees
whose sum is below, at and above the cap, and starts with tokens in both
holders' hands; minting and clawing back reach the cases in which one has none. `live_read` has seven contracts: two
whole deployments and one more that was aborted.
In `fx_client` and `partner_client` a variable that never changes, `focus`, splits the
behaviours into those about quotes and about roles, and those about the registry
and about settlements: the halves share nothing but the admin, whose handover is
in the first of each.
The wider constants `MaxSeq`, `MaxLocks`,
`MaxSupply`, `MaxList`, `MaxEvents`, `MaxLedger`, `MaxCrashes`, `MaxContracts`, `Grantees` and `SplitBps` are bounds of
the model only, and are named so in the modules. Deadlock is checked in every run.

**Symmetry** is used for accounts, partners, tokens and runs of the indexer, in
runs with safety properties only.

**Fairness.** `FxRateLock!FairSpec` assumes only that ledgers keep closing: the
network does that whatever the anchor does. `EveryQuoteCloses` needs no call to
be made. `Indexer!FairSpec` assumes that cron keeps starting runs and that a run
which is not killed gets on; the code asks for exactly this (index.ts:8-11, "run
this on a loop / cron"). Kills are finite in number (`MaxCrashes`); with
unboundedly many no run need ever finish.

## 4. Proofs

Each `...Proofs` module proves what its component's runs check, for all values
of the constants under the named `ASSUME`s of the modules: sets of accounts and
inputs of the right types, natural-number limits, a positive price scale and
`MAX_BPS`, model values distinct from data. Two of these are not about the
model's values only: `IndexAssumption` of `FxClient` (a trap of
`get_role_member` is not an account) and `IsFiniteSet(Runs)` of `Indexer`. The
`Max...` bounds are arbitrary, so the results do not depend on them. `Theorem`
below is the theorem, in parentheses the property it states.

**FxRateLockProofs.** `TypeCorrect` (`TypeOK`), `HistoryKept`
(`StorageMatchesHistory`), `SettledOncePerLock` (`OneUsePerLock`),
`SettledAsLocked` (`UseHonoursLock`), `GraceHonoured`
(`PreciseAnswerThroughGrace`), `OnlySoundQuotesStored` (`StoredQuoteSound`),
`OrphanStaysFrozen` (`OrphanedBookFrozen`), `RateLockImplementsBook`
(`ImplementsBook`), `PriceRelationDecides` (`AcceptsExactlyPriceRelation`), from
`PriceRelationExact`, which is about the arithmetic alone.
`LocksExactlyConsistentQuotes` says the same of every state that has an admin:
neither the row already there nor the ledger has a part in which prices are
accepted.

None of the safety properties is inductive. `OneUsePerLock` needs to
know that the row's flag is set whenever the last lock has been used
(`UseInv`); that needs the row to be the last lock (`RowInv`); a re-lock reuses
the old row's life, so that life must reach through the grace period of every
expiry the row ever had (`RowInv`'s last conjunct), which in turn keeps a lock in
its window or grace stored (`KeptInv`). `QuoteInv(q)` is the conjunction per quote
id. Each action changes at most one id, except a ledger close, which is proved
from the lives. The refinement follows from the same invariant: a use strikes
the open offer, a lock posts a new one, and a ledger close closes exactly the
offers whose deadline it reaches, since the invariant says no row leaves storage
before.

**UnitSumsProofs.** The totals of the contracts are sums over sets of any size.
A number is written as its units, so that a sum is the size of a set, and the
lemmas (one more element, one number changed, fewer or smaller numbers, a ratio
that bounds each term) follow from the library's facts on cardinality. Where an
argument goes along a list of any length (`RatioOfSums`), it takes the shortest
prefix that fails, which exists by `LeastNumber`.

**PartnerAttributionProofs.** `TypeCorrect` (`TypeOK`), `PaidStaysWithinAmount`
(`PaidWithinAmount`), `TotalIsSumOfFees` (`TotalMatchesRegistry`),
`TotalArithmeticSafe` (`TotalNeverDrifts`), `PayerDebitedOnce`
(`DebitIsReturned`), `DistinctListFits` (`RefusedOnlyIfRepeated`),
`EventsAreTheAccount` (`EventsExplainBalances`), `ImplementsSplit`
(`ImplementsAtomicSplit`), `OrphanKeepsRegistry` (`OrphanedRegistryFrozen`).

`FrameInv` types the frame of an open settlement and says that what is paid is
within the fees listed so far, as a product and not as a quotient, which is what
survives rounding. `LoopInv` says of the loop what a program proof would: the
running fee and the running payout are the sums over the positions done, and
every balance is the one before plus the shares paid to it less what it paid.
`DistinctInv` turns positions into partners when no partner repeats, so that the
registry's total bounds the running fee; `EventsInv` is `LoopInv` told by the
events. The refinement maps every iteration to a stutter and the return to the
whole split; a rollback maps to a refusal, for which the proof finds the
obstacle the abstract specification asks for. `OrphanedRegistryFrozen` needs that
no settlement is open without an admin (`RunsUnderAdmin`): its steps ask nobody,
and would still move the token.

**CardCollateralProofs.** `TypeCorrect` (`TypeOK`), `EventsFormEpisodes`
(`EpisodesWellFormed`), `ReleasesReturnUnspent` (`ReleaseReturnsUnspent`),
`ShortfallsTellDebt` (`ShortfallTellsDebt`), `ClearingsAreKept`
(`NoClearingForgotten`), `PausedVaultWindsDown` (`PausedOnlyWindsDown`),
`VaultImplementsBook` (`ImplementsCollateralBook`); and `NothingVanishes`, that in
the book what was returned or is held was posted, and what was posted was spent,
returned or is held (`Book!Conserved`).

`Account(events, row)` is the invariant per authorization id: which event opens
the episode each event belongs to, that the stored `settled` is what the open
episode's clearings sum to, and that each release and shortfall agrees with it.
An event appended leaves what is said of the older ones (`AppendExtends`). That
the exposure is a number at all needs only finitely many open authorizations
(`ExposureInv`). For the refinement each call adds one event at the end of one
log, which changes one running total by its amount and no other (`LoggedOneMore`,
`OneAccount`); `Account` says that the stored row agrees with it.

**IndexerProofs.** `TypeCorrect` (`TypeOK`), `FinishedRunIsComplete`
(`FinishedRunCaughtUp`), `GapsAreOlderThanWindow` (`GapsOnlyBeforeWindow`),
`NoGapUnlessPassedOver`, `FileFollowsChain` (`OutputFollowsChain`),
`CopiesStayBounded` (`CopiesBounded`), for any number of runs, events and kills.
`GapsAreOlderThanWindow`, `NoGapUnlessPassedOver` and `FileFollowsChain` say
nothing once a line of the file is broken: run `torn_line` shows what happens
then.

`Inv` says of each run where in the chain its pages have got it, and that what
it has passed on the way is in the outputs; what a longer chain and fuller
outputs leave true of the other runs is one lemma (`RunKept`). `CursorIn` adds
that everything below the start of a run, and below the cursor, is in the
outputs. Without more that is *false*: after a long stop the cold-start window
lies above the cursor, and the run skips events (run `clamp`). `CursorIn` therefore
has a ledger `b`, before which events may be missing, and is kept as `b` grows.
With `b` the first ledger of the window that ends at the tip it is inductive
(`PassedBeforeWindow`), whence `GapsAreOlderThanWindow`: as long as the lines are
whole, what is missing is older than the window, and stays so, with no condition
on the chain. With `b = 0` it needs one, stated in the theorem: `Spec /\ []NothingPassedOver =>
[]NoGapBelowCursor`, where `NothingPassedOver` says that no run about to open
starts beyond an event the cursor has not reached. `FileFollowsChain` has the hypotheses of run
`indexer_crash`, one run and the file only, since with two the file is not in
order. For `CopiesBounded` the proof counts, with the copies of an event in the
file, the runs that do not know of them and could still append one.

**LiveReadProofs.** `RecordIsWhole` (`ParsedRecordComplete`), `ReportIsOfRecord`
(`ReportMatchesRecord`), `TornByTwoChanges` (`TornOnlyByTwoChanges`).

The record is always a beginning of what one run of the script writes
(`FileInv`), so it parses only when it is all of it; the example then reads a
contract that was of that deployment and whose kind and token never change
(`ReaderInv`), and every value answered is one of a moment in `held`.

**FxClientProofs.** `ClientTypeCorrect` (`ClientTypeOK`), `ShownTermsBind`
(`SettlesAtTermsShown`), `ShownExpiryHolds` (`ShownExpiryIsSafe`),
`EnumerationBound` (`EnumerationMissesOnlyRevoked`), `RolesListedExactly`,
`ClientKeepsContract`, `ClientServedByBook`.

Every step of the client is a step of `FxRateLock` and a move of the roles
(`LedgerSteps`), so `StorageMatchesHistory` carries over, and with it the whole
specification: `ClientSpec => Spec` (`ClientKeepsContract`). The refinement and
the frozen orphan then hold of what the client's user sees
(`ClientServedByBook`, `ClientOrphanFrozen`). `RolesListedExactly` says of the
roles that the stored list has exactly those with members, within the limit. `ClientTypeCorrect` is
for finitely many accounts, no more than a `u32` counts, since the count of a
role's members is a `u32`. `ScanInv` says that who kept the role is at one of the
indexes counted at the start, and that those behind the reader who were not read
are no more than the members that left: a departure moves the last member only,
so each adds at most one.

**PartnerClientProofs.** `ClientTypeCorrect` (`ClientTypeOK`), `ShownSplitBinds`
(`ShownSplitHolds`), `RefusalsTell` (`RefusalTellsChange`), and two that carry
over from the contract: `TotalUnderClient` (`TotalMatchesRegistry`) and
`ClientServedBySplit` (`ImplementsAtomicSplit`).

A step of the client is a step of `PartnerAttribution`, drops its last
settlement, or ends a simulation, which puts the balances back
(`ContractSteps`). `Shown` is what a whole loop has established of the rows it
read (`WholeLoop`, from `LoopInv` and `EventsInv` of `PartnerAttribution`): their
fees are within 100%, no product overflows, the payout is the sum of their
shares, and each holder is credited with the shares of the rows that pay it. It
holds of the simulation and again of the execution, over other rows; two such
sums differ only where the rows do (`PayoutShrinks`, `CreditsShrink`,
`ShareGrows`). If no listed fee was raised, every partial sum of the loop stays
below the simulated one, so the iteration meets neither limit
(`LimitsStillMet`). That a refusal for the cap repeats a partner carries over
from the contract's `RefusedOnlyIfRepeated`.

**Only model-checked.** Liveness (`EveryQuoteCloses`, `EveryEventIngested`),
which TLAPS does not prove, and the four claims that end in a violation.

## 5. Not modelled, and the plan

Left out: the `domain` symbol and transaction hashes; instance and persistent
storage archival (a restore brings the same value back); XDR decoding and the
SQL views; a testnet reset; fees, sequence numbers and signatures of
transactions; the client of `card-collateral-poc` (nothing in the repository
builds one, and its methods are `reserve`, `settle` and `release` of
`CardCollateral`) and the access-control methods of the two other bindings, which
are those of `FxClient` word for word; the building of Wasm files and the
funding of keys; settlements that others send while the user of `PartnerClient`
looks at one (they move balances, as minting and clawing back do); the demo
script, which makes the calls of the three contracts in one fixed order.

Next, in this order:

1. An abstract log that `Indexer` delivers at least once, with the refinement
   proved from `CursorIn`.
2. `DemoRun`: the demo script as a client of the three contracts that may abort
   between two calls and is run again with the same tag.
3. The indexer composed with a contract's events, so that what the SQL views say
   of settlements is checked end to end; a network that is reset.
