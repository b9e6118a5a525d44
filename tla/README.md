# A TLA+ model of the Solana trading API

This directory models the client library in `src/`: what a `TradingClient` does between a caller's
`Trade` and a transaction on chain, and what it then reports. The library is asynchronous Rust with no
state of its own beyond caches; what makes it hard is that every step awaits somebody else (an RPC
node, a venue, a price source, two signers, a submitter), that the chain moves meanwhile, and that
money is rounded at a dozen places. The modules state which of the answers can be relied on.

All modules are plain TLA+. `tlc -config X.cfg M` checks a run, `tlapm M.tla` the proofs of each of the seven
`...Proofs` modules and of `SequenceFacts`, on which they build. `PROJECT.json` maps each definition to the
lines it stands for.

## 1. Inventory

File names are below `src/src/` unless they start with another directory.

| Part | State | Operations | Correct when |
|---|---|---|---|
| `TradingClient` facade, `client.rs` | fees, sponsor, venues, tables; immutable during a call | `quote`, `prepare_swap`, `submit`, `swap` | a caller's amount, minimum and reported fees describe one transaction |
| Routing, `client/routing.rs` | none | compare all venues concurrently; try native first; fall back to aggregators | best net minimum wins, ties broken by order, each venue asked at most once, always returns |
| SDK fee, `sdk_fee.rs` | basis points, recipient | reduce a trade before routing, charge a swap after it | input + fees = amount on a buy; a sell's minimum survives the fee |
| Gas sponsor, `gas_sponsor.rs`, `gas_sponsor/cost.rs` | payer, collector, ceiling, price source, limits | reserve the ceiling, append its transfer, lower it to the simulated cost | the charge covers the cost, within both caps, at a fresh price |
| Executor, `executor.rs` | none | compile with simulated compute units, finalise the charge, sign, submit; poll; read balances | every signature is over the message that is sent; errors are classified |
| Sponsored native setup, `gas_sponsor/native.rs` | a cache of accounts per build | rebuild a native route so that the sponsor opens its accounts | the sponsor pays all setup, gets its WSOL deposit back, the user loses nothing of its own |
| Native USDC routes, `client/usdc.rs` | none | sell or buy through SOL in two legs | the first leg pays for the second; the quoted minimum holds |
| Pump.fun, `dexes/pumpfun/mod.rs` | cached fee settings | load curve, quote, build | buys fit their input, quotes bound the output |
| PumpSwap, `dexes/pumpswap/mod.rs` | cached fee settings | load pool, quote, build, bridge over a USDC pool | the same, and the slippage split stays within the request |
| Lookup tables, `lookup_table.rs`, `client.rs` | `shared_lookup_tables` | load, refresh, merge with the caller's; list the shared addresses | cached tables resolve; a refresh is all or nothing; the caller's tables win; a table serves any trade |
| Table creation, `examples/create_shared_alt.rs` | a table on chain, what was printed | check funds, create, extend in chunks, wait until active; resumed after a crash | no table is lost, no address paid for twice, a table reported ready loads |
| Jupiter, `jupiter.rs`; DFlow, `dflow.rs` | none | request and validate a route | reply matches the trade, its minimum is enforced, only known signers |
| Submitters, `submit.rs` | endpoint, tip | hand over one transaction | at most one hand-over per call; an answer names the transaction that was taken |
| Price impact, `price_impact.rs` | none | floating-point display value | - |
| Types, errors | none | records | - |

How they interact. `submit` = `prepare_swap` + `submit_swap`; `swap` wraps `submit` between two balance
reads and a poll. `prepare_swap` reduces the trade (`route_trade`), puts it to venues under one timeout,
and charges each candidate (`apply_to_swap`: SDK fee first, the sponsor's transfer last, which is what
lets the executor find it by position). Native venues call `client/usdc.rs` and each other for two-leg
routes; for a sponsored trade their instruction lists pass through `fund_native_setup`. The executor
calls back into the sponsor's `finalize_fee` between compiling and signing.

What is hard about it: reserves, accounts, price and blockhash age while the next await runs; signers
and submitters may be slow, fail after having acted, or never answer; the executor rewrites a
transaction whose other instructions were added around it; concurrent calls of one user share token
accounts; rounding compounds over two fees and two legs. `PROJECT.json` lists these places under
"hazards", each with the properties that watch it.

## 2. Modules

    FeePolicy --+--> SwapExecution ----(refines)---> SwapContract <---(refines)--- SwapConfirmation
                |         |                                                              |
                |         +--> SwapExecutionProofs              SwapConfirmationProofs <-+
                |
                +--> RouteSelection ------> RouteSelectionProofs
                +--> ProviderRoutes ---(refines)---> VenueContract
                          +---------------> ProviderRoutesProofs

    CurveMath ---> BridgedRoute --+
                    NativeSetup --+--> NativeRouteProofs
    LookupTables -----------------+
                   VenueAccounts -+--> SharedTableProofs
    TableCreation -------------------> TableCreationProofs

    ListOps  (extended by SwapExecution, ProviderRoutes, BridgedRoute, NativeSetup, LookupTables,
       |      TableCreation)
       +---> SequenceFacts  (extended by five of the Proofs modules)

Each state machine has an `MC...` module beside it that holds only values for its constants.
Definitions whose names end in `_Something`, introduced by "Slip:", are deliberately wrong variants of
the definition that follows them. They are never used; each run's properties are known to reject them.

### ListOps (operators), SequenceFacts
The sum of a list and the part of a list that is in a set, as recursive functions of the length read so far.
`SequenceFacts` proves what they return: how each distributes over concatenation, what a change of one
element does to the sum, which elements are kept, and that what is kept of a list without repetitions has none.

### FeePolicy (operators)
`sdk_fee.rs`, `gas_sponsor.rs` and the arithmetic of `gas_sponsor/cost.rs`. `RouteTrade` reduces a trade,
`Charged` charges a candidate, `DirectSwap` charges a selected SOL venue's swap, which carries no
sponsorship, `ChargeFor` rounds the reimbursement up. Each fallible Rust function is a guard (`Can...`,
`Routable`) and a value. Instructions are records of operation, signer, destination and amount; nothing
else of them is read by the code modelled here.

### SwapExecution
`submit_swap` with `SponsorCostPolicy::finalize_fee` inlined at its await. One value of `stage[c]` per
await of call `c`:

| stage | awaits | actions |
|---|---|---|
| idle | - | `Begin`, `Reject` (`route_trade`) |
| prepare | `prepare_swap` | `Prepare`: any offer, any setup, charged |
| units | `simulate_units` | `SimulateUnits`: fixes limit, price, message |
| blockhash | latest blockhash | `FetchBlockhash`, `RefuseSigners` |
| cost, price, recheck | first simulation, price source, second simulation | `SimulateCost`, `AcceptPrice`/`RefusePrice`/`PriceTimesOut`, `ConfirmCharge`/`RefuseCharge` |
| user_sign, sponsor_sign | signers | `UserSigns`, `SponsorSigns`; the last signature hands over |
| submit | submitter | `SubmitAnswers` |
| any | | `Fail` with the error classes `Errors` allows at that await |

The environment is `Execute`, `Revert` (at most once, only fully signed and with a live blockhash),
`OpenAccount`, `CloseAccount` and `Tick`. A hand-over is a step of its own before the answer, so a
transaction may land while `submit` still waits, and a submitter may fail after it took the transaction.
The simulated cost is the debit the payer would suffer at that instant: base fee, priority fee, tip,
rent of the accounts that do not exist yet. Simulation and chain read the same accounts; a node that
lags behind is an `OpenAccount`/`CloseAccount` between simulation and execution.

### SwapContract
What callers of `submit` see: a call refuses and nothing exists, or parts once with one transaction whose
fees never change again; it then answers with those fees or with a Submit error; the network runs the
transaction at most once, before or after the answer, or never. `SwapExecution` implements it under a
refinement mapping computed from its own state (`PhaseSeen`, `FeesSeen`). So does `SwapConfirmation`,
which describes the same call from the other side: what the submitter and the network make of it.

### SwapConfirmation
`swap_with_lookup_tables`, both submitters of `submit.rs`, `check_status`, `confirm`, `output_balance`.
The submitter's one request is in flight (`chain[c] = "sent"`) until the server takes or drops it, and
may fail or be answered before or after that; the relay and the RPC node differ in their liveness only.
`check_status` of any landed transaction is terminal. A failed status request ends `swap` with an error
whose context tells it from those of `submit`. Several swaps of one wallet share
the history `hist` of one balance, recorded entry by entry, so that a property can speak of what changed
between the two reads of a call. The RPC client reads at `confirmed` or, if its owner configured it so,
at `finalized` commitment, which lags (`final`, `Finalize`). A read fails to 0, as in the code.
The relay is assumed to answer with the signature of the transaction it took: the code does not compare
it. A `Decode` error after submission cannot happen, since a signature always formats to one that parses.
`TradingClient::status` is `check_status` by itself and changes nothing.

### RouteSelection
`quote`, `prepare_swap`, `should_compare_routes`, `prepare_best_swap`, `prepare_aggregator_fallback`,
`bounded_route`, `select_best_swap`. A venue's reply is any offer of a small set, malformed ones included,
at any time or never; every timer of a stage starts when its venues are asked. The two entry points differ
in one place, kept in `NativeAnswers`: `prepare_swap` treats a fee that cannot be charged as a venue
failure, `quote` returns it.

### ProviderRoutes, VenueContract
`VenueContract` is what the `Dex` trait promises of one prepare call: failure, or one swap that is a
candidate for the reduced trade, gives away no more than the slippage, is enforced by its own
instructions, and needs no signer but wallet and payer. `ProviderRoutes` is `jupiter.rs` and `dflow.rs`
and implements it. A provider may get any one field wrong that an adapter checks: mints, amount, minimum,
version, signers, budget instructions, swap data. DFlow's quote is posted back in its second request, and
the market moves between the requests and until `Execute`. The swap instruction of a reply enforces the
minimum of the quote it was built for; that much is the provider's word, nobody can check it. Also taken
on trust by the code and therefore by the model: Jupiter's swap data is not empty, its budget requests
arrive in a field of their own that the code ignores, and its lookup tables are what they say.
A `Build` error is reached only by a SOL trade of wrapped SOL. Jupiter has no timeout of its own; the one
of `bounded_route` is in `RouteSelection`, whose offers are more permissive than this contract.

### VenueAccounts
Which accounts a native route names, in the order the instructions name them: `PumpFun` and `PumpSwap`
`Accounts`, with the optional ones by side, cashback, creator and coin. On the other side stand those who
read the lists: `fund_native_setup` by position, `shared_lookup_addresses` ahead of time, and the size
check of `build_optimal_tx`. One client has its chain, the fee settings its adapters read first and keep
while the venues' admins rotate recipients (`Reconfigure`), a shared table made at any time, and one
trade. `Bytes` counts what the compiled message takes: signatures, header, static keys, tables,
instructions. Each recipient list is assumed to have its first entry set, as on chain. The names of its machine
(`AccountsSpec`, `AccountsTypeOK`) let one module of proofs extend it and `LookupTables`.

### CurveMath, BridgedRoute
`CurveMath` is the integer arithmetic of both venues: constant product, floor and ceiling fees, slippage,
and the split of slippage over two legs. `BridgedRoute` is `prepare_via_sol`, `swap_via_usdc` and the
direct route: `Load` reads one pool per await, with any reserves (nobody holds the market still) and with
fee settings read once per adapter and kept; `Assemble` prices the legs, each bridged leg spending the
first's guaranteed minimum; then `RunLeg` executes the transaction against venues that take and pay
anything the leg's own limit allows. Reserves of a leg may be any pair, so two requests that see different
slots are covered.

### NativeSetup
`fund_native_setup`, one step per raw instruction and account it reads: `turn` instructions of `route` are
appended, and of the steps for the next one `taken` are done. `accounts` is its cache, `seen`
(history) what the RPC told it, `program` its output. `RunProgram` runs the program on the chain of that
moment and keeps both ledgers in `effect`. `Donate`, `Open`, `Empty` are everybody else. The
rules of the token, system and venue programs (`Run...`) are external: they come from what the code
relies on (strict and idempotent account creation, rent top-up, closing to the user, accounts a program
opens at the trader's expense, the rent every account must keep). The lamports of the user's wallet are
chosen at execution, none among them. `WellBuilt` says what the adapters' routes have in common, and all that is
assumed of them. Its names (`SetupSpec`, `SetupTypeOK`) let one module of proofs extend it and `BridgedRoute`.

### LookupTables
`load_shared_lookup_tables`, `refresh_shared_lookup_tables`, `with_shared_lookup_tables`,
`merge_lookup_tables`, `decode_lookup_table`. A table is its length and the slot each address was added in;
content cannot differ, because addresses are only appended. Authorities `Extend`, `Deactivate` and, after a
cooldown, `Close`.

### TableCreation
`examples/create_shared_alt.rs`, whose runs create a table and extend it chunk by chunk, or resume one.
`Stop` is a crash or an RPC error at any point, a transaction being relayed included; what was sent
stays in `flight` and may land or be lost while a later run goes on, as long as its blockhash lives.
`margin` and `hasty` are history: the funds found beyond the need, and that a run began while transactions
of an earlier one could still land, which the program neither prevents nor detects. `Relay` is preflight and
sending in one step. `Unconfirmed` ends a wait when the transaction failed or its blockhash expired; an
RPC error that ends it earlier is a `Stop`. Reads are at the RPC client's default commitment, finalized.

## 3. Properties and runs

Every module has one `TypeOK` (`SetupTypeOK` in `NativeSetup`, `AccountsTypeOK` in `VenueAccounts`), which documents the ranges of its variables; `submit_all` checks that of the
core, and it is proved for every machine that has a Proofs module except `ProviderRoutes`, where it is a part of
the invariant. Properties that a theorem gives for every instance, or that another one implies, have no run of
their own. Every property is preceded in its module by a sentence saying what it means.

| run | question | properties |
|---|---|---|
| `submit_all` | one call, all trades, offers, prices, failures | `TypeOK`, `SignaturesCoverFinalMessage`, `SponsorAuthorisesBoundedCharge`, `BudgetKept`, `StaleChargeNeverLands`, `ReturnsUnlessOutsiderHangs` |
| `submit_two` | two sponsored calls over the same token accounts | `ReimbursementCoversCost`, `KeepsContract` |
| `confirm_all` | one swap over either submitter, its request lost, refused or taken, while the wallet's balance moves | `StatusTruthful`, `ReceivedAtLeastMinimum`, `ReceivedAtMostPaidOut`, `DoubtfulErrorsAreTold`, `KeepsContract`, `SubmittedSwapReturns` |
| `route_all` | three clients, six trades, eight kinds of offer | `WinnerIsBest`, `NobodyAskedNeedlessly`, `AnswerKeepsBudget`, `CallReturns` |
| `bridge_all` | all direct and bridged routes over moving reserves | `LegsFundEachOther`, `GuaranteeKept`, `SlippageWithinRequest`, `BuysFitTheirInput` |
| `setup_all` | all route shapes against accounts others use | `FreshSetupLands`, `WsolDepositReturned`, `UserKeepsOwn` |
| `setup_two` | two routes of one wallet that race for the accounts both miss | `RacedSetupLands` |
| `setup_top_up` | needs a user without SOL no top-up? It may: expected violation | `NoTopUpNeeded` |
| `tables_all` | tables that grow and die while cached | `SnapshotsResolve`, `RefreshIsAtomic` |
| `provider_all` | both providers, sound and faulty replies, a market that moves | `QuoteEnforced`, `ExecutorCanSend`, `KeepsVenueContract`, `DFlowReturns` |
| `accounts_all` | every native route, table and set of recipients | `SetupOpensWhatSwapsNeed`, `TableCovers`, `FitsPacket` |
| `create_all` | runs that crash, are resumed and overlap with late transactions | `TablesAreResumable`, `NoAddressPaidTwice`, `FundedRunFinishes`, `ReadyIsLoadable`, `RunEnds` |

What the less obvious ones say, and their limits, which are the code's:

- `StaleChargeNeverLands`: the code checks the age of the price before it asks the signers and never
  after, so a slow signer signs an older charge. What bounds the age is the blockhash, fetched before the
  price: no transaction executes under a price older than the price limit and a blockhash's life together.
  It would fail if the blockhash were renewed before signing. That the second check (`cost.rs:94`) repeats
  the test of the age is a guard of `ConfirmCharge` and no property of its own.
- `DoubtfulErrorsAreTold`: `swap` adds a second error that may hide a trade, the failed status request;
  every error that is neither it nor `Submit` means that nothing was sent.
- `ReimbursementCoversCost` excludes a token account closed after the last check. Accounts that are opened
  in between only make the transaction cheaper; one that is closed costs the sponsor one more rent, as
  `cost.rs` documents.
- `KeepsContract` (of `SwapExecution`) says that the reported fees are those of the message, and, like the
  proved `OnlySubmitErrorsLeaveDoubt`, that after any error but `Submit` a retry cannot trade twice.
- `ReceivedAtLeastMinimum` and `ReceivedAtMostPaidOut` assume two successful reads at confirmed commitment
  and nothing moved the other way by somebody else. Without these the difference of two balances proves
  nothing, and the code does not claim it does. When the output is SOL, the landing cost is subtracted.
- `SlippageWithinRequest` compares the quoted minimum with what the same reserves pay when neither leg
  slips, less the request, allowing `Rounding = 4` units on either side. Two are not enough, as a sale whose
  three fees are each rounded down shows (a reserve, a fee setting and an amount of `bridge_all` are there for
  it): the gross output, the three fees and the last floor can all round against the caller. `Moderate` limits
  it to requests of at most half, and to a second leg whose fees take at most 30%. Beyond that, one unit less of
  the first leg's output costs more than a unit of the second's input, and no constant number of units is
  enough; the venues' fees are around one percent.
- `GuaranteeKept` holds whatever happened to the market: each venue enforces its leg's minimum, and the
  second leg spends no more than the first guarantees.
- `FreshSetupLands` and `WsolDepositReturned` assume that what the builder read is still true; the race in
  between is what `UserKeepsOwn` covers: strict creation makes the transaction fail rather than let the
  refund take the user's or a stranger's rent.
- `RacedSetupLands` says for which races a fresh swap is not needed: for token accounts other than the WSOL
  account and for the creator vault, the second of two racing routes lands on what the first opened, and the
  user pays nothing. It excludes a volume account that both found missing, where the second
  initialisation fails, and a WSOL account opened meanwhile: `README.md:175` says of these that setup races
  can fail and require a fresh swap.
- `FreshSetupLands` concedes one refusal, and `setup_top_up` exhibits it: see "A disagreement" below.
- `ExecutorCanSend`: a route that asks for a foreign signature, or brings a second compute limit, never
  gets as far as the executor.
- `FitsPacket` states for which trades a current shared table suffices; the measured sizes are in the
  section on bounds. The others may be refused by `executor.rs:169`, before anybody signs.
- `FundedRunFinishes` needs a margin of a wallet's rent, because `check_funding` ignores that the payer must
  keep its own rent exemption or be emptied exactly.
- `NoAddressPaidTwice` and the last part of `ReadyIsLoadable` exclude `hasty` runs: a transaction of the run
  before that lands after this one read the table repeats its chunk. The program neither prevents nor
  detects that; the doubled addresses cost their rent.
- `QuoteEnforced` is about the quote DFlow's adapter posted. A provider that builds its instructions for another
  one goes unnoticed, because the second reply names neither quote nor limit.
- No property bounds what a quote from two balances read in different slots, or from a fee rate that has
  changed since, costs the caller: the venue enforces the minimum that was reported, so it is a refused
  trade or a worse guarantee.
- `SnapshotsResolve` gives a cached table one cooldown, the time the network keeps a deactivated table.

### A disagreement

`README.md:165` says of sponsored trades: "No contract deployment or user SOL top-up is needed." A bridged
route spends on its second leg only what the first guarantees; "favorable excess stays with the user"
(`client/usdc.rs:60`), and `fund_native_setup` takes back only the deposit. A user who held nothing is left
with expected minus guaranteed lamports: in the trace of `setup_top_up` a sale on the curve pays 3, its
guarantee of 2 is wrapped for the second leg, and 1 is left of a rent exemption of 2. (No lamport of
anybody else's is at the WSOL address in that run.) The network refuses a transaction that leaves an account
which held nothing with something below the rent exemption, about 0.00089 SOL, the rule for which
`gas_sponsor/native.rs:251` fills the creator vault. So a trade whose surplus is positive but smaller
fails in the simulation, before anybody signs, until the user holds SOL. At one percent of slippage that
is a trade below about 0.09 SOL. `setup_top_up` checks the sentence and finds the trace; nothing is lost, the
trade is just refused.

### Bounds, and why they are enough

- Amounts. `SwapExecution` and `RouteSelection` use amounts below 100 and a 10% fee. The values were chosen
  at the edges: amounts that cannot carry both fees, a minimum one unit above a fee, a charge equal to and above the
  ceiling, costs at and above the cap, prices of 0, offers with minimum 0. `LamportsPerSol` is 10 so that rounding
  bites at that size. `CurveMath` is exact: only reserves and amounts are small, fees and slippage are in
  real basis points. Widths do not matter: the code multiplies in `u128`, and every quotient it narrows fits
  its type (the compute-unit price would need a priority fee above 18 000 SOL not to).
- Compute units: absent, 0 and 1 300 000, which reach the default, the lower and the upper clamp.
- Time. Ages saturate one above the limit they are compared with; no value beyond is distinguishable.
- Calls. Two are enough for interference over shared accounts: a call's steps depend on
  others only through the accounts, which a single other call and the free `OpenAccount`/`CloseAccount`
  change arbitrarily. In `confirm_all` two arbitrary moves of the balance, up or down, stand for the wallet's
  other swaps. The proofs do without these bounds.
- `submit_two` sets all lifetimes to 0 and one price; aging is explored in `submit_all`.
- `VenueAccounts`: two configurations of each venue, one change, so that settings, table and chain can be of
  two days in any order; all targets that differ in the shape of their lists (side, cashback,
  creator, bridged or not, token program). Sizes are real bytes. With a current table an unsponsored native trade
  takes at most 1037 of 1232; a sponsored one without SDK fee at most 1226 without tip and 1244 with a
  tip and all venue accounts to open; with SDK fee and every account there 1223, or 1241 with a tip;
  the worst combination 1335.
- `TableCreation`: chunks of 2 and a capacity of 5 for lists of 3, so that a list takes two extends and two runs
  can meet in one table. A table is made in one of the first three slots (`MaxSlot`); later ones pass only for a
  transaction that is waited for, until its blockhash, which lives two slots, expires. That lets a transaction
  outlive its run; the balances are
  one too few, just enough, within and at the wallet's rent above, and enough for two.
- `BridgedRoute`: amounts of 1 and 3, where everything rounds to nothing, and of some thousands; within them
  the loss to rounding reaches three units, and the proof covers the fourth.
- `ProviderRoutes`: one client with and one without sponsor, buys and sales in both settlements, amounts at
  which slippage and fees round; replies that are right, or wrong in one field.
- `MoveBound`, `MaxMoves`: two moves by outsiders, which stand for other routes of the same wallet too: they
  open, fill and empty the accounts a route reads. `MaxSlot = 4` with `Cooldown = 1` lets a table be extended,
  loaded, deactivated, closed and still be cached. `Slack = 1`: a venue pays its limit or one more.
- `CHECK_DEADLOCK FALSE` stands in the runs of machines that end: a call returns once and there is nothing
  left to do.

### Fairness

Only what the library or its runtime enforces: RPC requests end (the RPC client has a timeout of its own), tokio
polls a ready task and fires timers (`Tick`, `Wake`, `PriceTimesOut`, `TimesOut`). There is none for signers,
the price source, venues, the submitter or the landing of a transaction. So `ReturnsUnlessOutsiderHangs` says
that the price source cannot hold a call and concedes that a signer or submitter can, and `CallReturns` that
silent venues cannot; `SubmittedSwapReturns` needs no transaction to land. A submission over RPC ends, like any
RPC request; the relay's HTTP client has no timeout, so the property concedes that a silent relay holds `swap`.
`DFlowReturns` relies on DFlow's own timers and lets the provider stay silent; Jupiter has none, and
`bounded_route` ends it (`CallReturns`). `RunEnds` needs the program to take its steps, with RPC requests that
answer or fail, and slots to pass: the wait for a transaction ends when it is seen, when it failed, or when its
blockhash expires (`create_shared_alt.rs:201`), so a cluster that stands still holds the program. It needs no
transaction to land and no table to become active. The runs with one of these properties check everything else
under the fair specification too, which has the same reachable states.

## 4. What is proved

`SwapExecutionProofs` proves, for any set of calls, trades, offers, setups, prices, limits and accounts:

| theorem | statement |
|---|---|
| `TypeCorrect` | `Spec => []TypeOK` |
| `SignaturesCover` | `Spec => []SignaturesCoverFinalMessage` |
| `ErrorsAreDefinite` | `Spec => []OnlySubmitErrorsLeaveDoubt` |
| `SponsorAuthorises` | `Spec => []SponsorAuthorisesBoundedCharge` |
| `StaleChargeCannotLand` | `Spec => StaleChargeNeverLands` |
| `PriorityFeeBounded` | `Spec => []PriorityFeeWithinRequest` |
| `SponsorIsRepaid` | `Spec => []ReimbursementCoversCost` |
| `BudgetIsKept` | `Spec => []BudgetKept` |
| `SubmitKeepsContract` | `Spec => KeepsContract`, the refinement of `SwapContract` |

`SwapConfirmationProofs` proves, for any calls, submitters, outputs, costs, transfers and deadline:

| theorem | statement |
|---|---|
| `TypeCorrect` | `Spec => []TypeOK` |
| `AnswersAreTruthful` | `Spec => []StatusTruthful` |
| `PendingAfterDeadline` | `Spec => []PendingOnlyAfterDeadline` |
| `DoubtIsTold` | `Spec => []DoubtfulErrorsAreTold` |
| `SwapKeepsContract` | `Spec => KeepsContract`, the refinement of `SwapContract` |
| `ReceivedAtLeast` | `Spec => []ReceivedAtLeastMinimum` |
| `ReceivedAtMost` | `Spec => []ReceivedAtMostPaidOut` |

`RouteSelectionProofs` proves, for any requests, offers and timeout:

| theorem | statement |
|---|---|
| `TypeCorrect` | `Spec => []TypeOK` |
| `WinnerAlwaysBest` | `Spec => []WinnerIsBest` |
| `NobodyEverAskedNeedlessly` | `Spec => []NobodyAskedNeedlessly` |
| `AnswersKeepBudget` | `Spec => []AnswerKeepsBudget` |

`ProviderRoutesProofs` proves, for any requests, market prices and instruction lists:

| theorem | statement |
|---|---|
| `QuotesAreEnforced` | `Spec => []QuoteEnforced` |
| `ExecutorsCanSend` | `Spec => []ExecutorCanSend` |
| `AdaptersKeepContract` | `Spec => KeepsVenueContract`, the refinement of `VenueContract` |

`NativeRouteProofs` proves, of `BridgedRoute` for any trades, reserves, fee settings and slack of the venues, and of
`NativeSetup` for any number of calls and moves by outsiders, any well-built routes, chains, wallets and rents:

| theorem | statement |
|---|---|
| `RoutesAreTyped` | `Spec => []TypeOK` |
| `LegsAlwaysFunded` | `Spec => []LegsFundEachOther` |
| `MinimumIsPaid` | `Spec => []GuaranteeKept` |
| `InputCoversFees` | `Spec => []BuysFitTheirInput` |
| `SlippageIsBounded` | `Spec => []SlippageWithinRequest` |
| `SetupTypes` | `SetupSpec => []SetupTypeOK` |
| `UserLosesNothing` | `SetupSpec => []UserKeepsOwn` |
| `DepositsReturn` | `SetupSpec => []WsolDepositReturned` |
| `FreshLands` | `SetupSpec => []FreshSetupLands` |

`SharedTableProofs` proves, of `LookupTables` for any keys, requests, tables of callers, cooldown and bounds, and of
`VenueAccounts` for any recipients, pools, curves, targets, clients and number of changes:

| theorem | statement |
|---|---|
| `NoTableTwice` | `Spec => []TypeOK` |
| `SnapshotsAlwaysResolve` | `Spec => []SnapshotsResolve` |
| `RefreshesAreAtomic` | `Spec => RefreshIsAtomic` |
| `AccountsTypes` | `AccountsSpec => []AccountsTypeOK` |
| `TableServesTrades` | `AccountsSpec => []TableCovers` |
| `SetupServesSwaps` | `AccountsSpec => []SetupOpensWhatSwapsNeed` |

`TableCreationProofs` proves, for any lists, balances, limits and number of runs:

| theorem | statement |
|---|---|
| `ChainIsTyped` | `Spec => []TypeOK` |
| `TablesStayResumable` | `Spec => []TablesAreResumable` |
| `AddressesPaidOnce` | `Spec => []NoAddressPaidTwice` |
| `FundedRunsFinish` | `Spec => []FundedRunFinishes` |
| `ReadyTablesLoad` | `Spec => []ReadyIsLoadable` |

Assumptions of `SwapExecution`: `ClientAssumption` (a client as its constructors leave it: basis points below 10
000, a ceiling above the service fee), `AmountAssumption` (lamports are naturals, `LAMPORTS_PER_SOL` is not 0)
and `InputAssumption` (types of trades, offers and setups; finitely many accounts). A setup carries neither a
fee transfer nor a trade instruction, since the builders of accounts produce only account creations and
deposits; otherwise what a message moves would not be what was prepared. The other modules' assumptions only
type what comes from outside: `ProviderAssumption` requests, prices and lists, `BridgeAssumption` trades,
reserves and fee settings (no bound on a reserve or a rate), `LookupAssumption` the lists of keys and tables.
`CreationAssumption` says besides that a list of addresses has no repetitions, which `shared_lookup_addresses`
sees to. `AccountsAssumption` says that lists of recipients hold keys and that the first of each is set, that the
bridge pool is of USDC and WSOL (`load_sol_usdc_pool` refuses another), that an address is a key or derived from
one, and that a curve's address is its mint's unless the trade names another. `SetupAssumption` states rules of the network (an initialized token account and a wallet that is not empty
hold their rent) and that routes are `WellBuilt`: they close the WSOL account they open, use it only while it is
open, miss only accounts their instructions list, and pay in SOL only what they brought; and the user holds the
token a route uses without opening its account (`Held`), as the seller of it does. TLC evaluates each of them in the runs of its module.

### SwapExecution

The argument. The inductive invariant grows in layers, because none of the properties is inductive alone.

1. `TypeOK /\ MessageBuilt`. The debit is computed from the first two instructions, so a message that exists
   has them and is as long as the prepared swap's position requires.
2. `SignedInv` adds `SignaturesInOrder(c)`: which signatures exist at which stage, all over the present
   message, and that `chain[c]` leaves "held" only past the last of them. It gives the properties on
   signatures and on errors.
3. `ChargeInv` adds `ChargeInPlace(c)`: before the price is accepted the reimbursement position holds the
   reserved ceiling, afterwards the charge computed from `est` and `rate`, within both caps. The lemmas
   `SponsorshipType` and `ReserveCompiled` carry the position from the charged swap, where the
   transfer is last, through `Compile`, which puts two instructions before it and a tip after it.
4. `CostInv` adds `CostBounded(c)`: from the last check on, unless an account was closed, the debit is at most
   the estimate, since `DebitMonotone` says that opened accounts only lower it, and so is what was paid.
   With `CeilDivCovers` this gives the repayment.

5. `MoneyInv` adds to `ChargeInv` that a prepared swap adds up to its trade (`AddsUp`) and that the message moves
   exactly what the swap does, its fees being the application fee and the reimbursement of that moment
   (`MessageAddsUp`). The sums are over whole messages: `Compile` puts a budget before the swap's instructions and a
   tip after them, and `ConfirmCharge` replaces one transfer by another, so the facts on `SumOf` and `Only` carry them. It
   gives `BudgetKept`, and with the phases of the contract the refinement, whose one visible step before the
   answer is the last signature.

`PriorityFeeBounded` has its own invariant `BudgetInPlace(c)`, from flooring the unit price. Each layer is
proved once for the acting call; `StepIsLocal` and `WorldIsLocal` show that a step of one call leaves the
others' state alone and the frame lemmas transfer it. The actions a layer does not concern are
discharged together through what they leave unchanged.

`StaleChargeCannotLand` rests on an invariant of ages, `AgeInv`: from the last check until the transaction lands,
while its blockhash lives, the price is older than the limit by no more than the age of the blockhash. The
check leaves it within the limit, and both age together from then on.

### SwapConfirmation

The argument of `SwapConfirmationProofs` has two layers, under `ConfirmationAssumption`.

1. `AnswerInv` adds `AnswerFits(c)`: for each stage what may have become of the transaction, and for each
   answer the fate it is given for. It gives the properties on answers, and the refinement: every step is a
   step of `SwapContract` or leaves `PhaseSeen`, `AnswerSeen` and the outcomes as they were.
2. `LedgerInv` adds `HistoryOrdered`, that over a stretch of entries that only rise (or only fall) the balance
   ends no lower (no higher), which replaces a sum over transfers by an invariant that each append
   extends by one entry; and `LedgerFits(c)`, that an executed call has exactly one entry, after its first
   read and before its second. `Stretch` splits the entries between the reads at that one.

### RouteSelection

`RouteSelectionProofs` rests on `RouteAssumption`, which only types requests and offers. `RouteInv` says of a
call under way that it has no answer and that what was asked and heard fits its stage: nothing before the lookup
ends, only the native venue while it is asked alone and only for a trade that does not have to be compared (so
that a swap taken directly is never a sponsored one), each venue once. Two lemmas do the work when a call ends:
`ChargedSwap`, that a candidate that passed validation and can be charged carries amounts that add up, from
`RoutedAmount`, `SdkFee` and `Sponsorship`; and `SelectBestIsBest`, that the three steps of `select_best_swap`
leave the first of the best usable replies.

### ProviderRoutes

`ProviderInv` relates a reply to the request through what was kept between the two awaits: the quote DFlow's
adapter posts back is one it validated (`CarriedSound`), an accepted swap asks for the reduced trade, its
minimum is within the slippage and is the threshold of its own instructions, and only the wallet and the payer
sign (`AnswerSound`), and what is paid later is at least that threshold (`PaidEnough`). The rejected replies
never matter: each faulty one meets one of the adapter's checks.

### BridgedRoute

The arithmetic comes first, for all naturals: a quote's minimum is at most what it expects, and what a buy puts
into the reserves fits with its fees (`CurveInputFits`, where the fees are rounded up and one lamport is held
back for it, and `PoolInputFits`). `RouteIsChained` says that the second leg gives what the first gets and that
no leg ends with what the route began with. `BridgeInv` then says that every leg's pool has been read
(`PoolsRead`), that the legs are quotes, the second for what the first guarantees (`LegsSound`), and what the
wallet holds before, between and after the legs (`WalletSound`).

`SlippageIsBounded` is about two quotes of the second leg, one for what the first guarantees and one for what it
expects. Each lemma of the section multiplies an inequality out, so that rounding is a term on its right: an
input that keeps a share of another brings an output that keeps it up to one unit (`OutScales`, for any
reserves), and up to four after the fees of a sale (`SaleScales`); what the fees on an input round away is
covered by four units of that input (`InputScales`). Two shares that add up to the request compose to no more
than the request (`SharesCompose`), and `route_slippage` makes them add up (`SharesAddUp`).

### NativeSetup

The properties speak of a program run on a chain the builder never saw, so the invariant has to say what a
program that is still being built would do anywhere. `SetupInv` quantifies over ledgers: `MoneyStory(c)` over
every chain and wallet, `FreshStory(c)` over every chain on which what was read is still true.

1. `RunAllAppend` makes the effect of a longer program one instruction more than that of the shorter, and `RunFacts`
   says what an instruction of each kind does to a ledger.
2. `Money` relates the ledger of the program so far to the builder's memory: if every instruction succeeded, the
   user's lamports, the WSOL account and the sponsor's deposits balance with what the route earned
   (`Balance`), and the deposits and late lamports cover the refunds made and the pending one, exactly if the WSOL
   account is the one that was read. What is known of the account (unread, open, or closed by the program
   itself) has to be carried along, as a second deposit is for an account that is known to be gone.
   The creation of the WSOL account is where strictness matters: it succeeds only if the account is still missing.
3. `Lands` is the same for an unchanged chain: every instruction succeeds, nobody but the sponsor pays for
   accounts, and the builder's cache is what the program leaves there, lower bounds for the vault's lamports
   (`Leaves`). The cache is right because each step follows what its instruction does: a slip in one of them breaks
   this conjunct first.
4. `PurseStory(c)` says that a pending refund has a close of the WSOL account ahead of it, so none is pending at the
   end of a well-built route, and `Opened(c)` that the steps taken for a swap have opened what it would miss.
5. `EffectStory(c)` ties a call that ran to the ledgers of its whole program.

`SetupInvariant` proves `SetupInv` inductive. TLC had agreed with each of its conjuncts before, with small sets for the
chains and wallets they quantify over.

### LookupTables

`TablesInv` says of the chain that a table is as long as the slots its addresses were added in, in order, and
closed only after its cooldown (`TableSound`); of each snapshot, loaded or shared, that it was taken while its
table was alive and that its addresses were usable then (`SnapshotSound`), which stays true because addresses
are only appended and a deactivated table is not extended; and of a running operation that what it loaded and
what it has still to load are the keys it began with, each once (`Progress`). The last is what makes a refresh
keep every table of the list it replaces, and `NoTableTwice` says that no list names a table twice, the merged
one included.

### VenueAccounts

`AccountsInv` is the types, which tie the adapters' settings to one read of a config, and that a trade is built
when both settings and all three parts of the table were read. It is inductive; the work is in the state where a
trade has been built. The lemmas `CurveRouteOver`, `PoolRouteOver` and `NativeRouteOver` say that a route names no
address but a dozen of its target's, its bridge's, its fees' and the common ones, whatever optional accounts the
lists have. `Covered` is the set of addresses that are in the table or the trade's own; `CommonCovered`,
`CurveCovered`, `PoolCovered` and `BridgeCovered` show that each of the dozen is one: the recipients because the
table lists them and their token accounts of both quotes, the bridge's because it lists them by name, and the
rest because the target or the wallet is behind it.

`SetupServesSwaps` follows the builder along a route. `FundNativeSetup` and `OpenBefore` are recursive functions of
the position; `BuildersRun` and `OpenAftersSteps` show that they exist and how each value follows from the one
before. `Sound(b, A)` says of a builder that every swap so far finds open what it needs, that the builder takes
nothing for open that is not, and that what the sponsor opened is used by a later instruction or is in `A`, the
accounts opened for a swap still to come; `Ready(b, A, P)` adds that `P` is open. One lemma for each way the builder
may go on (`SoundCreate`, `SoundVolume`, `SoundPumpSwap`, `SoundPumpFun`, `SoundClose`, `SoundKeep`) shows what
it keeps. `SwapList` and `CurveLists` show that the accounts are where the setup reads them, whatever a cashback, a
creator or a side adds to the list: the buyback recipient, for one, is always the last but one. `Carries(leg, A, P, B, Q)`
then composes instructions to legs and legs to routes, and `RouteCarries` concludes that a sponsored route needs
nothing open at first but the asset it sells.

### TableCreation

`TablesStayResumable` rests on `PrintedInv`: what exists, what is in flight and what the run works on was printed.
It is inductive because the step that signs a creation prints its address, because a resumed table is one that
was printed, and because a table comes to exist only by a transaction in flight.

The others rest on `CreationInv`. `ChainInv` is about tables and transactions without regard to the program:
types, that what ran did so in a slot after the one it was signed in (`Timely`), and that, while no run overlaps
an earlier one's transactions, at most one is in flight and it adds nothing its table holds (`Orderly`).
`RunInv` has one part per stage of the program: what it knows of its table there, that nothing missing is in the
table, that the funds suffice for what is left (`Need`: the rent per address and a fee per chunk), and, once it
said "Ready", that the table is on chain with the whole list. Both lean on what remains of a list when the
addresses stored are taken away from it (`Missing`).

### Only model-checked

- All liveness properties, which are beyond the prover.
- `RacedSetupLands`: `FreshLands` is proved for an unchanged chain; the invariant `Leaves` behind it states the
  builder's memory exactly, and a race only bounds it.
- `FitsPacket`: the number of bytes of a message is arithmetic over one set of settings and one layout of every
  list. It holds for the sizes measured, not for a reason a proof would show.
- That the routes of the adapters are `WellBuilt`: TLC evaluates it for the routes of the instances, which have every
  shape the adapters build for USDC.

## 5. Not modelled

- `price_impact.rs`: floating point, display only.
- Instruction bytes, derivation of addresses, decoding of account data, JSON, wording of errors, logging.
- `tests/`, re-exports and the version banner: harnesses that need a network, and nothing to check.
- A relay that answers with the signature of another transaction (`submit.rs:165`); a provider whose
  instructions do not enforce the minimum it quoted: the code cannot tell either.
- That `simulate_units` or a cost simulation fails is any `Rpc`, `Simulation` or `Build` error at its await;
  the conditions inside the node are not modelled.
- Environment variables and the printed commands of `create_shared_alt.rs`.

## 6. Plan

1. Done: the money path (`FeePolicy`, `SwapExecution`, its contract and proofs), confirmation with both
   submitters and its proofs, routing and its proofs, two-leg routes, sponsored setup, the providers and their contract,
   account lists and packet size, lookup tables and their creation.
2. Done: proofs of every safety property of these but `FitsPacket` and `RacedSetupLands`.
3. Composition of `RouteSelection` with `VenueContract` in place of arbitrary offers, and of the adapters'
   fee-settings caches under concurrent first use.
