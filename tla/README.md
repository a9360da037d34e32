# HLiquity: models, checks and proofs

HLiquity is a borrowing protocol on Hedera. Users lock HBAR in *Troves* and
borrow HCHF against it; the web app in `src/packages` lets them open, adjust and
close Troves, deposit in the Stability Pool, stake HLQT and redeem HCHF. The
contracts themselves are not in the repository. What is in it is the client: data
stores fed from a JSON-RPC relay, a mirror node or an Ethereum provider, the
arithmetic that foresees what a transaction will do, three libraries that populate
transactions, and a React app in which wallets, reads, timers and the user all act
at their own pace. This project models the client in TLA+, checks the models with
TLC and proves their main properties with TLAPS.

Contents: 1 inventory, 2 plan, 3 modules, 4 runs, 5 fairness, 6 proofs,
7 findings and known limits, 8 what is left out.

## 1. Inventory

| Part | Source (`src/packages/...`) | State | Operations |
| --- | --- | --- | --- |
| Data store | `lib-base/src/HLiquityStore.ts` | `_loaded`, `_baseState`, `_derivedState`, `_listeners` | `start`, `_load`, `_update`, `subscribe`, `_notify`, `_reduce`, `_derive` |
| Hashgraph store | `lib-hashgraph/src/HashgraphLiquity.ts` | the same, filled by `fetchStoreValues()` | `_doStart`, `refresh`, `approve...`, `associateWith...`, `dissociateFrom...` |
| Block-polled store | `lib-ethers/src/BlockPolledLiquityStore.ts`, `ReadableEthersLiquity.ts`, `EthersLiquity.ts` | the store and the block it is of | `_doStart`, `refresh`, `_reduceExtra`, the cache, consents |
| Placeholder | `lib-placeholder/src/PlaceholderLiquity.ts` | a store without a user | reads, values made up |
| Transactions of the libraries | `HashgraphLiquity.ts`, `PopulatableEthersLiquity.ts` | none of their own | `populate...`, `send`, `waitForReceipt` |
| Mirror node client | `mirror-node/src/mirror_node.ts` | the tokens of the last answer | `fetchTokens`, `waitForTokenState` |
| Batching provider | `providers/src/BatchedProvider.ts` | batch, timer | `call`, `_dispatchCalls` |
| WebSocket provider | `providers/src/WebSocketAugmentedProvider.ts` | socket, reconnect timer, seen block, listeners | open, close, reconnect, calls with retries, `waitForTransaction` |
| Transactions of the app | `dev-frontend/src/components/Transaction.tsx` | one `TransactionState`, the watched receipt, a timer | `useTransactionFunction`, `<Transaction>`, `<TransactionMonitor>` |
| Arithmetic | `lib-base/src/Decimal.ts`, `Trove.ts`, `Fees.ts`, `StabilityDeposit.ts`, `HLQTStake.ts` | none | `mul`, `div`, `pow`, `whatChanged`, `apply`, fees and their decay |
| Trove forms | `.../Trove/{Opening,Adjusting,TroveManager}.tsx`, `useStableTroveChange.ts` | edited amounts, the change offered, automatic adjustment | edits, rebasing on a new Trove, reset |
| Validation | `Trove/validation/validateTroveChange.tsx`, `Stability/validation` | none | which change is refused |
| Views and forms of positions | `.../Trove/context`, `Stability`, `Staking` | the view, the edit, `changePending` | events of the user, of transactions and of the store |
| Redemption | `RedeemHchf.tsx`, `redemptionDetails.ts`, `pages/RedemptionsPage.tsx`, `extractAffectedTroves.ts` | typed amount, details, page of results, searches | readings, paging, enriching of rows |
| Wallet connection | `HederaDappConnectorProvider.tsx`, `multi_wallet.tsx`, `LiquityContext.tsx` | connector, session, chain, the store in use | connect, disconnect, switch of the chain |
| Store hooks | `lib-react/src` | selected part of the state | `useLiquitySelector`, `useLiquityReducer`, `LiquityStoreProvider` |

**How the parts interact.** The app calls methods of the library that fits the
wallet: lib-hashgraph for a Hedera session, lib-ethers for wagmi, lib-placeholder
without a wallet. Those that change something populate a transaction from several
reads, send it through the wallet, wait for its receipt and, for approvals and
associations, wait for the relay or the mirror node and refresh the store. The
store notifies its listeners, which are React hooks; they re-render forms and
views, whose effects set more state and call `refresh()` again. All of it is one
JavaScript thread, so a turn is atomic, but every `await`, effect and timer ends a
turn, and any number of calls may be in flight together.

**What is hard to get right.** Overlapping refreshes whose answers nothing
orders. `_loaded` tested after an `await`. Listeners that subscribe and
unsubscribe each other while they are being notified. Optimistic updates that a
lagging relay contradicts. One `TransactionState` shared by all transactions, set
by effects, their cleanups and a timer. A mirror node that lags and whose errors
are swallowed. Forms whose handlers use values of the last render while the Trove
changes under them. Reducers that guess from a change of the store whether their
own transaction was executed. Reads that are torn over several blocks and that a
transaction is then populated from. Batches of calls for different blocks, sockets
that come back after they were closed. Initialisations and wallet calls that end
after the chain was switched. Rounding, in both directions, between the amount the
user types and the debt the contract will write down. `PROJECT.json` lists these at
their lines under `hazards`.

**What makes each part correct.** A store is loaded for good, shows only values
that were real, leaves no listener behind and tells each all that changed. An
approval or association that returns is visible in the store. The app waits for
what is in flight and for nothing else, and says "confirmed" only of what
succeeded. A form comes to offer the change the user asked for, once, and the result
is the one on the form; a change it calls valid is not reverted. The libraries agree
on what they read and what they call. A read is answered from the block it names.
The wallet in use is that of the selected chain.

## 2. Plan

Built, in this order: the store of lib-base and lib-hashgraph, the transactions of
the app, the associations, Trove arithmetic and the opening and adjusting forms, the
view of the Trove; then the providers, the store of lib-ethers with the abstract
store that both implement, the reads and the calls of the three libraries,
redemption, fees, the page of redemptions, the deposit and the stake, the closing
form, validation, and the wallet connection.

Modules that compose others: `BatchedProvider` is built over
`WebSocketAugmentedProvider`, as the mixins are; `Redemption` calls `Fees`,
`HashgraphPopulate`, `EthersPopulate` and `HashgraphAbi`; `BlockPolledLiquityStore`
reads as `ReadableEthersLiquity` does and is compared with `HashgraphReads` and
`PlaceholderReads`; `HLiquityStore` and `BlockPolledLiquityStore` instantiate
`DataStore`; the forms extend `TroveForms` and `Trove`.

Every safety property that a run checks is also a theorem (section 6). What could
come next: the round trip of the deposit's and the stake's changes, as for Troves; two
overlapping loads in the instance of `RedemptionHistory` (the proofs have any number
already); an abstract specification of what a transaction of the app promises.

## 3. Modules

Each model keeps the control of the code and abstracts its data. Definitions whose
comment begins with *Broken*, or that say which error they make, are deliberately
wrong variants of the definition that follows them; they show that the properties
notice the error (`mutants` in `PROJECT.json`). No specification uses them.

### DataStore

What a store promises, whichever way it reads the chain: it is loaded once and for
all, and every property it then shows is a value that the property had. `loads` counts
the loads, so a second `_load()` or `onLoaded()` is no step of it: `HLiquityStore` maps
it to the number of calls of `onLoaded()`. It does not
promise that the properties are of one moment or only move forward: neither store
does.

### HLiquityStore

`lib-base/src/HLiquityStore.ts` as `HashgraphLiquity` runs it. A property of the
state has a *version*, the number of times the ledger changed it; 0 is what the
`state` getter shows before the load.

* `base`, `derived`, `loaded`, `subscribed`: `_baseState`, `_derivedState`,
  `_loaded`, `_listeners`. `toNotify` is `_notify()`'s copy of the listeners: while
  it is not empty a turn is in progress and no other action is enabled.
* `Start`, `Refresh` begin the reads of `fetchStoreValues()`; `cand[r]` collects
  what each read may return, all values the relay served since then.
  `ReadsAnswered` picks one per property independently, and applies `_load()` or
  `_update()` by the value `_loaded` has *then*; `ReadsFail` leaves everything.
  A failed request for the associations reads as "none".
* `Approve`, `ApproveReceipt`, `ReadsAnswered`/`ReadsFail`, `OptimisticUpdate` are
  the stages of `approve...()`.
* `Notify` calls one listener, which may unsubscribe one and subscribe another.
* `Replaces` distinguishes properties compared by value from the two allowances,
  compared by identity.
* External: `LedgerWrite`, `MirrorPublish`.

### BlockPolledLiquityStore and the reads

The store of lib-ethers: `Start`, `Stop`, the 20-second interval and the listener
for blocks, `Refresh`, `Approve` with its optimistic update, and the cache that
answers reads from the state. A fetch at "latest" makes a request per contract
function, each answered from any block between the fetch's beginning and its end:
`span` keeps those blocks, so `Shown(c)` is every value the store may be showing. A
fetch for a block is of that block.

`ReadableEthersLiquity`, `HashgraphReads` and `PlaceholderReads` say which contract
functions each property of the state is read from. `SameReads` compares them at
every block.

### TransactionFlow

`Transaction.tsx` with the `send()` and `waitForReceipt()` of lib-hashgraph.
`state` is the last value a setter was called with, `shown` the committed one.
`Commit` is a React commit with both effects of `<TransactionMonitor>`, their
cleanups first. A click's setters are committed before any other turn, as React
does for discrete events; the other setters wait for `Render`. `Guarded` are the
ids of `<Transaction>` buttons, which are disabled while anything is waited for;
the other buttons look at their own id only. `succeeded` and `direct` (a button of
the other kind was pressed) are history variables. `GuardedWaits` says that, until
such a button is pressed, neither a cleanup nor the timer of an earlier outcome takes
away the state of the transaction in flight. With such buttons two are in flight, and
it is false.

### TokenAssociation

`associateWith...()` and `dissociateFrom...()`, `waitForTokenState()`, and the part
of `refresh()` that reads associations. A token is associated when its version is
odd, so "the mirror node has seen my transaction" and "some state like the one I
want" are different facts. `answer[c]` is a response on its way: what it says may
be outdated when it arrives. `at` and `before` are history variables. `Returns` is
every way in which the `refresh()` at the end of a method ends. `AssociationShown` speaks
of all of them: the mirror node has the association by then. The store shows it if the
mirror node answered that refresh; if that request fails, the catch in the code makes
it "no token is associated" (`RefreshArrivesUnread`), until a later refresh is answered,
and if another read fails the store stays as it was (`RefreshFails`).

### WebSocketAugmentedProvider, BatchedProvider

Opening, losing, reopening and closing the WebSocket, the switch of the block
listeners between it and the basic provider, receipts that are waited for, and calls
that are retried while a node behind the load balancer has not got the block. The
batching provider gathers calls for one block for 10 ms, forwards one alone, and
dispatches the batch when a call for another block comes. Blocks are numbers, nodes
answer from any block between the one all have and the newest. `user` records what
the user of the provider asked for (history): `raced` counts the calls of
`closeWebSocket()` that found a lost WebSocket waiting to be reopened. Their timer goes
on, and `ClosedIsClosed` allows one WebSocket for each of them, and no other.

`Calls` are waited for by callers that the model follows; `OthersJoin` is one of all the
other calls an application makes, which may join a batch, and restart its timer, at any
time and for ever. So `ReadsSettle` does not say that every call settles: calls that keep
joining put a batch off for ever. It says that this, and a request that went down with a
socket, are the only ways to wait for ever.

### HashgraphPopulate, EthersPopulate, HashgraphAbi

What each `populate...()` calls: contract function, typed arguments, HBAR, as a
function of the parameters and of what was read before. `CallsAgree` compares the
two libraries with each other and with the interface of the contracts.

### Redemption, Fees

The form of `RedeemHchf`, whose effect begins a reading of the details for every
amount and drops the answers for earlier ones, and `populateRedeemHCHF()` with
`increaseAmountByMinimumNetDebt()`. `chain` keeps every state of the contracts, so
that each read of a reading may be of another one. The contracts (external) are
modelled as far as redemption hints and redemptions need: Troves owe at least the
minimum, are sorted, and those that cannot be redeemed from come first. `Fees` has the decay of
the base rate with `pow()`'s rounding.

### RedemptionHistory

`RedemptionsPage.tsx`: the effect that loads a page of results for the timestamp of
the URL in up to three requests, the links to the next and the previous page, and
the rows, which are enriched by the search of `extractAffectedTroves.ts`: windows of
seven days backwards, over two contracts and the two forms of an address, each query
of which may fail or find nothing. Time counts what happened on the ledger, to the
Trove or to others, so windows may be empty and a search may go through several.

### Trove, TroveForms, Adjusting, Opening, Closing

`Trove` has `Decimal`'s multiplication and division with their rounding, and
`whatChanged()` and `apply()` of class Trove. `DIGITS` is 10^PRECISION, a constant,
so the runs use a coarse precision in which every rounding case occurs and the
proofs cover all. `TroveForms` has `validateTroveChange()` and, marked external, what
the contract asks of a change.

`Adjusting` is the adjusting form: edits, the automatic adjustment with the fee of
the last render, and two effects. One rebases an unsaved change on a Trove that a
redemption or redistribution has changed (`RebaseEffect`). The other is
`useStableTroveChange()`: the button offers `stable`, which an effect sets to the change
a render computed (`StableEffect`), and which the next commit shows. `Render` commits
what is queued together with what the store told; `RunEffects` is a turn of its own, and
clicks and keys fall in between: `Click` handles the event with the values of the last
render, runs the effects that are due after the handler, so that what they set wins,
commits, and runs the effects of that commit. What the store knows besides the Trove
(`Known`) is chosen anew for each validation. `RenderClosed` closes the Trove under the
form, or before its first render. `wantedCollateral` and `wantedDebt` are history
variables: what the last edit was to change.

In the window between a commit and its effects the button offers the change of an earlier
render, also the one between a new Trove and an edit that has yet to be rebased, and
sends it when it is clicked; an amount typed in that window is replaced by the rebased
earlier one. The code does both. `OffersWhatWasWanted` therefore speaks of a form that has
settled, and does not count an amount that was typed before a due rebase.

`Opening` is the opening form, with the effect that
fills in the minimum amount. `Closing` is `TroveManager`, whose reducer, and so
whose effects, are made anew by every render.

### TroveView

`TroveViewProvider.tsx`, with what the components of its views dispatch: buttons,
and effects that answer a confirmed transaction. `transitions` and the other
tables have the names and the form they have in the source. `ui` is the provider:
`view` is committed, `queued` the last `setView()`, `ref` is `viewRef.current`, `due`
says that effects of the last commit have yet to run. `Effects` runs them in React's
order, those of the mounted component first. `Click` and `Navigate` are whole turns:
the handler, effects that are due, the commit, its effects. `Render` commits what is
queued, `RunEffects` runs the effects of that commit in a turn of its own, and the
user may act in between. `Remount` is a change of the account. The store may
report any status after any other. `overtaken`, `ahead` and `owed` are history
variables.

### Stability, Staking

The view, the form with its reducer and the transactions of the deposit and of the
stake, with React as in `TroveView`: effects that are due when a click comes run after
its handler, and the `setView()` of such an effect is the later one and is kept. The
hooks subscribe in an effect (`Subscribe`), so a report that comes before is missed; a
click commits the reducer's state, but no new state of the store (`CommitClick`), and a
change is validated against what the last render showed. `pool` is what the contracts
have, `stored` what the store last told. A transaction may be executed, reverted, or
executed and shown as failed; liquidations and gains change the position meanwhile.
Whether there seem to be undercollateralized Troves, which refuses a withdrawal, is
left open at every send and every execution. One transaction is in flight at a time.

History variables and exceptions: `done` follows the transaction that was sent last, from
"executed" to "known", when it was shown as confirmed or when the form heard of a deposit
that it can tell from the old one; from then on `DepositOfferedOnce` forbids offering it.
This covers changes that were sent over a store that lags and transactions shown as
failed, the latter once the form has heard of them; before that the code does offer them
again. `wanted` is what was typed, unless it was typed while a transaction was under way,
or sent before the form heard of an earlier one: a report takes those back. `excused`
records the orders in which an empty deposit does stay on the page as active: a click
between a commit and the effect that sets the ref, a click that replaces the view queued
for the emptied deposit, a confirmation over an empty deposit. For the stake, `missed` is
a report of the execution that came before `waitingForConfirmation`, or did not show it.

### Session

From the wallet to the store: the selected chain, the connectors that are
initialised for it, their sessions, the dialog, and `LiquityProvider` and
`LiquityStoreProvider`, which make a store of one of three kinds and show the
application when it is loaded. `hasty` (the user acted on a page of a connector that
is gone) is a history variable. Simplified: `setIsStoreLoaded(false)` takes effect at
once, so the one commit that shows the application with the unloaded store (section 7)
is not in the model; and only a connector that is initialised announces a session, though
its handler is installed before `init()`.

### MC modules

`MCHLiquityStore`, `MCBatchedProvider` and `MCBlockPolledLiquityStore` give the
constants of the runs their values. `MCForms` (adjusting, opening, closing),
`MCPositions` (deposit, stake) and `MCRedemption` (redeeming, history) put pages that
are never mounted together in one specification: a behaviour stays on the page it
starts with. The other configurations need no module.

## 4. Runs and their bounds

| Run | Module | Instance | Shows |
| --- | --- | --- | --- |
| `store` | MCHLiquityStore | 3 properties (one plain, one allowance, one association), 2 calls, 1 listener, versions to 2 | refinement of `DataStore` (loaded once), real values only, approvals visible on return |
| `store_listeners` | MCHLiquityStore, `...Listeners.cfg` | 2 properties, 2 calls, 2 listeners, versions to 2 | listeners up to date, `stateChange` complete; a later refresh repairs |
| `ethers_store` | MCBlockPolledLiquityStore | 2 fetches, 3 blocks, a redistribution and an approval | refinement of `DataStore`, catches up with the chain, same reads in all libraries |
| `transactions` | TransactionFlow | 3 sends, 3 ids, 2 of them `<Transaction>` buttons' | what is awaited is what is shown, one guarded transaction keeps its state, no endless wait, back to idle |
| `association` | TokenAssociation | 1 token, 2 calls, versions to 3 | the mirror node has the association on return and an answered refresh shows it; the wait ends, the flags converge |
| `providers` | MCBatchedProvider | 2 sockets, 1 loss, 3 blocks, 2 calls and others that join, 1 wait, 2 confirmations | closed stays closed but for raced closes, answers of the block asked for, waits end, reads end unless calls keep joining |
| `trove_view` | TroveView | all views, statuses and events, 1 transaction in flight | the view fits the Trove, a liquidation or redemption is told |
| `forms` | MCForms | 2 Troves, 2 prices, 2 rates, 4 amounts, 2 edits, 10 units to 1, both modes of the system | a settled form offers what was wanted, the result is what is shown, a valid change is accepted |
| `adjusting_closed` | MCForms, `MCAdjustingClosed.cfg` | 3 rates, 5 amounts | violation: a render of an empty Trove throws |
| `positions` | MCPositions | amounts to 2, one liquidation's gain, one reward | a change known to be executed is not offered again, the one offered is the one typed; the view fits; a pending change ends |
| `populate` | MCRedemption | 2 Troves and a new one, amounts 0, 5 and 13, 2 Troves and 2 trials at once, 3 states of the contracts, 2 readings; 5 moments, pages of 2, windows of 2 | details of the amount shown, redemptions as shown, rate below the maximum, equal calls; pages adjoin, rows tell what was redeemed |
| `session` | Session | 2 chains, 3 connectors, 1 wallet call, 3 stores | the wallet fits the chain, the application has a loaded store |

Why these bounds are enough. *Calls, sends and fetches*: a store keeps one value per
property and the app one `TransactionState`, so an overlap that matters is one
between two of them; the third send is there for a chain of two replacements.
*Versions and blocks*: 2 give an old and a new value on top of "not loaded"; 3
associations allow one to be made, undone and made again; 3 blocks allow a read
of a middle one. *Listeners*: the one that is called and the one it subscribes or
unsubscribes. *Properties*: one of each kind that the code treats differently.
*Amounts*: below and above each Trove's amounts and the reserve, with rates at which
the fee rounds. *Edits*: one that is overtaken, and one that overtakes it. *Sockets*:
one that is lost and one that replaces it. *Connectors*:
one in use, one being left, one being made. *Amounts to redeem*: one that ends within
the first Trove and is truncated, and one that closes it and ends in the second; the
third Trove is one more than a transaction redeems from. *Moments of the history*: more
than a page, and more than two windows. *Views*: nothing is cut but the transactions in flight,
of which the one `TransactionState` shows only one confirmed at a time. The unbounded
claims about the same definitions are the theorems. Symmetry (permutations of calls,
listeners, readings) is used only in runs without liveness properties.

Deadlock checking is on for the stores of lib-base, transactions, associations and
`TroveView`. It is off where a bound ends the behaviour (blocks, connectors, states of
the contracts, moments), for `forms`, where a render that throws ends the page, and for
`positions`, where the overlay of a change that stays
pending really covers every button (section 7).

## 5. Fairness

* *Store.* `Notify`: a turn runs to its end. `MirrorPublish`: the relay eventually
  serves the last block. The continuation of each call: HTTP requests are answered
  or time out, and the event loop takes tasks in order, so other turns cannot
  overtake it for ever; since it is disabled while a round goes on, this is strong
  fairness. Nothing is assumed of the ledger, of users or of which answers come;
  `EventuallyCurrent` itself assumes that up-to-date answers keep coming.
* *Store of lib-ethers.* The interval fires, requests end. Blocks keep coming to a
  listener that stays subscribed, and not all of its fetches fail: strong fairness of
  `BlockListener` and of the answers to it. `CatchesUp` speaks of a store that is
  started and not stopped again.
* *Transactions.* React commits what is queued (strong, since other setters may
  restore the committed value in between), reads behind `waitForReceipt()` are
  answered or fail, timers fire. Wallets are *not* fair: `Quiet` assumes instead
  that none is left with a request.
* *Associations.* The mirror node catches up and each request is answered or fails;
  `WaitEnds` assumes that requests do not fail for ever, as the loop has no limit.
* *Providers.* Blocks are made, nodes catch up, sockets connect or are closed, timers
  fire, and requests are answered, unless they went down with a socket: those are
  lost, which `WaitsEnd` and `ReadsSettle` allow because the code has no answer to it.
  The timer of a batch elapses, and its callback runs unless a call joins first.

The forms, views and pages are specified without fairness: their properties are of
safety.

## 6. Proofs

Proved with TLAPS for all values of the constants that satisfy the assumptions of
the modules: sets of any size, any bound on versions and blocks, any precision, any
rate up to 100%, lists of any length. The assumptions are `FieldAssumption` and
`VersionAssumption` (the properties of a store, and bounds), `PolledConstants`,
`IdAssumption`, `BoundAssumption`, `ProviderConstants`, `StabilityAssumption` and
`HistoryConstants` (sets are disjoint, bounds are numbers), and those about amounts:
`DecimalAssumption` (digits and the reserve are not zero), `FormsAssumption` and
`FormsConstants` (open Troves owe more than the reserve, prices are not zero, rates are up
to 100%, MCR is not above CCR), `FeesAssumption` (rates up to 100%, a decay below 1), `RedemptionAssumption` (the minimum debt, the limits of a transaction and
the given maximum rates are not zero, Troves owe at least the minimum, and NONE is
neither a number nor the frontend's address). TLC evaluates them on each instance.

Every invariant that a run checks is a theorem, and so are the action properties and the
two refinements. Hardly any property is inductive alone; what follows says what had to be added.

**HLiquityStoreProofs**: `TypeCorrect`, `StoreShowsRealValues`, `StoreLoadsOnce`,
`NoListenerLeftBehind`, `StateChangeIsEnough`, `UnsubscribedStaysSilent`,
`ApprovalIsShown`, `StoreImplementsDataStore`. What the
store shows is real because what reads in flight may return, and what approvals carry,
was on the ledger (`ChainInv`). Listeners are up to date between rounds because within
a round those already called, and those that joined it, have the state, while those
still to call lag by exactly `stateChange` (`ListenerInv`). The steps of the store
(`UpdateStep`, `LoadStep`, `NotifyStep`) are lemmas, used for every call that takes
them. The refinement follows from the same invariant: every step of the store changes
the ledger, or leaves a loaded store that shows real values, or neither
(`StoreOrLedger`).

**BlockPolledLiquityStoreProofs**: `PolledImplementsDataStore`, the same refinement for
the store of lib-ethers, and `ReadsAgree`. The value of a contract function at a block is
the number of transactions before it that touch the function, so the argument is about
cardinalities: it grows with the block (`CountMonotone`), later blocks do not change it
(`CountAppend`), and an approval adds one to the allowance (`CountTouched`), which is
why the amount that a consent shows before the chain is read again is real. The
invariant (`Inv`) says that the blocks of fetches and of the store, and the amounts
of consents, are on the chain. `ReadsAgree` compares the tables of the three libraries
property by property (`SameTables`).

**TransactionProofs**: for the transactions of the app `WatchedIsShown`,
`TimerIsShownOutcomes`, `AwaitsRealApproval`, `ConfirmationsAreTrue`,
`GuardedButtonsWait` (`GuardedWaits`, for as long as only `<Transaction>` buttons are pressed). The
invariant adds that a queued or committed tx has the id it was sent with and that queued
confirmations are true as well: a property of what is shown rests on what is queued.
`CommitOK` is what a commit does with its effects. For the associations
`AssociationTypeCorrect` and `AssociatedOnReturn`, which is about every way the method
ends and claims nothing of the store when the last request to the mirror node fails. The point is that once an answer
contained the token, the mirror node has the version *this* call made: it was one version
behind when the transaction was executed, that version was a dissociation, and it does
not go back (`KnownInv`, `SeenIsCurrent`).

**FormsProofs**: `UnapplyFeeInverts` (amount to debt and back is exact),
`ApplyFeeReaches` (debt to amount and back is exact or one unit more),
`ApplyReaches` (`apply(whatChanged())` gives the other Trove up to that unit). They
rest on three facts about integer division (`Quotient`, `Monotone`, `Cancel`),
since products of variables are beyond the solver. Then `TypeCorrect`, `OfferIsWanted`
and `ShownIsReached` of the adjusting form. Each edit differs from a Trove by what was
wanted or not at all: the queued one from the Trove that is shown or, while the effect
that rebases it is due, the shown one from the Trove it is based on. Of the change that is
offered and the one that is queued, one is what the last render computed (`EditInv`), so
that a settled form offers that (`Near`). Each form
behaves by itself as its module says (`FormsAreTheirOwn`), so that what is proved of one
holds of the page: `OpeningOffers`; `ClosureIsOffered`, where the reducer's state stays
one of two Troves in whatever order effects, reports and transactions come
(`ClosingInv`); and `ContractAccepts`, that what the forms call valid the contract does
not revert, one lemma per rule of the validation and mode of the system. Their exceptions
are those of section 3: nothing is claimed of what is offered before the form has settled.

**TroveViewProofs**: `TypeCorrect`, `ViewFits`, `ClosureTold`. What is shown fits
because what is *queued* fits the status the effects have *seen* (`Fits`), and because
between turns the ref, the view and the queue differ only in the ways of `InStep`.
The event of a status leads to a fitting view from every view (`StatusLeads`), so
each change of the status repairs whatever went wrong before it. `EffectsFit` is
the step that all turns share.

**PositionsProofs**: `DepositOfferedOnceHolds`, `DepositOffersWhatWasWantedHolds`,
`DepositViewFitsHolds`, `StakeOfferedOnceHolds`, `StakeChangeEndsHolds`. That an executed
change is not offered again follows from four things that go together. The commits, their
effects and the ref stay in step (`UiInv`, `StakeUiInv`). The transaction in flight is the
one waited for (`FlightInv`, `StakeFlightInv`). The form is about the position the store
told of, and while a transaction is under way only liquidations come between that one and
the contracts' (`WantedInv`, `StakeWantedInv`). And a change that is left in a form after
it is known to be executed is on its way out: it is pending, and its confirmation is being
answered, or the report that reverts it is coming (`OnceInv`, `WillRevert`). `ViewInv` says
of the view that is queued what is to be shown of the view, unless one of the excepted
orders occurred. For the stake `PendingInv` adds that whatever is pending has a report or a
failure ahead.

**ConnectionProofs**: `WalletFits`, `ShownIsLoaded`, `SessionTypes` of the wallet
connection: earlier connectors have failed or are destroyed, so none can become the
connector any more (`ConnectorsInOrder`), a session that is not late was brought by the
connector there is (`SessionsNamed`), and only the store of the page is observed
(`ObservedIsShown`). Of the providers `StaysClosed`: every WebSocket that
is there still has its handler, and one that has been told to close has lost it
(`Handled`), so that a close event replaces one WebSocket by one timer and nothing adds to
their number but the user and the closes counted by `raced`. And `AnsweredFromItsBlock`: a caller waits in the batch or for one
call under way, which asks for the caller's block, and in no two places
(`WaitsInOnePlace`).

**RedemptionProofs**:

* `DetailsAreOfShownAmount`: a reading that is still mounted is for the amount the effect
  was last run for (`DetailsInv`).
* `WhatIsShownIsRedeemed`: a populated redemption is the one of what was read, or that
  one increased (`PopulatedOK` in `TxInv`), on a chain whose Troves all owe the minimum
  (`ChainInv`). For such a redemption the walk of `getRedemptionHints()` and that of
  `redeemCollateral()` go from Trove to Trove together, which is shown by induction
  downwards over the list: `ForeseenIsRedeemed` with the hint for the last Trove, and
  `IncreasedIsRedeemed` without, where the added minimum is what closes that Trove.
* `NeverPaysMore`: from `TxInv`, and because the maximum in the call is the one given last
  or computed from the reads as lib-base computes it (`PopulationIs`, `SameRate`).
* `CallsDoAgree`: one lemma per method or number of arguments (`MethodsAgree`), after the
  hints (`HintsAgree`). lib-hashgraph splits the trials by a loop and keeps the closest
  hint by a reduction; lib-ethers divides, and the closest one is specified by what it is.
  `TrialsAgree` and `ClosestIs` show by induction that they come to the same.
* `PagesDoAdjoin`, `RedemptionsAreTold`: what is listed does not change as the ledger
  grows; the link to the next page is the oldest result listed, and the link to the
  previous one leads to a page with the oldest newer result (`LinksOK`), which is counting
  (`OldestOf`, `PreviousLinks`). A row tells what was redeemed because after an update,
  and as long as nothing is redistributed, the Trove has the debt that was logged
  (`LedgerInv`), and because the search comes to the window that has the last update
  (`SearchFinds`).

Induction. The library's induction theorems take an operator as a parameter, which the
provers cannot instantiate. The module states induction with *sets* in place of
predicates, from `WFMin` and `NatLessThanWellFounded`: `LeastOf`, `StrongInduction`,
`Upwards`, `DownInduction`, and the existence of recursively defined functions
(`CourseOfValues`, `Downwards`). With these, what `debtOf`, the two walks, `trials`,
`closest` and the search compute is proved for lists of any length.

Only model-checked: the liveness properties `EventuallyCurrent`, `EndsIdle`,
`NotStuckWaiting`, `WaitEnds`, `EventuallyShown`, `WaitsEnd`, `ReadsSettle` and
`CatchesUp`, since fairness and ENABLED are outside what the prover does, and the
violation.

## 7. Findings and known limits

**Finding** `adjusting_closed`: a Trove that is liquidated, redeemed or closed elsewhere
while its form is shown, or about to be, makes the render throw (`Adjusting.tsx:89`, `Trove.ts:433`).

Divergences and races met while modelling. Where a property has an exception, it is one
of these.

*Stores.* `stateChange` always contains the two allowances, which are compared by
identity (`HLiquityStore.ts:595`, against the documentation at 192), and the
documentation of a listener's parameters is swapped (186-190). `getTotal()` adds reads
of several blocks. An error of the mirror node ends the wait for a dissociation
(`mirror_node.ts:137`); that for an association is not affected, but
a failing request right after it shows every token as not associated
(`HashgraphLiquity.ts:572`). `EthersLiquity.hasStore()`
is always true, so one without a store throws after an approval. A listener that throws
ends the round.

*Transactions.* With one shared `TransactionState`, a button that sends by
`useTransactionFunction()` re-enables `<Transaction>` buttons while a transaction is in
flight (`Transaction.tsx:131`), and the timer of one outcome may then wipe out what the
other transaction has queued. A transaction that succeeded is shown as failed if reading
its details fails (`Transaction.tsx:277`). `liquidateUpTo()` passes the number of Troves in units
of `Decimal` (`HashgraphLiquity.ts:1923`, against `TransactableLiquity.ts:305`).
`Decimal` has 8 digits, its documentation says 18 (`Decimal.ts:27`). The additional gas of
lib-ethers is never applied, since every call names a limit.

*Providers.* `closeWebSocket()` while a reconnect is waiting does not cancel it
(`WebSocketAugmentedProvider.ts:110`): the exception of `ClosedIsClosed`. A request that
goes down with a socket is not repeated. Calls that keep joining a batch put it off for
ever (`BatchedProvider.ts:196`).

*Forms and views.* The automatic adjustment uses the fee of the previous edit
(`Adjusting.tsx:242`) and may leave a ratio below the 150% it promises. A click, or a
component mounted just when its confirmation is shown, that dispatches between
`setView()` and the effect that sets `viewRef` starts from an outdated view
(`TroveViewProvider.tsx:91`); a Trove closed and opened again between two refreshes keeps
the status `open` (`TroveManager.tsx:220`). `TroveManager` renders without end while it is
mounted, and would offer nothing after a reverted transaction if its reducer were
memoised. In the staking view, a report of the execution that comes before
`waitingForConfirmation` leaves `changePending` set until the next change of the stake.
Cancelling a deposit in flight leaves the view `NONE` over a deposit. A deposit executed
but shown as failed is offered again until the form hears of it. Between a commit and its
effects the adjusting form offers and sends the change of an earlier render, and replaces
what is typed (`Adjusting.tsx:102`, `useStableTroveChange.ts:24`).

*Redemption.* A redemption that was truncated because one transaction redeems from at
most `redeemMaxIterations` Troves redeems less than it shows after
`increaseAmountByMinimumNetDebt()` (`HashgraphLiquity.ts`, `PopulatableEthersLiquity.ts`):
the added minimum would be of a further Trove. It is the exception of
`RedeemsWhatIsShown`. A rejected reading of the details leaves the form loading. An amount typed
while a redemption is sent is forgotten with it. On the page of the redemptions, a link
to the next page repeats a row; a failed first request shows an empty list in place of
the error; a rejected one leaves the spinner; of two overlapping loads the one that ends
last is shown, whichever page the URL names. The search for the state before a
redemption misses an update on the end of a window, takes a failed query for "no update",
searches one form of the address only for some rows, and does not know of updates by way
of the Stability Pool: the exceptions of `RedeemedIsTold`.

*Wallets.* A `connect()` under way while the chain is switched sets a session of the old
connector (the exception of `WalletFitsChain`); nothing compares the network of a session
with the selected chain. Selecting two chains before a render lets an old initialisation
win. The application is shown with the unloaded store for one commit when the store
changes, and a first refresh that fails leaves the loader for ever.

## 8. Left out, and why

* *Contracts*: not in the repository. The models have what the client's reads and
  calls say of them, marked external.
* *Generated and vendored code*, almost half of the repository's lines: the interfaces in `abi/`
  (of which `HashgraphAbi` has the functions that are called), `lib-ethers/types`, the
  vendored packages under `.yalc`, yarn's releases and plugins. Deployment scripts and
  build configuration are run by developers and keep no state.
* *Presentation*: layout, theme, wording, formatting, and parsing of amounts.
* *Wrappers*: `EthersLiquity`, `SendableEthersLiquity` and the interfaces of lib-base hand
  calls on; the parsing of receipts only copies what the contracts logged. The
  transactions of lib-placeholder throw.
* *Table of risky Troves*: its state is a page number and the rows of the last request,
  and its effect drops overtaken requests in the way of `RedeemHchf`, which is modelled.
* *Loading states and steps*: they decide whether a button spins; two overlapping calls
  of one hook make it stop spinning early.
* *Unused code*: the views under `Mine`, `ClaimAndMove` and `useValidatedTroveChange` are
  mounted or called nowhere. `BatchingProvider.ts` in dev-frontend is a twin of the
  modelled class.
* *In the store*: the values of properties (versions instead), logging, listeners that
  throw.
* *In the redemption page*: the amounts that are copied from the transaction, and two
  loads at once, which make the instance too large; what they do is described above.
* *In the arithmetic*: static helpers of `Trove`, gains in other units, the APR.
* *In the view of the Trove*: `useLiquitySelector()` missing an update before it subscribes.
* *The mirror node's* back-off times: a wait is a loop of requests.
