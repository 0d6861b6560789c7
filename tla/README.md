# A verification development of the NovaDash backend ("alphaping")

The repository is the main service of a crypto portfolio dashboard: one Node.js
process (NestJS, TypeORM, Redis, RabbitMQ) that serves REST routes and a
WebSocket gateway, and delegates the long work to three microservices outside
the repository (ms-pairs, ms-balances, ms-transaction). This directory holds TLA+
models of the parts that keep state, TLC configurations that check them on
small instances, and theorems about them that TLAPS checks.

Paths below are relative to `src/src/modules/` unless they start with `src/`.

## 1. Inventory

One process runs one event loop, so code between two `await`s is atomic; every
`await` (database, Redis, RabbitMQ, file) is a point where other requests, cron
jobs and answers interleave. The process may be killed and restarted at any
point. There are no database transactions anywhere in the code, no locks, no
timeouts on RabbitMQ requests, and no handler for unhandled rejections.

| Component | State it keeps | Operations | Interacts with | Hard behaviour |
|---|---|---|---|---|
| **State manager** `state-manager/` | `internalState` of eleven `AppBaseState` objects; a file for four of them | `addState`, `update`, `loadStateFromDisk`, `writeStateFile`, read | every init service (calls `update`), status reader | overlapping `writeFile`s, crash between truncate and write, update before load, restart |
| **Feature initialisation** `admin/`, `cron-manager/`, `*/services/init-*.ts` | calls in progress, the cron job | `initAll`, single requests, cron setup/stop/fire, `handleInit` | state manager, ms-pairs (health check and request) | calls overlap, features share a state, swallowed failures, restart in the middle |
| **Chain loading** `chain/` | rows of `chain` and `platform_coin` | `loadBitcoinChain`, `loadChainIdNetworkChains`, `loadSolanaChain`, `cleanupChainsToDate` | the init of chains, administrator's `loadChains`, database | check-then-create across awaits, cleanup by time stamp against a second run |
| **User account** `user/`, `wallet/` | the row of a user (refresh token, currency, statuses) and of each wallet | login, register, refresh-token, currency; wallet add, patch, delete (`me` only reads) | guards of every route, the status writers | read-modify-write of a whole entity, two refreshes at once, an answer that is lost |
| **User statuses** `transaction/`, `user-analytics/` | the columns for the status of transactions and of analytics | `GET user/transactions/init`, `GET user/analytics/init`, guards, hand-over per chain group, answers | ms-transaction, ms-balances, the account's saves | check-then-set guard, swallowed errors, groups with no worker |
| **Uniswap v3 pool dialogs** `uniswap-v3-pools/` | a session in Redis per user, pool and chain | HTTP: open deposit, open increase, form the transaction; gateway events `calculateApr`, `calculateTicks`, `calculateDepositAmount` | Redis, pool and position contracts over RPC | the session is read and stored whole, by two dialogs that share it; reversed pools; tick bounds |
| **Exchange accounts** `payable-cex-kucoin/`, `payable-cex-binance/`, `exchanges/services/*spot*` | none of their own: the account at the exchange, reached with the user's keys | quote, call and status of a withdrawal; Binance's swap; deposit address (fetch or create) and its status; destinations of a trade; listing of the account with prices | exchange APIs, the database's coins | a lost answer after an order was made, fetch-or-create by two requests, terms that move, status codes |
| **Swaps** `payable-dex-debridge/`, `payable-dex-0x/`, `payable-dex-rango/` | the base address of the one client for 0x | quote, payment | the services' APIs, accounts for fees, the user's wallet | names of native coins, charges of quote and payment, approvals, the shared client |
| **Transactions on positions** `lend-borrow-*`, `lido-staking/`, `uniswap-v3-pools/` | none | form the transactions of lending, borrowing, withdrawing, staking, removing liquidity, claiming fees | contracts, the user's wallet | reserves with two names, gateways, approvals, decimal strings |
| **Ramps** `payable-ramp-transak/` | none | quote and link to the widget, on ramp and off ramp | Transak | four pieces of code read one kind of body |
| **Lists** `transaction/`, `user/`, `lido-staking/`, `lend-borrow-user/`, `liquidity-pools/`, `staking-assets/`, `exchanges/` | none | pages of seventeen routes | database, contracts | page, number and next page are separate reads of tables that move |
| **Exchange selectors** `exchanges/` | none | tokens, stablecoins, coins for money that are offered; who exchanges a pair | tables that jobs fill | two requests with tables that move between them; two spellings of a name |
| **Charts** `charts/` | none | dates of a period, the price of each, average price of the user | coingecko, ms-balances' snapshots | calendar, rounding, a clock read twice |
| **Pass-through** `fiat/`, `mail/`, `health/`, `playground/`, `common/`, Kraken's stubs | none | format a request, forward it | HTTP, mail | - |

What makes each correct:

- *State manager*: readers never see a value nobody reported; a settled value
  survives a restart; a heard report becomes durable.
- *Feature initialisation*: every PROCESSING has a call behind it and ends with it;
  every call ends; a complete `initAll` has renewed every feature's status; a
  PROCESSING left behind by a crash is repaired.
- *Chain loading*: a run that reports success leaves exactly the chains it expects,
  each once; no cleanup removes what its own run has just written; coins go only with
  a chain that is no longer listed.
- *User account*: at most one refresh token of a user is good, and somebody knows it; a
  token that was replaced stays dead; a save takes back nothing its request had not
  read too early.
- *User statuses*: while a status is IS_INITING somebody works on it, and it ends; a second
  init is refused while one runs.
- *Pool dialogs*: the transaction has the ticks the dialog shows; an increase adds to the
  position its dialog was opened for; the sliders are shown back where they were set,
  in either order of the pool's tokens; a slider changes only the ticks.
- *Exchange accounts*: the answer to a withdrawal tells whether it was made; a quote holds as
  long as its terms; a final status, and a deposit address once told, stay true; an order that
  is carried out or fails is told so to a client that polls.
- *Swaps, positions*: the service is asked for the two tokens that the user means; the payment
  charges what the quote said; the body takes what was asked for, and goes through unless the
  user's wallet moved, or never had the amount or the allowance.
- *Ramps*: the widget opens on the deal that was quoted.
- *Lists*: who walks to the end sees every row once, whatever comes and goes behind it; totals
  are sizes the list had; what is searched for is found, and nothing else.
- *Selectors*: what is offered can be taken.
- *Charts*: the points go from the start of the period to its end, leave no stretch out, and
  each has the price of its own date.

## 2. The modules

| Module | Models | Kind |
|---|---|---|
| `StatusCell` | what the state manager promises: a value, a saved value, values being saved | abstract specification |
| `StateStorage` | the state manager | component; implements `StatusCell` |
| `InitFeatures` | `initAll`, single requests, cron job, `handleInit`, over `StateStorage` | component and composition |
| `LoadChains` | the loading of chains and its cleanup | component |
| `UserAccount` | the requests that write a user's row or wallets | component; abstract view of the next |
| `UserStatuses` | both init routes and the microservices' jobs, over `UserAccount` | component and composition; implements `UserAccount` |
| `PoolSession` | two dialogs of a user on one Uniswap v3 pool | component |
| `CexOrders` | the requests of a user for an account at Binance or KuCoin | component |
| `Signing` | the wallet, and the user who signs what the server forms | what the next two share |
| `Swaps` | quote and payment at deBridge, 0x and Rango, over `Signing` | component |
| `Positions` | transactions at Aave, Compound, Lido and Uniswap, over `Signing` | component |
| `Payments` | `Swaps` and `Positions` on one wallet | composition |
| `Ramps` | quotes and links at Transak | component |
| `Lists` | a client that walks through the pages of a list | component |
| `Offers` | a choice among what is offered, and who exchanges it | component |
| `Charts` | the points of a chart | component |
| `*Proofs` | the theorems of the module they are named after; `UserProofs`: of `UserAccount` and `UserStatuses`; `PaymentsProofs`: also of `Ramps`; `ListsProofs`: of `Lists`, `Offers` and `Charts` | proofs |
| `MC*` | instances for TLC: values of constants, symmetry, constraints | MC |

### StateStorage

`internalState[s]` is the object's field, `phase[s]` says how far `addState` has
come for it (`"off"` for the objects that `AppStatesStorageInitializerService`
does not pass to it), `disk[s]` is the text of its file and `writes[s]` its
`writeFile` calls in flight. `writeFile` is an open with `O_TRUNC` (`OpenFile`)
followed by a write from offset 0 (`WriteText`); two calls on one file may take
these steps in any order, and a short text written over a longer one leaves the
tail of the longer one behind. The text is serialised when `update` is called,
because the listener runs up to its first `await` inside `emit`. A text is
abstracted to the value it starts with and its length: it parses iff the length is
that value's. `ProcessEnds` is a crash, a kill or a deploy: memory and operations in
flight are gone. `WriteRejected` is the same, reached by a rejected `writeFile`:
the listener's promise is awaited by nobody and Node 19 (the `Dockerfile`'s base)
ends a process on an unhandled rejection.

`missed`, `raced` and `kept` are history variables for the properties. A state is
*settled* when its listener is attached, no write is in flight, the last update
was heard, and the last write did not overlap another one.

### InitFeatures

`call` has a slot per call in progress; a call is what is left of its list of
features and whether it waits for the health check or is in the middle of
`handleInit`. `ReportStatus` is `StateStorage!Update`, so each report changes the value
and starts a file write. The nine features of `initAll` and the three further
single requests differ only in the state they report through and in whether
their single request checks ms-pairs first (`initChains` does not), which are the
constants `StateOf` and `Unchecked`. The ToolMeta init is imported from ms-pairs, out
of this repository; it is taken to be like the repository's own
`tools-meta/init-tool-meta.service.ts`. The work of a `handleInit` is one step here that
succeeds or fails; for the chains it is the subject of `LoadChains`.

### LoadChains

`run[r]` is a run's caller (`order`: the init loads Bitcoin first, the administrator's
request last), its stage, the list it fetched and how it ended; `task[r][k]` is its query
for chain `k`: to find, found absent, or the row found. Every awaited query is an action, and
so is the failure of each (`Fails`), so two runs interleave between any two queries. A failed
run may leave queries of its page behind, because `Promise.all` rejects at the first failure;
such a run is still `Active`. `fresh[r]` is the set of rows updated since `r` began,
which is what the cleanup's `updatedAt <= start` decides; `victims[r]` is what its one select
found and `current[r]` the victim whose coins are already deleted. ms-pairs adds coins to
any row at any time (`AddCoin`), and a row with coins cannot be deleted.

Abstractions: the pages of the list are queried all at once instead of one after the other (more
interleavings than the code has); the clocks of the process and the database are one;
chain ids are distinct; native currency and images of a row are left out. TypeORM's `update` is
taken to set `updatedAt` even when no other column is given. The foreign key from `platform_coin` to `chain` belongs to the entities of `@app/common`. Ids are
used once and bounded. `own`, `alone` and `serial` are history variables.

### UserAccount

`row` holds the columns that requests write; a refresh token is the second it was signed in, as
its payload differs in nothing else. A request reads an entity (`copy`), goes through its
awaits, and saves. TypeORM's `save` is two actions, as it is two queries: `LoadForSave` reads
the row again and computes `diff`, the columns in which the entity differs from it, and
`WriteSaved` writes those. An entity carries what it was read with: `findOneBy` leaves out the
currency relation, and `setCurrency` loads all relations, the wallets among them. Saving a user whose
entity lacks a wallet of the database makes that wallet one of no user (`"loose"`); saving a patched wallet
whose row was deleted inserts it again without its user. `Fails` ends a request at any
await; the end of the process is `Fails` of all of them. User names are taken to be unique. `held`, `lost`, `twins`, `retired`, `issued` and
`late` are history variables: `late[q]` is what others changed between `q`'s read and its save.
Others report a status at any time (`ReportStatus`).

### UserStatuses

Extends `UserAccount`, whose requests save the row that holds both statuses. `init[i]` is a
request: its column, stage and the chain groups it has left. The guard is one action and the
`IS_INITING` another, two queries later. The groups come in any order, each sets IS_INITING, and
only EVM's hands a job over; a microservice that cannot be reached makes the init report ERROR
(`down`), and any other error of a group ends the loop and is only logged. `jobs` counts what
microservices work on; `EndJob` reports an outcome. Both services of `@app/common`
(`UserStatusTransaction`, `UserStatusAnalytics`) write one column and are marked external.
`blame[c]` is the last event after which nothing would end an IS_INITING of `c`: a *group* with no
worker, a *failure* (or restart), or a *save* that brought the status back. `calm[c]` says that
no two inits of `c` overlapped and no save changed its status.

### PoolSession

`session` is the entry in Redis under the one key of user, pool and chain; `modal[m]` is what a
dialog was opened for, the price levels it shows, what it missed, and whether it was left alone; `req` are slots
of requests: an opening reads the pool, stores the session, reads details; a slider event
passes its guard, reads the session, stores all of it again with other ticks, and answers; the
transaction loads the session, matches a position of the wallet by its ticks, approves, is
formed. The session expires at any time. Prices are given by *levels*: the tick a price has
in a pool whose quote token sorts first; in a reversed pool its tick is the negative, so the
swaps the code makes on the way in and out are real computations here. Rounding to usable
ticks and the bounds are those of the SDK (external). On the way in, the price of a slider is first rounded up to
a whole raw amount of the base token (`Math.ceil`, `uniswap-v3-dynamic-calculate.service.ts:257`); `RawLevel` is the
level this gives, any monotone function that does not lower a price by more than the last of its 16 digits.
`Fails` is an await that rejects, the end of the process or a lost answer, at every step: a slider event
that had stored its ticks before leaves a dialog that shows older ones, and `missed` remembers the stored ones
until the dialog is told a range again. Left out: APR and deposit amounts
(they keep no state) and the flags of the deposit fields. Requests on a Redis connection are
answered in order; the model does not rely on it. Positions are minted, never burnt.

### CexOrders

The account at the exchange is external: `terms` of withdrawals, `records` of withdrawals, swaps
and deposits with the exchange's own status codes, deposit `addresses`. `order[r]` is what is left
of a request (`at`, which call comes next) or its answer. Every awaited call is a step, any may fail
(`Fails`), the answer of a call that makes something may be lost, and the exchange moves
between them (`TermsMove`, `Settle`, `Deposit`). The two exchanges are one model with the steps where
their code differs named after them: Binance makes a withdrawal after a quote, KuCoin makes it at once
and then reads the list; Binance has one address per coin and chain, KuCoin reads the addresses and
makes one. The constants of status codes are Binance's and KuCoin's. `told` and `refused` are history: what
the client heard last, and what the exchange refused on which terms. A record's `info` is Binance's optional
explanation of a failed withdrawal, which is all that the route tells as an error
(`binance-withdraw.controller.ts:69`). Left out: signatures, rate
limits, and the columns of the answers.

### Signing, Swaps, Positions, Payments

`payment[p]` is a request from its guard to the transaction on chain; `wallet` is what the user holds, has
approved and delegated. The server forms a `body` (what it takes, what it approves first, which native coin
it sends) and forgets the request; the user signs when it pleases. `touched`, `enough` and `allowed` are
history: whether another transaction was signed since the request relied on the wallet, and whether the
wallet had the amount, and its spender the allowance, when the body was formed. In `Swaps`, a token has the name the service has for it
(`NativeName`, `NativeSymbol`, "null"), translated in place as the code does, and `Means` translates it
back for the properties; `link` is the base address of `Pure0xService`, one field for all requests. `charged` counts
the fee in steps of the code's own constants. deBridge's body is the service's own answer: the fixed fee that the
code lists beside it, if the chain's coin has a row, changes nothing in it, so its value is any the service may
set (`ServiceValues`). `Positions` has the reserves' two names of a native coin
(`custom`, `wrapped`), Aave's two gateways (of aToken for withdrawals, of debt for loans) that must be opened first, one each,
Lido's queue, which takes stETH by `transferFrom` while no answer has an approval for it, Compound's comparison of decimal
strings digit by digit (`WrittenLess`), and Uniswap's whole percentages. Prices, routes, gas, slippage and
the conversion to wei are left out.

### Ramps

`ramp[v]` is a request and its answer. The four `*QuoteByBody` and `PaymentUrl*` read a body each in their
own way; that is the whole point, so the body is the full product of what the DTOs let pass:
amounts that are there, zero or absent, methods known, unknown or absent. A method without a name is left out
of a quote and the word "undefined" in a link.

### Lists

`table` are the rows, which other services add and remove (`Change`); `ground` is what the list stands on (wallets,
chains, analytics, a coin to sell), without which the lists of `Grounded` are refused, and which comes and goes too
(`Shift`); `req` the request for one page,
read by read (`count`, `page`, `rows`, `gather`, ...); `walk` the client that asks for the next page while
the last answer names one. Each list has the reads of its route in their order: some count first, some read
the page first, some gather everything, sort it or not, and cut it, some ask the shared database module for both in
one call. A query orders by its key and leaves the order of equal keys open, so every order is
taken. The page of assets is restricted to addresses found by a query of its own, which need not be those of the
rows there are (`among`), and is refused when there are none. A row's `meta` says whether what it refers to is
there: its coin, its price, the provider of a stake; `assets` are the tokens of a
transaction, for the search. Filters that are one condition in both queries of a route only
decide which rows there are, and are left out; so are the guards of the status (in `UserStatuses`), and
queries and contracts that fail themselves, which end a page at any read.

### Offers

`offer` is a visit: the coin that is sold, what is offered for it, the choice, the ids looked up for the
pair, the services found. `supported` are the rows of the tables that jobs fill and may change between the two
requests (`Relist`). `spelled` is whether the client wrote an address in lower case as the
tables have it.

### Charts

`chart` is a request: its dates are extended one by one as `generateChartDates` does, closed, and
priced one by one, while snapshots are recorded (`Record`). Moments are ticks; the calendar
(`MonthStarts`) is a constant, and a date in a month that is too short for it is one of the next month, as
JavaScript's `Date` has it. The code mixes date functions of local time (`setHours` and the like, in `generate-chart-dates.util.ts`)
with those of UTC (`generate-date-limits-charts.util.ts`). They are one in the model, as they are
where the server's time zone is UTC: the default of the image that the `Dockerfile` builds on, which nothing
in the repository states. A price is the moment it is the price of.

## 3. The runs

| Run | Instance | Shows |
|---|---|---|
| `state_storage` | one persisted and one memory-only state, the three statuses with the lengths of their JSON texts (6, 7, 12), two writes in flight per state | type invariant, inductive strengthening, settled agreement, restart keeps settled values, heard reports become durable, refinement of `StatusCell` |
| `init_shared` | two calls at a time, three features, two of them on one state, memory only | a PROCESSING has a runner and ends with it; a lone 'done' means that each feature shows its own outcome; every call and every PROCESSING ends |
| `init_persisted` | one call at a time, one persisted feature, two writes in flight | the callers use the storage as specified (step refinement of `StateStorage`); a set-up cron job repairs a PROCESSING taken back from disk |
| `init_overlap`, `init_complete` | as the other runs of their components | violated: see Findings |
| `load_chains` | two runs of either kind, one chain that may be listed besides Bitcoin and Solana, three rows, symmetry of rows | a cleanup spares what its run wrote, a lone run leaves its list, without meeting runs no chain is doubled and a listed one keeps its row and coins, the strengthening of the proofs |
| `user_account` | two requests of any kind, one wallet, two currencies, two seconds, one status column | the stored token is known to somebody, saves undo only late changes, retired tokens stay dead, the strengthening of the proofs |
| `user_statuses` | an account request, two inits of the transactions, an EVM wallet, two jobs, two seconds | an IS_INITING without a job or an init has one of three causes; in calm, the guard is enough |
| `user_groups` | two inits of either column, an EVM and a Solana wallet, one second | the strengthening of the proofs, that inits change the account only as `UserAccount` allows, and that IS_INITING ends but for the three causes |
| `pool_session` | two dialogs, two requests, a position of a registered wallet and one of another wallet with the same ticks, current ticks 0 and 2, spacing 2, ticks -3..3 | the session's ticks are usable and those shown; a transaction is formed for what is shown, or for the last slider event if its answer was lost; an increase finds its position; sliders on whole raw amounts come back as set, others not below it, and change nothing else |
| `trade` | one of: two requests at an exchange (two coins, amounts and terms 1..3, two records, either exchange); two payments from one wallet (two wallets, two chains, one with an account for fees); a quote and a link at Transak for any body | what is told is what happened and stays so; settled orders are told; bodies do what was asked and fail on chain for named reasons only; quotes and payments are asked and charged alike; the widget opens on the quote |
| `lists` | one of: a walk with four rows, pages of 1 or 2, two changes of the table; a visit to the offers with four coins on three chains, four services, one change; a chart of any mode at each moment of a year | walks see every row once, totals are real, pages fail only for a reason; what is offered can be taken; charts cover their period |

Bounds. `Ops`: two writes in flight show every overlap of a pair of
`writeFile` calls, and the stale, torn and blank files they leave; a third adds no
new kind of text, as a text is a head and a length. One persisted state is enough
for the storage because states share no file. `Callers`: two calls show every
pairwise interleaving, and the cron job and an administrator are such a pair. The
statuses and the lengths of their texts are those of the code.

`Ids`: three rows hold the three chains, or a chain twice and one more: the doubled row and the
victim of a cleanup occur together. `Requests`: a save against another save is a pair. `MaxSecond`: a
second token needs a second second; a twin needs none. The constraint `SessionOrPortfolio` splits
the state space of `user_account` in two halves: tokens and statuses over two seconds, or wallets and
currencies in one. What the two halves have in common, `setCurrency`'s save of the whole user, is in
both. `TransactionsOnly` and `NoChanges` do the same for the statuses: `user_statuses` is about
one column against the account's saves, `user_groups` about both columns and all groups with the
account at rest after its registration. The theorems of section 4 need none of these constraints.

`pool_session`: the bound 3 is no multiple of the spacing 2, as 887272 is none of 10, 60 and 200:
rounding a tick near the bound leaves the bounds and comes back. The sliders are in order,
crossed onto a position's ticks, and crossed at a bound. `MCRawLevel` has prices that are coarse (rounded up by
several ticks), that lie just below their tick, and that are exact, in both orders of the tokens. `Scenarios` keeps
three instances in one run: two dialogs, one of which may miss an answer, over a wallet with the
position; one dialog on a pool that is traded in; and one dialog on a reversed pool, where a position is
minted meanwhile.

`trade` and `lists` are three instances each in one run (`part`): the components share no state, so a
behaviour is of one of them. In `trade` the bounds are conditions on the next state, named in
`MCTrade`: orders either make trades without deposits, or ask for quotes, addresses, destinations and
listings on open terms; the second request, which is there to come between the steps of the
first, is a plain one. Of two payments both are free when they share something in the code (0x's client)
or at deBridge in the wallet's native coin; a quote goes with its own payment; otherwise the
second is plain. `InOrder` breaks the symmetry of the two requests. `Poll` and `Settle` never leave
these bounds, so they do not make `SettledIsTold` easier. In `lists`, two of the four rows have one key,
one is unnamed and one broken, each in either source; two changes are a row that moves from
behind the page to before it. The searches are one for two tokens of a chain, one for tokens of two
chains, one for both sides. The calendar has years of three months of 3, 2 and 4 days,
so a month can be passed over, and days of two hours of two ticks, so that a moment can be off the hour; charts are
asked for at every tick of the second of two years. A service that is halted, one that exchanges within a
chain, one between chains and one that does both are all there are.

Fairness. Weak fairness of file operations: the thread pool serves what it
is given. Weak fairness of answers: ms-pairs answers each health check and request,
well or badly. The code has no timeout for the latter, so this is an assumption about
ms-pairs, and `EveryCallEnds` and `ProcessingEnds` are conditional on it. Nothing makes the
process start, end, or be called: those actions have no fairness. `CronRepairs`
assumes strong fairness of the cron job's firing into a free slot (cron fires
periodically; the slot is an artefact of the bound), and that ms-pairs' health check
does not fail every time. `InitingEnds` assumes that the database answers an init's queries (weak
fairness of its steps, an error among them) and that a microservice ends the jobs it took, which
again is an assumption about the microservice. `SettledIsTold` assumes weak fairness of `Poll`: the
client asks for the status until it is final, which is what the routes' `isExecuted` and `isError` are for. No
other property needs fairness.

Deadlock is checked in every run but `trade` and `lists`, where the server keeps nothing and a client has
its answers and is done.

## 4. What is proved

Each theorem holds for every value of the constants, from the named assumptions of its module
only. Every safety property of the runs, invariant or action property, is a theorem. Each is proved from an
inductive strengthening. For `StateStorage`, `LoadChains`, `UserAccount`, `UserStatuses` and `PoolSession` the
strengthening is a definition of the model and a property of a run.

`StateStorageProofs`, for any states, statuses, text lengths and number of writes in flight:

- `StorageTypeCorrect`, `StorageInductive`: types and the strengthening. `SettledFileAgrees` is
  not inductive: it says nothing of the time between the read and the listener, nor of a
  write in flight. The strengthening says that an unread state holds its default, a read one
  what its file says, and that an attached state whose last report was heard alone has
  either agreement or exactly one write, of the current value, still to come, over a blank file
  once it has truncated it.
- `SettledAgreement`, `RestartKeeps`: the two safety properties from that invariant;
  `RestartKeeps` is an action property, and needs that a settled value recorded at the
  end of a process is what the file parses to until it is read.
- `StorageImplementsCell`: every step maps to a step or a stutter of `StatusCell`.

`InitFeaturesProofs`, for any callers, features and sharing of states:

- `StorageComposition`: the composition does only what `StateStorage` allows, which carries the
  theorems above over to it.
- `TypeCorrect`, `RunnerCorrect`, `RunnerEnds`: a PROCESSING this process reported has a call in
  the middle of its `handleInit`, and is replaced only by the end of one, the end of the process or a load.
- `InitAllAlongList`, `LoneInitAllReports`: a call of `initAll` that was not cut short has the rest of the list
  before it and its failures behind it, and while it is alone each feature behind it shows its own outcome. The
  strengthening (`InitAllInv`) counts from the end of the list, because the code takes the head off a copy of
  it. It rests on `OrderAssumption`: the nine features of the list report through nine states. A file that is
  loaded after a feature reported is an exception of the property, as it puts an older value in its place.

`LoadChainsProofs`, for any chains, rows and number of runs:

- `ChainsTypeCorrect`, `ChainsStrengthening`: the strengthening has two parts. One is what a run
  knows of itself whatever others do (what it owns is fresh, its victims are not). The other holds
  while it is alone: what its finished queries and stages mean for the table.
- `CleanupCorrect`, `KeysUnique`, `LoneRunCorrect`, `ListedSpared`: the four properties of the run.

`UserProofs`, for any requests, wallets, currencies, statuses and length of time:

- `AccountTypeCorrect`, `AccountInductive`: what a request in progress knows (its copy agrees with the
  row but for what changed late), where a token may be, and who knows the stored one.
- `StoredTokenKnown`, `SavesUndoLate`, `RetiredStayDead`: the three properties.

and for any number of inits, wallets and groups:

- `StatusesImplementAccount`: a step of the composition is a step or a stutter of `UserAccount`, so its
  theorems hold here.
- `StatusesTypeCorrect`, `InitingCause`, `StatusesInductive`, `CalmInitsSingle`: an IS_INITING that nothing
  will end has one of three causes; in a calm column an init past its guard finds no job before it
  hands over its own.

`PoolSessionProofs`, for any spacing, bounds, positions, dialogs and requests:

- `PoolTypeCorrect`, `PoolInductive`: what a request at each step holds; stored ticks are usable; an
  undisturbed dialog shows the stored ticks (or missed the answer that told them), or one request is about to make it so. Lemmas on
  `NearestUsable` and the translation of levels carry the arithmetic.
- `TransactionsFormWhatIsShown`, `IncreaseCorrect`, `SlidersShown`, `SlidersSpareSession`: the four properties. The
  first says which other ticks a transaction may have after a lost answer: those of that slider event and no
  earlier one's. The third rests on `PoolAssumption` for `RawLevel`: rounding up is monotone and lowers no price
  by more than its last digit.

`CexOrdersProofs`, for any requests, amounts, terms, coins and number of records:

- `CexInvariant`: `CexInv`, at the end of `CexOrders`, has a part for each actor. A request knows at each step
  what it may have made and what terms accepted its amount (`OrderOK`); a record and the request it is by name
  each other (`RecordOK`, `OwnerOK`), which is why one request makes one record at most; what was refused by its
  terms breaks them (`RefusedOK`); a final status was told of an order that has come to it (`ToldOK`); and while
  nobody raced for a coin there is at most one address of it, with one request at most about to make it
  (`AddressOK`). Most steps move one request and nothing else: `QuietKeeps` is proved once for them.
- `CexWordKept`, `CexToldStays`: the safety property, and the action property from the invariant before and after
  a step: only what is under way is settled, and every route reads the exchange's codes as it means them
  (`PollTells`).

`PaymentsProofs`, for any wallets, tokens, chains, amounts and payments, and any number of requests for Transak:

- `PaymentsSafe`: `PaymentInv` says of the record of each request alone what it is at its stage (`Good`: what its
  service was asked for and charged, why it was refused, what its body takes, approves and sends), and of the
  record and the wallet together that, until another transaction is signed, the wallet has what the body takes
  (`Covered`). Steps before a signature move one record to a good one; a signature covers the signed request and
  marks every other one `touched`.
- `DealsKept`: the parts of `DealsAreKept` read off `Good`; that a payment fails on chain only when another
  transaction was signed, when the amount was never there, or when Lido's queue has no allowance for stETH, is where
  `Good` needed `Covered`.
- `WidgetAgrees`: each answer is a function of the body of its request; `QuoteAndWidget` compares the two.

`ListsProofs`, for any rows, searches, page sizes and numbers of changes of the tables:

- `OffersTaken`: as long as no row went, each coin on offer has a service that reaches it and knows both coins;
  so it is in the answer, whichever coin is picked.
- `ChartsCoverPeriods`: while the dates are drawn they grow from the start, each on the hour and each without a gap
  to the next (`Drawing`); closed, they end at the end (`ToTheEnd`); then the prices are those of the dates so far
  (`Priced`). The calendar is any with months that grow, none longer than the next two together
  (`ChartAssumption`), so that a month too short for a day is passed over once and not twice.
- `ListsTellWhatIsThere`: `WalkInv` follows each row that keeps its place in the list. Its place is one more than
  the number of rows of the beginning that come before it (`Standing`), and no change moves it, because nothing
  before it comes or goes. Behind the pages answered so far it has been shown once (`Seen`); it is on the page that
  was read exactly when its place is; and a total that was read, or a last page that was answered, is not
  short of it (`OnItsWay`). Around this, what the list is now is what it was at the beginning but for what moved
  (`SinceBegan`), and the sizes the list had during a request are two as soon as a gathered list has changed
  (`SizesOK`). Lemmas say what an order of a set, a page of a sequence, a filtered page and the number of pages
  are; none needs induction, as an order of a set is a bijection. A page of assets is of the rows `among` (`LookedOK`):
  as long as nothing moves these are all rows there are. A page that fails does so for a `Reason`, which each failing
  step has. The order in which a source lists its rows
  (`listed`) is taken to be the same for every page, and sorting to be stable, as it is in JavaScript.

Only model-checked: liveness (`HeardReportBecomesDurable`, `EveryCallEnds`, `ProcessingEnds`,
`CronRepairs`, `InitingEnds`, `SettledIsTold`), which is out of the prover's reach.

## 5. Findings

Each is a run of the kind "violation": TLC shows a behaviour of the code that a line of
the repository denies.

- `init_overlap`: after 'State written!' for both writes of an update pair, the file can hold
  the older status, or a text that does not parse (`state-manager/services/state-storage.service.ts:78`).
- `init_complete`: 'Feature initialization complete!' and 'done' although features failed
  (`admin/services/app-init-features.service.ts:57`): every `handleInit` swallows its failure.

Several properties name the conditions under which the code is right, and the runs show that it
is not without them: two overlapping chain loads may double a chain or delete one that is listed; a
currency request may take back a token or a status; a user whose wallets are all outside EVM stays
IS_INITING; an opening of one dialog changes what another one forms. No line of the
repository promises otherwise, so they are conditions of properties and not findings. These conditions (`serial`
in `LoadChains`, `lost`, `blame` and `calm` in the accounts, `alone` and `late` in the pool dialogs, `touched`, `enough`
and `allowed` in the payments, `raced` at the exchanges) excuse what the hazards of their names do: the property
says exactly when the code is right, and that the condition is needed, but it does not protect from the hazard.
Likewise:

- *Destinations*: to exclude KuCoin excludes Binance too, and to exclude Binance excludes neither
  (`exchanges/services/spot-destinations.service.ts:50,70`).
- *KuCoin's quote* refuses the amounts below what may still be withdrawn
  (`payable-cex-kucoin/services/kucoin-withdraw-quote.service.ts:107`), Binance's does not compare them: `QuotesHold`
  excepts amounts over the limit.
- *Binance's cancelled and rejected withdrawals*, and the failed ones without an explanation, stay pending for
  ever; `SettledIsTold` is about the others (`Dropped`, `Unexplained`).
- *Two requests for KuCoin's address* may make two: `raced` in `WhatIsToldStays`.
- *0x* charges the payment twice the quote's fee, and looks the bought token up on the sale's chain;
  *Rango* quotes sales that its payment then refuses: exceptions of `ChargedAsQuoted` and `AskedForWhatIsMeant`.
- *Compound* refuses with 'you can not withdraw more token then your liquidity', and yet forms a body that redeems
  10 of 9 shares (`lend-borrow-compound-v2-reserves/service/compound-v2-withdraw-transaction.service.ts:67`): two
  `BigNumber`s are compared with `<`, which compares their digits as text. `SharesAreCompared` says exactly
  when.
- *Lido*: a withdrawal of stETH reverts for a user who never allowed Lido's queue to take it (`allowed` in
  `SignedDoesWhatWasAsked`), as no answer has an approval.
- *Pool dialogs*: after a slider event whose answer is lost, the transaction has the ticks of that event and
  the dialog shows older ones (`missed`); a price that is no whole raw amount is shown higher than it was set
  (`WholeRaw`).
- *Transak*: the exceptions of `WidgetShowsTheQuote`.
- *Search*: of tokens on two chains only those of the first are found, and no transaction is found
  for a search of both sides (`Simple` in `NothingElse`).
- *Lists*: a page of transactions past the end is an error (`FailsForAReason`), one stake without a price fails
  every page, a user who owns nothing is refused a page of assets as one without analytics, a row that lacks its coin fails the
  whole page of assets, and one that lacks its name shortens it without its total.
- *Stablecoins* for an address in mixed case: the pair's services are those of the other coin alone.
- *Charts*: a month without the day is passed over, and the last two points may be one.

## 6. Not modelled, and the plan

- *In modelled modules*: APR, deposit amounts and flags of the pool dialogs' fields; the opening of the
  withdrawing dialog; Binance's quote of a swap; balances of one asset, wallet statistics, token analytics and the
  priced hot wallets (each formats one answer of the database).
- *Hazards seen and left to tests*: the cleanup of chains compares two clocks
  (`chain/services/load-chain.service.ts:24`), which the model takes as one; the deadline of an added liquidity is in
  milliseconds where the contract counts seconds
  (`uniswap-v3-pools/services/uniswap-v3-form-add-liquidity-transaction.service.ts:73`): a unit, without state.
- *Out of scope*: Kraken's stubs, fiat, mail, health, the playground, the microservices, `@app/common` (not in
  the repository; used parts are marked external), DTOs, entities and module wiring.

Next, in order: the action steps on which the liveness properties rest (that a step a fair action waits for
stays possible until it is taken, as far as it can be said without ENABLED); the flags of the deposit
fields in `PoolSession`.
