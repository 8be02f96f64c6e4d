# Verification of the OmniQuant / CoralOS marketplace

TLA+ models of the programs in this repository that keep state several actors
change: the Solana escrow and its arbiter, the agents that trade research
reports over Coral threads, the job queue that launches their markets, the feed
server that records them, the services that are paid by reference, and the
clients that read all this. TLC checks each model on small instances. TLAPS
proves the settlement programs, the agents that use them, the job queue, what
is paid by reference, the feed's record, mirror and stores, and the clients
correct for every value of their parameters.

## The system

| component | state | operations | interacts with |
|---|---|---|---|
| Escrow program (`examples/txodds/escrow/programs/escrow`) | an account (PDA) per buyer and order reference: seller, amount, deadline, lamports | `initialize`, `release`, `refund` | System program; called by the arbiter program and by wallets |
| Arbiter program (`.../programs/arbiter`) | the configured arbiter; a vault PDA per reference | `init_config`, `open`, `arbitrate_release`, `arbitrate_refund` | calls the escrow program with the vault as its buyer |
| Buyer agent (`coral-agents/buyer-agent`) | round number, bids and terms of the round | ask, collect bids, award, open the order or deposit, wait for the delivery, release | sellers by Coral messages; the chain by RPC |
| Seller agent (`coral-agents/seller-agent`) | `quoted` by round, `awarded` by reference; caches of its data providers | handlers of WANT, AWARD, DEPOSITED; gather data for a memo | buyer by messages; the chain; data providers |
| Job queue (`marketplace/feed/src/redisQueue.ts`, `server.ts`) | in Redis: idempotency keys, a hash per job, two lists; `market_jobs.jsonl` | enqueue, reserve, requeue, dead-letter, read | API process, workers |
| Worker (`worker.ts`, `marketLauncher.ts`) | the job in hand, the stop flag | reserve, launch, record, retry, dead-letter | queue; the starter as a child process |
| Feed views (`foldRounds.ts`, `marketStatus.ts`) | none | fold a thread into rounds, derive the stage | read Coral's state at every poll |
| Feed persistence (`data/persistence.ts`, `supabasePersistence.ts`, `history.ts`) | keys written since the start; JSONL files; Supabase tables | a pass of writes per poll, each once by key, each mirrored; read back | started by polls, which do not wait for it |
| Feed streams (`server.ts`) | the namespace of each session it has found; a timer per stream | find a session at Coral, send snapshots | Coral; clients |
| Feed stores (registry, memberships, organizations, memo workspaces) | append-only JSONL files, mirrored to Supabase; the newest record of an id counts | append, read the newest | API handlers, interleaved at each `await` |
| Activation and feedback (`activationStore.ts`) | two append-only logs | record an event; record feedback and then report it as one | API handlers, dashboards |
| Private quant API (`privateQuant*.ts`) | none: the client holds account and orders | signal, risk, backtest, prepare and execute a paper order | dashboards |
| Dashboard (`marketplace/web/src`) | view, selection, polls and loads under way | poll a live session; load, select and save a recorded one, assign it, add its organization's members | feed API |
| LLM buyer and quickstart (`llm_buyer.ts`, `guard.ts`, `agent-economy/quickstart`) | what was spent; pending references | pay a 402 challenge and fetch again; verify a payment once | chain, HTTP |
| Broker (`coral-agents/broker`) | the request in hand | quote, buy upstream, resell | buyers and sellers by messages, chain |
| Bridge (`agent-economy/bridge`) | the promise of a shared session; orders by reference; a session per door | order, hand in a payment, poll the transcript; start a door's agents, show their feed | browser, a seller agent |
| Odds proxy (`txodds/server/proxy.ts`) | subscription token, last board, the buyer's wallet | subscribe, serve the board, settle a read | odds service, chain |
| World Cup page (`txodds/web/app.js`) | fixtures, selection, the read and its settlement, the pay button | poll the board, select, pay | odds proxy |

What is hard, and what makes each part correct:

* **Settlement.** Transactions of all wallets interleave; an address can hold
  lamports before it is opened; the deadline passes between any two
  transactions. Correct means: a deposit can always be settled, leaves only
  whole and by its terms, and an arbitrated order obeys nobody but the arbiter.
* **Agents.** Messages are lost or late, a call throws before or after its
  transaction landed, agents are relaunched while orders stay open. Correct
  means: money follows only this round's award and checked work; work follows
  only a deposit; no wait is for ever.
* **Queue.** Two processes and several workers share Redis with an `await`
  between any two commands; any of them throws, a worker dies or is told to
  stop. Correct means: one holder at a time, bounded launches, an end for every
  accepted job, and a status that moves in order.
* **Views, persistence, mirror.** Agents write late; passes over older and newer
  states of a session overlap; an append throws; a table refuses a row whose
  foreign key finds nothing; the server restarts. Correct means: the derivations
  of a round's progress agree and do not go back; what is recorded happened,
  once, and what happened is recorded and mirrored.
* **Stores.** Read, `await`, append: a decision may be stale when it is written.
  Correct means: nobody writes who had no right at any time while the request
  ran, a change stays until another request on the same record says otherwise, and the
  audit explains the present.
* **Paying by reference.** A transfer may land and throw, a proof be sent twice,
  an answer belong to an earlier question. Correct means: no overspending,
  service only for payment, the payer is served, and an answer is that to the
  order it names.
* **Clients.** Answers come back after the question has changed. Correct means:
  what is shown is what is selected, in the end what is current, and what is
  reported adds up.

`PROJECT.json` lists each hazard at its line.

## Modules

```
  Escrow <--EXTENDS-- Arbiter --refines--> Order <--EXTENDS-- Market <-- MCMarket
                         |
                     MCArbiter

  JobQueue --refines--> Job         MCJobs --> JobQueue

  Signals <-- Backtest, Desk   Dashboard  Sessions  Gateway  OracleApp
                     \______________|_________/________/_______/
                                MCClients

  Transcript <-- Feed <-- Archive     Stores <-- Workspace, Registry, Activation
                   |         |                        \       |        /
                 MCFeed   MCArchive                  FeedStores <-- MCStores

  Payments <-- Purchase, Broker, Bridge, Oracle <-- MCPay
```

`Sums` adds up a list of numbers, for `Feed`, `Backtest` and `Desk`. The proofs:

```
  ProgramProofs --> Arbiter        MarketProofs --> Market     JobProofs --> JobQueue
  PayProofs --> MCPay              StoresProofs --> FeedStores
  ClientProofs --> MCClients, ListProofs
  FeedProofs --> Archive, ListProofs                           ListProofs --> Sums
```

Operators named `...Mutant` are plausible slips in the code, used by no
specification; each shows that a property would notice.

### Settlement and agents

**Escrow** has the lamports of every address, the data of every escrow PDA and
the clock. One action per instruction: its guard is the conjunction of the
checks in the handler and in its `Accounts` struct (seeds, `init`, `has_one`),
for a transaction that fails changes nothing. `Deposit` and `Close` are what
`init ... payer` and `close = buyer` do to balances, the rent included.
`Transfer` is the System program, so the environment may send lamports to any
address at any time. Left out: the 64-bit width of amounts (the supply of
lamports is below 2^63), fees, and the minimum balance of a wallet; the last two
only make more transactions fail.

**Arbiter** extends it with the configuration and the four instructions; each
is one transaction, so `open` composes its two transfers. Wallets keep all
direct calls (`Direct`). Left out: orders that name a vault or the
configuration account as their payee.

**Order** is the abstract specification: an order with a pot that only the
appointed arbiter ends. `Arbiter` refines it with
`pot = vault + escrow account`.

**Market** puts both agents on top of `Order`, which is sound because of that
refinement. `stage` is the place of the buyer's loop
(`buyer-agent/src/index.ts`), one action per message it reads or call it makes;
a seller's WANT and AWARD handlers, which read nothing after an await, are an
action each, its DEPOSITED handler two: the chain read with the award it spends
(`CheckDeposit`), and the service with its reply (`Deliver`). `serving` holds the
work between them, while the chain and the other agents go on. With
`mode = "direct"` an order is a deposit of the buyer's own, released and
reclaimed as module `Escrow` has it. A call that throws has three outcomes: not landed, landed but thrown, landed. `Lose`
removes the next mention (a send that throws, and the messages `parseMention`
drops); a mailbox is otherwise in order. `Relaunch` starts a new session with
fresh agents on the old chain. `Read` is what the price reader makes of a
printed price. Left out: sessions that overlap or mix modes, messages nobody
acts on, collisions of SHA-256, the skew between an agent's clock and the
chain's, a configuration that names another arbiter, the ranking of bids (any
of them may win). The wallets of all agents are in `Trusted`, as shipped.

### Queue

**JobQueue** has one action per Redis command or file append of the API handler
and the worker, with the state of Redis and the log between them. A fault is a
command that throws, with or without having worked, or a crash; `Launch` may
fail at any time without a fault, with or without having started a session.
`time` stamps records. The organization and activation records after a launch
are folded into the outcome of recording it.

**Job** is what the queue promises a reader of a job's status: one small
automaton per job without lists, keys, workers or records. `JobQueue` refines
it with `status` and `attempts` read off the Redis hash.

### Feed

**Transcript** has the order in which one session's agents write to its thread
(the buyer stage by stage, leaving a round at any time; sellers late or never)
and, as pure operators, `foldRounds.ts` and the derivations of `marketStatus.ts`
and `persistence.ts`. Since the fold goes from left to right, the variable
`rounds` is kept up message by message. Left out: malformed messages, what a
message says beyond its round and the party or verdict it names, and why the
agents send it (`Market`). No agent sends `REFUNDED`, so that branch of the fold
is translated and never taken.

**Feed** adds the server's overlapping passes. `Poll` reads the rounds and starts
a pass; `WriteOnce` and `AppendFile` are the two sides of the `await` in
`writeOnce`. Keys that are known take no wait, so they are skipped in one step.
Memos, settlements and reputations stand for all collections: one key for good,
a key per status, and one key for a value that changes.

**Archive** gives each record of a pass its nodes, edges and Supabase row: the
upsert that follows the append, the foreign keys that may refuse it, the mapping
of a record to a row and of a row back to a record (`FromRow`), the deal graph,
and the market that `history.ts` reads. A pass is given the session's state when
it starts and takes its time (`now`) only when it comes to the round, after an
`await` or more, so an older state may bear a later time; between that time and
the mark of the session's key nothing is awaited, so `Claim` does both, and
`stamped` keeps the order. Two times of one millisecond are left out. The request
stands for the events, nodes and edges in the tables, which meet the same foreign
key. `SUPABASE_STRICT` is unset: a failed upsert is only logged. The table of
agents is empty at first.

**Stores** is the append-only collection with its optional mirror and the request
that reads, awaits and appends; **Workspace** (memo workspaces, members,
organizations, session assignments) and **Registry** (manifests, transitions)
say what each handler decides, and so does **Activation**, whose feedback is two
appends: the second may fail after the first. A table's foreign key may refuse a
row: that of a memo whose session has none (`listed` are those that have, and the
feed's passes add to them), that of an assignment whose organization has none; the
upsert is logged and forgotten, as one that fails, and `refused` remembers the
request. **FeedStores** runs the handlers side by side. Signatures are taken to be
checked (`signedRequest.ts` keeps no state). An organization may be named by a
slug that cleaning changes: it is stored clean and looked up as typed
(`server.ts:673-675`), and so not found. Left out: a member's publisher id with
blanks around it, which is looked up as it came and stored trimmed
(`workspaceMembershipStore.ts:70,74`); ids in the model are trimmed.

**Sessions** is how the server finds a session in Coral's namespaces and streams
it: candidates, retries, the remembered namespace, and a stream whose timer
fires whether or not the snapshot before has been read; a request may also read
a session once. A snapshot only tells whether the session was found.

### Paying by reference

**Payments** has references, transfers and what verifying one means. On it:
**Purchase**, the LLM's loop with its tools and, for `LLMBuyerStrategy`, the
spending guard, at the quickstart's server; **Broker**, the cycle of quote,
purchase and resale; **Bridge**, orders in one shared session, and the two doors whose agents trade
among themselves, each with a session that is started once; **Oracle**, the
proxy's subscription, board cache and settlement with its direct fallback. What a
model asks for is arbitrary. `MCPay` chooses one deployment at the start: they
share no wallet or server. The broker's seller is honest in one respect: the
price and the reference in the text of its quote (`logic.ts:13-18`) are those of
the payment URL beside it, from which the broker pays (`wallet.ts:34-60`).

The bridge verifies nothing, so its seller is any agent: in every thread it may
say payment requests (with any reference of `Offers`, one offered before, or
none) and deliveries, in any order, up to `MaxSaid` of them. The bridge's own
header (`bridge/server.ts:4-7`) has a seller that asks for payment and delivers
what is paid; the seller agent of this repository no longer does
(`seller-agent/README.md:35-36`), so with it an order only times out, which is one
of the behaviours. Left out: `payment.ts` and `replay.ts` of the seller, which no
program runs; what the agents behind a door say; a nonce per settlement reference
is taken to make it unique; the pay-intent and pay-verify routes of the proxy keep
no state; signed tokens of the odds service are opaque.

### Clients

**Dashboard** has the two hooks `useFeed` and `useSessionHistory`, with their
effects, cleanups and late answers, and the loads of the organization that a
recorded session is assigned to. `view.shows` says of which sessions each part of
the workspace view is (its memo workspace, members, audit and organization
dashboard); `late` is a history, the parts that another session's save came into.
**OracleApp** is the World Cup page, which polls the proxy's board, asks for the
read of the fixture selected, settles it and lets a visitor pay for it; `Nameless`
are live fixtures whose 1X2 row has no `PriceNames`. **Signals** is what a
strategy may decide, as sets with the bounds the code keeps on size, stop and
risk, without the averages that choose among them; **Backtest** and **Desk** (risk,
prepare, execute) use it, over whole units of a symbol. In `Desk` a client has
several workflows in hand on one account, which it holds and sends along; it
executes one order at a time, since the answer to one is the account it sends with
the next. `counted` is a history, the positions an approval has counted. **Gateway** is where a seller's
memo gets its data: providers that keep what they got, the fallback dataset, the
context kept for a minute; of a part only its mode (live or not) counts.
`MCClients` runs one of these parts per behaviour, since they share nothing.

## What TLC checks

| run | instance | shows |
|---|---|---|
| `arbiter` | 2 wallets (either may be arbiter, payer, seller, receiver), a vault, amounts 0-2, 3 instants; 169,000 states | `Solvent`, `WalletsByTerms`, and that the orders behave like module `Order` (`KeepsPromise`) |
| `market` | 2 sellers with wallets of their own, 2 rounds or a round in each of 2 sessions, both modes, prices that clamp to floor and budget; 747,000 states | `OpensItsAward`, `PaysForWork`, `WorksForDeposit`, `WithinBudget`, `RoundsEnd` |
| `market_reference` | the shipped single wallet for all sellers, 3 instants | `UniqueReference` fails: references repeat across sessions |
| `jobs` | 3 requests with one key; 2 workers, one told to stop; 2 attempts; a fault, beside two requests that overlap or a stop; 429,000 states | `OneHolder`, `LaunchesBounded`, `AnsweredKeyStands`, `KeepsOrder` (the refinement of `Job`), `JobsEnd`, `StopDrains` |
| `jobs_key` | two requests handled at once | `SameJobForKey` fails: the key is read and set by two commands |
| `feed` | the talk of 2 sellers over 2 rounds; 2 overlapping passes over 1 seller's round, 1 append that throws or 1 restart | `DerivationsAgree`, `RoundAdvances`, `DedupedPerProcess`, `RecordsHold`, `ReleaseRecorded` |
| `feed_reputation` | 1 poll, no faults | `ReputationSettles` fails: the first pass that sees a bid takes the key |
| `archive` | 1 seller; 1 round in full, or 2 rounds or 1 request to Supabase that fails in at most 4 messages; 2 overlapping passes that are alike (symmetry); 1.07 million states | `GraphCloses`, `RowsHold`, `MarketAdvances`, `MirrorKeepsUp` |
| `archive_mirror` | 1 pass, no faults | `RequestsMirrored` fails: a session first seen with its award is refused by its foreign key |
| `stores` | 2 overlapping requests of any kind, 2 people, 1 session with or without a row of its own, 1 organization, 1 agent, 3 manifests (valid, invalid, of another agent), with and without Supabase, files empty or established, 1 failure; 3.1 million states | `WritesAllowed`, `ChangesLast`, `LogsExplain` |
| `pay` | each deployment: 2 turns of 2 tool calls; 2 requests to the broker from 2 sellers; 4 calls of the bridge, 2 of them orders, with 2 sayings of the seller in a thread and 2 references, or 4 calls of a door; 4 exchanges of the proxy, 2 at a time; 1 fault each; 5.5 million states | `BudgetHolds`, `ServedWasPaid`, `PayerIsServed`, `SellsWhatItBought`, `OncePerRequest`, `AnswersHold`, `BoardStaysLive`, `SettledAsReported` |
| `clients` | 2 saved sessions, 2 polls under way, 3 clicks, 2 changes of the API's health; 5 candles at 3 prices; 2 workflows on a paper account of 12 at 2 prices, with 1 move of the market and a risk per trade of 0 or 2 %; 3 namespaces, 2 snapshots in flight; 2 assets, 4 of the keys configured; a board of 2 fixtures, one without price names, polled 3 times, 2 selections, 2 payments; 361,000 states | `ShownIsSelected`, `DashboardCatchesUp`, `TradesExplainEquity`, `AccountHolds`, `StreamServes`, `FallbackIsTold` |

`PROJECT.json` pairs every property with a mutant of the code that breaks it.

Bounds. Two parties and one order reference give every conflict the programs can
have, since accounts of different references share nothing but wallets; the
proofs remove the bound. In `MCMarket` two turns are what it takes for an answer
to reach the round after its own, or an order to outlive its session; two prices
make two references per wallet and round. One fault and two attempts let each
failure meet a retry. Two rounds let a message of the first arrive in the second;
two passes let an older state be written after a newer one, and records of
different sellers or rounds have different keys. Two requests are what a stale
decision takes: one that reads and one that writes in between. Two orders or
requests let an answer come to the wrong one. What is said twice in a thread is
said once too often or of the wrong order (`MaxSaid`, and `Offers` that are as
many as the orders). Two workflows let an approval be overtaken: in the run two
positions exceed both limits together. The World Cup page polls at most
30 times more in the code, twice more here (`MaxTries`): what happens at the last
poll does not depend on how many there were. One provisioned door (`Doors`)
shows both that it answers and that the other refuses. `Horizon` bounds the clock,
`MaxTurns` rounds plus relaunches (or turns of the LLM), `MaxRounds` rounds,
`MaxFaults` faults, `MaxRestarts` restarts, `InFlight` overlapping requests of the stores,
`MaxTrouble` faults, and twice the stops and overlapping requests, of the queue,
`MaxTime` the stamps (0 leaves time out), `MaxRefs` generated references,
`MaxClicks`, `MaxSelects` and `MaxPays` what a visitor presses, the other
`Max...` constants what their comments say. `CHECK_DEADLOCK FALSE` is
there because each model ends when a bound is used up or all work is done.

State constraints, each in its MC module: `DirectOnce` (in direct mode only one
order is followed; two orders are followed in arbiter mode), `PolledAreSimple`
(a thread that is polled has one seller and round; what is said is explored in
full without polls), `FewStages` (a session's record is written at two of its
stages at most), `ShortTalk` (a session with two rounds, or with a request that
failed, says at most so many messages), `NotMixed` (registry and workspace
requests, which share no record, do not run together; the session's row is there
or missing for exports only, and only one person types a slug that cleaning
changes).

Fairness. `Market` assumes only that the buyer goes on (`WF(BuyerStep)`): each
wait has a deadline and each RPC call returns or throws. Nothing is assumed of
sellers or of messages. The buyer may also die while it sets up, which nothing
catches. `JobQueue` assumes that each request and each worker goes on: a Redis
command times out after 5 s (`redisQueue.ts:143`) and a launch after its timeout
(`worker.ts:16`). No restart of a dead worker is assumed; `JobsEnd` and
`StopDrains` hold as long as no fault strikes, because the queue has no recovery
for a job whose holder died. `Feed` and `Archive` assume that polls go on (an
open dashboard or stream asks every second) and that an append or upsert returns
or throws; nothing of the agents. `Dashboard` assumes that a poll under way is
answered or throws, that its timer fires, and that a load is answered.
`Sessions` assumes the same of a read and of the stream's timer.

Requests with one key that overlap may be answered with two jobs (`jobs_key`);
what stands then, and is checked in `jobs` and proved, is that nobody who comes
after the answered requests opens a further one (`AnsweredKeyStands`). A request
without a key skips the key's steps; no run has one.

## What is proved

Each theorem holds for every value of the constants that its assumptions allow.
The assumptions are types, that sentinels (`NoPrice`, `None`, `Undefined`, ...)
are no values, and what is said below; TLC evaluates them in every run.

### Settlement programs

For all accounts, references, rents, endowments, amounts and clock bounds, from
the named assumptions on constants (`AddressAssumption`: a PDA is not a wallet;
`VaultAssumption`: one vault per reference; the rest are types):

* `ProgramProofs!EscrowInvariant`: `Spec => []EscrowInv` where `EscrowInv` is
  `TypeOK /\ Solvent`. Neither half is inductive alone: `release` keeps balances
  natural only if the PDA holds what it pays, and `Solvent` needs the types to
  say anything of a move. `MoveEffect` says what a move does to each address;
  from it follow the effects of a deposit, of closing and of paying out, and
  each action uses one of these lemmas.
* `EscrowSolvent` and `EscrowSettledByTerms`: the invariant's part, and the
  action property, from the invariant and the same lemmas.
* `ProgramProofs!ArbiterInvariant`: the same for the composed programs
  (`ArbiterTypeOK /\ Solvent`).
* `ArbiterKeepsPromise`: `ArbiterSpec => Order`'s specification.
  Initial states map to initial states; each action maps to the abstract action
  of its name, direct calls of wallets and `InitConfig`'s rent to `Outside` and
  `Appoint`, a tick to `Pass`. What makes it go through is that a wallet never
  owns an arbitrated order's PDA, since the vault is its buyer.
* `ArbiterWalletsByTerms`: deposits that wallets make directly
  keep their terms and end by them, in every step of either program.

### Market

For all sellers, wallets, floors, budgets, modes, numbers of rounds and sessions
(`DeadlineAssumption`: an order gives its seller some time; `PartiesAssumption`,
`AmountsAssumption`, `ReferencesAssumption`: types):

* `MarketProofs!MarketInvariant`: `MarketSpec => []MarketInv /\ []ServingOK`. None of the
  safety properties is inductive, since each trusts messages in flight.
  `MarketInv` says of every kind of message in every mailbox what was true when
  it was sent and is still true when it is read, in this round or a later one:
  a request that waits has no bid yet (`WantsOK`), an award is made once and
  before its terms (`AwardsOK`), terms of this round are those agreed
  (`TermsOK`), a deposit of this round is the winner's and nobody has worked
  for it (`DepositsOK`), a good delivery of this round is work on record
  (`DeliveriesOK`). `ServingOK` says the same of a delivery under way: nobody has
  worked for its deposit, nobody else serves its round or will be told of it, and
  the deposit is there as it was read unless its deadline has passed. There is one lemma per handler, on lemmas on what reading,
  posting and losing do to a mailbox.
* `OrdersWithinBudget`, under `PlainFloors`: no seller's floor is below the
  price at which numbers print with an exponent (1e-6 SOL; below it a price is
  read as whole SOL). The code does not enforce this; a floor is a seller's
  setting, and the shipped ones are far above.
* `DepositsForAward` and `WorkIsDeposited` without hypotheses (a release needs
  finished work and a refund the deadline, so neither takes a deposit away from
  under a delivery before it); `WorkIsPaid`
  under `SellersAreOthers`: the buyer's own wallet is no seller's payout wallet.
  If it were, a refund would look like a payment.
* `ImplementsOrder`, for `Modes = {"arbiter"}`: every step of the market is a
  step of `Order` or leaves the orders alone. With `ArbiterKeepsPromise` the
  agents are joined to the programs they call: both meet in `Order`.

### Queue

For all requests, keys, workers, attempts, faults and stamps, from
`AttemptsAssumption` (at least one attempt), `BoundAssumption` and
`NoJobAssumption` (types) and nothing about fairness:

* `JobProofs!JobsInvariant`: `JobsSpec => []JobsInv`. `OneHolder` alone is not
  inductive: that a push does not put a job into two places needs that whoever
  pushes has it in hand, or is the request that made it; that a failed attempt
  is counted once needs that the record in Redis is the one in hand.
  `JobsInv` therefore adds to the types what each place says of the record:
  `Waiting` (queued as recorded), `Fit` (the record at each step of its holder),
  `Recorded` (its request's step, its sessions counted) and `Buried`.
  `Pushing` and `Popping` say what LPUSH and BRPOP do to a list, `Setting` what
  `setJob` does whether it throws or not, `HandStep` that a step about the job
  in hand touches nothing else; each action is then one lemma.
* `JobHasOneHolder`, `JobLaunchesBounded`: consequences of `JobsInv`.
* `JobKeepsOrder`: `JobsSpec => KeepsOrder`. Readers' status changes with
  `setJob` alone (`Reading`); each of the five actions that call it maps to the
  action of `Job` it is named for, or to a stutter when the write did not land.
  A completed record that throws is the only way back (`Relapse`), after a fault.
* `JobForKey`: `JobsSpec => []AnsweredKeyStands`, for any number of requests that
  overlap. `SameJobForKey` is false then, which is what the run `jobs_key` shows.
  The invariant (`KeysInv`) says that what a key names has been claimed and, once
  answered, is on record (`Names`), that a request past the look-up has found or
  claimed its key (`Claimed`), and that from when a request began with every
  earlier one answered nobody claims the key again (`Stands`).

### Paying by reference

For all parties, prices, budgets, quotes, bounds and faults, from
`PaymentsAssumption`, `PurchaseAssumption`, `BrokerAssumption`,
`BridgeAssumption` (types, and that parties have wallets) and
`WalletsAssumption` (the agents' wallets are no visitor's, or a visitor could
spend the buyer's budget):

* `PayProofs!PayInvariant`: `PaySpec => []PayInv`, the chain (every transfer's
  reference has been generated) and the invariant of the deployment that runs;
  the others rest in their initial state.
* `BudgetIsEnforced`, `DeliveriesArePaid`, `PaymentIsAnswered` from
  `PurchaseInv`: the wallet has sent what the guard counted, except for a
  payment that threw after it landed, which ends the purchase (`SpendingOK`);
  what was served was paid (`ServerOK`), once if no proof was sent twice
  (`OnceOK`); and a payment is served, or the buyer still retries with it
  (`WaitingOK`).
* `BrokerIsHonest`, `BrokerBuysOnce` from `BrokerInv`: quotes are told apart by
  their references (`HeardOK`), a cycle has bought for at most one of its quotes
  and for none while it shops (`BoughtOK`), what it holds is what it bought
  (`DealOK`), and a cycle that is over has one answer (`AnsweredOK`).
* `BridgeAnswersHold`, whatever the seller says, from `BridgeInv`: a thread begins
  with its request, and what follows contains a marker only as what it is
  (`ThreadsOK`); a reference that is known was answered to the order of its thread
  (`OrdersOK`); no two orders share a thread, and a call under way knows its own
  (`PostsOK`); a door
  that was not raced has one start under way and one session (`DoorsOK`). Threads
  only grow (`BridgeGrows`), so that the first match of a poll stays the first
  (`FoundAt`), and calls about one order get the same.
* `ProxyStaysLive`, `SettlementsAreReported` from `OracleInv`: what a handler
  has locked and paid so far at each of its steps, and a board as old as the
  last one shown at most.

### Clients

For all sessions, prices, accounts, limits, assets and fixtures, from
`DeskAssumption` (a portfolio of at least 100 units, so that the least share of
it is one), `BacktestAssumption` (prices are positive), `DashboardAssumption`,
`GatewayAssumption`, `OracleAppAssumption`, `SessionsAssumption`:

* `ClientProofs!ClientsInvariant`: the conjunction of one invariant per part.
* `SelectionIsShown`: a load or effect carries the number of the effect that
  started it and the selection of that effect; only the last number is alive. A
  save carries the session it was made for, and is late where that is no longer
  the one selected: of every other part it shows the selection's own.
* `CurveIsExplained`: cash and position, priced at *any* close, are what the
  trades add up to (`Explains`); the last candle's price is then one instance.
* `AccountIsKept`: balance and cost of the positions add up, and each approval in
  hand has its room on top of the positions it counted (`Room`); those stay the
  first of the account whatever other workflows open after them (`RoomStays`), so
  that the order, when it is filled, fitted on top of them (`FitsOneMore`).
* `FallbackIsShown`: what a context was made of agrees with the providers'
  caches, and what a delivery has not gathered they do not have.

Sums of lists are proved about in `ListProofs`. The library's induction theorems
take an operator, so induction is over *sets* of naturals
(`NatSetInduction`, from the well-foundedness of `<`), and `FoldLeft` and
`FlattenSeq` are unfolded to the recursive functions they are defined by.

### Feed and mirror

For all sellers, rounds, polls, faults and restarts, from
`TranscriptAssumption` (types):

* `FeedProofs!DerivationsHold`, `RoundsAdvance` from `TalkInv`: the record that
  the fold keeps of a round says which of its messages were sent (`Hears`), in
  whatever order the late ones came, and each fact in it is there only after the
  one before it (`Ordered`). The status follows from the facts, and the stages
  from the status.
* `FeedInvariant`, `DedupeHolds`, `RecordsAreKept`: a pass holds records that
  were true when it read them, and the talk only grows, so that they stay true
  in its hands and on file (`QueuesOK`, `FilesOK`). A key that is marked and
  waits for no append is done, and only a restart forgets it (`Once`).
* `GraphIsWhole` from `TalkInv`: edges and nodes are written by the same facts.
* `ArchiveInvariant`, `RowsAreTrue`, `MirrorFollows`: whoever puts a row has its
  record on file and the row of its agent before it (`MirrorOK`). A row has one
  value per key because one seller is awarded a round (`RowOK`); the session's
  row merges several and only claims what was said.
* `MarketsAdvance`: there is a set of session entries, those in hand and on file
  among them, of which a round's later state has the later stage (`Chain`), and
  whatever is on file has its place in the order of times (`StampsOK`). An old
  pass may append out of order, since the reader sorts by time; what it may not
  do is take its time late, which the property excepts (`Overtaken`).

### Stores

For all people, sessions, organizations, agents, manifests, numbers of
requests in flight and stamps, with tables or without, whatever overlaps, from
`StoresAssumption`, `PatchesAssumption`, `PeopleAssumption` (no address is one of
the code's names for who granted a first role), `ScopesAssumption` (no
organization is a session), `NothingAssumption`, and `PastsAssumption`: the files
of earlier runs hold records of their types, and of requests before these.

* `StoresProofs!StoresInvariant`: `StoresSpec => []StoresInv`. A request's locals
  fit the stage of its handler (`Shape`), files and tables hold well-formed
  records, a table one row per id, and who overlapped whom agrees on both sides
  (`RequestsOK`).
* `WritesAreAllowed` from `AccessInv`. The decision is taken from what was read
  one or more `await`s ago, so nothing can be said of the files as they are when
  the write lands: `WritesAllowed` asks for what the request *may have seen*
  since it arrived. `MaySee` only grows while a request runs, so that whatever
  let it in at the check still does at its last write (`AccessGrows`). A
  file shows what counted at some moment since then; that a table does so too, up
  to upserts under way, is `RowsFresh`, and that the records of this run were
  written by requests known to be running or done is `WritersOK`.
* `AnsweredChangesLast` from `ChangeInv`, for whatever overlaps a request without
  writing its record (`Clear`: its subject is none of the records that another
  that it met may write). Such a request appends nothing that is stamped earlier than
  what is on record of its subject, and nobody writes it in between (`OwnOK`), so its
  record is the one that counts; and every request after it that writes the same record writes what carries the change
  over, or is one that says otherwise (`Settled`, for those at work as well as for
  what is on record). A row that a foreign key refused is excepted.
* `LogsExplained` from `LogsInv`, for pasts with a complete audit (`WellKept`,
  which the run's pasts are): while no requests overlap, members and audit
  agree entry by entry, the audit at most one behind (`LogsAgree`), the request
  at work knows the member as it was (`StoryAt`), and the table knows its last
  record (`TableTells`). Feedback is on its way to the activation log, or there
  (`FeedbackOK`), however requests overlap.

### Only model-checked

* Liveness, which is out of this prover's reach under fairness: `RoundsEnd`,
  `JobsEnd`, `StopDrains`, `ReleaseRecorded`, `DashboardCatchesUp`,
  `StreamServes`.
* That `Transcript`'s late sellers, and every other environment, do what they
  may do in the code: a proof is about the model.

## Findings

The four failing runs are disagreements between a document or test and the
code; `PROJECT.json` quotes each. Other divergences met while modelling, which
no run states as a property:

* The receiver of a refunded order is any account the arbiter passes
  (`arbiter/src/lib.rs:121`).
* A price below 1e-6 SOL prints as `1e-7` and is read as 1 (`protocol.ts:54`).
* The job log keeps `failed` when the retry's `queued` has the same stamp, since
  of two equal stamps the older record wins. And `failed` is written during a
  backoff (`worker.ts:92`) although the job is retried; the dashboard's
  `pollMarketJob` (`web/src/api.ts:873-891`) takes it as final.
* Two first writers of a session can both become its owner
  (`workspaceMembershipStore.ts:102`).
* Of overlapping writes of one record the file's reader takes the one with the
  latest `updatedAt` (`workspaceMembershipStore.ts:144-152`), the table keeps the
  one whose upsert came last (`supabasePersistence.ts:343-358`), so that the two
  may disagree.
* One cold `/api/edge` of the odds proxy subscribes twice (`proxy.ts:79`).
* The dashboard may show another session's rounds until the next poll.
* A pass may be overtaken between the state it was given and its `now`
  (`server.ts:1087`, `persistence.ts:28-35`): its record, of an older state, then
  bears the later time, and the session read from the files goes back.
* The session's key leaves the round out (`persistence.ts:50`), although a
  session has several rounds (`index.ts:181`): a stage that one round was recorded
  at is never recorded of another. A second round that is released like the first
  leaves the session as the first left it, with its winner; and one that fails
  shows the session as going on again, since its own first new stage comes last.
* `getSettlement` returns the first status on file (`history.ts:95`); the
  tables' session stage may go back when an older pass upserts late.
* A provider that failed once keeps its fallback until a restart, and live
  headlines are observed as a fallback (`financialDataProvider.ts:167-183`).
* The page's `PayButton` keeps saying "you paid" when another fixture is
  selected (`app.js`), and `clientEdge` may pick a 1X2 row without a price. For a
  live fixture whose 1X2 row has no `PriceNames` it takes the demo odds and says
  `demo: false` (`app.js:93-97`), although a comment says "we never mix demo
  numbers into a live fixture" (`app.js:352`). The board only promises a row with
  a price (`proxy.ts:128-147`).
* With Supabase, an export of a memo whose session has no row in
  `market_sessions` is answered and then lost: the upsert is refused
  (`supabase_migration.sql:131`) and only logged (`supabasePersistence.ts:51-55`),
  and the table's empty list is preferred to the file (`workspaceStore.ts:92-95`).
* A save that is answered after another session was selected puts its workspace,
  its member, its audit or its organization's dashboard into the detail of that
  other session (`web/src/api.ts:553, 580, 586, 650`); only an assignment is kept
  out (`:645`). The run reaches each.
* The limits of a paper account hold when a risk is evaluated, and are not looked
  at when the order is executed (`privateQuantOrders.ts:160`): orders approved side
  by side exceed together what the portfolio may hold and how many positions may
  be open. The run reaches both.
* A risk per trade of 0 is no cap but the whole position size
  (`privateQuantRisk.ts:101`).
* The bridge's header describes a seller that answers its requests
  (`bridge/server.ts:4-7`); the seller agent answers none
  (`seller-agent/README.md:35-36`), and every order times out with it.
* The page stops polling for a live board after 31 tries, although its footer
  says that it switches to live automatically.
* Feedback that is recorded but whose event cannot be appended is answered with
  400; a client that tries again records it twice.
* A risk request without a notional is approved without a check of its size
  (`privateQuantRisk.ts:91`, `:121`).
* The bridge's `/autonomous/start` and `/swarm/start` check their session before
  an `await` and set it after, so two calls that overlap open two sessions
  (`bridge/server.ts:236, 285`).

## Not modelled

* The echo agent and the user proxy, the Python client, setup and run scripts,
  deployment: no state of their own, or none that is shared.
* The SDK: an HTTP client of the feed and a simulator of one process.
* Language-model calls, the text of memos and reports, rendering: pure
  computation or I/O; what depends on them is arbitrary in the models.
* The numerical part of the private quant API (averages, options, optimisation,
  Monte Carlo, research): functions of real numbers without state.
* The routes of the feed that read a store and format it.
* A foreign arbiter configuration, overlapping sessions of one buyer, what the
  agents behind the bridge's doors say to each other.

## Plan

1. *Done*: the modules above; proofs for settlement, queue, market, payments,
   clients, feed, mirror and stores.
2. A foreign arbiter configuration in `Market`; threads and waits by thread in
   Coral messaging, shared by `Market` and `Broker`.
