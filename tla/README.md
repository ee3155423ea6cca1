# TLA+ models of the Decentralized Watchtower

The Watchtower is a service of (usually four) agents. Each agent watches the
ComposableCoW contract for conditional orders, polls the contract until an order can
be traded, and takes part in consensus rounds that forward the tradeable orders to
the CoW Protocol API. The modules in this directory model that behaviour and the
scripts of the repository, TLC checks them on small instances, and TLAPS proves the
most important properties for all values of the constants.

All paths below are relative to `packages/valory/`, those of scripts to the root.

## The system

| part | state | operations | talks to |
|---|---|---|---|
| `skills/order_monitoring/behaviours.py`, `MonitoringBehaviour` | `_subscription_required`, `_missed_parts`, `params.in_flight_req` | `act()`: subscribe over the websocket, poll the contract | websocket client (envelopes), ledger connection (`get_tradeable_order`) |
| `skills/order_monitoring/handlers.py`, `WebSocketHandler` | none of its own | one `process_order_events` request for each notification | ledger connection |
| the same file, `ContractHandler` | `shared_state["orders"]` (registry), `shared_state["ready_orders"]`, resets `in_flight_req` | registers orders, flushes merkle roots, hands tradeable orders over, drops expired ones | `ready_orders` is read by the rounds |
| `contracts/composable_cow/contract.py` | none | `get_tradeable_order`, `should_drop_order`, `process_order_events` | the chain, by several calls with blocks between them |
| `skills/order_monitoring/order_utils.py` | none | conversion of orders, order uids | |
| `skills/cow_orders_abci/rounds.py` | the synchronized data: `order`, `verified_order`, `order_uid`, `keepers`, the payloads of the round | end of round, transition function, timeouts | replicated by Tendermint |
| `skills/cow_orders_abci/behaviours.py` | reads and shortens the agent's `ready_orders` | propose an order, choose a keeper, POST the order, verify it | the rounds (payloads), the CoW API (HTTP) |
| `skills/order_monitoring/sig_utils/encoding.py` | none | hashes of structured data (EIP-712) | called by `order_utils` |
| `skills/decentralized_watchtower_abci/composition.py`, `models.py` | none | chain registration, the rounds above and reset-and-pause; derive the timeouts of the rounds from parameters | |
| the same skill, `handlers.py`, `HttpHandler` | none of its own | answers requests with a report on the agent's health | the round sequence of the framework, the websocket connection |
| `scripts/check_doc_ipfs_hashes.py`, `check_copyright.py`, `check_doc_links.py` | the files of the repository | compare and correct hashes, compare and correct years, try links in threads | packages.json, git, the web |

Within one agent everything runs in one thread: behaviours and handlers interleave,
but none is interrupted except where a behaviour yields. What is hard:

* the agents' lists are **not** synchronized. They are filled by each agent's own
  polls, emptied by a restart, and shortened only in the one round in which
  `verified_order` is set;
* the keeper's POST can be under way when its round times out, its answer can be
  lost, and the same order can be posted again by another keeper;
* the answer to `get_tradeable_order` is applied to a registry that has changed
  since the request, and one flag, set in the behaviour and reset in the handler,
  keeps requests from overlapping;
* each event of a transaction is notified by itself, and each notification makes the
  handler process all events of the transaction;
* the websocket connection is sampled once per `act()`;
* an exception in a handler ends the process (`skill_exception_policy:
  stop_and_exit`), the container is restarted, and all of the agent's memory is
  gone;
* `getTradeableOrderWithSignature`, the cabinet and the block time are read one
  after the other while the chain moves on;
* each agent polls by itself, and what it is handed is the part of the time of its
  own poll: the agents may hold different parts of one conditional order;
* the health report infers from two timestamps whether the service makes progress,
  with a threshold that is derived from other parameters than the timeouts;
* the types of structured data refer to one another, in any order and repeatedly;
* a correction of a file by the scripts is itself a change that the next run sees.

What makes the parts correct: an order is confirmed only if the API has it and is
never processed again after that; orders are neither lost nor forgotten; every order
that all agents hold is forwarded in the end; each registration of a conditional order
is handed over once, belongs to its owner and comes from the chain; only expired orders
are dropped; of a conditional order one part is forwarded; the uid that the agents look
for is the uid the API computes; the health report raises no false alarm and shows a
service that is stuck; repeated corrections come to an end and break nothing.

## Modules

| module | models | notes |
|---|---|---|
| `OrderForwarding` | what the service promises about an order | abstract specification |
| `CowOrders` | `cow_orders_abci` with the keeper's requests to the API, and the reset of the composition | all agents together |
| `CowOrdersProperties` | its properties and inductive invariants, the refinement mapping | |
| `CowOrdersProofs` | proofs | |
| `OrderHandover` | what the monitoring promises about the orders it hands over | abstract specification |
| `OrderMonitoring` | `order_monitoring` of one agent with its websocket, ledger requests and restarts | |
| `OrderMonitoringProperties`, `OrderMonitoringProofs` | the same for it | |
| `TwapOrders`, `TwapOrdersProofs` | the loop of `get_tradeable_order` over TWAP orders while blocks arrive; proofs | chain contract external; properties in `TwapOrders` |
| `Watchtower` | the composition: each agent's monitoring and the rounds of `CowOrders` | extends `CowOrdersProperties`; properties in the module |
| `WatchtowerProofs` | proofs | |
| `HealthCheck`, `HealthCheckProofs` | the report of the health check over rounds, timeouts, blocks and the connection; proofs | properties in `HealthCheck` |
| `HashWords` | types, fields, words and the digest | vocabulary of the next three |
| `OrderUids`, `OrderUidsProofs` | the way of an order from the chain through `order_utils` to the API and its uid; proofs | the hash of a struct is a constant; properties in the module |
| `TypedData` | `sig_utils/encoding.py`, and EIP-712 as its reference | pure operators, recursive |
| `TypedDocuments` | hashing of other structured documents | extends `OrderUids` and `TypedData`; properties in the module |
| `DocHashes`, `CopyrightHeaders`, `DocLinks` | the three scripts | properties and inductive invariants in the modules |
| `DocHashesProofs`, `ScriptProofs` | proofs about `DocHashes`, and about the two others | |
| `MCCowOrders`, `MCOrderMonitoring`, `MCTwapOrders`, `MCWatchtower`, `MCTypedDocuments`, `MCChecks` | values of the constants, and initial states, for TLC | |

Operators whose comment begins with "Faulty variant of" are not part of the models.
Each is a plausible bug in the definition named after it (a missing guard, a missing
reset, a wrong order) and shows that a property can fail: with the variant in place
of the definition, TLC finds the property violated.

### CowOrders

The synchronized data is one copy (`round`, `order`, `verified`, `orderUid`,
`keeper`, and `votes`, the payloads of the round); the lists `ready` are one per
agent; `call` is the keeper's request in the round, `orphans` the requests nobody
waits for any more, `book` what the API has accepted. Each transition of
`CowOrdersAbciApp` is an action: `SelectOrdersDone`, `...NoAction`, `...NoMajority`
and so on, with the end-of-round code; `SelectOrders(a)`, `PlaceOrder`,
`VerifyExecution(a)` are the behaviours.

Decisions worth knowing:

* *Consensus threshold.* `Quorums` are the sets of agents whose equal payloads reach
  the threshold. All that is assumed of them is that any three have an agent in
  common (true of sets above two thirds).
* *Rounds of the framework.* `RandomnessRound` and `SelectKeeperRound` end when a
  quorum is up; which keeper is chosen is left open except that the framework never
  chooses the current one again. Their transitions to themselves change nothing and
  are stuttering steps; the remaining one is `SelectKeeperNoMajority`.
* *Agents act on the current round.* A payload that arrives after its round is
  rejected by the framework, so only its effect on the agent's own list could
  remain; it would shorten the list by the order verified before.
* *Payload None.* For an error that is not retried `_place_order` returns `None`.
  The model takes `order_uid` to be `None` then, which differs from the expected
  uid. (If the framework refused to return a `None` from the database, the
  verification would time out instead, and the finding below would be the same.)
* *Exceptions.* An answer with JSON but without `errorType`, or any other exception,
  is the action `Restart`: list lost, an own request under way orphaned.
* *History variables.* `received`, `done`, `faults` serve the properties and the
  bounds only; `received` counts what the agent was handed, up to `MaxCopies`.

### OrderMonitoring

`registry`, `ready`, `inFlight` and `required` are the agent's memory; `connected`,
`envelopes`, `sent`, `subscriptions` and `inbox` the websocket; `eventRequests` and
`polls` the requests without an answer. `Act` is the whole of `act()`, with its two
calls `DoSubscription` and `CheckOrdersAreTradeable`; the handlers are
`HandleNotification`, `HandleEvents` and `HandleTradeable`; `Exit` is the end of the
process with its restart. Answers may come in any order. `HandleEventsFails` is the
exception of a root-set event. `RootKeysMatch` are the transactions whose root-set
event has the form that the handler and its test expect, so that the handler's flush
is exercised, too; the contract emits another form. An order's parameters are a
record of a kind and a value, since the code compares a dataclass with a mapping. A
transaction is taken to set at most one merkle root. `disconnection_point` and
`_missed_parts` are left out: they are initialised to `None` and `False`, and no
code ever makes them anything else.

A subscription takes three steps: `act()` puts an `eth_subscribe` call into the
multiplexer (`envelopes`), the client sends it (`SendEnvelope`, then it is `sent`), and
the node confirms it (`Subscribe`) or answers with an error (`SubscribeRejected`). A
disconnection may come between any two of them, and takes what was sent with it.
`Reconnect` is the return of a connection whose loss `act()` has seen;
`ReconnectUnseen`, that of one which it has not, is a fault (`unseen_loss`), since the
new session never gets a subscription then.

`HandsOverOrders` says that this implements `OrderHandover`: transactions announce
orders with their owners (`Announce`), announced orders are registered under new ids
(`Register`), a request asks about registered orders (`Ask`), and only the answer to
that very request hands orders over, each entry once and as it was asked about
(`Answer`). Flushes and drops only take orders out of what is known; a restart forgets
what is known and ready, and the requests. Websocket, notifications and the flag are
hidden. All of this is about the entries of the registry, which an agent numbers. That
one conditional order may have several entries is the finding `monitoring_duplicates`.

### Watchtower

`OrderMonitoring` has one agent's monitoring in detail, without the rounds;
`Watchtower` has all agents, with the monitoring reduced to what decides which
orders reach the lists of `CowOrders`: whether the agent is `subscribed` when the
event of a conditional order is mined, its `requests` for the contents of the event,
and how many entries its `registry` has for the order. `HandleTradeable` is the one
step that touches the rounds: it puts the part of the moment into the agent's
list (`HandOver` of `CowOrders`) and removes the registry's entry. `DropOrder` is the
other way in which the same handler removes an entry: the order has expired
(`part[c] = Parts`) since the contract returned a part, or it is one of `Misdated`,
those that `should_drop_order` takes for expired at once (finding `twap_mixed`). An
order that had expired before makes the call revert and stays in the registry, which is
a stuttering step here; one of another type than TWAP stays likewise (`TwapOrders` has
both in detail). An answer of the contract is taken to be about one conditional order
at a time. `Lossy` agents miss events, get error answers and restart. Steps of the
rounds are those of `CowOrders`, unchanged (`RoundStep`).

`RunsRounds` says that this is an implementation of `CowOrders!Spec`, whose
`TradeableOrder` is the only thing it assumes of the monitoring. `MinedForwarded` says
what the whole is for, and no more than the code can keep: a part that *stays*
tradeable reaches the API. If its time passes first, agents that poll before and after
are handed different parts, and none may ever get a quorum; the same holds if some agent
was handed an earlier part, which is why `OnlyPart` is part of the property.

### TwapOrders

There are two steps for each order of a request, `GetTradeable` (the call to the
contract) and `Classify` (block time, start and end); `Block` may come between them.
The contract's own definition of a tradeable part (`ChainStart`, `PartAt`,
`ChainTradeable`) is external. Orders in `OtherTypes` are tradeable like others, but
their data does not decode as a TWAP (`DecodeFails`). The registry has entries with an
id and an order; `Register` adds one at any time and for any order, also for one that is
registered, was handed over or was dropped, since nothing in `_add_contract` keeps an
order from being registered again. `MaxIds` bounds the registrations.

### HealthCheck

Time is kept as ages in seconds: of the round, of the last transition and of the
last block. `AfterResult` and `AfterTimeout` are the transition function of the
composed app, with final rounds replaced by the rounds they are mapped to; `Timeout`
is what `SharedState.setup` writes. `Handle` answers any message, since the handler
looks neither at method nor at url.

That the framework notes the time of a transition when a round has a result, and not
when it times out, and that it calls Tendermint unhealthy when the last block is
older than a tolerance, is taken from the framework as the code uses it (external).
`Configured` says which parameters make the report meaningful. The deployed agent
(pause 300, round timeout 120) satisfies it. The defaults in `skill.yaml` (10 and
30) do not: the threshold is shorter than the timeout of a round.

### TypedData, OrderUids and TypedDocuments

A word is the value with its type and a digest the record of what it is computed
from, so that two digests are equal only if their inputs are; `StandardDigest` is
the definition of EIP-712 in the same terms. Exceptions are the value `Raised`.

`ComputeOrderUid` is the string that `compute_order_uid` returns: the prefix and two
hexadecimal digits for each of the packed bytes. `ExtractOrderUidParams` takes bytes,
and raises for any other length than a uid's, hence for this string. Between the two
stands `FromHex`, the `bytes.fromhex` of `test_order_utils.py`: the tests are the only
caller of `extract_order_uid_params`, the handlers compare and send strings.
`UidRoundTrip` says both, that the bytes give back the parameters and that the string
is rejected. The lengths of digest and owner and the base of a byte are constants, the
four bytes of `validTo` are those of `encode_packed`.

`OrderUids` takes the hash of a struct as a constant, once as the agents compute it
and once as the API does; the run gives them the values `CreateStructHash` and
`StandardHash` of `TypedData`. `HashAssumption` says what the uid needs of them: they
agree on the domain and on the messages of orders, raise for none of these, and
determine what is hashed. It is not proved: TLC evaluates it in the run `uids`, with the
recursive definitions of `TypedData`, for all orders of the instance.

### The scripts

A file of `DocHashes` is a sequence of commands; `LookAt` is one iteration over the
commands the file had when it was read, with the replacement in what has become of
it. `Release` changes a package between runs. `CopyrightHeaders` is about one file:
edits, commits and runs of the tool with `--fix` in any order while years pass.
`DocLinks` has the tasks of the pool, `MAX_WORKERS` at a time, and the main thread
that collects results; `links` is the documentation it is run on, any one of
`Documentations`. The scripts interact neither with one another nor with the agents.
`MCChecks` runs one of them, or the health check, in each behaviour and keeps the others
at rest.

## Runs

Expected to pass:

| run | instance | shows |
|---|---|---|
| `orders_safety` | 4 agents, 3 of 4 a quorum, 2 orders, any 2 faults out of early timeout, restart, refusal, lost answer, failed GET; agents and orders symmetric | types, `VerifiedInBook`, `PostedHeld`, `NoReprocessing`, the inductive invariant `DropInv`, refinement of `OrderForwarding` |
| `orders_liveness` | 4 agents with equal lists of 2 orders, 2 refusals | no order is lost, the pause comes only when all is done, every order is verified |
| `monitoring_safety` | 2 owners, 3 transactions, of which two set a merkle root (one in the form the handler reads, one as the contract emits it), 2 faults out of disconnection, one that `act()` does not see, restart, ledger error, RPC error | `EntryHandedOverOnce`, `NoOrderVanishes`, the inductive invariant `MonitoringInv` (types included), refinement of `OrderHandover` |
| `monitoring_liveness` | 2 owners, 2 disconnections or restarts at any point of a subscription | `in_flight_req` is exact, each order is asked about again and again, a subscription that was lost is there again in the end |
| `watchtower` | 4 agents, one of them lossy, one conditional order of two parts that expires, a restart | the bookkeeping invariant, `OnePartForwarded`, the rounds run as in `CowOrders`, a part that stays tradeable reaches the API unless an agent was handed another one |
| `twap_safety` | two TWAP orders of two parts (start when mined with full periods; fixed start with span) and one order of another type, three registrations of any of them, block times 0..8, one failed request | answers well formed, only expired orders dropped, each registration ends once and with one part, the inductive invariant `PollInv` (types included), every request answered |
| `uids` | every combination of receiver, kind, balances, known or not, and `validTo` of four binary digits, the uids as strings and as bytes; mails with nested, shared and repeated structs and arrays; domains with any fields in any order | expected uid is the API's uid; packing and unpacking a uid; digests and domains of the standard; different documents have different digests |
| `checks` | pause 8, round timeout 6, a block every 2 seconds, tolerance 3; two files of at most two commands out of ten, one release; headers of the years 2022..2025 with two edits; four files of links in two threads, with the last link with TLS or without | the ages, no false alarm, a stuck service is reported; fixes come to an end, checks are truthful, headers settle, the link check ends |

Expected to find a counterexample (the code does not do what a comment or the README
says; `PROJECT.json` quotes the line):

| run | property | what happens |
|---|---|---|
| `orders_own_lists` | `EveryOrderForwarded` | lists in different sequences: NO_MAJORITY for ever |
| `monitoring_duplicates` | `KnownParamsOnce` | a transaction with two events is notified twice and processed twice; the check for known parameters compares a dataclass with a mapping, and each order gets two entries |
| `monitoring_ledger_error` | `AskedAgain` | `in_flight_req` stays set after an error answer |
| `twap_mixed` | `DroppedOnlyIfExpired` | the start is chosen by `span` instead of `t0`: live orders are dropped |

### Further divergences

The models contain these as well (they are what the code does); no run is devoted to
them. Each is easy to see in a run with one fault or none.

* `cow_orders_abci/rounds.py:287`: the timeout of `PlaceOrdersRound` keeps a keeper
  that is down. With `Down = {a4}` the order is never posted if `a4` is chosen, although
  the others are a quorum. `orders_liveness` has no agent down for this reason.
* `cow_orders_abci/rounds.py:214`: `verified_order` is cleared by the next
  selection; an agent that sends no payload in the round in between keeps the order.
* `cow_orders_abci/behaviours.py:86`: `list.remove` takes out one copy. With
  `MaxCopies = 2` a verified order is processed again, so `NoReprocessing` needs
  `MaxCopies = 1`, which the duplicates of the run `monitoring_duplicates` break.
* `cow_orders_abci/behaviours.py:180`: an order that is posted again is answered
  with a duplicate error, which becomes BAD_SUBMISSION. The uid is not the expected
  one, the order is selected again, for ever, and blocks those behind it.
  `orders_liveness` excludes lost answers and timeouts for this reason.
* `order_monitoring/handlers.py:76`: nothing sets the disconnection point; events of
  the time without a subscription are never fetched. An agent of `Watchtower` that
  misses an event never hears of the order.
* `order_monitoring/handlers.py:242`: a `MerkleRootSet` event has no key
  `merkleRoot`; KeyError ends the process (`HandleEventsFails`).
* `order_monitoring/handlers.py:319`: the comment above says that contracts with old
  roots are flushed; the condition keeps those and removes the ones of the new root. No
  property says which orders a flush should take.
* `order_monitoring/handlers.py:203`: the answer is applied without a look at the
  registry. An order that was flushed between request and answer is handed over all
  the same (`OrderHandover` allows it: only what was asked about counts).
* `order_monitoring/behaviours.py:127`: a disconnection that ends before the next
  `act()` is not noticed, and the new session stays without a subscription, also if
  the loss takes a call with it that the node has not answered yet (`unseen_loss`).
  `monitoring_liveness` leaves this fault out.
* `order_monitoring/behaviours.py:174`: a disconnection while the first envelope waits
  leads to two calls, and to two subscriptions in one session, although the comment at
  line 131 says "we only subscribe once". `SubscribesOnce` proves the comment right as
  long as the connection is never lost.
* `order_monitoring/handlers.py:203`: a TWAP order leaves the registry with its
  first tradeable part, so no further part is handed over, unless the order is
  registered again: then a second part may be, or the same one twice.
* `order_monitoring/order_utils.py:198`: `compute_order_uid` is annotated `-> bytes` and
  returns a string of 114 characters; `extract_order_uid_params` rejects it.
* `composable_cow/contract.py:151`: an order of another type than TWAP raises when
  its data is decoded and is skipped in each request, although it is tradeable.
* `composable_cow/contract.py:174`: an order that expires between two polls makes
  the call revert and is skipped for ever, not dropped.
* `order_monitoring/handlers.py:213` and `order_utils.py:148`: `buyTokenBalance`
  comes from `sellTokenBalance`. Both places agree, so `ExpectedUidAccepted` holds.
* `sig_utils/encoding.py:79`: a value of type `bytes` calls a function of `utils`
  that does not exist. Array elements must be structs, are joined without being
  hashed, and their types are not among the dependencies. None of this concerns
  orders; `StandardDigests` is about documents without arrays and `bytes`.
* `decentralized_watchtower_abci/handlers.py:170`: the routes are never consulted:
  each method and url is answered with the report and status 200,
  `_handle_bad_request` is not called. `is_tm_healthy` is true before the first
  transition, and `web3_ok` says that the socket is connected, not that the agent is
  subscribed. Rounds whose results lead in a circle (NO_MAJORITY, BAD_SUBMISSION)
  are reported as fast.
* `scripts/check_doc_ipfs_hashes.py:290`: replacing a command changes each command
  that begins with it. One run with `--fix` may give a `--service` command the hash
  of the agent with the same name; the second run repairs it (`TwoFixesSuffice`). A
  `ValueError` ends a run in the middle, and commands that begin with `aea` are
  rewritten as `autonomy`. `tox.ini` has the check commented out.
* `scripts/check_copyright.py`: with a start year after the end year `fix_header`
  writes the year of the modification first, which need not be an allowed start
  year; such a header can not be fixed any more. The year is that of the last
  commit, so committing a fix can make it wrong. The list of directories to check
  names `packages/valory/cow_orders_abci`, which does not exist.
* `scripts/check_doc_links.py:91`: a link without a scheme or a loop of redirections
  raises an exception that nothing catches; the results of all files are lost.

### Bounds

Four agents are the deployed service and the smallest one in which a quorum is not
everyone; two quorums of three share only two agents, and each can leave out an
agent the other needs, which is the case `NoReprocessing` is about. Two orders are
enough for lists in different sequences and for one order blocking another; three
would only repeat this. Two faults allow a fault while another is being handled (a
restart after a lost answer, a repeated timeout).

In the monitoring runs `MaxIds` leaves room for each order once and, with double
notifications, for some of them twice; two disconnections or one with a restart
double the notifications, so that a root is flushed while a request about its orders
is under way. Two faults also let a connection be lost between a call and its answer
and the loss be missed, or a restart follow it. `monitoring_duplicates` needs one
transaction with two events and no fault.

In `watchtower` one conditional order is enough: another one would only compete for
the rounds, which the orders runs cover. Two parts are enough for agents to
disagree. One lossy agent is what a quorum of the others tolerates. `Notices = 1` is
one subscription and one event; the proofs are for any number. The two parts pass, and
the order expires, at any time. `Misdated` is empty: an order in it only has its entries
dropped.

For the health check the constants are small, and stand in the order of the deployed values
(timeout below pause, threshold twice the pause); the proof is for all that satisfy
`Configured`. `Horizon` is above everything an age is compared with.

In `TwapOrders` the last period ends at time 7, so 8 is past the end of all orders;
block time ends there and the run may stop (no deadlock check). Three registrations
(`MaxIds`) are one of each order, or one order again after it was handed over or
dropped, or while it is still registered; `twap_mixed` needs only two. The same holds of
`uids`, where an order is converted or a document hashed once, and of `checks`, where
a script ends. The commands in `checks` include, for each way of finding a package
(by name, by hash, by type), a stale one and a current one, and two commands of
which one begins with the other.

### Fairness

The safety properties need no fairness. In `CowOrders!Fairness` the behaviour of an
agent that is up runs (the framework calls it periodically), blocks end rounds whose
condition holds (Tendermint makes blocks without transactions), the API answers a
post unless the answer is lost, and the timer of a round in which nothing else can
happen goes off (`event_to_timeout`). Faults, early timeouts and late posts are not
fair. `SelectKeeperDone` is fair as one action: nothing is assumed about which
keeper is chosen. In `OrderMonitoring!Fairness` the behaviour acts, calls are sent
and notifications delivered, the node answers every call and the ledger connection every
request, and the client reconnects after `act()` has seen that it should; a return that
`act()` misses, transactions and other faults are not fair. In `TwapOrders!Fairness` time
goes on and a request is worked on.

`Watchtower!WatchFairness` adds to the fairness of the rounds that the requests of
an agent that is up are answered, and that it polls again and again, so that an order
which stays tradeable is found so (`HandleTradeable` is enabled only while the contract
would return a part). Losses, drops, new subscriptions after a loss (`act()` may not
notice it) and the passing of time are not fair. In `HealthCheck!Fairness` time passes and somebody asks
for the report; time is strongly fair, since it waits for the block of a running
chain and the chain may be halted and resumed again and again. `HeaderFairness` says
that the tool is run, and its changes committed, as often as there is something to
do; `LinkFairness` that the threads go on (each request has a timeout). All other
fairness is weak.

## Proofs

`CowOrdersProofs` proves, for any agents, orders, quorums, faults and bounds that
satisfy `QuorumAssumption` and `ConstantAssumption`:

* `TypesHold`: `Spec => []TypeOK`. `TypeOK` is not inductive: that a payload or a
  uid is an order needs that there is an order and a keeper in the rounds that use
  them. `TypeInv` adds `CallInRound`, `OrderSelected` and `KeeperSelected`.
* `VerifiedOnlyIfBooked`: `Spec => []VerifiedInBook`, by `BookInv`, which adds that
  a vote for `verification_ok` is cast only if the API has the order.
* `DropCorrect` and `NeverReprocessed`: `MaxCopies = 1 => (Spec => []DropInv)` and
  `[]NoReprocessing`. The reason a verified order cannot be selected again is in
  `VerifiedDropped`. The quorum `Q1` that selected the order held it, and none of
  its agents will be handed it again. The quorum `Q2` that completes the next
  `SelectOrdersRound` has removed it before it voted. So the agents in the
  intersection of `Q1` and `Q2` neither hold it nor can get it back, and a third
  quorum that votes for it would contain one of them. `ListsDistinct`,
  `VotesReceived` and `ProcessingHeld` carry the facts this needs from round to
  round. `MaxCopies = 1` cannot be left out: see Further divergences.
* `PostedByQuorum`: `MaxCopies = 1 => (Spec => []PostedHeld)`. What is posted, or
  still on its way to the API, was handed to a quorum (`ProcessingHeld` of `DropInv`
  holds when the keeper posts, and `received` never goes down).
* `ImplementsForwarding`: `MaxCopies = 1 => (Spec => ForwardsOrders)`, from the same
  invariants, one step of the abstract specification (or none) for each action.
* `NothingLost`: `"restart" \notin FaultKinds => (Spec => []NoOrderLost)`, by
  `LostInv`: only `remove_order` shortens a list, and only by `verified`, which is
  `done`. It holds for any `MaxCopies`: the removal of one copy of an order that was
  verified leaves the property alone, since the order is in `done` for good.
* `PausesWhenDone`: the same hypothesis and `MaxCopies # 0` give
  `FullListsSpec => [](NoOrderLost /\ PauseOnlyWhenDone)`. `FullListsSpec` starts with
  all orders in each list, in any sequence. `PauseInv` adds that an agent votes for
  an empty list only when all orders are done (`EmptyListVotes`): it was handed all,
  and `NoOrderLost` says where they are. A quorum is not empty, so the pause needs
  such a vote. Both exclude restarts because a restart empties the list; with
  `MaxCopies = 0` no list could hold an order from the start.
* `EmptyListsHonest`: without restarts `Spec => EmptyListHonest`, from empty lists and
  with orders that arrive in any step. It is what `PauseOnlyWhenDone` rests on, one
  vote at a time: the agent that reports an empty list knows of no order that is not
  verified. It follows from `NoOrderLost` before and after the step. No run checks it.

`OrderMonitoringProofs` proves for any owners, parameters, roots and transactions
that satisfy `MonitoringAssumption`:

* `MonitoringInvariant`: `Spec => []MonitoringInv`;
* `EntriesHandedOverAtMostOnce`: `Spec => []EntryHandedOverOnce`, for the entries of the
  registry with their local ids. It needs that at most one request is outstanding
  (`OneRequest`), that an id belongs to one order of one owner (`IdsUnique`), that a
  request agrees with the registry on owners (`PendingMatchesRegistry`), since the
  handler removes an order from its owner's list only, and that neither holds an id
  that was handed over (`NotYetHanded`).
* `MonitoringTypes`: its part about types.
* `OrdersAccountedFor`: `Spec => []NoOrderVanishes`. It is inductive together with
  the uniqueness of ids: each handler moves an id from the registry to one of the
  sets the property names, and none is reused.
* `ImplementsHandover`: `Spec => HandsOverOrders`, from `MonitoringInv` and
  `AnnouncedOnly`, with one lemma for each handler. `HandleEvents` is the step that
  needs work: it registers several orders of several owners at once and may flush
  others, and `AfterEventsContents` says what each owner's entry contains afterwards.
  `HandleTradeable` needs `OneRequest` and `IdsUnique`.
* `ReadyOrdersAnnounced`: `Spec => []OrdersFromChain`, by `AnnouncedOnly`. The list of
  ready orders is filled from an answer, the answer copies the registry of the time
  of the request, the registry is filled from the events of a transaction, and a
  notification is of a transaction that was mined: the invariant says at each of
  these places that the order is announced.
* `ReadyAtMostOnce`: `EventsOnce => (Spec => []ReadyOnce)`. What holds of entries holds
  of conditional orders only if none is registered twice, and the code does nothing
  for this (`monitoring_duplicates`). `EventsOnce` are conditions outside of the code
  that suffice: the connection is never lost, each transaction announces one order and
  sets no root, and no two announce the same. Restarts, failed requests and any order
  of answers are allowed. The invariant `OnceInv` adds that there is one subscription
  at most (`SubscriptionFree`), that a transaction is notified and asked about once,
  before its order is registered (`ProcessedOnce`), and that an order has one entry in
  registry and request, and none once it is ready (`OneEntry`).
* `SubscribesOnce`: `"disconnect" \notin FaultKinds => (Spec => []SubscribedOnce)`, by
  `SubscriptionFree`: while a call is still to be made there is none, and no
  subscription. No run checks this property and the one before, since a disconnection
  breaks both.
* `InFlightIsExact`: `"ledger_error" \notin FaultKinds => (Spec => []InFlightExact)`.
  The hypothesis is the finding `monitoring_ledger_error` turned around.

`OrderUidsProofs` proves, for any lengths, any base above 1, any owners, receivers,
chains and struct hashes that satisfy `UidAssumption` and `HashAssumption`:

* `UidsRoundTrip`: `Spec => []UidRoundTrip`. `NumberRoundTrip` is the arithmetic (four
  divisions with remainder recover a number below the fourth power of the base),
  `PackRoundTrip` cuts the bytes at the right places, `HexRoundTrip` turns the string
  of digits back into bytes. The string is longer than a uid, so it is rejected.
* `ExpectedUidsAccepted`: `Spec => []ExpectedUidAccepted`. By `SameUid` the strings of
  the posted entry make the same message as the hashes of the chain's order, so the
  two hashes agree by `HashAssumption`. `UidInv` carries this through the steps.
* `UidsIdentifyOrders`: two orders with the same uid are of one chain and one owner and
  agree in all that `normalize_order` keeps. `CowOrders` and `Watchtower` take a uid
  for its order; this is why they may. The balance of the buy side is not kept, so
  two orders that differ in nothing else have one uid.
* `DictOrderIrrelevant`: `hash_domain` gives two dicts with the same names the same
  hash, in whatever order they were filled and for any struct hash. The part of
  `StandardDomains` about the order of the dict, without a bound.

`TwapOrdersProofs` proves for any orders, types, times and numbers of failures:

* `PollInvariant` and `PollTypes`: `Spec => []PollInv`, `[]TypeOK`.
* `AnswersWellFormed`: `[]AnswerWellFormed`. `RequestInRegistry` says that only an
  answer takes orders out of the registry, `CurrentOnItsWay` that the order which is
  looked at is neither waiting nor listed.
* `OnePartPerRegistration`: `[]PartsHanded`. Ids are fresh, and an entry that was
  handed over or dropped (`Gone`) is not in the registry again (`PartsOnTheirWay`), and
  so in no request. So each registration ends at most once, with one part or
  with a drop. It is not a statement about orders: `Register` may add an order again.
* `OnlyExpiredDropped`: `StartsNotEarly => (Spec => []DroppedOnlyIfExpired)`.
  `StartsNotEarly` says that `get_start_timestamp` gives no order a start before the
  contract's; both kinds of orders in `twap_safety` satisfy it, those in `twap_mixed`
  do not. Blocks may arrive between the calls: time only makes an order more expired.
* `DroppedNeverTradeable`: under the same hypothesis the contract would find a dropped
  order tradeable at no later time.

`WatchtowerProofs` proves for any agents, quorums, conditional orders and parts that
satisfy the assumptions of `CowOrders` and `Watchtower`:

* `MonitoringKeepsPromise`: `Notices =< MaxCopies => (WatchSpec => RunsRounds)`. The
  invariant `MonitorInv` counts: what an agent was handed of an order, holds in its
  registry and still asks for is never more than the notices. So each
  `HandleTradeable` is a `TradeableOrder` that `CowOrders` allows, and all other
  steps of the monitoring, `DropOrder` among them, leave the rounds alone.
* `ServiceNeverReprocesses` and `OnePartOnly`: with one notice and `MaxCopies = 1`
  no verified order is processed again, and of a conditional order no two parts are.
  The quorum that selected one part was handed it (`DoneHeld`), a quorum for another
  part would have an agent in common with it, and this agent would have been handed
  two parts, which `PartsBounded` excludes.
* `BookkeepingHolds`: the invariant itself.
* `ServiceForwards`: with at most one notice and `MaxCopies = 1`, `WatchSpec =>
  ForwardsOrders /\ []VerifiedInBook`: `MonitoringKeepsPromise` composed with the
  refinement of the rounds.
* `OnlyMinedPosted`: under the same hypotheses what is in the API's book is a part of
  a conditional order that was mined, from `PostedHeld` and `MonitorInv`.

`HealthCheckProofs` proves for all parameters:

* `AgesHold`: `Spec => []HealthInv`; while nothing is late, the round is as old as
  the transition that led to it and past its timeout by less than a block.
* `NeverFalseAlarm`: `Configured => (Spec => []NoFalseAlarm)`.

`DocHashesProofs` proves, for any files, commands, registries and releases:

* `TwoFixesLeaveNoneStale`: `HashSpec => []TwoFixesSuffice`;
* `ChecksAreTruthful`: `HashSpec => []CheckTruthful`.

Both follow from `HashInv`. A run works on the commands as they were when the file
was read, while its own replacements change the file. `Waiting` relates a command of
the file with what was read: they differ in the hash at most, only in a run with
`--fix`, and a command without flags, or any command of a second run, is current by
then. `Passed` is what holds of commands behind the run: in a first run with `--fix`
all are found, and those without flags are current (only the same command replaces
them, `FixedOnce`). A second run finds the commands without flags current, so it
replaces none of them, and no longer command by mistake. A release sets `fixes`
back.

`ScriptProofs` proves `FirstYearStays`: `HeaderSpec => StartYearKept`, for
any years. `Orderly(s)` is the state after a header was in order: its first year is
`s`, and its end, if it has one, is neither before `s` nor after the last
modification. Years do not go back, so `fix_header` never takes the branch that writes
another first year.

It also proves `OkMeansExamined`: `LinkSpec => []LinksExamined`, for any
documentation and any number of threads. Each task has noted the links without TLS it
has passed (`PassedNoted`), and a task that is done has passed all (`EndedExamined`).

The specifications `HashSpec`, `HeaderSpec` and `LinkSpec` are those of one script by
itself; `MCChecks` checks the same actions.

Only model-checked:

* liveness, which is out of the prover's reach: `EveryOrderVerified`, `AskedAgain`,
  `SubscribedAgain`, `MinedForwarded`, `StuckReported`, `EveryRequestAnswered`,
  `HeaderSettles`, `LinkCheckEnds`;
* `StandardDigests`, `StandardDomains` and `DigestsIdentify`, and with them
  `HashAssumption`: `TypedData` declares RECURSIVE operators (the code recurses over
  types and values), and the prover has no induction over data; it and
  `TypedDocuments` have no theorems for this reason.

## Not modelled

* Registration, termination and the error exit of the reset (framework apps), and
  the votes of the two framework rounds: their code is not in the repository.
* `sig_utils/utils.py`, except `sha3`: a copy of library helpers for keys, addresses
  and hexadecimal strings that nothing in the system calls.
* ABI decoding and packing of words: the libraries do it; the models keep values.
* Dialogues, payload classes, handlers that only rename framework classes, and
  configuration, which have no behaviour of their own. What configuration decides is
  in the constants.
* `scripts/freeze_dependencies.py`: prints the output of `pip freeze`.
* Of the other scripts, the regular expressions, the filters of files and the
  printed reports.

`PROJECT.json` lists the parts with their status.

## Plan

The order follows the importance for the service: the rounds and the agents' lists
first, then what fills the lists, then their composition, the data, the health check
and the scripts. All planned modules are done, and each safety property that a run
checks is proved where the prover can reach it. What is left:

1. `Watchtower`'s part of one agent as an abstraction of `OrderHandover`, which
   `OrderMonitoring` implements. `Watchtower` counts the registry's entries of an
   order and lets one answer be about one order, so one step of the detailed model is
   several of its own; today this is a matter of reading both.
2. Weaker hypotheses: `EmptyListsHonest` covers the votes of agents that are handed
   orders while the rounds run; the pause itself (`PausesWhenDone`) is proved for
   full lists only.
