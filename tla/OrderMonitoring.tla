--------------------------- MODULE OrderMonitoring ---------------------------
(***************************************************************************)
(* The skill order_monitoring of one agent: it subscribes to the events of *)
(* the ComposableCoW contract over a websocket, keeps a registry of the    *)
(* conditional orders the events announce, asks the contract again and     *)
(* again which of them can be traded, and hands those over to the rounds   *)
(* in the list of ready orders.                                            *)
(*                                                                         *)
(* All state is memory of the agent process.  The websocket client, the    *)
(* ledger connection and the chain are the environment; the framework ends *)
(* the process at the first exception of a handler (skill_exception_policy *)
(* stop_and_exit) and the cluster starts it again.                         *)
(*                                                                         *)
(* The lists of the registry are sets here: nothing depends on their order *)
(* but the order in which one answer's orders become ready, which is left  *)
(* open.                                                                   *)
(***************************************************************************)
EXTENDS Integers, SequencesExt

CONSTANTS
  \* Owners of conditional orders, their parameters, and merkle roots.
  Owners, Params, Roots,
  \* The transactions that emit events of the contract.
  Txs,
  \* Created[t]: the ConditionalOrderCreated events of transaction t, in order,
  \* each [owner, params].
  Created,
  \* RootSet[t]: its MerkleRootSet event [owner, root, orders] with the parameters
  \* of the orders below the root, or None.
  RootSet,
  \* The transactions whose MerkleRootSet event has the keys merkleRoot and orders
  \* that the handler reads.  The contract's own events have root and proof instead.
  RootKeysMatch,
  \* use_polling of the skill's parameters.
  UsePolling,
  \* The kinds of faults that may happen, a subset of Faults, how many of them,
  \* and how many conditional orders are ever registered.
  FaultKinds, MaxFaults, MaxIds,
  \* Stands for Python's None.
  None

\* "unseen_loss": a connection that was lost is there again before act() looks.
Faults == {"disconnect", "unseen_loss", "restart", "ledger_error", "rpc_error"}

Ids == 1..MaxIds

\* Parameters as an event carries them (a mapping), and as the registry keeps them
\* (the dataclass ConditionalOrderParamsStruct).  Python never takes one for equal
\* to the other.
Mapping(p) == [type |-> "mapping", value |-> p]
ParamsStruct(p) == [type |-> "struct", value |-> p]

ConditionalOrder ==
  [id : Ids, params : {ParamsStruct(p) : p \in Params}, root : Roots \cup {None}]

\* An order of the CoW Protocol, as far as the conditional order determines it.
DiscreteOrder == [owner : Owners, params : Params]

ASSUME MonitoringAssumption ==
  /\ None \notin Roots
  /\ \A t \in Txs : Created[t] \in Seq([owner : Owners, params : Params])
  /\ \A t \in Txs :
       RootSet[t] \in [owner : Owners, root : Roots, orders : Seq(Params)] \cup {None}
  /\ UsePolling \in BOOLEAN /\ RootKeysMatch \subseteq Txs
  /\ FaultKinds \subseteq Faults
  /\ MaxFaults \in Nat /\ MaxIds \in Nat

VARIABLES
  registry,       \* shared_state["orders"]: owner -> conditional orders
  ready,          \* shared_state["ready_orders"]
  inFlight,       \* params.in_flight_req
  required,       \* MonitoringBehaviour._subscription_required
  connected,      \* is_connected of the websocket client
  envelopes,      \* eth_subscribe calls the client has not sent yet
  sent,           \* those sent in the current websocket session, not answered yet
  subscriptions,  \* subscriptions of the current websocket session
  inbox,          \* notifications the websocket handler has not handled yet
  eventRequests,  \* process_order_events requests without an answer
  polls,          \* get_tradeable_order requests without an answer
  mined,          \* transactions on the chain
  nextId,         \* the id the next conditional order gets
  handed,         \* how often an id was handed over to ready (history)
  gone,           \* ids dropped, flushed or lost with the process (history)
  faults          \* how many faults have happened

agentVars == <<registry, ready, inFlight, required>>
socketVars == <<connected, envelopes, sent, subscriptions, inbox>>
ledgerVars == <<eventRequests, polls>>
historyVars == <<nextId, handed, gone>>
vars == <<agentVars, socketVars, ledgerVars, mined, historyVars, faults>>

Registered(reg) == UNION {reg[w] : w \in DOMAIN reg}

IdsOf(orders) == {c.id : c \in orders}

\* Faulty variant of Snapshot: every owner with every order.
SnapshotMixed ==
  {[owner |-> w, id |-> c.id, params |-> c.params.value] :
     w \in DOMAIN registry, c \in Registered(registry)}

\* What _check_orders_are_tradeable sends to the contract.
Snapshot ==
  UNION {{[owner |-> w, id |-> c.id, params |-> c.params.value] : c \in registry[w]}
          : w \in DOMAIN registry}

SnapshotEntry == [owner : Owners, id : Ids, params : Params]

FlagsOK ==
  inFlight \in BOOLEAN /\ required \in BOOLEAN /\ connected \in BOOLEAN

DataOK ==
  /\ DOMAIN registry \subseteq Owners
  /\ \A w \in DOMAIN registry : registry[w] \subseteq ConditionalOrder
  /\ ready \in Seq(DiscreteOrder)
  /\ envelopes \in Nat /\ sent \in Nat /\ subscriptions \in Nat
  /\ inbox \in [Txs -> Nat]
  /\ eventRequests \in [Txs -> Nat]
  /\ polls \in Seq(SUBSET SnapshotEntry)
  /\ mined \subseteq Txs
  /\ nextId \in 1..(MaxIds + 1)
  /\ handed \in [Ids -> Nat]
  /\ gone \subseteq Ids
  /\ faults \in 0..MaxFaults

TypeOK == FlagsOK /\ DataOK

Fault(kind) ==
  /\ kind \in FaultKinds
  /\ faults < MaxFaults
  /\ faults' = faults + 1

-----------------------------------------------------------------------------
(* Start and end of the agent process *)

EmptyRegistry == [w \in {} |-> {}]

\* The setup of the handlers and the behaviour.  Whether the websocket is connected
\* by then is open.
Init ==
  /\ registry = EmptyRegistry
  /\ ready = <<>>
  /\ inFlight = FALSE
  /\ required = TRUE
  /\ connected \in BOOLEAN
  /\ envelopes = 0
  /\ sent = 0
  /\ subscriptions = 0
  /\ inbox = [t \in Txs |-> 0]
  /\ eventRequests = [t \in Txs |-> 0]
  /\ polls = <<>>
  /\ mined = {}
  /\ nextId = 1
  /\ handed = [i \in Ids |-> 0]
  /\ gone = {}
  /\ faults = 0

\* The process ends and is started again: its memory, its queues and the websocket
\* session are gone.  No code writes the disconnection point or reads old events.
Exit ==
  /\ registry' = EmptyRegistry
  /\ ready' = <<>>
  /\ inFlight' = FALSE
  /\ required' = TRUE
  /\ connected' \in BOOLEAN
  /\ envelopes' = 0
  /\ sent' = 0
  /\ subscriptions' = 0
  /\ inbox' = [t \in Txs |-> 0]
  /\ eventRequests' = [t \in Txs |-> 0]
  /\ polls' = <<>>
  /\ gone' = gone \cup IdsOf(Registered(registry))
  /\ UNCHANGED <<mined, nextId, handed>>

Restart == Fault("restart") /\ Exit

-----------------------------------------------------------------------------
(* MonitoringBehaviour *)

\* Faulty variant of DoSubscription: the flag is not set again when the connection is lost.
DoSubscriptionForgets ==
  /\ envelopes' = IF ~UsePolling /\ connected /\ required THEN envelopes + 1 ELSE envelopes
  /\ required' = (UsePolling /\ required)

\* _do_subscription: subscribe if the connection needs it.  The handlers set
\* disconnection_point to None and nothing ever changes it: the branches that ask for
\* missed events (eth_newFilter) are not reached.
DoSubscription ==
  IF UsePolling
  THEN UNCHANGED <<required, envelopes>>
  ELSE /\ envelopes' = IF connected /\ required THEN envelopes + 1 ELSE envelopes
       /\ required' = ~connected

\* Faulty variant of CheckOrdersAreTradeable: it polls while a request is in flight.
CheckOrdersAlways ==
  IF Snapshot = {} \/ Len(polls) > 1
  THEN UNCHANGED <<inFlight, polls>>
  ELSE inFlight' = TRUE /\ polls' = Append(polls, Snapshot)

\* Poll the contract about all conditional orders, unless there are none or a request is
\* in flight.
CheckOrdersAreTradeable ==
  IF inFlight \/ Snapshot = {}
  THEN UNCHANGED <<inFlight, polls>>
  ELSE inFlight' = TRUE /\ polls' = Append(polls, Snapshot)

Act ==
  /\ DoSubscription
  /\ CheckOrdersAreTradeable
  /\ UNCHANGED <<registry, ready, connected, sent, subscriptions, inbox, eventRequests,
                 mined, historyVars, faults>>

-----------------------------------------------------------------------------
(* The websocket client and WebSocketHandler *)

\* The client sends a waiting eth_subscribe call.
SendEnvelope ==
  /\ connected
  /\ envelopes > 0
  /\ envelopes' = envelopes - 1
  /\ sent' = sent + 1
  /\ UNCHANGED <<agentVars, connected, subscriptions, inbox, ledgerVars, mined,
                 historyVars, faults>>

\* The node subscribes the session and confirms the call; the handler ignores the
\* confirmation.
Subscribe ==
  /\ sent > 0
  /\ sent' = sent - 1
  /\ subscriptions' = subscriptions + 1
  /\ UNCHANGED <<agentVars, connected, envelopes, inbox, ledgerVars, mined,
                 historyVars, faults>>

\* The node answers the call with an error: a message with the keys id, error and
\* jsonrpc has no params, and the handler raises KeyError.
SubscribeRejected ==
  /\ sent > 0
  /\ Fault("rpc_error")
  /\ Exit

\* The session ends with its subscriptions and the calls that have no answer yet.
Disconnect ==
  /\ connected
  /\ Fault("disconnect")
  /\ connected' = FALSE
  /\ sent' = 0
  /\ subscriptions' = 0
  /\ UNCHANGED <<agentVars, envelopes, inbox, ledgerVars, mined, historyVars>>

NewSession ==
  /\ ~connected
  /\ connected' = TRUE
  /\ UNCHANGED <<agentVars, envelopes, sent, subscriptions, inbox, ledgerVars, mined,
                 historyVars>>

\* The client is connected again after act() has seen that it was not.
Reconnect == required /\ NewSession /\ UNCHANGED faults

\* The client is connected again before act() has looked at the connection.
ReconnectUnseen == ~required /\ NewSession /\ Fault("unseen_loss")

\* A transaction is mined.  The topic of the subscription is ConditionalOrderCreated:
\* each such event is notified once for each subscription.
Mine(t) ==
  /\ t \notin mined
  /\ mined' = mined \cup {t}
  /\ inbox' = [inbox EXCEPT ![t] = @ + subscriptions * Len(Created[t])]
  /\ UNCHANGED <<agentVars, connected, envelopes, sent, subscriptions, ledgerVars,
                 historyVars, faults>>

\* Each notification makes the handler ask for all events of its transaction.
HandleNotification(t) ==
  /\ inbox[t] > 0
  /\ inbox' = [inbox EXCEPT ![t] = @ - 1]
  /\ eventRequests' = [eventRequests EXCEPT ![t] = @ + 1]
  /\ UNCHANGED <<agentVars, connected, envelopes, sent, subscriptions, polls, mined,
                 historyVars, faults>>

-----------------------------------------------------------------------------
(* ContractHandler: events *)

\* What the handler passes to _add_contract for the events of t, in order.
CreatedOrders(t) ==
  [i \in 1..Len(Created[t]) |->
     [owner |-> Created[t][i].owner, params |-> Created[t][i].params, root |-> None]]

RootOrders(t) ==
  LET e == RootSet[t]
  IN  [i \in 1..Len(e.orders) |->
         [owner |-> e.owner, params |-> e.orders[i], root |-> e.root]]

\* The check of _add_contract for orders[i]: the params of the registered orders,
\* those of the earlier orders[j] included, are structs and its own are a mapping.
Exists(reg, orders, i) ==
  \/ /\ orders[i].owner \in DOMAIN reg
     /\ \E c \in reg[orders[i].owner] : c.params = Mapping(orders[i].params)
  \/ \E j \in 1..(i - 1) :
       /\ orders[j].owner = orders[i].owner
       /\ ParamsStruct(orders[j].params) = Mapping(orders[i].params)

\* _add_contract for one order after the other; the i-th gets the id first + i - 1.
AddContracts(reg, orders, first) ==
  [w \in DOMAIN reg \cup {orders[i].owner : i \in 1..Len(orders)} |->
     (IF w \in DOMAIN reg THEN reg[w] ELSE {})
       \cup {[id |-> first + i - 1,
              params |-> ParamsStruct(orders[i].params),
              root |-> orders[i].root] :
              i \in {n \in 1..Len(orders) :
                       orders[n].owner = w /\ ~Exists(reg, orders, n)}}]

\* _flush_contracts raises for an owner that is not in the registry and for an order
\* without a proof ...
FlushFails(reg, owner) ==
  owner \in DOMAIN reg => \E c \in reg[owner] : c.root = None

\* ... and keeps the orders whose root is not the new one.
FlushContracts(reg, owner, root) ==
  [reg EXCEPT ![owner] = {c \in @ : c.root # root}]

\* How many ids the events of t take.
Additions(t) ==
  Len(Created[t]) + (IF RootSet[t] = None THEN 0 ELSE Len(RootSet[t].orders))

EventsAnswered(t) ==
  /\ eventRequests[t] > 0
  /\ nextId + Additions(t) =< MaxIds + 1

AfterCreated(t) == AddContracts(registry, CreatedOrders(t), nextId)

AfterEvents(t) ==
  IF RootSet[t] = None
  THEN AfterCreated(t)
  ELSE AddContracts(FlushContracts(AfterCreated(t), RootSet[t].owner, RootSet[t].root),
                    RootOrders(t), nextId + Len(Created[t]))

\* A MerkleRootSet event makes the handler raise KeyError or AttributeError.
RootSetFails(t) ==
  /\ RootSet[t] # None
  /\ t \in RootKeysMatch => FlushFails(AfterCreated(t), RootSet[t].owner)

\* The ids that the root set in t flushes.
FlushedIds(t) ==
  IF RootSet[t] = None
  THEN {}
  ELSE {c.id : c \in {d \in AfterCreated(t)[RootSet[t].owner] : d.root = RootSet[t].root}}

\* The handler registers the created orders and applies the root that was set.
HandleEvents(t) ==
  /\ EventsAnswered(t)
  /\ ~RootSetFails(t)
  /\ registry' = AfterEvents(t)
  /\ nextId' = nextId + Additions(t)
  /\ gone' = gone \cup FlushedIds(t)
  /\ eventRequests' = [eventRequests EXCEPT ![t] = @ - 1]
  /\ UNCHANGED <<ready, inFlight, required, socketVars, polls, mined, handed, faults>>

HandleEventsFails(t) ==
  /\ EventsAnswered(t)
  /\ RootSetFails(t)
  /\ Exit
  /\ UNCHANGED faults

\* An answer with another performative than STATE is logged and dropped.
HandleEventsError(t) ==
  /\ eventRequests[t] > 0
  /\ Fault("ledger_error")
  /\ eventRequests' = [eventRequests EXCEPT ![t] = @ - 1]
  /\ UNCHANGED <<agentVars, socketVars, polls, mined, historyVars>>

-----------------------------------------------------------------------------
(* ContractHandler: tradeable orders *)

\* Faulty variants of Without: the answered orders stay, or all orders of their
\* owners go.
WithoutKept(entries) == registry

WithoutOwners(entries) ==
  [w \in DOMAIN registry \cup {e.owner : e \in entries} |->
     IF \E e \in entries : e.owner = w THEN {} ELSE registry[w]]

\* The registry without the given entries of a snapshot; an owner without an entry
\* in the registry gets one.
Without(entries) ==
  [w \in DOMAIN registry \cup {e.owner : e \in entries} |->
     IF w \in DOMAIN registry
     THEN {c \in registry[w] : \A e \in entries : e.owner = w => c.id # e.id}
     ELSE {}]

\* The tradeable orders are handed over to the rounds; they and the expired ones leave
\* the registry.
HandOver(tradeable, expired) ==
  /\ registry' = Without(ToSet(tradeable) \cup expired)
  /\ ready' = ready \o [n \in 1..Len(tradeable) |->
                          [owner |-> tradeable[n].owner, params |-> tradeable[n].params]]
  /\ handed' = [n \in Ids |-> handed[n] + IF n \in IdsOf(ToSet(tradeable)) THEN 1 ELSE 0]
  /\ gone' = gone \cup IdsOf(expired)
  /\ UNCHANGED <<required, socketVars, eventRequests, mined, nextId, faults>>

\* Faulty variants of HandleTradeable: in_flight_req stays set, always or if nothing is
\* tradeable.
HandleTradeableStillInFlight(i, tradeable, expired) ==
  HandOver(tradeable, expired) /\ polls' = RemoveAt(polls, i) /\ UNCHANGED inFlight

HandleTradeableReturnsEarly(i, tradeable, expired) ==
  /\ HandOver(tradeable, expired)
  /\ polls' = RemoveAt(polls, i)
  /\ inFlight' = (tradeable = <<>>)

\* The contract has found some orders of the snapshot tradeable and some expired, and
\* has skipped the rest.
HandleTradeable(i, tradeable, expired) ==
  /\ HandOver(tradeable, expired)
  /\ polls' = RemoveAt(polls, i)
  /\ inFlight' = FALSE

HandleSomeTradeable ==
  \E i \in 1..Len(polls) :
    \E n \in 0..MaxIds :
      \E tradeable \in {s \in [1..n -> polls[i]] : IsInjective(s)} :
        \E expired \in SUBSET (polls[i] \ ToSet(tradeable)) :
          HandleTradeable(i, tradeable, expired)

\* An answer with another performative than STATE: the handler returns before it
\* could clear in_flight_req.
HandleTradeableError(i) ==
  /\ Fault("ledger_error")
  /\ polls' = RemoveAt(polls, i)
  /\ UNCHANGED <<agentVars, socketVars, eventRequests, mined, historyVars>>

-----------------------------------------------------------------------------
Next ==
  \/ Act
  \/ SendEnvelope
  \/ Subscribe
  \/ SubscribeRejected
  \/ Disconnect
  \/ Reconnect
  \/ ReconnectUnseen
  \/ Restart
  \/ \E t \in Txs :
       \/ Mine(t)
       \/ HandleNotification(t)
       \/ HandleEvents(t)
       \/ HandleEventsFails(t)
       \/ HandleEventsError(t)
  \/ HandleSomeTradeable
  \/ \E i \in 1..Len(polls) : HandleTradeableError(i)

Spec == Init /\ [][Next]_vars

(* Fairness: the behaviour acts again and again, the multiplexer delivers what is in *)
(* its queues, the node and the ledger connection answer every call, and the client   *)
(* reconnects.  Faults and the chain are not fair.                                   *)
Fairness ==
  /\ WF_vars(Act)
  /\ WF_vars(SendEnvelope)
  /\ WF_vars(Subscribe)
  /\ WF_vars(Reconnect)
  /\ WF_vars(HandleSomeTradeable)
  /\ \A t \in Txs :
       WF_vars(HandleNotification(t)) /\ WF_vars(HandleEvents(t) \/ HandleEventsFails(t))

FairSpec == Spec /\ Fairness

=============================================================================
