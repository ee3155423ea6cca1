---------------------- MODULE OrderMonitoringProperties ----------------------
(***************************************************************************)
(* The properties of OrderMonitoring.                                      *)
(***************************************************************************)
EXTENDS OrderMonitoring, FiniteSets

RegisteredIds == IdsOf(Registered(registry))

\* The entries of requests that have no answer yet.
Pending == UNION {polls[n] : n \in 1..Len(polls)}

\* An entry of the registry, that is one registration with its local id, is handed
\* over to the rounds at most once, although the handler applies an answer to a
\* registry that has changed since the request (_handle_get_tradeable_order).  This
\* says nothing of conditional orders: one that is registered twice has two entries
\* (KnownParamsOnce), and ReadyOnce says when none is.
EntryHandedOverOnce == \A i \in Ids : handed[i] =< 1

\* The answer to get_tradeable_order touches only the entries it is about: every
\* entry that was ever registered is still in the registry, was handed over, or was
\* dropped as expired, flushed with a root or lost with the process.  It says nothing of
\* which entries a flush should take (_flush_contracts takes the wrong ones).
NoOrderVanishes ==
  \A i \in 1..(nextId - 1) : i \in RegisteredIds \cup gone \/ handed[i] > 0

\* What is handed over was announced on the chain, with the same owner: the owner
\* travels from the event to the registry, from there into the request and back.
AnnouncedBy(t) ==
  {[owner |-> e.owner, params |-> e.params] :
     e \in ToSet(Created[t])
       \cup (IF RootSet[t] = None THEN {} ELSE ToSet(RootOrders(t)))}

Announced == UNION {AnnouncedBy(t) : t \in mined}

OrdersFromChain ==
  ToSet(ready) \subseteq Announced

\* The registry as a set of entries.
Entry(owner, c) ==
  [owner |-> owner, id |-> c.id, params |-> c.params.value, root |-> c.root]

Entries == UNION {{Entry(w, c) : c \in registry[w]} : w \in DOMAIN registry}

Handover == INSTANCE OrderHandover WITH
  announced <- Announced,
  known <- Entries,
  next <- nextId,
  asked <- Pending,
  handed <- {i \in Ids : handed[i] > 0}

\* The monitoring implements the abstract handover: whatever events, faults and
\* restarts come between a question to the contract and its answer, an entry is
\* handed over at most once, as the announced order it was registered for, and is
\* lost only if it expires, is flushed with its root, or the process ends.
HandsOverOrders == Handover!Spec

\* in_flight_req is set exactly while one answer is outstanding.
InFlightExact == /\ Len(polls) =< 1
                 /\ inFlight <=> polls # <<>>

\* The contract is asked again and again about each order in the registry.
AskedAgain ==
  \A i \in Ids : []<>(i \in IdsOf(Pending) \/ i \notin RegisteredIds)

\* An agent that has lost its subscription has one again in the end, even if the
\* connection ends after a call was sent and before the node has answered it: act()
\* sees that the connection is missing and asks for another call (_do_subscription).
SubscribedAgain == []<>(subscriptions > 0)

\* "we only subscribe once, because the envelope will remain in the multiplexer until
\* handled" (_do_subscription): there is never more than one call or subscription, and
\* each event is notified once.
SubscribedOnce == envelopes + sent + subscriptions =< 1

\* "Iterate over the conditionalOrder to make sure that the params are not already in
\* the registry" (_add_contract): an owner's orders in the registry differ in their
\* params, however often the events of a transaction are processed.
KnownParamsOnce ==
  \A w \in DOMAIN registry : \A c, d \in registry[w] : c.params = d.params => c = d

\* No conditional order is twice in the list of ready orders, so that the rounds do not
\* process it again after it was verified.  Nothing in the code checks for this: it
\* needs each event to be notified once and each transaction to be processed once.
ReadyOnce == IsInjective(ready)

-----------------------------------------------------------------------------
(* The inductive invariant: first its parts behind EntryHandedOverOnce. *)

\* At most one request is outstanding, and then in_flight_req is set.
OneRequest ==
  /\ Len(polls) =< 1
  /\ polls # <<>> => inFlight

\* Owners and orders have their types; an id belongs to one order of one owner and
\* is below n.
RegistryOK(reg, n) ==
  /\ DOMAIN reg \subseteq Owners
  /\ reg = [w \in DOMAIN reg |-> reg[w]]
  /\ \A w \in DOMAIN reg : \A c \in reg[w] : c \in ConditionalOrder /\ c.id < n
  /\ \A v, w \in DOMAIN reg : \A c \in reg[v], d \in reg[w] :
       c.id = d.id => v = w /\ c = d

IdsUnique == RegistryOK(registry, nextId)

\* A request names an order at most once, and under the owner it is registered with.
PendingMatchesRegistry ==
  /\ \A e \in Pending : e.id < nextId
  /\ \A e, f \in Pending : e.id = f.id => e = f
  /\ \A e \in Pending, w \in DOMAIN registry : \A c \in registry[w] :
       c.id = e.id => w = e.owner

\* Neither the registry nor a pending request has an id that was handed over.
NotYetHanded ==
  \A i \in Ids :
    (\/ i >= nextId
     \/ \E e \in Pending : e.id = i
     \/ \E w \in DOMAIN registry : \E c \in registry[w] : c.id = i)
      => handed[i] = 0

\* Its part behind OrdersFromChain: at each stage of their way to the list of ready
\* orders, orders are announced ones; only a mined transaction has events.
IsAnnounced(owner, params) == [owner |-> owner, params |-> params] \in Announced

AnnouncedOnly ==
  /\ \A w \in DOMAIN registry : \A c \in registry[w] :
       IsAnnounced(w, c.params.value)
  /\ \A e \in Pending : IsAnnounced(e.owner, e.params)
  /\ \A t \in Txs : inbox[t] > 0 \/ eventRequests[t] > 0 => t \in mined
  /\ OrdersFromChain

MonitoringInv ==
  /\ TypeOK
  /\ OneRequest
  /\ IdsUnique
  /\ PendingMatchesRegistry
  /\ NotYetHanded
  /\ EntryHandedOverOnce
  /\ NoOrderVanishes
  /\ AnnouncedOnly

-----------------------------------------------------------------------------
(* The inductive invariant behind SubscribedOnce and ReadyOnce, for connections that  *)
(* are never lost and transactions that announce one order each, all different.       *)

EventsOnce ==
  /\ "disconnect" \notin FaultKinds
  /\ \A t \in Txs : Len(Created[t]) =< 1 /\ RootSet[t] = None
  /\ \A t, u \in Txs : ToSet(Created[t]) \cap ToSet(Created[u]) # {} => t = u

\* While a call is required, or act() is about to require one, there is none.
SubscriptionFree ==
  /\ SubscribedOnce
  /\ required \/ ~connected => envelopes + sent + subscriptions = 0

\* The orders an agent has or asks about, by the ids of their entries.
EntryOf(i, o) ==
  \/ \E w \in DOMAIN registry : \E c \in registry[w] :
       c.id = i /\ o = [owner |-> w, params |-> c.params.value]
  \/ \E e \in Pending : e.id = i /\ o = [owner |-> e.owner, params |-> e.params]

\* A transaction is notified and asked about once, and before its order has an entry.
ProcessedOnce ==
  \A t \in Txs :
    /\ inbox[t] + eventRequests[t] =< 1
    /\ inbox[t] + eventRequests[t] = 1 =>
         \A o \in ToSet(Created[t]) :
           o \notin ToSet(ready) /\ \A i \in Ids : ~EntryOf(i, o)

\* An order has one entry, and none once it is ready.
OneEntry ==
  \A o \in DiscreteOrder :
    /\ \A i, j \in Ids : EntryOf(i, o) /\ EntryOf(j, o) => i = j
    /\ o \in ToSet(ready) => \A i \in Ids : ~EntryOf(i, o)

OnceInv == SubscriptionFree /\ ProcessedOnce /\ OneEntry /\ ReadyOnce

=============================================================================
