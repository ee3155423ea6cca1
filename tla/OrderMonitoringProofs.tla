------------------------ MODULE OrderMonitoringProofs ------------------------
(***************************************************************************)
(* Proofs about OrderMonitoring, for all owners, events and numbers of     *)
(* faults.                                                                 *)
(***************************************************************************)
EXTENDS OrderMonitoringProperties, TLAPS

-----------------------------------------------------------------------------
(* The registry *)

\* What _add_contract is called with.
OrderArgument == [owner : Owners, params : Params, root : Roots \cup {None}]

\* _add_contract adds orders with new ids only and keeps the others.
LEMMA AddContractsOK ==
  ASSUME NEW reg, NEW first \in Nat \ {0}, RegistryOK(reg, first),
         NEW orders \in Seq(OrderArgument), first + Len(orders) =< MaxIds + 1,
         MaxIds \in Nat
  PROVE  /\ RegistryOK(AddContracts(reg, orders, first), first + Len(orders))
         /\ \A w \in DOMAIN AddContracts(reg, orders, first) :
              \A c \in AddContracts(reg, orders, first)[w] :
                c.id >= first \/ (w \in DOMAIN reg /\ c \in reg[w])
<1> DEFINE new(i) == [id |-> first + i - 1,
                      params |-> ParamsStruct(orders[i].params),
                      root |-> orders[i].root]
           D == DOMAIN reg \cup {orders[i].owner : i \in 1..Len(orders)}
           added(w) == {new(i) : i \in {n \in 1..Len(orders) :
                          orders[n].owner = w /\ ~Exists(reg, orders, n)}}
           after == AddContracts(reg, orders, first)
<1>1. after = [w \in D |-> (IF w \in DOMAIN reg THEN reg[w] ELSE {}) \cup added(w)]
  BY DEF AddContracts
<1>2. Len(orders) \in Nat /\ \A i \in 1..Len(orders) : orders[i] \in OrderArgument
  OBVIOUS
<1>3. \A i \in 1..Len(orders) :
        /\ new(i) \in ConditionalOrder
        /\ new(i).id = first + i - 1
        /\ first + i - 1 >= first
        /\ first + i - 1 < first + Len(orders)
  <2> SUFFICES ASSUME NEW i \in 1..Len(orders)
               PROVE  /\ new(i) \in ConditionalOrder
                      /\ first + i - 1 >= first
                      /\ first + i - 1 < first + Len(orders)
    OBVIOUS
  <2>1. first + i - 1 \in Ids /\ first + i - 1 >= first
          /\ first + i - 1 < first + Len(orders)
    BY <1>2 DEF Ids
  <2>2. orders[i].root \in Roots \cup {None} /\ orders[i].params \in Params
    BY <1>2 DEF OrderArgument
  <2>3. ParamsStruct(orders[i].params) \in {ParamsStruct(p) : p \in Params}
    BY <2>2
  <2> QED
    BY <2>1, <2>2, <2>3 DEF ConditionalOrder
<1>4. \A w \in DOMAIN after : \A c \in after[w] :
        \/ w \in DOMAIN reg /\ c \in reg[w]
        \/ \E i \in 1..Len(orders) : orders[i].owner = w /\ c = new(i)
  BY <1>1
<1>5. DOMAIN after \subseteq Owners /\ after = [w \in DOMAIN after |-> after[w]]
  <2>1. DOMAIN after = D /\ after = [w \in DOMAIN after |-> after[w]]
    BY <1>1
  <2>2. D \subseteq Owners
    BY <1>2 DEF RegistryOK, OrderArgument
  <2> QED
    BY <2>1, <2>2
<1>6. \A w \in DOMAIN after : \A c \in after[w] :
        /\ c \in ConditionalOrder /\ c.id < first + Len(orders)
        /\ c.id >= first \/ (w \in DOMAIN reg /\ c \in reg[w])
  <2> SUFFICES ASSUME NEW w \in DOMAIN after, NEW c \in after[w]
               PROVE  /\ c \in ConditionalOrder /\ c.id < first + Len(orders)
                      /\ c.id >= first \/ (w \in DOMAIN reg /\ c \in reg[w])
    OBVIOUS
  <2>1. CASE w \in DOMAIN reg /\ c \in reg[w]
    BY <2>1, <1>2 DEF RegistryOK, ConditionalOrder, Ids
  <2>2. CASE \E i \in 1..Len(orders) : orders[i].owner = w /\ c = new(i)
    BY <2>2, <1>3, Zenon
  <2> QED
    BY <2>1, <2>2, <1>4
<1>7. ASSUME NEW v \in DOMAIN after, NEW w \in DOMAIN after,
             NEW c \in after[v], NEW d \in after[w], c.id = d.id
      PROVE  v = w /\ c = d
  <2>1. CASE (v \in DOMAIN reg /\ c \in reg[v]) /\ (w \in DOMAIN reg /\ d \in reg[w])
    BY <2>1, <1>7 DEF RegistryOK
  <2>2. CASE /\ \E i \in 1..Len(orders) : orders[i].owner = v /\ c = new(i)
             /\ \E i \in 1..Len(orders) : orders[i].owner = w /\ d = new(i)
    <3>1. PICK i \in 1..Len(orders) : orders[i].owner = v /\ c = new(i)
      BY <2>2
    <3>2. PICK j \in 1..Len(orders) : orders[j].owner = w /\ d = new(j)
      BY <2>2
    <3>3. first + i - 1 = first + j - 1
      BY <1>3, <1>7, <3>1, <3>2, Zenon
    <3>4. i = j
      BY <3>3, <1>2
    <3> QED
      BY <3>1, <3>2, <3>4
  <2>3. CASE /\ v \in DOMAIN reg /\ c \in reg[v]
             /\ \E i \in 1..Len(orders) : orders[i].owner = w /\ d = new(i)
    <3>1. d.id >= first
      BY <2>3, <1>3, Zenon
    <3>2. c.id < first /\ c.id \in Ids
      BY <2>3 DEF RegistryOK, ConditionalOrder
    <3> QED
      BY <3>1, <3>2, <1>7 DEF Ids
  <2>4. CASE /\ w \in DOMAIN reg /\ d \in reg[w]
             /\ \E i \in 1..Len(orders) : orders[i].owner = v /\ c = new(i)
    <3>1. c.id >= first
      BY <2>4, <1>3, Zenon
    <3>2. d.id < first /\ d.id \in Ids
      BY <2>4 DEF RegistryOK, ConditionalOrder
    <3> QED
      BY <3>1, <3>2, <1>7 DEF Ids
  <2> QED
    BY <2>1, <2>2, <2>3, <2>4, <1>4, ZenonT(60)
<1> QED
  BY <1>5, <1>6, <1>7, Zenon DEF RegistryOK

\* A registry with fewer orders, or with new owners without orders, stays in order.
LEMMA SmallerRegistryOK ==
  ASSUME NEW reg, NEW n \in Nat, NEW m \in Nat, n =< m, RegistryOK(reg, n), NEW small,
         small = [w \in DOMAIN small |-> small[w]],
         DOMAIN small \subseteq Owners,
         \A w \in DOMAIN small : \A c \in small[w] : w \in DOMAIN reg /\ c \in reg[w]
  PROVE  RegistryOK(small, m)
<1>1. \A w \in DOMAIN small : \A c \in small[w] : c \in ConditionalOrder /\ c.id < m
  BY DEF RegistryOK, ConditionalOrder, Ids
<1>2. \A v, w \in DOMAIN small : \A c \in small[v], d \in small[w] :
        c.id = d.id => v = w /\ c = d
  BY DEF RegistryOK
<1> QED
  BY <1>1, <1>2, Zenon DEF RegistryOK

-----------------------------------------------------------------------------
(* The parts of the invariant *)

RequestInv ==
  OneRequest /\ IdsUnique /\ PendingMatchesRegistry /\ NotYetHanded /\ EntryHandedOverOnce

\* RequestInv depends only on these variables.
LEMMA RequestInvKept ==
  ASSUME RequestInv, UNCHANGED <<registry, inFlight, polls, nextId, handed>>
  PROVE  RequestInv'
BY DEF RequestInv, OneRequest, IdsUnique, RegistryOK, PendingMatchesRegistry, Pending,
       NotYetHanded, EntryHandedOverOnce

\* A fault keeps the number of faults within its bound.
LEMMA FaultBound ==
  ASSUME TypeOK, NEW kind, Fault(kind)
  PROVE  faults' \in 0..MaxFaults
BY MonitoringAssumption DEF TypeOK, DataOK, Fault

\* With no outstanding request and an empty registry there is nothing to violate.
LEMMA NothingPending ==
  ASSUME TypeOK, polls = <<>>, registry = EmptyRegistry, EntryHandedOverOnce,
         \A i \in Ids : i >= nextId => handed[i] = 0
  PROVE  RequestInv
<1>1. Pending = {} /\ DOMAIN registry = {}
  BY DEF Pending, EmptyRegistry
<1>2. OneRequest
  BY DEF OneRequest
<1>3. IdsUnique
  BY <1>1 DEF IdsUnique, RegistryOK, EmptyRegistry
<1>4. PendingMatchesRegistry /\ NotYetHanded
  BY <1>1 DEF PendingMatchesRegistry, NotYetHanded
<1> QED
  BY <1>2, <1>3, <1>4 DEF RequestInv

\* The initial state.
LEMMA InitInv == Init => TypeOK /\ RequestInv
<1> SUFFICES ASSUME Init
             PROVE  TypeOK /\ RequestInv
  OBVIOUS
<1>1. FlagsOK
  BY Zenon DEF Init, FlagsOK
<1>2. DataOK
  BY MonitoringAssumption DEF Init, DataOK, EmptyRegistry, Ids
<1>3. EntryHandedOverOnce /\ \A i \in Ids : i >= nextId => handed[i] = 0
  BY DEF Init, EntryHandedOverOnce
<1>4. RequestInv
  <2>1. polls = <<>> /\ registry = EmptyRegistry
    BY DEF Init
  <2> QED
    BY <1>1, <1>2, <1>3, <2>1, NothingPending DEF TypeOK
<1> QED
  BY <1>1, <1>2, <1>4 DEF TypeOK

\* The end of the process loses the registry and the outstanding requests.
LEMMA ExitInv ==
  ASSUME TypeOK, RequestInv, Exit, faults' \in 0..MaxFaults
  PROVE  TypeOK' /\ RequestInv'
<1>1. gone' \subseteq Ids
  <2>1. \A w \in DOMAIN registry : \A c \in registry[w] : c.id \in Ids
    BY DEF TypeOK, DataOK, ConditionalOrder
  <2>2. IdsOf(Registered(registry)) \subseteq Ids
    BY <2>1 DEF IdsOf, Registered
  <2> QED
    BY <2>2 DEF Exit, TypeOK, DataOK
<1>2. TypeOK'
  <2>1. FlagsOK'
    BY Zenon DEF FlagsOK, Exit
  <2>2. DataOK'
    BY <1>1 DEF TypeOK, DataOK, Exit, EmptyRegistry
  <2> QED
    BY <2>1, <2>2 DEF TypeOK
<1>3. EntryHandedOverOnce' /\ (\A i \in Ids : i >= nextId => handed[i] = 0)'
  BY DEF RequestInv, EntryHandedOverOnce, NotYetHanded, Exit
<1>4. polls' = <<>> /\ registry' = EmptyRegistry
  BY DEF Exit
<1>5. OneRequest' /\ IdsUnique' /\ PendingMatchesRegistry' /\ NotYetHanded'
  <2>1. Pending' = {} /\ DOMAIN registry' = {}
    BY <1>4 DEF Pending, EmptyRegistry
  <2>2. OneRequest'
    BY <1>4 DEF OneRequest
  <2>3. IdsUnique'
    BY <1>4, <2>1 DEF IdsUnique, RegistryOK, EmptyRegistry
  <2> QED
    BY <1>3, <2>1, <2>2, <2>3 DEF PendingMatchesRegistry, NotYetHanded
<1> QED
  BY <1>2, <1>3, <1>5 DEF RequestInv

-----------------------------------------------------------------------------
(* The steps *)

\* act() asks about the whole registry, and only with no request outstanding.
LEMMA ActInv ==
  ASSUME TypeOK, RequestInv, Act
  PROVE  TypeOK' /\ RequestInv'
<1>1. Snapshot \subseteq SnapshotEntry
  <2> SUFFICES ASSUME NEW w \in DOMAIN registry, NEW c \in registry[w]
               PROVE  [owner |-> w, id |-> c.id, params |-> c.params.value]
                        \in SnapshotEntry
    BY DEF Snapshot
  <2>1. w \in Owners /\ c \in ConditionalOrder
    BY DEF TypeOK, DataOK
  <2>2. PICK p \in Params : c.params = ParamsStruct(p)
    BY <2>1 DEF ConditionalOrder
  <2>3. c.params.value = p
    BY <2>2 DEF ParamsStruct
  <2> QED
    BY <2>1, <2>3 DEF SnapshotEntry, ConditionalOrder
<1>2. /\ envelopes' \in Nat
      /\ UNCHANGED <<registry, ready, connected, sent, subscriptions, inbox,
                     eventRequests, mined, historyVars, faults>>
  BY DEF Act, DoSubscription, CheckOrdersAreTradeable, TypeOK, DataOK
<1>3. required' \in BOOLEAN /\ inFlight' \in BOOLEAN /\ connected' \in BOOLEAN
  BY Zenon DEF Act, DoSubscription, CheckOrdersAreTradeable, TypeOK, FlagsOK
<1>4. CASE UNCHANGED <<inFlight, polls>>
  <2>1. TypeOK'
    BY <1>2, <1>3, <1>4 DEF TypeOK, FlagsOK, DataOK, historyVars
  <2> QED
    BY <1>4, <2>1, RequestInvKept
       DEF Act, DoSubscription, CheckOrdersAreTradeable, historyVars
<1>5. CASE ~inFlight /\ polls' = Append(polls, Snapshot) /\ inFlight' = TRUE
  <2>1. polls = <<>>
    BY <1>5 DEF RequestInv, OneRequest
  <2>2. polls' = <<Snapshot>> /\ Len(polls') = 1 /\ polls'[1] = Snapshot
    BY <1>5, <2>1
  <2>3. polls' \in Seq(SUBSET SnapshotEntry)
    BY <1>1, <2>2
  <2>4. TypeOK'
    BY <1>2, <1>3, <2>3 DEF TypeOK, FlagsOK, DataOK, historyVars
  <2>5. UNCHANGED <<registry, nextId, handed>>
    BY DEF Act, DoSubscription, CheckOrdersAreTradeable, historyVars
  <2>6. Pending' = Snapshot
    BY <2>2 DEF Pending
  <2>7. OneRequest' /\ IdsUnique' /\ EntryHandedOverOnce'
    BY <1>5, <2>2, <2>5
       DEF RequestInv, OneRequest, IdsUnique, RegistryOK, EntryHandedOverOnce
  <2>8. \A e \in Snapshot : \E w \in DOMAIN registry : \E c \in registry[w] :
          e = [owner |-> w, id |-> c.id, params |-> c.params.value]
    BY DEF Snapshot
  <2>9. PendingMatchesRegistry'
    <3>1. \A e \in Snapshot : e.id < nextId
      BY <2>8 DEF RequestInv, IdsUnique, RegistryOK
    <3>2. \A e, f \in Snapshot : e.id = f.id => e = f
      BY <2>8 DEF RequestInv, IdsUnique, RegistryOK
    <3>3. \A e \in Snapshot, w \in DOMAIN registry : \A c \in registry[w] :
            c.id = e.id => w = e.owner
      BY <2>8 DEF RequestInv, IdsUnique, RegistryOK
    <3> QED
      BY <3>1, <3>2, <3>3, <2>5, <2>6 DEF PendingMatchesRegistry
  <2>10. NotYetHanded'
    BY <2>5, <2>6, <2>8 DEF RequestInv, NotYetHanded
  <2> QED
    BY <2>4, <2>7, <2>9, <2>10 DEF RequestInv
<1> QED
  BY <1>4, <1>5 DEF Act, DoSubscription, CheckOrdersAreTradeable

\* The steps of the websocket and of the chain leave the registry alone.
LEMMA SocketInv ==
  ASSUME TypeOK, RequestInv,
         \/ SendEnvelope \/ Subscribe \/ Disconnect \/ Reconnect \/ ReconnectUnseen
         \/ \E t \in Txs : Mine(t) \/ HandleNotification(t) \/ HandleEventsError(t)
  PROVE  TypeOK' /\ RequestInv'
<1>1. UNCHANGED <<registry, inFlight, required, polls, nextId, handed>>
  BY DEF SendEnvelope, Subscribe, Disconnect, Reconnect, ReconnectUnseen, NewSession,
         Mine, HandleNotification, HandleEventsError, agentVars, ledgerVars, historyVars
<1>2. RequestInv'
  BY <1>1, RequestInvKept
<1>3. FlagsOK'
  <2>1. connected' \in BOOLEAN
    BY Zenon DEF TypeOK, FlagsOK, SendEnvelope, Subscribe, Disconnect, Reconnect,
                 ReconnectUnseen, NewSession, Mine, HandleNotification,
                 HandleEventsError, socketVars
  <2> QED
    BY <1>1, <2>1, Zenon DEF TypeOK, FlagsOK
<1>4. ASSUME SendEnvelope \/ Subscribe
      PROVE  DataOK'
  <2>1. envelopes' \in Nat /\ sent' \in Nat /\ subscriptions' \in Nat
    BY <1>4 DEF TypeOK, DataOK, SendEnvelope, Subscribe
  <2>2. UNCHANGED <<agentVars, inbox, ledgerVars, mined, historyVars, faults>>
    BY <1>4 DEF SendEnvelope, Subscribe
  <2> QED
    BY <2>1, <2>2 DEF TypeOK, DataOK, agentVars, ledgerVars, historyVars
<1>5. ASSUME Disconnect
      PROVE  DataOK'
  BY <1>5, FaultBound DEF TypeOK, DataOK, Disconnect, agentVars, ledgerVars, historyVars
<1>6. ASSUME Reconnect \/ ReconnectUnseen
      PROVE  DataOK'
  <2>1. faults' \in 0..MaxFaults
    BY <1>6, FaultBound DEF Reconnect, ReconnectUnseen, TypeOK, DataOK
  <2>2. NewSession
    BY <1>6 DEF Reconnect, ReconnectUnseen
  <2> QED
    BY <2>1, <2>2 DEF TypeOK, DataOK, NewSession, agentVars, ledgerVars, historyVars
<1>7. ASSUME NEW t \in Txs, Mine(t)
      PROVE  DataOK'
  <2>1. Len(Created[t]) \in Nat
    BY MonitoringAssumption
  <2> DEFINE notices == subscriptions * Len(Created[t])
  <2>2. notices \in Nat
    BY <2>1 DEF TypeOK, DataOK
  <2>3. inbox' = [inbox EXCEPT ![t] = @ + notices]
    BY <1>7 DEF Mine
  <2> HIDE DEF notices
  <2>4. inbox' \in [Txs -> Nat]
    BY <2>2, <2>3 DEF TypeOK, DataOK
  <2> QED
    BY <1>7, <2>4 DEF TypeOK, DataOK, Mine, agentVars, ledgerVars, historyVars
<1>8. ASSUME NEW t \in Txs, HandleNotification(t)
      PROVE  DataOK'
  BY <1>8 DEF TypeOK, DataOK, HandleNotification, agentVars, historyVars
<1>9. ASSUME NEW t \in Txs, HandleEventsError(t)
      PROVE  DataOK'
  BY <1>9, FaultBound
     DEF TypeOK, DataOK, HandleEventsError, agentVars, socketVars, historyVars
<1> QED
  BY <1>2, <1>3, <1>4, <1>5, <1>6, <1>7, <1>8, <1>9 DEF TypeOK

\* The arguments that an answer with events makes of them.
LEMMA EventArguments ==
  ASSUME NEW t \in Txs
  PROVE  /\ Len(Created[t]) \in Nat
         /\ CreatedOrders(t) \in Seq(OrderArgument)
         /\ Len(CreatedOrders(t)) = Len(Created[t])
         /\ RootSet[t] # None =>
              /\ Len(RootSet[t].orders) \in Nat
              /\ RootOrders(t) \in Seq(OrderArgument)
              /\ Len(RootOrders(t)) = Len(RootSet[t].orders)
<1>1. Created[t] \in Seq([owner : Owners, params : Params])
  BY MonitoringAssumption
<1>2. Len(Created[t]) \in Nat
  BY <1>1
<1>3. \A i \in 1..Len(Created[t]) :
        [owner |-> Created[t][i].owner, params |-> Created[t][i].params, root |-> None]
          \in OrderArgument
  <2> SUFFICES ASSUME NEW i \in 1..Len(Created[t])
               PROVE  [owner |-> Created[t][i].owner, params |-> Created[t][i].params,
                       root |-> None] \in OrderArgument
    OBVIOUS
  <2> DEFINE r == Created[t]
             R == [owner : Owners, params : Params]
  <2>1. r \in Seq(R) /\ i \in 1..Len(r)
    BY <1>1
  <2>2. r[i] \in [owner : Owners, params : Params]
    <3> HIDE DEF r, R
    <3>1. r[i] \in R
      BY <2>1
    <3> QED
      BY <3>1 DEF R
  <2>3. Created[t][i].owner \in Owners /\ Created[t][i].params \in Params
    BY <2>2
  <2> QED
    BY <2>3 DEF OrderArgument
<1>4. CreatedOrders(t) \in Seq(OrderArgument) /\ Len(CreatedOrders(t)) = Len(Created[t])
  BY <1>2, <1>3 DEF CreatedOrders
<1>5. ASSUME RootSet[t] # None
      PROVE  /\ Len(RootSet[t].orders) \in Nat
             /\ RootOrders(t) \in Seq(OrderArgument)
             /\ Len(RootOrders(t)) = Len(RootSet[t].orders)
  <2> DEFINE e == RootSet[t]
  <2>1. e \in [owner : Owners, root : Roots, orders : Seq(Params)]
    BY <1>5, MonitoringAssumption
  <2>2. e.owner \in Owners /\ e.root \in Roots /\ e.orders \in Seq(Params)
    BY <2>1
  <2>3. Len(e.orders) \in Nat
    BY <2>2
  <2>4. \A i \in 1..Len(e.orders) :
          [owner |-> e.owner, params |-> e.orders[i], root |-> e.root] \in OrderArgument
    BY <2>2 DEF OrderArgument
  <2> QED
    BY <2>3, <2>4 DEF RootOrders
<1> QED
  BY <1>2, <1>4, <1>5

\* What the events of a transaction add to the registry.
LEMMA AfterEventsOK ==
  ASSUME TypeOK, RequestInv, NEW t \in Txs, EventsAnswered(t), ~RootSetFails(t)
  PROVE  /\ RegistryOK(AfterEvents(t), nextId + Additions(t))
         /\ \A w \in DOMAIN AfterEvents(t) : \A c \in AfterEvents(t)[w] :
              c.id >= nextId \/ (w \in DOMAIN registry /\ c \in registry[w])
         /\ nextId + Additions(t) \in 1..(MaxIds + 1)
         /\ FlushedIds(t) \subseteq Ids
<1> DEFINE middle == nextId + Len(Created[t])
           owner == RootSet[t].owner
           root == RootSet[t].root
<1>1. /\ MaxIds \in Nat /\ nextId \in Nat \ {0}
      /\ Len(Created[t]) \in Nat /\ middle \in Nat \ {0}
      /\ nextId + Additions(t) =< MaxIds + 1
  <2>1. MaxIds \in Nat /\ nextId \in Nat \ {0} /\ Len(Created[t]) \in Nat
    BY MonitoringAssumption, EventArguments DEF TypeOK, DataOK
  <2> QED
    BY <2>1 DEF EventsAnswered
<1>2. RegistryOK(registry, nextId)
  BY DEF RequestInv, IdsUnique
<1>3. CreatedOrders(t) \in Seq(OrderArgument) /\ Len(CreatedOrders(t)) = Len(Created[t])
  BY EventArguments
<1>4. CASE RootSet[t] = None
  <2>1. Additions(t) = Len(Created[t]) /\ middle =< MaxIds + 1
    BY <1>1, <1>4 DEF Additions
  <2>2. middle \in 1..(MaxIds + 1)
    BY <1>1, <2>1
  <2>3. AfterEvents(t) = AddContracts(registry, CreatedOrders(t), nextId)
    BY <1>4 DEF AfterEvents, AfterCreated
  <2>4. FlushedIds(t) \subseteq Ids
    BY <1>4 DEF FlushedIds
  <2> QED
    <3>1. /\ RegistryOK(AfterEvents(t), middle)
          /\ \A w \in DOMAIN AfterEvents(t) : \A c \in AfterEvents(t)[w] :
               c.id >= nextId \/ (w \in DOMAIN registry /\ c \in registry[w])
      BY <1>1, <1>2, <1>3, <2>1, <2>3, AddContractsOK
    <3> QED
      BY <2>1, <2>2, <2>4, <3>1
<1>5. CASE RootSet[t] # None
  <2> DEFINE created == AfterCreated(t)
             flushed == FlushContracts(created, owner, root)
             after == AddContracts(flushed, RootOrders(t), middle)
  <2>1. Len(RootSet[t].orders) \in Nat
    BY <1>5, EventArguments
  <2>2. /\ middle =< MaxIds + 1
        /\ middle + Len(RootSet[t].orders) =< MaxIds + 1
        /\ nextId + Additions(t) = middle + Len(RootSet[t].orders)
    <3>1. Additions(t) = Len(Created[t]) + Len(RootSet[t].orders)
      BY <1>5 DEF Additions
    <3> DEFINE m == Len(Created[t])
               n == Len(RootSet[t].orders)
    <3>2. m \in Nat /\ n \in Nat
      BY <1>1, <2>1
    <3>3. nextId + (m + n) =< MaxIds + 1 /\ nextId + Additions(t) = nextId + (m + n)
      BY <1>1, <3>1
    <3> HIDE DEF m, n
    <3>4. nextId + m =< MaxIds + 1 /\ nextId + (m + n) = (nextId + m) + n
      BY <1>1, <3>2, <3>3
    <3> QED
      BY <1>1, <3>2, <3>3, <3>4 DEF m, n
  <2>3. /\ RegistryOK(created, middle)
        /\ \A w \in DOMAIN created : \A c \in created[w] :
             c.id >= nextId \/ (w \in DOMAIN registry /\ c \in registry[w])
    BY <1>1, <1>2, <1>3, <2>2, AddContractsOK DEF AfterCreated
  <2>4. owner \in DOMAIN created
    BY <1>5 DEF RootSetFails, FlushFails
  <2>5. flushed = [w \in DOMAIN created |->
                     IF w = owner THEN {c \in created[w] : c.root # root} ELSE created[w]]
    BY <2>3, <2>4 DEF FlushContracts, RegistryOK
  <2>6. /\ DOMAIN flushed = DOMAIN created
        /\ \A w \in DOMAIN flushed : flushed[w] \subseteq created[w]
    BY <2>5
  <2>7. RegistryOK(flushed, middle)
    <3>1. DOMAIN flushed \subseteq Owners
      BY <2>3, <2>6 DEF RegistryOK
    <3>2. flushed = [w \in DOMAIN flushed |-> flushed[w]]
      BY <2>5
    <3> HIDE DEF created, flushed
    <3> QED
      BY <1>1, <2>3, <2>6, <3>1, <3>2, SmallerRegistryOK
  <2>8. RootOrders(t) \in Seq(OrderArgument) /\ Len(RootOrders(t)) = Len(RootSet[t].orders)
    BY <1>5, EventArguments
  <2>9. /\ RegistryOK(after, middle + Len(RootSet[t].orders))
        /\ \A w \in DOMAIN after : \A c \in after[w] :
             c.id >= middle \/ (w \in DOMAIN flushed /\ c \in flushed[w])
    <3> HIDE DEF flushed
    <3> QED
      BY <1>1, <2>2, <2>7, <2>8, AddContractsOK
  <2>10. AfterEvents(t) = after
    BY <1>5 DEF AfterEvents
  <2>11. FlushedIds(t) \subseteq Ids
    <3>1. \A c \in created[owner] : c.id \in Ids
      BY <2>3, <2>4 DEF RegistryOK, ConditionalOrder
    <3> QED
      BY <1>5, <3>1 DEF FlushedIds
  <2>12. \A w \in DOMAIN after : \A c \in after[w] :
           c.id >= nextId \/ (w \in DOMAIN registry /\ c \in registry[w])
    <3> SUFFICES ASSUME NEW w \in DOMAIN after, NEW c \in after[w]
                 PROVE  c.id >= nextId \/ (w \in DOMAIN registry /\ c \in registry[w])
      OBVIOUS
    <3>1. CASE c.id >= middle
      <4>1. c.id \in Ids
        BY <2>9 DEF RegistryOK, ConditionalOrder
      <4> QED
        BY <1>1, <3>1, <4>1 DEF Ids
    <3>2. CASE w \in DOMAIN flushed /\ c \in flushed[w]
      BY <3>2, <2>3, <2>6
    <3> QED
      BY <3>1, <3>2, <2>9
  <2> QED
    <3>1. nextId + Additions(t) \in 1..(MaxIds + 1)
      <4>1. nextId + Additions(t) \in Nat \ {0}
        <5> DEFINE m == middle
                   n == Len(RootSet[t].orders)
        <5>1. m \in Nat \ {0} /\ n \in Nat /\ nextId + Additions(t) = m + n
          BY <1>1, <2>1, <2>2
        <5> HIDE DEF m, n
        <5> QED
          BY <5>1
      <4> QED
        BY <1>1, <4>1
    <3> HIDE DEF after
    <3> QED
      BY <2>2, <2>9, <2>10, <2>11, <2>12, <3>1
<1> QED
  BY <1>4, <1>5

\* The events' answer changes the registry under the feet of a pending request.
LEMMA HandleEventsInv ==
  ASSUME TypeOK, RequestInv, NEW t \in Txs, HandleEvents(t)
  PROVE  TypeOK' /\ RequestInv'
<1>1. /\ RegistryOK(registry', nextId')
      /\ \A w \in DOMAIN registry' : \A c \in registry'[w] :
           c.id >= nextId \/ (w \in DOMAIN registry /\ c \in registry[w])
      /\ nextId' \in 1..(MaxIds + 1)
      /\ FlushedIds(t) \subseteq Ids
  BY AfterEventsOK DEF HandleEvents
<1>2. nextId =< nextId' /\ nextId \in Nat /\ nextId' \in Nat
  <2>1. Additions(t) \in Nat
    <3>1. Len(Created[t]) \in Nat /\ (RootSet[t] # None => Len(RootSet[t].orders) \in Nat)
      BY EventArguments
    <3>2. CASE RootSet[t] = None
      BY <3>1, <3>2 DEF Additions
    <3>3. CASE RootSet[t] # None
      <4> DEFINE m == Len(Created[t])
                 n == Len(RootSet[t].orders)
      <4>1. Additions(t) = m + n /\ m \in Nat /\ n \in Nat
        BY <3>1, <3>3 DEF Additions
      <4> HIDE DEF m, n
      <4> QED
        BY <4>1
    <3> QED
      BY <3>2, <3>3
  <2>2. nextId \in Nat /\ nextId' = nextId + Additions(t)
    BY DEF HandleEvents, TypeOK, DataOK
  <2> QED
    BY <2>1, <2>2
<1>3. UNCHANGED <<polls, inFlight, handed>> /\ Pending' = Pending
  BY DEF HandleEvents, Pending
<1>4. TypeOK'
  <2>1. FlagsOK'
    BY Zenon DEF TypeOK, FlagsOK, HandleEvents, socketVars
  <2>2. /\ DOMAIN registry' \subseteq Owners
        /\ \A w \in DOMAIN registry' : registry'[w] \subseteq ConditionalOrder
    BY <1>1 DEF RegistryOK
  <2>3. eventRequests' \in [Txs -> Nat]
    BY DEF HandleEvents, EventsAnswered, TypeOK, DataOK
  <2>4. DataOK'
    BY <1>1, <2>2, <2>3 DEF TypeOK, DataOK, HandleEvents, socketVars
  <2> QED
    BY <2>1, <2>4 DEF TypeOK
<1>5. OneRequest' /\ IdsUnique' /\ EntryHandedOverOnce'
  BY <1>1, <1>3 DEF RequestInv, OneRequest, IdsUnique, EntryHandedOverOnce
<1>6. PendingMatchesRegistry'
  <2>1. \A e \in Pending : e.id < nextId /\ e.id \in Ids
    BY DEF RequestInv, PendingMatchesRegistry, Pending, TypeOK, DataOK, SnapshotEntry
  <2>2. \A e \in Pending : e.id < nextId'
    BY <1>2, <2>1 DEF Ids
  <2>3. \A e \in Pending, w \in DOMAIN registry' : \A c \in registry'[w] :
          c.id = e.id => w = e.owner
    BY <1>1, <1>2, <2>1 DEF RequestInv, PendingMatchesRegistry, Ids
  <2> QED
    BY <1>3, <2>2, <2>3 DEF RequestInv, PendingMatchesRegistry
<1>7. NotYetHanded'
  <2> SUFFICES ASSUME NEW i \in Ids,
                      \/ i >= nextId'
                      \/ \E e \in Pending : e.id = i
                      \/ \E w \in DOMAIN registry' : \E c \in registry'[w] : c.id = i
               PROVE  handed[i] = 0
    BY <1>3 DEF NotYetHanded
  <2>1. CASE i >= nextId'
    BY <1>2, <2>1 DEF RequestInv, NotYetHanded, Ids
  <2>2. CASE \E e \in Pending : e.id = i
    BY <2>2 DEF RequestInv, NotYetHanded
  <2>3. CASE \E w \in DOMAIN registry' : \E c \in registry'[w] : c.id = i
    BY <1>1, <2>3 DEF RequestInv, NotYetHanded
  <2> QED
    BY <2>1, <2>2, <2>3
<1> QED
  BY <1>4, <1>5, <1>6, <1>7 DEF RequestInv

\* The outstanding request, when its answer arrives.
LEMMA OnlyRequest ==
  ASSUME TypeOK, RequestInv, NEW i \in 1..Len(polls)
  PROVE  /\ Pending = polls[i]
         /\ polls[i] \subseteq SnapshotEntry
         /\ RemoveAt(polls, i) = <<>>
<1> DEFINE T == SUBSET SnapshotEntry
           n == Len(polls)
<1>1. polls \in Seq(T) /\ n \in Nat /\ n =< 1 /\ i \in 1..n
  BY DEF TypeOK, DataOK, RequestInv, OneRequest
<1>2. i = 1 /\ Len(polls) = 1
  <2>1. i = 1 /\ n = 1
    <3> HIDE DEF n
    <3> QED
      BY <1>1
  <2> QED
    BY <2>1
<1>3. polls[1] \in T
  BY <1>1, <1>2
<1>4. Pending = polls[1]
  BY <1>2 DEF Pending
<1>5. RemoveAt(polls, 1) = <<>>
  BY <1>1, <1>2 DEF RemoveAt
<1> QED
  BY <1>2, <1>3, <1>4, <1>5

\* Without takes the answered orders out of the registry.
LEMMA WithoutOK ==
  ASSUME TypeOK, RequestInv, NEW entries, entries \subseteq SnapshotEntry,
         entries \subseteq Pending
  PROVE  /\ RegistryOK(Without(entries), nextId)
         /\ \A w \in DOMAIN Without(entries) : \A c \in Without(entries)[w] :
              /\ w \in DOMAIN registry /\ c \in registry[w]
              /\ \A e \in entries : e.id # c.id
<1> DEFINE small == Without(entries)
<1>1. small = [w \in DOMAIN registry \cup {e.owner : e \in entries} |->
                 IF w \in DOMAIN registry
                 THEN {c \in registry[w] : \A e \in entries : e.owner = w => c.id # e.id}
                 ELSE {}]
  BY DEF Without
<1>2. DOMAIN small = DOMAIN registry \cup {e.owner : e \in entries}
      /\ small = [w \in DOMAIN small |-> small[w]]
  BY <1>1
<1>3. DOMAIN small \subseteq Owners
  BY <1>2 DEF TypeOK, DataOK, SnapshotEntry
<1>4. \A w \in DOMAIN small : \A c \in small[w] :
        /\ w \in DOMAIN registry /\ c \in registry[w]
        /\ \A e \in entries : e.owner = w => c.id # e.id
  BY <1>1
<1>5. \A w \in DOMAIN small : \A c \in small[w] : \A e \in entries : e.id # c.id
  BY <1>4 DEF RequestInv, PendingMatchesRegistry
<1>6. RegistryOK(small, nextId)
  <2>1. RegistryOK(registry, nextId) /\ nextId \in Nat
    BY DEF RequestInv, IdsUnique, TypeOK, DataOK
  <2> HIDE DEF small
  <2> QED
    BY <1>2, <1>3, <1>4, <2>1, SmallerRegistryOK
<1> QED
  BY <1>4, <1>5, <1>6

\* The answer with the tradeable orders: each of them leaves the registry, and the
\* pending request is the only other place that has its id.
LEMMA HandleTradeableInv ==
  ASSUME TypeOK, RequestInv, HandleSomeTradeable
  PROVE  TypeOK' /\ RequestInv'
<1>1. PICK i \in 1..Len(polls), n \in 0..MaxIds :
        \E tradeable \in {s \in [1..n -> polls[i]] : IsInjective(s)} :
          \E expired \in SUBSET (polls[i] \ ToSet(tradeable)) :
            HandleTradeable(i, tradeable, expired)
  BY DEF HandleSomeTradeable
<1>2. PICK tradeable \in [1..n -> polls[i]] :
         \E expired \in SUBSET (polls[i] \ ToSet(tradeable)) :
           HandleTradeable(i, tradeable, expired)
  BY <1>1
<1>3. PICK expired \in SUBSET (polls[i] \ ToSet(tradeable)) :
        HandleTradeable(i, tradeable, expired)
  BY <1>2
<1> DEFINE entries == ToSet(tradeable) \cup expired
<1>4. /\ Pending = polls[i]
      /\ polls[i] \subseteq SnapshotEntry
      /\ polls' = <<>>
  BY <1>3, OnlyRequest DEF HandleTradeable, HandOver
<1>5. n \in Nat /\ Len(tradeable) = n /\ tradeable \in Seq(SnapshotEntry)
  BY <1>4, MonitoringAssumption
<1>6. ToSet(tradeable) \subseteq Pending /\ entries \subseteq Pending
        /\ entries \subseteq SnapshotEntry
  BY <1>4, <1>5 DEF ToSet
<1>7. /\ RegistryOK(registry', nextId)
      /\ \A w \in DOMAIN registry' : \A c \in registry'[w] :
           /\ w \in DOMAIN registry /\ c \in registry[w]
           /\ \A e \in entries : e.id # c.id
  BY <1>3, <1>6, WithoutOK, ZenonT(60) DEF HandleTradeable, HandOver
<1>8. nextId' = nextId /\ inFlight' = FALSE /\ Pending' = {}
  BY <1>3, <1>4 DEF HandleTradeable, HandOver, Pending
<1>9. \A j \in Ids :
        /\ j \in IdsOf(ToSet(tradeable)) => handed[j] = 0 /\ handed'[j] = 1
        /\ j \notin IdsOf(ToSet(tradeable)) => handed'[j] = handed[j]
  <2>1. \A j \in Ids : handed'[j] =
          handed[j] + IF j \in IdsOf(ToSet(tradeable)) THEN 1 ELSE 0
    BY <1>3 DEF HandleTradeable, HandOver
  <2>2. \A j \in Ids : handed[j] \in Nat
    BY DEF TypeOK, DataOK
  <2>3. \A j \in Ids : j \in IdsOf(ToSet(tradeable)) => handed[j] = 0
    BY <1>6 DEF RequestInv, NotYetHanded, IdsOf
  <2> QED
    BY <2>1, <2>2, <2>3
<1>10. TypeOK'
  <2>1. FlagsOK'
    BY <1>3, <1>8, Zenon DEF TypeOK, FlagsOK, HandleTradeable, HandOver, socketVars
  <2>2. \A k \in 1..n : [owner |-> tradeable[k].owner, params |-> tradeable[k].params]
                          \in DiscreteOrder
    <3>1. \A k \in 1..n : tradeable[k] \in SnapshotEntry
      BY <1>4
    <3> QED
      BY <3>1 DEF SnapshotEntry, DiscreteOrder
  <2>3. ready' \in Seq(DiscreteOrder)
    <3> DEFINE handedOver == [k \in 1..Len(tradeable) |->
                 [owner |-> tradeable[k].owner, params |-> tradeable[k].params]]
    <3>1. handedOver \in Seq(DiscreteOrder)
      BY <1>5, <2>2
    <3>2. ready \in Seq(DiscreteOrder) /\ ready' = ready \o handedOver
      BY <1>3 DEF TypeOK, DataOK, HandleTradeable, HandOver
    <3> HIDE DEF handedOver
    <3> QED
      BY <3>1, <3>2
  <2>4. handed' \in [Ids -> Nat]
    <3>1. handed \in [Ids -> Nat]
      BY DEF TypeOK, DataOK
    <3>2. ASSUME NEW j \in Ids
          PROVE  handed[j] + (IF j \in IdsOf(ToSet(tradeable)) THEN 1 ELSE 0) \in Nat
      <4>1. handed[j] \in Nat
        BY <3>1
      <4> QED
        BY <4>1
    <3> QED
      BY <1>3, <3>2 DEF HandleTradeable, HandOver
  <2>5. gone' \subseteq Ids
    BY <1>3, <1>6 DEF HandleTradeable, HandOver, TypeOK, DataOK, IdsOf, SnapshotEntry
  <2>6. /\ DOMAIN registry' \subseteq Owners
        /\ \A w \in DOMAIN registry' : registry'[w] \subseteq ConditionalOrder
    BY <1>7 DEF RegistryOK
  <2>7. polls' \in Seq(SUBSET SnapshotEntry)
    BY <1>4
  <2>8. DataOK'
    BY <1>3, <1>8, <2>3, <2>4, <2>5, <2>6, <2>7
       DEF HandleTradeable, HandOver, TypeOK, DataOK, socketVars
  <2> QED
    BY <2>1, <2>8 DEF TypeOK
<1>11. OneRequest' /\ IdsUnique' /\ PendingMatchesRegistry'
  BY <1>4, <1>7, <1>8 DEF OneRequest, IdsUnique, PendingMatchesRegistry
<1>12. NotYetHanded'
  <2> SUFFICES ASSUME NEW j \in Ids,
                      \/ j >= nextId
                      \/ \E w \in DOMAIN registry' : \E c \in registry'[w] : c.id = j
               PROVE  handed'[j] = 0
    BY <1>8 DEF NotYetHanded
  <2>1. CASE j >= nextId
    <3>1. handed[j] = 0
      BY <2>1 DEF RequestInv, NotYetHanded
    <3>2. \A e \in Pending : e.id < nextId /\ e.id \in Ids /\ nextId \in Nat
      BY <1>4 DEF RequestInv, PendingMatchesRegistry, SnapshotEntry, TypeOK, DataOK
    <3>3. j \notin IdsOf(ToSet(tradeable))
      BY <1>6, <2>1, <3>2 DEF IdsOf, Ids
    <3> QED
      BY <1>9, <3>1, <3>3
  <2>2. CASE \E w \in DOMAIN registry' : \E c \in registry'[w] : c.id = j
    <3>1. handed[j] = 0
      BY <1>7, <2>2 DEF RequestInv, NotYetHanded
    <3>2. j \notin IdsOf(ToSet(tradeable))
      BY <1>7, <2>2 DEF IdsOf
    <3> QED
      BY <1>9, <3>1, <3>2
  <2> QED
    BY <2>1, <2>2
<1>13. EntryHandedOverOnce'
  BY <1>9 DEF RequestInv, EntryHandedOverOnce
<1> QED
  BY <1>10, <1>11, <1>12, <1>13 DEF RequestInv

\* An answer that is an error: the request is gone, in_flight_req stays set.
LEMMA HandleTradeableErrorInv ==
  ASSUME TypeOK, RequestInv, NEW i \in 1..Len(polls), HandleTradeableError(i)
  PROVE  TypeOK' /\ RequestInv'
<1>1. polls' = <<>> /\ UNCHANGED <<registry, nextId, handed>>
  BY OnlyRequest DEF HandleTradeableError, agentVars, historyVars
<1>2. FlagsOK'
  BY Zenon DEF TypeOK, FlagsOK, HandleTradeableError, agentVars, socketVars
<1>3. faults' \in 0..MaxFaults
  BY FaultBound DEF HandleTradeableError
<1>4. DataOK'
  BY <1>1, <1>3
     DEF TypeOK, DataOK, HandleTradeableError, agentVars, socketVars, historyVars
<1>5. Pending' = {}
  BY <1>1 DEF Pending
<1>6. OneRequest' /\ IdsUnique' /\ PendingMatchesRegistry'
  BY <1>1, <1>5 DEF RequestInv, OneRequest, IdsUnique, RegistryOK, PendingMatchesRegistry
<1>7. NotYetHanded' /\ EntryHandedOverOnce'
  BY <1>1, <1>5 DEF RequestInv, NotYetHanded, EntryHandedOverOnce
<1> QED
  BY <1>2, <1>4, <1>6, <1>7 DEF TypeOK, RequestInv

\* The steps that end the process.
LEMMA EndOfProcessInv ==
  ASSUME TypeOK, RequestInv,
         \/ Restart \/ SubscribeRejected
         \/ \E t \in Txs : HandleEventsFails(t)
  PROVE  TypeOK' /\ RequestInv'
<1>1. CASE Restart
  BY <1>1, ExitInv, FaultBound DEF Restart
<1>2. CASE SubscribeRejected
  BY <1>2, ExitInv, FaultBound DEF SubscribeRejected
<1>3. CASE \E t \in Txs : HandleEventsFails(t)
  <2>1. Exit /\ faults' \in 0..MaxFaults
    BY <1>3 DEF HandleEventsFails, TypeOK, DataOK
  <2> QED
    BY <2>1, ExitInv
<1> QED
  BY <1>1, <1>2, <1>3

LEMMA StepInv ==
  ASSUME TypeOK, RequestInv, [Next]_vars
  PROVE  TypeOK' /\ RequestInv'
<1>1. CASE UNCHANGED vars
  <2>1. RequestInv'
    BY <1>1, RequestInvKept DEF vars, agentVars, ledgerVars, historyVars
  <2>2. FlagsOK'
    BY <1>1, Zenon DEF TypeOK, FlagsOK, vars, agentVars, socketVars
  <2>3. DataOK'
    BY <1>1 DEF TypeOK, DataOK, vars, agentVars, socketVars, ledgerVars, historyVars
  <2> QED
    BY <2>1, <2>2, <2>3 DEF TypeOK
<1>2. CASE Next
  BY <1>2, ActInv, SocketInv, HandleEventsInv, HandleTradeableInv,
     HandleTradeableErrorInv, EndOfProcessInv, Zenon DEF Next
<1> QED
  BY <1>1, <1>2

-----------------------------------------------------------------------------
(* What the handlers do to single orders *)

\* The registry after has the orders of reg, and those of a list under ids from first on.
AllAdded(reg, orders, first, after) ==
  /\ \A w \in DOMAIN reg : \A c \in reg[w] : w \in DOMAIN after /\ c \in after[w]
  /\ \A i \in 1..Len(orders) : \E w \in DOMAIN after : \E c \in after[w] :
       c.id = first + i - 1
  /\ \A w \in DOMAIN after : \A c \in after[w] :
       \/ w \in DOMAIN reg /\ c \in reg[w]
       \/ \E i \in 1..Len(orders) :
            w = orders[i].owner /\ c.params.value = orders[i].params

\* _add_contract keeps each order of the registry and adds each order it is called
\* with: the registered parameters are structs and never equal a mapping.
LEMMA AddContractsContents ==
  ASSUME NEW reg, NEW first \in Nat \ {0}, RegistryOK(reg, first),
         NEW orders \in Seq(OrderArgument),
         NEW after, after = AddContracts(reg, orders, first)
  PROVE  AllAdded(reg, orders, first, after)
<1> DEFINE new(i) == [id |-> first + i - 1,
                      params |-> ParamsStruct(orders[i].params),
                      root |-> orders[i].root]
           added(w) == {new(i) : i \in {n \in 1..Len(orders) :
                          orders[n].owner = w /\ ~Exists(reg, orders, n)}}
           D == DOMAIN reg \cup {orders[i].owner : i \in 1..Len(orders)}
<1>1. after = [w \in D |-> (IF w \in DOMAIN reg THEN reg[w] ELSE {}) \cup added(w)]
  BY DEF AddContracts
<1>2. \A p, q : ParamsStruct(p) # Mapping(q)
  BY DEF ParamsStruct, Mapping
<1>3. \A i \in 1..Len(orders) : ~Exists(reg, orders, i)
  <2> SUFFICES ASSUME NEW i \in 1..Len(orders), Exists(reg, orders, i)
               PROVE  FALSE
    OBVIOUS
  <2>1. CASE /\ orders[i].owner \in DOMAIN reg
             /\ \E c \in reg[orders[i].owner] : c.params = Mapping(orders[i].params)
    <3>1. PICK c \in reg[orders[i].owner] : c.params = Mapping(orders[i].params)
      BY <2>1
    <3>2. PICK p \in Params : c.params = ParamsStruct(p)
      BY <2>1, <3>1 DEF RegistryOK, ConditionalOrder
    <3> QED
      BY <1>2, <3>1, <3>2
  <2>2. CASE \E j \in 1..(i - 1) :
               /\ orders[j].owner = orders[i].owner
               /\ ParamsStruct(orders[j].params) = Mapping(orders[i].params)
    BY <1>2, <2>2
  <2> QED
    BY <2>1, <2>2 DEF Exists
<1>4. \A i \in 1..Len(orders) :
        orders[i].owner \in DOMAIN after /\ new(i) \in after[orders[i].owner]
  BY <1>1, <1>3
<1>5. \A i \in 1..Len(orders) : \E w \in DOMAIN after : \E c \in after[w] :
        c.id = first + i - 1
  <2> SUFFICES ASSUME NEW i \in 1..Len(orders)
               PROVE  \E c \in after[orders[i].owner] : c.id = first + i - 1
    BY <1>4
  <2>1. new(i).id = first + i - 1
    OBVIOUS
  <2> QED
    BY <1>4, <2>1
<1>6. \A w \in DOMAIN reg : \A c \in reg[w] : w \in DOMAIN after /\ c \in after[w]
  BY <1>1
<1>7. ASSUME NEW w \in DOMAIN after, NEW c \in after[w],
             ~(w \in DOMAIN reg /\ c \in reg[w])
      PROVE  \E i \in 1..Len(orders) :
               w = orders[i].owner /\ c.params.value = orders[i].params
  <2>1. c \in added(w)
    BY <1>1, <1>7
  <2>2. PICK i \in 1..Len(orders) : orders[i].owner = w /\ c = new(i)
    BY <2>1
  <2>3. c.params.value = orders[i].params
    BY <2>2 DEF ParamsStruct
  <2> QED
    BY <2>2, <2>3
<1> QED
  BY <1>5, <1>6, <1>7 DEF AllAdded

\* The events of t announce an order with these parameters.
Announces(t, owner, params) == [owner |-> owner, params |-> params] \in AnnouncedBy(t)

\* The root that t sets is that of the order c of owner.
FlushedBy(t, owner, c) ==
  RootSet[t] # None /\ owner = RootSet[t].owner /\ c.root = RootSet[t].root

\* The registry after has the orders it had, but for those that t flushes, and the orders
\* that t announces, under the ids from nextId to before n.
EventsAdded(t, n, after) ==
  /\ \A w \in DOMAIN registry : \A c \in registry[w] :
       (w \in DOMAIN after /\ c \in after[w]) <=> ~FlushedBy(t, w, c)
  /\ \A w \in DOMAIN registry : \A c \in registry[w] :
       c.id \in FlushedIds(t) \/ (w \in DOMAIN after /\ c \in after[w])
  /\ \A i \in nextId..(n - 1) :
       \/ i \in FlushedIds(t)
       \/ \E w \in DOMAIN after : \E c \in after[w] : c.id = i
  /\ \A w \in DOMAIN after : \A c \in after[w] :
       \/ w \in DOMAIN registry /\ c \in registry[w]
       \/ Announces(t, w, c.params.value)

\* Which orders the registry has after the events of a transaction.
LEMMA AfterEventsContents ==
  ASSUME TypeOK, RequestInv, NEW t \in Txs, EventsAnswered(t), ~RootSetFails(t),
         NEW after, after = AfterEvents(t)
  PROVE  EventsAdded(t, nextId + Additions(t), after)
<1> DEFINE m == Len(Created[t])
           created == AfterCreated(t)
<1>1. /\ MaxIds \in Nat /\ nextId \in Nat \ {0} /\ m \in Nat
      /\ RegistryOK(registry, nextId)
      /\ CreatedOrders(t) \in Seq(OrderArgument) /\ Len(CreatedOrders(t)) = m
  BY MonitoringAssumption, EventArguments DEF TypeOK, DataOK, RequestInv, IdsUnique
<1>2. AllAdded(registry, CreatedOrders(t), nextId, created)
  BY <1>1, AddContractsContents, Zenon DEF AfterCreated
<1>3. \A i \in 1..m : Announces(t, CreatedOrders(t)[i].owner, CreatedOrders(t)[i].params)
  <2> SUFFICES ASSUME NEW i \in 1..m
               PROVE  Announces(t, CreatedOrders(t)[i].owner, CreatedOrders(t)[i].params)
    OBVIOUS
  <2>1. Created[t][i] \in ToSet(Created[t])
    BY MonitoringAssumption, <1>1 DEF ToSet
  <2>2. /\ CreatedOrders(t)[i].owner = Created[t][i].owner
        /\ CreatedOrders(t)[i].params = Created[t][i].params
    BY DEF CreatedOrders
  <2> QED
    BY <2>1, <2>2 DEF Announces, AnnouncedBy
<1>4. \A w \in DOMAIN created : \A c \in created[w] :
        \/ w \in DOMAIN registry /\ c \in registry[w]
        \/ Announces(t, w, c.params.value)
  <2> HIDE DEF m, created
  <2> QED
    BY <1>1, <1>2, <1>3 DEF AllAdded
<1>5. \A i \in nextId..((nextId + m) - 1) :
        \E w \in DOMAIN created : \E c \in created[w] : c.id = i
  <2> SUFFICES ASSUME NEW i \in nextId..((nextId + m) - 1)
               PROVE  \E w \in DOMAIN created : \E c \in created[w] : c.id = i
    OBVIOUS
  <2> HIDE DEF m, created
  <2>1. i - nextId + 1 \in 1..m /\ nextId + (i - nextId + 1) - 1 = i
    BY <1>1
  <2> QED
    BY <1>1, <1>2, <2>1 DEF AllAdded
<1>6. CASE RootSet[t] = None
  <2>1. after = created /\ Additions(t) = m
    BY <1>1, <1>6 DEF AfterEvents, Additions
  <2>2. \A w, c : ~FlushedBy(t, w, c)
    BY <1>6 DEF FlushedBy
  <2> HIDE DEF m, created
  <2> QED
    BY <1>2, <1>4, <1>5, <2>1, <2>2, Zenon DEF AllAdded, EventsAdded
<1>7. CASE RootSet[t] # None
  <2> DEFINE owner == RootSet[t].owner
             root == RootSet[t].root
             k == Len(RootSet[t].orders)
             flushed == FlushContracts(created, owner, root)
  <2>1. /\ k \in Nat /\ RootOrders(t) \in Seq(OrderArgument) /\ Len(RootOrders(t)) = k
    BY <1>7, EventArguments
  <2>2. Additions(t) = m + k /\ nextId + (m + k) =< MaxIds + 1
    BY <1>7 DEF Additions, EventsAnswered
  <2>3. nextId + m \in Nat \ {0} /\ nextId + m =< MaxIds + 1
    <3> HIDE DEF m, k
    <3> QED
      BY <1>1, <2>1, <2>2
  <2>4. RegistryOK(created, nextId + m)
    BY <1>1, <2>3, AddContractsOK DEF AfterCreated
  <2>5. owner \in DOMAIN created
    BY <1>7 DEF RootSetFails, FlushFails
  <2>6. flushed = [w \in DOMAIN created |->
                     IF w = owner THEN {c \in created[w] : c.root # root} ELSE created[w]]
    BY <2>4, <2>5 DEF FlushContracts, RegistryOK
  <2>7. \A w \in DOMAIN created : \A c \in created[w] :
          c.id \in FlushedIds(t) \/ (w \in DOMAIN flushed /\ c \in flushed[w])
    BY <1>7, <2>5, <2>6 DEF FlushedIds
  <2>8. RegistryOK(flushed, nextId + m)
    <3>1. /\ DOMAIN flushed \subseteq Owners
          /\ flushed = [w \in DOMAIN flushed |-> flushed[w]]
          /\ \A w \in DOMAIN flushed : \A c \in flushed[w] :
               w \in DOMAIN created /\ c \in created[w]
      BY <2>4, <2>6 DEF RegistryOK
    <3> HIDE DEF created, flushed, m
    <3> QED
      BY <2>3, <2>4, <3>1, SmallerRegistryOK
  <2>9. after = AddContracts(flushed, RootOrders(t), nextId + m)
    BY <1>7 DEF AfterEvents
  <2>10. AllAdded(flushed, RootOrders(t), nextId + m, after)
    <3> HIDE DEF flushed, m
    <3> QED
      BY <2>1, <2>3, <2>8, <2>9, AddContractsContents, Zenon
  <2>11. \A i \in 1..k : Announces(t, RootOrders(t)[i].owner, RootOrders(t)[i].params)
    <3>1. \A i \in 1..k : RootOrders(t)[i] \in ToSet(RootOrders(t))
      BY <2>1 DEF ToSet
    <3> QED
      BY <1>7, <3>1 DEF Announces, AnnouncedBy
  <2>12. \A w \in DOMAIN after : \A c \in after[w] :
           \/ w \in DOMAIN registry /\ c \in registry[w]
           \/ Announces(t, w, c.params.value)
    <3>1. \A w \in DOMAIN flushed : \A c \in flushed[w] :
            w \in DOMAIN created /\ c \in created[w]
      BY <2>6
    <3> HIDE DEF created, flushed, m, k
    <3> QED
      BY <1>4, <2>1, <2>10, <2>11, <3>1 DEF AllAdded
  <2>13. ASSUME NEW i \in nextId..((nextId + Additions(t)) - 1)
         PROVE  \/ i \in FlushedIds(t)
                \/ \E w \in DOMAIN after : \E c \in after[w] : c.id = i
    <3>1. CASE i =< (nextId + m) - 1
      <4>1. i \in nextId..((nextId + m) - 1)
        <5> HIDE DEF m, k
        <5> QED
          BY <1>1, <2>1, <2>2, <2>13, <3>1
      <4>2. PICK w \in DOMAIN created : \E c \in created[w] : c.id = i
        BY <1>5, <4>1
      <4> HIDE DEF created, flushed
      <4> QED
        BY <2>7, <2>10, <4>2 DEF AllAdded
    <3>2. CASE ~(i =< (nextId + m) - 1)
      <4> HIDE DEF m, k
      <4>1. i - (nextId + m) + 1 \in 1..k
        BY <1>1, <2>1, <2>2, <2>13, <3>2
      <4>2. nextId + m + (i - (nextId + m) + 1) - 1 = i
        BY <1>1, <2>13
      <4> QED
        BY <2>1, <2>10, <4>1, <4>2 DEF AllAdded
    <3> QED
      BY <3>1, <3>2
  <2>14. \A w \in DOMAIN registry : \A c \in registry[w] :
           c.id \in FlushedIds(t) \/ (w \in DOMAIN after /\ c \in after[w])
    <3> HIDE DEF created, flushed
    <3> QED
      BY <1>2, <2>7, <2>10 DEF AllAdded
  <2>15. ASSUME NEW w \in DOMAIN registry, NEW c \in registry[w]
         PROVE  (w \in DOMAIN after /\ c \in after[w]) <=> ~FlushedBy(t, w, c)
    <3>1. w \in DOMAIN created /\ c \in created[w]
      BY <1>2 DEF AllAdded
    <3>2. (w \in DOMAIN flushed /\ c \in flushed[w]) <=> ~FlushedBy(t, w, c)
      BY <1>7, <2>6, <3>1 DEF FlushedBy
    <3>3. c.id < nextId + m /\ c.id \in Nat
      BY <1>1, <2>15 DEF RegistryOK, ConditionalOrder, Ids
    <3>4. w \in DOMAIN after /\ c \in after[w] => w \in DOMAIN flushed /\ c \in flushed[w]
      <4> HIDE DEF flushed, m, k
      <4>1. MaxIds \in Nat /\ nextId + m + k =< MaxIds + 1
        BY <1>1, <2>1, <2>2
      <4>2. w \in DOMAIN after /\ c \in after[w] =>
              c.id >= nextId + m \/ (w \in DOMAIN flushed /\ c \in flushed[w])
        BY <2>1, <2>3, <2>8, <2>9, <4>1, AddContractsOK
      <4> QED
        BY <2>3, <3>3, <4>2
    <3>5. w \in DOMAIN flushed /\ c \in flushed[w] => w \in DOMAIN after /\ c \in after[w]
      BY <2>10 DEF AllAdded
    <3> QED
      BY <3>2, <3>4, <3>5
  <2> QED
    BY <2>12, <2>13, <2>14, <2>15 DEF EventsAdded
<1> QED
  BY <1>6, <1>7

-----------------------------------------------------------------------------
(* NoOrderVanishes *)

\* NoOrderVanishes, by the ids of the registry one by one.
LEMMA VanishesByIds ==
  NoOrderVanishes <=>
    \A i \in 1..(nextId - 1) :
      \/ \E w \in DOMAIN registry : \E c \in registry[w] : c.id = i
      \/ i \in gone
      \/ handed[i] > 0
BY DEF NoOrderVanishes, RegisteredIds, Registered, IdsOf

\* Whatever ends the process counts as a loss of the whole registry.
LEMMA ExitLosesNothing ==
  ASSUME NoOrderVanishes, Exit
  PROVE  NoOrderVanishes'
BY DEF NoOrderVanishes, RegisteredIds, Exit

\* The events' answer gives each new id to an order, and flushes the ids it says.
LEMMA HandleEventsLosesNothing ==
  ASSUME TypeOK, RequestInv, NoOrderVanishes, NEW t \in Txs, HandleEvents(t)
  PROVE  NoOrderVanishes'
<1> DEFINE n == nextId + Additions(t)
<1>1. EventsAdded(t, n, registry')
  BY AfterEventsContents DEF HandleEvents
<1>2. /\ nextId \in Nat /\ n \in Nat /\ nextId' = n
      /\ gone' = gone \cup FlushedIds(t) /\ handed' = handed
  <2>1. nextId + Additions(t) \in 1..(MaxIds + 1)
    BY AfterEventsOK DEF HandleEvents
  <2> QED
    BY <2>1 DEF HandleEvents, TypeOK, DataOK
<1> HIDE DEF n
<1> SUFFICES ASSUME NEW i \in 1..(nextId' - 1)
             PROVE  \/ \E w \in DOMAIN registry' : \E c \in registry'[w] : c.id = i
                    \/ i \in gone'
                    \/ handed'[i] > 0
  BY DEF NoOrderVanishes, RegisteredIds, Registered, IdsOf
<1>3. CASE i < nextId
  <2>1. i \in 1..(nextId - 1)
    BY <1>2, <1>3
  <2>2. \/ \E w \in DOMAIN registry : \E c \in registry[w] : c.id = i
        \/ i \in gone
        \/ handed[i] > 0
    BY <2>1, VanishesByIds
  <2> QED
    BY <1>1, <1>2, <2>2 DEF EventsAdded
<1>4. CASE ~(i < nextId)
  <2>1. i \in nextId..(n - 1)
    BY <1>2, <1>4
  <2> QED
    BY <1>1, <1>2, <2>1 DEF EventsAdded
<1> QED
  BY <1>3, <1>4

\* The answer takes out of the registry the orders it hands over or drops, no others.
LEMMA HandleTradeableLosesNothing ==
  ASSUME TypeOK, RequestInv, NoOrderVanishes, HandleSomeTradeable
  PROVE  NoOrderVanishes'
<1>1. PICK i \in 1..Len(polls), n \in 0..MaxIds :
        \E tradeable \in {s \in [1..n -> polls[i]] : IsInjective(s)} :
          \E expired \in SUBSET (polls[i] \ ToSet(tradeable)) :
            HandleTradeable(i, tradeable, expired)
  BY DEF HandleSomeTradeable
<1>2. PICK tradeable \in [1..n -> polls[i]] :
         \E expired \in SUBSET (polls[i] \ ToSet(tradeable)) :
           HandleTradeable(i, tradeable, expired)
  BY <1>1
<1>3. PICK expired \in SUBSET (polls[i] \ ToSet(tradeable)) :
        HandleTradeable(i, tradeable, expired)
  BY <1>2
<1> DEFINE answered == ToSet(tradeable)
<1>4. /\ registry' = Without(answered \cup expired)
      /\ \A j \in Ids : handed'[j] = handed[j] + IF j \in IdsOf(answered) THEN 1 ELSE 0
      /\ gone' = gone \cup IdsOf(expired)
      /\ nextId' = nextId
  BY <1>3 DEF HandleTradeable, HandOver
<1>5. \A j \in 1..(nextId - 1) : j \in Ids /\ handed[j] \in Nat
  BY MonitoringAssumption DEF TypeOK, DataOK, Ids
<1> HIDE DEF answered
<1> SUFFICES ASSUME NEW j \in 1..(nextId - 1)
             PROVE  \/ \E w \in DOMAIN registry' : \E c \in registry'[w] : c.id = j
                    \/ j \in gone'
                    \/ handed'[j] > 0
  <2>1. nextId' = nextId
    BY <1>4
  <2> QED
    BY <2>1 DEF NoOrderVanishes, RegisteredIds, Registered, IdsOf
<1>6. CASE handed[j] > 0 \/ j \in gone
  BY <1>4, <1>5, <1>6
<1>7. CASE \E w \in DOMAIN registry : \E c \in registry[w] : c.id = j
  <2>1. PICK w \in DOMAIN registry : \E c \in registry[w] : c.id = j
    BY <1>7
  <2>2. PICK c \in registry[w] : c.id = j
    BY <2>1
  <2>3. CASE \E e \in answered : e.id = j
    <3>1. j \in IdsOf(answered)
      BY <2>3 DEF IdsOf
    <3> QED
      BY <1>4, <1>5, <3>1
  <2>4. CASE \E e \in expired : e.id = j
    <3>1. j \in IdsOf(expired)
      BY <2>4 DEF IdsOf
    <3> QED
      BY <1>4, <3>1
  <2>5. CASE \A e \in answered \cup expired : e.id # j
    <3>1. w \in DOMAIN registry' /\ c \in registry'[w]
      BY <1>4, <2>2, <2>5 DEF Without
    <3> QED
      BY <2>2, <3>1
  <2> QED
    BY <2>3, <2>4, <2>5
<1>8. \/ \E w \in DOMAIN registry : \E c \in registry[w] : c.id = j
      \/ j \in gone
      \/ handed[j] > 0
  BY VanishesByIds
<1> QED
  BY <1>6, <1>7, <1>8

\* All other steps leave the registry and the history alone.
LEMMA StepLosesNothing ==
  ASSUME TypeOK, RequestInv, NoOrderVanishes, [Next]_vars
  PROVE  NoOrderVanishes'
<1>1. CASE UNCHANGED <<registry, nextId, handed, gone>>
  BY <1>1 DEF NoOrderVanishes, RegisteredIds
<1>2. CASE Exit
  BY <1>2, ExitLosesNothing
<1>3. CASE \E t \in Txs : HandleEvents(t)
  BY <1>3, HandleEventsLosesNothing
<1>4. CASE HandleSomeTradeable
  BY <1>4, HandleTradeableLosesNothing
<1>5. CASE UNCHANGED vars
  BY <1>1, <1>5 DEF vars, agentVars, historyVars
<1>6. CASE Next
  BY <1>1, <1>2, <1>3, <1>4, <1>6
     DEF Next, Act, DoSubscription, CheckOrdersAreTradeable, SendEnvelope, Subscribe,
         SubscribeRejected, Disconnect, Reconnect, ReconnectUnseen, NewSession, Restart,
         Mine, HandleNotification, HandleEventsFails, HandleEventsError, HandleTradeableError,
         agentVars, historyVars
<1> QED
  BY <1>5, <1>6

-----------------------------------------------------------------------------
(* OrdersFromChain *)

\* What is announced once stays announced.
LEMMA AnnouncedGrows ==
  ASSUME mined \subseteq mined'
  PROVE  /\ Announced \subseteq Announced'
         /\ \A w, p : IsAnnounced(w, p) => IsAnnounced(w, p)'
<1>1. Announced \subseteq Announced'
  BY DEF Announced, AnnouncedBy, RootOrders
<1> QED
  BY <1>1 DEF IsAnnounced

\* The chain: only a new transaction's notifications are new.
LEMMA MineAnnounced ==
  ASSUME TypeOK, AnnouncedOnly, NEW t \in Txs, Mine(t)
  PROVE  AnnouncedOnly'
<1>1. mined' = mined \cup {t} /\ UNCHANGED <<registry, ready, polls, eventRequests>>
  BY DEF Mine, agentVars, ledgerVars
<1>2. /\ Pending' = Pending
      /\ Announced \subseteq Announced'
      /\ \A w, p : IsAnnounced(w, p) => IsAnnounced(w, p)'
  BY <1>1, AnnouncedGrows DEF Pending
<1>3. \A u \in Txs : u # t => inbox'[u] = inbox[u]
  BY DEF Mine, TypeOK, DataOK
<1>4. \A u \in Txs : inbox'[u] > 0 \/ eventRequests'[u] > 0 => u \in mined'
  BY <1>1, <1>3 DEF AnnouncedOnly
<1> QED
  BY <1>1, <1>2, <1>4 DEF AnnouncedOnly, OrdersFromChain

\* The events' answer adds what its transaction announces.
LEMMA HandleEventsAnnounced ==
  ASSUME TypeOK, RequestInv, AnnouncedOnly, NEW t \in Txs, HandleEvents(t)
  PROVE  AnnouncedOnly'
<1>1. \A w \in DOMAIN registry' : \A c \in registry'[w] :
        (w \in DOMAIN registry /\ c \in registry[w]) \/ Announces(t, w, c.params.value)
  BY AfterEventsContents DEF HandleEvents, EventsAdded
<1>2. /\ UNCHANGED <<ready, inbox, polls, mined>>
      /\ eventRequests' = [eventRequests EXCEPT ![t] = @ - 1] /\ eventRequests[t] > 0
  BY DEF HandleEvents, EventsAnswered, socketVars
<1>3. /\ Pending' = Pending
      /\ Announced' = Announced
      /\ \A w, p : IsAnnounced(w, p) => IsAnnounced(w, p)'
  BY <1>2, AnnouncedGrows DEF Pending, Announced
<1>4. t \in mined
  BY <1>2 DEF AnnouncedOnly
<1>5. \A w \in DOMAIN registry' : \A c \in registry'[w] : IsAnnounced(w, c.params.value)
  <2> SUFFICES ASSUME NEW w \in DOMAIN registry', NEW c \in registry'[w]
               PROVE  IsAnnounced(w, c.params.value)
    OBVIOUS
  <2>1. CASE w \in DOMAIN registry /\ c \in registry[w]
    BY <2>1 DEF AnnouncedOnly
  <2>2. CASE Announces(t, w, c.params.value)
    BY <1>4, <2>2 DEF Announces, IsAnnounced, Announced
  <2> QED
    BY <1>1, <2>1, <2>2
<1>6. \A u \in Txs : inbox'[u] > 0 \/ eventRequests'[u] > 0 => u \in mined'
  <2>1. \A u \in Txs : eventRequests'[u] > 0 => eventRequests[u] > 0
    BY <1>2 DEF TypeOK, DataOK
  <2> QED
    BY <1>2, <2>1 DEF AnnouncedOnly
<1> QED
  BY <1>2, <1>3, <1>5, <1>6 DEF AnnouncedOnly, OrdersFromChain

\* The answer with the tradeable orders hands over some of the request.
LEMMA HandleTradeableAnnounced ==
  ASSUME TypeOK, RequestInv, AnnouncedOnly, HandleSomeTradeable
  PROVE  AnnouncedOnly'
<1>1. PICK i \in 1..Len(polls), n \in 0..MaxIds :
        \E tradeable \in {s \in [1..n -> polls[i]] : IsInjective(s)} :
          \E expired \in SUBSET (polls[i] \ ToSet(tradeable)) :
            HandleTradeable(i, tradeable, expired)
  BY DEF HandleSomeTradeable
<1>2. PICK tradeable \in [1..n -> polls[i]] :
         \E expired \in SUBSET (polls[i] \ ToSet(tradeable)) :
           HandleTradeable(i, tradeable, expired)
  BY <1>1
<1>3. PICK expired \in SUBSET (polls[i] \ ToSet(tradeable)) :
        HandleTradeable(i, tradeable, expired)
  BY <1>2
<1> DEFINE handedOver == [k \in 1..Len(tradeable) |->
             [owner |-> tradeable[k].owner, params |-> tradeable[k].params]]
<1>4. /\ registry' = Without(ToSet(tradeable) \cup expired)
      /\ ready' = ready \o handedOver
      /\ UNCHANGED <<inbox, eventRequests, mined>>
  BY <1>3 DEF HandleTradeable, HandOver, socketVars
<1>5. Pending = polls[i] /\ polls[i] \subseteq SnapshotEntry /\ polls' = <<>>
  BY <1>3, OnlyRequest DEF HandleTradeable, HandOver
<1>6. /\ Pending' = {}
      /\ Announced' = Announced
      /\ \A w, p : IsAnnounced(w, p) => IsAnnounced(w, p)'
  BY <1>4, <1>5, AnnouncedGrows DEF Announced, Pending
<1>7. \A w \in DOMAIN registry' : \A c \in registry'[w] :
        w \in DOMAIN registry /\ c \in registry[w]
  BY <1>4 DEF Without
<1>8. n \in Nat /\ Len(tradeable) = n
  BY MonitoringAssumption
<1>9. \A k \in 1..n :
        [owner |-> tradeable[k].owner, params |-> tradeable[k].params] \in Announced
  <2>1. \A k \in 1..n : IsAnnounced(tradeable[k].owner, tradeable[k].params)
    BY <1>5 DEF AnnouncedOnly
  <2> QED
    BY <2>1 DEF IsAnnounced
<1>10. ToSet(ready') \subseteq Announced
  <2>1. handedOver \in Seq(Announced)
    BY <1>8, <1>9
  <2>2. ready \in Seq(Announced)
    <3>1. \A k \in 1..Len(ready) : ready[k] \in Announced
      BY DEF AnnouncedOnly, OrdersFromChain, ToSet
    <3>2. ready = [k \in 1..Len(ready) |-> ready[k]] /\ Len(ready) \in Nat
      BY DEF TypeOK, DataOK
    <3> QED
      BY <3>1, <3>2
  <2> HIDE DEF handedOver
  <2>3. ready' \in Seq(Announced)
    BY <1>4, <2>1, <2>2
  <2> QED
    BY <2>3 DEF ToSet
<1> QED
  BY <1>4, <1>6, <1>7, <1>10 DEF AnnouncedOnly, OrdersFromChain

\* act() asks about orders of the registry, notifications become requests.
LEMMA StepAnnounced ==
  ASSUME TypeOK, RequestInv, AnnouncedOnly, [Next]_vars
  PROVE  AnnouncedOnly'
<1>1. CASE UNCHANGED <<registry, ready, inbox, eventRequests, polls, mined>>
  <2>1. /\ Pending' = Pending
        /\ Announced' = Announced
        /\ \A w, p : IsAnnounced(w, p) => IsAnnounced(w, p)'
    BY <1>1, AnnouncedGrows DEF Announced, Pending
  <2> QED
    BY <1>1, <2>1 DEF AnnouncedOnly, OrdersFromChain
<1>2. CASE Act
  <2>1. UNCHANGED <<registry, ready, inbox, eventRequests, mined>>
    BY <1>2 DEF Act, DoSubscription, CheckOrdersAreTradeable
  <2>2. CASE UNCHANGED <<inFlight, polls>>
    BY <1>1, <2>1, <2>2
  <2>3. CASE ~inFlight /\ polls' = Append(polls, Snapshot)
    <3>1. polls = <<>>
      BY <2>3 DEF RequestInv, OneRequest
    <3>2. polls' = <<Snapshot>>
      BY <2>3, <3>1
    <3>3. /\ Pending' = Snapshot
          /\ Announced' = Announced
          /\ \A w, p : IsAnnounced(w, p) => IsAnnounced(w, p)'
      BY <2>1, <3>2, AnnouncedGrows DEF Pending, Announced
    <3>4. \A e \in Snapshot : \E w \in DOMAIN registry : \E c \in registry[w] :
            e = [owner |-> w, id |-> c.id, params |-> c.params.value]
      BY DEF Snapshot
    <3>5. \A e \in Snapshot : IsAnnounced(e.owner, e.params)
      BY <3>4 DEF AnnouncedOnly
    <3> QED
      BY <2>1, <3>3, <3>5 DEF AnnouncedOnly, OrdersFromChain
  <2> QED
    BY <1>2, <2>2, <2>3 DEF Act, DoSubscription, CheckOrdersAreTradeable
<1>3. CASE \/ SendEnvelope \/ Subscribe \/ Disconnect \/ Reconnect \/ ReconnectUnseen
  BY <1>1, <1>3 DEF SendEnvelope, Subscribe, Disconnect, Reconnect, ReconnectUnseen,
                    NewSession, agentVars, ledgerVars
<1>4. CASE Exit
  <2>1. /\ registry' = EmptyRegistry /\ ready' = <<>> /\ polls' = <<>>
        /\ \A t \in Txs : inbox'[t] = 0 /\ eventRequests'[t] = 0
    BY <1>4 DEF Exit
  <2>2. Pending' = {} /\ DOMAIN registry' = {} /\ ToSet(ready') = {}
    BY <2>1 DEF Pending, EmptyRegistry, ToSet
  <2> QED
    BY <2>1, <2>2 DEF AnnouncedOnly, OrdersFromChain
<1>5. CASE Restart \/ SubscribeRejected \/ \E t \in Txs : HandleEventsFails(t)
  BY <1>4, <1>5 DEF Restart, SubscribeRejected, HandleEventsFails
<1>6. CASE \E t \in Txs : Mine(t)
  BY <1>6, MineAnnounced
<1>7. ASSUME NEW t \in Txs, HandleNotification(t) \/ HandleEventsError(t)
      PROVE  AnnouncedOnly'
  <2>1. UNCHANGED <<registry, ready, polls, mined>>
    BY <1>7 DEF HandleNotification, HandleEventsError, agentVars
  <2>2. /\ Pending' = Pending
        /\ Announced' = Announced
        /\ \A w, p : IsAnnounced(w, p) => IsAnnounced(w, p)'
    BY <2>1, AnnouncedGrows DEF Announced, Pending
  <2>3. \A u \in Txs : inbox'[u] > 0 \/ eventRequests'[u] > 0
                         => inbox[u] > 0 \/ eventRequests[u] > 0
    BY <1>7 DEF HandleNotification, HandleEventsError, socketVars, TypeOK, DataOK
  <2> QED
    BY <2>1, <2>2, <2>3 DEF AnnouncedOnly, OrdersFromChain
<1>8. CASE \E t \in Txs : HandleEvents(t)
  BY <1>8, HandleEventsAnnounced
<1>9. CASE HandleSomeTradeable
  BY <1>9, HandleTradeableAnnounced
<1>10. ASSUME NEW i \in 1..Len(polls), HandleTradeableError(i)
       PROVE  AnnouncedOnly'
  <2>1. /\ UNCHANGED <<registry, ready, inbox, eventRequests, mined>>
        /\ polls' = <<>>
    BY <1>10, OnlyRequest DEF HandleTradeableError, agentVars, socketVars
  <2>2. /\ Pending' = {}
        /\ Announced' = Announced
        /\ \A w, p : IsAnnounced(w, p) => IsAnnounced(w, p)'
    BY <2>1, AnnouncedGrows DEF Announced, Pending
  <2> QED
    BY <2>1, <2>2 DEF AnnouncedOnly, OrdersFromChain
<1>11. CASE UNCHANGED vars
  BY <1>1, <1>11 DEF vars, agentVars, socketVars, ledgerVars
<1> QED
  BY <1>2, <1>3, <1>5, <1>6, <1>7, <1>8, <1>9, <1>10, <1>11, Zenon DEF Next

-----------------------------------------------------------------------------
(* SubscribedOnce and ReadyOnce: connections that are never lost *)

\* A call is made only while there is neither a call nor a subscription.
LEMMA StepSubscriptionFree ==
  ASSUME TypeOK, SubscriptionFree, "disconnect" \notin FaultKinds, [Next]_vars
  PROVE  SubscriptionFree'
<1> DEFINE total == envelopes + sent + subscriptions
<1>1. /\ envelopes \in Nat /\ sent \in Nat /\ subscriptions \in Nat
      /\ total =< 1 /\ (required \/ ~connected => total = 0)
  BY DEF TypeOK, DataOK, SubscriptionFree, SubscribedOnce
<1>2. CASE UNCHANGED <<required, connected, envelopes, sent, subscriptions>>
  BY <1>2 DEF SubscriptionFree, SubscribedOnce
<1>3. CASE Act
  <2>1. /\ \/ UNCHANGED <<required, envelopes>>
           \/ /\ envelopes' = IF connected /\ required THEN envelopes + 1 ELSE envelopes
              /\ required' = ~connected
        /\ UNCHANGED <<connected, sent, subscriptions>>
    BY <1>3, Zenon DEF Act, DoSubscription
  <2>2. CASE envelopes' = envelopes + 1 /\ connected /\ required /\ required' = ~connected
    <3>1. envelopes' = envelopes + 1 /\ sent' = sent /\ subscriptions' = subscriptions
            /\ total = 0
      BY <1>1, <2>1, <2>2
    <3>2. total' = 1
      BY <1>1, <3>1
    <3>3. connected' /\ ~required'
      BY <2>1, <2>2, Zenon
    <3> QED
      BY <3>2, <3>3 DEF SubscriptionFree, SubscribedOnce
  <2>3. CASE /\ envelopes' = envelopes
             /\ required' = ~connected \/ UNCHANGED required
    <3>1. total' = total /\ connected' = connected
      BY <2>1, <2>3
    <3>2. required' \/ ~connected' => total' = 0
      BY <1>1, <2>3, <3>1
    <3> QED
      BY <1>1, <3>1, <3>2 DEF SubscriptionFree, SubscribedOnce
  <2> QED
    BY <2>1, <2>2, <2>3
<1>4. CASE SendEnvelope \/ Subscribe
  <2>1. /\ UNCHANGED <<required, connected>>
        /\ \/ /\ envelopes' = envelopes - 1 /\ sent' = sent + 1
              /\ subscriptions' = subscriptions
           \/ /\ envelopes' = envelopes /\ sent' = sent - 1
              /\ subscriptions' = subscriptions + 1
    BY <1>4 DEF SendEnvelope, Subscribe, agentVars
  <2>2. total' = total
    BY <1>1, <2>1
  <2> QED
    BY <1>1, <2>1, <2>2 DEF SubscriptionFree, SubscribedOnce
<1>5. CASE Reconnect \/ ReconnectUnseen
  <2>1. /\ UNCHANGED <<required, envelopes, sent, subscriptions>>
        /\ ~connected
    BY <1>5 DEF Reconnect, ReconnectUnseen, NewSession, agentVars
  <2> QED
    BY <1>1, <2>1 DEF SubscriptionFree, SubscribedOnce
<1>6. CASE Exit
  BY <1>6 DEF Exit, SubscriptionFree, SubscribedOnce
<1>7. CASE Next
  BY <1>2, <1>3, <1>4, <1>5, <1>6, <1>7
     DEF Next, SubscribeRejected, Disconnect, Fault, Restart, Mine, HandleNotification,
         HandleEvents, HandleEventsFails, HandleEventsError, HandleSomeTradeable,
         HandleTradeable, HandleTradeableError, HandOver, agentVars, socketVars
<1> QED
  BY <1>2, <1>7 DEF vars, agentVars, socketVars

\* Steps that bring neither entries nor ready orders nor work on a transaction.
LEMMA NothingNewOnce ==
  ASSUME TypeOK, ProcessedOnce, OneEntry, ReadyOnce,
         UNCHANGED ready,
         \A i, o : EntryOf(i, o)' => EntryOf(i, o),
         \A t \in Txs : /\ inbox'[t] + eventRequests'[t] \in Nat
                        /\ inbox'[t] + eventRequests'[t] =< inbox[t] + eventRequests[t]
  PROVE  ProcessedOnce' /\ OneEntry' /\ ReadyOnce'
<1>1. OneEntry' /\ ReadyOnce'
  BY DEF OneEntry, ReadyOnce
<1>2. ASSUME NEW t \in Txs
      PROVE  /\ inbox'[t] + eventRequests'[t] =< 1
             /\ inbox'[t] + eventRequests'[t] = 1 => inbox[t] + eventRequests[t] = 1
  <2> DEFINE work == inbox[t] + eventRequests[t]
  <2>1. work \in Nat /\ work =< 1 /\ work' \in Nat /\ work' =< work
    BY DEF ProcessedOnce, TypeOK, DataOK
  <2> HIDE DEF work
  <2>2. work' =< 1 /\ (work' = 1 => work = 1)
    BY <2>1
  <2> QED
    BY <2>2 DEF work
<1>3. ProcessedOnce'
  BY <1>2 DEF ProcessedOnce
<1> QED
  BY <1>1, <1>3

\* The events of a transaction have an owner and parameters.
LEMMA CreatedTyped ==
  ASSUME NEW t \in Txs, NEW o \in ToSet(Created[t])
  PROVE  o = [owner |-> o.owner, params |-> o.params]
<1> DEFINE r == Created[t]
           R == [owner : Owners, params : Params]
<1>1. r \in Seq(R)
  BY MonitoringAssumption
<1>2. o \in R
  <2>1. PICK i \in DOMAIN r : o = r[i]
    BY DEF ToSet
  <2> HIDE DEF r, R
  <2> QED
    BY <1>1, <2>1
<1> QED
  BY <1>2

\* A new transaction is notified at most once, and nobody has announced its order.
LEMMA MineOnce ==
  ASSUME EventsOnce, TypeOK, AnnouncedOnly, SubscriptionFree, ProcessedOnce, OneEntry,
         ReadyOnce, NEW t \in Txs, Mine(t)
  PROVE  ProcessedOnce' /\ OneEntry' /\ ReadyOnce'
<1>1. /\ t \notin mined /\ UNCHANGED <<registry, ready, polls, eventRequests>>
      /\ inbox' = [inbox EXCEPT ![t] = @ + subscriptions * Len(Created[t])]
  BY DEF Mine, agentVars, ledgerVars
<1>2. \A i, o : EntryOf(i, o)' <=> EntryOf(i, o)
  BY <1>1 DEF EntryOf, Pending
<1>3. inbox \in [Txs -> Nat] /\ eventRequests \in [Txs -> Nat]
  BY DEF TypeOK, DataOK
<1>4. inbox[t] = 0 /\ eventRequests[t] = 0
  BY <1>1, <1>3 DEF AnnouncedOnly
<1>5. subscriptions * Len(Created[t]) =< 1
  <2>1. subscriptions \in {0, 1}
    <3>1. /\ envelopes \in Nat /\ sent \in Nat /\ subscriptions \in Nat
          /\ envelopes + sent + subscriptions =< 1
      BY DEF TypeOK, DataOK, SubscriptionFree, SubscribedOnce
    <3> QED
      BY <3>1
  <2>2. Len(Created[t]) \in {0, 1}
    <3> DEFINE n == Len(Created[t])
    <3>1. n \in Nat /\ n =< 1
      BY EventArguments DEF EventsOnce
    <3> HIDE DEF n
    <3>2. n \in {0, 1}
      BY <3>1
    <3> QED
      BY <3>2 DEF n
  <2> DEFINE n == Len(Created[t])
  <2>3. subscriptions \in {0, 1} /\ n \in {0, 1}
    BY <2>1, <2>2
  <2> HIDE DEF n
  <2>4. subscriptions * n =< 1
    BY <2>3
  <2> QED
    BY <2>4 DEF n
<1>6. inbox'[t] + eventRequests'[t] =< 1
  <2>1. inbox'[t] = 0 + subscriptions * Len(Created[t]) /\ eventRequests'[t] = 0
    BY <1>1, <1>3, <1>4
  <2>2. subscriptions * Len(Created[t]) \in Nat
    BY EventArguments DEF TypeOK, DataOK
  <2> QED
    BY <1>5, <2>1, <2>2
<1>7. ASSUME NEW o \in ToSet(Created[t])
      PROVE  o \notin ToSet(ready) /\ \A i \in Ids : ~EntryOf(i, o)
  <2>1. o = [owner |-> o.owner, params |-> o.params]
    BY CreatedTyped
  <2>2. o \notin Announced
    <3> SUFFICES ASSUME NEW u \in mined, o \in AnnouncedBy(u)
                 PROVE  FALSE
      BY DEF Announced
    <3>1. u \in Txs /\ u # t /\ RootSet[u] = None
      BY <1>1 DEF TypeOK, DataOK, EventsOnce
    <3>2. PICK e \in ToSet(Created[u]) : o = [owner |-> e.owner, params |-> e.params]
      BY <3>1 DEF AnnouncedBy
    <3>3. e = [owner |-> e.owner, params |-> e.params]
      BY <3>1, <3>2, CreatedTyped
    <3>4. o \in ToSet(Created[u]) \cap ToSet(Created[t])
      BY <3>2, <3>3
    <3> QED
      BY <3>1, <3>4 DEF EventsOnce
  <2>3. o \notin ToSet(ready)
    BY <2>2 DEF AnnouncedOnly, OrdersFromChain
  <2>4. ASSUME NEW i \in Ids, EntryOf(i, o)
        PROVE  FALSE
    BY <2>2, <2>4 DEF EntryOf, AnnouncedOnly, IsAnnounced
  <2> QED
    BY <2>3, <2>4
<1>8. ProcessedOnce'
  <2> SUFFICES ASSUME NEW u \in Txs
               PROVE  /\ inbox'[u] + eventRequests'[u] =< 1
                      /\ inbox'[u] + eventRequests'[u] = 1 =>
                           \A o \in ToSet(Created[u]) :
                             o \notin ToSet(ready') /\ \A i \in Ids : ~EntryOf(i, o)'
    BY DEF ProcessedOnce
  <2>1. CASE u = t
    BY <1>1, <1>2, <1>6, <1>7, <2>1
  <2>2. CASE u # t
    <3>1. inbox'[u] = inbox[u] /\ eventRequests'[u] = eventRequests[u]
      BY <1>1, <1>3, <2>2
    <3> QED
      BY <1>1, <1>2, <3>1 DEF ProcessedOnce
  <2> QED
    BY <2>1, <2>2
<1>9. OneEntry' /\ ReadyOnce'
  BY <1>1, <1>2 DEF OneEntry, ReadyOnce
<1> QED
  BY <1>8, <1>9

\* The answer with the events of a transaction makes one entry for its order, which had
\* none before.
LEMMA HandleEventsOnce ==
  ASSUME EventsOnce, TypeOK, RequestInv, ProcessedOnce, OneEntry, ReadyOnce,
         NEW t \in Txs, HandleEvents(t)
  PROVE  ProcessedOnce' /\ OneEntry' /\ ReadyOnce'
<1>1. /\ registry' = AfterEvents(t)
      /\ EventsAnswered(t) /\ ~RootSetFails(t) /\ eventRequests[t] > 0
      /\ eventRequests' = [eventRequests EXCEPT ![t] = @ - 1]
      /\ UNCHANGED <<ready, polls, inbox>>
  BY DEF HandleEvents, EventsAnswered, socketVars
<1>2. RootSet[t] = None /\ Additions(t) = Len(Created[t])
  <2> DEFINE n == Len(Created[t])
  <2>1. n \in Nat /\ RootSet[t] = None
    BY EventArguments DEF EventsOnce
  <2>2. Additions(t) = n + 0
    BY <2>1 DEF Additions
  <2> HIDE DEF n
  <2>3. Additions(t) = n
    BY <2>1, <2>2
  <2> QED
    BY <2>1, <2>3 DEF n
<1>3. /\ inbox[t] = 0 /\ eventRequests[t] = 1
      /\ inbox \in [Txs -> Nat] /\ eventRequests \in [Txs -> Nat]
  <2> DEFINE a == inbox[t]
             b == eventRequests[t]
  <2>1. a \in Nat /\ b \in Nat /\ a + b =< 1 /\ b > 0
    BY <1>1 DEF TypeOK, DataOK, ProcessedOnce
  <2>2. a = 0 /\ b = 1
    <3> HIDE DEF a, b
    <3> QED
      BY <2>1
  <2> QED
    BY <2>2 DEF TypeOK, DataOK
<1>4. ASSUME NEW o \in ToSet(Created[t])
      PROVE  o \notin ToSet(ready) /\ \A i \in Ids : ~EntryOf(i, o)
  <2>1. inbox[t] + eventRequests[t] = 1
    BY <1>3
  <2> QED
    BY <2>1 DEF ProcessedOnce
<1>5. EventsAdded(t, nextId + Additions(t), registry')
  BY <1>1, AfterEventsContents
<1>6. \A w \in DOMAIN registry' : \A c \in registry'[w] :
        /\ c.id \in Ids
        /\ \/ w \in DOMAIN registry /\ c \in registry[w]
           \/ /\ c.id = nextId
              /\ [owner |-> w, params |-> c.params.value] \in ToSet(Created[t])
  <2> SUFFICES ASSUME NEW w \in DOMAIN registry', NEW c \in registry'[w]
               PROVE  /\ c.id \in Ids
                      /\ \/ w \in DOMAIN registry /\ c \in registry[w]
                         \/ /\ c.id = nextId
                            /\ [owner |-> w, params |-> c.params.value]
                                 \in ToSet(Created[t])
    OBVIOUS
  <2>1. /\ c.id >= nextId \/ (w \in DOMAIN registry /\ c \in registry[w])
        /\ c \in ConditionalOrder /\ c.id < nextId + Additions(t)
    BY <1>1, AfterEventsOK DEF RegistryOK
  <2>2. c.id \in Ids
    BY <2>1 DEF ConditionalOrder
  <2>3. ASSUME ~(w \in DOMAIN registry /\ c \in registry[w])
        PROVE  c.id = nextId
    <3> DEFINE n == Len(Created[t])
               i == c.id
    <3>1. /\ n \in Nat /\ n =< 1 /\ nextId \in Nat /\ i \in Nat
          /\ i >= nextId /\ i < nextId + n
      BY <1>2, <2>1, <2>2, <2>3, EventArguments, MonitoringAssumption
         DEF EventsOnce, Ids, TypeOK, DataOK
    <3>2. i = nextId
      <4> HIDE DEF n, i
      <4> QED
        BY <3>1
    <3> QED
      BY <3>2
  <2>4. ASSUME ~(w \in DOMAIN registry /\ c \in registry[w])
        PROVE  [owner |-> w, params |-> c.params.value] \in ToSet(Created[t])
    <3>1. Announces(t, w, c.params.value)
      BY <1>5, <2>4 DEF EventsAdded
    <3>2. PICK e \in ToSet(Created[t]) :
            [owner |-> w, params |-> c.params.value]
              = [owner |-> e.owner, params |-> e.params]
      BY <1>2, <3>1 DEF Announces, AnnouncedBy
    <3>3. e = [owner |-> e.owner, params |-> e.params]
      BY <3>2, CreatedTyped
    <3> QED
      BY <3>2, <3>3
  <2> QED
    BY <2>2, <2>3, <2>4
<1>7. \A i, o : EntryOf(i, o)' =>
        EntryOf(i, o) \/ (i = nextId /\ o \in ToSet(Created[t]))
  <2> SUFFICES ASSUME NEW i, NEW o, EntryOf(i, o)'
               PROVE  EntryOf(i, o) \/ (i = nextId /\ o \in ToSet(Created[t]))
    OBVIOUS
  <2>1. Pending' = Pending
    BY <1>1 DEF Pending
  <2> QED
    BY <1>6, <2>1 DEF EntryOf
<1>8. OneEntry' /\ ReadyOnce'
  <2>1. OneEntry'
    <3> SUFFICES ASSUME NEW o \in DiscreteOrder
                 PROVE  /\ \A i, j \in Ids : EntryOf(i, o)' /\ EntryOf(j, o)' => i = j
                        /\ o \in ToSet(ready') => \A i \in Ids : ~EntryOf(i, o)'
      BY DEF OneEntry
    <3>1. CASE o \in ToSet(Created[t])
      BY <1>1, <1>4, <1>7, <3>1
    <3>2. CASE o \notin ToSet(Created[t])
      BY <1>1, <1>7, <3>2 DEF OneEntry
    <3> QED
      BY <3>1, <3>2
  <2> QED
    BY <1>1, <2>1 DEF ReadyOnce
<1>9. ProcessedOnce'
  <2> SUFFICES ASSUME NEW u \in Txs
               PROVE  /\ inbox'[u] + eventRequests'[u] =< 1
                      /\ inbox'[u] + eventRequests'[u] = 1 =>
                           \A o \in ToSet(Created[u]) :
                             o \notin ToSet(ready') /\ \A i \in Ids : ~EntryOf(i, o)'
    BY DEF ProcessedOnce
  <2>1. CASE u = t
    <3>1. inbox'[u] = 0 /\ eventRequests'[u] = 0
      BY <1>1, <1>3, <2>1
    <3> QED
      BY <3>1
  <2>2. CASE u # t
    <3>1. inbox'[u] = inbox[u] /\ eventRequests'[u] = eventRequests[u]
      BY <1>1, <1>3, <2>2
    <3>2. \A o \in ToSet(Created[u]) : o \notin ToSet(Created[t])
      BY <2>2 DEF EventsOnce
    <3> QED
      BY <1>1, <1>7, <3>1, <3>2 DEF ProcessedOnce
  <2> QED
    BY <2>1, <2>2
<1> QED
  BY <1>8, <1>9

\* The orders that become ready had one entry each, which leaves the registry.
LEMMA HandleTradeableOnce ==
  ASSUME TypeOK, RequestInv, ProcessedOnce, OneEntry, ReadyOnce, HandleSomeTradeable
  PROVE  ProcessedOnce' /\ OneEntry' /\ ReadyOnce'
<1>1. PICK i \in 1..Len(polls), n \in 0..MaxIds :
        \E tradeable \in {s \in [1..n -> polls[i]] : IsInjective(s)} :
          \E expired \in SUBSET (polls[i] \ ToSet(tradeable)) :
            HandleTradeable(i, tradeable, expired)
  BY DEF HandleSomeTradeable
<1>2. PICK tradeable \in [1..n -> polls[i]] :
         /\ IsInjective(tradeable)
         /\ \E expired \in SUBSET (polls[i] \ ToSet(tradeable)) :
              HandleTradeable(i, tradeable, expired)
  BY <1>1
<1>3. PICK expired \in SUBSET (polls[i] \ ToSet(tradeable)) :
        HandleTradeable(i, tradeable, expired)
  BY <1>2
<1> DEFINE orders == [k \in 1..n |->
             [owner |-> tradeable[k].owner, params |-> tradeable[k].params]]
<1>4. n \in Nat /\ Len(tradeable) = n
  BY MonitoringAssumption
<1>5. /\ registry' = Without(ToSet(tradeable) \cup expired)
      /\ ready' = ready \o orders
      /\ UNCHANGED <<inbox, eventRequests>>
  BY <1>3, <1>4 DEF HandleTradeable, HandOver, socketVars
<1>6. /\ Pending = polls[i] /\ polls[i] \subseteq SnapshotEntry /\ polls' = <<>>
      /\ Pending' = {}
  <2>1. Pending = polls[i] /\ polls[i] \subseteq SnapshotEntry /\ polls' = <<>>
    BY <1>3, OnlyRequest DEF HandleTradeable, HandOver
  <2> QED
    BY <2>1 DEF Pending
<1>7. ASSUME NEW k \in 1..n
      PROVE  /\ tradeable[k] \in Pending
             /\ tradeable[k].id \in Ids
             /\ orders[k] \in DiscreteOrder
             /\ EntryOf(tradeable[k].id, orders[k])
  <2>1. tradeable[k] \in Pending /\ tradeable[k] \in SnapshotEntry
    BY <1>6
  <2>2. tradeable[k].id \in Ids /\ orders[k] \in DiscreteOrder
    BY <2>1 DEF SnapshotEntry, DiscreteOrder
  <2> QED
    BY <2>1, <2>2 DEF EntryOf
<1>8. \A j, o : EntryOf(j, o)' =>
        /\ EntryOf(j, o)
        /\ \A e \in ToSet(tradeable) : o.owner = e.owner => j # e.id
  <2> SUFFICES ASSUME NEW j, NEW o, EntryOf(j, o)'
               PROVE  /\ EntryOf(j, o)
                      /\ \A e \in ToSet(tradeable) : o.owner = e.owner => j # e.id
    OBVIOUS
  <2>1. PICK w \in DOMAIN registry' : \E c \in registry'[w] :
               c.id = j /\ o = [owner |-> w, params |-> c.params.value]
    BY <1>6 DEF EntryOf
  <2>2. PICK c \in registry'[w] : c.id = j /\ o = [owner |-> w, params |-> c.params.value]
    BY <2>1
  <2>3. /\ w \in DOMAIN registry /\ c \in registry[w]
        /\ \A e \in ToSet(tradeable) : e.owner = w => c.id # e.id
    BY <1>5, <2>2 DEF Without
  <2> QED
    BY <2>2, <2>3 DEF EntryOf
<1>9. ready \in Seq(DiscreteOrder) /\ orders \in Seq(DiscreteOrder) /\ Len(orders) = n
  <2>1. \A k \in 1..n : orders[k] \in DiscreteOrder
    BY <1>7
  <2>2. orders \in Seq(DiscreteOrder) /\ Len(orders) = n
    BY <1>4, <2>1
  <2> QED
    BY <2>2 DEF TypeOK, DataOK
<1>10. \A k \in 1..n : \A j \in Ids : ~EntryOf(j, orders[k])'
  <2> SUFFICES ASSUME NEW k \in 1..n, NEW j \in Ids, EntryOf(j, orders[k])'
               PROVE  FALSE
    OBVIOUS
  <2>1. j = tradeable[k].id
    BY <1>7, <1>8 DEF OneEntry
  <2>2. tradeable[k] \in ToSet(tradeable)
    BY <1>4 DEF ToSet
  <2>3. orders[k].owner = tradeable[k].owner
    OBVIOUS
  <2> QED
    BY <1>8, <2>1, <2>2, <2>3
<1>11. \A k \in 1..n : orders[k] \notin ToSet(ready)
  BY <1>7 DEF OneEntry
<1>12. \A k, l \in 1..n : orders[k] = orders[l] => k = l
  <2> SUFFICES ASSUME NEW k \in 1..n, NEW l \in 1..n, orders[k] = orders[l]
               PROVE  k = l
    OBVIOUS
  <2>1. tradeable[k].id = tradeable[l].id
    <3>1. EntryOf(tradeable[l].id, orders[k])
      BY <1>7
    <3> HIDE DEF orders
    <3> QED
      BY <1>7, <3>1 DEF OneEntry
  <2>2. tradeable[k] = tradeable[l]
    BY <1>7, <2>1 DEF RequestInv, PendingMatchesRegistry
  <2> QED
    BY <1>2, <2>2 DEF IsInjective
<1> HIDE DEF orders
<1>13. /\ Len(ready) \in Nat /\ Len(ready') = Len(ready) + n
       /\ DOMAIN ready = 1..Len(ready) /\ DOMAIN ready' = 1..Len(ready')
       /\ \A k \in 1..Len(ready') :
            ready'[k] = IF k =< Len(ready) THEN ready[k] ELSE orders[k - Len(ready)]
  <2>1. ready' = ready \o orders
    BY <1>5
  <2>2. ready \in Seq(DiscreteOrder) /\ orders \in Seq(DiscreteOrder) /\ Len(orders) = n
    BY <1>9
  <2>3. Len(ready) \in Nat /\ DOMAIN ready = 1..Len(ready) /\ Len(orders) \in Nat
    BY <2>2
  <2>4. Len(ready') = Len(ready) + Len(orders) /\ DOMAIN ready' = 1..Len(ready')
    <3>1. ready \o orders \in Seq(DiscreteOrder)
      BY <2>2, SMTT(20)
    <3>2. Len(ready \o orders) = Len(ready) + Len(orders)
      BY <2>2
    <3>3. ready' \in Seq(DiscreteOrder)
      BY <2>1, <3>1
    <3> QED
      BY <2>1, <3>2, <3>3
  <2>5. \A k \in 1..(Len(ready) + Len(orders)) :
          ready'[k] = IF k =< Len(ready) THEN ready[k] ELSE orders[k - Len(ready)]
    BY <2>1, <2>2
  <2> QED
    BY <2>2, <2>3, <2>4, <2>5
<1>14. \A o : o \in ToSet(ready') => o \in ToSet(ready) \/ \E k \in 1..n : o = orders[k]
  <2> SUFFICES ASSUME NEW j \in 1..Len(ready')
               PROVE  ready'[j] \in ToSet(ready) \/ \E k \in 1..n : ready'[j] = orders[k]
    BY <1>13 DEF ToSet
  <2>1. CASE j =< Len(ready)
    <3>1. j \in 1..Len(ready) /\ ready'[j] = ready[j]
      BY <1>4, <1>13, <2>1
    <3> QED
      BY <1>13, <3>1 DEF ToSet
  <2>2. CASE ~(j =< Len(ready))
    <3>1. j - Len(ready) \in 1..n /\ ready'[j] = orders[j - Len(ready)]
      BY <1>4, <1>13, <2>2
    <3> QED
      BY <3>1
  <2> QED
    BY <2>1, <2>2
<1>15. ReadyOnce'
  <2>1. \A k, l \in 1..Len(ready) : ready[k] = ready[l] => k = l
    BY <1>9 DEF ReadyOnce, IsInjective
  <2>2. \A k \in 1..Len(ready) : ready[k] \in ToSet(ready)
    BY <1>9 DEF ToSet
  <2>3. ASSUME NEW k \in 1..Len(ready'), NEW l \in 1..Len(ready'),
               ready'[k] = ready'[l]
        PROVE  k = l
    <3>1. CASE k =< Len(ready) /\ l =< Len(ready)
      <4>1. ready[k] = ready[l] /\ k \in 1..Len(ready) /\ l \in 1..Len(ready)
        BY <1>13, <2>3, <3>1
      <4> QED
        BY <2>1, <4>1
    <3>2. CASE ~(k =< Len(ready)) /\ ~(l =< Len(ready))
      <4>1. /\ k - Len(ready) \in 1..n /\ l - Len(ready) \in 1..n
            /\ orders[k - Len(ready)] = orders[l - Len(ready)]
        BY <1>4, <1>13, <2>3, <3>2
      <4>2. k - Len(ready) = l - Len(ready)
        BY <1>12, <4>1
      <4> QED
        BY <1>13, <4>2
    <3>3. CASE k =< Len(ready) /\ ~(l =< Len(ready))
      <4>1. l - Len(ready) \in 1..n /\ ready[k] = orders[l - Len(ready)]
              /\ k \in 1..Len(ready)
        BY <1>4, <1>13, <2>3, <3>3
      <4> QED
        BY <1>11, <2>2, <4>1
    <3>4. CASE ~(k =< Len(ready)) /\ l =< Len(ready)
      <4>1. k - Len(ready) \in 1..n /\ ready[l] = orders[k - Len(ready)]
              /\ l \in 1..Len(ready)
        BY <1>4, <1>13, <2>3, <3>4
      <4> QED
        BY <1>11, <2>2, <4>1
    <3> QED
      BY <3>1, <3>2, <3>3, <3>4
  <2> QED
    BY <1>13, <2>3 DEF ReadyOnce, IsInjective
<1>16. OneEntry'
  BY <1>8, <1>10, <1>14 DEF OneEntry
<1>17. ProcessedOnce'
  <2> SUFFICES ASSUME NEW t \in Txs, inbox[t] + eventRequests[t] = 1,
                      NEW o \in ToSet(Created[t])
               PROVE  o \notin ToSet(ready') /\ \A j \in Ids : ~EntryOf(j, o)'
    BY <1>5 DEF ProcessedOnce
  <2>1. o \notin ToSet(ready) /\ \A j \in Ids : ~EntryOf(j, o)
    BY DEF ProcessedOnce
  <2>2. \A k \in 1..n : o # orders[k]
    BY <1>7, <2>1
  <2> QED
    BY <1>8, <1>14, <2>1, <2>2
<1> QED
  BY <1>15, <1>16, <1>17

\* The other steps bring nothing new, or end the process.
LEMMA StepOnce ==
  ASSUME EventsOnce, TypeOK, RequestInv, AnnouncedOnly, OnceInv, [Next]_vars
  PROVE  OnceInv'
<1>1. SubscriptionFree'
  BY StepSubscriptionFree DEF OnceInv, EventsOnce
<1> SUFFICES ProcessedOnce' /\ OneEntry' /\ ReadyOnce'
  BY <1>1 DEF OnceInv
<1>2. \A t \in Txs : inbox[t] \in Nat /\ eventRequests[t] \in Nat
  BY DEF TypeOK, DataOK
<1>3. CASE UNCHANGED <<registry, ready, polls, inbox, eventRequests>>
  <2>1. \A i, o : EntryOf(i, o)' => EntryOf(i, o)
    BY <1>3 DEF EntryOf, Pending
  <2>2. \A t \in Txs : /\ inbox'[t] + eventRequests'[t] \in Nat
                       /\ inbox'[t] + eventRequests'[t] =< inbox[t] + eventRequests[t]
    BY <1>2, <1>3
  <2> QED
    BY <1>3, <2>1, <2>2, NothingNewOnce DEF OnceInv
<1>4. CASE Act
  <2>1. UNCHANGED <<registry, ready, inbox, eventRequests>>
    BY <1>4 DEF Act
  <2>2. CASE UNCHANGED polls
    BY <1>3, <2>1, <2>2
  <2>3. CASE ~inFlight /\ polls' = Append(polls, Snapshot)
    <3>1. polls = <<>>
      BY <2>3 DEF RequestInv, OneRequest
    <3>2. polls' = <<Snapshot>>
      BY <2>3, <3>1
    <3>3. Pending' = Snapshot
      BY <3>2 DEF Pending
    <3>4. \A e \in Snapshot : \E w \in DOMAIN registry : \E c \in registry[w] :
            e = [owner |-> w, id |-> c.id, params |-> c.params.value]
      BY DEF Snapshot
    <3>5. \A i, o : EntryOf(i, o)' => EntryOf(i, o)
      BY <2>1, <3>3, <3>4 DEF EntryOf
    <3>6. \A t \in Txs : /\ inbox'[t] + eventRequests'[t] \in Nat
                         /\ inbox'[t] + eventRequests'[t] =< inbox[t] + eventRequests[t]
      BY <1>2, <2>1
    <3> QED
      BY <2>1, <3>5, <3>6, NothingNewOnce DEF OnceInv
  <2> QED
    BY <1>4, <2>2, <2>3 DEF Act, CheckOrdersAreTradeable
<1>5. CASE Exit
  <2>1. /\ registry' = EmptyRegistry /\ ready' = <<>> /\ polls' = <<>>
        /\ \A t \in Txs : inbox'[t] = 0 /\ eventRequests'[t] = 0
    BY <1>5 DEF Exit
  <2>2. Pending' = {} /\ DOMAIN registry' = {} /\ ToSet(ready') = {} /\ DOMAIN ready' = {}
    BY <2>1 DEF Pending, EmptyRegistry, ToSet
  <2>3. \A i, o : ~EntryOf(i, o)'
    BY <2>2 DEF EntryOf
  <2> QED
    BY <2>1, <2>2, <2>3 DEF ProcessedOnce, OneEntry, ReadyOnce, IsInjective
<1>6. CASE \E t \in Txs : Mine(t)
  BY <1>6, MineOnce DEF OnceInv
<1>7. ASSUME NEW t \in Txs, HandleNotification(t) \/ HandleEventsError(t)
      PROVE  ProcessedOnce' /\ OneEntry' /\ ReadyOnce'
  <2>1. UNCHANGED <<registry, ready, polls>>
    BY <1>7 DEF HandleNotification, HandleEventsError, agentVars
  <2>2. \A i, o : EntryOf(i, o)' => EntryOf(i, o)
    BY <2>1 DEF EntryOf, Pending
  <2>3. ASSUME NEW u \in Txs
        PROVE  /\ inbox'[u] + eventRequests'[u] \in Nat
               /\ inbox'[u] + eventRequests'[u] =< inbox[u] + eventRequests[u]
    <3>1. \/ UNCHANGED <<inbox[u], eventRequests[u]>>
          \/ /\ inbox[u] > 0 /\ inbox'[u] = inbox[u] - 1
             /\ eventRequests'[u] = eventRequests[u] + 1
          \/ /\ inbox'[u] = inbox[u] /\ eventRequests[u] > 0
             /\ eventRequests'[u] = eventRequests[u] - 1
      BY <1>7 DEF HandleNotification, HandleEventsError, socketVars, TypeOK, DataOK
    <3> DEFINE a == inbox[u]
               b == eventRequests[u]
               c == inbox'[u]
               d == eventRequests'[u]
    <3>2. a \in Nat /\ b \in Nat
      BY <1>2
    <3>3. \/ c = a /\ d = b
          \/ a > 0 /\ c = a - 1 /\ d = b + 1
          \/ c = a /\ b > 0 /\ d = b - 1
      BY <3>1
    <3> HIDE DEF a, b, c, d
    <3>4. c + d \in Nat /\ c + d =< a + b
      BY <3>2, <3>3
    <3> QED
      BY <3>4 DEF a, b, c, d
  <2> QED
    BY <2>1, <2>2, <2>3, NothingNewOnce DEF OnceInv
<1>8. CASE \E t \in Txs : HandleEvents(t)
  BY <1>8, HandleEventsOnce DEF OnceInv
<1>9. CASE HandleSomeTradeable
  BY <1>9, HandleTradeableOnce DEF OnceInv
<1>10. ASSUME NEW i \in 1..Len(polls), HandleTradeableError(i)
       PROVE  ProcessedOnce' /\ OneEntry' /\ ReadyOnce'
  <2>1. UNCHANGED <<registry, ready, inbox, eventRequests>> /\ polls' = <<>>
    BY <1>10, OnlyRequest DEF HandleTradeableError, agentVars, socketVars
  <2>2. \A j, o : EntryOf(j, o)' => EntryOf(j, o)
    BY <2>1 DEF EntryOf, Pending
  <2>3. \A t \in Txs : /\ inbox'[t] + eventRequests'[t] \in Nat
                       /\ inbox'[t] + eventRequests'[t] =< inbox[t] + eventRequests[t]
    BY <1>2, <2>1
  <2> QED
    BY <2>1, <2>2, <2>3, NothingNewOnce DEF OnceInv
<1>11. CASE \/ SendEnvelope \/ Subscribe \/ Disconnect \/ Reconnect \/ ReconnectUnseen
            \/ UNCHANGED vars
  BY <1>3, <1>11 DEF SendEnvelope, Subscribe, Disconnect, Reconnect, ReconnectUnseen,
                     NewSession, vars, agentVars, socketVars, ledgerVars
<1>12. CASE SubscribeRejected \/ Restart \/ \E t \in Txs : HandleEventsFails(t)
  BY <1>5, <1>12 DEF SubscribeRejected, Restart, HandleEventsFails
<1> QED
  BY <1>4, <1>6, <1>7, <1>8, <1>9, <1>10, <1>11, <1>12, Zenon DEF Next

-----------------------------------------------------------------------------
(* The theorems *)

\* Whatever the chain, the websocket and the ledger connection do, at most one
\* request is outstanding, the registry, the requests and what was handed over never
\* share an id in two roles, every order is accounted for and comes from the chain.
THEOREM MonitoringInvariant == Spec => []MonitoringInv
<1> DEFINE Inv == TypeOK /\ RequestInv /\ NoOrderVanishes /\ AnnouncedOnly
<1>1. Init => Inv
  <2> SUFFICES ASSUME Init
               PROVE  NoOrderVanishes /\ AnnouncedOnly
    BY InitInv
  <2>1. NoOrderVanishes
    BY DEF Init, NoOrderVanishes
  <2>2. AnnouncedOnly
    BY DEF Init, EmptyRegistry, AnnouncedOnly, Pending, OrdersFromChain, ToSet
  <2> QED
    BY <2>1, <2>2
<1>2. Inv /\ [Next]_vars => Inv'
  BY StepInv, StepLosesNothing, StepAnnounced
<1>3. Inv => MonitoringInv
  BY DEF MonitoringInv, RequestInv
<1> HIDE DEF Inv
<1> QED
  BY <1>1, <1>2, <1>3, PTL DEF Spec

\* The registry, the list of ready orders and the queues keep their types, whatever
\* the handlers are called with.
THEOREM MonitoringTypes == Spec => []TypeOK
<1>1. MonitoringInv => TypeOK
  BY DEF MonitoringInv
<1> QED
  BY <1>1, MonitoringInvariant, PTL

\* The handler loses no entry: one that was registered is in the registry, was handed
\* over, or was dropped, flushed or lost with the process.
THEOREM OrdersAccountedFor == Spec => []NoOrderVanishes
<1>1. MonitoringInv => NoOrderVanishes
  BY DEF MonitoringInv
<1> QED
  BY <1>1, MonitoringInvariant, PTL

\* What the rounds get was announced by an event of a mined transaction, for the owner
\* it is handed over with.
THEOREM ReadyOrdersAnnounced == Spec => []OrdersFromChain
<1>1. MonitoringInv => OrdersFromChain
  BY DEF MonitoringInv, AnnouncedOnly
<1> QED
  BY <1>1, MonitoringInvariant, PTL

\* Without an error answer of the ledger connection in_flight_req says exactly whether
\* a request is outstanding: both the handler and a restart reset it.
THEOREM InFlightIsExact ==
  "ledger_error" \notin FaultKinds => (Spec => []InFlightExact)
<1> SUFFICES ASSUME "ledger_error" \notin FaultKinds
             PROVE  Spec => []InFlightExact
  OBVIOUS
<1> DEFINE Exact == inFlight => polls # <<>>
<1>1. Init => Exact
  BY DEF Init
<1>2. MonitoringInv /\ Exact /\ [Next]_vars => Exact'
  <2> SUFFICES ASSUME MonitoringInv, Exact, [Next]_vars
               PROVE  Exact'
    OBVIOUS
  <2>1. CASE UNCHANGED <<inFlight, polls>>
    BY <2>1
  <2>2. CASE Act
    <3>1. CASE UNCHANGED <<inFlight, polls>>
      BY <3>1
    <3>2. CASE polls' = Append(polls, Snapshot)
      <4>1. polls \in Seq(SUBSET SnapshotEntry)
        BY DEF MonitoringInv, TypeOK, DataOK
      <4>2. Len(polls') = Len(polls) + 1 /\ Len(polls) \in Nat
        BY <3>2, <4>1
      <4> QED
        BY <4>2
    <3> QED
      BY <2>2, <3>1, <3>2 DEF Act, DoSubscription, CheckOrdersAreTradeable
  <2>3. CASE Exit
    BY <2>3 DEF Exit
  <2>4. CASE HandleSomeTradeable
    BY <2>4 DEF HandleSomeTradeable, HandleTradeable, HandOver
  <2>5. CASE \E i \in 1..Len(polls) : HandleTradeableError(i)
    BY <2>5 DEF HandleTradeableError, Fault
  <2>6. CASE UNCHANGED vars
    BY <2>1, <2>6 DEF vars, agentVars, ledgerVars
  <2>7. CASE Next
    BY <2>1, <2>2, <2>3, <2>4, <2>5, <2>7
       DEF Next, SendEnvelope, Subscribe, SubscribeRejected, Disconnect, Reconnect,
           ReconnectUnseen, NewSession, Restart, Mine, HandleNotification, HandleEvents, HandleEventsFails, HandleEventsError,
           agentVars, ledgerVars
  <2> QED
    BY <2>6, <2>7
<1>3. MonitoringInv /\ Exact => InFlightExact
  BY DEF MonitoringInv, OneRequest, InFlightExact, TypeOK, FlagsOK
<1> HIDE DEF Exact
<1> QED
  BY <1>1, <1>2, <1>3, MonitoringInvariant, PTL DEF Spec

\* No entry of the registry is handed over to the rounds twice, although answers meet a
\* registry that has changed.  (A conditional order may have several entries.)
THEOREM EntriesHandedOverAtMostOnce == Spec => []EntryHandedOverOnce
<1>1. MonitoringInv => EntryHandedOverOnce
  BY DEF MonitoringInv
<1> QED
  BY <1>1, MonitoringInvariant, PTL

\* "we only subscribe once" is right as long as the connection is not lost.
THEOREM SubscribesOnce ==
  "disconnect" \notin FaultKinds => (Spec => []SubscribedOnce)
<1> SUFFICES ASSUME "disconnect" \notin FaultKinds
             PROVE  Spec => []SubscribedOnce
  OBVIOUS
<1>1. Init => SubscriptionFree
  BY DEF Init, SubscriptionFree, SubscribedOnce
<1>2. MonitoringInv /\ SubscriptionFree /\ [Next]_vars => SubscriptionFree'
  BY StepSubscriptionFree DEF MonitoringInv
<1>3. SubscriptionFree => SubscribedOnce
  BY DEF SubscriptionFree
<1> QED
  BY <1>1, <1>2, <1>3, MonitoringInvariant, PTL DEF Spec

\* If the connection is never lost and each transaction announces one order of its own,
\* no order is twice in the list of ready orders: what the rounds need so that they do
\* not process an order again.
THEOREM ReadyAtMostOnce == EventsOnce => (Spec => []ReadyOnce)
<1> SUFFICES ASSUME EventsOnce
             PROVE  Spec => []ReadyOnce
  OBVIOUS
<1>1. Init => OnceInv
  <2> SUFFICES ASSUME Init
               PROVE  OnceInv
    OBVIOUS
  <2>1. /\ DOMAIN registry = {} /\ Pending = {} /\ ToSet(ready) = {} /\ DOMAIN ready = {}
        /\ \A t \in Txs : inbox[t] = 0 /\ eventRequests[t] = 0
    BY DEF Init, EmptyRegistry, Pending, ToSet
  <2>2. SubscriptionFree
    BY DEF Init, SubscriptionFree, SubscribedOnce
  <2>3. ProcessedOnce /\ OneEntry /\ ReadyOnce
    BY <2>1 DEF ProcessedOnce, OneEntry, EntryOf, ReadyOnce, IsInjective
  <2> QED
    BY <2>2, <2>3 DEF OnceInv
<1>2. MonitoringInv /\ OnceInv /\ [Next]_vars => OnceInv'
  BY StepOnce DEF MonitoringInv, RequestInv
<1>3. OnceInv => ReadyOnce
  BY DEF OnceInv
<1> QED
  BY <1>1, <1>2, <1>3, MonitoringInvariant, PTL DEF Spec

-----------------------------------------------------------------------------
(* The abstract handover *)

\* The entries, by owners and their orders.
LEMMA EntriesByOwner ==
  /\ \A e : e \in Entries <=>
       \E w \in DOMAIN registry : \E c \in registry[w] : e = Entry(w, c)
  /\ \A e : e \in Entries' <=>
       \E w \in DOMAIN registry' : \E c \in registry'[w] : e = Entry(w, c)
BY DEF Entries, Entry

\* An agent starts without entries.
LEMMA InitHandover == Init => Handover!Init
<1> SUFFICES ASSUME Init
             PROVE  Handover!Init
  OBVIOUS
<1>1. Announced = {} /\ Pending = {} /\ Entries = {}
  BY DEF Init, Announced, Pending, Entries, EmptyRegistry
<1>2. {i \in Ids : handed[i] > 0} = {}
  BY DEF Init
<1> QED
  BY <1>1, <1>2 DEF Init, Handover!Init

\* What leaves all that is mapped unchanged is a stuttering step.
LEMMA StutterHandover ==
  ASSUME UNCHANGED <<mined, registry, nextId, polls, ready, handed>>
  PROVE  UNCHANGED Handover!vars
<1>1. Announced' = Announced /\ Pending' = Pending /\ Entries' = Entries
  BY DEF Announced, Pending, Entries
<1> QED
  BY <1>1 DEF Handover!vars

\* act() asks about all entries, and only if no answer is outstanding.
LEMMA ActHandover ==
  ASSUME TypeOK, RequestInv, Act
  PROVE  Handover!Ask \/ UNCHANGED Handover!vars
<1>1. UNCHANGED <<mined, registry, nextId, ready, handed>>
  BY DEF Act, DoSubscription, CheckOrdersAreTradeable, historyVars
<1>2. CASE UNCHANGED <<inFlight, polls>>
  BY <1>1, <1>2, StutterHandover
<1>3. CASE ~inFlight /\ polls' = Append(polls, Snapshot)
  <2>1. polls = <<>>
    BY <1>3 DEF RequestInv, OneRequest
  <2>2. polls' = <<Snapshot>>
    BY <1>3, <2>1
  <2>3. Pending = {} /\ Pending' = Snapshot
    BY <2>1, <2>2 DEF Pending
  <2>4. \A e : e \in Snapshot <=>
          \E w \in DOMAIN registry : \E c \in registry[w] :
            e = [owner |-> w, id |-> c.id, params |-> c.params.value]
    BY DEF Snapshot
  <2>5. \A w, c : Handover!Question(Entry(w, c))
                    = [owner |-> w, id |-> c.id, params |-> c.params.value]
    BY DEF Handover!Question, Entry
  <2>6. Snapshot = {Handover!Question(e) : e \in Entries}
    BY <2>4, <2>5, EntriesByOwner
  <2>7. Announced' = Announced /\ Entries' = Entries
    BY <1>1 DEF Announced, Entries
  <2> QED
    BY <1>1, <2>3, <2>6, <2>7 DEF Handover!Ask
<1> QED
  BY <1>2, <1>3 DEF Act, DoSubscription, CheckOrdersAreTradeable

\* The end of the process.
LEMMA ExitHandover ==
  ASSUME Exit
  PROVE  Handover!Restart
<1>1. /\ registry' = EmptyRegistry /\ polls' = <<>> /\ ready' = <<>>
      /\ UNCHANGED <<mined, nextId, handed>>
  BY DEF Exit
<1>2. Entries' = {} /\ Pending' = {} /\ Announced' = Announced
  BY <1>1 DEF Entries, Pending, Announced, EmptyRegistry
<1> QED
  BY <1>1, <1>2 DEF Handover!Restart

\* A mined transaction announces orders.
LEMMA MineHandover ==
  ASSUME NEW t \in Txs, Mine(t)
  PROVE  Handover!Announce
<1>1. /\ mined' = mined \cup {t}
      /\ UNCHANGED <<registry, nextId, polls, ready, handed>>
  BY DEF Mine, agentVars, ledgerVars, historyVars
<1>2. Announced \subseteq Announced' /\ Pending' = Pending /\ Entries' = Entries
  BY <1>1, AnnouncedGrows DEF Pending, Entries
<1> QED
  BY <1>1, <1>2 DEF Handover!Announce

\* An answer: the registry loses the entries it names, under whatever owner, since the
\* request and the registry agree on owners.
LEMMA AnswerHandover ==
  ASSUME TypeOK, RequestInv, HandleSomeTradeable
  PROVE  Handover!AnswerSome
<1>1. PICK i \in 1..Len(polls), n \in 0..MaxIds :
        \E tradeable \in {s \in [1..n -> polls[i]] : IsInjective(s)} :
          \E expired \in SUBSET (polls[i] \ ToSet(tradeable)) :
            HandleTradeable(i, tradeable, expired)
  BY DEF HandleSomeTradeable
<1>2. PICK tradeable \in [1..n -> polls[i]] :
        /\ IsInjective(tradeable)
        /\ \E expired \in SUBSET (polls[i] \ ToSet(tradeable)) :
             HandleTradeable(i, tradeable, expired)
  BY <1>1
<1>3. PICK expired \in SUBSET (polls[i] \ ToSet(tradeable)) :
        HandleTradeable(i, tradeable, expired)
  BY <1>2
<1> DEFINE over == ToSet(tradeable)
           orders == [k \in 1..Len(tradeable) |->
                        [owner |-> tradeable[k].owner, params |-> tradeable[k].params]]
<1>4. /\ registry' = Without(over \cup expired)
      /\ ready' = ready \o orders
      /\ handed' = [k \in Ids |-> handed[k] + IF k \in IdsOf(over) THEN 1 ELSE 0]
      /\ UNCHANGED <<mined, nextId>>
  BY <1>3 DEF HandleTradeable, HandOver
<1>5. Pending = polls[i] /\ polls[i] \subseteq SnapshotEntry /\ polls' = <<>>
  BY <1>3, OnlyRequest DEF HandleTradeable, HandOver
<1>6. n \in Nat /\ Len(tradeable) = n /\ DOMAIN tradeable = 1..n
  BY MonitoringAssumption
<1>7. over \subseteq polls[i] /\ over = {tradeable[k] : k \in 1..n}
  BY <1>6 DEF ToSet
<1>8. IdsOf(over) \subseteq Ids /\ Handover!Ids(over) = IdsOf(over)
  BY <1>5, <1>7 DEF IdsOf, SnapshotEntry, Handover!Ids
<1>9. Pending' = {} /\ Announced' = Announced
  BY <1>4, <1>5 DEF Pending, Announced
<1>10. Len(ready') - Len(ready) = n
  <2>1. orders \in Seq(DiscreteOrder) /\ Len(orders) = n
    <3>1. \A k \in 1..n : orders[k] \in DiscreteOrder
      BY <1>5, <1>6 DEF SnapshotEntry, DiscreteOrder
    <3> QED
      BY <1>6, <3>1
  <2>2. ready \in Seq(DiscreteOrder)
    BY DEF TypeOK, DataOK
  <2> HIDE DEF orders
  <2> QED
    BY <1>4, <1>6, <2>1, <2>2
<1>11. IdsOf(over) \cap {k \in Ids : handed[k] > 0} = {}
  BY <1>5, <1>7 DEF RequestInv, NotYetHanded, IdsOf
<1>12. {k \in Ids : handed'[k] > 0} = {k \in Ids : handed[k] > 0} \cup IdsOf(over)
  BY <1>4, <1>8 DEF TypeOK, DataOK
<1>13. Entries' = {e \in Entries : e.id \notin Handover!Ids(over \cup expired)}
  <2> DEFINE entries == over \cup expired
  <2>1. entries \subseteq Pending
    BY <1>5, <1>7
  <2>2. \A w, c : \/ ~(w \in DOMAIN registry' /\ c \in registry'[w])
                  \/ /\ w \in DOMAIN registry /\ c \in registry[w]
                     /\ \A e \in entries : e.owner = w => c.id # e.id
    BY <1>4 DEF Without
  <2>3. \A w \in DOMAIN registry : \A c \in registry[w] :
          (\A e \in entries : e.owner = w => c.id # e.id)
            => w \in DOMAIN registry' /\ c \in registry'[w]
    BY <1>4 DEF Without
  <2>4. \A w \in DOMAIN registry : \A c \in registry[w] : \A e \in entries :
          c.id = e.id => w = e.owner
    BY <2>1 DEF RequestInv, PendingMatchesRegistry
  <2>5. \A w, c : Entry(w, c).id \notin Handover!Ids(entries)
                    <=> \A e \in entries : c.id # e.id
    BY DEF Entry, Handover!Ids
  <2> HIDE DEF entries
  <2>6. \A w, c : (w \in DOMAIN registry' /\ c \in registry'[w])
                    <=> /\ w \in DOMAIN registry /\ c \in registry[w]
                        /\ Entry(w, c).id \notin Handover!Ids(entries)
    BY <2>2, <2>3, <2>4, <2>5
  <2>7. Entries' = {e \in Entries : e.id \notin Handover!Ids(entries)}
    BY <2>6, EntriesByOwner
  <2> QED
    BY <2>7 DEF entries
<1>14. ready' = ready \o [k \in 1..Len(tradeable) |-> Handover!Order(tradeable[k])]
  BY <1>4 DEF Handover!Order
<1>15. Handover!ToSet(tradeable) = over
  BY DEF ToSet, Handover!ToSet
<1>16. Handover!Answer(tradeable, expired)
  <2>1. /\ Handover!Ids(over) \cap {k \in Ids : handed[k] > 0} = {}
        /\ {k \in Ids : handed[k] > 0}' = {k \in Ids : handed[k] > 0} \cup Handover!Ids(over)
    BY <1>8, <1>11, <1>12
  <2>2. UNCHANGED <<Announced, nextId>>
    BY <1>4, <1>9
  <2> HIDE DEF over, orders
  <2> QED
    BY <1>9, <1>13, <1>14, <1>15, <2>1, <2>2, Zenon DEF Handover!Answer
<1>17. Handover!IsInjective(tradeable)
  BY <1>2 DEF IsInjective, Handover!IsInjective
<1> QED
  BY <1>2, <1>3, <1>5, <1>10, <1>15, <1>16, <1>17, Zenon DEF Handover!AnswerSome

\* The events' answer: what is new in the registry was announced, and only entries below
\* the root of its owner are flushed.
LEMMA EventsHandover ==
  ASSUME TypeOK, RequestInv, AnnouncedOnly, NEW t \in Txs, HandleEvents(t)
  PROVE  Handover!Register
<1>1. /\ registry' = AfterEvents(t) /\ nextId' = nextId + Additions(t)
      /\ UNCHANGED <<ready, polls, mined, handed>>
      /\ EventsAnswered(t) /\ ~RootSetFails(t) /\ eventRequests[t] > 0
  BY DEF HandleEvents, EventsAnswered
<1>2. EventsAdded(t, nextId', registry')
  BY <1>1, AfterEventsContents
<1>3. /\ RegistryOK(registry, nextId) /\ RegistryOK(registry', nextId')
      /\ \A w \in DOMAIN registry' : \A c \in registry'[w] :
           c.id >= nextId \/ (w \in DOMAIN registry /\ c \in registry[w])
      /\ nextId \in 1..(MaxIds + 1) /\ nextId' \in 1..(MaxIds + 1) /\ nextId' >= nextId
  <2>1. Additions(t) \in Nat /\ nextId \in 1..(MaxIds + 1) /\ MaxIds \in Nat
    <3>1. Len(Created[t]) \in Nat
      BY MonitoringAssumption
    <3>2. RootSet[t] # None => Len(RootSet[t].orders) \in Nat
      BY EventArguments
    <3>3. Additions(t) \in Nat
      <4>1. CASE RootSet[t] = None
        BY <3>1, <4>1 DEF Additions
      <4>2. CASE RootSet[t] # None
        <5> DEFINE m == Len(Created[t])
                   k == Len(RootSet[t].orders)
        <5>1. m \in Nat /\ k \in Nat /\ Additions(t) = m + k
          BY <3>1, <3>2, <4>2 DEF Additions
        <5> HIDE DEF m, k
        <5> QED
          BY <5>1
      <4> QED
        BY <4>1, <4>2
    <3> QED
      BY <3>3, MonitoringAssumption DEF TypeOK, DataOK
  <2>2. nextId' >= nextId
    BY <1>1, <2>1
  <2> QED
    BY <1>1, <2>1, <2>2, AfterEventsOK DEF RequestInv, IdsUnique
<1>4. \A w \in DOMAIN registry' : \A c \in registry'[w] :
        c.id \in 1..MaxIds /\ c.id < nextId'
  BY <1>3 DEF RegistryOK, ConditionalOrder, Ids
<1>5. Pending' = Pending /\ Announced' = Announced
  BY <1>1 DEF Pending, Announced
<1>6. Handover!Fresh(Entries' \ Entries)
  <2>1. ASSUME NEW e \in Entries' \ Entries
        PROVE  \E w \in DOMAIN registry' : \E c \in registry'[w] :
                 /\ e = Entry(w, c) /\ c.id \in nextId..(nextId' - 1)
                 /\ IsAnnounced(w, c.params.value)
    <3>1. PICK w \in DOMAIN registry' : \E c \in registry'[w] : e = Entry(w, c)
      BY EntriesByOwner
    <3>2. PICK c \in registry'[w] : e = Entry(w, c)
      BY <3>1
    <3>3. ~(w \in DOMAIN registry /\ c \in registry[w])
      BY <2>1, <3>2, EntriesByOwner
    <3>4. Announces(t, w, c.params.value)
      BY <1>2, <3>3 DEF EventsAdded
    <3>5. t \in mined
      BY <1>1 DEF AnnouncedOnly
    <3>6. IsAnnounced(w, c.params.value)
      BY <3>4, <3>5 DEF Announces, IsAnnounced, Announced
    <3>7. c.id \in nextId..(nextId' - 1)
      BY <1>3, <1>4, <3>3
    <3> QED
      BY <3>2, <3>6, <3>7
  <2>2. \A e \in Entries' \ Entries :
          e.id \in nextId..(nextId' - 1) /\ Handover!Order(e) \in Announced
    <3>1. \A w, c : /\ Entry(w, c).id = c.id
                    /\ Handover!Order(Entry(w, c))
                         = [owner |-> w, params |-> c.params.value]
      BY DEF Entry, Handover!Order
    <3> SUFFICES ASSUME NEW e \in Entries' \ Entries
                 PROVE  e.id \in nextId..(nextId' - 1) /\ Handover!Order(e) \in Announced
      OBVIOUS
    <3>2. PICK w \in DOMAIN registry' : \E c \in registry'[w] :
            /\ e = Entry(w, c) /\ c.id \in nextId..(nextId' - 1)
            /\ IsAnnounced(w, c.params.value)
      BY <2>1
    <3> QED
      BY <3>1, <3>2 DEF IsAnnounced
  <2>3. \A e, f \in Entries' \ Entries : e.id = f.id => e = f
    BY <1>3, <2>1 DEF RegistryOK, Entry
  <2> QED
    BY <2>2, <2>3 DEF Handover!Fresh
<1>7. \A w \in DOMAIN registry : \A c \in registry[w] :
        Entry(w, c) \in Entries' <=> ~FlushedBy(t, w, c)
  <2> SUFFICES ASSUME NEW w \in DOMAIN registry, NEW c \in registry[w]
               PROVE  Entry(w, c) \in Entries' <=> w \in DOMAIN registry' /\ c \in registry'[w]
    BY <1>2 DEF EventsAdded
  <2>1. ASSUME NEW v \in DOMAIN registry', NEW d \in registry'[v],
               Entry(w, c) = Entry(v, d)
        PROVE  w = v /\ c = d
    <3>1. w = v /\ c.id = d.id
      BY <2>1 DEF Entry
    <3>2. c.id < nextId /\ c.id \in 1..MaxIds
      BY <1>3 DEF RegistryOK, ConditionalOrder, Ids
    <3>3. v \in DOMAIN registry /\ d \in registry[v]
      BY <1>3, <3>1, <3>2
    <3> QED
      BY <1>3, <3>1, <3>3 DEF RegistryOK
  <2> QED
    BY <2>1, EntriesByOwner
<1>8. \/ Entries \subseteq Entries'
      \/ \E e \in Entries : Entries \ Entries' = Handover!Below(e.owner, e.root)
  <2> SUFFICES ASSUME NEW e \in Entries, e \notin Entries'
               PROVE  Entries \ Entries' = Handover!Below(e.owner, e.root)
    OBVIOUS
  <2>1. PICK w \in DOMAIN registry : \E c \in registry[w] : e = Entry(w, c)
    BY EntriesByOwner
  <2>2. RootSet[t] # None /\ e.owner = RootSet[t].owner /\ e.root = RootSet[t].root
    <3>1. PICK c \in registry[w] : e = Entry(w, c)
      BY <2>1
    <3>2. FlushedBy(t, w, c) /\ e.owner = w /\ e.root = c.root
      BY <1>7, <3>1 DEF Entry
    <3> QED
      BY <3>2 DEF FlushedBy
  <2>3. \A f \in Entries :
          f \notin Entries' <=> f.owner = RootSet[t].owner /\ f.root = RootSet[t].root
    <3> SUFFICES ASSUME NEW v \in DOMAIN registry, NEW d \in registry[v]
                 PROVE  Entry(v, d) \notin Entries' <=>
                          /\ Entry(v, d).owner = RootSet[t].owner
                          /\ Entry(v, d).root = RootSet[t].root
      BY EntriesByOwner
    <3> QED
      BY <1>7, <2>2 DEF FlushedBy, Entry
  <2> QED
    BY <2>2, <2>3 DEF Handover!Below
<1> QED
  BY <1>1, <1>3, <1>5, <1>6, <1>8 DEF Handover!Register

\* Each step of the monitoring is one of the handover, or none.
LEMMA StepHandover ==
  ASSUME TypeOK, RequestInv, AnnouncedOnly, [Next]_vars
  PROVE  [Handover!Next]_Handover!vars
<1>1. CASE UNCHANGED <<mined, registry, nextId, polls, ready, handed>>
  BY <1>1, StutterHandover
<1>2. CASE SendEnvelope \/ Subscribe \/ Disconnect \/ Reconnect \/ ReconnectUnseen \/ UNCHANGED vars
  BY <1>1, <1>2 DEF SendEnvelope, Subscribe, Disconnect, Reconnect, ReconnectUnseen,
                    NewSession, vars, agentVars, ledgerVars, historyVars
<1>3. CASE \E t \in Txs : HandleNotification(t) \/ HandleEventsError(t)
  BY <1>1, <1>3 DEF HandleNotification, HandleEventsError, agentVars, historyVars
<1>4. CASE Act
  BY <1>4, ActHandover DEF Handover!Next
<1>5. CASE Restart \/ SubscribeRejected \/ \E t \in Txs : HandleEventsFails(t)
  BY <1>5, ExitHandover DEF Restart, SubscribeRejected, HandleEventsFails, Handover!Next
<1>6. CASE \E t \in Txs : Mine(t) \/ HandleEvents(t)
  BY <1>6, MineHandover, EventsHandover DEF Handover!Next
<1>7. CASE HandleSomeTradeable
  BY <1>7, AnswerHandover DEF Handover!Next
<1>8. ASSUME NEW i \in 1..Len(polls), HandleTradeableError(i)
      PROVE  Handover!Next
  <2>1. UNCHANGED <<mined, registry, nextId, ready, handed>> /\ polls' = <<>>
    BY <1>8, OnlyRequest DEF HandleTradeableError, agentVars, historyVars
  <2>2. Announced' = Announced /\ Entries' = Entries /\ Pending' = {}
    BY <2>1 DEF Announced, Entries, Pending
  <2> QED
    BY <2>1, <2>2 DEF Handover!NoAnswer, Handover!Next
<1> QED
  BY <1>2, <1>3, <1>4, <1>5, <1>6, <1>7, <1>8, Zenon DEF Next

\* The monitoring of an agent, with its websocket, requests, flags and faults,
\* implements the abstract handover.
THEOREM ImplementsHandover == Spec => HandsOverOrders
<1>1. MonitoringInv /\ [Next]_vars => [Handover!Next]_Handover!vars
  BY StepHandover DEF MonitoringInv, RequestInv
<1> QED
  BY <1>1, InitHandover, MonitoringInvariant, PTL DEF Spec, HandsOverOrders, Handover!Spec

=============================================================================
