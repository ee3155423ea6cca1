----------------------------- MODULE TwapOrders -----------------------------
(***************************************************************************)
(* What the package composable_cow does when the agent polls its           *)
(* conditional orders: get_tradeable_order asks the chain about one order  *)
(* after the other, decides whether the order should be dropped, and       *)
(* returns the tradeable orders and the ones to drop; the handler of       *)
(* order_monitoring takes both out of the registry.  The registry has an   *)
(* entry, with an id of its own, for each registration: the same order may *)
(* be registered again, while its entry is there and after it has gone.    *)
(*                                                                         *)
(* A TWAP order has n parts, one each t seconds; orders of other types are *)
(* asked about in the same way, with data that does not decode as a TWAP.  *)
(* The call takes several requests to the node, and new blocks arrive      *)
(* between them.  The contract on the chain is external: an order starts   *)
(* at t0, or at the time in the contract's cabinet if t0 is 0, and a part  *)
(* is tradeable for its whole period t, or for its first span seconds if   *)
(* span is not 0.                                                          *)
(***************************************************************************)
EXTENDS Integers, FiniteSets

CONSTANTS
  \* The conditional orders.
  Orders,
  \* Twap[o]: the TWAP struct of o, with the cabinet's entry for o (0 if none).
  Twap,
  \* The orders of another type than TWAP.  For the contract on the chain Twap tells
  \* when they are tradeable.
  OtherTypes,
  \* The last block time that is looked at.
  MaxTime,
  \* How many registrations there may be.
  MaxIds,
  \* How many requests to the node may fail.
  MaxFaults,
  \* No order is being looked at.
  None

TwapData == [t0 : Nat, cabinet : Nat, n : Nat \ {0}, t : Nat \ {0}, span : Nat]

ASSUME TwapAssumption ==
  /\ Twap \in [Orders -> TwapData]
  /\ OtherTypes \subseteq Orders
  /\ MaxTime \in Nat /\ MaxIds \in Nat /\ MaxFaults \in Nat
  /\ None \notin [entry : [id : Nat, order : Orders], part : Nat]

VARIABLES
  now,        \* timestamp of the latest block
  nextId,     \* the id of the next entry, a uuid
  registry,   \* the entries the agent polls
  busy,       \* params.in_flight_req
  todo,       \* entries of the request that are still to be looked at
  current,    \* the part the chain has returned for the entry looked at, or None
  tradeable,  \* tradeable_orders of get_tradeable_order
  drops,      \* drop_orders of get_tradeable_order
  handed,     \* the parts that became ready orders (history)
  dropped,    \* the entries dropped, with the block time of the decision (history)
  faults      \* how many requests have failed

callVars == <<todo, current, tradeable, drops>>
vars == <<now, nextId, registry, busy, callVars, handed, dropped, faults>>

Entry == [id : Nat, order : Orders]
Part == [entry : Entry, part : Nat]
Drop == [entry : Entry, at : Nat]

TypeOK ==
  /\ now \in 0..MaxTime
  /\ nextId \in 0..MaxIds
  /\ registry \subseteq Entry /\ todo \subseteq Entry
  /\ busy \in BOOLEAN
  /\ current \in Part \cup {None}
  /\ tradeable \subseteq Part /\ handed \subseteq Part
  /\ drops \subseteq Drop /\ dropped \subseteq Drop
  /\ faults \in 0..MaxFaults

-----------------------------------------------------------------------------
(* The contract on the chain *)

ChainStart(o) == IF Twap[o].t0 # 0 THEN Twap[o].t0 ELSE Twap[o].cabinet

PartAt(o, time) == (time - ChainStart(o)) \div Twap[o].t

\* getTradeableOrderWithSignature does not revert.
ChainTradeable(o, time) ==
  /\ ChainStart(o) =< time
  /\ PartAt(o, time) < Twap[o].n
  /\ Twap[o].span = 0
       \/ time < ChainStart(o) + PartAt(o, time) * Twap[o].t + Twap[o].span

\* No part of the order becomes tradeable any more.
Expired(o, time) ==
  time >= ChainStart(o) + (IF Twap[o].span = 0
                           THEN Twap[o].n * Twap[o].t
                           ELSE (Twap[o].n - 1) * Twap[o].t + Twap[o].span)

-----------------------------------------------------------------------------
(* should_drop_order *)

\* get_start_timestamp
StartTimestamp(o) == IF Twap[o].span # 0 THEN Twap[o].t0 ELSE Twap[o].cabinet

\* Faulty variant of EndTimestamp: the last part is forgotten.
EndTimestampTooEarly(o) == StartTimestamp(o) + (Twap[o].n - 1) * Twap[o].t

\* get_end_timestamp
EndTimestamp(o) ==
  IF Twap[o].span = 0
  THEN StartTimestamp(o) + Twap[o].n * Twap[o].t
  ELSE StartTimestamp(o) + (Twap[o].n - 1) * Twap[o].t + Twap[o].span

ShouldDrop(o, time) == StartTimestamp(o) =< time /\ time >= EndTimestamp(o)

-----------------------------------------------------------------------------
Init ==
  /\ now = 0
  /\ nextId = 0
  /\ registry = {}
  /\ busy = FALSE
  /\ todo = {}
  /\ current = None
  /\ tradeable = {}
  /\ drops = {}
  /\ handed = {}
  /\ dropped = {}
  /\ faults = 0

Block ==
  /\ now < MaxTime
  /\ now' = now + 1
  /\ UNCHANGED <<nextId, registry, busy, callVars, handed, dropped, faults>>

\* The handler of the events registers an order, whether or not it has an entry: the
\* check in _add_contract compares a dataclass with a mapping and never finds it.
Register(o) ==
  /\ nextId < MaxIds
  /\ nextId' = nextId + 1
  /\ registry' = registry \cup {[id |-> nextId, order |-> o]}
  /\ UNCHANGED <<now, busy, callVars, handed, dropped, faults>>

\* act() sends the registry, and the contract package starts to work on it.
Ask ==
  /\ ~busy
  /\ registry # {}
  /\ busy' = TRUE
  /\ todo' = registry
  /\ tradeable' = {}
  /\ drops' = {}
  /\ UNCHANGED <<now, nextId, registry, current, handed, dropped, faults>>

\* Faulty variant of GetTradeable: a call that reverts is not caught.
GetTradeableUncaught(e) ==
  /\ busy
  /\ current = None
  /\ ChainTradeable(e.order, now)
  /\ todo' = todo \ {e}
  /\ current' = [entry |-> e, part |-> PartAt(e.order, now)]
  /\ UNCHANGED <<now, nextId, registry, busy, tradeable, drops, handed, dropped, faults>>

\* The chain is asked for the tradeable part of the next order.  If the call
\* reverts, the exception is logged and the order is skipped.
GetTradeable(e) ==
  /\ busy
  /\ current = None
  /\ todo' = todo \ {e}
  /\ current' = IF ChainTradeable(e.order, now)
                THEN [entry |-> e, part |-> PartAt(e.order, now)]
                ELSE None
  /\ UNCHANGED <<now, nextId, registry, busy, tradeable, drops, handed, dropped, faults>>

\* decode_twap_struct raises for the data of another type, although the chain has a
\* tradeable order: that order is skipped in every request.
DecodeFails ==
  /\ current # None /\ current.entry.order \in OtherTypes
  /\ current' = None
  /\ UNCHANGED <<now, nextId, registry, busy, todo, tradeable, drops, handed, dropped, faults>>

\* Faulty variant of Classify: no continue after the order was dropped.
ClassifyFallsThrough ==
  /\ current # None /\ current.entry.order \notin OtherTypes
  /\ drops' = drops \cup (IF ShouldDrop(current.entry.order, now)
                           THEN {[entry |-> current.entry, at |-> now]}
                           ELSE {})
  /\ tradeable' = tradeable \cup {current}
  /\ current' = None
  /\ UNCHANGED <<now, nextId, registry, busy, todo, handed, dropped, faults>>

\* should_drop_order reads the latest block, and the order goes to one of the lists.
Classify ==
  /\ current # None /\ current.entry.order \notin OtherTypes
  /\ IF ShouldDrop(current.entry.order, now)
     THEN /\ drops' = drops \cup {[entry |-> current.entry, at |-> now]}
          /\ UNCHANGED tradeable
     ELSE /\ tradeable' = tradeable \cup {current}
          /\ UNCHANGED drops
  /\ current' = None
  /\ UNCHANGED <<now, nextId, registry, busy, todo, handed, dropped, faults>>

\* A request to the node fails while an order is looked at: it is skipped.
RequestFails ==
  /\ faults < MaxFaults
  /\ faults' = faults + 1
  /\ \/ \E e \in todo : current = None /\ todo' = todo \ {e} /\ UNCHANGED current
     \/ current # None /\ current' = None /\ UNCHANGED todo
  /\ UNCHANGED <<now, nextId, registry, busy, tradeable, drops, handed, dropped>>

\* Faulty variant of Answer: the tradeable orders stay in the registry.
AnswerKeeps ==
  /\ busy
  /\ todo = {} /\ current = None
  /\ registry' = registry \ {d.entry : d \in drops}
  /\ handed' = handed \cup tradeable
  /\ dropped' = dropped \cup drops
  /\ busy' = FALSE
  /\ tradeable' = {} /\ drops' = {}
  /\ UNCHANGED <<now, nextId, todo, current, faults>>

\* The answer reaches the handler.
Answer ==
  /\ busy
  /\ todo = {} /\ current = None
  /\ registry' = registry \ ({p.entry : p \in tradeable} \cup {d.entry : d \in drops})
  /\ handed' = handed \cup tradeable
  /\ dropped' = dropped \cup drops
  /\ busy' = FALSE
  /\ tradeable' = {} /\ drops' = {}
  /\ UNCHANGED <<now, nextId, todo, current, faults>>

Next ==
  \/ Block
  \/ \E o \in Orders : Register(o)
  \/ \E e \in todo : GetTradeable(e)
  \/ Ask
  \/ DecodeFails
  \/ Classify
  \/ RequestFails
  \/ Answer

Spec == Init /\ [][Next]_vars

(* Time goes on, the agent polls, and the ledger connection works on each request. *)
Fairness ==
  /\ WF_vars(Block)
  /\ WF_vars(Ask)
  /\ WF_vars(\E e \in todo : GetTradeable(e))
  /\ WF_vars(Classify \/ DecodeFails)
  /\ WF_vars(Answer)

FairSpec == Spec /\ Fairness

-----------------------------------------------------------------------------
(* Properties *)

\* The entries in the lists of one answer.
Listed == {p.entry : p \in tradeable} \cup {d.entry : d \in drops}

\* What the handler relies on: an answer names an entry at most once, in one of
\* its lists only, and only entries of the request (get_tradeable_order).
AnswerWellFormed ==
  /\ \A p, q \in tradeable : p.entry = q.entry => p = q
  /\ \A p \in tradeable, d \in drops : p.entry # d.entry
  /\ \A d, e \in drops : d.entry = e.entry => d = e
  /\ Listed \subseteq registry \ todo

\* "The order has expired" (should_drop_order): an order is dropped only if no
\* part of it can become tradeable any more.
DroppedOnlyIfExpired == \A d \in dropped : Expired(d.entry.order, d.at)

\* A request is answered although the chain reverts for some of its orders and the
\* node fails: no order keeps the others from being looked at.
EveryRequestAnswered == busy ~> ~busy

\* Each registration of an order ends in one way: one of the n parts of the order is
\* handed over, or the entry is dropped, and neither happens twice or with the other
\* (_handle_get_tradeable_order takes the entry out of the registry).  An order that
\* is registered again may well be handed over again, with the same part or another.
PartsHanded ==
  /\ \A p \in handed : p.part < Twap[p.entry.order].n
  /\ \A p, q \in handed : p.entry = q.entry => p = q
  /\ \A d, e \in dropped : d.entry = e.entry => d = e
  /\ \A p \in handed, d \in dropped : p.entry # d.entry

-----------------------------------------------------------------------------
(* The inductive invariant *)

\* should_drop_order takes no order for started before it is: what it takes for the
\* start is t0 with a span and the cabinet's entry without one.
StartsNotEarly == \A o \in Orders \ OtherTypes : ChainStart(o) =< StartTimestamp(o)

\* A request is about entries of the registry, which keeps them until its answer.
RequestInRegistry ==
  /\ \A e \in registry : e.id < nextId
  /\ todo \subseteq registry
  /\ ~busy => todo = {} /\ current = None /\ tradeable = {} /\ drops = {}

\* The entry that is looked at is in none of the lists yet.
CurrentOnItsWay ==
  current # None =>
    /\ current.entry \in registry \ todo
    /\ current.entry \notin Listed
    /\ current.part < Twap[current.entry.order].n

\* The entries with a part that was handed over, and those that were dropped.
Gone == {p.entry : p \in handed} \cup {d.entry : d \in dropped}

\* The parts on their way are parts of their orders; an entry that is gone has an id
\* that was given away, and does not come back.
PartsOnTheirWay ==
  /\ \A p \in tradeable : p.part < Twap[p.entry.order].n
  /\ \A e \in Gone : e.id < nextId /\ e \notin registry

DropsExpired == \A d \in drops : Expired(d.entry.order, d.at)

PollInv ==
  /\ TypeOK
  /\ RequestInRegistry
  /\ CurrentOnItsWay
  /\ AnswerWellFormed
  /\ PartsOnTheirWay
  /\ PartsHanded
  /\ StartsNotEarly => DropsExpired /\ DroppedOnlyIfExpired

=============================================================================
