----------------------------- MODULE Watchtower -----------------------------
(***************************************************************************)
(* The service as a whole: each agent's monitoring skill, reduced to what  *)
(* decides which orders the agent is handed, together with the rounds of   *)
(* CowOrders.                                                              *)
(*                                                                         *)
(* A conditional order is announced by an event and stands for one         *)
(* discrete order after the other, its parts; which part is tradeable      *)
(* depends on the block time.  Each agent hears of the event by itself,    *)
(* polls by itself, and hands its rounds the part of the time of its own   *)
(* poll.  OrderMonitoring has the details of one agent's monitoring; here  *)
(* an answer of the contract is about one conditional order.  An order     *)
(* that has expired makes the call revert: it is asked about for ever, or  *)
(* dropped if it expires while it is asked about (TwapOrders).             *)
(***************************************************************************)
EXTENDS CowOrdersProperties

CONSTANTS
  \* The conditional orders, those of the TWAP type (one of another type does not
  \* decode and stays in the registry, see TwapOrders), and how many parts each of
  \* them has.  Orders, the constant of CowOrders, is Part(c, k) for all of them.
  Conditionals,
  Parts,
  Part(_, _),
  \* How often a subscribed agent is notified of the event of an order: once for
  \* each event of the transaction and each subscription of the session.
  Notices,
  \* The conditional orders that should_drop_order takes for expired at once, as it
  \* reads their start from the wrong place (TwapOrders).
  Misdated,
  \* The agents that may miss events, get no answer about them, or restart.
  Lossy

ASSUME WatchtowerAssumption ==
  /\ Parts \in Nat \ {0}
  /\ Notices \in Nat
  /\ Misdated \subseteq Conditionals
  /\ Lossy \subseteq Agents
  /\ Orders = {Part(c, k) : c \in Conditionals, k \in 0..(Parts - 1)}
  /\ \A c, d \in Conditionals : \A j, k \in 0..(Parts - 1) :
       Part(c, j) = Part(d, k) => c = d /\ j = k

VARIABLES
  mined,       \* conditional orders whose event is on the chain
  part,        \* the part of each conditional order that is tradeable now, or Parts
               \* once it has expired
  subscribed,  \* whether the agent's websocket session has a subscription
  requests,    \* process_order_events requests of the agent without an answer
  registry     \* how many entries shared_state["orders"] has for the order

monitorVars == <<mined, part, subscribed, requests, registry>>
watchVars == <<vars, monitorVars>>

MonitorTypeOK ==
  /\ mined \subseteq Conditionals
  /\ part \in [Conditionals -> 0..Parts]
  /\ subscribed \in [Agents -> BOOLEAN]
  /\ requests \in [Agents -> [Conditionals -> Nat]]
  /\ registry \in [Agents -> [Conditionals -> Nat]]

-----------------------------------------------------------------------------
\* Agents that lose nothing are subscribed before the first event.
WatchInit ==
  /\ Init
  /\ mined = {}
  /\ part = [c \in Conditionals |-> 0]
  /\ subscribed \in [Agents -> BOOLEAN]
  /\ \A a \in Agents \ Lossy : subscribed[a]
  /\ requests = [a \in Agents |-> [c \in Conditionals |-> 0]]
  /\ registry = [a \in Agents |-> [c \in Conditionals |-> 0]]

\* The event of c is on the chain; each notification makes a subscribed agent ask
\* for the events of the transaction.
Mine(c) ==
  /\ c \notin mined
  /\ mined' = mined \cup {c}
  /\ requests' = [a \in Agents |->
                    IF subscribed[a] THEN [requests[a] EXCEPT ![c] = @ + Notices]
                                     ELSE requests[a]]
  /\ UNCHANGED <<vars, part, subscribed, registry>>

\* The block time passes the end of a part; after the last one the order has expired.
NextPart(c) ==
  /\ part[c] < Parts
  /\ part' = [part EXCEPT ![c] = @ + 1]
  /\ UNCHANGED <<vars, mined, subscribed, requests, registry>>

\* Faulty variant of HandleEvents: the request is taken for unanswered.
HandleEventsAgain(a, c) ==
  /\ requests[a][c] > 0
  /\ registry[a][c] < 2
  /\ registry' = [registry EXCEPT ![a][c] = @ + 1]
  /\ UNCHANGED <<vars, mined, part, subscribed, requests>>

\* Faulty variant of HandleEvents: the registry is changed, but not stored.
HandleEventsNotStored(a, c) ==
  /\ requests[a][c] > 0
  /\ requests' = [requests EXCEPT ![a][c] = @ - 1]
  /\ UNCHANGED <<vars, mined, part, subscribed, registry>>

\* The handler registers the order; that the same params are registered already is
\* not noticed.
HandleEvents(a, c) ==
  /\ requests[a][c] > 0
  /\ requests' = [requests EXCEPT ![a][c] = @ - 1]
  /\ registry' = [registry EXCEPT ![a][c] = @ + 1]
  /\ UNCHANGED <<vars, mined, part, subscribed>>

\* An error answer is logged and dropped, and nobody asks again.
HandleEventsError(a, c) ==
  /\ a \in Lossy
  /\ requests[a][c] > 0
  /\ requests' = [requests EXCEPT ![a][c] = @ - 1]
  /\ UNCHANGED <<vars, mined, part, subscribed, registry>>

\* The session and its subscription are lost, events included that are announced
\* before act() subscribes again.
Disconnect(a) ==
  /\ a \in Lossy
  /\ subscribed[a]
  /\ subscribed' = [subscribed EXCEPT ![a] = FALSE]
  /\ UNCHANGED <<vars, mined, part, requests, registry>>

Resubscribe(a) ==
  /\ ~subscribed[a]
  /\ subscribed' = [subscribed EXCEPT ![a] = TRUE]
  /\ UNCHANGED <<vars, mined, part, requests, registry>>

\* The contract has answered with the current part of c: the handler takes the entry
\* out of the registry, and the part becomes a ready order.
HandleTradeable(a, c) ==
  /\ registry[a][c] > 0
  /\ part[c] < Parts /\ c \notin Misdated
  /\ HandOver(a, Part(c, part[c]))
  /\ registry' = [registry EXCEPT ![a][c] = @ - 1]
  /\ UNCHANGED <<mined, part, subscribed, requests>>

\* The contract has answered with a part, and should_drop_order takes the order for
\* expired: it is, since a block came between its calls, or its start is misread.  The
\* handler takes the entry out of the registry and hands nothing over.
DropOrder(a, c) ==
  /\ registry[a][c] > 0
  /\ part[c] = Parts \/ c \in Misdated
  /\ registry' = [registry EXCEPT ![a][c] = @ - 1]
  /\ UNCHANGED <<vars, mined, part, subscribed, requests>>

\* The process ends and starts again, with an empty registry and no subscription.
RestartAgent(a) ==
  /\ a \in Lossy
  /\ Restart(a)
  /\ subscribed' = [subscribed EXCEPT ![a] = FALSE]
  /\ requests' = [requests EXCEPT ![a] = [c \in Conditionals |-> 0]]
  /\ registry' = [registry EXCEPT ![a] = [c \in Conditionals |-> 0]]
  /\ UNCHANGED <<mined, part>>

\* A step of the rounds, or of the keeper's request.
RoundStep ==
  /\ EndOfRound \/ PostStep \/ \E a \in Agents : VoteStep(a)
  /\ UNCHANGED monitorVars

MonitorStep ==
  \/ \E c \in Conditionals : Mine(c) \/ NextPart(c)
  \/ \E a \in Agents :
       \/ Disconnect(a)
       \/ Resubscribe(a)
       \/ RestartAgent(a)
       \/ \E c \in Conditionals :
            \/ HandleEvents(a, c)
            \/ HandleEventsError(a, c)
            \/ HandleTradeable(a, c)
            \/ DropOrder(a, c)

WatchNext == RoundStep \/ MonitorStep

WatchSpec == WatchInit /\ [][WatchNext]_watchVars

(* Fairness: of the rounds as in CowOrders; requests are answered, and           *)
(* registered orders are polled again and again, so that an order that stays     *)
(* tradeable is found so.  The chain, its time and all losses are not fair, and   *)
(* neither is a new subscription after a loss, which act() may not notice.        *)
WatchFairness ==
  /\ RoundFairness
  /\ \A a \in Up, c \in Conditionals :
       /\ WF_watchVars(HandleEvents(a, c))
       /\ WF_watchVars(HandleTradeable(a, c))

WatchFairSpec == WatchSpec /\ WatchFairness

-----------------------------------------------------------------------------
(* Properties *)

\* The monitoring of each agent is an environment as the rounds expect it: it hands
\* an agent no order more often than MaxCopies, whatever notifications, errors and
\* restarts there are, and touches nothing of the rounds but the agent's own list.
RunsRounds == Spec

\* Of a conditional order the service processes and verifies one part only.  The
\* agents may be handed different parts, but each agent one, as its registry forgets
\* the order with its first part (_handle_get_tradeable_order), and the quorums
\* that select two parts would have an agent in common.
OnePartForwarded ==
  \A c \in Conditionals : \A j, k \in 0..(Parts - 1) :
    Part(c, j) \in done /\ Part(c, k) \in done \cup {Processing} => j = k

\* No agent that loses nothing was handed another part of c than k.
OnlyPart(c, k) ==
  \A a \in Agents \ Lossy : \A j \in 0..(Parts - 1) :
    received[a][Part(c, j)] > 0 => j = k

\* The tradeable part of the mined order c is not in the API's book, and nothing that
\* was handed over before is in its way.
Waiting(c) ==
  /\ c \in mined
  /\ \E k \in 0..(Parts - 1) : part[c] = k /\ OnlyPart(c, k) /\ Part(c, k) \notin book

\* No part of a mined order waits for ever: if it stays tradeable, it reaches the CoW API
\* in the end, although some agents (too few to break a quorum) miss the event, get an
\* error instead of its contents, or forget the order.  It promises nothing once the time
\* of the part has passed, of orders that are dropped by mistake, and if an agent was
\* handed an earlier part: agents with different parts may never agree on one.
MinedForwarded == \A c \in Conditionals \ Misdated : []<>~Waiting(c)

-----------------------------------------------------------------------------
(* The inductive invariant behind RunsRounds and OnePartForwarded. *)

PartIndex == 0..(Parts - 1)

\* Nothing of an order is known before its event is mined.
Unannounced ==
  \A a \in Agents, c \in Conditionals \ mined :
    /\ requests[a][c] = 0
    /\ registry[a][c] = 0
    /\ \A k \in PartIndex : received[a][Part(c, k)] = 0

\* What an agent has been handed of c, what its registry holds and what it still
\* asks for never exceed the notices ...
CopiesBounded ==
  \A a \in Agents, c \in Conditionals : \A k \in PartIndex :
    received[a][Part(c, k)] + registry[a][c] + requests[a][c] =< Notices

\* ... and neither do two different parts together.
PartsBounded ==
  \A a \in Agents, c \in Conditionals : \A j, k \in PartIndex :
    j # k =>
      received[a][Part(c, j)] + received[a][Part(c, k)]
        + registry[a][c] + requests[a][c] =< Notices

MonitorInv == MonitorTypeOK /\ Unannounced /\ CopiesBounded /\ PartsBounded

\* The quorum that selected a verified order was handed it.
DoneHeld == \A o \in done : \E Q \in Quorums : \A a \in Q : received[a][o] > 0

\* The bookkeeping of notices, registries and lists, and the quorum behind each
\* verified order.
WatchInv == MonitorInv /\ DoneHeld

=============================================================================
