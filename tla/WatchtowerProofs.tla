-------------------------- MODULE WatchtowerProofs --------------------------
(***************************************************************************)
(* Proofs about the composition of monitoring and rounds.                  *)
(***************************************************************************)
EXTENDS Watchtower, CowOrdersProofs

-----------------------------------------------------------------------------
(* Each step of the service is a step of the rounds, or none.              *)

\* The rounds themselves hand over nothing.
LEMMA RoundsHandNothing ==
  ASSUME RoundStep
  PROVE  received' = received
<1> QED
  BY DEF RoundStep, VoteStep, EndOfRound, PostStep, SelectOrders, VerifyExecution,
         VerifyExecutionFailedGet, SelectOrdersDone, SelectOrdersNoAction,
         SelectOrdersNoMajority, ResetAndPause, RandomnessDone, SelectKeeperDone,
         SelectKeeperNoMajority, PlaceOrdersDone, PlaceOrdersTryNextBlock,
         VerifyExecutionDone, VerifyExecutionBadSubmission,
         VerifyExecutionNoMajority, TimeoutStalled, TimeoutEarly, RoundTimeout,
         PlaceOrder, PostAccepted, PostDuplicate, PostRefused, PostUnconfirmed,
         PostLost, LatePost, Answered, localVars, vars, apiVars

\* The current part of a conditional order that has not expired is an order.
LEMMA CurrentPart ==
  ASSUME MonitorTypeOK, NEW c \in Conditionals, part[c] < Parts
  PROVE  /\ part[c] \in PartIndex
         /\ Part(c, part[c]) \in Orders
<1>1. part[c] \in PartIndex
  BY WatchtowerAssumption DEF MonitorTypeOK, PartIndex
<1> QED
  BY <1>1, WatchtowerAssumption DEF PartIndex

LEMMA StepRefines ==
  ASSUME Notices =< MaxCopies, TypeInv, MonitorInv, [WatchNext]_watchVars
  PROVE  [Next]_vars
<1>1. CASE RoundStep
  BY <1>1 DEF RoundStep, Next, AgentStep
<1>2. ASSUME NEW a \in Agents, RestartAgent(a)
      PROVE  Next
  BY <1>2 DEF RestartAgent, Next, AgentStep
<1>3. ASSUME NEW a \in Agents, NEW c \in Conditionals, HandleTradeable(a, c)
      PROVE  Next
  <2> DEFINE o == Part(c, part[c])
  <2>1. MonitorTypeOK /\ CopiesBounded
    BY DEF MonitorInv
  <2>2. o \in Orders /\ part[c] \in PartIndex
    BY <1>3, <2>1, CurrentPart DEF HandleTradeable
  <2>3. received[a][o] + registry[a][c] + requests[a][c] =< Notices
    BY <2>1, <2>2 DEF CopiesBounded
  <2>4. received[a][o] \in Nat
    BY <2>2, ConstantAssumption DEF TypeInv, TypeOK
  <2>5. registry[a][c] \in Nat /\ requests[a][c] \in Nat
    BY <2>1 DEF MonitorTypeOK
  <2>6. registry[a][c] > 0 /\ HandOver(a, o)
    BY <1>3 DEF HandleTradeable
  <2>7. received[a][o] < MaxCopies
    <3> HIDE DEF o
    <3> QED
      BY <2>3, <2>4, <2>5, <2>6, WatchtowerAssumption, ConstantAssumption
  <2> QED
    BY <2>2, <2>6, <2>7 DEF TradeableOrder, Next, AgentStep
<1>4. ASSUME NEW a \in Agents, NEW c \in Conditionals,
             HandleEvents(a, c) \/ HandleEventsError(a, c)
      PROVE  UNCHANGED vars
  BY <1>4 DEF HandleEvents, HandleEventsError
<1>5. ASSUME NEW a \in Agents, Disconnect(a) \/ Resubscribe(a)
      PROVE  UNCHANGED vars
  BY <1>5 DEF Disconnect, Resubscribe
<1>6. ASSUME NEW c \in Conditionals, Mine(c) \/ NextPart(c)
      PROVE  UNCHANGED vars
  BY <1>6 DEF Mine, NextPart
<1>7. ASSUME NEW a \in Agents, NEW c \in Conditionals, DropOrder(a, c)
      PROVE  UNCHANGED vars
  BY <1>7 DEF DropOrder
<1>8. CASE UNCHANGED watchVars
  BY <1>8 DEF watchVars
<1> QED
  BY <1>1, <1>2, <1>3, <1>4, <1>5, <1>6, <1>7, <1>8 DEF WatchNext, MonitorStep

-----------------------------------------------------------------------------
(* The bookkeeping of notices.                                             *)

LEMMA MonitorInit == WatchInit => MonitorInv
<1> SUFFICES ASSUME WatchInit
             PROVE  MonitorInv
  OBVIOUS
<1>1. MonitorTypeOK
  BY WatchtowerAssumption DEF WatchInit, MonitorTypeOK
<1>2. \A a \in Agents, o \in Orders : received[a][o] = 0
  BY DEF WatchInit, Init, InitWith, ToSet
<1>3. \A c \in Conditionals, k \in PartIndex : Part(c, k) \in Orders
  BY WatchtowerAssumption DEF PartIndex
<1>4. \A a \in Agents, c \in Conditionals : requests[a][c] = 0 /\ registry[a][c] = 0
  BY DEF WatchInit
<1>5. Notices \in Nat
  BY WatchtowerAssumption
<1>6. Unannounced
  BY <1>2, <1>3, <1>4 DEF Unannounced
<1>7. CopiesBounded
  BY <1>2, <1>3, <1>4, <1>5 DEF CopiesBounded
<1>8. PartsBounded
  BY <1>2, <1>3, <1>4, <1>5 DEF PartsBounded
<1> QED
  BY <1>1, <1>6, <1>7, <1>8 DEF MonitorInv

\* A step that hands nothing over, and lets requests and registries only shrink
\* together, keeps it.
LEMMA BoundsKept ==
  ASSUME MonitorInv, MonitorTypeOK', mined \subseteq mined',
         received' = received,
         \A a \in Agents, c \in Conditionals, k \in PartIndex :
           received[a][Part(c, k)] \in Nat,
         \A a \in Agents, c \in Conditionals :
           /\ requests[a][c] = 0 /\ registry[a][c] = 0 =>
                requests'[a][c] = 0 /\ registry'[a][c] = 0
           /\ registry'[a][c] + requests'[a][c] =< registry[a][c] + requests[a][c]
  PROVE  MonitorInv'
<1>1. MonitorTypeOK /\ Unannounced /\ CopiesBounded /\ PartsBounded
  BY DEF MonitorInv
<1>2. Unannounced'
  BY <1>1 DEF Unannounced
<1>3. \A a \in Agents, c \in Conditionals :
        /\ registry[a][c] \in Nat /\ requests[a][c] \in Nat
        /\ registry'[a][c] \in Nat /\ requests'[a][c] \in Nat
  BY <1>1 DEF MonitorTypeOK
<1>4. CopiesBounded'
  BY <1>1, <1>3, WatchtowerAssumption DEF CopiesBounded
<1>5. PartsBounded'
  BY <1>1, <1>3, WatchtowerAssumption DEF PartsBounded
<1> QED
  BY <1>2, <1>4, <1>5 DEF MonitorInv

\* An order that is handed over leaves the registry: the sums stay.
LEMMA HandOverBounds ==
  ASSUME TypeInv, MonitorInv, NEW a \in Agents, NEW c \in Conditionals,
         HandleTradeable(a, c)
  PROVE  MonitorInv'
<1> DEFINE o == Part(c, part[c])
<1>1. MonitorTypeOK /\ Unannounced /\ CopiesBounded /\ PartsBounded
  BY DEF MonitorInv
<1>2. o \in Orders /\ part[c] \in PartIndex
  BY <1>1, CurrentPart DEF HandleTradeable
<1>3. \A b \in Agents, d \in Conditionals :
        registry[b][d] \in Nat /\ requests[b][d] \in Nat
  BY <1>1 DEF MonitorTypeOK
<1>4. /\ registry[a][c] > 0
      /\ registry' = [registry EXCEPT ![a][c] = @ - 1]
      /\ received' = [received EXCEPT ![a][o] = @ + 1]
      /\ UNCHANGED <<mined, part, subscribed, requests>>
  BY DEF HandleTradeable, HandOver
<1>5. MonitorTypeOK'
  BY <1>1, <1>3, <1>4 DEF MonitorTypeOK
<1>6. \A d \in Conditionals, k \in PartIndex :
        /\ Part(d, k) \in Orders
        /\ Part(d, k) = o <=> d = c /\ k = part[c]
  BY <1>2, WatchtowerAssumption DEF PartIndex
<1>7. \A b \in Agents, p \in Orders : received[b][p] \in Nat
  BY ConstantAssumption DEF TypeInv, TypeOK
<1>8. received \in [Agents -> [Orders -> 0..MaxCopies]]
  BY DEF TypeInv, TypeOK
<1>9. \A b \in Agents, p \in Orders :
        received'[b][p] = IF b = a /\ p = o THEN received[b][p] + 1 ELSE received[b][p]
  BY <1>2, <1>4, <1>8
<1>10. \A b \in Agents, d \in Conditionals :
         registry'[b][d] = IF b = a /\ d = c THEN registry[b][d] - 1 ELSE registry[b][d]
  BY <1>1, <1>4 DEF MonitorTypeOK
<1>11. requests' = requests /\ mined' = mined /\ Notices \in Nat
  BY <1>4, WatchtowerAssumption
<1> HIDE DEF o
<1>12. Unannounced'
  BY <1>1, <1>3, <1>4, <1>6, <1>9, <1>10, <1>11 DEF Unannounced
<1>13. CopiesBounded'
  <2> SUFFICES ASSUME NEW b \in Agents, NEW d \in Conditionals, NEW k \in PartIndex
               PROVE  received'[b][Part(d, k)] + registry'[b][d] + requests'[b][d]
                        =< Notices
    BY DEF CopiesBounded
  <2>1. received[b][Part(d, k)] + registry[b][d] + requests[b][d] =< Notices
    BY <1>1 DEF CopiesBounded
  <2> QED
    BY <2>1, <1>3, <1>6, <1>7, <1>9, <1>10, <1>11
<1>14. PartsBounded'
  <2> SUFFICES ASSUME NEW b \in Agents, NEW d \in Conditionals,
                      NEW j \in PartIndex, NEW k \in PartIndex, j # k
               PROVE  received'[b][Part(d, j)] + received'[b][Part(d, k)]
                        + registry'[b][d] + requests'[b][d] =< Notices
    BY DEF PartsBounded
  <2>1. received[b][Part(d, j)] + received[b][Part(d, k)]
          + registry[b][d] + requests[b][d] =< Notices
    BY <1>1 DEF PartsBounded
  <2> QED
    BY <2>1, <1>3, <1>6, <1>7, <1>9, <1>10, <1>11
<1> QED
  BY <1>5, <1>12, <1>13, <1>14 DEF MonitorInv

\* A new event finds no trace of the order with any agent.
LEMMA MineBounds ==
  ASSUME TypeInv, MonitorInv, NEW c \in Conditionals, Mine(c)
  PROVE  MonitorInv'
<1>1. MonitorTypeOK /\ Unannounced /\ CopiesBounded /\ PartsBounded
  BY DEF MonitorInv
<1>2. /\ c \notin mined /\ mined' = mined \cup {c}
      /\ UNCHANGED <<received, part, subscribed, registry>>
  BY DEF Mine, vars, localVars
<1>3. \A a \in Agents, d \in Conditionals :
        /\ registry[a][d] \in Nat /\ requests[a][d] \in Nat /\ Notices \in Nat
        /\ requests'[a][d] = IF subscribed[a] /\ d = c THEN requests[a][d] + Notices
                                                         ELSE requests[a][d]
  BY <1>1, WatchtowerAssumption DEF MonitorTypeOK, Mine
<1>4. MonitorTypeOK'
  BY <1>1, <1>2, WatchtowerAssumption DEF MonitorTypeOK, Mine
<1>5. Unannounced'
  BY <1>1, <1>2, <1>3 DEF Unannounced
<1>6. \A a \in Agents : /\ requests[a][c] = 0 /\ registry[a][c] = 0
                        /\ \A k \in PartIndex : received[a][Part(c, k)] = 0
  BY <1>1, <1>2 DEF Unannounced
<1>7. CopiesBounded'
  BY <1>1, <1>2, <1>3, <1>6 DEF CopiesBounded
<1>8. PartsBounded'
  <2> SUFFICES ASSUME NEW a \in Agents, NEW d \in Conditionals,
                      NEW j \in PartIndex, NEW k \in PartIndex, j # k
               PROVE  received[a][Part(d, j)] + received[a][Part(d, k)]
                        + registry[a][d] + requests'[a][d] =< Notices
    BY <1>2 DEF PartsBounded
  <2> QED
    BY <1>1, <1>3, <1>6 DEF PartsBounded
<1> QED
  BY <1>4, <1>5, <1>7, <1>8 DEF MonitorInv

\* Notifications, errors, restarts and polls never let an agent have more of an
\* order than it was notified of.
LEMMA MonitorInvStep ==
  ASSUME TypeInv, MonitorInv, [WatchNext]_watchVars
  PROVE  MonitorInv'
<1>1. MonitorTypeOK
  BY DEF MonitorInv
<1>2. \A a \in Agents, c \in Conditionals, k \in PartIndex :
        received[a][Part(c, k)] \in Nat
  <2>1. \A c \in Conditionals, k \in PartIndex : Part(c, k) \in Orders
    BY WatchtowerAssumption DEF PartIndex
  <2>2. received \in [Agents -> [Orders -> 0..MaxCopies]] /\ MaxCopies \in Nat
    BY ConstantAssumption DEF TypeInv, TypeOK
  <2> QED
    BY <2>1, <2>2
<1>3. \A a \in Agents, c \in Conditionals :
        registry[a][c] \in Nat /\ requests[a][c] \in Nat
  BY <1>1 DEF MonitorTypeOK
<1>4. CASE RoundStep \/ UNCHANGED watchVars
  <2>1. received' = received
    BY <1>4, RoundsHandNothing DEF watchVars, vars, localVars
  <2>2. UNCHANGED monitorVars
    BY <1>4 DEF RoundStep, watchVars
  <2>3. MonitorTypeOK' /\ mined \subseteq mined'
    BY <1>1, <2>2 DEF MonitorTypeOK, monitorVars
  <2> QED
    BY <1>2, <1>3, <2>1, <2>2, <2>3, BoundsKept DEF monitorVars
<1>5. ASSUME NEW a \in Agents, NEW c \in Conditionals, HandleEvents(a, c)
      PROVE  MonitorInv'
  <2>1. /\ requests[a][c] > 0
        /\ requests' = [requests EXCEPT ![a][c] = @ - 1]
        /\ registry' = [registry EXCEPT ![a][c] = @ + 1]
        /\ UNCHANGED <<received, mined, part, subscribed>>
    BY <1>5 DEF HandleEvents, vars, localVars
  <2>2. MonitorTypeOK' /\ mined \subseteq mined'
    BY <1>1, <1>3, <2>1 DEF MonitorTypeOK
  <2>3. \A b \in Agents, d \in Conditionals :
          /\ requests'[b][d] = IF b = a /\ d = c THEN requests[b][d] - 1
                                                  ELSE requests[b][d]
          /\ registry'[b][d] = IF b = a /\ d = c THEN registry[b][d] + 1
                                                  ELSE registry[b][d]
    BY <1>1, <2>1 DEF MonitorTypeOK
  <2> QED
    BY <1>2, <1>3, <2>1, <2>2, <2>3, BoundsKept
<1>6. ASSUME NEW a \in Agents, NEW c \in Conditionals, HandleEventsError(a, c)
      PROVE  MonitorInv'
  <2>1. /\ requests[a][c] > 0
        /\ requests' = [requests EXCEPT ![a][c] = @ - 1]
        /\ UNCHANGED <<received, mined, part, subscribed, registry>>
    BY <1>6 DEF HandleEventsError, vars, localVars
  <2>2. MonitorTypeOK' /\ mined \subseteq mined'
    BY <1>1, <1>3, <2>1 DEF MonitorTypeOK
  <2>3. \A b \in Agents, d \in Conditionals :
          requests'[b][d] = IF b = a /\ d = c THEN requests[b][d] - 1
                                                ELSE requests[b][d]
    BY <1>1, <2>1 DEF MonitorTypeOK
  <2> QED
    BY <1>2, <1>3, <2>1, <2>2, <2>3, BoundsKept
<1>7. ASSUME NEW a \in Agents, Disconnect(a) \/ Resubscribe(a)
      PROVE  MonitorInv'
  <2>1. /\ UNCHANGED <<received, mined, part, requests, registry>>
        /\ \E b \in BOOLEAN : subscribed' = [subscribed EXCEPT ![a] = b]
    BY <1>7 DEF Disconnect, Resubscribe, vars, localVars
  <2>2. MonitorTypeOK' /\ mined \subseteq mined'
    BY <1>1, <2>1 DEF MonitorTypeOK
  <2> QED
    BY <1>2, <1>3, <2>1, <2>2, BoundsKept
<1>8. ASSUME NEW c \in Conditionals, NextPart(c)
      PROVE  MonitorInv'
  <2>1. /\ UNCHANGED <<received, mined, subscribed, requests, registry>>
        /\ part' = [part EXCEPT ![c] = @ + 1] /\ part[c] < Parts
    BY <1>8 DEF NextPart, vars, localVars
  <2>2. MonitorTypeOK' /\ mined \subseteq mined'
    BY <1>1, <2>1, WatchtowerAssumption DEF MonitorTypeOK
  <2> QED
    BY <1>2, <1>3, <2>1, <2>2, BoundsKept
<1>9. ASSUME NEW a \in Agents, RestartAgent(a)
      PROVE  MonitorInv'
  <2>1. /\ UNCHANGED <<received, mined, part>>
        /\ subscribed' = [subscribed EXCEPT ![a] = FALSE]
        /\ requests' = [requests EXCEPT ![a] = [c \in Conditionals |-> 0]]
        /\ registry' = [registry EXCEPT ![a] = [c \in Conditionals |-> 0]]
    BY <1>9 DEF RestartAgent, Restart
  <2>2. MonitorTypeOK' /\ mined \subseteq mined'
    BY <1>1, <2>1 DEF MonitorTypeOK
  <2>3. \A b \in Agents, d \in Conditionals :
          /\ requests'[b][d] = IF b = a THEN 0 ELSE requests[b][d]
          /\ registry'[b][d] = IF b = a THEN 0 ELSE registry[b][d]
    BY <1>1, <2>1 DEF MonitorTypeOK
  <2> QED
    BY <1>2, <1>3, <2>1, <2>2, <2>3, BoundsKept
<1>10. ASSUME NEW a \in Agents, NEW c \in Conditionals, DropOrder(a, c)
       PROVE  MonitorInv'
  <2>1. /\ registry[a][c] > 0
        /\ registry' = [registry EXCEPT ![a][c] = @ - 1]
        /\ UNCHANGED <<received, mined, part, subscribed, requests>>
    BY <1>10 DEF DropOrder, vars, localVars
  <2>2. MonitorTypeOK' /\ mined \subseteq mined'
    BY <1>1, <1>3, <2>1 DEF MonitorTypeOK
  <2>3. \A b \in Agents, d \in Conditionals :
          registry'[b][d] = IF b = a /\ d = c THEN registry[b][d] - 1
                                                  ELSE registry[b][d]
    BY <1>1, <2>1 DEF MonitorTypeOK
  <2> QED
    BY <1>2, <1>3, <2>1, <2>2, <2>3, BoundsKept
<1> QED
  BY <1>4, <1>5, <1>6, <1>7, <1>8, <1>9, <1>10, HandOverBounds, MineBounds
     DEF WatchNext, MonitorStep

-----------------------------------------------------------------------------
\* Nothing the chain, the notifications and the losses do lets the monitoring hand
\* an agent an order more often than it was notified of it: the rounds run in the
\* service as they do in the environment of CowOrders.
THEOREM MonitoringKeepsPromise ==
  ASSUME Notices =< MaxCopies
  PROVE  WatchSpec => RunsRounds /\ [](TypeInv /\ MonitorInv)
<1>1. WatchInit => Init /\ TypeInv /\ MonitorInv
  BY TypeInit, MonitorInit DEF WatchInit
<1>2. TypeInv /\ MonitorInv /\ [WatchNext]_watchVars
        => [Next]_vars /\ TypeInv' /\ MonitorInv'
  BY StepRefines, TypeStep, MonitorInvStep
<1> QED
  BY <1>1, <1>2, PTL DEF WatchSpec, RunsRounds, Spec

\* An order that is notified of once is never processed again after it was verified,
\* in the service with its monitoring as in its rounds.
COROLLARY ServiceNeverReprocesses ==
  ASSUME Notices =< 1, MaxCopies = 1
  PROVE  WatchSpec => []NoReprocessing
<1>1. Notices =< MaxCopies
  OBVIOUS
<1> QED
  BY <1>1, MonitoringKeepsPromise, NeverReprocessed, PTL DEF RunsRounds

\* What the rounds promise of the orders they forward, the service with its
\* monitoring promises: one order at a time, confirmed only once the API has it,
\* never again after that.
COROLLARY ServiceForwards ==
  ASSUME Notices =< 1, MaxCopies = 1
  PROVE  WatchSpec => ForwardsOrders /\ []VerifiedInBook
<1>1. Notices =< MaxCopies
  OBVIOUS
<1>2. WatchSpec => Spec
  BY <1>1, MonitoringKeepsPromise, PTL DEF RunsRounds
<1>3. Spec => ForwardsOrders
  BY ImplementsForwarding
<1>4. Spec => []VerifiedInBook
  BY VerifiedOnlyIfBooked
<1> QED
  BY <1>2, <1>3, <1>4, PTL

\* No order reaches the CoW API whose conditional order has not been announced by an
\* event on the chain: notifications, polls, votes and posts only pass on what was
\* mined.
COROLLARY OnlyMinedPosted ==
  ASSUME Notices =< 1, MaxCopies = 1
  PROVE  WatchSpec => [](\A c \in Conditionals, k \in PartIndex :
                           Part(c, k) \in book => c \in mined)
<1>1. Notices =< MaxCopies
  OBVIOUS
<1>2. WatchSpec => [](TypeInv /\ MonitorInv)
  BY <1>1, MonitoringKeepsPromise
<1>3. WatchSpec => []PostedHeld
  BY <1>1, MonitoringKeepsPromise, PostedByQuorum, PTL DEF RunsRounds
<1>4. TypeInv /\ MonitorInv /\ PostedHeld =>
        \A c \in Conditionals, k \in PartIndex : Part(c, k) \in book => c \in mined
  <2> SUFFICES ASSUME MonitorInv, PostedHeld, NEW c \in Conditionals,
                      NEW k \in PartIndex, Part(c, k) \in book
               PROVE  c \in mined
    OBVIOUS
  <2>1. PICK Q \in Quorums : \A a \in Q : received[a][Part(c, k)] > 0
    BY DEF PostedHeld
  <2>2. PICK a \in Agents : a \in Q
    BY QuorumAssumption
  <2>3. c \notin mined => received[a][Part(c, k)] = 0
    BY DEF MonitorInv, Unannounced
  <2> QED
    BY <2>1, <2>2, <2>3
<1> QED
  BY <1>2, <1>3, <1>4, PTL

-----------------------------------------------------------------------------
(* One part of a conditional order.                                        *)

\* Whatever is verified was handed to a quorum.
LEMMA DoneHeldStep ==
  ASSUME MaxCopies = 1, DropInv, DoneHeld, [Next]_vars
  PROVE  DoneHeld'
<1> SUFFICES ASSUME NEW o \in done'
             PROVE  \E Q \in Quorums : \A a \in Q : received'[a][o] > 0
  BY DEF DoneHeld
<1>1. received \in [Agents -> [Orders -> 0..1]] /\ done \subseteq Orders
  BY DEF DropInv, BookInv, TypeInv, TypeOK
<1>2. o \in done \/ (VerifyExecutionDone /\ o = order)
  BY DEF Next, AgentStep, VoteStep, EndOfRound, PostStep, vars, SelectOrders,
         VerifyExecution, VerifyExecutionFailedGet, Restart, TradeableOrder, HandOver,
         SelectOrdersDone, SelectOrdersNoAction, SelectOrdersNoMajority, ResetAndPause,
         RandomnessDone, SelectKeeperDone, SelectKeeperNoMajority, PlaceOrdersDone,
         PlaceOrdersTryNextBlock, VerifyExecutionDone, VerifyExecutionBadSubmission,
         VerifyExecutionNoMajority, TimeoutStalled, TimeoutEarly, RoundTimeout,
         PlaceOrder, PostAccepted, PostDuplicate, PostRefused, PostUnconfirmed,
         PostLost, LatePost, Answered
<1>3. /\ o \in Orders
      /\ \E Q \in Quorums : \A a \in Q : received[a][o] > 0
  <2>1. CASE o \in done
    BY <1>1, <2>1 DEF DoneHeld
  <2>2. CASE VerifyExecutionDone /\ o = order
    <3>1. Processing = order /\ order \in Orders /\ order # None
      BY <2>2, ConstantAssumption
         DEF VerifyExecutionDone, Processing, DropInv, BookInv, TypeInv, OrderSelected,
             Payloads
    <3> QED
      BY <2>2, <3>1 DEF DropInv, ProcessingHeld
  <2> QED
    BY <1>2, <2>1, <2>2
<1>4. PICK Q \in Quorums : \A a \in Q : received[a][o] > 0
  BY <1>3
<1>5. \A a \in Q : a \in Agents /\ received[a][o] = 1
  BY <1>1, <1>3, <1>4, QuorumAssumption
<1>6. \A a \in Q : received'[a][o] = 1
  BY <1>3, <1>5, ReceivedStays
<1> QED
  BY <1>6

\* Two quorums that were handed two parts would share an agent that was handed
\* both, with one notice.
LEMMA TwoPartsMeet ==
  ASSUME Notices =< 1, MonitorInv, DropInv, DoneHeld
  PROVE  OnePartForwarded
<1> SUFFICES ASSUME NEW c \in Conditionals, NEW j \in PartIndex, NEW k \in PartIndex,
                    Part(c, j) \in done, Part(c, k) \in done \cup {Processing},
                    j # k
             PROVE  FALSE
  BY DEF OnePartForwarded, PartIndex
<1>1. Part(c, j) \in Orders /\ Part(c, k) \in Orders
  BY WatchtowerAssumption DEF PartIndex
<1>2. received \in [Agents -> [Orders -> Nat]]
  BY ConstantAssumption DEF DropInv, BookInv, TypeInv, TypeOK
<1>3. PICK P \in Quorums : \A a \in P : received[a][Part(c, j)] > 0
  BY DEF DoneHeld
<1>4. \E Q \in Quorums : \A a \in Q : received[a][Part(c, k)] > 0
  <2>1. CASE Part(c, k) \in done
    BY <2>1 DEF DoneHeld
  <2>2. CASE Part(c, k) = Processing
    <3>1. Processing # None /\ Processing = order
      BY <1>1, <2>2, ConstantAssumption DEF Processing, Payloads
    <3> QED
      BY <2>2, <3>1 DEF DropInv, ProcessingHeld
  <2> QED
    BY <2>1, <2>2
<1>5. PICK Q \in Quorums : \A a \in Q : received[a][Part(c, k)] > 0
  BY <1>4
<1>6. PICK a \in Agents : a \in P /\ a \in Q
  BY QuorumAssumption
<1>7. /\ received[a][Part(c, j)] > 0 /\ received[a][Part(c, j)] \in Nat
      /\ received[a][Part(c, k)] > 0 /\ received[a][Part(c, k)] \in Nat
  BY <1>1, <1>2, <1>3, <1>5, <1>6
<1>8. registry[a][c] \in Nat /\ requests[a][c] \in Nat /\ Notices \in Nat
  BY WatchtowerAssumption DEF MonitorInv, MonitorTypeOK
<1>9. received[a][Part(c, j)] + received[a][Part(c, k)] + registry[a][c]
        + requests[a][c] =< Notices
  BY DEF MonitorInv, PartsBounded
<1> QED
  BY <1>7, <1>8, <1>9

\* Of each conditional order the service verifies one part only, and processes no
\* other part after that.
THEOREM OnePartOnly ==
  ASSUME Notices =< 1, MaxCopies = 1
  PROVE  WatchSpec => []OnePartForwarded
<1>1. Notices =< MaxCopies
  OBVIOUS
<1>2. WatchSpec => [](TypeInv /\ MonitorInv)
  BY <1>1, MonitoringKeepsPromise
<1>3. WatchSpec => []DropInv
  BY <1>1, MonitoringKeepsPromise, DropCorrect, PTL DEF RunsRounds
<1>4. WatchInit => DoneHeld
  BY DEF WatchInit, Init, InitWith, DoneHeld
<1>5. TypeInv /\ MonitorInv /\ DropInv /\ DoneHeld /\ [WatchNext]_watchVars => DoneHeld'
  BY <1>1, StepRefines, DoneHeldStep
<1>6. MonitorInv /\ DropInv /\ DoneHeld => OnePartForwarded
  BY TwoPartsMeet
<1> QED
  BY <1>2, <1>3, <1>4, <1>5, <1>6, PTL DEF WatchSpec

\* The invariant of the run holds for every number of agents, orders and parts.
THEOREM BookkeepingHolds ==
  ASSUME Notices =< 1, MaxCopies = 1
  PROVE  WatchSpec => []WatchInv
<1>1. Notices =< MaxCopies
  OBVIOUS
<1>2. WatchSpec => [](TypeInv /\ MonitorInv)
  BY <1>1, MonitoringKeepsPromise
<1>3. WatchSpec => []DropInv
  BY <1>1, MonitoringKeepsPromise, DropCorrect, PTL DEF RunsRounds
<1>4. WatchInit => DoneHeld
  BY DEF WatchInit, Init, InitWith, DoneHeld
<1>5. TypeInv /\ MonitorInv /\ DropInv /\ DoneHeld /\ [WatchNext]_watchVars => DoneHeld'
  BY <1>1, StepRefines, DoneHeldStep
<1> QED
  BY <1>2, <1>3, <1>4, <1>5, PTL DEF WatchSpec, WatchInv

=============================================================================
