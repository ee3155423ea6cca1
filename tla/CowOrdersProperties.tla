------------------------- MODULE CowOrdersProperties -------------------------
(***************************************************************************)
(* The properties of CowOrders.                                            *)
(***************************************************************************)
EXTENDS CowOrders

\* The order the service is working on: the selected one, between the end of
\* SelectOrdersRound and the round that sends the service back to it.
Processing ==
  IF round \in {"Randomness", "SelectKeeper", "PlaceOrders", "VerifyExecution"}
  THEN order
  ELSE None

Forwarding == INSTANCE OrderForwarding WITH
  current <- Processing,
  posted <- orphans \cup (IF call = "waiting" THEN {order} ELSE {}),
  accepted <- book,
  confirmed <- done

\* The rounds implement the abstract forwarding of orders: whatever is posted,
\* lost, repeated or timed out, one order is processed at a time, an order is
\* confirmed only once the API has it, and never processed again after that.
ForwardsOrders == Forwarding!Spec

\* An order that the service has verified is never processed again, although
\* agents may miss the round that tells them to drop it, may be handed the order
\* late, and forget what was verified when the period ends
\* (SelectOrdersBehaviour._handle_processed_orders).  It takes an environment
\* that hands each agent an order at most once (MaxCopies = 1).
NoReprocessing == Processing \notin done

\* An order is verified only if the API has really accepted it, whatever uid or
\* error the keeper reported (VerifyExecutionBehaviour._verify_submission).
VerifiedInBook == done \subseteq book

\* Whatever is posted, in time or late, has been handed to a quorum of agents: a
\* keeper that posts on its own, or a minority, cannot place an order
\* (PlaceOrdersBehaviour posts what SelectOrdersRound has agreed on).
PostedHeld ==
  \A o \in book \cup orphans : \E Q \in Quorums : \A a \in Q : received[a][o] > 0

\* Without restarts an agent's list loses only orders that were verified: what
\* was put off, refused or timed out is still there to be proposed again.
NoOrderLost ==
  \A a \in Agents, o \in Orders :
    received[a][o] > 0 => o \in ToSet(ready[a]) \/ o \in done

\* The service goes to pause only when nothing is left to do: with all orders
\* handed over beforehand, FinishedWithOrdersRound is reached only once every
\* order is verified (SelectOrdersRound.NO_ORDERS_PAYLOAD needs a quorum of
\* empty lists).
PauseOnlyWhenDone == round = "FinishedWithOrders" => done = Orders

\* Every order that all agents hold is verified in the end.
EveryOrderVerified ==
  \A o \in Orders : (\A a \in Up : o \in ToSet(ready[a])) ~> o \in done

\* Every order that all agents hold reaches the CoW API in the end: "forwards
\* tradable orders to the CoW Protocol API" (README.md).
EveryOrderForwarded ==
  \A o \in Orders : (\A a \in Up : o \in ToSet(ready[a])) ~> o \in book

-----------------------------------------------------------------------------
(* The inductive invariant behind TypeOK. *)

\* The keeper has a call only in the round that it belongs to.
CallInRound == call # "idle" => round = "PlaceOrders"

\* From the end of SelectOrdersRound on there is an order ...
OrderSelected ==
  round \in {"Randomness", "SelectKeeper", "PlaceOrders", "VerifyExecution"}
    => order \in Orders

\* ... and from the end of SelectKeeperRound on there is a keeper.
KeeperSelected == round \in {"PlaceOrders", "VerifyExecution"} => keeper \in Agents

TypeInv == TypeOK /\ CallInRound /\ OrderSelected /\ KeeperSelected

-----------------------------------------------------------------------------
(* The inductive invariant behind VerifiedInBook. *)

\* An agent that confirms the order has found it in the API.
VotesBooked ==
  round = "VerifyExecution" =>
    \A a \in Agents : votes[a] = VerificationOk => order \in book

BookInv == TypeInv /\ VotesBooked /\ VerifiedInBook

-----------------------------------------------------------------------------
(* The inductive invariant behind NoReprocessing. *)

Holds(a, o) == o \in ToSet(ready[a])

\* A list holds no order twice, and none that was not handed to the agent.
ListsDistinct ==
  \A a \in Agents :
    /\ \A i, j \in 1..Len(ready[a]) : ready[a][i] = ready[a][j] => i = j
    /\ \A o \in Orders : Holds(a, o) => received[a][o] = 1

\* An agent votes for an order only if it has been handed the order.
VotesReceived ==
  round = "SelectOrders" =>
    \A a \in Agents : votes[a] \in Orders => received[a][votes[a]] = 1

\* A quorum has been handed the order being processed, and it is not verified.
ProcessingHeld ==
  Processing # None =>
    /\ order \notin done
    /\ verified = None
    /\ \E Q \in Quorums : \A a \in Q : received[a][order] = 1

\* An agent that had order o, has dropped it and cannot propose it any more.
Clean(a, o) == received[a][o] = 1 /\ ~Holds(a, o) /\ votes[a] # o

\* A verified order is about to be dropped by the quorum that selected it, each
\* agent before it votes; or two quorums, those that selected it and those that
\* completed the round after its verification, have dropped it where they meet.
VerifiedDropped ==
  \A o \in done :
    \/ /\ verified = o
       /\ round = "SelectOrders"
       /\ \E Q \in Quorums : \A a \in Q :
            received[a][o] = 1 /\ (votes[a] # None => Clean(a, o))
    \/ \E Q1, Q2 \in Quorums : \A a \in Q1 \cap Q2 : Clean(a, o)

\* In each state of a service whose agents are handed an order at most once, what
\* the lists and votes may still hold of verified orders: too few agents to
\* select one of them again.
DropInv ==
  /\ BookInv
  /\ ListsDistinct
  /\ VotesReceived
  /\ ProcessingHeld
  /\ VerifiedDropped

-----------------------------------------------------------------------------
(* The inductive invariants behind NoOrderLost and PauseOnlyWhenDone. *)

\* What the agents drop from their lists is an order that was verified.
LostInv ==
  /\ TypeInv
  /\ verified # None => verified \in done
  /\ NoOrderLost

\* An agent that reports an empty list has dropped every order.
EmptyListVotes ==
  round = "SelectOrders" =>
    \A a \in Agents : votes[a] = NoOrdersPayload => done = Orders

\* An agent reports an empty list only if every order it was handed so far is verified,
\* whenever the orders arrived.
EmptyListHonest ==
  [][\A a \in Agents :
       round = "SelectOrders" /\ votes[a] # NoOrdersPayload /\ votes'[a] = NoOrdersPayload
       => \A o \in Orders : received[a][o] > 0 => o \in done]_vars

PauseInv ==
  /\ LostInv
  /\ \A a \in Agents, o \in Orders : received[a][o] > 0
  /\ EmptyListVotes
  /\ PauseOnlyWhenDone

\* A service whose agents have been handed all orders before the first round, in
\* whatever sequence each.
FullLists ==
  \E lists \in [Agents -> Seq(Orders)] :
    /\ \A a \in Agents : ToSet(lists[a]) = Orders
    /\ InitWith(lists)

FullListsSpec == FullLists /\ [][Next]_vars

=============================================================================
