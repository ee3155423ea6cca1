------------------------------ MODULE CowOrders ------------------------------
(***************************************************************************)
(* The skill cow_orders_abci: the consensus rounds with which the agents   *)
(* of the service pick an order from their own lists of ready orders, pick *)
(* a keeper that posts it to the CoW Protocol API, and verify together     *)
(* that the API has it.                                                    *)
(*                                                                         *)
(* The synchronized data (round, order, verified, orderUid, keeper) is     *)
(* replicated by Tendermint and is therefore one copy here; the list of    *)
(* ready orders is the shared_state of one agent and differs from agent to *)
(* agent.  The CoW API, the delays of the network and the timers are the   *)
(* environment.                                                            *)
(***************************************************************************)
EXTENDS Integers, SequencesExt

CONSTANTS
  \* The participants of the service.  Example: {a1, a2, a3, a4}
  Agents,
  \* The sets of agents whose equal payloads reach the consensus threshold,
  \* which is the smallest integer above two thirds of the participants.
  Quorums,
  \* The agents that are down for the whole behaviour.  Example: {} or {a4}
  Down,
  \* The discrete orders, as dictionaries: two entries of a list that compare
  \* equal in the code are the same member of Orders.
  Orders,
  \* How often the monitoring skill hands one agent the same order (1 unless
  \* the registry of conditional orders holds it several times).
  MaxCopies,
  \* The kinds of faults that may happen, a subset of Faults, and how many of
  \* them in a behaviour.
  FaultKinds,
  MaxFaults,
  \* Stands for Python's None and for "no vote yet".
  None

Faults == {"timeout", "restart", "refusal", "lost_answer", "failed_get"}

\* The contents of payloads that are not an order, an order uid or a keeper.
NoOrdersPayload == "no_orders_payload"
ErrorPayload == "error"
TryNextBlockPayload == "try_next_block"
NullPayload == "null"
VerificationOk == "verification_ok"
VerificationFailed == "verification_failed"

SpecialPayloads ==
  {NoOrdersPayload, ErrorPayload, TryNextBlockPayload, NullPayload,
   VerificationOk, VerificationFailed}

Payloads == Orders \cup SpecialPayloads

Rounds == {"SelectOrders", "Randomness", "SelectKeeper", "PlaceOrders",
           "VerifyExecution", "FinishedWithOrders"}

ASSUME QuorumAssumption ==
  /\ Quorums \subseteq SUBSET Agents
  /\ \A P, Q, R \in Quorums : P \cap Q \cap R # {}

ASSUME ConstantAssumption ==
  /\ Down \subseteq Agents
  /\ MaxCopies \in Nat
  /\ MaxFaults \in Nat
  /\ FaultKinds \subseteq Faults
  /\ None \notin Agents \cup Payloads
  /\ Orders \cap SpecialPayloads = {}

VARIABLES
  round,     \* the current round of the replicated state machine
  order,     \* synchronized_data.order: the order being processed
  verified,  \* synchronized_data.verified_order
  orderUid,  \* synchronized_data.order_uid: what the keeper reported
  keeper,    \* synchronized_data.most_voted_keeper_address
  votes,     \* the payload each agent has sent in the current round
  ready,     \* shared_state["ready_orders"] of each agent
  received,  \* how often the agent has been handed the order (history)
  call,      \* the keeper's POST in the current round
  orphans,   \* posts under way whose sender no longer waits for the answer
  book,      \* the orders the CoW API has accepted
  done,      \* the orders that were ever verified (history)
  faults     \* how many faults have happened

syncVars == <<round, order, verified, orderUid, keeper, votes>>
localVars == <<ready, received>>
apiVars == <<call, orphans, book>>
vars == <<syncVars, localVars, apiVars, done, faults>>

TypeOK ==
  /\ round \in Rounds
  /\ order \in Orders \cup {None}
  /\ verified \in Orders \cup {None}
  /\ orderUid \in Payloads \cup {None}
  /\ keeper \in Agents \cup {None}
  /\ votes \in [Agents -> Payloads \cup {None}]
  /\ ready \in [Agents -> Seq(Orders)]
  /\ received \in [Agents -> [Orders -> 0..MaxCopies]]
  /\ call \in {"idle", "waiting", "lost", "answered"}
  /\ orphans \subseteq Orders
  /\ book \subseteq Orders
  /\ done \subseteq Orders
  /\ faults \in 0..MaxFaults

-----------------------------------------------------------------------------
(* Votes, rounds and faults *)

Up == Agents \ Down

UpQuorum == \E Q \in Quorums : Q \subseteq Up

Voters(p) == {a \in Agents : votes[a] = p}

\* Faulty variant of Reached: the agents that vote at all are counted.
ReachedByVotes(p) ==
  Voters(p) # {} /\ \E Q \in Quorums : Q \subseteq Agents \ Voters(None)

\* CollectSameUntilThresholdRound.threshold_reached for the payload p.
Reached(p) == \E Q \in Quorums : Q \subseteq Voters(p)

\* is_majority_possible: the missing votes could still complete a quorum.
MajorityPossible ==
  \E a \in Agents : \E Q \in Quorums : Q \subseteq Voters(votes[a]) \cup Voters(None)

NoMajority == ~MajorityPossible /\ \A p \in Payloads : ~Reached(p)

Vote(a, p) == votes' = [votes EXCEPT ![a] = p]

\* A fault takes one unit of the budget of faults.
Fault(kind) ==
  /\ kind \in FaultKinds
  /\ faults < MaxFaults
  /\ faults' = faults + 1

\* A new round starts without votes, and stops the behaviour of the old one:
\* nobody waits any longer for the answer to a post that is under way.
StartRound(r) ==
  /\ round' = r
  /\ votes' = [a \in Agents |-> None]
  /\ call' = "idle"
  /\ orphans' = orphans \cup (IF call = "waiting" THEN {order} ELSE {})

\* The service starts, or comes back from a reset of its period, with lists of
\* ready orders that the monitoring skill has filled meanwhile.
InitWith(lists) ==
  /\ round = "SelectOrders"
  /\ order = None
  /\ verified = None
  /\ orderUid = None
  /\ keeper = None
  /\ votes = [a \in Agents |-> None]
  /\ ready = lists
  /\ received = [a \in Agents |->
                  [o \in Orders |-> IF o \in ToSet(lists[a]) THEN 1 ELSE 0]]
  /\ call = "idle"
  /\ orphans = {}
  /\ book = {}
  /\ done = {}
  /\ faults = 0

Init == InitWith([a \in Agents |-> <<>>])

-----------------------------------------------------------------------------
(* The agents' lists *)

\* The monitoring skill appends an order that has become tradeable to the list
\* of ready orders of agent a.
HandOver(a, o) ==
  /\ a \in Up
  /\ ready' = [ready EXCEPT ![a] = Append(@, o)]
  /\ received' = [received EXCEPT ![a][o] = @ + 1]
  /\ UNCHANGED <<syncVars, apiVars, done, faults>>

\* What the rounds expect of it: the same order at most MaxCopies times.
TradeableOrder(a, o) == received[a][o] < MaxCopies /\ HandOver(a, o)

\* Faulty variant of WithoutProcessed: the verified order stays in the list.
WithoutProcessedKept(a) == ready[a]

\* The list of agent a without the order that was verified last.
WithoutProcessed(a) ==
  IF verified = None THEN ready[a] ELSE RemoveFirst(ready[a], verified)

\* An exception stops the agent and it is started again: its list is lost.  If
\* it was the keeper and waited for the API, it posts again after the restart.
Restart(a) ==
  /\ a \in Up
  /\ Fault("restart")
  /\ ready' = [ready EXCEPT ![a] = <<>>]
  /\ IF a = keeper /\ call \in {"waiting", "lost"}
     THEN /\ call' = "idle"
          /\ orphans' = orphans \cup (IF call = "waiting" THEN {order} ELSE {})
     ELSE UNCHANGED <<call, orphans>>
  /\ UNCHANGED <<syncVars, received, book, done>>

-----------------------------------------------------------------------------
(* SelectOrdersRound *)

\* Faulty variant of SelectOrders: the proposed order is popped from the list.
SelectOrdersPopped(a) ==
  /\ round = "SelectOrders"
  /\ a \in Up
  /\ votes[a] = None
  /\ LET list == WithoutProcessed(a)
     IN  /\ ready' = [ready EXCEPT ![a] = IF list = <<>> THEN list ELSE Front(list)]
         /\ Vote(a, IF list = <<>> THEN NoOrdersPayload ELSE Last(list))
  /\ UNCHANGED <<round, order, verified, orderUid, keeper, received, apiVars,
                 done, faults>>

\* Drop the order verified last, then propose the last order of the list, which
\* stays in the list.
SelectOrders(a) ==
  /\ round = "SelectOrders"
  /\ a \in Up
  /\ votes[a] = None
  /\ ready' = [ready EXCEPT ![a] = WithoutProcessed(a)]
  /\ Vote(a, IF WithoutProcessed(a) = <<>>
             THEN NoOrdersPayload
             ELSE Last(WithoutProcessed(a)))
  /\ UNCHANGED <<round, order, verified, orderUid, keeper, received, apiVars,
                 done, faults>>

SelectOrdersDone(o) ==
  /\ round = "SelectOrders"
  /\ Reached(o)
  /\ order' = o
  /\ verified' = None
  /\ StartRound("Randomness")
  /\ UNCHANGED <<orderUid, keeper, localVars, book, done, faults>>

\* Faulty variant of SelectOrdersNoAction: the payload is taken for an order.
SelectOrdersNoActionSelects ==
  /\ round = "SelectOrders"
  /\ Reached(NoOrdersPayload)
  /\ order' = NoOrdersPayload
  /\ verified' = None
  /\ StartRound("Randomness")
  /\ UNCHANGED <<orderUid, keeper, localVars, book, done, faults>>

SelectOrdersNoAction ==
  /\ round = "SelectOrders"
  /\ Reached(NoOrdersPayload)
  /\ StartRound("FinishedWithOrders")
  /\ UNCHANGED <<order, verified, orderUid, keeper, localVars, book, done, faults>>

SelectOrdersNoMajority ==
  /\ round = "SelectOrders"
  /\ NoMajority
  /\ StartRound("SelectOrders")
  /\ UNCHANGED <<order, verified, orderUid, keeper, localVars, book, done, faults>>

\* The composition sends FinishedWithOrdersRound to ResetAndPauseRound and from
\* there back to SelectOrdersRound.  No key survives the end of the period.
ResetAndPause ==
  /\ round = "FinishedWithOrders"
  /\ UpQuorum
  /\ order' = None
  /\ verified' = None
  /\ orderUid' = None
  /\ keeper' = None
  /\ StartRound("SelectOrders")
  /\ UNCHANGED <<localVars, book, done, faults>>

-----------------------------------------------------------------------------
(* RandomnessRound and SelectKeeperRound.  Their payloads come from base     *)
(* behaviours of the framework, so the votes are not modelled one by one: a  *)
(* quorum of agents that are up completes the round.                         *)

RandomnessDone ==
  /\ round = "Randomness"
  /\ UpQuorum
  /\ StartRound("SelectKeeper")
  /\ UNCHANGED <<order, verified, orderUid, keeper, localVars, book, done, faults>>

\* The framework never takes the current keeper again if there is another one.
SelectKeeperDone(k) ==
  /\ round = "SelectKeeper"
  /\ UpQuorum
  /\ k # keeper \/ Agents = {k}
  /\ keeper' = k
  /\ StartRound("PlaceOrders")
  /\ UNCHANGED <<order, verified, orderUid, localVars, book, done, faults>>

SelectKeeperNoMajority ==
  /\ round = "SelectKeeper"
  /\ Fault("timeout")
  /\ StartRound("Randomness")
  /\ UNCHANGED <<order, verified, orderUid, keeper, localVars, book, done>>

-----------------------------------------------------------------------------
(* PlaceOrdersRound: the keeper's behaviour and the API it calls *)

\* The keeper posts the selected order and waits for the answer.
PlaceOrder ==
  /\ round = "PlaceOrders"
  /\ keeper \in Up
  /\ call = "idle"
  /\ call' = "waiting"
  /\ UNCHANGED <<syncVars, localVars, orphans, book, done, faults>>

\* The answer arrives and the keeper turns it into its payload p.
Answered(p) ==
  /\ call = "waiting"
  /\ call' = "answered"
  /\ Vote(keeper, p)
  /\ UNCHANGED <<round, order, verified, orderUid, keeper, localVars, orphans, done>>

\* Status 200: the API has stored the order and returned its uid.
PostAccepted ==
  /\ order \notin book
  /\ Answered(order)
  /\ book' = book \cup {order}
  /\ UNCHANGED faults

\* The API refuses an order it already has, with an errorType that is none of
\* try_next_block_errors: _place_order falls through and returns None.
PostDuplicate ==
  /\ order \in book
  /\ Answered(NullPayload)
  /\ UNCHANGED <<book, faults>>

\* The API refuses the order: for want of funds, with another errorType, or with
\* a body that is not JSON.
PostRefused ==
  /\ \E p \in {TryNextBlockPayload, NullPayload, ErrorPayload} : Answered(p)
  /\ Fault("refusal")
  /\ UNCHANGED book

\* The API has the order, but a gateway's error page reaches the keeper.
PostUnconfirmed ==
  /\ Answered(ErrorPayload)
  /\ Fault("lost_answer")
  /\ book' = book \cup {order}

\* No answer ever reaches the keeper, which waits until the round ends.
PostLost ==
  /\ call = "waiting"
  /\ Fault("lost_answer")
  /\ call' = "lost"
  /\ orphans' = orphans \cup {order}
  /\ UNCHANGED <<syncVars, localVars, book, done>>

\* A post nobody waits for reaches the API, which accepts the order or not.
LatePost(o) ==
  /\ o \in orphans
  /\ orphans' = orphans \ {o}
  /\ book' \in {book, book \cup {o}}
  /\ UNCHANGED <<syncVars, localVars, call, done, faults>>

PlaceOrdersDone ==
  /\ round = "PlaceOrders"
  /\ votes[keeper] \notin {None, TryNextBlockPayload}
  /\ orderUid' = votes[keeper]
  /\ StartRound("VerifyExecution")
  /\ UNCHANGED <<order, verified, keeper, localVars, book, done, faults>>

\* Faulty variant of PlaceOrdersTryNextBlock: the transition leads to the pause.
PlaceOrdersTryNextBlockPauses ==
  /\ round = "PlaceOrders"
  /\ votes[keeper] = TryNextBlockPayload
  /\ StartRound("FinishedWithOrders")
  /\ UNCHANGED <<order, verified, orderUid, keeper, localVars, book, done, faults>>

PlaceOrdersTryNextBlock ==
  /\ round = "PlaceOrders"
  /\ votes[keeper] = TryNextBlockPayload
  /\ StartRound("SelectOrders")
  /\ UNCHANGED <<order, verified, orderUid, keeper, localVars, book, done, faults>>

-----------------------------------------------------------------------------
(* VerifyExecutionRound *)

\* A reported uid other than the expected one fails at once; otherwise the
\* agent asks the API for the order.  An agent without a report (the keeper
\* reported an error) asks the API, too.
ReportPlausible == orderUid \in {ErrorPayload, order}

\* Faulty variant of VerifyExecution: the report is trusted, the API is not asked.
VerifyExecutionTrusting(a) ==
  /\ round = "VerifyExecution"
  /\ a \in Up
  /\ votes[a] = None
  /\ Vote(a, IF ReportPlausible THEN VerificationOk ELSE VerificationFailed)
  /\ UNCHANGED <<round, order, verified, orderUid, keeper, localVars, apiVars,
                 done, faults>>

VerifyExecution(a) ==
  /\ round = "VerifyExecution"
  /\ a \in Up
  /\ votes[a] = None
  /\ Vote(a, IF ReportPlausible /\ order \in book
             THEN VerificationOk
             ELSE VerificationFailed)
  /\ UNCHANGED <<round, order, verified, orderUid, keeper, localVars, apiVars,
                 done, faults>>

\* The API has the order, but does not answer this agent's query with 200.
VerifyExecutionFailedGet(a) ==
  /\ round = "VerifyExecution"
  /\ a \in Up
  /\ votes[a] = None
  /\ ReportPlausible /\ order \in book
  /\ Fault("failed_get")
  /\ Vote(a, VerificationFailed)
  /\ UNCHANGED <<round, order, verified, orderUid, keeper, localVars, apiVars, done>>

VerifyExecutionDone ==
  /\ round = "VerifyExecution"
  /\ Reached(VerificationOk)
  /\ verified' = order
  /\ done' = done \cup {order}
  /\ StartRound("SelectOrders")
  /\ UNCHANGED <<order, orderUid, keeper, localVars, book, faults>>

VerifyExecutionBadSubmission ==
  /\ round = "VerifyExecution"
  /\ Reached(VerificationFailed)
  /\ StartRound("Randomness")
  /\ UNCHANGED <<order, verified, orderUid, keeper, localVars, book, done, faults>>

VerifyExecutionNoMajority ==
  /\ round = "VerifyExecution"
  /\ NoMajority
  /\ StartRound("PlaceOrders")
  /\ UNCHANGED <<order, verified, orderUid, keeper, localVars, book, done, faults>>

-----------------------------------------------------------------------------
(* ROUND_TIMEOUT *)

\* The round to which the transition function sends a timeout.
AfterTimeout ==
  [r \in Rounds |-> IF r = "VerifyExecution" THEN "PlaceOrders" ELSE r]

\* Nobody who is up has anything left to do in the round, and it has no result.
Stalled ==
  CASE round \in {"SelectOrders", "VerifyExecution"} ->
         /\ \A a \in Up : votes[a] # None
         /\ ~NoMajority
         /\ \A p \in Payloads : ~Reached(p)
    [] round = "PlaceOrders" -> keeper \in Down \/ call = "lost"
    [] OTHER -> FALSE

RoundTimeout ==
  /\ round \in {"SelectOrders", "PlaceOrders", "VerifyExecution"}
  /\ StartRound(AfterTimeout[round])
  /\ UNCHANGED <<order, verified, orderUid, keeper, localVars, book, done>>

\* The timer of a round without further progress.
TimeoutStalled == Stalled /\ RoundTimeout /\ UNCHANGED faults

\* The timer is faster than the agents, the API or the network.
TimeoutEarly == ~Stalled /\ RoundTimeout /\ Fault("timeout")

-----------------------------------------------------------------------------
VoteStep(a) == SelectOrders(a) \/ VerifyExecution(a) \/ VerifyExecutionFailedGet(a)

AgentStep ==
  \E a \in Agents :
    \/ VoteStep(a)
    \/ Restart(a)
    \/ \E o \in Orders : TradeableOrder(a, o)

EndOfRound ==
  \/ \E o \in Orders : SelectOrdersDone(o)
  \/ SelectOrdersNoAction
  \/ SelectOrdersNoMajority
  \/ ResetAndPause
  \/ RandomnessDone
  \/ \E k \in Agents : SelectKeeperDone(k)
  \/ SelectKeeperNoMajority
  \/ PlaceOrdersDone
  \/ PlaceOrdersTryNextBlock
  \/ VerifyExecutionDone
  \/ VerifyExecutionBadSubmission
  \/ VerifyExecutionNoMajority
  \/ TimeoutStalled
  \/ TimeoutEarly

PostStep ==
  \/ PlaceOrder
  \/ PostAccepted
  \/ PostDuplicate
  \/ PostRefused
  \/ PostUnconfirmed
  \/ PostLost
  \/ \E o \in Orders : LatePost(o)

Next == AgentStep \/ EndOfRound \/ PostStep

Spec == Init /\ [][Next]_vars

(* Fairness of the rounds: the behaviours of agents that are up run, blocks  *)
(* are made, the API answers unless the answer is lost, and the timer of a   *)
(* stalled round goes off.  Faults, late posts and early timeouts are not    *)
(* fair.                                                                     *)
RoundFairness ==
  /\ \A a \in Up : WF_vars(SelectOrders(a)) /\ WF_vars(VerifyExecution(a))
  /\ \A o \in Orders : WF_vars(SelectOrdersDone(o))
  /\ WF_vars(SelectOrdersNoAction)
  /\ WF_vars(SelectOrdersNoMajority)
  /\ WF_vars(ResetAndPause)
  /\ WF_vars(RandomnessDone)
  /\ WF_vars(\E k \in Agents : SelectKeeperDone(k))
  /\ WF_vars(PlaceOrder)
  /\ WF_vars(PostAccepted \/ PostDuplicate)
  /\ WF_vars(PlaceOrdersDone)
  /\ WF_vars(PlaceOrdersTryNextBlock)
  /\ WF_vars(VerifyExecutionDone)
  /\ WF_vars(VerifyExecutionBadSubmission)
  /\ WF_vars(VerifyExecutionNoMajority)
  /\ WF_vars(TimeoutStalled)

\* ... and the monitoring skill hands over all orders.
Fairness ==
  /\ RoundFairness
  /\ \A a \in Up, o \in Orders : WF_vars(TradeableOrder(a, o))

FairSpec == Spec /\ Fairness

=============================================================================
