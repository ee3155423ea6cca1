----------------------------- MODULE MCCowOrders -----------------------------
(***************************************************************************)
(* CowOrders on the four agents of the deployed service.                   *)
(***************************************************************************)
EXTENDS CowOrdersProperties

\* More than two thirds of the agents: three of four.
MCQuorums ==
  {Q \in SUBSET Agents : 3 * Cardinality(Q) > 2 * Cardinality(Agents)}

\* Agents and orders are interchangeable in the safety runs.
MCSymmetry == Permutations(Agents) \cup Permutations(Orders)

\* Before the first round all agents have received all orders, in the same order.
SameLists == \E s \in SetToSeqs(Orders) : InitWith([a \in Agents |-> s])
SameListsSpec == SameLists /\ [][Next]_vars /\ Fairness

\* Before the first round all agents have received all orders, each in the order
\* of its own polls.
OwnLists == \E lists \in [Agents -> SetToSeqs(Orders)] : InitWith(lists)
OwnListsSpec == OwnLists /\ [][Next]_vars /\ Fairness

=============================================================================
