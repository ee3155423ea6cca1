-------------------------- MODULE MCOrderMonitoring --------------------------
(***************************************************************************)
(* OrderMonitoring on a few transactions of two owners.                    *)
(***************************************************************************)
EXTENDS OrderMonitoringProperties

CONSTANTS w1, w2, p1, p2, r1, t1, t2, t3

Order(w, p) == [owner |-> w, params |-> p]

\* An order of w1 in the first transaction, one of w2 in each of the others.
TwoOwners == [t \in Txs |-> IF t = t1 THEN <<Order(w1, p1)>> ELSE <<Order(w2, p2)>>]

\* Two orders of w1 in the same transaction.
TwoOfOneOwner == [t \in Txs |-> <<Order(w1, p1), Order(w1, p2)>>]

NoRoots == [t \in Txs |-> None]

\* Two transactions set a root of w1 for one more order.
RootsOfW1 ==
  [t \in Txs |->
     CASE t = t1 -> None
       [] t = t2 -> [owner |-> w1, root |-> r1, orders |-> <<p1>>]
       [] t = t3 -> [owner |-> w1, root |-> r1, orders |-> <<p2>>]]

=============================================================================
