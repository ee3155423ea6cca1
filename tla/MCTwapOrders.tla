---------------------------- MODULE MCTwapOrders ----------------------------
(***************************************************************************)
(* TwapOrders on two orders of two parts each, and one of another type.    *)
(***************************************************************************)
EXTENDS TwapOrders

CONSTANTS o1, o2, o3

\* o1 starts when it is mined and has full periods, o2 starts at a fixed time and
\* has a span: the two kinds that should_drop_order knows.  o3 is of another type.
Matching ==
  [o \in Orders |->
     CASE o = o1 -> [t0 |-> 0, cabinet |-> 1, n |-> 2, t |-> 2, span |-> 0]
       [] o = o2 -> [t0 |-> 2, cabinet |-> 0, n |-> 2, t |-> 3, span |-> 2]
       [] o = o3 -> [t0 |-> 1, cabinet |-> 0, n |-> 1, t |-> 7, span |-> 0]]

\* A fixed start with full periods, a start when mined with a span.
Mixed ==
  [o \in Orders |->
     IF o = o1 THEN [t0 |-> 1, cabinet |-> 0, n |-> 2, t |-> 2, span |-> 0]
               ELSE [t0 |-> 0, cabinet |-> 2, n |-> 2, t |-> 3, span |-> 2]]

=============================================================================
