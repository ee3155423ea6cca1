--------------------------- MODULE OrderForwarding ---------------------------
(***************************************************************************)
(* What the service promises about the orders it forwards, without rounds, *)
(* votes, keepers or lists: it works on one order at a time, only an order *)
(* it works on is ever posted, an order is confirmed only after the CoW    *)
(* API has accepted it, and a confirmed order is never taken up again.     *)
(***************************************************************************)
CONSTANTS
  Orders,  \* the discrete orders
  None     \* no order is being processed, not in Orders

VARIABLES
  current,   \* the order being processed
  posted,    \* orders with a post under way
  accepted,  \* orders the API has accepted
  confirmed  \* orders the service has confirmed

vars == <<current, posted, accepted, confirmed>>

Init ==
  /\ current = None
  /\ posted = {}
  /\ accepted = {}
  /\ confirmed = {}

\* Take up an order that was not confirmed before.
Select(o) ==
  /\ current = None
  /\ o \notin confirmed
  /\ current' = o
  /\ UNCHANGED <<posted, accepted, confirmed>>

\* Post the current order, possibly again.
Post ==
  /\ current # None
  /\ posted' = posted \cup {current}
  /\ UNCHANGED <<current, accepted, confirmed>>

\* The API answers a post, or loses it; further posts of the order may follow.
Answer(o) ==
  /\ o \in posted
  /\ posted' \in {posted, posted \ {o}}
  /\ accepted' \in {accepted, accepted \cup {o}}
  /\ UNCHANGED <<current, confirmed>>

\* Put the order off: it stays unconfirmed and may be taken up later.
PutOff ==
  /\ current # None
  /\ current' = None
  /\ UNCHANGED <<posted, accepted, confirmed>>

Confirm ==
  /\ current \in accepted
  /\ confirmed' = confirmed \cup {current}
  /\ current' = None
  /\ UNCHANGED <<posted, accepted>>

Next ==
  \/ \E o \in Orders : Select(o) \/ Answer(o)
  \/ Post
  \/ PutOff
  \/ Confirm

Spec == Init /\ [][Next]_vars

=============================================================================
