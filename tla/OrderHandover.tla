---------------------------- MODULE OrderHandover ----------------------------
(***************************************************************************)
(* What the monitoring of an agent promises about conditional orders,      *)
(* without websocket, requests for events, queues and flags.  An entry is  *)
(* one registration of an order that was announced; it is handed over at   *)
(* most once, as the order it was registered for, in the answer to a       *)
(* question about it.  Entries are only lost when the contract reports     *)
(* them expired, when their root is flushed, or all of them at a restart.  *)
(***************************************************************************)
EXTENDS Integers, SequencesExt

VARIABLES
  announced,  \* the orders [owner, params] that events have announced
  known,      \* the entries the agent keeps: [owner, id, params, root]
  next,       \* the first id that no entry has had
  asked,      \* what the contract is asked about: [owner, id, params]
  ready,      \* the orders handed to the rounds, a sequence
  handed      \* the ids of entries that were handed over

vars == <<announced, known, next, asked, ready, handed>>

Order(e) == [owner |-> e.owner, params |-> e.params]

Question(e) == [owner |-> e.owner, id |-> e.id, params |-> e.params]

Ids(entries) == {e.id : e \in entries}

Init ==
  /\ announced = {}
  /\ known = {}
  /\ next = 1
  /\ asked = {}
  /\ ready = <<>>
  /\ handed = {}

Announce ==
  /\ announced \subseteq announced'
  /\ UNCHANGED <<known, next, asked, ready, handed>>

\* New entries of announced orders, each with an id of its own.
Fresh(new) ==
  /\ \A e \in new : e.id \in next..(next' - 1) /\ Order(e) \in announced
  /\ \A e, f \in new : e.id = f.id => e = f

\* An owner's entries below one root.
Below(owner, root) == {e \in known : e.owner = owner /\ e.root = root}

\* Entries are registered; all those below a root that is set may be flushed.
Register ==
  /\ next' >= next
  /\ Fresh(known' \ known)
  /\ \/ known \subseteq known'
     \/ \E e \in known : known \ known' = Below(e.owner, e.root)
  /\ UNCHANGED <<announced, asked, ready, handed>>

\* One question at a time, about all entries.
Ask ==
  /\ asked = {}
  /\ asked' = {Question(e) : e \in known}
  /\ UNCHANGED <<announced, known, next, ready, handed>>

\* The contract has found some of the orders tradeable and some expired.  It was asked
\* about them; they may have been flushed since.
Answer(tradeable, expired) ==
  /\ Ids(ToSet(tradeable)) \cap handed = {}
  /\ handed' = handed \cup Ids(ToSet(tradeable))
  /\ ready' = ready \o [n \in 1..Len(tradeable) |-> Order(tradeable[n])]
  /\ known' = {e \in known : e.id \notin Ids(ToSet(tradeable) \cup expired)}
  /\ asked' = {}
  /\ UNCHANGED <<announced, next>>

\* As many orders are tradeable as the list of ready orders grows by.
AnswerSome ==
  \E tradeable \in [1..(Len(ready') - Len(ready)) -> asked] :
    /\ IsInjective(tradeable)
    /\ \E expired \in SUBSET (asked \ ToSet(tradeable)) : Answer(tradeable, expired)

NoAnswer ==
  /\ asked' = {}
  /\ UNCHANGED <<announced, known, next, ready, handed>>

Restart ==
  /\ known' = {}
  /\ asked' = {}
  /\ ready' = <<>>
  /\ UNCHANGED <<announced, next, handed>>

Next == Announce \/ Register \/ Ask \/ AnswerSome \/ NoAnswer \/ Restart

Spec == Init /\ [][Next]_vars

=============================================================================
