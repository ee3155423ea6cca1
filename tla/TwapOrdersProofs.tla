-------------------------- MODULE TwapOrdersProofs --------------------------
(***************************************************************************)
(* Proofs about TwapOrders, for all orders, numbers of parts, periods,     *)
(* spans and block times.                                                  *)
(***************************************************************************)
EXTENDS TwapOrders, TLAPS

-----------------------------------------------------------------------------
(* Arithmetic of parts *)

\* Integer division rounds down.
LEMMA Division ==
  ASSUME NEW a \in Nat, NEW b \in Nat \ {0}
  PROVE  /\ a \div b \in Nat
         /\ (a \div b) * b =< a
         /\ a < (a \div b) * b + b
<1>1. a = b * (a \div b) + (a % b) /\ a % b \in 0..(b - 1) /\ a \div b \in Nat
  OBVIOUS
<1> DEFINE q == a \div b
           r == a % b
<1>2. q \in Nat /\ r \in Nat /\ r < b /\ a = b * q + r
  BY <1>1
<1> HIDE DEF q, r
<1>3. b * q = q * b
  BY <1>2
<1>4. q * b \in Nat
  BY <1>2
<1> DEFINE p == q * b
<1>5. p \in Nat /\ a = p + r
  BY <1>2, <1>3, <1>4
<1> HIDE DEF p
<1>6. p =< a /\ a < p + b
  BY <1>2, <1>5
<1> QED
  BY <1>2, <1>6 DEF p, q

\* A larger number of periods takes longer.
LEMMA Monotone ==
  ASSUME NEW m \in Nat, NEW n \in Nat, m =< n, NEW b \in Nat
  PROVE  m * b =< n * b
OBVIOUS

LEMMA TwapFacts ==
  ASSUME NEW o \in Orders
  PROVE  /\ Twap[o].t0 \in Nat /\ Twap[o].cabinet \in Nat /\ Twap[o].span \in Nat
         /\ Twap[o].n \in Nat \ {0} /\ Twap[o].t \in Nat \ {0}
         /\ ChainStart(o) \in Nat /\ StartTimestamp(o) \in Nat
<1>1. Twap[o] \in TwapData
  BY TwapAssumption
<1> QED
  BY <1>1 DEF TwapData, ChainStart, StartTimestamp

\* The chain never returns a part that the order does not have.
LEMMA TradeablePart ==
  ASSUME NEW o \in Orders, NEW time \in Nat, ChainTradeable(o, time)
  PROVE  PartAt(o, time) \in Nat /\ PartAt(o, time) < Twap[o].n
<1>1. time - ChainStart(o) \in Nat
  BY TwapFacts DEF ChainTradeable
<1>2. PartAt(o, time) \in Nat
  BY <1>1, TwapFacts, Division DEF PartAt
<1> QED
  BY <1>2 DEF ChainTradeable

\* "The order has expired": no part of an expired order becomes tradeable later.
LEMMA ExpiredForever ==
  ASSUME NEW o \in Orders, NEW time \in Nat, Expired(o, time),
         NEW later \in Nat, time =< later
  PROVE  ~ChainTradeable(o, later)
<1> SUFFICES ASSUME ChainTradeable(o, later)
             PROVE  FALSE
  OBVIOUS
<1> DEFINE start == ChainStart(o)
           part == PartAt(o, later)
           n == Twap[o].n
           t == Twap[o].t
           span == Twap[o].span
           passed == part * t
           last == (n - 1) * t
<1>1. /\ start \in Nat /\ n \in Nat \ {0} /\ t \in Nat \ {0} /\ span \in Nat
      /\ part \in Nat /\ part < n
  BY TwapFacts, TradeablePart
<1>2. later - start \in Nat /\ later < start + passed + t
  <2>1. later - start \in Nat
    BY <1>1 DEF ChainTradeable
  <2>2. later - start < passed + t /\ passed \in Nat
    BY <1>1, <2>1, Division DEF PartAt
  <2> HIDE DEF passed
  <2> QED
    BY <1>1, <2>1, <2>2
<1>3. passed =< last /\ passed \in Nat /\ last \in Nat /\ n * t = last + t
  <2> HIDE DEF part, n, t
  <2>1. part =< n - 1 /\ n - 1 \in Nat
    BY <1>1
  <2> QED
    BY <1>1, <2>1, Monotone
<1>4. CASE span = 0
  <2>1. time >= start + n * t
    BY <1>4 DEF Expired
  <2>2. time >= start + (last + t)
    BY <1>3, <2>1
  <2> HIDE DEF start, passed, last, t
  <2> QED
    BY <1>1, <1>2, <1>3, <2>2
<1>5. CASE span # 0
  <2>1. time >= start + (last + span) /\ later < start + passed + span
    BY <1>5 DEF Expired, ChainTradeable
  <2> HIDE DEF start, passed, last, span
  <2> QED
    BY <1>1, <1>3, <2>1
<1> QED
  BY <1>4, <1>5

\* should_drop_order does not drop an order too early, if it does not take it for
\* started too early.
LEMMA ShouldDropExpired ==
  ASSUME NEW o \in Orders \ OtherTypes, NEW time \in Nat, ShouldDrop(o, time),
         StartsNotEarly
  PROVE  Expired(o, time)
<1> DEFINE full == Twap[o].n * Twap[o].t
           last == (Twap[o].n - 1) * Twap[o].t
<1>1. /\ ChainStart(o) \in Nat /\ StartTimestamp(o) \in Nat /\ Twap[o].span \in Nat
      /\ full \in Nat /\ last \in Nat
  BY TwapFacts
<1>2. ChainStart(o) =< StartTimestamp(o)
  BY DEF StartsNotEarly
<1>3. CASE Twap[o].span = 0
  <2>1. time >= StartTimestamp(o) + full
    BY <1>3 DEF ShouldDrop, EndTimestamp
  <2> HIDE DEF full
  <2>2. time >= ChainStart(o) + full
    BY <1>1, <1>2, <2>1
  <2> QED
    BY <1>3, <2>2 DEF Expired, full
<1>4. CASE Twap[o].span # 0
  <2>1. time >= (StartTimestamp(o) + last) + Twap[o].span
    BY <1>4 DEF ShouldDrop, EndTimestamp
  <2> HIDE DEF last
  <2>2. time >= ChainStart(o) + (last + Twap[o].span)
    BY <1>1, <1>2, <2>1
  <2> QED
    BY <1>4, <2>2 DEF Expired, last
<1> QED
  BY <1>3, <1>4

-----------------------------------------------------------------------------
(* The invariant *)

LEMMA InitPoll == Init => PollInv
<1> SUFFICES ASSUME Init
             PROVE  PollInv
  OBVIOUS
<1>1. TypeOK
  <2>1. now \in 0..MaxTime /\ nextId \in 0..MaxIds /\ faults \in 0..MaxFaults
    BY TwapAssumption DEF Init
  <2> QED
    BY <2>1, Zenon DEF Init, TypeOK
<1> QED
  BY <1>1 DEF Init, PollInv, RequestInRegistry, CurrentOnItsWay, AnswerWellFormed, Listed,
              PartsOnTheirWay, Gone, PartsHanded, DropsExpired, DroppedOnlyIfExpired

\* A new entry and a new request find the lists of the request empty or leave them.
LEMMA AskPoll ==
  ASSUME PollInv, Ask \/ \E o \in Orders : Register(o)
  PROVE  PollInv'
<1>1. CASE Ask
  <2>1. TypeOK'
    BY <1>1 DEF PollInv, TypeOK, Ask
  <2>2. /\ todo' = registry /\ tradeable' = {} /\ drops' = {} /\ current' = None /\ busy'
        /\ UNCHANGED <<nextId, registry, handed, dropped>>
    BY <1>1 DEF Ask, PollInv, RequestInRegistry
  <2> QED
    BY <2>1, <2>2 DEF PollInv, RequestInRegistry, CurrentOnItsWay, AnswerWellFormed, Listed,
                      PartsOnTheirWay, Gone, PartsHanded, DropsExpired,
                      DroppedOnlyIfExpired
<1>2. ASSUME NEW o \in Orders, Register(o)
      PROVE  PollInv'
  <2> DEFINE e == [id |-> nextId, order |-> o]
  <2>1. /\ nextId' = nextId + 1 /\ registry' = registry \cup {e} /\ nextId < MaxIds
        /\ UNCHANGED <<now, busy, todo, current, tradeable, drops, handed, dropped, faults>>
    BY <1>2 DEF Register, callVars
  <2>2. e \in Entry /\ e.id = nextId /\ nextId \in Nat /\ nextId' \in 0..MaxIds
    BY <2>1, TwapAssumption DEF PollInv, TypeOK, Entry
  <2>3. registry \subseteq Entry /\ \A f \in registry \cup Gone : f.id < nextId
    BY DEF PollInv, TypeOK, RequestInRegistry, PartsOnTheirWay
  <2>4. Gone \subseteq Entry
    BY DEF PollInv, TypeOK, Gone, Part, Drop
  <2> HIDE DEF e
  <2>5. TypeOK'
    BY <2>1, <2>2 DEF PollInv, TypeOK
  <2>6. RequestInRegistry'
    <3>1. \A f \in registry' : f.id < nextId'
      BY <2>1, <2>2, <2>3 DEF Entry
    <3> QED
      BY <2>1, <3>1 DEF PollInv, RequestInRegistry
  <2>7. CurrentOnItsWay' /\ AnswerWellFormed'
    <3>1. e \notin todo
      BY <2>2, <2>3 DEF PollInv, RequestInRegistry
    <3> QED
      BY <2>1, <3>1 DEF PollInv, CurrentOnItsWay, AnswerWellFormed, Listed
  <2>8. PartsOnTheirWay'
    <3>1. Gone' = Gone
      BY <2>1 DEF Gone
    <3>2. \A f \in Gone : f.id < nextId' /\ f \notin registry'
      BY <2>1, <2>2, <2>3, <2>4 DEF PollInv, PartsOnTheirWay, Entry
    <3> QED
      BY <2>1, <3>1, <3>2 DEF PollInv, PartsOnTheirWay
  <2> QED
    BY <2>1, <2>5, <2>6, <2>7, <2>8 DEF PollInv, PartsHanded, DropsExpired,
                                        DroppedOnlyIfExpired
<1> QED
  BY <1>1, <1>2

\* The next entry of the request is taken, and becomes the current one or is skipped.
LEMMA GetTradeablePoll ==
  ASSUME PollInv, NEW e \in todo, GetTradeable(e)
  PROVE  PollInv'
<1>1. /\ todo' = todo \ {e} /\ current = None /\ busy
      /\ UNCHANGED <<now, nextId, registry, busy, tradeable, drops, handed, dropped, faults>>
  BY DEF GetTradeable
<1>2. now \in Nat /\ e \in Entry /\ e.order \in Orders
  BY DEF PollInv, TypeOK, Entry
<1>3. current' = None
        \/ /\ ChainTradeable(e.order, now)
           /\ current' = [entry |-> e, part |-> PartAt(e.order, now)]
  BY DEF GetTradeable
<1>4. current' # None => /\ current' \in Part
                         /\ current'.entry = e /\ current'.part < Twap[e.order].n
  BY <1>2, <1>3, TradeablePart DEF Part
<1>5. TypeOK'
  BY <1>1, <1>4 DEF PollInv, TypeOK
<1>6. Listed' = Listed /\ e \notin Listed /\ e \in registry
  BY <1>1 DEF PollInv, Listed, AnswerWellFormed, RequestInRegistry
<1>7. RequestInRegistry' /\ AnswerWellFormed'
  BY <1>1, <1>6 DEF PollInv, RequestInRegistry, AnswerWellFormed
<1>8. CurrentOnItsWay'
  BY <1>1, <1>4, <1>6 DEF CurrentOnItsWay
<1> QED
  BY <1>1, <1>5, <1>7, <1>8
     DEF PollInv, PartsOnTheirWay, Gone, PartsHanded, DropsExpired, DroppedOnlyIfExpired

\* An order that cannot be decoded, or whose request fails, is in no list.
LEMMA SkipPoll ==
  ASSUME PollInv, DecodeFails \/ RequestFails
  PROVE  PollInv'
<1>1. /\ current' = None /\ todo' \subseteq todo
      /\ UNCHANGED <<nextId, registry, busy, tradeable, drops, handed, dropped>>
  BY DEF DecodeFails, RequestFails
<1>2. TypeOK'
  BY TwapAssumption DEF PollInv, TypeOK, DecodeFails, RequestFails
<1>3. RequestInRegistry' /\ AnswerWellFormed' /\ CurrentOnItsWay'
  BY <1>1 DEF PollInv, RequestInRegistry, AnswerWellFormed, Listed, CurrentOnItsWay
<1> QED
  BY <1>1, <1>2, <1>3
     DEF PollInv, PartsOnTheirWay, Gone, PartsHanded, DropsExpired, DroppedOnlyIfExpired

\* The current order goes to one of the lists; neither has it yet.
LEMMA ClassifyPoll ==
  ASSUME PollInv, Classify
  PROVE  PollInv'
<1> DEFINE e == current.entry
           o == e.order
           drop == [entry |-> e, at |-> now]
<1>1. /\ current # None /\ current \in Part /\ e \in Entry /\ o \in Orders \ OtherTypes
      /\ now \in Nat
      /\ e \in registry \ todo /\ e \notin Listed /\ current.part < Twap[o].n
      /\ current' = None
      /\ UNCHANGED <<now, nextId, registry, busy, todo, handed, dropped, faults>>
  BY DEF Classify, PollInv, TypeOK, CurrentOnItsWay, Part, Entry
<1>2. busy
  BY <1>1 DEF PollInv, RequestInRegistry
<1>3. CASE ShouldDrop(o, now)
  <2>1. drops' = drops \cup {drop} /\ tradeable' = tradeable
    BY <1>3 DEF Classify
  <2>2. drop \in Drop /\ drop.entry = e /\ drop.at = now
    BY <1>1 DEF Drop
  <2> HIDE DEF drop
  <2>3. TypeOK'
    BY <1>1, <2>1, <2>2 DEF PollInv, TypeOK
  <2>4. AnswerWellFormed'
    BY <1>1, <2>1, <2>2 DEF PollInv, AnswerWellFormed, Listed
  <2>5. RequestInRegistry' /\ CurrentOnItsWay' /\ PartsOnTheirWay'
    BY <1>1, <1>2, <2>1
       DEF PollInv, RequestInRegistry, CurrentOnItsWay, PartsOnTheirWay, Gone
  <2>6. StartsNotEarly => DropsExpired'
    <3>1. StartsNotEarly => Expired(o, now)
      BY <1>1, <1>3, ShouldDropExpired
    <3> QED
      BY <2>1, <2>2, <3>1 DEF PollInv, DropsExpired
  <2> QED
    BY <1>1, <2>3, <2>4, <2>5, <2>6 DEF PollInv, PartsHanded, DroppedOnlyIfExpired
<1>4. CASE ~ShouldDrop(o, now)
  <2>1. tradeable' = tradeable \cup {current} /\ drops' = drops
    BY <1>4 DEF Classify
  <2>2. TypeOK'
    BY <1>1, <2>1 DEF PollInv, TypeOK
  <2>3. AnswerWellFormed'
    BY <1>1, <2>1 DEF PollInv, AnswerWellFormed, Listed
  <2>4. RequestInRegistry' /\ CurrentOnItsWay' /\ PartsOnTheirWay'
    BY <1>1, <1>2, <2>1
       DEF PollInv, RequestInRegistry, CurrentOnItsWay, PartsOnTheirWay, Gone
  <2> QED
    BY <1>1, <2>1, <2>2, <2>3, <2>4
       DEF PollInv, PartsHanded, DropsExpired, DroppedOnlyIfExpired
<1> QED
  BY <1>3, <1>4

\* The answer takes the entries of both lists out of the registry, for good.
LEMMA AnswerPoll ==
  ASSUME PollInv, Answer
  PROVE  PollInv'
<1>1. /\ registry' = registry \ Listed
      /\ handed' = handed \cup tradeable /\ dropped' = dropped \cup drops
      /\ ~busy' /\ todo' = {} /\ current' = None /\ tradeable' = {} /\ drops' = {}
      /\ nextId' = nextId
  BY DEF Answer, Listed
<1>2. TypeOK'
  BY DEF PollInv, TypeOK, Answer
<1>3. RequestInRegistry' /\ CurrentOnItsWay' /\ AnswerWellFormed'
  BY <1>1 DEF PollInv, RequestInRegistry, CurrentOnItsWay, AnswerWellFormed, Listed
<1>4. /\ Listed \subseteq registry
      /\ \A p \in tradeable : p.entry \in Listed
      /\ \A d \in drops : d.entry \in Listed
  BY DEF PollInv, AnswerWellFormed, Listed
<1>5. PartsOnTheirWay'
  <2>1. Gone' = Gone \cup Listed
    BY <1>1 DEF Gone, Listed
  <2>2. \A e \in Gone' : e.id < nextId' /\ e \notin registry'
    BY <1>1, <1>4, <2>1 DEF PollInv, PartsOnTheirWay, RequestInRegistry
  <2> QED
    BY <1>1, <2>2 DEF PartsOnTheirWay
<1>6. PartsHanded'
  <2>1. /\ \A p \in handed : p.entry \in Gone
        /\ \A d \in dropped : d.entry \in Gone
    BY DEF Gone
  <2>2. Gone \cap Listed = {}
    BY <1>4 DEF PollInv, PartsOnTheirWay
  <2> QED
    BY <1>1, <1>4, <2>1, <2>2 DEF PollInv, PartsHanded, PartsOnTheirWay, AnswerWellFormed
<1>7. StartsNotEarly => DropsExpired' /\ DroppedOnlyIfExpired'
  BY <1>1 DEF PollInv, DropsExpired, DroppedOnlyIfExpired
<1> QED
  BY <1>2, <1>3, <1>5, <1>6, <1>7 DEF PollInv

LEMMA StepPoll ==
  ASSUME PollInv, [Next]_vars
  PROVE  PollInv'
<1>1. CASE Block \/ UNCHANGED vars
  <2>1. UNCHANGED <<nextId, registry, busy, todo, current, tradeable, drops, handed,
                    dropped, faults>>
    BY <1>1 DEF Block, vars, callVars
  <2>2. now' \in 0..MaxTime
    BY <1>1, TwapAssumption DEF PollInv, TypeOK, Block, vars
  <2>3. TypeOK'
    BY <2>1, <2>2 DEF PollInv, TypeOK
  <2> QED
    BY <2>1, <2>3 DEF PollInv, RequestInRegistry, CurrentOnItsWay, AnswerWellFormed, Listed,
                      PartsOnTheirWay, Gone, PartsHanded, DropsExpired,
                      DroppedOnlyIfExpired
<1> QED
  BY <1>1, AskPoll, GetTradeablePoll, SkipPoll, ClassifyPoll, AnswerPoll DEF Next

-----------------------------------------------------------------------------
(* The theorems *)

\* A request is about entries of the registry; each of them is waiting, looked at, or in
\* one list; the parts are parts of their orders; an entry that was handed over or
\* dropped does not come back, whatever is registered.
THEOREM PollInvariant == Spec => []PollInv
<1>1. PollInv /\ [Next]_vars => PollInv'
  BY StepPoll
<1> QED
  BY <1>1, InitPoll, PTL DEF Spec

\* The variables keep their types.
THEOREM PollTypes == Spec => []TypeOK
<1>1. PollInv => TypeOK
  BY DEF PollInv
<1> QED
  BY <1>1, PollInvariant, PTL

\* The answer of get_tradeable_order names an entry at most once, and only entries that
\* are still in the registry, so that the handler finds each of them.
THEOREM AnswersWellFormed == Spec => []AnswerWellFormed
<1>1. PollInv => AnswerWellFormed
  BY DEF PollInv
<1> QED
  BY <1>1, PollInvariant, PTL

\* Each registration ends at most once, with one part of its order or a drop.  It says
\* nothing of two registrations of one order.
THEOREM OnePartPerRegistration == Spec => []PartsHanded
<1>1. PollInv => PartsHanded
  BY DEF PollInv
<1> QED
  BY <1>1, PollInvariant, PTL

\* Only expired orders are dropped, unless should_drop_order takes an order for started
\* before it is.  (It may: it chooses the start by the span.)
THEOREM OnlyExpiredDropped == StartsNotEarly => (Spec => []DroppedOnlyIfExpired)
<1>1. StartsNotEarly /\ PollInv => DroppedOnlyIfExpired
  BY DEF PollInv
<1> SUFFICES ASSUME StartsNotEarly
             PROVE  Spec => []DroppedOnlyIfExpired
  OBVIOUS
<1>2. PollInv => DroppedOnlyIfExpired
  BY <1>1
<1> QED
  BY <1>2, PollInvariant, PTL

\* An order that was dropped is not missed: at no later time the contract would have
\* found it tradeable.
THEOREM DroppedNeverTradeable ==
  StartsNotEarly =>
    (Spec => [](\A d \in dropped : \A later \in Nat :
                  d.at =< later => ~ChainTradeable(d.entry.order, later)))
<1> DEFINE NotMissed == \A d \in dropped : \A later \in Nat :
                          d.at =< later => ~ChainTradeable(d.entry.order, later)
<1> SUFFICES ASSUME StartsNotEarly
             PROVE  Spec => []NotMissed
  OBVIOUS
<1>1. PollInv => NotMissed
  BY ExpiredForever DEF PollInv, TypeOK, Drop, Entry, DroppedOnlyIfExpired
<1> QED
  BY <1>1, PollInvariant, PTL

=============================================================================
