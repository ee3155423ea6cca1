--------------------------- MODULE CowOrdersProofs ---------------------------
(***************************************************************************)
(* Proofs about CowOrders, for every number of agents and orders.          *)
(***************************************************************************)
EXTENDS CowOrdersProperties, SequenceTheorems, WellFoundedInduction, TLAPS

-----------------------------------------------------------------------------
(* Sequences *)

\* A sequence that holds e has a first position with e, and SelectInSeq finds it.
LEMMA FirstPosition ==
  ASSUME NEW S, NEW s \in Seq(S), NEW e, \E i \in 1..Len(s) : s[i] = e
  PROVE  LET k == SelectInSeq(s, LAMBDA v : v = e)
         IN  k \in 1..Len(s) /\ s[k] = e /\ \A i \in 1..(k - 1) : s[i] # e
<1> DEFINE I == {i \in 1..Len(s) : s[i] = e}
<1>1. I # {} /\ I \subseteq Nat
  BY LenProperties
<1>2. PICK m \in I : \A i \in I : ~(<<i, m>> \in OpToRel(<, Nat))
  BY <1>1, NatLessThanWellFounded, WFMin, Zenon
<1>3. \A i \in I : m =< i
  <2> SUFFICES ASSUME NEW i \in I, ~(m =< i)
               PROVE  FALSE
    OBVIOUS
  <2>1. i < m /\ <<i, m>> \in Nat \X Nat
    BY <1>1
  <2>2. <<i, m>> \in OpToRel(<, Nat)
    BY <2>1, Zenon DEF OpToRel
  <2> QED
    BY <1>2, <2>2
<1>4. Min(I) \in I /\ \A i \in I : Min(I) =< i
  BY <1>3, Zenon DEF Min
<1>5. SelectInSeq(s, LAMBDA v : v = e) = Min(I)
  BY <1>1 DEF SelectInSeq
<1>6. \A i \in 1..(Min(I) - 1) : s[i] # e
  BY <1>1, <1>4, LenProperties
<1> QED
  BY <1>4, <1>5, <1>6

\* Removing the first e leaves a sequence of the same elements in the same order,
\* at most one e shorter: it keeps every other element.
LEMMA RemoveFirstElements ==
  ASSUME NEW S, NEW s \in Seq(S), NEW e
  PROVE  /\ RemoveFirst(s, e) \in Seq(S)
         /\ ToSet(RemoveFirst(s, e)) \subseteq ToSet(s)
         /\ ToSet(s) \ {e} \subseteq ToSet(RemoveFirst(s, e))
         /\ (\A i, j \in 1..Len(s) : s[i] = s[j] => i = j) =>
              /\ e \notin ToSet(RemoveFirst(s, e))
              /\ \A i, j \in 1..Len(RemoveFirst(s, e)) :
                   RemoveFirst(s, e)[i] = RemoveFirst(s, e)[j] => i = j
<1>1. CASE ~\E i \in 1..Len(s) : s[i] = e
  <2>1. RemoveFirst(s, e) = s
    BY <1>1 DEF RemoveFirst
  <2> QED
    BY <1>1, <2>1, LenProperties DEF ToSet
<1>2. CASE \E i \in 1..Len(s) : s[i] = e
  <2> DEFINE k == SelectInSeq(s, LAMBDA v : v = e)
             p == SubSeq(s, 1, k - 1)
             q == SubSeq(s, k + 1, Len(s))
             r == RemoveFirst(s, e)
  <2>1. k \in 1..Len(s) /\ s[k] = e
    BY <1>2, FirstPosition
  <2>2. r = p \o q
    BY <1>2 DEF RemoveFirst, RemoveAt
  <2> HIDE DEF k, r
  <2>3. Len(s) \in Nat /\ \A i \in 1..Len(s) : s[i] \in S
    BY LenProperties, ElementOfSeq
  <2>4. p \in Seq(S) /\ Len(p) = k - 1 /\ \A i \in 1..(k - 1) : p[i] = s[i]
    BY <2>1, <2>3, SubSeqProperties
  <2>5. q \in Seq(S) /\ Len(q) = Len(s) - k /\ \A i \in 1..(Len(s) - k) : q[i] = s[k + i]
    BY <2>1, <2>3, SubSeqProperties
  <2> HIDE DEF p, q
  <2>6. /\ r \in Seq(S)
        /\ Len(r) = Len(s) - 1
        /\ \A i \in 1..(Len(s) - 1) : r[i] = IF i < k THEN s[i] ELSE s[i + 1]
    <3>1. /\ r \in Seq(S)
          /\ Len(r) = Len(p) + Len(q)
          /\ \A i \in 1..(Len(p) + Len(q)) :
               r[i] = IF i =< Len(p) THEN p[i] ELSE q[i - Len(p)]
      BY <2>2, <2>4, <2>5, ConcatProperties
    <3>2. ASSUME NEW i \in 1..(Len(s) - 1), i < k
          PROVE  r[i] = s[i]
      <4>1. i \in 1..(k - 1) /\ i =< Len(p) /\ i \in 1..(Len(p) + Len(q))
        BY <2>1, <2>3, <2>4, <2>5, <3>2
      <4>2. r[i] = p[i]
        BY <3>1, <4>1
      <4> QED
        BY <2>4, <4>1, <4>2
    <3>3. ASSUME NEW i \in 1..(Len(s) - 1), ~(i < k)
          PROVE  r[i] = s[i + 1]
      <4>1. r[i] = q[i - (k - 1)]
        <5>1. ~(i =< Len(p)) /\ i \in 1..(Len(p) + Len(q))
          BY <2>1, <2>3, <2>4, <2>5, <3>3
        <5>2. r[i] = q[i - Len(p)]
          BY <3>1, <5>1
        <5> QED
          BY <2>4, <5>2
      <4>2. q[i - (k - 1)] = s[k + (i - (k - 1))]
        BY <2>1, <2>3, <2>5, <3>3
      <4> QED
        BY <2>1, <2>3, <3>3, <4>1, <4>2
    <3>4. Len(r) = Len(s) - 1
      BY <2>1, <2>3, <2>4, <2>5, <3>1
    <3> QED
      BY <3>1, <3>2, <3>3, <3>4
  <2>7. DOMAIN r = 1..(Len(s) - 1) /\ DOMAIN s = 1..Len(s)
    BY <2>6, LenProperties
  <2>8. ToSet(r) \subseteq ToSet(s)
    BY <2>1, <2>3, <2>6, <2>7 DEF ToSet
  <2>9. ToSet(s) \ {e} \subseteq ToSet(r)
    <3> SUFFICES ASSUME NEW i \in 1..Len(s), s[i] # e
                 PROVE  \E j \in 1..(Len(s) - 1) : r[j] = s[i]
      BY <2>7 DEF ToSet
    <3>1. CASE i < k
      <4>1. i \in 1..(Len(s) - 1) /\ r[i] = s[i]
        BY <2>1, <2>3, <2>6, <3>1
      <4> QED
        BY <4>1
    <3>2. CASE i > k
      <4>1. i - 1 \in 1..(Len(s) - 1) /\ ~(i - 1 < k) /\ (i - 1) + 1 = i
        BY <2>1, <2>3, <3>2
      <4>2. r[i - 1] = s[(i - 1) + 1]
        BY <2>6, <4>1
      <4> QED
        BY <4>1, <4>2
    <3> QED
      BY <2>1, <3>1, <3>2
  <2>10. ASSUME \A i, j \in 1..Len(s) : s[i] = s[j] => i = j
        PROVE  /\ e \notin ToSet(r)
               /\ \A i, j \in 1..Len(r) : r[i] = r[j] => i = j
    <3>1. \A i \in 1..(Len(s) - 1) : r[i] # e
      BY <2>1, <2>3, <2>6, <2>10
    <3>2. ASSUME NEW i \in 1..(Len(s) - 1), NEW j \in 1..(Len(s) - 1), r[i] = r[j]
          PROVE  i = j
      <4> DEFINE pos(n) == IF n < k THEN n ELSE n + 1
      <4>1. pos(i) \in 1..Len(s) /\ pos(j) \in 1..Len(s)
        BY <2>1, <2>3
      <4>2. r[i] = s[pos(i)] /\ r[j] = s[pos(j)]
        BY <2>6
      <4>3. pos(i) = pos(j)
        BY <2>10, <3>2, <4>1, <4>2
      <4> QED
        BY <2>1, <2>3, <4>3
    <3> QED
      BY <2>6, <2>7, <3>1, <3>2 DEF ToSet
  <2> QED
    BY <2>6, <2>8, <2>9, <2>10 DEF r
<1> QED
  BY <1>1, <1>2

-----------------------------------------------------------------------------
(* Types *)

LEMMA WithoutProcessedType ==
  ASSUME TypeOK, NEW a \in Agents
  PROVE  /\ WithoutProcessed(a) \in Seq(Orders)
         /\ WithoutProcessed(a) # <<>> =>
              /\ Last(WithoutProcessed(a)) \in Orders
              /\ Last(WithoutProcessed(a)) \in ToSet(WithoutProcessed(a))
<1> DEFINE w == WithoutProcessed(a)
<1>1. ready[a] \in Seq(Orders)
  BY DEF TypeOK
<1>2. w \in Seq(Orders)
  BY <1>1, RemoveFirstElements DEF WithoutProcessed
<1> HIDE DEF w
<1>3. w # <<>> => Len(w) \in 1..Len(w) /\ w[Len(w)] \in Orders
  BY <1>2, EmptySeq, LenProperties
<1>4. w # <<>> => w[Len(w)] \in ToSet(w)
  BY <1>2, <1>3, LenProperties DEF ToSet
<1>5. Last(w) = w[Len(w)]
  BY DEF Last
<1> QED
  BY <1>2, <1>3, <1>4, <1>5 DEF w

LEMMA StartRoundType ==
  ASSUME TypeInv, NEW r \in Rounds, StartRound(r)
  PROVE  /\ round' = r
         /\ round' \in Rounds
         /\ votes' \in [Agents -> Payloads \cup {None}]
         /\ call' = "idle"
         /\ orphans' \subseteq Orders
<1> QED
  BY DEF StartRound, TypeInv, TypeOK, CallInRound, OrderSelected

USE DEF syncVars, localVars, apiVars

LEMMA TypeInitWith ==
  ASSUME NEW lists \in [Agents -> Seq(Orders)], InitWith(lists),
         MaxCopies # 0 \/ \A a \in Agents : ToSet(lists[a]) = {}
  PROVE  TypeInv
<1>1. received \in [Agents -> [Orders -> 0..MaxCopies]]
  <2>1. CASE MaxCopies # 0
    BY <2>1, ConstantAssumption DEF InitWith
  <2>2. CASE \A a \in Agents : ToSet(lists[a]) = {}
    BY <2>2, ConstantAssumption DEF InitWith
  <2> QED
    BY <2>1, <2>2
<1> QED
  BY <1>1, ConstantAssumption
     DEF InitWith, TypeInv, TypeOK, CallInRound, OrderSelected, KeeperSelected, Rounds

LEMMA TypeInit == Init => TypeInv
<1> DEFINE lists == [a \in Agents |-> <<>>]
<1>1. lists \in [Agents -> Seq(Orders)]
  BY EmptySeq
<1>2. \A a \in Agents : ToSet(lists[a]) = {}
  BY DEF ToSet
<1> QED
  BY <1>1, <1>2, TypeInitWith DEF Init

LEMMA TypeStep == TypeInv /\ [Next]_vars => TypeInv'
<1> SUFFICES ASSUME TypeInv, [Next]_vars
             PROVE  TypeInv'
  OBVIOUS
<1> USE DEF TypeInv, TypeOK, CallInRound, OrderSelected, KeeperSelected
<1>1. ASSUME NEW a \in Agents, SelectOrders(a)
      PROVE  TypeInv'
  BY <1>1, WithoutProcessedType DEF SelectOrders, Vote, Payloads, SpecialPayloads, NoOrdersPayload
<1>2. ASSUME NEW a \in Agents, VerifyExecution(a) \/ VerifyExecutionFailedGet(a)
      PROVE  TypeInv'
  <2>1. {VerificationOk, VerificationFailed} \subseteq Payloads
    BY DEF Payloads, SpecialPayloads
  <2>2. PICK p \in {VerificationOk, VerificationFailed} : Vote(a, p)
    BY <1>2, Zenon DEF VerifyExecution, VerifyExecutionFailedGet
  <2>3. votes' \in [Agents -> Payloads \cup {None}]
    BY <2>1, <2>2 DEF Vote
  <2>4. faults' \in 0..MaxFaults
    BY <1>2, ConstantAssumption DEF VerifyExecution, VerifyExecutionFailedGet, Fault
  <2> QED
    BY <1>2, <2>3, <2>4 DEF VerifyExecution, VerifyExecutionFailedGet
<1>3. ASSUME NEW a \in Agents, Restart(a)
      PROVE  TypeInv'
  <2>1. ready' \in [Agents -> Seq(Orders)]
    BY <1>3, EmptySeq DEF Restart
  <2> QED
    BY <1>3, <2>1, ConstantAssumption DEF Restart, Fault
<1>4. ASSUME NEW a \in Agents, NEW o \in Orders, TradeableOrder(a, o)
      PROVE  TypeInv'
  <2>1. Append(ready[a], o) \in Seq(Orders)
    BY AppendProperties
  <2>2. ready' \in [Agents -> Seq(Orders)]
    BY <1>4, <2>1 DEF TradeableOrder, HandOver
  <2>3. received' \in [Agents -> [Orders -> 0..MaxCopies]]
    BY <1>4, ConstantAssumption DEF TradeableOrder, HandOver
  <2> QED
    BY <1>4, <2>2, <2>3 DEF TradeableOrder, HandOver
<1>5. ASSUME EndOfRound
      PROVE  TypeInv'
  <2> USE StartRoundType DEF Rounds
  <2>1. ASSUME NEW o \in Orders, SelectOrdersDone(o)
        PROVE  TypeInv'
    BY <2>1 DEF SelectOrdersDone
  <2>2. CASE SelectOrdersNoAction \/ SelectOrdersNoMajority
    BY <2>2 DEF SelectOrdersNoAction, SelectOrdersNoMajority
  <2>3. CASE ResetAndPause
    BY <2>3 DEF ResetAndPause
  <2>4. CASE RandomnessDone
    BY <2>4 DEF RandomnessDone
  <2>5. ASSUME NEW k \in Agents, SelectKeeperDone(k)
        PROVE  TypeInv'
    BY <2>5 DEF SelectKeeperDone
  <2>6. CASE SelectKeeperNoMajority
    BY <2>6, ConstantAssumption DEF SelectKeeperNoMajority, Fault
  <2>7. CASE PlaceOrdersDone \/ PlaceOrdersTryNextBlock
    BY <2>7 DEF PlaceOrdersDone, PlaceOrdersTryNextBlock
  <2>8. CASE VerifyExecutionDone
    BY <2>8 DEF VerifyExecutionDone
  <2>9. CASE VerifyExecutionBadSubmission \/ VerifyExecutionNoMajority
    BY <2>9 DEF VerifyExecutionBadSubmission, VerifyExecutionNoMajority
  <2>10. CASE TimeoutStalled \/ TimeoutEarly
    BY <2>10, ConstantAssumption
       DEF TimeoutStalled, TimeoutEarly, RoundTimeout, AfterTimeout, Fault
  <2> QED
    BY <1>5, <2>1, <2>2, <2>3, <2>4, <2>5, <2>6, <2>7, <2>8, <2>9, <2>10
       DEF EndOfRound
<1>6. ASSUME PostStep
      PROVE  TypeInv'
  <2> USE DEF Payloads, SpecialPayloads, NullPayload, TryNextBlockPayload, ErrorPayload
  <2>1. CASE PlaceOrder
    BY <2>1 DEF PlaceOrder
  <2>2. CASE PostAccepted \/ PostDuplicate
    BY <2>2 DEF PostAccepted, PostDuplicate, Answered, Vote
  <2>3. CASE PostRefused
    BY <2>3, ConstantAssumption DEF PostRefused, Answered, Vote, Fault
  <2>4. CASE PostUnconfirmed
    BY <2>4, ConstantAssumption DEF PostUnconfirmed, Answered, Vote, Fault
  <2>5. CASE PostLost
    BY <2>5, ConstantAssumption DEF PostLost, Fault
  <2>6. ASSUME NEW o \in Orders, LatePost(o)
        PROVE  TypeInv'
    BY <2>6 DEF LatePost
  <2> QED
    BY <1>6, <2>1, <2>2, <2>3, <2>4, <2>5, <2>6 DEF PostStep
<1>7. CASE UNCHANGED vars
  BY <1>7 DEF vars
<1> QED
  BY <1>1, <1>2, <1>3, <1>4, <1>5, <1>6, <1>7 DEF Next, AgentStep, VoteStep

\* In every reachable state the variables have their types, a call belongs to
\* PlaceOrdersRound, and the rounds that need an order or a keeper have one:
\* synchronized_data.order and most_voted_keeper_address never fail there.
THEOREM TypeCorrect == Spec => []TypeInv
<1> QED
  BY TypeInit, TypeStep, PTL DEF Spec

\* The type invariant that TLC checks.
THEOREM TypesHold == Spec => []TypeOK
<1>1. TypeInv => TypeOK
  BY DEF TypeInv
<1> QED
  BY TypeCorrect, <1>1, PTL

-----------------------------------------------------------------------------
(* What is verified is in the book of the API *)

LEMMA QuorumNotEmpty ==
  ASSUME NEW p, Reached(p)
  PROVE  \E a \in Agents : votes[a] = p
<1>1. PICK Q \in Quorums : Q \subseteq Voters(p)
  BY DEF Reached
<1>2. Q \cap Q \cap Q # {}
  BY QuorumAssumption
<1> QED
  BY <1>1, <1>2 DEF Voters

LEMMA BookInit == Init => BookInv
<1> SUFFICES ASSUME Init
             PROVE  BookInv
  OBVIOUS
<1>1. TypeInv
  BY TypeInit
<1> QED
  BY <1>1 DEF Init, InitWith, BookInv, VotesBooked, VerifiedInBook

LEMMA BookStep == BookInv /\ [Next]_vars => BookInv'
<1> SUFFICES ASSUME BookInv, [Next]_vars
             PROVE  BookInv'
  OBVIOUS
<1> USE DEF BookInv, VotesBooked, VerifiedInBook
<1>1. TypeInv'
  BY TypeStep
<1>2. book \subseteq book'
  BY DEF Next, AgentStep, VoteStep, EndOfRound, PostStep, vars, SelectOrders, VerifyExecution,
         VerifyExecutionFailedGet, Restart, TradeableOrder, HandOver, SelectOrdersDone,
         SelectOrdersNoAction, SelectOrdersNoMajority, ResetAndPause, RandomnessDone,
         SelectKeeperDone, SelectKeeperNoMajority, PlaceOrdersDone,
         PlaceOrdersTryNextBlock, VerifyExecutionDone, VerifyExecutionBadSubmission,
         VerifyExecutionNoMajority, TimeoutStalled, TimeoutEarly, RoundTimeout,
         PlaceOrder, PostAccepted, PostDuplicate, PostRefused, PostUnconfirmed,
         PostLost, LatePost
<1>3. ASSUME NEW a \in Agents, VerifyExecution(a)
      PROVE  VotesBooked' /\ done' = done
  <2>1. done' = done /\ order' = order
    BY <1>3 DEF VerifyExecution
  <2>2. VotesBooked'
    <3> SUFFICES ASSUME NEW b \in Agents, votes'[b] = VerificationOk
                 PROVE  order' \in book'
      BY DEF VotesBooked
    <3>1. CASE b # a
      <4>1. votes[b] = votes'[b] /\ round = "VerifyExecution"
        BY <1>3, <3>1 DEF VerifyExecution, Vote, TypeInv, TypeOK
      <4> QED
        BY <1>2, <2>1, <4>1
    <3>2. CASE b = a
      <4>1. votes'[a] = IF ReportPlausible /\ order \in book
                        THEN VerificationOk
                        ELSE VerificationFailed
        BY <1>3, Zenon DEF VerifyExecution, Vote, TypeInv, TypeOK
      <4>2. VerificationOk # VerificationFailed
        BY DEF VerificationOk, VerificationFailed
      <4>3. order \in book
        BY <3>2, <4>1, <4>2
      <4> QED
        BY <1>2, <2>1, <4>3
    <3> QED
      BY <3>1, <3>2
  <2> QED
    BY <2>1, <2>2
<1>4. ASSUME NEW a \in Agents, VerifyExecutionFailedGet(a)
      PROVE  VotesBooked' /\ done' = done
  BY <1>2, <1>4
     DEF VerifyExecutionFailedGet, Vote, TypeInv, TypeOK, VerificationOk, VerificationFailed
<1>5. ASSUME NEW a \in Agents, SelectOrders(a) \/ Restart(a) \/ \E o \in Orders : TradeableOrder(a, o)
      PROVE  VotesBooked' /\ done' = done
  BY <1>2, <1>5 DEF SelectOrders, Restart, TradeableOrder, HandOver
<1>6. ASSUME EndOfRound, ~VerifyExecutionDone
      PROVE  VotesBooked' /\ done' = done
  <2>1. votes' = [a \in Agents |-> None] /\ done' = done
    BY <1>6
       DEF EndOfRound, StartRound, SelectOrdersDone, SelectOrdersNoAction,
           SelectOrdersNoMajority, ResetAndPause, RandomnessDone, SelectKeeperDone,
           SelectKeeperNoMajority, PlaceOrdersDone, PlaceOrdersTryNextBlock,
           VerifyExecutionBadSubmission, VerifyExecutionNoMajority, TimeoutStalled,
           TimeoutEarly, RoundTimeout
  <2>2. None # VerificationOk
    BY ConstantAssumption DEF Payloads, SpecialPayloads
  <2> QED
    BY <2>1, <2>2
<1>7. ASSUME VerifyExecutionDone
      PROVE  VotesBooked' /\ done' \subseteq book'
  <2>1. order \in book
    BY <1>7, QuorumNotEmpty DEF VerifyExecutionDone
  <2> QED
    BY <1>2, <1>7, <2>1 DEF VerifyExecutionDone, StartRound
<1>8. ASSUME PostStep
      PROVE  VotesBooked' /\ done' = done
  <2>1. done' = done /\ order' = order /\ round' = round
    BY <1>8
       DEF PostStep, PlaceOrder, PostAccepted, PostDuplicate, PostRefused,
           PostUnconfirmed, PostLost, LatePost, Answered
  <2>2. votes' = votes \/ round = "PlaceOrders"
    BY <1>8
       DEF PostStep, PlaceOrder, PostAccepted, PostDuplicate, PostRefused,
           PostUnconfirmed, PostLost, LatePost, Answered, TypeInv, CallInRound
  <2> QED
    BY <1>2, <2>1, <2>2
<1>9. CASE UNCHANGED vars
  BY <1>1, <1>9 DEF vars
<1> QED
  BY <1>1, <1>2, <1>3, <1>4, <1>5, <1>6, <1>7, <1>8, <1>9 DEF Next, AgentStep, VoteStep

LEMMA BookCorrect == Spec => []BookInv
<1> QED
  BY BookInit, BookStep, PTL DEF Spec

\* The service never takes an order for verified that the API has not accepted,
\* whatever the keeper reported and however many agents failed to ask the API.
THEOREM VerifiedOnlyIfBooked == Spec => []VerifiedInBook
<1>1. BookInv => VerifiedInBook
  BY DEF BookInv
<1> QED
  BY BookCorrect, <1>1, PTL

-----------------------------------------------------------------------------
(* A verified order is never processed again *)

LEMMA AppendElements ==
  ASSUME NEW S, NEW s \in Seq(S), NEW e \in S
  PROVE  /\ ToSet(Append(s, e)) = ToSet(s) \cup {e}
         /\ e \notin ToSet(s) /\ (\A i, j \in 1..Len(s) : s[i] = s[j] => i = j) =>
              \A i, j \in 1..Len(Append(s, e)) : Append(s, e)[i] = Append(s, e)[j] => i = j
<1> DEFINE t == Append(s, e)
<1>1. /\ t \in Seq(S) /\ Len(t) = Len(s) + 1
      /\ \A i \in 1..Len(s) : t[i] = s[i]
      /\ t[Len(s) + 1] = e
  BY AppendProperties
<1>2. Len(s) \in Nat /\ DOMAIN s = 1..Len(s) /\ DOMAIN t = 1..(Len(s) + 1)
  BY <1>1, LenProperties
<1> HIDE DEF t
<1>3. ToSet(t) = ToSet(s) \cup {e}
  BY <1>1, <1>2 DEF ToSet
<1>4. ASSUME e \notin ToSet(s), \A i, j \in 1..Len(s) : s[i] = s[j] => i = j,
             NEW i \in 1..Len(t), NEW j \in 1..Len(t), t[i] = t[j]
      PROVE  i = j
  <2>1. \A n \in 1..Len(s) : s[n] # e
    BY <1>2, <1>4 DEF ToSet
  <2> QED
    BY <1>1, <1>2, <1>4, <2>1
<1> QED
  BY <1>3, <1>4 DEF t

\* A list without the order verified last.
LEMMA WithoutProcessedElements ==
  ASSUME DropInv, NEW a \in Agents
  PROVE  LET w == WithoutProcessed(a)
         IN  /\ ToSet(w) \subseteq ToSet(ready[a])
             /\ \A i, j \in 1..Len(w) : w[i] = w[j] => i = j
             /\ verified # None => verified \notin ToSet(w)
<1>1. ready[a] \in Seq(Orders)
  BY DEF DropInv, BookInv, TypeInv, TypeOK
<1>2. \A i, j \in 1..Len(ready[a]) : ready[a][i] = ready[a][j] => i = j
  BY DEF DropInv, ListsDistinct
<1> QED
  BY <1>1, <1>2, RemoveFirstElements DEF WithoutProcessed

\* Handing over is the only step that counts, and it counts up from 0 to 1.
LEMMA ReceivedStays ==
  ASSUME MaxCopies = 1, DropInv, [Next]_vars,
         NEW a \in Agents, NEW o \in Orders, received[a][o] = 1
  PROVE  received'[a][o] = 1
<1>1. ASSUME NEW b \in Agents, NEW p \in Orders, TradeableOrder(b, p)
      PROVE  received'[a][o] = 1
  BY <1>1 DEF TradeableOrder, HandOver, DropInv, BookInv, TypeInv, TypeOK
<1>2. \/ received' = received
      \/ \E b \in Agents, p \in Orders : TradeableOrder(b, p)
  BY DEF Next, AgentStep, VoteStep, EndOfRound, PostStep, vars, SelectOrders, VerifyExecution,
         VerifyExecutionFailedGet, Restart, SelectOrdersDone,
         SelectOrdersNoAction, SelectOrdersNoMajority, ResetAndPause, RandomnessDone,
         SelectKeeperDone, SelectKeeperNoMajority, PlaceOrdersDone,
         PlaceOrdersTryNextBlock, VerifyExecutionDone, VerifyExecutionBadSubmission,
         VerifyExecutionNoMajority, TimeoutStalled, TimeoutEarly, RoundTimeout,
         PlaceOrder, PostAccepted, PostDuplicate, PostRefused, PostUnconfirmed,
         PostLost, LatePost, Answered
<1> QED
  BY <1>1, <1>2

\* The steps that end a round leave lists and book alone and clear the votes.
LEMMA EndOfRoundFrame ==
  ASSUME EndOfRound
  PROVE  /\ votes' = [a \in Agents |-> None]
         /\ UNCHANGED <<ready, received>>
  BY DEF EndOfRound, StartRound, SelectOrdersDone, SelectOrdersNoAction,
         SelectOrdersNoMajority, ResetAndPause, RandomnessDone, SelectKeeperDone,
         SelectKeeperNoMajority, PlaceOrdersDone, PlaceOrdersTryNextBlock,
         VerifyExecutionDone, VerifyExecutionBadSubmission,
         VerifyExecutionNoMajority, TimeoutStalled, TimeoutEarly, RoundTimeout

\* The steps of the keeper's post touch neither lists nor the synchronized data,
\* except that the keeper reports on the order being processed.
LEMMA PostStepFrame ==
  ASSUME TypeInv, PostStep
  PROVE  /\ UNCHANGED <<round, order, verified, keeper, ready, received, done>>
         /\ \/ votes' = votes
            \/ /\ round = "PlaceOrders"
               /\ \E p \in {order} \cup SpecialPayloads : Vote(keeper, p)
<1> USE DEF Answered, SpecialPayloads, TypeInv, CallInRound
<1>1. CASE PlaceOrder \/ PostLost \/ \E o \in Orders : LatePost(o)
  BY <1>1 DEF PlaceOrder, PostLost, LatePost
<1>2. CASE PostAccepted
  BY <1>2 DEF PostAccepted
<1>3. CASE PostDuplicate
  BY <1>3 DEF PostDuplicate
<1>4. CASE PostRefused
  BY <1>4 DEF PostRefused
<1>5. CASE PostUnconfirmed
  BY <1>5 DEF PostUnconfirmed
<1> QED
  BY <1>1, <1>2, <1>3, <1>4, <1>5 DEF PostStep

LEMMA ListsStep ==
  ASSUME MaxCopies = 1, DropInv, [Next]_vars
  PROVE  ListsDistinct'
<1> USE DEF ListsDistinct, Holds
<1>1. TypeInv /\ ListsDistinct
  BY DEF DropInv, BookInv
<1>2. ASSUME NEW a \in Agents, SelectOrders(a)
      PROVE  ListsDistinct'
  <2>1. received' = received /\ ready' = [ready EXCEPT ![a] = WithoutProcessed(a)]
    BY <1>2 DEF SelectOrders
  <2>2. ready'[a] = WithoutProcessed(a) /\ \A b \in Agents \ {a} : ready'[b] = ready[b]
    BY <1>1, <2>1 DEF TypeInv, TypeOK
  <2> QED
    BY <1>1, <2>1, <2>2, WithoutProcessedElements
<1>3. ASSUME NEW a \in Agents, Restart(a)
      PROVE  ListsDistinct'
  <2>1. ready'[a] = <<>> /\ \A b \in Agents \ {a} : ready'[b] = ready[b]
    BY <1>1, <1>3 DEF Restart, TypeInv, TypeOK
  <2>2. ToSet(<<>>) = {} /\ Len(<<>>) = 0
    BY DEF ToSet
  <2> QED
    BY <1>1, <1>3, <2>1, <2>2 DEF Restart
<1>4. ASSUME NEW a \in Agents, NEW o \in Orders, TradeableOrder(a, o)
      PROVE  ListsDistinct'
  <2>1. /\ ready'[a] = Append(ready[a], o) /\ \A b \in Agents \ {a} : ready'[b] = ready[b]
        /\ ready[a] \in Seq(Orders)
    BY <1>1, <1>4 DEF TradeableOrder, HandOver, TypeInv, TypeOK
  <2>2. received[a][o] = 0 /\ received'[a][o] = 1
    BY <1>1, <1>4 DEF TradeableOrder, HandOver, TypeInv, TypeOK
  <2>3. o \notin ToSet(ready[a])
    BY <1>1, <2>2
  <2>4. /\ ToSet(ready'[a]) = ToSet(ready[a]) \cup {o}
        /\ \A i, j \in 1..Len(ready'[a]) : ready'[a][i] = ready'[a][j] => i = j
    BY <1>1, <2>1, <2>3, AppendElements
  <2>5. \A b \in Agents, p \in Orders : Holds(b, p) => received'[b][p] = 1
    BY <1>1, ReceivedStays
  <2>6. ASSUME NEW b \in Agents, NEW p \in Orders, p \in ToSet(ready'[b])
        PROVE  received'[b][p] = 1
    BY <2>1, <2>2, <2>4, <2>5, <2>6
  <2>7. ASSUME NEW b \in Agents
        PROVE  \A i, j \in 1..Len(ready'[b]) : ready'[b][i] = ready'[b][j] => i = j
    BY <1>1, <2>1, <2>4
  <2> QED
    BY <2>6, <2>7
<1>5. CASE \E a \in Agents : VerifyExecution(a) \/ VerifyExecutionFailedGet(a)
  BY <1>1, <1>5 DEF VerifyExecution, VerifyExecutionFailedGet
<1>6. CASE EndOfRound
  BY <1>1, <1>6, EndOfRoundFrame
<1>7. CASE PostStep
  BY <1>1, <1>7, PostStepFrame
<1>8. CASE UNCHANGED vars
  BY <1>1, <1>8 DEF vars
<1> QED
  BY <1>2, <1>3, <1>4, <1>5, <1>6, <1>7, <1>8 DEF Next, AgentStep, VoteStep

LEMMA VotesStep ==
  ASSUME MaxCopies = 1, DropInv, [Next]_vars
  PROVE  VotesReceived'
<1> USE DEF VotesReceived
<1>1. TypeInv /\ ListsDistinct /\ VotesReceived
  BY DEF DropInv, BookInv
<1>2. None \notin Orders /\ Orders \cap SpecialPayloads = {}
  BY ConstantAssumption DEF Payloads
<1>3. ASSUME NEW a \in Agents, SelectOrders(a)
      PROVE  VotesReceived'
  <2> DEFINE w == WithoutProcessed(a)
  <2>1. received' = received /\ \A b \in Agents \ {a} : votes'[b] = votes[b]
    BY <1>1, <1>3 DEF SelectOrders, Vote, TypeInv, TypeOK
  <2>2. votes'[a] = IF w = <<>> THEN NoOrdersPayload ELSE Last(w)
    BY <1>1, <1>3, Zenon DEF SelectOrders, Vote, TypeInv, TypeOK
  <2>3. votes'[a] \in Orders => received[a][votes'[a]] = 1
    <3>1. CASE w = <<>>
      BY <1>2, <2>2, <3>1 DEF SpecialPayloads
    <3>2. CASE w # <<>>
      <4>1. Last(w) \in ToSet(ready[a]) /\ Last(w) \in Orders
        BY <1>1, <3>2, WithoutProcessedType, WithoutProcessedElements DEF TypeInv
      <4> QED
        BY <1>1, <2>2, <3>2, <4>1 DEF ListsDistinct, Holds
    <3> QED
      BY <3>1, <3>2
  <2> QED
    BY <1>1, <1>3, <2>1, <2>3 DEF SelectOrders
<1>4. ASSUME NEW a \in Agents, Restart(a) \/ \E o \in Orders : TradeableOrder(a, o)
      PROVE  VotesReceived'
  <2>1. votes' = votes /\ round' = round
    BY <1>4 DEF Restart, TradeableOrder, HandOver
  <2> QED
    BY <1>1, <2>1, ReceivedStays
<1>5. CASE \E a \in Agents : VerifyExecution(a) \/ VerifyExecutionFailedGet(a)
  BY <1>5 DEF VerifyExecution, VerifyExecutionFailedGet
<1>6. CASE EndOfRound
  BY <1>2, <1>6, EndOfRoundFrame
<1>7. CASE PostStep
  BY <1>1, <1>7, PostStepFrame
<1>8. CASE UNCHANGED vars
  BY <1>1, <1>8 DEF vars
<1> QED
  BY <1>3, <1>4, <1>5, <1>6, <1>7, <1>8 DEF Next, AgentStep, VoteStep

\* An agent that is clean of a verified order stays so: it is not handed the order
\* again, and it votes only for what it holds or for what is being processed.
LEMMA CleanStays ==
  ASSUME MaxCopies = 1, DropInv, [Next]_vars,
         NEW a \in Agents, NEW o \in done, Clean(a, o)
  PROVE  Clean(a, o)'
<1> USE DEF Clean, Holds
<1>1. TypeInv /\ ListsDistinct /\ ProcessingHeld /\ o \in Orders
  BY DEF DropInv, BookInv, TypeInv, TypeOK
<1>2. o # None /\ o \notin SpecialPayloads
  BY <1>1, ConstantAssumption DEF Payloads
<1>3. received'[a][o] = 1
  BY <1>1, ReceivedStays
<1>4. ASSUME NEW b \in Agents, SelectOrders(b)
      PROVE  Clean(a, o)'
  <2> DEFINE w == WithoutProcessed(b)
  <2>1. ready' = [ready EXCEPT ![b] = w] /\ \A c \in Agents \ {b} : votes'[c] = votes[c]
    BY <1>1, <1>4 DEF SelectOrders, Vote, TypeInv, TypeOK
  <2>2. votes'[b] = IF w = <<>> THEN NoOrdersPayload ELSE Last(w)
    BY <1>1, <1>4, Zenon DEF SelectOrders, Vote, TypeInv, TypeOK
  <2>3. ToSet(w) \subseteq ToSet(ready[b])
    BY WithoutProcessedElements
  <2>4. w # <<>> => Last(w) \in ToSet(w)
    BY <1>1, WithoutProcessedType DEF TypeInv
  <2>5. CASE a # b
    BY <1>1, <1>3, <2>1, <2>5 DEF TypeInv, TypeOK
  <2>6. CASE a = b
    <3>1. ready'[a] = w
      BY <1>1, <2>1, <2>6 DEF TypeInv, TypeOK
    <3>2. o \notin ToSet(ready'[a])
      BY <2>3, <2>6, <3>1
    <3>3. votes'[a] # o
      <4>1. CASE w = <<>>
        BY <1>2, <2>2, <2>6, <4>1 DEF SpecialPayloads
      <4>2. CASE w # <<>>
        BY <2>2, <2>3, <2>4, <2>6, <4>2
      <4> QED
        BY <4>1, <4>2
    <3> QED
      BY <1>3, <3>2, <3>3
  <2> QED
    BY <2>5, <2>6
<1>5. ASSUME NEW b \in Agents, Restart(b)
      PROVE  Clean(a, o)'
  <2>1. ready'[a] \in {ready[a], <<>>} /\ votes' = votes
    BY <1>1, <1>5 DEF Restart, TypeInv, TypeOK
  <2>2. o \notin ToSet(<<>>)
    BY DEF ToSet
  <2> QED
    BY <1>3, <2>1, <2>2
<1>6. ASSUME NEW b \in Agents, NEW p \in Orders, TradeableOrder(b, p)
      PROVE  Clean(a, o)'
  <2>1. votes' = votes /\ received[b][p] < 1
    BY <1>6 DEF TradeableOrder, HandOver
  <2>2. CASE a # b
    BY <1>1, <1>3, <1>6, <2>1, <2>2 DEF TradeableOrder, HandOver, TypeInv, TypeOK
  <2>3. CASE a = b
    <3>1. p # o
      BY <2>1, <2>3
    <3>2. ready'[a] = Append(ready[a], p) /\ ready[a] \in Seq(Orders)
      BY <1>1, <1>6, <2>3 DEF TradeableOrder, HandOver, TypeInv, TypeOK
    <3>3. ToSet(ready'[a]) = ToSet(ready[a]) \cup {p}
      BY <3>2, AppendElements
    <3> QED
      BY <1>3, <2>1, <3>1, <3>3
  <2> QED
    BY <2>2, <2>3
<1>7. ASSUME NEW b \in Agents, VerifyExecution(b) \/ VerifyExecutionFailedGet(b)
      PROVE  Clean(a, o)'
  <2>1. PICK p \in SpecialPayloads : Vote(b, p)
    BY <1>7, Zenon DEF VerifyExecution, VerifyExecutionFailedGet, SpecialPayloads
  <2>2. votes'[a] # o /\ ready' = ready
    BY <1>1, <1>2, <1>7, <2>1
       DEF VerifyExecution, VerifyExecutionFailedGet, Vote, TypeInv, TypeOK
  <2> QED
    BY <1>3, <2>2
<1>8. CASE EndOfRound
  BY <1>2, <1>3, <1>8, EndOfRoundFrame
<1>9. CASE PostStep
  <2>1. CASE votes' = votes
    BY <1>1, <1>3, <1>9, <2>1, PostStepFrame
  <2>2. CASE votes' # votes
    <3>1. round = "PlaceOrders" /\ \E p \in {order} \cup SpecialPayloads : Vote(keeper, p)
      BY <1>1, <1>9, <2>2, PostStepFrame
    <3>2. order # o
      <4>1. Processing = order /\ order # None
        BY <1>1, <3>1, ConstantAssumption
           DEF Processing, TypeInv, OrderSelected, Payloads
      <4> QED
        BY <1>1, <4>1 DEF ProcessingHeld
    <3>3. votes'[a] # o
      BY <1>1, <1>2, <3>1, <3>2 DEF Vote, TypeInv, TypeOK
    <3> QED
      BY <1>1, <1>3, <1>9, <3>3, PostStepFrame
  <2> QED
    BY <2>1, <2>2
<1>10. CASE UNCHANGED vars
  BY <1>10 DEF vars
<1> QED
  BY <1>4, <1>5, <1>6, <1>7, <1>8, <1>9, <1>10 DEF Next, AgentStep, VoteStep

\* A quorum that selects an order has been handed it, and the order was not
\* verified before: the quorum would meet the agents that have dropped it.
LEMMA SelectedIsNew ==
  ASSUME MaxCopies = 1, DropInv, NEW o \in Orders, SelectOrdersDone(o)
  PROVE  /\ o \notin done
         /\ \E Q \in Quorums : \A a \in Q : received[a][o] = 1
<1>1. PICK R \in Quorums : R \subseteq Agents /\ \A a \in R : votes[a] = o
  BY QuorumAssumption DEF SelectOrdersDone, Reached, Voters
<1>2. round = "SelectOrders" /\ o # None
  BY ConstantAssumption DEF SelectOrdersDone, Payloads
<1>3. \A a \in R : received[a][o] = 1
  BY <1>1, <1>2 DEF DropInv, VotesReceived
<1>4. ASSUME o \in done
      PROVE  FALSE
  <2>1. CASE \E Q \in Quorums : \A a \in Q : votes[a] # None => Clean(a, o)
    <3>1. PICK Q \in Quorums : \A a \in Q : votes[a] # None => Clean(a, o)
      BY <2>1
    <3>2. PICK a : a \in Q \cap R \cap R
      BY QuorumAssumption
    <3> QED
      BY <1>1, <1>2, <3>1, <3>2 DEF Clean
  <2>2. CASE \E Q1, Q2 \in Quorums : \A a \in Q1 \cap Q2 : Clean(a, o)
    <3>1. PICK Q1 \in Quorums, Q2 \in Quorums : \A a \in Q1 \cap Q2 : Clean(a, o)
      BY <2>2
    <3>2. PICK a : a \in Q1 \cap Q2 \cap R
      BY QuorumAssumption
    <3> QED
      BY <1>1, <3>1, <3>2 DEF Clean
  <2> QED
    BY <1>4, <2>1, <2>2 DEF DropInv, VerifiedDropped
<1> QED
  BY <1>3, <1>4

\* Between its selection and its verification nothing happens to the order.
LEMMA ProcessingStep ==
  ASSUME MaxCopies = 1, DropInv, [Next]_vars
  PROVE  ProcessingHeld'
<1> USE DEF ProcessingHeld, Processing
<1>1. TypeInv /\ ProcessingHeld /\ None \notin Orders
  BY ConstantAssumption DEF DropInv, BookInv, Payloads
<1>2. ASSUME NEW o \in Orders, SelectOrdersDone(o)
      PROVE  ProcessingHeld'
  <2>1. order' = o /\ verified' = None /\ done' = done /\ received' = received
    BY <1>2 DEF SelectOrdersDone
  <2> QED
    BY <1>2, <2>1, SelectedIsNew
<1>3. CASE SelectOrdersNoAction \/ SelectOrdersNoMajority \/ ResetAndPause
           \/ PlaceOrdersTryNextBlock \/ VerifyExecutionDone
  BY <1>3 DEF SelectOrdersNoAction, SelectOrdersNoMajority, ResetAndPause,
              PlaceOrdersTryNextBlock, VerifyExecutionDone, StartRound
<1>4. ASSUME UNCHANGED <<order, verified, done>>,
             Processing # None \/ Processing' = None,
             Processing' # None => order \in Orders
      PROVE  ProcessingHeld'
  <2>1. CASE Processing' = None
    BY <2>1
  <2>2. CASE Processing # None
    <3>1. PICK Q \in Quorums : \A a \in Q : received[a][order] = 1
      BY <1>1, <2>2
    <3>2. order \in Orders \/ Processing' = None
      BY <1>4
    <3>3. Q \subseteq Agents
      BY QuorumAssumption
    <3>4. order \in Orders => \A a \in Q : received'[a][order] = 1
      BY <3>1, <3>3, ReceivedStays
    <3> QED
      BY <1>1, <1>4, <2>2, <3>2, <3>4
  <2> QED
    BY <1>4, <2>1, <2>2
<1>5. ASSUME RandomnessDone \/ SelectKeeperNoMajority \/ PlaceOrdersDone
             \/ VerifyExecutionBadSubmission \/ VerifyExecutionNoMajority
             \/ TimeoutStalled \/ TimeoutEarly \/ \E k \in Agents : SelectKeeperDone(k)
      PROVE  ProcessingHeld'
  <2>1. /\ UNCHANGED <<order, verified, done>>
        /\ Processing # None \/ Processing' = None
    BY <1>1, <1>5
       DEF RandomnessDone, SelectKeeperNoMajority, PlaceOrdersDone,
           VerifyExecutionBadSubmission, VerifyExecutionNoMajority, TimeoutStalled,
           TimeoutEarly, SelectKeeperDone, StartRound, RoundTimeout, AfterTimeout,
           TypeInv, TypeOK, Rounds, OrderSelected
  <2>2. Processing' # None => order \in Orders
    BY <1>1, <2>1 DEF TypeInv, TypeOK
  <2> QED
    BY <1>4, <2>1, <2>2
<1>6. ASSUME NEW a \in Agents,
             SelectOrders(a) \/ VerifyExecution(a) \/ VerifyExecutionFailedGet(a)
             \/ Restart(a) \/ \E o \in Orders : TradeableOrder(a, o)
      PROVE  ProcessingHeld'
  <2>1. UNCHANGED <<round, order, verified, done>>
    BY <1>6 DEF SelectOrders, VerifyExecution, VerifyExecutionFailedGet, Restart,
                TradeableOrder, HandOver
  <2>2. Processing' # None => order \in Orders
    BY <1>1, <2>1 DEF TypeInv, OrderSelected
  <2> QED
    BY <1>4, <2>1, <2>2
<1>7. CASE PostStep \/ UNCHANGED vars
  <2>1. UNCHANGED <<round, order, verified, done>>
    BY <1>1, <1>7, PostStepFrame DEF vars
  <2>2. Processing' # None => order \in Orders
    BY <1>1, <2>1 DEF TypeInv, OrderSelected
  <2> QED
    BY <1>4, <2>1, <2>2
<1> QED
  BY <1>2, <1>3, <1>5, <1>6, <1>7 DEF Next, AgentStep, VoteStep, EndOfRound

\* The quorum that selected a verified order drops it while it votes ...
DropPending(o) ==
  /\ verified = o
  /\ round = "SelectOrders"
  /\ \E Q \in Quorums : \A a \in Q :
       received[a][o] = 1 /\ (votes[a] # None => Clean(a, o))

\* ... and has dropped it where it meets the quorum that completed the round.
Dropped(o) == \E Q1, Q2 \in Quorums : \A a \in Q1 \cap Q2 : Clean(a, o)

LEMMA DroppedStays ==
  ASSUME MaxCopies = 1, DropInv, [Next]_vars, NEW o \in done, Dropped(o)
  PROVE  Dropped(o)'
<1>1. PICK Q1 \in Quorums, Q2 \in Quorums : \A a \in Q1 \cap Q2 : Clean(a, o)
  BY DEF Dropped
<1>2. Q1 \cap Q2 \subseteq Agents
  BY QuorumAssumption
<1>3. \A a \in Q1 \cap Q2 : Clean(a, o)'
  BY <1>1, <1>2, CleanStays
<1> QED
  BY <1>3 DEF Dropped

\* Once a quorum has voted for the same, whoever selected the order and voted
\* has dropped it.
LEMMA RoundCompletes ==
  ASSUME MaxCopies = 1, DropInv, [Next]_vars, NEW o \in done, DropPending(o),
         NEW p, p # None, Reached(p)
  PROVE  Dropped(o)'
<1>1. PICK Q \in Quorums : \A a \in Q : votes[a] # None => Clean(a, o)
  BY DEF DropPending
<1>2. PICK R \in Quorums : R \subseteq Agents /\ \A a \in R : votes[a] = p
  BY DEF Reached, Voters
<1>3. \A a \in Q \cap R : Clean(a, o)
  BY <1>1, <1>2
<1> QED
  BY <1>3, DroppedStays DEF Dropped

\* Each agent drops the order before it votes.
LEMMA VoteDrops ==
  ASSUME MaxCopies = 1, DropInv, [Next]_vars, NEW o \in done, DropPending(o),
         NEW a \in Agents, SelectOrders(a)
  PROVE  DropPending(o)'
<1> DEFINE w == WithoutProcessed(a)
<1>1. TypeInv /\ o \in Orders /\ o # None /\ o \notin SpecialPayloads
  BY ConstantAssumption DEF DropInv, BookInv, TypeInv, TypeOK, Payloads
<1>2. PICK Q \in Quorums : \A b \in Q :
        received[b][o] = 1 /\ (votes[b] # None => Clean(b, o))
  BY DEF DropPending
<1>3. Q \subseteq Agents
  BY QuorumAssumption
<1>4. /\ ready'[a] = w
      /\ \A b \in Agents \ {a} : votes'[b] = votes[b]
      /\ verified' = verified /\ round' = round
  BY <1>1 DEF SelectOrders, Vote, TypeInv, TypeOK
<1>5. votes'[a] = IF w = <<>> THEN NoOrdersPayload ELSE Last(w)
  BY <1>1, Zenon DEF SelectOrders, Vote, TypeInv, TypeOK
<1>6. o \notin ToSet(w)
  BY <1>1, WithoutProcessedElements DEF DropPending
<1>7. votes'[a] # o
  <2>1. CASE w = <<>>
    BY <1>1, <1>5, <2>1 DEF SpecialPayloads
  <2>2. CASE w # <<>>
    BY <1>1, <1>5, <1>6, <2>2, WithoutProcessedType DEF TypeInv
  <2> QED
    BY <2>1, <2>2
<1>8. ASSUME NEW b \in Q
      PROVE  received'[b][o] = 1 /\ (votes'[b] # None => Clean(b, o)')
  <2>1. received'[b][o] = 1
    BY <1>1, <1>2, <1>3, ReceivedStays
  <2>2. CASE b # a
    BY <1>2, <1>3, <1>4, <2>1, <2>2, CleanStays
  <2>3. CASE b = a
    BY <1>4, <1>6, <1>7, <2>1, <2>3 DEF Clean, Holds
  <2> QED
    BY <2>1, <2>2, <2>3
<1> QED
  BY <1>4, <1>8 DEF DropPending

LEMMA VerifiedStep ==
  ASSUME MaxCopies = 1, DropInv, [Next]_vars
  PROVE  VerifiedDropped'
<1>1. \A o \in done : DropPending(o) \/ Dropped(o)
  BY DEF DropInv, VerifiedDropped, DropPending, Dropped
<1>2. SUFFICES \A o \in done' : DropPending(o)' \/ Dropped(o)'
  BY DEF VerifiedDropped, DropPending, Dropped
<1>3. TypeInv /\ done \subseteq Orders /\ None \notin Orders
  BY ConstantAssumption DEF DropInv, BookInv, TypeInv, TypeOK, Payloads
<1>4. ASSUME round # "SelectOrders", done' = done
      PROVE  \A o \in done' : Dropped(o)'
  BY <1>1, <1>4, DroppedStays DEF DropPending
<1>5. ASSUME NEW p, p # None, Reached(p), done' = done
      PROVE  \A o \in done' : Dropped(o)'
  BY <1>1, <1>5, DroppedStays, RoundCompletes
<1>6. ASSUME round = "SelectOrders", UNCHANGED <<round, verified, done>>,
             \A a \in Agents : votes'[a] = None \/ votes'[a] = votes[a]
      PROVE  \A o \in done' : DropPending(o)' \/ Dropped(o)'
  <2> SUFFICES ASSUME NEW o \in done, DropPending(o)
               PROVE  DropPending(o)'
    BY <1>1, <1>6, DroppedStays
  <2>1. PICK Q \in Quorums : \A b \in Q :
          received[b][o] = 1 /\ (votes[b] # None => Clean(b, o))
    BY DEF DropPending
  <2>2. Q \subseteq Agents
    BY QuorumAssumption
  <2>3. \A b \in Q : received'[b][o] = 1 /\ (votes'[b] # None => Clean(b, o)')
    BY <1>3, <1>6, <2>1, <2>2, ReceivedStays, CleanStays
  <2> QED
    BY <1>6, <2>3 DEF DropPending
<1>7. ASSUME NEW a \in Agents, SelectOrders(a)
      PROVE  \A o \in done' : DropPending(o)' \/ Dropped(o)'
  <2>1. done' = done
    BY <1>7 DEF SelectOrders
  <2> QED
    BY <1>1, <1>7, <2>1, DroppedStays, VoteDrops
<1>8. ASSUME NEW a \in Agents, Restart(a) \/ \E o \in Orders : TradeableOrder(a, o)
      PROVE  \A o \in done' : DropPending(o)' \/ Dropped(o)'
  BY <1>4, <1>6, <1>8 DEF Restart, TradeableOrder, HandOver
<1>9. CASE \E a \in Agents : VerifyExecution(a) \/ VerifyExecutionFailedGet(a)
  BY <1>4, <1>9 DEF VerifyExecution, VerifyExecutionFailedGet
<1>10. ASSUME NEW o \in Orders, SelectOrdersDone(o)
       PROVE  \A p \in done' : Dropped(p)'
  BY <1>3, <1>5, <1>10 DEF SelectOrdersDone
<1>11. CASE SelectOrdersNoAction
  <2>1. NoOrdersPayload # None
    BY ConstantAssumption DEF Payloads, SpecialPayloads
  <2> QED
    BY <1>5, <1>11, <2>1 DEF SelectOrdersNoAction
<1>12. CASE SelectOrdersNoMajority
  BY <1>6, <1>12 DEF SelectOrdersNoMajority, StartRound
<1>13. CASE TimeoutStalled \/ TimeoutEarly
  BY <1>4, <1>6, <1>13
     DEF TimeoutStalled, TimeoutEarly, RoundTimeout, AfterTimeout, StartRound, Rounds
<1>14. CASE VerifyExecutionDone
  <2>1. Processing = order /\ order \in Orders /\ order # None
    BY <1>3, <1>14 DEF VerifyExecutionDone, Processing, TypeInv, OrderSelected
  <2>2. verified = None /\ \E Q \in Quorums : \A a \in Q : received[a][order] = 1
    BY <2>1 DEF DropInv, ProcessingHeld
  <2>3. ASSUME NEW o \in done
        PROVE  Dropped(o)'
    BY <1>1, <1>3, <2>2, DroppedStays DEF DropPending
  <2>4. PICK Q \in Quorums : \A a \in Q : received[a][order] = 1
    BY <2>2
  <2>5. Q \subseteq Agents
    BY QuorumAssumption
  <2>6. \A a \in Q : received'[a][order] = 1 /\ votes'[a] = None
    BY <1>14, <2>1, <2>4, <2>5, ReceivedStays DEF VerifyExecutionDone, StartRound
  <2>7. DropPending(order)'
    <3>1. verified' = order /\ order' = order /\ round' = "SelectOrders"
      BY <1>14 DEF VerifyExecutionDone, StartRound
    <3> QED
      BY <2>6, <3>1 DEF DropPending
  <2>8. done' = done \cup {order} /\ order' = order
    BY <1>14 DEF VerifyExecutionDone
  <2> QED
    BY <2>3, <2>7, <2>8
<1>15. CASE ResetAndPause \/ RandomnessDone \/ SelectKeeperNoMajority \/ PlaceOrdersDone
            \/ PlaceOrdersTryNextBlock \/ VerifyExecutionBadSubmission
            \/ VerifyExecutionNoMajority \/ \E k \in Agents : SelectKeeperDone(k)
  BY <1>4, <1>15
     DEF ResetAndPause, RandomnessDone, SelectKeeperNoMajority, PlaceOrdersDone,
         PlaceOrdersTryNextBlock, VerifyExecutionBadSubmission,
         VerifyExecutionNoMajority, SelectKeeperDone
<1>16. CASE PostStep
  <2>1. CASE round = "SelectOrders"
    BY <1>3, <1>6, <1>16, <2>1, PostStepFrame
  <2>2. CASE round # "SelectOrders"
    BY <1>3, <1>4, <1>16, <2>2, PostStepFrame
  <2> QED
    BY <2>1, <2>2
<1>17. CASE UNCHANGED vars
  BY <1>4, <1>6, <1>17 DEF vars
<1> QED
  BY <1>7, <1>8, <1>9, <1>10, <1>11, <1>12, <1>13, <1>14, <1>15, <1>16, <1>17
     DEF Next, AgentStep, VoteStep, EndOfRound

LEMMA DropInit == Init => DropInv
<1> SUFFICES ASSUME Init
             PROVE  DropInv
  OBVIOUS
<1>1. BookInv
  BY BookInit
<1>2. ListsDistinct
  <2>1. \A a \in Agents : ready[a] = <<>>
    BY DEF Init, InitWith
  <2>2. ToSet(<<>>) = {} /\ Len(<<>>) = 0
    BY DEF ToSet
  <2> QED
    BY <2>1, <2>2 DEF ListsDistinct, Holds
<1>3. VotesReceived
  BY ConstantAssumption DEF Init, InitWith, VotesReceived, Payloads
<1>4. ProcessingHeld
  BY DEF Init, InitWith, ProcessingHeld, Processing
<1>5. VerifiedDropped
  BY DEF Init, InitWith, VerifiedDropped
<1> QED
  BY <1>1, <1>2, <1>3, <1>4, <1>5 DEF DropInv

LEMMA DropStep ==
  ASSUME MaxCopies = 1
  PROVE  DropInv /\ [Next]_vars => DropInv'
<1> SUFFICES ASSUME DropInv, [Next]_vars
             PROVE  DropInv'
  OBVIOUS
<1>1. BookInv'
  BY BookStep DEF DropInv
<1> QED
  BY <1>1, ListsStep, VotesStep, ProcessingStep, VerifiedStep DEF DropInv

\* What the lists and votes may still hold of verified orders.
THEOREM DropCorrect ==
  ASSUME MaxCopies = 1
  PROVE  Spec => []DropInv
<1>1. Init => DropInv
  BY DropInit
<1>2. DropInv /\ [Next]_vars => DropInv'
  BY DropStep
<1> QED
  BY <1>1, <1>2, PTL DEF Spec

\* No order that was verified is ever processed again, for any number of agents
\* and orders, any three of whose quorums meet, and any pattern of timeouts,
\* restarts and API failures, provided that the monitoring skill hands each
\* agent an order at most once.
THEOREM NeverReprocessed ==
  ASSUME MaxCopies = 1
  PROVE  Spec => []NoReprocessing
<1>1. DropInv => NoReprocessing
  <2> SUFFICES ASSUME DropInv
               PROVE  NoReprocessing
    OBVIOUS
  <2>1. None \notin done
    BY ConstantAssumption DEF DropInv, BookInv, TypeInv, TypeOK, Payloads
  <2> QED
    BY <2>1 DEF DropInv, ProcessingHeld, NoReprocessing, Processing
<1> QED
  BY DropCorrect, <1>1, PTL

-----------------------------------------------------------------------------
(* What is posted was handed to a quorum *)

\* Only the order of the keeper's call reaches the API, or is left behind in the
\* network.
LEMMA NewlyPosted ==
  ASSUME TypeInv, [Next]_vars, NEW o \in book' \cup orphans', o \notin book \cup orphans
  PROVE  o = order /\ round = "PlaceOrders"
<1>1. call # "idle" => round = "PlaceOrders"
  BY DEF TypeInv, CallInRound
<1>2. CASE EndOfRound
  <2>1. book' = book /\ orphans' = orphans \cup (IF call = "waiting" THEN {order} ELSE {})
    BY <1>2
       DEF EndOfRound, StartRound, SelectOrdersDone, SelectOrdersNoAction,
           SelectOrdersNoMajority, ResetAndPause, RandomnessDone, SelectKeeperDone,
           SelectKeeperNoMajority, PlaceOrdersDone, PlaceOrdersTryNextBlock,
           VerifyExecutionDone, VerifyExecutionBadSubmission,
           VerifyExecutionNoMajority, TimeoutStalled, TimeoutEarly, RoundTimeout
  <2> QED
    BY <1>1, <2>1
<1>3. CASE PostStep
  <2>1. CASE PlaceOrder \/ PostLost
    BY <1>1, <2>1 DEF PlaceOrder, PostLost
  <2>2. CASE PostAccepted \/ PostDuplicate \/ PostRefused \/ PostUnconfirmed
    BY <1>1, <2>2 DEF PostAccepted, PostDuplicate, PostRefused, PostUnconfirmed, Answered
  <2>3. ASSUME NEW p \in Orders, LatePost(p)
        PROVE  FALSE
    BY <2>3 DEF LatePost
  <2> QED
    BY <1>3, <2>1, <2>2, <2>3 DEF PostStep
<1>4. CASE AgentStep
  <2>1. PICK a \in Agents : \/ VoteStep(a) \/ \E p \in Orders : TradeableOrder(a, p)
                            \/ Restart(a)
    BY <1>4 DEF AgentStep
  <2>2. CASE Restart(a)
    BY <1>1, <2>2 DEF Restart
  <2>3. CASE VoteStep(a) \/ \E p \in Orders : TradeableOrder(a, p)
    BY <2>3 DEF VoteStep, SelectOrders, VerifyExecution, VerifyExecutionFailedGet,
                TradeableOrder, HandOver
  <2> QED
    BY <2>1, <2>2, <2>3
<1>5. CASE UNCHANGED vars
  BY <1>5 DEF vars
<1> QED
  BY <1>2, <1>3, <1>4, <1>5 DEF Next

LEMMA PostedStep ==
  ASSUME MaxCopies = 1, DropInv, PostedHeld, [Next]_vars
  PROVE  PostedHeld'
<1> SUFFICES ASSUME NEW o \in book' \cup orphans'
             PROVE  \E Q \in Quorums : \A a \in Q : received'[a][o] > 0
  BY DEF PostedHeld
<1>1. /\ TypeInv /\ received \in [Agents -> [Orders -> 0..1]]
      /\ book \cup orphans \subseteq Orders
  BY DEF DropInv, BookInv, TypeInv, TypeOK
<1>2. /\ o \in Orders
      /\ \E Q \in Quorums : \A a \in Q : received[a][o] > 0
  <2>1. CASE o \in book \cup orphans
    BY <1>1, <2>1 DEF PostedHeld
  <2>2. CASE o \notin book \cup orphans
    <3>1. o = order /\ round = "PlaceOrders"
      BY <1>1, <2>2, NewlyPosted
    <3>2. Processing = order /\ order \in Orders /\ order # None
      BY <1>1, <3>1, ConstantAssumption DEF Processing, TypeInv, OrderSelected, Payloads
    <3> QED
      BY <3>1, <3>2 DEF DropInv, ProcessingHeld
  <2> QED
    BY <2>1, <2>2
<1>3. PICK Q \in Quorums : \A a \in Q : received[a][o] > 0
  BY <1>2
<1>4. \A a \in Q : a \in Agents /\ received[a][o] = 1
  BY <1>1, <1>2, <1>3, QuorumAssumption
<1>5. \A a \in Q : received'[a][o] = 1
  BY <1>2, <1>4, ReceivedStays
<1> QED
  BY <1>5

\* No order reaches the CoW API that a quorum of the agents has not been handed by
\* its monitoring, although one keeper posts it alone and posts may arrive late.
THEOREM PostedByQuorum ==
  ASSUME MaxCopies = 1
  PROVE  Spec => []PostedHeld
<1>1. Init => PostedHeld
  BY DEF Init, InitWith, PostedHeld
<1>2. DropInv /\ PostedHeld /\ [Next]_vars => PostedHeld'
  BY PostedStep
<1> QED
  BY <1>1, <1>2, DropCorrect, PTL DEF Spec

-----------------------------------------------------------------------------
(* The rounds implement OrderForwarding *)

LEMMA ForwardInit == Init => Forwarding!Init
<1> QED
  BY DEF Init, InitWith, Forwarding!Init, Processing

LEMMA ForwardStep ==
  ASSUME MaxCopies = 1, DropInv, [Next]_vars
  PROVE  [Forwarding!Next]_(Forwarding!vars)
<1> USE DEF Processing
<1> DEFINE posted == orphans \cup (IF call = "waiting" THEN {order} ELSE {})
<1>1. TypeInv /\ BookInv /\ None \notin Orders
  BY ConstantAssumption DEF DropInv, BookInv, Payloads
<1>2. TypeOK /\ CallInRound /\ OrderSelected /\ KeeperSelected
  BY <1>1 DEF TypeInv
<1>3. ASSUME UNCHANGED <<Processing, posted, book, done>>
      PROVE  UNCHANGED Forwarding!vars
  BY <1>3 DEF Forwarding!vars
<1>4. ASSUME NEW a \in Agents,
             SelectOrders(a) \/ VerifyExecution(a) \/ VerifyExecutionFailedGet(a)
             \/ \E o \in Orders : TradeableOrder(a, o)
      PROVE  UNCHANGED Forwarding!vars
  <2>1. UNCHANGED <<round, order, call, orphans, book, done>>
    BY <1>4 DEF SelectOrders, VerifyExecution, VerifyExecutionFailedGet, TradeableOrder, HandOver
  <2> QED
    BY <1>3, <2>1
<1>5. ASSUME NEW a \in Agents, Restart(a)
      PROVE  UNCHANGED Forwarding!vars
  <2>1. UNCHANGED <<round, order, book, done>> /\ posted' = posted
    BY <1>5 DEF Restart
  <2> QED
    BY <1>3, <2>1
<1>6. ASSUME NEW o \in Orders, SelectOrdersDone(o)
      PROVE  Forwarding!Next
  <2>1. Processing = None /\ Processing' = o /\ o \notin done
    BY <1>6, SelectedIsNew DEF SelectOrdersDone, StartRound
  <2>2. posted' = posted /\ book' = book /\ done' = done
    BY <1>2, <1>6 DEF SelectOrdersDone, StartRound, CallInRound
  <2> QED
    BY <1>6, <2>1, <2>2 DEF Forwarding!Next, Forwarding!Select
<1>7. CASE VerifyExecutionDone
  <2>1. order \in book
    BY <1>1, <1>7, QuorumNotEmpty DEF VerifyExecutionDone, BookInv, VotesBooked
  <2>2. Processing = order /\ Processing' = None /\ done' = done \cup {order} /\ book' = book
    BY <1>7 DEF VerifyExecutionDone, StartRound
  <2>3. posted' = posted
    BY <1>2, <1>7 DEF VerifyExecutionDone, StartRound, CallInRound
  <2> QED
    BY <2>1, <2>2, <2>3 DEF Forwarding!Next, Forwarding!Confirm
<1>8. CASE PlaceOrdersTryNextBlock
  <2>1. posted' = posted /\ book' = book /\ done' = done
    BY <1>8 DEF PlaceOrdersTryNextBlock, StartRound
  <2>2. Processing # None /\ Processing' = None
    BY <1>1, <1>2, <1>8 DEF PlaceOrdersTryNextBlock, StartRound, OrderSelected
  <2> QED
    BY <2>1, <2>2 DEF Forwarding!Next, Forwarding!PutOff
<1>9. CASE SelectOrdersNoAction \/ SelectOrdersNoMajority \/ ResetAndPause
  BY <1>2, <1>3, <1>9
     DEF SelectOrdersNoAction, SelectOrdersNoMajority, ResetAndPause, StartRound, CallInRound
<1>10. CASE RandomnessDone \/ SelectKeeperNoMajority \/ PlaceOrdersDone
            \/ VerifyExecutionBadSubmission \/ VerifyExecutionNoMajority
            \/ \E k \in Agents : SelectKeeperDone(k)
  BY <1>2, <1>3, <1>10
     DEF RandomnessDone, SelectKeeperNoMajority, PlaceOrdersDone,
         VerifyExecutionBadSubmission, VerifyExecutionNoMajority, SelectKeeperDone,
         StartRound, CallInRound
<1>11. CASE TimeoutStalled \/ TimeoutEarly
  BY <1>2, <1>3, <1>11
     DEF TimeoutStalled, TimeoutEarly, RoundTimeout, AfterTimeout, StartRound,
         CallInRound, Rounds
<1>12. CASE PlaceOrder
  BY <1>1, <1>2, <1>12
     DEF PlaceOrder, OrderSelected, Forwarding!Next, Forwarding!Post
<1>13. CASE PostAccepted \/ PostDuplicate \/ PostRefused \/ PostUnconfirmed
  <2>1. /\ call = "waiting" /\ call' = "answered"
        /\ UNCHANGED <<round, order, orphans, done>>
        /\ book' \in {book, book \cup {order}}
    BY <1>13 DEF PostAccepted, PostDuplicate, PostRefused, PostUnconfirmed, Answered
  <2>2. order \in Orders
    BY <1>2, <2>1 DEF CallInRound, OrderSelected
  <2>3. posted' \in {posted, posted \ {order}}
    BY <2>1
  <2> QED
    BY <2>1, <2>2, <2>3 DEF Forwarding!Next, Forwarding!Answer
<1>14. CASE PostLost
  BY <1>3, <1>14 DEF PostLost
<1>15. ASSUME NEW o \in Orders, LatePost(o)
       PROVE  Forwarding!Next
  <2>1. UNCHANGED <<round, order, call, done>> /\ o \in posted
    BY <1>15 DEF LatePost
  <2>2. posted' \in {posted, posted \ {o}} /\ book' \in {book, book \cup {o}}
    BY <1>15, <2>1 DEF LatePost
  <2> QED
    BY <2>1, <2>2 DEF Forwarding!Next, Forwarding!Answer
<1>16. CASE UNCHANGED vars
  BY <1>3, <1>16 DEF vars
<1> QED
  BY <1>4, <1>5, <1>6, <1>7, <1>8, <1>9, <1>10, <1>11, <1>12, <1>13, <1>14, <1>15, <1>16
     DEF Next, AgentStep, VoteStep, EndOfRound, PostStep

\* The consensus rounds implement the abstract forwarding of orders.
THEOREM ImplementsForwarding ==
  ASSUME MaxCopies = 1
  PROVE  Spec => ForwardsOrders
<1>1. Init => Forwarding!Init
  BY ForwardInit
<1>2. DropInv /\ [Next]_vars => [Forwarding!Next]_(Forwarding!vars)
  BY ForwardStep
<1> QED
  BY <1>1, <1>2, DropCorrect, PTL DEF Spec, ForwardsOrders, Forwarding!Spec

-----------------------------------------------------------------------------
(* No order is lost, and the service pauses only when everything is done *)

\* Nothing but the verification of an order adds to done, and it adds.
LEMMA DoneGrows ==
  ASSUME TypeInv, [Next]_vars
  PROVE  done \subseteq done'
<1>1. CASE PostStep
  BY <1>1, PostStepFrame
<1>2. CASE AgentStep \/ EndOfRound \/ UNCHANGED vars
  BY <1>2
     DEF AgentStep, VoteStep, EndOfRound, vars, SelectOrders, VerifyExecution,
         VerifyExecutionFailedGet, Restart, TradeableOrder, HandOver, SelectOrdersDone,
         SelectOrdersNoAction, SelectOrdersNoMajority, ResetAndPause, RandomnessDone,
         SelectKeeperDone, SelectKeeperNoMajority, PlaceOrdersDone,
         PlaceOrdersTryNextBlock, VerifyExecutionDone, VerifyExecutionBadSubmission,
         VerifyExecutionNoMajority, TimeoutStalled, TimeoutEarly, RoundTimeout
<1> QED
  BY <1>1, <1>2 DEF Next

\* Without restarts, only the vote of an agent takes an order off its list: the
\* order verified last.
LEMMA ListKeeps ==
  ASSUME "restart" \notin FaultKinds, LostInv, [Next]_vars,
         NEW a \in Agents, NEW o \in ToSet(ready[a]), o \notin done
  PROVE  o \in ToSet(ready'[a])
<1>1. o # verified \/ verified = None
  BY DEF LostInv
<1>2. TypeInv /\ TypeOK /\ ready \in [Agents -> Seq(Orders)]
  BY DEF LostInv, TypeInv, TypeOK
<1>3. ASSUME NEW b \in Agents, SelectOrders(b)
      PROVE  o \in ToSet(ready'[a])
  <2>1. ready' = [ready EXCEPT ![b] = WithoutProcessed(b)]
    BY <1>3 DEF SelectOrders
  <2>2. CASE a # b
    BY <1>2, <2>1, <2>2
  <2>3. CASE a = b
    <3>1. ready'[a] = WithoutProcessed(a)
      BY <1>2, <2>1, <2>3
    <3>2. CASE verified = None
      BY <3>1, <3>2 DEF WithoutProcessed
    <3>3. CASE verified # None
      BY <1>1, <1>2, <3>1, <3>3, RemoveFirstElements DEF WithoutProcessed
    <3> QED
      BY <3>2, <3>3
  <2> QED
    BY <2>2, <2>3
<1>4. ASSUME NEW b \in Agents, NEW p \in Orders, TradeableOrder(b, p)
      PROVE  o \in ToSet(ready'[a])
  <2>1. ready' = [ready EXCEPT ![b] = Append(@, p)]
    BY <1>4 DEF TradeableOrder, HandOver
  <2>2. ready'[a] = ready[a] \/ ready'[a] = Append(ready[a], p)
    BY <1>2, <2>1
  <2>3. ToSet(ready[a]) \subseteq ToSet(Append(ready[a], p))
    BY <1>2, AppendElements
  <2> QED
    BY <2>2, <2>3
<1>5. ASSUME NEW b \in Agents,
             VerifyExecution(b) \/ VerifyExecutionFailedGet(b) \/ Restart(b)
      PROVE  o \in ToSet(ready'[a])
  BY <1>5 DEF VerifyExecution, VerifyExecutionFailedGet, Restart, Fault
<1>6. CASE EndOfRound
  BY <1>6, EndOfRoundFrame
<1>7. CASE PostStep
  BY <1>2, <1>7, PostStepFrame
<1>8. CASE UNCHANGED vars
  BY <1>8 DEF vars
<1> QED
  BY <1>3, <1>4, <1>5, <1>6, <1>7, <1>8 DEF Next, AgentStep, VoteStep

\* An order that is handed over is on the list from then on.
LEMMA HandOverKeeps ==
  ASSUME TypeInv, [Next]_vars, NEW a \in Agents, NEW o \in Orders,
         received'[a][o] # received[a][o]
  PROVE  o \in ToSet(ready'[a])
<1>1. TypeOK
  BY DEF TypeInv
<1>2. PICK b \in Agents, p \in Orders : TradeableOrder(b, p)
  <2>1. CASE PostStep
    BY <1>1, <2>1, PostStepFrame
  <2>2. CASE EndOfRound
    BY <2>2, EndOfRoundFrame
  <2>3. CASE UNCHANGED vars
    BY <2>3 DEF vars
  <2>4. CASE AgentStep
    BY <2>4 DEF AgentStep, VoteStep, SelectOrders, VerifyExecution,
                VerifyExecutionFailedGet, Restart
  <2> QED
    BY <2>1, <2>2, <2>3, <2>4 DEF Next
<1>3. received' = [received EXCEPT ![b][p] = @ + 1]
  BY <1>2 DEF TradeableOrder, HandOver
<1>4. a = b /\ o = p
  BY <1>1, <1>3 DEF TypeOK
<1>5. ready'[a] = Append(ready[a], o) /\ ready[a] \in Seq(Orders)
  BY <1>1, <1>2, <1>4 DEF TradeableOrder, HandOver, TypeOK
<1> QED
  BY <1>5, AppendElements

LEMMA LostInitWith ==
  ASSUME NEW lists \in [Agents -> Seq(Orders)], InitWith(lists),
         MaxCopies # 0 \/ \A a \in Agents : ToSet(lists[a]) = {}
  PROVE  LostInv
<1>1. TypeInv
  BY TypeInitWith
<1> QED
  BY <1>1 DEF LostInv, NoOrderLost, InitWith

LEMMA LostStep ==
  ASSUME "restart" \notin FaultKinds, LostInv, [Next]_vars
  PROVE  LostInv'
<1>1. TypeInv /\ TypeOK /\ done \subseteq done'
  BY DoneGrows DEF LostInv, TypeInv
<1>2. TypeInv'
  BY <1>1, TypeStep
<1>3. verified' # None => verified' \in done'
  <2>1. CASE VerifyExecutionDone
    BY <2>1 DEF VerifyExecutionDone
  <2>2. CASE PostStep
    BY <1>1, <2>2, PostStepFrame DEF LostInv
  <2>3. CASE ~PostStep /\ ~VerifyExecutionDone
    <3>1. verified' \in {verified, None}
      BY <2>3
         DEF Next, AgentStep, VoteStep, EndOfRound, vars, SelectOrders, VerifyExecution,
             VerifyExecutionFailedGet, Restart, TradeableOrder, HandOver,
             SelectOrdersDone, SelectOrdersNoAction, SelectOrdersNoMajority,
             ResetAndPause, RandomnessDone, SelectKeeperDone, SelectKeeperNoMajority,
             PlaceOrdersDone, PlaceOrdersTryNextBlock, VerifyExecutionBadSubmission,
             VerifyExecutionNoMajority, TimeoutStalled, TimeoutEarly, RoundTimeout
    <3> QED
      BY <1>1, <3>1 DEF LostInv
  <2> QED
    BY <2>1, <2>2, <2>3
<1>4. ASSUME NEW a \in Agents, NEW o \in Orders, received'[a][o] > 0
      PROVE  o \in ToSet(ready'[a]) \/ o \in done'
  <2>1. CASE received'[a][o] # received[a][o]
    BY <1>1, <2>1, HandOverKeeps
  <2>2. CASE received'[a][o] = received[a][o]
    <3>1. o \in ToSet(ready[a]) \/ o \in done
      BY <1>4, <2>2 DEF LostInv, NoOrderLost
    <3> QED
      BY <1>1, <3>1, ListKeeps
  <2> QED
    BY <2>1, <2>2
<1> QED
  BY <1>2, <1>3, <1>4 DEF LostInv, NoOrderLost

LEMMA LostInit == Init => LostInv
<1> SUFFICES ASSUME Init
             PROVE  LostInv
  OBVIOUS
<1> DEFINE lists == [a \in Agents |-> <<>>]
<1>1. lists \in [Agents -> Seq(Orders)] /\ \A a \in Agents : ToSet(lists[a]) = {}
  BY EmptySeq DEF ToSet
<1> QED
  BY <1>1, LostInitWith DEF Init

\* Without restarts an agent's list loses only orders that were verified, for any
\* number of agents, orders and copies, and any timeouts and failures of the API.
THEOREM NothingLost ==
  ASSUME "restart" \notin FaultKinds
  PROVE  Spec => []NoOrderLost
<1>1. Init => LostInv
  BY LostInit
<1>2. LostInv /\ [Next]_vars => LostInv'
  BY LostStep
<1>3. LostInv => NoOrderLost
  BY DEF LostInv
<1> QED
  BY <1>1, <1>2, <1>3, PTL DEF Spec

LEMMA PauseInit ==
  ASSUME MaxCopies # 0, FullLists
  PROVE  PauseInv
<1>1. PICK lists \in [Agents -> Seq(Orders)] :
        (\A a \in Agents : ToSet(lists[a]) = Orders) /\ InitWith(lists)
  BY DEF FullLists
<1>2. LostInv
  BY <1>1, LostInitWith
<1>3. \A a \in Agents, o \in Orders : received[a][o] > 0
  BY <1>1 DEF InitWith
<1>4. EmptyListVotes /\ PauseOnlyWhenDone
  BY <1>1, ConstantAssumption
     DEF InitWith, EmptyListVotes, PauseOnlyWhenDone, Payloads, SpecialPayloads
<1> QED
  BY <1>2, <1>3, <1>4 DEF PauseInv

\* Who votes for no orders has an empty list after dropping the order verified last:
\* whatever it was handed is done.
LEMMA EmptyVote ==
  ASSUME LostInv, LostInv', UNCHANGED <<received, done>>,
         NEW a \in Agents, SelectOrders(a), votes'[a] = NoOrdersPayload
  PROVE  \A o \in Orders : received[a][o] > 0 => o \in done
<1> DEFINE w == WithoutProcessed(a)
<1>1. TypeOK
  BY DEF LostInv, TypeInv
<1>2. votes'[a] = IF w = <<>> THEN NoOrdersPayload ELSE Last(w)
  BY <1>1, Zenon DEF SelectOrders, Vote, TypeOK
<1>3. w = <<>>
  <2>1. w # <<>> => Last(w) \in Orders
    BY <1>1, WithoutProcessedType
  <2>2. NoOrdersPayload \notin Orders
    BY ConstantAssumption DEF SpecialPayloads
  <2> QED
    BY <1>2, <2>1, <2>2
<1>4. ready'[a] = <<>>
  BY <1>1, <1>3 DEF SelectOrders, TypeOK
<1>5. ToSet(ready'[a]) = {}
  BY <1>4 DEF ToSet
<1> QED
  BY <1>5 DEF LostInv, NoOrderLost

LEMMA PauseStep ==
  ASSUME "restart" \notin FaultKinds, PauseInv, [Next]_vars
  PROVE  PauseInv'
<1>1. LostInv /\ TypeInv /\ TypeOK /\ LostInv'
  BY LostStep DEF PauseInv, LostInv, TypeInv
<1>2. done \subseteq done' /\ done' \subseteq Orders
  BY <1>1, DoneGrows DEF LostInv, TypeInv, TypeOK
<1>3. \A a \in Agents, o \in Orders : received'[a][o] > 0
  <2> SUFFICES ASSUME NEW a \in Agents, NEW o \in Orders
               PROVE  received'[a][o] > 0
    OBVIOUS
  <2>1. received[a][o] > 0 /\ received[a][o] \in Nat
    BY <1>1, ConstantAssumption DEF PauseInv, TypeOK
  <2>2. received' = received \/ \E b \in Agents, p \in Orders : TradeableOrder(b, p)
    <3>1. CASE PostStep
      BY <1>1, <3>1, PostStepFrame
    <3>2. CASE EndOfRound
      BY <3>2, EndOfRoundFrame
    <3>3. CASE UNCHANGED vars
      BY <3>3 DEF vars
    <3>4. CASE AgentStep
      BY <3>4 DEF AgentStep, VoteStep, SelectOrders, VerifyExecution,
                  VerifyExecutionFailedGet, Restart
    <3> QED
      BY <3>1, <3>2, <3>3, <3>4 DEF Next
  <2>3. ASSUME NEW b \in Agents, NEW p \in Orders, TradeableOrder(b, p)
        PROVE  received'[a][o] \in {received[a][o], received[a][o] + 1}
    <3>1. received' = [received EXCEPT ![b][p] = @ + 1]
      BY <2>3 DEF TradeableOrder, HandOver
    <3>2. received \in [Agents -> [Orders -> 0..MaxCopies]]
      BY <1>1 DEF TypeOK
    <3> QED
      BY <3>1, <3>2
  <2> QED
    BY <2>1, <2>2, <2>3
<1>4. ASSUME NEW a \in Agents, SelectOrders(a)
      PROVE  EmptyListVotes' /\ PauseOnlyWhenDone'
  <2>1. /\ UNCHANGED <<round, received, done>> /\ round = "SelectOrders"
        /\ \A b \in Agents \ {a} : votes'[b] = votes[b]
    BY <1>1, <1>4 DEF SelectOrders, Vote, TypeOK
  <2>2. votes'[a] = NoOrdersPayload => \A o \in Orders : received[a][o] > 0 => o \in done
    BY <1>1, <1>4, <2>1, EmptyVote
  <2>3. votes'[a] = NoOrdersPayload => done' = Orders
    BY <1>1, <2>1, <2>2 DEF PauseInv, TypeOK
  <2> QED
    BY <2>1, <2>3 DEF PauseInv, EmptyListVotes, PauseOnlyWhenDone
<1>5. ASSUME NEW a \in Agents,
             \/ VerifyExecution(a) \/ VerifyExecutionFailedGet(a) \/ Restart(a)
             \/ \E o \in Orders : TradeableOrder(a, o)
      PROVE  EmptyListVotes' /\ PauseOnlyWhenDone'
  BY <1>5 DEF PauseInv, EmptyListVotes, PauseOnlyWhenDone, VerifyExecution,
              VerifyExecutionFailedGet, Restart, TradeableOrder, HandOver
<1>6. ASSUME EndOfRound
      PROVE  EmptyListVotes' /\ PauseOnlyWhenDone'
  <2>1. EmptyListVotes'
    BY <1>6, EndOfRoundFrame, ConstantAssumption
       DEF EmptyListVotes, Payloads, SpecialPayloads
  <2>2. CASE SelectOrdersNoAction
    <3>1. PICK a \in Agents : votes[a] = NoOrdersPayload
      BY <2>2, QuorumNotEmpty DEF SelectOrdersNoAction
    <3>2. done = Orders
      BY <2>2, <3>1 DEF SelectOrdersNoAction, PauseInv, EmptyListVotes
    <3> QED
      BY <1>2, <2>1, <3>2 DEF PauseOnlyWhenDone
  <2>3. CASE ~SelectOrdersNoAction
    <3>1. round' # "FinishedWithOrders"
      BY <1>6, <2>3
         DEF EndOfRound, StartRound, SelectOrdersDone, SelectOrdersNoMajority,
             ResetAndPause, RandomnessDone, SelectKeeperDone, SelectKeeperNoMajority,
             PlaceOrdersDone, PlaceOrdersTryNextBlock, VerifyExecutionDone,
             VerifyExecutionBadSubmission, VerifyExecutionNoMajority, TimeoutStalled,
             TimeoutEarly, RoundTimeout, AfterTimeout, Rounds
    <3> QED
      BY <2>1, <3>1 DEF PauseOnlyWhenDone
  <2> QED
    BY <2>2, <2>3
<1>7. ASSUME PostStep
      PROVE  EmptyListVotes' /\ PauseOnlyWhenDone'
  <2>1. UNCHANGED <<round, done>> /\ (round = "SelectOrders" => votes' = votes)
    BY <1>1, <1>7, PostStepFrame
  <2> QED
    BY <2>1 DEF PauseInv, EmptyListVotes, PauseOnlyWhenDone
<1>8. ASSUME UNCHANGED vars
      PROVE  EmptyListVotes' /\ PauseOnlyWhenDone'
  BY <1>8 DEF vars, PauseInv, EmptyListVotes, PauseOnlyWhenDone
<1>9. EmptyListVotes' /\ PauseOnlyWhenDone'
  BY <1>4, <1>5, <1>6, <1>7, <1>8 DEF Next, AgentStep, VoteStep
<1> QED
  BY <1>1, <1>3, <1>9 DEF PauseInv

\* With all orders handed over before the first round, the service goes to pause
\* only when every order is verified: a quorum of empty lists cannot hide an order
\* that was put off, refused, or selected by the others.
THEOREM PausesWhenDone ==
  ASSUME "restart" \notin FaultKinds, MaxCopies # 0
  PROVE  FullListsSpec => [](NoOrderLost /\ PauseOnlyWhenDone)
<1>1. FullLists => PauseInv
  BY PauseInit
<1>2. PauseInv /\ [Next]_vars => PauseInv'
  BY PauseStep
<1>3. PauseInv => NoOrderLost /\ PauseOnlyWhenDone
  BY DEF PauseInv, LostInv
<1> QED
  BY <1>1, <1>2, <1>3, PTL DEF FullListsSpec

\* The step in which an agent reports an empty list (select_orders, NO_ORDERS_PAYLOAD) is
\* the only one that casts such a vote.
LEMMA EmptyListStep ==
  ASSUME "restart" \notin FaultKinds, LostInv, [Next]_vars,
         NEW a \in Agents, round = "SelectOrders",
         votes[a] # NoOrdersPayload, votes'[a] = NoOrdersPayload
  PROVE  \A o \in Orders : received[a][o] > 0 => o \in done
<1>1. LostInv' /\ TypeInv /\ TypeOK
  BY LostStep DEF LostInv, TypeInv
<1>2. ASSUME NEW b \in Agents, SelectOrders(b)
      PROVE  \A o \in Orders : received[a][o] > 0 => o \in done
  <2>1. UNCHANGED <<received, done>> /\ votes' = [votes EXCEPT ![b] = votes'[b]]
    BY <1>1, <1>2 DEF SelectOrders, Vote, TypeOK
  <2>2. a = b
    BY <1>1, <2>1 DEF TypeOK
  <2> QED
    BY <1>1, <1>2, <2>1, <2>2, EmptyVote
<1>3. CASE PostStep
  BY <1>1, <1>3, PostStepFrame
<1>4. CASE EndOfRound
  BY <1>4, EndOfRoundFrame, ConstantAssumption DEF Payloads, SpecialPayloads
<1>5. CASE UNCHANGED vars
  BY <1>5 DEF vars, syncVars
<1>6. ASSUME NEW b \in Agents,
             \/ VerifyExecution(b) \/ VerifyExecutionFailedGet(b) \/ Restart(b)
             \/ \E o \in Orders : TradeableOrder(b, o)
      PROVE  FALSE
  BY <1>6 DEF VerifyExecution, VerifyExecutionFailedGet, Restart, TradeableOrder, HandOver,
              syncVars
<1> QED
  BY <1>2, <1>3, <1>4, <1>5, <1>6 DEF Next, AgentStep, VoteStep

\* Without restarts, from empty lists and with orders that arrive at any time: an agent
\* takes its part in a pause only if every order it was handed by then is verified.
THEOREM EmptyListsHonest ==
  ASSUME "restart" \notin FaultKinds
  PROVE  Spec => EmptyListHonest
<1>1. Spec => []LostInv
  <2>1. Init => LostInv
    BY LostInit
  <2>2. LostInv /\ [Next]_vars => LostInv'
    BY LostStep
  <2> QED
    BY <2>1, <2>2, PTL DEF Spec
<1>2. LostInv /\ [Next]_vars
        => [\A a \in Agents :
              round = "SelectOrders" /\ votes[a] # NoOrdersPayload
                /\ votes'[a] = NoOrdersPayload
              => \A o \in Orders : received[a][o] > 0 => o \in done]_vars
  BY EmptyListStep
<1> QED
  BY <1>1, <1>2, PTL DEF Spec, EmptyListHonest

=============================================================================
