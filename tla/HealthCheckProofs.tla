------------------------- MODULE HealthCheckProofs -------------------------
(***************************************************************************)
(* Proofs about the health report.                                         *)
(***************************************************************************)
EXTENDS HealthCheck, TLAPS

LEMMA NextRoundsType ==
  /\ \A r \in Rounds : AfterResult[r] \subseteq Rounds
  /\ \A r \in Rounds : AfterTimeout[r] \in Rounds
BY DEF Rounds, AfterResult, AfterTimeout

LEMMA ReportType == connected \in BOOLEAN => Report \in Reports
<1>1. TransitioningFast \in Flag
  BY Zenon DEF TransitioningFast, Flag
<1> DEFINE healthy == ~(transitioned /\ TmUnhealthy)
<1>2. healthy \in BOOLEAN
  <2>1. CASE healthy
    BY <2>1, Zenon
  <2>2. CASE ~healthy
    BY <2>2, Zenon
  <2> QED
    BY <2>1, <2>2
<1> QED
  BY <1>1, <1>2, Zenon DEF Report, Reports

LEMMA TypeStep == TypeOK /\ [Next]_vars => TypeOK'
<1> SUFFICES ASSUME TypeOK, [Next]_vars
             PROVE  TypeOK'
  OBVIOUS
<1> USE DEF TypeOK
<1>1. CASE Tick
  BY <1>1, HealthAssumption DEF Tick, Older
<1>2. ASSUME NEW r \in Rounds, Result(r)
      PROVE  TypeOK'
  <2>1. sinceRound' \in 0..Horizon /\ sinceTransition' \in 0..Horizon
        /\ sinceBlock' \in 0..Horizon
    BY <1>2, HealthAssumption DEF Result
  <2> QED
    BY <1>2, <2>1, Zenon DEF Result
<1>3. CASE TimeoutBlock
  BY <1>3, HealthAssumption, NextRoundsType DEF TimeoutBlock
<1>4. CASE EmptyBlock
  BY <1>4, HealthAssumption DEF EmptyBlock
<1>5. CASE HaltOrResume
  BY <1>5 DEF HaltOrResume, ages
<1>6. CASE ConnectOrDisconnect
  BY <1>6 DEF ConnectOrDisconnect, ages
<1>7. ASSUME NEW message \in Messages, Handle(message)
      PROVE  TypeOK'
  BY <1>7, ReportType DEF Handle, SendOkResponse, ages
<1>8. CASE UNCHANGED vars
  BY <1>8 DEF vars, ages
<1> QED
  BY <1>1, <1>2, <1>3, <1>4, <1>5, <1>6, <1>7, <1>8 DEF Next

LEMMA InTimeStep == HealthInv /\ [Next]_vars => InTime'
<1> SUFFICES ASSUME TypeOK, InTime, [Next]_vars, ~late'
             PROVE  InTime'
  BY DEF HealthInv, InTime
<1>1. CASE Tick
  <2>1. /\ ~late /\ ~halted /\ sinceBlock < BlockTime
        /\ UNCHANGED <<round, transitioned, halted, late>>
    BY <1>1 DEF Tick, InTime
  <2>2. sinceBlock' = sinceBlock + 1
    BY <1>1, <2>1, HealthAssumption DEF Tick, Older, TypeOK
  <2>3. sinceRound' =< sinceRound + 1 /\ sinceRound' \in Nat
    BY <1>1, HealthAssumption DEF Tick, Older, TypeOK
  <2>4. transitioned => sinceTransition' = sinceRound'
    BY <1>1, <2>1 DEF Tick, InTime
  <2>5. sinceBlock' =< BlockTime
    BY <2>1, <2>2, HealthAssumption DEF TypeOK
  <2>6. Timeout(round) \in Nat /\ Timeout(round)' = Timeout(round)
    BY <2>1, HealthAssumption DEF Timeout, MARGIN
  <2>7. transitioned /\ round # "Registration" =>
          sinceRound' =< Timeout(round) + sinceBlock'
    BY <2>1, <2>2, <2>3, <2>6 DEF InTime, TypeOK
  <2> QED
    BY <2>1, <2>4, <2>5, <2>6, <2>7 DEF InTime
<1>2. ASSUME NEW r \in Rounds, Result(r)
      PROVE  InTime'
  BY <1>2, HealthAssumption DEF Result, InTime, Timeout, MARGIN
<1>3. CASE TimeoutBlock
  BY <1>3 DEF TimeoutBlock
<1>4. CASE EmptyBlock
  BY <1>4, HealthAssumption DEF EmptyBlock, Expired, InTime, Timeout, MARGIN, TypeOK
<1>5. CASE HaltOrResume
  BY <1>5 DEF HaltOrResume
<1>6. CASE ConnectOrDisconnect \/ \E message \in Messages : Handle(message)
  BY <1>6 DEF ConnectOrDisconnect, Handle, SendOkResponse, InTime, Timeout, ages
<1>7. CASE UNCHANGED vars
  BY <1>7 DEF vars, ages, InTime, Timeout
<1> QED
  BY <1>1, <1>2, <1>3, <1>4, <1>5, <1>6, <1>7 DEF Next

\* In time, a round is never older than the threshold of the report.
LEMMA InTimeIsFast == Configured /\ HealthInv => NoFalseAlarm
<1> SUFFICES ASSUME Configured, TypeOK, InTime,
                    transitioned, ~late, round # "Registration"
             PROVE  TransitioningFast = TRUE
  BY DEF HealthInv, NoFalseAlarm
<1>1. /\ sinceBlock =< BlockTime
      /\ sinceTransition = sinceRound
      /\ sinceRound =< Timeout(round) + sinceBlock
  BY DEF InTime
<1>2. ~TmUnhealthy
  BY <1>1, HealthAssumption DEF TmUnhealthy, TypeOK
<1>3. sinceTransition < 2 * ResetPauseDuration
  BY <1>1, HealthAssumption DEF Timeout, MARGIN, Configured, TypeOK
<1> QED
  BY <1>2, <1>3 DEF TransitioningFast

\* The ages of rounds, transitions and blocks, for every configuration.
THEOREM AgesHold == Spec => []HealthInv
<1>1. Init => HealthInv
  <2>1. 0 \in 0..Horizon /\ 0 =< BlockTime
    BY HealthAssumption
  <2> QED
    BY <2>1, Zenon DEF Init, HealthInv, TypeOK, InTime, Rounds
<1>2. HealthInv /\ [Next]_vars => HealthInv'
  BY TypeStep, InTimeStep DEF HealthInv
<1> QED
  BY <1>1, <1>2, PTL DEF Spec

\* A service whose rounds complete in time is never reported as slow, for every
\* configuration whose timeouts fit the threshold.
THEOREM NeverFalseAlarm ==
  ASSUME Configured
  PROVE  Spec => []NoFalseAlarm
<1>1. HealthInv => NoFalseAlarm
  BY InTimeIsFast
<1> QED
  BY <1>1, AgesHold, PTL

=============================================================================
