---------------------------- MODULE HealthCheck ----------------------------
(***************************************************************************)
(* The /healthcheck endpoint of an agent: what HttpHandler answers while   *)
(* the rounds of the service complete, time out or stand still, and the    *)
(* timeouts that SharedState.setup gives the rounds.                       *)
(*                                                                         *)
(* Time is counted in seconds and kept as ages: of the round, of the last  *)
(* transition, of the last block.                                          *)
(***************************************************************************)
EXTENDS Integers

CONSTANTS
  \* params.round_timeout_seconds and params.reset_pause_duration; 120 and 300 in
  \* the deployed agent.
  RoundTimeoutSeconds,
  ResetPauseDuration,
  \* The longest time between two blocks of a running chain, and the age of the
  \* last block at which the framework calls Tendermint unhealthy.
  BlockTime,
  StallTolerance,
  \* Ages are counted up to here.
  Horizon,
  \* Stands for None, as the code has it while there is nothing to report.
  Unknown

MARGIN == 5

ASSUME HealthAssumption ==
  /\ RoundTimeoutSeconds \in Nat
  /\ ResetPauseDuration \in Nat
  /\ BlockTime \in Nat
  /\ StallTolerance \in Nat
  /\ Horizon \in Nat
  /\ BlockTime =< StallTolerance
  /\ Horizon > 2 * ResetPauseDuration
  /\ Horizon > StallTolerance
  /\ Horizon > RoundTimeoutSeconds + BlockTime

\* The configurations under which the report is meaningful, that of the deployed agent
\* among them.  The defaults in skill.yaml (10 and 30 seconds) are none.
Configured ==
  /\ RoundTimeoutSeconds + BlockTime < 2 * ResetPauseDuration
  /\ MARGIN + BlockTime < ResetPauseDuration

VARIABLES
  round,         \* the current round
  transitioned,  \* _last_round_transition_timestamp is set
  sinceRound,       \* age of the current round
  sinceTransition,  \* age of _last_round_transition_timestamp
  sinceBlock,       \* age of the last block
  halted,        \* the chain makes no blocks
  late,          \* since the last transition by a result a round has timed out, or
                 \* the chain has been halted (history)
  connected,     \* the connection of the websocket client
  answer         \* the body of the last response, or Unknown

ages == <<sinceRound, sinceTransition, sinceBlock>>
vars == <<round, transitioned, ages, halted, late, connected, answer>>

Flag == BOOLEAN \cup {Unknown}

-----------------------------------------------------------------------------
(* The rounds and their timeouts *)

Rounds == {"Registration", "SelectOrders", "Randomness", "SelectKeeper", "PlaceOrders",
           "VerifyExecution", "ResetAndPause"}

\* Where the result of a round may lead; the degenerate final rounds are replaced by
\* the round they are mapped to.
AfterResult ==
  [r \in Rounds |->
     CASE r = "Registration"    -> {"SelectOrders"}
       [] r = "SelectOrders"    -> {"Randomness", "SelectOrders", "ResetAndPause"}
       [] r = "Randomness"      -> {"SelectKeeper", "Randomness"}
       [] r = "SelectKeeper"    -> {"PlaceOrders", "Randomness"}
       [] r = "PlaceOrders"     -> {"VerifyExecution", "SelectOrders"}
       [] r = "VerifyExecution" -> {"SelectOrders", "Randomness", "PlaceOrders"}
       [] r = "ResetAndPause"   -> {"SelectOrders", "Registration"}]

AfterTimeout ==
  [r \in Rounds |-> CASE r = "VerifyExecution" -> "PlaceOrders"
                      [] r = "ResetAndPause"   -> "Registration"
                      [] OTHER                 -> r]

\* Faulty variant of Timeout: the pause is multiplied by MULTIPLIER before the margin
\* is added.
TimeoutMultiplied(r) ==
  IF r = "ResetAndPause" THEN 2 * ResetPauseDuration + MARGIN ELSE RoundTimeoutSeconds

\* What setup() writes into event_to_timeout.
Timeout(r) ==
  IF r = "ResetAndPause" THEN ResetPauseDuration + MARGIN ELSE RoundTimeoutSeconds

\* Faulty variant of Expired: the timeout of the pause is not set.
ExpiredWithoutPause ==
  round \notin {"Registration", "ResetAndPause"} /\ sinceRound >= Timeout(round)

\* The registration at the start waits for all agents without a timeout.
Expired == round # "Registration" /\ sinceRound >= Timeout(round)

-----------------------------------------------------------------------------
(* The report *)

TmUnhealthy == sinceBlock > StallTolerance

\* Faulty variant of TransitioningFast: only Tendermint is looked at.
TransitioningFastByBlocks == IF transitioned THEN ~TmUnhealthy ELSE Unknown

\* is_transitioning_fast: unknown before the first transition.
TransitioningFast ==
  IF transitioned
  THEN ~TmUnhealthy /\ sinceTransition < 2 * ResetPauseDuration
  ELSE Unknown

\* The body of a response.  Tendermint counts as healthy before the first
\* transition, as the negation of None is true.
Report ==
  [is_transitioning_fast |-> TransitioningFast,
   is_tm_healthy         |-> ~(transitioned /\ TmUnhealthy),
   web3_ok               |-> connected]

Reports ==
  [is_transitioning_fast : Flag, is_tm_healthy : BOOLEAN, web3_ok : BOOLEAN]

\* What a message is to the handler: a request of the HTTP server or something else,
\* and whether its dialogue is valid.  Method and url are not looked at.
Messages == [server_request : BOOLEAN, dialogue : BOOLEAN]

-----------------------------------------------------------------------------
Init ==
  /\ round = "Registration"
  /\ transitioned = FALSE
  /\ sinceRound = 0
  /\ sinceTransition = 0
  /\ sinceBlock = 0
  /\ halted = FALSE
  /\ late = FALSE
  /\ connected = FALSE
  /\ answer = Unknown

Older(age) == IF age < Horizon THEN age + 1 ELSE age

\* A second passes.
Tick ==
  /\ halted \/ sinceBlock < BlockTime
  /\ sinceRound' = Older(sinceRound)
  /\ sinceTransition' = IF transitioned THEN Older(sinceTransition) ELSE 0
  /\ sinceBlock' = Older(sinceBlock)
  /\ UNCHANGED <<round, transitioned, halted, late, connected, answer>>

\* A block completes the current round with a result, and the time is noted.
Result(r) ==
  /\ ~halted /\ ~Expired
  /\ r \in AfterResult[round]
  /\ round' = r
  /\ transitioned' = TRUE
  /\ sinceRound' = 0
  /\ sinceTransition' = 0
  /\ sinceBlock' = 0
  /\ late' = FALSE
  /\ UNCHANGED <<halted, connected, answer>>

\* The first block after the deadline of the round schedules another one.  That is no
\* result, and the time is not noted.
TimeoutBlock ==
  /\ ~halted /\ Expired
  /\ round' = AfterTimeout[round]
  /\ sinceRound' = 0
  /\ sinceBlock' = 0
  /\ late' = TRUE
  /\ UNCHANGED <<transitioned, sinceTransition, halted, connected, answer>>

\* A block without consequences.
EmptyBlock ==
  /\ ~halted /\ ~Expired
  /\ sinceBlock' = 0
  /\ UNCHANGED <<round, transitioned, sinceRound, sinceTransition, halted, late,
                 connected, answer>>

\* The chain stands still, or goes on.
HaltOrResume ==
  /\ halted' = ~halted
  /\ late' = TRUE
  /\ UNCHANGED <<round, transitioned, ages, connected, answer>>

\* The websocket client connects or loses its connection.
ConnectOrDisconnect ==
  /\ connected' = ~connected
  /\ UNCHANGED <<round, transitioned, ages, halted, late, answer>>

\* The response has status 200, whatever the report says.
SendOkResponse == answer' = Report

\* Each request of the server with a valid dialogue is answered with the report; other
\* messages go to the base class, and those without a dialogue are dropped.
Handle(message) ==
  /\ IF message.server_request /\ message.dialogue THEN SendOkResponse
                                                 ELSE UNCHANGED answer
  /\ UNCHANGED <<round, transitioned, ages, halted, late, connected>>

Next ==
  \/ Tick
  \/ \E r \in Rounds : Result(r)
  \/ TimeoutBlock
  \/ EmptyBlock
  \/ HaltOrResume
  \/ ConnectOrDisconnect
  \/ \E message \in Messages : Handle(message)

Spec == Init /\ [][Next]_vars

(* Time passes, a chain that is not halted makes blocks, and somebody asks    *)
(* for the health of the agent again and again.                               *)
Fairness ==
  /\ SF_vars(Tick)
  /\ WF_vars(EmptyBlock)
  /\ WF_vars(TimeoutBlock)
  /\ WF_vars(Handle([server_request |-> TRUE, dialogue |-> TRUE]))

FairSpec == Spec /\ Fairness

-----------------------------------------------------------------------------
(* Properties *)

\* No false alarm: as long as the chain runs and the rounds have results before
\* their timeouts, the pause included, the report of a Configured service says that the
\* service transitions fast.  It relates the threshold in _handle_get_health to the
\* timeouts that SharedState.setup derives from other parameters.
NoFalseAlarm ==
  transitioned /\ ~late /\ round # "Registration" => TransitioningFast = TRUE

\* A service whose rounds have no results any more, be it that they time out again
\* and again, that the registration hangs or that the chain is halted, is reported
\* in the end, to everybody who asks from then on.
StuckReported ==
  \/ []<><<\E r \in Rounds : Result(r)>>_vars
  \/ <>[](answer = Unknown \/ answer.is_transitioning_fast # TRUE)

-----------------------------------------------------------------------------
(* The inductive invariant behind NoFalseAlarm. *)

TypeOK ==
  /\ round \in Rounds
  /\ transitioned \in BOOLEAN
  /\ sinceRound \in 0..Horizon
  /\ sinceTransition \in 0..Horizon
  /\ sinceBlock \in 0..Horizon
  /\ halted \in BOOLEAN
  /\ late \in BOOLEAN
  /\ connected \in BOOLEAN
  /\ answer \in Reports \cup {Unknown}

\* While nothing is late, blocks are young, the round is as old as the transition
\* that led to it, and it is past its timeout by less than the age of the block.
InTime ==
  ~late =>
    /\ ~halted
    /\ sinceBlock =< BlockTime
    /\ transitioned =>
         /\ sinceTransition = sinceRound
         /\ round # "Registration" => sinceRound =< Timeout(round) + sinceBlock

HealthInv == TypeOK /\ InTime

=============================================================================
