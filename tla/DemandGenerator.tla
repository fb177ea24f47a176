-------------------------- MODULE DemandGenerator --------------------------
(***************************************************************************)
(* Scenario.MaterializeDemand of internal/domain/scenario.go as it runs:   *)
(* validation, then the loop of extendDemand or the loop of                *)
(* generateRandomBlockDemand, one iteration per step.  A call is started   *)
(* with any scenario of Scenarios, valid or not, and any length of Weeks.  *)
(* The closed forms of module Scenario are its specification.              *)
(***************************************************************************)
EXTENDS Scenario

CONSTANTS Scenarios,      \* the scenarios the call may be made with
          Weeks           \* the lengths it may be made with

ASSUME InputAssumption == Scenarios \subseteq ScenarioRecord /\ Weeks \subseteq Int

VARIABLES s,              \* the receiver
          maxWeeks,       \* the argument
          pc,             \* "validate", "extend", "blocks", "done" or "refused"
          demand,         \* the slice being built
          start           \* the loop variable of generateRandomBlockDemand

vars == <<s, maxWeeks, pc, demand, start>>

Init == /\ s \in Scenarios
        /\ maxWeeks \in Weeks
        /\ pc = "validate"
        /\ demand = <<>>
        /\ start = 0

Refuse == /\ pc = "validate"
          /\ Validate(s) # "nil" \/ maxWeeks <= 0
          /\ pc' = "refused"
          /\ UNCHANGED <<s, maxWeeks, demand, start>>

(* extendDemand starts from the series, cut off at maxWeeks. *)
EnterExtend ==
  /\ pc = "validate" /\ Validate(s) = "nil" /\ maxWeeks > 0
  /\ normalizedDemandMode(s) = "fixed"
  /\ demand' = IF Len(s.ConsumerDemand) >= maxWeeks
                 THEN SubSeq(s.ConsumerDemand, 1, maxWeeks)
                 ELSE s.ConsumerDemand
  /\ pc' = "extend"
  /\ UNCHANGED <<s, maxWeeks, start>>

M_startOver(series) == series[1]
lastOf(series) == series[Len(series)]

ExtendByLast ==
  /\ pc = "extend"
  /\ IF Len(demand) < maxWeeks
       THEN demand' = Append(demand, lastOf(s.ConsumerDemand)) /\ UNCHANGED pc
       ELSE pc' = "done" /\ UNCHANGED demand
  /\ UNCHANGED <<s, maxWeeks, start>>

(* generateRandomBlockDemand starts from maxWeeks zeros. *)
EnterBlocks ==
  /\ pc = "validate" /\ Validate(s) = "nil" /\ maxWeeks > 0
  /\ normalizedDemandMode(s) = "random_blocks"
  /\ demand' = [i \in 1..maxWeeks |-> 0]
  /\ start' = 0
  /\ pc' = "blocks"
  /\ UNCHANGED <<s, maxWeeks>>

(* The value of one block: Intn draws below the size of the range. *)
BlockValues == IF s.DemandMax > s.DemandMin
                 THEN {s.DemandMin + n : n \in 0..(s.DemandMax - s.DemandMin)}
                 ELSE {s.DemandMin}

M_blockEndShort == IF start + s.DemandChangePeriod > maxWeeks
                     THEN maxWeeks - 1 ELSE start + s.DemandChangePeriod
blockEnd == IF start + s.DemandChangePeriod > maxWeeks
              THEN maxWeeks ELSE start + s.DemandChangePeriod

FillBlock ==
  /\ pc = "blocks"
  /\ IF start < maxWeeks
       THEN /\ \E value \in BlockValues :
                 demand' = [i \in DOMAIN demand |->
                              IF i - 1 >= start /\ i - 1 < blockEnd THEN value
                                                                    ELSE demand[i]]
            /\ start' = start + s.DemandChangePeriod
            /\ UNCHANGED pc
       ELSE /\ pc' = "done"
            /\ UNCHANGED <<demand, start>>
  /\ UNCHANGED <<s, maxWeeks>>

Next == Refuse \/ EnterExtend \/ ExtendByLast \/ EnterBlocks \/ FillBlock

(* The call runs in one goroutine, which is never blocked. *)
Spec == Init /\ [][Next]_vars /\ WF_vars(Next)

-----------------------------------------------------------------------------
(* What the loops build is what the closed forms say: a finished call      *)
(* returns a series MaterializeDemand allows, and every such series is one *)
(* number per week.                                                        *)
ResultCorrect ==
  pc = "done" => /\ demand \in MaterializeDemand(s, maxWeeks)
                 /\ Len(demand) = maxWeeks

(* Materializing a fixed series does not change the game: in every week    *)
(* the players meet the demand they would have met without it              *)
(* (DemandForWeek repeats the last entry, extendDemand writes it out).     *)
DemandKept ==
  pc = "done" /\ normalizedDemandMode(s) = "fixed" =>
    \A week \in 0..maxWeeks :
      DemandForWeek(demand, week) = DemandForWeek(s.ConsumerDemand, week)

(* Every call returns; the loop over blocks does because Validate refuses  *)
(* a change period that is not positive.                                   *)
Terminates == <>(pc \in {"done", "refused"})
=============================================================================
