------------------------------ MODULE VerifyHeater ------------------------------
(***************************************************************************)
(* The check that a heater heats (verify_heater.py).  Once a second it     *)
(* compares the temperature with the target: below it the difference is    *)
(* summed up, and the sum is forgiven when the temperature comes near the  *)
(* target or makes progress towards it.                                    *)
(*                                                                         *)
(* Temperature and target are what they are at each check, in any order;   *)
(* a sensor that has stopped reporting reads 0.  The sum is kept only as   *)
(* far as it is compared.                                                  *)
(***************************************************************************)
EXTENDS Integers

CONSTANTS
  Temps, Targets,   \* readings, and targets (0 is off)
  Hysteresis, MaxError, HeatingGain,
  CheckGainTime     \* in checks

\* verify_heater.py:15-25
ASSUME VerifyAssumption ==
  /\ Temps \subseteq Int /\ Targets \subseteq Int
  /\ Hysteresis \in Nat /\ MaxError \in Nat
  /\ HeatingGain \in Nat \ {0} /\ CheckGainTime \in Nat \ {0}

VARIABLES
  heat_error, approaching_target, starting_approach,
  last_target, goal_temp,
  goal_in,          \* checks until goal_systime
  faulted,          \* heater_fault has shut the printer down
  last_reading, stuck, deficit
                    \* history: the last reading, and for how many checks
                    \* and with what sum the heater has not heated up

verifyVars == <<heat_error, approaching_target, starting_approach, last_target,
                goal_temp, goal_in, faulted, last_reading, stuck, deficit>>

VerifyInit ==
  /\ heat_error = 0 /\ approaching_target = FALSE /\ starting_approach = FALSE
  /\ last_target = 0 /\ goal_temp = 0 /\ goal_in = 0 /\ faulted = FALSE
  /\ last_reading = 0 /\ stuck = 0 /\ deficit = 0

Lower(a, b) == IF a < b THEN a ELSE b

\* Mutant: the sum starts again when the approach is given up.
ErrorKept_Reset(error) == 0

\* The sum after a check at which the temperature no longer approaches.
ErrorKept(error) == error

InRange(temp, target) == temp >= target - Hysteresis \/ target <= 0

NearTarget(temp, target) ==
  /\ InRange(temp, target)
  /\ approaching_target' = FALSE /\ starting_approach' = FALSE
  /\ heat_error' = IF temp <= target + Hysteresis THEN 0 ELSE heat_error
  /\ UNCHANGED <<goal_temp, goal_in, faulted>>

StartApproach(temp, target, error) ==
  /\ ~approaching_target /\ target # last_target
  /\ approaching_target' = TRUE /\ starting_approach' = TRUE
  /\ heat_error' = error
  /\ goal_temp' = temp + HeatingGain /\ goal_in' = CheckGainTime
  /\ UNCHANGED faulted

NotApproaching(target, error) ==
  /\ ~approaching_target /\ target = last_target
  /\ heat_error' = error /\ faulted' = (error >= MaxError)
  /\ UNCHANGED <<approaching_target, starting_approach, goal_temp, goal_in>>

Progress(temp) ==
  /\ approaching_target /\ temp >= goal_temp
  /\ starting_approach' = FALSE /\ heat_error' = 0
  /\ goal_temp' = temp + HeatingGain /\ goal_in' = CheckGainTime
  /\ UNCHANGED <<approaching_target, faulted>>

NoProgress(temp, error) ==
  /\ approaching_target /\ temp < goal_temp
  /\ IF goal_in <= 1
     THEN /\ approaching_target' = FALSE /\ goal_in' = 0
          /\ heat_error' = ErrorKept(error)
          /\ UNCHANGED goal_temp
     ELSE /\ goal_in' = goal_in - 1 /\ heat_error' = error
          /\ goal_temp' = IF starting_approach
                          THEN Lower(goal_temp, temp + HeatingGain)
                          ELSE goal_temp
          /\ UNCHANGED approaching_target
  /\ UNCHANGED <<starting_approach, faulted>>

\* check_event
CheckEvent ==
  \E temp \in Temps, target \in Targets :
    LET below == target - Hysteresis - temp
        error == Lower(heat_error + below, MaxError)
        still == ~InRange(temp, target) /\ target = last_target
                 /\ temp <= last_reading
    IN
    /\ ~faulted
    /\ \/ NearTarget(temp, target)
       \/ /\ ~InRange(temp, target)
          /\ \/ StartApproach(temp, target, error)
             \/ NotApproaching(target, error)
             \/ Progress(temp)
             \/ NoProgress(temp, error)
    /\ last_target' = target /\ last_reading' = temp
    /\ stuck' = IF still THEN Lower(stuck + 1, CheckGainTime + 1) ELSE 0
    /\ deficit' = IF still THEN Lower(deficit + below, MaxError) ELSE 0

VerifyNext == CheckEvent

VerifySpec == VerifyInit /\ [][VerifyNext]_verifyVars

-----------------------------------------------------------------------------
(* Properties.                                                             *)

\* A heater that is below its target and does not heat up, for longer than it
\* is given to gain the next degrees and by as much as may be summed up, shuts
\* the printer down, whatever targets and temperatures came before
\* (verify_heater.py:47-90).
FaultFound == (stuck > CheckGainTime /\ deficit >= MaxError) => faulted
=============================================================================
