--------------------------------- MODULE Heater ---------------------------------
(***************************************************************************)
(* How heaters.py drives the output of a heater.  Every reading of the     *)
(* sensor ends in set_pwm, which does not send what hardly changes; the    *)
(* micro-controller shuts down when an output stays on for MAX_HEAT_TIME   *)
(* without a new command.  So the value has to be sent again in time, also *)
(* when it does not change, and off has to be sent also when it was nearly *)
(* off already.                                                            *)
(*                                                                         *)
(* What the control algorithm computes is left open: any power, at every   *)
(* reading.                                                                *)
(***************************************************************************)
EXTENDS Integers, Sequences

CONSTANTS
  MAX_HEAT_TIME,
  PwmDelay,      \* from a reading to the change of the output
  ReportTime,    \* between two readings
  ReportLate,    \* bound: how late a reading is
  Powers,        \* values of the control algorithm, besides 0
  Significant,   \* a change that is always sent (0.05)
  LastHeat       \* bound: the last moment

ASSUME HeaterAssumption ==
  /\ MAX_HEAT_TIME \in Nat /\ PwmDelay \in Nat /\ ReportTime \in Nat
  /\ ReportLate \in Nat /\ LastHeat \in Nat /\ Significant \in Nat
  /\ Powers \subseteq Nat \ {0}
  /\ (3 * MAX_HEAT_TIME) \div 4 + ReportTime + ReportLate + PwmDelay
       <= MAX_HEAT_TIME

VARIABLES
  heat_clock,
  since_reading,  \* the time since the last reading
  wanted,         \* whether there is a target and no shutdown
  next_pwm_time, last_pwm_value,
  pwm_queue,      \* commands the controller has still to carry out
  output, output_since,  \* what it has carried out last, and when
  unwanted_since  \* history: since when the heater is to be off

heaterVars == <<heat_clock, since_reading, wanted, next_pwm_time,
                last_pwm_value, pwm_queue, output, output_since,
                unwanted_since>>

HeaterInit ==
  /\ heat_clock = 0 /\ since_reading = 0 /\ wanted = FALSE
  /\ next_pwm_time = 0 /\ last_pwm_value = 0 /\ pwm_queue = << >>
  /\ output = 0 /\ output_since = 0 /\ unwanted_since = 0

\* set_temp, alter_target, and _handle_shutdown
SetTarget ==
  /\ wanted' = ~wanted
  /\ unwanted_since' = IF wanted THEN heat_clock ELSE unwanted_since
  /\ UNCHANGED <<heat_clock, since_reading, next_pwm_time, last_pwm_value,
                 pwm_queue, output, output_since>>

AbsDiff(a, b) == IF a < b THEN b - a ELSE a - b

\* Mutant: a value that hardly changes is not sent again.
Suppressed_Always(value) == AbsDiff(value, last_pwm_value) < Significant

Suppressed(value) ==
  /\ heat_clock < next_pwm_time \/ last_pwm_value = 0
  /\ AbsDiff(value, last_pwm_value) < Significant

\* temperature_callback, temperature_update of the control and set_pwm
TemperatureCallback ==
  \E power \in Powers \cup {0} :
    LET value    == IF wanted THEN power ELSE 0
        pwm_time == heat_clock + PwmDelay
    IN
    /\ since_reading >= ReportTime /\ since_reading' = 0
    /\ IF Suppressed(value)
       THEN UNCHANGED <<next_pwm_time, last_pwm_value, pwm_queue>>
       ELSE /\ next_pwm_time' = pwm_time + (3 * MAX_HEAT_TIME) \div 4
            /\ last_pwm_value' = value
            /\ pwm_queue' = Append(pwm_queue, [at |-> pwm_time, value |-> value])
    /\ UNCHANGED <<heat_clock, wanted, output, output_since, unwanted_since>>

\* The controller carries out a command at its time.
OutputChanges ==
  /\ pwm_queue # << >> /\ Head(pwm_queue).at = heat_clock
  /\ pwm_queue' = Tail(pwm_queue)
  /\ output' = Head(pwm_queue).value /\ output_since' = heat_clock
  /\ UNCHANGED <<heat_clock, since_reading, wanted, next_pwm_time,
                 last_pwm_value, unwanted_since>>

\* Readings come in time as long as the controller is connected.
HeatClockTicks ==
  /\ heat_clock < LastHeat /\ since_reading < ReportTime + ReportLate
  /\ pwm_queue # << >> => heat_clock < Head(pwm_queue).at
  /\ heat_clock' = heat_clock + 1 /\ since_reading' = since_reading + 1
  /\ UNCHANGED <<wanted, next_pwm_time, last_pwm_value, pwm_queue, output,
                 output_since, unwanted_since>>

HeaterNext == SetTarget \/ TemperatureCallback \/ OutputChanges
              \/ HeatClockTicks

HeaterSpec == HeaterInit /\ [][HeaterNext]_heaterVars

-----------------------------------------------------------------------------
(* Properties.                                                             *)

\* The types of the variables.
HeaterTypes ==
  /\ heat_clock \in Nat /\ since_reading \in Nat /\ wanted \in BOOLEAN
  /\ next_pwm_time \in Nat /\ last_pwm_value \in Nat
  /\ pwm_queue \in Seq([at : Nat, value : Nat])
  /\ output \in Nat /\ output_since \in Nat /\ unwanted_since \in Nat

\* An output that is on gets its next command before the controller would shut
\* down; and one that is to be off is off after the same time, a reading
\* and the delay of the output, however little of it was left on
\* (heaters.py:68-81).
PowerKept ==
  /\ output # 0 => heat_clock <= output_since + MAX_HEAT_TIME
  /\ (~wanted /\ output # 0) =>
       heat_clock <= unwanted_since + PwmDelay + MAX_HEAT_TIME
=============================================================================
