------------------------------ MODULE MCMotion ------------------------------
(***************************************************************************)
(* The way of a move, for TLC: from g-code coordinates through the         *)
(* excluded objects to the toolhead, the moves of a probe, and the pins,   *)
(* fans and leds that are switched along with the moves. No part shares    *)
(* state with another in these models: a behaviour picks one and runs it,  *)
(* while the variables of the others keep their first values. The          *)
(* reachable states are those of the parts, one after the other, and never *)
(* a product of two of them.                                               *)
(***************************************************************************)
EXTENDS ToolHead, GCodeMove, ExcludeObject, Probing, Outputs

FanReadings == {-3, 0, 3}

VARIABLE part   \* the part a behaviour runs

Parts == {"toolhead", "gcode", "exclude", "probe", "pins", "fans", "leds"}

\* Parts that begin in several ways begin in one of them when another is run.
MotionInit ==
  /\ part \in Parts
  /\ Init /\ GMInit /\ ExcludeInit /\ ProbingInit /\ PinInit /\ FanInit /\
     LedInit
  /\ part # "gcode" => axis = "X"
  /\ part # "probe" => ~stow_on_each_sample
  /\ part # "pins" => default_value = 0 /\ keeper = "timer"
  /\ part # "fans" => owner = "gcode"

\* The other parts rest.
OthersRest ==
  /\ UNCHANGED part
  /\ part # "toolhead" => UNCHANGED vars
  /\ part # "gcode" => UNCHANGED gcodeMoveVars
  /\ part # "exclude" => UNCHANGED excludeVars
  /\ part # "probe" => UNCHANGED probeVars
  /\ part # "pins" => UNCHANGED pinVars
  /\ part # "fans" => UNCHANGED fanVars
  /\ part # "leds" => UNCHANGED ledVars

MotionNext ==
  \/ part = "toolhead" /\ Next /\ OthersRest
  \/ part = "gcode" /\ GMNext /\ OthersRest
  \/ part = "exclude" /\ ExcludeNext /\ OthersRest
  \/ part = "probe" /\ ProbingNext /\ OthersRest
  \/ part = "pins" /\ PinNext /\ OthersRest
  \/ part = "fans" /\ FanNext /\ OthersRest
  \/ part = "leds" /\ LedNext /\ OthersRest

MotionVars ==
  <<part, vars, gcodeMoveVars, excludeVars, probeVars, pinVars, fanVars,
    ledVars>>

MotionSpec == MotionInit /\ [][MotionNext]_MotionVars

-----------------------------------------------------------------------------
(* Properties of parts that belong together.                               *)

\* G-code coordinates, offsets and excluded objects leave the nozzle where
\* g-code wants it.
PositionsSound == KnowsPosition /\ BackOnTrack
=============================================================================
