------------------------------ MODULE GCodeMove ------------------------------
(***************************************************************************)
(* extras/gcode_move.py: the coordinates of g-code.  last_position is      *)
(* where the commands so far have led, base_position the origin they count *)
(* from, homing_position the virtual offset in it.  The toolhead (tool)    *)
(* refuses what is out of its range; others move it, too: homing, probing, *)
(* a change of the extruder.                                               *)
(*                                                                         *)
(* The axes do not touch each other, so a behaviour follows one of them: X *)
(* (Y and Z are treated alike) or E.  Positions are whole numbers.  Speeds,*)
(* and M220 and M221, which scale, are left out.                           *)
(***************************************************************************)
EXTENDS Integers

CONSTANTS
  MaxPos,    \* positions of the toolhead are 0..MaxPos
  MaxBase    \* bound of base_position for TLC

Positions == 0..MaxPos

VARIABLES
  axis,          \* the axis that is followed
  last_position, base_position, homing_position,
  absolute_coord, absolute_extrude,
  saved_state,   \* the state of one name, or that of the start
  tool,          \* toolhead.commanded_pos
  origin         \* history: where g-code zero would be without offset

gcodeMoveVars == <<axis, last_position, base_position, homing_position,
                   absolute_coord, absolute_extrude, saved_state, tool, origin>>

GCodeState == [absolute_coord |-> absolute_coord,
               absolute_extrude |-> absolute_extrude,
               base_position |-> base_position,
               last_position |-> last_position,
               homing_position |-> homing_position,
               origin |-> origin]

GMInit ==
  /\ axis \in {"X", "E"}
  /\ last_position = 0 /\ base_position = 0 /\ homing_position = 0
  /\ absolute_coord = TRUE /\ absolute_extrude = TRUE /\ tool = 0
  /\ origin = 0 /\ saved_state = GCodeState

-----------------------------------------------------------------------------
\* Mutant: an error leaves the position the command was about to reach.
AfterError_Kept(pos) == pos

\* The event gcode:command_error calls reset_last_position.
AfterError(pos) == tool

\* move_with_transform, or an error on the way to it
MoveTo(pos) ==
  \/ /\ pos \in Positions /\ tool' = pos /\ last_position' = pos
  \/ last_position' = AfterError(pos) /\ UNCHANGED tool

Relative == ~absolute_coord \/ (axis = "E" /\ ~absolute_extrude)

\* cmd_G1 with the axis or without it; other axes and the speed may fail
\* after it is taken over.
G1 ==
  /\ \/ MoveTo(last_position)
     \/ \E v \in Positions :
          MoveTo(v + (IF Relative THEN last_position ELSE base_position))
  /\ UNCHANGED <<axis, base_position, homing_position, absolute_coord,
                 absolute_extrude, saved_state, origin>>

\* G90 and G91, M82 and M83
SetMode ==
  /\ absolute_coord' \in BOOLEAN /\ absolute_extrude' \in BOOLEAN
  /\ UNCHANGED <<axis, last_position, base_position, homing_position,
                 saved_state, tool, origin>>

\* cmd_G92
G92 ==
  /\ \E v \in Positions : base_position' = last_position - v
  /\ origin' = base_position' - homing_position
  /\ UNCHANGED <<axis, last_position, homing_position, absolute_coord,
                 absolute_extrude, saved_state, tool>>

\* cmd_SET_GCODE_OFFSET, absolute or _ADJUST, with or without MOVE
SetGCodeOffset ==
  /\ \E offset \in Positions :
       LET delta == offset - homing_position IN
       /\ homing_position' = offset
       /\ base_position' = base_position + delta
       /\ \/ UNCHANGED <<last_position, tool>>
          \/ MoveTo(last_position + delta)
  /\ UNCHANGED <<axis, absolute_coord, absolute_extrude, saved_state, origin>>

SaveGCodeState ==
  /\ saved_state' = GCodeState
  /\ UNCHANGED <<axis, last_position, base_position, homing_position,
                 absolute_coord, absolute_extrude, tool, origin>>

\* Mutant: the relative position of E is not restored.
RestoredBase_Plain == saved_state.base_position

\* What cmd_RESTORE_GCODE_STATE makes of base_position: E goes on from where
\* the extruder is.
RestoredBase ==
  saved_state.base_position +
    (IF axis = "E" THEN last_position - saved_state.last_position ELSE 0)

\* cmd_RESTORE_GCODE_STATE; MOVE leads to the old X.
RestoreGCodeState ==
  /\ RestoredBase \in -MaxBase..MaxBase
  /\ base_position' = RestoredBase
  /\ homing_position' = saved_state.homing_position
  /\ absolute_coord' = saved_state.absolute_coord
  /\ absolute_extrude' = saved_state.absolute_extrude
  /\ origin' = IF axis = "X" THEN saved_state.origin
               ELSE last_position - homing_position'
                    - (saved_state.last_position - saved_state.base_position)
  /\ \/ UNCHANGED <<last_position, tool>>
     \/ MoveTo(IF axis = "X" THEN saved_state.last_position
               ELSE last_position)
  /\ UNCHANGED <<axis, saved_state>>

\* Others move the toolhead (set_position, manual_move): reset_last_position.
ToolMoves ==
  /\ tool' \in Positions /\ last_position' = tool'
  /\ UNCHANGED <<axis, base_position, homing_position, absolute_coord,
                 absolute_extrude, saved_state, origin>>

\* Mutant: a homed axis counts from the position of the endstop.
HomedBase_Zero == 0

HomedBase == homing_position

\* _handle_home_rails_end
HomeRailsEnd ==
  /\ axis = "X"
  /\ tool' \in Positions /\ last_position' = tool'
  /\ base_position' = HomedBase /\ origin' = 0
  /\ UNCHANGED <<axis, homing_position, absolute_coord, absolute_extrude,
                 saved_state>>

\* _handle_activate_extruder: the toolhead takes the position of the other
\* extruder.
ActivateExtruder ==
  /\ axis = "E"
  /\ tool' \in Positions /\ last_position' = tool'
  /\ base_position' = last_position'
  /\ origin' = last_position' - homing_position
  /\ UNCHANGED <<axis, homing_position, absolute_coord, absolute_extrude,
                 saved_state>>

GMNext ==
  \/ G1 \/ SetMode \/ G92 \/ SetGCodeOffset \/ SaveGCodeState
  \/ RestoreGCodeState \/ ToolMoves \/ HomeRailsEnd \/ ActivateExtruder

GMSpec == GMInit /\ [][GMNext]_gcodeMoveVars

-----------------------------------------------------------------------------
(* Properties.                                                             *)

\* Whatever fails or moves the toolhead beside it, g-code knows where the
\* toolhead is when the next command begins, and a virtual offset is in the
\* origin once: set, changed, homed over, saved and restored
\* (gcode_move.py:74-84, 115-120, 182-236).
KnowsPosition ==
  /\ last_position = tool
  /\ base_position = origin + homing_position
=============================================================================
