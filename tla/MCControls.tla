----------------------------- MODULE MCControls -----------------------------
(***************************************************************************)
(* What the printer moves and switches, and what its users turn and press, *)
(* for TLC: the axes and the motors, the heaters, the menus of a display   *)
(* and its knobs; and one controller that homes and does not lose          *)
(* anything, which must end. No part shares state with another in these    *)
(* models: a behaviour picks one and runs it, while the variables of the   *)
(* others keep their first values. The reachable states are those of the   *)
(* parts, one after the other, and never a product of two of them.         *)
(***************************************************************************)
EXTENDS Homing, Panel, Rails, Heater, VerifyHeater

LOCAL INSTANCE TLC

\* The menu: a list with a list and an input that is edited in real time; the
\* input of the inner list goes back by force when it was edited.
PanelTree == [main |-> <<"fans", "speed">>, fans |-> <<"fan", "leave">>]
NoScript == [text |-> FALSE, act |-> "none", force |-> FALSE]
PanelScripts ==
  [speed |-> [NoScript EXCEPT !.text = TRUE],
   fan   |-> [text |-> TRUE, act |-> "back", force |-> TRUE],
   leave |-> [NoScript EXCEPT !.text = TRUE, !.act = "exit"]]
InputLimits == [speed |-> [min |-> 0, max |-> 202, step |-> 2],
                fan   |-> [min |-> 0, max |-> 1, step |-> 1]]
FirstInputs == [speed |-> 190, fan |-> 3]

\* Printers with two ways of kinematics and three of homing; rails with and
\* without a second approach, and a hop that does not fit the axis.
Rail(min, max, endstop, asked, retract) ==
  [min |-> min, max |-> max, endstop |-> endstop, asked |-> asked,
   retract |-> retract]
TwiceRails == [x |-> Rail(0, 8, 8, "unset", 4), y |-> Rail(0, 8, 0, "no", 2),
               z |-> Rail(0, 8, 0, "unset", 2)]
OtherRails == [x |-> Rail(0, 8, 8, "unset", 0), y |-> Rail(-4, 4, 0, "yes", 2),
               z |-> Rail(0, 8, 0, "unset", 8)]
Printer(kin, inverted, rails, g28, hop, back) ==
  [kin |-> kin, inverted |-> inverted, rails |-> rails, g28 |-> g28, hop |-> hop,
   home_xy |-> "x" :> 4 @@ "y" :> 4, back |-> back,
   override |-> {"z"}, start |-> "z" :> 0]
Printers == {
  Printer("corexy", {"y"}, TwiceRails, "plain", 0, FALSE),
  Printer("corexy", {"x", "z"}, TwiceRails, "safe_z", 4, TRUE),
  Printer("cartesian", {"x"}, OtherRails, "plain", 0, FALSE),
  Printer("cartesian", {}, OtherRails, "safe_z", 10, FALSE),
  Printer("corexy", {"x"}, TwiceRails, "override", 0, FALSE)}
AxesAt == {[x |-> 4, y |-> -2, z |-> 6]}
AxisTargets == {"x" :> 4 @@ "y" :> 6, "z" :> 6, "x" :> 24}
OverrideScripts == {
  << Operation("G28", {"x"}, Nowhere), Operation("move", {}, "z" :> 4),
     Operation("G28", {"z"}, Nowhere) >>,
  << Operation("G28", Axes, Nowhere) >>}
SomePushes == {-2}

VARIABLE part   \* the part a behaviour runs

Parts == {"homing", "menu", "knobs", "rails", "manual", "heater", "verify"}

\* Parts that begin in several ways begin in one of them when another is run.
ControlsInit ==
  /\ part \in Parts
  /\ Init /\ MenuInit /\ KnobInit /\ RailInit /\ ManualInit /\ HeaterInit /\
     VerifyInit
  /\ part # "knobs" => steps = 2 /\ angle = 0
  /\ part # "rails" => /\ rig = CHOOSE r \in RailSetups : TRUE
                       /\ at = CHOOSE b \in Beginnings : TRUE

\* The other parts rest.
OthersRest ==
  /\ UNCHANGED part
  /\ part # "homing" => UNCHANGED vars
  /\ part # "menu" => UNCHANGED menuVars
  /\ part # "knobs" => UNCHANGED knobVars
  /\ part # "rails" => UNCHANGED railVars
  /\ part # "manual" => UNCHANGED manualVars
  /\ part # "heater" => UNCHANGED heaterVars
  /\ part # "verify" => UNCHANGED verifyVars

ControlsNext ==
  \/ part = "homing" /\ Works /\ OthersRest
  \/ part = "menu" /\ MenuNext /\ OthersRest
  \/ part = "knobs" /\ KnobNext /\ OthersRest
  \/ part = "rails" /\ RailNext /\ OthersRest
  \/ part = "manual" /\ ManualNext /\ OthersRest
  \/ part = "heater" /\ HeaterNext /\ OthersRest
  \/ part = "verify" /\ VerifyNext /\ OthersRest

ControlsVars ==
  <<part, vars, menuVars, knobVars, railVars, manualVars, heaterVars,
    verifyVars>>

ControlsSpec ==
  ControlsInit /\ [][ControlsNext]_ControlsVars /\ (part = "homing" => Fairness)
=============================================================================
