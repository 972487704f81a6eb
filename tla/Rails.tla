------------------------------- MODULE Rails -------------------------------
(***************************************************************************)
(* What the host knows of where the axes are: steppers (stepper.py), rails *)
(* with endstops, the limits of an axis and whether it is homed            *)
(* (cartesian.py, corexy.py), homing and probing moves (homing.py) with    *)
(* safe_z_home.py and homing_override.py, moves of single motors           *)
(* (force_move.py); and a manual stepper with a time of its own.           *)
(*                                                                         *)
(* A length of 2 is a step of any motor, and everything asked for is a     *)
(* whole number of steps: rounding to steps is left out, so motors of one  *)
(* axis stop an even number of steps apart.  The micro-                    *)
(* controllers count every step, and the axes of the printer are where     *)
(* their motors take them unless something holds or pushes them.  How the  *)
(* controllers stop a homing move is the matter of Homing.                 *)
(***************************************************************************)
EXTENDS Integers, Sequences, FiniteSets

LOCAL INSTANCE TLC

CONSTANTS
  RailSetups,   \* configurations, see RailSetup
  Beginnings,   \* where the axes may be in the beginning
  Overshoots,   \* steps a motor may take after the endstop was hit
  Room,         \* how far an axis can leave its range
  MoveTargets,      \* where g-code moves to: values for some axes
  Requests,     \* sets of axes that G28 is given, all of them for none
  Scripts,      \* of homing_override: sequences of operations
  Pushes,       \* by how much motors without power are pushed
  MaxRailCommands,   \* bound: g-code commands and pushes; one push may follow
  MaxManual          \* bound: commands of the manual stepper

Axes == {"x", "y", "z"}
AxisOrder == <<"x", "y", "z">>
Steppers == Axes   \* each rail has a stepper of its name
StepDist == 2

ASSUME RailAssumption ==
  /\ 0 \in Overshoots
  /\ \A n \in Overshoots : n \in Nat /\ n % 2 = 0
  /\ \A t \in MoveTargets : DOMAIN t \subseteq Axes
  /\ \A b \in Beginnings : DOMAIN b = Axes

VARIABLES
  rig,      \* the configuration
  motors,   \* of each stepper
  pos,      \* commanded_pos of the toolhead
  homed,    \* axes whose limits are their range, and not (1.0, -1.0)
  at,       \* where the axes really are
  script,   \* what is left of a command, as operations
  homing,   \* the axes that are being homed, none otherwise
  in_script,   \* of HomingOverride
  failed,   \* the last command ended with an error
  forced,   \* history: axes somebody has declared, moved by force, or taken a
            \* motor's power from alone
  refused,  \* history: z counts as homed at 0 since its hop was refused
  commands,
  \* a manual stepper and the times of its moves
  print_time, next_cmd_time, manual_moves, switched, waits, manual_steps

armVars == <<motors, pos, homed, at>>
excused == <<forced, refused>>
doVars == <<script, homing, in_script, failed, excused, commands>>
railVars == <<rig, armVars, doVars>>
manualVars == <<print_time, next_cmd_time, manual_moves, switched, waits,
                manual_steps>>

-----------------------------------------------------------------------------
(* Rails: what their configuration may be.                                 *)

Unset == "unset"

\* PrinterRail.__init__: whether the axis homes towards its upper end, or
\* "error".
HomingPositiveDir(min, max, endstop, asked) ==
  IF endstop < min \/ endstop > max THEN "error"
  ELSE IF asked = Unset
  THEN IF 4 * endstop <= 4 * min + (max - min) THEN "no"
       ELSE IF 4 * endstop >= 4 * max - (max - min) THEN "yes"
       ELSE "error"
  ELSE IF endstop = (IF asked = "yes" THEN min ELSE max) THEN "error"
  ELSE asked

\* forcepos: where the axis is taken to be when it begins to home.
ForcePos(rail) ==
  IF HomingPositiveDir(rail.min, rail.max, rail.endstop, rail.asked) = "yes"
  THEN rail.endstop - (3 * (rail.endstop - rail.min)) \div 2
  ELSE rail.endstop + (3 * (rail.max - rail.endstop)) \div 2

Sign(n) == IF n < 0 THEN -1 ELSE IF n > 0 THEN 1 ELSE 0
Towards(rail) == Sign(rail.endstop - ForcePos(rail))
Abs(n) == IF n < 0 THEN -n ELSE n

-----------------------------------------------------------------------------
(* Kinematics and steppers.                                                *)

\* calc_position_from_coord, and calc_position back.
FromCoord(s, coord) ==
  IF rig.kin = "cartesian" \/ s = "z" THEN coord[s]
  ELSE IF s = "x" THEN coord["x"] + coord["y"]
  ELSE coord["x"] - coord["y"]
CalcPosition(spos) ==
  IF rig.kin = "cartesian" THEN spos
  ELSE [a \in Axes |-> CASE a = "x" -> (spos["x"] + spos["y"]) \div 2
                         [] a = "y" -> (spos["x"] - spos["y"]) \div 2
                         [] OTHER   -> spos["z"]]

\* The steppers that an endstop stops: in corexy those of the other rail too.
EndstopSteppers(axis) ==
  IF rig.kin = "corexy" /\ axis # "z" THEN {"x", "y"} ELSE {axis}

\* MCU_stepper: what the kinematics it uses has it at, the offset of that to
\* the steps counted, which kinematics it uses, and the count of its
\* controller, which counts down when the host counts up if the direction is
\* inverted.
Stepper == [cp : Int, offset : Int, sk : {"own", "force"}, count : Int,
            enabled : BOOLEAN]
Direction(s) == IF s \in rig.inverted THEN -1 ELSE 1
McuPosition(st) == (st.cp + st.offset) \div StepDist
WithMcuPosition(st, mcu_pos) == [st EXCEPT !.offset = mcu_pos * StepDist - st.cp]

\* set_position of a stepper, and the change to another kinematics, which has
\* it at cp.
StepperSet(st, cp) == WithMcuPosition([st EXCEPT !.cp = cp], McuPosition(st))
WithKinematics(st, sk, cp) ==
  WithMcuPosition([st EXCEPT !.sk = sk, !.cp = cp], McuPosition(st))

\* generate_steps up to a position; a motor that moves is enabled.
Stepped(s, st, cp) ==
  [st EXCEPT !.cp = cp, !.count = @ + Direction(s) * ((cp - st.cp) \div StepDist),
             !.enabled = @ \/ cp # st.cp]

\* note_homing_end: the position is asked from the controller.
Queried(s, st) == WithMcuPosition(st, Direction(s) * st.count)

\* set_position of the kinematics, at a position of the toolhead.
AllSet(ms, coord) == [s \in Steppers |-> StepperSet(ms[s], FromCoord(s, coord))]
AllStepped(ms, coord) ==
  [s \in Steppers |-> Stepped(s, ms[s], FromCoord(s, coord))]
Commanded(ms) == [s \in Steppers |-> ms[s].cp]

\* Where the axes are after the motors took some steps; the frame holds them.
Held(a, p) ==
  LET low  == rig.rails[a].min - Room
      high == rig.rails[a].max + Room
  IN  IF p < low THEN low ELSE IF p > high THEN high ELSE p
MovedAt(steps) ==
  LET by == CalcPosition([s \in Steppers |-> StepDist * steps[s]])
  IN  [a \in Axes |-> Held(a, at[a] + by[a])]

Filled(coord) == [a \in Axes |-> IF a \in DOMAIN coord THEN coord[a] ELSE pos[a]]

\* check_move: axes that move do so within their limits.
MoveAllowed(coord) ==
  \A a \in Axes :
     coord[a] # pos[a] =>
       a \in homed /\ coord[a] \in rig.rails[a].min..rig.rails[a].max

-----------------------------------------------------------------------------
(* Commands as operations: `script` is what is left to do.                 *)

Operation(do, axes, coord) == [do |-> do, axes |-> axes, coord |-> coord]
Nowhere == <<>>

Doing(op) == script # <<>> /\ Head(script).do = op
Op == Head(script)

\* An operation ends, with others to be done before the rest.
Continue(others) == script' = others \o Tail(script)

\* An error ends the command, and in_script as well.
Fail ==
  /\ script' = <<>>
  /\ failed' = TRUE
  /\ in_script' = FALSE

\* Mutant: the motors are off and the axes are homed as before.
Unhomed_Off(ms) ==
  /\ homed' = homed
  /\ motors' = [s \in Steppers |-> [ms[s] EXCEPT !.enabled = FALSE]]

\* motor_off: no motor has power and no axis is homed.
Unhomed(ms) ==
  /\ homed' = {}
  /\ motors' = [s \in Steppers |-> [ms[s] EXCEPT !.enabled = FALSE]]

\* manual_move, and a move of g-code.
Go(coord) ==
  /\ motors' = AllStepped(motors, coord)
  /\ at' = MovedAt([s \in Steppers |->
                      (FromCoord(s, coord) - FromCoord(s, pos)) \div StepDist])
  /\ pos' = coord

\* set_position of the toolhead.
SetPosition(ms, coord, homing_axes) ==
  /\ motors' = AllSet(ms, coord)
  /\ pos' = coord
  /\ homed' = homed \cup homing_axes

-----------------------------------------------------------------------------
(* Homing and probing moves.                                               *)

\* What may come of a move of n steps towards an endstop that is hit after k:
\* [trigger, at, halt, error], the latter two for each stepper it stops.  The
\* switch may not be there or be hit before the move begins; a controller may
\* not be heard of, and all motors stop anywhere.
HomingOutcomes(axis, n, k, dead) ==
  LET ss == EndstopSteppers(axis)
      hit(j) == {[trigger |-> TRUE, trig |-> j, error |-> FALSE,
                  halt |-> [s \in ss |-> j + over[s]]] :
                 over \in [ss -> {o \in Overshoots : j + o <= n}]}
      none(j, error) == [trigger |-> FALSE, trig |-> j, error |-> error,
                         halt |-> [s \in ss |-> j]]
  IN  (IF k <= n THEN hit(k) ELSE {none(n, FALSE)})
      \cup (IF dead THEN {none(n, FALSE)} \cup hit(0) ELSE {})
      \cup {none(j, TRUE) : j \in {0, n}}

\* When the endstop of an axis is reached, in steps of a move in direction d.
HitAfter(axis, switch, d) ==
  IF d * (switch - at[axis]) <= 0 THEN 0
  ELSE (d * (switch - at[axis]) + StepDist - 1) \div StepDist

\* How many steps, with their sign, each motor takes when those an endstop
\* stops take `halt` in direction d of the axis.
StepsTaken(axis, halt, d) ==
  [s \in Steppers |->
     IF s \notin DOMAIN halt THEN 0
     ELSE d * halt[s] * (IF rig.kin = "corexy" /\ axis = "y" /\ s = "y"
                         THEN -1 ELSE 1)]

\* The motors after the move to movepos that ended so: the host has made the
\* steps of all of it and then asks for the position.
Halted(ms, axis, movepos, taken) ==
  [s \in Steppers |->
     IF s \in EndstopSteppers(axis)
     THEN Queried(s, [ms[s] EXCEPT
                        !.cp = FromCoord(s, movepos),
                        !.count = @ + Direction(s) * taken[s],
                        !.enabled = TRUE])
     ELSE ms[s]]

\* homing_move with probe_pos unset: the endstop is at movepos by definition,
\* and the steps since it was hit come on top.
HaltPos(axis, movepos, outcome, d) ==
  LET over == [s \in EndstopSteppers(axis) |-> outcome.halt[s] - outcome.trig]
      taken == StepsTaken(axis, over, d)
  IN  IF \A s \in DOMAIN over : over[s] = 0 THEN movepos
      ELSE CalcPosition([s \in Steppers |->
                           FromCoord(s, movepos) + StepDist * taken[s]])

\* Without a second approach nobody notices that the endstop was hit before.
Blind(axis, k) ==
  IF k = 0 /\ rig.rails[axis].retract = 0 THEN {axis} ELSE {}

\* The operation is a homing move of an axis from where it is taken to be.
HomingMove(axis, from, dead, homing_axes, others) ==
  LET rail    == rig.rails[axis]
      start   == Filled(axis :> from)
      movepos == Filled(axis :> rail.endstop)
      d       == Sign(rail.endstop - from)
      n       == Abs(rail.endstop - from) \div StepDist
      begun   == AllSet(motors, start)
      k       == HitAfter(axis, rail.endstop, d)
  IN  \E o \in HomingOutcomes(axis, n, k, dead) :
        LET taken   == StepsTaken(axis, o.halt, d)
            haltpos == HaltPos(axis, movepos, o, d)
            ended   == AllSet(Halted(begun, axis, movepos, taken), haltpos)
            unmoved == homing_axes = {} /\ o.trig = 0
        IN  /\ at' = MovedAt(taken)
            /\ pos' = haltpos
            /\ IF o.error \/ ~o.trigger \/ unmoved
               THEN /\ Unhomed(ended)   \* cmd_G28
                    /\ homing' = {}
                    /\ Fail
               ELSE /\ motors' = ended
                    /\ homed' = homed \cup homing_axes
                    /\ homing' = {axis}
                    /\ Continue(others)
                    /\ UNCHANGED <<failed, in_script>>
            /\ forced' = IF homing_axes = {} THEN forced
                         ELSE (forced \ {axis}) \cup Blind(axis, k)
            /\ refused' = (refused /\ "z" \notin homing_axes)
            /\ UNCHANGED <<rig, commands>>

\* home_rails: an axis is taken to be so far away that it must meet its
\* endstop; it is homed from here on.
FirstHome ==
  /\ Doing("home")
  /\ \E axis \in Op.axes :
       LET rail == rig.rails[axis]
           retract == IF rail.retract = 0 THEN <<>>
                      ELSE <<Operation("retract", {axis}, Nowhere),
                             Operation("second", {axis}, Nowhere)>>
       IN  HomingMove(axis, ForcePos(rail), rail.retract > 0, {axis},
                      retract \o <<Operation("homed", {axis}, Nowhere)>>)

\* It goes back, by the length of the move at the most.
RetractBy(rail) ==
  LET move_d == Abs(rail.endstop - ForcePos(rail))
  IN  IF rail.retract < move_d THEN rail.retract ELSE move_d
RetractPos(rail) == rail.endstop - Towards(rail) * RetractBy(rail)

Retract ==
  /\ Doing("retract")
  /\ \E axis \in Op.axes :
       LET coord == Filled(axis :> RetractPos(rig.rails[axis]))
       IN  IF MoveAllowed(coord)
           THEN /\ Go(coord)
                /\ Continue(<<>>)
                /\ UNCHANGED <<homed, homing, in_script, failed>>
           ELSE /\ Unhomed(motors)
                /\ homing' = {}
                /\ Fail
                /\ UNCHANGED <<pos, at>>
  /\ UNCHANGED <<rig, excused, commands>>

\* The second approach is from twice as far as it went back; an endstop that
\* is hit at once is still triggered.
SecondHome ==
  /\ Doing("second")
  /\ \E axis \in Op.axes :
       LET rail == rig.rails[axis]
       IN  HomingMove(axis, RetractPos(rail) - Towards(rail) * RetractBy(rail),
                      TRUE, {}, <<>>)

Homed ==
  /\ Doing("homed")
  /\ Continue(<<>>)
  /\ homing' = {}
  /\ UNCHANGED <<rig, armVars, in_script, failed, excused, commands>>

\* A probing move: the height where the probe triggered is not known before,
\* it follows from the steps made.
ProbingMove ==
  /\ Doing("probe")
  /\ LET movepos == Filled(Op.coord)
         d == Sign(movepos["z"] - pos["z"])
         n == Abs(movepos["z"] - pos["z"]) \div StepDist
         k == IF d < 0 \/ at["z"] <= 0 THEN HitAfter("z", 0, -1) ELSE n + 1
     IN  IF ~MoveAllowed(movepos)
         THEN /\ motors' = AllSet(motors, CalcPosition(Commanded(motors)))
              /\ pos' = CalcPosition(Commanded(motors))
              /\ Fail
              /\ UNCHANGED at
         ELSE \E o \in HomingOutcomes("z", n, k, FALSE) :
                LET taken == StepsTaken("z", o.halt, d)
                    kin_spos == [s \in Steppers |->
                                   motors[s].cp + StepDist * taken[s]]
                    haltpos == CalcPosition(kin_spos)
                IN  /\ motors' = AllSet(Halted(motors, "z", movepos, taken), haltpos)
                    /\ pos' = haltpos
                    /\ at' = MovedAt(taken)
                    /\ IF o.error \/ ~o.trigger \/ o.trig = 0
                       THEN Fail
                       ELSE Continue(<<>>) /\ UNCHANGED <<in_script, failed>>
  /\ UNCHANGED <<rig, homed, homing, excused, commands>>

-----------------------------------------------------------------------------
(* G28: homing.py, safe_z_home.py and homing_override.py.                  *)

\* cmd_G28 of homing.py: the axes are homed in their order.
Each(axes, do) ==
  LET order == SelectSeq(AxisOrder, LAMBDA a : a \in axes)
  IN  [i \in DOMAIN order |-> Operation(do, {order[i]}, Nowhere)]

PlainG28 ==
  /\ \/ Doing("prev_G28")
     \/ /\ Doing("G28")
        /\ rig.g28 = "plain" \/ (rig.g28 = "override" /\ in_script)
  /\ Continue(Each(Op.axes, "home"))
  /\ UNCHANGED <<rig, armVars, homing, in_script, failed, excused, commands>>

\* cmd_G28 of safe_z_home.py.
SafeZHome ==
  /\ Doing("G28") /\ rig.g28 = "safe_z"
  /\ LET xy == Op.axes \ {"z"}
     IN  Continue(
           (IF rig.hop # 0 THEN <<Operation("hop", {}, Nowhere)>> ELSE <<>>)
           \o (IF xy # {} THEN <<Operation("prev_G28", xy, Nowhere)>> ELSE <<>>)
           \o (IF "z" \in Op.axes THEN <<Operation("safe_z", {}, Nowhere)>>
               ELSE <<>>))
  /\ UNCHANGED <<rig, armVars, homing, in_script, failed, excused, commands>>

HopFits == rig.hop \in rig.rails["z"].min..rig.rails["z"].max

\* The hop: an axis that is not homed is taken to be at 0 for it, and is not
\* homed afterwards - unless the move is refused: then nobody gets to
\* note_z_not_homed, and z counts as homed at 0, wherever it is.
Hop ==
  /\ Doing("hop")
  /\ LET known == "z" \in homed
         from  == IF known THEN pos ELSE Filled("z" :> 0)
         coord == [from EXCEPT !["z"] = rig.hop]
         ms    == IF known THEN motors ELSE AllSet(motors, from)
     IN  IF known /\ pos["z"] >= rig.hop
         THEN Continue(<<>>) /\ UNCHANGED <<armVars, in_script, failed, excused>>
         ELSE IF HopFits
         THEN /\ motors' = AllStepped(ms, coord)
              /\ at' = MovedAt([s \in Steppers |->
                          (FromCoord(s, coord) - FromCoord(s, from)) \div StepDist])
              /\ pos' = coord
              /\ homed' = IF known THEN homed ELSE homed \ {"z"}
              /\ Continue(<<>>)
              /\ UNCHANGED <<in_script, failed, excused>>
         ELSE /\ motors' = ms
              /\ pos' = from
              /\ homed' = homed \cup {"z"}
              /\ refused' = (refused \/ ~known)
              /\ Fail
              /\ UNCHANGED <<at, forced>>
  /\ UNCHANGED <<rig, homing, commands>>

\* The z axis is homed at a place of its own, and all go back if asked to.
SafeZ ==
  /\ Doing("safe_z")
  /\ LET coord == Filled(rig.home_xy)
         prevpos == [a \in {"x", "y"} |-> pos[a]]
         again == Operation("hop_again", {}, Nowhere)
         back == Operation("move", {}, prevpos)
     IN  IF {"x", "y"} \subseteq homed /\ MoveAllowed(coord)
         THEN /\ Go(coord)
              /\ Continue(<<Operation("prev_G28", {"z"}, Nowhere), again>>
                          \o (IF rig.back THEN <<back>> ELSE <<>>))
              /\ UNCHANGED <<in_script, failed>>
         ELSE Fail /\ UNCHANGED <<motors, pos, at>>
  /\ UNCHANGED <<rig, homed, homing, excused, commands>>

HopAgain ==
  /\ Doing("hop_again")
  /\ Continue(IF rig.hop # 0 /\ pos["z"] < rig.hop
              THEN <<Operation("move", {}, "z" :> rig.hop)>> ELSE <<>>)
  /\ UNCHANGED <<rig, armVars, homing, in_script, failed, excused, commands>>

\* cmd_G28 of homing_override.py: the axes of set_position_* are declared and
\* the script is run, in which G28 is the plain one.
Override ==
  /\ Doing("G28") /\ rig.g28 = "override" /\ ~in_script
  /\ IF Op.axes = Axes \/ Op.axes \cap rig.override # {}
     THEN \E s \in Scripts :
            /\ SetPosition(motors, Filled(rig.start), DOMAIN rig.start)
            /\ in_script' = TRUE
            /\ Continue(s \o <<Operation("leave", {}, Nowhere)>>)
            /\ forced' = forced \cup DOMAIN rig.start
            /\ UNCHANGED <<at, refused>>
     ELSE /\ Continue(<<Operation("prev_G28", Op.axes, Nowhere)>>)
          /\ UNCHANGED <<armVars, in_script, excused>>
  /\ UNCHANGED <<rig, homing, failed, commands>>

Leave ==
  /\ Doing("leave")
  /\ in_script' = FALSE
  /\ Continue(<<>>)
  /\ UNCHANGED <<rig, armVars, homing, failed, excused, commands>>

-----------------------------------------------------------------------------
(* Other commands.                                                         *)

GCodeGo ==
  /\ Doing("move")
  /\ LET coord == Filled(Op.coord)
     IN  IF MoveAllowed(coord)
         THEN Go(coord) /\ Continue(<<>>) /\ UNCHANGED <<in_script, failed>>
         ELSE Fail /\ UNCHANGED <<motors, pos, at>>
  /\ UNCHANGED <<rig, homed, homing, excused, commands>>

\* manual_move of force_move.py: the stepper is moved with other kinematics,
\* that have it at 0, and gets its own back, which know nothing of the move.
ForceMoved(s, st, dist) ==
  WithKinematics(
    Stepped(s, StepperSet(WithKinematics(st, "force", 0), 0), dist), "own", st.cp)
ForcedBy(s, dist) ==
  MovedAt([t \in Steppers |-> IF t = s THEN dist \div StepDist ELSE 0])

\* FORCE_MOVE, STEPPER_BUZZ: forth and back; a motor that was off is again.
ForceMove ==
  /\ Doing("force")
  /\ \E s \in Op.axes :
       /\ motors' = [motors EXCEPT ![s] = ForceMoved(s, @, 4)]
       /\ at' = ForcedBy(s, 4)
       /\ forced' = forced \cup EndstopSteppers(s)
  /\ Continue(<<>>)
  /\ UNCHANGED <<rig, pos, homed, homing, in_script, failed, refused, commands>>

StepperBuzz ==
  /\ Doing("buzz")
  /\ \E s \in Op.axes :
       motors' = [motors EXCEPT ![s] =
                    [ForceMoved(s, ForceMoved(s, @, 4), -4) EXCEPT
                       !.enabled = motors[s].enabled]]
  /\ Continue(<<>>)
  /\ UNCHANGED <<rig, pos, at, homed, homing, in_script, failed, excused, commands>>

\* SET_KINEMATIC_POSITION declares all axes homed.
SetKinematicPosition ==
  /\ Doing("declare")
  /\ SetPosition(motors, Filled(Op.coord), Axes)
  /\ forced' = Axes
  /\ Continue(<<>>)
  /\ UNCHANGED <<rig, at, homing, in_script, failed, refused, commands>>

M84 ==
  /\ Doing("off")
  /\ Unhomed(motors)
  /\ Continue(<<>>)
  /\ UNCHANGED <<rig, pos, at, homing, in_script, failed, excused, commands>>

\* SET_STEPPER_ENABLE: the limits are left as they are, so axes whose motor
\* has no power any more are still homed.
SetStepperEnable ==
  /\ Doing("enable")
  /\ \E s \in Op.axes, on \in BOOLEAN :
       /\ motors' = [motors EXCEPT ![s].enabled = on]
       /\ forced' = forced \cup (IF on THEN {} ELSE EndstopSteppers(s))
  /\ Continue(<<>>)
  /\ UNCHANGED <<rig, pos, homed, at, homing, in_script, failed, refused, commands>>

\* A g-code command.
GCodes ==
  {Operation("G28", axes, Nowhere) : axes \in Requests}
  \cup {Operation("move", {}, t) : t \in MoveTargets}
  \cup {Operation("declare", {}, t) : t \in MoveTargets}
  \cup {Operation("probe", {}, "z" :> 0), Operation("off", {}, Nowhere)}
  \cup {Operation(do, {s}, Nowhere) : do \in {"force", "buzz", "enable"},
                                      s \in Steppers}
RailCommand ==
  /\ script = <<>>
  /\ commands < MaxRailCommands
  /\ \E op \in GCodes : script' = <<op>>
  /\ commands' = commands + 1
  /\ failed' = FALSE
  /\ UNCHANGED <<rig, armVars, homing, in_script, excused>>

\* Somebody pushes an axis whose motors are not all on.
Push ==
  /\ script = <<>> /\ commands <= MaxRailCommands
  /\ \E a \in Axes, by \in Pushes :
       /\ \E s \in EndstopSteppers(a) : ~motors[s].enabled
       /\ at' = [at EXCEPT ![a] = Held(a, @ + by)]
  /\ commands' = commands + 1
  /\ UNCHANGED <<rig, motors, pos, homed, script, homing, in_script, failed,
                 excused>>

\* A configuration.
RailOf == [min : Int, max : Int, endstop : Int, asked : {Unset, "yes", "no"},
           retract : Nat]
RailSetup(setup) ==
  /\ setup.kin \in {"cartesian", "corexy"} /\ setup.inverted \subseteq Steppers
  /\ \A a \in Axes : /\ setup.rails[a] \in RailOf
                     /\ ForcePos(setup.rails[a]) # setup.rails[a].endstop
  /\ setup.g28 \in {"plain", "safe_z", "override"}

RailInit ==
  /\ rig \in RailSetups /\ RailSetup(rig)
  /\ motors \in [Steppers -> {[cp |-> 0, offset |-> 0, sk |-> "own",
                               count |-> 0, enabled |-> FALSE]}]
  /\ pos = [a \in Axes |-> 0]
  /\ at \in Beginnings
  /\ homed = {} /\ homing = {} /\ forced = {} /\ refused = FALSE
  /\ script = <<>> /\ in_script = FALSE /\ failed = FALSE
  /\ commands = 0

RailNext ==
  \/ RailCommand \/ Push
  \/ PlainG28 \/ SafeZHome \/ Override \/ Leave
  \/ FirstHome \/ Retract \/ SecondHome \/ Homed
  \/ Hop \/ SafeZ \/ HopAgain
  \/ GCodeGo \/ ProbingMove
  \/ ForceMove \/ StepperBuzz \/ SetKinematicPosition \/ M84 \/ SetStepperEnable

-----------------------------------------------------------------------------
(* ManualStepper: moves beside those of the toolhead.                      *)

Later(a, b) == IF a > b THEN a ELSE b

\* sync_print_time: whichever is behind catches up.
Synced == Later(next_cmd_time, print_time)

ManualDone(next, sync) ==
  /\ next_cmd_time' = IF sync THEN Later(next, Synced) ELSE next
  /\ print_time' = IF sync THEN Later(next, Synced) ELSE Synced
  /\ waits' = sync
  /\ manual_steps' = manual_steps + 1

MoveFrom(from, to) ==
  manual_moves' = manual_moves \cup {[from |-> from, to |-> to, issued |-> print_time]}

\* do_move
ManualMove ==
  \E length \in 1..3, sync \in BOOLEAN :
    /\ MoveFrom(Synced, Synced + length)
    /\ ManualDone(Synced + length, sync)
    /\ UNCHANGED switched

\* do_homing_move: homing_move with the stepper as the toolhead; the move
\* begins after HOMING_START_DELAY.
ManualHome ==
  \E length \in 1..3 :
    /\ MoveFrom(Synced + 1, Synced + 1 + length)
    /\ ManualDone(Synced + 1 + length, TRUE)
    /\ UNCHANGED switched

\* do_enable, and SYNC=1 alone.
ManualEnable ==
  /\ switched' = switched \cup {Synced}
  /\ ManualDone(Synced, TRUE)
  /\ UNCHANGED manual_moves
ManualSync ==
  /\ ManualDone(Synced, TRUE)
  /\ UNCHANGED <<switched, manual_moves>>

\* The toolhead moves.
ToolheadGoes ==
  \E length \in 1..2 :
    /\ print_time' = print_time + length
    /\ manual_steps' = manual_steps + 1
    /\ waits' = FALSE
    /\ UNCHANGED <<next_cmd_time, manual_moves, switched>>

ManualInit ==
  /\ print_time = 0 /\ next_cmd_time = 0
  /\ manual_moves = {} /\ switched = {} /\ waits = FALSE
  /\ manual_steps = 0
ManualNext ==
  /\ manual_steps < MaxManual
  /\ ManualMove \/ ManualHome \/ ManualEnable \/ ManualSync \/ ToolheadGoes

-----------------------------------------------------------------------------
(* Properties.                                                             *)

\* An axis that the printer calls homed is where the printer has it, whatever
\* came of homing and probing moves of it and of the others and whoever pushed
\* it, unless somebody declared its place, moved its motor alone or took that
\* motor's power alone (SET_STEPPER_ENABLE). M84 and an error of homing take
\* the place from all axes. And one line breaks it: a hop that was refused
\* leaves z homed at 0 (safe_z_home.py:40-44), until z is homed.
HomedKnown ==
  \A a \in homed \ (forced \cup homing) :
    pos[a] = at[a] \/ (refused /\ a = "z")

\* That happens only to a printer whose hop goes beyond its z axis.
RefusedHop == refused => rig.g28 = "safe_z" /\ ~HopFits

\* The host has the count of every stepper that its controller has, whichever
\* kinematics drove it and wherever its axis was declared to be.
CountKnown ==
  \A s \in Steppers :
    motors[s].sk = "own" /\ McuPosition(motors[s]) = Direction(s) * motors[s].count

\* The kinematics have the motors where they have the axes.
KinematicsAgree ==
  \A s \in Steppers : motors[s].cp = FromCoord(s, pos)

\* G-code that failed has left nothing behind: the override is not running.
OverrideEnds == script = <<>> => ~in_script /\ homing = {}

\* Every rail that its configuration allows reaches its endstop when it homes,
\* from anywhere in its range, and homes a positive length.
RailsReach ==
  \A min \in {-4, 0}, len \in 1..8, end \in -1..9, asked \in {Unset, "yes", "no"} :
    LET rail == [min |-> min, max |-> min + 4 * len, endstop |-> min + 4 * end,
                 asked |-> asked, retract |-> 0]
        dir  == HomingPositiveDir(rail.min, rail.max, rail.endstop, asked)
    IN  dir # "error" =>
          /\ Abs(rail.endstop - ForcePos(rail)) > 0
          /\ \A p \in rail.min..rail.max :
               Towards(rail) * (rail.endstop - p) <= Abs(rail.endstop - ForcePos(rail))

\* The moves of a manual stepper follow each other and never begin before those
\* of the toolhead that were planned, its motor is switched between them, and
\* whoever asked to wait for one waits.
ManualInOrder ==
  /\ \A m1, m2 \in manual_moves :
       m1 # m2 => m1.to <= m2.from \/ m2.to <= m1.from
  /\ \A m \in manual_moves :
       /\ m.from >= m.issued
       /\ \A t \in switched : t <= m.from \/ t >= m.to
       /\ waits => print_time >= m.to

RailsSound ==
  /\ HomedKnown /\ RefusedHop /\ CountKnown /\ KinematicsAgree /\ OverrideEnds
  /\ RailsReach /\ ManualInOrder
=============================================================================
