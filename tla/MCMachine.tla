----------------------------- MODULE MCMachine ------------------------------
(***************************************************************************)
(* The machine, for TLC: the print job its users and the material station  *)
(* work on, the motors' drivers, the mesh of the bed and the compression   *)
(* of steps. No part shares state with another in these models: a          *)
(* behaviour picks one and runs it, while the variables of the others keep *)
(* their first values. The reachable states are those of the parts, one    *)
(* after the other, and never a product of two of them.                    *)
(***************************************************************************)
EXTENDS PrintJob, Drivers, BedMesh, StepCompress

LOCAL INSTANCE TLC

CONSTANTS s1, s2   \* the steppers

\* A file that ends with a change of filament; clients differ in nothing but
\* their names.
FullFile == << "move", "fail", "jump", "pause", "T1" >>
ClientSymmetry == Permutations(Clients)

BothSteppers == <<s1, s2>>

\* Beds that are slopes, with every kind of mesh and of zero reference, faulty
\* regions and a round bed; a height of 480 is a millimetre.
Section(round, from, to, cnt, pps, algo, faulty, zero, fade_end) ==
  [radius |-> round, min |-> from, max |-> to, cnt |-> cnt, pps |-> pps,
   algo |-> algo, tension |-> 2, faulty |-> faulty, zero |-> zero,
   fade_start |-> 480 * 8, fade_end |-> fade_end, fade_target |-> 0]
Area(from, to) == [min |-> from, max |-> to]
BedSections == {
  Section(0, <<0, 0>>, <<120, 80>>, <<4, 5>>, <<1, 1>>, "bicubic", {}, <<40, 20>>, 480 * 88),
  Section(0, <<0, 0>>, <<120, 80>>, <<3, 3>>, <<1, 2>>, "lagrange", {}, <<200, 0>>, 480 * 88),
  Section(0, <<0, 0>>, <<120, 80>>, <<4, 3>>, <<0, 0>>, "lagrange",
          {Area(<<70, 30>>, <<90, 50>>), Area(<<-10, -10>>, <<10, 10>>)}, <<200, 0>>, 0),
  Section(40, <<-40, -40>>, <<40, 40>>, <<5, 5>>, <<1, 1>>, "lagrange",
          {Area(<<-30, -30>>, <<-10, 10>>)}, <<20, 0>>, 0)}
MeshRequests == {
  <<>>, [manual |-> TRUE], [min |-> <<30, 40>>], [pps |-> <<0, 0>>],
  [cnt |-> <<3, 3>>], [cnt |-> <<7, 5>>], [radius |-> 31],
  [objects |-> Area(<<30, -10>>, <<90, 40>>)]}
Slope(x, y) == 48 * x + 96 * y
MeshTargets == {<<0, 0, 0>>, <<40, 40, 480 * 48>>,
                <<120, 80, 480 * 200>>, <<120, 80, 480 * 68>>}
ProbeAt == <<20, -10, 480>>

\* One stepper alone with long pauses and turns, with a homing in between, with
\* runs of many steps; and two that share the room of the move queue.
StepPlans == {
  [steps |-> s1 :> 3 @@ s2 :> 0, gaps |-> {2, 3, 70}, dirs |-> {0, 1}, also |-> {"homing"}],
  [steps |-> s1 :> 2 @@ s2 :> 0, gaps |-> {2, 3}, dirs |-> {0, 1}, also |-> {"homing", "commit"}],
  [steps |-> s1 :> 6 @@ s2 :> 0, gaps |-> {2, 3}, dirs |-> {1}, also |-> {}],
  [steps |-> s1 :> 3 @@ s2 :> 2, gaps |-> {2, 13}, dirs |-> {1}, also |-> {}]}

VARIABLE part   \* the part a behaviour runs

Parts == {"print", "drivers", "mesh", "steps"}

\* Parts that begin in several ways begin in one of them when another is run.
MachineInit ==
  /\ part \in Parts
  /\ Init /\ DriversInit /\ BedMeshInit /\ StepsInit
  /\ part # "drivers" => unsure = {}
  /\ part # "mesh" => setup = CHOOSE o \in Setups : TRUE
  /\ part # "steps" => plan = CHOOSE p \in Plans : TRUE

\* The other parts rest.
OthersRest ==
  /\ UNCHANGED part
  /\ part # "print" => UNCHANGED vars
  /\ part # "drivers" => UNCHANGED driverVars
  /\ part # "mesh" => UNCHANGED bedMeshVars
  /\ part # "steps" => UNCHANGED stepVars

MachineNext ==
  \/ part = "print" /\ Next /\ OthersRest
  \/ part = "drivers" /\ DriversNext /\ OthersRest
  \/ part = "mesh" /\ BedMeshNext /\ OthersRest
  \/ part = "steps" /\ StepsNext /\ OthersRest

MachineVars ==
  <<part, vars, driverVars, bedMeshVars, stepVars>>

MachineSpec == MachineInit /\ [][MachineNext]_MachineVars

-----------------------------------------------------------------------------
(* Properties of parts that belong together.                               *)

\* What moves the machine: no motor without a sound driver, no move over a mesh
\* that is not the bed's, no step that is lost, late or too many for the queue.
MachineSound == DriversSound /\ BedMeshSound /\ StepsSound /\ QueueFits
=============================================================================
