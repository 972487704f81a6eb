---------------------------- MODULE ExcludeObject ----------------------------
(***************************************************************************)
(* software/exclude_object.py: objects of a print are left out while it    *)
(* runs.  The module is a move transform between g-code and the toolhead   *)
(* from the first exclusion on: moves of an excluded object are dropped,   *)
(* and what they would have moved is kept as an offset until g-code is     *)
(* back among the objects that are printed.                                *)
(*                                                                         *)
(* X stands for X and Y; there are one extruder and one layer of numbers.  *)
(* The tuning tower is off.  Lists of objects, the reports and the pauses  *)
(* of 5 and 10 ms are left out.                                            *)
(***************************************************************************)
EXTENDS Integers

CONSTANTS
  Objects,         \* names of objects
  NoObject,        \* None
  InitialMoves,    \* 5 in the code: extrusions watched before moves are dropped
  LastX, LastZ,    \* positions are 0..LastX, 0..LastZ
  LastE,           \* filament that may be pushed, for TLC
  MaxRegions       \* bound of the excluded regions entered, for TLC

ASSUME ExcludeAssumption == InitialMoves \in Nat \ {0} /\ NoObject \notin Objects

VARIABLES
  excluded_objects, current_object, in_excluded_region,
  transforming,               \* next_transform is set
  offset,                   \* extrusion_offsets of the extruder
  at_gcode,                 \* last_position, as in gcode_move
  last_extruded,            \* last_position_extruded
  last_excluded,            \* last_position_excluded
  max_extruded, max_excluded,
  extruder_adj, initial_extrusion_moves,
  nozzle,                   \* position of the transform below, toolhead
  (* history *)
  pushed,                   \* highest E of the toolhead
  wanted_e,                 \* highest E of g-code
  back,                     \* g-code has moved in X since the last region
  regions                   \* excluded regions entered

objectVars == <<excluded_objects, current_object, in_excluded_region>>
trackVars == <<offset, last_extruded, last_excluded, max_extruded,
               max_excluded, extruder_adj, initial_extrusion_moves>>
exHistory == <<pushed, wanted_e, back, regions>>
excludeVars ==
  <<objectVars, transforming, trackVars, at_gcode, nozzle, exHistory>>

Place == [x : 0..LastX, z : 0..LastZ, e : 0..LastE]
Start == [x |-> 0, z |-> 0, e |-> 0]

Top(a, b) == IF a > b THEN a ELSE b

ExcludeInit ==
  /\ excluded_objects = {} /\ current_object = NoObject
  /\ in_excluded_region = FALSE /\ transforming = FALSE
  /\ offset = Start /\ at_gcode = Start /\ last_extruded = Start
  /\ last_excluded = Start /\ max_extruded = 0 /\ max_excluded = 0
  /\ extruder_adj = 0 /\ initial_extrusion_moves = InitialMoves
  /\ nozzle = Start
  /\ pushed = 0 /\ wanted_e = 0 /\ back = TRUE /\ regions = 0

-----------------------------------------------------------------------------
(* Commands.                                                               *)

\* cmd_EXCLUDE_OBJECT_START and cmd_EXCLUDE_OBJECT_END
SetCurrent ==
  /\ current_object' \in Objects \union {NoObject}
  /\ UNCHANGED <<excluded_objects, in_excluded_region, transforming, trackVars,
                 at_gcode, nozzle, exHistory>>

\* _register_transform, once
Register ==
  IF transforming THEN UNCHANGED <<transforming, trackVars>>
  ELSE /\ transforming' = TRUE
       /\ offset' = Start /\ max_extruded' = 0 /\ max_excluded' = 0
       /\ extruder_adj' = 0 /\ initial_extrusion_moves' = InitialMoves
       /\ last_extruded' = nozzle /\ last_excluded' = nozzle

\* cmd_EXCLUDE_OBJECT with a name or CURRENT
Exclude ==
  /\ \E o \in Objects \ excluded_objects :
       excluded_objects' = excluded_objects \union {o}
  /\ Register
  /\ UNCHANGED <<current_object, in_excluded_region, at_gcode, nozzle,
                 exHistory>>

\* cmd_EXCLUDE_OBJECT RESET, of one object or of all
Unexclude ==
  /\ \/ \E o \in excluded_objects : excluded_objects' = excluded_objects \ {o}
     \/ excluded_objects' = {}
  /\ UNCHANGED <<current_object, in_excluded_region, transforming, trackVars,
                 at_gcode, nozzle, exHistory>>

\* _reset_file: another file is loaded, or EXCLUDE_OBJECT_DEFINE RESET.  What
\* it leaves behind is overwritten by the next Register before it is read.
ResetFile ==
  /\ excluded_objects' = {} /\ current_object' = NoObject
  /\ in_excluded_region' = FALSE /\ transforming' = FALSE
  /\ at_gcode' = nozzle
  /\ pushed' = 0 /\ wanted_e' = 0 /\ back' = TRUE
  /\ offset' = Start /\ last_extruded' = Start /\ last_excluded' = Start
  /\ max_extruded' = 0 /\ max_excluded' = 0 /\ extruder_adj' = 0
  /\ initial_extrusion_moves' = InitialMoves
  /\ UNCHANGED <<nozzle, regions>>

-----------------------------------------------------------------------------
(* Moves.                                                                  *)

\* The rest of _normal_move, with the adjustment adj.  Mutant: the offset of
\* Z is only made good by a move in Z.
OffsetAfter_ZLate(p, adj) ==
  LET all == offset.x # 0 /\ p.x # last_excluded.x IN
  [x |-> IF all THEN 0 ELSE offset.x,
   z |-> IF p.z # last_excluded.z THEN 0 ELSE offset.z,
   e |-> IF all \/ p.e # last_excluded.e THEN offset.e + adj ELSE offset.e]

OffsetAfter(p, adj) ==
  LET all == offset.x # 0 /\ p.x # last_excluded.x IN
  [x |-> IF all THEN 0 ELSE offset.x,
   z |-> IF all \/ p.z # last_excluded.z THEN 0 ELSE offset.z,
   e |-> IF all \/ p.e # last_excluded.e THEN offset.e + adj ELSE offset.e]

AdjustedAfter(p, adj) ==
  IF (offset.x # 0 /\ p.x # last_excluded.x) \/ p.e # last_excluded.e
  THEN 0 ELSE adj

NormalMove(p, adj) ==
  /\ initial_extrusion_moves' =
       IF initial_extrusion_moves > 0 /\ at_gcode.e # p.e
       THEN initial_extrusion_moves - 1 ELSE initial_extrusion_moves
  /\ at_gcode' = p /\ last_extruded' = p
  /\ max_extruded' = Top(max_extruded, p.e)
  /\ offset' = OffsetAfter(p, adj) /\ extruder_adj' = AdjustedAfter(p, adj)
  /\ nozzle' = [x |-> p.x - offset'.x, z |-> p.z - offset'.z,
                e |-> p.e - offset'.e]
  /\ UNCHANGED <<last_excluded, max_excluded>>

\* _ignore_move
IgnoreMove(p) ==
  /\ offset' = [x |-> p.x - last_extruded.x, z |-> p.z - last_extruded.z,
                e |-> offset.e + p.e - at_gcode.e]
  /\ at_gcode' = p /\ last_excluded' = p
  /\ max_excluded' = Top(max_excluded, p.e)
  /\ UNCHANGED <<last_extruded, max_extruded, extruder_adj,
                 initial_extrusion_moves, nozzle>>

TestInExcludedRegion ==
  current_object \in excluded_objects /\ initial_extrusion_moves = 0

\* Mutant: the retraction of the objects that are printed is not counted.
Adjustment_OneSided == max_excluded - last_excluded.e

\* _move_from_excluded_region
Adjustment ==
  max_excluded - last_excluded.e - (max_extruded - last_extruded.e)

\* A move that the toolhead makes without the transform
PlainMove(p) == at_gcode' = p /\ nozzle' = p /\ UNCHANGED trackVars

\* What slicers write, and TLC is bound to: g-code has moved in X between two
\* regions, and extruded before the first of them; a region extrudes, and does
\* not end where it began.
Entering == back /\ max_extruded = wanted_e

Leaving ==
  /\ max_excluded = wanted_e /\ max_excluded > max_extruded
  /\ last_excluded.x # last_extruded.x

\* move
MoveAt ==
  \E p \in Place :
    /\ p # at_gcode /\ p.e - at_gcode.e \in -1..2
    /\ in_excluded_region' = (transforming /\ TestInExcludedRegion)
    /\ in_excluded_region' /\ ~in_excluded_region => Entering
    /\ in_excluded_region /\ ~in_excluded_region' => Leaving
    /\ IF ~transforming THEN PlainMove(p)
       ELSE IF in_excluded_region' THEN IgnoreMove(p)
       ELSE NormalMove(p, IF in_excluded_region THEN Adjustment
                          ELSE extruder_adj)
    /\ regions' = IF in_excluded_region' /\ ~in_excluded_region
                  THEN regions + 1 ELSE regions
    /\ regions' <= MaxRegions
    /\ pushed' = Top(pushed, nozzle'.e) /\ wanted_e' = Top(wanted_e, p.e)
    /\ back' = (~in_excluded_region' /\ (back \/ p.x # last_excluded.x))
    /\ UNCHANGED <<excluded_objects, current_object, transforming>>

ExcludeNext ==
  SetCurrent \/ Exclude \/ Unexclude \/ ResetFile \/ MoveAt

ExcludeSpec == ExcludeInit /\ [][ExcludeNext]_excludeVars

-----------------------------------------------------------------------------
(* Properties.                                                             *)

\* Once g-code has left an excluded region and moved on in X, the nozzle is
\* where g-code wants it in X and Z, and as far retracted as g-code takes it
\* to be, however many regions there were before (exclude_object.py:112-160).
BackOnTrack ==
  back =>
    /\ nozzle.x = at_gcode.x /\ nozzle.z = at_gcode.z
    /\ transforming => pushed - nozzle.e = wanted_e - at_gcode.e
=============================================================================
