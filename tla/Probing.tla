------------------------------- MODULE Probing -------------------------------
(***************************************************************************)
(* extras/probe.py: the probe is lowered by a script before it touches the *)
(* bed and raised by another.  With deactivate_on_each_sample it is so for *)
(* each sample; otherwise it stays lowered from the first sample of a      *)
(* session, or of homing, to the end of it.  Every script, move and        *)
(* command may fail; the event gcode:command_error has to tidy up.         *)
(*                                                                         *)
(* One command runs at a time (the g-code mutex).  Heights are left out: a *)
(* sample agrees with those before it or it does not.                      *)
(***************************************************************************)
EXTENDS Integers

CONSTANTS
  Samples,     \* samples of a point
  Retries,     \* samples_tolerance_retries
  Points       \* points of start_probe

ASSUME ProbingAssumption ==
  Samples \in Nat \ {0} /\ Retries \in Nat /\ Points \in Nat \ {0}

VARIABLES
  command,         \* what runs: "none", "home", "single", "points"
  probe_phase,           \* where it is
  failing,         \* homing_move has an error to report
  multi,           \* ProbeEndstopWrapper.multi
  stow_on_each_sample,
  homing_pending,  \* HomingViaProbeHelper.multi_probe_pending
  session_pending, \* ProbeSessionHelper.multi_probe_pending
  results, positions, retries, probe_num,
  lowered,         \* the probe is down
  script_failed    \* history: the last script to run failed

countVars == <<results, positions, retries, probe_num>>
probeVars == <<command, probe_phase, failing, multi, stow_on_each_sample,
               homing_pending, session_pending, countVars, lowered,
               script_failed>>

ProbingInit ==
  /\ command = "none" /\ probe_phase = "idle" /\ failing = FALSE
  /\ multi = "OFF" /\ stow_on_each_sample \in BOOLEAN
  /\ homing_pending = FALSE /\ session_pending = FALSE
  /\ results = 0 /\ positions = 0 /\ retries = 0 /\ probe_num = 0
  /\ lowered = FALSE /\ script_failed = FALSE

-----------------------------------------------------------------------------
(* Scripts and errors.                                                     *)

\* _lower_probe and _raise_probe: the script does its work, or fails somewhere.
Script(down, worked) ==
  /\ lowered' \in IF worked THEN {down} ELSE {lowered, down}
  /\ script_failed' = ~worked

\* multi_probe_begin
MultiProbeBegin ==
  multi' = IF stow_on_each_sample THEN multi ELSE "FIRST"

\* multi_probe_end
MultiProbeEnd(worked) ==
  IF stow_on_each_sample THEN worked /\ UNCHANGED <<multi, lowered, script_failed>>
  ELSE /\ Script(FALSE, worked)
       /\ multi' = IF worked THEN "OFF" ELSE multi

\* Mutant: only a session is ended by an error.
Unfinished_Session == session_pending

\* What _handle_command_error of the two helpers has to end.
Unfinished == homing_pending \/ session_pending

\* A command fails: the event gcode:command_error.  A script that fails has
\* sent the event itself by then.
CommandError ==
  /\ probe_phase = "error"
  /\ command' = "none" /\ probe_phase' = "idle" /\ failing' = FALSE
  /\ homing_pending' = (homing_pending /\ ~Unfinished)
  /\ session_pending' = (session_pending /\ ~Unfinished)
  /\ IF Unfinished THEN \E worked \in BOOLEAN : MultiProbeEnd(worked)
     ELSE UNCHANGED <<multi, lowered, script_failed>>
  /\ results' = IF session_pending THEN 0 ELSE results
  /\ UNCHANGED <<stow_on_each_sample, positions, retries, probe_num>>

\* Anything else of the command fails.  Errors of the move towards the bed are
\* kept until its end was reported, see MoveEnds.
Fails ==
  /\ probe_phase \in {"begin", "sampled", "probed"}
  /\ probe_phase' = "error"
  /\ UNCHANGED <<command, failing, multi, stow_on_each_sample, homing_pending,
                 session_pending, countVars, lowered, script_failed>>

-----------------------------------------------------------------------------
(* One move towards the bed: homing_move.                                  *)

\* homing_move_begin: probe_prepare
ProbePrepare ==
  /\ probe_phase = "begin"
  /\ IF multi = "ON"
     THEN probe_phase' = "move" /\ UNCHANGED <<multi, lowered, script_failed>>
     ELSE \E worked \in BOOLEAN :
            /\ Script(TRUE, worked)
            /\ probe_phase' = IF worked THEN "move" ELSE "error"
            /\ multi' = IF worked /\ multi = "FIRST" THEN "ON" ELSE multi
  /\ UNCHANGED <<command, failing, stow_on_each_sample, homing_pending,
                 session_pending, countVars>>

\* The move ends, with an error or without.
MoveEnds ==
  /\ probe_phase = "move" /\ probe_phase' = "finish" /\ failing' \in BOOLEAN
  /\ UNCHANGED <<command, multi, stow_on_each_sample, homing_pending,
                 session_pending, countVars, lowered, script_failed>>

\* homing_move_end, which is sent after an error, too: probe_finish
ProbeFinish ==
  /\ probe_phase = "finish"
  /\ \E worked \in BOOLEAN :
       /\ IF multi = "OFF" THEN Script(FALSE, worked)
          ELSE worked /\ UNCHANGED <<lowered, script_failed>>
       /\ probe_phase' = IF failing \/ ~worked THEN "error" ELSE "sampled"
  /\ UNCHANGED <<command, failing, multi, stow_on_each_sample, homing_pending,
                 session_pending, countVars>>

-----------------------------------------------------------------------------
(* Commands.                                                               *)

\* G28 over the virtual endstop: home_rails_begin
HomeBegins ==
  /\ command = "none" /\ command' = "home" /\ probe_phase' = "begin"
  /\ MultiProbeBegin /\ homing_pending' = TRUE
  /\ UNCHANGED <<failing, stow_on_each_sample, session_pending, countVars,
                 lowered, script_failed>>

\* The second homing move, or home_rails_end
HomeGoesOn ==
  /\ command = "home" /\ probe_phase = "sampled"
  /\ \/ /\ probe_phase' = "begin"
        /\ UNCHANGED <<command, homing_pending, multi, lowered, script_failed>>
     \/ \E worked \in BOOLEAN :
          /\ homing_pending' = FALSE
          /\ MultiProbeEnd(worked)
          /\ \/ worked /\ probe_phase' = "idle" /\ command' = "none"
             \/ ~worked /\ probe_phase' = "error" /\ UNCHANGED command
  /\ UNCHANGED <<failing, stow_on_each_sample, session_pending, countVars>>

\* start_probe_session: of run_single_probe or start_probe
SessionBegins ==
  /\ command = "none" /\ command' \in {"single", "points"}
  /\ \/ session_pending /\ probe_phase' = "error"
        /\ UNCHANGED <<multi, session_pending, results>>
     \/ ~session_pending /\ probe_phase' = "begin"
        /\ MultiProbeBegin /\ session_pending' = TRUE /\ results' = 0
  /\ positions' = 0 /\ retries' = 0 /\ probe_num' = 0
  /\ UNCHANGED <<failing, stow_on_each_sample, homing_pending, lowered,
                 script_failed>>

\* The loop of run_probe after a sample, and results.append
RunProbe ==
  /\ command # "home" /\ probe_phase = "sampled"
  /\ \/ /\ positions > 0
        /\ \/ retries >= Retries /\ probe_phase' = "error"
              /\ UNCHANGED <<positions, retries, results, probe_num>>
           \/ retries < Retries /\ probe_phase' = "begin"
              /\ positions' = 0 /\ retries' = retries + 1
              /\ UNCHANGED <<results, probe_num>>
     \/ /\ positions + 1 < Samples /\ probe_phase' = "begin"
        /\ positions' = positions + 1
        /\ UNCHANGED <<retries, results, probe_num>>
     \/ /\ positions + 1 >= Samples /\ probe_phase' = "probed"
        /\ positions' = 0 /\ retries' = 0
        /\ results' = results + 1 /\ probe_num' = probe_num + 1
  /\ UNCHANGED <<command, failing, multi, stow_on_each_sample, homing_pending,
                 session_pending, lowered, script_failed>>

\* The next point of start_probe, or all of them again when the callback wants
\* them; pull_probed_results
NextPoint ==
  /\ command = "points" /\ probe_phase = "probed" /\ probe_phase' = "begin"
  /\ \/ probe_num < Points /\ UNCHANGED <<results, probe_num>>
     \/ probe_num = Points /\ results' = 0 /\ probe_num' = 0
  /\ UNCHANGED <<command, failing, multi, stow_on_each_sample, homing_pending,
                 session_pending, positions, retries, lowered, script_failed>>

\* end_probe_session, after pull_probed_results
SessionEnds ==
  /\ probe_phase = "probed" /\ (command = "points" => probe_num = Points)
  /\ session_pending' = FALSE /\ results' = 0
  /\ \E worked \in BOOLEAN :
       /\ MultiProbeEnd(worked)
       /\ \/ worked /\ probe_phase' = "idle" /\ command' = "none"
          \/ ~worked /\ probe_phase' = "error" /\ UNCHANGED command
  /\ UNCHANGED <<failing, stow_on_each_sample, homing_pending, positions,
                 retries, probe_num>>

ProbingNext ==
  \/ CommandError \/ Fails \/ ProbePrepare \/ MoveEnds \/ ProbeFinish
  \/ HomeBegins \/ HomeGoesOn \/ SessionBegins \/ RunProbe \/ NextPoint
  \/ SessionEnds

ProbingSpec == ProbingInit /\ [][ProbingNext]_probeVars

-----------------------------------------------------------------------------
(* Properties.                                                             *)

\* The bed is only touched with the probe down; there is a result for each
\* point; and whatever failed, the next command finds no session of the last
\* one and, unless the last script failed, the probe up (probe.py:217-230,
\* 268-291, 524-557).
ProbeSound ==
  /\ probe_phase = "move" => lowered
  /\ probe_phase = "probed" => results = probe_num
  /\ command = "none" =>
       /\ ~session_pending /\ ~homing_pending
       /\ ~script_failed => ~lowered /\ multi = "OFF"
=============================================================================
