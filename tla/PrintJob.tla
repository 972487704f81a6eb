------------------------------ MODULE PrintJob ------------------------------
(***************************************************************************)
(* A print from the virtual sdcard: the worker greenlet that feeds lines   *)
(* of the file to the g-code dispatcher (virtual_sdcard.py as installed by *)
(* the AD5X software update), pause_resume.py, print_stats.py, the g-code  *)
(* mutex, and the greenlets that pause, resume and cancel the print while  *)
(* it runs.                                                                *)
(*                                                                         *)
(* Greenlets switch only where the code waits (reactor.pause, the mutex,   *)
(* a command that takes time), so everything between two waits is one      *)
(* step.  A file is a sequence of line kinds; file positions are counted   *)
(* in lines.                                                               *)
(***************************************************************************)
EXTENDS Naturals, Sequences, FiniteSets

CONSTANTS
  File,      \* the lines of the file
  Clients,   \* greenlets that run commands under the g-code mutex
  Sensors,   \* filament sensors, whose runout handler pauses first
  Commands,  \* the commands clients may give
  Channels,  \* lines that select a filament channel of the material station
  Channel0,  \* the one channel 0 is selected by
  MaxCommands  \* bound: commands given in a behaviour

LineKinds == {"move", "fail", "pause", "cancel", "jump"}
AllCommands == {"PAUSE", "RESUME", "CLEAR_PAUSE", "CANCEL_PRINT", "M24", "M25",
                "M23", "M26", "SDCARD_RESET_FILE", "SDCARD_PRINT_FILE",
                "SDCARD_CLEAR_REFUELLING", "SDCARD_SET_CHANNEL",
                "SDCARD_ENABLE_FFM"}

ASSUME JobAssumption ==
  /\ File \in Seq(LineKinds \union Channels) /\ Len(File) > 0
  /\ Channels \intersect LineKinds = {}
  /\ "none" \notin Clients \union Sensors /\ Clients \intersect Sensors = {}
  /\ "worker" \notin Clients \union Sensors
  /\ Commands \subseteq AllCommands
  /\ Channel0 \in Channels /\ MaxCommands \in Nat

VARIABLES
  sd,      \* the VirtualSD object
  pr,      \* the PauseResume object
  ps,      \* the PrintStats object
  worker,  \* where work_handler is
  owner,   \* who holds the g-code mutex
  queue,   \* greenlets waiting for it
  pc,      \* where each client and sensor is
  cmd,     \* the command it runs
  given,   \* commands given so far
  ready,   \* the printer accepts commands: it is not shut down
  \* history: the filament that is in the extruder, whether the last change of
  \* filament was broken off, the last line of the file that was done, whether
  \* the worker was started in spite of a pause, and whether
  \* SDCARD_RESET_FILE was refused as a command of the file although a client
  \* gave it
  loaded, broken_off, last_line, in_spite, refused

history == <<loaded, broken_off, last_line, in_spite, refused>>
vars == <<sd, pr, ps, worker, owner, queue, pc, cmd, given, ready, history>>

Actors == Clients \union Sensors

InitSD == [work_timer |-> FALSE, must_pause_work |-> FALSE,
           cmd_from_sd |-> FALSE, file |-> FALSE,
           file_position |-> 0, next_file_position |-> 0,
           load_channel |-> Channel0, print_channel |-> Channel0,
           change_filament |-> FALSE, enable_ffm |-> FALSE]
InitPR == [is_paused |-> FALSE, sd_paused |-> FALSE,
           pause_command_sent |-> FALSE]
ResetPS == [state |-> "standby", started |-> FALSE, paused |-> FALSE]

Init ==
  /\ sd = InitSD /\ pr = InitPR /\ ps = ResetPS
  /\ worker = "none" /\ owner = "none" /\ queue = << >>
  /\ pc = [a \in Actors |-> "idle"] /\ cmd = [a \in Actors |-> "none"]
  /\ given = 0 /\ ready = TRUE
  /\ loaded = Channel0 /\ broken_off = FALSE /\ last_line = 0
  /\ in_spite = FALSE /\ refused = FALSE

-----------------------------------------------------------------------------
(* PrintStats.                                                             *)

NoteStart(p) == [state |-> "printing", started |-> TRUE,
                 paused |-> IF p.started THEN FALSE ELSE p.paused]
NotePause(p) == [p EXCEPT !.paused = TRUE,
                          !.state = IF @ = "error" THEN @ ELSE "paused"]

\* Mutant: a print can finish more than once.
NoteFinish_Again(p, state) == [p EXCEPT !.state = state, !.started = FALSE]

\* _note_finish: only the first end of a print counts.
NoteFinish(p, state) ==
  IF p.started THEN [p EXCEPT !.state = state, !.started = FALSE] ELSE p

\* The report the worker leaves behind.
EndStats(p, file, error) ==
  IF error THEN NoteFinish(p, "error")
  ELSE IF file THEN NotePause(p) ELSE NoteFinish(p, "complete")

-----------------------------------------------------------------------------
(* The mutex: handed to the greenlet that waited longest.                  *)

Acquire(a) == IF owner = "none"
              THEN owner' = a /\ UNCHANGED queue
              ELSE queue' = Append(queue, a) /\ UNCHANGED owner

\* Mutant: a mutex somebody waits for is unlocked instead of handed over.
Release_Unlocks == owner' = "none" /\ UNCHANGED queue

Release == IF queue = << >>
           THEN owner' = "none" /\ UNCHANGED queue
           ELSE owner' = Head(queue) /\ queue' = Tail(queue)

-----------------------------------------------------------------------------
(* The worker: work_handler.                                               *)

\* Mutant: the worker is not told.
Asked_Not(s) == s

Asked(s) == IF s.work_timer THEN [s EXCEPT !.must_pause_work = TRUE] ELSE s

\* The end of work_handler.
Exit(s, error) ==
  /\ worker' = "none"
  /\ sd' = [s EXCEPT !.work_timer = FALSE, !.cmd_from_sd = FALSE]
  /\ ps' = EndStats(ps, s.file, error)

WorkStart ==
  /\ worker = "start"
  /\ IF sd.file
     THEN worker' = "loop" /\ ps' = NoteStart(ps) /\ UNCHANGED sd
     ELSE /\ worker' = "none"
          /\ sd' = [sd EXCEPT !.work_timer = FALSE] /\ UNCHANGED ps
  /\ UNCHANGED <<pr, owner, queue, pc, cmd, given, ready, history>>

WorkPause ==
  /\ worker = "loop" /\ sd.must_pause_work
  /\ Exit(sd, FALSE)
  /\ UNCHANGED <<pr, owner, queue, pc, cmd, given, ready, history>>

WorkEOF ==
  /\ worker = "loop" /\ ~sd.must_pause_work
  /\ sd.file_position >= Len(File)
  /\ Exit([sd EXCEPT !.file = FALSE], FALSE)
  /\ UNCHANGED <<pr, owner, queue, pc, cmd, given, ready, history>>

Line == File[sd.file_position + 1]

\* The worker takes the next line when nobody else is using the dispatcher.
Dispatch ==
  /\ worker = "loop" /\ ~sd.must_pause_work
  /\ sd.file_position < Len(File)
  /\ owner = "none"

WorkDispatch ==
  /\ Dispatch
  /\ Line \in Channels => ~sd.enable_ffm
  /\ sd' = [sd EXCEPT !.cmd_from_sd = TRUE,
                      !.next_file_position = sd.file_position + 1]
  /\ worker' = "script" /\ Acquire("worker")
  /\ UNCHANGED <<pr, ps, pc, cmd, given, ready, history>>

\* Mutant: the line is not counted as done.
Selected_Again(s) == [s EXCEPT !.load_channel = s.print_channel,
                               !.change_filament = FALSE]

\* The end of a line that selects a channel.
Selected(s) == [s EXCEPT !.load_channel = s.print_channel,
                         !.change_filament = FALSE,
                         !.file_position = s.next_file_position]

Select(s) == [s EXCEPT !.cmd_from_sd = TRUE,
                       !.next_file_position = s.file_position + 1,
                       !.print_channel = Line]

\* A line that selects another channel: the moves before it are waited for.
WorkSelect ==
  /\ Dispatch
  /\ Line \in Channels /\ sd.enable_ffm
  /\ IF Line # sd.load_channel
     THEN /\ sd' = Select(sd) /\ worker' = "m400" /\ Acquire("worker")
          /\ UNCHANGED last_line
     ELSE /\ sd' = Selected(Select(sd)) /\ last_line' = last_line + 1
          /\ UNCHANGED <<worker, owner, queue>>
  /\ UNCHANGED <<pr, ps, pc, cmd, given, ready, loaded, broken_off, in_spite,
                 refused>>

\* Mutant: the station is not asked.
Requested_Not(s) == s

Requested(s) == [s EXCEPT !.change_filament = TRUE]

WorkRequestChange ==
  /\ worker = "m400" /\ owner = "worker"
  /\ Release
  /\ sd' = Requested(sd)
  /\ worker' = "wait"
  /\ UNCHANGED <<pr, ps, pc, cmd, given, ready, history>>

\* Mutant: a pause does not end the wait.
WaitOver_Deaf(s) == ~s.change_filament

WaitOver(s) == ~s.change_filament \/ s.must_pause_work \/ ~s.work_timer

\* The wait ends when the firmware reports the change done, or on a pause:
\* in both cases the line counts as done.
WorkChanged ==
  /\ worker = "wait"
  /\ WaitOver(sd)
  /\ sd' = Selected(sd) /\ last_line' = last_line + 1
  /\ broken_off' = (broken_off \/ sd.change_filament)
  /\ worker' = "loop"
  /\ UNCHANGED <<pr, ps, owner, queue, pc, cmd, given, ready, loaded, in_spite,
                 refused>>

\* What a command of the file does besides taking time.
PausedFromFile ==
  IF pr.is_paused THEN pr
  ELSE [is_paused |-> TRUE, pause_command_sent |-> TRUE,
        sd_paused |-> IF pr.pause_command_sent THEN pr.sd_paused ELSE TRUE]

Cancelled(s) == [s EXCEPT !.file = FALSE, !.change_filament = FALSE,
                          !.file_position = 0]

WorkScriptDone ==
  /\ worker = "script" /\ owner = "worker"
  /\ Release
  /\ LET done(s, next) == [s EXCEPT !.cmd_from_sd = FALSE,
                                    !.next_file_position = next,
                                    !.file_position = next]
         n == sd.next_file_position
     IN \/ /\ Line \in {"move", "fail"} \union Channels
           /\ sd' = done(sd, n) /\ last_line' = last_line + 1
           /\ UNCHANGED <<pr, ps>>
        \/ /\ Line = "jump"
           /\ \E next \in {n, 0} : sd' = done(sd, next) /\ last_line' = next
           /\ UNCHANGED <<pr, ps>>
        \/ /\ Line = "pause"
           /\ sd' = done(IF pr.is_paused \/ pr.pause_command_sent THEN sd
                         ELSE [sd EXCEPT !.must_pause_work = TRUE], n)
           /\ pr' = PausedFromFile /\ last_line' = last_line + 1
           /\ UNCHANGED ps
        \/ /\ Line = "cancel"
           /\ sd' = done(IF sd.file
                         THEN Cancelled([sd EXCEPT !.must_pause_work = TRUE])
                         ELSE [sd EXCEPT !.file_position = 0], n)
           /\ ps' = IF sd.file THEN NoteFinish(ps, "cancelled") ELSE ps
           /\ pr' = [pr EXCEPT !.is_paused = FALSE,
                               !.pause_command_sent = FALSE]
           /\ last_line' = last_line + 1
  /\ worker' = "loop"
  /\ UNCHANGED <<pc, cmd, given, ready, loaded, broken_off, in_spite, refused>>

\* The command of a line fails, as all do after a shutdown: on_error_gcode
\* runs, under the mutex again.
WorkScriptFails ==
  /\ worker = "script" /\ owner = "worker"
  /\ Line = "fail" \/ ~ready
  /\ worker' = "on_error"
  /\ IF queue = << >> THEN UNCHANGED <<owner, queue>>
     ELSE owner' = Head(queue) /\ queue' = Append(Tail(queue), "worker")
  /\ UNCHANGED <<sd, pr, ps, pc, cmd, given, ready, history>>

WorkErrorDone ==
  /\ worker = "on_error" /\ owner = "worker"
  /\ Release
  /\ Exit(sd, TRUE)
  /\ UNCHANGED <<pr, pc, cmd, given, ready, history>>

\* An error of the code itself shuts the printer down; the print counts as
\* paused.
WorkScriptCrashes ==
  /\ worker = "script" /\ owner = "worker" /\ Line = "fail"
  /\ ready' = FALSE
  /\ Release
  /\ Exit(Asked(sd), FALSE)
  /\ UNCHANGED <<pr, pc, cmd, given, history>>

Worker == \/ WorkStart \/ WorkPause \/ WorkEOF \/ WorkDispatch \/ WorkSelect
          \/ WorkRequestChange \/ WorkChanged \/ WorkScriptDone
          \/ WorkScriptFails \/ WorkErrorDone \/ WorkScriptCrashes

-----------------------------------------------------------------------------
(* The other greenlets.                                                    *)

\* A script is run: it may do other things before command k.
Give(c, k) ==
  /\ pc[c] = "idle" /\ given < MaxCommands
  /\ given' = given + 1
  /\ pc' = [pc EXCEPT ![c] = "locking"] /\ cmd' = [cmd EXCEPT ![c] = k]
  /\ Acquire(c)
  /\ UNCHANGED <<sd, pr, ps, worker, ready, history>>

Running(c, k) == pc[c] = "locking" /\ owner = c /\ cmd[c] = k /\ ready

\* The command ends with the objects in these states.
Done(c, s, p, t) ==
  /\ sd' = s /\ pr' = p /\ ps' = t
  /\ pc' = [pc EXCEPT ![c] = "idle"] /\ cmd' = [cmd EXCEPT ![c] = "none"]
  /\ Release
  /\ UNCHANGED <<given, ready>>

NoWorker  == UNCHANGED <<worker, in_spite>>
NoChange  == UNCHANGED <<loaded, broken_off>>
NoHistory == NoChange /\ UNCHANGED <<last_line, refused>>

\* do_resume: a new timer starts the worker.
Resumed(s) == [s EXCEPT !.must_pause_work = FALSE, !.work_timer = TRUE]
Started    == worker' = "start" /\ in_spite' = pr.is_paused

\* Mutant: do_pause always waits for the worker.
Waits_Always(s) == s.work_timer

\* The loop in do_pause: a command of the file does not wait for itself.
Waits(s) == s.work_timer /\ ~s.cmd_from_sd

\* Mutant: it is not noted that the print came from the file.
FromFile_Forgotten(p) == p

FromFile(p) == [p EXCEPT !.sd_paused = TRUE]

ClearPause(p) == [p EXCEPT !.is_paused = FALSE, !.pause_command_sent = FALSE]

\* What a command does after its do_pause has returned.
AfterPause(c, s, p) ==
  /\ \/ /\ cmd[c] = "PAUSE"
        /\ Done(c, s, [p EXCEPT !.is_paused = TRUE,
                                !.pause_command_sent = TRUE], ps)
     \/ cmd[c] = "M25" /\ Done(c, s, p, ps)
     \/ /\ cmd[c] = "CANCEL_PRINT"
        /\ Done(c, Cancelled(s), ClearPause(p), NoteFinish(ps, "cancelled"))
     \/ /\ cmd[c] = "SDCARD_RESET_FILE"
        /\ Done(c, [s EXCEPT !.file = FALSE, !.file_position = 0], p, ResetPS)
  /\ broken_off' = (broken_off \/ (cmd[c] = "CANCEL_PRINT"
                                   /\ s.change_filament))
  /\ UNCHANGED loaded

\* A command that calls do_pause.
PauseFirst(c, p) ==
  /\ IF Waits(Asked(sd))
     THEN /\ sd' = Asked(sd) /\ pr' = p
          /\ pc' = [pc EXCEPT ![c] = "pausing"]
          /\ UNCHANGED <<ps, owner, queue, cmd, given, ready>> /\ NoChange
     ELSE AfterPause(c, Asked(sd), p)
  /\ NoWorker /\ UNCHANGED <<last_line, refused>>

PauseReturns(c) ==
  /\ pc[c] = "pausing" /\ cmd[c] # "none"
  /\ ~Waits(sd)
  /\ AfterPause(c, sd, pr)
  /\ NoWorker /\ UNCHANGED <<last_line, refused>>

Refused(c) ==
  /\ pc[c] = "locking" /\ owner = c /\ ~ready
  /\ Done(c, sd, pr, ps)
  /\ NoWorker /\ NoHistory

Pause(c) ==
  /\ Running(c, "PAUSE")
  /\ \/ /\ pr.is_paused \/ pr.pause_command_sent
        /\ Done(c, sd, [pr EXCEPT !.is_paused = TRUE], ps)
        /\ NoWorker /\ NoHistory
     \/ /\ ~pr.is_paused /\ ~pr.pause_command_sent /\ ~sd.work_timer
        /\ Done(c, sd, [is_paused |-> TRUE, sd_paused |-> FALSE,
                        pause_command_sent |-> TRUE], ps)
        /\ NoWorker /\ NoHistory
     \/ /\ ~pr.is_paused /\ ~pr.pause_command_sent /\ sd.work_timer
        /\ PauseFirst(c, FromFile(pr))

\* RESUME fails ("SD busy") while the worker is still there.
Resume(c) ==
  /\ Running(c, "RESUME")
  /\ \/ /\ ~pr.is_paused \/ (pr.sd_paused /\ sd.work_timer)
        /\ Done(c, sd, pr, ps) /\ NoWorker
     \/ /\ pr.is_paused /\ ~pr.sd_paused
        /\ Done(c, sd, ClearPause(pr), ps) /\ NoWorker
     \/ /\ pr.is_paused /\ pr.sd_paused /\ ~sd.work_timer
        /\ Done(c, Resumed(sd), InitPR, ps)
        /\ worker' = "start" /\ in_spite' = FALSE
  /\ NoHistory

ClearPauseCmd(c) ==
  /\ Running(c, "CLEAR_PAUSE")
  /\ Done(c, sd, ClearPause(pr), ps)
  /\ NoWorker /\ NoHistory

CancelPrint(c) ==
  /\ Running(c, "CANCEL_PRINT")
  /\ \/ /\ sd.work_timer \/ pr.sd_paused
        /\ sd.file
        /\ PauseFirst(c, pr)
     \/ /\ sd.work_timer \/ pr.sd_paused
        /\ ~sd.file
        /\ Done(c, [sd EXCEPT !.file_position = 0], ClearPause(pr), ps)
        /\ NoWorker /\ NoHistory
     \/ /\ ~sd.work_timer /\ ~pr.sd_paused
        /\ Done(c, sd, ClearPause(pr), ps)
        /\ NoWorker /\ NoHistory

M24(c) ==
  /\ Running(c, "M24")
  /\ IF sd.work_timer
     THEN Done(c, sd, pr, ps) /\ NoWorker
     ELSE Done(c, Resumed(sd), pr, ps) /\ Started
  /\ NoHistory

M25(c) == Running(c, "M25") /\ PauseFirst(c, pr)

ResetFile(c) ==
  /\ Running(c, "SDCARD_RESET_FILE")
  /\ \/ /\ sd.cmd_from_sd
        /\ Done(c, sd, pr, ps) /\ refused' = TRUE
        /\ NoWorker /\ NoChange /\ UNCHANGED last_line
     \/ /\ ~sd.cmd_from_sd /\ sd.file
        /\ PauseFirst(c, pr)
     \/ /\ ~sd.cmd_from_sd /\ ~sd.file
        /\ Done(c, [sd EXCEPT !.file_position = 0], pr, ResetPS)
        /\ NoWorker /\ NoHistory

\* _reset_file (no worker is there to wait for) and _load_file, which fails
\* when the file cannot be opened.
Loaded(s, ok) == [s EXCEPT !.file = ok, !.file_position = 0]

PrintFile(c) ==
  /\ Running(c, "SDCARD_PRINT_FILE")
  /\ \/ /\ sd.work_timer
        /\ Done(c, sd, pr, ps) /\ NoWorker /\ NoHistory
     \/ /\ ~sd.work_timer
        /\ Done(c, Resumed(Loaded(sd, TRUE)), pr, ResetPS)
        /\ Started /\ last_line' = 0 /\ NoChange /\ UNCHANGED refused
     \/ /\ ~sd.work_timer
        /\ Done(c, Loaded(sd, FALSE), pr, ResetPS) /\ NoWorker /\ NoHistory

M23(c) ==
  /\ Running(c, "M23")
  /\ \/ /\ sd.work_timer
        /\ Done(c, sd, pr, ps) /\ NoHistory
     \/ /\ ~sd.work_timer
        /\ \E ok \in BOOLEAN :
             Done(c, [Loaded(sd, ok) EXCEPT !.print_channel = Channel0,
                                            !.change_filament = FALSE,
                                            !.enable_ffm = FALSE], pr, ResetPS)
        /\ last_line' = 0 /\ NoChange /\ UNCHANGED refused
  /\ NoWorker

\* M26 moves the position between prints.
M26(c) ==
  /\ Running(c, "M26")
  /\ \/ /\ sd.work_timer
        /\ Done(c, sd, pr, ps) /\ UNCHANGED last_line
     \/ /\ ~sd.work_timer
        /\ \E pos \in 0..Len(File) :
             /\ Done(c, [sd EXCEPT !.file_position = pos], pr, ps)
             /\ last_line' = pos
  /\ NoWorker /\ NoChange /\ UNCHANGED refused

\* The firmware of the material station reports that the filament in use is
\* the one asked for.
ClearRefuelling(c) ==
  /\ Running(c, "SDCARD_CLEAR_REFUELLING")
  /\ Done(c, [sd EXCEPT !.change_filament = FALSE], pr, ps)
  /\ IF sd.change_filament
     THEN loaded' = sd.print_channel /\ broken_off' = FALSE
     ELSE NoChange
  /\ NoWorker /\ UNCHANGED <<last_line, refused>>

\* It says which filament is in use, while no change is under way.
SetChannel(c) ==
  /\ Running(c, "SDCARD_SET_CHANNEL")
  /\ Done(c, [sd EXCEPT !.load_channel = loaded, !.print_channel = loaded],
          pr, ps)
  /\ broken_off' = FALSE
  /\ NoWorker /\ UNCHANGED <<loaded, last_line, refused>>

EnableFFM(c) ==
  /\ Running(c, "SDCARD_ENABLE_FFM")
  /\ \E enable \in BOOLEAN : Done(c, [sd EXCEPT !.enable_ffm = enable], pr, ps)
  /\ NoWorker /\ NoHistory

Run(c) == \/ Pause(c) \/ Resume(c) \/ ClearPauseCmd(c) \/ CancelPrint(c)
          \/ M24(c) \/ M25(c) \/ ResetFile(c) \/ PrintFile(c) \/ M23(c)
          \/ M26(c) \/ ClearRefuelling(c) \/ SetChannel(c) \/ EnableFFM(c)
          \/ PauseReturns(c) \/ Refused(c)

\* A runout is handled outside the mutex up to the PAUSE it runs at its end.
Runout(s) ==
  /\ pc[s] = "idle" /\ given < MaxCommands
  /\ given' = given + 1
  /\ \/ /\ pr.pause_command_sent
        /\ pc' = [pc EXCEPT ![s] = "delay"] /\ UNCHANGED <<sd, pr>>
     \/ /\ ~pr.pause_command_sent /\ sd.work_timer
        /\ sd' = Asked(sd)
        /\ IF Waits(sd)
           THEN /\ pr' = [pr EXCEPT !.sd_paused = TRUE]
                /\ pc' = [pc EXCEPT ![s] = "pausing"]
           ELSE /\ pr' = [pr EXCEPT !.sd_paused = TRUE,
                                    !.pause_command_sent = TRUE]
                /\ pc' = [pc EXCEPT ![s] = "delay"]
     \/ /\ ~pr.pause_command_sent /\ ~sd.work_timer
        /\ pr' = [pr EXCEPT !.sd_paused = FALSE, !.pause_command_sent = TRUE]
        /\ pc' = [pc EXCEPT ![s] = "delay"] /\ UNCHANGED sd
  /\ UNCHANGED <<ps, worker, owner, queue, cmd, ready, history>>

RunoutPaused(s) ==
  /\ pc[s] = "pausing" /\ cmd[s] = "none" /\ ~Waits(sd)
  /\ pr' = [pr EXCEPT !.pause_command_sent = TRUE]
  /\ pc' = [pc EXCEPT ![s] = "delay"]
  /\ UNCHANGED <<sd, ps, worker, owner, queue, cmd, given, ready, history>>

RunoutScript(s) ==
  /\ pc[s] = "delay"
  /\ pc' = [pc EXCEPT ![s] = "locking"] /\ cmd' = [cmd EXCEPT ![s] = "PAUSE"]
  /\ Acquire(s)
  /\ UNCHANGED <<sd, pr, ps, worker, given, ready, history>>

RunSensor(s) == RunoutPaused(s) \/ RunoutScript(s) \/ Pause(s)
                \/ PauseReturns(s) \/ Refused(s)

\* handle_shutdown of the sdcard, with the dispatcher's.
Shutdown ==
  /\ ready /\ ready' = FALSE
  /\ sd' = Asked(sd)
  /\ UNCHANGED <<pr, ps, worker, owner, queue, pc, cmd, given, history>>

-----------------------------------------------------------------------------
Next == \/ Worker
        \/ \E c \in Clients : Run(c) \/ \E k \in Commands : Give(c, k)
        \/ \E s \in Sensors : Runout(s) \/ RunSensor(s)
        \/ Shutdown

Spec == Init /\ [][Next]_vars

(* Greenlets that can run do run: timers expire and commands end.          *)
FairSpec == /\ Spec /\ WF_vars(Worker)
            /\ \A c \in Clients : WF_vars(Run(c))
            /\ \A s \in Sensors : WF_vars(RunSensor(s))

-----------------------------------------------------------------------------
TypeOK ==
  /\ sd \in [work_timer : BOOLEAN, must_pause_work : BOOLEAN,
             cmd_from_sd : BOOLEAN, file : BOOLEAN,
             file_position : 0..Len(File), next_file_position : 0..Len(File),
             load_channel : Channels, print_channel : Channels,
             change_filament : BOOLEAN, enable_ffm : BOOLEAN]
  /\ pr \in [is_paused : BOOLEAN, sd_paused : BOOLEAN,
             pause_command_sent : BOOLEAN]
  /\ ps \in [state : {"standby", "printing", "paused", "complete", "error",
                      "cancelled"},
             started : BOOLEAN, paused : BOOLEAN]
  /\ worker \in {"none", "start", "loop", "m400", "wait", "script", "on_error"}
  /\ owner \in Actors \union {"none", "worker"}
  /\ queue \in Seq(Actors \union {"worker"})
  /\ pc \in [Actors -> {"idle", "locking", "pausing", "delay"}]
  /\ cmd \in [Actors -> AllCommands \union {"none"}]
  /\ given \in 0..MaxCommands /\ ready \in BOOLEAN
  /\ loaded \in Channels /\ last_line \in 0..Len(File)
  /\ {broken_off, in_spite, refused} \subseteq BOOLEAN

(* work_timer tells everybody whether the worker is there, so that there is *)
(* never a second one, and a print is reported as printing only while it is *)
(* being worked on.                                                         *)
WorkerKnown ==
  /\ sd.work_timer <=> worker # "none"
  /\ ps.state = "printing" /\ sd.file => sd.work_timer

(* The g-code mutex goes to those that ask for it, and to nobody twice: no  *)
(* greenlet waits for a mutex that is free or that it holds, and the worker *)
(* holds it only while it does what it dispatched, known to everybody.      *)
MutexSound ==
  /\ WorkerKnown
  /\ owner = "none" => queue = << >>
  /\ \A i, j \in 1..Len(queue) : i # j => queue[i] # queue[j]
  /\ \A i \in 1..Len(queue) : queue[i] # owner
  /\ owner = "worker" => worker \in {"m400", "script", "on_error"}

(* Across pauses, cancellations, filament changes and errors, the worker    *)
(* takes up the file at the first line that was not done.                   *)
Dispatching == worker = "loop" /\ worker' \in {"script", "m400"}
TakesUp == [][Dispatching => sd.file_position = last_line]_vars

(* Once PAUSE is done with a print from the file, no line of it is          *)
(* dispatched until the pause ends, unless M24 or a new print overrides it. *)
PauseHolds == [][Dispatching /\ pr.is_paused /\ pr.sd_paused => in_spite]_vars

(* Users are served: a print that is resumed goes on where it stopped, and  *)
(* a pause holds until somebody ends it.                                    *)
UsersServed == TakesUp /\ PauseHolds

(* The end of a print is reported once: what follows "cancelled", "error"   *)
(* or "complete" is a new print, a restart or a reset, never another end.   *)
EndReportedOnce ==
  [][ps.state \in {"cancelled", "error", "complete"}
       => ps'.state \in {ps.state, "printing", "standby"}]_vars

(* Outside a change of filament the worker knows the filament in use: its   *)
(* belief is wrong only after a pause or a cancellation broke a change off. *)
FilamentKnown ==
  sd.load_channel # loaded => broken_off \/ worker \in {"m400", "wait"}

(* A RESUME of a print that PAUSE stopped starts the worker again ("Resumes *)
(* the print from a pause", pause_resume.py:76).                            *)
ResumeResumes ==
  [][\A c \in Clients :
       (/\ Running(c, "RESUME") /\ pr.is_paused
        /\ ps.state = "paused" /\ ~sd.work_timer /\ pc'[c] = "idle")
         => worker' = "start"]_vars

(* SDCARD_RESET_FILE is refused as a command "run from the sdcard"          *)
(* (virtual_sdcard.py:161) only when the file contains it.                  *)
RefusedFromFile == ~refused

(* Whoever pauses, cancels or resets is answered, and a worker that is      *)
(* asked to pause does.                                                     *)
CommandsReturn == \A a \in Actors : pc[a] # "idle" ~> pc[a] = "idle"
PauseHonoured == sd.must_pause_work /\ sd.work_timer ~> ~sd.work_timer
UsersAnswered == CommandsReturn /\ PauseHonoured
=============================================================================
