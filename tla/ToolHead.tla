----------------------------- MODULE ToolHead -----------------------------
(***************************************************************************)
(* The ToolHead of toolhead.py: moves wait in the lookahead queue, are     *)
(* given a print time and appended to the queue of the step generators     *)
(* (trapq), and steps are generated and sent to the micro-controllers as   *)
(* far as they are needed.  Three greenlets work on it: the g-code command *)
(* that has the mutex, which pauses when it is too far ahead, the flush    *)
(* timer, and the priming timer.  In the drip mode of a homing move the    *)
(* command feeds the move in little pieces until the endstop is hit.       *)
(*                                                                         *)
(* The time the micro-controller is estimated to be at is the host's time. *)
(* Of a move only the time it takes is modelled, and of the lookahead      *)
(* queue only the time of the moves in it.                                 *)
(***************************************************************************)
EXTENDS Integers

CONSTANTS
  \* those of toolhead.py; TENTH: its 0.100, SECOND: its 1.
  BUFFER_TIME_LOW, BUFFER_TIME_HIGH, BUFFER_TIME_START,
  BGFLUSH_LOW_TIME, BGFLUSH_BATCH_TIME, BGFLUSH_EXTRA_TIME,
  MIN_KIN_TIME, STEPCOMPRESS_FLUSH_TIME, LOOKAHEAD_FLUSH_TIME,
  DRIP_SEGMENT_TIME, DRIP_TIME, TENTH, SECOND,
  Delays,      \* values of kin_flush_delay, with the one it begins with
  FirstDelay,
  Durations,   \* how long moves and dwells take
  Never,       \* reactor.NEVER
  Late,        \* how late the reactor may run what is due
  MaxCommands, \* bound: commands given
  MaxStart,    \* bound: the last moment a command is given
  MaxTime      \* bound: the last moment

ASSUME ToolHeadAssumption ==
  /\ {BUFFER_TIME_LOW, BUFFER_TIME_HIGH, BUFFER_TIME_START, BGFLUSH_LOW_TIME,
      BGFLUSH_BATCH_TIME, BGFLUSH_EXTRA_TIME, MIN_KIN_TIME,
      STEPCOMPRESS_FLUSH_TIME, LOOKAHEAD_FLUSH_TIME, DRIP_SEGMENT_TIME,
      DRIP_TIME, TENTH, SECOND} \subseteq Nat \ {0}
  /\ Delays \subseteq Nat /\ FirstDelay \in Delays
  /\ Durations \subseteq Nat \ {0}
  /\ Never \notin Int
  /\ Late \in Nat /\ MaxCommands \in Nat /\ MaxStart \in Nat
  /\ MaxTime \in Nat

VARIABLES
  now,
  th,        \* the fields of ToolHead and of what it calls
  greenlet,  \* the g-code command: where it waits
  completed, \* drip_completion
  given

vars == <<now, th, greenlet, completed, given>>

Later(a, b)  == IF a >= b THEN a ELSE b
Sooner(a, b) == IF a <= b THEN a ELSE b

Idle == [at |-> "idle", wake |-> 0, drip |-> 0]

Init ==
  /\ now = 0
  /\ th = [state |-> "NeedPrime", print_time |-> 0,
           last_flush_time |-> 0, need_flush_time |-> 0,
           min_restart_time |-> 0, step_gen_time |-> 0,
           kin_flush_delay |-> FirstDelay, need_check_pause |-> -1,
           do_kick |-> TRUE, flush_timer |-> Never, priming_timer |-> Never,
           can_pause |-> TRUE,
           queue |-> 0, junction_flush |-> BUFFER_TIME_HIGH,
           \* the step generators: how far steps are generated, and the
           \* moves last appended: start, end, and when smoothing has ended
           generated |-> 0, trapq |-> [start |-> 0, end |-> 0, rest |-> 0],
           \* the print time toolhead:sync_print_time told in this step
           synced |-> 0]
  /\ greenlet = Idle /\ completed = FALSE /\ given = 0

\* A step begins: nothing is told yet.
TH == [th EXCEPT !.synced = 0]

-----------------------------------------------------------------------------
(* Print time and flush tracking.                                          *)

AdvanceFlushTime(t, to) ==
  LET flush == Later(to, t.last_flush_time)
      steps == Later(Sooner(flush + STEPCOMPRESS_FLUSH_TIME,
                            t.print_time - t.kin_flush_delay), flush)
  IN [t EXCEPT !.last_flush_time = flush,
               !.generated = Later(@, steps),
               !.min_restart_time = Later(@, steps)]

\* The code flushes in batches: the last one leaves this.
AdvanceMoveTime(t, to) ==
  LET print == Later(t.print_time, to)
  IN AdvanceFlushTime([t EXCEPT !.print_time = print],
                      print - t.kin_flush_delay - STEPCOMPRESS_FLUSH_TIME)

\* Mutant: steps that have been generated are not considered.
CalcPrintTime_Early(t) ==
  LET least == now + BUFFER_TIME_START
  IN IF least > t.print_time
     THEN [t EXCEPT !.print_time = least, !.synced = least] ELSE t

CalcPrintTime(t) ==
  LET kin == Later(now + MIN_KIN_TIME, t.min_restart_time) + t.kin_flush_delay
      least == Later(now + BUFFER_TIME_START, kin)
  IN IF least > t.print_time
     THEN [t EXCEPT !.print_time = least, !.synced = least] ELSE t

\* Mutant: the flush timer is not kicked.
NoteActivity_Silent(t, time) ==
  [t EXCEPT !.need_flush_time = Later(@, time),
            !.step_gen_time = Later(@, time)]

NoteActivity(t, time) ==
  [t EXCEPT !.need_flush_time = Later(@, time),
            !.step_gen_time = Later(@, time),
            !.do_kick = FALSE,
            !.flush_timer = IF t.do_kick THEN now ELSE @]

\* Mutant: a print time that has passed is used again.
Resynced_Late(t) ==
  IF t.state \in {"main", "Drip"} THEN t
  ELSE [t EXCEPT !.state = "main", !.need_check_pause = -1]

\* The beginning of _process_moves: moves that take d get their print time.
Resynced(t) ==
  CASE t.state = "main" -> t
    [] t.state = "Drip" -> CalcPrintTime(t)
    [] OTHER -> CalcPrintTime([t EXCEPT !.state = "main",
                                        !.need_check_pause = -1])
Appended(t, d) ==
  [t EXCEPT !.trapq = [start |-> t.print_time, end |-> t.print_time + d,
                       rest |-> t.print_time + d + t.kin_flush_delay]]

\* _process_moves outside the drip mode.
ProcessMoves(t, d) ==
  LET a == Appended(Resynced(t), d)
  IN AdvanceMoveTime(NoteActivity(a, a.trapq.rest), a.trapq.end)

\* LookAheadQueue.flush
Flush(t) ==
  LET f == [t EXCEPT !.junction_flush = LOOKAHEAD_FLUSH_TIME, !.queue = 0]
  IN IF t.queue = 0 THEN f ELSE ProcessMoves(f, t.queue)

\* Mutant: the state is not reset.
FlushLookahead_Main(t) ==
  [Flush(t) EXCEPT !.need_check_pause = -1,
                   !.junction_flush = BUFFER_TIME_HIGH]

FlushLookahead(t) ==
  [Flush(t) EXCEPT !.state = "NeedPrime", !.need_check_pause = -1,
                   !.junction_flush = BUFFER_TIME_HIGH]

\* Mutant: steps are generated up to the end of the moves only.
FlushStepGeneration_Short(t) ==
  LET f == FlushLookahead(t)
  IN [AdvanceFlushTime(f, f.print_time)
        EXCEPT !.min_restart_time = Later(@, f.print_time)]

FlushStepGeneration(t) ==
  LET f == FlushLookahead(t)
  IN [AdvanceFlushTime(f, f.step_gen_time)
        EXCEPT !.min_restart_time = Later(@, f.print_time)]

LastMoveTime(t) ==
  IF t.state = "main" THEN Flush(t) ELSE CalcPrintTime(FlushLookahead(t))

-----------------------------------------------------------------------------
(* The end of a command, and what it waits for.                            *)

\* Mutant: the flush timer is not started again.
DripEnded_Unarmed(t) == FlushStepGeneration(t)

DripEnded(t) ==
  FlushStepGeneration([t EXCEPT !.flush_timer = now])

\* The second half of drip_move, with a move that takes d: it may be refused.
BeginDrip(t, d) ==
  LET f == [Flush(t) EXCEPT !.state = "Drip", !.need_check_pause = Never,
                            !.flush_timer = Never, !.do_kick = FALSE,
                            !.junction_flush = BUFFER_TIME_HIGH]
      a == Appended(Resynced(f), d)
  IN \/ /\ th' = DripEnded(f)
        /\ greenlet' = Idle /\ UNCHANGED completed
     \/ /\ th' = [a EXCEPT !.queue = d,
                           !.junction_flush = LOOKAHEAD_FLUSH_TIME]
        /\ greenlet' = [at |-> "drip", wake |-> now, drip |-> a.trapq.end]
        /\ completed' = FALSE

\* After _check_pause the command ends, or goes on to a drip move.
Continue(t, drip) ==
  IF drip = 0 THEN th' = t /\ greenlet' = Idle /\ UNCHANGED completed
              ELSE BeginDrip(t, drip)

\* The loop of _check_pause.
PauseLoop(t, drip) ==
  LET ahead == t.print_time - now - BUFFER_TIME_HIGH
      due   == now + BUFFER_TIME_HIGH + TENTH
  IN \/ /\ ahead <= 0
        /\ Continue(IF t.state = "main"
                    THEN [t EXCEPT !.need_check_pause = due] ELSE t, drip)
     \/ /\ ahead > 0 /\ ~t.can_pause
        /\ Continue([t EXCEPT !.need_check_pause = Never], drip)
     \/ /\ ahead > 0 /\ t.can_pause
        /\ th' = t /\ UNCHANGED completed
        /\ greenlet' = [at |-> "pause", wake |-> now + Sooner(SECOND, ahead),
                        drip |-> drip]

\* The beginning of _check_pause: moves in the queue are given some time.
Primed(t) ==
  IF t.state = "main" THEN t
  ELSE [t EXCEPT !.state = "Priming", !.need_check_pause = -1,
                 !.priming_timer =
                   now + Later(TENTH, t.print_time - now - BUFFER_TIME_LOW)]

CheckPause(t, drip) == PauseLoop(Primed(t), drip)

Due(wake) == wake # Never /\ wake <= now

Resume ==
  /\ greenlet.at = "pause" /\ Due(greenlet.wake)
  /\ PauseLoop(TH, greenlet.drip)
  /\ UNCHANGED <<now, given>>

-----------------------------------------------------------------------------
(* The commands.                                                           *)

Command == /\ greenlet = Idle /\ th.can_pause
           /\ given < MaxCommands /\ now <= MaxStart
           /\ given' = given + 1
           /\ UNCHANGED now

PauseDue(t) == t.need_check_pause # Never /\ t.print_time > t.need_check_pause

\* LookAheadQueue.add_move: when enough moves are waiting, those whose speeds
\* are settled are processed; the new one never is.
Added(t, d) ==
  IF t.queue = 0 THEN {[t EXCEPT !.queue = d]}
  ELSE IF t.junction_flush > d
       THEN {[t EXCEPT !.queue = @ + d, !.junction_flush = @ - d]}
       ELSE LET f == [t EXCEPT !.junction_flush = LOOKAHEAD_FLUSH_TIME]
            IN {[f EXCEPT !.queue = @ + d]} \union
               {ProcessMoves([f EXCEPT !.queue = @ + d - p], p) : p \in 1..t.queue}

Move(d) ==
  /\ Command
  /\ \E t \in Added(TH, d) :
       IF PauseDue(t) THEN CheckPause(t, 0) ELSE Continue(t, 0)

Dwelt(t, d) == LET l == LastMoveTime(t) IN AdvanceMoveTime(l, l.print_time + d)

Dwell(d) == Command /\ CheckPause(Dwelt(TH, d), 0)

DripMove(d) == Command /\ CheckPause(Dwelt(TH, th.kin_flush_delay), d)

\* A command that needs the time of the last move, such as one for a fan.
GetLastMoveTime == Command /\ Continue(LastMoveTime(TH), 0)

SetPosition == Command /\ Continue(FlushStepGeneration(TH), 0)

\* Smoothing of the movement is changed.
NoteScanTime(d) ==
  /\ Command
  /\ Continue([FlushStepGeneration(TH) EXCEPT !.kin_flush_delay = d], 0)

\* The loop of wait_moves.
WaitLoop(t) ==
  /\ th' = t /\ UNCHANGED completed
  /\ greenlet' = IF (t.state = "main" \/ t.print_time >= now) /\ t.can_pause
                 THEN [at |-> "wait", wake |-> now + TENTH, drip |-> 0]
                 ELSE Idle

WaitMoves == Command /\ WaitLoop(FlushLookahead(TH))

WaitMore ==
  /\ greenlet.at = "wait" /\ Due(greenlet.wake)
  /\ WaitLoop(TH)
  /\ UNCHANGED <<now, given>>

-----------------------------------------------------------------------------
(* The drip mode: _update_drip_move_time.                                  *)

\* The steps are generated as far as they are, and no further.
Truncated(q, generated) ==
  [q EXCEPT !.end = Sooner(@, generated), !.rest = Sooner(@, generated)]

Dripping == greenlet.at = "drip" /\ Due(greenlet.wake)

DripSegment ==
  /\ Dripping /\ th.print_time < greenlet.drip /\ ~completed
  /\ LET flush_delay == DRIP_TIME + STEPCOMPRESS_FLUSH_TIME + th.kin_flush_delay
         wait == th.print_time - now - flush_delay
         to == Sooner(th.print_time + DRIP_SEGMENT_TIME, greenlet.drip)
     IN IF wait > 0 /\ th.can_pause
        THEN th' = TH /\ greenlet' = [greenlet EXCEPT !.wake = now + wait]
        ELSE /\ th' = AdvanceMoveTime(NoteActivity(TH, to + th.kin_flush_delay),
                                      to)
             /\ UNCHANGED greenlet
  /\ UNCHANGED <<now, completed, given>>

\* DripModeEndSignal
DripStops ==
  /\ Dripping /\ th.print_time < greenlet.drip /\ completed
  /\ th' = DripEnded([TH EXCEPT !.queue = 0,
                                !.trapq = Truncated(@, th.generated)])
  /\ greenlet' = Idle /\ completed' = FALSE
  /\ UNCHANGED <<now, given>>

DripDone ==
  /\ Dripping /\ th.print_time >= greenlet.drip
  /\ th' = LET n == NoteActivity(TH, greenlet.drip + th.kin_flush_delay)
           IN DripEnded([AdvanceMoveTime(n, greenlet.drip) EXCEPT !.queue = 0])
  /\ greenlet' = Idle /\ completed' = FALSE
  /\ UNCHANGED <<now, given>>

\* The homing move ends: the completion wakes the command.
Complete ==
  /\ greenlet.at = "drip" /\ ~completed
  /\ completed' = TRUE
  /\ greenlet' = [greenlet EXCEPT !.wake = Sooner(@, now)]
  /\ th' = TH
  /\ UNCHANGED <<now, given>>

-----------------------------------------------------------------------------
(* The timers.                                                             *)

PrimingHandler ==
  /\ Due(th.priming_timer)
  /\ LET t == [TH EXCEPT !.priming_timer = Never]
     IN th' = IF t.state = "Priming" THEN FlushLookahead(t) ELSE t
  /\ UNCHANGED <<now, greenlet, completed, given>>

\* The loop of _flush_handler goes round at most twice.
FlushQueues(t) ==
  LET end == t.need_flush_time + BGFLUSH_EXTRA_TIME
      far == t.last_flush_time - now > BGFLUSH_LOW_TIME
      to  == now + BGFLUSH_LOW_TIME + BGFLUSH_BATCH_TIME
      a   == IF far THEN t ELSE AdvanceFlushTime(t, Sooner(end, to))
      f   == IF t.last_flush_time >= end THEN t ELSE a
  IN IF f.last_flush_time >= end
     THEN [f EXCEPT !.do_kick = TRUE, !.flush_timer = Never]
     ELSE [f EXCEPT !.flush_timer = f.last_flush_time - BGFLUSH_LOW_TIME]

RunningNormally(t) ==
  t.state = "main" /\ t.print_time - now > BUFFER_TIME_LOW

FlushHandler ==
  /\ Due(th.flush_timer)
  /\ th' = IF RunningNormally(th)
           THEN [TH EXCEPT !.flush_timer = th.print_time - BUFFER_TIME_LOW]
           ELSE FlushQueues(IF th.state = "main" THEN FlushLookahead(TH) ELSE TH)
  /\ UNCHANGED <<now, greenlet, completed, given>>

\* _handle_shutdown
Shutdown ==
  /\ th.can_pause
  /\ th' = [TH EXCEPT !.can_pause = FALSE, !.queue = 0,
                      !.junction_flush = LOOKAHEAD_FLUSH_TIME]
  /\ UNCHANGED <<now, greenlet, completed, given>>

Wakes == ({th.flush_timer, th.priming_timer} \ {Never})
         \union IF greenlet = Idle THEN {} ELSE {greenlet.wake}
MayCommand == given < MaxCommands /\ now < MaxStart

\* Time goes on while somebody waits to be woken, or may give a command.
Elapse(wakes) ==
  /\ \A w \in wakes : now < w + Late
  /\ wakes # {} \/ MayCommand
  /\ now < MaxTime
  /\ now' = now + 1 /\ th' = TH
  /\ UNCHANGED <<greenlet, completed, given>>
Tick == Elapse(Wakes)

\* Nobody waits for anything: the only state in which the toolhead may stop.
AtRest == Wakes = {} /\ ~MayCommand /\ UNCHANGED vars

GiveCommand == \/ \E d \in Durations : Move(d) \/ Dwell(d) \/ DripMove(d)
               \/ GetLastMoveTime \/ SetPosition \/ WaitMoves
               \/ \E d \in Delays : NoteScanTime(d)
Work == Resume \/ WaitMore \/ DripSegment \/ DripStops \/ DripDone
        \/ PrimingHandler \/ FlushHandler

Next == GiveCommand \/ Work \/ Complete \/ Shutdown \/ Tick \/ AtRest

Spec == Init /\ [][Next]_vars

-----------------------------------------------------------------------------
(* What is correct.                                                        *)

Stretch == [start : Nat, end : Nat, rest : Nat]
ToolHeadState ==
  [state : {"NeedPrime", "Priming", "main", "Drip"},
   print_time : Nat, last_flush_time : Nat, need_flush_time : Nat,
   min_restart_time : Nat, step_gen_time : Nat, kin_flush_delay : Delays,
   need_check_pause : Int \union {Never}, do_kick : BOOLEAN,
   flush_timer : Int \union {Never}, priming_timer : Int \union {Never},
   can_pause : BOOLEAN, queue : Nat, junction_flush : Int,
   generated : Nat, trapq : Stretch, synced : Nat]

\* The types of what the toolhead and its command keep.
TypeOK ==
  /\ now \in Nat /\ th \in ToolHeadState
  /\ greenlet \in [at : {"idle", "pause", "wait", "drip"}, wake : Int,
                   drip : Nat]
  /\ completed \in BOOLEAN /\ given \in 0..MaxCommands

\* Moves that are appended begin where the ones before end, and after the
\* steps that have been generated, with the time that smoothing looks ahead:
\* the step generators never learn of a move too late.
MovesInOrder ==
  [][th'.trapq.start # th.trapq.start =>
       /\ th'.trapq.start >= th.trapq.end
       /\ th'.trapq.start >= th.generated + th.kin_flush_delay]_vars

\* When the position is set or the smoothing changed, all steps of the moves
\* before have been generated, until the smoothed movement has come to rest.
SetAtRest ==
  [][SetPosition \/ (\E d \in Delays : NoteScanTime(d)) =>
       th'.generated >= th'.trapq.rest]_vars

\* While steps are left to flush somebody will flush them: the flush timer is
\* armed unless the drip mode does its work.
FlushArmed ==
  /\ th.state = "Drip" <=> greenlet.at = "drip"
  /\ th.state = "Drip" => th.flush_timer = Never /\ ~th.do_kick
  /\ th.state # "Drip" => (th.do_kick <=> th.flush_timer = Never)
  /\ th.do_kick => th.last_flush_time >= th.need_flush_time

\* If the reactor is not too late, steps reach the micro-controller before it
\* gets to them, and the next move is not given a time that has passed.
InTime ==
  /\ now < th.last_flush_time \/ th.need_flush_time <= th.last_flush_time
  /\ th.state = "main" => now < th.print_time

\* Every command that waits, for room or for its move to end, comes back.
CommandsEnd == greenlet.at # "idle" ~> greenlet.at = "idle"

\* What has been queued is flushed to the micro-controllers in the end.
AllFlushed  == [](th.queue > 0 \/ th.need_flush_time > th.last_flush_time
                  => <>(th.queue = 0 /\ th.need_flush_time <= th.last_flush_time))

=============================================================================
