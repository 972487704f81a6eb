---------------------------- MODULE IdleTimeout ----------------------------
(***************************************************************************)
(* The idle_timeout of extras/idle_timeout.py together with the ToolHead:  *)
(* the printer is "Printing" from the moment the toolhead takes up the     *)
(* print time until it has been still for READY_TIMEOUT, then "Ready", and *)
(* when nothing has happened for the timeout a script turns the heaters    *)
(* and motors off and it is "Idle".                                        *)
(***************************************************************************)
EXTENDS ToolHead

CONSTANTS READY_TIMEOUT,
          Timeouts, FirstTimeout  \* values of idle_timeout

ASSUME IdleAssumption ==
  /\ READY_TIMEOUT \in Nat \ {0}
  /\ Timeouts \subseteq Nat \ {0} /\ FirstTimeout \in Timeouts

VARIABLE
  idle  \* the fields of IdleTimeout; script: the handler runs idle_gcode;
        \* ahead (history): the print time that the script has left lies ahead

idleVars == <<vars, idle>>

IdleInit == /\ Init
            /\ idle = [state |-> "Idle", timer |-> Never, script |-> FALSE,
                       timeout |-> FirstTimeout, ahead |-> FALSE]

-----------------------------------------------------------------------------
\* handle_sync_print_time.  The toolhead sends the estimated and then the
\* print time, and the handler takes them the other way round.
CheckTime == READY_TIMEOUT + now - th'.synced

\* Mutant: only a printer that was off begins to print.
HandleSync_Idle ==
  idle' = IF th'.synced = 0 \/ idle.state # "Idle" THEN idle
          ELSE [idle EXCEPT !.state = "Printing", !.timer = now + CheckTime]

\* Mutant: the timer is not armed.
HandleSync_Untimed ==
  idle' = IF th'.synced = 0 \/ idle.state = "Printing" THEN idle
          ELSE [idle EXCEPT !.state = "Printing"]

HandleSync ==
  idle' = IF th'.synced = 0 \/ idle.state = "Printing" THEN idle
          ELSE [idle EXCEPT !.state = "Printing", !.timer = now + CheckTime]

TimerFires == Due(idle.timer) /\ th.can_pause
Again(wake) == /\ idle' = [idle EXCEPT !.timer = wake]
               /\ UNCHANGED vars

\* The timer finds the printer shut down.
TimerStops == Due(idle.timer) /\ ~th.can_pause /\ Again(Never)

IdleTime == now - th.print_time

\* check_idle_timeout, when it is too early.
StayReady ==
  /\ TimerFires /\ idle.state = "Ready"
  /\ \/ /\ th.queue > 0 \/ IdleTime < SECOND
        /\ Again(now + idle.timeout)
     \/ /\ th.queue = 0 /\ IdleTime >= SECOND /\ IdleTime < idle.timeout
        /\ Again(now + idle.timeout - IdleTime)
     \/ /\ th.queue = 0 /\ IdleTime >= SECOND /\ IdleTime >= idle.timeout
        /\ greenlet # Idle
        /\ Again(now + SECOND)

\* Mutant: moves in the lookahead queue are not seen.
Elapsed_Blind == IdleTime >= SECOND /\ IdleTime >= idle.timeout /\ greenlet = Idle

\* The conditions under which the script runs.
Elapsed == /\ th.queue = 0 /\ IdleTime >= SECOND /\ IdleTime >= idle.timeout
           /\ greenlet = Idle

\* transition_idle_state: the script turns the motors off, with a dwell.
StartScript ==
  /\ TimerFires /\ idle.state = "Ready" /\ Elapsed
  /\ idle' = [idle EXCEPT !.state = "Printing", !.timer = Never,
                          !.script = TRUE]
  /\ \E d \in Durations : CheckPause(Dwelt(TH, d), 0)
  /\ UNCHANGED <<now, given>>

ScriptOver == idle.script /\ greenlet = Idle

ScriptEnds ==
  /\ ScriptOver
  /\ th' = LastMoveTime(TH)
  /\ idle' = [idle EXCEPT !.state = "Idle", !.script = FALSE,
                          !.ahead = th'.print_time > now]
  /\ UNCHANGED <<now, greenlet, completed, given>>

\* The failures of the script are counted among the commands.
ScriptFails ==
  /\ ScriptOver /\ given < MaxCommands
  /\ given' = given + 1 /\ th' = TH
  /\ idle' = [idle EXCEPT !.state = "Ready", !.script = FALSE,
                          !.timer = now + SECOND, !.ahead = th.print_time > now]
  /\ UNCHANGED <<now, greenlet, completed>>

\* timeout_handler, while printing.
Buffer == Sooner(2 * SECOND, th.print_time - now)

StayPrinting ==
  /\ TimerFires /\ idle.state # "Ready"
  /\ \/ th.queue > 0 /\ Again(now + READY_TIMEOUT + Later(0, Buffer))
     \/ /\ th.queue = 0 /\ Buffer > -READY_TIMEOUT
        /\ Again(now + READY_TIMEOUT + Buffer)
     \/ /\ th.queue = 0 /\ Buffer <= -READY_TIMEOUT /\ greenlet # Idle
        /\ Again(now + READY_TIMEOUT)

BecomeReady ==
  /\ TimerFires /\ idle.state # "Ready"
  /\ th.queue = 0 /\ Buffer <= -READY_TIMEOUT /\ greenlet = Idle
  /\ idle' = [idle EXCEPT !.state = "Ready", !.timer = now + idle.timeout]
  /\ UNCHANGED vars

SetIdleTimeout(t) ==
  /\ Command /\ ~idle.script /\ t # idle.timeout
  /\ th' = TH /\ UNCHANGED <<greenlet, completed>>
  /\ idle' = [idle EXCEPT !.timeout = t,
                          !.timer = IF idle.state = "Ready" THEN now + t ELSE @]

AllWakes == Wakes \union ({idle.timer} \ {Never})
IdleTick == ~ScriptOver /\ Elapse(AllWakes)
            /\ idle' = [idle EXCEPT !.ahead = @ /\ th.print_time > now']

\* The end of the script is not interrupted by a command.
Motion == (GiveCommand /\ ~idle.script) \/ Work \/ Complete \/ Shutdown

IdleNext ==
  \/ Motion /\ HandleSync
  \/ IdleTick \/ TimerStops \/ StayReady \/ StartScript \/ ScriptEnds \/ ScriptFails
  \/ StayPrinting \/ BecomeReady
  \/ \E t \in Timeouts : SetIdleTimeout(t)

IdleSpec == IdleInit /\ [][IdleNext]_idleVars
\* The reactor comes to the end of what is due, and time goes on.
AllDone == ~ScriptOver /\ \A w \in AllWakes : now < w
IdleFairSpec == IdleSpec /\ []<>AllDone /\ WF_idleVars(IdleTick)

-----------------------------------------------------------------------------
(* What is correct.                                                        *)

\* While moves are executed, or wait for it, the printer says so.  But a
\* command that comes before the print time that the script has left passes
\* needs no new print time, and nothing tells the printer that it moves again.
BusyKnown ==
  th.can_pause /\ th.trapq.end > now => idle.state = "Printing" \/ idle.ahead

\* The motors are turned off only when nothing is left to move.
OffAtRest ==
  [][idle'.script /\ ~idle.script =>
       th.trapq.end <= now /\ th.queue = 0
       /\ th.need_flush_time <= th.last_flush_time]_idleVars

\* When no more commands come, the printer turns itself off, or is off as far
\* as it knows.
TurnsOff == []<>(idle.state = "Idle" \/ ~th.can_pause)

\* All work ends: commands come back, what is queued is flushed, and then the
\* printer turns itself off.
WorkEnds == CommandsEnd /\ AllFlushed /\ TurnsOff

=============================================================================
