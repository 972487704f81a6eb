---------------------------- MODULE CommandQueue ----------------------------
(***************************************************************************)
(* When the background thread of chelper/serialqueue.c sends.  Threads     *)
(* leave commands in queues; a command has a clock before which it must    *)
(* not arrive and one by which it is wanted.  The background thread sleeps *)
(* on a timer, which senders cut short with a byte in a pipe -- but only   *)
(* when need_kick_clock says that the timer would come too late.           *)
(*                                                                         *)
(* A queue is first in, first out, so it is one sequence with two marks:   *)
(* ready_queue lies between `gone` and `moved`, upcoming_queue behind      *)
(* `moved`.  Clocks count in seconds; a byte is the length of a command    *)
(* and the time it takes on the line.  The clock estimate is known, and    *)
(* of the window only MAX_PENDING_BLOCKS counts here (see SerialQueue).    *)
(***************************************************************************)
EXTENDS Integers, Sequences, FiniteSetsExt

CONSTANTS
  Queues,        \* struct command_queue
  Clocks,        \* clocks a sender may ask for
  Background,    \* BACKGROUND_PRIORITY_CLOCK
  NoClock,       \* MAX_CLOCK and PR_NEVER
  Horizon,       \* 1 << 31
  ReqDelta,      \* MIN_REQTIME_DELTA
  BgDelta,       \* MIN_BACKGROUND_DELTA
  Payload,       \* MESSAGE_PAYLOAD_MAX, in commands
  MaxBlocks,     \* MAX_PENDING_BLOCKS
  MaxQueued,     \* bound: commands of one queue
  LastTime       \* bound: the last moment

ASSUME QueueAssumption ==
  /\ Clocks \subseteq Nat /\ Background \in Nat /\ NoClock \in Nat
  /\ Horizon \in Nat /\ ReqDelta \in Nat /\ BgDelta \in Nat
  /\ MaxBlocks \in Nat \ {0} /\ MaxQueued \in Nat /\ LastTime \in Nat

Marks == [Queues -> 0..MaxQueued]
Commands ==
  {c \in [min : Clocks, req : Clocks \cup {Background}] : c.min <= c.req}
Batches ==
  {<<c>> : c \in Commands} \cup {<<c, d>> : c \in Commands, d \in Commands}

VARIABLES
  log, moved, gone,   \* the commands of each queue and its two marks
  need_kick,          \* need_kick_clock
  waking,             \* senders about to write to the pipe
  pipe,               \* whether there is something in it
  cmd_timer,          \* waketime of SQPT_COMMAND
  idle_time,
  in_flight,          \* blocks not acknowledged
  bg,                 \* what the background thread does
  eventtime, buflen,  \* its locals in command_event,
  block,              \* and the commands in the block it builds
  clock               \* the time

lineVars == <<idle_time, in_flight>>
cqVars == <<log, moved, gone, need_kick, waking, pipe, cmd_timer, lineVars,
            bg, eventtime, buflen, block, clock>>

CommandInit ==
  /\ log = [q \in Queues |-> << >>]
  /\ moved = [q \in Queues |-> 0] /\ gone = [q \in Queues |-> 0]
  /\ need_kick = NoClock /\ waking = 0 /\ pipe = FALSE
  /\ cmd_timer = NoClock /\ idle_time = 0 /\ in_flight = 0
  /\ bg = "idle" /\ eventtime = 0 /\ buflen = 0 /\ block = 0 /\ clock = 0

-----------------------------------------------------------------------------
(* The senders.                                                            *)

\* A command is not sent more than half a turn of the clock ahead.
NotTooEarly(c) ==
  IF c.min + Horizon < c.req /\ c.req # Background
  THEN [c EXCEPT !.min = c.req - Horizon] ELSE c

\* Mutant: a sender looks at the clock the command is wanted by.
MustWake_Late(c) == c.req < need_kick

MustWake(c) == c.min < need_kick

\* serialqueue_send_batch, with the lock; the first command of the batch
\* decides, the others are behind it anyway.
SendBatch(q, batch) ==
  /\ bg = "idle" /\ Len(log[q]) + Len(batch) <= MaxQueued
  /\ log' = [log EXCEPT ![q] =
               @ \o [k \in DOMAIN batch |-> NotTooEarly(batch[k])]]
  /\ IF MustWake(NotTooEarly(batch[1]))
     THEN need_kick' = 0 /\ waking' = waking + 1
     ELSE UNCHANGED <<need_kick, waking>>
  /\ UNCHANGED <<moved, gone, pipe, cmd_timer, lineVars, bg, eventtime, buflen,
                 block, clock>>

\* kick_bg_thread, after the lock was released.
KickThread ==
  /\ waking > 0 /\ waking' = waking - 1 /\ pipe' = TRUE
  /\ UNCHANGED <<log, moved, gone, need_kick, cmd_timer, lineVars, bg,
                 eventtime, buflen, block, clock>>

-----------------------------------------------------------------------------
(* The background thread.                                                  *)

KickEvent ==
  /\ bg = "idle" /\ pipe
  /\ pipe' = FALSE /\ cmd_timer' = 0
  /\ UNCHANGED <<log, moved, gone, need_kick, waking, lineVars, bg, eventtime,
                 buflen, block, clock>>

\* update_receive_seq: blocks are acknowledged.
AckEvent ==
  /\ bg = "idle" /\ in_flight > 0
  /\ in_flight' \in 0..(in_flight - 1) /\ cmd_timer' = 0
  /\ UNCHANGED <<log, moved, gone, need_kick, waking, pipe, idle_time, bg,
                 eventtime, buflen, block, clock>>

CommandEvent ==
  /\ bg = "idle" /\ cmd_timer <= clock
  /\ bg' = "check" /\ eventtime' = clock /\ buflen' = 0
  /\ UNCHANGED <<log, moved, gone, need_kick, waking, pipe, cmd_timer,
                 lineVars, block, clock>>

LineFree == IF eventtime > idle_time THEN eventtime ELSE idle_time

\* When the smallest block would arrive behind what is in the buffer.
AckClock == LineFree + buflen + 1

\* m is how far the commands of each queue may be moved to ready_queue.
Stalls(m) ==
  \A q \in Queues :
    /\ m[q] \in moved[q]..Len(log[q])
    /\ \A k \in (moved[q] + 1)..m[q] : log[q][k].min <= AckClock
    /\ m[q] < Len(log[q]) => log[q][m[q] + 1].min > AckClock

\* Commands without a clock wait until the line has been idle for a while.
WantedBy(c) ==
  IF c.req # Background THEN c.req
  ELSE (IF buflen > 0 THEN AckClock ELSE idle_time) + ReqDelta + BgDelta

ReadyClocks(m) ==
  { WantedBy(log[q][gone[q] + 1]) : q \in {p \in Queues : gone[p] < m[p]} }
StalledClocks(m) ==
  { log[q][m[q] + 1].min : q \in {p \in Queues : m[p] < Len(log[p])} }

ReadyCommands(m) == MapThenSumSet(LAMBDA q : m[q] - gone[q], Queues)

SendNow(m) ==
  \/ ReadyCommands(m) >= Payload
  \/ \E c \in ReadyClocks(m) : c <= AckClock + ReqDelta

WakeClocks(m) ==
  {c - ReqDelta : c \in ReadyClocks(m) \cup {NoClock}} \cup StalledClocks(m)

\* command_event ends: the blocks are written, the timer is set.
Sleep(wake) ==
  /\ bg' = "idle" /\ cmd_timer' = wake /\ buflen' = 0 /\ eventtime' = 0
  /\ idle_time' = IF buflen > 0 THEN LineFree + buflen ELSE idle_time
  /\ UNCHANGED <<log, gone, waking, pipe, in_flight, block, clock>>

WindowClosed ==
  /\ bg = "check" /\ in_flight >= MaxBlocks
  /\ Sleep(NoClock) /\ UNCHANGED <<moved, need_kick>>

NothingToSend ==
  /\ bg = "check" /\ in_flight < MaxBlocks
  /\ moved' \in Marks /\ Stalls(moved') /\ ~SendNow(moved')
  /\ \E want \in WakeClocks(moved') :
       /\ \A c \in WakeClocks(moved') : want <= c
       /\ need_kick' = want /\ Sleep(want)

StartBlock ==
  /\ bg = "check" /\ in_flight < MaxBlocks
  /\ moved' \in Marks /\ Stalls(moved') /\ SendNow(moved')
  /\ bg' = "build"
  /\ UNCHANGED <<log, gone, need_kick, waking, pipe, cmd_timer, lineVars,
                 eventtime, buflen, block, clock>>

\* build_and_send_command takes the most urgent command of all; the order of
\* pending_queues, which decides between equals, is left open.
TakeCommand(q) ==
  /\ bg = "build" /\ block < Payload /\ gone[q] < moved[q]
  /\ \A p \in Queues :
       gone[p] < moved[p] => log[q][gone[q] + 1].req <= log[p][gone[p] + 1].req
  /\ gone' = [gone EXCEPT ![q] = @ + 1] /\ block' = block + 1
  /\ UNCHANGED <<log, moved, need_kick, waking, pipe, cmd_timer, lineVars, bg,
                 eventtime, buflen, clock>>

CloseBlock ==
  /\ bg = "build" /\ (block = Payload \/ gone = moved)
  /\ buflen' = buflen + block + 1 /\ in_flight' = in_flight + 1
  /\ bg' = "check" /\ block' = 0
  /\ UNCHANGED <<log, moved, gone, need_kick, waking, pipe, cmd_timer,
                 idle_time, eventtime, clock>>

PassTime ==
  /\ clock < LastTime /\ clock' = clock + 1
  /\ UNCHANGED <<log, moved, gone, need_kick, waking, pipe, cmd_timer,
                 lineVars, bg, eventtime, buflen, block>>

-----------------------------------------------------------------------------
CommandNext ==
  \/ KickThread \/ KickEvent \/ AckEvent \/ CommandEvent \/ WindowClosed
  \/ NothingToSend \/ StartBlock \/ CloseBlock \/ PassTime
  \/ \E q \in Queues :
       \/ TakeCommand(q)
       \/ \E batch \in Batches : SendBatch(q, batch)

CommandSpec == CommandInit /\ [][CommandNext]_cqVars
-----------------------------------------------------------------------------
(* Properties.                                                             *)

\* The types of the variables.
CommandTypes ==
  /\ log \in [Queues -> Seq([min : Int, req : Nat])]
  /\ moved \in Marks /\ gone \in Marks
  /\ need_kick \in Int /\ cmd_timer \in Int
  /\ waking \in Nat /\ pipe \in BOOLEAN /\ idle_time \in Nat
  /\ in_flight \in Nat /\ bg \in {"idle", "check", "build"}
  /\ eventtime \in Nat /\ buflen \in Nat /\ block \in Nat /\ clock \in Nat

\* By when a command at the head of a queue has to be looked at: before it is
\* wanted, or once the line has been idle.
LookAt(c) == IF c.req # Background THEN c.req - ReqDelta
             ELSE idle_time + 1 + BgDelta

\* Nothing is overslept.  Whenever the background thread sleeps, no wakeup is
\* under way and the window is open, its timer is set for the first command
\* of every queue: early enough for one that is ready, and for one that is
\* stalled when it may be sent -- although senders skip the wakeup whenever
\* need_kick_clock lets them (serialqueue.c:542-578, 800-812).
NotOverslept ==
  (bg = "idle" /\ waking = 0 /\ ~pipe /\ in_flight < MaxBlocks) =>
    cmd_timer = 0 \/ \A q \in Queues :
      /\ gone[q] < moved[q] => cmd_timer <= LookAt(log[q][gone[q] + 1])
      /\ moved[q] < Len(log[q]) => cmd_timer <= log[q][moved[q] + 1].min

=============================================================================
