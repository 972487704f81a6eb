------------------------------ MODULE Homing ------------------------------
(***************************************************************************)
(* A homing move that several micro-controllers take part in: the          *)
(* TriggerDispatch of mcu.py with its MCU_trsync objects, the dispatcher   *)
(* of chelper/trdispatch.c that runs in the serial threads, and the query  *)
(* by which the host asks each controller in the end what stopped it.      *)
(*                                                                         *)
(* Controller 1 has the endstop.  A controller stops its motors when it is *)
(* told to, when its endstop is hit, or when its time runs out; the host   *)
(* extends the time of each by what the others reported.  The link to a    *)
(* controller is the one of ReliableLink: commands arrive in order and     *)
(* exactly once, and an acknowledgement comes after the responses.  What a *)
(* controller reports may be lost.  Anything may be delayed.               *)
(*                                                                         *)
(* Clocks of the controllers are converted to one time without error.      *)
(***************************************************************************)
EXTENDS TriggerTimes, Sequences, FiniteSets

ToSet(s) == {s[i] : i \in DOMAIN s}

CONSTANTS
  MinExtend,  \* min_extend_ticks: smaller extensions are not sent
  Retries,    \* how often a query is repeated
  Lossy,      \* whether reports may be lost
  MaxTime,    \* bound: the last moment
  MaxRounds,  \* bound: homing moves
  Cap         \* bound: messages in a channel when a controller adds one

ASSUME HomingAssumption ==
  /\ MinExtend \in Nat \ {0} /\ Retries \in Nat /\ Lossy \in BOOLEAN
  /\ MaxTime \in Nat \ {0} /\ MaxRounds \in Nat /\ Cap \in Nat

\* Why a controller stopped; 0: it has not.
EndstopHit  == 1
HostRequest == 2
PastEndTime == 3
CommsTimeout == 4
Reasons == 0..4

VARIABLES
  now,
  \* the controllers
  trsync,      \* trsync object of each
  armed,       \* the endstop is watched
  stopped_at,  \* history: when each stopped in this move
  \* the links
  to_mcu, to_host,
  \* the serial threads: struct trdispatch and struct trdispatch_mcu
  td, tdm,
  callback,    \* the message whose fast reader is about to run, per thread
  \* the python threads
  inbox,       \* messages the C thread has passed on
  handler,     \* what is registered for trsync_state
  awaited,     \* _trigger_completion is set
  home_end,    \* _home_end_clock of the endstop's trsync, 0 if unset
  last_params, \* of the query: the last message seen, or none
  acked,       \* its acknowledgement has come
  \* the greenlet that homes
  main, k, retries, completed, result, outcome, round

mcuVars    == <<trsync, armed, stopped_at>>
threadVars == <<td, tdm, callback>>
pythonVars == <<inbox, handler, awaited, home_end, last_params, acked>>
mainVars   == <<main, k, retries, result, outcome, round>>
vars == <<now, mcuVars, to_mcu, to_host, threadVars, pythonVars, completed,
          mainVars>>

-----------------------------------------------------------------------------
(* Messages.                                                               *)

Command == [cmd : {"start", "set_timeout", "home"}, arg : Nat]
           \cup [cmd : {"trigger", "query"}, arg : Reasons]
Cmd(cmd, arg) == [cmd |-> cmd, arg |-> arg]

\* trsync_state, and an acknowledgement.  `answer` is history: the message
\* answers a query.
Message == [kind : {"state", "ack"}, can_trigger : BOOLEAN, reason : Reasons,
            clock : Nat, answer : BOOLEAN]
State(can_trigger, reason, clock, answer) ==
  [kind |-> "state", can_trigger |-> can_trigger, reason |-> reason,
   clock |-> clock, answer |-> answer]
AckMessage == [kind |-> "ack", can_trigger |-> FALSE, reason |-> 0,
               clock |-> 0, answer |-> FALSE]
None == State(FALSE, 0, 0, FALSE)

Send(m, commands) == to_mcu' = [to_mcu EXCEPT ![m] = @ \o commands]
Reply(m, messages) == to_host' = [to_host EXCEPT ![m] = @ \o messages]

-----------------------------------------------------------------------------
(* The controllers.                                                        *)

\* next_report: when a report is due; 0: never.
Off == [next_report |-> 0, can_trigger |-> FALSE, reason |-> 0, expire |-> 0]

Init ==
  /\ now = 1
  /\ trsync = [m \in Mcu |-> Off] /\ armed = FALSE
  /\ stopped_at = [m \in Mcu |-> 0]
  /\ to_mcu = [m \in Mcu |-> << >>] /\ to_host = [m \in Mcu |-> << >>]
  /\ td = [is_active |-> FALSE, can_trigger |-> FALSE]
  /\ tdm = [m \in Mcu |-> [status |-> 0, expire |-> 0, reader |-> FALSE]]
  /\ callback = [m \in Mcu |-> << >>]
  /\ inbox = [m \in Mcu |-> << >>] /\ handler = [m \in Mcu |-> "none"]
  /\ awaited = [m \in Mcu |-> FALSE] /\ home_end = 0
  /\ last_params = None /\ acked = FALSE
  /\ main = "idle" /\ k = 1 /\ retries = 0 /\ completed = FALSE
  /\ result = [m \in Mcu |-> None] /\ outcome = "none" /\ round = 0

\* The trigger of controller m: only the first one counts.
Triggered(m, reason) ==
  IF trsync[m].can_trigger
  THEN [trsync[m] EXCEPT !.can_trigger = FALSE, !.reason = reason]
  ELSE trsync[m]
NoteStop(m) ==
  stopped_at' = IF trsync[m].can_trigger
                THEN [stopped_at EXCEPT ![m] = now] ELSE stopped_at

McuExecute(m) ==
  /\ to_mcu[m] # << >>
  /\ to_mcu' = [to_mcu EXCEPT ![m] = Tail(@)]
  /\ LET c == Head(to_mcu[m]) IN
     \/ /\ c.cmd = "start"
        /\ trsync' = [trsync EXCEPT ![m] = [Off EXCEPT !.next_report = now,
                                                       !.can_trigger = TRUE]]
        /\ UNCHANGED <<armed, stopped_at, to_host>>
     \/ /\ c.cmd = "set_timeout"
        /\ trsync' = IF trsync[m].can_trigger
                     THEN [trsync EXCEPT ![m].expire = c.arg] ELSE trsync
        /\ UNCHANGED <<armed, stopped_at, to_host>>
     \/ /\ c.cmd \in {"trigger", "query"} /\ Len(to_host[m]) < Cap
        /\ LET t == [Triggered(m, c.arg) EXCEPT !.next_report = 0]
               s == State(FALSE, t.reason, 0, c.cmd = "query")
           IN /\ trsync' = [trsync EXCEPT ![m] = t]
              /\ NoteStop(m)
              /\ Reply(m, IF c.cmd = "query" THEN << s, AckMessage >>
                                             ELSE << s >>)
        /\ UNCHANGED armed
     \/ /\ c.cmd = "home"
        /\ armed' = (c.arg = 1)
        /\ UNCHANGED <<trsync, stopped_at, to_host>>
  /\ UNCHANGED <<now, threadVars, pythonVars, completed, mainVars>>

\* Once in every unit of time, in the last one again and again.
McuReport(m) ==
  /\ trsync[m].next_report \in 1..now /\ Len(to_host[m]) < Cap
  /\ trsync' = [trsync EXCEPT ![m].next_report =
                              IF now < MaxTime THEN now + 1 ELSE now]
  /\ Reply(m, << State(trsync[m].can_trigger, trsync[m].reason, now, FALSE) >>)
  /\ UNCHANGED <<now, armed, stopped_at, to_mcu, threadVars, pythonVars,
                 completed, mainVars>>

\* A report is due at once.
McuStops(m, reason) ==
  /\ trsync[m].can_trigger
  /\ trsync' = [trsync EXCEPT ![m] = [Triggered(m, reason)
                                        EXCEPT !.next_report = now]]
  /\ NoteStop(m)
  /\ UNCHANGED <<now, armed, to_mcu, to_host, threadVars, pythonVars,
                 completed, mainVars>>

McuHit == armed /\ McuStops(1, EndstopHit)

Expired(m) == trsync[m].can_trigger /\ trsync[m].expire # 0
              /\ now >= trsync[m].expire
McuExpires(m) == Expired(m) /\ McuStops(m, CommsTimeout)

\* Timers of the controllers are exact: time waits for them.
Tick ==
  /\ now < MaxTime /\ \A m \in Mcu : ~Expired(m)
  /\ now' = now + 1
  /\ UNCHANGED <<mcuVars, to_mcu, to_host, threadVars, pythonVars, completed,
                 mainVars>>

LoseReport(m) ==
  /\ Lossy /\ to_host[m] # << >> /\ Head(to_host[m]).kind = "state"
  /\ to_host' = [to_host EXCEPT ![m] = Tail(@)]
  /\ UNCHANGED <<now, mcuVars, to_mcu, threadVars, pythonVars, completed,
                 mainVars>>

-----------------------------------------------------------------------------
(* The serial thread of controller m: handle_message passes a message on   *)
(* and then, without the lock, runs the fast reader registered for it.     *)

Deliver(m) ==
  /\ to_host[m] # << >> /\ callback[m] = << >> /\ Len(inbox[m]) < Cap
  /\ to_host' = [to_host EXCEPT ![m] = Tail(@)]
  /\ inbox' = [inbox EXCEPT ![m] = Append(@, Head(to_host[m]))]
  /\ callback' = [callback EXCEPT ![m] =
       IF tdm[m].reader /\ Head(to_host[m]).kind = "state"
       THEN << Head(to_host[m]) >> ELSE << >>]
  /\ UNCHANGED <<now, mcuVars, to_mcu, td, tdm, handler, awaited, home_end,
                 last_params, acked, completed, mainVars>>

\* The expiry of controller m, if it is worth a message.
Status(t) == [m \in Mcu |-> t[m].status]
NeedsExtension(t, m) == Extended(Status(t), m) >= t[m].expire + MinExtend

\* handle_trsync_state, one call of it.
Callback(m) ==
  /\ callback[m] # << >>
  /\ callback' = [callback EXCEPT ![m] = << >>]
  /\ LET s == callback[m][1]
         t == [tdm EXCEPT ![m].status = s.clock]
     IN \/ /\ ~td.can_trigger
           /\ UNCHANGED <<td, tdm, to_mcu>>
        \/ /\ td.can_trigger /\ ~s.can_trigger
           /\ td' = [td EXCEPT !.can_trigger = FALSE]
           /\ to_mcu' = [n \in Mcu |->
                           Append(to_mcu[n], Cmd("trigger", HostRequest))]
           /\ UNCHANGED tdm
        \/ /\ td.can_trigger /\ s.can_trigger
           /\ tdm' = [n \in Mcu |-> IF NeedsExtension(t, n)
                        THEN [t[n] EXCEPT !.expire = Extended(Status(t), n)]
                        ELSE t[n]]
           /\ to_mcu' = [n \in Mcu |-> IF NeedsExtension(t, n)
                THEN Append(to_mcu[n],
                            Cmd("set_timeout", Extended(Status(t), n)))
                ELSE to_mcu[n]]
           /\ UNCHANGED td
  /\ UNCHANGED <<now, mcuVars, to_host, pythonVars, completed, mainVars>>

-----------------------------------------------------------------------------
(* The python thread of controller m.                                      *)

\* Mutant: the last moment does not count.
PastEnd_Strict(m, s) == m = 1 /\ home_end # 0 /\ s.clock > home_end

\* The move of the endstop's controller is over.
PastEnd(m, s) == m = 1 /\ home_end # 0 /\ s.clock >= home_end

\* _handle_trsync_state.
HandleState(m, s) ==
  IF ~s.can_trigger
  THEN /\ completed' = (completed \/ awaited[m])
       /\ awaited' = [awaited EXCEPT ![m] = FALSE]
       /\ UNCHANGED <<to_mcu, home_end>>
  ELSE /\ IF PastEnd(m, s)
          THEN home_end' = 0 /\ Send(m, << Cmd("trigger", PastEndTime) >>)
          ELSE UNCHANGED <<to_mcu, home_end>>
       /\ UNCHANGED <<completed, awaited>>

Read(m) ==
  /\ inbox[m] # << >>
  /\ inbox' = [inbox EXCEPT ![m] = Tail(@)]
  /\ LET s == Head(inbox[m]) IN
     \/ /\ s.kind = "ack" /\ acked' = TRUE
        /\ UNCHANGED <<to_mcu, awaited, home_end, last_params, completed>>
     \/ /\ s.kind = "state" /\ handler[m] = "state" /\ HandleState(m, s)
        /\ UNCHANGED <<last_params, acked>>
     \/ /\ s.kind = "state" /\ handler[m] = "query"
        /\ last_params' = s
        /\ UNCHANGED <<to_mcu, awaited, home_end, acked, completed>>
     \/ /\ s.kind = "state" /\ handler[m] = "none"
        /\ UNCHANGED <<to_mcu, awaited, home_end, last_params, acked,
                       completed>>
  /\ UNCHANGED <<now, mcuVars, to_host, threadVars, handler, mainVars>>

-----------------------------------------------------------------------------
(* The greenlet that homes.                                                *)

\* TriggerDispatch.start: each trsync is set up and started, and
\* trdispatch_start makes the dispatcher active.  No reader is registered, so
\* nobody looks at it before.
Start ==
  /\ main = "idle" /\ round < MaxRounds /\ now + Expire <= MaxTime
  /\ main' = "readers" /\ k' = 1 /\ round' = round + 1 /\ outcome' = "none"
  /\ completed' = FALSE /\ home_end' = 0
  /\ td' = [is_active |-> TRUE, can_trigger |-> TRUE]
  /\ tdm' = [m \in Mcu |-> [tdm[m] EXCEPT !.status = now,
                                          !.expire = now + Expire]]
  /\ handler' = [m \in Mcu |-> "state"] /\ awaited' = [m \in Mcu |-> TRUE]
  /\ to_mcu' = [m \in Mcu |-> to_mcu[m] \o
                  << Cmd("start", 0), Cmd("set_timeout", now + Expire) >>]
  /\ stopped_at' = [m \in Mcu |-> now]
  /\ UNCHANGED <<now, trsync, armed, to_host, callback, inbox, last_params,
                 acked, retries, result>>

\* The readers are registered one by one; then the endstop is watched.
AddReader ==
  /\ main = "readers"
  /\ tdm' = [tdm EXCEPT ![k].reader = TRUE]
  /\ IF k < N
     THEN k' = k + 1 /\ UNCHANGED <<main, to_mcu>>
     ELSE main' = "moving" /\ k' = 1 /\ Send(1, << Cmd("home", 1) >>)
  /\ UNCHANGED <<now, mcuVars, to_host, td, callback, pythonVars, completed,
                 retries, result, outcome, round>>

\* wait_end, when the move has been sent as far as it will be: it ends in
\* the last moment of the model.
WaitEnd ==
  /\ main = "moving" /\ main' = "waiting"
  /\ home_end' = MaxTime
  /\ UNCHANGED <<now, mcuVars, to_mcu, to_host, threadVars, inbox, handler,
                 awaited, last_params, acked, completed, k, retries, result,
                 outcome, round>>

\* home_wait goes on: trdispatch_stop.
Stop ==
  /\ main = "waiting" /\ completed
  /\ Send(1, << Cmd("home", 0) >>)
  /\ td' = [td EXCEPT !.is_active = FALSE]
  /\ main' = "remove"
  /\ UNCHANGED <<now, mcuVars, to_host, tdm, callback, pythonVars, completed,
                 k, retries, result, outcome, round>>

\* Mutant: a reader is removed while it is running.
RemoveReader_Unlocked ==
  /\ main = "remove"
  /\ tdm' = [tdm EXCEPT ![k].reader = FALSE]
  /\ IF k < N THEN k' = k + 1 /\ UNCHANGED main
              ELSE k' = 1 /\ main' = "query"
  /\ UNCHANGED <<now, mcuVars, to_mcu, to_host, td, callback, pythonVars,
                 completed, retries, result, outcome, round>>

\* serialqueue_rm_fastreader waits for a reader that is running.
RemoveReader ==
  /\ main = "remove" /\ callback[k] = << >>
  /\ tdm' = [tdm EXCEPT ![k].reader = FALSE]
  /\ IF k < N THEN k' = k + 1 /\ UNCHANGED main
              ELSE k' = 1 /\ main' = "query"
  /\ UNCHANGED <<now, mcuVars, to_mcu, to_host, td, callback, pythonVars,
                 completed, retries, result, outcome, round>>

\* MCU_trsync.stop: trsync k is asked.
Query ==
  /\ main = "query"
  /\ handler' = [handler EXCEPT ![k] = "query"]
  /\ awaited' = [awaited EXCEPT ![k] = FALSE]
  /\ last_params' = None
  /\ acked' = FALSE /\ retries' = Retries
  /\ Send(k, << Cmd("query", HostRequest) >>)
  /\ main' = "answer"
  /\ UNCHANGED <<now, mcuVars, to_host, threadVars, inbox, home_end, completed,
                 k, result, outcome, round>>

\* Mutant: only the controller of the endstop is asked.
Outcome_First(r) ==
  IF r[1].reason >= CommsTimeout THEN "timeout"
  ELSE IF r[1].reason = EndstopHit THEN "hit" ELSE "no_trigger"

Outcome(r) ==
  IF \E m \in Mcu : r[m].reason >= CommsTimeout THEN "timeout"
  ELSE IF r[1].reason = EndstopHit THEN "hit" ELSE "no_trigger"

\* Mutant: the first message seen is the answer.
Answered_Early == acked \/ last_params # None

\* SerialRetryCommand waits for the acknowledgement of the command.
Answered == acked

\* SerialRetryCommand: once the query is acknowledged, the last message of
\* this kind is its answer.
Answer ==
  /\ main = "answer" /\ Answered
  /\ \/ /\ last_params # None
        /\ handler' = [handler EXCEPT ![k] = "none"]
        /\ result' = [result EXCEPT ![k] = last_params]
        /\ IF k < N
           THEN main' = "query" /\ k' = k + 1 /\ UNCHANGED outcome
           ELSE main' = "idle" /\ k' = 1 /\ outcome' = Outcome(result')
        /\ UNCHANGED <<to_mcu, retries, acked>>
     \/ /\ last_params = None /\ retries > 0
        /\ retries' = retries - 1 /\ acked' = FALSE
        /\ Send(k, << Cmd("query", HostRequest) >>)
        /\ UNCHANGED <<handler, result, main, k, outcome>>
     \/ /\ last_params = None /\ retries = 0
        /\ handler' = [handler EXCEPT ![k] = "none"]
        /\ main' = "idle" /\ k' = 1 /\ outcome' = "error"
        /\ UNCHANGED <<to_mcu, retries, acked, result>>
  /\ UNCHANGED <<now, mcuVars, to_host, threadVars, inbox, awaited, home_end,
                 last_params, completed, round>>

-----------------------------------------------------------------------------
Main == Start \/ AddReader \/ WaitEnd \/ Stop \/ RemoveReader
        \/ Query \/ Answer

Threads(m) == Deliver(m) \/ Callback(m) \/ Read(m)

\* Everything but the losses
Works ==
  \/ Main \/ Tick \/ McuHit
  \/ \E m \in Mcu : Threads(m) \/ McuExecute(m) \/ McuReport(m)
                    \/ McuExpires(m)

Next == Works \/ \E m \in Mcu : LoseReport(m)

Spec == Init /\ [][Next]_vars

\* Every thread and every controller goes on, and time does; whether the
\* endstop is hit is not known.  A controller that is working reports, and
\* what the bound of the channel keeps it from, it does in the end.
Fairness ==
  /\ WF_vars(Main) /\ WF_vars(Tick)
  /\ \A m \in Mcu : /\ WF_vars(Deliver(m)) /\ WF_vars(Callback(m))
                    /\ WF_vars(Read(m)) /\ SF_vars(McuExecute(m))
                    /\ WF_vars(McuExpires(m)) /\ WF_vars(McuReport(m))

\* A link that loses nothing, or a move might wait for good.
FairSpec == Init /\ [][Works]_vars /\ Fairness

-----------------------------------------------------------------------------
(* Properties.                                                             *)

\* The types of the variables.
Trsync == [next_report : Nat, can_trigger : BOOLEAN, reason : Reasons,
           expire : Nat]
Dispatch == [status : Nat, expire : Nat, reader : BOOLEAN]

McuTypes ==
  /\ now \in 1..MaxTime
  /\ trsync \in [Mcu -> Trsync]
  /\ armed \in BOOLEAN /\ stopped_at \in [Mcu -> 0..MaxTime]
LinkTypes ==
  to_mcu \in [Mcu -> Seq(Command)] /\ to_host \in [Mcu -> Seq(Message)]
ThreadTypes ==
  /\ td \in [is_active : BOOLEAN, can_trigger : BOOLEAN]
  /\ tdm \in [Mcu -> Dispatch]
  /\ callback \in [Mcu -> Seq(Message)] /\ inbox \in [Mcu -> Seq(Message)]
PythonTypes ==
  /\ handler \in [Mcu -> {"none", "state", "query"}]
  /\ awaited \in [Mcu -> BOOLEAN] /\ home_end \in Nat
  /\ last_params \in Message /\ acked \in BOOLEAN /\ completed \in BOOLEAN
MainTypes ==
  /\ main \in {"idle", "readers", "moving", "waiting", "remove", "query",
               "answer"}
  /\ k \in Mcu /\ retries \in 0..Retries /\ round \in 0..MaxRounds
  /\ result \in [Mcu -> Message]
  /\ outcome \in {"none", "hit", "timeout", "no_trigger", "error"}
TypeOK ==
  McuTypes /\ LinkTypes /\ ThreadTypes /\ PythonTypes /\ MainTypes

\* The time a controller has been given ends at most Expire after another
\* one has stopped: whatever is lost or delayed, trdispatch.c never gives it
\* more, because its time follows the reports of the others
\* (trdispatch.c:95-116).
StopTogether ==
  \A a, b \in Mcu :
    (a # b /\ ~trsync[a].can_trigger /\ trsync[b].can_trigger)
      => trsync[b].expire <= stopped_at[a] + Expire

\* Why: until when controller m has gone on for certain; nothing that the
\* host knows or believes of it is later, and no other controller has more
\* time than that and Expire.
Alive(m) == IF trsync[m].can_trigger THEN now ELSE stopped_at[m]

ReportsTrue ==
  \A m \in Mcu :
    /\ stopped_at[m] <= now /\ tdm[m].status <= Alive(m)
    /\ \A s \in ToSet(to_host[m]) \cup ToSet(callback[m]) :
         s.can_trigger => s.clock <= Alive(m)

TimesBounded ==
  \A a, b \in Mcu : a # b =>
    /\ trsync[b].expire <= Alive(a) + Expire
    /\ \A c \in ToSet(to_mcu[b]) :
         c.cmd = "set_timeout" => c.arg <= Alive(a) + Expire

\* When the homing move has ended all controllers have stopped, unless a
\* query went unanswered (mcu.py:278-285).
AllStopped ==
  (main = "idle" /\ round > 0 /\ outcome # "error")
    => \A m \in Mcu : ~trsync[m].can_trigger

\* What home_wait reports is what happened: a hit, that controller 1 stopped
\* at its endstop and nobody ran out of time; a timeout, that somebody did
\* (mcu.py:334-340).  It goes by what the controllers sent in response to the
\* final queries: SerialRetryCommand is the "class to send a query command and
\* return the received response" (serialhdl.py:309-337).
ResultTrue ==
  /\ \A m \in Mcu : result[m] # None => result[m].answer
  /\ main = "idle" =>
       /\ outcome = "timeout" => \E m \in Mcu : trsync[m].reason = CommsTimeout
       /\ outcome = "hit" => /\ trsync[1].reason = EndstopHit
                             /\ \A m \in Mcu : trsync[m].reason # CommsTimeout
       /\ outcome = "no_trigger" =>
            /\ trsync[1].reason \in {HostRequest, PastEndTime}
            /\ \A m \in Mcu : trsync[m].reason # CommsTimeout

\* A homing move is not ended by what an earlier one has left: while a
\* controller has yet to be started, nobody is about to hear that it has
\* stopped (mcu.py:175-183).
NothingLeft ==
  \A m \in Mcu : Cmd("start", 0) \in ToSet(to_mcu[m]) =>
    \A s \in ToSet(to_host[m] \o callback[m] \o inbox[m]) :
      s.kind = "state" /\ s.can_trigger

\* A homing move ends.
HomingEnds == main # "idle" ~> main = "idle"

=============================================================================
