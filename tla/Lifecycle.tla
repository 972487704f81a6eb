------------------------------- MODULE Lifecycle -------------------------------
(***************************************************************************)
(* The life of the printer object (klippy.py) and of its micro-controllers *)
(* (mcu.py): connecting, shutting down, restarting.  The host forgets all  *)
(* when it restarts; a controller keeps its configuration, and that it was *)
(* shut down, until it is reset.                                           *)
(*                                                                         *)
(* A configuration stands for its CRC.  Connecting waits for answers, so   *)
(* reports, callbacks and shutdowns happen between its steps.  Controllers *)
(* are numbered in the order in which they are connected and restarted by  *)
(* command.  cmd_mcu, which the host calls when it ends, may reset any.    *)
(***************************************************************************)
EXTENDS Integers

CONSTANTS
  NumMcus,
  Configs,     \* configurations the user may write
  Unset        \* that of a controller which has none

ASSUME LifeAssumption == NumMcus \in Nat /\ Unset \notin Configs

Mcus == 1..NumMcus

VARIABLES
  \* the controllers
  mcu_config, mcu_down,
  stops,       \* controllers an emergency stop is on its way to
  reports,     \* controllers whose shutdown message is on its way,
  starting,    \* and those whose message that they start is
  \* the host
  config, start_reason,
  state,       \* the state message: startup, ready, or an error
  in_shutdown, run_result,
  stage,       \* of _connect, or "over"
  next_mcu,    \* the controller it is at
  identified,  \* controllers with a session
  is_shutdown, \* controllers known to be shut down
  called,      \* whether invoke_shutdown is queued from another thread
  in_use,      \* history: controllers this run has configured or taken over,
  restarted    \* and those that restarted by themselves meanwhile

mcuState  == <<mcu_config, mcu_down>>
hostState == <<config, start_reason, state, in_shutdown, run_result, stage,
               next_mcu, identified, is_shutdown, called, in_use, restarted>>
lifeVars  == <<mcuState, stops, reports, starting, hostState>>

\* Printer.__init__, and nothing of the printer before
Fresh ==
  /\ state' = "startup" /\ in_shutdown' = FALSE /\ run_result' = "none"
  /\ next_mcu' = 1 /\ identified' = {} /\ is_shutdown' = {} /\ called' = FALSE
  /\ stops' = {} /\ reports' = {} /\ starting' = {}
  /\ in_use' = {} /\ restarted' = {}

LifeInit ==
  /\ mcu_config \in [Mcus -> Configs \cup {Unset}]
  /\ mcu_down \in [Mcus -> BOOLEAN]
  /\ config \in Configs /\ start_reason = "startup"
  /\ state = "startup" /\ in_shutdown = FALSE /\ run_result = "none"
  /\ stage = "identify" /\ next_mcu = 1 /\ identified = {}
  /\ is_shutdown = {} /\ called = FALSE /\ stops = {} /\ reports = {}
  /\ in_use = {} /\ restarted = {} /\ starting = {}

\* What an emergency stop on its way shuts down before the next message.
Down(m) == mcu_down[m] \/ m \in stops

-----------------------------------------------------------------------------
(* The micro-controllers.                                                  *)

\* A shutdown of its own, or the one it is told; it is reported to a host
\* that listens.
McuGoesDown(m) ==
  /\ mcu_down' = [mcu_down EXCEPT ![m] = TRUE]
  /\ reports' = IF m \in identified /\ ~mcu_down[m] THEN reports \cup {m}
                ELSE reports

McuShutsDown ==
  /\ \E m \in Mcus : ~mcu_down[m] /\ McuGoesDown(m)
  /\ UNCHANGED <<mcu_config, stops, starting, hostState>>

McuTakesStop ==
  /\ \E m \in stops : stops' = stops \ {m} /\ McuGoesDown(m)
  /\ UNCHANGED <<mcu_config, starting, hostState>>

\* A restart the host is told of; one restart in each run is enough.
McuRestarts ==
  /\ \E m \in identified \ restarted :
       /\ mcu_config' = [mcu_config EXCEPT ![m] = Unset]
       /\ mcu_down' = [mcu_down EXCEPT ![m] = FALSE]
       /\ restarted' = restarted \cup {m} /\ starting' = starting \cup {m}
  /\ UNCHANGED <<stops, reports, config, start_reason, state, in_shutdown,
                 run_result, stage, next_mcu, identified, is_shutdown, called,
                 in_use>>

-----------------------------------------------------------------------------
(* Shutdown.                                                               *)

\* MCU._handle_shutdown, in the thread of the controller's serial port
HandleShutdown ==
  /\ \E m \in reports : /\ reports' = reports \ {m}
                        /\ is_shutdown' = is_shutdown \cup {m}
                        /\ called' = (called \/ m \notin is_shutdown)
  /\ UNCHANGED <<mcuState, stops, config, start_reason, state, in_shutdown,
                 run_result, stage, next_mcu, identified, in_use, restarted,
                 starting>>

SetError == IF state \in {"ready", "startup"} THEN "error" ELSE state

\* MCU._handle_starting calls invoke_async_shutdown with too few arguments; the
\* thread of the serial port catches the exception and nothing follows.
HandleStarting ==
  /\ \E m \in starting : starting' = starting \ {m}
  /\ UNCHANGED <<mcuState, stops, reports, config, start_reason, state,
                 in_shutdown, run_result, stage, next_mcu, identified,
                 is_shutdown, called, in_use, restarted>>

\* Mutant: only the controllers that were configured are stopped.
ToStop_Configured == {m \in identified \ is_shutdown : mcu_config[m] = config}

\* MCU._shutdown: those with an emergency stop command
ToStop == identified \ is_shutdown

\* Printer.invoke_shutdown, from the queue of the other threads, or at any
\* time from a callback of the reactor: M112, an internal error, a controller
\* that does not answer.
InvokeShutdown ==
  /\ run_result = "none" /\ stage # "exited"
  /\ called' \in {called, FALSE}
  /\ IF in_shutdown
     THEN called /\ ~called' /\ UNCHANGED <<in_shutdown, state, stops>>
     ELSE /\ in_shutdown' = TRUE /\ state' = SetError
          /\ stops' = stops \cup ToStop
  /\ UNCHANGED <<mcuState, reports, config, start_reason, run_result, stage,
                 next_mcu, identified, is_shutdown, in_use, restarted,
                 starting>>

-----------------------------------------------------------------------------
(* Printer._connect.                                                       *)

connecting == run_result = "none" /\ next_mcu \in Mcus
atHost     == <<config, start_reason, in_shutdown, is_shutdown, called, stops,
                reports, restarted, starting>>

\* An exception that _connect catches.
Fail == /\ state' = SetError /\ stage' = "over"
        /\ UNCHANGED <<next_mcu, run_result>>

GoOn(s) == /\ stage' = s /\ next_mcu' = next_mcu + 1
           /\ UNCHANGED <<state, run_result>>

\* MCU._mcu_identify, which may find the port dead
McuIdentify ==
  /\ connecting /\ stage = "identify"
  /\ \/ Fail /\ UNCHANGED identified
     \/ GoOn("identify") /\ identified' = identified \cup {next_mcu}
  /\ UNCHANGED <<atHost, mcuState, in_use>>

Identified ==
  /\ stage = "identify" /\ next_mcu \notin Mcus /\ run_result = "none"
  /\ stage' = "connect" /\ next_mcu' = 1
  /\ UNCHANGED <<atHost, mcuState, state, run_result, identified,
                 in_use>>

\* The loop over the connect handlers ends when the state is another.
ConnectStops ==
  /\ run_result = "none" /\ stage = "connect" /\ state # "startup"
  /\ stage' = "over"
  /\ UNCHANGED <<atHost, mcuState, state, next_mcu, run_result, identified,
                 in_use>>

\* Mutant: only what the controller said since it was identified counts.
Unusable_Reported(m) == m \in is_shutdown

\* What makes _send_get_config raise.
Unusable(m) == m \in is_shutdown \/ Down(m)

\* MCU._connect up to the first answer, and what follows from it. Sending the
\* configuration is the next step, before the second get_config.
ConnectMcu ==
  LET m == next_mcu IN
  /\ connecting /\ stage = "connect" /\ state = "startup"
  /\ \/ Unusable(m) /\ Fail
     \/ /\ ~Unusable(m) /\ mcu_config[m] = Unset
        /\ stage' = "configure" /\ UNCHANGED <<state, run_result, next_mcu>>
     \/ /\ ~Unusable(m) /\ mcu_config[m] # Unset
        /\ start_reason = "firmware_restart" /\ Fail
     \/ /\ ~Unusable(m) /\ mcu_config[m] \notin {Unset, config}
        /\ start_reason # "firmware_restart"
        /\ run_result' = "firmware_restart"
        /\ UNCHANGED <<stage, state, next_mcu>>
     \/ /\ ~Unusable(m) /\ mcu_config[m] = config
        /\ start_reason # "firmware_restart" /\ GoOn("connect")
  /\ in_use' = IF next_mcu' = next_mcu THEN in_use ELSE in_use \cup {m}
  /\ UNCHANGED <<atHost, mcuState, identified>>

\* _send_config, which a controller that is shut down does not take
SendConfig ==
  /\ connecting /\ stage = "configure" /\ stage' = "check"
  /\ mcu_config' = [mcu_config EXCEPT ![next_mcu] =
                      IF Down(next_mcu) THEN @ ELSE config]
  /\ in_use' = in_use \cup {next_mcu}
  /\ UNCHANGED <<atHost, mcu_down, state, next_mcu, run_result, identified>>

CheckConfigured ==
  /\ connecting /\ stage = "check"
  /\ IF Unusable(next_mcu) \/ mcu_config[next_mcu] = Unset
     THEN Fail ELSE GoOn("connect")
  /\ UNCHANGED <<atHost, mcuState, identified, in_use>>

SetReady ==
  /\ run_result = "none" /\ stage = "connect" /\ next_mcu \notin Mcus
  /\ state = "startup" /\ state' = "ready" /\ stage' = "over"
  /\ UNCHANGED <<atHost, mcuState, next_mcu, run_result, identified, in_use>>

-----------------------------------------------------------------------------
(* The end of a run, and the next one.                                     *)

\* Printer.request_exit: RESTART, FIRMWARE_RESTART, or the end of the program
RequestExit ==
  /\ run_result = "none" /\ stage # "exited"
  /\ run_result' \in {"restart", "firmware_restart", "exit"}
  /\ UNCHANGED <<atHost, mcuState, state, stage, next_mcu, identified,
                 in_use>>

\* The end of Printer.run and the loop of main.  A controller is reset by
\* command when it has a session and answers; a stop on its way arrives first.
RunEnds ==
  /\ run_result # "none"
  /\ \E reset \in SUBSET Mcus :
       /\ mcu_config' = [m \in Mcus |-> IF m \in reset THEN Unset
                                        ELSE mcu_config[m]]
       /\ mcu_down' = [m \in Mcus |-> Down(m) /\ m \notin reset]
  /\ Fresh
  /\ IF run_result = "exit"
     THEN stage' = "exited" /\ UNCHANGED <<config, start_reason>>
     ELSE /\ stage' = "identify" /\ config' \in Configs
          /\ start_reason' = run_result

LifeNext ==
  \/ McuShutsDown \/ McuTakesStop \/ McuRestarts
  \/ HandleShutdown \/ HandleStarting \/ InvokeShutdown
  \/ McuIdentify \/ Identified \/ ConnectStops \/ ConnectMcu \/ SendConfig
  \/ CheckConfigured \/ SetReady \/ RequestExit \/ RunEnds

LifeSpec == LifeInit /\ [][LifeNext]_lifeVars

-----------------------------------------------------------------------------
(* Properties.                                                             *)

\* The types of the variables.
LifeTypes ==
  /\ mcu_config \in [Mcus -> Configs \cup {Unset}]
  /\ mcu_down \in [Mcus -> BOOLEAN]
  /\ stops \subseteq Mcus /\ reports \subseteq Mcus /\ identified \subseteq Mcus
  /\ is_shutdown \subseteq Mcus /\ in_use \subseteq Mcus
  /\ starting \subseteq Mcus /\ restarted \subseteq Mcus
  /\ config \in Configs /\ state \in {"startup", "ready", "error"}
  /\ start_reason \in {"startup", "restart", "firmware_restart"}
  /\ run_result \in {"none", "restart", "firmware_restart", "exit"}
  /\ stage \in {"identify", "connect", "configure", "check", "over", "exited"}
  /\ in_shutdown \in BOOLEAN /\ called \in BOOLEAN
  /\ next_mcu \in 1..(NumMcus + 1)

\* A printer that is ready runs on controllers that have the configuration it
\* was started with, whatever they had before; and one that is shut down has
\* told so, or will (klippy.py:128-168, mcu.py:676-775).  Controllers that
\* restart by themselves are the exception: see HandleStarting.
ReadyIsRunning ==
  state = "ready" =>
    \A m \in Mcus \ restarted :
      /\ mcu_config[m] = config
      /\ Down(m) => m \in reports \/ called

\* A shutdown, at any point of connecting, reaches every controller that the
\* host has begun to use (klippy.py:205-218, mcu.py:908-912).
ShutdownReachesAll ==
  in_shutdown => \A m \in in_use \ restarted : Down(m)

\* Whatever is called or comes in between, the printer is ready on controllers
\* that are, and none goes on when the printer has shut down.
LifecycleSound == ReadyIsRunning /\ ShutdownReachesAll

\* What _handle_starting is there for: "MCU spontaneous restart" is a reason
\* to shut down (mcu.py:642-645), so no controller of a printer that is ready is
\* without its configuration once the message that it starts was handled.
RestartNoticed ==
  state = "ready" => called \/ \A m \in Mcus : \/ m \in starting
                                               \/ mcu_config[m] = config

=============================================================================
