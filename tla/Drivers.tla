------------------------------ MODULE Drivers ------------------------------
(***************************************************************************)
(* stepper_enable.py, tmc.py and tmc_uart.py: which motors are on, and the *)
(* registers of their TMC drivers.  An enable line that steppers share     *)
(* counts them; such a stepper is switched by the field toff of its driver *)
(* as well.  Step generation, at any time, turns a stepper on; the driver  *)
(* is set up by a callback that runs in a greenlet of its own, next to     *)
(* other such greenlets and the g-code command in progress.  All use one   *)
(* UART, a mutex, and a counter of the driver that tells a write that      *)
(* arrived from one that was lost.                                         *)
(*                                                                         *)
(* The registers are CHOPCONF, which has toff, one that g-code sets, and   *)
(* the two thresholds of homing without a switch.  A register is one value *)
(* here.  The five attempts to read a register are one: the answer comes   *)
(* or none does.                                                           *)
(***************************************************************************)
EXTENDS Integers, Sequences

LOCAL INSTANCE SequencesExt

CONSTANTS
  Steppers,
  Order,       \* the steppers as enable_lines lists them
  Shared,      \* steppers on the one shared enable line; others have their own
  Sensorless,  \* steppers that home without a switch
  Silent,      \* steppers whose drivers may not have answered at first
  IfTurn,      \* 256 in the code: IFCNT counts modulo
  Attempts,    \* 5 in the code: times a register is written
  MaxSlots,    \* bound: greenlets of _do_enable and _do_disable
  MaxFaults,   \* bound: messages lost on the UART
  MaxTurns     \* bound: commands and movements that turn a motor on or off

ASSUME DriversAssumption ==
  /\ Shared \subseteq Steppers /\ Sensorless \subseteq Steppers
  /\ Silent \subseteq Steppers
  /\ IfTurn \in Nat \ {0, 1} /\ Attempts \in Nat \ {0} /\ MaxSlots \in Nat
  /\ Order \in Seq(Steppers) /\ ToSet(Order) = Steppers

VARIABLES
  is_enabled, enable_count, pin,
  registers,      \* self.fields.registers: what the host wants
  driver,         \* what the driver has
  if_count,       \* IFCNT of the driver
  ifcnt,          \* what the host knows of it
  callbacks,      \* registered callbacks that have not begun: [s, on]
  slot,           \* greenlets; 0 is the g-code command
  uart,           \* the mutex: who has it, then who waits
  phase_known,    \* mcu_phase_offset is not None
  gcode_mutex,    \* who holds it, or Nobody
  homing,         \* thresholds saved by homing_move_begin, or NotHoming
  down,           \* the printer is shut down
  unsure,         \* history: registers <<s, r>> that did not answer at first,
                  \* that a command failed to set, or whose write was lost
                  \* while the host's ifcnt was behind the driver's
  spoiled,        \* history: homing did not begin, so nothing is restored
  faults, turns

driverVars == <<is_enabled, enable_count, pin, registers, driver, if_count,
                ifcnt, callbacks, slot, uart, phase_known, gcode_mutex,
                homing, down, unsure, spoiled, faults, turns>>
lineVars == <<is_enabled, enable_count, pin, callbacks>>
wireVars == <<driver, if_count, ifcnt, faults>>

Slots == 0..MaxSlots
Registers == {"toff", "irun", "pwm", "cool"}
Configured == [r \in Registers |-> IF r = "cool" THEN 0 ELSE 1]
Unknown == 0 - 1
Nobody == 0 - 1
NotHoming == [pwm |-> Unknown, cool |-> Unknown]
Keep == 0 - 2    \* a write of what the register has in `registers'

Write(r, v) == [reg |-> r, val |-> v]
InitRegisters ==
  << Write("irun", Keep), Write("toff", Keep), Write("pwm", Keep),
     Write("cool", Keep) >>

\* A greenlet: what it is doing for which stepper, the writes it has left; of
\* the one it is at, what it sends, the attempts left and whether it is sent.
Idle == [job |-> "none", s |-> Order[1], todo |-> <<>>, val |-> 0, left |-> 0,
         sent |-> FALSE]
Greenlet(job, s, todo) == [Idle EXCEPT !.job = job, !.s = s, !.todo = todo]

\* _handle_connect has run: the steppers of a shared line have toff = 0.  A
\* driver that did not answer has what it had.
DriversInit ==
  /\ is_enabled = [s \in Steppers |-> FALSE]
  /\ enable_count = 0 /\ pin = FALSE
  /\ registers = [s \in Steppers |->
                    [Configured EXCEPT !["toff"] = IF s \in Shared THEN 0
                                                   ELSE 1]]
  /\ \E S \in SUBSET Silent :
       /\ unsure = S \X Registers
       /\ driver = [s \in Steppers |-> IF s \in S THEN [r \in Registers |-> 1]
                                       ELSE registers[s]]
       /\ ifcnt = [s \in Steppers |-> IF s \in S THEN Unknown ELSE 0]
  /\ if_count = [s \in Steppers |-> 0]
  /\ callbacks = <<>> /\ slot = [i \in Slots |-> Idle] /\ uart = <<>>
  /\ phase_known = [s \in Steppers |-> FALSE] /\ gcode_mutex = Nobody
  /\ homing = NotHoming /\ down = FALSE /\ spoiled = FALSE
  /\ faults = 0 /\ turns = 0

-----------------------------------------------------------------------------
(* EnableTracking and StepperEnablePin.                                    *)

Sharing(S) == {s \in S : s \in Shared}

\* set_enable and set_disable: only the first and the last stepper switch it.
PinAfter(count, on, off) ==
  IF enable_count = 0 /\ Sharing(on) # {} THEN TRUE
  ELSE IF count = 0 /\ Sharing(off) # {} THEN FALSE ELSE pin

\* motor_enable of the steppers S and motor_disable of the steppers T, in
\* their order; callbacks go to the reactor.
Switch(S, T) ==
  LET on  == {s \in S : ~is_enabled[s]}
      off == {s \in T : is_enabled[s]}
      news == SelectSeq(Order, LAMBDA s : s \in on \cup off)
      count == enable_count + Len(SelectSeq(news, LAMBDA s : s \in Sharing(on)))
                 - Len(SelectSeq(news, LAMBDA s : s \in Sharing(off)))
  IN
  /\ is_enabled' = [s \in Steppers |->
                      (is_enabled[s] \/ s \in on) /\ s \notin off]
  /\ enable_count' = count
  /\ pin' = PinAfter(count, on, off)
  /\ callbacks' = callbacks \o [i \in DOMAIN news |->
                                  [s |-> news[i], on |-> news[i] \in on]]
  /\ turns' = turns + 1

\* Steps of these steppers are generated (active callbacks of stepper.py).
StepsGenerated(S) ==
  /\ ~down /\ turns < MaxTurns /\ Switch(S, {})
  /\ UNCHANGED <<registers, wireVars, slot, uart, phase_known, gcode_mutex,
                 homing, down, unsure, spoiled>>

GCodeFree == ~down /\ slot[0].job = "none" /\ gcode_mutex = Nobody

\* M18, M84, a restart, or SET_STEPPER_ENABLE of one stepper
MotorOff(T) ==
  /\ GCodeFree /\ homing = NotHoming /\ turns < MaxTurns /\ Switch({}, T)
  /\ UNCHANGED <<registers, wireVars, slot, uart, phase_known, gcode_mutex,
                 homing, down, unsure, spoiled>>

-----------------------------------------------------------------------------
(* tmc_uart.py: set_register.                                              *)

\* Greenlet i goes on as g, with these registers, when q have or await the
\* mutex: it changes the register of its next write, if it has one, computes
\* what to send, and asks for the mutex.
GoesOn(i, g, regs, q) ==
  IF g.todo = <<>>
  THEN /\ slot' = [slot EXCEPT ![i] = g] /\ uart' = q /\ registers' = regs
  ELSE LET w == Head(g.todo)
           val == IF w.val = Keep THEN regs[g.s][w.reg] ELSE w.val
       IN /\ slot' = [slot EXCEPT ![i] = [g EXCEPT !.val = val, !.sent = FALSE,
                                                   !.left = Attempts]]
          /\ uart' = Append(q, i)
          /\ registers' = [regs EXCEPT ![g.s][w.reg] = val]

\* A write fails: _do_enable and _do_disable shut the printer down, a g-code
\* command ends with an error.
WriteFails(i) ==
  LET g == slot[i]
  IN
  /\ uart' = Tail(uart)
  /\ slot' = [slot EXCEPT ![i] = Idle]
  /\ down' = (i # 0)
  /\ gcode_mutex' = IF gcode_mutex = i THEN Nobody ELSE gcode_mutex
  /\ unsure' = IF g.job \in {"field", "begin", "end"}
               THEN unsure \cup {<<g.s, Head(g.todo).reg>>} ELSE unsure
  /\ spoiled' = (spoiled \/ g.job \in {"begin", "end"})
  /\ homing' = IF g.job \in {"begin", "end"} THEN NotHoming ELSE homing
  /\ UNCHANGED <<lineVars, registers, phase_known, turns>>

WriteDone(i) ==
  /\ GoesOn(i, [slot[i] EXCEPT !.todo = Tail(@)], registers, Tail(uart))
  /\ UNCHANGED <<lineVars, phase_known, gcode_mutex, homing, down, unsure,
                 spoiled, turns>>

HasUart(i) == ~down /\ uart # <<>> /\ Head(uart) = i

Lost(n) == faults' = faults + n /\ faults + n <= MaxFaults

\* IFCNT is read before the first write.
ReadCount(i) ==
  LET s == slot[i].s
  IN
  /\ HasUart(i) /\ ~slot[i].sent /\ ifcnt[s] = Unknown
  /\ UNCHANGED <<driver, if_count>>
  /\ \/ /\ ifcnt' = [ifcnt EXCEPT ![s] = if_count[s]]
        /\ UNCHANGED <<lineVars, registers, slot, uart, phase_known, down, turns,
                       gcode_mutex, homing, unsure, spoiled, faults>>
     \/ Lost(1) /\ WriteFails(i) /\ UNCHANGED ifcnt

\* reg_write; the driver counts what it understands.  If an answer to a read of
\* IFCNT was lost, self.ifcnt is still what it was before the write of then.
SendWrite(i) ==
  LET g == slot[i]
      at == <<g.s, Head(g.todo).reg>>
  IN
  /\ HasUart(i) /\ ~g.sent /\ ifcnt[g.s] # Unknown
  /\ \/ /\ driver' = [driver EXCEPT ![g.s][Head(g.todo).reg] = g.val]
        /\ if_count' = [if_count EXCEPT ![g.s] = (@ + 1) % IfTurn]
        /\ unsure' = unsure \ {at} /\ UNCHANGED faults
     \/ /\ Lost(1) /\ UNCHANGED <<driver, if_count>>
        /\ unsure' = IF ifcnt[g.s] = if_count[g.s] THEN unsure
                     ELSE unsure \cup {at}
  /\ slot' = [slot EXCEPT ![i].sent = TRUE, ![i].left = @ - 1]
  /\ UNCHANGED <<lineVars, registers, ifcnt, uart, phase_known, gcode_mutex,
                 homing, down, spoiled, turns>>

\* Mutant: any change of the counter confirms the write.
Confirmed_Blind(before, after) == TRUE

\* self.ifcnt == (ifcnt + 1) & 0xff
Confirmed(before, after) == after = (before + 1) % IfTurn

\* IFCNT is read after a write, which is repeated if it has not counted.
CheckCount(i) ==
  LET g == slot[i]
      s == g.s
  IN
  /\ HasUart(i) /\ g.sent
  /\ UNCHANGED <<driver, if_count>>
  /\ \/ /\ ifcnt' = [ifcnt EXCEPT ![s] = if_count[s]] /\ UNCHANGED faults
        /\ IF Confirmed(ifcnt[s], if_count[s]) THEN WriteDone(i)
           ELSE IF g.left = 0 THEN WriteFails(i)
           ELSE /\ slot' = [slot EXCEPT ![i].sent = FALSE]
                /\ UNCHANGED <<lineVars, registers, uart, phase_known,
                               gcode_mutex, homing, down, unsure, spoiled,
                               turns>>
     \/ Lost(1) /\ WriteFails(i) /\ UNCHANGED ifcnt

-----------------------------------------------------------------------------
(* tmc.py: the greenlets of a driver.                                      *)

FreeSlots == {i \in Slots \ {0} : slot[i].job = "none"}

\* Mutant: toff is not set before the registers are sent.
ToffEnabled_Kept(s) == registers[s]["toff"]

\* self.fields.set_field("toff", self.toff)
ToffEnabled(s) == IF s \in Shared THEN Configured["toff"]
                  ELSE registers[s]["toff"]

\* _do_enable and _do_disable begin.
RunCallback ==
  /\ ~down /\ callbacks # <<>> /\ FreeSlots # {}
  /\ LET c == Head(callbacks)
         i == CHOOSE j \in FreeSlots : \A k \in FreeSlots : j <= k
     IN
     IF c.on
     THEN GoesOn(i, Greenlet("enable", c.s, InitRegisters),
                 [registers EXCEPT ![c.s]["toff"] = ToffEnabled(c.s)], uart)
     ELSE GoesOn(i, IF c.s \in Shared
                    THEN Greenlet("disable", c.s, << Write("toff", 0) >>)
                    ELSE Idle, registers, uart)
  /\ callbacks' = Tail(callbacks)
  /\ UNCHANGED <<is_enabled, enable_count, pin, wireVars, phase_known,
                 gcode_mutex, homing, down, unsure, spoiled, turns>>

\* The registers of a stepper are all sent; the phase may still be unknown.
RegistersSent(i) ==
  LET g == slot[i]
  IN
  /\ ~down /\ g.job \in {"enable", "init"} /\ g.todo = <<>>
  /\ slot' = [slot EXCEPT ![i] =
       IF g.job = "enable" /\ ~phase_known[g.s] THEN [g EXCEPT !.job = "phase"]
       ELSE Idle]
  /\ UNCHANGED <<lineVars, registers, wireVars, uart, phase_known,
                 gcode_mutex, homing, down, unsure, spoiled, turns>>

\* with gcode.get_mutex(): ... wait_moves and _handle_sync_mcu_pos
PhaseBegins(i) ==
  /\ GCodeFree /\ homing = NotHoming /\ slot[i].job = "phase"
  /\ IF phase_known[slot[i].s]
     THEN slot' = [slot EXCEPT ![i] = Idle] /\ UNCHANGED gcode_mutex
     ELSE gcode_mutex' = i /\ slot' = [slot EXCEPT ![i].job = "query"]
  /\ UNCHANGED <<lineVars, registers, wireVars, uart, phase_known, homing,
                 down, unsure, spoiled, turns>>

\* _query_phase takes the UART when nobody has it.
QueryPhase(i) ==
  LET g == slot[i]
  IN
  /\ ~down /\ g.job = "query" /\ uart = <<>>
  /\ slot' = [slot EXCEPT ![i] = Idle]
  /\ gcode_mutex' = Nobody
  /\ \/ /\ phase_known' = [phase_known EXCEPT ![g.s] = TRUE]
        /\ UNCHANGED <<faults, down>>
     \/ /\ Lost(1)
        /\ phase_known' = [phase_known EXCEPT ![g.s] = FALSE]
        /\ down' = is_enabled[g.s]
  /\ UNCHANGED <<lineVars, registers, driver, if_count, ifcnt, uart, homing,
                 unsure, spoiled, turns>>

DisableEnds(i) ==
  /\ ~down /\ slot[i].job = "disable" /\ slot[i].todo = <<>>
  /\ slot' = [slot EXCEPT ![i] = Idle]
  /\ UNCHANGED <<lineVars, registers, wireVars, uart, phase_known,
                 gcode_mutex, homing, down, unsure, spoiled, turns>>

-----------------------------------------------------------------------------
(* Commands.                                                               *)

\* The g-code command takes its mutex, changes registers and writes them.
Command(job, s, todo) ==
  /\ GoesOn(0, Greenlet(job, s, todo), registers, uart)
  /\ gcode_mutex' = 0

\* cmd_SET_TMC_FIELD and cmd_SET_TMC_CURRENT
SetField(s, v) ==
  /\ GCodeFree /\ homing = NotHoming /\ v # registers[s]["irun"]
  /\ Command("field", s, << Write("irun", v) >>)
  /\ turns < MaxTurns /\ turns' = turns + 1
  /\ UNCHANGED <<lineVars, wireVars, phase_known, homing, down, unsure, spoiled>>

\* cmd_INIT_TMC
InitTmc(s) ==
  /\ GCodeFree /\ homing = NotHoming /\ turns < MaxTurns /\ turns' = turns + 1
  /\ Command("init", s, InitRegisters)
  /\ UNCHANGED <<lineVars, wireVars, phase_known, homing, down, unsure, spoiled>>

\* handle_homing_move_begin
HomingMoveBegin(s) ==
  LET cool == registers[s]["cool"]
  IN
  /\ GCodeFree /\ homing = NotHoming /\ turns < MaxTurns /\ turns' = turns + 1
  /\ homing' = [pwm |-> registers[s]["pwm"], cool |-> cool]
  /\ Command("begin", s, << Write("pwm", 0) >> \o
               IF cool = 0 THEN << Write("cool", 2) >> ELSE <<>>)
  /\ UNCHANGED <<lineVars, wireVars, phase_known, down, unsure, spoiled>>

\* Mutant: what is restored is what the registers have.
Restores_Fields(s) ==
  << Write("pwm", Keep), Write("cool", Keep) >>

Restores(s) == << Write("pwm", homing.pwm), Write("cool", homing.cool) >>

\* handle_homing_move_end
HomingMoveEnd ==
  /\ ~down /\ slot[0].job = "begin" /\ slot[0].todo = <<>>
  /\ GoesOn(0, Greenlet("end", slot[0].s, Restores(slot[0].s)), registers, uart)
  /\ UNCHANGED <<lineVars, wireVars, phase_known, gcode_mutex, homing, down,
                 unsure, spoiled, turns>>

\* The command returns.
CommandEnds ==
  /\ ~down /\ slot[0].job \in {"field", "init", "end"} /\ slot[0].todo = <<>>
  /\ slot' = [slot EXCEPT ![0] = Idle] /\ gcode_mutex' = Nobody
  /\ homing' = NotHoming
  /\ UNCHANGED <<lineVars, registers, wireVars, uart, phase_known, down,
                 unsure, spoiled, turns>>

Uart(i) == ReadCount(i) \/ SendWrite(i) \/ CheckCount(i)

DriversNext ==
  \/ \E S \in SUBSET Steppers : StepsGenerated(S) \/ MotorOff(S)
  \/ \E i \in Slots : Uart(i)
  \/ RunCallback
  \/ \E i \in Slots \ {0} : RegistersSent(i) \/ PhaseBegins(i) \/ QueryPhase(i)
                            \/ DisableEnds(i)
  \/ \E s \in Steppers : InitTmc(s) \/ \E v \in {1, 2} : SetField(s, v)
  \/ \E s \in Sensorless : HomingMoveBegin(s)
  \/ HomingMoveEnd
  \/ CommandEnds

DriversSpec == DriversInit /\ [][DriversNext]_driverVars

-----------------------------------------------------------------------------
(* Properties.                                                             *)

AtRest ==
  ~down /\ callbacks = <<>> /\ uart = <<>> /\ \A i \in Slots : slot[i] = Idle

\* The shared line is on as long as a stepper needs it (stepper_enable.py:16-23).
LineFollows ==
  /\ enable_count = Len(SelectSeq(Order, LAMBDA s : s \in Shared /\ is_enabled[s]))
  /\ pin = (enable_count > 0)

\* When all greenlets have ended every driver has what the host thinks it has,
\* and a stepper of a shared line is on exactly if it is enabled, in whatever
\* order the callbacks and commands got the UART and whatever was lost - but for
\* registers that are unsure until they are written again. One way to become so:
\* when the answer to a write is lost, ifcnt stays behind, and the next write
\* counts as confirmed even if the driver never got it
\* (tmc.py:292-325, tmc_uart.py:237-253).
DriversFollow ==
  AtRest => \A s \in Steppers :
    /\ \A r \in Registers : <<s, r>> \notin unsure => driver[s][r] = registers[s][r]
    /\ s \in Shared /\ <<s, "toff">> \notin unsure =>
         (driver[s]["toff"] # 0) = is_enabled[s]

\* A homing move leaves the thresholds as they were, unless the driver did not
\* answer (tmc.py:497-541).
ThresholdsKept ==
  (homing = NotHoming /\ ~spoiled) =>
    \A s \in Steppers : \A r \in {"pwm", "cool"} :
      registers[s][r] = Configured[r]

\* Drivers are in the state that the host wants.
DriversSound == LineFollows /\ DriversFollow /\ ThresholdsKept
=============================================================================
