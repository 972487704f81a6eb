------------------------------- MODULE Outputs -------------------------------
(***************************************************************************)
(* Output pins, fans and leds: values that are to hold from a moment of    *)
(* the print on, scheduled ahead of it on a micro-controller.              *)
(*                                                                         *)
(* Pins with a maximum duration, which the controller shuts down over if a *)
(* value is not repeated in time, repeated from a timer (output_pin.py) or *)
(* while moves are flushed (pwm_tool.py); fans with an enable pin and a    *)
(* kick start, with those who set their speed (fan.py, heater_fan.py,      *)
(* controller_fan.py, temperature_fan.py); a chain of leds with templates  *)
(* (led.py, neopixel.py).  Times are tenths of a second, values percents.  *)
(* PID control, tachometers and other led chips are left out.              *)
(***************************************************************************)
EXTENDS Integers, Sequences, FiniteSets

LOCAL INSTANCE SequencesExt

CONSTANTS
  MaxDuration,   \* maximum_mcu_duration
  Ahead,         \* how far ahead of the time the toolhead plans
  TimerLate,     \* how late a timer may run
  PinValues,     \* values that SET_PIN sends
  MaxPinTime, MaxPinCommands,   \* bounds
  MaxPower, OffBelow, KickStart,   \* of the fan
  Speeds,        \* speeds that g-code asks for
  FanSpeed, IdleSpeed, IdleCalls,  \* heater and controller fans
  Readings,      \* temperatures, seen from the target
  MaxFanSteps,   \* bound: commands, callbacks and readings
  LedColors, MaxLedSteps

ASSUME OutputAssumption ==
  /\ MaxDuration > 4 /\ Ahead \in Nat \ {0} /\ TimerLate \in Nat
  /\ PinValues \subseteq 0..100 /\ MaxPower \in 1..100 /\ OffBelow \in 0..100
  /\ Speeds \subseteq 0..100 /\ FanSpeed \in 0..100 /\ IdleSpeed \in 0..100

VARIABLES
  \* a pin and its python object
  default_value,   \* of a shutdown
  keeper,      \* "timer" or "flush": who repeats its value
  last_value, last_time,   \* last_print_time, or _last_clock
  resend_timer,            \* when it runs, or none
  need_flush, flushed,     \* of the toolhead, as far as the pin moves them
  planned,     \* the print time of the last lookahead callback
  pin_now,     \* estimated print time
  pin_queue, pin_value, expires,   \* of the controller
  overdue,     \* the controller was not told in time and shut down
  wanted,      \* history: the last value asked for
  outrun,      \* history: a command came for later than the last value lasts
  pin_commands,
  \* a fan
  owner,       \* who sets its speed
  fan,         \* Fan: last_fan_value, last_fan_time
  sent,        \* history: what its pins have been told, [pin, at, value]
  asked,       \* history: [at, value] of each change of speed
  last_speed,  \* of the owner
  last_on, cooled,      \* ControllerFan; history: callbacks since it was active
  source,      \* what it cools: [target, hot]
  tfan,        \* TemperatureFan and ControlBangBang
  fan_steps, restarting,
  \* leds
  led_state, need_transmit, active_templates,
  render_timer,  \* the timer that PrinterLED knows: its number or 0
  timers,        \* numbers of render timers that the reactor will call
  dead_timers,   \* registered and never called
  callbacks,     \* reactor_bgfunc: states to be sent, in order
  sending,       \* the mutex is held and the answer awaited
  color_data,    \* what the controller has been sent
  leds,          \* what the chain shows
  gave_up,       \* history: the last neopixel_send did not succeed
  held,          \* history: the last SET_LED had TRANSMIT=0
  led_steps

pinVars == <<default_value, keeper, last_value, last_time, resend_timer, need_flush, flushed,
             planned, pin_now, pin_queue, pin_value, expires, overdue, wanted, outrun,
             pin_commands>>
fanVars == <<owner, fan, sent, asked, last_speed, last_on, cooled, source, tfan,
             fan_steps, restarting>>
ledVars == <<led_state, need_transmit, active_templates, render_timer, timers,
             dead_timers, callbacks, sending, color_data, leds, gave_up, held,
             led_steps>>

PIN_MIN_TIME == 1
FAN_MIN_TIME == 1
RESEND_HOST_TIME == 3 + PIN_MIN_TIME
NoTime == -1

AtLeast(a, b) == IF a < b THEN b ELSE a
AtMost(a, b)  == IF a < b THEN a ELSE b

-----------------------------------------------------------------------------
(* Pins.                                                                   *)

resend_interval == MaxDuration - RESEND_HOST_TIME

\* What _build_config accepts
BuildConfig(pin) ==
  /\ pin.max_duration # 0 => pin.start = pin.shutdown
  /\ pin.kind = "soft_pwm" => pin.shutdown \in {0, 100}

Pins == {pin \in [kind : {"digital", "soft_pwm", "hard_pwm"}, start : PinValues,
                  shutdown : PinValues, max_duration : {0, MaxDuration}] : BuildConfig(pin)}

\* A pin with a maximum duration
PinInit == \E pin \in Pins :
  /\ pin.max_duration = MaxDuration
  /\ default_value = pin.shutdown /\ last_value = pin.start
  /\ pin_value = pin.start /\ wanted = pin.start
  /\ keeper \in {"timer", "flush"}
  /\ last_time = 0 /\ resend_timer = NoTime
  /\ need_flush = 0 /\ flushed = 0 /\ planned = 0 /\ pin_now = 0
  /\ pin_queue = <<>> /\ expires = NoTime /\ overdue = FALSE
  /\ outrun = FALSE /\ pin_commands = 0

\* Messages to the controller leave in the order of their clocks.
Scheduled(queue, at, value) == Append(queue, [at |-> at, value |-> value])

\* _set_pin of output_pin.py
SetPin(print_time, value) ==
  LET at == AtLeast(print_time, last_time + PIN_MIN_TIME) IN
  /\ pin_queue' = Scheduled(pin_queue, at, value)
  /\ last_value' = value /\ last_time' = at

\* Mutant: the flush goes on until the update only.
WakeTime_Update(at, value) == at

\* _send_update: flushing goes on to the time to resend.
WakeTime(at, value) == IF value # default_value THEN at + MaxDuration ELSE at

\* The updates that repeat the value up to a moment
Repeated(at, to) == [k \in 1..((to - at) \div MaxDuration) |->
                       [at |-> at + k * MaxDuration, value |-> last_value]]

\* SET_PIN, called back when the lookahead queue knows its print time: it never
\* falls, nor is it earlier than what has been flushed.
SetPinCallback(value) == \E at \in AtLeast(planned, flushed)..(pin_now + Ahead) :
  /\ pin_commands < MaxPinCommands /\ pin_commands' = pin_commands + 1
  /\ at > pin_now /\ planned' = at /\ wanted' = value
  /\ UNCHANGED <<default_value, keeper, pin_now, pin_value, expires, overdue, flushed>>
  /\ IF value = last_value
     THEN UNCHANGED <<last_value, last_time, resend_timer, need_flush, pin_queue, outrun>>
     ELSE /\ outrun' = (outrun \/ (last_value # default_value /\ at > last_time + MaxDuration))
          /\ IF keeper = "timer"
             THEN /\ SetPin(at, value)
                  /\ resend_timer' = IF resend_timer = NoTime THEN pin_now ELSE resend_timer
                  /\ UNCHANGED need_flush
             ELSE LET clock == AtLeast(at, last_time) IN
                  /\ pin_queue' = Scheduled(pin_queue, clock, value)
                  /\ last_value' = value /\ last_time' = clock
                  /\ need_flush' = AtLeast(need_flush, WakeTime(clock, value))
                  /\ UNCHANGED resend_timer

\* _resend_current_val
ResendCurrentVal ==
  /\ resend_timer # NoTime /\ resend_timer <= pin_now
  /\ UNCHANGED <<default_value, keeper, need_flush, flushed, planned, pin_now, pin_value, expires,
                 overdue, wanted, outrun, pin_commands>>
  /\ LET left == last_time + resend_interval - pin_now IN
     CASE last_value = default_value ->
            resend_timer' = NoTime /\ UNCHANGED <<last_value, last_time, pin_queue>>
       [] last_value # default_value /\ left > 0 ->
            resend_timer' = pin_now + left /\ UNCHANGED <<last_value, last_time, pin_queue>>
       [] OTHER ->
            resend_timer' = pin_now + resend_interval
            /\ SetPin(pin_now + PIN_MIN_TIME, last_value)

\* _flush_notification, when the toolhead flushes up to `to'
FlushNotification ==
  /\ keeper = "flush"
  /\ \E to \in (flushed + 1)..AtMost(need_flush, pin_now + Ahead) :
       LET again == IF last_value # default_value THEN Repeated(last_time, to) ELSE <<>>
           last  == IF again = <<>> THEN last_time ELSE Last(again).at
       IN /\ flushed' = to
          /\ pin_queue' = pin_queue \o again /\ last_time' = last
          /\ need_flush' = IF again = <<>> THEN need_flush
                           ELSE AtLeast(need_flush, WakeTime(last, last_value))
  /\ UNCHANGED <<default_value, keeper, last_value, resend_timer, planned, pin_now, pin_value,
                 expires, overdue, wanted, outrun, pin_commands>>

\* A moment passes: timers are not later than TimerLate, and what is known to
\* need it is flushed ahead of the time.  The controller takes what is due.
PinTick ==
  /\ pin_now < MaxPinTime /\ ~overdue /\ pin_now' = pin_now + 1
  /\ resend_timer # NoTime => pin_now < resend_timer + TimerLate
  /\ flushed > pin_now \/ flushed = need_flush
  /\ LET due == {n \in DOMAIN pin_queue : pin_queue[n].at <= pin_now'}
         v == IF due = {} THEN pin_value ELSE pin_queue[Cardinality(due)].value
         e == IF due = {} THEN expires
              ELSE IF v = default_value THEN NoTime ELSE pin_queue[Cardinality(due)].at + MaxDuration
     IN /\ pin_queue' = SubSeq(pin_queue, Cardinality(due) + 1, Len(pin_queue))
        /\ pin_value' = v /\ expires' = e
        /\ overdue' = (e # NoTime /\ e <= pin_now')
  /\ UNCHANGED <<default_value, keeper, last_value, last_time, resend_timer, need_flush, flushed,
                 planned, wanted, outrun, pin_commands>>

PinNext ==
  \/ \E value \in PinValues : SetPinCallback(value)
  \/ ResendCurrentVal
  \/ FlushNotification
  \/ PinTick

PinSpec == PinInit /\ [][PinNext]_pinVars

-----------------------------------------------------------------------------
(* Fans.                                                                   *)

Told(pin, at, value) == <<[pin |-> pin, at |-> at, value |-> value]>>
When(condition, messages) == IF condition THEN messages ELSE <<>>

\* The power that a speed stands for
PowerOf(speed) ==
  IF speed < OffBelow THEN 0 ELSE AtLeast(0, AtMost(MaxPower, (speed * MaxPower) \div 100))

\* Mutant: the next change may come within the kick start.
FanTime_Start(at, from) == at

\* last_fan_time, after print_time += kick_start_time
FanTime(at, from) == from

\* Fan.set_speed
SetSpeed(print_time, speed) ==
  LET value == PowerOf(speed)
      at    == AtLeast(fan.time + FAN_MIN_TIME, print_time)
      kick  == /\ value > 0 /\ value < MaxPower /\ KickStart > 0
               /\ fan.value = 0 \/ value - fan.value > 50
      from  == IF kick THEN at + KickStart ELSE at
  IN IF value = fan.value THEN UNCHANGED <<fan, sent, asked>>
     ELSE /\ fan' = [value |-> value, time |-> FanTime(at, from)]
          /\ sent' = sent \o When(value > 0 /\ fan.value = 0, Told("enable", at, 1))
                          \o When(value = 0, Told("enable", at, 0))
                          \o When(kick, Told("pwm", at, MaxPower))
                          \o Told("pwm", from, value)
          /\ asked' = Append(asked, [at |-> at, value |-> value])

FanStep == ~restarting /\ fan_steps < MaxFanSteps /\ fan_steps' = fan_steps + 1
Keep(vs) == UNCHANGED <<owner, restarting, vs>>

NoTempFan == [target |-> 40, min_speed |-> 30, max_speed |-> 100, heating |-> FALSE,
              next |-> 0, speed |-> 0, read |-> NoTime, torn |-> FALSE]

FanInit ==
  /\ owner \in {"gcode", "heater", "controller", "temperature"}
  /\ fan = [value |-> 0, time |-> 0] /\ sent = <<>> /\ asked = <<>>
  /\ last_speed = 0 /\ last_on = IdleCalls /\ cooled = IdleCalls + 1
  /\ source = [target |-> FALSE, hot |-> FALSE]
  /\ tfan = NoTempFan /\ fan_steps = 0 /\ restarting = FALSE

\* M106, M107 and SET_FAN_SPEED, called back at a print time that never falls
FanCommand(speed, later) ==
  /\ owner = "gcode" /\ FanStep
  /\ SetSpeed((IF asked = <<>> THEN 0 ELSE Last(asked).at) + later, speed)
  /\ Keep(<<last_speed, last_on, cooled, source, tfan>>)

\* A heater is turned on or off, gets hot or cools down; motors, too, are turned
\* on and off.
SourceChanges ==
  /\ owner \in {"heater", "controller"} /\ FanStep
  /\ source' \in [target : BOOLEAN, hot : BOOLEAN]
  /\ Keep(<<fan, sent, asked, last_speed, last_on, cooled, tfan>>)

\* Callbacks come once in a second.
CallbackTime == 10 * fan_steps + PIN_MIN_TIME

OwnerSets(speed) ==
  /\ last_speed' = speed
  /\ IF speed # last_speed THEN SetSpeed(CallbackTime, speed)
     ELSE UNCHANGED <<fan, sent, asked>>

\* PrinterHeaterFan.callback
HeaterFanCallback ==
  /\ owner = "heater" /\ FanStep
  /\ OwnerSets(IF source.target \/ source.hot THEN FanSpeed ELSE 0)
  /\ cooled' = IF source.target \/ source.hot THEN 0 ELSE 1
  /\ Keep(<<last_on, source, tfan>>)

\* Mutant: a fan that runs idle is not counted.
LastOn_Kept(active, on) == IF active THEN 0 ELSE on

\* last_on, after a callback
LastOn(active, on) == IF active THEN 0 ELSE IF on < IdleCalls THEN on + 1 ELSE on

\* ControllerFan.callback
ControllerFanCallback ==
  /\ owner = "controller" /\ FanStep
  /\ LET active == source.target IN
     /\ last_on' = LastOn(active, last_on)
     /\ cooled' = IF active THEN 0 ELSE IF cooled > IdleCalls THEN cooled ELSE cooled + 1
     /\ OwnerSets(IF active THEN FanSpeed ELSE IF last_on < IdleCalls THEN IdleSpeed ELSE 0)
  /\ Keep(<<source, tfan>>)

\* TemperatureFan.set_speed, 0.8 seconds after the reading
Floored(speed) ==
  IF tfan.target <= 0 \/ speed <= 0 THEN 0
  ELSE IF speed < tfan.min_speed THEN tfan.min_speed ELSE speed
Close(a, b) == a - b < 5 /\ b - a < 5

\* ControlBangBang: what is cooled is let get warm.
Heating(temp) ==
  IF tfan.heating THEN temp < tfan.target + 2 ELSE temp <= tfan.target - 2

\* temperature_callback
TemperatureCallback(temp) ==
  /\ owner = "temperature" /\ FanStep
  /\ LET heating == Heating(temp)
         speed == Floored(IF heating THEN 0 ELSE tfan.max_speed)
         quiet == /\ CallbackTime < tfan.next \/ tfan.speed = 0
                  /\ Close(speed, tfan.speed)
         read  == [tfan EXCEPT !.heating = heating, !.read = temp]
         at    == CallbackTime + 8
     IN IF quiet THEN tfan' = read /\ UNCHANGED <<fan, sent, asked>>
        ELSE /\ tfan' = [read EXCEPT !.next = at + 37, !.speed = speed]
             /\ SetSpeed(at, speed)
  /\ Keep(<<last_speed, last_on, cooled, source>>)

\* SET_TEMPERATURE_FAN_TARGET: what precedes the error of a value stays.
SetTarget(target, min_speed, max_speed) ==
  /\ owner = "temperature" /\ FanStep
  /\ LET t == [tfan EXCEPT !.target = target, !.read = NoTime]
         lower == [t EXCEPT !.min_speed = min_speed]
     IN tfan' = IF min_speed > max_speed THEN t
                ELSE IF max_speed > 100 THEN [lower EXCEPT !.torn = TRUE]
                ELSE [lower EXCEPT !.max_speed = max_speed, !.torn = FALSE]
  /\ Keep(<<fan, sent, asked, last_speed, last_on, cooled, source>>)

\* gcode:request_restart
HandleRequestRestart ==
  /\ ~restarting /\ restarting' = TRUE
  /\ SetSpeed(IF asked = <<>> THEN 0 ELSE Last(asked).at, 0)
  /\ UNCHANGED <<owner, last_speed, last_on, cooled, source, tfan, fan_steps>>

FanNext ==
  \/ \E speed \in Speeds, later \in 0..2 : FanCommand(speed, later)
  \/ SourceChanges
  \/ HeaterFanCallback
  \/ ControllerFanCallback
  \/ \E d \in Readings : TemperatureCallback(NoTempFan.target + d)
  \/ \E target \in {0, 40}, low \in {0, 30, 60}, high \in {20, 100, 200} :
       SetTarget(target, low, high)
  \/ HandleRequestRestart

FanSpec == FanInit /\ [][FanNext]_fanVars

-----------------------------------------------------------------------------
(* Leds.  A chain of two, one template whose color changes with each       *)
(* rendering, and colors that stand for all four parts of them.            *)

Led == 1..2
Black == 0

LedInit ==
  /\ led_state = [n \in Led |-> Black] /\ need_transmit = FALSE
  /\ active_templates = {} /\ render_timer = 0 /\ timers = {} /\ dead_timers = 0
  /\ callbacks = <<>> /\ sending = FALSE
  /\ color_data = [n \in Led |-> Black] /\ leds = [n \in Led |-> Black]
  /\ gave_up = FALSE /\ held = FALSE /\ led_steps = 0

LedStep == led_steps < MaxLedSteps /\ led_steps' = led_steps + 1

\* set_color of one led or of all, as the state after it
Colored(state, which, color) == [n \in Led |-> IF n \in which THEN color ELSE state[n]]

\* Mutant: a state that nobody has sent is forgotten.
Transmit_Changed(before, after, transmit) == transmit /\ before # after

\* Whether check_transmit sends, before and after the colors are set
Transmit(before, after, transmit) == transmit /\ (need_transmit \/ before # after)

\* set_color and check_transmit
SetColors(state, transmit) ==
  LET sends == Transmit(led_state, state, transmit) IN
  /\ led_state' = state
  /\ need_transmit' = (~sends /\ (need_transmit \/ state # led_state))
  /\ callbacks' = IF sends THEN Append(callbacks, state) ELSE callbacks
  /\ held' = ~transmit

\* SET_LED, at once or called back
SetLed(which, color, transmit) ==
  /\ LedStep
  /\ SetColors(Colored(led_state, which, color), transmit)
  /\ UNCHANGED <<active_templates, render_timer, timers, dead_timers, sending,
                 color_data, leds, gave_up>>

\* SET_LED_TEMPLATE with a template or with none, and _activate_timer
SetLedTemplate(which, on) ==
  LET active == IF on THEN active_templates \cup which ELSE active_templates \ which
      starts == render_timer = 0 /\ active # {}
  IN
  /\ LedStep
  /\ active_templates' = active
  /\ render_timer' = IF starts THEN led_steps' ELSE render_timer
  /\ timers' = IF starts THEN timers \cup {led_steps'} ELSE timers
  /\ UNCHANGED <<led_state, need_transmit, dead_timers, callbacks, sending,
                 color_data, leds, gave_up, held>>

\* Mutant: the next activation finds the old timer.
RenderEnds_Kept(timer) == timer

\* render_timer when nothing is to be rendered
RenderEnds(timer) == 0

\* _render: a timer that has nothing to do returns NEVER; what it registers is
\* never called.  A template that fails is black.
Render(timer, color) ==
  /\ timer \in timers /\ LedStep
  /\ IF active_templates = {}
     THEN /\ timers' = timers \ {timer} /\ render_timer' = RenderEnds(render_timer)
          /\ dead_timers' = dead_timers + 1
          /\ UNCHANGED <<led_state, need_transmit, callbacks, held>>
     ELSE /\ SetColors(Colored(led_state, active_templates, color), TRUE)
          /\ UNCHANGED <<timers, render_timer, dead_timers>>
  /\ UNCHANGED <<active_templates, sending, color_data, leds, gave_up>>

\* reactor_bgfunc with the mutex: the bytes that differ are sent.
SendData ==
  /\ ~sending /\ callbacks # <<>>
  /\ callbacks' = Tail(callbacks)
  /\ color_data' = Head(callbacks) /\ sending' = (Head(callbacks) # color_data)
  /\ UNCHANGED <<led_state, need_transmit, active_templates, render_timer, timers,
                 dead_timers, leds, gave_up, held, led_steps>>

\* The answer to neopixel_send, or eight of them that are no
SendAnswered(success) ==
  /\ sending /\ sending' = FALSE
  /\ leds' = IF success THEN color_data ELSE leds
  /\ gave_up' = ~success
  /\ UNCHANGED <<led_state, need_transmit, active_templates, render_timer, timers,
                 dead_timers, callbacks, color_data, held, led_steps>>

LedNext ==
  \/ \E which \in {{1}, {2}, Led}, color \in LedColors, transmit \in BOOLEAN :
       SetLed(which, color, transmit)
  \/ \E which \in {{1}, {2}, Led}, on \in BOOLEAN : SetLedTemplate(which, on)
  \/ \E timer \in timers, color \in LedColors : Render(timer, color)
  \/ SendData
  \/ \E success \in BOOLEAN : SendAnswered(success)

LedSpec == LedInit /\ [][LedNext]_ledVars

-----------------------------------------------------------------------------
(* Properties.                                                             *)

\* A value that is not the shutdown value is repeated before it expires, unless
\* a command for a moment after that has been scheduled first: what repeats it
\* looks at the last command only (output_pin.py:84-97, pwm_tool.py:127-131).
PinKept == overdue => outrun

\* What the controller is told is in the order of time and keeps its distance;
\* when all of it is done the pin has the value that was asked for last.
PinFollows ==
  /\ keeper = "timer" =>
       \A n \in 1..(Len(pin_queue) - 1) :
         pin_queue[n + 1].at >= pin_queue[n].at + PIN_MIN_TIME
  /\ keeper = "flush" =>
       \A n \in 1..(Len(pin_queue) - 1) : pin_queue[n + 1].at >= pin_queue[n].at
  /\ pin_queue = <<>> => pin_value = wanted

\* The value of a pin of the fan at a moment
PinAt(pin, at) ==
  LET past == SelectSeq(sent, LAMBDA t : t.pin = pin /\ t.at <= at)
  IN IF past = <<>> THEN 0 ELSE Last(past).value

\* A pin is told nothing that precedes what it has been told; the fan is enabled
\* while it has power; and a kick start is followed by the power that was asked
\* for before the next change (fan.py:46-75).
FanFollows ==
  /\ \A i, j \in DOMAIN sent :
       (i < j /\ sent[i].pin = sent[j].pin) => sent[i].at <= sent[j].at
  /\ \A n \in DOMAIN sent :
       (PinAt("enable", sent[n].at) = 1) = (PinAt("pwm", sent[n].at) > 0)
  /\ \A n \in DOMAIN asked :
       LET full == asked[n].at + KickStart IN
       /\ (n < Len(asked) => full < asked[n + 1].at \/ PinAt("pwm", asked[n].at) = asked[n].value)
       /\ n = Len(asked) => PinAt("pwm", full) = asked[n].value

\* A heater fan runs when a heater was on or hot at the last callback, and a
\* controller fan runs for IdleCalls callbacks after it was last needed and no
\* longer (controller_fan.py:48-68).
OwnerServed == ~restarting =>
  /\ owner = "heater" => fan.value = PowerOf(IF cooled = 0 /\ last_speed > 0 THEN FanSpeed ELSE 0)
  /\ owner = "controller" =>
       fan.value = PowerOf(IF cooled = 0 THEN FanSpeed
                           ELSE IF cooled <= IdleCalls THEN IdleSpeed ELSE 0)

\* After a reading that is too hot the temperature fan runs as fast as it may,
\* but for a difference that is not significant, and without a target it does not
\* run; its limits are in order unless a command has failed between them
\* (temperature_fan.py:57-117).
TempFanServed == owner = "temperature" =>
  /\ fan.value = PowerOf(tfan.speed) \/ restarting
  /\ (tfan.read # NoTime /\ tfan.target > 0 /\ tfan.read >= tfan.target + 2)
       => Close(tfan.speed, AtLeast(tfan.max_speed, tfan.min_speed))
  /\ (tfan.read # NoTime /\ tfan.target <= 0) => Close(tfan.speed, 0)
  /\ tfan.min_speed > tfan.max_speed => tfan.torn

\* What the chain shows is what was set, once all is sent and unless the
\* controller gave up, and what is not sent was not to be; one timer renders as
\* long as there are templates (led.py:33-51 and 99-151, neopixel.py:70-105).
LedsFollow ==
  /\ (callbacks = <<>> /\ ~sending /\ ~need_transmit /\ ~gave_up) => leds = led_state
  /\ need_transmit => held
  /\ timers = {render_timer} \ {0}
  /\ active_templates # {} => timers # {}

\* Pins, fans and leds do what they are told, when they are told to.
OutputsSound == /\ PinKept /\ PinFollows /\ FanFollows
                /\ OwnerServed /\ TempFanServed /\ LedsFollow
=============================================================================
