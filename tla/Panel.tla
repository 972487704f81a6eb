-------------------------------- MODULE Panel --------------------------------
(***************************************************************************)
(* The menu of a printer's own panel (display/menu.py), its keys           *)
(* (display/menu_keys.py), and rotary encoders and analog buttons          *)
(* (buttons.py).                                                           *)
(*                                                                         *)
(* A menu is a tree of lists, commands and inputs.  Everything it keeps is *)
(* one record, since a script may call back and exit while it is rendered: *)
(* what a key does is an operator from the record to the next one.  Names  *)
(* and their scrolling, the text of scripts, the list of files and         *)
(* containers that modules push themselves are left out.                   *)
(***************************************************************************)
EXTENDS Integers, Sequences

LOCAL INSTANCE SequencesExt

CONSTANTS
  Root, Lists, Inputs, CommandItems,
  Children,     \* list -> its items in order
  ItemScript,   \* command or input -> [text, act, force]: whether a script is
                \* sent to the printer, and what is called while it is rendered
  Realtime,     \* inputs whose script runs while they are edited
  Limits,       \* input -> [min, max, step]
  FirstValues,  \* input -> value of the printer's setting
  Fickle,       \* items that may be enabled or not
  Rows,         \* of the display
  MenuTimeout,  \* seconds without a key until the menu is left
  Reversed,     \* menu_reverse_navigation
  MaxKeys,      \* bound
  AdcButtons,   \* buttons on one analog pin
  Debounce,     \* ADC_DEBOUNCE_TIME in reports
  MaxAngle      \* bound: how far the knob is turned

ASSUME PanelAssumption ==
  /\ Root \in Lists /\ Realtime \subseteq Inputs
  /\ \A c \in Lists : ToSet(Children[c]) \subseteq Lists \cup Inputs \cup CommandItems
  /\ \A i \in Inputs : Limits[i].min <= Limits[i].max /\ Limits[i].step > 0
  /\ \A i \in Inputs \cup CommandItems :
       ItemScript[i].act \in {"none", "back", "exit"}

VARIABLES
  menu,      \* MenuManager and its items, see MenuInit
  enabled,   \* Fickle items that are enabled now
  setting,   \* input -> what the printer has
  busy,      \* scripts that dispatch_gcode is running: one for each callback
  ran,       \* history: scripts that have run, and whether in order
  button,    \* the click button: [down, short, armed]
  owed,      \* history: presses of the button that are not yet clicks
  keys_used,
  steps,         \* encoder_steps_per_detent: 4, or 2 with a rest at 00 too
  encoder_state,
  angle,         \* of the knob, in quarters of the cycle of its pins
  turned,        \* history: cw less ccw callbacks
  ahead,         \* history: turned less the detents, once pins 11 were seen
  last_button, last_pressed,
  debounced,     \* reports since last_debouncetime
  readings,      \* history: the last of them
  adc_down,      \* history: buttons whose callbacks said that they are pressed
  adc_called     \* history: the last report called one

menuVars == <<menu, enabled, setting, busy, ran, button, owed, keys_used>>
knobVars == <<steps, encoder_state, angle, turned, ahead, last_button,
              last_pressed, debounced, readings, adc_down, adc_called>>

NoValue == <<>>
BackItem == ".."
NoItem == "no item"

-----------------------------------------------------------------------------
(* Lists and their selection; places count from one, 0 is no selection.    *)

Current(m) ==
  LET c == Last(m.stack)
  IN IF m.selected[c] \in DOMAIN m.items[c] THEN m.items[c][m.selected[c]] ELSE NoItem

Editing(m, i) == i \in Inputs /\ m.value[i] # NoValue

\* MenuContainer.is_editing, down to the lists of a list
RECURSIVE EditingIn(_, _)
EditingIn(m, c) == \E i \in ToSet(m.items[c]) :
  Editing(m, i) \/ (i \in Lists /\ EditingIn(m, i))

Shown(c, on) ==
  <<BackItem>> \o SelectSeq(Children[c], LAMBDA i : i \in Fickle => i \in on)

\* update_items and init_selection
Entered(m, c) ==
  [m EXCEPT !.items[c] = Shown(c, m.on), !.selected[c] = 1]

\* populate: inputs of the list are as new.
Populated(m, c) ==
  LET fresh == Inputs \cap ToSet(Children[c])
      Cleared(f, v) == [i \in Inputs |-> IF i \in fresh THEN v ELSE f[i]]
  IN [m EXCEPT !.value = Cleared(@, NoValue), !.dirty = Cleared(@, FALSE),
               !.since = Cleared(@, FALSE), !.viewport_top[c] = 0]

StackPush(m, c) ==
  LET p == Populated(m, c)
  IN [(IF EditingIn(p, c) THEN p ELSE Entered(p, c))
        EXCEPT !.stack = Append(@, c), !.entered = m.on]

StackPop(m) ==
  LET p == [m EXCEPT !.stack = Front(@), !.entered = m.on]
  IN IF p.stack # <<>> /\ ~EditingIn(p, Last(p.stack))
     THEN Entered(p, Last(p.stack)) ELSE p

SelectNext(m, c) ==
  [m EXCEPT !.selected[c] = IF @ = 0 THEN 1 ELSE IF @ < Len(m.items[c]) THEN @ + 1 ELSE @]
SelectPrev(m, c) == [m EXCEPT !.selected[c] = IF @ <= 1 THEN 1 ELSE @ - 1]

\* An edit that is broken off counts as forced.
Broken(m, i) == [m EXCEPT !.value[i] = NoValue, !.forced = TRUE]

Back(m, force) ==
  LET t == [m EXCEPT !.timer = 0]
      left == Last(t.stack)
      i == Current(t)
      s == IF Editing(t, i) THEN Broken(t, i) ELSE t
      p == StackPop(s)
      parent == Last(p.stack)
      place == {n \in DOMAIN p.items[parent] : p.items[parent][n] = left}
  IN IF Editing(t, i) /\ ~force THEN t
     ELSE IF Len(t.stack) = 1 THEN [p EXCEPT !.running = FALSE]
     ELSE IF place # {} THEN [p EXCEPT !.selected[parent] = CHOOSE n \in place : TRUE]
     ELSE IF Current(p) = NoItem THEN [p EXCEPT !.selected[parent] = 1] ELSE p

Exit(m, force) ==
  LET t == [m EXCEPT !.timer = 0]
      editing == Editing(t, Current(t))
  IN IF editing /\ ~force THEN t
     ELSE [t EXCEPT !.running = FALSE, !.forced = @ \/ editing]

\* begin: the stack of a menu that was left is forgotten.
Begin(m) ==
  [StackPush([m EXCEPT !.stack = <<>>, !.timer = 0, !.selected[Root] = 1], Root)
     EXCEPT !.running = TRUE]

-----------------------------------------------------------------------------
(* Scripts and inputs.                                                     *)

\* queue_gcode: a callback is registered when the queue was empty.
QueueGcode(m, script) ==
  [m EXCEPT !.callbacks = IF m.gcode_queue = <<>> THEN @ + 1 ELSE @,
            !.gcode_queue = Append(@, [script EXCEPT !.nr = m.asked + 1]),
            !.asked = @ + 1]

\* run_script("gcode", event): what it calls comes first.
RunScript(m, i, event) ==
  LET s == ItemScript[i]
      r == CASE ~m.running \/ s.act = "none" -> m
             [] m.running /\ s.act = "back" -> Back(m, s.force)
             [] m.running /\ s.act = "exit" -> Exit(m, s.force)
      script == [nr |-> 0, item |-> i,
                 value |-> IF i \in Inputs THEN m.value[i] ELSE NoValue]
  IN IF s.text THEN QueueGcode(r, script) ELSE r

Limited(i, v) ==
  LET l == Limits[i] IN IF v < l.min THEN l.min ELSE IF v > l.max THEN l.max ELSE v

\* A value that differs is shown and waits until it has been for a while.
WithValue(m, i, v) ==
  IF m.value[i] = <<v>> THEN m
  ELSE [m EXCEPT !.value[i] = <<v>>, !.dirty[i] = TRUE, !.since[i] = m.beat[i]]

StepOf(i, fast) ==
  LET l == Limits[i]
  IN IF fast /\ l.max - l.min > 100 * l.step THEN 10 * l.step ELSE l.step

\* handle_script_click
Clicked(m, i) ==
  IF Editing(m, i) THEN [m EXCEPT !.value[i] = NoValue]
  ELSE WithValue(m, i, Limited(i, setting[i]))

Press(m, event) ==
  LET t == [m EXCEPT !.timer = 0]  i == Current(t)
  IN IF i = BackItem THEN Back(t, FALSE)
     ELSE IF i \in Lists THEN StackPush(t, i)
     ELSE IF i \in CommandItems THEN RunScript(t, i, event)
     ELSE IF i \in Inputs
     THEN LET r == IF Editing(t, i) THEN RunScript(t, i, event) ELSE t
          IN IF event = "click" THEN Clicked(r, i) ELSE r
     ELSE t

\* up and down
Turn(m, up, fast) ==
  LET t == [m EXCEPT !.timer = 0]  c == Last(t.stack)  i == Current(t)
      step == StepOf(i, fast)
  IN IF Editing(t, i)
     THEN WithValue(t, i, Limited(i, t.value[i][1] + (IF up THEN 0 - step ELSE step)))
     ELSE IF up # Reversed THEN SelectPrev(t, c) ELSE SelectNext(t, c)

\* The heartbeat of the selected item; `late' is more than 0.25 seconds after
\* the heartbeat before the last change.
Heartbeat(m, i, late) ==
  LET b == [m EXCEPT !.beat[i] = TRUE]
      due == b.dirty[i] /\ b.since[i] /\ Editing(b, i) /\ late
  IN IF i \notin Inputs THEN m ELSE IF ~due THEN b
     ELSE [(IF i \in Realtime THEN RunScript(b, i, "change") ELSE b)
             EXCEPT !.dirty[i] = FALSE]

\* Adjust and clamp the viewport; rows count from zero.
ViewportTop(top, row, n) ==
  LET down == IF row >= top + Rows THEN row - Rows + 1 ELSE top
      up   == IF row < down THEN row ELSE down
      fits == IF up < n - Rows THEN up ELSE n - Rows
  IN IF fits > 0 THEN fits ELSE 0

\* screen_update_event
DrawContainer(m, late) ==
  LET c == Last(m.stack)
      d == [m EXCEPT !.viewport_top[c] =
              ViewportTop(@, m.selected[c] - 1, Len(m.items[c])), !.drawn = TRUE]
      row == d.selected[c] - d.viewport_top[c]
  IN IF row \in 1..Rows THEN Heartbeat(d, Current(d), late) ELSE d

-----------------------------------------------------------------------------
(* Steps.                                                                  *)

MenuInit ==
  /\ menu = [running |-> FALSE, timer |-> 0, stack |-> <<>>, on |-> Fickle,
             items |-> [c \in Lists |-> <<>>], selected |-> [c \in Lists |-> 0],
             viewport_top |-> [c \in Lists |-> 0],
             value |-> [i \in Inputs |-> NoValue],
             dirty |-> [i \in Inputs |-> FALSE],   \* _is_dirty
             since |-> [i \in Inputs |-> FALSE],   \* __last_change is not None
             beat |-> [i \in Inputs |-> FALSE],    \* _last_heartbeat is not None
             gcode_queue |-> <<>>,
             callbacks |-> 0,                      \* dispatch_gcode, not yet called
             asked |-> 0,                          \* history: scripts queued
             forced |-> FALSE,                     \* history: an edit was broken off
             drawn |-> FALSE,                      \* history: nothing since the drawing
             entered |-> {}]                       \* history: items enabled when the
                                                   \* list that is shown was entered
  /\ enabled = Fickle /\ setting = FirstValues /\ busy = <<>>
  /\ ran = [count |-> 0, sorted |-> TRUE]
  /\ button = [down |-> FALSE, short |-> FALSE, armed |-> FALSE]
  /\ owed = 0 /\ keys_used = 0

Menu(m) == menu' = m
Now == [menu EXCEPT !.on = enabled, !.drawn = FALSE]
Used == keys_used < MaxKeys /\ keys_used' = keys_used + 1
OwnMenu == UNCHANGED <<setting, busy, ran>>

\* _click_callback
Click(event) == Menu(IF menu.running THEN Press(Now, event) ELSE Begin(Now))

\* click_callback with state 1
ButtonPressed ==
  /\ Used /\ ~button.down
  /\ button' = [down |-> TRUE, short |-> TRUE, armed |-> TRUE]
  /\ owed' = owed + 1
  /\ UNCHANGED <<menu, enabled>> /\ OwnMenu

ButtonReleased ==
  /\ button.down
  /\ button' = [button EXCEPT !.down = FALSE, !.armed = @ /\ ~button.short]
  /\ IF button.short THEN owed' = owed - 1 /\ Click("click")
     ELSE UNCHANGED <<owed, menu>>
  /\ UNCHANGED <<enabled, keys_used>> /\ OwnMenu

\* long_click_event, LONG_PRESS_DURATION after the button was pressed
LongClick ==
  /\ button.armed
  /\ button' = [button EXCEPT !.armed = FALSE, !.short = FALSE]
  /\ owed' = owed - 1
  /\ Click("long_click")
  /\ UNCHANGED <<enabled, keys_used>> /\ OwnMenu

\* The encoder, or keys for up, down and back
UpDown(up, fast) ==
  /\ Used
  /\ IF menu.running THEN Menu(Turn(Now, up, fast)) ELSE UNCHANGED menu
  /\ UNCHANGED <<enabled, button, owed>> /\ OwnMenu

BackKey ==
  /\ Used /\ menu.running /\ Menu(Back(Now, FALSE))
  /\ UNCHANGED <<enabled, button, owed>> /\ OwnMenu

\* timeout_check, once in a second
TimerEvent ==
  /\ IF menu.running
     THEN Menu(IF menu.timer >= MenuTimeout THEN Exit(Now, FALSE)
               ELSE [menu EXCEPT !.timer = @ + 1])
     ELSE menu.timer # 0 /\ Menu([menu EXCEPT !.timer = 0])
  /\ UNCHANGED <<enabled, button, owed, keys_used>> /\ OwnMenu

Draw(late) ==
  /\ menu.running /\ Menu(DrawContainer(Now, late))
  /\ UNCHANGED <<enabled, button, owed, keys_used>> /\ OwnMenu

\* An item is no longer enabled; coming back is the same the other way around.
ItemsChange ==
  /\ \E i \in enabled : enabled' = enabled \ {i}
  /\ UNCHANGED <<menu, button, owed, keys_used>> /\ OwnMenu

\* Mutant: the script is taken off the queue before it runs.
PopsAfter_Not == FALSE

\* gcode_queue.pop(0) comes after the script.
PopsAfter == TRUE

\* A callback takes up the next script of this queue, or ends.
Goes(others, queue) ==
  IF queue = <<>> THEN busy' = others
  ELSE busy' = Append(others, Head(queue))
Rest(queue) == IF PopsAfter \/ queue = <<>> THEN queue ELSE Tail(queue)

\* dispatch_gcode begins.
DispatchBegins ==
  /\ menu.callbacks > 0
  /\ Goes(busy, menu.gcode_queue)
  /\ Menu([menu EXCEPT !.callbacks = @ - 1, !.gcode_queue = Rest(@)])
  /\ UNCHANGED <<enabled, setting, ran, button, owed, keys_used>>

\* run_script returns, or fails and is logged; other keys may have been pressed
\* while it waited for the g-code mutex.
DispatchGoesOn(n) ==
  LET left == IF PopsAfter THEN Tail(menu.gcode_queue) ELSE menu.gcode_queue
      s == busy[n]
  IN
  /\ ran' = [count |-> ran.count + 1, sorted |-> ran.sorted /\ s.nr = ran.count + 1]
  /\ setting' = IF s.item \in Inputs THEN [setting EXCEPT ![s.item] = s.value[1]]
                ELSE setting
  /\ Goes(RemoveAt(busy, n), left)
  /\ Menu([menu EXCEPT !.gcode_queue = Rest(left)])
  /\ UNCHANGED <<enabled, button, owed, keys_used>>

MenuNext ==
  \/ ButtonPressed
  \/ ButtonReleased
  \/ LongClick
  \/ \E up, fast \in BOOLEAN : UpDown(up, fast)
  \/ BackKey
  \/ TimerEvent
  \/ \E late \in BOOLEAN : Draw(late)
  \/ ItemsChange
  \/ DispatchBegins
  \/ \E n \in DOMAIN busy : DispatchGoesOn(n)

MenuSpec == MenuInit /\ [][MenuNext]_menuVars

-----------------------------------------------------------------------------
(* Encoders and analog buttons.                                            *)

R_DIR_CW  == 16
R_DIR_CCW == 32

\* The state after the pins read 0, 1, 2, 3, for each state
FullStep == << <<0, 2, 4, 0>>, <<3, 0, 1, R_DIR_CW>>, <<3, 2, 0, 0>>, <<3, 2, 1, 0>>,
               <<6, 0, 4, 0>>, <<6, 5, 0, R_DIR_CCW>>, <<6, 5, 4, 0>> >>
HalfStep == << <<3, 2, 1, 0>>, <<3 + R_DIR_CCW, 0, 1, 0>>, <<3 + R_DIR_CW, 2, 0, 0>>,
               <<3, 5, 4, 0>>, <<3, 3, 4, R_DIR_CW>>, <<3, 5, 3, R_DIR_CCW>> >>

EncoderStates(n) == IF n = 2 THEN HalfStep ELSE FullStep

PinsAt(a) == <<3, 1, 0, 2>>[(a % 4) + 1]
NextState(s, pins) == EncoderStates(steps)[(s % 16) + 1][pins + 1]

\* The detents that the knob is from where it began, at rest
Detents(a) == a \div steps

NoAdcButton == "none"

KnobInit ==
  /\ steps \in {2, 4} /\ angle \in 0..3 /\ turned = 0
  /\ encoder_state = IF PinsAt(angle) = 0 THEN 0 ELSE NextState(0, PinsAt(angle))
  /\ ahead = IF angle = 0 THEN <<0>> ELSE <<>>
  /\ last_button = NoAdcButton /\ last_pressed = NoAdcButton
  /\ debounced = Debounce /\ readings = <<>> /\ adc_down = {} /\ adc_called = FALSE

\* encoder_callback: the knob goes on or back a quarter of a cycle.
EncoderCallback(way) ==
  LET a  == angle + way
      es == NextState(encoder_state, PinsAt(a))
  IN
  /\ 0 - MaxAngle <= a /\ a <= MaxAngle /\ angle' = a
  /\ encoder_state' = es
  /\ turned' = turned + (CASE es \div 16 = 1 -> 1 [] es \div 16 = 2 -> -1
                           [] es \div 16 = 0 -> 0)
  /\ ahead' = IF ahead = <<>> /\ a % 4 = 0 THEN <<turned' - Detents(a)>> ELSE ahead
  /\ UNCHANGED <<steps, last_button, last_pressed, debounced, readings,
                 adc_down, adc_called>>

\* adc_callback, with the button whose range the value lies in
AdcCallback(btn) ==
  LET since == IF btn # last_button THEN 0
               ELSE IF debounced < Debounce THEN debounced + 1 ELSE debounced
      fires == since = Debounce /\ btn = last_button /\ last_pressed # btn
      seen  == Append(readings, btn)
  IN
  /\ debounced' = since /\ last_button' = btn
  /\ readings' = IF Len(seen) > Debounce + 1 THEN Tail(seen) ELSE seen
  /\ adc_called' = fires
  /\ IF fires THEN /\ last_pressed' = btn
                   /\ adc_down' = (adc_down \ {last_pressed})
                                    \cup (IF btn = NoAdcButton THEN {} ELSE {btn})
     ELSE UNCHANGED <<last_pressed, adc_down>>
  /\ UNCHANGED <<steps, encoder_state, angle, turned, ahead>>

KnobNext ==
  \/ \E way \in {-1, 1} : EncoderCallback(way)
  \/ \E btn \in AdcButtons \cup {NoAdcButton} : AdcCallback(btn)

KnobSpec == KnobInit /\ [][KnobNext]_knobVars

-----------------------------------------------------------------------------
(* Properties of the menu.                                                 *)

\* Each press of the button is one click or one long click, and never both
\* (menu_keys.py:83-96).
ClicksTrue == owed = IF button.armed THEN 1 ELSE 0

\* The list above another one is the item selected there, so that back leads
\* the way that was taken (menu.py:880-902).
PathTrue == \A k \in 1..(Len(menu.stack) - 1) :
  LET c == menu.stack[k] IN
  /\ menu.selected[c] \in DOMAIN menu.items[c]
  /\ menu.items[c][menu.selected[c]] = menu.stack[k + 1]

\* What can be selected are the items that were enabled when the list was
\* entered, unless a script broke off an edit: the input it leaves is edited
\* again by the click that ran the script (menu.py:574-578).
ItemsCurrent == menu.running =>
  LET c == Last(menu.stack) IN
  /\ Current(menu) # NoItem
  /\ ~menu.forced => menu.items[c] = Shown(c, menu.entered)

\* Only the input that is selected is edited, within its limits; with a script
\* that breaks off edits this is so for the lists on the stack.
EditsShown == \A i \in Inputs : Editing(menu, i) =>
  /\ Limits[i].min <= menu.value[i][1] /\ menu.value[i][1] <= Limits[i].max
  /\ \/ menu.running /\ Current(menu) = i
     \/ /\ menu.forced
        /\ menu.running => \A c \in ToSet(menu.stack) : i \notin ToSet(Children[c])

\* The selected item is on the display (menu.py:601-627).
SelectedVisible == (menu.running /\ menu.drawn) =>
  LET c == Last(menu.stack)
  IN menu.selected[c] - menu.viewport_top[c] \in 1..Rows

\* Scripts run once each, in order and one at a time, and none is left in the
\* queue with nobody to run it (menu.py:944-959).
ScriptsInOrder ==
  /\ ran.sorted /\ ran.count + Len(menu.gcode_queue) = menu.asked
  /\ Len(busy) + menu.callbacks = IF menu.gcode_queue = <<>> THEN 0 ELSE 1

\* A knob that comes to rest has called back once for each detent, whatever
\* way it took and however it bounced, since it rested at 11 for the first time
\* (buttons.py:160-250).
TurnsTrue == (ahead # <<>> /\ angle % steps = 0) => turned - Detents(angle) = ahead[1]

\* One analog button at most is pressed, and a callback is called only for what
\* has been read all the time of the debouncing (buttons.py:117-158).
AdcTrue ==
  /\ adc_down = {last_pressed} \ {NoAdcButton}
  /\ adc_called => /\ Len(readings) = Debounce + 1
                   /\ \A n \in DOMAIN readings : readings[n] = last_pressed

\* The panel does what its keys and knobs say.
PanelSound == /\ ClicksTrue /\ PathTrue /\ ItemsCurrent
              /\ EditsShown /\ SelectedVisible /\ ScriptsInOrder
              /\ TurnsTrue /\ AdcTrue
=============================================================================
