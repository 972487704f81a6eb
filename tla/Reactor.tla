-------------------------------- MODULE Reactor --------------------------------
(***************************************************************************)
(* The reactor (reactor.py): timers, and the greenlets in which their      *)
(* callbacks run.  A callback that has to wait pauses: the greenlet that   *)
(* dispatched it stops being the dispatcher, another one takes over, and a *)
(* timer of its own brings the first one back.  What a callback waits for  *)
(* is a completion, or a mutex, that another callback completes or hands   *)
(* over by moving that timer.                                              *)
(*                                                                         *)
(* A wake time is one of NOW, Later and NEVER: time passes while the       *)
(* dispatcher polls, and then what was Later is due.  Callbacks do what    *)
(* they like in any order.  Garbage collection is left out, and so are     *)
(* callbacks from other threads, which the pipe turns into input.          *)
(***************************************************************************)
EXTENDS Integers, Sequences, FiniteSets

Lists == INSTANCE SequencesExt

CONSTANTS
  Timers,       \* timers the program registers
  Greenlets,    \* bound: greenlets there may be
  Completions

NOW   == 0      \* and any time that has passed
Later == 1
NEVER == 2

Input   == "input"     \* a callback of a file descriptor
Nothing == "nothing"
Mutex   == "mutex"

ASSUME ReactorAssumption ==
  /\ IsFiniteSet(Timers) /\ Timers \cap Greenlets = {}
  /\ {Input, Nothing} \cap (Timers \cup Greenlets) = {}
  /\ {Mutex, Nothing} \cap Completions = {}

VARIABLES
  current,      \* the greenlet that runs
  g_dispatch,
  at,           \* where each greenlet is: in the poll, in the loop over the
                \* timers, in a callback, switched away, paused, or idle
  calls,        \* the timer (or Input) whose callback it runs
  rest,         \* the timers its loop has still to visit
  waits,        \* what it waits for in pause
  spare,        \* _greenlets
  registered,   \* _timers, the greenlets' own among them
  waketime, next_timer,
  result,       \* completions that have a result
  is_locked, next_pending, queue,  \* the mutex
  owners        \* history: those inside the mutex

reactorVars == <<current, g_dispatch, at, calls, rest, waits, spare,
                 registered, waketime, next_timer, result, is_locked,
                 next_pending, queue, owners>>

mutexVars    == <<is_locked, next_pending, queue, owners>>
greenletVars == <<current, g_dispatch, at, calls, rest, spare, registered>>

Sooner(s, t) == IF s <= t THEN s ELSE t

\* run: one greenlet, in the dispatch loop; the timers were registered in some
\* order
ReactorInit ==
  \E g \in Greenlets, order \in [1..Cardinality(Timers) -> Timers] :
    /\ Timers \subseteq Lists!ToSet(order)
    /\ current = g /\ g_dispatch = g
    /\ at = [h \in Greenlets |-> IF h = g THEN "poll" ELSE "none"]
    /\ calls = [h \in Greenlets |-> Nothing]
    /\ rest = << >> /\ spare = << >> /\ registered = order
    /\ waits = [h \in Greenlets |-> Nothing]
    /\ waketime = [t \in Timers \cup Greenlets |->
                     IF t \in Timers THEN NOW ELSE NEVER]
    /\ next_timer = NOW
    /\ result = {} /\ is_locked = FALSE /\ next_pending = FALSE
    /\ queue = << >> /\ owners = {}

-----------------------------------------------------------------------------
(* The dispatch loop.                                                      *)

Dispatching(where) == current = g_dispatch /\ at[current] = where

\* _check_timers up to the loop, after a poll during which time may pass.
CheckTimers ==
  /\ Dispatching("poll")
  /\ \E passed \in BOOLEAN :
       LET Aged(w) == IF passed /\ w = Later THEN NOW ELSE w IN
       /\ waketime' = [t \in DOMAIN waketime |-> Aged(waketime[t])]
       /\ IF Aged(next_timer) = NOW
          THEN /\ next_timer' = NEVER /\ rest' = registered
               /\ at' = [at EXCEPT ![current] = "timers"]
          ELSE /\ next_timer' = Aged(next_timer) /\ UNCHANGED <<rest, at>>
  /\ UNCHANGED <<current, g_dispatch, calls, waits, spare, registered, result,
                 mutexVars>>

LoopEnds ==
  /\ Dispatching("timers") /\ rest = << >>
  /\ at' = [at EXCEPT ![current] = "poll"]
  /\ UNCHANGED <<current, g_dispatch, calls, rest, waits, spare, registered,
                 waketime, next_timer, result, mutexVars>>

Call(t) ==
  /\ at' = [at EXCEPT ![current] = "callback"]
  /\ calls' = [calls EXCEPT ![current] = t]
  /\ UNCHANGED <<current, waits, mutexVars>>

\* The end of wait, and of __enter__, in the greenlet the dispatcher switches
\* to; one that was not handed the mutex pauses again at once.
SwitchTo(g) ==
  /\ UNCHANGED calls
  /\ IF waits[g] = Mutex /\ ~(next_pending /\ Head(queue) = g)
     THEN UNCHANGED <<current, at, waits, mutexVars>>
     ELSE /\ current' = g
          /\ at' = [at EXCEPT ![current] = "switched", ![g] = "callback"]
          /\ waits' = [waits EXCEPT ![g] = Nothing]
          /\ IF waits[g] = Mutex
             THEN /\ next_pending' = FALSE /\ queue' = Tail(queue)
                  /\ owners' = owners \cup {g} /\ UNCHANGED is_locked
             ELSE UNCHANGED mutexVars

\* One round of the loop of _check_timers.
VisitTimer ==
  /\ Dispatching("timers") /\ rest # << >> /\ rest' = Tail(rest)
  /\ LET t == Head(rest) IN
     IF waketime[t] # NOW
     THEN /\ next_timer' = Sooner(next_timer, waketime[t])
          /\ UNCHANGED <<current, at, calls, waits, waketime, mutexVars>>
     ELSE /\ waketime' = [waketime EXCEPT ![t] = NEVER]
          /\ UNCHANGED next_timer
          /\ IF t \in Timers THEN Call(t) ELSE SwitchTo(t)
  /\ UNCHANGED <<g_dispatch, spare, registered, result>>

ReadInput ==
  /\ Dispatching("poll") /\ Call(Input)
  /\ UNCHANGED <<g_dispatch, rest, spare, registered, waketime, next_timer,
                 result>>

-----------------------------------------------------------------------------
(* What a callback does.                                                   *)

Running == at[current] = "callback"

\* Mutant: the new dispatcher sleeps although the loop was left half way.
PauseWakes_Later(w) == Sooner(next_timer, w)

PauseWakes(w) == NOW

\* pause of a greenlet that another one dispatches: back to that one's loop
PauseSwitched(w) ==
  /\ current # g_dispatch
  /\ current' = g_dispatch
  /\ at' = [at EXCEPT ![current] = "paused", ![g_dispatch] = "timers"]
  /\ waketime' = [waketime EXCEPT ![current] = w]
  /\ next_timer' = Sooner(next_timer, w)
  /\ UNCHANGED <<g_dispatch, rest, spare, registered>>

\* pause of the dispatcher: another greenlet takes over
PauseDispatcher(w) ==
  /\ current = g_dispatch
  /\ \E g \in Greenlets :
       /\ \/ spare # << >> /\ g = Lists!Last(spare)
           /\ spare' = Lists!Front(spare)
          \/ spare = << >> /\ at[g] = "none" /\ UNCHANGED spare
       /\ current' = g /\ g_dispatch' = g
       /\ at' = [at EXCEPT ![current] = "paused", ![g] = "poll"]
  /\ rest' = << >> /\ registered' = Append(registered, current)
  /\ waketime' = [waketime EXCEPT ![current] = w]
  /\ next_timer' = PauseWakes(w)

Pause(w) == (PauseSwitched(w) \/ PauseDispatcher(w)) /\ UNCHANGED calls

\* update_timer, of any timer
UpdateTimer ==
  /\ Running
  /\ \E t \in Timers : waketime' = [waketime EXCEPT ![t] = NOW]
  /\ next_timer' = NOW
  /\ UNCHANGED <<greenletVars, waits, result, mutexVars>>

\* ReactorCompletion.complete
CompleteOne ==
  /\ Running
  /\ \E c \in Completions :
       LET waiting == {g \in Greenlets : waits[g] = c} IN
       /\ result' = result \cup {c}
       /\ waketime' = [t \in DOMAIN waketime |->
                         IF t \in waiting THEN NOW ELSE waketime[t]]
       /\ next_timer' = IF waiting = {} THEN next_timer ELSE NOW
  /\ UNCHANGED <<greenletVars, waits, mutexVars>>

\* A new one, in place of one that nobody uses any more.
NewCompletion ==
  /\ Running
  /\ \E c \in result : /\ \A g \in Greenlets : waits[g] # c
                       /\ result' = result \ {c}
  /\ UNCHANGED <<greenletVars, waits, waketime, next_timer, mutexVars>>

\* ReactorCompletion.wait, with or without a time limit
WaitCompletion ==
  /\ Running
  /\ \E c \in Completions \ result, w \in {Later, NEVER} :
       waits' = [waits EXCEPT ![current] = c] /\ Pause(w)
  /\ UNCHANGED <<result, mutexVars>>

\* ReactorMutex.__enter__
Lock ==
  /\ Running /\ current \notin owners
  /\ IF is_locked
     THEN /\ queue' = Append(queue, current)
          /\ waits' = [waits EXCEPT ![current] = Mutex] /\ Pause(NEVER)
          /\ UNCHANGED <<is_locked, next_pending, owners>>
     ELSE /\ is_locked' = TRUE /\ owners' = owners \cup {current}
          /\ UNCHANGED <<greenletVars, waits, waketime, next_timer, queue,
                         next_pending>>
  /\ UNCHANGED result

\* ReactorMutex.__exit__
Unlock ==
  /\ Running /\ current \in owners /\ owners' = owners \ {current}
  /\ IF queue = << >>
     THEN is_locked' = FALSE /\ UNCHANGED <<next_pending, waketime, next_timer>>
     ELSE /\ next_pending' = TRUE /\ next_timer' = NOW
          /\ waketime' = [waketime EXCEPT ![Head(queue)] = NOW]
          /\ UNCHANGED is_locked
  /\ UNCHANGED <<greenletVars, waits, queue, result>>

\* The callback returns the time it wants to be called at: to the loop that
\* called it when its greenlet still dispatches, else by _end_greenlet.
CallbackReturns ==
  /\ Running /\ current \notin owners
  /\ \E w \in IF calls[current] = Input THEN {NEVER} ELSE {NOW, Later, NEVER} :
       /\ waketime' = [t \in DOMAIN waketime |->
                         IF t = calls[current] THEN w
                         ELSE IF t = current THEN NEVER ELSE waketime[t]]
       /\ next_timer' = Sooner(next_timer, w)
  /\ calls' = [calls EXCEPT ![current] = Nothing]
  /\ IF current = g_dispatch
     THEN /\ at' = [at EXCEPT ![current] = IF calls[current] = Input
                                           THEN "poll" ELSE "timers"]
          /\ UNCHANGED <<current, spare, registered>>
     ELSE /\ at' = [at EXCEPT ![current] = "spare", ![g_dispatch] = "timers"]
          /\ current' = g_dispatch /\ spare' = Append(spare, current)
          /\ \E k \in DOMAIN registered :
               registered[k] = current
               /\ registered' = Lists!RemoveAt(registered, k)
  /\ UNCHANGED <<g_dispatch, rest, waits, result, mutexVars>>

ReactorNext ==
  \/ CheckTimers \/ LoopEnds \/ VisitTimer \/ ReadInput
  \/ UpdateTimer \/ CompleteOne \/ NewCompletion \/ WaitCompletion
  \/ Lock \/ Unlock \/ CallbackReturns

ReactorSpec == ReactorInit /\ [][ReactorNext]_reactorVars

-----------------------------------------------------------------------------
(* Properties.                                                             *)

\* The types of the variables.
ReactorTypes ==
  /\ current \in Greenlets /\ g_dispatch \in Greenlets
  /\ calls \in [Greenlets -> Timers \cup {Input, Nothing}]
  /\ waits \in [Greenlets -> Completions \cup {Mutex, Nothing}]
  /\ waketime \in [Timers \cup Greenlets -> {NOW, Later, NEVER}]
  /\ next_timer \in {NOW, Later, NEVER}
  /\ result \subseteq Completions /\ owners \subseteq Greenlets

WaitIsOver(g) ==
  \/ waits[g] \in result
  \/ waits[g] = Mutex /\ next_pending /\ Head(queue) = g

\* No wake-up is lost: a greenlet whose completion has a result, or that was
\* handed the mutex, is due, and the dispatcher looks at its timers again no
\* later than any of them is due, whoever pauses in the middle of the loop and
\* whatever the callbacks move (reactor.py:120-164, 208-250).
NoWakeupLost ==
  /\ \A g \in Greenlets : WaitIsOver(g) => waketime[g] = NOW
  /\ \A t \in Lists!ToSet(registered) : waketime[t] < next_timer => t \in Lists!ToSet(rest)
=============================================================================
