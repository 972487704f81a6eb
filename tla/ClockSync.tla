------------------------------ MODULE ClockSync ------------------------------
(***************************************************************************)
(* How clocksync.py keeps track of a micro-controller's clock.  The        *)
(* controller sends 32 bits of it.  A timer asks for the clock about once  *)
(* a second; the answers, which the line may lose, move last_clock, and    *)
(* every other clock in a message is extended with it.  That is right as   *)
(* long as answers come; the statistics timer gives the controller up when *)
(* too many are outstanding.                                               *)
(*                                                                         *)
(* One unit of time is one tick of the controller.  Round-trip times, the  *)
(* filter of outliers and the regression are left out: last_clock is set   *)
(* before them and does not depend on them.                                *)
(***************************************************************************)
EXTENDS Extension, Sequences

CONSTANTS
  Turn,         \* 2^32
  QueryPeriod,  \* between two get_clock queries (.9839 s)
  CheckPeriod,  \* between two rounds of statistics (2 s)
  Late,         \* bound: how late the reactor runs a timer
  Delay,        \* bound: how old a message is when it is handled
  Unanswered,   \* queries is_active allows to be pending (4)
  MaxUnderway,  \* bound: queries, and answers, on their way at once
  LastTick      \* bound: the last tick

\* Two rounds of statistics are less than three queries apart, and half a
\* turn is longer than the controller can be silent before it is given up.
ASSUME ClockAssumption ==
  /\ Turn \in Nat /\ QueryPeriod \in Nat \ {0} /\ CheckPeriod \in Nat
  /\ Late \in Nat /\ Delay \in Nat /\ Unanswered \in Nat
  /\ MaxUnderway \in Nat /\ LastTick \in Nat
  /\ CheckPeriod + Late < 3 * QueryPeriod
  /\ Turn \div 2 > Delay + (Unanswered + 4) * (QueryPeriod + Late)

VARIABLES
  mcu_clock,        \* the controller's clock, all of it
  asked,            \* queries on their way to it
  answers,          \* its answers on their way to the host, all their bits
  last_clock, queries_pending,
  since_query, since_check,  \* the time since the two timers fired,
  is_timeout,       \* whether the controller was given up
  sampled, recent   \* history: the answer handled last, and the queries
                    \* since the last round of statistics

clockVars == <<mcu_clock, asked, answers, last_clock, queries_pending,
               since_query, since_check, is_timeout, sampled, recent>>

\* connect reads the whole clock with get_uptime.
ClockInit ==
  /\ mcu_clock = 0 /\ asked = 0 /\ answers = << >>
  /\ last_clock = 0 /\ queries_pending = 0 /\ sampled = 0
  /\ since_query = 0 /\ since_check = 0 /\ recent = 0 /\ is_timeout = FALSE

\* Mutant: that queries are pending is noted, and not how many.
Counted_Flag == 1

Counted == queries_pending + 1

\* _get_clock_event.  A query beyond the bound may as well be one whose
\* answer is lost.
GetClockEvent ==
  /\ since_query >= QueryPeriod /\ since_query' = 0
  /\ asked' = IF asked < MaxUnderway THEN asked + 1 ELSE asked
  /\ queries_pending' = Counted /\ recent' = recent + 1
  /\ UNCHANGED <<mcu_clock, answers, last_clock, since_check, is_timeout,
                 sampled>>

McuAnswers ==
  /\ asked > 0 /\ Len(answers) < MaxUnderway /\ asked' = asked - 1
  /\ answers' = Append(answers, mcu_clock)
  /\ UNCHANGED <<mcu_clock, last_clock, queries_pending, since_query,
                 since_check, is_timeout, sampled, recent>>

LoseAnswer ==
  /\ answers # << >> /\ answers' = Tail(answers)
  /\ UNCHANGED <<mcu_clock, asked, last_clock, queries_pending, since_query,
                 since_check, is_timeout, sampled, recent>>

\* _handle_clock, in the background thread
HandleClock ==
  /\ answers # << >> /\ answers' = Tail(answers)
  /\ queries_pending' = 0
  /\ last_clock' = ExtendForward(last_clock, Head(answers) % Turn, Turn)
  /\ sampled' = Head(answers)
  /\ UNCHANGED <<mcu_clock, asked, since_query, since_check, is_timeout,
                 recent>>

IsActive == queries_pending <= Unanswered

\* MCU.check_active
CheckActive ==
  /\ since_check >= CheckPeriod /\ since_check' = 0 /\ recent' = 0
  /\ is_timeout' = (is_timeout \/ ~IsActive)
  /\ UNCHANGED <<mcu_clock, asked, answers, last_clock, queries_pending,
                 since_query, sampled>>

\* Timers and messages are not later than they may be.
ClockTicks ==
  /\ mcu_clock < LastTick /\ mcu_clock' = mcu_clock + 1
  /\ since_query < QueryPeriod + Late /\ since_query' = since_query + 1
  /\ since_check < CheckPeriod + Late /\ since_check' = since_check + 1
  /\ answers # << >> => mcu_clock < Head(answers) + Delay
  /\ UNCHANGED <<asked, answers, last_clock, queries_pending, is_timeout,
                 sampled, recent>>

ClockNext == GetClockEvent \/ McuAnswers \/ LoseAnswer \/ HandleClock
             \/ CheckActive \/ ClockTicks

ClockSpec == ClockInit /\ [][ClockNext]_clockVars

\* clock32_to_clock64
Clock32To64(clock32) == ExtendNearest(last_clock, clock32, Turn)

-----------------------------------------------------------------------------
(* Properties.                                                             *)

\* The types of the variables.
ClockTypes ==
  /\ mcu_clock \in Nat /\ asked \in Nat /\ answers \in Seq(Nat)
  /\ last_clock \in Int /\ queries_pending \in Nat /\ sampled \in Nat
  /\ since_query \in Nat /\ since_check \in Nat /\ recent \in Nat
  /\ is_timeout \in BOOLEAN

\* Until the controller is given up every clock that comes in is extended to
\* the clock it was taken from, however many answers are lost and however
\* late the timers are: is_active lets few enough queries go unanswered
\* (clocksync.py:62-71, 138-144; mcu.py:981-993).
ClocksExact ==
  is_timeout \/ \A clock \in (mcu_clock - Delay)..mcu_clock :
                  Clock32To64(clock % Turn) = clock
=============================================================================
